---------------------------- MODULE IndexProofs ----------------------------
(***************************************************************************)
(* No index of tinydb misses a row: theorems UsernameIndexIsComplete and   *)
(* SnapshotsAreComplete, for any rows and values, any sequence of          *)
(* statements and a crash between any two file operations.                 *)
(***************************************************************************)
EXTENDS IndexSidecars, SequenceTheorems, TLAPS

----------------------------------------------------------------------------
(* The files                                                               *)

Epoch == Nat \cup {Absent}
SnapshotOf == [epoch : Nat, entries : Content]

FileContent(f) ==
    CASE f = "rows" -> [Table -> Content]
      [] f \in {"catalog", "catalogWal"} -> Catalog \cup {Absent, Torn}
      [] f \in {"names", "namesWal"} -> Content \cup {Absent, Torn}
      [] f = "epoch" -> Epoch
      [] f \in {"eq", "range"} -> SnapshotOf \cup {Absent, Torn}

DiskOK(d) == d = [f \in File |-> d[f]] /\ \A f \in File : d[f] \in FileContent(f)

Op == {o \in [file : File, content : UNION {FileContent(f) : f \in File}] :
          o.content \in FileContent(o.file)}

Done(d, f, c) == [d EXCEPT ![f] = c]

----------------------------------------------------------------------------
(* The inductive invariant                                                 *)

\* While a catalog calls the username file valid, that file shows every
\* committed row.
Trusts(d) == \E f \in {"catalog", "catalogWal"} : Readable(d[f]) /\ d[f].names /\ d[f].valid
Matching(d) == \A f \in {"names", "namesWal"} : Readable(d[f]) => ~Misses(d[f], d.rows.users)

EpochOf(d) == IF d.epoch = Absent THEN FreshSeed ELSE d.epoch

\* Snapshots are not newer than the epoch, and those as new show every
\* committed row.
SnapshotSafe(d, f) ==
    Readable(d[f]) => /\ d.epoch # Absent /\ d[f].epoch <= d.epoch
                      /\ d[f].epoch = d.epoch => ~Misses(d[f].entries, d.rows.other)

\* The other table never had an index.
NoneYet(d) ==
    /\ d.eq = Absent /\ d.range = Absent
    /\ \A f \in {"catalog", "catalogWal"} : Readable(d[f]) => ~d[f].wide

\* The files are safe to open at any moment; w is what watch says.
Good(d, w) ==
    /\ DiskOK(d)
    /\ Trusts(d) => Matching(d)
    /\ w # "unseen" => SnapshotSafe(d, "eq") /\ SnapshotSafe(d, "range")
    /\ w = "never" => NoneYet(d)

\* The file operations of t lead from d to e, by way of good files only.
Leads(d, t, e, w) ==
    /\ t \in Seq(Op)
    /\ \E disks :
          /\ disks[0] = d /\ disks[Len(t)] = e
          /\ \A k \in 0 .. Len(t) : Good(disks[k], w)
          /\ \A k \in 1 .. Len(t) : disks[k] = Done(disks[k - 1], t[k].file, t[k].content)

\* The cache of the equality route is not newer than the epoch either.
CacheSafe(d) ==
    ~wide.cache.dirty => /\ wide.cache.epoch <= EpochOf(d)
                         /\ wide.cache.epoch = EpochOf(d)
                              => ~Misses(wide.cache.entries, d.rows.other)

\* Rows that a transaction has changed have made every snapshot too old.
Changed(d) == rows.other # d.rows.other \/ (savepoint # None /\ savepoint.other # d.rows.other)
TooOld(d) ==
    /\ ~wide.cache.dirty => wide.cache.epoch < EpochOf(d)
    /\ \A f \in {"eq", "range"} : Readable(d[f]) => d[f].epoch < EpochOf(d)

(* How memory will agree with the files when the running statement ends.   *)
TransactionAgrees(e) == ~inTransaction => e.rows = rows /\ savepoint = None

NamesAgree(e) ==
    /\ Trusts(e) => names.enabled
    /\ names.enabled /\ ~names.dirty =>
          Matching(e) /\ ~Misses(names.entries, rows.users) /\ rows.users = e.rows.users

WideAgrees(e) ==
    /\ watch # "unseen" => CacheSafe(e) /\ (Changed(e) => TooOld(e))
    /\ watch = "never" => ~wide.enabled /\ wide.cache.dirty

Agrees(e) == TransactionAgrees(e) /\ NamesAgree(e) /\ WideAgrees(e)

NamesIndex == [enabled : BOOLEAN, dirty : BOOLEAN, entries : Content]
Cache == [epoch : Nat \cup {None}, dirty : BOOLEAN, entries : Content]

Memory ==
    /\ rows \in [Table -> Content]
    /\ savepoint = None \/ savepoint \in [Table -> Content]
    /\ inTransaction \in BOOLEAN
    /\ names \in NamesIndex
    /\ sec \in {None, "username", "email"}
    /\ wide \in [enabled : BOOLEAN, cache : Cache]
    /\ ~wide.cache.dirty => wide.cache.epoch \in Nat
    /\ up \in BOOLEAN
    /\ watch \in {"never", "kept", "unseen"}

IndexInv ==
    /\ Memory
    /\ \E e : Leads(disk, todo, e, watch) /\ (up => Agrees(e))
    /\ ~up => /\ todo = <<>> /\ rows = disk.rows /\ ~inTransaction /\ savepoint = None
              /\ names = NoNames /\ wide = NoWide

----------------------------------------------------------------------------
(* Sequences of file operations                                            *)

\* No operation leads nowhere else.
LEMMA LeadsEmpty ==
    ASSUME NEW d, NEW w, Good(d, w)
    PROVE  Leads(d, <<>>, d, w)
<1>1. <<>> \in Seq(Op) /\ Len(<<>>) = 0
  BY EmptySeq
<1> DEFINE disks == [k \in 0 .. 0 |-> d]
<1>2. /\ disks[0] = d /\ \A k \in 0 .. 0 : Good(disks[k], w)
      /\ \A k \in 1 .. 0 : disks[k] = Done(disks[k - 1], (<<>>)[k].file, (<<>>)[k].content)
  OBVIOUS
<1> QED
  BY <1>1, <1>2 DEF Leads

\* One write.
LEMMA LeadsWrite ==
    ASSUME NEW d, NEW w, NEW f \in File, NEW c \in FileContent(f),
           Good(d, w), Good(Done(d, f, c), w)
    PROVE  Leads(d, WriteFile(f, c), Done(d, f, c), w)
<1> DEFINE o == [file |-> f, content |-> c]
           disks == [k \in 0 .. 1 |-> IF k = 0 THEN d ELSE Done(d, f, c)]
<1>1. o \in Op
  BY DEF Op
<1>2. WriteFile(f, c) = <<o>> /\ <<o>> \in Seq(Op) /\ Len(<<o>>) = 1 /\ <<o>>[1] = o
  BY <1>1 DEF WriteFile
<1>3. /\ disks[0] = d /\ disks[1] = Done(d, f, c)
      /\ \A k \in 0 .. 1 : Good(disks[k], w)
      /\ \A k \in 1 .. 1 : k = 1 /\ disks[k] = Done(disks[k - 1], f, c)
  OBVIOUS
<1> HIDE DEF disks
<1>4. \A k \in 1 .. 1 : disks[k] = Done(disks[k - 1], <<o>>[k].file, <<o>>[k].content)
  BY <1>2, <1>3
<1> QED
  BY <1>2, <1>3, <1>4 DEF Leads

\* One sequence after the other.
LEMMA LeadsThen ==
    ASSUME NEW d, NEW e, NEW g, NEW w, NEW s, NEW t,
           Leads(d, s, e, w), Leads(e, t, g, w)
    PROVE  Leads(d, s \o t, g, w)
<1>1. /\ s \in Seq(Op) /\ t \in Seq(Op) /\ s \o t \in Seq(Op)
      /\ Len(s) \in Nat /\ Len(t) \in Nat /\ Len(s \o t) = Len(s) + Len(t)
      /\ \A k \in 1 .. Len(s) + Len(t) :
            (s \o t)[k] = IF k <= Len(s) THEN s[k] ELSE t[k - Len(s)]
  BY DEF Leads
<1>2. PICK A : /\ A[0] = d /\ A[Len(s)] = e
               /\ \A k \in 0 .. Len(s) : Good(A[k], w)
               /\ \A k \in 1 .. Len(s) : A[k] = Done(A[k - 1], s[k].file, s[k].content)
  BY DEF Leads
<1>3. PICK B : /\ B[0] = e /\ B[Len(t)] = g
               /\ \A k \in 0 .. Len(t) : Good(B[k], w)
               /\ \A k \in 1 .. Len(t) : B[k] = Done(B[k - 1], t[k].file, t[k].content)
  BY DEF Leads
<1> DEFINE n == Len(s) + Len(t)
           disks == [k \in 0 .. n |-> IF k <= Len(s) THEN A[k] ELSE B[k - Len(s)]]
<1>4. disks[0] = d /\ disks[n] = g
  <2>1. 0 \in 0 .. n /\ n \in 0 .. n /\ 0 <= Len(s)
    BY <1>1
  <2>2. CASE Len(t) = 0
    <3>1. n = Len(s) /\ e = g
      BY <1>1, <1>3, <2>2
    <3> QED
      BY <1>1, <1>2, <2>1, <3>1, SMTT(60)
  <2>3. CASE Len(t) # 0
    <3>1. ~(n <= Len(s)) /\ n - Len(s) = Len(t)
      BY <1>1, <2>3
    <3> QED
      BY <1>2, <1>3, <2>1, <3>1
  <2> QED
    BY <2>2, <2>3
<1>5. \A k \in 0 .. n : Good(disks[k], w)
  BY <1>1, <1>2, <1>3
<1>6. ASSUME NEW k \in 1 .. n
      PROVE  disks[k] = Done(disks[k - 1], (s \o t)[k].file, (s \o t)[k].content)
  <2>1. k \in 0 .. n /\ k - 1 \in 0 .. n
    BY <1>1
  <2>2. CASE k <= Len(s)
    <3>1. k \in 1 .. Len(s) /\ k - 1 <= Len(s)
      BY <1>1, <2>2
    <3> QED
      BY <1>1, <1>2, <2>1, <2>2, <3>1
  <2>3. CASE k = Len(s) + 1
    <3>1. ~(k <= Len(s)) /\ k - 1 = Len(s) /\ k - Len(s) = 1 /\ 1 \in 1 .. Len(t) /\ 1 - 1 = 0
      BY <1>1, <2>3
    <3>2. disks[k] = B[1] /\ disks[k - 1] = B[0]
      BY <1>1, <1>2, <1>3, <2>1, <3>1
    <3>3. (s \o t)[k] = t[1]
      BY <1>1, <3>1
    <3> HIDE DEF disks
    <3> QED
      BY <1>3, <3>1, <3>2, <3>3, SMTT(60)
  <2>4. CASE k > Len(s) + 1
    <3>1. /\ ~(k <= Len(s)) /\ ~(k - 1 <= Len(s))
          /\ k - Len(s) \in 1 .. Len(t) /\ (k - 1) - Len(s) = (k - Len(s)) - 1
      BY <1>1, <2>4
    <3>2. disks[k] = B[k - Len(s)] /\ disks[k - 1] = B[(k - Len(s)) - 1]
      BY <2>1, <3>1
    <3>3. (s \o t)[k] = t[k - Len(s)]
      BY <1>1, <3>1
    <3> HIDE DEF disks
    <3> QED
      BY <1>3, <3>1, <3>2, <3>3
  <2> QED
    BY <1>1, <2>2, <2>3, <2>4
<1> HIDE DEF disks
<1> QED
  BY <1>1, <1>4, <1>5, <1>6, SMTT(60) DEF Leads

\* The first operation.
LEMMA LeadsStep ==
    ASSUME NEW d, NEW e, NEW w, NEW t, Leads(d, t, e, w), t # <<>>
    PROVE  /\ Head(t) \in Op
           /\ Leads(Done(d, Head(t).file, Head(t).content), Tail(t), e, w)
<1>1. PICK A : /\ A[0] = d /\ A[Len(t)] = e
               /\ \A k \in 0 .. Len(t) : Good(A[k], w)
               /\ \A k \in 1 .. Len(t) : A[k] = Done(A[k - 1], t[k].file, t[k].content)
  BY DEF Leads
<1>2. /\ t \in Seq(Op) /\ Len(t) \in Nat /\ Len(t) > 0
      /\ Head(t) = t[1] /\ Head(t) \in Op
      /\ Tail(t) \in Seq(Op) /\ Len(Tail(t)) = Len(t) - 1
      /\ \A k \in 1 .. Len(t) - 1 : Tail(t)[k] = t[k + 1]
  BY DEF Leads
<1> DEFINE disks == [k \in 0 .. Len(t) - 1 |-> A[k + 1]]
<1>3. disks[0] = Done(d, Head(t).file, Head(t).content)
  <2>1. 1 \in 1 .. Len(t) /\ 0 \in 0 .. Len(t) - 1 /\ 1 - 1 = 0
    BY <1>2
  <2> QED
    BY <1>1, <1>2, <2>1
<1>4. disks[Len(t) - 1] = e
  BY <1>1, <1>2
<1>5. \A k \in 0 .. Len(t) - 1 : Good(disks[k], w)
  BY <1>1, <1>2
<1>6. ASSUME NEW k \in 1 .. Len(t) - 1
      PROVE  disks[k] = Done(disks[k - 1], Tail(t)[k].file, Tail(t)[k].content)
  <2>1. /\ k \in 0 .. Len(t) - 1 /\ k - 1 \in 0 .. Len(t) - 1
        /\ k + 1 \in 1 .. Len(t) /\ (k - 1) + 1 = k /\ (k + 1) - 1 = k
    BY <1>2
  <2>2. disks[k] = A[k + 1] /\ disks[k - 1] = A[k]
    BY <2>1
  <2> HIDE DEF disks
  <2> QED
    BY <1>1, <1>2, <2>1, <2>2
<1> HIDE DEF disks
<1> QED
  BY <1>2, <1>3, <1>4, <1>5, <1>6 DEF Leads

\* Both ends are good.
LEMMA LeadsGood ==
    ASSUME NEW d, NEW e, NEW w, NEW t, Leads(d, t, e, w)
    PROVE  Good(d, w) /\ Good(e, w)
BY DEF Leads

----------------------------------------------------------------------------
(* Single writes that keep the files good                                  *)

\* A write changes one file.
LEMMA DoneIs ==
    ASSUME NEW d, DiskOK(d), NEW f \in File, NEW c \in FileContent(f)
    PROVE  /\ DiskOK(Done(d, f, c))
           /\ \A g \in File : Done(d, f, c)[g] = IF g = f THEN c ELSE d[g]
<1>1. \A g \in File : Done(d, f, c)[g] = IF g = f THEN c ELSE d[g]
  BY DEF DiskOK, Done
<1>2. Done(d, f, c) = [g \in File |-> Done(d, f, c)[g]]
  BY DEF DiskOK, Done
<1>3. \A g \in File : Done(d, f, c)[g] \in FileContent(g)
  BY <1>1 DEF DiskOK
<1> QED
  BY <1>1, <1>2, <1>3 DEF DiskOK

\* An index catalog that calls the username file valid must be right.
LEMMA CatalogWrite ==
    ASSUME NEW d, NEW w, Good(d, w),
           NEW f \in {"catalog", "catalogWal"}, NEW c \in Catalog \cup {Absent},
           Readable(c) /\ c.names /\ c.valid => Matching(d),
           w = "never" /\ Readable(c) => ~c.wide
    PROVE  /\ Good(Done(d, f, c), w)
           /\ Leads(d, WriteFile(f, c), Done(d, f, c), w)
           /\ \A g \in File : Done(d, f, c)[g] = IF g = f THEN c ELSE d[g]
<1> DEFINE e == Done(d, f, c)
<1>1. f \in File /\ c \in FileContent(f)
  BY DEF File, FileContent
<1>2. DiskOK(e) /\ \A g \in File : e[g] = IF g = f THEN c ELSE d[g]
  BY <1>1, DoneIs DEF Good
<1> HIDE DEF e
<1>3. /\ e.rows = d.rows /\ e.names = d.names /\ e.namesWal = d.namesWal
      /\ e.epoch = d.epoch /\ e.eq = d.eq /\ e.range = d.range
      /\ \A g \in {"catalog", "catalogWal"} : e[g] = IF g = f THEN c ELSE d[g]
  BY <1>2 DEF File
<1>4. Matching(e) <=> Matching(d)
  BY <1>3 DEF Matching
<1>5. Trusts(e) => Matching(e)
  <2>1. Trusts(e) => Trusts(d) \/ (Readable(c) /\ c.names /\ c.valid)
    BY <1>3 DEF Trusts
  <2> QED
    BY <2>1, <1>4 DEF Good
<1>6. w # "unseen" => SnapshotSafe(e, "eq") /\ SnapshotSafe(e, "range")
  BY <1>3 DEF Good, SnapshotSafe
<1>7. w = "never" => NoneYet(e)
  BY <1>3 DEF Good, NoneYet
<1>8. Good(e, w)
  BY <1>2, <1>5, <1>6, <1>7 DEF Good
<1> QED
  BY <1>1, <1>2, <1>8, LeadsWrite DEF e

\* While a catalog trusts it, a username file must show the committed rows.
LEMMA NamesWrite ==
    ASSUME NEW d, NEW w, Good(d, w),
           NEW f \in {"names", "namesWal"}, NEW c \in Content \cup {Absent},
           Trusts(d) /\ Readable(c) => ~Misses(c, d.rows.users)
    PROVE  /\ Good(Done(d, f, c), w)
           /\ Leads(d, WriteFile(f, c), Done(d, f, c), w)
           /\ \A g \in File : Done(d, f, c)[g] = IF g = f THEN c ELSE d[g]
<1> DEFINE e == Done(d, f, c)
<1>1. f \in File /\ c \in FileContent(f)
  BY DEF File, FileContent
<1>2. DiskOK(e) /\ \A g \in File : e[g] = IF g = f THEN c ELSE d[g]
  BY <1>1, DoneIs DEF Good
<1> HIDE DEF e
<1>3. /\ e.rows = d.rows /\ e.catalog = d.catalog /\ e.catalogWal = d.catalogWal
      /\ e.epoch = d.epoch /\ e.eq = d.eq /\ e.range = d.range
      /\ \A g \in {"names", "namesWal"} : e[g] = IF g = f THEN c ELSE d[g]
  BY <1>2 DEF File
<1>4. Trusts(e) => Trusts(d)
  BY <1>3 DEF Trusts
<1>5. Trusts(e) => Matching(e)
  BY <1>3, <1>4 DEF Good, Matching
<1>6. w # "unseen" => SnapshotSafe(e, "eq") /\ SnapshotSafe(e, "range")
  BY <1>3 DEF Good, SnapshotSafe
<1>7. w = "never" => NoneYet(e)
  BY <1>3 DEF Good, NoneYet
<1>8. Good(e, w)
  BY <1>2, <1>5, <1>6, <1>7 DEF Good
<1> QED
  BY <1>1, <1>2, <1>8, LeadsWrite DEF e

\* A snapshot stamped with the epoch must show the committed rows.
LEMMA SnapshotWrite ==
    ASSUME NEW d, NEW w, Good(d, w),
           NEW f \in {"eq", "range"}, NEW c \in SnapshotOf \cup {Absent},
           w # "unseen" /\ c # Absent
               => w # "never" /\ c.epoch = d.epoch /\ ~Misses(c.entries, d.rows.other)
    PROVE  /\ Good(Done(d, f, c), w)
           /\ Leads(d, WriteFile(f, c), Done(d, f, c), w)
           /\ \A g \in File : Done(d, f, c)[g] = IF g = f THEN c ELSE d[g]
<1> DEFINE e == Done(d, f, c)
<1>1. f \in File /\ c \in FileContent(f)
  BY DEF File, FileContent
<1>2. DiskOK(e) /\ \A g \in File : e[g] = IF g = f THEN c ELSE d[g]
  BY <1>1, DoneIs DEF Good
<1> HIDE DEF e
<1>3. /\ e.rows = d.rows /\ e.catalog = d.catalog /\ e.catalogWal = d.catalogWal
      /\ e.epoch = d.epoch /\ e.names = d.names /\ e.namesWal = d.namesWal
      /\ \A g \in {"eq", "range"} : e[g] = IF g = f THEN c ELSE d[g]
  BY <1>2 DEF File
<1>4. Trusts(e) => Matching(e)
  BY <1>3 DEF Good, Trusts, Matching
<1>5. ASSUME w # "unseen", NEW g \in {"eq", "range"}
      PROVE  SnapshotSafe(e, g)
  <2>1. CASE g = f /\ Readable(c)
    <3>1. c \in SnapshotOf /\ c # Absent /\ e[g] = c
      BY <1>3, <2>1 DEF Readable
    <3>2. c.epoch \in Nat /\ d.epoch = c.epoch /\ ~Misses(c.entries, d.rows.other)
      BY <1>5, <3>1 DEF SnapshotOf
    <3> QED
      BY <1>3, <3>1, <3>2, IndexAssumption DEF SnapshotSafe
  <2>2. CASE g = f /\ ~Readable(c)
    BY <1>3, <2>2 DEF SnapshotSafe
  <2>3. CASE g # f
    BY <1>3, <1>5, <2>3 DEF SnapshotSafe, Good
  <2> QED
    BY <2>1, <2>2, <2>3
<1>6. w = "never" => NoneYet(e)
  BY <1>3 DEF Good, NoneYet
<1>7. Good(e, w)
  BY <1>2, <1>4, <1>5, <1>6 DEF Good
<1> QED
  BY <1>1, <1>2, <1>7, LeadsWrite DEF e

\* Epochs, in their file and on snapshots, are numbers.
LEMMA EpochsAreNumbers ==
    ASSUME NEW d, NEW w, Good(d, w)
    PROVE  /\ d.epoch # Absent => d.epoch \in Nat
           /\ EpochOf(d) \in Nat
           /\ \A f \in {"eq", "range"} : Readable(d[f]) => d[f] \in SnapshotOf /\ d[f].epoch \in Nat
<1>1. d.epoch \in Epoch /\ \A f \in {"eq", "range"} : d[f] \in SnapshotOf \cup {Absent, Torn}
  BY DEF Good, DiskOK, File, FileContent
<1>2. \A f \in {"eq", "range"} : Readable(d[f]) => d[f] \in SnapshotOf
  BY <1>1 DEF Readable
<1> QED
  BY <1>1, <1>2 DEF Epoch, EpochOf, FreshSeed, SnapshotOf

\* The epoch only rises.
LEMMA EpochWrite ==
    ASSUME NEW d, NEW w, Good(d, w), NEW n \in Nat, d.epoch = Absent \/ d.epoch < n
    PROVE  /\ Good(Done(d, "epoch", n), w)
           /\ Leads(d, WriteFile("epoch", n), Done(d, "epoch", n), w)
           /\ \A g \in File : Done(d, "epoch", n)[g] = IF g = "epoch" THEN n ELSE d[g]
<1> DEFINE e == Done(d, "epoch", n)
<1>1. "epoch" \in File /\ n \in FileContent("epoch")
  BY DEF File, FileContent, Epoch
<1>2. DiskOK(e) /\ \A g \in File : e[g] = IF g = "epoch" THEN n ELSE d[g]
  BY <1>1, DoneIs DEF Good
<1> HIDE DEF e
<1>3. /\ e.rows = d.rows /\ e.catalog = d.catalog /\ e.catalogWal = d.catalogWal
      /\ e.epoch = n /\ e.names = d.names /\ e.namesWal = d.namesWal
      /\ e.eq = d.eq /\ e.range = d.range
  BY <1>2 DEF File
<1>4. Trusts(e) => Matching(e)
  BY <1>3 DEF Good, Trusts, Matching
<1>5. ASSUME w # "unseen", NEW g \in {"eq", "range"}
      PROVE  SnapshotSafe(e, g)
  <2>1. SUFFICES ASSUME Readable(d[g])
                 PROVE  d[g].epoch < n
    <3>1. Readable(d[g]) => d[g].epoch \in Nat
      BY EpochsAreNumbers
    <3>2. n # Absent
      BY IndexAssumption
    <3> QED
      BY <1>3, <3>1, <3>2 DEF SnapshotSafe
  <2>2. d.epoch # Absent /\ d[g].epoch <= d.epoch
    BY <1>5, <2>1 DEF Good, SnapshotSafe
  <2> QED
    BY <2>1, <2>2, EpochsAreNumbers
<1>6. w = "never" => NoneYet(e)
  BY <1>3 DEF Good, NoneYet
<1>7. Good(e, w)
  BY <1>2, <1>4, <1>5, <1>6 DEF Good
<1> QED
  BY <1>1, <1>2, <1>7, LeadsWrite DEF e

\* New rows: no catalog trusts a file that shows the old ones, and no snapshot
\* that is as new as the epoch does.
LEMMA RowsWrite ==
    ASSUME NEW d, NEW w, Good(d, w), NEW r \in [Table -> Content],
           Trusts(d) => r.users = d.rows.users,
           w # "unseen" => \/ r.other = d.rows.other
                           \/ \A f \in {"eq", "range"} : Readable(d[f]) => d[f].epoch < d.epoch
    PROVE  /\ Good(Done(d, "rows", r), w)
           /\ Leads(d, WriteFile("rows", r), Done(d, "rows", r), w)
           /\ \A g \in File : Done(d, "rows", r)[g] = IF g = "rows" THEN r ELSE d[g]
<1> DEFINE e == Done(d, "rows", r)
<1>1. "rows" \in File /\ r \in FileContent("rows")
  BY DEF File, FileContent
<1>2. DiskOK(e) /\ \A g \in File : e[g] = IF g = "rows" THEN r ELSE d[g]
  BY <1>1, DoneIs DEF Good
<1> HIDE DEF e
<1>3. /\ e.rows = r /\ e.catalog = d.catalog /\ e.catalogWal = d.catalogWal
      /\ e.epoch = d.epoch /\ e.names = d.names /\ e.namesWal = d.namesWal
      /\ e.eq = d.eq /\ e.range = d.range
  BY <1>2 DEF File
<1>4. Trusts(e) => Matching(e)
  BY <1>3 DEF Good, Trusts, Matching
<1>5. ASSUME w # "unseen", NEW g \in {"eq", "range"}
      PROVE  SnapshotSafe(e, g)
  <2>1. SUFFICES ASSUME Readable(d[g])
                 PROVE  /\ d.epoch # Absent /\ d[g].epoch <= d.epoch
                        /\ d[g].epoch = d.epoch => ~Misses(d[g].entries, r.other)
    BY <1>3 DEF SnapshotSafe
  <2>2. /\ d.epoch # Absent /\ d[g].epoch <= d.epoch
        /\ d[g].epoch = d.epoch => ~Misses(d[g].entries, d.rows.other)
    BY <1>5, <2>1 DEF Good, SnapshotSafe
  <2>3. CASE r.other = d.rows.other
    BY <2>2, <2>3
  <2>4. CASE d[g].epoch < d.epoch
    BY <2>1, <2>2, <2>4, EpochsAreNumbers
  <2> QED
    BY <1>5, <2>1, <2>3, <2>4
<1>6. w = "never" => NoneYet(e)
  BY <1>3 DEF Good, NoneYet
<1>7. Good(e, w)
  BY <1>2, <1>4, <1>5, <1>6 DEF Good
<1> QED
  BY <1>1, <1>2, <1>7, LeadsWrite DEF e

----------------------------------------------------------------------------
(* Groups of writes                                                        *)

KeepsRows(d, e) == e.rows = d.rows /\ e.epoch = d.epoch /\ e.eq = d.eq /\ e.range = d.range
KeepsNames(d, e) == e.names = d.names /\ e.namesWal = d.namesWal

\* The catalog is saved through its log; afterwards it trusts what it was told to.
LEMMA SaveCatalogLeads ==
    ASSUME NEW d, NEW w, Good(d, w), NEW nm, NEW sc \in {None, "username", "email"},
           NEW wd, NEW valid \in BOOLEAN,
           nm.enabled \in BOOLEAN, wd.enabled \in BOOLEAN,
           nm.enabled /\ valid => Matching(d),
           w = "never" => ~wd.enabled
    PROVE  \E e : /\ Leads(d, SaveCatalog(nm, sc, wd, valid), e, w)
                  /\ KeepsRows(d, e) /\ KeepsNames(d, e)
                  /\ Trusts(e) => nm.enabled /\ valid
<1> DEFINE c == [names |-> nm.enabled, valid |-> valid, sec |-> sc, wide |-> wd.enabled]
           d1 == Done(d, "catalogWal", c)
           d2 == Done(d1, "catalog", c)
           d3 == Done(d2, "catalogWal", Absent)
<1>1. c \in Catalog /\ c.names = nm.enabled /\ c.valid = valid /\ c.wide = wd.enabled
  BY DEF Catalog
<1>2. SaveCatalog(nm, sc, wd, valid)
        = (WriteFile("catalogWal", c) \o WriteFile("catalog", c)) \o WriteFile("catalogWal", Absent)
  BY DEF SaveCatalog, Remove
<1> HIDE DEF c
<1>3. ~Readable(Absent)
  BY DEF Readable
<1>4. /\ Good(d1, w) /\ Leads(d, WriteFile("catalogWal", c), d1, w)
      /\ \A g \in File : d1[g] = IF g = "catalogWal" THEN c ELSE d[g]
  BY <1>1, CatalogWrite
<1> HIDE DEF d1
<1>5. KeepsRows(d, d1) /\ KeepsNames(d, d1)
  BY <1>4 DEF File, KeepsRows, KeepsNames
<1>6. Matching(d) => Matching(d1)
  BY <1>5 DEF Matching, KeepsRows, KeepsNames
<1>7. /\ Good(d2, w) /\ Leads(d1, WriteFile("catalog", c), d2, w)
      /\ \A g \in File : d2[g] = IF g = "catalog" THEN c ELSE d1[g]
  BY <1>1, <1>4, <1>6, CatalogWrite
<1> HIDE DEF d2
<1>8. /\ Good(d3, w) /\ Leads(d2, WriteFile("catalogWal", Absent), d3, w)
      /\ \A g \in File : d3[g] = IF g = "catalogWal" THEN Absent ELSE d2[g]
  BY <1>3, <1>7, CatalogWrite
<1> HIDE DEF d3
<1>9. Leads(d, SaveCatalog(nm, sc, wd, valid), d3, w)
  BY <1>2, <1>4, <1>7, <1>8, LeadsThen
<1>10. /\ KeepsRows(d, d3) /\ KeepsNames(d, d3) /\ d3.catalog = c /\ d3.catalogWal = Absent
  BY <1>4, <1>7, <1>8 DEF File, KeepsRows, KeepsNames
<1>11. Trusts(d3) => nm.enabled /\ valid
  BY <1>1, <1>3, <1>10 DEF Trusts
<1> QED
  BY <1>9, <1>10, <1>11

\* The username file is replaced by one that shows the committed rows.
LEMMA PersistNamesLeads ==
    ASSUME NEW d, NEW w, Good(d, w), NEW content \in Content, content = d.rows.users
    PROVE  \E e : /\ Leads(d, PersistNames(content), e, w)
                  /\ KeepsRows(d, e) /\ Matching(e)
                  /\ Trusts(e) => Trusts(d)
<1> DEFINE d1 == Done(d, "namesWal", content)
           d2 == Done(d1, "names", content)
           d3 == Done(d2, "namesWal", Absent)
<1>1. PersistNames(content)
        = (WriteFile("namesWal", content) \o WriteFile("names", content)) \o WriteFile("namesWal", Absent)
  BY DEF PersistNames, Remove
<1>2. ~Misses(content, d.rows.users) /\ ~Readable(Absent)
  BY DEF Misses, Readable
<1>3. /\ Good(d1, w) /\ Leads(d, WriteFile("namesWal", content), d1, w)
      /\ \A g \in File : d1[g] = IF g = "namesWal" THEN content ELSE d[g]
  BY <1>2, NamesWrite
<1> HIDE DEF d1
<1>4. d1.rows = d.rows
  BY <1>3 DEF File
<1>5. /\ Good(d2, w) /\ Leads(d1, WriteFile("names", content), d2, w)
      /\ \A g \in File : d2[g] = IF g = "names" THEN content ELSE d1[g]
  BY <1>2, <1>3, <1>4, NamesWrite, SMTT(60)
<1> HIDE DEF d2
<1>6. /\ Good(d3, w) /\ Leads(d2, WriteFile("namesWal", Absent), d3, w)
      /\ \A g \in File : d3[g] = IF g = "namesWal" THEN Absent ELSE d2[g]
  BY <1>2, <1>5, NamesWrite
<1> HIDE DEF d3
<1>7. Leads(d, PersistNames(content), d3, w)
  BY <1>1, <1>3, <1>5, <1>6, LeadsThen
<1>8. /\ KeepsRows(d, d3) /\ d3.names = content /\ d3.namesWal = Absent
      /\ d3.catalog = d.catalog /\ d3.catalogWal = d.catalogWal
  BY <1>3, <1>5, <1>6 DEF File, KeepsRows
<1>9. Matching(d3) /\ (Trusts(d3) => Trusts(d))
  BY <1>2, <1>8 DEF Matching, Trusts, KeepsRows
<1> QED
  BY <1>7, <1>8, <1>9

\* The files of a rebuild outside a transaction.
Rebuild(nm, sc, wd, content) ==
    IF nm.enabled /\ nm.dirty
    THEN PersistNames(content) \o SaveCatalog(nm, sc, wd, TRUE)
    ELSE <<>>

\* A rebuilt username file shows the committed rows before the catalog trusts it.
LEMMA RebuildLeads ==
    ASSUME NEW d, NEW w, Good(d, w), NEW nm \in NamesIndex,
           NEW sc \in {None, "username", "email"}, NEW wd, wd.enabled \in BOOLEAN,
           w = "never" => ~wd.enabled,
           NEW content \in Content, content = d.rows.users
    PROVE  \E e : /\ Leads(d, Rebuild(nm, sc, wd, content), e, w)
                  /\ KeepsRows(d, e)
                  /\ Trusts(e) => Trusts(d) \/ nm.enabled
                  /\ Matching(d) => Matching(e)
                  /\ nm.enabled /\ nm.dirty => Matching(e)
<1>1. nm.enabled \in BOOLEAN /\ nm.dirty \in BOOLEAN
  BY DEF NamesIndex
<1>2. CASE nm.enabled /\ nm.dirty
  <2>1. Rebuild(nm, sc, wd, content) = PersistNames(content) \o SaveCatalog(nm, sc, wd, TRUE)
    BY <1>2 DEF Rebuild
  <2>2. PICK d1 : /\ Leads(d, PersistNames(content), d1, w)
                  /\ KeepsRows(d, d1) /\ Matching(d1)
    BY <1>2, PersistNamesLeads
  <2>3. Good(d1, w)
    BY <2>2, LeadsGood
  <2>4. PICK e : /\ Leads(d1, SaveCatalog(nm, sc, wd, TRUE), e, w)
                 /\ KeepsRows(d1, e) /\ KeepsNames(d1, e)
    BY <1>1, <2>2, <2>3, SaveCatalogLeads
  <2>5. KeepsRows(d, e) /\ Matching(e)
    BY <2>2, <2>4 DEF KeepsRows, KeepsNames, Matching
  <2> QED
    BY <1>2, <2>1, <2>2, <2>4, <2>5, LeadsThen
<1>3. CASE ~(nm.enabled /\ nm.dirty)
  <2>1. Rebuild(nm, sc, wd, content) = <<>>
    BY <1>3 DEF Rebuild
  <2> QED
    BY <1>3, <2>1, LeadsEmpty DEF KeepsRows
<1> QED
  BY <1>2, <1>3

\* The username index after a mark or a rebuild.
LEMMA NamesValues ==
    ASSUME NEW nm \in NamesIndex, NEW content \in Content, NEW inTx \in BOOLEAN
    PROVE  /\ MarkDirty(nm) \in NamesIndex
           /\ MarkDirty(nm).enabled = nm.enabled
           /\ nm.enabled => MarkDirty(nm).dirty
           /\ EnsureNames(nm, content, inTx) \in NamesIndex
           /\ EnsureNames(nm, content, inTx).enabled = nm.enabled
           /\ nm.enabled /\ nm.dirty => /\ EnsureNames(nm, content, inTx).entries = content
                                        /\ EnsureNames(nm, content, inTx).dirty = inTx
           /\ ~(nm.enabled /\ nm.dirty) => EnsureNames(nm, content, inTx) = nm
BY DEF NamesIndex, MarkDirty, EnsureNames

\* A commit: the catalog gives up the username file first if rows of users change.
LEMMA CommitLeads ==
    ASSUME Memory, NEW d, Good(d, watch), watch = "never" => ~wide.enabled,
           NEW nm \in NamesIndex, NEW content \in [Table -> Content],
           Trusts(d) => nm.enabled,
           nm.enabled /\ ~nm.dirty => Matching(d) /\ content.users = d.rows.users,
           watch # "unseen" => \/ content.other = d.rows.other
                               \/ \A f \in {"eq", "range"} : Readable(d[f]) => d[f].epoch < d.epoch
    PROVE  \E e : /\ Leads(d, PrepareCommit(nm) \o WriteFile("rows", content)
                                 \o FinalizeCommit(nm, content.users), e, watch)
                  /\ e.rows = content
                  /\ e.epoch = d.epoch /\ e.eq = d.eq /\ e.range = d.range
                  /\ Trusts(e) => nm.enabled
                  /\ nm.enabled => Matching(e)
<1>1. /\ nm.enabled \in BOOLEAN /\ nm.dirty \in BOOLEAN /\ wide.enabled \in BOOLEAN
      /\ content.users \in Content /\ sec \in {None, "username", "email"}
  BY DEF NamesIndex, Memory, Table
<1>2. \E d1 : /\ Leads(d, PrepareCommit(nm), d1, watch)
              /\ KeepsRows(d, d1)
              /\ Trusts(d1) => nm.enabled /\ content.users = d1.rows.users
              /\ nm.enabled /\ ~nm.dirty => Matching(d1) /\ content.users = d1.rows.users
  <2>1. CASE nm.enabled /\ nm.dirty
    <3>1. PrepareCommit(nm) = SaveCatalog(nm, sec, wide, FALSE)
      BY <2>1 DEF PrepareCommit
    <3>2. \E d1 : /\ Leads(d, SaveCatalog(nm, sec, wide, FALSE), d1, watch)
                  /\ KeepsRows(d, d1) /\ KeepsNames(d, d1)
                  /\ Trusts(d1) => nm.enabled /\ FALSE
      BY <1>1, SaveCatalogLeads
    <3> QED
      BY <2>1, <3>1, <3>2
  <2>2. CASE ~(nm.enabled /\ nm.dirty)
    <3>1. PrepareCommit(nm) = <<>>
      BY <2>2 DEF PrepareCommit
    <3>2. Leads(d, <<>>, d, watch) /\ KeepsRows(d, d)
      BY LeadsEmpty DEF KeepsRows
    <3> QED
      BY <2>2, <3>1, <3>2
  <2> QED
    BY <2>1, <2>2
<1>3. PICK d1 : /\ Leads(d, PrepareCommit(nm), d1, watch)
                /\ KeepsRows(d, d1)
                /\ Trusts(d1) => nm.enabled /\ content.users = d1.rows.users
                /\ nm.enabled /\ ~nm.dirty => Matching(d1) /\ content.users = d1.rows.users
  BY <1>2
<1>4. Good(d1, watch)
  BY <1>3, LeadsGood
<1> DEFINE d2 == Done(d1, "rows", content)
<1>5. /\ Good(d2, watch) /\ Leads(d1, WriteFile("rows", content), d2, watch)
      /\ \A g \in File : d2[g] = IF g = "rows" THEN content ELSE d1[g]
  <2>1. watch # "unseen" => \/ content.other = d1.rows.other
                            \/ \A f \in {"eq", "range"} : Readable(d1[f]) => d1[f].epoch < d1.epoch
    BY <1>3 DEF KeepsRows
  <2> QED
    BY <1>3, <1>4, <2>1, RowsWrite
<1> HIDE DEF d2
<1>6. /\ d2.rows = content /\ d2.epoch = d.epoch /\ d2.eq = d.eq /\ d2.range = d.range
      /\ KeepsNames(d1, d2) /\ d2.catalog = d1.catalog /\ d2.catalogWal = d1.catalogWal
  BY <1>3, <1>5 DEF File, KeepsRows, KeepsNames
<1>7. /\ Trusts(d2) => nm.enabled
      /\ nm.enabled /\ ~nm.dirty => Matching(d2)
  BY <1>3, <1>6 DEF Trusts, Matching, KeepsNames
<1>8. PICK e : /\ Leads(d2, FinalizeCommit(nm, content.users), e, watch)
               /\ KeepsRows(d2, e)
               /\ Trusts(e) => Trusts(d2) \/ nm.enabled
               /\ Matching(d2) => Matching(e)
               /\ nm.enabled /\ nm.dirty => Matching(e)
  <2>1. content.users = d2.rows.users
    BY <1>6
  <2>2. FinalizeCommit(nm, content.users) = Rebuild(nm, sec, wide, content.users)
    BY DEF FinalizeCommit, EnsureNamesFiles, Rebuild
  <2> QED
    BY <1>1, <1>5, <2>1, <2>2, RebuildLeads
<1>9. Leads(d, PrepareCommit(nm) \o WriteFile("rows", content), d2, watch)
  BY <1>3, <1>5, LeadsThen
<1>10. Leads(d, PrepareCommit(nm) \o WriteFile("rows", content)
                  \o FinalizeCommit(nm, content.users), e, watch)
  BY <1>8, <1>9, LeadsThen
<1> QED
  BY <1>1, <1>6, <1>7, <1>8, <1>10 DEF KeepsRows

KeepsUsers(d, e) ==
    /\ e.rows = d.rows /\ KeepsNames(d, e)
    /\ e.catalog = d.catalog /\ e.catalogWal = d.catalogWal

\* What only those files decide stays as it was.
LEMMA KeptUsers ==
    ASSUME NEW d, NEW e, KeepsUsers(d, e)
    PROVE  (Trusts(e) <=> Trusts(d)) /\ (Matching(e) <=> Matching(d))
BY DEF KeepsUsers, KeepsNames, Trusts, Matching

\* The epoch that a mutation raises is newer than every snapshot.
LEMMA EpochLeads ==
    ASSUME NEW w, Good(disk, w), wide.enabled \in BOOLEAN
    PROVE  \E e : /\ Leads(disk, EpochBeforeMutation, e, w)
                  /\ KeepsUsers(disk, e)
                  /\ ~wide.enabled => e = disk
                  /\ wide.enabled =>
                        /\ e.epoch # Absent /\ EpochOf(disk) < EpochOf(e)
                        /\ w # "unseen" => \A f \in {"eq", "range"} :
                                              Readable(e[f]) => e[f].epoch < e.epoch
<1>1. CASE ~wide.enabled
  <2>1. EpochBeforeMutation = <<>>
    BY <1>1 DEF EpochBeforeMutation
  <2> QED
    BY <1>1, <2>1, LeadsEmpty DEF KeepsUsers, KeepsNames
<1>2. CASE wide.enabled
  <2> DEFINE s == IF disk.epoch = Absent THEN Remove("range") ELSE <<>>
             n == CurrentEpoch + 1
  <2>1. n \in Nat /\ CurrentEpoch = EpochOf(disk) /\ CurrentEpoch \in Nat /\ n # Absent
    BY EpochsAreNumbers, IndexAssumption DEF CurrentEpoch, EpochOf
  <2>2. EpochBeforeMutation = s \o WriteFile("epoch", n)
    BY <1>2 DEF EpochBeforeMutation
  <2>3. \E d1 : /\ Leads(disk, s, d1, w) /\ KeepsUsers(disk, d1)
                /\ d1.epoch = disk.epoch /\ d1.eq = disk.eq
                /\ Readable(d1.range) => d1.range = disk.range
    <3>1. CASE disk.epoch = Absent
      <4> DEFINE d1 == Done(disk, "range", Absent)
      <4>1. /\ Leads(disk, WriteFile("range", Absent), d1, w)
            /\ \A g \in File : d1[g] = IF g = "range" THEN Absent ELSE disk[g]
        BY SnapshotWrite
      <4> HIDE DEF d1
      <4>2. s = WriteFile("range", Absent)
        BY <3>1 DEF Remove
      <4>3. /\ d1.epoch = disk.epoch /\ d1.eq = disk.eq /\ d1.range = Absent
            /\ KeepsUsers(disk, d1)
        BY <4>1 DEF File, KeepsUsers, KeepsNames
      <4> HIDE DEF s
      <4> QED
        BY <4>1, <4>2, <4>3 DEF Readable
    <3>2. CASE disk.epoch # Absent
      BY <3>2, LeadsEmpty DEF KeepsUsers, KeepsNames
    <3> QED
      BY <3>1, <3>2
  <2> HIDE DEF s
  <2>4. PICK d1 : /\ Leads(disk, s, d1, w) /\ KeepsUsers(disk, d1)
                  /\ d1.epoch = disk.epoch /\ d1.eq = disk.eq
                  /\ Readable(d1.range) => d1.range = disk.range
    BY <2>3
  <2>5. Good(d1, w)
    BY <2>4, LeadsGood
  <2>6. d1.epoch = Absent \/ d1.epoch < n
    BY <2>1, <2>4 DEF CurrentEpoch
  <2> DEFINE e == Done(d1, "epoch", n)
  <2>7. /\ Good(e, w) /\ Leads(d1, WriteFile("epoch", n), e, w)
        /\ \A g \in File : e[g] = IF g = "epoch" THEN n ELSE d1[g]
    BY <2>1, <2>5, <2>6, EpochWrite
  <2> HIDE DEF e
  <2>8. /\ e.epoch = n /\ e.eq = d1.eq /\ e.range = d1.range /\ KeepsUsers(disk, e)
    BY <2>4, <2>7 DEF File, KeepsUsers, KeepsNames
  <2>9. Leads(disk, EpochBeforeMutation, e, w)
    BY <2>2, <2>4, <2>7, LeadsThen
  <2>10. EpochOf(disk) < EpochOf(e) /\ e.epoch # Absent
    BY <2>1, <2>8 DEF EpochOf
  <2>11. ASSUME w # "unseen", NEW f \in {"eq", "range"}, Readable(e[f])
         PROVE  e[f].epoch < e.epoch
    <3>1. e[f] = disk[f]
      BY <2>4, <2>8, <2>11
    <3>2. disk.epoch # Absent /\ disk[f].epoch <= disk.epoch
      BY <2>11, <3>1 DEF Good, SnapshotSafe
    <3>3. disk[f].epoch \in Nat /\ disk.epoch = CurrentEpoch
      BY <2>11, <3>1, <3>2, EpochsAreNumbers DEF CurrentEpoch
    <3> QED
      BY <2>1, <2>8, <3>1, <3>2, <3>3
  <2> QED
    BY <1>2, <2>8, <2>9, <2>10, <2>11
<1> QED
  BY <1>1, <1>2

\* A lookup makes the epoch readable and keeps it.
LEMMA CurrentEpochLeads ==
    ASSUME NEW w, Good(disk, w)
    PROVE  \E e : /\ Leads(disk, CurrentEpochFiles, e, w)
                  /\ KeepsUsers(disk, e) /\ e.epoch = CurrentEpoch
                  /\ \A f \in {"eq", "range"} : Readable(e[f]) => e[f] = disk[f]
<1>1. CASE disk.epoch = Absent
  <2> DEFINE d1 == Done(disk, "range", Absent)
             e == Done(d1, "epoch", FreshSeed)
  <2>1. CurrentEpochFiles = WriteFile("range", Absent) \o WriteFile("epoch", FreshSeed)
    BY <1>1 DEF CurrentEpochFiles, Remove
  <2>2. /\ Good(d1, w) /\ Leads(disk, WriteFile("range", Absent), d1, w)
        /\ \A g \in File : d1[g] = IF g = "range" THEN Absent ELSE disk[g]
    BY SnapshotWrite
  <2> HIDE DEF d1
  <2>3. d1.epoch = Absent
    BY <1>1, <2>2 DEF File
  <2>4. /\ Leads(d1, WriteFile("epoch", FreshSeed), e, w)
        /\ \A g \in File : e[g] = IF g = "epoch" THEN FreshSeed ELSE d1[g]
    BY <2>2, <2>3, EpochWrite DEF FreshSeed
  <2> HIDE DEF e
  <2>5. /\ e.epoch = CurrentEpoch /\ e.eq = disk.eq /\ ~Readable(e.range)
        /\ KeepsUsers(disk, e)
    BY <1>1, <2>2, <2>4 DEF File, KeepsUsers, KeepsNames, CurrentEpoch, Readable
  <2> QED
    BY <2>1, <2>2, <2>4, <2>5, LeadsThen
<1>2. CASE disk.epoch # Absent
  BY <1>2, LeadsEmpty DEF KeepsUsers, KeepsNames, CurrentEpoch, CurrentEpochFiles
<1> QED
  BY <1>1, <1>2

----------------------------------------------------------------------------
(* What a statement finds, and what is left to show of it                  *)

\* Between statements memory agrees with the files as they are.
LEMMA ReadyIs ==
    ASSUME IndexInv, Ready
    PROVE  /\ Memory /\ up /\ todo = <<>> /\ Good(disk, watch)
           /\ TransactionAgrees(disk) /\ NamesAgree(disk) /\ WideAgrees(disk)
<1>1. up /\ todo = <<>>
  BY DEF Ready
<1>2. PICK e : Leads(disk, <<>>, e, watch) /\ Agrees(e)
  BY <1>1 DEF IndexInv
<1>3. e = disk
  BY <1>2 DEF Leads
<1>4. Good(disk, watch)
  BY <1>2, LeadsGood
<1> QED
  BY <1>1, <1>2, <1>3, <1>4 DEF IndexInv, Agrees

\* The fields of memory.
LEMMA MemoryIs ==
    ASSUME Memory
    PROVE  /\ rows \in [Table -> Content]
           /\ rows.users \in Content /\ rows.other \in Content
           /\ inTransaction \in BOOLEAN /\ up \in BOOLEAN
           /\ names.enabled \in BOOLEAN /\ names.dirty \in BOOLEAN
           /\ wide.enabled \in BOOLEAN /\ wide.cache \in Cache
           /\ wide.cache.dirty \in BOOLEAN
           /\ ~wide.cache.dirty => wide.cache.epoch \in Nat
BY DEF Memory, Table, NamesIndex, Cache

\* It is enough to show where the file operations of a statement lead.
LEMMA StatementDone ==
    ASSUME NEW e, Leads(disk', todo', e, watch'), up', Memory',
           TransactionAgrees(e)', NamesAgree(e)', WideAgrees(e)'
    PROVE  IndexInv'
BY DEF IndexInv, Agrees

\* A statement that leaves the other table's index alone and commits, or takes
\* back, rows that were changed at an older epoch.
LEMMA WideStays ==
    ASSUME Memory, Good(disk, watch), WideAgrees(disk),
           wide'.cache = wide.cache,
           watch' # "unseen" => watch # "unseen",
           watch' = "never" => watch = "never" /\ ~wide'.enabled,
           NEW e, EpochOf(e) = EpochOf(disk),
           \A f \in {"eq", "range"} : Readable(e[f]) => e[f] = disk[f],
           e.rows.other # disk.rows.other => Changed(disk),
           Changed(e)' => Changed(disk)
    PROVE  WideAgrees(e)'
<1>1. EpochOf(e) = EpochOf(disk) /\ EpochOf(e) \in Nat
  BY EpochsAreNumbers
<1>2. ASSUME watch' # "unseen"
      PROVE  CacheSafe(e)' /\ (Changed(e)' => TooOld(e)')
  <2>1. CacheSafe(disk) /\ (Changed(disk) => TooOld(disk))
    BY <1>2 DEF WideAgrees
  <2>2. TooOld(disk) => TooOld(e)'
    BY <1>1 DEF TooOld
  <2>3. CacheSafe(e)'
    <3>1. CASE Changed(disk)
      <4>1. ~wide.cache.dirty => wide.cache.epoch < EpochOf(e) /\ wide.cache.epoch \in Nat
        BY <1>1, <2>1, <3>1, MemoryIs DEF TooOld
      <4> QED
        BY <1>1, <4>1 DEF CacheSafe
    <3>2. CASE ~Changed(disk)
      BY <1>1, <2>1, <3>2 DEF CacheSafe
    <3> QED
      BY <3>1, <3>2
  <2> QED
    BY <2>1, <2>2, <2>3
<1>3. ASSUME watch' = "never"
      PROVE  ~wide'.enabled /\ wide'.cache.dirty
  BY <1>3 DEF WideAgrees
<1> QED
  BY <1>2, <1>3 DEF WideAgrees

----------------------------------------------------------------------------
(* Statements on users                                                     *)

\* What a row change makes of a table.
LEMMA ContentsTyped ==
    ASSUME NEW content \in Content
    PROVE  /\ Inserted(content) \subseteq Content /\ Updated(content) \subseteq Content
           /\ Deleted(content) \subseteq Content /\ {Empty} \subseteq Content
<1>1. \A i \in RowId, v \in Value \cup {None} : [content EXCEPT ![i] = v] \in Content
  BY DEF Content
<1>2. Inserted(content) \subseteq Content
  BY <1>1 DEF Inserted
<1>3. Updated(content) \subseteq Content
  BY <1>1 DEF Updated
<1>4. Deleted(content) \subseteq Content
  BY <1>1 DEF Deleted
<1>5. Empty \in Content
  BY DEF Empty, Content
<1> QED
  BY <1>2, <1>3, <1>4, <1>5

\* A statement on users outside a transaction, or COMMIT.
LEMMA CommitStep ==
    ASSUME Memory, up, Good(disk, watch), WideAgrees(disk), watch = "never" => ~wide.enabled,
           NEW nm \in NamesIndex, NEW content \in [Table -> Content],
           Trusts(disk) => nm.enabled,
           nm.enabled /\ ~nm.dirty => /\ Matching(disk) /\ content.users = disk.rows.users
                                      /\ ~Misses(nm.entries, content.users),
           content.other # disk.rows.other => Changed(disk),
           CommitTableChanges(nm, content), rows' = content,
           inTransaction' = FALSE, savepoint' = None,
           UNCHANGED <<sec, wide, disk, up, watch>>
    PROVE  IndexInv'
<1> DEFINE new == EnsureNames(nm, content.users, FALSE)
<1>1. content.users \in Content /\ nm.enabled \in BOOLEAN /\ nm.dirty \in BOOLEAN
  BY DEF Table, NamesIndex
<1>2. /\ new \in NamesIndex /\ new.enabled = nm.enabled
      /\ nm.enabled /\ nm.dirty => new.entries = content.users
      /\ ~(nm.enabled /\ nm.dirty) => new = nm
  BY <1>1, NamesValues, ZenonT(60)
<1>3. names' = new
  BY DEF CommitTableChanges
<1> HIDE DEF new
<1>4. watch # "unseen" => \/ content.other = disk.rows.other
                          \/ \A f \in {"eq", "range"} : Readable(disk[f]) => disk[f].epoch < disk.epoch
  <2>1. SUFFICES ASSUME watch # "unseen", Changed(disk), NEW f \in {"eq", "range"}, Readable(disk[f])
                 PROVE  disk[f].epoch < disk.epoch
    OBVIOUS
  <2>2. disk[f].epoch < EpochOf(disk) /\ disk.epoch # Absent
    BY <2>1 DEF WideAgrees, TooOld, Good, SnapshotSafe
  <2> QED
    BY <2>2 DEF EpochOf
<1>5. PICK e : /\ Leads(disk, PrepareCommit(nm) \o WriteFile("rows", content)
                                  \o FinalizeCommit(nm, content.users), e, watch)
               /\ e.rows = content
               /\ e.epoch = disk.epoch /\ e.eq = disk.eq /\ e.range = disk.range
               /\ Trusts(e) => nm.enabled
               /\ nm.enabled => Matching(e)
  BY <1>4, CommitLeads
<1>6. Leads(disk', todo', e, watch')
  BY <1>5 DEF CommitTableChanges
<1>7. Memory'
  BY <1>2, <1>3 DEF Memory
<1>8. TransactionAgrees(e)'
  BY <1>5 DEF TransactionAgrees
<1>9. NamesAgree(e)'
  <2>1. Trusts(e) => names'.enabled
    BY <1>2, <1>3, <1>5
  <2>2. ASSUME names'.enabled, ~names'.dirty
        PROVE  Matching(e) /\ ~Misses(names'.entries, rows'.users) /\ rows'.users = e.rows.users
    <3>1. nm.enabled
      BY <1>2, <1>3, <2>2
    <3>2. ~Misses(names'.entries, content.users)
      <4>1. CASE nm.dirty
        BY <1>2, <1>3, <3>1, <4>1 DEF Misses
      <4>2. CASE ~nm.dirty
        BY <1>2, <1>3, <3>1, <4>2
      <4> QED
        BY <4>1, <4>2
    <3> QED
      BY <1>5, <3>1, <3>2
  <2> QED
    BY <2>1, <2>2 DEF NamesAgree
<1>10. WideAgrees(e)'
  <2>1. ~Changed(e)'
    BY <1>5 DEF Changed
  <2>2. \A f \in {"eq", "range"} : Readable(e[f]) => e[f] = disk[f]
    BY <1>5
  <2> QED
    BY <1>5, <2>1, <2>2, WideStays DEF EpochOf
<1> QED
  BY <1>6, <1>7, <1>8, <1>9, <1>10, StatementDone

\* Inside a transaction nothing is written; outside, the statement commits.
LEMMA WriteUsersStep ==
    ASSUME IndexInv, NEW contents \in SUBSET Content, WriteUsers(contents)
    PROVE  IndexInv'
<1>1. Ready
  BY DEF WriteUsers
<1>2. /\ Memory /\ up /\ todo = <<>> /\ Good(disk, watch)
      /\ TransactionAgrees(disk) /\ NamesAgree(disk) /\ WideAgrees(disk)
  BY <1>1, ReadyIs
<1>3. PICK c \in contents :
        LET new == [rows EXCEPT !.users = c]
        IN  /\ rows' = new
            /\ IF inTransaction
               THEN names' = MarkDirty(names) /\ UNCHANGED todo
               ELSE CommitTableChanges(MarkDirty(names), new)
  BY DEF WriteUsers
<1> DEFINE new == [rows EXCEPT !.users = c]
<1>4. UNCHANGED <<savepoint, inTransaction, sec, wide, disk, up, watch>>
  BY DEF WriteUsers
<1>5. new \in [Table -> Content] /\ new.users = c /\ new.other = rows.other
  BY <1>2 DEF Memory, Table
<1>6. /\ MarkDirty(names) \in NamesIndex
      /\ MarkDirty(names).enabled = names.enabled
      /\ names.enabled => MarkDirty(names).dirty
  BY <1>2, <1>5, NamesValues DEF Memory, Table
<1>7. CASE inTransaction
  <2>1. rows' = new /\ names' = MarkDirty(names) /\ todo' = todo
    BY <1>3, <1>7
  <2> HIDE DEF new
  <2>2. Leads(disk', todo', disk, watch')
    BY <1>2, <1>4, <2>1, LeadsEmpty
  <2>3. Memory'
    BY <1>2, <1>4, <1>5, <1>6, <2>1 DEF Memory
  <2>4. TransactionAgrees(disk)' /\ NamesAgree(disk)'
    BY <1>2, <1>4, <1>6, <1>7, <2>1 DEF TransactionAgrees, NamesAgree
  <2>5. Changed(disk)' => Changed(disk)
    BY <1>4, <1>5, <2>1 DEF Changed
  <2>6. PICK e : e = disk
    OBVIOUS
  <2>7. WideAgrees(e)'
    BY <1>2, <1>4, <2>5, <2>6, WideStays DEF WideAgrees, EpochOf
  <2> QED
    BY <1>2, <1>4, <2>2, <2>3, <2>4, <2>6, <2>7, StatementDone
<1>8. CASE ~inTransaction
  <2>1. rows' = new /\ CommitTableChanges(MarkDirty(names), new)
    BY <1>3, <1>8
  <2>2. disk.rows = rows /\ savepoint = None
    BY <1>2, <1>8 DEF TransactionAgrees
  <2>3. inTransaction' = FALSE /\ savepoint' = None
    BY <1>2, <1>4, <1>8, <2>2 DEF Memory
  <2>4. Trusts(disk) => MarkDirty(names).enabled
    BY <1>2, <1>6 DEF NamesAgree
  <2>5. ~(MarkDirty(names).enabled /\ ~MarkDirty(names).dirty)
    BY <1>6
  <2>6. new.other = disk.rows.other
    BY <1>5, <2>2
  <2>7. watch = "never" => ~wide.enabled
    BY <1>2 DEF WideAgrees
  <2> HIDE DEF new
  <2>8. UNCHANGED <<sec, wide, disk, up, watch>>
    BY <1>4
  <2> QED
    BY <1>2, <1>5, <1>6, <2>1, <2>3, <2>4, <2>5, <2>6, <2>7, <2>8, CommitStep
<1> QED
  BY <1>7, <1>8

\* The statements that change users.
LEMMA UsersStep ==
    ASSUME IndexInv, InsertUser \/ UpdateUser \/ DeleteUser \/ DeleteAllUsers
    PROVE  IndexInv'
<1>1. Ready
  BY DEF InsertUser, UpdateUser, DeleteUser, DeleteAllUsers, WriteUsers
<1>2. rows.users \in Content
  BY <1>1, ReadyIs, MemoryIs
<1>3. /\ Inserted(rows.users) \in SUBSET Content /\ Updated(rows.users) \in SUBSET Content
      /\ Deleted(rows.users) \in SUBSET Content /\ {Empty} \in SUBSET Content
  BY <1>2, ContentsTyped
<1>4. CASE InsertUser
  BY <1>3, <1>4, WriteUsersStep DEF InsertUser
<1>5. CASE UpdateUser
  BY <1>3, <1>5, WriteUsersStep DEF UpdateUser
<1>6. CASE DeleteUser
  BY <1>3, <1>6, WriteUsersStep DEF DeleteUser
<1>7. CASE DeleteAllUsers
  BY <1>3, <1>7, WriteUsersStep DEF DeleteAllUsers
<1> QED
  BY <1>4, <1>5, <1>6, <1>7

----------------------------------------------------------------------------
(* Transactions                                                            *)

\* BEGIN finds rows and files in agreement.
LEMMA BeginStep ==
    ASSUME IndexInv, Begin
    PROVE  IndexInv'
<1>1. /\ Memory /\ up /\ todo = <<>> /\ Good(disk, watch)
      /\ TransactionAgrees(disk) /\ NamesAgree(disk) /\ WideAgrees(disk)
  BY ReadyIs DEF Begin
<1>2. UNCHANGED <<rows, savepoint, names, sec, wide, disk, todo, up, watch>> /\ inTransaction' = TRUE
  BY DEF Begin
<1>3. PICK e : e = disk
  OBVIOUS
<1>4. Leads(disk', todo', e, watch')
  BY <1>1, <1>2, <1>3, LeadsEmpty
<1>5. Memory'
  BY <1>1, <1>2 DEF Memory
<1>6. TransactionAgrees(e)' /\ NamesAgree(e)'
  BY <1>1, <1>2, <1>3 DEF TransactionAgrees, NamesAgree
<1>7. Changed(e)' => Changed(disk)
  BY <1>2, <1>3 DEF Changed
<1>8. WideAgrees(e)'
  BY <1>1, <1>2, <1>3, <1>7, WideStays DEF WideAgrees, EpochOf
<1> QED
  BY <1>1, <1>2, <1>4, <1>5, <1>6, <1>8, StatementDone

\* COMMIT is a commit of all the rows of the session.
LEMMA CommitActionStep ==
    ASSUME IndexInv, Commit
    PROVE  IndexInv'
<1>1. /\ Memory /\ up /\ todo = <<>> /\ Good(disk, watch)
      /\ TransactionAgrees(disk) /\ NamesAgree(disk) /\ WideAgrees(disk)
  BY ReadyIs DEF Commit
<1>2. /\ inTransaction' = FALSE /\ savepoint' = None
      /\ CommitTableChanges(names, rows)
      /\ rows' = rows /\ UNCHANGED <<sec, wide, disk, up, watch>>
  BY DEF Commit
<1>3. names \in NamesIndex /\ rows \in [Table -> Content]
  BY <1>1 DEF Memory
<1>4. /\ Trusts(disk) => names.enabled
      /\ names.enabled /\ ~names.dirty => /\ Matching(disk) /\ rows.users = disk.rows.users
                                          /\ ~Misses(names.entries, rows.users)
  BY <1>1 DEF NamesAgree
<1>5. rows.other # disk.rows.other => Changed(disk)
  BY DEF Changed
<1>6. watch = "never" => ~wide.enabled
  BY <1>1 DEF WideAgrees
<1> QED
  BY <1>1, <1>2, <1>3, <1>4, <1>5, <1>6, CommitStep

\* The rows of a savepoint are no newer than those of the session.
LEMMA SavepointStep ==
    ASSUME IndexInv, Savepoint
    PROVE  IndexInv'
<1>1. /\ Memory /\ up /\ todo = <<>> /\ Good(disk, watch)
      /\ TransactionAgrees(disk) /\ NamesAgree(disk) /\ WideAgrees(disk)
  BY ReadyIs DEF Savepoint
<1>2. /\ UNCHANGED <<rows, inTransaction, names, sec, wide, disk, todo, up, watch>>
      /\ savepoint' = rows /\ inTransaction
  BY DEF Savepoint
<1>3. PICK e : e = disk
  OBVIOUS
<1>4. Leads(disk', todo', e, watch')
  BY <1>1, <1>2, <1>3, LeadsEmpty
<1>5. Memory'
  BY <1>1, <1>2 DEF Memory
<1>6. TransactionAgrees(e)' /\ NamesAgree(e)'
  BY <1>1, <1>2, <1>3 DEF TransactionAgrees, NamesAgree
<1>7. Changed(e)' => Changed(disk)
  BY <1>2, <1>3 DEF Changed
<1>8. WideAgrees(e)'
  BY <1>1, <1>2, <1>3, <1>7, WideStays DEF WideAgrees, EpochOf
<1> QED
  BY <1>1, <1>2, <1>4, <1>5, <1>6, <1>8, StatementDone

\* A rollback, whole or to a savepoint, marks the username index dirty.
LEMMA RollbackStep ==
    ASSUME IndexInv, Rollback \/ RollbackTo
    PROVE  IndexInv'
<1>1. /\ Memory /\ up /\ todo = <<>> /\ Good(disk, watch)
      /\ TransactionAgrees(disk) /\ NamesAgree(disk) /\ WideAgrees(disk)
  BY ReadyIs DEF Rollback, RollbackTo
<1>2. /\ UNCHANGED <<sec, wide, disk, todo, up, watch>>
      /\ names' = MarkDirty(names)
      /\ \/ rows' = disk.rows /\ inTransaction' = FALSE /\ savepoint' = None
         \/ /\ rows' = savepoint /\ savepoint # None /\ savepoint' = savepoint
            /\ inTransaction /\ inTransaction' = inTransaction
  BY DEF Rollback, RollbackTo
<1>3. PICK e : e = disk
  OBVIOUS
<1>4. Leads(disk', todo', e, watch')
  BY <1>1, <1>2, <1>3, LeadsEmpty
<1>5. disk.rows \in [Table -> Content]
  BY <1>1 DEF Good, DiskOK, File, FileContent
<1>6. /\ names' \in NamesIndex /\ names'.enabled = names.enabled
      /\ names.enabled => names'.dirty
  BY <1>1, <1>2, NamesValues, MemoryIs DEF Memory
<1>7. Memory'
  BY <1>1, <1>2, <1>5, <1>6 DEF Memory
<1>8. TransactionAgrees(e)' /\ NamesAgree(e)'
  BY <1>1, <1>2, <1>3, <1>6 DEF TransactionAgrees, NamesAgree
<1>9. Changed(e)' => Changed(disk)
  BY <1>2, <1>3 DEF Changed
<1>10. WideAgrees(e)'
  BY <1>1, <1>2, <1>3, <1>9, WideStays DEF WideAgrees, EpochOf
<1> QED
  BY <1>1, <1>2, <1>4, <1>7, <1>8, <1>10, StatementDone

----------------------------------------------------------------------------
(* Lookups and checkpoints that rebuild the username index                 *)

\* The memory half of a rebuild.
LEMMA RebuildAgrees ==
    ASSUME Memory, TransactionAgrees(disk), NEW nm \in NamesIndex,
           rows' = rows, ~inTransaction, inTransaction' = FALSE,
           names' = EnsureNames(nm, rows.users, FALSE),
           nm.enabled /\ ~nm.dirty => ~Misses(nm.entries, rows.users),
           NEW e, e.rows = disk.rows, Trusts(e) => nm.enabled,
           nm.enabled => Matching(e)
    PROVE  names' \in NamesIndex /\ NamesAgree(e)'
<1>1. disk.rows = rows /\ rows.users \in Content
  BY MemoryIs DEF TransactionAgrees
<1>2. /\ names' \in NamesIndex /\ names'.enabled = nm.enabled
      /\ nm.enabled /\ nm.dirty => names'.entries = rows.users
      /\ ~(nm.enabled /\ nm.dirty) => names' = nm
  BY <1>1, NamesValues, ZenonT(60)
<1>3. nm.enabled => ~Misses(names'.entries, rows.users)
  <2>1. CASE nm.dirty
    BY <1>2, <2>1 DEF Misses
  <2>2. CASE ~nm.dirty
    BY <1>2, <2>2
  <2> QED
    BY <2>1, <2>2
<1> QED
  BY <1>1, <1>2, <1>3 DEF NamesAgree

\* A checkpoint rebuilds a dirty username index as a commit does.
LEMMA CheckpointStep ==
    ASSUME IndexInv, Checkpoint
    PROVE  IndexInv'
<1>1. /\ Memory /\ up /\ todo = <<>> /\ Good(disk, watch)
      /\ TransactionAgrees(disk) /\ NamesAgree(disk) /\ WideAgrees(disk)
  BY ReadyIs DEF Checkpoint
<1>2. /\ ~inTransaction
      /\ names' = EnsureNames(names, rows.users, FALSE)
      /\ todo' = PrepareCommit(names) \o FinalizeCommit(names, rows.users)
      /\ UNCHANGED <<rows, savepoint, inTransaction, sec, wide, disk, up, watch>>
  BY DEF Checkpoint
<1>3. /\ names \in NamesIndex /\ names.enabled \in BOOLEAN /\ names.dirty \in BOOLEAN
      /\ wide.enabled \in BOOLEAN /\ rows.users \in Content /\ sec \in {None, "username", "email"}
      /\ inTransaction' = FALSE /\ disk.rows = rows
      /\ watch = "never" => ~wide.enabled
  BY <1>1, <1>2, MemoryIs DEF Memory, TransactionAgrees, WideAgrees
<1>4. /\ Trusts(disk) => names.enabled
      /\ names.enabled /\ ~names.dirty => Matching(disk) /\ ~Misses(names.entries, rows.users)
  BY <1>1 DEF NamesAgree
<1>5. \E d1 : /\ Leads(disk, PrepareCommit(names), d1, watch)
              /\ KeepsRows(disk, d1)
              /\ Trusts(d1) => names.enabled
              /\ names.enabled /\ ~names.dirty => Matching(d1)
  <2>1. CASE names.enabled /\ names.dirty
    <3>1. PrepareCommit(names) = SaveCatalog(names, sec, wide, FALSE)
      BY <2>1 DEF PrepareCommit
    <3>2. \E d1 : /\ Leads(disk, SaveCatalog(names, sec, wide, FALSE), d1, watch)
                  /\ KeepsRows(disk, d1) /\ KeepsNames(disk, d1)
                  /\ Trusts(d1) => names.enabled /\ FALSE
      BY <1>1, <1>3, SaveCatalogLeads
    <3> QED
      BY <2>1, <3>1, <3>2
  <2>2. CASE ~(names.enabled /\ names.dirty)
    <3>1. PrepareCommit(names) = <<>>
      BY <2>2 DEF PrepareCommit
    <3> QED
      BY <1>1, <1>4, <2>2, <3>1, LeadsEmpty DEF KeepsRows
  <2> QED
    BY <2>1, <2>2
<1>6. PICK d1 : /\ Leads(disk, PrepareCommit(names), d1, watch)
                /\ KeepsRows(disk, d1)
                /\ Trusts(d1) => names.enabled
                /\ names.enabled /\ ~names.dirty => Matching(d1)
  BY <1>5
<1>7. PICK e : /\ Leads(d1, FinalizeCommit(names, rows.users), e, watch)
               /\ KeepsRows(d1, e)
               /\ Trusts(e) => Trusts(d1) \/ names.enabled
               /\ Matching(d1) => Matching(e)
               /\ names.enabled /\ names.dirty => Matching(e)
  <2>1. Good(d1, watch) /\ rows.users = d1.rows.users
    BY <1>3, <1>6, LeadsGood DEF KeepsRows
  <2>2. FinalizeCommit(names, rows.users) = Rebuild(names, sec, wide, rows.users)
    BY DEF FinalizeCommit, EnsureNamesFiles, Rebuild
  <2> QED
    BY <1>3, <2>1, <2>2, RebuildLeads
<1>8. Leads(disk', todo', e, watch')
  BY <1>2, <1>6, <1>7, LeadsThen
<1>9. /\ e.rows = disk.rows /\ e.epoch = disk.epoch /\ e.eq = disk.eq /\ e.range = disk.range
      /\ Trusts(e) => names.enabled
      /\ names.enabled => Matching(e)
  BY <1>3, <1>6, <1>7 DEF KeepsRows
<1>10. names' \in NamesIndex /\ NamesAgree(e)'
  BY <1>1, <1>2, <1>3, <1>4, <1>9, RebuildAgrees
<1>11. Memory'
  BY <1>1, <1>2, <1>10 DEF Memory
<1>12. TransactionAgrees(e)'
  BY <1>1, <1>2, <1>9 DEF TransactionAgrees
<1>13. Changed(e)' => Changed(disk)
  BY <1>2, <1>9 DEF Changed
<1>14. WideAgrees(e)'
  BY <1>1, <1>2, <1>3, <1>9, <1>13, WideStays DEF EpochOf
<1> QED
  BY <1>1, <1>2, <1>8, <1>10, <1>11, <1>12, <1>14, StatementDone

\* A lookup in a transaction keeps the rebuilt entries dirty, so nobody trusts them later.
LEMMA LookupUsersStep ==
    ASSUME IndexInv, LookupUsername \/ LookupSec
    PROVE  IndexInv'
<1>1. /\ Memory /\ up /\ todo = <<>> /\ Good(disk, watch)
      /\ TransactionAgrees(disk) /\ NamesAgree(disk) /\ WideAgrees(disk)
  BY ReadyIs DEF LookupUsername, LookupSec
<1>2. /\ names' = EnsureNames(names, rows.users, inTransaction)
      /\ todo' = EnsureNamesFiles(names, sec, wide, rows.users, inTransaction)
      /\ UNCHANGED <<rows, savepoint, inTransaction, sec, wide, disk, up, watch>>
  BY DEF LookupUsername, LookupSec
<1>3. /\ names \in NamesIndex /\ names.enabled \in BOOLEAN /\ names.dirty \in BOOLEAN
      /\ wide.enabled \in BOOLEAN /\ rows.users \in Content /\ sec \in {None, "username", "email"}
      /\ watch = "never" => ~wide.enabled
  BY <1>1, MemoryIs DEF Memory, WideAgrees
<1>4. CASE inTransaction
  <2>1. PICK e : e = disk
    OBVIOUS
  <2>2. EnsureNamesFiles(names, sec, wide, rows.users, inTransaction) = <<>>
    BY <1>4 DEF EnsureNamesFiles
  <2>3. Leads(disk', todo', e, watch')
    BY <1>1, <1>2, <2>1, <2>2, LeadsEmpty
  <2>4. /\ names' \in NamesIndex /\ names'.enabled = names.enabled
        /\ names.enabled /\ ~names'.dirty => names' = names /\ ~names.dirty
    <3>1. inTransaction \in BOOLEAN
      BY <1>1, MemoryIs
    <3> QED
      BY <1>2, <1>3, <1>4, <3>1, NamesValues, ZenonT(60)
  <2>5. Memory'
    BY <1>1, <1>2, <2>4 DEF Memory
  <2>6. TransactionAgrees(e)' /\ NamesAgree(e)'
    BY <1>1, <1>2, <2>1, <2>4 DEF TransactionAgrees, NamesAgree
  <2>7. Changed(e)' => Changed(disk)
    BY <1>2, <2>1 DEF Changed
  <2>8. WideAgrees(e)'
    BY <1>1, <1>2, <1>3, <2>1, <2>7, WideStays DEF EpochOf
  <2> QED
    BY <1>1, <1>2, <2>3, <2>5, <2>6, <2>8, StatementDone
<1>5. CASE ~inTransaction
  <2>1. inTransaction' = FALSE /\ disk.rows = rows
    BY <1>1, <1>2, <1>5, MemoryIs DEF TransactionAgrees
  <2>2. /\ Trusts(disk) => names.enabled
        /\ names.enabled /\ ~names.dirty => Matching(disk) /\ ~Misses(names.entries, rows.users)
    BY <1>1 DEF NamesAgree
  <2>3. PICK e : /\ Leads(disk, Rebuild(names, sec, wide, rows.users), e, watch)
                 /\ KeepsRows(disk, e)
                 /\ Trusts(e) => Trusts(disk) \/ names.enabled
                 /\ Matching(disk) => Matching(e)
                 /\ names.enabled /\ names.dirty => Matching(e)
    <3>1. rows.users = disk.rows.users
      BY <2>1
    <3> QED
      BY <1>1, <1>3, <3>1, RebuildLeads
  <2>4. /\ names' = EnsureNames(names, rows.users, FALSE)
        /\ todo' = Rebuild(names, sec, wide, rows.users)
    <3>1. inTransaction = FALSE
      BY <1>2, <2>1
    <3>2. EnsureNames(names, rows.users, inTransaction) = EnsureNames(names, rows.users, FALSE)
      BY <3>1 DEF EnsureNames
    <3>3. EnsureNamesFiles(names, sec, wide, rows.users, inTransaction)
            = Rebuild(names, sec, wide, rows.users)
      BY <3>1 DEF EnsureNamesFiles, Rebuild
    <3> QED
      BY <1>2, <3>2, <3>3
  <2>5. Leads(disk', todo', e, watch')
    BY <1>2, <2>3, <2>4
  <2>6. /\ e.rows = disk.rows /\ e.epoch = disk.epoch /\ e.eq = disk.eq /\ e.range = disk.range
        /\ Trusts(e) => names.enabled
        /\ names.enabled => Matching(e)
    BY <1>3, <2>2, <2>3 DEF KeepsRows
  <2>7. names' \in NamesIndex /\ NamesAgree(e)'
    BY <1>1, <1>2, <1>3, <1>5, <2>1, <2>2, <2>4, <2>6, RebuildAgrees
  <2>8. Memory'
    BY <1>1, <1>2, <2>7 DEF Memory
  <2>9. TransactionAgrees(e)'
    BY <1>1, <1>2, <2>6 DEF TransactionAgrees
  <2>10. Changed(e)' => Changed(disk)
    BY <1>2, <2>6 DEF Changed
  <2>11. WideAgrees(e)'
    BY <1>1, <1>2, <1>3, <2>6, <2>10, WideStays DEF EpochOf
  <2> QED
    BY <1>1, <1>2, <2>5, <2>7, <2>8, <2>9, <2>11, StatementDone
<1> QED
  BY <1>4, <1>5

----------------------------------------------------------------------------
(* Statements on the other table                                           *)

\* History may be told with less: what is safe stays safe.
LEMMA Unseen ==
    ASSUME NEW d, NEW w, NEW v, Good(d, w),
           v # "unseen" => w # "unseen", v = "never" => w = "never"
    PROVE  Good(d, v)
BY DEF Good

\* Raising the epoch leaves every snapshot and the cache too old.
LEMMA RaiseLeads ==
    ASSUME Memory, Good(disk, watch), WideAgrees(disk), NEW w,
           w # "unseen" => watch # "unseen" /\ (wide.enabled \/ watch = "never"),
           w = "never" => watch = "never"
    PROVE  \E e : /\ Leads(disk, EpochBeforeMutation, e, w)
                  /\ KeepsUsers(disk, e)
                  /\ w # "unseen" => /\ TooOld(e) /\ CacheSafe(e)
                                     /\ \A f \in {"eq", "range"} :
                                           Readable(e[f]) => e[f].epoch < e.epoch
<1>1. Good(disk, w) /\ wide.enabled \in BOOLEAN
  BY Unseen, MemoryIs
<1>2. PICK e : /\ Leads(disk, EpochBeforeMutation, e, w)
               /\ KeepsUsers(disk, e)
               /\ ~wide.enabled => e = disk
               /\ wide.enabled =>
                     /\ e.epoch # Absent /\ EpochOf(disk) < EpochOf(e)
                     /\ w # "unseen" => \A f \in {"eq", "range"} :
                                           Readable(e[f]) => e[f].epoch < e.epoch
  BY <1>1, EpochLeads
<1>3. Good(e, w)
  BY <1>2, LeadsGood
<1>4. EpochOf(e) \in Nat /\ EpochOf(disk) \in Nat
  BY <1>1, <1>3, EpochsAreNumbers
<1>5. ASSUME w # "unseen"
      PROVE  /\ TooOld(e) /\ CacheSafe(e)
             /\ \A f \in {"eq", "range"} : Readable(e[f]) => e[f].epoch < e.epoch
  <2>1. CASE wide.enabled
    <3>1. \A f \in {"eq", "range"} : Readable(e[f]) => e[f].epoch < e.epoch
      BY <1>2, <1>5, <2>1
    <3>2. e.epoch = EpochOf(e)
      BY <1>2, <2>1 DEF EpochOf
    <3>3. ~wide.cache.dirty => wide.cache.epoch \in Nat /\ wide.cache.epoch <= EpochOf(disk)
      BY <1>5, MemoryIs DEF WideAgrees, CacheSafe
    <3>4. ~wide.cache.dirty => wide.cache.epoch \in Nat /\ wide.cache.epoch < EpochOf(e)
      BY <1>2, <1>4, <2>1, <3>3
    <3>5. TooOld(e)
      BY <3>1, <3>2, <3>4 DEF TooOld
    <3>6. CacheSafe(e)
      BY <1>4, <3>4 DEF CacheSafe
    <3> QED
      BY <3>1, <3>5, <3>6
  <2>2. CASE ~wide.enabled
    <3>1. watch = "never" /\ e = disk
      BY <1>2, <1>5, <2>2
    <3>2. ~Readable(e.eq) /\ ~Readable(e.range)
      BY <3>1 DEF Good, NoneYet, Readable
    <3>3. wide.cache.dirty
      BY <3>1 DEF WideAgrees
    <3> QED
      BY <3>2, <3>3 DEF TooOld, CacheSafe
  <2> QED
    BY <2>1, <2>2
<1> QED
  BY <1>2, <1>5

\* The epoch is raised, on disk and before the rows, whatever the transaction then does.
LEMMA WriteOtherStep ==
    ASSUME IndexInv, NEW contents \in SUBSET Content, WriteOther(contents)
    PROVE  IndexInv'
<1>1. /\ Memory /\ up /\ todo = <<>> /\ Good(disk, watch)
      /\ TransactionAgrees(disk) /\ NamesAgree(disk) /\ WideAgrees(disk)
  BY ReadyIs DEF WriteOther
<1>2. PICK c \in contents :
        LET new == [rows EXCEPT !.other = c]
        IN  /\ rows' = new
            /\ todo' = EpochBeforeMutation
                         \o IF inTransaction THEN <<>> ELSE WriteFile("rows", new)
  BY DEF WriteOther
<1> DEFINE new == [rows EXCEPT !.other = c]
<1>3. /\ watch' = IF watch = "kept" /\ ~wide.enabled THEN "unseen" ELSE watch
      /\ UNCHANGED <<savepoint, inTransaction, names, sec, wide, disk, up>>
  BY DEF WriteOther
<1>4. new \in [Table -> Content] /\ new.users = rows.users /\ new.other = c
  BY <1>1 DEF Memory, Table
<1>5. /\ rows' = new
      /\ todo' = EpochBeforeMutation \o IF inTransaction THEN <<>> ELSE WriteFile("rows", new)
  BY <1>2
<1> HIDE DEF new
<1>6. /\ watch' # "unseen" => watch # "unseen" /\ (wide.enabled \/ watch = "never")
      /\ watch' = "never" => watch = "never"
      /\ watch' \in {"never", "kept", "unseen"}
  BY <1>1, <1>3 DEF Memory
<1>7. PICK d1 : /\ Leads(disk, EpochBeforeMutation, d1, watch')
                /\ KeepsUsers(disk, d1)
                /\ watch' # "unseen" => /\ TooOld(d1) /\ CacheSafe(d1)
                                        /\ \A f \in {"eq", "range"} :
                                              Readable(d1[f]) => d1[f].epoch < d1.epoch
  BY <1>1, <1>6, RaiseLeads
<1>8. Good(d1, watch') /\ d1.rows = disk.rows
  BY <1>7, LeadsGood DEF KeepsUsers
<1>9. \E e : /\ Leads(disk', todo', e, watch')
             /\ KeepsNames(d1, e) /\ e.catalog = d1.catalog /\ e.catalogWal = d1.catalogWal
             /\ e.epoch = d1.epoch /\ e.eq = d1.eq /\ e.range = d1.range
             /\ e.rows.users = disk.rows.users
             /\ inTransaction => e.rows = disk.rows
             /\ ~inTransaction => e.rows = new
  <2>1. CASE inTransaction
    <3>1. todo' = EpochBeforeMutation \o <<>>
      BY <1>5, <2>1
    <3>2. Leads(d1, <<>>, d1, watch')
      BY <1>8, LeadsEmpty
    <3>3. Leads(disk', todo', d1, watch')
      BY <1>3, <1>7, <3>1, <3>2, LeadsThen
    <3> QED
      BY <1>8, <2>1, <3>3 DEF KeepsNames
  <2>2. CASE ~inTransaction
    <3> DEFINE e == Done(d1, "rows", new)
    <3>1. todo' = EpochBeforeMutation \o WriteFile("rows", new)
      BY <1>5, <2>2
    <3>2. new.users = d1.rows.users
      BY <1>1, <1>4, <1>8, <2>2 DEF TransactionAgrees
    <3>3. /\ Leads(d1, WriteFile("rows", new), e, watch')
          /\ \A g \in File : e[g] = IF g = "rows" THEN new ELSE d1[g]
      BY <1>4, <1>7, <1>8, <3>2, RowsWrite
    <3> HIDE DEF e
    <3>4. Leads(disk', todo', e, watch')
      BY <1>3, <1>7, <3>1, <3>3, LeadsThen
    <3>5. /\ KeepsNames(d1, e) /\ e.catalog = d1.catalog /\ e.catalogWal = d1.catalogWal
          /\ e.epoch = d1.epoch /\ e.eq = d1.eq /\ e.range = d1.range /\ e.rows = new
      BY <3>3 DEF File, KeepsNames
    <3> QED
      BY <1>8, <2>2, <3>2, <3>4, <3>5
  <2> QED
    BY <2>1, <2>2
<1>10. PICK e :
          /\ Leads(disk', todo', e, watch')
          /\ KeepsNames(d1, e) /\ e.catalog = d1.catalog /\ e.catalogWal = d1.catalogWal
          /\ e.epoch = d1.epoch /\ e.eq = d1.eq /\ e.range = d1.range
          /\ e.rows.users = disk.rows.users
          /\ inTransaction => e.rows = disk.rows
          /\ ~inTransaction => e.rows = new
  BY <1>9
<1>11. Memory'
  BY <1>1, <1>3, <1>4, <1>5, <1>6 DEF Memory
<1>12. TransactionAgrees(e)'
  BY <1>1, <1>3, <1>5, <1>10 DEF TransactionAgrees
<1>13. (Trusts(e) <=> Trusts(disk)) /\ (Matching(e) <=> Matching(disk))
  BY <1>7, <1>10 DEF KeepsUsers, KeepsNames, Trusts, Matching
<1>14. NamesAgree(e)'
  BY <1>1, <1>3, <1>4, <1>5, <1>10, <1>13 DEF NamesAgree
<1>15. WideAgrees(e)'
  <2>1. ASSUME watch' # "unseen"
        PROVE  CacheSafe(e)' /\ TooOld(e)'
    <3>1. EpochOf(e) = EpochOf(d1) /\ EpochOf(d1) \in Nat
      BY <1>8, <1>10, EpochsAreNumbers DEF EpochOf
    <3>2. TooOld(e)'
      BY <1>3, <1>7, <1>10, <2>1, <3>1 DEF TooOld
    <3>3. ~wide.cache.dirty => wide.cache.epoch \in Nat /\ wide.cache.epoch < EpochOf(d1)
      BY <1>1, <1>7, <2>1, MemoryIs DEF TooOld
    <3>4. CacheSafe(e)'
      BY <1>3, <3>1, <3>3 DEF CacheSafe
    <3> QED
      BY <3>2, <3>4
  <2>2. watch' = "never" => ~wide'.enabled /\ wide'.cache.dirty
    BY <1>1, <1>3, <1>6 DEF WideAgrees
  <2> QED
    BY <2>1, <2>2 DEF WideAgrees
<1> QED
  BY <1>1, <1>3, <1>10, <1>11, <1>12, <1>14, <1>15, StatementDone

\* The statements that change the other table.
LEMMA OtherStep ==
    ASSUME IndexInv, InsertOther \/ UpdateOther \/ DeleteOther
    PROVE  IndexInv'
<1>1. Ready
  BY DEF InsertOther, UpdateOther, DeleteOther, WriteOther
<1>2. rows.other \in Content
  BY <1>1, ReadyIs, MemoryIs
<1>3. /\ Inserted(rows.other) \in SUBSET Content /\ Updated(rows.other) \in SUBSET Content
      /\ Deleted(rows.other) \in SUBSET Content
  BY <1>2, ContentsTyped
<1>4. CASE InsertOther
  BY <1>3, <1>4, WriteOtherStep DEF InsertOther
<1>5. CASE UpdateOther
  BY <1>3, <1>5, WriteOtherStep DEF UpdateOther
<1>6. CASE DeleteOther
  BY <1>3, <1>6, WriteOtherStep DEF DeleteOther
<1> QED
  BY <1>4, <1>5, <1>6

\* A refused statement has raised the epoch for nothing, which harms no index.
LEMMA FailOtherStep ==
    ASSUME IndexInv, FailOther
    PROVE  IndexInv'
<1>1. /\ Memory /\ up /\ todo = <<>> /\ Good(disk, watch)
      /\ TransactionAgrees(disk) /\ NamesAgree(disk) /\ WideAgrees(disk)
  BY ReadyIs DEF FailOther
<1>2. todo' = EpochBeforeMutation /\ UNCHANGED <<memory, disk, up, watch>>
  BY DEF FailOther
<1>3. UNCHANGED <<rows, savepoint, inTransaction, names, sec, wide>>
  BY <1>2 DEF memory
<1>4. wide.enabled \in BOOLEAN
  BY <1>1, MemoryIs
<1>5. Memory'
  BY <1>1, <1>2, <1>3 DEF Memory
<1>6. CASE ~wide.enabled
  <2>1. PICK e : e = disk
    OBVIOUS
  <2>2. Leads(disk', todo', e, watch')
    BY <1>1, <1>2, <1>6, <2>1, LeadsEmpty DEF EpochBeforeMutation
  <2>3. TransactionAgrees(e)' /\ NamesAgree(e)'
    BY <1>1, <1>3, <2>1 DEF TransactionAgrees, NamesAgree
  <2>4. Changed(e)' => Changed(disk)
    BY <1>3, <2>1 DEF Changed
  <2>5. WideAgrees(e)'
    BY <1>1, <1>2, <1>3, <1>6, <2>1, <2>4, WideStays
  <2> QED
    BY <1>1, <1>2, <1>5, <2>2, <2>3, <2>5, StatementDone
<1>7. CASE wide.enabled
  <2>1. PICK e : /\ Leads(disk, EpochBeforeMutation, e, watch)
                 /\ KeepsUsers(disk, e)
                 /\ watch # "unseen" => TooOld(e) /\ CacheSafe(e)
    BY <1>1, <1>7, RaiseLeads
  <2>2. Leads(disk', todo', e, watch')
    BY <1>2, <2>1
  <2>3. (Trusts(e) <=> Trusts(disk)) /\ (Matching(e) <=> Matching(disk)) /\ e.rows = disk.rows
    BY <2>1, KeptUsers DEF KeepsUsers
  <2>4. TransactionAgrees(e)' /\ NamesAgree(e)'
    BY <1>1, <1>3, <2>3 DEF TransactionAgrees, NamesAgree
  <2>5. WideAgrees(e)'
    BY <1>1, <1>2, <1>3, <2>1 DEF WideAgrees, TooOld, CacheSafe
  <2> QED
    BY <1>1, <1>2, <1>5, <2>2, <2>4, <2>5, StatementDone
<1> QED
  BY <1>4, <1>6, <1>7

\* Outside a transaction a lookup may write a snapshot of the rows.
LEMMA SnapshotLeads ==
    ASSUME Memory, Good(disk, watch), TransactionAgrees(disk), ~inTransaction,
           watch # "never", NEW f \in {"eq", "range"}
    PROVE  \E e : /\ Leads(disk, CurrentEpochFiles \o WriteFile(f, Snapshot(rows.other)), e, watch)
                  /\ KeepsUsers(disk, e) /\ e.epoch = CurrentEpoch
<1> DEFINE c == Snapshot(rows.other)
<1>1. CurrentEpoch \in Nat /\ rows.other \in Content /\ disk.rows = rows
  BY EpochsAreNumbers, MemoryIs DEF CurrentEpoch, EpochOf, TransactionAgrees
<1>2. c \in SnapshotOf /\ c.epoch = CurrentEpoch /\ c.entries = rows.other
  BY <1>1 DEF Snapshot, SnapshotOf
<1>3. PICK d1 : /\ Leads(disk, CurrentEpochFiles, d1, watch)
                /\ KeepsUsers(disk, d1) /\ d1.epoch = CurrentEpoch
  BY CurrentEpochLeads
<1>4. Good(d1, watch) /\ d1.rows = rows
  BY <1>1, <1>3, LeadsGood DEF KeepsUsers
<1>5. ~Misses(rows.other, d1.rows.other)
  BY <1>4 DEF Misses
<1> HIDE DEF c
<1> DEFINE e == Done(d1, f, c)
<1>6. /\ Leads(d1, WriteFile(f, c), e, watch)
      /\ \A g \in File : e[g] = IF g = f THEN c ELSE d1[g]
  BY <1>2, <1>3, <1>4, <1>5, SnapshotWrite
<1> HIDE DEF e
<1>7. KeepsUsers(disk, e) /\ e.epoch = CurrentEpoch
  BY <1>3, <1>6 DEF File, KeepsUsers, KeepsNames
<1>8. Leads(disk, CurrentEpochFiles \o WriteFile(f, c), e, watch)
  BY <1>3, <1>6, LeadsThen
<1> QED
  BY <1>7, <1>8 DEF c

\* The epoch that a lookup sees is that of its files before and after.
LEMMA LookupEpoch ==
    ASSUME Good(disk, watch), NEW e, e.epoch = CurrentEpoch
    PROVE  /\ CurrentEpoch \in Nat /\ CurrentEpoch = EpochOf(disk)
           /\ EpochOf(e) = CurrentEpoch
BY EpochsAreNumbers, IndexAssumption DEF CurrentEpoch, EpochOf

\* A range lookup writes a snapshot only of committed rows.
LEMMA LookupRangeStep ==
    ASSUME IndexInv, LookupRange
    PROVE  IndexInv'
<1>1. /\ Memory /\ up /\ todo = <<>> /\ Good(disk, watch)
      /\ TransactionAgrees(disk) /\ NamesAgree(disk) /\ WideAgrees(disk)
  BY ReadyIs DEF LookupRange
<1>2. /\ wide.enabled /\ todo' = CurrentEpochFiles \o RangeFiles
      /\ UNCHANGED <<memory, disk, up, watch>>
  BY DEF LookupRange
<1>3. UNCHANGED <<rows, savepoint, inTransaction, names, sec, wide>>
  BY <1>2 DEF memory
<1>4. Memory'
  BY <1>1, <1>2, <1>3 DEF Memory
<1>5. CASE LoadsSnapshot("range") \/ inTransaction
  <2>1. PICK e : /\ Leads(disk, CurrentEpochFiles, e, watch)
                 /\ KeepsUsers(disk, e) /\ e.epoch = CurrentEpoch
                 /\ \A f \in {"eq", "range"} : Readable(e[f]) => e[f] = disk[f]
    BY <1>1, CurrentEpochLeads
  <2>2. Leads(e, <<>>, e, watch)
    BY <2>1, LeadsGood, LeadsEmpty
  <2>3. Leads(disk', todo', e, watch')
    BY <1>2, <1>5, <2>1, <2>2, LeadsThen DEF RangeFiles
  <2>4. (Trusts(e) <=> Trusts(disk)) /\ (Matching(e) <=> Matching(disk)) /\ e.rows = disk.rows
    BY <2>1, KeptUsers DEF KeepsUsers
  <2>5. TransactionAgrees(e)' /\ NamesAgree(e)'
    BY <1>1, <1>3, <2>4 DEF TransactionAgrees, NamesAgree
  <2>6. Changed(e)' => Changed(disk)
    BY <1>3, <2>4 DEF Changed
  <2>7. EpochOf(e) = EpochOf(disk)
    BY <1>1, <2>1, LookupEpoch
  <2>8. watch = "never" => ~wide'.enabled
    BY <1>1, <1>3 DEF WideAgrees
  <2>9. WideAgrees(e)'
    BY <1>1, <1>2, <1>3, <2>1, <2>4, <2>6, <2>7, <2>8, WideStays
  <2> QED
    BY <1>1, <1>2, <1>4, <2>3, <2>5, <2>9, StatementDone
<1>6. CASE ~LoadsSnapshot("range") /\ ~inTransaction
  <2>1. RangeFiles = WriteFile("range", Snapshot(rows.other))
    BY <1>6 DEF RangeFiles
  <2>2. watch # "never"
    BY <1>1, <1>2 DEF WideAgrees
  <2>3. PICK e : /\ Leads(disk, CurrentEpochFiles \o RangeFiles, e, watch)
                 /\ KeepsUsers(disk, e) /\ e.epoch = CurrentEpoch
    BY <1>1, <1>6, <2>1, <2>2, SnapshotLeads
  <2>4. Leads(disk', todo', e, watch')
    BY <1>2, <2>3
  <2>5. (Trusts(e) <=> Trusts(disk)) /\ (Matching(e) <=> Matching(disk)) /\ e.rows = disk.rows
    BY <2>3, KeptUsers DEF KeepsUsers
  <2>6. TransactionAgrees(e)' /\ NamesAgree(e)'
    BY <1>1, <1>3, <2>5 DEF TransactionAgrees, NamesAgree
  <2>7. ~Changed(e)'
    BY <1>1, <1>3, <1>6, <2>5 DEF Changed, TransactionAgrees
  <2>8. EpochOf(e) = EpochOf(disk)
    BY <1>1, <2>3, LookupEpoch
  <2>9. WideAgrees(e)'
    BY <1>1, <1>2, <1>3, <2>2, <2>5, <2>7, <2>8 DEF WideAgrees, CacheSafe
  <2> QED
    BY <1>1, <1>2, <1>4, <2>4, <2>6, <2>9, StatementDone
<1> QED
  BY <1>5, <1>6

\* The cache of the equality route after a lookup.
LEMMA EnsuredCache ==
    ASSUME Memory, Good(disk, watch), TransactionAgrees(disk), WideAgrees(disk),
           watch # "never",
           NEW e, e.rows = disk.rows, EpochOf(e) = CurrentEpoch,
           NEW c, c = EnsureCache(wide.cache)
    PROVE  /\ c \in Cache
           /\ ~c.dirty => c.epoch \in Nat
           /\ watch # "unseen" /\ ~c.dirty =>
                 /\ c.epoch <= EpochOf(e)
                 /\ c.epoch = EpochOf(e) => ~Misses(c.entries, e.rows.other)
           /\ watch # "unseen" /\ Changed(disk) /\ ~c.dirty => c.epoch < EpochOf(e)
<1>1. CurrentEpoch \in Nat /\ CurrentEpoch = EpochOf(disk)
  BY EpochsAreNumbers DEF CurrentEpoch, EpochOf
<1>2. CASE ~StaleCache(wide.cache)
  <2>1. c = wide.cache
    BY <1>2 DEF EnsureCache
  <2>2. c \in Cache /\ (~c.dirty => c.epoch \in Nat)
    BY <2>1, MemoryIs
  <2>3. watch # "unseen" => CacheSafe(disk) /\ (Changed(disk) => TooOld(disk))
    BY DEF WideAgrees
  <2> QED
    BY <1>1, <2>1, <2>2, <2>3 DEF CacheSafe, TooOld
<1>3. CASE StaleCache(wide.cache) /\ LoadsSnapshot("eq")
  <2>1. c = [epoch |-> CurrentEpoch, dirty |-> FALSE, entries |-> disk.eq.entries]
    BY <1>3 DEF EnsureCache
  <2>2. ~inTransaction /\ Readable(disk.eq) /\ disk.eq.epoch = CurrentEpoch
    BY <1>3 DEF LoadsSnapshot
  <2>3. disk.eq \in SnapshotOf
    BY <2>2, EpochsAreNumbers
  <2>4. disk.eq.entries \in Content
    BY <2>3 DEF SnapshotOf
  <2>5. ~Changed(disk)
    BY <2>2 DEF Changed, TransactionAgrees
  <2>6. watch # "unseen" => ~Misses(disk.eq.entries, disk.rows.other)
    <3>1. watch # "unseen" => disk.epoch # Absent
      BY <2>2 DEF Good, SnapshotSafe
    <3> QED
      BY <2>2, <3>1 DEF Good, SnapshotSafe, CurrentEpoch
  <2>7. c \in Cache /\ c.epoch = CurrentEpoch /\ c.entries = disk.eq.entries
    BY <1>1, <2>1, <2>4 DEF Cache
  <2> QED
    BY <1>1, <2>5, <2>6, <2>7
<1>4. CASE StaleCache(wide.cache) /\ ~LoadsSnapshot("eq")
  <2>1. c = [epoch |-> CurrentEpoch, dirty |-> inTransaction, entries |-> rows.other]
    BY <1>4 DEF EnsureCache
  <2>2. /\ c \in Cache /\ c.epoch = CurrentEpoch /\ c.entries = rows.other
        /\ c.dirty = inTransaction
    BY <1>1, <2>1, MemoryIs DEF Cache
  <2>3. CASE inTransaction
    BY <1>1, <2>2, <2>3
  <2>4. CASE ~inTransaction
    <3>1. disk.rows = rows /\ ~Changed(disk)
      BY <2>4 DEF TransactionAgrees, Changed
    <3>2. ~Misses(rows.other, e.rows.other)
      BY <3>1 DEF Misses
    <3> QED
      BY <1>1, <2>2, <3>1, <3>2
  <2> QED
    BY <2>3, <2>4
<1> QED
  BY <1>2, <1>3, <1>4

\* An equality lookup keeps a cache that is as safe as a snapshot, or dirty.
LEMMA LookupEqualStep ==
    ASSUME IndexInv, LookupEqual
    PROVE  IndexInv'
<1> DEFINE c == EnsureCache(wide.cache)
<1>1. /\ Memory /\ up /\ todo = <<>> /\ Good(disk, watch)
      /\ TransactionAgrees(disk) /\ NamesAgree(disk) /\ WideAgrees(disk)
  BY ReadyIs DEF LookupEqual
<1>2. /\ wide.enabled /\ todo' = CurrentEpochFiles \o EnsureCacheFiles(wide.cache)
      /\ wide' = [wide EXCEPT !.cache = c]
      /\ UNCHANGED <<rows, savepoint, inTransaction, names, sec, disk, up, watch>>
  BY DEF LookupEqual
<1>3. watch # "never"
  BY <1>1, <1>2 DEF WideAgrees
<1>4. \E e : /\ Leads(disk', todo', e, watch')
             /\ KeepsUsers(disk, e) /\ e.epoch = CurrentEpoch
             /\ inTransaction => \A f \in {"eq", "range"} : Readable(e[f]) => e[f] = disk[f]
  <2>1. CASE StaleCache(wide.cache) /\ ~LoadsSnapshot("eq") /\ ~inTransaction
    <3>1. EnsureCacheFiles(wide.cache) = WriteFile("eq", Snapshot(rows.other))
      BY <2>1 DEF EnsureCacheFiles
    <3>2. PICK e : /\ Leads(disk, CurrentEpochFiles \o EnsureCacheFiles(wide.cache), e, watch)
                   /\ KeepsUsers(disk, e) /\ e.epoch = CurrentEpoch
      BY <1>1, <1>3, <2>1, <3>1, SnapshotLeads
    <3> QED
      BY <1>2, <2>1, <3>2
  <2>2. CASE ~(StaleCache(wide.cache) /\ ~LoadsSnapshot("eq") /\ ~inTransaction)
    <3>1. EnsureCacheFiles(wide.cache) = <<>>
      BY <2>2 DEF EnsureCacheFiles
    <3>2. PICK e : /\ Leads(disk, CurrentEpochFiles, e, watch)
                   /\ KeepsUsers(disk, e) /\ e.epoch = CurrentEpoch
                   /\ \A f \in {"eq", "range"} : Readable(e[f]) => e[f] = disk[f]
      BY <1>1, CurrentEpochLeads
    <3>3. Leads(e, <<>>, e, watch)
      BY <3>2, LeadsGood, LeadsEmpty
    <3>4. Leads(disk', todo', e, watch')
      BY <1>2, <3>1, <3>2, <3>3, LeadsThen
    <3> QED
      BY <3>2, <3>4
  <2> QED
    BY <2>1, <2>2
<1>5. PICK e : /\ Leads(disk', todo', e, watch')
               /\ KeepsUsers(disk, e) /\ e.epoch = CurrentEpoch
               /\ inTransaction => \A f \in {"eq", "range"} : Readable(e[f]) => e[f] = disk[f]
  BY <1>4
<1>6. (Trusts(e) <=> Trusts(disk)) /\ (Matching(e) <=> Matching(disk)) /\ e.rows = disk.rows
  BY <1>5, KeptUsers DEF KeepsUsers
<1>7. CurrentEpoch \in Nat /\ CurrentEpoch = EpochOf(disk) /\ EpochOf(e) = CurrentEpoch
  BY <1>1, <1>5, LookupEpoch
<1>8. /\ c \in Cache
      /\ ~c.dirty => c.epoch \in Nat
      /\ watch # "unseen" /\ ~c.dirty =>
            /\ c.epoch <= EpochOf(e)
            /\ c.epoch = EpochOf(e) => ~Misses(c.entries, e.rows.other)
      /\ watch # "unseen" /\ Changed(disk) /\ ~c.dirty => c.epoch < EpochOf(e)
  <2>1. PICK x : x = c
    OBVIOUS
  <2> HIDE DEF c
  <2>2. x = EnsureCache(wide.cache)
    BY <2>1 DEF c
  <2> QED
    BY <1>1, <1>3, <1>6, <1>7, <2>1, <2>2, EnsuredCache
<1> HIDE DEF c
<1>9. wide'.cache = c /\ wide' \in [enabled : BOOLEAN, cache : Cache]
  BY <1>1, <1>2, <1>8 DEF Memory
<1>10. Memory'
  BY <1>1, <1>2, <1>8, <1>9 DEF Memory
<1>11. TransactionAgrees(e)' /\ NamesAgree(e)'
  BY <1>1, <1>2, <1>6 DEF TransactionAgrees, NamesAgree
<1>12. WideAgrees(e)'
  <2>1. ASSUME watch # "unseen"
        PROVE  CacheSafe(e)' /\ (Changed(e)' => TooOld(e)')
    <3>1. CacheSafe(e)'
      BY <1>8, <1>9, <2>1 DEF CacheSafe
    <3>2. ASSUME Changed(e)'
          PROVE  TooOld(e)'
      <4>1. Changed(disk)
        BY <1>2, <1>6, <3>2 DEF Changed
      <4>2. inTransaction
        BY <1>1, <4>1 DEF Changed, TransactionAgrees
      <4>3. TooOld(disk)
        BY <1>1, <2>1, <4>1 DEF WideAgrees
      <4> QED
        BY <1>5, <1>7, <1>8, <1>9, <2>1, <4>1, <4>2, <4>3 DEF TooOld
    <3> QED
      BY <3>1, <3>2
  <2> QED
    BY <1>2, <1>3, <2>1 DEF WideAgrees
<1> QED
  BY <1>1, <1>2, <1>5, <1>10, <1>11, <1>12, StatementDone

----------------------------------------------------------------------------
(* CREATE INDEX and DROP INDEX                                             *)

\* CREATE INDEX rebuilds what is dirty before it saves a catalog that trusts.
LEMMA CreateIndexStep ==
    ASSUME IndexInv, NEW nm \in NamesIndex, NEW sc \in {None, "username", "email"},
           NEW wd \in [enabled : BOOLEAN, cache : Cache],
           CreateIndex(nm, sc, wd), wd.cache = wide.cache,
           names.enabled => nm.enabled,
           nm.enabled /\ ~nm.dirty => nm = names,
           watch' # "unseen" => watch # "unseen",
           watch' = "never" => watch = "never" /\ ~wd.enabled,
           watch' \in {"never", "kept", "unseen"}
    PROVE  IndexInv'
<1>1. /\ Memory /\ up /\ todo = <<>> /\ Good(disk, watch)
      /\ TransactionAgrees(disk) /\ NamesAgree(disk) /\ WideAgrees(disk)
  BY ReadyIs DEF CreateIndex
<1>2. /\ ~inTransaction /\ names' = EnsureNames(nm, rows.users, FALSE) /\ sec' = sc /\ wide' = wd
      /\ todo' = EnsureNamesFiles(nm, sc, wd, rows.users, FALSE) \o SaveCatalog(nm, sc, wd, TRUE)
      /\ UNCHANGED <<rows, savepoint, inTransaction, disk, up>>
  BY DEF CreateIndex
<1>3. /\ rows.users \in Content /\ inTransaction' = FALSE /\ disk.rows = rows
      /\ nm.enabled \in BOOLEAN /\ nm.dirty \in BOOLEAN /\ wd.enabled \in BOOLEAN
  BY <1>1, <1>2, MemoryIs DEF TransactionAgrees, NamesIndex
<1>4. Good(disk, watch')
  BY <1>1, Unseen
<1>5. /\ Trusts(disk) => nm.enabled
      /\ nm.enabled /\ ~nm.dirty => Matching(disk) /\ ~Misses(nm.entries, rows.users)
  BY <1>1 DEF NamesAgree
<1>6. PICK d1 : /\ Leads(disk, Rebuild(nm, sc, wd, rows.users), d1, watch')
                /\ KeepsRows(disk, d1)
                /\ Matching(disk) => Matching(d1)
                /\ nm.enabled /\ nm.dirty => Matching(d1)
  <2>1. rows.users = disk.rows.users
    BY <1>3
  <2> QED
    BY <1>3, <1>4, <2>1, RebuildLeads
<1>7. nm.enabled => Matching(d1)
  BY <1>3, <1>5, <1>6
<1>8. PICK e : /\ Leads(d1, SaveCatalog(nm, sc, wd, TRUE), e, watch')
               /\ KeepsRows(d1, e) /\ KeepsNames(d1, e)
               /\ Trusts(e) => nm.enabled
  <2>1. Good(d1, watch')
    BY <1>6, LeadsGood
  <2>2. \E e : /\ Leads(d1, SaveCatalog(nm, sc, wd, TRUE), e, watch')
               /\ KeepsRows(d1, e) /\ KeepsNames(d1, e)
               /\ Trusts(e) => nm.enabled /\ TRUE
    <3>1. CASE nm.enabled
      <4>1. Matching(d1)
        BY <1>7, <3>1
      <4> QED
        BY <1>3, <2>1, <4>1, SaveCatalogLeads, ZenonT(60)
    <3>2. CASE ~nm.enabled
      BY <1>3, <2>1, <3>2, SaveCatalogLeads
    <3> QED
      BY <3>1, <3>2
  <2> QED
    BY <2>2
<1>9. EnsureNamesFiles(nm, sc, wd, rows.users, FALSE) = Rebuild(nm, sc, wd, rows.users)
  BY DEF EnsureNamesFiles, Rebuild
<1>10. Leads(disk', todo', e, watch')
  BY <1>2, <1>6, <1>8, <1>9, LeadsThen
<1>11. /\ e.rows = disk.rows /\ e.epoch = disk.epoch /\ e.eq = disk.eq /\ e.range = disk.range
       /\ nm.enabled => Matching(e)
  BY <1>6, <1>7, <1>8 DEF KeepsRows, KeepsNames, Matching
<1>12. names' \in NamesIndex /\ NamesAgree(e)'
  BY <1>1, <1>2, <1>3, <1>5, <1>8, <1>11, RebuildAgrees
<1>13. Memory'
  BY <1>1, <1>2, <1>12 DEF Memory
<1>14. TransactionAgrees(e)'
  BY <1>1, <1>2, <1>11 DEF TransactionAgrees
<1>15. Changed(e)' => Changed(disk)
  BY <1>2, <1>11 DEF Changed
<1>16. WideAgrees(e)'
  <2>1. EpochOf(e) = EpochOf(disk) /\ wide'.cache = wide.cache
    BY <1>2, <1>11 DEF EpochOf
  <2>2. watch' = "never" => watch = "never" /\ ~wide'.enabled
    BY <1>2
  <2>3. \A f \in {"eq", "range"} : Readable(e[f]) => e[f] = disk[f]
    BY <1>11
  <2> QED
    BY <1>1, <1>11, <1>15, <2>1, <2>2, <2>3, WideStays
<1> QED
  BY <1>1, <1>2, <1>10, <1>12, <1>13, <1>14, <1>16, StatementDone

\* The two kinds of index.
LEMMA CreateStep ==
    ASSUME IndexInv, CreateUsersIndex \/ CreateOtherIndex
    PROVE  IndexInv'
<1>1. Ready
  BY DEF CreateUsersIndex, CreateOtherIndex, CreateIndex
<1>2. Memory /\ WideAgrees(disk)
  BY <1>1, ReadyIs
<1>3. /\ names \in NamesIndex /\ wide \in [enabled : BOOLEAN, cache : Cache]
      /\ sec \in {None, "username", "email"} /\ watch \in {"never", "kept", "unseen"}
      /\ watch = "never" => ~wide.enabled
  BY <1>2 DEF Memory, WideAgrees
<1>4. CASE watch' = watch
           /\ CreateIndex([names EXCEPT !.enabled = TRUE, !.dirty = TRUE], "username", wide)
  <2> DEFINE nm == [names EXCEPT !.enabled = TRUE, !.dirty = TRUE]
  <2>1. nm \in NamesIndex /\ nm.enabled /\ nm.dirty
    BY <1>3 DEF NamesIndex
  <2>2. CreateIndex(nm, "username", wide)
    BY <1>4
  <2> HIDE DEF nm
  <2> QED
    BY <1>3, <1>4, <2>1, <2>2, CreateIndexStep
<1>5. CASE watch' = watch /\ CreateIndex(names, "email", wide)
  BY <1>3, <1>5, CreateIndexStep
<1>6. CASE CreateOtherIndex
  <2> DEFINE wd == [wide EXCEPT !.enabled = TRUE]
  <2>1. wd \in [enabled : BOOLEAN, cache : Cache] /\ wd.cache = wide.cache
    BY <1>3
  <2>2. CreateIndex(names, sec, wd) /\ watch' = IF watch = "never" THEN "kept" ELSE watch
    BY <1>6 DEF CreateOtherIndex
  <2>3. watch' \in {"kept", "unseen"} /\ (watch' # "unseen" => watch # "unseen")
    BY <1>3, <2>2
  <2> HIDE DEF wd
  <2> QED
    BY <1>3, <2>1, <2>2, <2>3, CreateIndexStep
<1> QED
  BY <1>4, <1>5, <1>6 DEF CreateUsersIndex

\* Dropping the username index removes its file and then every trust in it.
LEMMA DropNamesLeads ==
    ASSUME Memory, Good(disk, watch), watch = "never" => ~wide.enabled
    PROVE  \E e : /\ Leads(disk, DropNamesFiles(wide), e, watch)
                  /\ KeepsRows(disk, e) /\ ~Trusts(e)
<1> DEFINE d1 == Done(disk, "names", Absent)
           d2 == Done(d1, "namesWal", Absent)
<1>1. ~Readable(Absent) /\ wide.enabled \in BOOLEAN /\ NoNames.enabled = FALSE
  BY MemoryIs DEF Readable, NoNames
<1>2. /\ Good(d1, watch) /\ Leads(disk, WriteFile("names", Absent), d1, watch)
      /\ \A g \in File : d1[g] = IF g = "names" THEN Absent ELSE disk[g]
  BY <1>1, NamesWrite
<1> HIDE DEF d1
<1>3. /\ Good(d2, watch) /\ Leads(d1, WriteFile("namesWal", Absent), d2, watch)
      /\ \A g \in File : d2[g] = IF g = "namesWal" THEN Absent ELSE d1[g]
  BY <1>1, <1>2, NamesWrite
<1> HIDE DEF d2
<1>4. KeepsRows(disk, d2)
  BY <1>2, <1>3 DEF File, KeepsRows
<1>5. PICK e : /\ Leads(d2, SaveCatalog(NoNames, None, wide, FALSE), e, watch)
               /\ KeepsRows(d2, e) /\ ~Trusts(e)
  <2>1. \E e : /\ Leads(d2, SaveCatalog(NoNames, None, wide, FALSE), e, watch)
               /\ KeepsRows(d2, e) /\ KeepsNames(d2, e)
               /\ Trusts(e) => NoNames.enabled /\ FALSE
    BY <1>1, <1>3, SaveCatalogLeads
  <2> QED
    BY <2>1
<1>6. Leads(disk, (WriteFile("names", Absent) \o WriteFile("namesWal", Absent))
                    \o SaveCatalog(NoNames, None, wide, FALSE), e, watch)
  BY <1>2, <1>3, <1>5, LeadsThen
<1>7. Leads(disk, DropNamesFiles(wide), e, watch)
  BY <1>6 DEF DropNamesFiles, Remove
<1> QED
  BY <1>4, <1>5, <1>7 DEF KeepsRows

\* DROP INDEX on users leaves a catalog that trusts nothing.
LEMMA DropUsersStep ==
    ASSUME IndexInv, DropUsersIndex
    PROVE  IndexInv'
<1>1. /\ Memory /\ up /\ todo = <<>> /\ Good(disk, watch)
      /\ TransactionAgrees(disk) /\ NamesAgree(disk) /\ WideAgrees(disk)
  BY ReadyIs DEF DropUsersIndex
<1>2. /\ ~inTransaction /\ sec' = None
      /\ UNCHANGED <<rows, savepoint, inTransaction, wide, disk, up, watch>>
  BY DEF DropUsersIndex
<1>3. /\ wide.enabled \in BOOLEAN /\ names.enabled \in BOOLEAN /\ NoNames.enabled = FALSE
      /\ watch = "never" => ~wide.enabled
  BY <1>1, MemoryIs DEF WideAgrees, NoNames
<1>4. \E e : /\ Leads(disk', todo', e, watch')
             /\ KeepsRows(disk, e) /\ ~Trusts(e)
             /\ \/ names' = NoNames
                \/ names' = names /\ (Matching(disk) => Matching(e))
  <2>1. PICK d1 : /\ Leads(disk, DropNamesFiles(wide), d1, watch)
                  /\ KeepsRows(disk, d1) /\ ~Trusts(d1)
    BY <1>1, <1>3, DropNamesLeads
  <2>2. CASE names' = NoNames
             /\ todo' = DropNamesFiles(wide) \o SaveCatalog(NoNames, None, wide, FALSE)
    <3>1. Good(d1, watch)
      BY <2>1, LeadsGood
    <3>2. \E e : /\ Leads(d1, SaveCatalog(NoNames, None, wide, FALSE), e, watch)
                 /\ KeepsRows(d1, e) /\ KeepsNames(d1, e)
                 /\ Trusts(e) => NoNames.enabled /\ FALSE
      BY <1>3, <3>1, SaveCatalogLeads
    <3>3. PICK e : /\ Leads(d1, SaveCatalog(NoNames, None, wide, FALSE), e, watch)
                   /\ KeepsRows(d1, e) /\ ~Trusts(e)
      BY <3>2
    <3>4. Leads(disk', todo', e, watch')
      BY <1>2, <2>1, <2>2, <3>3, LeadsThen
    <3> QED
      BY <2>1, <2>2, <3>3, <3>4 DEF KeepsRows
  <2>3. CASE names' = NoNames /\ todo' = DropNamesFiles(wide)
    BY <1>2, <2>1, <2>3
  <2>4. CASE names' = names /\ todo' = SaveCatalog(names, None, wide, FALSE)
    <3>1. \E e : /\ Leads(disk, SaveCatalog(names, None, wide, FALSE), e, watch)
                 /\ KeepsRows(disk, e) /\ KeepsNames(disk, e)
                 /\ Trusts(e) => names.enabled /\ FALSE
      BY <1>1, <1>3, SaveCatalogLeads
    <3>2. PICK e : /\ Leads(disk, SaveCatalog(names, None, wide, FALSE), e, watch)
                   /\ KeepsRows(disk, e) /\ KeepsNames(disk, e) /\ ~Trusts(e)
      BY <3>1
    <3>3. Matching(disk) => Matching(e)
      BY <3>2 DEF Matching, KeepsRows, KeepsNames
    <3> QED
      BY <1>2, <2>4, <3>2, <3>3
  <2> QED
    BY <2>2, <2>3, <2>4 DEF DropUsersIndex
<1>5. PICK e : /\ Leads(disk', todo', e, watch')
               /\ KeepsRows(disk, e) /\ ~Trusts(e)
               /\ \/ names' = NoNames
                  \/ names' = names /\ (Matching(disk) => Matching(e))
  BY <1>4
<1>6. e.rows = disk.rows /\ e.epoch = disk.epoch /\ e.eq = disk.eq /\ e.range = disk.range
  BY <1>5 DEF KeepsRows
<1>7. NoNames \in NamesIndex
  BY DEF NoNames, NamesIndex, Empty, Content
<1>8. Memory'
  BY <1>1, <1>2, <1>5, <1>7 DEF Memory
<1>9. TransactionAgrees(e)'
  BY <1>1, <1>2, <1>6 DEF TransactionAgrees
<1>10. NamesAgree(e)'
  BY <1>1, <1>2, <1>3, <1>5, <1>6 DEF NamesAgree
<1>11. Changed(e)' => Changed(disk)
  BY <1>2, <1>6 DEF Changed
<1>12. WideAgrees(e)'
  BY <1>1, <1>2, <1>3, <1>6, <1>11, WideStays DEF EpochOf
<1> QED
  BY <1>1, <1>2, <1>5, <1>8, <1>9, <1>10, <1>12, StatementDone

\* DROP INDEX on the other table removes both snapshots.
LEMMA DropOtherStep ==
    ASSUME IndexInv, DropOtherIndex
    PROVE  IndexInv'
<1> DEFINE wd == [wide EXCEPT !.enabled = FALSE]
           d1 == Done(disk, "eq", Absent)
<1>1. /\ Memory /\ up /\ todo = <<>> /\ Good(disk, watch)
      /\ TransactionAgrees(disk) /\ NamesAgree(disk) /\ WideAgrees(disk)
  BY ReadyIs DEF DropOtherIndex
<1>2. /\ ~inTransaction /\ wide.enabled /\ wide' = wd
      /\ todo' = WriteFile("eq", Absent) \o SaveCatalog(names, sec, wd, FALSE)
                   \o WriteFile("range", Absent)
      /\ UNCHANGED <<rows, savepoint, inTransaction, names, sec, disk, up, watch>>
  BY DEF DropOtherIndex, Remove
<1>3. /\ wd \in [enabled : BOOLEAN, cache : Cache] /\ wd.enabled = FALSE /\ wd.cache = wide.cache
      /\ names.enabled \in BOOLEAN /\ sec \in {None, "username", "email"}
      /\ ~Readable(Absent)
  BY <1>1, MemoryIs DEF Memory, Readable
<1> HIDE DEF wd
<1>4. /\ Good(d1, watch) /\ Leads(disk, WriteFile("eq", Absent), d1, watch)
      /\ \A g \in File : d1[g] = IF g = "eq" THEN Absent ELSE disk[g]
  BY <1>1, SnapshotWrite
<1> HIDE DEF d1
<1>5. PICK d2 : /\ Leads(d1, SaveCatalog(names, sec, wd, FALSE), d2, watch)
                /\ KeepsRows(d1, d2) /\ KeepsNames(d1, d2) /\ ~Trusts(d2)
  <2>1. \E e : /\ Leads(d1, SaveCatalog(names, sec, wd, FALSE), e, watch)
               /\ KeepsRows(d1, e) /\ KeepsNames(d1, e)
               /\ Trusts(e) => names.enabled /\ FALSE
    BY <1>3, <1>4, SaveCatalogLeads
  <2> QED
    BY <2>1
<1> DEFINE e == Done(d2, "range", Absent)
<1>6. Good(d2, watch)
  BY <1>5, LeadsGood
<1>7. /\ Leads(d2, WriteFile("range", Absent), e, watch)
      /\ \A g \in File : e[g] = IF g = "range" THEN Absent ELSE d2[g]
  BY <1>6, SnapshotWrite
<1> HIDE DEF e
<1>8. Leads(disk', todo', e, watch')
  BY <1>2, <1>4, <1>5, <1>7, LeadsThen
<1>9. /\ e.rows = disk.rows /\ e.epoch = disk.epoch /\ e.eq = Absent /\ e.range = Absent
      /\ e.names = disk.names /\ e.namesWal = disk.namesWal
      /\ e.catalog = d2.catalog /\ e.catalogWal = d2.catalogWal
  BY <1>4, <1>5, <1>7 DEF File, KeepsRows, KeepsNames
<1>10. ~Trusts(e) /\ (Matching(disk) => Matching(e))
  BY <1>5, <1>9 DEF Trusts, Matching
<1>11. Memory'
  BY <1>1, <1>2, <1>3 DEF Memory
<1>12. TransactionAgrees(e)'
  BY <1>1, <1>2, <1>9 DEF TransactionAgrees
<1>13. NamesAgree(e)'
  BY <1>1, <1>2, <1>9, <1>10 DEF NamesAgree
<1>14. Changed(e)' => Changed(disk)
  BY <1>2, <1>9 DEF Changed
<1>15. WideAgrees(e)'
  <2>1. EpochOf(e) = EpochOf(disk) /\ wide'.cache = wide.cache /\ ~wide'.enabled
    BY <1>2, <1>3, <1>9 DEF EpochOf
  <2>2. \A f \in {"eq", "range"} : Readable(e[f]) => e[f] = disk[f]
    BY <1>3, <1>9
  <2> QED
    BY <1>1, <1>2, <1>9, <1>14, <2>1, <2>2, WideStays
<1> QED
  BY <1>1, <1>2, <1>8, <1>11, <1>12, <1>13, <1>15, StatementDone

----------------------------------------------------------------------------
(* File operations, the end of the process, and its start                  *)

\* One file operation of the running statement.
LEMMA FileStepStep ==
    ASSUME IndexInv, FileStep
    PROVE  IndexInv'
<1>1. /\ up /\ todo # <<>>
      /\ disk' = Done(disk, Head(todo).file, Head(todo).content)
      /\ todo' = Tail(todo)
      /\ UNCHANGED <<memory, up, watch>>
  BY DEF FileStep, Done
<1>2. UNCHANGED <<rows, savepoint, inTransaction, names, sec, wide>>
  BY <1>1 DEF memory
<1>3. PICK e : Leads(disk, todo, e, watch) /\ Agrees(e)
  BY <1>1 DEF IndexInv
<1>4. Leads(disk', todo', e, watch')
  BY <1>1, <1>3, LeadsStep
<1>5. Memory'
  BY <1>1, <1>2 DEF IndexInv, Memory
<1>6. TransactionAgrees(e)' /\ NamesAgree(e)' /\ WideAgrees(e)'
  <2>1. TransactionAgrees(e) /\ NamesAgree(e) /\ WideAgrees(e)
    BY <1>3 DEF Agrees
  <2>2. (CacheSafe(e)' <=> CacheSafe(e)) /\ (Changed(e)' <=> Changed(e)) /\ (TooOld(e)' <=> TooOld(e))
    BY <1>2 DEF CacheSafe, Changed, TooOld
  <2>3. TransactionAgrees(e)' /\ NamesAgree(e)'
    BY <1>2, <2>1 DEF TransactionAgrees, NamesAgree
  <2>4. WideAgrees(e)'
    BY <1>1, <1>2, <2>1, <2>2 DEF WideAgrees
  <2> QED
    BY <2>3, <2>4
<1> QED
  BY <1>1, <1>4, <1>5, <1>6, StatementDone

\* Half a file is no file to those who read it.
LEMMA TornWrite ==
    ASSUME NEW d, NEW w, Good(d, w), NEW f \in InPlace, w = "never" => f # "eq"
    PROVE  Good(Done(d, f, Torn), w)
<1> DEFINE e == Done(d, f, Torn)
<1>1. f \in File /\ Torn \in FileContent(f) /\ ~Readable(Torn)
      /\ f # "rows" /\ f # "epoch" /\ f # "range"
  BY DEF InPlace, File, FileContent, Readable
<1>2. DiskOK(e) /\ \A g \in File : e[g] = IF g = f THEN Torn ELSE d[g]
  BY <1>1, DoneIs DEF Good
<1> HIDE DEF e
<1>3. /\ e.rows = d.rows /\ e.epoch = d.epoch /\ e.range = d.range
      /\ \A g \in {"catalog", "catalogWal", "names", "namesWal", "eq"} :
            Readable(e[g]) => e[g] = d[g]
  BY <1>1, <1>2 DEF File
<1>4. Trusts(e) => Trusts(d)
  BY <1>3 DEF Trusts
<1>5. Matching(d) => Matching(e)
  BY <1>3 DEF Matching
<1>6. w # "unseen" => SnapshotSafe(e, "eq") /\ SnapshotSafe(e, "range")
  BY <1>3 DEF Good, SnapshotSafe
<1>7. w = "never" => NoneYet(e)
  <2>1. w = "never" => e.eq = d.eq
    BY <1>2 DEF File
  <2> QED
    BY <1>3, <2>1 DEF Good, NoneYet
<1>8. Good(e, w)
  BY <1>2, <1>4, <1>5, <1>6, <1>7 DEF Good
<1> QED
  BY <1>8 DEF e

\* The process is gone and its files are good.
LEMMA Down ==
    ASSUME Memory, Forget, todo' = <<>>, watch' = watch, Good(disk', watch),
           disk'.rows = disk.rows
    PROVE  IndexInv'
<1>1. /\ rows' = disk.rows /\ savepoint' = None /\ inTransaction' = FALSE
      /\ names' = NoNames /\ sec' = None /\ wide' = NoWide /\ up' = FALSE
  BY DEF Forget
<1>2. disk'.rows \in [Table -> Content]
  BY DEF Good, DiskOK, File, FileContent
<1>3. /\ NoNames \in NamesIndex /\ NoWide \in [enabled : BOOLEAN, cache : Cache]
      /\ NoWide.cache.dirty
  BY DEF NoNames, NoWide, NoCache, NamesIndex, Cache, Empty, Content
<1>4. Memory'
  BY <1>1, <1>2, <1>3 DEF Memory
<1>5. Leads(disk', todo', disk', watch')
  BY LeadsEmpty
<1> QED
  BY <1>1, <1>4, <1>5 DEF IndexInv

\* Closing finds no file operation left.
LEMMA CloseStep ==
    ASSUME IndexInv, Close
    PROVE  IndexInv'
<1>1. Ready /\ Forget /\ UNCHANGED <<disk, todo, watch>>
  BY DEF Close
<1>2. Memory /\ todo = <<>> /\ Good(disk, watch)
  BY <1>1, ReadyIs
<1> QED
  BY <1>1, <1>2, Down

\* A crash leaves one of the good disks on the way, or one with a torn file.
LEMMA CrashStep ==
    ASSUME IndexInv, Crash
    PROVE  IndexInv'
<1>1. up /\ Forget /\ todo' = <<>> /\ watch' = watch
  BY DEF Crash
<1>2. PICK e : Leads(disk, todo, e, watch)
  BY DEF IndexInv
<1>3. Good(disk, watch) /\ Memory
  BY <1>2, LeadsGood DEF IndexInv
<1>4. CASE disk' = disk
  BY <1>1, <1>3, <1>4, Down
<1>5. ASSUME NEW f \in TornWrites, disk' = [disk EXCEPT ![f] = Torn]
      PROVE  IndexInv'
  <2>1. /\ f \in InPlace /\ todo # <<>> /\ Head(todo).file = f /\ Head(todo).content # Absent
        /\ f \in File /\ f # "rows"
    BY <1>5 DEF TornWrites, InPlace, File
  <2>2. Good(Done(disk, f, Head(todo).content), watch)
    BY <1>2, <2>1, LeadsStep, LeadsGood
  <2>3. watch = "never" => f # "eq"
    <3>1. SUFFICES ASSUME watch = "never", f = "eq"
                   PROVE  FALSE
      OBVIOUS
    <3>2. Done(disk, "eq", Head(todo).content).eq = Head(todo).content
      BY <1>3 DEF Good, DiskOK, Done, File
    <3> QED
      BY <2>1, <2>2, <3>1, <3>2 DEF Good, NoneYet
  <2>4. Good(disk', watch)
    BY <1>3, <1>5, <2>1, <2>3, TornWrite DEF Done
  <2>5. disk'.rows = disk.rows
    BY <1>3, <1>5, <2>1 DEF Good, DiskOK
  <2> QED
    BY <1>1, <1>3, <2>4, <2>5, Down
<1> QED
  BY <1>4, <1>5 DEF Crash

\* Recovery of the username file keeps what a trusted one shows.
LEMMA RecoverNamesLeads ==
    ASSUME NEW w, Good(disk, w)
    PROVE  \E e : /\ Leads(disk, RecoverFiles("namesWal", "names"), e, w)
                  /\ KeepsRows(disk, e)
                  /\ e.catalog = disk.catalog /\ e.catalogWal = disk.catalogWal
                  /\ Matching(disk) => Matching(e)
<1> DEFINE c == disk.namesWal
<1>1. c \in Content \cup {Absent, Torn} /\ ~Readable(Absent)
  BY DEF Good, DiskOK, File, FileContent, Readable
<1>2. CASE c = Absent
  <2>1. RecoverFiles("namesWal", "names") = <<>>
    BY <1>2 DEF RecoverFiles
  <2> QED
    BY <2>1, LeadsEmpty DEF KeepsRows
<1>3. CASE c # Absent
  <2> DEFINE s == IF Readable(c) THEN WriteFile("names", c) ELSE <<>>
  <2>1. RecoverFiles("namesWal", "names") = s \o WriteFile("namesWal", Absent)
    BY <1>3 DEF RecoverFiles, Remove
  <2>2. \E d1 : /\ Leads(disk, s, d1, w)
                /\ KeepsRows(disk, d1) /\ d1.namesWal = c
                /\ d1.catalog = disk.catalog /\ d1.catalogWal = disk.catalogWal
                /\ d1.names = c \/ d1.names = disk.names
    <3>1. CASE Readable(c)
      <4> DEFINE d1 == Done(disk, "names", c)
      <4>1. c \in Content
        BY <1>1, <3>1 DEF Readable
      <4>2. Trusts(disk) => ~Misses(c, disk.rows.users)
        BY <3>1 DEF Good, Matching
      <4>3. s = WriteFile("names", c)
        BY <3>1
      <4>4. /\ Leads(disk, WriteFile("names", c), d1, w)
            /\ \A g \in File : d1[g] = IF g = "names" THEN c ELSE disk[g]
        BY <4>1, <4>2, NamesWrite
      <4> HIDE DEF d1, s
      <4>5. /\ KeepsRows(disk, d1) /\ d1.namesWal = c /\ d1.names = c
            /\ d1.catalog = disk.catalog /\ d1.catalogWal = disk.catalogWal
        BY <4>4 DEF File, KeepsRows
      <4> QED
        BY <4>3, <4>4, <4>5
    <3>2. CASE ~Readable(c)
      <4>1. s = <<>>
        BY <3>2
      <4> QED
        BY <4>1, LeadsEmpty DEF KeepsRows
    <3> QED
      BY <3>1, <3>2
  <2> HIDE DEF s
  <2>3. PICK d1 : /\ Leads(disk, s, d1, w)
                  /\ KeepsRows(disk, d1) /\ d1.namesWal = c
                  /\ d1.catalog = disk.catalog /\ d1.catalogWal = disk.catalogWal
                  /\ d1.names = c \/ d1.names = disk.names
    BY <2>2
  <2> DEFINE e == Done(d1, "namesWal", Absent)
  <2>4. Good(d1, w)
    BY <2>3, LeadsGood
  <2>5. /\ Leads(d1, WriteFile("namesWal", Absent), e, w)
        /\ \A g \in File : e[g] = IF g = "namesWal" THEN Absent ELSE d1[g]
    BY <1>1, <2>4, NamesWrite
  <2> HIDE DEF e
  <2>6. /\ KeepsRows(disk, e) /\ e.namesWal = Absent /\ e.names = d1.names
        /\ e.catalog = disk.catalog /\ e.catalogWal = disk.catalogWal
    BY <2>3, <2>5 DEF File, KeepsRows
  <2>7. Matching(disk) => Matching(e)
    BY <1>1, <2>3, <2>6 DEF Matching, KeepsRows
  <2> QED
    BY <2>1, <2>3, <2>5, <2>6, <2>7, LeadsThen
<1> QED
  BY <1>2, <1>3

\* Recovery of the catalog leaves the one that open goes by.
LEMMA RecoverCatalogLeads ==
    ASSUME NEW d, NEW w, Good(disk, w), Good(d, w),
           d.catalog = disk.catalog, d.catalogWal = disk.catalogWal
    PROVE  \E e : /\ Leads(d, RecoverFiles("catalogWal", "catalog"), e, w)
                  /\ KeepsRows(d, e) /\ KeepsNames(d, e)
                  /\ Trusts(e) => RecoveredCatalog.names /\ RecoveredCatalog.valid
<1> DEFINE c == disk.catalogWal
<1>1. c \in Catalog \cup {Absent, Torn} /\ ~Readable(Absent)
  BY DEF Good, DiskOK, File, FileContent, Readable
<1>2. CASE c = Absent
  <2>1. RecoverFiles("catalogWal", "catalog") = <<>>
    BY <1>2 DEF RecoverFiles
  <2>2. Trusts(d) => RecoveredCatalog.names /\ RecoveredCatalog.valid
    BY <1>1, <1>2 DEF Trusts, RecoveredCatalog, Recovered
  <2> QED
    BY <2>1, <2>2, LeadsEmpty DEF KeepsRows, KeepsNames
<1>3. CASE c # Absent
  <2> DEFINE s == IF Readable(c) THEN WriteFile("catalog", c) ELSE <<>>
  <2>1. RecoverFiles("catalogWal", "catalog") = s \o WriteFile("catalogWal", Absent)
    BY <1>3 DEF RecoverFiles, Remove
  <2>2. \E d1 : /\ Leads(d, s, d1, w)
                /\ KeepsRows(d, d1) /\ KeepsNames(d, d1)
                /\ Readable(d1.catalog) => RecoveredCatalog = d1.catalog
    <3>1. CASE Readable(c)
      <4> DEFINE d1 == Done(d, "catalog", c)
      <4>1. c \in Catalog
        BY <1>1, <3>1 DEF Readable
      <4>2. c.names /\ c.valid => Matching(d)
        BY <3>1 DEF Good, Trusts
      <4>3. w = "never" => ~c.wide
        BY <3>1 DEF Good, NoneYet
      <4>4. s = WriteFile("catalog", c)
        BY <3>1
      <4>5. /\ Leads(d, WriteFile("catalog", c), d1, w)
            /\ \A g \in File : d1[g] = IF g = "catalog" THEN c ELSE d[g]
        BY <4>1, <4>2, <4>3, CatalogWrite, SMTT(60)
      <4> HIDE DEF d1, s
      <4>6. KeepsRows(d, d1) /\ KeepsNames(d, d1) /\ d1.catalog = c
        BY <4>5 DEF File, KeepsRows, KeepsNames
      <4>7. RecoveredCatalog = c
        BY <3>1 DEF RecoveredCatalog, Recovered
      <4> QED
        BY <4>4, <4>5, <4>6, <4>7
    <3>2. CASE ~Readable(c)
      <4>1. s = <<>>
        BY <3>2
      <4>2. Readable(disk.catalog) => RecoveredCatalog = disk.catalog
        BY <3>2 DEF RecoveredCatalog, Recovered
      <4> QED
        BY <4>1, <4>2, LeadsEmpty DEF KeepsRows, KeepsNames
    <3> QED
      BY <3>1, <3>2
  <2> HIDE DEF s
  <2>3. PICK d1 : /\ Leads(d, s, d1, w)
                  /\ KeepsRows(d, d1) /\ KeepsNames(d, d1)
                  /\ Readable(d1.catalog) => RecoveredCatalog = d1.catalog
    BY <2>2
  <2> DEFINE e == Done(d1, "catalogWal", Absent)
  <2>4. Good(d1, w)
    BY <2>3, LeadsGood
  <2>5. /\ Leads(d1, WriteFile("catalogWal", Absent), e, w)
        /\ \A g \in File : e[g] = IF g = "catalogWal" THEN Absent ELSE d1[g]
    BY <1>1, <2>4, CatalogWrite
  <2> HIDE DEF e
  <2>6. KeepsRows(d, e) /\ KeepsNames(d, e) /\ e.catalogWal = Absent /\ e.catalog = d1.catalog
    BY <2>3, <2>5 DEF File, KeepsRows, KeepsNames
  <2>7. Trusts(e) => RecoveredCatalog.names /\ RecoveredCatalog.valid
    BY <1>1, <2>3, <2>6 DEF Trusts
  <2> QED
    BY <2>1, <2>3, <2>5, <2>6, <2>7, LeadsThen
<1> QED
  BY <1>2, <1>3

\* What open loads: typed, and what a catalog calls valid shows every row.
LEMMA LoadedIs ==
    ASSUME NEW w, Good(disk, w)
    PROVE  /\ RecoveredCatalog \in Catalog
           /\ RecoveredNames \in NamesIndex
           /\ RecoveredNames.enabled = RecoveredCatalog.names
           /\ RecoveredNames.enabled /\ ~RecoveredNames.dirty =>
                 /\ Trusts(disk) /\ Matching(disk)
                 /\ ~Misses(RecoveredNames.entries, disk.rows.users)
           /\ w = "never" => ~RecoveredCatalog.wide
<1> DEFINE file == Recovered(disk.namesWal, disk.names)
<1>1. /\ \A f \in {"catalog", "catalogWal"} : Readable(disk[f]) => disk[f] \in Catalog
      /\ \A f \in {"names", "namesWal"} : Readable(disk[f]) => disk[f] \in Content
  BY DEF Good, DiskOK, File, FileContent, Readable
<1>2. /\ RecoveredCatalog \in Catalog
      /\ RecoveredCatalog.names /\ RecoveredCatalog.valid => Trusts(disk)
      /\ w = "never" => ~RecoveredCatalog.wide
  <2>1. CASE \E f \in {"catalog", "catalogWal"} :
                Readable(disk[f]) /\ RecoveredCatalog = disk[f]
    BY <1>1, <2>1 DEF Trusts, Good, NoneYet
  <2>2. CASE RecoveredCatalog = [names |-> FALSE, valid |-> FALSE, sec |-> None, wide |-> FALSE]
    BY <2>2 DEF Catalog
  <2>3. \/ \E f \in {"catalog", "catalogWal"} : Readable(disk[f]) /\ RecoveredCatalog = disk[f]
        \/ RecoveredCatalog = [names |-> FALSE, valid |-> FALSE, sec |-> None, wide |-> FALSE]
    BY DEF RecoveredCatalog, Recovered
  <2> QED
    BY <2>1, <2>2, <2>3
<1>3. Readable(file) => /\ file \in Content
                        /\ Matching(disk) => ~Misses(file, disk.rows.users)
  BY <1>1 DEF Recovered, Matching
<1> HIDE DEF file
<1>4. RecoveredNames = LoadedNames(RecoveredCatalog, file)
  BY DEF RecoveredNames, file
<1>5. /\ NoNames \in NamesIndex /\ NoNames.enabled = FALSE /\ Empty \in Content
      /\ RecoveredCatalog.names \in BOOLEAN
  BY <1>2 DEF NoNames, NamesIndex, Empty, Content, Catalog
<1>6. CASE ~RecoveredCatalog.names
  <2>1. RecoveredNames = NoNames /\ RecoveredCatalog.names = FALSE
    BY <1>4, <1>5, <1>6 DEF LoadedNames
  <2> QED
    BY <1>2, <1>5, <2>1
<1>7. CASE RecoveredCatalog.names /\ RecoveredCatalog.valid /\ Readable(file)
  <2>1. RecoveredNames = [enabled |-> TRUE, dirty |-> FALSE, entries |-> file]
    BY <1>4, <1>7 DEF LoadedNames
  <2>2. RecoveredNames \in NamesIndex /\ RecoveredNames.enabled = TRUE /\ RecoveredNames.entries = file
    BY <1>3, <1>7, <2>1 DEF NamesIndex
  <2>3. Trusts(disk) /\ Matching(disk)
    BY <1>2, <1>7 DEF Good
  <2>4. RecoveredCatalog.names = TRUE
    BY <1>5, <1>7
  <2> QED
    BY <1>2, <1>3, <1>7, <2>2, <2>3, <2>4
<1>8. CASE RecoveredCatalog.names /\ ~(RecoveredCatalog.valid /\ Readable(file))
  <2>1. RecoveredNames = [enabled |-> TRUE, dirty |-> TRUE, entries |-> Empty]
    BY <1>4, <1>8 DEF LoadedNames
  <2>2. RecoveredNames \in NamesIndex /\ RecoveredNames.enabled = TRUE /\ RecoveredNames.dirty
    BY <1>5, <2>1 DEF NamesIndex
  <2>3. RecoveredCatalog.names = TRUE
    BY <1>5, <1>8
  <2> QED
    BY <1>2, <2>2, <2>3
<1> QED
  BY <1>6, <1>7, <1>8

\* Open recovers both logs and trusts what a valid catalog names.
LEMMA OpenStep ==
    ASSUME IndexInv, Open
    PROVE  IndexInv'
<1>1. /\ up' /\ names' = RecoveredNames /\ sec' = RecoveredCatalog.sec
      /\ wide' = [NoWide EXCEPT !.enabled = RecoveredCatalog.wide]
      /\ todo' = RecoverFiles("namesWal", "names") \o RecoverFiles("catalogWal", "catalog")
      /\ UNCHANGED <<rows, savepoint, inTransaction, disk, watch>>
      /\ ~up /\ up' = TRUE
  BY DEF Open
<1>2. rows = disk.rows /\ savepoint = None /\ ~inTransaction /\ Memory
  BY <1>1 DEF IndexInv
<1>3. Good(disk, watch)
  BY LeadsGood DEF IndexInv
<1>4. /\ RecoveredCatalog \in Catalog
      /\ RecoveredNames \in NamesIndex
      /\ RecoveredNames.enabled = RecoveredCatalog.names
      /\ RecoveredNames.enabled /\ ~RecoveredNames.dirty =>
            /\ Trusts(disk) /\ Matching(disk)
            /\ ~Misses(RecoveredNames.entries, disk.rows.users)
      /\ watch = "never" => ~RecoveredCatalog.wide
  BY <1>3, LoadedIs
<1>5. PICK d1 : /\ Leads(disk, RecoverFiles("namesWal", "names"), d1, watch)
                /\ KeepsRows(disk, d1)
                /\ d1.catalog = disk.catalog /\ d1.catalogWal = disk.catalogWal
                /\ Matching(disk) => Matching(d1)
  BY <1>3, RecoverNamesLeads
<1>6. PICK e : /\ Leads(d1, RecoverFiles("catalogWal", "catalog"), e, watch)
               /\ KeepsRows(d1, e) /\ KeepsNames(d1, e)
               /\ Trusts(e) => RecoveredCatalog.names /\ RecoveredCatalog.valid
  <2>1. Good(d1, watch)
    BY <1>5, LeadsGood
  <2> QED
    BY <1>3, <1>5, <2>1, RecoverCatalogLeads
<1>7. Leads(disk', todo', e, watch')
  BY <1>1, <1>5, <1>6, LeadsThen
<1>8. e.rows = disk.rows /\ (Matching(disk) => Matching(e))
  BY <1>5, <1>6 DEF KeepsRows, KeepsNames, Matching
<1>9. /\ wide' \in [enabled : BOOLEAN, cache : Cache] /\ wide'.cache.dirty
      /\ wide'.enabled = RecoveredCatalog.wide
      /\ sec' \in {None, "username", "email"}
  <2>1. RecoveredCatalog.wide \in BOOLEAN /\ RecoveredCatalog.sec \in {None, "username", "email"}
    BY <1>4 DEF Catalog
  <2>2. NoWide \in [enabled : BOOLEAN, cache : Cache] /\ NoWide.cache.dirty
    BY DEF NoWide, NoCache, Cache, Empty, Content
  <2> QED
    BY <1>1, <2>1, <2>2
<1>10. Memory'
  BY <1>1, <1>2, <1>4, <1>9 DEF Memory
<1>11. TransactionAgrees(e)'
  BY <1>1, <1>2, <1>8 DEF TransactionAgrees
<1>12. NamesAgree(e)'
  BY <1>1, <1>2, <1>4, <1>6, <1>8 DEF NamesAgree
<1>13. WideAgrees(e)'
  <2>1. ~Changed(e)'
    BY <1>1, <1>2, <1>8 DEF Changed
  <2>2. CacheSafe(e)'
    BY <1>9 DEF CacheSafe
  <2> QED
    BY <1>1, <1>4, <1>9, <2>1, <2>2 DEF WideAgrees
<1> QED
  BY <1>1, <1>7, <1>10, <1>11, <1>12, <1>13, StatementDone

----------------------------------------------------------------------------
(* The invariant and the theorems                                          *)

\* A fresh database, or an older one whose catalog does not trust the file.
LEMMA InitIndexInv == Init => IndexInv
<1> SUFFICES ASSUME Init
             PROVE  IndexInv
  OBVIOUS
<1>1. /\ rows = disk.rows /\ savepoint = None /\ inTransaction = FALSE
      /\ names = NoNames /\ sec = None /\ wide = NoWide
      /\ todo = <<>> /\ up = FALSE /\ watch = "never"
  BY DEF Init
<1>2. /\ disk = [f \in File |-> disk[f]]
      /\ disk.rows = [t \in Table |-> Empty]
      /\ disk.catalog \in {Absent, OlderCatalog}
      /\ \A f \in File \ {"rows", "catalog"} : disk[f] = Absent
  BY DEF Init, FreshDisk, File
<1>3. /\ Empty \in Content /\ OlderCatalog \in Catalog
      /\ ~OlderCatalog.valid /\ ~OlderCatalog.wide /\ ~Readable(Absent)
  BY DEF Empty, Content, OlderCatalog, Catalog, Readable
<1>4. DiskOK(disk)
  <2>1. ASSUME NEW f \in File
        PROVE  disk[f] \in FileContent(f)
    <3>1. CASE f = "rows"
      BY <1>2, <1>3, <3>1 DEF FileContent
    <3>2. CASE f = "catalog"
      BY <1>2, <1>3, <3>2 DEF FileContent
    <3>3. CASE f \notin {"rows", "catalog"}
      <4>1. disk[f] = Absent
        BY <1>2, <3>3
      <4>2. Absent \in FileContent(f)
        BY <3>3 DEF FileContent, File, Epoch
      <4> QED
        BY <4>1, <4>2
    <3> QED
      BY <3>1, <3>2, <3>3
  <2> QED
    BY <1>2, <2>1 DEF DiskOK
<1>5. /\ disk.catalogWal = Absent /\ disk.eq = Absent /\ disk.range = Absent
      /\ disk.rows \in [Table -> Content]
  BY <1>2, <1>3 DEF File
<1>6. ~Trusts(disk) /\ NoneYet(disk) /\ SnapshotSafe(disk, "eq") /\ SnapshotSafe(disk, "range")
  BY <1>2, <1>3, <1>5 DEF Trusts, NoneYet, SnapshotSafe
<1>7. Good(disk, watch)
  BY <1>4, <1>6 DEF Good
<1>8. Leads(disk, todo, disk, watch)
  BY <1>1, <1>7, LeadsEmpty
<1>9. Memory
  <2>1. /\ NoNames \in NamesIndex /\ NoWide \in [enabled : BOOLEAN, cache : Cache]
        /\ NoWide.cache.dirty
    BY DEF NoNames, NoWide, NoCache, NamesIndex, Cache, Empty, Content
  <2> QED
    BY <1>1, <1>5, <2>1 DEF Memory
<1> QED
  BY <1>1, <1>8, <1>9 DEF IndexInv

\* Every action, by its lemma.
LEMMA NextIndexInv == IndexInv /\ [Next]_vars => IndexInv'
<1> SUFFICES ASSUME IndexInv, [Next]_vars
             PROVE  IndexInv'
  OBVIOUS
<1>1. CASE InsertUser \/ UpdateUser \/ DeleteUser \/ DeleteAllUsers
  BY <1>1, UsersStep
<1>2. CASE InsertOther \/ UpdateOther \/ DeleteOther
  BY <1>2, OtherStep
<1>3. CASE FailOther
  BY <1>3, FailOtherStep
<1>4. CASE Begin
  BY <1>4, BeginStep
<1>5. CASE Commit
  BY <1>5, CommitActionStep
<1>6. CASE Rollback \/ RollbackTo
  BY <1>6, RollbackStep
<1>7. CASE Savepoint
  BY <1>7, SavepointStep
<1>8. CASE Checkpoint
  BY <1>8, CheckpointStep
<1>9. CASE LookupUsername \/ LookupSec
  BY <1>9, LookupUsersStep
<1>10. CASE LookupEqual
  BY <1>10, LookupEqualStep
<1>11. CASE LookupRange
  BY <1>11, LookupRangeStep
<1>12. CASE CreateUsersIndex \/ CreateOtherIndex
  BY <1>12, CreateStep
<1>13. CASE DropUsersIndex
  BY <1>13, DropUsersStep
<1>14. CASE DropOtherIndex
  BY <1>14, DropOtherStep
<1>15. CASE FileStep
  BY <1>15, FileStepStep
<1>16. CASE Close
  BY <1>16, CloseStep
<1>17. CASE Crash
  BY <1>17, CrashStep
<1>18. CASE Open
  BY <1>18, OpenStep
<1>19. CASE UNCHANGED vars
  BY <1>19 DEF vars, IndexInv, Memory, Agrees, TransactionAgrees, NamesAgree, WideAgrees,
               CacheSafe, Changed, TooOld
<1> QED
  BY <1>1, <1>2, <1>3, <1>4, <1>5, <1>6, <1>7, <1>8, <1>9, <1>10, <1>11, <1>12, <1>13,
     <1>14, <1>15, <1>16, <1>17, <1>18, <1>19 DEF Next, Statement

\* Whatever the running statement has still to write, the files are safe to open
\* now and agree with memory when it is done.
THEOREM IndexInvHolds == Spec => []IndexInv
<1>1. IndexInv /\ [Next]_vars => IndexInv'
  BY NextIndexInv
<1> QED
  BY InitIndexInv, <1>1, PTL DEF Spec

\* The username index, `names`, misses no row, now and after a crash at any
\* moment (vm.c commit_table_changes, table.c recovery).  Column indexes on
\* username are not part of this.
THEOREM UsernameIndexIsComplete == Spec => []UsernameIndexComplete
<1>1. IndexInv => UsernameIndexComplete
  <2> SUFFICES ASSUME IndexInv
               PROVE  UsernameIndexComplete
    OBVIOUS
  <2>1. PICK e : Leads(disk, todo, e, watch) /\ (up => Agrees(e))
    BY DEF IndexInv
  <2>2. Good(disk, watch)
    BY <2>1, LeadsGood
  <2>3. up /\ names.enabled /\ ~names.dirty => ~Misses(names.entries, rows.users)
    BY <2>1 DEF Agrees, NamesAgree
  <2>4. RecoveredNames.enabled /\ ~RecoveredNames.dirty
          => ~Misses(RecoveredNames.entries, disk.rows.users)
    BY <2>2, LoadedIs
  <2> QED
    BY <2>3, <2>4 DEF UsernameIndexComplete
<1> QED
  BY IndexInvHolds, <1>1, PTL

\* Lookups by equality and by range on another table find every row, in and out
\* of a transaction (generic_index_epoch.c).
THEOREM SnapshotsAreComplete == Spec => []SnapshotsComplete
<1>1. IndexInv => SnapshotsComplete
  <2> SUFFICES ASSUME IndexInv, Ready, wide.enabled, watch = "kept"
               PROVE  /\ ~Misses(EnsureCache(wide.cache).entries, rows.other)
                      /\ ~Misses(RangeEntries, rows.other)
    BY DEF SnapshotsComplete
  <2>1. /\ Memory /\ Good(disk, watch) /\ TransactionAgrees(disk) /\ WideAgrees(disk)
        /\ CurrentEpoch = EpochOf(disk) /\ EpochOf(disk) \in Nat
    BY ReadyIs, EpochsAreNumbers DEF CurrentEpoch, EpochOf
  <2>2. CacheSafe(disk) /\ (Changed(disk) => TooOld(disk))
        /\ SnapshotSafe(disk, "eq") /\ SnapshotSafe(disk, "range")
    BY <2>1 DEF WideAgrees, Good
  <2>3. ~Misses(rows.other, rows.other)
    BY DEF Misses
  <2>4. ASSUME NEW f \in {"eq", "range"}, LoadsSnapshot(f)
        PROVE  ~Misses(disk[f].entries, rows.other)
    <3>1. ~inTransaction /\ Readable(disk[f]) /\ disk[f].epoch = CurrentEpoch
      BY <2>4 DEF LoadsSnapshot
    <3>2. disk.rows = rows
      BY <2>1, <3>1 DEF TransactionAgrees
    <3>3. disk.epoch # Absent
      BY <2>2, <3>1 DEF SnapshotSafe
    <3> QED
      BY <2>2, <3>1, <3>2, <3>3 DEF SnapshotSafe, CurrentEpoch
  <2>5. ~Misses(EnsureCache(wide.cache).entries, rows.other)
    <3>1. CASE ~StaleCache(wide.cache)
      <4>1. EnsureCache(wide.cache) = wide.cache
        BY <3>1 DEF EnsureCache
      <4>2. ~wide.cache.dirty /\ wide.cache.epoch = EpochOf(disk)
        BY <2>1, <3>1 DEF StaleCache
      <4>3. ~Changed(disk)
        BY <2>1, <2>2, <4>2 DEF TooOld
      <4>4. rows.other = disk.rows.other
        BY <4>3 DEF Changed
      <4> QED
        BY <2>2, <4>1, <4>2, <4>4 DEF CacheSafe
    <3>2. CASE StaleCache(wide.cache) /\ LoadsSnapshot("eq")
      <4>1. EnsureCache(wide.cache).entries = disk.eq.entries
        BY <3>2 DEF EnsureCache
      <4> QED
        BY <2>4, <3>2, <4>1
    <3>3. CASE StaleCache(wide.cache) /\ ~LoadsSnapshot("eq")
      <4>1. EnsureCache(wide.cache).entries = rows.other
        BY <3>3 DEF EnsureCache
      <4> QED
        BY <2>3, <4>1
    <3> QED
      BY <3>1, <3>2, <3>3
  <2>6. ~Misses(RangeEntries, rows.other)
    BY <2>3, <2>4 DEF RangeEntries
  <2> QED
    BY <2>5, <2>6
<1> QED
  BY IndexInvHolds, <1>1, PTL
=============================================================================
