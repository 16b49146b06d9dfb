------------------------- MODULE WalRecoveryProofs -------------------------
(***************************************************************************)
(* Recovery ends with the file, and publishes the free list, that the      *)
(* complete records of the log describe, however often a crash starts it   *)
(* over: for logs of any length, any records and any number of pages.      *)
(***************************************************************************)
EXTENDS WalRecovery, FiniteSetTheorems, SequenceTheorems, TLAPS

----------------------------------------------------------------------------
(* The inductive invariant                                                 *)

IsLatest(i, S) == i \in S /\ \A j \in S : j <= i

\* Of a set of records, those that recovery has read.
Before(S) == {i \in S : i < pos}

Sized == {i \in Accepted : Structured(log[i])}
Lists == {i \in Accepted : log[i].fmt = "v2"}

\* What record i leaves of a page whose fate it decides.
Left(i, p) == IF log[i].img[p] # None THEN log[i].img[p] ELSE Hole

ListOf(i) == [num |-> log[i].num, free |-> log[i].free, known |-> TRUE]

\* The lengths that the file may have once record s has set it and those
\* records of S that follow have been written; 0 stands for no record.
Ends(s, S) ==
    {IF s = 0 THEN original.len ELSE log[s].num}
    \cup {p + 1 : p \in {q \in Page : \E i \in S : i > s /\ log[i].img[q] # None}}

Position ==
    /\ log \in Seq(Records)
    /\ original.len \in Nat
    /\ pos \in Nat
    /\ \A i \in DOMAIN log : i < pos => Acceptable(log[i])
    /\ pos <= Len(log) + 1

\* What no crash can undo or tear: pages that no record decides, and the
\* original length when no record sets one.
Tidy(f) ==
    /\ f.len \in Nat
    /\ \A p \in Page : p >= f.len => f.img[p] = Hole
    /\ \A p \in Page : Deciding(p) = {} => f.img[p] = original.img[p]
    /\ Sized = {} => /\ original.len <= f.len
                     /\ \E n \in Ends(0, Accepted) : f.len <= n

\* The newest record read decides each page, the length and the list.
PagesReplayed ==
    \A p \in Page : Before(Deciding(p)) # {} =>
        \E i \in DOMAIN log : IsLatest(i, Before(Deciding(p))) /\ file.img[p] = Left(i, p)

LenReplayed ==
    /\ Sized = {} => \A n \in Ends(0, Before(Accepted)) : n <= file.len
    /\ Before(Sized) # {} =>
          \E s \in DOMAIN log : /\ IsLatest(s, Before(Sized))
                             /\ IsLatest(file.len, Ends(s, Before(Accepted)))

ListReplayed ==
    /\ Before(Lists) = {} => listed = NoList
    /\ Before(Lists) # {} => \E i \in DOMAIN log : IsLatest(i, Before(Lists)) /\ listed = ListOf(i)

RecoveryInv ==
    /\ Position
    /\ Tidy(synced) /\ Tidy(file)
    /\ PagesReplayed
    /\ LenReplayed
    /\ pos > 0 => exists /\ ListReplayed
    /\ RecoveryIsIdempotent
    /\ FreeListMatchesLog

----------------------------------------------------------------------------
(* Sets of numbers                                                         *)

\* A bounded set of numbers that is not empty has a greatest one.
LEMMA LatestExists ==
    ASSUME NEW n \in Nat, NEW S, S \subseteq 0 .. n, S # {}
    PROVE  \E i : IsLatest(i, S)
<1> DEFINE Later(m) == {j \in S : j > m}
           T == {Later(m) : m \in S}
<1>1. IsFiniteSet(S)
  <2>1. IsFiniteSet(0 .. n)
    BY FS_Interval
  <2> QED
    BY <2>1, FS_Subset
<1>2. T \subseteq FiniteSubsetsOf(S) /\ T # {}
  <2>1. ASSUME NEW m \in S
        PROVE  Later(m) \in FiniteSubsetsOf(S)
    <3>1. Later(m) \in SUBSET S
      OBVIOUS
    <3>2. IsFiniteSet(Later(m))
      BY <1>1, <3>1, FS_Subset
    <3> QED
      BY <3>1, <3>2 DEF FiniteSubsetsOf
  <2> QED
    BY <2>1
<1>3. PICK L \in T : \A K \in T : ~ (<<K, L>> \in StrictSubsetOrdering(S))
  <2> HIDE DEF T
  <2> QED
    BY <1>2, FS_StrictSubsetOrderingWellFounded, WFMin
<1>4. PICK m \in S : L = Later(m)
  BY <1>3
<1>5. ASSUME NEW j \in S, j > m
      PROVE  FALSE
  <2>1. Later(j) \in T
    OBVIOUS
  <2>2. \A k \in S : k \in Nat
    OBVIOUS
  <2>3. Later(j) \subseteq Later(m) /\ j \in Later(m) /\ j \notin Later(j)
    <3>1. j \in Nat /\ m \in Nat
      BY <2>2
    <3>2. \A k \in S : k > j => k > m
      BY <1>5, <2>2, <3>1
    <3>3. Later(j) \subseteq Later(m)
      BY <3>2
    <3>4. j \in Later(m)
      BY <1>5
    <3>5. j \notin Later(j)
      BY <3>1
    <3> QED
      BY <3>3, <3>4, <3>5
  <2>4. <<Later(j), Later(m)>> \in StrictSubsetOrdering(S)
    BY <2>3 DEF StrictSubsetOrdering
  <2> QED
    BY <1>3, <1>4, <2>1, <2>4
<1> QED
  BY <1>5 DEF IsLatest

\* There is one greatest, and Latest is it.
LEMMA LatestIs ==
    ASSUME NEW S, S \subseteq Nat, NEW i, IsLatest(i, S)
    PROVE  Latest(S) = i
<1>1. IsLatest(Latest(S), S)
  BY DEF IsLatest, Latest
<1>2. /\ Latest(S) \in Nat /\ i \in Nat
      /\ Latest(S) <= i /\ i <= Latest(S)
  BY <1>1 DEF IsLatest
<1> QED
  BY <1>2

----------------------------------------------------------------------------
(* The log                                                                 *)

\* The log is a sequence of records, of which recovery reads one after the
\* other.
LEMMA LogIs ==
    ASSUME Position
    PROVE  /\ Len(log) \in Nat /\ DOMAIN log = 1 .. Len(log)
           /\ \A i \in DOMAIN log : i \in Nat /\ log[i].num \in Nat
           /\ Accepted \subseteq DOMAIN log
BY LenProperties, ElementOfSeq, RecoveryAssumption DEF Position, Accepted

\* Once recovery stops reading it has read just the records it accepts.
LEMMA AllRead ==
    ASSUME Position, pos > 0, ~Reading
    PROVE  /\ \A i \in Accepted : i < pos
           /\ \A S : S \subseteq Accepted => Before(S) = S
<1>1. ASSUME NEW i \in Accepted
      PROVE  i < pos
  <2>1. i \in 1 .. Len(log) /\ \A j \in 1 .. i : Acceptable(log[j])
    BY LogIs DEF Accepted
  <2> QED
    BY <2>1, LogIs DEF Position, Reading
<1> QED
  BY <1>1 DEF Before

\* A record that recovery reads is accepted, and is then the newest one read.
LEMMA NextRead ==
    ASSUME Position, Reading, pos' = pos + 1, UNCHANGED log
    PROVE  /\ Position' \/ original' # original
           /\ pos \in Accepted
           /\ \A S : S \subseteq Accepted =>
                 {i \in S : i < pos'} = IF pos \in S THEN Before(S) \cup {pos} ELSE Before(S)
<1>1. /\ Len(log) \in Nat /\ pos \in Nat /\ pos \in DOMAIN log
      /\ DOMAIN log = 1 .. Len(log)
      /\ Accepted \subseteq 1 .. Len(log)
  BY LogIs DEF Position, Reading
<1>2. \A i \in 1 .. pos : Acceptable(log[i])
  BY <1>1 DEF Position, Reading
<1>3. pos \in Accepted
  BY <1>1, <1>2 DEF Accepted
<1>4. original' = original => Position'
  BY <1>1, <1>2 DEF Position, Reading
<1>5. ASSUME NEW S, S \subseteq Accepted
      PROVE  {i \in S : i < pos'} = IF pos \in S THEN Before(S) \cup {pos} ELSE Before(S)
  <2>1. \A i \in S : i \in Nat
    BY <1>1, <1>5
  <2>2. \A i \in S : i < pos + 1 <=> (i < pos \/ i = pos)
    BY <1>1, <2>1
  <2> QED
    BY <1>1, <2>2 DEF Before
<1> QED
  BY <1>3, <1>4, <1>5

\* Nothing that is expected changes during recovery.
LEMMA ExpectationStays ==
    ASSUME UNCHANGED <<log, original>>
    PROVE  /\ Accepted' = Accepted /\ Sized' = Sized /\ Lists' = Lists
           /\ \A p : Deciding(p)' = Deciding(p)
           /\ \A i, p : Left(i, p)' = Left(i, p)
           /\ \A i : ListOf(i)' = ListOf(i)
           /\ \A s, S : Ends(s, S)' = Ends(s, S)
           /\ ExpectedLen' = ExpectedLen /\ ExpectedList' = ExpectedList
           /\ \A p : ExpectedPage(p)' = ExpectedPage(p)
<1>1. Accepted' = Accepted
  BY DEF Accepted
<1>2. \A p : Deciding(p)' = Deciding(p)
  BY <1>1 DEF Deciding
<1>3. ExpectedLen' = ExpectedLen
  BY <1>1 DEF ExpectedLen
<1>4. \A p : ExpectedPage(p)' = ExpectedPage(p)
  BY <1>2, <1>3 DEF ExpectedPage
<1>5. ExpectedList' = ExpectedList
  BY <1>1 DEF ExpectedList
<1> QED
  BY <1>1, <1>2, <1>3, <1>4, <1>5 DEF Sized, Lists, Left, ListOf, Ends

----------------------------------------------------------------------------
(* The end of the replay                                                   *)

\* When recovery stops reading, the file and the list are as expected.
LEMMA ReplayedAll ==
    ASSUME RecoveryInv, pos > 0, ~Reading
    PROVE  /\ file.len = ExpectedLen
           /\ \A p \in Page : file.img[p] = ExpectedPage(p)
           /\ listed = ExpectedList
<1>1. /\ Position /\ Tidy(file) /\ PagesReplayed /\ LenReplayed /\ ListReplayed
      /\ original.len \in Nat /\ file.len \in Nat
  BY DEF RecoveryInv, Position, Tidy
<1>2. /\ \A S : S \subseteq Accepted => Before(S) = S
      /\ \A i \in Accepted : i \in Nat \ {0} /\ log[i].num \in Nat
      /\ Sized \subseteq Accepted /\ Lists \subseteq Accepted
      /\ \A p : Deciding(p) \subseteq Accepted
  BY <1>1, AllRead, LogIs DEF Sized, Lists, Deciding
<1>3. \A s \in {0} \cup Accepted : Ends(s, Accepted) \subseteq Nat
  BY <1>1, <1>2, RecoveryAssumption DEF Ends, Page
<1>4. file.len = ExpectedLen
  <2>1. CASE Sized = {}
    <3>1. IsLatest(file.len, Ends(0, Accepted))
      <4>1. \A n \in Ends(0, Accepted) : n \in Nat /\ n <= file.len
        BY <1>1, <1>2, <1>3, <2>1 DEF LenReplayed
      <4>2. PICK n \in Ends(0, Accepted) : file.len <= n
        BY <1>1, <2>1 DEF Tidy
      <4>3. file.len = n
        BY <1>1, <4>1, <4>2
      <4> QED
        BY <4>1, <4>2, <4>3 DEF IsLatest
    <3>2. ExpectedLen = Latest(Ends(0, Accepted))
      BY <2>1 DEF ExpectedLen, Ends, Sized
    <3> QED
      BY <1>3, <3>1, <3>2, LatestIs
  <2>2. CASE Sized # {}
    <3>1. PICK s \in DOMAIN log : IsLatest(s, Sized) /\ IsLatest(file.len, Ends(s, Accepted))
      BY <1>1, <1>2, <2>2 DEF LenReplayed
    <3>2. s \in Accepted /\ s # 0 /\ Latest(Sized) = s
      BY <1>2, <3>1, LatestIs DEF IsLatest
    <3>3. ExpectedLen = Latest(Ends(s, Accepted))
      BY <2>2, <3>2 DEF ExpectedLen, Ends, Sized
    <3> QED
      BY <1>3, <3>1, <3>2, <3>3, LatestIs
  <2> QED
    BY <2>1, <2>2
<1>5. ASSUME NEW p \in Page
      PROVE  file.img[p] = ExpectedPage(p)
  <2>1. CASE p >= file.len
    BY <1>1, <1>4, <2>1 DEF ExpectedPage, Tidy
  <2>2. CASE ~(p >= file.len) /\ Deciding(p) = {}
    BY <1>1, <1>4, <2>2 DEF ExpectedPage, Tidy
  <2>3. CASE ~(p >= file.len) /\ Deciding(p) # {}
    <3>1. PICK i \in DOMAIN log : IsLatest(i, Deciding(p)) /\ file.img[p] = Left(i, p)
      BY <1>1, <1>2, <2>3 DEF PagesReplayed
    <3>2. Latest(Deciding(p)) = i
      BY <1>2, <3>1, LatestIs
    <3> QED
      BY <1>4, <2>3, <3>1, <3>2 DEF ExpectedPage, Left
  <2> QED
    BY <2>1, <2>2, <2>3
<1>6. listed = ExpectedList
  <2>1. CASE Lists = {}
    BY <1>1, <1>2, <2>1 DEF ListReplayed, ExpectedList, Lists
  <2>2. CASE Lists # {}
    <3>1. PICK i \in DOMAIN log : IsLatest(i, Lists) /\ listed = ListOf(i)
      BY <1>1, <1>2, <2>2 DEF ListReplayed
    <3>2. Latest(Lists) = i
      BY <1>2, <3>1, LatestIs
    <3> QED
      BY <2>2, <3>1, <3>2 DEF ExpectedList, Lists, ListOf
  <2> QED
    BY <2>1, <2>2
<1> QED
  BY <1>4, <1>5, <1>6

----------------------------------------------------------------------------
(* The steps                                                               *)

\* At the first record nothing has been read.
LEMMA NothingRead ==
    ASSUME Position, pos' \in {0, 1}, UNCHANGED <<log, original>>, Tidy(file)'
    PROVE  /\ Position' /\ PagesReplayed' /\ LenReplayed'
           /\ listed' = NoList => ListReplayed'
<1>1. /\ \A i \in DOMAIN log : i \in Nat \ {0}
      /\ Accepted \subseteq DOMAIN log
      /\ \A S : S \subseteq Accepted => {i \in S : i < pos'} = {}
  BY LogIs
<1>2. /\ {i \in Accepted : i < pos'} = {}
      /\ {i \in Sized : i < pos'} = {}
      /\ {i \in Lists : i < pos'} = {}
      /\ \A p : {i \in Deciding(p) : i < pos'} = {}
  BY <1>1 DEF Sized, Lists, Deciding
<1>3. Position'
  BY <1>1, LogIs DEF Position
<1>4. PagesReplayed'
  BY <1>2, ExpectationStays DEF PagesReplayed, Before
<1>5. LenReplayed'
  <2>1. Before(Sized)' = {} /\ Before(Accepted)' = {}
    BY <1>2, ExpectationStays DEF Before
  <2>2. Ends(0, {})' = {original.len}
    BY DEF Ends
  <2>3. Sized' = {} => original.len <= file'.len
    BY DEF Tidy
  <2> QED
    BY <2>1, <2>2, <2>3 DEF LenReplayed
<1>6. listed' = NoList => ListReplayed'
  BY <1>2, ExpectationStays DEF ListReplayed, Before
<1> QED
  BY <1>3, <1>4, <1>5, <1>6

\* A record decides the pages that it writes and those that it cuts off, and
\* leaves the others alone.
LEMMA AppliedIs ==
    ASSUME Position, Tidy(file), Reading, NEW f, f = Applied(file, log[pos])
    PROVE  /\ f.len \in Nat
           /\ Structured(log[pos]) => f.len = log[pos].num
           /\ ~Structured(log[pos]) =>
                 IsLatest(f.len, {p + 1 : p \in Written(log[pos])} \cup {file.len})
           /\ \A p \in Page : p >= f.len => f.img[p] = Hole
           /\ \A p \in Page :
                 f.img[p] = IF \/ log[pos].img[p] # None
                               \/ Structured(log[pos]) /\ p >= log[pos].num
                            THEN Left(pos, p) ELSE file.img[p]
<1> DEFINE r == log[pos]
           grown == {p + 1 : p \in Written(r)} \cup {file.len}
<1>1. /\ MaxPages \in Nat /\ file.len \in Nat /\ r.num \in Nat
      /\ \A p \in Page : p \in Nat
      /\ \A p \in Page : p >= file.len => file.img[p] = Hole
      /\ Acceptable(r)
  BY LogIs, RecoveryAssumption DEF Position, Tidy, Reading, Page
<1>2. /\ f.len = IF Structured(r) THEN r.num ELSE CHOOSE n \in grown : \A m \in grown : m <= n
      /\ \A p \in Page : f.img[p] = IF p >= f.len THEN Hole
                                    ELSE IF r.img[p] # None THEN r.img[p]
                                    ELSE file.img[p]
  BY DEF Applied
<1>3. ASSUME ~Structured(r)
      PROVE  IsLatest(f.len, grown)
  <2>1. grown \subseteq 0 .. MaxPages + file.len
    BY <1>1, RecoveryAssumption DEF Written, Page
  <2>2. \E n : IsLatest(n, grown)
    <3>1. grown # {} /\ MaxPages + file.len \in Nat
      BY <1>1
    <3> HIDE DEF grown
    <3> QED
      BY <2>1, <3>1, LatestExists
  <2> HIDE DEF grown
  <2> QED
    BY <1>2, <1>3, <2>2 DEF IsLatest
<1>4. f.len \in Nat
  <2>1. CASE Structured(r)
    BY <1>1, <1>2, <2>1
  <2>2. CASE ~Structured(r)
    BY <1>1, <1>3, <2>2 DEF IsLatest, Written
  <2> QED
    BY <2>1, <2>2
<1>5. ASSUME NEW p \in Page
      PROVE  f.img[p] = IF r.img[p] # None \/ (Structured(r) /\ p >= r.num)
                        THEN Left(pos, p) ELSE file.img[p]
  <2>1. CASE Structured(r)
    <3>1. f.len = r.num
      BY <1>2, <2>1
    <3>2. r.img[p] # None => p < r.num
      BY <1>1, <2>1 DEF Acceptable, Written, Below
    <3> QED
      BY <1>1, <1>2, <2>1, <3>1, <3>2 DEF Left
  <2>2. CASE ~Structured(r)
    <3>1. file.len <= f.len /\ (r.img[p] # None => p + 1 <= f.len)
      BY <1>3, <2>2 DEF IsLatest, Written
    <3>2. p \in Nat /\ file.len \in Nat /\ f.len \in Nat
      BY <1>1, <1>4
    <3>3. CASE r.img[p] # None
      <4>1. ~(p >= f.len)
        BY <3>1, <3>2, <3>3
      <4> QED
        BY <1>2, <3>3, <4>1 DEF Left
    <3>4. CASE r.img[p] = None
      <4>1. p >= f.len => file.img[p] = Hole
        BY <1>1, <3>1, <3>2
      <4> QED
        BY <1>2, <2>2, <3>4, <4>1
    <3> QED
      BY <3>3, <3>4
  <2> QED
    BY <2>1, <2>2
<1> QED
  BY <1>2, <1>3, <1>4, <1>5

\* Replaying a record keeps the invariant.
LEMMA ReplayRecordStep ==
    ASSUME RecoveryInv, ReplayRecord
    PROVE  RecoveryInv'
<1>1. /\ Position /\ Tidy(file) /\ PagesReplayed /\ LenReplayed /\ ListReplayed
      /\ pos > 0 /\ exists /\ pos \in Nat /\ original.len \in Nat /\ file.len \in Nat
  BY DEF RecoveryInv, ReplayRecord, Reading, Position, Tidy
<1>2. /\ Reading /\ pos' = pos + 1
      /\ file' = Applied(file, log[pos])
      /\ listed' = IF log[pos].fmt = "v2" THEN ListOf(pos) ELSE listed
      /\ UNCHANGED <<log, exists, original, synced, sidecar>>
  BY DEF ReplayRecord, ListOf
<1>3. /\ pos \in Accepted /\ pos \in DOMAIN log
      /\ Accepted' = Accepted /\ Sized' = Sized /\ Lists' = Lists
      /\ \A p : Deciding(p)' = Deciding(p)
      /\ Before(Accepted)' = Before(Accepted) \cup {pos}
      /\ Before(Sized)' = IF pos \in Sized THEN Before(Sized) \cup {pos} ELSE Before(Sized)
      /\ Before(Lists)' = IF pos \in Lists THEN Before(Lists) \cup {pos} ELSE Before(Lists)
      /\ \A p : Before(Deciding(p))' = IF pos \in Deciding(p)
                                       THEN Before(Deciding(p)) \cup {pos}
                                       ELSE Before(Deciding(p))
      /\ Position'
  <2>1. /\ Sized \subseteq Accepted /\ Lists \subseteq Accepted
        /\ \A p : Deciding(p) \subseteq Accepted
    BY DEF Sized, Lists, Deciding
  <2>2. /\ Accepted' = Accepted /\ Sized' = Sized /\ Lists' = Lists
        /\ \A p : Deciding(p)' = Deciding(p)
    BY <1>2, ExpectationStays
  <2>3. /\ pos \in Accepted /\ Position' /\ Accepted \subseteq DOMAIN log
        /\ \A S : S \subseteq Accepted =>
              {i \in S : i < pos'} = IF pos \in S THEN Before(S) \cup {pos} ELSE Before(S)
    BY <1>1, <1>2, NextRead, LogIs
  <2> QED
    BY <2>1, <2>2, <2>3 DEF Before
<1>4. \A S : \A i \in Before(S) : i < pos
  BY DEF Before
<1>5. /\ \A i \in Accepted : i \in Nat \ {0} /\ log[i].num \in Nat
      /\ IsLatest(pos, Before(Accepted) \cup {pos})
      /\ IsLatest(pos, Before(Sized) \cup {pos})
      /\ IsLatest(pos, Before(Lists) \cup {pos})
      /\ \A p : IsLatest(pos, Before(Deciding(p)) \cup {pos})
  <2>1. \A i \in Accepted : i \in Nat \ {0} /\ log[i].num \in Nat
    BY <1>1, LogIs
  <2>2. ASSUME NEW S, S \subseteq Accepted
        PROVE  IsLatest(pos, Before(S) \cup {pos})
    <3>1. \A i \in Before(S) : i <= pos
      BY <1>1, <1>4, <2>1, <2>2 DEF Before
    <3> QED
      BY <1>1, <3>1 DEF IsLatest
  <2>3. /\ Sized \subseteq Accepted /\ Lists \subseteq Accepted
        /\ \A p : Deciding(p) \subseteq Accepted
    BY DEF Sized, Lists, Deciding
  <2> QED
    BY <2>1, <2>2, <2>3
<1>6. /\ file'.len \in Nat
      /\ Structured(log[pos]) => file'.len = log[pos].num
      /\ ~Structured(log[pos]) =>
            IsLatest(file'.len, {p + 1 : p \in Written(log[pos])} \cup {file.len})
      /\ \A p \in Page : p >= file'.len => file'.img[p] = Hole
      /\ \A p \in Page : file'.img[p] = IF pos \in Deciding(p) THEN Left(pos, p) ELSE file.img[p]
  BY <1>1, <1>2, <1>3, AppliedIs, ZenonT(60) DEF Deciding
<1>7. Tidy(file)'
  <2>1. \A p \in Page : Deciding(p) = {} => file'.img[p] = original.img[p]
    BY <1>1, <1>6 DEF Tidy
  <2>2. ASSUME Sized = {}
        PROVE  /\ original.len <= file'.len
               /\ \E n \in Ends(0, Accepted) : file'.len <= n
    <3>1. IsLatest(file'.len, {p + 1 : p \in Written(log[pos])} \cup {file.len})
      BY <1>3, <1>6, <2>2 DEF Sized
    <3>2. original.len <= file.len /\ \E n \in Ends(0, Accepted) : file.len <= n
      BY <1>1, <2>2 DEF Tidy
    <3>3. \A p \in Written(log[pos]) : p + 1 \in Ends(0, Accepted)
      BY <1>3, <1>5 DEF Written, Ends
    <3>4. original.len <= file'.len
      BY <1>1, <1>6, <3>1, <3>2 DEF IsLatest
    <3>5. CASE file'.len = file.len
      BY <3>2, <3>4, <3>5
    <3>6. CASE file'.len \in {p + 1 : p \in Written(log[pos])}
      BY <1>6, <3>3, <3>4, <3>6
    <3> QED
      BY <3>1, <3>5, <3>6 DEF IsLatest
  <2>3. Ends(0, Accepted)' = Ends(0, Accepted)
    BY <1>2, ExpectationStays DEF Ends
  <2> QED
    BY <1>2, <1>3, <1>6, <2>1, <2>2, <2>3 DEF Tidy
<1>8. PagesReplayed'
  <2>1. ASSUME NEW p \in Page, Before(Deciding(p))' # {}
        PROVE  \E i \in DOMAIN log : IsLatest(i, Before(Deciding(p))') /\ file'.img[p] = Left(i, p)
    <3>1. CASE pos \in Deciding(p)
      <4>1. IsLatest(pos, Before(Deciding(p))')
        BY <1>3, <1>5, <3>1
      <4> QED
        BY <1>3, <1>6, <3>1, <4>1
    <3>2. CASE pos \notin Deciding(p)
      BY <1>1, <1>3, <1>6, <2>1, <3>2 DEF PagesReplayed
    <3> QED
      BY <3>1, <3>2
  <2>2. \A i, p : Left(i, p)' = Left(i, p)
    BY <1>2, ExpectationStays
  <2> QED
    BY <1>2, <2>1, <2>2 DEF PagesReplayed, IsLatest
<1>9. LenReplayed'
  <2>1. \A s, S : Ends(s, S)' = Ends(s, S)
    BY <1>2, ExpectationStays
  <2>2. ASSUME NEW s \in Nat, s < pos, ~Structured(log[pos])
        PROVE  Ends(s, Before(Accepted)') =
                  Ends(s, Before(Accepted)) \cup {p + 1 : p \in Written(log[pos])}
    BY <1>1, <1>3, <2>2 DEF Ends, Written
  <2>3. CASE Sized = {}
    <3>1. ~Structured(log[pos]) /\ Before(Sized)' = {}
      BY <1>3, <2>3 DEF Sized, Before
    <3>2. ASSUME NEW n \in Ends(0, Before(Accepted)')
          PROVE  n <= file'.len
      <4>1. IsLatest(file'.len, {p + 1 : p \in Written(log[pos])} \cup {file.len})
        BY <1>6, <3>1
      <4>2. CASE n \in Ends(0, Before(Accepted))
        <5>1. n <= file.len
          BY <1>1, <2>3, <4>2 DEF LenReplayed
        <5>2. file.len <= file'.len
          BY <4>1 DEF IsLatest
        <5>3. n \in Nat
          <6>1. \A p \in Page : p \in Nat
            BY RecoveryAssumption DEF Page
          <6> QED
            BY <1>1, <4>2, <6>1 DEF Ends
        <5> QED
          BY <1>1, <1>6, <5>1, <5>2, <5>3
      <4>3. CASE n \in {p + 1 : p \in Written(log[pos])}
        BY <4>1, <4>3 DEF IsLatest
      <4> QED
        BY <1>1, <2>2, <3>1, <3>2, <4>2, <4>3
    <3> QED
      BY <1>2, <1>3, <2>1, <3>1, <3>2 DEF LenReplayed
  <2>4. CASE Sized # {} /\ pos \in Sized
    <3>1. IsLatest(pos, Before(Sized)')
      BY <1>3, <1>5, <2>4
    <3>2. Ends(pos, Before(Accepted)') = {log[pos].num}
      <4>1. \A i \in Before(Accepted)' : i \in Nat /\ i <= pos
        BY <1>1, <1>3, <1>5 DEF IsLatest, Before
      <4>2. \A i \in Before(Accepted)' : ~(i > pos)
        BY <1>1, <4>1
      <4> QED
        BY <1>1, <4>2 DEF Ends
    <3>3. IsLatest(file'.len, Ends(pos, Before(Accepted)'))
      <4>1. file'.len = log[pos].num /\ file'.len \in Nat
        BY <1>6, <2>4 DEF Sized
      <4> QED
        BY <3>2, <4>1 DEF IsLatest
    <3> QED
      BY <1>2, <1>3, <2>1, <2>4, <3>1, <3>3 DEF LenReplayed, IsLatest
  <2>5. CASE Sized # {} /\ pos \notin Sized
    <3>1. ASSUME Before(Sized)' # {}
          PROVE  \E s \in DOMAIN log : /\ IsLatest(s, Before(Sized)')
                                       /\ IsLatest(file'.len, Ends(s, Before(Accepted)'))
      <4>1. PICK s \in DOMAIN log : /\ IsLatest(s, Before(Sized))
                                    /\ IsLatest(file.len, Ends(s, Before(Accepted)))
        BY <1>1, <1>3, <2>5, <3>1 DEF LenReplayed
      <4>2. s \in Nat /\ s < pos /\ s \in Accepted
        BY <1>1, <1>4, <4>1, LogIs DEF IsLatest, Before, Sized
      <4>3. ~Structured(log[pos])
        BY <1>3, <2>5 DEF Sized
      <4>4. IsLatest(file'.len, {p + 1 : p \in Written(log[pos])} \cup {file.len})
        BY <1>6, <4>3
      <4>5. \A n \in Ends(s, Before(Accepted)) : n \in Nat
        BY <1>1, <1>5, <4>2, RecoveryAssumption DEF Ends, Page
      <4>6. IsLatest(file'.len, Ends(s, Before(Accepted)) \cup {p + 1 : p \in Written(log[pos])})
        BY <1>1, <1>6, <4>1, <4>4, <4>5 DEF IsLatest
      <4> QED
        BY <1>3, <2>2, <2>5, <4>1, <4>2, <4>3, <4>6
    <3> QED
      BY <1>2, <1>3, <2>1, <2>5, <3>1 DEF LenReplayed, IsLatest
  <2> QED
    BY <2>3, <2>4, <2>5
<1>10. ListReplayed'
  <2>1. \A i : ListOf(i)' = ListOf(i)
    BY <1>2, ExpectationStays
  <2>2. pos \in Lists <=> log[pos].fmt = "v2"
    BY <1>3 DEF Lists
  <2>3. CASE pos \in Lists
    <3>1. IsLatest(pos, Before(Lists)')
      BY <1>3, <1>5, <2>3
    <3> QED
      BY <1>2, <1>3, <2>1, <2>2, <2>3, <3>1 DEF ListReplayed, IsLatest
  <2>4. CASE pos \notin Lists
    BY <1>1, <1>2, <1>3, <2>1, <2>2, <2>4 DEF ListReplayed, IsLatest
  <2> QED
    BY <2>3, <2>4
<1>11. Tidy(synced)'
  BY <1>2, <1>3, ExpectationStays DEF RecoveryInv, Tidy, Ends
<1>12. RecoveryIsIdempotent' /\ FreeListMatchesLog'
  BY <1>1, <1>2, ExpectationStays DEF RecoveryInv, RecoveryIsIdempotent, FreeListMatchesLog
<1> QED
  BY <1>1, <1>2, <1>3, <1>7, <1>8, <1>9, <1>10, <1>11, <1>12 DEF RecoveryInv

\* A step that moves neither the reader nor the file.
LEMMA ReaderStays ==
    ASSUME RecoveryInv, UNCHANGED <<log, original, file, pos, listed>>
    PROVE  /\ Position' /\ Tidy(file)' /\ PagesReplayed' /\ LenReplayed'
           /\ pos' > 0 => ListReplayed'
           /\ synced' = synced => Tidy(synced)'
<1>1. /\ Position /\ Tidy(file) /\ Tidy(synced) /\ PagesReplayed /\ LenReplayed
      /\ pos > 0 => ListReplayed
  BY DEF RecoveryInv
<1>2. /\ Accepted' = Accepted /\ Sized' = Sized /\ Lists' = Lists
      /\ \A p : Deciding(p)' = Deciding(p)
      /\ \A i, p : Left(i, p)' = Left(i, p)
      /\ \A i : ListOf(i)' = ListOf(i)
      /\ \A s, S : Ends(s, S)' = Ends(s, S)
  BY ExpectationStays
<1>3. Position'
  BY <1>1 DEF Position
<1>4. Tidy(file)' /\ (synced' = synced => Tidy(synced)')
  BY <1>1, <1>2 DEF Tidy, Ends
<1>5. PagesReplayed'
  BY <1>1, <1>2 DEF PagesReplayed, Before, IsLatest
<1>6. LenReplayed'
  BY <1>1, <1>2 DEF LenReplayed, Before, IsLatest
<1>7. pos' > 0 => ListReplayed'
  BY <1>1, <1>2 DEF ListReplayed, Before, IsLatest
<1> QED
  BY <1>3, <1>4, <1>5, <1>6, <1>7

\* Starting recovery, over whatever an earlier attempt left.
LEMMA StartStep ==
    ASSUME RecoveryInv, Start
    PROVE  RecoveryInv'
<1>1. /\ Position /\ Tidy(file) /\ Tidy(synced) /\ exists /\ exists'
      /\ pos' = 1 /\ listed' = NoList
      /\ UNCHANGED <<log, original, synced, file, sidecar>>
  BY DEF RecoveryInv, Start
<1>2. Tidy(file)' /\ Tidy(synced)'
  BY <1>1, ExpectationStays DEF Tidy, Ends
<1>3. Position' /\ PagesReplayed' /\ LenReplayed' /\ ListReplayed'
  BY <1>1, <1>2, NothingRead
<1>4. RecoveryIsIdempotent' /\ FreeListMatchesLog'
  BY <1>1, ExpectationStays DEF RecoveryInv, RecoveryIsIdempotent, FreeListMatchesLog
<1> QED
  BY <1>1, <1>2, <1>3, <1>4 DEF RecoveryInv

\* The sync of the file.
LEMMA SyncFileStep ==
    ASSUME RecoveryInv, SyncFile
    PROVE  RecoveryInv'
<1>1. /\ pos > 0 /\ exists /\ exists' /\ synced' = file
      /\ UNCHANGED <<log, original, file, pos, listed, sidecar>>
  BY DEF RecoveryInv, SyncFile
<1>2. Position' /\ Tidy(file)' /\ PagesReplayed' /\ LenReplayed' /\ (pos' > 0 => ListReplayed')
  BY <1>1, ReaderStays
<1>3. Tidy(synced)'
  BY <1>1, <1>2 DEF Tidy
<1>4. RecoveryIsIdempotent' /\ FreeListMatchesLog'
  BY <1>1, ExpectationStays DEF RecoveryInv, RecoveryIsIdempotent, FreeListMatchesLog
<1> QED
  BY <1>1, <1>2, <1>3, <1>4 DEF RecoveryInv

\* The publication of the free list, after the last record was read.
LEMMA PublishFreeListStep ==
    ASSUME RecoveryInv, PublishFreeList
    PROVE  RecoveryInv'
<1>1. /\ pos > 0 /\ ~Reading /\ exists /\ exists' /\ sidecar' = listed
      /\ UNCHANGED <<log, original, synced, file, pos, listed>>
  BY DEF RecoveryInv, PublishFreeList
<1>2. /\ Position' /\ Tidy(file)' /\ Tidy(synced)' /\ PagesReplayed' /\ LenReplayed'
      /\ (pos' > 0 => ListReplayed')
  BY <1>1, ReaderStays
<1>3. listed = ExpectedList /\ ExpectedList' = ExpectedList
  BY <1>1, ReplayedAll, ExpectationStays
<1> QED
  BY <1>1, <1>2, <1>3 DEF RecoveryInv, RecoveryIsIdempotent, FreeListMatchesLog

\* The removal of the log ends recovery.
LEMMA RemoveLogStep ==
    ASSUME RecoveryInv, RemoveLog
    PROVE  RecoveryInv'
<1>1. /\ pos > 0 /\ ~Reading /\ synced = file /\ pos' = 0
      /\ listed.known => sidecar = listed
      /\ UNCHANGED <<log, original, synced, file, listed, sidecar>>
      /\ Position /\ Tidy(file) /\ Tidy(synced)
  BY DEF RecoveryInv, RemoveLog
<1>2. Tidy(file)' /\ Tidy(synced)'
  BY <1>1, ExpectationStays DEF Tidy, Ends
<1>3. Position' /\ PagesReplayed' /\ LenReplayed'
  BY <1>1, <1>2, NothingRead
<1>4. /\ file.len = ExpectedLen /\ listed = ExpectedList
      /\ \A p \in Page : file.img[p] = ExpectedPage(p)
  BY <1>1, ReplayedAll
<1>5. /\ ExpectedLen' = ExpectedLen /\ ExpectedList' = ExpectedList
      /\ \A p : ExpectedPage(p)' = ExpectedPage(p)
  BY <1>1, ExpectationStays
<1>6. RecoveryIsIdempotent' /\ FreeListMatchesLog'
  BY <1>1, <1>4, <1>5 DEF RecoveryInv, RecoveryIsIdempotent, FreeListMatchesLog
<1> QED
  BY <1>1, <1>2, <1>3, <1>6 DEF RecoveryInv

\* A crash leaves each page that no record decides as it was.
LEMMA CrashStep ==
    ASSUME RecoveryInv, Crash
    PROVE  RecoveryInv'
<1>1. PICK len \in (synced.len .. file.len) \cup (file.len .. synced.len) :
         \E lost \in SUBSET {p \in Page : synced.img[p] # file.img[p]} :
         \E torn \in SUBSET lost :
            LET f == [len |-> len,
                      img |-> [p \in Page |->
                                 IF p >= len \/ p \in torn THEN Hole
                                 ELSE IF p \in lost THEN synced.img[p]
                                 ELSE file.img[p]]]
            IN synced' = f /\ file' = f
  BY DEF Crash
<1>2. PICK lost, torn :
         /\ lost \subseteq {p \in Page : synced.img[p] # file.img[p]} /\ torn \subseteq lost
         /\ synced' = file' /\ file'.len = len
         /\ \A p \in Page : file'.img[p] = IF p >= len \/ p \in torn THEN Hole
                                           ELSE IF p \in lost THEN synced.img[p]
                                           ELSE file.img[p]
  BY <1>1
<1>3. /\ Position /\ Tidy(file) /\ Tidy(synced) /\ exists /\ exists'
      /\ pos' = 0 /\ UNCHANGED <<log, original, sidecar>>
  BY DEF RecoveryInv, Crash
<1>4. /\ len \in Nat /\ file.len \in Nat /\ synced.len \in Nat /\ original.len \in Nat
      /\ synced.len <= len \/ file.len <= len
      /\ len <= synced.len \/ len <= file.len
      /\ \A bound : bound <= synced.len /\ bound <= file.len /\ bound \in Nat => bound <= len
  BY <1>3 DEF Tidy, Position
<1>5. ASSUME NEW p \in Page, Deciding(p) = {}
      PROVE  file'.img[p] = original.img[p]
  <2>1. file.img[p] = original.img[p] /\ synced.img[p] = original.img[p]
    BY <1>3, <1>5 DEF Tidy
  <2>2. p >= len => p >= synced.len \/ p >= file.len
    BY <1>4, RecoveryAssumption DEF Page
  <2>3. p >= len => original.img[p] = Hole
    BY <1>3, <2>1, <2>2 DEF Tidy
  <2> QED
    BY <1>2, <2>1, <2>3
<1>6. ASSUME Sized = {}
      PROVE  /\ original.len <= len
             /\ \E n \in Ends(0, Accepted) : len <= n
  <2>1. /\ original.len <= synced.len /\ original.len <= file.len
        /\ \E n \in Ends(0, Accepted) : synced.len <= n
        /\ \E n \in Ends(0, Accepted) : file.len <= n
    BY <1>3, <1>6 DEF Tidy
  <2>2. \A n \in Ends(0, Accepted) : n \in Nat
    BY <1>4, RecoveryAssumption DEF Ends, Page
  <2> QED
    BY <1>4, <2>1, <2>2
<1>7. Tidy(file)' /\ Tidy(synced)'
  <2>1. /\ Sized' = Sized /\ Ends(0, Accepted)' = Ends(0, Accepted)
        /\ \A p : Deciding(p)' = Deciding(p)
    BY <1>3, ExpectationStays DEF Ends
  <2> QED
    BY <1>2, <1>3, <1>5, <1>6, <1>4, <2>1 DEF Tidy
<1>8. Position' /\ PagesReplayed' /\ LenReplayed'
  BY <1>3, <1>7, NothingRead
<1>9. RecoveryIsIdempotent' /\ FreeListMatchesLog'
  BY <1>3, ExpectationStays DEF RecoveryInv, RecoveryIsIdempotent, FreeListMatchesLog
<1> QED
  BY <1>3, <1>7, <1>8, <1>9 DEF RecoveryInv

\* Before recovery the file is the original one.
LEMMA InitRecoveryInv == Init => RecoveryInv
<1> SUFFICES ASSUME Init PROVE RecoveryInv
  OBVIOUS
<1>1. /\ log \in Seq(Records) /\ original.len \in Nat
      /\ \A p \in Page : p >= original.len => original.img[p] = Hole
      /\ exists /\ synced = original /\ file = original /\ pos = 0 /\ sidecar = NoList
  <2>1. log \in Seq(Records)
    <3>1. PICK n \in Nat : log \in [1 .. n -> Records]
      BY RecoveryAssumption DEF Init
    <3> QED
      BY <3>1, SeqDef
  <2>2. original.len \in Nat
    BY RecoveryAssumption DEF Init
  <2> QED
    BY <2>1, <2>2 DEF Init
<1>2. Position
  <2>1. Len(log) \in Nat /\ DOMAIN log = 1 .. Len(log)
    BY <1>1, LenProperties
  <2> QED
    BY <1>1, <2>1 DEF Position
<1>3. /\ Before(Accepted) = {} /\ Before(Sized) = {}
      /\ \A p : Before(Deciding(p)) = {}
  BY <1>1, <1>2, LogIs DEF Before, Sized, Deciding
<1>4. Tidy(file) /\ Tidy(synced)
  BY <1>1 DEF Tidy, Ends
<1>5. PagesReplayed /\ LenReplayed
  BY <1>1, <1>3 DEF PagesReplayed, LenReplayed, Ends
<1> QED
  BY <1>1, <1>2, <1>4, <1>5
  DEF RecoveryInv, RecoveryIsIdempotent, FreeListMatchesLog, NoList

----------------------------------------------------------------------------
(* The composed log                                                        *)

AddedTo(w, i) == Logged(w, log[i].num, log[i].img, log[i].free)

\* f composes the first n records, one after the other.
IsComposed(f, n) ==
    f = [i \in 0 .. n |-> IF i = 0 THEN NoWal ELSE AddedTo(f[i - 1], i)]

\* A property of numbers up to n that holds of 0 and passes from each to the
\* next holds of them all; the property is told by the set of its numbers.
LEMMA UpTo ==
    ASSUME NEW n \in Nat, NEW S, 0 \in S,
           \A m \in 0 .. n - 1 : m \in S => m + 1 \in S
    PROVE  0 .. n \subseteq S
<1> DEFINE Good == {m \in 0 .. n : 0 .. m \subseteq S}
<1>1. 0 \in Good
  OBVIOUS
<1>2. PICK m : IsLatest(m, Good)
  <2>1. Good \subseteq 0 .. n /\ Good # {}
    BY <1>1
  <2> HIDE DEF Good
  <2> QED
    BY <2>1, LatestExists
<1>3. m \in 0 .. n /\ 0 .. m \subseteq S
  BY <1>2 DEF IsLatest
<1>4. m = n
  <2>1. SUFFICES ASSUME m # n PROVE FALSE
    OBVIOUS
  <2>2. m \in 0 .. n - 1 /\ m \in S
    BY <1>3, <2>1
  <2>3. 0 .. m + 1 = (0 .. m) \cup {m + 1}
    BY <2>2
  <2>4. m + 1 \in 0 .. n /\ 0 .. m + 1 \subseteq S
    BY <1>3, <2>2, <2>3
  <2>5. m + 1 \in Good
    BY <2>4
  <2> QED
    BY <1>2, <2>2, <2>5 DEF IsLatest
<1> QED
  BY <1>3, <1>4

\* The first n records can be composed, and in one way.
LEMMA CompositionExists ==
    ASSUME NEW n \in Nat
    PROVE  \E f : IsComposed(f, n)
<1> DEFINE S == {m \in Nat : \E f : IsComposed(f, m)}
<1>1. 0 \in S
  <2> DEFINE f == [i \in 0 .. 0 |-> NoWal]
  <2>1. IsComposed(f, 0)
    <3>1. \A i \in 0 .. 0 : i = 0
      OBVIOUS
    <3> QED
      BY <3>1 DEF IsComposed
  <2> QED
    BY <2>1
<1>2. ASSUME NEW m \in 0 .. n - 1, m \in S
      PROVE  m + 1 \in S
  <2>1. PICK f : IsComposed(f, m)
    BY <1>2
  <2> DEFINE g == [i \in 0 .. m + 1 |-> IF i = m + 1 THEN AddedTo(f[m], m + 1) ELSE f[i]]
  <2>2. ASSUME NEW i \in 0 .. m + 1
        PROVE  g[i] = IF i = 0 THEN NoWal ELSE AddedTo(g[i - 1], i)
    <3>1. CASE i = m + 1
      <4>1. i - 1 \in 0 .. m + 1 /\ i - 1 = m /\ i - 1 # m + 1 /\ i # 0
        BY <3>1
      <4> QED
        BY <3>1, <4>1
    <3>2. CASE i # m + 1
      <4>1. i \in 0 .. m /\ g[i] = f[i]
        BY <3>2
      <4>2. f[i] = IF i = 0 THEN NoWal ELSE AddedTo(f[i - 1], i)
        BY <2>1, <4>1 DEF IsComposed
      <4>3. i # 0 => i - 1 \in 0 .. m + 1 /\ i - 1 # m + 1
        BY <4>1
      <4> QED
        BY <4>1, <4>2, <4>3
    <3> QED
      BY <3>1, <3>2
  <2>3. IsComposed(g, m + 1)
    <3>1. g = [i \in 0 .. m + 1 |-> g[i]]
      OBVIOUS
    <3> HIDE DEF g
    <3> QED
      BY <2>2, <3>1 DEF IsComposed
  <2> QED
    BY <2>3
<1>3. 0 .. n \subseteq S
  <2> HIDE DEF S
  <2> QED
    BY <1>1, <1>2, UpTo
<1> QED
  BY <1>3

LEMMA CompositionIs ==
    ASSUME NEW n \in Nat, NEW m \in 0 .. n, NEW f, NEW g, IsComposed(f, n), IsComposed(g, m)
    PROVE  \A i \in 0 .. m : f[i] = g[i]
<1> DEFINE S == {i \in 0 .. m : f[i] = g[i]}
<1>1. /\ \A i \in 0 .. n : f[i] = IF i = 0 THEN NoWal ELSE AddedTo(f[i - 1], i)
      /\ \A i \in 0 .. m : g[i] = IF i = 0 THEN NoWal ELSE AddedTo(g[i - 1], i)
  BY DEF IsComposed
<1>2. 0 \in S
  BY <1>1
<1>3. ASSUME NEW i \in 0 .. m - 1, i \in S
      PROVE  i + 1 \in S
  <2>1. i + 1 \in 0 .. m /\ i + 1 \in 0 .. n /\ i + 1 # 0 /\ (i + 1) - 1 = i
    OBVIOUS
  <2>2. f[i + 1] = AddedTo(f[i], i + 1) /\ g[i + 1] = AddedTo(g[i], i + 1)
    BY <1>1, <2>1
  <2> QED
    BY <1>3, <2>1, <2>2
<1>4. 0 .. m \subseteq S
  <2> HIDE DEF S
  <2> QED
    BY <1>2, <1>3, UpTo
<1> QED
  BY <1>4

\* Composed is what its definition says.
LEMMA ComposedIs ==
    /\ Composed[0] = NoWal
    /\ \A n \in Nat : Composed[n + 1] = AddedTo(Composed[n], n + 1)
<1> DEFINE F == [n \in Nat |-> (CHOOSE f : IsComposed(f, n))[n]]
           Def(g) == [n \in Nat |-> IF n = 0 THEN NoWal ELSE AddedTo(g[n - 1], n)]
<1>1. ASSUME NEW n \in Nat
      PROVE  F[n] = IF n = 0 THEN NoWal ELSE AddedTo(F[n - 1], n)
  <2>1. PICK f : IsComposed(f, n) /\ f = CHOOSE g : IsComposed(g, n)
    BY CompositionExists
  <2>2. F[n] = f[n]
    BY <2>1
  <2>3. f[n] = IF n = 0 THEN NoWal ELSE AddedTo(f[n - 1], n)
    BY <2>1 DEF IsComposed
  <2>4. CASE n # 0
    <3>1. n - 1 \in Nat /\ n - 1 \in 0 .. n
      BY <2>4
    <3>2. PICK h : IsComposed(h, n - 1) /\ h = CHOOSE g : IsComposed(g, n - 1)
      BY <3>1, CompositionExists
    <3>3. F[n - 1] = h[n - 1] /\ f[n - 1] = h[n - 1]
      BY <2>1, <3>1, <3>2, CompositionIs
    <3> QED
      BY <2>2, <2>3, <2>4, <3>3
  <2> QED
    BY <2>2, <2>3, <2>4
<1>2. F = Def(F)
  <2>1. F = [n \in Nat |-> F[n]]
    OBVIOUS
  <2> HIDE DEF F
  <2> QED
    BY <1>1, <2>1
<1>3. Composed = Def(Composed)
  <2>1. Composed = CHOOSE g : g = Def(g)
    BY DEF Composed, AddedTo
  <2> HIDE DEF F, Def
  <2> QED
    BY <1>2, <2>1
<1>4. \A n \in Nat : Composed[n] = IF n = 0 THEN NoWal ELSE AddedTo(Composed[n - 1], n)
  BY <1>3
<1>5. \A n \in Nat : n + 1 \in Nat /\ n + 1 # 0 /\ (n + 1) - 1 = n
  OBVIOUS
<1> QED
  BY <1>4, <1>5

\* The records among the first n that decide the fate of page p, when all of
\* them carry a page count.
DecidingUpTo(n, p) == {i \in 1 .. n : log[i].img[p] # None \/ p >= log[i].num}

\* The first n records composed: the newest deciding one left each page.
DescribesPages(w, n) ==
    /\ w.present /\ w.num = log[n].num /\ w.free = log[n].free
    /\ \A p \in Page : p < w.num =>
          IF DecidingUpTo(n, p) = {} THEN w.img[p] = None
          ELSE \E i \in 1 .. n : IsLatest(i, DecidingUpTo(n, p)) /\ w.img[p] = Left(i, p)

\* Composing one more record.
LEMMA RecordComposed ==
    ASSUME NEW m \in Nat, NEW w,
           \A i \in 1 .. m + 1 : Acceptable(log[i]) /\ log[i].fmt = "v2" /\ log[i].num \in Nat,
           IF m = 0 THEN w = NoWal ELSE DescribesPages(w, m)
    PROVE  DescribesPages(AddedTo(w, m + 1), m + 1)
<1> DEFINE k == m + 1
           r == log[k]
           v == AddedTo(w, k)
<1>1. /\ v.present /\ v.num = r.num /\ v.free = r.free
      /\ \A p \in Page : v.img[p] = IF p >= r.num THEN None
                                    ELSE IF r.img[p] # None THEN r.img[p]
                                    ELSE IF w.present /\ p >= w.num THEN Hole
                                    ELSE w.img[p]
  BY DEF AddedTo, Logged
<1>2. /\ r.num \in Nat /\ k \in 1 .. k /\ k \in Nat
      /\ 1 .. k = (1 .. m) \cup {k}
      /\ \A i \in 1 .. m : i <= k /\ i # k
      /\ \A p \in Page : p \in Nat
  BY RecoveryAssumption DEF Page
<1>3. ASSUME NEW p \in Page, p < v.num
      PROVE  IF DecidingUpTo(k, p) = {} THEN v.img[p] = None
             ELSE \E i \in 1 .. k : IsLatest(i, DecidingUpTo(k, p)) /\ v.img[p] = Left(i, p)
  <2>1. ~(p >= r.num)
    BY <1>1, <1>2, <1>3
  <2>2. CASE r.img[p] # None
    <3>1. k \in DecidingUpTo(k, p)
      BY <1>2, <2>2 DEF DecidingUpTo
    <3>2. IsLatest(k, DecidingUpTo(k, p))
      BY <3>1 DEF IsLatest, DecidingUpTo
    <3>3. v.img[p] = Left(k, p)
      BY <1>1, <2>1, <2>2 DEF Left
    <3> QED
      BY <1>2, <3>1, <3>2, <3>3
  <2>3. CASE r.img[p] = None
    <3>1. DecidingUpTo(k, p) = DecidingUpTo(m, p)
      <4>1. \A i \in 1 .. k : i \in DecidingUpTo(k, p) <=> i \in DecidingUpTo(m, p)
        BY <1>2, <2>1, <2>3 DEF DecidingUpTo
      <4>2. DecidingUpTo(k, p) \subseteq 1 .. k /\ DecidingUpTo(m, p) \subseteq 1 .. k
        BY <1>2 DEF DecidingUpTo
      <4> QED
        BY <4>1, <4>2
    <3>2. v.img[p] = IF w.present /\ p >= w.num THEN Hole ELSE w.img[p]
      BY <1>1, <2>1, <2>3
    <3>3. CASE m = 0
      <4>1. ~w.present /\ w.img[p] = None
        BY <3>3 DEF NoWal, Nothing
      <4>2. DecidingUpTo(m, p) = {}
        BY <3>3 DEF DecidingUpTo
      <4> QED
        BY <3>1, <3>2, <4>1, <4>2
    <3>4. CASE m # 0 /\ p >= w.num
      <4>1. /\ w.present /\ w.num = log[m].num /\ m \in 1 .. m
            /\ Acceptable(log[m]) /\ log[m].fmt = "v2" /\ log[m].num \in Nat
        BY <1>2, <3>4 DEF DescribesPages
      <4>2. log[m].img[p] = None
        BY <1>2, <3>4, <4>1 DEF Acceptable, Structured, Written, Below
      <4>3. m \in DecidingUpTo(m, p)
        BY <3>4, <4>1 DEF DecidingUpTo
      <4>4. IsLatest(m, DecidingUpTo(m, p)) /\ v.img[p] = Left(m, p)
        BY <3>2, <3>4, <4>1, <4>2, <4>3 DEF IsLatest, DecidingUpTo, Left
      <4> QED
        BY <1>2, <3>1, <4>1, <4>3, <4>4
    <3>5. CASE m # 0 /\ ~(p >= w.num)
      <4>1. w.num = log[m].num /\ m \in 1 .. m /\ log[m].num \in Nat
        BY <1>2, <3>5 DEF DescribesPages
      <4>2. p < w.num
        BY <1>2, <3>5, <4>1
      <4>3. IF DecidingUpTo(m, p) = {} THEN w.img[p] = None
            ELSE \E i \in 1 .. m : IsLatest(i, DecidingUpTo(m, p)) /\ w.img[p] = Left(i, p)
        BY <3>5, <4>2 DEF DescribesPages
      <4> QED
        BY <1>2, <3>1, <3>2, <3>5, <4>3
    <3> QED
      BY <3>3, <3>4, <3>5
  <2> QED
    BY <2>2, <2>3
<1> QED
  BY <1>1, <1>3 DEF DescribesPages

\* All the records that recovery accepts, composed.
LEMMA AcceptedComposed ==
    ASSUME Position, NEW n \in Accepted, \A i \in Accepted : log[i].fmt = "v2",
           IsLatest(n, Accepted)
    PROVE  /\ Accepted = 1 .. n
           /\ DescribesPages(Composed[n], n)
<1>1. /\ n \in Nat \ {0} /\ n \in DOMAIN log /\ DOMAIN log = 1 .. Len(log) /\ Len(log) \in Nat
      /\ \A i \in DOMAIN log : log[i].num \in Nat
      /\ Accepted \subseteq DOMAIN log
      /\ \A i \in 1 .. n : Acceptable(log[i])
  BY LogIs DEF Accepted
<1>2. Accepted = 1 .. n
  <2>1. \A i \in 1 .. n : i \in Accepted
    <3> SUFFICES ASSUME NEW i \in 1 .. n PROVE i \in Accepted
      OBVIOUS
    <3>1. i \in DOMAIN log /\ 1 .. i \subseteq 1 .. n
      BY <1>1
    <3> QED
      BY <1>1, <3>1 DEF Accepted
  <2>2. \A i \in Accepted : i \in 1 .. n
    BY <1>1 DEF IsLatest
  <2> QED
    BY <2>1, <2>2
<1>3. \A i \in 1 .. n : Acceptable(log[i]) /\ log[i].fmt = "v2" /\ log[i].num \in Nat
  BY <1>1, <1>2
<1> DEFINE S == {m \in 0 .. n : IF m = 0 THEN Composed[m] = NoWal
                                ELSE DescribesPages(Composed[m], m)}
<1>4. 0 \in S
  BY <1>1, ComposedIs
<1>5. ASSUME NEW m \in 0 .. n - 1, m \in S
      PROVE  m + 1 \in S
  <2>1. /\ m \in Nat /\ m + 1 \in 0 .. n /\ m + 1 # 0
        /\ 1 .. m + 1 \subseteq 1 .. n
    BY <1>1
  <2>2. IF m = 0 THEN Composed[m] = NoWal ELSE DescribesPages(Composed[m], m)
    BY <1>5
  <2>3. DescribesPages(AddedTo(Composed[m], m + 1), m + 1)
    BY <1>3, <2>1, <2>2, RecordComposed
  <2>4. Composed[m + 1] = AddedTo(Composed[m], m + 1)
    BY <2>1, ComposedIs
  <2> QED
    BY <2>1, <2>3, <2>4
<1>6. 0 .. n \subseteq S
  <2> HIDE DEF S
  <2> QED
    BY <1>1, <1>4, <1>5, UpTo
<1>7. n \in S /\ n # 0
  BY <1>1, <1>6
<1> QED
  BY <1>2, <1>7

\* The images of the file are a function on its pages.
ImagesTyped ==
    /\ synced.img = [p \in Page |-> synced.img[p]]
    /\ file.img = [p \in Page |-> file.img[p]]

LEMMA ImagesTypedStep ==
    ASSUME ImagesTyped, [Next]_vars
    PROVE  ImagesTyped'
<1>1. CASE ReplayRecord
  BY <1>1 DEF ReplayRecord, Applied, ImagesTyped
<1>2. CASE Crash
  BY <1>2 DEF Crash, ImagesTyped
<1>3. CASE SyncFile
  BY <1>3 DEF SyncFile, ImagesTyped
<1>4. CASE Start \/ PublishFreeList \/ RemoveLog \/ UNCHANGED vars
  BY <1>4 DEF Start, PublishFreeList, RemoveLog, ImagesTyped, vars
<1> QED
  BY <1>1, <1>2, <1>3, <1>4 DEF Next

\* Recovery, record by record, ends where the composed log says.
LEMMA ComposedLogIsReplayed ==
    ASSUME RecoveryInv, ImagesTyped
    PROVE  ComposedLogAgrees
<1> SUFFICES ASSUME ~exists, Accepted # {}, \A i \in Accepted : log[i].fmt = "v2"
             PROVE  LET w == Composed[Latest(Accepted)]
                    IN  /\ file.len = w.num
                        /\ file.img = Replayed(original.img, w)
                        /\ sidecar.free = w.free
  BY DEF ComposedLogAgrees
<1>1. /\ Position
      /\ file.len = ExpectedLen
      /\ \A p \in Page : file.img[p] = ExpectedPage(p)
      /\ ExpectedList.known => sidecar = ExpectedList
  BY DEF RecoveryInv, RecoveryIsIdempotent, FreeListMatchesLog
<1>2. PICK n : IsLatest(n, Accepted)
  <2>1. Accepted \subseteq 0 .. Len(log) /\ Len(log) \in Nat
    BY <1>1, LogIs
  <2> QED
    BY <2>1, LatestExists
<1>3. /\ n \in Accepted /\ n \in Nat \ {0} /\ log[n].num \in Nat
      /\ Accepted \subseteq Nat /\ Latest(Accepted) = n
  <2>1. Accepted \subseteq Nat \ {0} /\ \A i \in Accepted : log[i].num \in Nat
    BY <1>1, LogIs
  <2> QED
    BY <1>2, <2>1, LatestIs DEF IsLatest
<1> DEFINE w == Composed[n]
<1>4. Accepted = 1 .. n /\ DescribesPages(w, n)
  BY <1>1, <1>2, <1>3, AcceptedComposed
<1>5. w.num = log[n].num /\ w.free = log[n].free
  BY <1>4 DEF DescribesPages
<1>6. ExpectedLen = w.num
  <2>1. /\ {i \in Accepted : Structured(log[i])} = Accepted
        /\ \A p \in Page : ~ \E i \in Accepted : i > n /\ log[i].img[p] # None
    BY <1>3, <1>4 DEF Structured
  <2>2. ExpectedLen = Latest({log[n].num} \cup {p + 1 : p \in {q \in Page : FALSE}})
    BY <1>3, <2>1 DEF ExpectedLen
  <2>3. IsLatest(log[n].num, {log[n].num} \cup {p + 1 : p \in {q \in Page : FALSE}})
    BY <1>3 DEF IsLatest
  <2> QED
    BY <1>3, <1>5, <2>2, <2>3, LatestIs
<1>7. sidecar.free = w.free
  <2>1. {i \in Accepted : log[i].fmt = "v2"} = Accepted
    OBVIOUS
  <2>2. ExpectedList = ListOf(n)
    BY <1>3, <2>1 DEF ExpectedList, ListOf
  <2> QED
    BY <1>1, <1>5, <2>2 DEF ListOf
<1>8. ASSUME NEW p \in Page
      PROVE  file.img[p] = IF p >= w.num THEN Hole
                           ELSE IF w.img[p] # None THEN w.img[p] ELSE original.img[p]
  <2>1. CASE p >= w.num
    BY <1>1, <1>6, <2>1 DEF ExpectedPage
  <2>2. CASE ~(p >= w.num)
    <3>1. Deciding(p) = DecidingUpTo(n, p)
      BY <1>4 DEF Deciding, DecidingUpTo, Structured
    <3>2. p < w.num /\ DecidingUpTo(n, p) \subseteq Nat
      BY <1>3, <1>5, <2>2, RecoveryAssumption DEF Page, DecidingUpTo
    <3>3. CASE DecidingUpTo(n, p) = {}
      <4>1. w.img[p] = None
        BY <1>4, <3>2, <3>3 DEF DescribesPages
      <4> QED
        BY <1>1, <1>6, <2>2, <3>1, <3>3, <4>1 DEF ExpectedPage
    <3>4. CASE DecidingUpTo(n, p) # {}
      <4>1. PICK i \in 1 .. n : IsLatest(i, DecidingUpTo(n, p)) /\ w.img[p] = Left(i, p)
        BY <1>4, <3>2, <3>4 DEF DescribesPages
      <4>2. Latest(Deciding(p)) = i
        BY <3>1, <3>2, <4>1, LatestIs
      <4>3. file.img[p] = Left(i, p)
        BY <1>1, <1>6, <2>2, <3>1, <3>4, <4>2 DEF ExpectedPage, Left
      <4>4. Left(i, p) # None
        BY RecoveryAssumption DEF Left
      <4> QED
        BY <2>2, <4>1, <4>3, <4>4
    <3> QED
      BY <3>3, <3>4
  <2> QED
    BY <2>1, <2>2
<1>9. file.img = Replayed(original.img, w)
  <2>1. file.img = [p \in Page |-> file.img[p]]
    BY DEF ImagesTyped
  <2> HIDE DEF w
  <2> QED
    BY <1>8, <2>1 DEF Replayed
<1> QED
  BY <1>1, <1>3, <1>5, <1>6, <1>7, <1>9

----------------------------------------------------------------------------
(* Theorems                                                                *)

LEMMA NextRecoveryInv ==
    ASSUME RecoveryInv, [Next]_vars
    PROVE  RecoveryInv'
<1>1. CASE UNCHANGED vars
  <2>1. /\ UNCHANGED <<log, original, file, pos, listed>>
        /\ UNCHANGED <<synced, exists, sidecar>>
    BY <1>1 DEF vars
  <2>2. RecoveryIsIdempotent' /\ FreeListMatchesLog'
    BY <2>1, ExpectationStays DEF RecoveryInv, RecoveryIsIdempotent, FreeListMatchesLog
  <2> QED
    BY <2>1, <2>2, ReaderStays DEF RecoveryInv
<1> QED
  BY <1>1, StartStep, ReplayRecordStep, SyncFileStep, PublishFreeListStep, RemoveLogStep, CrashStep
  DEF Next

\* The reader, the file and the list are where the records read put them.
THEOREM RecoveryInvHolds == Spec => []RecoveryInv
BY InitRecoveryInv, NextRecoveryInv, PTL DEF Spec

\* Whatever a crash undid or tore, and however often: once the log is deleted,
\* the synced file is what the complete records say (recover_wal).
THEOREM RecoveryIsExact == Spec => []RecoveryIsIdempotent
<1>1. RecoveryInv => RecoveryIsIdempotent
  BY DEF RecoveryInv
<1> QED
  BY <1>1, RecoveryInvHolds, PTL

\* The free list that recovery publishes is that of the last complete record
\* (recover_wal, persist_free_list_snapshot).
THEOREM PublishedListIsTheLogs == Spec => []FreeListMatchesLog
<1>1. RecoveryInv => FreeListMatchesLog
  BY DEF RecoveryInv
<1> QED
  BY <1>1, RecoveryInvHolds, PTL

\* Nothing is published and the log is not deleted before the synced file is
\* complete (recover_wal).
THEOREM PublicationFollowsSync == Spec => PublishedAfterSync
<1>1. ASSUME RecoveryInv, Next, sidecar' # sidecar \/ exists' # exists
      PROVE  /\ synced.len = ExpectedLen
             /\ \A p \in Page : synced.img[p] = ExpectedPage(p)
  <2>1. pos > 0 /\ ~Reading /\ synced = file
    BY <1>1 DEF Next, Start, ReplayRecord, SyncFile, PublishFreeList, RemoveLog, Crash
  <2> QED
    BY <1>1, <2>1, ReplayedAll
<1>2. RecoveryInv /\ [Next]_vars
         => [sidecar' # sidecar \/ exists' # exists
               => /\ synced.len = ExpectedLen
                  /\ \A p \in Page : synced.img[p] = ExpectedPage(p)]_vars
  BY <1>1
<1> QED
  BY <1>2, RecoveryInvHolds, PTL DEF Spec, PublishedAfterSync

\* The log as module Pager keeps it, composed into one record, stands for the
\* records of the file: replaying it gives the file and the free list that
\* recover_wal leaves.
THEOREM ComposedLogIsFaithful == Spec => []ComposedLogAgrees
<1>1. Init => ImagesTyped
  BY DEF Init, ImagesTyped
<1>2. Spec => []ImagesTyped
  BY <1>1, ImagesTypedStep, PTL DEF Spec
<1>3. RecoveryInv /\ ImagesTyped => ComposedLogAgrees
  BY ComposedLogIsReplayed
<1> QED
  BY <1>2, <1>3, RecoveryInvHolds, PTL
=============================================================================
