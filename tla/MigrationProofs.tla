-------------------------- MODULE MigrationProofs --------------------------
(***************************************************************************)
(* The tables of a database survive every save, repack and recovery, an    *)
(* open is refused only over a migration that cannot be decided, and the   *)
(* generations of the tables advance one at a time: for files, catalogs,   *)
(* manifests and statements of any size and number, with a crash or an     *)
(* I/O error between, or inside, any two writes.                           *)
(***************************************************************************)
EXTENDS MigrationInv, FiniteSetTheorems, SequenceTheorems, TLAPS

----------------------------------------------------------------------------
(* Pages and trees                                                         *)

\* A bounded set of page numbers that is not empty has a greatest one: take an
\* element with the fewest others above it.
LEMMA MaxIsGreatest ==
    ASSUME NEW n \in Nat, NEW S, S \subseteq 0 .. n, S # {}
    PROVE  Max(S) \in S /\ \A y \in S : Max(S) >= y
<1> DEFINE Above(m) == {y \in S : y > m}
           T == {Above(m) : m \in S}
<1>1. IsFiniteSet(S)
  <2>1. IsFiniteSet(0 .. n)
    BY FS_Interval
  <2> QED
    BY <2>1, FS_Subset
<1>2. T \subseteq FiniteSubsetsOf(S) /\ T # {}
  <2>1. ASSUME NEW m \in S PROVE Above(m) \in FiniteSubsetsOf(S)
    <3>1. Above(m) \in SUBSET S
      OBVIOUS
    <3> QED
      BY <1>1, <3>1, FS_Subset DEF FiniteSubsetsOf
  <2> QED
    BY <2>1
<1>3. PICK A \in T : \A B \in T : <<B, A>> \notin StrictSubsetOrdering(S)
  <2> HIDE DEF T
  <2> QED
    BY <1>2, FS_StrictSubsetOrderingWellFounded, WFMin
<1>4. PICK m \in S : A = Above(m)
  BY <1>3
<1>5. ASSUME NEW y \in S, y > m PROVE FALSE
  <2>1. Above(y) \in T
    OBVIOUS
  <2>2. y \in Above(m) /\ y \notin Above(y)
    BY <1>5
  <2>3. ASSUME NEW x \in Above(y) PROVE x \in Above(m)
    BY <1>5
  <2> QED
    BY <1>3, <1>4, <2>1, <2>2, <2>3 DEF StrictSubsetOrdering
<1>6. \A y \in S : m >= y
  BY <1>5
<1> QED
  BY <1>6 DEF Max

\* Pages that are claimed were free or lie beyond the end, with no gap.
LEMMA ClaimedPages ==
    ASSUME NEW d, DiskOK(d), NEW n \in Nat, NEW pages \in Claims(d, n)
    PROVE  /\ pages \subseteq 0 .. d.num + n
           /\ \A p \in pages : p \in d.free \/ p >= d.num
           /\ \A p \in pages : \A q \in d.num .. p : q \in pages
           /\ n = 0 => pages = {}
           /\ n > 0 => pages # {}
<1>1. IsFiniteSet(d.free) /\ d.free \subseteq 1 .. d.num - 1 /\ d.num \in Nat
  <2>1. d.free \subseteq 1 .. d.num - 1 /\ d.num \in Nat
    BY DEF DiskOK
  <2>2. IsFiniteSet(1 .. d.num - 1)
    BY <2>1, FS_Interval
  <2> QED
    BY <2>1, <2>2, FS_Subset
<1>2. Cardinality(d.free) \in Nat
  BY <1>1, FS_CardinalityType
<1>3. CASE n <= Cardinality(d.free)
  <2>1. pages \subseteq d.free /\ Cardinality(pages) = n
    BY <1>3 DEF Claims, kSubset
  <2>2. IsFiniteSet(pages)
    BY <1>1, <2>1, FS_Subset
  <2>3. n = 0 <=> pages = {}
    BY <2>1, <2>2, FS_EmptySet
  <2> QED
    BY <1>1, <2>1, <2>3
<1>4. CASE n > Cardinality(d.free)
  <2>1. pages = d.free \cup (d.num .. d.num + (n - Cardinality(d.free)) - 1)
    BY <1>2, <1>4 DEF Claims
  <2>2. d.num \in pages
    BY <1>1, <1>2, <1>4, <2>1
  <2> QED
    BY <1>1, <1>2, <1>4, <2>1, <2>2
<1> QED
  BY <1>2, <1>3, <1>4

\* Claiming pages takes them off the free list or grows the file; no tree moves.
LEMMA ClaimedDisk ==
    ASSUME NEW d, DiskOK(d), NEW n \in Nat, NEW pages \in Claims(d, n)
    PROVE  LET e == Claimed(d, pages) IN
           /\ e.num \in Nat /\ e.num >= d.num
           /\ e = [num |-> e.num, free |-> d.free \ pages, trees |-> d.trees]
           /\ pages \subseteq 0 .. e.num - 1
           /\ d.num .. e.num - 1 \subseteq pages
<1> DEFINE S == {d.num} \cup {p + 1 : p \in pages}
           e == Claimed(d, pages)
<1>1. d \in [num : Nat, free : SUBSET Nat, trees : SUBSET Trees]
      /\ d.free \subseteq 1 .. d.num - 1
  BY DEF DiskOK
<1>2. /\ pages \subseteq 0 .. d.num + n
      /\ \A p \in pages : p \in d.free \/ p >= d.num
      /\ \A p \in pages : \A q \in d.num .. p : q \in pages
  BY ClaimedPages
<1>3. S \subseteq 0 .. d.num + n + 1 /\ S # {}
  BY <1>1, <1>2
<1>4. Max(S) \in S /\ \A y \in S : Max(S) >= y
  <2>1. d.num + n + 1 \in Nat
    BY <1>1
  <2> HIDE DEF S
  <2> QED
    BY <1>3, <2>1, MaxIsGreatest
<1>5. e = [num |-> Max(S), free |-> d.free \ pages, trees |-> d.trees]
  <2>1. e = [d EXCEPT !.free = d.free \ pages, !.num = Max(S)]
    BY DEF Claimed
  <2>2. DOMAIN d = {"num", "free", "trees"}
    BY <1>1
  <2> HIDE DEF e, S
  <2> QED
    BY <1>1, <2>1, <2>2
<1>6. /\ Max(S) \in Nat /\ Max(S) >= d.num
      /\ pages \subseteq 0 .. Max(S) - 1
      /\ d.num .. Max(S) - 1 \subseteq pages
  <2> DEFINE b == Max(S)
  <2>1. b \in Nat /\ b >= d.num /\ d.num \in Nat
    BY <1>1, <1>3, <1>4
  <2>2. ASSUME NEW p \in pages PROVE p \in 0 .. b - 1
    <3>1. p + 1 \in S /\ p \in Nat
      BY <1>1, <1>2
    <3> HIDE DEF S
    <3> QED
      BY <1>4, <2>1, <3>1
  <2>3. ASSUME NEW q \in d.num .. b - 1 PROVE q \in pages
    <3>1. b # d.num
      BY <2>1
    <3>2. b \in S
      BY <1>4
    <3> HIDE DEF b
    <3>3. PICK p \in pages : b = p + 1
      BY <3>1, <3>2
    <3> QED
      BY <1>1, <1>2, <2>1, <3>3
  <2> QED
    BY <2>1, <2>2, <2>3
<1> QED
  BY <1>5, <1>6

\* There is one tree at a root.
LEMMA TreeOfRoot ==
    ASSUME NEW d, DiskOK(d), NEW t \in d.trees
    PROVE  TreesAt(d, t.root) = {t} /\ TreeAt(d, t.root) = t
<1>1. \A u \in d.trees : u.root = t.root => u = t
  BY DEF DiskOK
<1>2. TreesAt(d, t.root) = {t}
  BY <1>1 DEF TreesAt
<1> QED
  BY <1>2 DEF TreeAt

\* The root of a live tree names that tree alone ...
LEMMA LiveTreeIsAlive ==
    ASSUME NEW d, DiskOK(d), NEW r, LiveTree(d, r)
    PROVE  /\ TreeAt(d, r) \in Alive(d) /\ TreeAt(d, r) \in Trees
           /\ TreeAt(d, r).root = r /\ r \in TreeAt(d, r).pages
<1>1. PICK t \in TreesAt(d, r) : t.pages \cap d.free = {}
  BY DEF LiveTree
<1>2. t \in d.trees /\ t.root = r
  BY <1>1 DEF TreesAt
<1>3. TreeAt(d, r) = t
  BY <1>2, TreeOfRoot
<1> QED
  BY <1>1, <1>2, <1>3 DEF Alive, DiskOK

\* ... and a tree none of whose pages is free is the live tree of its root.
LEMMA AliveIsLive ==
    ASSUME NEW d, DiskOK(d), NEW t \in Alive(d)
    PROVE  LiveTree(d, t.root) /\ TreeAt(d, t.root) = t
<1>1. t \in d.trees /\ TreesAt(d, t.root) = {t} /\ TreeAt(d, t.root) = t
  BY TreeOfRoot DEF Alive
<1> QED
  BY <1>1 DEF LiveTree, Alive

\* Tree t is written to fresh pages and to those of a live tree that it
\* replaces; kept are the pages of that tree, if any.
Puts(d, e, t, kept) ==
    /\ t \in Trees /\ t.root \in t.pages
    /\ kept \subseteq t.pages
    /\ kept = {} \/ \E u \in Alive(d) : u.pages = kept
    /\ \A p \in t.pages \ kept : p \in d.free \/ p >= d.num
    /\ e \in [num : Nat, free : SUBSET Nat, trees : SUBSET Trees]
    /\ e.num >= d.num /\ t.pages \subseteq 0 .. e.num - 1
    /\ d.num .. e.num - 1 \subseteq t.pages
    /\ e.free = d.free \ t.pages
    /\ e.trees = {u \in d.trees : u.pages \cap t.pages = {}} \cup {t}

\* A tree written over freshly claimed pages, and over one live tree or none,
\* leaves every other tree as it was.
LEMMA WriteClaimed ==
    ASSUME NEW d, DiskOK(d), NEW n \in Nat, NEW pages \in Claims(d, n),
           NEW t \in Trees, t.root \in t.pages,
           NEW kept, kept = {} \/ \E u \in Alive(d) : u.pages = kept,
           t.pages = kept \cup pages
    PROVE  Puts(d, Write(Claimed(d, pages), t), t, kept)
<1> DEFINE c == Claimed(d, pages)
           e == Write(c, t)
<1>1. d \in [num : Nat, free : SUBSET Nat, trees : SUBSET Trees]
      /\ \A u \in d.trees : u.pages \subseteq 0 .. d.num - 1
  BY DEF DiskOK
<1>2. /\ c.num \in Nat /\ c.num >= d.num
      /\ c = [num |-> c.num, free |-> d.free \ pages, trees |-> d.trees]
      /\ pages \subseteq 0 .. c.num - 1
      /\ d.num .. c.num - 1 \subseteq pages
  BY ClaimedDisk
<1>3. \A p \in pages : p \in d.free \/ p >= d.num
  BY ClaimedPages
<1>4. e = [num |-> c.num, free |-> d.free \ pages,
           trees |-> {u \in d.trees : u.pages \cap t.pages = {}} \cup {t}]
  <2>1. e = [c EXCEPT !.trees = {u \in c.trees : u.pages \cap t.pages = {}} \cup {t}]
    BY DEF Write
  <2>2. c.trees = d.trees
    <3> HIDE DEF c
    <3> QED
      BY <1>2
  <2> DEFINE w == {u \in d.trees : u.pages \cap t.pages = {}} \cup {t}
  <2>3. e = [c EXCEPT !.trees = w]
    BY <2>1, <2>2
  <2> HIDE DEF c, e, w
  <2>4. PICK N : N = c.num /\ c = [num |-> N, free |-> d.free \ pages, trees |-> d.trees]
    BY <1>2
  <2>5. e = [num |-> c.num, free |-> d.free \ pages, trees |-> w]
    BY <2>3, <2>4, SMTT(60)
  <2> QED
    BY <2>5 DEF w
<1>5. kept \subseteq 0 .. d.num - 1 /\ kept \cap d.free = {}
  BY <1>1 DEF Alive
<1>6. e.num = c.num /\ e.free = d.free \ pages
      /\ e.trees = {u \in d.trees : u.pages \cap t.pages = {}} \cup {t}
  <2> HIDE DEF c, e
  <2> QED
    BY <1>4
<1>7. e \in [num : Nat, free : SUBSET Nat, trees : SUBSET Trees]
  <2> HIDE DEF c, e
  <2> QED
    BY <1>1, <1>2, <1>4
<1>8. t.pages \subseteq 0 .. c.num - 1
  BY <1>1, <1>2, <1>5
<1>9. d.free \ pages = d.free \ t.pages
  BY <1>5
<1> HIDE DEF c, e
<1>10. Puts(d, e, t, kept)
  BY <1>1, <1>2, <1>3, <1>5, <1>6, <1>7, <1>8, <1>9 DEF Puts
<1> QED
  BY <1>10 DEF e, c

\* The trees left alone stay, and the new one is whole.
LEMMA PutDisk ==
    ASSUME NEW d, DiskOK(d), NEW e, NEW t, NEW kept, Puts(d, e, t, kept)
    PROVE  /\ DiskOK(e) /\ t \in Alive(e)
           /\ \A u \in Alive(d) : u.pages \cap kept = {} =>
                 u \in Alive(e) /\ u.pages \cap t.pages = {}
           /\ \A u \in Alive(e) : u = t \/ u \in d.trees
           /\ e.free \subseteq d.free /\ e.num >= d.num /\ e.num \in Nat
<1>1. /\ d \in [num : Nat, free : SUBSET Nat, trees : SUBSET Trees]
      /\ d.free \subseteq 1 .. d.num - 1
      /\ \A u \in d.trees : u.root \in u.pages /\ u.pages \subseteq 0 .. d.num - 1
      /\ \A u, v \in d.trees : u.pages \cap v.pages # {} => u = v
      /\ \A u \in d.trees : u.pages \cap d.free = {} \/ u.pages \subseteq d.free
  BY DEF DiskOK
<1>2. /\ t \in Trees /\ t.root \in t.pages
      /\ kept = {} \/ \E u \in Alive(d) : u.pages = kept
      /\ \A p \in t.pages \ kept : p \in d.free \/ p >= d.num
      /\ e \in [num : Nat, free : SUBSET Nat, trees : SUBSET Trees]
      /\ e.num >= d.num /\ t.pages \subseteq 0 .. e.num - 1
      /\ e.free = d.free \ t.pages
      /\ e.trees = {u \in d.trees : u.pages \cap t.pages = {}} \cup {t}
  BY DEF Puts
<1>3. DiskOK(e)
  <2>1. e.free \subseteq 1 .. e.num - 1
    BY <1>1, <1>2
  <2>2. \A u \in e.trees : u.root \in u.pages /\ u.pages \subseteq 0 .. e.num - 1
    <3>1. 0 .. d.num - 1 \subseteq 0 .. e.num - 1
      BY <1>1, <1>2
    <3> QED
      BY <1>1, <1>2, <3>1
  <2>3. \A u, v \in e.trees : u.pages \cap v.pages # {} => u = v
    BY <1>1, <1>2
  <2>4. \A u \in e.trees : u.pages \cap e.free = {} \/ u.pages \subseteq e.free
    BY <1>1, <1>2
  <2> QED
    BY <1>2, <2>1, <2>2, <2>3, <2>4 DEF DiskOK
<1>4. t \in Alive(e)
  BY <1>2 DEF Alive
<1>5. ASSUME NEW u \in Alive(d), u.pages \cap kept = {}
      PROVE  u \in Alive(e) /\ u.pages \cap t.pages = {}
  <2>1. u.pages \cap t.pages = {}
    <3>1. ASSUME NEW p \in u.pages, p \in t.pages PROVE FALSE
      <4>1. p \in d.free \/ p >= d.num
        BY <1>2, <1>5, <3>1
      <4>2. p \in 0 .. d.num - 1 /\ p \notin d.free
        BY <1>1, <3>1 DEF Alive
      <4> QED
        BY <1>1, <4>1, <4>2
    <3> QED
      BY <3>1
  <2> QED
    BY <1>2, <2>1 DEF Alive
<1> QED
  BY <1>2, <1>3, <1>4, <1>5 DEF Alive

\* A catalog stays sound when one of its trees, or none, is replaced.
LEMMA PutCatalog ==
    ASSUME NEW d, DiskOK(d), NEW e, NEW t, NEW kept, Puts(d, e, t, kept),
           NEW shape, Sound(d, shape),
           \A i \in DOMAIN shape :
              \/ TreeAt(d, shape[i].root).pages \cap kept = {}
              \/ /\ TreeAt(d, shape[i].root).pages = kept
                 /\ t.root = shape[i].root /\ t.width = shape[i].width
    PROVE  /\ Sound(e, shape)
           /\ \A i \in DOMAIN shape :
                 TreeAt(e, shape[i].root) =
                    IF TreeAt(d, shape[i].root).pages = kept THEN t
                    ELSE TreeAt(d, shape[i].root)
<1> DEFINE Old(i) == TreeAt(d, shape[i].root)
           New(i) == TreeAt(e, shape[i].root)
<1>1. /\ DiskOK(e) /\ t \in Alive(e)
      /\ \A u \in Alive(d) : u.pages \cap kept = {} =>
            u \in Alive(e) /\ u.pages \cap t.pages = {}
  BY PutDisk
<1>2. ASSUME NEW i \in DOMAIN shape
      PROVE  Old(i) \in Alive(d) /\ Old(i).root = shape[i].root
             /\ shape[i].root \in Old(i).pages /\ Old(i).width = shape[i].width
  BY LiveTreeIsAlive DEF Sound, LivePageMap
<1>3. ASSUME NEW i \in DOMAIN shape, Old(i).pages = kept
      PROVE  LiveTree(e, shape[i].root) /\ New(i) = t /\ t.width = shape[i].width
  <2>1. t.root = shape[i].root /\ t.width = shape[i].width
    BY <1>2, <1>3
  <2> QED
    BY <1>1, <2>1, AliveIsLive
<1>4. ASSUME NEW i \in DOMAIN shape, Old(i).pages # kept
      PROVE  LiveTree(e, shape[i].root) /\ New(i) = Old(i)
             /\ Old(i).pages \cap t.pages = {}
  <2>1. Old(i) \in Alive(e) /\ Old(i).pages \cap t.pages = {}
    BY <1>1, <1>2, <1>4
  <2> QED
    BY <1>1, <1>2, <2>1, AliveIsLive
<1>5. \A i, j \in DOMAIN shape : i < j => Old(i).pages \cap Old(j).pages = {}
  BY DEF Sound, LivePageMap
<1>6. LivePageMap(e, shape)
  <2>1. ASSUME NEW i \in DOMAIN shape, NEW j \in DOMAIN shape, i < j
        PROVE  New(i).pages \cap New(j).pages = {}
    <3>1. Old(i).pages \cap Old(j).pages = {}
      BY <1>5, <2>1
    <3>2. ~ (Old(i).pages = kept /\ Old(j).pages = kept)
      BY <1>2, <3>1
    <3> HIDE DEF Old, New
    <3> QED
      BY <1>3, <1>4, <3>1, <3>2
  <2> QED
    BY <1>3, <1>4, <2>1 DEF LivePageMap
<1>7. \A i \in DOMAIN shape : New(i).width = shape[i].width
  BY <1>2, <1>3, <1>4
<1> QED
  BY <1>3, <1>4, <1>6, <1>7 DEF Sound

----------------------------------------------------------------------------
(* Catalogs and manifests                                                  *)

\* A sound catalog passes the checks of the loader: its roots are structural ...
LEMMA SoundRoots ==
    ASSUME NEW d, NEW shape, Sound(d, shape)
    PROVE  StructuralRoots(d, shape) /\ LivePageMap(d, shape)
BY DEF Sound, LivePageMap, LiveTree, StructuralRoots

\* ... and distinct (multitable_catalog_load in schema_catalog_guard.c).
LEMMA SoundDistinct ==
    ASSUME NEW d, DiskOK(d), NEW shape, Sound(d, shape)
    PROVE  DistinctRoots(shape)
<1>1. ASSUME NEW i \in DOMAIN shape
      PROVE  shape[i].root \in TreeAt(d, shape[i].root).pages
  BY LiveTreeIsAlive DEF Sound, LivePageMap
<1> QED
  BY <1>1 DEF Sound, LivePageMap, DistinctRoots

\* Pages of a live catalog are in the file and not free.
LEMMA LivePagesInUse ==
    ASSUME NEW d, DiskOK(d), NEW shape, Sound(d, shape)
    PROVE  /\ LivePages(d, shape) \subseteq 0 .. d.num - 1
           /\ LivePages(d, shape) \cap d.free = {}
           /\ \A i \in DOMAIN shape : shape[i].root \in LivePages(d, shape)
<1>1. ASSUME NEW i \in DOMAIN shape
      PROVE  LET t == TreeAt(d, shape[i].root) IN
             t \in d.trees /\ t.pages \cap d.free = {} /\ shape[i].root \in t.pages
  BY LiveTreeIsAlive DEF Sound, LivePageMap, Alive
<1> QED
  BY <1>1 DEF LivePages, DiskOK

\* The catalog file may lack the newest tables: a prefix of a sound catalog is
\* sound ...
LEMMA PrefixSound ==
    ASSUME NEW d, NEW c, Sound(d, c), NEW s \in Shapes, Len(s) >= 1, Extends(c, s)
    PROVE  /\ Sound(d, s)
           /\ LivePages(d, s) \subseteq LivePages(d, c)
           /\ \A rows, over : Complete(d, c, rows, over) =>
                 (\A i \in DOMAIN s : i \in over \/ TreeAt(d, s[i].root).rows = rows[i])
<1>1. DOMAIN s \subseteq DOMAIN c /\ \A i \in DOMAIN s : c[i] = s[i]
  BY DEF Extends, Sound, Shapes
<1>2. 1 \in DOMAIN s
  BY DEF Shapes
<1>3. LivePageMap(d, s)
  BY <1>1 DEF Sound, LivePageMap
<1>4. Sound(d, s)
  BY <1>1, <1>2, <1>3 DEF Sound
<1> QED
  BY <1>1, <1>4 DEF LivePages, Complete

\* ... a prefix of a complete one complete ...
LEMMA PrefixComplete ==
    ASSUME NEW d, NEW c, Sound(d, c), NEW s \in Shapes, Len(s) >= 1, Extends(c, s),
           NEW rows \in Seq(Nat), NEW over, Complete(d, c, rows, over)
    PROVE  Complete(d, s, rows, over)
<1>1. Len(s) <= Len(rows)
  BY DEF Complete, Extends, Sound, Shapes
<1> QED
  BY <1>1, PrefixSound DEF Complete

\* ... and a manifest that one decides the other decides.
LEMMA PrefixDecidable ==
    ASSUME NEW d, NEW c, Sound(d, c), NEW f, Shape(f) \in Shapes, Len(Shape(f)) >= 1,
           Extends(c, Shape(f)), NEW m, Decidable(d, m, c, GensOf(f, c))
    PROVE  Decidable(d, m, Shape(f), GensOf(f, Shape(f)))
<1> DEFINE s == Shape(f)
<1>1. DOMAIN s \subseteq DOMAIN c /\ \A i \in DOMAIN s : c[i] = s[i]
  BY DEF Extends, Sound, Shapes
<1>2. LivePages(d, s) \subseteq LivePages(d, c)
  BY PrefixSound
<1>3. ASSUME NEW i \in DOMAIN s
      PROVE  GensOf(f, c)[i] = GensOf(f, s)[i]
  BY <1>1 DEF GensOf
<1> HIDE DEF s
<1> QED
  BY <1>1, <1>2, <1>3 DEF Decidable, s

\* The fresh pages of a new tree belong to no manifest.
LEMMA PutBound ==
    ASSUME NEW d, DiskOK(d), NEW e, NEW t, NEW kept, Puts(d, e, t, kept),
           NEW shape, Sound(d, shape),
           \A i \in DOMAIN shape :
              \/ TreeAt(d, shape[i].root).pages \cap kept = {}
              \/ /\ TreeAt(d, shape[i].root).pages = kept
                 /\ t.root = shape[i].root /\ t.width = shape[i].width,
           kept \subseteq LivePages(d, shape),
           NEW m, NEW g, Bound(d, m, shape, g)
    PROVE  /\ Bound(e, m, shape, g)
           /\ m.table \in DOMAIN shape /\ g[m.table] = m.gen =>
                 \A s \in e.trees : s.root = m.staged => s \in Alive(d)
<1>1. /\ DiskOK(e) /\ e.free \subseteq d.free /\ e.num >= d.num /\ e.num \in Nat
      /\ \A u \in Alive(d) : u.pages \cap kept = {} =>
            u \in Alive(e) /\ u.pages \cap t.pages = {}
      /\ t \in Alive(e)
      /\ \A i \in DOMAIN shape :
            TreeAt(e, shape[i].root) = IF TreeAt(d, shape[i].root).pages = kept
                                       THEN t ELSE TreeAt(d, shape[i].root)
  BY PutDisk, PutCatalog
<1>2. d.num \in Nat
  BY DEF DiskOK
<1>3. ManifestOK(e, m)
  BY <1>1, <1>2 DEF Bound, ManifestOK
<1>4. Kept(e, m, shape)
  BY <1>1 DEF Bound, Kept
<1>5. LivePages(e, shape) \subseteq LivePages(d, shape) \cup t.pages
  BY <1>1 DEF LivePages
<1>6. \A p \in t.pages \ kept : p \in d.free \/ p >= d.num
  BY DEF Puts
<1>7. m.table \in DOMAIN shape /\ m.claims \subseteq 1 .. d.num - 1
      /\ m.claims \cap d.free = {} /\ m.staged \in m.claims
  BY DEF Bound, Kept, ManifestOK
<1>8. ASSUME g[m.table] = m.gen
      PROVE  /\ m.claims \cap LivePages(e, shape) = {} /\ StagedTree(e, m)
             /\ \A s \in e.trees : s.root = m.staged => s \in Alive(d)
  <2>1. m.claims \cap LivePages(d, shape) = {} /\ StagedTree(d, m)
    BY <1>7, <1>8 DEF Bound, Decidable
  <2>2. m.claims \cap t.pages = {}
    BY <1>2, <1>6, <1>7, <2>1
  <2>3. PICK s \in d.trees : s.root = m.staged /\ s.pages = m.claims
    BY <2>1 DEF StagedTree
  <2>4. s \in Alive(d) /\ s.pages \cap kept = {}
    BY <1>7, <2>1, <2>3 DEF Alive
  <2>5. s \in Alive(e)
    BY <1>1, <2>4
  <2>6. ASSUME NEW u \in e.trees, u.root = m.staged PROVE u = s
    BY <1>1, <2>3, <2>5, <2>6 DEF DiskOK, Alive
  <2> QED
    BY <1>5, <2>1, <2>2, <2>3, <2>4, <2>5, <2>6 DEF StagedTree, Alive
<1>9. Decidable(e, m, shape, g)
  BY <1>7, <1>8 DEF Bound, Decidable
<1> QED
  BY <1>3, <1>4, <1>8, <1>9 DEF Bound

----------------------------------------------------------------------------
(* The catalog that lasts                                                  *)

\* A good catalog file decodes, to a catalog that is not empty.
LEMMA FileShape ==
    ASSUME NEW f, f = Absent \/ FileOK(f)
    PROVE  /\ Shape(f) \in Shapes /\ Len(Shape(f)) >= 1
           /\ f \notin {Torn, Short}
           /\ f # Absent => f \in CatalogFiles /\ Decodes(f) /\ Shape(f) = f.shape
           /\ IsV3(f) => FileOK(f) /\ f.fmt = "v3" /\ Shape(f) = f.shape
           /\ f # Absent /\ f.fmt = "v3" => IsV3(f)
<1>1. CASE f = Absent
  <2>1. Default \in Shapes /\ Len(Default) = 1
    BY DEF Default, Shapes, Entries
  <2> QED
    BY <1>1, <2>1, FilesAssumption DEF Shape, IsV3, Decodes
<1>2. CASE FileOK(f)
  <2>1. f \in CatalogFiles /\ Len(f.shape) >= 1
    BY <1>2 DEF FileOK
  <2>2. f \notin {Absent, Torn, Short}
    BY <2>1, FilesAssumption
  <2>3. f.shape \in Shapes
    BY <2>1 DEF CatalogFiles
  <2> QED
    BY <1>2, <2>1, <2>2, <2>3 DEF Shape, IsV3, Decodes
<1> QED
  BY <1>1, <1>2

\* The catalog that lasts is the log's if there is a complete log, else the file's.
LEMMA LastingFile ==
    ASSUME FilesInv
    PROVE  /\ Lasting = Absent \/ FileOK(Lasting)
           /\ Lasting = IF wal \in {Absent, Torn} THEN main ELSE wal
           /\ Committed(wal) <=> wal \notin {Absent, Torn}
           /\ Decodes(wal) <=> Committed(wal)
<1>1. wal \in {Absent, Torn} => ~ Decodes(wal)
  BY DEF Decodes
<1>2. wal \notin {Absent, Torn} => FileOK(wal) /\ Committed(wal) /\ Decodes(wal)
  BY DEF FilesInv, Committed
<1>3. Committed(wal) => Decodes(wal)
  BY DEF Committed
<1> QED
  BY <1>1, <1>2, <1>3 DEF FilesInv, Lasting

\* Whenever a running process dies, what it leaves is good for the next open.
LEMMA RunningAtRest ==
    ASSUME Inv, ~behind, step \in Running
    PROVE  AtRest
<1>1. FilesInv /\ InUse
  BY DEF Inv, StepInv
<1>2. Shape(Lasting) \in Shapes /\ Len(Shape(Lasting)) >= 1
  BY <1>1, LastingFile, FileShape
<1>3. Extends(Base, Shape(Lasting)) /\ Sound(disk, Base)
      /\ Complete(disk, Base, stored, overtaken) /\ stored \in Seq(Nat)
  BY <1>1 DEF InUse, Intact, FilesInv
<1>4. Intact(Shape(Lasting))
  BY <1>2, <1>3, PrefixSound, PrefixComplete DEF Intact
<1>5. ASSUME NEW m \in Pending
      PROVE  /\ ManifestOK(disk, m)
             /\ Decidable(disk, m, Shape(Lasting), GensOf(Lasting, Shape(Lasting)))
  <2>1. Bound(disk, m, Base, GensOf(Lasting, Base))
    BY <1>1 DEF InUse
  <2> QED
    BY <1>2, <1>3, <2>1, PrefixDecidable DEF Bound
<1> QED
  BY <1>4, <1>5 DEF AtRest

----------------------------------------------------------------------------
(* Opening                                                                 *)

\* A step that leaves the lasting catalog and the trees alone.
LEMMA RestStays ==
    ASSUME AtRest, disk' = disk, Lasting' = Lasting, Pending' \subseteq Pending,
           UNCHANGED <<stored, overtaken>>
    PROVE  AtRest'
BY DEF AtRest, Intact

\* The open reads the log, and drops one that is torn.
LEMMA ReadLogStep ==
    ASSUME Inv, ~behind, ReadLog
    PROVE  Inv'
<1> USE DEF files, handle, ghosts
<1>1. FilesInv /\ StepInv /\ DiskOK(disk) /\ AtRest /\ prepared = Absent
      /\ step # "sync unlink"
  BY DEF Inv, StepInv, ReadLog, Running, Saving, Marking
<1>2. CASE Committed(wal)
  <2>1. step' = "copy log" /\ UNCHANGED <<disk, main, wal, manifest, durable, prepared, stored, overtaken, behind>>
    BY <1>2 DEF ReadLog
  <2>2. Lasting' = Lasting /\ Committed(wal)' /\ Pending' = Pending
    BY <1>2, <2>1 DEF Lasting, Committed, Pending
  <2>3. AtRest' /\ FilesInv' /\ Decodes(wal')
    BY <1>1, <1>2, <2>1, <2>2, RestStays DEF FilesInv, Committed
  <2> QED
    BY <1>1, <2>1, <2>3 DEF Inv, StepInv, Running, Saving, Marking, Opening
<1>3. CASE ~ Committed(wal)
  <2>1. step' = "load" /\ wal' = Absent
        /\ UNCHANGED <<prepared, disk, main, manifest, durable, stored, overtaken, behind>>
    BY <1>3 DEF ReadLog
  <2>2. Lasting' = Lasting /\ Pending' = Pending
    BY <1>3, <2>1 DEF Lasting, Committed, Pending, Decodes
  <2>3. AtRest' /\ FilesInv'
    BY <1>1, <2>1, <2>2, RestStays DEF FilesInv
  <2> QED
    BY <1>1, <2>1, <2>3 DEF Inv, StepInv, Running, Saving, Marking, Opening
<1> QED
  BY <1>2, <1>3

\* A complete log is copied over the catalog file ...
LEMMA CopyLogStep ==
    ASSUME Inv, ~behind, CopyLog
    PROVE  Inv'
<1> USE DEF files, handle, ghosts
<1>1. FilesInv /\ DiskOK(disk) /\ AtRest /\ Decodes(wal) /\ prepared = Absent
      /\ step # "sync unlink"
  BY DEF Inv, StepInv, CopyLog, Running, Saving, Marking
<1>2. step' = "drop log" /\ main' = wal
      /\ UNCHANGED <<prepared, disk, wal, manifest, durable, stored, overtaken, behind>>
  BY DEF CopyLog
<1>3. Committed(wal) /\ Lasting = wal /\ FileOK(wal)
  BY <1>1, LastingFile DEF FilesInv
<1>4. Lasting' = Lasting /\ Pending' = Pending /\ Committed(wal)'
  BY <1>2, <1>3 DEF Lasting, Committed, Pending
<1>5. AtRest'
  BY <1>1, <1>2, <1>4, RestStays
<1>6. FilesInv'
  BY <1>1, <1>2, <1>3, <1>4 DEF FilesInv
<1> QED
  BY <1>1, <1>2, <1>5, <1>6 DEF Inv, StepInv, Running, Saving, Marking, Opening

\* ... and removed: the file says the same.
LEMMA DropLogStep ==
    ASSUME Inv, ~behind, DropLog
    PROVE  Inv'
<1> USE DEF files, handle, ghosts
<1>1. FilesInv /\ DiskOK(disk) /\ AtRest /\ Decodes(wal) /\ main = wal /\ prepared = Absent
      /\ step # "sync unlink"
  BY DEF Inv, StepInv, DropLog, Running, Saving, Marking
<1>2. step' = "load" /\ wal' = Absent
      /\ UNCHANGED <<prepared, disk, main, manifest, durable, stored, overtaken, behind>>
  BY DEF DropLog
<1>3. Committed(wal) /\ Lasting = wal
  BY <1>1, LastingFile
<1>4. Lasting' = Lasting /\ Pending' = Pending
  BY <1>1, <1>2, <1>3 DEF Lasting, Committed, Pending, Decodes
<1>5. AtRest' /\ FilesInv'
  BY <1>1, <1>2, <1>4, RestStays DEF FilesInv
<1> QED
  BY <1>1, <1>2, <1>5 DEF Inv, StepInv, Running, Saving, Marking, Opening, DropLog

\* Without a log the main file is the catalog that lasts.
LEMMA NoLog ==
    ASSUME FilesInv, wal = Absent
    PROVE  Lasting = main /\ (main = Absent \/ FileOK(main))
BY LastingFile

\* The catalog loaded is the one that lasts.
LEMMA LoadStep ==
    ASSUME Inv, ~behind, Load
    PROVE  Inv'
<1> USE DEF files, handle, ghosts
<1>1. FilesInv /\ DiskOK(disk) /\ AtRest /\ wal = Absent /\ prepared = Absent
      /\ step # "sync unlink"
  BY DEF Inv, StepInv, Load, Running, Saving, Marking
<1>2. catalog' = Shape(main) /\ step' = (IF manifest = Absent THEN "open" ELSE "check manifest")
      /\ UNCHANGED <<disk, main, wal, manifest, durable, prepared, stored, overtaken, behind>>
  BY DEF Load
<1>3. Lasting = main /\ (main = Absent \/ FileOK(main))
  BY <1>1, NoLog
<1>4. Lasting' = Lasting /\ Pending' = Pending
  BY <1>2 DEF Lasting, Committed, Pending
<1>5. AtRest' /\ FilesInv'
  BY <1>1, <1>2, <1>4, RestStays DEF FilesInv, Committed
<1>6. CASE manifest # Absent
  BY <1>1, <1>2, <1>5, <1>6 DEF Inv, StepInv, Running, Saving, Marking, Opening
<1>7. CASE manifest = Absent
  <2>1. step' = "open" /\ Base' = Shape(Lasting)' /\ Pending' = {}
    BY <1>1, <1>2, <1>3, <1>4, <1>7 DEF Base, Pending, FilesInv
  <2>3. Extends(Base', Shape(Lasting'))
    BY <2>1 DEF Extends
  <2>4. Intact(Base)'
    BY <1>5, <2>1 DEF AtRest, Intact
  <2>5. NotAhead'
    <3>1. main' = main /\ Lasting' = main
      BY <1>2, <1>3, <1>4
    <3>2. IsV3(main) => \A i \in DOMAIN main.shape : main.gens[i] \in Nat
      BY <1>3, FileShape DEF FileOK, CatalogFiles, Shapes
    <3> QED
      BY <1>3, <3>1, <3>2, FileShape DEF NotAhead, CatalogFiles, Shapes
  <2>6. InUse'
    BY <1>2, <1>1, <2>1, <2>3, <2>4, <2>5 DEF InUse, PreparedInv
  <2> QED
    BY <1>1, <1>2, <1>5, <2>1, <2>6 DEF Inv, StepInv, Running, Saving, Marking, Opening
<1> QED
  BY <1>6, <1>7

\* No catalog that the program or its death leaves behind is refused by the loader.
LEMMA LoadRefusedNever ==
    ASSUME Inv, ~behind, LoadRefused
    PROVE  FALSE
<1>1. FilesInv /\ DiskOK(disk) /\ AtRest /\ wal = Absent
  BY DEF Inv, StepInv, LoadRefused, Running, Saving, Marking
<1>2. Lasting = main /\ (main = Absent \/ FileOK(main))
  BY <1>1, NoLog
<1>3. Sound(disk, Shape(main))
  BY <1>1, <1>2 DEF AtRest, Intact
<1>4. main \notin {Torn, Short}
  BY <1>2, FileShape
<1> QED
  BY <1>1, <1>3, <1>4, SoundRoots, SoundDistinct DEF LoadRefused, Loadable

\* The generations that a migration goes by.
LEMMA AuthoritativeIs ==
    ASSUME main \in {Absent, Short} \/ FileOK(main),
           catalog \in Shapes, Len(catalog) >= 1,
           IsV3(main) => main.shape = catalog
    PROVE  /\ FileOK(Authoritative) /\ Authoritative.fmt = "v3"
           /\ Authoritative.shape = catalog
           /\ \A i \in DOMAIN catalog :
                 /\ Authoritative.ids[i] = i
                 /\ Authoritative.gens[i] = Generation(main, i)
           /\ \A i \in Nat : Slots(Authoritative, i) = {i} \cap DOMAIN catalog
<1>1. DOMAIN catalog = 1 .. Len(catalog) /\ Len(catalog) \in Nat
  BY DEF Shapes
<1>2. CASE IsV3(main)
  <2>1. main # Absent /\ FileOK(main)
    BY <1>2, FilesAssumption DEF IsV3, Decodes
  <2>2. main.fmt = "v3" /\ main.shape = catalog /\ Authoritative = main
    BY <1>2 DEF IsV3, Authoritative
  <2>3. /\ main \in CatalogFiles
        /\ Len(main.ids) = Len(catalog) /\ Len(main.gens) = Len(catalog)
        /\ \A i \in 1 .. Len(catalog) : main.ids[i] = i /\ main.gens[i] >= 1
    BY <2>1, <2>2 DEF FileOK
  <2>4. DOMAIN main.ids = 1 .. Len(catalog)
    BY <2>3 DEF CatalogFiles
  <2> QED
    BY <1>1, <1>2, <2>1, <2>2, <2>3, <2>4 DEF Slots, Generation
<1>3. CASE ~ IsV3(main)
  <2> DEFINE ids == [i \in DOMAIN catalog |-> i]
             gens == First(Len(catalog))
  <2>1. Authoritative = [fmt |-> "v3", shape |-> catalog, ids |-> ids, gens |-> gens]
    BY <1>3 DEF Authoritative, Bootstrap, CatalogFile
  <2>2. ids \in Seq(Nat) /\ Len(ids) = Len(catalog) /\ \A i \in 1 .. Len(catalog) : ids[i] = i
    BY <1>1
  <2>3. gens \in Seq(Nat) /\ Len(gens) = Len(catalog)
        /\ \A i \in 1 .. Len(catalog) : gens[i] = 1
    BY <1>1 DEF First
  <2>4. DOMAIN ids = 1 .. Len(catalog)
    BY <1>1
  <2> HIDE DEF ids, gens
  <2>5. Authoritative \in CatalogFiles
    BY <2>1, <2>2, <2>3 DEF CatalogFiles
  <2> QED
    BY <1>1, <1>3, <2>1, <2>2, <2>3, <2>4, <2>5 DEF FileOK, Slots, Generation
<1> QED
  BY <1>2, <1>3

\* What recovery makes of the manifest that it finds.
LEMMA RecoveryIs ==
    ASSUME Inv, ~behind, step \in {"check manifest", "reclaim"}
    PROVE  LET i == manifest.table IN
           /\ manifest \in Manifests /\ catalog = Shape(Lasting) /\ main = Lasting
           /\ Sound(disk, catalog)
           /\ ManifestOK(disk, manifest)
           /\ Decidable(disk, manifest, catalog, GensOf(main, catalog))
           /\ i \notin DOMAIN catalog => Recovery = "invalid"
           /\ i \in DOMAIN catalog =>
                 /\ GensOf(main, catalog)[i] = Generation(main, i)
                 /\ Recovery = Classified(manifest, catalog[i].root, Generation(main, i))
<1>1. FilesInv /\ DiskOK(disk) /\ AtRest /\ wal = Absent /\ catalog = Shape(main)
      /\ manifest # Absent
  BY DEF Inv, StepInv, Running, Saving, Marking, Opening
<1>2. Lasting = main /\ (main = Absent \/ FileOK(main))
  BY <1>1, NoLog
<1>3. catalog \in Shapes /\ Len(catalog) >= 1 /\ (IsV3(main) => main.shape = catalog)
  BY <1>1, <1>2, FileShape
<1>4. Sound(disk, catalog) /\ ManifestOK(disk, manifest)
      /\ Decidable(disk, manifest, catalog, GensOf(main, catalog))
  BY <1>1, <1>2 DEF AtRest, Intact, Pending
<1>5. manifest.table \in Nat /\ manifest \in Manifests
  BY <1>4 DEF ManifestOK, Manifests
<1>6. \A i \in DOMAIN catalog : GensOf(main, catalog)[i] = Generation(main, i)
  BY <1>1 DEF GensOf
<1>7. /\ Authoritative.shape = catalog
      /\ \A i \in DOMAIN catalog : Authoritative.gens[i] = Generation(main, i)
      /\ Slots(Authoritative, manifest.table) = {manifest.table} \cap DOMAIN catalog
  BY <1>2, <1>3, <1>5, AuthoritativeIs
<1> QED
  BY <1>1, <1>2, <1>4, <1>5, <1>6, <1>7 DEF Recovery

\* A manifest that passes the preflight leads to the reclaim.
LEMMA CheckManifestStep ==
    ASSUME Inv, ~behind, CheckManifest
    PROVE  Inv'
<1> USE DEF files, handle, ghosts
<1>1. FilesInv /\ DiskOK(disk) /\ AtRest /\ wal = Absent /\ prepared = Absent
      /\ manifest # Absent /\ catalog = Shape(main)
  BY DEF Inv, StepInv, CheckManifest, Running, Saving, Marking, Opening
<1>2. step' = "reclaim" /\ Preflight(manifest)
      /\ UNCHANGED <<disk, main, wal, manifest, durable, catalog, prepared, stored,
                     overtaken, behind>>
  BY DEF CheckManifest
<1>3. Lasting' = Lasting /\ Pending' = Pending
  BY <1>2 DEF Lasting, Committed, Pending
<1>4. AtRest' /\ FilesInv'
  BY <1>1, <1>2, <1>3, RestStays, ZenonT(60) DEF FilesInv, Committed
<1>5. Preflight(manifest)'
  BY <1>2 DEF Preflight, Recovery, Authoritative, OldTreeGone, OldTree
<1> QED
  BY <1>1, <1>2, <1>4, <1>5 DEF Inv, StepInv, Running, Saving, Marking, Opening

\* An open that is refused over its manifest.
LEMMA RefuseStep ==
    ASSUME Inv, ~behind, step \in {"check manifest", "reclaim"}, Refuse, Undecidable
    PROVE  Inv'
<1> USE DEF files, handle, ghosts
<1>1. FilesInv /\ DiskOK(disk) /\ AtRest /\ wal = Absent /\ prepared = Absent
      /\ manifest # Absent
  BY DEF Inv, StepInv, Running, Saving, Marking, Opening
<1>2. step' = "refused"
      /\ UNCHANGED <<disk, main, wal, manifest, durable, prepared, stored,
                     overtaken, behind>>
  BY DEF Refuse
<1>3. Lasting' = Lasting /\ Pending' = Pending
  BY <1>2 DEF Lasting, Committed, Pending
<1>4. AtRest' /\ FilesInv'
  BY <1>1, <1>2, <1>3, RestStays DEF FilesInv, Committed
<1>5. Undecidable'
  BY <1>2 DEF Undecidable, Collectable, OldTree
<1> QED
  BY <1>1, <1>2, <1>4, <1>5
  DEF Inv, StepInv, Running, Saving, Marking, Opening, OpenRefusedForCauseOnly

\* A root of the catalog is not the old root of the manifest once the table has
\* gone on, so a tree that can be collected is apart from every live one.
LEMMA CollectableIsApart ==
    ASSUME Inv, ~behind, step \in {"check manifest", "reclaim"},
           Recovery = "reclaim old", Collectable(manifest)
    PROVE  /\ manifest.old \notin LivePages(disk, catalog)
           /\ OldTree(manifest).pages \cap LivePages(disk, catalog) = {}
<1> DEFINE m == manifest
           old == OldTree(m)
<1>1. DiskOK(disk)
  BY DEF Inv
<1>2. /\ Sound(disk, catalog) /\ m.old \notin m.claims /\ m.staged \in m.claims
      /\ \A j \in DOMAIN catalog : j # m.table => catalog[j].root # m.old
      /\ m.table \in DOMAIN catalog
      /\ Recovery = Classified(m, catalog[m.table].root, Generation(main, m.table))
  BY RecoveryIs DEF ManifestOK, Decidable
<1>3. catalog[m.table].root = m.staged
  BY <1>2 DEF Classified
<1>4. \A j \in DOMAIN catalog : catalog[j].root # m.old
  BY <1>2, <1>3
<1>5. old \in Alive(disk) /\ old.root = m.old /\ m.old \in old.pages
  BY <1>1, LiveTreeIsAlive DEF Collectable, OldTree
<1>6. ASSUME NEW j \in DOMAIN catalog
      PROVE  TreeAt(disk, catalog[j].root).pages \cap old.pages = {}
  <2>1. LET t == TreeAt(disk, catalog[j].root) IN
        t \in Alive(disk) /\ t.root = catalog[j].root
    BY <1>1, <1>2, LiveTreeIsAlive DEF Sound, LivePageMap
  <2> QED
    BY <1>1, <1>4, <1>5, <2>1 DEF DiskOK, Alive
<1>7. old.pages \cap LivePages(disk, catalog) = {}
  BY <1>6 DEF LivePages
<1> QED
  BY <1>5, <1>7

\* A manifest is refused only when root and generation decide nothing.
LEMMA ManifestRefusedStep ==
    ASSUME Inv, ~behind, ManifestRefused
    PROVE  Inv'
<1> DEFINE m == manifest
           i == m.table
           gen == Generation(main, i)
<1>1. step = "check manifest" /\ ~ Preflight(m) /\ Refuse
  BY DEF ManifestRefused
<1>2. DiskOK(disk) /\ m # Absent /\ catalog = Shape(main)
  BY <1>1 DEF Inv, StepInv, Opening
<1>3. /\ Sound(disk, catalog) /\ ManifestOK(disk, m)
      /\ Decidable(disk, m, catalog, GensOf(main, catalog))
      /\ i \in DOMAIN catalog =>
            /\ GensOf(main, catalog)[i] = gen
            /\ Recovery = Classified(m, catalog[i].root, gen)
  BY <1>1, RecoveryIs
<1>4. LivePageMap(disk, catalog)
  BY <1>3 DEF Sound
<1>5. CASE i \in DOMAIN catalog /\ gen \in {m.gen, m.gen + 1}
           /\ ~ (catalog[i].root = m.old /\ gen # m.gen)
  <2>1. m.gen \in Nat
    BY <1>3 DEF ManifestOK, Manifests
  <2>2. ASSUME gen = m.gen PROVE FALSE
    <3>1. catalog[i].root = m.old /\ m.phase = "unpublished"
          /\ m.claims \cap LivePages(disk, catalog) = {}
      BY <1>3, <1>5, <2>2 DEF Decidable
    <3>2. Recovery = "reclaim staging"
      BY <1>3, <1>5, <2>2, <3>1 DEF Classified
    <3> QED
      BY <1>1, <1>4, <3>1, <3>2 DEF Preflight
  <2>3. ASSUME gen = m.gen + 1 PROVE Undecidable
    <3>1. catalog[i].root = m.staged
      BY <1>3, <1>5, <2>1, <2>3 DEF Decidable
    <3>2. Recovery = "reclaim old"
      <4>1. gen # m.gen
        BY <2>1, <2>3
      <4> HIDE DEF gen
      <4> QED
        BY <1>3, <1>5, <2>3, <3>1, <4>1 DEF Classified
    <3>3. ~ Collectable(m)
      BY <1>1, <1>4, <3>2, CollectableIsApart DEF Preflight, Collectable
    <3> QED
      BY <1>2, <3>1, <3>3 DEF Undecidable
  <2>4. Undecidable
    BY <1>5, <2>2, <2>3
  <2> QED
    BY <1>1, <2>4, RefuseStep
<1>6. CASE ~ (i \in DOMAIN catalog /\ gen \in {m.gen, m.gen + 1}
              /\ ~ (catalog[i].root = m.old /\ gen # m.gen))
  <2>1. Undecidable
    BY <1>2, <1>6 DEF Undecidable
  <2> QED
    BY <1>1, <2>1, RefuseStep
<1> QED
  BY <1>5, <1>6

\* A tree is not taken apart only when it is no fixed-row tree with exact separators.
LEMMA ReclaimRefusedStep ==
    ASSUME Inv, ~behind, ReclaimRefused
    PROVE  Inv'
<1> DEFINE m == manifest
<1>1. step = "reclaim" /\ ~ Reclaimable(m) /\ Refuse
  BY DEF ReclaimRefused
<1>2. m # Absent /\ catalog = Shape(main) /\ Preflight(m)
  BY <1>1 DEF Inv, StepInv, Opening
<1>3. /\ ManifestOK(disk, m)
      /\ m.table \in DOMAIN catalog =>
            Recovery = Classified(m, catalog[m.table].root, Generation(main, m.table))
      /\ m.table \notin DOMAIN catalog => Recovery = "invalid"
  BY <1>1, RecoveryIs
<1>4. Recovery = "reclaim old" /\ ~ Collectable(m)
  BY <1>1, <1>2, <1>3 DEF Preflight, Reclaimable, ManifestOK
<1>5. catalog[m.table].root = m.staged
  BY <1>3, <1>4 DEF Classified
<1>6. Undecidable
  BY <1>2, <1>4, <1>5 DEF Undecidable
<1> QED
  BY <1>1, <1>6, RefuseStep

\* Whole trees, and no live one, go to the free list.
LEMMA FreeTrees ==
    ASSUME NEW d, DiskOK(d), NEW R, R \subseteq 1 .. d.num - 1,
           \A u \in d.trees : u.pages \cap R = {} \/ u.pages \subseteq R,
           NEW e, e = [d EXCEPT !.free = d.free \cup R],
           NEW shape, Sound(d, shape), R \cap LivePages(d, shape) = {}
    PROVE  /\ DiskOK(e) /\ e.trees = d.trees /\ e.num = d.num
           /\ Sound(e, shape)
           /\ LivePages(e, shape) = LivePages(d, shape)
           /\ \A r : TreeAt(e, r) = TreeAt(d, r)
<1>1. d \in [num : Nat, free : SUBSET Nat, trees : SUBSET Trees]
      /\ d.free \subseteq 1 .. d.num - 1
  BY DEF DiskOK
<1>2. e.trees = d.trees /\ e.num = d.num /\ e.free = d.free \cup R
      /\ e \in [num : Nat, free : SUBSET Nat, trees : SUBSET Trees]
  BY <1>1
<1>3. DiskOK(e)
  BY <1>1, <1>2 DEF DiskOK
<1>4. \A r : TreesAt(e, r) = TreesAt(d, r) /\ TreeAt(e, r) = TreeAt(d, r)
  BY <1>2 DEF TreesAt, TreeAt
<1>5. LivePages(e, shape) = LivePages(d, shape)
  BY <1>4, ZenonT(60) DEF LivePages
<1>6. ASSUME NEW i \in DOMAIN shape PROVE LiveTree(e, shape[i].root)
  <2>1. LET t == TreeAt(d, shape[i].root) IN
        t \in Alive(d) /\ t.root = shape[i].root /\ t.pages \subseteq LivePages(d, shape)
    BY LiveTreeIsAlive DEF Sound, LivePageMap, LivePages
  <2>2. TreeAt(d, shape[i].root) \in Alive(e)
    BY <1>2, <2>1 DEF Alive
  <2> QED
    BY <1>3, <2>1, <2>2, AliveIsLive
<1>7. Sound(e, shape)
  BY <1>4, <1>6 DEF Sound, LivePageMap
<1> QED
  BY <1>2, <1>3, <1>4, <1>5, <1>7

\* What a recovery frees is no live tree: the staged tree before publication,
\* the old one after it.
LEMMA ReclaimStep ==
    ASSUME Inv, ~behind, Reclaim
    PROVE  Inv'
<1> USE DEF files, handle, ghosts
<1> DEFINE m == manifest
           R == Reclaimed(m)
<1>1. FilesInv /\ DiskOK(disk) /\ AtRest /\ wal = Absent /\ prepared = Absent
      /\ m # Absent /\ Preflight(m) /\ step = "reclaim" /\ catalog = Shape(main)
  BY DEF Inv, StepInv, Reclaim, Running, Saving, Marking, Opening
<1>2. /\ Sound(disk, catalog) /\ ManifestOK(disk, m) /\ catalog = Shape(Lasting)
      /\ Decidable(disk, m, catalog, GensOf(main, catalog))
      /\ m.table \notin DOMAIN catalog => Recovery = "invalid"
      /\ m.table \in DOMAIN catalog =>
            /\ GensOf(main, catalog)[m.table] = Generation(main, m.table)
            /\ Recovery = Classified(m, catalog[m.table].root, Generation(main, m.table))
  BY <1>1, RecoveryIs
<1>3. /\ R \subseteq 1 .. disk.num - 1
      /\ R \cap LivePages(disk, catalog) = {}
      /\ \A u \in disk.trees : u.pages \cap R = {} \/ u.pages \subseteq R
  <2>1. CASE Recovery = "reclaim staging"
    <3>1. Generation(main, m.table) = m.gen /\ m.table \in DOMAIN catalog
      BY <1>2, <2>1 DEF Classified
    <3>2. StagedTree(disk, m)
      BY <1>2, <3>1 DEF Decidable
    <3>3. R = m.claims
      BY <2>1 DEF Reclaimed
    <3> QED
      BY <1>1, <1>2, <2>1, <3>2, <3>3, ZenonT(60) DEF Preflight, StagedTree, DiskOK, ManifestOK
  <2>2. CASE Recovery = "reclaim old" /\ ~ OldTreeGone(m)
    <3>1. LiveTree(disk, m.old) /\ R = OldTree(m).pages
          /\ R \cap LivePages(disk, catalog) = {}
      BY <1>1, <2>2 DEF Preflight, Reclaimed
    <3>2. OldTree(m) \in disk.trees
      BY <1>1, <3>1, LiveTreeIsAlive DEF OldTree, Alive
    <3>3. 0 \in LivePages(disk, catalog)
      BY <1>1, <1>2, LivePagesInUse DEF Sound, Shapes
    <3>4. R \subseteq 0 .. disk.num - 1
      BY <1>1, <3>1, <3>2 DEF DiskOK
    <3> QED
      BY <1>1, <3>1, <3>2, <3>3, <3>4 DEF DiskOK
  <2>3. CASE Recovery = "reclaim old" /\ OldTreeGone(m)
    BY <2>3 DEF Reclaimed
  <2> QED
    BY <1>1, <2>1, <2>2, <2>3 DEF Preflight
<1>4. step' = "unlink" /\ disk' = [disk EXCEPT !.free = disk.free \cup R]
      /\ UNCHANGED <<main, wal, manifest, durable, catalog, prepared, stored,
                     overtaken, behind>>
  BY DEF Reclaim
<1> HIDE DEF R
<1>5. Lasting' = Lasting /\ Pending' = Pending
  BY <1>1, <1>4 DEF Lasting, Committed, Decodes, Pending
<1>6. /\ DiskOK(disk') /\ disk'.trees = disk.trees /\ disk'.num = disk.num
      /\ Sound(disk', catalog) /\ LivePages(disk', catalog) = LivePages(disk, catalog)
      /\ \A r : TreeAt(disk', r) = TreeAt(disk, r)
  <2>1. PICK e : e = disk'
    OBVIOUS
  <2>2. e = [disk EXCEPT !.free = disk.free \cup R]
    BY <1>4, <2>1
  <2>3. /\ DiskOK(e) /\ e.trees = disk.trees /\ e.num = disk.num
        /\ Sound(e, catalog) /\ LivePages(e, catalog) = LivePages(disk, catalog)
        /\ \A r : TreeAt(e, r) = TreeAt(disk, r)
    <3>1. DiskOK(disk) /\ Sound(disk, catalog)
      BY <1>1, <1>2
    <3> QED
      BY ONLY <1>3, <2>2, <3>1, FreeTrees
  <2> QED
    BY <2>1, <2>3
<1>7. AtRest'
  <2>1. Complete(disk, catalog, stored, overtaken)
    BY <1>1, <1>2 DEF AtRest, Intact
  <2>2. Complete(disk', catalog, stored, overtaken)
    BY <1>6, <2>1 DEF Complete
  <2>3. ASSUME NEW n \in Pending
        PROVE  /\ ManifestOK(disk', n)
               /\ Decidable(disk', n, catalog, GensOf(Lasting, catalog))
    <3>1. ManifestOK(disk, n) /\ Decidable(disk, n, catalog, GensOf(Lasting, catalog))
      BY <1>1, <1>2 DEF AtRest
    <3> QED
      BY <1>6, <3>1 DEF ManifestOK, Decidable, StagedTree
  <2> QED
    BY <1>2, <1>4, <1>5, <1>6, <2>2, <2>3 DEF AtRest, Intact
<1>8. FilesInv'
  BY <1>1, <1>4, <1>5 DEF FilesInv
<1> QED
  BY <1>1, <1>4, <1>6, <1>7, <1>8 DEF Inv, StepInv, Running, Saving, Marking, Opening

\* The manifest goes after the pages ...
LEMMA UnlinkStep ==
    ASSUME Inv, ~behind, Unlink
    PROVE  Inv'
<1> USE DEF files, handle, ghosts
<1>1. FilesInv /\ DiskOK(disk) /\ AtRest /\ wal = Absent /\ prepared = Absent
      /\ catalog = Shape(main)
  BY DEF Inv, StepInv, Unlink, Running, Saving, Marking, Opening
<1>2. step' = "sync unlink" /\ manifest' = Absent
      /\ UNCHANGED <<disk, main, wal, durable, catalog, prepared, stored, overtaken, behind>>
  BY DEF Unlink
<1>3. Lasting' = Lasting /\ Pending' \subseteq Pending
  BY <1>2 DEF Lasting, Committed, Pending
<1>4. AtRest' /\ FilesInv'
  BY <1>1, <1>2, <1>3, RestStays DEF FilesInv, Committed
<1> QED
  BY <1>1, <1>2, <1>4 DEF Inv, StepInv, Running, Saving, Marking, Opening

\* A process that has just loaded the catalog, with no migration to decide.
LEMMA OpenedStep ==
    ASSUME FilesInv, AtRest, wal = Absent, step' = "open", catalog' = Shape(main),
           Pending' = {}, prepared' = Absent,
           UNCHANGED <<disk, main, wal, stored, overtaken>>
    PROVE  InUse'
<1>1. Lasting = main /\ (main = Absent \/ FileOK(main))
  BY NoLog
<1>2. Lasting' = main /\ Base' = Shape(main)
  BY <1>1 DEF Lasting, Committed, Base
<1>3. Extends(Base', Shape(Lasting'))
  BY <1>2 DEF Extends
<1>4. Intact(Base)'
  BY <1>1, <1>2 DEF AtRest, Intact
<1>5. NotAhead'
  <2>1. IsV3(main) => \A i \in DOMAIN main.shape : main.gens[i] \in Nat
    BY <1>1, FileShape DEF FileOK, CatalogFiles, Shapes
  <2> QED
    BY <1>1, <1>2, <2>1, FileShape DEF NotAhead, CatalogFiles, Shapes
<1> QED
  BY <1>2, <1>3, <1>4, <1>5 DEF InUse, PreparedInv

\* ... and is gone for good when the directory is synced; until then it may come
\* back, and decides the same.
LEMMA SyncUnlinkStep ==
    ASSUME Inv, ~behind, SyncUnlink
    PROVE  Inv'
<1> USE DEF files, handle, ghosts
<1>1. FilesInv /\ DiskOK(disk) /\ AtRest /\ wal = Absent /\ prepared = Absent
      /\ catalog = Shape(main) /\ manifest = Absent
  BY DEF Inv, StepInv, SyncUnlink, Running, Saving, Marking, Opening
<1>2. Lasting = main
  BY <1>1, NoLog
<1>3. LivePageMap(disk, catalog)
  BY <1>1, <1>2, SoundRoots DEF AtRest, Intact
<1>4. step' = "open" /\ durable' = Absent
      /\ UNCHANGED <<disk, main, wal, manifest, catalog, prepared, stored, overtaken, behind>>
  BY <1>1, <1>3 DEF SyncUnlink
<1>5. Lasting' = Lasting /\ Pending' = {}
  BY <1>1, <1>4 DEF Lasting, Committed, Pending
<1>6. FilesInv'
  BY <1>1, <1>4, <1>5 DEF FilesInv, Committed
<1>7. InUse'
  BY <1>1, <1>4, <1>5, OpenedStep
<1> QED
  BY <1>1, <1>4, <1>6, <1>7 DEF Inv, StepInv, Running, Saving, Marking, Opening

----------------------------------------------------------------------------
(* The end of the process                                                  *)

\* A clean close is a death between two steps.
LEMMA CloseStep ==
    ASSUME Inv, ~behind, Close
    PROVE  Inv'
<1> USE DEF files, handle, ghosts
<1>1. FilesInv /\ DiskOK(disk) /\ AtRest /\ step = "open"
  BY RunningAtRest DEF Inv, StepInv, Close, Running
<1>2. step' = "closed" /\ prepared' = Absent
      /\ UNCHANGED <<disk, main, wal, manifest, durable, stored, overtaken, behind>>
  BY DEF Close
<1>3. Lasting' = Lasting /\ Pending' = Pending
  BY <1>2 DEF Lasting, Committed, Pending
<1>4. AtRest' /\ FilesInv'
  BY <1>1, <1>2, <1>3, RestStays DEF FilesInv, Committed
<1> QED
  BY <1>1, <1>2, <1>4 DEF Inv, StepInv, Running, Saving, Marking, Opening

\* A V3 file has a generation for each of its tables.
LEMMA GensOfFile ==
    ASSUME NEW f, FileOK(f), f.fmt = "v3"
    PROVE  /\ IsV3(f) /\ Shape(f) = f.shape /\ GensOf(f, f.shape) = f.gens
           /\ \A i \in DOMAIN f.shape : Generation(f, i) = f.gens[i]
<1>1. IsV3(f) /\ Shape(f) = f.shape /\ f \in CatalogFiles
  <2>1. f # Absent
    BY FilesAssumption DEF FileOK
  <2> QED
    BY <2>1, FileShape
<1>2. f.gens \in Seq(Nat) /\ f.shape \in Shapes /\ Len(f.gens) = Len(f.shape)
  BY <1>1 DEF FileOK, CatalogFiles
<1>3. DOMAIN f.gens = DOMAIN f.shape /\ f.gens = [i \in DOMAIN f.gens |-> f.gens[i]]
  BY <1>2 DEF Shapes
<1> QED
  BY <1>1, <1>3 DEF GensOf, Generation

\* A log written whole is the catalog that lasts.
LEMMA LogCommits ==
    ASSUME FilesInv, PlanOK, Intact(work.file.shape), disk' = disk, wal' = work.file
    PROVE  /\ Lasting' = work.file /\ Committed(wal)' /\ FileOK(wal')
           /\ Shape(work.file) = work.file.shape
           /\ GensOf(work.file, work.file.shape) = work.file.gens
<1>1. FileOK(work.file) /\ work.file.fmt = "v3"
  BY DEF PlanOK
<1>2. StructuralRoots(disk, work.file.shape)
  BY SoundRoots DEF Intact
<1>3. Decodes(work.file)
  BY <1>1, GensOfFile DEF IsV3
<1>4. Committed(wal)'
  BY <1>2, <1>3 DEF Committed
<1> QED
  BY <1>1, <1>4, GensOfFile DEF Lasting

\* A death during any write leaves the old file, the new one or a torn one; the
\* catalog that lasts is sound in each case.
LEMMA CrashStep ==
    ASSUME Inv, ~behind, MigrationCrash
    PROVE  Inv'
<1> USE DEF files, handle, ghosts
<1>1. FilesInv /\ DiskOK(disk) /\ StepInv
  BY DEF Inv
<1>2. AtRest
  BY <1>1, RunningAtRest DEF StepInv
<1>3. step' = "closed" /\ prepared' = Absent /\ manifest' \in {manifest, durable}
      /\ durable' = manifest' /\ UNCHANGED <<disk, stored, overtaken, behind>>
  BY DEF MigrationCrash
<1>4. Pending' \subseteq Pending
  BY <1>3 DEF Pending
<1>5. SUFFICES AtRest' /\ (main' \in {Absent, Torn, Short} \/ FileOK(main'))
               /\ (wal' \in {Absent, Torn} \/ (FileOK(wal') /\ Committed(wal)'))
               /\ Lasting' \notin {Torn, Short}
  BY <1>1, <1>3, <1>5 DEF Inv, StepInv, FilesInv, Running, Saving, Marking, Opening
<1>6. CASE step = "write log" /\ wal' = work.file
  <2>1. /\ PlanOK /\ Intact(work.file.shape)
        /\ \A m \in Pending : Bound(disk, m, work.file.shape, work.file.gens)
    BY <1>1, <1>6 DEF StepInv, WriteLogInv, Saving
  <2>2. /\ Lasting' = work.file /\ Committed(wal)' /\ FileOK(wal')
        /\ Shape(work.file) = work.file.shape
        /\ GensOf(work.file, work.file.shape) = work.file.gens
    BY <1>1, <1>3, <1>6, <2>1, LogCommits
  <2>3. AtRest'
    <3> DEFINE f == work.file
    <3>1. /\ Lasting' = f /\ Shape(f) = f.shape /\ GensOf(f, f.shape) = f.gens
          /\ Intact(f.shape)
          /\ \A m \in Pending : Bound(disk, m, f.shape, f.gens)
      BY <2>1, <2>2
    <3> HIDE DEF f
    <3> QED
      BY <1>3, <1>4, <3>1 DEF AtRest, Intact, Bound
  <2>4. main' = main
    BY <1>6 DEF MigrationCrash
  <2>5. Lasting' \notin {Torn, Short}
    BY <1>6, <2>2, FileShape
  <2> QED
    BY <1>1, <1>6, <2>2, <2>3, <2>4, <2>5 DEF FilesInv
<1>7. CASE step = "write log" /\ wal' # work.file
  <2>1. main = Lasting /\ main' = main /\ wal' \in {wal, Torn}
    BY <1>1, <1>7 DEF StepInv, WriteLogInv, MigrationCrash
  <2>2. Lasting' = Lasting
    BY <1>3, <2>1 DEF Lasting, Committed, Decodes
  <2>3. AtRest'
    BY <1>2, <1>3, <1>4, <2>2, RestStays
  <2> QED
    BY <1>1, <1>3, <2>1, <2>2, <2>3 DEF FilesInv, Committed
<1>8. CASE step \in {"write main", "copy log"}
  <2>1. Committed(wal) /\ wal' = wal /\ FileOK(wal)
    <3>1. CASE step = "write main"
      BY <1>1, <3>1, GensOfFile, LastingFile
      DEF StepInv, Saving, PlanOK, IsV3, MigrationCrash
    <3>2. CASE step = "copy log"
      BY <1>1, <3>2, LastingFile DEF StepInv, FilesInv, MigrationCrash
    <3> QED
      BY <1>8, <3>1, <3>2
  <2>2. main' \in {main, Torn, Short, wal}
    BY <1>1, <1>8 DEF StepInv, MigrationCrash
  <2>3. Lasting' = Lasting /\ Committed(wal)'
    BY <1>3, <2>1 DEF Lasting, Committed
  <2>4. AtRest'
    BY <1>2, <1>3, <1>4, <2>3, RestStays
  <2> QED
    BY <1>1, <2>1, <2>2, <2>3, <2>4 DEF FilesInv
<1>9. CASE step \notin {"write log", "write main", "copy log"}
  <2>1. wal' = wal /\ main' = main
    BY <1>9 DEF MigrationCrash
  <2>2. Lasting' = Lasting
    BY <1>3, <2>1 DEF Lasting, Committed
  <2>3. AtRest'
    BY <1>2, <1>3, <1>4, <2>2, RestStays
  <2> QED
    BY <1>1, <1>3, <2>1, <2>2, <2>3 DEF FilesInv, Committed
<1> QED
  BY <1>6, <1>7, <1>8, <1>9

----------------------------------------------------------------------------
(* Saving the catalog                                                      *)

\* A step of the running process that leaves its files and the trees alone.
LEMMA UseStays ==
    ASSUME InUse, step \notin Marking \/ prepared' = Absent \/ step' \in Marking,
           Lasting' = Lasting, Base' = Base,
           main' = main \/ ~ IsV3(main'),
           prepared' = prepared \/ prepared' = Absent,
           UNCHANGED <<disk, manifest, durable, stored, overtaken>>
    PROVE  InUse'
<1>1. Pending' = Pending
  BY DEF Pending
<1>2. /\ Extends(Base', Shape(Lasting'))
      /\ Intact(Base)'
      /\ \A m \in Pending' : Bound(disk', m, Base', GensOf(Lasting', Base'))
  BY <1>1 DEF InUse, Intact
<1>3. NotAhead'
  BY DEF InUse, NotAhead
<1>4. PreparedInv'
  BY DEF InUse, PreparedInv, Marking
<1> QED
  BY <1>2, <1>3, <1>4 DEF InUse

\* A save that is refused leaves the catalog in memory as it was before the statement.
LEMMA SaveRefusedStep ==
    ASSUME Inv, ~behind, SaveRefused
    PROVE  Inv'
<1> USE DEF files, handle, ghosts
<1>1. FilesInv /\ DiskOK(disk) /\ InUse /\ step = "save"
  BY DEF Inv, StepInv, SaveRefused, Running
<1>2. catalog' = work /\ step' = "open"
      /\ UNCHANGED <<disk, main, wal, manifest, durable, prepared, stored, overtaken, behind>>
  BY DEF SaveRefused
<1>3. Lasting' = Lasting /\ Base' = Base
  BY <1>1, <1>2 DEF Lasting, Committed, Base, Marking
<1>4. FilesInv'
  BY <1>1, <1>2, <1>3 DEF FilesInv, Committed
<1>5. InUse'
  BY <1>1, <1>2, <1>3, UseStays DEF Marking
<1> QED
  BY <1>1, <1>2, <1>4, <1>5 DEF Inv, StepInv, Running, Saving, Marking, Opening

\* The elements of a concatenation.
LEMMA Concatenated ==
    ASSUME NEW s \in Seq(Nat), NEW u \in Seq(Nat)
    PROVE  /\ s \o u \in Seq(Nat) /\ Len(s \o u) = Len(s) + Len(u)
           /\ \A i \in 1 .. Len(s) : (s \o u)[i] = s[i]
           /\ \A i \in 1 .. Len(u) : (s \o u)[Len(s) + i] = u[i]
<1> DEFINE c == s \o u
<1>1. /\ c \in Seq(Nat) /\ Len(c) = Len(s) + Len(u)
      /\ \A i \in 1 .. Len(s) + Len(u) :
            c[i] = IF i <= Len(s) THEN s[i] ELSE u[i - Len(s)]
  BY ConcatProperties
<1>2. Len(s) \in Nat /\ Len(u) \in Nat
  OBVIOUS
<1> HIDE DEF c
<1>3. ASSUME NEW i \in 1 .. Len(s) PROVE c[i] = s[i]
  <2>1. i \in 1 .. Len(s) + Len(u) /\ i <= Len(s)
    BY <1>2
  <2> QED
    BY <1>1, <2>1
<1>4. ASSUME NEW i \in 1 .. Len(u) PROVE c[Len(s) + i] = u[i]
  <2>1. Len(s) + i \in 1 .. Len(s) + Len(u) /\ ~ (Len(s) + i <= Len(s))
        /\ (Len(s) + i) - Len(s) = i
    BY <1>2
  <2> QED
    BY <1>1, <2>1
<1> QED
  BY <1>1, <1>3, <1>4 DEF c

\* What a save writes: the same tables, each a generation on if it changed.
LEMMA NextFileIs ==
    ASSUME NEW f, f = Absent \/ FileOK(f), NEW shape \in Shapes, Len(shape) >= 1,
           CanDerive(f, shape)
    PROVE  LET g == NextFile(f, shape) IN
           /\ FileOK(g) /\ g.fmt = "v3" /\ g.shape = shape
           /\ Advance(f, g)
           /\ \A i \in DOMAIN shape :
                 /\ GensOf(f, shape)[i] \in Nat /\ g.gens[i] \in Nat
                 /\ g.gens[i] \in {GensOf(f, shape)[i], GensOf(f, shape)[i] + 1}
<1> DEFINE g == NextFile(f, shape)
           n == Len(shape)
<1>1. n \in Nat /\ DOMAIN shape = 1 .. n
  BY DEF Shapes
<1>2. CASE ~ IsV3(f)
  <2> DEFINE ids == [i \in DOMAIN shape |-> i]
             gens == First(n)
  <2>1. g = [fmt |-> "v3", shape |-> shape, ids |-> ids, gens |-> gens]
    BY <1>2 DEF NextFile, Bootstrap, CatalogFile
  <2>2. ids \in Seq(Nat) /\ Len(ids) = n /\ \A i \in 1 .. n : ids[i] = i
    BY <1>1
  <2>3. gens \in Seq(Nat) /\ Len(gens) = n /\ \A i \in 1 .. n : gens[i] = 1
    BY <1>1 DEF First
  <2>4. \A i \in DOMAIN shape : GensOf(f, shape)[i] = 1
    BY <1>2 DEF GensOf, Generation
  <2> HIDE DEF ids, gens
  <2>5. g \in CatalogFiles
    BY <2>1, <2>2, <2>3 DEF CatalogFiles
  <2> QED
    BY <1>1, <1>2, <2>1, <2>2, <2>3, <2>4, <2>5 DEF FileOK, Advance
<1>3. CASE IsV3(f)
  <2> DEFINE k == Len(f.shape)
             last == Max(ToSet(f.ids))
             more == [i \in 1 .. n - k |-> last + i]
             ids == f.ids \o more
             next == [i \in DOMAIN f.shape |-> IF shape[i] = f.shape[i]
                                               THEN f.gens[i] ELSE f.gens[i] + 1]
             ones == First(n - k)
             gens == next \o ones
  <2>1. FileOK(f) /\ f.fmt = "v3" /\ Shape(f) = f.shape /\ f \in CatalogFiles
        /\ f # Absent
    BY <1>3, FileShape DEF IsV3, Decodes
  <2>2. k \in Nat /\ k >= 1 /\ n >= k /\ DOMAIN f.shape = 1 .. k
        /\ f.ids \in Seq(Nat) /\ Len(f.ids) = k /\ DOMAIN f.ids = 1 .. k
        /\ f.gens \in Seq(Nat) /\ Len(f.gens) = k
        /\ \A i \in 1 .. k : f.ids[i] = i /\ f.gens[i] \in Nat /\ f.gens[i] >= 1
    <3>1. f.shape \in Seq(Entries) /\ f.ids \in Seq(Nat) /\ f.gens \in Seq(Nat)
      BY <2>1 DEF CatalogFiles, Shapes
    <3>2. Len(f.ids) = Len(f.shape) /\ Len(f.gens) = Len(f.shape) /\ Len(f.shape) >= 1
          /\ \A i \in 1 .. Len(f.shape) : f.ids[i] = i /\ f.gens[i] >= 1
      BY <2>1 DEF FileOK
    <3>3. n >= k
      BY <1>3 DEF CanDerive, IsV3, Decodes
    <3> QED
      BY <3>1, <3>2, <3>3, SMTT(60)
  <2>3. last = k
    <3> DEFINE S == ToSet(f.ids)
    <3>1. S = 1 .. k
      BY <2>2 DEF ToSet
    <3>2. S \subseteq 0 .. k /\ S # {}
      BY <2>2, <3>1
    <3> HIDE DEF S
    <3>3. Max(S) \in S /\ \A y \in S : Max(S) >= y
      BY <2>2, <3>2, MaxIsGreatest
    <3>4. k \in S
      BY <2>2, <3>1
    <3>5. Max(S) >= k /\ Max(S) \in 1 .. k
      BY <3>1, <3>3, <3>4
    <3> QED
      BY <2>2, <3>5 DEF S
  <2>4. g = [fmt |-> "v3", shape |-> shape, ids |-> ids, gens |-> gens]
    BY <1>3 DEF NextFile, Derived, CatalogFile
  <2>5. more \in Seq(Nat) /\ Len(more) = n - k
        /\ \A i \in 1 .. n - k : more[i] = k + i
    <3>1. \A i \in 1 .. n - k : k + i \in Nat
      BY <1>1, <2>2
    <3>2. more = [i \in 1 .. n - k |-> k + i]
      BY <2>3
    <3> HIDE DEF last, more
    <3> QED
      BY <1>1, <2>2, <3>1, <3>2
  <2>6. next \in Seq(Nat) /\ Len(next) = k
    <3>1. next \in [1 .. k -> Nat]
      BY <2>2, SMTT(60)
    <3> HIDE DEF next, k
    <3>2. next \in Seq(Nat)
      BY <2>2, <3>1, SeqDef
    <3> QED
      BY <2>2, <3>1, <3>2
  <2>7. ones \in Seq(Nat) /\ Len(ones) = n - k /\ \A i \in 1 .. n - k : ones[i] = 1
    BY <1>1, <2>2 DEF First
  <2>8. \A i \in 1 .. k : next[i] = IF shape[i] = f.shape[i]
                                    THEN f.gens[i] ELSE f.gens[i] + 1
    BY <2>2
  <2> HIDE DEF more, next, ones, last
  <2>9. ids \in Seq(Nat) /\ Len(ids) = n /\ \A i \in 1 .. n : ids[i] = i
    <3>1. /\ ids \in Seq(Nat) /\ Len(ids) = k + (n - k)
          /\ \A i \in 1 .. k : ids[i] = f.ids[i]
          /\ \A i \in 1 .. n - k : ids[k + i] = more[i]
      <4>1. /\ ids \in Seq(Nat) /\ Len(ids) = Len(f.ids) + Len(more)
            /\ \A i \in 1 .. Len(f.ids) : ids[i] = f.ids[i]
            /\ \A i \in 1 .. Len(more) : ids[Len(f.ids) + i] = more[i]
        BY <2>2, <2>5, Concatenated
      <4> HIDE DEF ids, k, n
      <4> QED
        BY <2>2, <2>5, <4>1
    <3> HIDE DEF ids, k, n
    <3>2. ASSUME NEW i \in k + 1 .. n PROVE ids[i] = i
      <4>1. PICK j \in 1 .. n - k : i = k + j
        <5>1. i - k \in 1 .. n - k /\ i = k + (i - k)
          BY <1>1, <2>2
        <5> QED
          BY <5>1
      <4>2. ids[k + j] = more[j] /\ more[j] = k + j
        BY <2>5, <3>1
      <4> QED
        BY <4>1, <4>2
    <3>3. Len(ids) = n
      BY <1>1, <2>2, <3>1
    <3>4. ASSUME NEW i \in 1 .. n PROVE ids[i] = i
      <4>1. i \in 1 .. k \/ i \in k + 1 .. n
        BY <1>1, <2>2
      <4> QED
        BY <2>2, <3>1, <3>2, <4>1
    <3> QED
      BY <3>1, <3>3, <3>4
  <2>10. /\ gens \in Seq(Nat) /\ Len(gens) = n
         /\ \A i \in 1 .. k : gens[i] = next[i]
         /\ \A i \in 1 .. n : i > k => gens[i] = 1
    <3>1. /\ gens \in Seq(Nat) /\ Len(gens) = k + (n - k)
          /\ \A i \in 1 .. k : gens[i] = next[i]
          /\ \A i \in 1 .. n - k : gens[k + i] = ones[i]
      <4>1. /\ gens \in Seq(Nat) /\ Len(gens) = Len(next) + Len(ones)
            /\ \A i \in 1 .. Len(next) : gens[i] = next[i]
            /\ \A i \in 1 .. Len(ones) : gens[Len(next) + i] = ones[i]
        BY <2>6, <2>7, Concatenated
      <4> HIDE DEF gens, k, n
      <4> QED
        BY <2>6, <2>7, <4>1
    <3> HIDE DEF gens, k, n
    <3>2. ASSUME NEW i \in 1 .. n, i > k PROVE gens[i] = 1
      <4>1. PICK j \in 1 .. n - k : i = k + j
        <5>1. i - k \in 1 .. n - k /\ i = k + (i - k)
          BY <1>1, <2>2, <3>2
        <5> QED
          BY <5>1
      <4>2. gens[k + j] = ones[j] /\ ones[j] = 1
        BY <2>7, <3>1
      <4> QED
        BY <4>1, <4>2
    <3>3. Len(gens) = n
      BY <1>1, <2>2, <3>1
    <3> QED
      BY <3>1, <3>2, <3>3
  <2> HIDE DEF ids, gens
  <2>11. g \in CatalogFiles
    BY <2>4, <2>9, <2>10 DEF CatalogFiles
  <2>12. \A i \in DOMAIN shape : GensOf(f, shape)[i] = IF i <= k THEN f.gens[i] ELSE 1
    BY <1>1, <1>3, <2>1, <2>2 DEF GensOf, Generation
  <2>13. g.shape = shape /\ g.ids = ids /\ g.gens = gens /\ g.fmt = "v3"
    BY <2>4
  <2> HIDE DEF g, k
  <2>14. ASSUME NEW i \in 1 .. n
         PROVE  /\ gens[i] \in Nat /\ gens[i] >= 1
                /\ GensOf(f, shape)[i] \in Nat
                /\ gens[i] \in {GensOf(f, shape)[i], GensOf(f, shape)[i] + 1}
    <3>1. GensOf(f, shape)[i] = IF i <= k THEN f.gens[i] ELSE 1
      BY <1>1, <2>12
    <3>2. CASE i <= k
      <4>1. i \in 1 .. k
        BY <1>1, <2>2, <3>2
      <4>2. gens[i] = IF shape[i] = f.shape[i] THEN f.gens[i] ELSE f.gens[i] + 1
        BY <2>8, <2>10, <4>1
      <4>3. f.gens[i] \in Nat /\ f.gens[i] >= 1
        BY <2>2, <4>1
      <4> QED
        BY <3>1, <3>2, <4>2, <4>3
    <3>3. CASE ~ (i <= k)
      <4>1. i > k
        BY <1>1, <2>2, <3>3
      <4> QED
        BY <2>10, <3>1, <3>3, <4>1
    <3> QED
      BY <3>2, <3>3
  <2>15. FileOK(g)
    BY <1>1, <2>2, <2>9, <2>10, <2>11, <2>13, <2>14 DEF FileOK, n
  <2>16. Advance(f, g)
    <3>1. ASSUME NEW i \in DOMAIN f.ids
          PROVE  /\ g.ids[i] = f.ids[i]
                 /\ g.gens[i] = IF g.shape[i] = f.shape[i] THEN f.gens[i]
                                ELSE f.gens[i] + 1
      <4>1. i \in 1 .. k /\ i \in 1 .. n
        BY <1>1, <2>2
      <4> QED
        BY <2>2, <2>8, <2>9, <2>10, <2>13, <4>1, ZenonT(60)
    <3>2. Len(f.shape) <= Len(g.shape)
      BY <1>1, <2>2, <2>13 DEF k, n
    <3> QED
      BY <3>1, <3>2 DEF Advance
  <2>17. \A i \in DOMAIN shape :
            /\ GensOf(f, shape)[i] \in Nat /\ g.gens[i] \in Nat
            /\ g.gens[i] \in {GensOf(f, shape)[i], GensOf(f, shape)[i] + 1}
    BY <1>1, <2>13, <2>14
  <2> QED
    BY <2>13, <2>15, <2>16, <2>17 DEF g
<1> QED
  BY <1>2, <1>3

\* A manifest that can be decided still can be when its table is a generation on.
LEMMA AdvanceDecidable ==
    ASSUME NEW d, NEW m, NEW shape, NEW g, NEW h, Bound(d, m, shape, g),
           \A i \in DOMAIN shape : g[i] \in Nat /\ h[i] \in {g[i], g[i] + 1}
    PROVE  /\ Bound(d, m, shape, h)
           /\ h[m.table] = m.gen => g[m.table] = m.gen
<1>1. m.gen \in Nat /\ m.table \in DOMAIN shape
  BY DEF Bound, ManifestOK, Manifests, Kept
<1>2. /\ g[m.table] >= m.gen /\ h[m.table] >= m.gen
      /\ h[m.table] = m.gen => g[m.table] = m.gen
      /\ h[m.table] = m.gen + 1 => g[m.table] \in {m.gen, m.gen + 1}
  BY <1>1 DEF Bound, Decidable
<1> QED
  BY <1>1, <1>2 DEF Bound, Decidable

\* A save derives the next generations from the catalog file.
LEMMA BeginSaveStep ==
    ASSUME Inv, ~behind, BeginSave
    PROVE  Inv'
<1> USE DEF files, handle, ghosts
<1> DEFINE f == NextFile(main, catalog)
<1>1. FilesInv /\ DiskOK(disk) /\ InUse /\ SaveInv /\ step = "save" /\ behind = FALSE
  BY DEF Inv, StepInv, BeginSave, Running
<1>2. work' = [file |-> f, undo |-> work, next |-> "open"] /\ step' = "write log"
      /\ CanDerive(main, catalog) /\ behind' = (behind \/ main # Lasting)
      /\ UNCHANGED <<disk, main, wal, manifest, durable, catalog, prepared, stored, overtaken>>
  BY DEF BeginSave, Plan
<1>3. SUFFICES ASSUME ~behind' PROVE Inv'
  BY <1>1, <1>2 DEF Inv
<1>4. main = Lasting /\ (main = Absent \/ FileOK(main))
  BY <1>1, <1>2, <1>3, LastingFile
<1>5. Intact(catalog)
  BY <1>1 DEF SaveInv
<1>6. catalog \in Shapes /\ Len(catalog) >= 1
  BY <1>5 DEF Intact, Sound
<1>7. /\ FileOK(f) /\ f.fmt = "v3" /\ f.shape = catalog
      /\ Advance(main, f)
      /\ \A i \in DOMAIN catalog :
            /\ GensOf(main, catalog)[i] \in Nat /\ f.gens[i] \in Nat
            /\ f.gens[i] \in {GensOf(main, catalog)[i], GensOf(main, catalog)[i] + 1}
  BY <1>2, <1>4, <1>6, NextFileIs
<1>8. Lasting' = Lasting /\ Base' = Base /\ Pending' = Pending
      /\ work'.file = f /\ work'.next = "open"
  BY <1>1, <1>2 DEF Lasting, Committed, Base, Marking, Pending
<1> HIDE DEF f
<1>9. FilesInv'
  BY <1>1, <1>2, <1>8 DEF FilesInv, Committed
<1>10. InUse'
  BY <1>1, <1>2, <1>8, UseStays DEF Marking
<1>11. ASSUME NEW m \in Pending
       PROVE  /\ Bound(disk, m, catalog, f.gens)
              /\ f.gens[m.table] = m.gen => GensOf(main, catalog)[m.table] = m.gen
  <2>1. Bound(disk, m, catalog, GensOf(main, catalog))
    BY <1>1, <1>4 DEF SaveInv
  <2>2. PICK g : g = GensOf(main, catalog)
    OBVIOUS
  <2>3. PICK h : h = f.gens
    OBVIOUS
  <2>4. Bound(disk, m, catalog, g)
        /\ \A i \in DOMAIN catalog : g[i] \in Nat /\ h[i] \in {g[i], g[i] + 1}
    BY <1>7, <2>1, <2>2, <2>3
  <2>5. Bound(disk, m, catalog, h) /\ (h[m.table] = m.gen => g[m.table] = m.gen)
    BY <2>4, AdvanceDecidable
  <2> QED
    BY <2>2, <2>3, <2>5
<1>12. prepared # Absent => Copied(disk, prepared, f.gens, stored, overtaken)
  <2>1. prepared # Absent => manifest = prepared
        /\ Copied(disk, prepared, GensOf(main, catalog), stored, overtaken)
    BY <1>1, <1>4 DEF SaveInv, InUse, PreparedInv, Marking
  <2> QED
    BY <1>11, <2>1 DEF Copied, Pending
<1>13. PlanOK'
  BY <1>7, <1>8 DEF PlanOK
<1>14. WriteLogInv'
  BY <1>2, <1>4, <1>5, <1>7, <1>8, <1>11, <1>12 DEF WriteLogInv, Intact
<1> QED
  BY <1>1, <1>2, <1>3, <1>9, <1>10, <1>13, <1>14
  DEF Inv, StepInv, Running, Saving, Marking, Opening

\* When the log is written, and synced, the new catalog lasts.
LEMMA WriteLogStep ==
    ASSUME Inv, ~behind, WriteLog
    PROVE  Inv'
<1> USE DEF files, handle, ghosts
<1>1. FilesInv /\ DiskOK(disk) /\ InUse /\ PlanOK /\ WriteLogInv /\ step = "write log"
  BY DEF Inv, StepInv, WriteLog, Running, Saving
<1>2. step' = "write main" /\ wal' = work.file
      /\ UNCHANGED <<disk, main, manifest, durable, catalog, work, prepared, stored,
                     overtaken, behind>>
  BY DEF WriteLog
<1>3. PICK f : f = work.file
  OBVIOUS
<1>4. /\ FileOK(f) /\ f.fmt = "v3" /\ main = Lasting /\ Advance(Lasting, f)
      /\ Intact(f.shape)
      /\ \A m \in Pending : Bound(disk, m, f.shape, f.gens)
      /\ prepared # Absent => Copied(disk, prepared, f.gens, stored, overtaken)
  BY <1>1, <1>3 DEF PlanOK, WriteLogInv
<1>5. /\ Lasting' = f /\ Committed(wal)' /\ Shape(f) = f.shape
      /\ GensOf(f, f.shape) = f.gens
  BY <1>1, <1>2, <1>3, <1>4, LogCommits
<1>6. Base' = f.shape /\ Pending' = Pending
  BY <1>2, <1>3 DEF Base, Marking, Pending
<1>7. FilesInv'
  <2>1. f \notin {Torn, Short}
    BY <1>4, FileShape
  <2> QED
    BY <1>1, <1>2, <1>3, <1>4, <1>5, <2>1 DEF FilesInv
<1>8. NotAhead'
  <2>1. ASSUME IsV3(main)
        PROVE  /\ IsV3(f) /\ Len(main.shape) <= Len(f.shape)
               /\ \A i \in DOMAIN main.shape : main.gens[i] <= f.gens[i]
    <3>1. IsV3(f)
      BY <1>4, GensOfFile
    <3>2. FileOK(main) /\ main.fmt = "v3"
      BY <1>1, <1>4, <2>1, LastingFile, FileShape
    <3>3. /\ main.gens \in Seq(Nat) /\ main.ids \in Seq(Nat)
          /\ Len(main.ids) = Len(main.shape) /\ Len(main.gens) = Len(main.shape)
          /\ main.shape \in Seq(Entries)
      BY <3>2 DEF FileOK, CatalogFiles, Shapes
    <3>4. ASSUME NEW i \in DOMAIN main.shape PROVE main.gens[i] <= f.gens[i]
      <4>1. i \in DOMAIN main.ids /\ main.gens[i] \in Nat
        BY <3>3, SMTT(60)
      <4>2. f.gens[i] \in {main.gens[i], main.gens[i] + 1}
        BY <1>4, <2>1, <4>1 DEF Advance
      <4> QED
        BY <4>1, <4>2
    <3> QED
      BY <1>4, <2>1, <3>1, <3>4 DEF Advance
  <2> QED
    BY <1>2, <1>5, <2>1 DEF NotAhead
<1>9. PreparedInv'
  BY <1>1, <1>2, <1>4, <1>5, <1>6 DEF InUse, PreparedInv, Marking
<1>10. InUse'
  <2>1. Extends(Base', Shape(Lasting'))
    BY <1>5, <1>6 DEF Extends
  <2>2. Intact(Base)'
    BY <1>2, <1>4, <1>6 DEF Intact
  <2> QED
    BY <1>2, <1>4, <1>5, <1>6, <1>8, <1>9, <2>1, <2>2 DEF InUse
<1>11. PlanOK'
  BY <1>1, <1>2 DEF PlanOK
<1> QED
  BY <1>1, <1>2, <1>7, <1>10, <1>11
  DEF Inv, StepInv, Running, Saving, Marking, Opening

\* When it cannot be written, the old one does.
LEMMA WriteLogFailsStep ==
    ASSUME Inv, ~behind, WriteLogFails
    PROVE  Inv'
<1> USE DEF files, handle, ghosts
<1>1. FilesInv /\ DiskOK(disk) /\ InUse /\ WriteLogInv /\ step = "write log"
      /\ behind = FALSE
  BY DEF Inv, StepInv, WriteLogFails, Running, Saving
<1>2. step' = "open" /\ wal' \in {Torn, work.file} /\ behind' = (behind \/ wal' # Torn)
      /\ catalog' = work.undo
      /\ UNCHANGED <<disk, main, manifest, durable, prepared, stored, overtaken>>
  BY DEF WriteLogFails
<1>3. SUFFICES ASSUME ~behind' PROVE Inv'
  BY <1>1, <1>2 DEF Inv
<1>4. wal' = Torn
  BY <1>2, <1>3
<1>5. Lasting' = Lasting /\ Base' = Base
  <2>1. main = Lasting
    BY <1>1 DEF WriteLogInv
  <2> QED
    BY <1>1, <1>2, <1>4, <2>1 DEF Lasting, Committed, Decodes, Base, Marking
<1>6. FilesInv'
  BY <1>1, <1>2, <1>4, <1>5 DEF FilesInv
<1>7. InUse'
  BY <1>1, <1>2, <1>5, UseStays DEF Marking
<1> QED
  BY <1>1, <1>2, <1>3, <1>6, <1>7 DEF Inv, StepInv, Running, Saving, Marking, Opening

\* The catalog file is written while the log stands.
LEMMA WriteMainStep ==
    ASSUME Inv, ~behind, WriteMain
    PROVE  Inv'
<1> USE DEF files, handle, ghosts
<1>1. FilesInv /\ DiskOK(disk) /\ InUse /\ PlanOK /\ wal = work.file /\ step = "write main"
  BY DEF Inv, StepInv, WriteMain, Running, Saving
<1>2. step' = "remove log" /\ main' = work.file
      /\ UNCHANGED <<disk, wal, manifest, durable, catalog, work, prepared, stored,
                     overtaken, behind>>
  BY DEF WriteMain
<1>3. Decodes(wal) /\ Committed(wal) /\ Lasting = wal /\ FileOK(wal)
  <2>1. Decodes(wal)
    BY <1>1, GensOfFile DEF PlanOK, IsV3
  <2> QED
    BY <1>1, <2>1, LastingFile DEF PlanOK, Lasting
<1>4. Lasting' = Lasting /\ Base' = Base /\ Pending' = Pending /\ Committed(wal)'
  BY <1>1, <1>2, <1>3 DEF Lasting, Committed, Base, Marking, Pending
<1>5. FilesInv'
  BY <1>1, <1>2, <1>3, <1>4 DEF FilesInv
<1>6. NotAhead'
  <2>1. main' = wal /\ Lasting' = wal
    BY <1>1, <1>2, <1>3, <1>4
  <2>2. wal.gens \in Seq(Nat) /\ wal.shape \in Seq(Entries) /\ Len(wal.gens) = Len(wal.shape)
    BY <1>1, <1>3 DEF FileOK, PlanOK, CatalogFiles, Shapes
  <2>3. \A i \in DOMAIN wal.shape : wal.gens[i] \in Nat
    BY <2>2
  <2> QED
    BY <2>1, <2>2, <2>3 DEF NotAhead
<1>7. InUse'
  BY <1>1, <1>2, <1>4, <1>6 DEF InUse, Intact, PreparedInv, Marking
<1>8. PlanOK'
  BY <1>1, <1>2 DEF PlanOK
<1> QED
  BY <1>1, <1>2, <1>5, <1>7, <1>8 DEF Inv, StepInv, Running, Saving, Marking, Opening

\* The manifest that says its migration was published.
LEMMA PublishedManifest ==
    ASSUME NEW d, NEW m, NEW shape, NEW g, Bound(d, m, shape, g),
           g[m.table] = m.gen + 1, shape[m.table].root = m.staged,
           NEW n, n = [m EXCEPT !.phase = "published"]
    PROVE  Bound(d, n, shape, g) /\ n.phase = "published"
<1>1. m \in Manifests
  BY DEF Bound, ManifestOK
<1>2. /\ n \in Manifests /\ n.phase = "published"
      /\ n.table = m.table /\ n.old = m.old /\ n.staged = m.staged /\ n.gen = m.gen
      /\ n.claims = m.claims
  BY <1>1 DEF Manifests
<1>3. m.gen \in Nat /\ g[n.table] # n.gen
  BY <1>1, <1>2 DEF Manifests
<1> QED
  BY <1>2, <1>3 DEF Bound, ManifestOK, Kept, Decidable

\* A save that has come to its end.
LEMMA PublishedStep ==
    ASSUME Inv, ~behind, step \in {"write main", "remove log"}, Published,
           wal' = wal \/ (wal' = Absent /\ main = work.file /\ main' = main),
           main' \in {main, Torn, Short}
    PROVE  Inv'
<1> USE DEF files, handle, ghosts
<1>1. FilesInv /\ DiskOK(disk) /\ InUse /\ PlanOK /\ wal = work.file
  BY DEF Inv, StepInv, Running, Saving
<1>2. step' = (IF work.next = "mark" THEN "write manifest" ELSE "open")
      /\ catalog' = work.file.shape
      /\ UNCHANGED <<disk, manifest, durable, prepared, stored, overtaken, behind>>
  BY DEF Published
<1>3. Decodes(wal) /\ Committed(wal) /\ Lasting = wal /\ FileOK(wal)
  <2>1. Decodes(wal)
    BY <1>1, GensOfFile DEF PlanOK, IsV3
  <2> QED
    BY <1>1, <2>1, LastingFile DEF PlanOK, Lasting
<1>4. Lasting' = Lasting
  BY <1>1, <1>2, <1>3 DEF Lasting, Committed, Decodes
<1>5. Base' = Base /\ Base' = catalog' /\ Pending' = Pending
  BY <1>1, <1>2 DEF Base, Marking, Pending
<1>6. FilesInv'
  <2>1. step' # "sync unlink" /\ step # "sync unlink"
    BY <1>2
  <2>2. wal' \in {Absent, Torn} \/ (FileOK(wal') /\ Committed(wal)')
    BY <1>2, <1>3 DEF Committed
  <2> QED
    BY <1>1, <1>2, <1>3, <1>4, <2>1, <2>2 DEF FilesInv
<1>7. InUse'
  <2>1. main' = main \/ ~ IsV3(main')
    BY DEF IsV3, Decodes
  <2> QED
    BY <1>1, <1>2, <1>4, <1>5, <2>1, UseStays DEF Marking
<1>8. CASE work.next = "open"
  BY <1>1, <1>2, <1>6, <1>7, <1>8 DEF Inv, StepInv, Running, Saving, Marking, Opening
<1>9. CASE work.next = "mark"
  <2>1. work' = [prepared EXCEPT !.phase = "published"]
    BY <1>9 DEF Published
  <2>2. /\ prepared # Absent /\ manifest = prepared /\ durable = prepared
        /\ work.file.shape[prepared.table].root = prepared.staged
        /\ work.file.gens[prepared.table] = prepared.gen + 1
    BY <1>1, <1>9 DEF PlanOK, InUse, PreparedInv, Marking
  <2>3. Bound(disk, prepared, Base, GensOf(Lasting, Base))
    BY <1>1, <2>2 DEF InUse, Pending
  <2>4. Base = work.file.shape /\ GensOf(Lasting, Base) = work.file.gens
    BY <1>1, <1>2, <1>3, <1>5, GensOfFile DEF PlanOK
  <2>5. PICK n : n = work'
    OBVIOUS
  <2>6. Bound(disk, n, Base, GensOf(Lasting, Base)) /\ n.phase = "published"
    <3>1. PICK s : s = Base
      OBVIOUS
    <3>2. PICK g : g = GensOf(Lasting, Base)
      OBVIOUS
    <3>3. Bound(disk, prepared, s, g) /\ g[prepared.table] = prepared.gen + 1
          /\ s[prepared.table].root = prepared.staged
          /\ n = [prepared EXCEPT !.phase = "published"]
      BY <2>1, <2>2, <2>3, <2>4, <2>5, <3>1, <3>2
    <3>4. Bound(disk, n, s, g) /\ n.phase = "published"
      BY ONLY <3>3, PublishedManifest
    <3> QED
      BY <3>1, <3>2, <3>4
  <2>7. step' = "write manifest"
    BY <1>2, <1>9
  <2>8. MarkInv'
    <3>1. Bound(disk', work', catalog', GensOf(Lasting', catalog'))
      BY <1>2, <1>4, <1>5, <2>5, <2>6
    <3>2. work'.phase = "published"
      BY <2>5, <2>6
    <3> QED
      BY <1>2, <2>1, <2>2, <2>7, <3>1, <3>2 DEF MarkInv
  <2> QED
    BY <1>1, <1>2, <1>6, <1>7, <2>7, <2>8
    DEF Inv, StepInv, Running, Saving, Marking, Opening
<1> QED
  BY <1>1, <1>8, <1>9 DEF PlanOK

\* A save whose file cannot be written is published by its log all the same.
LEMMA WriteMainFailsStep ==
    ASSUME Inv, ~behind, WriteMainFails
    PROVE  Inv'
BY PublishedStep DEF WriteMainFails

\* The log goes when the file says what it said; it may come back, and still does.
LEMMA RemoveLogStep ==
    ASSUME Inv, ~behind, RemoveCatalogLog
    PROVE  Inv'
<1>1. step = "remove log" /\ main = work.file
  BY DEF Inv, StepInv, RemoveCatalogLog
<1> QED
  BY <1>1, PublishedStep DEF RemoveCatalogLog

----------------------------------------------------------------------------
(* The manifest                                                            *)

\* A manifest replaces another one whole (rename) ...
LEMMA WriteManifestStep ==
    ASSUME Inv, ~behind, WriteManifest
    PROVE  Inv'
<1> USE DEF files, handle, ghosts
<1>1. FilesInv /\ DiskOK(disk) /\ InUse /\ MarkInv /\ step = "write manifest"
  BY DEF Inv, StepInv, WriteManifest, Running, Marking
<1>2. step' = "sync manifest" /\ manifest' = work
      /\ UNCHANGED <<disk, main, wal, durable, catalog, work, prepared, stored,
                     overtaken, behind>>
  BY DEF WriteManifest
<1>3. Lasting' = Lasting /\ Base' = Base /\ Base = catalog
      /\ Pending' \subseteq Pending \cup {work}
  BY <1>1, <1>2 DEF Lasting, Committed, Base, Marking, Pending
<1>4. Bound(disk, work, catalog, GensOf(Lasting, catalog))
  BY <1>1 DEF MarkInv
<1>5. work # Absent
  BY <1>4, FilesAssumption DEF Bound, ManifestOK
<1>6. FilesInv'
  BY <1>1, <1>2, <1>3, <1>5 DEF FilesInv, Committed
<1>7. InUse'
  BY <1>1, <1>2, <1>3, <1>4 DEF InUse, Intact, NotAhead, PreparedInv, Marking
<1>8. MarkInv'
  BY <1>1, <1>2, <1>3 DEF MarkInv
<1> QED
  BY <1>1, <1>2, <1>6, <1>7, <1>8 DEF Inv, StepInv, Running, Saving, Marking, Opening

\* ... and is durable when the directory is synced.
LEMMA SyncManifestStep ==
    ASSUME Inv, ~behind, SyncManifest
    PROVE  Inv'
<1> USE DEF files, handle, ghosts
<1>1. FilesInv /\ DiskOK(disk) /\ InUse /\ MarkInv /\ step = "sync manifest"
  BY DEF Inv, StepInv, SyncManifest, Running, Marking
<1>2. step' = "open" /\ durable' = manifest
      /\ prepared' = (IF work.phase = "unpublished" THEN work ELSE Absent)
      /\ UNCHANGED <<disk, main, wal, manifest, catalog, stored, overtaken, behind>>
  BY DEF SyncManifest
<1>3. Lasting' = Lasting /\ Base' = Base /\ Base = catalog
      /\ Pending' \subseteq Pending
  BY <1>1, <1>2 DEF Lasting, Committed, Base, Marking, Pending
<1>4. FilesInv'
  BY <1>1, <1>2, <1>3 DEF FilesInv, Committed
<1>5. PreparedInv'
  BY <1>1, <1>2, <1>3 DEF PreparedInv, MarkInv, Marking
<1>6. InUse'
  BY <1>1, <1>2, <1>3, <1>5 DEF InUse, Intact, NotAhead
<1> QED
  BY <1>1, <1>2, <1>4, <1>6 DEF Inv, StepInv, Running, Saving, Marking, Opening

\* A prepare that fails keeps its tree: the manifest may be durable all the same.
LEMMA ManifestFailsStep ==
    ASSUME Inv, ~behind, ManifestFails
    PROVE  Inv'
<1> USE DEF files, handle, ghosts
<1>1. FilesInv /\ DiskOK(disk) /\ InUse /\ step \in Marking
  BY DEF Inv, StepInv, ManifestFails, Running, Marking
<1>2. step' = "open" /\ prepared' = Absent
      /\ UNCHANGED <<disk, main, wal, manifest, durable, catalog, stored, overtaken, behind>>
  BY DEF ManifestFails
<1>3. Lasting' = Lasting /\ Base' = Base
  BY <1>1, <1>2 DEF Lasting, Committed, Base, Marking
<1>4. FilesInv'
  BY <1>1, <1>2, <1>3 DEF FilesInv, Committed, Marking
<1>5. InUse'
  BY <1>1, <1>2, <1>3, UseStays
<1> QED
  BY <1>1, <1>2, <1>4, <1>5 DEF Inv, StepInv, Running, Saving, Marking, Opening

\* The catalog file after table i moved to the staged tree t of manifest m.
LEMMA SwitchedFile ==
    ASSUME NEW f, FileOK(f), f.fmt = "v3", NEW m \in Manifests,
           NEW i \in DOMAIN f.shape, f.shape[i].root # m.staged, f.gens[i] = m.gen,
           NEW w \in Nat, w = TreeAt(disk, m.staged).width,
           NEW g, g = Switched(f, i, m)
    PROVE  /\ FileOK(g) /\ g.fmt = "v3" /\ Advance(f, g)
           /\ DOMAIN g.shape = DOMAIN f.shape /\ Len(g.shape) = Len(f.shape)
           /\ g.shape \in Shapes
           /\ g.shape[i].root = m.staged /\ g.shape[i].width = w
           /\ g.gens[i] = m.gen + 1
           /\ \A j \in DOMAIN f.shape : j # i =>
                 g.shape[j] = f.shape[j] /\ g.gens[j] = f.gens[j]
<1> DEFINE n == Len(f.shape)
           entry == [root |-> m.staged, width |-> w, columns |-> f.shape[i].columns]
           shape == [f.shape EXCEPT ![i] = entry]
           gens == [f.gens EXCEPT ![i] = m.gen + 1]
<1>1. /\ f \in [fmt : {"v2", "v3"}, shape : Shapes, ids : Seq(Nat), gens : Seq(Nat)]
      /\ f.shape \in Seq(Entries) /\ f.ids \in Seq(Nat) /\ f.gens \in Seq(Nat)
      /\ n \in Nat /\ n >= 1 /\ Len(f.ids) = n /\ Len(f.gens) = n
      /\ \A j \in 1 .. n : f.ids[j] = j /\ f.gens[j] \in Nat /\ f.gens[j] >= 1
      /\ DOMAIN f.shape = 1 .. n /\ DOMAIN f.gens = 1 .. n /\ DOMAIN f.ids = 1 .. n
  BY SMTT(60) DEF FileOK, CatalogFiles, Shapes
<1>2. f.shape[i] \in Entries /\ entry \in Entries /\ m.gen \in Nat
  <2>1. f.shape[i] \in Entries
    BY <1>1
  <2>2. f.shape[i].columns \in Nat
    BY <2>1 DEF Entries
  <2>3. m.staged \in Nat /\ m.gen \in Nat
    BY DEF Manifests
  <2> QED
    BY <2>1, <2>2, <2>3 DEF Entries
<1>3. /\ shape \in Seq(Entries) /\ Len(shape) = n /\ DOMAIN shape = 1 .. n
      /\ shape[i] = entry /\ \A j \in 1 .. n : j # i => shape[j] = f.shape[j]
  <2> HIDE DEF entry
  <2> QED
    BY <1>1, <1>2
<1>4. /\ gens \in Seq(Nat) /\ Len(gens) = n
      /\ gens[i] = m.gen + 1 /\ \A j \in 1 .. n : j # i => gens[j] = f.gens[j]
  BY <1>1, <1>2, SMTT(60)
<1>5. g = [f EXCEPT !.shape = shape, !.gens = gens]
  <2>1. g = [f EXCEPT !.shape[i] = entry, !.gens[i] = m.gen + 1]
    BY DEF Switched
  <2> QED
    BY <1>1, <2>1
<1>6. entry.root = m.staged /\ entry.width = w
  OBVIOUS
<1> HIDE DEF entry, shape, gens
<1>7. /\ g \in CatalogFiles /\ g.shape = shape /\ g.gens = gens
      /\ g.ids = f.ids /\ g.fmt = "v3"
  BY <1>1, <1>3, <1>4, <1>5 DEF CatalogFiles, Shapes
<1>8. FileOK(g)
  <2>1. Len(g.shape) = n /\ Len(g.ids) = n /\ Len(g.gens) = n
    BY <1>1, <1>3, <1>4, <1>7
  <2>2. ASSUME NEW j \in 1 .. n PROVE g.ids[j] = j /\ g.gens[j] >= 1
    <3>1. m.gen + 1 >= 1
      BY <1>2
    <3> QED
      BY <1>1, <1>4, <1>7, <3>1, ZenonT(60)
  <2> QED
    BY <1>1, <1>7, <2>1, <2>2 DEF FileOK
<1>9. Advance(f, g)
  <2>1. ASSUME NEW j \in DOMAIN f.ids
        PROVE  /\ g.ids[j] = f.ids[j]
               /\ g.gens[j] = IF g.shape[j] = f.shape[j] THEN f.gens[j] ELSE f.gens[j] + 1
    <3>1. CASE j = i
      <4>1. g.shape[j] # f.shape[j]
        BY <1>3, <1>6, <1>7, <3>1
      <4> QED
        BY <1>4, <1>7, <3>1, <4>1
    <3>2. CASE j # i
      BY <1>1, <1>3, <1>4, <1>7, <3>2
    <3> QED
      BY <3>1, <3>2
  <2> QED
    BY <1>1, <1>3, <1>7, <2>1, SMTT(60) DEF Advance
<1> QED
  BY <1>1, <1>3, <1>4, <1>6, <1>7, <1>8, <1>9 DEF Shapes

\* A catalog in which one table stands on another live tree.
LEMMA SwitchedCatalog ==
    ASSUME NEW d, DiskOK(d), NEW c, Sound(d, c), NEW t \in Alive(d),
           t.pages \cap LivePages(d, c) = {},
           NEW i \in DOMAIN c, i # 1,
           NEW s \in Shapes, Len(s) = Len(c), DOMAIN s = DOMAIN c,
           s[i].root = t.root, s[i].width = t.width,
           \A j \in DOMAIN c : j # i => s[j] = c[j]
    PROVE  /\ Sound(d, s) /\ TreeAt(d, s[i].root) = t
           /\ \A j \in DOMAIN c : j # i => TreeAt(d, s[j].root) = TreeAt(d, c[j].root)
<1>1. LiveTree(d, t.root) /\ TreeAt(d, t.root) = t
  BY AliveIsLive
<1>2. /\ \A j \in DOMAIN c : LiveTree(d, c[j].root)
      /\ \A j, k \in DOMAIN c : j < k =>
            TreeAt(d, c[j].root).pages \cap TreeAt(d, c[k].root).pages = {}
      /\ \A j \in DOMAIN c : TreeAt(d, c[j].root).width = c[j].width
      /\ 1 \in DOMAIN c /\ c \in Shapes
  <2>1. c \in Seq(Entries) /\ Len(c) >= 1
    BY DEF Sound, Shapes
  <2>2. 1 \in DOMAIN c
    BY <2>1
  <2> QED
    BY <2>1, <2>2 DEF Sound, LivePageMap, Shapes
<1>3. \A j \in DOMAIN c : TreeAt(d, c[j].root).pages \cap t.pages = {}
  BY DEF LivePages
<1>4. LivePageMap(d, s)
  <2>1. ASSUME NEW j \in DOMAIN s, NEW k \in DOMAIN s, j < k
        PROVE  TreeAt(d, s[j].root).pages \cap TreeAt(d, s[k].root).pages = {}
    <3>1. j # k
      BY <2>1 DEF Shapes
    <3> QED
      BY <1>1, <1>2, <1>3, <2>1, <3>1, ZenonT(60)
  <2> QED
    BY <1>1, <1>2, <2>1 DEF LivePageMap
<1> QED
  BY <1>1, <1>2, <1>4 DEF Sound

\* Publication switches the root to the staged tree, which has the table's rows,
\* and moves its generation.
LEMMA PublishCatalogStep ==
    ASSUME Inv, ~behind, PublishCatalog
    PROVE  Inv'
<1> USE DEF files, handle, ghosts
<1> DEFINE m == prepared
           i == m.table
           t == TreeAt(disk, m.staged)
           f == Authoritative
<1>1. FilesInv /\ DiskOK(disk) /\ InUse /\ step = "open" /\ m # Absent /\ behind = FALSE
      /\ AuthoritativeReadable
  BY DEF Inv, StepInv, PublishCatalog, Running
<1>2. step' = "write log" /\ behind' = (behind \/ main # Lasting)
      /\ UNCHANGED <<disk, main, wal, manifest, durable, catalog, prepared, stored, overtaken>>
  BY DEF PublishCatalog
<1>3. SUFFICES ASSUME ~behind' PROVE Inv'
  BY <1>1, <1>2 DEF Inv
<1>4. main = Lasting /\ (main = Absent \/ FileOK(main))
  BY <1>1, <1>2, <1>3, LastingFile
<1>5. Base = catalog /\ Intact(catalog)
  BY <1>1 DEF Base, InUse
<1>6. catalog \in Shapes /\ Len(catalog) >= 1 /\ Sound(disk, catalog) /\ catalog[1].root = 0
  BY <1>5 DEF Intact, Sound
<1>7. /\ manifest = m /\ durable = m /\ Pending = {m} /\ m.phase = "unpublished"
      /\ Bound(disk, m, catalog, GensOf(Lasting, catalog))
      /\ Copied(disk, m, GensOf(Lasting, catalog), stored, overtaken)
  BY <1>1, <1>5 DEF InUse, PreparedInv, Pending, Marking
<1>8. /\ m \in Manifests /\ i \in Nat /\ i \in DOMAIN catalog
      /\ m.staged \in m.claims /\ m.old \notin m.claims /\ m.old # 0
      /\ m.claims \cap disk.free = {} /\ m.gen \in Nat
  BY <1>7 DEF Bound, ManifestOK, Kept, Manifests
<1>9. /\ FileOK(f) /\ f.fmt = "v3" /\ f.shape = catalog
      /\ \A j \in DOMAIN catalog : f.gens[j] = Generation(main, j)
      /\ Slots(f, i) = {i}
  <2>1. IsV3(main) => main.shape = catalog
    BY <1>1 DEF AuthoritativeReadable
  <2> QED
    BY <1>4, <1>6, <1>8, <2>1, AuthoritativeIs
<1>10. /\ f.shape[i].root = m.old /\ f.gens[i] = m.gen
       /\ work' = Plan(Switched(f, i, m), catalog, "mark")
  BY <1>9 DEF PublishCatalog
<1>11. GensOf(Lasting, catalog)[i] = m.gen
  <2>1. \A j \in DOMAIN catalog : GensOf(Lasting, catalog)[j] = f.gens[j]
    <3>1. IsV3(main) => DOMAIN Shape(main) = DOMAIN catalog
      BY <1>1, <1>4, FileShape DEF AuthoritativeReadable
    <3> QED
      BY <1>4, <1>9, <3>1 DEF GensOf, Generation
  <2> QED
    BY <1>8, <1>10, <2>1
<1>12. /\ t \in Alive(disk) /\ t.root = m.staged /\ t.width \in Nat
       /\ t.pages = m.claims /\ t.pages \cap LivePages(disk, catalog) = {}
       /\ i \in overtaken \/ t.rows = stored[i]
  <2>1. m.claims \cap LivePages(disk, catalog) = {} /\ StagedTree(disk, m)
    BY <1>7, <1>8, <1>11 DEF Bound, Decidable
  <2>2. PICK u \in disk.trees : u.root = m.staged /\ u.pages = m.claims
    BY <2>1 DEF StagedTree
  <2>3. u = t /\ u \in Trees
    BY <1>1, <2>2, TreeOfRoot DEF DiskOK
  <2> QED
    BY <1>7, <1>8, <1>11, <2>1, <2>2, <2>3 DEF Alive, Trees, Copied
<1>13. PICK g : g = Switched(f, i, m)
  OBVIOUS
<1>14. /\ FileOK(g) /\ g.fmt = "v3" /\ Advance(f, g)
       /\ DOMAIN g.shape = DOMAIN catalog /\ Len(g.shape) = Len(catalog)
       /\ g.shape \in Shapes
       /\ g.shape[i].root = m.staged /\ g.shape[i].width = t.width
       /\ g.gens[i] = m.gen + 1
       /\ \A j \in DOMAIN catalog : j # i =>
             g.shape[j] = catalog[j] /\ g.gens[j] = f.gens[j]
  <2>1. f.shape[i].root # m.staged /\ i \in DOMAIN f.shape
    BY <1>8, <1>9, <1>10
  <2>2. PICK w : w = t.width
    OBVIOUS
  <2>3. FileOK(f) /\ f.fmt = "v3" /\ m \in Manifests /\ f.gens[i] = m.gen /\ w \in Nat
        /\ w = TreeAt(disk, m.staged).width
    BY <1>8, <1>9, <1>10, <1>12, <2>2
  <2> HIDE DEF f, m, i, t
  <2>4. /\ FileOK(g) /\ g.fmt = "v3" /\ Advance(f, g)
        /\ DOMAIN g.shape = DOMAIN f.shape /\ Len(g.shape) = Len(f.shape)
        /\ g.shape \in Shapes
        /\ g.shape[i].root = m.staged /\ g.shape[i].width = w
        /\ g.gens[i] = m.gen + 1
        /\ \A j \in DOMAIN f.shape : j # i =>
              g.shape[j] = f.shape[j] /\ g.gens[j] = f.gens[j]
    BY <1>13, <2>1, <2>3, SwitchedFile
  <2> QED
    BY <1>9, <2>2, <2>4
<1>15. i # 1
  BY <1>6, <1>8, <1>9, <1>10
<1>16. /\ Sound(disk, g.shape) /\ TreeAt(disk, g.shape[i].root) = t
       /\ \A j \in DOMAIN catalog : j # i =>
             TreeAt(disk, g.shape[j].root) = TreeAt(disk, catalog[j].root)
  <2>1. PICK s, u : s = g.shape /\ u = t
    OBVIOUS
  <2>2. PICK k : k = i
    OBVIOUS
  <2>3. /\ DiskOK(disk) /\ Sound(disk, catalog) /\ u \in Alive(disk)
        /\ u.pages \cap LivePages(disk, catalog) = {}
        /\ k \in DOMAIN catalog /\ k # 1
        /\ s \in Shapes /\ Len(s) = Len(catalog) /\ DOMAIN s = DOMAIN catalog
        /\ s[k].root = u.root /\ s[k].width = u.width
        /\ \A j \in DOMAIN catalog : j # k => s[j] = catalog[j]
    BY <1>1, <1>6, <1>8, <1>12, <1>14, <1>15, <2>1, <2>2
  <2>4. /\ Sound(disk, s) /\ TreeAt(disk, s[k].root) = u
        /\ \A j \in DOMAIN catalog : j # k =>
              TreeAt(disk, s[j].root) = TreeAt(disk, catalog[j].root)
    BY ONLY <2>3, SwitchedCatalog
  <2> QED
    BY <2>1, <2>2, <2>4
<1>17. Complete(disk, g.shape, stored, overtaken)
  BY <1>5, <1>12, <1>14, <1>16 DEF Intact, Complete
<1>18. Bound(disk, m, g.shape, g.gens)
  <2>1. ManifestOK(disk, m) /\ Kept(disk, m, g.shape)
    BY <1>7, <1>14 DEF Bound, Kept
  <2>2. \A j \in DOMAIN g.shape : j # i => g.shape[j].root # m.old
    BY <1>7, <1>14 DEF Bound, Decidable
  <2>3. g.gens[i] >= m.gen /\ g.gens[i] # m.gen
    BY <1>8, <1>14
  <2>4. g.shape[i].root \in {m.old, m.staged}
    BY <1>14
  <2> HIDE DEF m
  <2> QED
    BY <2>1, <2>2, <2>3, <2>4 DEF Bound, Decidable
<1>19. Copied(disk, m, g.gens, stored, overtaken)
  BY <1>8, <1>14 DEF Copied
<1>20. Advance(main, g)
  <2>1. CASE IsV3(main)
    <3>1. f = main
      BY <2>1 DEF Authoritative
    <3> QED
      BY <1>14, <3>1
  <2>2. CASE ~ IsV3(main)
    BY <2>2 DEF Advance
  <2> QED
    BY <2>1, <2>2
<1>21. work' = [file |-> g, undo |-> catalog, next |-> "mark"]
  BY <1>10, <1>13 DEF Plan
<1>22. Lasting' = Lasting /\ Base' = Base /\ Pending' = Pending
       /\ work'.file = g /\ work'.next = "mark"
  BY <1>2, <1>5, <1>21 DEF Lasting, Committed, Base, Marking, Pending
<1> HIDE DEF m, i, t, f
<1>23. FilesInv'
  BY <1>1, <1>2, <1>22 DEF FilesInv, Committed
<1>24. InUse'
  BY <1>1, <1>2, <1>22, UseStays DEF Marking
<1>25. PlanOK'
  BY <1>1, <1>2, <1>8, <1>14, <1>22 DEF PlanOK, m, i
<1>26. WriteLogInv'
  <2>1. Intact(work.file.shape)'
    BY <1>2, <1>16, <1>17, <1>22 DEF Intact
  <2>2. \A n \in Pending : n = m
    BY <1>7
  <2> QED
    BY <1>2, <1>4, <1>18, <1>19, <1>20, <1>22, <2>1, <2>2 DEF WriteLogInv, m
<1> QED
  BY <1>1, <1>2, <1>23, <1>24, <1>25, <1>26
  DEF Inv, StepInv, Running, Saving, Marking, Opening

----------------------------------------------------------------------------
(* Statements                                                              *)

\* A statement that needs no page claims none.
LEMMA NothingClaimed ==
    ASSUME NEW d, DiskOK(d)
    PROVE  {} \in Claims(d, 0) /\ Claimed(d, {}) = d
<1>1. d \in [num : Nat, free : SUBSET Nat, trees : SUBSET Trees]
      /\ d.free \subseteq 1 .. d.num - 1
  BY DEF DiskOK
<1>2. IsFiniteSet(d.free)
  <2>1. IsFiniteSet(1 .. d.num - 1)
    BY <1>1, FS_Interval
  <2> QED
    BY <1>1, <2>1, FS_Subset
<1>3. {} \in Claims(d, 0)
  <2>1. Cardinality(d.free) \in Nat /\ Cardinality({}) = 0
    BY <1>2, FS_CardinalityType, FS_EmptySet
  <2> QED
    BY <2>1 DEF Claims, kSubset
<1>4. PICK e : e = Claimed(d, {})
  OBVIOUS
<1>5. /\ e.num \in Nat /\ e.num >= d.num
      /\ e = [num |-> e.num, free |-> d.free \ {}, trees |-> d.trees]
      /\ d.num .. e.num - 1 \subseteq {}
  BY <1>3, <1>4, ClaimedDisk
<1>6. e.num = d.num
  BY <1>1, <1>5
<1>7. PICK N : N = e.num
  OBVIOUS
<1>8. e = [num |-> N, free |-> d.free, trees |-> d.trees] /\ N = d.num
  BY <1>5, <1>6, <1>7
<1> QED
  BY <1>1, <1>3, <1>4, <1>8

\* A statement that writes a tree to fresh pages and to those of its own table.
LEMMA PutInUse ==
    ASSUME Inv, ~behind, step = "open", NEW t, NEW kept, Puts(disk, disk', t, kept),
           \A i \in DOMAIN catalog :
              \/ TreeAt(disk, catalog[i].root).pages \cap kept = {}
              \/ /\ TreeAt(disk, catalog[i].root).pages = kept
                 /\ t.root = catalog[i].root /\ t.width = catalog[i].width,
           kept \subseteq LivePages(disk, catalog), UNCHANGED files
    PROVE  /\ DiskOK(disk') /\ t \in Alive(disk') /\ Sound(disk', catalog)
           /\ \A i \in DOMAIN catalog :
                 TreeAt(disk', catalog[i].root) =
                    IF TreeAt(disk, catalog[i].root).pages = kept THEN t
                    ELSE TreeAt(disk, catalog[i].root)
           /\ LivePages(disk', catalog) \subseteq LivePages(disk, catalog) \cup t.pages
           /\ Lasting' = Lasting
           /\ wal' \in {Absent, Torn} \/ (FileOK(wal') /\ Committed(wal)')
           /\ \A m \in Pending :
                 /\ Bound(disk', m, catalog, GensOf(Lasting, catalog))
                 /\ GensOf(Lasting, catalog)[m.table] = m.gen =>
                       \A s \in disk'.trees : s.root = m.staged => s \in disk.trees
<1> USE DEF files
<1>1. FilesInv /\ DiskOK(disk) /\ InUse /\ Base = catalog
  BY DEF Inv, StepInv, Running, Base
<1>2. Extends(catalog, Shape(Lasting)) /\ Sound(disk, catalog)
      /\ \A m \in Pending : Bound(disk, m, catalog, GensOf(Lasting, catalog))
  BY <1>1 DEF InUse, Intact
<1>3. PICK e : e = disk'
  OBVIOUS
<1>4. Puts(disk, e, t, kept)
  BY <1>3
<1>5. /\ DiskOK(e) /\ t \in Alive(e)
  BY <1>1, <1>4, PutDisk
<1>6. /\ Sound(e, catalog)
      /\ \A i \in DOMAIN catalog :
            TreeAt(e, catalog[i].root) =
               IF TreeAt(disk, catalog[i].root).pages = kept THEN t
               ELSE TreeAt(disk, catalog[i].root)
  BY <1>1, <1>2, <1>4, PutCatalog
<1>7. LivePages(e, catalog) \subseteq LivePages(disk, catalog) \cup t.pages
  BY <1>6 DEF LivePages
<1>8. ASSUME NEW m \in Pending
      PROVE  /\ Bound(e, m, catalog, GensOf(Lasting, catalog))
             /\ GensOf(Lasting, catalog)[m.table] = m.gen =>
                   \A s \in e.trees : s.root = m.staged => s \in disk.trees
  <2>1. PICK g : g = GensOf(Lasting, catalog)
    OBVIOUS
  <2>2. Bound(disk, m, catalog, g)
    BY <1>2, <2>1
  <2>3. /\ Bound(e, m, catalog, g)
        /\ m.table \in DOMAIN catalog /\ g[m.table] = m.gen =>
              \A s \in e.trees : s.root = m.staged => s \in Alive(disk)
    BY <1>1, <1>2, <1>4, <2>2, PutBound
  <2> QED
    BY <2>1, <2>2, <2>3 DEF Bound, Kept, Alive
<1>9. /\ Lasting' = Lasting
      /\ wal' \in {Absent, Torn} \/ (FileOK(wal') /\ Committed(wal)')
  <2>1. CASE wal \in {Absent, Torn}
    BY <2>1 DEF Lasting, Committed, Decodes
  <2>2. CASE wal \notin {Absent, Torn}
    <3>1. Lasting = wal /\ Decodes(wal) /\ FileOK(wal) /\ Shape(wal) = wal.shape
          /\ Shape(Lasting) \in Shapes /\ Len(Shape(Lasting)) >= 1
      BY <1>1, <2>2, LastingFile, FileShape DEF FilesInv
    <3>2. Sound(e, Shape(Lasting))
      BY <1>2, <1>6, <3>1, PrefixSound
    <3>3. StructuralRoots(e, wal.shape)
      BY <3>1, <3>2, SoundRoots
    <3>4. Committed(wal)'
      BY <1>3, <3>1, <3>3 DEF Committed
    <3> QED
      BY <3>1, <3>4 DEF Lasting
  <2> QED
    BY <2>1, <2>2
<1>10. \A m \in Pending :
          /\ Bound(disk', m, catalog, GensOf(Lasting, catalog))
          /\ GensOf(Lasting, catalog)[m.table] = m.gen =>
                \A s \in disk'.trees : s.root = m.staged => s \in disk.trees
  BY <1>3, <1>8
<1>11. \A i \in DOMAIN catalog :
          TreeAt(disk', catalog[i].root) =
             IF TreeAt(disk, catalog[i].root).pages = kept THEN t
             ELSE TreeAt(disk, catalog[i].root)
  BY <1>3, <1>6
<1>12. DiskOK(disk') /\ t \in Alive(disk') /\ Sound(disk', catalog)
       /\ LivePages(disk', catalog) \subseteq LivePages(disk, catalog) \cup t.pages
  BY <1>3, <1>5, <1>6, <1>7
<1> QED
  BY <1>9, <1>10, <1>11, <1>12

\* The facts that statements start from.
LEMMA OpenFacts ==
    ASSUME Inv, ~behind, step = "open"
    PROVE  /\ FilesInv /\ DiskOK(disk) /\ InUse /\ Base = catalog
           /\ Extends(catalog, Shape(Lasting))
           /\ catalog \in Shapes /\ Len(catalog) >= 1 /\ catalog[1].root = 0
           /\ DOMAIN catalog = 1 .. Len(catalog)
           /\ Sound(disk, catalog) /\ Complete(disk, catalog, stored, overtaken)
           /\ stored \in Seq(Nat) /\ Len(catalog) <= Len(stored)
           /\ DOMAIN catalog \subseteq DOMAIN stored
           /\ \A m \in Pending : Bound(disk, m, catalog, GensOf(Lasting, catalog))
           /\ NotAhead
           /\ prepared # Absent =>
                 /\ manifest = prepared /\ durable = prepared /\ prepared \in Pending
                 /\ prepared.phase = "unpublished"
                 /\ Copied(disk, prepared, GensOf(Lasting, catalog), stored, overtaken)
<1>1. FilesInv /\ DiskOK(disk) /\ InUse /\ Base = catalog
  BY DEF Inv, StepInv, Running, Base
<1>2. Extends(catalog, Shape(Lasting)) /\ Sound(disk, catalog) /\ NotAhead
      /\ Complete(disk, catalog, stored, overtaken)
      /\ \A m \in Pending : Bound(disk, m, catalog, GensOf(Lasting, catalog))
  BY <1>1 DEF InUse, Intact
<1>3. prepared # Absent =>
         /\ manifest = prepared /\ durable = prepared /\ prepared \in Pending
         /\ prepared.phase = "unpublished"
         /\ Copied(disk, prepared, GensOf(Lasting, catalog), stored, overtaken)
  BY <1>1 DEF InUse, PreparedInv, Marking, Pending
<1>4. catalog \in Shapes /\ Len(catalog) >= 1 /\ catalog[1].root = 0
  BY <1>2 DEF Sound
<1>5. stored \in Seq(Nat) /\ Len(catalog) <= Len(stored)
  BY <1>1, <1>2 DEF FilesInv, Complete
<1>6. DOMAIN catalog = 1 .. Len(catalog) /\ DOMAIN catalog \subseteq DOMAIN stored
  BY <1>4, <1>5 DEF Shapes
<1> QED
  BY <1>1, <1>2, <1>3, <1>4, <1>5, <1>6

\* The tree of a table, and that no other table has its pages.
LEMMA TableTree ==
    ASSUME NEW d, DiskOK(d), NEW shape, Sound(d, shape), NEW i \in DOMAIN shape
    PROVE  LET t == TreeAt(d, shape[i].root) IN
           /\ t \in Trees /\ t \in Alive(d) /\ t.root = shape[i].root
           /\ t.root \in t.pages /\ t.width = shape[i].width
           /\ t.pages \subseteq LivePages(d, shape)
           /\ \A j \in DOMAIN shape : j # i =>
                 TreeAt(d, shape[j].root).pages \cap t.pages = {}
                 /\ TreeAt(d, shape[j].root).pages # t.pages
<1> DEFINE t == TreeAt(d, shape[i].root)
<1>1. /\ t \in Trees /\ t \in Alive(d) /\ t.root = shape[i].root
      /\ t.root \in t.pages /\ t.width = shape[i].width
  BY LiveTreeIsAlive DEF Sound, LivePageMap
<1>2. t.pages \subseteq LivePages(d, shape)
  BY DEF LivePages
<1>3. ASSUME NEW j \in DOMAIN shape, j # i
      PROVE  TreeAt(d, shape[j].root).pages \cap t.pages = {}
  <2>1. i \in Nat /\ j \in Nat
    BY DEF Sound, Shapes
  <2>2. i < j \/ j < i
    BY <1>3, <2>1
  <2> QED
    BY <2>2 DEF Sound, LivePageMap
<1> QED
  BY <1>1, <1>2, <1>3

\* A statement that changes rows puts one tree, in place or over new pages.
LEMMA RowsPut ==
    ASSUME Inv, ~behind, NEW i \in DOMAIN catalog, NEW n \in {0, 1},
           NEW pages \in Claims(disk, n), NEW exact \in BOOLEAN,
           Rows(i, TreeAt(disk, catalog[i].root), exact, pages)
    PROVE  LET t == TreeAt(disk, catalog[i].root) IN
           \E u : /\ u \in Trees /\ u.root = t.root /\ u.pages = t.pages \cup pages
                 /\ u.width = t.width /\ u.rows = t.rows + 1
                 /\ Puts(disk, disk', u, t.pages)
<1>1. step = "open"
  BY DEF Rows
<1>2. DiskOK(disk) /\ catalog \in Shapes /\ Sound(disk, catalog)
  BY <1>1, OpenFacts
<1>3. PICK t : t = TreeAt(disk, catalog[i].root)
  OBVIOUS
<1>4. /\ t \in Trees /\ t \in Alive(disk) /\ t.root = catalog[i].root
      /\ t.root \in t.pages /\ t.width = catalog[i].width
      /\ t.pages \subseteq LivePages(disk, catalog)
      /\ \A j \in DOMAIN catalog : j # i =>
            TreeAt(disk, catalog[j].root).pages \cap t.pages = {}
            /\ TreeAt(disk, catalog[j].root).pages # t.pages
  <2>1. DiskOK(disk) /\ Sound(disk, catalog)
    BY <1>2
  <2> QED
    BY ONLY <1>3, <2>1, i \in DOMAIN catalog, TableTree, SMTT(60)
<1>5. PICK u : u = [t EXCEPT !.rows = @ + 1, !.exact = exact, !.pages = @ \cup pages]
  OBVIOUS
<1>6. disk' = Write(Claimed(disk, pages), u)
  BY <1>3, <1>5 DEF Rows
<1>7. pages \subseteq Nat
  <2>1. disk.num \in Nat
    BY <1>2 DEF DiskOK
  <2> QED
    BY <1>2, <2>1, ClaimedPages
<1>8. /\ u \in Trees /\ u.root = t.root /\ u.pages = t.pages \cup pages
      /\ u.width = t.width /\ u.rows = t.rows + 1 /\ t.rows \in Nat
  <2>1. t \in [root : Nat, pages : SUBSET Nat, kind : {"v1", "v2"},
               exact : BOOLEAN, width : Nat, rows : Nat]
    BY <1>4 DEF Trees
  <2>2. u = [root |-> t.root, pages |-> t.pages \cup pages, kind |-> t.kind,
             exact |-> exact, width |-> t.width, rows |-> t.rows + 1]
    BY <1>5, <2>1
  <2>3. /\ t.root \in Nat /\ t.pages \subseteq Nat /\ t.kind \in {"v1", "v2"}
        /\ t.width \in Nat /\ t.rows \in Nat
    BY <2>1
  <2>4. u.root = t.root /\ u.pages = t.pages \cup pages /\ u.width = t.width
        /\ u.rows = t.rows + 1
    BY <2>2
  <2>5. t.pages \cup pages \in SUBSET Nat /\ t.rows + 1 \in Nat
    <3>1. t.pages \cup pages \in SUBSET Nat
      BY <1>7, <2>3
    <3> QED
      BY <2>3, <3>1
  <2>6. u \in Trees
    BY <2>2, <2>3, <2>5, Zenon DEF Trees
  <2> QED
    BY <2>3, <2>4, <2>6
<1>9. Puts(disk, disk', u, t.pages)
  BY <1>2, <1>4, <1>6, <1>8, WriteClaimed
<1> QED
  BY <1>3, <1>8, <1>9

\* A statement that changes rows rewrites one tree, in place or over new pages.
LEMMA RowsStep ==
    ASSUME Inv, ~behind, NEW i \in DOMAIN catalog, NEW n \in {0, 1},
           NEW pages \in Claims(disk, n), NEW exact \in BOOLEAN,
           Rows(i, TreeAt(disk, catalog[i].root), exact, pages)
    PROVE  Inv'
<1> USE DEF files, handle, ghosts
<1>1. step = "open" /\ step' = "open"
      /\ UNCHANGED <<main, wal, manifest, durable, catalog, prepared, behind>>
      /\ stored' = [stored EXCEPT ![i] = @ + 1]
      /\ overtaken' = (IF Staged(i) THEN overtaken \cup {i} ELSE overtaken)
  BY DEF Rows
<1>2. /\ FilesInv /\ DiskOK(disk) /\ Base = catalog
      /\ Extends(catalog, Shape(Lasting))
      /\ catalog \in Shapes /\ Sound(disk, catalog)
      /\ Complete(disk, catalog, stored, overtaken)
      /\ stored \in Seq(Nat) /\ Len(catalog) <= Len(stored)
      /\ DOMAIN catalog \subseteq DOMAIN stored
      /\ NotAhead
      /\ prepared # Absent =>
            /\ manifest = prepared /\ durable = prepared /\ prepared \in Pending
            /\ prepared.phase = "unpublished"
            /\ Copied(disk, prepared, GensOf(Lasting, catalog), stored, overtaken)
  BY <1>1, OpenFacts
<1>3. PICK t : t = TreeAt(disk, catalog[i].root)
  OBVIOUS
<1>4. /\ t \in Trees /\ t \in Alive(disk) /\ t.root = catalog[i].root
      /\ t.root \in t.pages /\ t.width = catalog[i].width
      /\ t.pages \subseteq LivePages(disk, catalog)
      /\ \A j \in DOMAIN catalog : j # i =>
            TreeAt(disk, catalog[j].root).pages \cap t.pages = {}
            /\ TreeAt(disk, catalog[j].root).pages # t.pages
  <2>1. DiskOK(disk) /\ Sound(disk, catalog)
    BY <1>2
  <2> QED
    BY ONLY <1>3, <2>1, i \in DOMAIN catalog, TableTree
<1>5. PICK u : /\ u \in Trees /\ u.root = t.root /\ u.pages = t.pages \cup pages
               /\ u.width = t.width /\ u.rows = t.rows + 1
               /\ Puts(disk, disk', u, t.pages)
  BY <1>3, RowsPut
<1>6. t.rows \in Nat
  BY <1>4 DEF Trees
<1>10. /\ DiskOK(disk') /\ Sound(disk', catalog)
       /\ \A j \in DOMAIN catalog :
             TreeAt(disk', catalog[j].root) =
                IF TreeAt(disk, catalog[j].root).pages = t.pages THEN u
                ELSE TreeAt(disk, catalog[j].root)
       /\ Lasting' = Lasting
       /\ wal' \in {Absent, Torn} \/ (FileOK(wal') /\ Committed(wal)')
       /\ \A m \in Pending :
             /\ Bound(disk', m, catalog, GensOf(Lasting, catalog))
             /\ GensOf(Lasting, catalog)[m.table] = m.gen =>
                   \A s \in disk'.trees : s.root = m.staged => s \in disk.trees
  <2>1. \A j \in DOMAIN catalog :
           \/ TreeAt(disk, catalog[j].root).pages \cap t.pages = {}
           \/ /\ TreeAt(disk, catalog[j].root).pages = t.pages
              /\ u.root = catalog[j].root /\ u.width = catalog[j].width
    BY <1>3, <1>4, <1>5, <1>6
  <2> QED
    BY <1>1, <1>4, <1>5, <2>1, PutInUse
<1>11. /\ stored' \in Seq(Nat) /\ Len(stored') = Len(stored)
       /\ stored'[i] = stored[i] + 1
       /\ \A j \in DOMAIN stored : j # i => stored'[j] = stored[j]
  BY <1>1, <1>2
<1>12. overtaken \subseteq overtaken'
  BY <1>1
<1>13. Complete(disk', catalog, stored', overtaken')
  <2>1. ASSUME NEW j \in DOMAIN catalog
        PROVE  j \in overtaken' \/ TreeAt(disk', catalog[j].root).rows = stored'[j]
    <3>1. j \in overtaken \/ TreeAt(disk, catalog[j].root).rows = stored[j]
      BY <1>2 DEF Complete
    <3>2. CASE j = i
      <4>1. TreeAt(disk', catalog[j].root) = u
        BY <1>3, <1>10, <3>2
      <4> QED
        BY <1>3, <1>5, <1>6, <1>11, <1>12, <3>1, <3>2, <4>1
    <3>3. CASE j # i
      BY <1>2, <1>4, <1>10, <1>11, <1>12, <3>1, <3>3
    <3> QED
      BY <3>2, <3>3
  <2> QED
    BY <1>2, <1>11, <2>1 DEF Complete
<1>14. Base' = catalog /\ Pending' = Pending
  BY <1>1 DEF Base, Pending
<1>15. PreparedInv'
  <2>1. SUFFICES ASSUME prepared # Absent
                 PROVE  Copied(disk', prepared, GensOf(Lasting, catalog), stored',
                               overtaken')
    BY <1>1, <1>2, <1>10, <1>14, <2>1 DEF PreparedInv
  <2>2. SUFFICES ASSUME GensOf(Lasting, catalog)[prepared.table] = prepared.gen,
                        NEW s \in disk'.trees, s.root = prepared.staged
                 PROVE  prepared.table \in overtaken' \/ s.rows = stored'[prepared.table]
    BY <2>2 DEF Copied
  <2>3. Bound(disk', prepared, catalog, GensOf(Lasting, catalog)) /\ s \in disk.trees
    BY <1>2, <1>10, <2>1, <2>2
  <2>4. prepared.table \in DOMAIN catalog
        /\ catalog[prepared.table].root = prepared.old
    BY <2>2, <2>3 DEF Bound, Kept, Decidable
  <2>5. prepared.table \in overtaken \/ s.rows = stored[prepared.table]
    BY <1>2, <2>1, <2>2, <2>3 DEF Copied
  <2>6. CASE prepared.table = i
    <3>1. Staged(i)
      BY <2>1, <2>4, <2>6 DEF Staged
    <3> QED
      BY <1>1, <2>6, <3>1
  <2>7. CASE prepared.table # i
    BY <1>2, <1>11, <1>12, <2>4, <2>5, <2>7
  <2> QED
    BY <2>6, <2>7
<1>16. InUse'
  BY <1>1, <1>2, <1>10, <1>13, <1>14, <1>15 DEF InUse, Intact, NotAhead
<1>17. FilesInv'
  BY <1>1, <1>2, <1>10, <1>11 DEF FilesInv
<1> QED
  BY <1>1, <1>2, <1>10, <1>16, <1>17 DEF Inv, StepInv, Running, Saving, Marking, Opening

\* INSERT may grow the tree by a page ...
LEMMA InsertStep ==
    ASSUME Inv, ~behind, step = "open", NEW i \in DOMAIN catalog, Insert(i)
    PROVE  Inv'
<1>1. PICK n \in {0, 1} : \E pages \in Claims(disk, n) :
         Rows(i, TreeAt(disk, catalog[i].root), TreeAt(disk, catalog[i].root).exact, pages)
  BY DEF Insert
<1>2. TreeAt(disk, catalog[i].root).exact \in BOOLEAN
  BY OpenFacts, TableTree DEF Trees
<1> QED
  BY <1>1, <1>2, RowsStep

\* ... DELETE claims none, and may leave a separator that is not exact.
LEMMA DeleteStep ==
    ASSUME Inv, ~behind, step = "open", NEW i \in DOMAIN catalog, Delete(i)
    PROVE  Inv'
<1>1. Rows(i, TreeAt(disk, catalog[i].root), FALSE, {})
  BY DEF Delete
<1>2. {} \in Claims(disk, 0)
  BY OpenFacts, NothingClaimed
<1> QED
  BY <1>1, <1>2, RowsStep

\* A change of the columns of a table is none of its tree.
LEMMA SameRoots ==
    ASSUME NEW d, NEW c, Sound(d, c), NEW s \in Shapes, Len(s) = Len(c),
           \A i \in DOMAIN c : s[i].root = c[i].root /\ s[i].width = c[i].width
    PROVE  /\ Sound(d, s) /\ LivePages(d, s) = LivePages(d, c) /\ DOMAIN s = DOMAIN c
           /\ \A f : GensOf(f, s) = GensOf(f, c)
<1>1. DOMAIN s = DOMAIN c /\ 1 \in DOMAIN c /\ Len(c) >= 1
  <2>1. c \in Seq(Entries) /\ s \in Seq(Entries) /\ Len(c) >= 1
    BY DEF Sound, Shapes
  <2> QED
    BY <2>1
<1>2. LivePages(d, s) = LivePages(d, c)
  BY <1>1 DEF LivePages
<1>3. LivePageMap(d, s)
  BY <1>1 DEF Sound, LivePageMap
<1>4. Sound(d, s)
  BY <1>1, <1>3 DEF Sound
<1> QED
  BY <1>1, <1>2, <1>4 DEF GensOf

\* What a manifest says depends on the roots of a catalog and not on its columns.
LEMMA SameRootsBound ==
    ASSUME NEW d, NEW c, NEW s, DOMAIN s = DOMAIN c,
           \A i \in DOMAIN c : s[i].root = c[i].root,
           LivePages(d, s) = LivePages(d, c), NEW m, NEW g, Bound(d, m, c, g)
    PROVE  Bound(d, m, s, g)
BY DEF Bound, Kept, Decidable

\* ADD COLUMN rewrites the table's tree over its own pages.
LEMMA AlterPut ==
    ASSUME Inv, ~behind, step = "open", NEW i \in DOMAIN catalog, AlterTable(i)
    PROVE  LET t == TreeAt(disk, catalog[i].root) IN
           \E u : /\ u \in Trees /\ u.root = t.root /\ u.pages = t.pages
                 /\ u.width = t.width /\ u.rows = t.rows
                 /\ Puts(disk, disk', u, t.pages)
<1>2. DiskOK(disk) /\ catalog \in Shapes /\ Sound(disk, catalog)
  BY OpenFacts
<1>3. PICK t : t = TreeAt(disk, catalog[i].root)
  OBVIOUS
<1>4. /\ t \in Trees /\ t \in Alive(disk) /\ t.root = catalog[i].root
      /\ t.root \in t.pages /\ t.width = catalog[i].width
      /\ t.pages \subseteq LivePages(disk, catalog)
      /\ \A j \in DOMAIN catalog : j # i =>
            TreeAt(disk, catalog[j].root).pages \cap t.pages = {}
            /\ TreeAt(disk, catalog[j].root).pages # t.pages
  <2>1. DiskOK(disk) /\ Sound(disk, catalog)
    BY <1>2
  <2> QED
    BY ONLY <1>3, <2>1, i \in DOMAIN catalog, TableTree, SMTT(60)
<1>5. PICK kind \in {"v1", "v2"} : disk' = Write(disk, [t EXCEPT !.kind = kind])
  BY <1>3 DEF AlterTable
<1>6. PICK u : u = [t EXCEPT !.kind = kind]
  OBVIOUS
<1>7. /\ u \in Trees /\ u.root = t.root /\ u.pages = t.pages
      /\ u.width = t.width /\ u.rows = t.rows
  <2>1. t \in [root : Nat, pages : SUBSET Nat, kind : {"v1", "v2"},
               exact : BOOLEAN, width : Nat, rows : Nat]
    BY <1>4 DEF Trees
  <2>2. u = [root |-> t.root, pages |-> t.pages, kind |-> kind,
             exact |-> t.exact, width |-> t.width, rows |-> t.rows]
    BY <1>6, <2>1
  <2>3. u.root = t.root /\ u.pages = t.pages /\ u.width = t.width /\ u.rows = t.rows
    BY <2>2
  <2>4. u \in Trees
    BY <2>1, <2>2, Zenon DEF Trees
  <2> QED
    BY <2>3, <2>4
<1>8. Puts(disk, disk', u, t.pages)
  <2>1. {} \in Claims(disk, 0) /\ Claimed(disk, {}) = disk
    BY <1>2, NothingClaimed
  <2>2. disk' = Write(Claimed(disk, {}), u)
    BY <1>5, <1>6, <2>1
  <2>3. u.root \in u.pages /\ u.pages = t.pages \cup {}
    BY <1>4, <1>7
  <2> QED
    BY <1>2, <1>4, <1>7, <2>1, <2>2, <2>3, WriteClaimed
<1> QED
  BY <1>3, <1>7, <1>8

\* ADD COLUMN changes a catalog entry and no page.
LEMMA AlterTableStep ==
    ASSUME Inv, ~behind, step = "open", NEW i \in DOMAIN catalog, AlterTable(i)
    PROVE  Inv'
<1> USE DEF files, handle, ghosts
<1>1. /\ step' = "save" /\ work' = catalog
      /\ catalog' = [catalog EXCEPT ![i].columns = @ + 1]
      /\ UNCHANGED <<main, wal, manifest, durable, prepared, stored, overtaken, behind>>
  BY DEF AlterTable
<1>2. /\ FilesInv /\ DiskOK(disk) /\ Base = catalog
      /\ Extends(catalog, Shape(Lasting))
      /\ catalog \in Shapes /\ Sound(disk, catalog)
      /\ Complete(disk, catalog, stored, overtaken)
      /\ Len(catalog) <= Len(stored)
      /\ NotAhead
      /\ prepared # Absent =>
            /\ manifest = prepared /\ durable = prepared /\ prepared \in Pending
            /\ prepared.phase = "unpublished"
            /\ Copied(disk, prepared, GensOf(Lasting, catalog), stored, overtaken)
  BY <1>1, OpenFacts
<1>3. PICK t : t = TreeAt(disk, catalog[i].root)
  OBVIOUS
<1>4. /\ t \in Trees /\ t \in Alive(disk) /\ t.root = catalog[i].root
      /\ t.root \in t.pages /\ t.width = catalog[i].width
      /\ t.pages \subseteq LivePages(disk, catalog)
      /\ \A j \in DOMAIN catalog : j # i =>
            TreeAt(disk, catalog[j].root).pages \cap t.pages = {}
            /\ TreeAt(disk, catalog[j].root).pages # t.pages
  <2>1. DiskOK(disk) /\ Sound(disk, catalog)
    BY <1>2
  <2> QED
    BY ONLY <1>3, <2>1, i \in DOMAIN catalog, TableTree
<1>5. PICK u : /\ u \in Trees /\ u.root = t.root /\ u.pages = t.pages
               /\ u.width = t.width /\ u.rows = t.rows
               /\ Puts(disk, disk', u, t.pages)
  BY <1>3, AlterPut
<1>9. /\ DiskOK(disk') /\ Sound(disk', catalog)
      /\ \A j \in DOMAIN catalog :
            TreeAt(disk', catalog[j].root) =
               IF TreeAt(disk, catalog[j].root).pages = t.pages THEN u
               ELSE TreeAt(disk, catalog[j].root)
      /\ Lasting' = Lasting
      /\ wal' \in {Absent, Torn} \/ (FileOK(wal') /\ Committed(wal)')
      /\ \A m \in Pending :
            /\ Bound(disk', m, catalog, GensOf(Lasting, catalog))
            /\ GensOf(Lasting, catalog)[m.table] = m.gen =>
                  \A s \in disk'.trees : s.root = m.staged => s \in disk.trees
  <2>1. \A j \in DOMAIN catalog :
           \/ TreeAt(disk, catalog[j].root).pages \cap t.pages = {}
           \/ /\ TreeAt(disk, catalog[j].root).pages = t.pages
              /\ u.root = catalog[j].root /\ u.width = catalog[j].width
    BY <1>3, <1>4, <1>5
  <2> QED
    BY <1>1, <1>4, <1>5, <2>1, PutInUse DEF AlterTable
<1>10. Complete(disk', catalog, stored, overtaken)
  <2>1. ASSUME NEW j \in DOMAIN catalog
        PROVE  TreeAt(disk', catalog[j].root).rows = TreeAt(disk, catalog[j].root).rows
    <3>1. CASE j = i
      BY <1>3, <1>5, <1>9, <3>1
    <3>2. CASE j # i
      BY <1>4, <1>9, <3>2
    <3> QED
      BY <3>1, <3>2
  <2> QED
    BY <1>2, <2>1 DEF Complete
<1>11. Base' = catalog /\ Pending' = Pending
  BY <1>1 DEF Base, Pending, Marking
<1>12. prepared # Absent =>
          Copied(disk', prepared, GensOf(Lasting, catalog), stored, overtaken)
  BY <1>2, <1>9 DEF Copied
<1>13. InUse'
  <2>1. PreparedInv'
    BY <1>1, <1>2, <1>9, <1>11, <1>12 DEF PreparedInv
  <2> QED
    BY <1>1, <1>2, <1>9, <1>10, <1>11, <2>1 DEF InUse, Intact, NotAhead
<1>14. PICK s : s = catalog'
  OBVIOUS
<1>15. /\ s \in Shapes /\ Len(s) = Len(catalog)
       /\ \A j \in DOMAIN catalog : s[j].root = catalog[j].root
                                    /\ s[j].width = catalog[j].width
  <2>1. catalog \in Seq(Entries)
    BY <1>2 DEF Shapes
  <2>2. catalog[i] \in [root : Nat, width : Nat, columns : Nat]
    <3>1. catalog[i] \in Entries
      BY <2>1
    <3> QED
      BY <3>1 DEF Entries
  <2>3. PICK x : x = [root |-> catalog[i].root, width |-> catalog[i].width,
                      columns |-> catalog[i].columns + 1]
    OBVIOUS
  <2>4. x \in Entries /\ x.root = catalog[i].root /\ x.width = catalog[i].width
    BY <2>2, <2>3 DEF Entries
  <2>5. s = [catalog EXCEPT ![i] = x]
    <3>1. PICK y : y = catalog[i]
      OBVIOUS
    <3>2. [y EXCEPT !.columns = y.columns + 1] = x
      BY <2>2, <2>3, <3>1
    <3>3. s = [catalog EXCEPT ![i] = [y EXCEPT !.columns = y.columns + 1]]
      BY <1>1, <1>14, <3>1
    <3> QED
      BY <3>2, <3>3
  <2> QED
    BY <2>1, <2>4, <2>5 DEF Shapes
<1>16. /\ Sound(disk', s) /\ LivePages(disk', s) = LivePages(disk', catalog)
       /\ DOMAIN s = DOMAIN catalog
       /\ GensOf(Lasting, s) = GensOf(Lasting, catalog)
  <2>1. PICK e : e = disk'
    OBVIOUS
  <2>2. Sound(e, catalog)
    BY <1>9, <2>1
  <2>3. /\ Sound(e, s) /\ LivePages(e, s) = LivePages(e, catalog)
        /\ DOMAIN s = DOMAIN catalog
        /\ \A f : GensOf(f, s) = GensOf(f, catalog)
    BY ONLY <1>15, <2>2, SameRoots
  <2> QED
    BY <2>1, <2>3
<1>17. Complete(disk', s, stored, overtaken)
  BY <1>10, <1>15, <1>16 DEF Complete
<1>18. ASSUME NEW m \in Pending PROVE Bound(disk', m, s, GensOf(Lasting, s))
  BY <1>9, <1>15, <1>16, SameRootsBound
<1>19. SaveInv'
  <2>1. Intact(catalog)'
    BY <1>1, <1>14, <1>16, <1>17 DEF Intact
  <2>2. Len(work') <= Len(catalog')
        /\ \A j \in DOMAIN work' : catalog'[j].root = work'[j].root
    <3>1. Len(catalog) \in Nat
      BY <1>2 DEF Shapes
    <3> QED
      BY <1>1, <1>14, <1>15, <3>1
  <2> QED
    BY <1>1, <1>9, <1>11, <1>12, <1>14, <1>16, <1>18, <2>1, <2>2 DEF SaveInv
<1>20. FilesInv'
  BY <1>1, <1>2, <1>9 DEF FilesInv, AlterTable
<1> QED
  BY <1>1, <1>9, <1>13, <1>19, <1>20 DEF Inv, StepInv, Running, Saving, Marking, Opening

\* A catalog with one more table, on a tree of its own.
LEMMA OneMore ==
    ASSUME NEW d, DiskOK(d), NEW c, Sound(d, c), NEW t \in Alive(d),
           t.pages \cap LivePages(d, c) = {},
           NEW x \in Entries, x.root = t.root, x.width = t.width,
           NEW s \in Shapes, Len(s) = Len(c) + 1, s[Len(s)] = x,
           \A i \in DOMAIN c : s[i] = c[i]
    PROVE  /\ Sound(d, s) /\ TreeAt(d, x.root) = t
           /\ LivePages(d, s) \subseteq LivePages(d, c) \cup t.pages
<1>1. c \in Seq(Entries) /\ Len(c) >= 1 /\ Len(c) \in Nat /\ c[1].root = 0
  BY DEF Sound, Shapes
<1>2. /\ s \in Seq(Entries) /\ Len(s) = Len(c) + 1
      /\ DOMAIN s = DOMAIN c \cup {Len(s)} /\ Len(s) \notin DOMAIN c
      /\ \A i \in DOMAIN c : s[i] = c[i] /\ i < Len(s)
      /\ s[Len(s)] = x
  BY <1>1 DEF Shapes
<1>3. LiveTree(d, x.root) /\ TreeAt(d, x.root) = t
  BY AliveIsLive
<1>4. /\ \A i \in DOMAIN c : LiveTree(d, c[i].root)
      /\ \A i, j \in DOMAIN c : i < j =>
            TreeAt(d, c[i].root).pages \cap TreeAt(d, c[j].root).pages = {}
      /\ \A i \in DOMAIN c : TreeAt(d, c[i].root).width = c[i].width
  BY DEF Sound, LivePageMap
<1>5. \A i \in DOMAIN c : TreeAt(d, c[i].root).pages \cap t.pages = {}
  BY DEF LivePages
<1>6. LivePageMap(d, s)
  <2>1. ASSUME NEW i \in DOMAIN s, NEW j \in DOMAIN s, i < j
        PROVE  TreeAt(d, s[i].root).pages \cap TreeAt(d, s[j].root).pages = {}
    <3>1. i \in DOMAIN c
      BY <1>1, <1>2, <2>1
    <3>2. CASE j \in DOMAIN c
      BY <1>2, <1>4, <2>1, <3>1, <3>2
    <3>3. CASE j = Len(s)
      BY <1>2, <1>3, <1>5, <3>1, <3>3
    <3> QED
      BY <1>2, <3>2, <3>3
  <2>2. \A i \in DOMAIN s : LiveTree(d, s[i].root)
    BY <1>2, <1>3, <1>4
  <2> QED
    BY <2>1, <2>2 DEF LivePageMap
<1>7. \A i \in DOMAIN s : TreeAt(d, s[i].root).width = s[i].width
  BY <1>2, <1>3, <1>4
<1>8. Sound(d, s)
  <2>1. 1 \in DOMAIN c
    BY <1>1
  <2> QED
    BY <1>1, <1>2, <1>6, <1>7, <2>1 DEF Sound, Shapes
<1>9. LivePages(d, s) \subseteq LivePages(d, c) \cup t.pages
  BY <1>2, <1>3 DEF LivePages
<1> QED
  BY <1>2, <1>3, <1>8, <1>9

\* A statement that writes a tree to fresh pages only.
LEMMA FreshInUse ==
    ASSUME Inv, ~behind, step = "open", NEW t, Puts(disk, disk', t, {}), UNCHANGED files
    PROVE  /\ DiskOK(disk') /\ t \in Alive(disk') /\ Sound(disk', catalog)
           /\ \A i \in DOMAIN catalog :
                 TreeAt(disk', catalog[i].root) = TreeAt(disk, catalog[i].root)
           /\ t.pages \cap LivePages(disk', catalog) = {}
           /\ t.pages \cap LivePages(disk, catalog) = {}
           /\ t.pages \subseteq 1 .. disk'.num - 1
           /\ Lasting' = Lasting
           /\ wal' \in {Absent, Torn} \/ (FileOK(wal') /\ Committed(wal)')
           /\ \A m \in Pending :
                 /\ Bound(disk', m, catalog, GensOf(Lasting, catalog))
                 /\ m.claims \cap t.pages = {} /\ m.old \notin t.pages
                 /\ GensOf(Lasting, catalog)[m.table] = m.gen =>
                       \A s \in disk'.trees : s.root = m.staged => s \in disk.trees
<1> USE DEF files
<1>1. /\ DiskOK(disk) /\ Sound(disk, catalog) /\ catalog \in Shapes
      /\ Len(catalog) >= 1 /\ catalog[1].root = 0 /\ DOMAIN catalog = 1 .. Len(catalog)
      /\ \A m \in Pending : Bound(disk, m, catalog, GensOf(Lasting, catalog))
  BY OpenFacts
<1>2. \A i \in DOMAIN catalog : TreeAt(disk, catalog[i].root).pages # {}
  BY <1>1, TableTree
<1>3. /\ DiskOK(disk') /\ t \in Alive(disk') /\ Sound(disk', catalog)
      /\ \A i \in DOMAIN catalog :
            TreeAt(disk', catalog[i].root) =
               IF TreeAt(disk, catalog[i].root).pages = {} THEN t
               ELSE TreeAt(disk, catalog[i].root)
      /\ Lasting' = Lasting
      /\ wal' \in {Absent, Torn} \/ (FileOK(wal') /\ Committed(wal)')
      /\ \A m \in Pending :
            /\ Bound(disk', m, catalog, GensOf(Lasting, catalog))
            /\ GensOf(Lasting, catalog)[m.table] = m.gen =>
                  \A s \in disk'.trees : s.root = m.staged => s \in disk.trees
  <2>1. PICK kept : kept = {}
    OBVIOUS
  <2>2. /\ Puts(disk, disk', t, kept) /\ kept \subseteq LivePages(disk, catalog)
        /\ \A i \in DOMAIN catalog :
              \/ TreeAt(disk, catalog[i].root).pages \cap kept = {}
              \/ /\ TreeAt(disk, catalog[i].root).pages = kept
                 /\ t.root = catalog[i].root /\ t.width = catalog[i].width
    BY <2>1
  <2>3. /\ DiskOK(disk') /\ t \in Alive(disk') /\ Sound(disk', catalog)
        /\ \A i \in DOMAIN catalog :
              TreeAt(disk', catalog[i].root) =
                 IF TreeAt(disk, catalog[i].root).pages = kept THEN t
                 ELSE TreeAt(disk, catalog[i].root)
        /\ Lasting' = Lasting
        /\ wal' \in {Absent, Torn} \/ (FileOK(wal') /\ Committed(wal)')
        /\ \A m \in Pending :
              /\ Bound(disk', m, catalog, GensOf(Lasting, catalog))
              /\ GensOf(Lasting, catalog)[m.table] = m.gen =>
                    \A s \in disk'.trees : s.root = m.staged => s \in disk.trees
    BY <2>2, PutInUse
  <2> QED
    BY <2>1, <2>3
<1>4. \A i \in DOMAIN catalog :
         TreeAt(disk', catalog[i].root) = TreeAt(disk, catalog[i].root)
  BY <1>2, <1>3
<1>5. /\ \A p \in t.pages : p \in disk.free \/ p >= disk.num
      /\ t.pages \subseteq 0 .. disk'.num - 1
  BY DEF Puts
<1>6. disk.num \in Nat /\ disk.free \subseteq 1 .. disk.num - 1
  BY <1>1 DEF DiskOK
<1>7. /\ LivePages(disk, catalog) \subseteq 0 .. disk.num - 1
      /\ LivePages(disk, catalog) \cap disk.free = {}
      /\ \A i \in DOMAIN catalog : catalog[i].root \in LivePages(disk, catalog)
  BY <1>1, LivePagesInUse
<1>8. LivePages(disk', catalog) = LivePages(disk, catalog)
  BY <1>4 DEF LivePages
<1>9. t.pages \cap LivePages(disk, catalog) = {}
  BY <1>5, <1>6, <1>7
<1>10. 0 \in LivePages(disk, catalog)
  <2>1. 1 \in DOMAIN catalog
    BY <1>1 DEF Shapes
  <2> QED
    BY <1>1, <1>7, <2>1
<1>11. t.pages \subseteq 1 .. disk'.num - 1
  <2>1. 0 \notin t.pages
    BY <1>9, <1>10
  <2>2. disk'.num \in Nat
    BY <1>3 DEF DiskOK
  <2> QED
    BY <1>5, <2>1, <2>2
<1>12. ASSUME NEW m \in Pending
       PROVE  m.claims \cap t.pages = {} /\ m.old \notin t.pages
  <2>1. /\ m.claims \subseteq 1 .. disk.num - 1 /\ m.old \in 1 .. disk.num - 1
        /\ m.claims \cap disk.free = {} /\ m.old \notin disk.free
    BY <1>1 DEF Bound, ManifestOK, Kept
  <2> QED
    BY <1>5, <1>6, <2>1
<1> QED
  BY <1>3, <1>4, <1>8, <1>9, <1>11, <1>12

\* CREATE TABLE puts a tree of one page, which was nobody's.
LEMMA CreatePut ==
    ASSUME Inv, ~behind, CreateTable
    PROVE  \E t : /\ t \in Trees /\ t.root \in t.pages
                 /\ t.width = 0 /\ t.rows = 0
                 /\ Puts(disk, disk', t, {})
                 /\ catalog' = Append(catalog, [root |-> t.root, width |-> 0, columns |-> 0])
<1>1. step = "open"
  BY DEF CreateTable
<1>2. DiskOK(disk)
  BY <1>1, OpenFacts
<1>3. PICK pages \in Claims(disk, 1) :
         /\ disk' = Write(Claimed(disk, pages), Tree(Max(pages), pages, "v1", TRUE, 0, 0))
         /\ catalog' = Append(catalog, [root |-> Max(pages), width |-> 0, columns |-> 0])
  BY DEF CreateTable
<1>4. Max(pages) \in pages /\ pages \subseteq Nat
  <2>1. disk.num \in Nat /\ disk.num + 1 \in Nat
    BY <1>2 DEF DiskOK
  <2>2. pages \subseteq 0 .. disk.num + 1 /\ pages # {}
    BY <1>2, ClaimedPages
  <2>3. PICK b : b = disk.num + 1
    OBVIOUS
  <2>4. b \in Nat /\ pages \subseteq 0 .. b /\ pages # {}
    BY <2>1, <2>2, <2>3
  <2>5. Max(pages) \in pages
    BY <2>4, MaxIsGreatest
  <2> QED
    BY <2>4, <2>5
<1>5. PICK root : root = Max(pages)
  OBVIOUS
<1>6. PICK t : t = Tree(root, pages, "v1", TRUE, 0, 0)
  OBVIOUS
<1>7. t \in Trees /\ t.root = root /\ t.pages = pages /\ t.width = 0 /\ t.rows = 0
  BY <1>4, <1>5, <1>6 DEF Tree, Trees
<1>8. Puts(disk, disk', t, {})
  <2>1. disk' = Write(Claimed(disk, pages), t)
    BY <1>3, <1>5, <1>6
  <2> QED
    BY <1>2, <1>4, <1>5, <1>7, <2>1, WriteClaimed
<1> QED
  BY <1>3, <1>4, <1>5, <1>7, <1>8

\* CREATE TABLE checkpoints the pages of its table before the catalog is saved.
LEMMA CreateTableStep ==
    ASSUME Inv, ~behind, CreateTable
    PROVE  Inv'
<1> USE DEF files, handle, ghosts
<1> DEFINE n == Len(catalog)
<1>1. /\ step = "open" /\ step' = "save" /\ work' = catalog'
      /\ stored' = Append(SubSeq(stored, 1, n), 0)
      /\ UNCHANGED <<main, wal, manifest, durable, prepared, overtaken, behind>>
  BY DEF CreateTable
<1>2. /\ FilesInv /\ DiskOK(disk) /\ Base = catalog
      /\ Extends(catalog, Shape(Lasting))
      /\ catalog \in Shapes /\ Sound(disk, catalog)
      /\ n \in Nat /\ n >= 1 /\ DOMAIN catalog = 1 .. n
      /\ Complete(disk, catalog, stored, overtaken)
      /\ stored \in Seq(Nat) /\ n <= Len(stored) /\ Len(stored) \in Nat
      /\ NotAhead
      /\ prepared # Absent =>
            /\ manifest = prepared /\ durable = prepared /\ prepared \in Pending
            /\ prepared.phase = "unpublished"
            /\ Copied(disk, prepared, GensOf(Lasting, catalog), stored, overtaken)
  BY <1>1, OpenFacts DEF Shapes
<1>3. PICK t : /\ t \in Trees /\ t.root \in t.pages
               /\ t.width = 0 /\ t.rows = 0
               /\ Puts(disk, disk', t, {})
               /\ catalog' = Append(catalog, [root |-> t.root, width |-> 0, columns |-> 0])
  BY CreatePut
<1>4. PICK root : root = t.root
  OBVIOUS
<1>5. root \in Nat
  BY <1>3, <1>4 DEF Trees
<1>9. /\ DiskOK(disk') /\ t \in Alive(disk') /\ Sound(disk', catalog)
      /\ \A i \in DOMAIN catalog :
            TreeAt(disk', catalog[i].root) = TreeAt(disk, catalog[i].root)
      /\ t.pages \cap LivePages(disk', catalog) = {}
      /\ Lasting' = Lasting
      /\ wal' \in {Absent, Torn} \/ (FileOK(wal') /\ Committed(wal)')
      /\ \A m \in Pending :
            /\ Bound(disk', m, catalog, GensOf(Lasting, catalog))
            /\ m.claims \cap t.pages = {} /\ m.old \notin t.pages
            /\ GensOf(Lasting, catalog)[m.table] = m.gen =>
                  \A s \in disk'.trees : s.root = m.staged => s \in disk.trees
  BY <1>1, <1>3, FreshInUse
<1>10. PICK x : x = [root |-> root, width |-> 0, columns |-> 0]
  OBVIOUS
<1>11. x \in Entries /\ x.root = t.root /\ x.width = t.width /\ x.root \in t.pages
  BY <1>4, <1>5, <1>3, <1>10 DEF Entries
<1>12. PICK s : s = catalog'
  OBVIOUS
<1>13. /\ Sound(disk', s) /\ Len(s) = n + 1
       /\ DOMAIN s = DOMAIN catalog \cup {n + 1} /\ n + 1 \notin DOMAIN catalog
       /\ \A i \in DOMAIN catalog : s[i] = catalog[i]
       /\ s[n + 1] = x /\ TreeAt(disk', x.root) = t
       /\ LivePages(disk', s) \subseteq LivePages(disk', catalog) \cup t.pages
  <2>1. s = Append(catalog, x)
    BY <1>3, <1>4, <1>10, <1>12
  <2>2. PICK e : e = disk'
    OBVIOUS
  <2>3. PICK c : c = catalog
    OBVIOUS
  <2>4. s \in Shapes /\ Len(s) = Len(c) + 1 /\ s[Len(s)] = x
        /\ \A i \in DOMAIN c : s[i] = c[i]
    BY <1>2, <1>11, <2>1, <2>3 DEF Shapes
  <2>5. /\ DiskOK(e) /\ Sound(e, c) /\ t \in Alive(e)
        /\ t.pages \cap LivePages(e, c) = {}
        /\ x \in Entries /\ x.root = t.root /\ x.width = t.width
    BY <1>9, <1>11, <2>2, <2>3
  <2>6. /\ Sound(e, s) /\ TreeAt(e, x.root) = t
        /\ LivePages(e, s) \subseteq LivePages(e, c) \cup t.pages
    BY ONLY <2>4, <2>5, OneMore
  <2>7. DOMAIN s = DOMAIN c \cup {Len(s)} /\ Len(s) \notin DOMAIN c
    BY <1>2, <2>3, <2>4 DEF Shapes
  <2> QED
    BY <2>2, <2>3, <2>4, <2>6, <2>7
<1>14. /\ stored' \in Seq(Nat) /\ Len(stored') = n + 1 /\ stored'[n + 1] = 0
       /\ \A i \in 1 .. n : stored'[i] = stored[i]
  <2>1. PICK r : r = SubSeq(stored, 1, n)
    OBVIOUS
  <2>2. \A i \in 1 .. n : stored[i] \in Nat
    BY <1>2
  <2>3. r \in Seq(Nat) /\ Len(r) = n /\ \A i \in 1 .. n : r[i] = stored[i]
    <3> HIDE DEF n
    <3>1. /\ r \in Seq(Nat) /\ Len(r) = (IF 1 <= n THEN n - 1 + 1 ELSE 0)
          /\ \A i \in 1 .. n - 1 + 1 : r[i] = stored[1 + i - 1]
      BY <1>2, <2>1, <2>2, SubSeqProperties
    <3> QED
      BY <1>2, <3>1
  <2>4. stored' = Append(r, 0)
    BY <1>1, <2>1
  <2> HIDE DEF n
  <2> QED
    BY <1>2, <2>3, <2>4
<1> HIDE DEF n
<1>15. Complete(disk', s, stored', overtaken)
  <2>1. ASSUME NEW i \in DOMAIN s
        PROVE  i \in overtaken \/ TreeAt(disk', s[i].root).rows = stored'[i]
    <3>1. CASE i \in DOMAIN catalog
      <4>1. i \in overtaken \/ TreeAt(disk, catalog[i].root).rows = stored[i]
        BY <1>2, <3>1 DEF Complete
      <4> QED
        BY <1>2, <1>9, <1>13, <1>14, <3>1, <4>1
    <3>2. CASE i = n + 1
      BY <1>3, <1>13, <1>14, <3>2
    <3> QED
      BY <1>13, <3>1, <3>2
  <2>2. Len(s) <= Len(stored')
    BY <1>2, <1>13, <1>14
  <2> QED
    BY <2>1, <2>2 DEF Complete
<1>16. Base' = s /\ Pending' = Pending
  BY <1>1, <1>12 DEF Base, Pending, Marking
<1>17. \A i \in DOMAIN catalog : GensOf(Lasting, s)[i] = GensOf(Lasting, catalog)[i]
  BY <1>13 DEF GensOf
<1>18. ASSUME NEW m \in Pending PROVE Bound(disk', m, s, GensOf(Lasting, s))
  <2>1. PICK e, g, h : e = disk' /\ g = GensOf(Lasting, catalog) /\ h = GensOf(Lasting, s)
    OBVIOUS
  <2>2. /\ Bound(e, m, catalog, g) /\ m.claims \cap t.pages = {} /\ m.old \notin t.pages
        /\ LivePages(e, s) \subseteq LivePages(e, catalog) \cup t.pages
    BY <1>9, <1>13, <2>1
  <2>3. m.table \in DOMAIN catalog /\ h[m.table] = g[m.table] /\ m.table \in DOMAIN s
        /\ s[m.table] = catalog[m.table]
    BY <1>13, <1>17, <2>1, <2>2 DEF Bound, Kept
  <2>4. \A j \in DOMAIN s : j # m.table => s[j].root # m.old
    BY <1>11, <1>13, <2>2 DEF Bound, Decidable
  <2>5. Decidable(e, m, s, h)
    BY <2>2, <2>3, <2>4 DEF Bound, Decidable
  <2> QED
    BY <2>1, <2>2, <2>3, <2>5 DEF Bound, Kept
<1>19. prepared # Absent =>
          Copied(disk', prepared, GensOf(Lasting, s), stored', overtaken)
  <2>1. SUFFICES ASSUME prepared # Absent
                 PROVE  Copied(disk', prepared, GensOf(Lasting, s), stored', overtaken)
    OBVIOUS
  <2>2. prepared.table \in DOMAIN catalog
    BY <1>2, <1>9, <2>1 DEF Bound, Kept
  <2> QED
    BY <1>2, <1>9, <1>14, <1>17, <2>1, <2>2, ZenonT(60) DEF Copied
<1>20. Extends(s, Shape(Lasting))
  <2>1. Shape(Lasting) \in Shapes
    BY <1>2, LastingFile, FileShape
  <2>2. Len(Shape(Lasting)) \in Nat /\ DOMAIN Shape(Lasting) = 1 .. Len(Shape(Lasting))
    BY <2>1 DEF Shapes
  <2> QED
    BY <1>2, <1>13, <2>2 DEF Extends
<1>21. InUse'
  <2>1. PreparedInv'
    BY <1>1, <1>2, <1>9, <1>16, <1>19 DEF PreparedInv
  <2>2. Intact(Base)'
    BY <1>1, <1>13, <1>15, <1>16 DEF Intact
  <2> QED
    BY <1>1, <1>2, <1>9, <1>16, <1>18, <1>20, <2>1, <2>2 DEF InUse, NotAhead
<1>22. SaveInv'
  <2>1. Intact(catalog)'
    BY <1>1, <1>12, <1>13, <1>15 DEF Intact
  <2>2. Len(s) \in Nat
    BY <1>2, <1>13
  <2> QED
    BY <1>1, <1>9, <1>12, <1>16, <1>18, <1>19, <2>1, <2>2 DEF SaveInv
<1>23. FilesInv'
  BY <1>1, <1>2, <1>9, <1>14 DEF FilesInv
<1> QED
  BY <1>1, <1>9, <1>21, <1>22, <1>23 DEF Inv, StepInv, Running, Saving, Marking, Opening

\* The main file never knows a later generation than the catalog that lasts.
LEMMA GenerationKnown ==
    ASSUME FilesInv, NotAhead, catalog \in Shapes,
           IsV3(main) => main.shape = catalog, NEW i \in DOMAIN catalog
    PROVE  /\ Generation(main, i) \in Nat /\ GensOf(Lasting, catalog)[i] \in Nat
           /\ GensOf(Lasting, catalog)[i] >= Generation(main, i)
<1> DEFINE f == Lasting
<1>1. f = Absent \/ FileOK(f)
  BY LastingFile
<1>2. IsV3(f) => /\ FileOK(f) /\ f.fmt = "v3" /\ Shape(f) = f.shape
                 /\ \A j \in DOMAIN f.shape : f.gens[j] \in Nat /\ f.gens[j] >= 1
  <2>1. SUFFICES ASSUME IsV3(f)
                 PROVE  /\ FileOK(f) /\ f.fmt = "v3" /\ Shape(f) = f.shape
                        /\ \A j \in DOMAIN f.shape : f.gens[j] \in Nat /\ f.gens[j] >= 1
    OBVIOUS
  <2>2. FileOK(f) /\ f.fmt = "v3" /\ Shape(f) = f.shape
    BY <1>1, <2>1, FileShape
  <2>3. /\ f.shape \in Seq(Entries) /\ f.gens \in Seq(Nat) /\ Len(f.gens) = Len(f.shape)
        /\ \A j \in 1 .. Len(f.shape) : f.gens[j] >= 1
    BY <2>2 DEF FileOK, CatalogFiles, Shapes
  <2> QED
    BY <2>2, <2>3, SMTT(60)
<1>3. CASE IsV3(main)
  <2>1. /\ IsV3(f) /\ main.shape = catalog /\ Len(main.shape) <= Len(f.shape)
        /\ main.gens[i] <= f.gens[i]
    BY <1>3 DEF NotAhead
  <2>2. i \in DOMAIN f.shape
    <3>1. f.shape \in Seq(Entries) /\ catalog \in Seq(Entries)
      BY <1>2, <2>1 DEF FileOK, CatalogFiles, Shapes
    <3> QED
      BY <2>1, <3>1
  <2>3. GensOf(f, catalog)[i] = f.gens[i] /\ Generation(main, i) = main.gens[i]
    BY <1>2, <1>3, <2>1, <2>2 DEF GensOf, Generation
  <2>4. main.gens[i] \in Nat
    <3>1. FileOK(main)
      BY <1>3 DEF FilesInv, IsV3, Decodes
    <3>2. main.gens \in Seq(Nat) /\ main.fmt = "v3" /\ main.shape \in Seq(Entries)
      BY <1>3, <3>1 DEF FileOK, CatalogFiles, Shapes, IsV3
    <3>3. Len(main.gens) = Len(main.shape)
      BY <3>1, <3>2 DEF FileOK
    <3> QED
      BY <2>1, <3>2, <3>3
  <2>5. f.gens[i] \in Nat
    BY <1>2, <2>1, <2>2
  <2> QED
    BY <2>1, <2>3, <2>4, <2>5
<1>4. CASE ~ IsV3(main)
  <2>1. Generation(main, i) = 1
    BY <1>4 DEF Generation
  <2>2. GensOf(f, catalog)[i] \in Nat /\ GensOf(f, catalog)[i] >= 1
    BY <1>2 DEF GensOf, Generation
  <2> QED
    BY <2>1, <2>2
<1> QED
  BY <1>3, <1>4

\* A repack copies the rows into pages of its own.
LEMMA StageStep ==
    ASSUME Inv, ~behind, NEW i \in DOMAIN catalog, Stage(i)
    PROVE  Inv'
<1> USE DEF files, handle, ghosts
<1>1. /\ step = "open" /\ step' = "write manifest" /\ AuthoritativeReadable
      /\ prepared' = Absent
      /\ UNCHANGED <<main, wal, manifest, durable, catalog, stored, overtaken, behind>>
  BY DEF Stage
<1>2. /\ FilesInv /\ DiskOK(disk) /\ Base = catalog
      /\ Extends(catalog, Shape(Lasting))
      /\ catalog \in Shapes /\ Len(catalog) >= 1 /\ Sound(disk, catalog)
      /\ Complete(disk, catalog, stored, overtaken)
      /\ NotAhead
  BY <1>1, OpenFacts
<1>3. PICK t : t = TreeAt(disk, catalog[i].root)
  OBVIOUS
<1>4. /\ t \in Trees /\ t \in Alive(disk) /\ t.root = catalog[i].root
      /\ t.root \in t.pages /\ t.width = catalog[i].width
      /\ t.pages \subseteq LivePages(disk, catalog)
      /\ \A j \in DOMAIN catalog : j # i =>
            TreeAt(disk, catalog[j].root).pages \cap t.pages = {}
            /\ TreeAt(disk, catalog[j].root).pages # t.pages
  <2>1. DiskOK(disk) /\ Sound(disk, catalog)
    BY <1>2
  <2> QED
    BY ONLY <1>3, <2>1, i \in DOMAIN catalog, TableTree
<1>5. PICK pages \in Claims(disk, StagePages) :
         /\ disk' = Write(Claimed(disk, pages), StagedCopy(t, pages))
         /\ work' = Manifest(Authoritative.ids[i], t.root, Max(pages),
                             Authoritative.gens[i], pages, "unpublished")
  BY <1>3 DEF Stage
<1>6. t.root # 0
  BY <1>3 DEF Stage
<1>7. Max(pages) \in pages /\ pages \subseteq Nat
  <2>1. PICK b : b = disk.num + StagePages
    OBVIOUS
  <2>2. StagePages \in Nat /\ StagePages > 0 /\ disk.num \in Nat
    BY <1>2, FilesAssumption DEF DiskOK
  <2>3. pages \subseteq 0 .. disk.num + StagePages /\ pages # {}
    BY <1>2, <2>2, ClaimedPages
  <2>4. b \in Nat /\ pages \subseteq 0 .. b /\ pages # {}
    BY <2>1, <2>2, <2>3
  <2>5. Max(pages) \in pages
    BY <2>4, MaxIsGreatest
  <2> QED
    BY <2>4, <2>5
<1>8. PICK root : root = Max(pages)
  OBVIOUS
<1>9. PICK u : u = StagedCopy(t, pages)
  OBVIOUS
<1>10. /\ u \in Trees /\ u.root = root /\ u.pages = pages
       /\ u.rows = t.rows
  <2>1. t.width + 1 \in Nat /\ t.rows \in Nat
    BY <1>4 DEF Trees
  <2>2. root \in Nat /\ pages \in SUBSET Nat
    BY <1>7, <1>8
  <2>3. u = [root |-> root, pages |-> pages, kind |-> "v2", exact |-> TRUE,
             width |-> t.width + 1, rows |-> t.rows]
    BY <1>8, <1>9 DEF StagedCopy, Tree
  <2>4. u \in Trees
    BY <2>1, <2>2, <2>3, Zenon DEF Trees
  <2>5. u.root = root /\ u.pages = pages /\ u.rows = t.rows
    BY <2>3
  <2> QED
    BY <2>4, <2>5
<1>11. Puts(disk, disk', u, {})
  <2>1. disk' = Write(Claimed(disk, pages), u)
    BY <1>5, <1>9
  <2>2. StagePages \in Nat
    BY FilesAssumption
  <2> QED
    BY <1>2, <1>7, <1>8, <1>10, <2>1, <2>2, WriteClaimed
<1>12. /\ DiskOK(disk') /\ u \in Alive(disk') /\ Sound(disk', catalog)
       /\ \A j \in DOMAIN catalog :
             TreeAt(disk', catalog[j].root) = TreeAt(disk, catalog[j].root)
       /\ u.pages \cap LivePages(disk', catalog) = {}
       /\ u.pages \cap LivePages(disk, catalog) = {}
       /\ u.pages \subseteq 1 .. disk'.num - 1
       /\ Lasting' = Lasting
       /\ wal' \in {Absent, Torn} \/ (FileOK(wal') /\ Committed(wal)')
       /\ \A m \in Pending : Bound(disk', m, catalog, GensOf(Lasting, catalog))
  BY <1>1, <1>11, FreshInUse
<1>13. Complete(disk', catalog, stored, overtaken)
  BY <1>2, <1>12 DEF Complete
<1>14. Base' = catalog /\ Pending' = Pending
  BY <1>1 DEF Base, Pending, Marking
<1>15. IsV3(main) => main.shape = catalog
  BY <1>1 DEF AuthoritativeReadable
<1>16. PICK gen : gen = Generation(main, i)
  OBVIOUS
<1>17. Authoritative.ids[i] = i /\ Authoritative.gens[i] = gen
  <2>1. main \in {Absent, Short} \/ FileOK(main)
    BY <1>1, <1>2 DEF AuthoritativeReadable, FilesInv
  <2> QED
    BY <1>2, <1>15, <1>16, <2>1, AuthoritativeIs
<1>18. gen \in Nat /\ GensOf(Lasting, catalog)[i] >= gen
  BY <1>2, <1>15, <1>16, GenerationKnown
<1>19. PICK m : m = work'
  OBVIOUS
<1>20. /\ m \in Manifests /\ m.table = i /\ m.old = t.root /\ m.staged = root
       /\ m.gen = gen /\ m.claims = pages /\ m.phase = "unpublished"
  <2>1. m = [table |-> i, old |-> t.root, staged |-> root, gen |-> gen,
             claims |-> pages, phase |-> "unpublished"]
    BY <1>5, <1>8, <1>17, <1>19 DEF Manifest
  <2>2. /\ i \in Nat /\ t.root \in Nat /\ root \in Nat /\ gen \in Nat
        /\ pages \in SUBSET Nat
    <3>1. i \in Nat
      BY <1>2 DEF Shapes
    <3>2. t.root \in Nat
      BY <1>4 DEF Trees
    <3> QED
      BY <1>7, <1>8, <1>18, <3>1, <3>2
  <2> QED
    BY <2>1, <2>2 DEF Manifests
<1>21. /\ t.root \in LivePages(disk', catalog) /\ t.root \in 1 .. disk'.num - 1
       /\ t.root \notin disk'.free /\ t.root \notin pages
  <2>1. t.root \in LivePages(disk', catalog)
    BY <1>3, <1>4, <1>12 DEF LivePages
  <2>2. LivePages(disk', catalog) \subseteq 0 .. disk'.num - 1
        /\ LivePages(disk', catalog) \cap disk'.free = {}
    <3>1. PICK e : e = disk'
      OBVIOUS
    <3>2. DiskOK(e) /\ Sound(e, catalog)
      BY <1>12, <3>1
    <3>3. LivePages(e, catalog) \subseteq 0 .. e.num - 1
          /\ LivePages(e, catalog) \cap e.free = {}
      BY <3>2, LivePagesInUse
    <3> QED
      BY <3>1, <3>3
  <2>3. disk'.num \in Nat
    BY <1>12 DEF DiskOK
  <2> QED
    BY <1>6, <1>10, <1>12, <2>1, <2>2, <2>3
<1>22. Bound(disk', m, catalog, GensOf(Lasting, catalog))
  <2>1. PICK e, g : e = disk' /\ g = GensOf(Lasting, catalog)
    OBVIOUS
  <2>2. ManifestOK(e, m)
    BY <1>7, <1>8, <1>10, <1>12, <1>20, <1>21, <2>1 DEF ManifestOK
  <2>3. Kept(e, m, catalog)
    BY <1>10, <1>12, <1>20, <1>21, <2>1 DEF Kept, Alive
  <2>4. \A j \in DOMAIN catalog : j # m.table => catalog[j].root # m.old
    <3>1. \A j \in DOMAIN catalog : catalog[j].root \in TreeAt(disk, catalog[j].root).pages
      BY <1>2, TableTree
    <3> QED
      BY <1>4, <1>20, <3>1
  <2>5. StagedTree(e, m)
    BY <1>10, <1>12, <1>20, <2>1 DEF StagedTree, Alive
  <2>6. m.claims \cap LivePages(e, catalog) = {} /\ catalog[m.table].root = m.old
        /\ g[m.table] >= m.gen
    BY <1>4, <1>10, <1>12, <1>18, <1>20, <2>1
  <2>7. Decidable(e, m, catalog, g)
    BY <1>20, <2>4, <2>5, <2>6 DEF Decidable
  <2> QED
    BY <2>1, <2>2, <2>3, <2>7 DEF Bound
<1>23. Copied(disk', m, GensOf(Lasting, catalog), stored, overtaken)
  <2>1. ASSUME NEW s \in disk'.trees, s.root = m.staged PROVE s = u
    BY <1>7, <1>8, <1>10, <1>12, <1>20, <2>1 DEF DiskOK, Alive
  <2>2. i \in overtaken \/ t.rows = stored[i]
    BY <1>2, <1>3 DEF Complete
  <2> QED
    BY <1>10, <1>20, <2>1, <2>2 DEF Copied
<1>24. InUse'
  <2>1. PreparedInv'
    BY <1>1 DEF PreparedInv
  <2>2. Intact(Base)'
    BY <1>1, <1>12, <1>13, <1>14 DEF Intact
  <2> QED
    BY <1>1, <1>2, <1>12, <1>14, <2>1, <2>2 DEF InUse, NotAhead
<1>25. MarkInv'
  <2>1. Bound(disk', work', catalog', GensOf(Lasting', catalog'))
    BY <1>1, <1>12, <1>19, <1>22
  <2>2. Copied(disk', work', GensOf(Lasting', catalog'), stored', overtaken')
    BY <1>1, <1>12, <1>19, <1>23
  <2>3. work'.phase = "unpublished"
    BY <1>19, <1>20
  <2> QED
    BY <1>1, <2>1, <2>2, <2>3 DEF MarkInv
<1>26. FilesInv'
  BY <1>1, <1>2, <1>12 DEF FilesInv
<1> QED
  BY <1>1, <1>12, <1>24, <1>25, <1>26 DEF Inv, StepInv, Running, Saving, Marking, Opening

----------------------------------------------------------------------------
(* The databases that a process may find                                   *)

\* A database that was just created.
LEMMA NewDatabase ==
    ASSUME NEW d, d = [num |-> 1, free |-> {}, trees |-> {Tree(0, {0}, "v1", TRUE, 0, 0)}]
    PROVE  /\ DiskOK(d) /\ Sound(d, Default) /\ Complete(d, Default, <<0>>, {})
<1>1. PICK t : t = Tree(0, {0}, "v1", TRUE, 0, 0)
  OBVIOUS
<1>2. t \in Trees /\ t.root = 0 /\ t.pages = {0} /\ t.width = 0 /\ t.rows = 0
  BY <1>1 DEF Tree, Trees
<1>3. d.num = 1 /\ d.free = {} /\ d.trees = {t}
      /\ d \in [num : Nat, free : SUBSET Nat, trees : SUBSET Trees]
  BY <1>1, <1>2
<1>4. DiskOK(d)
  <2>1. d.free \subseteq 1 .. d.num - 1 /\ t.pages \subseteq 0 .. d.num - 1
    BY <1>2, <1>3
  <2>2. \A v \in d.trees : v = t
    BY <1>3
  <2> QED
    BY <1>2, <1>3, <2>1, <2>2 DEF DiskOK
<1>5. LiveTree(d, 0) /\ TreeAt(d, 0) = t
  <2>1. t \in Alive(d)
    BY <1>3 DEF Alive
  <2> QED
    BY <1>2, <1>4, <2>1, AliveIsLive
<1>6. /\ Default \in Seq(Entries) /\ Len(Default) = 1 /\ DOMAIN Default = {1}
      /\ Default[1].root = 0 /\ Default[1].width = 0
  BY DEF Default, Entries
<1>7. LivePageMap(d, Default)
  BY <1>5, <1>6 DEF LivePageMap
<1>8. Sound(d, Default)
  BY <1>2, <1>5, <1>6, <1>7 DEF Sound, Shapes
<1>9. Complete(d, Default, <<0>>, {})
  BY <1>2, <1>5, <1>6 DEF Complete
<1> QED
  BY <1>4, <1>8, <1>9

\* The catalog of a database with a second table.
LEMMA TwoTablesAre ==
    /\ TwoTables \in Shapes /\ Len(TwoTables) = 2 /\ DOMAIN TwoTables = {1, 2}
    /\ TwoTables[1].root = 0 /\ TwoTables[1].width = 0
    /\ TwoTables[2].root = 1 /\ TwoTables[2].width = 0
<1>1. PICK x : x = [root |-> 0, width |-> 0, columns |-> 0]
  OBVIOUS
<1>2. PICK y : y = [root |-> 1, width |-> 0, columns |-> 0]
  OBVIOUS
<1>3. x \in Entries /\ x.root = 0 /\ x.width = 0
      /\ y \in Entries /\ y.root = 1 /\ y.width = 0
  BY <1>1, <1>2 DEF Entries
<1>4. TwoTables = <<x, y>>
  <2>1. TwoTables = <<x>> \o <<y>>
    BY <1>1, <1>2 DEF TwoTables, Default
  <2>2. PICK a, b : a = <<x>> /\ b = <<y>>
    OBVIOUS
  <2>3. /\ a \in Seq(Entries) /\ Len(a) = 1 /\ a[1] = x
        /\ b \in Seq(Entries) /\ Len(b) = 1 /\ b[1] = y
    BY <1>3, <2>2
  <2>4. PICK c : c = a \o b
    OBVIOUS
  <2>5. /\ c \in Seq(Entries) /\ Len(c) = 1 + 1
        /\ \A i \in 1 .. 1 + 1 : c[i] = IF i <= 1 THEN a[i] ELSE b[i - 1]
    BY <2>3, <2>4, ConcatProperties
  <2>6. Len(c) = 2 /\ c[1] = x /\ c[2] = y
    BY <2>3, <2>5
  <2>7. c = <<x, y>>
    BY <1>3, <2>5, <2>6
  <2> QED
    BY <2>1, <2>2, <2>4, <2>7
<1> QED
  BY <1>3, <1>4 DEF Shapes

\* A legacy catalog numbers its tables, all in generation 1.
LEMMA BootstrapIs ==
    FileOK(Bootstrap(TwoTables)) /\ Bootstrap(TwoTables).shape = TwoTables
<1>1. PICK s, f : s = TwoTables /\ f = Absent
  OBVIOUS
<1>2. ~ IsV3(f) /\ f # Torn
  BY <1>1, FilesAssumption DEF IsV3, Decodes
<1>3. CanDerive(f, s) /\ NextFile(f, s) = Bootstrap(s)
  BY <1>2 DEF CanDerive, NextFile
<1>4. s \in Shapes /\ Len(s) >= 1
  BY <1>1, TwoTablesAre
<1>5. FileOK(NextFile(f, s)) /\ NextFile(f, s).shape = s
  BY <1>1, <1>3, <1>4, NextFileIs
<1> QED
  BY <1>1, <1>3, <1>5

\* A file of the older format has no identities.
LEMMA LegacyFile ==
    ASSUME NEW s \in Shapes, Len(s) >= 1
    PROVE  LET f == CatalogFile("v2", s, <<>>, <<>>) IN FileOK(f) /\ f.shape = s
<1>1. PICK e : e = <<>>
  OBVIOUS
<1>2. e \in Seq(Nat)
  BY <1>1
<1>3. PICK f : f = [fmt |-> "v2", shape |-> s, ids |-> e, gens |-> e]
  OBVIOUS
<1>4. f \in CatalogFiles /\ f.shape = s /\ f.fmt = "v2"
  BY <1>2, <1>3 DEF CatalogFiles
<1>5. FileOK(f)
  BY <1>4 DEF FileOK
<1> QED
  BY <1>1, <1>3, <1>4, <1>5 DEF CatalogFile

\* Its two trees, as an older build or this one closed it.
LEMMA TwoTableDatabase ==
    ASSUME NEW d, d = [num |-> 3, free |-> {},
                       trees |-> {Tree(0, {0}, "v1", TRUE, 0, 0),
                                  Tree(1, {1, 2}, "v1", TRUE, 0, 0)}]
    PROVE  /\ DiskOK(d) /\ Sound(d, TwoTables) /\ Complete(d, TwoTables, <<0, 0>>, {})
<1>1. PICK t, u : /\ t = Tree(0, {0}, "v1", TRUE, 0, 0)
                  /\ u = Tree(1, {1, 2}, "v1", TRUE, 0, 0)
  OBVIOUS
<1>2. /\ t \in Trees /\ t.root = 0 /\ t.pages = {0} /\ t.width = 0 /\ t.rows = 0
      /\ u \in Trees /\ u.root = 1 /\ u.pages = {1, 2} /\ u.width = 0 /\ u.rows = 0
  BY <1>1 DEF Tree, Trees
<1>3. d.num = 3 /\ d.free = {} /\ d.trees = {t, u}
      /\ d \in [num : Nat, free : SUBSET Nat, trees : SUBSET Trees]
  BY <1>1, <1>2
<1>4. DiskOK(d)
  <2>1. /\ d.free \subseteq 1 .. d.num - 1
        /\ t.pages \subseteq 0 .. d.num - 1 /\ u.pages \subseteq 0 .. d.num - 1
    BY <1>2, <1>3
  <2>2. \A v \in d.trees : v = t \/ v = u
    BY <1>3
  <2>3. t.pages \cap u.pages = {} /\ t.root \in t.pages /\ u.root \in u.pages
    BY <1>2
  <2>4. \A v, w \in d.trees : v.pages \cap w.pages # {} => v = w
    BY <2>2, <2>3, ZenonT(60)
  <2>5. \A v \in d.trees : v.pages \cap d.free = {}
    BY <1>3
  <2> QED
    BY <1>3, <2>1, <2>2, <2>3, <2>4, <2>5, ZenonT(60) DEF DiskOK
<1>5. LiveTree(d, 0) /\ TreeAt(d, 0) = t /\ LiveTree(d, 1) /\ TreeAt(d, 1) = u
  <2>1. t \in Alive(d) /\ u \in Alive(d)
    BY <1>3 DEF Alive
  <2> QED
    BY <1>2, <1>4, <2>1, AliveIsLive
<1>6. LivePageMap(d, TwoTables)
  <2>1. t.pages \cap u.pages = {}
    BY <1>2
  <2>2. \A i \in {1, 2} : \A j \in {1, 2} : i < j => i = 1 /\ j = 2
    OBVIOUS
  <2> QED
    BY <1>5, <2>1, <2>2, TwoTablesAre, ZenonT(60) DEF LivePageMap
<1>7. Sound(d, TwoTables)
  BY <1>2, <1>5, <1>6, TwoTablesAre DEF Sound
<1>8. Complete(d, TwoTables, <<0, 0>>, {})
  BY <1>2, <1>5, TwoTablesAre DEF Complete
<1> QED
  BY <1>4, <1>7, <1>8

\* Databases to start from are at rest.
LEMMA InitHolds ==
    ASSUME MigrationInit
    PROVE  Inv
<1>1. /\ step = "closed" /\ prepared = Absent /\ manifest = Absent /\ durable = Absent
      /\ overtaken = {} /\ behind = FALSE
  BY DEF MigrationInit
<1>2. SUFFICES DiskOK(disk) /\ FilesInv /\ Intact(Shape(Lasting))
  BY <1>1, <1>2 DEF Inv, StepInv, AtRest, Pending, Running, Saving, Marking, Opening
<1>3. CASE main = Absent
  <2>1. DiskOK(disk) /\ Sound(disk, Default) /\ Complete(disk, Default, <<0>>, {})
        /\ wal = Absent /\ stored = <<0>>
    <3>1. Absent # Bootstrap(TwoTables) /\ Absent # CatalogFile("v2", Default, <<>>, <<>>)
      <4>1. Default \in Shapes /\ Len(Default) >= 1
        BY DEF Default, Shapes, Entries
      <4>2. CatalogFile("v2", Default, <<>>, <<>>) \in CatalogFiles
        BY <4>1, LegacyFile DEF FileOK
      <4>3. Bootstrap(TwoTables) \in CatalogFiles
        BY BootstrapIs DEF FileOK
      <4> QED
        BY <4>2, <4>3, FilesAssumption
    <3>2. wal = Absent /\ stored = <<0>>
          /\ disk = [num |-> 1, free |-> {}, trees |-> {Tree(0, {0}, "v1", TRUE, 0, 0)}]
      BY <1>3, <3>1 DEF MigrationInit
    <3> QED
      BY <3>2, NewDatabase
  <2>2. Lasting = Absent
    BY <1>3, <2>1 DEF Lasting, Committed, Decodes
  <2>3. FilesInv
    BY <1>1, <1>3, <2>1, <2>2, FilesAssumption DEF FilesInv
  <2> QED
    BY <1>1, <2>1, <2>2, <2>3 DEF Intact, Shape
<1>4. CASE main # Absent
  <2>1. DiskOK(disk) /\ Sound(disk, TwoTables) /\ Complete(disk, TwoTables, <<0, 0>>, {})
        /\ stored = <<0, 0>>
    <3>1. stored = <<0, 0>>
          /\ disk = [num |-> 3, free |-> {},
                     trees |-> {Tree(0, {0}, "v1", TRUE, 0, 0),
                                Tree(1, {1, 2}, "v1", TRUE, 0, 0)}]
      BY <1>4 DEF MigrationInit
    <3> QED
      BY <3>1, TwoTableDatabase
  <2>2. CASE main = Bootstrap(TwoTables) /\ wal = Absent
    <3>2. FileOK(main) /\ main.shape = TwoTables
      BY <2>2, BootstrapIs
    <3>3. Lasting = main /\ Shape(main) = TwoTables /\ main \notin {Torn, Short}
      BY <1>4, <2>2, <3>2, FileShape DEF Lasting, Committed, Decodes
    <3>4. FilesInv
      BY <1>1, <2>1, <2>2, <3>2, <3>3 DEF FilesInv
    <3> QED
      BY <1>1, <2>1, <3>3, <3>4 DEF Intact
  <2>3. CASE /\ main = CatalogFile("v2", Default, <<>>, <<>>)
             /\ wal = CatalogFile("v2", TwoTables, <<>>, <<>>)
    <3>1. Default \in Shapes /\ Len(Default) = 1
      BY DEF Default, Shapes, Entries
    <3>2. FileOK(main)
      BY <2>3, <3>1, LegacyFile
    <3>3. FileOK(wal) /\ wal.shape = TwoTables
      <4>1. Len(TwoTables) >= 1 /\ TwoTables \in Shapes
        BY TwoTablesAre
      <4> QED
        BY <2>3, <4>1, LegacyFile
    <3>4. StructuralRoots(disk, TwoTables)
      BY <2>1, SoundRoots
    <3>5. wal # Absent
      BY <3>3, FilesAssumption DEF FileOK
    <3>6. Committed(wal) /\ Lasting = wal /\ Shape(wal) = TwoTables
          /\ wal \notin {Torn, Short}
      BY <3>3, <3>4, <3>5, FileShape DEF Committed, Lasting
    <3>7. FilesInv
      BY <1>1, <2>1, <3>2, <3>3, <3>6 DEF FilesInv
    <3> QED
      BY <1>1, <2>1, <3>6, <3>7 DEF Intact
  <2> QED
    BY <1>4, <2>2, <2>3 DEF MigrationInit
<1> QED
  BY <1>3, <1>4

----------------------------------------------------------------------------
(* The invariant                                                           *)

\* Every step of a process that knows its catalog preserves the invariant.
LEMMA StepHolds ==
    ASSUME Inv, ~behind, MigrationNext
    PROVE  Inv'
<1>1. ASSUME NEW i \in DOMAIN catalog, step = "open", Statement(i) PROVE Inv'
  BY <1>1, InsertStep, DeleteStep, AlterTableStep, StageStep DEF Statement
<1> QED
  BY <1>1, ReadLogStep, CopyLogStep, DropLogStep, LoadStep, LoadRefusedNever,
     CheckManifestStep, ManifestRefusedStep, ReclaimStep, ReclaimRefusedStep,
     UnlinkStep, SyncUnlinkStep, CreateTableStep, BeginSaveStep, SaveRefusedStep,
     WriteLogStep, WriteLogFailsStep, WriteMainStep, WriteMainFailsStep,
     RemoveLogStep, WriteManifestStep, SyncManifestStep, ManifestFailsStep,
     PublishCatalogStep, CloseStep, CrashStep, SMTT(60)
  DEF MigrationNext

\* What the process lost track of it does not learn of again.
LEMMA BehindLasts ==
    ASSUME behind = TRUE, MigrationNext
    PROVE  behind' = TRUE
<1> USE DEF files, handle, ghosts
<1>1. ASSUME NEW i, Statement(i) PROVE behind' = behind
  BY <1>1 DEF Statement, Insert, Delete, Rows, AlterTable, Stage
<1>2. CASE \/ ReadLog \/ CopyLog \/ DropLog \/ Load \/ LoadRefused
           \/ CheckManifest \/ ManifestRefused \/ Reclaim \/ ReclaimRefused
           \/ Unlink \/ SyncUnlink
  BY <1>2 DEF ReadLog, CopyLog, DropLog, Load, LoadRefused, Refuse, CheckManifest,
     ManifestRefused, Reclaim, ReclaimRefused, Unlink, SyncUnlink
<1>3. CASE \/ CreateTable \/ BeginSave \/ SaveRefused \/ WriteLog \/ WriteLogFails
           \/ WriteMain \/ WriteMainFails \/ RemoveCatalogLog
  BY <1>3 DEF CreateTable, BeginSave, SaveRefused, WriteLog, WriteLogFails, WriteMain,
     WriteMainFails, RemoveCatalogLog, Published
<1>4. CASE \/ WriteManifest \/ SyncManifest \/ ManifestFails \/ PublishCatalog
           \/ Close \/ MigrationCrash
  BY <1>4 DEF WriteManifest, SyncManifest, ManifestFails, PublishCatalog, Close, MigrationCrash
<1> QED
  BY <1>1, <1>2, <1>3, <1>4 DEF MigrationNext

\* Steps of other components change nothing here.
LEMMA StutterHolds ==
    ASSUME Inv, UNCHANGED migrationVars
    PROVE  Inv'
<1> USE DEF files, handle, ghosts
<1>1. /\ main' = main /\ wal' = wal /\ manifest' = manifest /\ durable' = durable
      /\ disk' = disk /\ catalog' = catalog /\ prepared' = prepared
      /\ step' = step /\ work' = work /\ stored' = stored
      /\ overtaken' = overtaken /\ behind' = behind
  BY DEF migrationVars
<1>2. /\ Lasting' = Lasting /\ Pending' = Pending /\ Base' = Base
      /\ Committed(wal)' = Committed(wal) /\ (\A s : Intact(s)' = Intact(s))
  BY <1>1 DEF Lasting, Pending, Base, Committed, Intact
<1>3. FilesInv' = FilesInv
  BY <1>1, <1>2 DEF FilesInv
<1>4. AtRest' = AtRest
  BY <1>1, <1>2 DEF AtRest, Intact
<1>5. InUse' = InUse
  BY <1>1, <1>2 DEF InUse, NotAhead, PreparedInv, Intact
<1>6. SaveInv' = SaveInv /\ PlanOK' = PlanOK /\ WriteLogInv' = WriteLogInv /\ MarkInv' = MarkInv
  BY <1>1, <1>2 DEF SaveInv, PlanOK, WriteLogInv, MarkInv, Intact
<1>7. Preflight(manifest)' = Preflight(manifest) /\ Undecidable' = Undecidable
  BY <1>1 DEF Preflight, Recovery, Authoritative, OldTreeGone, OldTree, Undecidable,
     Collectable
<1>8. StepInv' = StepInv
  BY <1>1, <1>4, <1>5, <1>6, <1>7 DEF StepInv, OpenRefusedForCauseOnly
<1> QED
  BY <1>1, <1>3, <1>8 DEF Inv

\* Whatever state the files of a database are left in, by the program or by its
\* death, they are what Inv says: this is where every step of a repack, of a save
\* and of the recovery at open is gone through.
THEOREM MigrationInvHolds == MigrationSpec => []Inv
<1>1. MigrationInit => Inv
  BY InitHolds
<1>2. Inv /\ [MigrationNext]_migrationVars => Inv'
  <2>1. CASE ~behind /\ Inv /\ MigrationNext
    BY <2>1, StepHolds
  <2>2. CASE behind /\ Inv /\ MigrationNext
    <3>1. behind = TRUE
      BY <2>2 DEF Inv
    <3>2. behind' = TRUE
      BY <2>2, <3>1, BehindLasts
    <3> QED
      BY <3>2 DEF Inv
  <2>3. CASE Inv /\ UNCHANGED migrationVars
    BY <2>3, StutterHolds
  <2> QED
    BY <2>1, <2>2, <2>3
<1> QED
  BY <1>1, <1>2, PTL DEF MigrationSpec

\* At every step, running or not, the files alone are good for the next open.
LEMMA InvIsAtRest ==
    ASSUME Inv, ~behind
    PROVE  AtRest /\ FilesInv
<1>1. FilesInv /\ StepInv
  BY DEF Inv
<1>2. CASE step \in Running
  BY <1>1, <1>2, RunningAtRest
<1>3. CASE step \notin Running
  BY <1>1, <1>3 DEF StepInv
<1> QED
  BY <1>1, <1>2, <1>3

\* At every moment the catalog that the next open adopts names whole trees with
\* the rows that were written (schema_journal.h, schema_repack_catalog_v3_publish.h).
THEOREM TablesAreIntact == MigrationSpec => []TablesIntact
<1>1. Inv => TablesIntact
  <2>1. SUFFICES ASSUME Inv, ~behind
                 PROVE  /\ Lasting \notin {Torn, Short}
                        /\ Intact(Shape(Lasting))
    BY <2>1 DEF TablesIntact, Intact, Sound, Complete
  <2> QED
    BY <2>1, InvIsAtRest DEF FilesInv, AtRest
<1> QED
  BY <1>1, MigrationInvHolds, PTL

\* An open that is refused was refused over a migration that cannot be decided
\* (startup_recovery.h, fixed_v1_tree_reclaim.h).
THEOREM OpensAreRefusedForCause == MigrationSpec => []OpenRefusedForCauseOnly
<1>1. Inv => OpenRefusedForCauseOnly
  BY DEF Inv, StepInv, OpenRefusedForCauseOnly
<1> QED
  BY <1>1, MigrationInvHolds, PTL

----------------------------------------------------------------------------
(* Generations                                                             *)

\* The two files alone decide which catalog lasts, now ...
LEMMA LastingBefore ==
    ASSUME FilesInv
    PROVE  Lasting = IF wal \in {Absent, Torn} THEN main ELSE wal
BY LastingFile

\* ... and after the step.
LEMMA LastingAfter ==
    ASSUME FilesInv'
    PROVE  Lasting' = IF wal' \in {Absent, Torn} THEN main' ELSE wal'
<1>1. wal' \in {Absent, Torn} => ~ Committed(wal)'
  BY DEF Committed, Decodes
<1>2. wal' \notin {Absent, Torn} => Committed(wal)'
  BY DEF FilesInv
<1> QED
  BY <1>1, <1>2 DEF Lasting

\* Only a log written whole replaces the catalog that lasts.
LEMMA LastingMoves ==
    ASSUME Inv, Inv', ~behind, ~behind', MigrationNext
    PROVE  Lasting' = Lasting \/ (step = "write log" /\ Lasting' = work.file)
<1> USE DEF files, handle, ghosts
<1>1. FilesInv /\ FilesInv' /\ StepInv
  BY DEF Inv
<1>2. /\ Lasting = IF wal \in {Absent, Torn} THEN main ELSE wal
      /\ Lasting' = IF wal' \in {Absent, Torn} THEN main' ELSE wal'
      /\ Committed(wal) <=> wal \notin {Absent, Torn}
      /\ Decodes(wal) <=> Committed(wal)
  BY <1>1, LastingBefore, LastingAfter, LastingFile
<1>3. ASSUME wal' = wal, main' = main PROVE Lasting' = Lasting
  BY <1>2, <1>3, SMTT(60)
<1>4. ASSUME NEW i, Statement(i) PROVE wal' = wal /\ main' = main
  BY <1>4 DEF Statement, Insert, Delete, Rows, AlterTable, Stage
<1>5. CASE \/ Load \/ LoadRefused \/ CheckManifest \/ ManifestRefused \/ Reclaim
           \/ ReclaimRefused \/ Unlink \/ SyncUnlink
  BY <1>3, <1>5 DEF Load, LoadRefused, Refuse, CheckManifest, ManifestRefused, Reclaim,
     ReclaimRefused, Unlink, SyncUnlink
<1>6. CASE \/ CreateTable \/ BeginSave \/ SaveRefused \/ WriteManifest \/ SyncManifest
           \/ ManifestFails \/ PublishCatalog \/ Close
  BY <1>3, <1>6 DEF CreateTable, BeginSave, SaveRefused, WriteManifest, SyncManifest,
     ManifestFails, PublishCatalog, Close
<1>7. CASE ReadLog
  BY <1>2, <1>7 DEF ReadLog
<1>8. CASE CopyLog
  BY <1>1, <1>2, <1>8 DEF CopyLog, StepInv
<1>9. CASE DropLog
  BY <1>1, <1>2, <1>9 DEF DropLog, StepInv
<1>10. CASE step = "write log" /\ main' = main /\ wal' \in {wal, Torn, work.file}
  <2>1. main = Lasting
    BY <1>1, <1>10 DEF StepInv, WriteLogInv
  <2>2. CASE wal' \in {wal, Torn}
    BY <1>2, <1>10, <2>1, <2>2
  <2>3. CASE wal' = work.file
    <3>1. work.file \notin {Absent, Torn}
      BY <1>1, <1>10, GensOfFile DEF StepInv, Saving, PlanOK, IsV3, Decodes
    <3> QED
      BY <1>2, <1>10, <2>3, <3>1
  <2> QED
    BY <1>10, <2>2, <2>3
<1>11. CASE WriteLog \/ WriteLogFails
  BY <1>10, <1>11 DEF WriteLog, WriteLogFails
<1>12. ASSUME step \in {"write main", "remove log"}
       PROVE  wal = work.file /\ wal \notin {Absent, Torn}
              /\ (step = "remove log" => main = wal)
  BY <1>1, <1>12, GensOfFile DEF StepInv, Saving, PlanOK, IsV3, Decodes
<1>13. CASE WriteMain \/ WriteMainFails
  BY <1>2, <1>12, <1>13 DEF WriteMain, WriteMainFails
<1>14. CASE RemoveCatalogLog
  BY <1>2, <1>12, <1>14 DEF RemoveCatalogLog
<1>15. CASE MigrationCrash
  <2>1. CASE step = "write log"
    BY <1>10, <1>15, <2>1 DEF MigrationCrash
  <2>2. CASE step = "write main"
    <3>1. wal' = wal
      BY <1>15, <2>2 DEF MigrationCrash
    <3> QED
      BY <1>2, <1>12, <2>2, <3>1
  <2>3. CASE step = "copy log"
    <3>1. wal' = wal /\ Decodes(wal)
      BY <1>1, <1>15, <2>3 DEF MigrationCrash, StepInv
    <3> QED
      BY <1>2, <3>1
  <2>4. CASE step \notin {"write log", "write main", "copy log"}
    BY <1>3, <1>15, <2>4 DEF MigrationCrash
  <2> QED
    BY <2>1, <2>2, <2>3, <2>4
<1> QED
  BY <1>3, <1>4, <1>5, <1>6, <1>7, <1>8, <1>9, <1>11, <1>13, <1>14, <1>15 DEF MigrationNext

\* From one catalog that lasts to the next, over any number of crashes, the id of
\* a table stays and its generation moves by one exactly when its root or schema
\* does (schema_catalog_v3_store.h).
THEOREM GenerationsOnlyAdvance == MigrationSpec => GenerationsAdvance
<1> DEFINE Moves == IsV3(Lasting) /\ ~behind' =>
              LET f == Lasting
                  g == Lasting'
              IN  \A i \in DOMAIN f.ids :
                     /\ g.ids[i] = f.ids[i]
                     /\ g.gens[i] = IF g.shape[i] = f.shape[i] THEN f.gens[i]
                                    ELSE f.gens[i] + 1
<1>1. Inv /\ Inv' /\ [MigrationNext]_migrationVars => [Moves]_migrationVars
  <2>1. SUFFICES ASSUME Inv, Inv', MigrationNext, IsV3(Lasting), ~behind' PROVE Moves
    OBVIOUS
  <2>2. ~behind
    BY <2>1, BehindLasts DEF Inv
  <2>3. Lasting' = Lasting \/ (step = "write log" /\ Lasting' = work.file)
    BY <2>1, <2>2, LastingMoves
  <2>4. CASE Lasting' = Lasting
    BY <2>4
  <2>5. CASE step = "write log" /\ Lasting' = work.file
    <3>1. Advance(Lasting, work.file)
      BY <2>1, <2>2, <2>5 DEF Inv, StepInv, WriteLogInv
    <3> QED
      BY <2>1, <2>5, <3>1 DEF Advance
  <2> QED
    BY <2>3, <2>4, <2>5
<1> QED
  BY <1>1, MigrationInvHolds, PTL DEF MigrationSpec, GenerationsAdvance

----------------------------------------------------------------------------
(* Pages                                                                   *)

\* The pages that the free list and the trees of some roots account for.
AccountedBy(d, R) == d.free \cup UNION {t.pages : t \in UNION {TreesAt(d, r) : r \in R}}

\* A tree put in the place of one live tree or none leaves every page accounted for.
LEMMA PutAccounts ==
    ASSUME NEW d, DiskOK(d), NEW e, NEW t, NEW kept, Puts(d, e, t, kept),
           NEW R, t.root \in R, NEW p \in 0 .. e.num - 1, p \notin AccountedBy(e, R)
    PROVE  p \in 0 .. d.num - 1 /\ p \notin AccountedBy(d, R)
<1>1. /\ t \in e.trees /\ d.num \in Nat /\ e.num \in Nat
      /\ \A u, v \in d.trees : u.pages \cap v.pages # {} => u = v
      /\ \A u \in d.trees : u.pages \subseteq 0 .. d.num - 1
      /\ \A u \in d.trees : u.pages \cap d.free = {} \/ u.pages \subseteq d.free
  BY DEF Puts, DiskOK
<1>2. p \notin t.pages
  BY <1>1 DEF AccountedBy, TreesAt
<1>3. p \in 0 .. d.num - 1 /\ p \notin d.free
  BY <1>1, <1>2 DEF Puts, AccountedBy
<1>4. ASSUME NEW u \in d.trees, u.root \in R, p \in u.pages PROVE FALSE
  <2>1. u \notin e.trees
    BY <1>4 DEF AccountedBy, TreesAt
  <2>2. PICK q \in t.pages : q \in u.pages
    BY <1>4, <2>1 DEF Puts
  <2>3. CASE q \in kept
    <3>1. PICK v \in d.trees : v.pages = kept
      BY <2>3 DEF Puts, Alive
    <3>2. u = v
      BY <1>1, <1>4, <2>2, <2>3, <3>1
    <3> QED
      BY <1>2, <1>4, <3>1, <3>2 DEF Puts
  <2>4. CASE q \notin kept
    <3>1. q \in d.free
      BY <1>1, <1>4, <2>2, <2>4 DEF Puts
    <3> QED
      BY <1>1, <1>3, <1>4, <2>2, <3>1
  <2> QED
    BY <2>3, <2>4
<1> QED
  BY <1>3, <1>4 DEF AccountedBy, TreesAt

\* A step loses no page that grows the free list, keeps the trees, and drops no name.
LEMMA NamesKept ==
    ASSUME disk'.num = disk.num, disk.free \subseteq disk'.free,
           disk'.trees = disk.trees, Named \subseteq Named'
    PROVE  \A p \in Lost' : p \in Lost
<1>1. ASSUME NEW p \in Accounted PROVE p \in Accounted'
  <2>1. CASE p \in disk.free
    BY <2>1 DEF Accounted
  <2>2. CASE p \notin disk.free
    <3>1. PICK r \in Named, t \in disk.trees : t.root = r /\ p \in t.pages
      BY <2>2 DEF Accounted, TreesAt
    <3> QED
      BY <3>1 DEF Accounted, TreesAt
  <2> QED
    BY <2>1, <2>2
<1> QED
  BY <1>1 DEF Lost

\* What a failed save goes back to has the roots of the catalog.
LEMMA SameTreesRoots ==
    ASSUME NEW s, NEW c, SameTrees(s, c)
    PROVE  Roots(s) = Roots(c)
BY DEF SameTrees, Roots

\* Statements, saves and deaths keep the roots of the catalog in memory known.
LEMMA NamesStep ==
    ASSUME Inv, Inv', ~behind, ~behind', NamesInv, MigrationNext
    PROVE  NamesInv'
<1> USE DEF files, handle, ghosts
<1>1. StepInv /\ StepInv'
  BY DEF Inv
<1>2. ASSUME step' \in {"open", "check manifest", "reclaim", "unlink", "sync unlink",
                        "write manifest", "sync manifest"}
      PROVE  NamesInv'
  BY <1>2 DEF NamesInv, Saving
<1>3. CASE ReadLog \/ CopyLog \/ DropLog
  BY <1>3 DEF NamesInv, ReadLog, CopyLog, DropLog, Saving
<1>4. CASE LoadRefused \/ ManifestRefused \/ ReclaimRefused \/ Close \/ MigrationCrash
  BY <1>4 DEF NamesInv, LoadRefused, ManifestRefused, ReclaimRefused, Refuse, Close,
     MigrationCrash, Saving
<1>5. CASE \/ Load \/ CheckManifest \/ Reclaim \/ Unlink \/ SaveRefused
           \/ WriteLogFails \/ WriteMainFails \/ RemoveCatalogLog
           \/ WriteManifest \/ SyncManifest \/ ManifestFails
  BY <1>2, <1>5 DEF Load, CheckManifest, Reclaim, Unlink, SaveRefused, WriteLogFails,
     WriteMainFails, RemoveCatalogLog, Published, WriteManifest, SyncManifest,
     ManifestFails
<1>6. CASE SyncUnlink
  <2>1. manifest' = Absent
    BY <1>1, <1>6 DEF SyncUnlink, StepInv
  <2>2. step' # "refused"
    BY <1>1, <2>1 DEF StepInv, OpenRefusedForCauseOnly, Undecidable
  <2> QED
    BY <1>2, <1>6, <2>2 DEF SyncUnlink
<1>7. CASE CreateTable
  <2>1. step' = "save" /\ work' = catalog'
    BY <1>7 DEF CreateTable
  <2> QED
    BY <2>1 DEF NamesInv, SameTrees, Saving
<1>8. ASSUME step = "open", NEW i \in DOMAIN catalog, Statement(i) PROVE NamesInv'
  <2>1. CASE Insert(i) \/ Delete(i) \/ Stage(i)
    BY <1>2, <1>8, <2>1 DEF Insert, Delete, Rows, Stage
  <2>2. CASE AlterTable(i)
    <3>1. /\ step' = "save" /\ work' = catalog
          /\ catalog' = [catalog EXCEPT ![i].columns = @ + 1]
      BY <2>2 DEF AlterTable
    <3>2. catalog \in Shapes
      BY <1>8, OpenFacts
    <3>3. Len(catalog') = Len(catalog)
          /\ \A j \in DOMAIN catalog : catalog'[j].root = catalog[j].root
          /\ DOMAIN catalog' = DOMAIN catalog
      BY <3>1, <3>2, SMTT(60) DEF Shapes, Entries
    <3> QED
      BY <3>1, <3>3 DEF NamesInv, SameTrees, Saving
  <2> QED
    BY <1>8, <2>1, <2>2, SMTT(60) DEF Statement
<1>9. CASE BeginSave
  <2>1. /\ step = "save" /\ step' = "write log" /\ catalog' = catalog
        /\ work' = Plan(NextFile(main, catalog), work, "open")
    BY <1>9 DEF BeginSave
  <2>2. NextFile(main, catalog).shape = catalog
    BY DEF NextFile, Derived, Bootstrap, CatalogFile
  <2>3. work'.undo = work /\ work'.file.shape = catalog
    BY <2>1, <2>2 DEF Plan
  <2> QED
    BY <2>1, <2>3 DEF NamesInv, Saving
<1>10. CASE WriteLog \/ WriteMain
  <2>1. /\ step \in Saving /\ step' \in {"write main", "remove log"}
        /\ catalog' = catalog /\ work' = work /\ Pending' = Pending
    BY <1>10 DEF WriteLog, WriteMain, Saving, Pending
  <2> QED
    BY <2>1 DEF NamesInv, Saving
<1>11. CASE PublishCatalog
  <2>1. /\ step = "open" /\ step' = "write log" /\ prepared # Absent
        /\ AuthoritativeReadable
        /\ UNCHANGED <<manifest, durable, catalog>>
    BY <1>11 DEF PublishCatalog
  <2>2. catalog \in Shapes /\ prepared \in Pending
    BY <2>1, OpenFacts
  <2>3. Authoritative.shape = catalog
    BY <2>1 DEF AuthoritativeReadable, Authoritative, Bootstrap, CatalogFile, IsV3, Decodes
  <2>4. PICK i \in Slots(Authoritative, prepared.table) :
           /\ Authoritative.shape[i].root = prepared.old
           /\ work' = Plan(Switched(Authoritative, i, prepared), catalog, "mark")
    BY <1>11 DEF PublishCatalog
  <2>5. PICK f : f = Authoritative
    OBVIOUS
  <2>6. /\ DOMAIN Switched(f, i, prepared).shape = DOMAIN f.shape
        /\ \A j \in DOMAIN f.shape : j # i =>
              Switched(f, i, prepared).shape[j] = f.shape[j]
    BY DEF Switched
  <2>7. work'.undo = catalog /\ work'.file.shape = Switched(f, i, prepared).shape
    BY <2>4, <2>5 DEF Plan
  <2>8. Roots(catalog) \subseteq Roots(work'.file.shape) \cup {m.old : m \in Pending}
    BY <2>2, <2>3, <2>4, <2>5, <2>6, <2>7 DEF Roots
  <2>9. Pending' = Pending
    BY <2>1 DEF Pending
  <2> QED
    BY <2>1, <2>7, <2>8, <2>9 DEF NamesInv, SameTrees, Saving
<1> QED
  BY <1>3, <1>4, <1>5, <1>6, <1>7, <1>8, <1>9, <1>10, <1>11 DEF MigrationNext

\* The names of two catalogs and the manifests, as sets of roots.
NamesOf(s, c, P) ==
    Roots(s) \cup (IF c = Absent THEN {} ELSE Roots(c))
             \cup UNION {{m.old, m.staged} : m \in P}

\* Named says so, before and after a step.
LEMMA NamesNow ==
    /\ Named = NamesOf(Shape(Lasting), catalog, Pending)
    /\ Named' = NamesOf(Shape(Lasting'), catalog', Pending')
BY DEF Named, NamesOf, Roots, Pending, ToSet

\* The catalog that lasts is one of the table's files, of good form.
LEMMA LastingShape ==
    ASSUME Inv, ~behind
    PROVE  /\ Shape(Lasting) \in Shapes
           /\ Len(Shape(Lasting)) \in Nat
           /\ DOMAIN Shape(Lasting) = 1 .. Len(Shape(Lasting))
<1>1. Shape(Lasting) \in Shapes
  BY LastingFile, FileShape DEF Inv
<1> QED
  BY <1>1 DEF Shapes

\* From the write of the log on, the plan of a save is what lasts.
LEMMA PlanLasts ==
    ASSUME Inv, ~behind, step \in {"write main", "remove log"}
    PROVE  Lasting = work.file /\ Shape(Lasting) = work.file.shape
<1>1. wal = work.file /\ FileOK(work.file) /\ FilesInv
  BY DEF Inv, StepInv, Saving, PlanOK
<1>2. Shape(work.file) = work.file.shape /\ wal \notin {Absent, Torn}
  <2>1. work.file \in CatalogFiles
    BY <1>1 DEF FileOK
  <2>2. work.file # Absent
    BY <2>1, FilesAssumption
  <2> QED
    BY <1>1, <2>2, FileShape, ZenonT(60)
<1> QED
  BY <1>1, <1>2, LastingFile

\* The domain of a sequence grows with its length.
LEMMA ShorterDomain ==
    ASSUME NEW s \in Shapes, NEW c \in Shapes, Len(s) <= Len(c)
    PROVE  /\ DOMAIN s \subseteq DOMAIN c
           /\ Len(c) <= Len(s) => DOMAIN s = DOMAIN c
<1>1. /\ DOMAIN s = 1 .. Len(s) /\ Len(s) \in Nat
      /\ DOMAIN c = 1 .. Len(c) /\ Len(c) \in Nat
  BY DEF Shapes
<1>2. PICK m \in Nat, n \in Nat : m = Len(s) /\ n = Len(c)
  BY <1>1
<1>3. 1 .. m \subseteq 1 .. n /\ (n <= m => m = n)
  BY <1>2
<1> QED
  BY <1>1, <1>2, <1>3, ZenonT(60)

\* What a catalog that is no longer than the one that lasts has, that one has too.
LEMMA MemoryNamed ==
    ASSUME Inv, ~behind, NamesInv, catalog # Absent,
           ~ (Len(catalog) > Len(Shape(Lasting))),
           step \notin {"write main", "remove log"}
    PROVE  Roots(catalog) \subseteq Roots(Shape(Lasting))
<1>1. FilesInv /\ StepInv
  BY DEF Inv
<1>2. Shape(Lasting) \in Shapes /\ Len(Shape(Lasting)) \in Nat
  BY LastingShape
<1>3. CASE step \in Opening
  BY <1>1, <1>3, NoLog DEF StepInv
<1>4. CASE step \in Running
  <2>1. Base \in Shapes /\ Extends(Base, Shape(Lasting))
    BY <1>1, <1>4 DEF StepInv, InUse, Intact, Sound
  <2>2. SameTrees(Base, catalog)
    <3>1. CASE step \in {"open"} \cup Marking
      <4>1. Base = catalog
        BY <3>1 DEF Base, Marking
      <4> QED
        BY <4>1 DEF SameTrees
    <3>2. CASE step = "save"
      BY <3>2 DEF Base, NamesInv, Marking
    <3>3. CASE step = "write log"
      BY <3>3 DEF Base, NamesInv, Marking
    <3> QED
      BY <1>4, <3>1, <3>2, <3>3 DEF Running, Saving
  <2>3. DOMAIN Base = DOMAIN Shape(Lasting)
    <3>1. PICK b \in Shapes, s \in Shapes : b = Base /\ s = Shape(Lasting)
      BY <1>2, <2>1
    <3>2. Len(b) \in Nat /\ Len(s) \in Nat
      BY ONLY b \in Shapes, s \in Shapes DEF Shapes
    <3>3. Len(s) <= Len(b)
      BY <2>1, <3>1 DEF Extends
    <3>4. ~ (Len(b) > Len(s))
      BY <2>2, <3>1 DEF SameTrees
    <3>5. Len(b) <= Len(s)
      BY ONLY <3>2, <3>4
    <3> QED
      BY <3>1, <3>3, <3>5, ShorterDomain
  <2> QED
    BY <2>1, <2>2, <2>3 DEF SameTrees, Extends, Roots
<1> QED
  BY <1>1, <1>3, <1>4 DEF StepInv, NamesInv

\* When a log is about to be written the catalog that lasts is one that the
\* process knows, except for a table that was not saved.
LEMMA LastingNamed ==
    ASSUME Inv, ~behind, NamesInv, step = "write log"
    PROVE  Roots(Shape(Lasting)) \subseteq Roots(catalog)
<1>1. Base = work.undo /\ Extends(Base, Shape(Lasting)) /\ Base \in Shapes
  BY DEF Base, Marking, Inv, StepInv, Running, Saving, InUse, Intact, Sound
<1>2. SameTrees(Base, catalog)
  BY <1>1 DEF NamesInv
<1>3. DOMAIN Shape(Lasting) \subseteq DOMAIN Base
  <2>1. Shape(Lasting) \in Shapes /\ Len(Shape(Lasting)) <= Len(Base)
    BY <1>1, LastingShape DEF Extends
  <2> QED
    BY <1>1, <2>1, ShorterDomain
<1> QED
  BY <1>1, <1>2, <1>3, ZenonT(60) DEF SameTrees, Extends, Roots

\* The pages of a table that a statement writes stay accounted for.
LEMMA StatementKeeps ==
    ASSUME Inv, Inv', ~behind, ~behind', MigrationNext, step = "open",
           CreateTable \/ \E i \in DOMAIN catalog : Insert(i) \/ Delete(i) \/ AlterTable(i)
    PROVE  \A p \in Lost' : p \in Lost
<1> USE DEF files, handle, ghosts
<1>1. DiskOK(disk) /\ catalog \in Shapes
  BY OpenFacts
<1>2. Lasting' = Lasting /\ Pending' = Pending
  <2>1. Lasting' = Lasting
    BY LastingMoves
  <2>2. manifest' = manifest /\ durable' = durable
    BY ZenonT(60) DEF CreateTable, Insert, Delete, Rows, AlterTable
  <2> QED
    BY <2>1, <2>2 DEF Pending
<1>3. \E t, kept : /\ Puts(disk, disk', t, kept) /\ t.root \in Roots(catalog')
                   /\ Roots(catalog) \subseteq Roots(catalog') /\ catalog' # Absent
  <2>1. CASE CreateTable
    <3>1. PICK t : /\ Puts(disk, disk', t, {}) /\ t \in Trees
                   /\ catalog' = Append(catalog, [root |-> t.root, width |-> 0, columns |-> 0])
      BY <2>1, CreatePut
    <3>2. PICK x : x = [root |-> t.root, width |-> 0, columns |-> 0]
      OBVIOUS
    <3>3. x \in Entries /\ x.root = t.root
      BY <3>1, <3>2 DEF Entries, Trees
    <3>4. catalog' \in Shapes /\ DOMAIN catalog' = DOMAIN catalog \cup {Len(catalog) + 1}
          /\ catalog'[Len(catalog) + 1] = x
          /\ \A j \in DOMAIN catalog : catalog'[j] = catalog[j]
      BY <1>1, <3>1, <3>2, <3>3 DEF Shapes
    <3> QED
      BY <3>1, <3>3, <3>4, FilesAssumption DEF Roots
  <2>2. ASSUME NEW i \in DOMAIN catalog, Insert(i) \/ Delete(i) \/ AlterTable(i)
        PROVE  \E t, kept : /\ Puts(disk, disk', t, kept) /\ t.root \in Roots(catalog')
                            /\ Roots(catalog) \subseteq Roots(catalog') /\ catalog' # Absent
    <3>1. TreeAt(disk, catalog[i].root).root = catalog[i].root
      <4>1. Sound(disk, catalog)
        BY OpenFacts, SMTT(60)
      <4> QED
        BY <1>1, <4>1, LiveTreeIsAlive DEF Sound, LivePageMap
    <3>2. catalog' \in Shapes /\ Roots(catalog') = Roots(catalog)
      <4>1. CASE catalog' = catalog
        BY <1>1, <4>1
      <4>2. CASE catalog' = [catalog EXCEPT ![i].columns = @ + 1]
        <5>1. PICK x : x = [catalog[i] EXCEPT !.columns = @ + 1]
          OBVIOUS
        <5>2. catalog[i] \in Entries /\ x \in Entries /\ x.root = catalog[i].root
          <6>1. catalog[i] \in Entries
            BY <1>1 DEF Shapes
          <6> QED
            BY <5>1, <6>1 DEF Entries
        <5>3. catalog' = [catalog EXCEPT ![i] = x]
          BY <4>2, <5>1
        <5>4. catalog' \in Shapes /\ DOMAIN catalog' = DOMAIN catalog
              /\ \A j \in DOMAIN catalog : catalog'[j].root = catalog[j].root
          BY <1>1, <5>2, <5>3 DEF Shapes
        <5> QED
          BY <5>4 DEF Roots
      <4> QED
        BY <2>2, <4>1, <4>2, ZenonT(60) DEF Insert, Delete, Rows, AlterTable
    <3>3. \E t, kept : Puts(disk, disk', t, kept) /\ t.root = catalog[i].root
      <4>1. CASE Insert(i)
        <5>1. PICK n \in {0, 1} : \E pages \in Claims(disk, n) :
                 Rows(i, TreeAt(disk, catalog[i].root), TreeAt(disk, catalog[i].root).exact, pages)
          BY <4>1 DEF Insert
        <5>3. PICK pages \in Claims(disk, n) :
                 Rows(i, TreeAt(disk, catalog[i].root), TreeAt(disk, catalog[i].root).exact, pages)
          BY <5>1
        <5>2. TreeAt(disk, catalog[i].root).exact \in BOOLEAN
          BY <1>1, OpenFacts, LiveTreeIsAlive DEF Sound, LivePageMap, Trees
        <5> QED
          BY <3>1, <5>2, <5>3, RowsPut
      <4>2. CASE Delete(i)
        <5>1. PICK n \in {0, 1}, exact \in BOOLEAN : n = 0 /\ exact = FALSE
          OBVIOUS
        <5>2. PICK pages \in Claims(disk, n) :
                 Rows(i, TreeAt(disk, catalog[i].root), exact, pages)
          BY <1>1, <4>2, <5>1, NothingClaimed DEF Delete
        <5> QED
          BY <3>1, <5>2, RowsPut
      <4>3. CASE AlterTable(i)
        BY <3>1, <4>3, AlterPut
      <4> QED
        BY <2>2, <4>1, <4>2, <4>3
    <3> QED
      BY <3>2, <3>3, FilesAssumption DEF Roots
  <2> QED
    BY <2>1, <2>2
<1>4. PICK t, kept : /\ Puts(disk, disk', t, kept) /\ t.root \in Roots(catalog')
                     /\ Roots(catalog) \subseteq Roots(catalog') /\ catalog' # Absent
  BY <1>3
<1>5. Named \subseteq Named' /\ t.root \in Named'
  BY <1>2, <1>4, NamesNow DEF NamesOf
<1>6. PICK e, R : e = disk' /\ R = Named'
  OBVIOUS
<1>7. Accounted' = AccountedBy(e, R) /\ Accounted = AccountedBy(disk, Named)
  BY <1>6 DEF Accounted, AccountedBy
<1>8. \A p \in 0 .. e.num - 1 : p \notin AccountedBy(e, R) =>
         p \in 0 .. disk.num - 1 /\ p \notin AccountedBy(disk, R)
  BY <1>1, <1>4, <1>5, <1>6, PutAccounts
<1>9. AccountedBy(disk, Named) \subseteq AccountedBy(disk, R)
  BY <1>5, <1>6 DEF AccountedBy
<1> QED
  BY <1>6, <1>7, <1>8, <1>9 DEF Lost

\* A manifest that has reached the disk stays known through the next step.
LEMMA PendingStays ==
    ASSUME MigrationNext, manifest = durable
    PROVE  Pending \subseteq Pending'
<1> USE DEF files, handle, ghosts
<1>1. SUFFICES durable \in {manifest', durable'}
  BY SMTT(60) DEF Pending
<1>2. ASSUME NEW i, Statement(i) PROVE durable' = durable
  BY <1>2 DEF Statement, Insert, Delete, Rows, AlterTable, Stage
<1>3. CASE \/ ReadLog \/ CopyLog \/ DropLog \/ Load \/ LoadRefused \/ CheckManifest
           \/ ManifestRefused \/ Reclaim \/ ReclaimRefused \/ Unlink \/ SyncUnlink
  BY <1>3 DEF ReadLog, CopyLog, DropLog, Load, LoadRefused, Refuse, CheckManifest,
     ManifestRefused, Reclaim, ReclaimRefused, Unlink, SyncUnlink
<1>4. CASE \/ CreateTable \/ BeginSave \/ SaveRefused \/ WriteLog \/ WriteLogFails
           \/ WriteMain \/ WriteMainFails \/ RemoveCatalogLog
  BY <1>4 DEF CreateTable, BeginSave, SaveRefused, WriteLog, WriteLogFails,
     WriteMain, WriteMainFails, RemoveCatalogLog, Published
<1>5. CASE \/ WriteManifest \/ SyncManifest \/ ManifestFails \/ PublishCatalog \/ Close
  BY <1>5 DEF WriteManifest, SyncManifest, ManifestFails, PublishCatalog, Close
<1>6. CASE MigrationCrash
  BY <1>6 DEF MigrationCrash
<1> QED
  BY <1>2, <1>3, <1>4, <1>5, <1>6 DEF MigrationNext

\* What a save is about to replace is named by its plan and the manifests.
LEMMA PlanNames ==
    ASSUME Inv, ~behind, NamesInv, MigrationNext, manifest = durable, step \in Saving,
           Roots(work.file.shape) \subseteq Named'
    PROVE  Roots(catalog) \subseteq Named'
<1>1. Roots(catalog) \subseteq Roots(work.file.shape) \cup {m.old : m \in Pending}
  BY DEF NamesInv
<1>2. {m.old : m \in Pending} \subseteq Named'
  BY PendingStays, NamesNow DEF NamesOf
<1> QED
  BY <1>1, <1>2

\* The catalog that lasts is named after the step.
LEMMA LastingStaysNamed ==
    ASSUME Inv, Inv', ~behind, ~behind', NamesInv, MigrationNext, manifest = durable
    PROVE  Roots(Shape(Lasting)) \subseteq Named'
<1>1. Roots(Shape(Lasting')) \subseteq Named'
  BY NamesNow DEF NamesOf
<1>2. CASE Lasting' = Lasting
  BY <1>1, <1>2
<1>3. CASE step = "write log" /\ Lasting' = work.file
  <2>1. Roots(Shape(Lasting)) \subseteq Roots(catalog)
    BY <1>3, LastingNamed
  <2>2. Shape(work.file) = work.file.shape
    <3>1. FileOK(work.file) /\ work.file.fmt = "v3"
      BY <1>3 DEF Inv, StepInv, Saving, PlanOK
    <3>2. work.file # Absent
      BY <3>1, FilesAssumption DEF FileOK
    <3> QED
      BY <3>1, <3>2, FileShape
  <2>3. Roots(catalog) \subseteq Named'
    BY <1>1, <1>3, <2>2, PlanNames DEF Saving
  <2> QED
    BY <2>1, <2>3
<1> QED
  BY <1>2, <1>3, LastingMoves

\* A catalog that the process forgets is named after the step, unless it has a
\* table that the catalog that lasts does not have.
LEMMA ForgottenNamed ==
    ASSUME Inv, Inv', ~behind, ~behind', NamesInv, MigrationNext, manifest = durable,
           catalog # Absent, ~ (Len(catalog) > Len(Shape(Lasting)))
    PROVE  Roots(catalog) \subseteq Named'
<1>1. Roots(Shape(Lasting)) \subseteq Named'
  BY LastingStaysNamed
<1>2. CASE step \in {"write main", "remove log"}
  <2>1. Roots(work.file.shape) \subseteq Named'
    BY <1>1, <1>2, PlanLasts
  <2> QED
    BY <1>2, <2>1, PlanNames DEF Saving
<1>3. CASE step \notin {"write main", "remove log"}
  BY <1>1, <1>3, MemoryNamed
<1> QED
  BY <1>2, <1>3

\* The catalog in memory is named after a step that takes it or replaces it.
LEMMA MemoryStaysNamed ==
    ASSUME Inv, Inv', ~behind, ~behind', NamesInv, MigrationNext, manifest = durable,
           ~ (catalog' = Absent /\ catalog # Absent /\ Len(catalog) > Len(Shape(Lasting))),
           ~ CreateTable, \A i \in DOMAIN catalog : ~ AlterTable(i)
    PROVE  catalog # Absent => Roots(catalog) \subseteq Named'
<1> USE DEF files, handle, ghosts
<1>1. SUFFICES ASSUME catalog # Absent PROVE Roots(catalog) \subseteq Named'
  OBVIOUS
<1>2. ASSUME catalog' = Absent PROVE Roots(catalog) \subseteq Named'
  BY <1>1, <1>2, ForgottenNamed
<1>3. ASSUME catalog' # Absent, Roots(catalog') = Roots(catalog)
      PROVE  Roots(catalog) \subseteq Named'
  <2>1. Roots(catalog') \subseteq Named'
    BY <1>3, NamesNow DEF NamesOf
  <2> QED
    BY <1>3, <2>1
<1>4. ASSUME catalog' = catalog PROVE Roots(catalog) \subseteq Named'
  BY <1>1, <1>3, <1>4
<1>5. ASSUME step \in {"save", "write log"}, catalog' = Base
      PROVE  Roots(catalog) \subseteq Named'
  <2>1. Base \in Shapes
    BY <1>5 DEF Inv, StepInv, Running, Saving, InUse, Intact, Sound
  <2>2. SameTrees(Base, catalog)
    BY <1>5 DEF Base, NamesInv, Marking
  <2> QED
    BY <1>3, <1>5, <2>1, <2>2, FilesAssumption, SameTreesRoots
<1>6. CASE SaveRefused
  BY <1>5, <1>6 DEF SaveRefused, Base, Marking
<1>7. CASE WriteLogFails
  BY <1>5, <1>7 DEF WriteLogFails, Base, Marking
<1>8. CASE WriteMainFails \/ RemoveCatalogLog
  <2>1. step \in Saving /\ catalog' = work.file.shape
    BY <1>8 DEF WriteMainFails, RemoveCatalogLog, Published, Saving
  <2>2. work.file.shape \in Shapes
    BY <2>1 DEF Inv, StepInv, PlanOK, FileOK, CatalogFiles
  <2>3. Roots(work.file.shape) \subseteq Named'
    BY <2>1, <2>2, FilesAssumption, NamesNow DEF NamesOf
  <2> QED
    BY <2>1, <2>3, PlanNames
<1>9. CASE Load
  BY <1>1, <1>9 DEF Load, NamesInv
<1>10. CASE LoadRefused \/ ManifestRefused \/ ReclaimRefused \/ Close \/ MigrationCrash
  BY <1>2, <1>10 DEF LoadRefused, ManifestRefused, ReclaimRefused, Refuse, Close,
     MigrationCrash
<1>11. CASE \/ ReadLog \/ CopyLog \/ DropLog \/ CheckManifest \/ Reclaim \/ Unlink
            \/ SyncUnlink
  BY <1>4, <1>11 DEF ReadLog, CopyLog, DropLog, CheckManifest, Reclaim, Unlink, SyncUnlink
<1>12. CASE \/ BeginSave \/ WriteLog \/ WriteMain \/ WriteManifest \/ SyncManifest
            \/ ManifestFails \/ PublishCatalog
  BY <1>4, <1>12, ZenonT(60) DEF BeginSave, WriteLog, WriteMain, WriteManifest, SyncManifest,
     ManifestFails, PublishCatalog
<1>13. ASSUME NEW i \in DOMAIN catalog, Statement(i) PROVE Roots(catalog) \subseteq Named'
  BY <1>4, <1>13 DEF Statement, Insert, Delete, Rows, Stage
<1> QED
  BY <1>6, <1>7, <1>8, <1>9, <1>10, <1>11, <1>12, <1>13 DEF MigrationNext

\* A step that writes no tree leaves the file as it was, but for freed pages.
LEMMA FileKept ==
    ASSUME Inv, ~behind, MigrationNext,
           ~ (step = "open" /\ step' = "write manifest"),
           ~ CreateTable,
           \A i \in DOMAIN catalog : ~ (step = "open" /\ (Insert(i) \/ Delete(i) \/ AlterTable(i)))
    PROVE  /\ disk'.num = disk.num /\ disk.free \subseteq disk'.free
           /\ disk'.trees = disk.trees
<1> USE DEF files, handle, ghosts
<1>1. CASE \/ ReadLog \/ CopyLog \/ DropLog \/ Load \/ LoadRefused \/ CheckManifest
           \/ ManifestRefused \/ ReclaimRefused \/ Unlink \/ SyncUnlink
  BY <1>1 DEF ReadLog, CopyLog, DropLog, Load, LoadRefused, Refuse, CheckManifest,
     ManifestRefused, ReclaimRefused, Unlink, SyncUnlink
<1>2. CASE \/ BeginSave \/ SaveRefused \/ WriteLog \/ WriteLogFails
           \/ WriteMain \/ WriteMainFails \/ RemoveCatalogLog
  BY <1>2 DEF BeginSave, SaveRefused, WriteLog, WriteLogFails,
     WriteMain, WriteMainFails, RemoveCatalogLog, Published
<1>3. CASE \/ WriteManifest \/ SyncManifest \/ ManifestFails \/ PublishCatalog \/ Close
           \/ MigrationCrash
  BY <1>3 DEF WriteManifest, SyncManifest, ManifestFails, PublishCatalog, Close,
     MigrationCrash
<1>4. CASE Reclaim
  <2>1. disk \in [num : Nat, free : SUBSET Nat, trees : SUBSET Trees]
    BY <1>4 DEF Inv, DiskOK
  <2>2. disk' = [disk EXCEPT !.free = @ \cup Reclaimed(manifest)]
    BY <1>4 DEF Reclaim
  <2> QED
    BY <2>1, <2>2
<1>5. ASSUME step = "open", NEW i \in DOMAIN catalog, Statement(i) PROVE FALSE
  BY <1>5 DEF Statement, Stage
<1> QED
  BY <1>1, <1>2, <1>3, <1>4, <1>5 DEF MigrationNext

\* No step loses a page but those that the property names.
LEMMA LossStep ==
    ASSUME Inv, Inv', ~behind, ~behind', NamesInv, MigrationNext, manifest = durable,
           ~ (step = "open" /\ step' = "write manifest"),
           ~ (catalog' = Absent /\ catalog # Absent /\ Len(catalog) > Len(Shape(Lasting)))
    PROVE  \A p \in Lost' : p \in Lost
<1> DEFINE Writes == \/ CreateTable
                     \/ /\ step = "open"
                        /\ \E i \in DOMAIN catalog : Insert(i) \/ Delete(i) \/ AlterTable(i)
<1>1. CASE Writes
  <2>1. step = "open"
    BY <1>1 DEF CreateTable
  <2> QED
    BY <1>1, <2>1, StatementKeeps
<1>2. CASE ~ Writes
  <2>1. Roots(Shape(Lasting)) \subseteq Named'
    BY LastingStaysNamed
  <2>2. catalog # Absent => Roots(catalog) \subseteq Named'
    <3>1. \A i \in DOMAIN catalog : ~ AlterTable(i)
      BY <1>2 DEF AlterTable
    <3> QED
      BY <1>2, <3>1, MemoryStaysNamed
  <2>3. UNION {{m.old, m.staged} : m \in Pending} \subseteq Named'
    BY PendingStays, NamesNow DEF NamesOf
  <2>4. Named \subseteq Named'
    BY <2>1, <2>2, <2>3, NamesNow DEF NamesOf
  <2> QED
    BY <1>2, <2>4, FileKept, NamesKept
<1> QED
  BY <1>1, <1>2

\* The invariant with the clauses about pages.
THEOREM LossInvHolds == MigrationSpec => []LossInv
<1>1. MigrationInit => NamesInv
  BY DEF MigrationInit, NamesInv, Saving
<1>2. Inv /\ Inv' /\ LossInv /\ [MigrationNext]_migrationVars => LossInv'
  <2>1. SUFFICES ASSUME Inv, Inv', ~behind => NamesInv, [MigrationNext]_migrationVars,
                        ~behind'
                 PROVE  NamesInv'
    BY DEF LossInv
  <2>2. CASE UNCHANGED migrationVars
    <3>1. ~behind /\ UNCHANGED <<step, catalog, work>> /\ Pending' = Pending
      BY <2>1, <2>2 DEF migrationVars, Pending
    <3> QED
      BY <2>1, <3>1 DEF NamesInv, Saving
  <2>3. CASE MigrationNext
    <3>1. ~behind
      BY <2>1, <2>3, BehindLasts DEF Inv
    <3> QED
      BY <2>1, <2>3, <3>1, NamesStep
  <2> QED
    BY <2>1, <2>2, <2>3
<1>3. MigrationInit /\ Inv => LossInv
  BY <1>1 DEF LossInv
<1> QED
  BY <1>2, <1>3, MigrationInvHolds, PTL DEF MigrationSpec

\* A page is lost for good only when the process dies with a table that was not
\* saved, or when a copy is staged whose manifest is not written, not made durable
\* or replaces another; every other interruption, of an open as well, leaves each
\* page in the free list or in a tree that a catalog or manifest names
\* (schema_migration_recovery.h).
THEOREM PagesAreLostOnlyByDying == MigrationSpec => PagesLostOnlyByDying
<1> DEFINE Loses ==
       \/ behind'
       \/ manifest # durable
       \/ step = "open" /\ step' = "write manifest"
       \/ catalog' = Absent /\ catalog # Absent /\ Len(catalog) > Len(Shape(Lasting))
       \/ \A p \in Lost' : p \in Lost
<1>1. LossInv /\ Inv' /\ [MigrationNext]_migrationVars => [Loses]_migrationVars
  <2>1. SUFFICES ASSUME LossInv, Inv', MigrationNext, ~behind' PROVE Loses
    OBVIOUS
  <2>2. Inv
    BY <2>1 DEF LossInv
  <2>3. ~behind /\ NamesInv
    BY <2>1, <2>2, BehindLasts DEF Inv, LossInv
  <2> QED
    BY <2>1, <2>2, <2>3, LossStep
<1> QED
  BY <1>1, MigrationInvHolds, LossInvHolds, PTL DEF MigrationSpec, PagesLostOnlyByDying
=============================================================================
