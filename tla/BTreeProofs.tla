---------------------------- MODULE BTreeProofs ----------------------------
(***************************************************************************)
(* Proofs about BTreeV1.                                                   *)
(***************************************************************************)
EXTENDS BTreeInv, SequenceTheorems, FiniteSetTheorems, TLAPS

----------------------------------------------------------------------------
(* Sequences.                                                              *)

\* The elements of a concatenation, by position.
LEMMA ConcatAt ==
    ASSUME NEW S, NEW s \in Seq(S), NEW t \in Seq(S),
           NEW n \in Nat, n = Len(s) + Len(t)
    PROVE  /\ s \o t \in Seq(S) /\ Len(s \o t) = n
           /\ \A j \in 1 .. n : (s \o t)[j] = IF j <= Len(s) THEN s[j] ELSE t[j - Len(s)]
BY ConcatProperties

\* InsertAt puts one element before the i-th.
LEMMA InsertAtFacts ==
    ASSUME NEW S, NEW s \in Seq(S), NEW e \in S, NEW i \in 1 .. Len(s) + 1
    PROVE  /\ InsertAt(s, i, e) \in Seq(S)
           /\ Len(InsertAt(s, i, e)) = Len(s) + 1
           /\ \A j \in 1 .. Len(s) + 1 :
                 InsertAt(s, i, e)[j] = IF j < i THEN s[j]
                                        ELSE IF j = i THEN e ELSE s[j - 1]
<1> DEFINE a == SubSeq(s, 1, i - 1)
           c == SubSeq(s, i, Len(s))
           b == a \o <<e>>
           n == Len(s)
<1>0. n \in Nat /\ i \in Nat /\ i >= 1 /\ i <= n + 1
  OBVIOUS
<1>1. a \in Seq(S) /\ Len(a) = i - 1 /\ \A j \in 1 .. i - 1 : a[j] = s[j]
  BY SubSeqProperties
<1>2. c \in Seq(S) /\ Len(c) = Len(s) - i + 1
      /\ \A j \in 1 .. Len(s) - i + 1 : c[j] = s[i + j - 1]
  BY SubSeqProperties
<1>3. <<e>> \in Seq(S) /\ Len(<<e>>) = 1 /\ <<e>>[1] = e
  OBVIOUS
<1>4. b \in Seq(S) /\ Len(b) = i /\ \A j \in 1 .. i : b[j] = IF j < i THEN s[j] ELSE e
  BY <1>1, <1>3, ConcatProperties
<1> HIDE DEF b, c, n
<1>5. b \o c \in Seq(S) /\ Len(b \o c) = n + 1
      /\ \A j \in 1 .. n + 1 :
            (b \o c)[j] = IF j <= Len(b) THEN b[j] ELSE c[j - Len(b)]
  <2>1. Len(b) + Len(c) = n + 1 /\ n + 1 \in Nat
    BY <1>0, <1>2, <1>4 DEF n
  <2>2. b \in Seq(S) /\ c \in Seq(S) /\ n + 1 = Len(b) + Len(c)
    BY <1>2, <1>4, <2>1
  <2> QED BY ONLY <2>1, <2>2, ConcatAt
<1>6. InsertAt(s, i, e) = b \o c
  BY DEF InsertAt, b, c
<1>7. ASSUME NEW j \in 1 .. n + 1
      PROVE  (b \o c)[j] = IF j < i THEN s[j] ELSE IF j = i THEN e ELSE s[j - 1]
  <2>1. CASE j <= i
    BY <1>0, <1>4, <1>5, <2>1
  <2>2. CASE j > i
    <3>1. j - i \in 1 .. Len(s) - i + 1 /\ i + (j - i) - 1 = j - 1
      BY <1>0, <2>2 DEF n
    <3>2. c[j - i] = s[j - 1]
      BY <1>2, <3>1
    <3>3. (b \o c)[j] = c[j - i]
      BY <1>0, <1>4, <1>5, <2>2
    <3>4. ~(j < i) /\ j # i
      BY <1>0, <2>2
    <3> QED BY <3>2, <3>3, <3>4
  <2>3. j <= i \/ j > i
    BY <1>0
  <2> QED BY <2>1, <2>2, <2>3, Zenon
<1> QED BY <1>5, <1>6, <1>7 DEF n

\* RemoveAt takes the i-th element out.
LEMMA RemoveAtFacts ==
    ASSUME NEW S, NEW s \in Seq(S), NEW i \in 1 .. Len(s)
    PROVE  /\ RemoveAt(s, i) \in Seq(S)
           /\ Len(RemoveAt(s, i)) = Len(s) - 1
           /\ \A j \in 1 .. Len(s) - 1 :
                 RemoveAt(s, i)[j] = IF j < i THEN s[j] ELSE s[j + 1]
<1> DEFINE a == SubSeq(s, 1, i - 1)
           c == SubSeq(s, i + 1, Len(s))
           n == Len(s)
<1>0. n \in Nat /\ i \in Nat /\ i >= 1 /\ i <= n
  OBVIOUS
<1>1. a \in Seq(S) /\ Len(a) = i - 1 /\ \A j \in 1 .. i - 1 : a[j] = s[j]
  BY SubSeqProperties
<1>2. c \in Seq(S) /\ Len(c) = Len(s) - i
      /\ \A j \in 1 .. Len(s) - i : c[j] = s[i + j]
  BY SubSeqProperties
<1> HIDE DEF a, c, n
<1>5. a \o c \in Seq(S) /\ Len(a \o c) = n - 1
      /\ \A j \in 1 .. n - 1 :
            (a \o c)[j] = IF j <= Len(a) THEN a[j] ELSE c[j - Len(a)]
  <2>1. Len(a) + Len(c) = n - 1 /\ n - 1 \in Nat
    BY <1>0, <1>1, <1>2 DEF n
  <2>2. a \in Seq(S) /\ c \in Seq(S) /\ n - 1 = Len(a) + Len(c)
    BY <1>1, <1>2, <2>1
  <2> QED BY ONLY <2>1, <2>2, ConcatAt
<1>6. RemoveAt(s, i) = a \o c
  BY DEF RemoveAt, a, c
<1>7. ASSUME NEW j \in 1 .. n - 1
      PROVE  (a \o c)[j] = IF j < i THEN s[j] ELSE s[j + 1]
  <2>1. CASE j < i
    BY <1>0, <1>1, <1>5, <2>1
  <2>2. CASE j >= i
    <3>1. j - (i - 1) \in 1 .. Len(s) - i /\ i + (j - (i - 1)) = j + 1
      BY <1>0, <2>2 DEF n
    <3>2. c[j - (i - 1)] = s[j + 1]
      BY <1>2, <3>1
    <3>3. (a \o c)[j] = c[j - (i - 1)]
      BY <1>0, <1>1, <1>5, <2>2
    <3>4. ~(j < i)
      BY <1>0, <2>2
    <3> QED BY <3>2, <3>3, <3>4
  <2>3. j < i \/ j >= i
    BY <1>0
  <2> QED BY <2>1, <2>2, <2>3, Zenon
<1> QED BY <1>5, <1>6, <1>7 DEF n

LEMMA FrontFacts ==
    ASSUME NEW S, NEW s \in Seq(S), s # <<>>
    PROVE  /\ Front(s) \in Seq(S)
           /\ Len(Front(s)) = Len(s) - 1
           /\ \A j \in 1 .. Len(s) - 1 : Front(s)[j] = s[j]
<1>1. Len(s) \in Nat \ {0}
  BY EmptySeq
<1>2. /\ SubSeq(s, 1, Len(s) - 1) \in Seq(S)
      /\ Len(SubSeq(s, 1, Len(s) - 1)) = Len(s) - 1
      /\ \A j \in 1 .. Len(s) - 1 : SubSeq(s, 1, Len(s) - 1)[j] = s[j]
  <2> DEFINE n == Len(s) - 1
  <2>1. n \in Int /\ 1 \in Int /\ \A j \in 1 .. n : s[j] \in S
    BY <1>1
  <2> HIDE DEF n
  <2>2. /\ SubSeq(s, 1, n) \in Seq(S)
        /\ Len(SubSeq(s, 1, n)) = IF 1 <= n THEN n - 1 + 1 ELSE 0
        /\ \A j \in 1 .. n - 1 + 1 : SubSeq(s, 1, n)[j] = s[1 + j - 1]
    BY ONLY <2>1, SubSeqProperties
  <2>3. (IF 1 <= n THEN n - 1 + 1 ELSE 0) = n /\ n - 1 + 1 = n
    BY <1>1, SMTT(60) DEF n
  <2>4. \A j \in 1 .. n : 1 + j - 1 = j
    BY <2>1
  <2>5. /\ SubSeq(s, 1, n) \in Seq(S) /\ Len(SubSeq(s, 1, n)) = n
        /\ \A j \in 1 .. n : SubSeq(s, 1, n)[j] = s[j]
    BY <2>2, <2>3, <2>4
  <2> QED BY <2>5 DEF n
<1> QED BY <1>2 DEF Front

\* The elements of a sequence, by position.
LEMMA ToSetFacts ==
    ASSUME NEW S, NEW s \in Seq(S)
    PROVE  /\ DOMAIN s = 1 .. Len(s)
           /\ \A x : x \in ToSet(s) <=> \E j \in 1 .. Len(s) : s[j] = x
           /\ ToSet(s) \subseteq S
BY DEF ToSet

LEMMA InsertAtSet ==
    ASSUME NEW S, NEW s \in Seq(S), NEW e \in S, NEW i \in 1 .. Len(s) + 1
    PROVE  ToSet(InsertAt(s, i, e)) = ToSet(s) \cup {e}
<1>0. /\ InsertAt(s, i, e) \in Seq(S)
      /\ Len(InsertAt(s, i, e)) = Len(s) + 1
      /\ \A j \in 1 .. Len(s) + 1 :
            InsertAt(s, i, e)[j] = IF j < i THEN s[j]
                                   ELSE IF j = i THEN e ELSE s[j - 1]
  <2>1. s \in Seq(S) /\ e \in S /\ i \in 1 .. Len(s) + 1
    OBVIOUS
  <2>2. InsertAt(s, i, e) \in Seq(S) /\ Len(InsertAt(s, i, e)) = Len(s) + 1
    BY ONLY <2>1, InsertAtFacts
  <2>3. ASSUME NEW j \in 1 .. Len(s) + 1
        PROVE  InsertAt(s, i, e)[j] =
                 IF j < i THEN s[j] ELSE IF j = i THEN e ELSE s[j - 1]
    BY ONLY <2>1, j \in 1 .. Len(s) + 1, InsertAtFacts
  <2> QED BY <2>2, <2>3
<1>1. PICK t : /\ t = InsertAt(s, i, e)
               /\ t \in Seq(S) /\ Len(t) = Len(s) + 1
               /\ \A j \in 1 .. Len(s) + 1 :
                     t[j] = IF j < i THEN s[j] ELSE IF j = i THEN e ELSE s[j - 1]
  BY <1>0, Zenon
<1>5. i \in Int /\ Len(s) \in Nat
  OBVIOUS
<1>2. ToSet(t) \subseteq ToSet(s) \cup {e}
  BY <1>1, SMTT(60) DEF ToSet
<1>3. ASSUME NEW j \in 1 .. Len(s)
      PROVE  s[j] \in ToSet(t)
  <2>1. CASE j < i
    <3>1. j \in 1 .. Len(t) /\ j \in 1 .. Len(s) + 1
      BY <1>1, <1>5
    <3>2. t[j] = s[j]
      BY <1>1, <2>1, <3>1
    <3> QED BY <1>1, <3>1, <3>2, ToSetFacts
  <2>2. CASE j >= i
    <3>1. j + 1 \in 1 .. Len(t) /\ j + 1 \in 1 .. Len(s) + 1
      BY <1>1, <1>5
    <3>2. ~(j + 1 < i) /\ j + 1 # i /\ j + 1 - 1 = j
      BY <1>5, <2>2
    <3>3. t[j + 1] = s[j]
      BY <1>1, <3>1, <3>2
    <3> QED BY <1>1, <3>1, <3>3, ToSetFacts
  <2> QED BY <1>5, <2>1, <2>2
<1>4. e \in ToSet(t)
  BY <1>1 DEF ToSet
<1> QED BY <1>1, <1>2, <1>3, <1>4, ToSetFacts

LEMMA RemoveAtSet ==
    ASSUME NEW S, NEW s \in Seq(S), IsInjective(s), NEW i \in 1 .. Len(s)
    PROVE  /\ ToSet(RemoveAt(s, i)) = ToSet(s) \ {s[i]}
           /\ IsInjective(RemoveAt(s, i))
<1> DEFINE t == RemoveAt(s, i)
<1>1. t \in Seq(S) /\ Len(t) = Len(s) - 1
      /\ \A j \in 1 .. Len(s) - 1 : t[j] = IF j < i THEN s[j] ELSE s[j + 1]
  BY RemoveAtFacts
<1> HIDE DEF t
<1>0. \A j, l \in 1 .. Len(s) : s[j] = s[l] => j = l
  BY DEF IsInjective
<1>2. ToSet(t) \subseteq ToSet(s) \ {s[i]}
  BY <1>1, <1>0, SMTT(60) DEF ToSet
<1>3. ASSUME NEW j \in 1 .. Len(s), j # i
      PROVE  s[j] \in ToSet(t)
  <2>1. CASE j < i
    <3>1. t[j] = s[j] /\ j \in 1 .. Len(t)
      BY <1>1, <2>1, SMTT(60)
    <3> QED BY <1>1, <3>1, ToSetFacts
  <2>2. CASE j > i
    <3>1. t[j - 1] = s[j] /\ j - 1 \in 1 .. Len(t)
      BY <1>1, <2>2
    <3> QED BY <1>1, <3>1 DEF ToSet
  <2> QED BY <1>3, <2>1, <2>2
<1>4. IsInjective(t)
  BY <1>0, <1>1, SMTT(60) DEF IsInjective
<1>5. ToSet(s) \ {s[i]} \subseteq ToSet(t)
  BY <1>3, ToSetFacts
<1> QED BY <1>2, <1>4, <1>5 DEF t

LEMMA FrontSet ==
    ASSUME NEW S, NEW s \in Seq(S), IsInjective(s), s # <<>>
    PROVE  /\ ToSet(Front(s)) = ToSet(s) \ {s[Len(s)]}
           /\ IsInjective(Front(s))
<1>1. Front(s) \in Seq(S) /\ Len(Front(s)) = Len(s) - 1
      /\ \A j \in 1 .. Len(s) - 1 : Front(s)[j] = s[j]
  BY FrontFacts
<1>0. /\ \A j, l \in 1 .. Len(s) : s[j] = s[l] => j = l
      /\ Len(s) \in Nat \ {0}
  BY EmptySeq DEF IsInjective
<1>2. IsInjective(Front(s))
  BY <1>0, <1>1, SMTT(60) DEF IsInjective
<1>3. \A x : x \in ToSet(Front(s)) <=> \E j \in 1 .. Len(s) - 1 : s[j] = x
  BY <1>0, <1>1, ToSetFacts, SMTT(60)
<1>4. \A x : x \in ToSet(s) <=> \E j \in 1 .. Len(s) : s[j] = x
  BY ToSetFacts
<1> QED BY <1>0, <1>2, <1>3, <1>4

\* An element that is new keeps a sequence free of repetitions.
LEMMA InsertAtInjective ==
    ASSUME NEW S, NEW s \in Seq(S), IsInjective(s), NEW e \in S, e \notin ToSet(s),
           NEW i \in 1 .. Len(s) + 1
    PROVE  IsInjective(InsertAt(s, i, e))
<1> DEFINE t == InsertAt(s, i, e)
<1>1. t \in Seq(S) /\ Len(t) = Len(s) + 1
      /\ \A j \in 1 .. Len(s) + 1 :
            t[j] = IF j < i THEN s[j] ELSE IF j = i THEN e ELSE s[j - 1]
  BY InsertAtFacts
<1> HIDE DEF t
<1>0. \A j, l \in 1 .. Len(s) : s[j] = s[l] => j = l
  BY DEF IsInjective
<1>2. \A j \in 1 .. Len(s) : s[j] # e
  BY ToSetFacts
<1>3. ASSUME NEW j \in 1 .. Len(s) + 1, NEW l \in 1 .. Len(s) + 1, j < l
      PROVE  t[j] # t[l]
  <2>1. t[j] = IF j < i THEN s[j] ELSE IF j = i THEN e ELSE s[j - 1]
    BY <1>1
  <2>2. t[l] = IF l < i THEN s[l] ELSE IF l = i THEN e ELSE s[l - 1]
    BY <1>1
  <2> QED BY <1>0, <1>2, <1>3, <2>1, <2>2, SMTT(60)
<1>4. \A j, l \in 1 .. Len(s) + 1 : t[j] = t[l] => j = l
  BY <1>3
<1> QED BY <1>1, <1>4 DEF IsInjective, t

LEMMA AppendSet ==
    ASSUME NEW S, NEW s \in Seq(S), IsInjective(s), NEW e \in S, e \notin ToSet(s)
    PROVE  /\ Append(s, e) \in Seq(S)
           /\ ToSet(Append(s, e)) = ToSet(s) \cup {e}
           /\ IsInjective(Append(s, e))
<1>1. Append(s, e) \in Seq(S) /\ Len(Append(s, e)) = Len(s) + 1
      /\ (\A j \in 1 .. Len(s) : Append(s, e)[j] = s[j])
      /\ Append(s, e)[Len(s) + 1] = e
  BY AppendProperties
<1>2. \A j \in 1 .. Len(s) : s[j] # e
  BY ToSetFacts
<1>3. \A x : x \in ToSet(Append(s, e)) <=> \E j \in 1 .. Len(s) + 1 : Append(s, e)[j] = x
  BY <1>1, ToSetFacts, ZenonT(60)
<1>4. \A x : x \in ToSet(s) <=> \E j \in 1 .. Len(s) : s[j] = x
  BY ToSetFacts
<1>5. IsInjective(Append(s, e))
  BY <1>1, <1>2 DEF IsInjective
<1> QED BY <1>1, <1>3, <1>4, <1>5
\* What the capacities are.
LEMMA Sizes == /\ MaxCells \in Nat /\ MaxCells >= 1
               /\ MaxKeys \in Nat /\ MaxKeys >= 1 /\ MaxPages \in Nat
BY BTreeAssumption

----------------------------------------------------------------------------
(* A tree and its leaves.                                                  *)

\* What an operation on the tree at r leaves alone.
Kept(d, e, r) ==
    /\ OneTree(e, r) /\ d.num <= e.num
    /\ Rest(e, r) = Rest(d, r)
    /\ \A q \in Rest(d, r) : e.node[q] = d.node[q]

\* The number of keys below k is at most the number of keys.
LEMMA BelowRange ==
    ASSUME NEW S, NEW s \in Seq(S), NEW k
    PROVE  Below(s, k) \in 0 .. Len(s)
<1> DEFINE B == {i \in DOMAIN s : s[i] < k}
<1>1. B \subseteq 1 .. Len(s) /\ Len(s) \in Nat
  OBVIOUS
<1>2. IsFiniteSet(1 .. Len(s)) /\ Cardinality(1 .. Len(s)) = Len(s)
  BY <1>1, FS_Interval, SMTT(60)
<1>3. IsFiniteSet(B) /\ Cardinality(B) <= Len(s)
  BY <1>1, <1>2, FS_Subset
<1>4. Cardinality(B) \in Nat
  BY <1>3, FS_CardinalityType
<1> QED BY <1>1, <1>3, <1>4 DEF Below

\* The page that a search ends at is a leaf of the tree.
LEMMA LeafForIsLeaf ==
    ASSUME NEW d, NEW r, Tree(d, r), NEW k
    PROVE  LeafFor(d, r, k) \in LeavesBelow(d, r)
<1>1. CASE IsLeaf(d, r)
  BY <1>1 DEF LeafFor, LeavesBelow
<1>2. CASE ~IsLeaf(d, r)
  <2> DEFINE n == d.node[r]
             i == Below(n.keys, k)
  <2>1. n.keys \in Seq(Nat) /\ n.kids \in Seq(Nat) /\ Len(n.kids) = Len(n.keys) + 1
    BY <1>2 DEF Tree, RootInner
  <2>2. i \in 0 .. Len(n.keys)
    BY <2>1, BelowRange
  <2> HIDE DEF n, i
  <2>3. i + 1 \in 1 .. Len(n.kids)
    BY <2>1, <2>2
  <2>4. n.kids[i + 1] \in ToSet(n.kids)
    BY <2>1, <2>3, ToSetFacts
  <2> QED BY <1>2, <2>4 DEF LeafFor, FindChild, LeavesBelow, Kids, n, i
<1> QED BY <1>1, <1>2

\* The leaves of a tree have the fields of a leaf, and know whether they are
\* the root.
LEMMA LeafShape ==
    ASSUME NEW d, NEW r, Tree(d, r), NEW p \in LeavesBelow(d, r)
    PROVE  /\ p \in 0 .. d.num - 1
           /\ LeafNode(d.node[p])
           /\ IsLeaf(d, r) <=> p = r
           /\ p = r => RootLeaf(d.node[p])
           /\ p # r => ChildLeaf(d.node[p], r) /\ p # 0
<1>1. CASE IsLeaf(d, r)
  BY <1>1 DEF LeavesBelow, Tree, RootLeaf
<1>2. CASE ~IsLeaf(d, r)
  BY <1>2 DEF LeavesBelow, Kids, Tree, ChildLeaf
<1> QED BY <1>1, <1>2

\* Links are a matter of the next and prev fields alone.
LEMMA LinkedSame ==
    ASSUME NEW f, NEW g, NEW S, NEW R, Linked(f, S, R),
           \A p \in S : g[p].next = f[p].next /\ g[p].prev = f[p].prev
    PROVE  Linked(g, S, R)
BY DEF Linked

\* An order of the leaves may be restricted to them.
LEMMA LinkedWithin ==
    ASSUME NEW f, NEW S, NEW R, Linked(f, S, R)
    PROVE  \E Q : Linked(f, S, Q) /\ Q \subseteq S \X S
<1> DEFINE Q == R \cap (S \X S)
<1>1. Linked(f, S, Q)
  BY DEF Linked
<1>2. Q \subseteq S \X S
  OBVIOUS
<1> HIDE DEF Q
<1> QED BY <1>1, <1>2

\* A leaf whose keys alone change.
Rekeyed(d, p, ks) == [d EXCEPT !.node[p].keys = ks]

LEMMA LeafRewritten ==
    ASSUME NEW d, NEW r, OneTree(d, r), NEW p \in LeavesBelow(d, r),
           NEW ks \in Seq(Nat), Len(ks) <= MaxCells, p # r => ks # <<>>,
           NEW e, e = Rekeyed(d, p, ks)
    PROVE  /\ Kept(d, e, r) /\ e.num = d.num /\ e.free = d.free
           /\ e.node[p].keys = ks /\ e.node[p].parent = d.node[p].parent
           /\ \A q \in 0 .. d.num - 1 : q # p => e.node[q] = d.node[q]
<1>1. /\ File(d) /\ Tree(d, r)
      /\ d = DbRec(d.node, d.free, d.num, d.ok) /\ d.ok = TRUE
      /\ d.node = [q \in 0 .. d.num - 1 |-> d.node[q]]
      /\ d.num \in Nat
  BY DEF OneTree, File
<1>2. /\ p \in 0 .. d.num - 1 /\ LeafNode(d.node[p])
      /\ IsLeaf(d, r) <=> p = r
      /\ p = r => RootLeaf(d.node[p])
      /\ p # r => ChildLeaf(d.node[p], r) /\ p # 0
  BY <1>1, LeafShape
<1> DEFINE m == [d.node[p] EXCEPT !.keys = ks]
           f == [q \in 0 .. d.num - 1 |-> IF q = p THEN m ELSE d.node[q]]
<1>3. /\ LeafNode(m) /\ m.kind = "leaf" /\ m.root = d.node[p].root /\ m.keys = ks
      /\ m.parent = d.node[p].parent /\ m.next = d.node[p].next /\ m.prev = d.node[p].prev
  <2> DEFINE n == d.node[p]
  <2>1. LeafNode(n) /\ ks \in Seq(Nat) /\ Len(ks) <= MaxCells /\ m = [n EXCEPT !.keys = ks]
    BY <1>2
  <2> HIDE DEF n, m
  <2>2. /\ LeafNode(m) /\ m.keys = ks /\ m.kind = "leaf" /\ m.root = n.root
        /\ m.parent = n.parent /\ m.next = n.next /\ m.prev = n.prev
    BY ONLY <2>1, SMTT(60) DEF LeafNode, LeafRec
  <2> QED BY <2>2 DEF n
<1>4. /\ e = DbRec(e.node, e.free, e.num, e.ok) /\ e.ok = TRUE
      /\ e.node = f /\ e.free = d.free /\ e.num = d.num
  <2>1. [d.node EXCEPT ![p].keys = ks] = f
    BY <1>1, <1>2
  <2>2. e = [d EXCEPT !.node = [d.node EXCEPT ![p].keys = ks]]
    BY <1>1 DEF Rekeyed
  <2> HIDE DEF f
  <2>3. e = [d EXCEPT !.node = f]
    BY <2>1, <2>2
  <2>4. d = DbRec(d.node, d.free, d.num, d.ok) /\ d.ok = TRUE
    BY <1>1
  <2> QED BY ONLY <2>3, <2>4 DEF DbRec
<1>5. f[p] = m /\ \A q \in 0 .. d.num - 1 : q # p => f[q] = d.node[q]
  BY <1>2
<1> HIDE DEF f, m
<1>6. IsLeaf(e, r) <=> IsLeaf(d, r)
  BY <1>1, <1>2, <1>3, <1>4, <1>5, ZenonT(60) DEF IsLeaf, Tree
<1>7. File(e)
  <2>1. p \notin ToSet(d.free)
    BY <1>1, <1>2 DEF OneTree, Own, Kids, LeavesBelow
  <2>2. ASSUME NEW q \in ToSet(e.free)
        PROVE  q \in 1 .. e.num - 1 /\ e.node[q] = Blank
    <3>1. q \in 1 .. d.num - 1 /\ d.node[q] = Blank /\ q # p
      BY <1>1, <1>4, <2>1, <2>2 DEF File
    <3>2. f[q] = d.node[q]
      BY <1>5, <3>1
    <3> QED BY <1>4, <3>1, <3>2
  <2>3. e.node = [q \in 0 .. e.num - 1 |-> e.node[q]]
    <3>1. f = [q \in 0 .. d.num - 1 |-> f[q]]
      BY DEF f
    <3>2. e.node = f /\ e.num = d.num
      BY <1>4
    <3> QED BY ONLY <3>1, <3>2
  <2> QED BY <1>1, <1>4, <2>2, <2>3 DEF File
<1>8. Tree(e, r)
  <2>1. CASE IsLeaf(d, r)
    BY <1>1, <1>2, <1>3, <1>4, <1>5, <1>6, <2>1 DEF Tree, RootLeaf
  <2>2. CASE ~IsLeaf(d, r)
    <3>1. f[r] = d.node[r]
      BY <1>1, <1>2, <1>5, <2>2 DEF Tree
    <3>2. ASSUME NEW c \in ToSet(d.node[r].kids)
          PROVE  /\ c \in 1 .. d.num - 1 /\ c # r /\ ChildLeaf(f[c], r)
                 /\ f[c].next = d.node[c].next /\ f[c].prev = d.node[c].prev
      <4>1. c \in 1 .. d.num - 1 /\ c # r /\ ChildLeaf(d.node[c], r)
        BY <1>1, <2>2 DEF Tree
      <4>2. CASE c = p
        BY <1>2, <1>3, <1>5, <2>2, <4>1, <4>2 DEF ChildLeaf
      <4>3. CASE c # p
        BY <1>5, <4>1, <4>3
      <4> QED BY <4>2, <4>3
    <3>3. PICK R : Linked(d.node, ToSet(d.node[r].kids), R)
      BY <1>1, <2>2 DEF Tree
    <3>4. Linked(f, ToSet(d.node[r].kids), R)
      BY <3>2, <3>3, LinkedSame
    <3>5. RootInner(f[r]) /\ r \in 0 .. d.num - 1
      BY <1>1, <2>2, <3>1 DEF Tree
    <3>6. PICK Q : Linked(f, ToSet(d.node[r].kids), Q)
                   /\ Q \subseteq ToSet(d.node[r].kids) \X ToSet(d.node[r].kids)
      BY <3>4, LinkedWithin
    <3> QED BY <1>4, <1>6, <2>2, <3>1, <3>2, <3>5, <3>6 DEF Tree
  <2> QED BY <2>1, <2>2
<1>10. Own(e, r) = Own(d, r)
  <2>1. CASE IsLeaf(d, r)
    BY <1>6, <2>1 DEF Own, Kids
  <2>2. CASE ~IsLeaf(d, r)
    BY <1>1, <1>2, <1>4, <1>5, <1>6, <2>2 DEF Own, Kids, Tree
  <2> QED BY <2>1, <2>2
<1>11. p \notin Rest(d, r) /\ Rest(e, r) = Rest(d, r)
  BY <1>4, <1>10 DEF Rest, Own, Kids, LeavesBelow
<1>12. OneTree(e, r)
  BY <1>4, <1>7, <1>8, <1>10 DEF OneTree
<1>13. d.num <= e.num
  BY <1>1, <1>4
<1>14. \A q \in Rest(d, r) : e.node[q] = d.node[q]
  BY <1>4, <1>5, <1>11 DEF Rest
<1> QED BY <1>2, <1>3, <1>4, <1>5, <1>11, <1>12, <1>13, <1>14 DEF Kept, m

----------------------------------------------------------------------------
(* Putting a database together.                                            *)

Db(d) ==
    /\ d = DbRec(d.node, d.free, d.num, d.ok) /\ d.ok = TRUE /\ d.num \in Nat
    /\ d.node = [q \in 0 .. d.num - 1 |-> d.node[q]]

\* A leaf with other links.
Relink(n, nx, pv) == LeafRec(n.root, n.parent, n.keys, nx, pv)

LEMMA RelinkFields ==
    ASSUME NEW n, LeafNode(n), NEW nx, NEW pv, NEW m, m = Relink(n, nx, pv)
    PROVE  /\ LeafNode(m) /\ m.next = nx /\ m.prev = pv /\ m.keys = n.keys
           /\ m.kind = "leaf" /\ m.root = n.root /\ m.parent = n.parent
BY DEF Relink, LeafNode, LeafRec

LEMMA LeafKind ==
    ASSUME NEW n, LeafNode(n)
    PROVE  n.kind = "leaf" /\ Relink(n, n.next, n.prev) = n
BY DEF Relink, LeafNode, LeafRec

\* Writing one page.
Write(d, p, n) == [d EXCEPT !.node[p] = n]

LEMMA PutPage ==
    ASSUME NEW d, Db(d), NEW p \in 0 .. d.num - 1, NEW n, NEW e, e = Write(d, p, n)
    PROVE  /\ Db(e) /\ e.num = d.num /\ e.free = d.free
           /\ \A q \in 0 .. d.num - 1 : e.node[q] = IF q = p THEN n ELSE d.node[q]
<1> DEFINE f == [q \in 0 .. d.num - 1 |-> IF q = p THEN n ELSE d.node[q]]
<1>1. [d.node EXCEPT ![p] = n] = f
  BY DEF Db
<1>2. e = [d EXCEPT !.node = [d.node EXCEPT ![p] = n]]
  BY DEF Write
<1>3. d = DbRec(d.node, d.free, d.num, d.ok) /\ d.ok = TRUE /\ d.num \in Nat
  BY DEF Db
<1>4. \A q \in 0 .. d.num - 1 : f[q] = IF q = p THEN n ELSE d.node[q]
  OBVIOUS
<1>5. f = [q \in 0 .. d.num - 1 |-> f[q]]
  OBVIOUS
<1> HIDE DEF f
<1>6. e = [d EXCEPT !.node = f]
  BY <1>1, <1>2
<1>7. /\ e = DbRec(e.node, e.free, e.num, e.ok) /\ e.ok = TRUE
      /\ e.node = f /\ e.free = d.free /\ e.num = d.num
  BY ONLY <1>3, <1>6 DEF DbRec
<1>8. e.node = [q \in 0 .. e.num - 1 |-> e.node[q]]
  <2>1. e.node = f /\ e.num = d.num
    BY <1>7
  <2> QED BY ONLY <1>5, <2>1
<1>9. Db(e)
  BY <1>3, <1>7, <1>8, SMTT(60) DEF Db
<1> QED BY <1>4, <1>7, <1>9

\* The links around a leaf, once it is unlinked.
LEMMA UnlinkFacts ==
    ASSUME NEW d, Db(d), NEW p \in 0 .. d.num - 1,
           NEW a \in 0 .. d.num - 1, NEW b \in 0 .. d.num - 1,
           a = d.node[p].prev, b = d.node[p].next,
           a # 0 => LeafNode(d.node[a]) /\ a # p,
           b # 0 => LeafNode(d.node[b]) /\ b # p /\ a # b,
           NEW e, e = Unlink(d, p)
    PROVE  /\ Db(e) /\ e.num = d.num /\ e.free = d.free
           /\ a # 0 => e.node[a] = Relink(d.node[a], b, d.node[a].prev)
           /\ b # 0 => e.node[b] = Relink(d.node[b], d.node[b].next, a)
           /\ \A q \in 0 .. d.num - 1 :
                 (a # 0 => q # a) /\ (b # 0 => q # b) => e.node[q] = d.node[q]
<1> DEFINE d1 == IF a = 0 THEN d ELSE [d EXCEPT !.node[a].next = b]
<1>1. e = IF b = 0 THEN d1 ELSE [d1 EXCEPT !.node[b].prev = a]
  BY ZenonT(60) DEF Unlink
<1>2. /\ Db(d1) /\ d1.num = d.num /\ d1.free = d.free
      /\ a # 0 => d1.node[a] = Relink(d.node[a], b, d.node[a].prev)
      /\ \A q \in 0 .. d.num - 1 : (a # 0 => q # a) => d1.node[q] = d.node[q]
  <2>1. CASE a = 0
    BY <2>1
  <2>2. CASE a # 0
    <3> DEFINE n == [d.node[a] EXCEPT !.next = b]
    <3>1. n = Relink(d.node[a], b, d.node[a].prev)
      <4> DEFINE m == d.node[a]
      <4>1. LeafNode(m)
        BY <2>2
      <4> HIDE DEF m
      <4>2. [m EXCEPT !.next = b] = Relink(m, b, m.prev)
        BY ONLY <4>1 DEF LeafNode, LeafRec, Relink
      <4> QED BY <4>2 DEF m
    <3>2. d1 = Write(d, a, n)
      BY <2>2 DEF Write
    <3> HIDE DEF n, d1
    <3>3. /\ Db(d1) /\ d1.num = d.num /\ d1.free = d.free
          /\ \A q \in 0 .. d.num - 1 : d1.node[q] = IF q = a THEN n ELSE d.node[q]
      BY <3>2, PutPage
    <3> QED BY <2>2, <3>1, <3>3, SMTT(60)
  <2> QED BY <2>1, <2>2
<1> HIDE DEF d1
<1>3. CASE b = 0
  BY <1>1, <1>2, <1>3, SMTT(60)
<1>4. CASE b # 0
  <2> DEFINE n == [d1.node[b] EXCEPT !.prev = a]
  <2>0. d1.node[b] = d.node[b] /\ LeafNode(d.node[b])
    BY <1>2, <1>4, SMTT(60)
  <2>1. n = Relink(d.node[b], d.node[b].next, a)
    <3> DEFINE m == d.node[b]
    <3>1. LeafNode(m)
      BY <2>0
    <3> HIDE DEF m
    <3>2. [m EXCEPT !.prev = a] = Relink(m, m.next, a)
      BY ONLY <3>1 DEF LeafNode, LeafRec, Relink
    <3> QED BY <2>0, <3>2 DEF m
  <2>2. e = Write(d1, b, n)
    BY <1>1, <1>4 DEF Write
  <2> HIDE DEF n
  <2>3. b \in 0 .. d1.num - 1
    BY <1>2
  <2>4. /\ Db(e) /\ e.num = d1.num /\ e.free = d1.free
        /\ \A q \in 0 .. d1.num - 1 : e.node[q] = IF q = b THEN n ELSE d1.node[q]
    BY <1>2, <2>2, <2>3, PutPage
  <2> QED BY <1>2, <1>4, <2>1, <2>4
<1> QED BY <1>3, <1>4

\* A page given back.
LEMMA FreeFacts ==
    ASSUME NEW d, Db(d), NEW p \in 1 .. d.num - 1, NEW e, e = FreePage(d, p)
    PROVE  /\ Db(e) /\ e.num = d.num /\ e.free = Append(d.free, p)
           /\ \A q \in 0 .. d.num - 1 : e.node[q] = IF q = p THEN Blank ELSE d.node[q]
<1>1. p # 0 /\ ~(p >= d.num) /\ p \in 0 .. d.num - 1
  BY DEF Db
<1> DEFINE x == Append(d.free, p)
           d1 == [d EXCEPT !.free = x]
<1>2. e = [d1 EXCEPT !.node[p] = Blank]
  BY <1>1 DEF FreePage
<1>3. d1 = [d EXCEPT !.free = x]
  OBVIOUS
<1> HIDE DEF x, d1
<1>4. d = DbRec(d.node, d.free, d.num, d.ok) /\ d.ok = TRUE /\ d.num \in Nat
  BY DEF Db
<1>5. /\ d1 = DbRec(d1.node, d1.free, d1.num, d1.ok) /\ d1.ok = TRUE
      /\ d1.node = d.node /\ d1.free = x /\ d1.num = d.num
  BY ONLY <1>3, <1>4 DEF DbRec
<1>6. Db(d1)
  BY <1>4, <1>5 DEF Db
<1>7. e = Write(d1, p, Blank)
  BY <1>2 DEF Write
<1>8. /\ Db(e) /\ e.num = d1.num /\ e.free = d1.free
      /\ \A q \in 0 .. d1.num - 1 : e.node[q] = IF q = p THEN Blank ELSE d1.node[q]
  <2>1. p \in 0 .. d1.num - 1
    BY <1>1, <1>5
  <2> QED BY ONLY <1>6, <1>7, <2>1, PutPage
<1> QED BY <1>5, <1>8 DEF x

\* An inner node without its i-th child.
Cut(n, i) ==
    InnerRec(n.root, n.parent,
             IF i = Len(n.kids) THEN Front(n.keys) ELSE RemoveAt(n.keys, i),
             RemoveAt(n.kids, i))

LEMMA CutFacts ==
    ASSUME NEW n, RootInner(n), NEW i \in 1 .. Len(n.kids), NEW m, m = Cut(n, i)
    PROVE  /\ m.kind = "internal" /\ m.root /\ m.parent = n.parent
           /\ m = InnerRec(m.root, m.parent, m.keys, m.kids)
           /\ m.kids = RemoveAt(n.kids, i)
           /\ m.keys = IF i = Len(n.kids) THEN Front(n.keys) ELSE RemoveAt(n.keys, i)
           /\ m.keys \in Seq(Nat) /\ m.kids \in Seq(Nat)
           /\ Len(m.keys) = Len(n.keys) - 1 /\ Len(m.kids) = Len(n.kids) - 1
           /\ ToSet(m.kids) = ToSet(n.kids) \ {n.kids[i]}
           /\ Len(n.keys) # 1 => RootInner(m)
<1>1. /\ n = InnerRec(n.root, n.parent, n.keys, n.kids) /\ n.root
      /\ n.keys \in Seq(Nat) /\ n.kids \in Seq(Nat) /\ IsInjective(n.kids)
      /\ Len(n.keys) \in 1 .. MaxKeys /\ Len(n.kids) = Len(n.keys) + 1
  BY DEF RootInner
<1>0. n.keys # <<>> /\ Len(n.keys) \in Nat
  BY <1>1, EmptySeq
<1> DEFINE cs == RemoveAt(n.kids, i)
           ks == IF i = Len(n.kids) THEN Front(n.keys) ELSE RemoveAt(n.keys, i)
<1>2. cs \in Seq(Nat) /\ Len(cs) = Len(n.kids) - 1
      /\ ToSet(cs) = ToSet(n.kids) \ {n.kids[i]} /\ IsInjective(cs)
  BY <1>1, RemoveAtFacts, RemoveAtSet
<1>3. ks \in Seq(Nat) /\ Len(ks) = Len(n.keys) - 1
  <2>1. CASE i = Len(n.kids)
    BY <1>0, <1>1, <2>1, FrontFacts
  <2>2. CASE i # Len(n.kids)
    <3>1. i \in 1 .. Len(n.keys)
      BY <1>1, <2>2
    <3> QED BY <1>1, <2>2, <3>1, RemoveAtFacts
  <2> QED BY <2>1, <2>2
<1>4. m = InnerRec(n.root, n.parent, ks, cs)
  BY DEF Cut
<1> HIDE DEF ks, cs
<1>5. /\ m.kind = "internal" /\ m.root = n.root /\ m.parent = n.parent
      /\ m.keys = ks /\ m.kids = cs
  BY ONLY <1>4 DEF InnerRec
<1>6. m = InnerRec(m.root, m.parent, m.keys, m.kids) /\ m.root
  BY <1>1, <1>4, <1>5
<1>7. Len(n.keys) # 1 => Len(ks) \in 1 .. MaxKeys
  <2> DEFINE l == Len(n.keys)
  <2>1. l \in 1 .. MaxKeys /\ Len(ks) = l - 1
    BY <1>1, <1>3
  <2> HIDE DEF l
  <2>2. l # 1 => Len(ks) \in 1 .. MaxKeys
    BY <2>1, Sizes
  <2> QED BY <2>2 DEF l
<1>8. Len(n.keys) # 1 => RootInner(m)
  <2>1. /\ m.keys \in Seq(Nat) /\ m.kids \in Seq(Nat) /\ IsInjective(m.kids)
        /\ Len(n.keys) # 1 => Len(m.keys) \in 1 .. MaxKeys
    BY <1>2, <1>3, <1>5, <1>7, SMTT(60)
  <2>2. Len(m.kids) = Len(m.keys) + 1
    BY <1>0, <1>1, <1>2, <1>3, <1>5
  <2> QED BY <1>6, <2>1, <2>2 DEF RootInner
<1> QED BY <1>1, <1>2, <1>3, <1>5, <1>6, <1>8 DEF ks, cs

\* Which child is removed.
LEMMA RemoveChildFacts ==
    ASSUME NEW d, Db(d), NEW r \in 0 .. d.num - 1, RootInner(d.node[r]),
           NEW c \in ToSet(d.node[r].kids)
    PROVE  \E i \in 1 .. Len(d.node[r].kids) :
              /\ d.node[r].kids[i] = c
              /\ RemoveChild(d, r, r, c) =
                    IF Len(d.node[r].keys) = 1
                    THEN CollapseRoot(Write(d, r, Cut(d.node[r], i)), r)
                    ELSE Write(d, r, Cut(d.node[r], i))
<1> DEFINE n == d.node[r]
           i == IF Contains(n.kids, c) THEN CHOOSE j \in DOMAIN n.kids : n.kids[j] = c
                ELSE Len(n.kids)
           cut == [n EXCEPT !.kids = RemoveAt(@, i),
                            !.keys = IF i = Len(n.kids) THEN Front(@) ELSE RemoveAt(@, i)]
<1>1. /\ n = InnerRec(n.root, n.parent, n.keys, n.kids) /\ n.root
      /\ n.keys \in Seq(Nat) /\ n.kids \in Seq(Nat)
      /\ Len(n.keys) \in 1 .. MaxKeys /\ Len(n.kids) = Len(n.keys) + 1
  BY DEF RootInner
<1>2. \E j \in DOMAIN n.kids : n.kids[j] = c
  BY DEF ToSet
<1>10. Contains(n.kids, c)
  BY <1>1, ToSetFacts, ZenonT(60) DEF Contains
<1>3. i \in DOMAIN n.kids /\ n.kids[i] = c
  BY <1>2, <1>10
<1>5. RemoveChild(d, r, r, c) =
        IF Len(n.keys) = 0 THEN d
        ELSE IF Len(cut.keys) = 0 /\ n.root THEN CollapseRoot(Write(d, r, cut), r)
        ELSE Write(d, r, cut)
  BY Zenon DEF RemoveChild, Write
<1> HIDE DEF i
<1>4. i \in 1 .. Len(n.kids)
  BY <1>1, <1>3, SMTT(60)
<1>6. cut = Cut(n, i)
  <2> DEFINE x == RemoveAt(n.kids, i)
             y == IF i = Len(n.kids) THEN Front(n.keys) ELSE RemoveAt(n.keys, i)
             n1 == [n EXCEPT !.kids = x]
  <2>1. n1.keys = n.keys
    <3> HIDE DEF x
    <3> QED BY ONLY <1>1 DEF InnerRec
  <2>2. cut = [n1 EXCEPT !.keys = y]
    BY <2>1
  <2>3. Cut(n, i) = InnerRec(n.root, n.parent, y, x)
    BY DEF Cut
  <2> HIDE DEF n, x, y, cut
  <2>4. n1 = InnerRec(n.root, n.parent, n.keys, x)
    <3>1. n = InnerRec(n.root, n.parent, n.keys, n.kids)
      BY <1>1
    <3> QED BY ONLY <3>1 DEF InnerRec
  <2> HIDE DEF n1
  <2>5. [n1 EXCEPT !.keys = y] = InnerRec(n.root, n.parent, y, x)
    BY ONLY <2>4 DEF InnerRec
  <2> QED BY <2>2, <2>3, <2>5
<1> HIDE DEF cut
<1>7. Len(cut.keys) = Len(n.keys) - 1
  <2>1. RootInner(n)
    OBVIOUS
  <2> HIDE DEF n
  <2> QED BY ONLY <1>4, <1>6, <2>1, CutFacts
<1>8. Len(n.keys) # 0 /\ (Len(cut.keys) = 0 <=> Len(n.keys) = 1)
  BY <1>1, <1>7
<1>9. RemoveChild(d, r, r, c) =
        IF Len(n.keys) = 1 THEN CollapseRoot(Write(d, r, cut), r) ELSE Write(d, r, cut)
  BY <1>1, <1>5, <1>8
<1> QED BY <1>3, <1>4, <1>6, <1>9

\* A file, from its parts.
LEMMA FileFrom ==
    ASSUME NEW e, Db(e), e.num >= 1, e.free \in Seq(Nat), IsInjective(e.free),
           \A q \in ToSet(e.free) : q \in 1 .. e.num - 1 /\ e.node[q] = Blank
    PROVE  File(e)
<1>1. e.num \in Nat \ {0}
  BY DEF Db
<1> QED BY <1>1 DEF File, Db

LEMMA FileIsDb ==
    ASSUME NEW d, File(d)
    PROVE  /\ Db(d) /\ d.num \in Nat /\ d.num >= 1
           /\ d.free \in Seq(Nat) /\ IsInjective(d.free)
           /\ \A q \in ToSet(d.free) : q \in 1 .. d.num - 1 /\ d.node[q] = Blank
<1>1. /\ d = DbRec(d.node, d.free, d.num, d.ok) /\ d.ok = TRUE
      /\ d.num \in Nat \ {0}
      /\ d.node = [q \in 0 .. d.num - 1 |-> d.node[q]]
      /\ d.free \in Seq(Nat) /\ IsInjective(d.free)
      /\ \A q \in ToSet(d.free) : q \in 1 .. d.num - 1 /\ d.node[q] = Blank
  BY DEF File
<1>2. d.num \in Nat /\ d.num >= 1
  BY <1>1
<1>3. Db(d)
  BY <1>1, <1>2 DEF Db
<1> QED BY <1>1, <1>2, <1>3

\* A tree of several leaves, from its parts.
LEMMA InnerTree ==
    ASSUME NEW e, File(e), NEW r \in 0 .. e.num - 1, RootInner(e.node[r]),
           NEW S, S = ToSet(e.node[r].kids),
           \A c \in S : c \in 1 .. e.num - 1 /\ c # r /\ ChildLeaf(e.node[c], r),
           NEW R, Linked(e.node, S, R),
           r \notin ToSet(e.free), S \cap ToSet(e.free) = {}
    PROVE  OneTree(e, r) /\ Own(e, r) = {r} \cup S /\ ~IsLeaf(e, r)
<1>1. e.node[r].kind = "internal"
  BY DEF RootInner, InnerRec
<1>2. ~IsLeaf(e, r)
  BY <1>1 DEF IsLeaf
<1>3. Tree(e, r)
  <2>1. PICK Q : Linked(e.node, S, Q) /\ Q \subseteq S \X S
    BY LinkedWithin
  <2> QED BY <1>2, <2>1 DEF Tree
<1>4. Own(e, r) = {r} \cup S
  BY <1>2 DEF Own, Kids
<1> QED BY <1>2, <1>3, <1>4 DEF OneTree

\* A tree of one leaf.
LEMMA LeafTree ==
    ASSUME NEW e, File(e), NEW r \in 0 .. e.num - 1, RootLeaf(e.node[r]),
           r \notin ToSet(e.free)
    PROVE  OneTree(e, r) /\ Own(e, r) = {r} /\ IsLeaf(e, r)
<1>1. IsLeaf(e, r)
  BY LeafKind DEF RootLeaf, IsLeaf
<1>2. Tree(e, r) /\ Own(e, r) = {r}
  BY <1>1 DEF Tree, Own, Kids
<1> QED BY <1>1, <1>2 DEF OneTree

\* Pages that only change hands between the tree and the free-page stack.
LEMMA KeptFrom ==
    ASSUME NEW d, NEW e, NEW r, OneTree(e, r), d.num \in Nat, e.num = d.num,
           Own(e, r) \cup ToSet(e.free) = Own(d, r) \cup ToSet(d.free),
           \A q \in 0 .. d.num - 1 :
              q \notin Own(d, r) \cup ToSet(d.free) => e.node[q] = d.node[q]
    PROVE  Kept(d, e, r)
BY DEF Kept, Rest

\* The chain closes over a leaf that leaves it.
LEMMA UnlinkedStaysLinked ==
    ASSUME NEW f, NEW g, NEW S, NEW R, Linked(f, S, R), 0 \notin S, NEW p \in S,
           \A q \in S \ {p} :
              /\ g[q].next = IF q = f[p].prev THEN f[p].next ELSE f[q].next
              /\ g[q].prev = IF q = f[p].next THEN f[p].prev ELSE f[q].prev
    PROVE  Linked(g, S \ {p}, R)
<1>1. /\ \A q \in S : <<q, q>> \notin R
      /\ \A q, s, t \in S : <<q, s>> \in R /\ <<s, t>> \in R => <<q, t>> \in R
      /\ \A q \in S : f[q].next # 0 => /\ f[q].next \in S /\ <<q, f[q].next>> \in R
                                       /\ f[f[q].next].prev = q
      /\ \A q \in S : f[q].prev # 0 => f[q].prev \in S /\ f[f[q].prev].next = q
  BY DEF Linked
<1>2. ASSUME NEW q \in S \ {p}, g[q].next # 0
      PROVE  /\ g[q].next \in S \ {p} /\ <<q, g[q].next>> \in R
             /\ g[g[q].next].prev = q
  <2>1. CASE q = f[p].prev
    <3>1. q # 0 /\ f[q].next = p /\ <<q, p>> \in R
      BY <1>1, <1>2, <2>1
    <3>2. g[q].next = f[p].next /\ f[p].next # 0
      BY <1>2, <2>1
    <3>3. f[p].next \in S /\ <<p, f[p].next>> \in R
      BY <1>1, <3>2
    <3>4. <<q, f[p].next>> \in R /\ f[p].next # p
      BY <1>1, <3>1, <3>3
    <3>5. g[f[p].next].prev = f[p].prev
      BY <3>3, <3>4
    <3> QED BY <2>1, <3>2, <3>3, <3>4, <3>5
  <2>2. CASE q # f[p].prev
    <3>1. g[q].next = f[q].next
      BY <2>2
    <3>2. f[q].next \in S /\ <<q, f[q].next>> \in R /\ f[f[q].next].prev = q
      BY <1>1, <1>2, <3>1
    <3>3. f[q].next # p
      BY <2>2, <3>2
    <3>4. f[q].next # f[p].next
      BY <1>1, <1>2, <3>1, <3>2
    <3>5. g[f[q].next].prev = f[f[q].next].prev
      BY <3>2, <3>3, <3>4
    <3> QED BY <3>1, <3>2, <3>3, <3>5
  <2> QED BY <2>1, <2>2
<1>3. ASSUME NEW q \in S \ {p}, g[q].prev # 0
      PROVE  g[q].prev \in S \ {p} /\ g[g[q].prev].next = q
  <2>1. CASE q = f[p].next
    <3>1. q # 0 /\ f[q].prev = p /\ <<p, q>> \in R
      BY <1>1, <1>3, <2>1
    <3>2. g[q].prev = f[p].prev /\ f[p].prev # 0
      BY <1>3, <2>1
    <3>3. f[p].prev \in S /\ f[f[p].prev].next = p
      BY <1>1, <3>2
    <3>4. f[p].prev # p
      BY <1>1, <3>1, <3>3
    <3>5. g[f[p].prev].next = f[p].next
      BY <3>3, <3>4
    <3> QED BY <2>1, <3>2, <3>3, <3>4, <3>5
  <2>2. CASE q # f[p].next
    <3>1. g[q].prev = f[q].prev
      BY <2>2
    <3>2. f[q].prev \in S /\ f[f[q].prev].next = q
      BY <1>1, <1>3, <3>1
    <3>3. f[q].prev # p
      BY <2>2, <3>2
    <3>4. f[q].prev # f[p].prev
      BY <1>1, <1>3, <3>1, <3>2
    <3>5. g[f[q].prev].next = f[f[q].prev].next
      BY <3>2, <3>3, <3>4
    <3> QED BY <3>1, <3>2, <3>3, <3>5
  <2> QED BY <2>1, <2>2
<1> QED BY <1>1, <1>2, <1>3 DEF Linked

\* The parts of a tree of several leaves.
LEMMA InnerParts ==
    ASSUME NEW d, NEW r, OneTree(d, r), ~IsLeaf(d, r),
           NEW S, S = ToSet(d.node[r].kids)
    PROVE  /\ File(d) /\ Db(d) /\ d.num \in Nat /\ r \in 0 .. d.num - 1
           /\ RootInner(d.node[r])
           /\ \A c \in S : c \in 1 .. d.num - 1 /\ c # r /\ ChildLeaf(d.node[c], r)
           /\ \E R : Linked(d.node, S, R)
           /\ r \notin ToSet(d.free) /\ S \cap ToSet(d.free) = {}
           /\ Own(d, r) = {r} \cup S
<1>1. Own(d, r) = {r} \cup S
  BY DEF Own, Kids
<1>2. File(d) /\ Tree(d, r) /\ Own(d, r) \cap ToSet(d.free) = {}
  BY DEF OneTree
<1> QED BY <1>1, <1>2, FileIsDb DEF Tree

\* The leaves beside a leaf.
LEMMA Siblings ==
    ASSUME NEW f, NEW S, NEW R, Linked(f, S, R), 0 \notin S, NEW p \in S
    PROVE  /\ f[p].prev # 0 => /\ f[p].prev \in S /\ f[p].prev # p
                               /\ f[f[p].prev].next = p
           /\ f[p].next # 0 => /\ f[p].next \in S /\ f[p].next # p
                               /\ f[f[p].next].prev = p
           /\ f[p].prev # 0 /\ f[p].next # 0 => f[p].prev # f[p].next
<1>1. /\ \A q \in S : <<q, q>> \notin R
      /\ \A q, s, t \in S : <<q, s>> \in R /\ <<s, t>> \in R => <<q, t>> \in R
      /\ \A q \in S : f[q].next # 0 => /\ f[q].next \in S /\ <<q, f[q].next>> \in R
                                       /\ f[f[q].next].prev = q
      /\ \A q \in S : f[q].prev # 0 => f[q].prev \in S /\ f[f[q].prev].next = q
  BY DEF Linked
<1>2. f[p].prev # 0 => f[p].prev \in S /\ f[f[p].prev].next = p /\ <<f[p].prev, p>> \in R
  BY <1>1
<1>3. f[p].next # 0 => f[p].next \in S /\ f[f[p].next].prev = p /\ <<p, f[p].next>> \in R
  BY <1>1
<1> QED BY <1>1, <1>2, <1>3

LeafIs(n, ks, nx, pv) == n.keys = ks /\ n.next = nx /\ n.prev = pv

\* The leaves S other than p, linked past p.
Closed(d, e, S, p) ==
    \A c \in S \ {p} :
        LeafIs(e.node[c], d.node[c].keys,
               IF c = d.node[p].prev THEN d.node[p].next ELSE d.node[c].next,
               IF c = d.node[p].next THEN d.node[p].prev ELSE d.node[c].prev)

\* The leaf p alone has been changed, in its keys.
Emptying(d, d1, p) ==
    /\ Db(d1) /\ d1.num = d.num /\ d1.free = d.free
    /\ \A q \in 0 .. d.num - 1 : q # p => d1.node[q] = d.node[q]
    /\ LeafNode(d1.node[p])
    /\ d1.node[p].next = d.node[p].next /\ d1.node[p].prev = d.node[p].prev

Unlinked(d, d1, e, r, S, R, p) ==
    /\ Db(e) /\ e.num = d.num /\ e.free = d.free
    /\ Linked(e.node, S \ {p}, R)
    /\ \A c \in S \ {p} : ChildLeaf(e.node[c], r) /\ e.node[c].keys = d.node[c].keys
    /\ \A q \in 0 .. d.num - 1 : q \notin S => e.node[q] = d.node[q]
    /\ e.node[p] = d1.node[p]
    /\ Closed(d, e, S, p)

\* A leaf, emptied, is taken out of the chain of leaves.
LEMMA LeafUnlinked ==
    ASSUME NEW d, NEW r, OneTree(d, r), ~IsLeaf(d, r),
           NEW S, S = ToSet(d.node[r].kids), NEW p \in S,
           NEW R, Linked(d.node, S, R),
           NEW d1, Emptying(d, d1, p),
           NEW e, e = Unlink(d1, p)
    PROVE  Unlinked(d, d1, e, r, S, R, p)
<1> USE DEF Emptying
<1>1. /\ d.num \in Nat /\ 0 \notin S /\ r \notin S
      /\ \A c \in S : c \in 1 .. d.num - 1 /\ c # r /\ ChildLeaf(d.node[c], r)
  <2>1. \A c \in S : c \in 1 .. d.num - 1 /\ c # r /\ ChildLeaf(d.node[c], r)
    BY InnerParts
  <2>2. d.num \in Nat
    BY InnerParts
  <2> QED BY <2>1, <2>2
<1> DEFINE a == d.node[p].prev
           b == d.node[p].next
<1>2. /\ a # 0 => a \in S /\ a # p
      /\ b # 0 => b \in S /\ b # p
      /\ a # 0 /\ b # 0 => a # b
  BY <1>1, Siblings, SMTT(60)
<1>3. /\ p \in 0 .. d1.num - 1 /\ a \in 0 .. d1.num - 1 /\ b \in 0 .. d1.num - 1
      /\ a = d1.node[p].prev /\ b = d1.node[p].next
      /\ a # 0 => LeafNode(d1.node[a]) /\ a # p /\ d1.node[a] = d.node[a]
      /\ b # 0 => LeafNode(d1.node[b]) /\ b # p /\ a # b /\ d1.node[b] = d.node[b]
  <2>1. p \in 1 .. d.num - 1
    BY <1>1
  <2>2. /\ a # 0 => a \in 1 .. d.num - 1 /\ LeafNode(d.node[a]) /\ a # p
        /\ b # 0 => b \in 1 .. d.num - 1 /\ LeafNode(d.node[b]) /\ b # p
    BY <1>1, <1>2 DEF ChildLeaf
  <2>3. a \in 0 .. d1.num - 1 /\ b \in 0 .. d1.num - 1
    <3> DEFINE l == d.num
    <3>1. l \in Nat /\ l = d1.num /\ p \in 1 .. l - 1
          /\ (a = 0 \/ a \in 1 .. l - 1) /\ (b = 0 \/ b \in 1 .. l - 1)
      BY <1>1, <2>1, <2>2
    <3> HIDE DEF a, b, l
    <3> QED BY <3>1
  <2>4. /\ a # 0 => d1.node[a] = d.node[a]
        /\ b # 0 => d1.node[b] = d.node[b]
    BY <1>1, <2>2
  <2> QED BY <1>1, <1>2, <2>1, <2>2, <2>3, <2>4
<1>0. a # 0 \/ b # 0 => a # b
  BY <1>2
<1> HIDE DEF a, b
<1>4. /\ Db(e) /\ e.num = d1.num /\ e.free = d1.free
      /\ a # 0 => e.node[a] = Relink(d1.node[a], b, d1.node[a].prev)
      /\ b # 0 => e.node[b] = Relink(d1.node[b], d1.node[b].next, a)
      /\ \A q \in 0 .. d1.num - 1 :
            (a # 0 => q # a) /\ (b # 0 => q # b) => e.node[q] = d1.node[q]
  <2>1. /\ p \in 0 .. d1.num - 1 /\ a \in 0 .. d1.num - 1 /\ b \in 0 .. d1.num - 1
        /\ a = d1.node[p].prev /\ b = d1.node[p].next
        /\ a # 0 => LeafNode(d1.node[a]) /\ a # p
        /\ b # 0 => LeafNode(d1.node[b]) /\ b # p /\ a # b
    BY <1>3
  <2>2. Db(d1) /\ e = Unlink(d1, p)
    OBVIOUS
  <2> QED BY ONLY <2>1, <2>2, UnlinkFacts, SMTT(60)
<1>5. ASSUME NEW q \in S \ {p}
      PROVE  /\ e.node[q].next = IF q = a THEN b ELSE d.node[q].next
             /\ e.node[q].prev = IF q = b THEN a ELSE d.node[q].prev
             /\ ChildLeaf(e.node[q], r) /\ e.node[q].keys = d.node[q].keys
  <2>0. /\ q \in 0 .. d.num - 1 /\ q # 0 /\ q # p /\ ChildLeaf(d.node[q], r)
        /\ LeafNode(d.node[q]) /\ d1.node[q] = d.node[q]
    BY <1>1 DEF ChildLeaf
  <2>1. CASE q = a
    <3>1. a # 0 /\ a # b /\ e.node[q] = Relink(d.node[q], b, d.node[q].prev)
      BY <1>3, <1>4, <1>0, <2>0, <2>1
    <3>2. LeafNode(e.node[q]) /\ e.node[q].next = b /\ e.node[q].prev = d.node[q].prev
          /\ e.node[q].keys = d.node[q].keys /\ e.node[q].root = d.node[q].root
          /\ e.node[q].parent = d.node[q].parent
      BY <2>0, <3>1, RelinkFields
    <3> QED BY <2>0, <2>1, <3>1, <3>2 DEF ChildLeaf
  <2>2. CASE q = b
    <3>1. b # 0 /\ a # b /\ e.node[q] = Relink(d.node[q], d.node[q].next, a)
      BY <1>3, <1>4, <1>0, <2>0, <2>2
    <3>2. LeafNode(e.node[q]) /\ e.node[q].prev = a /\ e.node[q].next = d.node[q].next
          /\ e.node[q].keys = d.node[q].keys /\ e.node[q].root = d.node[q].root
          /\ e.node[q].parent = d.node[q].parent
      BY <2>0, <3>1, RelinkFields
    <3> QED BY <2>0, <2>2, <3>1, <3>2, SMTT(60) DEF ChildLeaf
  <2>3. CASE q # a /\ q # b
    <3>1. e.node[q] = d.node[q]
      BY <1>4, <2>0, <2>3
    <3> QED BY <2>0, <2>3, <3>1
  <2> QED BY <2>1, <2>2, <2>3
<1>6. Linked(e.node, S \ {p}, R)
  BY <1>1, <1>5, UnlinkedStaysLinked DEF a, b
<1>7. ASSUME NEW q \in 0 .. d.num - 1, q \notin S \ {p}
      PROVE  e.node[q] = d1.node[q]
  <2>1. (a # 0 => q # a) /\ (b # 0 => q # b)
    BY <1>2, <1>7 DEF a, b
  <2> QED BY <1>4, <1>7, <2>1
<1>8. /\ \A q \in 0 .. d.num - 1 : q \notin S => e.node[q] = d.node[q]
      /\ e.node[p] = d1.node[p]
  BY <1>3, <1>7
<1>9. Closed(d, e, S, p)
  BY <1>5 DEF Closed, LeafIs, a, b
<1> QED BY <1>4, <1>5, <1>6, <1>8, <1>9 DEF Unlinked

\* A leaf that becomes the root.
Promoted(n) == [n EXCEPT !.root = TRUE]

LEMMA PromotedFacts ==
    ASSUME NEW n, LeafNode(n), NEW m, m = Promoted(n)
    PROVE  /\ LeafNode(m) /\ m.root /\ m.keys = n.keys /\ m.kind = "leaf"
           /\ m.next = n.next /\ m.prev = n.prev /\ m.parent = n.parent
<1>1. ASSUME NEW t, NEW x, x = [n EXCEPT !.root = t]
      PROVE  /\ LeafNode(x) /\ x.root = t /\ x.keys = n.keys /\ x.kind = "leaf"
             /\ x.next = n.next /\ x.prev = n.prev /\ x.parent = n.parent
  BY <1>1 DEF LeafNode, LeafRec
<1>2. /\ LeafNode(m) /\ m.root = TRUE /\ m.keys = n.keys /\ m.kind = "leaf"
      /\ m.next = n.next /\ m.prev = n.prev /\ m.parent = n.parent
  BY <1>1, ZenonT(60) DEF Promoted
<1> QED BY <1>2

\* The root with one child left becomes that child.
LEMMA CollapseFacts ==
    ASSUME NEW d, Db(d), NEW r \in 0 .. d.num - 1,
           NEW c \in 1 .. d.num - 1, c # r, d.node[r].kids[1] = c, LeafNode(d.node[c]),
           NEW e, e = CollapseRoot(d, r)
    PROVE  /\ Db(e) /\ e.num = d.num /\ e.free = Append(d.free, c)
           /\ e.node[c] = Blank
           /\ e.node[r] = Promoted(d.node[c])
           /\ \A q \in 0 .. d.num - 1 : q # r /\ q # c => e.node[q] = d.node[q]
<1> DEFINE m == d.node[c]
           n == Promoted(m)
           d1 == Write(d, r, n)
           d2 == FreePage(d1, c)
<1>1. e = IF IsLeaf(d2, r) THEN d2
          ELSE [d2 EXCEPT !.node = [q \in DOMAIN @ |->
                  IF Contains(d2.node[r].kids, q) THEN [@[q] EXCEPT !.parent = r]
                  ELSE @[q]]]
  BY Zenon DEF CollapseRoot, Write, Promoted
<1>2. n.kind = "leaf"
  BY PromotedFacts
<1> HIDE DEF n
<1>3. /\ Db(d1) /\ d1.num = d.num /\ d1.free = d.free
      /\ \A q \in 0 .. d.num - 1 : d1.node[q] = IF q = r THEN n ELSE d.node[q]
  BY PutPage
<1> HIDE DEF d1
<1>4. /\ Db(d2) /\ d2.num = d.num /\ d2.free = Append(d.free, c)
      /\ \A q \in 0 .. d.num - 1 : d2.node[q] = IF q = c THEN Blank ELSE d1.node[q]
  <2>1. c \in 1 .. d1.num - 1
    BY <1>3
  <2>2. Db(d1)
    BY <1>3
  <2>3. /\ Db(d2) /\ d2.num = d1.num /\ d2.free = Append(d1.free, c)
        /\ \A q \in 0 .. d1.num - 1 : d2.node[q] = IF q = c THEN Blank ELSE d1.node[q]
    BY ONLY <2>1, <2>2, FreeFacts
  <2> QED BY <1>3, <2>3
<1> HIDE DEF d2
<1>5. d2.node[r] = n /\ IsLeaf(d2, r)
  BY <1>2, <1>3, <1>4 DEF IsLeaf
<1>6. e = d2
  BY <1>1, <1>5
<1>7. c \in 0 .. d.num - 1
  OBVIOUS
<1>8. n = Promoted(d.node[c])
  BY DEF n
<1>9. \A q \in 0 .. d.num - 1 : q # r /\ q # c => e.node[q] = d.node[q]
  BY <1>3, <1>4, <1>6
<1>10. e.node[c] = Blank
  BY <1>4, <1>6, <1>7, SMTT(60)
<1> QED BY <1>3, <1>4, <1>5, <1>6, <1>8, <1>9, <1>10

\* The root has lost its child p, or become the other one of two.
Removed(d, e, r, S, p) ==
    \E i \in 1 .. Len(d.node[r].kids) :
        /\ d.node[r].kids[i] = p
        /\ IF Len(d.node[r].keys) = 1
           THEN \E c \in S \ {p} : /\ S = {p, c} /\ IsLeaf(e, r)
                                   /\ e.node[r].keys = d.node[c].keys
           ELSE e.node[r] = Cut(d.node[r], i) /\ Closed(d, e, S, p)

\* Removing a leaf that has been emptied keeps the pages of the file in order.
\* The parent loses the child, or, having one child left, becomes that child.
LEMMA LeafRemoved ==
    ASSUME NEW d, NEW r, OneTree(d, r), ~IsLeaf(d, r),
           NEW S, S = ToSet(d.node[r].kids), NEW p \in S,
           NEW d1, Db(d1), d1.num = d.num, d1.free = d.free,
           \A q \in 0 .. d.num - 1 : q # p => d1.node[q] = d.node[q],
           LeafNode(d1.node[p]), ~d1.node[p].root, d1.node[p].parent = r,
           d1.node[p].next = d.node[p].next, d1.node[p].prev = d.node[p].prev,
           NEW e, e = RemoveEmptyLeaf(d1, r, p)
    PROVE  Kept(d, e, r) /\ e.num = d.num /\ Removed(d, e, r, S, p)
<1> DEFINE n == d.node[r]
           d2 == Unlink(d1, p)
           T == S \ {p}
<1>1. PICK R : Linked(d.node, S, R)
  BY InnerParts
<1>2. /\ File(d) /\ d.num \in Nat /\ r \in 0 .. d.num - 1 /\ r \notin S
      /\ RootInner(n)
      /\ \A c \in S : c \in 1 .. d.num - 1 /\ c # r /\ ChildLeaf(d.node[c], r)
      /\ r \notin ToSet(d.free) /\ S \cap ToSet(d.free) = {}
      /\ Own(d, r) = {r} \cup S
      /\ d.free \in Seq(Nat) /\ IsInjective(d.free)
      /\ \A q \in ToSet(d.free) : q \in 1 .. d.num - 1 /\ d.node[q] = Blank
      /\ d.num >= 1
  <2>1. /\ File(d) /\ d.num \in Nat /\ r \in 0 .. d.num - 1 /\ RootInner(n)
        /\ \A c \in S : c \in 1 .. d.num - 1 /\ c # r /\ ChildLeaf(d.node[c], r)
        /\ r \notin ToSet(d.free) /\ S \cap ToSet(d.free) = {}
        /\ Own(d, r) = {r} \cup S
    BY InnerParts
  <2> HIDE DEF n
  <2> QED BY <2>1, FileIsDb
<1>3. /\ Db(d2) /\ d2.num = d.num /\ d2.free = d.free
      /\ Linked(d2.node, T, R)
      /\ \A c \in T : ChildLeaf(d2.node[c], r) /\ d2.node[c].keys = d.node[c].keys
      /\ \A q \in 0 .. d.num - 1 : q \notin S => d2.node[q] = d.node[q]
      /\ d2.node[p] = d1.node[p]
      /\ Closed(d, d2, S, p)
  <2>1. d2 = Unlink(d1, p)
    OBVIOUS
  <2> HIDE DEF d2, n
  <2>2. /\ OneTree(d, r) /\ ~IsLeaf(d, r) /\ S = ToSet(d.node[r].kids) /\ p \in S
        /\ Linked(d.node, S, R) /\ Emptying(d, d1, p)
    BY <1>1 DEF Emptying
  <2>3. Unlinked(d, d1, d2, r, S, R, p)
    BY ONLY <2>1, <2>2, LeafUnlinked
  <2> QED BY <2>3 DEF Unlinked
<1>4. e = FreePage(RemoveChild(d2, r, r, p), p)
  BY DEF RemoveEmptyLeaf
<1> HIDE DEF d2
<1>5. d2.node[r] = n /\ r \in 0 .. d2.num - 1
  BY <1>2, <1>3
<1>6. PICK i \in 1 .. Len(n.kids) :
         /\ n.kids[i] = p
         /\ RemoveChild(d2, r, r, p) =
               IF Len(n.keys) = 1 THEN CollapseRoot(Write(d2, r, Cut(n, i)), r)
               ELSE Write(d2, r, Cut(n, i))
  <2>1. RootInner(d2.node[r]) /\ p \in ToSet(d2.node[r].kids)
    BY <1>2, <1>5
  <2>2. \E i \in 1 .. Len(d2.node[r].kids) :
           /\ d2.node[r].kids[i] = p
           /\ RemoveChild(d2, r, r, p) =
                 IF Len(d2.node[r].keys) = 1
                 THEN CollapseRoot(Write(d2, r, Cut(d2.node[r], i)), r)
                 ELSE Write(d2, r, Cut(d2.node[r], i))
    <3>1. Db(d2) /\ r \in 0 .. d2.num - 1 /\ RootInner(d2.node[r])
          /\ p \in ToSet(d2.node[r].kids)
      BY <1>3, <1>5, <2>1
    <3> QED BY ONLY <3>1, RemoveChildFacts
  <2> QED BY <1>5, <2>2
<1> DEFINE m == Cut(n, i)
           d3 == Write(d2, r, m)
<1>7. /\ m.kids = RemoveAt(n.kids, i) /\ m.kids \in Seq(Nat)
      /\ Len(m.kids) = Len(n.kids) - 1
      /\ ToSet(m.kids) = T
      /\ Len(n.keys) # 1 => RootInner(m)
      /\ Len(n.keys) \in Nat /\ Len(n.kids) = Len(n.keys) + 1
  <2> HIDE DEF n, m
  <2>1. RootInner(n)
    BY <1>2
  <2>2. /\ m.kids = RemoveAt(n.kids, i) /\ m.kids \in Seq(Nat)
        /\ Len(m.kids) = Len(n.kids) - 1
        /\ ToSet(m.kids) = ToSet(n.kids) \ {n.kids[i]}
        /\ Len(n.keys) # 1 => RootInner(m)
    <3>1. m = Cut(n, i) /\ i \in 1 .. Len(n.kids)
      BY <1>6 DEF m
    <3>2. /\ m.kids = RemoveAt(n.kids, i) /\ m.kids \in Seq(Nat)
          /\ Len(m.kids) = Len(n.kids) - 1
          /\ ToSet(m.kids) = ToSet(n.kids) \ {n.kids[i]}
      <4>1. m.kids = RemoveAt(n.kids, i)
        BY ONLY <2>1, <3>1, CutFacts
      <4>2. m.kids \in Seq(Nat)
        BY ONLY <2>1, <3>1, CutFacts
      <4>3. Len(m.kids) = Len(n.kids) - 1
        BY ONLY <2>1, <3>1, CutFacts
      <4>4. ToSet(m.kids) = ToSet(n.kids) \ {n.kids[i]}
        <5>1. n.kids \in Seq(Nat) /\ IsInjective(n.kids)
          BY <2>1 DEF RootInner
        <5> QED BY ONLY <3>1, <4>1, <5>1, RemoveAtSet
      <4> QED BY <4>1, <4>2, <4>3, <4>4
    <3>3. Len(n.keys) # 1 => RootInner(m)
      BY ONLY <2>1, <3>1, CutFacts
    <3> QED BY <3>2, <3>3
  <2>3. Len(n.keys) \in Nat /\ Len(n.kids) = Len(n.keys) + 1
    BY <2>1 DEF RootInner
  <2> QED BY <1>6, <2>2, <2>3 DEF n
<1> HIDE DEF m
<1>8. /\ Db(d3) /\ d3.num = d.num /\ d3.free = d.free
      /\ \A q \in 0 .. d.num - 1 : d3.node[q] = IF q = r THEN m ELSE d2.node[q]
  <2>1. /\ Db(d3) /\ d3.num = d2.num /\ d3.free = d2.free
        /\ \A q \in 0 .. d2.num - 1 : d3.node[q] = IF q = r THEN m ELSE d2.node[q]
    BY ONLY <1>3, <1>5, PutPage
  <2> QED BY <1>3, <2>1
<1>9. RemoveChild(d2, r, r, p) = IF Len(n.keys) = 1 THEN CollapseRoot(d3, r) ELSE d3
  BY <1>6 DEF m
<1> HIDE DEF d3
<1>10. p \in 1 .. d.num - 1 /\ p # r /\ p \notin ToSet(d.free)
  BY <1>2
<1>11. CASE Len(n.keys) # 1
  <2>1. e = FreePage(d3, p)
    BY <1>4, <1>9, <1>11
  <2>2. /\ Db(e) /\ e.num = d.num /\ e.free = Append(d.free, p)
        /\ \A q \in 0 .. d.num - 1 : e.node[q] = IF q = p THEN Blank ELSE d3.node[q]
    <3>1. p \in 1 .. d3.num - 1
      BY <1>8, <1>10
    <3>2. /\ Db(e) /\ e.num = d3.num /\ e.free = Append(d3.free, p)
          /\ \A q \in 0 .. d3.num - 1 : e.node[q] = IF q = p THEN Blank ELSE d3.node[q]
      BY ONLY <1>8, <2>1, <3>1, FreeFacts, SMTT(60)
    <3> QED BY <1>8, <3>2
  <2>3. e.free \in Seq(Nat) /\ ToSet(e.free) = ToSet(d.free) \cup {p} /\ IsInjective(e.free)
    <3>1. p \in Nat
      BY <1>10
    <3>2. /\ Append(d.free, p) \in Seq(Nat) /\ IsInjective(Append(d.free, p))
          /\ ToSet(Append(d.free, p)) = ToSet(d.free) \cup {p}
      BY ONLY <1>2, <1>10, <3>1, AppendSet
    <3> QED BY <2>2, <3>2
  <2>4. e.node[r] = m
    BY <1>2, <1>8, <1>10, <2>2
  <2>5. ASSUME NEW c \in T
        PROVE  /\ e.node[c] = d2.node[c] /\ c \in 1 .. e.num - 1 /\ c # r
    BY <1>2, <1>8, <2>2, SMTT(60)
  <2>6. ASSUME NEW q \in 0 .. d.num - 1, q \notin {r} \cup S
        PROVE  e.node[q] = d.node[q]
    BY <1>3, <1>8, <1>10, <2>2, <2>6
  <2>7. File(e)
    <3>1. ASSUME NEW q \in ToSet(e.free)
          PROVE  q \in 1 .. e.num - 1 /\ e.node[q] = Blank
      <4>1. CASE q = p
        BY <1>10, <2>2, <4>1
      <4>2. CASE q # p
        <5>1. q \in ToSet(d.free)
          BY <2>3, <4>2
        <5>2. q \in 1 .. d.num - 1 /\ d.node[q] = Blank /\ q \notin {r} \cup S
          BY <1>2, <5>1
        <5>3. q \in 0 .. d.num - 1
          BY <5>2
        <5> QED BY <2>2, <2>6, <5>2, <5>3
      <4> QED BY <4>1, <4>2
    <3>2. e.num >= 1
      BY <1>2, <2>2
    <3> QED BY <2>2, <2>3, <3>1, <3>2, FileFrom
  <2>8. Linked(e.node, T, R)
    BY <1>3, <2>5, LinkedSame
  <2>9. OneTree(e, r) /\ Own(e, r) = {r} \cup T
    <3>1. r \in 0 .. e.num - 1 /\ RootInner(e.node[r]) /\ T = ToSet(e.node[r].kids)
      BY <1>2, <1>7, <1>11, <2>2, <2>4, SMTT(60)
    <3>2. \A c \in T : c \in 1 .. e.num - 1 /\ c # r /\ ChildLeaf(e.node[c], r)
      BY <1>3, <2>5
    <3>3. r \notin ToSet(e.free) /\ T \cap ToSet(e.free) = {}
      BY <1>2, <1>10, <2>3
    <3> HIDE DEF T
    <3> QED BY ONLY <2>7, <2>8, <3>1, <3>2, <3>3, InnerTree
  <2>10. Kept(d, e, r)
    <3>1. Own(e, r) \cup ToSet(e.free) = Own(d, r) \cup ToSet(d.free)
      BY <1>2, <2>3, <2>9
    <3>2. \A q \in 0 .. d.num - 1 :
             q \notin Own(d, r) \cup ToSet(d.free) => e.node[q] = d.node[q]
      BY <1>2, <2>6
    <3> QED BY <1>2, <2>2, <2>9, <3>1, <3>2, KeptFrom, ZenonT(60)
  <2>11. Closed(d, e, S, p)
    BY <1>3, <2>5 DEF Closed
  <2>12. Removed(d, e, r, S, p)
    BY <1>6, <1>11, <2>4, <2>11 DEF Removed, m
  <2> QED BY <2>2, <2>10, <2>12
<1>12. CASE Len(n.keys) = 1
  <2> DEFINE c == m.kids[1]
             d4 == CollapseRoot(d3, r)
  <2>1. T = {c}
    <3>1. Len(m.kids) = 1
      BY <1>7, <1>12
    <3>2. \A x : x \in ToSet(m.kids) <=> \E j \in 1 .. Len(m.kids) : m.kids[j] = x
      BY <1>7, ToSetFacts, ZenonT(60)
    <3>3. \A x : x \in ToSet(m.kids) <=> x = m.kids[1]
      BY <3>1, <3>2
    <3> QED BY <1>7, <3>3
  <2> HIDE DEF c
  <2>2. /\ c \in S /\ c # p /\ c # r /\ c \in 1 .. d.num - 1 /\ c \notin ToSet(d.free)
        /\ S = {p, c} /\ ChildLeaf(d2.node[c], r) /\ LeafNode(d2.node[c])
    BY <1>2, <1>3, <2>1 DEF ChildLeaf
  <2>3. d2.node[c].next = 0 /\ d2.node[c].prev = 0
    <3>0. Linked(d2.node, T, R)
      BY <1>3
    <3> HIDE DEF T
    <3>1. Linked(d2.node, {c}, R) /\ c # 0
      BY <2>1, <2>2, <3>0
    <3> QED BY ONLY <3>1 DEF Linked
  <2>4. d3.node[c] = d2.node[c] /\ d3.node[r] = m
    BY <1>2, <1>8, <2>2
  <2>5. /\ Db(d4) /\ d4.num = d.num /\ d4.free = Append(d.free, c)
        /\ d4.node[c] = Blank
        /\ d4.node[r] = Promoted(d2.node[c])
        /\ \A q \in 0 .. d.num - 1 : q # r /\ q # c => d4.node[q] = d3.node[q]
    <3>1. /\ Db(d3) /\ r \in 0 .. d3.num - 1 /\ c \in 1 .. d3.num - 1 /\ c # r
          /\ d3.node[r].kids[1] = c /\ LeafNode(d3.node[c])
      BY <1>2, <1>8, <2>2, <2>4 DEF c
    <3> HIDE DEF d4
    <3>2. d4 = CollapseRoot(d3, r)
      BY DEF d4
    <3>3. /\ Db(d4) /\ d4.num = d3.num /\ d4.free = Append(d3.free, c)
          /\ d4.node[c] = Blank /\ d4.node[r] = Promoted(d3.node[c])
          /\ \A q \in 0 .. d3.num - 1 : q # r /\ q # c => d4.node[q] = d3.node[q]
      BY ONLY <3>1, <3>2, CollapseFacts, SMTT(60)
    <3> QED BY <1>8, <2>3, <2>4, <3>3
  <2>6. e = FreePage(d4, p)
    BY <1>4, <1>9, <1>12
  <2> HIDE DEF d4
  <2>7. /\ Db(e) /\ e.num = d.num /\ e.free = Append(Append(d.free, c), p)
        /\ \A q \in 0 .. d.num - 1 : e.node[q] = IF q = p THEN Blank ELSE d4.node[q]
    <3>1. p \in 1 .. d4.num - 1 /\ Db(d4)
      BY <1>10, <2>5
    <3>2. /\ Db(e) /\ e.num = d4.num /\ e.free = Append(d4.free, p)
          /\ \A q \in 0 .. d4.num - 1 : e.node[q] = IF q = p THEN Blank ELSE d4.node[q]
      BY ONLY <2>6, <3>1, FreeFacts
    <3> QED BY <2>5, <3>2
  <2>8. e.free \in Seq(Nat) /\ ToSet(e.free) = ToSet(d.free) \cup {c, p} /\ IsInjective(e.free)
    <3>1. p \in Nat /\ c \in Nat
      BY <1>10, <2>2
    <3> DEFINE g == Append(d.free, c)
    <3>2. g \in Seq(Nat) /\ IsInjective(g) /\ ToSet(g) = ToSet(d.free) \cup {c}
      BY ONLY <1>2, <2>2, <3>1, AppendSet
    <3> HIDE DEF g
    <3>3. p \notin ToSet(g)
      BY <1>10, <2>2, <3>2
    <3>4. /\ Append(g, p) \in Seq(Nat) /\ IsInjective(Append(g, p))
          /\ ToSet(Append(g, p)) = ToSet(g) \cup {p}
      BY ONLY <3>1, <3>2, <3>3, AppendSet
    <3> QED BY <2>7, <3>2, <3>4 DEF g
  <2>9. e.node[r] = Promoted(d2.node[c])
    BY <1>2, <1>10, <2>5, <2>7
  <2>10. RootLeaf(e.node[r]) /\ e.node[r].keys = d.node[c].keys
    <3> DEFINE x == e.node[r]
               y == d2.node[c]
    <3>1. x = Promoted(y) /\ LeafNode(y) /\ y.keys = d.node[c].keys /\ y.next = 0 /\ y.prev = 0
      BY <1>3, <2>1, <2>2, <2>3, <2>9
    <3> HIDE DEF x, y
    <3>2. LeafNode(x) /\ x.root /\ x.next = 0 /\ x.prev = 0 /\ x.keys = y.keys
      BY <3>1, PromotedFacts
    <3> QED BY <3>1, <3>2 DEF RootLeaf, x
  <2>11. ASSUME NEW q \in 0 .. d.num - 1, q \notin {r} \cup S
         PROVE  e.node[q] = d.node[q]
    <3>1. q # p /\ q # c /\ q # r
      BY <2>2, <2>11
    <3>2. e.node[q] = d4.node[q] /\ d4.node[q] = d3.node[q] /\ d3.node[q] = d2.node[q]
      BY <1>8, <2>5, <2>7, <2>11, <3>1
    <3> QED BY <1>3, <2>11, <3>2
  <2>12. File(e)
    <3>1. ASSUME NEW q \in ToSet(e.free)
          PROVE  q \in 1 .. e.num - 1 /\ e.node[q] = Blank
      <4>1. CASE q = p
        BY <1>10, <2>7, <4>1
      <4>2. CASE q = c
        BY <1>10, <2>2, <2>5, <2>7, <4>2
      <4>3. CASE q # p /\ q # c
        <5>1. q \in ToSet(d.free)
          BY <2>8, <4>3
        <5>2. q \in 1 .. d.num - 1 /\ d.node[q] = Blank /\ q \notin {r} \cup S
          BY <1>2, <5>1
        <5>3. q \in 0 .. d.num - 1
          BY <5>2
        <5> QED BY <2>7, <2>11, <5>2, <5>3
      <4> QED BY <4>1, <4>2, <4>3
    <3>2. e.num >= 1
      BY <1>2, <2>7
    <3> QED BY <2>7, <2>8, <3>1, <3>2, FileFrom
  <2>13. OneTree(e, r) /\ Own(e, r) = {r} /\ IsLeaf(e, r)
    <3>1. r \in 0 .. e.num - 1 /\ r \notin ToSet(e.free)
      BY <1>2, <1>10, <2>2, <2>7, <2>8
    <3> QED BY <2>10, <2>12, <3>1, LeafTree
  <2>14. Kept(d, e, r)
    <3>1. Own(e, r) \cup ToSet(e.free) = Own(d, r) \cup ToSet(d.free)
      BY <1>2, <2>2, <2>8, <2>13
    <3>2. \A q \in 0 .. d.num - 1 :
             q \notin Own(d, r) \cup ToSet(d.free) => e.node[q] = d.node[q]
      BY <1>2, <2>11
    <3> QED BY <1>2, <2>7, <2>13, <3>1, <3>2, KeptFrom, ZenonT(60)
  <2>15. Removed(d, e, r, S, p)
    BY <1>6, <1>12, <2>2, <2>10, <2>13 DEF Removed
  <2> QED BY <2>7, <2>14, <2>15
<1> QED BY <1>11, <1>12

----------------------------------------------------------------------------
(* Deleting a cell.                                                        *)

\* The keys of a leaf, written.
LEMMA PutKeys ==
    ASSUME NEW d, Db(d), NEW p \in 0 .. d.num - 1, LeafNode(d.node[p]),
           NEW ks \in Seq(Nat), Len(ks) <= MaxCells,
           NEW e, e = Rekeyed(d, p, ks)
    PROVE  /\ Db(e) /\ e.num = d.num /\ e.free = d.free
           /\ \A q \in 0 .. d.num - 1 : q # p => e.node[q] = d.node[q]
           /\ LeafNode(e.node[p]) /\ e.node[p].keys = ks
           /\ e.node[p].root = d.node[p].root /\ e.node[p].parent = d.node[p].parent
           /\ e.node[p].next = d.node[p].next /\ e.node[p].prev = d.node[p].prev
<1> DEFINE n == d.node[p]
           m == [n EXCEPT !.keys = ks]
<1>1. e = Write(d, p, m)
  BY DEF Write, Rekeyed
<1>2. LeafNode(n)
  OBVIOUS
<1> HIDE DEF n
<1>3. /\ LeafNode(m) /\ m.keys = ks /\ m.root = n.root /\ m.parent = n.parent
      /\ m.next = n.next /\ m.prev = n.prev
  BY <1>2, SMTT(60) DEF LeafNode, LeafRec
<1> HIDE DEF m
<1>4. /\ Db(e) /\ e.num = d.num /\ e.free = d.free
      /\ \A q \in 0 .. d.num - 1 : e.node[q] = IF q = p THEN m ELSE d.node[q]
  BY ONLY Db(d), p \in 0 .. d.num - 1, <1>1, PutPage
<1> QED BY <1>3, <1>4 DEF n

\* The leaf p has got the keys ks, and nothing else has changed.
OnlyKeys(d, e, p, ks) ==
    /\ LeafNode(e.node[p])
    /\ LeafIs(e.node[p], ks, d.node[p].next, d.node[p].prev)
    /\ \A q \in 0 .. d.num - 1 : q # p => e.node[q] = d.node[q]

CellGone(d, e, r, p, i) ==
    IF p = r \/ RemoveAt(d.node[p].keys, i) # <<>>
    THEN OnlyKeys(d, e, p, RemoveAt(d.node[p].keys, i))
    ELSE Removed(d, e, r, ToSet(d.node[r].kids), p)

\* Deleting a cell keeps the pages of the file in order.
LEMMA CellDeleted ==
    ASSUME NEW d, NEW r, OneTree(d, r), NEW p \in LeavesBelow(d, r),
           NEW i \in 1 .. Len(d.node[p].keys),
           NEW e, e = DeleteCell(d, r, p, i)
    PROVE  Kept(d, e, r) /\ e.num = d.num /\ CellGone(d, e, r, p, i)
<1> DEFINE ks == RemoveAt(d.node[p].keys, i)
           d1 == [d EXCEPT !.node[p].keys = ks]
<1>1. /\ File(d) /\ Tree(d, r) /\ Db(d) /\ d.num \in Nat
  BY FileIsDb DEF OneTree
<1>2. /\ p \in 0 .. d.num - 1 /\ LeafNode(d.node[p])
      /\ IsLeaf(d, r) <=> p = r
      /\ p = r => RootLeaf(d.node[p])
      /\ p # r => ChildLeaf(d.node[p], r) /\ p # 0
  BY <1>1, LeafShape
<1>3. ks \in Seq(Nat) /\ Len(ks) <= MaxCells
  <2> DEFINE s == d.node[p].keys
  <2>1. s \in Seq(Nat) /\ Len(s) <= MaxCells /\ i \in 1 .. Len(s)
    BY <1>2 DEF LeafNode
  <2> HIDE DEF s
  <2>2. RemoveAt(s, i) \in Seq(Nat) /\ Len(RemoveAt(s, i)) = Len(s) - 1
    BY ONLY <2>1, RemoveAtFacts
  <2>3. Len(s) - 1 <= MaxCells
    BY <2>1, Sizes
  <2> QED BY <2>2, <2>3 DEF s
<1>4. e = IF d1.node[p].keys = <<>> THEN RemoveEmptyLeaf(d1, r, p) ELSE d1
  BY DEF DeleteCell
<1> HIDE DEF ks
<1>5. d1 = Rekeyed(d, p, ks)
  BY DEF Rekeyed
<1> HIDE DEF d1
<1>6. /\ Db(d1) /\ d1.num = d.num /\ d1.free = d.free
      /\ \A q \in 0 .. d.num - 1 : q # p => d1.node[q] = d.node[q]
      /\ LeafNode(d1.node[p]) /\ d1.node[p].keys = ks
      /\ d1.node[p].root = d.node[p].root /\ d1.node[p].parent = d.node[p].parent
      /\ d1.node[p].next = d.node[p].next /\ d1.node[p].prev = d.node[p].prev
  BY ONLY <1>1, <1>2, <1>3, <1>5, PutKeys, SMTT(60)
<1>7. CASE p = r \/ ks # <<>>
  <2>1. e = d1
    <3>1. CASE ks # <<>>
      BY <1>4, <1>6, <3>1
    <3>2. CASE p = r
      <4>1. d1.node[p].root
        BY <1>2, <1>6, <3>2 DEF RootLeaf
      <4> QED BY <1>4, <4>1 DEF RemoveEmptyLeaf
    <3> QED BY <1>7, <3>1, <3>2
  <2>2. OneTree(d, r) /\ p \in LeavesBelow(d, r) /\ (p # r => ks # <<>>)
    BY <1>7
  <2>3. Kept(d, d1, r) /\ d1.num = d.num
    BY ONLY <1>3, <1>5, <2>2, LeafRewritten
  <2>4. OnlyKeys(d, e, p, ks)
    BY <1>6, <2>1 DEF OnlyKeys, LeafIs
  <2>5. CellGone(d, e, r, p, i)
    BY <1>7, <2>4 DEF CellGone, ks
  <2> QED BY <2>1, <2>3, <2>5
<1>8. CASE p # r /\ ks = <<>>
  <2>1. e = RemoveEmptyLeaf(d1, r, p)
    BY <1>4, <1>6, <1>8
  <2>2. ~IsLeaf(d, r) /\ p \in ToSet(d.node[r].kids)
    BY <1>2, <1>8 DEF LeavesBelow, Kids
  <2>3. LeafNode(d1.node[p]) /\ ~d1.node[p].root /\ d1.node[p].parent = r
    BY <1>2, <1>6, <1>8 DEF ChildLeaf
  <2>4. OneTree(d, r)
    OBVIOUS
  <2>5. Kept(d, e, r) /\ e.num = d.num /\ Removed(d, e, r, ToSet(d.node[r].kids), p)
    BY ONLY <1>6, <2>1, <2>2, <2>3, <2>4, LeafRemoved
  <2>6. CellGone(d, e, r, p, i)
    BY <1>8, <2>5 DEF CellGone, ks
  <2> QED BY <2>5, <2>6
<1> QED BY <1>7, <1>8

\* A key that is there is not beyond the last cell.
LEMMA BelowHeld ==
    ASSUME NEW s \in Seq(Nat), NEW j \in 1 .. Len(s), NEW k, s[j] = k
    PROVE  Below(s, k) + 1 \in 1 .. Len(s)
<1> DEFINE B == {i \in DOMAIN s : s[i] < k}
           C == (1 .. Len(s)) \ {j}
           l == Len(s)
<1>0. l \in Nat /\ k \in Nat
  OBVIOUS
<1>1. B \subseteq C
  BY <1>0
<1>2. IsFiniteSet(1 .. Len(s)) /\ Cardinality(1 .. Len(s)) = Len(s)
  <2> HIDE DEF l
  <2>1. 1 \in Int /\ l \in Int
    BY <1>0
  <2>2. IsFiniteSet(1 .. l) /\ Cardinality(1 .. l) = IF 1 > l THEN 0 ELSE l - 1 + 1
    BY ONLY <2>1, FS_Interval
  <2>3. (IF 1 > l THEN 0 ELSE l - 1 + 1) = l
    BY <1>0
  <2> QED BY <2>2, <2>3 DEF l
<1>3. IsFiniteSet(C) /\ Cardinality(C) = Len(s) - 1
  BY <1>2, FS_RemoveElement
<1>4. IsFiniteSet(B) /\ Cardinality(B) <= Len(s) - 1
  BY <1>1, <1>3, FS_Subset
<1>5. Cardinality(B) \in Nat
  BY <1>4, FS_CardinalityType
<1> QED BY <1>0, <1>4, <1>5, SMTT(60) DEF Below

LEMMA KeyDeleted ==
    ASSUME NEW d, NEW r, OneTree(d, r), NEW k, Holds(d, r, k),
           NEW e, e = Deleted(d, r, k)
    PROVE  Kept(d, e, r) /\ e.num = d.num
<1> DEFINE p == LeafFor(d, r, k)
           s == d.node[p].keys
           i == Below(s, k) + 1
<1>1. p \in LeavesBelow(d, r)
  BY LeafForIsLeaf DEF OneTree
<1>2. s \in Seq(Nat)
  <2>1. LeafNode(d.node[p])
    BY <1>1, LeafShape DEF OneTree
  <2> QED BY <2>1 DEF LeafNode
<1>3. PICK j \in DOMAIN s : s[j] = k
  BY DEF Holds
<1> HIDE DEF p, s
<1>4. i \in 1 .. Len(s)
  <2>1. j \in 1 .. Len(s)
    BY <1>2, <1>3
  <2> QED BY ONLY <1>2, <1>3, <2>1, BelowHeld
<1>5. e = DeleteCell(d, r, p, i)
  BY DEF Deleted, p, s
<1> HIDE DEF i
<1>6. i \in 1 .. Len(d.node[p].keys)
  BY <1>4 DEF s
<1> QED BY <1>1, <1>5, <1>6, CellDeleted

----------------------------------------------------------------------------
(* Claiming and writing pages.                                             *)

\* Writing a page that is not free.
LEMMA PutFile ==
    ASSUME NEW d, File(d), NEW p \in 0 .. d.num - 1, p \notin ToSet(d.free), NEW n,
           NEW e, e = Write(d, p, n)
    PROVE  /\ File(e) /\ e.num = d.num /\ e.free = d.free
           /\ \A q \in 0 .. d.num - 1 : e.node[q] = IF q = p THEN n ELSE d.node[q]
<1>1. /\ Db(d) /\ d.num \in Nat /\ d.num >= 1
      /\ d.free \in Seq(Nat) /\ IsInjective(d.free)
      /\ \A q \in ToSet(d.free) : q \in 1 .. d.num - 1 /\ d.node[q] = Blank
  BY FileIsDb
<1>2. /\ Db(e) /\ e.num = d.num /\ e.free = d.free
      /\ \A q \in 0 .. d.num - 1 : e.node[q] = IF q = p THEN n ELSE d.node[q]
  BY <1>1, PutPage
<1>3. ASSUME NEW q \in ToSet(e.free)
      PROVE  q \in 1 .. e.num - 1 /\ e.node[q] = Blank
  <2>1. q \in 1 .. d.num - 1 /\ d.node[q] = Blank /\ q # p
    BY <1>1, <1>2
  <2>2. q \in 0 .. d.num - 1
    BY <2>1
  <2> QED BY <1>2, <2>1, <2>2
<1>4. File(e)
  BY <1>1, <1>2, <1>3, FileFrom
<1> QED BY <1>2, <1>4

\* A page `new` was free, or the next of the file, and is in use in e.
Grown(d, e, new) ==
    /\ File(e) /\ e.num \in Nat /\ d.num <= e.num
    /\ new \in 1 .. e.num - 1 /\ new \notin ToSet(e.free)
    /\ ToSet(e.free) = ToSet(d.free) \ {new}
    /\ 0 .. e.num - 1 = (0 .. d.num - 1) \cup {new}
    /\ new \in ToSet(d.free) \/ new \notin 0 .. d.num - 1

LEMMA ClaimFacts ==
    ASSUME NEW d, File(d), NEW n, NEW e, e = Claim(d, n), NEW p, p = NextUnused(d)
    PROVE  /\ Grown(d, e, p)
           /\ \A q \in 0 .. e.num - 1 : e.node[q] = IF q = p THEN n ELSE d.node[q]
<1>1. /\ d = DbRec(d.node, d.free, d.num, d.ok) /\ d.ok = TRUE
      /\ Db(d) /\ d.num \in Nat /\ d.num >= 1
      /\ d.free \in Seq(Nat) /\ IsInjective(d.free)
      /\ \A q \in ToSet(d.free) : q \in 1 .. d.num - 1 /\ d.node[q] = Blank
      /\ d.node = [q \in 0 .. d.num - 1 |-> d.node[q]]
  BY FileIsDb DEF File
<1> DEFINE g == IF d.free = <<>> THEN d.free ELSE Front(d.free)
           l == IF d.free = <<>> THEN d.num + 1 ELSE d.num
           f == [q \in DOMAIN d.node \cup {p} |-> IF q = p THEN n ELSE d.node[q]]
           d1 == [d EXCEPT !.free = g]
           d2 == [d1 EXCEPT !.num = l]
<1>2. /\ g \in Seq(Nat) /\ IsInjective(g) /\ l \in Nat /\ d.num <= l
      /\ ToSet(g) = ToSet(d.free) \ {p} /\ p \in 1 .. l - 1
      /\ 0 .. l - 1 = (0 .. d.num - 1) \cup {p}
      /\ p \in ToSet(d.free) \/ p \notin 0 .. d.num - 1
  <2>1. CASE d.free = <<>>
    <3>1. p = d.num
      BY <2>1 DEF NextUnused
    <3>2. ToSet(d.free) = {}
      BY <2>1 DEF ToSet
    <3>3. l \in Nat /\ l = p + 1 /\ p \in Nat /\ p >= 1
      BY <1>1, <2>1, <3>1
    <3>4. p \notin ToSet(d.free)
      BY <3>2
    <3>5. 0 .. l - 1 = (0 .. p - 1) \cup {p} /\ p \in 1 .. l - 1 /\ p \notin 0 .. p - 1
      <4> HIDE DEF l
      <4> QED BY <3>3
    <3>6. p <= l
      <4> HIDE DEF l
      <4> QED BY <3>3
    <3> QED BY <1>1, <2>1, <3>1, <3>2, <3>3, <3>5, <3>6
  <2>2. CASE d.free # <<>>
    <3>1. /\ Front(d.free) \in Seq(Nat)
          /\ ToSet(Front(d.free)) = ToSet(d.free) \ {d.free[Len(d.free)]}
          /\ IsInjective(Front(d.free))
      BY <1>1, <2>2, FrontFacts, FrontSet
    <3>2. p = d.free[Len(d.free)]
      BY <2>2 DEF NextUnused, Last
    <3>3. p \in ToSet(d.free)
      <4>1. Len(d.free) \in 1 .. Len(d.free)
        BY <1>1, <2>2, EmptySeq
      <4> QED BY <1>1, <3>2, <4>1, ToSetFacts
    <3>4. p \in 1 .. d.num - 1
      BY <1>1, <3>3
    <3>5. 0 .. d.num - 1 = (0 .. d.num - 1) \cup {p}
      BY <3>4
    <3> QED BY <1>1, <2>2, <3>1, <3>2, <3>3, <3>4, <3>5, SMTT(60)
  <2> QED BY <2>1, <2>2
<1>3. /\ f = [q \in 0 .. l - 1 |-> IF q = p THEN n ELSE d.node[q]]
  <2>1. DOMAIN d.node = 0 .. d.num - 1
    BY <1>1
  <2> HIDE DEF l
  <2> QED BY <1>2, <2>1
<1>4. e = [d2 EXCEPT !.node = f]
  <2>1. d1.num = d.num /\ d2.node = d.node
    <3> HIDE DEF g, l
    <3>1. d1.num = d.num /\ d1.node = d.node
      BY ONLY <1>1 DEF DbRec
    <3>2. d1 = DbRec(d1.node, d1.free, d1.num, d1.ok)
      BY ONLY <1>1, SMTT(60) DEF DbRec
    <3>3. d2.node = d1.node
      <4> HIDE DEF d1
      <4> QED BY ONLY <3>2 DEF DbRec
    <3> QED BY <3>1, <3>3
  <2> QED BY <2>1 DEF Claim
<1>5. d1 = DbRec(d1.node, d1.free, d1.num, d1.ok) /\ d1.free = g /\ d1.ok = TRUE
  <2> HIDE DEF g
  <2> QED BY ONLY <1>1, SMTT(60) DEF DbRec
<1> HIDE DEF d1
<1>6. d2 = DbRec(d2.node, d2.free, d2.num, d2.ok) /\ d2.free = g /\ d2.num = l /\ d2.ok = TRUE
  <2> HIDE DEF g, l
  <2> QED BY ONLY <1>5 DEF DbRec
<1> HIDE DEF d2, f, g, l
<1>7. e = DbRec(e.node, e.free, e.num, e.ok) /\ e.free = g /\ e.num = l /\ e.ok = TRUE /\ e.node = f
  BY ONLY <1>4, <1>6 DEF DbRec
<1>8. \A q \in 0 .. l - 1 : f[q] = IF q = p THEN n ELSE d.node[q]
  BY <1>3
<1>9. Db(e)
  <2>1. f = [q \in 0 .. l - 1 |-> f[q]]
    BY <1>3
  <2>2. e.node = [q \in 0 .. e.num - 1 |-> e.node[q]]
    BY ONLY <1>7, <2>1
  <2> QED BY <1>2, <1>7, <2>2 DEF Db
<1>10. ASSUME NEW q \in ToSet(g)
       PROVE  q \in 1 .. l - 1 /\ f[q] = Blank
  <2>1. q \in ToSet(d.free) /\ q # p
    BY <1>2
  <2>2. q \in 1 .. d.num - 1 /\ d.node[q] = Blank
    BY <1>1, <2>1
  <2>3. q \in 0 .. l - 1 /\ q >= 1
    BY <1>2, <2>2
  <2>4. q \in 1 .. l - 1
    BY <1>2, <2>3
  <2> QED BY <1>8, <2>1, <2>2, <2>3, <2>4
<1>11. File(e)
  <2>1. e.num >= 1
    BY <1>1, <1>2, <1>7
  <2>2. \A q \in ToSet(e.free) : q \in 1 .. e.num - 1 /\ e.node[q] = Blank
    BY <1>7, <1>10
  <2> QED BY <1>2, <1>7, <1>9, <2>1, <2>2, FileFrom, SMTT(60)
<1>12. Grown(d, e, p)
  BY <1>2, <1>7, <1>11 DEF Grown
<1> QED BY <1>7, <1>8, <1>12

----------------------------------------------------------------------------
(* The nodes that an insert builds.                                        *)

\* One field of a node, written.
WithRoot(n, v) == [n EXCEPT !.root = v]
WithParent(n, v) == [n EXCEPT !.parent = v]
WithKeys(n, v) == [n EXCEPT !.keys = v]
WithNext(n, v) == [n EXCEPT !.next = v]
WithPrev(n, v) == [n EXCEPT !.prev = v]
WithKids(n, v) == [n EXCEPT !.kids = v]

LEMMA LeafWith ==
    ASSUME NEW ro, NEW pa, NEW ke, NEW ne, NEW pr, NEW v,
           NEW n, n = LeafRec(ro, pa, ke, ne, pr)
    PROVE  /\ WithRoot(n, v) = LeafRec(v, pa, ke, ne, pr)
           /\ WithParent(n, v) = LeafRec(ro, v, ke, ne, pr)
           /\ WithKeys(n, v) = LeafRec(ro, pa, v, ne, pr)
           /\ WithNext(n, v) = LeafRec(ro, pa, ke, v, pr)
           /\ WithPrev(n, v) = LeafRec(ro, pa, ke, ne, v)
<1>1. WithRoot(n, v) = LeafRec(v, pa, ke, ne, pr)
  BY DEF LeafRec, WithRoot
<1>2. WithParent(n, v) = LeafRec(ro, v, ke, ne, pr)
  BY DEF LeafRec, WithParent
<1>3. WithKeys(n, v) = LeafRec(ro, pa, v, ne, pr)
  BY DEF LeafRec, WithKeys
<1>4. WithNext(n, v) = LeafRec(ro, pa, ke, v, pr)
  BY DEF LeafRec, WithNext
<1>5. WithPrev(n, v) = LeafRec(ro, pa, ke, ne, v)
  BY DEF LeafRec, WithPrev
<1> QED BY <1>1, <1>2, <1>3, <1>4, <1>5

LEMMA InnerWith ==
    ASSUME NEW ro, NEW pa, NEW ke, NEW ki, NEW v, NEW n, n = InnerRec(ro, pa, ke, ki)
    PROVE  /\ WithRoot(n, v) = InnerRec(v, pa, ke, ki)
           /\ WithKeys(n, v) = InnerRec(ro, pa, v, ki)
           /\ WithKids(n, v) = InnerRec(ro, pa, ke, v)
<1>1. WithRoot(n, v) = InnerRec(v, pa, ke, ki)
  BY DEF InnerRec, WithRoot
<1>2. WithKeys(n, v) = InnerRec(ro, pa, v, ki)
  BY DEF InnerRec, WithKeys
<1>3. WithKids(n, v) = InnerRec(ro, pa, ke, v)
  BY DEF InnerRec, WithKids
<1> QED BY <1>1, <1>2, <1>3

\* The fields of a leaf.
LEMMA LeafFields ==
    ASSUME NEW ro, NEW pa, NEW ke \in Seq(Nat), Len(ke) <= MaxCells, NEW ne, NEW pr,
           NEW n, n = LeafRec(ro, pa, ke, ne, pr)
    PROVE  /\ LeafNode(n) /\ n.root = ro /\ n.parent = pa /\ n.keys = ke
           /\ n.next = ne /\ n.prev = pr
<1>1. /\ n = LeafRec(n.root, n.parent, n.keys, n.next, n.prev)
      /\ n.root = ro /\ n.parent = pa /\ n.keys = ke /\ n.next = ne /\ n.prev = pr
  BY DEF LeafRec
<1> QED BY <1>1 DEF LeafNode

\* A new leaf.
Fresh(par, ks, nx, pv) ==
    [NewLeaf(par) EXCEPT !.keys = ks, !.next = nx, !.prev = pv]

LEMMA FreshFacts ==
    ASSUME NEW par, NEW ks \in Seq(Nat), Len(ks) <= MaxCells, NEW nx, NEW pv,
           NEW m, m = Fresh(par, ks, nx, pv)
    PROVE  /\ LeafNode(m) /\ ~m.root /\ m.parent = par /\ m.keys = ks
           /\ m.next = nx /\ m.prev = pv
<1>1. PICK f : f = FALSE
  BY Zenon
<1>2. NewLeaf(par) = LeafRec(f, par, <<>>, 0, 0)
  BY <1>1, Zenon DEF NewLeaf, LeafRec
<1> DEFINE a == WithKeys(NewLeaf(par), ks)
           b == WithNext(a, nx)
<1>3. m = WithPrev(b, pv)
  BY Zenon DEF Fresh, WithKeys, WithNext, WithPrev
<1> HIDE DEF b
<1>4. a = LeafRec(f, par, ks, 0, 0)
  BY <1>2, LeafWith
<1>5. b = WithNext(a, nx)
  BY DEF b
<1> HIDE DEF a
<1>6. b = LeafRec(f, par, ks, nx, 0)
  BY ONLY <1>4, <1>5, LeafWith
<1>7. m = LeafRec(f, par, ks, nx, pv)
  BY ONLY <1>3, <1>6, LeafWith
<1>8. /\ LeafNode(m) /\ m.root = f /\ m.parent = par /\ m.keys = ks
      /\ m.next = nx /\ m.prev = pv
  BY <1>7, LeafFields
<1> QED BY <1>1, <1>8

\* A leaf whose keys and right sibling change.
LEMMA ShrunkFacts ==
    ASSUME NEW n, LeafNode(n), NEW ks \in Seq(Nat), Len(ks) <= MaxCells, NEW nx,
           NEW m, m = WithNext(WithKeys(n, ks), nx)
    PROVE  /\ LeafNode(m) /\ m.root = n.root /\ m.parent = n.parent
           /\ m.keys = ks /\ m.next = nx /\ m.prev = n.prev
<1> DEFINE a == WithKeys(n, ks)
<1>0. n = LeafRec(n.root, n.parent, n.keys, n.next, n.prev)
  BY DEF LeafNode
<1>1. a = LeafRec(n.root, n.parent, ks, n.next, n.prev)
  BY <1>0, LeafWith
<1>2. m = WithNext(a, nx)
  OBVIOUS
<1> HIDE DEF a
<1>3. m = LeafRec(n.root, n.parent, ks, nx, n.prev)
  BY ONLY <1>1, <1>2, LeafWith
<1> QED BY <1>3, LeafFields

\* The old root, under the new one.
Demoted(n, r) == [n EXCEPT !.root = FALSE, !.parent = r]

LEMMA DemotedFacts ==
    ASSUME NEW n, LeafNode(n), NEW r, NEW m, m = Demoted(n, r)
    PROVE  /\ LeafNode(m) /\ ~m.root /\ m.parent = r /\ m.keys = n.keys
           /\ m.next = n.next /\ m.prev = n.prev
<1>1. PICK f : f = FALSE
  BY Zenon
<1> DEFINE a == WithRoot(n, f)
<1>2. /\ n = LeafRec(n.root, n.parent, n.keys, n.next, n.prev)
      /\ n.keys \in Seq(Nat) /\ Len(n.keys) <= MaxCells
  BY DEF LeafNode
<1>3. m = WithParent(a, r)
  BY <1>1, Zenon DEF Demoted, WithRoot, WithParent
<1>4. a = LeafRec(f, n.parent, n.keys, n.next, n.prev)
  BY <1>2, LeafWith
<1> HIDE DEF a
<1>5. m = LeafRec(f, r, n.keys, n.next, n.prev)
  BY ONLY <1>3, <1>4, LeafWith
<1>6. /\ LeafNode(m) /\ m.root = f /\ m.parent = r /\ m.keys = n.keys
      /\ m.next = n.next /\ m.prev = n.prev
  BY <1>2, <1>5, LeafFields
<1> QED BY <1>1, <1>6

\* The right half of the old root, under the new one.
Adopted(n, left, r) == [n EXCEPT !.prev = left, !.parent = r]

LEMMA AdoptedFacts ==
    ASSUME NEW n, LeafNode(n), NEW left, NEW r, NEW m, m = Adopted(n, left, r)
    PROVE  /\ LeafNode(m) /\ m.root = n.root /\ m.parent = r /\ m.keys = n.keys
           /\ m.next = n.next /\ m.prev = left
<1> DEFINE a == WithPrev(n, left)
<1>2. /\ n = LeafRec(n.root, n.parent, n.keys, n.next, n.prev)
      /\ n.keys \in Seq(Nat) /\ Len(n.keys) <= MaxCells
  BY DEF LeafNode
<1>3. m = WithParent(a, r)
  BY Zenon DEF Adopted, WithPrev, WithParent
<1>4. a = LeafRec(n.root, n.parent, n.keys, n.next, left)
  BY <1>2, LeafWith
<1> HIDE DEF a
<1>5. m = LeafRec(n.root, r, n.keys, n.next, left)
  BY ONLY <1>3, <1>4, LeafWith
<1> QED BY <1>2, <1>5, LeafFields

\* The new root, over two leaves.
NewRoot(par, k, left, right) ==
    [NewInternal(par) EXCEPT !.root = TRUE, !.keys = <<k>>, !.kids = <<left, right>>]

RootOver(m, par, k, left, right) ==
    /\ RootInner(m) /\ m.parent = par
    /\ m.keys = <<k>> /\ m.kids = <<left, right>> /\ ToSet(m.kids) = {left, right}

LEMMA NewRootFacts ==
    ASSUME NEW par, NEW k \in Nat, NEW left \in Nat, NEW right \in Nat, left # right,
           NEW m, m = NewRoot(par, k, left, right)
    PROVE  RootOver(m, par, k, left, right)
<1>0. PICK f : f = FALSE
  BY Zenon
<1>1. PICK t : t = TRUE
  BY Zenon
<1> DEFINE ks == <<k>>
           cs == <<left, right>>
           a == NewInternal(par)
           c == WithRoot(a, t)
           g == WithKeys(c, ks)
<1>2. a = InnerRec(f, par, <<>>, <<>>)
  BY <1>0, Zenon DEF NewInternal, InnerRec
<1>3. m = WithKids(g, cs)
  BY <1>1, Zenon DEF NewRoot, WithRoot, WithKeys, WithKids
<1> HIDE DEF ks, cs, a, g
<1>4. c = InnerRec(t, par, <<>>, <<>>)
  BY <1>2, InnerWith
<1> HIDE DEF c
<1>5. g = InnerRec(t, par, ks, <<>>)
  BY <1>4, InnerWith DEF g
<1>6. m = InnerRec(t, par, ks, cs)
  BY <1>3, <1>5, InnerWith
<1>7. /\ m = InnerRec(m.root, m.parent, m.keys, m.kids)
      /\ m.root = t /\ m.parent = par /\ m.keys = ks /\ m.kids = cs
  BY ONLY <1>6 DEF InnerRec
<1>8. ks \in Seq(Nat) /\ Len(ks) = 1 /\ 1 \in 1 .. MaxKeys
  BY Sizes DEF ks
<1>9. cs \in Seq(Nat) /\ Len(cs) = 2 /\ cs[1] = left /\ cs[2] = right
  BY DEF cs
<1>10. IsInjective(cs)
  BY <1>9 DEF IsInjective
<1>11. ToSet(cs) = {left, right}
  <2>1. \A x : x \in ToSet(cs) <=> \E j \in 1 .. 2 : cs[j] = x
    BY <1>9, ToSetFacts, SMTT(60)
  <2>2. \A x : (\E j \in 1 .. 2 : cs[j] = x) <=> x = left \/ x = right
    BY <1>9
  <2> QED BY <2>1, <2>2
<1>12. RootInner(m)
  BY <1>1, <1>7, <1>8, <1>9, <1>10 DEF RootInner
<1> QED BY <1>7, <1>11, <1>12 DEF ks, cs, RootOver

----------------------------------------------------------------------------
(* Splitting a leaf.                                                       *)

\* The order of the leaves with `new` right after p.
OrderWith(R, S, p, new) ==
    R \cup {<<x, new>> : x \in {y \in S : y = p \/ <<y, p>> \in R}}
      \cup {<<new, x>> : x \in {y \in S : <<p, y>> \in R}}

\* The chain stays linked when a leaf is put in after p.
LEMMA SplitStaysLinked ==
    ASSUME NEW f, NEW g, NEW S, NEW R, R \subseteq S \X S, Linked(f, S, R),
           0 \notin S, NEW p \in S, NEW new, new \notin S, new # 0,
           g[p].next = new, g[p].prev = f[p].prev,
           g[new].next = f[p].next, g[new].prev = p,
           \A q \in S \ {p} :
              /\ g[q].next = f[q].next
              /\ g[q].prev = IF q = f[p].next THEN new ELSE f[q].prev
    PROVE  Linked(g, S \cup {new}, OrderWith(R, S, p, new))
<1> DEFINE T == S \cup {new}
           Q == OrderWith(R, S, p, new)
<1>0. /\ \A q \in S : <<q, q>> \notin R
      /\ \A q, s, t \in S : <<q, s>> \in R /\ <<s, t>> \in R => <<q, t>> \in R
      /\ \A q \in S : f[q].next # 0 => /\ f[q].next \in S /\ <<q, f[q].next>> \in R
                                       /\ f[f[q].next].prev = q
      /\ \A q \in S : f[q].prev # 0 => f[q].prev \in S /\ f[f[q].prev].next = q
  BY DEF Linked
<1>1. /\ \A x \in S, y \in S : <<x, y>> \in Q <=> <<x, y>> \in R
      /\ \A x \in S : <<x, new>> \in Q <=> (x = p \/ <<x, p>> \in R)
      /\ \A y \in S : <<new, y>> \in Q <=> <<p, y>> \in R
      /\ <<new, new>> \notin Q
  BY ZenonT(60) DEF OrderWith
<1> HIDE DEF Q
<1>2. ASSUME NEW q \in T
      PROVE  <<q, q>> \notin Q
  <2>1. CASE q = new
    BY <1>1, <2>1
  <2>2. CASE q \in S
    BY <1>0, <1>1, <2>2
  <2> QED BY <2>1, <2>2
<1>3. ASSUME NEW q \in T, NEW s \in T, NEW t \in T, <<q, s>> \in Q, <<s, t>> \in Q
      PROVE  <<q, t>> \in Q
  <2>1. CASE s = new
    <3>1. q \in S /\ t \in S /\ (q = p \/ <<q, p>> \in R) /\ <<p, t>> \in R
      BY <1>1, <1>3, <2>1
    <3> QED BY <1>0, <1>1, <3>1
  <2>2. CASE s # new /\ q = new
    <3>1. s \in S /\ <<p, s>> \in R
      BY <1>1, <1>3, <2>2
    <3>2. t \in S
      <4>1. CASE t = new
        <5>1. s = p \/ <<s, p>> \in R
          BY <1>1, <1>3, <3>1, <4>1
        <5> QED BY <1>0, <3>1, <5>1
      <4> QED BY <4>1
    <3> QED BY <1>0, <1>1, <1>3, <2>2, <3>1, <3>2
  <2>3. CASE s # new /\ q # new /\ t = new
    <3>1. q \in S /\ s \in S /\ <<q, s>> \in R /\ (s = p \/ <<s, p>> \in R)
      BY <1>1, <1>3, <2>3
    <3> QED BY <1>0, <1>1, <2>3, <3>1
  <2>4. CASE s # new /\ q # new /\ t # new
    BY <1>0, <1>1, <1>3, <2>4
  <2> QED BY <2>1, <2>2, <2>3, <2>4
<1>4. ASSUME NEW q \in T, g[q].next # 0
      PROVE  /\ g[q].next \in T /\ <<q, g[q].next>> \in Q
             /\ g[g[q].next].prev = q
  <2>1. CASE q = new
    <3>1. f[p].next \in S /\ <<p, f[p].next>> \in R
      BY <1>0, <1>4, <2>1
    <3>2. f[p].next # p
      BY <1>0, <3>1
    <3> QED BY <1>1, <2>1, <3>1, <3>2
  <2>2. CASE q = p
    BY <1>1, <2>2
  <2>3. CASE q # p /\ q # new
    <3>1. q \in S /\ g[q].next = f[q].next
      BY <2>3
    <3>2. f[q].next \in S /\ <<q, f[q].next>> \in R /\ f[f[q].next].prev = q
      BY <1>0, <1>4, <3>1
    <3>3. g[f[q].next].prev = q
      <4>1. CASE f[q].next = p
        BY <3>2, <4>1
      <4>2. CASE f[q].next # p
        <5>1. f[q].next # f[p].next
          <6>1. SUFFICES ASSUME f[q].next = f[p].next PROVE FALSE
            OBVIOUS
          <6>2. f[p].next # 0 /\ f[f[p].next].prev = p
            BY <1>0, <1>4, <3>1, <6>1
          <6> QED BY <2>3, <3>2, <6>1, <6>2
        <5> QED BY <3>2, <4>2, <5>1
      <4> QED BY <4>1, <4>2
    <3> QED BY <1>1, <3>1, <3>2, <3>3
  <2> QED BY <2>1, <2>2, <2>3
<1>5. ASSUME NEW q \in T, g[q].prev # 0
      PROVE  g[q].prev \in T /\ g[g[q].prev].next = q
  <2>1. CASE q = new
    BY <2>1
  <2>2. CASE q = p
    <3>1. f[p].prev \in S /\ f[f[p].prev].next = p
      BY <1>0, <1>5, <2>2
    <3>2. f[p].prev # p
      BY <1>0, <3>1
    <3> QED BY <2>2, <3>1, <3>2
  <2>3. CASE q # p /\ q # new /\ q = f[p].next
    BY <2>3
  <2>4. CASE q # p /\ q # new /\ q # f[p].next
    <3>1. q \in S /\ g[q].prev = f[q].prev
      BY <2>4
    <3>2. f[q].prev \in S /\ f[f[q].prev].next = q /\ f[q].prev # p
      BY <1>0, <1>5, <2>4, <3>1
    <3> QED BY <3>1, <3>2
  <2> QED BY <2>1, <2>2, <2>3, <2>4
<1> HIDE DEF T
<1>6. /\ \A q \in T : <<q, q>> \notin Q
      /\ \A q, s, t \in T : <<q, s>> \in Q /\ <<s, t>> \in Q => <<q, t>> \in Q
  BY ONLY <1>2, <1>3
<1>7. \A q \in T :
        /\ g[q].next # 0 => /\ g[q].next \in T /\ <<q, g[q].next>> \in Q
                            /\ g[g[q].next].prev = q
        /\ g[q].prev # 0 => g[q].prev \in T /\ g[g[q].prev].next = q
  BY ONLY <1>4, <1>5
<1>8. Linked(g, T, Q)
  BY ONLY <1>6, <1>7 DEF Linked
<1> QED BY <1>8 DEF T, Q

\* The pages once a full leaf has been divided, before its parent is told.
Halved(d, p, low, high) ==
    LET old == d.node[p]
        new == NextUnused(d)
        d1  == Claim(d, Fresh(old.parent, high, old.next, p))
        d2  == Write(d1, p, WithKeys(d1.node[p], low))
        d3  == Write(d2, p, WithNext(d2.node[p], new))
    IN  IF old.next = 0 THEN d3
        ELSE Write(d3, old.next, WithPrev(d3.node[old.next], new))

LEMMA HalvedFacts ==
    ASSUME NEW d, NEW r, OneTree(d, r), NEW p \in LeavesBelow(d, r),
           NEW low \in Seq(Nat), Len(low) <= MaxCells,
           NEW high \in Seq(Nat), Len(high) <= MaxCells,
           NEW new, new = NextUnused(d), NEW e, e = Halved(d, p, low, high)
    PROVE  /\ Grown(d, e, new)
           /\ LeafNode(e.node[new]) /\ ~e.node[new].root
           /\ e.node[new].parent = d.node[p].parent /\ e.node[new].keys = high
           /\ e.node[new].next = d.node[p].next /\ e.node[new].prev = p
           /\ LeafNode(e.node[p]) /\ e.node[p].root = d.node[p].root
           /\ e.node[p].parent = d.node[p].parent /\ e.node[p].keys = low
           /\ e.node[p].next = new /\ e.node[p].prev = d.node[p].prev
           /\ d.node[p].next # 0 =>
                 e.node[d.node[p].next] = WithPrev(d.node[d.node[p].next], new)
           /\ \A q \in 0 .. d.num - 1 :
                 q # p /\ q # new /\ (d.node[p].next # 0 => q # d.node[p].next)
                    => e.node[q] = d.node[q]
<1> DEFINE old == d.node[p]
           x   == old.next
           m   == Fresh(old.parent, high, x, p)
           d1  == Claim(d, m)
           d2  == Write(d1, p, WithKeys(d1.node[p], low))
           d3  == Write(d2, p, WithNext(d2.node[p], new))
<1>0. e = IF x = 0 THEN d3 ELSE Write(d3, x, WithPrev(d3.node[x], new))
  BY Zenon DEF Halved
<1>1. /\ File(d) /\ Tree(d, r) /\ d.num \in Nat
      /\ Own(d, r) \cap ToSet(d.free) = {}
  BY FileIsDb DEF OneTree
<1>2. /\ p \in 0 .. d.num - 1 /\ LeafNode(old) /\ p \in Own(d, r)
      /\ x # 0 => x \in 0 .. d.num - 1 /\ x \in Own(d, r) /\ x # p
  <2>1. /\ p \in 0 .. d.num - 1 /\ LeafNode(old)
        /\ IsLeaf(d, r) <=> p = r
        /\ p = r => RootLeaf(old)
    BY <1>1, LeafShape
  <2>2. p \in Own(d, r)
    BY DEF LeavesBelow, Own
  <2>3. CASE IsLeaf(d, r)
    BY <2>1, <2>2, <2>3 DEF RootLeaf
  <2>4. CASE ~IsLeaf(d, r)
    <3> DEFINE S == ToSet(d.node[r].kids)
    <3>1. p \in S
      BY <2>4 DEF LeavesBelow, Kids
    <3>2. /\ \A c \in S : c \in 1 .. d.num - 1
          /\ \E R : Linked(d.node, S, R)
          /\ Own(d, r) = {r} \cup S
      BY <2>4, InnerParts
    <3>3. PICK R : Linked(d.node, S, R)
      BY <3>2
    <3>4. 0 \notin S
      BY <3>2
    <3> HIDE DEF S
    <3>5. x # 0 => x \in S /\ x # p
      BY <3>1, <3>3, <3>4, Siblings
    <3>6. x # 0 => x \in 0 .. d.num - 1
      BY <3>2, <3>5
    <3> QED BY <2>1, <2>2, <3>2, <3>5, <3>6
  <2> QED BY <2>3, <2>4
<1>3. /\ File(d1) /\ d1.num \in Nat /\ d.num <= d1.num
      /\ new \in 1 .. d1.num - 1 /\ new \notin ToSet(d1.free)
      /\ ToSet(d1.free) = ToSet(d.free) \ {new}
      /\ 0 .. d1.num - 1 = (0 .. d.num - 1) \cup {new}
      /\ new \in ToSet(d.free) \/ new \notin 0 .. d.num - 1
      /\ \A q \in 0 .. d1.num - 1 : d1.node[q] = IF q = new THEN m ELSE d.node[q]
  <2>1. d1 = Claim(d, m) /\ File(d) /\ new = NextUnused(d)
    BY <1>1
  <2> HIDE DEF m, d1
  <2>2. /\ Grown(d, d1, new)
        /\ \A q \in 0 .. d1.num - 1 : d1.node[q] = IF q = new THEN m ELSE d.node[q]
    BY ONLY <2>1, ClaimFacts, SMTT(60)
  <2> QED BY <2>2 DEF Grown
<1>4. /\ p \in 0 .. d1.num - 1 /\ p # new /\ p \notin ToSet(d1.free)
      /\ x # 0 => x \in 0 .. d1.num - 1 /\ x # new /\ x # p /\ x \notin ToSet(d1.free)
  BY <1>1, <1>2, <1>3, ZenonT(60)
<1> HIDE DEF m, d1
<1>5. d1.node[p] = old /\ (x # 0 => d1.node[x] = d.node[x]) /\ d1.node[new] = m
  BY <1>3, <1>4
<1>6. /\ File(d2) /\ d2.num = d1.num /\ d2.free = d1.free
      /\ \A q \in 0 .. d1.num - 1 :
            d2.node[q] = IF q = p THEN WithKeys(old, low) ELSE d1.node[q]
  <2> DEFINE n == WithKeys(d1.node[p], low)
  <2>1. d2 = Write(d1, p, n) /\ File(d1) /\ p \in 0 .. d1.num - 1 /\ p \notin ToSet(d1.free)
    BY <1>3, <1>4
  <2>2. n = WithKeys(old, low)
    BY <1>5
  <2> HIDE DEF n, d2
  <2>3. /\ File(d2) /\ d2.num = d1.num /\ d2.free = d1.free
        /\ \A q \in 0 .. d1.num - 1 : d2.node[q] = IF q = p THEN n ELSE d1.node[q]
    BY ONLY <2>1, PutFile
  <2> QED BY <2>2, <2>3
<1> HIDE DEF d2
<1>7. /\ File(d3) /\ d3.num = d1.num /\ d3.free = d1.free
      /\ \A q \in 0 .. d1.num - 1 :
            d3.node[q] = IF q = p THEN WithNext(WithKeys(old, low), new) ELSE d1.node[q]
  <2> DEFINE n == WithNext(d2.node[p], new)
  <2>1. d3 = Write(d2, p, n) /\ File(d2) /\ p \in 0 .. d2.num - 1 /\ p \notin ToSet(d2.free)
    BY <1>4, <1>6
  <2>2. n = WithNext(WithKeys(old, low), new)
    BY <1>4, <1>6
  <2> HIDE DEF n, d3
  <2>3. /\ File(d3) /\ d3.num = d2.num /\ d3.free = d2.free
        /\ \A q \in 0 .. d2.num - 1 : d3.node[q] = IF q = p THEN n ELSE d2.node[q]
    BY ONLY <2>1, PutFile
  <2> QED BY <1>6, <2>2, <2>3
<1> HIDE DEF d3
<1>8. /\ File(e) /\ e.num = d1.num /\ e.free = d1.free
      /\ x # 0 => e.node[x] = WithPrev(d.node[x], new)
      /\ \A q \in 0 .. d1.num - 1 : (x # 0 => q # x) => e.node[q] = d3.node[q]
  <2>1. CASE x = 0
    BY <1>0, <1>7, <2>1
  <2>2. CASE x # 0
    <3> DEFINE n == WithPrev(d3.node[x], new)
    <3>1. e = Write(d3, x, n) /\ File(d3) /\ x \in 0 .. d3.num - 1 /\ x \notin ToSet(d3.free)
      BY <1>0, <1>4, <1>7, <2>2
    <3>2. n = WithPrev(d.node[x], new)
      BY <1>4, <1>5, <1>7, <2>2
    <3> HIDE DEF n, x
    <3>3. /\ File(e) /\ e.num = d3.num /\ e.free = d3.free
          /\ \A q \in 0 .. d3.num - 1 : e.node[q] = IF q = x THEN n ELSE d3.node[q]
      BY ONLY <3>1, PutFile
    <3>4. e.node[x] = n
      BY <1>4, <1>7, <2>2, <3>3
    <3> QED BY <1>7, <2>2, <3>2, <3>3, <3>4, SMTT(60)
  <2> QED BY <2>1, <2>2
<1>9. /\ LeafNode(m) /\ ~m.root /\ m.parent = old.parent /\ m.keys = high
      /\ m.next = x /\ m.prev = p
  BY FreshFacts DEF m
<1> DEFINE y == WithNext(WithKeys(old, low), new)
<1>10. /\ LeafNode(y) /\ y.root = old.root /\ y.parent = old.parent
       /\ y.keys = low /\ y.next = new /\ y.prev = old.prev
  <2> HIDE DEF old
  <2>1. LeafNode(old)
    BY <1>2
  <2> QED BY <2>1, ShrunkFacts
<1>11. e.node[p] = y /\ e.node[new] = m
  <2>1. new \in 0 .. d1.num - 1
    BY <1>3
  <2> QED BY <1>4, <1>5, <1>7, <1>8, <2>1
<1> HIDE DEF y
<1>12. ASSUME NEW q \in 0 .. d.num - 1, q # p, q # new, x # 0 => q # x
       PROVE  e.node[q] = d.node[q]
  <2>1. q \in 0 .. d1.num - 1
    BY <1>3
  <2> QED BY <1>3, <1>7, <1>8, <1>12, <2>1
<1>13. Grown(d, e, new)
  BY <1>3, <1>8 DEF Grown
<1> QED BY <1>8, <1>9, <1>10, <1>11, <1>12, <1>13

\* The last element of a sequence.
LEMMA LastFacts ==
    ASSUME NEW s \in Seq(Nat), s # <<>>
    PROVE  Last(s) \in Nat /\ Last(s) \in ToSet(s)
<1>1. Len(s) \in 1 .. Len(s)
  BY EmptySeq
<1>2. s[Len(s)] \in ToSet(s) /\ ToSet(s) \subseteq Nat
  BY <1>1, ToSetFacts
<1> QED BY <1>2 DEF Last

\* Three steps of CreateNewRoot: the old root moves, the new one is written in
\* its place, and the right half gets its new sibling and parent.
LEMMA NewRootSteps ==
    ASSUME NEW d, NEW r, NEW right
    PROVE  CreateNewRoot(d, r, right) =
              LET left == NextUnused(d)
                  d1   == Claim(d, Demoted(d.node[r], r))
                  d2   == Write(d1, r, NewRoot(d1.node[r].parent, MaxKeyOf(d.node[r]),
                                               left, right))
              IN  Write(d2, right, Adopted(d1.node[right], left, r))
BY Zenon DEF CreateNewRoot, Demoted, Write, NewRoot, Adopted

\* The two halves of the old root.
UnderNewRoot(e, r, low, high) ==
    \E left, right \in Nat \ {0} :
        /\ ~IsLeaf(e, r) /\ e.node[r].keys = <<Last(low)>>
        /\ e.node[r].kids = <<left, right>>
        /\ LeafIs(e.node[left], low, right, 0)
        /\ LeafIs(e.node[right], high, 0, left)

\* A leaf that is the root is split under a new root, which keeps the parent
\* field of the old one.
LEMMA RootSplit ==
    ASSUME NEW d, NEW r, OneTree(d, r), IsLeaf(d, r),
           NEW low \in Seq(Nat), Len(low) <= MaxCells, low # <<>>,
           NEW high \in Seq(Nat), Len(high) <= MaxCells, high # <<>>,
           NEW h, h = Halved(d, r, low, high),
           NEW e, e = CreateNewRoot(h, r, NextUnused(d))
    PROVE  /\ Kept(d, e, r) /\ e.num \in Nat
           /\ e.node[r].parent = d.node[r].parent
           /\ UnderNewRoot(e, r, low, high)
<1> DEFINE new == NextUnused(d)
           left == NextUnused(h)
           k == MaxKeyOf(h.node[r])
           m == Demoted(h.node[r], r)
           d1 == Claim(h, m)
           n == NewRoot(d1.node[r].parent, k, left, new)
           d2 == Write(d1, r, n)
           a == Adopted(d1.node[new], left, r)
<1>0. e = Write(d2, new, a)
  BY NewRootSteps, Zenon
<1>1. /\ r \in LeavesBelow(d, r) /\ r \in 0 .. d.num - 1 /\ RootLeaf(d.node[r])
      /\ d.num \in Nat /\ Own(d, r) = {r} /\ r \notin ToSet(d.free)
  <2>1. Own(d, r) = {r} /\ LeavesBelow(d, r) = {r}
    BY DEF Own, Kids, LeavesBelow
  <2>2. File(d) /\ Tree(d, r) /\ Own(d, r) \cap ToSet(d.free) = {}
    BY DEF OneTree
  <2>3. r \in 0 .. d.num - 1 /\ RootLeaf(d.node[r])
    BY <2>2 DEF Tree
  <2> QED BY <2>1, <2>2, <2>3, FileIsDb
<1>2. d.node[r].root /\ d.node[r].next = 0 /\ d.node[r].prev = 0
  BY <1>1 DEF RootLeaf
<1> HIDE DEF new
<1>3. /\ File(h) /\ h.num \in Nat /\ d.num <= h.num
      /\ new \in 1 .. h.num - 1 /\ new \notin ToSet(h.free)
      /\ ToSet(h.free) = ToSet(d.free) \ {new}
      /\ 0 .. h.num - 1 = (0 .. d.num - 1) \cup {new}
      /\ new \in ToSet(d.free) \/ new \notin 0 .. d.num - 1
      /\ LeafNode(h.node[new]) /\ ~h.node[new].root /\ h.node[new].keys = high
      /\ h.node[new].next = 0
      /\ LeafNode(h.node[r]) /\ h.node[r].parent = d.node[r].parent
      /\ h.node[r].keys = low /\ h.node[r].next = new /\ h.node[r].prev = 0
      /\ \A q \in 0 .. d.num - 1 : q # r /\ q # new => h.node[q] = d.node[q]
  <2>1. OneTree(d, r) /\ new = NextUnused(d) /\ h = Halved(d, r, low, high)
    BY DEF new
  <2>0. /\ low \in Seq(Nat) /\ Len(low) <= MaxCells
        /\ high \in Seq(Nat) /\ Len(high) <= MaxCells /\ r \in LeavesBelow(d, r)
    BY <1>1
  <2>2. /\ File(h) /\ h.num \in Nat /\ d.num <= h.num
        /\ new \in 1 .. h.num - 1 /\ new \notin ToSet(h.free)
        /\ ToSet(h.free) = ToSet(d.free) \ {new}
        /\ 0 .. h.num - 1 = (0 .. d.num - 1) \cup {new}
        /\ new \in ToSet(d.free) \/ new \notin 0 .. d.num - 1
    <3>1. Grown(d, h, new)
      BY ONLY <2>0, <2>1, HalvedFacts
    <3> QED BY <3>1, SMTT(60) DEF Grown
  <2>3. /\ LeafNode(h.node[new]) /\ ~h.node[new].root /\ h.node[new].keys = high
        /\ h.node[new].next = d.node[r].next
        /\ LeafNode(h.node[r]) /\ h.node[r].parent = d.node[r].parent
        /\ h.node[r].keys = low /\ h.node[r].next = new
        /\ h.node[r].prev = d.node[r].prev
    BY <1>1, <2>1, HalvedFacts, SMTT(60)
  <2>4. \A q \in 0 .. d.num - 1 :
           q # r /\ q # new /\ (d.node[r].next # 0 => q # d.node[r].next)
              => h.node[q] = d.node[q]
    BY <1>1, <2>1, HalvedFacts, SMTT(60)
  <2> QED BY <1>2, <2>2, <2>3, <2>4
<1> HIDE DEF left, m, d1
<1>4. /\ File(d1) /\ d1.num \in Nat /\ h.num <= d1.num
      /\ left \in 1 .. d1.num - 1 /\ left \notin ToSet(d1.free)
      /\ ToSet(d1.free) = ToSet(h.free) \ {left}
      /\ 0 .. d1.num - 1 = (0 .. h.num - 1) \cup {left}
      /\ left \in ToSet(h.free) \/ left \notin 0 .. h.num - 1
      /\ \A q \in 0 .. d1.num - 1 : d1.node[q] = IF q = left THEN m ELSE h.node[q]
  <2>1. File(h) /\ d1 = Claim(h, m) /\ left = NextUnused(h)
    BY <1>3 DEF d1, left
  <2>2. /\ Grown(h, d1, left)
        /\ \A q \in 0 .. d1.num - 1 : d1.node[q] = IF q = left THEN m ELSE h.node[q]
    BY ONLY <2>1, ClaimFacts
  <2> QED BY <2>2 DEF Grown
<1>5. /\ left # r /\ left # new /\ new # r
      /\ r \in 0 .. d1.num - 1 /\ new \in 0 .. d1.num - 1
      /\ r \notin ToSet(d1.free) /\ new \notin ToSet(d1.free)
      /\ new \in 1 .. d1.num - 1
  <2>1. new # r /\ r \in 0 .. h.num - 1 /\ r \notin ToSet(h.free)
    BY <1>1, <1>3
  <2>2. new \in 0 .. h.num - 1
    BY <1>3
  <2>3. left # r /\ left # new
    BY <1>3, <1>4, <2>1, <2>2, SMTT(60)
  <2>4. new >= 1 /\ new \in 0 .. d1.num - 1 /\ r \in 0 .. d1.num - 1
    BY <1>3, <1>4, <2>1, <2>2, SMTT(60)
  <2>5. new \in 1 .. d1.num - 1
    BY <1>4, <2>4
  <2> QED BY <1>3, <1>4, <2>1, <2>3, <2>4, <2>5
<1>6. d1.node[r] = h.node[r] /\ d1.node[new] = h.node[new] /\ d1.node[left] = m
  <2>1. left \in 0 .. d1.num - 1
    BY <1>4
  <2> QED BY <1>4, <1>5, <2>1, SMTT(60)
<1>7. /\ RootInner(n) /\ n.parent = d.node[r].parent
      /\ ToSet(n.kids) = {left, new}
      /\ n.keys = <<Last(low)>> /\ n.kids = <<left, new>>
  <2>1. k \in Nat /\ k = Last(low)
    BY <1>3, LastFacts DEF MaxKeyOf
  <2>2. left \in Nat /\ new \in Nat /\ left # new
    BY <1>3, <1>4, <1>5
  <2>3. n = NewRoot(d1.node[r].parent, k, left, new)
    OBVIOUS
  <2> HIDE DEF n, k
  <2>4. /\ RootInner(n) /\ n.parent = d1.node[r].parent
        /\ ToSet(n.kids) = {left, new}
        /\ n.keys = <<k>> /\ n.kids = <<left, new>>
    <3>1. RootOver(n, d1.node[r].parent, k, left, new)
      BY ONLY <2>1, <2>2, <2>3, NewRootFacts
    <3> QED BY <3>1 DEF RootOver
  <2> QED BY <1>3, <1>6, <2>1, <2>4
<1> HIDE DEF n
<1>8. /\ File(d2) /\ d2.num = d1.num /\ d2.free = d1.free
      /\ \A q \in 0 .. d1.num - 1 : d2.node[q] = IF q = r THEN n ELSE d1.node[q]
  <2>1. File(d1) /\ r \in 0 .. d1.num - 1 /\ r \notin ToSet(d1.free) /\ d2 = Write(d1, r, n)
    BY <1>4, <1>5
  <2> HIDE DEF d2
  <2> QED BY ONLY <2>1, PutFile
<1> HIDE DEF d2
<1>9. /\ LeafNode(a) /\ ~a.root /\ a.parent = r /\ a.keys = high
      /\ a.next = 0 /\ a.prev = left
  <2>1. d1.node[new] = h.node[new]
    BY <1>6
  <2>2. a = Adopted(h.node[new], left, r) /\ LeafNode(h.node[new])
    BY <1>3, <2>1
  <2> HIDE DEF a
  <2>3. /\ LeafNode(a) /\ a.root = h.node[new].root /\ a.parent = r
        /\ a.keys = h.node[new].keys /\ a.next = h.node[new].next /\ a.prev = left
    BY <2>2, AdoptedFacts
  <2> QED BY <1>3, <2>3
<1> HIDE DEF a
<1>10. /\ File(e) /\ e.num = d1.num /\ e.free = d1.free
       /\ \A q \in 0 .. d1.num - 1 : e.node[q] = IF q = new THEN a ELSE d2.node[q]
  <2>1. File(d2) /\ new \in 0 .. d2.num - 1 /\ new \notin ToSet(d2.free)
    BY <1>5, <1>8
  <2>2. /\ File(e) /\ e.num = d2.num /\ e.free = d2.free
        /\ \A q \in 0 .. d2.num - 1 : e.node[q] = IF q = new THEN a ELSE d2.node[q]
    BY ONLY <1>0, <2>1, PutFile
  <2> QED BY <1>8, <2>2
<1>11. /\ LeafNode(m) /\ ~m.root /\ m.parent = r /\ m.keys = low
       /\ m.next = new /\ m.prev = 0
  <2>1. /\ LeafNode(m) /\ ~m.root /\ m.parent = r /\ m.keys = h.node[r].keys
        /\ m.next = h.node[r].next /\ m.prev = h.node[r].prev
    BY <1>3, DemotedFacts, SMTT(60) DEF m
  <2> QED BY <1>3, <2>1
<1>12. e.node[r] = n /\ e.node[new] = a /\ e.node[left] = m
  <2>1. left \in 0 .. d1.num - 1
    BY <1>4
  <2> QED BY <1>5, <1>6, <1>8, <1>10, <2>1
<1> DEFINE S == {left, new}
           R == {<<left, new>>}
<1>13. Linked(e.node, S, R)
  <2>1. left # 0 /\ new # 0
    BY <1>4, <1>5
  <2> QED BY <1>5, <1>9, <1>11, <1>12, <2>1 DEF Linked
<1>14. OneTree(e, r) /\ Own(e, r) = {r} \cup S
  <2>1. r \in 0 .. e.num - 1 /\ RootInner(e.node[r]) /\ S = ToSet(e.node[r].kids)
    BY <1>5, <1>7, <1>10, <1>12
  <2>2. \A c \in S : c \in 1 .. e.num - 1 /\ c # r /\ ChildLeaf(e.node[c], r)
    BY <1>4, <1>5, <1>9, <1>10, <1>11, <1>12, SMTT(60) DEF ChildLeaf
  <2>3. r \notin ToSet(e.free) /\ S \cap ToSet(e.free) = {}
    BY <1>4, <1>5, <1>10
  <2> HIDE DEF S, R
  <2> QED BY ONLY <1>10, <1>13, <2>1, <2>2, <2>3, InnerTree
<1>15. Rest(e, r) = Rest(d, r)
  <2>1. left \in ToSet(d.free) \/ left \notin 0 .. d.num - 1
    BY <1>3, <1>4
  <2>2. 0 .. e.num - 1 = ((0 .. d.num - 1) \cup {new}) \cup {left}
    BY <1>3, <1>4, <1>10
  <2>3. ToSet(e.free) = (ToSet(d.free) \ {new}) \ {left}
    BY <1>3, <1>4, <1>10
  <2> QED BY <1>1, <1>3, <1>14, <2>1, <2>2, <2>3, SMTT(60) DEF Rest
<1>16. ASSUME NEW q \in Rest(d, r)
       PROVE  e.node[q] = d.node[q]
  <2>1. q \in 0 .. d.num - 1 /\ q # r /\ q \notin ToSet(d.free)
    BY <1>1 DEF Rest
  <2>2. q # new /\ q # left /\ q \in 0 .. d1.num - 1
    BY <1>3, <1>4, <2>1
  <2>3. e.node[q] = h.node[q]
    BY <1>4, <1>8, <1>10, <2>1, <2>2, ZenonT(60)
  <2> QED BY <1>3, <2>1, <2>2, <2>3, SMTT(60)
<1>17. d.num <= e.num
  BY <1>1, <1>3, <1>4, <1>10, SMTT(60)
<1>18. e.num \in Nat /\ e.node[r].parent = d.node[r].parent
  BY <1>4, <1>7, <1>10, <1>12
<1>19. UnderNewRoot(e, r, low, high)
  <2>1. left \in Nat \ {0} /\ new \in Nat \ {0}
    BY <1>4, <1>5
  <2>2. ~IsLeaf(e, r) /\ e.node[r].keys = <<Last(low)>> /\ e.node[r].kids = <<left, new>>
    BY <1>7, <1>12 DEF IsLeaf, RootInner, InnerRec
  <2>3. LeafIs(e.node[left], low, new, 0) /\ LeafIs(e.node[new], high, 0, left)
    BY <1>9, <1>11, <1>12 DEF LeafIs
  <2> QED BY <2>1, <2>2, <2>3 DEF UnderNewRoot
<1> QED BY <1>14, <1>15, <1>16, <1>17, <1>18, <1>19 DEF Kept

\* An inner node with other separators and children.
InnerFrom(n, ks, cs) == InnerRec(n.root, n.parent, ks, cs)

LEMMA InnerFromFacts ==
    ASSUME NEW n, RootInner(n), NEW ks \in Seq(Nat), NEW cs \in Seq(Nat),
           Len(ks) \in 1 .. MaxKeys, Len(cs) = Len(ks) + 1, IsInjective(cs),
           NEW m, m = InnerFrom(n, ks, cs)
    PROVE  RootInner(m) /\ m.parent = n.parent /\ m.keys = ks /\ m.kids = cs
<1>1. /\ m = InnerRec(m.root, m.parent, m.keys, m.kids)
      /\ m.root = n.root /\ m.parent = n.parent /\ m.keys = ks /\ m.kids = cs
  BY DEF InnerFrom, InnerRec
<1>2. n.root
  BY DEF RootInner
<1> QED BY <1>1, <1>2 DEF RootInner

LEMMA InnerSets ==
    ASSUME NEW n, RootInner(n), NEW ks, NEW cs
    PROVE  /\ WithKeys(n, ks) = InnerFrom(n, ks, n.kids)
           /\ WithKids(WithKeys(n, ks), cs) = InnerFrom(n, ks, cs)
<1> DEFINE a == WithKeys(n, ks)
<1>1. n = InnerRec(n.root, n.parent, n.keys, n.kids)
  BY DEF RootInner
<1>2. a = InnerRec(n.root, n.parent, ks, n.kids)
  BY <1>1, InnerWith
<1> HIDE DEF a
<1>3. WithKids(a, cs) = InnerRec(n.root, n.parent, ks, cs)
  BY <1>2, InnerWith
<1> QED BY <1>2, <1>3 DEF a, InnerFrom

LEMMA ReplaceAtFacts ==
    ASSUME NEW s \in Seq(Nat), NEW i, NEW e \in Nat
    PROVE  ReplaceAt(s, i, e) \in Seq(Nat) /\ Len(ReplaceAt(s, i, e)) = Len(s)
<1>1. s \in [1 .. Len(s) -> Nat] /\ Len(s) \in Nat
  OBVIOUS
<1> DEFINE t == [s EXCEPT ![i] = e]
<1>2. t \in [1 .. Len(s) -> Nat]
  BY <1>1
<1> HIDE DEF t
<1>3. t \in Seq(Nat) /\ Len(t) = Len(s)
  BY <1>1, <1>2
<1> QED BY <1>3 DEF ReplaceAt, t

\* A separator that is replaced leaves the node an inner root.
LEMMA SeparatorFacts ==
    ASSUME NEW n, RootInner(n), NEW old, NEW new \in Nat,
           NEW m, m = UpdateSeparator(n, old, new)
    PROVE  RootInner(m) /\ m.parent = n.parent /\ m.kids = n.kids
<1> DEFINE i  == CHOOSE i \in DOMAIN n.keys :
                   n.keys[i] = old /\ \A j \in 1 .. i - 1 : n.keys[j] # old
           ks == IF Contains(n.keys, old) THEN ReplaceAt(n.keys, i, new) ELSE n.keys
<1>1. m = WithKeys(n, ks)
  BY Zenon DEF UpdateSeparator, WithKeys
<1>2. /\ n.keys \in Seq(Nat) /\ n.kids \in Seq(Nat) /\ IsInjective(n.kids)
      /\ Len(n.keys) \in 1 .. MaxKeys /\ Len(n.kids) = Len(n.keys) + 1
  BY DEF RootInner
<1>3. ks \in Seq(Nat) /\ Len(ks) = Len(n.keys)
  <2> HIDE DEF i
  <2>1. /\ ReplaceAt(n.keys, i, new) \in Seq(Nat)
        /\ Len(ReplaceAt(n.keys, i, new)) = Len(n.keys)
    BY <1>2, ReplaceAtFacts
  <2> QED BY <1>2, <2>1
<1> HIDE DEF ks
<1>4. m = InnerFrom(n, ks, n.kids)
  BY <1>1, InnerSets
<1>5. ks \in Seq(Nat) /\ n.kids \in Seq(Nat) /\ Len(ks) \in 1 .. MaxKeys
      /\ Len(n.kids) = Len(ks) + 1 /\ IsInjective(n.kids) /\ RootInner(n)
  BY <1>2, <1>3
<1> QED BY ONLY <1>4, <1>5, InnerFromFacts

\* The node that InternalInsert writes, with a new child.
Widened(n, cmax, rmax, c) ==
    IF cmax > rmax
    THEN WithKids(WithKeys(n, Append(n.keys, rmax)), Append(n.kids, c))
    ELSE WithKids(WithKeys(n, InsertAt(n.keys, Below(n.keys, cmax) + 1, cmax)),
                  InsertAt(n.kids, Below(n.keys, cmax) + 1, c))

WidenedTo(n, m, c) ==
    /\ RootInner(m) /\ m.parent = n.parent
    /\ ToSet(m.kids) = ToSet(n.kids) \cup {c}

LEMMA WidenedFacts ==
    ASSUME NEW n, RootInner(n), Len(n.keys) < MaxKeys,
           NEW cmax \in Nat, NEW rmax \in Nat,
           NEW c \in Nat, c \notin ToSet(n.kids), NEW m, m = Widened(n, cmax, rmax, c)
    PROVE  WidenedTo(n, m, c)
<1>1. /\ n.keys \in Seq(Nat) /\ n.kids \in Seq(Nat) /\ IsInjective(n.kids)
      /\ Len(n.keys) \in 1 .. MaxKeys /\ Len(n.kids) = Len(n.keys) + 1
  BY DEF RootInner
<1> DEFINE i == Below(n.keys, cmax) + 1
           ks == IF cmax > rmax THEN Append(n.keys, rmax) ELSE InsertAt(n.keys, i, cmax)
           cs == IF cmax > rmax THEN Append(n.kids, c) ELSE InsertAt(n.kids, i, c)
<1>2. i \in 1 .. Len(n.keys) + 1 /\ i \in 1 .. Len(n.kids) + 1
  <2> DEFINE l == Len(n.keys)
             b == Below(n.keys, cmax)
  <2>1. b \in 0 .. l /\ l \in Nat /\ Len(n.kids) = l + 1
    BY <1>1, BelowRange
  <2> HIDE DEF l, b
  <2>2. b + 1 \in 1 .. l + 1 /\ b + 1 \in 1 .. (l + 1) + 1
    BY <2>1
  <2> QED BY <2>1, <2>2 DEF l, b
<1>3. m = InnerFrom(n, ks, cs)
  BY InnerSets DEF Widened
<1> HIDE DEF i
<1>4. ks \in Seq(Nat) /\ Len(ks) = Len(n.keys) + 1
  <2>1. CASE cmax > rmax
    BY <1>1, <2>1, AppendProperties
  <2>2. CASE ~(cmax > rmax)
    <3>1. /\ InsertAt(n.keys, i, cmax) \in Seq(Nat)
          /\ Len(InsertAt(n.keys, i, cmax)) = Len(n.keys) + 1
      <4> DEFINE s == n.keys
      <4>1. s \in Seq(Nat) /\ cmax \in Nat /\ i \in 1 .. Len(s) + 1
        BY <1>1, <1>2
      <4> HIDE DEF s
      <4>2. InsertAt(s, i, cmax) \in Seq(Nat) /\ Len(InsertAt(s, i, cmax)) = Len(s) + 1
        BY ONLY <4>1, InsertAtFacts
      <4> QED BY <4>2 DEF s
    <3> QED BY <2>2, <3>1
  <2> QED BY <2>1, <2>2
<1>5. /\ cs \in Seq(Nat) /\ Len(cs) = Len(n.kids) + 1
      /\ IsInjective(cs) /\ ToSet(cs) = ToSet(n.kids) \cup {c}
  <2>1. CASE cmax > rmax
    <3>1. /\ Append(n.kids, c) \in Seq(Nat) /\ IsInjective(Append(n.kids, c))
          /\ ToSet(Append(n.kids, c)) = ToSet(n.kids) \cup {c}
      BY <1>1, AppendSet
    <3>2. Len(Append(n.kids, c)) = Len(n.kids) + 1
      BY <1>1, AppendProperties, SMTT(60)
    <3> QED BY <2>1, <3>1, <3>2
  <2>2. CASE ~(cmax > rmax)
    <3>1. /\ InsertAt(n.kids, i, c) \in Seq(Nat)
          /\ Len(InsertAt(n.kids, i, c)) = Len(n.kids) + 1
      <4> DEFINE s == n.kids
      <4>1. s \in Seq(Nat) /\ c \in Nat /\ i \in 1 .. Len(s) + 1
        BY <1>1, <1>2
      <4> HIDE DEF s
      <4>2. InsertAt(s, i, c) \in Seq(Nat) /\ Len(InsertAt(s, i, c)) = Len(s) + 1
        BY ONLY <4>1, InsertAtFacts
      <4> QED BY <4>2 DEF s
    <3>2. IsInjective(InsertAt(n.kids, i, c))
      BY <1>1, <1>2, InsertAtInjective
    <3>3. ToSet(InsertAt(n.kids, i, c)) = ToSet(n.kids) \cup {c}
      BY <1>1, <1>2, InsertAtSet, ZenonT(60)
    <3> QED BY <2>2, <3>1, <3>2, <3>3
  <2> QED BY <2>1, <2>2
<1> HIDE DEF ks, cs
<1>6. Len(ks) \in 1 .. MaxKeys /\ Len(cs) = Len(ks) + 1
  <2> DEFINE l == Len(n.keys)
  <2>1. l \in 1 .. MaxKeys /\ l < MaxKeys /\ Len(n.kids) = l + 1
        /\ Len(ks) = l + 1 /\ Len(cs) = Len(n.kids) + 1
    BY <1>1, <1>4, <1>5
  <2> HIDE DEF l
  <2> QED BY <2>1, Sizes
<1>7. RootInner(m) /\ m.parent = n.parent /\ m.kids = cs
  BY <1>3, <1>4, <1>5, <1>6, InnerFromFacts, SMTT(60)
<1> QED BY <1>5, <1>7 DEF WidenedTo

LEMMA WithPrevFacts ==
    ASSUME NEW n, LeafNode(n), NEW v, NEW m, m = WithPrev(n, v)
    PROVE  /\ LeafNode(m) /\ m.root = n.root /\ m.parent = n.parent
           /\ m.keys = n.keys /\ m.next = n.next /\ m.prev = v
<1>1. /\ n = LeafRec(n.root, n.parent, n.keys, n.next, n.prev)
      /\ n.keys \in Seq(Nat) /\ Len(n.keys) <= MaxCells
  BY DEF LeafNode
<1>2. m = LeafRec(n.root, n.parent, n.keys, n.next, v)
  BY <1>1, LeafWith
<1> QED BY <1>1, <1>2, LeafFields

LEMMA WithParentFacts ==
    ASSUME NEW n, LeafNode(n), NEW v, NEW m, m = WithParent(n, v)
    PROVE  /\ LeafNode(m) /\ m.root = n.root /\ m.parent = v
           /\ m.keys = n.keys /\ m.next = n.next /\ m.prev = n.prev
<1>1. /\ n = LeafRec(n.root, n.parent, n.keys, n.next, n.prev)
      /\ n.keys \in Seq(Nat) /\ Len(n.keys) <= MaxCells
  BY DEF LeafNode
<1>2. m = LeafRec(n.root, v, n.keys, n.next, n.prev)
  BY <1>1, LeafWith
<1> QED BY <1>1, <1>2, LeafFields

\* The two writes of InternalInsert, where the parent has room.
LEMMA InternalInsertSteps ==
    ASSUME NEW d, NEW r, NEW c
    PROVE  InternalInsert(d, r, c) =
              LET n  == d.node[r]
                  d1 == Write(d, r, Widened(n, MaxKeyOf(d.node[c]),
                                            MaxKeyOf(d.node[Last(n.kids)]), c))
              IN  IF Len(n.keys) >= MaxKeys THEN InternalSplit(d, r, c)
                  ELSE Write(d1, c, WithParent(d1.node[c], r))
<1> DEFINE n  == d.node[r]
           m  == Widened(n, MaxKeyOf(d.node[c]), MaxKeyOf(d.node[Last(n.kids)]), c)
           d1 == Write(d, r, m)
<1>1. InternalInsert(d, r, c) =
        IF Len(n.keys) >= MaxKeys THEN InternalSplit(d, r, c)
        ELSE [d EXCEPT !.node[r] = m, !.node[c].parent = r]
  BY Zenon DEF InternalInsert, Widened, WithKeys, WithKids
<1> HIDE DEF m
<1>2. [d EXCEPT !.node[r] = m, !.node[c].parent = r] = Write(d1, c, WithParent(d1.node[c], r))
  BY Zenon DEF Write, WithParent
<1> QED BY <1>1, <1>2, ZenonT(60) DEF m

\* The process has exited where the parent has no room.
LEMMA SplitExits ==
    ASSUME NEW d, File(d), NEW r, NEW c
    PROVE  ~InternalSplit(d, r, c).ok
<1>1. PICK f : f = FALSE
  BY Zenon
<1>2. d = DbRec(d.node, d.free, d.num, d.ok)
  BY DEF File
<1>3. [d EXCEPT !.ok = f].ok = f
  BY ONLY <1>2 DEF DbRec
<1>4. InternalSplit(d, r, c) = [d EXCEPT !.ok = f]
  BY <1>1, Zenon DEF InternalSplit
<1> QED BY <1>1, <1>3, <1>4

\* One page of a file is written over.
Overwritten(d, e, p, n) ==
    /\ File(e) /\ e.num = d.num /\ e.free = d.free
    /\ \A q \in 0 .. d.num - 1 : e.node[q] = IF q = p THEN n ELSE d.node[q]

LEMMA PutFileOver ==
    ASSUME NEW d, File(d), NEW p, p \in 0 .. d.num - 1, p \notin ToSet(d.free), NEW n,
           NEW e, e = Write(d, p, n)
    PROVE  Overwritten(d, e, p, n)
BY PutFile DEF Overwritten

\* The page at r keeps its parent field.
ParentKept(d, e, r) == e.node[r].parent = d.node[r].parent

\* Of the leaves S, p has been divided with the new leaf.
Divided(d, e, S, p, new, low, high) ==
    /\ new \notin S /\ new # 0
    /\ LeafIs(e.node[p], low, new, d.node[p].prev)
    /\ LeafIs(e.node[new], high, d.node[p].next, p)
    /\ \A c \in S \ {p} : LeafIs(e.node[c], d.node[c].keys, d.node[c].next,
                                 IF c = d.node[p].next THEN new ELSE d.node[c].prev)

\* The largest key of the last child, when p has been cut down to low.
LastMax(d, kids, p, low) == IF Last(kids) = p THEN Last(low) ELSE MaxKeyOf(d.node[Last(kids)])

\* The parent after the split of its child p, whose largest key was old.
Rejoined(d, r, p, old, low, high, new) ==
    Widened(UpdateSeparator(d.node[r], old, Last(low)), Last(high),
            LastMax(d, d.node[r].kids, p, low), new)

\* A leaf under a root is split, the parent having room for the new leaf.
LEMMA InnerSplit ==
    ASSUME NEW d, NEW r, OneTree(d, r), ~IsLeaf(d, r), NEW p \in ToSet(d.node[r].kids),
           NEW low \in Seq(Nat), Len(low) <= MaxCells, low # <<>>,
           NEW high \in Seq(Nat), Len(high) <= MaxCells, high # <<>>,
           NEW h, h = Halved(d, p, low, high), NEW old,
           NEW e, e = InternalInsert(Write(h, r, UpdateSeparator(h.node[r], old, Last(low))),
                                     r, NextUnused(d)), e.ok
    PROVE  /\ Kept(d, e, r) /\ e.num \in Nat
           /\ ParentKept(d, e, r)
           /\ Divided(d, e, ToSet(d.node[r].kids), p, NextUnused(d), low, high)
           /\ e.node[r] = Rejoined(d, r, p, old, low, high, NextUnused(d))
<1> DEFINE new == NextUnused(d)
           S   == ToSet(d.node[r].kids)
           x   == d.node[p].next
           n1  == UpdateSeparator(h.node[r], old, Last(low))
           d1  == Write(h, r, n1)
           m   == Widened(n1, MaxKeyOf(d1.node[new]), MaxKeyOf(d1.node[Last(n1.kids)]), new)
           d2  == Write(d1, r, m)
           a   == WithParent(d2.node[new], r)
<1>0. e = IF Len(d1.node[r].keys) >= MaxKeys THEN InternalSplit(d1, r, new)
          ELSE LET n2 == d1.node[r]
                   d3 == Write(d1, r, Widened(n2, MaxKeyOf(d1.node[new]),
                                              MaxKeyOf(d1.node[Last(n2.kids)]), new))
               IN  Write(d3, new, WithParent(d3.node[new], r))
  BY InternalInsertSteps, Zenon
<1>1. /\ p \in LeavesBelow(d, r) /\ d.num \in Nat /\ r \in 0 .. d.num - 1 /\ r \notin S
      /\ RootInner(d.node[r]) /\ Own(d, r) = {r} \cup S /\ 0 \notin S
      /\ \A c \in S : c \in 1 .. d.num - 1 /\ c # r /\ ChildLeaf(d.node[c], r)
      /\ r \notin ToSet(d.free) /\ S \cap ToSet(d.free) = {}
  <2>1. p \in LeavesBelow(d, r)
    BY DEF LeavesBelow, Kids
  <2>2. S = ToSet(d.node[r].kids)
    OBVIOUS
  <2> HIDE DEF S
  <2>3. /\ d.num \in Nat /\ r \in 0 .. d.num - 1 /\ RootInner(d.node[r])
        /\ \A c \in S : c \in 1 .. d.num - 1 /\ c # r /\ ChildLeaf(d.node[c], r)
        /\ r \notin ToSet(d.free) /\ S \cap ToSet(d.free) = {}
        /\ Own(d, r) = {r} \cup S
    BY <2>2, InnerParts, SMTT(60)
  <2> QED BY <2>1, <2>3
<1>2. PICK R : Linked(d.node, S, R) /\ R \subseteq S \X S
  <2>1. S = ToSet(d.node[r].kids)
    OBVIOUS
  <2> HIDE DEF S
  <2>2. PICK R0 : Linked(d.node, S, R0)
    BY <2>1, InnerParts
  <2> QED BY ONLY <2>2, LinkedWithin
<1>3. x # 0 => x \in S /\ x # p
  <2>1. p \in S
    OBVIOUS
  <2> HIDE DEF S
  <2> QED BY <1>1, <1>2, <2>1, Siblings
<1> HIDE DEF new
<1>4. /\ Grown(d, h, new)
      /\ LeafNode(h.node[new]) /\ ~h.node[new].root /\ h.node[new].keys = high
      /\ h.node[new].next = x /\ h.node[new].prev = p
      /\ LeafNode(h.node[p]) /\ h.node[p].root = d.node[p].root
      /\ h.node[p].parent = d.node[p].parent /\ h.node[p].keys = low
      /\ h.node[p].next = new /\ h.node[p].prev = d.node[p].prev
      /\ x # 0 => h.node[x] = WithPrev(d.node[x], new)
      /\ \A q \in 0 .. d.num - 1 :
            q # p /\ q # new /\ (x # 0 => q # x) => h.node[q] = d.node[q]
  <2>1. OneTree(d, r) /\ new = NextUnused(d) /\ h = Halved(d, p, low, high)
    BY DEF new
  <2>2. /\ low \in Seq(Nat) /\ Len(low) <= MaxCells
        /\ high \in Seq(Nat) /\ Len(high) <= MaxCells /\ p \in LeavesBelow(d, r)
    BY <1>1
  <2>3. /\ Grown(d, h, new)
        /\ LeafNode(h.node[new]) /\ ~h.node[new].root /\ h.node[new].keys = high
        /\ h.node[new].next = x /\ h.node[new].prev = p
    BY ONLY <2>1, <2>2, HalvedFacts
  <2>4. /\ LeafNode(h.node[p]) /\ h.node[p].root = d.node[p].root
        /\ h.node[p].parent = d.node[p].parent /\ h.node[p].keys = low
        /\ h.node[p].next = new /\ h.node[p].prev = d.node[p].prev
    BY ONLY <2>1, <2>2, HalvedFacts
  <2>5. x # 0 => h.node[x] = WithPrev(d.node[x], new)
    BY ONLY <2>1, <2>2, HalvedFacts
  <2>6. \A q \in 0 .. d.num - 1 :
           q # p /\ q # new /\ (x # 0 => q # x) => h.node[q] = d.node[q]
    BY ONLY <2>1, <2>2, HalvedFacts
  <2> QED BY <2>3, <2>4, <2>5, <2>6
<1>5. /\ File(h) /\ h.num \in Nat /\ d.num <= h.num
      /\ new \in 1 .. h.num - 1 /\ new \notin ToSet(h.free)
      /\ ToSet(h.free) = ToSet(d.free) \ {new}
      /\ 0 .. h.num - 1 = (0 .. d.num - 1) \cup {new}
      /\ new \in ToSet(d.free) \/ new \notin 0 .. d.num - 1
  BY <1>4 DEF Grown
<1> HIDE DEF x
<1>6. /\ new # r /\ new \notin S /\ new # 0 /\ new \in Nat /\ new \in 0 .. h.num - 1
      /\ r \in 0 .. h.num - 1 /\ r \notin ToSet(h.free)
      /\ h.node[r] = d.node[r]
  <2>1. new # r /\ new \notin S
    <3>1. \A c \in S : c \in 0 .. d.num - 1
      BY <1>1
    <3> HIDE DEF S
    <3> QED BY <1>1, <1>5, <3>1
  <2>2. r # p /\ (x # 0 => r # x)
    BY <1>1, <1>3
  <2>3. h.node[r] = d.node[r]
    BY <1>1, <1>4, <2>1, <2>2, SMTT(60)
  <2>4. new # 0 /\ new \in Nat /\ new \in 0 .. h.num - 1
    BY <1>5
  <2> QED BY <1>1, <1>5, <2>1, <2>3, <2>4
<1>7. /\ RootInner(n1) /\ n1.parent = d.node[r].parent /\ n1.kids = d.node[r].kids
      /\ n1 = UpdateSeparator(d.node[r], old, Last(low))
  <2>1. Last(low) \in Nat
    BY LastFacts
  <2>2. n1 = UpdateSeparator(d.node[r], old, Last(low))
    BY <1>6
  <2> HIDE DEF n1
  <2> QED BY <1>1, <2>1, <2>2, SeparatorFacts, SMTT(60)
<1> HIDE DEF n1
<1>8. /\ File(d1) /\ d1.num = h.num /\ d1.free = h.free
      /\ \A q \in 0 .. h.num - 1 : d1.node[q] = IF q = r THEN n1 ELSE h.node[q]
  <2>1. d1 = Write(h, r, n1) /\ File(h) /\ r \in 0 .. h.num - 1 /\ r \notin ToSet(h.free)
    BY <1>5, <1>6
  <2> HIDE DEF d1
  <2>2. Overwritten(h, d1, r, n1)
    BY ONLY <2>1, PutFileOver
  <2> QED BY <2>2 DEF Overwritten
<1>9. d1.node[r] = n1 /\ d1.node[new] = h.node[new]
  BY <1>6, <1>8
<1>10. Len(n1.keys) < MaxKeys /\ e = Write(d2, new, a)
  <2> HIDE DEF d1
  <2>1. CASE Len(n1.keys) >= MaxKeys
    <3>1. e = InternalSplit(d1, r, new)
      BY <1>0, <1>9, <2>1, SMTT(60)
    <3> QED BY <1>8, <3>1, SplitExits
  <2>2. CASE ~(Len(n1.keys) >= MaxKeys)
    <3>1. Len(n1.keys) < MaxKeys
      <4> DEFINE l == Len(n1.keys)
      <4>1. l \in Nat /\ ~(l >= MaxKeys)
        BY <1>7, <2>2 DEF RootInner
      <4> HIDE DEF l
      <4>2. l < MaxKeys
        BY <4>1, Sizes
      <4> QED BY <4>2 DEF l
    <3>2. e = Write(d2, new, a)
      BY <1>0, <1>9, <2>2, Zenon
    <3> QED BY <3>1, <3>2
  <2> QED BY <2>1, <2>2
<1> HIDE DEF d1
<1>11. /\ RootInner(m) /\ m.parent = d.node[r].parent /\ ToSet(m.kids) = S \cup {new}
       /\ m = Rejoined(d, r, p, old, low, high, new)
  <2> DEFINE y == Last(n1.kids)
             cmax == MaxKeyOf(d1.node[new])
             rmax == MaxKeyOf(d1.node[y])
  <2>1. cmax \in Nat
    BY <1>4, <1>9, LastFacts DEF MaxKeyOf
  <2>2. y \in S
    <3>1. n1.kids \in Seq(Nat) /\ n1.kids # <<>>
      <4>1. n1.kids \in Seq(Nat) /\ Len(n1.kids) = Len(n1.keys) + 1 /\ Len(n1.keys) \in 1 .. MaxKeys
        BY <1>7 DEF RootInner
      <4> QED BY <4>1, SMTT(60)
    <3> QED BY <1>7, <3>1, LastFacts
  <2>9. y = Last(d.node[r].kids)
    BY <1>7
  <2> HIDE DEF y
  <2>3. rmax \in Nat /\ rmax = IF y = p THEN Last(low) ELSE MaxKeyOf(d.node[y])
    <3>1. y \in 0 .. d.num - 1 /\ y \in 0 .. h.num - 1 /\ y # r /\ y # new
          /\ ChildLeaf(d.node[y], r)
      BY <1>1, <1>5, <1>6, <2>2, SMTT(60)
    <3>2. d1.node[y] = h.node[y]
      BY <1>8, <3>1
    <3>3. /\ h.node[y].keys \in Seq(Nat) /\ h.node[y].keys # <<>>
          /\ h.node[y].keys = IF y = p THEN low ELSE d.node[y].keys
      <4>1. CASE y = p
        BY <1>4, <4>1
      <4>2. CASE y # p /\ x # 0 /\ y = x
        <5>1. h.node[y] = WithPrev(d.node[y], new) /\ LeafNode(d.node[y]) /\ d.node[y].keys # <<>>
          BY <1>4, <3>1, <4>2 DEF ChildLeaf
        <5>2. LeafNode(h.node[y]) /\ h.node[y].keys = d.node[y].keys
          BY <5>1, WithPrevFacts
        <5> QED BY <4>2, <5>1, <5>2 DEF LeafNode
      <4>3. CASE y # p /\ (x # 0 => y # x)
        <5>1. h.node[y] = d.node[y]
          BY <1>4, <3>1, <4>3
        <5> QED BY <3>1, <4>3, <5>1 DEF ChildLeaf, LeafNode
      <4> QED BY <4>1, <4>2, <4>3
    <3> QED BY <3>2, <3>3, LastFacts DEF MaxKeyOf
  <2> HIDE DEF cmax, rmax, S
  <2>4. m = Widened(n1, cmax, rmax, new)
    BY DEF cmax, rmax, y
  <2>5. new \in Nat /\ new \notin ToSet(n1.kids)
    BY <1>6, <1>7 DEF S
  <2> HIDE DEF m
  <2>6. RootInner(n1) /\ Len(n1.keys) < MaxKeys
    BY <1>7, <1>10
  <2>7. WidenedTo(n1, m, new)
    BY ONLY <2>1, <2>3, <2>4, <2>5, <2>6, WidenedFacts
  <2>8. m = Rejoined(d, r, p, old, low, high, new)
    <3>1. cmax = Last(high)
      BY <1>4, <1>9 DEF cmax, MaxKeyOf
    <3>2. rmax = LastMax(d, d.node[r].kids, p, low)
      BY <2>3, <2>9 DEF LastMax
    <3> QED BY <1>7, <2>4, <3>1, <3>2 DEF Rejoined
  <2> QED BY <1>7, <2>7, <2>8 DEF S, WidenedTo
<1> HIDE DEF m
<1>12. /\ File(d2) /\ d2.num = h.num /\ d2.free = h.free
       /\ \A q \in 0 .. h.num - 1 : d2.node[q] = IF q = r THEN m ELSE h.node[q]
  <2>1. d2 = Write(d1, r, m) /\ File(d1) /\ r \in 0 .. d1.num - 1 /\ r \notin ToSet(d1.free)
    BY <1>6, <1>8
  <2> HIDE DEF d2
  <2>2. Overwritten(d1, d2, r, m)
    BY ONLY <2>1, PutFileOver
  <2> QED BY <1>8, <2>2 DEF Overwritten
<1>13. d2.node[new] = h.node[new]
  BY <1>6, <1>12
<1> HIDE DEF d2
<1>14. /\ LeafNode(a) /\ ~a.root /\ a.parent = r /\ a.keys = high
       /\ a.next = x /\ a.prev = p
  <2>1. a = WithParent(h.node[new], r)
    BY <1>13
  <2> HIDE DEF a
  <2>2. /\ LeafNode(a) /\ a.root = h.node[new].root /\ a.parent = r
        /\ a.keys = h.node[new].keys /\ a.next = h.node[new].next
        /\ a.prev = h.node[new].prev
    BY <1>4, <2>1, WithParentFacts
  <2> QED BY <1>4, <2>2
<1>15. /\ File(e) /\ e.num = h.num /\ e.free = h.free
       /\ \A q \in 0 .. h.num - 1 : e.node[q] = IF q = new THEN a ELSE d2.node[q]
  <2>1. e = Write(d2, new, a) /\ File(d2) /\ new \in 0 .. d2.num - 1 /\ new \notin ToSet(d2.free)
    BY <1>5, <1>6, <1>10, <1>12
  <2> HIDE DEF a
  <2>2. Overwritten(d2, e, new, a)
    BY ONLY <2>1, PutFileOver
  <2> QED BY <1>12, <2>2 DEF Overwritten
<1> HIDE DEF a
<1>16. /\ e.node[new] = a /\ e.node[r] = m
       /\ \A q \in 0 .. d.num - 1 : q # r /\ q # new => e.node[q] = h.node[q]
  <2>1. \A q \in 0 .. d.num - 1 : q \in 0 .. h.num - 1
    BY <1>5
  <2> QED BY <1>6, <1>12, <1>15, <2>1
<1>17. ASSUME NEW c \in S
       PROVE  /\ ChildLeaf(e.node[c], r) /\ c \in 1 .. e.num - 1 /\ c # r
              /\ c # p => /\ e.node[c].next = d.node[c].next
                          /\ e.node[c].prev = IF c = x THEN new ELSE d.node[c].prev
                          /\ e.node[c].keys = d.node[c].keys
  <2>1. c \in 0 .. d.num - 1 /\ c # r /\ c # new /\ c # 0 /\ ChildLeaf(d.node[c], r)
        /\ LeafNode(d.node[c])
    BY <1>1, <1>6, SMTT(60) DEF ChildLeaf
  <2>2. e.node[c] = h.node[c]
    BY <1>16, <2>1
  <2>3. c \in 1 .. e.num - 1
    BY <1>1, <1>5, <1>15
  <2>4. CASE c = p
    BY <1>4, <2>1, <2>2, <2>3, <2>4 DEF ChildLeaf
  <2>5. CASE c # p /\ c = x
    <3>1. h.node[c] = WithPrev(d.node[c], new)
      BY <1>4, <2>1, <2>5
    <3>2. /\ LeafNode(h.node[c]) /\ h.node[c].root = d.node[c].root
          /\ h.node[c].parent = d.node[c].parent /\ h.node[c].keys = d.node[c].keys
          /\ h.node[c].next = d.node[c].next /\ h.node[c].prev = new
      BY <2>1, <3>1, WithPrevFacts
    <3> QED BY <2>1, <2>2, <2>3, <2>5, <3>2 DEF ChildLeaf
  <2>6. CASE c # p /\ c # x
    <3>1. h.node[c] = d.node[c]
      BY <1>4, <2>1, <2>6
    <3> QED BY <2>1, <2>2, <2>3, <2>6, <3>1
  <2> QED BY <2>4, <2>5, <2>6
<1> DEFINE T == S \cup {new}
           Q == OrderWith(R, S, p, new)
<1>18. Linked(e.node, T, Q)
  <2>1. e.node[p] = h.node[p]
    <3>1. p \in 0 .. d.num - 1 /\ p # r /\ p # new
      BY <1>1, <1>6
    <3> QED BY <1>16, <3>1
  <2>2. /\ e.node[p].next = new /\ e.node[p].prev = d.node[p].prev
        /\ e.node[new].next = d.node[p].next /\ e.node[new].prev = p
    BY <1>4, <1>14, <1>16, <2>1, SMTT(60) DEF x
  <2>3. \A q \in S \ {p} :
           /\ e.node[q].next = d.node[q].next
           /\ e.node[q].prev = IF q = d.node[p].next THEN new ELSE d.node[q].prev
    BY <1>17 DEF x
  <2>4. p \in S /\ 0 \notin S /\ new \notin S /\ new # 0
    BY <1>1, <1>6
  <2>5. R \subseteq S \X S /\ Linked(d.node, S, R)
    BY <1>2, SMTT(60)
  <2> HIDE DEF S
  <2> DEFINE f == d.node
             g == e.node
  <2>6. /\ Linked(f, S, R) /\ g[p].next = new /\ g[p].prev = f[p].prev
        /\ g[new].next = f[p].next /\ g[new].prev = p
        /\ \A q \in S \ {p} :
              /\ g[q].next = f[q].next
              /\ g[q].prev = IF q = f[p].next THEN new ELSE f[q].prev
    BY <2>2, <2>3, <2>5
  <2> HIDE DEF f, g
  <2>7. Linked(g, S \cup {new}, OrderWith(R, S, p, new))
    BY ONLY <2>4, <2>5, <2>6, SplitStaysLinked, ZenonT(60)
  <2> QED BY <2>7 DEF g
<1>19. OneTree(e, r) /\ Own(e, r) = {r} \cup T
  <2>1. r \in 0 .. e.num - 1 /\ RootInner(e.node[r]) /\ T = ToSet(e.node[r].kids)
    BY <1>6, <1>11, <1>15, <1>16
  <2>2. ASSUME NEW c \in T
        PROVE  c \in 1 .. e.num - 1 /\ c # r /\ ChildLeaf(e.node[c], r)
    <3>1. CASE c \in S
      BY <1>17, <3>1
    <3>2. CASE c = new
      BY <1>5, <1>6, <1>14, <1>15, <1>16, <3>2, SMTT(60) DEF ChildLeaf
    <3> QED BY <3>1, <3>2
  <2>3. r \notin ToSet(e.free) /\ T \cap ToSet(e.free) = {}
    <3> HIDE DEF S
    <3> QED BY <1>1, <1>5, <1>6, <1>15
  <2> HIDE DEF T, Q
  <2> QED BY ONLY <1>15, <1>18, <2>1, <2>2, <2>3, InnerTree, ZenonT(60)
<1>20. Rest(e, r) = Rest(d, r)
  <2> HIDE DEF S
  <2> QED BY <1>1, <1>5, <1>15, <1>19, SMTT(60) DEF Rest
<1>21. ASSUME NEW q \in Rest(d, r)
       PROVE  e.node[q] = d.node[q]
  <2>1. q \in 0 .. d.num - 1 /\ q # r /\ q \notin S /\ q \notin ToSet(d.free)
    <3> HIDE DEF S
    <3> QED BY <1>1 DEF Rest
  <2>2. q # new /\ q # p /\ (x # 0 => q # x)
    BY <1>3, <1>5, <2>1, SMTT(60)
  <2> QED BY <1>4, <1>16, <2>1, <2>2
<1>22. d.num <= e.num /\ e.num \in Nat /\ e.node[r].parent = d.node[r].parent
       /\ e.node[r] = Rejoined(d, r, p, old, low, high, new)
  BY <1>5, <1>11, <1>15, <1>16
<1>23. Divided(d, e, S, p, new, low, high)
  <2>1. p \in 0 .. d.num - 1 /\ p # r /\ p # new
    BY <1>1, <1>6
  <2>2. e.node[p] = h.node[p]
    BY <1>16, <2>1
  <2>3. /\ LeafIs(e.node[p], low, new, d.node[p].prev)
        /\ LeafIs(e.node[new], high, d.node[p].next, p)
    BY <1>4, <1>14, <1>16, <2>2 DEF LeafIs, x
  <2>4. \A c \in S \ {p} : LeafIs(e.node[c], d.node[c].keys, d.node[c].next,
                                  IF c = d.node[p].next THEN new ELSE d.node[c].prev)
    <3> HIDE DEF S
    <3> QED BY <1>17 DEF LeafIs, x
  <2> QED BY <1>6, <2>3, <2>4 DEF Divided
<1> QED BY <1>19, <1>20, <1>21, <1>22, <1>23 DEF Kept, ParentKept, new

\* A part of a sequence.
LEMMA PartOf ==
    ASSUME NEW S, NEW s \in Seq(S), NEW i \in Nat, NEW j \in Nat, i >= 1, i <= j, j <= Len(s),
           NEW t, t = SubSeq(s, i, j)
    PROVE  t \in Seq(S) /\ Len(t) = j - i + 1
<1>1. \A m \in i .. j : s[m] \in S
  OBVIOUS
<1> QED BY <1>1, SubSeqProperties

\* The two halves of a full leaf and one key more.
LEMMA HalvesFacts ==
    ASSUME NEW all \in Seq(Nat), Len(all) = MaxCells + 1,
           NEW low, low = SubSeq(all, 1, LeftSplitCount),
           NEW high, high = SubSeq(all, LeftSplitCount + 1, Len(all))
    PROVE  /\ low \in Seq(Nat) /\ Len(low) <= MaxCells /\ low # <<>>
           /\ high \in Seq(Nat) /\ Len(high) <= MaxCells /\ high # <<>>
<1> DEFINE c == LeftSplitCount
           l == Len(all)
<1>1. l \in Nat /\ l = MaxCells + 1
  OBVIOUS
<1>2. c \in Nat /\ c >= 1 /\ c <= MaxCells
  <2> DEFINE h == (MaxCells + 1) \div 2
  <2>1. h \in Nat /\ h >= 1 /\ h <= MaxCells
    BY Sizes
  <2>2. c = (MaxCells + 1) - h
    BY DEF LeftSplitCount
  <2> HIDE DEF h, c
  <2> QED BY <2>1, <2>2, Sizes
<1>3. low = SubSeq(all, 1, c) /\ high = SubSeq(all, c + 1, l)
  OBVIOUS
<1> HIDE DEF c
<1>4. l = Len(all) /\ all \in Seq(Nat)
  OBVIOUS
<1> HIDE DEF l
<1>5. /\ 1 \in Nat /\ 1 >= 1 /\ 1 <= c /\ c \in Nat /\ c <= Len(all)
      /\ c + 1 \in Nat /\ c + 1 >= 1 /\ c + 1 <= l /\ l <= Len(all) /\ l \in Nat
  BY <1>1, <1>2, <1>4, Sizes
<1>6. low \in Seq(Nat) /\ Len(low) = c - 1 + 1
  BY ONLY <1>3, <1>4, <1>5, PartOf, SMTT(60)
<1>7. high \in Seq(Nat) /\ Len(high) = l - (c + 1) + 1
  BY ONLY <1>3, <1>4, <1>5, PartOf, SMTT(60)
<1>8. Len(low) <= MaxCells /\ Len(low) # 0 /\ Len(high) # 0 /\ Len(high) <= MaxCells
  <2> DEFINE x == c - 1 + 1
             y == l - (c + 1) + 1
  <2>1. x = c /\ y = l - c
    BY <1>1, <1>2, Sizes
  <2>2. Len(low) = x /\ Len(high) = y
    BY <1>6, <1>7
  <2> HIDE DEF x, y
  <2>3. x <= MaxCells /\ x # 0 /\ y # 0 /\ y <= MaxCells
    BY ONLY <1>1, <1>2, <2>1, Sizes
  <2> QED BY ONLY <2>2, <2>3
<1> QED BY <1>6, <1>7, <1>8, EmptySeq

\* SplitAndInsert divides the leaf and then tells its parent.
LEMMA SplitSteps ==
    ASSUME NEW d, NEW r, NEW p, NEW k
    PROVE  SplitAndInsert(d, r, p, k) =
              LET old  == d.node[p]
                  all  == InsertAt(old.keys, Below(old.keys, k) + 1, k)
                  low  == SubSeq(all, 1, LeftSplitCount)
                  high == SubSeq(all, LeftSplitCount + 1, Len(all))
                  h    == Halved(d, p, low, high)
              IN  IF old.root THEN CreateNewRoot(h, r, NextUnused(d))
                  ELSE InternalInsert(
                         Write(h, old.parent,
                               UpdateSeparator(h.node[old.parent], MaxKeyOf(old), Last(low))),
                         old.parent, NextUnused(d))
<1> DEFINE old  == d.node[p]
           all  == InsertAt(old.keys, Below(old.keys, k) + 1, k)
           low  == SubSeq(all, 1, LeftSplitCount)
           high == SubSeq(all, LeftSplitCount + 1, Len(all))
           new  == NextUnused(d)
           d1   == Claim(d, [NewLeaf(old.parent) EXCEPT
                               !.keys = high, !.next = old.next, !.prev = p])
           d2   == [d1 EXCEPT !.node[p].keys = low, !.node[p].next = new]
           d3   == IF old.next = 0 THEN d2
                   ELSE [d2 EXCEPT !.node[old.next].prev = new]
           h    == Halved(d, p, low, high)
<1>1. SplitAndInsert(d, r, p, k) =
         IF old.root THEN CreateNewRoot(d3, r, new)
         ELSE InternalInsert(
                [d3 EXCEPT !.node[old.parent] = UpdateSeparator(@, MaxKeyOf(old), Last(low))],
                old.parent, new)
  BY Zenon DEF SplitAndInsert
<1> HIDE DEF low, high, new
<1>2. h = d3
  BY Zenon DEF Halved, Fresh, Write, WithKeys, WithNext, WithPrev, new
<1> HIDE DEF h, d3
<1>3. [h EXCEPT !.node[old.parent] = UpdateSeparator(@, MaxKeyOf(old), Last(low))]
        = Write(h, old.parent, UpdateSeparator(h.node[old.parent], MaxKeyOf(old), Last(low)))
  BY Zenon DEF Write
<1>4. SplitAndInsert(d, r, p, k) =
        IF old.root THEN CreateNewRoot(h, r, new)
        ELSE InternalInsert(
               Write(h, old.parent, UpdateSeparator(h.node[old.parent], MaxKeyOf(old), Last(low))),
               old.parent, new)
  BY <1>1, <1>2, <1>3, Zenon
<1> QED BY <1>4, Zenon DEF h, new, low, high

With(keys, k) == InsertAt(keys, Below(keys, k) + 1, k)
LowHalf(all) == SubSeq(all, 1, LeftSplitCount)
HighHalf(all) == SubSeq(all, LeftSplitCount + 1, Len(all))

\* The leaf p has been split between the halves of all.
SplitUp(d, e, r, p, all) ==
    IF p = r THEN UnderNewRoot(e, r, LowHalf(all), HighHalf(all))
    ELSE /\ Divided(d, e, ToSet(d.node[r].kids), p, NextUnused(d), LowHalf(all), HighHalf(all))
         /\ e.node[r] = Rejoined(d, r, p, MaxKeyOf(d.node[p]), LowHalf(all), HighHalf(all),
                                 NextUnused(d))

\* A leaf that is full is split.
LEMMA SplitKeeps ==
    ASSUME NEW d, NEW r, OneTree(d, r), NEW p \in LeavesBelow(d, r), NEW k \in Nat,
           Len(d.node[p].keys) >= MaxCells,
           NEW e, e = SplitAndInsert(d, r, p, k), e.ok
    PROVE  /\ Kept(d, e, r) /\ e.num \in Nat /\ e.node[r].parent = d.node[r].parent
           /\ SplitUp(d, e, r, p, With(d.node[p].keys, k))
<1> DEFINE old  == d.node[p]
           i    == Below(old.keys, k) + 1
           all  == InsertAt(old.keys, i, k)
           low  == SubSeq(all, 1, LeftSplitCount)
           high == SubSeq(all, LeftSplitCount + 1, Len(all))
           h    == Halved(d, p, low, high)
           new  == NextUnused(d)
<1>1. e = IF old.root THEN CreateNewRoot(h, r, new)
          ELSE InternalInsert(
                 Write(h, old.parent,
                       UpdateSeparator(h.node[old.parent], MaxKeyOf(old), Last(low))),
                 old.parent, new)
  BY SplitSteps, Zenon
<1>2. /\ LeafNode(old)
      /\ IsLeaf(d, r) <=> p = r
      /\ p = r => RootLeaf(old)
      /\ p # r => ChildLeaf(old, r)
  BY LeafShape DEF OneTree
<1>3. old.keys \in Seq(Nat) /\ Len(old.keys) = MaxCells
  <2> DEFINE l == Len(old.keys)
  <2>1. old.keys \in Seq(Nat) /\ l \in Nat /\ l <= MaxCells /\ l >= MaxCells
    BY <1>2 DEF LeafNode
  <2> HIDE DEF l
  <2>2. l = MaxCells
    BY <2>1, Sizes
  <2> QED BY <2>1, <2>2 DEF l
<1>4. all \in Seq(Nat) /\ Len(all) = MaxCells + 1
  <2> DEFINE s == old.keys
  <2>1. s \in Seq(Nat) /\ Len(s) = MaxCells /\ k \in Nat
    BY <1>3
  <2>2. i \in 1 .. Len(s) + 1
    <3>1. Below(s, k) \in 0 .. Len(s)
      BY <2>1, BelowRange
    <3> QED BY <2>1, <3>1, Sizes
  <2> HIDE DEF s, i
  <2>3. InsertAt(s, i, k) \in Seq(Nat) /\ Len(InsertAt(s, i, k)) = Len(s) + 1
    BY ONLY <2>1, <2>2, InsertAtFacts
  <2> QED BY <2>1, <2>3 DEF s
<1>9. all = With(d.node[p].keys, k)
  BY DEF With
<1> HIDE DEF all
<1>10. low = LowHalf(all) /\ high = HighHalf(all)
  BY DEF LowHalf, HighHalf
<1>5. /\ low \in Seq(Nat) /\ Len(low) <= MaxCells /\ low # <<>>
      /\ high \in Seq(Nat) /\ Len(high) <= MaxCells /\ high # <<>>
  <2>1. /\ low = SubSeq(all, 1, LeftSplitCount)
        /\ high = SubSeq(all, LeftSplitCount + 1, Len(all))
    OBVIOUS
  <2> HIDE DEF low, high
  <2> QED BY ONLY <1>4, <2>1, HalvesFacts
<1> HIDE DEF low, high
<1>6. CASE p = r
  <2>1. OneTree(d, r) /\ IsLeaf(d, r) /\ h = Halved(d, r, low, high)
    BY <1>2, <1>6
  <2>2. e = CreateNewRoot(h, r, NextUnused(d))
    BY <1>1, <1>2, <1>6 DEF RootLeaf
  <2> HIDE DEF h
  <2>3. /\ Kept(d, e, r) /\ e.num \in Nat /\ e.node[r].parent = d.node[r].parent
        /\ UnderNewRoot(e, r, low, high)
    BY ONLY <1>5, <2>1, <2>2, RootSplit
  <2>4. SplitUp(d, e, r, p, all)
    BY <1>6, <1>10, <2>3 DEF SplitUp
  <2> QED BY <1>9, <2>3, <2>4
<1>7. CASE p # r
  <2>1. /\ OneTree(d, r) /\ ~IsLeaf(d, r) /\ h = Halved(d, p, low, high)
        /\ p \in ToSet(d.node[r].kids)
    BY <1>2, <1>7 DEF LeavesBelow, Kids
  <2>2. ~old.root /\ old.parent = r
    BY <1>2, <1>7 DEF ChildLeaf
  <2> DEFINE mk == MaxKeyOf(old)
  <2> HIDE DEF h, mk
  <2>3. e = InternalInsert(Write(h, r, UpdateSeparator(h.node[r], mk, Last(low))),
                           r, NextUnused(d))
    BY <1>1, <2>2 DEF mk
  <2>4. e.ok
    OBVIOUS
  <2> DEFINE g == Write(h, r, UpdateSeparator(h.node[r], mk, Last(low)))
  <2>5. e = InternalInsert(g, r, NextUnused(d))
    BY <2>3
  <2>6. g = Write(h, r, UpdateSeparator(h.node[r], mk, Last(low)))
    OBVIOUS
  <2> HIDE DEF g
  <2>7. Kept(d, e, r)
    BY ONLY <1>5, <2>1, <2>4, <2>5, <2>6, InnerSplit
  <2>8. e.num \in Nat
    BY ONLY <1>5, <2>1, <2>4, <2>5, <2>6, InnerSplit
  <2>9. ParentKept(d, e, r)
    BY ONLY <1>5, <2>1, <2>4, <2>5, <2>6, InnerSplit
  <2>10. Divided(d, e, ToSet(d.node[r].kids), p, NextUnused(d), low, high)
    BY ONLY <1>5, <2>1, <2>4, <2>5, <2>6, InnerSplit
  <2>11. e.node[r] = Rejoined(d, r, p, mk, low, high, NextUnused(d))
    BY ONLY <1>5, <2>1, <2>4, <2>5, <2>6, InnerSplit
  <2>12. SplitUp(d, e, r, p, all)
    BY <1>7, <1>10, <2>10, <2>11 DEF SplitUp, mk
  <2> QED BY <1>9, <2>7, <2>8, <2>9, <2>12 DEF ParentKept
<1> QED BY <1>6, <1>7

\* The leaf p has got the key k, and is split if it was full.
KeyPut(d, e, r, p, k) ==
    IF Len(d.node[p].keys) >= MaxCells THEN SplitUp(d, e, r, p, With(d.node[p].keys, k))
    ELSE OnlyKeys(d, e, p, With(d.node[p].keys, k))

LEMMA KeyInserted ==
    ASSUME NEW d, NEW r, OneTree(d, r), NEW k \in Nat, NEW e, e = Inserted(d, r, k), e.ok
    PROVE  /\ Kept(d, e, r) /\ e.num \in Nat /\ e.node[r].parent = d.node[r].parent
           /\ KeyPut(d, e, r, LeafFor(d, r, k), k)
<1> DEFINE p == LeafFor(d, r, k)
<1>1. p \in LeavesBelow(d, r) /\ Tree(d, r) /\ d.num \in Nat /\ r \in 0 .. d.num - 1
  BY LeafForIsLeaf DEF OneTree, Tree, File
<1>2. e = LeafInsert(d, r, p, k)
  BY DEF Inserted
<1> HIDE DEF p
<1>3. CASE Len(d.node[p].keys) >= MaxCells
  <2>1. e = SplitAndInsert(d, r, p, k)
    BY <1>2, <1>3 DEF LeafInsert
  <2>2. /\ OneTree(d, r) /\ p \in LeavesBelow(d, r) /\ k \in Nat
        /\ Len(d.node[p].keys) >= MaxCells /\ e.ok
    BY <1>1, <1>3
  <2>3. /\ Kept(d, e, r) /\ e.num \in Nat /\ e.node[r].parent = d.node[r].parent
        /\ SplitUp(d, e, r, p, With(d.node[p].keys, k))
    BY ONLY <2>1, <2>2, SplitKeeps
  <2>4. KeyPut(d, e, r, p, k)
    BY <1>3, <2>3 DEF KeyPut
  <2> QED BY <2>3, <2>4 DEF p
<1>4. CASE ~(Len(d.node[p].keys) >= MaxCells)
  <2> DEFINE s  == d.node[p].keys
             i  == Below(s, k) + 1
             ks == InsertAt(s, i, k)
  <2>1. e = Rekeyed(d, p, ks)
    BY <1>2, <1>4, Zenon DEF LeafInsert, Rekeyed
  <2>2. s \in Seq(Nat)
    BY <1>1, LeafShape DEF LeafNode
  <2>3. i \in 1 .. Len(s) + 1
    <3>1. Below(s, k) \in 0 .. Len(s) /\ Len(s) \in Nat
      BY <2>2, BelowRange
    <3> QED BY <3>1, SMTT(60)
  <2>4. ~(Len(s) >= MaxCells)
    BY <1>4
  <2> HIDE DEF s, i
  <2>5. k \in Nat
    OBVIOUS
  <2>6. ks \in Seq(Nat) /\ Len(ks) = Len(s) + 1
    BY ONLY <2>2, <2>3, <2>5, InsertAtFacts
  <2>7. Len(ks) <= MaxCells /\ ks # <<>>
    <3> DEFINE l == Len(s)
    <3>1. l \in Nat /\ Len(ks) = l + 1 /\ ~(l >= MaxCells)
      BY <2>2, <2>4, <2>6
    <3> HIDE DEF l, ks
    <3>2. Len(ks) <= MaxCells /\ Len(ks) # 0
      BY ONLY <3>1, Sizes
    <3> QED BY <3>2, EmptySeq
  <2>10. ks = With(d.node[p].keys, k)
    BY DEF With, s, i
  <2> HIDE DEF ks
  <2>8. OneTree(d, r) /\ p \in LeavesBelow(d, r) /\ (p # r => ks # <<>>)
    BY <1>1, <2>7
  <2>9. /\ Kept(d, e, r) /\ e.num = d.num
        /\ e.node[p].parent = d.node[p].parent
        /\ \A q \in 0 .. d.num - 1 : q # p => e.node[q] = d.node[q]
    BY ONLY <2>1, <2>6, <2>7, <2>8, LeafRewritten
  <2>11. KeyPut(d, e, r, p, k)
    <3>1. Db(d) /\ p \in 0 .. d.num - 1 /\ LeafNode(d.node[p])
      BY <1>1, FileIsDb, LeafShape DEF OneTree
    <3>2. LeafNode(e.node[p]) /\ LeafIs(e.node[p], ks, d.node[p].next, d.node[p].prev)
      <4>1. /\ LeafNode(e.node[p]) /\ e.node[p].keys = ks
            /\ e.node[p].next = d.node[p].next /\ e.node[p].prev = d.node[p].prev
        BY ONLY <2>1, <2>6, <2>7, <3>1, PutKeys, SMTT(60)
      <4> QED BY <4>1 DEF LeafIs
    <3> QED BY <1>4, <2>9, <2>10, <3>2 DEF KeyPut, OnlyKeys
  <2> QED BY <1>1, <2>9, <2>11 DEF p
<1> QED BY <1>3, <1>4

----------------------------------------------------------------------------
(* Two trees in one file.                                                  *)

\* A tree whose pages are as they were, and not free, is as it was.
LEMMA SameTree ==
    ASSUME NEW d, NEW s, OneTree(d, s), NEW e, File(e), d.num <= e.num,
           \A q \in Own(d, s) : e.node[q] = d.node[q],
           Own(d, s) \cap ToSet(e.free) = {}
    PROVE  OneTree(e, s) /\ Own(e, s) = Own(d, s)
<1>1. d.num \in Nat /\ e.num \in Nat
  BY DEF OneTree, File
<1>2. s \in 0 .. e.num - 1 /\ s \in Own(d, s) /\ e.node[s] = d.node[s]
  BY <1>1 DEF OneTree, Tree, Own
<1>3. IsLeaf(e, s) <=> IsLeaf(d, s)
  BY <1>2 DEF IsLeaf
<1>4. CASE IsLeaf(d, s)
  <2>1. RootLeaf(e.node[s]) /\ Own(e, s) = Own(d, s)
    BY <1>2, <1>3, <1>4 DEF OneTree, Tree, Own, Kids
  <2> QED BY <1>1, <1>2, <1>3, <1>4, <2>1 DEF OneTree, Tree
<1>5. CASE ~IsLeaf(d, s)
  <2> DEFINE S == ToSet(d.node[s].kids)
  <2>1. S = ToSet(d.node[s].kids)
    OBVIOUS
  <2> HIDE DEF S
  <2>2. /\ RootInner(d.node[s]) /\ Own(d, s) = {s} \cup S
        /\ \A c \in S : c \in 1 .. d.num - 1 /\ c # s /\ ChildLeaf(d.node[c], s)
        /\ \E R : Linked(d.node, S, R)
    BY <1>5, <2>1, InnerParts
  <2>3. PICK R : Linked(d.node, S, R)
    BY <2>2
  <2>4. \A c \in S : e.node[c] = d.node[c]
    BY <2>2
  <2>5. Linked(e.node, S, R)
    BY <2>3, <2>4, LinkedSame
  <2>6. \A c \in S : c \in 1 .. e.num - 1 /\ c # s /\ ChildLeaf(e.node[c], s)
    BY <1>1, <2>2, <2>4
  <2>7. s \notin ToSet(e.free) /\ S \cap ToSet(e.free) = {} /\ File(e)
    BY <2>2
  <2>8. RootInner(e.node[s]) /\ S = ToSet(e.node[s].kids)
    BY <1>2, <2>1, <2>2
  <2>9. OneTree(e, s) /\ Own(e, s) = {s} \cup S
    BY ONLY <1>2, <2>5, <2>6, <2>7, <2>8, InnerTree
  <2> QED BY <2>2, <2>9
<1> QED BY <1>4, <1>5

\* A tree that lies outside what an operation on another one may touch.
LEMMA OtherTree ==
    ASSUME NEW d, NEW r, NEW e, Kept(d, e, r), NEW s, OneTree(d, s), Rest(d, r) = Own(d, s)
    PROVE  OneTree(e, s) /\ Rest(e, r) = Own(e, s)
<1>1. /\ File(e) /\ Rest(e, r) = Own(d, s) /\ d.num <= e.num
      /\ \A q \in Own(d, s) : e.node[q] = d.node[q]
      /\ Own(d, s) \cap ToSet(e.free) = {} /\ OneTree(d, s)
  BY DEF Kept, OneTree, Rest
<1>2. OneTree(e, s) /\ Own(e, s) = Own(d, s)
  BY ONLY <1>1, SameTree
<1> QED BY <1>1, <1>2

LEMMA OwnRange ==
    ASSUME NEW d, NEW r, OneTree(d, r)
    PROVE  Own(d, r) \subseteq 0 .. d.num - 1
<1>1. r \in 0 .. d.num - 1 /\ d.num \in Nat
  BY DEF OneTree, Tree, File
<1>2. CASE IsLeaf(d, r)
  BY <1>1, <1>2 DEF Own, Kids
<1>3. CASE ~IsLeaf(d, r)
  <2> DEFINE S == ToSet(d.node[r].kids)
  <2>1. S = ToSet(d.node[r].kids)
    OBVIOUS
  <2> HIDE DEF S
  <2>2. Own(d, r) = {r} \cup S /\ \A c \in S : c \in 1 .. d.num - 1
    BY <1>3, <2>1, InnerParts
  <2> QED BY <1>1, <2>2
<1> QED BY <1>2, <1>3

\* Where two trees share the pages that are not free, each is the rest of the
\* other.
LEMMA RestIsMutual ==
    ASSUME NEW d, NEW r, OneTree(d, r), NEW s, OneTree(d, s), Rest(d, r) = Own(d, s)
    PROVE  Rest(d, s) = Own(d, r)
<1>1. Own(d, r) \subseteq 0 .. d.num - 1
  BY OwnRange
<1> QED BY <1>1 DEF Rest, OneTree

LEMMA UsersChanged ==
    ASSUME NEW d, NEW root, AllPages(d, root), NEW e, Kept(d, e, root[Users]),
           e.num <= MaxPages
    PROVE  AllPages(e, root)
<1>1. OneTree(e, root[Users]) /\ Rest(e, root[Users]) = Rest(d, root[Users])
  BY DEF Kept
<1>2. CASE root[Other] = None
  BY <1>1, <1>2 DEF AllPages
<1>3. CASE root[Other] # None
  <2>1. OneTree(d, root[Other]) /\ Rest(d, root[Users]) = Own(d, root[Other])
    BY <1>3 DEF AllPages
  <2>2. OneTree(e, root[Other]) /\ Rest(e, root[Users]) = Own(e, root[Other])
    BY <2>1, OtherTree
  <2> QED BY <1>1, <1>3, <2>2 DEF AllPages
<1> QED BY <1>2, <1>3

LEMMA OtherChanged ==
    ASSUME NEW d, NEW root, AllPages(d, root), root[Other] # None,
           NEW e, Kept(d, e, root[Other]), e.num <= MaxPages
    PROVE  AllPages(e, root)
<1> DEFINE r == root[Users]
           s == root[Other]
<1>1. OneTree(d, r) /\ OneTree(d, s) /\ Rest(d, r) = Own(d, s)
  BY DEF AllPages
<1>2. Rest(d, s) = Own(d, r)
  BY <1>1, RestIsMutual
<1>3. OneTree(e, r) /\ Rest(e, s) = Own(e, r)
  BY <1>1, <1>2, OtherTree
<1>4. OneTree(e, s)
  BY DEF Kept
<1>5. Rest(e, r) = Own(e, s)
  BY <1>3, <1>4, RestIsMutual
<1> QED BY <1>3, <1>4, <1>5 DEF AllPages

\* The trees that the catalog roots lie apart.
LEMMA RootsApart ==
    ASSUME NEW d, NEW root, AllPages(d, root), root[Other] # None
    PROVE  root[Users] \in Rest(d, root[Other])
<1>1. /\ OneTree(d, root[Users]) /\ OneTree(d, root[Other])
      /\ Rest(d, root[Users]) = Own(d, root[Other])
  BY DEF AllPages
<1>2. Rest(d, root[Other]) = Own(d, root[Users])
  BY <1>1, RestIsMutual
<1> QED BY <1>2 DEF Own

\* Writing the version into the root page of the first table changes no tree.
LEMMA VersionedKeeps ==
    ASSUME NEW d, OneTree(d, 0), NEW v, NEW e, e = Versioned(d, v)
    PROVE  Kept(d, e, 0) /\ e.num = d.num /\ e.node[0].parent = v
<1> DEFINE n == d.node[0]
           m == WithParent(n, v)
<1>1. e = Write(d, 0, m)
  BY Zenon DEF Versioned, Write, WithParent
<1>2. /\ File(d) /\ 0 \in 0 .. d.num - 1 /\ d.num \in Nat /\ 0 \notin ToSet(d.free)
      /\ Own(d, 0) \cap ToSet(d.free) = {} /\ 0 \in Own(d, 0)
  BY DEF OneTree, Tree, File, Own
<1> HIDE DEF m
<1>3. Overwritten(d, e, 0, m)
  BY ONLY <1>1, <1>2, PutFileOver
<1>4. /\ File(e) /\ e.num = d.num /\ e.free = d.free
      /\ \A q \in 0 .. d.num - 1 : e.node[q] = IF q = 0 THEN m ELSE d.node[q]
  BY <1>3 DEF Overwritten
<1>5. e.node[0] = m
  BY <1>2, <1>4
<1>6. CASE IsLeaf(d, 0)
  <2>1. RootLeaf(n) /\ Own(d, 0) = {0}
    BY <1>6 DEF OneTree, Tree, Own, Kids
  <2> HIDE DEF n
  <2>2. LeafNode(n) /\ m = WithParent(n, v)
    BY <2>1 DEF RootLeaf, m
  <2>3. /\ LeafNode(m) /\ m.root = n.root /\ m.parent = v
        /\ m.next = n.next /\ m.prev = n.prev
    BY ONLY <2>2, WithParentFacts
  <2>4. RootLeaf(e.node[0])
    BY <1>5, <2>1, <2>3 DEF RootLeaf
  <2>5. OneTree(e, 0) /\ Own(e, 0) = {0}
    BY <1>2, <1>4, <2>4, LeafTree
  <2>6. Rest(e, 0) = Rest(d, 0)
    BY <1>4, <2>1, <2>5 DEF Rest
  <2>7. \A q \in Rest(d, 0) : e.node[q] = d.node[q]
    BY <1>2, <1>4 DEF Rest
  <2> QED BY <1>2, <1>4, <1>5, <2>3, <2>5, <2>6, <2>7 DEF Kept
<1>7. CASE ~IsLeaf(d, 0)
  <2> DEFINE S == ToSet(d.node[0].kids)
  <2>1. S = ToSet(d.node[0].kids)
    OBVIOUS
  <2> HIDE DEF S
  <2>2. /\ RootInner(n) /\ Own(d, 0) = {0} \cup S
        /\ \A c \in S : c \in 1 .. d.num - 1 /\ c # 0 /\ ChildLeaf(d.node[c], 0)
        /\ \E R : Linked(d.node, S, R)
        /\ S \cap ToSet(d.free) = {}
    BY <1>7, <2>1, InnerParts
  <2>3. PICK R : Linked(d.node, S, R)
    BY <2>2
  <2>4. n.kids = d.node[0].kids
    OBVIOUS
  <2> HIDE DEF n
  <2>5. RootInner(m) /\ m.parent = v /\ m.kids = n.kids
    <3>1. m = InnerRec(n.root, v, n.keys, n.kids)
      <4>1. n = InnerRec(n.root, n.parent, n.keys, n.kids)
        BY <2>2 DEF RootInner
      <4> QED BY ONLY <4>1 DEF m, WithParent, InnerRec
    <3>2. /\ m.root = n.root /\ m.parent = v /\ m.keys = n.keys /\ m.kids = n.kids
          /\ m = InnerRec(m.root, m.parent, m.keys, m.kids)
      BY ONLY <3>1 DEF InnerRec
    <3> QED BY <2>2, <3>2 DEF RootInner
  <2>6. \A c \in S : e.node[c] = d.node[c]
    BY <1>2, <1>4, <2>2
  <2>7. Linked(e.node, S, R)
    BY <2>3, <2>6, LinkedSame
  <2>8. /\ File(e) /\ 0 \in 0 .. e.num - 1 /\ RootInner(e.node[0])
        /\ S = ToSet(e.node[0].kids)
        /\ \A c \in S : c \in 1 .. e.num - 1 /\ c # 0 /\ ChildLeaf(e.node[c], 0)
        /\ 0 \notin ToSet(e.free) /\ S \cap ToSet(e.free) = {}
    BY <1>2, <1>4, <1>5, <2>1, <2>2, <2>4, <2>5, <2>6
  <2>9. OneTree(e, 0) /\ Own(e, 0) = {0} \cup S
    BY ONLY <2>7, <2>8, InnerTree
  <2>10. Rest(e, 0) = Rest(d, 0)
    BY <1>4, <2>2, <2>9 DEF Rest
  <2>11. \A q \in Rest(d, 0) : e.node[q] = d.node[q]
    BY <1>2, <1>4 DEF Rest
  <2> QED BY <1>2, <1>4, <1>5, <2>5, <2>9, <2>10, <2>11 DEF Kept
<1> QED BY <1>6, <1>7

LEMMA EmptyRootFacts == RootLeaf(EmptyRoot) /\ EmptyRoot.parent = 0
<1>1. PICK t : t = TRUE
  BY Zenon
<1>2. PICK f : f = FALSE
  BY Zenon
<1>3. NewLeaf(0) = LeafRec(f, 0, <<>>, 0, 0)
  BY <1>2, Zenon DEF NewLeaf, LeafRec
<1>4. EmptyRoot = WithRoot(NewLeaf(0), t)
  BY <1>1, Zenon DEF EmptyRoot, WithRoot
<1>5. EmptyRoot = LeafRec(t, 0, <<>>, 0, 0)
  BY <1>3, <1>4, LeafWith
<1> DEFINE m == EmptyRoot
           z == <<>>
<1>6. z \in Seq(Nat) /\ Len(z) <= MaxCells
  BY Sizes, EmptySeq
<1>7. m = LeafRec(t, 0, z, 0, 0)
  BY <1>5
<1> HIDE DEF m, z
<1>8. LeafNode(m) /\ m.root = t /\ m.parent = 0 /\ m.next = 0 /\ m.prev = 0
  BY ONLY <1>6, <1>7, LeafFields
<1> QED BY <1>1, <1>8 DEF RootLeaf, m

\* A file of one page, the root of an empty table.
NewFile == DbRec([q \in {0} |-> EmptyRoot], <<>>, 1, TRUE)

LEMMA NewFileFacts ==
    ASSUME NEW root, root[Users] = 0, root[Other] = None
    PROVE  AllPages(NewFile, root)
<1>1. PICK t : t = TRUE
  BY Zenon
<1> DEFINE f == [q \in {0} |-> EmptyRoot]
           z == <<>>
           e == NewFile
<1>3. e = DbRec(f, z, 1, t)
  BY <1>1, Zenon DEF NewFile
<1>4. f[0] = EmptyRoot /\ f = [q \in 0 .. 1 - 1 |-> f[q]]
  OBVIOUS
<1>5. z \in Seq(Nat) /\ ToSet(z) = {} /\ IsInjective(z)
  BY EmptySeq DEF ToSet, IsInjective
<1> HIDE DEF e, f, z
<1>6. /\ e = DbRec(e.node, e.free, e.num, e.ok)
      /\ e.node = f /\ e.free = z /\ e.num = 1 /\ e.ok = t
  BY <1>3 DEF DbRec
<1>7. File(e)
  BY <1>1, <1>4, <1>5, <1>6 DEF File
<1>8. 0 \in 0 .. e.num - 1 /\ RootLeaf(e.node[0]) /\ 0 \notin ToSet(e.free)
  BY <1>4, <1>5, <1>6, EmptyRootFacts
<1>9. OneTree(e, 0) /\ Own(e, 0) = {0}
  BY <1>7, <1>8, LeafTree
<1>10. Rest(e, 0) = {}
  BY <1>6, <1>9 DEF Rest
<1>11. e.num <= MaxPages
  BY <1>6, BTreeAssumption
<1> QED BY <1>9, <1>10, <1>11 DEF AllPages, e

LEMMA TruncatedFile ==
    ASSUME NEW d, File(d)
    PROVE  Truncated(d) = NewFile
<1>1. PICK t : t = TRUE
  BY Zenon
<1> DEFINE n == [q \in {0} |-> EmptyRoot]
           z == <<>>
<1>2. d = DbRec(d.node, d.free, d.num, d.ok) /\ d.ok = t
  BY <1>1 DEF File
<1>3. Truncated(d) = [d EXCEPT !.free = z, !.num = 1, !.node = n]
  BY Zenon DEF Truncated, EmptyRoot
<1> HIDE DEF n, z
<1>4. [d EXCEPT !.free = z, !.num = 1, !.node = n] = DbRec(n, z, 1, t)
  <2> DEFINE a == [d EXCEPT !.free = z]
             b == [a EXCEPT !.num = 1]
  <2>1. a = DbRec(d.node, z, d.num, t)
    BY ONLY <1>2 DEF DbRec
  <2>2. [d EXCEPT !.free = z, !.num = 1, !.node = n] = [b EXCEPT !.node = n]
    BY Zenon
  <2>3. b = [a EXCEPT !.num = 1]
    OBVIOUS
  <2> HIDE DEF a, b
  <2>4. b = DbRec(d.node, z, 1, t)
    BY ONLY <2>1, <2>3 DEF DbRec
  <2>5. [b EXCEPT !.node = n] = DbRec(n, z, 1, t)
    BY ONLY <2>4 DEF DbRec
  <2> QED BY <2>2, <2>5
<1>5. DbRec(n, z, 1, t) = NewFile
  BY <1>1, Zenon DEF NewFile, n, z
<1> QED BY <1>3, <1>4, <1>5

\* CREATE TABLE puts a second root beside the first tree.
LEMMA TableCreated ==
    ASSUME NEW d, NEW root, AllPages(d, root), root[Users] = 0, root[Other] = None,
           NEW e, e = Claim(d, EmptyRoot), e.num <= MaxPages,
           NEW new, new[Users] = 0, new[Other] = NextUnused(d)
    PROVE  AllPages(e, new) /\ new[Other] # None /\ e.node[0] = d.node[0]
<1> DEFINE p == NextUnused(d)
<1>1. /\ File(d) /\ OneTree(d, 0) /\ Rest(d, 0) = {} /\ d.num \in Nat
      /\ Own(d, 0) \cap ToSet(d.free) = {} /\ 0 \in Own(d, 0) /\ 0 \in 0 .. d.num - 1
  BY DEF AllPages, OneTree, Tree, File, Own
<1>2. p = NextUnused(d)
  OBVIOUS
<1> HIDE DEF p
<1>3. Grown(d, e, p)
  BY <1>1, <1>2, ClaimFacts
<1>4. \A q \in 0 .. e.num - 1 : e.node[q] = IF q = p THEN EmptyRoot ELSE d.node[q]
  BY <1>1, <1>2, ClaimFacts
<1>5. /\ File(e) /\ e.num \in Nat /\ d.num <= e.num
      /\ p \in 1 .. e.num - 1 /\ p \notin ToSet(e.free)
      /\ ToSet(e.free) = ToSet(d.free) \ {p}
      /\ 0 .. e.num - 1 = (0 .. d.num - 1) \cup {p}
      /\ p \in ToSet(d.free) \/ p \notin 0 .. d.num - 1
  BY <1>3 DEF Grown
<1>6. Own(d, 0) \subseteq 0 .. d.num - 1 /\ p \notin Own(d, 0)
  BY <1>1, <1>5, OwnRange
<1>7. \A q \in Own(d, 0) : e.node[q] = d.node[q]
  BY <1>4, <1>5, <1>6
<1>8. OneTree(e, 0) /\ Own(e, 0) = Own(d, 0)
  <2>1. /\ File(d) /\ OneTree(d, 0) /\ File(e) /\ d.num <= e.num
        /\ Own(d, 0) \cap ToSet(e.free) = {}
    BY <1>1, <1>5
  <2> QED BY ONLY <1>7, <2>1, SameTree
<1>9. OneTree(e, p) /\ Own(e, p) = {p}
  <2>1. p \in 0 .. e.num - 1 /\ RootLeaf(e.node[p]) /\ p \notin ToSet(e.free)
    BY <1>4, <1>5, EmptyRootFacts
  <2> QED BY <1>5, <2>1, LeafTree
<1>10. Rest(e, 0) = {p}
  <2>1. 0 .. d.num - 1 \subseteq Own(d, 0) \cup ToSet(d.free)
    BY <1>1 DEF Rest
  <2> QED BY <1>5, <1>6, <1>8, <2>1 DEF Rest
<1>11. p # None
  BY <1>5, BTreeAssumption DEF None
<1>12. e.node[0] = d.node[0]
  BY <1>1, <1>7
<1> QED BY <1>2, <1>8, <1>9, <1>10, <1>11, <1>12 DEF AllPages

\* One tree changes, within the bound.
LEMMA TreeChanged ==
    ASSUME NEW d, NEW root, AllPages(d, root), NEW t \in Table, root[t] # None,
           NEW e, Kept(d, e, root[t]), e.num <= MaxPages
    PROVE  AllPages(e, root)
BY UsersChanged, OtherChanged DEF Table

\* The tree of a table.
LEMMA RootedTree ==
    ASSUME NEW d, NEW root, AllPages(d, root), NEW t \in Table, root[t] # None
    PROVE  OneTree(d, root[t]) /\ d.ok = TRUE /\ d.num <= MaxPages
BY DEF AllPages, OneTree, File, Table

----------------------------------------------------------------------------
(* The invariant.                                                          *)

LEMMA CommitFacts ==
    ASSUME NEW d, NEW held, NEW root, AllPages(d, root), Commit(d, held)
    PROVE  db' = d /\ committed'.db = d /\ db'.ok = TRUE
BY DEF Commit, AllPages, OneTree, File

LEMMA InitPages == Init => PageInv
<1> SUFFICES ASSUME Init PROVE PageInv
  OBVIOUS
<1>1. db = NewFile
  BY Zenon DEF Init, NewFile, DbRec
<1>2. /\ committed.db = db /\ running = "nothing" /\ todo = <<>> /\ misrouted = {}
      /\ rootOf = [t \in Table |-> IF t = Users THEN 0 ELSE None]
  BY DEF Init
<1>3. rootOf = [t \in Table |-> rootOf[t]] /\ rootOf[Users] = 0 /\ rootOf[Other] = None
  BY <1>2, BTreeAssumption DEF Table
<1>4. AllPages(db, rootOf)
  BY <1>1, <1>3, NewFileFacts
<1>5. db.ok = TRUE
  BY <1>4 DEF AllPages, OneTree, File
<1>6. todo \in Seq(Nat)
  BY <1>2, EmptySeq
<1> QED BY <1>2, <1>3, <1>4, <1>5, <1>6 DEF PageInv

LEMMA ExitKeeps ==
    ASSUME PageInv, Exit, UNCHANGED rootOf
    PROVE  PageInv'
<1> DEFINE c == committed.db
<1>1. PICK f : f = FALSE
  BY Zenon
<1>2. /\ db' = Stopped(c) /\ committed' = committed /\ running' = "nothing"
      /\ todo' = <<>> /\ misrouted' = misrouted /\ rootOf' = rootOf
  BY Zenon DEF Exit, Stopped
<1>3. c = DbRec(c.node, c.free, c.num, c.ok)
  BY DEF PageInv, AllPages, OneTree, File
<1>4. Stopped(c) = [c EXCEPT !.ok = f]
  BY <1>1, Zenon DEF Stopped
<1> HIDE DEF c
<1>5. [c EXCEPT !.ok = f].ok = f
  BY ONLY <1>3 DEF DbRec
<1>6. db'.ok = FALSE
  BY <1>1, <1>2, <1>4, <1>5
<1>7. todo' \in Seq(Nat)
  BY <1>2, EmptySeq
<1> QED BY <1>2, <1>6, <1>7 DEF PageInv, c

\* A step that commits a file in order, and ends or goes on.
LEMMA CommitKeeps ==
    ASSUME PageInv, NEW d, NEW held, Commit(d, held), AllPages(d, rootOf'),
           rootOf' = [t \in Table |-> rootOf'[t]], rootOf'[Users] = 0,
           running' \in {"nothing", "statements"},
           running' = "statements" => rootOf'[Other] # None,
           todo' = todo, misrouted' \subseteq Table
    PROVE  PageInv'
<1>1. db' = d /\ committed'.db = d /\ db'.ok = TRUE
  BY CommitFacts
<1>2. /\ AllPages(committed'.db, rootOf') /\ db'.ok \in BOOLEAN /\ db'.ok
      /\ AllPages(db', rootOf') /\ db' = committed'.db
  BY <1>1
<1>3. todo' \in Seq(Nat)
  BY DEF PageInv
<1> QED BY <1>2, <1>3 DEF PageInv

LEMMA InsertKeeps ==
    ASSUME PageInv, NEW t \in Table, NEW k \in KeyOf[t], Insert(t, k)
    PROVE  PageInv'
<1> DEFINE d == Inserted(db, rootOf[t], k)
<1>1. /\ db.ok /\ running = "nothing" /\ rootOf[t] # None /\ rootOf' = rootOf
      /\ d.num <= MaxPages
      /\ IF d.ok THEN /\ Commit(d, [rows EXCEPT ![t] = @ \cup {k}])
                      /\ misrouted' \in {misrouted, misrouted \cup {t}}
                      /\ UNCHANGED loop
         ELSE Exit
  BY DEF Insert, Exists, Ready, Bounded
<1> HIDE DEF d
<1>2. AllPages(db, rootOf)
  BY <1>1 DEF PageInv
<1>3. CASE d.ok
  <2>1. OneTree(db, rootOf[t]) /\ k \in Nat
    BY <1>1, <1>2, RootedTree, BTreeAssumption DEF Table
  <2>2. Kept(db, d, rootOf[t])
    BY <1>3, <2>1, KeyInserted DEF d
  <2>3. AllPages(d, rootOf)
    BY <1>1, <1>2, <2>2, TreeChanged
  <2>4. misrouted' \subseteq Table
    BY <1>1, <1>3 DEF PageInv
  <2> QED BY <1>1, <1>3, <2>3, <2>4, CommitKeeps DEF PageInv, loop
<1>4. CASE ~d.ok
  BY <1>1, <1>4, ExitKeeps
<1> QED BY <1>3, <1>4

LEMMA DeletedKeeps ==
    ASSUME AllPages(db, rootOf), NEW t \in Table, rootOf[t] # None,
           NEW k, Holds(db, rootOf[t], k), NEW d, d = Deleted(db, rootOf[t], k)
    PROVE  AllPages(d, rootOf)
<1>1. OneTree(db, rootOf[t]) /\ db.num <= MaxPages
  BY RootedTree
<1>2. Kept(db, d, rootOf[t]) /\ d.num = db.num
  BY <1>1, KeyDeleted
<1> QED BY <1>1, <1>2, TreeChanged

LEMMA DeleteKeeps ==
    ASSUME PageInv, NEW t \in Table, NEW k \in KeyOf[t], Delete(t, k)
    PROVE  PageInv'
<1> DEFINE d == Deleted(db, rootOf[t], k)
<1>1. /\ db.ok /\ running = "nothing" /\ rootOf[t] # None /\ rootOf' = rootOf
      /\ Holds(db, rootOf[t], k)
      /\ IF d.ok THEN Commit(d, Without(t, k)) /\ UNCHANGED <<loop, misrouted>> ELSE Exit
  BY DEF Delete, Exists, Ready
<1> HIDE DEF d
<1>2. CASE d.ok
  <2>1. AllPages(d, rootOf)
    BY <1>1, DeletedKeeps DEF PageInv, d
  <2> QED BY <1>1, <1>2, <2>1, CommitKeeps DEF PageInv, loop
<1>3. CASE ~d.ok
  BY <1>1, <1>3, ExitKeeps
<1> QED BY <1>2, <1>3

LEMMA DeleteStatementKeeps ==
    ASSUME PageInv, DeleteStatement
    PROVE  PageInv'
<1> DEFINE k == FirstKeys(db, rootOf[Users])[1]
           d == Deleted(db, rootOf[Users], k)
<1>1. /\ running = "statements" /\ rootOf' = rootOf
      /\ Holds(db, rootOf[Users], k)
      /\ IF d.ok THEN Commit(d, Without(Users, k)) /\ UNCHANGED <<loop, misrouted>> ELSE Exit
  BY DEF DeleteStatement
<1> HIDE DEF d
<1>2. db.ok /\ rootOf[Users] # None /\ rootOf[Other] # None
  BY <1>1, BTreeAssumption DEF PageInv, None
<1>3. CASE d.ok
  <2>1. AllPages(d, rootOf)
    BY <1>1, <1>2, DeletedKeeps DEF PageInv, d, Table
  <2> QED BY <1>1, <1>2, <1>3, <2>1, CommitKeeps DEF PageInv, loop
<1>4. CASE ~d.ok
  BY <1>1, <1>4, ExitKeeps
<1> QED BY <1>3, <1>4

LEMMA DeleteRecordKeeps ==
    ASSUME PageInv, DeleteRecord
    PROVE  PageInv'
<1> DEFINE r == rootOf[Other]
           p == LeafFor(db, r, 0)
           d == DeleteCell(db, r, p, 1)
<1>1. /\ running = "records" /\ rootOf' = rootOf /\ db.node[p].keys # <<>>
      /\ IF d.ok THEN db' = d /\ UNCHANGED <<committed, loop, misrouted>> ELSE Exit
  BY DEF DeleteRecord, FirstKeys
<1>2. db.ok /\ r # None /\ AllPages(db, rootOf)
  BY <1>1 DEF PageInv
<1>3. OneTree(db, r) /\ db.num <= MaxPages
  BY <1>2, RootedTree DEF Table
<1>4. p \in LeavesBelow(db, r) /\ 1 \in 1 .. Len(db.node[p].keys)
  <2>1. p \in LeavesBelow(db, r)
    BY <1>3, LeafForIsLeaf DEF OneTree
  <2>2. db.node[p].keys \in Seq(Nat)
    BY <1>3, <2>1, LeafShape DEF OneTree, LeafNode
  <2>3. Len(db.node[p].keys) \in Nat \ {0}
    BY <1>1, <2>2, EmptySeq
  <2> QED BY <2>1, <2>3
<1> HIDE DEF d, p
<1>5. Kept(db, d, r) /\ d.num = db.num
  BY <1>3, <1>4, CellDeleted DEF d
<1>6. AllPages(d, rootOf) /\ d.ok = TRUE
  <2>1. AllPages(d, rootOf)
    BY <1>2, <1>3, <1>5, TreeChanged DEF Table
  <2> QED BY <2>1 DEF AllPages, OneTree, File
<1> QED BY <1>1, <1>2, <1>6 DEF PageInv, loop

LEMMA VersionedPages ==
    ASSUME NEW d, AllPages(d, rootOf), rootOf[Users] = 0, NEW v, NEW e, e = Versioned(d, v)
    PROVE  AllPages(e, rootOf) /\ e.node[0].parent = v
<1>1. OneTree(d, 0) /\ d.num <= MaxPages
  BY DEF AllPages
<1>2. Kept(d, e, 0) /\ e.num = d.num /\ e.node[0].parent = v
  BY <1>1, VersionedKeeps
<1> QED BY <1>1, <1>2, UsersChanged

LEMMA SetUserVersionKeeps ==
    ASSUME PageInv, NEW v, SetUserVersion(v)
    PROVE  PageInv'
<1> DEFINE d == Versioned(db, v)
<1>1. /\ db.ok /\ running = "nothing" /\ rootOf' = rootOf
      /\ Commit(d, rows) /\ UNCHANGED <<loop, misrouted>>
  BY DEF SetUserVersion, Ready
<1>2. AllPages(d, rootOf)
  BY <1>1, VersionedPages DEF PageInv
<1> HIDE DEF d
<1> QED BY <1>1, <1>2, CommitKeeps DEF PageInv, loop

LEMMA TruncatedPages ==
    ASSUME PageInv, db.ok, rootOf[Other] = None
    PROVE  AllPages(Truncated(db), rootOf)
BY TruncatedFile, NewFileFacts DEF PageInv, AllPages, OneTree

LEMMA TruncateKeeps ==
    ASSUME PageInv, Truncate
    PROVE  PageInv'
<1> DEFINE d == Truncated(db)
<1>1. /\ db.ok /\ running = "nothing" /\ rootOf' = rootOf /\ rootOf[Other] = None
      /\ Commit(d, [rows EXCEPT ![Users] = {}]) /\ misrouted' = misrouted \ {Users}
      /\ UNCHANGED loop
  BY DEF Truncate, Emptied, Exists, Ready, OnlyUsers
<1>2. AllPages(d, rootOf)
  BY <1>1, TruncatedPages
<1> HIDE DEF d
<1>3. misrouted' \subseteq Table
  BY <1>1 DEF PageInv
<1> QED BY <1>1, <1>2, <1>3, CommitKeeps DEF PageInv, loop

LEMMA RowsGoneKeeps ==
    ASSUME PageInv, NEW t, NEW loop_ \in {"records", "statements"}, RowsGone(t, loop_)
    PROVE  PageInv'
<1>1. /\ running = loop_ /\ rootOf' = rootOf /\ running' = "nothing" /\ todo' = todo
      /\ Commit(db, [rows EXCEPT ![t] = {}]) /\ misrouted' = misrouted \ {t}
  BY DEF RowsGone, Emptied
<1>2. AllPages(db, rootOf)
  BY <1>1 DEF PageInv
<1>3. misrouted' \subseteq Table
  BY <1>1 DEF PageInv
<1> QED BY <1>1, <1>2, <1>3, CommitKeeps DEF PageInv

\* The bytes written do not change how many pages there are.
LEMMA ClaimSize ==
    ASSUME NEW d, d = DbRec(d.node, d.free, d.num, d.ok), NEW m, NEW n
    PROVE  Claim(d, m).num = Claim(d, n).num
BY DEF Claim, DbRec

LEMMA CreateTableKeeps ==
    ASSUME PageInv, CreateTable
    PROVE  PageInv'
<1> DEFINE d == Claim(db, EmptyRoot)
           p == NextUnused(db)
<1>1. /\ db.ok /\ running = "nothing" /\ rootOf[Other] = None
      /\ Claim(db, Blank).num <= MaxPages
      /\ Commit(d, rows) /\ UNCHANGED <<loop, misrouted>>
  BY DEF CreateTable, Ready, Bounded
<1>2. rootOf' = [rootOf EXCEPT ![Other] = p]
  BY DEF CreateTable
<1>3. d.num <= MaxPages
  <2>1. AllPages(db, rootOf)
    BY <1>1 DEF PageInv
  <2>2. db = DbRec(db.node, db.free, db.num, db.ok)
    BY <2>1 DEF AllPages, OneTree, File
  <2>3. d.num = Claim(db, Blank).num
    BY ONLY <2>2, ClaimSize
  <2> QED BY <1>1, <2>3
<1>4. rootOf' = [t \in Table |-> rootOf'[t]] /\ rootOf'[Users] = 0 /\ rootOf'[Other] = p
  BY <1>2, BTreeAssumption DEF PageInv, Table
<1> DEFINE new == rootOf'
<1>5. /\ AllPages(db, rootOf) /\ rootOf[Users] = 0 /\ rootOf[Other] = None
      /\ new[Users] = 0 /\ new[Other] = NextUnused(db)
  BY <1>1, <1>4 DEF PageInv
<1>6. d = Claim(db, EmptyRoot)
  OBVIOUS
<1> HIDE DEF d, new
<1>7. AllPages(d, new)
  BY ONLY <1>3, <1>5, <1>6, TableCreated
<1> QED BY <1>1, <1>4, <1>7, CommitKeeps DEF PageInv, loop, new

LEMMA BeginKeeps ==
    ASSUME PageInv, NEW loop_ \in {"records", "statements"}, Begin(loop_)
    PROVE  PageInv'
<1>1. /\ db.ok /\ running = "nothing" /\ rootOf[Other] # None /\ running' = loop_
      /\ UNCHANGED <<db, committed, rootOf, at, todo, rows, misrouted>>
  BY DEF Begin, Exists, Ready
<1> QED BY <1>1 DEF PageInv

LEMMA KeyNotFoundKeeps ==
    ASSUME PageInv, KeyNotFound
    PROVE  PageInv'
<1>1. /\ running = "statements" /\ running' = "nothing"
      /\ UNCHANGED <<db, committed, rootOf, at, todo, rows, misrouted>>
  BY DEF KeyNotFound
<1> QED BY <1>1 DEF PageInv

LEMMA VacuumKeeps ==
    ASSUME PageInv, Vacuum
    PROVE  PageInv'
<1>1. /\ db.ok /\ running = "nothing" /\ rootOf[Other] = None
      /\ running' = "read" /\ at' = LeafFor(db, 0, 0)
      /\ UNCHANGED <<db, committed, rootOf, todo, rows, misrouted>>
  BY DEF Vacuum, Ready, OnlyUsers
<1>2. Tree(db, 0)
  BY <1>1 DEF PageInv, AllPages, OneTree
<1>3. at' \in LeavesBelow(db, 0)
  BY <1>1, <1>2, LeafForIsLeaf
<1> QED BY <1>1, <1>3 DEF PageInv

LEMMA VacuumReadsKeeps ==
    ASSUME PageInv, VacuumReads
    PROVE  PageInv'
<1>1. /\ running = "read" /\ todo' = todo \o db.node[at].keys
      /\ UNCHANGED <<committed, rootOf, misrouted>>
  BY DEF VacuumReads
<1>2. /\ db.ok /\ rootOf[Other] = None /\ AllPages(db, rootOf) /\ at \in LeavesBelow(db, 0)
      /\ db = committed.db /\ OneTree(db, 0)
  BY <1>1 DEF PageInv, AllPages
<1>3. /\ LeafNode(db.node[at])
      /\ IsLeaf(db, 0) <=> at = 0
      /\ at = 0 => RootLeaf(db.node[at])
  BY <1>2, LeafShape DEF OneTree
<1>4. todo' \in Seq(Nat)
  <2> DEFINE s == db.node[at].keys
  <2>1. s \in Seq(Nat) /\ todo \in Seq(Nat) /\ todo' = todo \o s
    BY <1>1, <1>3 DEF LeafNode, PageInv
  <2> HIDE DEF s
  <2> QED BY <2>1, ConcatProperties
<1>5. CASE db.node[at].next # 0
  <2>1. at' = db.node[at].next /\ UNCHANGED <<db, rows, running>>
    BY <1>5 DEF VacuumReads
  <2>2. ~IsLeaf(db, 0)
    BY <1>3, <1>5 DEF RootLeaf
  <2> DEFINE S == ToSet(db.node[0].kids)
  <2>3. S = ToSet(db.node[0].kids) /\ at \in S
    BY <1>2, <2>2 DEF LeavesBelow, Kids
  <2> HIDE DEF S
  <2>4. PICK R : Linked(db.node, S, R)
    BY <1>2, <2>2, <2>3, InnerParts
  <2>5. at' \in S
    BY <1>5, <2>1, <2>3, <2>4 DEF Linked
  <2>6. at' \in LeavesBelow(db, 0)
    BY <2>2, <2>3, <2>5 DEF LeavesBelow, Kids
  <2> QED BY <1>1, <1>2, <1>4, <2>1, <2>6 DEF PageInv
<1>6. CASE ~(db.node[at].next # 0)
  <2>1. db' = Truncated(db) /\ running' = "refill"
    BY <1>6 DEF VacuumReads
  <2>2. AllPages(Truncated(db), rootOf)
    BY <1>2, TruncatedPages
  <2>3. AllPages(db', rootOf) /\ db'.ok = TRUE
    BY <2>1, <2>2 DEF AllPages, OneTree, File
  <2> QED BY <1>1, <1>2, <1>4, <2>1, <2>3 DEF PageInv
<1> QED BY <1>5, <1>6

LEMMA VacuumInsertsKeeps ==
    ASSUME PageInv, VacuumInserts
    PROVE  PageInv'
<1> DEFINE k == Head(todo)
           d == Inserted(db, 0, k)
<1>1. /\ running = "refill" /\ todo # <<>> /\ d.num <= MaxPages /\ rootOf' = rootOf
      /\ IF d.ok THEN /\ db' = d /\ todo' = Tail(todo)
                      /\ UNCHANGED <<committed, running, at, misrouted>>
         ELSE Exit
  BY DEF VacuumInserts, Bounded
<1>2. /\ db.ok /\ rootOf[Other] = None /\ AllPages(db, rootOf) /\ OneTree(db, 0)
      /\ rootOf[Users] = 0 /\ 0 # None
  BY <1>1, BTreeAssumption DEF PageInv, AllPages, None
<1>3. k \in Nat /\ Tail(todo) \in Seq(Nat)
  BY <1>1, HeadTailProperties DEF PageInv
<1> HIDE DEF d, k
<1>4. CASE d.ok
  <2>1. Kept(db, d, 0)
    BY <1>2, <1>3, <1>4, KeyInserted DEF d
  <2>2. AllPages(d, rootOf) /\ d.ok = TRUE
    <3>1. AllPages(d, rootOf)
      BY <1>1, <1>2, <2>1, UsersChanged
    <3> QED BY <3>1 DEF AllPages, OneTree, File
  <2> QED BY <1>1, <1>2, <1>3, <1>4, <2>2 DEF PageInv
<1>5. CASE ~d.ok
  BY <1>1, <1>5, ExitKeeps
<1> QED BY <1>4, <1>5

LEMMA VacuumEndsKeeps ==
    ASSUME PageInv, VacuumEnds
    PROVE  PageInv'
<1> DEFINE d == Versioned(db, committed.db.node[0].parent)
<1>1. /\ running = "refill" /\ rootOf' = rootOf /\ running' = "nothing"
      /\ Commit(d, committed.rows) /\ UNCHANGED <<todo, misrouted>>
  BY DEF VacuumEnds
<1>2. AllPages(d, rootOf)
  BY <1>1, VersionedPages DEF PageInv
<1> HIDE DEF d
<1> QED BY <1>1, <1>2, CommitKeeps DEF PageInv

LEMMA ReopenKeeps ==
    ASSUME PageInv, Reopen
    PROVE  PageInv'
<1>1. /\ ~db.ok /\ db' = committed.db /\ running = "nothing"
      /\ UNCHANGED <<committed, rootOf, loop, rows, misrouted>>
  BY DEF Reopen, PageInv
<1>2. AllPages(db', rootOf) /\ db'.ok = TRUE
  BY <1>1 DEF PageInv, AllPages, OneTree, File
<1> QED BY <1>1, <1>2 DEF PageInv, loop

LEMMA StepPages ==
    ASSUME PageInv, [Next]_vars
    PROVE  PageInv'
<1>1. CASE \E t \in Table : \E k \in KeyOf[t] : Insert(t, k) \/ Delete(t, k)
  BY <1>1, InsertKeeps, DeleteKeeps
<1>2. CASE Truncate
  BY <1>2, TruncateKeeps
<1>3. CASE DeleteAllRecords \/ DeleteAllStatements
  BY <1>3, BeginKeeps DEF DeleteAllRecords, DeleteAllStatements
<1>4. CASE DeleteRecord
  BY <1>4, DeleteRecordKeeps
<1>5. CASE DeleteStatement
  BY <1>5, DeleteStatementKeeps
<1>6. CASE KeyNotFound
  BY <1>6, KeyNotFoundKeeps
<1>7. CASE RowsGone(Other, "records") \/ RowsGone(Users, "statements")
  BY <1>7, RowsGoneKeeps
<1>8. CASE CreateTable
  BY <1>8, CreateTableKeeps
<1>9. CASE Vacuum
  BY <1>9, VacuumKeeps
<1>10. CASE VacuumReads
  BY <1>10, VacuumReadsKeeps
<1>11. CASE VacuumInserts
  BY <1>11, VacuumInsertsKeeps
<1>12. CASE VacuumEnds
  BY <1>12, VacuumEndsKeeps
<1>13. CASE \E v \in Version : SetUserVersion(v)
  BY <1>13, SetUserVersionKeeps
<1>14. CASE Reopen
  BY <1>14, ReopenKeeps
<1>15. CASE UNCHANGED vars
  BY <1>15 DEF vars, loop, PageInv
<1> QED BY <1>1, <1>2, <1>3, <1>4, <1>5, <1>6, <1>7, <1>8, <1>9, <1>10, <1>11, <1>12,
           <1>13, <1>14, <1>15 DEF Next

----------------------------------------------------------------------------
(* Theorems.                                                               *)

\* The file of the process, running or not, is in order.
LEMMA FileInOrder ==
    ASSUME PageInv
    PROVE  \E d : /\ AllPages(d, rootOf)
                  /\ db.node = d.node /\ db.free = d.free /\ db.num = d.num
<1>1. CASE db.ok
  BY <1>1, SMTT(60) DEF PageInv
<1>2. CASE ~db.ok
  <2> DEFINE c == committed.db
  <2>1. PICK f : f = FALSE
    BY Zenon
  <2>2. AllPages(c, rootOf) /\ db = Stopped(c)
    BY <1>2 DEF PageInv
  <2>3. db = [c EXCEPT !.ok = f]
    BY <2>1, <2>2, Zenon DEF Stopped
  <2>4. c = DbRec(c.node, c.free, c.num, c.ok)
    BY <2>2 DEF AllPages, OneTree, File
  <2> HIDE DEF c
  <2>5. db.node = c.node /\ db.free = c.free /\ db.num = c.num
    BY ONLY <2>3, <2>4 DEF DbRec
  <2> QED BY <2>2, <2>5
<1> QED BY <1>1, <1>2

\* What a page of a tree looks like.
Shaped(n) ==
    \/ n.kind = "leaf" /\ Len(n.keys) <= MaxCells
    \/ n.kind = "internal" /\ Len(n.keys) <= MaxKeys /\ Len(n.kids) = Len(n.keys) + 1

LEMMA PagesShaped ==
    ASSUME NEW d, NEW r, OneTree(d, r)
    PROVE  /\ \A p \in Own(d, r) : Shaped(d.node[p])
           /\ d.node[r].root
           /\ IsLeaf(d, r) \/ IsInjective(d.node[r].kids)
           /\ \A c \in Kids(d, r) : d.node[c].parent = r
<1>1. CASE IsLeaf(d, r)
  <2>1. RootLeaf(d.node[r]) /\ Own(d, r) = {r} /\ Kids(d, r) = {}
    BY <1>1 DEF OneTree, Tree, Own, Kids
  <2> QED BY <1>1, <2>1 DEF RootLeaf, LeafNode, Shaped, IsLeaf
<1>2. CASE ~IsLeaf(d, r)
  <2> DEFINE S == ToSet(d.node[r].kids)
  <2>1. S = ToSet(d.node[r].kids) /\ Kids(d, r) = S
    BY <1>2 DEF Kids
  <2> HIDE DEF S
  <2>2. /\ RootInner(d.node[r]) /\ Own(d, r) = {r} \cup S
        /\ \A c \in S : ChildLeaf(d.node[c], r)
    BY <1>2, <2>1, InnerParts
  <2>3. ASSUME NEW c \in S
        PROVE  Shaped(d.node[c]) /\ d.node[c].parent = r
    <3>1. LeafNode(d.node[c]) /\ d.node[c].parent = r
      BY <2>2 DEF ChildLeaf
    <3> QED BY <3>1, LeafKind DEF LeafNode, Shaped
  <2>4. Shaped(d.node[r]) /\ d.node[r].root /\ IsInjective(d.node[r].kids)
    <3> DEFINE n == d.node[r]
    <3>1. RootInner(n)
      BY <2>2
    <3> HIDE DEF n
    <3>2. n.kind = "internal"
      BY <3>1 DEF RootInner, InnerRec
    <3>3. n.root /\ IsInjective(n.kids) /\ Len(n.kids) = Len(n.keys) + 1
          /\ Len(n.keys) \in 1 .. MaxKeys
      BY <3>1 DEF RootInner
    <3>4. Len(n.keys) <= MaxKeys
      BY <3>3
    <3> QED BY <3>2, <3>3, <3>4 DEF Shaped, n
  <2> QED BY <2>1, <2>2, <2>3, <2>4
<1> QED BY <1>1, <1>2

\* The inductive invariant holds in every behaviour, also where a table is
\* misrouted.
THEOREM PagesInOrder == Spec => []PageInv
<1>1. Init => PageInv
  BY InitPages
<1>2. PageInv /\ [Next]_vars => PageInv'
  BY StepPages
<1> QED BY <1>1, <1>2, PTL DEF Spec

LEMMA TypeFollows == PageInv => TypeOK
<1> SUFFICES ASSUME PageInv PROVE TypeOK
  OBVIOUS
<1>1. PICK d : /\ AllPages(d, rootOf)
               /\ db.node = d.node /\ db.free = d.free /\ db.num = d.num
  BY FileInOrder
<1>2. File(d) /\ d.num \in Nat /\ d.num <= MaxPages
  BY <1>1 DEF AllPages, OneTree, File
<1>3. DOMAIN db.node = 0 .. db.num - 1 /\ DOMAIN db.node \subseteq Page
  <2>1. d.node = [q \in 0 .. d.num - 1 |-> d.node[q]]
    BY <1>2 DEF File
  <2>2. DOMAIN d.node = 0 .. d.num - 1
    BY <2>1
  <2> QED BY <1>1, <1>2, <2>2, BTreeAssumption DEF Page
<1>4. ASSUME NEW t \in Table, rootOf[t] # None
      PROVE  OneTree(d, rootOf[t])
  BY <1>1, <1>4, RootedTree
<1>5. ASSUME NEW p \in DOMAIN db.node
      PROVE  db.node[p] = Blank \/ Shaped(db.node[p])
  <2>1. p \in 0 .. d.num - 1
    BY <1>1, <1>3
  <2>2. CASE p \in ToSet(d.free)
    BY <1>1, <1>2, <2>2 DEF File
  <2>3. CASE p \in Own(d, rootOf[Users])
    BY <1>1, <2>3, PagesShaped DEF AllPages
  <2>4. CASE p \in Rest(d, rootOf[Users])
    <3>1. OneTree(d, rootOf[Other]) /\ p \in Own(d, rootOf[Other])
      BY <1>1, <2>4 DEF AllPages
    <3> QED BY <1>1, <3>1, PagesShaped
  <2> QED BY <2>1, <2>2, <2>3, <2>4 DEF Rest
<1>6. \A t \in Table : rootOf[t] # None => db.node[rootOf[t]].root
  BY <1>1, <1>4, PagesShaped
<1>7. /\ db.ok \in BOOLEAN /\ misrouted \subseteq Table
      /\ running \in {"nothing", "records", "statements", "read", "refill"}
  BY DEF PageInv
<1> QED BY <1>3, <1>5, <1>6, <1>7 DEF TypeOK, Shaped, IsLeaf

\* Every page below num_pages is blank or a node within its capacity.
THEOREM BTreeTypeCorrect == Spec => []TypeOK
BY PagesInOrder, TypeFollows, PTL

LEMMA PartitionFollows == PageInv => PagesPartitioned
<1> SUFFICES ASSUME PageInv PROVE PagesPartitioned
  OBVIOUS
<1>1. PICK d : /\ AllPages(d, rootOf)
               /\ db.node = d.node /\ db.free = d.free /\ db.num = d.num
  BY FileInOrder
<1> DEFINE Owned(t) == IF rootOf[t] = None THEN {}
                       ELSE {rootOf[t]} \cup Kids(db, rootOf[t])
           r == rootOf[Users]
           s == rootOf[Other]
<1>2. \A q : Kids(db, q) = Kids(d, q) /\ (IsLeaf(db, q) <=> IsLeaf(d, q))
  BY <1>1 DEF Kids, IsLeaf
<1>3. r # None /\ Owned(Users) = Own(d, r)
  BY <1>2, BTreeAssumption DEF PageInv, None, Own
<1>4. /\ OneTree(d, r) /\ Own(d, r) \subseteq 0 .. d.num - 1
      /\ Own(d, r) \cap ToSet(d.free) = {}
      /\ ToSet(d.free) \subseteq 0 .. d.num - 1 /\ IsInjective(d.free)
  <2>1. OneTree(d, r) /\ File(d)
    BY <1>1 DEF AllPages, OneTree
  <2>2. \A p \in ToSet(d.free) : p \in 1 .. d.num - 1
    BY <2>1 DEF File
  <2>3. ToSet(d.free) \subseteq 0 .. d.num - 1
    BY <2>1, <2>2 DEF File
  <2> QED BY <2>1, <2>3, OwnRange DEF OneTree, File
<1>5. Owned(Other) = Rest(d, r)
  BY <1>1, <1>2 DEF AllPages, Own
<1> HIDE DEF Owned, r, s
<1>6. /\ Owned(Users) \cap Owned(Other) = {}
      /\ ToSet(db.free) \cap (Owned(Users) \cup Owned(Other)) = {}
      /\ ToSet(db.free) \cup Owned(Users) \cup Owned(Other) = 0 .. db.num - 1
  BY <1>1, <1>3, <1>4, <1>5 DEF Rest
<1>7. ASSUME NEW t \in Table, rootOf[t] # None
      PROVE  /\ IsLeaf(db, rootOf[t]) \/ IsInjective(db.node[rootOf[t]].kids)
             /\ \A c \in Kids(db, rootOf[t]) : db.node[c].parent = rootOf[t]
  <2>1. OneTree(d, rootOf[t])
    BY <1>1, <1>7, RootedTree
  <2> QED BY <1>1, <1>2, <2>1, PagesShaped
<1> QED BY <1>1, <1>4, <1>6, <1>7 DEF PagesPartitioned, Owned

\* No page is leaked and none has two owners, whatever was split, emptied,
\* collapsed, created or rebuilt, and wherever the process exited.
THEOREM PagesArePartitioned == Spec => []PagesPartitioned
BY PagesInOrder, PartitionFollows, PTL

LEMMA VersionStep ==
    ASSUME PageInv, [Next]_vars
    PROVE  [Grows => committed'.db.node[0].parent = committed.db.node[0].parent]_vars
<1> SUFFICES ASSUME Grows
             PROVE  committed'.db.node[0].parent = committed.db.node[0].parent
  OBVIOUS
<1>1. ASSUME NEW t \in Table, NEW k \in KeyOf[t], Insert(t, k)
      PROVE  committed'.db.node[0].parent = committed.db.node[0].parent
  <2> DEFINE d == Inserted(db, rootOf[t], k)
  <2>1. /\ db.ok /\ running = "nothing" /\ rootOf[t] # None
        /\ IF d.ok THEN Commit(d, [rows EXCEPT ![t] = @ \cup {k}]) ELSE Exit
    BY <1>1 DEF Insert, Exists, Ready
  <2> HIDE DEF d
  <2>2. AllPages(db, rootOf) /\ db = committed.db /\ rootOf[Users] = 0
    BY <2>1 DEF PageInv
  <2>3. CASE ~d.ok
    BY <2>1, <2>3, Zenon DEF Exit
  <2>4. CASE d.ok
    <3>1. OneTree(db, rootOf[t]) /\ k \in Nat
      BY <2>1, <2>2, RootedTree, BTreeAssumption DEF Table
    <3>2. Kept(db, d, rootOf[t]) /\ d.node[rootOf[t]].parent = db.node[rootOf[t]].parent
      BY <2>4, <3>1, KeyInserted DEF d
    <3>3. d.node[0].parent = db.node[0].parent
      <4>1. CASE t = Users
        BY <2>2, <3>2, <4>1
      <4>2. CASE t = Other
        <5>1. 0 \in Rest(db, rootOf[Other])
          BY <2>1, <2>2, <4>2, RootsApart
        <5> QED BY <3>2, <4>2, <5>1 DEF Kept
      <4> QED BY <4>1, <4>2 DEF Table
    <3>4. committed'.db = d
      BY <2>1, <2>4 DEF Commit
    <3> QED BY <2>2, <3>3, <3>4
  <2> QED BY <2>3, <2>4
<1>2. CASE CreateTable
  <2> DEFINE d == Claim(db, EmptyRoot)
  <2>1. /\ db.ok /\ running = "nothing" /\ rootOf[Other] = None
        /\ Commit(d, rows) /\ rootOf' = [rootOf EXCEPT ![Other] = NextUnused(db)]
    BY <1>2 DEF CreateTable, Ready
  <2>2. /\ AllPages(db, rootOf) /\ rootOf[Users] = 0 /\ db = committed.db
        /\ rootOf'[Users] = 0 /\ rootOf'[Other] = NextUnused(db)
    BY <2>1, BTreeAssumption DEF PageInv, Table
  <2>3. PageInv'
    BY <1>2, CreateTableKeeps
  <2>4. committed'.db = d
    BY <2>1 DEF Commit
  <2>5. d.num <= MaxPages
    BY <2>3, <2>4 DEF PageInv, AllPages
  <2>6. d = Claim(db, EmptyRoot)
    OBVIOUS
  <2> DEFINE new == rootOf'
  <2>7. new[Users] = 0 /\ new[Other] = NextUnused(db)
    BY <2>2
  <2> HIDE DEF d, new
  <2>8. d.node[0] = db.node[0]
    BY ONLY <2>1, <2>2, <2>5, <2>6, <2>7, TableCreated, SMTT(60)
  <2> QED BY <2>2, <2>4, <2>8
<1>3. CASE VacuumEnds
  <2> DEFINE v == committed.db.node[0].parent
             d == Versioned(db, v)
  <2>1. running = "refill" /\ Commit(d, committed.rows)
    BY <1>3 DEF VacuumEnds
  <2> HIDE DEF v
  <2>2. AllPages(db, rootOf) /\ rootOf[Users] = 0
    BY <2>1 DEF PageInv
  <2>3. d.node[0].parent = v
    BY <2>2, VersionedPages
  <2>4. committed'.db = d
    BY <2>1 DEF Commit
  <2> QED BY <2>3, <2>4 DEF v
<1>4. CASE Vacuum \/ VacuumReads \/ Exit \/ Reopen
  BY <1>4, Zenon DEF Vacuum, VacuumReads, Exit, Reopen
<1>5. CASE VacuumInserts
  BY <1>5, Zenon DEF VacuumInserts, Exit
<1> QED BY <1>1, <1>2, <1>3, <1>4, <1>5 DEF Grows

\* user_version survives every insert, CREATE TABLE, VACUUM and exit.
THEOREM VersionIsKept == Spec => VersionSurvivesGrowth
<1>1. PageInv /\ [Next]_vars
        => [Grows => committed'.db.node[0].parent = committed.db.node[0].parent]_vars
  BY VersionStep
<1> QED BY <1>1, PagesInOrder, PTL DEF Spec, VersionSurvivesGrowth
=============================================================================
