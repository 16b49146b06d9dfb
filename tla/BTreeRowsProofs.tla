-------------------------- MODULE BTreeRowsProofs --------------------------
(***************************************************************************)
(* The rows of the trees of fixed rows: that a lookup and a scan find them *)
(* all, and that the check before a generic mutation accepts the trees,    *)
(* for any keys, capacities and number of pages.                           *)
(***************************************************************************)
EXTENDS BTreeProofs

----------------------------------------------------------------------------
(* Numbers.                                                                *)

\* A set of numbers from 1 on without a gap is told by its size.
LEMMA WithoutGap ==
    ASSUME NEW n \in Nat, NEW B, B \subseteq 1 .. n,
           \A i, j \in 1 .. n : i < j /\ j \in B => i \in B
    PROVE  /\ Cardinality(B) \in 0 .. n
           /\ \A i \in 1 .. n : i \in B <=> i <= Cardinality(B)
<1>1. ASSUME NEW m \in Nat
      PROVE  IsFiniteSet(1 .. m) /\ Cardinality(1 .. m) = m
  <2>1. IsFiniteSet(1 .. m) /\ Cardinality(1 .. m) = IF 1 > m THEN 0 ELSE m - 1 + 1
    BY FS_Interval
  <2>2. (IF 1 > m THEN 0 ELSE m - 1 + 1) = m
    OBVIOUS
  <2> QED BY <2>1, <2>2
<1>2. IsFiniteSet(B) /\ Cardinality(B) <= n
  <2>1. IsFiniteSet(1 .. n) /\ Cardinality(1 .. n) = n
    BY <1>1
  <2>2. IsFiniteSet(B) /\ Cardinality(B) <= Cardinality(1 .. n)
    BY ONLY <2>1, B \subseteq 1 .. n, FS_Subset
  <2> QED BY <2>1, <2>2
<1>3. Cardinality(B) \in Nat
  BY <1>2, FS_CardinalityType
<1>4. ASSUME NEW i \in 1 .. n, i \in B
      PROVE  i <= Cardinality(B)
  <2>1. 1 .. i \subseteq B
    BY <1>4
  <2>2. Cardinality(1 .. i) <= Cardinality(B)
    BY <1>2, <2>1, FS_Subset
  <2> QED BY <1>1, <2>2
<1>5. ASSUME NEW i \in 1 .. n, i \notin B
      PROVE  Cardinality(B) < i
  <2>1. B \subseteq 1 .. i - 1
    BY <1>5
  <2>2. i - 1 \in Nat
    OBVIOUS
  <2>3. IsFiniteSet(1 .. i - 1) /\ Cardinality(1 .. i - 1) = i - 1
    BY <1>1, <2>2
  <2>4. Cardinality(B) <= Cardinality(1 .. i - 1)
    BY ONLY <2>1, <2>3, FS_Subset
  <2> QED BY <1>3, <2>3, <2>4
<1> QED BY <1>2, <1>3, <1>4, <1>5

\* A property of numbers up to n that holds of 0 and passes from each to the
\* next holds of them all; the property is told by the set of its numbers.
LEMMA UpTo ==
    ASSUME NEW n \in Nat, NEW S, 0 \in S,
           \A m \in 0 .. n - 1 : m \in S => m + 1 \in S
    PROVE  0 .. n \subseteq S
<1> DEFINE B == {m \in 1 .. n : 1 .. m \subseteq S}
           c == Cardinality(B)
<1>1. c \in 0 .. n /\ \A i \in 1 .. n : i \in B <=> i <= c
  <2>1. B \subseteq 1 .. n /\ \A i, j \in 1 .. n : i < j /\ j \in B => i \in B
    OBVIOUS
  <2> HIDE DEF B
  <2> QED BY <2>1, WithoutGap
<1> HIDE DEF c
<1>2. 1 .. c \subseteq S
  <2>1. CASE c = 0
    BY <2>1
  <2>2. CASE c # 0
    <3>1. c \in 1 .. n
      BY <1>1, <2>2
    <3>2. c \in B
      BY <1>1, <3>1
    <3> QED BY <3>2
  <2> QED BY <2>1, <2>2
<1>3. c = n
  <2>1. SUFFICES ASSUME c # n PROVE FALSE
    OBVIOUS
  <2>2. c \in 0 .. n - 1 /\ c \in S
    BY <1>1, <1>2, <2>1
  <2>3. c + 1 \in S /\ c + 1 \in 1 .. n
    BY <2>2
  <2>4. 1 .. c + 1 \subseteq S
    BY <1>2, <2>2, <2>3
  <2>5. c + 1 \in B
    BY <2>3, <2>4
  <2> QED BY <1>1, <2>2, <2>3, <2>5
<1> QED BY <1>2, <1>3

----------------------------------------------------------------------------
(* Sequences in increasing order.                                          *)

\* Below finds the place where the keys reach k.
LEMMA BelowSplits ==
    ASSUME NEW s \in Seq(Nat), Increasing(s), NEW k \in Nat
    PROVE  /\ Below(s, k) \in 0 .. Len(s)
           /\ \A i \in 1 .. Len(s) : s[i] < k <=> i <= Below(s, k)
<1> DEFINE B == {i \in DOMAIN s : s[i] < k}
           n == Len(s)
<1>1. n \in Nat /\ DOMAIN s = 1 .. n /\ \A i \in 1 .. n : s[i] \in Nat
  OBVIOUS
<1>2. \A i, j \in 1 .. n : i < j => s[i] < s[j]
  BY DEF Increasing
<1>3. B \subseteq 1 .. n /\ \A i, j \in 1 .. n : i < j /\ j \in B => i \in B
  BY <1>1, <1>2
<1>4. \A i \in 1 .. n : i \in B <=> s[i] < k
  BY <1>1
<1>5. Below(s, k) = Cardinality(B)
  BY DEF Below
<1> HIDE DEF B, n
<1>6. Cardinality(B) \in 0 .. n /\ \A i \in 1 .. n : i \in B <=> i <= Cardinality(B)
  BY ONLY <1>1, <1>3, WithoutGap
<1> QED BY <1>4, <1>5, <1>6 DEF n

\* Below is the only such place.
LEMMA BelowIs ==
    ASSUME NEW s \in Seq(Nat), Increasing(s), NEW k \in Nat, NEW m \in 0 .. Len(s),
           \A i \in 1 .. Len(s) : s[i] < k <=> i <= m
    PROVE  Below(s, k) = m
<1> DEFINE b == Below(s, k)
           n == Len(s)
<1>1. b \in 0 .. n /\ \A i \in 1 .. n : s[i] < k <=> i <= b
  BY BelowSplits
<1>2. n \in Nat /\ m \in 0 .. n /\ \A i \in 1 .. n : s[i] < k <=> i <= m
  OBVIOUS
<1> HIDE DEF b, n
<1>3. ASSUME b < m PROVE FALSE
  <2>1. b + 1 \in 1 .. n /\ b + 1 <= m /\ ~(b + 1 <= b)
    BY <1>1, <1>2, <1>3
  <2> QED BY <1>1, <1>2, <2>1
<1>4. ASSUME m < b PROVE FALSE
  <2>1. m + 1 \in 1 .. n /\ m + 1 <= b /\ ~(m + 1 <= m)
    BY <1>1, <1>2, <1>4
  <2> QED BY <1>1, <1>2, <2>1
<1>5. b = m
  BY <1>1, <1>2, <1>3, <1>4
<1> QED BY <1>5 DEF b

LEMMA IncreasingInjective ==
    ASSUME NEW s \in Seq(Nat), Increasing(s)
    PROVE  IsInjective(s)
<1>1. \A i, j \in 1 .. Len(s) : i < j => s[i] < s[j]
  BY DEF Increasing
<1>2. \A i, j \in 1 .. Len(s) : s[i] = s[j] => i = j
  BY <1>1
<1> QED BY <1>2 DEF IsInjective

\* A key put in its place.
LEMMA PutInOrder ==
    ASSUME NEW s \in Seq(Nat), Increasing(s), NEW k \in Nat, k \notin ToSet(s),
           NEW t, t = InsertAt(s, Below(s, k) + 1, k)
    PROVE  /\ t \in Seq(Nat) /\ Len(t) = Len(s) + 1 /\ Increasing(t)
           /\ ToSet(t) = ToSet(s) \cup {k}
<1> DEFINE b == Below(s, k)
           n == Len(s)
<1>1. b \in 0 .. n /\ n \in Nat /\ \A i \in 1 .. n : s[i] < k <=> i <= b
  <2>1. s \in Seq(Nat) /\ Increasing(s) /\ k \in Nat
    OBVIOUS
  <2> QED BY ONLY <2>1, BelowSplits, SMTT(60)
<1>2. b + 1 \in 1 .. Len(s) + 1
  BY <1>1
<1> HIDE DEF b
<1>3. /\ t \in Seq(Nat) /\ Len(t) = n + 1
      /\ \A j \in 1 .. n + 1 :
            t[j] = IF j < b + 1 THEN s[j] ELSE IF j = b + 1 THEN k ELSE s[j - 1]
  <2> DEFINE i == b + 1
             u == InsertAt(s, i, k)
  <2>1. t = u /\ s \in Seq(Nat) /\ k \in Nat /\ i \in 1 .. Len(s) + 1
    BY <1>2 DEF b
  <2> HIDE DEF i
  <2>0. s \in Seq(Nat) /\ k \in Nat /\ i \in 1 .. Len(s) + 1
    BY <2>1
  <2>2. u \in Seq(Nat) /\ Len(u) = Len(s) + 1
    BY ONLY <2>0, InsertAtFacts
  <2>3. ASSUME NEW j \in 1 .. Len(s) + 1
        PROVE  u[j] = IF j < i THEN s[j] ELSE IF j = i THEN k ELSE s[j - 1]
    <3> DEFINE S == Nat
    <3>1. s \in Seq(S) /\ k \in S /\ i \in 1 .. Len(s) + 1
      BY <2>1
    <3> HIDE DEF S
    <3> QED BY ONLY <3>1, j \in 1 .. Len(s) + 1, InsertAtFacts
  <2> HIDE DEF u
  <2> QED BY <2>1, <2>2, <2>3, SMTT(60) DEF i
<1>4. ToSet(t) = ToSet(s) \cup {k}
  <2> DEFINE i == b + 1
  <2>1. s \in Seq(Nat) /\ k \in Nat /\ i \in 1 .. Len(s) + 1
    BY <1>2
  <2>2. t = InsertAt(s, i, k)
    BY DEF b
  <2> HIDE DEF i
  <2>3. ToSet(InsertAt(s, i, k)) = ToSet(s) \cup {k}
    <3> DEFINE S == Nat
    <3>1. s \in Seq(S) /\ k \in S /\ i \in 1 .. Len(s) + 1
      BY <2>1
    <3> HIDE DEF S
    <3> QED BY ONLY <3>1, InsertAtSet
  <2> QED BY <2>2, <2>3
<1>5. /\ \A i, j \in 1 .. n : i < j => s[i] < s[j]
      /\ \A i \in 1 .. n : s[i] \in Nat /\ s[i] # k
  BY ToSetFacts DEF Increasing
<1> HIDE DEF n
<1>6. \A i \in 1 .. n : i > b => s[i] > k
  BY <1>1, <1>5
<1>7. ASSUME NEW i \in 1 .. n + 1, NEW j \in 1 .. n + 1, i < j
      PROVE  t[i] < t[j]
  <2>1. t[i] = IF i < b + 1 THEN s[i] ELSE IF i = b + 1 THEN k ELSE s[i - 1]
    BY <1>3
  <2>2. t[j] = IF j < b + 1 THEN s[j] ELSE IF j = b + 1 THEN k ELSE s[j - 1]
    BY <1>3
  <2>3. CASE j < b + 1
    BY <1>1, <1>5, <1>7, <2>1, <2>2, <2>3
  <2>4. CASE j = b + 1
    <3>1. i \in 1 .. n /\ i <= b /\ i < b + 1
      BY <1>1, <1>7, <2>4
    <3> QED BY <1>1, <2>1, <2>2, <2>4, <3>1
  <2>5. CASE j > b + 1
    <3>1. j - 1 \in 1 .. n /\ j - 1 > b /\ t[j] = s[j - 1]
      BY <1>1, <2>2, <2>5
    <3>2. CASE i < b + 1
      <4>1. i \in 1 .. n /\ i < j - 1 /\ t[i] = s[i]
        BY <1>1, <2>1, <2>5, <3>2
      <4> QED BY <1>5, <3>1, <4>1
    <3>3. CASE i = b + 1
      BY <1>6, <2>1, <3>1, <3>3
    <3>4. CASE i > b + 1
      <4>1. i - 1 \in 1 .. n /\ i - 1 < j - 1 /\ t[i] = s[i - 1]
        BY <1>1, <1>7, <2>1, <3>4
      <4> QED BY <1>5, <3>1, <4>1
    <3> QED BY <1>1, <3>2, <3>3, <3>4
  <2> QED BY <1>1, <2>3, <2>4, <2>5
<1>8. Increasing(t)
  BY <1>3, <1>7 DEF Increasing
<1> QED BY <1>3, <1>4, <1>8 DEF n

\* A key taken out.
LEMMA TakeInOrder ==
    ASSUME NEW s \in Seq(Nat), Increasing(s), NEW i \in 1 .. Len(s),
           NEW t, t = RemoveAt(s, i)
    PROVE  /\ t \in Seq(Nat) /\ Len(t) = Len(s) - 1 /\ Increasing(t)
           /\ ToSet(t) = ToSet(s) \ {s[i]}
<1>1. /\ t \in Seq(Nat) /\ Len(t) = Len(s) - 1
      /\ \A j \in 1 .. Len(s) - 1 : t[j] = IF j < i THEN s[j] ELSE s[j + 1]
  BY RemoveAtFacts
<1>2. ToSet(t) = ToSet(s) \ {s[i]}
  BY IncreasingInjective, RemoveAtSet
<1>3. \A l, j \in 1 .. Len(s) : l < j => s[l] < s[j]
  BY DEF Increasing
<1>4. ASSUME NEW l \in 1 .. Len(s) - 1, NEW j \in 1 .. Len(s) - 1, l < j
      PROVE  t[l] < t[j]
  <2> DEFINE x == IF l < i THEN l ELSE l + 1
             y == IF j < i THEN j ELSE j + 1
  <2>1. t[l] = s[x] /\ t[j] = s[y]
    BY <1>1
  <2>2. x \in 1 .. Len(s) /\ y \in 1 .. Len(s) /\ x < y
    BY <1>4
  <2> QED BY <1>3, <2>1, <2>2
<1>5. Increasing(t)
  BY <1>1, <1>4 DEF Increasing
<1> QED BY <1>1, <1>2, <1>5

LEMMA FrontInOrder ==
    ASSUME NEW s \in Seq(Nat), Increasing(s), s # <<>>
    PROVE  Increasing(Front(s))
<1> DEFINE t == Front(s)
<1>1. t \in Seq(Nat) /\ Len(t) = Len(s) - 1 /\ \A j \in 1 .. Len(s) - 1 : t[j] = s[j]
  BY FrontFacts
<1> HIDE DEF t
<1>2. ASSUME NEW i \in 1 .. Len(t), NEW j \in 1 .. Len(t), i < j
      PROVE  t[i] < t[j]
  <2>1. t[i] = s[i] /\ t[j] = s[j] /\ i \in 1 .. Len(s) /\ j \in 1 .. Len(s)
    BY <1>1, SMTT(60)
  <2> QED BY <1>2, <2>1 DEF Increasing
<1> QED BY <1>2 DEF t, Increasing

\* A part of a sequence is ordered as the whole.
LEMMA PartInOrder ==
    ASSUME NEW s \in Seq(Nat), Increasing(s), NEW i \in Nat, NEW j \in Nat,
           i >= 1, i <= j, j <= Len(s), NEW l, l = j - i + 1
    PROVE  /\ SubSeq(s, i, j) \in Seq(Nat) /\ Len(SubSeq(s, i, j)) = l
           /\ Increasing(SubSeq(s, i, j))
           /\ \A m \in 1 .. l : SubSeq(s, i, j)[m] = s[i + m - 1]
<1> DEFINE t == SubSeq(s, i, j)
<1>1. \A m \in i .. j : s[m] \in Nat
  OBVIOUS
<1>2. /\ t \in Seq(Nat) /\ Len(t) = j - i + 1
      /\ \A m \in 1 .. j - i + 1 : t[m] = s[i + m - 1]
  BY <1>1, SubSeqProperties
<1> HIDE DEF t
<1>3. ASSUME NEW h \in 1 .. Len(t), NEW m \in 1 .. Len(t), h < m
      PROVE  t[h] < t[m]
  <2>1. t[h] = s[i + h - 1] /\ t[m] = s[i + m - 1]
    BY <1>2
  <2>2. i + h - 1 \in 1 .. Len(s) /\ i + m - 1 \in 1 .. Len(s) /\ i + h - 1 < i + m - 1
    BY <1>2, <1>3
  <2> QED BY <2>1, <2>2 DEF Increasing
<1>4. Increasing(t)
  BY <1>3 DEF Increasing
<1> QED BY <1>2, <1>4 DEF t

\* The halves of the keys K: Last(low) lies between them.
HalvedAt(low, high, K) ==
    /\ low \in Seq(Nat) /\ Increasing(low) /\ low # <<>>
    /\ high \in Seq(Nat) /\ Increasing(high) /\ high # <<>>
    /\ K = ToSet(low) \cup ToSet(high)
    /\ Last(low) \in ToSet(low) /\ Last(high) \in ToSet(high)
    /\ \A k \in ToSet(low) : k <= Last(low)
    /\ \A k \in ToSet(high) : k > Last(low)
    /\ \A k \in K : k <= Last(high)

\* The two halves of a leaf that splits: Last(low) separates them.
LEMMA HalvesInOrder ==
    ASSUME NEW all \in Seq(Nat), Increasing(all), NEW c \in Nat, c >= 1, c < Len(all),
           NEW low, low = SubSeq(all, 1, c), NEW high, high = SubSeq(all, c + 1, Len(all))
    PROVE  HalvedAt(low, high, ToSet(all))
<1> DEFINE n == Len(all)
<1>1. n \in Nat /\ c < n /\ \A i \in 1 .. n : all[i] \in Nat
  OBVIOUS
<1>2. \A i, j \in 1 .. n : i < j => all[i] < all[j]
  BY DEF Increasing
<1>3. /\ low \in Seq(Nat) /\ Len(low) = c /\ Increasing(low)
      /\ \A m \in 1 .. c : low[m] = all[m]
  <2>0. 1 \in Nat /\ 1 >= 1 /\ 1 <= c /\ c <= Len(all)
    OBVIOUS
  <2> DEFINE t == SubSeq(all, 1, c)
  <2>1. c = c - 1 + 1 /\ \A m \in 1 .. c : 1 + m - 1 = m
    OBVIOUS
  <2>2. /\ t \in Seq(Nat) /\ Len(t) = c /\ Increasing(t)
        /\ \A m \in 1 .. c : t[m] = all[1 + m - 1]
    BY ONLY <2>0, <2>1, all \in Seq(Nat), Increasing(all), c \in Nat, PartInOrder
  <2>3. low = t
    OBVIOUS
  <2> HIDE DEF t
  <2> QED BY <2>1, <2>2, <2>3
<1>4. /\ high \in Seq(Nat) /\ Len(high) = n - c /\ Increasing(high)
      /\ \A m \in 1 .. n - c : high[m] = all[c + m]
  <2>1. c + 1 \in Nat /\ c + 1 >= 1 /\ c + 1 <= Len(all) /\ Len(all) \in Nat
        /\ Len(all) <= Len(all)
    OBVIOUS
  <2> DEFINE t == SubSeq(all, c + 1, n)
  <2>2. n - c = n - (c + 1) + 1 /\ \A m \in 1 .. n - c : c + 1 + m - 1 = c + m
    OBVIOUS
  <2>3. /\ t \in Seq(Nat) /\ Len(t) = n - c /\ Increasing(t)
        /\ \A m \in 1 .. n - c : t[m] = all[c + 1 + m - 1]
    BY ONLY <2>1, <2>2, all \in Seq(Nat), Increasing(all), PartInOrder
  <2>4. high = t
    OBVIOUS
  <2> HIDE DEF t, n
  <2>5. ASSUME NEW m \in 1 .. n - c
        PROVE  high[m] = all[c + m]
    <3>1. t[m] = all[c + 1 + m - 1] /\ c + 1 + m - 1 = c + m
      BY ONLY m \in 1 .. n - c, <2>2, <2>3
    <3> QED BY ONLY <2>4, <3>1
  <2>6. \A m \in 1 .. n - c : high[m] = all[c + m]
    BY ONLY <2>5
  <2> QED BY ONLY <2>3, <2>4, <2>6
<1> HIDE DEF n
<1>5. low # <<>> /\ high # <<>> /\ Last(low) = all[c] /\ Last(high) = all[n]
  <2>1. Len(low) # 0 /\ Len(high) # 0 /\ c \in 1 .. c /\ n - c \in 1 .. n - c /\ c + (n - c) = n
    BY <1>1, <1>3, <1>4
  <2> QED BY <1>3, <1>4, <2>1, EmptySeq DEF Last
<1>6. \A k : k \in ToSet(low) <=> \E m \in 1 .. c : k = all[m]
  <2>0. low \in Seq(Nat) /\ Len(low) = c
    BY <1>3
  <2>1. \A k : k \in ToSet(low) <=> \E m \in 1 .. c : low[m] = k
    BY ONLY <2>0, ToSetFacts
  <2> QED BY <1>3, <2>1
<1>7. \A k : k \in ToSet(high) <=> \E m \in 1 .. n - c : k = all[c + m]
  <2>1. high \in Seq(Nat) /\ Len(high) = n - c
    BY <1>4
  <2>2. \A k : k \in ToSet(high) <=> \E m \in 1 .. Len(high) : high[m] = k
    BY ONLY <2>1, ToSetFacts, Zenon
  <2>3. ASSUME NEW k
        PROVE  k \in ToSet(high) <=> \E m \in 1 .. n - c : k = all[c + m]
    <3>1. k \in ToSet(high) <=> \E m \in 1 .. n - c : high[m] = k
      BY ONLY <2>1, <2>2
    <3>2. \A m \in 1 .. n - c : high[m] = all[c + m]
      BY <1>4
    <3> QED BY ONLY <3>1, <3>2
  <2> QED BY ONLY <2>3
<1>8. \A k : k \in ToSet(all) <=> \E m \in 1 .. n : k = all[m]
  <2>1. \A k : k \in ToSet(all) <=> \E m \in 1 .. n : all[m] = k
    BY ToSetFacts, ZenonT(60) DEF n
  <2> QED BY <2>1
<1>9. ToSet(all) = ToSet(low) \cup ToSet(high)
  <2>1. ASSUME NEW k \in ToSet(all)
        PROVE  k \in ToSet(low) \cup ToSet(high)
    <3>1. PICK m \in 1 .. n : k = all[m]
      BY <1>8
    <3>2. CASE m <= c
      BY <1>6, <3>1, <3>2
    <3>3. CASE m > c
      <4>1. m - c \in 1 .. n - c /\ c + (m - c) = m
        BY <1>1, <3>3
      <4> QED BY <1>7, <3>1, <4>1
    <3> QED BY <3>2, <3>3
  <2>2. ToSet(low) \subseteq ToSet(all)
    <3>1. \A m \in 1 .. c : m \in 1 .. n
      BY <1>1
    <3> QED BY <1>6, <1>8, <3>1
  <2>3. ToSet(high) \subseteq ToSet(all)
    <3>1. \A m \in 1 .. n - c : c + m \in 1 .. n
      BY <1>1
    <3> QED BY <1>7, <1>8, <3>1
  <2> QED BY <2>1, <2>2, <2>3
<1>10. Last(low) \in ToSet(low)
  BY <1>5, <1>6
<1>11. Last(high) \in ToSet(high)
  <2>1. n - c \in 1 .. n - c /\ c + (n - c) = n
    BY <1>1
  <2> QED BY <1>5, <1>7, <2>1
<1>12. ASSUME NEW k \in ToSet(low) PROVE k <= Last(low)
  <2>1. PICK m \in 1 .. c : k = all[m]
    BY <1>6
  <2>2. m \in 1 .. n /\ c \in 1 .. n /\ (m < c \/ m = c)
    BY <1>1
  <2> QED BY <1>1, <1>2, <1>5, <2>1, <2>2, SMTT(60)
<1>13. ASSUME NEW k \in ToSet(high) PROVE k > Last(low)
  <2>1. PICK m \in 1 .. n - c : k = all[c + m]
    BY <1>7
  <2>2. c \in 1 .. n /\ c + m \in 1 .. n /\ c < c + m
    BY <1>1
  <2> QED BY <1>1, <1>2, <1>5, <2>1, <2>2
<1>14. ASSUME NEW k \in ToSet(all) PROVE k <= Last(high)
  <2>1. PICK m \in 1 .. n : k = all[m]
    BY <1>8
  <2>2. n \in 1 .. n /\ (m < n \/ m = n)
    BY <1>1
  <2> QED BY <1>1, <1>2, <1>5, <2>1, <2>2, SMTT(60)
<1> QED BY <1>3, <1>4, <1>5, <1>9, <1>10, <1>11, <1>12, <1>13, <1>14 DEF HalvedAt

----------------------------------------------------------------------------
(* Separators.                                                             *)

\* Q separates the sets T[1], ..., T[n].
Apart(T, n, Q) ==
    /\ n = Len(Q) + 1 /\ Increasing(Q)
    /\ \A m \in 1 .. Len(Q), j \in 1 .. n : \A k \in T[j] : k <= Q[m] <=> j <= m

\* The place of k is the i-th set.
PlaceOf(k, i, Q) == \A m \in 1 .. Len(Q) : k <= Q[m] <=> i <= m

\* The sets do not overlap.
LEMMA ApartDisjoint ==
    ASSUME NEW Q \in Seq(Nat), NEW n, NEW T, Apart(T, n, Q),
           NEW i \in 1 .. n, NEW j \in 1 .. n, NEW k, k \in T[i], k \in T[j]
    PROVE  i = j
<1>1. n \in Nat /\ Len(Q) = n - 1
  BY DEF Apart
<1>2. ASSUME NEW g \in 1 .. n, NEW h \in 1 .. n, k \in T[g], k \in T[h], g < h
      PROVE  FALSE
  <2>1. g \in 1 .. Len(Q) /\ g <= g /\ ~(h <= g)
    BY <1>1, <1>2
  <2> QED BY <1>2, <2>1 DEF Apart
<1> QED BY <1>1, <1>2

\* The search for k ends at the place of k, which is the set that has k if one
\* has.
LEMMA ApartSearch ==
    ASSUME NEW Q \in Seq(Nat), NEW n, NEW T, Apart(T, n, Q), NEW k \in Nat,
           NEW i, i = Below(Q, k) + 1
    PROVE  /\ i \in 1 .. n /\ PlaceOf(k, i, Q)
           /\ \A j \in 1 .. n : PlaceOf(k, j, Q) => j = i
           /\ \A j \in 1 .. n : k \in T[j] => j = i
<1> DEFINE b == Below(Q, k)
           l == Len(Q)
<1>1. n = l + 1 /\ l \in Nat /\ \A m \in 1 .. l : Q[m] \in Nat
  BY DEF Apart
<1>2. b \in 0 .. l /\ \A m \in 1 .. l : Q[m] < k <=> m <= b
  BY BelowSplits DEF Apart
<1>3. i = b + 1
  OBVIOUS
<1>4. \A j \in 1 .. n : k \in T[j] => PlaceOf(k, j, Q)
  BY DEF Apart, PlaceOf
<1> HIDE DEF b
<1>5. i \in 1 .. n
  BY <1>1, <1>2, <1>3
<1>6. PlaceOf(k, i, Q)
  <2>1. ASSUME NEW m \in 1 .. l
        PROVE  k <= Q[m] <=> i <= m
    <3>1. Q[m] < k <=> m <= b
      BY <1>2
    <3>2. m \in Nat /\ b \in Nat /\ Q[m] \in Nat
      BY <1>1, <1>2
    <3> QED BY <1>3, <3>1, <3>2
  <2> QED BY <2>1 DEF PlaceOf
<1>7. ASSUME NEW j \in 1 .. n, PlaceOf(k, j, Q)
      PROVE  j = i
  <2>1. \A m \in 1 .. l : (k <= Q[m] <=> i <= m) /\ (k <= Q[m] <=> j <= m)
    BY <1>6, <1>7 DEF PlaceOf
  <2>2. ASSUME i < j PROVE FALSE
    <3>1. i \in 1 .. l /\ i <= i /\ ~(j <= i)
      BY <1>1, <1>5, <2>2
    <3> QED BY <2>1, <3>1
  <2>3. ASSUME j < i PROVE FALSE
    <3>1. j \in 1 .. l /\ j <= j /\ ~(i <= j)
      BY <1>1, <1>5, <2>3
    <3> QED BY <2>1, <3>1
  <2> QED BY <1>1, <1>5, <2>2, <2>3
<1> QED BY <1>4, <1>5, <1>6, <1>7

\* Sets that hold no more than the old ones and, at its place, a new key.
LEMMA ApartPut ==
    ASSUME NEW Q, NEW n, NEW T, Apart(T, n, Q), NEW k, NEW i, PlaceOf(k, i, Q), NEW U,
           \A j \in 1 .. n : \A x \in U[j] : x \in T[j] \/ (j = i /\ x = k)
    PROVE  Apart(U, n, Q)
BY DEF Apart, PlaceOf

\* A set that is divided at the key mid.
LEMMA ApartSplit ==
    ASSUME NEW Q \in Seq(Nat), NEW n, NEW T, Apart(T, n, Q), NEW k \in Nat,
           NEW i \in 1 .. n, PlaceOf(k, i, Q), NEW mid \in Nat, mid \in T[i] \cup {k},
           \A j \in 1 .. n : T[j] \subseteq Nat,
           NEW U, U[i + 1] # {},
           \A j \in 1 .. n + 1 : U[j] \subseteq IF j < i THEN T[j]
                                               ELSE IF j <= i + 1 THEN T[i] \cup {k}
                                               ELSE T[j - 1],
           \A x \in U[i] : x <= mid, \A x \in U[i + 1] : x > mid,
           NEW R, R = InsertAt(Q, i, mid)
    PROVE  R \in Seq(Nat) /\ Apart(U, n + 1, R)
<1> DEFINE l == Len(Q)
<1>1. /\ n = l + 1 /\ l \in Nat /\ \A m \in 1 .. l : Q[m] \in Nat
      /\ \A g, h \in 1 .. l : g < h => Q[g] < Q[h]
  BY SMTT(60) DEF Apart, Increasing
<1>2. /\ R \in Seq(Nat) /\ Len(R) = l + 1
      /\ \A m \in 1 .. l + 1 :
            R[m] = IF m < i THEN Q[m] ELSE IF m = i THEN mid ELSE Q[m - 1]
  <2> DEFINE N == Nat
             u == InsertAt(Q, i, mid)
  <2>1. Q \in Seq(N) /\ mid \in N /\ i \in 1 .. Len(Q) + 1
    BY <1>1
  <2> HIDE DEF N
  <2>2. u \in Seq(N) /\ Len(u) = Len(Q) + 1
    BY ONLY <2>1, InsertAtFacts
  <2>3. ASSUME NEW m \in 1 .. Len(Q) + 1
        PROVE  u[m] = IF m < i THEN Q[m] ELSE IF m = i THEN mid ELSE Q[m - 1]
    BY ONLY <2>1, m \in 1 .. Len(Q) + 1, InsertAtFacts
  <2>4. R = u
    OBVIOUS
  <2> HIDE DEF u
  <2> QED BY <2>2, <2>3, <2>4 DEF N
<1> HIDE DEF l
\* A key of T[j], or k if j = i, lies where the j-th set does.
<1>3. ASSUME NEW j \in 1 .. n, NEW x \in T[j] \cup (IF j = i THEN {k} ELSE {}),
             NEW m \in 1 .. l
      PROVE  x \in Nat /\ (x <= Q[m] <=> j <= m)
  <2>1. l = Len(Q)
    BY DEF l
  <2> QED BY <1>3, <2>1 DEF Apart, PlaceOf
<1>4. \A m \in 1 .. l : mid <= Q[m] <=> i <= m
  BY <1>3
<1>5. PICK y : y \in U[i + 1] /\ y > mid /\ y \in Nat
               /\ \A m \in 1 .. l : y <= Q[m] <=> i <= m
  <2>1. PICK y : y \in U[i + 1]
    OBVIOUS
  <2>2. i + 1 \in 1 .. n + 1 /\ ~(i + 1 < i) /\ i + 1 <= i + 1
    BY <1>1
  <2>3. y \in T[i] \cup {k}
    BY <2>1, <2>2
  <2> QED BY <1>3, <2>1, <2>3
<1>6. \A m \in 1 .. l : i <= m => mid < Q[m]
  BY <1>1, <1>5
<1>7. ASSUME NEW g \in 1 .. l + 1, NEW h \in 1 .. l + 1, g < h
      PROVE  R[g] < R[h]
  <2>1. R[g] = IF g < i THEN Q[g] ELSE IF g = i THEN mid ELSE Q[g - 1]
    BY <1>2
  <2>2. R[h] = IF h < i THEN Q[h] ELSE IF h = i THEN mid ELSE Q[h - 1]
    BY <1>2
  <2>3. CASE h < i
    <3>1. g \in 1 .. l /\ h \in 1 .. l /\ g < i
      BY <1>1, <1>7, <2>3
    <3> QED BY <1>1, <1>7, <2>1, <2>2, <2>3, <3>1
  <2>4. CASE h = i
    <3>1. g \in 1 .. l /\ ~(i <= g) /\ g < i
      BY <1>1, <1>7, <2>4
    <3>2. Q[g] \in Nat /\ ~(mid <= Q[g])
      BY <1>1, <1>4, <3>1
    <3> QED BY <2>1, <2>2, <2>4, <3>1, <3>2
  <2>5. CASE h > i
    <3>1. h - 1 \in 1 .. l /\ i <= h - 1 /\ R[h] = Q[h - 1] /\ i \in Nat
      BY <1>1, <2>2, <2>5
    <3>2. CASE g < i
      <4>1. g \in 1 .. l /\ g < h - 1
        BY <1>1, <1>7, <3>1, <3>2, SMTT(60)
      <4> QED BY <1>1, <2>1, <3>1, <3>2, <4>1
    <3>3. CASE g = i
      BY <1>6, <2>1, <3>1, <3>3
    <3>4. CASE g > i
      <4>1. g - 1 \in 1 .. l /\ g - 1 < h - 1 /\ R[g] = Q[g - 1]
        BY <1>1, <1>7, <2>1, <3>1, <3>4
      <4> QED BY <1>1, <3>1, <4>1
    <3> QED BY <3>1, <3>2, <3>3, <3>4
  <2> QED BY <1>1, <2>3, <2>4, <2>5
<1>8. ASSUME NEW m \in 1 .. l + 1, NEW j \in 1 .. n + 1, NEW x \in U[j]
      PROVE  x <= R[m] <=> j <= m
  <2> DEFINE o == IF j <= i THEN j ELSE j - 1
  <2>0. o \in 1 .. n /\ j \in Nat /\ m \in Nat /\ i \in Nat
    BY <1>1
  <2>1. x \in T[o] \cup (IF o = i THEN {k} ELSE {})
    <3>1. x \in IF j < i THEN T[j] ELSE IF j <= i + 1 THEN T[i] \cup {k} ELSE T[j - 1]
      BY <1>8
    <3>2. CASE j < i
      BY <3>1, <3>2
    <3>3. CASE j = i \/ j = i + 1
      <4>1. ~(j < i) /\ j <= i + 1 /\ o = i
        BY <2>0, <3>3
      <4> HIDE DEF o
      <4> QED BY <3>1, <4>1
    <3>4. CASE j > i + 1
      <4>1. ~(j < i) /\ ~(j <= i + 1) /\ o = j - 1
        BY <2>0, <3>4
      <4> HIDE DEF o
      <4> QED BY <3>1, <4>1
    <3> QED BY <2>0, <3>2, <3>3, <3>4
  <2>2. \A g \in 1 .. l : x <= Q[g] <=> o <= g
    <3> HIDE DEF o
    <3> QED BY <1>3, <2>0, <2>1
  <2>3. R[m] = IF m < i THEN Q[m] ELSE IF m = i THEN mid ELSE Q[m - 1]
    BY <1>2
  <2>4. x \in Nat
    BY <2>0, <2>1 
  <2>5. CASE m < i
    <3>1. m \in 1 .. l /\ R[m] = Q[m] /\ (o <= m <=> j <= m)
      BY <1>1, <2>0, <2>3, <2>5
    <3> QED BY <2>2, <3>1
  <2>6. CASE m > i
    <3>1. m - 1 \in 1 .. l /\ R[m] = Q[m - 1] /\ (o <= m - 1 <=> j <= m)
      BY <1>1, <2>0, <2>3, <2>6
    <3> HIDE DEF o
    <3> QED BY <2>2, <3>1
  <2>7. CASE m = i
    <3>1. R[m] = mid
      BY <2>0, <2>3, <2>7
    <3>2. CASE j < i
      <4>1. j \in 1 .. l /\ o = j /\ j <= j /\ ~(i <= j)
        BY <1>1, <2>0, <3>2
      <4>2. x <= Q[j] /\ ~(mid <= Q[j]) /\ Q[j] \in Nat
        BY <1>1, <1>4, <2>2, <4>1
      <4> QED BY <2>0, <2>4, <2>7, <3>1, <3>2, <4>2
    <3>3. CASE j = i
      BY <2>0, <2>7, <3>1, <3>3, <1>8
    <3>4. CASE j = i + 1
      <4>1. x > mid /\ ~(j <= m)
        BY <2>0, <2>7, <3>4, <1>8
      <4> QED BY <2>4, <3>1, <4>1
    <3>5. CASE j > i + 1
      <4>1. i \in 1 .. l /\ o = j - 1 /\ ~(j - 1 <= i) /\ i <= i
        BY <1>1, <2>0, <3>5
      <4>2. mid <= Q[i] /\ ~(x <= Q[i]) /\ Q[i] \in Nat
        BY <1>1, <1>4, <2>2, <4>1
      <4> QED BY <2>0, <2>4, <2>7, <3>1, <3>5, <4>2
    <3> QED BY <2>0, <3>2, <3>3, <3>4, <3>5
  <2> QED BY <2>0, <2>5, <2>6, <2>7
<1>9. Increasing(R)
  BY <1>2, <1>7 DEF Increasing
<1> QED BY <1>1, <1>2, <1>8, <1>9 DEF Apart

\* A set that is taken out, with the separator above it or, of the last set,
\* the one below it.
LEMMA ApartOut ==
    ASSUME NEW Q \in Seq(Nat), NEW n, NEW T, Apart(T, n, Q), Len(Q) >= 1, NEW i \in 1 .. n,
           NEW U, \A j \in 1 .. n - 1 : U[j] = IF j < i THEN T[j] ELSE T[j + 1],
           NEW R, R = IF i = n THEN Front(Q) ELSE RemoveAt(Q, i)
    PROVE  R \in Seq(Nat) /\ Apart(U, n - 1, R)
<1> DEFINE l == Len(Q)
<1>1. /\ n = l + 1 /\ l \in Nat /\ l >= 1 /\ \A m \in 1 .. l : Q[m] \in Nat
      /\ \A g, h \in 1 .. l : g < h => Q[g] < Q[h]
      /\ \A m \in 1 .. l, j \in 1 .. n : \A k \in T[j] : k <= Q[m] <=> j <= m
  BY DEF Apart, Increasing
<1>2. /\ R \in Seq(Nat) /\ Len(R) = l - 1
      /\ \A m \in 1 .. l - 1 : R[m] = IF m < i THEN Q[m] ELSE Q[m + 1]
  <2>1. CASE i = n
    <3>1. Q # <<>> /\ R = Front(Q)
      BY <1>1, <2>1
    <3>2. R \in Seq(Nat) /\ Len(R) = l - 1 /\ \A m \in 1 .. l - 1 : R[m] = Q[m]
      BY <3>1, FrontFacts, ZenonT(60)
    <3>3. \A m \in 1 .. l - 1 : m < i
      BY <1>1, <2>1
    <3> QED BY <3>2, <3>3
  <2>2. CASE i # n
    <3>1. i \in 1 .. Len(Q) /\ R = RemoveAt(Q, i)
      BY <1>1, <2>2
    <3> QED BY <3>1, RemoveAtFacts, ZenonT(60)
  <2> QED BY <2>1, <2>2
<1> HIDE DEF l
<1>3. ASSUME NEW g \in 1 .. l - 1, NEW h \in 1 .. l - 1, g < h
      PROVE  R[g] < R[h]
  <2> DEFINE x == IF g < i THEN g ELSE g + 1
             y == IF h < i THEN h ELSE h + 1
  <2>1. R[g] = Q[x] /\ R[h] = Q[y]
    BY <1>2
  <2>2. x \in 1 .. l /\ y \in 1 .. l /\ x < y
    BY <1>1, <1>3
  <2> HIDE DEF x, y
  <2> QED BY <1>1, <2>1, <2>2
<1>4. ASSUME NEW m \in 1 .. l - 1, NEW j \in 1 .. n - 1, NEW k \in U[j]
      PROVE  k <= R[m] <=> j <= m
  <2> DEFINE x == IF m < i THEN m ELSE m + 1
             y == IF j < i THEN j ELSE j + 1
  <2>1. R[m] = Q[x] /\ U[j] = T[y]
    BY <1>2
  <2>2. x \in 1 .. l /\ y \in 1 .. n /\ (y <= x <=> j <= m)
    BY <1>1
  <2> HIDE DEF x, y
  <2> QED BY <1>1, <1>4, <2>1, <2>2
<1>5. Increasing(R)
  BY <1>2, <1>3 DEF Increasing
<1>6. n - 1 = Len(R) + 1
  BY <1>1, <1>2
<1> QED BY <1>2, <1>4, <1>5, <1>6 DEF Apart

----------------------------------------------------------------------------
(* The leaves of a tree.                                                   *)

LeavesOf(d, L, Q) ==
    /\ L \in Seq(Nat) /\ IsInjective(L) /\ Q \in Seq(Nat) /\ Len(L) = Len(Q) + 1
    /\ \A j \in 1 .. Len(L) : d.node[L[j]].keys \in Seq(Nat)

LEMMA TreeLeaves ==
    ASSUME NEW d, NEW r, OneTree(d, r), NEW L, L = Leaves(d, r), NEW Q, Q = Separators(d, r)
    PROVE  /\ LeavesOf(d, L, Q) /\ ToSet(L) = LeavesBelow(d, r)
           /\ \A x : x \in LeavesBelow(d, r) <=> \E j \in 1 .. Len(L) : L[j] = x
           /\ ~IsLeaf(d, r) => 0 \notin ToSet(L)
<1>1. Tree(d, r) /\ d.num \in Nat
  BY DEF OneTree, File
<1>2. CASE IsLeaf(d, r)
  <2>1. L = <<r>> /\ Q = <<>> /\ LeavesBelow(d, r) = {r} /\ r \in Nat
    BY <1>1, <1>2 DEF Leaves, Separators, LeavesBelow, Tree
  <2>2. d.node[r].keys \in Seq(Nat)
    BY <1>1, <1>2 DEF Tree, RootLeaf, LeafNode
  <2>3. L \in Seq(Nat) /\ Len(L) = 1 /\ L[1] = r /\ Q \in Seq(Nat) /\ Len(Q) = 0
    BY <2>1
  <2>4. IsInjective(L)
    BY <2>3 DEF IsInjective
  <2>5. \A x : x \in ToSet(L) <=> \E j \in 1 .. Len(L) : L[j] = x
    <3>1. L \in Seq(Nat)
      BY <2>3
    <3> QED BY ONLY <3>1, ToSetFacts
  <2>6. \A x : x \in {r} <=> \E j \in 1 .. Len(L) : L[j] = x
    BY <2>3
  <2> QED BY <1>2, <2>1, <2>2, <2>3, <2>4, <2>5, <2>6 DEF LeavesOf
<1>3. CASE ~IsLeaf(d, r)
  <2>1. L = d.node[r].kids /\ Q = d.node[r].keys /\ LeavesBelow(d, r) = ToSet(L)
    BY <1>3 DEF Leaves, Separators, LeavesBelow, Kids
  <2>2. RootInner(d.node[r])
    BY <1>1, <1>3 DEF Tree
  <2>3. L \in Seq(Nat) /\ IsInjective(L) /\ Q \in Seq(Nat) /\ Len(L) = Len(Q) + 1
    BY <2>1, <2>2 DEF RootInner
  <2>4. \A x : x \in ToSet(L) <=> \E j \in 1 .. Len(L) : L[j] = x
    BY <2>3, ToSetFacts, ZenonT(60)
  <2>5. \A c \in ToSet(L) : c \in 1 .. d.num - 1 /\ ChildLeaf(d.node[c], r)
    BY <1>1, <1>3, <2>1 DEF Tree
  <2>6. \A j \in 1 .. Len(L) : d.node[L[j]].keys \in Seq(Nat)
    BY <2>4, <2>5 DEF ChildLeaf, LeafNode
  <2>7. 0 \notin ToSet(L)
    BY <2>5
  <2> QED BY <2>1, <2>3, <2>4, <2>6, <2>7 DEF LeavesOf
<1> QED BY <1>2, <1>3

\* The keys of the leaves, by position.
KeySets(d, L) == [j \in 1 .. Len(L) |-> KeysIn(d, L[j])]

LEMMA KeySetsFacts ==
    ASSUME NEW d, NEW L, NEW Q, LeavesOf(d, L, Q)
    PROVE  /\ Separated(d, L, Q) <=> Apart(KeySets(d, L), Len(L), Q)
           /\ \A j \in 1 .. Len(L) : KeySets(d, L)[j] = KeysIn(d, L[j])
           /\ \A j \in 1 .. Len(L) : KeysIn(d, L[j]) \subseteq Nat
<1>1. \A j \in 1 .. Len(L) : KeySets(d, L)[j] = KeysIn(d, L[j])
  BY DEF KeySets
<1>2. ASSUME NEW j \in 1 .. Len(L)
      PROVE  KeysIn(d, L[j]) \subseteq Nat
  BY ToSetFacts DEF LeavesOf, KeysIn
<1>3. Separated(d, L, Q) <=> Apart(KeySets(d, L), Len(L), Q)
  BY <1>1 DEF Separated, Apart
<1> QED BY <1>1, <1>2, <1>3

\* What the leaves hold.
LEMMA HoldingFacts ==
    ASSUME NEW d, NEW L, NEW S
    PROVE  Holding(d, L, S) <=>
              /\ \A j \in 1 .. Len(L) : Increasing(d.node[L[j]].keys)
              /\ \A x : x \in S <=> \E j \in 1 .. Len(L) : x \in KeysIn(d, L[j])
BY DEF Holding

\* Where a search ends.
LEMMA SearchEnds ==
    ASSUME NEW d, NEW r, OneTree(d, r), NEW S, Stores(d, r, S), NEW k \in Nat,
           NEW L, L = Leaves(d, r), NEW Q, Q = Separators(d, r),
           NEW i, i = Below(Q, k) + 1
    PROVE  /\ i \in 1 .. Len(L) /\ L[i] = LeafFor(d, r, k) /\ PlaceOf(k, i, Q)
           /\ k \in S <=> k \in KeysIn(d, L[i])
<1>1. LeavesOf(d, L, Q)
  BY TreeLeaves
<1>2. Arranged(d, L, Q, S)
  BY DEF Stores
<1>3. /\ i \in 1 .. Len(L) /\ PlaceOf(k, i, Q)
      /\ \A j \in 1 .. Len(L) : k \in KeySets(d, L)[j] => j = i
  <2>1. Q \in Seq(Nat) /\ Apart(KeySets(d, L), Len(L), Q)
    BY <1>1, <1>2, KeySetsFacts DEF Arranged, LeavesOf
  <2> QED BY <2>1, ApartSearch
<1>4. k \in S <=> k \in KeysIn(d, L[i])
  BY <1>1, <1>2, <1>3, KeySetsFacts, HoldingFacts DEF Arranged
<1>5. L[i] = LeafFor(d, r, k)
  <2>1. CASE IsLeaf(d, r)
    <3>1. L = <<r>> /\ Q = <<>> /\ LeafFor(d, r, k) = r
      BY <2>1 DEF Leaves, Separators, LeafFor
    <3>2. Len(L) = 1
      BY <3>1
    <3>3. i = 1
      BY <1>3, <3>2
    <3> QED BY <3>1, <3>3
  <2>2. CASE ~IsLeaf(d, r)
    BY <2>2 DEF Leaves, Separators, LeafFor, FindChild
  <2> QED BY <2>1, <2>2
<1> QED BY <1>3, <1>4, <1>5

\* A lookup finds the rows that the tree stores.
LEMMA StoredIsFound ==
    ASSUME NEW d, NEW r, OneTree(d, r), NEW S, Stores(d, r, S), NEW k \in Nat
    PROVE  Holds(d, r, k) <=> k \in S
<1> DEFINE p == LeafFor(d, r, k)
           L == Leaves(d, r)
           i == Below(Separators(d, r), k) + 1
<1>1. i \in 1 .. Len(L) /\ L[i] = p /\ (k \in S <=> k \in KeysIn(d, p))
  BY SearchEnds
<1> HIDE DEF i
<1>2. d.node[p].keys \in Seq(Nat)
  BY <1>1, TreeLeaves DEF LeavesOf
<1>3. k \in ToSet(d.node[p].keys) <=> \E j \in DOMAIN d.node[p].keys : d.node[p].keys[j] = k
  <2> DEFINE s == d.node[p].keys
  <2>1. s \in Seq(Nat)
    BY <1>2
  <2> HIDE DEF s
  <2>2. k \in ToSet(s) <=> \E j \in DOMAIN s : s[j] = k
    BY <2>1, ToSetFacts
  <2> QED BY <2>2 DEF s
<1> QED BY <1>1, <1>3 DEF Holds, KeysIn

----------------------------------------------------------------------------
(* What an operation makes of the rows.                                    *)

\* Leaves whose links are as they were.
LEMMA ChainKept ==
    ASSUME NEW d, NEW e, NEW L, Chained(d, L),
           \A j \in 1 .. Len(L) : /\ e.node[L[j]].next = d.node[L[j]].next
                                  /\ e.node[L[j]].prev = d.node[L[j]].prev
    PROVE  Chained(e, L)
BY DEF Chained

\* A key is put into the leaf at its place.
LEMMA PutArranged ==
    ASSUME NEW d, NEW L, NEW Q, LeavesOf(d, L, Q), NEW S, Arranged(d, L, Q, S),
           NEW k \in Nat, k \notin S, NEW i \in 1 .. Len(L), PlaceOf(k, i, Q), NEW e,
           LeafIs(e.node[L[i]], With(d.node[L[i]].keys, k),
                  d.node[L[i]].next, d.node[L[i]].prev),
           \A j \in 1 .. Len(L) : j # i => e.node[L[j]] = d.node[L[j]]
    PROVE  Arranged(e, L, Q, S \cup {k})
<1> DEFINE s == d.node[L[i]].keys
           t == e.node[L[i]].keys
<1>1. /\ \A j \in 1 .. Len(L) : Increasing(d.node[L[j]].keys)
      /\ \A x : x \in S <=> \E j \in 1 .. Len(L) : x \in KeysIn(d, L[j])
  BY HoldingFacts DEF Arranged
<1>2. s \in Seq(Nat) /\ Increasing(s) /\ k \notin ToSet(s)
  BY <1>1 DEF LeavesOf, KeysIn
<1>3. t = InsertAt(s, Below(s, k) + 1, k)
  BY DEF LeafIs, With
<1> HIDE DEF s, t
<1>4. t \in Seq(Nat) /\ Increasing(t) /\ ToSet(t) = ToSet(s) \cup {k}
  BY ONLY <1>2, <1>3, k \in Nat, PutInOrder
<1>5. \A j \in 1 .. Len(L) : KeysIn(e, L[j]) = IF j = i THEN KeysIn(d, L[j]) \cup {k}
                                              ELSE KeysIn(d, L[j])
  BY <1>4 DEF KeysIn, s, t
<1>6. Chained(e, L)
  BY ChainKept DEF Arranged, LeafIs
<1>7. \A j \in 1 .. Len(L) : Increasing(e.node[L[j]].keys) /\ e.node[L[j]].keys \in Seq(Nat)
  BY <1>1, <1>4 DEF t, LeavesOf
<1>8. Holding(e, L, S \cup {k})
  <2>1. \A x : x \in S \cup {k} <=> \E j \in 1 .. Len(L) : x \in KeysIn(e, L[j])
    BY <1>1, <1>5
  <2> QED BY <1>7, <2>1, HoldingFacts
<1>9. Separated(e, L, Q)
  <2>1. Apart(KeySets(d, L), Len(L), Q)
    BY KeySetsFacts DEF Arranged
  <2>2. LeavesOf(e, L, Q)
    BY <1>7 DEF LeavesOf
  <2>3. \A j \in 1 .. Len(L) : \A x \in KeySets(e, L)[j] :
           x \in KeySets(d, L)[j] \/ (j = i /\ x = k)
    BY <1>5 DEF KeySets
  <2>4. Apart(KeySets(e, L), Len(L), Q)
    BY ONLY <2>1, <2>3, PlaceOf(k, i, Q), ApartPut
  <2> QED BY <2>2, <2>4, KeySetsFacts
<1> QED BY <1>6, <1>8, <1>9 DEF Arranged

\* A key is taken out of a leaf.
LEMMA TakeArranged ==
    ASSUME NEW d, NEW L, NEW Q, LeavesOf(d, L, Q), NEW S, Arranged(d, L, Q, S),
           NEW i \in 1 .. Len(L), NEW m \in 1 .. Len(d.node[L[i]].keys), NEW e,
           LeafIs(e.node[L[i]], RemoveAt(d.node[L[i]].keys, m),
                  d.node[L[i]].next, d.node[L[i]].prev),
           \A j \in 1 .. Len(L) : j # i => e.node[L[j]] = d.node[L[j]]
    PROVE  Arranged(e, L, Q, S \ {d.node[L[i]].keys[m]})
<1> DEFINE s == d.node[L[i]].keys
           t == e.node[L[i]].keys
           k == s[m]
<1>1. /\ \A j \in 1 .. Len(L) : Increasing(d.node[L[j]].keys)
      /\ \A x : x \in S <=> \E j \in 1 .. Len(L) : x \in KeysIn(d, L[j])
  BY HoldingFacts DEF Arranged
<1>2. s \in Seq(Nat) /\ Increasing(s) /\ m \in 1 .. Len(s)
  BY <1>1 DEF LeavesOf
<1>3. t = RemoveAt(s, m)
  BY DEF LeafIs
<1> HIDE DEF s, t
<1>4. t \in Seq(Nat) /\ Increasing(t) /\ ToSet(t) = ToSet(s) \ {k}
  BY ONLY <1>2, <1>3, TakeInOrder
<1>5. \A j \in 1 .. Len(L) : j # i => k \notin KeysIn(d, L[j])
  <2>1. k \in ToSet(s)
    BY <1>2, ToSetFacts
  <2>2. k \in KeySets(d, L)[i]
    BY <2>1 DEF KeySets, KeysIn, s
  <2>3. Q \in Seq(Nat) /\ Apart(KeySets(d, L), Len(L), Q)
    BY KeySetsFacts DEF Arranged, LeavesOf
  <2>4. \A j \in 1 .. Len(L) : k \in KeySets(d, L)[j] => i = j
    BY ONLY <2>2, <2>3, i \in 1 .. Len(L), ApartDisjoint
  <2> QED BY <2>4 DEF KeySets
<1> HIDE DEF k
<1>6. \A j \in 1 .. Len(L) : KeysIn(e, L[j]) = KeysIn(d, L[j]) \ {k}
  BY <1>4, <1>5 DEF KeysIn, s, t
<1>7. Chained(e, L)
  BY ChainKept DEF Arranged, LeafIs
<1>8. \A j \in 1 .. Len(L) : Increasing(e.node[L[j]].keys)
  BY <1>1, <1>4 DEF t
<1>9. Holding(e, L, S \ {k})
  <2>1. \A x : x \in S \ {k} <=> \E j \in 1 .. Len(L) : x \in KeysIn(e, L[j])
    BY <1>1, <1>6
  <2> QED BY <1>8, <2>1, HoldingFacts
<1>10. Separated(e, L, Q)
  BY <1>6 DEF Arranged, Separated
<1> QED BY <1>7, <1>9, <1>10 DEF Arranged, k, s

\* M is L with new after its i-th element.
Stretched(M, L, i, new) ==
    /\ M \in Seq(Nat) /\ Len(M) = Len(L) + 1
    /\ \A j \in 1 .. Len(L) + 1 :
          M[j] = IF j <= i THEN L[j] ELSE IF j = i + 1 THEN new ELSE L[j - 1]

\* The element that InsertAt puts after the i-th.
LEMMA PutAfter ==
    ASSUME NEW L \in Seq(Nat), NEW i \in 1 .. Len(L), NEW new \in Nat,
           NEW M, M = InsertAt(L, i + 1, new)
    PROVE  Stretched(M, L, i, new)
<1> DEFINE N == Nat
           g == i + 1
           u == InsertAt(L, g, new)
<1>1. L \in Seq(N) /\ new \in N /\ g \in 1 .. Len(L) + 1
  OBVIOUS
<1>2. M = u /\ g = i + 1 /\ i \in Nat
  OBVIOUS
<1> HIDE DEF N, g
<1>3. u \in Seq(N) /\ Len(u) = Len(L) + 1
  BY ONLY <1>1, InsertAtFacts
<1>4. ASSUME NEW j \in 1 .. Len(L) + 1
      PROVE  u[j] = IF j < g THEN L[j] ELSE IF j = g THEN new ELSE L[j - 1]
  BY ONLY <1>1, j \in 1 .. Len(L) + 1, InsertAtFacts
<1> HIDE DEF u
<1>5. \A j \in 1 .. Len(L) + 1 : (j < g <=> j <= i) /\ (j = g <=> j = i + 1)
  BY <1>2
<1>6. \A j \in 1 .. Len(L) + 1 :
         M[j] = IF j <= i THEN L[j] ELSE IF j = i + 1 THEN new ELSE L[j - 1]
  BY ONLY <1>2, <1>4, <1>5
<1>7. M \in Seq(Nat) /\ Len(M) = Len(L) + 1
  BY <1>2, <1>3 DEF N
<1> QED BY <1>6, <1>7 DEF Stretched

\* The chain of the leaves, one of which is divided.
LEMMA ChainSplit ==
    ASSUME NEW d, NEW L, L \in Seq(Nat), IsInjective(L), 0 \notin ToSet(L), Chained(d, L),
           NEW i \in 1 .. Len(L), NEW new \in Nat, NEW e, NEW low, NEW high,
           Divided(d, e, ToSet(L), L[i], new, low, high),
           NEW M, M = InsertAt(L, i + 1, new)
    PROVE  Chained(e, M)
<1> DEFINE n == Len(L)
<1>1. n \in Nat /\ i \in 1 .. n /\ Len(M) = n + 1
      /\ \A j \in 1 .. n + 1 :
            M[j] = IF j <= i THEN L[j] ELSE IF j = i + 1 THEN new ELSE L[j - 1]
  <2>1. L \in Seq(Nat) /\ i \in 1 .. Len(L) /\ new \in Nat /\ M = InsertAt(L, i + 1, new)
    OBVIOUS
  <2>2. Stretched(M, L, i, new)
    BY ONLY <2>1, PutAfter
  <2> QED BY <2>2 DEF Stretched
<1>2. /\ \A j \in 1 .. n : L[j] \in ToSet(L) /\ L[j] # 0
      /\ \A j, h \in 1 .. n : L[j] = L[h] => j = h
  BY ToSetFacts, SMTT(60) DEF IsInjective
<1>3. \A j \in 1 .. n : /\ d.node[L[j]].next = IF j = n THEN 0 ELSE L[j + 1]
                        /\ d.node[L[j]].prev = IF j = 1 THEN 0 ELSE L[j - 1]
  BY DEF Chained
<1> DEFINE x == d.node[L[i]].next
<1>4. /\ e.node[L[i]].next = new /\ e.node[L[i]].prev = d.node[L[i]].prev
      /\ e.node[new].next = x /\ e.node[new].prev = L[i]
      /\ \A j \in 1 .. n : j # i =>
            /\ e.node[L[j]].next = d.node[L[j]].next
            /\ e.node[L[j]].prev = IF L[j] = x THEN new ELSE d.node[L[j]].prev
  BY <1>1, <1>2 DEF Divided, LeafIs
<1>5. x = IF i = n THEN 0 ELSE L[i + 1]
  BY <1>3
<1> HIDE DEF n, x
<1>6. ASSUME NEW j \in 1 .. n, j # i
      PROVE  L[j] = x <=> j = i + 1
  <2>1. CASE i = n
    BY <1>1, <1>2, <1>5, <1>6, <2>1
  <2>2. CASE i # n
    <3>1. i + 1 \in 1 .. n
      BY <1>1, <2>2
    <3> QED BY <1>1, <1>2, <1>5, <2>2, <3>1
  <2> QED BY <2>1, <2>2
<1>7. ASSUME NEW j \in 1 .. n + 1
      PROVE  /\ e.node[M[j]].next = IF j = n + 1 THEN 0 ELSE M[j + 1]
             /\ e.node[M[j]].prev = IF j = 1 THEN 0 ELSE M[j - 1]
  <2>1. CASE j < i
    <3>1. j \in 1 .. n /\ j # i /\ j # i + 1 /\ j # n /\ j # n + 1 /\ j <= i /\ j + 1 <= i
          /\ j + 1 \in 1 .. n + 1
      BY <1>1, <2>1
    <3>2. M[j] = L[j] /\ M[j + 1] = L[j + 1]
      BY <1>1, <3>1
    <3>3. j # 1 => M[j - 1] = L[j - 1]
      <4>1. j # 1 => j - 1 \in 1 .. n + 1 /\ j - 1 <= i
        BY <1>1, <2>1
      <4> QED BY <1>1, <4>1
    <3>4. e.node[L[j]].next = L[j + 1]
      BY <1>3, <1>4, <3>1
    <3>5. e.node[L[j]].prev = IF j = 1 THEN 0 ELSE L[j - 1]
      BY <1>3, <1>4, <1>6, <3>1
    <3> QED BY <3>1, <3>2, <3>3, <3>4, <3>5
  <2>2. CASE j = i
    <3>1. j \in 1 .. n /\ j # n + 1 /\ j <= i /\ ~(j + 1 <= i) /\ j + 1 = i + 1
          /\ j + 1 \in 1 .. n + 1
      BY <1>1, <2>2
    <3>2. M[j] = L[j] /\ M[j + 1] = new
      BY <1>1, <3>1
    <3>3. j # 1 => M[j - 1] = L[j - 1]
      <4>1. j # 1 => j - 1 \in 1 .. n + 1 /\ j - 1 <= i
        BY <1>1, <2>2
      <4> QED BY <1>1, <4>1
    <3> QED BY <1>3, <1>4, <2>2, <3>1, <3>2, <3>3
  <2>3. CASE j = i + 1
    <3>1. j # 1 /\ ~(j <= i) /\ j - 1 = i /\ i <= i /\ i \in 1 .. n + 1
      BY <1>1, <2>3
    <3>2. M[j] = new /\ M[j - 1] = L[i]
      BY <1>1, <2>3, <3>1
    <3>3. j # n + 1 => i # n /\ M[j + 1] = L[i + 1]
      <4>1. j # n + 1 => /\ i # n /\ j + 1 \in 1 .. n + 1 /\ ~(j + 1 <= i) /\ j + 1 # i + 1
                         /\ j + 1 - 1 = i + 1
        BY <1>1, <2>3
      <4> QED BY <1>1, <4>1
    <3>4. j = n + 1 => i = n
      BY <1>1, <2>3
    <3> QED BY <1>4, <1>5, <3>1, <3>2, <3>3, <3>4
  <2>4. CASE j > i + 1
    <3> DEFINE g == j - 1
    <3>1. g \in 1 .. n /\ g # i /\ j # 1 /\ ~(j <= i) /\ j # i + 1 /\ (j = n + 1 <=> g = n)
          /\ g # 1 /\ (g = i + 1 <=> j = i + 2)
      BY <1>1, <2>4
    <3>2. M[j] = L[g]
      BY <1>1, <3>1
    <3>3. j # n + 1 => M[j + 1] = L[g + 1]
      <4>1. j # n + 1 => j + 1 \in 1 .. n + 1 /\ ~(j + 1 <= i) /\ j + 1 # i + 1
        BY <1>1, <2>4
      <4>2. j + 1 - 1 = j /\ g + 1 = j
        BY <1>1
      <4> HIDE DEF g
      <4> QED BY <1>1, <4>1, <4>2, SMTT(60)
    <3>4. M[g] = IF g = i + 1 THEN new ELSE L[g - 1]
      <4>1. g \in 1 .. n + 1 /\ ~(g <= i)
        BY <1>1, <2>4
      <4> QED BY <1>1, <4>1
    <3>5. e.node[L[g]].next = IF g = n THEN 0 ELSE L[g + 1]
      BY <1>3, <1>4, <3>1
    <3>6. e.node[L[g]].prev = IF g = i + 1 THEN new ELSE L[g - 1]
      BY <1>3, <1>4, <1>6, <3>1
    <3> QED BY <3>1, <3>2, <3>3, <3>4, <3>5, <3>6
  <2> QED BY <1>1, <2>1, <2>2, <2>3, <2>4
<1> QED BY <1>1, <1>7, SMTT(60) DEF Chained

\* The halves of a full leaf and one key more.
LEMMA KeyHalves ==
    ASSUME NEW s \in Seq(Nat), Increasing(s), Len(s) = MaxCells, NEW k \in Nat, k \notin ToSet(s),
           NEW low, low = LowHalf(With(s, k)), NEW high, high = HighHalf(With(s, k))
    PROVE  HalvedAt(low, high, ToSet(s) \cup {k})
<1> DEFINE all == With(s, k)
           c == LeftSplitCount
<1>1. all = InsertAt(s, Below(s, k) + 1, k)
  BY DEF With
<1> HIDE DEF all
<1>2. /\ all \in Seq(Nat) /\ Len(all) = MaxCells + 1 /\ Increasing(all)
      /\ ToSet(all) = ToSet(s) \cup {k}
  BY <1>1, PutInOrder
<1>3. c \in Nat /\ c >= 1 /\ c < MaxCells + 1
  BY Sizes DEF LeftSplitCount
<1>4. low = SubSeq(all, 1, c) /\ high = SubSeq(all, c + 1, Len(all))
  BY DEF LowHalf, HighHalf, all
<1> HIDE DEF c
<1>5. c < Len(all)
  BY <1>2, <1>3
<1>6. HalvedAt(low, high, ToSet(all))
  <2>1. all \in Seq(Nat) /\ Increasing(all) /\ c \in Nat /\ c >= 1 /\ c < Len(all)
    BY <1>2, <1>3, <1>5
  <2> QED BY ONLY <1>4, <2>1, HalvesInOrder
<1> QED BY <1>2, <1>6

\* A full leaf is divided under a root that has others.
LEMMA SplitArranged ==
    ASSUME NEW d, NEW L, NEW Q, LeavesOf(d, L, Q), 0 \notin ToSet(L),
           NEW S, Arranged(d, L, Q, S),
           NEW k \in Nat, NEW i \in 1 .. Len(L), PlaceOf(k, i, Q),
           NEW low, NEW high, HalvedAt(low, high, KeysIn(d, L[i]) \cup {k}),
           NEW new \in Nat, NEW e, Divided(d, e, ToSet(L), L[i], new, low, high),
           NEW M, M = InsertAt(L, i + 1, new), NEW R, R = InsertAt(Q, i, Last(low))
    PROVE  Arranged(e, M, R, S \cup {k})
<1> DEFINE n == Len(L)
           mid == Last(low)
           T == KeySets(d, L)
           U == KeySets(e, M)
<1>1. /\ L \in Seq(Nat) /\ IsInjective(L) /\ Q \in Seq(Nat) /\ n \in Nat /\ n = Len(Q) + 1
      /\ \A j \in 1 .. n : d.node[L[j]].keys \in Seq(Nat)
  BY DEF LeavesOf
<1>2. /\ \A j \in 1 .. n : Increasing(d.node[L[j]].keys)
      /\ \A x : x \in S <=> \E j \in 1 .. n : x \in KeysIn(d, L[j])
  BY HoldingFacts DEF Arranged
<1>3. /\ M \in Seq(Nat) /\ Len(M) = n + 1
      /\ \A j \in 1 .. n + 1 :
            M[j] = IF j <= i THEN L[j] ELSE IF j = i + 1 THEN new ELSE L[j - 1]
  <2>1. L \in Seq(Nat) /\ i \in 1 .. Len(L) /\ new \in Nat /\ M = InsertAt(L, i + 1, new)
    BY <1>1
  <2>2. Stretched(M, L, i, new)
    BY ONLY <2>1, PutAfter
  <2> QED BY <2>2 DEF Stretched
<1>4. \A j \in 1 .. n : L[j] \in ToSet(L) /\ (j # i => L[j] # L[i])
  <2>1. L \in Seq(Nat) /\ IsInjective(L)
    BY <1>1
  <2>2. \A j \in 1 .. n : L[j] \in ToSet(L)
    BY ONLY <2>1, ToSetFacts
  <2>3. \A j, h \in 1 .. n : L[j] = L[h] => j = h
    BY ONLY <2>1 DEF IsInjective
  <2> QED BY ONLY <2>2, <2>3, i \in 1 .. n
<1>5. /\ e.node[L[i]].keys = low /\ e.node[new].keys = high
      /\ \A j \in 1 .. n : j # i => e.node[L[j]].keys = d.node[L[j]].keys
  BY <1>4 DEF Divided, LeafIs
<1>6. /\ low \in Seq(Nat) /\ Increasing(low) /\ high \in Seq(Nat) /\ Increasing(high)
      /\ KeysIn(d, L[i]) \cup {k} = ToSet(low) \cup ToSet(high)
      /\ mid \in ToSet(low) /\ Last(high) \in ToSet(high)
      /\ \A x \in ToSet(low) : x <= mid
      /\ \A x \in ToSet(high) : x > mid
  BY DEF HalvedAt
<1>7. mid \in Nat
  BY <1>6, ToSetFacts
<1> HIDE DEF n, mid, T, U
<1>8. ASSUME NEW j \in 1 .. n + 1
      PROVE  e.node[M[j]].keys = IF j < i THEN d.node[L[j]].keys
                                 ELSE IF j = i THEN low
                                 ELSE IF j = i + 1 THEN high
                                 ELSE d.node[L[j - 1]].keys
  <2>1. i \in 1 .. n /\ n \in Nat
    BY <1>1 DEF n
  <2>2. CASE j < i
    <3>1. j <= i /\ j \in 1 .. n /\ j # i
      BY <2>1, <2>2
    <3> QED BY <1>3, <1>5, <2>2, <3>1
  <2>3. CASE j = i
    <3>1. j <= i /\ ~(j < i)
      BY <2>1, <2>3
    <3> QED BY <1>3, <1>5, <2>3, <3>1
  <2>4. CASE j = i + 1
    <3>1. ~(j <= i) /\ ~(j < i) /\ j # i
      BY <2>1, <2>4
    <3> QED BY <1>3, <1>5, <2>4, <3>1
  <2>5. CASE j > i + 1
    <3>1. ~(j <= i) /\ ~(j < i) /\ j # i /\ j # i + 1 /\ j - 1 \in 1 .. n /\ j - 1 # i
      BY <2>1, <2>5
    <3> QED BY <1>3, <1>5, <3>1
  <2> QED BY <2>1, <2>2, <2>3, <2>4, <2>5
<1>9. \A j \in 1 .. n + 1 :
         /\ U[j] = KeysIn(e, M[j])
         /\ U[j] = IF j < i THEN T[j] ELSE IF j = i THEN ToSet(low)
                   ELSE IF j = i + 1 THEN ToSet(high) ELSE T[j - 1]
  <2>1. ASSUME NEW j \in 1 .. n + 1
        PROVE  /\ U[j] = KeysIn(e, M[j])
               /\ U[j] = IF j < i THEN T[j] ELSE IF j = i THEN ToSet(low)
                         ELSE IF j = i + 1 THEN ToSet(high) ELSE T[j - 1]
    <3>1. U[j] = ToSet(e.node[M[j]].keys) /\ U[j] = KeysIn(e, M[j])
      BY <1>3 DEF U, KeySets, KeysIn
    <3>2. i \in 1 .. n /\ n \in Nat
      BY <1>1 DEF n
    <3>3. CASE j < i
      <4>1. j \in 1 .. n
        BY <3>2, <3>3
      <4> QED BY <1>8, <3>1, <3>3, <4>1 DEF T, KeySets, KeysIn, n
    <3>4. CASE j = i
      <4>1. ~(j < i)
        BY <3>2, <3>4
      <4> QED BY <1>8, <3>1, <3>4, <4>1
    <3>5. CASE j = i + 1
      <4>1. ~(j < i) /\ j # i
        BY <3>2, <3>5
      <4> QED BY <1>8, <3>1, <3>5, <4>1
    <3>6. CASE j > i + 1
      <4>1. ~(j < i) /\ j # i /\ j # i + 1 /\ j - 1 \in 1 .. n
        BY <3>2, <3>6
      <4> QED BY <1>8, <3>1, <4>1 DEF T, KeySets, KeysIn, n
    <3> QED BY <3>2, <3>3, <3>4, <3>5, <3>6
  <2> QED BY <2>1
<1>10. T[i] \cup {k} = ToSet(low) \cup ToSet(high)
  BY <1>6 DEF T, KeySets
<1>11. Chained(e, M)
  <2>1. L \in Seq(Nat) /\ IsInjective(L) /\ 0 \notin ToSet(L) /\ Chained(d, L)
    BY <1>1 DEF Arranged
  <2>2. Divided(d, e, ToSet(L), L[i], new, low, high) /\ M = InsertAt(L, i + 1, new)
    OBVIOUS
  <2> QED BY ONLY <2>1, <2>2, i \in 1 .. Len(L), new \in Nat, ChainSplit
<1>12. R \in Seq(Nat) /\ Apart(U, n + 1, R)
  <2>1. Q \in Seq(Nat) /\ Apart(T, n, Q)
    BY <1>1, KeySetsFacts DEF Arranged, T, n
  <2>2. \A j \in 1 .. n : T[j] \subseteq Nat
    BY KeySetsFacts DEF T, n
  <2>3. i \in 1 .. n /\ n \in Nat /\ i + 1 \in 1 .. n + 1 /\ i \in 1 .. n + 1
        /\ ~(i + 1 < i) /\ i + 1 # i
    BY <1>1 DEF n
  <2>4. U[i] = ToSet(low) /\ U[i + 1] = ToSet(high)
    BY <1>9, <2>3
  <2>5. U[i + 1] # {} /\ (\A x \in U[i] : x <= mid) /\ (\A x \in U[i + 1] : x > mid)
        /\ mid \in T[i] \cup {k}
    BY <1>6, <1>10, <2>4
  <2>6. \A j \in 1 .. n + 1 : U[j] \subseteq IF j < i THEN T[j]
                                             ELSE IF j <= i + 1 THEN T[i] \cup {k}
                                             ELSE T[j - 1]
    <3>1. ASSUME NEW j \in 1 .. n + 1
          PROVE  U[j] \subseteq IF j < i THEN T[j]
                                ELSE IF j <= i + 1 THEN T[i] \cup {k} ELSE T[j - 1]
      <4>1. CASE j < i
        BY <1>9, <4>1
      <4>2. CASE j = i \/ j = i + 1
        <5>1. ~(j < i) /\ j <= i + 1
          BY <2>3, <4>2
        <5>2. U[j] \subseteq T[i] \cup {k}
          BY <1>10, <2>4, <4>2
        <5> QED BY <5>1, <5>2
      <4>3. CASE j > i + 1
        <5>1. ~(j < i) /\ j # i /\ j # i + 1 /\ ~(j <= i + 1)
          BY <2>3, <4>3
        <5> QED BY <1>9, <5>1
      <4> QED BY <2>3, <4>1, <4>2, <4>3
    <3> QED BY <3>1
  <2>7. R = InsertAt(Q, i, mid)
    BY DEF mid
  <2>8. k \in Nat /\ PlaceOf(k, i, Q)
    OBVIOUS
  <2> QED BY ONLY <1>7, <2>1, <2>2, <2>3, <2>5, <2>6, <2>7, <2>8, ApartSplit
<1>13. \A j \in 1 .. n + 1 : Increasing(e.node[M[j]].keys) /\ e.node[M[j]].keys \in Seq(Nat)
  <2>1. ASSUME NEW j \in 1 .. n + 1
        PROVE  Increasing(e.node[M[j]].keys) /\ e.node[M[j]].keys \in Seq(Nat)
    <3>0. n \in Nat /\ i \in 1 .. n
      BY <1>1 DEF n
    <3>1. \/ j \in 1 .. n /\ j < i
          \/ j = i
          \/ j = i + 1 /\ ~(j < i) /\ j # i
          \/ ~(j < i) /\ j # i /\ j # i + 1 /\ j - 1 \in 1 .. n
      BY ONLY <3>0, j \in 1 .. n + 1
    <3>2. \A h \in 1 .. n : Increasing(d.node[L[h]].keys) /\ d.node[L[h]].keys \in Seq(Nat)
      BY ONLY <1>1, <1>2
    <3>3. e.node[M[j]].keys = IF j < i THEN d.node[L[j]].keys
                              ELSE IF j = i THEN low
                              ELSE IF j = i + 1 THEN high
                              ELSE d.node[L[j - 1]].keys
      BY <1>8
    <3>4. CASE j \in 1 .. n /\ j < i
      BY ONLY <3>2, <3>3, <3>4
    <3>5. CASE j = i
      <4>1. ~(j < i)
        BY <1>1, <3>5 DEF n
      <4> QED BY ONLY <1>6, <3>3, <3>5, <4>1
    <3>6. CASE j = i + 1 /\ ~(j < i) /\ j # i
      BY ONLY <1>6, <3>3, <3>6
    <3>7. CASE ~(j < i) /\ j # i /\ j # i + 1 /\ j - 1 \in 1 .. n
      BY ONLY <3>2, <3>3, <3>7
    <3> QED BY <3>1, <3>4, <3>5, <3>6, <3>7
  <2> QED BY <2>1
<1>15. Separated(e, M, R)
  <2>1. \A j \in 1 .. Len(M) : U[j] = KeysIn(e, M[j])
    BY <1>3, <1>9
  <2>2. /\ n + 1 = Len(R) + 1 /\ Increasing(R)
        /\ \A m \in 1 .. Len(R), j \in 1 .. n + 1 : \A x \in U[j] : x <= R[m] <=> j <= m
    BY ONLY <1>12 DEF Apart
  <2>3. \A m \in 1 .. Len(R), j \in 1 .. Len(M) : \A x \in KeysIn(e, M[j]) :
           x <= R[m] <=> j <= m
    BY ONLY <1>3, <2>1, <2>2
  <2>4. Len(M) = Len(R) + 1 /\ Increasing(R)
    BY ONLY <1>3, <2>2
  <2> QED BY ONLY <2>3, <2>4 DEF Separated
<1>16. Holding(e, M, S \cup {k})
  <2>1. \A x : x \in S <=> \E j \in 1 .. n : x \in T[j]
    BY <1>2 DEF T, KeySets, n
  <2>2. \A x : x \in S \cup {k} <=> \E j \in 1 .. n + 1 : x \in U[j]
    <3>0. i \in 1 .. n /\ n \in Nat
      BY <1>1 DEF n
    <3>1. ASSUME NEW x \in S \cup {k}
          PROVE  \E j \in 1 .. n + 1 : x \in U[j]
      <4>1. CASE x \in T[i] \cup {k}
        <5>1. i \in 1 .. n + 1 /\ i + 1 \in 1 .. n + 1 /\ ~(i + 1 < i) /\ i + 1 # i
          BY <3>0
        <5>2. U[i] = ToSet(low) /\ U[i + 1] = ToSet(high)
          BY <1>9, <5>1
        <5> QED BY <1>10, <4>1, <5>1, <5>2
      <4>2. CASE x \notin T[i] \cup {k}
        <5>1. PICK j \in 1 .. n : x \in T[j]
          BY <2>1, <4>2
        <5>2. CASE j < i
          <6>1. j \in 1 .. n + 1
            BY <3>0
          <6> QED BY <1>9, <5>1, <5>2, <6>1
        <5>3. CASE j > i
          <6>1. j + 1 \in 1 .. n + 1 /\ ~(j + 1 < i) /\ j + 1 # i /\ j + 1 # i + 1 /\ j + 1 - 1 = j
            BY <3>0, <5>3
          <6> QED BY <1>9, <5>1, <6>1
        <5> QED BY <3>0, <4>2, <5>1, <5>2, <5>3
      <4> QED BY <4>1, <4>2
    <3>2. ASSUME NEW j \in 1 .. n + 1, NEW x \in U[j]
          PROVE  x \in S \cup {k}
      <4>1. CASE j < i
        <5>1. j \in 1 .. n
          BY <3>0, <4>1
        <5> QED BY <1>9, <2>1, <3>2, <4>1, <5>1
      <4>2. CASE j = i \/ j = i + 1
        <5>1. j = i + 1 => ~(j < i) /\ j # i
          BY <3>0
        <5>2. U[j] \subseteq T[i] \cup {k}
          BY <1>9, <1>10, <4>2, <5>1
        <5> QED BY <2>1, <3>0, <3>2, <5>2
      <4>3. CASE j > i + 1
        <5>1. ~(j < i) /\ j # i /\ j # i + 1 /\ j - 1 \in 1 .. n
          BY <3>0, <4>3
        <5> QED BY <1>9, <2>1, <3>2, <5>1
      <4> QED BY <3>0, <4>1, <4>2, <4>3
    <3> QED BY <3>1, <3>2
  <2>3. \A j \in 1 .. Len(M) : Increasing(e.node[M[j]].keys)
    BY <1>3, <1>13
  <2>4. \A x : x \in S \cup {k} <=> \E j \in 1 .. Len(M) : x \in KeysIn(e, M[j])
    BY <1>3, <1>9, <2>2, SMTT(60)
  <2> QED BY <2>3, <2>4, HoldingFacts
<1> QED BY <1>11, <1>15, <1>16 DEF Arranged

\* The rows of a table of one leaf.
LEMMA OneLeaf ==
    ASSUME NEW d, NEW p, NEW S
    PROVE  Arranged(d, <<p>>, <<>>, S) <=>
              /\ d.node[p].next = 0 /\ d.node[p].prev = 0
              /\ Increasing(d.node[p].keys) /\ S = KeysIn(d, p)
<1> DEFINE L == <<p>>
           Q == <<>>
<1>1. Len(L) = 1 /\ L[1] = p /\ Len(Q) = 0
  OBVIOUS
<1>2. \A j \in 1 .. Len(L) : j = 1 /\ j = Len(L)
  OBVIOUS
<1>3. 1 \in 1 .. Len(L)
  OBVIOUS
<1> HIDE DEF L
<1>4. Chained(d, L) <=> d.node[p].next = 0 /\ d.node[p].prev = 0
  BY <1>1, <1>2, <1>3 DEF Chained
<1>5. Separated(d, L, Q)
  BY <1>1 DEF Separated, Increasing
<1>6. Holding(d, L, S) <=> Increasing(d.node[p].keys) /\ S = KeysIn(d, p)
  <2>1. UNION {KeysIn(d, L[j]) : j \in 1 .. Len(L)} = KeysIn(d, p)
    BY <1>1, <1>2, <1>3
  <2> QED BY <1>1, <1>2, <1>3, <2>1 DEF Holding
<1> QED BY <1>4, <1>5, <1>6 DEF Arranged, L

\* The rows of a table whose root leaf has been split.
LEMMA RootSplitStores ==
    ASSUME NEW e, NEW r, NEW low, NEW high, UnderNewRoot(e, r, low, high),
           NEW K, HalvedAt(low, high, K)
    PROVE  Stores(e, r, K)
<1> DEFINE mid == Last(low)
<1>1. PICK left, right \in Nat \ {0} :
        /\ ~IsLeaf(e, r) /\ e.node[r].keys = <<mid>>
        /\ e.node[r].kids = <<left, right>>
        /\ LeafIs(e.node[left], low, right, 0)
        /\ LeafIs(e.node[right], high, 0, left)
  BY DEF UnderNewRoot
<1>2. /\ low \in Seq(Nat) /\ Increasing(low) /\ high \in Seq(Nat) /\ Increasing(high)
      /\ K = ToSet(low) \cup ToSet(high) /\ mid \in ToSet(low)
      /\ \A k \in ToSet(low) : k <= mid
      /\ \A k \in ToSet(high) : k > mid
  BY DEF HalvedAt
<1>3. mid \in Nat /\ ToSet(low) \subseteq Nat /\ ToSet(high) \subseteq Nat
  BY <1>2, ToSetFacts
<1> HIDE DEF mid
<1> DEFINE L == <<left, right>>
           Q == <<mid>>
<1>4. /\ Len(L) = 2 /\ L[1] = left /\ L[2] = right /\ Len(Q) = 1 /\ Q[1] = mid
      /\ \A j \in 1 .. 2 : j = 1 \/ j = 2
      /\ \A j \in 1 .. 1 : j = 1
      /\ 1 \in 1 .. 2 /\ 2 \in 1 .. 2 /\ 2 # 1
  BY <1>3
<1>5. Leaves(e, r) = L /\ Separators(e, r) = Q
  BY <1>1 DEF Leaves, Separators
<1> HIDE DEF L, Q
<1>6. Chained(e, L)
  <2>1. /\ e.node[L[1]].next = L[2] /\ e.node[L[1]].prev = 0
        /\ e.node[L[2]].next = 0 /\ e.node[L[2]].prev = L[1]
    BY <1>1, <1>4 DEF LeafIs
  <2>2. 1 + 1 = 2 /\ 2 - 1 = 1
    OBVIOUS
  <2> QED BY <1>4, <2>1, <2>2 DEF Chained
<1>7. KeysIn(e, L[1]) = ToSet(low) /\ KeysIn(e, L[2]) = ToSet(high)
  BY <1>1, <1>4 DEF LeafIs, KeysIn
<1>8. Separated(e, L, Q)
  <2>1. Len(L) = Len(Q) + 1
    BY <1>4
  <2>2. Increasing(Q)
    BY <1>4 DEF Increasing
  <2>3. ASSUME NEW i \in 1 .. Len(Q), NEW j \in 1 .. Len(L), NEW k \in KeysIn(e, L[j])
        PROVE  k <= Q[i] <=> j <= i
    <3>1. i = 1 /\ Q[i] = mid /\ (j = 1 \/ j = 2)
      BY <1>4
    <3>2. CASE j = 1
      BY <1>2, <1>7, <2>3, <3>1, <3>2
    <3>3. CASE j = 2
      <4>1. k \in ToSet(high)
        BY <1>7, <2>3, <3>3
      <4>2. k \in Nat /\ k > mid
        BY <1>2, <1>3, <4>1
      <4> QED BY <1>3, <3>1, <3>3, <4>2
    <3> QED BY <3>1, <3>2, <3>3
  <2> QED BY <2>1, <2>2, <2>3 DEF Separated
<1>9. Holding(e, L, K)
  <2>1. \A j \in 1 .. Len(L) : Increasing(e.node[L[j]].keys)
    BY <1>1, <1>2, <1>4 DEF LeafIs
  <2>2. \A x : x \in K <=> \E j \in 1 .. Len(L) : x \in KeysIn(e, L[j])
    BY <1>2, <1>4, <1>7
  <2> QED BY <2>1, <2>2, HoldingFacts
<1> QED BY <1>5, <1>6, <1>8, <1>9 DEF Stores, Arranged

\* M is L without its i-th element.
CutOut(M, L, i) ==
    /\ M \in Seq(Nat) /\ Len(M) = Len(L) - 1
    /\ \A j \in 1 .. Len(L) - 1 : M[j] = IF j < i THEN L[j] ELSE L[j + 1]

LEMMA TakeOut ==
    ASSUME NEW L \in Seq(Nat), NEW i \in 1 .. Len(L), NEW M, M = RemoveAt(L, i)
    PROVE  CutOut(M, L, i)
<1> DEFINE N == Nat
           u == RemoveAt(L, i)
<1>1. L \in Seq(N) /\ i \in 1 .. Len(L)
  OBVIOUS
<1>2. M = u
  OBVIOUS
<1> HIDE DEF N
<1>3. u \in Seq(N) /\ Len(u) = Len(L) - 1
  BY ONLY <1>1, RemoveAtFacts
<1>4. \A j \in 1 .. Len(L) - 1 : u[j] = IF j < i THEN L[j] ELSE L[j + 1]
  BY ONLY <1>1, RemoveAtFacts
<1> HIDE DEF u
<1> QED BY <1>2, <1>3, <1>4 DEF CutOut, N

\* The chain of the leaves, one of which is taken out.
LEMMA ChainOut ==
    ASSUME NEW d, NEW L, L \in Seq(Nat), IsInjective(L), 0 \notin ToSet(L), Chained(d, L),
           NEW i \in 1 .. Len(L), NEW e, Closed(d, e, ToSet(L), L[i]),
           NEW M, M = RemoveAt(L, i)
    PROVE  Chained(e, M)
<1> DEFINE n == Len(L)
<1>1. n \in Nat /\ i \in 1 .. n /\ Len(M) = n - 1
      /\ \A j \in 1 .. n - 1 : M[j] = IF j < i THEN L[j] ELSE L[j + 1]
  <2>1. L \in Seq(Nat) /\ i \in 1 .. Len(L) /\ M = RemoveAt(L, i)
    OBVIOUS
  <2>2. CutOut(M, L, i)
    BY ONLY <2>1, TakeOut
  <2> QED BY <2>2 DEF CutOut
<1>2. /\ \A j \in 1 .. n : L[j] \in ToSet(L) /\ L[j] # 0
      /\ \A j, h \in 1 .. n : L[j] = L[h] => j = h
  BY ToSetFacts, SMTT(60) DEF IsInjective
<1>3. \A j \in 1 .. n : /\ d.node[L[j]].next = IF j = n THEN 0 ELSE L[j + 1]
                        /\ d.node[L[j]].prev = IF j = 1 THEN 0 ELSE L[j - 1]
  BY DEF Chained
<1> DEFINE x == d.node[L[i]].next
           y == d.node[L[i]].prev
<1>4. \A j \in 1 .. n : j # i =>
         /\ e.node[L[j]].next = IF L[j] = y THEN x ELSE d.node[L[j]].next
         /\ e.node[L[j]].prev = IF L[j] = x THEN y ELSE d.node[L[j]].prev
  BY <1>1, <1>2 DEF Closed, LeafIs
<1>5. /\ x = IF i = n THEN 0 ELSE L[i + 1]
      /\ y = IF i = 1 THEN 0 ELSE L[i - 1]
  BY <1>3
<1> HIDE DEF n, x, y
<1>6. ASSUME NEW j \in 1 .. n, j # i
      PROVE  (L[j] = x <=> j = i + 1) /\ (L[j] = y <=> j = i - 1)
  <2>1. L[j] = x <=> j = i + 1
    <3>1. CASE i = n
      BY <1>1, <1>2, <1>5, <1>6, <3>1
    <3>2. CASE i # n
      <4>1. i + 1 \in 1 .. n
        BY <1>1, <3>2
      <4> QED BY <1>1, <1>2, <1>5, <3>2, <4>1
    <3> QED BY <3>1, <3>2
  <2>2. L[j] = y <=> j = i - 1
    <3>1. CASE i = 1
      BY <1>1, <1>2, <1>5, <1>6, <3>1
    <3>2. CASE i # 1
      <4>1. i - 1 \in 1 .. n
        BY <1>1, <3>2
      <4> QED BY <1>1, <1>2, <1>5, <3>2, <4>1
    <3> QED BY <3>1, <3>2
  <2> QED BY <2>1, <2>2
<1>7. ASSUME NEW j \in 1 .. n - 1
      PROVE  /\ e.node[M[j]].next = IF j = n - 1 THEN 0 ELSE M[j + 1]
             /\ e.node[M[j]].prev = IF j = 1 THEN 0 ELSE M[j - 1]
  <2>1. CASE j < i
    <3>1. j \in 1 .. n /\ j # i /\ j # i + 1 /\ j # n /\ j + 1 \in 1 .. n
      BY <1>1, <2>1
    <3>2. M[j] = L[j]
      BY <1>1, <2>1
    <3>3. j # 1 => M[j - 1] = L[j - 1]
      <4>1. j # 1 => j - 1 \in 1 .. n - 1 /\ j - 1 < i
        BY <1>1, <2>1
      <4> QED BY <1>1, <4>1
    <3>4. e.node[L[j]].prev = IF j = 1 THEN 0 ELSE L[j - 1]
      BY <1>3, <1>4, <1>6, <3>1
    <3>5. e.node[L[j]].next = IF j = n - 1 THEN 0 ELSE M[j + 1]
      <4>1. CASE j = i - 1
        <5>1. e.node[L[j]].next = x
          BY <1>4, <1>6, <3>1, <4>1
        <5>2. j + 1 = i /\ (j = n - 1 <=> i = n) /\ ~(i < i)
          BY <1>1, <4>1
        <5>3. j # n - 1 => i \in 1 .. n - 1
          BY <1>1, <5>2
        <5>4. j # n - 1 => M[j + 1] = L[i + 1]
          BY <1>1, <5>2, <5>3
        <5> QED BY <1>5, <5>1, <5>2, <5>4
      <4>2. CASE j # i - 1
        <5>1. e.node[L[j]].next = L[j + 1]
          BY <1>3, <1>4, <1>6, <3>1, <4>2
        <5>2. j + 1 < i /\ j # n - 1 /\ j + 1 \in 1 .. n - 1
          BY <1>1, <2>1, <4>2
        <5> QED BY <1>1, <5>1, <5>2
      <4> QED BY <4>1, <4>2
    <3> QED BY <3>2, <3>3, <3>4, <3>5
  <2>2. CASE j >= i
    <3> DEFINE g == j + 1
    <3>1. g \in 1 .. n /\ g # i /\ g # i - 1 /\ ~(j < i) /\ (g = n <=> j = n - 1) /\ g # 1
          /\ (g = i + 1 <=> j = i) /\ g - 1 = j
      BY <1>1, <2>2
    <3>2. M[j] = L[g]
      BY <1>1, <3>1
    <3>3. j # n - 1 => M[j + 1] = L[g + 1]
      <4>1. j # n - 1 => g \in 1 .. n - 1 /\ ~(g < i)
        BY <1>1, <2>2
      <4> HIDE DEF g
      <4>2. j # n - 1 => M[g] = L[g + 1]
        BY <1>1, <4>1
      <4> QED BY <4>2 DEF g
    <3> HIDE DEF g
    <3>4. e.node[L[g]].next = IF g = n THEN 0 ELSE L[g + 1]
      BY <1>3, <1>4, <1>6, <3>1
    <3>5. e.node[L[g]].prev = IF j = 1 THEN 0 ELSE M[j - 1]
      <4>1. CASE j = i
        <5>1. e.node[L[g]].prev = y
          BY <1>4, <1>6, <3>1, <4>1
        <5>2. i # 1 => M[i - 1] = L[i - 1]
          <6>1. i # 1 => i - 1 \in 1 .. n - 1 /\ i - 1 < i
            BY <1>1
          <6> QED BY <1>1, <6>1
        <5> QED BY <1>5, <4>1, <5>1, <5>2
      <4>2. CASE j # i
        <5>1. e.node[L[g]].prev = L[g - 1]
          BY <1>3, <1>4, <1>6, <3>1, <4>2
        <5>2. j # 1 /\ j - 1 \in 1 .. n - 1 /\ ~(j - 1 < i) /\ j - 1 + 1 = j
          BY <1>1, <2>2, <4>2
        <5>3. M[j - 1] = L[j]
          BY <1>1, <5>2
        <5> QED BY <3>1, <5>1, <5>2, <5>3
      <4> QED BY <4>1, <4>2
    <3> QED BY <3>1, <3>2, <3>3, <3>4, <3>5
  <2> QED BY <1>1, <2>1, <2>2
<1> QED BY <1>1, <1>7 DEF Chained

\* The leaf whose only key is k is taken out, under a root that keeps others.
LEMMA OutArranged ==
    ASSUME NEW d, NEW L, NEW Q, LeavesOf(d, L, Q), 0 \notin ToSet(L), Len(Q) >= 1,
           NEW S, Arranged(d, L, Q, S),
           NEW i \in 1 .. Len(L), NEW k, KeysIn(d, L[i]) = {k},
           NEW e, Closed(d, e, ToSet(L), L[i]),
           NEW M, M = RemoveAt(L, i),
           NEW R, R = IF i = Len(L) THEN Front(Q) ELSE RemoveAt(Q, i)
    PROVE  Arranged(e, M, R, S \ {k})
<1> DEFINE n == Len(L)
           T == KeySets(d, L)
           U == KeySets(e, M)
<1>1. /\ L \in Seq(Nat) /\ IsInjective(L) /\ Q \in Seq(Nat) /\ n \in Nat /\ n = Len(Q) + 1
  BY DEF LeavesOf
<1>2. /\ \A j \in 1 .. n : Increasing(d.node[L[j]].keys)
      /\ \A x : x \in S <=> \E j \in 1 .. n : x \in KeysIn(d, L[j])
  BY HoldingFacts DEF Arranged
<1>3. /\ M \in Seq(Nat) /\ Len(M) = n - 1
      /\ \A j \in 1 .. n - 1 : M[j] = IF j < i THEN L[j] ELSE L[j + 1]
  <2>1. L \in Seq(Nat) /\ i \in 1 .. Len(L) /\ M = RemoveAt(L, i)
    BY <1>1
  <2>2. CutOut(M, L, i)
    BY ONLY <2>1, TakeOut
  <2> QED BY <2>2 DEF CutOut
<1>4. \A j \in 1 .. n : j # i => L[j] \in ToSet(L) \ {L[i]}
  <2>1. \A j \in 1 .. n : L[j] \in ToSet(L)
    BY <1>1, ToSetFacts
  <2>2. \A j, h \in 1 .. n : L[j] = L[h] => j = h
    <3>1. L \in Seq(Nat) /\ IsInjective(L)
      BY <1>1
    <3> QED BY ONLY <3>1 DEF IsInjective
  <2> HIDE DEF n
  <2>3. i \in 1 .. n
    BY DEF n
  <2> QED BY <2>1, <2>2, <2>3
<1>5. \A j \in 1 .. n : j # i => e.node[L[j]].keys = d.node[L[j]].keys
  BY <1>4 DEF Closed, LeafIs
<1>6. Chained(e, M)
  <2>1. L \in Seq(Nat) /\ IsInjective(L) /\ 0 \notin ToSet(L) /\ Chained(d, L)
    BY <1>1 DEF Arranged
  <2>2. Closed(d, e, ToSet(L), L[i]) /\ M = RemoveAt(L, i)
    OBVIOUS
  <2> QED BY ONLY <2>1, <2>2, i \in 1 .. Len(L), ChainOut
<1>7. Q \in Seq(Nat) /\ Apart(T, n, Q)
  BY <1>1, KeySetsFacts DEF Arranged
<1>8. T[i] = {k} /\ \A j \in 1 .. n : T[j] = KeysIn(d, L[j])
  BY DEF KeySets
<1>9. \A j \in 1 .. n : j # i => k \notin T[j]
  <2>1. k \in T[i] /\ i \in 1 .. n
    BY <1>8
  <2> HIDE DEF n, T
  <2> QED BY ONLY <1>7, <2>1, ApartDisjoint
<1> HIDE DEF n, T, U
<1>10. ASSUME NEW j \in 1 .. n - 1
       PROVE  LET g == IF j < i THEN j ELSE j + 1
              IN  /\ g \in 1 .. n /\ g # i /\ M[j] = L[g]
                  /\ U[j] = T[g] /\ KeysIn(e, M[j]) = T[g]
                  /\ e.node[M[j]].keys = d.node[L[g]].keys
  <2> DEFINE g == IF j < i THEN j ELSE j + 1
  <2>1. g \in 1 .. n /\ g # i
    <3>1. n \in Nat /\ i \in 1 .. n
      BY <1>1 DEF n
    <3> QED BY <3>1
  <2>2. M[j] = L[g]
    BY <1>3
  <2> HIDE DEF g
  <2>3. e.node[M[j]].keys = d.node[L[g]].keys
    BY <1>5, <2>1, <2>2
  <2>4. KeysIn(e, M[j]) = T[g]
    BY <1>8, <2>1, <2>3 DEF KeysIn
  <2>5. U[j] = KeysIn(e, M[j])
    BY <1>3 DEF U, KeySets
  <2> QED BY <2>1, <2>2, <2>3, <2>4, <2>5 DEF g
<1>11. \A j \in 1 .. n - 1 : U[j] = IF j < i THEN T[j] ELSE T[j + 1]
  BY <1>10
<1>12. R \in Seq(Nat) /\ Apart(U, n - 1, R)
  <2>1. R = (IF i = n THEN Front(Q) ELSE RemoveAt(Q, i)) /\ i \in 1 .. n /\ Len(Q) >= 1
    BY DEF n
  <2> QED BY ONLY <1>7, <1>11, <2>1, ApartOut
<1>13. \A j \in 1 .. Len(M) : U[j] = KeysIn(e, M[j]) /\ Increasing(e.node[M[j]].keys)
  BY <1>2, <1>3, <1>10, ZenonT(60) DEF n
<1>14. Separated(e, M, R)
  <2>1. /\ n - 1 = Len(R) + 1 /\ Increasing(R)
        /\ \A m \in 1 .. Len(R), j \in 1 .. n - 1 : \A x \in U[j] : x <= R[m] <=> j <= m
    BY ONLY <1>12 DEF Apart
  <2>2. \A m \in 1 .. Len(R), j \in 1 .. Len(M) : \A x \in KeysIn(e, M[j]) :
           x <= R[m] <=> j <= m
    BY ONLY <1>3, <1>13, <2>1, ZenonT(60)
  <2>3. Len(M) = Len(R) + 1 /\ Increasing(R)
    BY ONLY <1>3, <2>1
  <2> QED BY ONLY <2>2, <2>3 DEF Separated
<1>15. Holding(e, M, S \ {k})
  <2>1. \A x : x \in S <=> \E j \in 1 .. n : x \in T[j]
    BY <1>2, <1>8 DEF n
  <2>2. ASSUME NEW x \in S \ {k}
        PROVE  \E j \in 1 .. n - 1 : x \in U[j]
    <3>1. PICK h \in 1 .. n : x \in T[h]
      BY <2>1
    <3>2. h # i
      BY <1>8, <3>1
    <3>3. CASE h < i
      <4>1. h \in 1 .. n - 1
        BY <1>1, <3>3 DEF n
      <4> QED BY <1>11, <3>1, <3>3, <4>1
    <3>4. CASE h > i
      <4>1. h - 1 \in 1 .. n - 1 /\ ~(h - 1 < i) /\ h - 1 + 1 = h
        BY <1>1, <3>4 DEF n
      <4> QED BY <1>11, <3>1, <4>1
    <3> QED BY <1>1, <3>2, <3>3, <3>4 DEF n
  <2>3. ASSUME NEW j \in 1 .. n - 1, NEW x \in U[j]
        PROVE  x \in S \ {k}
    <3> DEFINE g == IF j < i THEN j ELSE j + 1
    <3>1. g \in 1 .. n /\ g # i /\ U[j] = T[g]
      BY <1>10
    <3> HIDE DEF g
    <3> QED BY <1>9, <2>1, <2>3, <3>1
  <2>4. \A x : x \in S \ {k} <=> \E j \in 1 .. n - 1 : x \in U[j]
    BY <2>2, <2>3
  <2>5. Len(M) = n - 1 /\ \A j \in 1 .. n - 1 : U[j] = KeysIn(e, M[j])
    BY <1>3, <1>13
  <2>6. \A x : x \in S \ {k} <=> \E j \in 1 .. Len(M) : x \in KeysIn(e, M[j])
    <3>1. ASSUME NEW x
          PROVE  x \in S \ {k} <=> \E j \in 1 .. n - 1 : x \in KeysIn(e, M[j])
      <4>1. x \in S \ {k} <=> \E j \in 1 .. n - 1 : x \in U[j]
        BY ONLY <2>4
      <4> QED BY ONLY <2>5, <4>1
    <3> QED BY ONLY <2>5, <3>1
  <2> QED BY <1>13, <2>6, HoldingFacts
<1> QED BY <1>6, <1>14, <1>15 DEF Arranged

\* The leaf whose only key is k is taken out, and the other one of two becomes
\* the root.
LEMMA CollapseStores ==
    ASSUME NEW d, NEW L, NEW Q, LeavesOf(d, L, Q), Len(Q) = 1,
           NEW S, Arranged(d, L, Q, S),
           NEW i \in 1 .. Len(L), NEW k, KeysIn(d, L[i]) = {k},
           NEW j \in 1 .. Len(L), j # i,
           NEW e, NEW r, OneTree(e, r), IsLeaf(e, r), e.node[r].keys = d.node[L[j]].keys
    PROVE  Stores(e, r, S \ {k})
<1> DEFINE T == KeySets(d, L)
           n == Len(L)
<1>1. n = 2 /\ \A h \in 1 .. n : h = i \/ h = j
  <2>1. n = 2
    BY DEF LeavesOf
  <2> HIDE DEF n
  <2>2. i \in 1 .. n /\ j \in 1 .. n /\ i # j
    BY DEF n
  <2> QED BY <2>1, <2>2
<1>2. /\ \A h \in 1 .. n : Increasing(d.node[L[h]].keys)
      /\ \A x : x \in S <=> \E h \in 1 .. n : x \in KeysIn(d, L[h])
  BY HoldingFacts DEF Arranged
<1>3. k \notin KeysIn(d, L[j])
  <2>1. Q \in Seq(Nat) /\ Apart(T, n, Q)
    BY KeySetsFacts DEF Arranged, LeavesOf
  <2>2. k \in T[i] /\ i \in 1 .. n /\ j \in 1 .. n
    BY DEF KeySets
  <2>3. T[j] = KeysIn(d, L[j])
    BY DEF KeySets
  <2> HIDE DEF n, T
  <2>4. k \in T[j] => i = j
    BY ONLY <2>1, <2>2, ApartDisjoint
  <2> QED BY <2>3, <2>4
<1>4. S \ {k} = KeysIn(d, L[j])
  BY <1>1, <1>2, <1>3
<1>5. KeysIn(e, r) = KeysIn(d, L[j])
  BY DEF KeysIn
<1>6. Increasing(e.node[r].keys)
  BY <1>2
<1>7. e.node[r].next = 0 /\ e.node[r].prev = 0
  BY DEF OneTree, Tree, RootLeaf
<1>8. Arranged(e, <<r>>, <<>>, S \ {k})
  BY <1>4, <1>5, <1>6, <1>7, OneLeaf, ZenonT(60)
<1> QED BY <1>8 DEF Stores, Leaves, Separators

\* A leaf that gets other keys leaves the leaves and separators as they are.
LEMMA SameLeaves ==
    ASSUME NEW d, NEW r, OneTree(d, r), NEW p \in LeavesBelow(d, r), NEW ks, NEW e,
           OnlyKeys(d, e, p, ks)
    PROVE  /\ Leaves(e, r) = Leaves(d, r) /\ Separators(e, r) = Separators(d, r)
           /\ \A j \in 1 .. Len(Leaves(d, r)) :
                 Leaves(d, r)[j] # p => e.node[Leaves(d, r)[j]] = d.node[Leaves(d, r)[j]]
<1>1. Tree(d, r) /\ (IsLeaf(d, r) <=> p = r) /\ r \in 0 .. d.num - 1
  BY LeafShape DEF OneTree, Tree
<1>2. \A q \in 0 .. d.num - 1 : q # p => e.node[q] = d.node[q]
  BY DEF OnlyKeys
<1>3. LeafNode(e.node[p])
  BY DEF OnlyKeys
<1>4. Leaves(e, r) = Leaves(d, r) /\ Separators(e, r) = Separators(d, r)
  <2>1. CASE p = r
    <3>1. IsLeaf(e, r)
      BY <1>3, <2>1, LeafKind DEF IsLeaf
    <3> QED BY <1>1, <2>1, <3>1 DEF Leaves, Separators
  <2>2. CASE p # r
    <3>1. e.node[r] = d.node[r] /\ ~IsLeaf(d, r)
      BY <1>1, <1>2, <2>2
    <3>2. ~IsLeaf(e, r)
      BY <3>1 DEF IsLeaf
    <3> QED BY <3>1, <3>2 DEF Leaves, Separators
  <2> QED BY <2>1, <2>2
<1>5. \A x \in LeavesBelow(d, r) : x \in 0 .. d.num - 1
  BY <1>1, LeafShape
<1>6. \A j \in 1 .. Len(Leaves(d, r)) : Leaves(d, r)[j] \in LeavesBelow(d, r)
  BY TreeLeaves
<1> QED BY <1>2, <1>4, <1>5, <1>6

\* A tree with several leaves, by its root.
LEMMA InnerLeaves ==
    ASSUME NEW d, NEW r, OneTree(d, r), ~IsLeaf(d, r)
    PROVE  /\ Leaves(d, r) = d.node[r].kids /\ Separators(d, r) = d.node[r].keys
           /\ LeavesBelow(d, r) = ToSet(d.node[r].kids)
           /\ RootInner(d.node[r])
           /\ Len(d.node[r].keys) >= 1 /\ Len(d.node[r].keys) \in Nat
           /\ Len(d.node[r].kids) = Len(d.node[r].keys) + 1
<1>1. RootInner(d.node[r])
  BY DEF OneTree, Tree
<1>2. Len(d.node[r].keys) >= 1 /\ Len(d.node[r].keys) \in Nat
      /\ Len(d.node[r].kids) = Len(d.node[r].keys) + 1
  BY <1>1, Sizes DEF RootInner
<1> QED BY <1>1, <1>2 DEF Leaves, Separators, LeavesBelow, Kids

\* Deleting a cell takes its row out of the table.
LEMMA RowsDeleted ==
    ASSUME NEW d, NEW r, OneTree(d, r), NEW S, Stores(d, r, S),
           NEW p \in LeavesBelow(d, r), NEW m \in 1 .. Len(d.node[p].keys),
           NEW e, e = DeleteCell(d, r, p, m)
    PROVE  Stores(e, r, S \ {d.node[p].keys[m]})
<1> DEFINE L == Leaves(d, r)
           Q == Separators(d, r)
           s == d.node[p].keys
           k == s[m]
<1>1. OneTree(e, r) /\ CellGone(d, e, r, p, m)
  BY CellDeleted DEF Kept
<1>2. /\ LeavesOf(d, L, Q) /\ Arranged(d, L, Q, S)
      /\ \A x : x \in LeavesBelow(d, r) <=> \E j \in 1 .. Len(L) : L[j] = x
  BY TreeLeaves DEF Stores
<1>3. PICK i \in 1 .. Len(L) : L[i] = p
  BY <1>2
<1>4. s \in Seq(Nat) /\ m \in 1 .. Len(s)
  BY <1>2, <1>3 DEF LeavesOf
<1>5. CASE p = r \/ RemoveAt(s, m) # <<>>
  <2>1. OnlyKeys(d, e, p, RemoveAt(s, m))
    BY <1>1, <1>5 DEF CellGone
  <2>2. Leaves(e, r) = L /\ Separators(e, r) = Q
        /\ \A j \in 1 .. Len(L) : L[j] # p => e.node[L[j]] = d.node[L[j]]
    BY <2>1, SameLeaves
  <2>3. \A j \in 1 .. Len(L) : j # i => e.node[L[j]] = d.node[L[j]]
    <3>1. \A j \in 1 .. Len(L) : L[j] = L[i] => j = i
      <4>1. L \in Seq(Nat) /\ IsInjective(L)
        BY <1>2 DEF LeavesOf
      <4> HIDE DEF L
      <4> QED BY ONLY <4>1, i \in 1 .. Len(L) DEF IsInjective
    <3> QED BY <1>3, <2>2, <3>1
  <2>4. LeafIs(e.node[L[i]], RemoveAt(d.node[L[i]].keys, m), d.node[L[i]].next, d.node[L[i]].prev)
    BY <1>3, <2>1 DEF OnlyKeys
  <2>5. m \in 1 .. Len(d.node[L[i]].keys)
    BY <1>3
  <2> HIDE DEF L, Q
  <2>6. Arranged(e, L, Q, S \ {d.node[L[i]].keys[m]})
    BY ONLY <1>2, i \in 1 .. Len(L), <2>3, <2>4, <2>5, TakeArranged
  <2> QED BY <1>3, <2>2, <2>6 DEF Stores
<1>6. CASE ~(p = r \/ RemoveAt(s, m) # <<>>)
  <2>1. Removed(d, e, r, ToSet(d.node[r].kids), p)
    BY <1>1, <1>6 DEF CellGone
  <2>2. ~IsLeaf(d, r)
    BY <1>6, LeafShape DEF OneTree
  <2> DEFINE n == d.node[r]
  <2>3. L = n.kids /\ Q = n.keys /\ RootInner(n) /\ Len(Q) >= 1 /\ Len(Q) \in Nat
        /\ 0 \notin ToSet(L) /\ Len(L) = Len(Q) + 1
    BY <2>2, InnerLeaves, TreeLeaves, SMTT(60)
  <2>4. PICK h \in 1 .. Len(n.kids) :
          /\ n.kids[h] = p
          /\ IF Len(n.keys) = 1
             THEN \E c \in ToSet(n.kids) \ {p} :
                     /\ ToSet(n.kids) = {p, c} /\ IsLeaf(e, r)
                     /\ e.node[r].keys = d.node[c].keys
             ELSE e.node[r] = Cut(n, h) /\ Closed(d, e, ToSet(n.kids), p)
    BY <2>1 DEF Removed
  <2>5. KeysIn(d, L[h]) = {k}
    <3>1. RemoveAt(s, m) \in Seq(Nat) /\ Len(RemoveAt(s, m)) = Len(s) - 1
      BY ONLY <1>4, RemoveAtFacts
    <3>2. RemoveAt(s, m) = <<>>
      BY <1>6
    <3>3. Len(RemoveAt(s, m)) = 0
      BY <3>2
    <3> DEFINE l == Len(s)
    <3> HIDE DEF s
    <3>4. Len(s) = 1 /\ m = 1
      <4>1. l - 1 = 0 /\ l \in Nat /\ m \in 1 .. l
        BY <1>4, <3>1, <3>3
      <4> HIDE DEF l
      <4>2. l = 1 /\ m = 1
        BY <4>1
      <4> QED BY <4>2 DEF l
    <3>5. \A x : x \in ToSet(s) <=> \E j \in 1 .. Len(s) : s[j] = x
      BY ONLY <1>4, ToSetFacts
    <3>6. ToSet(s) = {s[1]}
      BY <3>4, <3>5
    <3> QED BY <2>3, <2>4, <3>4, <3>6 DEF KeysIn, s
  <2>6. h \in 1 .. Len(L) /\ L[h] = p
    BY <2>3, <2>4
  <2>7. CASE Len(Q) = 1
    <3>1. PICK c \in ToSet(n.kids) \ {p} : IsLeaf(e, r) /\ e.node[r].keys = d.node[c].keys
      BY <2>3, <2>4, <2>7
    <3>2. PICK j \in 1 .. Len(L) : L[j] = c
      <4>1. L \in Seq(Nat) /\ c \in ToSet(L)
        BY <1>2, <2>3 DEF LeavesOf
      <4> HIDE DEF L
      <4> QED BY ONLY <4>1, ToSetFacts
    <3>3. j # h
      BY <2>6, <3>1, <3>2
    <3>4. e.node[r].keys = d.node[L[j]].keys
      BY <3>1, <3>2
    <3>6. LeavesOf(d, L, Q) /\ Arranged(d, L, Q, S) /\ Len(Q) = 1
      BY <1>2, <2>7
    <3>7. OneTree(e, r) /\ IsLeaf(e, r) /\ h \in 1 .. Len(L)
      BY <1>1, <2>6, <3>1
    <3>8. j \in 1 .. Len(L)
      OBVIOUS
    <3> HIDE DEF L, Q, k
    <3>5. Stores(e, r, S \ {k})
      BY ONLY <2>5, <3>3, <3>4, <3>6, <3>7, <3>8, CollapseStores
    <3> QED BY <3>5 DEF k
  <2>8. CASE Len(Q) # 1
    <3>1. e.node[r] = Cut(n, h) /\ Closed(d, e, ToSet(L), L[h])
      BY <2>3, <2>4, <2>6, <2>8
    <3>2. ~IsLeaf(e, r) /\ e.node[r].kids = RemoveAt(L, h)
          /\ e.node[r].keys = IF h = Len(L) THEN Front(Q) ELSE RemoveAt(Q, h)
      BY <2>3, <3>1 DEF Cut, InnerRec, IsLeaf
    <3> DEFINE M == e.node[r].kids
               R == e.node[r].keys
    <3>3. Leaves(e, r) = M /\ Separators(e, r) = R
      BY <3>2 DEF Leaves, Separators
    <3>4. M = RemoveAt(L, h) /\ R = IF h = Len(L) THEN Front(Q) ELSE RemoveAt(Q, h)
      BY <3>2
    <3>5. 0 \notin ToSet(L) /\ Len(Q) >= 1
      BY <2>3
    <3> HIDE DEF L, Q, k, M, R
    <3>6. Arranged(e, M, R, S \ {k})
      BY ONLY <1>2, <2>5, <2>6, <3>1, <3>4, <3>5, OutArranged
    <3> QED BY <3>3, <3>6 DEF Stores, k
  <2> QED BY <2>7, <2>8
<1> QED BY <1>5, <1>6

----------------------------------------------------------------------------
(* The parent of a leaf that splits.                                       *)

\* t is s with x as its i-th element.
PutAt(t, s, i, x) ==
    /\ t \in Seq(Nat) /\ Len(t) = Len(s) + 1
    /\ \A j \in 1 .. Len(s) + 1 :
          t[j] = IF j < i THEN s[j] ELSE IF j = i THEN x ELSE s[j - 1]

LEMMA PutAtIs ==
    ASSUME NEW s \in Seq(Nat), NEW x \in Nat, NEW i \in 1 .. Len(s) + 1
    PROVE  PutAt(InsertAt(s, i, x), s, i, x)
<1> DEFINE N == Nat
           u == InsertAt(s, i, x)
<1>1. s \in Seq(N) /\ x \in N /\ i \in 1 .. Len(s) + 1
  OBVIOUS
<1> HIDE DEF N
<1>2. u \in Seq(N) /\ Len(u) = Len(s) + 1
  BY ONLY <1>1, InsertAtFacts
<1>3. ASSUME NEW j \in 1 .. Len(s) + 1
      PROVE  u[j] = IF j < i THEN s[j] ELSE IF j = i THEN x ELSE s[j - 1]
  BY ONLY <1>1, j \in 1 .. Len(s) + 1, InsertAtFacts
<1> HIDE DEF u
<1>4. PutAt(u, s, i, x)
  BY <1>2, <1>3 DEF PutAt, N
<1> QED BY <1>4 DEF u

\* There is one such sequence.
LEMMA PutAtOne ==
    ASSUME NEW s, NEW i, NEW x, NEW t, PutAt(t, s, i, x), NEW u, PutAt(u, s, i, x)
    PROVE  t = u
<1>1. /\ t \in Seq(Nat) /\ u \in Seq(Nat) /\ Len(t) = Len(u)
      /\ \A j \in 1 .. Len(t) : t[j] = u[j]
  BY DEF PutAt
<1> QED BY <1>1, SeqEqual

LEMMA AppendIsPut ==
    ASSUME NEW s \in Seq(Nat), NEW x \in Nat
    PROVE  Append(s, x) = InsertAt(s, Len(s) + 1, x)
<1> DEFINE i == Len(s) + 1
           a == Append(s, x)
<1>1. i \in 1 .. Len(s) + 1 /\ Len(s) \in Nat
  OBVIOUS
<1>2. /\ a \in Seq(Nat) /\ Len(a) = Len(s) + 1
      /\ \A j \in 1 .. Len(s) : a[j] = s[j]
      /\ a[Len(s) + 1] = x
  BY AppendProperties
<1> HIDE DEF a
<1>3. ASSUME NEW j \in 1 .. Len(s) + 1
      PROVE  a[j] = IF j < i THEN s[j] ELSE IF j = i THEN x ELSE s[j - 1]
  <2>1. CASE j < i
    <3>1. j \in 1 .. Len(s)
      BY <1>1, <2>1
    <3> QED BY <1>2, <2>1, <3>1
  <2>2. CASE j = i
    <3>1. ~(j < i)
      BY <1>1, <2>2
    <3> QED BY <1>2, <2>2, <3>1
  <2> QED BY <1>1, <2>1, <2>2
<1>4. PutAt(a, s, i, x)
  BY <1>2, <1>3 DEF PutAt
<1>5. PutAt(InsertAt(s, i, x), s, i, x)
  BY <1>1, PutAtIs
<1> HIDE DEF i
<1>6. a = InsertAt(s, i, x)
  BY ONLY <1>4, <1>5, PutAtOne
<1> QED BY <1>6 DEF a, i

LEMMA ReplaceAtIs ==
    ASSUME NEW s \in Seq(Nat), NEW i \in 1 .. Len(s), NEW x \in Nat,
           NEW t, t = ReplaceAt(s, i, x)
    PROVE  /\ t \in Seq(Nat) /\ Len(t) = Len(s)
           /\ \A j \in 1 .. Len(s) : t[j] = IF j = i THEN x ELSE s[j]
<1>1. t \in Seq(Nat) /\ Len(t) = Len(s)
  BY ReplaceAtFacts
<1>2. DOMAIN s = 1 .. Len(s)
  OBVIOUS
<1>3. t = [s EXCEPT ![i] = x]
  BY DEF ReplaceAt
<1> QED BY <1>1, <1>2, <1>3

\* A separator that is lowered to x, and put back above it.
LEMMA ReplacedThenPut ==
    ASSUME NEW s \in Seq(Nat), NEW i \in 1 .. Len(s), NEW x \in Nat
    PROVE  InsertAt(ReplaceAt(s, i, x), i + 1, s[i]) = InsertAt(s, i, x)
<1> DEFINE t == ReplaceAt(s, i, x)
           n == Len(s)
           y == s[i]
           u == InsertAt(t, i + 1, y)
<1>1. /\ t \in Seq(Nat) /\ Len(t) = n
      /\ \A j \in 1 .. n : t[j] = IF j = i THEN x ELSE s[j]
  BY ReplaceAtIs
<1>2. n \in Nat /\ i \in 1 .. n /\ y \in Nat /\ i + 1 \in 1 .. n + 1 /\ i \in 1 .. n + 1
  OBVIOUS
<1>3. PutAt(u, t, i + 1, y)
  <2> HIDE DEF t, y
  <2>1. i + 1 \in 1 .. Len(t) + 1
    BY <1>1, <1>2
  <2> QED BY <1>1, <1>2, <2>1, PutAtIs
<1>4. PutAt(InsertAt(s, i, x), s, i, x)
  BY <1>2, PutAtIs
<1>5. /\ u \in Seq(Nat) /\ Len(u) = n + 1
      /\ \A j \in 1 .. n + 1 :
            u[j] = IF j < i + 1 THEN t[j] ELSE IF j = i + 1 THEN y ELSE t[j - 1]
  BY <1>1, <1>3 DEF PutAt
<1> HIDE DEF t, n, u
<1>6. ASSUME NEW j \in 1 .. n + 1
      PROVE  u[j] = IF j < i THEN s[j] ELSE IF j = i THEN x ELSE s[j - 1]
  <2>1. u[j] = IF j < i + 1 THEN t[j] ELSE IF j = i + 1 THEN y ELSE t[j - 1]
    BY <1>5
  <2>2. CASE j < i
    <3>1. j \in 1 .. n /\ j < i + 1 /\ j # i
      BY <1>2, <2>2
    <3> QED BY <1>1, <2>1, <2>2, <3>1
  <2>3. CASE j = i
    <3>1. j \in 1 .. n /\ j < i + 1 /\ ~(j < i)
      BY <1>2, <2>3
    <3> QED BY <1>1, <2>1, <2>3, <3>1
  <2>4. CASE j = i + 1
    <3>1. ~(j < i + 1) /\ ~(j < i) /\ j # i /\ j - 1 = i
      BY <1>2, <2>4
    <3> QED BY <2>1, <2>4, <3>1
  <2>5. CASE j > i + 1
    <3>1. ~(j < i + 1) /\ ~(j < i) /\ j # i /\ j # i + 1 /\ j - 1 # i /\ j - 1 \in 1 .. n
      BY <1>2, <2>5
    <3> QED BY <1>1, <2>1, <3>1
  <2> QED BY <1>2, <2>2, <2>3, <2>4, <2>5
<1>7. PutAt(u, s, i, x)
  BY <1>5, <1>6 DEF PutAt, n
<1>8. u = InsertAt(s, i, x)
  BY <1>4, <1>7, PutAtOne
<1> QED BY <1>8 DEF u, t

\* What the search for a separator that the sequence does not have leaves.
LEMMA NotSeparator ==
    ASSUME NEW n, RootInner(n), NEW old, NEW x, \A j \in 1 .. Len(n.keys) : n.keys[j] # old
    PROVE  UpdateSeparator(n, old, x) = n
<1> DEFINE i  == CHOOSE i \in DOMAIN n.keys :
                   n.keys[i] = old /\ \A j \in 1 .. i - 1 : n.keys[j] # old
           ks == IF Contains(n.keys, old) THEN ReplaceAt(n.keys, i, x) ELSE n.keys
<1>1. UpdateSeparator(n, old, x) = WithKeys(n, ks)
  BY Zenon DEF UpdateSeparator, WithKeys
<1>2. ks = n.keys
  BY DEF Contains
<1> HIDE DEF ks
<1>3. WithKeys(n, n.keys) = InnerFrom(n, n.keys, n.kids)
  BY InnerSets
<1>4. InnerFrom(n, n.keys, n.kids) = n
  BY DEF InnerFrom, RootInner
<1> QED BY <1>1, <1>2, <1>3, <1>4

\* The separator that is found is replaced.
LEMMA SeparatorReplaced ==
    ASSUME NEW n, RootInner(n), NEW i \in 1 .. Len(n.keys), NEW x,
           \A j \in 1 .. Len(n.keys) : n.keys[j] = n.keys[i] => j = i
    PROVE  UpdateSeparator(n, n.keys[i], x) = InnerFrom(n, ReplaceAt(n.keys, i, x), n.kids)
<1> DEFINE old == n.keys[i]
           h  == CHOOSE h \in DOMAIN n.keys :
                   n.keys[h] = old /\ \A j \in 1 .. h - 1 : n.keys[j] # old
           ks == IF Contains(n.keys, old) THEN ReplaceAt(n.keys, h, x) ELSE n.keys
<1>1. UpdateSeparator(n, old, x) = WithKeys(n, ks)
  BY Zenon DEF UpdateSeparator, WithKeys
<1>2. n.keys \in Seq(Nat) /\ DOMAIN n.keys = 1 .. Len(n.keys)
  BY DEF RootInner
<1>3. i \in DOMAIN n.keys /\ n.keys[i] = old /\ \A j \in 1 .. i - 1 : n.keys[j] # old
  <2>1. \A j \in 1 .. i - 1 : j \in 1 .. Len(n.keys) /\ j # i
    BY <1>2
  <2> QED BY <1>2, <2>1
<1>4. h \in DOMAIN n.keys /\ n.keys[h] = old
  BY <1>3
<1>5. h = i
  BY <1>2, <1>4
<1> HIDE DEF h
<1>6. ks = ReplaceAt(n.keys, i, x)
  BY <1>5 DEF Contains
<1> HIDE DEF ks, old
<1>7. WithKeys(n, ks) = InnerFrom(n, ks, n.kids)
  BY InnerSets
<1> QED BY <1>1, <1>6, <1>7 DEF old

\* The parent of a leaf that is divided gets the new leaf after it, and the
\* largest key that the leaf keeps as the separator between them, unless the
\* separator above the leaf was not its largest key.
LEMMA ParentRejoined ==
    ASSUME NEW n, RootInner(n), NEW L, L = n.kids, NEW Q, Q = n.keys,
           NEW T, Apart(T, Len(L), Q), NEW i \in 1 .. Len(L),
           NEW k \in Nat, PlaceOf(k, i, Q), T[i] \subseteq Nat,
           NEW old \in T[i],
           NEW low, NEW high, HalvedAt(low, high, T[i] \cup {k}),
           NEW rmax \in Nat,
           IF i = Len(L) THEN rmax = Last(low) ELSE Contains(Q, old) /\ rmax \in T[Len(L)],
           NEW new \in Nat,
           NEW m, m = Widened(UpdateSeparator(n, old, Last(low)), Last(high), rmax, new)
    PROVE  /\ m.kind = "internal"
           /\ m.kids = InsertAt(L, i + 1, new) /\ m.keys = InsertAt(Q, i, Last(low))
<1> DEFINE l == Len(Q)
           mid == Last(low)
           cmax == Last(high)
           K == T[i] \cup {k}
           n1 == UpdateSeparator(n, old, mid)
<1>1. /\ L \in Seq(Nat) /\ Q \in Seq(Nat) /\ l \in Nat /\ Len(L) = l + 1
      /\ \A j \in 1 .. l : Q[j] \in Nat
  <2>1. L \in Seq(Nat) /\ Q \in Seq(Nat) /\ Len(L) = Len(Q) + 1
    BY DEF RootInner
  <2>2. Len(Q) \in Nat
    <3>1. Q \in Seq(Nat)
      BY <2>1
    <3> QED BY ONLY <3>1, LenProperties
  <2>3. \A j \in 1 .. Len(Q) : Q[j] \in Nat
    <3>1. Q \in Seq(Nat)
      BY <2>1
    <3> QED BY ONLY <3>1, ElementOfSeq
  <2> QED BY ONLY <2>1, <2>2, <2>3
<1>2. /\ \A g, h \in 1 .. l : g < h => Q[g] < Q[h]
      /\ \A g \in 1 .. l, j \in 1 .. l + 1 : \A x \in T[j] : x <= Q[g] <=> j <= g
  BY <1>1 DEF Apart, Increasing
<1>3. \A x \in K, g \in 1 .. l : x <= Q[g] <=> i <= g
  BY <1>1, <1>2, ZenonT(60) DEF PlaceOf
<1>4. /\ mid \in K /\ cmax \in K /\ cmax > mid
      /\ \A x \in K : x <= cmax
  BY DEF HalvedAt
<1>5. K \subseteq Nat /\ mid \in Nat /\ cmax \in Nat
  BY <1>4
<1>6. i \in 1 .. l + 1
  BY <1>1
<1> HIDE DEF l, mid, cmax, K
<1>7. CASE i = Len(L)
  <2>1. \A j \in 1 .. l : Q[j] # old
    <3>1. ASSUME NEW j \in 1 .. l, Q[j] = old PROVE FALSE
      <4>1. old \in K /\ old \in Nat
        BY <1>5 DEF K
      <4>2. ~(i <= j)
        BY <1>1, <1>7
      <4> QED BY <1>3, <3>1, <4>1, <4>2
    <3> QED BY <3>1
  <2>2. n1 = n
    BY <2>1, NotSeparator DEF l
  <2>3. cmax > rmax /\ rmax = mid
    BY <1>4, <1>7 DEF mid
  <2>4. m = WithKids(WithKeys(n, Append(Q, mid)), Append(L, new))
    BY <2>2, <2>3 DEF Widened, mid, cmax
  <2>5. m = InnerFrom(n, Append(Q, mid), Append(L, new))
    BY <2>4, InnerSets
  <2>6. m.kind = "internal" /\ m.keys = Append(Q, mid) /\ m.kids = Append(L, new)
    BY ONLY <2>5 DEF InnerFrom, InnerRec
  <2>7. Append(Q, mid) = InsertAt(Q, i, mid)
    <3>1. i = Len(Q) + 1
      BY <1>1, <1>7 DEF l
    <3> QED BY <1>1, <1>5, <3>1, AppendIsPut
  <2>8. Append(L, new) = InsertAt(L, i + 1, new)
    BY <1>1, <1>7, AppendIsPut
  <2> QED BY <2>6, <2>7, <2>8 DEF mid
<1>8. CASE i # Len(L)
  <2>1. i \in 1 .. l
    BY <1>1, <1>6, <1>8
  <2>2. old \in K /\ old \in Nat
    BY <1>5 DEF K
  <2>3. old = Q[i]
    <3>1. PICK g \in 1 .. l : Q[g] = old
      BY <1>8 DEF Contains, l
    <3>0. Q[g] \in Nat /\ Q[i] \in Nat
      BY <1>1, <2>1
    <3>2. i <= g
      <4>1. Q[g] <= Q[g]
        BY ONLY <3>0
      <4> QED BY <1>3, <2>2, <3>1, <4>1
    <3>3. old <= Q[i]
      <4>1. i <= i
        BY <2>1
      <4> QED BY <1>3, <2>1, <2>2, <4>1
    <3>4. ~(i < g)
      <4>1. i < g => Q[i] < Q[g]
        BY <1>2, <2>1
      <4> QED BY ONLY <3>0, <3>1, <3>3, <4>1
    <3>5. g = i
      BY <2>1, <3>2, <3>4
    <3> QED BY ONLY <3>1, <3>5
  <2>4. cmax = Q[i]
    <3>0. Q[i] \in Nat
      BY <1>1, <2>1
    <3>1. cmax <= Q[i]
      <4>1. i <= i
        BY <2>1
      <4> QED BY <1>3, <1>4, <2>1, <4>1
    <3>2. Q[i] <= cmax
      BY <1>4, <2>2, <2>3
    <3> QED BY ONLY <1>5, <3>0, <3>1, <3>2
  <2>5. ~(cmax > rmax)
    <3>1. rmax \in T[l + 1] /\ l + 1 \in 1 .. l + 1 /\ ~(l + 1 <= i)
      BY <1>1, <1>8, <2>1
    <3>2. ~(rmax <= Q[i])
      BY <1>2, <2>1, <3>1
    <3>3. Q[i] \in Nat
      BY <1>1, <2>1
    <3> QED BY ONLY <2>4, <3>2, <3>3, rmax \in Nat
  <2> DEFINE P == ReplaceAt(Q, i, mid)
  <2>6. n1 = InnerFrom(n, P, L)
    <3>1. \A j \in 1 .. l : Q[j] = Q[i] => j = i
      <4>1. ASSUME NEW j \in 1 .. l, Q[j] = Q[i] PROVE j = i
        <5>1. (j < i => Q[j] < Q[i]) /\ (i < j => Q[i] < Q[j])
          BY <1>2, <2>1
        <5>2. Q[j] \in Nat /\ Q[i] \in Nat
          BY <1>1, <2>1
        <5>3. ~(j < i) /\ ~(i < j)
          BY ONLY <4>1, <5>1, <5>2
        <5> QED BY <2>1, <5>3
      <4> QED BY <4>1
    <3> QED BY <2>1, <2>3, <3>1, SeparatorReplaced DEF l
  <2>7. /\ P \in Seq(Nat) /\ Len(P) = l
        /\ \A j \in 1 .. l : P[j] = IF j = i THEN mid ELSE Q[j]
    <3>1. Q \in Seq(Nat) /\ i \in 1 .. Len(Q) /\ mid \in Nat
      BY <1>1, <1>5, <2>1 DEF l
    <3> HIDE DEF P
    <3>2. P = ReplaceAt(Q, i, mid)
      BY DEF P
    <3>3. /\ P \in Seq(Nat) /\ Len(P) = Len(Q)
          /\ \A j \in 1 .. Len(Q) : P[j] = IF j = i THEN mid ELSE Q[j]
      BY ONLY <3>1, <3>2, ReplaceAtIs
    <3> QED BY <3>3 DEF l
  <2> HIDE DEF P
  <2>8. n1.keys = P /\ n1.kids = L /\ RootInner(n1)
    <3>1. n1 = InnerFrom(n, P, L) /\ RootInner(n) /\ P \in Seq(Nat) /\ L \in Seq(Nat)
          /\ Len(P) \in 1 .. MaxKeys /\ Len(L) = Len(P) + 1 /\ IsInjective(L)
      BY <1>1, <2>6, <2>7 DEF RootInner, l
    <3> HIDE DEF n1
    <3> QED BY ONLY <3>1, InnerFromFacts
  <2>9. Below(P, cmax) = i
    <3>1. \A j \in 1 .. l : P[j] < cmax <=> j <= i
      <4>1. ASSUME NEW j \in 1 .. l PROVE P[j] < cmax <=> j <= i
        <5>0. Q[j] \in Nat /\ Q[i] \in Nat /\ j \in Nat /\ i \in Nat
              /\ (j < i => Q[j] < Q[i]) /\ (i < j => Q[i] < Q[j])
              /\ P[j] = IF j = i THEN mid ELSE Q[j]
          BY <1>1, <1>2, <2>1, <2>7, SMTT(60)
        <5> QED BY ONLY <1>4, <1>5, <2>4, <5>0
      <4> QED BY <4>1
    <3>2. ASSUME NEW j \in 1 .. l, j < i
          PROVE  Q[j] < mid
      <4>1. ~(i <= j) /\ Q[j] \in Nat
        BY <1>1, <2>1, <3>2
      <4>2. ~(mid <= Q[j])
        BY <1>3, <1>4, <4>1
      <4> QED BY ONLY <1>5, <4>1, <4>2
    <3>3. mid < Q[i]
      BY <1>4, <1>5, <2>4
    <3>4. ASSUME NEW g \in 1 .. l, NEW h \in 1 .. l, g < h
          PROVE  P[g] < P[h]
      <4>1. CASE g = i
        <5>1. h # i /\ P[g] = mid /\ P[h] = Q[h] /\ Q[i] < Q[h]
          BY <1>2, <2>1, <2>7, <3>4, <4>1
        <5>2. Q[i] \in Nat /\ Q[h] \in Nat
          BY <1>1, <2>1
        <5> QED BY ONLY <1>5, <3>3, <5>1, <5>2
      <4>2. CASE h = i
        <5>1. g # i /\ P[g] = Q[g] /\ P[h] = mid
          BY <2>1, <2>7, <3>4, <4>2
        <5> QED BY <3>2, <3>4, <4>2, <5>1
      <4>3. CASE g # i /\ h # i
        BY <1>2, <2>7, <3>4, <4>3
      <4> QED BY <4>1, <4>2, <4>3
    <3>5. Increasing(P)
      BY <2>7, <3>4 DEF Increasing
    <3>6. i \in 0 .. Len(P) /\ \A j \in 1 .. Len(P) : P[j] < cmax <=> j <= i
      BY <1>1, <2>1, <2>7, <3>1
    <3> QED BY <1>5, <2>7, <3>5, <3>6, BelowIs
  <2>10. m = WithKids(WithKeys(n1, InsertAt(P, i + 1, cmax)), InsertAt(L, i + 1, new))
    <3>1. m = Widened(n1, cmax, rmax, new)
      BY DEF mid, cmax
    <3> HIDE DEF n1
    <3> QED BY <2>5, <2>8, <2>9, <3>1 DEF Widened
  <2>11. m.kind = "internal" /\ m.keys = InsertAt(P, i + 1, cmax)
         /\ m.kids = InsertAt(L, i + 1, new)
    <3> HIDE DEF n1
    <3>1. m = InnerFrom(n1, InsertAt(P, i + 1, cmax), InsertAt(L, i + 1, new))
      BY <2>8, <2>10, InnerSets
    <3> QED BY <3>1 DEF InnerFrom, InnerRec
  <2>12. InsertAt(P, i + 1, cmax) = InsertAt(Q, i, mid)
    BY <1>1, <1>5, <2>1, <2>4, ReplacedThenPut, ZenonT(60) DEF P, l
  <2> QED BY <2>11, <2>12 DEF mid
<1> QED BY <1>7, <1>8

\* The leaf for k splits under a separator that is not its largest key.
Stale(d, r, k) ==
    LET p == LeafFor(d, r, k)
        n == d.node[p]
    IN  /\ Len(n.keys) >= MaxCells
        /\ ~n.root
        /\ p # Last(d.node[n.parent].kids)
        /\ ~Contains(d.node[n.parent].keys, MaxKeyOf(n))

\* Inserting a key puts its row into the table.
LEMMA RowsInserted ==
    ASSUME NEW d, NEW r, OneTree(d, r), NEW S, Stores(d, r, S),
           NEW k \in Nat, k \notin S, ~Stale(d, r, k),
           NEW e, e = Inserted(d, r, k), e.ok
    PROVE  Stores(e, r, S \cup {k})
<1> DEFINE p == LeafFor(d, r, k)
           L == Leaves(d, r)
           Q == Separators(d, r)
           i == Below(Q, k) + 1
           s == d.node[p].keys
<1>1. OneTree(e, r) /\ KeyPut(d, e, r, p, k)
  BY KeyInserted DEF Kept
<1>2. LeavesOf(d, L, Q) /\ Arranged(d, L, Q, S)
  BY TreeLeaves DEF Stores
<1>3. i \in 1 .. Len(L) /\ L[i] = p /\ PlaceOf(k, i, Q) /\ k \notin KeysIn(d, p)
  BY SearchEnds
<1>4. /\ p \in LeavesBelow(d, r) /\ LeafNode(d.node[p]) /\ (IsLeaf(d, r) <=> p = r)
      /\ p # r => ChildLeaf(d.node[p], r)
  BY LeafForIsLeaf, LeafShape DEF OneTree
<1>5. /\ L \in Seq(Nat) /\ \A j \in 1 .. Len(L) : L[j] = L[i] => j = i
  <2>1. L \in Seq(Nat) /\ IsInjective(L)
    BY <1>2 DEF LeavesOf
  <2>2. i \in 1 .. Len(L)
    BY <1>3
  <2> HIDE DEF L, i
  <2> QED BY ONLY <2>1, <2>2 DEF IsInjective
<1>6. s \in Seq(Nat) /\ Len(s) <= MaxCells /\ Increasing(s) /\ k \notin ToSet(s)
  <2>1. s \in Seq(Nat) /\ Len(s) <= MaxCells
    BY <1>4 DEF LeafNode
  <2>2. Increasing(s)
    BY <1>2, <1>3, HoldingFacts DEF Arranged
  <2> QED BY <1>3, <2>1, <2>2 DEF KeysIn
<1> HIDE DEF i, p
<1>7. CASE ~(Len(s) >= MaxCells)
  <2>1. OnlyKeys(d, e, p, With(s, k))
    BY <1>1, <1>7 DEF KeyPut
  <2>2. Leaves(e, r) = L /\ Separators(e, r) = Q
        /\ \A j \in 1 .. Len(L) : L[j] # p => e.node[L[j]] = d.node[L[j]]
    BY <1>4, <2>1, SameLeaves
  <2>3. \A j \in 1 .. Len(L) : j # i => e.node[L[j]] = d.node[L[j]]
    BY <1>3, <1>5, <2>2
  <2>4. LeafIs(e.node[L[i]], With(d.node[L[i]].keys, k), d.node[L[i]].next, d.node[L[i]].prev)
    BY <1>3, <2>1 DEF OnlyKeys
  <2>5. i \in 1 .. Len(L) /\ PlaceOf(k, i, Q)
    BY <1>3
  <2>6. k \in Nat /\ k \notin S
    OBVIOUS
  <2> HIDE DEF L, Q
  <2>7. Arranged(e, L, Q, S \cup {k})
    BY ONLY <1>2, <2>3, <2>4, <2>5, <2>6, PutArranged
  <2> QED BY <2>2, <2>7 DEF Stores
<1>8. CASE Len(s) >= MaxCells
  <2> DEFINE all == With(s, k)
             low == LowHalf(all)
             high == HighHalf(all)
             new == NextUnused(d)
  <2>1. SplitUp(d, e, r, p, all)
    BY <1>1, <1>8 DEF KeyPut
  <2>2. Len(s) = MaxCells
    BY <1>6, <1>8, Sizes
  <2>3. HalvedAt(low, high, ToSet(s) \cup {k})
    <3>1. s \in Seq(Nat) /\ Increasing(s) /\ k \notin ToSet(s) /\ k \in Nat
      BY <1>6
    <3> HIDE DEF s
    <3> QED BY ONLY <2>2, <3>1, KeyHalves
  <2>4. CASE p = r
    <3>1. UnderNewRoot(e, r, low, high)
      BY <2>1, <2>4 DEF SplitUp
    <3>2. S = ToSet(s)
      <4>1. Arranged(d, <<r>>, <<>>, S)
        BY <1>2, <1>4, <2>4 DEF Leaves, Separators
      <4> QED BY <2>4, <4>1, OneLeaf DEF KeysIn
    <3> QED BY <2>3, <3>1, <3>2, RootSplitStores
  <2>5. CASE p # r
    <3> DEFINE n == d.node[r]
               T == KeySets(d, L)
               old == MaxKeyOf(d.node[p])
               rmax == LastMax(d, n.kids, p, low)
               m == Rejoined(d, r, p, old, low, high, new)
    <3>1. ~IsLeaf(d, r)
      BY <1>4, <2>5
    <3>2. L = n.kids /\ Q = n.keys /\ RootInner(n) /\ Len(Q) \in Nat /\ Len(Q) >= 1
          /\ Len(L) = Len(Q) + 1 /\ LeavesBelow(d, r) = ToSet(L) /\ 0 \notin ToSet(L)
      BY <3>1, InnerLeaves, TreeLeaves
    <3>3. Divided(d, e, ToSet(L), L[i], new, low, high) /\ e.node[r] = m
      BY <1>3, <2>1, <2>5, <3>2 DEF SplitUp
    <3>4. Apart(T, Len(L), Q) /\ \A j \in 1 .. Len(L) : T[j] \subseteq Nat /\ T[j] = KeysIn(d, L[j])
      BY <1>2, KeySetsFacts DEF Arranged
    <3>5. T[i] = ToSet(s)
      BY <1>3, <3>4 DEF KeysIn
    <3>6. old \in T[i]
      <4>1. s # <<>>
        BY <1>4, <2>5 DEF ChildLeaf
      <4>2. Last(s) \in ToSet(s)
        BY <1>6, <4>1, LastFacts
      <4> QED BY <3>5, <4>2 DEF MaxKeyOf
    <3>7. rmax \in Nat /\ IF i = Len(L) THEN rmax = Last(low)
                          ELSE Contains(Q, old) /\ rmax \in T[Len(L)]
      <4>1. Last(L) = L[Len(L)] /\ Len(L) \in 1 .. Len(L)
        BY <3>2 DEF Last
      <4>2. CASE i = Len(L)
        <5>1. rmax = Last(low)
          BY <1>3, <3>2, <4>1, <4>2 DEF LastMax
        <5>2. Last(low) \in Nat
          BY <2>3, LastFacts DEF HalvedAt
        <5> QED BY <4>2, <5>1, <5>2
      <4>3. CASE i # Len(L)
        <5>1. Last(L) # p
          BY <1>3, <1>5, <4>1, <4>3
        <5>2. rmax = Last(d.node[L[Len(L)]].keys)
          BY <3>2, <4>1, <5>1 DEF LastMax, MaxKeyOf
        <5>3. L[Len(L)] \in LeavesBelow(d, r) /\ L[Len(L)] # r
          <6>1. L[Len(L)] \in LeavesBelow(d, r)
            BY <4>1, TreeLeaves
          <6> QED BY <3>1, <6>1, LeafShape DEF OneTree
        <5>4. d.node[L[Len(L)]].keys \in Seq(Nat) /\ d.node[L[Len(L)]].keys # <<>>
          BY <5>3, LeafShape DEF OneTree, ChildLeaf, LeafNode
        <5>5. rmax \in Nat /\ rmax \in KeysIn(d, L[Len(L)])
          BY <5>2, <5>4, LastFacts DEF KeysIn
        <5>6. Contains(Q, old)
          <6>1. ~d.node[p].root /\ d.node[p].parent = r
            BY <1>4, <2>5 DEF ChildLeaf
          <6>2. p # Last(d.node[d.node[p].parent].kids)
            BY <3>2, <5>1, <6>1
          <6>3. Contains(d.node[d.node[p].parent].keys, MaxKeyOf(d.node[p]))
            BY <1>8, <6>1, <6>2 DEF Stale, p
          <6> QED BY <3>2, <6>1, <6>3
        <5> QED BY <3>4, <4>1, <4>3, <5>5, <5>6
      <4> QED BY <4>2, <4>3
    <3>8. new \in Nat
      <4>1. d.num \in Nat /\ d.free \in Seq(Nat)
        BY DEF OneTree, File
      <4>2. d.free # <<>> => Last(d.free) \in Nat
        BY <4>1, LastFacts
      <4> QED BY <4>1, <4>2 DEF NextUnused
    <3>9. m = Widened(UpdateSeparator(n, old, Last(low)), Last(high), rmax, new)
      BY DEF Rejoined
    <3>10. i \in 1 .. Len(L) /\ PlaceOf(k, i, Q) /\ k \in Nat /\ T[i] \subseteq Nat
      BY <1>3, <3>4
    <3>11. HalvedAt(low, high, T[i] \cup {k})
      BY <2>3, <3>5
    <3> HIDE DEF L, Q, T, n, old, rmax, low, high, new, m
    <3>12. /\ m.kind = "internal"
           /\ m.kids = InsertAt(L, i + 1, new) /\ m.keys = InsertAt(Q, i, Last(low))
      <4>1. RootInner(n) /\ L = n.kids /\ Q = n.keys
        BY <3>2
      <4>2. Apart(T, Len(L), Q)
        BY <3>4
      <4>3. rmax \in Nat
        BY <3>7
      <4>4. IF i = Len(L) THEN rmax = Last(low) ELSE Contains(Q, old) /\ rmax \in T[Len(L)]
        BY <3>7
      <4> QED BY ONLY <3>6, <3>8, <3>9, <3>10, <3>11, <4>1, <4>2, <4>3, <4>4,
                      ParentRejoined, SMTT(60)
    <3>13. HalvedAt(low, high, KeysIn(d, L[i]) \cup {k})
      BY <3>4, <3>10, <3>11
    <3> DEFINE M == InsertAt(L, i + 1, new)
               R == InsertAt(Q, i, Last(low))
    <3>14. Arranged(e, M, R, S \cup {k})
      BY ONLY <1>2, <3>2, <3>3, <3>8, <3>10, <3>13, SplitArranged
    <3>15. Leaves(e, r) = M /\ Separators(e, r) = R
      BY <3>3, <3>12 DEF Leaves, Separators, IsLeaf
    <3> QED BY <3>14, <3>15 DEF Stores
  <2> QED BY <2>4, <2>5
<1> QED BY <1>7, <1>8

\* Leaves that are as they were hold the rows that they held.
LEMMA SameArranged ==
    ASSUME NEW d, NEW L, NEW Q, NEW S, Arranged(d, L, Q, S), NEW e,
           \A j \in 1 .. Len(L) : e.node[L[j]] = d.node[L[j]]
    PROVE  Arranged(e, L, Q, S)
<1>1. Chained(e, L)
  BY DEF Arranged, Chained
<1>2. \A j \in 1 .. Len(L) : KeysIn(e, L[j]) = KeysIn(d, L[j])
  BY DEF KeysIn
<1>3. Separated(e, L, Q)
  BY <1>2 DEF Arranged, Separated
<1>4. Holding(e, L, S)
  <2>1. Holding(d, L, S)
    BY DEF Arranged
  <2>2. /\ \A j \in 1 .. Len(L) : Increasing(d.node[L[j]].keys)
        /\ \A x : x \in S <=> \E j \in 1 .. Len(L) : x \in KeysIn(d, L[j])
    BY <2>1, HoldingFacts
  <2>3. \A j \in 1 .. Len(L) : Increasing(e.node[L[j]].keys)
    BY <2>2
  <2>4. \A x : x \in S <=> \E j \in 1 .. Len(L) : x \in KeysIn(e, L[j])
    BY <1>2, <2>2
  <2> QED BY <2>3, <2>4, HoldingFacts
<1> QED BY <1>1, <1>3, <1>4 DEF Arranged

\* Rows lie in the pages of their tree.
LEMMA SameRows ==
    ASSUME NEW d, NEW r, OneTree(d, r), NEW S, Stores(d, r, S), NEW e,
           \A q \in Own(d, r) : e.node[q] = d.node[q]
    PROVE  Stores(e, r, S)
<1> DEFINE L == Leaves(d, r)
           Q == Separators(d, r)
<1>1. e.node[r] = d.node[r]
  BY DEF Own
<1>2. Leaves(e, r) = L /\ Separators(e, r) = Q
  BY <1>1 DEF Leaves, Separators, IsLeaf
<1>3. \A j \in 1 .. Len(L) : L[j] \in LeavesBelow(d, r)
  BY TreeLeaves
<1>4. LeavesBelow(d, r) \subseteq Own(d, r)
  BY DEF LeavesBelow, Own, Kids
<1>5. \A j \in 1 .. Len(L) : e.node[L[j]] = d.node[L[j]]
  BY <1>3, <1>4
<1>6. Arranged(d, L, Q, S)
  BY DEF Stores
<1> HIDE DEF L, Q
<1>7. Arranged(e, L, Q, S)
  BY ONLY <1>5, <1>6, SameArranged
<1> QED BY <1>2, <1>7 DEF Stores

----------------------------------------------------------------------------
(* The scan.                                                               *)

AtStart(p) == [page |-> p, end |-> FALSE, got |-> <<>>]

\* f is the walk from p over n leaves.
IsWalk(d, p, f, n) ==
    f = [i \in 0 .. n |-> IF i = 0 THEN AtStart(p) ELSE Advanced(d, f[i - 1])]

LEMMA WalkExists ==
    ASSUME NEW d, NEW p, NEW n \in Nat
    PROVE  \E f : IsWalk(d, p, f, n)
<1> DEFINE S == {m \in Nat : \E f : IsWalk(d, p, f, m)}
<1>1. 0 \in S
  <2> DEFINE f == [i \in 0 .. 0 |-> AtStart(p)]
  <2>1. IsWalk(d, p, f, 0)
    <3>1. \A i \in 0 .. 0 : i = 0
      OBVIOUS
    <3> QED BY <3>1 DEF IsWalk
  <2> QED BY <2>1
<1>2. ASSUME NEW m \in 0 .. n - 1, m \in S
      PROVE  m + 1 \in S
  <2>1. PICK f : IsWalk(d, p, f, m)
    BY <1>2
  <2> DEFINE g == [i \in 0 .. m + 1 |-> IF i = m + 1 THEN Advanced(d, f[m]) ELSE f[i]]
  <2>2. ASSUME NEW i \in 0 .. m + 1
        PROVE  g[i] = IF i = 0 THEN AtStart(p) ELSE Advanced(d, g[i - 1])
    <3>1. CASE i = m + 1
      <4>1. i - 1 \in 0 .. m + 1 /\ i - 1 = m /\ i - 1 # m + 1 /\ i # 0
        BY <3>1
      <4> QED BY <3>1, <4>1
    <3>2. CASE i # m + 1
      <4>1. i \in 0 .. m /\ g[i] = f[i]
        BY <3>2
      <4>2. f[i] = IF i = 0 THEN AtStart(p) ELSE Advanced(d, f[i - 1])
        BY <2>1, <4>1 DEF IsWalk
      <4>3. i # 0 => i - 1 \in 0 .. m + 1 /\ i - 1 # m + 1
        BY <4>1
      <4> QED BY <4>1, <4>2, <4>3
    <3> QED BY <3>1, <3>2
  <2>3. IsWalk(d, p, g, m + 1)
    <3>1. g = [i \in 0 .. m + 1 |-> g[i]]
      OBVIOUS
    <3> HIDE DEF g
    <3> QED BY <2>2, <3>1 DEF IsWalk
  <2> QED BY <2>3
<1>3. 0 .. n \subseteq S
  <2> HIDE DEF S
  <2> QED BY <1>1, <1>2, UpTo
<1> QED BY <1>3

LEMMA WalkOnce ==
    ASSUME NEW d, NEW p, NEW n \in Nat, NEW m \in 0 .. n,
           NEW f, NEW g, IsWalk(d, p, f, n), IsWalk(d, p, g, m)
    PROVE  \A i \in 0 .. m : f[i] = g[i]
<1> DEFINE S == {i \in 0 .. m : f[i] = g[i]}
<1>1. /\ \A i \in 0 .. n : f[i] = IF i = 0 THEN AtStart(p) ELSE Advanced(d, f[i - 1])
      /\ \A i \in 0 .. m : g[i] = IF i = 0 THEN AtStart(p) ELSE Advanced(d, g[i - 1])
  BY DEF IsWalk
<1>2. 0 \in S
  BY <1>1
<1>3. ASSUME NEW i \in 0 .. m - 1, i \in S
      PROVE  i + 1 \in S
  <2>1. i + 1 \in 0 .. m /\ i + 1 \in 0 .. n /\ i + 1 # 0 /\ (i + 1) - 1 = i
    OBVIOUS
  <2>2. f[i + 1] = Advanced(d, f[i]) /\ g[i + 1] = Advanced(d, g[i])
    BY <1>1, <2>1
  <2> QED BY <1>3, <2>1, <2>2
<1>4. 0 .. m \subseteq S
  <2> HIDE DEF S
  <2> QED BY <1>2, <1>3, UpTo
<1> QED BY <1>4

\* Walk is what its definition says.
LEMMA WalkIs ==
    ASSUME NEW d, NEW p, NEW w, w = Walk(d, p)
    PROVE  w[0] = AtStart(p) /\ \A n \in Nat : w[n + 1] = Advanced(d, w[n])
<1> DEFINE F == [n \in Nat |-> (CHOOSE f : IsWalk(d, p, f, n))[n]]
           Def(g) == [n \in Nat |-> IF n = 0 THEN AtStart(p) ELSE Advanced(d, g[n - 1])]
<1>1. ASSUME NEW n \in Nat
      PROVE  F[n] = IF n = 0 THEN AtStart(p) ELSE Advanced(d, F[n - 1])
  <2>1. PICK f : IsWalk(d, p, f, n) /\ f = CHOOSE g : IsWalk(d, p, g, n)
    BY WalkExists
  <2>2. F[n] = f[n]
    BY <2>1
  <2>3. f[n] = IF n = 0 THEN AtStart(p) ELSE Advanced(d, f[n - 1])
    BY <2>1 DEF IsWalk
  <2>4. CASE n # 0
    <3>1. n - 1 \in Nat /\ n - 1 \in 0 .. n
      BY <2>4
    <3>2. PICK h : IsWalk(d, p, h, n - 1) /\ h = CHOOSE g : IsWalk(d, p, g, n - 1)
      BY <3>1, WalkExists
    <3>3. F[n - 1] = h[n - 1] /\ f[n - 1] = h[n - 1]
      BY <2>1, <3>1, <3>2, WalkOnce
    <3> QED BY <2>2, <2>3, <2>4, <3>3
  <2> QED BY <2>2, <2>3, <2>4
<1>2. F = Def(F)
  <2>1. F = [n \in Nat |-> F[n]]
    OBVIOUS
  <2> HIDE DEF F
  <2> QED BY <1>1, <2>1
<1>3. w = Def(w)
  <2>1. w = CHOOSE g : g = Def(g)
    BY DEF Walk, AtStart
  <2> HIDE DEF F, Def
  <2> QED BY <1>2, <2>1
<1>4. \A n \in Nat : w[n] = IF n = 0 THEN AtStart(p) ELSE Advanced(d, w[n - 1])
  BY <1>3
<1>5. \A n \in Nat : n + 1 \in Nat /\ n + 1 # 0 /\ (n + 1) - 1 = n
  OBVIOUS
<1> QED BY <1>4, <1>5

\* The keys below and above one another.
LEMMA ConcatInOrder ==
    ASSUME NEW s \in Seq(Nat), Increasing(s), NEW t \in Seq(Nat), Increasing(t),
           \A x \in ToSet(s), y \in ToSet(t) : x < y
    PROVE  /\ s \o t \in Seq(Nat) /\ Increasing(s \o t)
           /\ ToSet(s \o t) = ToSet(s) \cup ToSet(t)
<1> DEFINE u == s \o t
           m == Len(s)
           n == Len(t)
<1>1. /\ u \in Seq(Nat) /\ Len(u) = m + n /\ m \in Nat /\ n \in Nat
      /\ \A j \in 1 .. m + n : u[j] = IF j <= m THEN s[j] ELSE t[j - m]
  <2>1. m \in Nat /\ n \in Nat
    OBVIOUS
  <2>2. u \in Seq(Nat) /\ Len(u) = m + n
    BY ConcatProperties
  <2>3. \A j \in 1 .. m + n : u[j] = IF j <= m THEN s[j] ELSE t[j - m]
    BY ConcatAt
  <2> QED BY <2>1, <2>2, <2>3
<1>2. /\ \A x : x \in ToSet(s) <=> \E j \in 1 .. m : s[j] = x
      /\ \A x : x \in ToSet(t) <=> \E j \in 1 .. n : t[j] = x
  BY ToSetFacts
<1>3. \A x : x \in ToSet(u) <=> \E j \in 1 .. m + n : u[j] = x
  <2> HIDE DEF u, m, n
  <2>1. u \in Seq(Nat)
    BY <1>1
  <2>2. \A x : x \in ToSet(u) <=> \E j \in 1 .. Len(u) : u[j] = x
    BY ONLY <2>1, ToSetFacts
  <2> QED BY <1>1, <2>2
<1>4. /\ \A g, h \in 1 .. m : g < h => s[g] < s[h]
      /\ \A g, h \in 1 .. n : g < h => t[g] < t[h]
  BY DEF Increasing
<1> HIDE DEF u, m, n
<1>5. ASSUME NEW g \in 1 .. m + n, NEW h \in 1 .. m + n, g < h
      PROVE  u[g] < u[h]
  <2>1. CASE h <= m
    <3>1. g \in 1 .. m /\ h \in 1 .. m /\ g <= m
      BY <1>1, <1>5, <2>1
    <3> QED BY <1>1, <1>4, <1>5, <2>1, <3>1
  <2>2. CASE g <= m /\ ~(h <= m)
    <3>1. g \in 1 .. m /\ h - m \in 1 .. n
      BY <1>1, <2>2
    <3>2. u[g] = s[g] /\ u[h] = t[h - m]
      BY <1>1, <2>2
    <3>3. s[g] \in ToSet(s) /\ t[h - m] \in ToSet(t)
      BY <1>2, <3>1
    <3> QED BY <3>2, <3>3
  <2>3. CASE ~(g <= m)
    <3>1. g - m \in 1 .. n /\ h - m \in 1 .. n /\ g - m < h - m /\ ~(h <= m)
      BY <1>1, <1>5, <2>3
    <3>2. u[g] = t[g - m] /\ u[h] = t[h - m]
      BY <1>1, <2>3, <3>1
    <3> QED BY <1>4, <3>1, <3>2
  <2> QED BY <2>1, <2>2, <2>3
<1>6. Increasing(u)
  BY <1>1, <1>5 DEF Increasing
<1>7. ToSet(u) = ToSet(s) \cup ToSet(t)
  <2>1. ASSUME NEW x \in ToSet(u) PROVE x \in ToSet(s) \cup ToSet(t)
    <3>1. PICK j \in 1 .. m + n : u[j] = x
      BY <1>3
    <3>2. CASE j <= m
      <4>1. j \in 1 .. m /\ s[j] = x
        BY <1>1, <3>1, <3>2
      <4> QED BY <1>2, <4>1
    <3>3. CASE ~(j <= m)
      <4>1. j - m \in 1 .. n /\ t[j - m] = x
        BY <1>1, <3>1, <3>3
      <4> QED BY <1>2, <4>1
    <3> QED BY <3>2, <3>3
  <2>2. ASSUME NEW x \in ToSet(s) PROVE x \in ToSet(u)
    <3>1. PICK j \in 1 .. m : s[j] = x
      BY <1>2
    <3>2. j \in 1 .. m + n /\ j <= m
      BY <1>1
    <3> QED BY <1>1, <1>3, <3>1, <3>2
  <2>3. ASSUME NEW x \in ToSet(t) PROVE x \in ToSet(u)
    <3>1. PICK j \in 1 .. n : t[j] = x
      BY <1>2
    <3> DEFINE h == j + m
    <3>2. h \in 1 .. m + n /\ ~(h <= m) /\ h - m = j
      BY <1>1
    <3> HIDE DEF h
    <3>3. u[h] = t[j]
      BY <1>1, <3>2
    <3> QED BY <1>3, <3>1, <3>2, <3>3
  <2> QED BY <2>1, <2>2, <2>3
<1> QED BY <1>1, <1>6, <1>7 DEF u

\* s is what a scan has read of the first m leaves.
Gathered(d, L, m, s) ==
    /\ s \in Seq(Nat) /\ Increasing(s)
    /\ \A x : x \in ToSet(s) <=> \E j \in 1 .. m : x \in KeysIn(d, L[j])

LEMMA GatherNone ==
    ASSUME NEW d, NEW L
    PROVE  Gathered(d, L, 0, <<>>)
<1> DEFINE s == <<>>
<1>1. s \in Seq(Nat) /\ Len(s) = 0
  OBVIOUS
<1>2. \A x : x \in ToSet(s) <=> \E j \in 1 .. Len(s) : s[j] = x
  BY ONLY <1>1, ToSetFacts
<1>3. \A x : x \notin ToSet(s)
  BY <1>1, <1>2
<1>4. Increasing(s)
  BY <1>1 DEF Increasing
<1> HIDE DEF s
<1>5. Gathered(d, L, 0, s)
  BY <1>1, <1>3, <1>4 DEF Gathered
<1> QED BY <1>5 DEF s

LEMMA GatherNext ==
    ASSUME NEW d, NEW L, NEW Q, NEW S, LeavesOf(d, L, Q), Arranged(d, L, Q, S),
           NEW m \in Nat, m + 1 \in 1 .. Len(L), NEW s, Gathered(d, L, m, s)
    PROVE  Gathered(d, L, m + 1, s \o d.node[L[m + 1]].keys)
<1> DEFINE n == Len(L)
           T == KeySets(d, L)
           h == m + 1
           t == d.node[L[h]].keys
<1>1. n = Len(Q) + 1 /\ n \in Nat /\ Len(Q) \in Nat
      /\ \A j \in 1 .. n : d.node[L[j]].keys \in Seq(Nat)
  BY DEF LeavesOf
<1>2. \A j \in 1 .. n : Increasing(d.node[L[j]].keys)
  BY HoldingFacts DEF Arranged
<1>3. s \in Seq(Nat) /\ Increasing(s)
      /\ \A x : x \in ToSet(s) <=> \E j \in 1 .. m : x \in KeysIn(d, L[j])
  BY DEF Gathered
<1>4. t \in Seq(Nat) /\ Increasing(t) /\ ToSet(t) = KeysIn(d, L[h])
  BY <1>1, <1>2 DEF KeysIn
<1>5. \A g \in 1 .. Len(Q), j \in 1 .. n : \A k \in KeysIn(d, L[j]) : k <= Q[g] <=> j <= g
  BY <1>1 DEF Arranged, Separated
<1>6. ASSUME NEW x \in ToSet(s), NEW y \in ToSet(t)
      PROVE  x < y
  <2>1. PICK j \in 1 .. m : x \in KeysIn(d, L[j])
    BY <1>3
  <2>2. j \in 1 .. n /\ h \in 1 .. n /\ m \in 1 .. Len(Q) /\ j <= m /\ ~(h <= m)
    BY <1>1
  <2>3. x <= Q[m] /\ ~(y <= Q[m])
    BY <1>4, <1>5, <2>1, <2>2
  <2>4. x \in Nat /\ y \in Nat
    BY <1>3, <1>4, ToSetFacts
  <2>5. Q[m] \in Nat
    <3>1. Q \in Seq(Nat) /\ m \in 1 .. Len(Q)
      BY <2>2 DEF LeavesOf
    <3> QED BY ONLY <3>1, ElementOfSeq
  <2> QED BY ONLY <2>3, <2>4, <2>5
<1> HIDE DEF t
<1>7. s \o t \in Seq(Nat) /\ Increasing(s \o t) /\ ToSet(s \o t) = ToSet(s) \cup ToSet(t)
  BY <1>3, <1>4, <1>6, ConcatInOrder
<1>8. \A j : j \in 1 .. h <=> j \in 1 .. m \/ j = h
  OBVIOUS
<1> HIDE DEF h
<1>9. \A x : x \in ToSet(s \o t) <=> \E j \in 1 .. h : x \in KeysIn(d, L[j])
  BY <1>3, <1>4, <1>7, <1>8
<1>10. Gathered(d, L, h, s \o t)
  BY <1>7, <1>9 DEF Gathered
<1> QED BY <1>10 DEF t, h

\* The cursor after m leaves.
After(d, L, m, c) ==
    /\ c.page = IF m = Len(L) THEN 0 ELSE L[m + 1]
    /\ c.end <=> m = Len(L)
    /\ Gathered(d, L, m, c.got)

LEMMA WalkGathers ==
    ASSUME NEW d, NEW L, NEW Q, NEW S, LeavesOf(d, L, Q), Arranged(d, L, Q, S),
           \A j \in 2 .. Len(L) : L[j] # 0,
           NEW w, w = Walk(d, L[1])
    PROVE  /\ \A m \in 0 .. Len(L) : After(d, L, m, w[m])
           /\ \A m \in Nat : m >= Len(L) => w[m] = w[Len(L)]
<1> DEFINE n == Len(L)
           A == {m \in 0 .. n : After(d, L, m, w[m])}
<1>1. n \in Nat /\ n >= 1
  BY DEF LeavesOf
<1>2. w[0] = AtStart(L[1]) /\ \A m \in Nat : w[m + 1] = Advanced(d, w[m])
  BY WalkIs
<1>3. 0 \in A
  <2>1. w[0].page = L[1] /\ w[0].end = FALSE /\ w[0].got = <<>>
    BY <1>2 DEF AtStart
  <2>2. 0 # n /\ 0 + 1 = 1 /\ 0 \in 0 .. n
    BY <1>1
  <2>3. Gathered(d, L, 0, w[0].got)
    BY <2>1, GatherNone
  <2>4. After(d, L, 0, w[0])
    BY <2>1, <2>2, <2>3 DEF After
  <2> QED BY <2>2, <2>4
<1>4. ASSUME NEW m \in 0 .. n - 1, m \in A
      PROVE  m + 1 \in A
  <2> DEFINE c == w[m]
             h == m + 1
  <2>1. m \in Nat /\ m # n /\ h \in 1 .. n /\ h \in 0 .. n
    BY <1>1
  <2>2. c.page = L[h] /\ ~c.end /\ Gathered(d, L, m, c.got)
    BY <1>4, <2>1 DEF After
  <2>3. w[h] = Advanced(d, c)
    BY <1>2, <2>1
  <2>4. w[h] = [page |-> d.node[L[h]].next, end |-> d.node[L[h]].next = 0,
                got |-> c.got \o d.node[L[h]].keys]
    BY <2>2, <2>3 DEF Advanced
  <2>5. d.node[L[h]].next = IF h = n THEN 0 ELSE L[h + 1]
    BY <2>1 DEF Arranged, Chained
  <2>6. h # n => L[h + 1] # 0
    <3>1. h # n => h + 1 \in 2 .. n
      BY <1>1, <2>1
    <3> QED BY <3>1
  <2>7. Gathered(d, L, h, c.got \o d.node[L[h]].keys)
    BY <2>1, <2>2, GatherNext
  <2> DEFINE nx == d.node[L[h]].next
             g == c.got \o d.node[L[h]].keys
  <2>10. w[h].page = nx /\ w[h].end = (nx = 0) /\ w[h].got = g
    <3> DEFINE b == nx = 0
    <3> HIDE DEF g, b
    <3>1. w[h] = [page |-> nx, end |-> b, got |-> g]
      BY <2>4, Zenon DEF g, b
    <3>2. w[h].page = nx /\ w[h].end = b /\ w[h].got = g
      BY ONLY <3>1
    <3> QED BY <3>2, Zenon DEF b
  <2> HIDE DEF h, c, n, g
  <2>8. nx = (IF h = n THEN 0 ELSE L[h + 1]) /\ (nx = 0 <=> h = n)
    BY <2>5, <2>6
  <2>9. After(d, L, h, w[h])
    <3> HIDE DEF nx
    <3> QED BY <2>7, <2>8, <2>10 DEF After, n, g
  <2> QED BY <2>1, <2>9 DEF h
<1>5. 0 .. n \subseteq A
  <2> HIDE DEF A, n
  <2> QED BY <1>1, <1>3, <1>4, UpTo
<1>6. ASSUME NEW m \in Nat, m >= n
      PROVE  w[m] = w[n]
  <2> DEFINE B == {i \in 0 .. m - n : w[n + i] = w[n]}
             l == m - n
  <2>1. l \in Nat /\ n + l = m
    BY <1>1, <1>6
  <2>2. 0 \in B
    BY <1>1, <1>6
  <2>3. ASSUME NEW i \in 0 .. l - 1, i \in B
        PROVE  i + 1 \in B
    <3>1. w[n].end
      BY <1>1, <1>5 DEF After
    <3>2. n + i \in Nat /\ n + (i + 1) = (n + i) + 1 /\ i + 1 \in 0 .. m - n
      BY <1>1, <2>1
    <3>3. w[(n + i) + 1] = Advanced(d, w[n + i])
      BY <1>2, <3>2
    <3>4. Advanced(d, w[n]) = w[n]
      BY <3>1 DEF Advanced
    <3>5. w[n + i] = w[n]
      BY <2>3
    <3> QED BY <3>2, <3>3, <3>4, <3>5
  <2>4. 0 .. l \subseteq B
    <3> HIDE DEF B, l
    <3> QED BY <2>1, <2>2, <2>3, UpTo
  <2>5. l \in B
    <3> HIDE DEF B, l
    <3>1. l \in 0 .. l
      BY <2>1
    <3> QED BY <2>4, <3>1
  <2>6. w[n + l] = w[n]
    BY <2>5
  <2> QED BY <2>1, <2>6
<1> QED BY <1>5, <1>6

\* A tree has no more leaves than the file has pages.
LEMMA LeavesAtMost ==
    ASSUME NEW d, NEW r, OneTree(d, r), NEW L, L = Leaves(d, r)
    PROVE  Len(L) <= d.num /\ Len(L) \in Nat /\ \A j \in 2 .. Len(L) : L[j] # 0
<1>1. /\ L \in Seq(Nat) /\ IsInjective(L) /\ Len(L) \in Nat
      /\ \A j \in 1 .. Len(L) : L[j] \in 0 .. d.num - 1
      /\ ~IsLeaf(d, r) => 0 \notin ToSet(L)
  <2>1. LeavesOf(d, L, Separators(d, r)) /\ (~IsLeaf(d, r) => 0 \notin ToSet(L))
        /\ \A j \in 1 .. Len(L) : L[j] \in LeavesBelow(d, r)
    BY TreeLeaves
  <2>2. \A x \in LeavesBelow(d, r) : x \in 0 .. d.num - 1
    BY LeafShape DEF OneTree
  <2> QED BY <2>1, <2>2 DEF LeavesOf
<1>2. d.num \in Nat
  BY DEF OneTree, File
<1>3. Len(L) <= d.num
  <2> DEFINE n == Len(L)
             I == 1 .. n
             P == 0 .. d.num - 1
  <2>1. SUFFICES ASSUME d.num < n PROVE FALSE
    BY <1>1, <1>2
  <2>0. ASSUME NEW a \in {0, 1}, NEW b \in Int, b >= a - 1
        PROVE  IsFiniteSet(a .. b) /\ Cardinality(a .. b) = b - a + 1
    <3>1. IsFiniteSet(a .. b) /\ Cardinality(a .. b) = IF a > b THEN 0 ELSE b - a + 1
      BY FS_Interval
    <3>2. (IF a > b THEN 0 ELSE b - a + 1) = b - a + 1
      BY <2>0
    <3> QED BY <3>1, <3>2
  <2>2. IsFiniteSet(I) /\ Cardinality(I) = n
    <3>1. n \in Int /\ n >= 1 - 1 /\ n - 1 + 1 = n /\ 1 \in {0, 1}
      BY <1>1
    <3> HIDE DEF n
    <3> QED BY <2>0, <3>1
  <2>3. IsFiniteSet(P) /\ Cardinality(P) = d.num
    <3> DEFINE b == d.num - 1
    <3>1. b \in Int /\ b >= 0 - 1 /\ b - 0 + 1 = d.num /\ 0 \in {0, 1}
      BY <1>2
    <3> HIDE DEF b
    <3>2. IsFiniteSet(0 .. b) /\ Cardinality(0 .. b) = b - 0 + 1
      BY <2>0, <3>1
    <3> QED BY <3>1, <3>2 DEF b
  <2>4. L \in [I -> P]
    BY <1>1
  <2>5. \A x, y \in I : L[x] = L[y] => x = y
    BY <1>1 DEF IsInjective
  <2>6. Cardinality(P) < Cardinality(I)
    BY <2>1, <2>2, <2>3
  <2> HIDE DEF I, P
  <2>7. \E x, y \in I : x # y /\ L[x] = L[y]
    BY ONLY <2>2, <2>3, <2>4, <2>6, FS_PigeonHole
  <2> QED BY <2>5, <2>7
<1>4. ASSUME NEW j \in 2 .. Len(L)
      PROVE  L[j] # 0
  <2>1. ~IsLeaf(d, r)
    <3>1. CASE IsLeaf(d, r)
      <4>1. Len(L) = 1
        BY <3>1 DEF Leaves
      <4> QED BY <4>1
    <3> QED BY <3>1
  <2>2. L[j] \in ToSet(L)
    BY <1>1, ToSetFacts
  <2> QED BY <1>1, <2>1, <2>2
<1> QED BY <1>1, <1>3, <1>4

\* The search for the least key ends on the first leaf.
LEMMA FirstLeaf ==
    ASSUME NEW d, NEW r, OneTree(d, r), NEW S, Stores(d, r, S), NEW L, L = Leaves(d, r)
    PROVE  L[1] = LeafFor(d, r, 0)
<1> DEFINE Q == Separators(d, r)
<1>1. Q \in Seq(Nat) /\ Increasing(Q) /\ Len(Q) \in Nat
  <2>1. LeavesOf(d, L, Q)
    BY TreeLeaves
  <2>2. Arranged(d, L, Q, S)
    BY DEF Stores
  <2> QED BY <2>1, <2>2 DEF LeavesOf, Arranged, Separated
<1>2. Q = Separators(d, r)
  OBVIOUS
<1> HIDE DEF Q
<1>3. Below(Q, 0) = 0
  <2>1. ASSUME NEW j \in 1 .. Len(Q)
        PROVE  Q[j] < 0 <=> j <= 0
    <3>1. Q[j] \in Nat
      BY ONLY <1>1, <2>1, ElementOfSeq
    <3> QED BY <1>1, <2>1, <3>1
  <2>2. 0 \in 0 .. Len(Q) /\ 0 \in Nat
    BY <1>1
  <2> QED BY ONLY <1>1, <2>1, <2>2, BelowIs
<1>4. 0 \in Nat /\ 1 = Below(Q, 0) + 1
  BY <1>3
<1> QED BY <1>2, <1>4, SearchEnds

\* A scan returns the rows of the table, in order.
LEMMA ScanIs ==
    ASSUME NEW d, NEW r, OneTree(d, r), NEW S, Stores(d, r, S), d.num <= MaxPages,
           NEW s, s = Scan(d, r)
    PROVE  s \in Seq(Nat) /\ Increasing(s) /\ ToSet(s) = S
<1> DEFINE L == Leaves(d, r)
           Q == Separators(d, r)
           n == Len(L)
           w == Walk(d, L[1])
<1>1. LeavesOf(d, L, Q) /\ Arranged(d, L, Q, S)
  BY TreeLeaves DEF Stores
<1>2. n <= MaxPages /\ n \in Nat /\ MaxPages \in Nat /\ \A j \in 2 .. Len(L) : L[j] # 0
  <2>1. d.num \in Nat
    BY DEF OneTree, File
  <2> QED BY <2>1, LeavesAtMost, Sizes
<1>3. /\ \A m \in 0 .. n : After(d, L, m, w[m])
      /\ \A m \in Nat : m >= n => w[m] = w[n]
  BY <1>1, <1>2, WalkGathers
<1>4. s = w[MaxPages].got
  BY FirstLeaf DEF Scan, ScanFrom
<1>5. w[MaxPages] = w[n] /\ After(d, L, n, w[n])
  <2> HIDE DEF n, w
  <2> QED BY <1>2, <1>3
<1>6. Gathered(d, L, n, s)
  BY <1>4, <1>5 DEF After
<1>7. \A x : x \in S <=> \E j \in 1 .. n : x \in KeysIn(d, L[j])
  BY <1>1, HoldingFacts DEF Arranged
<1> HIDE DEF n, L
<1> QED BY <1>6, <1>7 DEF Gathered

\* The links of a leaf point at other leaves.
LEMMA LinksValid ==
    ASSUME NEW d, NEW r, OneTree(d, r), NEW S, Stores(d, r, S), NEW p \in LeavesBelow(d, r)
    PROVE  ValidLink(d, p, d.node[p].next) /\ ValidLink(d, p, d.node[p].prev)
<1> DEFINE L == Leaves(d, r)
           n == Len(L)
<1>1. /\ L \in Seq(Nat) /\ IsInjective(L) /\ n \in Nat
      /\ \A j \in 1 .. n : L[j] \in LeavesBelow(d, r)
      /\ \E j \in 1 .. n : L[j] = p
  <2>1. LeavesOf(d, L, Separators(d, r))
    BY TreeLeaves
  <2>2. \A x : x \in LeavesBelow(d, r) <=> \E j \in 1 .. Len(L) : L[j] = x
    BY TreeLeaves
  <2> QED BY <2>1, <2>2 DEF LeavesOf
<1>2. \A x \in LeavesBelow(d, r) : x \in 0 .. d.num - 1
  BY LeafShape DEF OneTree
<1>3. d.num \in Nat
  BY DEF OneTree, File
<1>4. Chained(d, L)
  BY DEF Stores, Arranged
<1> HIDE DEF L
<1>5. \A i, j \in 1 .. n : L[i] = L[j] => i = j
  BY ONLY <1>1 DEF IsInjective
<1>6. PICK j \in 1 .. n : L[j] = p
  BY <1>1
<1>7. /\ d.node[p].next = IF j = n THEN 0 ELSE L[j + 1]
      /\ d.node[p].prev = IF j = 1 THEN 0 ELSE L[j - 1]
  BY <1>4, <1>6 DEF Chained
<1>8. ASSUME NEW i \in 1 .. n, i # j
      PROVE  ValidLink(d, p, L[i])
  <2>1. L[i] \in 0 .. d.num - 1 /\ L[i] # p
    BY <1>1, <1>2, <1>5, <1>6, <1>8
  <2> QED BY <1>3, <2>1 DEF ValidLink
<1>9. (j # n => j + 1 \in 1 .. n /\ j + 1 # j) /\ (j # 1 => j - 1 \in 1 .. n /\ j - 1 # j)
  <2> HIDE DEF n
  <2> QED BY <1>1, <1>6
<1>10. ValidLink(d, p, 0)
  BY DEF ValidLink
<1> QED BY <1>7, <1>8, <1>9, <1>10

LEMMA StructureHolds ==
    ASSUME NEW d, NEW r, OneTree(d, r), NEW S, Stores(d, r, S)
    PROVE  StructureValid(d, r)
<1>1. ASSUME ~IsLeaf(d, r)
      PROVE  /\ Len(d.node[r].keys) <= MaxKeys
             /\ Len(d.node[r].kids) <= d.num
             /\ IsInjective(d.node[r].kids)
             /\ \A c \in Kids(d, r) : c < d.num /\ c # r
  <2> DEFINE K == ToSet(d.node[r].kids)
  <2>0. OneTree(d, r) /\ ~IsLeaf(d, r) /\ K = ToSet(d.node[r].kids)
    BY <1>1
  <2>1. K = Kids(d, r)
    BY <1>1 DEF Kids
  <2> HIDE DEF K
  <2>2. /\ d.num \in Nat /\ RootInner(d.node[r])
        /\ \A c \in K : c \in 1 .. d.num - 1 /\ c # r
    BY ONLY <2>0, InnerParts
  <2>3. Len(d.node[r].keys) <= MaxKeys /\ IsInjective(d.node[r].kids)
    BY <2>2 DEF RootInner
  <2>4. \A c \in K : c < d.num
    BY <2>2
  <2>5. Len(d.node[r].kids) <= d.num
    BY <1>1, LeavesAtMost, InnerLeaves
  <2> QED BY <2>1, <2>2, <2>3, <2>4, <2>5
<1>2. ASSUME NEW p \in LeavesBelow(d, r)
      PROVE  IsLeaf(d, p)
  <2>1. LeafNode(d.node[p])
    BY LeafShape DEF OneTree
  <2> QED BY <2>1, LeafKind DEF IsLeaf
<1> QED BY <1>1, <1>2, LinksValid DEF StructureValid

LEMMA ChainHolds ==
    ASSUME NEW d, NEW r, OneTree(d, r), NEW S, Stores(d, r, S)
    PROVE  ChainValid(d, r)
<1> DEFINE L == Leaves(d, r)
           Q == Separators(d, r)
           n == Len(L)
           w == Walk(d, IF IsLeaf(d, r) THEN r ELSE d.node[r].kids[1])
           keys == w[d.num].got
<1>1. /\ LeavesOf(d, L, Q) /\ Arranged(d, L, Q, S)
      /\ \A j \in 1 .. n : L[j] \in LeavesBelow(d, r)
  BY TreeLeaves DEF Stores
<1>2. n <= d.num /\ n \in Nat /\ d.num \in Nat /\ \A j \in 2 .. n : L[j] # 0
  <2>1. d.num \in Nat
    BY DEF OneTree, File
  <2> QED BY <2>1, LeavesAtMost
<1>3. w = Walk(d, L[1])
  BY DEF Leaves
<1> HIDE DEF w
<1>4. /\ \A m \in 0 .. n : After(d, L, m, w[m])
      /\ \A m \in Nat : m >= n => w[m] = w[n]
  BY <1>1, <1>2, <1>3, WalkGathers
<1>5. w[d.num] = w[n] /\ After(d, L, n, w[n])
  <2> HIDE DEF n
  <2> QED BY <1>2, <1>4
<1>6. w[d.num].end /\ Gathered(d, L, n, keys)
  BY <1>5 DEF After
<1>7. \A i \in 1 .. Len(keys) - 1 : keys[i] < keys[i + 1]
  <2>1. keys \in Seq(Nat) /\ Increasing(keys) /\ Len(keys) \in Nat
    BY <1>6 DEF Gathered
  <2> HIDE DEF keys
  <2>2. \A i \in 1 .. Len(keys) - 1 :
           i \in 1 .. Len(keys) /\ i + 1 \in 1 .. Len(keys) /\ i < i + 1
    BY <2>1
  <2> QED BY <2>1, <2>2 DEF Increasing
<1>8. ASSUME NEW m \in 0 .. d.num - 1, ~w[m].end
      PROVE  /\ IsLeaf(d, w[m].page)
             /\ d.node[w[m].page].prev = IF m = 0 THEN 0 ELSE w[m - 1].page
  <2>1. m \in Nat /\ ~(m >= n)
    BY <1>2, <1>4, <1>6, <1>8, <1>5
  <2>2. m \in 0 .. n /\ m # n /\ m + 1 \in 1 .. n
    <3> HIDE DEF n
    <3> QED BY <1>2, <2>1
  <2>3. w[m].page = L[m + 1]
    BY <1>4, <2>2 DEF After
  <2>4. IsLeaf(d, L[m + 1])
    <3>1. LeafNode(d.node[L[m + 1]])
      BY <1>1, <2>2, LeafShape DEF OneTree
    <3> QED BY <3>1, LeafKind DEF IsLeaf
  <2>5. d.node[L[m + 1]].prev = IF m + 1 = 1 THEN 0 ELSE L[m + 1 - 1]
    BY <1>1, <2>2 DEF Arranged, Chained
  <2>6. CASE m = 0
    BY <2>3, <2>4, <2>5, <2>6
  <2>7. CASE m # 0
    <3> DEFINE h == m - 1
    <3>1. h \in 0 .. n /\ h # n /\ h + 1 = m /\ m + 1 - 1 = m /\ m + 1 # 1
      <4> HIDE DEF n
      <4> QED BY <1>2, <2>1, <2>7
    <3> HIDE DEF h
    <3>2. w[h].page = L[m]
      BY <1>4, <3>1 DEF After
    <3> QED BY <2>3, <2>4, <2>5, <2>7, <3>1, <3>2 DEF h
  <2> QED BY <2>6, <2>7
<1>9. /\ \A m \in 0 .. d.num - 1 : ~w[m].end =>
            /\ IsLeaf(d, w[m].page)
            /\ d.node[w[m].page].prev = IF m = 0 THEN 0 ELSE w[m - 1].page
      /\ w[d.num].end
      /\ \A i \in 1 .. Len(keys) - 1 : keys[i] < keys[i + 1]
  BY <1>6, <1>7, <1>8
<1> QED BY <1>9, Zenon DEF ChainValid, w

\* The check before a generic mutation accepts the tree.
LEMMA AcceptedTree ==
    ASSUME NEW d, NEW r, OneTree(d, r), NEW S, Stores(d, r, S)
    PROVE  MutationSupported(d, r)
BY StructureHolds, ChainHolds DEF MutationSupported

----------------------------------------------------------------------------
(* Files of two tables.                                                    *)

\* Deleting a key takes its row from the table.
LEMMA KeyDeletedRows ==
    ASSUME NEW d, NEW r, OneTree(d, r), NEW S, Stores(d, r, S), NEW k, Holds(d, r, k),
           NEW e, e = Deleted(d, r, k)
    PROVE  Stores(e, r, S \ {k})
<1> DEFINE p == LeafFor(d, r, k)
           s == d.node[p].keys
           i == Below(s, k) + 1
<1>1. p \in LeavesBelow(d, r)
  BY LeafForIsLeaf DEF OneTree
<1>2. s \in Seq(Nat) /\ Len(s) \in Nat
  <2>1. LeafNode(d.node[p])
    BY <1>1, LeafShape DEF OneTree
  <2> QED BY <2>1 DEF LeafNode
<1>3. Increasing(s)
  <2> DEFINE L == Leaves(d, r)
  <2>1. \A j \in 1 .. Len(L) : Increasing(d.node[L[j]].keys)
    BY HoldingFacts DEF Stores, Arranged
  <2>2. \E j \in 1 .. Len(L) : L[j] = p
    BY <1>1, TreeLeaves
  <2> QED BY <2>1, <2>2
<1>4. PICK j \in 1 .. Len(s) : s[j] = k
  <2>1. PICK j \in DOMAIN s : s[j] = k
    BY DEF Holds
  <2> HIDE DEF s
  <2>2. j \in 1 .. Len(s)
    BY <1>2, <2>1
  <2> QED BY <2>1, <2>2
<1>5. e = DeleteCell(d, r, p, i)
  BY DEF Deleted
<1> HIDE DEF p, s
<1>6. k \in Nat
  BY ONLY <1>2, <1>4, ElementOfSeq
<1>7. i = j
  <2>1. Below(s, k) \in 0 .. Len(s)
        /\ \A h \in 1 .. Len(s) : s[h] < k <=> h <= Below(s, k)
    BY ONLY <1>2, <1>3, <1>6, BelowSplits
  <2>2. ~(j <= Below(s, k))
    BY <1>4, <1>6, <2>1
  <2>3. ASSUME Below(s, k) + 1 # j PROVE FALSE
    <3> DEFINE h == Below(s, k) + 1
    <3>1. h \in 1 .. Len(s) /\ h < j /\ ~(h <= Below(s, k))
      BY <1>2, <1>4, <2>1, <2>2, <2>3
    <3>2. s[h] < k
      BY <1>3, <1>4, <3>1 DEF Increasing
    <3> QED BY <2>1, <3>1, <3>2
  <2> QED BY <2>3
<1> HIDE DEF i
<1>8. i \in 1 .. Len(d.node[p].keys) /\ d.node[p].keys[i] = k
  BY <1>4, <1>7 DEF s
<1> QED BY <1>1, <1>5, <1>8, RowsDeleted

\* A change to one tree leaves the rows of the other table alone.
LEMMA OtherRows ==
    ASSUME NEW d, NEW root, AllPages(d, root), root[Other] # None,
           NEW t \in Table, NEW u \in Table, t # u,
           NEW e, Kept(d, e, root[t]), NEW S, Stores(d, root[u], S)
    PROVE  Stores(e, root[u], S)
<1>1. OneTree(d, root[Users]) /\ OneTree(d, root[Other])
      /\ Rest(d, root[Users]) = Own(d, root[Other])
  BY DEF AllPages
<1>2. Rest(d, root[Other]) = Own(d, root[Users])
  BY <1>1, RestIsMutual
<1>3. OneTree(d, root[u]) /\ Rest(d, root[t]) = Own(d, root[u])
  BY <1>1, <1>2 DEF Table
<1>4. \A q \in Own(d, root[u]) : e.node[q] = d.node[q]
  BY <1>3 DEF Kept
<1> QED BY <1>3, <1>4, SameRows

\* An empty root leaf stores no rows.
LEMMA NoRows ==
    ASSUME NEW e, NEW r, e.node[r] = EmptyRoot
    PROVE  Stores(e, r, {})
<1> DEFINE n == EmptyRoot
<1>1. n.kind = "leaf" /\ n.next = 0 /\ n.prev = 0
  BY EmptyRootFacts, LeafKind DEF RootLeaf
<1>2. n.keys = <<>>
  BY DEF EmptyRoot, NewLeaf
<1>3. Leaves(e, r) = <<r>> /\ Separators(e, r) = <<>>
  BY <1>1 DEF Leaves, Separators, IsLeaf
<1>4. Increasing(n.keys)
  BY <1>2 DEF Increasing
<1>5. {} = KeysIn(e, r)
  BY <1>2 DEF KeysIn, ToSet
<1> HIDE DEF n
<1>6. Arranged(e, <<r>>, <<>>, {})
  BY <1>1, <1>4, <1>5, OneLeaf DEF n
<1> QED BY <1>3, <1>6 DEF Stores

\* A table whose first leaf is empty has no rows.
LEMMA FirstEmpty ==
    ASSUME NEW d, NEW r, OneTree(d, r), FirstKeys(d, r) = <<>>
    PROVE  Stores(d, r, {})
<1> DEFINE p == LeafFor(d, r, 0)
<1>1. p \in LeavesBelow(d, r) /\ d.node[p].keys = <<>>
  BY LeafForIsLeaf DEF OneTree, FirstKeys
<1> HIDE DEF p
<1>2. p = r /\ IsLeaf(d, r) /\ RootLeaf(d.node[r])
  <2>1. /\ IsLeaf(d, r) <=> p = r
        /\ p = r => RootLeaf(d.node[p])
        /\ p # r => ChildLeaf(d.node[p], r)
    BY <1>1, LeafShape DEF OneTree
  <2> QED BY <1>1, <2>1 DEF ChildLeaf
<1>3. Leaves(d, r) = <<r>> /\ Separators(d, r) = <<>>
  BY <1>2 DEF Leaves, Separators
<1>4. Increasing(d.node[r].keys) /\ {} = KeysIn(d, r)
  BY <1>1, <1>2 DEF Increasing, KeysIn, ToSet
<1>5. d.node[r].next = 0 /\ d.node[r].prev = 0
  BY <1>2 DEF RootLeaf
<1>6. Arranged(d, <<r>>, <<>>, {})
  BY <1>4, <1>5, OneLeaf
<1> QED BY <1>3, <1>6 DEF Stores

\* The version changes no row of the table that keeps it in its root page.
LEMMA VersionedRows ==
    ASSUME NEW d, OneTree(d, 0), NEW S, Stores(d, 0, S), NEW v, NEW e, e = Versioned(d, v)
    PROVE  Stores(e, 0, S)
<1> DEFINE n == d.node[0]
           m == WithParent(n, v)
<1>1. e = Write(d, 0, m)
  BY Zenon DEF Versioned, Write, WithParent
<1>2. File(d) /\ 0 \in 0 .. d.num - 1 /\ 0 \notin ToSet(d.free)
  BY DEF OneTree, Tree, Own
<1> HIDE DEF m
<1>3. Overwritten(d, e, 0, m)
  BY ONLY <1>1, <1>2, PutFileOver
<1>4. e.node[0] = m /\ \A q \in 0 .. d.num - 1 : q # 0 => e.node[q] = d.node[q]
  BY <1>2, <1>3 DEF Overwritten
<1>5. CASE IsLeaf(d, 0)
  <2>1. RootLeaf(n)
    BY <1>5 DEF OneTree, Tree
  <2>2. Arranged(d, <<0>>, <<>>, S)
    BY <1>5 DEF Stores, Leaves, Separators
  <2>3. n.next = 0 /\ n.prev = 0 /\ Increasing(n.keys) /\ S = KeysIn(d, 0)
    BY <2>2, OneLeaf
  <2>4. LeafNode(m) /\ m.next = n.next /\ m.prev = n.prev /\ m.keys = n.keys
    <3>1. LeafNode(n) /\ m = WithParent(n, v)
      BY <2>1 DEF RootLeaf, m
    <3> HIDE DEF n
    <3> QED BY ONLY <3>1, WithParentFacts
  <2>5. S = KeysIn(e, 0)
    BY <1>4, <2>3, <2>4 DEF KeysIn
  <2>6. Arranged(e, <<0>>, <<>>, S)
    BY <1>4, <2>3, <2>4, <2>5, OneLeaf
  <2>7. Leaves(e, 0) = <<0>> /\ Separators(e, 0) = <<>>
    BY <1>4, <2>4, LeafKind DEF Leaves, Separators, IsLeaf
  <2> QED BY <2>6, <2>7 DEF Stores
<1>6. CASE ~IsLeaf(d, 0)
  <2> DEFINE L == n.kids
             Q == n.keys
  <2>1. /\ Leaves(d, 0) = L /\ Separators(d, 0) = Q /\ RootInner(n)
        /\ LeavesBelow(d, 0) = ToSet(L)
    BY <1>6, InnerLeaves
  <2>2. Arranged(d, L, Q, S)
    BY <2>1 DEF Stores
  <2>3. \A j \in 1 .. Len(L) : L[j] \in 0 .. d.num - 1 /\ L[j] # 0
    <3>1. LeavesOf(d, L, Q) /\ (\A j \in 1 .. Len(L) : L[j] \in LeavesBelow(d, 0))
      BY <2>1, TreeLeaves
    <3>2. \A x \in LeavesBelow(d, 0) : x \in 0 .. d.num - 1
      BY LeafShape DEF OneTree
    <3>3. \A x \in LeavesBelow(d, 0) : x # 0
      BY <1>6, LeafShape DEF OneTree
    <3> QED BY <3>1, <3>2, <3>3
  <2>4. \A j \in 1 .. Len(L) : e.node[L[j]] = d.node[L[j]]
    BY <1>4, <2>3
  <2>5. m.kind = "internal" /\ m.keys = Q /\ m.kids = L
    <3>1. n = InnerRec(n.root, n.parent, n.keys, n.kids)
      BY <2>1 DEF RootInner
    <3> HIDE DEF n
    <3> QED BY ONLY <3>1 DEF m, WithParent, InnerRec, Q, L
  <2> HIDE DEF L, Q
  <2>6. Arranged(e, L, Q, S)
    BY ONLY <2>2, <2>4, SameArranged
  <2>7. Leaves(e, 0) = L /\ Separators(e, 0) = Q
    BY <1>4, <2>5 DEF Leaves, Separators, IsLeaf
  <2> QED BY <2>6, <2>7 DEF Stores
<1> QED BY <1>5, <1>6

\* A page that is claimed is no page of the tree.
LEMMA ClaimedRows ==
    ASSUME NEW d, NEW r, OneTree(d, r), NEW e, e = Claim(d, EmptyRoot)
    PROVE  /\ \A S : Stores(d, r, S) => Stores(e, r, S)
           /\ Stores(e, NextUnused(d), {})
<1> DEFINE p == NextUnused(d)
<1>1. File(d) /\ Own(d, r) \cap ToSet(d.free) = {} /\ d.num \in Nat
  BY DEF OneTree, File
<1>2. p = NextUnused(d)
  OBVIOUS
<1> HIDE DEF p
<1>3. Grown(d, e, p)
  BY <1>1, <1>2, ClaimFacts
<1>4. \A q \in 0 .. e.num - 1 : e.node[q] = IF q = p THEN EmptyRoot ELSE d.node[q]
  BY <1>1, <1>2, ClaimFacts
<1>5. /\ e.num \in Nat /\ d.num <= e.num /\ p \in 1 .. e.num - 1
      /\ p \in ToSet(d.free) \/ p \notin 0 .. d.num - 1
  BY <1>3 DEF Grown
<1>6. Own(d, r) \subseteq 0 .. d.num - 1 /\ p \notin Own(d, r)
  BY <1>1, <1>5, OwnRange
<1>7. \A q \in Own(d, r) : e.node[q] = d.node[q]
  BY <1>1, <1>4, <1>5, <1>6
<1>8. e.node[p] = EmptyRoot
  BY <1>4, <1>5
<1>9. ASSUME NEW S, Stores(d, r, S) PROVE Stores(e, r, S)
  BY <1>7, <1>9, SameRows
<1> QED BY <1>2, <1>8, <1>9, NoRows

\* The file that a truncation leaves stores no rows.
LEMMA NewFileRows == Stores(NewFile, 0, {})
<1> DEFINE f == [q \in {0} |-> EmptyRoot]
           e == NewFile
<1>1. PICK z : z = <<>>
  BY Zenon
<1>2. PICK t : t = TRUE
  BY Zenon
<1>3. e = DbRec(f, z, 1, t)
  BY <1>1, <1>2, Zenon DEF NewFile
<1>4. f[0] = EmptyRoot
  OBVIOUS
<1> HIDE DEF e, f
<1>5. e.node = f
  BY ONLY <1>3 DEF DbRec
<1>6. e.node[0] = EmptyRoot
  BY <1>4, <1>5
<1> QED BY <1>6, NoRows DEF e

----------------------------------------------------------------------------
(* VACUUM.                                                                 *)

\* A key above every row of the table belongs in the last leaf, whose split
\* needs no separator.
LEMMA LargestInLastLeaf ==
    ASSUME NEW d, NEW r, OneTree(d, r), NEW S, Stores(d, r, S), NEW k \in Nat,
           \A x \in S : x < k
    PROVE  ~Stale(d, r, k)
<1> DEFINE p == LeafFor(d, r, k)
<1>1. p \in LeavesBelow(d, r)
  BY LeafForIsLeaf DEF OneTree
<1>2. /\ IsLeaf(d, r) <=> p = r
      /\ p = r => RootLeaf(d.node[p])
      /\ p # r => ChildLeaf(d.node[p], r)
  BY <1>1, LeafShape DEF OneTree
<1>3. CASE IsLeaf(d, r)
  <2>1. d.node[p].root
    BY <1>2, <1>3 DEF RootLeaf
  <2> QED BY <2>1 DEF Stale
<1>4. CASE ~IsLeaf(d, r)
  <2> DEFINE L == d.node[r].kids
             Q == d.node[r].keys
             n == Len(L)
             i == Below(Q, k) + 1
  <2>1. /\ Leaves(d, r) = L /\ Separators(d, r) = Q /\ RootInner(d.node[r])
        /\ n = Len(Q) + 1 /\ LeavesBelow(d, r) = ToSet(L)
    BY <1>4, InnerLeaves
  <2>2. Q \in Seq(Nat) /\ L \in Seq(Nat) /\ Len(Q) \in Nat
    BY <2>1 DEF RootInner
  <2>3. Arranged(d, L, Q, S)
    BY <2>1 DEF Stores
  <2>4. Increasing(Q)
        /\ \A g \in 1 .. Len(Q), j \in 1 .. n : \A y \in KeysIn(d, L[j]) : y <= Q[g] <=> j <= g
    BY <2>3 DEF Arranged, Separated
  <2>5. L[i] = p
    <3>1. Q = Separators(d, r) /\ L = Leaves(d, r)
      BY <2>1
    <3> QED BY <3>1, SearchEnds
  <2>6. d.node[p].parent = r
    BY <1>2, <1>4 DEF ChildLeaf
  <2>8. L[n] \in LeavesBelow(d, r) /\ n \in 1 .. n
    <3> HIDE DEF L, Q
    <3>1. n \in 1 .. n
      BY <2>1, <2>2
    <3>2. L[n] \in ToSet(L)
      BY <2>2, <3>1, ToSetFacts, SMTT(60)
    <3> QED BY <2>1, <3>1, <3>2
  <2>9. PICK y : y \in KeysIn(d, L[n]) /\ y \in Nat
    <3> DEFINE s == d.node[L[n]].keys
    <3>1. s \in Seq(Nat) /\ s # <<>>
      <4>1. ChildLeaf(d.node[L[n]], r)
        BY <1>4, <2>8, LeafShape DEF OneTree
      <4> QED BY <4>1 DEF ChildLeaf, LeafNode
    <3>2. Last(s) \in Nat /\ Last(s) \in ToSet(s)
      <4> HIDE DEF s
      <4> QED BY ONLY <3>1, LastFacts
    <3> QED BY <3>2, SMTT(60) DEF KeysIn
  <2>10. y < k
    <3>1. Holding(d, L, S)
      BY <2>3 DEF Arranged
    <3>2. y \in S
      BY <2>8, <2>9, <3>1, HoldingFacts
    <3> QED BY <3>2
  <2>11. Below(Q, k) = Len(Q)
    <3> HIDE DEF L, Q
    <3>1. ASSUME NEW g \in 1 .. Len(Q)
          PROVE  Q[g] < k <=> g <= Len(Q)
      <4>1. Q[g] \in Nat
        BY ONLY <2>2, <3>1, ElementOfSeq
      <4>2. ~(n <= g) /\ g <= Len(Q)
        BY <2>1, <2>2
      <4>3. ~(y <= Q[g])
        BY <2>4, <2>8, <2>9, <4>2
      <4> QED BY ONLY <2>9, <2>10, <4>1, <4>2, <4>3, k \in Nat
    <3>2. Len(Q) \in 0 .. Len(Q)
      BY <2>2
    <3>3. Increasing(Q) /\ k \in Nat
      BY <2>4
    <3> QED BY ONLY <2>2, <3>1, <3>2, <3>3, BelowIs
  <2>12. p = Last(L)
    BY <2>1, <2>5, <2>11 DEF Last
  <2> QED BY <2>6, <2>12 DEF Stale
<1> QED BY <1>3, <1>4

\* The cursor reads the rows of one leaf after the other.
LEMMA ReadOn ==
    ASSUME NEW d, NEW r, OneTree(d, r), NEW S, Stores(d, r, S),
           NEW p, NEW s \in Seq(Nat), ReadUpTo(d, r, p, s),
           NEW t, t = s \o d.node[p].keys
    PROVE  /\ d.node[p].next # 0 => ReadUpTo(d, r, d.node[p].next, t)
           /\ d.node[p].next = 0 => LeftToInsert(t, {}, S)
<1> DEFINE L == Leaves(d, r)
           Q == Separators(d, r)
           n == Len(L)
<1>1. LeavesOf(d, L, Q) /\ Arranged(d, L, Q, S)
  BY TreeLeaves DEF Stores
<1>2. n \in Nat /\ \A j \in 2 .. n : L[j] # 0
  BY LeavesAtMost
<1>3. PICK j \in 1 .. n : /\ L[j] = p
                          /\ ToSet(s) = UNION {KeysIn(d, L[i]) : i \in 1 .. j - 1}
  BY DEF ReadUpTo
<1>4. Increasing(s)
  BY DEF ReadUpTo
<1> DEFINE m == j - 1
<1>5. m \in Nat /\ m + 1 = j /\ m + 1 \in 1 .. n
  <2> HIDE DEF n
  <2> QED BY <1>2, <1>3
<1>6. Gathered(d, L, m, s)
  BY <1>3, <1>4 DEF Gathered
<1> HIDE DEF m, L, Q
<1>7. Gathered(d, L, m + 1, s \o d.node[L[m + 1]].keys)
  BY ONLY <1>1, <1>5, <1>6, GatherNext
<1>8. Gathered(d, L, j, t)
  BY <1>3, <1>5, <1>7
<1>9. /\ t \in Seq(Nat) /\ Increasing(t)
      /\ \A x : x \in ToSet(t) <=> \E i \in 1 .. j : x \in KeysIn(d, L[i])
  BY <1>8 DEF Gathered
<1>10. d.node[p].next = IF j = n THEN 0 ELSE L[j + 1]
  BY <1>1, <1>3 DEF Arranged, Chained
<1>11. CASE j = n
  <2>1. d.node[p].next = 0
    BY <1>10, <1>11
  <2>2. \A x : x \in S <=> \E i \in 1 .. n : x \in KeysIn(d, L[i])
    BY <1>1, HoldingFacts DEF Arranged
  <2>3. S = {} \cup ToSet(t)
    BY <1>9, <1>11, <2>2
  <2>4. LeftToInsert(t, {}, S)
    BY <1>9, <2>3 DEF LeftToInsert
  <2> QED BY <2>1, <2>4
<1>12. CASE j # n
  <2> DEFINE h == j + 1
  <2>1. h \in 1 .. n /\ h \in 2 .. n /\ h - 1 = j
    <3> HIDE DEF n
    <3> QED BY <1>2, <1>3, <1>12
  <2>2. d.node[p].next = L[h] /\ d.node[p].next # 0
    BY <1>2, <1>10, <1>12, <2>1
  <2> HIDE DEF h
  <2>3. ToSet(t) = UNION {KeysIn(d, L[i]) : i \in 1 .. h - 1}
    BY <1>9, <2>1
  <2>4. ReadUpTo(d, r, L[h], t)
    BY <1>9, <2>1, <2>3 DEF ReadUpTo, L
  <2> QED BY <2>2, <2>4
<1> QED BY <1>11, <1>12

\* The next row to insert lies above those that are there.
LEMMA InsertNext ==
    ASSUME NEW s \in Seq(Nat), s # <<>>, NEW held, NEW all, LeftToInsert(s, held, all),
           NEW k, k = Head(s)
    PROVE  /\ \A x \in held : x < k
           /\ k \notin held
           /\ LeftToInsert(Tail(s), held \cup {k}, all)
<1> DEFINE t == Tail(s)
           n == Len(s)
<1>1. n \in Nat /\ 1 \in 1 .. n /\ k = s[1] /\ k \in Nat
  BY EmptySeq, HeadTailProperties
<1>2. /\ t \in Seq(Nat) /\ Len(t) = n - 1
      /\ \A i \in 1 .. n - 1 : t[i] = s[i + 1]
  BY HeadTailProperties
<1>3. /\ Increasing(s)
      /\ \A x \in held : \A i \in 1 .. n : x < s[i]
      /\ all = held \cup ToSet(s)
  BY DEF LeftToInsert
<1>4. \A i \in 1 .. n - 1 : i + 1 \in 1 .. n /\ 1 < i + 1
  <2> HIDE DEF n
  <2> QED BY <1>1
<1> HIDE DEF t
<1>5. \A x \in held : x < k
  BY <1>1, <1>3
<1>6. k \notin held
  BY <1>1, <1>5
<1>7. Increasing(t)
  <2> SUFFICES ASSUME NEW i \in 1 .. n - 1, NEW j \in 1 .. n - 1, i < j
               PROVE  t[i] < t[j]
    BY <1>2 DEF Increasing
  <2>1. i + 1 < j + 1
    BY <1>1
  <2> QED BY <1>2, <1>3, <1>4, <2>1 DEF Increasing
<1>8. ASSUME NEW x \in held \cup {k}, NEW i \in 1 .. Len(t)
      PROVE  x < t[i]
  <2>1. i \in 1 .. n - 1
    BY <1>2
  <2>2. t[i] = s[i + 1] /\ i + 1 \in 1 .. n /\ s[1] < s[i + 1]
    BY <1>1, <1>2, <1>3, <1>4, <2>1 DEF Increasing
  <2> QED BY <1>1, <1>3, <2>2
<1>9. all = (held \cup {k}) \cup ToSet(t)
  <2>1. \A x : x \in ToSet(s) <=> \E i \in 1 .. n : s[i] = x
    BY ToSetFacts
  <2>2. \A x : x \in ToSet(t) <=> \E i \in 1 .. n - 1 : t[i] = x
    BY <1>2, ToSetFacts
  <2>3. ASSUME NEW x PROVE x \in ToSet(s) <=> x = k \/ x \in ToSet(t)
    <3>1. ASSUME x \in ToSet(s), x # k PROVE x \in ToSet(t)
      <4>1. PICK i \in 1 .. n : s[i] = x
        BY <2>1, <3>1
      <4> DEFINE h == i - 1
      <4>2. h \in 1 .. n - 1 /\ h + 1 = i
        BY <1>1, <3>1, <4>1
      <4> HIDE DEF h
      <4> QED BY <1>2, <2>2, <4>1, <4>2
    <3>2. ASSUME x \in ToSet(t) PROVE x \in ToSet(s)
      BY <1>2, <1>4, <2>1, <2>2, <3>2
    <3>3. k \in ToSet(s)
      BY <1>1, <2>1
    <3> QED BY <3>1, <3>2, <3>3
  <2> QED BY <1>3, <2>3
<1>10. LeftToInsert(t, held \cup {k}, all)
  BY <1>7, <1>8, <1>9 DEF LeftToInsert
<1> QED BY <1>5, <1>6, <1>10 DEF t

----------------------------------------------------------------------------
(* The invariant of the rows.                                              *)

\* The file d holds the rows `held` of every table but those in `lost`.
Stored(d, root, held, lost) ==
    \A t \in Table : root[t] # None /\ t \notin lost => Stores(d, root[t], held[t])

\* What a statement leaves when it ends.
LEMMA CommitRows ==
    ASSUME NEW d, NEW held, Commit(d, held), d.ok,
           held = [t \in Table |-> held[t]],
           Stored(d, rootOf', held, misrouted'),
           rootOf'[Other] = None => held[Other] = {},
           running' \in {"nothing", "statements"}, todo' = <<>>
    PROVE  RowInv'
<1>1. db' = d /\ rows' = held /\ committed'.db = d /\ committed'.rows = held
  BY DEF Commit
<1>2. \A t \in Table : Healthy(t)' => Stores(d, rootOf'[t], held[t])
  BY DEF Stored, Healthy
<1> QED BY <1>1, <1>2 DEF RowInv

\* The rows of the process, and of the last commit.
LEMMA RowsStored ==
    ASSUME RowInv
    PROVE  /\ Stored(committed.db, rootOf, committed.rows, misrouted)
           /\ db.ok => Stored(db, rootOf, rows, misrouted)
           /\ rows = [t \in Table |-> rows[t]]
BY DEF RowInv, Stored, Healthy

LEMMA ExitRows ==
    ASSUME PageInv, RowInv, Exit, UNCHANGED rootOf
    PROVE  RowInv'
<1>1. /\ rows' = committed.rows /\ committed' = committed /\ running' = "nothing"
      /\ todo' = <<>> /\ misrouted' = misrouted /\ rootOf' = rootOf
  BY DEF Exit
<1>2. ~db'.ok
  <2> DEFINE c == committed.db
  <2>1. PICK f : f = FALSE
    BY Zenon
  <2>2. db' = [c EXCEPT !.ok = f]
    BY <2>1, Zenon DEF Exit
  <2>3. c = DbRec(c.node, c.free, c.num, c.ok)
    BY DEF PageInv, AllPages, OneTree, File
  <2> HIDE DEF c
  <2>4. db'.ok = f
    BY ONLY <2>2, <2>3 DEF DbRec
  <2> QED BY <2>1, <2>4
<1>3. \A t \in Table : Healthy(t)' <=> Healthy(t)
  BY <1>1 DEF Healthy
<1> QED BY <1>1, <1>2, <1>3 DEF RowInv

\* A statement changes the rows of one table.
LEMMA TableStored ==
    ASSUME AllPages(db, rootOf), Stored(db, rootOf, rows, misrouted),
           rows = [t \in Table |-> rows[t]],
           NEW t \in Table, rootOf[t] # None, NEW d, Kept(db, d, rootOf[t]),
           NEW X, NEW lost, misrouted \subseteq lost \cup {t},
           t \notin lost => Stores(d, rootOf[t], X),
           NEW held, held = [rows EXCEPT ![t] = X]
    PROVE  /\ held = [u \in Table |-> held[u]]
           /\ Stored(d, rootOf, held, lost)
<1>1. held = [u \in Table |-> held[u]] /\ held[t] = X
      /\ \A u \in Table : u # t => held[u] = rows[u]
  <2> DEFINE f == [u \in Table |-> IF u = t THEN X ELSE rows[u]]
  <2>1. held = f
    OBVIOUS
  <2>2. f[t] = X /\ \A u \in Table : u # t => f[u] = rows[u]
    OBVIOUS
  <2>3. f = [u \in Table |-> f[u]]
    OBVIOUS
  <2> HIDE DEF f
  <2> QED BY ONLY <2>1, <2>2, <2>3
<1>2. ASSUME NEW u \in Table, rootOf[u] # None, u \notin lost
      PROVE  Stores(d, rootOf[u], held[u])
  <2>1. CASE u = t
    BY <1>1, <1>2, <2>1
  <2>2. CASE u # t
    <3>1. rootOf[Other] # None
      BY <1>2, <2>2 DEF Table
    <3>2. Stores(db, rootOf[u], rows[u])
      BY <1>2, <2>2 DEF Stored
    <3>3. Stores(d, rootOf[u], rows[u])
      BY <2>2, <3>1, <3>2, OtherRows
    <3> QED BY <1>1, <2>2, <3>3
  <2> QED BY <2>1, <2>2
<1> QED BY <1>1, <1>2 DEF Stored

LEMMA InsertRows ==
    ASSUME PageInv, RowInv, NEW t \in Table, NEW k \in KeyOf[t], Insert(t, k)
    PROVE  RowInv'
<1> DEFINE r == rootOf[t]
           d == Inserted(db, r, k)
           held == [rows EXCEPT ![t] = rows[t] \cup {k}]
<1>1. /\ db.ok /\ running = "nothing" /\ r # None /\ rootOf' = rootOf
      /\ ~Holds(db, r, k)
      /\ IF d.ok THEN /\ Commit(d, held)
                      /\ misrouted' = IF Stale(db, r, k) THEN misrouted \cup {t}
                                      ELSE misrouted
                      /\ UNCHANGED loop
         ELSE Exit
  BY DEF Insert, Exists, Ready, SplitsStale, Stale
<1>2. AllPages(db, rootOf) /\ OneTree(db, r) /\ k \in Nat
  <2>1. AllPages(db, rootOf)
    BY <1>1 DEF PageInv
  <2> QED BY <1>1, <2>1, RootedTree, BTreeAssumption DEF Table
<1>3. /\ Stored(db, rootOf, rows, misrouted)
      /\ rows = [u \in Table |-> rows[u]]
  BY <1>1, RowsStored
<1>4. d = Inserted(db, r, k) /\ held = [rows EXCEPT ![t] = rows[t] \cup {k}]
  OBVIOUS
<1> HIDE DEF d, held
<1>5. CASE d.ok
  <2>1. Kept(db, d, r)
    BY <1>2, <1>4, <1>5, KeyInserted
  <2>2. misrouted \subseteq misrouted' \cup {t} /\ misrouted \subseteq misrouted'
    BY <1>1, <1>5
  <2>3. ASSUME t \notin misrouted'
        PROVE  Stores(d, r, rows[t] \cup {k})
    <3>1. t \notin misrouted /\ ~Stale(db, r, k)
      BY <1>1, <1>5, <2>3
    <3>2. Stores(db, r, rows[t])
      BY <1>1, <1>3, <3>1 DEF Stored
    <3>3. k \notin rows[t]
      BY <1>1, <1>2, <3>2, StoredIsFound
    <3> QED BY <1>2, <1>4, <1>5, <3>1, <3>2, <3>3, RowsInserted
  <2>4. held = [u \in Table |-> held[u]] /\ Stored(d, rootOf, held, misrouted')
    BY <1>1, <1>2, <1>3, <1>4, <2>1, <2>2, <2>3, TableStored
  <2>5. ASSUME rootOf[Other] = None PROVE held[Other] = {}
    <3>1. t # Other /\ rows[Other] = {}
      BY <1>1, <2>5 DEF RowInv
    <3> QED BY <1>3, <1>4, <3>1 DEF Table
  <2>6. running' = "nothing" /\ todo' = <<>>
    BY <1>1, <1>5 DEF RowInv, loop
  <2> QED BY <1>1, <1>5, <2>4, <2>5, <2>6, CommitRows
<1>6. CASE ~d.ok
  BY <1>1, <1>6, ExitRows
<1> QED BY <1>5, <1>6

LEMMA DeletedRows ==
    ASSUME PageInv, RowInv, db.ok, running \in {"nothing", "statements"}, UNCHANGED rootOf,
           NEW t \in Table, rootOf[t] # None, NEW k, Holds(db, rootOf[t], k),
           NEW d, d = Deleted(db, rootOf[t], k),
           IF d.ok THEN Commit(d, Without(t, k)) /\ UNCHANGED <<loop, misrouted>> ELSE Exit
    PROVE  RowInv'
<1> DEFINE r == rootOf[t]
           held == [rows EXCEPT ![t] = rows[t] \ {k}]
<1>1. AllPages(db, rootOf) /\ OneTree(db, r)
  <2>1. AllPages(db, rootOf)
    BY DEF PageInv
  <2> QED BY <2>1, RootedTree
<1>2. /\ Stored(db, rootOf, rows, misrouted)
      /\ rows = [u \in Table |-> rows[u]]
  BY RowsStored
<1>3. held = [rows EXCEPT ![t] = rows[t] \ {k}] /\ held = Without(t, k)
  BY DEF Without
<1> HIDE DEF held
<1>4. CASE d.ok
  <2>1. Kept(db, d, r)
    BY <1>1, KeyDeleted
  <2>2. misrouted' = misrouted /\ misrouted \subseteq misrouted' \cup {t}
    BY <1>4
  <2>3. ASSUME t \notin misrouted'
        PROVE  Stores(d, r, rows[t] \ {k})
    <3>1. Stores(db, r, rows[t])
      BY <1>2, <2>2, <2>3 DEF Stored
    <3> QED BY <1>1, <3>1, KeyDeletedRows
  <2>4. held = [u \in Table |-> held[u]] /\ Stored(d, rootOf, held, misrouted')
    BY <1>1, <1>2, <1>3, <2>1, <2>2, <2>3, TableStored
  <2>5. ASSUME rootOf[Other] = None PROVE held[Other] = {}
    <3>1. t # Other /\ rows[Other] = {}
      BY <2>5 DEF RowInv
    <3> QED BY <1>2, <1>3, <3>1 DEF Table
  <2>6. running' \in {"nothing", "statements"} /\ todo' = <<>>
    BY <1>4 DEF RowInv, loop
  <2> QED BY <1>3, <1>4, <2>4, <2>5, <2>6, CommitRows
<1>5. CASE ~d.ok
  BY <1>5, ExitRows
<1> QED BY <1>4, <1>5

LEMMA DeleteRows ==
    ASSUME PageInv, RowInv, NEW t \in Table, NEW k \in KeyOf[t], Delete(t, k)
    PROVE  RowInv'
<1> DEFINE d == Deleted(db, rootOf[t], k)
<1>1. /\ db.ok /\ running \in {"nothing", "statements"} /\ rootOf[t] # None
      /\ UNCHANGED rootOf /\ Holds(db, rootOf[t], k)
      /\ IF d.ok THEN Commit(d, Without(t, k)) /\ UNCHANGED <<loop, misrouted>> ELSE Exit
  BY DEF Delete, Exists, Ready
<1> QED BY <1>1, DeletedRows

LEMMA DeleteStatementRows ==
    ASSUME PageInv, RowInv, DeleteStatement
    PROVE  RowInv'
<1> DEFINE k == FirstKeys(db, rootOf[Users])[1]
           d == Deleted(db, rootOf[Users], k)
<1>1. /\ running = "statements" /\ UNCHANGED rootOf /\ Holds(db, rootOf[Users], k)
      /\ IF d.ok THEN Commit(d, Without(Users, k)) /\ UNCHANGED <<loop, misrouted>> ELSE Exit
  BY DEF DeleteStatement
<1>2. db.ok /\ rootOf[Users] # None /\ Users \in Table
  BY <1>1, BTreeAssumption DEF PageInv, None, Table
<1> HIDE DEF k
<1> QED BY <1>1, <1>2, DeletedRows

LEMMA DeleteRecordRows ==
    ASSUME PageInv, RowInv, DeleteRecord
    PROVE  RowInv'
<1> DEFINE r == rootOf[Other]
           p == LeafFor(db, r, 0)
           x == db.node[p].keys[1]
           d == DeleteCell(db, r, p, 1)
           held == [rows EXCEPT ![Other] = rows[Other] \ {x}]
<1>1. /\ running = "records" /\ rootOf' = rootOf /\ db.node[p].keys # <<>>
      /\ IF d.ok THEN db' = d /\ rows' = held /\ UNCHANGED <<committed, loop, misrouted>>
         ELSE Exit
  BY DEF DeleteRecord, FirstKeys, Without
<1>2. db.ok /\ r # None /\ AllPages(db, rootOf) /\ Other \in Table
  BY <1>1 DEF PageInv, Table
<1>3. OneTree(db, r)
  BY <1>2, RootedTree
<1>4. p \in LeavesBelow(db, r) /\ 1 \in 1 .. Len(db.node[p].keys)
  <2>1. p \in LeavesBelow(db, r)
    BY <1>3, LeafForIsLeaf DEF OneTree
  <2>2. db.node[p].keys \in Seq(Nat)
    BY <1>3, <2>1, LeafShape DEF OneTree, LeafNode
  <2>3. Len(db.node[p].keys) \in Nat \ {0}
    BY <1>1, <2>2, EmptySeq
  <2> QED BY <2>1, <2>3
<1>5. /\ Stored(db, rootOf, rows, misrouted)
      /\ rows = [u \in Table |-> rows[u]]
  BY <1>2, RowsStored
<1>6. Kept(db, d, r)
  BY <1>3, <1>4, CellDeleted
<1>7. ASSUME Other \notin misrouted
      PROVE  Stores(d, r, rows[Other] \ {x})
  <2>1. Stores(db, r, rows[Other])
    BY <1>2, <1>5, <1>7 DEF Stored
  <2> QED BY <1>3, <1>4, <2>1, RowsDeleted
<1>8. held = [rows EXCEPT ![Other] = rows[Other] \ {x}]
  OBVIOUS
<1> HIDE DEF d, held, x, p
<1>9. held = [u \in Table |-> held[u]] /\ Stored(d, rootOf, held, misrouted)
  BY <1>2, <1>5, <1>6, <1>7, <1>8, TableStored
<1>10. CASE d.ok
  <2>1. /\ db' = d /\ rows' = held /\ committed' = committed /\ running' = "records"
        /\ todo' = <<>> /\ misrouted' = misrouted /\ rootOf' = rootOf
    BY <1>1, <1>10 DEF RowInv, loop
  <2>2. \A t \in Table : Healthy(t)' => Stores(d, rootOf[t], held[t])
    BY <1>9, <2>1 DEF Stored, Healthy
  <2>3. /\ committed.rows = [t \in Table |-> committed.rows[t]]
        /\ \A t \in Table : Healthy(t)' => Stores(committed.db, rootOf[t], committed.rows[t])
    BY <2>1 DEF RowInv, Healthy
  <2> QED BY <1>2, <1>9, <1>10, <2>1, <2>2, <2>3 DEF RowInv
<1>11. CASE ~d.ok
  BY <1>1, <1>11, ExitRows
<1> QED BY <1>10, <1>11

\* No row is left, in a misrouted table neither.
LEMMA EmptiedRows ==
    ASSUME PageInv, RowInv, db.ok, UNCHANGED rootOf, NEW t \in Table, rootOf[t] # None,
           NEW d, d.ok, Kept(db, d, rootOf[t]), Stores(d, rootOf[t], {}), Emptied(t, d),
           running' = "nothing", todo' = <<>>
    PROVE  RowInv'
<1> DEFINE held == [rows EXCEPT ![t] = {}]
<1>1. Commit(d, held) /\ misrouted' = misrouted \ {t}
  BY DEF Emptied
<1>2. /\ Stored(db, rootOf, rows, misrouted) /\ AllPages(db, rootOf)
      /\ rows = [u \in Table |-> rows[u]]
  BY RowsStored DEF PageInv
<1>3. held = [rows EXCEPT ![t] = {}]
  OBVIOUS
<1> HIDE DEF held
<1>4. misrouted \subseteq misrouted' \cup {t}
  BY <1>1
<1>5. held = [u \in Table |-> held[u]] /\ Stored(d, rootOf, held, misrouted')
  BY <1>2, <1>3, <1>4, TableStored
<1>6. ASSUME rootOf[Other] = None PROVE held[Other] = {}
  <2>1. t # Other /\ rows[Other] = {}
    BY <1>6 DEF RowInv
  <2> QED BY <1>2, <1>3, <2>1 DEF Table
<1> QED BY <1>1, <1>5, <1>6, CommitRows

LEMMA TruncateRows ==
    ASSUME PageInv, RowInv, Truncate
    PROVE  RowInv'
<1> DEFINE d == Truncated(db)
<1>1. /\ db.ok /\ running = "nothing" /\ rootOf' = rootOf /\ rootOf[Other] = None
      /\ rootOf[Users] # None /\ Emptied(Users, d) /\ UNCHANGED loop
  BY DEF Truncate, Exists, Ready, OnlyUsers
<1>2. rootOf[Users] = 0 /\ AllPages(db, rootOf) /\ OneTree(db, 0) /\ Rest(db, 0) = {}
  BY <1>1 DEF PageInv, AllPages
<1>3. d = NewFile
  BY <1>2, TruncatedFile DEF OneTree
<1> HIDE DEF d
<1>4. Commit(d, [rows EXCEPT ![Users] = {}]) /\ misrouted' = misrouted \ {Users}
  BY <1>1 DEF Emptied
<1>5. d.ok /\ Stores(d, 0, {})
  <2>1. AllPages(NewFile, rootOf)
    BY <1>1, <1>2, NewFileFacts
  <2>2. d.ok = TRUE
    BY <1>3, <2>1 DEF AllPages, OneTree, File
  <2> QED BY <1>3, <2>2, NewFileRows
<1> DEFINE held == [rows EXCEPT ![Users] = {}]
<1>6. held[Users] = {} /\ held[Other] = {} /\ held = [t \in Table |-> held[t]]
  <2>1. rows = [t \in Table |-> rows[t]] /\ rows[Other] = {}
    BY <1>1 DEF RowInv
  <2> QED BY <2>1, BTreeAssumption DEF Table
<1> HIDE DEF held
<1>7. Stored(d, rootOf', held, misrouted')
  BY <1>1, <1>2, <1>5, <1>6 DEF Stored, Table
<1>8. running' \in {"nothing", "statements"} /\ todo' = <<>>
  BY <1>1 DEF RowInv, loop
<1>9. Commit(d, held)
  BY <1>4 DEF held
<1> QED BY <1>5, <1>6, <1>7, <1>8, <1>9, CommitRows

LEMMA RowsGoneRows ==
    ASSUME PageInv, RowInv, NEW t \in Table, NEW loop_ \in {"records", "statements"},
           rootOf[t] # None, RowsGone(t, loop_)
    PROVE  RowInv'
<1>1. /\ running = loop_ /\ UNCHANGED rootOf /\ running' = "nothing" /\ todo' = todo
      /\ FirstKeys(db, rootOf[t]) = <<>> /\ Emptied(t, db)
  BY DEF RowsGone
<1>2. db.ok /\ AllPages(db, rootOf)
  BY <1>1 DEF PageInv
<1>3. OneTree(db, rootOf[t])
  BY <1>2, RootedTree
<1>4. Stores(db, rootOf[t], {})
  BY <1>1, <1>3, FirstEmpty
<1>5. Kept(db, db, rootOf[t])
  BY <1>3 DEF Kept, OneTree, File
<1>6. todo' = <<>>
  BY <1>1 DEF RowInv
<1> QED BY <1>1, <1>2, <1>4, <1>5, <1>6, EmptiedRows

LEMMA BeginRows ==
    ASSUME RowInv, NEW loop_ \in {"records", "statements"}, Begin(loop_)
    PROVE  RowInv'
<1>1. /\ db.ok /\ running = "nothing" /\ running' = loop_
      /\ UNCHANGED <<db, committed, rootOf, at, todo, rows, misrouted>>
  BY DEF Begin, Exists, Ready
<1>2. \A t \in Table : Healthy(t)' <=> Healthy(t)
  BY <1>1 DEF Healthy
<1> QED BY <1>1, <1>2 DEF RowInv

LEMMA KeyNotFoundRows ==
    ASSUME RowInv, KeyNotFound
    PROVE  RowInv'
<1>1. /\ running = "statements" /\ running' = "nothing"
      /\ UNCHANGED <<db, committed, rootOf, at, todo, rows, misrouted>>
  BY DEF KeyNotFound
<1>2. \A t \in Table : Healthy(t)' <=> Healthy(t)
  BY <1>1 DEF Healthy
<1> QED BY <1>1, <1>2 DEF RowInv

LEMMA CreateTableRows ==
    ASSUME PageInv, RowInv, CreateTable, PageInv'
    PROVE  RowInv'
<1> DEFINE d == Claim(db, EmptyRoot)
           p == NextUnused(db)
<1>1. /\ db.ok /\ running = "nothing" /\ rootOf[Other] = None
      /\ Commit(d, rows) /\ UNCHANGED <<loop, misrouted>>
      /\ rootOf' = [rootOf EXCEPT ![Other] = p]
  BY DEF CreateTable, Ready
<1>2. /\ rootOf[Users] = 0 /\ OneTree(db, 0) /\ 0 # None
      /\ rootOf'[Users] = 0 /\ rootOf'[Other] = p
  <2>1. rootOf = [t \in Table |-> rootOf[t]] /\ rootOf[Users] = 0 /\ OneTree(db, 0)
    BY <1>1 DEF PageInv, AllPages
  <2> QED BY <1>1, <2>1, BTreeAssumption DEF Table, None
<1>3. /\ Stored(db, rootOf, rows, misrouted)
      /\ rows = [u \in Table |-> rows[u]] /\ rows[Other] = {}
  BY <1>1, RowsStored DEF RowInv
<1>4. d.ok
  <2>1. db' = d
    BY <1>1 DEF Commit
  <2>2. db'.ok \in BOOLEAN /\ AllPages(committed'.db, rootOf') /\ committed'.db = d
    BY <1>1 DEF PageInv, Commit
  <2>3. d.ok = TRUE
    BY <2>2 DEF AllPages, OneTree, File
  <2> QED BY <2>3
<1>5. d = Claim(db, EmptyRoot) /\ p = NextUnused(db)
  OBVIOUS
<1> HIDE DEF d, p
<1>6. Users \notin misrouted => Stores(db, 0, rows[Users])
  BY <1>2, <1>3 DEF Stored, Table
<1>7. Users \notin misrouted => Stores(d, 0, rows[Users])
  BY <1>2, <1>5, <1>6, ClaimedRows
<1>8. Stores(d, p, {})
  BY <1>2, <1>5, ClaimedRows
<1>9. Stored(d, rootOf', rows, misrouted')
  BY <1>1, <1>2, <1>3, <1>7, <1>8 DEF Stored, Table
<1>10. running' \in {"nothing", "statements"} /\ todo' = <<>>
  BY <1>1 DEF RowInv, loop
<1> QED BY <1>1, <1>3, <1>4, <1>9, <1>10, CommitRows

\* The version is written into the file that the process holds.
LEMMA VersionStored ==
    ASSUME AllPages(db, rootOf), rootOf[Users] = 0, Stored(db, rootOf, rows, misrouted),
           NEW v, NEW d, d = Versioned(db, v)
    PROVE  d.ok /\ Stored(d, rootOf, rows, misrouted)
<1>1. OneTree(db, 0) /\ Kept(db, d, 0) /\ AllPages(d, rootOf)
  BY VersionedKeeps, VersionedPages DEF AllPages
<1>2. d.ok = TRUE
  BY <1>1 DEF AllPages, OneTree, File
<1>3. ASSUME NEW t \in Table, rootOf[t] # None, t \notin misrouted
      PROVE  Stores(d, rootOf[t], rows[t])
  <2>1. Stores(db, rootOf[t], rows[t])
    BY <1>3 DEF Stored
  <2>2. CASE t = Users
    BY <1>1, <2>1, <2>2, VersionedRows
  <2>3. CASE t # Users
    <3>1. t = Other /\ Users \in Table /\ Users # t
      BY <2>3 DEF Table
    <3> QED BY <1>1, <1>3, <2>1, <3>1, OtherRows
  <2> QED BY <2>2, <2>3
<1> QED BY <1>2, <1>3 DEF Stored

LEMMA SetUserVersionRows ==
    ASSUME PageInv, RowInv, NEW v, SetUserVersion(v)
    PROVE  RowInv'
<1> DEFINE d == Versioned(db, v)
<1>1. /\ db.ok /\ running = "nothing" /\ rootOf' = rootOf
      /\ Commit(d, rows) /\ UNCHANGED <<loop, misrouted>>
  BY DEF SetUserVersion, Ready
<1>2. AllPages(db, rootOf) /\ rootOf[Users] = 0
  BY <1>1 DEF PageInv
<1>3. /\ Stored(db, rootOf, rows, misrouted)
      /\ rows = [u \in Table |-> rows[u]]
      /\ rootOf[Other] = None => rows[Other] = {}
  BY <1>1, RowsStored DEF RowInv
<1>4. d.ok /\ Stored(d, rootOf, rows, misrouted)
  BY <1>2, <1>3, VersionStored
<1> HIDE DEF d
<1>5. running' \in {"nothing", "statements"} /\ todo' = <<>> /\ misrouted' = misrouted
  BY <1>1 DEF RowInv, loop
<1> QED BY <1>1, <1>3, <1>4, <1>5, CommitRows

LEMMA VacuumRows ==
    ASSUME PageInv, RowInv, Vacuum
    PROVE  RowInv'
<1>1. /\ db.ok /\ running = "nothing" /\ rootOf[Other] = None
      /\ running' = "read" /\ at' = LeafFor(db, 0, 0)
      /\ UNCHANGED <<db, committed, rootOf, todo, rows, misrouted>>
  BY DEF Vacuum, Ready, OnlyUsers
<1>2. OneTree(db, 0) /\ rootOf[Users] = 0 /\ todo = <<>>
  BY <1>1 DEF PageInv, AllPages, RowInv
<1>3. \A t \in Table : Healthy(t)' <=> Healthy(t)
  BY <1>1 DEF Healthy
<1>4. Healthy(Users)' <=> Healthy(Users)
  BY <1>1 DEF Healthy
<1>5. ASSUME Healthy(Users)
      PROVE  ReadUpTo(db, 0, at', <<>>)
  <2> DEFINE L == Leaves(db, 0)
             s == <<>>
  <2>1. Stores(db, 0, rows[Users])
    BY <1>1, <1>2, <1>5 DEF RowInv, Table
  <2>2. L[1] = at' /\ 1 \in 1 .. Len(L)
    <3>1. L[1] = LeafFor(db, 0, 0)
      BY <1>2, <2>1, FirstLeaf
    <3>2. LeavesOf(db, L, Separators(db, 0))
      BY <1>2, TreeLeaves
    <3>3. Len(L) \in Nat /\ Len(L) >= 1
      BY <3>2 DEF LeavesOf
    <3> QED BY <1>1, <3>1, <3>3
  <2>3. Increasing(s) /\ ToSet(s) = {}
    BY DEF Increasing, ToSet
  <2>4. {KeysIn(db, L[i]) : i \in 1 .. 1 - 1} = {}
    OBVIOUS
  <2> HIDE DEF L, s
  <2>5. ToSet(s) = UNION {KeysIn(db, L[i]) : i \in 1 .. 1 - 1}
    BY <2>3, <2>4
  <2>6. ReadUpTo(db, 0, at', s)
    BY <2>2, <2>3, <2>5 DEF ReadUpTo, L
  <2> QED BY <2>6 DEF s
<1>6. Healthy(Users)' => ReadUpTo(db', 0, at', todo')
  BY <1>1, <1>2, <1>4, <1>5
<1> QED BY <1>1, <1>3, <1>6 DEF RowInv

LEMMA VacuumReadsRows ==
    ASSUME PageInv, RowInv, VacuumReads
    PROVE  RowInv'
<1>1. /\ running = "read" /\ todo' = todo \o db.node[at].keys
      /\ UNCHANGED <<committed, rootOf, misrouted>>
  BY DEF VacuumReads
<1>2. /\ db.ok /\ rootOf[Other] = None /\ OneTree(db, 0) /\ rootOf[Users] = 0
      /\ AllPages(db, rootOf) /\ todo \in Seq(Nat) /\ db = committed.db
  BY <1>1 DEF PageInv, AllPages
<1>3. /\ rows = committed.rows /\ rows = [t \in Table |-> rows[t]]
      /\ committed.rows = [t \in Table |-> committed.rows[t]]
      /\ rows[Other] = {} /\ committed.rows[Other] = {}
  BY <1>1, <1>2 DEF RowInv
<1>4. \A t \in Table : Healthy(t)' <=> Healthy(t)
  BY <1>1 DEF Healthy
<1>5. \A t \in Table : Healthy(t) => t = Users
  BY <1>2 DEF Healthy, Table
<1>6. ASSUME Healthy(Users)
      PROVE  /\ Stores(db, 0, rows[Users])
             /\ db.node[at].next # 0 => ReadUpTo(db, 0, db.node[at].next, todo')
             /\ db.node[at].next = 0 => LeftToInsert(todo', {}, rows[Users])
  <2>1. Stores(db, 0, rows[Users])
    BY <1>2, <1>6 DEF RowInv, Table
  <2>2. ReadUpTo(db, 0, at, todo)
    BY <1>1, <1>6 DEF RowInv
  <2> QED BY <1>1, <1>2, <2>1, <2>2, ReadOn
<1>7. \A t \in Table : Healthy(t)' => Stores(committed'.db, rootOf'[t], committed'.rows[t])
  BY <1>1, <1>4 DEF RowInv
<1>8. Healthy(Users)' <=> Healthy(Users)
  BY <1>1 DEF Healthy
<1>9. CASE db.node[at].next # 0
  <2>1. at' = db.node[at].next /\ UNCHANGED <<db, rows, running>>
    BY <1>9 DEF VacuumReads
  <2>2. Healthy(Users)' => ReadUpTo(db', 0, at', todo')
    BY <1>6, <1>8, <1>9, <2>1
  <2>3. \A t \in Table : Healthy(t)' => Stores(db', rootOf'[t], rows'[t])
    BY <1>1, <1>2, <1>4, <2>1, SMTT(60) DEF RowInv
  <2> QED BY <1>1, <1>2, <1>3, <1>7, <2>1, <2>2, <2>3 DEF RowInv
<1>10. CASE ~(db.node[at].next # 0)
  <2>1. db' = Truncated(db) /\ rows' = [rows EXCEPT ![Users] = {}] /\ running' = "refill"
    BY <1>10 DEF VacuumReads
  <2>2. db' = NewFile
    BY <1>2, <2>1, TruncatedFile DEF OneTree
  <2>3. rows'[Users] = {} /\ rows'[Other] = {} /\ rows' = [t \in Table |-> rows'[t]]
    BY <1>3, <2>1, BTreeAssumption DEF Table
  <2>4. \A t \in Table : Healthy(t)' => Stores(db', rootOf'[t], rows'[t])
    BY <1>1, <1>2, <1>4, <1>5, <2>2, <2>3, NewFileRows
  <2>5. Healthy(Users)' => LeftToInsert(todo', rows'[Users], committed'.rows[Users])
    BY <1>1, <1>3, <1>6, <1>8, <1>10, <2>3
  <2>6. db'.ok
    <3>1. AllPages(NewFile, rootOf)
      BY <1>2, NewFileFacts
    <3>2. db'.ok = TRUE
      BY <2>2, <3>1 DEF AllPages, OneTree, File
    <3> QED BY <3>2
  <2> QED BY <1>1, <1>2, <1>3, <1>7, <2>1, <2>3, <2>4, <2>5, <2>6 DEF RowInv
<1> QED BY <1>9, <1>10

LEMMA VacuumInsertsRows ==
    ASSUME PageInv, RowInv, VacuumInserts
    PROVE  RowInv'
<1> DEFINE k == Head(todo)
           d == Inserted(db, 0, k)
           held == [rows EXCEPT ![Users] = rows[Users] \cup {k}]
<1>1. /\ running = "refill" /\ todo # <<>> /\ rootOf' = rootOf
      /\ IF d.ok THEN /\ db' = d /\ rows' = held /\ todo' = Tail(todo)
                      /\ UNCHANGED <<committed, running, at, misrouted>>
         ELSE Exit
  BY DEF VacuumInserts
<1>2. /\ db.ok /\ rootOf[Other] = None /\ AllPages(db, rootOf) /\ OneTree(db, 0)
      /\ rootOf[Users] = 0 /\ todo \in Seq(Nat)
  BY <1>1 DEF PageInv, AllPages
<1>3. k \in Nat
  BY <1>1, <1>2, HeadTailProperties
<1>4. /\ rows = [t \in Table |-> rows[t]]
      /\ committed.rows = [t \in Table |-> committed.rows[t]]
      /\ rows[Other] = {} /\ committed.rows[Other] = {}
  BY <1>2 DEF RowInv
<1>5. held[Users] = rows[Users] \cup {k} /\ held[Other] = {}
      /\ held = [t \in Table |-> held[t]]
  BY <1>4, BTreeAssumption DEF Table
<1>6. \A t \in Table : Healthy(t) => t = Users
  BY <1>2 DEF Healthy, Table
<1>7. ASSUME Healthy(Users)
      PROVE  /\ Stores(db, 0, rows[Users])
             /\ \A x \in rows[Users] : x < k
             /\ k \notin rows[Users]
             /\ LeftToInsert(Tail(todo), rows[Users] \cup {k}, committed.rows[Users])
  <2>1. Stores(db, 0, rows[Users])
    BY <1>2, <1>7 DEF RowInv, Table
  <2>2. LeftToInsert(todo, rows[Users], committed.rows[Users])
    BY <1>1, <1>7 DEF RowInv
  <2> QED BY <1>1, <1>2, <2>1, <2>2, InsertNext
<1>8. d = Inserted(db, 0, k)
  OBVIOUS
<1> HIDE DEF d, k, held
<1>9. CASE d.ok
  <2>1. /\ db' = d /\ rows' = held /\ todo' = Tail(todo) /\ committed' = committed
        /\ running' = "refill" /\ misrouted' = misrouted
    BY <1>1, <1>9
  <2>2. \A t \in Table : Healthy(t)' <=> Healthy(t)
    BY <1>1, <2>1 DEF Healthy
  <2>3. Healthy(Users)' <=> Healthy(Users)
    BY <1>1, <2>1 DEF Healthy
  <2>4. ASSUME Healthy(Users)
        PROVE  Stores(d, 0, held[Users])
    <3>1. /\ Stores(db, 0, rows[Users]) /\ k \notin rows[Users]
          /\ \A x \in rows[Users] : x < k
      BY <1>7, <2>4
    <3>2. ~Stale(db, 0, k)
      BY <1>2, <1>3, <3>1, LargestInLastLeaf
    <3>3. Stores(d, 0, rows[Users] \cup {k})
      BY <1>2, <1>3, <1>8, <1>9, <3>1, <3>2, RowsInserted
    <3> QED BY <1>5, <3>3
  <2>5. \A t \in Table : Healthy(t)' => Stores(db', rootOf'[t], rows'[t])
    BY <1>1, <1>2, <1>6, <2>1, <2>2, <2>4
  <2>6. \A t \in Table : Healthy(t)' => Stores(committed'.db, rootOf'[t], committed'.rows[t])
    BY <1>1, <2>1, <2>2 DEF RowInv
  <2>7. Healthy(Users)' => LeftToInsert(todo', rows'[Users], committed'.rows[Users])
    BY <1>5, <1>7, <2>1, <2>3
  <2> QED BY <1>1, <1>2, <1>4, <1>5, <1>9, <2>1, <2>5, <2>6, <2>7 DEF RowInv
<1>10. CASE ~d.ok
  BY <1>1, <1>10, ExitRows
<1> QED BY <1>9, <1>10

LEMMA VacuumEndsRows ==
    ASSUME PageInv, RowInv, VacuumEnds
    PROVE  RowInv'
<1> DEFINE d == Versioned(db, committed.db.node[0].parent)
           all == committed.rows
<1>1. /\ running = "refill" /\ todo = <<>> /\ rootOf' = rootOf /\ running' = "nothing"
      /\ Commit(d, all) /\ UNCHANGED <<todo, misrouted>>
  BY DEF VacuumEnds
<1>2. /\ db.ok /\ rootOf[Other] = None /\ AllPages(db, rootOf) /\ rootOf[Users] = 0
  BY <1>1 DEF PageInv
<1>3. /\ Stored(db, rootOf, rows, misrouted)
      /\ all = [t \in Table |-> all[t]] /\ all[Other] = {}
  BY <1>2, RowsStored DEF RowInv
<1>4. d.ok /\ Stored(d, rootOf, rows, misrouted)
  BY <1>2, <1>3, VersionStored
<1> HIDE DEF d
<1>5. ASSUME NEW t \in Table, rootOf[t] # None, t \notin misrouted
      PROVE  Stores(d, rootOf[t], all[t])
  <2>1. t = Users
    BY <1>2, <1>5 DEF Table
  <2>2. LeftToInsert(<<>>, rows[Users], all[Users])
    BY <1>1, <1>5, <2>1 DEF RowInv, Healthy
  <2>3. all[Users] = rows[Users]
    <3> DEFINE s == <<>>
    <3>1. ToSet(s) = {}
      BY DEF ToSet
    <3> HIDE DEF s
    <3>2. all[Users] = rows[Users] \cup ToSet(s)
      BY <2>2 DEF LeftToInsert, s
    <3> QED BY <3>1, <3>2
  <2> QED BY <1>4, <1>5, <2>1, <2>3 DEF Stored
<1>6. Stored(d, rootOf', all, misrouted')
  BY <1>1, <1>5 DEF Stored
<1> HIDE DEF all
<1> QED BY <1>1, <1>3, <1>4, <1>6, CommitRows

LEMMA ReopenRows ==
    ASSUME PageInv, RowInv, Reopen
    PROVE  RowInv'
<1>1. /\ ~db.ok /\ db' = committed.db /\ running = "nothing"
      /\ UNCHANGED <<committed, rootOf, loop, rows, misrouted>>
  BY DEF Reopen, PageInv
<1>2. rows = committed.rows
  BY <1>1 DEF RowInv
<1>3. \A t \in Table : Healthy(t)' <=> Healthy(t)
  BY <1>1 DEF Healthy
<1> QED BY <1>1, <1>2, <1>3 DEF RowInv, loop

LEMMA InitRows == Init => RowInv
<1> SUFFICES ASSUME Init PROVE RowInv
  OBVIOUS
<1>1. db = NewFile
  BY Zenon DEF Init, NewFile, DbRec
<1>2. /\ committed.db = db /\ committed.rows = rows /\ running = "nothing" /\ todo = <<>>
      /\ rows = [t \in Table |-> {}]
      /\ rootOf = [t \in Table |-> IF t = Users THEN 0 ELSE None]
  BY DEF Init
<1>3. \A t \in Table : Healthy(t) => rootOf[t] = 0
  BY <1>2 DEF Healthy
<1>4. \A t \in Table : rows[t] = {}
  BY <1>2
<1>5. \A t \in Table : Healthy(t) => Stores(db, rootOf[t], rows[t])
  BY <1>1, <1>3, <1>4, NewFileRows
<1>6. rows = [t \in Table |-> rows[t]] /\ Other \in Table
  BY <1>2 DEF Table
<1> QED BY <1>2, <1>4, <1>5, <1>6 DEF RowInv

LEMMA StepRows ==
    ASSUME PageInv, RowInv, PageInv', [Next]_vars
    PROVE  RowInv'
<1>1. CASE \E t \in Table : \E k \in KeyOf[t] : Insert(t, k) \/ Delete(t, k)
  BY <1>1, InsertRows, DeleteRows
<1>2. CASE Truncate
  BY <1>2, TruncateRows
<1>3. CASE DeleteAllRecords \/ DeleteAllStatements
  BY <1>3, BeginRows DEF DeleteAllRecords, DeleteAllStatements
<1>4. CASE DeleteRecord
  BY <1>4, DeleteRecordRows
<1>5. CASE DeleteStatement
  BY <1>5, DeleteStatementRows
<1>6. CASE KeyNotFound
  BY <1>6, KeyNotFoundRows
<1>7. CASE RowsGone(Other, "records")
  <2>1. rootOf[Other] # None /\ Other \in Table
    BY <1>7 DEF RowsGone, PageInv, Table
  <2> QED BY <1>7, <2>1, RowsGoneRows
<1>8. CASE RowsGone(Users, "statements")
  <2>1. rootOf[Users] # None /\ Users \in Table
    BY BTreeAssumption DEF PageInv, None, Table
  <2> QED BY <1>8, <2>1, RowsGoneRows
<1>9. CASE CreateTable
  BY <1>9, CreateTableRows
<1>10. CASE Vacuum
  BY <1>10, VacuumRows
<1>11. CASE VacuumReads
  BY <1>11, VacuumReadsRows
<1>12. CASE VacuumInserts
  BY <1>12, VacuumInsertsRows
<1>13. CASE VacuumEnds
  BY <1>13, VacuumEndsRows
<1>14. CASE \E v \in Version : SetUserVersion(v)
  BY <1>14, SetUserVersionRows
<1>15. CASE Reopen
  BY <1>15, ReopenRows
<1>16. CASE UNCHANGED vars
  <2>1. UNCHANGED <<db, committed, rootOf, running, at, todo, rows, misrouted>>
    BY <1>16 DEF vars, loop
  <2>2. \A t \in Table : Healthy(t)' <=> Healthy(t)
    BY <2>1 DEF Healthy
  <2>3. Healthy(Users)' <=> Healthy(Users)
    BY <2>1 DEF Healthy
  <2> QED BY <2>1, <2>2, <2>3 DEF RowInv
<1> QED BY <1>1, <1>2, <1>3, <1>4, <1>5, <1>6, <1>7, <1>8, <1>9, <1>10, <1>11, <1>12,
           <1>13, <1>14, <1>15, <1>16 DEF Next

----------------------------------------------------------------------------
(* Theorems.                                                               *)

\* The leaves of every table that is not misrouted stay sorted, chained and
\* separated, and hold the rows of the table, in the file of the process as in
\* that of the last commit: the second part of the inductive invariant.
THEOREM RowsInOrder == Spec => []RowInv
<1>1. Init => RowInv
  BY InitRows
<1>2. PageInv /\ PageInv' /\ RowInv /\ [Next]_vars => RowInv'
  BY StepRows
<1> QED BY <1>1, <1>2, PagesInOrder, PTL DEF Spec

\* Both parts of the inductive invariant hold.
THEOREM TreesStayInOrder == Spec => []TreesInv
<1>1. PageInv /\ RowInv => TreesInv
  BY DEF TreesInv
<1> QED BY <1>1, PagesInOrder, RowsInOrder, PTL

\* What the process holds, running or not, are rows that the trees store.
LEMMA HealthyTree ==
    ASSUME PageInv, RowInv, NEW t \in Table, Healthy(t)
    PROVE  \E d : /\ OneTree(d, rootOf[t]) /\ Stores(d, rootOf[t], rows[t])
                  /\ d.num <= MaxPages
                  /\ db.node = d.node /\ db.num = d.num
<1>1. rootOf[t] # None
  BY DEF Healthy
<1>2. CASE db.ok
  <2>1. AllPages(db, rootOf) /\ Stores(db, rootOf[t], rows[t])
    BY <1>2 DEF PageInv, RowInv
  <2>2. OneTree(db, rootOf[t]) /\ db.num <= MaxPages
    BY <1>1, <2>1, RootedTree
  <2> QED BY <2>1, <2>2
<1>3. CASE ~db.ok
  <2> DEFINE c == committed.db
  <2>1. AllPages(c, rootOf) /\ db = Stopped(c) /\ Stores(c, rootOf[t], rows[t])
    BY <1>3 DEF PageInv, RowInv
  <2>2. OneTree(c, rootOf[t]) /\ c.num <= MaxPages
    BY <1>1, <2>1, RootedTree
  <2>3. PICK f : f = FALSE
    BY Zenon
  <2>4. db = [c EXCEPT !.ok = f]
    BY <2>1, <2>3, Zenon DEF Stopped
  <2>5. c = DbRec(c.node, c.free, c.num, c.ok)
    BY <2>2 DEF OneTree, File
  <2> HIDE DEF c
  <2>6. db.node = c.node /\ db.num = c.num
    BY ONLY <2>4, <2>5 DEF DbRec
  <2> QED BY <2>1, <2>2, <2>6
<1> QED BY <1>2, <1>3

\* Readers look at the pages alone, not at whether the process runs.
SamePages(d, e) == e.node = d.node /\ e.num = d.num

LEMMA WalkSame ==
    ASSUME NEW d, NEW e, SamePages(d, e), NEW p, NEW n \in Nat
    PROVE  Walk(e, p)[n] = Walk(d, p)[n]
<1> DEFINE v == Walk(d, p)
           w == Walk(e, p)
           A == {m \in 0 .. n : w[m] = v[m]}
<1>1. v[0] = AtStart(p) /\ \A m \in Nat : v[m + 1] = Advanced(d, v[m])
  BY WalkIs
<1>2. w[0] = AtStart(p) /\ \A m \in Nat : w[m + 1] = Advanced(e, w[m])
  BY WalkIs
<1> HIDE DEF v, w
<1>3. ASSUME NEW c PROVE Advanced(e, c) = Advanced(d, c)
  BY Zenon DEF Advanced, SamePages
<1>4. 0 \in A
  BY <1>1, <1>2
<1>5. ASSUME NEW m \in 0 .. n - 1, m \in A
      PROVE  m + 1 \in A
  <2>1. m \in Nat /\ m + 1 \in 0 .. n
    OBVIOUS
  <2>2. w[m] = v[m]
    BY <1>5
  <2> QED BY <1>1, <1>2, <1>3, <2>1, <2>2
<1>6. 0 .. n \subseteq A
  <2> HIDE DEF A
  <2> QED BY <1>4, <1>5, UpTo
<1>7. n \in A
  <2> HIDE DEF A
  <2> QED BY <1>6
<1> QED BY <1>7 DEF v, w

LEMMA ReadersSame ==
    ASSUME NEW d, NEW e, SamePages(d, e), d.num \in Nat, NEW r
    PROVE  /\ Scan(e, r) = Scan(d, r)
           /\ \A k : Holds(e, r, k) <=> Holds(d, r, k)
           /\ StructureValid(e, r) <=> StructureValid(d, r)
           /\ ChainValid(e, r) <=> ChainValid(d, r)
<1>1. \A p : IsLeaf(e, p) <=> IsLeaf(d, p)
  BY DEF IsLeaf, SamePages
<1>2. \A k : LeafFor(e, r, k) = LeafFor(d, r, k)
  BY <1>1 DEF LeafFor, SamePages
<1>3. Scan(e, r) = Scan(d, r)
  <2>1. \A p : Walk(e, p)[MaxPages] = Walk(d, p)[MaxPages]
    BY WalkSame, Sizes
  <2> QED BY <1>2, <2>1 DEF Scan, ScanFrom
<1>4. \A k : Holds(e, r, k) <=> Holds(d, r, k)
  BY <1>2 DEF Holds, SamePages
<1>5. Kids(e, r) = Kids(d, r) /\ LeavesBelow(e, r) = LeavesBelow(d, r)
  BY <1>1 DEF Kids, LeavesBelow, SamePages
<1>6. \A p, q : ValidLink(e, p, q) <=> ValidLink(d, p, q)
  BY DEF ValidLink, SamePages
<1>7. StructureValid(e, r) <=> StructureValid(d, r)
  BY <1>1, <1>5, <1>6 DEF StructureValid, SamePages
<1>8. ChainValid(e, r) <=> ChainValid(d, r)
  <2> DEFINE p == IF IsLeaf(d, r) THEN r ELSE d.node[r].kids[1]
             q == IF IsLeaf(e, r) THEN r ELSE e.node[r].kids[1]
             v == Walk(d, p)
             w == Walk(e, q)
             m == d.num
  <2>1. p = q
    BY <1>1 DEF SamePages
  <2> HIDE DEF p, q
  <2>2. \A n \in Nat : w[n] = v[n]
    BY <2>1, WalkSame
  <2> HIDE DEF v, w
  <2>3. ChainValid(d, r) <=>
          /\ \A n \in 0 .. m - 1 : ~v[n].end =>
                /\ IsLeaf(d, v[n].page)
                /\ d.node[v[n].page].prev = IF n = 0 THEN 0 ELSE v[n - 1].page
          /\ v[m].end
          /\ \A i \in 1 .. Len(v[m].got) - 1 : v[m].got[i] < v[m].got[i + 1]
    BY Zenon DEF ChainValid, v, p
  <2>4. ChainValid(e, r) <=>
          /\ \A n \in 0 .. m - 1 : ~w[n].end =>
                /\ IsLeaf(e, w[n].page)
                /\ e.node[w[n].page].prev = IF n = 0 THEN 0 ELSE w[n - 1].page
          /\ w[m].end
          /\ \A i \in 1 .. Len(w[m].got) - 1 : w[m].got[i] < w[m].got[i + 1]
    <3>1. e.num = m
      BY DEF SamePages
    <3> HIDE DEF m
    <3> QED BY <3>1, Zenon DEF ChainValid, w, q
  <2>5. \A n \in 0 .. m - 1 : w[n] = v[n] /\ (n # 0 => w[n - 1] = v[n - 1])
    <3>1. \A n \in 0 .. m - 1 : n \in Nat /\ (n # 0 => n - 1 \in Nat)
      OBVIOUS
    <3> QED BY <2>2, <3>1
  <2>6. w[m] = v[m] /\ e.node = d.node
    BY <2>2 DEF SamePages
  <2> HIDE DEF m
  <2> QED BY <1>1, <2>3, <2>4, <2>5, <2>6
<1> QED BY <1>3, <1>4, <1>7, <1>8

LEMMA RowsFollow == PageInv /\ RowInv => RowsReachable
<1> SUFFICES ASSUME PageInv, RowInv, NEW t \in Table, Healthy(t)
             PROVE  /\ ToSet(Scan(db, rootOf[t])) = rows[t]
                    /\ LET s == Scan(db, rootOf[t])
                       IN  \A i \in 1 .. Len(s) - 1 : s[i] < s[i + 1]
                    /\ \A k \in KeyOf[t] : Holds(db, rootOf[t], k) <=> k \in rows[t]
  BY DEF RowsReachable, ScanReturnsRows, LookupFindsRows
<1> DEFINE r == rootOf[t]
           s == Scan(db, r)
<1>1. PICK d : /\ OneTree(d, r) /\ Stores(d, r, rows[t]) /\ d.num <= MaxPages
               /\ db.node = d.node /\ db.num = d.num
  BY HealthyTree
<1>2. SamePages(d, db) /\ d.num \in Nat
  BY <1>1 DEF SamePages, OneTree, File
<1>3. s = Scan(d, r) /\ \A k : Holds(db, r, k) <=> Holds(d, r, k)
  BY <1>2, ReadersSame
<1> HIDE DEF s
<1>4. s \in Seq(Nat) /\ Increasing(s) /\ ToSet(s) = rows[t]
  BY <1>1, <1>3, ScanIs
<1>5. \A i \in 1 .. Len(s) - 1 : s[i] < s[i + 1]
  <2>1. \A i \in 1 .. Len(s) - 1 : i \in 1 .. Len(s) /\ i + 1 \in 1 .. Len(s) /\ i < i + 1
    BY <1>4
  <2> QED BY <1>4, <2>1 DEF Increasing
<1>6. \A k \in KeyOf[t] : Holds(db, r, k) <=> k \in rows[t]
  <2>1. \A k \in KeyOf[t] : k \in Nat
    BY BTreeAssumption DEF Table
  <2> QED BY <1>1, <1>3, <2>1, StoredIsFound
<1> QED BY <1>4, <1>5, <1>6 DEF s

\* A scan of a healthy table returns each of its rows once and in order, and a
\* lookup by key finds exactly these.
THEOREM RowsAreReachable == Spec => []RowsReachable
BY PagesInOrder, RowsInOrder, RowsFollow, PTL

LEMMA AcceptanceFollows == PageInv /\ RowInv => PolicyAcceptsHealthyTree
<1> SUFFICES ASSUME PageInv, RowInv, NEW t \in Table, Healthy(t)
             PROVE  MutationSupported(db, rootOf[t])
  BY DEF PolicyAcceptsHealthyTree
<1> DEFINE r == rootOf[t]
<1>1. PICK d : /\ OneTree(d, r) /\ Stores(d, r, rows[t])
               /\ db.node = d.node /\ db.num = d.num
  BY HealthyTree
<1>2. SamePages(d, db) /\ d.num \in Nat
  BY <1>1 DEF SamePages, OneTree, File
<1>3. MutationSupported(d, r)
  BY <1>1, AcceptedTree
<1> QED BY <1>2, <1>3, ReadersSame DEF MutationSupported

\* The check before a generic mutation never refuses a healthy tree.
THEOREM HealthyTreesAccepted == Spec => []PolicyAcceptsHealthyTree
BY PagesInOrder, RowsInOrder, AcceptanceFollows, PTL

=============================================================================
