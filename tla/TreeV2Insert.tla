---------------------------- MODULE TreeV2Insert ----------------------------
(***************************************************************************)
(* Trees of slotted V2 leaves: nodes, searches, page claims and inserts    *)
(* (slotted_leaf_v2*.h, record_payload_*.c, internal_*_split_stage.h).     *)
(*                                                                         *)
(* A mutation is an operator from the page file before it to the set of    *)
(* page files it may leave: empty when it is refused, one member when its  *)
(* images are published and committed.  Nothing is published before every  *)
(* image is staged, so a refusal leaves no trace.                          *)
(*   node  page number -> node; Blank where no tree page lies              *)
(*   free  the pager's free-page stack, last claimed last                  *)
(*   num   the pager's num_pages                                           *)
(* A leaf holds a sequence of rows [key, size], sorted by key; an internal *)
(* node its children, right_child last, and the separators between them.   *)
(***************************************************************************)
EXTENDS Naturals, FiniteSets, SequencesExt, FiniteSetsExt

CONSTANTS
    Root,           \* the root page of the table, in the catalog
    Capacity,       \* what a leaf holds, in the unit of the row sizes
    MaxKeys,        \* INTERNAL_NODE_MAX_KEYS
    MaxPages        \* page numbers below this bound are considered

ASSUME TreeAssumption ==
    /\ MaxPages \in Nat \ {0} /\ Root \in 1 .. MaxPages - 1
    /\ Capacity \in Nat \ {0}
    /\ MaxKeys \in Nat /\ MaxKeys >= 2

Page == 0 .. MaxPages - 1
Blank == [kind |-> "blank"]

----------------------------------------------------------------------------
(* Nodes.  Page 0 is never a tree page: as a link it means "none".         *)

Leaf(par, rows, prev, next) ==
    [kind |-> "leaf", root |-> FALSE, parent |-> par,
     rows |-> rows, prev |-> prev, next |-> next]

Internal(par, kids, keys) ==
    [kind |-> "internal", root |-> FALSE, parent |-> par,
     kids |-> kids, keys |-> keys]

IsLeaf(d, p) == d.node[p].kind = "leaf"
LeafKeys(n) == [i \in DOMAIN n.rows |-> n.rows[i].key]
MaxRow(n) == Last(n.rows).key
Bytes(rows) == FoldLeft(LAMBDA b, row : b + row.size, 0, rows)
Fits(rows, row) == row.size + Bytes(rows) <= Capacity

\* How many of the ascending keys lie below k.
Below(keys, k) == Cardinality({i \in DOMAIN keys : keys[i] < k})

\* The row enters at the lower bound of its key.
WithRow(rows, row) ==
    InsertAt(rows, Below([i \in DOMAIN rows |-> rows[i].key], row.key) + 1, row)

\* Position of child c in its parent.
At(d, c) == SelectInSeq(d.node[d.node[c].parent].kids, LAMBDA x : x = c)

\* Page p becomes an internal node with these children and separators, and
\* the children point back at it.
Rebuilt(d, p, kids, keys) ==
    [d EXCEPT !.node = [q \in DOMAIN @ |->
        CASE q = p -> [@[q] EXCEPT !.kids = kids, !.keys = keys]
          [] Contains(kids, q) -> [@[q] EXCEPT !.parent = p]
          [] OTHER -> @[q]]]

\* The largest key below page p.
SubMax(d, p) ==
    LET Rightmost[q \in Page] ==
          IF IsLeaf(d, q) THEN MaxRow(d.node[q]) ELSE Rightmost[Last(d.node[q].kids)]
    IN  Rightmost[p]

\* The ancestors of page p, its parent first.
Ancestors(d, p) ==
    LET Up[q \in Page] == IF d.node[q].root THEN <<q>>
                          ELSE <<q>> \o Up[d.node[q].parent]
    IN  Up[d.node[p].parent]

----------------------------------------------------------------------------
(* Reads.                                                                  *)

\* The first separator at or above k picks the child.
Route(d, k) ==
    LET Down[q \in Page] ==
          IF IsLeaf(d, q) THEN q
          ELSE Down[d.node[q].kids[Below(d.node[q].keys, k) + 1]]
    IN  Down[Root]

\* The cursor at the lower bound of k; past the last row of a leaf it stands
\* on the next leaf.
CursorLeaf(d, k) ==
    LET p == Route(d, k)
        n == d.node[p]
    IN  IF n.rows # <<>> /\ MaxRow(n) < k /\ n.next # 0 THEN n.next ELSE p

Holds(d, k) == Contains(LeafKeys(d.node[CursorLeaf(d, k)]), k)

\* A scan starts at the leftmost leaf and follows next.
Scan(d) ==
    LET Chain[n \in 0 .. MaxPages, q \in Page] ==
          d.node[q].rows \o
          (IF d.node[q].next = 0 \/ n = 0 THEN <<>> ELSE Chain[n - 1, d.node[q].next])
    IN  Chain[MaxPages, Route(d, 0)]

----------------------------------------------------------------------------
(* Page claims: from the top of the free stack, then from the end.         *)

ClaimedPages(d, n) ==
    [i \in 1 .. n |-> IF i <= Len(d.free) THEN d.free[Len(d.free) + 1 - i]
                      ELSE d.num + (i - Len(d.free)) - 1]

Claim(d, n) ==
    LET fromStack == IF n <= Len(d.free) THEN n ELSE Len(d.free)
        num       == d.num + (n - fromStack)
    IN  [d EXCEPT !.free = SubSeq(@, 1, Len(@) - fromStack),
                  !.num  = num,
                  !.node = [q \in 0 .. num - 1 |->
                              IF q \in DOMAIN @ THEN @[q] ELSE Blank]]

FreePage(d, p) == [d EXCEPT !.free = Append(@, p), !.node[p] = Blank]
FreePages(d, ps) == FoldLeft(FreePage, d, ps)

----------------------------------------------------------------------------
(* Leaf split: by bytes, then the new row goes to the half its key is in.  *)

\* The first index that leaves the two halves closest in bytes.
SplitIndex(rows) ==
    LET Delta(i) == LET a == Bytes(SubSeq(rows, 1, i))
                        b == Bytes(rows) - a
                    IN  IF a > b THEN a - b ELSE b - a
    IN  CHOOSE i \in 1 .. Len(rows) - 1 :
            \A j \in 1 .. Len(rows) - 1 :
                Delta(i) < Delta(j) \/ (Delta(i) = Delta(j) /\ i <= j)

\* The halves after the row has entered one; none if it still does not fit.
Halves(rows, row) ==
    LET i    == SplitIndex(rows)
        low  == SubSeq(rows, 1, i)
        high == SubSeq(rows, i + 1, Len(rows))
        goes == row.key <= Last(low).key
    IN  IF Len(rows) < 2 \/ ~Fits(IF goes THEN low ELSE high, row) THEN {}
        ELSE {IF goes THEN <<WithRow(low, row), high>>
              ELSE <<low, WithRow(high, row)>>}

\* Fault: the leaf after the split one still points back at it.
FaultLeafSplit(d, p, q, half) ==
    LET n == d.node[p]
    IN  [d EXCEPT !.node[p].rows = half[1], !.node[p].next = q,
                  !.node[q] = Leaf(n.parent, half[2], p, n.next)]

\* Leaf p keeps the low half; page q becomes its right neighbour.
LeafSplit(d, p, q, half) ==
    LET n  == d.node[p]
        d1 == [d EXCEPT !.node[p].rows = half[1], !.node[p].next = q,
                        !.node[q] = Leaf(n.parent, half[2], p, n.next)]
    IN  IF n.next = 0 THEN d1 ELSE [d1 EXCEPT !.node[n.next].prev = q]

----------------------------------------------------------------------------
(* Internal nodes.  A split in progress is a record:                       *)
(*   d          the pages so far                                           *)
(*   left,right the two halves of the page that was split                  *)
(*   sep        the largest key below left                                 *)
(*   max        the largest key below the page before the split            *)

\* The node with the right half next to the left one.  The old separator, if
\* there is one, now bounds the right half.
WithChild(n, s) ==
    LET i == SelectInSeq(n.kids, LAMBDA x : x = s.left)
    IN  [n EXCEPT !.kids = InsertAt(@, i + 1, s.right),
                  !.keys = InsertAt(@, i, s.sep)]

\* A split under a separator must keep the upper bound that it states.
ParentAccepts(n, s) ==
    LET i == SelectInSeq(n.kids, LAMBDA x : x = s.left)
    IN  i <= Len(n.keys) =>
            n.keys[i] = s.max /\ SubMax(s.d, s.right) = s.max

\* Fault: a full node takes one more child.
FaultFull(n) == Len(n.keys) > MaxKeys

Full(n) == Len(n.keys) >= MaxKeys

\* An ancestor with room takes the right half and ends the split.
Attach(s, p) ==
    LET n == s.d.node[p]
    IN  IF ~ParentAccepts(n, s) THEN {}
        ELSE LET w == WithChild(n, s) IN {Rebuilt(s.d, p, w.kids, w.keys)}

\* The two halves of a split node, the separator between them apart, may not
\* hold the separator 0.
NoSeparatorZero(w) ==
    \A i \in DOMAIN w.keys : i # Len(w.kids) \div 2 => w.keys[i] # 0

\* A full ancestor splits in turn: it keeps half of the children, page q takes
\* the others, the separator between them moves up.
SplitInternal(before, s, p, q) ==
    LET w    == WithChild(s.d.node[p], s)
        half == Len(w.kids) \div 2
        d1   == [s.d EXCEPT !.node[q] = Internal(w.parent, <<>>, <<>>)]
        d2   == Rebuilt(d1, p, SubSeq(w.kids, 1, half), SubSeq(w.keys, 1, half - 1))
    IN  [d     |-> Rebuilt(d2, q, SubSeq(w.kids, half + 1, Len(w.kids)),
                                  SubSeq(w.keys, half + 1, Len(w.keys))),
         left  |-> p,
         right |-> q,
         sep   |-> w.keys[half],
         max   |-> SubMax(before, p),
         ok    |-> s.ok /\ ParentAccepts(s.d.node[p], s) /\ NoSeparatorZero(w)]

\* A full root keeps its page number over two new internal nodes.
SplitRoot(s, left, right) ==
    LET w    == WithChild(s.d.node[Root], s)
        half == Len(w.kids) \div 2
        d1   == [s.d EXCEPT !.node[left]  = Internal(Root, <<>>, <<>>),
                            !.node[right] = Internal(Root, <<>>, <<>>)]
        d2   == Rebuilt(d1, left, SubSeq(w.kids, 1, half), SubSeq(w.keys, 1, half - 1))
        d3   == Rebuilt(d2, right, SubSeq(w.kids, half + 1, Len(w.kids)),
                                   SubSeq(w.keys, half + 1, Len(w.keys)))
    IN  IF ~ParentAccepts(s.d.node[Root], s) \/ ~NoSeparatorZero(w) THEN {}
        ELSE {Rebuilt(d3, Root, <<left, right>>, <<w.keys[half]>>)}

----------------------------------------------------------------------------
(* The overflow routes.                                                    *)

\* A root leaf moves into two new leaves under it.
RootSplit(d, row) ==
    LET pg == ClaimedPages(d, 2)
        d1 == Claim(d, 2)
    IN  {[d1 EXCEPT
            !.node[pg[1]] = Leaf(Root, half[1], 0, pg[2]),
            !.node[pg[2]] = Leaf(Root, half[2], pg[1], 0),
            !.node[Root]  = [Internal(0, pg, <<Last(half[1]).key>>)
                               EXCEPT !.root = TRUE]]
          : half \in Halves(d.node[Root].rows, row)}

\* The split of leaf p that every other route starts from.
Started(d, d1, p, q, half) ==
    [d |-> LeafSplit(d1, p, q, half), left |-> p, right |-> q,
     sep |-> Last(half[1]).key, max |-> MaxRow(d.node[p]), ok |-> TRUE]

\* The parent has room.
NonrootSplit(d, p, row) ==
    UNION {Attach(Started(d, Claim(d, 1), p, ClaimedPages(d, 1)[1], half),
                  d.node[p].parent) : half \in Halves(d.node[p].rows, row)}

\* The parent is a full root.
RootInternalSplit(d, p, row) ==
    LET pg == ClaimedPages(d, 3)
    IN  UNION {SplitRoot(Started(d, Claim(d, 3), p, pg[1], half), pg[2], pg[3])
               : half \in Halves(d.node[p].rows, row)}

\* The parent is full, the grandparent is not.
NonrootInternalSplit(d, p, row) ==
    LET pg  == ClaimedPages(d, 2)
        par == d.node[p].parent
        End(s) == IF s.ok THEN Attach(s, d.node[par].parent) ELSE {}
    IN  UNION {End(SplitInternal(d, Started(d, Claim(d, 2), p, pg[1], half),
                                 par, pg[2]))
               : half \in Halves(d.node[p].rows, row)}

\* How many ancestors, from the parent up, are full without a gap.
FullLevels(d, p) ==
    LET up == Ancestors(d, p)
    IN  Max({n \in 0 .. Len(up) : \A i \in 1 .. n : Full(d.node[up[i]])})

\* Full levels that split below the root, and the pages that all this takes: a
\* leaf, a node for each such level, two more below a full root.
SplitLevels(d, p) ==
    FullLevels(d, p) - (IF FullLevels(d, p) = Len(Ancestors(d, p)) THEN 1 ELSE 0)

PagesNeeded(d, p) ==
    1 + SplitLevels(d, p)
      + (IF FullLevels(d, p) = Len(Ancestors(d, p)) THEN 2 ELSE 0)

\* Two or more full levels split from the bottom up, unless the leaf's half
\* already ends with the key 0.
RecursiveSplit(d, p, row) ==
    LET up    == Ancestors(d, p)
        chain == SplitLevels(d, p)
        grows == chain < FullLevels(d, p)
        n     == PagesNeeded(d, p)
        pg    == ClaimedPages(d, n)
        End(s) == CASE ~s.ok -> {}
                    [] grows -> SplitRoot(s, pg[n - 1], pg[n])
                    [] OTHER -> Attach(s, up[chain + 1])
    IN  UNION {End(FoldLeft(LAMBDA s, i : SplitInternal(d, s, up[i], pg[i + 1]),
                            [Started(d, Claim(d, n), p, pg[1], half)
                               EXCEPT !.ok = Last(half[1]).key # 0],
                            [i \in 1 .. chain |-> i]))
               : half \in Halves(d.node[p].rows, row)}

Overflow(d, p, row) ==
    IF p = Root THEN RootSplit(d, row)
    ELSE CASE FullLevels(d, p) = 0 -> NonrootSplit(d, p, row)
           [] FullLevels(d, p) = 1 /\ d.node[p].parent = Root ->
                RootInternalSplit(d, p, row)
           [] FullLevels(d, p) = 1 -> NonrootInternalSplit(d, p, row)
           [] OTHER -> RecursiveSplit(d, p, row)

----------------------------------------------------------------------------
(* Insert.                                                                 *)

\* Fault: the last leaf is not exempt from the upper bound.
FaultPreservesTopology(d, p, k) ==
    LET n == d.node[p]
    IN  p = Root \/ (k < MaxRow(n) /\ (n.prev # 0 => k > MaxRow(d.node[n.prev])))

\* The cursor's leaf is one whose range, as the leaf chain states it, takes
\* the key.
PreservesTopology(d, p, k) ==
    LET n == d.node[p]
    IN  IF p = Root THEN n.prev = 0 /\ n.next = 0
        ELSE /\ n.rows # <<>>
             /\ n.next # 0 => k < MaxRow(n)
             /\ n.prev # 0 =>
                  /\ d.node[n.prev].next = p
                  /\ d.node[n.prev].rows # <<>>
                  /\ k > MaxRow(d.node[n.prev])

Inserted(d, row) ==
    LET p == CursorLeaf(d, row.key)
    IN  CASE Holds(d, row.key) \/ ~PreservesTopology(d, p, row.key) -> {}
          [] Fits(d.node[p].rows, row) ->
               {[d EXCEPT !.node[p].rows = WithRow(@, row)]}
          [] OTHER -> Overflow(d, p, row)

\* The row is replaced where it is, if the new one fits in the page.
Updated(d, row) ==
    LET p   == CursorLeaf(d, row.key)
        n   == d.node[p]
        at  == SelectInSeq(n.rows, LAMBDA x : x.key = row.key)
        new == [n.rows EXCEPT ![at] = row]
    IN  IF ~Holds(d, row.key) \/ Bytes(new) > Capacity THEN {}
        ELSE {[d EXCEPT !.node[p].rows = new]}
=============================================================================
