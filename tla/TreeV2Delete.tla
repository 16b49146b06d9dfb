---------------------------- MODULE TreeV2Delete ----------------------------
(***************************************************************************)
(* Deletes from a tree of slotted V2 leaves (record_delete_v2*, internal_* *)
(* stages).  A leaf's last row takes the leaf with it; when that would     *)
(* leave its parent with one child, the first route that knows the shape   *)
(* around the parent repairs it, and without one the delete is refused.    *)
(*                                                                         *)
(* Throughout, p is the leaf that empties, k its only key, P its parent    *)
(* and G the parent of P.                                                  *)
(***************************************************************************)
EXTENDS TreeV2Insert

\* The first of two outcomes that is not a refusal.
a ?? b == IF a # {} THEN a ELSE b

Two(n) == Len(n.keys) = 1
Up(d, p) == d.node[p].parent
First(d, p) == d.node[p].kids[1]
Second(d, p) == d.node[p].kids[2]

----------------------------------------------------------------------------
(* Stages.                                                                 *)

Unlink(d, p) ==
    LET n  == d.node[p]
        d1 == IF n.prev = 0 THEN d ELSE [d EXCEPT !.node[n.prev].next = n.next]
    IN  IF n.next = 0 THEN d1 ELSE [d1 EXCEPT !.node[n.next].prev = n.prev]

\* Internal node g without its child c.  The separator that goes is the one
\* after c, or the last one if c was the last child.
WithoutChild(d, g, c) ==
    LET n == d.node[g]
        i == SelectInSeq(n.kids, LAMBDA x : x = c)
    IN  Rebuilt(d, g, RemoveAt(n.kids, i),
                IF i = Len(n.kids) THEN Front(n.keys) ELSE RemoveAt(n.keys, i))

\* Fault: only the parent's separator is lowered.
FaultLowerMax(d, c, old, new) ==
    LET g == Up(d, c)
        i == At(d, c)
    IN  IF i <= Len(d.node[g].keys) THEN {[d EXCEPT !.node[g].keys[i] = new]} ELSE {d}

\* A separator is only ever lowered from the value it is known to have.
SeparatorLowered(d, g, i, old, new) ==
    IF d.node[g].keys[i] = old THEN {[d EXCEPT !.node[g].keys[i] = new]} ELSE {}

\* The largest key below c fell from old to new: the first ancestor in which
\* the path is not the last child holds the separator that says so.
LowerMax(d, c, old, new) ==
    LET Climb[q \in Page] ==
          LET g == Up(d, q)
              i == At(d, q)
          IN  CASE i <= Len(d.node[g].keys) -> SeparatorLowered(d, g, i, old, new)
                [] d.node[g].root -> {d}
                [] OTHER -> Climb[g]
    IN  Climb[c]

----------------------------------------------------------------------------
(* P has two children or more besides p.                                   *)

DeleteEmptyLeaf(d, p, k) ==
    LET par  == Up(d, p)
        n    == d.node[par]
        last == p = Last(n.kids)
        d1   == WithoutChild(Unlink(d, p), par, p)
        cut  == IF last /\ par # Root THEN LowerMax(d1, par, k, Last(n.keys)) ELSE {d1}
    IN  IF Len(n.keys) < 2 \/ (~last /\ n.keys[At(d, p)] # k)
           \/ (last /\ (Last(n.keys) = 0 \/ Last(n.keys) >= k))
        THEN {} ELSE {FreePage(e, p) : e \in cut}

----------------------------------------------------------------------------
(* P is the root: the other leaf becomes the root page.                    *)

\* Fault: the page of the leaf that was copied is not given back.
FaultRootLeafCollapse(d, p, k) ==
    LET kept == IF First(d, Root) = p THEN Second(d, Root) ELSE First(d, Root)
    IN  IF Up(d, p) # Root \/ ~Two(d.node[Root]) THEN {}
        ELSE {FreePage([Unlink(d, p) EXCEPT
                          !.node[Root] = [Leaf(0, d.node[kept].rows, 0, 0)
                                            EXCEPT !.root = TRUE]], p)}

RootLeafCollapse(d, p, k) ==
    LET kept == IF First(d, Root) = p THEN Second(d, Root) ELSE First(d, Root)
    IN  IF Up(d, p) # Root \/ ~Two(d.node[Root]) THEN {}
        ELSE {FreePages([Unlink(d, p) EXCEPT
                           !.node[Root] = [Leaf(0, d.node[kept].rows, 0, 0)
                                             EXCEPT !.root = TRUE]],
                        <<p, kept>>)}

----------------------------------------------------------------------------
(* Borrowing a leaf from the sibling of P beside p.                        *)

\* P has a grandparent, two children, and p is the one on the given side.
Lower(d, p) == Up(d, p) # Root /\ Two(d.node[Up(d, p)])
OnRight(d, p) == p = Last(d.node[Up(d, p)].kids)

\* The sibling of P on the side of p, 0 if there is none.
Beside(d, p) ==
    LET P == Up(d, p)
        G == d.node[Up(d, P)]
        i == At(d, P)
    IN  IF OnRight(d, p)
        THEN IF i < Len(G.kids) THEN G.kids[i + 1] ELSE 0
        ELSE IF i > 1 THEN G.kids[i - 1] ELSE 0

\* Fault: the separator of P stays.
FaultTakeFirst(d, p, k) ==
    LET P     == Up(d, p)
        S     == Beside(d, p)
        left  == First(d, P)
        donor == First(d, S)
    IN  {FreePage(Rebuilt(WithoutChild(Unlink(d, p), S, donor),
                          P, <<left, donor>>, <<MaxRow(d.node[left])>>), p)}

\* The first leaf of the right sibling replaces p; the separator of P rises.
TakeFirst(d, p, k) ==
    LET P     == Up(d, p)
        G     == Up(d, P)
        S     == Beside(d, p)
        left  == First(d, P)
        donor == First(d, S)
        d1    == Rebuilt(WithoutChild(Unlink(d, p), S, donor),
                         P, <<left, donor>>, <<MaxRow(d.node[left])>>)
    IN  IF d.node[G].keys[At(d, P)] # k THEN {}
        ELSE {FreePage([d1 EXCEPT !.node[G].keys[At(d, P)] = d.node[S].keys[1]], p)}

\* The last leaf of the left sibling replaces p; the separator of that sibling
\* falls.
TakeLast(d, p, k) ==
    LET P     == Up(d, p)
        G     == Up(d, P)
        S     == Beside(d, p)
        donor == Last(d.node[S].kids)
        max   == Last(d.node[S].keys)
        d1    == Rebuilt(WithoutChild(Unlink(d, p), S, donor),
                         P, <<donor, Second(d, P)>>, <<MaxRow(d.node[donor])>>)
    IN  IF d.node[P].keys[1] # k \/ max = 0 THEN {}
        ELSE {FreePage([d1 EXCEPT !.node[G].keys[At(d, P) - 1] = max], p)}

CanBorrow(d, p) == Beside(d, p) # 0 /\ ~Two(d.node[Beside(d, p)])

BorrowFromRight(d, p, k) ==
    IF /\ Lower(d, p) /\ Up(d, Up(d, p)) = Root /\ Two(d.node[Root])
       /\ OnRight(d, p) /\ CanBorrow(d, p)
    THEN TakeFirst(d, p, k) ELSE {}

BorrowFromLeft(d, p, k) ==
    IF /\ Lower(d, p) /\ Up(d, Up(d, p)) = Root /\ Two(d.node[Root])
       /\ ~OnRight(d, p) /\ CanBorrow(d, p)
    THEN TakeLast(d, p, k) ELSE {}

BorrowWideRoot(d, p, k) ==
    IF /\ Lower(d, p) /\ Up(d, Up(d, p)) = Root /\ ~Two(d.node[Root])
       /\ CanBorrow(d, p)
    THEN IF OnRight(d, p) THEN TakeFirst(d, p, k) ELSE TakeLast(d, p, k)
    ELSE {}

BorrowLocal(d, p, k) ==
    IF Lower(d, p) /\ Up(d, Up(d, p)) # Root /\ CanBorrow(d, p)
    THEN IF OnRight(d, p) THEN TakeFirst(d, p, k) ELSE TakeLast(d, p, k)
    ELSE {}

----------------------------------------------------------------------------
(* Merging P with its sibling while G takes a leaf parent from its own     *)
(* sibling: G and both of its children have two children each.             *)

\* All three leaves below G other than p under one parent.
MergedPair(d, p, kept, gone) ==
    LET leaves == SelectSeq(IF kept = Last(d.node[Up(d, kept)].kids)
                            THEN d.node[gone].kids \o d.node[kept].kids
                            ELSE d.node[kept].kids \o d.node[gone].kids,
                            LAMBDA x : x # p)
    IN  Rebuilt(Unlink(d, p), kept, leaves,
                <<MaxRow(d.node[leaves[1]]), MaxRow(d.node[leaves[2]])>>)

\* G and the pair below it are two-child nodes.
Narrow(d, g) ==
    Two(d.node[g]) /\ Two(d.node[First(d, g)]) /\ Two(d.node[Second(d, g)])

\* e, with the separator between g and its right sibling set to max.
Between(e, g, max) == [e EXCEPT !.node[Up(e, g)].keys[At(e, g)] = max]

\* p is the first leaf of the second child of G; the right sibling of G gives
\* its first child.
GrandFromRight(d, p) ==
    LET P  == Up(d, p)
        LG == Up(d, P)
        RG == Beside(d, P)
        donor == First(d, RG)
        d1 == WithoutChild(MergedPair(d, p, P, First(d, LG)), RG, donor)
        d2 == Rebuilt(d1, LG, <<P, donor>>, <<MaxRow(d.node[Second(d, P)])>>)
    IN  IF ~(~OnRight(d, p) /\ OnRight(d, P) /\ Narrow(d, LG) /\ RG # 0) THEN {}
        ELSE IF Two(d.node[RG]) \/ ~Two(d.node[donor]) THEN {}
        ELSE {FreePages(Between(d2, LG, d.node[RG].keys[1]), <<p, First(d, LG)>>)}

\* p is the last leaf of the first child of G; the left sibling of G gives its
\* last child.
GrandFromLeft(d, p) ==
    LET P  == Up(d, p)
        RG == Up(d, P)
        LG == Beside(d, P)
        donor == Last(d.node[LG].kids)
        kept  == Second(d, RG)
        d1 == WithoutChild(MergedPair(d, p, kept, P), LG, donor)
        d2 == Rebuilt(d1, RG, <<donor, kept>>, <<SubMax(d, donor)>>)
    IN  IF ~(OnRight(d, p) /\ ~OnRight(d, P) /\ Narrow(d, RG) /\ LG # 0) THEN {}
        ELSE IF Two(d.node[LG]) \/ ~Two(d.node[donor]) THEN {}
        ELSE {FreePages(Between(d2, LG, Last(d.node[LG].keys)), <<p, P>>)}

\* G has a parent A; A is the root, or a child of the root.
Deep(d, p) == Lower(d, p) /\ Up(d, Up(d, p)) # Root
Outer(d, p) == Up(d, Up(d, Up(d, p)))
BelowRoot(d, p) == Deep(d, p) /\ Outer(d, p) # Root /\ Up(d, Outer(d, p)) = Root

MergeBorrowNonroot(d, p, k) ==
    IF BelowRoot(d, p) THEN GrandFromRight(d, p) ELSE {}

MergeBorrowNonrootFromLeft(d, p, k) ==
    IF BelowRoot(d, p) THEN GrandFromLeft(d, p) ELSE {}

MergeBorrowRoot(d, p, k) ==
    IF Deep(d, p) /\ Outer(d, p) = Root /\ Two(d.node[Root])
    THEN GrandFromRight(d, p) ELSE {}

MergeBorrowRootFromLeft(d, p, k) ==
    IF Deep(d, p) /\ Outer(d, p) = Root /\ Two(d.node[Root])
    THEN GrandFromLeft(d, p) ELSE {}

----------------------------------------------------------------------------
(* The tree loses a level: eight leaves below four pairs below two pairs   *)
(* become seven below three nodes that are children of the root.           *)

LosesLevel(d, p) ==
    /\ Deep(d, p) /\ Outer(d, p) = Root /\ Two(d.node[Root])
    /\ Narrow(d, First(d, Root)) /\ Narrow(d, Second(d, Root))

\* The case of the i-th of the four leaves below g.
RootHeight(d, p, g, i) ==
    LET pairs == d.node[g].kids
        at    == d.node[pairs[1]].kids \o d.node[pairs[2]].kids
        kept  == IF i = 4 THEN pairs[1] ELSE pairs[2]
        gone  == IF i = 4 THEN pairs[2] ELSE pairs[1]
        d1    == MergedPair(d, p, kept, gone)
        three == SelectSeq(d.node[First(d, Root)].kids \o d.node[Second(d, Root)].kids,
                           LAMBDA x : x # gone)
    IN  IF ~LosesLevel(d, p) \/ Up(d, Up(d, p)) # g \/ at[i] # p THEN {}
        ELSE {FreePages(Rebuilt(d1, Root, three, <<SubMax(d1, three[1]), SubMax(d1, three[2])>>),
                        <<p, gone, First(d, Root), Second(d, Root)>>)}

HeightBase(d, p, k) == RootHeight(d, p, First(d, Root), 3)
HeightMirror(d, p, k) == RootHeight(d, p, First(d, Root), 2)
HeightOuterLeft(d, p, k) == RootHeight(d, p, First(d, Root), 1)
HeightInnerRight(d, p, k) == RootHeight(d, p, First(d, Root), 4)
HeightInnerLeft(d, p, k) == RootHeight(d, p, Second(d, Root), 1)
HeightRightInnerRight(d, p, k) == RootHeight(d, p, Second(d, Root), 2)
HeightRightOuterLeft(d, p, k) == RootHeight(d, p, Second(d, Root), 3)
HeightOuterRight(d, p, k) == RootHeight(d, p, Second(d, Root), 4)

----------------------------------------------------------------------------
(* Merging P with its sibling beside p, which has two children.            *)

CanMerge(d, p) ==
    /\ Lower(d, p) /\ ~Two(d.node[Up(d, Up(d, p))])
    /\ Beside(d, p) # 0 /\ Two(d.node[Beside(d, p)])

\* The right one of the two nodes keeps the three leaves.
MergeSibling(d, p, k) ==
    LET P    == Up(d, p)
        G    == Up(d, P)
        S    == Beside(d, p)
        gone == IF OnRight(d, p) THEN P ELSE S
        kept == IF OnRight(d, p) THEN S ELSE P
        leaves == SelectSeq(d.node[gone].kids \o d.node[kept].kids, LAMBDA x : x # p)
        d1   == Rebuilt(Unlink(d, p), kept, leaves,
                        <<MaxRow(d.node[leaves[1]]), MaxRow(d.node[leaves[2]])>>)
    IN  {FreePages(WithoutChild(d1, G, gone), <<p, gone>>)}

MergeWideRoot(d, p, k) ==
    IF CanMerge(d, p) /\ Up(d, Up(d, p)) = Root THEN MergeSibling(d, p, k) ELSE {}

MergeLocal(d, p, k) ==
    IF CanMerge(d, p) /\ Up(d, Up(d, p)) # Root THEN MergeSibling(d, p, k) ELSE {}

\* Fault: only the outer leaves are handled.
FaultMergeRoot(d, p, k) ==
    LET L == First(d, Root)
        R == Second(d, Root)
        leaves == SelectSeq(d.node[L].kids \o d.node[R].kids, LAMBDA x : x # p)
    IN  IF ~(Lower(d, p) /\ Up(d, Up(d, p)) = Root /\ Narrow(d, Root)) THEN {}
        ELSE IF p # First(d, L) /\ p # Second(d, R) THEN {}
        ELSE {FreePages(Rebuilt(Unlink(d, p), Root, leaves,
                                <<MaxRow(d.node[leaves[1]]), MaxRow(d.node[leaves[2]])>>),
                        <<p, L, R>>)}

\* Four leaves below two pairs below the root become three below the root.
MergeRoot(d, p, k) ==
    LET L == First(d, Root)
        R == Second(d, Root)
        leaves == SelectSeq(d.node[L].kids \o d.node[R].kids, LAMBDA x : x # p)
    IN  IF ~(Lower(d, p) /\ Up(d, Up(d, p)) = Root /\ Narrow(d, Root)) THEN {}
        ELSE {FreePages(Rebuilt(Unlink(d, p), Root, leaves,
                                <<MaxRow(d.node[leaves[1]]), MaxRow(d.node[leaves[2]])>>),
                        <<p, L, R>>)}

----------------------------------------------------------------------------
(* Delete.                                                                 *)

\* The routes in the order in which they are tried.
Rebalanced(d, p, k) ==
    RootLeafCollapse(d, p, k)
    ?? BorrowFromRight(d, p, k) ?? BorrowFromLeft(d, p, k)
    ?? BorrowWideRoot(d, p, k) ?? BorrowLocal(d, p, k)
    ?? MergeBorrowNonroot(d, p, k) ?? MergeBorrowNonrootFromLeft(d, p, k)
    ?? MergeBorrowRoot(d, p, k) ?? MergeBorrowRootFromLeft(d, p, k)
    ?? HeightBase(d, p, k) ?? HeightMirror(d, p, k)
    ?? HeightOuterLeft(d, p, k) ?? HeightInnerRight(d, p, k)
    ?? HeightInnerLeft(d, p, k) ?? HeightRightInnerRight(d, p, k)
    ?? HeightRightOuterLeft(d, p, k) ?? HeightOuterRight(d, p, k)
    ?? MergeWideRoot(d, p, k) ?? MergeLocal(d, p, k) ?? MergeRoot(d, p, k)
    ?? DeleteEmptyLeaf(d, p, k)

\* A row that is not its leaf's last one.
SlotDeleted(d, p, k) ==
    LET n   == d.node[p]
        cut == [d EXCEPT !.node[p].rows = SelectSeq(@, LAMBDA x : x.key # k)]
    IN  IF p = Root \/ k # MaxRow(n) THEN {cut}
        ELSE LowerMax(cut, p, k, n.rows[Len(n.rows) - 1].key)

Deleted(d, k) ==
    LET p == CursorLeaf(d, k)
    IN  CASE ~Holds(d, k) -> {}
          [] p # Root /\ Len(d.node[p].rows) = 1 -> Rebalanced(d, p, k)
          [] OTHER -> SlotDeleted(d, p, k)
=============================================================================
