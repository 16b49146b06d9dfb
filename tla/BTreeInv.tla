------------------------------ MODULE BTreeInv ------------------------------
(***************************************************************************)
(* The inductive invariant of BTreeV1: the shape of the page file that the *)
(* process works on and of the last commit, also where a table is          *)
(* misrouted; where the rows lie in the trees that are not; and what a     *)
(* statement under way may rely on.                                        *)
(***************************************************************************)
EXTENDS BTreeV1

----------------------------------------------------------------------------
(* Pages.                                                                  *)

LeafRec(root, par, keys, next, prev) ==
    [kind |-> "leaf", root |-> root, parent |-> par,
     keys |-> keys, next |-> next, prev |-> prev]

InnerRec(root, par, keys, kids) ==
    [kind |-> "internal", root |-> root, parent |-> par,
     keys |-> keys, kids |-> kids]

DbRec(node, free, num, ok) ==
    [node |-> node, free |-> free, num |-> num, ok |-> ok]

LeafNode(n) ==
    /\ n = LeafRec(n.root, n.parent, n.keys, n.next, n.prev)
    /\ n.keys \in Seq(Nat) /\ Len(n.keys) <= MaxCells

\* A root that is a leaf has no siblings.
RootLeaf(n) == LeafNode(n) /\ n.root /\ n.next = 0 /\ n.prev = 0

\* A leaf under root r is never empty.
ChildLeaf(n, r) == LeafNode(n) /\ ~n.root /\ n.parent = r /\ n.keys # <<>>

RootInner(n) ==
    /\ n = InnerRec(n.root, n.parent, n.keys, n.kids)
    /\ n.root
    /\ n.keys \in Seq(Nat) /\ n.kids \in Seq(Nat)
    /\ Len(n.keys) \in 1 .. MaxKeys /\ Len(n.kids) = Len(n.keys) + 1
    /\ IsInjective(n.kids)

\* The leaves S are linked both ways along a strict order R.
Linked(node, S, R) ==
    /\ \A p \in S : <<p, p>> \notin R
    /\ \A p, q, s \in S : <<p, q>> \in R /\ <<q, s>> \in R => <<p, s>> \in R
    /\ \A p \in S :
          /\ node[p].next # 0 => /\ node[p].next \in S
                                 /\ <<p, node[p].next>> \in R
                                 /\ node[node[p].next].prev = p
          /\ node[p].prev # 0 => /\ node[p].prev \in S
                                 /\ node[node[p].prev].next = p

Tree(d, r) ==
    /\ r \in 0 .. d.num - 1
    /\ IF IsLeaf(d, r) THEN RootLeaf(d.node[r])
       ELSE /\ RootInner(d.node[r])
            /\ \A c \in ToSet(d.node[r].kids) :
                  c \in 1 .. d.num - 1 /\ c # r /\ ChildLeaf(d.node[c], r)
            /\ LET S == ToSet(d.node[r].kids)
               IN  \E R \in SUBSET (S \X S) : Linked(d.node, S, R)

File(d) ==
    /\ d = DbRec(d.node, d.free, d.num, d.ok) /\ d.ok = TRUE
    /\ d.num \in Nat \ {0}
    /\ d.node = [q \in 0 .. d.num - 1 |-> d.node[q]]
    /\ d.free \in Seq(Nat) /\ IsInjective(d.free)
    /\ \A p \in ToSet(d.free) : p \in 1 .. d.num - 1 /\ d.node[p] = Blank

Own(d, r) == {r} \cup Kids(d, r)

\* The pages that are neither the tree's nor free.
Rest(d, r) == (0 .. d.num - 1) \ (Own(d, r) \cup ToSet(d.free))

OneTree(d, r) ==
    /\ File(d) /\ Tree(d, r)
    /\ Own(d, r) \cap ToSet(d.free) = {}

\* Every page is free or belongs to the one tree that the catalog roots there.
AllPages(d, root) ==
    /\ OneTree(d, root[Users]) /\ d.num <= MaxPages
    /\ IF root[Other] = None THEN Rest(d, root[Users]) = {}
       ELSE /\ OneTree(d, root[Other])
            /\ Rest(d, root[Users]) = Own(d, root[Other])

----------------------------------------------------------------------------
(* The variables.                                                          *)

\* The process has exited: it holds the last commit, but does not run.
Stopped(d) == [d EXCEPT !.ok = FALSE]

PageInv ==
    /\ rootOf = [t \in Table |-> rootOf[t]] /\ rootOf[Users] = 0
    /\ AllPages(committed.db, rootOf)
    /\ db.ok \in BOOLEAN
    /\ db.ok => AllPages(db, rootOf)
    /\ ~db.ok => db = Stopped(committed.db) /\ running = "nothing"
    /\ running \in {"nothing", "records", "statements", "read", "refill"}
    /\ db.ok /\ running \in {"nothing", "statements", "read"} => db = committed.db
    /\ running \in {"records", "statements"} => rootOf[Other] # None
    /\ running \in {"read", "refill"} => rootOf[Other] = None
    /\ running = "read" => at \in LeavesBelow(db, 0)
    /\ todo \in Seq(Nat)
    /\ misrouted \subseteq Table

----------------------------------------------------------------------------
(* Rows.                                                                   *)

Increasing(s) == \A i, j \in 1 .. Len(s) : i < j => s[i] < s[j]

\* The leaves of a tree from left to right, and what separates them.
Leaves(d, r) == IF IsLeaf(d, r) THEN <<r>> ELSE d.node[r].kids
Separators(d, r) == IF IsLeaf(d, r) THEN <<>> ELSE d.node[r].keys

KeysIn(d, p) == ToSet(d.node[p].keys)

\* The leaves L are chained in the order of the sequence.
Chained(d, L) ==
    \A j \in 1 .. Len(L) :
        /\ d.node[L[j]].next = IF j = Len(L) THEN 0 ELSE L[j + 1]
        /\ d.node[L[j]].prev = IF j = 1 THEN 0 ELSE L[j - 1]

\* The i-th separator is at or above the keys of the first i leaves, and below
\* those of the others.
Separated(d, L, Q) ==
    /\ Len(L) = Len(Q) + 1
    /\ Increasing(Q)
    /\ \A i \in 1 .. Len(Q), j \in 1 .. Len(L) :
          \A k \in KeysIn(d, L[j]) : k <= Q[i] <=> j <= i

\* The leaves L are sorted and hold the rows S.
Holding(d, L, S) ==
    /\ \A j \in 1 .. Len(L) : Increasing(d.node[L[j]].keys)
    /\ S = UNION {KeysIn(d, L[j]) : j \in 1 .. Len(L)}

Arranged(d, L, Q, S) == Chained(d, L) /\ Separated(d, L, Q) /\ Holding(d, L, S)

Stores(d, r, S) == Arranged(d, Leaves(d, r), Separators(d, r), S)

\* What VACUUM has read so far are the rows of the leaves before its cursor.
ReadUpTo(d, r, p, s) ==
    /\ Increasing(s)
    /\ \E j \in 1 .. Len(Leaves(d, r)) :
          /\ Leaves(d, r)[j] = p
          /\ ToSet(s) = UNION {KeysIn(d, Leaves(d, r)[i]) : i \in 1 .. j - 1}

\* What VACUUM still has to insert are the largest rows of the table.
LeftToInsert(s, held, all) ==
    /\ Increasing(s)
    /\ \A k \in held : \A i \in 1 .. Len(s) : k < s[i]
    /\ all = held \cup ToSet(s)

\* The rows of the process, and of the last commit, are those that the trees
\* store; VACUUM holds the rows that it has read and not yet inserted.
RowInv ==
    /\ rows = [t \in Table |-> rows[t]]
    /\ committed.rows = [t \in Table |-> committed.rows[t]]
    /\ \A t \in Table : Healthy(t) => Stores(committed.db, rootOf[t], committed.rows[t])
    /\ db.ok => \A t \in Table : Healthy(t) => Stores(db, rootOf[t], rows[t])
    /\ ~db.ok \/ running \in {"nothing", "statements", "read"} => rows = committed.rows
    /\ rootOf[Other] = None => rows[Other] = {} /\ committed.rows[Other] = {}
    /\ running \notin {"read", "refill"} => todo = <<>>
    /\ Healthy(Users) /\ running = "read" => ReadUpTo(db, 0, at, todo)
    /\ Healthy(Users) /\ running = "refill" =>
          LeftToInsert(todo, rows[Users], committed.rows[Users])

\* What every statement on fixed rows, in the middle of a loop too, finds of
\* the trees and leaves to the next one: whole trees with exact links and
\* parents, and, unless a table is misrouted, each row in the leaf where
\* internal_node_find_child looks for it and cursor_advance passes it.
TreesInv == PageInv /\ RowInv
=============================================================================
