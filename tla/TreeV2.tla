------------------------------- MODULE TreeV2 -------------------------------
(***************************************************************************)
(* A table of slotted V2 leaves under INSERT, UPDATE and DELETE of single  *)
(* rows, each committed on its own.  The table starts empty; a behaviour   *)
(* may first load rows in a given order, so that trees of every height are *)
(* within reach of a few steps.                                            *)
(***************************************************************************)
EXTENDS TreeV2Delete

CONSTANTS
    Key,            \* primary keys
    Size,           \* encoded row sizes, at most Capacity
    Loads           \* [keys |-> rows of size 1 inserted first, in this order,
                    \*  steps |-> how many statements follow,
                    \*  use |-> the keys that they name]

ASSUME LoadAssumption ==
    /\ Key \subseteq Nat /\ Size \subseteq 1 .. Capacity
    /\ \A l \in Loads : ToSet(l.keys) \cup l.use \subseteq Key /\ l.steps \in Nat

VARIABLES
    db,             \* the page file
    table,          \* history: key -> size of the rows the table should hold
    load,           \* rows of size 1 still to be inserted, in order
    steps,          \* statements still to come after them
    use,            \* the keys that they name
    refused         \* the INSERT of a new key or the DELETE of a row that was
                    \* refused, ending the behaviour, or <<>>

vars == <<db, table, load, steps, use, refused>>

EmptyRoot ==
    [node |-> [q \in 0 .. Root |->
                 IF q = Root THEN [Leaf(0, <<>>, 0, 0) EXCEPT !.root = TRUE] ELSE Blank],
     free |-> <<>>, num |-> Root + 1]

Init ==
    \E l \in Loads :
        /\ db = EmptyRoot
        /\ table = <<>>
        /\ load = l.keys /\ steps = l.steps /\ use = l.use
        /\ refused = <<>>

Loading == load # <<>>

Begin ==
    /\ ~Loading /\ refused = <<>> /\ steps > 0
    /\ steps' = steps - 1
    /\ UNCHANGED <<load, use>>

BeginInsert(k, z) ==
    IF Loading THEN /\ k = Head(load) /\ z = 1 /\ load' = Tail(load)
                    /\ UNCHANGED <<steps, use>>
    ELSE Begin

Commit(results, rows) ==
    /\ \E d \in results : d.num <= MaxPages /\ db' = d
    /\ table' = rows
    /\ UNCHANGED refused

CommitOrRefuse(results, rows, statement) ==
    \/ Commit(results, rows)
    \/ results = {} /\ refused' = statement /\ UNCHANGED <<db, table>>

Insert(k, z) ==
    /\ BeginInsert(k, z)
    /\ k \notin DOMAIN table
    /\ CommitOrRefuse(Inserted(db, [key |-> k, size |-> z]), (k :> z) @@ table,
                      <<"insert", k, z>>)

Update(k, z) ==
    /\ Begin
    /\ k \in DOMAIN table /\ table[k] # z
    /\ Commit(Updated(db, [key |-> k, size |-> z]), [table EXCEPT ![k] = z])

Delete(k) ==
    /\ Begin
    /\ k \in DOMAIN table
    /\ CommitOrRefuse(Deleted(db, k), [x \in DOMAIN table \ {k} |-> table[x]],
                      <<"delete", k>>)

Next == \E k \in use : Delete(k) \/ \E z \in Size : Insert(k, z) \/ Update(k, z)

Spec == Init /\ [][Next]_vars

----------------------------------------------------------------------------
(* Properties.                                                             *)

TreePages ==
    LET Below_[p \in Page] ==
          IF IsLeaf(db, p) THEN {p}
          ELSE {p} \cup UNION {Below_[c] : c \in ToSet(db.node[p].kids)}
    IN  Below_[Root]

Ascending(s) == \A i \in 1 .. Len(s) - 1 : s[i] < s[i + 1]

\* Pages are blank, leaves within their capacity, or internal nodes with one
\* child more than their separators, never too many, and at least two.
TypeOK ==
    /\ DOMAIN db.node = 0 .. db.num - 1 /\ db.num <= MaxPages
    /\ \A p \in DOMAIN db.node :
         \/ db.node[p] = Blank
         \/ IsLeaf(db, p) /\ Bytes(db.node[p].rows) <= Capacity
         \/ /\ db.node[p].kind = "internal"
            /\ Len(db.node[p].keys) \in 1 .. MaxKeys
            /\ Len(db.node[p].kids) = Len(db.node[p].keys) + 1
    /\ DOMAIN table \subseteq Key /\ \A k \in DOMAIN table : table[k] \in Size

\* Splits and merges neither leak a page nor give one to two owners: each page
\* is the child of exactly one node and points back at it, or is free, once.
\* All leaves lie at the same depth.
PagesPartitioned ==
    LET inner == {p \in TreePages : ~IsLeaf(db, p)}
    IN  /\ TreePages \cap ToSet(db.free) = {}
        /\ TreePages \cup ToSet(db.free) = Root .. db.num - 1
        /\ IsInjective(db.free)
        /\ \A p \in inner : IsInjective(db.node[p].kids)
        /\ \A p \in inner : \A c \in ToSet(db.node[p].kids) : db.node[c].parent = p
        /\ \A p \in TreePages : db.node[p].root <=> p = Root
        /\ \A p, q \in {x \in TreePages \ {Root} : IsLeaf(db, x)} :
              Len(Ancestors(db, p)) = Len(Ancestors(db, q))

\* Every separator is the largest key below the child before it, whatever was
\* split, borrowed, merged or lowered, at every level.  The guards that compare
\* a separator with a key rely on it: a stale one would refuse statements.
SeparatorsExact ==
    \A p \in TreePages : ~IsLeaf(db, p) =>
        \A i \in DOMAIN db.node[p].keys :
            db.node[p].keys[i] = SubMax(db, db.node[p].kids[i])

\* A scan along the leaves returns the rows of the table, each once and in
\* order, and the links read backwards agree.
ScanReturnsRows ==
    LET s == Scan(db)
    IN  /\ {<<s[i].key, s[i].size>> : i \in DOMAIN s}
             = {<<k, table[k]>> : k \in DOMAIN table}
        /\ Ascending([i \in DOMAIN s |-> s[i].key])
        /\ \A p \in TreePages : IsLeaf(db, p) /\ db.node[p].next # 0 =>
              db.node[db.node[p].next].prev = p

\* A point lookup finds exactly the rows of the table.
LookupFindsRows == \A k \in use : Holds(db, k) <=> k \in DOMAIN table

\* Every row is reached by a scan and by its key, and nothing else is.
RowsReachable == ScanReturnsRows /\ LookupFindsRows

\* An INSERT of a new key is refused for its size alone: the leaf it belongs in
\* has no room and no half of it has.  In particular the range check against
\* the neighbour leaf and the separator checks of a split pass.
TooLarge(k, z) ==
    LET row == [key |-> k, size |-> z]
        rows == db.node[CursorLeaf(db, k)].rows
    IN  ~Fits(rows, row) /\ Halves(rows, row) = {}

\* An INSERT is also refused where a full parent has, or would get, the
\* separator 0: the row with key 0 is alone in the first leaf, or in its half.
SplitsAtZero(k, z) ==
    LET p    == CursorLeaf(db, k)
        par  == db.node[Up(db, p)]
        half == Halves(db.node[p].rows, [key |-> k, size |-> z])
    IN  /\ p # Root /\ Full(par)
        /\ par.keys[1] = 0 \/ \E h \in half : Last(h[1]).key = 0

\* A DELETE of a row is refused only where it would leave a parent with one
\* child, and never in a tree of at most four leaves.
LeavesOneChild(k) ==
    LET p == CursorLeaf(db, k)
    IN  /\ Len(db.node[p].rows) = 1
        /\ Two(db.node[Up(db, p)])
        /\ Cardinality({q \in TreePages : IsLeaf(db, q)}) > 4

\* No statement is refused because earlier ones left the tree in a shape that
\* a route cannot repair: the refusals are those the documents bound, and that
\* of a split beside the separator 0.
RefusedForCauseOnly ==
    refused # <<>> =>
        \/ /\ refused[1] = "insert"
           /\ TooLarge(refused[2], refused[3]) \/ SplitsAtZero(refused[2], refused[3])
        \/ refused[1] = "delete" /\ LeavesOneChild(refused[2])
=============================================================================
