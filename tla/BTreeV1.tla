------------------------------ MODULE BTreeV1 ------------------------------
(***************************************************************************)
(* The B+ trees of fixed rows (table.c): one tree per table, all trees in  *)
(* one page file with one free-page stack.  A row is its primary key.      *)
(*                                                                         *)
(* An operation on a tree is a function from a database record to a        *)
(* database record, composed as the C functions call each other:           *)
(*   node  page number -> node image, Blank where no tree page lies        *)
(*   free  the pager's free-page stack, last claimed last                  *)
(*   num   the pager's num_pages                                           *)
(*   ok    FALSE once the process has called exit()                        *)
(* A node holds num_cells/num_keys and the cells as sequences: `keys` and, *)
(* for an internal node, `kids` with right_child as its last element.      *)
(***************************************************************************)
EXTENDS Naturals, FiniteSets, SequencesExt

CONSTANTS
    Users,          \* the first table, rooted at page 0
    Other,          \* the table that CREATE TABLE adds
    KeyOf,          \* KeyOf[t]: the primary keys a client uses in table t
    Version,        \* values of PRAGMA user_version; 0 is the initial one
    MaxCells,       \* LEAF_NODE_MAX_CELLS
    MaxKeys,        \* INTERNAL_NODE_MAX_KEYS
    MaxPages        \* page numbers beyond this bound are not claimed

ASSUME BTreeAssumption ==
    /\ MaxCells \in Nat \ {0} /\ MaxKeys \in Nat \ {0}
    /\ MaxPages \in Nat \ {0}
    /\ Users # Other
    /\ \A t \in {Users, Other} : KeyOf[t] \subseteq Nat
    /\ 0 \in Version /\ Version \subseteq Nat

VARIABLES
    db,             \* the database record above, as the process sees it
    committed,      \* [db |-> the pages of the last commit, rows |-> their rows]
    rootOf,         \* catalog: the root page of each table, None if absent
    running,        \* the loop of the statement under way, "nothing" between them
    at,             \* the leaf that the cursor of VACUUM reads next
    todo,           \* the rows VACUUM has read and not yet inserted again
    rows,           \* history: the keys each table should hold
    misrouted       \* history: tables with a leaf split under a stale separator

loop == <<running, at, todo>>
vars == <<db, committed, rootOf, loop, rows, misrouted>>

Table == {Users, Other}
Page == 0 .. MaxPages - 1
None == MaxPages
Blank == [kind |-> "blank", keys |-> <<>>, next |-> 0]

----------------------------------------------------------------------------
(* Nodes.  page 0 doubles as "no sibling".                                 *)

NewLeaf(par) == [kind |-> "leaf", root |-> FALSE, parent |-> par,
                 keys |-> <<>>, next |-> 0, prev |-> 0]

\* The root of a table without rows.
EmptyRoot == [NewLeaf(0) EXCEPT !.root = TRUE]

NewInternal(par) == [kind |-> "internal", root |-> FALSE, parent |-> par,
                     keys |-> <<>>, kids |-> <<>>]

IsLeaf(d, p) == d.node[p].kind = "leaf"
MaxKeyOf(n) == Last(n.keys)

\* The number of keys below k: the lower bound of k in a sorted sequence.
Below(keys, k) == Cardinality({i \in DOMAIN keys : keys[i] < k})

\* The first separator at or above k picks the child.
FindChild(n, k) == n.kids[Below(n.keys, k) + 1]

\* Internal nodes have leaves as children, because a full one never splits:
\* see InternalSplit.
LeafFor(d, r, k) == IF IsLeaf(d, r) THEN r ELSE FindChild(d.node[r], k)

Holds(d, r, k) == \E i \in DOMAIN d.node[LeafFor(d, r, k)].keys :
                     d.node[LeafFor(d, r, k)].keys[i] = k

\* A cursor that has passed the leaf it was on: what it has read so far, and
\* the leaf it reads next unless it is at the end of the table.
Advanced(d, c) ==
    IF c.end THEN c
    ELSE LET n == d.node[c.page]
         IN  [page |-> n.next, end |-> n.next = 0, got |-> c.got \o n.keys]

\* The cursor that starts on leaf p, after any number of leaves.
Walk(d, p) ==
    LET w[n \in Nat] == IF n = 0 THEN [page |-> p, end |-> FALSE, got |-> <<>>]
                        ELSE Advanced(d, w[n - 1])
    IN  w

ScanFrom(d, p) == Walk(d, p)[MaxPages].got

\* table_find(0) is the leftmost child.
Scan(d, r) == ScanFrom(d, LeafFor(d, r, 0))

----------------------------------------------------------------------------
(* Pages.                                                                  *)

NextUnused(d) == IF d.free = <<>> THEN d.num ELSE Last(d.free)

\* get_unused_page_num, get_page and the writes that follow.
Claim(d, n) ==
    LET p == NextUnused(d) IN
    [d EXCEPT !.free = IF @ = <<>> THEN @ ELSE Front(@),
              !.num  = IF d.free = <<>> THEN @ + 1 ELSE @,
              !.node = [q \in DOMAIN @ \cup {p} |-> IF q = p THEN n ELSE @[q]]]

FreePage(d, p) ==
    IF p = 0 \/ p >= d.num THEN [d EXCEPT !.ok = FALSE]
    ELSE [d EXCEPT !.free = Append(@, p), !.node[p] = Blank]

----------------------------------------------------------------------------
(* Insert.                                                                 *)

\* The copy at right_child's place: the process runs the scratch loop over
\* every child, whose fetches evict the frame that old_node points into, and
\* then addresses child num_keys + 1, which internal_node_child refuses by
\* ending the process.  Nothing of the statement has been committed.
InternalSplit(d, par, c) == [d EXCEPT !.ok = FALSE]

InternalInsert(d, par, c) ==
    LET n     == d.node[par]
        right == Last(n.kids)
        cmax  == MaxKeyOf(d.node[c])
        rmax  == MaxKeyOf(d.node[right])
        i     == Below(n.keys, cmax) + 1
        grown == IF cmax > rmax
                 THEN [n EXCEPT !.keys = Append(@, rmax), !.kids = Append(@, c)]
                 ELSE [n EXCEPT !.keys = InsertAt(@, i, cmax),
                                !.kids = InsertAt(@, i, c)]
    IN  IF Len(n.keys) >= MaxKeys THEN InternalSplit(d, par, c)
        ELSE [d EXCEPT !.node[par] = grown, !.node[c].parent = par]

\* Fault: the separator of a leaf that splits is left as it was.
FaultUpdateSeparator(n, old, new) == n

\* Only a separator equal to old is replaced.
UpdateSeparator(n, old, new) ==
    [n EXCEPT !.keys =
        IF Contains(@, old)
        THEN ReplaceAt(@, CHOOSE i \in DOMAIN @ :
                            @[i] = old /\ \A j \in 1 .. i - 1 : @[j] # old, new)
        ELSE @]

\* Fault: the new root starts with an empty parent field.
FaultNewRootVersion(d, r, right) ==
    LET left == NextUnused(d)
        d1   == Claim(d, [d.node[r] EXCEPT !.root = FALSE, !.parent = r])
    IN  [d1 EXCEPT
           !.node[r] = [NewInternal(0) EXCEPT
                          !.root = TRUE,
                          !.keys = <<MaxKeyOf(d.node[r])>>,
                          !.kids = <<left, right>>],
           !.node[right] = [@ EXCEPT !.prev = left, !.parent = r]]

\* Fault: the right leaf keeps the old page number of its left sibling.
FaultNewRootPrev(d, r, right) ==
    LET left == NextUnused(d)
        d1   == Claim(d, [d.node[r] EXCEPT !.root = FALSE, !.parent = r])
    IN  [d1 EXCEPT
           !.node[r] = [NewInternal(@.parent) EXCEPT
                          !.root = TRUE,
                          !.keys = <<MaxKeyOf(d.node[r])>>,
                          !.kids = <<left, right>>],
           !.node[right].parent = r]

\* The old root moves to a new page; the root page, and with it the parent
\* field that holds user_version, stays where it is.
CreateNewRoot(d, r, right) ==
    LET left == NextUnused(d)
        d1   == Claim(d, [d.node[r] EXCEPT !.root = FALSE, !.parent = r])
    IN  [d1 EXCEPT
           !.node[r] = [NewInternal(@.parent) EXCEPT
                          !.root = TRUE,
                          !.keys = <<MaxKeyOf(d.node[r])>>,
                          !.kids = <<left, right>>],
           !.node[right] = [@ EXCEPT !.prev = left, !.parent = r]]

LeftSplitCount == (MaxCells + 1) - (MaxCells + 1) \div 2

SplitAndInsert(d, r, p, k) ==
    LET old   == d.node[p]
        new   == NextUnused(d)
        all   == InsertAt(old.keys, Below(old.keys, k) + 1, k)
        low   == SubSeq(all, 1, LeftSplitCount)
        high  == SubSeq(all, LeftSplitCount + 1, Len(all))
        d1    == Claim(d, [NewLeaf(old.parent) EXCEPT
                             !.keys = high, !.next = old.next, !.prev = p])
        d2    == [d1 EXCEPT !.node[p].keys = low, !.node[p].next = new]
        d3    == IF old.next = 0 THEN d2
                 ELSE [d2 EXCEPT !.node[old.next].prev = new]
    IN  IF old.root THEN CreateNewRoot(d3, r, new)
        ELSE InternalInsert(
               [d3 EXCEPT !.node[old.parent] =
                            UpdateSeparator(@, MaxKeyOf(old), Last(low))],
               old.parent, new)

LeafInsert(d, r, p, k) ==
    IF Len(d.node[p].keys) >= MaxCells THEN SplitAndInsert(d, r, p, k)
    ELSE [d EXCEPT !.node[p].keys = InsertAt(@, Below(@, k) + 1, k)]

Inserted(d, r, k) == LeafInsert(d, r, LeafFor(d, r, k), k)

----------------------------------------------------------------------------
(* Delete.                                                                 *)

\* Fault: the leaf on the right still points back at the removed leaf.
FaultUnlink(d, p) ==
    LET n == d.node[p]
    IN  IF n.prev = 0 THEN d ELSE [d EXCEPT !.node[n.prev].next = n.next]

Unlink(d, p) ==
    LET n  == d.node[p]
        d1 == IF n.prev = 0 THEN d ELSE [d EXCEPT !.node[n.prev].next = n.next]
    IN  IF n.next = 0 THEN d1 ELSE [d1 EXCEPT !.node[n.next].prev = n.prev]

\* The root with no separator left takes over its only child, parent field
\* included; the grandchildren, if any, get the root page as parent.
CollapseRoot(d, r) ==
    LET c  == d.node[r].kids[1]
        d1 == FreePage([d EXCEPT !.node[r] = [d.node[c] EXCEPT !.root = TRUE]], c)
    IN  IF IsLeaf(d1, r) THEN d1
        ELSE [d1 EXCEPT !.node = [q \in DOMAIN @ |->
                IF Contains(d1.node[r].kids, q) THEN [@[q] EXCEPT !.parent = r]
                ELSE @[q]]]

\* A child that is not found counts as the right child.
RemoveChild(d, r, par, c) ==
    LET n    == d.node[par]
        i    == IF Contains(n.kids, c)
                THEN CHOOSE j \in DOMAIN n.kids : n.kids[j] = c
                ELSE Len(n.kids)
        cut  == [n EXCEPT !.kids = RemoveAt(@, i),
                          !.keys = IF i = Len(n.kids) THEN Front(@)
                                   ELSE RemoveAt(@, i)]
        d1   == [d EXCEPT !.node[par] = cut]
    IN  IF Len(n.keys) = 0 THEN d
        ELSE IF Len(cut.keys) = 0 /\ n.root THEN CollapseRoot(d1, r)
        ELSE d1

\* Fault: the emptied page is not given back.
FaultRemoveEmptyLeaf(d, r, p) ==
    IF d.node[p].root THEN d
    ELSE RemoveChild(Unlink(d, p), r, d.node[p].parent, p)

RemoveEmptyLeaf(d, r, p) ==
    IF d.node[p].root THEN d
    ELSE FreePage(RemoveChild(Unlink(d, p), r, d.node[p].parent, p), p)

\* leaf_node_delete on cell i of leaf p.
DeleteCell(d, r, p, i) ==
    LET d1 == [d EXCEPT !.node[p].keys = RemoveAt(@, i)]
    IN  IF d1.node[p].keys = <<>> THEN RemoveEmptyLeaf(d1, r, p) ELSE d1

Deleted(d, r, k) ==
    LET p == LeafFor(d, r, k)
    IN  DeleteCell(d, r, p, Below(d.node[p].keys, k) + 1)

\* The keys of the leaf under table_start, the first of the chain.
FirstKeys(d, r) == d.node[LeafFor(d, r, 0)].keys

\* table_truncate: pager_shrink(1) and a zeroed root.
Truncated(d) ==
    [d EXCEPT !.free = <<>>, !.num = 1,
              !.node = [q \in {0} |-> EmptyRoot]]

----------------------------------------------------------------------------
(* The check made before a generic INSERT or UPDATE touches a fixed leaf.  *)

Kids(d, p) == IF IsLeaf(d, p) THEN {} ELSE ToSet(d.node[p].kids)

LeavesBelow(d, r) == IF IsLeaf(d, r) THEN {r} ELSE Kids(d, r)

ValidLink(d, p, q) == q = 0 \/ (q < d.num /\ q # p)

\* No page is visited twice and every pointer is in range.
StructureValid(d, r) ==
    /\ ~IsLeaf(d, r) =>
         /\ Len(d.node[r].keys) <= MaxKeys
         /\ Len(d.node[r].kids) <= d.num
         /\ IsInjective(d.node[r].kids)
         /\ \A c \in Kids(d, r) : c < d.num /\ c # r
    /\ \A p \in LeavesBelow(d, r) :
         /\ IsLeaf(d, p)
         /\ ValidLink(d, p, d.node[p].next)
         /\ ValidLink(d, p, d.node[p].prev)

\* From the first child along next_leaf: each prev is the page just left, no
\* page comes twice, and keys ascend throughout.
ChainValid(d, r) ==
    LET w    == Walk(d, IF IsLeaf(d, r) THEN r ELSE d.node[r].kids[1])
        keys == w[d.num].got
    IN  /\ \A n \in 0 .. d.num - 1 : ~w[n].end =>
              /\ IsLeaf(d, w[n].page)
              /\ d.node[w[n].page].prev = IF n = 0 THEN 0 ELSE w[n - 1].page
        /\ w[d.num].end
        /\ \A i \in 1 .. Len(keys) - 1 : keys[i] < keys[i + 1]

\* The refusal of slotted leaves below the root is left out: here are none.
MutationSupported(d, r) == StructureValid(d, r) /\ ChainValid(d, r)

----------------------------------------------------------------------------
(* Statements.  Those that loop over rows take a step per row; nothing else *)
(* runs meanwhile, but the process may exit inside one.                     *)

Init ==
    /\ db = [node |-> [q \in {0} |-> EmptyRoot],
             free |-> <<>>, num |-> 1, ok |-> TRUE]
    /\ rows = [t \in Table |-> {}]
    /\ committed = [db |-> db, rows |-> rows]
    /\ rootOf = [t \in Table |-> IF t = Users THEN 0 ELSE None]
    /\ running = "nothing" /\ at = 0 /\ todo = <<>>
    /\ misrouted = {}

Ready == db.ok /\ running = "nothing"
Exists(t) == Ready /\ rootOf[t] # None
OnlyUsers == rootOf[Other] = None

Commit(d, held) ==
    db' = d /\ rows' = held /\ committed' = [db |-> d, rows |-> held]

\* exit() loses what the statement wrote since the last commit.
Exit ==
    /\ db' = [committed.db EXCEPT !.ok = FALSE]
    /\ rows' = committed.rows
    /\ running' = "nothing" /\ at' = 0 /\ todo' = <<>>
    /\ UNCHANGED <<committed, misrouted>>

Bounded(d) == d.num <= MaxPages

\* The split of a leaf whose largest key is not its separator, the leaf not
\* being the last.
SplitsStale(t, k) ==
    LET p == LeafFor(db, rootOf[t], k)
        n == db.node[p]
    IN  /\ Len(n.keys) >= MaxCells
        /\ ~n.root
        /\ p # Last(db.node[n.parent].kids)
        /\ ~Contains(db.node[n.parent].keys, MaxKeyOf(n))

Insert(t, k) ==
    /\ Exists(t)
    /\ t = Other => MutationSupported(db, rootOf[t])
    /\ ~Holds(db, rootOf[t], k)
    /\ LET d == Inserted(db, rootOf[t], k)
       IN  /\ Bounded(d)
           /\ IF d.ok
              THEN /\ Commit(d, [rows EXCEPT ![t] = @ \cup {k}])
                   /\ misrouted' = IF SplitsStale(t, k) THEN misrouted \cup {t}
                                   ELSE misrouted
                   /\ UNCHANGED loop
              ELSE Exit
    /\ UNCHANGED rootOf

Without(t, k) == [rows EXCEPT ![t] = @ \ {k}]

Delete(t, k) ==
    /\ Exists(t)
    /\ Holds(db, rootOf[t], k)
    /\ LET d == Deleted(db, rootOf[t], k)
       IN  IF d.ok THEN Commit(d, Without(t, k)) /\ UNCHANGED <<loop, misrouted>>
           ELSE Exit
    /\ UNCHANGED rootOf

Emptied(t, d) ==
    /\ Commit(d, [rows EXCEPT ![t] = {}])
    /\ misrouted' = misrouted \ {t}

\* DELETE without WHERE on users alone.
Truncate ==
    /\ Exists(Users) /\ OnlyUsers
    /\ Emptied(Users, Truncated(db))
    /\ UNCHANGED <<rootOf, loop>>

\* DELETE without WHERE beside another table: on a generic table the cell
\* under table_start until the first leaf is empty, and one commit; on users
\* the key under table_start by a statement of its own, each committed, and a
\* key that the search does not find ends the loop with an error.
Begin(loop_) ==
    /\ Exists(Other)
    /\ running' = loop_
    /\ UNCHANGED <<db, committed, rootOf, at, todo, rows, misrouted>>

DeleteAllRecords == Begin("records")
DeleteAllStatements == Begin("statements")

DeleteRecord ==
    /\ running = "records"
    /\ LET first == FirstKeys(db, rootOf[Other])
           d     == DeleteCell(db, rootOf[Other], LeafFor(db, rootOf[Other], 0), 1)
       IN  /\ first # <<>>
           /\ IF d.ok
              THEN /\ db' = d /\ rows' = Without(Other, first[1])
                   /\ UNCHANGED <<committed, loop, misrouted>>
              ELSE Exit
    /\ UNCHANGED rootOf

DeleteStatement ==
    /\ running = "statements"
    /\ LET first == FirstKeys(db, rootOf[Users])
           d     == Deleted(db, rootOf[Users], first[1])
       IN  /\ first # <<>> /\ Holds(db, rootOf[Users], first[1])
           /\ IF d.ok
              THEN Commit(d, Without(Users, first[1])) /\ UNCHANGED <<loop, misrouted>>
              ELSE Exit
    /\ UNCHANGED rootOf

RowsGone(t, loop_) ==
    /\ running = loop_ /\ FirstKeys(db, rootOf[t]) = <<>>
    /\ Emptied(t, db)
    /\ running' = "nothing"
    /\ UNCHANGED <<rootOf, at, todo>>

KeyNotFound ==
    /\ running = "statements"
    /\ LET first == FirstKeys(db, rootOf[Users])
       IN  first # <<>> /\ ~Holds(db, rootOf[Users], first[1])
    /\ running' = "nothing"
    /\ UNCHANGED <<db, committed, rootOf, at, todo, rows, misrouted>>

CreateTable ==
    /\ Ready /\ rootOf[Other] = None
    /\ Bounded(Claim(db, Blank))
    /\ Commit(Claim(db, EmptyRoot), rows)
    /\ rootOf' = [rootOf EXCEPT ![Other] = NextUnused(db)]
    /\ UNCHANGED <<loop, misrouted>>

Versioned(d, v) == [d EXCEPT !.node[0].parent = v]

SetUserVersion(v) ==
    /\ Ready
    /\ db.node[0].parent # v
    /\ Commit(Versioned(db, v), rows)
    /\ UNCHANGED <<rootOf, loop, misrouted>>

\* VACUUM reads every row, leaf by leaf, truncates, inserts the rows again,
\* restores the version and commits.  It is refused beside a second root.
Vacuum ==
    /\ Ready /\ OnlyUsers
    /\ running' = "read" /\ at' = LeafFor(db, 0, 0)
    /\ UNCHANGED <<db, committed, rootOf, todo, rows, misrouted>>

VacuumReads ==
    /\ running = "read"
    /\ todo' = todo \o db.node[at].keys
    /\ IF db.node[at].next # 0
       THEN at' = db.node[at].next /\ UNCHANGED <<db, rows, running>>
       ELSE /\ db' = Truncated(db) /\ rows' = [rows EXCEPT ![Users] = {}]
            /\ running' = "refill" /\ at' = 0
    /\ UNCHANGED <<committed, rootOf, misrouted>>

VacuumInserts ==
    /\ running = "refill" /\ todo # <<>>
    /\ LET d == Inserted(db, 0, Head(todo))
       IN  /\ Bounded(d)
           /\ IF d.ok
              THEN /\ db' = d /\ rows' = [rows EXCEPT ![Users] = @ \cup {Head(todo)}]
                   /\ todo' = Tail(todo)
                   /\ UNCHANGED <<committed, running, at, misrouted>>
              ELSE Exit
    /\ UNCHANGED rootOf

VacuumEnds ==
    /\ running = "refill" /\ todo = <<>>
    /\ Commit(Versioned(db, committed.db.node[0].parent), committed.rows)
    /\ running' = "nothing"
    /\ UNCHANGED <<rootOf, at, todo, misrouted>>

\* The process is started again after an exit.
Reopen ==
    /\ ~db.ok
    /\ db' = committed.db
    /\ UNCHANGED <<committed, rootOf, loop, rows, misrouted>>

Next ==
    \/ \E t \in Table : \E k \in KeyOf[t] : Insert(t, k) \/ Delete(t, k)
    \/ Truncate \/ DeleteAllRecords \/ DeleteAllStatements
    \/ DeleteRecord \/ DeleteStatement \/ KeyNotFound
    \/ RowsGone(Other, "records") \/ RowsGone(Users, "statements")
    \/ CreateTable
    \/ Vacuum \/ VacuumReads \/ VacuumInserts \/ VacuumEnds
    \/ \E v \in Version : SetUserVersion(v)
    \/ Reopen

Spec == Init /\ [][Next]_vars

----------------------------------------------------------------------------
(* Properties.                                                             *)

Healthy(t) == rootOf[t] # None /\ t \notin misrouted

\* Every page below num_pages is a node within its capacity, or blank; the
\* catalog's roots are tree pages.
TypeOK ==
    /\ DOMAIN db.node \subseteq Page /\ DOMAIN db.node = 0 .. db.num - 1
    /\ \A p \in DOMAIN db.node :
         \/ db.node[p] = Blank
         \/ IsLeaf(db, p) /\ Len(db.node[p].keys) <= MaxCells
         \/ /\ db.node[p].kind = "internal"
            /\ Len(db.node[p].keys) <= MaxKeys
            /\ Len(db.node[p].kids) = Len(db.node[p].keys) + 1
    /\ \A t \in Table : rootOf[t] # None => db.node[rootOf[t]].root
    /\ db.ok \in BOOLEAN /\ misrouted \subseteq Table
    /\ running \in {"nothing", "records", "statements", "read", "refill"}

\* Splits, root collapses, emptied leaves, CREATE TABLE and VACUUM neither leak
\* a page nor give one to two owners: a page belongs to exactly one tree, once,
\* or lies on the free-page stack, once.  It holds even for a misrouted tree.
PagesPartitioned ==
    LET Owned(t) == IF rootOf[t] = None THEN {}
                    ELSE {rootOf[t]} \cup Kids(db, rootOf[t])
    IN  /\ Owned(Users) \cap Owned(Other) = {}
        /\ ToSet(db.free) \cap (Owned(Users) \cup Owned(Other)) = {}
        /\ ToSet(db.free) \cup Owned(Users) \cup Owned(Other) = 0 .. db.num - 1
        /\ IsInjective(db.free)
        /\ \A t \in Table : rootOf[t] # None =>
              /\ IsLeaf(db, rootOf[t]) \/ IsInjective(db.node[rootOf[t]].kids)
              /\ \A c \in Kids(db, rootOf[t]) : db.node[c].parent = rootOf[t]

\* A scan along next_leaf from the first leaf returns each row of a healthy
\* table once and in order, whatever was split, emptied or collapsed before.
ScanReturnsRows ==
    \A t \in Table : Healthy(t) =>
        LET s == Scan(db, rootOf[t])
        IN  /\ ToSet(s) = rows[t]
            /\ \A i \in 1 .. Len(s) - 1 : s[i] < s[i + 1]

\* A point lookup in a healthy table finds exactly the rows of the table: the
\* separators and the leaves agree, also where deletes left a separator that
\* is no longer the largest key of its child, in the middle of a statement,
\* and after VACUUM has rebuilt the table from what its cursor read.
LookupFindsRows ==
    \A t \in Table : Healthy(t) =>
        \A k \in KeyOf[t] : Holds(db, rootOf[t], k) <=> k \in rows[t]

\* Both ways to a row agree with the table: no row that a scan of a healthy
\* table passes is hidden from the lookup by key, and neither finds another.
RowsReachable == ScanReturnsRows /\ LookupFindsRows

\* The structural check made before a generic mutation never refuses a tree
\* that only these operations built.
PolicyAcceptsHealthyTree ==
    \A t \in Table : Healthy(t) => MutationSupported(db, rootOf[t])

\* user_version lies in the root page's parent field.  An insert that rewrites
\* the root, CREATE TABLE, VACUUM from its first step to its commit, and an
\* exit of the process keep it.  (A delete that collapses the root does not.)
Grows ==
    \/ \E t \in Table : \E k \in KeyOf[t] : Insert(t, k)
    \/ CreateTable \/ Vacuum \/ VacuumReads \/ VacuumInserts \/ VacuumEnds
    \/ Exit \/ Reopen

VersionSurvivesGrowth ==
    [][Grows => committed'.db.node[0].parent = committed.db.node[0].parent]_vars

\* "Returns a pointer to the child page number that should contain `key`"
\* (table.c:168): a row that was inserted is found.
EveryRowFound ==
    \A t \in Table : rootOf[t] # None =>
        \A k \in rows[t] : Holds(db, rootOf[t], k)
=============================================================================
