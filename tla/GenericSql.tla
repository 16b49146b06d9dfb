----------------------------- MODULE GenericSql -----------------------------
(***************************************************************************)
(* Generic SQL over one table other than the first.  A query is answered   *)
(* by the first route that takes it; where a route compares estimated      *)
(* costs, both outcomes are possible.  An UPDATE or a DELETE first collects*)
(* the keys of its rows and then changes them one by one, and the record   *)
(* layer may refuse a row: in autocommit the statement runs in a           *)
(* transaction of its own, in a transaction of the user a wide table has a *)
(* savepoint around it.                                                    *)
(*                                                                         *)
(* A route is an action, named after the file that holds it.  Rows that a  *)
(* transaction has written but not committed are in stored alone, and a    *)
(* crash leaves what is in durable.                                        *)
(***************************************************************************)
EXTENDS GenericRoutes

CONSTANTS
    NoResult,   \* no statement has been answered
    NoWork,     \* no UPDATE or DELETE is running
    NoUndo,     \* no savepoint is set around the statement
    Loads,      \* bound: the tables to start from, [rows, indexed, wide, steps, use]
    Use         \* bound: for each use of a load, the statements that follow it

VARIABLES
    load,           \* how the table was set up, and the statements that follow
    stored,         \* the rows a statement sees
    durable,        \* the rows as of the last commit
    inTransaction,  \* of the user or of a statement
    work,           \* the UPDATE or DELETE that runs
    result,         \* what the last statement returned
    steps           \* bound: the statements still to come

vars == <<load, stored, durable, inTransaction, work, result, steps>>

Init ==
    /\ load \in Loads
    /\ stored = load.rows
    /\ durable = stored
    /\ inTransaction = FALSE
    /\ work = NoWork
    /\ result = NoResult
    /\ steps = load.steps

Wide == load.wide
Narrow == ~Wide
IndexedColumns == load.indexed
Idle == work = NoWork /\ result = NoResult

Asked == IF Idle /\ steps > 0 THEN Use[load.use] ELSE {}

\* The REPL prints the result and reads the next statement.
Return == result # NoResult /\ result' = NoResult /\ UNCHANGED <<load, stored, durable, inTransaction, work, steps>>

-----------------------------------------------------------------------------
(* SELECT.  ids are the matching rows in the order of the route.           *)

Answer(s, ids) ==
    /\ result' = [stmt |-> s, ok |-> TRUE,
                  rows |-> IF s.count THEN <<>> ELSE Window(s, ids),
                  number |-> IF s.count THEN CountOf(s, ids) ELSE 0]
    /\ steps' = steps - 1
    /\ UNCHANGED <<load, stored, durable, inTransaction, work>>

NarrowQuery(s) == Narrow /\ IsSelect(s)
WideQuery(s) == Wide /\ IsSelect(s)

GroupedSelect(s) ==
    NarrowQuery(s) /\ GroupedSelectTakes(s) /\ Answer(s, GroupedIds(s, stored))

UnionSelect(s) ==
    NarrowQuery(s) /\ UnionTakes(s, IndexedColumns) /\ Answer(s, UnionIds(s, IndexedColumns, stored))

OrScanSelect(s) ==
    NarrowQuery(s) /\ OrScanReached(s, IndexedColumns) /\ Answer(s, OrScanIds(s, stored))

IntersectionSelect(s) ==
    /\ NarrowQuery(s) /\ IntersectionTakes(s, IndexedColumns)
    /\ Answer(s, IntersectionIds(s, IndexedColumns, stored))

CorrelatedSelect(s) ==
    /\ NarrowQuery(s) /\ PairTakes(s, IndexedColumns)
    /\ Answer(s, IntersectionIds(s, IndexedColumns, stored))

AnchorSelect(s) ==
    /\ NarrowQuery(s) /\ AnchorTakes(s, IndexedColumns)
    /\ \E c \in Sources(s, IndexedColumns) : Answer(s, AnchorIds(s, stored, c))

RangeSelect(s) ==
    NarrowQuery(s) /\ RangeTakes(s, IndexedColumns) /\ Answer(s, RangeIds(s, stored))

SnapshotSelect(s) ==
    NarrowQuery(s) /\ EqualityTakes(s, IndexedColumns) /\ Answer(s, SnapshotIds(s, stored))

PredicateSelect(s) ==
    NarrowQuery(s) /\ PredicateSelectReached(s, IndexedColumns) /\ Answer(s, PredicateIds(s, stored))

BaseSelect(s) ==
    NarrowQuery(s) /\ BaseSelectTakes(s) /\ Answer(s, Matching(s, stored, Scan(stored)))

WideOrderSelect(s) ==
    WideQuery(s) /\ OrderTakes(s) /\ Answer(s, OrderedIds(s, stored))

WideBooleanSelect(s) ==
    /\ WideQuery(s) /\ WideBooleanTakes(s, IndexedColumns, stored)
    /\ Answer(s, WideBooleanIds(s, IndexedColumns, stored))

WideIndexSelect(s) ==
    WideQuery(s) /\ WideIndexTakes(s, IndexedColumns) /\ Answer(s, WideIndexIds(s, IndexedColumns, stored))

\* Reached when the index route for boolean expressions leaves the statement.
NoBooleanIndex(s) ==
    WideBooleanTakes(s, IndexedColumns, stored) => WideBooleanEstimated(s, IndexedColumns)

WideGroupedSelect(s) ==
    /\ WideQuery(s) /\ WideGroupedSelectTakes(s) /\ NoBooleanIndex(s)
    /\ Answer(s, WideGroupedIds(s, stored))

WideOrSelect(s) ==
    /\ WideQuery(s) /\ WideOrSelectTakes(s) /\ NoBooleanIndex(s)
    /\ Answer(s, WideOrIds(s, stored))

WideCompoundSelect(s) ==
    /\ WideQuery(s) /\ WideCompoundTakes(s) /\ ~WideIndexTakes(s, IndexedColumns)
    /\ Answer(s, WideRangeIds(s, stored))

WideSingleRangeSelect(s) ==
    /\ WideQuery(s) /\ WideSingleRangeTakes(s) /\ ~WideIndexTakes(s, IndexedColumns)
    /\ Answer(s, WideSingleRangeIds(s, stored))

WideBaseSelect(s) ==
    /\ WideQuery(s) /\ s.order = NoOrder /\ WideBaseTakes(s) /\ ~WideIndexTakes(s, IndexedColumns)
    /\ Answer(s, WideBaseIds(s, stored))

WideRefuse(s) ==
    /\ WideQuery(s) /\ WideRefuses(s)
    /\ result' = [stmt |-> s, ok |-> FALSE, rows |-> <<>>, number |-> 0]
    /\ steps' = steps - 1
    /\ UNCHANGED <<load, stored, durable, inTransaction, work>>

-----------------------------------------------------------------------------
(* UPDATE and DELETE.                                                      *)

Done(s, before, ok) ==
    result' = [stmt |-> s, ok |-> ok, before |-> before, whole |-> Wide \/ ~inTransaction]

\* begin_internal_transaction, or the savepoint of the wrapper.
BeginStatement(s, ids) ==
    /\ work' = [stmt |-> s, todo |-> ids, ok |-> TRUE, before |-> stored,
                started |-> ~inTransaction,
                undo |-> IF Wide /\ inTransaction THEN stored ELSE NoUndo]
    /\ inTransaction' = TRUE
    /\ UNCHANGED <<load, stored, durable, result>>

\* No row to change: an error if the statement names a key.
NothingToDo(s, keyed) ==
    /\ Done(s, stored, ~keyed)
    /\ UNCHANGED <<load, stored, durable, inTransaction, work>>

Mutate(s, ids, keyed) ==
    /\ steps' = steps - 1
    /\ IF ids = <<>> THEN NothingToDo(s, keyed) ELSE BeginStatement(s, ids)

Keyed(s) == AndList(s.where) /\ HasKeyEquality(Preds(s))

GroupedUpdate(s) == Narrow /\ GroupedUpdateTakes(s) /\ Mutate(s, GroupedIds(s, stored), FALSE)
GroupedDelete(s) == Narrow /\ GroupedDeleteTakes(s) /\ Mutate(s, GroupedIds(s, stored), FALSE)

OrUpdate(s) == Narrow /\ OrUpdateTakes(s) /\ Mutate(s, OrMutationIds(s, stored), FALSE)
OrDelete(s) == Narrow /\ OrDeleteTakes(s) /\ Mutate(s, OrMutationIds(s, stored), FALSE)

PredicateUpdate(s) == Narrow /\ PredicateUpdateTakes(s) /\ Mutate(s, PredicateIds(s, stored), Keyed(s))
PredicateDelete(s) == Narrow /\ PredicateDeleteTakes(s) /\ Mutate(s, PredicateIds(s, stored), Keyed(s))

WideGroupedUpdate(s) == Wide /\ WideGroupedUpdateTakes(s) /\ Mutate(s, WideGroupedIds(s, stored), FALSE)
WideGroupedDelete(s) == Wide /\ WideGroupedDeleteTakes(s) /\ Mutate(s, WideGroupedIds(s, stored), FALSE)

WideOrUpdate(s) == Wide /\ WideOrUpdateTakes(s) /\ Mutate(s, WideOrIds(s, stored), FALSE)
WideOrDelete(s) == Wide /\ WideOrDeleteTakes(s) /\ Mutate(s, WideOrIds(s, stored), FALSE)

WideRangeUpdate(s) == Wide /\ WideRangeUpdateTakes(s) /\ Mutate(s, WideRangeIds(s, stored), Keyed(s))
WideRangeDelete(s) == Wide /\ WideRangeDeleteTakes(s) /\ Mutate(s, WideRangeIds(s, stored), Keyed(s))

WideBaseUpdate(s) ==
    /\ Wide /\ s.verb = "update" /\ WideBaseTakes(s)
    /\ Mutate(s, WideBaseIds(s, stored), Keyed(s))

WideBaseDelete(s) ==
    /\ Wide /\ s.verb = "delete" /\ WideBaseTakes(s)
    /\ Mutate(s, WideBaseIds(s, stored), Keyed(s))

\* DELETE without WHERE of a narrow table is one call of the record layer.
NoRows == [i \in Id |-> NoRow]

DeleteAll(s) ==
    /\ Narrow /\ BaseDeleteTakes(s)
    /\ stored' = NoRows
    /\ durable' = IF inTransaction THEN durable ELSE NoRows
    /\ Done(s, stored, TRUE)
    /\ steps' = steps - 1
    /\ UNCHANGED <<load, inTransaction, work>>

Changed(s, rows, i) ==
    IF s.verb = "delete" THEN [rows EXCEPT ![i] = NoRow]
    ELSE [rows EXCEPT ![i] = s.set @@ @]

\* One row: find it, merge the assignments, encode and store it.
ApplyRow ==
    /\ work # NoWork /\ work.todo # <<>>
    /\ stored' = Changed(work.stmt, stored, Head(work.todo))
    /\ work' = [work EXCEPT !.todo = Tail(@)]
    /\ UNCHANGED <<load, durable, inTransaction, result, steps>>

\* The record layer refuses the row: the loop ends.
RefuseRow ==
    /\ work # NoWork /\ work.todo # <<>>
    /\ work' = [work EXCEPT !.todo = <<>>, !.ok = FALSE]
    /\ UNCHANGED <<load, stored, durable, inTransaction, result, steps>>

\* Fault: nothing is rolled back to the savepoint.
FaultFinished(w) ==
    [stored |-> IF w.started /\ ~w.ok THEN durable ELSE stored,
     durable |-> IF w.started /\ w.ok THEN stored ELSE durable]

\* Fault: a transaction of the statement is committed whatever happened.
FaultCommitted(w) ==
    [stored |-> IF ~w.ok /\ w.undo # NoUndo THEN w.undo ELSE stored,
     durable |-> IF w.started THEN stored ELSE durable]

\* finish_internal_transaction, then the savepoint is released or rolled back.
Finished(w) ==
    [stored |-> CASE w.ok -> stored
                  [] w.started -> durable
                  [] w.undo # NoUndo -> w.undo
                  [] OTHER -> stored,
     durable |-> IF w.started /\ w.ok THEN stored ELSE durable]

Finish ==
    /\ work # NoWork /\ work.todo = <<>>
    /\ stored' = Finished(work).stored
    /\ durable' = Finished(work).durable
    /\ inTransaction' = (inTransaction /\ ~work.started)
    /\ result' = [stmt |-> work.stmt, ok |-> work.ok, before |-> work.before,
                  whole |-> work.started \/ work.undo # NoUndo]
    /\ work' = NoWork
    /\ UNCHANGED <<load, steps>>

(* INSERT: a key that is there, or a row the record layer refuses.  There  *)
(* is no transaction around it: the record layer commits in autocommit.    *)
InsertRow(s) ==
    \E ok \in IF stored[s.id].there THEN {FALSE} ELSE BOOLEAN :
        /\ stored' = IF ok THEN [stored EXCEPT ![s.id] = s.row] ELSE stored
        /\ durable' = IF ok /\ ~inTransaction THEN stored' ELSE durable
        /\ result' = [stmt |-> s, ok |-> ok, before |-> stored, whole |-> TRUE]
        /\ steps' = steps - 1
        /\ UNCHANGED <<load, inTransaction, work>>

Insert(s) == Narrow /\ s.verb = "insert" /\ InsertRow(s)
WideInsert(s) == Wide /\ s.verb = "insert" /\ InsertRow(s)

-----------------------------------------------------------------------------
(* Transactions of the user, and the end of the process.                   *)

Begin ==
    /\ Idle /\ ~inTransaction /\ steps > 0
    /\ inTransaction' = TRUE
    /\ UNCHANGED <<load, stored, durable, work, result, steps>>

Commit ==
    /\ Idle /\ inTransaction
    /\ durable' = stored
    /\ inTransaction' = FALSE
    /\ UNCHANGED <<load, stored, work, result, steps>>

Rollback ==
    /\ Idle /\ inTransaction
    /\ stored' = durable
    /\ inTransaction' = FALSE
    /\ UNCHANGED <<load, durable, work, result, steps>>

\* The log is replayed up to the last commit when the database is opened again.
Crash ==
    /\ stored' = durable
    /\ inTransaction' = FALSE
    /\ work' = NoWork /\ result' = NoResult
    /\ UNCHANGED <<load, durable, steps>>

Next ==
    \/ \E s \in Asked : GroupedSelect(s)
    \/ \E s \in Asked : UnionSelect(s)
    \/ \E s \in Asked : OrScanSelect(s)
    \/ \E s \in Asked : IntersectionSelect(s)
    \/ \E s \in Asked : CorrelatedSelect(s)
    \/ \E s \in Asked : AnchorSelect(s)
    \/ \E s \in Asked : RangeSelect(s)
    \/ \E s \in Asked : SnapshotSelect(s)
    \/ \E s \in Asked : PredicateSelect(s)
    \/ \E s \in Asked : BaseSelect(s)
    \/ \E s \in Asked : WideOrderSelect(s)
    \/ \E s \in Asked : WideBooleanSelect(s)
    \/ \E s \in Asked : WideIndexSelect(s)
    \/ \E s \in Asked : WideGroupedSelect(s)
    \/ \E s \in Asked : WideOrSelect(s)
    \/ \E s \in Asked : WideCompoundSelect(s)
    \/ \E s \in Asked : WideSingleRangeSelect(s)
    \/ \E s \in Asked : WideBaseSelect(s)
    \/ \E s \in Asked : WideRefuse(s)
    \/ \E s \in Asked : GroupedUpdate(s)
    \/ \E s \in Asked : GroupedDelete(s)
    \/ \E s \in Asked : OrUpdate(s)
    \/ \E s \in Asked : OrDelete(s)
    \/ \E s \in Asked : PredicateUpdate(s)
    \/ \E s \in Asked : PredicateDelete(s)
    \/ \E s \in Asked : WideGroupedUpdate(s)
    \/ \E s \in Asked : WideGroupedDelete(s)
    \/ \E s \in Asked : WideOrUpdate(s)
    \/ \E s \in Asked : WideOrDelete(s)
    \/ \E s \in Asked : WideRangeUpdate(s)
    \/ \E s \in Asked : WideRangeDelete(s)
    \/ \E s \in Asked : WideBaseUpdate(s)
    \/ \E s \in Asked : WideBaseDelete(s)
    \/ \E s \in Asked : DeleteAll(s)
    \/ \E s \in Asked : Insert(s)
    \/ \E s \in Asked : WideInsert(s)
    \/ Return \/ ApplyRow \/ RefuseRow \/ Finish
    \/ Begin \/ Commit \/ Rollback \/ Crash

Spec == Init /\ [][Next]_vars

-----------------------------------------------------------------------------
(* Properties.                                                             *)

\* What a WHERE means, whatever route evaluates it.
Selected(s, rows) == {i \in IdsIn(rows) : BooleanMatches(s.where, rows, i)}

Effect(s, rows) ==
    IF s.verb = "insert" THEN [rows EXCEPT ![s.id] = s.row]
    ELSE [i \in Id |-> CASE i \notin Selected(s, rows) -> rows[i]
                         [] s.verb = "delete" -> NoRow
                         [] OTHER -> s.set @@ rows[i]]

(* Every route returns the rows that match, each of them once, and as many *)
(* as LIMIT and OFFSET leave; with ORDER BY exactly the rows of that window*)
(* of the sorted table.  COUNT counts the rows.                            *)
RightNumber(s, rows) ==
    LET total == Cardinality(Selected(s, rows))
        rest == IF total > s.offset THEN total - s.offset ELSE 0
    IN  IF s.limit = NoLimit THEN rest ELSE Min({rest, s.limit})

InOrder(s, ids) ==
    \A k \in DOMAIN ids :
        LET Before(i) == IF s.order.desc THEN OrderBefore(stored, s.order.col, ids[k], i)
                         ELSE OrderBefore(stored, s.order.col, i, ids[k])
        IN  Cardinality({i \in Selected(s, stored) : Before(i)}) = s.offset + k - 1

RoutesAgree ==
    result # NoResult /\ IsSelect(result.stmt) /\ result.ok =>
        LET s == result.stmt
        IN  IF s.count
            THEN result.number = CountOf(s, SetToSeq(Selected(s, stored)))
            ELSE /\ ToSet(result.rows) \subseteq Selected(s, stored)
                 /\ IsInjective(result.rows)
                 /\ Len(result.rows) = RightNumber(s, stored)
                 /\ s.order # NoOrder => InOrder(s, result.rows)

(* A statement that succeeded changed all the rows it selects and nothing  *)
(* else; one that failed changed none, in autocommit and, on a wide table, *)
(* in a transaction of the user too.                                       *)
StatementAllOrNothing ==
    result # NoResult /\ ~IsSelect(result.stmt) =>
        IF result.ok THEN stored = Effect(result.stmt, result.before)
        ELSE result.whole => stored = result.before

(* What survives a crash changes by COMMIT or by one whole statement that  *)
(* reported success.                                                       *)
DurableByWholeSteps ==
    [][durable' # durable =>
         \/ Idle /\ inTransaction /\ durable' = stored
         \/ /\ result' # NoResult /\ result'.ok /\ ~inTransaction'
            /\ durable' = Effect(result'.stmt, durable)]_vars
=============================================================================
