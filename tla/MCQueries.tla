----------------------------- MODULE MCQueries -----------------------------
(***************************************************************************)
(* What a query through an index returns rests on two things: a route of   *)
(* GenericSql misses no row that the index lists, and the index lists      *)
(* every row, which is the business of IndexSidecars.  One run explores    *)
(* both, each behaviour one of them.                                       *)
(***************************************************************************)
EXTENDS IndexSidecars, TLC

CONSTANTS MaxId, MaxVal, NoLimit, NoOrder, NoResult, NoWork, NoUndo, Loads, Use

VARIABLES
    part,       \* "indexes" or "statements"
    written,    \* of IndexSidecars: the table whose rows a behaviour changes
    load, stored, durable, inStatements, work, result, steps

G == INSTANCE GenericLoads
Sql == INSTANCE GenericSql WITH inTransaction <- inStatements

MCLoads == G!MCLoads
MCUse == G!MCUse

IndexVars == <<vars, written>>
SqlVars == <<load, stored, durable, inStatements, work, result, steps>>

MCInit ==
    /\ Init
    /\ \/ /\ part = "indexes" /\ written \in Table
          /\ load = None /\ stored = None /\ durable = None /\ inStatements = None
          /\ work = None /\ result = None /\ steps = None
       \/ part = "statements" /\ written = "other" /\ disk = FreshDisk /\ Sql!Init

\* The rows of the two tables never meet: a behaviour writes one of them only.
IndexStep ==
    /\ part = "indexes"
    /\ Next /\ \A t \in Table \ {written} : rows'[t] = rows[t]
    /\ UNCHANGED <<part, written, SqlVars>>

StatementStep ==
    /\ part = "statements"
    /\ Sql!Next
    /\ UNCHANGED <<part, IndexVars>>

MCNext == IndexStep \/ StatementStep
MCSpec == MCInit /\ [][MCNext]_<<part, IndexVars, SqlVars>>

Symmetry == Permutations(Value)

\* The properties of GenericSql, stated and explained there.
RoutesAgree == part = "statements" => Sql!RoutesAgree
StatementAllOrNothing == part = "statements" => Sql!StatementAllOrNothing
DurableByWholeSteps == Sql!DurableByWholeSteps
=============================================================================
