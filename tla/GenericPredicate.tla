-------------------------- MODULE GenericPredicate --------------------------
(***************************************************************************)
(* What the generic SQL routes of tinydb share: rows, typed predicates,    *)
(* WHERE expressions, and the range of entries an index gives for the      *)
(* predicates on its column.                                               *)
(*                                                                         *)
(* A row has the key id and two columns, a (VARCHAR) and b (INT).  Texts   *)
(* and numbers are both naturals here: only their order matters, and the   *)
(* pattern of a LIKE is any set of texts, bit v of it saying whether it    *)
(* matches the text v.                                                     *)
(***************************************************************************)
EXTENDS Naturals, Sequences, SequencesExt, FiniteSetsExt

CONSTANTS
    MaxId,      \* the largest u32
    MaxVal      \* the largest value of a column

Id == 0..MaxId
Val == 0..MaxVal
NoRow == [a |-> 0, b |-> 0, there |-> FALSE]
Row == {NoRow} \cup [a : Val, b : Val, there : {TRUE}]
Rows == [Id -> Row]
KeyedColumn == {"a", "b"}

\* The value of column c in the row of id i.
ValueOf(rows, i, c) == IF c = "id" THEN i ELSE rows[i][c]

IdsIn(rows) == {i \in Id : rows[i].there}

\* record_scan and the payload scan visit the rows in key order.
Scan(rows) == SetToSortSeq(IdsIn(rows), <)
ScanRange(rows, lo, hi) == SetToSortSeq({i \in IdsIn(rows) : lo <= i /\ i <= hi}, <)

-----------------------------------------------------------------------------
(* Predicates and WHERE expressions.                                       *)

\* op is one of "=", ">", ">=", "<", "<=" and "like".
PredicateMatches(p, v) ==
    \/ p.op = "=" /\ v = p.val
    \/ p.op = ">" /\ v > p.val
    \/ p.op = ">=" /\ v >= p.val
    \/ p.op = "<" /\ v < p.val
    \/ p.op = "<=" /\ v <= p.val
    \/ p.op = "like" /\ (p.val \div 2^v) % 2 = 1

(* AND binds tighter than OR.  Without parentheses an expression is an OR  *)
(* of ANDs; with them it is that or an AND of ORs.                         *)
ParsedWhere(preds) ==
    LET Terms == {<<p>> : p \in preds} \cup {<<p, q>> : p \in preds, q \in preds}
    IN  [paren : BOOLEAN, outer : {"or", "and"},
         terms : {<<t>> : t \in Terms} \cup {<<t, u>> : t \in Terms, u \in Terms}]

NoWhere == [paren |-> FALSE, outer |-> "or", terms |-> <<>>]

HasWhere(w) == w.terms # <<>>
Flat(w) == HasWhere(w) /\ ~w.paren
AndList(w) == Flat(w) /\ Len(w.terms) = 1
FlatOr(w) == Flat(w) /\ Len(w.terms) > 1
HasOr(w) ==
    IF w.outer = "or" THEN Len(w.terms) > 1 ELSE \E k \in DOMAIN w.terms : Len(w.terms[k]) > 1

PredicatesOf(w) == UNION {ToSet(w.terms[k]) : k \in DOMAIN w.terms}
HasLike(w) == \E p \in PredicatesOf(w) : p.op = "like"

AllMatch(preds, rows, i) ==
    \A k \in DOMAIN preds : PredicateMatches(preds[k], ValueOf(rows, i, preds[k].col))

AnyMatches(preds, rows, i) ==
    \E k \in DOMAIN preds : PredicateMatches(preds[k], ValueOf(rows, i, preds[k].col))

BooleanMatches(w, rows, i) ==
    \/ ~HasWhere(w)
    \/ w.outer = "or" /\ \E k \in DOMAIN w.terms : AllMatch(w.terms[k], rows, i)
    \/ w.outer = "and" /\ \A k \in DOMAIN w.terms : AnyMatches(w.terms[k], rows, i)

-----------------------------------------------------------------------------
(* The entries of an index are sorted by value and then by key.  Positions *)
(* count from 0, and a range leaves its end out.                           *)

EntryBefore(rows, c, i, j) ==
    \/ rows[i][c] < rows[j][c]
    \/ rows[i][c] = rows[j][c] /\ i < j

Entries(rows, c) == SetToSortSeq(IdsIn(rows), LAMBDA i, j : EntryBefore(rows, c, i, j))

LowerBound(rows, c, v) == Cardinality({i \in IdsIn(rows) : rows[i][c] < v})
UpperBound(rows, c, v) == Cardinality({i \in IdsIn(rows) : rows[i][c] <= v})

\* Fault: >= starts after the entries that are equal.
FaultPredicateBounds(rows, p) ==
    [from |-> CASE p.op = "=" -> LowerBound(rows, p.col, p.val)
                [] p.op \in {">", ">="} -> UpperBound(rows, p.col, p.val)
                [] OTHER -> 0,
     to |-> CASE p.op \in {"=", "<="} -> UpperBound(rows, p.col, p.val)
              [] p.op = "<" -> LowerBound(rows, p.col, p.val)
              [] OTHER -> Cardinality(IdsIn(rows))]

PredicateBounds(rows, p) ==
    [from |-> CASE p.op \in {"=", ">="} -> LowerBound(rows, p.col, p.val)
                [] p.op = ">" -> UpperBound(rows, p.col, p.val)
                [] OTHER -> 0,
     to |-> CASE p.op \in {"=", "<="} -> UpperBound(rows, p.col, p.val)
              [] p.op = "<" -> LowerBound(rows, p.col, p.val)
              [] OTHER -> Cardinality(IdsIn(rows))]

\* The intersection of the ranges of several predicates on one column.
ConjunctiveBounds(rows, preds) ==
    LET Bounds == {PredicateBounds(rows, p) : p \in preds}
    IN  [from |-> Max({r.from : r \in Bounds}), to |-> Min({r.to : r \in Bounds})]

CollectCandidates(rows, p) ==
    LET r == PredicateBounds(rows, p)
    IN  SubSeq(Entries(rows, p.col), r.from + 1, r.to)

CollectConjunctiveCandidates(rows, c, preds) ==
    LET r == ConjunctiveBounds(rows, preds)
    IN  SubSeq(Entries(rows, c), r.from + 1, r.to)

SortAndDeduplicate(ids) == SetToSortSeq(ids, <)
=============================================================================
