--------------------------- MODULE GenericRoutes ---------------------------
(***************************************************************************)
(* The routes a generic SQL statement can take.  Every route looks at the  *)
(* statement, takes it or hands it to the next one: XTakes says what route *)
(* X accepts, and an operator named for its source of keys gives the ids X *)
(* looks at, in the order it does.  A table whose row is larger than the   *)
(* fixed row of the first table is wide: it has routes of its own in front *)
(* of the others.                                                          *)
(*                                                                         *)
(* A statement is a record [verb, where, count, limit, offset, order, set].*)
(***************************************************************************)
EXTENDS GenericPredicate

CONSTANTS
    NoLimit,    \* no LIMIT clause
    NoOrder     \* no ORDER BY clause

Matching(s, rows, ids) == SelectSeq(ids, LAMBDA i : rows[i].there /\ BooleanMatches(s.where, rows, i))

\* What a visitor that counts matched and emitted rows lets through.
Window(s, ids) ==
    SubSeq(ids, s.offset + 1,
           IF s.limit = NoLimit THEN Len(ids) ELSE Min({Len(ids), s.offset + s.limit}))

CountOf(s, ids) == IF s.offset > 0 \/ s.limit = 0 THEN 0 ELSE Len(ids)

Windowed(s) == s.limit # NoLimit \/ s.offset > 0

Preds(s) == s.where.terms[1]        \* of a statement whose WHERE is an AND list
Ordered(p) == p.op # "like"
IsSelect(s) == s.verb = "select"

HasKeyEquality(preds) == \E k \in DOMAIN preds : preds[k].col = "id" /\ preds[k].op = "="
KeyEquality(preds) == preds[SelectInSeq(preds, LAMBDA p : p.col = "id" /\ p.op = "=")].val

Indexed(idx, p) == p.col \in idx
UsesIndex(idx, p) == Indexed(idx, p) /\ Ordered(p)
ColumnPredicates(preds, c) == {p \in ToSet(preds) : p.col = c /\ Ordered(p)}

-----------------------------------------------------------------------------
(* Narrow tables.  Parenthesised expressions are scanned.                  *)

GroupedSelectTakes(s) == IsSelect(s) /\ s.where.paren
GroupedUpdateTakes(s) == s.verb = "update" /\ s.where.paren
GroupedDeleteTakes(s) == s.verb = "delete" /\ s.where.paren
GroupedIds(s, rows) == Matching(s, rows, Scan(rows))

(* OR without parentheses: mutations scan.                                 *)
OrUpdateTakes(s) == s.verb = "update" /\ FlatOr(s.where)
OrDeleteTakes(s) == s.verb = "delete" /\ FlatOr(s.where)
OrMutationIds(s, rows) == Matching(s, rows, Scan(rows))

(* The union of one source of keys per branch: a key, or an index, of      *)
(* which an equality is better than a range.                               *)
GroupAnchor(idx, preds) ==
    LET Indexes(op) == {k \in DOMAIN preds : UsesIndex(idx, preds[k]) /\ (preds[k].op = "=") = op}
    IN  preds[Min(IF Indexes(TRUE) # {} THEN Indexes(TRUE) ELSE Indexes(FALSE))]

HasGroupAnchor(idx, preds) ==
    HasKeyEquality(preds) \/ \E k \in DOMAIN preds : UsesIndex(idx, preds[k])

BranchIds(idx, rows, preds) ==
    IF HasKeyEquality(preds) THEN {KeyEquality(preds)}
    ELSE ToSet(CollectCandidates(rows, GroupAnchor(idx, preds)))

UnionTakes(s, idx) ==
    /\ IsSelect(s) /\ FlatOr(s.where) /\ ~HasLike(s.where)
    /\ \A k \in DOMAIN s.where.terms : HasGroupAnchor(idx, s.where.terms[k])

UnionCandidates(s, idx, rows) ==
    SortAndDeduplicate(UNION {BranchIds(idx, rows, s.where.terms[k]) : k \in DOMAIN s.where.terms})

UnionIds(s, idx, rows) == Matching(s, rows, UnionCandidates(s, idx, rows))

\* The estimated costs are left open: with a window the union is not estimated.
UnionEstimated(s, idx) == UnionTakes(s, idx) /\ ~Windowed(s)

(* The other ORs are scanned, and every OR with a LIKE in it.              *)
OrScanTakes(s) == IsSelect(s) /\ FlatOr(s.where)
OrScanReached(s, idx) == OrScanTakes(s) /\ (~UnionTakes(s, idx) \/ UnionEstimated(s, idx))
OrScanIds(s, rows) == Matching(s, rows, Scan(rows))

(* An AND list over two indexes or more: the ids that are in all of them,  *)
(* in key order.  A pair of equalities is decided by statistics of the     *)
(* pair and then taken whatever the other estimates say.                   *)
PairTakes(s, idx) ==
    /\ IsSelect(s) /\ AndList(s.where) /\ Len(Preds(s)) = 2
    /\ \A k \in 1..2 : Preds(s)[k].op = "=" /\ Indexed(idx, Preds(s)[k])
    /\ Preds(s)[1].col # Preds(s)[2].col

Sources(s, idx) == {c \in idx : ColumnPredicates(Preds(s), c) # {}}

IntersectionTakes(s, idx) ==
    /\ IsSelect(s) /\ AndList(s.where) /\ Len(Preds(s)) >= 2
    /\ ~HasKeyEquality(Preds(s))
    /\ Cardinality(Sources(s, idx)) >= 2

SourceIds(s, rows, c) == ToSet(CollectConjunctiveCandidates(rows, c, ColumnPredicates(Preds(s), c)))

IntersectionCandidates(s, idx, rows) ==
    SortAndDeduplicate({i \in Id : \A c \in Sources(s, idx) : i \in SourceIds(s, rows, c)})

IntersectionIds(s, idx, rows) == Matching(s, rows, IntersectionCandidates(s, idx, rows))

(* An AND list over one index, and the rest as a filter.  Rows come in the *)
(* order of the index.                                                     *)
AnchorTakes(s, idx) ==
    /\ IsSelect(s) /\ AndList(s.where) /\ Len(Preds(s)) >= 2
    /\ ~HasKeyEquality(Preds(s))
    /\ Sources(s, idx) # {}

AnchorIds(s, rows, c) ==
    Matching(s, rows, CollectConjunctiveCandidates(rows, c, ColumnPredicates(Preds(s), c)))

(* One predicate on an indexed column: a range, or an equality, which has  *)
(* a snapshot of its own.                                                  *)
Single(s) == IsSelect(s) /\ AndList(s.where) /\ Len(Preds(s)) = 1

RangeTakes(s, idx) == Single(s) /\ UsesIndex(idx, Preds(s)[1]) /\ Preds(s)[1].op # "="
EqualityTakes(s, idx) == Single(s) /\ UsesIndex(idx, Preds(s)[1]) /\ Preds(s)[1].op = "="

RangeIds(s, rows) == Matching(s, rows, CollectCandidates(rows, Preds(s)[1]))

SnapshotIds(s, rows) ==
    LET p == Preds(s)[1]
    IN  Matching(s, rows, SubSeq(Entries(rows, p.col), LowerBound(rows, p.col, p.val) + 1,
                                 UpperBound(rows, p.col, p.val)))

SingleEstimated(s, idx) == (RangeTakes(s, idx) \/ EqualityTakes(s, idx)) /\ ~Windowed(s)

(* What is left of the AND lists: one key, or a scan.                      *)
PredicateSelectReached(s, idx) ==
    /\ IsSelect(s) /\ AndList(s.where)
    /\ RangeTakes(s, idx) \/ EqualityTakes(s, idx) => SingleEstimated(s, idx)

PredicateUpdateTakes(s) == s.verb = "update" /\ AndList(s.where)
PredicateDeleteTakes(s) == s.verb = "delete" /\ AndList(s.where)

PredicateIds(s, rows) ==
    IF HasKeyEquality(Preds(s))
    THEN Matching(s, rows, <<KeyEquality(Preds(s))>>)
    ELSE Matching(s, rows, Scan(rows))

(* No WHERE.                                                               *)
BaseSelectTakes(s) == IsSelect(s) /\ ~HasWhere(s.where)
BaseDeleteTakes(s) == s.verb = "delete" /\ ~HasWhere(s.where)

-----------------------------------------------------------------------------
(* Wide tables.  ORDER BY: all the matching rows, sorted.                  *)

OrderTakes(s) == IsSelect(s) /\ s.order # NoOrder

OrderBefore(rows, c, i, j) ==
    \/ ValueOf(rows, i, c) < ValueOf(rows, j, c)
    \/ ValueOf(rows, i, c) = ValueOf(rows, j, c) /\ i < j

OrderedIds(s, rows) ==
    LET up == SetToSortSeq(ToSet(Matching(s, rows, Scan(rows))),
                           LAMBDA i, j : OrderBefore(rows, s.order.col, i, j))
    IN  IF s.order.desc THEN Reverse(up) ELSE up

(* A boolean expression with an OR or a parenthesis in it.  A set of ids   *)
(* is bounded or it is the whole table: AND keeps what is bounded of its   *)
(* two sides, OR is bounded when both sides are.                           *)
Unbounded == [bounded |-> FALSE, ids |-> {}]
Bounded(ids) == [bounded |-> TRUE, ids |-> ids]

LeafCandidates(idx, rows, p) ==
    IF p.col = "id" /\ p.op = "=" THEN Bounded({p.val})
    ELSE IF UsesIndex(idx, p) THEN Bounded(ToSet(CollectCandidates(rows, p)))
    ELSE Unbounded

CandidateIntersection(x, y) ==
    IF x.bounded /\ y.bounded THEN Bounded(x.ids \cap y.ids)
    ELSE IF x.bounded THEN x ELSE y

CandidateUnion(x, y) ==
    IF x.bounded /\ y.bounded THEN Bounded(x.ids \cup y.ids) ELSE Unbounded

Combine(op(_, _), sets) == FoldLeft(op, Head(sets), Tail(sets))

BuildCandidates(s, idx, rows) ==
    LET Leaves(t) == [k \in DOMAIN t |-> LeafCandidates(idx, rows, t[k])]
        terms == s.where.terms
    IN  IF s.where.outer = "or"
        THEN Combine(CandidateUnion,
                     [k \in DOMAIN terms |-> Combine(CandidateIntersection, Leaves(terms[k]))])
        ELSE Combine(CandidateIntersection,
                     [k \in DOMAIN terms |-> Combine(CandidateUnion, Leaves(terms[k]))])

WideBooleanTakes(s, idx, rows) ==
    /\ IsSelect(s) /\ s.order = NoOrder /\ HasWhere(s.where)
    /\ s.where.paren \/ HasOr(s.where)
    /\ BuildCandidates(s, idx, rows).bounded

WideBooleanIds(s, idx, rows) ==
    Matching(s, rows, SortAndDeduplicate(BuildCandidates(s, idx, rows).ids))

\* Left open as above; the estimate wants an index in it, not only keys.
WideBooleanEstimated(s, idx) ==
    ~Windowed(s) /\ \E p \in PredicatesOf(s.where) : UsesIndex(idx, p)

(* An AND list with an index for one of its columns: the first such.       *)
WideIndexTakes(s, idx) ==
    /\ IsSelect(s) /\ s.order = NoOrder /\ AndList(s.where)
    /\ \E k \in DOMAIN Preds(s) : UsesIndex(idx, Preds(s)[k])

WideIndexIds(s, idx, rows) ==
    LET c == Preds(s)[SelectInSeq(Preds(s), LAMBDA p : UsesIndex(idx, p))].col
    IN  Matching(s, rows, CollectConjunctiveCandidates(rows, c, ColumnPredicates(Preds(s), c)))

(* Parenthesised expressions are scanned, and so are ORs.                  *)
WideGroupedSelectTakes(s) == IsSelect(s) /\ s.order = NoOrder /\ s.where.paren
WideGroupedUpdateTakes(s) == s.verb = "update" /\ s.where.paren
WideGroupedDeleteTakes(s) == s.verb = "delete" /\ s.where.paren
WideGroupedIds(s, rows) == Matching(s, rows, Scan(rows))

WideOrSelectTakes(s) == IsSelect(s) /\ s.order = NoOrder /\ FlatOr(s.where)
WideOrUpdateTakes(s) == s.verb = "update" /\ FlatOr(s.where)
WideOrDeleteTakes(s) == s.verb = "delete" /\ FlatOr(s.where)
WideOrIds(s, rows) == Matching(s, rows, Scan(rows))

(* AND lists are narrowed to a range of keys.  The next key of MaxId and   *)
(* the one before 0 do not exist: such a predicate matches no row.         *)
LowestKey(p) ==
    CASE p.op \in {"=", ">="} -> p.val
      [] p.op = ">" /\ p.val # MaxId -> p.val + 1
      [] OTHER -> 0

HighestKey(p) ==
    CASE p.op \in {"=", "<="} -> p.val
      [] p.op = "<" /\ p.val # 0 -> p.val - 1
      [] OTHER -> MaxId

EmptyKeyRange(p) == (p.op = ">" /\ p.val = MaxId) \/ (p.op = "<" /\ p.val = 0)

KeyRangeIds(s, rows) ==
    LET keys == {p \in ToSet(Preds(s)) : p.col = "id" /\ Ordered(p)}
        lo == Max({0} \cup {LowestKey(p) : p \in keys})
        hi == Min({MaxId} \cup {HighestKey(p) : p \in keys})
    IN  IF \E p \in keys : EmptyKeyRange(p) THEN <<>> ELSE ScanRange(rows, lo, hi)

NeedsWideRange(s) == Len(Preds(s)) > 1 \/ Preds(s)[1].op # "="

WideRangeUpdateTakes(s) == s.verb = "update" /\ AndList(s.where) /\ NeedsWideRange(s)
WideRangeDeleteTakes(s) == s.verb = "delete" /\ AndList(s.where) /\ NeedsWideRange(s)
WideCompoundTakes(s) ==
    IsSelect(s) /\ s.order = NoOrder /\ AndList(s.where) /\ Len(Preds(s)) > 1
WideRangeIds(s, rows) == Matching(s, rows, KeyRangeIds(s, rows))

WideSingleRangeTakes(s) ==
    Single(s) /\ s.order = NoOrder /\ Preds(s)[1].op \notin {"=", "like"}

\* The route for one predicate has its own copy of the key range.
PayloadPrimaryRange(p) ==
    IF EmptyKeyRange(p) THEN [empty |-> TRUE, lo |-> 0, hi |-> 0]
    ELSE [empty |-> FALSE, lo |-> LowestKey(p), hi |-> HighestKey(p)]

WideSingleRangeIds(s, rows) ==
    LET p == Preds(s)[1]
        r == PayloadPrimaryRange(p)
    IN  IF p.col # "id" THEN Matching(s, rows, Scan(rows))
        ELSE IF r.empty THEN <<>>
        ELSE Matching(s, rows, ScanRange(rows, r.lo, r.hi))

(* What is left: an equality or no WHERE at all.                           *)
WideBaseTakes(s) ==
    ~HasWhere(s.where) \/ (AndList(s.where) /\ Len(Preds(s)) = 1 /\ Preds(s)[1].op = "=")

WideBaseIds(s, rows) ==
    IF HasWhere(s.where) /\ Preds(s)[1].col = "id"
    THEN Matching(s, rows, ScanRange(rows, Preds(s)[1].val, Preds(s)[1].val))
    ELSE Matching(s, rows, Scan(rows))

\* The last parser knows no LIKE: a SELECT with only that is a syntax error.
WideRefuses(s) == Single(s) /\ s.order = NoOrder /\ Preds(s)[1].op = "like"
=============================================================================
