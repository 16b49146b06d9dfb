---------------------------- MODULE GenericLoads ----------------------------
(***************************************************************************)
(* Statements and tables for a run of GenericSql with keys 0 to 3, 3 the   *)
(* largest u32, and two values per column.  Queries are asked of tables    *)
(* that hold none to all of the keys, with neither, one or both columns    *)
(* indexed; updates, deletes and inserts run in sequences of three.        *)
(***************************************************************************)
EXTENDS GenericRoutes

P(c, o, v) == [col |-> c, op |-> o, val |-> v]

Keys == {P("id", "=", 1), P("id", ">", 3), P("id", ">", 0), P("id", "<", 0), P("id", "<", 2),
         P("id", ">=", 2), P("id", "<=", 1)}
Columns == {P("a", "=", 1), P("a", "<", 1), P("a", ">=", 1), P("a", "like", 2),
            P("b", "=", 0), P("b", ">", 0), P("b", "<=", 0)}
Some == {P("id", "=", 1), P("id", ">", 0), P("a", "=", 1), P("a", ">=", 1),
         P("a", "like", 1), P("b", "=", 0), P("b", "<", 1)}
Few == {P("id", "=", 2), P("a", "=", 0), P("a", "like", 2), P("b", ">=", 1)}

W(paren, outer, terms) == [paren |-> paren, outer |-> outer, terms |-> terms]
AndOf(t) == W(FALSE, "or", <<t>>)

Pairs(S) == {<<p, q>> : p \in S, q \in S}

Singles == {AndOf(<<p>>) : p \in Keys \cup Columns}
Ands == {AndOf(t) : t \in Pairs(Some)}
Threes == {AndOf(<<P("a", "=", 1), P("b", "=", 0), p>>) : p \in Some}
Ors == {W(FALSE, "or", <<<<t[1]>>, <<t[2]>>>>) : t \in Pairs(Some)}
       \cup {W(FALSE, "or", <<t, <<p>>>>) : t \in Pairs(Few), p \in Few}
Groups == {W(TRUE, "and", <<t, <<p>>>>) : t \in Pairs(Few), p \in Few}
          \cup {W(TRUE, "or", <<t, <<p>>>>) : t \in Pairs(Few), p \in {P("a", "=", 1), P("b", "=", 0)}}

Select(w) ==
    [verb |-> "select", where |-> w, count |-> FALSE, limit |-> NoLimit, offset |-> 0,
     order |-> NoOrder]

Plain == {Select(w) : w \in {NoWhere} \cup Singles \cup Ands \cup Threes \cup Ors \cup Groups}

\* A window or a COUNT over one statement of each shape.
Shapes ==
    {NoWhere, AndOf(<<P("id", ">", 0)>>), AndOf(<<P("id", "<=", 2)>>), AndOf(<<P("a", "=", 1)>>),
     AndOf(<<P("a", "<=", 1)>>),
     AndOf(<<P("a", ">=", 0), P("b", "=", 0)>>), AndOf(<<P("id", ">", 0), P("b", ">=", 0)>>),
     W(FALSE, "or", <<<<P("a", "=", 1)>>, <<P("b", "=", 0)>>>>),
     W(FALSE, "or", <<<<P("a", "like", 2)>>, <<P("b", "=", 0)>>>>),
     W(TRUE, "and", <<<<P("a", "=", 1), P("b", "=", 1)>>, <<P("id", ">", 0)>>>>)}

Windows ==
    {[Select(w) EXCEPT !.limit = l, !.offset = o] :
        w \in Shapes, l \in {NoLimit, 0, 1, 2}, o \in {0, 1, 2}}

Counts == {[s EXCEPT !.count = TRUE] : s \in {t \in Windows : t.limit # 2}}

Orders ==
    {[s EXCEPT !.order = [col |-> c, desc |-> d]] :
        s \in {t \in Windows : t.limit # 0 /\ (t.where = NoWhere \/ t.where.paren)},
        c \in {"id", "a"}, d \in BOOLEAN}

Queries == Plain \cup Windows \cup Counts

Mutations ==
    LET Wheres == {AndOf(<<P("id", "=", 1)>>), AndOf(<<P("a", "=", 1)>>), AndOf(<<P("id", ">", 0)>>),
                   AndOf(<<P("id", "<=", 2), P("b", "=", 0)>>),
                   W(FALSE, "or", <<<<P("a", "=", 1)>>, <<P("b", "=", 0)>>>>),
                   W(TRUE, "and", <<<<P("a", "=", 1), P("b", "=", 1)>>, <<P("id", ">", 0)>>>>)}
        Update(w) == [verb |-> "update", where |-> w, set |-> [a |-> 1, b |-> 1]]
        UpdateOne(w) == [verb |-> "update", where |-> w, set |-> [a |-> 0]]
        Delete(w) == [verb |-> "delete", where |-> w]
    IN  {Update(w) : w \in Wheres} \cup {UpdateOne(w) : w \in Wheres}
        \cup {Delete(w) : w \in Wheres \cup {NoWhere}}
        \cup {[verb |-> "insert", id |-> i, row |-> [a |-> 1, b |-> 0, there |-> TRUE]] : i \in {1, 3}}

R(a, b) == [a |-> a, b |-> b, there |-> TRUE]

Tables ==
    {<<NoRow, x, y, z>> : x \in {NoRow, R(1, 0)}, y \in {NoRow, R(0, 1), R(1, 1)},
                          z \in {NoRow, R(1, 0), R(0, 0)}}
    \cup {<<R(0, 0), x, R(1, 0), z>> : x \in {R(1, 1), R(0, 0)}, z \in {NoRow, R(0, 1), R(1, 0)}}

FewTables ==
    {<<NoRow, R(1, 0), NoRow, NoRow>>, <<NoRow, R(0, 1), NoRow, R(1, 1)>>,
     <<R(0, 0), R(1, 1), R(1, 0), NoRow>>}

ById(t) == [i \in Id |-> t[i + 1]]

QueryLoads ==
    {[rows |-> ById(t), indexed |-> c, wide |-> w, steps |-> 1,
      use |-> IF w THEN "wide queries" ELSE "queries"] :
        t \in Tables, c \in SUBSET KeyedColumn, w \in BOOLEAN}

MutationLoads ==
    {[rows |-> ById(t), indexed |-> {}, wide |-> w, steps |-> 3, use |-> "changes"] :
        t \in FewTables, w \in BOOLEAN}

MCLoads == QueryLoads \cup MutationLoads
MCUse ==
    ("queries" :> Queries) @@ ("wide queries" :> (Queries \cup Orders)) @@ ("changes" :> Mutations)
=============================================================================
