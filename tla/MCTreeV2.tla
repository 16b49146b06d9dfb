------------------------------ MODULE MCTreeV2 ------------------------------
(* Even keys are loaded, odd ones are left for the statements that follow.  *)
(* Ascending loads leave one row in every leaf but the last, descending     *)
(* ones in every leaf but the first: nine rows make eight leaves in four    *)
(* levels, nineteen make eighteen leaves in five.  Key 0 is one of those    *)
(* the statements name.                                                     *)
EXTENDS TreeV2

Ascending2(n) == [i \in 1 .. n |-> 2 * i]
Descending2(n) == [i \in 1 .. n |-> 2 * (n + 1 - i)]

After(keys) ==
    [keys |-> keys, steps |-> 3, use |-> 0 .. 2 * Len(keys) + 1]

MCLoads ==
    {[keys |-> <<>>, steps |-> 8, use |-> 0 .. 4]}
    \cup {After(Ascending2(n)) : n \in {5, 9, 12, 19}}
    \cup {After(Descending2(n)) : n \in {6, 8, 10, 19}}

MCKey == 0 .. 39
=============================================================================
