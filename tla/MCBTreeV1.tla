----------------------------- MODULE MCBTreeV1 -----------------------------
(* Four keys make a users tree of up to three leaves under one root; three  *)
(* keys make the other tree split, and both compete for the same free-page  *)
(* stack.                                                                   *)
EXTENDS BTreeInv

MCKeyOf == (Users :> 1 .. 4) @@ (Other :> 1 .. 3)
MCStaleKeyOf == (Users :> 1 .. 6) @@ (Other :> {1})

\* A misrouted tree is explored while users is the only table, and, when it
\* has all its keys, while its rows are deleted beside an empty one.
OneMisrouted ==
    \/ misrouted = {} \/ OnlyUsers
    \/ rows[Other] = {} /\ (rows[Users] = KeyOf[Users] \/ running = "statements")

=============================================================================
