------------------------------ MODULE MCPager ------------------------------
(* Bounded instances of Pager for TLC. *)
EXTENDS PagerInv, TLC

Symmetry == Permutations(Datum)
=============================================================================
