---------------------------- MODULE MCBufferPool ----------------------------
(* Bounded instances of BufferPool for TLC. *)
EXTENDS BufferPool, TLC

Symmetry == Permutations(Thread)

\* A behaviour is followed up to the step that takes a pin or a lock from its
\* owner, that step included.
Unstolen == ~stolen
=============================================================================
