------------------------- MODULE MCKAddressArbiter --------------------------
(***************************************************************************)
(* The address arbiter with interchangeable threads.                       *)
(***************************************************************************)
EXTENDS KAddressArbiter, TLC

Symmetry == Permutations(Threads)
=============================================================================
