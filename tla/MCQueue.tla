------------------------------ MODULE MCQueue -------------------------------
(***************************************************************************)
(* Model checking Queue: the items are interchangeable, so safety runs may *)
(* use them as a symmetry set.                                             *)
(***************************************************************************)
EXTENDS Queue, TLC

ItemSymmetry == Permutations(Items)

=============================================================================
