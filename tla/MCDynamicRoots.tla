--------------------------- MODULE MCDynamicRoots ---------------------------
(* Model-checking instance of DynamicRoots.                                *)
EXTENDS DynamicRoots, TLC

Symmetry == Permutations(Handle)
=============================================================================
