---------------------------- MODULE MCFinalizers ----------------------------
(* Model-checking instances of Finalizers.                                 *)
EXTENDS Finalizers, TLC

Symmetry == Permutations(Thread) \cup Permutations(Closure) \cup Permutations(UpValue)
=============================================================================
