----------------------------- MODULE MCExecutor -----------------------------
(* Model-checking instances of Executor.                                   *)
EXTENDS Executor, TLC

Symmetry == Permutations(Thread) \cup Permutations(Executor)
=============================================================================
