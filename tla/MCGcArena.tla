----------------------------- MODULE MCGcArena -----------------------------
(* Model-checking instances of GcArena.                                    *)
EXTENDS GcArena, TLC

Symmetry == Permutations(Obj)

\* Bound of the liveness instance: a value holds one pointer of either kind,
\* and one weak pointer is stored at a time.
FewPointers ==
    /\ \A o \in Obj : Cardinality(strong[o]) + Cardinality(weak[o]) <= 1
    /\ Cardinality({o \in Obj : weak[o] # {}}) + Cardinality(rootWeak) <= 1
    /\ Cardinality(heldWeak) <= 1
=============================================================================
