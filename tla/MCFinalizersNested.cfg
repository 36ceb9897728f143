CONSTANTS
    Thread = {t1, t2, t3}
    Closure = {c1, c2}
    UpValue = {u1, u2}
    Nil = Nil
SPECIFICATION Spec
SYMMETRY Symmetry
INVARIANTS
    FinalizeResurrectsNothing
