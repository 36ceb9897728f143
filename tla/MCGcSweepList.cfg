CONSTANTS
    Obj = {o1, o2, o3, o4}
    None = None
SPECIFICATION Spec
INVARIANTS
    ListIsHeap
    SweepPrevLinked
PROPERTIES
    ImplementsBoxes
CHECK_DEADLOCK FALSE
