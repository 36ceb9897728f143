CONSTANTS
    Obj = {o1, o2}
    MaxStrong = 1
    MaxWeak = 1
SPECIFICATION Spec
SYMMETRY Symmetry
INVARIANTS
    TypeOK
    ReachableIsLive
    WeakTargetsAllocated
    ReachableUpgrades
    MarkedIsComplete
    GrayBoxesQueuedOnce
    IInv
PROPERTIES
    MarkedSurvives
