CONSTANTS
    Thread = {t1, t2}
    Executor = {e1}
    MaxHandle = 1
    MaxFrames = 2
    MaxThreads = 2
    None = None
SPECIFICATION Spec
SYMMETRY Symmetry
INVARIANTS
    ParkedIsReported
