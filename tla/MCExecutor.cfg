CONSTANTS
    Thread = {t1, t2}
    Executor = {e1, e2}
    MaxHandle = 2
    MaxFrames = 2
    MaxThreads = 2
    None = None
SPECIFICATION Spec
SYMMETRY Symmetry
INVARIANTS
    OnlyParkedPanics
    OneRunner
    StepFindsModes
    FrameShape
    ParkedIsPending
    AnsweredOnce
