CONSTANTS
    Thread = {t1, t2}
    Executor = {e1}
    MaxHandle = 0
    MaxFrames = 2
    MaxThreads = 2
    None = None
SPECIFICATION QuotaSpec
PROPERTIES
    QuotaIsChecked
CHECK_DEADLOCK FALSE
