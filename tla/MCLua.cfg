SPECIFICATION Spec
CONSTANTS
    MaxRecursion = 200
    MaxRecursionDepth = 500
    Byte = 16
    IntBits = 6
    FieldsPerFlush = 2
    JumpLimit = 100
    StringTokens <- MCStringTokens
    StringLibrary <- MCStringLibrary
    Chunks <- MCChunks
INVARIANTS
    TablesWellFormed
    OpenUpvaluesSorted
    NoBytecodeError
    FramesOnStack
PROPERTIES
    ResultIsReference
    AcceptsWellFormed
    Terminates
CHECK_DEADLOCK FALSE
