CONSTANTS
    Set = {s1, s2}
    Handle = {h1, h2, h3, h4}
    Value = {v1, v2}
    Null = Null
    MaxSlots = 3
SPECIFICATION Spec
SYMMETRY Symmetry
INVARIANTS
    FetchIsRooted
    RefCountExact
    FreeListVacant
    VacantIsReusable
