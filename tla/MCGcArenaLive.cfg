CONSTANTS
    Obj = {o1, o2}
    MaxStrong = 1
    MaxWeak = 1
SPECIFICATION FairSpec
CONSTRAINT FewPointers
PROPERTIES
    CollectionReturns
    GarbageIsDropped
    EmptyBoxesAreFreed
