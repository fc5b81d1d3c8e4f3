SPECIFICATION FairSpec
CONSTANTS
    o1 = o1
    o2 = o2
    o3 = o3
    Capacity = 3
    ObjOverhead = 16
    GcThreshold = 32
    NoObject = NoObject
    Object <- ObjectsValue
    Preloads <- PreloadsValue
    Registers = 2
    MaxItems = 3
INVARIANTS
    TypeOK
    MarkedAreReachable
    ReachableAreMarked
    HeapStaysSound
PROPERTIES
    CollectionIsTotal
    MarkEnds
CHECK_DEADLOCK FALSE
