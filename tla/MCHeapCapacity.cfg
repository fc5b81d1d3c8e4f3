SPECIFICATION HeapSpec
CONSTANTS
    o1 = o1
    o2 = o2
    o3 = o3
    o4 = o4
    o5 = o5
    Capacity = 4
    ObjOverhead = 16
    GcThreshold = 32
    NoObject = NoObject
    Object <- ObjectsValue
    Preloads <- PreloadsValue
INVARIANT WithinCapacity
