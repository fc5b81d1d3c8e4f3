SPECIFICATION FairSpec
CONSTANTS
    o1 = o1
    o2 = o2
    o3 = o3
    o4 = o4
    o5 = o5
    o6 = o6
    o7 = o7
    o8 = o8
    o9 = o9
    Object <- MCObject
    NoObject = NoObject
    Preloads <- MCPreloads
    Capacity = 9
    ObjOverhead = 16
    GcThreshold = 128
    Registers = 24
    MaxFrames = 6
    Programs <- MCPrograms
    Literals <- MCLiterals
    Arguments <- MCArguments
    IntBits = 8
    MaxHops = 3
    MaxDouble = 1000
    Ints <- MCInts
    Floats <- MCFloats
    Lines <- MCLines
INVARIANTS
    EngineTypeOK
    HeapInStep
    ProgramsAnswer
    StaysInFrame
PROPERTIES
    ImplementsActivations
    OnlyCollectionDangles
    FrozenSizeFixed
    Halts
