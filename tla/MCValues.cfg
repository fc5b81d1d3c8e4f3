SPECIFICATION Spec
CONSTANTS
    list = list
    other = other
    text = text
    NoObject = NoObject
    Object <- MCObject
    IntBits = 4
    MaxHops = 3
    MaxDouble = 4
    MaxItems = 3
    MaxFraction = 8
INVARIANTS
    IntsComputeLikeC
    NumbersAreOrdered
    EqualityIsByItems
PROPERTIES
    FrozenKeepsItems
    PushKeepsReferences
CHECK_DEADLOCK FALSE
