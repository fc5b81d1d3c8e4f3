SPECIFICATION Spec
CHECK_DEADLOCK FALSE
CONSTANTS
    Sources <- NestedElse
    Natives <- NativeNames
INVARIANT JumpsPatched
