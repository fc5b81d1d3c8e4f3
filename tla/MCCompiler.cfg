SPECIFICATION Spec
CHECK_DEADLOCK FALSE
CONSTANTS
    Sources <- MCSources
    Natives <- NativeNames
INVARIANTS
    CompilerTypeOK
    CallsPrepared
    SamplesCompile
    FlowFollowsSource
    ValuesFollowSource
    LostOnlyBeforeElse
