SPECIFICATION Spec
CHECK_DEADLOCK FALSE
CONSTANTS
    Paths <- MCPaths
    Main <- MCMain
    Letters <- MCLetters
    Digits <- MCDigits
    FileSets <- MCFileSets
INVARIANTS
    FrontendTypeOK
    EachPathOnce
    TextAtHand
    AllImportsParsed
    SamplesParse
    NothingLost
    ExpressionsGroup
    AcceptedIsLowerable
    AssignsOnlyVariables
PROPERTY
    FrontendEnds
