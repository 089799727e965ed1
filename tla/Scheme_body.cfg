SPECIFICATION SchemeSpec
CONSTANTS
    NumberOf <- Numbers0to3
    Strings = {"s", "t", "u"}
    File <- Files
    LibraryAnswer = 1
    Line <- Lines
    MaxTurns = 3
INVARIANT ChildEnvironmentSurvives
CHECK_DEADLOCK FALSE
