SPECIFICATION SchemeSpec
CONSTANTS
    NumberOf <- Numbers0to3
    Strings = {"s", "t", "u"}
    File <- Files
    LibraryAnswer = 1
    Line <- Lines
    MaxTurns = 3
INVARIANT CollectionIsInvisible
INVARIANT NothingUsedIsFreed
INVARIANT NothingLeaks
CHECK_DEADLOCK FALSE
