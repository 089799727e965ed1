SPECIFICATION Spec
CONSTANTS
    Key = {1, 2, 3}
    Value = {10, 20}
    MaxPairs = 5
    Elem = {e1, e2}
    NULL = NULL
    NullElem = NullElem
    FirstCapacity = 1
    MaxSize = 6
    Types = {0, 101, 102}
    MaxFrames = 3
    Thread = {t1, t2, t3, t4}
    Float = {1, 2, 3}
    MaxValues = 7
    Width = 5
    SignBit = 4
    MaxExecuteTime = 100
    Account = {n1, n2, n3}
    Branch = {b1, b2}
    Balance = {0, 100, 101}
    MaxChanges = 3
    Number = {1, 2, 3}
    MaxLength = 6
    Weight = {1, 5}
    INFINITY = 40
    Nodes = 3
    MaxCount = 3
    Employees = 5
    Dates = {0, 1, 3, 7}
    MemorySizes = {14, 32, 45, 77}
    MaxUsed = 8
    MaxAllocated = 10
INVARIANTS MapFindsItsPairs MultimapsAgree VectorKeepsElements AllocatorKeepsBlocks HandledInnermost ThreadsKeepTheirPlaces HandsOutLeast ProgramsCompute StatsMatchView
PROPERTY AllocatorImplementsPool
CHECK_DEADLOCK FALSE
