SPECIFICATION ClockSpec
CONSTANTS
    Page = {p1, p2, p3, p4}
    Limits = {2, 3}
    Policies = {"FIFO", "CLRU", "RANDOM"}
    Value = {0, 1}
    Zero = 0
    NoAccess = NoAccess
    ShortWrites = FALSE
    MaxTicks = 2
SYMMETRY PageSymmetry
INVARIANTS TableMirrorsKernel CleanPagesAreSaved PolicyTracksResident FaultsBounded NoAbort
PROPERTY EvictsIdleFirst
CHECK_DEADLOCK FALSE
