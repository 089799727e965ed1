SPECIFICATION VMSpec
CONSTANTS
    Page = {p1, p2, p3}
    Limits = {2, 3}
    Policies = {"FIFO", "CLRU", "RANDOM"}
    Value = {0, 1}
    Zero = 0
    NoAccess = NoAccess
    ShortWrites = FALSE
    MaxTicks = 1
PROPERTIES ImplementsMemory AccessCompletes
CHECK_DEADLOCK FALSE
