SPECIFICATION VMSpec
CONSTANTS
    Page = {p1, p2, p3}
    Limits = {2}
    Policies = {"CLRU"}
    Value = {0, 1}
    Zero = 0
    NoAccess = NoAccess
    ShortWrites = TRUE
    MaxTicks = 1
PROPERTY DirtyPagesReachSwap
CHECK_DEADLOCK FALSE
