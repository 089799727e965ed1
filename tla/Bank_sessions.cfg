SPECIFICATION FairSpec
CONSTANTS
    Account = {a, b}
    Missing = {x}
    Session = {s1, s2}
    Nobody = Nobody
    Amounts <- MCAmounts
    Opening = 1
    MaxBalance = 1
    SelfTransfers = FALSE
INVARIANT NoOverdraft
PROPERTIES ImplementsBank EveryCallReturns
CHECK_DEADLOCK FALSE
