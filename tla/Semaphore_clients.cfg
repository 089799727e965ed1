SPECIFICATION SemSpec
CONSTANTS
    Thread = {t1, t2, t3}
    NoThread = NoThread
    UseTimer = TRUE
    Calls = {"yield", "return"}
    mutex = mutex
    items = items
    Semaphores = {mutex, items}
    InitialValue <- MCInitialValue
    ClientOps = {}
    MaxValue = 2
SYMMETRY ThreadSymmetry
INVARIANTS SemTypeOK OperationsAreAtomic QueuesMatchStates ExitsAreTruthful WaitersAreBlocked NoLostWakeup DeadlockedOnZero
CHECK_DEADLOCK FALSE
