SPECIFICATION FibSpec
CONSTANTS
    Thread = {p1, c1, c2}
    Producers = {p1}
    Consumers = {c1, c2}
    NoThread = NoThread
    UseTimer = TRUE
    Calls = {}
    Semaphores <- MCSemaphores
    InitialValue <- MCInitialValue
    ClientOps <- MCClientOps
    MaxValue = 0
    Length = 2
    Modulus = 3
PROPERTY ImplementsQueue
CHECK_DEADLOCK FALSE
