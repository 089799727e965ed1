SPECIFICATION FibSpec
CONSTANTS
    Thread = {p1, p2, c1}
    Producers = {p1, p2}
    Consumers = {c1}
    NoThread = NoThread
    UseTimer = TRUE
    Calls = {}
    Semaphores <- MCSemaphores
    InitialValue <- MCInitialValue
    ClientOps <- MCClientOps
    MaxValue = 0
    Length = 2
    Modulus = 3
INVARIANT OneThreadInSection
PROPERTIES ImplementsQueue KeepsConsuming ReadyThreadRuns
CHECK_DEADLOCK FALSE
