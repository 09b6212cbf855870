SPECIFICATION LiveSpec
CONSTANTS
    Workers = {w1}
    Clients = {c1, c2}
    NoThread = NoThread
    Attempts = {a1, a2}
    FlowOf <- OneFlow
    Auths = {1}
    QueueCapacity = 2
    MaxRetained = 2
    HasStore = TRUE
    Calls <- ProgressCalls
    MaxSlots = 2
    MaxEpoch = 1
    MaxRestarts = 0
    MaxRefusals = 0
CHECK_DEADLOCK FALSE
INVARIANTS NoLostWakeup
PROPERTIES QueuedWorkFinishes DrainReturns ShutdownReturns
