SPECIFICATION Spec
CONSTANTS
    Workers = {w1}
    Clients = {c1, c2, c3}
    NoThread = NoThread
    Attempts = {a1}
    FlowOf <- OneFlow
    Auths = {1}
    QueueCapacity = 1
    MaxRetained = 1
    HasStore = TRUE
    Calls <- CommitRaceCalls
    MaxSlots = 1
    MaxEpoch = 1
    MaxRestarts = 0
    MaxRefusals = 0
CHECK_DEADLOCK FALSE
INVARIANTS FailedLeavesNoRecord
