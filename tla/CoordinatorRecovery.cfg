SPECIFICATION Spec
CONSTANTS
    Workers = {w1}
    Clients = {c1, c2}
    NoThread = NoThread
    Attempts = {a1, a2}
    FlowOf <- OneFlow
    Auths = {1}
    QueueCapacity = 2
    MaxRetained = 1
    HasStore = TRUE
    Calls <- RecoveryCalls
    MaxSlots = 4
    MaxEpoch = 1
    MaxRestarts = 1
    MaxRefusals = 0
SYMMETRY Symmetry
CHECK_DEADLOCK FALSE
INVARIANTS AtMostOnePlacement CommittedIsDurable
PROPERTIES OutcomesAreFinal ImplementsLedger
