SPECIFICATION Spec
CONSTANTS
    Workers = {w1}
    Clients = {c1, c2}
    NoThread = NoThread
    Attempts = {a1}
    FlowOf <- OneFlow
    Auths = {1, 2}
    QueueCapacity = 1
    MaxRetained = 2
    HasStore = TRUE
    Calls <- RestartCalls
    MaxSlots = 2
    MaxEpoch = 2
    MaxRestarts = 1
    MaxRefusals = 1
SYMMETRY Symmetry
CHECK_DEADLOCK FALSE
INVARIANTS DeclinedLeavesNoRecord CommittedIsDurable JournalAgreesWithPlacements
PROPERTIES CommitsAreFenced
