SPECIFICATION Spec
CONSTANTS
    Workers = {w1}
    Clients = {c1, c2, c3}
    NoThread = NoThread
    Attempts = {a1, a2}
    FlowOf <- OneFlow
    Auths = {1}
    QueueCapacity = 1
    MaxRetained = 2
    HasStore = TRUE
    Calls <- TeardownCalls
    MaxSlots = 2
    MaxEpoch = 1
    MaxRestarts = 0
    MaxRefusals = 0
SYMMETRY Symmetry
CHECK_DEADLOCK FALSE
INVARIANTS TypeOK DeclinedLeavesNoRecord StoppedIsQuiet JournalAgreesWithPlacements
PROPERTIES OutcomesAreFinal StartIsJournalledFirst
