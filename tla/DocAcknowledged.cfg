SPECIFICATION Spec
CONSTANTS
    Attempts = {a1, a2}
    Flows = {f1}
    FlowOf <- OneFlow
    NoPlacement = NoPlacement
    MaxJournalRecords = 0
    MaxTotalRecords = 6
    MaxPlacements = 3
    MaxMishaps = 1
SYMMETRY Symmetry
CHECK_DEADLOCK FALSE
INVARIANTS AcknowledgedSurvivesFaults
