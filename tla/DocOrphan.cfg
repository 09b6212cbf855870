SPECIFICATION Spec
CONSTANTS
    Attempts = {a1, a2}
    Flows = {f1}
    FlowOf <- OneFlow
    NoPlacement = NoPlacement
    MaxJournalRecords = 5
    MaxTotalRecords = 6
    MaxPlacements = 3
    MaxMishaps = 0
SYMMETRY Symmetry
CHECK_DEADLOCK FALSE
INVARIANTS CompactionLeavesNoOrphan
