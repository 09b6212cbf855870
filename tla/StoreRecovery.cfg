SPECIFICATION Spec
CONSTANTS
    Attempts = {a1, a2}
    Flows = {f1}
    FlowOf <- OneFlow
    NoPlacement = NoPlacement
    MaxJournalRecords = 2
    MaxTotalRecords = 6
    MaxPlacements = 3
    MaxMishaps = 3
SYMMETRY Symmetry
CHECK_DEADLOCK FALSE
INVARIANTS TypeOK AcknowledgedSurvives NumbersNeverReused CrashNeverDamages UnfinishedNeverPlaced RecoveryOnlyForgets JournalIsBounded
