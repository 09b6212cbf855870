SPECIFICATION Spec
CONSTANTS
    MaxU64 = 10
    Limits <- MCLimits
    Scenarios <- MCScenarios
    Revised <- MCRevised
    MaxRevisions = 2
CHECK_DEADLOCK FALSE
INVARIANT ReservationOrderNeverMatters
