SPECIFICATION Spec
CONSTANTS
    MaxU64 = 10
    Limits <- MCLimits
    Scenarios <- MCScenarios
    Revised <- MCRevised
    MaxRevisions = 3
CHECK_DEADLOCK FALSE
INVARIANTS TypeOK PlacedIsBestLawful SelfVerificationNeverRejects OrderNeverMatters UntrustedEvidenceIsInert MovesPayOff BlameIsCounterfactual DecisionIsStable
