SPECIFICATION FairSpec
CONSTANTS
    MaxReviewRetries = 2
    MaxPlanRetries = 1
    MaxUserRejectionRounds = 1
    Coverages <- MCCoverages
    NoCoverage = NoCoverage
    NoOutcome = NoOutcome
    HasDeadline = TRUE
    HonestClaims = FALSE
INVARIANTS
    NoStaleRejection
    ShippedWasTested
    ShippedWasAccepted
PROPERTIES
    CycleEnds
CHECK_DEADLOCK FALSE
