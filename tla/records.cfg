SPECIFICATION FairSpec
CONSTANTS
    N = 2
    MaxCrashes = 1
INVARIANTS
    RowsAgree
    ConsoleIsHonest
PROPERTIES
    OutcomesStand
    OutcomeIsTold
CHECK_DEADLOCK FALSE
