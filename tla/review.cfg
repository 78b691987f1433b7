SPECIFICATION FairSpec
CONSTANTS
    f1 = f1
    f2 = f2
    MaxParks = 3
    Files <- MCFiles
    MaxRounds = 1
    HardStops = TRUE
    Crashes = TRUE
INVARIANTS
    OpenMeansAwaited
    ShippedAsAnswered
PROPERTIES
    OutcomeStands
    ParkEnds
CHECK_DEADLOCK FALSE
