SPECIFICATION FairSpec
CONSTANTS
    r1 = r1
    r2 = r2
    r3 = r3
    Free = Free
    Runs <- MCRuns
    Torn <- MCTorn
INVARIANTS
    OneAtATime
    StoppedNeverStarts
PROPERTIES
    EveryRunLeaves
    ArmedStopEnds
    TeardownAlwaysRuns
    ImplementsQueue
CHECK_DEADLOCK FALSE
