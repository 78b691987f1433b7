SPECIFICATION LanesSpec
CONSTANTS
    r1 = r1
    r2 = r2
    Free = Free
    Runs <- MCRuns
    Torn <- MCOnlyRuns
INVARIANTS
    OneLaneUp
    NoLaneLeftLoaded
CHECK_DEADLOCK FALSE
