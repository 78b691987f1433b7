SPECIFICATION FairSpec
CONSTANTS
    q1 = q1
    Questions <- MCQuestions
    MaxRounds = 1
    MaxAsks = 1
    HardStops = TRUE
    MaxCrashes = 1
INVARIANTS
    ConfirmedIsCurrent
    CompletedHasPlan
PROPERTIES
    NothingForgotten
    EndsStayEnded
    BodiesSettle
CHECK_DEADLOCK FALSE
