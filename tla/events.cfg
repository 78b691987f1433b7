SPECIFICATION FairSpec
CONSTANTS
    s1 = s1
    c1 = c1
    Streams <- MCStreams
    Calls <- MCCalls
    MaxRun = 2
    OldEvents = 2
    Page = 2
    QueueMax = 2
    MaxConnects = 2
INVARIANTS
    OnceEach
    NoGapNoDuplicate
PROPERTIES
    StreamEnds
CHECK_DEADLOCK FALSE
