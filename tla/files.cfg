SPECIFICATION FairSpec
CONSTANTS
    s1 = s1
    s2 = s2
    Absent = Absent
    Sessions <- MCSessions
    Elders <- MCElders
    Cap = 1
    MaxTalk = 1
    MaxBreaks = 1
INVARIANTS
    LiveKeepsCheckout
    RowsMatchDisk
PROPERTIES
    WritesKeepWrites
    PrepSettles
CHECK_DEADLOCK FALSE
