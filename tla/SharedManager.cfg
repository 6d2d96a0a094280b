SPECIFICATION FairSpec
CONSTANTS
    Threads = 2
    Sizes <- MCSizes
    Configs = 2
    MaxBuilt = 3
INVARIANTS
    PointersAreCurrent
    EachRecordOnce
PROPERTIES
    ProgramEnds
\* The programs end.
CHECK_DEADLOCK FALSE
