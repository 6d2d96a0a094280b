SPECIFICATION FairSpec
CONSTANTS
    t1 = t1
    t2 = t2
    d1 = d1
    d2 = d2
    d3 = d3
    NoDataSet = NoDataSet
    Threads <- MCThreads
    DataSets <- MCDataSets
    First = d1
    Components <- MCComponents
    Calls <- AllCalls
    MaxLost = 1
INVARIANTS
    CountsAreTrue
    MemoryIsHeld
    CapacityIsOwn
PROPERTIES
    ReplacedGoes
    ImplementsSharedData
\* The engine is destroyed, and then all calls may be over.
CHECK_DEADLOCK FALSE
