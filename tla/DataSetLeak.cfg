SPECIFICATION FairSpec
CONSTANTS
    t1 = t1
    t2 = t2
    d1 = d1
    d2 = d2
    d3 = d3
    NoDataSet = NoDataSet
    Threads <- MCThreads
    DataSets <- MCDataSets
    First = d1
    Components <- MCComponents
    Calls <- ProcessAndRefresh
    MaxLost = 2
PROPERTIES
    ReplacedIsFreed
\* The engine is destroyed, and then all calls may be over.
CHECK_DEADLOCK FALSE
