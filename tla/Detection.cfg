SPECIFICATION FairSpec
CONSTANTS
    Prime = 5
    Modulus = 64
    MaxSize = 3
    Tolerances = {0, 1}
    UserAgents <- MCUserAgents
    Configs <- MCConfigs
    Graphs <- MCGraphs
INVARIANTS
    HashIsOfSubstring
    MatchIsFound
    ExactMatchIsPreferred
    DriftIsReported
    WalksAreApart
PROPERTIES
    DetectionEnds
\* A detection ends, and then there is nothing left to do.
CHECK_DEADLOCK FALSE
