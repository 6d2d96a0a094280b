SPECIFICATION FairSpec
CONSTANTS
    MaxHash = 5
    MaxList = 5
    MaxMalformed = 3
    Nodes <- MCNodes
    Hashes <- MCHashes
INVARIANTS
    SearchIsSound
PROPERTIES
    LoopsProgress
    ImplementsNodeMap
\* A call returns, and then there is nothing left to do.
CHECK_DEADLOCK FALSE
