---------------------------- MODULE InitDataSetMC ----------------------------
(* Every call of InitDataSet: from file and from memory, by a constructor of *)
(* EngineHash, to measure the memory, or through the C API.                  *)
EXTENDS InitDataSet

MCCalls ==
    {c \in [source : {"file", "memory"}, usesGraph : BOOLEAN, allInMemory : BOOLEAN,
            freeData : BOOLEAN, engine : BOOLEAN, size : BOOLEAN] :
        IsCall(c)}
=============================================================================
