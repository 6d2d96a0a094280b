----------------------------- MODULE InitDataSet -----------------------------
(* How a data set is initialised and put under a manager (hash.c,            *)
(* HashInitManagerFromFile and HashInitManagerFromMemory), stage by stage,   *)
(* and what is freed when a stage fails; then what the constructors of       *)
(* EngineHash free, or the functions that measure how much memory a data set *)
(* takes.  A build without debug assertions, with exceptions.                *)
EXTENDS Naturals, FiniteSets

CONSTANTS
    Calls,          \* what callers ask for
    Components      \* the number of components of the data

(* The stages, each of which leaves a part of the data set that freeDataSet  *)
(* frees when it is there.                                                   *)
Parts == {"collections", "properties", "components", "indices", "headers"}
Allocated == Parts \cup {"dataSet", "memory"}

(* A pointer that was never set counts as freed, too, when it is passed to   *)
(* Free.                                                                     *)
Resources == Allocated \cup {"unset"}

(* engine: called by a constructor of EngineHash, which copies the data and  *)
(* sets freeData.  size: called by HashSizeManagerFromFile or                *)
(* HashSizeManagerFromMemory, which resets freeData.                         *)
IsCall(c) ==
    /\ c.source \in {"file", "memory"}
    /\ c.usesGraph \in BOOLEAN      \* the performance or the predictive graph
    /\ c.allInMemory \in BOOLEAN
    /\ c.freeData \in BOOLEAN
    /\ c.engine \in BOOLEAN
    /\ c.size \in BOOLEAN
    /\ c.engine /\ c.source = "memory" => c.freeData
    /\ c.size => ~ c.engine
    /\ c.size /\ c.source = "memory" => ~ c.freeData

ASSUME CallsAssumption == \A c \in Calls : IsCall(c)
ASSUME ComponentsAssumption == Components \in Nat

VARIABLES
    call,           \* one of Calls
    pc,             \* the stage, or where the result is looked at
    status,         \* the status of the last stage that had one
    exception,      \* an exception is set
    memoryToFree,   \* the data set is to free the memory it lies in
    held,           \* the resources that are allocated
    frees,          \* how many times each was freed
    manager         \* the manager has the data set

vars == <<call, pc, status, exception, memoryToFree, held, frees, manager>>

FromFile == call.source = "file"

Init ==
    /\ call \in Calls
    /\ pc = "begin"
    /\ status = "not set"
    /\ exception = FALSE
    /\ memoryToFree = FALSE
    /\ held = IF FromFile THEN {} ELSE {"memory"}
    /\ frees = [r \in Resources |-> 0]
    /\ manager = FALSE

-----------------------------------------------------------------------------
Free(rs) ==
    /\ held' = held \ rs
    /\ frees' = [r \in Resources |-> frees[r] + (IF r \in rs THEN 1 ELSE 0)]

FreeNothing == UNCHANGED <<held, frees>>

(* freeDataSet: the parts that are there, a piece of a part that could not   *)
(* be finished, the memory, and the data set itself.                         *)
FreeDataSetWith(piece) ==
    Free((held \cap Parts) \cup piece \cup {"dataSet"}
            \cup (IF memoryToFree THEN {"memory"} ELSE {}))
FreeDataSet == FreeDataSetWith({})
FreeUnfinished(s) == \E piece \in {{}, {s}} : FreeDataSetWith(piece)

(* The array of headers of the components is not initialised, and is freed   *)
(* for all of them: behind a component without headers are pointers that     *)
(* were never set.  To free one ends the program, or frees whatever it leads *)
(* to; then freeDataSet goes on.                                             *)
UnsetFreed == frees["unset"] # 0

FreeUnset ==
    \/ /\ Free({"unset"})
       /\ pc' = "crashed"
    \/ \E stray \in SUBSET held :
        LET rs == (held \cap Parts) \cup {"headers", "dataSet", "unset"}
                    \cup (IF memoryToFree THEN {"memory"} ELSE {})
        IN  /\ held' = held \ (rs \cup stray)
            /\ frees' = [r \in Resources |->
                    frees[r] + (IF r \in rs THEN 1 ELSE 0) + (IF r \in stray THEN 1 ELSE 0)]
            /\ pc' = "initialised"

(* The part that stage s leaves, or a piece of it.                           *)
Build(s) ==
    /\ held' = held \cup {s}
    /\ UNCHANGED frees

-----------------------------------------------------------------------------
(* InitManager begins.                                                       *)
RefuseConfig ==
    /\ pc = "begin"
    /\ ~ call.usesGraph
    /\ status' = "failure"
    /\ pc' = "returned"
    /\ UNCHANGED <<call, exception, memoryToFree, held, frees, manager>>

NoMemory ==
    /\ pc = "begin"
    /\ call.usesGraph
    /\ status' = "failure"
    /\ pc' = "returned"
    /\ UNCHANGED <<call, exception, memoryToFree, held, frees, manager>>

(* Mutant: memory that belongs to the caller is recorded as well.            *)
AllocateToFree ==
    /\ pc = "begin"
    /\ call.usesGraph
    /\ Build("dataSet")
    /\ memoryToFree' = ~ FromFile
    /\ pc' = IF FromFile THEN "open" ELSE "collections"
    /\ UNCHANGED <<call, status, exception, manager>>

(* initDataSet: nothing but the configuration is in the data set yet.        *)
Allocate ==
    /\ pc = "begin"
    /\ call.usesGraph
    /\ Build("dataSet")
    /\ memoryToFree' = (~ FromFile /\ call.freeData)
    /\ pc' = IF FromFile THEN "open" ELSE "collections"
    /\ UNCHANGED <<call, status, exception, manager>>

(* DataSetInitFromFile                                                       *)
Open ==
    /\ pc = "open"
    /\ \/ /\ FreeNothing
          /\ pc' = IF call.allInMemory THEN "load" ELSE "collections"
          /\ UNCHANGED status
       \/ /\ FreeDataSet
          /\ status' = "failure"
          /\ pc' = "initialised"
    /\ UNCHANGED <<call, exception, memoryToFree, manager>>

(* DataSetInitInMemory: the file is read into memory of the data set.        *)
Load ==
    /\ pc = "load"
    /\ \/ /\ Build("memory")
          /\ memoryToFree' = TRUE
          /\ pc' = "collections"
          /\ UNCHANGED status
       \/ /\ FreeDataSet
          /\ status' = "failure"
          /\ pc' = "initialised"
          /\ UNCHANGED memoryToFree
    /\ UNCHANGED <<call, exception, manager>>

-----------------------------------------------------------------------------
(* A stage of initDataSet that succeeds.                                     *)
StageOkay(s, next) ==
    /\ pc = s
    /\ Build(s)
    /\ status' = "success"
    /\ pc' = next
    /\ UNCHANGED <<call, exception, memoryToFree, manager>>

(* A stage that fails with a status, an exception or both, having built a    *)
(* piece of its part or nothing of it.                                       *)
StageFails(s) ==
    /\ pc = s
    /\ status' \in {"success", "failure"}
    /\ exception' \in BOOLEAN
    /\ status' = "failure" \/ exception'
    /\ pc' = "initialised"
    /\ UNCHANGED <<call, memoryToFree, manager>>

(* From file the data set is freed.                                          *)
FileStageFails(s) ==
    /\ FromFile
    /\ StageFails(s)
    /\ FreeUnfinished(s)

(* From memory initDataSetFromMemory just returns.                           *)
MemoryStageFails(s) ==
    /\ ~ FromFile
    /\ StageFails(s)
    /\ \/ Build(s)
       \/ FreeNothing

(* The header, the collections and the list of components.                   *)
ReadCollections ==
    \/ StageOkay("collections", "properties")
    \/ FileStageFails("collections")
    \/ MemoryStageFails("collections")

(* From memory of the caller, or that a file was loaded into.                *)
InitWithMemory == (FromFile => call.allInMemory) /\ ReadCollections

(* From a file that stays open, through a pool of readers.                   *)
InitWithFile == FromFile /\ ~ call.allInMemory /\ ReadCollections

(* Required properties, headers and the properties that give evidence, each  *)
(* of which is read from the collections by a callback.                      *)
InitPropertiesAndHeaders ==
    \/ StageOkay("properties", "components")
    \/ FileStageFails("properties")
    \/ MemoryStageFails("properties")

(* initComponentsAvailable.  From file a data set without any available      *)
(* property is refused too; from memory the status is looked at later.       *)
InitComponentsAvailable ==
    \/ StageOkay("components", "indices")
    \/ FileStageFails("components") /\ status' = "failure"
    \/ /\ ~ FromFile
       /\ pc = "components"
       /\ status' = "failure"
       /\ exception' \in BOOLEAN
       /\ Build("components")
       /\ pc' = "indices"
       /\ UNCHANGED <<call, memoryToFree, manager>>

-----------------------------------------------------------------------------
(* initIndicesPropertyProfile, whose own status is not kept.                 *)
InitIndicesPropertyProfile ==
    /\ pc = "indices"
    /\ exception' \in {exception, TRUE}
    /\ IF status = "success" /\ ~ exception'
       THEN Build("indices") /\ pc' = "headers"
       ELSE FreeUnfinished("indices") /\ pc' = "initialised"
    /\ UNCHANGED <<call, status, memoryToFree, manager>>

(* Mutant: the data set is not freed.                                        *)
InitComponentHeadersKeeping ==
    /\ pc = "headers"
    /\ \/ /\ Build("headers")
          /\ pc' = "entropy"
          /\ UNCHANGED exception
       \/ /\ FreeNothing
          /\ exception' = TRUE
          /\ pc' = "initialised"
    /\ UNCHANGED <<call, status, memoryToFree, manager>>

(* initComponentHeaders: a component without headers sets an exception; the  *)
(* status that is returned with it is that of an earlier stage.  The clean-  *)
(* up is sound when there is no array, or only its last pointer is not set.  *)
InitComponentHeaders ==
    /\ pc = "headers"
    /\ \/ /\ Build("headers")
          /\ pc' = "entropy"
          /\ UNCHANGED exception
       \/ /\ FreeUnfinished("headers")
          /\ exception' = TRUE
          /\ pc' = "initialised"
       \/ /\ Components > 1
          /\ FreeUnset
          /\ exception' = TRUE
    /\ UNCHANGED <<call, status, memoryToFree, manager>>

(* initGetHighEntropyValues leaves an exception set and frees its own part.  *)
InitGetHighEntropyValues ==
    /\ pc = "entropy"
    /\ exception' \in BOOLEAN
    /\ pc' = "initialised"
    /\ UNCHANGED <<call, status, memoryToFree, held, frees, manager>>

-----------------------------------------------------------------------------
IsInitialised == status = "success" /\ ~ exception

(* InitManager gives up: from memory it frees the data set itself.           *)
GiveUp ==
    /\ pc = "initialised"
    /\ ~ IsInitialised
    /\ IF FromFile THEN FreeNothing ELSE Free({"dataSet"})
    /\ pc' = "returned"
    /\ UNCHANGED <<call, status, exception, memoryToFree, manager>>

(* Mutant: the exception is not looked at.                                   *)
ManageByStatus ==
    /\ pc = "initialised"
    /\ status = "success"
    /\ manager' = TRUE
    /\ pc' = "returned"
    /\ UNCHANGED <<call, status, exception, memoryToFree, held, frees>>

(* ResourceManagerInit *)
Manage ==
    /\ pc = "initialised"
    /\ IsInitialised
    /\ manager' = TRUE
    /\ pc' = "returned"
    /\ UNCHANGED <<call, status, exception, memoryToFree, held, frees>>

(* There is no memory for the handle of the data set.                        *)
ManageFails ==
    /\ pc = "initialised"
    /\ IsInitialised
    /\ FreeDataSet
    /\ status' = "failure"
    /\ pc' = "returned"
    /\ UNCHANGED <<call, exception, memoryToFree, manager>>

(* A manager that nobody has initialised is whatever was in its place:       *)
(* freeing it ends the program, or does nothing.                             *)
ResourceManagerFree ==
    /\ IF manager
       THEN FreeDataSet /\ pc' = "done"
       ELSE FreeNothing /\ pc' \in {"crashed", "done"}
    /\ manager' = FALSE
    /\ UNCHANGED <<call, status, exception, memoryToFree>>

(* The manager is freed when the status, not the exception, is a success.    *)
HashSizeManagerFromFile ==
    /\ pc = "returned"
    /\ call.size /\ FromFile
    /\ status = "success"
    /\ ResourceManagerFree

(* The manager is freed whatever became of it.                               *)
HashSizeManagerFromMemory ==
    /\ pc = "returned"
    /\ call.size /\ ~ FromFile
    /\ ResourceManagerFree

(* The constructor of EngineHash throws, and frees its copy of the data when *)
(* it is the status that tells of the failure.  A failure to measure a file  *)
(* becomes the exception.  Others just look.                                 *)
Conclude ==
    /\ pc = "returned"
    /\ call.size => FromFile /\ status # "success"
    /\ IF call.engine /\ ~ FromFile /\ status # "success"
       THEN Free({"memory"})
       ELSE FreeNothing
    /\ exception' = (exception \/ call.size)
    /\ pc' = "done"
    /\ UNCHANGED <<call, status, memoryToFree, manager>>

-----------------------------------------------------------------------------
Next ==
    \/ RefuseConfig \/ NoMemory \/ Allocate \/ Open \/ Load
    \/ InitWithMemory \/ InitWithFile \/ InitPropertiesAndHeaders \/ InitComponentsAvailable
    \/ InitIndicesPropertyProfile \/ InitComponentHeaders \/ InitGetHighEntropyValues
    \/ GiveUp \/ Manage \/ ManageFails
    \/ HashSizeManagerFromFile \/ HashSizeManagerFromMemory \/ Conclude

Spec == Init /\ [][Next]_vars

-----------------------------------------------------------------------------
(* The variables have their types; a status is set when a call returns.      *)
TypeOK ==
    /\ call \in Calls
    /\ pc \in Parts \cup {"begin", "open", "load", "entropy", "initialised", "returned", "done",
                    "crashed"}
    /\ status \in {"not set", "success", "failure"}
    /\ status = "not set" => pc \in {"begin", "open", "load", "collections"}
    /\ {exception, memoryToFree, manager} \subseteq BOOLEAN
    /\ held \subseteq Allocated
    /\ frees \in [Resources -> Nat]

(* A manager that was initialised has a whole data set: every stage has left *)
(* its part, nothing of it was freed, and the memory it lies in is there.    *)
ManagerIsComplete ==
    manager =>
        /\ IsInitialised
        /\ {"dataSet"} \cup Parts \subseteq held
        /\ ~ FromFile \/ call.allInMemory => "memory" \in held
        /\ \A r \in Resources : frees[r] = 0

(* When the memory of a data set was measured, all of it was freed, and the  *)
(* caller's was not (the assertion that nothing is allocated, hash.c:2077).  *)
MeasuredIsFreed ==
    call.size /\ pc = "done" /\ IsInitialised =>
        held = IF FromFile THEN {} ELSE {"memory"}

(* A manager that a caller is given is whole, however the stages ended, and  *)
(* the one that was made to be measured is freed whole.                      *)
ManagerIsWhole == TypeOK /\ ManagerIsComplete /\ MeasuredIsFreed

(* Without freeData the memory of a caller stays the caller's, whichever     *)
(* stage fails; but for UnsetFreed, after which any memory may be freed.     *)
CallersMemoryIsKept ==
    ~ FromFile /\ ~ call.freeData /\ ~ UnsetFreed => "memory" \in held /\ frees["memory"] = 0

(* However initialisation from a file fails, and whatever it had built,      *)
(* everything is freed, once; unless it fails in its very last stage, and    *)
(* but for UnsetFreed: when a component that is not the last has no headers  *)
(* (hash.c:1551), the clean-up of freeDataSet (hash.c:1126) frees pointers   *)
(* that were never set, and nothing is known of what follows.  There is no   *)
(* such exception with one component.                                        *)
FileIsCleanedUp ==
    /\ UnsetFreed => Components > 1 /\ ~ IsInitialised /\ ~ manager
    /\ FromFile /\ ~ UnsetFreed =>
        /\ \A r \in Allocated : frees[r] <= 1
        /\ pc \in {"returned", "done"} /\ ~ manager => held = {} \/ Parts \subseteq held

(* EngineHash.cpp, of the data in memory: "hand the responsibility for       *)
(* cleaning up to the C layer".  What the C layer has cleaned up is not      *)
(* freed again.  (Of pointers that were never set, see FileIsCleanedUp.)     *)
CleanedUpOnce == ~ UnsetFreed => \A r \in Resources : frees[r] <= 1
=============================================================================
