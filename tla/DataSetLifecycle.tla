-------------------------- MODULE DataSetLifecycle --------------------------
(* The data set that detections share, and its replacement while they run    *)
(* (hash.c, EngineHash.cpp, ResultsHash.cpp).                                *)
(*                                                                           *)
(* A resource manager points at the active data set.  Every call that reads  *)
(* the data takes a reference to the active data set and gives it back;      *)
(* results keep theirs until they are freed.  A refresh builds a new data    *)
(* set and makes it active.  A data set that is no longer active is freed    *)
(* with its last reference.  The resource manager itself is not under src/:  *)
(* DataSetGet, DataSetRelease, ResourceReplace and ResourceManagerFree are   *)
(* each one atomic step on its counters.                                     *)
EXTENDS Integers, FiniteSets

CONSTANTS
    Threads,        \* the threads of the program that uses the engine
    DataSets,       \* the first data set and those that refreshes may build
    First,          \* the data set the engine is constructed with
    NoDataSet,      \* no data set
    Components,     \* componentsAvailableCount of each data set
    Calls,          \* which calls the threads make
    MaxLost         \* bound: detections of process that fail on a data set

ASSUME ThreadsAssumption == IsFiniteSet(Threads)
ASSUME DataSetsAssumption == First \in DataSets /\ NoDataSet \notin DataSets
ASSUME ComponentsAssumption == Components \in [DataSets -> Nat]

(* process and processBase of EngineHash; the same steps made through the C  *)
(* API; metadata collections, getters and profile iteration; refreshData.    *)
ASSUME CallsAssumption ==
    Calls \subseteq {"process", "processBase", "c", "view", "refresh"}

ASSUME MaxLostAssumption == MaxLost \in Nat

VARIABLES
    active,         \* the data set of the manager
    status,         \* whether the memory of each data set may be used
    inUse,          \* the count kept with each data set
    lost,           \* references whose results nobody can reach any more
    engineOpen,     \* EngineHash has not been destroyed
    pc,             \* where each thread is in its call
    call,           \* which call that is
    dataSet,        \* the local variable dataSet of the call
    results,        \* the data set of the results of the thread
    size,           \* componentsSize, read by process
    capacity        \* results->capacity

vars == <<active, status, inUse, lost, engineOpen,
          pc, call, dataSet, results, size, capacity>>

shared == <<active, status, inUse, lost, engineOpen>>
local == <<call, dataSet, results, size, capacity>>

MaybeDataSet == DataSets \cup {NoDataSet}

Goto(t, p) == pc' = [pc EXCEPT ![t] = p]
At(t, p) == pc[t] = p
Calling(t, c) == call[t] = c

(* DataSetGet: the active data set, counted.                                 *)
Get(var, t) ==
    /\ active # NoDataSet
    /\ inUse' = [inUse EXCEPT ![active] = @ + 1]
    /\ var' = [var EXCEPT ![t] = active]

(* Mutant: the active data set is freed as well.                             *)
ReleaseActive(d) ==
    /\ inUse' = [inUse EXCEPT ![d] = @ - 1]
    /\ status' = IF inUse[d] = 1
                 THEN [status EXCEPT ![d] = "freed"]
                 ELSE status

(* DataSetRelease: the last user of a data set that is not active frees it.  *)
Release(d) ==
    /\ inUse' = [inUse EXCEPT ![d] = @ - 1]
    /\ status' = IF inUse[d] = 1 /\ d # active
                 THEN [status EXCEPT ![d] = "freed"]
                 ELSE status

(* ResourceReplace and ResourceManagerFree: d, or nothing, becomes active.   *)
Replace(d) ==
    /\ active' = d
    /\ status' = [e \in DataSets |->
                     IF e = d THEN "live"
                     ELSE IF e = active /\ inUse[e] = 0 THEN "freed"
                     ELSE status[e]]

Init ==
    /\ active = First
    /\ status = [d \in DataSets |-> IF d = First THEN "live" ELSE "unused"]
    /\ inUse = [d \in DataSets |-> 0]
    /\ lost = [d \in DataSets |-> 0]
    /\ engineOpen = TRUE
    /\ pc = [t \in Threads |-> "idle"]
    /\ call = [t \in Threads |-> "view"]
    /\ dataSet = [t \in Threads |-> NoDataSet]
    /\ results = [t \in Threads |-> NoDataSet]
    /\ size = [t \in Threads |-> 0]
    /\ capacity = [t \in Threads |-> 0]

-----------------------------------------------------------------------------
(* A detection.  process(evidence) first takes a data set to learn how many  *)
(* components there are; process(userAgent) and processBase do not.          *)
Start(t, c, p) ==
    /\ engineOpen
    /\ At(t, "idle")
    /\ c \in Calls
    /\ call' = [call EXCEPT ![t] = c]
    /\ Goto(t, p)
    /\ UNCHANGED <<shared, dataSet, results, size, capacity>>

StartDetection(t) ==
    \/ \E p \in {"size", "create"} : Start(t, "process", p)
    \/ Start(t, "processBase", "create")
    \/ Start(t, "c", "create")

SizeGet(t) ==
    /\ At(t, "size")
    /\ Get(dataSet, t)
    /\ Goto(t, "sizeRead")
    /\ UNCHANGED <<active, status, lost, engineOpen, call, results, size, capacity>>

SizeRelease(t) ==
    /\ At(t, "sizeRead")
    /\ Release(dataSet[t])
    /\ size' = [size EXCEPT ![t] = Components[dataSet[t]]]
    /\ dataSet' = [dataSet EXCEPT ![t] = NoDataSet]
    /\ Goto(t, "create")
    /\ UNCHANGED <<active, lost, engineOpen, call, results, capacity>>

(* ResultsHashCreate: the capacity asked for is not used.                    *)
CreateGet(t) ==
    /\ At(t, "create")
    /\ Get(dataSet, t)
    /\ Goto(t, "alloc")
    /\ UNCHANGED <<active, status, lost, engineOpen, call, results, size, capacity>>

(* Mutants of CreateResults: the reference is given back although the        *)
(* results keep the pointer, and the capacity asked for is used.             *)
CreateResultsReleased(t) ==
    /\ At(t, "alloc")
    /\ Release(dataSet[t])
    /\ results' = [results EXCEPT ![t] = dataSet[t]]
    /\ dataSet' = [dataSet EXCEPT ![t] = NoDataSet]
    /\ capacity' = [capacity EXCEPT ![t] = Components[dataSet[t]]]
    /\ Goto(t, "detect")
    /\ UNCHANGED <<active, lost, engineOpen, call, size>>

CreateResultsAsAsked(t) ==
    /\ At(t, "alloc")
    /\ results' = [results EXCEPT ![t] = dataSet[t]]
    /\ dataSet' = [dataSet EXCEPT ![t] = NoDataSet]
    /\ capacity' = [capacity EXCEPT ![t] = size[t]]
    /\ Goto(t, "detect")
    /\ UNCHANGED <<shared, call, size>>

CreateResults(t) ==
    /\ At(t, "alloc")
    /\ results' = [results EXCEPT ![t] = dataSet[t]]
    /\ dataSet' = [dataSet EXCEPT ![t] = NoDataSet]
    /\ capacity' = [capacity EXCEPT ![t] = Components[dataSet[t]]]
    /\ Goto(t, "detect")
    /\ UNCHANGED <<shared, call, size>>

(* Mutant: the reference is forgotten when there is no memory.               *)
CreateFailsForgetting(t) ==
    /\ At(t, "alloc")
    /\ Calling(t, "c")
    /\ dataSet' = [dataSet EXCEPT ![t] = NoDataSet]
    /\ Goto(t, "idle")
    /\ UNCHANGED <<shared, call, results, size, capacity>>

(* No memory: NULL, which only a caller of the C API can look at.            *)
CreateFails(t) ==
    /\ At(t, "alloc")
    /\ Calling(t, "c")
    /\ Release(dataSet[t])
    /\ dataSet' = [dataSet EXCEPT ![t] = NoDataSet]
    /\ Goto(t, "idle")
    /\ UNCHANGED <<active, lost, engineOpen, call, results, size, capacity>>

(* ResultsHashFromEvidence or ResultsHashFromUserAgent ends.                 *)
DetectOkay(t) ==
    /\ At(t, "detect")
    /\ Goto(t, "owned")
    /\ UNCHANGED <<shared, local>>

ResultsHashFree(t) ==
    /\ Release(results[t])
    /\ results' = [results EXCEPT ![t] = NoDataSet]
    /\ capacity' = [capacity EXCEPT ![t] = 0]

(* An exception is set.  The C API tells its caller, who has the results to  *)
(* free.                                                                     *)
DetectFailsInC(t) ==
    /\ At(t, "detect")
    /\ Calling(t, "c")
    /\ Goto(t, "owned")
    /\ UNCHANGED <<shared, local>>

(* Mutant: the results are not freed.                                        *)
DetectFailsUnfreed(t) ==
    /\ At(t, "detect")
    /\ Calling(t, "processBase")
    /\ results' = [results EXCEPT ![t] = NoDataSet]
    /\ capacity' = [capacity EXCEPT ![t] = 0]
    /\ Goto(t, "idle")
    /\ UNCHANGED <<shared, call, dataSet, size>>

(* processBase frees the results before it throws.                           *)
DetectFailsInProcessBase(t) ==
    /\ At(t, "detect")
    /\ Calling(t, "processBase")
    /\ ResultsHashFree(t)
    /\ Goto(t, "idle")
    /\ UNCHANGED <<active, lost, engineOpen, call, dataSet, size>>

(* process throws, and nothing points at the results any more.               *)
DetectFailsInProcess(t) ==
    /\ At(t, "detect")
    /\ Calling(t, "process")
    /\ lost[results[t]] < MaxLost
    /\ lost' = [lost EXCEPT ![results[t]] = @ + 1]
    /\ results' = [results EXCEPT ![t] = NoDataSet]
    /\ capacity' = [capacity EXCEPT ![t] = 0]
    /\ Goto(t, "idle")
    /\ UNCHANGED <<active, status, inUse, engineOpen, call, dataSet, size>>

(* Through the C API results can be used for one detection after another.    *)
DetectAgain(t) ==
    /\ At(t, "owned")
    /\ Calling(t, "c")
    /\ Goto(t, "detect")
    /\ UNCHANGED <<shared, local>>

(* The destructor of ResultsHash, or the caller of the C API.                *)
FreeResults(t) ==
    /\ At(t, "owned")
    /\ ResultsHashFree(t)
    /\ Goto(t, "idle")
    /\ UNCHANGED <<active, lost, engineOpen, call, dataSet, size>>

-----------------------------------------------------------------------------
(* Reading the data set itself: getters, metadata collections from their     *)
(* construction to their destruction, and iteration over profiles.           *)
View(t) == Start(t, "view", "viewGet")

ViewGet(t) ==
    /\ At(t, "viewGet")
    /\ Get(dataSet, t)
    /\ Goto(t, "viewing")
    /\ UNCHANGED <<active, status, lost, engineOpen, call, results, size, capacity>>

ViewRelease(t) ==
    /\ At(t, "viewing")
    /\ Release(dataSet[t])
    /\ dataSet' = [dataSet EXCEPT ![t] = NoDataSet]
    /\ Goto(t, "idle")
    /\ UNCHANGED <<active, lost, engineOpen, call, results, size, capacity>>

-----------------------------------------------------------------------------
(* refreshData: the reload keeps the active data set for its configuration   *)
(* while it builds the replacement.                                          *)
Refresh(t) == Start(t, "refresh", "refreshGet")

RefreshGet(t) ==
    /\ At(t, "refreshGet")
    /\ Get(dataSet, t)
    /\ Goto(t, "build")
    /\ UNCHANGED <<active, status, lost, engineOpen, call, results, size, capacity>>

(* A replacement that cannot be initialised is freed again.                  *)
BuildFails(t, d) ==
    /\ At(t, "build")
    /\ status[d] = "unused"
    /\ status' = [status EXCEPT ![d] = "freed"]
    /\ Goto(t, "refreshEnd")
    /\ UNCHANGED <<active, inUse, lost, engineOpen, local>>

BuildOkay(t, d) ==
    /\ At(t, "build")
    /\ status[d] = "unused"
    /\ Replace(d)
    /\ Goto(t, "refreshEnd")
    /\ UNCHANGED <<inUse, lost, engineOpen, local>>

(* There is no memory or no file to build a data set from.                   *)
BuildNothing(t) ==
    /\ At(t, "build")
    /\ Goto(t, "refreshEnd")
    /\ UNCHANGED <<shared, local>>

RefreshRelease(t) ==
    /\ At(t, "refreshEnd")
    /\ Release(dataSet[t])
    /\ dataSet' = [dataSet EXCEPT ![t] = NoDataSet]
    /\ Goto(t, "idle")
    /\ UNCHANGED <<active, lost, engineOpen, call, results, size, capacity>>

-----------------------------------------------------------------------------
(* The engine is destroyed between calls; results and collections stay.      *)
EngineDestroy ==
    /\ engineOpen
    /\ \A t \in Threads : pc[t] \in {"idle", "owned", "viewing"}
    /\ engineOpen' = FALSE
    /\ UNCHANGED <<active, status, inUse, lost, pc, local>>

(* Engine and C++ results share the manager; the last of them frees it.      *)
SharesManager(t) == At(t, "owned") /\ ~ Calling(t, "c")

ManagerFree ==
    /\ ~ engineOpen
    /\ active # NoDataSet
    /\ \A t \in Threads : ~ SharesManager(t)
    /\ Replace(NoDataSet)
    /\ UNCHANGED <<inUse, lost, engineOpen, pc, local>>

-----------------------------------------------------------------------------
(* What a call that has begun does next.                                     *)
Continue(t) ==
    \/ SizeGet(t) \/ SizeRelease(t)
    \/ CreateGet(t) \/ CreateResults(t) \/ CreateFails(t)
    \/ DetectOkay(t) \/ DetectFailsInC(t)
    \/ DetectFailsInProcessBase(t) \/ DetectFailsInProcess(t)
    \/ ViewGet(t) \/ ViewRelease(t)
    \/ RefreshGet(t) \/ BuildNothing(t)
    \/ \E d \in DataSets : BuildFails(t, d) \/ BuildOkay(t, d)
    \/ RefreshRelease(t)

Next ==
    \/ \E t \in Threads :
        \/ StartDetection(t) \/ View(t) \/ Refresh(t)
        \/ Continue(t)
        \/ DetectAgain(t)
        \/ FreeResults(t)
    \/ EngineDestroy
    \/ ManagerFree

Spec == Init /\ [][Next]_vars

(* A call that has begun runs on.  The owner of results frees them in the    *)
(* end, as hash.h asks, however often they are used before; nobody is        *)
(* obliged to start a call.                                                  *)
FairSpec ==
    /\ Spec
    /\ \A t \in Threads : WF_vars(Continue(t)) /\ SF_vars(FreeResults(t))
    /\ WF_vars(ManagerFree)

-----------------------------------------------------------------------------
(* The variables have their types; no count is released below zero.          *)
TypeOK ==
    /\ active \in MaybeDataSet
    /\ status \in [DataSets -> {"unused", "live", "freed"}]
    /\ inUse \in [DataSets -> Nat]
    /\ lost \in [DataSets -> Nat]
    /\ engineOpen \in BOOLEAN
    /\ pc \in [Threads -> {"idle", "size", "sizeRead", "create", "alloc", "detect",
                            "owned", "viewGet", "viewing",
                            "refreshGet", "build", "refreshEnd"}]
    /\ call \in [Threads -> {"process", "processBase", "c", "view", "refresh"}]
    /\ dataSet \in [Threads -> MaybeDataSet]
    /\ results \in [Threads -> MaybeDataSet]
    /\ size \in [Threads -> Nat]
    /\ capacity \in [Threads -> Nat]

(* How many threads have data set d in a variable.                           *)
Count(var, d) == Cardinality({t \in Threads : var[t] = d})

References(d) == Count(dataSet, d) + Count(results, d) + lost[d]

(* The count kept with a data set is the number of references to it that     *)
(* exist, wherever they are: a call, results, or results lost in process.    *)
CountsAreExact == \A d \in DataSets : inUse[d] = References(d)

(* Whatever refreshes, frees and the end of the engine do meanwhile, the     *)
(* memory that a call or its results read through is there: calls and        *)
(* results are given a data set once and never look at the manager again.    *)
HeldIsLive ==
    \A t \in Threads :
        /\ dataSet[t] # NoDataSet => status[dataSet[t]] = "live"
        /\ results[t] # NoDataSet => status[results[t]] = "live"

(* A data set whose last user has gone is not kept: the memory of a replaced *)
(* data set lasts as long as the results that refer to it, and no longer.    *)
NothingIsRetained ==
    \A d \in DataSets : status[d] = "live" => d = active \/ inUse[d] > 0

(* The count of a data set is what decides when it is freed, and it is right *)
(* in every state.                                                           *)
CountsAreTrue == TypeOK /\ CountsAreExact

(* Memory that was freed is not freed again, nor used as a data set again.   *)
FreedForGood ==
    [][ \A d \in DataSets : status[d] = "freed" => status'[d] = "freed"
                                                  /\ inUse'[d] = inUse[d] ]_vars

(* process sizes the results from a data set that it has released again, and *)
(* a refresh may come in between: what the results can hold follows from     *)
(* their own data set all the same.                                          *)
CapacityIsOwn ==
    \A t \in Threads :
        results[t] # NoDataSet => capacity[t] = Components[results[t]]

(* While the engine is open a call always finds a data set to use; after     *)
(* that nothing is still on its way to ask for one.                          *)
ManagerOutlivesCalls ==
    active = NoDataSet =>
        \A t \in Threads : /\ pc[t] \in {"idle", "owned", "viewing", "detect"}
                           /\ At(t, "detect") => Calling(t, "c")

(* What is in use is in memory, what is not in use is not, and the manager   *)
(* is there for as long as a call may ask it for a data set.                 *)
MemoryIsHeld == HeldIsLive /\ NothingIsRetained /\ ManagerOutlivesCalls

(* A data set that was replaced is freed in the end, unless process has lost *)
(* results that refer to it.                                                 *)
ReplacedGoes ==
    \A d \in DataSets :
        status[d] = "live" /\ active # d ~> status[d] = "freed" \/ lost[d] > 0

(* A data set that was replaced is freed in the end (hash.h: the old data    *)
(* stays in memory until the last results that refer to it are released).    *)
ReplacedIsFreed ==
    \A d \in DataSets : status[d] = "live" /\ active # d ~> status[d] = "freed"

(* Calls and results are users of the shared data.                           *)
Shared == INSTANCE SharedData WITH
    current <- active,
    held <- [d \in DataSets |-> References(d)],
    gone <- {d \in DataSets : status[d] = "freed"}
ImplementsSharedData == Shared!Spec
=============================================================================
