----------------------- MODULE DataSetLifecycleProofs -----------------------
(* Whatever the number of threads, data sets and refreshes: a data set is in *)
(* memory while something refers to it, and no longer.                       *)
EXTENDS DataSetLifecycle, FiniteSetTheorems, TLAPS

-----------------------------------------------------------------------------
(* Counting the threads whose variable holds a data set.                     *)

LEMMA CountType ==
    ASSUME NEW var, NEW d
    PROVE  /\ IsFiniteSet({t \in Threads : var[t] = d})
           /\ Count(var, d) \in Nat
<1>1. IsFiniteSet({t \in Threads : var[t] = d})
  BY ThreadsAssumption, FS_Subset
<1> QED BY <1>1, FS_CardinalityType DEF Count

(* A thread that holds a data set makes its count positive.                  *)
LEMMA CountPositive ==
    ASSUME NEW var, NEW t \in Threads
    PROVE  Count(var, var[t]) > 0
<1> DEFINE S == {u \in Threads : var[u] = var[t]}
<1>1. IsFiniteSet(S) /\ Count(var, var[t]) \in Nat /\ Count(var, var[t]) = Cardinality(S)
  BY CountType DEF Count
<1>2. S # {}
  OBVIOUS
<1>3. Cardinality(S) # 0
  BY <1>1, <1>2, FS_EmptySet
<1> QED BY <1>1, <1>3

(* A variable that is given a data set counts once more for it.              *)
LEMMA CountTake ==
    ASSUME NEW var \in [Threads -> MaybeDataSet], NEW t \in Threads,
           NEW d \in DataSets, var[t] = NoDataSet, NEW e \in DataSets
    PROVE  Count([var EXCEPT ![t] = d], e) = Count(var, e) + (IF e = d THEN 1 ELSE 0)
<1> DEFINE new == [var EXCEPT ![t] = d]
           S == {u \in Threads : var[u] = e}
           T == {u \in Threads : new[u] = e}
<1>0. e # NoDataSet /\ IsFiniteSet(S)
  BY DataSetsAssumption, CountType
<1>1. CASE e = d
  <2>1. T = S \cup {t} /\ t \notin S
    BY <1>0, <1>1
  <2>2. Cardinality(T) = Cardinality(S) + 1
    BY <1>0, <2>1, FS_AddElement
  <2> QED BY <1>1, <2>2 DEF Count
<1>2. CASE e # d
  <2>1. T = S
    BY <1>0, <1>2
  <2>2. Cardinality(S) \in Nat
    BY <1>0, FS_CardinalityType
  <2> QED BY <1>2, <2>1, <2>2 DEF Count
<1> QED BY <1>1, <1>2

(* A variable that is cleared counts once less for what it held.             *)
LEMMA CountGive ==
    ASSUME NEW var \in [Threads -> MaybeDataSet], NEW t \in Threads,
           NEW d \in DataSets, var[t] = d, NEW e \in DataSets
    PROVE  Count([var EXCEPT ![t] = NoDataSet], e) = Count(var, e) - (IF e = d THEN 1 ELSE 0)
<1> DEFINE new == [var EXCEPT ![t] = NoDataSet]
           S == {u \in Threads : var[u] = e}
           T == {u \in Threads : new[u] = e}
<1>0. e # NoDataSet /\ IsFiniteSet(S) /\ IsFiniteSet(T)
  BY DataSetsAssumption, CountType
<1>a. Cardinality(S) \in Nat /\ Cardinality(T) \in Nat
  BY <1>0, FS_CardinalityType
<1>1. CASE e = d
  <2>1. S = T \cup {t} /\ t \notin T
    BY <1>0, <1>1
  <2>2. Cardinality(S) = Cardinality(T) + 1
    BY <1>0, <2>1, FS_AddElement
  <2> QED BY <1>1, <1>a, <2>2 DEF Count
<1>2. CASE e # d
  <2>1. T = S
    BY <1>0, <1>2
  <2> QED BY <1>2, <1>a, <2>1 DEF Count
<1> QED BY <1>1, <1>2

-----------------------------------------------------------------------------
(* The strengthening: each variable holds a data set exactly at the points   *)
(* of a call between taking and giving it back, and what is counted or       *)
(* active is in memory.                                                      *)

HoldsWhileInCall ==
    \A t \in Threads :
        /\ dataSet[t] # NoDataSet <=>
               pc[t] \in {"sizeRead", "alloc", "viewing", "build", "refreshEnd"}
        /\ results[t] # NoDataSet <=> pc[t] \in {"detect", "owned"}

CountedIsLive ==
    /\ active # NoDataSet => status[active] = "live"
    /\ \A d \in DataSets : inUse[d] > 0 => status[d] = "live"

Memory == CountsAreExact /\ NothingIsRetained /\ CountedIsLive

(* Once the engine is destroyed only the C API detects.                      *)
EngineClosed ==
    /\ active = NoDataSet => ~ engineOpen
    /\ ~ engineOpen =>
        \A t \in Threads : /\ pc[t] \in {"idle", "owned", "viewing", "detect"}
                           /\ At(t, "detect") => Calling(t, "c")

IInv == TypeOK /\ HoldsWhileInCall /\ EngineClosed /\ Memory /\ CapacityIsOwn

(* A thread's data set is counted.                                           *)
LEMMA HeldIsCounted ==
    ASSUME TypeOK, CountsAreExact, NEW t \in Threads
    PROVE  /\ dataSet[t] # NoDataSet => dataSet[t] \in DataSets /\ inUse[dataSet[t]] > 0
           /\ results[t] # NoDataSet => results[t] \in DataSets /\ inUse[results[t]] > 0
<1>1. ASSUME NEW d \in DataSets PROVE /\ Count(dataSet, d) \in Nat
                                      /\ Count(results, d) \in Nat
                                      /\ lost[d] \in Nat
                                      /\ inUse[d] = Count(dataSet, d) + Count(results, d) + lost[d]
  BY CountType DEF TypeOK, CountsAreExact, References
<1>2. dataSet[t] # NoDataSet => dataSet[t] \in DataSets /\ inUse[dataSet[t]] > 0
  <2> HAVE dataSet[t] # NoDataSet
  <2>1. dataSet[t] \in DataSets
    BY DEF TypeOK, MaybeDataSet
  <2>2. Count(dataSet, dataSet[t]) > 0
    BY CountPositive
  <2> QED BY <1>1, <2>1, <2>2
<1>3. results[t] # NoDataSet => results[t] \in DataSets /\ inUse[results[t]] > 0
  <2> HAVE results[t] # NoDataSet
  <2>1. results[t] \in DataSets
    BY DEF TypeOK, MaybeDataSet
  <2>2. Count(results, results[t]) > 0
    BY CountPositive
  <2> QED BY <1>1, <2>1, <2>2
<1> QED BY <1>2, <1>3

-----------------------------------------------------------------------------
(* What the five kinds of step do to the memory.                             *)

LEMMA GetKeepsMemory ==
    ASSUME TypeOK, Memory, NEW t \in Threads, dataSet[t] = NoDataSet,
           Get(dataSet, t), UNCHANGED <<active, status, lost, results>>
    PROVE  Memory'
<1>1. active \in DataSets /\ inUse' = [inUse EXCEPT ![active] = @ + 1]
      /\ dataSet' = [dataSet EXCEPT ![t] = active]
  BY DEF Get, TypeOK, MaybeDataSet
<1>2. ASSUME NEW d \in DataSets PROVE inUse'[d] = References(d)'
  <2>1. Count(dataSet', d) = Count(dataSet, d) + (IF d = active THEN 1 ELSE 0)
    BY <1>1, CountTake DEF TypeOK
  <2>2. inUse'[d] = inUse[d] + (IF d = active THEN 1 ELSE 0)
    BY <1>1 DEF TypeOK
  <2>3. /\ inUse[d] = Count(dataSet, d) + Count(results, d) + lost[d]
        /\ Count(dataSet, d) \in Nat /\ Count(results, d) \in Nat /\ lost[d] \in Nat
    BY CountType DEF Memory, CountsAreExact, References, TypeOK
  <2> QED BY <2>1, <2>2, <2>3 DEF References
<1>3. \A d \in DataSets : inUse'[d] = inUse[d] + (IF d = active THEN 1 ELSE 0)
                          /\ inUse[d] \in Nat
  BY <1>1 DEF TypeOK
<1>4. NothingIsRetained'
  BY <1>3 DEF Memory, NothingIsRetained
<1>5. CountedIsLive'
  <2>1. status[active] = "live" /\ \A d \in DataSets : inUse[d] > 0 => status[d] = "live"
    BY DEF Memory, CountedIsLive, Get
  <2> QED BY <1>1, <1>3, <2>1 DEF CountedIsLive
<1> QED BY <1>2, <1>4, <1>5 DEF Memory, CountsAreExact

(* Giving a reference back, whichever variable held it.                      *)
LEMMA ReleaseKeepsMemory ==
    ASSUME TypeOK, Memory, NEW d \in DataSets, inUse[d] > 0, Release(d), UNCHANGED active,
           \A e \in DataSets : References(e)' = References(e) - (IF e = d THEN 1 ELSE 0)
    PROVE  Memory'
<1>1. inUse' = [inUse EXCEPT ![d] = @ - 1]
      /\ status' = IF inUse[d] = 1 /\ d # active THEN [status EXCEPT ![d] = "freed"] ELSE status
  BY DEF Release
<1>2. CountsAreExact'
  <2> SUFFICES ASSUME NEW e \in DataSets PROVE inUse'[e] = References(e)'
    BY DEF CountsAreExact
  <2>1. inUse'[e] = inUse[e] - (IF e = d THEN 1 ELSE 0)
    BY <1>1 DEF TypeOK
  <2>2. inUse[e] = References(e)
    BY DEF Memory, CountsAreExact
  <2> QED BY <2>1, <2>2
<1>3. NothingIsRetained'
  BY <1>1 DEF Memory, NothingIsRetained, TypeOK
<1>4. CountedIsLive'
  BY <1>1 DEF Memory, CountedIsLive, TypeOK
<1> QED BY <1>2, <1>3, <1>4 DEF Memory

LEMMA ReleaseDataSetKeepsMemory ==
    ASSUME TypeOK, Memory, NEW t \in Threads, dataSet[t] # NoDataSet,
           Release(dataSet[t]), dataSet' = [dataSet EXCEPT ![t] = NoDataSet],
           UNCHANGED <<active, lost, results>>
    PROVE  Memory'
<1>1. dataSet[t] \in DataSets /\ inUse[dataSet[t]] > 0
  BY HeldIsCounted DEF Memory
<1>2. ASSUME NEW e \in DataSets
      PROVE  References(e)' = References(e) - (IF e = dataSet[t] THEN 1 ELSE 0)
  <2>1. Count(dataSet', e) = Count(dataSet, e) - (IF e = dataSet[t] THEN 1 ELSE 0)
    BY <1>1, CountGive DEF TypeOK
  <2>2. Count(dataSet, e) \in Nat /\ Count(results, e) \in Nat /\ lost[e] \in Nat
    BY CountType DEF TypeOK
  <2> QED BY <2>1, <2>2 DEF References
<1> QED BY <1>1, <1>2, ReleaseKeepsMemory

LEMMA FreeKeepsMemory ==
    ASSUME TypeOK, Memory, NEW t \in Threads, results[t] # NoDataSet,
           ResultsHashFree(t), UNCHANGED <<active, lost, dataSet>>
    PROVE  Memory'
<1>1. results[t] \in DataSets /\ inUse[results[t]] > 0
  BY HeldIsCounted DEF Memory
<1>2. Release(results[t]) /\ results' = [results EXCEPT ![t] = NoDataSet]
  BY DEF ResultsHashFree
<1>3. ASSUME NEW e \in DataSets
      PROVE  References(e)' = References(e) - (IF e = results[t] THEN 1 ELSE 0)
  <2>1. Count(results', e) = Count(results, e) - (IF e = results[t] THEN 1 ELSE 0)
    BY <1>1, <1>2, CountGive DEF TypeOK
  <2>2. Count(dataSet, e) \in Nat /\ Count(results, e) \in Nat /\ lost[e] \in Nat
    BY CountType DEF TypeOK
  <2> QED BY <2>1, <2>2 DEF References
<1> QED BY <1>1, <1>2, <1>3, ReleaseKeepsMemory

(* A reference that changes hands: the counts stay.                          *)
LEMMA MoveKeepsMemory ==
    ASSUME Memory, UNCHANGED <<active, status, inUse>>,
           \A e \in DataSets : References(e)' = References(e)
    PROVE  Memory'
BY DEF Memory, CountsAreExact, NothingIsRetained, CountedIsLive

LEMMA ReplaceKeepsMemory ==
    ASSUME TypeOK, Memory, NEW d \in MaybeDataSet,
           Replace(d), UNCHANGED <<inUse, lost, dataSet, results>>
    PROVE  Memory'
<1>1. active' = d
      /\ \A e \in DataSets : status'[e] = IF e = d THEN "live"
                                         ELSE IF e = active /\ inUse[e] = 0 THEN "freed"
                                         ELSE status[e]
  BY DEF Replace
<1>2. CountsAreExact'
  BY DEF Memory, CountsAreExact, References
<1>3. NothingIsRetained'
  BY <1>1 DEF Memory, NothingIsRetained, TypeOK
<1>4. CountedIsLive'
  BY <1>1 DEF Memory, CountedIsLive, TypeOK, MaybeDataSet
<1> QED BY <1>2, <1>3, <1>4 DEF Memory
-----------------------------------------------------------------------------
LEMMA InitInvariant == Init => IInv
<1> SUFFICES ASSUME Init PROVE IInv
  OBVIOUS
<1> USE DEF Init
<1>1. TypeOK
  BY DataSetsAssumption DEF TypeOK, MaybeDataSet
<1>2. HoldsWhileInCall /\ CapacityIsOwn /\ EngineClosed
  BY DataSetsAssumption DEF HoldsWhileInCall, CapacityIsOwn, EngineClosed
<1>3. ASSUME NEW d \in DataSets, NEW var, \A t \in Threads : var[t] = NoDataSet
      PROVE  Count(var, d) = 0
  <2>1. {t \in Threads : var[t] = d} = {}
    BY <1>3, DataSetsAssumption
  <2> QED BY <2>1, FS_EmptySet DEF Count
<1>4. CountsAreExact
  <2> SUFFICES ASSUME NEW d \in DataSets PROVE inUse[d] = References(d)
    BY DEF CountsAreExact
  <2>1. Count(dataSet, d) = 0 /\ Count(results, d) = 0
    BY <1>3
  <2> QED BY <2>1 DEF References
<1>5. NothingIsRetained /\ CountedIsLive
  BY DataSetsAssumption DEF NothingIsRetained, CountedIsLive
<1> QED BY <1>1, <1>2, <1>4, <1>5 DEF IInv, Memory

LEMMA EngineClosedStep == TypeOK /\ EngineClosed /\ [Next]_vars => EngineClosed'
<1> SUFFICES ASSUME TypeOK, EngineClosed, [Next]_vars PROVE EngineClosed'
  OBVIOUS
<1> USE DEF At, Calling, Goto, shared, local, TypeOK
<1>1. ASSUME NEW t \in Threads, StartDetection(t) \/ View(t) \/ Refresh(t) PROVE EngineClosed'
  BY <1>1 DEF EngineClosed, StartDetection, View, Refresh, Start
<1>2. ASSUME NEW t \in Threads, Continue(t) PROVE EngineClosed'
  <2>1. CASE SizeGet(t) \/ SizeRelease(t) \/ CreateGet(t) \/ CreateResults(t) \/ CreateFails(t)
    BY <2>1 DEF EngineClosed, SizeGet, SizeRelease, CreateGet, CreateResults, CreateFails
  <2>2. CASE DetectOkay(t) \/ DetectFailsInC(t)
    BY <2>2 DEF EngineClosed, DetectOkay, DetectFailsInC
  <2>3. CASE DetectFailsInProcessBase(t) \/ DetectFailsInProcess(t)
    BY <2>3 DEF EngineClosed, DetectFailsInProcessBase, DetectFailsInProcess
  <2>4. CASE ViewGet(t) \/ ViewRelease(t) \/ RefreshGet(t) \/ RefreshRelease(t)
    BY <2>4 DEF EngineClosed, ViewGet, ViewRelease, RefreshGet, RefreshRelease
  <2>5. CASE BuildNothing(t)
    BY <2>5 DEF EngineClosed, BuildNothing
  <2>6. ASSUME NEW d \in DataSets, BuildFails(t, d) \/ BuildOkay(t, d) PROVE EngineClosed'
    BY <2>6, DataSetsAssumption DEF EngineClosed, BuildFails, BuildOkay, Replace
  <2> QED BY <1>2, <2>1, <2>2, <2>3, <2>4, <2>5, <2>6 DEF Continue
<1>3. ASSUME NEW t \in Threads, DetectAgain(t) \/ FreeResults(t) PROVE EngineClosed'
  BY <1>3 DEF EngineClosed, DetectAgain, FreeResults
<1>4. CASE EngineDestroy
  BY <1>4 DEF EngineClosed, EngineDestroy
<1>5. CASE ManagerFree
  BY <1>5 DEF EngineClosed, ManagerFree
<1>6. CASE UNCHANGED vars
  BY <1>6 DEF EngineClosed, vars
<1> QED BY <1>1, <1>2, <1>3, <1>4, <1>5, <1>6 DEF Next

(* One step per action; the memory part is one of the lemmas above.          *)
LEMMA NextInvariant == IInv /\ [Next]_vars => IInv'
<1> SUFFICES ASSUME IInv, [Next]_vars, EngineClosed' PROVE IInv'
  BY EngineClosedStep DEF IInv
<1> USE DEF IInv, Goto, At, Calling, shared, local
<1>0. NoDataSet \notin DataSets /\ \A d \in DataSets : Components[d] \in Nat
  BY DataSetsAssumption, ComponentsAssumption
<1>1. ASSUME NEW t \in Threads, NEW c, NEW p \in {"size", "create", "viewGet", "refreshGet"},
             Start(t, c, p)
      PROVE  IInv'
  <2>1. TypeOK' /\ HoldsWhileInCall' /\ CapacityIsOwn'
    BY <1>1, CallsAssumption DEF Start, TypeOK, HoldsWhileInCall, CapacityIsOwn
  <2>2. Memory'
    BY <1>1, MoveKeepsMemory DEF Start, References
  <2> QED BY <2>1, <2>2
<1>2. ASSUME NEW t \in Threads, NEW p \in {"sizeRead", "alloc", "viewing", "build"},
             pc[t] \in {"size", "create", "viewGet", "refreshGet"},
             Get(dataSet, t), pc' = [pc EXCEPT ![t] = p],
             UNCHANGED <<active, status, lost, engineOpen, call, results, size, capacity>>
      PROVE  IInv'
  <2>1. active \in DataSets /\ dataSet' = [dataSet EXCEPT ![t] = active]
        /\ inUse' = [inUse EXCEPT ![active] = @ + 1]
    BY <1>2 DEF Get, TypeOK, MaybeDataSet
  <2>2. TypeOK'
    BY <1>2, <2>1 DEF TypeOK, MaybeDataSet
  <2>3. HoldsWhileInCall' /\ CapacityIsOwn'
    BY <1>0, <1>2, <2>1 DEF HoldsWhileInCall, CapacityIsOwn, TypeOK
  <2>4. Memory'
    BY <1>2, GetKeepsMemory DEF HoldsWhileInCall
  <2> QED BY <2>2, <2>3, <2>4
<1>3. ASSUME NEW t \in Threads, NEW p \in {"create", "idle"},
             pc[t] \in {"sizeRead", "alloc", "viewing", "refreshEnd"},
             Release(dataSet[t]), dataSet' = [dataSet EXCEPT ![t] = NoDataSet],
             pc' = [pc EXCEPT ![t] = p], size' \in [Threads -> Nat],
             UNCHANGED <<active, lost, engineOpen, call, results, capacity>>
      PROVE  IInv'
  <2>1. dataSet[t] # NoDataSet /\ dataSet[t] \in DataSets /\ inUse[dataSet[t]] > 0
    BY <1>3, HeldIsCounted DEF HoldsWhileInCall, Memory
  <2>2. TypeOK'
    BY <1>3, <2>1 DEF TypeOK, MaybeDataSet, Release
  <2>3. HoldsWhileInCall' /\ CapacityIsOwn'
    BY <1>3 DEF HoldsWhileInCall, CapacityIsOwn, TypeOK
  <2>4. Memory'
    BY <1>3, <2>1, ReleaseDataSetKeepsMemory
  <2> QED BY <2>2, <2>3, <2>4
<1>4. ASSUME NEW t \in Threads, CreateResults(t) PROVE IInv'
  <2> USE <1>4 DEF CreateResults
  <2>1. dataSet[t] # NoDataSet /\ dataSet[t] \in DataSets /\ results[t] = NoDataSet
    BY DEF HoldsWhileInCall, TypeOK, MaybeDataSet
  <2>2. TypeOK'
    BY <1>0, <2>1 DEF TypeOK, MaybeDataSet
  <2>3. HoldsWhileInCall' /\ CapacityIsOwn'
    BY <2>1 DEF HoldsWhileInCall, CapacityIsOwn, TypeOK
  <2>4. ASSUME NEW e \in DataSets PROVE References(e)' = References(e)
    <3>1. Count(dataSet', e) = Count(dataSet, e) - (IF e = dataSet[t] THEN 1 ELSE 0)
      BY <2>1, CountGive DEF TypeOK
    <3>2. Count(results', e) = Count(results, e) + (IF e = dataSet[t] THEN 1 ELSE 0)
      BY <2>1, CountTake DEF TypeOK
    <3>3. Count(dataSet, e) \in Nat /\ Count(results, e) \in Nat /\ lost[e] \in Nat
      BY CountType DEF TypeOK
    <3> QED BY <3>1, <3>2, <3>3 DEF References
  <2>5. Memory'
    BY <2>4, MoveKeepsMemory
  <2> QED BY <2>2, <2>3, <2>5
<1>5. ASSUME NEW t \in Threads, NEW p \in {"owned", "detect"}, pc[t] \in {"owned", "detect"},
             pc' = [pc EXCEPT ![t] = p], UNCHANGED <<shared, local>>
      PROVE  IInv'
  <2>1. TypeOK' /\ HoldsWhileInCall' /\ CapacityIsOwn'
    BY <1>5 DEF TypeOK, HoldsWhileInCall, CapacityIsOwn
  <2>2. Memory'
    BY <1>5, MoveKeepsMemory DEF References
  <2> QED BY <2>1, <2>2
<1>6. ASSUME NEW t \in Threads, pc[t] \in {"owned", "detect"}, ResultsHashFree(t),
             pc' = [pc EXCEPT ![t] = "idle"],
             UNCHANGED <<active, lost, engineOpen, call, dataSet, size>>
      PROVE  IInv'
  <2>1. results[t] # NoDataSet /\ results[t] \in DataSets /\ inUse[results[t]] > 0
    BY <1>6, HeldIsCounted DEF HoldsWhileInCall, Memory
  <2>2. TypeOK'
    BY <1>6, <2>1 DEF TypeOK, MaybeDataSet, ResultsHashFree, Release
  <2>3. HoldsWhileInCall' /\ CapacityIsOwn'
    BY <1>6 DEF HoldsWhileInCall, CapacityIsOwn, TypeOK, ResultsHashFree
  <2>4. Memory'
    BY <1>6, <2>1, FreeKeepsMemory
  <2> QED BY <2>2, <2>3, <2>4
<1>7. ASSUME NEW t \in Threads, DetectFailsInProcess(t) PROVE IInv'
  <2> USE <1>7 DEF DetectFailsInProcess
  <2>1. results[t] # NoDataSet /\ results[t] \in DataSets
    BY DEF HoldsWhileInCall, TypeOK, MaybeDataSet
  <2>2. TypeOK'
    BY <2>1 DEF TypeOK, MaybeDataSet
  <2>3. HoldsWhileInCall' /\ CapacityIsOwn'
    BY DEF HoldsWhileInCall, CapacityIsOwn, TypeOK
  <2>4. ASSUME NEW e \in DataSets PROVE References(e)' = References(e)
    <3>1. Count(results', e) = Count(results, e) - (IF e = results[t] THEN 1 ELSE 0)
      BY <2>1, CountGive DEF TypeOK
    <3>2. lost'[e] = lost[e] + (IF e = results[t] THEN 1 ELSE 0)
      BY DEF TypeOK
    <3>3. Count(dataSet, e) \in Nat /\ Count(results, e) \in Nat /\ lost[e] \in Nat
      BY CountType DEF TypeOK
    <3> QED BY <3>1, <3>2, <3>3 DEF References
  <2>5. Memory'
    BY <2>4, MoveKeepsMemory
  <2> QED BY <2>2, <2>3, <2>5
<1>8. ASSUME NEW t \in Threads, NEW d \in DataSets, BuildFails(t, d) PROVE IInv'
  <2> USE <1>8 DEF BuildFails
  <2>1. TypeOK' /\ HoldsWhileInCall' /\ CapacityIsOwn'
    BY DEF TypeOK, HoldsWhileInCall, CapacityIsOwn
  <2>2. CountsAreExact'
    BY DEF Memory, CountsAreExact, References
  <2>3. NothingIsRetained' /\ CountedIsLive'
    BY DEF Memory, NothingIsRetained, CountedIsLive, TypeOK
  <2> QED BY <2>1, <2>2, <2>3 DEF Memory
<1>9. ASSUME NEW t \in Threads, NEW d \in DataSets, BuildOkay(t, d) PROVE IInv'
  <2> USE <1>9 DEF BuildOkay
  <2>1. TypeOK'
    BY DEF TypeOK, Replace, MaybeDataSet
  <2>2. HoldsWhileInCall' /\ CapacityIsOwn'
    BY DEF TypeOK, HoldsWhileInCall, CapacityIsOwn
  <2>3. Memory'
    BY ReplaceKeepsMemory DEF MaybeDataSet
  <2> QED BY <2>1, <2>2, <2>3
<1>10. ASSUME NEW t \in Threads, BuildNothing(t) PROVE IInv'
  <2>1. TypeOK' /\ HoldsWhileInCall' /\ CapacityIsOwn'
    BY <1>10 DEF BuildNothing, TypeOK, HoldsWhileInCall, CapacityIsOwn
  <2>2. Memory'
    BY <1>10, MoveKeepsMemory DEF BuildNothing, References
  <2> QED BY <2>1, <2>2
<1>11. CASE EngineDestroy
  <2>1. TypeOK' /\ HoldsWhileInCall' /\ CapacityIsOwn'
    BY <1>11 DEF EngineDestroy, TypeOK, HoldsWhileInCall, CapacityIsOwn
  <2>2. Memory'
    BY <1>11, MoveKeepsMemory DEF EngineDestroy, References
  <2> QED BY <2>1, <2>2
<1>12. CASE ManagerFree
  <2>1. TypeOK'
    BY <1>12 DEF ManagerFree, TypeOK, Replace, MaybeDataSet
  <2>2. HoldsWhileInCall' /\ CapacityIsOwn'
    BY <1>12 DEF ManagerFree, HoldsWhileInCall, CapacityIsOwn
  <2>3. Memory'
    BY <1>12, ReplaceKeepsMemory DEF ManagerFree, MaybeDataSet
  <2> QED BY <2>1, <2>2, <2>3
<1>13. CASE UNCHANGED vars
  <2>1. TypeOK' /\ HoldsWhileInCall' /\ CapacityIsOwn'
    BY <1>13 DEF vars, TypeOK, HoldsWhileInCall, CapacityIsOwn
  <2>2. Memory'
    BY <1>13, MoveKeepsMemory DEF vars, References
  <2> QED BY <2>1, <2>2
<1>14. ASSUME NEW t \in Threads, StartDetection(t) \/ View(t) \/ Refresh(t) PROVE IInv'
  BY <1>1, <1>14 DEF StartDetection, View, Refresh
<1>15. ASSUME NEW t \in Threads, SizeGet(t) \/ CreateGet(t) \/ ViewGet(t) \/ RefreshGet(t)
       PROVE  IInv'
  BY <1>2, <1>15 DEF SizeGet, CreateGet, ViewGet, RefreshGet
<1>16. ASSUME NEW t \in Threads, SizeRelease(t) PROVE IInv'
  <2>1. dataSet[t] \in DataSets
    BY <1>16 DEF SizeRelease, HoldsWhileInCall, TypeOK, MaybeDataSet
  <2>2. size' \in [Threads -> Nat]
    BY <1>0, <1>16, <2>1 DEF SizeRelease, TypeOK
  <2> QED BY <1>3, <1>16, <2>2 DEF SizeRelease
<1>17. ASSUME NEW t \in Threads, CreateFails(t) \/ ViewRelease(t) \/ RefreshRelease(t)
       PROVE  IInv'
  <2>1. UNCHANGED size => size' \in [Threads -> Nat]
    BY DEF TypeOK
  <2> QED BY <1>3, <1>17, <2>1 DEF CreateFails, ViewRelease, RefreshRelease
<1>18. ASSUME NEW t \in Threads, DetectOkay(t) \/ DetectFailsInC(t) \/ DetectAgain(t)
       PROVE  IInv'
  BY <1>5, <1>18 DEF DetectOkay, DetectFailsInC, DetectAgain
<1>19. ASSUME NEW t \in Threads, DetectFailsInProcessBase(t) \/ FreeResults(t) PROVE IInv'
  BY <1>6, <1>19 DEF DetectFailsInProcessBase, FreeResults
<1>20. ASSUME NEW t \in Threads, Continue(t) PROVE IInv'
  BY <1>4, <1>7, <1>8, <1>9, <1>10, <1>15, <1>16, <1>17, <1>18, <1>19, <1>20 DEF Continue
<1> QED
  BY <1>11, <1>12, <1>13, <1>14, <1>18, <1>19, <1>20 DEF Next

LEMMA SpecInvariant == Spec => []IInv
<1> QED BY InitInvariant, NextInvariant, PTL DEF Spec

-----------------------------------------------------------------------------
(* The variables have their types, and no count is released below zero.      *)
THEOREM Typing == Spec => []TypeOK
<1>1. IInv => TypeOK
  BY DEF IInv
<1> QED BY <1>1, SpecInvariant, PTL

(* The counter of a data set is the number of references that exist to it.   *)
THEOREM Counting == Spec => []CountsAreExact
<1>1. IInv => CountsAreExact
  BY DEF IInv, Memory
<1> QED BY <1>1, SpecInvariant, PTL

(* The counters have their types and count what refers to a data set.        *)
THEOREM TrueCounts == Spec => []CountsAreTrue
BY Typing, Counting, PTL DEF CountsAreTrue

(* No interleaving of refreshes, frees and detections takes the memory away  *)
(* from a call or from results that read through it.                         *)
THEOREM NoUseAfterFree == Spec => []HeldIsLive
<1>1. IInv => HeldIsLive
  <2> SUFFICES ASSUME IInv, NEW t \in Threads
               PROVE  /\ dataSet[t] # NoDataSet => status[dataSet[t]] = "live"
                      /\ results[t] # NoDataSet => status[results[t]] = "live"
    BY DEF HeldIsLive
  <2> QED BY HeldIsCounted DEF IInv, Memory, CountedIsLive
<1> QED BY <1>1, SpecInvariant, PTL

(* Only the active data set and those in use occupy memory.                  *)
THEOREM NoRetention == Spec => []NothingIsRetained
<1>1. IInv => NothingIsRetained
  BY DEF IInv, Memory
<1> QED BY <1>1, SpecInvariant, PTL

(* Results are as large as the data set they refer to needs.                 *)
THEOREM OwnCapacity == Spec => []CapacityIsOwn
<1>1. IInv => CapacityIsOwn
  BY DEF IInv
<1> QED BY <1>1, SpecInvariant, PTL

-----------------------------------------------------------------------------
(* Every step either takes a reference to the active data set, gives one     *)
(* back that is counted, replaces the active data set by a new one or by     *)
(* none, discards a new one, or leaves the memory as it is.                  *)
Effect ==
    \/ /\ active # NoDataSet
       /\ inUse' = [inUse EXCEPT ![active] = @ + 1]
       /\ UNCHANGED <<active, status>>
    \/ \E d \in DataSets : inUse[d] > 0 /\ Release(d) /\ UNCHANGED active
    \/ \E d \in DataSets : /\ status[d] = "unused" /\ Replace(d)
                          /\ active # NoDataSet /\ UNCHANGED inUse
    \/ Replace(NoDataSet) /\ active # NoDataSet /\ UNCHANGED inUse
    \/ \E d \in DataSets : /\ status[d] = "unused"
                          /\ status' = [status EXCEPT ![d] = "freed"]
                          /\ UNCHANGED <<active, inUse>>
    \/ UNCHANGED <<active, status, inUse>>

LEMMA StepEffect == IInv /\ [Next]_vars => Effect
<1> SUFFICES ASSUME IInv, [Next]_vars PROVE Effect
  OBVIOUS
<1> USE DEF shared, local
<1>1. ASSUME NEW t \in Threads, StartDetection(t) \/ View(t) \/ Refresh(t) PROVE Effect
  BY <1>1 DEF Effect, StartDetection, View, Refresh, Start
<1>2. ASSUME NEW t \in Threads, SizeGet(t) \/ CreateGet(t) \/ ViewGet(t) \/ RefreshGet(t)
      PROVE  Effect
  BY <1>2 DEF Effect, SizeGet, CreateGet, ViewGet, RefreshGet, Get
<1>3. ASSUME NEW t \in Threads,
             SizeRelease(t) \/ CreateFails(t) \/ ViewRelease(t) \/ RefreshRelease(t)
      PROVE  Effect
  <2>1. dataSet[t] \in DataSets /\ inUse[dataSet[t]] > 0
    BY <1>3, HeldIsCounted DEF IInv, Memory, HoldsWhileInCall, SizeRelease, CreateFails,
                               ViewRelease, RefreshRelease, At
  <2> QED BY <1>3, <2>1 DEF Effect, SizeRelease, CreateFails, ViewRelease, RefreshRelease
<1>4. ASSUME NEW t \in Threads, DetectFailsInProcessBase(t) \/ FreeResults(t) PROVE Effect
  <2>1. results[t] \in DataSets /\ inUse[results[t]] > 0
    BY <1>4, HeldIsCounted DEF IInv, Memory, HoldsWhileInCall, DetectFailsInProcessBase,
                               FreeResults, At
  <2> QED BY <1>4, <2>1 DEF Effect, DetectFailsInProcessBase, FreeResults, ResultsHashFree
<1>5. ASSUME NEW t \in Threads, CreateResults(t) \/ DetectOkay(t) \/ DetectFailsInC(t)
                               \/ DetectFailsInProcess(t) \/ DetectAgain(t) \/ BuildNothing(t)
      PROVE  Effect
  BY <1>5 DEF Effect, CreateResults, DetectOkay, DetectFailsInC, DetectFailsInProcess, DetectAgain,
              BuildNothing
<1>6. ASSUME NEW t \in Threads, NEW d \in DataSets, BuildFails(t, d) PROVE Effect
  BY <1>6 DEF Effect, BuildFails
<1>7. ASSUME NEW t \in Threads, NEW d \in DataSets, BuildOkay(t, d) PROVE Effect
  <2>1. active # NoDataSet
    <3>1. pc[t] = "build"
      BY <1>7 DEF BuildOkay, At
    <3> QED BY <3>1 DEF IInv, EngineClosed
  <2> QED BY <1>7, <2>1 DEF Effect, BuildOkay
<1>8. CASE EngineDestroy
  BY <1>8 DEF Effect, EngineDestroy
<1>9. CASE ManagerFree
  BY <1>9 DEF Effect, ManagerFree
<1>10. CASE UNCHANGED vars
  BY <1>10 DEF Effect, vars
<1>11. ASSUME NEW t \in Threads, Continue(t) PROVE Effect
  BY <1>2, <1>3, <1>4, <1>5, <1>6, <1>7, <1>11 DEF Continue
<1> QED BY <1>1, <1>4, <1>5, <1>8, <1>9, <1>10, <1>11 DEF Next

(* What was freed stays freed, and nothing counts it again.                  *)
THEOREM FreedOnce == Spec => FreedForGood
<1>1. IInv /\ [Next]_vars =>
        [ \A d \in DataSets : status[d] = "freed" => status'[d] = "freed"
                                                   /\ inUse'[d] = inUse[d] ]_vars
  <2> SUFFICES ASSUME IInv, [Next]_vars, NEW d \in DataSets, status[d] = "freed"
               PROVE  status'[d] = "freed" /\ inUse'[d] = inUse[d]
    OBVIOUS
  <2>1. inUse \in [DataSets -> Nat] /\ status \in [DataSets -> {"unused", "live", "freed"}]
        /\ d # active /\ ~ (inUse[d] > 0)
    BY DataSetsAssumption DEF IInv, Memory, CountedIsLive, TypeOK
  <2> QED BY <2>1, StepEffect, DataSetsAssumption DEF Effect, Release, Replace
<1> QED BY <1>1, SpecInvariant, PTL DEF Spec, FreedForGood

(* Every call that runs finds a manager with a data set.                     *)
THEOREM ManagerLife == Spec => []ManagerOutlivesCalls
<1>1. IInv => ManagerOutlivesCalls
  BY DEF IInv, EngineClosed, ManagerOutlivesCalls
<1> QED BY <1>1, SpecInvariant, PTL

(* The memory that calls and results read is there, no more than that is     *)
(* kept, and the manager is there as long as a call runs.                    *)
THEOREM HeldMemory == Spec => []MemoryIsHeld
BY NoUseAfterFree, NoRetention, ManagerLife, PTL DEF MemoryIsHeld

-----------------------------------------------------------------------------
(* The calls share the data as SharedData says: the counters stand for the   *)
(* users, and freeing with the last counted reference is freeing with the    *)
(* last user.                                                                *)
LEMMA HeldIsInUse ==
    ASSUME TypeOK, CountsAreExact
    PROVE  [d \in DataSets |-> References(d)] = inUse
BY DEF TypeOK, CountsAreExact

LEMMA HeldIsInUseNext ==
    ASSUME TypeOK', CountsAreExact'
    PROVE  [d \in DataSets |-> References(d)]' = inUse'
BY DEF TypeOK, CountsAreExact

THEOREM Refinement == Spec => ImplementsSharedData
<1> DEFINE held == [d \in DataSets |-> References(d)]
           gone == {d \in DataSets : status[d] = "freed"}
<1>1. Init => Shared!Init
  <2> SUFFICES ASSUME Init PROVE Shared!Init
    OBVIOUS
  <2>1. held = inUse
    BY InitInvariant, HeldIsInUse DEF IInv, Memory
  <2>2. gone = {} /\ active \in DataSets
    BY DataSetsAssumption DEF Init
  <2> QED BY <2>1, <2>2 DEF Shared!Init, Init
<1>2. IInv /\ IInv' /\ [Next]_vars => [Shared!Next]_(Shared!vars)
  <2> SUFFICES ASSUME IInv, IInv', [Next]_vars
               PROVE  Shared!Next \/ UNCHANGED Shared!vars
    OBVIOUS
  <2>1. held = inUse /\ held' = inUse'
    BY HeldIsInUse, HeldIsInUseNext DEF IInv, Memory
  <2>2. inUse \in [DataSets -> Nat] /\ status \in [DataSets -> {"unused", "live", "freed"}]
        /\ active \in MaybeDataSet /\ NoDataSet \notin DataSets
    BY DataSetsAssumption DEF IInv, TypeOK
  <2>3. /\ active # NoDataSet => status[active] = "live"
        /\ \A d \in DataSets : inUse[d] > 0 => status[d] = "live"
    BY DEF IInv, Memory, CountedIsLive
  <2>4. CASE /\ active # NoDataSet
             /\ inUse' = [inUse EXCEPT ![active] = @ + 1]
             /\ UNCHANGED <<active, status>>
    <3>1. Shared!Acquire
      BY <2>1, <2>4 DEF Shared!Acquire
    <3> QED BY <3>1 DEF Shared!Next
  <2>5. ASSUME NEW d \in DataSets, inUse[d] > 0, Release(d), UNCHANGED active
        PROVE  Shared!Next
    <3>1. gone' = IF inUse[d] = 1 /\ d # active THEN gone \cup {d} ELSE gone
      BY <2>2, <2>5 DEF Release
    <3>2. Shared!LetGo(d)
      BY <2>1, <2>5, <3>1 DEF Shared!LetGo, Release
    <3> QED BY <3>2 DEF Shared!Next
  <2>6. ASSUME NEW d \in MaybeDataSet, d # NoDataSet => status[d] = "unused", Replace(d),
               active # NoDataSet, UNCHANGED inUse
        PROVE  Shared!Next
    <3>1. d \notin gone \cup {active}
      BY <2>2, <2>3, <2>6 DEF MaybeDataSet
    <3>2. gone' = IF inUse[active] = 0 THEN gone \cup {active} ELSE gone
      BY <2>2, <2>6, <3>1 DEF Replace, MaybeDataSet
    <3>3. Shared!Install(d)
      BY <2>1, <2>6, <3>1, <3>2 DEF Shared!Install, Replace
    <3> QED BY <3>3 DEF Shared!Next, MaybeDataSet
  <2>7. ASSUME NEW d \in DataSets, status[d] = "unused",
               status' = [status EXCEPT ![d] = "freed"], UNCHANGED <<active, inUse>>
        PROVE  Shared!Next
    <3>1. gone' = gone \cup {d} /\ d \notin gone \cup {active} /\ inUse[d] = 0
      BY <2>2, <2>3, <2>7
    <3>2. Shared!Discard(d)
      BY <2>1, <2>7, <3>1 DEF Shared!Discard
    <3> QED BY <3>2 DEF Shared!Next
  <2>8. CASE UNCHANGED <<active, status, inUse>>
    BY <2>1, <2>8 DEF Shared!vars
  <2>9. NoDataSet \in MaybeDataSet /\ DataSets \subseteq MaybeDataSet
    BY DEF MaybeDataSet
  <2> QED BY <2>2, <2>4, <2>5, <2>6, <2>7, <2>8, <2>9, StepEffect DEF Effect
<1> QED BY <1>1, <1>2, SpecInvariant, PTL DEF Spec, ImplementsSharedData, Shared!Spec
=============================================================================
