-------------------------- MODULE InitDataSetProofs --------------------------
(* Whatever a caller asks for and whichever stage fails: a manager has a     *)
(* whole data set; and, unless pointers that were never set are freed,       *)
(* memory that is the caller's is kept, and what a data set from a file had  *)
(* built is freed once.  Such pointers are freed only when there are several *)
(* components, and no manager comes of it.                                   *)
EXTENDS InitDataSet, TLAPS

-----------------------------------------------------------------------------
(* The strengthening: what is allocated at each stage.                       *)
NothingFreed == \A r \in Resources : frees[r] = 0

InMemory == ~ FromFile \/ call.allInMemory

(* A data set that a manager may have.                                       *)
Whole ==
    /\ NothingFreed
    /\ {"dataSet"} \cup Parts \subseteq held
    /\ InMemory => "memory" \in held

(* Before the data set is allocated.                                         *)
BeginsEmpty ==
    pc = "begin" =>
        /\ NothingFreed
        /\ ~ manager
        /\ FromFile => held = {}
        /\ ~ FromFile => held = {"memory"}

(* Only a file is opened and loaded.                                         *)
LoadsFile == pc \in {"open", "load"} => FromFile

(* While it is initialised, nothing is freed, and every stage that is over   *)
(* has left its part.                                                        *)
StagesBuild ==
    /\ pc \in {"open", "load", "entropy"} \cup Parts =>
        /\ NothingFreed
        /\ "dataSet" \in held
        /\ ~ manager
        /\ FromFile => ("memory" \in held <=> memoryToFree)
    /\ pc \in {"entropy"} \cup Parts => (InMemory => "memory" \in held)
    /\ pc \in {"properties", "components", "indices", "headers", "entropy"} => "collections" \in held
    /\ pc \in {"components", "indices", "headers", "entropy"} => "properties" \in held
    /\ pc \in {"indices", "headers", "entropy"} => "components" \in held
    /\ pc \in {"headers", "entropy"} => "indices" \in held /\ IsInitialised
    /\ pc = "entropy" => "headers" \in held

(* When it is over, a success has a whole data set.                          *)
SuccessIsWhole ==
    /\ pc = "initialised" =>
        /\ ~ manager
        /\ IsInitialised => Whole
        /\ FromFile /\ IsInitialised => ("memory" \in held <=> memoryToFree)
    /\ manager => pc \in {"returned", "done"}

(* To free pointers that were never set is the end of a call that fails.     *)
UnsetRaises == UnsetFreed => Components > 1 /\ exception /\ ~ manager

(* From a file, what was freed is not held, and what is left is all or none. *)
FileIsFreed ==
    FromFile /\ ~ UnsetFreed =>
        /\ \A r \in Resources : frees[r] = 0 \/ (frees[r] = 1 /\ r \notin held)
        /\ pc \in {"initialised", "returned", "done"} => held = {} \/ Parts \subseteq held

(* The memory of a caller is not the data set's, nor the engine's.           *)
CallerOwns ==
    ~ FromFile /\ ~ call.freeData =>
        /\ ~ UnsetFreed => "memory" \in held /\ frees["memory"] = 0
        /\ ~ memoryToFree
        /\ ~ call.engine

(* A success has a manager, which owns all that is allocated for it, until   *)
(* the memory was measured.                                                  *)
Measured ==
    /\ pc = "returned" /\ IsInitialised => manager
    /\ manager /\ FromFile => ("memory" \in held <=> memoryToFree)
    /\ MeasuredIsFreed

IInv ==
    /\ TypeOK
    /\ BeginsEmpty
    /\ LoadsFile
    /\ StagesBuild
    /\ SuccessIsWhole
    /\ UnsetRaises
    /\ FileIsFreed
    /\ CallerOwns
    /\ Measured
    /\ ManagerIsComplete

-----------------------------------------------------------------------------
(* What was freed is no longer held and is counted once more.                *)
LEMMA FreeEffect ==
    ASSUME TypeOK, NEW rs \in SUBSET Resources, Free(rs)
    PROVE  /\ held' = held \ rs
           /\ frees' \in [Resources -> Nat]
           /\ \A r \in Resources : frees'[r] \in {frees[r], frees[r] + 1}
           /\ \A r \in Resources \ rs : frees'[r] = frees[r]
<1>1. frees \in [Resources -> Nat]
  BY DEF TypeOK
<1>2. \A r \in Resources : frees'[r] = frees[r] + (IF r \in rs THEN 1 ELSE 0)
  BY DEF Free
<1>3. frees' = [r \in Resources |-> frees[r] + (IF r \in rs THEN 1 ELSE 0)]
  BY DEF Free
<1>4. frees' \in [Resources -> Nat]
  BY <1>1, <1>3
<1>5. ASSUME NEW r \in Resources
      PROVE  frees'[r] \in {frees[r], frees[r] + 1} /\ (r \notin rs => frees'[r] = frees[r])
  BY <1>1, <1>2
<1> QED BY <1>4, <1>5 DEF Free

(* freeDataSet frees the memory only if it is the data set's.                *)
LEMMA DataSetFreed ==
    ASSUME TypeOK, NEW piece \in SUBSET Parts, FreeDataSetWith(piece)
    PROVE  /\ held' \subseteq held
           /\ frees' \in [Resources -> Nat]
           /\ frees'["unset"] = frees["unset"]
           /\ ~ memoryToFree => /\ "memory" \in held => "memory" \in held'
                               /\ frees'["memory"] = frees["memory"]
<1> DEFINE rs == (held \cap Parts) \cup piece \cup {"dataSet"}
                    \cup (IF memoryToFree THEN {"memory"} ELSE {})
<1>1. rs \in SUBSET Resources /\ Free(rs) /\ "unset" \in Resources \ rs
  BY DEF FreeDataSetWith, Resources, Allocated, Parts
<1>2. ~ memoryToFree => "memory" \in Resources \ rs
  BY DEF Resources, Allocated, Parts
<1> HIDE DEF rs
<1> QED BY <1>1, <1>2, FreeEffect

(* A data set from a file that owns the memory it lies in is freed whole.    *)
LEMMA WholeFreed ==
    ASSUME TypeOK, NothingFreed, "memory" \in held <=> memoryToFree,
           NEW piece \in SUBSET Parts, FreeDataSetWith(piece)
    PROVE  /\ held' = {}
           /\ frees' \in [Resources -> Nat]
           /\ frees'["unset"] = 0
           /\ \A r \in Resources : frees'[r] \in {0, 1}
<1> DEFINE rs == (held \cap Parts) \cup piece \cup {"dataSet"}
                    \cup (IF memoryToFree THEN {"memory"} ELSE {})
<1>1. rs \in SUBSET Resources /\ Free(rs) /\ "unset" \in Resources \ rs
  BY DEF FreeDataSetWith, Resources, Allocated, Parts
<1>2. held \subseteq rs
  BY DEF TypeOK, Allocated
<1> HIDE DEF rs
<1>3. /\ held' = {}
      /\ frees' \in [Resources -> Nat]
      /\ frees'["unset"] = frees["unset"]
      /\ \A r \in Resources : frees'[r] \in {frees[r], frees[r] + 1}
  BY <1>1, <1>2, FreeEffect
<1> QED BY <1>1, <1>3 DEF NothingFreed

Stages == {"open", "load", "entropy"} \cup Parts

(* A stage that fails, whether or not what it had built is freed.            *)
LEMMA StageEnds ==
    ASSUME IInv, pc \in Stages,
           pc' = "initialised", ~ IsInitialised',
           status' \in {"success", "failure"}, exception' \in BOOLEAN,
           UNCHANGED <<call, memoryToFree, manager>>,
           \/ \E piece \in SUBSET Parts : FreeDataSetWith(piece)
           \/ /\ ~ FromFile
              /\ held \subseteq held' /\ held' \subseteq Allocated
              /\ UNCHANGED frees
    PROVE  IInv'
<1>1. /\ TypeOK /\ NothingFreed /\ ~ manager
      /\ FromFile => ("memory" \in held <=> memoryToFree)
  BY DEF IInv, StagesBuild, Stages
<1>2. /\ held' \subseteq Allocated
      /\ frees' \in [Resources -> Nat]
      /\ frees'["unset"] = frees["unset"]
      /\ ~ memoryToFree => /\ "memory" \in held => "memory" \in held'
                          /\ frees'["memory"] = frees["memory"]
  BY <1>1, DataSetFreed DEF TypeOK
<1>3. ~ UnsetFreed'
  BY <1>1, <1>2 DEF NothingFreed, UnsetFreed, Resources, Allocated
<1>4. FromFile => held' = {} /\ \A r \in Resources : frees'[r] \in {0, 1}
  BY <1>1, WholeFreed
<1>5. TypeOK'
  BY <1>1, <1>2 DEF TypeOK
<1>6. BeginsEmpty' /\ LoadsFile' /\ StagesBuild' /\ SuccessIsWhole'
      /\ Measured' /\ ManagerIsComplete'
  BY <1>1 DEF
          BeginsEmpty, LoadsFile, StagesBuild, SuccessIsWhole,
          ManagerIsComplete, Measured, MeasuredIsFreed, Parts
<1>7. FileIsFreed' /\ UnsetRaises'
  BY <1>4, <1>3 DEF FileIsFreed, FromFile, UnsetRaises
<1>8. CallerOwns'
  BY <1>1, <1>2 DEF IInv, CallerOwns, FromFile, UnsetFreed, NothingFreed, Resources, Allocated
<1> QED BY <1>5, <1>6, <1>7, <1>8 DEF IInv

(* What a stage that leaves its part preserves.                              *)
PartIsBuilt ==
    /\ held \subseteq Allocated
    /\ frees \in [Resources -> Nat]
    /\ NothingFreed
    /\ ~ manager
    /\ "dataSet" \in held
    /\ FromFile => ("memory" \in held <=> memoryToFree)
    /\ BeginsEmpty
    /\ SuccessIsWhole
    /\ UnsetRaises
    /\ FileIsFreed
    /\ CallerOwns
    /\ Measured
    /\ ManagerIsComplete

(* A stage that leaves its part, or memory that the data set is to free.     *)
LEMMA StageBuilds ==
    ASSUME IInv, pc \in Stages, NEW r \in Allocated, Build(r),
           UNCHANGED <<call, manager>>, FromFile \/ UNCHANGED memoryToFree,
           memoryToFree' \in BOOLEAN,
           FromFile => IF r = "memory" THEN memoryToFree' ELSE UNCHANGED memoryToFree,
           pc' \in Stages
    PROVE  PartIsBuilt'
<1>1. /\ TypeOK /\ NothingFreed /\ ~ manager /\ "dataSet" \in held
      /\ FromFile => ("memory" \in held <=> memoryToFree)
  BY DEF IInv, StagesBuild, Stages
<1>2. held' = held \cup {r} /\ frees' = frees
  BY DEF Build
<1>3. /\ held' \subseteq Allocated /\ frees' \in [Resources -> Nat]
      /\ NothingFreed' /\ ~ manager' /\ "dataSet" \in held'
  BY <1>1, <1>2 DEF TypeOK, NothingFreed
<1>4. FromFile' => ("memory" \in held' <=> memoryToFree')
  BY <1>1, <1>2 DEF FromFile
<1>5. BeginsEmpty' /\ SuccessIsWhole' /\ Measured' /\ ManagerIsComplete'
  BY <1>1 DEF BeginsEmpty, SuccessIsWhole, ManagerIsComplete, Measured,
          MeasuredIsFreed, Stages, Parts
<1>6. FileIsFreed' /\ UnsetRaises'
  BY <1>3 DEF FileIsFreed, UnsetRaises, UnsetFreed, Stages, Parts, NothingFreed, Resources, Allocated
<1>7. CallerOwns'
  BY <1>1, <1>2 DEF IInv, CallerOwns, FromFile, UnsetFreed, NothingFreed, Resources, Allocated
<1> QED BY <1>3, <1>4, <1>5, <1>6, <1>7 DEF PartIsBuilt

LEMMA InitInvariant == Init => IInv
<1> SUFFICES ASSUME Init PROVE IInv
  OBVIOUS
<1> USE DEF Init
<1>0. IsCall(call)
  BY CallsAssumption
<1>1. TypeOK
  BY DEF TypeOK, Resources, Allocated, Parts
<1>2. BeginsEmpty /\ LoadsFile /\ StagesBuild /\ SuccessIsWhole /\ UnsetRaises /\ FileIsFreed
      /\ Measured /\ ManagerIsComplete
  BY DEF
          BeginsEmpty, LoadsFile, StagesBuild, SuccessIsWhole, UnsetRaises, UnsetFreed, FileIsFreed,
          ManagerIsComplete, Measured, MeasuredIsFreed, NothingFreed, Parts,
          Resources, Allocated
<1>3. CallerOwns
  BY <1>0 DEF CallerOwns, IsCall, FromFile, Resources, Allocated
<1> QED BY <1>1, <1>2, <1>3 DEF IInv

(* A stage of initDataSet preserves the strengthening when its success does. *)
LEMMA StageInvariant ==
    ASSUME IInv, NEW s \in Parts, FileStageFails(s) \/ MemoryStageFails(s)
    PROVE  IInv'
<1>1. /\ pc \in Stages
      /\ pc' = "initialised" /\ ~ IsInitialised'
      /\ status' \in {"success", "failure"} /\ exception' \in BOOLEAN
      /\ UNCHANGED <<call, memoryToFree, manager>>
  BY DEF FileStageFails, MemoryStageFails, StageFails, Stages, IsInitialised
<1>2. CASE FileStageFails(s)
  <2>1. \E piece \in SUBSET Parts : FreeDataSetWith(piece)
    BY <1>2 DEF FileStageFails, FreeUnfinished
  <2> QED BY <1>1, <2>1, StageEnds
<1>3. CASE MemoryStageFails(s)
  <2>1. /\ ~ FromFile
        /\ held \subseteq held' /\ held' \subseteq Allocated
        /\ UNCHANGED frees
    BY <1>3 DEF MemoryStageFails, Build, FreeNothing, IInv, TypeOK, Resources, Allocated
  <2> QED BY <1>1, <2>1, StageEnds
<1> QED BY <1>2, <1>3

(* The next stage finds the parts of the stages before it.                   *)
LEMMA StageOkayInvariant ==
    ASSUME IInv, NEW s, NEW next, StageOkay(s, next),
           <<s, next>> \in {<<"collections", "properties">>, <<"properties", "components">>,
                            <<"components", "indices">>}
    PROVE  IInv'
<1>1. /\ s \in Allocated /\ pc = s /\ s # "memory"
      /\ pc \in Stages /\ pc' = next /\ next \in Stages
      /\ Build(s) /\ status' = "success"
      /\ UNCHANGED <<call, exception, memoryToFree, manager>>
  BY DEF StageOkay, Stages, Parts, Resources, Allocated
<1>2. exception \in BOOLEAN /\ memoryToFree \in BOOLEAN
  BY DEF IInv, TypeOK
<1>3. PartIsBuilt'
  BY <1>1, <1>2, StageBuilds
<1>4. TypeOK'
  BY <1>1, <1>3 DEF IInv, PartIsBuilt, TypeOK, Stages
<1>5. StagesBuild'
  BY <1>1, <1>3 DEF IInv, PartIsBuilt, StagesBuild, Build, InMemory, FromFile, Parts
<1> QED BY <1>1, <1>3, <1>4, <1>5 DEF IInv, LoadsFile, PartIsBuilt

LEMMA NextInvariant == IInv /\ [Next]_vars => IInv'
<1> SUFFICES ASSUME IInv, [Next]_vars PROVE IInv'
  OBVIOUS
<1>0. TypeOK /\ {exception, memoryToFree, manager} \subseteq BOOLEAN
  BY DEF IInv, TypeOK
<1>1. CASE RefuseConfig
  BY <1>1 DEF
          RefuseConfig, IInv, TypeOK, BeginsEmpty, LoadsFile, StagesBuild,
          SuccessIsWhole, UnsetRaises, UnsetFreed, FileIsFreed, CallerOwns, ManagerIsComplete, Measured,
          MeasuredIsFreed, FromFile,
          IsInitialised, Parts, NothingFreed
<1>2. CASE NoMemory
  BY <1>2 DEF
          NoMemory, IInv, TypeOK, BeginsEmpty, LoadsFile, StagesBuild,
          SuccessIsWhole, UnsetRaises, UnsetFreed, FileIsFreed, CallerOwns, ManagerIsComplete, Measured,
          MeasuredIsFreed, FromFile,
          IsInitialised, Parts, NothingFreed
<1>3. CASE Allocate
  <2>1. /\ pc = "begin" /\ held' = held \cup {"dataSet"} /\ UNCHANGED frees
        /\ UNCHANGED <<call, status, exception, manager>>
        /\ memoryToFree' = (~ FromFile /\ call.freeData)
        /\ pc' = IF FromFile THEN "open" ELSE "collections"
    BY <1>3 DEF Allocate, Build
  <2>2. NothingFreed' /\ ~ manager' /\ FromFile => held = {}
    BY <2>1 DEF IInv, BeginsEmpty, NothingFreed
  <2>3. ~ FromFile => "memory" \in held
    BY <2>1 DEF IInv, BeginsEmpty, StagesBuild
  <2>4. TypeOK'
    BY <1>0, <2>1 DEF TypeOK, Parts, Resources, Allocated
  <2> QED BY <2>1, <2>2, <2>3, <2>4 DEF
          IInv, BeginsEmpty, LoadsFile, StagesBuild, SuccessIsWhole,
          UnsetRaises, UnsetFreed, FileIsFreed, CallerOwns, ManagerIsComplete, Measured,
          MeasuredIsFreed, InMemory, NothingFreed,
          FromFile, Parts
<1>4. CASE Open
  <2>1. CASE pc' = "initialised"
    <3>1. FreeDataSetWith({}) /\ pc \in Stages /\ ~ IsInitialised' /\ status' = "failure"
          /\ UNCHANGED <<call, exception, memoryToFree, manager>>
      BY <1>4, <2>1 DEF Open, FreeDataSet, Stages, IsInitialised
    <3> QED BY <1>0, <2>1, <3>1, StageEnds
  <2>2. CASE pc' # "initialised"
    BY <1>4, <2>2 DEF
            Open, FreeNothing, IInv, TypeOK, BeginsEmpty, LoadsFile,
            StagesBuild, SuccessIsWhole, UnsetRaises, UnsetFreed, FileIsFreed, CallerOwns,
            ManagerIsComplete, Measured, MeasuredIsFreed, NothingFreed,
            InMemory, FromFile, Parts
  <2> QED BY <2>1, <2>2
<1>5. CASE Load
  <2>1. CASE pc' = "initialised"
    <3>1. FreeDataSetWith({}) /\ pc \in Stages /\ ~ IsInitialised' /\ status' = "failure"
          /\ UNCHANGED <<call, exception, memoryToFree, manager>>
      BY <1>5, <2>1 DEF Load, FreeDataSet, Stages, IsInitialised
    <3> QED BY <1>0, <2>1, <3>1, StageEnds
  <2>2. CASE pc' # "initialised"
    <3>1. /\ pc = "load" /\ pc' = "collections" /\ Build("memory") /\ memoryToFree' = TRUE
          /\ UNCHANGED <<call, status, exception, manager>>
      BY <1>5, <2>2 DEF Load
    <3>0. FromFile
      BY <3>1 DEF IInv, LoadsFile
    <3>2. PartIsBuilt'
      BY <3>1, <3>0, StageBuilds DEF Stages, Parts, Resources, Allocated
    <3>3. TypeOK' /\ StagesBuild'
      BY <3>1, <3>2 DEF IInv, PartIsBuilt, TypeOK, StagesBuild, Build, Parts
    <3> QED BY <3>1, <3>2, <3>3 DEF IInv, LoadsFile, PartIsBuilt
  <2> QED BY <2>1, <2>2
<1>6. CASE InitWithMemory \/ InitWithFile
  BY <1>6, StageInvariant, StageOkayInvariant DEF InitWithMemory, InitWithFile, ReadCollections, Parts
<1>7. CASE InitPropertiesAndHeaders
  BY <1>7, StageInvariant, StageOkayInvariant DEF InitPropertiesAndHeaders, Parts
<1>8. CASE InitComponentsAvailable
  <2>1. CASE pc' = "indices" /\ ~ StageOkay("components", "indices")
    <3>1. /\ pc = "components" /\ pc' = "indices" /\ Build("components")
          /\ status' = "failure" /\ exception' \in BOOLEAN
          /\ UNCHANGED <<call, memoryToFree, manager>>
      BY <1>8, <2>1 DEF InitComponentsAvailable, FileStageFails, StageFails
    <3>2. PartIsBuilt'
      BY <1>0, <3>1, StageBuilds DEF Stages, Parts, Resources, Allocated
    <3>3. TypeOK' /\ StagesBuild'
      BY <3>1, <3>2 DEF
              IInv, PartIsBuilt, TypeOK, StagesBuild, Build, InMemory, FromFile,
              Parts
    <3> QED BY <3>1, <3>2, <3>3 DEF IInv, LoadsFile, PartIsBuilt
  <2>2. CASE StageOkay("components", "indices")
    BY <2>2, StageOkayInvariant
  <2>3. CASE FileStageFails("components")
    BY <2>3, StageInvariant DEF Parts
  <2> QED BY <1>8, <2>1, <2>2, <2>3 DEF InitComponentsAvailable
<1>9. CASE InitIndicesPropertyProfile
  <2>1. CASE pc' = "initialised"
    <3>1. /\ (\E piece \in SUBSET Parts : FreeDataSetWith(piece)) /\ pc \in Stages /\ ~ IsInitialised'
          /\ exception' \in BOOLEAN /\ status' \in {"success", "failure"}
          /\ UNCHANGED <<call, memoryToFree, manager>>
      BY <1>0, <1>9, <2>1 DEF
              InitIndicesPropertyProfile, FreeUnfinished, Stages, Parts,
              IsInitialised, TypeOK
    <3> QED BY <1>0, <2>1, <3>1, StageEnds
  <2>2. CASE pc' # "initialised"
    <3>1. /\ pc = "indices" /\ pc' = "headers" /\ Build("indices")
          /\ IsInitialised' /\ exception' \in BOOLEAN
          /\ UNCHANGED <<call, status, memoryToFree, manager>>
      BY <1>0, <1>9, <2>2 DEF InitIndicesPropertyProfile, IsInitialised
    <3>2. PartIsBuilt'
      BY <1>0, <3>1, StageBuilds DEF Stages, Parts, Resources, Allocated
    <3>3. TypeOK' /\ StagesBuild'
      BY <3>1, <3>2 DEF
              IInv, PartIsBuilt, TypeOK, StagesBuild, Build, InMemory, FromFile,
              Parts
    <3> QED BY <3>1, <3>2, <3>3 DEF IInv, LoadsFile, PartIsBuilt
  <2> QED BY <2>1, <2>2
<1>10. CASE InitComponentHeaders
  <2>0. CASE Components > 1 /\ FreeUnset /\ exception'
    <3>0. /\ pc = "headers" /\ exception' /\ ~ manager
          /\ UNCHANGED <<call, status, memoryToFree, manager>>
      BY <1>10, <2>0 DEF InitComponentHeaders, IInv, StagesBuild, Parts
    <3>1. /\ held' \subseteq Allocated /\ frees' \in [Resources -> Nat] /\ UnsetFreed'
          /\ pc' \in {"crashed", "initialised"}
      <4>1. /\ frees \in [Resources -> Nat] /\ held \subseteq Allocated /\ "unset" \in Resources
            /\ frees["unset"] = 0
        BY <1>0, <3>0 DEF TypeOK, IInv, StagesBuild, NothingFreed, Resources, Parts
      <4>2. CASE Free({"unset"}) /\ pc' = "crashed"
        BY <4>1, <4>2 DEF Free, UnsetFreed
      <4>3. CASE ~ (Free({"unset"}) /\ pc' = "crashed")
        <5> DEFINE rs == (held \cap Parts) \cup {"headers", "dataSet", "unset"}
                            \cup (IF memoryToFree THEN {"memory"} ELSE {})
        <5>1. PICK stray \in SUBSET held :
                /\ held' = held \ (rs \cup stray)
                /\ frees' = [r \in Resources |->
                        frees[r] + (IF r \in rs THEN 1 ELSE 0) + (IF r \in stray THEN 1 ELSE 0)]
                /\ pc' = "initialised"
          BY <2>0, <4>3 DEF FreeUnset
        <5>2. "unset" \in rs
          OBVIOUS
        <5> HIDE DEF rs
        <5> QED BY <4>1, <5>1, <5>2 DEF UnsetFreed
      <4> QED BY <4>2, <4>3
    <3>2. TypeOK'
      BY <1>0, <3>0, <3>1 DEF TypeOK
    <3>3. UnsetRaises' /\ FileIsFreed' /\ CallerOwns'
      BY <2>0, <3>0, <3>1 DEF UnsetRaises, FileIsFreed, CallerOwns, IInv, FromFile
    <3> QED BY <3>0, <3>1, <3>2, <3>3 DEF
            IInv, BeginsEmpty, LoadsFile, StagesBuild, SuccessIsWhole, ManagerIsComplete,
            Measured, MeasuredIsFreed, IsInitialised, Parts
  <2>1. CASE ~ (Components > 1 /\ FreeUnset /\ exception') /\ pc' = "initialised"
    <3>1. /\ (\E piece \in SUBSET Parts : FreeDataSetWith(piece)) /\ pc \in Stages /\ ~ IsInitialised'
          /\ exception' \in BOOLEAN /\ status' \in {"success", "failure"}
          /\ UNCHANGED <<call, memoryToFree, manager>>
      BY <1>0, <1>10, <2>1 DEF
              InitComponentHeaders, FreeUnfinished, Stages, Parts, IsInitialised,
              TypeOK
    <3> QED BY <1>0, <2>1, <3>1, StageEnds
  <2>2. CASE ~ (Components > 1 /\ FreeUnset /\ exception') /\ pc' # "initialised"
    <3>1. /\ pc = "headers" /\ pc' = "entropy" /\ Build("headers")
          /\ UNCHANGED <<call, status, exception, memoryToFree, manager>>
      BY <1>10, <2>2 DEF InitComponentHeaders
    <3>2. PartIsBuilt'
      BY <1>0, <3>1, StageBuilds DEF Stages, Parts, Resources, Allocated
    <3>3. TypeOK' /\ StagesBuild'
      BY <3>1, <3>2 DEF
              IInv, PartIsBuilt, TypeOK, StagesBuild, Build, InMemory, FromFile,
              Parts, IsInitialised
    <3> QED BY <3>1, <3>2, <3>3 DEF IInv, LoadsFile, PartIsBuilt
  <2> QED BY <2>0, <2>1, <2>2
<1>11. CASE InitGetHighEntropyValues
  BY <1>11 DEF
          InitGetHighEntropyValues, IInv, TypeOK, BeginsEmpty, LoadsFile,
          StagesBuild, SuccessIsWhole, UnsetRaises, UnsetFreed, FileIsFreed, CallerOwns,
          ManagerIsComplete, Measured, MeasuredIsFreed, NothingFreed, Whole,
          InMemory, IsInitialised,
          FromFile, Parts
<1>12. CASE GiveUp
  <2>1. /\ pc = "initialised" /\ pc' = "returned" /\ ~ manager /\ ~ IsInitialised
        /\ UNCHANGED <<call, status, exception, memoryToFree, manager>>
    BY <1>12 DEF GiveUp, IInv, SuccessIsWhole
  <2>2. /\ FromFile => UNCHANGED <<held, frees>>
        /\ held' \subseteq Allocated /\ frees' \in [Resources -> Nat]
        /\ "memory" \in held => "memory" \in held'
        /\ frees'["memory"] = frees["memory"]
        /\ UnsetFreed' = UnsetFreed
    <3>1. CASE FromFile
      BY <1>0, <1>12, <3>1 DEF GiveUp, FreeNothing, TypeOK, UnsetFreed
    <3>2. CASE ~ FromFile
      <4>1. Free({"dataSet"}) /\ {"dataSet"} \in SUBSET Resources /\ {"memory", "unset"} \subseteq Resources \ {"dataSet"}
        BY <1>12, <3>2 DEF GiveUp, Resources, Allocated
      <4>2. frees'["memory"] = frees["memory"] /\ frees'["unset"] = frees["unset"]
        BY <1>0, <4>1, FreeEffect
      <4> QED BY <1>0, <3>2, <4>1, <4>2, FreeEffect DEF TypeOK, UnsetFreed
    <3> QED BY <3>1, <3>2
  <2>3. TypeOK' /\ BeginsEmpty' /\ LoadsFile' /\ StagesBuild' /\ SuccessIsWhole'
      /\ Measured' /\ ManagerIsComplete'
    BY <1>0, <2>1, <2>2 DEF
            TypeOK, BeginsEmpty, LoadsFile, StagesBuild, SuccessIsWhole,
            ManagerIsComplete, Measured, MeasuredIsFreed, IsInitialised, FromFile, Parts
  <2>4. UnsetRaises' /\ FileIsFreed' /\ CallerOwns'
    BY <2>1, <2>2 DEF IInv, UnsetRaises, UnsetFreed, FileIsFreed, CallerOwns, FromFile
  <2> QED BY <2>1, <2>3, <2>4 DEF IInv
<1>13. CASE Manage
  BY <1>13 DEF
          Manage, IInv, TypeOK, BeginsEmpty, LoadsFile, StagesBuild,
          SuccessIsWhole, UnsetRaises, UnsetFreed, FileIsFreed, CallerOwns, ManagerIsComplete, Measured,
          MeasuredIsFreed,
          NothingFreed, Whole, InMemory, IsInitialised, FromFile, Parts
<1>14. CASE ManageFails
  <2>1. /\ pc = "initialised" /\ pc' = "returned" /\ ~ manager /\ NothingFreed
        /\ FreeDataSetWith({}) /\ status' = "failure"
        /\ FromFile => ("memory" \in held <=> memoryToFree)
        /\ UNCHANGED <<call, exception, memoryToFree, manager>>
    BY <1>14 DEF ManageFails, FreeDataSet, IInv, SuccessIsWhole, Whole
  <2>2. /\ held' \subseteq held /\ frees' \in [Resources -> Nat]
        /\ frees'["unset"] = frees["unset"]
        /\ ~ memoryToFree => /\ "memory" \in held => "memory" \in held'
                            /\ frees'["memory"] = frees["memory"]
    BY <1>0, <2>1, DataSetFreed
  <2>3. FromFile => held' = {} /\ \A r \in Resources : frees'[r] \in {0, 1}
    BY <1>0, <2>1, WholeFreed
  <2>4. TypeOK' /\ BeginsEmpty' /\ LoadsFile' /\ StagesBuild' /\ SuccessIsWhole'
      /\ Measured' /\ ManagerIsComplete'
    BY <1>0, <2>1, <2>2 DEF
            TypeOK, BeginsEmpty, LoadsFile, StagesBuild, SuccessIsWhole,
            ManagerIsComplete, Measured, MeasuredIsFreed, IsInitialised, FromFile, Parts
  <2>5. UnsetRaises' /\ FileIsFreed' /\ CallerOwns'
    BY <2>1, <2>2, <2>3 DEF IInv, UnsetRaises, UnsetFreed, FileIsFreed, CallerOwns, FromFile
  <2> QED BY <2>1, <2>4, <2>5 DEF IInv
<1>15. CASE HashSizeManagerFromFile \/ HashSizeManagerFromMemory
  <2>0. IsCall(call)
    BY <1>0, CallsAssumption DEF TypeOK
  <2>1. /\ pc = "returned" /\ pc' \in {"done", "crashed"} /\ manager' = FALSE /\ call.size
        /\ UNCHANGED <<call, status, exception, memoryToFree>>
    BY <1>15 DEF HashSizeManagerFromFile, HashSizeManagerFromMemory, ResourceManagerFree
  <2>2. CASE ~ manager
    <3>1. ~ IsInitialised /\ UNCHANGED <<held, frees>>
      BY <1>15, <2>1, <2>2 DEF
              HashSizeManagerFromFile, HashSizeManagerFromMemory,
              ResourceManagerFree, FreeNothing, IInv, Measured
    <3> QED BY <1>0, <2>1, <2>2, <3>1 DEF
            IInv, TypeOK, BeginsEmpty, LoadsFile, StagesBuild, SuccessIsWhole,
            UnsetRaises, UnsetFreed, FileIsFreed, CallerOwns, ManagerIsComplete, Measured,
            MeasuredIsFreed, IsInitialised, FromFile, Parts
  <2>3. CASE manager
    <3>1. /\ pc' = "done" /\ FreeDataSetWith({})
          /\ NothingFreed /\ ~ UnsetFreed /\ {"dataSet"} \cup Parts \subseteq held
          /\ FromFile => ("memory" \in held <=> memoryToFree)
      BY <1>15, <2>3 DEF
              HashSizeManagerFromFile, HashSizeManagerFromMemory,
              ResourceManagerFree, FreeDataSet, IInv, ManagerIsComplete, Measured,
              NothingFreed, UnsetFreed, Resources
    <3>2. FromFile => held' = {} /\ \A r \in Resources : frees'[r] \in {0, 1}
      BY <1>0, <3>1, WholeFreed
    <3>3. /\ held' \subseteq held /\ frees' \in [Resources -> Nat]
          /\ UnsetFreed' = UnsetFreed
          /\ ~ memoryToFree => /\ "memory" \in held => "memory" \in held'
                              /\ frees'["memory"] = frees["memory"]
      BY <1>0, <3>1, DataSetFreed DEF UnsetFreed
    <3>4. CASE FromFile
      BY <1>0, <2>1, <2>3, <3>1, <3>2, <3>3, <3>4 DEF
              IInv, TypeOK, BeginsEmpty, LoadsFile, StagesBuild,
              SuccessIsWhole, UnsetRaises, FileIsFreed, CallerOwns, ManagerIsComplete,
              Measured, MeasuredIsFreed, IsInitialised, FromFile, Parts
    <3>5. CASE ~ FromFile
      <4>1. ~ call.freeData
        BY <2>0, <2>1, <3>5 DEF IsCall, FromFile
      <4>2. ~ memoryToFree /\ "memory" \in held /\ frees["memory"] = 0 /\ ~ call.engine
        BY <3>1, <3>5, <4>1 DEF IInv, CallerOwns
      <4>3. held' = {"memory"}
        <5> DEFINE rs == (held \cap Parts) \cup {"dataSet"}
        <5>1. rs \in SUBSET Resources /\ Free(rs) /\ held \ rs = {"memory"}
          BY <1>0, <3>1, <4>2 DEF FreeDataSetWith, Resources, Allocated, Parts, TypeOK
        <5> HIDE DEF rs
        <5> QED BY <5>1 DEF Free
      <4> QED BY <1>0, <2>1, <2>3, <3>1, <3>3, <3>5, <4>1, <4>2, <4>3 DEF
              IInv, TypeOK, BeginsEmpty, LoadsFile, StagesBuild,
              SuccessIsWhole, UnsetRaises, FileIsFreed, CallerOwns, ManagerIsComplete,
              Measured, MeasuredIsFreed, IsInitialised, FromFile, Parts
    <3> QED BY <3>4, <3>5
  <2> QED BY <2>2, <2>3
<1>16. CASE Conclude
  <2>1. /\ pc = "returned" /\ pc' = "done" /\ ~ (call.size /\ IsInitialised)
        /\ exception' = (exception \/ call.size)
        /\ UNCHANGED <<call, status, memoryToFree, manager>>
    BY <1>16 DEF Conclude, IsInitialised
  <2>2. CASE FreeNothing
    BY <2>1, <2>2 DEF
            FreeNothing, IInv, TypeOK, BeginsEmpty, LoadsFile, StagesBuild,
            SuccessIsWhole, UnsetRaises, UnsetFreed, FileIsFreed, CallerOwns, ManagerIsComplete,
            Measured, MeasuredIsFreed,
            IsInitialised, FromFile, Parts
  <2>3. CASE ~ FreeNothing
    <3>1. call.engine /\ ~ FromFile /\ status # "success" /\ Free({"memory"})
      BY <1>16, <2>3 DEF Conclude
    <3>2. held' \subseteq held /\ frees' \in [Resources -> Nat]
      BY <1>0, <3>1, FreeEffect DEF Resources, Allocated
    <3>3. UnsetFreed' = UnsetFreed
      BY <1>0, <3>1, FreeEffect DEF Resources, Allocated, UnsetFreed
    <3>4. ~ manager /\ (call.engine => call.freeData)
      BY <3>1, <2>1 DEF IInv, ManagerIsComplete, Measured, MeasuredIsFreed,
              IsInitialised, CallerOwns
    <3> QED BY <1>0, <2>1, <3>1, <3>2, <3>3, <3>4 DEF
            IInv, TypeOK, BeginsEmpty, LoadsFile, StagesBuild, SuccessIsWhole,
            UnsetRaises, FileIsFreed, CallerOwns, ManagerIsComplete, Measured,
            MeasuredIsFreed, IsInitialised, FromFile,
            Parts
  <2> QED BY <2>2, <2>3
<1>17. CASE UNCHANGED vars
  BY <1>17 DEF
          vars, IInv, TypeOK, BeginsEmpty, LoadsFile, StagesBuild,
          SuccessIsWhole, UnsetRaises, UnsetFreed, FileIsFreed, CallerOwns, ManagerIsComplete, Measured,
          MeasuredIsFreed,
          NothingFreed, Whole, InMemory, IsInitialised, FromFile
<1> QED BY <1>1, <1>2, <1>3, <1>4, <1>5, <1>6, <1>7, <1>8, <1>9, <1>10, <1>11, <1>12, <1>13, <1>14, <1>15, <1>16, <1>17 DEF
        Next

LEMMA SpecInvariant == Spec => []IInv
BY InitInvariant, NextInvariant, PTL DEF Spec

-----------------------------------------------------------------------------
(* The types of InitDataSet.                                                 *)
THEOREM Typing == Spec => []TypeOK
<1>1. IInv => TypeOK
  BY DEF IInv
<1> QED BY <1>1, SpecInvariant, PTL

(* A manager has a data set that every stage has built and nothing of which  *)
(* was freed, whichever call it was initialised with.                        *)
THEOREM Completeness == Spec => []ManagerIsComplete
<1>1. IInv => ManagerIsComplete
  BY DEF IInv
<1> QED BY <1>1, SpecInvariant, PTL

(* Memory given without freeData is never freed, whichever stage fails,      *)
(* unless pointers that were never set are.                                  *)
THEOREM CallersMemory == Spec => []CallersMemoryIsKept
<1>1. IInv => CallersMemoryIsKept
  BY DEF IInv, CallerOwns, CallersMemoryIsKept
<1> QED BY <1>1, SpecInvariant, PTL

(* A data set from a file is freed once, and whole, unless it is its very    *)
(* last stage that fails, or pointers that were never set are freed: which   *)
(* takes several components, and leaves an exception and no manager.         *)
THEOREM FileCleanUp == Spec => []FileIsCleanedUp
<1>1. IInv => FileIsCleanedUp
  <2> SUFFICES ASSUME IInv PROVE FileIsCleanedUp
    OBVIOUS
  <2>1. UnsetFreed => Components > 1 /\ ~ IsInitialised /\ ~ manager
    BY DEF IInv, UnsetRaises, IsInitialised
  <2>2. CASE FromFile /\ ~ UnsetFreed
    <3>1. \A r \in Allocated : frees[r] \in {0, 1}
      BY <2>2 DEF IInv, FileIsFreed, Resources
    <3>2. \A r \in Allocated : frees[r] <= 1
      BY <3>1
    <3> QED BY <2>1, <2>2, <3>2 DEF IInv, FileIsFreed, FileIsCleanedUp
  <2> QED BY <2>1, <2>2 DEF FileIsCleanedUp
<1> QED BY <1>1, SpecInvariant, PTL

(* A manager is whole, however the stages ended, and what was measured is    *)
(* freed to the last part.                                                   *)
THEOREM WholeManager == Spec => []ManagerIsWhole
<1>1. IInv => ManagerIsWhole
  BY DEF IInv, Measured, ManagerIsWhole
<1> QED BY <1>1, SpecInvariant, PTL
=============================================================================
