------------------------ MODULE SharedManagerProofs -------------------------
(* Whatever the number of threads, records, configurations and reloads: no   *)
(* thread follows a pointer into a data set that is gone, and each record is *)
(* detected as often as it should be.                                        *)
EXTENDS SharedManager, FiniteSetTheorems, SequenceTheorems, TLAPS

-----------------------------------------------------------------------------
(* The strengthening.                                                        *)

\* The threads whose results are of a data set.
HoldersOf(d) == {w \in Workers : results[w] = d}

\* The threads that are not at work.
Idle == {w \in Workers : pc[w] = "out"}

HasManager == main \in {"start", "watch", "join", "reload", "free manager"}
IsAtWork == main \in {"watch", "join"}
HasResults(w) == pc[w] \in {"take", "detect", "detected"}
IsCounting == program # "performance" /\ threadSafe /\ IsAtWork

\* One more record for the threads that had their turn in this round.
Ahead(w) == IF w < threadIndex THEN 1 ELSE 0

\* What a thread has to detect in one pass.
Whole(w) == IF program = "performance" THEN lists[w] ELSE [r \in Records |-> r]

Types ==
    /\ TypeOK
    /\ threadSafe \in BOOLEAN
    /\ stored \in 0 .. Len(Sizes)
    /\ maxEvidence \in Nat
    /\ built \in 0 .. MaxBuilt
    /\ pc \in [Workers -> {"out", "create", "take", "detect", "detected"}]
    /\ room \in [Workers -> Nat]
    /\ pair \in [Workers -> [size : Nat, header : DataSets \cup {None}]]
    /\ todo \in [Workers -> Seq(Records)]
    /\ done \in [Workers -> Seq(Records)]

\* The main thread has a manager, and threads at work, in these phases only.
Phases ==
    /\ main # "exit" => (active # None <=> HasManager)
    /\ \A w \in Workers : pc[w] # "out" => IsAtWork /\ w \in Running
    /\ source = "freed" => main = "end"

\* A data set is counted once for each thread with results of it, and is in
\* memory while it is counted or active.
Counted ==
    /\ \A d \in DataSets : users[d] = Cardinality(HoldersOf(d))
    /\ live = {d \in DataSets : d = active \/ users[d] > 0}

\* A thread has results while it detects, and evidence that is large enough.
Held ==
    /\ \A w \in Workers :
         /\ HasResults(w) => /\ results[w] # None
                             /\ room[w] = (IF program = "performance" THEN maxEvidence ELSE 1)
                             /\ program = "performance" \/ todo[w] # <<>>
         /\ pc[w] \in {"detect", "detected"} => todo[w] # <<>>
         /\ main # "exit" /\ ~ HasResults(w) => results[w] = None
         /\ results[w] = None => pair[w] = NoPairs
         /\ pair[w].header \in {None, results[w]}
         /\ pair[w].size <= room[w]

\* The records are dealt out: the largest is known, each stored one is in one
\* list and at one place of it, and no list is behind another by two.
Dealt ==
    /\ program = "performance" /\ main # "load" => stored = Len(Sizes)
    /\ \A r \in 1 .. stored : Sizes[r] <= maxEvidence
    /\ main # "end" =>
        /\ \A r \in 1 .. stored : \E w \in Running : \E n \in DOMAIN lists[w] : lists[w][n] = r
        /\ \A v, w \in Workers : \A m \in DOMAIN lists[v], n \in DOMAIN lists[w] :
               lists[v][m] = lists[w][n] => v = w /\ m = n
        /\ \A w \in Workers : /\ lists[w] # <<>> => w \in Running
                              /\ Len(lists[w]) <= stored
                              /\ \A n \in DOMAIN lists[w] : lists[w][n] <= stored
        /\ \A v, w \in Running : Len(lists[v]) - Ahead(v) = Len(lists[w]) - Ahead(w)

\* What a thread has detected and what is left are the whole, and at the end of
\* a pass nothing is left.
Passed ==
    main \in {"watch", "join", "free manager"} =>
        \A w \in Workers : /\ done[w] \o todo[w] = Whole(w)
                           /\ w \in Running /\ pc[w] = "out" => todo[w] = <<>>

\* The reload programs count the threads that have finished.
Finished == IsCounting => finished = Cardinality(Idle)

IInv == Types /\ Phases /\ Counted /\ Held /\ Dealt /\ Passed /\ Finished

-----------------------------------------------------------------------------
(* Threads and data sets.                                                    *)

LEMMA WorkersAreFinite ==
    /\ Threads \in Nat \ {0} /\ MaxBuilt \in Nat
    /\ IsFiniteSet(Workers) /\ Cardinality(Workers) = Threads
    /\ 0 \in Workers
    /\ None \notin DataSets /\ DataSets \subseteq 0 .. MaxBuilt
    /\ Records = 1 .. Len(Sizes) /\ Len(Sizes) \in Nat
    /\ Sizes \in [Records -> Nat]
<1>1. Threads \in Nat \ {0} /\ MaxBuilt \in Nat
  BY ThreadsAssumption, BoundAssumption
<1>2. IsFiniteSet(0 .. Threads - 1) /\ Cardinality(0 .. Threads - 1) = Threads
  <2>1. Threads - 1 \in Int /\ 0 <= Threads - 1
    BY <1>1
  <2> QED BY <1>1, <2>1, FS_Interval
<1>3. Records = 1 .. Len(Sizes) /\ Len(Sizes) \in Nat /\ Sizes \in [Records -> Nat]
  BY SizesAssumption, LenProperties DEF Records
<1> QED BY <1>1, <1>2, <1>3 DEF Workers, DataSets, None

LEMMA RunningWorkers ==
    ASSUME threadSafe \in BOOLEAN
    PROVE  /\ Running \subseteq Workers
           /\ Running = 0 .. Cardinality(Running) - 1
           /\ Cardinality(Running) \in Nat \ {0}
<1>1. CASE threadSafe
  BY <1>1, WorkersAreFinite DEF Running, Workers
<1>2. CASE ~ threadSafe
  <2>1. Running = {0} /\ Cardinality({0}) = 1
    BY <1>2, FS_Singleton DEF Running
  <2> QED BY <2>1, WorkersAreFinite
<1> QED BY <1>1, <1>2

-----------------------------------------------------------------------------
(* Counting the threads with results of a data set.                          *)

LEMMA HoldersType ==
    ASSUME NEW d
    PROVE  IsFiniteSet(HoldersOf(d)) /\ Cardinality(HoldersOf(d)) \in Nat
<1>1. IsFiniteSet(HoldersOf(d))
  BY WorkersAreFinite, FS_Subset DEF HoldersOf
<1> QED BY <1>1, FS_CardinalityType

LEMMA HolderCounts ==
    ASSUME NEW w \in Workers
    PROVE  Cardinality(HoldersOf(results[w])) > 0
<1> DEFINE S == HoldersOf(results[w])
<1>1. IsFiniteSet(S) /\ Cardinality(S) \in Nat
  BY HoldersType
<1>2. S # {}
  BY DEF HoldersOf
<1>3. Cardinality(S) # 0
  BY <1>1, <1>2, FS_EmptySet
<1> QED BY <1>1, <1>3

(* A thread that creates results counts once more for its data set.          *)
LEMMA HoldersTake ==
    ASSUME results \in [Workers -> DataSets \cup {None}], NEW w \in Workers,
           NEW d \in DataSets, results[w] = None, results' = [results EXCEPT ![w] = d],
           NEW e \in DataSets
    PROVE  Cardinality(HoldersOf(e)') = Cardinality(HoldersOf(e)) + (IF e = d THEN 1 ELSE 0)
<1> DEFINE S == HoldersOf(e)
           T == HoldersOf(e)'
<1>0. e # None /\ IsFiniteSet(S) /\ Cardinality(S) \in Nat
  BY WorkersAreFinite, HoldersType
<1>1. CASE e = d
  <2>1. T = S \cup {w} /\ w \notin S
    BY <1>0, <1>1 DEF HoldersOf
  <2>2. Cardinality(T) = Cardinality(S) + 1
    BY <1>0, <2>1, FS_AddElement
  <2> QED BY <1>1, <2>2
<1>2. CASE e # d
  <2>1. T = S
    BY <1>0, <1>2 DEF HoldersOf
  <2> QED BY <1>0, <1>2, <2>1
<1> QED BY <1>1, <1>2

(* A thread that frees its results counts once less for their data set.      *)
LEMMA HoldersGive ==
    ASSUME results \in [Workers -> DataSets \cup {None}], NEW w \in Workers,
           NEW d \in DataSets, results[w] = d, results' = [results EXCEPT ![w] = None],
           NEW e \in DataSets
    PROVE  Cardinality(HoldersOf(e)') = Cardinality(HoldersOf(e)) - (IF e = d THEN 1 ELSE 0)
<1> DEFINE S == HoldersOf(e)
           T == HoldersOf(e)'
<1>0. e # None /\ IsFiniteSet(S) /\ Cardinality(S) \in Nat
  BY WorkersAreFinite, HoldersType
<1>a. T \subseteq S
  BY <1>0 DEF HoldersOf
<1>b. IsFiniteSet(T) /\ Cardinality(T) \in Nat
  BY <1>0, <1>a, FS_Subset, FS_CardinalityType
<1>1. CASE e = d
  <2>1. S = T \cup {w} /\ w \notin T
    BY <1>0, <1>1 DEF HoldersOf
  <2>2. Cardinality(S) = Cardinality(T) + 1
    BY <1>b, <2>1, FS_AddElement
  <2> QED BY <1>0, <1>1, <1>b, <2>2
<1>2. CASE e # d
  <2>1. T = S
    BY <1>0, <1>2 DEF HoldersOf
  <2> QED BY <1>0, <1>2, <2>1
<1> QED BY <1>1, <1>2

-----------------------------------------------------------------------------
(* What the three kinds of step do to the memory.                            *)

LEMMA TakeKeepsCounted ==
    ASSUME TypeOK, Counted, NEW w \in Workers, results[w] = None, active # None,
           users' = [users EXCEPT ![active] = @ + 1],
           results' = [results EXCEPT ![w] = active],
           UNCHANGED <<active, live>>
    PROVE  Counted' /\ users' \in [DataSets -> Nat]
<1>1. active \in DataSets /\ users \in [DataSets -> Nat]
  BY DEF TypeOK
<1>2. ASSUME NEW d \in DataSets
      PROVE  /\ users'[d] = users[d] + (IF d = active THEN 1 ELSE 0)
             /\ users[d] \in Nat
             /\ users'[d] = Cardinality(HoldersOf(d)')
  <2>1. users'[d] = users[d] + (IF d = active THEN 1 ELSE 0) /\ users[d] \in Nat
    BY <1>1
  <2>2. Cardinality(HoldersOf(d)') = Cardinality(HoldersOf(d)) + (IF d = active THEN 1 ELSE 0)
    BY <1>1, HoldersTake DEF TypeOK
  <2>3. users[d] = Cardinality(HoldersOf(d))
    BY DEF Counted
  <2> QED BY <2>1, <2>2, <2>3
<1>3. users' \in [DataSets -> Nat]
  BY <1>1
<1>4. live' = {d \in DataSets : d = active' \/ users'[d] > 0}
  BY <1>1, <1>2 DEF Counted
<1> QED BY <1>2, <1>3, <1>4 DEF Counted

LEMMA GiveKeepsCounted ==
    ASSUME TypeOK, Counted, NEW w \in Workers, results[w] # None, Release(results[w]),
           results' = [results EXCEPT ![w] = None]
    PROVE  Counted' /\ users' \in [DataSets -> Nat]
<1> DEFINE d == results[w]
<1>1. d \in DataSets /\ users \in [DataSets -> Nat] /\ active' = active
      /\ users' = [users EXCEPT ![d] = @ - 1]
      /\ live' = IF users[d] = 1 /\ d # active THEN live \ {d} ELSE live
  BY DEF TypeOK, Release
<1>2. users[d] > 0
  BY <1>1, HolderCounts DEF Counted
<1>3. ASSUME NEW e \in DataSets
      PROVE  /\ users'[e] = users[e] - (IF e = d THEN 1 ELSE 0)
             /\ users[e] \in Nat
             /\ users'[e] = Cardinality(HoldersOf(e)')
  <2>1. users'[e] = users[e] - (IF e = d THEN 1 ELSE 0) /\ users[e] \in Nat
    BY <1>1
  <2>2. Cardinality(HoldersOf(e)') = Cardinality(HoldersOf(e)) - (IF e = d THEN 1 ELSE 0)
    BY <1>1, HoldersGive DEF TypeOK
  <2>3. users[e] = Cardinality(HoldersOf(e))
    BY DEF Counted
  <2> QED BY <2>1, <2>2, <2>3
<1>4. users' \in [DataSets -> Nat]
  BY <1>1, <1>2
<1>5. live' = {e \in DataSets : e = active' \/ users'[e] > 0}
  BY <1>1, <1>2, <1>3 DEF Counted
<1> QED BY <1>3, <1>4, <1>5 DEF Counted

LEMMA ReplaceKeepsCounted ==
    ASSUME TypeOK, Counted, NEW d \in DataSets \cup {None}, Replace(d), results' = results
    PROVE  Counted'
<1>1. /\ \A e \in DataSets : HoldersOf(e)' = HoldersOf(e)
      /\ users' = users /\ users \in [DataSets -> Nat]
      /\ active \in DataSets \cup {None}
      /\ None \notin DataSets
      /\ active' = d
      /\ live' = (live \ (IF active # None /\ users[active] = 0 THEN {active} ELSE {}))
                   \cup (IF d = None THEN {} ELSE {d})
  BY WorkersAreFinite DEF HoldersOf, Replace, TypeOK
<1>2. live = {e \in DataSets : e = active \/ users[e] > 0}
  BY DEF Counted
<1>3. \A e \in DataSets : users[e] \in Nat /\ (users[e] = 0 <=> ~ users[e] > 0)
  BY <1>1
<1>4. live' = {e \in DataSets : e = active' \/ users'[e] > 0}
  BY <1>1, <1>2, <1>3
<1> QED BY <1>1, <1>4 DEF Counted

-----------------------------------------------------------------------------
(* Initially nothing is stored and no thread is at work.                     *)

LEMMA InitInvariant == Init => IInv
<1> SUFFICES ASSUME Init PROVE IInv
  OBVIOUS
<1> USE WorkersAreFinite
<1>0. /\ main = (IF program = "performance" THEN "load" ELSE "init")
      /\ threadSafe \in BOOLEAN /\ stored = 0 /\ threadIndex = 0 /\ maxEvidence = 0
      /\ active = None /\ built = 0 /\ live = {} /\ finished = 0 /\ source # "freed"
      /\ lists = [w \in Workers |-> <<>>] /\ users = [d \in DataSets |-> 0]
      /\ pc = [w \in Workers |-> "out"] /\ results = [w \in Workers |-> None]
      /\ room = [w \in Workers |-> 0] /\ pair = [w \in Workers |-> NoPairs]
      /\ todo = [w \in Workers |-> <<>>] /\ done = [w \in Workers |-> <<>>]
  BY DEF Init, EachWorker
<1>1. <<>> \in Seq(Records) /\ Len(<<>>) = 0
  BY EmptySeq
<1>2. Types
  <2>1. TypeOK
    BY <1>0, <1>1, RunningWorkers DEF TypeOK, Running
  <2>2. pair \in [Workers -> [size : Nat, header : DataSets \cup {None}]]
    BY <1>0 DEF NoPairs
  <2> QED BY <1>0, <1>1, <2>1, <2>2 DEF Types
<1>3. Phases
  <2>1. ~ HasManager /\ active = None
    BY <1>0 DEF HasManager
  <2>2. \A w \in Workers : pc[w] = "out"
    BY <1>0
  <2> QED BY <1>0, <2>1, <2>2 DEF Phases
<1>4. Counted
  <2>1. ASSUME NEW d \in DataSets PROVE users[d] = 0 /\ Cardinality(HoldersOf(d)) = 0
    <3>1. HoldersOf(d) = {} /\ users[d] = 0
      BY <1>0 DEF HoldersOf
    <3> QED BY <3>1, FS_EmptySet
  <2> QED BY <1>0, <2>1 DEF Counted
<1>5. Held
  BY <1>0 DEF Held, HasResults, NoPairs
<1>6. Dealt
  <2>1. program = "performance" /\ main # "load" => stored = Len(Sizes)
    BY <1>0
  <2>2. \A w \in Workers : lists[w] = <<>> /\ Len(lists[w]) = 0 /\ DOMAIN lists[w] = {}
    BY <1>0, <1>1
  <2>3. Running \subseteq Workers /\ \A v \in Running : Ahead(v) = 0
    <3>1. \A v \in Workers : v \in Int /\ ~ v < 0
      BY DEF Workers
    <3> QED BY <1>0, <3>1, RunningWorkers DEF Ahead
  <2>4. 1 .. stored = {}
    BY <1>0
  <2> QED BY <1>0, <2>1, <2>2, <2>3, <2>4 DEF Dealt
<1>7. Passed /\ Finished
  <2>1. main \notin {"watch", "join", "free manager"}
    BY <1>0
  <2> QED BY <2>1 DEF Passed, Finished, IsCounting, IsAtWork
<1> QED BY <1>2, <1>3, <1>4, <1>5, <1>6, <1>7 DEF IInv

-----------------------------------------------------------------------------
(* A record that is stored keeps the records dealt out.                      *)

LEMMA StoreKeepsTypes ==
    ASSUME Types, StoreEvidence
    PROVE  /\ Types'
           /\ threadIndex \in Running /\ threadIndex \in Workers
           /\ Len(lists'[threadIndex]) = Len(lists[threadIndex]) + 1
           /\ \A n \in 1 .. Len(lists[threadIndex]) :
                  lists'[threadIndex][n] = lists[threadIndex][n]
           /\ lists'[threadIndex][Len(lists[threadIndex]) + 1] = stored + 1
           /\ \A w \in Workers : w # threadIndex => lists'[w] = lists[w]
           /\ \A r \in 1 .. stored + 1 : Sizes[r] \in Nat
           /\ maxEvidence' >= maxEvidence
           /\ maxEvidence' >= Sizes[stored + 1]
<1> USE WorkersAreFinite
<1>1. /\ stored \in 0 .. Len(Sizes) /\ stored < Len(Sizes) /\ stored' = stored + 1
      /\ maxEvidence \in Nat
      /\ maxEvidence' = IF Sizes[stored + 1] > maxEvidence THEN Sizes[stored + 1]
                        ELSE maxEvidence
      /\ lists \in [Workers -> Seq(Records)]
      /\ lists' = [lists EXCEPT ![threadIndex] = Append(@, stored + 1)]
      /\ threadIndex \in Running /\ threadIndex' = Turns(threadIndex + 1)
      /\ threadSafe \in BOOLEAN /\ threadSafe' = threadSafe
  BY DEF Types, TypeOK, StoreEvidence
<1>2. stored + 1 \in Records /\ \A r \in 1 .. stored + 1 : r \in Records
  BY <1>1
<1>3. maxEvidence' \in Nat /\ maxEvidence' >= maxEvidence /\ maxEvidence' >= Sizes[stored + 1]
      /\ \A r \in 1 .. stored + 1 : Sizes[r] \in Nat
  <2>1. Sizes[stored + 1] \in Nat /\ \A r \in 1 .. stored + 1 : Sizes[r] \in Nat
    BY <1>2
  <2> QED BY <1>1, <2>1
<1>4. threadIndex \in Workers /\ lists[threadIndex] \in Seq(Records)
  BY <1>1, RunningWorkers
<1>5. lists'[threadIndex] = Append(lists[threadIndex], stored + 1)
  BY <1>1, <1>4
<1>6. lists' \in [Workers -> Seq(Records)]
  BY <1>1, <1>2, <1>4, AppendProperties
<1>7. threadIndex' \in Running'
  <2>1. Running' = Running /\ Running = 0 .. Cardinality(Running) - 1
        /\ Cardinality(Running) \in Nat \ {0}
    BY <1>1, RunningWorkers DEF Running
  <2> QED BY <1>1, <2>1 DEF Turns
<1>8. Types'
  <2>1. stored' \in 0 .. Len(Sizes)
    BY <1>1
  <2>2. UNCHANGED <<threadSafe, main, manager, rounds, worker>>
    BY DEF StoreEvidence
  <2>3. TypeOK'
    BY <1>6, <1>7, <2>2 DEF Types, TypeOK, manager, rounds, worker
  <2> QED BY <1>3, <2>1, <2>2, <2>3 DEF Types, manager, worker
<1> QED BY <1>1, <1>2, <1>3, <1>4, <1>5, <1>8, AppendProperties

LEMMA AheadTurns ==
    ASSUME NEW c \in Nat, NEW t \in 0 .. c - 1, NEW v \in 0 .. c - 1,
           NEW next, next = IF t + 1 = c THEN 0 ELSE t + 1
    PROVE  (IF v < next THEN 1 ELSE 0)
             = (IF v < t THEN 1 ELSE 0) + (IF v = t THEN 1 ELSE 0) - (IF t + 1 = c THEN 1 ELSE 0)
<1>1. CASE t + 1 = c
  BY <1>1
<1>2. CASE t + 1 # c
  BY <1>2
<1> QED BY <1>1, <1>2

LEMMA StoreKeepsDealt ==
    ASSUME Types, Dealt, StoreEvidence
    PROVE  Dealt'
<1> USE WorkersAreFinite
<1> DEFINE t == threadIndex
           l == Len(lists[t])
<1>a. main = "load" /\ main' = "load"
  BY DEF StoreEvidence
<1>0. /\ stored \in Nat /\ stored' = stored + 1
      /\ maxEvidence \in Nat /\ maxEvidence' \in Nat
      /\ Running' = Running /\ Running \subseteq Workers
      /\ lists \in [Workers -> Seq(Records)] /\ lists' \in [Workers -> Seq(Records)]
  <2>1. threadSafe' = threadSafe /\ threadSafe \in BOOLEAN /\ stored' = stored + 1
    BY DEF StoreEvidence, Types
  <2>2. Running' = Running /\ Running \subseteq Workers
    BY <2>1, RunningWorkers DEF Running
  <2>3. Types'
    BY StoreKeepsTypes
  <2>4. stored \in 0 .. Len(Sizes) /\ {maxEvidence, maxEvidence'} \subseteq Nat
        /\ {lists, lists'} \subseteq [Workers -> Seq(Records)]
    BY <2>3 DEF Types, TypeOK
  <2>5. stored \in Nat
    BY <2>4
  <2> QED BY <2>1, <2>2, <2>4, <2>5
<1>1. /\ t \in Running /\ t \in Workers /\ Len(lists'[t]) = l + 1
      /\ \A n \in 1 .. l : lists'[t][n] = lists[t][n]
      /\ lists'[t][l + 1] = stored + 1
      /\ \A w \in Workers : w # t => lists'[w] = lists[w]
  BY StoreKeepsTypes
<1>2. \A w \in Workers : /\ Len(lists[w]) \in Nat /\ DOMAIN lists[w] = 1 .. Len(lists[w])
                         /\ Len(lists'[w]) \in Nat /\ DOMAIN lists'[w] = 1 .. Len(lists'[w])
                         /\ \A n \in DOMAIN lists[w] : lists[w][n] \in Nat
  BY <1>0, LenProperties
<1>3. /\ \A r \in 1 .. stored : Sizes[r] <= maxEvidence
      /\ \A r \in 1 .. stored : \E w \in Running : \E n \in DOMAIN lists[w] : lists[w][n] = r
      /\ \A v, w \in Workers : \A m \in DOMAIN lists[v], n \in DOMAIN lists[w] :
             lists[v][m] = lists[w][n] => v = w /\ m = n
      /\ \A w \in Workers : /\ lists[w] # <<>> => w \in Running
                            /\ Len(lists[w]) <= stored
                            /\ \A n \in DOMAIN lists[w] : lists[w][n] <= stored
      /\ \A v, w \in Running : Len(lists[v]) - Ahead(v) = Len(lists[w]) - Ahead(w)
  BY <1>a DEF Dealt
<1>4. \A r \in 1 .. stored' : Sizes[r] <= maxEvidence'
  <2> TAKE r \in 1 .. stored'
  <2>1. Sizes[r] \in Nat /\ maxEvidence' >= maxEvidence /\ maxEvidence' >= Sizes[stored + 1]
    BY <1>0, StoreKeepsTypes
  <2>2. CASE r = stored + 1
    BY <1>0, <2>1, <2>2
  <2>3. CASE r \in 1 .. stored
    <3>1. Sizes[r] <= maxEvidence
      BY <1>3, <2>3
    <3> QED BY <1>0, <2>1, <3>1
  <2> QED BY <1>0, <2>2, <2>3
\* Every element of the new lists is one of the old, at its place, or the new one.
<1>5. ASSUME NEW w \in Workers, NEW n \in DOMAIN lists'[w]
      PROVE  \/ n \in DOMAIN lists[w] /\ lists'[w][n] = lists[w][n] /\ lists[w][n] <= stored
             \/ w = t /\ n = l + 1 /\ lists'[w][n] = stored + 1
  <2>1. CASE w = t
    <3>1. n \in 1 .. l \/ n = l + 1
      BY <1>1, <1>2, <2>1
    <3> QED BY <1>1, <1>2, <1>3, <2>1, <3>1
  <2>2. CASE w # t
    BY <1>1, <1>3, <2>2
  <2> QED BY <2>1, <2>2
<1>6. \A r \in 1 .. stored' : \E w \in Running : \E n \in DOMAIN lists'[w] : lists'[w][n] = r
  <2> TAKE r \in 1 .. stored'
  <2>1. CASE r = stored + 1
    <3>1. l + 1 \in DOMAIN lists'[t]
      BY <1>1, <1>2
    <3> QED BY <1>1, <2>1, <3>1
  <2>2. CASE r \in 1 .. stored
    <3>1. PICK w \in Running : \E n \in DOMAIN lists[w] : lists[w][n] = r
      BY <1>3, <2>2
    <3>2. PICK n \in DOMAIN lists[w] : lists[w][n] = r
      BY <3>1
    <3>3. w \in Workers /\ n \in 1 .. Len(lists[w])
      BY <1>0, <1>2
    <3>4. n \in DOMAIN lists'[w] /\ lists'[w][n] = lists[w][n]
      <4>1. CASE w = t
        BY <1>1, <1>2, <3>3, <4>1
      <4>2. CASE w # t
        BY <1>1, <3>2, <3>3, <4>2
      <4> QED BY <4>1, <4>2
    <3> QED BY <3>2, <3>4
  <2> QED BY <1>0, <2>1, <2>2
<1>7. \A v, w \in Workers : \A m \in DOMAIN lists'[v], n \in DOMAIN lists'[w] :
          lists'[v][m] = lists'[w][n] => v = w /\ m = n
  <2> TAKE v, w \in Workers
  <2> TAKE m \in DOMAIN lists'[v], n \in DOMAIN lists'[w]
  <2> HAVE lists'[v][m] = lists'[w][n]
  <2>1. ~ (stored + 1 <= stored)
    BY <1>0
  <2>2. CASE m \in DOMAIN lists[v] /\ lists'[v][m] = lists[v][m] /\ lists[v][m] <= stored
    <3>1. n \in DOMAIN lists[w] /\ lists'[w][n] = lists[w][n]
      BY <1>5, <2>1, <2>2
    <3>2. lists[v][m] = lists[w][n]
      BY <2>2, <3>1
    <3> QED BY <1>3, <2>2, <3>1, <3>2
  <2>3. CASE v = t /\ m = l + 1 /\ lists'[v][m] = stored + 1
    <3>1. w = t /\ n = l + 1
      BY <1>5, <2>1, <2>3
    <3> QED BY <2>3, <3>1
  <2> QED BY <1>5, <2>2, <2>3
<1>8. \A w \in Workers : /\ lists'[w] # <<>> => w \in Running
                         /\ Len(lists'[w]) <= stored'
                         /\ \A n \in DOMAIN lists'[w] : lists'[w][n] <= stored'
  <2> TAKE w \in Workers
  <2>1. lists'[w] # <<>> => w \in Running
    BY <1>1, <1>3
  <2>2. Len(lists[w]) <= stored /\ (Len(lists'[w]) = Len(lists[w]) \/ Len(lists'[w]) = Len(lists[w]) + 1)
    BY <1>1, <1>3
  <2>3. Len(lists'[w]) <= stored'
    BY <1>0, <1>2, <2>2
  <2>4. \A n \in DOMAIN lists'[w] : lists'[w][n] <= stored'
    <3> TAKE n \in DOMAIN lists'[w]
    <3>1. CASE n \in DOMAIN lists[w] /\ lists'[w][n] = lists[w][n] /\ lists[w][n] <= stored
      <4>1. lists[w][n] \in Nat
        BY <1>2, <3>1
      <4> QED BY <1>0, <3>1, <4>1
    <3>2. CASE lists'[w][n] = stored + 1
      BY <1>0, <3>2
    <3> QED BY <1>5, <3>1, <3>2
  <2> QED BY <2>1, <2>3, <2>4
<1>9. \A v, w \in Running : Len(lists'[v]) - Ahead(v)' = Len(lists'[w]) - Ahead(w)'
  <2> DEFINE c == Cardinality(Running)
  <2>1. Running = 0 .. c - 1 /\ c \in Nat \ {0}
    BY RunningWorkers DEF Types
  <2>2. threadIndex' = IF t + 1 = c THEN 0 ELSE t + 1
    BY DEF StoreEvidence, Turns
  <2>3. ASSUME NEW v \in Running
        PROVE  Len(lists'[v]) - Ahead(v)' = Len(lists[v]) - Ahead(v) + (IF t + 1 = c THEN 1 ELSE 0)
    <3>1. v \in 0 .. c - 1 /\ t \in 0 .. c - 1 /\ c \in Nat
      BY <1>1, <2>1
    <3>2. Len(lists[v]) \in Nat /\ Len(lists'[v]) = Len(lists[v]) + (IF v = t THEN 1 ELSE 0)
      <4>1. v \in Workers /\ Len(lists[v]) \in Nat
        BY <1>0, <1>2
      <4>2. CASE v = t
        BY <1>1, <4>1, <4>2
      <4>3. CASE v # t
        BY <1>1, <4>1, <4>3
      <4> QED BY <4>1, <4>2, <4>3
    <3>3. Ahead(v) = (IF v < t THEN 1 ELSE 0) /\ Ahead(v)' = (IF v < threadIndex' THEN 1 ELSE 0)
      BY DEF Ahead
    <3>4. Ahead(v)' = Ahead(v) + (IF v = t THEN 1 ELSE 0) - (IF t + 1 = c THEN 1 ELSE 0)
      <4> HIDE DEF c
      <4> QED BY <2>2, <3>1, <3>3, AheadTurns
    <3>5. Ahead(v) \in Int
      BY <3>3
    <3>6. Ahead(v)' \in Int
      BY <3>3
    <3> HIDE DEF c, t
    <3>7. CASE v = t
      BY <3>2, <3>4, <3>5, <3>6, <3>7
    <3>8. CASE v # t
      BY <3>2, <3>4, <3>5, <3>6, <3>8
    <3> QED BY <3>7, <3>8
  <2>4. \A v \in Running : Len(lists[v]) \in Nat /\ Ahead(v) \in {0, 1}
    BY <1>0, <1>2 DEF Ahead
  <2> TAKE v, w \in Running
  <2>5. Len(lists[v]) - Ahead(v) = Len(lists[w]) - Ahead(w)
    BY <1>3
  <2> QED BY <2>3, <2>4, <2>5
<1>10. program' = "performance" /\ main' # "load" => stored' = Len(Sizes)
  BY <1>a
<1>11. Running' = Running
  BY <1>0
<1> QED BY <1>4, <1>6, <1>7, <1>8, <1>9, <1>10, <1>11 DEF Dealt

-----------------------------------------------------------------------------
(* What a step keeps by leaving variables alone.                             *)

LEMMA CountedFrame ==
    ASSUME Counted, UNCHANGED <<users, live, results>>, active' = active
    PROVE  Counted'
<1>1. \A d \in DataSets : HoldersOf(d)' = HoldersOf(d)
  BY DEF HoldersOf
<1> QED BY <1>1 DEF Counted

LEMMA DealtFrame ==
    ASSUME Dealt, UNCHANGED <<program, threadSafe, evidence>>,
           main' # "load" => main # "load" \/ stored = Len(Sizes), main' # "end" => main # "end"
    PROVE  Dealt'
<1>1. Running' = Running /\ \A w \in Running : Ahead(w)' = Ahead(w)
  BY DEF Running, Ahead, evidence
<1> QED BY <1>1 DEF Dealt, evidence

LEMMA HeldFrame ==
    ASSUME Held, UNCHANGED <<program, maxEvidence, pc, results, room, pair, todo>>,
           main' # "exit" => main # "exit"
    PROVE  Held'
BY DEF Held, HasResults

LEMMA IdleFrame ==
    ASSUME pc' = pc
    PROVE  Idle' = Idle
BY DEF Idle

-----------------------------------------------------------------------------
(* The steps of a thread.                                                    *)

\* A thread that is not out is one of those that run, and the main thread waits.
LEMMA AtWork ==
    ASSUME Types, Phases, NEW w \in Workers, pc[w] # "out"
    PROVE  /\ main \in {"watch", "join"} /\ main # "exit" /\ main # "end" /\ main # "load"
           /\ w \in Running
           /\ active # None /\ active \in DataSets
           /\ source # "freed"
<1>1. main \in {"watch", "join"} /\ w \in Running
  BY DEF Phases, IsAtWork
<1>2. main # "exit" /\ main # "end" /\ main # "load" /\ HasManager
  BY <1>1 DEF HasManager
<1> QED BY <1>1, <1>2 DEF Phases, Types, TypeOK

LEMMA CreateInvariant ==
    ASSUME IInv, NEW w \in Workers, CreateResults(w)
    PROVE  IInv'
<1> USE WorkersAreFinite
<1>0. /\ Types /\ TypeOK /\ Phases /\ Counted /\ Held /\ Dealt /\ Passed /\ Finished
      /\ pc[w] = "create" /\ ~ HasResults(w)
      /\ program = "performance" \/ todo[w] # <<>>
      /\ UNCHANGED <<program, threadSafe, main, evidence, source, active, built, live, rounds,
                     pair, todo, done>>
  BY DEF IInv, Types, CreateResults, HasResults
<1>1. /\ main \in {"watch", "join"} /\ main # "exit" /\ w \in Running /\ active \in DataSets
      /\ results[w] = None /\ pair[w] = NoPairs
  BY <1>0, AtWork DEF Held
<1>2. /\ users' = [users EXCEPT ![active] = @ + 1]
      /\ results' = [results EXCEPT ![w] = active]
      /\ room' = [room EXCEPT ![w] = IF program = "performance" THEN maxEvidence ELSE 1]
      /\ pc' = [pc EXCEPT ![w] = "take"]
      /\ results \in [Workers -> DataSets \cup {None}]
      /\ room \in [Workers -> Nat] /\ maxEvidence \in Nat
      /\ pc \in [Workers -> {"out", "create", "take", "detect", "detected"}]
  BY <1>0 DEF CreateResults, Types, TypeOK
<1>3. Counted' /\ users' \in [DataSets -> Nat]
  BY <1>0, <1>1, <1>2, TakeKeepsCounted
<1>4. Types'
  <2>1. results' \in [Workers -> DataSets \cup {None}] /\ room' \in [Workers -> Nat]
    BY <1>1, <1>2
  <2>2. pc' \in [Workers -> {"out", "create", "take", "detect", "detected"}]
    BY <1>2
  <2> QED BY <1>0, <1>3, <2>1, <2>2 DEF Types, TypeOK, Running, evidence, rounds
<1>5. Phases'
  BY <1>0, <1>1, <1>2 DEF Phases, HasManager, IsAtWork, Running
<1>6. Held'
  <2>1. ASSUME NEW v \in Workers, v # w
        PROVE  pc'[v] = pc[v] /\ results'[v] = results[v] /\ room'[v] = room[v]
    BY <1>2, <2>1
  <2>2. pc'[w] = "take" /\ results'[w] = active
        /\ room'[w] = IF program = "performance" THEN maxEvidence ELSE 1
    BY <1>1, <1>2
  <2>3. pair[w].size = 0 /\ pair[w].header = None /\ 0 <= room'[w]
    BY <1>1, <1>2, <2>2 DEF NoPairs
  <2>4. active # None
    BY <1>1
  <2> QED BY <1>0, <2>1, <2>2, <2>3, <2>4 DEF Held, HasResults, evidence
<1>7. Dealt'
  BY <1>0, DealtFrame
<1>8. Passed'
  BY <1>0, <1>1, <1>2 DEF Passed, Whole, Running, evidence
<1>9. Finished'
  <2>1. Idle' = Idle
    BY <1>0, <1>2 DEF Idle
  <2> QED BY <1>0, <2>1 DEF Finished, IsCounting, IsAtWork, rounds
<1> QED BY <1>3, <1>4, <1>5, <1>6, <1>7, <1>8, <1>9 DEF IInv

LEMMA TakeInvariant ==
    ASSUME IInv, NEW w \in Workers, TakeEvidence(w)
    PROVE  IInv'
<1> USE WorkersAreFinite
<1>0. /\ Types /\ TypeOK /\ Phases /\ Counted /\ Held /\ Dealt /\ Passed /\ Finished
      /\ pc[w] = "take" /\ HasResults(w) /\ todo[w] # <<>>
      /\ UNCHANGED <<program, threadSafe, main, evidence, manager, rounds, results, room, todo, done>>
  BY DEF IInv, Types, TakeEvidence, HasResults
<1>1. /\ main \in {"watch", "join"} /\ main # "exit" /\ main # "load" /\ w \in Running
      /\ results[w] # None
      /\ room[w] = IF program = "performance" THEN maxEvidence ELSE 1
  BY <1>0, AtWork DEF Held
<1> DEFINE size == IF program = "performance" THEN Sizes[Head(todo[w])] ELSE 1
<1>2. /\ pair' = [pair EXCEPT ![w] = [size |-> size, header |-> None]]
      /\ pc' = [pc EXCEPT ![w] = "detect"]
      /\ pair \in [Workers -> [size : Nat, header : DataSets \cup {None}]]
      /\ todo \in [Workers -> Seq(Records)]
      /\ maxEvidence \in Nat
      /\ pc \in [Workers -> {"out", "create", "take", "detect", "detected"}]
  BY <1>0 DEF TakeEvidence, Types
<1>3. size \in Nat /\ size <= room[w]
  <2>1. Head(todo[w]) \in Records
    BY <1>0, <1>2, HeadTailProperties
  <2>2. CASE program = "performance"
    <3>1. stored = Len(Sizes)
      BY <1>0, <1>1, <2>2 DEF Dealt
    <3>2. size \in Nat /\ size <= maxEvidence /\ room[w] = maxEvidence
      BY <1>0, <1>1, <2>1, <2>2, <3>1 DEF Dealt
    <3> QED BY <3>2
  <2>3. CASE program # "performance"
    BY <1>1, <2>3
  <2> QED BY <2>2, <2>3
<1> HIDE DEF size
<1>4. Types'
  <2>1. [size |-> size, header |-> None] \in [size : Nat, header : DataSets \cup {None}]
    BY <1>3
  <2>2. pair' \in [Workers -> [size : Nat, header : DataSets \cup {None}]]
    BY <1>2, <2>1
  <2>3. pc' \in [Workers -> {"out", "create", "take", "detect", "detected"}]
    BY <1>2
  <2> QED BY <1>0, <2>2, <2>3 DEF Types, TypeOK, Running, evidence, manager, rounds
<1>5. Phases'
  BY <1>0, <1>1, <1>2 DEF Phases, HasManager, IsAtWork, Running, manager
<1>6. Held'
  <2>1. \A v \in Workers : v # w => pc'[v] = pc[v] /\ pair'[v] = pair[v]
    BY <1>2
  <2>2. pc'[w] = "detect" /\ pair'[w].size = size /\ pair'[w].header = None
    BY <1>2
  <2> QED BY <1>0, <1>1, <1>3, <2>1, <2>2 DEF Held, HasResults, evidence
<1>7. Dealt'
  BY <1>0, DealtFrame
<1>8. Passed'
  BY <1>0, <1>1, <1>2 DEF Passed, Whole, Running, evidence
<1>9. Finished'
  <2>1. Idle' = Idle
    BY <1>0, <1>2 DEF Idle
  <2> QED BY <1>0, <2>1 DEF Finished, IsCounting, IsAtWork, rounds
<1>10. Counted'
  BY <1>0, CountedFrame DEF manager
<1> QED BY <1>4, <1>5, <1>6, <1>7, <1>8, <1>9, <1>10 DEF IInv

LEMMA DetectInvariant ==
    ASSUME IInv, NEW w \in Workers, Detect(w)
    PROVE  IInv'
<1> USE WorkersAreFinite
<1>0. /\ Types /\ TypeOK /\ Phases /\ Counted /\ Held /\ Dealt /\ Passed /\ Finished
      /\ pc[w] = "detect" /\ HasResults(w)
      /\ UNCHANGED <<program, threadSafe, main, evidence, manager, rounds, results, room, todo, done>>
  BY DEF IInv, Types, Detect, HasResults
<1>1. /\ main \in {"watch", "join"} /\ main # "exit" /\ w \in Running
      /\ results[w] # None /\ results[w] \in DataSets \cup {None}
  BY <1>0, AtWork DEF Held, TypeOK
<1> DEFINE header == IF pair[w].header = None THEN results[w] ELSE pair[w].header
<1>2. /\ pair' = [pair EXCEPT ![w].header = header]
      /\ pc' = [pc EXCEPT ![w] = "detected"]
      /\ pair \in [Workers -> [size : Nat, header : DataSets \cup {None}]]
      /\ pc \in [Workers -> {"out", "create", "take", "detect", "detected"}]
  BY <1>0 DEF Detect, Types
<1>3. header = results[w]
  BY <1>0 DEF Held
<1> HIDE DEF header
<1>a. /\ pair'[w].size = pair[w].size /\ pair'[w].header = header
      /\ pair' \in [Workers -> [size : Nat, header : DataSets \cup {None}]]
  BY <1>1, <1>2, <1>3
<1>4. Types'
  <2>1. pc' \in [Workers -> {"out", "create", "take", "detect", "detected"}]
    BY <1>2
  <2> QED BY <1>0, <1>a, <2>1 DEF Types, TypeOK, Running, evidence, manager, rounds
<1>5. Phases'
  BY <1>0, <1>1, <1>2 DEF Phases, HasManager, IsAtWork, Running, manager
<1>6. Held'
  <2>1. \A v \in Workers : v # w => pc'[v] = pc[v] /\ pair'[v] = pair[v]
    BY <1>2
  <2>2. pc'[w] = "detected"
    BY <1>2
  <2> QED BY <1>0, <1>1, <1>3, <1>a, <2>1, <2>2 DEF Held, HasResults, evidence
<1>7. Dealt'
  BY <1>0, DealtFrame
<1>8. Passed'
  BY <1>0, <1>1, <1>2 DEF Passed, Whole, Running, evidence
<1>9. Finished'
  <2>1. Idle' = Idle
    BY <1>0, <1>2 DEF Idle
  <2> QED BY <1>0, <2>1 DEF Finished, IsCounting, IsAtWork, rounds
<1>10. Counted'
  BY <1>0, CountedFrame DEF manager
<1> QED BY <1>4, <1>5, <1>6, <1>7, <1>8, <1>9, <1>10 DEF IInv

(* Moving the head of one sequence to the end of another keeps their whole.  *)
LEMMA MoveHead ==
    ASSUME NEW S, NEW s \in Seq(S), NEW t \in Seq(S), t # <<>>
    PROVE  /\ Append(s, Head(t)) \in Seq(S) /\ Tail(t) \in Seq(S)
           /\ Append(s, Head(t)) \o Tail(t) = s \o t
<1>1. Head(t) \in S /\ Tail(t) \in Seq(S) /\ <<Head(t)>> \in Seq(S)
  BY HeadTailProperties
<1>2. Append(s, Head(t)) \in Seq(S) /\ Append(s, Head(t)) = s \o <<Head(t)>>
  BY <1>1, AppendProperties, AppendIsConcat
<1>3. (s \o <<Head(t)>>) \o Tail(t) = s \o (<<Head(t)>> \o Tail(t))
  BY <1>1, ConcatAssociative
<1>4. <<Head(t)>> \o Tail(t) = t
  <2>1. Len(t) \in Nat \ {0} /\ Len(Tail(t)) = Len(t) - 1
        /\ \A i \in 1 .. Len(Tail(t)) : Tail(t)[i] = t[i + 1]
    BY EmptySeq, HeadTailProperties
  <2>2. /\ <<Head(t)>> \o Tail(t) \in Seq(S)
        /\ Len(<<Head(t)>> \o Tail(t)) = 1 + Len(Tail(t))
        /\ \A i \in 1 .. 1 + Len(Tail(t)) :
             (<<Head(t)>> \o Tail(t))[i] = IF i <= 1 THEN <<Head(t)>>[i] ELSE Tail(t)[i - 1]
    BY <1>1, ConcatProperties
  <2>3. Head(t) = t[1]
    OBVIOUS
  <2>4. ASSUME NEW i \in 1 .. Len(t) PROVE (<<Head(t)>> \o Tail(t))[i] = t[i]
    <3>1. CASE i = 1
      BY <2>1, <2>2, <2>3, <3>1
    <3>2. CASE i # 1
      <4>1. i - 1 \in 1 .. Len(Tail(t)) /\ i \in 1 .. 1 + Len(Tail(t)) /\ ~ i <= 1
        BY <2>1, <3>2
      <4>2. Tail(t)[i - 1] = t[(i - 1) + 1] /\ (i - 1) + 1 = i
        BY <2>1, <4>1
      <4> QED BY <2>2, <4>1, <4>2
    <3> QED BY <3>1, <3>2
  <2>5. Len(<<Head(t)>> \o Tail(t)) = Len(t)
    BY <2>1, <2>2
  <2> QED BY <2>2, <2>4, <2>5, SeqEqual
<1> QED BY <1>1, <1>2, <1>3, <1>4

LEMMA RecordEndsInvariant ==
    ASSUME IInv, NEW w \in Workers, RecordEnds(w)
    PROVE  IInv'
<1> USE WorkersAreFinite
<1>0. /\ Types /\ TypeOK /\ Phases /\ Counted /\ Held /\ Dealt /\ Passed /\ Finished
      /\ pc[w] = "detected" /\ HasResults(w) /\ todo[w] # <<>>
      /\ UNCHANGED <<program, threadSafe, main, evidence, rounds, room>>
  BY DEF IInv, Types, RecordEnds, HasResults, Held
<1>1. /\ main \in {"watch", "join"} /\ main # "exit" /\ w \in Running
      /\ results[w] # None /\ results[w] \in DataSets
      /\ room[w] = (IF program = "performance" THEN maxEvidence ELSE 1)
  BY <1>0, AtWork DEF Held, TypeOK
<1>2. /\ todo' = [todo EXCEPT ![w] = Tail(@)]
      /\ done' = [done EXCEPT ![w] = Append(@, Head(todo[w]))]
      /\ todo \in [Workers -> Seq(Records)] /\ done \in [Workers -> Seq(Records)]
      /\ pc \in [Workers -> {"out", "create", "take", "detect", "detected"}]
      /\ pair \in [Workers -> [size : Nat, header : DataSets \cup {None}]]
      /\ results \in [Workers -> DataSets \cup {None}]
  BY <1>0 DEF RecordEnds, Types, TypeOK
<1>3. /\ done'[w] \o todo'[w] = done[w] \o todo[w]
      /\ todo' \in [Workers -> Seq(Records)] /\ done' \in [Workers -> Seq(Records)]
      /\ \A v \in Workers : v # w => todo'[v] = todo[v] /\ done'[v] = done[v]
  <2>1. /\ Append(done[w], Head(todo[w])) \in Seq(Records) /\ Tail(todo[w]) \in Seq(Records)
        /\ Append(done[w], Head(todo[w])) \o Tail(todo[w]) = done[w] \o todo[w]
    <3>1. done[w] \in Seq(Records) /\ todo[w] \in Seq(Records) /\ todo[w] # <<>>
      BY <1>0, <1>2
    <3> QED BY <3>1, MoveHead
  <2> QED BY <1>2, <2>1
\* Either the results are kept for the next record or they are freed.
<1>4. \/ /\ program = "performance"
         /\ pc' = [pc EXCEPT ![w] = "take"] /\ UNCHANGED <<manager, results, pair>>
      \/ /\ program # "performance"
         /\ Release(results[w]) /\ results' = [results EXCEPT ![w] = None]
         /\ pair' = [pair EXCEPT ![w] = NoPairs] /\ pc' = [pc EXCEPT ![w] = "create"]
  BY DEF RecordEnds
<1>5. /\ Counted' /\ users' \in [DataSets -> Nat]
      /\ UNCHANGED <<source, active, built>> /\ live' \subseteq DataSets
  <2>1. CASE UNCHANGED <<manager, results, pair>>
    BY <1>0, <2>1, CountedFrame DEF TypeOK, manager
  <2>2. CASE Release(results[w]) /\ results' = [results EXCEPT ![w] = None]
    <3>1. Counted' /\ users' \in [DataSets -> Nat]
      BY <1>0, <1>1, <2>2, GiveKeepsCounted
    <3> QED BY <2>2, <3>1 DEF Counted, Release
  <2> QED BY <1>4, <2>1, <2>2
<1>6. /\ pc' \in [Workers -> {"out", "create", "take", "detect", "detected"}]
      /\ pc'[w] \in {"take", "create"} /\ \A v \in Workers : v # w => pc'[v] = pc[v]
  BY <1>2, <1>4
<1>7. /\ results' \in [Workers -> DataSets \cup {None}]
      /\ pair' \in [Workers -> [size : Nat, header : DataSets \cup {None}]]
      /\ \A v \in Workers : v # w => results'[v] = results[v] /\ pair'[v] = pair[v]
  <2>1. NoPairs \in [size : Nat, header : DataSets \cup {None}]
    BY DEF NoPairs
  <2>2. CASE UNCHANGED <<results, pair>>
    BY <1>2, <2>2
  <2>3. CASE results' = [results EXCEPT ![w] = None] /\ pair' = [pair EXCEPT ![w] = NoPairs]
    BY <1>2, <2>1, <2>3
  <2> QED BY <1>4, <2>2, <2>3
<1>8. Types'
  BY <1>0, <1>3, <1>5, <1>6, <1>7 DEF Types, TypeOK, Running, evidence, rounds
<1>9. Phases'
  <2>1. \A v \in Workers : pc'[v] # "out" => main \in {"watch", "join"} /\ v \in Running
    BY <1>0, <1>1, <1>6 DEF Phases, IsAtWork
  <2> QED BY <1>0, <1>1, <1>5, <2>1 DEF Phases, HasManager, IsAtWork, Running
<1>10. Held'
  <2>1. CASE program = "performance"
    <3>1. pc' = [pc EXCEPT ![w] = "take"] /\ UNCHANGED <<results, pair>>
      BY <1>4, <2>1
    <3>2. pc'[w] = "take"
      BY <1>2, <3>1
    <3> QED BY <1>0, <1>1, <1>3, <1>6, <2>1, <3>1, <3>2 DEF Held, HasResults, evidence
  <2>2. CASE program # "performance"
    <3>1. pc'[w] = "create" /\ results'[w] = None /\ pair'[w] = NoPairs
      BY <1>2, <1>4, <2>2
    <3>2. NoPairs.size = 0 /\ NoPairs.header = None /\ room[w] \in Nat
      BY <1>0 DEF NoPairs, Types
    <3>3. pair'[w].size <= room[w] /\ pair'[w].header = None
      BY <3>1, <3>2
    <3> QED BY <1>0, <1>1, <1>3, <1>6, <1>7, <2>2, <3>1, <3>3 DEF Held, HasResults, evidence
  <2> QED BY <2>1, <2>2
<1>11. Dealt'
  BY <1>0, DealtFrame
<1>12. Passed'
  <2>1. \A v \in Workers : Whole(v)' = Whole(v)
    BY <1>0 DEF Whole, evidence
  <2>2. \A v \in Workers : done'[v] \o todo'[v] = Whole(v)
    BY <1>0, <1>1, <1>3 DEF Passed
  <2>3. \A v \in Workers : v \in Running /\ pc'[v] = "out" => todo'[v] = <<>>
    BY <1>0, <1>1, <1>3, <1>6 DEF Passed
  <2> QED BY <1>0, <2>1, <2>2, <2>3 DEF Passed, Running
<1>13. Finished'
  <2>1. Idle' = Idle
    BY <1>0, <1>6 DEF Idle
  <2> QED BY <1>0, <2>1 DEF Finished, IsCounting, IsAtWork, rounds
<1> QED BY <1>5, <1>8, <1>9, <1>10, <1>11, <1>12, <1>13 DEF IInv

LEMMA PerformanceEndsInvariant ==
    ASSUME IInv, NEW w \in Workers, PerformanceEnds(w)
    PROVE  IInv'
<1> USE WorkersAreFinite
<1>0. /\ Types /\ TypeOK /\ Phases /\ Counted /\ Held /\ Dealt /\ Passed /\ Finished
      /\ pc[w] = "take" /\ HasResults(w) /\ todo[w] = <<>>
      /\ Release(results[w])
      /\ UNCHANGED <<program, threadSafe, main, evidence, rounds, room, todo, done>>
  BY DEF IInv, Types, PerformanceEnds, HasResults
<1>1. /\ main \in {"watch", "join"} /\ main # "exit" /\ w \in Running
      /\ results[w] # None /\ results[w] \in DataSets
      /\ program = "performance"
  BY <1>0, AtWork DEF Held, TypeOK
<1>2. /\ results' = [results EXCEPT ![w] = None]
      /\ pair' = [pair EXCEPT ![w] = NoPairs]
      /\ pc' = [pc EXCEPT ![w] = "out"]
      /\ pc \in [Workers -> {"out", "create", "take", "detect", "detected"}]
      /\ pair \in [Workers -> [size : Nat, header : DataSets \cup {None}]]
      /\ results \in [Workers -> DataSets \cup {None}]
      /\ room \in [Workers -> Nat]
  BY <1>0 DEF PerformanceEnds, Types, TypeOK
<1>3. /\ Counted' /\ users' \in [DataSets -> Nat]
      /\ UNCHANGED <<source, active, built>> /\ live' \subseteq DataSets
  <2>1. Counted' /\ users' \in [DataSets -> Nat]
    BY <1>0, <1>1, <1>2, GiveKeepsCounted
  <2> QED BY <1>0, <2>1 DEF Counted, Release
<1>4. /\ pc' \in [Workers -> {"out", "create", "take", "detect", "detected"}]
      /\ results' \in [Workers -> DataSets \cup {None}]
      /\ pair' \in [Workers -> [size : Nat, header : DataSets \cup {None}]]
      /\ pc'[w] = "out" /\ results'[w] = None /\ pair'[w] = NoPairs
      /\ \A v \in Workers : v # w => /\ pc'[v] = pc[v] /\ results'[v] = results[v]
                                     /\ pair'[v] = pair[v]
  <2>1. NoPairs \in [size : Nat, header : DataSets \cup {None}]
    BY DEF NoPairs
  <2> QED BY <1>2, <2>1
<1>5. Types'
  BY <1>0, <1>3, <1>4 DEF Types, TypeOK, Running, evidence, rounds
<1>6. Phases'
  BY <1>0, <1>1, <1>3, <1>4 DEF Phases, HasManager, IsAtWork, Running
<1>7. Held'
  <2>1. NoPairs.size = 0 /\ NoPairs.header = None /\ room[w] \in Nat
    BY <1>2 DEF NoPairs
  <2>2. pair'[w].size <= room[w] /\ pair'[w].header = None
    BY <1>4, <2>1
  <2> QED BY <1>0, <1>1, <1>4, <2>2 DEF Held, HasResults, evidence
<1>8. Dealt'
  BY <1>0, DealtFrame
<1>9. Passed'
  BY <1>0, <1>1, <1>4 DEF Passed, Whole, Running, evidence
<1>10. Finished'
  BY <1>0, <1>1 DEF Finished, IsCounting
<1> QED BY <1>3, <1>5, <1>6, <1>7, <1>8, <1>9, <1>10 DEF IInv

LEMMA RequestsEndInvariant ==
    ASSUME IInv, NEW w \in Workers, RequestsEnd(w)
    PROVE  IInv'
<1> USE WorkersAreFinite
<1>0. /\ Types /\ TypeOK /\ Phases /\ Counted /\ Held /\ Dealt /\ Passed /\ Finished
      /\ pc[w] = "create" /\ ~ HasResults(w) /\ program # "performance" /\ todo[w] = <<>>
      /\ UNCHANGED <<program, threadSafe, main, evidence, manager, config, pass, results, room,
                     pair, todo, done>>
  BY DEF IInv, Types, RequestsEnd, HasResults
<1>1. /\ main \in {"watch", "join"} /\ main # "exit" /\ w \in Running
  BY <1>0, AtWork
<1>2. /\ pc' = [pc EXCEPT ![w] = "out"]
      /\ pc \in [Workers -> {"out", "create", "take", "detect", "detected"}]
      /\ threadSafe \in BOOLEAN /\ finished \in 0 .. Threads
  BY <1>0 DEF RequestsEnd, Types, TypeOK
<1>3. /\ pc' \in [Workers -> {"out", "create", "take", "detect", "detected"}]
      /\ pc'[w] = "out" /\ \A v \in Workers : v # w => pc'[v] = pc[v]
  BY <1>2
<1>4. finished' \in 0 .. Threads /\ Finished'
  <2>1. /\ Idle' = Idle \cup {w} /\ w \notin Idle
        /\ IsFiniteSet(Idle) /\ IsFiniteSet(Idle') /\ Cardinality(Idle') <= Threads
    <3>1. Idle' = Idle \cup {w} /\ w \notin Idle
      BY <1>0, <1>3 DEF Idle
    <3>2. Idle \subseteq Workers /\ Idle' \subseteq Workers
      BY DEF Idle
    <3> QED BY <3>1, <3>2, FS_Subset
  <2>2. Cardinality(Idle) \in Nat /\ Cardinality(Idle') = Cardinality(Idle) + 1
    BY <2>1, FS_CardinalityType, FS_AddElement
  <2>3. CASE threadSafe
    <3>1. finished = Cardinality(Idle)
      BY <1>0, <1>1, <2>3 DEF Finished, IsCounting, IsAtWork
    <3>2. finished' = finished + 1
      BY <2>3 DEF RequestsEnd
    <3>3. finished' = Cardinality(Idle') /\ finished' \in 0 .. Threads
      BY <2>1, <2>2, <3>1, <3>2
    <3> QED BY <3>3 DEF Finished
  <2>4. CASE ~ threadSafe
    <3>1. finished' = finished /\ ~ threadSafe'
      BY <1>0, <2>4 DEF RequestsEnd
    <3> QED BY <1>2, <3>1 DEF Finished, IsCounting
  <2> QED BY <1>2, <2>3, <2>4
<1>5. Types'
  BY <1>0, <1>3, <1>4 DEF Types, TypeOK, Running, evidence, manager
<1>6. Phases'
  BY <1>0, <1>1, <1>3 DEF Phases, HasManager, IsAtWork, Running, manager
<1>7. Held'
  BY <1>0, <1>1, <1>3 DEF Held, HasResults, evidence
<1>8. Dealt'
  BY <1>0, DealtFrame
<1>9. Passed'
  BY <1>0, <1>1, <1>3 DEF Passed, Whole, Running, evidence
<1>10. Counted'
  BY <1>0, CountedFrame DEF manager
<1> QED BY <1>4, <1>5, <1>6, <1>7, <1>8, <1>9, <1>10 DEF IInv

-----------------------------------------------------------------------------
(* The steps of the main thread.                                             *)

\* While no thread is at work none has results, in particular at the end.
LEMMA NobodyAtWork ==
    ASSUME Types, Phases, Held, main \notin {"watch", "join", "exit"}
    PROVE  \A w \in Workers : /\ pc[w] = "out" /\ ~ HasResults(w)
                              /\ results[w] = None /\ pair[w] = NoPairs
<1> TAKE w \in Workers
<1>1. pc[w] = "out"
  BY DEF Phases, IsAtWork
<1>2. ~ HasResults(w)
  BY <1>1 DEF HasResults
<1> QED BY <1>1, <1>2 DEF Held

LEMMA NobodyHolds ==
    ASSUME Counted, TypeOK, \A w \in Workers : results[w] = None, active = None
    PROVE  live = {}
<1>1. ASSUME NEW d \in DataSets PROVE users[d] = 0
  <2>1. HoldersOf(d) = {}
    BY WorkersAreFinite DEF HoldersOf
  <2> QED BY <2>1, FS_EmptySet DEF Counted
<1>2. \A d \in DataSets : d # None /\ ~ users[d] > 0
  BY <1>1, WorkersAreFinite
<1> QED BY <1>2 DEF Counted

LEMMA StoreInvariant ==
    ASSUME IInv, StoreEvidence
    PROVE  IInv'
<1>1. /\ Types /\ Phases /\ Counted /\ Held /\ Dealt
      /\ main = "load" /\ main' = "load"
      /\ UNCHANGED <<program, threadSafe, manager, rounds, worker>>
  BY DEF IInv, StoreEvidence
<1>2. \A w \in Workers : ~ HasResults(w)
  BY <1>1, NobodyAtWork
<1>3. Types' /\ Dealt'
  BY <1>1, StoreKeepsTypes, StoreKeepsDealt
<1>4. Phases'
  BY <1>1 DEF Phases, HasManager, IsAtWork, Running, manager, worker
<1>5. Counted'
  BY <1>1, CountedFrame DEF manager, worker
<1>6. Held'
  BY <1>1, <1>2 DEF Held, HasResults, worker
<1>7. Passed' /\ Finished'
  BY <1>1 DEF Passed, Finished, IsCounting, IsAtWork
<1> QED BY <1>3, <1>4, <1>5, <1>6, <1>7 DEF IInv

(* The main thread goes on, to a phase in which it has a manager as before;  *)
(* it waits for threads to be out before it leaves them.                     *)
LEMMA MoveInvariant ==
    ASSUME IInv,
           UNCHANGED <<program, threadSafe, evidence, manager, pass, finished, worker>>,
           \/ Loaded \/ InitFails \/ WatchEnds \/ JoinAgain \/ JoinLast
    PROVE  IInv'
<1>1. /\ Types /\ TypeOK /\ Phases /\ Counted /\ Held /\ Dealt /\ Passed /\ Finished
      /\ threadSafe \in BOOLEAN
  BY DEF IInv, Types
<1>2. /\ main \in {"load", "init", "watch", "join"} /\ main' # "exit"
      /\ HasManager <=> HasManager'
      /\ main' = "join" => main \in {"watch"}
      /\ main' # "watch" /\ (main' = "free manager" => main = "join")
      /\ main = "load" => stored = Len(Sizes)
      /\ main = "join" => \A w \in Running : pc[w] = "out"
      /\ main' # "load"
  BY DEF Loaded, InitFails, WatchEnds, JoinAgain, JoinLast, After, HasManager
<1>3. Types'
  BY <1>1 DEF Types, TypeOK, Running, evidence, manager, worker
<1>4. Phases'
  <2>1. \A w \in Workers : pc[w] # "out" => main \in {"watch"} /\ w \in Running
    BY <1>1, <1>2 DEF Phases, IsAtWork
  <2>2. main = "watch" => main' = "join"
    BY DEF Loaded, InitFails, WatchEnds, JoinAgain, JoinLast
  <2>3. source # "freed" /\ (active # None <=> HasManager)
    BY <1>1, <1>2 DEF Phases
  <2> QED BY <1>1, <1>2, <2>1, <2>2, <2>3 DEF Phases, HasManager, IsAtWork, Running, manager, worker
<1>5. Counted'
  BY <1>1, CountedFrame DEF manager, worker
<1>6. Held'
  BY <1>1, <1>2, HeldFrame DEF evidence, worker
<1>7. Dealt'
  BY <1>1, <1>2, DealtFrame
<1>8. Passed'
  BY <1>1, <1>2 DEF Passed, Whole, Running, evidence, worker
<1>9. Finished'
  <2>1. Idle' = Idle
    BY IdleFrame DEF worker
  <2> QED BY <1>1, <1>2, <2>1 DEF Finished, IsCounting, IsAtWork
<1> QED BY <1>3, <1>4, <1>5, <1>6, <1>7, <1>8, <1>9 DEF IInv

(* An exception ends the program and with it the threads.                    *)
LEMMA ThrowInvariant ==
    ASSUME IInv, main' = "exit", pc' = EachWorker("out"),
           main # "end",
           UNCHANGED <<program, threadSafe, evidence, manager, rounds, results, room, pair,
                       todo, done>>,
           main = "load" => stored = Len(Sizes)
    PROVE  IInv'
<1>1. /\ Types /\ TypeOK /\ Phases /\ Counted /\ Held /\ Dealt
      /\ \A w \in Workers : pc'[w] = "out"
      /\ pc' \in [Workers -> {"out", "create", "take", "detect", "detected"}]
  BY DEF IInv, Types, EachWorker
<1>3. Types'
  BY <1>1 DEF Types, TypeOK, Running, evidence, manager, rounds
<1>4. Phases'
  BY <1>1 DEF Phases, manager
<1>5. Counted'
  BY <1>1, CountedFrame DEF manager
<1>6. Held'
  BY <1>1 DEF Held, HasResults
<1>7. Dealt'
  BY <1>1, DealtFrame
<1>8. Passed' /\ Finished'
  BY DEF Passed, Finished, IsCounting, IsAtWork
<1> QED BY <1>3, <1>4, <1>5, <1>6, <1>7, <1>8 DEF IInv

LEMMA StartInvariant ==
    ASSUME IInv, StartThreads
    PROVE  IInv'
<1> USE WorkersAreFinite
<1>1. /\ Types /\ TypeOK /\ Phases /\ Counted /\ Held /\ Dealt /\ main = "start"
      /\ UNCHANGED <<program, threadSafe, evidence, manager, config, results, room, pair>>
      /\ main' \in {"watch", "join"}
      /\ finished' = 0
      /\ pc' = [w \in Workers |-> IF w \in Running THEN "create" ELSE "out"]
      /\ todo' = [w \in Workers |-> Whole(w)]
      /\ done' = [w \in Workers |-> <<>>]
      /\ main' = "watch" => threadSafe
      /\ threadSafe /\ program # "performance" => main' = "watch"
  BY DEF IInv, Types, StartThreads, EachWorker, Whole
<1>2. \A w \in Workers : results[w] = None /\ pair[w] = NoPairs
  BY <1>1, NobodyAtWork
<1>3. \A w \in Workers : Whole(w) \in Seq(Records)
  <2>1. [r \in Records |-> r] \in Seq(Records)
    OBVIOUS
  <2> QED BY <1>1, <2>1 DEF Whole, TypeOK
<1>4. Types'
  <2>1. /\ <<>> \in Seq(Records) /\ finished' \in 0 .. Threads
        /\ pc' \in [Workers -> {"out", "create", "take", "detect", "detected"}]
    BY <1>1, EmptySeq
  <2>2. todo' \in [Workers -> Seq(Records)] /\ done' \in [Workers -> Seq(Records)]
    BY <1>1, <1>3, <2>1
  <2> QED BY <1>1, <2>1, <2>2 DEF Types, TypeOK, Running, evidence, manager
<1>5. Phases'
  <2>1. HasManager /\ HasManager' /\ main # "exit"
    BY <1>1 DEF HasManager
  <2> QED BY <1>1, <2>1 DEF Phases, IsAtWork, Running, manager
<1>6. Counted'
  BY <1>1, CountedFrame DEF manager
<1>7. Held'
  <2>1. \A w \in Workers : pc'[w] \in {"create", "out"}
    BY <1>1
  <2> QED BY <1>1, <1>2, <2>1 DEF Held, HasResults
<1>8. Dealt'
  BY <1>1, DealtFrame
<1>9. Passed'
  <2>1. \A w \in Workers : Whole(w)' = Whole(w)
    BY <1>1 DEF Whole, evidence
  <2>2. \A w \in Workers : done'[w] \o todo'[w] = Whole(w)
    BY <1>1, <1>3, ConcatEmptySeq
  <2>3. \A w \in Workers : w \in Running' => pc'[w] # "out"
    BY <1>1 DEF Running
  <2> QED BY <2>1, <2>2, <2>3 DEF Passed
<1>10. Finished'
  <2> SUFFICES ASSUME IsCounting' PROVE finished' = Cardinality(Idle')
    BY DEF Finished
  <2>1. Running = Workers
    BY <1>1 DEF IsCounting, Running
  <2>2. Idle' = {}
    BY <1>1, <2>1 DEF Idle
  <2> QED BY <1>1, <2>2, FS_EmptySet
<1> QED BY <1>4, <1>5, <1>6, <1>7, <1>8, <1>9, <1>10 DEF IInv

(* Another data set takes the place of the active one, or none does.         *)
LEMMA ReplaceInvariant ==
    ASSUME IInv, NEW d \in DataSets \cup {None}, Replace(d),
           UNCHANGED <<program, threadSafe, evidence, finished, worker>>,
           \/ main = "init" /\ main' = "start" /\ d # None
           \/ main = "watch" /\ main' = "watch" /\ d # None
           \/ main = "reload" /\ main' = "start" /\ d # None
           \/ main = "free manager" /\ main' = After /\ d = None
    PROVE  IInv'
<1> USE WorkersAreFinite
<1>1. /\ Types /\ TypeOK /\ Phases /\ Counted /\ Held /\ Dealt /\ Passed /\ Finished
      /\ active' = d /\ built' = (IF d = None THEN built ELSE d)
      /\ UNCHANGED <<source, users>>
  BY DEF IInv, Types, Replace
<1>2. Counted'
  BY <1>1, ReplaceKeepsCounted DEF worker
<1>3. Types'
  <2>1. built' \in 0 .. MaxBuilt
    BY <1>1 DEF Types
  <2>2. live' \subseteq DataSets
    BY <1>2 DEF Counted
  <2> QED BY <1>1, <2>1, <2>2 DEF Types, TypeOK, Running, evidence, worker
<1>4. /\ d # None <=> HasManager'
      /\ main \in {"init", "watch", "reload", "free manager"}
      /\ main' # "exit" /\ main' # "load" /\ main' \notin {"join", "free manager"}
      /\ main' = "watch" <=> main = "watch"
  BY DEF HasManager, After
<1>5. Phases'
  <2>1. \A w \in Workers : pc[w] # "out" => main = "watch" /\ w \in Running
    BY <1>1, <1>4 DEF Phases, IsAtWork
  <2>2. source # "freed"
    BY <1>1, <1>4 DEF Phases
  <2> QED BY <1>1, <1>4, <2>1, <2>2 DEF Phases, IsAtWork, Running, worker
<1>6. Held'
  BY <1>1, <1>4, HeldFrame DEF evidence, worker
<1>7. Dealt'
  BY <1>1, <1>4, DealtFrame
<1>8. Passed'
  BY <1>1, <1>4 DEF Passed, Whole, Running, evidence, worker
<1>9. Finished'
  <2>1. Idle' = Idle
    BY IdleFrame DEF worker
  <2> QED BY <1>1, <1>4, <2>1 DEF Finished, IsCounting, IsAtWork
<1> QED BY <1>2, <1>3, <1>5, <1>6, <1>7, <1>8, <1>9 DEF IInv

(* The reload program goes on with the data set it has, or the end is there. *)
LEMMA LeaveInvariant ==
    ASSUME IInv,
           UNCHANGED <<program, threadSafe, stored, threadIndex, maxEvidence, active, built, users,
                       live, rounds, worker>>,
           \/ main = "reload" /\ main' = "start" /\ UNCHANGED <<lists, source>>
           \/ FreeSource /\ UNCHANGED lists
           \/ FreeEvidence /\ UNCHANGED source
    PROVE  IInv'
<1>1. /\ Types /\ TypeOK /\ Phases /\ Counted /\ Held /\ Dealt
      /\ lists \in [Workers -> Seq(Records)]
  BY DEF IInv, Types, TypeOK
<1>2. /\ main \notin {"watch", "join", "exit", "end", "load"}
      /\ main' \in {"start", "end"}
      /\ HasManager <=> HasManager'
      /\ main' # "end" => UNCHANGED <<lists, source>>
  BY DEF FreeSource, FreeEvidence, HasManager
<1>3. lists' \in [Workers -> Seq(Records)]
  <2>1. CASE lists' = lists
    BY <1>1, <2>1
  <2>2. CASE lists' = [w \in Workers |-> <<>>]
    BY <2>2, EmptySeq
  <2> QED BY <2>1, <2>2 DEF FreeEvidence, EachWorker
<1>4. Types'
  BY <1>1, <1>3 DEF Types, TypeOK, Running, rounds, worker
<1>5. Phases'
  <2>1. \A w \in Workers : pc'[w] = "out"
    BY <1>1, <1>2, NobodyAtWork DEF worker
  <2>2. source' = "freed" => main' = "end"
    BY <1>1, <1>2 DEF Phases
  <2> QED BY <1>1, <1>2, <2>1, <2>2 DEF Phases
<1>6. Counted'
  BY <1>1, CountedFrame DEF worker
<1>7. Held'
  BY <1>1, <1>2, HeldFrame DEF worker
<1>8. Dealt'
  <2>1. CASE main' # "end"
    BY <1>1, <1>2, <2>1, DealtFrame DEF evidence
  <2>2. CASE main' = "end"
    BY <1>1, <1>2, <2>2 DEF Dealt
  <2> QED BY <2>1, <2>2
<1>9. Passed' /\ Finished'
  BY <1>2 DEF Passed, Finished, IsCounting, IsAtWork
<1> QED BY <1>4, <1>5, <1>6, <1>7, <1>8, <1>9 DEF IInv

-----------------------------------------------------------------------------
(* Every step keeps the invariant.                                           *)

THEOREM NextInvariant == IInv /\ [Next]_vars => IInv'
<1> SUFFICES ASSUME IInv, [Next]_vars PROVE IInv'
  OBVIOUS
<1>0. /\ TypeOK /\ built \in Nat
      /\ \A d \in Nat : built < MaxBuilt /\ d = built + 1 => d \in DataSets /\ d # None
  BY WorkersAreFinite DEF IInv, Types, DataSets, None
<1>1. CASE StoreEvidence
  BY <1>1, StoreInvariant
<1>2. CASE Loaded
  BY <1>2, MoveInvariant DEF Loaded, rounds
<1>3. CASE InitManager
  BY <1>0, <1>3, ReplaceInvariant DEF InitManager
<1>4. CASE InitFails
  BY <1>4, MoveInvariant DEF InitFails
<1>5. CASE StartThreads
  BY <1>5, StartInvariant
<1>6. CASE WatchEnds
  BY <1>6, MoveInvariant DEF WatchEnds, rounds
<1>7. CASE JoinAgain
  BY <1>7, MoveInvariant DEF JoinAgain, rounds
<1>8. CASE ReloadOnce
  <2>1. CASE built < MaxBuilt /\ Replace(built + 1)
    BY <1>0, <1>8, <2>1, ReplaceInvariant DEF ReloadOnce, rounds
  <2>2. CASE UNCHANGED manager
    BY <1>8, <2>2, LeaveInvariant DEF ReloadOnce, manager, evidence
  <2> QED BY <1>8, <2>1, <2>2 DEF ReloadOnce
<1>9. CASE JoinLast
  BY <1>9, MoveInvariant DEF JoinLast, rounds
<1>10. CASE FreeManager
  BY <1>10, ReplaceInvariant DEF FreeManager
<1>11. CASE FreeSource
  BY <1>11, LeaveInvariant DEF FreeSource, evidence
<1>12. CASE FreeEvidence
  BY <1>12, LeaveInvariant DEF FreeEvidence, manager
<1>13. CASE Reload
  BY <1>0, <1>13, ReplaceInvariant DEF Reload, rounds
<1>14. CASE ManagerThrows
  BY <1>14, ThrowInvariant DEF ManagerThrows
<1>15. ASSUME NEW w \in Workers, Thread(w) PROVE IInv'
  <2>1. CASE CreateResults(w)
    BY <2>1, CreateInvariant
  <2>2. CASE TakeEvidence(w)
    BY <2>2, TakeInvariant
  <2>3. CASE Detect(w)
    BY <2>3, DetectInvariant
  <2>4. CASE DetectFails(w)
    <3>1. main # "end" /\ main # "load"
      BY <2>4, AtWork DEF DetectFails, IInv
    <3> QED BY <2>4, <3>1, ThrowInvariant DEF DetectFails
  <2>5. CASE RecordEnds(w)
    BY <2>5, RecordEndsInvariant
  <2>6. CASE PerformanceEnds(w)
    BY <2>6, PerformanceEndsInvariant
  <2>7. CASE RequestsEnd(w)
    BY <2>7, RequestsEndInvariant
  <2> QED BY <1>15, <2>1, <2>2, <2>3, <2>4, <2>5, <2>6, <2>7 DEF Thread
<1>16. CASE UNCHANGED vars
  <2>1. /\ Types /\ TypeOK /\ Phases /\ Counted /\ Held /\ Dealt /\ Passed /\ Finished
        /\ UNCHANGED <<program, threadSafe, main, evidence, manager, rounds, worker>>
    BY <1>16 DEF IInv, Types, vars
  <2>2. Types' /\ Phases' /\ Passed'
    BY <2>1 DEF Types, TypeOK, Running, Phases, HasManager, IsAtWork, Passed, Whole,
                evidence, manager, rounds, worker
  <2>3. Counted' /\ Held' /\ Dealt'
    BY <2>1, CountedFrame, HeldFrame, DealtFrame DEF evidence, manager, worker
  <2>4. Finished'
    BY <2>1, IdleFrame DEF Finished, IsCounting, IsAtWork, rounds, worker
  <2> QED BY <2>2, <2>3, <2>4 DEF IInv
<1> QED BY <1>1, <1>2, <1>3, <1>4, <1>5, <1>6, <1>7, <1>8, <1>9, <1>10, <1>11, <1>12, <1>13,
           <1>14, <1>15, <1>16 DEF Next, Main

THEOREM Invariant == Spec => []IInv
<1>1. Init => IInv
  BY InitInvariant
<1>2. IInv /\ [Next]_vars => IInv'
  BY NextInvariant
<1> QED BY <1>1, <1>2, PTL DEF Spec

(* Whatever the main thread replaces or frees, a thread only follows pointers *)
(* into a data set that is in memory.                                        *)
THEOREM PointersStayCurrent == Spec => []PointersAreCurrent
<1>1. IInv => PointersAreCurrent
  <2> SUFFICES ASSUME IInv PROVE PointersAreCurrent
    OBVIOUS
  <2>1. /\ Types /\ TypeOK /\ Phases /\ Counted /\ Held
    BY DEF IInv, Types
  <2>2. main = "end" => live = {}
    <3> HAVE main = "end"
    <3>1. active = None
      BY <2>1 DEF Phases, HasManager
    <3>2. \A w \in Workers : results[w] = None
      BY <2>1, NobodyAtWork
    <3> QED BY <2>1, <3>1, <3>2, NobodyHolds
  <2>3. live # {} => source # "freed"
    BY <2>1, <2>2 DEF Phases
  <2>4. ASSUME NEW w \in Workers, results[w] # None
        PROVE  results[w] \in live /\ source # "freed"
    <3>1. results[w] \in DataSets
      BY <2>1, <2>4 DEF TypeOK
    <3>2. users[results[w]] > 0
      BY <2>1, <3>1, HolderCounts DEF Counted
    <3>3. results[w] \in live
      BY <2>1, <3>1, <3>2 DEF Counted
    <3> QED BY <2>3, <3>3
  <2> QED BY <2>1, <2>2, <2>3, <2>4 DEF PointersAreCurrent, Held
<1> QED BY <1>1, Invariant, PTL

LEMMA ConcatIsEmpty ==
    ASSUME NEW S, NEW s \in Seq(S), NEW t \in Seq(S), s \o t = <<>>
    PROVE  s = <<>>
<1>1. Len(s) + Len(t) = 0 /\ Len(s) \in Nat /\ Len(t) \in Nat
  BY EmptySeq, ConcatProperties, LenProperties
<1>2. Len(s) = 0
  BY <1>1
<1> QED BY <1>2, EmptySeq

LEMMA PlaceIsRecord ==
    ASSUME NEW k \in Nat, k <= Len(Sizes), NEW n \in 1 .. k
    PROVE  n \in Records
BY WorkersAreFinite

LEMMA PairParts ==
    ASSUME NEW S, NEW T, NEW x \in S \X T
    PROVE  x = <<x[1], x[2]>> /\ x[1] \in S /\ x[2] \in T
OBVIOUS

LEMMA OneAhead ==
    ASSUME NEW a \in Nat, NEW b \in Nat, NEW x \in {0, 1}, NEW y \in {0, 1}, a - x = b - y
    PROVE  a <= b + 1
OBVIOUS

(* A pass of Performance detects every record once, in threads that have as  *)
(* many records as each other or one more; in the reload programs each       *)
(* thread detects all records in their order.                                *)
THEOREM EachRecordIsDetectedOnce == Spec => []EachRecordOnce
<1>1. IInv => EachRecordOnce
  <2> SUFFICES ASSUME IInv, main = "free manager" PROVE EachRecordOnce
    BY DEF EachRecordOnce
  <2> USE WorkersAreFinite
  <2>1. /\ Types /\ TypeOK /\ Phases /\ Dealt /\ Passed /\ Held
        /\ lists \in [Workers -> Seq(Records)] /\ done \in [Workers -> Seq(Records)]
        /\ Running \subseteq Workers
    BY RunningWorkers DEF IInv, Types, TypeOK
  <2>2. \A w \in Workers : pc[w] = "out"
    BY <2>1, NobodyAtWork
  <2>3. ASSUME NEW w \in Running PROVE done[w] = Whole(w)
    <3>1. done[w] \o todo[w] = Whole(w) /\ todo[w] = <<>> /\ done[w] \in Seq(Records)
      BY <2>1, <2>2 DEF Passed
    <3> QED BY <3>1, ConcatEmptySeq
  <2>4. CASE program # "performance"
    BY <2>3, <2>4 DEF EachRecordOnce, Whole
  <2>5. CASE program = "performance"
    <3>1. \A w \in Running : done[w] = lists[w]
      BY <2>3, <2>5 DEF Whole
    <3>2. \A w \in Workers : w \notin Running => lists[w] = <<>>
      BY <2>1 DEF Dealt
    <3>3. \A w \in Workers : w \notin Running => done[w] = <<>>
      <4> TAKE w \in Workers
      <4> HAVE w \notin Running
      <4>1. done[w] \o todo[w] = <<>>
        BY <2>1, <2>5, <3>2 DEF Passed, Whole
      <4>2. done[w] \in Seq(Records) /\ todo[w] \in Seq(Records)
        BY <2>1 DEF Types
      <4> QED BY <4>1, <4>2, ConcatIsEmpty
    <3>4. \A w \in Workers : done[w] = lists[w]
      BY <3>1, <3>2, <3>3
    <3>5. ASSUME NEW r \in Records
          PROVE  Cardinality({wn \in Workers \X Records :
                                 wn[2] \in DOMAIN done[wn[1]] /\ done[wn[1]][wn[2]] = r}) = 1
      <4> DEFINE S == {wn \in Workers \X Records :
                          wn[2] \in DOMAIN done[wn[1]] /\ done[wn[1]][wn[2]] = r}
      <4>1. stored = Len(Sizes)
        BY <2>1, <2>5 DEF Dealt
      <4>2. r \in 1 .. stored
        BY <4>1
      <4>3. PICK w \in Running : \E n \in DOMAIN lists[w] : lists[w][n] = r
        BY <2>1, <4>2 DEF Dealt
      <4>4. PICK n \in DOMAIN lists[w] : lists[w][n] = r
        BY <4>3
      <4>5. w \in Workers /\ n \in Records
        <5>1. w \in Workers
          BY <2>1
        <5>2. Len(lists[w]) <= stored
          BY <2>1, <5>1 DEF Dealt
        <5>3. n \in 1 .. Len(lists[w]) /\ Len(lists[w]) \in Nat
          BY <2>1, <5>1, LenProperties
        <5> QED BY <4>1, <5>1, <5>2, <5>3, PlaceIsRecord
      <4>6. S = {<<w, n>>}
        <5>1. <<w, n>> \in S
          BY <3>4, <4>4, <4>5
        <5>2. ASSUME NEW v \in Workers, NEW m \in Records, m \in DOMAIN done[v], done[v][m] = r
              PROVE  v = w /\ m = n
          <6>1. m \in DOMAIN lists[v] /\ lists[v][m] = lists[w][n]
            BY <3>4, <4>4, <5>2
          <6>2. \A u \in Workers : \A k \in DOMAIN lists[v], l \in DOMAIN lists[u] :
                    lists[v][k] = lists[u][l] => v = u /\ k = l
            BY <2>1 DEF Dealt
          <6> QED BY <4>4, <4>5, <6>1, <6>2
        <5>3. ASSUME NEW x \in S PROVE x = <<w, n>>
          <6>0. /\ x \in Workers \X Records
                /\ x[2] \in DOMAIN done[x[1]] /\ done[x[1]][x[2]] = r
            BY <5>3
          <6>1. x = <<x[1], x[2]>> /\ x[1] \in Workers /\ x[2] \in Records
            BY <6>0, PairParts
          <6>2. x[1] = w /\ x[2] = n
            BY <5>2, <6>0, <6>1
          <6> QED BY <6>1, <6>2
        <5> QED BY <5>1, <5>3
      <4> QED BY <4>6, FS_Singleton
    <3>6. ASSUME NEW v \in Running, NEW w \in Running PROVE Len(done[v]) <= Len(done[w]) + 1
      <4>1. Len(lists[v]) - Ahead(v) = Len(lists[w]) - Ahead(w)
        BY <2>1 DEF Dealt
      <4>2. Len(lists[v]) \in Nat /\ Len(lists[w]) \in Nat
        BY <2>1, LenProperties
      <4>3. Ahead(v) \in {0, 1} /\ Ahead(w) \in {0, 1}
        BY DEF Ahead
      <4>4. Len(lists[v]) <= Len(lists[w]) + 1
        BY <4>1, <4>2, <4>3, OneAhead
      <4> QED BY <3>1, <4>4
    <3> QED BY <2>5, <3>5, <3>6 DEF EachRecordOnce
  <2> QED BY <2>4, <2>5
<1> QED BY <1>1, Invariant, PTL
=============================================================================
