---------------------------- MODULE SharedManager ----------------------------
(* The programs under examples/ that share one manager between threads.      *)
(*                                                                           *)
(* Performance.c deals the records of evidence out to the threads and has    *)
(* all threads detect their own, twice for each configuration, with a new    *)
(* manager for each.  ReloadFromMemory.c and ReloadFromFile.c have each      *)
(* thread detect all records, and reload the data set again and again until  *)
(* the threads have finished.  A reload is one step here; DataSetLifecycle   *)
(* says what happens in it.  A thread whose detection fails ends the program *)
(* (EXCEPTION_THROW).                                                        *)
EXTENDS Integers, Sequences, FiniteSets

CONSTANTS
    Threads,        \* numberOfThreads, THREAD_COUNT
    Sizes,          \* the number of pairs of each record, in their order
    Configs,        \* number of performanceConfigs
    MaxBuilt        \* bound: data sets that are built

ASSUME ThreadsAssumption == Threads \in Nat \ {0}
ASSUME SizesAssumption == Sizes \in Seq(Nat)
ASSUME BoundAssumption == {Configs, MaxBuilt} \subseteq Nat /\ MaxBuilt >= Configs

Workers == 0 .. Threads - 1
Records == DOMAIN Sizes
DataSets == 1 .. MaxBuilt
None == 0
Garbage == -1       \* the pointer to a header in memory that nobody has set

VARIABLES
    program,        \* "performance", "memory" or "file"
    threadSafe,     \* ThreadingGetIsThreadSafe
    main,           \* where the main thread is
    stored,         \* records of evidence stored
    lists,          \* evidenceFirst: the records of each thread
    threadIndex,
    maxEvidence,
    config,         \* configurations left
    pass,           \* of the threads over the records
    source,         \* the memory with the data: "none", "live" or "freed"
    active,         \* the data set of the manager
    built,          \* data sets built so far
    users,          \* of each data set
    live,           \* data sets in memory
    finished,       \* threadsFinished
    pc,             \* where each thread is
    results,        \* the data set of the results of each thread
    room,           \* pairs that the evidence of each thread can hold
    pair,           \* the pairs of the evidence: their number and their header
    todo,           \* records left to each thread
    done            \* records each thread has detected in this pass

evidence == <<stored, lists, threadIndex, maxEvidence>>
manager == <<source, active, built, users, live>>
rounds == <<config, pass, finished>>
worker == <<pc, results, room, pair, todo, done>>
vars == <<program, threadSafe, main, evidence, manager, rounds, worker>>

Running == IF threadSafe THEN Workers ELSE {0}
NoPairs == [size |-> 0, header |-> None]
EachWorker(x) == [w \in Workers |-> x]

Init ==
    /\ program \in {"performance", "memory", "file"}
    /\ threadSafe \in BOOLEAN
    /\ main = IF program = "performance" THEN "load" ELSE "init"
    /\ stored = 0
    /\ lists = EachWorker(<<>>)
    /\ threadIndex = 0
    /\ maxEvidence = 0
    /\ config = IF program = "performance" THEN Configs ELSE 1
    /\ pass = 0
    /\ source = IF program = "memory" THEN "live" ELSE "none"
    /\ active = None
    /\ built = 0
    /\ users = [d \in DataSets |-> 0]
    /\ live = {}
    /\ finished = 0
    /\ pc = EachWorker("out")
    /\ results = EachWorker(None)
    /\ room = EachWorker(0)
    /\ pair = EachWorker(NoPairs)
    /\ todo = EachWorker(<<>>)
    /\ done = EachWorker(<<>>)

-----------------------------------------------------------------------------
(* Mutant: the index turns over one thread too late.                         *)
TurnsLate(n) == IF n = Cardinality(Running) + 1 THEN 0 ELSE n

\* The thread that the next record is for.
Turns(n) == IF n = Cardinality(Running) THEN 0 ELSE n

(* storeEvidence: the record goes to the thread whose turn it is.            *)
StoreEvidence ==
    /\ main = "load"
    /\ stored < Len(Sizes)
    /\ stored' = stored + 1
    /\ lists' = [lists EXCEPT ![threadIndex] = Append(@, stored + 1)]
    /\ maxEvidence' = IF Sizes[stored + 1] > maxEvidence THEN Sizes[stored + 1] ELSE maxEvidence
    /\ threadIndex' = Turns(threadIndex + 1)
    /\ UNCHANGED <<program, threadSafe, main, manager, rounds, worker>>

Loaded ==
    /\ main = "load"
    /\ stored = Len(Sizes)
    /\ main' = "init"
    /\ UNCHANGED <<program, threadSafe, evidence, manager, rounds, worker>>

-----------------------------------------------------------------------------
(* The manager, as far as these programs see it.                             *)
Replace(d) ==
    /\ active' = d
    /\ built' = IF d = None THEN built ELSE d
    /\ live' = (live \ (IF active # None /\ users[active] = 0 THEN {active} ELSE {}))
                 \cup (IF d = None THEN {} ELSE {d})
    /\ UNCHANGED <<source, users>>

Release(d) ==
    /\ users' = [users EXCEPT ![d] = @ - 1]
    /\ live' = IF users[d] = 1 /\ d # active THEN live \ {d} ELSE live
    /\ UNCHANGED <<source, active, built>>

\* What follows when the work with a manager is over.
After ==
    IF program = "performance" THEN (IF config > 1 THEN "init" ELSE "free evidence")
    ELSE IF program = "memory" THEN "free source"
    ELSE "end"

(* executeBenchmark, HashReloadFrom...Run: the manager is initialised.       *)
InitManager ==
    /\ main = "init"
    /\ config > 0
    /\ built < MaxBuilt
    /\ Replace(built + 1)
    /\ pass' = 0
    /\ main' = "start"
    /\ UNCHANGED <<program, threadSafe, evidence, config, finished, worker>>

InitFails ==
    /\ main = "init"
    /\ config > 0
    /\ config' = config - 1
    /\ main' = After
    /\ UNCHANGED <<program, threadSafe, evidence, manager, pass, finished, worker>>

(* EXCEPTION_THROW after an initialisation or a reload ends the program.     *)
ManagerThrows ==
    /\ \/ main = "init" /\ config > 0
       \/ main = "watch" /\ finished < Threads
       \/ main = "reload"
    /\ main' = "exit"
    /\ pc' = EachWorker("out")
    /\ UNCHANGED <<program, threadSafe, evidence, manager, rounds, results, room, pair,
                   todo, done>>

(* runTests, startThreads; without threads the main thread does the work of  *)
(* the first one itself.                                                     *)
StartThreads ==
    /\ main = "start"
    /\ pass' = pass + 1
    /\ finished' = 0
    /\ pc' = [w \in Workers |-> IF w \in Running THEN "create" ELSE "out"]
    /\ todo' = [w \in Workers |-> IF program = "performance" THEN lists[w]
                                  ELSE [r \in Records |-> r]]
    /\ done' = EachWorker(<<>>)
    /\ main' = IF threadSafe /\ program # "performance" THEN "watch" ELSE "join"
    /\ UNCHANGED <<program, threadSafe, evidence, manager, config, results, room, pair>>

(* The loop of the reload programs, in C and in C++.  A reload that fails    *)
(* changes nothing.                                                          *)
Reload ==
    /\ main = "watch"
    /\ finished < Threads
    /\ built < MaxBuilt
    /\ Replace(built + 1)
    /\ UNCHANGED <<program, threadSafe, main, evidence, rounds, worker>>

WatchEnds ==
    /\ main = "watch"
    /\ finished >= Threads
    /\ main' = "join"
    /\ UNCHANGED <<program, threadSafe, evidence, manager, rounds, worker>>

\* Performance warms up, unless the build is for memory only; a reload program
\* without threads detects once before and once after its reload.
IsFirstOfTwo == pass = 1 /\ (program = "performance" \/ ~ threadSafe)

JoinAgain ==
    /\ main = "join"
    /\ \A w \in Running : pc[w] = "out"
    /\ IsFirstOfTwo
    /\ main' = IF program = "performance" THEN "start" ELSE "reload"
    /\ UNCHANGED <<program, threadSafe, evidence, manager, rounds, worker>>

ReloadOnce ==
    /\ main = "reload"
    /\ \/ built < MaxBuilt /\ Replace(built + 1)
       \/ UNCHANGED manager
    /\ main' = "start"
    /\ UNCHANGED <<program, threadSafe, evidence, rounds, worker>>

JoinLast ==
    /\ main = "join"
    /\ \A w \in Running : pc[w] = "out"
    /\ IsFirstOfTwo => program = "performance"
    /\ main' = "free manager"
    /\ UNCHANGED <<program, threadSafe, evidence, manager, rounds, worker>>

(* ResourceManagerFree                                                       *)
FreeManager ==
    /\ main = "free manager"
    /\ Replace(None)
    /\ config' = config - 1
    /\ main' = After
    /\ UNCHANGED <<program, threadSafe, evidence, pass, finished, worker>>

FreeSource ==
    /\ main = "free source"
    /\ source' = "freed"
    /\ main' = "end"
    /\ UNCHANGED <<program, threadSafe, evidence, active, built, users, live, rounds, worker>>

(* freeSharedStrings and freeEvidence                                        *)
FreeEvidence ==
    /\ main = "free evidence"
    /\ lists' = EachWorker(<<>>)
    /\ main' = "end"
    /\ UNCHANGED <<program, threadSafe, stored, threadIndex, maxEvidence, manager, rounds, worker>>

-----------------------------------------------------------------------------
(* A thread.  In Performance it has results and evidence for all records, in *)
(* the reload programs new ones for each.                                    *)
CreateResults(w) ==
    /\ pc[w] = "create"
    /\ program = "performance" \/ todo[w] # <<>>
    /\ active # None
    /\ users' = [users EXCEPT ![active] = @ + 1]
    /\ results' = [results EXCEPT ![w] = active]
    /\ room' = [room EXCEPT ![w] = IF program = "performance" THEN maxEvidence ELSE 1]
    /\ pc' = [pc EXCEPT ![w] = "take"]
    /\ UNCHANGED <<program, threadSafe, main, evidence, source, active, built, live, rounds,
                   pair, todo, done>>

(* Mutant: the headers of the copy are as they are in the record.            *)
TakeEvidenceAsItIs(w) ==
    /\ pc[w] = "take"
    /\ todo[w] # <<>>
    /\ pair' = [pair EXCEPT ![w] =
                   [size |-> IF program = "performance" THEN Sizes[Head(todo[w])] ELSE 1,
                    header |-> IF program = "performance" THEN Garbage ELSE None]]
    /\ pc' = [pc EXCEPT ![w] = "detect"]
    /\ UNCHANGED <<program, threadSafe, main, evidence, manager, rounds, results, room, todo, done>>

(* The record is copied and its headers are set to NULL, or a User-Agent is  *)
(* added to the evidence.                                                    *)
TakeEvidence(w) ==
    /\ pc[w] = "take"
    /\ todo[w] # <<>>
    /\ pair' = [pair EXCEPT ![w] =
                   [size |-> IF program = "performance" THEN Sizes[Head(todo[w])] ELSE 1,
                    header |-> None]]
    /\ pc' = [pc EXCEPT ![w] = "detect"]
    /\ UNCHANGED <<program, threadSafe, main, evidence, manager, rounds, results, room, todo, done>>

(* ResultsHashFromEvidence finds the headers that the pairs do not have yet  *)
(* in the data set of the results; then the values are read.                 *)
Detect(w) ==
    /\ pc[w] = "detect"
    /\ pair' = [pair EXCEPT ![w].header = IF @ = None THEN results[w] ELSE @]
    /\ pc' = [pc EXCEPT ![w] = "detected"]
    /\ UNCHANGED <<program, threadSafe, main, evidence, manager, rounds, results, room, todo, done>>

DetectFails(w) ==
    /\ pc[w] = "detect"
    /\ main' = "exit"
    /\ pc' = EachWorker("out")
    /\ UNCHANGED <<program, threadSafe, evidence, manager, rounds, results, room, pair, todo, done>>

RecordEnds(w) ==
    /\ pc[w] = "detected"
    /\ todo' = [todo EXCEPT ![w] = Tail(@)]
    /\ done' = [done EXCEPT ![w] = Append(@, Head(todo[w]))]
    /\ IF program = "performance"
       THEN /\ pc' = [pc EXCEPT ![w] = "take"]
            /\ UNCHANGED <<manager, results, pair>>
       ELSE /\ Release(results[w])
            /\ results' = [results EXCEPT ![w] = None]
            /\ pair' = [pair EXCEPT ![w] = NoPairs]
            /\ pc' = [pc EXCEPT ![w] = "create"]
    /\ UNCHANGED <<program, threadSafe, main, evidence, rounds, room>>

(* runPerformanceThread ends.                                                *)
PerformanceEnds(w) ==
    /\ pc[w] = "take"
    /\ todo[w] = <<>>
    /\ Release(results[w])
    /\ results' = [results EXCEPT ![w] = None]
    /\ pair' = [pair EXCEPT ![w] = NoPairs]
    /\ pc' = [pc EXCEPT ![w] = "out"]
    /\ UNCHANGED <<program, threadSafe, main, evidence, rounds, room, todo, done>>

(* Mutant: a thread that ends is not counted.                                *)
RequestsEndUncounted(w) ==
    /\ pc[w] = "create"
    /\ program # "performance" /\ todo[w] = <<>>
    /\ pc' = [pc EXCEPT ![w] = "out"]
    /\ UNCHANGED <<program, threadSafe, main, evidence, manager, rounds, results, room,
                   pair, todo, done>>

(* runRequestsMulti ends; runRequestsSingle does not count.                  *)
RequestsEnd(w) ==
    /\ pc[w] = "create"
    /\ program # "performance" /\ todo[w] = <<>>
    /\ finished' = IF threadSafe THEN finished + 1 ELSE finished
    /\ pc' = [pc EXCEPT ![w] = "out"]
    /\ UNCHANGED <<program, threadSafe, main, evidence, manager, config, pass, results, room,
                   pair, todo, done>>

-----------------------------------------------------------------------------
Main ==
    \/ StoreEvidence \/ Loaded
    \/ InitManager \/ InitFails \/ StartThreads
    \/ WatchEnds \/ JoinAgain \/ ReloadOnce \/ JoinLast
    \/ FreeManager \/ FreeSource \/ FreeEvidence

Thread(w) ==
    \/ CreateResults(w) \/ TakeEvidence(w) \/ Detect(w) \/ DetectFails(w)
    \/ RecordEnds(w) \/ PerformanceEnds(w) \/ RequestsEnd(w)

Next == Main \/ Reload \/ ManagerThrows \/ \E w \in Workers : Thread(w)

Spec == Init /\ [][Next]_vars

(* The main thread and the threads run on; how often the data set is         *)
(* reloaded meanwhile is a matter of time, which is left open.               *)
FairSpec ==
    /\ Spec
    /\ WF_vars(Main)
    /\ \A w \in Workers : WF_vars(Thread(w))

-----------------------------------------------------------------------------
(* The variables have their types.                                           *)
TypeOK ==
    /\ lists \in [Workers -> Seq(Records)]
    /\ threadIndex \in Running
    /\ active \in DataSets \cup {None}
    /\ users \in [DataSets -> Nat]
    /\ live \subseteq DataSets
    /\ finished \in 0 .. Threads
    /\ results \in [Workers -> DataSets \cup {None}]

(* A thread only follows pointers into data that is there: its results and   *)
(* the headers its pairs remember are of one data set, which is in memory    *)
(* although other data sets replace it and other passes had other ones; the  *)
(* memory of the caller is freed after the last data set in it; and the      *)
(* pairs fit into the evidence that was made for the largest record.         *)
PointersAreCurrent ==
    /\ TypeOK
    /\ \A w \in Workers :
         /\ results[w] # None => results[w] \in live /\ source # "freed"
         /\ pair[w].header \in {None, results[w]}
         /\ pair[w].size <= room[w]
    /\ live # {} => source # "freed"
    /\ main = "end" => live = {}

(* At the end of a pass of Performance every record was detected once, by    *)
(* one thread, and no thread had two records more than another; in a pass of *)
(* the reload programs each thread has detected all records, in their order. *)
EachRecordOnce ==
    /\ main = "free manager"
    => IF program = "performance"
       THEN /\ \A r \in Records :
                 Cardinality({wn \in Workers \X Records :
                                 wn[2] \in DOMAIN done[wn[1]] /\ done[wn[1]][wn[2]] = r}) = 1
            /\ \A v, w \in Running : Len(done[v]) <= Len(done[w]) + 1
       ELSE \A w \in Running : done[w] = [r \in Records |-> r]

(* The program comes to its end: the threads are joined, and the reloads     *)
(* stop when all of them have finished.                                      *)
ProgramEnds == <>(main \in {"end", "exit"})
=============================================================================
