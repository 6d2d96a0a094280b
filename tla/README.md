# A TLA+ development for the 51Degrees device detection library

The repository holds the C and C++ implementation of on-premise device
detection: a data file with graphs of hashed substrings is loaded, the
User-Agent and other evidence of a request is walked through the graphs, and the
results say which profile each component (hardware, platform, browser, ...) has.
This directory models the logic of `src/src/hash/` and the files next to it,
model-checks it on small instances and proves part of it for all instances.

`tlc -config X.cfg M` checks a run, `tlapm M.tla` a module with proofs; the runs
are in the table below. `PROJECT.json` maps each definition to its lines.

## 1. The system

| Part | State | Operations | Where it meets others |
|---|---|---|---|
| Graph node lookup (`graph.c`) | a node: `modulo`, hash records | search of a hash in a binary node, an ordered list, a hash table with collision buckets | called for every hash of a detection; nodes come from the data file |
| Detection (`hash.c` 394-1100) | `detectionState`: node, ranges, rolled hash, allowances, drift, difference, counters | `processRoots` > `processRoot` > `processFromRoot` > `evaluateListNode`, `evaluateBinaryNode` > `setInitialHash`, `advanceHash`, `applyDrift`, `setNextNode` | node items of a collection that may be cached; writes one result |
| Results (`hash.c` 2253-3250, 3860-4020) | items with profiles, overrides, matched nodes; count and capacity; overrides | `ResultsHashFromEvidence`, `FromUserAgent`, `FromDeviceId`, `Create`, `Free`, the readers | a detection for each header; keep a reference to the data set |
| Special evidence (`transformc.c`, `transform.h`, `Transform.cpp`, `gethighentropyvalues.c`, `hash.c` 2507-2625) | the text and its cursor, the transform buffer, pairs of evidence, the headers that matter | GetHighEntropyValues and device.sua to headers, through an iterator, an array or a C++ vector; which headers are present; override of the JavaScript | evidence of a request; a buffer in the results |
| Values of a property (`hash.c` 3259-3860, 4020-4099, `ResultsHash.cpp`) | values list and property item of the results | `GetValues`, `GetHasValues`, `GetNoValueReason`, strings, JSON | items of collections that count their users; overrides |
| Data set life cycle (`hash.c`, `dataset-dd.c`, `EngineHash.cpp`, `ResultsHash.cpp`) | active data set, count of users, results | get and release, create and free results, refresh, destroy | threads of the program; the resource manager of common-cxx |
| Initialisation (`hash.c` 1106-2251) | data set under construction, status and exception | `HashInitManagerFromFile`, `FromMemory`, `freeDataSet`; the sizes | constructors of `EngineHash`, reload |
| Programs that share a manager (`examples/`) | records of evidence, threads and their results, data sets | deal out evidence, detect, reload, join, free | the C and C++ API |
| C++ wrappers, metadata, configuration, bindings, other examples | copies | getters, builders | |
| common-cxx | resource manager, collections, evidence, exceptions | | a submodule that is not in the tree: modelled from its use, and marked external |

What is hard here: a refresh replaces the data set under running detections;
results are used again and again, and keep items of collections between calls; up
to four passes over two graphs share one state; a rolled hash must agree with a
fresh one after any number of steps; damaged files meet unchecked arithmetic; a
parser goes on counting when its buffer is full, and its caller relies on the count;
transforms of several pairs share a buffer while the evidence grows under an iteration; and
every stage of initialisation has its own failure path. `PROJECT.json` lists 40 such
hazards at their lines, with the properties that cover them or the reason none does.

What makes each part correct:

- lookup: finds what is stored, nothing else, within the node, and ends;
- detection: a match is found where the graphs hold one, the exact one is
  preferred, what is reported about it is true, the passes do not colour one another;
- results: nothing of an earlier detection is left, items do not overflow,
  the order in which evidence is applied has the documented effect, readers agree;
- special evidence: the parser stays in its text and its buffer whatever the text, a
  document becomes the headers it stands for or the caller is told, the first document
  that is of use is used, and the JavaScript is dropped only when nothing is left to ask;
- values: complete and of the property asked for, items are given back whatever failed;
- life cycle: nothing is used after it is freed, freed twice, or kept for ever;
- initialisation: a manager has a whole data set, a failure leaves nothing behind;
- programs: pointers stay within one data set, every record is detected, the end is reached.

## 2. The modules

| Module | What it is | Extends |
|---|---|---|
| `GraphNode` | nodes, and what it means that they are well formed | |
| `NodeMap` | abstract: a lookup in a map from hash codes to offsets | `GraphNode` |
| `GraphLookup` | the searches of `graph.c`, one step per read of a record; refines `NodeMap` | `GraphNode` |
| `SharedData` | abstract: a current value, who holds which, a value that nobody holds goes | |
| `DataSetLifecycle` | counted references, calls of threads, refresh, destruction; refines `SharedData` | |
| `Descent` | tuples of numbers that do not go down for ever: what is left of something that ends | |
| `Detection` | one detection in the graphs, one step per roll of the hash, node, walk or pass | `Descent` |
| `ResultsSelection` | which item of the results answers for a property: shared by the next module and the one after | |
| `ResultsEvidence` | one results structure used for any number of detections | `ResultsSelection` |
| `ResultsValues` | what a caller reads from results, call by call | `ResultsSelection` |
| `ClientHints` | documents, their text, and the headers they stand for: the reference of the parser | |
| `Transform` | the parser of `transformc.c` with its buffer; the callback is its caller's | |
| `Retries` | abstract: a call with a finite piece of work, made again with a larger buffer until that is enough | |
| `TransformArray` | the array functions and a caller that calls again with a larger buffer; refines `Retries` | `Transform` |
| `SpecialEvidence` | the special pairs of a detection, the headers that matter, the override | `Transform`, `Descent` |
| `InitDataSet` | one initialisation, stage by stage, and the clean-up after each failure | |
| `SharedManager` | the programs whose threads share a manager | |
| `...MC` | the instances for TLC | |
| `...Proofs` | theorems and their proofs, of `GraphLookup`, `DataSetLifecycle`, `Detection`, `ResultsEvidence`, `ResultsValues`, `InitDataSet`, `SharedManager`; `TransformProofs` is about `TransformArray` and `SpecialEvidence` | |

### GraphNode, GraphLookup, NodeMap

`node` and `hash` are the arguments; `pc` is the loop or branch the call is in;
`index`, `lower`, `upper` are the locals of the loops. Each action is one round of
a loop or one branch that returns: `BinaryNode`, `ListNodeNoRead`,
`ListNodeTable` then `TableHead`, `TableBucket...`, and `ListNodeSearch` then
`Search...`. `found` is the offset, or none. Nodes are arbitrary records,
damaged ones included, because the code's checks (a usable modulo, a bucket that
ends with the node) are there for those. `IsWellFormed` is what the compiler of a
data file promises: an ordered list, or a table in which each hash lies in its slot
or bucket; completeness and the refinement hold of such nodes only, bounds and
progress of all.

### DataSetLifecycle, SharedData

A thread is idle or at a step of one of the calls `process`, `processBase`, `c`
(the same made through the C API, with results that are used again), `view`
(getters and metadata collections) and `refresh`. `inUse` is the count of the resource
manager's handle, `status` says whether the memory of a data set may be used,
`lost` counts references whose results nobody can reach. Get, release and
replace are atomic, as the interlocked operations of the resource manager make
them. Everything between them is a step of its own: `SizeGet`, `SizeRelease`,
`CreateGet`, `CreateResults`, `Detect...`, `FreeResults`, and of a refresh
`RefreshGet`, a build that succeeds or fails, `RefreshRelease`. The engine may be
destroyed while results live; they keep the manager alive (`SharesManager`).
A program that calls into an engine it is destroying is left out, as is one that
frees the same results twice.

### Detection

`call` is the User-Agent, the configuration and the graphs; `state` has the
fields of `detectionState`; `stage` and `pass` say in which graph and in which
loop of `processRoot` the walk is; `items` counts node items held. The scan of a range is one step per
position (`AdvanceHash`, `BinaryNodeNearest`), with a hash rolled modulo `Modulus`
in place of 2^32 and `Prime` in place of 997. A lookup in a node
is the map that `GraphLookup` was shown to implement. Nodes that cannot be read set
the exception (`WalkFails`), after which the passes go on as in the code. Left out:
the trace of debug builds, and the configured length of the matched User-Agent.

Of the graphs of a data file the model assumes what its compiler promises: finitely many nodes, no
cycle (`Numberings`: a node can be numbered above those that link to it), codes that are hashes, and
ranges that stay within what a walk may come to (`Entry`, `Links`, `Reached`). `Matches` says by the chain
of a root, without walking, whether a graph holds a match for the User-Agent. Two edges of the numbers are named
and not excluded: `NoZeroCodes` (no binary node has the code 0, which a User-Agent that is too
short matches, hash.c:876) and `NoOpposites` (no two hashes are half of the numbers apart, whose distance
stays negative, hash.c:801).

### ResultsSelection, ResultsEvidence

`items`, `count` and `evidence` are those of the results; `todo`, `pending`,
`component` and `lastResult` are the iteration state of
`resultsHashFromEvidence_handleComponentEvidence`; `foundIds` is what
`findAndApplyDeviceIDs` returns. What a graph answers for a header is a choice (a
profile with matched nodes, none, an exception), which is what `Detection` allows. The
readers `HasValues`, `NoValueReason` and `DeviceId` are operators; that they end up with the
same item is a property, not a definition.

### ResultsValues

Results that a detection has left are read by one call after another: `HasValues`,
`NoValueReason`, `GetValues`, its strings, the strings of all properties, the JSON document,
`getValuesInternal`, and at last `ResultsFree`. `users` counts the items of each collection that
are in use; `propertyItem`, `list`, `ownList` and `capacity` are what the results keep
between calls. Every read of a collection is a step that may fail. The list is filled value by
value (`AddValue`, `AddValueFails`), and made anew when it was too small (`GrowList`). `pc` is
"crashed" where the code uses the pointer of an item that could not be read.

### ClientHints, Transform, TransformArray, Retries, SpecialEvidence

A text is a sequence of symbols, each of which takes one character: names of keys,
literals, words in strings, punctuation. `Transform` has the cursor `at`, the symbols `out` that
were passed to the string builder, fitting or not, and the locals of `iterateGhev` and `iterateSua`;
one step reads one key or one value, and where a callback is called the step is that of the module
that extends it. A null pointer, an empty text and a value that did not fit are kept apart, because
the code returns all three. `ClientHints` builds documents together with the headers they
stand for, without reading anything.

In `TransformArray` the callback fills an array of a given capacity, and the caller calls again
while the buffer is too small: with the larger of the count and the doubled length, as
`Transform.cpp` does, or with the count alone, as `transform.h` says. `Retries` is what such a caller
relies on: it works (`Left` is the text that is left, and the steps until the cursor moves on), comes short of a
buffer only if that is smaller than what is enough, and then has a larger one. `SpecialEvidence` has the two
iterations of `gethighentropyvalues.c` over the properties, the iteration of `setSpecialHeaders` over the
pairs, the callback that replaces or adds pairs to the evidence that is iterated, and the
override of the JavaScript. A pair points into the buffer, so that what a reader finds there
is what was written last.

### InitDataSet

`call` says what is asked for; `held` is what is allocated, `frees` how often each
part was freed, `memoryToFree` the field of that name. A stage succeeds, or fails with
a status, an exception or both, having built a piece of its part or nothing. Temporary
files, file handles and what a stage reads are left out. Builds with assertions
are not modelled: there the last stage would stop the program.
The functions that measure how much memory a data set takes are calls of their own
(`HashSizeManagerFromFile`, `HashSizeManagerFromMemory`), which free the manager of their stack; "crashed"
is what may happen when it was never initialised.

The array of the headers of components is not initialised and is freed for all components, so that a
failure of `initComponentHeaders` has three ends: there is no array; only the last component failed and all is freed
as it should be; or pointers that were never set are freed (`FreeUnset`), which is undefined behaviour. That
ends the program, or goes on with any of the memory that is held freed as well (`stray`); `"unset"` among the
resources counts that it happened (`UnsetFreed`).

### SharedManager

`Performance.c`, `ReloadFromMemory.c` and `ReloadFromFile.c`: the main thread stores records of evidence,
builds a data set per configuration or reloads one, starts the threads, joins them or waits for
`threadsFinished`, and frees. A thread takes a record, copies its pairs into evidence of its
own (the pointer to a header is that of the data set the results use), detects, and goes on. A
reload is one step here; what happens within it is `DataSetLifecycle`. A detection that fails ends the program.

## 3. The runs

| Run | Question | Result |
|---|---|---|
| `GraphLookup` | searches of small nodes, well formed or damaged | holds: 3 properties, 667,758 states |
| `DataSetLifecycle` | two threads, all calls, three data sets, destruction | holds: 5 properties, 542,000 states |
| `DataSetLeak` | what was replaced is freed, also after a failure of `EngineHash::process` | violated |
| `Detection` | graphs with and without tolerances | holds: 6 properties, 986,116 states |
| `ResultsEvidence` | results used for any sequence of detections | holds: 6 properties, 27,781 states |
| `ResultsValues` | any sequence of calls that read results, with failures | holds: 3 properties, 164,484 states |
| `TransformArray` | documents whole, cut off and damaged, buffers too small | holds: 6 properties, 28,208 states |
| `TransformWritten` | a caller of base64 that allocates what was counted is answered | violated |
| `SpecialEvidence` | up to two special pairs, some of no use | holds: 5 properties, 4,192 states |
| `InitDataSet` | failures of initialisation | holds: 3 properties, 4,996 states |
| `InitCleanedUp` | nothing is freed twice | violated |
| `SharedManager` | programs with two threads | holds: 3 properties, 7,739 states |

The types of a module are part of the invariant that relates most of its
variables (`SearchIsSound`, `CountsAreTrue`, `HashIsOfSubstring`, `ItemsSuffice`, `CursorInText`,
`ItemsAreGivenBack`, `ManagerIsWhole`, `PointersAreCurrent`).

### Bounds, and why they are enough

- `GraphLookup`: hashes 0..5; ordered lists of up to five records (more than two
  halvings, both parities); every damaged node of up to three records with all
  moduli from -1 to one too many and all offsets from -1 to one too many; tables with two slots
  and three further records, so that two buckets touch and one ends with the node.
- `DataSetLifecycle`: two threads, as every race of the code is of two parties
  (a reader and a refresh, two refreshes, a reader and the destruction); three data sets, so
  that two are replaced; each with another capacity. `MaxLost` bounds the references that
  `process` loses on a data set. A refresh builds a data set that was not used before, or
  fails, which bounds the refreshes.
- `Detection`: User-Agents of up to three characters of an alphabet of two, 48 graphs of
  four nodes (three in the performance graph, list and binary nodes, empty ones,
  substrings of one and two characters, ranges that drift can extend to either
  side), tolerances of 0 and 1, both graphs or one, a file or memory. `Prime` 5 and
  `Modulus` 64 keep all substrings apart; hashes are at most 12, so that both `NoZeroCodes` and
  `NoOpposites` hold (`NoEdges`). Depth three gives the passes two depths at
  which to be tolerant. `hazards` says what the code does with a cycle, a
  binary code of 0 and a distance of half of `Modulus`.
- `ResultsEvidence`: three components, one of which has no available property, so that the
  capacity is smaller than the number of components; two profiles of each of the others;
  up to two device ids, overrides and headers, unknown and null ids; no bound on the
  number of detections.
- `ResultsValues`: two components, three properties, profiles with no, one and two values (the list
  starts with room for one), an overridden value, and the results that a strict, a lenient and a
  device id detection leave. Calls are not bounded, but for those that read the property twice (`MaxAsked` 2).
- `TransformArray`: eight documents that hold every kind of member (strings with escapes, null,
  lists, lists of brands with and without a name or a version, nested unknown values, a
  repeated key, an empty object); every prefix and every loss of one symbol of each; buffers from
  nothing to enough, among them those that end within a name, a value and a separator; arrays of 0, 2
  and 8. `MaxCalls` only stops the counting of calls.
- `SpecialEvidence`: one or two special pairs in every pair of places, whole, cut off, broken,
  empty and too large, next to headers that are there already, also one that the caller gave with two prefixes; a pair that fails after it has added
  two headers, before one that writes over the names of those; three properties, whose values
  repeat a header, name an unknown one, or are not for Accept-CH.
- `InitDataSet`: all calls there are, and three components: the first, a middle one and the last fail differently,
  and one component alone could only be the last.
- `SharedManager`: two threads, three records of different sizes (the threads have unequal
  shares, and the evidence is made for the largest), two configurations, three data sets.

### Fairness

- A call that was begun goes on (`WF` of `Continue`, of `Next` in `GraphLookup`, `Detection`,
  `TransformArray` and `SpecialEvidence`): the code is sequential and does not block.
- `ReplacedGoes` and `ReplacedIsFreed` further need that results are freed again and again (`SF` of
  `FreeResults`: a caller deletes its results, see the destructor of `ResultsHash`; a thread
  that uses them again in between disables the step for a while), and that a
  manager nobody shares is freed (`WF` of `ManagerFree`, the shared pointer of `EngineHash`). Threads
  need not start calls.
- `SharedManager`: the main thread and each worker run on (`WF` of each), which a scheduler of
  threads grants. How often the data set is reloaded meanwhile is left open.

## 4. What was found

With a run and a counterexample:

- `DataSetLeak`: `EngineHash::process` throws without freeing its results
  (EngineHash.cpp:244, 260; `processBase` at 275-278 frees them). Their
  reference keeps a replaced data set for ever, which hash.h:738 does not expect.
- `InitCleanedUp`: from memory, two failures free the data set twice, and a copy made by
  the constructor of `EngineHash` as well (hash.c:2136-2151, 2183-2186, EngineHash.cpp:77).
- `TransformWritten`: `written` is called the required buffer size, and a caller is to allocate at
  least that many characters (transform.h:87, 92). Base64 text that does not fit ends the call before its keys are
  read (transformc.c:1259-1262), with the decoding and its terminator counted; a buffer of just that size is too
  small again, as the builder keeps the last character, and the count is the same: such a caller calls for
  ever. (`bufferTooSmall` is then not set either, transformc.c:1258.) The C++ wrapper doubles its
  buffer and is done with the third call (`RetriesAreFew`).

Seen while modelling, each of them a plain consequence of one place of the code, so that a run would only
restate it:

- the pass with both tolerances does not extend the range of its walk, although the comment says
  that the drift was applied already (hash.c:668-680, 793);
- a binary node that matches within a difference copies the last window of its range to the
  matched User-Agent, not the nearest one (hash.c:834-847, 889);
- the separators between the brands of device.sua are not counted when the buffer is full
  (transformc.c:995), so that there, too, `written` may be less than what is required; a document that has its
  list several times may take a caller that does not double its buffer a fourth call;
- overrides of profiles are applied after device ids (hash.c:3035), which hash.h:511 gives
  the highest priority; `EvidencePrevails` states what the code does;
- the pairs that a failed transform has set or added point into the buffer that the next one
  writes, as transform.h:68-72 warns of; `LastTransformIsIntact` is about the last one. A later
  transform may find a pair by a name of the first and then write over that name: the value is the
  new one, the name that is read is not (hash.c:2507-2550), so that names are intact only
  of pairs that the last transform added itself;
- a pair of the evidence whose value is NULL counts as a header that is present (`AllPresent`);
- a property that cannot be read is used through a NULL pointer when a value is asked for (hash.c:3658),
  and `NoValueReason` reads a property twice into one item, so that the first is never given back
  (hash.c:3711): `ItemsAreGivenBack` allows for as many as there were such calls;
- the JSON document has the name of a property with no value after it when the result that is taken for the property
  has no profile for it (the only result, of a device id, or the first of unmatched ones that are allowed): `ResultsHashGetValues` then
  returns an empty list and not NULL (hash.c:3440, 4057). "Otherwise we could have ended up with {"key1":,"key2":} invalid
  json", says the comment of the check that lets it through (hash.c:4055-4056). `JsonIsOfProperties` has it as a named exception,
  `TakenWithoutProfile`, and says nothing of such a document;
- when a document has more headers than the array of the caller, transform.h:250-254 (also 292-296 and 332-336) promises the
  exception `INSUFFICIENT_CAPACITY`, and iterations that tell the capacity which is needed. `pushToHeaders` ends the iteration
  once the array is full (transformc.c:1137-1149), so that the iterations are the headers that were written, and nothing sets
  that exception; the tests agree with the code (TransformTests.cpp:852-855, 929-933). `DocumentIsTransformed` states what the array
  then holds, and nothing of the exception;
- "if the header already exists then the current value is replaced" (hash.c:2524-2525) is not so in two cases, both of
  which `UsableIsUsed` names. A transform that fails leaves the pairs it added (`NameIsLost`): of a device.sua that is too large,
  the model at the sixth place of the buffer; when the base64 text that follows is decoded over that name, the pair is not found,
  and the model is added again behind it. Both have the same header, so that a lookup by header comes upon the old pair first, whose
  value is in a buffer that was written over. And of a header that the caller provided with two prefixes
  (`IsProvidedAgain`) only the first is replaced; the other one keeps its value, and prevails if it is that of the
  query (hash.c:329-332, 2876);
- the pointers to the headers of each component are in an array that is not initialised (hash.c:1542). When a component
  has no headers (hash.c:1551) and is not the last, `freeDataSet` frees the pointers behind it all the same (hash.c:1126-1130):
  undefined behaviour, which the model has as a crash or as the loss of any memory. The properties of `InitDataSet` except what
  follows it, and `FileIsCleanedUp` says when it can happen;
- the functions that measure a manager free one that an exception left uninitialised (hash.c:2064, 2237);
- when a file cannot be read, the data set is freed and then the name of its temporary file is
  read from it (hash.c:1939-1942); the constructor of a metadata collection leaks its
  reference when it fails (PropertyMetaDataCollectionForComponentHash.cpp:47).

## 5. What is proved

The proofs are checked by TLAPS for every value of the constants, from the named
assumptions in the modules: `Threads` is finite, or a number above 0, `First` is a data set, `Components` counts,
`Nodes` are records of the shape of a node, `Calls` are calls (to initialise a data set of any number of components), `Detected` are results whose profiles have
values, a default is a profile of its component, graphs are those of section 2,
texts are sequences of symbols and no known header is called NULL. TLC evaluates them for each instance.
Each safety theorem goes by an
inductive invariant `IInv` with `Init => IInv`, `IInv /\ [Next]_vars => IInv'`, which TLC checked on the
instances before it was proved.

- `GraphLookupProofs`. None of the properties is inductive. `SearchInvariant` says where the
  search has been: a hash of an ordered list is within `lower .. upper`, and the bucket's
  records before `index` are neither markers nor the hash. From it follow `Typing`, `Bounds` (no
  read outside a node, damaged or not), `Soundness`, `Completeness`
  (a search of a well-formed node that finds nothing missed nothing), `SearchSoundness` (`Typing`,
  `Bounds` and `Completeness` together: the invariant of the run), `Progress` (each round
  leaves less to search) and `Refinement` (the safety part of `NodeMap`).
- `DataSetLifecycleProofs`. The count is exact only together with what each step of a
  call holds (`HoldsWhileInCall`) and with what the memory of each data set is (`Memory`, which
  contains the counting of references over a finite set of threads). Theorems: `Typing`, `Counting`,
  `NoUseAfterFree`, `NoRetention`, `OwnCapacity`, `FreedOnce`, `ManagerLife`, `Refinement`
  of `SharedData`, and `TrueCounts` and `HeldMemory`, the invariants of the run, from the others. They hold for any number of threads, data sets and refreshes.
- `DetectionProofs`. What is asked of the answer depends on what every walk before it did
  not find, and that on each position its scans passed by. The invariant has: where a walk is, among what can be
  reached (`Place`); what a pass tolerates (`Allowances`); the scan, whose rolled hash and power are those of the
  substring at `currentIndex` (`Scanned`); what it passed by (`Passed`: no code near enough, or for the nearest one the
  least distance); that a walk comes to a node once (`Deepens`), along the chain of its root
  until one matches (`Follows`); what is therefore not there (`Missed`), or there (`Earned`, `Answered`).
  That a rolled hash is the fresh one (`RolledHashIsOfSubstring`) holds of every prime, modulus and length: it
  rests on lemmas about remainders (`RollingStep`) and about functions that are defined by recursion (`RecursionExists`,
  by the least number for which none exists). Theorems without a hypothesis: `RolledHashIsOfSubstring`, `WalksDoNotMeet`,
  `ExactMatchesPrevail` and `NothingIsMissed` (no answer means that no graph in use holds a match). `HashesAreOfSubstrings`
  and `DriftIsCovered` need `NoZeroCodes`: with a code of 0 a match may lie beyond the User-Agent. `MatchesAreFound` needs
  `NoOpposites` as well, since a negative distance is a match that the graph does not hold. Both
  hypotheses hold of the checked instances. `EachStepComesCloser` is why a detection ends: each step lowers `ToGo`, which has
  the graphs that are left, the passes, the depth at which a pass was last tolerant, the nodes above the one the walk is at, and what is left of
  the scan, the first of them that changes going down (`Lower`). It needs nothing but that the graphs have no cycle.
- `ResultsEvidenceProofs`. That the results are large enough needs to know how many components had a header so far
  (`Handled`, with the count of the headers handled and whose profiles an item may hold), that readers agree needs
  `ItemsAgree` together with what was asked for (`AskedIsThere`), and what prevails is carried through the lists of
  identities by what those already applied have left (`DeviceIdsKept`, `OverridesKept`, `Retrieved`). Theorems:
  `ResultsAreLargeEnough`, `ResultsAreOfOneMind`, `EveryProfileIsEarned`, `NamedProfilesPrevail`, `NoComponentIsMissing`,
  `AllReadersAgree`: all the properties of the run, for any components, profiles, evidence and number of detections.
- `SharedManagerProofs`. `Counted` says which data sets are in memory by who holds them, `Held` that results, evidence and the
  pointer in it are of one data set, `Phases` when there is a manager; `Dealt` that the lists of the threads
  part the records, evenly, and `Passed` that what a thread did and what it has left are its
  list. Theorems: `PointersStayCurrent` and `EachRecordIsDetectedOnce`, for any number of threads, records,
  configurations and reloads.
- `InitDataSetProofs`. The invariant says what each stage finds
  allocated (`StagesBuild`), what a success leaves (`SuccessIsWhole`) and who owns the memory
  (`CallerOwns`, `FileIsFreed`), and that a success has a manager until its size was measured
  (`Measured`). That pointers which were never set are freed is a failure, with an exception and without a manager, of a data set
  with several components (`UnsetRaises`); up to then memory is kept and freed as the theorems say. Theorems: `Typing`,
  `Completeness`, `WholeManager`, and with that exception `CallersMemory` and `FileCleanUp`.
- `ResultsValuesProofs`. What is given back between calls follows from what is held within them:
  a profile by an iteration and nothing else (`ProfileIsHeld`), a string by its place in the list
  (`StringsAreHeld`), the property by the results, and what is too much by calls of `NoValueReason` that
  are over (`PropertyIsHeld`, in which a call that has not read the second time may add one less). That
  the item selected for a property is one of the results, and its profile one that has values
  (`SelectedProfile`), rests on a set of numbers having a least one, by well-foundedness. What is read is `VInv`: the list
  holds the first values of the profile, as many as were visited or have room (`ListIsRead`), it has room for all once it
  was made larger, and what was written is for the properties before this one (`AllIsRead`, `JsonIsRead`, with
  the separator telling whether any was). `Joined` names the prefixes of a flattened sequence, so that the library's
  `FlattenSeq` is the last of them (`JoinedIsFlat`). Theorems: `Typing`, `GivenBack`, `AllValuesAreGiven` and
  `DocumentIsOfProperties`, for any properties, values, results and overrides of at most one string. The
  last two rest on `EarnedAssumption`: that profiles are earned, which `ResultsEvidenceProofs` proves of a detection
  (`EveryProfileIsEarned`), and that the data file has a value for every profile and property of one component.
  The proof of the second follows the document as it is written in any case (`WrittenMembers`), which is as it should be where no
  property is `TakenWithoutProfile`.

- `TransformProofs`. Of the parser: every scan ends in its text or at its NUL (`SkipEnds`, `NestedEnds`, `VersionEnds`, ...:
  the recursive functions exist because what is at a position comes from later ones, `FixedPointExists`, and their
  results are shown from the end backwards). `ParseInv` has the types, the names that were written first, and that each value
  read so far is in the buffer behind them; `Moves` says what a step does, as its callers need it: nothing
  written is changed, and a value that is delivered was read from where the writing then stood. `TransformArray`
  adds that the array is in the order of the buffer, before what is being read (`ArrayInv`): the version of a platform
  is read before the platform is delivered, so the order is kept across two callbacks. `SpecialEvidence` adds what
  the iterations over the properties have counted and collected (`GhevInv`), that a pair has the header
  of its name or none, and that the pairs of the last transform hold what is in the buffer, which only grows
  (`SetInv`). That no shortage is silent is of the status: no step of a call makes it unset again, and one that leaves
  it unset wrote what fits and read no value that has no place, but for an empty list (`Tells`); the names alone take
  the room of the terminator (`ShortageInv`). Theorems, for any texts, buffers, arrays, properties and evidence:
  `CursorStaysInText`, `ArrayValuesAreApart`, `ShortagesAreReported`, `GhevHeadersAlwaysFit`, `OverridesAreComplete`, `LastTransformStaysIntact`,
  `HeadersStayReplaced` (a header that a caller provided is not added a second time, by any number of transforms, nor one at the same place of the buffer),
  and `EachStepComesCloser`: the iteration over the evidence ends because a transform adds pairs to it, but none that would be
  transformed (`SpecialsStay`), and because each step of the parser leaves less of the text (`ParseLeavesLess`).
- The retries, in the same module. `RetriesRefinement`: each step of the parser or its caller is one of `Retries`. `RetryInv` bounds what was
  written by what was read, so that a call whose buffer has the size `Enough` is not short; that the next buffer is larger
  follows from a call being short only if it counted more than there is room for. `FewCallsSuffice` is stronger: the second call of
  a document, and the third of base64, is not short. It compares the calls with the walk of one that has
  enough buffer. `Onward` is a step of that walk, whatever it would deliver; `Leads` says where it comes to, as the least set
  that is closed under `Onward`; `Counted(m)`, that nothing it counts is more than m. Each step of a call mirrors one of the
  walk (`Mirrors`), until the first call that is short has counted all of it (`Exploring`), and then the next
  one has that room (`Settled`). A first call may pass over an element whose value has no room, and go on where the walk has
  filled its array; what it counted is then enough as well. The theorem leaves out device.sua, where a
  full buffer hides the separators (see above) and the walk is therefore not mirrored; of base64 both
  theorems assume the caller of `Transform.cpp`, as `TransformWritten` shows they must.

Only model-checked:

- that a document becomes its headers (`DocumentIsTransformed`, and `FirstUsableIsTransformed` in `UsableIsUsed`): it relates
  a text to the document it was built from, whatever its length, which is an induction over data;
- the calls that device.sua takes (`RetriesAreFew`, for the reason above);
- liveness, which is out of reach of the prover, as is `ENABLED`: `ReplacedGoes`, `ProgramEnds`, that a detection, the iteration over
  the evidence or the retries come to their end (`<>` in both `DetectionEnds` and in `Retries`; that each step comes closer is proved), the
  liveness part of `NodeMap`.

No module uses `RECURSIVE`; recursion is by recursive functions.

## 6. Not modelled, and why

- The debug trace of the graphs, logging and the layout of strings and numbers: nothing depends on them.
- Metadata builders, configuration classes, bindings, and the examples of one thread
  (`GettingStarted.c`, `MemHash.c`, `OfflineProcessing.c`): they copy, or make one call after another.
- common-cxx: not in the tree. The resource manager's operations are atomic steps, collections
  are maps that may fail, evidence is a sequence of pairs, and the string builder, base64 and the
  iteration of evidence are what their callers rely on.
- What a stage of initialisation reads from the file, temporary files, and the sum of memory that is
  measured while the allocation functions are swapped.
- The iteration over the profiles that have a value (hash.c:3841) and the indexes of values: an
  index or a search makes no difference to the code above them.
- Builds without exceptions, in-memory-only builds, and builds with assertions.

## 7. What could follow

1. Compose `ResultsEvidence` with `DataSetLifecycle`: results that are used again after a refresh
   answer from the data set they were created for.
2. The calls that device.sua takes, with a walk whose count leaves out the separators that do not fit.
