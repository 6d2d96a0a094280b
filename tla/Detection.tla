------------------------------ MODULE Detection ------------------------------
(* One detection of hash.c: the User-Agent of a result is looked up in the   *)
(* performance graph and then in the predictive graph of a component, first  *)
(* exactly and then with the tolerances of the configuration.                *)
(*                                                                           *)
(* A node asks whether a substring of the User-Agent of its length, starting *)
(* between firstIndex and lastIndex, has one of the hash codes it stores.    *)
(* The hash of the next substring is rolled on from the one before it.  The  *)
(* search of a node for one hash is a map here, as GraphLookup shows it to   *)
(* be.  Indexes start at zero, as in C; hashes are Modulus wide.             *)
EXTENDS Integers, Sequences, FiniteSets, Descent

CONSTANTS
    Prime,          \* RK_PRIME
    Modulus,        \* 2^32 for a uint32_t
    UserAgents,     \* sequences of characters
    Configs,        \* the parts of ConfigHash a detection looks at
    Graphs          \* nodes by their offset, and the two roots

(* The indexes of a node other than a root are relative to those of the node *)
(* before it.                                                                *)
IsGraphNode(n) ==
    /\ n.unmatchedNodeOffset \in Int
    /\ n.firstIndex \in Int /\ n.lastIndex \in Int
    /\ n.length \in 1 .. 128
    /\ n.isBinary \in BOOLEAN
    /\ n.isBinary <=> Cardinality(DOMAIN n.hashes) = 1
    /\ DOMAIN n.hashes \subseteq 0 .. (Modulus - 1)
    /\ n.hashes \in [DOMAIN n.hashes -> Int]

OffsetsOf(n) == {n.unmatchedNodeOffset} \cup {n.hashes[c] : c \in DOMAIN n.hashes}

(* A graph is acyclic (graph.h): its nodes can be numbered such that walks   *)
(* go up only.                                                               *)
Numberings(g) ==
    {rank \in [DOMAIN g.nodes -> 1 .. Cardinality(DOMAIN g.nodes)] :
        \A o \in DOMAIN g.nodes : \A p \in OffsetsOf(g.nodes[o]) \cap DOMAIN g.nodes :
            rank[o] < rank[p]}

(* A node as a walk comes to it, with the range of indexes that it has then, *)
(* and what may come next.                                                   *)
Entry(g, root) ==
    [node |-> root, first |-> g.nodes[root].firstIndex, last |-> g.nodes[root].lastIndex]

Links(g, l) ==
    {[node |-> o,
      first |-> l.first + g.nodes[o].firstIndex,
      last |-> l.last + g.nodes[o].lastIndex] :
        o \in {p \in OffsetsOf(g.nodes[l.node]) : p > 0}}

(* All that walks come to; no walk is longer than there are nodes.           *)
Reached(g) ==
    LET within[k \in 0 .. Cardinality(DOMAIN g.nodes)] ==
            IF k = 0 THEN {Entry(g, g.performance), Entry(g, g.predictive)}
            ELSE within[k - 1] \cup UNION {Links(g, l) : l \in within[k - 1]}
    IN  within[Cardinality(DOMAIN g.nodes)]

IsConfig(c) ==
    /\ c.difference \in Nat /\ c.drift \in Nat
    /\ c.usePerformanceGraph \in BOOLEAN /\ c.usePredictiveGraph \in BOOLEAN
    /\ c.allowUnmatched \in BOOLEAN
    /\ c.inFile \in BOOLEAN

ASSUME HashAssumption == Prime \in Nat /\ Modulus \in Nat \ {0}
ASSUME UserAgentsAssumption == UserAgents \subseteq Seq(Nat)
ASSUME ConfigsAssumption == \A c \in Configs : IsConfig(c)
ASSUME GraphsAssumption ==
    \A g \in Graphs :
        /\ {g.performance, g.predictive} \subseteq DOMAIN g.nodes
        /\ DOMAIN g.nodes \subseteq Nat \ {0} /\ IsFiniteSet(DOMAIN g.nodes)
        /\ Numberings(g) # {}
        /\ \A o \in DOMAIN g.nodes : IsGraphNode(g.nodes[o])

(* Walks only come to nodes of the graph, and to ranges that do not begin    *)
(* before the User-Agent and are not empty, however much is added on the way.*)
ASSUME RangesAssumption ==
    \A g \in Graphs :
        /\ {Entry(g, g.performance), Entry(g, g.predictive)} \subseteq Reached(g)
        /\ \A l \in Reached(g) :
            /\ l.node \in DOMAIN g.nodes
            /\ {l.first, l.last} \subseteq Nat /\ l.first <= l.last
            /\ Links(g, l) \subseteq Reached(g)

VARIABLES
    call,               \* the User-Agent, the configuration and the graphs
    pc,                 \* where the detection is
    stage,              \* which of the two graphs is searched
    pass,               \* what the walk of the graph tolerates
    depth,              \* how many nodes the exact walk evaluated
    previously,         \* previouslyMatchedNodes
    found,              \* whether the node that was evaluated matched
    offset,             \* the offset to follow
    distance,           \* the local difference of evaluateBinaryNode
    initial,            \* initialFirstIndex and initialLastIndex
    matchedUserAgent,   \* positions copied to the matched User-Agent
    items,              \* node items got from the collection and not released
    exception,          \* an exception is set
    state,              \* the detectionState
    result              \* what the caller sees of the result

local == <<stage, pass, depth, previously>>
vars == <<call, pc, local, found, offset, distance, initial,
          matchedUserAgent, items, exception, state, result>>

UserAgent == call.userAgent
Config == call.config
Node(o) == call.graph.nodes[o]
TheNode == Node(state.node)
Size == Len(UserAgent)
Char(i) == UserAgent[i + 1]

IntMax == 2147483647

(* NULL_PROFILE_OFFSET, and defaultProfileOffset of the component.           *)
NullProfile == -1
DefaultProfile == -2

Lesser(a, b) == IF a < b THEN a ELSE b
Greater(a, b) == IF a > b THEN a ELSE b

Init ==
    /\ call \in [userAgent : UserAgents, config : Configs, graph : Graphs]
    /\ pc = "graph"
    /\ stage = "performance"
    /\ pass = "exact"
    /\ depth = 0
    /\ previously = 0
    /\ found = FALSE
    /\ offset = 0
    /\ distance = 0
    /\ initial = [first |-> 0, last |-> 0]
    /\ matchedUserAgent = {}
    /\ items = 0
    /\ exception = FALSE
    /\ state = [node |-> 0, allowedDifference |-> 0, allowedDrift |-> 0,
                currentDepth |-> 0, breakDepth |-> IntMax,
                difference |-> 0, drift |-> 0, matchedNodes |-> 0, iterations |-> 0,
                firstIndex |-> 0, lastIndex |-> 0, currentIndex |-> 0,
                hash |-> 0, power |-> 0, profileOffset |-> 0]
    /\ result = [method |-> "none", profile |-> NullProfile,
                 difference |-> 0, drift |-> 0, matchedNodes |-> 0, iterations |-> 0]

-----------------------------------------------------------------------------
(* Hashing.  POWERS has the powers of Prime, but none for a length of zero.  *)
Power(n) ==
    LET p[k \in 0 .. n] == IF k = 0 THEN 1 ELSE (p[k - 1] * Prime) % Modulus
    IN  IF n = 0 THEN 0 ELSE p[n]

(* h[i] = (c[i]*p^(L-1)) + (c[i+1]*p^(L-2)) ... + (c[i+L-1]*p^(0))           *)
SubstringHash(i, n) ==
    LET h[k \in 0 .. n] ==
            IF k = 0 THEN 0 ELSE (h[k - 1] * Prime + Char(i + k - 1)) % Modulus
    IN  h[n]

(* A uint32_t read as an int, and the abs of a difference of two of them:    *)
(* the abs of the least int is itself.                                       *)
Signed(x) == IF 2 * (x % Modulus) < Modulus THEN x % Modulus ELSE (x % Modulus) - Modulus
Distance(h, code) == LET d == Signed(h - code) IN IF d < 0 THEN -d ELSE d

-----------------------------------------------------------------------------
(* evaluateListNode and evaluateBinaryNode.                                  *)

(* The hash code of the one record of a binary node.                         *)
Code == CHOOSE c \in DOMAIN TheNode.hashes : TRUE

IsTolerant == state.currentDepth >= state.breakDepth
WithDifference == IsTolerant /\ state.allowedDifference > 0
WithDrift == IsTolerant /\ state.allowedDrift > 0

(* applyDrift, which the search with both tolerances leaves out.             *)
SearchedFirst ==
    IF WithDrift /\ ~ WithDifference
    THEN Greater(state.firstIndex - state.allowedDrift, 0)
    ELSE state.firstIndex

SearchedLast ==
    IF WithDrift /\ ~ WithDifference
    THEN Lesser(state.lastIndex + state.allowedDrift, Size - 1)
    ELSE state.lastIndex

(* setInitialHash of the range that is searched.                             *)
SetInitialHash ==
    /\ pc = "evaluate"
    /\ SearchedFirst + TheNode.length <= Size
    /\ LET h == SubstringHash(SearchedFirst, TheNode.length)
       IN  /\ state' = [state EXCEPT !.firstIndex = SearchedFirst,
                                     !.lastIndex = SearchedLast,
                                     !.currentIndex = SearchedFirst,
                                     !.hash = h,
                                     !.power = Power(TheNode.length)]
           /\ distance' = IF TheNode.isBinary THEN Distance(h, Code) ELSE 0
    /\ initial' = [first |-> state.firstIndex, last |-> state.lastIndex]
    /\ pc' = "scan"
    /\ UNCHANGED <<call, local, found, offset, matchedUserAgent, items, exception, result>>

(* Mutant: the drift is measured from the extended range.                    *)
MatchedInRange(code, d) ==
    /\ found' = TRUE
    /\ offset' = TheNode.hashes[code]
    /\ state' = [state EXCEPT
                    !.difference = Signed(@ + d),
                    !.drift = IF ~ WithDrift THEN @
                              ELSE Greater(@, state.currentIndex - state.lastIndex)]
    /\ pc' = "follow"

Matched(code, d) ==
    /\ found' = TRUE
    /\ offset' = TheNode.hashes[code]
    /\ state' = [state EXCEPT
                    !.difference = Signed(@ + d),
                    !.drift = IF ~ WithDrift THEN @
                              ELSE IF state.currentIndex < initial.first
                              THEN Greater(@, initial.first - state.currentIndex)
                              ELSE Greater(@, state.currentIndex - initial.last)]
    /\ pc' = "follow"

Unmatched ==
    /\ found' = FALSE
    /\ offset' = TheNode.unmatchedNodeOffset
    /\ pc' = "follow"

(* The User-Agent is too short for the node.  A binary node then compares    *)
(* its hash code with a hash of zero, when it tolerates nothing.             *)
SetNoHash ==
    /\ pc = "evaluate"
    /\ SearchedFirst + TheNode.length > Size
    /\ initial' = [first |-> state.firstIndex, last |-> state.lastIndex]
    /\ IF TheNode.isBinary /\ ~ WithDifference /\ ~ WithDrift /\ Code = 0
       THEN found' = TRUE /\ offset' = TheNode.hashes[Code]
       ELSE found' = FALSE /\ offset' = TheNode.unmatchedNodeOffset
    /\ state' = [state EXCEPT !.hash = 0]
    /\ pc' = "follow"
    /\ UNCHANGED <<call, local, distance, matchedUserAgent, items, exception, result>>

(* getMatchingHashFromListNodeWithinDifference: at each distance the higher  *)
(* hash code is looked for before the lower one.                             *)
Above(d) == (state.hash + d) % Modulus
Below(d) == (state.hash - d) % Modulus
Near ==
    {d \in 0 .. (IF WithDifference THEN state.allowedDifference ELSE 0) :
        {Above(d), Below(d)} \cap DOMAIN TheNode.hashes # {}}

ListNodeMatches ==
    /\ pc = "scan"
    /\ ~ TheNode.isBinary
    /\ \E d \in Near :
        /\ \A e \in Near : d <= e
        /\ Matched(IF Above(d) \in DOMAIN TheNode.hashes THEN Above(d) ELSE Below(d), d)
    /\ UNCHANGED <<call, local, distance, initial, matchedUserAgent, items, exception, result>>

BinaryNodeMatches ==
    /\ pc = "scan"
    /\ TheNode.isBinary
    /\ ~ WithDifference
    /\ state.hash = Code
    /\ Matched(Code, 0)
    /\ UNCHANGED <<call, local, distance, initial, matchedUserAgent, items, exception, result>>

(* With a difference a binary node looks at the whole range, and only then   *)
(* at the least distance.                                                    *)
ScansOn ==
    IF TheNode.isBinary THEN WithDifference \/ state.hash # Code ELSE Near = {}

CanAdvance ==
    /\ state.currentIndex < state.lastIndex
    /\ state.currentIndex + TheNode.length < Size

(* Mutant: the character that drops off is looked up one too late.           *)
RolledHashLate ==
    (state.hash * Prime + Char(state.currentIndex + TheNode.length)
        - state.power * Char(state.currentIndex + 1)) % Modulus

(* h[n] = p*h[n-1] - c[n-1]*p^(L) + c[i+L]                                   *)
RolledHash ==
    (state.hash * Prime + Char(state.currentIndex + TheNode.length)
        - state.power * Char(state.currentIndex)) % Modulus

AdvanceHash ==
    /\ pc = "scan"
    /\ ScansOn
    /\ CanAdvance
    /\ state' = [state EXCEPT !.hash = RolledHash, !.currentIndex = @ + 1]
    /\ distance' = IF TheNode.isBinary THEN Lesser(distance, Distance(RolledHash, Code))
                   ELSE 0
    /\ UNCHANGED <<call, pc, local, found, offset, initial, matchedUserAgent,
                   items, exception, result>>

BinaryNodeNearest ==
    /\ pc = "scan"
    /\ TheNode.isBinary /\ WithDifference
    /\ ~ CanAdvance
    /\ Signed(distance) <= state.allowedDifference
    /\ Matched(Code, distance)
    /\ UNCHANGED <<call, local, distance, initial, matchedUserAgent, items, exception, result>>

ScanEnds ==
    /\ pc = "scan"
    /\ ScansOn
    /\ ~ CanAdvance
    /\ TheNode.isBinary /\ WithDifference => Signed(distance) > state.allowedDifference
    /\ Unmatched
    /\ UNCHANGED <<call, local, distance, initial, matchedUserAgent, items, exception,
                   state, result>>

(* updateMatchedUserAgent: a matchedUserAgent as long as the User-Agent.     *)
Copied == IF found THEN state.currentIndex .. (state.currentIndex + TheNode.length - 1)
          ELSE {}

(* Mutant: the range that drift extended is kept for the next node.          *)
EvaluatedInRange ==
    [state EXCEPT !.matchedNodes = IF found THEN @ + 1 ELSE @,
                  !.iterations = @ + 1,
                  !.currentDepth = @ + 1]

(* What both end with: the range is reset to that of the node and its match  *)
(* or its absence is counted.                                                *)
Evaluated ==
    [state EXCEPT !.firstIndex = initial.first,
                  !.lastIndex = initial.last,
                  !.matchedNodes = IF found THEN @ + 1 ELSE @,
                  !.iterations = @ + 1,
                  !.currentDepth = @ + 1]

(* setNextNode: the item of the node is released, and the offset is that of  *)
(* a profile, or of a node that is got from the collection.                  *)
FollowToProfile ==
    /\ pc = "follow"
    /\ offset <= 0
    /\ state' = [Evaluated EXCEPT !.node = 0, !.profileOffset = -offset]
    /\ items' = items - 1
    /\ pc' = "walked"
    /\ matchedUserAgent' = matchedUserAgent \cup Copied
    /\ UNCHANGED <<call, local, found, offset, distance, initial, exception, result>>

FollowToNode ==
    /\ pc = "follow"
    /\ offset > 0
    /\ state' = [Evaluated EXCEPT
                    !.node = offset,
                    !.firstIndex = IF exception THEN @ ELSE @ + Node(offset).firstIndex,
                    !.lastIndex = IF exception THEN @ ELSE @ + Node(offset).lastIndex]
    /\ pc' = IF exception THEN "walked" ELSE "evaluate"
    /\ matchedUserAgent' = matchedUserAgent \cup Copied
    /\ UNCHANGED <<call, local, found, offset, distance, initial, items, exception, result>>

(* The collection sets an exception when it cannot read a node.              *)
FollowToNothing ==
    /\ pc = "follow"
    /\ offset > 0
    /\ Config.inFile
    /\ state' = [Evaluated EXCEPT !.node = 0]
    /\ items' = items - 1
    /\ exception' = TRUE
    /\ pc' = "walked"
    /\ matchedUserAgent' = matchedUserAgent \cup Copied
    /\ UNCHANGED <<call, local, found, offset, distance, initial, result>>

-----------------------------------------------------------------------------
(* processFromRoot                                                           *)
Root == IF stage = "performance" THEN call.graph.performance ELSE call.graph.predictive

WalkFromRoot ==
    /\ pc = "root"
    /\ previously' = state.matchedNodes
    /\ state' = [state EXCEPT !.node = Root,
                              !.currentDepth = 0,
                              !.firstIndex = Node(Root).firstIndex,
                              !.lastIndex = Node(Root).lastIndex]
    /\ items' = items + 1
    /\ pc' = "evaluate"
    /\ UNCHANGED <<call, stage, pass, depth, found, offset, distance, initial,
                   matchedUserAgent, exception, result>>

WalkFails ==
    /\ pc = "root"
    /\ Config.inFile
    /\ previously' = state.matchedNodes
    /\ state' = [state EXCEPT !.node = 0, !.currentDepth = 0]
    /\ exception' = TRUE
    /\ pc' = "walked"
    /\ UNCHANGED <<call, stage, pass, depth, found, offset, distance, initial,
                   matchedUserAgent, items, result>>

WalkMatched == ~ exception /\ state.matchedNodes > previously

-----------------------------------------------------------------------------
(* processRoot: the exact walk, and then walks that tolerate a difference, a *)
(* drift, or both, from breakDepth on, which comes nearer to the root with   *)
(* each walk.                                                                *)
Passes == <<"exact", "difference", "drift", "both">>

IsConfigured(p) ==
    /\ p \in {"difference", "both"} => Config.difference > 0
    /\ p \in {"drift", "both"} => Config.drift > 0

(* How many nodes the exact walk evaluated.                                  *)
Deep == IF pass = "exact" THEN state.currentDepth ELSE depth

(* The passes that are still to come.                                        *)
Later ==
    {i \in DOMAIN Passes : /\ \E j \in 1 .. (i - 1) : Passes[j] = pass
                           /\ IsConfigured(Passes[i])
                           /\ Deep > 0}

(* Mutant: breakDepth is not counted down.                                   *)
TryShallowerSame ==
    /\ pc = "walked"
    /\ ~ WalkMatched
    /\ pass # "exact"
    /\ state.breakDepth > 1
    /\ pc' = "root"
    /\ UNCHANGED <<call, local, found, offset, distance, initial, matchedUserAgent,
                   items, exception, state, result>>

TryShallower ==
    /\ pc = "walked"
    /\ ~ WalkMatched
    /\ pass # "exact"
    /\ state.breakDepth > 1
    /\ state' = [state EXCEPT !.breakDepth = @ - 1]
    /\ pc' = "root"
    /\ UNCHANGED <<call, local, found, offset, distance, initial, matchedUserAgent,
                   items, exception, result>>

IsPassOver == ~ WalkMatched /\ (pass # "exact" => state.breakDepth <= 1)

(* Mutant: the difference that was allowed is still allowed with a drift.    *)
TryNextPassToo ==
    /\ pc = "walked"
    /\ IsPassOver
    /\ \E i \in Later :
        /\ \A j \in Later : i <= j
        /\ pass' = Passes[i]
        /\ state' = [state EXCEPT
                !.allowedDifference = Config.difference,
                !.allowedDrift = IF Passes[i] = "difference" THEN 0 ELSE Config.drift,
                !.breakDepth = Deep]
    /\ depth' = Deep
    /\ pc' = "root"
    /\ UNCHANGED <<call, stage, previously, found, offset, distance, initial,
                   matchedUserAgent, items, exception, result>>

TryNextPass ==
    /\ pc = "walked"
    /\ IsPassOver
    /\ \E i \in Later :
        /\ \A j \in Later : i <= j
        /\ pass' = Passes[i]
        /\ state' = [state EXCEPT
                !.allowedDifference = IF Passes[i] = "drift" THEN 0 ELSE Config.difference,
                !.allowedDrift = IF Passes[i] = "difference" THEN 0 ELSE Config.drift,
                !.breakDepth = Deep]
    /\ depth' = Deep
    /\ pc' = "root"
    /\ UNCHANGED <<call, stage, previously, found, offset, distance, initial,
                   matchedUserAgent, items, exception, result>>

(* Mutant: the allowances outlast the passes.                                *)
PassesOverTolerant ==
    [state EXCEPT !.breakDepth = IF pass = "exact" THEN @ ELSE @ - 1]

(* The allowances go back to zero; after a tolerant walk breakDepth has been *)
(* counted down once more.                                                   *)
PassesOver ==
    [state EXCEPT !.allowedDifference = 0,
                  !.allowedDrift = 0,
                  !.breakDepth = IF pass = "exact" THEN @ ELSE @ - 1]

-----------------------------------------------------------------------------
(* processRoots                                                              *)
SearchGraph ==
    /\ pc = "graph"
    /\ IF stage = "performance" THEN Config.usePerformanceGraph
                                ELSE Config.usePredictiveGraph
    /\ pass' = "exact"
    /\ pc' = "root"
    /\ UNCHANGED <<call, stage, depth, previously, found, offset, distance, initial,
                   matchedUserAgent, items, exception, state, result>>

(* completeResult *)
GraphMatches ==
    /\ pc = "walked"
    /\ WalkMatched
    /\ state' = PassesOver
    /\ result' = [method |-> stage, profile |-> state.profileOffset,
                  difference |-> state.difference, drift |-> state.drift,
                  matchedNodes |-> state.matchedNodes, iterations |-> state.iterations]
    /\ pc' = "done"
    /\ UNCHANGED <<call, local, found, offset, distance, initial, matchedUserAgent,
                   items, exception>>

(* The graph is not to be searched, or has no match.                         *)
HasNoMatch ==
    \/ /\ pc = "graph"
       /\ ~ IF stage = "performance" THEN Config.usePerformanceGraph
                                     ELSE Config.usePredictiveGraph
       /\ UNCHANGED state
    \/ /\ pc = "walked"
       /\ IsPassOver
       /\ Later = {}
       /\ state' = PassesOver

TryPredictiveGraph ==
    /\ stage = "performance"
    /\ HasNoMatch
    /\ stage' = "predictive"
    /\ pc' = "graph"
    /\ UNCHANGED <<call, pass, depth, previously, found, offset, distance, initial,
                   matchedUserAgent, items, exception, result>>

NothingMatches ==
    /\ stage = "predictive"
    /\ HasNoMatch
    /\ result' = [result EXCEPT !.profile = IF Config.allowUnmatched THEN DefaultProfile ELSE @]
    /\ pc' = "done"
    /\ UNCHANGED <<call, local, found, offset, distance, initial, matchedUserAgent,
                   items, exception>>

-----------------------------------------------------------------------------
Next ==
    \/ SearchGraph \/ WalkFromRoot \/ WalkFails
    \/ SetInitialHash \/ SetNoHash
    \/ ListNodeMatches \/ BinaryNodeMatches \/ BinaryNodeNearest
    \/ AdvanceHash \/ ScanEnds
    \/ FollowToProfile \/ FollowToNode \/ FollowToNothing
    \/ TryShallower \/ TryNextPass
    \/ GraphMatches \/ TryPredictiveGraph \/ NothingMatches

Spec == Init /\ [][Next]_vars

(* A detection runs to its end on the thread that asked for it.              *)
FairSpec == Spec /\ WF_vars(Next)

-----------------------------------------------------------------------------
(* The variables have their types.                                           *)
TypeOK ==
    /\ pc \in {"graph", "root", "evaluate", "scan", "follow", "walked", "done"}
    /\ stage \in {"performance", "predictive"}
    /\ pass \in {"exact", "difference", "drift", "both"}
    /\ {depth, previously, distance, items} \subseteq Nat
    /\ {found, exception} \subseteq BOOLEAN
    /\ offset \in Int
    /\ matchedUserAgent \subseteq 0 .. (Size - 1)
    /\ pc \in {"evaluate", "scan", "follow"} => state.node \in DOMAIN call.graph.nodes
    /\ state.hash \in 0 .. (Modulus - 1)
    /\ \A m \in {"currentDepth", "breakDepth", "drift", "matchedNodes", "iterations",
                  "allowedDifference", "allowedDrift"} : state[m] \in Nat

(* The hash that is rolled on from one substring to the next is the hash of  *)
(* the substring at currentIndex, which lies within the User-Agent.          *)
HashIsOfSubstring ==
    /\ TypeOK
    /\ pc = "scan" =>
        /\ state.currentIndex \in 0 .. (Size - TheNode.length)
        /\ state.hash = SubstringHash(state.currentIndex, TheNode.length)

(* What a graph holds for a User-Agent, told without hash rolling, passes or *)
(* depths: the nodes that are reached when no node matches, ...              *)
Chain(root) ==
    LET next(l) ==
            LET o == Node(l.node).unmatchedNodeOffset
            IN  [node |-> o,
                 first |-> l.first + (IF o > 0 THEN Node(o).firstIndex ELSE 0),
                 last |-> l.last + (IF o > 0 THEN Node(o).lastIndex ELSE 0)]
        link[k \in 0 .. Cardinality(DOMAIN call.graph.nodes)] ==
            IF k = 0
            THEN Entry(call.graph, root)
            ELSE IF link[k - 1].node <= 0 THEN link[k - 1] ELSE next(link[k - 1])
    IN  link

(* ... and whether one of them accepts a substring of the User-Agent that    *)
(* starts at most drift away from its range and whose hash is at most        *)
(* difference away from one of its hash codes.                               *)
Accepts(l, drift, difference) ==
    /\ l.node > 0
    /\ \E i \in Greater(l.first - drift, 0) .. (l.last + drift) :
        /\ i + Node(l.node).length <= Size
        /\ \E c \in DOMAIN Node(l.node).hashes :
            Distance(SubstringHash(i, Node(l.node).length), c) <= difference

MatchesExactly(root) ==
    \E k \in DOMAIN Chain(root) : Accepts(Chain(root)[k], 0, 0)

(* The root itself is never given a tolerance.                               *)
MatchesWithin(root, drift, difference) ==
    \E k \in DOMAIN Chain(root) \ {0} : Accepts(Chain(root)[k], drift, difference)

Matches(root) ==
    \/ MatchesExactly(root)
    \/ MatchesWithin(root, 0, Config.difference)
    \/ MatchesWithin(root, Config.drift, 0)

HasEnded == pc = "done" /\ ~ exception

(* Two edges of the numbers at which a binary node matches what is not there:*)
(* its code is zero, which is also the hash of a User-Agent too short for it,*)
(* or half the range of a hash away from that of a substring, the distance   *)
(* of which abs is negative.  Neither is in the instances that are checked.  *)
NoZeroCodes ==
    \A g \in Graphs : \A o \in DOMAIN g.nodes :
        g.nodes[o].isBinary => 0 \notin DOMAIN g.nodes[o].hashes

NoOpposites ==
    \A o \in DOMAIN call.graph.nodes : \A i \in 0 .. Size :
        Node(o).isBinary /\ i + Node(o).length <= Size =>
            \A c \in DOMAIN Node(o).hashes :
                2 * Distance(SubstringHash(i, Node(o).length), c) # Modulus

(* A detection finds a match exactly where there is one: in the performance  *)
(* graph when a node there accepts a substring, exactly or within one of the *)
(* tolerances, otherwise in the predictive graph, otherwise nowhere.  No     *)
(* substring is skipped by the rolling of hashes, no depth by the passes,    *)
(* and no range stays extended from a node to the next.                      *)
MatchIsFound ==
    HasEnded =>
        result.method =
            IF Config.usePerformanceGraph /\ Matches(call.graph.performance)
            THEN "performance"
            ELSE IF Config.usePredictiveGraph /\ Matches(call.graph.predictive)
            THEN "predictive" ELSE "none"

(* Tolerances are a last resort: what an exact search of the graph answers   *)
(* is not traded for a match with a difference or a drift.                   *)
ExactMatchIsPreferred ==
    HasEnded /\ result.method # "none" /\ MatchesExactly(Root)
        => result.difference = 0 /\ result.drift = 0

(* Every match is within the tolerances of the configuration, and the drift  *)
(* that is reported covers the distance at which the substring was found     *)
(* from where the node expects it.                                           *)
DriftIsReported ==
    /\ state.drift <= Config.drift
    /\ pc = "follow" /\ found =>
        state.currentIndex \in (initial.first - state.drift) .. (initial.last + state.drift)

(* A walk starts from nothing: whatever passes went before, a walk that did  *)
(* not match leaves neither matches nor a difference or drift to its         *)
(* successor, and tolerates what its own pass tolerates and no more.         *)
WalkStartsClean ==
    pc = "root" /\ ~ exception =>
        /\ state.matchedNodes = 0 /\ state.difference = 0 /\ state.drift = 0
        /\ matchedUserAgent = {}
        /\ (state.allowedDifference > 0) = (pass \in {"difference", "both"})
        /\ (state.allowedDrift > 0) = (pass \in {"drift", "both"})

(* One node at most is held at a time, and none when the detection ends.     *)
NodesAreReleased ==
    ~ exception => items = (IF pc \in {"evaluate", "scan", "follow"} THEN 1 ELSE 0)

(* Nothing of one walk is left for the next: no allowance, no difference or  *)
(* drift, no node that is still held.                                        *)
WalksAreApart == WalkStartsClean /\ NodesAreReleased

-----------------------------------------------------------------------------
(* The end of a detection.                                                   *)

Nodes == Cardinality(DOMAIN call.graph.nodes)

(* A numbering for each graph.                                               *)
Rank == [g \in Graphs |-> CHOOSE rank \in Numberings(g) : TRUE]

(* What is left: graphs, passes, walks of a pass, nodes of a walk, and steps *)
(* at a node.                                                                *)
ToGo ==
    <<IF pc = "done" THEN 0 ELSE IF stage = "performance" THEN 2 ELSE 1,
      CASE pc = "graph" -> 5
        [] pc # "graph" /\ pass = "exact" -> 4
        [] pc # "graph" /\ pass = "difference" -> 3
        [] pc # "graph" /\ pass = "drift" -> 2
        [] OTHER -> 1,
      IF pass = "exact" THEN 0 ELSE state.breakDepth,
      CASE pc = "root" -> Nodes + 1
        [] pc \in {"evaluate", "scan", "follow"} ->
             Nodes + 1 - Rank[call.graph][state.node]
        [] OTHER -> 0,
      CASE pc = "evaluate" -> Size + 3
        [] pc = "scan" -> Size + 2 - state.currentIndex
        [] pc = "follow" -> 1
        [] OTHER -> 0>>

(* Each step of a detection comes closer to its end: it goes on in a         *)
(* substring, to another node of a walk, which is never one that the walk    *)
(* has been to, to a walk that tolerates from nearer to the root on, to the  *)
(* next pass or to the next graph.                                           *)
ComesCloser == [][Lower(ToGo', ToGo)]_vars

(* A detection ends, however many passes it makes.                           *)
DetectionEnds == ComesCloser /\ <>(pc = "done")
=============================================================================
