--------------------------- MODULE DetectionProofs ---------------------------
(* Whatever the User-Agent, the configuration and the graphs: hashes that    *)
(* are rolled on are the hashes of their substrings, walks do not colour     *)
(* each other, drift is within its bounds and is reported, and what a graph  *)
(* answers exactly is preferred.                                             *)
EXTENDS Detection, FiniteSetTheorems, SequenceTheorems, WellFoundedInduction, TLAPS

-----------------------------------------------------------------------------
(* The strengthening.                                                        *)

StateSet ==
    [node : Int, allowedDifference : Nat, allowedDrift : Nat,
     currentDepth : Nat, breakDepth : Nat,
     difference : Int, drift : Nat, matchedNodes : Nat, iterations : Nat,
     firstIndex : Int, lastIndex : Int, currentIndex : Int,
     hash : 0 .. (Modulus - 1), power : Int, profileOffset : Int]

ResultSet ==
    [method : {"none", "performance", "predictive"}, profile : Int, difference : Int,
     drift : Nat, matchedNodes : Nat, iterations : Nat]

Types ==
    /\ call \in [userAgent : UserAgents, config : Configs, graph : Graphs]
    /\ pc \in {"graph", "root", "evaluate", "scan", "follow", "walked", "done"}
    /\ stage \in {"performance", "predictive"}
    /\ pass \in {"exact", "difference", "drift", "both"}
    /\ depth \in Nat /\ previously \in Nat /\ distance \in Nat /\ items \in Nat
    /\ found \in BOOLEAN /\ exception \in BOOLEAN
    /\ offset \in Int
    /\ initial \in [first : Int, last : Int]
    /\ state \in StateSet
    /\ result \in ResultSet

Walking == pc \in {"evaluate", "scan", "follow"}
Trying == Walking \/ pc \in {"root", "walked"}

(* Where a walk is: a node, and its range before drift extended it.          *)
Here ==
    [node |-> state.node,
     first |-> IF pc = "evaluate" THEN state.firstIndex ELSE initial.first,
     last |-> IF pc = "evaluate" THEN state.lastIndex ELSE initial.last]

Place ==
    /\ Walking => Here \in Reached(call.graph)
    /\ pc = "follow" => offset \in OffsetsOf(TheNode)

(* What a pass tolerates.                                                    *)
Allowances ==
    /\ pc = "graph" => state.allowedDifference = 0 /\ state.allowedDrift = 0
    /\ Trying =>
        /\ state.allowedDifference = IF pass \in {"difference", "both"} THEN Config.difference ELSE 0
        /\ state.allowedDrift = IF pass \in {"drift", "both"} THEN Config.drift ELSE 0
        /\ IsConfigured(pass)
        /\ pass # "exact" => state.breakDepth >= 1

(* The scan is at a substring of the searched range, with its hash.          *)
Extends == WithDrift /\ ~ WithDifference
From == IF Extends THEN Greater(initial.first - state.allowedDrift, 0) ELSE initial.first
To == IF Extends THEN Lesser(initial.last + state.allowedDrift, Size - 1) ELSE initial.last

Scanned ==
    pc = "scan" =>
        /\ state.lastIndex = To
        /\ state.currentIndex >= From
        /\ state.currentIndex = From \/ state.currentIndex <= To
        /\ state.currentIndex + TheNode.length <= Size
        /\ state.hash = SubstringHash(state.currentIndex, TheNode.length)
        /\ state.power = Power(TheNode.length)

(* A match is of a substring within the drift.                               *)
Located ==
    NoZeroCodes =>
        /\ matchedUserAgent \subseteq 0 .. (Size - 1)
        /\ pc = "follow" /\ found =>
            /\ state.currentIndex \in 0 .. (Size - TheNode.length)
            /\ state.currentIndex \in (initial.first - state.drift) .. (initial.last + state.drift)

Bounded == state.drift <= Config.drift

IsClean ==
    /\ state.matchedNodes = 0 /\ state.difference = 0 /\ state.drift = 0
    /\ matchedUserAgent = {}

(* A walk without a match leaves nothing.                                    *)
Clean ==
    ~ exception =>
        /\ pc \in {"graph", "root"} => IsClean
        /\ Walking \/ pc = "walked" =>
            /\ previously = 0
            /\ state.matchedNodes = 0 /\ ~ (pc = "follow" /\ found) => IsClean

ItemsHeld ==
    /\ Walking => items >= 1
    /\ ~ exception => items = IF Walking THEN 1 ELSE 0

(* What a walk tolerates at the node that it comes to after k others.        *)
DifferenceAt(k) == IF k >= state.breakDepth THEN state.allowedDifference ELSE 0
DriftAt(k) ==
    IF k >= state.breakDepth /\ state.allowedDifference = 0 THEN state.allowedDrift ELSE 0

(* The scan has passed by the substrings before it, but for a binary node    *)
(* with a difference, of which it keeps the least distance.                  *)
Nearest == TheNode.isBinary /\ WithDifference
Apart(i, c) == Distance(SubstringHash(i, TheNode.length), c)

Passed ==
    pc = "scan" =>
        /\ Nearest =>
            /\ \A i \in From .. state.currentIndex : distance <= Apart(i, Code)
            /\ \E i \in From .. state.currentIndex : distance = Apart(i, Code)
        /\ ~ Nearest =>
            \A i \in From .. (state.currentIndex - 1) : \A c \in DOMAIN TheNode.hashes :
                Apart(i, c) > DifferenceAt(state.currentDepth)

(* A walk comes to each node once.                                           *)
Deepens ==
    Walking =>
        \A rank \in Numberings(call.graph) : state.currentDepth < rank[state.node]

(* Until a node matches, a walk goes along the chain of its root.            *)
Tolerates(k) == Accepts(Chain(Root)[k], DriftAt(k), DifferenceAt(k))

Follows ==
    Walking /\ state.matchedNodes = 0 =>
        /\ Chain(Root)[state.currentDepth] = Here
        /\ \A k \in 0 .. (state.currentDepth - 1) : ~ Tolerates(k)
        /\ pc = "follow" /\ ~ found =>
            ~ Tolerates(state.currentDepth) /\ offset = TheNode.unmatchedNodeOffset

(* A graph that is searched is one of those that are used.                   *)
Used ==
    Trying => IF stage = "performance" THEN Config.usePerformanceGraph
              ELSE Config.usePredictiveGraph

(* What the walks before this one, and this one when it ends, have not found.*)
Missed ==
    ~ exception =>
        /\ Trying /\ pass = "exact" => state.difference = 0 /\ state.drift = 0
        /\ pc = "walked" /\ state.matchedNodes = 0 =>
            \A k \in DOMAIN Chain(Root) : ~ Tolerates(k)
        /\ pc = "walked" => Deep >= 1
        /\ Trying /\ pass # "exact" => ~ MatchesExactly(Root) /\ depth >= 1
        /\ Trying /\ pass \in {"drift", "both"} => ~ MatchesWithin(Root, 0, Config.difference)
        /\ Trying /\ pass = "both" => ~ MatchesWithin(Root, Config.drift, 0)
        /\ stage = "predictive" /\ Config.usePerformanceGraph => ~ Matches(call.graph.performance)

(* There is something to be found where a walk finds something.              *)
Earned ==
    NoZeroCodes /\ NoOpposites /\ ~ exception /\ Trying
        /\ (state.matchedNodes > 0 \/ (pc = "follow" /\ found))
    => Matches(Root)

(* The answer.                                                               *)
Answered ==
    /\ pc # "done" => result.method = "none"
    /\ HasEnded =>
        /\ result.method = "none" =>
            /\ ~ (Config.usePerformanceGraph /\ Matches(call.graph.performance))
            /\ ~ (Config.usePredictiveGraph /\ Matches(call.graph.predictive))
        /\ result.method = "performance" => Config.usePerformanceGraph
        /\ result.method = "predictive" =>
            /\ Config.usePredictiveGraph
            /\ ~ (Config.usePerformanceGraph /\ Matches(call.graph.performance))
        /\ result.method # "none" =>
            /\ result.method = stage
            /\ NoZeroCodes /\ NoOpposites => Matches(Root)
            /\ MatchesExactly(Root) => result.difference = 0 /\ result.drift = 0

IInv ==
    /\ Types /\ Place /\ Allowances /\ Scanned /\ Located /\ Bounded /\ Clean /\ ItemsHeld
    /\ Passed /\ Deepens /\ Follows /\ Used /\ Missed /\ Earned /\ Answered

-----------------------------------------------------------------------------
(* Recursive functions.  What holds of them is shown by the least number for *)
(* which it does not hold.                                                   *)

LEMMA LeastExists ==
    ASSUME NEW S \in SUBSET Nat, S # {}
    PROVE  \E n \in S : \A m \in S : n <= m
<1> DEFINE UpTo(n) == S \cap (0 .. n)
           T == {UpTo(n) : n \in S}
<1>1. T \subseteq FiniteSubsetsOf(Nat) /\ T # {}
  <2>1. ASSUME NEW n \in S PROVE UpTo(n) \in FiniteSubsetsOf(Nat)
    <3>1. IsFiniteSet(0 .. n)
      BY FS_Interval
    <3> QED BY <3>1, FS_Subset DEF FiniteSubsetsOf
  <2> QED BY <2>1
<1>2. PICK x \in T : \A y \in T : ~ (<<y, x>> \in StrictSubsetOrdering(Nat))
  <2> HIDE DEF T
  <2> QED BY <1>1, FS_StrictSubsetOrderingWellFounded, WFMin
<1>3. PICK n \in S : x = UpTo(n)
  OBVIOUS
<1>4. ASSUME NEW m \in S, m < n PROVE FALSE
  <2>1. UpTo(m) \subseteq UpTo(n) /\ n \in UpTo(n) /\ n \notin UpTo(m)
    BY <1>4
  <2>2. <<UpTo(m), x>> \in StrictSubsetOrdering(Nat)
    BY <1>3, <2>1 DEF StrictSubsetOrdering
  <2> QED BY <1>2, <2>2
<1> QED BY <1>4

IsRecursion(n, S, a, f) == n \in Nat /\ a \in S /\ f \in [1 .. n -> [S -> S]]
HasFunction(n, S, a, f) ==
    \E g \in [0 .. n -> S] : g[0] = a /\ \A k \in 1 .. n : g[k] = f[k][g[k - 1]]

\* A recursion over the first n numbers has a function.
LEMMA RecursionExists ==
    ASSUME NEW n, NEW S, NEW a, NEW f, IsRecursion(n, S, a, f)
    PROVE  HasFunction(n, S, a, f)
<1> USE DEF IsRecursion
<1> DEFINE Is(m, g) == g[0] = a /\ \A k \in 1 .. m : g[k] = f[k][g[k - 1]]
           Bad == {m \in 0 .. n : ~ \E g \in [0 .. m -> S] : Is(m, g)}
<1>1. ASSUME Bad # {} PROVE FALSE
  <2>1. PICK m \in Bad : \A l \in Bad : m <= l
    <3>1. Bad \in SUBSET Nat
      OBVIOUS
    <3> HIDE DEF Bad
    <3> QED BY <1>1, <3>1, LeastExists
  <2>2. m \in 0 .. n
    OBVIOUS
  <2>3. CASE m = 0
    <3> DEFINE g == [k \in 0 .. 0 |-> a]
    <3>1. g \in [0 .. m -> S] /\ g[0] = a /\ 1 .. m = {}
      BY <2>3
    <3>2. Is(m, g)
      BY <3>1
    <3> QED BY <3>1, <3>2
  <2>4. CASE m # 0
    <3>1. m - 1 \in 0 .. n /\ m - 1 \notin Bad
      BY <2>1, <2>2, <2>4
    <3>2. PICK g \in [0 .. (m - 1) -> S] : Is(m - 1, g)
      BY <3>1
    <3> DEFINE h == [k \in 0 .. m |-> IF k = m THEN f[m][g[m - 1]] ELSE g[k]]
    <3>3. g[m - 1] \in S /\ f[m] \in [S -> S] /\ f[m][g[m - 1]] \in S
      BY <2>2, <2>4, <3>2
    <3>4. h \in [0 .. m -> S]
      <4>1. \A k \in 0 .. m : k # m => k \in 0 .. (m - 1)
        BY <2>2
      <4> QED BY <3>2, <3>3, <4>1
    <3>5. h[0] = a
      BY <2>2, <2>4, <3>2
    <3>6. \A k \in 1 .. m : h[k] = f[k][h[k - 1]]
      <4> TAKE k \in 1 .. m
      <4>1. k \in 0 .. m /\ k - 1 \in 0 .. m /\ k - 1 # m
        BY <2>2
      <4>2. h[k - 1] = g[k - 1]
        BY <4>1
      <4>3. CASE k = m
        BY <4>1, <4>2, <4>3
      <4>4. CASE k # m
        <5>1. k \in 1 .. (m - 1) /\ h[k] = g[k]
          BY <2>2, <4>1, <4>4
        <5> QED BY <3>2, <4>2, <5>1
      <4> QED BY <4>3, <4>4
    <3>7. Is(m, h)
      BY <3>5, <3>6
    <3> QED BY <3>4, <3>7
  <2> QED BY <2>3, <2>4
<1>2. n \in 0 .. n
  OBVIOUS
<1>3. n \notin Bad
  <2> HIDE DEF Bad
  <2> QED BY <1>1
<1> QED BY <1>2, <1>3 DEF HasFunction

\* A recursion that stays in S has values in S.
LEMMA RecursionStays ==
    ASSUME NEW n \in Nat, NEW S, NEW h, DOMAIN h = 0 .. n,
           h = [k \in 0 .. n |-> h[k]], h[0] \in S,
           \A k \in 1 .. n : h[k - 1] \in S => h[k] \in S
    PROVE  h \in [0 .. n -> S]
<1> DEFINE Bad == {k \in 0 .. n : h[k] \notin S}
<1>1. ASSUME Bad # {} PROVE FALSE
  <2>1. PICK m \in Bad : \A l \in Bad : m <= l
    <3>1. Bad \in SUBSET Nat
      OBVIOUS
    <3> HIDE DEF Bad
    <3> QED BY <1>1, <3>1, LeastExists
  <2>2. m \in 1 .. n /\ m - 1 \in 0 .. n
    OBVIOUS
  <2>3. m - 1 \notin Bad
    BY <2>1, <2>2
  <2> QED BY <2>2, <2>3
<1>2. \A k \in 0 .. n : h[k] \in S
  BY <1>1
<1> QED BY <1>2

-----------------------------------------------------------------------------
(* Hashing.                                                                  *)

\* A hash is one of the table that its definition fills.
LEMMA HashTable ==
    ASSUME NEW i \in Nat, NEW n \in Nat, Types, i + n <= Size
    PROVE  \E h \in [0 .. n -> 0 .. (Modulus - 1)] :
            /\ h[0] = 0
            /\ \A k \in 1 .. n : h[k] = (h[k - 1] * Prime + Char(i + k - 1)) % Modulus
            /\ SubstringHash(i, n) = h[n]
<1> DEFINE S == 0 .. (Modulus - 1)
           f == [k \in 1 .. n |-> [x \in S |-> (x * Prime + Char(i + k - 1)) % Modulus]]
           IsTable(h) == h = [k \in 0 .. n |->
                IF k = 0 THEN 0 ELSE (h[k - 1] * Prime + Char(i + k - 1)) % Modulus]
<1>1. \A k \in 1 .. n : Char(i + k - 1) \in Nat
  <2>1. UserAgent \in Seq(Nat)
    BY UserAgentsAssumption DEF Types, UserAgent
  <2>2. \A j \in 1 .. Len(UserAgent) : UserAgent[j] \in Nat
    BY <2>1
  <2>3. \A k \in 1 .. n : i + k \in 1 .. Len(UserAgent) /\ (i + k - 1) + 1 = i + k
    BY <2>1 DEF Size
  <2> QED BY <2>2, <2>3 DEF Char
<1>2. \A x \in Int : x % Modulus \in S
  BY HashAssumption
<1>3. \A k \in 1 .. n : \A x \in S : (x * Prime + Char(i + k - 1)) % Modulus \in S
  <2>1. \A k \in 1 .. n : \A x \in S : x * Prime + Char(i + k - 1) \in Int
    BY <1>1, HashAssumption
  <2> QED BY <1>2, <2>1
<1>4. 0 \in S
  BY HashAssumption
<1>5. PICK g \in [0 .. n -> S] : g[0] = 0 /\ \A k \in 1 .. n : g[k] = f[k][g[k - 1]]
  <2>1. f \in [1 .. n -> [S -> S]]
    <3> HIDE DEF S
    <3> QED BY <1>3
  <2> HIDE DEF S, f
  <2>2. IsRecursion(n, S, 0, f)
    BY <1>4, <2>1 DEF IsRecursion
  <2>3. HasFunction(n, S, 0, f)
    BY <2>2, RecursionExists
  <2> QED BY <2>3 DEF HasFunction
<1>6. \A k \in 1 .. n : g[k] = (g[k - 1] * Prime + Char(i + k - 1)) % Modulus
  <2>1. \A k \in 1 .. n : k - 1 \in 0 .. n
    OBVIOUS
  <2> QED BY <1>5, <2>1
<1>7. IsTable(g)
  <2>1. \A k \in 0 .. n : k # 0 => k \in 1 .. n
    OBVIOUS
  <2> QED BY <1>5, <1>6, <2>1
<1>8. PICK h : IsTable(h) /\ SubstringHash(i, n) = h[n]
  BY <1>7 DEF SubstringHash
<1>9. h[0] = 0 /\ \A k \in 1 .. n : h[k] = (h[k - 1] * Prime + Char(i + k - 1)) % Modulus
  BY <1>8
<1>10. h \in [0 .. n -> S]
  <2>1. DOMAIN h = 0 .. n /\ h = [k \in 0 .. n |-> h[k]]
    BY <1>8
  <2>2. h[0] \in S /\ \A k \in 1 .. n : h[k - 1] \in S => h[k] \in S
    BY <1>3, <1>4, <1>9
  <2> HIDE DEF S, IsTable
  <2> QED BY <2>1, <2>2, RecursionStays
<1> QED BY <1>8, <1>9, <1>10

\* The power of a length is one of the table that its definition fills.
LEMMA PowerTable ==
    ASSUME NEW n \in Nat \ {0}
    PROVE  \E p \in [0 .. n -> Nat] :
            /\ p[0] = 1
            /\ \A k \in 1 .. n : p[k] = (p[k - 1] * Prime) % Modulus
            /\ Power(n) = p[n]
<1> DEFINE f == [k \in 1 .. n |-> [x \in Nat |-> (x * Prime) % Modulus]]
           IsTable(p) == p = [k \in 0 .. n |->
                IF k = 0 THEN 1 ELSE (p[k - 1] * Prime) % Modulus]
<1>1. \A x \in Nat : (x * Prime) % Modulus \in Nat
  BY HashAssumption
<1>2. PICK g \in [0 .. n -> Nat] : g[0] = 1 /\ \A k \in 1 .. n : g[k] = f[k][g[k - 1]]
  <2>1. f \in [1 .. n -> [Nat -> Nat]]
    BY <1>1
  <2> HIDE DEF f
  <2>2. IsRecursion(n, Nat, 1, f)
    BY <2>1 DEF IsRecursion
  <2>3. HasFunction(n, Nat, 1, f)
    BY <2>2, RecursionExists
  <2> QED BY <2>3 DEF HasFunction
<1>3. \A k \in 1 .. n : g[k] = (g[k - 1] * Prime) % Modulus
  <2>1. \A k \in 1 .. n : k - 1 \in 0 .. n
    OBVIOUS
  <2> QED BY <1>2, <2>1
<1>4. IsTable(g)
  <2>1. \A k \in 0 .. n : k # 0 => k \in 1 .. n
    OBVIOUS
  <2> QED BY <1>2, <1>3, <2>1
<1>5. PICK p : IsTable(p) /\ Power(n) = p[n]
  BY <1>4 DEF Power
<1>6. p[0] = 1 /\ \A k \in 1 .. n : p[k] = (p[k - 1] * Prime) % Modulus
  BY <1>5
<1>7. p \in [0 .. n -> Nat]
  <2>1. DOMAIN p = 0 .. n /\ p = [k \in 0 .. n |-> p[k]]
    BY <1>5
  <2>2. p[0] \in Nat
    BY <1>6
  <2>3. ASSUME NEW k \in 1 .. n, p[k - 1] \in Nat PROVE p[k] \in Nat
    <3>1. p[k] = (p[k - 1] * Prime) % Modulus
      BY <1>6
    <3> QED BY <1>1, <2>3, <3>1
  <2> HIDE DEF IsTable
  <2> QED BY <2>1, <2>2, <2>3, RecursionStays
<1> QED BY <1>5, <1>6, <1>7

\* A remainder differs from its number by a multiple, ...
LEMMA RemainderIs ==
    ASSUME NEW m \in Nat \ {0}, NEW a \in Int
    PROVE  (a % m) \in 0 .. (m - 1) /\ \E q \in Int : a = (a % m) + m * q
<1>1. (a % m) \in 0 .. (m - 1) /\ (a \div m) \in Int
  OBVIOUS
<1>2. a = (a % m) + m * (a \div m)
  OBVIOUS
<1> QED BY <1>1, <1>2

\* ... and is the only one to do so.
LEMMA RemainderIsOnly ==
    ASSUME NEW m \in Nat \ {0}, NEW a \in Int, NEW r \in 0 .. (m - 1), NEW q \in Int,
           r = a + m * q
    PROVE  r = a % m
<1>1. PICK t \in Int : t = 0 - q
  OBVIOUS
<1>2. a = m * t + r
  BY <1>1
<1>3. r = (m * t + r) % m
  OBVIOUS
<1> QED BY <1>2, <1>3

\* How a hash, the one it is rolled on to, the characters and the power relate.
RolledBy(g, h, d, p, c) == \E q \in Int : g = h * Prime + d - p * c + Modulus * q

\* Each further character leaves that relation as it is.
LEMMA RollingStep ==
    ASSUME NEW c \in Nat, NEW d \in Nat, NEW e \in Nat,
           NEW g \in Nat, NEW h \in Nat, NEW p \in Nat, RolledBy(g, h, d, p, c)
    PROVE  RolledBy((g * Prime + e) % Modulus, (h * Prime + d) % Modulus, e,
                    (p * Prime) % Modulus, c)
<1>0. PICK m \in Nat \ {0}, P \in Nat : m = Modulus /\ P = Prime
  BY HashAssumption
<1>q. PICK q \in Int : g = h * P + d - p * c + m * q
  BY <1>0 DEF RolledBy
<1> DEFINE G == g * P + e
           H == h * P + d
           R == p * P
<1>1. G \in Int /\ H \in Int /\ R \in Int
  OBVIOUS
<1>2. PICK s \in Int : G = (G % m) + m * s
  BY <1>1, RemainderIs
<1>3. PICK t \in Int : H = (H % m) + m * t
  BY <1>1, RemainderIs
<1>4. PICK u \in Int : R = (R % m) + m * u
  BY <1>1, RemainderIs
<1>5. PICK x \in Int, y \in Int, z \in Int : x = (G % m) /\ y = (H % m) /\ z = (R % m)
  BY <1>1
<1>6. x + m * s = (y + m * t - p * c + m * q) * P + e /\ p * P = z + m * u
  <2>1. h * P + d = y + m * t
    BY <1>3, <1>5
  <2>2. g = y + m * t - p * c + m * q
    BY <1>q, <2>1
  <2>3. x + m * s = g * P + e
    BY <1>2, <1>5
  <2>4. p * P = z + m * u
    BY <1>4, <1>5
  <2> QED BY <2>2, <2>3, <2>4
<1>7. x + m * s = y * P + m * (t * P) - (p * P) * c + m * (q * P) + e
  BY <1>6
<1>8. (p * P) * c = z * c + m * (u * c)
  BY <1>6
<1>9. x = y * P + e - z * c + m * (t * P - u * c + q * P - s)
  BY <1>7, <1>8
<1>10. PICK r \in Int : r = t * P - u * c + q * P - s
  OBVIOUS
<1>11. (G % m) = (H % m) * P + e - (R % m) * c + m * r
  BY <1>5, <1>9, <1>10
<1> QED BY <1>0, <1>10, <1>11 DEF RolledBy

LEMMA CharIsNumber ==
    ASSUME NEW i \in Nat, Types, i < Size
    PROVE  Char(i) \in Nat
<1>1. UserAgent \in Seq(Nat)
  BY UserAgentsAssumption DEF Types, UserAgent
<1>2. i + 1 \in 1 .. Len(UserAgent)
  BY <1>1 DEF Size
<1> QED BY <1>1, <1>2 DEF Char

LEMMA SizeIsNumber == ASSUME Types PROVE Size \in Nat
<1>1. UserAgent \in Seq(Nat)
  BY UserAgentsAssumption DEF Types, UserAgent
<1> QED BY <1>1 DEF Size

\* The hash of a substring, rolled on, is the hash of the next one.
LEMMA RollingHash ==
    ASSUME NEW i \in Nat, NEW n \in Nat \ {0}, Types, i + 1 + n <= Size
    PROVE  SubstringHash(i + 1, n) =
            (SubstringHash(i, n) * Prime + Char(i + n) - Power(n) * Char(i)) % Modulus
<1> DEFINE S == 0 .. (Modulus - 1)
<1>1. Size \in Nat
  BY SizeIsNumber
<1>2. \A k \in 0 .. n : Char(i + k) \in Nat
  <2>1. \A k \in 0 .. n : i + k \in Nat /\ i + k < Size
    BY <1>1
  <2> QED BY <2>1, CharIsNumber
<1>3. PICK c \in [0 .. n -> Nat] : \A k \in 0 .. n : c[k] = Char(i + k)
  <2>1. [k \in 0 .. n |-> Char(i + k)] \in [0 .. n -> Nat]
    BY <1>2
  <2> QED BY <2>1
<1>4. PICK h \in [0 .. n -> S] :
        /\ h[0] = 0
        /\ \A k \in 1 .. n : h[k] = (h[k - 1] * Prime + Char(i + k - 1)) % Modulus
        /\ SubstringHash(i, n) = h[n]
  <2>1. i + n <= Size
    BY <1>1
  <2> QED BY <2>1, HashTable
<1>5. PICK g \in [0 .. n -> S] :
        /\ g[0] = 0
        /\ \A k \in 1 .. n : g[k] = (g[k - 1] * Prime + Char(i + 1 + k - 1)) % Modulus
        /\ SubstringHash(i + 1, n) = g[n]
  <2>1. i + 1 \in Nat /\ (i + 1) + n <= Size
    OBVIOUS
  <2> QED BY <2>1, HashTable
<1>6. PICK p \in [0 .. n -> Nat] :
        /\ p[0] = 1
        /\ \A k \in 1 .. n : p[k] = (p[k - 1] * Prime) % Modulus
        /\ Power(n) = p[n]
  BY PowerTable
<1>7. ASSUME NEW k \in 1 .. n
      PROVE  /\ k - 1 \in 0 .. n /\ k \in 0 .. n
             /\ h[k] = (h[k - 1] * Prime + c[k - 1]) % Modulus
             /\ g[k] = (g[k - 1] * Prime + c[k]) % Modulus
             /\ p[k] = (p[k - 1] * Prime) % Modulus
  <2>1. k - 1 \in 0 .. n /\ k \in 0 .. n /\ i + 1 + k - 1 = i + k /\ i + (k - 1) = i + k - 1
    OBVIOUS
  <2>2. c[k - 1] = Char(i + k - 1) /\ c[k] = Char(i + 1 + k - 1)
    BY <1>3, <2>1
  <2> QED BY <1>4, <1>5, <1>6, <2>1, <2>2
<1> DEFINE Rolled(k) == RolledBy(g[k], h[k], c[k], p[k], c[0])
           Bad == {k \in 0 .. n : ~ Rolled(k)}
<1>8. ASSUME Bad # {} PROVE FALSE
  <2>1. PICK k \in Bad : \A l \in Bad : k <= l
    <3>1. Bad \in SUBSET Nat
      OBVIOUS
    <3> HIDE DEF Bad
    <3> QED BY <1>8, <3>1, LeastExists
  <2>2. k \in 0 .. n /\ ~ Rolled(k)
    OBVIOUS
  <2>3. CASE k = 0
    <3>1. PICK x \in Nat : x = c[0]
      BY <1>3
    <3>2. 0 = 0 * Prime + x - 1 * x + Modulus * 0
      BY HashAssumption
    <3>3. RolledBy(0, 0, x, 1, x)
      BY <3>2 DEF RolledBy
    <3> QED BY <1>4, <1>5, <1>6, <2>2, <2>3, <3>1, <3>3
  <2>4. CASE k # 0
    <3>1. k \in 1 .. n
      BY <2>2, <2>4
    <3>2. k - 1 \in 0 .. n /\ k - 1 \notin Bad
      BY <2>1, <3>1
    <3>3. Rolled(k - 1)
      BY <3>2
    <3>4. /\ g[k - 1] \in Nat /\ h[k - 1] \in Nat /\ p[k - 1] \in Nat
          /\ c[0] \in Nat /\ c[k - 1] \in Nat /\ c[k] \in Nat
      <4>1. S \subseteq Nat /\ 0 \in 0 .. n
        BY HashAssumption
      <4> QED BY <1>7, <3>1, <4>1
    <3>5. RolledBy((g[k - 1] * Prime + c[k]) % Modulus, (h[k - 1] * Prime + c[k - 1]) % Modulus,
                   c[k], (p[k - 1] * Prime) % Modulus, c[0])
      BY <3>3, <3>4, RollingStep
    <3> QED BY <1>7, <2>2, <3>1, <3>5
  <2> QED BY <2>3, <2>4
<1>9. PICK q \in Int : g[n] = h[n] * Prime + c[n] - p[n] * c[0] + Modulus * q
  <2>1. n \in 0 .. n /\ n \notin Bad
    <3> HIDE DEF Bad
    <3> QED BY <1>8
  <2> QED BY <2>1 DEF RolledBy
<1>10. PICK a \in Int : a = h[n] * Prime + c[n] - p[n] * c[0]
  <2>1. h[n] \in Int /\ c[n] \in Int /\ p[n] \in Int /\ c[0] \in Int /\ Prime \in Int
    BY HashAssumption
  <2> QED BY <2>1
<1>11. g[n] = a % Modulus
  <2>1. g[n] \in S /\ g[n] = a + Modulus * q
    BY <1>9, <1>10
  <2> HIDE DEF Bad, Rolled
  <2> QED BY <2>1, RemainderIsOnly, HashAssumption
<1>12. c[n] = Char(i + n) /\ c[0] = Char(i)
  <2>1. n \in 0 .. n /\ 0 \in 0 .. n /\ i + 0 = i
    OBVIOUS
  <2> QED BY <1>3, <2>1
<1> QED BY <1>4, <1>5, <1>6, <1>10, <1>11, <1>12

LEMMA HashIsCode ==
    ASSUME NEW i \in Nat, NEW n \in Nat, Types, i + n <= Size
    PROVE  SubstringHash(i, n) \in 0 .. (Modulus - 1)
<1>1. PICK h \in [0 .. n -> 0 .. (Modulus - 1)] : SubstringHash(i, n) = h[n]
  BY HashTable
<1> QED BY <1>1

LEMMA PowerIsNumber == ASSUME NEW n \in Nat \ {0} PROVE Power(n) \in Nat
<1>1. PICK p \in [0 .. n -> Nat] : Power(n) = p[n]
  BY PowerTable
<1> QED BY <1>1

\* A distance is a number, and nought only of a hash from itself.
LEMMA DistanceIsNumber ==
    ASSUME NEW h \in Int, NEW c \in Int
    PROVE  Distance(h, c) \in Nat
<1>1. PICK x \in Int : x = (h - c) % Modulus
  BY HashAssumption
<1>2. PICK d \in Int : d = Signed(h - c)
  BY <1>1, HashAssumption DEF Signed
<1> QED BY <1>2 DEF Distance

LEMMA NoDistance ==
    ASSUME NEW h \in 0 .. (Modulus - 1), NEW c \in 0 .. (Modulus - 1)
    PROVE  Distance(h, c) <= 0 <=> h = c
<1>1. PICK x \in 0 .. (Modulus - 1), q \in Int : x = (h - c) % Modulus /\ h - c = x + Modulus * q
  <2>1. h - c \in Int
    OBVIOUS
  <2> QED BY <2>1, RemainderIs, HashAssumption
<1>2. x = 0 <=> h = c
  <2>1. ASSUME h = c PROVE x = 0
    <3>1. h - c = 0
      BY <2>1
    <3>2. 0 % Modulus = 0
      BY HashAssumption
    <3> QED BY <1>1, <3>1, <3>2
  <2>2. ASSUME x = 0 PROVE h = c
    <3>1. PICK d \in Int : d = h - c /\ d < Modulus /\ 0 - d < Modulus
      BY HashAssumption
    <3>2. d = Modulus * q
      <4>1. h - c = 0 + Modulus * q /\ Modulus * q \in Int
        BY <1>1, <2>2, HashAssumption
      <4> QED BY <3>1, <4>1
    <3>3. ASSUME q >= 1 PROVE FALSE
      <4>1. Modulus * q >= Modulus * 1
        BY <3>3, HashAssumption
      <4> QED BY <3>1, <3>2, <4>1, HashAssumption
    <3>4. ASSUME q <= 0 - 1 PROVE FALSE
      <4>1. PICK r \in Nat : r = 0 - q /\ r >= 1
        BY <3>4
      <4>2. Modulus * r >= Modulus * 1 /\ 0 - d = Modulus * r
        BY <3>2, <4>1, HashAssumption
      <4> QED BY <3>1, <4>2, HashAssumption
    <3> QED BY <3>1, <3>2, <3>3, <3>4, HashAssumption
  <2> QED BY <2>1, <2>2
<1>3. PICK d \in Int : d = Signed(h - c) /\ (d = 0 <=> x = 0)
  <2>1. Signed(h - c) = IF 2 * x < Modulus THEN x ELSE x - Modulus
    BY <1>1 DEF Signed
  <2>2. PICK d \in Int : d = IF 2 * x < Modulus THEN x ELSE x - Modulus
    BY HashAssumption
  <2>3. d = 0 <=> x = 0
    BY <2>2, HashAssumption
  <2> QED BY <2>1, <2>2, <2>3
<1>4. Distance(h, c) = IF d < 0 THEN -d ELSE d
  BY <1>3 DEF Distance
<1> QED BY <1>2, <1>3, <1>4

-----------------------------------------------------------------------------
(* Where a walk is.                                                          *)

LEMMA GraphIs ==
    ASSUME Types
    PROVE  /\ call.graph \in Graphs /\ call.config \in Configs /\ IsConfig(Config)
           /\ \A o \in DOMAIN call.graph.nodes : o \in Nat \ {0} /\ IsGraphNode(Node(o))
           /\ Root \in DOMAIN call.graph.nodes
           /\ Entry(call.graph, Root) \in Reached(call.graph)
<1>1. call.graph \in Graphs /\ call.config \in Configs
  BY DEF Types
<1>2. /\ {call.graph.performance, call.graph.predictive} \subseteq DOMAIN call.graph.nodes
      /\ DOMAIN call.graph.nodes \subseteq Nat \ {0}
      /\ \A o \in DOMAIN call.graph.nodes : IsGraphNode(call.graph.nodes[o])
  BY <1>1, GraphsAssumption
<1>3. {Entry(call.graph, call.graph.performance), Entry(call.graph, call.graph.predictive)}
        \subseteq Reached(call.graph)
  BY <1>1, RangesAssumption
<1> QED BY <1>1, <1>2, <1>3, ConfigsAssumption DEF Root, Node, Config

LEMMA ReachedIs ==
    ASSUME Types, NEW l \in Reached(call.graph)
    PROVE  /\ l.node \in DOMAIN call.graph.nodes /\ l.node \in Nat \ {0}
           /\ IsGraphNode(Node(l.node))
           /\ l.first \in Nat /\ l.last \in Nat /\ l.first <= l.last
           /\ Links(call.graph, l) \subseteq Reached(call.graph)
<1>1. /\ l.node \in DOMAIN call.graph.nodes
      /\ {l.first, l.last} \subseteq Nat /\ l.first <= l.last
      /\ Links(call.graph, l) \subseteq Reached(call.graph)
  BY GraphIs, RangesAssumption
<1> QED BY <1>1, GraphIs

\* The node and the range of a walk.
LEMMA HereIs ==
    ASSUME Types, Place, Walking
    PROVE  /\ state.node \in DOMAIN call.graph.nodes /\ state.node \in Nat \ {0}
           /\ IsGraphNode(TheNode)
           /\ Here.node = state.node
           /\ Here.first \in Nat /\ Here.last \in Nat /\ Here.first <= Here.last
           /\ pc = "evaluate" => Here.first = state.firstIndex /\ Here.last = state.lastIndex
           /\ pc # "evaluate" => Here.first = initial.first /\ Here.last = initial.last
<1>1. Here.node = state.node
  BY DEF Here
<1>2. Here \in Reached(call.graph)
  BY DEF Place
<1>3. /\ Here.node \in DOMAIN call.graph.nodes /\ Here.node \in Nat \ {0}
      /\ IsGraphNode(Node(Here.node))
      /\ Here.first \in Nat /\ Here.last \in Nat /\ Here.first <= Here.last
  BY <1>2, ReachedIs
<1> QED BY <1>1, <1>3 DEF Here, TheNode

\* The codes of a node are as wide as hashes; a binary node has just one.
LEMMA CodesAre ==
    ASSUME NEW n, IsGraphNode(n)
    PROVE  /\ n.length \in 1 .. 128 /\ n.length \in Nat \ {0}
           /\ n.isBinary \in BOOLEAN /\ n.unmatchedNodeOffset \in Int
           /\ n.firstIndex \in Int /\ n.lastIndex \in Int
           /\ \A c \in DOMAIN n.hashes : c \in 0 .. (Modulus - 1) /\ n.hashes[c] \in Int
           /\ n.isBinary => \E c \in 0 .. (Modulus - 1) : DOMAIN n.hashes = {c}
<1>1. ASSUME n.isBinary PROVE \E c \in 0 .. (Modulus - 1) : DOMAIN n.hashes = {c}
  <2>1. IsFiniteSet(0 .. (Modulus - 1))
    BY FS_Interval, HashAssumption
  <2>2. DOMAIN n.hashes \subseteq 0 .. (Modulus - 1) /\ Cardinality(DOMAIN n.hashes) = 1
    BY <1>1 DEF IsGraphNode
  <2>3. IsFiniteSet(DOMAIN n.hashes)
    BY <2>1, <2>2, FS_Subset
  <2>4. \E c : DOMAIN n.hashes = {c}
    BY <2>2, <2>3, FS_Singleton
  <2> QED BY <2>2, <2>4
<1>2. /\ n.length \in 1 .. 128
      /\ n.isBinary \in BOOLEAN /\ n.unmatchedNodeOffset \in Int
      /\ n.firstIndex \in Int /\ n.lastIndex \in Int
  BY DEF IsGraphNode
<1>3. \A c \in DOMAIN n.hashes : c \in 0 .. (Modulus - 1) /\ n.hashes[c] \in Int
  BY DEF IsGraphNode
<1> QED BY <1>1, <1>2, <1>3

LEMMA CodeIs ==
    ASSUME Types, Place, Walking, TheNode.isBinary
    PROVE  /\ Code \in 0 .. (Modulus - 1) /\ DOMAIN TheNode.hashes = {Code}
           /\ TheNode.hashes[Code] \in Int
<1>1. IsGraphNode(TheNode)
  BY HereIs
<1>2. PICK c \in 0 .. (Modulus - 1) : DOMAIN TheNode.hashes = {c} /\ TheNode.hashes[c] \in Int
  BY <1>1, CodesAre
<1>3. Code = c
  BY <1>2 DEF Code
<1> QED BY <1>2, <1>3

\* What a match or its absence leads on to has been reached.
LEMMA NextIs ==
    ASSUME Types, Place, pc = "follow", offset > 0
    PROVE  /\ offset \in DOMAIN call.graph.nodes /\ IsGraphNode(Node(offset))
           /\ [node |-> offset, first |-> initial.first + Node(offset).firstIndex,
               last |-> initial.last + Node(offset).lastIndex] \in Reached(call.graph)
<1> DEFINE next == [node |-> offset, first |-> initial.first + Node(offset).firstIndex,
                    last |-> initial.last + Node(offset).lastIndex]
<1>1. Here \in Reached(call.graph) /\ offset \in OffsetsOf(TheNode)
  BY DEF Place, Walking
<1>2. Here.node = state.node /\ Here.first = initial.first /\ Here.last = initial.last
  BY DEF Here
<1>3. TheNode = call.graph.nodes[Here.node]
  BY <1>2 DEF TheNode, Node
<1>4. next \in Links(call.graph, Here)
  BY <1>1, <1>2, <1>3 DEF Links, OffsetsOf, Node
<1>5. next \in Reached(call.graph)
  BY <1>1, <1>4, ReachedIs
<1>6. next.node \in DOMAIN call.graph.nodes /\ IsGraphNode(Node(next.node))
  BY <1>5, ReachedIs
<1>7. next.node = offset
  OBVIOUS
<1> QED BY <1>5, <1>6, <1>7

LEMMA SignedIsInt == ASSUME NEW x \in Int PROVE Signed(x) \in Int
<1>1. PICK y \in Int : y = x % Modulus
  BY HashAssumption
<1> QED BY <1>1, HashAssumption DEF Signed

\* The range that is searched.
LEMMA SearchedIs ==
    ASSUME Types, Place, pc = "evaluate"
    PROVE  /\ SearchedFirst \in Nat /\ SearchedLast \in Int
           /\ SearchedFirst <= state.firstIndex
           /\ SearchedFirst >= state.firstIndex - state.allowedDrift
           /\ SearchedLast <= state.lastIndex + state.allowedDrift
           /\ ~ (WithDrift /\ ~ WithDifference) =>
                SearchedFirst = state.firstIndex /\ SearchedLast = state.lastIndex
<1>1. state.firstIndex \in Nat /\ state.lastIndex \in Nat /\ state.allowedDrift \in Nat
  BY HereIs DEF Types, StateSet, Walking
<1>2. Size \in Nat
  BY SizeIsNumber
<1> QED BY <1>1, <1>2 DEF SearchedFirst, SearchedLast, Greater, Lesser

-----------------------------------------------------------------------------
(* What the steps do to the state.                                           *)

LEMMA MatchedIs ==
    ASSUME Types, NEW code \in DOMAIN TheNode.hashes, TheNode.hashes[code] \in Int,
           NEW d \in Int, Matched(code, d)
    PROVE  /\ found' = TRUE /\ offset' = TheNode.hashes[code] /\ pc' = "follow"
           /\ state' \in StateSet
           /\ state'.difference = Signed(state.difference + d)
           /\ ~ WithDrift => state'.drift = state.drift
           /\ state'.drift >= state.drift
           /\ WithDrift => /\ state'.drift >= initial.first - state.currentIndex
                           /\ state'.drift >= state.currentIndex - initial.last
                                \/ state.currentIndex < initial.first
           /\ \/ state'.drift = state.drift
              \/ WithDrift /\ state.currentIndex < initial.first
                    /\ state'.drift = initial.first - state.currentIndex
              \/ WithDrift /\ ~ (state.currentIndex < initial.first)
                    /\ state'.drift = state.currentIndex - initial.last
           /\ \E r, e : state' = [state EXCEPT !.difference = e, !.drift = r]
<1> DEFINE r == IF ~ WithDrift THEN state.drift
                ELSE IF state.currentIndex < initial.first
                     THEN Greater(state.drift, initial.first - state.currentIndex)
                     ELSE Greater(state.drift, state.currentIndex - initial.last)
           e == Signed(state.difference + d)
<1>1. /\ state \in StateSet /\ state.difference \in Int /\ state.currentIndex \in Int
      /\ initial.first \in Int /\ initial.last \in Int /\ state.drift \in Nat
  BY DEF Types, StateSet
<1>2. e \in Int
  BY <1>1, SignedIsInt
<1>3. r \in Nat /\ r >= state.drift
  BY <1>1 DEF Greater
<1>4. /\ found' = TRUE /\ offset' = TheNode.hashes[code] /\ pc' = "follow"
      /\ state' = [state EXCEPT !.difference = e, !.drift = r]
  BY DEF Matched
<1>5. state' \in StateSet /\ state'.difference = e /\ state'.drift = r
  <2> HIDE DEF r, e
  <2> QED BY <1>1, <1>2, <1>3, <1>4 DEF StateSet
<1>6. /\ ~ WithDrift => r = state.drift
      /\ WithDrift => /\ r >= initial.first - state.currentIndex
                      /\ r >= state.currentIndex - initial.last
                            \/ state.currentIndex < initial.first
      /\ \/ r = state.drift
         \/ WithDrift /\ state.currentIndex < initial.first
                /\ r = initial.first - state.currentIndex
         \/ WithDrift /\ ~ (state.currentIndex < initial.first)
                /\ r = state.currentIndex - initial.last
  BY <1>1 DEF Greater
<1> HIDE DEF r
<1> QED BY <1>3, <1>4, <1>5, <1>6

LEMMA EvaluatedIs ==
    ASSUME Types
    PROVE  /\ Evaluated \in StateSet
           /\ Evaluated.firstIndex = initial.first /\ Evaluated.lastIndex = initial.last
           /\ Evaluated.matchedNodes = IF found THEN state.matchedNodes + 1 ELSE state.matchedNodes
           /\ Evaluated.currentDepth = state.currentDepth + 1
           /\ Evaluated.difference = state.difference /\ Evaluated.drift = state.drift
           /\ Evaluated.allowedDifference = state.allowedDifference
           /\ Evaluated.allowedDrift = state.allowedDrift
           /\ Evaluated.breakDepth = state.breakDepth
           /\ Evaluated.hash = state.hash
<1>1. state \in StateSet /\ initial.first \in Int /\ initial.last \in Int /\ found \in BOOLEAN
  BY DEF Types
<1> DEFINE m == IF found THEN state.matchedNodes + 1 ELSE state.matchedNodes
<1>2. state.matchedNodes \in Nat /\ state.iterations \in Nat /\ state.currentDepth \in Nat
  BY <1>1 DEF StateSet
<1>3. m \in Nat /\ state.iterations + 1 \in Nat /\ state.currentDepth + 1 \in Nat
  BY <1>1, <1>2
<1>4. Evaluated = [state EXCEPT !.firstIndex = initial.first, !.lastIndex = initial.last,
                    !.matchedNodes = m, !.iterations = state.iterations + 1,
                    !.currentDepth = state.currentDepth + 1]
  BY DEF Evaluated
<1> HIDE DEF m
<1>5. Evaluated \in StateSet
  BY <1>1, <1>3, <1>4 DEF StateSet
<1>6. m = IF found THEN state.matchedNodes + 1 ELSE state.matchedNodes
  BY DEF m
<1> QED BY <1>1, <1>4, <1>5, <1>6 DEF StateSet

LEMMA SetInitialHashIs ==
    ASSUME Types, Place, SetInitialHash
    PROVE  /\ state' \in StateSet /\ distance' \in Nat
           /\ state'.hash = SubstringHash(SearchedFirst, TheNode.length)
           /\ state'.currentIndex = SearchedFirst /\ state'.lastIndex = SearchedLast
           /\ state'.power = Power(TheNode.length)
           /\ \E a, b, c, h, p : state' = [state EXCEPT !.firstIndex = a, !.lastIndex = b,
                                    !.currentIndex = c, !.hash = h, !.power = p]
<1> DEFINE h == SubstringHash(SearchedFirst, TheNode.length)
           p == Power(TheNode.length)
<1>0. pc = "evaluate" /\ Walking
  BY DEF SetInitialHash, Walking
<1>1. TheNode.length \in Nat \ {0} /\ TheNode.isBinary \in BOOLEAN
  BY <1>0, HereIs, CodesAre
<1>2. SearchedFirst \in Nat /\ SearchedLast \in Int
  BY <1>0, SearchedIs
<1>3. SearchedFirst + TheNode.length <= Size
  BY DEF SetInitialHash
<1>4. h \in 0 .. (Modulus - 1) /\ p \in Nat
  BY <1>1, <1>2, <1>3, HashIsCode, PowerIsNumber
<1>5. state' = [state EXCEPT !.firstIndex = SearchedFirst, !.lastIndex = SearchedLast,
                    !.currentIndex = SearchedFirst, !.hash = h, !.power = p]
  BY DEF SetInitialHash
<1>6. distance' = IF TheNode.isBinary THEN Distance(h, Code) ELSE 0
  BY DEF SetInitialHash
<1> HIDE DEF h, p
<1>7. distance' \in Nat
  <2>1. CASE TheNode.isBinary
    <3>1. Code \in 0 .. (Modulus - 1)
      BY <1>0, <2>1, CodeIs
    <3>2. h \in Int /\ Code \in Int
      BY <1>4, <3>1
    <3> QED BY <1>6, <2>1, <3>2, DistanceIsNumber
  <2>2. CASE ~ TheNode.isBinary
    BY <1>6, <2>2
  <2> QED BY <2>1, <2>2
<1>8. state \in StateSet
  BY DEF Types
<1>9. state' \in StateSet
  <2>1. SearchedFirst \in Int /\ SearchedLast \in Int /\ p \in Int
    BY <1>2, <1>4
  <2> QED BY <1>4, <1>5, <1>8, <2>1 DEF StateSet
<1>10. /\ state'.hash = h /\ state'.power = p
       /\ state'.currentIndex = SearchedFirst /\ state'.lastIndex = SearchedLast
  BY <1>5, <1>8 DEF StateSet
<1> QED BY <1>5, <1>7, <1>9, <1>10 DEF h, p

LEMMA AdvanceHashIs ==
    ASSUME Types, Place, Scanned, AdvanceHash
    PROVE  /\ state' \in StateSet /\ distance' \in Nat
           /\ state.currentIndex \in Nat
           /\ state'.currentIndex = state.currentIndex + 1
           /\ state'.hash = SubstringHash(state.currentIndex + 1, TheNode.length)
           /\ \E c, h : state' = [state EXCEPT !.hash = h, !.currentIndex = c]
<1>0. pc = "scan" /\ Walking
  BY DEF AdvanceHash, Walking
<1>1. TheNode.length \in Nat \ {0} /\ TheNode.isBinary \in BOOLEAN
  BY <1>0, HereIs, CodesAre
<1>2. initial.first \in Nat /\ state.allowedDrift \in Nat /\ state \in StateSet
  BY <1>0, HereIs DEF Types, StateSet
<1>3. From \in Nat
  BY <1>2 DEF From, Greater
<1>4. state.currentIndex \in Nat
  <2>1. state.currentIndex \in Int /\ state.currentIndex >= From
    BY <1>0, <1>2 DEF Scanned, StateSet
  <2> QED BY <1>3, <2>1
<1>5. state.currentIndex + TheNode.length < Size
  BY DEF AdvanceHash, CanAdvance
<1>6. state.currentIndex + 1 + TheNode.length <= Size
  BY <1>1, <1>4, <1>5, SizeIsNumber
<1>7. RolledHash = SubstringHash(state.currentIndex + 1, TheNode.length)
  <2>1. /\ state.hash = SubstringHash(state.currentIndex, TheNode.length)
        /\ state.power = Power(TheNode.length)
    BY <1>0 DEF Scanned
  <2> QED BY <1>1, <1>4, <1>6, <2>1, RollingHash DEF RolledHash
<1>8. RolledHash \in 0 .. (Modulus - 1)
  <2>1. state.currentIndex + 1 \in Nat /\ TheNode.length \in Nat
    BY <1>1, <1>4
  <2> QED BY <1>6, <1>7, <2>1, HashIsCode
<1>9. state' = [state EXCEPT !.hash = RolledHash, !.currentIndex = state.currentIndex + 1]
  BY DEF AdvanceHash
<1>10. state' \in StateSet
  <2>1. state.currentIndex + 1 \in Int
    BY <1>4
  <2> QED BY <1>2, <1>8, <1>9, <2>1 DEF StateSet
<1>11. state'.hash = RolledHash /\ state'.currentIndex = state.currentIndex + 1
  BY <1>2, <1>9 DEF StateSet
<1>12. distance' \in Nat
  <2>1. CASE TheNode.isBinary
    <3>1. Code \in 0 .. (Modulus - 1)
      BY <1>0, <2>1, CodeIs
    <3>2. RolledHash \in Int /\ Code \in Int /\ distance \in Nat
      BY <1>8, <3>1 DEF Types
    <3>3. Distance(RolledHash, Code) \in Nat
      BY <3>2, DistanceIsNumber
    <3> QED BY <2>1, <3>2, <3>3 DEF AdvanceHash, Lesser
  <2>2. CASE ~ TheNode.isBinary
    BY <2>2 DEF AdvanceHash
  <2> QED BY <2>1, <2>2
<1> QED BY <1>4, <1>7, <1>9, <1>10, <1>11, <1>12

\* A node that matches does so with one of its codes.
NodeMatches == ListNodeMatches \/ BinaryNodeMatches \/ BinaryNodeNearest

LEMMA NodeMatchesIs ==
    ASSUME Types, Place, NodeMatches
    PROVE  /\ pc = "scan"
           /\ \E code \in DOMAIN TheNode.hashes, d \in Nat :
                TheNode.hashes[code] \in Int /\ Matched(code, d)
           /\ UNCHANGED <<call, local, distance, initial, matchedUserAgent, items,
                          exception, result>>
<1>1. pc = "scan" /\ Walking
  BY DEF NodeMatches, ListNodeMatches, BinaryNodeMatches, BinaryNodeNearest, Walking
<1>2. \A c \in DOMAIN TheNode.hashes : TheNode.hashes[c] \in Int
  BY <1>1, HereIs, CodesAre
<1>3. distance \in Nat /\ state.allowedDifference \in Nat
  BY DEF Types, StateSet
<1>4. CASE ListNodeMatches
  <2>1. PICK d \in Near :
          Matched(IF Above(d) \in DOMAIN TheNode.hashes THEN Above(d) ELSE Below(d), d)
    BY <1>4 DEF ListNodeMatches
  <2>2. d \in Nat /\ {Above(d), Below(d)} \cap DOMAIN TheNode.hashes # {}
    BY <1>3, <2>1 DEF Near
  <2>3. (IF Above(d) \in DOMAIN TheNode.hashes THEN Above(d) ELSE Below(d))
            \in DOMAIN TheNode.hashes
    BY <2>2
  <2> QED BY <1>1, <1>2, <1>4, <2>1, <2>2, <2>3 DEF ListNodeMatches
<1>5. CASE BinaryNodeMatches
  <2>1. Code \in DOMAIN TheNode.hashes
    BY <1>1, <1>5, CodeIs DEF BinaryNodeMatches
  <2> QED BY <1>1, <1>2, <1>5, <2>1 DEF BinaryNodeMatches
<1>6. CASE BinaryNodeNearest
  <2>1. Code \in DOMAIN TheNode.hashes
    BY <1>1, <1>6, CodeIs DEF BinaryNodeNearest
  <2> QED BY <1>1, <1>2, <1>3, <1>6, <2>1 DEF BinaryNodeNearest
<1> QED BY <1>4, <1>5, <1>6 DEF NodeMatches

LEMMA PassesOverIs ==
    ASSUME Types, Allowances, pc = "walked"
    PROVE  /\ PassesOver \in StateSet
           /\ PassesOver.allowedDifference = 0 /\ PassesOver.allowedDrift = 0
           /\ PassesOver.matchedNodes = state.matchedNodes
           /\ PassesOver.difference = state.difference /\ PassesOver.drift = state.drift
           /\ PassesOver.hash = state.hash
<1> DEFINE b == IF pass = "exact" THEN state.breakDepth ELSE state.breakDepth - 1
<1>1. state \in StateSet
  BY DEF Types
<1>2. b \in Nat
  <2>1. pass # "exact" => state.breakDepth >= 1
    BY DEF Allowances, Trying
  <2> QED BY <1>1, <2>1 DEF StateSet
<1>3. PassesOver = [state EXCEPT !.allowedDifference = 0, !.allowedDrift = 0, !.breakDepth = b]
  BY DEF PassesOver
<1> HIDE DEF b
<1>4. PassesOver \in StateSet
  BY <1>1, <1>2, <1>3 DEF StateSet
<1> QED BY <1>1, <1>3, <1>4 DEF StateSet

-----------------------------------------------------------------------------
(* The variables keep their types.                                           *)

LEMMA TypesStep ==
    ASSUME Types, Place, Allowances, Scanned, ItemsHeld, Next
    PROVE  Types'
<1>0. state \in StateSet
  BY DEF Types
<1>1. CASE SearchGraph
  BY <1>1 DEF Types, SearchGraph
<1>2. CASE WalkFromRoot
  <2>1. Root \in Int /\ Node(Root).firstIndex \in Int /\ Node(Root).lastIndex \in Int
    BY GraphIs, CodesAre
  <2>2. state' \in StateSet
    BY <1>0, <1>2, <2>1 DEF WalkFromRoot, StateSet
  <2>3. previously' \in Nat /\ items' \in Nat
    BY <1>0, <1>2 DEF WalkFromRoot, StateSet, Types
  <2> QED BY <1>2, <2>2, <2>3 DEF Types, WalkFromRoot
<1>3. CASE WalkFails
  <2>1. state' \in StateSet
    <3>1. state' = [state EXCEPT !.node = 0, !.currentDepth = 0]
      BY <1>3 DEF WalkFails
    <3>2. 0 \in Int /\ 0 \in Nat
      OBVIOUS
    <3> QED BY <1>0, <3>1, <3>2 DEF StateSet
  <2>2. previously' \in Nat
    BY <1>0, <1>3 DEF WalkFails, StateSet
  <2> QED BY <1>3, <2>1, <2>2 DEF Types, WalkFails
<1>4. CASE SetInitialHash
  <2>1. state' \in StateSet /\ distance' \in Nat
    BY <1>4, SetInitialHashIs
  <2>2. initial' \in [first : Int, last : Int]
    BY <1>0, <1>4 DEF SetInitialHash, StateSet
  <2> QED BY <1>4, <2>1, <2>2 DEF Types, SetInitialHash, local
<1>5. CASE SetNoHash
  <2>1. initial' \in [first : Int, last : Int]
    BY <1>0, <1>5 DEF SetNoHash, StateSet
  <2>2. 0 \in 0 .. (Modulus - 1)
    BY HashAssumption
  <2>3. state' \in StateSet
    BY <1>0, <1>5, <2>2 DEF SetNoHash, StateSet
  <2>4. found' \in BOOLEAN /\ offset' \in Int
    <3>1. pc = "evaluate" /\ Walking
      BY <1>5 DEF SetNoHash, Walking
    <3>2. TheNode.unmatchedNodeOffset \in Int
      BY <3>1, HereIs, CodesAre
    <3>3. TheNode.isBinary => TheNode.hashes[Code] \in Int
      BY <3>1, CodeIs
    <3> QED BY <1>5, <3>2, <3>3 DEF SetNoHash
  <2> QED BY <1>5, <2>1, <2>3, <2>4 DEF Types, SetNoHash, local
<1>6. CASE NodeMatches
  <2>1. PICK code \in DOMAIN TheNode.hashes, d \in Nat :
            TheNode.hashes[code] \in Int /\ Matched(code, d)
    BY <1>6, NodeMatchesIs
  <2>2. d \in Int
    BY <2>1
  <2>3. found' = TRUE /\ offset' = TheNode.hashes[code] /\ pc' = "follow" /\ state' \in StateSet
    BY <2>1, <2>2, MatchedIs
  <2>4. UNCHANGED <<call, local, distance, initial, matchedUserAgent, items, exception, result>>
    BY <1>6, NodeMatchesIs
  <2> QED BY <2>1, <2>3, <2>4 DEF Types, local
<1>7. CASE AdvanceHash
  <2>1. state' \in StateSet /\ distance' \in Nat
    BY <1>7, AdvanceHashIs
  <2> QED BY <1>7, <2>1 DEF Types, AdvanceHash, local
<1>8. CASE ScanEnds
  <2>1. TheNode.unmatchedNodeOffset \in Int
    BY <1>8, HereIs, CodesAre DEF ScanEnds, Walking
  <2> QED BY <1>8, <2>1 DEF Types, ScanEnds, Unmatched, local
<1>9. CASE FollowToProfile
  <2>1. state' \in StateSet
    <3>1. PICK o \in Int : o = -offset
      BY DEF Types
    <3>2. state' = [Evaluated EXCEPT !.node = 0, !.profileOffset = o]
      BY <1>9, <3>1 DEF FollowToProfile
    <3>3. Evaluated \in StateSet /\ 0 \in Int
      BY EvaluatedIs
    <3> QED BY <3>1, <3>2, <3>3 DEF StateSet
  <2>2. items' \in Nat
    BY <1>9 DEF FollowToProfile, ItemsHeld, Walking, Types
  <2> QED BY <1>9, <2>1, <2>2 DEF Types, FollowToProfile, local
<1>10. CASE FollowToNode
  <2>1. state' \in StateSet
    <3>1. offset \in Int /\ Node(offset).firstIndex \in Int /\ Node(offset).lastIndex \in Int
      BY <1>10, NextIs, CodesAre DEF FollowToNode, Types
    <3>2. Evaluated \in StateSet
      BY EvaluatedIs
    <3>3. Evaluated.firstIndex \in Int /\ Evaluated.lastIndex \in Int
      BY <3>2 DEF StateSet
    <3> DEFINE a == IF exception THEN Evaluated.firstIndex
                    ELSE Evaluated.firstIndex + Node(offset).firstIndex
               b == IF exception THEN Evaluated.lastIndex
                    ELSE Evaluated.lastIndex + Node(offset).lastIndex
    <3>4. a \in Int /\ b \in Int
      BY <3>1, <3>3
    <3>5. state' = [Evaluated EXCEPT !.node = offset, !.firstIndex = a, !.lastIndex = b]
      BY <1>10, <3>2 DEF FollowToNode, StateSet
    <3> HIDE DEF a, b
    <3> QED BY <3>1, <3>2, <3>4, <3>5 DEF StateSet
  <2> QED BY <1>10, <2>1 DEF Types, FollowToNode, local
<1>11. CASE FollowToNothing
  <2>1. state' \in StateSet
    BY <1>11, EvaluatedIs DEF FollowToNothing, StateSet
  <2>2. items' \in Nat
    BY <1>11 DEF FollowToNothing, ItemsHeld, Walking, Types
  <2> QED BY <1>11, <2>1, <2>2 DEF Types, FollowToNothing, local
<1>12. CASE TryShallower
  <2>1. state' \in StateSet
    BY <1>0, <1>12 DEF TryShallower, StateSet
  <2> QED BY <1>12, <2>1 DEF Types, TryShallower, local
<1>13. CASE TryNextPass
  <2>1. PICK i \in Later :
            /\ pass' = Passes[i]
            /\ state' = [state EXCEPT
                !.allowedDifference = IF Passes[i] = "drift" THEN 0 ELSE Config.difference,
                !.allowedDrift = IF Passes[i] = "difference" THEN 0 ELSE Config.drift,
                !.breakDepth = Deep]
    BY <1>13 DEF TryNextPass
  <2>2. pass' \in {"exact", "difference", "drift", "both"}
    BY <2>1 DEF Later, Passes
  <2>3. Deep \in Nat
    BY <1>0 DEF Deep, Types, StateSet
  <2>4. Config.difference \in Nat /\ Config.drift \in Nat
    BY GraphIs DEF IsConfig
  <2>5. state' \in StateSet
    BY <1>0, <2>1, <2>3, <2>4 DEF StateSet
  <2> QED BY <1>13, <2>2, <2>3, <2>5 DEF Types, TryNextPass
<1>14. CASE GraphMatches
  <2>1. PassesOver \in StateSet
    BY <1>14, PassesOverIs DEF GraphMatches
  <2>2. result' \in ResultSet
    <3>1. /\ state.profileOffset \in Int /\ state.difference \in Int /\ state.drift \in Nat
          /\ state.matchedNodes \in Nat /\ state.iterations \in Nat
      BY <1>0 DEF StateSet
    <3>2. stage \in {"none", "performance", "predictive"}
      BY DEF Types
    <3> QED BY <1>14, <3>1, <3>2 DEF GraphMatches, ResultSet
  <2> QED BY <1>14, <2>1, <2>2 DEF Types, GraphMatches, local
<1>15. CASE TryPredictiveGraph
  <2>1. state' \in StateSet
    BY <1>0, <1>15, PassesOverIs DEF TryPredictiveGraph, HasNoMatch
  <2> QED BY <1>15, <2>1 DEF Types, TryPredictiveGraph
<1>16. CASE NothingMatches
  <2>1. state' \in StateSet
    BY <1>0, <1>16, PassesOverIs DEF NothingMatches, HasNoMatch
  <2>2. result' \in ResultSet
    <3>1. result \in ResultSet
      BY DEF Types
    <3>2. (IF Config.allowUnmatched THEN DefaultProfile ELSE result.profile) \in Int
      BY <3>1 DEF ResultSet, DefaultProfile
    <3> QED BY <1>16, <3>1, <3>2 DEF NothingMatches, ResultSet
  <2> QED BY <1>16, <2>1, <2>2 DEF Types, NothingMatches, local
<1> QED
  BY <1>1, <1>2, <1>3, <1>4, <1>5, <1>6, <1>7, <1>8, <1>9, <1>10, <1>11, <1>12, <1>13,
     <1>14, <1>15, <1>16 DEF Next, NodeMatches

LEMMA CallStays == ASSUME Next PROVE call' = call
BY DEF Next, SearchGraph, WalkFromRoot, WalkFails, SetInitialHash, SetNoHash, ListNodeMatches,
       BinaryNodeMatches, BinaryNodeNearest, AdvanceHash, ScanEnds, FollowToProfile,
       FollowToNode, FollowToNothing, TryShallower, TryNextPass, GraphMatches,
       TryPredictiveGraph, NothingMatches

\* The steps between walks.
Between ==
    \/ SearchGraph \/ WalkFails \/ FollowToProfile \/ FollowToNothing
    \/ TryShallower \/ TryNextPass \/ GraphMatches \/ TryPredictiveGraph \/ NothingMatches

LEMMA BetweenIs ==
    ASSUME Between
    PROVE  ~ Walking' /\ pc' # "scan" /\ pc' # "follow" /\ pc' # "evaluate"
BY DEF Between, Walking, SearchGraph, WalkFails, FollowToProfile, FollowToNothing,
       TryShallower, TryNextPass, GraphMatches, TryPredictiveGraph, NothingMatches

\* The steps of a walk: from a node on, within it, and to the next one.
LEMMA StepsAre ==
    ASSUME Next
    PROVE  \/ WalkFromRoot \/ SetInitialHash \/ SetNoHash \/ NodeMatches \/ AdvanceHash
           \/ ScanEnds \/ FollowToNode \/ Between
BY DEF Next, NodeMatches, Between

-----------------------------------------------------------------------------
(* A walk stays where the graph leads it.                                    *)

LEMMA PlaceStep ==
    ASSUME Types, Place, Scanned, Next
    PROVE  Place'
<1>0. call' = call /\ state \in StateSet
  BY CallStays DEF Types
<1>1. CASE WalkFromRoot
  <2>1. /\ state'.node = Root /\ state'.firstIndex = Node(Root).firstIndex
        /\ state'.lastIndex = Node(Root).lastIndex
    BY <1>0, <1>1 DEF WalkFromRoot, StateSet
  <2>2. pc' = "evaluate"
    BY <1>1 DEF WalkFromRoot
  <2>3. Here' = [node |-> Root, first |-> Node(Root).firstIndex, last |-> Node(Root).lastIndex]
    BY <2>1, <2>2 DEF Here
  <2>4. Here' = Entry(call.graph, Root)
    BY <2>3 DEF Entry, Node
  <2> QED BY <1>0, <2>2, <2>4, GraphIs DEF Place
<1>2. ASSUME pc = "evaluate", pc' \in {"scan", "follow"}, state'.node = state.node,
             initial' = [first |-> state.firstIndex, last |-> state.lastIndex],
             pc' = "follow" => offset' \in OffsetsOf(TheNode)
      PROVE  Place'
  <2>1. Here' = Here
    BY <1>2 DEF Here
  <2>2. Here \in Reached(call.graph)
    BY <1>2 DEF Place, Walking
  <2>3. TheNode' = TheNode
    BY <1>0, <1>2 DEF TheNode, Node
  <2> QED BY <1>0, <1>2, <2>1, <2>2, <2>3 DEF Place, OffsetsOf
<1>3. ASSUME pc = "scan", pc' \in {"scan", "follow"}, state'.node = state.node,
             initial' = initial, pc' = "follow" => offset' \in OffsetsOf(TheNode)
      PROVE  Place'
  <2>1. Here' = Here
    BY <1>3 DEF Here
  <2>2. Here \in Reached(call.graph)
    BY <1>3 DEF Place, Walking
  <2>3. TheNode' = TheNode
    BY <1>0, <1>3 DEF TheNode, Node
  <2> QED BY <1>0, <1>3, <2>1, <2>2, <2>3 DEF Place, OffsetsOf
<1>4. CASE SetInitialHash
  <2>1. state'.node = state.node
    BY <1>0, <1>4, SetInitialHashIs DEF StateSet
  <2> QED BY <1>2, <1>4, <2>1 DEF SetInitialHash
<1>5. CASE SetNoHash
  <2>1. state'.node = state.node
    BY <1>0, <1>5 DEF SetNoHash, StateSet
  <2>2. TheNode.isBinary => Code \in DOMAIN TheNode.hashes
    BY <1>5, CodeIs DEF SetNoHash, Walking
  <2>3. offset' \in OffsetsOf(TheNode)
    BY <1>5, <2>2 DEF SetNoHash, OffsetsOf
  <2> QED BY <1>2, <1>5, <2>1, <2>3 DEF SetNoHash
<1>6. CASE NodeMatches
  <2>1. PICK code \in DOMAIN TheNode.hashes, d \in Nat :
            TheNode.hashes[code] \in Int /\ Matched(code, d)
    BY <1>6, NodeMatchesIs
  <2>2. d \in Int
    BY <2>1
  <2>3. /\ offset' = TheNode.hashes[code] /\ pc' = "follow"
        /\ \E r, e : state' = [state EXCEPT !.difference = e, !.drift = r]
    BY <2>1, <2>2, MatchedIs
  <2>4. state'.node = state.node
    BY <1>0, <2>3 DEF StateSet
  <2>5. pc = "scan" /\ initial' = initial
    BY <1>6, NodeMatchesIs
  <2>6. offset' \in OffsetsOf(TheNode)
    BY <2>1, <2>3 DEF OffsetsOf
  <2> QED BY <1>3, <2>3, <2>4, <2>5, <2>6
<1>7. CASE AdvanceHash
  <2>1. state'.node = state.node
    BY <1>0, <1>7 DEF AdvanceHash, StateSet
  <2> QED BY <1>3, <1>7, <2>1 DEF AdvanceHash
<1>8. CASE ScanEnds
  <2>1. offset' \in OffsetsOf(TheNode)
    BY <1>8 DEF ScanEnds, Unmatched, OffsetsOf
  <2> QED BY <1>3, <1>8, <2>1 DEF ScanEnds, Unmatched
<1>9. CASE FollowToNode
  <2>1. CASE exception
    BY <1>9, <2>1 DEF FollowToNode, Place, Walking
  <2>2. CASE ~ exception
    <3>1. pc = "follow" /\ offset > 0 /\ pc' = "evaluate"
      BY <1>9, <2>2 DEF FollowToNode
    <3>2. [node |-> offset, first |-> initial.first + Node(offset).firstIndex,
           last |-> initial.last + Node(offset).lastIndex] \in Reached(call.graph)
      BY <3>1, NextIs
    <3>3. /\ Evaluated \in StateSet
          /\ Evaluated.firstIndex = initial.first /\ Evaluated.lastIndex = initial.last
      BY EvaluatedIs
    <3>4. state' = [Evaluated EXCEPT !.node = offset,
                        !.firstIndex = initial.first + Node(offset).firstIndex,
                        !.lastIndex = initial.last + Node(offset).lastIndex]
      BY <1>9, <2>2, <3>3 DEF FollowToNode, StateSet
    <3>5. /\ state'.node = offset /\ state'.firstIndex = initial.first + Node(offset).firstIndex
          /\ state'.lastIndex = initial.last + Node(offset).lastIndex
      BY <3>3, <3>4 DEF StateSet
    <3>6. Here' = [node |-> offset, first |-> initial.first + Node(offset).firstIndex,
                   last |-> initial.last + Node(offset).lastIndex]
      BY <3>1, <3>5 DEF Here
    <3> QED BY <1>0, <3>1, <3>2, <3>6 DEF Place
  <2> QED BY <2>1, <2>2
<1>10. CASE Between
  BY <1>10, BetweenIs DEF Place
<1> QED BY <1>1, <1>4, <1>5, <1>6, <1>7, <1>8, <1>9, <1>10, StepsAre

-----------------------------------------------------------------------------
(* A pass tolerates what is its own.                                         *)

LEMMA AllowancesStep ==
    ASSUME Types, Allowances, Next
    PROVE  Allowances'
<1>0. call' = call /\ state \in StateSet
  BY CallStays DEF Types
<1>1. ASSUME pc # "graph", Trying, pass' = pass, pc' # "graph",
             state'.allowedDifference = state.allowedDifference,
             state'.allowedDrift = state.allowedDrift,
             state'.breakDepth = state.breakDepth
      PROVE  Allowances'
  BY <1>0, <1>1 DEF Allowances, IsConfigured, Config
<1>2. CASE SearchGraph
  BY <1>0, <1>2 DEF SearchGraph, Allowances, IsConfigured, Config
<1>3. CASE WalkFromRoot \/ WalkFails
  <2>1. /\ state'.allowedDifference = state.allowedDifference
        /\ state'.allowedDrift = state.allowedDrift
        /\ state'.breakDepth = state.breakDepth
    BY <1>0, <1>3 DEF WalkFromRoot, WalkFails, StateSet
  <2> QED BY <1>1, <1>3, <2>1 DEF WalkFromRoot, WalkFails, Trying
<1>4. CASE SetInitialHash
  <2>1. /\ state'.allowedDifference = state.allowedDifference
        /\ state'.allowedDrift = state.allowedDrift
        /\ state'.breakDepth = state.breakDepth
    BY <1>0, <1>4 DEF SetInitialHash, StateSet
  <2> QED BY <1>1, <1>4, <2>1 DEF SetInitialHash, Trying, Walking, local
<1>5. CASE SetNoHash
  <2>1. /\ state'.allowedDifference = state.allowedDifference
        /\ state'.allowedDrift = state.allowedDrift
        /\ state'.breakDepth = state.breakDepth
    BY <1>0, <1>5 DEF SetNoHash, StateSet
  <2> QED BY <1>1, <1>5, <2>1 DEF SetNoHash, Trying, Walking, local
<1>6. CASE NodeMatches
  <2>1. PICK code, d : Matched(code, d)
    BY <1>6 DEF NodeMatches, ListNodeMatches, BinaryNodeMatches, BinaryNodeNearest
  <2>2. /\ state'.allowedDifference = state.allowedDifference
        /\ state'.allowedDrift = state.allowedDrift
        /\ state'.breakDepth = state.breakDepth
    BY <1>0, <2>1 DEF Matched, StateSet
  <2>3. pc = "scan" /\ pass' = pass /\ pc' = "follow"
    BY <1>6, <2>1 DEF NodeMatches, ListNodeMatches, BinaryNodeMatches, BinaryNodeNearest,
                      local, Matched
  <2> QED BY <1>1, <2>2, <2>3 DEF Trying, Walking
<1>7. CASE AdvanceHash
  <2>1. /\ state'.allowedDifference = state.allowedDifference
        /\ state'.allowedDrift = state.allowedDrift
        /\ state'.breakDepth = state.breakDepth
    BY <1>0, <1>7 DEF AdvanceHash, StateSet
  <2> QED BY <1>1, <1>7, <2>1 DEF AdvanceHash, Trying, Walking, local
<1>8. CASE ScanEnds
  BY <1>1, <1>8 DEF ScanEnds, Unmatched, Trying, Walking, local
<1>9. CASE FollowToProfile \/ FollowToNode \/ FollowToNothing
  <2>1. /\ state'.allowedDifference = state.allowedDifference
        /\ state'.allowedDrift = state.allowedDrift
        /\ state'.breakDepth = state.breakDepth
    <3>1. /\ Evaluated \in StateSet
          /\ Evaluated.allowedDifference = state.allowedDifference
          /\ Evaluated.allowedDrift = state.allowedDrift
          /\ Evaluated.breakDepth = state.breakDepth
      BY EvaluatedIs
    <3> QED BY <1>9, <3>1 DEF FollowToProfile, FollowToNode, FollowToNothing, StateSet
  <2>2. /\ pc = "follow" /\ pass' = pass /\ pc' # "graph"
    BY <1>9 DEF FollowToProfile, FollowToNode, FollowToNothing, local
  <2> QED BY <1>1, <2>1, <2>2 DEF Trying, Walking
<1>10. CASE TryShallower
  <2>1. /\ state'.allowedDifference = state.allowedDifference
        /\ state'.allowedDrift = state.allowedDrift
        /\ state'.breakDepth = state.breakDepth - 1
    BY <1>0, <1>10 DEF TryShallower, StateSet
  <2>2. state'.breakDepth >= 1
    BY <1>0, <1>10, <2>1 DEF TryShallower, StateSet
  <2>3. pass' = pass /\ pc' = "root" /\ pc = "walked"
    BY <1>10 DEF TryShallower, local
  <2> QED BY <1>0, <2>1, <2>2, <2>3 DEF Allowances, Trying, Walking, IsConfigured, Config
<1>11. CASE TryNextPass
  <2>1. PICK i \in Later :
            /\ pass' = Passes[i]
            /\ state' = [state EXCEPT
                !.allowedDifference = IF Passes[i] = "drift" THEN 0 ELSE Config.difference,
                !.allowedDrift = IF Passes[i] = "difference" THEN 0 ELSE Config.drift,
                !.breakDepth = Deep]
    BY <1>11 DEF TryNextPass
  <2>2. pass' \in {"difference", "drift", "both"}
    BY <2>1 DEF Later, Passes
  <2>3. IsConfigured(pass') /\ Deep > 0
    BY <2>1 DEF Later
  <2>4. Deep \in Nat
    BY <1>0 DEF Deep, Types, StateSet
  <2>5. /\ state'.allowedDifference = IF pass' = "drift" THEN 0 ELSE Config.difference
        /\ state'.allowedDrift = IF pass' = "difference" THEN 0 ELSE Config.drift
        /\ state'.breakDepth = Deep
    BY <1>0, <2>1 DEF StateSet
  <2>6. state'.breakDepth >= 1
    BY <2>3, <2>4, <2>5
  <2>7. pc' = "root"
    BY <1>11 DEF TryNextPass
  <2> QED BY <1>0, <2>2, <2>3, <2>5, <2>6, <2>7 DEF Allowances, Trying, Walking,
                                                    IsConfigured, Config
<1>12. CASE GraphMatches \/ NothingMatches
  BY <1>12 DEF GraphMatches, NothingMatches, Allowances, Trying, Walking
<1>13. CASE TryPredictiveGraph
  <2>1. state'.allowedDifference = 0 /\ state'.allowedDrift = 0
    BY <1>13, PassesOverIs DEF TryPredictiveGraph, HasNoMatch, Allowances
  <2> QED BY <1>13, <2>1 DEF TryPredictiveGraph, Allowances, Trying, Walking
<1> QED
  BY <1>2, <1>3, <1>4, <1>5, <1>6, <1>7, <1>8, <1>9, <1>10, <1>11, <1>12, <1>13
  DEF Next, NodeMatches

-----------------------------------------------------------------------------
(* The node of a walk is held.                                               *)

LEMMA ItemsHeldStep ==
    ASSUME Types, ItemsHeld, Next
    PROVE  ItemsHeld'
<1>0. items \in Nat /\ exception \in BOOLEAN
  BY DEF Types
<1>1. CASE WalkFromRoot
  BY <1>0, <1>1 DEF WalkFromRoot, ItemsHeld, Walking
<1>2. CASE FollowToProfile \/ FollowToNothing
  BY <1>0, <1>2 DEF FollowToProfile, FollowToNothing, ItemsHeld, Walking
<1>3. CASE FollowToNode
  BY <1>0, <1>3 DEF FollowToNode, ItemsHeld, Walking
<1>4. CASE WalkFails
  BY <1>0, <1>4 DEF WalkFails, ItemsHeld, Walking
<1>5. ASSUME items' = items, exception' = exception, Walking' <=> Walking
      PROVE  ItemsHeld'
  BY <1>5 DEF ItemsHeld
<1>6. CASE SearchGraph \/ TryShallower \/ TryNextPass \/ GraphMatches \/ TryPredictiveGraph
            \/ NothingMatches
  BY <1>5, <1>6 DEF SearchGraph, TryShallower, TryNextPass, GraphMatches, TryPredictiveGraph,
                    NothingMatches, HasNoMatch, Walking
<1>7. CASE SetInitialHash \/ SetNoHash \/ AdvanceHash \/ ScanEnds
  BY <1>5, <1>7 DEF SetInitialHash, SetNoHash, AdvanceHash, ScanEnds, Unmatched, Walking
<1>8. CASE NodeMatches
  BY <1>5, <1>8 DEF NodeMatches, ListNodeMatches, BinaryNodeMatches, BinaryNodeNearest,
                    Matched, Walking
<1> QED BY <1>1, <1>2, <1>3, <1>4, <1>6, <1>7, <1>8 DEF Next, NodeMatches

-----------------------------------------------------------------------------
(* A scan is at a substring of the range, with its hash.                     *)

LEMMA HashStays ==
    ASSUME call' = call, NEW i, NEW n
    PROVE  SubstringHash(i, n)' = SubstringHash(i, n)
BY DEF SubstringHash, Char, UserAgent

LEMMA PowerStays ==
    ASSUME NEW n
    PROVE  Power(n)' = Power(n)
BY DEF Power

LEMMA ScannedStep ==
    ASSUME Types, Place, Scanned, Next
    PROVE  Scanned'
<1>0. call' = call /\ state \in StateSet
  BY CallStays DEF Types
<1>1. CASE SetInitialHash
  <2>0. pc = "evaluate" /\ Walking /\ SearchedFirst + TheNode.length <= Size
    BY <1>1 DEF SetInitialHash, Walking
  <2>1. /\ state'.hash = SubstringHash(SearchedFirst, TheNode.length)
        /\ state'.currentIndex = SearchedFirst /\ state'.lastIndex = SearchedLast
        /\ state'.power = Power(TheNode.length)
        /\ \E a, b, c, h, p : state' = [state EXCEPT !.firstIndex = a, !.lastIndex = b,
                                    !.currentIndex = c, !.hash = h, !.power = p]
    BY <1>1, SetInitialHashIs
  <2>2. /\ state'.node = state.node
        /\ state'.allowedDifference = state.allowedDifference
        /\ state'.allowedDrift = state.allowedDrift
        /\ state'.breakDepth = state.breakDepth /\ state'.currentDepth = state.currentDepth
    BY <1>0, <2>1 DEF StateSet
  <2>3. initial' = [first |-> state.firstIndex, last |-> state.lastIndex]
    BY <1>1 DEF SetInitialHash
  <2>4. TheNode' = TheNode /\ Size' = Size
    BY <1>0, <2>2 DEF TheNode, Node, Size, UserAgent
  <2>5. From' = SearchedFirst /\ To' = SearchedLast
    BY <2>2, <2>3, <2>4 DEF From, To, SearchedFirst, SearchedLast, Extends, WithDrift,
                            WithDifference, IsTolerant, Greater, Lesser
  <2>6. SearchedFirst \in Nat
    BY <2>0, SearchedIs
  <2>7. PICK i, n : i = SearchedFirst /\ n = TheNode.length
    OBVIOUS
  <2>8. /\ SubstringHash(i, n)' = SubstringHash(i, n) /\ Power(n)' = Power(n)
    BY <1>0, HashStays, PowerStays
  <2>9. /\ state'.hash = SubstringHash(state.currentIndex, TheNode.length)'
        /\ state'.power = Power(TheNode.length)'
    BY <2>1, <2>4, <2>7, <2>8
  <2> QED BY <2>0, <2>1, <2>4, <2>5, <2>6, <2>9 DEF Scanned
<1>2. CASE AdvanceHash
  <2>0. pc = "scan" /\ Walking /\ CanAdvance /\ initial' = initial
    BY <1>2 DEF AdvanceHash, Walking
  <2>1. /\ state.currentIndex \in Nat
        /\ state'.currentIndex = state.currentIndex + 1
        /\ state'.hash = SubstringHash(state.currentIndex + 1, TheNode.length)
        /\ \E c, h : state' = [state EXCEPT !.hash = h, !.currentIndex = c]
    BY <1>2, AdvanceHashIs
  <2>2. /\ state'.node = state.node /\ state'.lastIndex = state.lastIndex
        /\ state'.power = state.power
        /\ state'.allowedDifference = state.allowedDifference
        /\ state'.allowedDrift = state.allowedDrift
        /\ state'.breakDepth = state.breakDepth /\ state'.currentDepth = state.currentDepth
    BY <1>0, <2>1 DEF StateSet
  <2>3. TheNode' = TheNode /\ Size' = Size
    BY <1>0, <2>2 DEF TheNode, Node, Size, UserAgent
  <2>4. From' = From /\ To' = To
    BY <2>0, <2>2, <2>3 DEF From, To, Extends, WithDrift, WithDifference, IsTolerant,
                            Greater, Lesser
  <2>5. /\ state.lastIndex = To /\ state.currentIndex >= From
        /\ state.power = Power(TheNode.length)
    BY <2>0 DEF Scanned
  <2>6. PICK i, n : i = state.currentIndex + 1 /\ n = TheNode.length
    OBVIOUS
  <2>7. SubstringHash(i, n)' = SubstringHash(i, n) /\ Power(n)' = Power(n)
    BY <1>0, HashStays, PowerStays
  <2>8. /\ state'.hash = SubstringHash(state.currentIndex, TheNode.length)'
        /\ state'.power = Power(TheNode.length)'
    BY <2>1, <2>2, <2>3, <2>5, <2>6, <2>7
  <2>9. TheNode.length \in Nat /\ Size \in Nat /\ state.lastIndex \in Int
    BY <1>0, <2>0, HereIs, CodesAre, SizeIsNumber DEF StateSet
  <2>10. From \in Int
    BY <2>0, HereIs DEF From, Greater, Types, StateSet
  <2>11. /\ state.currentIndex + 1 <= To /\ state.currentIndex + 1 >= From
         /\ state.currentIndex + 1 + TheNode.length <= Size
    BY <2>0, <2>1, <2>5, <2>9, <2>10 DEF CanAdvance
  <2> QED BY <2>0, <2>1, <2>2, <2>3, <2>4, <2>5, <2>8, <2>11 DEF Scanned
<1>3. ASSUME pc' # "scan" PROVE Scanned'
  BY <1>3 DEF Scanned
<1>4. CASE WalkFromRoot \/ SetNoHash \/ ScanEnds \/ FollowToNode
  BY <1>3, <1>4 DEF WalkFromRoot, SetNoHash, ScanEnds, Unmatched, FollowToNode
<1>5. CASE NodeMatches
  BY <1>3, <1>5 DEF NodeMatches, ListNodeMatches, BinaryNodeMatches, BinaryNodeNearest, Matched
<1>6. CASE Between
  BY <1>3, <1>6, BetweenIs
<1> QED BY <1>1, <1>2, <1>4, <1>5, <1>6, StepsAre

-----------------------------------------------------------------------------
(* A match is within the drift.                                              *)

LEMMA ScanIsNear ==
    ASSUME Types, Place, Allowances, Scanned, pc = "scan"
    PROVE  /\ state.currentIndex \in Nat
           /\ initial.first - state.currentIndex <= state.allowedDrift
           /\ state.currentIndex - initial.last <= state.allowedDrift
           /\ state.allowedDrift \in Nat /\ state.allowedDrift <= Config.drift
           /\ ~ WithDrift => initial.first <= state.currentIndex
                                /\ state.currentIndex <= initial.last
           /\ state.currentIndex + TheNode.length <= Size
<1>1. Walking
  BY DEF Walking
<1>2. initial.first \in Nat /\ initial.last \in Nat /\ initial.first <= initial.last
  BY <1>1, HereIs
<1>3. state.allowedDrift \in Nat /\ state.currentIndex \in Int
  BY DEF Types, StateSet
<1>4. state.allowedDrift <= Config.drift
  <2>1. Config.drift \in Nat
    BY GraphIs DEF IsConfig
  <2>2. state.allowedDrift = IF pass \in {"drift", "both"} THEN Config.drift ELSE 0
    BY <1>1 DEF Allowances, Trying
  <2>3. state.allowedDrift = Config.drift \/ state.allowedDrift = 0
    BY <2>2
  <2> QED BY <2>1, <2>3
<1>5. /\ state.currentIndex >= From /\ (state.currentIndex = From \/ state.currentIndex <= To)
      /\ state.currentIndex + TheNode.length <= Size
  BY DEF Scanned
<1>6. /\ From \in Nat /\ From >= initial.first - state.allowedDrift /\ From <= initial.first
      /\ ~ WithDrift => From = initial.first
  BY <1>2, <1>3 DEF From, Greater, Extends
<1>7. /\ To \in Int /\ To <= initial.last + state.allowedDrift
      /\ ~ WithDrift => To = initial.last
  BY <1>2, <1>3, SizeIsNumber DEF To, Lesser, Extends
<1> QED BY <1>2, <1>3, <1>4, <1>5, <1>6, <1>7

\* All but a match leave the difference and the drift as they are.
LEMMA DriftStays ==
    ASSUME Types, Allowances, Next, ~ NodeMatches
    PROVE  state'.drift = state.drift /\ state'.difference = state.difference
<1>0. state \in StateSet
  BY DEF Types
<1>1. CASE SearchGraph \/ ScanEnds
  BY <1>1 DEF SearchGraph, ScanEnds
<1>2. CASE WalkFromRoot \/ WalkFails
  BY <1>0, <1>2 DEF WalkFromRoot, WalkFails, StateSet
<1>3. CASE SetInitialHash
  BY <1>0, <1>3 DEF SetInitialHash, StateSet
<1>4. CASE SetNoHash
  BY <1>0, <1>4 DEF SetNoHash, StateSet
<1>5. CASE AdvanceHash
  BY <1>0, <1>5 DEF AdvanceHash, StateSet
<1>6. CASE FollowToProfile \/ FollowToNode \/ FollowToNothing
  <2>1. /\ Evaluated \in StateSet
        /\ Evaluated.drift = state.drift /\ Evaluated.difference = state.difference
    BY EvaluatedIs
  <2> QED BY <1>6, <2>1 DEF FollowToProfile, FollowToNode, FollowToNothing, StateSet
<1>7. CASE TryShallower
  BY <1>0, <1>7 DEF TryShallower, StateSet
<1>8. CASE TryNextPass
  BY <1>0, <1>8 DEF TryNextPass, StateSet
<1>9. CASE GraphMatches \/ TryPredictiveGraph \/ NothingMatches
  BY <1>9, PassesOverIs DEF GraphMatches, TryPredictiveGraph, NothingMatches, HasNoMatch
<1> QED
  BY <1>1, <1>2, <1>3, <1>4, <1>5, <1>6, <1>7, <1>8, <1>9 DEF Next, NodeMatches

LEMMA BoundedStep ==
    ASSUME Types, Place, Allowances, Scanned, Bounded, Next
    PROVE  Bounded'
<1>0. Config' = Config /\ Config.drift \in Nat
  BY CallStays, GraphIs DEF Config, IsConfig
<1>1. CASE NodeMatches
  <2>1. pc = "scan"
    BY <1>1, NodeMatchesIs
  <2>2. PICK code \in DOMAIN TheNode.hashes, d \in Nat :
            TheNode.hashes[code] \in Int /\ Matched(code, d)
    BY <1>1, NodeMatchesIs
  <2>3. d \in Int
    BY <2>2
  <2>4. \/ state'.drift = state.drift
        \/ state'.drift = initial.first - state.currentIndex
        \/ state'.drift = state.currentIndex - initial.last
    BY <2>2, <2>3, MatchedIs
  <2>5. /\ initial.first - state.currentIndex <= state.allowedDrift
        /\ state.currentIndex - initial.last <= state.allowedDrift
        /\ state.allowedDrift <= Config.drift
    BY <2>1, ScanIsNear
  <2>6. /\ initial.first \in Int /\ initial.last \in Int /\ state.currentIndex \in Int
        /\ state.allowedDrift \in Int /\ state.drift <= Config.drift
    BY DEF Types, StateSet, Bounded
  <2>7. state'.drift <= Config.drift
    BY <1>0, <2>4, <2>5, <2>6
  <2> QED BY <1>0, <2>7 DEF Bounded
<1>2. CASE ~ NodeMatches
  BY <1>0, <1>2, DriftStays DEF Bounded
<1> QED BY <1>1, <1>2

LEMMA LocatedStep ==
    ASSUME Types, Place, Allowances, Scanned, Located, Next
    PROVE  Located'
<1> SUFFICES ASSUME NoZeroCodes PROVE Located'
  BY DEF Located
<1>0. call' = call /\ Size' = Size /\ state \in StateSet
  BY CallStays DEF Types, Size, UserAgent
<1>1. CASE NodeMatches
  <2>1. pc = "scan" /\ Walking /\ initial' = initial /\ matchedUserAgent' = matchedUserAgent
    BY <1>1, NodeMatchesIs DEF Walking
  <2>2. PICK code \in DOMAIN TheNode.hashes, d \in Nat :
            TheNode.hashes[code] \in Int /\ Matched(code, d)
    BY <1>1, NodeMatchesIs
  <2>3. d \in Int
    BY <2>2
  <2>4. /\ state' \in StateSet /\ state'.drift >= state.drift
        /\ WithDrift => /\ state'.drift >= initial.first - state.currentIndex
                        /\ state'.drift >= state.currentIndex - initial.last
                                \/ state.currentIndex < initial.first
        /\ \E r, e : state' = [state EXCEPT !.difference = e, !.drift = r]
    BY <2>2, <2>3, MatchedIs
  <2>5. state'.currentIndex = state.currentIndex /\ state'.node = state.node
    BY <1>0, <2>4 DEF StateSet
  <2>6. TheNode' = TheNode
    BY <1>0, <2>5 DEF TheNode, Node
  <2>7. TheNode.length \in Nat /\ Size \in Nat
    BY <2>1, HereIs, CodesAre, SizeIsNumber
  <2>8. /\ initial.first \in Nat /\ initial.last \in Nat /\ initial.first <= initial.last
        /\ state'.drift \in Nat
    BY <2>1, <2>4, HereIs DEF StateSet
  <2>9. /\ state.currentIndex \in Nat
        /\ ~ WithDrift => initial.first <= state.currentIndex
                            /\ state.currentIndex <= initial.last
        /\ state.currentIndex + TheNode.length <= Size
    BY <2>1, ScanIsNear
  <2>10. state.currentIndex \in 0 .. (Size - TheNode.length)
    BY <2>7, <2>9
  <2>11. state.currentIndex \in (initial.first - state'.drift) .. (initial.last + state'.drift)
    BY <2>4, <2>8, <2>9
  <2> QED BY <1>0, <2>1, <2>5, <2>6, <2>10, <2>11 DEF Located
<1>2. ASSUME matchedUserAgent' = matchedUserAgent, pc' # "follow" \/ ~ found' PROVE Located'
  BY <1>0, <1>2 DEF Located
<1>3. CASE SetNoHash
  <2>1. pc = "evaluate" /\ Walking
    BY <1>3 DEF SetNoHash, Walking
  <2>2. ~ (TheNode.isBinary /\ Code = 0)
    <3>1. ASSUME TheNode.isBinary, Code = 0 PROVE FALSE
      <4>1. 0 \in DOMAIN TheNode.hashes
        BY <2>1, <3>1, CodeIs
      <4>2. state.node \in DOMAIN call.graph.nodes /\ call.graph \in Graphs
        BY <2>1, HereIs, GraphIs
      <4> QED BY <3>1, <4>1, <4>2 DEF NoZeroCodes, TheNode, Node
    <3> QED BY <3>1
  <2> QED BY <1>2, <1>3, <2>2 DEF SetNoHash
<1>4. CASE FollowToProfile \/ FollowToNode \/ FollowToNothing
  <2>1. pc = "follow" /\ Walking /\ pc' # "follow"
        /\ matchedUserAgent' = matchedUserAgent \cup Copied
    BY <1>4 DEF FollowToProfile, FollowToNode, FollowToNothing, Walking
  <2>2. TheNode.length \in Nat /\ Size \in Nat
    BY <2>1, HereIs, CodesAre, SizeIsNumber
  <2>3. Copied \subseteq 0 .. (Size - 1)
    <3>1. CASE found
      <4>1. state.currentIndex \in 0 .. (Size - TheNode.length)
        BY <2>1, <3>1 DEF Located
      <4> QED BY <2>2, <3>1, <4>1 DEF Copied
    <3>2. CASE ~ found
      BY <3>2 DEF Copied
    <3> QED BY <3>1, <3>2
  <2> QED BY <1>0, <2>1, <2>3 DEF Located
<1>5. CASE WalkFromRoot \/ SetInitialHash \/ AdvanceHash \/ ScanEnds
  BY <1>2, <1>5 DEF WalkFromRoot, SetInitialHash, AdvanceHash, ScanEnds, Unmatched
<1>6. CASE Between /\ ~ FollowToProfile /\ ~ FollowToNothing
  <2>1. matchedUserAgent' = matchedUserAgent
    BY <1>6 DEF Between, SearchGraph, WalkFails, TryShallower, TryNextPass, GraphMatches,
                TryPredictiveGraph, NothingMatches
  <2> QED BY <1>2, <1>6, <2>1, BetweenIs
<1> QED BY <1>1, <1>3, <1>4, <1>5, <1>6, StepsAre

-----------------------------------------------------------------------------
(* A walk without a match leaves nothing to the next.                        *)

LEMMA CleanStep ==
    ASSUME Types, Place, Allowances, Scanned, Clean, Next
    PROVE  Clean'
<1>0. state \in StateSet /\ previously \in Nat /\ state.matchedNodes \in Nat
  BY DEF Types, StateSet
<1> SUFFICES ASSUME ~ exception' PROVE Clean'
  BY DEF Clean
<1>1. ASSUME ~ exception, IsClean, pc' # "follow" \/ ~ found', UNCHANGED matchedUserAgent,
             state'.matchedNodes = state.matchedNodes, state'.difference = state.difference,
             state'.drift = state.drift, previously' = 0 \/ pc' \in {"graph", "root", "done"}
      PROVE  Clean'
  <2>1. IsClean'
    BY <1>1 DEF IsClean
  <2> QED BY <1>1, <2>1 DEF Clean, Walking
<1>2. ASSUME Walking \/ pc = "walked", ~ exception, UNCHANGED previously,
             pc' \notin {"graph", "root"},
             state'.matchedNodes = state.matchedNodes,
             ~ (pc = "follow" /\ found),
             \/ pc' = "follow" /\ found'
             \/ /\ UNCHANGED matchedUserAgent
                /\ state'.difference = state.difference /\ state'.drift = state.drift
      PROVE  Clean'
  <2>1. previously = 0 /\ (state.matchedNodes = 0 => IsClean)
    BY <1>2 DEF Clean
  <2> QED BY <1>2, <2>1 DEF Clean, IsClean, Walking
<1>3. ~ NodeMatches => state'.drift = state.drift /\ state'.difference = state.difference
  BY DriftStays
<1>4. CASE SearchGraph
  <2>1. IsClean /\ ~ exception
    BY <1>4 DEF SearchGraph, Clean
  <2> QED BY <1>1, <1>4, <2>1 DEF SearchGraph
<1>5. CASE WalkFromRoot
  <2>1. IsClean /\ ~ exception /\ previously' = 0
    BY <1>5 DEF WalkFromRoot, Clean, IsClean
  <2>2. /\ state'.matchedNodes = state.matchedNodes /\ state'.difference = state.difference
        /\ state'.drift = state.drift
    BY <1>0, <1>5 DEF WalkFromRoot, StateSet
  <2> QED BY <1>1, <1>5, <2>1, <2>2 DEF WalkFromRoot
<1>6. CASE WalkFails \/ FollowToNothing
  BY <1>6 DEF WalkFails, FollowToNothing
<1>7. CASE SetInitialHash
  <2>1. /\ state'.matchedNodes = state.matchedNodes /\ state'.difference = state.difference
        /\ state'.drift = state.drift
    BY <1>0, <1>7 DEF SetInitialHash, StateSet
  <2> QED BY <1>2, <1>7, <2>1 DEF SetInitialHash, Walking, local
<1>8. CASE SetNoHash
  <2>1. /\ state'.matchedNodes = state.matchedNodes /\ state'.difference = state.difference
        /\ state'.drift = state.drift
    BY <1>0, <1>8 DEF SetNoHash, StateSet
  <2> QED BY <1>2, <1>8, <2>1 DEF SetNoHash, Walking, local
<1>9. CASE NodeMatches
  <2>1. PICK code, d : Matched(code, d)
    BY <1>9 DEF NodeMatches, ListNodeMatches, BinaryNodeMatches, BinaryNodeNearest
  <2>2. state'.matchedNodes = state.matchedNodes
    BY <1>0, <2>1 DEF Matched, StateSet
  <2>3. pc = "scan" /\ previously' = previously /\ ~ exception
    BY <1>9, NodeMatchesIs DEF local
  <2>4. pc' = "follow" /\ found'
    BY <2>1 DEF Matched
  <2>5. pc' \notin {"graph", "root"} /\ ~ (pc = "follow" /\ found) /\ Walking
    BY <2>3, <2>4 DEF Walking
  <2> QED BY <1>2, <2>2, <2>3, <2>4, <2>5
<1>10. CASE AdvanceHash
  <2>1. /\ state'.matchedNodes = state.matchedNodes /\ state'.difference = state.difference
        /\ state'.drift = state.drift
    BY <1>0, <1>10 DEF AdvanceHash, StateSet
  <2> QED BY <1>2, <1>10, <2>1 DEF AdvanceHash, Walking, local
<1>11. CASE ScanEnds
  BY <1>2, <1>11 DEF ScanEnds, Unmatched, Walking, local
<1>12. CASE FollowToProfile \/ FollowToNode
  <2>1. /\ pc = "follow" /\ Walking /\ UNCHANGED <<previously, exception>>
        /\ pc' \notin {"graph", "root", "follow"}
        /\ matchedUserAgent' = matchedUserAgent \cup Copied
    BY <1>12 DEF FollowToProfile, FollowToNode, Walking, local
  <2>2. /\ state'.matchedNodes = IF found THEN state.matchedNodes + 1 ELSE state.matchedNodes
        /\ state'.difference = state.difference /\ state'.drift = state.drift
    <3>1. /\ Evaluated \in StateSet
          /\ Evaluated.matchedNodes = IF found THEN state.matchedNodes + 1 ELSE state.matchedNodes
          /\ Evaluated.difference = state.difference /\ Evaluated.drift = state.drift
      BY EvaluatedIs
    <3> QED BY <1>12, <3>1 DEF FollowToProfile, FollowToNode, StateSet
  <2>3. CASE found
    <3>1. previously = 0
      BY <2>1 DEF Clean
    <3>2. state'.matchedNodes # 0
      BY <1>0, <2>2, <2>3
    <3> QED BY <2>1, <3>1, <3>2 DEF Clean
  <2>4. CASE ~ found
    <3>1. matchedUserAgent' = matchedUserAgent
      BY <2>1, <2>4 DEF Copied
    <3> QED BY <1>2, <2>1, <2>2, <2>4, <3>1
  <2> QED BY <2>3, <2>4
<1>13. ASSUME pc = "walked", ~ exception, ~ WalkMatched PROVE IsClean
  <2>1. previously = 0 /\ (state.matchedNodes = 0 => IsClean)
    BY <1>13 DEF Clean, Walking
  <2> QED BY <1>0, <1>13, <2>1 DEF WalkMatched
<1>14. CASE TryShallower \/ TryNextPass
  <2>1. /\ pc = "walked" /\ ~ exception /\ ~ WalkMatched
        /\ pc' = "root" /\ UNCHANGED matchedUserAgent
    <3>1. CASE TryShallower
      BY <3>1 DEF TryShallower
    <3>2. CASE TryNextPass
      BY <3>2 DEF TryNextPass, IsPassOver
    <3> QED BY <1>14, <3>1, <3>2
  <2>2. state'.matchedNodes = state.matchedNodes
    BY <1>0, <1>14 DEF TryShallower, TryNextPass, StateSet
  <2>3. state'.difference = state.difference /\ state'.drift = state.drift
    BY <1>0, <1>14 DEF TryShallower, TryNextPass, StateSet
  <2> QED BY <1>1, <1>13, <2>1, <2>2, <2>3
<1>15. CASE GraphMatches \/ NothingMatches
  BY <1>15 DEF GraphMatches, NothingMatches, Clean, Walking
<1>16. CASE TryPredictiveGraph
  <2>1. ~ exception /\ pc' = "graph" /\ UNCHANGED matchedUserAgent
    BY <1>16 DEF TryPredictiveGraph
  <2>2. IsClean
    BY <1>13, <1>16, <2>1 DEF TryPredictiveGraph, HasNoMatch, IsPassOver, Clean
  <2>3. /\ state'.matchedNodes = state.matchedNodes
        /\ state'.difference = state.difference /\ state'.drift = state.drift
    BY <1>16, PassesOverIs DEF TryPredictiveGraph, HasNoMatch
  <2> QED BY <1>1, <2>1, <2>2, <2>3
<1> QED
  BY <1>4, <1>5, <1>6, <1>7, <1>8, <1>9, <1>10, <1>11, <1>12, <1>14, <1>15, <1>16
  DEF Next, NodeMatches

-----------------------------------------------------------------------------
(* The chain of a root.                                                      *)

NextLink(l) ==
    LET o == Node(l.node).unmatchedNodeOffset
    IN  [node |-> o,
         first |-> l.first + (IF o > 0 THEN Node(o).firstIndex ELSE 0),
         last |-> l.last + (IF o > 0 THEN Node(o).lastIndex ELSE 0)]

LinkSet ==
    {l \in [node : Int, first : Int, last : Int] : l.node > 0 => l \in Reached(call.graph)}

LEMMA NodesAre == ASSUME Types PROVE Nodes \in Nat
<1>1. IsFiniteSet(DOMAIN call.graph.nodes)
  BY GraphIs, GraphsAssumption
<1> QED BY <1>1, FS_CardinalityType DEF Nodes

LEMMA NextLinkIs ==
    ASSUME Types, NEW l \in LinkSet, l.node > 0
    PROVE  NextLink(l) \in LinkSet
<1> DEFINE o == Node(l.node).unmatchedNodeOffset
<1>1. l \in Reached(call.graph)
  BY DEF LinkSet
<1>2. /\ IsGraphNode(Node(l.node)) /\ Links(call.graph, l) \subseteq Reached(call.graph)
      /\ l.first \in Nat /\ l.last \in Nat
  BY <1>1, ReachedIs
<1>3. o \in Int
  BY <1>2, CodesAre
<1>4. CASE o > 0
  <2> DEFINE n == [node |-> o, first |-> l.first + Node(o).firstIndex,
                   last |-> l.last + Node(o).lastIndex]
  <2>1. n \in Links(call.graph, l)
    BY <1>4 DEF Links, OffsetsOf, Node
  <2>2. n \in Reached(call.graph) /\ n.first \in Nat /\ n.last \in Nat
    BY <1>2, <2>1, ReachedIs
  <2>3. NextLink(l) = n
    BY <1>4 DEF NextLink
  <2>4. n \in [node : Int, first : Int, last : Int]
    BY <1>3, <2>2
  <2> QED BY <2>2, <2>3, <2>4 DEF LinkSet
<1>5. CASE ~ (o > 0)
  <2>1. NextLink(l) = [node |-> o, first |-> l.first + 0, last |-> l.last + 0]
    BY <1>5 DEF NextLink
  <2>2. l.first + 0 \in Int /\ l.last + 0 \in Int
    BY <1>2
  <2> QED BY <1>3, <1>5, <2>1, <2>2 DEF LinkSet
<1> QED BY <1>4, <1>5

LEMMA ChainIs ==
    ASSUME Types, NEW root \in {call.graph.performance, call.graph.predictive}
    PROVE  /\ Chain(root) \in [0 .. Nodes -> LinkSet]
           /\ Chain(root)[0] = Entry(call.graph, root)
           /\ \A k \in 1 .. Nodes :
                Chain(root)[k] =
                    IF Chain(root)[k - 1].node <= 0 THEN Chain(root)[k - 1]
                    ELSE NextLink(Chain(root)[k - 1])
<1> DEFINE e == Entry(call.graph, root)
           step(x) == IF x.node <= 0 THEN x ELSE NextLink(x)
           f == [k \in 1 .. Nodes |-> [x \in LinkSet |-> step(x)]]
           IsChain(h) == h = [k \in 0 .. Nodes |->
                IF k = 0 THEN e ELSE IF h[k - 1].node <= 0 THEN h[k - 1] ELSE NextLink(h[k - 1])]
<1>1. Nodes \in Nat
  BY NodesAre
<1>2. e \in LinkSet
  <2>1. e \in Reached(call.graph)
    BY GraphIs, RangesAssumption
  <2>2. /\ e.node \in Nat /\ e.first \in Nat /\ e.last \in Nat
    BY <2>1, ReachedIs
  <2>3. e = [node |-> e.node, first |-> e.first, last |-> e.last]
    BY DEF Entry
  <2>4. e \in [node : Int, first : Int, last : Int]
    <3> HIDE DEF e
    <3> QED BY <2>2, <2>3
  <2> QED BY <2>1, <2>4 DEF LinkSet
<1>3. \A x \in LinkSet : step(x) \in LinkSet
  <2> TAKE x \in LinkSet
  <2>1. x.node \in Int
    BY DEF LinkSet
  <2>2. ~ (x.node <= 0) => x.node > 0
    BY <2>1
  <2> QED BY <2>2, NextLinkIs
<1> HIDE DEF e
<1>4. PICK g \in [0 .. Nodes -> LinkSet] :
        g[0] = e /\ \A k \in 1 .. Nodes : g[k] = f[k][g[k - 1]]
  <2>1. f \in [1 .. Nodes -> [LinkSet -> LinkSet]]
    <3> HIDE DEF step
    <3> QED BY <1>3
  <2> HIDE DEF f
  <2>2. IsRecursion(Nodes, LinkSet, e, f)
    BY <1>1, <1>2, <2>1 DEF IsRecursion
  <2>3. HasFunction(Nodes, LinkSet, e, f)
    BY <2>2, RecursionExists
  <2> QED BY <2>3 DEF HasFunction
<1>5. \A k \in 1 .. Nodes : k - 1 \in 0 .. Nodes /\ k \in 0 .. Nodes
  BY <1>1
<1>6. \A k \in 1 .. Nodes : g[k] = step(g[k - 1])
  <2> HIDE DEF step
  <2> QED BY <1>4, <1>5
<1>7. IsChain(g)
  <2>1. \A k \in 0 .. Nodes : k # 0 => k \in 1 .. Nodes
    BY <1>1
  <2> QED BY <1>4, <1>6, <2>1
<1>8. PICK h : IsChain(h) /\ Chain(root) = h
  BY <1>7 DEF Chain, NextLink, Nodes, e
<1>9. h[0] = e /\ \A k \in 1 .. Nodes : h[k] = step(h[k - 1])
  BY <1>1, <1>5, <1>8
<1>10. h \in [0 .. Nodes -> LinkSet]
  <2>1. DOMAIN h = 0 .. Nodes /\ h = [k \in 0 .. Nodes |-> h[k]]
    BY <1>8
  <2>2. h[0] \in LinkSet /\ \A k \in 1 .. Nodes : h[k - 1] \in LinkSet => h[k] \in LinkSet
    <3> HIDE DEF step, IsChain
    <3> QED BY <1>2, <1>3, <1>9
  <2> HIDE DEF IsChain, step
  <2> QED BY <1>1, <2>1, <2>2, RecursionStays
<1> QED BY <1>8, <1>9, <1>10 DEF e

\* A chain that has ended does not go on.
LEMMA ChainStops ==
    ASSUME Types, NEW root \in {call.graph.performance, call.graph.predictive},
           NEW d \in 0 .. Nodes, Chain(root)[d].node <= 0
    PROVE  \A k \in d .. Nodes : Chain(root)[k].node <= 0
<1> DEFINE Bad == {k \in d .. Nodes : ~ (Chain(root)[k].node <= 0)}
<1>1. Nodes \in Nat
  BY NodesAre
<1>2. ASSUME Bad # {} PROVE FALSE
  <2>1. PICK k \in Bad : \A l \in Bad : k <= l
    <3>1. Bad \in SUBSET Nat
      BY <1>1
    <3> HIDE DEF Bad
    <3> QED BY <1>2, <3>1, LeastExists
  <2>2. k \in d .. Nodes /\ ~ (Chain(root)[k].node <= 0) /\ k # d
    OBVIOUS
  <2>3. k \in 1 .. Nodes /\ k - 1 \in d .. Nodes
    BY <1>1, <2>2
  <2>4. k - 1 \notin Bad
    BY <1>1, <2>1, <2>3
  <2>5. Chain(root)[k - 1].node <= 0
    BY <2>3, <2>4
  <2> QED BY <2>2, <2>3, <2>5, ChainIs
<1> QED BY <1>2

LEMMA ChainStays ==
    ASSUME call' = call, NEW root
    PROVE  Chain(root)' = Chain(root)
BY DEF Chain, Node

LEMMA AcceptsStays ==
    ASSUME call' = call, NEW l, NEW a, NEW b
    PROVE  Accepts(l, a, b)' = Accepts(l, a, b)
BY DEF Accepts, Node, Size, UserAgent, SubstringHash, Char

-----------------------------------------------------------------------------
(* A code is at a distance from a hash where it is found there.              *)

LEMMA DistanceIs ==
    ASSUME NEW h \in 0 .. (Modulus - 1), NEW c \in 0 .. (Modulus - 1)
    PROVE  \E x \in 0 .. (Modulus - 1), q \in Int :
            /\ h - c = x + Modulus * q
            /\ Distance(h, c) = IF 2 * x < Modulus THEN x ELSE Modulus - x
<1>1. PICK x \in 0 .. (Modulus - 1), q \in Int : x = (h - c) % Modulus /\ h - c = x + Modulus * q
  <2>1. h - c \in Int
    OBVIOUS
  <2> QED BY <2>1, RemainderIs, HashAssumption
<1>2. Signed(h - c) = IF 2 * x < Modulus THEN x ELSE x - Modulus
  BY <1>1 DEF Signed
<1>3. PICK d \in Int : d = Signed(h - c) /\ d = IF 2 * x < Modulus THEN x ELSE x - Modulus
  BY <1>2, HashAssumption
<1>4. Distance(h, c) = IF d < 0 THEN -d ELSE d
  BY <1>3 DEF Distance
<1>5. Distance(h, c) = IF 2 * x < Modulus THEN x ELSE Modulus - x
  BY <1>3, <1>4, HashAssumption
<1> QED BY <1>1, <1>5

LEMMA DistanceReaches ==
    ASSUME NEW h \in 0 .. (Modulus - 1), NEW c \in 0 .. (Modulus - 1)
    PROVE  (h + Distance(h, c)) % Modulus = c \/ (h - Distance(h, c)) % Modulus = c
<1>1. PICK x \in 0 .. (Modulus - 1), q \in Int :
        /\ h - c = x + Modulus * q
        /\ Distance(h, c) = IF 2 * x < Modulus THEN x ELSE Modulus - x
  BY DistanceIs
<1>2. Modulus \in Nat \ {0}
  BY HashAssumption
<1>3. CASE 2 * x < Modulus
  <2>1. PICK a \in Int : a = h - x
    OBVIOUS
  <2>2. PICK r \in Int : r = 0 - q
    OBVIOUS
  <2>3. Modulus * r = 0 - Modulus * q
    BY <1>2, <2>2
  <2>4. Modulus * q \in Int /\ Modulus * r \in Int
    BY <1>2
  <2>5. c = a + Modulus * r
    BY <1>1, <2>1, <2>3, <2>4
  <2>6. c = a % Modulus
    BY <1>2, <2>5, RemainderIsOnly
  <2> QED BY <1>1, <1>3, <2>1, <2>6
<1>4. CASE ~ (2 * x < Modulus)
  <2>1. PICK a \in Int : a = h + (Modulus - x)
    BY <1>2
  <2>2. PICK r \in Int : r = 0 - q - 1
    OBVIOUS
  <2>3. \A m \in Nat : m * (0 - q - 1) = 0 - m * q - m
    OBVIOUS
  <2>4. Modulus * r = 0 - Modulus * q - Modulus
    BY <1>2, <2>2, <2>3
  <2>5. Modulus * q \in Int /\ Modulus * r \in Int
    BY <1>2
  <2>6. c = a + Modulus * r
    BY <1>1, <1>2, <2>1, <2>4, <2>5
  <2>7. c = a % Modulus
    BY <1>2, <2>6, RemainderIsOnly
  <2> QED BY <1>1, <1>4, <2>1, <2>7
<1> QED BY <1>3, <1>4

\* A multiple above a negative number is none below nought.
LEMMA MultipleIs ==
    ASSUME NEW m \in Nat \ {0}, NEW t \in Int
    PROVE  /\ m * t \in Int
           /\ t >= 1 => m * t >= m
           /\ t <= 0 - 1 => m * t <= 0 - m
           /\ t = 0 => m * t = 0
<1>1. ASSUME t >= 1 PROVE m * t >= m
  <2>1. m * t >= m * 1
    BY <1>1
  <2> QED BY <2>1
<1>2. ASSUME t <= 0 - 1 PROVE m * t <= 0 - m
  <2>1. PICK u \in Nat : u = 0 - t /\ u >= 1
    BY <1>2
  <2>2. m * u >= m * 1 /\ m * t = 0 - m * u
    BY <2>1
  <2> QED BY <2>2
<1> QED BY <1>1, <1>2

LEMMA DistanceAtMost ==
    ASSUME NEW h \in 0 .. (Modulus - 1), NEW c \in 0 .. (Modulus - 1), NEW e \in Nat,
           (h + e) % Modulus = c \/ (h - e) % Modulus = c
    PROVE  Distance(h, c) <= e
<1>1. PICK x \in 0 .. (Modulus - 1), q \in Int :
        /\ h - c = x + Modulus * q
        /\ Distance(h, c) = IF 2 * x < Modulus THEN x ELSE Modulus - x
  BY DistanceIs
<1>2. PICK m \in Nat \ {0} : m = Modulus
  BY HashAssumption
<1>3. CASE (h - e) % Modulus = c
  <2>1. PICK s \in Int : h - e = c + m * s
    <3>1. h - e \in Int
      OBVIOUS
    <3> QED BY <1>2, <1>3, <3>1, RemainderIs
  <2>2. PICK t \in Int : t = q - s
    OBVIOUS
  <2>3. m * t = m * q - m * s
    BY <2>2
  <2>4. m * q \in Int /\ m * s \in Int /\ m * t \in Int
    BY MultipleIs
  <2>5. x + m * t = e
    BY <1>1, <1>2, <2>1, <2>3, <2>4
  <2>6. x <= e
    <3>1. /\ t >= 1 => m * t >= m
          /\ t <= 0 - 1 => m * t <= 0 - m
          /\ t = 0 => m * t = 0
      BY MultipleIs
    <3> QED BY <1>2, <2>4, <2>5, <3>1
  <2> QED BY <1>1, <1>2, <2>6
<1>4. CASE (h + e) % Modulus = c
  <2>1. PICK s \in Int : h + e = c + m * s
    <3>1. h + e \in Int
      OBVIOUS
    <3> QED BY <1>2, <1>4, <3>1, RemainderIs
  <2>2. PICK t \in Int : t = s - q
    OBVIOUS
  <2>3. m * t = m * s - m * q
    BY <2>2
  <2>4. m * q \in Int /\ m * s \in Int /\ m * t \in Int
    BY MultipleIs
  <2>5. x + e = m * t
    BY <1>1, <1>2, <2>1, <2>3, <2>4
  <2>6. /\ t >= 1 => m * t >= m
        /\ t <= 0 - 1 => m * t <= 0 - m
        /\ t = 0 => m * t = 0
    BY MultipleIs
  <2>7. m - x <= e \/ x = 0
    BY <1>2, <2>4, <2>5, <2>6
  <2> QED BY <1>1, <1>2, <2>7
<1> QED BY <1>3, <1>4

-----------------------------------------------------------------------------
(* What a scan has passed by.                                                *)

\* Where a scan goes on without a least distance, no code is near enough.
LEMMA ScansOnIs ==
    ASSUME Types, Place, Scanned, pc = "scan", ScansOn, ~ Nearest
    PROVE  \A c \in DOMAIN TheNode.hashes :
            Distance(state.hash, c) > DifferenceAt(state.currentDepth)
<1>1. Walking
  BY DEF Walking
<1>2. state.hash \in 0 .. (Modulus - 1) /\ state.allowedDifference \in Nat
  BY DEF Types, StateSet
<1>3. \A c \in DOMAIN TheNode.hashes : c \in 0 .. (Modulus - 1)
  BY <1>1, HereIs, CodesAre
<1>4. DifferenceAt(state.currentDepth) = IF WithDifference THEN state.allowedDifference ELSE 0
  <2>1. state.currentDepth \in Nat /\ state.breakDepth \in Nat
    BY DEF Types, StateSet
  <2> QED BY <1>2, <2>1 DEF DifferenceAt, WithDifference, IsTolerant
<1> TAKE c \in DOMAIN TheNode.hashes
<1>5. PICK d \in Nat : d = Distance(state.hash, c)
  <2>1. state.hash \in Int /\ c \in Int
    BY <1>2, <1>3
  <2> QED BY <2>1, DistanceIsNumber
<1>6. CASE TheNode.isBinary
  <2>1. ~ WithDifference /\ state.hash # Code /\ c = Code
    BY <1>1, <1>6, CodeIs DEF Nearest, ScansOn
  <2>2. ~ (d <= 0)
    BY <1>2, <1>3, <1>5, <2>1, NoDistance
  <2> QED BY <1>4, <1>5, <2>1, <2>2
<1>7. CASE ~ TheNode.isBinary
  <2> DEFINE e == IF WithDifference THEN state.allowedDifference ELSE 0
  <2>1. Near = {}
    BY <1>7 DEF ScansOn
  <2>2. ASSUME d <= e PROVE FALSE
    <3>1. d \in 0 .. e
      BY <1>2, <1>5, <2>2
    <3>2. Above(d) = c \/ Below(d) = c
      BY <1>2, <1>3, <1>5, DistanceReaches DEF Above, Below
    <3>3. {Above(d), Below(d)} \cap DOMAIN TheNode.hashes # {}
      BY <3>2
    <3> HIDE DEF e
    <3>4. d \in Near
      BY <3>1, <3>3 DEF Near, e
    <3> QED BY <2>1, <3>4
  <2> QED BY <1>2, <1>4, <1>5, <2>2
<1> QED BY <1>6, <1>7

LEMMA PassedStep ==
    ASSUME Types, Place, Allowances, Scanned, Passed, Next
    PROVE  Passed'
<1>0. call' = call /\ state \in StateSet
  BY CallStays DEF Types
<1>1. CASE SetInitialHash
  <2>0. pc = "evaluate" /\ Walking /\ pc' = "scan"
    BY <1>1 DEF SetInitialHash, Walking
  <2>1. /\ state'.hash = SubstringHash(SearchedFirst, TheNode.length)
        /\ state'.currentIndex = SearchedFirst
        /\ \E a, b, c, h, p : state' = [state EXCEPT !.firstIndex = a, !.lastIndex = b,
                                    !.currentIndex = c, !.hash = h, !.power = p]
    BY <1>1, SetInitialHashIs
  <2>2. /\ state'.node = state.node
        /\ state'.allowedDifference = state.allowedDifference
        /\ state'.allowedDrift = state.allowedDrift
        /\ state'.breakDepth = state.breakDepth /\ state'.currentDepth = state.currentDepth
    BY <1>0, <2>1 DEF StateSet
  <2>3. initial' = [first |-> state.firstIndex, last |-> state.lastIndex]
    BY <1>1 DEF SetInitialHash
  <2>4. TheNode' = TheNode /\ Code' = Code
    BY <1>0, <2>2 DEF TheNode, Node, Code
  <2>5. From' = SearchedFirst /\ (Nearest <=> Nearest')
    BY <2>2, <2>3, <2>4 DEF From, SearchedFirst, Extends, WithDrift, Nearest,
                            WithDifference, IsTolerant, Greater
  <2>6. PICK i, n, c : i \in Nat /\ i = SearchedFirst /\ n = TheNode.length /\ c = Code
    BY <2>0, SearchedIs
  <2>7. SubstringHash(i, n)' = SubstringHash(i, n)
    BY <1>0, HashStays
  <2>8. Apart(i, c)' = Distance(SubstringHash(i, n), c)
    BY <2>4, <2>6, <2>7 DEF Apart, Distance, Signed
  <2>9. CASE Nearest
    <3>1. distance' = Distance(SubstringHash(i, n), c)
      BY <1>1, <2>6, <2>9 DEF SetInitialHash, Nearest
    <3>2. Code' = c /\ From' = i /\ state'.currentIndex = i
      BY <2>1, <2>4, <2>5, <2>6
    <3>3. distance' = Apart(i, c)'
      BY <2>8, <3>1
    <3>4. Apart(i, c)' \in Int
      <4>1. distance' \in Nat
        BY <1>1, SetInitialHashIs
      <4> QED BY <3>3, <4>1
    <3>5. \A k \in i .. i : k = i
      OBVIOUS
    <3> QED BY <2>5, <2>6, <2>9, <3>2, <3>3, <3>4, <3>5 DEF Passed
  <2>10. CASE ~ Nearest
    <3>1. From' .. (state'.currentIndex - 1) = {}
      BY <2>1, <2>5, <2>6
    <3> QED BY <2>5, <2>10, <3>1 DEF Passed
  <2> QED BY <2>9, <2>10
<1>2. CASE AdvanceHash
  <2>0. pc = "scan" /\ Walking /\ ScansOn /\ initial' = initial
    BY <1>2 DEF AdvanceHash, Walking
  <2>1. /\ state.currentIndex \in Nat
        /\ state'.currentIndex = state.currentIndex + 1
        /\ state'.hash = SubstringHash(state.currentIndex + 1, TheNode.length)
        /\ \E c, h : state' = [state EXCEPT !.hash = h, !.currentIndex = c]
    BY <1>2, AdvanceHashIs
  <2>2. /\ state'.node = state.node
        /\ state'.allowedDifference = state.allowedDifference
        /\ state'.allowedDrift = state.allowedDrift
        /\ state'.breakDepth = state.breakDepth /\ state'.currentDepth = state.currentDepth
    BY <1>0, <2>1 DEF StateSet
  <2>3. TheNode' = TheNode /\ Code' = Code
    BY <1>0, <2>2 DEF TheNode, Node, Code
  <2>4. /\ From' = From /\ (Nearest <=> Nearest')
        /\ DifferenceAt(state.currentDepth)' = DifferenceAt(state.currentDepth)
    BY <2>0, <2>2, <2>3 DEF From, Extends, WithDrift, Nearest, WithDifference, IsTolerant,
                            Greater, DifferenceAt
  <2>5. PICK s, n, f, t :
            /\ s \in Nat /\ f \in Int
            /\ s = state.currentIndex /\ n = TheNode.length /\ f = From
            /\ t = DifferenceAt(state.currentDepth)
    <3>1. From \in Int
      BY <2>0, HereIs DEF From, Greater, Types, StateSet
    <3> QED BY <2>1, <3>1
  <2>6. ASSUME NEW i, NEW c PROVE Apart(i, c)' = Apart(i, c) /\ Apart(i, c) = Distance(SubstringHash(i, n), c)
    <3>1. SubstringHash(i, n)' = SubstringHash(i, n)
      BY <1>0, HashStays
    <3> QED BY <2>3, <2>5, <3>1 DEF Apart, Distance, Signed
  <2>7. f <= s
    BY <2>0, <2>5 DEF Scanned
  <2>8. state'.currentIndex = s + 1 /\ From' = f /\ DifferenceAt(state.currentDepth)' = t
    BY <2>1, <2>4, <2>5
  <2>9. CASE Nearest
    <3>1. PICK c : c = Code
      OBVIOUS
    <3>2. PICK d \in Nat, e \in Nat : d = distance /\ e = Apart(s + 1, c)
      <4>1. state'.hash \in Int /\ Code \in Int
        <5>1. state' \in StateSet
          BY <1>2, AdvanceHashIs
        <5>2. state'.hash \in 0 .. (Modulus - 1)
          BY <5>1 DEF StateSet
        <5>3. Code \in 0 .. (Modulus - 1)
          BY <2>0, <2>9, CodeIs DEF Nearest
        <5> QED BY <5>2, <5>3
      <4>2. Distance(state'.hash, Code) \in Nat
        BY <4>1, DistanceIsNumber
      <4> QED BY <2>1, <2>5, <2>6, <3>1, <4>2 DEF Types
    <3>3. /\ \A i \in f .. s : d <= Apart(i, c)
          /\ \E i \in f .. s : d = Apart(i, c)
      BY <2>0, <2>5, <2>9, <3>1, <3>2 DEF Passed
    <3>4. distance' = Lesser(d, e)
      <4>1. RolledHash = state'.hash
        BY <1>0, <1>2 DEF AdvanceHash, StateSet
      <4>2. distance' = Lesser(distance, Distance(RolledHash, Code))
        BY <1>2, <2>9 DEF AdvanceHash, Nearest
      <4>3. Distance(state'.hash, Code) = e
        BY <2>1, <2>5, <2>6, <3>1, <3>2
      <4> QED BY <3>2, <4>1, <4>2, <4>3
    <3>5. \A i \in f .. (s + 1) : i \in f .. s \/ i = s + 1
      BY <2>5, <2>7
    <3>6. ASSUME NEW i \in f .. (s + 1) PROVE distance' <= Apart(i, c)'
      <4>1. CASE i \in f .. s
        <5>1. d <= Apart(i, c) /\ distance' <= d
          BY <3>2, <3>3, <3>4, <4>1 DEF Lesser
        <5>2. Apart(i, c) \in Int
          <6>1. Walking /\ i \in Nat /\ c \in Int /\ n \in Nat \ {0} /\ n = TheNode.length
            <7>1. f \in Nat
              BY <2>0, <2>5, HereIs DEF From, Greater, Types, StateSet
            <7> QED BY <2>0, <2>5, <2>9, <3>1, <4>1, <7>1, CodeIs, HereIs, CodesAre DEF Nearest
          <6>2. i + n <= Size
            <7>1. s + n <= Size
              BY <2>0, <2>5 DEF Scanned
            <7> QED BY <2>5, <4>1, <6>1, <7>1, SizeIsNumber
          <6>3. SubstringHash(i, n) \in Int
            BY <6>1, <6>2, HashIsCode
          <6> QED BY <2>6, <6>1, <6>3, DistanceIsNumber
        <5>3. distance' \in Int
          BY <3>2, <3>4 DEF Lesser
        <5> QED BY <2>6, <3>2, <5>1, <5>2, <5>3
      <4>2. CASE i = s + 1
        BY <2>6, <3>2, <3>4, <4>2 DEF Lesser
      <4> QED BY <3>5, <4>1, <4>2
    <3>7. \E i \in f .. (s + 1) : distance' = Apart(i, c)'
      <4>1. CASE distance' = d
        <5>1. PICK i \in f .. s : d = Apart(i, c)
          BY <3>3
        <5>2. i \in f .. (s + 1)
          BY <2>5
        <5> QED BY <2>6, <4>1, <5>1, <5>2
      <4>2. CASE distance' = e
        <5>1. s + 1 \in f .. (s + 1)
          BY <2>5, <2>7
        <5> QED BY <2>6, <3>2, <4>2, <5>1
      <4> QED BY <3>4, <4>1, <4>2 DEF Lesser
    <3>8. Code' = c
      BY <2>3, <3>1
    <3> QED BY <2>4, <2>8, <2>9, <3>6, <3>7, <3>8 DEF Passed
  <2>10. CASE ~ Nearest
    <3>1. \A i \in f .. (s - 1) : \A c \in DOMAIN TheNode.hashes : Apart(i, c) > t
      BY <2>0, <2>5, <2>10 DEF Passed
    <3>2. \A c \in DOMAIN TheNode.hashes : Apart(s, c) > t
      <4>1. \A c \in DOMAIN TheNode.hashes : Distance(state.hash, c) > t
        BY <2>0, <2>5, <2>10, ScansOnIs
      <4>2. state.hash = SubstringHash(s, n)
        BY <2>0, <2>5 DEF Scanned
      <4> QED BY <2>6, <4>1, <4>2
    <3>3. \A i \in f .. s : i \in f .. (s - 1) \/ i = s
      BY <2>5, <2>7
    <3>4. \A i \in f .. s : \A c \in DOMAIN TheNode.hashes : Apart(i, c)' > t
      BY <2>6, <3>1, <3>2, <3>3
    <3>5. (s + 1) - 1 = s
      BY <2>5
    <3> QED BY <2>3, <2>4, <2>8, <2>10, <3>4, <3>5 DEF Passed
  <2> QED BY <2>9, <2>10
<1>3. ASSUME pc' # "scan" PROVE Passed'
  BY <1>3 DEF Passed
<1>4. CASE WalkFromRoot \/ SetNoHash \/ ScanEnds \/ FollowToNode
  BY <1>3, <1>4 DEF WalkFromRoot, SetNoHash, ScanEnds, Unmatched, FollowToNode
<1>5. CASE NodeMatches
  BY <1>3, <1>5 DEF NodeMatches, ListNodeMatches, BinaryNodeMatches, BinaryNodeNearest, Matched
<1>6. CASE Between
  BY <1>3, <1>6, BetweenIs
<1> QED BY <1>1, <1>2, <1>4, <1>5, <1>6, StepsAre

-----------------------------------------------------------------------------
(* A walk along the chain.                                                   *)

\* What is done at a node stays there.
AtNode == SetInitialHash \/ SetNoHash \/ NodeMatches \/ AdvanceHash \/ ScanEnds

LEMMA AtNodeIs ==
    ASSUME Types, Place, Scanned, AtNode, call' = call
    PROVE  /\ Walking /\ Walking' /\ pc' \in {"scan", "follow"}
           /\ stage' = stage /\ pass' = pass /\ depth' = depth /\ exception' = exception
           /\ result' = result /\ Here' = Here /\ TheNode' = TheNode /\ state'.node = state.node
           /\ state'.currentDepth = state.currentDepth
           /\ state'.matchedNodes = state.matchedNodes
           /\ state'.allowedDifference = state.allowedDifference
           /\ state'.allowedDrift = state.allowedDrift
           /\ state'.breakDepth = state.breakDepth
<1>0. state \in StateSet
  BY DEF Types
<1>1. /\ Walking /\ Walking' /\ pc' \in {"scan", "follow"}
      /\ pc = "evaluate" \/ pc = "scan"
      /\ stage' = stage /\ pass' = pass /\ depth' = depth
      /\ exception' = exception /\ result' = result
      /\ initial' = IF pc = "evaluate" THEN [first |-> state.firstIndex, last |-> state.lastIndex]
                    ELSE initial
  <2>1. CASE SetInitialHash \/ SetNoHash
    BY <2>1 DEF SetInitialHash, SetNoHash, Walking, local
  <2>2. CASE AdvanceHash \/ ScanEnds
    BY <2>2 DEF AdvanceHash, ScanEnds, Unmatched, Walking, local
  <2>3. CASE NodeMatches
    <3>1. pc' = "follow"
      BY <2>3 DEF NodeMatches, ListNodeMatches, BinaryNodeMatches, BinaryNodeNearest, Matched
    <3> QED BY <2>3, <3>1, NodeMatchesIs DEF Walking, local
  <2> QED BY <2>1, <2>2, <2>3 DEF AtNode
<1>2. /\ state'.node = state.node
      /\ state'.currentDepth = state.currentDepth
      /\ state'.matchedNodes = state.matchedNodes
      /\ state'.allowedDifference = state.allowedDifference
      /\ state'.allowedDrift = state.allowedDrift
      /\ state'.breakDepth = state.breakDepth
  <2>1. CASE SetInitialHash
    BY <1>0, <2>1 DEF SetInitialHash, StateSet
  <2>2. CASE SetNoHash
    BY <1>0, <2>2 DEF SetNoHash, StateSet
  <2>3. CASE AdvanceHash
    BY <1>0, <2>3 DEF AdvanceHash, StateSet
  <2>4. CASE ScanEnds
    BY <2>4 DEF ScanEnds
  <2>5. CASE NodeMatches
    <3>1. PICK code, d : Matched(code, d)
      BY <2>5 DEF NodeMatches, ListNodeMatches, BinaryNodeMatches, BinaryNodeNearest
    <3> QED BY <1>0, <3>1 DEF Matched, StateSet
  <2> QED BY <2>1, <2>2, <2>3, <2>4, <2>5 DEF AtNode
<1>3. Here' = Here
  BY <1>1, <1>2 DEF Here
<1>4. TheNode' = TheNode
  BY <1>2 DEF TheNode, Node
<1> QED BY <1>1, <1>2, <1>3, <1>4

LEMMA ToleratesStays ==
    ASSUME call' = call, stage' = stage, NEW k,
           state'.allowedDifference = state.allowedDifference,
           state'.allowedDrift = state.allowedDrift,
           state'.breakDepth = state.breakDepth
    PROVE  Tolerates(k)' <=> Tolerates(k)
<1>1. PICK r, c, a, b : r = Root /\ c = Chain(r) /\ a = DriftAt(k) /\ b = DifferenceAt(k)
  OBVIOUS
<1>2. Root' = r /\ DriftAt(k)' = a /\ DifferenceAt(k)' = b
  BY <1>1 DEF Root, DriftAt, DifferenceAt
<1>3. Chain(r)' = c
  BY <1>1, ChainStays
<1>4. Accepts(c[k], a, b)' <=> Accepts(c[k], a, b)
  BY AcceptsStays
<1> QED BY <1>1, <1>2, <1>3, <1>4 DEF Tolerates

LEMMA DepthIs ==
    ASSUME Types, Place, Deepens, Walking
    PROVE  /\ state.currentDepth \in 0 .. (Nodes - 1)
           /\ state.currentDepth \in 0 .. Nodes /\ state.currentDepth + 1 \in 1 .. Nodes
<1>1. PICK rank \in Numberings(call.graph) : TRUE
  BY GraphIs, GraphsAssumption
<1>2. rank[state.node] \in 1 .. Nodes
  BY <1>1, HereIs DEF Numberings, Nodes
<1>3. state.currentDepth < rank[state.node] /\ state.currentDepth \in Nat
  BY <1>1 DEF Deepens, Types, StateSet
<1> QED BY <1>2, <1>3, NodesAre

LEMMA FollowToNodeIs ==
    ASSUME Types, Place, FollowToNode, ~ exception
    PROVE  /\ pc = "follow" /\ Walking /\ pc' = "evaluate"
           /\ offset > 0 /\ offset \in DOMAIN call.graph.nodes
           /\ Here' = [node |-> offset, first |-> initial.first + Node(offset).firstIndex,
                       last |-> initial.last + Node(offset).lastIndex]
           /\ state'.node = offset
<1>1. pc = "follow" /\ Walking /\ offset > 0 /\ pc' = "evaluate"
  BY DEF FollowToNode, Walking
<1>2. /\ Evaluated \in StateSet
      /\ Evaluated.firstIndex = initial.first /\ Evaluated.lastIndex = initial.last
  BY EvaluatedIs
<1>3. state' = [Evaluated EXCEPT !.node = offset,
                    !.firstIndex = initial.first + Node(offset).firstIndex,
                    !.lastIndex = initial.last + Node(offset).lastIndex]
  BY <1>2 DEF FollowToNode, StateSet
<1>4. /\ state'.node = offset /\ state'.firstIndex = initial.first + Node(offset).firstIndex
      /\ state'.lastIndex = initial.last + Node(offset).lastIndex
  BY <1>2, <1>3 DEF StateSet
<1> QED BY <1>1, <1>4, NextIs DEF Here

\* Where a step follows on, what it counts and what it leaves.
LEMMA FollowIs ==
    ASSUME Types, FollowToProfile \/ FollowToNode \/ FollowToNothing
    PROVE  /\ pc = "follow" /\ Walking /\ stage' = stage /\ pass' = pass /\ depth' = depth
           /\ result' = result
           /\ state'.currentDepth = state.currentDepth + 1
           /\ state'.matchedNodes = IF found THEN state.matchedNodes + 1 ELSE state.matchedNodes
           /\ state'.allowedDifference = state.allowedDifference
           /\ state'.allowedDrift = state.allowedDrift
           /\ state'.breakDepth = state.breakDepth
<1>1. /\ Evaluated \in StateSet
      /\ Evaluated.currentDepth = state.currentDepth + 1
      /\ Evaluated.matchedNodes = IF found THEN state.matchedNodes + 1 ELSE state.matchedNodes
      /\ Evaluated.allowedDifference = state.allowedDifference
      /\ Evaluated.allowedDrift = state.allowedDrift
      /\ Evaluated.breakDepth = state.breakDepth
  BY EvaluatedIs
<1>2. CASE FollowToProfile
  BY <1>1, <1>2 DEF FollowToProfile, local, Walking, StateSet
<1>3. CASE FollowToNode
  BY <1>1, <1>3 DEF FollowToNode, local, Walking, StateSet
<1>4. CASE FollowToNothing
  BY <1>1, <1>4 DEF FollowToNothing, local, Walking, StateSet
<1> QED BY <1>2, <1>3, <1>4

LEMMA WalkFromRootIs ==
    ASSUME Types, WalkFromRoot
    PROVE  /\ Here' = Entry(call.graph, Root) /\ state'.node = Root /\ state'.currentDepth = 0
           /\ pc' = "evaluate" /\ Walking'
<1>1. state \in StateSet
  BY DEF Types
<1>2. /\ state'.node = Root /\ state'.firstIndex = Node(Root).firstIndex
      /\ state'.lastIndex = Node(Root).lastIndex /\ state'.currentDepth = 0
  BY <1>1 DEF WalkFromRoot, StateSet
<1>3. pc' = "evaluate" /\ Walking'
  BY DEF WalkFromRoot, Walking
<1>4. Here' = [node |-> Root, first |-> Node(Root).firstIndex, last |-> Node(Root).lastIndex]
  BY <1>2, <1>3 DEF Here
<1> QED BY <1>2, <1>3, <1>4 DEF Entry, Node

LEMMA DeepensStep ==
    ASSUME Types, Place, Scanned, Deepens, Next
    PROVE  Deepens'
<1>0. call' = call
  BY CallStays
<1>1. CASE WalkFromRoot
  <2>1. \A rank \in Numberings(call.graph) : rank[Root] \in 1 .. Cardinality(DOMAIN call.graph.nodes)
    BY GraphIs DEF Numberings
  <2>2. \A rank \in Numberings(call.graph) : 0 < rank[Root]
    BY <2>1
  <2>3. state'.node = Root /\ state'.currentDepth = 0
    BY <1>1, WalkFromRootIs
  <2> QED BY <1>0, <2>2, <2>3 DEF Deepens
<1>2. CASE AtNode
  <2>1. Walking /\ state'.node = state.node /\ state'.currentDepth = state.currentDepth
    BY <1>0, <1>2, AtNodeIs
  <2> QED BY <1>0, <2>1 DEF Deepens
<1>3. CASE FollowToNode
  <2>1. CASE exception
    BY <1>3, <2>1 DEF FollowToNode, Deepens, Walking
  <2>2. CASE ~ exception
    <3>1. /\ pc = "follow" /\ Walking /\ offset > 0 /\ offset \in DOMAIN call.graph.nodes
          /\ state'.node = offset
      BY <1>3, <2>2, FollowToNodeIs
    <3>2. offset \in OffsetsOf(call.graph.nodes[state.node]) \cap DOMAIN call.graph.nodes
      BY <3>1 DEF Place, TheNode, Node
    <3>3. state'.currentDepth = state.currentDepth + 1 /\ state.currentDepth \in Nat
      BY <1>3, FollowIs DEF Types, StateSet
    <3>4. ASSUME NEW rank \in Numberings(call.graph)
          PROVE  state.currentDepth + 1 < rank[offset]
      <4>1. state.node \in DOMAIN call.graph.nodes
        BY <3>1, HereIs
      <4>2. state.currentDepth < rank[state.node] /\ rank[state.node] < rank[offset]
        BY <3>1, <3>2, <4>1 DEF Deepens, Numberings
      <4>3. rank[state.node] \in Int /\ rank[offset] \in Int
        BY <3>1, <4>1 DEF Numberings
      <4> QED BY <3>3, <4>2, <4>3
    <3> QED BY <1>0, <3>1, <3>3, <3>4 DEF Deepens
  <2> QED BY <2>1, <2>2
<1>4. CASE Between
  BY <1>4, BetweenIs DEF Deepens
<1> QED BY <1>1, <1>2, <1>3, <1>4, StepsAre DEF AtNode

\* The tolerances of a node are those that its range is searched with.
LEMMA TolerancesAre ==
    ASSUME Types
    PROVE  /\ DifferenceAt(state.currentDepth)
                = IF WithDifference THEN state.allowedDifference ELSE 0
           /\ DriftAt(state.currentDepth)
                = IF WithDrift /\ ~ WithDifference THEN state.allowedDrift ELSE 0
           /\ DifferenceAt(state.currentDepth) \in Nat /\ DriftAt(state.currentDepth) \in Nat
<1>1. /\ state.currentDepth \in Nat /\ state.breakDepth \in Nat
      /\ state.allowedDifference \in Nat /\ state.allowedDrift \in Nat
  BY DEF Types, StateSet
<1> QED BY <1>1 DEF DifferenceAt, DriftAt, WithDifference, WithDrift, IsTolerant

\* A scan that ends without a match has no substring to be accepted.
LEMMA ScanEndsIs ==
    ASSUME Types, Place, Scanned, Passed, ScanEnds
    PROVE  ~ Accepts(Here, DriftAt(state.currentDepth), DifferenceAt(state.currentDepth))
<1>1. pc = "scan" /\ Walking /\ ScansOn /\ ~ CanAdvance
  BY DEF ScanEnds, Walking
<1>2. PICK n, s, d, e, z :
        /\ n = TheNode.length /\ n \in Nat \ {0}
        /\ s = state.currentIndex /\ s \in Int
        /\ d = DriftAt(state.currentDepth) /\ d \in Nat
        /\ e = DifferenceAt(state.currentDepth) /\ e \in Nat
        /\ z = Size /\ z \in Nat
  BY <1>1, HereIs, CodesAre, TolerancesAre, SizeIsNumber DEF Types, StateSet
<1>3. /\ Here.first = initial.first /\ Here.last = initial.last /\ Here.node = state.node
      /\ initial.first \in Nat /\ initial.last \in Nat /\ Node(Here.node) = TheNode
  BY <1>1, HereIs DEF TheNode
<1>4. /\ From = Greater(initial.first - d, 0)
      /\ To = IF Extends THEN Lesser(initial.last + d, z - 1) ELSE initial.last + d
      /\ From \in Nat /\ To \in Int
  <2>1. d = IF Extends THEN state.allowedDrift ELSE 0
    BY <1>2, TolerancesAre DEF Extends
  <2> QED BY <1>2, <1>3, <2>1 DEF From, To, Greater, Lesser
<1>5. ASSUME NEW i \in Greater(initial.first - d, 0) .. (initial.last + d), i + n <= z
      PROVE  i \in From .. s
  <2>1. i \in From .. To
    <3>1. i \in From .. (initial.last + d)
      BY <1>4, <1>5
    <3>2. i \in Int /\ i >= From /\ i <= initial.last + d
      BY <1>2, <1>3, <1>4, <3>1
    <3>3. i <= z - 1
      BY <1>2, <1>5, <3>2
    <3>4. i <= To
      BY <1>2, <1>3, <1>4, <3>2, <3>3 DEF Lesser
    <3> QED BY <1>4, <3>2, <3>4
  <2>2. s >= To \/ s + n >= z
    <3>1. state.lastIndex = To
      BY <1>1 DEF Scanned
    <3> QED BY <1>1, <1>2, <1>4, <3>1 DEF CanAdvance
  <2> QED BY <1>2, <1>4, <1>5, <2>1, <2>2
<1>6. ASSUME NEW i \in From .. s, i + n <= z, NEW c \in DOMAIN TheNode.hashes
      PROVE  Distance(SubstringHash(i, n), c) > e
  <2>1. Apart(i, c) = Distance(SubstringHash(i, n), c)
    BY <1>2 DEF Apart
  <2>2. CASE Nearest
    <3>1. c = Code
      BY <1>1, <2>2, CodeIs DEF Nearest
    <3>2. distance <= Apart(i, c)
      BY <1>1, <1>2, <2>2, <3>1 DEF Passed
    <3>3. Signed(distance) > e
      BY <1>2, <2>2, TolerancesAre DEF ScanEnds, Nearest
    <3>4. PICK x \in Int : x = Signed(distance) /\ x <= distance
      <4>1. distance \in Nat
        BY DEF Types
      <4>2. PICK y \in Nat : y = distance % Modulus /\ y <= distance
        <5>1. PICK m \in Nat \ {0} : m = Modulus
          BY HashAssumption
        <5>2. (distance % m) \in 0 .. (m - 1) /\ (distance \div m) \in Int
          BY <4>1
        <5>3. distance = (distance % m) + m * (distance \div m)
          BY <4>1
        <5>4. PICK y \in 0 .. (m - 1), t \in Int, D \in Nat :
                y = (distance % m) /\ t = (distance \div m) /\ D = distance
          BY <4>1, <5>2
        <5>5. D = y + m * t
          BY <5>3, <5>4
        <5>6. /\ m * t \in Int /\ (t >= 1 => m * t >= m) /\ (t <= 0 - 1 => m * t <= 0 - m)
              /\ (t = 0 => m * t = 0)
          BY MultipleIs
        <5>7. y <= D
          BY <5>5, <5>6
        <5> QED BY <5>1, <5>4, <5>7
      <4>3. Signed(distance) = IF 2 * y < Modulus THEN y ELSE y - Modulus
        BY <4>2 DEF Signed
      <4> QED BY <4>1, <4>2, <4>3, HashAssumption
    <3>5. Apart(i, c) \in Int
      <4>1. c \in Int /\ i \in Nat /\ n \in Nat /\ i + n <= Size
        <5>1. c \in 0 .. (Modulus - 1)
          BY <1>1, HereIs, CodesAre
        <5> QED BY <1>2, <1>4, <1>6, <5>1
      <4>2. SubstringHash(i, n) \in Int
        BY <4>1, HashIsCode
      <4> QED BY <2>1, <4>1, <4>2, DistanceIsNumber
    <3>6. distance \in Nat
      BY DEF Types
    <3> QED BY <1>2, <2>1, <3>2, <3>3, <3>4, <3>5, <3>6
  <2>3. CASE ~ Nearest
    <3>1. CASE i = s
      <4>1. Distance(state.hash, c) > e
        BY <1>1, <1>2, <2>3, ScansOnIs
      <4>2. state.hash = SubstringHash(s, n)
        BY <1>1, <1>2 DEF Scanned
      <4> QED BY <3>1, <4>1, <4>2
    <3>2. CASE i # s
      <4>1. i \in From .. (s - 1)
        BY <1>2, <1>4, <3>2
      <4> QED BY <1>1, <1>2, <2>1, <2>3, <4>1 DEF Passed
    <3> QED BY <3>1, <3>2
  <2> QED BY <2>2, <2>3
<1>7. ASSUME NEW i \in Greater(initial.first - d, 0) .. (initial.last + d), i + n <= z,
             NEW c \in DOMAIN TheNode.hashes, Distance(SubstringHash(i, n), c) <= e
      PROVE  FALSE
  <2>1. i \in From .. s
    BY <1>5, <1>7
  <2>2. Distance(SubstringHash(i, n), c) > e
    BY <1>6, <1>7, <2>1
  <2>3. PICK x \in Int : x = Distance(SubstringHash(i, n), c)
    <3>1. c \in Int /\ i \in Nat /\ n \in Nat /\ i + n <= Size
      <4>1. c \in 0 .. (Modulus - 1)
        BY <1>1, HereIs, CodesAre
      <4> QED BY <1>2, <1>4, <1>7, <2>1, <4>1
    <3>2. SubstringHash(i, n) \in Int
      BY <3>1, HashIsCode
    <3>3. Distance(SubstringHash(i, n), c) \in Int
      BY <3>1, <3>2, DistanceIsNumber
    <3> QED BY <3>3
  <2> QED BY <1>2, <1>7, <2>2, <2>3
<1> QED BY <1>2, <1>3, <1>7 DEF Accepts

\* Nor has a User-Agent that is too short for a node.
LEMMA SetNoHashIs ==
    ASSUME Types, Place, SetNoHash
    PROVE  ~ Accepts(Here, DriftAt(state.currentDepth), DifferenceAt(state.currentDepth))
<1>1. pc = "evaluate" /\ Walking /\ SearchedFirst + TheNode.length > Size
  BY DEF SetNoHash, Walking
<1>2. PICK n, d, z :
        /\ n = TheNode.length /\ n \in Nat \ {0}
        /\ d = DriftAt(state.currentDepth) /\ d \in Nat
        /\ z = Size /\ z \in Nat
  BY <1>1, HereIs, CodesAre, TolerancesAre, SizeIsNumber
<1>3. /\ Here.first = state.firstIndex /\ Here.last = state.lastIndex /\ Here.node = state.node
      /\ state.firstIndex \in Nat /\ state.lastIndex \in Nat /\ Node(Here.node) = TheNode
  BY <1>1, HereIs DEF TheNode
<1>4. SearchedFirst = Greater(state.firstIndex - d, 0) /\ SearchedFirst \in Nat
  BY <1>2, <1>3, TolerancesAre DEF SearchedFirst, Greater
<1>5. ASSUME NEW i \in Greater(state.firstIndex - d, 0) .. (state.lastIndex + d), i + n <= z
      PROVE  FALSE
  BY <1>1, <1>2, <1>4, <1>5
<1> QED BY <1>2, <1>3, <1>5 DEF Accepts

\* The chain of the root that is searched.
LEMMA RootIs ==
    ASSUME Types, NEW c, c = Chain(Root)
    PROVE  /\ Root \in {call.graph.performance, call.graph.predictive}
           /\ DOMAIN c = 0 .. Nodes /\ c \in [0 .. Nodes -> LinkSet]
           /\ c[0] = Entry(call.graph, Root)
           /\ \A k \in 1 .. Nodes :
                c[k] = IF c[k - 1].node <= 0 THEN c[k - 1] ELSE NextLink(c[k - 1])
<1>1. Root \in {call.graph.performance, call.graph.predictive}
  BY DEF Root
<1>2. /\ Chain(Root) \in [0 .. Nodes -> LinkSet]
      /\ Chain(Root)[0] = Entry(call.graph, Root)
      /\ \A k \in 1 .. Nodes :
            Chain(Root)[k] =
                IF Chain(Root)[k - 1].node <= 0 THEN Chain(Root)[k - 1]
                ELSE NextLink(Chain(Root)[k - 1])
  BY <1>1, ChainIs
<1> QED BY <1>1, <1>2

LEMMA RootStays ==
    ASSUME call' = call, stage' = stage, NEW c, c = Chain(Root)
    PROVE  Root' = Root /\ Chain(Root)' = c
<1>1. PICK r : r = Root
  OBVIOUS
<1>2. Root' = r
  BY <1>1 DEF Root
<1>3. Chain(r)' = Chain(r)
  BY ChainStays
<1> QED BY <1>1, <1>2, <1>3

LEMMA FollowsStep ==
    ASSUME Types, Place, Scanned, Passed, Deepens, Follows, Next
    PROVE  Follows'
<1>0. call' = call
  BY CallStays
<1>1. CASE WalkFromRoot
  <2>1. stage' = stage
    BY <1>1 DEF WalkFromRoot
  <2>2. PICK c : c = Chain(Root)
    OBVIOUS
  <2>3. Chain(Root)' = c /\ c[0] = Entry(call.graph, Root)
    BY <1>0, <2>1, <2>2, RootStays, RootIs
  <2>4. Here' = Entry(call.graph, Root) /\ state'.currentDepth = 0 /\ pc' = "evaluate"
    BY <1>1, WalkFromRootIs
  <2> QED BY <2>3, <2>4 DEF Follows
<1>2. CASE AtNode
  <2>1. /\ Walking /\ pc' \in {"scan", "follow"} /\ stage' = stage
        /\ Here' = Here /\ TheNode' = TheNode
        /\ state'.currentDepth = state.currentDepth
        /\ state'.matchedNodes = state.matchedNodes
        /\ state'.allowedDifference = state.allowedDifference
        /\ state'.allowedDrift = state.allowedDrift
        /\ state'.breakDepth = state.breakDepth
    BY <1>0, <1>2, AtNodeIs
  <2> SUFFICES ASSUME state.matchedNodes = 0 PROVE Follows'
    BY <2>1 DEF Follows
  <2>2. PICK c, d : c = Chain(Root) /\ d = state.currentDepth
    OBVIOUS
  <2>3. c[d] = Here /\ \A k \in 0 .. (d - 1) : ~ Tolerates(k)
    BY <2>1, <2>2 DEF Follows
  <2>4. \A k : Tolerates(k)' <=> Tolerates(k)
    BY <1>0, <2>1, ToleratesStays
  <2>5. Chain(Root)' = c
    BY <1>0, <2>1, <2>2, RootStays
  <2>6. ASSUME pc' = "follow", ~ found'
        PROVE  ~ Tolerates(d) /\ offset' = TheNode.unmatchedNodeOffset
    <3>1. CASE SetNoHash
      <4>1. ~ Tolerates(d)
        BY <2>2, <2>3, <3>1, SetNoHashIs DEF Tolerates
      <4> QED BY <2>6, <3>1, <4>1 DEF SetNoHash
    <3>2. CASE ScanEnds
      <4>1. ~ Tolerates(d)
        BY <2>2, <2>3, <3>2, ScanEndsIs DEF Tolerates
      <4> QED BY <3>2, <4>1 DEF ScanEnds, Unmatched
    <3>3. CASE SetInitialHash
      BY <2>6, <3>3 DEF SetInitialHash
    <3>4. CASE AdvanceHash
      <4>1. pc = "scan" /\ pc' = pc
        BY <3>4 DEF AdvanceHash
      <4> QED BY <2>6, <4>1
    <3>5. CASE NodeMatches
      <4>1. found' = TRUE
        BY <3>5 DEF NodeMatches, ListNodeMatches, BinaryNodeMatches, BinaryNodeNearest, Matched
      <4> QED BY <2>6, <4>1
    <3> QED BY <1>2, <3>1, <3>2, <3>3, <3>4, <3>5 DEF AtNode
  <2>7. state'.currentDepth = d
    BY <2>1, <2>2
  <2> QED BY <2>1, <2>3, <2>4, <2>5, <2>6, <2>7 DEF Follows
<1>3. CASE FollowToNode
  <2>1. CASE exception
    BY <1>3, <2>1 DEF FollowToNode, Follows, Walking
  <2>2. CASE ~ exception
    <3>1. /\ pc = "follow" /\ Walking /\ pc' = "evaluate" /\ offset > 0
          /\ Here' = [node |-> offset, first |-> initial.first + Node(offset).firstIndex,
                      last |-> initial.last + Node(offset).lastIndex]
      BY <1>3, <2>2, FollowToNodeIs
    <3>2. /\ stage' = stage
          /\ state'.currentDepth = state.currentDepth + 1
          /\ state'.matchedNodes = IF found THEN state.matchedNodes + 1 ELSE state.matchedNodes
          /\ state'.allowedDifference = state.allowedDifference
          /\ state'.allowedDrift = state.allowedDrift
          /\ state'.breakDepth = state.breakDepth
      BY <1>3, FollowIs
    <3> SUFFICES ASSUME ~ found, state.matchedNodes = 0 PROVE Follows'
      <4>1. state.matchedNodes \in Nat
        BY DEF Types, StateSet
      <4> QED BY <3>2, <4>1 DEF Follows
    <3>3. PICK c, d : c = Chain(Root) /\ d = state.currentDepth
      OBVIOUS
    <3>4. /\ c[d] = Here /\ offset = TheNode.unmatchedNodeOffset
          /\ \A k \in 0 .. (d - 1) : ~ Tolerates(k)
          /\ ~ Tolerates(d)
      BY <3>1, <3>3 DEF Follows
    <3>5. d \in 0 .. Nodes /\ d + 1 \in 1 .. Nodes /\ (d + 1) - 1 = d
      BY <3>1, <3>3, DepthIs
    <3>6. /\ Here.node = state.node /\ Here.node > 0 /\ Node(Here.node) = TheNode
          /\ Here.first = initial.first /\ Here.last = initial.last
      BY <3>1, HereIs DEF TheNode
    <3>7. c[d + 1] = NextLink(Here)
      <4>1. ~ (Here.node <= 0)
        BY <3>1, <3>6, HereIs
      <4>2. c[d + 1] = IF c[(d + 1) - 1].node <= 0 THEN c[(d + 1) - 1]
                       ELSE NextLink(c[(d + 1) - 1])
        BY <3>3, <3>5, RootIs
      <4> QED BY <3>4, <3>5, <4>1, <4>2
    <3>8. NextLink(Here) = [node |-> offset, first |-> initial.first + Node(offset).firstIndex,
                            last |-> initial.last + Node(offset).lastIndex]
      BY <3>1, <3>4, <3>6 DEF NextLink
    <3>9. \A k \in 0 .. ((d + 1) - 1) : ~ Tolerates(k)
      <4>1. \A k \in 0 .. ((d + 1) - 1) : k \in 0 .. (d - 1) \/ k = d
        BY <3>5
      <4> QED BY <3>4, <4>1
    <3>10. \A k : Tolerates(k)' <=> Tolerates(k)
      BY <1>0, <3>2, ToleratesStays
    <3>11. Chain(Root)' = c
      BY <1>0, <3>2, <3>3, RootStays
    <3>12. Chain(Root)'[d + 1] = Here'
      BY <3>1, <3>7, <3>8, <3>11
    <3>13. state'.currentDepth = d + 1
      BY <3>2, <3>3
    <3> QED BY <3>1, <3>9, <3>10, <3>12, <3>13 DEF Follows
  <2> QED BY <2>1, <2>2
<1>4. CASE Between
  BY <1>4, BetweenIs DEF Follows
<1> QED BY <1>1, <1>2, <1>3, <1>4, StepsAre DEF AtNode

LEMMA UsedStep ==
    ASSUME Types, Place, Scanned, Used, Next
    PROVE  Used'
<1>0. call' = call /\ Config' = Config
  BY CallStays DEF Config
<1>1. CASE AtNode
  <2>1. stage' = stage /\ Trying
    BY <1>0, <1>1, AtNodeIs DEF Trying
  <2> QED BY <1>0, <2>1 DEF Used
<1>2. CASE FollowToProfile \/ FollowToNode \/ FollowToNothing
  <2>1. stage' = stage /\ Trying
    BY <1>2, FollowIs DEF Trying
  <2> QED BY <1>0, <2>1 DEF Used
<1>3. CASE SearchGraph
  BY <1>0, <1>3 DEF SearchGraph, Used
<1>4. CASE WalkFromRoot \/ WalkFails \/ TryShallower \/ TryNextPass
  BY <1>0, <1>4 DEF WalkFromRoot, WalkFails, TryShallower, TryNextPass, Used, Trying, local
<1>5. CASE GraphMatches \/ TryPredictiveGraph \/ NothingMatches
  BY <1>5 DEF GraphMatches, TryPredictiveGraph, NothingMatches, Used, Trying, Walking
<1> QED BY <1>1, <1>2, <1>3, <1>4, <1>5, StepsAre DEF AtNode, Between

-----------------------------------------------------------------------------
(* What is not found is not there.                                           *)

LEMMA MatchesStay ==
    ASSUME call' = call, NEW r
    PROVE  /\ MatchesExactly(r)' <=> MatchesExactly(r)
           /\ MatchesWithin(r, 0, Config.difference)' <=> MatchesWithin(r, 0, Config.difference)
           /\ MatchesWithin(r, Config.drift, 0)' <=> MatchesWithin(r, Config.drift, 0)
           /\ Matches(r)' <=> Matches(r)
<1>1. PICK c, a, b : c = Chain(r) /\ a = Config.difference /\ b = Config.drift
  OBVIOUS
<1>2. Chain(r)' = c /\ Config.difference' = a /\ Config.drift' = b
  BY <1>1, ChainStays DEF Config
<1>3. \A k : \A x, y : Accepts(c[k], x, y)' <=> Accepts(c[k], x, y)
  BY AcceptsStays
<1>4. MatchesExactly(r)' <=> MatchesExactly(r)
  BY <1>1, <1>2, <1>3 DEF MatchesExactly
<1>5. \A x, y : MatchesWithin(r, x, y)' <=> MatchesWithin(r, x, y)
  BY <1>1, <1>2, <1>3 DEF MatchesWithin
<1>6. MatchesWithin(r, 0, Config.difference)' <=> MatchesWithin(r, 0, Config.difference)
  BY <1>1, <1>2, <1>5
<1>7. MatchesWithin(r, Config.drift, 0)' <=> MatchesWithin(r, Config.drift, 0)
  BY <1>1, <1>2, <1>5
<1> QED BY <1>4, <1>6, <1>7 DEF Matches

LEMMA ExactlyMatched ==
    ASSUME Types, Place, Allowances, NodeMatches, pass = "exact"
    PROVE  state'.difference = Signed(state.difference + 0) /\ state'.drift = state.drift
<1>1. pc = "scan" /\ Trying
  BY NodeMatchesIs DEF Trying, Walking
<1>2. state.allowedDifference = 0 /\ state.allowedDrift = 0
  BY <1>1 DEF Allowances
<1>3. ~ WithDifference /\ ~ WithDrift
  BY <1>2 DEF WithDifference, WithDrift
<1>4. \E code : Matched(code, 0)
  <2>1. CASE ListNodeMatches
    <3>1. PICK d \in Near : \E code : Matched(code, d)
      BY <2>1 DEF ListNodeMatches
    <3>2. d = 0
      BY <1>3 DEF Near
    <3> QED BY <3>1, <3>2
  <2>2. CASE BinaryNodeMatches
    BY <2>2 DEF BinaryNodeMatches
  <2>3. CASE BinaryNodeNearest
    BY <1>3, <2>3 DEF BinaryNodeNearest
  <2> QED BY <2>1, <2>2, <2>3 DEF NodeMatches
<1>5. state \in StateSet
  BY DEF Types
<1> QED BY <1>3, <1>4, <1>5 DEF Matched, StateSet

\* The passes that are to come.
LEMMA LaterIs ==
    ASSUME Types, Deep >= 1
    PROVE  /\ Later \subseteq {2, 3, 4}
           /\ Passes[2] = "difference" /\ Passes[3] = "drift" /\ Passes[4] = "both"
           /\ 2 \in Later <=> pass = "exact" /\ Config.difference > 0
           /\ 3 \in Later <=> pass \in {"exact", "difference"} /\ Config.drift > 0
           /\ 4 \in Later <=> /\ pass \in {"exact", "difference", "drift"}
                              /\ Config.difference > 0 /\ Config.drift > 0
<1>1. /\ DOMAIN Passes = 1 .. 4
      /\ Passes[1] = "exact" /\ Passes[2] = "difference" /\ Passes[3] = "drift"
      /\ Passes[4] = "both"
  BY DEF Passes
<1>2. pass \in {"exact", "difference", "drift", "both"} /\ Deep > 0
  <2>1. Deep \in Nat
    BY DEF Deep, Types, StateSet
  <2> QED BY <2>1 DEF Types
<1>3. \A i \in 1 .. 4 : i \in Later <=>
        (\E j \in 1 .. (i - 1) : Passes[j] = pass) /\ IsConfigured(Passes[i])
  BY <1>1, <1>2 DEF Later
<1>4. /\ IsConfigured("difference") <=> Config.difference > 0
      /\ IsConfigured("drift") <=> Config.drift > 0
      /\ IsConfigured("both") <=> Config.difference > 0 /\ Config.drift > 0
  BY DEF IsConfigured
<1>5. /\ \A j \in 1 .. (1 - 1) : FALSE
      /\ \A j \in 1 .. (2 - 1) : j = 1
      /\ \A j \in 1 .. (3 - 1) : j = 1 \/ j = 2
      /\ \A j \in 1 .. (4 - 1) : j = 1 \/ j = 2 \/ j = 3
      /\ 1 \in 1 .. (2 - 1) /\ 1 \in 1 .. (3 - 1) /\ 2 \in 1 .. (3 - 1)
      /\ 1 \in 1 .. (4 - 1) /\ 2 \in 1 .. (4 - 1) /\ 3 \in 1 .. (4 - 1)
  OBVIOUS
<1>6. 1 \notin Later
  BY <1>3, <1>5
<1>7. Later \subseteq 1 .. 4
  BY <1>1 DEF Later
<1>8. Later \subseteq {2, 3, 4}
  BY <1>6, <1>7
<1>9. 2 \in Later <=> pass = "exact" /\ Config.difference > 0
  <2>1. (\E j \in 1 .. (2 - 1) : Passes[j] = pass) <=> pass = "exact"
    BY <1>1, <1>5
  <2> QED BY <1>1, <1>3, <1>4, <2>1
<1>10. 3 \in Later <=> pass \in {"exact", "difference"} /\ Config.drift > 0
  <2>1. (\E j \in 1 .. (3 - 1) : Passes[j] = pass) <=> pass \in {"exact", "difference"}
    BY <1>1, <1>5
  <2> QED BY <1>1, <1>3, <1>4, <2>1
<1>11. 4 \in Later <=> /\ pass \in {"exact", "difference", "drift"}
                       /\ Config.difference > 0 /\ Config.drift > 0
  <2>1. (\E j \in 1 .. (4 - 1) : Passes[j] = pass)
            <=> pass \in {"exact", "difference", "drift"}
    BY <1>1, <1>5
  <2> QED BY <1>1, <1>3, <1>4, <2>1
<1> QED BY <1>1, <1>8, <1>9, <1>10, <1>11

\* A tolerance of nought is none.
LEMMA NoTolerance ==
    ASSUME NEW r, ~ MatchesExactly(r)
    PROVE  ~ MatchesWithin(r, 0, 0)
BY DEF MatchesExactly, MatchesWithin

\* What a pass that is over has not found.
LEMMA PassMissed ==
    ASSUME Types, Allowances, Clean, Missed, pc = "walked", ~ exception, IsPassOver
    PROVE  /\ Deep >= 1
           /\ ~ MatchesExactly(Root)
           /\ pass # "exact" => ~ MatchesWithin(Root, 0, Config.difference)
           /\ pass \in {"drift", "both"} => ~ MatchesWithin(Root, Config.drift, 0)
<1>1. state.matchedNodes = 0
  <2>1. previously = 0 /\ ~ (state.matchedNodes > previously)
    BY DEF Clean, IsPassOver, WalkMatched, Walking
  <2> QED BY <2>1 DEF Types, StateSet
<1>2. Trying /\ \A k \in DOMAIN Chain(Root) : ~ Tolerates(k)
  BY <1>1 DEF Missed, Trying
<1>3. Deep >= 1
  BY DEF Missed
<1>4. /\ state.allowedDifference = IF pass \in {"difference", "both"} THEN Config.difference ELSE 0
      /\ state.allowedDrift = IF pass \in {"drift", "both"} THEN Config.drift ELSE 0
      /\ IsConfigured(pass)
      /\ pass # "exact" => state.breakDepth >= 1
  BY <1>2 DEF Allowances
<1>5. DOMAIN Chain(Root) = 0 .. Nodes
  <2>1. PICK c : c = Chain(Root)
    OBVIOUS
  <2> QED BY <2>1, RootIs
<1>6. CASE pass = "exact"
  <2>1. \A k : DifferenceAt(k) = 0 /\ DriftAt(k) = 0
    BY <1>4, <1>6 DEF DifferenceAt, DriftAt
  <2>2. ~ MatchesExactly(Root)
    BY <1>2, <2>1 DEF MatchesExactly, Tolerates
  <2> QED BY <1>3, <1>6, <2>2
<1>7. CASE pass # "exact"
  <2>1. ~ MatchesExactly(Root)
    BY <1>2, <1>7 DEF Missed
  <2>2. state.breakDepth = 1
    <3>1. state.breakDepth \in Nat /\ state.breakDepth <= 1 /\ state.breakDepth >= 1
      BY <1>4, <1>7 DEF IsPassOver, Types, StateSet
    <3> QED BY <3>1
  <2>3. \A k \in DOMAIN Chain(Root) \ {0} : k >= state.breakDepth
    BY <1>5, <2>2
  <2>4. CASE pass = "difference"
    <3>1. /\ state.allowedDifference = Config.difference /\ Config.difference > 0
      BY <1>4, <2>4 DEF IsConfigured
    <3>2. \A k \in DOMAIN Chain(Root) \ {0} :
            DifferenceAt(k) = Config.difference /\ DriftAt(k) = 0
      BY <2>3, <3>1, GraphIs DEF DifferenceAt, DriftAt, IsConfig
    <3>3. ~ MatchesWithin(Root, 0, Config.difference)
      BY <1>2, <3>2 DEF MatchesWithin, Tolerates
    <3> QED BY <1>3, <2>1, <2>4, <3>3
  <2>5. CASE pass = "drift"
    <3>1. /\ state.allowedDifference = 0 /\ state.allowedDrift = Config.drift
      BY <1>4, <2>5
    <3>2. \A k \in DOMAIN Chain(Root) \ {0} :
            DifferenceAt(k) = 0 /\ DriftAt(k) = Config.drift
      BY <2>3, <3>1 DEF DifferenceAt, DriftAt
    <3>3. ~ MatchesWithin(Root, Config.drift, 0)
      BY <1>2, <3>2 DEF MatchesWithin, Tolerates
    <3>4. ~ MatchesWithin(Root, 0, Config.difference)
      BY <1>2, <2>5 DEF Missed
    <3> QED BY <1>3, <2>1, <2>5, <3>3, <3>4
  <2>6. CASE pass = "both"
    BY <1>2, <1>3, <2>1, <2>6 DEF Missed
  <2> QED BY <1>7, <2>4, <2>5, <2>6 DEF Types
<1> QED BY <1>6, <1>7

\* What a graph that is given up does not hold.
LEMMA GraphMissed ==
    ASSUME Types, Allowances, Clean, Missed, pc = "walked", ~ exception, IsPassOver, Later = {}
    PROVE  ~ Matches(Root)
<1>1. /\ Deep >= 1 /\ ~ MatchesExactly(Root)
      /\ pass # "exact" => ~ MatchesWithin(Root, 0, Config.difference)
      /\ pass \in {"drift", "both"} => ~ MatchesWithin(Root, Config.drift, 0)
  BY PassMissed
<1>2. Config.difference \in Nat /\ Config.drift \in Nat
  BY GraphIs DEF IsConfig
<1>3. ~ MatchesWithin(Root, 0, 0)
  BY <1>1, NoTolerance
<1>4. pass = "exact" => ~ MatchesWithin(Root, 0, Config.difference)
  <2>1. pass = "exact" => ~ (Config.difference > 0)
    BY <1>1, LaterIs
  <2>2. pass = "exact" => Config.difference = 0
    BY <1>2, <2>1
  <2> QED BY <1>3, <2>2
<1>5. pass \in {"exact", "difference"} => ~ MatchesWithin(Root, Config.drift, 0)
  <2>1. pass \in {"exact", "difference"} => ~ (Config.drift > 0)
    BY <1>1, LaterIs
  <2>2. pass \in {"exact", "difference"} => Config.drift = 0
    BY <1>2, <2>1
  <2> QED BY <1>3, <2>2
<1> QED BY <1>1, <1>4, <1>5 DEF Matches, Types

\* A walk that ends without a match has come to the end of the chain.
LEMMA WalkMissed ==
    ASSUME Types, Place, Deepens, Follows, FollowToProfile, ~ found, state.matchedNodes = 0
    PROVE  \A k \in DOMAIN Chain(Root) : ~ Tolerates(k)
<1>1. pc = "follow" /\ Walking /\ offset <= 0
  BY DEF FollowToProfile, Walking
<1>2. PICK c, d : c = Chain(Root) /\ d = state.currentDepth
  OBVIOUS
<1>3. /\ c[d] = Here /\ offset = TheNode.unmatchedNodeOffset
      /\ \A k \in 0 .. (d - 1) : ~ Tolerates(k)
      /\ ~ Tolerates(d)
  BY <1>1, <1>2 DEF Follows
<1>4. d \in 0 .. Nodes /\ d + 1 \in 1 .. Nodes /\ d + 1 \in 0 .. Nodes /\ (d + 1) - 1 = d
      /\ Nodes \in Nat
  BY <1>1, <1>2, DepthIs, NodesAre
<1>5. Here.node = state.node /\ ~ (Here.node <= 0) /\ Node(Here.node) = TheNode
  BY <1>1, HereIs DEF TheNode
<1>6. c[d + 1] = NextLink(Here)
  <2>1. c[d + 1] = IF c[(d + 1) - 1].node <= 0 THEN c[(d + 1) - 1]
                   ELSE NextLink(c[(d + 1) - 1])
    BY <1>2, <1>4, RootIs
  <2> QED BY <1>3, <1>4, <1>5, <2>1
<1>7. c[d + 1].node <= 0
  BY <1>1, <1>3, <1>5, <1>6 DEF NextLink
<1>8. \A k \in (d + 1) .. Nodes : c[k].node <= 0
  BY <1>2, <1>4, <1>7, ChainStops, RootIs
<1>9. \A k \in (d + 1) .. Nodes : ~ Tolerates(k)
  <2> TAKE k \in (d + 1) .. Nodes
  <2>1. c[k].node <= 0 /\ c[k].node \in Int
    <3>1. k \in 0 .. Nodes
      BY <1>4
    <3> QED BY <1>2, <1>8, <3>1, RootIs DEF LinkSet
  <2> QED BY <1>2, <2>1 DEF Tolerates, Accepts
<1>10. \A k \in 0 .. Nodes : k \in 0 .. (d - 1) \/ k = d \/ k \in (d + 1) .. Nodes
  BY <1>4
<1>11. DOMAIN Chain(Root) = 0 .. Nodes
  BY <1>2, RootIs
<1> QED BY <1>3, <1>9, <1>10, <1>11

LEMMA MissedStep ==
    ASSUME Types, Place, Allowances, Scanned, Clean, Deepens, Follows, Missed, Next
    PROVE  Missed'
<1>0. call' = call /\ Config' = Config /\ state \in StateSet
  BY CallStays DEF Types, Config
<1> SUFFICES ASSUME ~ exception' PROVE Missed'
  BY DEF Missed
<1>1. (~ Matches(call.graph.performance))' <=> ~ Matches(call.graph.performance)
  <2>1. PICK r : r = call.graph.performance
    OBVIOUS
  <2>2. Matches(r)' <=> Matches(r)
    BY <1>0, MatchesStay
  <2> QED BY <1>0, <2>1, <2>2
<1>2. ASSUME stage' = stage, pass' = pass, depth' = depth, Trying, ~ exception,
             pc' # "walked", pass = "exact" => state'.difference = 0 /\ state'.drift = 0
      PROVE  Missed'
  <2>1. PICK r, a, b : r = Root /\ a = Config.difference /\ b = Config.drift
    OBVIOUS
  <2>2. Root' = r /\ Config.difference' = a /\ Config.drift' = b
    BY <1>0, <1>2, <2>1 DEF Root
  <2>3. /\ MatchesExactly(r)' <=> MatchesExactly(r)
        /\ MatchesWithin(r, 0, a)' <=> MatchesWithin(r, 0, a)
        /\ MatchesWithin(r, b, 0)' <=> MatchesWithin(r, b, 0)
    <3>1. /\ MatchesExactly(r)' <=> MatchesExactly(r)
          /\ MatchesWithin(r, 0, Config.difference)' <=> MatchesWithin(r, 0, Config.difference)
          /\ MatchesWithin(r, Config.drift, 0)' <=> MatchesWithin(r, Config.drift, 0)
          /\ Matches(r)' <=> Matches(r)
      BY <1>0, MatchesStay
    <3> QED BY <2>1, <2>2, <3>1
  <2> QED BY <1>0, <1>1, <1>2, <2>1, <2>2, <2>3 DEF Missed
<1>3. CASE SearchGraph
  <2>1. ~ exception /\ pc = "graph" /\ pc' = "root" /\ pass' = "exact" /\ stage' = stage
        /\ state' = state
    BY <1>3 DEF SearchGraph
  <2>2. state.difference = 0 /\ state.drift = 0
    BY <2>1 DEF Clean, IsClean
  <2> QED BY <1>0, <1>1, <2>1, <2>2 DEF Missed
<1>4. CASE WalkFromRoot
  <2>1. ~ exception /\ Trying /\ pc' # "walked" /\ stage' = stage /\ pass' = pass /\ depth' = depth
    BY <1>4 DEF WalkFromRoot, Trying
  <2>2. state'.difference = state.difference /\ state'.drift = state.drift
    BY <1>0, <1>4 DEF WalkFromRoot, StateSet
  <2> QED BY <1>2, <2>1, <2>2 DEF Missed
<1>5. CASE WalkFails \/ FollowToNothing
  BY <1>5 DEF WalkFails, FollowToNothing
<1>6. CASE AtNode
  <2>1. /\ ~ exception /\ Trying /\ pc' # "walked"
        /\ stage' = stage /\ pass' = pass /\ depth' = depth
    BY <1>0, <1>6, AtNodeIs DEF Trying
  <2>2. pass = "exact" => state.difference = 0 /\ state.drift = 0
    BY <2>1 DEF Missed
  <2>3. CASE ~ NodeMatches
    BY <1>2, <2>1, <2>2, <2>3, DriftStays
  <2>4. CASE NodeMatches
    <3>1. pass = "exact" =>
            state'.difference = Signed(state.difference + 0) /\ state'.drift = state.drift
      BY <2>4, ExactlyMatched
    <3>2. Signed(0 + 0) = 0
      <4>1. 0 % Modulus = 0 /\ 0 + 0 = 0
        BY HashAssumption
      <4> QED BY <4>1, HashAssumption DEF Signed
    <3>3. pass = "exact" => state'.difference = 0 /\ state'.drift = 0
      BY <2>2, <3>1, <3>2
    <3> QED BY <1>2, <2>1, <3>3
  <2> QED BY <2>3, <2>4
<1>7. CASE FollowToNode
  <2>1. ~ exception
    BY <1>7 DEF FollowToNode
  <2>2. pc' = "evaluate" /\ pc' # "walked"
    BY <1>7, <2>1, FollowToNodeIs
  <2>3. Trying /\ stage' = stage /\ pass' = pass /\ depth' = depth
    BY <1>7, FollowIs DEF Trying
  <2>4. state'.difference = state.difference /\ state'.drift = state.drift
    <3>1. /\ Evaluated \in StateSet
          /\ Evaluated.difference = state.difference /\ Evaluated.drift = state.drift
      BY EvaluatedIs
    <3> QED BY <1>7, <3>1 DEF FollowToNode, StateSet
  <2> QED BY <1>2, <2>1, <2>2, <2>3, <2>4 DEF Missed
<1>8. CASE FollowToProfile
  <2>1. ~ exception /\ pc' = "walked" /\ pc = "follow" /\ Walking
    BY <1>8 DEF FollowToProfile, Walking
  <2>2. /\ Trying /\ stage' = stage /\ pass' = pass /\ depth' = depth
        /\ state'.currentDepth = state.currentDepth + 1
        /\ state'.matchedNodes = IF found THEN state.matchedNodes + 1 ELSE state.matchedNodes
        /\ state'.allowedDifference = state.allowedDifference
        /\ state'.allowedDrift = state.allowedDrift
        /\ state'.breakDepth = state.breakDepth
    BY <1>8, FollowIs DEF Trying
  <2>3. state'.difference = state.difference /\ state'.drift = state.drift
    <3>1. /\ Evaluated \in StateSet
          /\ Evaluated.difference = state.difference /\ Evaluated.drift = state.drift
      BY EvaluatedIs
    <3> QED BY <1>8, <3>1 DEF FollowToProfile, StateSet
  <2>4. PICK c, r, a, b : c = Chain(Root) /\ r = Root /\ a = Config.difference /\ b = Config.drift
    OBVIOUS
  <2>5. Chain(Root)' = c /\ Root' = r /\ Config.difference' = a /\ Config.drift' = b
    BY <1>0, <2>2, <2>4, RootStays
  <2>6. \A k : Tolerates(k)' <=> Tolerates(k)
    BY <1>0, <2>2, ToleratesStays
  <2>7. state'.matchedNodes = 0 => \A k \in DOMAIN c : ~ Tolerates(k)
    <3>1. state.matchedNodes \in Nat
      BY <1>0 DEF StateSet
    <3>2. state'.matchedNodes = 0 => ~ found /\ state.matchedNodes = 0
      BY <2>2, <3>1
    <3> QED BY <1>8, <2>4, <3>2, WalkMissed
  <2>8. Deep' >= 1
    <3>1. CASE pass = "exact"
      <4>1. state.currentDepth \in Nat
        BY <1>0 DEF StateSet
      <4> QED BY <2>2, <3>1, <4>1 DEF Deep
    <3>2. CASE pass # "exact"
      BY <2>1, <2>2, <3>2 DEF Deep, Missed
    <3> QED BY <3>1, <3>2
  <2>9. /\ MatchesExactly(r)' <=> MatchesExactly(r)
        /\ MatchesWithin(r, 0, a)' <=> MatchesWithin(r, 0, a)
        /\ MatchesWithin(r, b, 0)' <=> MatchesWithin(r, b, 0)
    <3>1. /\ MatchesExactly(r)' <=> MatchesExactly(r)
          /\ MatchesWithin(r, 0, Config.difference)' <=> MatchesWithin(r, 0, Config.difference)
          /\ MatchesWithin(r, Config.drift, 0)' <=> MatchesWithin(r, Config.drift, 0)
          /\ Matches(r)' <=> Matches(r)
      BY <1>0, MatchesStay
    <3> QED BY <2>4, <2>5, <3>1
  <2>10. /\ pass = "exact" => state.difference = 0 /\ state.drift = 0
         /\ pass # "exact" => ~ MatchesExactly(r) /\ depth >= 1
         /\ pass \in {"drift", "both"} => ~ MatchesWithin(r, 0, a)
         /\ pass = "both" => ~ MatchesWithin(r, b, 0)
         /\ stage = "predictive" /\ Config.usePerformanceGraph
                => ~ Matches(call.graph.performance)
    BY <2>1, <2>2, <2>4 DEF Missed
  <2> QED BY <1>0, <1>1, <2>1, <2>2, <2>3, <2>5, <2>6, <2>7, <2>8, <2>9, <2>10 DEF Missed
<1>9. CASE TryShallower
  <2>1. ~ exception /\ Trying /\ pc' = "root" /\ pc' # "walked" /\ stage' = stage /\ pass' = pass
        /\ depth' = depth /\ pass # "exact"
    BY <1>9 DEF TryShallower, Trying, local
  <2> QED BY <1>2, <2>1
<1>10. CASE TryNextPass
  <2>1. PICK i \in Later : (\A j \in Later : i <= j) /\ pass' = Passes[i]
    BY <1>10 DEF TryNextPass
  <2>2. /\ ~ exception /\ pc = "walked" /\ pc' = "root" /\ stage' = stage /\ depth' = Deep
        /\ IsPassOver
    BY <1>10 DEF TryNextPass
  <2>3. /\ Deep >= 1 /\ ~ MatchesExactly(Root)
        /\ pass # "exact" => ~ MatchesWithin(Root, 0, Config.difference)
        /\ pass \in {"drift", "both"} => ~ MatchesWithin(Root, Config.drift, 0)
    BY <2>2, PassMissed
  <2>4. Config.difference \in Nat /\ Config.drift \in Nat
    BY GraphIs DEF IsConfig
  <2>5. i \in {2, 3, 4} /\ pass' = IF i = 2 THEN "difference" ELSE IF i = 3 THEN "drift" ELSE "both"
    BY <2>1, <2>3, LaterIs
  <2>6. i # 2 => ~ MatchesWithin(Root, 0, Config.difference)
    <3>1. CASE pass = "exact"
      <4>1. i # 2 => 2 \notin Later
        BY <2>1, <2>5
      <4>2. i # 2 => ~ (Config.difference > 0)
        BY <2>3, <3>1, <4>1, LaterIs
      <4>3. i # 2 => Config.difference = 0
        BY <2>4, <4>2
      <4> QED BY <2>3, <4>3, NoTolerance
    <3>2. CASE pass # "exact"
      BY <2>3, <3>2
    <3> QED BY <3>1, <3>2
  <2>7. i = 4 => ~ MatchesWithin(Root, Config.drift, 0)
    <3>1. i = 4 => 3 \notin Later
      BY <2>1
    <3>2. i = 4 => Config.drift > 0
      BY <2>1, <2>3, LaterIs
    <3>3. i = 4 => pass \notin {"exact", "difference"}
      BY <2>3, <3>1, <3>2, LaterIs
    <3> QED BY <2>3, <3>3 DEF Types
  <2>8. PICK r, a, b : r = Root /\ a = Config.difference /\ b = Config.drift
    OBVIOUS
  <2>9. Root' = r /\ Config.difference' = a /\ Config.drift' = b
    BY <1>0, <2>2, <2>8 DEF Root
  <2>10. /\ MatchesExactly(r)' <=> MatchesExactly(r)
         /\ MatchesWithin(r, 0, a)' <=> MatchesWithin(r, 0, a)
         /\ MatchesWithin(r, b, 0)' <=> MatchesWithin(r, b, 0)
    <3>1. /\ MatchesExactly(r)' <=> MatchesExactly(r)
          /\ MatchesWithin(r, 0, Config.difference)' <=> MatchesWithin(r, 0, Config.difference)
          /\ MatchesWithin(r, Config.drift, 0)' <=> MatchesWithin(r, Config.drift, 0)
          /\ Matches(r)' <=> Matches(r)
      BY <1>0, MatchesStay
    <3> QED BY <2>8, <2>9, <3>1
  <2>11. /\ ~ MatchesExactly(r)
         /\ i # 2 => ~ MatchesWithin(r, 0, a)
         /\ i = 4 => ~ MatchesWithin(r, b, 0)
    BY <2>3, <2>6, <2>7, <2>8
  <2>12. /\ pass' # "exact"
         /\ pass' \in {"drift", "both"} => i # 2
         /\ pass' = "both" => i = 4
    BY <2>5
  <2>13. stage = "predictive" /\ Config.usePerformanceGraph => ~ Matches(call.graph.performance)
    BY <2>2 DEF Missed
  <2> QED BY <1>0, <1>1, <2>2, <2>3, <2>9, <2>10, <2>11, <2>12, <2>13 DEF Missed
<1>11. CASE GraphMatches \/ NothingMatches
  <2>1. ~ exception /\ stage' = stage /\ pc' = "done"
    BY <1>11 DEF GraphMatches, NothingMatches, local
  <2> QED BY <1>0, <1>1, <2>1 DEF Missed, Trying, Walking
<1>12. CASE TryPredictiveGraph
  <2>1. ~ exception /\ stage = "performance" /\ stage' = "predictive" /\ pc' = "graph"
    BY <1>12 DEF TryPredictiveGraph
  <2>2. Config.usePerformanceGraph => ~ Matches(call.graph.performance)
    <3>1. CASE pc = "graph"
      BY <1>12, <2>1, <3>1 DEF TryPredictiveGraph, HasNoMatch
    <3>2. CASE pc # "graph"
      <4>1. pc = "walked" /\ IsPassOver /\ Later = {}
        BY <1>12, <3>2 DEF TryPredictiveGraph, HasNoMatch
      <4>2. ~ Matches(Root)
        BY <2>1, <4>1, GraphMissed
      <4> QED BY <2>1, <4>2 DEF Root
    <3> QED BY <3>1, <3>2
  <2> QED BY <1>0, <1>1, <2>1, <2>2 DEF Missed, Trying, Walking
<1> QED BY <1>3, <1>4, <1>5, <1>6, <1>7, <1>8, <1>9, <1>10, <1>11, <1>12, StepsAre
        DEF Between, AtNode
-----------------------------------------------------------------------------
(* What is found is there.                                                   *)

\* A distance that is not half the range of a hash is read as it is.
LEMMA DistanceIsSigned ==
    ASSUME NEW h \in 0 .. (Modulus - 1), NEW c \in 0 .. (Modulus - 1),
           2 * Distance(h, c) # Modulus
    PROVE  Signed(Distance(h, c)) = Distance(h, c)
<1>1. PICK x \in 0 .. (Modulus - 1) :
        Distance(h, c) = IF 2 * x < Modulus THEN x ELSE Modulus - x
  BY DistanceIs
<1>2. PICK m \in Nat \ {0} : m = Modulus
  BY HashAssumption
<1>3. PICK d \in Nat : d = Distance(h, c) /\ 2 * d < m
  BY <1>1, <1>2
<1>4. (d % m) = d
  <2>1. PICK a \in Int, q \in Int, r \in 0 .. (m - 1) : a = d /\ q = 0 /\ r = d
    BY <1>3
  <2>2. r = a + m * q
    <3>1. m * q = 0
      BY <2>1
    <3> QED BY <2>1, <3>1
  <2>3. r = (a % m)
    BY <2>2, RemainderIsOnly
  <2> QED BY <2>1, <2>3
<1>5. Signed(d) = d
  BY <1>2, <1>3, <1>4 DEF Signed
<1> QED BY <1>3, <1>5

\* A scan that ends with a match has passed by a substring to be accepted.
LEMMA NodeAccepts ==
    ASSUME Types, Place, Scanned, Passed, NoOpposites, NodeMatches
    PROVE  Accepts(Here, DriftAt(state.currentDepth), DifferenceAt(state.currentDepth))
<1>1. pc = "scan" /\ Walking
  BY NodeMatchesIs DEF Walking
<1>2. PICK n, s, d, e, z :
        /\ n = TheNode.length /\ n \in Nat \ {0}
        /\ s = state.currentIndex /\ s \in Int
        /\ d = DriftAt(state.currentDepth) /\ d \in Nat
        /\ e = DifferenceAt(state.currentDepth) /\ e \in Nat
        /\ z = Size /\ z \in Nat
  BY <1>1, HereIs, CodesAre, TolerancesAre, SizeIsNumber DEF Types, StateSet
<1>3. /\ Here.first = initial.first /\ Here.last = initial.last /\ Here.node = state.node
      /\ initial.first \in Nat /\ initial.last \in Nat /\ initial.first <= initial.last
      /\ Node(Here.node) = TheNode /\ Here.node > 0
      /\ state.node \in DOMAIN call.graph.nodes
  BY <1>1, HereIs DEF TheNode
<1>4. /\ From = Greater(initial.first - d, 0) /\ From <= initial.first
      /\ To <= initial.last + d
      /\ From \in Nat /\ To \in Int
  <2>1. d = IF Extends THEN state.allowedDrift ELSE 0
    BY <1>2, TolerancesAre DEF Extends
  <2> QED BY <1>2, <1>3, <2>1 DEF From, To, Greater, Lesser
<1>5. s >= From /\ (s = From \/ s <= To) /\ s + n <= z /\ state.hash = SubstringHash(s, n)
  BY <1>1, <1>2 DEF Scanned
<1>6. ASSUME NEW i \in From .. s
      PROVE  i \in Greater(initial.first - d, 0) .. (initial.last + d) /\ i + n <= z
             /\ i \in 0 .. z
  BY <1>2, <1>3, <1>4, <1>5
<1>7. s \in From .. s
  BY <1>2, <1>4, <1>5
<1>8. state.hash \in 0 .. (Modulus - 1) /\ state.allowedDifference \in Nat
  BY DEF Types, StateSet
<1>9. \A c \in DOMAIN TheNode.hashes : c \in 0 .. (Modulus - 1)
  BY <1>1, HereIs, CodesAre
<1>10. \E i \in From .. s : \E c \in DOMAIN TheNode.hashes : Distance(SubstringHash(i, n), c) <= e
  <2>1. CASE ListNodeMatches
    <3>1. PICK f \in Near : TRUE
      BY <2>1 DEF ListNodeMatches
    <3>2. f \in Nat /\ f <= e /\ {Above(f), Below(f)} \cap DOMAIN TheNode.hashes # {}
      BY <1>2, <1>8, TolerancesAre DEF Near
    <3>3. PICK c \in DOMAIN TheNode.hashes : c = Above(f) \/ c = Below(f)
      BY <3>2
    <3>4. Distance(state.hash, c) <= f
      BY <1>8, <1>9, <3>2, <3>3, DistanceAtMost DEF Above, Below
    <3>5. Distance(state.hash, c) \in Nat
      <4>1. state.hash \in Int /\ c \in Int
        BY <1>8, <1>9
      <4> QED BY <4>1, DistanceIsNumber
    <3>6. Distance(state.hash, c) <= e
      BY <1>2, <3>2, <3>4, <3>5
    <3> QED BY <1>5, <1>7, <3>6
  <2>2. CASE BinaryNodeMatches
    <3>1. state.hash = Code /\ Code \in DOMAIN TheNode.hashes
      BY <1>1, <2>2, CodeIs DEF BinaryNodeMatches
    <3>2. Distance(state.hash, Code) <= 0
      BY <1>8, <1>9, <3>1, NoDistance
    <3>3. Distance(state.hash, Code) \in Nat
      <4>1. state.hash \in Int /\ Code \in Int
        BY <1>8, <1>9, <3>1
      <4> QED BY <4>1, DistanceIsNumber
    <3>4. Distance(state.hash, Code) <= e
      BY <1>2, <3>2, <3>3
    <3> QED BY <1>5, <1>7, <3>1, <3>4
  <2>3. CASE BinaryNodeNearest
    <3>1. Nearest /\ TheNode.isBinary /\ Signed(distance) <= e
      BY <1>2, <2>3, TolerancesAre DEF BinaryNodeNearest, Nearest
    <3>2. Code \in DOMAIN TheNode.hashes /\ Code \in 0 .. (Modulus - 1)
      BY <1>1, <3>1, CodeIs
    <3>3. PICK i \in From .. s : distance = Apart(i, Code)
      BY <1>1, <1>2, <3>1 DEF Passed
    <3>4. PICK h \in 0 .. (Modulus - 1) : h = SubstringHash(i, n)
      <4>1. i \in Nat /\ n \in Nat /\ i + n <= Size
        BY <1>2, <1>6
      <4> QED BY <4>1, HashIsCode
    <3>5. distance = Distance(h, Code)
      BY <1>2, <3>3, <3>4 DEF Apart
    <3>6. 2 * Distance(h, Code) # Modulus
      <4>1. i \in 0 .. Size /\ i + TheNode.length <= Size
        BY <1>2, <1>6
      <4>2. Node(state.node) = TheNode
        BY DEF TheNode
      <4> QED BY <1>2, <1>3, <3>1, <3>2, <3>4, <4>1, <4>2 DEF NoOpposites
    <3>7. Signed(distance) = distance
      BY <3>2, <3>5, <3>6, DistanceIsSigned
    <3> QED BY <3>1, <3>2, <3>4, <3>5, <3>7
  <2> QED BY <2>1, <2>2, <2>3 DEF NodeMatches
<1> QED BY <1>2, <1>3, <1>6, <1>10 DEF Accepts

\* What a walk accepts matches within one of the tolerances.
LEMMA WhatIsTolerated ==
    ASSUME Types, Place, Allowances, Deepens, Walking, Tolerates(state.currentDepth)
    PROVE  Matches(Root)
<1>1. PICK d : d = state.currentDepth
  OBVIOUS
<1>2. d \in DOMAIN Chain(Root) /\ d \in Nat /\ Accepts(Chain(Root)[d], DriftAt(d), DifferenceAt(d))
  <2>1. PICK c : c = Chain(Root)
    OBVIOUS
  <2>2. d \in 0 .. Nodes /\ DOMAIN Chain(Root) = 0 .. Nodes
    BY <1>1, <2>1, DepthIs, RootIs
  <2> QED BY <1>1, <2>2, NodesAre DEF Tolerates
<1>3. /\ state.allowedDifference = IF pass \in {"difference", "both"} THEN Config.difference ELSE 0
      /\ state.allowedDrift = IF pass \in {"drift", "both"} THEN Config.drift ELSE 0
      /\ IsConfigured(pass)
      /\ pass # "exact" => state.breakDepth >= 1
  BY DEF Allowances, Trying
<1>4. CASE DifferenceAt(d) = 0 /\ DriftAt(d) = 0
  BY <1>2, <1>4 DEF Matches, MatchesExactly
<1>5. CASE ~ (DifferenceAt(d) = 0 /\ DriftAt(d) = 0)
  <2>1. d >= state.breakDepth /\ pass # "exact"
    BY <1>3, <1>5 DEF DifferenceAt, DriftAt
  <2>2. d # 0
    <3>1. state.breakDepth \in Nat /\ state.breakDepth >= 1
      BY <1>3, <2>1 DEF Types, StateSet
    <3> QED BY <1>2, <2>1, <3>1
  <2>3. d \in DOMAIN Chain(Root) \ {0}
    BY <1>2, <2>2
  <2>4. CASE pass \in {"difference", "both"}
    <3>1. state.allowedDifference = Config.difference /\ Config.difference > 0
      BY <1>3, <2>4 DEF IsConfigured
    <3>2. Config.difference # 0
      BY <3>1, GraphIs DEF IsConfig
    <3>3. DifferenceAt(d) = Config.difference /\ DriftAt(d) = 0
      BY <2>1, <3>1, <3>2 DEF DifferenceAt, DriftAt
    <3>4. MatchesWithin(Root, 0, Config.difference)
      BY <1>2, <2>3, <3>3 DEF MatchesWithin
    <3> QED BY <3>4 DEF Matches
  <2>5. CASE pass = "drift"
    <3>1. state.allowedDifference = 0 /\ state.allowedDrift = Config.drift
      BY <1>3, <2>5
    <3>2. DifferenceAt(d) = 0 /\ DriftAt(d) = Config.drift
      BY <2>1, <3>1 DEF DifferenceAt, DriftAt
    <3>3. MatchesWithin(Root, Config.drift, 0)
      BY <1>2, <2>3, <3>2 DEF MatchesWithin
    <3> QED BY <3>3 DEF Matches
  <2> QED BY <2>1, <2>4, <2>5 DEF Types
<1> QED BY <1>4, <1>5

LEMMA OppositesStay ==
    ASSUME call' = call
    PROVE  NoOpposites' <=> NoOpposites
<1>1. \A i, n : SubstringHash(i, n)' = SubstringHash(i, n)
  BY HashStays
<1>2. \A h, c : Distance(h, c)' = Distance(h, c)
  BY DEF Distance, Signed
<1>3. Size' = Size
  BY DEF Size, UserAgent
<1> QED BY <1>1, <1>2, <1>3 DEF NoOpposites, Node

LEMMA EarnedStep ==
    ASSUME Types, Place, Allowances, Scanned, Clean, Passed, Deepens, Follows, Earned, Next
    PROVE  Earned'
<1>0. call' = call /\ state \in StateSet
  BY CallStays DEF Types
<1>1. NoOpposites' <=> NoOpposites
  BY <1>0, OppositesStay
<1> SUFFICES ASSUME NoZeroCodes, NoOpposites, ~ exception', Trying',
                    state'.matchedNodes > 0 \/ (pc' = "follow" /\ found')
             PROVE  Matches(Root)'
  BY <1>1 DEF Earned
<1>2. ASSUME Matches(Root), stage' = stage PROVE Matches(Root)'
  <2>1. PICK r : r = Root
    OBVIOUS
  <2>2. Root' = r
    BY <1>0, <1>2, <2>1 DEF Root
  <2>3. Matches(r)' <=> Matches(r)
    BY <1>0, MatchesStay
  <2> QED BY <1>2, <2>1, <2>2, <2>3
<1>3. ASSUME stage' = stage, ~ exception, Trying,
             state.matchedNodes > 0 \/ (pc = "follow" /\ found)
      PROVE  Matches(Root)'
  BY <1>2, <1>3 DEF Earned
<1>4. ASSUME pc \in {"graph", "root"}, ~ exception, state'.matchedNodes = state.matchedNodes,
             pc' # "follow"
      PROVE  FALSE
  <2>1. state.matchedNodes = 0
    BY <1>4 DEF Clean, IsClean
  <2> QED BY <1>4, <2>1
<1>5. ASSUME pc = "walked", ~ exception, ~ WalkMatched, state'.matchedNodes = state.matchedNodes,
             pc' # "follow"
      PROVE  FALSE
  <2>1. state.matchedNodes = 0
    <3>1. previously = 0 /\ ~ (state.matchedNodes > previously) /\ state.matchedNodes \in Nat
      BY <1>0, <1>5 DEF Clean, WalkMatched, Walking, StateSet
    <3> QED BY <3>1
  <2> QED BY <1>5, <2>1
<1>6. CASE SearchGraph
  <2>1. pc = "graph" /\ ~ exception /\ state' = state /\ pc' = "root"
    BY <1>6 DEF SearchGraph
  <2> QED BY <1>4, <2>1
<1>7. CASE WalkFromRoot
  <2>1. pc = "root" /\ ~ exception /\ pc' = "evaluate"
    BY <1>7 DEF WalkFromRoot
  <2>2. state'.matchedNodes = state.matchedNodes
    BY <1>0, <1>7 DEF WalkFromRoot, StateSet
  <2> QED BY <1>4, <2>1, <2>2
<1>8. CASE WalkFails \/ FollowToNothing
  BY <1>8 DEF WalkFails, FollowToNothing
<1>9. CASE AtNode
  <2>1. /\ Walking /\ stage' = stage /\ ~ exception
        /\ state'.matchedNodes = state.matchedNodes
    BY <1>0, <1>9, AtNodeIs
  <2>2. CASE state.matchedNodes > 0
    BY <1>3, <2>1, <2>2 DEF Trying
  <2>3. CASE ~ (state.matchedNodes > 0)
    <3>1. state.matchedNodes = 0 /\ pc' = "follow" /\ found'
      BY <1>0, <2>1, <2>3 DEF StateSet
    <3>2. CASE NodeMatches
      <4>1. Chain(Root)[state.currentDepth] = Here
        BY <2>1, <3>1 DEF Follows
      <4>2. Tolerates(state.currentDepth)
        BY <3>2, <4>1, NodeAccepts DEF Tolerates
      <4>3. Matches(Root)
        BY <2>1, <4>2, WhatIsTolerated
      <4> QED BY <1>2, <2>1, <4>3
    <3>3. CASE SetNoHash
      <4>1. ~ (TheNode.isBinary /\ Code = 0)
        <5>1. ASSUME TheNode.isBinary, Code = 0 PROVE FALSE
          <6>1. 0 \in DOMAIN TheNode.hashes
            BY <2>1, <5>1, CodeIs
          <6>2. state.node \in DOMAIN call.graph.nodes /\ call.graph \in Graphs
            BY <2>1, HereIs, GraphIs
          <6> QED BY <5>1, <6>1, <6>2 DEF NoZeroCodes, TheNode, Node
        <5> QED BY <5>1
      <4> QED BY <3>1, <3>3, <4>1 DEF SetNoHash
    <3>4. CASE SetInitialHash \/ AdvanceHash \/ ScanEnds
      <4>1. CASE SetInitialHash
        BY <3>1, <4>1 DEF SetInitialHash
      <4>2. CASE AdvanceHash
        <5>1. pc = "scan" /\ pc' = pc
          BY <4>2 DEF AdvanceHash
        <5> QED BY <3>1, <5>1
      <4>3. CASE ScanEnds
        BY <3>1, <4>3 DEF ScanEnds, Unmatched
      <4> QED BY <3>4, <4>1, <4>2, <4>3
    <3> QED BY <1>9, <3>2, <3>3, <3>4 DEF AtNode
  <2> QED BY <2>2, <2>3
<1>10. CASE FollowToProfile \/ FollowToNode
  <2>1. /\ pc = "follow" /\ Walking /\ stage' = stage /\ pc' # "follow"
        /\ state'.matchedNodes = IF found THEN state.matchedNodes + 1 ELSE state.matchedNodes
    <3>1. pc' # "follow"
      BY <1>10 DEF FollowToProfile, FollowToNode
    <3> QED BY <1>10, <3>1, FollowIs
  <2>2. ~ exception
    BY <1>10 DEF FollowToProfile, FollowToNode
  <2>3. state.matchedNodes > 0 \/ found
    BY <2>1
  <2> QED BY <1>3, <2>1, <2>2, <2>3 DEF Trying
<1>11. CASE TryShallower \/ TryNextPass
  <2>1. /\ pc = "walked" /\ ~ exception /\ ~ WalkMatched /\ pc' = "root"
    <3>1. CASE TryShallower
      BY <3>1 DEF TryShallower
    <3>2. CASE TryNextPass
      BY <3>2 DEF TryNextPass, IsPassOver
    <3> QED BY <1>11, <3>1, <3>2
  <2>2. state'.matchedNodes = state.matchedNodes
    BY <1>0, <1>11 DEF TryShallower, TryNextPass, StateSet
  <2> QED BY <1>5, <2>1, <2>2
<1>12. CASE GraphMatches \/ TryPredictiveGraph \/ NothingMatches
  BY <1>12 DEF GraphMatches, TryPredictiveGraph, NothingMatches, Trying, Walking
<1> QED BY <1>6, <1>7, <1>8, <1>9, <1>10, <1>11, <1>12, StepsAre DEF Between, AtNode

-----------------------------------------------------------------------------
(* The answer is what the graphs hold.                                       *)

\* No step follows the last one.
LEMMA DoneIsLast == ASSUME Next PROVE pc # "done"
BY DEF Next, SearchGraph, WalkFromRoot, WalkFails, SetInitialHash, SetNoHash, ListNodeMatches,
       BinaryNodeMatches, BinaryNodeNearest, AdvanceHash, ScanEnds, FollowToProfile,
       FollowToNode, FollowToNothing, TryShallower, TryNextPass, GraphMatches,
       TryPredictiveGraph, NothingMatches, HasNoMatch

LEMMA AnsweredStep ==
    ASSUME Types, Place, Allowances, Scanned, Clean, Used, Missed, Earned, Answered, Next
    PROVE  Answered'
<1>0. call' = call /\ Config' = Config /\ state \in StateSet /\ result.method = "none"
  BY CallStays, DoneIsLast DEF Types, Config, Answered
<1>1. NoOpposites' <=> NoOpposites
  BY <1>0, OppositesStay
<1>2. PICK f, v, r : f = call.graph.performance /\ v = call.graph.predictive /\ r = Root
  OBVIOUS
<1>3. /\ call.graph.performance' = f /\ call.graph.predictive' = v
      /\ Config.usePerformanceGraph' = Config.usePerformanceGraph
      /\ Config.usePredictiveGraph' = Config.usePredictiveGraph
      /\ stage' = stage => Root' = r
  BY <1>0, <1>2 DEF Root
<1>4. /\ Matches(f)' <=> Matches(f)
      /\ Matches(v)' <=> Matches(v)
      /\ Matches(r)' <=> Matches(r)
      /\ MatchesExactly(r)' <=> MatchesExactly(r)
  <2>1. Matches(f)' <=> Matches(f)
    BY <1>0, MatchesStay
  <2>2. Matches(v)' <=> Matches(v)
    BY <1>0, MatchesStay
  <2>3. /\ Matches(r)' <=> Matches(r)
        /\ MatchesExactly(r)' <=> MatchesExactly(r)
    BY <1>0, MatchesStay
  <2> QED BY <2>1, <2>2, <2>3
<1>5. CASE GraphMatches
  <2>1. /\ pc = "walked" /\ WalkMatched /\ ~ exception /\ Trying
        /\ stage' = stage /\ pass = pass' /\ exception' = exception /\ pc' = "done"
    BY <1>5 DEF GraphMatches, WalkMatched, local, Trying
  <2>2. /\ result'.method = stage /\ result'.difference = state.difference
        /\ result'.drift = state.drift
    BY <1>5 DEF GraphMatches
  <2>3. stage \in {"performance", "predictive"}
    BY DEF Types
  <2>4. IF stage = "performance" THEN Config.usePerformanceGraph ELSE Config.usePredictiveGraph
    BY <2>1 DEF Used
  <2>5. stage = "predictive" => ~ (Config.usePerformanceGraph /\ Matches(f))
    BY <1>2, <2>1 DEF Missed
  <2>6. NoZeroCodes /\ NoOpposites => Matches(r)
    <3>1. state.matchedNodes > 0
      BY <1>0, <2>1 DEF WalkMatched, Types, StateSet
    <3> QED BY <1>2, <2>1, <3>1 DEF Earned
  <2>7. MatchesExactly(r) => state.difference = 0 /\ state.drift = 0
    BY <1>2, <2>1 DEF Missed
  <2>8. /\ result'.method # "none"
        /\ result'.method = "performance" => Config.usePerformanceGraph
        /\ result'.method = "predictive" =>
            Config.usePredictiveGraph /\ ~ (Config.usePerformanceGraph /\ Matches(f))
    BY <2>2, <2>3, <2>4, <2>5
  <2>9. result'.method = "predictive" =>
            (Config.usePredictiveGraph /\ ~ (Config.usePerformanceGraph /\ Matches(f)))'
    BY <1>3, <1>4, <2>8
  <2>10. Root' = r /\ (NoZeroCodes /\ NoOpposites' => Matches(r)')
    BY <1>1, <1>3, <1>4, <2>1, <2>6
  <2>11. MatchesExactly(r)' => result'.difference = 0 /\ result'.drift = 0
    BY <1>4, <2>2, <2>7
  <2>12. (NoZeroCodes /\ NoOpposites => Matches(Root))'
    BY <2>10
  <2>13. (MatchesExactly(Root) => result.difference = 0 /\ result.drift = 0)'
    BY <2>10, <2>11
  <2>14. (result.method = "performance" => Config.usePerformanceGraph)'
    BY <1>3, <2>8
  <2>15. (result.method = stage)' /\ (result.method # "none")'
    BY <2>1, <2>2, <2>8
  <2> QED BY <1>3, <2>1, <2>9, <2>12, <2>13, <2>14, <2>15 DEF Answered
<1>6. CASE NothingMatches
  <2> SUFFICES ASSUME ~ exception PROVE Answered'
    BY <1>6 DEF NothingMatches, Answered, HasEnded
  <2>1. /\ stage = "predictive" /\ stage' = stage /\ pc' = "done"
        /\ result'.method = "none"
    <3>1. result \in ResultSet
      BY DEF Types
    <3>2. result'.method = result.method
      BY <1>6, <3>1 DEF NothingMatches, ResultSet
    <3> QED BY <1>0, <1>6, <3>2 DEF NothingMatches, local
  <2>2. ~ (Config.usePerformanceGraph /\ Matches(f))
    BY <1>2, <2>1 DEF Missed
  <2>3. ~ (Config.usePredictiveGraph /\ Matches(v))
    <3>1. CASE pc = "graph"
      BY <1>6, <2>1, <3>1 DEF NothingMatches, HasNoMatch
    <3>2. CASE pc # "graph"
      <4>1. pc = "walked" /\ IsPassOver /\ Later = {}
        BY <1>6, <3>2 DEF NothingMatches, HasNoMatch
      <4>2. ~ Matches(Root)
        BY <4>1, GraphMissed
      <4> QED BY <1>2, <2>1, <4>2 DEF Root
    <3> QED BY <3>1, <3>2
  <2>4. (~ (Config.usePerformanceGraph /\ Matches(f)))'
    BY <1>3, <1>4, <2>2
  <2>5. (~ (Config.usePredictiveGraph /\ Matches(v)))'
    BY <1>3, <1>4, <2>3
  <2> QED BY <1>3, <2>1, <2>4, <2>5 DEF Answered, HasEnded
<1>7. CASE AtNode
  <2>1. result' = result /\ pc' \in {"scan", "follow"}
    BY <1>0, <1>7, AtNodeIs
  <2> QED BY <1>0, <2>1 DEF Answered, HasEnded
<1>8. CASE FollowToProfile \/ FollowToNode \/ FollowToNothing
  <2>1. result' = result /\ pc' # "done"
    BY <1>8 DEF FollowToProfile, FollowToNode, FollowToNothing
  <2> QED BY <1>0, <2>1 DEF Answered, HasEnded
<1>9. CASE SearchGraph \/ WalkFromRoot \/ WalkFails \/ TryShallower \/ TryNextPass
           \/ TryPredictiveGraph
  <2>1. result' = result /\ pc' # "done"
    BY <1>9 DEF SearchGraph, WalkFromRoot, WalkFails, TryShallower, TryNextPass,
                TryPredictiveGraph
  <2> QED BY <1>0, <2>1 DEF Answered, HasEnded
<1> QED BY <1>5, <1>6, <1>7, <1>8, <1>9, StepsAre DEF Between, AtNode
-----------------------------------------------------------------------------
(* The invariant.                                                            *)

LEMMA InitInvariant == Init => IInv
<1> SUFFICES ASSUME Init PROVE IInv
  OBVIOUS
<1>1. Types
  <2>1. call \in [userAgent : UserAgents, config : Configs, graph : Graphs]
    BY DEF Init
  <2>2. state \in StateSet
    <3>1. 0 \in 0 .. (Modulus - 1) /\ IntMax \in Nat
      BY HashAssumption DEF IntMax
    <3> HIDE DEF IntMax
    <3> QED BY <3>1 DEF Init, StateSet
  <2>3. result \in ResultSet
    <3>1. NullProfile \in Int
      BY DEF NullProfile
    <3> QED BY <3>1 DEF Init, ResultSet
  <2>4. initial \in [first : Int, last : Int]
    BY DEF Init
  <2> QED BY <2>1, <2>2, <2>3, <2>4 DEF Init, Types
<1>2. /\ pc = "graph" /\ stage = "performance" /\ ~ Walking /\ ~ Trying
      /\ state.allowedDifference = 0 /\ state.allowedDrift = 0
      /\ IsClean /\ items = 0 /\ result.method = "none"
  BY DEF Init, Walking, Trying, IsClean
<1>3. Bounded
  <2>1. Config.drift \in Nat /\ state.drift = 0
    BY <1>1, <1>2, GraphIs DEF IsConfig, IsClean
  <2> QED BY <2>1 DEF Bounded
<1>4. Place /\ Allowances /\ Scanned /\ Clean /\ ItemsHeld
  BY <1>2 DEF Place, Allowances, Scanned, Clean, ItemsHeld
<1>5. Located
  BY <1>2 DEF Located, IsClean
<1>6. Passed /\ Deepens /\ Follows /\ Used /\ Missed /\ Earned /\ Answered
  BY <1>2 DEF Passed, Deepens, Follows, Used, Missed, Earned, Answered, HasEnded
<1> QED BY <1>1, <1>3, <1>4, <1>5, <1>6 DEF IInv

\* Where nothing changes, nothing that is said of it does.
LEMMA Stutters ==
    ASSUME IInv, UNCHANGED vars
    PROVE  IInv'
<1>0. /\ call' = call /\ pc' = pc /\ stage' = stage /\ pass' = pass /\ depth' = depth
      /\ previously' = previously /\ found' = found /\ offset' = offset
      /\ distance' = distance /\ initial' = initial
      /\ matchedUserAgent' = matchedUserAgent /\ items' = items
      /\ exception' = exception /\ state' = state /\ result' = result
  BY DEF vars, local
<1>1. Types'
  BY <1>0 DEF IInv, Types
<1>2. Place' /\ Allowances'
  BY <1>0 DEF IInv, Place, Allowances, IsConfigured, Walking, Trying, Here, TheNode, Node,
               Config
<1>3. /\ TheNode' = TheNode /\ Code' = Code /\ WithDifference' = WithDifference
      /\ WithDrift' = WithDrift /\ Size' = Size /\ From' = From /\ To' = To
      /\ Nearest' = Nearest
  BY <1>0 DEF TheNode, Node, Code, WithDifference, WithDrift, IsTolerant, Size, UserAgent,
              From, To, Extends, Nearest
<1>4. \A i, n : SubstringHash(i, n)' = SubstringHash(i, n)
  BY <1>0, HashStays
<1>5. Scanned'
  <2>1. PICK h, p : h = SubstringHash(state.currentIndex, TheNode.length)
                    /\ p = Power(TheNode.length)
    OBVIOUS
  <2>2. SubstringHash(state.currentIndex, TheNode.length)' = h /\ Power(TheNode.length)' = p
    BY <1>0, <1>3, <2>1, <1>4, PowerStays
  <2> QED BY <1>0, <1>3, <2>1, <2>2 DEF IInv, Scanned
<1>6. Located' /\ Bounded' /\ Clean' /\ ItemsHeld'
  BY <1>0, <1>3 DEF IInv, Located, Bounded, Clean, ItemsHeld, IsClean, Walking, Config
<1>7. Passed'
  <2>1. \A i, c : Apart(i, c)' = Apart(i, c)
    BY <1>3, <1>4 DEF Apart, Distance, Signed
  <2>2. DifferenceAt(state.currentDepth)' = DifferenceAt(state.currentDepth)
    BY <1>0 DEF DifferenceAt
  <2> QED BY <1>0, <1>3, <2>1, <2>2 DEF IInv, Passed
<1>8. Deepens'
  BY <1>0 DEF IInv, Deepens, Walking
<1>9. Follows'
  <2>1. \A k : Tolerates(k)' <=> Tolerates(k)
    BY <1>0, ToleratesStays
  <2>2. Chain(Root)' = Chain(Root) /\ Here' = Here /\ Walking' = Walking
    BY <1>0, RootStays DEF Here, Walking
  <2> QED BY <1>0, <1>3, <2>1, <2>2 DEF IInv, Follows
<1>10. Used'
  BY <1>0 DEF IInv, Used, Trying, Walking, Config
<1>11. PICK f, v, r, a, b :
         /\ f = call.graph.performance /\ v = call.graph.predictive /\ r = Root
         /\ a = Config.difference /\ b = Config.drift
  OBVIOUS
<1>12. /\ call.graph.performance' = f /\ call.graph.predictive' = v /\ Root' = r
       /\ Config' = Config /\ Config.difference' = a /\ Config.drift' = b
       /\ Trying' = Trying /\ HasEnded' = HasEnded
  BY <1>0, <1>11 DEF Root, Config, Trying, Walking, HasEnded
<1>13. /\ Matches(f)' <=> Matches(f)
       /\ Matches(v)' <=> Matches(v)
       /\ Matches(r)' <=> Matches(r)
       /\ MatchesExactly(r)' <=> MatchesExactly(r)
       /\ MatchesWithin(r, 0, a)' <=> MatchesWithin(r, 0, a)
       /\ MatchesWithin(r, b, 0)' <=> MatchesWithin(r, b, 0)
  <2>1. Matches(f)' <=> Matches(f)
    BY <1>0, MatchesStay
  <2>2. Matches(v)' <=> Matches(v)
    BY <1>0, MatchesStay
  <2>3. /\ Matches(r)' <=> Matches(r)
        /\ MatchesExactly(r)' <=> MatchesExactly(r)
        /\ MatchesWithin(r, 0, Config.difference)' <=> MatchesWithin(r, 0, Config.difference)
        /\ MatchesWithin(r, Config.drift, 0)' <=> MatchesWithin(r, Config.drift, 0)
    BY <1>0, MatchesStay
  <2> QED BY <1>11, <1>12, <2>1, <2>2, <2>3
<1>14. Missed'
  <2>1. \A k : Tolerates(k)' <=> Tolerates(k)
    BY <1>0, ToleratesStays
  <2>2. Chain(Root)' = Chain(Root) /\ Deep' = Deep
    BY <1>0, RootStays DEF Deep
  <2>3. /\ MatchesExactly(Root)' <=> MatchesExactly(Root)
        /\ MatchesWithin(Root, 0, Config.difference)'
                <=> MatchesWithin(Root, 0, Config.difference)
        /\ MatchesWithin(Root, Config.drift, 0)' <=> MatchesWithin(Root, Config.drift, 0)
        /\ Matches(call.graph.performance)' <=> Matches(call.graph.performance)
    BY <1>11, <1>12, <1>13
  <2> QED BY <1>0, <1>12, <2>1, <2>2, <2>3 DEF IInv, Missed
<1>15. Earned'
  <2>1. Matches(Root)' <=> Matches(Root)
    BY <1>11, <1>12, <1>13
  <2>2. NoOpposites' <=> NoOpposites
    BY <1>0, OppositesStay
  <2> QED BY <1>0, <1>12, <2>1, <2>2 DEF IInv, Earned
<1>16. Answered'
  <2>1. /\ Matches(Root)' <=> Matches(Root)
        /\ MatchesExactly(Root)' <=> MatchesExactly(Root)
        /\ Matches(call.graph.performance)' <=> Matches(call.graph.performance)
        /\ Matches(call.graph.predictive)' <=> Matches(call.graph.predictive)
    BY <1>11, <1>12, <1>13
  <2>2. NoOpposites' <=> NoOpposites
    BY <1>0, OppositesStay
  <2> QED BY <1>0, <1>12, <2>1, <2>2 DEF IInv, Answered
<1> QED
  BY <1>1, <1>2, <1>5, <1>6, <1>7, <1>8, <1>9, <1>10, <1>14, <1>15, <1>16 DEF IInv

LEMMA NextInvariant == IInv /\ [Next]_vars => IInv'
<1> SUFFICES ASSUME IInv, [Next]_vars PROVE IInv'
  OBVIOUS
<1>1. CASE UNCHANGED vars
  BY <1>1, Stutters
<1>2. CASE Next
  <2>1. /\ Types /\ Place /\ Allowances /\ Scanned /\ Located /\ Bounded /\ Clean /\ ItemsHeld
        /\ Passed /\ Deepens /\ Follows /\ Used /\ Missed /\ Earned /\ Answered
    BY DEF IInv
  <2>2. Types' /\ Place' /\ Allowances' /\ ItemsHeld'
    BY <1>2, <2>1, TypesStep, PlaceStep, AllowancesStep, ItemsHeldStep
  <2>3. Scanned' /\ Bounded' /\ Located' /\ Clean'
    BY <1>2, <2>1, ScannedStep, BoundedStep, LocatedStep, CleanStep
  <2>4. Passed' /\ Deepens' /\ Follows' /\ Used'
    BY <1>2, <2>1, PassedStep, DeepensStep, FollowsStep, UsedStep
  <2>5. Missed' /\ Earned' /\ Answered'
    BY <1>2, <2>1, MissedStep, EarnedStep, AnsweredStep
  <2> QED BY <2>2, <2>3, <2>4, <2>5 DEF IInv
<1> QED BY <1>1, <1>2

\* All of it holds of every state of a detection.
THEOREM Invariant == Spec => []IInv
<1>1. Init => IInv
  BY InitInvariant
<1>2. IInv /\ [Next]_vars => IInv'
  BY NextInvariant
<1> QED BY <1>1, <1>2, PTL DEF Spec

\* A rolled hash is the hash of the substring at currentIndex, which lies
\* within the User-Agent, whatever has been rolled over.
THEOREM RolledHashIsOfSubstring ==
    Spec => [](pc = "scan" =>
                /\ state.currentIndex \in 0 .. (Size - TheNode.length)
                /\ state.hash = SubstringHash(state.currentIndex, TheNode.length))
<1>1. ASSUME IInv
      PROVE  pc = "scan" =>
                /\ state.currentIndex \in 0 .. (Size - TheNode.length)
                /\ state.hash = SubstringHash(state.currentIndex, TheNode.length)
  <2> SUFFICES ASSUME pc = "scan"
               PROVE  /\ state.currentIndex \in 0 .. (Size - TheNode.length)
                      /\ state.hash = SubstringHash(state.currentIndex, TheNode.length)
    OBVIOUS
  <2>1. state.currentIndex \in Nat /\ state.currentIndex + TheNode.length <= Size
    BY <1>1, ScanIsNear DEF IInv
  <2>2. TheNode.length \in Nat /\ Size \in Nat
    BY <1>1, HereIs, CodesAre, SizeIsNumber DEF IInv, Walking
  <2> QED BY <1>1, <2>1, <2>2 DEF IInv, Scanned
<1> QED BY <1>1, Invariant, PTL

\* HashIsOfSubstring: with it, what is copied to the matched User-Agent is of
\* the User-Agent, unless a code of zero matches a User-Agent that is too short.
THEOREM HashesAreOfSubstrings == Spec => [](NoZeroCodes => HashIsOfSubstring)
<1>1. IInv => (NoZeroCodes => HashIsOfSubstring)
  <2> SUFFICES ASSUME IInv, NoZeroCodes PROVE HashIsOfSubstring
    OBVIOUS
  <2>1. /\ Types /\ state \in StateSet /\ Place
    BY DEF IInv, Types
  <2>2. matchedUserAgent \subseteq 0 .. (Size - 1)
    BY DEF IInv, Located
  <2>3. pc \in {"evaluate", "scan", "follow"} => state.node \in DOMAIN call.graph.nodes
    BY <2>1, HereIs DEF Walking
  <2>4. \A m \in {"currentDepth", "breakDepth", "drift", "matchedNodes", "iterations",
                  "allowedDifference", "allowedDrift"} : state[m] \in Nat
    BY <2>1 DEF StateSet
  <2>5. state.hash \in 0 .. (Modulus - 1)
    BY <2>1 DEF StateSet
  <2>6. TypeOK
    BY <2>1, <2>2, <2>3, <2>4, <2>5 DEF Types, TypeOK
  <2>7. pc = "scan" =>
            /\ state.currentIndex \in 0 .. (Size - TheNode.length)
            /\ state.hash = SubstringHash(state.currentIndex, TheNode.length)
    <3> SUFFICES ASSUME pc = "scan"
                 PROVE  /\ state.currentIndex \in 0 .. (Size - TheNode.length)
                        /\ state.hash = SubstringHash(state.currentIndex, TheNode.length)
      OBVIOUS
    <3>1. state.currentIndex \in Nat /\ state.currentIndex + TheNode.length <= Size
      BY ScanIsNear DEF IInv
    <3>2. TheNode.length \in Nat /\ Size \in Nat
      BY HereIs, CodesAre, SizeIsNumber DEF IInv, Walking
    <3> QED BY <3>1, <3>2 DEF IInv, Scanned
  <2> QED BY <2>6, <2>7 DEF HashIsOfSubstring
<1> QED BY <1>1, Invariant, PTL

\* DriftIsReported: no match is further away than the configuration tolerates,
\* and the drift of the result covers where it was found.
THEOREM DriftIsCovered == Spec => [](NoZeroCodes => DriftIsReported)
<1>1. IInv => (NoZeroCodes => DriftIsReported)
  BY DEF IInv, Bounded, Located, DriftIsReported
<1> QED BY <1>1, Invariant, PTL

\* WalksAreApart: no pass leaves an allowance, a difference or a drift to the
\* next, and no node is held when a walk has ended.
THEOREM WalksDoNotMeet == Spec => []WalksAreApart
<1>1. ASSUME IInv PROVE WalksAreApart
  <2>1. ASSUME pc = "root", ~ exception
        PROVE  /\ IsClean
               /\ (state.allowedDifference > 0) = (pass \in {"difference", "both"})
               /\ (state.allowedDrift > 0) = (pass \in {"drift", "both"})
    <3>1. IsClean
      BY <1>1, <2>1 DEF IInv, Clean
    <3>2. /\ state.allowedDifference
                = IF pass \in {"difference", "both"} THEN Config.difference ELSE 0
          /\ state.allowedDrift = IF pass \in {"drift", "both"} THEN Config.drift ELSE 0
          /\ IsConfigured(pass)
      BY <1>1, <2>1 DEF IInv, Allowances, Trying
    <3>3. ~ (0 > 0)
      OBVIOUS
    <3>4. (state.allowedDifference > 0) = (pass \in {"difference", "both"})
      <4>1. CASE pass \in {"difference", "both"}
        BY <3>2, <4>1 DEF IsConfigured
      <4>2. CASE pass \notin {"difference", "both"}
        BY <3>2, <3>3, <4>2
      <4> QED BY <4>1, <4>2
    <3>5. (state.allowedDrift > 0) = (pass \in {"drift", "both"})
      <4>1. CASE pass \in {"drift", "both"}
        BY <3>2, <4>1 DEF IsConfigured
      <4>2. CASE pass \notin {"drift", "both"}
        BY <3>2, <3>3, <4>2
      <4> QED BY <4>1, <4>2
    <3> QED BY <3>1, <3>4, <3>5
  <2>2. WalkStartsClean
    BY <2>1 DEF WalkStartsClean, IsClean
  <2>3. NodesAreReleased
    BY <1>1 DEF IInv, ItemsHeld, Walking, NodesAreReleased
  <2> QED BY <2>2, <2>3 DEF WalksAreApart
<1> QED BY <1>1, Invariant, PTL

\* ExactMatchIsPreferred: a graph that answers exactly is not answered with a
\* difference or a drift.
THEOREM ExactMatchesPrevail == Spec => []ExactMatchIsPreferred
<1>1. ASSUME IInv PROVE ExactMatchIsPreferred
  BY <1>1 DEF IInv, Answered, ExactMatchIsPreferred
<1> QED BY <1>1, Invariant, PTL

\* No match that a graph in use holds is missed, by the rolling of hashes, the
\* passes or their depths: where nothing is found nothing is there.
THEOREM NothingIsMissed ==
    Spec => [](HasEnded /\ result.method = "none" =>
                /\ ~ (Config.usePerformanceGraph /\ Matches(call.graph.performance))
                /\ ~ (Config.usePredictiveGraph /\ Matches(call.graph.predictive)))
<1>1. ASSUME IInv
      PROVE  HasEnded /\ result.method = "none" =>
                /\ ~ (Config.usePerformanceGraph /\ Matches(call.graph.performance))
                /\ ~ (Config.usePredictiveGraph /\ Matches(call.graph.predictive))
  BY <1>1 DEF IInv, Answered
<1> QED BY <1>1, Invariant, PTL

\* MatchIsFound: the answer is of the graph that holds a match, and there is
\* none where neither does, but at the two edges of the numbers.
THEOREM MatchesAreFound == Spec => [](NoZeroCodes /\ NoOpposites => MatchIsFound)
<1>1. IInv => (NoZeroCodes /\ NoOpposites => MatchIsFound)
  <2> SUFFICES ASSUME IInv, NoZeroCodes, NoOpposites, HasEnded
      PROVE  result.method =
                IF Config.usePerformanceGraph /\ Matches(call.graph.performance)
                THEN "performance"
                ELSE IF Config.usePredictiveGraph /\ Matches(call.graph.predictive)
                THEN "predictive" ELSE "none"
    BY DEF MatchIsFound
  <2>1. result.method \in {"none", "performance", "predictive"}
    BY DEF IInv, Types, ResultSet
  <2>2. Answered
    BY DEF IInv
  <2>3. CASE result.method = "none"
    BY <2>2, <2>3 DEF Answered
  <2>4. CASE result.method = "performance"
    <3>1. Config.usePerformanceGraph /\ stage = "performance" /\ Matches(Root)
      BY <2>2, <2>4 DEF Answered
    <3> QED BY <2>4, <3>1 DEF Root
  <2>5. CASE result.method = "predictive"
    <3>1. /\ Config.usePredictiveGraph /\ stage = "predictive" /\ Matches(Root)
          /\ ~ (Config.usePerformanceGraph /\ Matches(call.graph.performance))
      BY <2>2, <2>5 DEF Answered
    <3> QED BY <2>5, <3>1 DEF Root
  <2> QED BY <2>1, <2>3, <2>4, <2>5
<1> QED BY <1>1, Invariant, PTL
-----------------------------------------------------------------------------
(* What is left of a detection.                                              *)

Graph == IF pc = "done" THEN 0 ELSE IF stage = "performance" THEN 2 ELSE 1
PassLeft ==
    CASE pc = "graph" -> 5
      [] pc # "graph" /\ pass = "exact" -> 4
      [] pc # "graph" /\ pass = "difference" -> 3
      [] pc # "graph" /\ pass = "drift" -> 2
      [] OTHER -> 1
WalksLeft == IF pass = "exact" THEN 0 ELSE state.breakDepth
NodesLeft ==
    CASE pc = "root" -> Nodes + 1
      [] pc \in {"evaluate", "scan", "follow"} -> Nodes + 1 - Rank[call.graph][state.node]
      [] OTHER -> 0
StepsLeft ==
    CASE pc = "evaluate" -> Size + 3
      [] pc = "scan" -> Size + 2 - state.currentIndex
      [] pc = "follow" -> 1
      [] OTHER -> 0

LEMMA LowerIs ==
    ASSUME \/ Graph' \in 0 .. (Graph - 1)
           \/ Graph' = Graph /\ PassLeft' \in 0 .. (PassLeft - 1)
           \/ Graph' = Graph /\ PassLeft' = PassLeft /\ WalksLeft' \in 0 .. (WalksLeft - 1)
           \/ /\ Graph' = Graph /\ PassLeft' = PassLeft /\ WalksLeft' = WalksLeft
              /\ NodesLeft' \in 0 .. (NodesLeft - 1)
           \/ /\ Graph' = Graph /\ PassLeft' = PassLeft /\ WalksLeft' = WalksLeft
              /\ NodesLeft' = NodesLeft /\ StepsLeft' \in 0 .. (StepsLeft - 1)
    PROVE  Lower(ToGo', ToGo)
<1>1. ToGo = <<Graph, PassLeft, WalksLeft, NodesLeft, StepsLeft>>
  BY DEF ToGo, Graph, PassLeft, WalksLeft, NodesLeft, StepsLeft
<1>2. ToGo' = <<Graph', PassLeft', WalksLeft', NodesLeft', StepsLeft'>>
  BY DEF ToGo, Graph, PassLeft, WalksLeft, NodesLeft, StepsLeft
<1> DEFINE b == <<Graph, PassLeft, WalksLeft, NodesLeft, StepsLeft>>
           a == <<Graph', PassLeft', WalksLeft', NodesLeft', StepsLeft'>>
<1>3. /\ DOMAIN b = 1 .. 5
      /\ b[1] = Graph /\ b[2] = PassLeft /\ b[3] = WalksLeft /\ b[4] = NodesLeft
      /\ b[5] = StepsLeft
      /\ a[1] = Graph' /\ a[2] = PassLeft' /\ a[3] = WalksLeft' /\ a[4] = NodesLeft'
      /\ a[5] = StepsLeft'
  OBVIOUS
<1> HIDE DEF a, b
<1>4. \E k \in 1 .. 5 : /\ a[k] \in 0 .. (b[k] - 1)
                        /\ \A j \in 1 .. (k - 1) : a[j] = b[j]
  <2>1. /\ \A j \in 1 .. (1 - 1) : FALSE
        /\ \A j \in 1 .. (2 - 1) : j = 1
        /\ \A j \in 1 .. (3 - 1) : j = 1 \/ j = 2
        /\ \A j \in 1 .. (4 - 1) : j = 1 \/ j = 2 \/ j = 3
        /\ \A j \in 1 .. (5 - 1) : j = 1 \/ j = 2 \/ j = 3 \/ j = 4
    OBVIOUS
  <2>2. CASE Graph' \in 0 .. (Graph - 1)
    <3> WITNESS 1 \in 1 .. 5
    <3> QED BY <1>3, <2>1, <2>2
  <2>3. CASE Graph' = Graph /\ PassLeft' \in 0 .. (PassLeft - 1)
    <3> WITNESS 2 \in 1 .. 5
    <3> QED BY <1>3, <2>1, <2>3
  <2>4. CASE Graph' = Graph /\ PassLeft' = PassLeft /\ WalksLeft' \in 0 .. (WalksLeft - 1)
    <3> WITNESS 3 \in 1 .. 5
    <3> QED BY <1>3, <2>1, <2>4
  <2>5. CASE /\ Graph' = Graph /\ PassLeft' = PassLeft /\ WalksLeft' = WalksLeft
             /\ NodesLeft' \in 0 .. (NodesLeft - 1)
    <3> WITNESS 4 \in 1 .. 5
    <3> QED BY <1>3, <2>1, <2>5
  <2>6. CASE /\ Graph' = Graph /\ PassLeft' = PassLeft /\ WalksLeft' = WalksLeft
             /\ NodesLeft' = NodesLeft /\ StepsLeft' \in 0 .. (StepsLeft - 1)
    <3> WITNESS 5 \in 1 .. 5
    <3> QED BY <1>3, <2>1, <2>6
  <2> QED BY <2>2, <2>3, <2>4, <2>5, <2>6
<1>5. Lower(a, b)
  BY <1>3, <1>4 DEF Lower
<1> QED BY <1>1, <1>2, <1>5 DEF a, b

\* The numbering of a graph, along which all walks go up.
LEMMA RankIs ==
    ASSUME Types
    PROVE  /\ \A o \in DOMAIN call.graph.nodes : Rank[call.graph][o] \in 1 .. Nodes
           /\ \A o \in DOMAIN call.graph.nodes :
                \A p \in OffsetsOf(Node(o)) \cap DOMAIN call.graph.nodes :
                  Rank[call.graph][o] < Rank[call.graph][p]
<1>1. call.graph \in Graphs /\ Numberings(call.graph) # {}
  BY GraphIs, GraphsAssumption
<1>2. Rank[call.graph] \in Numberings(call.graph)
  BY <1>1 DEF Rank
<1> DEFINE r == Rank[call.graph]
<1>3. /\ r \in [DOMAIN call.graph.nodes -> 1 .. Nodes]
      /\ \A o \in DOMAIN call.graph.nodes :
           \A p \in OffsetsOf(call.graph.nodes[o]) \cap DOMAIN call.graph.nodes : r[o] < r[p]
  <2> HIDE DEF r
  <2>1. r \in Numberings(call.graph)
    BY <1>2 DEF r
  <2> QED BY <2>1 DEF Numberings, Nodes
<1> HIDE DEF r
<1>4. \A o \in DOMAIN call.graph.nodes : r[o] \in 1 .. Nodes
  BY <1>3
<1> QED BY <1>3, <1>4 DEF r, Node

\* The nodes that are left of a walk.
LEMMA NodesLeftAre ==
    ASSUME Types, Place, Walking
    PROVE  /\ NodesLeft = Nodes + 1 - Rank[call.graph][state.node]
           /\ Nodes \in Nat /\ Rank[call.graph][state.node] \in 1 .. Nodes
           /\ NodesLeft \in 1 .. Nodes
<1>1. state.node \in DOMAIN call.graph.nodes
  BY HereIs
<1>2. Nodes \in Nat /\ Rank[call.graph][state.node] \in 1 .. Nodes
  BY <1>1, NodesAre, RankIs
<1>3. NodesLeft = Nodes + 1 - Rank[call.graph][state.node]
  BY DEF NodesLeft, Walking
<1>4. \A n \in Nat : \A r \in 1 .. n : n + 1 - r \in 1 .. n
  OBVIOUS
<1> QED BY <1>2, <1>3, <1>4

\* The same as an implication, to be used of the next state too.
LEMMA NodesLeftWhileWalking ==
    Types /\ Place /\ Walking =>
        /\ NodesLeft = Nodes + 1 - Rank[call.graph][state.node]
        /\ Rank[call.graph][state.node] \in 1 .. Nodes
BY NodesLeftAre

\* Steps that stay in a walk, or start one.
LEMMA WalkStays ==
    ASSUME UNCHANGED <<stage, pass>>, pc \notin {"graph", "done"}, pc' \notin {"graph", "done"},
           state'.breakDepth = state.breakDepth
    PROVE  Graph' = Graph /\ PassLeft' = PassLeft /\ WalksLeft' = WalksLeft
BY DEF Graph, PassLeft, WalksLeft

\* Steps that stay at a node.
LEMMA NodeStays ==
    ASSUME Types, UNCHANGED <<call, stage, pass>>, Walking, Walking',
           state'.node = state.node, state'.breakDepth = state.breakDepth,
           StepsLeft' \in 0 .. (StepsLeft - 1)
    PROVE  Lower(ToGo', ToGo)
<1>1. Graph' = Graph /\ PassLeft' = PassLeft /\ WalksLeft' = WalksLeft
  BY WalkStays DEF Walking
<1>2. NodesLeft' = NodesLeft
  BY DEF NodesLeft, Walking, Nodes, Rank
<1> QED BY <1>1, <1>2, LowerIs

LEMMA SetHashLower ==
    ASSUME Types, Place, SetInitialHash \/ SetNoHash
    PROVE  Lower(ToGo', ToGo)
<1>1. pc = "evaluate" /\ Walking /\ state \in StateSet /\ UNCHANGED <<call, stage, pass>>
  BY DEF SetInitialHash, SetNoHash, Walking, Types, local
<1>2. Size' = Size /\ Size \in Nat
  BY <1>1, SizeIsNumber DEF Size, UserAgent
<1>3. StepsLeft = Size + 3
  BY <1>1 DEF StepsLeft
<1>4. CASE SetInitialHash
  <2>1. /\ pc' = "scan" /\ state'.currentIndex = SearchedFirst
        /\ SearchedFirst \in Nat /\ SearchedFirst + TheNode.length <= Size
    BY <1>1, <1>4, SetInitialHashIs, SearchedIs DEF SetInitialHash
  <2>2. TheNode.length \in Nat
    BY <1>1, HereIs, CodesAre
  <2>3. state'.node = state.node /\ state'.breakDepth = state.breakDepth
    BY <1>1, <1>4, SetInitialHashIs DEF StateSet
  <2>4. StepsLeft' = Size + 2 - SearchedFirst
    BY <1>2, <2>1 DEF StepsLeft
  <2>5. StepsLeft' \in 0 .. (StepsLeft - 1)
    <3>1. \A s, f, l \in Nat : f + l <= s => s + 2 - f \in 0 .. (s + 3 - 1)
      OBVIOUS
    <3> QED BY <1>2, <1>3, <2>1, <2>2, <2>4, <3>1
  <2>6. Walking'
    BY <2>1 DEF Walking
  <2> QED BY <1>1, <2>3, <2>5, <2>6, NodeStays
<1>5. CASE SetNoHash
  <2>1. pc' = "follow" /\ state' = [state EXCEPT !.hash = 0]
    BY <1>5 DEF SetNoHash
  <2>2. state'.node = state.node /\ state'.breakDepth = state.breakDepth
    BY <1>1, <2>1 DEF StateSet
  <2>3. StepsLeft' = 1
    BY <2>1 DEF StepsLeft
  <2>4. StepsLeft' \in 0 .. (StepsLeft - 1)
    BY <1>2, <1>3, <2>3
  <2>5. Walking'
    BY <2>1 DEF Walking
  <2> QED BY <1>1, <2>2, <2>4, <2>5, NodeStays
<1> QED BY <1>4, <1>5

\* The steps that are left of a scan.
LEMMA ScanStepsAre ==
    ASSUME Types, Place, Allowances, Scanned, pc = "scan"
    PROVE  /\ StepsLeft = Size + 2 - state.currentIndex
           /\ Size \in Nat /\ state.currentIndex \in 0 .. Size
<1>1. state.currentIndex \in Nat /\ state.currentIndex + TheNode.length <= Size
  BY ScanIsNear DEF Scanned
<1>2. TheNode.length \in Nat /\ Size \in Nat
  BY HereIs, CodesAre, SizeIsNumber DEF Walking
<1> QED BY <1>1, <1>2 DEF StepsLeft

LEMMA ScanLower ==
    ASSUME Types, Place, Allowances, Scanned, NodeMatches \/ AdvanceHash \/ ScanEnds
    PROVE  Lower(ToGo', ToGo)
<1>1. /\ pc = "scan" /\ Walking /\ state \in StateSet
      /\ UNCHANGED <<call, stage, pass>>
  BY NodeMatchesIs DEF AdvanceHash, ScanEnds, Walking, Types, local
<1>2. /\ StepsLeft = Size + 2 - state.currentIndex
      /\ Size \in Nat /\ state.currentIndex \in 0 .. Size
  BY <1>1, ScanStepsAre
<1>3. ASSUME pc' = "follow", state'.node = state.node, state'.breakDepth = state.breakDepth
      PROVE  Lower(ToGo', ToGo)
  <2>1. StepsLeft' = 1
    BY <1>3 DEF StepsLeft
  <2>2. StepsLeft' \in 0 .. (StepsLeft - 1)
    BY <1>2, <2>1
  <2>3. Walking'
    BY <1>3 DEF Walking
  <2> QED BY <1>1, <1>3, <2>2, <2>3, NodeStays
<1>4. CASE NodeMatches
  <2>1. PICK code \in DOMAIN TheNode.hashes, d \in Nat :
            TheNode.hashes[code] \in Int /\ Matched(code, d)
    BY <1>4, NodeMatchesIs
  <2>2. d \in Int
    BY <2>1
  <2>3. /\ pc' = "follow"
        /\ \E r, e : state' = [state EXCEPT !.difference = e, !.drift = r]
    BY <2>1, <2>2, MatchedIs
  <2>4. state'.node = state.node /\ state'.breakDepth = state.breakDepth
    BY <1>1, <2>3 DEF StateSet
  <2> QED BY <1>3, <2>3, <2>4
<1>5. CASE ScanEnds
  <2>1. pc' = "follow" /\ state' = state
    BY <1>5 DEF ScanEnds, Unmatched
  <2> QED BY <1>3, <2>1
<1>6. CASE AdvanceHash
  <2>1. pc' = "scan"
    BY <1>6 DEF AdvanceHash
  <2>2. /\ state'.currentIndex = state.currentIndex + 1
        /\ \E c, h : state' = [state EXCEPT !.hash = h, !.currentIndex = c]
    BY <1>6, AdvanceHashIs
  <2>3. state'.node = state.node /\ state'.breakDepth = state.breakDepth
    BY <1>1, <2>2 DEF StateSet
  <2>4. Size' = Size
    BY <1>1 DEF Size, UserAgent
  <2>5. StepsLeft' = Size + 2 - (state.currentIndex + 1)
    BY <2>1, <2>2, <2>4 DEF StepsLeft
  <2>6. StepsLeft' \in 0 .. (StepsLeft - 1)
    BY <1>2, <2>5
  <2>7. Walking'
    BY <2>1 DEF Walking
  <2> QED BY <1>1, <2>3, <2>6, <2>7, NodeStays
<1> QED BY <1>4, <1>5, <1>6

\* A walk starts with all nodes left and goes up in the numbering.
LEMMA WalkLower ==
    ASSUME Types, Place, Types', Place',
           WalkFromRoot \/ WalkFails \/ FollowToProfile \/ FollowToNode \/ FollowToNothing
    PROVE  Lower(ToGo', ToGo)
<1>1. /\ pc \in {"root", "follow"} /\ pc' \in {"evaluate", "walked"}
      /\ UNCHANGED <<call, stage, pass>> /\ state \in StateSet
  BY DEF WalkFromRoot, WalkFails, FollowToProfile, FollowToNode, FollowToNothing, Types, local
<1>2. Evaluated \in StateSet /\ Evaluated.breakDepth = state.breakDepth
  BY EvaluatedIs
<1>3. state'.breakDepth = state.breakDepth
  BY <1>1, <1>2 DEF WalkFromRoot, WalkFails, FollowToProfile, FollowToNode, FollowToNothing,
                    StateSet
<1>4. Graph' = Graph /\ PassLeft' = PassLeft /\ WalksLeft' = WalksLeft
  BY <1>1, <1>3, WalkStays
<1>5. Nodes \in Nat /\ Nodes' = Nodes
  BY <1>1, NodesAre DEF Nodes
<1>6. NodesLeft \in Nat /\ NodesLeft # 0
  <2>1. CASE pc = "root"
    <3>1. NodesLeft = Nodes + 1
      BY <2>1 DEF NodesLeft
    <3> QED BY <1>5, <3>1
  <2>2. CASE pc = "follow"
    <3>1. NodesLeft \in 1 .. Nodes
      BY <2>2, NodesLeftAre DEF Walking
    <3> QED BY <1>5, <3>1
  <2> QED BY <1>1, <2>1, <2>2
<1>7. CASE pc' = "walked"
  <2>1. NodesLeft' = 0
    BY <1>7 DEF NodesLeft
  <2>2. NodesLeft' \in 0 .. (NodesLeft - 1)
    BY <1>6, <2>1
  <2> QED BY <1>4, <2>2, LowerIs
<1>8. CASE pc' = "evaluate"
  <2>1. /\ NodesLeft' = Nodes + 1 - Rank[call.graph][state'.node]
        /\ Rank[call.graph][state'.node] \in 1 .. Nodes
    <3>1. (Types /\ Place /\ Walking =>
             /\ NodesLeft = Nodes + 1 - Rank[call.graph][state.node]
             /\ Rank[call.graph][state.node] \in 1 .. Nodes)'
      BY NodesLeftWhileWalking, PTL
    <3>2. Rank' = Rank
      BY DEF Rank, Numberings, OffsetsOf
    <3>3. Walking'
      BY <1>8 DEF Walking
    <3> QED BY <1>1, <1>5, <3>1, <3>2, <3>3
  <2>2. NodesLeft' \in 0 .. (NodesLeft - 1)
    <3>1. CASE pc = "root"
      <4>1. NodesLeft = Nodes + 1
        BY <3>1 DEF NodesLeft
      <4> QED BY <1>5, <2>1, <4>1
    <3>2. CASE pc = "follow"
      <4>1. FollowToNode /\ ~ exception
        BY <1>1, <1>8, <3>2 DEF WalkFromRoot, WalkFails, FollowToProfile, FollowToNode,
                                FollowToNothing
      <4>2. offset > 0 /\ state'.node = offset
        BY <1>2, <4>1 DEF FollowToNode, StateSet
      <4>3. offset \in OffsetsOf(Node(state.node)) \cap DOMAIN call.graph.nodes
        BY <3>2, <4>2, NextIs DEF Place, TheNode
      <4>4. state.node \in DOMAIN call.graph.nodes
        BY <3>2, HereIs DEF Walking
      <4>5. Rank[call.graph][state.node] < Rank[call.graph][offset]
        BY <4>3, <4>4, RankIs
      <4>6. /\ NodesLeft = Nodes + 1 - Rank[call.graph][state.node]
            /\ Rank[call.graph][state.node] \in 1 .. Nodes
        BY <3>2, NodesLeftAre DEF Walking
      <4>7. \A n \in Nat : \A r, s \in 1 .. n : r < s => n + 1 - s \in 0 .. ((n + 1 - r) - 1)
        OBVIOUS
      <4> QED BY <1>5, <2>1, <4>2, <4>5, <4>6, <4>7
    <3> QED BY <1>1, <3>1, <3>2
  <2> QED BY <1>4, <2>2, LowerIs
<1> QED BY <1>1, <1>7, <1>8

\* Between walks.
LEMMA PassLower ==
    ASSUME Types, Allowances, Types',
           TryShallower \/ TryNextPass \/ SearchGraph \/ GraphMatches
             \/ TryPredictiveGraph \/ NothingMatches
    PROVE  Lower(ToGo', ToGo)
<1>0. /\ state \in StateSet /\ pass \in {"exact", "difference", "drift", "both"}
      /\ stage \in {"performance", "predictive"}
  BY DEF Types
<1>1. CASE TryShallower
  <2>1. /\ pc = "walked" /\ pc' = "root" /\ pass # "exact" /\ UNCHANGED <<stage, pass>>
        /\ state.breakDepth > 1 /\ state' = [state EXCEPT !.breakDepth = @ - 1]
    BY <1>1 DEF TryShallower, local
  <2>2. Graph' = Graph /\ PassLeft' = PassLeft
    BY <2>1 DEF Graph, PassLeft
  <2>3. WalksLeft = state.breakDepth /\ WalksLeft' = state.breakDepth - 1 /\ state.breakDepth \in Nat
    BY <1>0, <2>1 DEF WalksLeft, StateSet
  <2>4. WalksLeft' \in 0 .. (WalksLeft - 1)
    BY <2>1, <2>3
  <2> QED BY <2>2, <2>4, LowerIs
<1>2. CASE TryNextPass
  <2>1. /\ pc = "walked" /\ pc' = "root" /\ stage' = stage
        /\ \E i \in Later : pass' = Passes[i]
    BY <1>2 DEF TryNextPass
  <2>2. PICK i \in 1 .. 4 : \E j \in 1 .. (i - 1) : pass' = Passes[i] /\ pass = Passes[j]
    BY <2>1 DEF Later, Passes
  <2>7. PICK j \in 1 .. (i - 1) : pass' = Passes[i] /\ pass = Passes[j]
    BY <2>2
  <2>3. /\ Passes[1] = "exact" /\ Passes[2] = "difference" /\ Passes[3] = "drift"
        /\ Passes[4] = "both"
    BY DEF Passes
  <2>4. PassLeft = 5 - j /\ PassLeft' = 5 - i
    <3>1. (i = 1 \/ i = 2 \/ i = 3 \/ i = 4) /\ (j = 1 \/ j = 2 \/ j = 3 \/ j = 4)
      BY <2>2, <2>7
    <3>2. PassLeft = 5 - j
      BY <2>1, <2>7, <2>3, <3>1 DEF PassLeft
    <3>3. PassLeft' = 5 - i
      BY <2>1, <2>7, <2>3, <3>1 DEF PassLeft
    <3> QED BY <3>2, <3>3
  <2>5. PassLeft' \in 0 .. (PassLeft - 1)
    BY <2>2, <2>7, <2>4
  <2>6. Graph' = Graph
    BY <2>1 DEF Graph
  <2> QED BY <2>5, <2>6, LowerIs
<1>3. CASE SearchGraph
  <2>1. pc = "graph" /\ pc' = "root" /\ pass' = "exact" /\ stage' = stage
    BY <1>3 DEF SearchGraph
  <2>2. PassLeft = 5 /\ PassLeft' = 4 /\ Graph' = Graph
    BY <2>1 DEF PassLeft, Graph
  <2>3. PassLeft' \in 0 .. (PassLeft - 1)
    BY <2>2
  <2> QED BY <2>2, <2>3, LowerIs
<1>4. CASE GraphMatches \/ NothingMatches
  <2>1. pc \in {"walked", "graph"} /\ pc' = "done"
    BY <1>4 DEF GraphMatches, NothingMatches, HasNoMatch
  <2>2. Graph \in {1, 2} /\ Graph' = 0
    BY <1>0, <2>1 DEF Graph
  <2>3. Graph' \in 0 .. (Graph - 1)
    BY <2>2
  <2> QED BY <2>3, LowerIs
<1>5. CASE TryPredictiveGraph
  <2>1. /\ pc \in {"walked", "graph"} /\ pc' = "graph"
        /\ stage = "performance" /\ stage' = "predictive"
    BY <1>5 DEF TryPredictiveGraph, HasNoMatch
  <2>2. Graph = 2 /\ Graph' = 1
    BY <2>1 DEF Graph
  <2>3. Graph' \in 0 .. (Graph - 1)
    BY <2>2
  <2> QED BY <2>3, LowerIs
<1> QED BY <1>1, <1>2, <1>3, <1>4, <1>5

\* Each step of a detection comes closer to its end, whatever the graphs, as
\* long as they are acyclic: DetectionEnds, but for its being scheduled.
THEOREM EachStepComesCloser == Spec => ComesCloser
<1>1. IInv /\ IInv' /\ [Next]_vars => [Lower(ToGo', ToGo)]_vars
  <2> SUFFICES ASSUME IInv, IInv', Next PROVE Lower(ToGo', ToGo)
    OBVIOUS
  <2>1. /\ Types /\ Place /\ Scanned /\ Allowances
        /\ Types' /\ Place'
    BY DEF IInv
  <2>2. CASE \/ WalkFromRoot \/ WalkFails \/ FollowToProfile \/ FollowToNode \/ FollowToNothing
    BY <2>1, <2>2, WalkLower
  <2>3. CASE SetInitialHash \/ SetNoHash
    BY <2>1, <2>3, SetHashLower
  <2>4. CASE NodeMatches \/ AdvanceHash \/ ScanEnds
    BY <2>1, <2>4, ScanLower
  <2>5. CASE \/ TryShallower \/ TryNextPass \/ SearchGraph \/ GraphMatches
             \/ TryPredictiveGraph \/ NothingMatches
    BY <2>1, <2>5, PassLower
  <2> QED BY <2>2, <2>3, <2>4, <2>5, StepsAre DEF Between
<1> QED BY <1>1, Invariant, PTL DEF Spec, ComesCloser
=============================================================================
