--------------------------- MODULE TransformProofs ---------------------------
(* Whatever the text, the buffer and the evidence: the parser of client      *)
(* hints stays in its text and its buffer, an array holds values that share  *)
(* no character, and what a detection makes of its special evidence is       *)
(* intact and is not taken for more than it is.                              *)
EXTENDS TransformArray, SpecialEvidence, FiniteSetTheorems, SequenceTheorems,
        WellFoundedInduction, TLAPS

-----------------------------------------------------------------------------
(* Recursive functions.  What holds of them is shown by the least number for *)
(* which it does not hold.                                                   *)

LEMMA LeastExists ==
    ASSUME NEW S \in SUBSET Nat, S # {}
    PROVE  \E n \in S : \A m \in S : n <= m
<1> DEFINE UpTo(n) == S \cap (0 .. n)
           T == {UpTo(n) : n \in S}
<1>1. T \subseteq FiniteSubsetsOf(Nat) /\ T # {}
  <2>1. ASSUME NEW n \in S PROVE UpTo(n) \in FiniteSubsetsOf(Nat)
    <3>1. IsFiniteSet(0 .. n)
      BY FS_Interval
    <3> QED BY <3>1, FS_Subset DEF FiniteSubsetsOf
  <2> QED BY <2>1
<1>2. PICK x \in T : \A y \in T : ~ (<<y, x>> \in StrictSubsetOrdering(Nat))
  <2> HIDE DEF T
  <2> QED BY <1>1, FS_StrictSubsetOrderingWellFounded, WFMin
<1>3. PICK n \in S : x = UpTo(n)
  OBVIOUS
<1>4. ASSUME NEW m \in S, m < n PROVE FALSE
  <2>1. UpTo(m) \subseteq UpTo(n) /\ n \in UpTo(n) /\ n \notin UpTo(m)
    BY <1>4
  <2>2. <<UpTo(m), x>> \in StrictSubsetOrdering(Nat)
    BY <1>3, <2>1 DEF StrictSubsetOrdering
  <2> QED BY <1>2, <2>2
<1> QED BY <1>4

\* What holds beyond the end of a text, and of a position if it holds of all
\* later ones, holds of every position.
LEMMA Backwards ==
    ASSUME NEW last \in Nat, NEW G,
           \A j \in Nat : j >= last \/ (\A k \in Nat : k > j => k \in G) => j \in G
    PROVE  \A j \in Nat : j \in G
<1> DEFINE Bad == {n \in Nat : \E j \in Nat : j \notin G /\ n = last - j}
<1>1. ASSUME NEW i \in Nat, i \notin G PROVE FALSE
  <2>1. i < last
    BY <1>1
  <2>2. last - i \in Bad
    BY <1>1, <2>1
  <2>3. Bad \in SUBSET Nat /\ Bad # {}
    BY <2>2
  <2>4. PICK n \in Bad : \A m \in Bad : n <= m
    <3> HIDE DEF Bad
    <3> QED BY <2>3, LeastExists
  <2>5. PICK j \in Nat : j \notin G /\ n = last - j
    OBVIOUS
  <2>6. ASSUME NEW k \in Nat, k > j PROVE k \in G
    <3>1. CASE k >= last
      BY <3>1
    <3>2. CASE k < last /\ k \notin G
      <4>1. last - k \in Bad
        BY <3>2
      <4>2. n <= last - k
        BY <2>4, <4>1
      <4> QED BY <2>5, <2>6, <4>2
    <3> QED BY <3>1, <3>2
  <2> QED BY <2>5, <2>6
<1> QED BY <1>1

\* What is at a position is computed from what is at later ones.
IsStep(step, S, last) ==
    /\ step \in [Nat -> [[Nat -> S] -> S]]
    /\ \A j \in Nat : \A g, h \in [Nat -> S] :
           j >= last \/ (\A k \in Nat : k > j => g[k] = h[k]) => step[j][g] = step[j][h]
HasFixedPoint(step, S) == \E f \in [Nat -> S] : \A j \in Nat : f[j] = step[j][f]

\* A recursion that goes on to later positions has a function.
LEMMA FixedPointExists ==
    ASSUME NEW S, NEW a \in S, NEW last \in Nat, NEW step, IsStep(step, S, last)
    PROVE  HasFixedPoint(step, S)
<1> USE DEF IsStep
<1> DEFINE Is(n, g) == \A j \in Nat : j >= last - n => g[j] = step[j][g]
           Bad == {n \in Nat : ~ \E g \in [Nat -> S] : Is(n, g)}
<1>1. ASSUME Bad # {} PROVE FALSE
  <2>1. PICK n \in Bad : \A m \in Bad : n <= m
    <3>1. Bad \in SUBSET Nat
      OBVIOUS
    <3> HIDE DEF Bad
    <3> QED BY <1>1, <3>1, LeastExists
  <2>2. n \in Nat /\ ~ \E g \in [Nat -> S] : Is(n, g)
    OBVIOUS
  <2>3. PICK g \in [Nat -> S] : n # 0 => Is(n - 1, g)
    <3>1. CASE n = 0
      <4>1. [j \in Nat |-> a] \in [Nat -> S]
        OBVIOUS
      <4> QED BY <3>1, <4>1
    <3>2. CASE n # 0
      <4>1. n - 1 \in Nat /\ ~ (n <= n - 1)
        BY <2>2, <3>2
      <4>2. n - 1 \notin Bad
        <5> HIDE DEF Bad
        <5> QED BY <2>1, <4>1
      <4> QED BY <4>1, <4>2
    <3> QED BY <3>1, <3>2
  <2> DEFINE h == [j \in Nat |-> step[j][g]]
  <2>4. h \in [Nat -> S]
    OBVIOUS
  <2>5. ASSUME NEW j \in Nat, j >= last - n PROVE h[j] = step[j][h]
    <3>1. h[j] = step[j][g]
      OBVIOUS
    <3>2. CASE j >= last
      BY <2>4, <3>1, <3>2
    <3>3. CASE ~ (j >= last)
      <4>1. ASSUME NEW k \in Nat, k > j PROVE g[k] = h[k]
        <5>1. n # 0 /\ k >= last - (n - 1)
          BY <2>2, <2>5, <3>3, <4>1
        <5>2. g[k] = step[k][g]
          BY <2>3, <5>1
        <5> QED BY <5>2
      <4> HIDE DEF h
      <4> QED BY <2>4, <3>1, <4>1
    <3> QED BY <3>2, <3>3
  <2> QED BY <2>2, <2>4, <2>5
<1>2. last \in Nat /\ last \notin Bad
  BY <1>1
<1>3. PICK g \in [Nat -> S] : Is(last, g)
  BY <1>2
<1>4. \A j \in Nat : g[j] = step[j][g]
  BY <1>3
<1> QED BY <1>4 DEF HasFixedPoint

-----------------------------------------------------------------------------
(* Scans.  Each ends in the text or at its NUL, from wherever it starts.     *)

IsText == text \in Seq(STRING)

LEMMA TextEnds ==
    ASSUME IsText
    PROVE  /\ Last \in Nat \ {0} /\ Last = Len(text) + 1 /\ Len(text) \in Nat
           /\ \A i \in Int : i < 1 \/ i >= Last => Sym(i) = NUL
           /\ \A i \in Int : Sym(i) # NUL => i \in 1 .. (Last - 1) /\ i + 1 \in 1 .. Last
<1>1. Len(text) \in Nat /\ DOMAIN text = 1 .. Len(text)
  BY DEF IsText
<1>2. \A i \in Int : i \notin 1 .. Len(text) => Sym(i) = NUL
  BY <1>1 DEF Sym
<1>3. Last = Len(text) + 1
  BY DEF Last
<1>4. \A i \in Int : i < 1 \/ i >= Last => i \notin 1 .. Len(text)
  BY <1>1, <1>3
<1>5. \A i \in 1 .. Len(text) : i \in 1 .. (Last - 1) /\ i + 1 \in 1 .. Last
  BY <1>1, <1>3
<1> QED BY <1>1, <1>2, <1>3, <1>4, <1>5

\* A symbol that is looked for is not the NUL.
LEMMA Distinct ==
    ASSUME NEW c \in {" ", ",", ":", "}", "]", "{", "[", Quote, Escape}
    PROVE  c # NUL
BY DEF Quote, Escape, NUL

\* Where a scan from i may end.
Onwards(i) == {j \in Nat : j >= i /\ (i <= Last => j <= Last)}

LEMMA OnwardsFrom ==
    ASSUME IsText, NEW j \in Nat, j < Last, NEW k \in Nat, j < k, k <= Last,
           NEW n \in Onwards(k)
    PROVE  n \in Onwards(j)
BY TextEnds DEF Onwards

LEMMA SpaceEnds ==
    ASSUME IsText, NEW i \in 1 .. Last
    PROVE  SkipSpace(i) \in i .. Last
<1> DEFINE S == {j \in Nat : j >= i /\ Sym(j) # " "}
<1>1. Last \in S /\ S \in SUBSET Nat
  <2>1. Last \in Nat /\ Last >= i /\ Sym(Last) = NUL
    BY TextEnds
  <2>2. NUL # " "
    BY DEF NUL
  <2> QED BY <2>1, <2>2
<1>2. PICK j \in S : \A k \in S : j <= k
  <2> HIDE DEF S
  <2> QED BY <1>1, LeastExists
<1>s. /\ j \in Nat /\ j >= i /\ j <= Last
      /\ \A k \in Nat : k >= i /\ ~ (j <= k) => k \notin S
  BY <1>1, <1>2
<1>3. j \in i .. Last
  <2> HIDE DEF S
  <2> QED BY <1>s, TextEnds
<1>4. \A k \in i .. j - 1 : Sym(k) = " "
  <2> TAKE k \in i .. j - 1
  <2>1. k \in Nat /\ k >= i /\ ~ (j <= k)
    <3> HIDE DEF S
    <3> QED BY <1>3, TextEnds
  <2> QED BY <1>s, <2>1
<1>5. j \in i .. i + Len(text)
  <2> HIDE DEF S
  <2> QED BY <1>3, TextEnds
<1>6. \E n \in i .. i + Len(text) : Sym(n) # " " /\ \A k \in i .. n - 1 : Sym(k) = " "
  BY <1>2, <1>4, <1>5
<1> DEFINE n == SkipSpace(i)
<1>7. n \in i .. i + Len(text)
  BY <1>6 DEF SkipSpace
<1>p. \A k \in i .. n - 1 : Sym(k) = " "
  BY <1>6 DEF SkipSpace
<1> HIDE DEF S
<1>8. ASSUME n > Last PROVE FALSE
  <2>1. Last \in i .. n - 1
    <3> HIDE DEF n
    <3> QED BY <1>7, <1>8, TextEnds
  <2> HIDE DEF n
  <2>2. Sym(Last) = " "
    BY <1>p, <2>1
  <2>3. Sym(Last) = NUL
    BY TextEnds
  <2> QED BY <2>2, <2>3 DEF NUL
<1> HIDE DEF n
<1>9. n \in i .. Last
  BY <1>7, <1>8, TextEnds
<1> QED BY <1>9 DEF n

LEMMA PrimitiveEnds ==
    ASSUME IsText, NEW i \in 1 .. Last
    PROVE  SkipPrimitive(i) \in i .. Last
<1> DEFINE Ends == {NUL, ",", "}", "]"}
           S == {j \in Nat : j >= i /\ Sym(j) \in Ends}
<1>1. Last \in S /\ S \in SUBSET Nat
  <2>1. Last \in Nat /\ Last >= i /\ Sym(Last) = NUL
    BY TextEnds
  <2> QED BY <2>1
<1> HIDE DEF Ends
<1>2. PICK j \in S : \A k \in S : j <= k
  <2> HIDE DEF S
  <2> QED BY <1>1, LeastExists
<1>s. /\ j \in Nat /\ j >= i /\ j <= Last
      /\ \A k \in Nat : k >= i /\ ~ (j <= k) => k \notin S
  BY <1>1, <1>2
<1>3. j \in i .. Last
  <2> HIDE DEF S
  <2> QED BY <1>s, TextEnds
<1>4. \A k \in i .. j - 1 : Sym(k) \notin Ends
  <2> TAKE k \in i .. j - 1
  <2>1. k \in Nat /\ k >= i /\ ~ (j <= k)
    <3> HIDE DEF S
    <3> QED BY <1>3, TextEnds
  <2> QED BY <1>s, <2>1
<1>5. j \in i .. i + Len(text)
  <2> HIDE DEF S
  <2> QED BY <1>3, TextEnds
<1>6. \E n \in i .. i + Len(text) : Sym(n) \in Ends /\ \A k \in i .. n - 1 : Sym(k) \notin Ends
  BY <1>2, <1>4, <1>5
<1> DEFINE n == SkipPrimitive(i)
<1>7. n \in i .. i + Len(text) /\ \A k \in i .. n - 1 : Sym(k) \notin Ends
  BY <1>6 DEF SkipPrimitive, Ends
<1> HIDE DEF S
<1>8. ASSUME n > Last PROVE FALSE
  <2>1. Last \in i .. n - 1
    <3> HIDE DEF n
    <3> QED BY <1>7, <1>8, TextEnds
  <2> HIDE DEF n
  <2>2. Sym(Last) \notin Ends
    BY <1>7, <2>1
  <2> QED BY <1>1, <2>2 DEF S
<1> HIDE DEF n
<1>9. n \in i .. Last
  BY <1>7, <1>8, TextEnds
<1> QED BY <1>9 DEF n

LEMMA SkipEnds ==
    ASSUME IsText, NEW i \in Nat, NEW target, target # NUL
    PROVE  /\ Skip(i, target) \in Onwards(i)
           /\ Sym(Skip(i, target)) \in {target, NUL}
<1> DEFINE Stops(j) == Sym(j) \in {target, NUL}
           Twice(j) == Sym(j) = Escape /\ Sym(j + 1) \in {target, Escape}
           step == [j \in Nat |-> [g \in [Nat -> Nat] |->
                      IF Stops(j) THEN j ELSE IF Twice(j) THEN g[j + 2] ELSE g[j + 1]]]
           IsSkip(f) == f = [j \in Nat |->
                          IF Stops(j) THEN j ELSE IF Twice(j) THEN f[j + 2] ELSE f[j + 1]]
<1>1. \A j \in Nat : j >= Last => Stops(j)
  BY TextEnds
<1>2. \A j \in Nat : ~ Stops(j) /\ Twice(j) => j + 2 <= Last
  <2> TAKE j \in Nat
  <2> HAVE ~ Stops(j) /\ Twice(j)
  <2>1. Sym(j + 1) # NUL
    BY DEF Escape, NUL
  <2> QED BY <2>1, TextEnds
<1>3. \A j \in Nat : ~ Stops(j) => j + 1 <= Last
  BY TextEnds
<1> HIDE DEF Stops, Twice
<1>4. PICK f \in [Nat -> Nat] : IsSkip(f)
  <2>1. step \in [Nat -> [[Nat -> Nat] -> Nat]]
    OBVIOUS
  <2>2. ASSUME NEW j \in Nat, NEW g \in [Nat -> Nat], NEW h \in [Nat -> Nat],
               j >= Last \/ (\A k \in Nat : k > j => g[k] = h[k])
        PROVE  step[j][g] = step[j][h]
    <3>1. CASE Stops(j)
      BY <3>1
    <3>2. CASE ~ Stops(j)
      <4>1. g[j + 1] = h[j + 1] /\ g[j + 2] = h[j + 2]
        BY <1>1, <2>2, <3>2
      <4> QED BY <3>2, <4>1
    <3> QED BY <3>1, <3>2
  <2>3. IsStep(step, Nat, Last)
    <3> HIDE DEF step
    <3> QED BY <2>1, <2>2 DEF IsStep
  <2>4. HasFixedPoint(step, Nat)
    <3> HIDE DEF step
    <3> QED BY <2>3, FixedPointExists, TextEnds
  <2>5. PICK f \in [Nat -> Nat] : \A j \in Nat : f[j] = step[j][f]
    <3> HIDE DEF step
    <3> QED BY <2>4 DEF HasFixedPoint
  <2>6. IsSkip(f)
    BY <2>5
  <2> QED BY <2>6
<1>5. PICK s : IsSkip(s) /\ Skip(i, target) = s[i]
  BY <1>4 DEF Skip, Stops, Twice
<1> DEFINE G == {j \in Nat : s[j] \in Onwards(j) /\ Stops(s[j])}
<1>6. ASSUME NEW j \in Nat, j >= Last \/ (\A k \in Nat : k > j => k \in G)
      PROVE  j \in G
  <2>1. s[j] = IF Stops(j) THEN j ELSE IF Twice(j) THEN s[j + 2] ELSE s[j + 1]
    BY <1>5
  <2>2. CASE Stops(j)
    BY <2>1, <2>2 DEF Onwards
  <2>3. CASE ~ Stops(j)
    <3>1. j < Last /\ j + 1 \in G /\ j + 2 \in G /\ Last \in Nat
      <4>1. Last \in Nat
        BY TextEnds
      <4>2. j < Last
        BY <1>1, <2>3, <4>1
      <4>3. j + 1 \in Nat /\ j + 1 > j /\ j + 2 \in Nat /\ j + 2 > j /\ ~ (j >= Last)
        BY <4>1, <4>2
      <4>4. \A k \in Nat : k > j => k \in G
        BY <1>6, <4>3
      <4> HIDE DEF G
      <4> QED BY <4>1, <4>2, <4>3, <4>4
    <3>2. CASE Twice(j)
      <4>1. s[j] = s[j + 2] /\ j + 2 <= Last
        BY <1>2, <2>1, <2>3, <3>2
      <4> QED BY <3>1, <4>1 DEF Onwards
    <3>3. CASE ~ Twice(j)
      <4>1. s[j] = s[j + 1] /\ j + 1 <= Last
        BY <1>3, <2>1, <2>3, <3>3
      <4> QED BY <3>1, <4>1 DEF Onwards
    <3> QED BY <3>2, <3>3
  <2> QED BY <2>2, <2>3
<1>7. i \in G
  <2> HIDE DEF G
  <2> QED BY <1>6, Backwards, TextEnds
<1> QED BY <1>5, <1>7 DEF Stops

LEMMA NestedEnds ==
    ASSUME IsText, NEW i \in 1 .. Last, NEW open, NEW close
    PROVE  SkipNested(i, open, close) \in i .. Last
<1> DEFINE After(j) == Skip(j + 1, Quote)
           Level(j, level) == CASE Sym(j) = open -> level + 1
                                [] Sym(j) = close -> level - 1
                                [] OTHER -> level
           Row(j, g) == [level \in Nat |->
                           IF level = 0 \/ Sym(j) = NUL THEN j
                           ELSE IF Sym(j) = Quote
                                THEN IF Sym(After(j)) = NUL THEN After(j)
                                     ELSE g[After(j) + 1][level]
                                ELSE g[j + 1][Level(j, level)]]
           S == [Nat -> Nat]
           step == [j \in Nat |-> [g \in [Nat -> S] |-> Row(j, g)]]
           IsSkip(f) == f = [j \in Nat |-> Row(j, f)]
<1>1. \A j \in Nat : j >= Last => Sym(j) = NUL
  BY TextEnds
<1>2. \A j \in Nat : Sym(j) # NUL => After(j) \in Nat /\ After(j) > j /\ After(j) <= Last /\ j < Last
  <2> TAKE j \in Nat
  <2> HAVE Sym(j) # NUL
  <2>1. j + 1 \in Nat /\ j + 1 <= Last /\ j < Last
    BY TextEnds
  <2>2. After(j) \in Onwards(j + 1)
    BY <2>1, SkipEnds, Distinct
  <2> HIDE DEF After
  <2> QED BY <2>1, <2>2, TextEnds DEF Onwards
<1>3. \A j \in Nat : Sym(j) # NUL /\ Sym(After(j)) # NUL =>
         After(j) + 1 \in Nat /\ After(j) + 1 > j /\ After(j) + 1 <= Last
  <2> TAKE j \in Nat
  <2> HAVE Sym(j) # NUL /\ Sym(After(j)) # NUL
  <2>1. After(j) \in Nat /\ After(j) > j
    BY <1>2
  <2> HIDE DEF After
  <2> QED BY <2>1, TextEnds
<1>4. \A j \in Nat : \A level \in Nat : level # 0 => Level(j, level) \in Nat
  <2> TAKE j \in Nat
  <2> TAKE level \in Nat
  <2> HAVE level # 0
  <2>1. level + 1 \in Nat /\ level - 1 \in Nat
    OBVIOUS
  <2> QED BY <2>1
<1> HIDE DEF After, Level
<1>5. PICK f \in [Nat -> S] : IsSkip(f)
  <2>1. ASSUME NEW j \in Nat, NEW g \in [Nat -> S] PROVE Row(j, g) \in S
    <3>1. ASSUME NEW level \in Nat PROVE Row(j, g)[level] \in Nat
      <4>1. CASE level = 0 \/ Sym(j) = NUL
        BY <4>1
      <4>2. CASE level # 0 /\ Sym(j) # NUL
        <5>a. After(j) \in Nat /\ j + 1 \in Nat
          BY <1>2, <4>2
        <5>b. Level(j, level) \in Nat
          BY <1>4, <4>2
        <5>c. Sym(After(j)) # NUL => After(j) + 1 \in Nat
          BY <1>3, <4>2
        <5>1. /\ After(j) \in Nat /\ j + 1 \in Nat /\ Level(j, level) \in Nat
              /\ Sym(After(j)) # NUL => After(j) + 1 \in Nat
          BY <5>a, <5>b, <5>c
        <5>2. /\ g[j + 1][Level(j, level)] \in Nat
              /\ Sym(After(j)) # NUL => g[After(j) + 1][level] \in Nat
          BY <5>1
        <5> QED BY <4>2, <5>1, <5>2
      <4> QED BY <4>1, <4>2
    <3> QED BY <3>1
  <2>2. step \in [Nat -> [[Nat -> S] -> S]]
    <3> HIDE DEF S, Row
    <3> QED BY <2>1
  <2>3. ASSUME NEW j \in Nat, NEW g \in [Nat -> S], NEW h \in [Nat -> S],
               j >= Last \/ (\A k \in Nat : k > j => g[k] = h[k])
        PROVE  Row(j, g) = Row(j, h)
    <3>1. CASE Sym(j) = NUL
      BY <3>1
    <3>2. CASE Sym(j) # NUL
      <4>1. g[j + 1] = h[j + 1] /\ j + 1 \in Nat
        BY <1>1, <2>3, <3>2
      <4>2. Sym(After(j)) # NUL => g[After(j) + 1] = h[After(j) + 1]
        BY <1>1, <1>3, <2>3, <3>2
      <4> QED BY <4>1, <4>2
    <3> QED BY <3>1, <3>2
  <2>4. IsStep(step, S, Last)
    <3> HIDE DEF S, Row
    <3>1. \A j \in Nat : \A g \in [Nat -> S] : step[j][g] = Row(j, g)
      OBVIOUS
    <3> HIDE DEF step
    <3>2. ASSUME NEW j \in Nat, NEW g \in [Nat -> S], NEW h \in [Nat -> S],
                 j >= Last \/ (\A k \in Nat : k > j => g[k] = h[k])
          PROVE  step[j][g] = step[j][h]
      <4>1. Row(j, g) = Row(j, h)
        BY <2>3, <3>2
      <4> QED BY <3>1, <4>1
    <3> QED BY <2>2, <3>2 DEF IsStep
  <2>5. HasFixedPoint(step, S)
    <3>1. [n \in Nat |-> n] \in S
      OBVIOUS
    <3> HIDE DEF step, S
    <3> QED BY <2>4, <3>1, FixedPointExists, TextEnds
  <2>6. PICK f \in [Nat -> S] : \A j \in Nat : f[j] = step[j][f]
    <3> HIDE DEF step
    <3> QED BY <2>5 DEF HasFixedPoint
  <2>7. IsSkip(f)
    <3> HIDE DEF S, Row
    <3> QED BY <2>6
  <2> QED BY <2>7
<1>6. PICK s : IsSkip(s) /\ SkipNested(i, open, close) = s[i][1]
  BY <1>5 DEF SkipNested, After, Level
<1> DEFINE G == {j \in Nat : \A level \in Nat : s[j][level] \in Onwards(j)}
<1>7. ASSUME NEW j \in Nat, j >= Last \/ (\A k \in Nat : k > j => k \in G)
      PROVE  j \in G
  <2> SUFFICES ASSUME NEW level \in Nat PROVE s[j][level] \in Onwards(j)
    OBVIOUS
  <2>1. s[j][level] = Row(j, s)[level]
    BY <1>6
  <2>2. CASE level = 0 \/ Sym(j) = NUL
    BY <2>1, <2>2 DEF Onwards
  <2>3. CASE level # 0 /\ Sym(j) # NUL
    <3>a. After(j) \in Nat /\ After(j) > j /\ After(j) <= Last /\ j < Last
      BY <1>2, <2>3
    <3>b. Last \in Nat
      BY TextEnds
    <3>c. j + 1 \in G /\ j + 1 <= Last
      <4>1. j + 1 \in Nat /\ j + 1 > j /\ ~ (j >= Last) /\ j + 1 <= Last
        BY <3>a, <3>b
      <4> QED BY <1>7, <4>1
    <3>1. After(j) \in Onwards(j)
      BY <3>a, <3>b DEF Onwards
    <3>2. CASE Sym(j) = Quote /\ Sym(After(j)) = NUL
      BY <2>1, <2>3, <3>1, <3>2
    <3>3. CASE Sym(j) = Quote /\ Sym(After(j)) # NUL
      <4>1. After(j) + 1 \in Nat /\ After(j) + 1 > j /\ After(j) + 1 <= Last
        BY <1>3, <2>3, <3>3
      <4>2. s[j][level] = s[After(j) + 1][level]
        BY <2>1, <2>3, <3>3
      <4>3. s[After(j) + 1][level] \in Onwards(After(j) + 1)
        <5>1. ~ (j >= Last)
          BY <3>a, <3>b
        <5> QED BY <1>7, <4>1, <5>1
      <4> QED BY <3>a, <3>b, <4>1, <4>2, <4>3, OnwardsFrom
    <3>4. CASE Sym(j) # Quote
      <4>1. s[j][level] = s[j + 1][Level(j, level)]
        BY <2>1, <2>3, <3>4
      <4>2. Level(j, level) \in Nat
        BY <1>4, <2>3
      <4>3. s[j + 1][Level(j, level)] \in Onwards(j + 1)
        BY <3>c, <4>2
      <4>4. j + 1 \in Nat /\ j < j + 1 /\ j + 1 <= Last
        BY <3>a, <3>b
      <4>5. s[j + 1][Level(j, level)] \in Onwards(j)
        BY <3>a, <4>3, <4>4, OnwardsFrom
      <4> QED BY <4>1, <4>5
    <3> QED BY <3>2, <3>3, <3>4
  <2> QED BY <2>2, <2>3
<1>8. Last \in Nat \ {0} /\ i \in Nat /\ i <= Last
  BY TextEnds
<1>9. i \in G
  <2> HIDE DEF G
  <2> QED BY <1>7, <1>8, Backwards
<1>10. s[i][1] \in Onwards(i) /\ SkipNested(i, open, close) = s[i][1]
  BY <1>6, <1>9
<1>11. \A n \in Onwards(i) : n \in i .. Last
  BY <1>8 DEF Onwards
<1> QED BY <1>10, <1>11

\* What is written.
Symbol == STRING \cup HeaderSet
            \cup {NUL, Quote, Escape, ".", ",", " ", ";v=", "null", "?", "0", "1"}

LEMMA SymbolsAre ==
    ASSUME IsText
    PROVE  \A i : Sym(i) \in Symbol
<1>1. \A i \in DOMAIN text : text[i] \in STRING
  BY DEF IsText
<1> QED BY <1>1 DEF Sym, Symbol

VersionSet == [type : {"invalid", "list"}, end : Nat, text : Seq(Symbol)]

LEMMA JoinedVersion ==
    ASSUME NEW v \in VersionSet, NEW s \in Seq(Symbol)
    PROVE  /\ [v EXCEPT !.text = s \o @] \in VersionSet
           /\ [v EXCEPT !.text = s \o @].end = v.end
           /\ Len([v EXCEPT !.text = s \o @].text) = Len(s) + Len(v.text)
<1> HIDE DEF Symbol
<1>1. v.text \in Seq(Symbol)
  BY DEF VersionSet
<1>2. s \o v.text \in Seq(Symbol) /\ Len(s \o v.text) = Len(s) + Len(v.text)
  BY <1>1, ConcatProperties
<1> QED BY <1>2 DEF VersionSet

LEMMA VersionEnds ==
    ASSUME IsText, NEW i \in 1 .. Last
    PROVE  /\ VersionAt(i) \in VersionSet /\ VersionAt(i).end \in i .. Last
           /\ Len(VersionAt(i).text) <= VersionAt(i).end - i
<1> DEFINE Escaped(j) == Sym(j) = Escape /\ Sym(j + 1) \in {Escape, Quote}
           Rest(g, j, n, q, s) == [g[j + n][q] EXCEPT !.text = s \o @]
           Stop(j) == [type |-> IF Sym(j + 1) = NUL THEN "invalid" ELSE "list",
                       end |-> j + 1,
                       text |-> IF Sym(j + 1) = NUL THEN <<>> ELSE <<Quote>>]
           Cell(j, g, quoted) ==
              IF Sym(j) = NUL
              THEN [type |-> "invalid", end |-> j, text |-> <<>>]
              ELSE IF Sym(j) = Quote THEN Rest(g, j, 1, ~quoted, <<>>)
              ELSE IF quoted
              THEN IF Escaped(j) THEN Rest(g, j, 2, TRUE, <<Escape, Sym(j + 1)>>)
                   ELSE Rest(g, j, 1, TRUE, <<Sym(j)>>)
              ELSE CASE Sym(j) = "," -> Rest(g, j, 1, FALSE, <<".">>)
                     [] Sym(j) = "]" -> Stop(j)
                     [] OTHER -> Rest(g, j, 1, FALSE, <<>>)
           Row(j, g) == [quoted \in BOOLEAN |-> Cell(j, g, quoted)]
           S == [BOOLEAN -> VersionSet]
           step == [j \in Nat |-> [g \in [Nat -> S] |-> Row(j, g)]]
           IsRead(f) == f = [j \in Nat |-> Row(j, f)]
<1>1. \A j \in Nat : j >= Last => Sym(j) = NUL
  BY TextEnds
<1>2. \A j \in Nat : Sym(j) # NUL => j < Last /\ j + 1 <= Last
  BY TextEnds
<1>3. \A j \in Nat : Escaped(j) => j + 2 <= Last
  <2> TAKE j \in Nat
  <2> HAVE Escaped(j)
  <2>1. Sym(j + 1) # NUL
    BY Distinct
  <2> QED BY <2>1, TextEnds
<1>4. \A j \in Nat : Stop(j) \in VersionSet /\ Stop(j).end = j + 1 /\ Len(Stop(j).text) <= 1
  <2> TAKE j \in Nat
  <2>1. <<>> \in Seq(Symbol) /\ <<Quote>> \in Seq(Symbol)
    <3>1. Quote \in Symbol
      BY DEF Symbol
    <3> HIDE DEF Symbol
    <3> QED BY <3>1
  <2>2. j + 1 \in Nat
    OBVIOUS
  <2>l. Len(<<>>) = 0 /\ Len(<<Quote>>) = 1
    OBVIOUS
  <2> HIDE DEF Symbol
  <2>3. CASE Sym(j + 1) = NUL
    BY <2>1, <2>2, <2>3, <2>l DEF VersionSet
  <2>4. CASE Sym(j + 1) # NUL
    BY <2>1, <2>2, <2>4, <2>l DEF VersionSet
  <2> QED BY <2>3, <2>4
<1>5. \A j \in Nat : /\ [type |-> "invalid", end |-> j, text |-> <<>>] \in VersionSet
                     /\ [type |-> "invalid", end |-> j, text |-> <<>>].end = j
                     /\ Len([type |-> "invalid", end |-> j, text |-> <<>>].text) = 0
  BY DEF VersionSet
\* A cell is the end, or takes over from a later one.
<1> DEFINE Ends(j, quoted) ==
             \E v \in VersionSet : /\ v.end \in Onwards(j) /\ Len(v.text) <= v.end - j
                                   /\ \A h : Cell(j, h, quoted) = v
           Joins(j, quoted) ==
             \E k \in Nat : \E q \in BOOLEAN : \E s \in Seq(Symbol) :
                /\ j < Last /\ j < k /\ k <= Last /\ Len(s) <= k - j
                /\ \A h : Cell(j, h, quoted) = [h[k][q] EXCEPT !.text = s \o @]
<1>6. \A j \in Nat : Sym(j) \in Symbol /\ Sym(j + 1) \in Symbol
  BY SymbolsAre
<1>7. ASSUME NEW j \in Nat, NEW quoted \in BOOLEAN
      PROVE  Ends(j, quoted) \/ Joins(j, quoted)
  <2>1. CASE Sym(j) = NUL
    <3> DEFINE v == [type |-> "invalid", end |-> j, text |-> <<>>]
    <3>1. v \in VersionSet /\ v.end = j /\ Len(v.text) = 0
      BY <1>5
    <3>2. v.end \in Onwards(j) /\ Len(v.text) <= v.end - j
      <4> HIDE DEF v
      <4> QED BY <3>1 DEF Onwards
    <3>3. \A h : Cell(j, h, quoted) = v
      BY <2>1
    <3> HIDE DEF v, Cell
    <3> QED BY <3>1, <3>2, <3>3
  <2>2. ASSUME NEW k \in Nat, NEW q \in BOOLEAN, NEW s \in Seq(Symbol),
               Sym(j) # NUL, k \in {j + 1, j + 2}, k <= Last, Len(s) <= k - j,
               \A h : Cell(j, h, quoted) = [h[k][q] EXCEPT !.text = s \o @]
        PROVE  Joins(j, quoted)
    <3>1. j < Last
      BY <1>2, <2>2
    <3>2. j < k
      <4>1. \A n \in {j + 1, j + 2} : j < n
        OBVIOUS
      <4> HIDE DEF Cell, Symbol
      <4> QED BY <2>2, <4>1
    <3> HIDE DEF Cell, Symbol
    <3> QED BY <2>2, <3>1, <3>2
  <2>3. Sym(j) # NUL => j + 1 \in Nat /\ j + 1 <= Last
    BY <1>2
  <2>4. <<>> \in Seq(Symbol) /\ <<".">> \in Seq(Symbol)
    BY DEF Symbol
  <2>l. /\ Len(<<>>) <= (j + 1) - j /\ Len(<<".">>) <= (j + 1) - j
        /\ Len(<<Sym(j)>>) <= (j + 1) - j /\ Len(<<Escape, Sym(j + 1)>>) <= (j + 2) - j
    <3>1. Len(<<>>) = 0 /\ Len(<<".">>) = 1 /\ Len(<<Sym(j)>>) = 1
          /\ Len(<<Escape, Sym(j + 1)>>) = 2
      OBVIOUS
    <3> HIDE DEF Joins, Ends, Cell, Escaped
    <3> QED BY <3>1
  <2>5. <<Sym(j)>> \in Seq(Symbol) /\ <<Escape, Sym(j + 1)>> \in Seq(Symbol)
    <3>1. Escape \in Symbol
      BY DEF Symbol
    <3> HIDE DEF Symbol
    <3> QED BY <1>6, <3>1
  <2>6. CASE Sym(j) # NUL /\ Sym(j) = Quote
    <3>1. \A h : Cell(j, h, quoted) = [h[j + 1][~quoted] EXCEPT !.text = <<>> \o @]
      BY <2>6
    <3>2. (~quoted) \in BOOLEAN
      <4> HIDE DEF Cell, Symbol, Joins, Ends
      <4> QED OBVIOUS
    <3> HIDE DEF Cell, Joins
    <3> QED BY <2>2, <2>3, <2>4, <2>6, <2>l, <3>1, <3>2
  <2>7. CASE Sym(j) # NUL /\ Sym(j) # Quote /\ quoted /\ Escaped(j)
    <3>1. \A h : Cell(j, h, quoted) = [h[j + 2][TRUE] EXCEPT !.text = <<Escape, Sym(j + 1)>> \o @]
      BY <2>7
    <3>2. j + 2 \in Nat /\ j + 2 <= Last
      BY <1>3, <2>7
    <3> HIDE DEF Cell, Joins, Escaped
    <3> QED BY <2>2, <2>5, <2>7, <2>l, <3>1, <3>2
  <2>8. CASE Sym(j) # NUL /\ Sym(j) # Quote /\ quoted /\ ~ Escaped(j)
    <3>1. \A h : Cell(j, h, quoted) = [h[j + 1][TRUE] EXCEPT !.text = <<Sym(j)>> \o @]
      BY <2>8
    <3> HIDE DEF Cell, Joins, Escaped
    <3> QED BY <2>2, <2>3, <2>5, <2>8, <2>l, <3>1
  <2>9. CASE Sym(j) # NUL /\ Sym(j) # Quote /\ ~ quoted /\ Sym(j) = "]"
    <3>1. \A h : Cell(j, h, quoted) = Stop(j)
      BY <2>9
    <3>2. Stop(j) \in VersionSet /\ Stop(j).end = j + 1 /\ Len(Stop(j).text) <= 1
      BY <1>4
    <3>3. Stop(j).end \in Onwards(j) /\ Len(Stop(j).text) <= Stop(j).end - j
      <4> HIDE DEF Stop
      <4>1. Stop(j).end = j + 1 /\ j + 1 <= Last /\ Len(Stop(j).text) <= 1
        BY <2>3, <2>9, <3>2
      <4> QED BY <4>1 DEF Onwards
    <3> HIDE DEF Cell, Stop
    <3> QED BY <3>1, <3>2, <3>3
  <2>10. CASE Sym(j) # NUL /\ Sym(j) # Quote /\ ~ quoted /\ Sym(j) = ","
    <3>1. \A h : Cell(j, h, quoted) = [h[j + 1][FALSE] EXCEPT !.text = <<".">> \o @]
      BY <2>10
    <3> HIDE DEF Cell, Joins
    <3> QED BY <2>2, <2>3, <2>4, <2>10, <2>l, <3>1
  <2>11. CASE Sym(j) # NUL /\ Sym(j) # Quote /\ ~ quoted /\ Sym(j) \notin {"]", ","}
    <3>1. \A h : Cell(j, h, quoted) = [h[j + 1][FALSE] EXCEPT !.text = <<>> \o @]
      BY <2>11
    <3> HIDE DEF Cell, Joins
    <3> QED BY <2>2, <2>3, <2>4, <2>11, <2>l, <3>1
  <2> HIDE DEF Ends, Joins, Escaped
  <2> QED BY <2>1, <2>6, <2>7, <2>8, <2>9, <2>10, <2>11
<1>8. PICK f \in [Nat -> S] : IsRead(f)
  <2>1. ASSUME NEW j \in Nat, NEW g \in [Nat -> S] PROVE Row(j, g) \in S
    <3>1. ASSUME NEW quoted \in BOOLEAN PROVE Cell(j, g, quoted) \in VersionSet
      <4>1. CASE Ends(j, quoted)
        <5> HIDE DEF Cell
        <5> QED BY <4>1
      <4>2. CASE Joins(j, quoted)
        <5>1. PICK k \in Nat, q \in BOOLEAN, s \in Seq(Symbol) :
                Cell(j, g, quoted) = [g[k][q] EXCEPT !.text = s \o @]
          <6> HIDE DEF Cell, Symbol
          <6> QED BY <4>2
        <5>2. g[k][q] \in VersionSet
          OBVIOUS
        <5> HIDE DEF Cell, Symbol
        <5> QED BY <5>1, <5>2, JoinedVersion
      <4> HIDE DEF Ends, Joins
      <4> QED BY <1>7, <4>1, <4>2
    <3> HIDE DEF Cell
    <3> QED BY <3>1
  <2>2. step \in [Nat -> [[Nat -> S] -> S]]
    <3> HIDE DEF S, Row
    <3> QED BY <2>1
  <2>3. ASSUME NEW j \in Nat, NEW g \in [Nat -> S], NEW h \in [Nat -> S],
               j >= Last \/ (\A k \in Nat : k > j => g[k] = h[k])
        PROVE  Row(j, g) = Row(j, h)
    <3>1. ASSUME NEW quoted \in BOOLEAN PROVE Cell(j, g, quoted) = Cell(j, h, quoted)
      <4>1. CASE Ends(j, quoted)
        <5> HIDE DEF Cell
        <5> QED BY <4>1
      <4>2. CASE Joins(j, quoted)
        <5>1. PICK k \in Nat, q \in BOOLEAN, s \in Seq(Symbol) :
                /\ j < Last /\ j < k
                /\ \A x : Cell(j, x, quoted) = [x[k][q] EXCEPT !.text = s \o @]
          <6> HIDE DEF Cell, Symbol
          <6> QED BY <4>2
        <5>2. g[k] = h[k]
          <6>a. Last \in Nat
            BY TextEnds
          <6>b. j < Last /\ j < k
            <7> HIDE DEF Cell, Symbol, S
            <7> QED BY <5>1
          <6> HIDE DEF Cell, S, Symbol, step, Row
          <6>1. k > j /\ ~ (j >= Last)
            BY <6>a, <6>b
          <6> QED BY <2>3, <6>1
        <5> HIDE DEF Cell, Symbol, S
        <5> QED BY <5>1, <5>2
      <4> HIDE DEF Ends, Joins, Cell
      <4> QED BY <1>7, <4>1, <4>2
    <3> HIDE DEF Cell
    <3> QED BY <3>1
  <2>4. IsStep(step, S, Last)
    <3> HIDE DEF S, Row
    <3>1. \A j \in Nat : \A g \in [Nat -> S] : step[j][g] = Row(j, g)
      OBVIOUS
    <3> HIDE DEF step
    <3>2. ASSUME NEW j \in Nat, NEW g \in [Nat -> S], NEW h \in [Nat -> S],
                 j >= Last \/ (\A k \in Nat : k > j => g[k] = h[k])
          PROVE  step[j][g] = step[j][h]
      <4>1. Row(j, g) = Row(j, h)
        BY <2>3, <3>2
      <4> QED BY <3>1, <4>1
    <3> QED BY <2>2, <3>2 DEF IsStep
  <2>5. HasFixedPoint(step, S)
    <3>1. Stop(0) \in VersionSet
      BY <1>4
    <3>2. [quoted \in BOOLEAN |-> Stop(0)] \in S
      <4> HIDE DEF Stop
      <4> QED BY <3>1
    <3> HIDE DEF step, S, Stop
    <3> QED BY <2>4, <3>2, FixedPointExists, TextEnds
  <2>6. PICK f \in [Nat -> S] : \A j \in Nat : f[j] = step[j][f]
    <3> HIDE DEF step, S
    <3> QED BY <2>5 DEF HasFixedPoint
  <2>7. IsRead(f)
    <3> HIDE DEF S, Row
    <3> QED BY <2>6
  <2> HIDE DEF IsRead
  <2> QED BY <2>7
<1>9. PICK r : IsRead(r) /\ VersionAt(i) = r[i][FALSE]
  BY <1>8 DEF VersionAt
<1> DEFINE G == {j \in Nat : \A quoted \in BOOLEAN :
                    /\ r[j][quoted] \in VersionSet /\ r[j][quoted].end \in Onwards(j)
                    /\ Len(r[j][quoted].text) <= r[j][quoted].end - j}
<1>10. \A j \in Nat : \A quoted \in BOOLEAN : r[j][quoted] = Cell(j, r, quoted)
  <2> HIDE DEF Cell
  <2> QED BY <1>9
<1> HIDE DEF IsRead, Cell
<1>11. ASSUME NEW j \in Nat, j >= Last \/ (\A k \in Nat : k > j => k \in G)
       PROVE  j \in G
  <2> SUFFICES ASSUME NEW quoted \in BOOLEAN
               PROVE  /\ r[j][quoted] \in VersionSet /\ r[j][quoted].end \in Onwards(j)
                      /\ Len(r[j][quoted].text) <= r[j][quoted].end - j
    OBVIOUS
  <2>1. CASE Ends(j, quoted)
    BY <1>10, <2>1
  <2>2. CASE Joins(j, quoted)
    <3>1. PICK k \in Nat, q \in BOOLEAN, s \in Seq(Symbol) :
            /\ j < Last /\ j < k /\ k <= Last /\ Len(s) <= k - j
            /\ \A x : Cell(j, x, quoted) = [x[k][q] EXCEPT !.text = s \o @]
      <4> HIDE DEF Symbol
      <4> QED BY <2>2
    <3>2. r[j][quoted] = [r[k][q] EXCEPT !.text = s \o @]
      BY <1>10, <3>1
    <3>3. k > j /\ ~ (j >= Last)
      BY <3>1, TextEnds
    <3>4. /\ r[k][q] \in VersionSet /\ r[k][q].end \in Onwards(k)
          /\ Len(r[k][q].text) <= r[k][q].end - k
      BY <1>11, <3>3
    <3>5. /\ r[j][quoted] \in VersionSet /\ r[j][quoted].end = r[k][q].end
          /\ Len(r[j][quoted].text) = Len(s) + Len(r[k][q].text)
      <4> HIDE DEF Symbol
      <4> QED BY <3>2, <3>4, JoinedVersion
    <3>6. r[k][q].end \in Onwards(j)
      BY <3>1, <3>4, OnwardsFrom
    <3>7. Len(r[j][quoted].text) <= r[j][quoted].end - j
      <4>1. r[k][q].end \in Nat /\ Len(s) \in Nat /\ Len(r[k][q].text) \in Nat
        <5>1. r[k][q].text \in Seq(Symbol) /\ r[k][q].end \in Nat
          BY <3>4 DEF VersionSet
        <5> HIDE DEF Symbol
        <5> QED BY <5>1
      <4>2. \A a, b, e \in Nat : a <= k - j /\ b <= e - k => a + b <= e - j
        OBVIOUS
      <4>3. Len(s) <= k - j
        BY <3>1
      <4>4. Len(s) + Len(r[k][q].text) <= r[k][q].end - j
        BY <3>4, <4>1, <4>2, <4>3
      <4> QED BY <3>5, <4>4
    <3> QED BY <3>5, <3>6, <3>7
  <2> HIDE DEF Ends, Joins
  <2> QED BY <1>7, <2>1, <2>2
<1>12. Last \in Nat \ {0} /\ i \in Nat /\ i <= Last
  BY TextEnds
<1>13. i \in G
  <2> HIDE DEF G
  <2> QED BY <1>11, <1>12, Backwards
<1>14. /\ r[i][FALSE] \in VersionSet /\ r[i][FALSE].end \in Onwards(i)
       /\ Len(r[i][FALSE].text) <= r[i][FALSE].end - i
  BY <1>13
<1>15. \A n \in Onwards(i) : n \in i .. Last
  BY <1>12 DEF Onwards
<1> QED BY <1>9, <1>14, <1>15
LEMMA ValueEnds ==
    ASSUME IsText, NEW i \in 1 .. Last
    PROVE  SkipValue(i) \in 1 .. Last /\ SkipValue(i) \in i .. Last
<1> DEFINE colon == Skip(i, ":")
           first == SkipSpace(colon + 1)
           end == CASE Sym(first) = "{" -> SkipNested(first + 1, "{", "}")
                    [] Sym(first) = "[" -> SkipNested(first + 1, "[", "]")
                    [] Sym(first) = Quote -> Skip(first + 1, Quote)
                    [] OTHER -> SkipPrimitive(first)
<1>0. Quote # NUL /\ ":" # NUL
  BY DEF Quote, NUL
<1>l. Last \in Nat \ {0} /\ i \in Nat /\ i <= Last
  BY TextEnds
<1>1. colon \in i .. Last
  <2>1. colon \in Onwards(i)
    BY <1>0, <1>l, SkipEnds
  <2> HIDE DEF colon
  <2> QED BY <1>l, <2>1 DEF Onwards
<1>2. Sym(colon) # NUL => first \in i .. Last
  <2> HAVE Sym(colon) # NUL
  <2>1. colon + 1 \in 1 .. Last
    <3> HIDE DEF colon
    <3> QED BY <1>1, TextEnds
  <2>2. first \in colon + 1 .. Last
    <3> HIDE DEF colon
    <3> QED BY <2>1, SpaceEnds
  <2> HIDE DEF colon, first
  <2> QED BY <1>1, <1>l, <2>1, <2>2
<1>3. ASSUME first \in i .. Last, Sym(first) # NUL PROVE end \in i .. Last
  <2> HIDE DEF colon, first
  <2>1. first + 1 \in 1 .. Last
    BY <1>3, TextEnds
  <2>2. \A n \in first + 1 .. Last : n \in i .. Last
    BY <1>3, <1>l
  <2>3. \A n \in first .. Last : n \in i .. Last
    BY <1>3, <1>l
  <2>4. CASE Sym(first) = "{"
    <3>1. SkipNested(first + 1, "{", "}") \in first + 1 .. Last
      BY <2>1, NestedEnds
    <3>2. end = SkipNested(first + 1, "{", "}")
      BY <2>4 DEF Quote
    <3> HIDE DEF end
    <3> QED BY <2>2, <3>1, <3>2
  <2>5. CASE Sym(first) # "{" /\ Sym(first) = "["
    <3>1. SkipNested(first + 1, "[", "]") \in first + 1 .. Last
      BY <2>1, NestedEnds
    <3>2. end = SkipNested(first + 1, "[", "]")
      BY <2>5 DEF Quote
    <3> HIDE DEF end
    <3> QED BY <2>2, <3>1, <3>2
  <2>6. CASE Sym(first) # "{" /\ Sym(first) # "[" /\ Sym(first) = Quote
    <3>1. Skip(first + 1, Quote) \in Onwards(first + 1)
      <4>1. first + 1 \in Nat
        BY <2>1, <1>l
      <4> QED BY <1>0, <4>1, SkipEnds
    <3>2. Skip(first + 1, Quote) \in i .. Last
      BY <1>3, <1>l, <2>1, <3>1 DEF Onwards
    <3> QED BY <2>6, <3>2
  <2>7. CASE Sym(first) # "{" /\ Sym(first) # "[" /\ Sym(first) # Quote
    <3>1. first \in 1 .. Last
      BY <1>3, <1>l
    <3>2. SkipPrimitive(first) \in first .. Last
      BY <3>1, PrimitiveEnds
    <3> QED BY <2>3, <2>7, <3>2
  <2> HIDE DEF end
  <2> QED BY <2>4, <2>5, <2>6, <2>7
<1>4. ASSUME end \in i .. Last, Sym(end) # NUL PROVE Skip(end + 1, Quote) \in i .. Last
  <2> HIDE DEF end
  <2>1. end + 1 \in 1 .. Last
    BY <1>4, TextEnds
  <2>2. end + 1 \in Nat
    BY <2>1, <1>l
  <2>3. Skip(end + 1, Quote) \in Onwards(end + 1)
    BY <1>0, <2>2, SkipEnds
  <2> QED BY <1>4, <1>l, <2>1, <2>3 DEF Onwards
<1>5. SkipValue(i) = IF Sym(colon) = NUL THEN colon
                     ELSE IF Sym(first) = NUL THEN first
                     ELSE IF Sym(end) = NUL THEN end
                     ELSE Skip(end + 1, Quote)
  BY DEF SkipValue
<1> HIDE DEF colon, first, end
<1>6. SkipValue(i) \in i .. Last
  BY <1>1, <1>2, <1>3, <1>4, <1>5
<1> QED BY <1>l, <1>6

LEMMA SkipInText ==
    ASSUME IsText, NEW i \in 1 .. Last, NEW target, target # NUL
    PROVE  Skip(i, target) \in i .. Last
<1>1. Last \in Nat \ {0} /\ i \in Nat /\ i <= Last
  BY TextEnds
<1>2. Skip(i, target) \in Onwards(i)
  BY <1>1, SkipEnds
<1> QED BY <1>1, <1>2 DEF Onwards

LEMMA PastEnds ==
    ASSUME IsText, NEW i \in 0 .. Last, NEW target, target # NUL
    PROVE  Past(i, target) = 0 \/ Past(i, target) \in i + 1 .. Last
<1> DEFINE j == Skip(i, target)
<1>1. Past(i, target) = IF i = 0 \/ Sym(j) = NUL THEN 0 ELSE j + 1
  BY DEF Past
<1>2. CASE i = 0 \/ Sym(j) = NUL
  BY <1>1, <1>2
<1>3. CASE i # 0 /\ Sym(j) # NUL
  <2>1. i \in 1 .. Last
    BY <1>3, TextEnds
  <2>2. j \in i .. Last
    BY <2>1, SkipInText
  <2>3. j + 1 \in i + 1 .. Last
    <3> HIDE DEF j
    <3> QED BY <1>3, <2>1, <2>2, TextEnds
  <2> QED BY <1>1, <1>3, <2>3
<1> QED BY <1>2, <1>3

LEMMA MemberEnds ==
    ASSUME IsText, NEW i \in 0 .. Last, NEW word, word # NUL
    PROVE  Member(i, word) \in 0 .. Last
<1> DEFINE first == Past(i, Quote)
<1>0. Quote # NUL /\ ":" # NUL
  BY DEF Quote, NUL
<1>l. Last \in Nat \ {0}
  BY TextEnds
<1>1. first = 0 \/ first \in i + 1 .. Last
  BY <1>0, PastEnds
<1>2. Member(i, word) = IF first # 0 /\ Sym(first) = word /\ Sym(first + 1) = Quote
                        THEN Past(first + 2, ":") ELSE 0
  BY DEF Member
<1> HIDE DEF first
<1>3. CASE first # 0 /\ Sym(first) = word /\ Sym(first + 1) = Quote
  <2>1. first + 1 \in Int /\ Sym(first + 1) # NUL
    <3>1. first + 1 \in Int
      BY <1>1, <1>3
    <3> QED BY <1>0, <1>3, <3>1
  <2>2. (first + 1) + 1 \in 1 .. Last
    BY <2>1, TextEnds
  <2>3. first + 2 \in 0 .. Last
    BY <1>1, <1>3, <2>2
  <2>4. Past(first + 2, ":") = 0 \/ Past(first + 2, ":") \in (first + 2) + 1 .. Last
    BY <1>0, <2>3, PastEnds
  <2>5. Past(first + 2, ":") \in 0 .. Last
    BY <1>l, <2>3, <2>4
  <2> QED BY <1>2, <1>3, <2>5
<1>4. CASE ~ (first # 0 /\ Sym(first) = word /\ Sym(first + 1) = Quote)
  BY <1>2, <1>4, <1>l
<1> QED BY <1>3, <1>4

LEMMA KeysAre ==
    \A word \in DOMAIN Keys : word # NUL /\ Keys[word] \in HeaderSet
<1>1. HeaderSet = {"ARCHITECTURE", "BRANDS", "BITNESS", "FULLVERSIONLIST",
                   "MOBILE", "MODEL", "PLATFORM", "PLATFORMVERSION"}
  <2>1. DOMAIN Headers = {1, 2, 3, 4, 5, 6, 7, 8}
    BY DEF Headers
  <2>2. HeaderSet = {Headers[1], Headers[2], Headers[3], Headers[4], Headers[5],
                     Headers[6], Headers[7], Headers[8]}
    BY <2>1 DEF HeaderSet
  <2> QED BY <2>2 DEF Headers
<1>2. \A word \in DOMAIN GhevKeys : word # NUL /\ GhevKeys[word] \in HeaderSet
  BY <1>1 DEF GhevKeys, NUL
<1>3. \A word \in DOMAIN SuaKeys : word # NUL /\ SuaKeys[word] \in HeaderSet
  BY <1>1 DEF SuaKeys, NUL
<1> QED BY <1>2, <1>3 DEF Keys

LEMMA KeyEnds ==
    ASSUME IsText, NEW i \in 1 .. Last, Sym(i) # NUL
    PROVE  /\ KeyAt(i).end \in 1 .. Last /\ KeyAt(i).end > i
           /\ KeyAt(i).key \in HeaderSet \cup {Undefined}
<1> DEFINE word == Sym(i + 1)
           known == word \in DOMAIN Keys /\ (word = "platform" => Sym(i + 2) = Quote)
<1>0. Quote # NUL
  BY DEF Quote, NUL
<1>1. i + 1 \in 1 .. Last
  BY TextEnds
<1>2. KeyAt(i) = IF known THEN [key |-> Keys[word], end |-> i + 2]
                 ELSE [key |-> Undefined, end |-> Skip(i + 1, Quote)]
  BY DEF KeyAt
<1>3. CASE known
  <2>1. word # NUL /\ Keys[word] \in HeaderSet
    BY <1>3, KeysAre
  <2>2. i + 2 \in 1 .. Last
    BY <1>1, <2>1, TextEnds
  <2>3. KeyAt(i).key = Keys[word] /\ KeyAt(i).end = i + 2
    BY <1>2, <1>3
  <2>4. i + 2 > i
    OBVIOUS
  <2> QED BY <2>1, <2>2, <2>3, <2>4
<1>4. CASE ~ known
  <2>1. Skip(i + 1, Quote) \in i + 1 .. Last
    BY <1>0, <1>1, SkipInText
  <2>2. Skip(i + 1, Quote) \in 1 .. Last /\ Skip(i + 1, Quote) > i
    BY <1>1, <2>1
  <2>3. KeyAt(i).key = Undefined /\ KeyAt(i).end = Skip(i + 1, Quote)
    BY <1>2, <1>4
  <2> QED BY <2>2, <2>3
<1> QED BY <1>3, <1>4

StringSet == [type : {"null", "string", "invalid"}, end : 1 .. Last, text : Seq(Symbol)]

LEMMA StringEnds ==
    ASSUME IsText, NEW i \in 1 .. Last
    PROVE  /\ StringAt(i) \in StringSet /\ StringAt(i).end >= i
           /\ StringAt(i).type # "invalid" => StringAt(i).end > i
           /\ Len(StringAt(i).text) <= StringAt(i).end - i
<1> DEFINE first == SkipSpace(i)
           close == Skip(first + 1, Quote)
<1>0. Quote # NUL /\ "null" # NUL
  BY DEF Quote, NUL
<1>1. first \in i .. Last
  BY SpaceEnds
<1>2. first \in 1 .. Last
  <2> HIDE DEF first
  <2> QED BY <1>1, TextEnds
<1>3. Sym(first) # NUL => first + 1 \in 1 .. Last
  <2> HIDE DEF first
  <2> QED BY <1>2, TextEnds
<1>4. Sym(first) # NUL => close \in first + 1 .. Last
  <2> HIDE DEF first
  <2> QED BY <1>0, <1>3, SkipInText
<1>5. Sym(first) # NUL => close \in 1 .. Last
  <2> HIDE DEF first, close
  <2> QED BY <1>3, <1>4, TextEnds
<1>6. Sym(first) # NUL /\ Sym(close) # NUL => close + 1 \in 1 .. Last
  <2> HIDE DEF first, close
  <2> QED BY <1>5, TextEnds
<1>7. \A m, n \in Nat : m >= 1 /\ n <= Len(text) =>
        /\ SubSeq(text, m, n) \in Seq(Symbol)
        /\ m <= n + 1 => Len(SubSeq(text, m, n)) = n + 1 - m
  <2> TAKE m, n \in Nat
  <2> HAVE m >= 1 /\ n <= Len(text)
  <2>1. text \in Seq(Symbol)
    <3>1. \A j \in 1 .. Len(text) : text[j] \in Symbol
      <4>1. \A j \in 1 .. Len(text) : text[j] \in STRING
        BY DEF IsText
      <4>2. \A x \in STRING : x \in Symbol
        BY DEF Symbol
      <4> QED BY <4>1, <4>2
    <3>2. text \in Seq(STRING)
      BY DEF IsText
    <3> HIDE DEF Symbol
    <3> QED BY <3>1, <3>2
  <2>2. \A j \in m .. n : j \in 1 .. Len(text)
    BY TextEnds
  <2> HIDE DEF Symbol
  <2>3. \A j \in m .. n : text[j] \in Symbol
    BY <2>1, <2>2
  <2>4. /\ SubSeq(text, m, n) \in Seq(Symbol)
        /\ Len(SubSeq(text, m, n)) = IF m <= n THEN n - m + 1 ELSE 0
    BY <2>3, SubSeqProperties
  <2> QED BY <2>4
<1>8. Len(text) \in Nat /\ Last = Len(text) + 1
  BY TextEnds
<1>9. <<>> \in Seq(Symbol)
  OBVIOUS
<1>10. StringAt(i) =
         CASE Sym(first) = "null" ->
                [type |-> "null", end |-> first + 1, text |-> <<>>]
           [] Sym(first) = Quote /\ Sym(close) = Quote ->
                [type |-> "string", end |-> close + 1,
                 text |-> SubSeq(text, first, close)]
           [] Sym(first) = Quote /\ Sym(close) = NUL ->
                [type |-> "invalid", end |-> close,
                 text |-> SubSeq(text, first, close - 1)]
           [] OTHER -> [type |-> "invalid", end |-> first, text |-> <<>>]
  BY DEF StringAt
<1>11. Sym(first) # NUL /\ Sym(close) # NUL =>
         /\ SubSeq(text, first, close) \in Seq(Symbol)
         /\ Len(SubSeq(text, first, close)) <= close + 1 - i
  <2> HAVE Sym(first) # NUL /\ Sym(close) # NUL
  <2> HIDE DEF first, close
  <2>1. first \in Nat /\ close \in Nat /\ first >= 1 /\ close <= Len(text)
    BY <1>2, <1>5, <1>6, <1>8
  <2> HIDE DEF Symbol
  <2>2. first <= close + 1 /\ i <= first
    BY <1>1, <1>4, <1>8
  <2>3. /\ SubSeq(text, first, close) \in Seq(Symbol)
        /\ Len(SubSeq(text, first, close)) = close + 1 - first
    BY <1>7, <2>1, <2>2
  <2> QED BY <2>1, <2>2, <2>3
<1>12. Sym(first) # NUL =>
         /\ SubSeq(text, first, close - 1) \in Seq(Symbol)
         /\ Len(SubSeq(text, first, close - 1)) <= close - i
  <2> HAVE Sym(first) # NUL
  <2> HIDE DEF first, close
  <2>1. /\ first \in Nat /\ first >= 1
        /\ close \in Nat /\ close - 1 \in Nat /\ close - 1 <= Len(text)
    BY <1>2, <1>5, <1>8
  <2> HIDE DEF Symbol
  <2>2. first <= (close - 1) + 1 /\ i <= first
    BY <1>1, <1>4, <1>8
  <2>3. /\ SubSeq(text, first, close - 1) \in Seq(Symbol)
        /\ Len(SubSeq(text, first, close - 1)) = (close - 1) + 1 - first
    BY <1>7, <2>1, <2>2
  <2> QED BY <2>1, <2>2, <2>3
<1>13. Sym(close) \in {Quote, NUL} \/ Sym(first) = NUL
  <2> HIDE DEF first
  <2>1. Sym(first) # NUL => first + 1 \in Nat
    BY <1>3, <1>8
  <2> QED BY <1>0, <2>1, SkipEnds
<1> HIDE DEF first, close, Symbol
<1>14. CASE Sym(first) = "null"
  <2>1. StringAt(i) = [type |-> "null", end |-> first + 1, text |-> <<>>]
    BY <1>10, <1>14 DEF Quote
  <2>2. first + 1 \in 1 .. Last /\ first + 1 > i
    BY <1>0, <1>1, <1>3, <1>14
  <2>3. Len(<<>>) = 0
    OBVIOUS
  <2> QED BY <1>9, <2>1, <2>2, <2>3 DEF StringSet
<1>15. CASE Sym(first) # "null" /\ Sym(first) = Quote /\ Sym(close) = Quote
  <2>1. StringAt(i) = [type |-> "string", end |-> close + 1, text |-> SubSeq(text, first, close)]
    BY <1>0, <1>10, <1>15
  <2>2. /\ close + 1 \in 1 .. Last /\ close + 1 > i
        /\ SubSeq(text, first, close) \in Seq(Symbol)
        /\ Len(SubSeq(text, first, close)) <= close + 1 - i
    BY <1>0, <1>1, <1>4, <1>6, <1>11, <1>15
  <2> QED BY <2>1, <2>2 DEF StringSet
<1>16. CASE Sym(first) # "null" /\ Sym(first) = Quote /\ Sym(close) = NUL
  <2>1. StringAt(i) = [type |-> "invalid", end |-> close, text |-> SubSeq(text, first, close - 1)]
    BY <1>0, <1>10, <1>16
  <2>2. close \in 1 .. Last /\ close >= i
    BY <1>0, <1>1, <1>4, <1>5, <1>16
  <2>3. /\ SubSeq(text, first, close - 1) \in Seq(Symbol)
        /\ Len(SubSeq(text, first, close - 1)) <= close - i
    BY <1>0, <1>12, <1>16
  <2> QED BY <2>1, <2>2, <2>3 DEF StringSet
<1>17. CASE Sym(first) # "null" /\ Sym(first) # Quote
  <2>1. StringAt(i) = [type |-> "invalid", end |-> first, text |-> <<>>]
    BY <1>10, <1>17
  <2>2. Len(<<>>) = 0 /\ first >= i
    BY <1>1
  <2> QED BY <1>1, <1>2, <1>9, <2>1, <2>2 DEF StringSet
<1> QED BY <1>0, <1>13, <1>14, <1>15, <1>16, <1>17
-----------------------------------------------------------------------------
(* What holds between the steps of a call.                                   *)

Statuses == {"NOT_SET", "INVALID_INPUT", "INSUFFICIENT_MEMORY"}
Regions == [null : BOOLEAN, from : Nat, length : Nat]
Brands == {"brand", "version", "endBrand"}
Reading == {"value", "platformVersion"} \cup Brands
Pcs == {"none", "decode", "keys", "key", "callback", "complete", "returned"}
         \cup Reading

\* The names are written after the decoded text, one character each.
Decoded == IF kind = "base64" THEN DecodedLength(Len(text)) ELSE 0
Names == Decoded + 8
NamesWritten ==
    /\ Names <= Len(out)
    /\ \A h \in HeaderSet : out[KeyPosition(h)] = h

\* A value is among the first n characters, in the buffer and after the names.
FitsIn(v, n) ==
    ~ v.null => /\ v.from + v.length <= Current(n)
                /\ v.length # 0 => Names <= v.from
Fits(v) == FitsIn(v, Len(out))
Before(v, n) == ~ v.null => v.from + v.length <= n
After(v, n) == ~ v.null => n <= v.from
Apart(v, w) == ~ w.null => Before(v, w.from)

TypeInv ==
    /\ IsText
    /\ length \in Nat
    /\ at \in 1 .. Last
    /\ out \in Seq(Symbol)
    /\ status \in Statuses
    /\ cache \in [HeaderSet -> Regions]
    /\ key \in HeaderSet \cup {Undefined}
    /\ begin \in 0 .. Len(out) /\ ptr \in 0 .. Len(out)
    /\ iterations \in Nat
    /\ pc \in Pcs

NamesInv ==
    /\ pc = "decode" => out = <<>>
    /\ pc = "keys" => Len(out) = Decoded
    /\ pc \in Reading \cup {"key", "callback"} => NamesWritten

ValuesInv ==
    /\ \A h \in HeaderSet : Fits(cache[h])
    /\ pc \in Reading \cup {"callback"} => key \in HeaderSet
    /\ pc \in Reading => Names <= begin
    /\ pc = "value" => begin = Len(out) /\ ptr = Len(out)
    /\ pc \in Brands => IsBrands /\ begin <= ptr
    /\ pc = "platformVersion" =>
         IsPlatform /\ Before(cache["PLATFORM"], Current(begin))
    /\ pc = "callback" /\ IsPlatform =>
         Apart(cache["PLATFORM"], cache["PLATFORMVERSION"])

ParseInv == TypeInv /\ NamesInv /\ ValuesInv

\* What a step does: nothing that was written is changed, a value is read from
\* where the writing has come to, and is delivered if it starts there.
Grows ==
    /\ UNCHANGED call
    /\ Len(out) <= Len(out')
    /\ \A p \in 1 .. Len(out) : out'[p] = out[p]
Delivers ==
    pc' \in {"callback", "platformVersion"} =>
      /\ pc \in Reading /\ key' = key
      /\ IF pc = "platformVersion" THEN cache'["PLATFORM"] = cache["PLATFORM"]
         ELSE After(cache'[key], Current(begin))
      /\ IsPlatform => After(cache'["PLATFORMVERSION"], Current(begin))
Follows ==
    /\ pc' \in Reading \cup {"callback"} => key' \in HeaderSet
    /\ pc' \in Reading =>
         Names <= begin' /\ (IF pc \in Reading THEN begin ELSE Len(out)) <= begin'
    /\ pc' = "value" => begin' = Len(out') /\ ptr' = Len(out')
    /\ pc' \in Brands => IsBrands /\ key' = key /\ begin' <= ptr'
    /\ pc' = "platformVersion" =>
         IsPlatform /\ Before(cache'["PLATFORM"], Current(begin'))
    /\ pc' = "callback" /\ IsPlatform =>
         Apart(cache'["PLATFORM"], cache'["PLATFORMVERSION"])
    /\ Delivers
Moves == Grows /\ Follows

LEMMA CallKept ==
    ASSUME UNCHANGED call
    PROVE  /\ IsText' <=> IsText
           /\ Last' = Last /\ length' = length /\ kind' = kind
           /\ Names' = Names /\ Decoded' = Decoded /\ Room' = Room
           /\ \A h : KeyPosition(h)' = KeyPosition(h)
           /\ \A n : Current(n)' = Current(n)
           /\ \A v, n : FitsIn(v, n)' <=> FitsIn(v, n)
<1>1. text' = text /\ length' = length /\ kind' = kind
  BY DEF call
<1>2. Last' = Last /\ Decoded' = Decoded /\ Room' = Room /\ (IsText' <=> IsText)
  BY <1>1 DEF Last, Decoded, DecodedLength, Room, IsText
<1>3. Names' = Names
  BY <1>2 DEF Names
<1>4. \A h : KeyPosition(h)' = KeyPosition(h)
  BY <1>1 DEF KeyPosition, DecodedLength
<1>5. \A n : Current(n)' = Current(n)
  BY <1>2 DEF Current
<1>6. \A v, n : FitsIn(v, n)' <=> FitsIn(v, n)
  BY <1>3, <1>5 DEF FitsIn
<1> QED BY <1>1, <1>2, <1>3, <1>4, <1>5, <1>6

\* The name of the header i is the symbol i of the names.
LEMMA PositionsAre ==
    ASSUME IsText
    PROVE  /\ Decoded \in Nat /\ Names = Decoded + 8 /\ KeyPosition(Headers[8]) = Names
           /\ DOMAIN Headers = 1 .. 8 /\ Len(Headers) = 8 /\ Headers \in Seq(HeaderSet)
           /\ \A h \in HeaderSet : \E i \in 1 .. 8 :
                Headers[i] = h /\ KeyPosition(h) = Decoded + i
<1>1. Decoded \in Nat
  <2>1. Len(text) \in Nat
    BY TextEnds
  <2>2. DecodedLength(Len(text)) \in Nat
    <3>1. (Len(text) + 2) \div 3 \in Nat
      BY <2>1
    <3> QED BY <3>1 DEF DecodedLength
  <2> QED BY <2>2 DEF Decoded
<1>2. Names = Decoded + 8
  BY DEF Names
<1>3. Len(Headers) = 8 /\ DOMAIN Headers = 1 .. 8
  BY DEF Headers
<1>4. Headers \in Seq(HeaderSet)
  <2>1. \A i \in 1 .. 8 : Headers[i] \in HeaderSet
    BY <1>3 DEF HeaderSet
  <2>2. Headers \in Seq({Headers[i] : i \in DOMAIN Headers})
    BY DEF Headers
  <2> QED BY <2>2 DEF HeaderSet
<1>5. \A h : KeyPosition(h) = Decoded + (CHOOSE i \in DOMAIN Headers : Headers[i] = h)
  BY DEF KeyPosition, Decoded
<1>6. ASSUME NEW h \in HeaderSet
      PROVE  \E i \in 1 .. 8 : Headers[i] = h /\ KeyPosition(h) = Decoded + i
  <2>1. \E i \in DOMAIN Headers : Headers[i] = h
    BY DEF HeaderSet
  <2> DEFINE i == CHOOSE i \in DOMAIN Headers : Headers[i] = h
  <2>2. i \in DOMAIN Headers /\ Headers[i] = h
    BY <2>1
  <2>3. KeyPosition(h) = Decoded + i
    BY <1>5
  <2> HIDE DEF i
  <2> QED BY <1>3, <2>2, <2>3
<1>7. KeyPosition(Headers[8]) = Names
  <2>1. 8 \in DOMAIN Headers
    BY <1>3
  <2>2. \A i \in DOMAIN Headers : Headers[i] = Headers[8] => i = 8
    BY DEF Headers
  <2>3. (CHOOSE i \in DOMAIN Headers : Headers[i] = Headers[8]) = 8
    BY <2>1, <2>2
  <2> QED BY <1>2, <1>5, <2>3
<1> QED BY <1>1, <1>2, <1>3, <1>4, <1>6, <1>7

\* The end of what is in the buffer.
LEMMA CurrentIs ==
    ASSUME length \in Nat
    PROVE  /\ Room \in Nat /\ Room <= length
           /\ \A n \in Nat : /\ Current(n) \in Nat /\ Current(n) <= n /\ Current(n) <= Room
                             /\ n <= Room => Current(n) = n
           /\ \A m, n \in Nat : m <= n =>
                Current(m) <= Current(n) /\ (Current(m) # Current(n) => Current(m) = m)
BY DEF Room, Current

LEMMA RegionFits ==
    ASSUME IsText, length \in Nat, NEW from \in Nat, NEW to \in Nat, NEW n \in Nat,
           Names <= from, from <= to, to <= n, NEW st
    PROVE  /\ Region(from, to, st) \in Regions
           /\ FitsIn(Region(from, to, st), n)
           /\ Region(from, to, st).from = Current(from)
           /\ Region(from, to, st).from + Region(from, to, st).length = Current(to)
<1> DEFINE f == Current(from)
           t == Current(to)
           null == st = "INSUFFICIENT_MEMORY"
           r == Region(from, to, st)
<1>1. r = [null |-> null, from |-> f, length |-> t - f]
  BY DEF Region
<1>2. f \in Nat /\ t \in Nat /\ f <= t /\ t <= Current(n) /\ (f # t => f = from)
  BY CurrentIs
<1>3. null \in BOOLEAN
  OBVIOUS
<1>4. Names \in Nat
  BY PositionsAre
<1> HIDE DEF f, t, null
<1>5. t - f \in Nat /\ f + (t - f) = t /\ (t - f # 0 => Names <= f)
  BY <1>2, <1>4
<1>6. r \in Regions
  BY <1>1, <1>2, <1>3, <1>5 DEF Regions
<1>7. r.from = f /\ r.length = t - f
  BY <1>1
<1>8. FitsIn(r, n)
  <2> HIDE DEF r
  <2> QED BY <1>2, <1>5, <1>7 DEF FitsIn
<1> QED BY <1>5, <1>6, <1>7, <1>8 DEF f, t

LEMMA NoValueFits ==
    NoValue \in Regions /\ NoValue.null /\ NoValue.length = 0 /\ \A n : FitsIn(NoValue, n)
BY DEF NoValue, Regions, FitsIn

LEMMA Grown ==
    ASSUME TypeInv, UNCHANGED call, NEW s \in Seq(Symbol), out' = out \o s
    PROVE  /\ Len(out) \in Nat /\ Len(s) \in Nat
           /\ out' \in Seq(Symbol) /\ Len(out') = Len(out) + Len(s)
           /\ \A p \in 1 .. Len(s) : out'[Len(out) + p] = s[p]
           /\ Grows
           /\ NamesWritten => NamesWritten'
           /\ \A v \in Regions : Fits(v) => FitsIn(v, Len(out'))
<1>1. out \in Seq(Symbol) /\ length \in Nat /\ IsText
  BY DEF TypeInv
<1> HIDE DEF Symbol
<1>2. Len(out) \in Nat /\ Len(s) \in Nat
  BY <1>1
<1>3. /\ out' \in Seq(Symbol) /\ Len(out') = Len(out) + Len(s)
      /\ \A p \in 1 .. Len(out) + Len(s) :
           out'[p] = IF p <= Len(out) THEN out[p] ELSE s[p - Len(out)]
  BY <1>1, ConcatProperties
<1>4. /\ Len(out) <= Len(out')
      /\ \A p \in 1 .. Len(out) : out'[p] = out[p]
  BY <1>2, <1>3
<1>5. \A p \in 1 .. Len(s) : out'[Len(out) + p] = s[p]
  <2> TAKE p \in 1 .. Len(s)
  <2>1. Len(out) + p \in 1 .. Len(out) + Len(s) /\ ~ (Len(out) + p <= Len(out))
        /\ (Len(out) + p) - Len(out) = p
    BY <1>2
  <2> QED BY <1>3, <2>1
<1>6. Grows
  BY <1>4 DEF Grows
<1>7. NamesWritten => NamesWritten'
  <2> HAVE NamesWritten
  <2>1. ASSUME NEW h \in HeaderSet PROVE out'[KeyPosition(h)'] = h
    <3>1. PICK i \in 1 .. 8 : KeyPosition(h) = Decoded + i
      BY <1>1, PositionsAre
    <3>2. KeyPosition(h) \in 1 .. Len(out)
      <4>1. Decoded \in Nat /\ Names = Decoded + 8 /\ Names <= Len(out)
        BY <1>1, PositionsAre DEF NamesWritten
      <4> QED BY <1>2, <3>1, <4>1
    <3>3. KeyPosition(h)' = KeyPosition(h)
      BY CallKept
    <3>4. out[KeyPosition(h)] = h
      BY DEF NamesWritten
    <3> QED BY <1>4, <3>2, <3>3, <3>4
  <2>2. Names' <= Len(out')
    <3>1. Names' = Names /\ Names \in Nat /\ Names <= Len(out)
      BY <1>1, CallKept, PositionsAre DEF NamesWritten
    <3> QED BY <1>2, <1>3, <3>1
  <2> QED BY <2>1, <2>2 DEF NamesWritten
<1>8. ASSUME NEW v \in Regions, Fits(v) PROVE FitsIn(v, Len(out'))
  <2>1. Current(Len(out)) \in Nat /\ Current(Len(out')) \in Nat
        /\ Current(Len(out)) <= Current(Len(out'))
    BY <1>1, <1>2, <1>3, CurrentIs
  <2>2. v.from \in Nat /\ v.length \in Nat
    BY DEF Regions
  <2>3. FitsIn(v, Len(out))
    BY <1>8 DEF Fits
  <2> QED BY <2>1, <2>2, <2>3 DEF FitsIn
<1> QED BY <1>2, <1>3, <1>5, <1>6, <1>7, <1>8

\* The parts of the invariant that are the same for every step.
LEMMA AssembleAny ==
    ASSUME ParseInv, UNCHANGED call, NEW s \in Seq(Symbol), out' = out \o s,
           at' \in 1 .. Last, status' \in Statuses, iterations' \in Nat,
           key' \in HeaderSet \cup {Undefined},
           begin' \in 0 .. Len(out'), ptr' \in 0 .. Len(out'),
           cache' \in [HeaderSet -> Regions],
           \A h \in HeaderSet : FitsIn(cache'[h], Len(out')),
           pc' \in Pcs \ {"decode"}, pc' = "keys" => Len(out') = Decoded,
           pc' \in Reading \cup {"key", "callback"} => NamesWritten \/ NamesWritten',
           Follows
    PROVE  ParseInv' /\ Moves
<1>1. TypeInv /\ NamesInv /\ ValuesInv
  BY DEF ParseInv
<1>2. /\ IsText /\ length \in Nat
  BY <1>1 DEF TypeInv
<1>3. /\ out' \in Seq(Symbol) /\ Grows
      /\ NamesWritten => NamesWritten'
  <2> HIDE DEF Symbol
  <2> QED BY <1>1, Grown
<1>4. /\ IsText' /\ Last' = Last /\ length' \in Nat /\ Names' = Names /\ kind' = kind
      /\ Decoded' = Decoded
      /\ \A n : Current(n)' = Current(n)
      /\ \A v, n : FitsIn(v, n)' <=> FitsIn(v, n)
  BY <1>2, CallKept
<1>5. TypeInv'
  <2>1. pc' \in Pcs
    OBVIOUS
  <2> HIDE DEF Symbol, Pcs, Statuses, HeaderSet
  <2> QED BY <1>3, <1>4, <2>1 DEF TypeInv, Statuses
<1>6. NamesInv'
  <2>1. pc' = "keys" => Len(out') = Decoded'
    BY <1>4
  <2> QED BY <1>3, <2>1 DEF NamesInv
<1>7. \A h \in HeaderSet : Fits(cache[h])'
  <2>1. \A h \in HeaderSet : FitsIn(cache[h], Len(out))'
    BY <1>4
  <2> QED BY <2>1 DEF Fits
<1>8. ValuesInv'
  <2>1. pc' = "platformVersion" => key' = key
    BY DEF Follows, Delivers
  <2>2. pc' = "callback" => key' = key
    BY DEF Follows, Delivers
  <2>3. IsPlatform' <=> (kind = "sua" /\ key' = "PLATFORM")
    BY <1>4 DEF IsPlatform
  <2>4. pc' \in {"platformVersion", "callback"} => (IsPlatform' <=> IsPlatform)
    BY <2>1, <2>2, <2>3 DEF IsPlatform
  <2>5. pc' = "platformVersion" => IsPlatform' /\ Before(cache["PLATFORM"], Current(begin))'
    <3>1. Before(cache["PLATFORM"], Current(begin))' <=> Before(cache'["PLATFORM"], Current(begin'))
      BY <1>4 DEF Before
    <3> QED BY <2>4, <3>1 DEF Follows
  <2>6. pc' = "callback" /\ IsPlatform' => Apart(cache["PLATFORM"], cache["PLATFORMVERSION"])'
    <3>1. Apart(cache["PLATFORM"], cache["PLATFORMVERSION"])'
            <=> Apart(cache'["PLATFORM"], cache'["PLATFORMVERSION"])
      BY DEF Apart, Before
    <3> QED BY <2>4, <3>1 DEF Follows
  <2>7. /\ pc' \in Reading \cup {"callback"} => key' \in HeaderSet
        /\ pc' \in Reading => Names' <= begin'
        /\ pc' = "value" => begin' = Len(out') /\ ptr' = Len(out')
        /\ pc' \in Brands => begin' <= ptr'
    BY <1>4 DEF Follows
  <2>8. pc' \in Brands => IsBrands'
    BY DEF Follows, IsBrands
  <2> QED BY <1>7, <2>5, <2>6, <2>7, <2>8 DEF ValuesInv, Brands, Reading
<1> QED BY <1>3, <1>5, <1>6, <1>8 DEF ParseInv, Moves

LEMMA Assemble ==
    ASSUME ParseInv, UNCHANGED call, NEW s \in Seq(Symbol), out' = out \o s,
           at' \in 1 .. Last, status' \in Statuses, iterations' \in Nat,
           key' \in HeaderSet \cup {Undefined},
           begin' \in 0 .. Len(out'), ptr' \in 0 .. Len(out'),
           cache' \in [HeaderSet -> Regions],
           \A h \in HeaderSet : FitsIn(cache'[h], Len(out')),
           pc' \in Pcs \ {"decode", "keys"},
           pc' \in Reading \cup {"key", "callback"} => NamesWritten \/ NamesWritten',
           Follows
    PROVE  ParseInv' /\ Moves
<1>1. pc' \in Pcs \ {"decode"} /\ (pc' = "keys" => Len(out') = Decoded)
  OBVIOUS
<1> HIDE DEF Symbol, Pcs, Statuses, HeaderSet
<1> QED BY <1>1, AssembleAny

LEMMA FollowsEnd ==
    ASSUME pc' \in {"key", "complete", "returned", "keys"}
    PROVE  Follows /\ pc' \in Pcs
<1>1. /\ pc' \notin Reading /\ pc' # "callback" /\ pc' # "value"
      /\ pc' # "platformVersion" /\ pc' \notin Brands
  BY DEF Reading, Brands
<1>2. Delivers
  BY <1>1 DEF Delivers
<1> QED BY <1>1, <1>2 DEF Follows, Pcs

\* What an action that writes nothing leaves alone.
LEMMA Unwritten ==
    ASSUME ParseInv, UNCHANGED <<call, out>>
    PROVE  /\ <<>> \in Seq(Symbol) /\ out' = out \o <<>>
           /\ begin \in 0 .. Len(out') /\ ptr \in 0 .. Len(out')
           /\ iterations \in Nat /\ status \in Statuses
           /\ at \in 1 .. Last /\ key \in HeaderSet \cup {Undefined}
           /\ cache \in [HeaderSet -> Regions]
           /\ \A h \in HeaderSet : FitsIn(cache[h], Len(out'))
<1>1. out' = out /\ out \in Seq(Symbol)
  BY DEF ParseInv, TypeInv
<1>2. out \o <<>> = out
  <2> HIDE DEF Symbol
  <2> QED BY <1>1, ConcatEmptySeq
<1>3. \A h \in HeaderSet : FitsIn(cache[h], Len(out'))
  BY <1>1 DEF ParseInv, ValuesInv, Fits
<1>4. <<>> \in Seq(Symbol)
  OBVIOUS
<1>5. /\ begin \in 0 .. Len(out') /\ ptr \in 0 .. Len(out')
      /\ iterations \in Nat /\ status \in Statuses
      /\ at \in 1 .. Last /\ key \in HeaderSet \cup {Undefined}
      /\ cache \in [HeaderSet -> Regions]
  BY <1>1 DEF ParseInv, TypeInv
<1> QED BY <1>1, <1>2, <1>3, <1>4, <1>5

\* A step that writes nothing and reads no value.
LEMMA Passes ==
    ASSUME ParseInv, UNCHANGED <<call, out, cache, key, begin, ptr, iterations>>,
           pc \in Reading \cup {"key"}, at' \in 1 .. Last, status' \in Statuses,
           pc' \in {"key", "complete"}
    PROVE  ParseInv' /\ Moves
<1>1. NamesWritten
  BY DEF ParseInv, NamesInv
<1>2. Follows /\ pc' \in Pcs \ {"decode", "keys"}
  BY FollowsEnd
<1>3. UNCHANGED <<call, out>> /\ UNCHANGED call
  OBVIOUS
<1> HIDE DEF Symbol, Pcs, Statuses, HeaderSet
<1> QED BY <1>1, <1>2, <1>3, Unwritten, Assemble

LEMMA InvalidStep ==
    ASSUME ParseInv, pc \in Reading \cup {"key"}, Invalid
    PROVE  ParseInv' /\ Moves
<1>1. /\ UNCHANGED <<call, out, cache, key, begin, ptr, iterations>>
      /\ pc' \in {"key", "complete"} /\ at' = at
  BY DEF Invalid
<1>2. at' \in 1 .. Last
  BY <1>1 DEF ParseInv, TypeInv
<1>3. status' \in Statuses
  BY DEF Invalid, Statuses
<1> QED BY <1>1, <1>2, <1>3, Passes

LEMMA EndOfTextStep ==
    ASSUME ParseInv, EndOfText
    PROVE  ParseInv' /\ Moves
<1>1. /\ UNCHANGED <<call, out, cache, key, begin, ptr, iterations>>
      /\ pc' \in {"key", "complete"} /\ pc \in Reading \cup {"key"}
      /\ at' = at /\ status' = status
  BY DEF EndOfText
<1>2. at' \in 1 .. Last /\ status' \in Statuses
  BY <1>1 DEF ParseInv, TypeInv
<1> QED BY <1>1, <1>2, Passes

LEMMA BadKeyStep ==
    ASSUME ParseInv, BadKey
    PROVE  ParseInv' /\ Moves
<1>1. pc \in Reading \cup {"key"} /\ Invalid
  BY DEF BadKey
<1> QED BY <1>1, InvalidStep

LEMMA SkipKeyStep ==
    ASSUME ParseInv, SkipKey
    PROVE  ParseInv' /\ Moves
<1> DEFINE end == KeyAt(at).end
<1>0. IsText /\ at \in 1 .. Last /\ status \in Statuses
  BY DEF ParseInv, TypeInv
<1>1. /\ UNCHANGED <<call, out, cache, key, begin, ptr, iterations>>
      /\ pc' \in {"key", "complete"} /\ pc \in Reading \cup {"key"}
      /\ status' = status
  BY DEF SkipKey
<1>2. Sym(at) # NUL /\ Sym(end) = Quote /\ at' = SkipValue(end + 1)
  BY DEF SkipKey
<1>3. end \in 1 .. Last
  BY <1>0, <1>2, KeyEnds
<1>4. end + 1 \in 1 .. Last
  <2>1. Sym(end) # NUL
    BY <1>2 DEF Quote, NUL
  <2> HIDE DEF end
  <2> QED BY <1>0, <1>3, <2>1, TextEnds
<1>5. at' \in 1 .. Last
  BY <1>0, <1>2, <1>4, ValueEnds
<1> QED BY <1>0, <1>1, <1>5, Passes

LEMMA ReadKeyStep ==
    ASSUME ParseInv, ReadKey
    PROVE  ParseInv' /\ Moves
<1> DEFINE end == KeyAt(at).end
           colon == Past(end, ":")
           first == SkipSpace(colon)
<1>0. IsText /\ at \in 1 .. Last /\ status \in Statuses /\ iterations \in Nat
  BY DEF ParseInv, TypeInv
<1>1. pc = "key" /\ Sym(at) # NUL /\ KeyAt(at).key # Undefined
  BY DEF ReadKey
<1>2. CASE colon = 0 \/ Sym(first) = NUL
  <2>1. Invalid /\ pc \in Reading \cup {"key"}
    BY <1>2 DEF ReadKey
  <2> QED BY <2>1, InvalidStep
<1>3. CASE ~ (colon = 0 \/ Sym(first) = NUL)
  <2>1. /\ at' = first /\ key' = KeyAt(at).key
        /\ begin' = Len(out) /\ ptr' = Len(out) /\ pc' = "value"
        /\ UNCHANGED <<call, out, status, cache, iterations>>
    BY <1>3 DEF ReadKey
  <2>2. end \in 1 .. Last /\ KeyAt(at).key \in HeaderSet
    BY <1>0, <1>1, KeyEnds
  <2>3. colon \in 1 .. Last
    <3>1. ":" # NUL
      BY DEF NUL
    <3>2. end \in 0 .. Last
      <4> HIDE DEF end
      <4> QED BY <2>2
    <3>3. colon \in end + 1 .. Last
      BY <1>0, <1>3, <3>1, <3>2, PastEnds
    <3> HIDE DEF end, colon
    <3> QED BY <2>2, <3>3
  <2>4. first \in 1 .. Last
    <3>1. first \in colon .. Last
      BY <1>0, <2>3, SpaceEnds
    <3> HIDE DEF first, colon
    <3> QED BY <2>3, <3>1
  <2>5. Len(out) \in Nat /\ Len(out) = Len(out') /\ NamesWritten /\ Names <= Len(out)
    <3>1. out \in Seq(Symbol) /\ NamesInv
      BY DEF ParseInv, TypeInv
    <3>2. NamesWritten
      BY <1>1, <3>1 DEF NamesInv
    <3> HIDE DEF Symbol
    <3> QED BY <2>1, <3>1, <3>2 DEF NamesWritten
  <2>6. begin' \in 0 .. Len(out') /\ ptr' \in 0 .. Len(out') /\ Len(out) <= begin'
    BY <2>1, <2>5
  <2>7. Follows /\ pc' \in Pcs \ {"decode", "keys"}
    <3>1. pc \notin Reading
      BY <1>1 DEF Reading, Brands
    <3>2. pc' # "callback" /\ pc' # "platformVersion" /\ pc' \notin Brands
      BY <2>1 DEF Brands
    <3>3. Delivers
      BY <3>2 DEF Delivers
    <3>4. pc' \in Pcs \ {"decode", "keys"}
      BY <2>1 DEF Pcs, Reading
    <3> QED BY <2>1, <2>2, <2>5, <2>6, <3>1, <3>2, <3>3, <3>4 DEF Follows
  <2>8. UNCHANGED <<call, out>> /\ UNCHANGED call
    BY <2>1
  <2>9. at' \in 1 .. Last /\ key' \in HeaderSet \cup {Undefined}
    BY <2>1, <2>2, <2>4
  <2> HIDE DEF Symbol, Pcs, Statuses, HeaderSet, end, colon, first
  <2> QED BY <1>0, <2>1, <2>5, <2>6, <2>7, <2>8, <2>9, Unwritten, Assemble
<1> QED BY <1>2, <1>3

LEMMA StatusIs ==
    ASSUME status \in Statuses
    PROVE  /\ \A s : Written(s) \in Statuses
           /\ \A s, more : StatusOf(s, more) \in Statuses
<1>1. \A s : Written(s) \in Statuses
  BY DEF Written, Statuses
<1>2. ASSUME NEW s, NEW more PROVE StatusOf(s, more) \in Statuses
  <2>1. Written(s.text \o more) \in Statuses
    BY <1>1
  <2> QED BY <2>1 DEF StatusOf, Statuses
<1> QED BY <1>1, <1>2

LEMMA ReadEnds ==
    ASSUME IsText, NEW st, NEW delivered, NEW end \in 1 .. Last, Read(st, delivered, end)
    PROVE  /\ at' \in 1 .. Last /\ status' = st
           /\ pc' \in {"key", "complete", "callback"}
           /\ pc' = "callback" => delivered
<1>1. Quote # NUL
  BY DEF Quote, NUL
<1>2. Skip(end, Quote) \in end .. Last
  BY <1>1, SkipInText
<1>3. Skip(end, Quote) \in 1 .. Last
  BY <1>2
<1>4. at' \in 1 .. Last
  BY <1>3 DEF Read
<1>5. /\ status' = st
      /\ pc' \in {"key", "complete", "callback"}
      /\ pc' = "callback" => delivered
  BY DEF Read
<1> QED BY <1>4, <1>5

LEMMA CacheWith ==
    ASSUME NEW c \in [HeaderSet -> Regions], NEW n, \A h \in HeaderSet : FitsIn(c[h], n),
           NEW k \in HeaderSet, NEW r \in Regions, FitsIn(r, n)
    PROVE  /\ [c EXCEPT ![k] = r] \in [HeaderSet -> Regions]
           /\ \A h \in HeaderSet : FitsIn([c EXCEPT ![k] = r][h], n)
           /\ [c EXCEPT ![k] = r][k] = r
           /\ \A h \in HeaderSet \ {k} : [c EXCEPT ![k] = r][h] = c[h]
<1> HIDE DEF HeaderSet, Regions, FitsIn
<1> QED OBVIOUS

\* A step that ends the reading of a value that is not a platform.
LEMMA FollowsRead ==
    ASSUME pc \in Reading, pc # "platformVersion", key' = key, key \in HeaderSet,
           pc' \in {"key", "complete", "callback"},
           pc' = "callback" => After(cache'[key], Current(begin)),
           ~ IsPlatform
    PROVE  Follows /\ pc' \in Pcs \ {"decode", "keys"}
<1>1. CASE pc' # "callback"
  BY <1>1, FollowsEnd
<1>2. CASE pc' = "callback"
  <2>1. pc' \notin Reading /\ pc' # "value" /\ pc' # "platformVersion" /\ pc' \notin Brands
    BY <1>2 DEF Reading, Brands
  <2>2. Delivers
    BY <1>2 DEF Delivers
  <2>3. key' \in HeaderSet
    OBVIOUS
  <2>4. Follows
    BY <2>1, <2>2, <2>3 DEF Follows
  <2> QED BY <1>2, <2>4 DEF Pcs
<1> QED BY <1>1, <1>2

LEMMA ValueFacts ==
    ASSUME ParseInv, pc \in Reading
    PROVE  /\ IsText /\ at \in 1 .. Last /\ status \in Statuses /\ iterations \in Nat
           /\ length \in Nat
           /\ out \in Seq(Symbol) /\ Len(out) \in Nat
           /\ key \in HeaderSet /\ key \in HeaderSet \cup {Undefined}
           /\ begin \in Nat /\ begin <= Len(out) /\ Names <= begin
           /\ ptr \in Nat /\ ptr <= Len(out)
           /\ NamesWritten /\ Current(begin) \in Nat
           /\ cache \in [HeaderSet -> Regions]
           /\ \A h \in HeaderSet : cache[h] \in Regions /\ Fits(cache[h])
<1>0. TypeInv /\ NamesInv /\ ValuesInv
  BY DEF ParseInv
<1>1. /\ IsText /\ at \in 1 .. Last /\ status \in Statuses /\ iterations \in Nat
      /\ length \in Nat
      /\ out \in Seq(Symbol)
      /\ begin \in 0 .. Len(out) /\ ptr \in 0 .. Len(out)
      /\ cache \in [HeaderSet -> Regions]
  BY <1>0 DEF TypeInv
<1>2. Len(out) \in Nat
  <2> HIDE DEF Symbol
  <2> QED BY <1>1
<1>3. begin \in Nat /\ begin <= Len(out) /\ ptr \in Nat /\ ptr <= Len(out)
  <2>1. \A n \in 0 .. Len(out) : n \in Nat /\ n <= Len(out)
    BY <1>2
  <2> QED BY <1>1, <2>1
<1>4. key \in HeaderSet /\ Names <= begin
  BY <1>0 DEF ValuesInv
<1>5. NamesWritten
  BY <1>0 DEF NamesInv
<1>6. Current(begin) \in Nat
  BY <1>1, <1>3, CurrentIs
<1>7. \A h \in HeaderSet : cache[h] \in Regions /\ Fits(cache[h])
  BY <1>0, <1>1 DEF ValuesInv
<1> QED BY <1>1, <1>2, <1>3, <1>4, <1>5, <1>6, <1>7

\* What is kept when s is written.
LEMMA WrittenOn ==
    ASSUME ParseInv, pc \in Reading, UNCHANGED call, NEW s \in Seq(Symbol), out' = out \o s
    PROVE  /\ Len(out') = Len(out) + Len(s) /\ Len(s) \in Nat /\ Len(out') \in Nat
           /\ begin \in 0 .. Len(out') /\ ptr \in 0 .. Len(out')
           /\ Len(out') \in 0 .. Len(out')
           /\ \A h \in HeaderSet : FitsIn(cache[h], Len(out'))
<1>1. TypeInv
  BY DEF ParseInv
<1> HIDE DEF Symbol
<1>2. /\ Len(out') = Len(out) + Len(s) /\ Len(s) \in Nat /\ Len(out) \in Nat
      /\ \A v \in Regions : Fits(v) => FitsIn(v, Len(out'))
  BY <1>1, Grown
<1>3. Len(out') \in Nat
  BY <1>2
<1>4. begin \in 0 .. Len(out') /\ ptr \in 0 .. Len(out') /\ Len(out') \in 0 .. Len(out')
  BY <1>2, <1>3, ValueFacts
<1>5. \A h \in HeaderSet : FitsIn(cache[h], Len(out'))
  BY <1>2, ValueFacts
<1> QED BY <1>2, <1>3, <1>4, <1>5

LEMMA ReadPureStringStep ==
    ASSUME ParseInv, ReadPureString
    PROVE  ParseInv' /\ Moves
<1> DEFINE s == StringAt(at)
           st == StatusOf(s, <<>>)
           r == Region(begin, Len(out'), st)
<1>1. /\ pc = "value" /\ ~ IsPlatform
      /\ out' = out \o s.text
      /\ cache' = IF s.type = "null" THEN cache ELSE [cache EXCEPT ![key] = r]
      /\ Read(st, s.type # "null", s.end)
      /\ UNCHANGED <<call, key, begin, ptr, iterations>>
  BY DEF ReadPureString
<1>2. pc \in Reading
  BY <1>1 DEF Reading
<1>3. s \in StringSet
  BY <1>2, ValueFacts, StringEnds
<1>4. s.end \in 1 .. Last /\ s.text \in Seq(Symbol)
  <2> HIDE DEF s, Symbol
  <2> QED BY <1>3 DEF StringSet
<1> HIDE DEF Symbol
<1>5. /\ at' \in 1 .. Last /\ status' = st
      /\ pc' \in {"key", "complete", "callback"}
      /\ pc' = "callback" => s.type # "null"
  <2> HIDE DEF s, st
  <2> QED BY <1>1, <1>2, <1>4, ValueFacts, ReadEnds
<1>6. st \in Statuses
  BY <1>2, ValueFacts, StatusIs
<1> HIDE DEF s, st
<1>7. UNCHANGED call /\ UNCHANGED key /\ UNCHANGED begin /\ UNCHANGED ptr /\ UNCHANGED iterations
  BY <1>1
<1>8. /\ Len(out') = Len(out) + Len(s.text) /\ Len(s.text) \in Nat /\ Len(out') \in Nat
      /\ begin \in 0 .. Len(out') /\ ptr \in 0 .. Len(out')
      /\ \A h \in HeaderSet : FitsIn(cache[h], Len(out'))
  BY <1>1, <1>2, <1>4, <1>7, WrittenOn
<1>9. /\ r \in Regions /\ FitsIn(r, Len(out')) /\ r.from = Current(begin)
  <2>1. begin \in Nat /\ Names <= begin /\ begin <= Len(out') /\ IsText /\ length \in Nat
    BY <1>2, <1>8, ValueFacts
  <2>2. Len(out') <= Len(out')
    BY <1>8
  <2> QED BY <1>8, <2>1, <2>2, RegionFits
<1> HIDE DEF r
<1>10. /\ cache' \in [HeaderSet -> Regions]
       /\ \A h \in HeaderSet : FitsIn(cache'[h], Len(out'))
       /\ s.type # "null" => cache'[key] = r
  <2>1. cache \in [HeaderSet -> Regions] /\ key \in HeaderSet
    BY <1>2, ValueFacts
  <2>2. CASE s.type = "null"
    BY <1>1, <1>8, <2>1, <2>2
  <2>3. CASE s.type # "null"
    <3>1. cache' = [cache EXCEPT ![key] = r]
      BY <1>1, <2>3
    <3> HIDE DEF HeaderSet
    <3> QED BY <1>8, <1>9, <2>1, <3>1, CacheWith
  <2> QED BY <2>2, <2>3
<1>11. Follows /\ pc' \in Pcs \ {"decode", "keys"}
  <2>1. pc' = "callback" => After(cache'[key], Current(begin))
    <3>1. After(r, Current(begin))
      BY <1>2, <1>9, ValueFacts DEF After
    <3> QED BY <1>5, <1>10, <3>1
  <2>2. pc # "platformVersion"
    BY <1>1
  <2> QED BY <1>1, <1>2, <1>5, <1>7, <2>1, <2>2, ValueFacts, FollowsRead
<1> HIDE DEF Pcs, Statuses, HeaderSet
<1>12. NamesWritten /\ iterations' \in Nat /\ key' \in HeaderSet \cup {Undefined}
  BY <1>2, <1>7, ValueFacts
<1> QED BY <1>1, <1>4, <1>5, <1>6, <1>7, <1>8, <1>10, <1>11, <1>12, Assemble

LEMMA TruthsAre ==
    \A word \in DOMAIN Truths :
      word # NUL /\ Truths[word] \in Seq(Symbol) /\ Len(Truths[word]) = 2 /\ Truths[word] # <<>>
<1>1. "?" \in Symbol /\ "0" \in Symbol /\ "1" \in Symbol
  BY DEF Symbol
<1>2. /\ <<"?", "0">> \in Seq(Symbol) /\ <<"?", "1">> \in Seq(Symbol)
      /\ Len(<<"?", "0">>) = 2 /\ Len(<<"?", "1">>) = 2
      /\ <<"?", "0">> # <<>> /\ <<"?", "1">> # <<>>
  <2> HIDE DEF Symbol
  <2> QED BY <1>1
<1>3. \A word \in DOMAIN Truths :
        word # NUL /\ Truths[word] \in {<<"?", "0">>, <<"?", "1">>}
  BY DEF Truths, NUL
<1> HIDE DEF Symbol
<1> QED BY <1>2, <1>3

LEMMA ReadBoolStep ==
    ASSUME ParseInv, ReadBool
    PROVE  ParseInv' /\ Moves
<1> DEFINE s == Truths[Sym(at)]
           st == Written(s)
           r == [Region(begin, Len(out'), st) EXCEPT !.length = Len(s)]
<1>1. pc = "value" /\ key = "MOBILE" /\ pc \in Reading
  BY DEF ReadBool, Reading
<1>2. CASE Sym(at) \notin DOMAIN Truths
  <2>1. Invalid /\ pc \in Reading \cup {"key"}
    BY <1>1, <1>2 DEF ReadBool
  <2> QED BY <2>1, InvalidStep
<1>3. CASE Sym(at) \in DOMAIN Truths
  <2>1. /\ out' = out \o s
        /\ cache' = [cache EXCEPT ![key] = r]
        /\ Read(st, TRUE, at + 1)
        /\ UNCHANGED <<call, key, begin, ptr, iterations>>
    BY <1>3 DEF ReadBool
  <2>2. Sym(at) # NUL /\ s \in Seq(Symbol) /\ Len(s) = 2 /\ s # <<>>
    BY <1>3, TruthsAre
  <2> HIDE DEF Symbol, HeaderSet
  <2>3. at + 1 \in 1 .. Last
    BY <1>1, <2>2, ValueFacts, TextEnds
  <2>4. /\ at' \in 1 .. Last /\ status' = st
        /\ pc' \in {"key", "complete", "callback"}
    <3> HIDE DEF st
    <3> QED BY <1>1, <2>1, <2>3, ValueFacts, ReadEnds
  <2>5. st \in Statuses
    BY <1>1, ValueFacts, StatusIs
  <2>6. UNCHANGED call /\ UNCHANGED key /\ UNCHANGED begin /\ UNCHANGED ptr /\ UNCHANGED iterations
    BY <2>1
  <2>7. st # "INSUFFICIENT_MEMORY" => Len(out) + 2 <= Room
    <3>1. Len(out) + 2 \in Int /\ Room \in Int
      BY <1>1, ValueFacts, CurrentIs
    <3>2. s # <<>> /\ Len(out) + Len(s) > Room => st = "INSUFFICIENT_MEMORY"
      BY DEF Written
    <3> HIDE DEF s, st
    <3>3. Len(out) + 2 > Room => st = "INSUFFICIENT_MEMORY"
      BY <2>2, <3>2
    <3> HIDE <3>2
    <3>4. ~ (Len(out) + 2 > Room) => Len(out) + 2 <= Room
      BY <3>1
    <3> QED BY <3>3, <3>4
  <2> HIDE DEF s
  <2>8. /\ Len(out') = Len(out) + 2 /\ Len(out') \in Nat
        /\ begin \in 0 .. Len(out') /\ ptr \in 0 .. Len(out')
        /\ \A h \in HeaderSet : FitsIn(cache[h], Len(out'))
    BY <1>1, <2>1, <2>2, <2>6, WrittenOn
  <2>9. r = [null |-> st = "INSUFFICIENT_MEMORY", from |-> Current(begin), length |-> 2]
    BY <2>2 DEF Region
  <2>10. begin = Len(out)
    BY <1>1 DEF ParseInv, ValuesInv
  <2>11. r \in Regions /\ r.from = Current(begin)
    <3>1. Current(begin) \in Nat /\ (st = "INSUFFICIENT_MEMORY") \in BOOLEAN
      BY <1>1, ValueFacts
    <3> HIDE DEF st, r
    <3> QED BY <2>9, <3>1 DEF Regions
  <2>12. FitsIn(r, Len(out'))
    <3>1. r.null = (st = "INSUFFICIENT_MEMORY") /\ r.from = Current(begin) /\ r.length = 2
      BY <2>9
    <3>2. r.null \/ Len(out) + 2 <= Room
      BY <2>7, <3>1
    <3>3. /\ length \in Nat /\ Len(out) \in Nat /\ begin \in Nat /\ Names <= begin
          /\ Room \in Nat
      BY <1>1, ValueFacts, CurrentIs
    <3>4. Len(out) + 2 <= Room => Current(begin) = begin /\ Current(Len(out')) = Len(out')
      <4>1. Len(out) + 2 <= Room => begin <= Room /\ Len(out') <= Room
        BY <2>8, <2>10, <3>3
      <4> QED BY <2>8, <3>3, <4>1, CurrentIs
    <3> HIDE DEF r, st
    <3>5. Len(out) + 2 <= Room => r.from + r.length <= Current(Len(out')) /\ Names <= r.from
      BY <2>8, <2>10, <3>1, <3>3, <3>4
    <3> QED BY <3>2, <3>5 DEF FitsIn
  <2> HIDE DEF r, st
  <2>13. /\ cache' \in [HeaderSet -> Regions]
         /\ \A h \in HeaderSet : FitsIn(cache'[h], Len(out'))
         /\ cache'[key] = r
    <3>1. cache \in [HeaderSet -> Regions] /\ key \in HeaderSet
      BY <1>1, ValueFacts
    <3> QED BY <2>1, <2>8, <2>11, <2>12, <3>1, CacheWith
  <2>14. Follows /\ pc' \in Pcs \ {"decode", "keys"}
    <3>1. After(cache'[key], Current(begin))
      <4>1. Current(begin) <= Current(begin)
        BY <1>1, ValueFacts
      <4> QED BY <2>11, <2>13, <4>1 DEF After
    <3>2. pc # "platformVersion" /\ ~ IsPlatform
      BY <1>1 DEF IsPlatform
    <3> QED BY <1>1, <2>4, <2>6, <3>1, <3>2, ValueFacts, FollowsRead
  <2> HIDE DEF Pcs, Statuses
  <2>15. NamesWritten /\ iterations' \in Nat /\ key' \in HeaderSet \cup {Undefined}
    BY <1>1, <2>6, ValueFacts
  <2> QED BY <2>1, <2>2, <2>4, <2>5, <2>6, <2>8, <2>13, <2>14, <2>15, Assemble
<1> QED BY <1>2, <1>3

\* A step from one part of a brand to the next.
LEMMA FollowsBrand ==
    ASSUME ParseInv, pc \in Reading, pc' \in Brands, IsBrands, key' = key, begin' = begin,
           ptr' \in Nat, begin <= ptr'
    PROVE  Follows /\ pc' \in Pcs \ {"decode", "keys"}
<1>1. /\ pc' # "callback" /\ pc' # "platformVersion" /\ pc' # "value" /\ pc' \in Reading
      /\ pc' \in Pcs \ {"decode", "keys"}
  BY DEF Brands, Reading, Pcs
<1>2. Delivers
  BY <1>1 DEF Delivers
<1>3. key \in HeaderSet /\ Names <= begin /\ begin <= begin
  BY ValueFacts
<1> QED BY <1>1, <1>2, <1>3 DEF Follows

LEMMA ReadBrandsStep ==
    ASSUME ParseInv, ReadBrands
    PROVE  ParseInv' /\ Moves
<1> DEFINE first == Past(at, "[")
<1>1. pc = "value" /\ IsBrands /\ pc \in Reading
  BY DEF ReadBrands, Reading
<1>2. CASE first = 0
  <2>1. Invalid /\ pc \in Reading \cup {"key"}
    BY <1>1, <1>2 DEF ReadBrands
  <2> QED BY <2>1, InvalidStep
<1>3. CASE first # 0
  <2>1. /\ at' = first /\ pc' = "brand"
        /\ UNCHANGED <<call, out, status, cache, key, begin, ptr, iterations>>
    BY <1>3 DEF ReadBrands
  <2>2. at' \in 1 .. Last
    <3>1. "[" # NUL /\ IsText /\ at \in 1 .. Last
      BY <1>1, ValueFacts DEF NUL
    <3>2. at \in 0 .. Last
      BY <3>1
    <3>3. first \in at + 1 .. Last
      BY <1>3, <3>1, <3>2, PastEnds
    <3> HIDE DEF first
    <3> QED BY <2>1, <3>1, <3>3
  <2>3. begin = Len(out) /\ ptr = Len(out) /\ begin <= ptr /\ ptr \in Nat
    <3>1. begin = Len(out) /\ ptr = Len(out)
      BY <1>1 DEF ParseInv, ValuesInv
    <3> QED BY <1>1, <3>1, ValueFacts
  <2>4. Follows /\ pc' \in Pcs \ {"decode", "keys"}
    <3>1. pc' \in Brands
      BY <2>1 DEF Brands
    <3> QED BY <1>1, <2>1, <2>3, <3>1, FollowsBrand
  <2>5. UNCHANGED <<call, out>> /\ UNCHANGED call
    BY <2>1
  <2>6. NamesWritten
    BY <1>1, ValueFacts
  <2> HIDE DEF Symbol, Pcs, Statuses, HeaderSet, first
  <2> QED BY <2>1, <2>2, <2>4, <2>5, <2>6, Unwritten, Assemble
<1> QED BY <1>2, <1>3

LEMMA BrandsFacts ==
    ASSUME ParseInv, pc \in Brands
    PROVE  pc \in Reading /\ IsBrands /\ begin <= ptr /\ ~ IsPlatform
           /\ pc # "platformVersion" /\ pc # "value"
<1>1. pc \in Reading /\ pc # "platformVersion" /\ pc # "value"
  BY DEF Brands, Reading
<1>2. IsBrands /\ begin <= ptr
  BY DEF ParseInv, ValuesInv
<1>3. ~ IsPlatform
  BY <1>2 DEF IsPlatform, IsBrands
<1> QED BY <1>1, <1>2, <1>3

LEMMA NoBrandsStep ==
    ASSUME ParseInv, NoBrands
    PROVE  ParseInv' /\ Moves
<1> DEFINE end == SkipSpace(at)
<1>1. /\ pc = "brand" /\ Read(status, TRUE, end)
      /\ cache' = [cache EXCEPT ![key] = NoValue]
      /\ UNCHANGED <<call, out, key, begin, ptr, iterations>>
  BY DEF NoBrands
<1>2. pc \in Reading /\ pc # "platformVersion" /\ ~ IsPlatform
  <2>1. pc \in Brands
    BY <1>1 DEF Brands
  <2> QED BY <2>1, BrandsFacts
<1>3. end \in 1 .. Last
  <2>1. IsText /\ at \in 1 .. Last
    BY <1>2, ValueFacts
  <2>2. end \in at .. Last
    BY <2>1, SpaceEnds
  <2> HIDE DEF end
  <2> QED BY <2>1, <2>2
<1> HIDE DEF end
<1>4. /\ at' \in 1 .. Last /\ status' = status
      /\ pc' \in {"key", "complete", "callback"}
  BY <1>1, <1>2, <1>3, ValueFacts, ReadEnds
<1>5. UNCHANGED <<call, out>> /\ UNCHANGED call
  BY <1>1
<1>6. /\ cache' \in [HeaderSet -> Regions]
      /\ \A h \in HeaderSet : FitsIn(cache'[h], Len(out'))
      /\ cache'[key] = NoValue
  <2>1. cache \in [HeaderSet -> Regions] /\ key \in HeaderSet
    BY <1>2, ValueFacts
  <2>2. \A h \in HeaderSet : FitsIn(cache[h], Len(out'))
    BY <1>5, Unwritten
  <2>3. NoValue \in Regions /\ FitsIn(NoValue, Len(out'))
    BY NoValueFits
  <2> HIDE DEF HeaderSet
  <2> QED BY <1>1, <2>1, <2>2, <2>3, CacheWith
<1>7. Follows /\ pc' \in Pcs \ {"decode", "keys"}
  <2>1. After(cache'[key], Current(begin))
    BY <1>6, NoValueFits DEF After
  <2> QED BY <1>1, <1>2, <1>4, <2>1, ValueFacts, FollowsRead
<1>8. NamesWritten
  BY <1>2, ValueFacts
<1> HIDE DEF Symbol, Pcs, Statuses, HeaderSet
<1> QED BY <1>1, <1>4, <1>5, <1>6, <1>7, <1>8, Unwritten, Assemble

LEMMA Singles ==
    /\ <<>> \in Seq(Symbol)
    /\ \A a \in Symbol : <<a>> \in Seq(Symbol)
    /\ \A a, b \in Symbol : <<a, b>> \in Seq(Symbol)
<1> HIDE DEF Symbol
<1> QED OBVIOUS

LEMMA Joined ==
    ASSUME NEW s \in Seq(Symbol), NEW t \in Seq(Symbol), NEW u \in Seq(Symbol)
    PROVE  t \o u \in Seq(Symbol) /\ s \o t \o u = s \o (t \o u)
<1> HIDE DEF Symbol
<1> QED BY ConcatProperties, ConcatAssociative

LEMMA InText ==
    ASSUME IsText
    PROVE  /\ 1 \in 1 .. Last
           /\ \A i \in 1 .. Last : i \in 0 .. Last
           /\ \A i \in 0 .. Last : i # 0 => i \in 1 .. Last
           /\ \A i \in 1 .. Last : \A j \in i .. Last : j \in 1 .. Last
           /\ \A i \in 1 .. Last : Sym(i) # NUL => i + 1 \in 1 .. Last
BY TextEnds

LEMMA PastInText ==
    ASSUME IsText, NEW i \in 0 .. Last, NEW target, target # NUL
    PROVE  Past(i, target) \in 0 .. Last
<1>1. Past(i, target) = 0 \/ Past(i, target) \in i + 1 .. Last
  BY PastEnds
<1>2. Last \in Nat
  BY TextEnds
<1> QED BY <1>1, <1>2

\* A member, its string or its list.
LEMMA MemberInText ==
    ASSUME IsText, NEW i \in 1 .. Last, NEW target, target # NUL, NEW word, word # NUL
    PROVE  Member(Past(i, target), word) \in 0 .. Last
<1>1. i \in 0 .. Last
  BY InText
<1>2. Past(i, target) \in 0 .. Last
  BY <1>1, PastInText
<1> QED BY <1>2, MemberEnds

LEMMA SpaceInText ==
    ASSUME IsText, NEW i \in 1 .. Last
    PROVE  SkipSpace(i) \in 1 .. Last
BY SpaceEnds, InText

LEMMA ReadBrandStep ==
    ASSUME ParseInv, ReadBrand
    PROVE  ParseInv' /\ Moves
<1> DEFINE brand == Member(Past(at, "{"), "brand")
           s == StringAt(brand)
           more == IF s.type = "null" THEN <<>> ELSE <<";v=">>
           written == s.text \o more
<1>1. pc = "brand" /\ pc \in Brands
  BY DEF ReadBrand, Brands
<1>2. pc \in Reading /\ IsBrands /\ begin <= ptr
  BY <1>1, BrandsFacts
<1>3. CASE brand = 0
  <2>1. Invalid /\ pc \in Reading \cup {"key"}
    BY <1>2, <1>3 DEF ReadBrand
  <2> QED BY <2>1, InvalidStep
<1>4. CASE brand # 0
  <2>1. /\ out' = out \o s.text \o more
        /\ status' = StatusOf(s, more)
        /\ ptr' = IF named' THEN Len(out') ELSE ptr
        /\ at' = s.end
        /\ pc' = IF named' THEN "version" ELSE "endBrand"
        /\ UNCHANGED <<call, cache, key, begin, iterations>>
    BY <1>4 DEF ReadBrand
  <2>2. brand \in 1 .. Last
    <3>1. "{" # NUL /\ "brand" # NUL
      BY DEF NUL
    <3>2. IsText /\ at \in 1 .. Last
      BY <1>2, ValueFacts
    <3>3. brand \in 0 .. Last
      BY <3>1, <3>2, MemberInText
    <3> HIDE DEF brand
    <3> QED BY <1>4, <3>2, <3>3, InText
  <2>3. s \in StringSet
    <3> HIDE DEF brand
    <3> QED BY <1>2, <2>2, ValueFacts, StringEnds
  <2>4. s.end \in 1 .. Last /\ s.text \in Seq(Symbol)
    <3> HIDE DEF s, Symbol
    <3> QED BY <2>3 DEF StringSet
  <2>5. more \in Seq(Symbol)
    <3>1. ";v=" \in Symbol
      BY DEF Symbol
    <3> HIDE DEF Symbol, s
    <3> QED BY <3>1, Singles
  <2> HIDE DEF Symbol, HeaderSet
  <2>6. written \in Seq(Symbol) /\ out' = out \o written
    <3>1. out \in Seq(Symbol)
      BY <1>2, ValueFacts
    <3> HIDE DEF s, more
    <3> QED BY <2>1, <2>4, <2>5, <3>1, Joined
  <2>7. UNCHANGED call /\ UNCHANGED key /\ UNCHANGED begin /\ UNCHANGED cache /\ UNCHANGED iterations
    BY <2>1
  <2>8. status' \in Statuses
    BY <1>2, <2>1, ValueFacts, StatusIs
  <2> HIDE DEF s, more, written
  <2>9. /\ Len(out') = Len(out) + Len(written) /\ Len(out') \in Nat /\ Len(written) \in Nat
        /\ begin \in 0 .. Len(out') /\ ptr \in 0 .. Len(out') /\ Len(out') \in 0 .. Len(out')
        /\ \A h \in HeaderSet : FitsIn(cache[h], Len(out'))
    BY <1>2, <2>6, <2>7, WrittenOn
  <2>10. ptr' \in 0 .. Len(out') /\ ptr' \in Nat /\ begin <= ptr'
    <3>1. begin <= Len(out') /\ ptr \in Nat
      BY <1>2, <2>9, ValueFacts
    <3> QED BY <1>2, <2>1, <2>9, <3>1
  <2>11. Follows /\ pc' \in Pcs \ {"decode", "keys"}
    <3>1. pc' \in Brands
      BY <2>1 DEF Brands
    <3> QED BY <1>2, <2>7, <2>10, <3>1, FollowsBrand
  <2> HIDE DEF Pcs, Statuses
  <2>12. /\ NamesWritten /\ iterations' \in Nat /\ key' \in HeaderSet \cup {Undefined}
         /\ cache' \in [HeaderSet -> Regions] /\ begin' \in 0 .. Len(out')
         /\ at' \in 1 .. Last
    BY <1>2, <2>1, <2>4, <2>7, <2>9, ValueFacts
  <2> QED BY <2>6, <2>7, <2>8, <2>9, <2>10, <2>11, <2>12, Assemble
<1> QED BY <1>3, <1>4

\* A version is at least a quote.
LEMMA QuotedVersion ==
    ASSUME NEW t \in Seq(Symbol)
    PROVE  <<Quote>> \o t \in Seq(Symbol) /\ Len(<<Quote>> \o t) >= 1
<1>1. Quote \in Symbol
  BY DEF Symbol
<1> HIDE DEF Symbol
<1>2. <<Quote>> \in Seq(Symbol) /\ Len(<<Quote>>) = 1 /\ Len(t) \in Nat
  BY <1>1
<1>3. <<Quote>> \o t \in Seq(Symbol) /\ Len(<<Quote>> \o t) = Len(<<Quote>>) + Len(t)
  BY <1>2, ConcatProperties
<1> QED BY <1>2, <1>3

LEMMA ReadVersionStep ==
    ASSUME ParseInv, ReadVersion
    PROVE  ParseInv' /\ Moves
<1> DEFINE version == Member(Past(at, ","), "version")
           list == Past(version, "[")
           v == IF kind = "sua" THEN VersionAt(list) ELSE StringAt(version)
           s == IF kind = "sua" THEN <<Quote>> \o v.text
                ELSE IF v.type = "null" THEN <<"null">> ELSE v.text
<1>1. pc = "version" /\ pc \in Brands
  BY DEF ReadVersion, Brands
<1>2. pc \in Reading /\ IsBrands /\ begin <= ptr
  BY <1>1, BrandsFacts
<1>3. CASE version = 0 \/ (kind = "sua" /\ list = 0)
  <2>1. Invalid /\ pc \in Reading \cup {"key"}
    BY <1>2, <1>3 DEF ReadVersion
  <2> QED BY <2>1, InvalidStep
<1>4. CASE ~ (version = 0 \/ (kind = "sua" /\ list = 0))
  <2>1. /\ out' = out \o s
        /\ status' = IF v.type = "invalid" THEN "INVALID_INPUT" ELSE Written(s)
        /\ ptr' = IF kind = "sua" THEN Versioned(v) ELSE Len(out')
        /\ at' = v.end
        /\ pc' = "endBrand"
        /\ UNCHANGED <<call, cache, key, begin, iterations>>
    BY <1>4 DEF ReadVersion
  <2>2. version \in 1 .. Last /\ version \in 0 .. Last /\ Last \in Nat
    <3>1. "," # NUL /\ "version" # NUL
      BY DEF NUL
    <3>2. IsText /\ at \in 1 .. Last
      BY <1>2, ValueFacts
    <3>3. version \in 0 .. Last
      BY <3>1, <3>2, MemberInText
    <3> HIDE DEF version
    <3> QED BY <1>4, <3>2, <3>3, InText, TextEnds
  <2>3. kind = "sua" => list \in 1 .. Last
    <3>1. "[" # NUL /\ IsText
      BY <1>2, ValueFacts DEF NUL
    <3>2. list = 0 \/ list \in version + 1 .. Last
      <4> HIDE DEF version
      <4> QED BY <2>2, <3>1, PastEnds
    <3> HIDE DEF version, list
    <3> QED BY <1>4, <2>2, <3>2
  <2>4. v.end \in 1 .. Last /\ v.text \in Seq(Symbol)
    <3> HIDE DEF version, list
    <3>1. CASE kind = "sua"
      <4>1. VersionAt(list) \in VersionSet /\ VersionAt(list).end \in list .. Last
        BY <1>2, <2>3, <3>1, ValueFacts, VersionEnds
      <4>2. v = VersionAt(list)
        BY <3>1
      <4> HIDE DEF v, Symbol
      <4>3. v.end \in list .. Last
        BY <4>1, <4>2
      <4>4. v.end \in 1 .. Last
        <5> HIDE <3>1, <4>1
        <5> QED BY <2>2, <2>3, <3>1, <4>3
      <4> QED BY <4>1, <4>2, <4>4 DEF VersionSet
    <3>2. CASE kind # "sua"
      <4>1. StringAt(version) \in StringSet
        BY <1>2, <2>2, ValueFacts, StringEnds
      <4>2. v = StringAt(version)
        BY <3>2
      <4> HIDE DEF v, Symbol
      <4> QED BY <4>1, <4>2 DEF StringSet
    <3> QED BY <3>1, <3>2
  <2> HIDE DEF v, Symbol, HeaderSet
  <2>5. s \in Seq(Symbol) /\ (kind = "sua" => Len(s) >= 1)
    <3>1. <<"null">> \in Seq(Symbol)
      <4>1. "null" \in Symbol
        BY DEF Symbol
      <4> QED BY <4>1
    <3>2. CASE kind = "sua"
      <4>1. s = <<Quote>> \o v.text
        BY <3>2
      <4> HIDE DEF s
      <4> QED BY <2>4, <4>1, QuotedVersion
    <3>3. CASE kind # "sua"
      BY <2>4, <3>1, <3>3
    <3> QED BY <3>2, <3>3
  <2>6. UNCHANGED call /\ UNCHANGED key /\ UNCHANGED begin /\ UNCHANGED cache /\ UNCHANGED iterations
    BY <2>1
  <2>7. status' \in Statuses
    <3>1. Written(s) \in Statuses
      BY <1>2, ValueFacts, StatusIs
    <3> HIDE DEF s
    <3> QED BY <2>1, <3>1 DEF Statuses
  <2> HIDE DEF s
  <2>8. /\ Len(out') = Len(out) + Len(s) /\ Len(out') \in Nat /\ Len(s) \in Nat
        /\ begin \in 0 .. Len(out') /\ ptr \in 0 .. Len(out') /\ Len(out') \in 0 .. Len(out')
        /\ \A h \in HeaderSet : FitsIn(cache[h], Len(out'))
    BY <1>2, <2>1, <2>5, <2>6, WrittenOn
  <2>9. ptr' \in 0 .. Len(out') /\ ptr' \in Nat /\ begin <= ptr'
    <3>1. begin \in Nat /\ begin <= Len(out) /\ Len(out) \in Nat
      BY <1>2, ValueFacts
    <3>2. ptr' = Len(out') \/ (ptr' = Len(out) + 1 /\ Len(s) >= 1)
      BY <2>1, <2>5 DEF Versioned
    <3> QED BY <2>8, <3>1, <3>2
  <2>10. Follows /\ pc' \in Pcs \ {"decode", "keys"}
    <3>1. pc' \in Brands
      BY <2>1 DEF Brands
    <3> QED BY <1>2, <2>6, <2>9, <3>1, FollowsBrand
  <2> HIDE DEF Pcs, Statuses
  <2>11. /\ NamesWritten /\ iterations' \in Nat /\ key' \in HeaderSet \cup {Undefined}
         /\ cache' \in [HeaderSet -> Regions] /\ begin' \in 0 .. Len(out')
         /\ at' \in 1 .. Last
    BY <1>2, <2>1, <2>4, <2>6, <2>8, ValueFacts
  <2> QED BY <2>1, <2>5, <2>6, <2>7, <2>8, <2>9, <2>10, <2>11, Assemble
<1> QED BY <1>3, <1>4

LEMMA EndBrandStep ==
    ASSUME ParseInv, EndBrand
    PROVE  ParseInv' /\ Moves
<1> DEFINE brace == Past(at, "}")
           next == SkipSpace(brace)
           separated == IF kind = "sua" THEN Current(ptr) # Current(begin) ELSE named
           r == Region(begin, ptr, status)
           delivered == Current(ptr) # Current(begin)
<1>1. pc = "endBrand" /\ pc \in Brands
  BY DEF EndBrand, Brands
<1>2. pc \in Reading /\ IsBrands /\ begin <= ptr /\ ~ IsPlatform /\ pc # "platformVersion"
  BY <1>1, BrandsFacts
<1>3. IsText /\ at \in 1 .. Last
  BY <1>2, ValueFacts
<1>4. brace # 0 => next \in 1 .. Last
  <2> HAVE brace # 0
  <2>1. "}" # NUL
    BY DEF NUL
  <2>2. brace \in 0 .. Last
    BY <1>3, <2>1, InText, PastInText
  <2> HIDE DEF brace
  <2>3. brace \in 1 .. Last
    BY <1>3, <2>2, InText
  <2> QED BY <1>3, <2>3, SpaceInText
<1>5. CASE brace = 0 \/ Sym(next) \notin {"]", ","}
  <2>1. Invalid /\ pc \in Reading \cup {"key"}
    <3> HIDE DEF brace, next
    <3> QED BY <1>2, <1>5 DEF EndBrand, brace, next
  <2> QED BY <2>1, InvalidStep
<1>6. CASE brace # 0 /\ Sym(next) = "]"
  <2>1. /\ cache' = IF ~ delivered THEN cache ELSE [cache EXCEPT ![key] = r]
        /\ Read(status, delivered, next)
        /\ UNCHANGED <<call, out, key, begin, ptr, iterations>>
    BY <1>6 DEF EndBrand
  <2>2. UNCHANGED <<call, out>> /\ UNCHANGED call
    BY <2>1
  <2> HIDE DEF brace, next, delivered
  <2>3. /\ at' \in 1 .. Last /\ status' = status
        /\ pc' \in {"key", "complete", "callback"}
        /\ pc' = "callback" => delivered
    BY <1>3, <1>4, <1>6, <2>1, ReadEnds
  <2>4. r \in Regions /\ FitsIn(r, Len(out')) /\ r.from = Current(begin)
    <3>1. /\ begin \in Nat /\ ptr \in Nat /\ Len(out') \in Nat /\ ptr <= Len(out')
          /\ length \in Nat /\ Names <= begin
      BY <1>2, <2>2, ValueFacts
    <3> QED BY <1>2, <1>3, <3>1, RegionFits
  <2> HIDE DEF r, HeaderSet
  <2>5. /\ cache' \in [HeaderSet -> Regions]
        /\ \A h \in HeaderSet : FitsIn(cache'[h], Len(out'))
        /\ delivered => cache'[key] = r
    <3>1. cache \in [HeaderSet -> Regions] /\ key \in HeaderSet
      BY <1>2, ValueFacts
    <3>2. \A h \in HeaderSet : FitsIn(cache[h], Len(out'))
      BY <2>2, Unwritten
    <3>3. CASE ~ delivered
      BY <2>1, <3>1, <3>2, <3>3
    <3>4. CASE delivered
      <4>1. cache' = [cache EXCEPT ![key] = r]
        BY <2>1, <3>4
      <4> QED BY <2>4, <3>1, <3>2, <4>1, CacheWith
    <3> QED BY <3>3, <3>4
  <2>6. Follows /\ pc' \in Pcs \ {"decode", "keys"}
    <3>1. pc' = "callback" => After(cache'[key], Current(begin))
      <4>1. Current(begin) <= Current(begin)
        BY <1>2, ValueFacts
      <4> QED BY <2>3, <2>4, <2>5, <4>1 DEF After
    <3> QED BY <1>2, <2>1, <2>3, <3>1, ValueFacts, FollowsRead
  <2>7. NamesWritten
    BY <1>2, ValueFacts
  <2> HIDE DEF Symbol, Pcs, Statuses
  <2> QED BY <2>1, <2>2, <2>3, <2>5, <2>6, <2>7, Unwritten, Assemble
<1>7. CASE brace # 0 /\ Sym(next) = ","
  <2> DEFINE s == IF separated THEN <<",", " ">> ELSE <<>>
  <2>1. /\ out' = IF separated THEN out \o <<",", " ">> ELSE out
        /\ status' = IF separated THEN Written(<<",", " ">>) ELSE status
        /\ ptr' = IF separated THEN Len(out') ELSE ptr
        /\ at' = next + 1
        /\ pc' = "brand"
        /\ UNCHANGED <<call, cache, key, begin, iterations>>
    BY <1>7 DEF EndBrand
  <2>2. s \in Seq(Symbol)
    <3>1. "," \in Symbol /\ " " \in Symbol
      BY DEF Symbol
    <3> HIDE DEF Symbol, separated
    <3> QED BY <3>1, Singles
  <2> HIDE DEF Symbol, HeaderSet, separated
  <2>3. out' = out \o s
    <3>1. out \in Seq(Symbol)
      BY <1>2, ValueFacts
    <3>2. out \o <<>> = out
      BY <3>1, ConcatEmptySeq
    <3> QED BY <2>1, <3>2
  <2>4. at' \in 1 .. Last
    <3>1. Sym(next) # NUL /\ next \in 1 .. Last
      BY <1>4, <1>7 DEF NUL
    <3> HIDE DEF next
    <3> QED BY <1>3, <2>1, <3>1, InText
  <2>5. UNCHANGED call /\ UNCHANGED key /\ UNCHANGED begin /\ UNCHANGED cache /\ UNCHANGED iterations
    BY <2>1
  <2>6. status' \in Statuses
    <3>1. Written(<<",", " ">>) \in Statuses /\ status \in Statuses
      BY <1>2, ValueFacts, StatusIs
    <3> HIDE DEF Statuses
    <3> QED BY <2>1, <3>1
  <2> HIDE DEF s
  <2>7. /\ Len(out') = Len(out) + Len(s) /\ Len(out') \in Nat /\ Len(s) \in Nat
        /\ begin \in 0 .. Len(out') /\ ptr \in 0 .. Len(out') /\ Len(out') \in 0 .. Len(out')
        /\ \A h \in HeaderSet : FitsIn(cache[h], Len(out'))
    BY <1>2, <2>2, <2>3, <2>5, WrittenOn
  <2>8. ptr' \in 0 .. Len(out') /\ ptr' \in Nat /\ begin <= ptr'
    <3>1. begin \in Nat /\ begin <= Len(out) /\ Len(out) \in Nat /\ ptr \in Nat
      BY <1>2, ValueFacts
    <3>2. ptr' = Len(out') \/ ptr' = ptr
      BY <2>1
    <3> QED BY <1>2, <2>7, <3>1, <3>2
  <2>9. Follows /\ pc' \in Pcs \ {"decode", "keys"}
    <3>1. pc' \in Brands
      BY <2>1 DEF Brands
    <3> QED BY <1>2, <2>5, <2>8, <3>1, FollowsBrand
  <2> HIDE DEF Pcs, Statuses
  <2>10. /\ NamesWritten /\ iterations' \in Nat /\ key' \in HeaderSet \cup {Undefined}
         /\ cache' \in [HeaderSet -> Regions] /\ begin' \in 0 .. Len(out')
    BY <1>2, <2>5, <2>7, ValueFacts
  <2> QED BY <2>2, <2>3, <2>4, <2>5, <2>6, <2>7, <2>8, <2>9, <2>10, Assemble
<1> QED BY <1>5, <1>6, <1>7

LEMMA PlatformHeaders ==
    /\ "PLATFORM" \in HeaderSet /\ "PLATFORMVERSION" \in HeaderSet
    /\ "PLATFORM" # "PLATFORMVERSION"
<1>1. DOMAIN Headers = 1 .. 8
  BY DEF Headers
<1>2. Headers[7] \in HeaderSet /\ Headers[8] \in HeaderSet
  BY <1>1 DEF HeaderSet
<1> QED BY <1>2 DEF Headers

LEMMA ReadPlatformStep ==
    ASSUME ParseInv, ReadPlatform
    PROVE  ParseInv' /\ Moves
<1> DEFINE brand == Member(Past(at, "{"), "brand")
           s == StringAt(brand)
           st == StatusOf(s, <<>>)
           next == SkipSpace(s.end)
           r == Region(begin, Len(out'), st)
           ends == s.type = "null" \/ Sym(next) = "}"
<1>1. pc = "value" /\ IsPlatform /\ pc \in Reading /\ pc # "platformVersion"
  BY DEF ReadPlatform, Reading
<1>2. key = "PLATFORM"
  BY <1>1 DEF IsPlatform
<1>3. CASE brand = 0
  <2>1. Invalid /\ pc \in Reading \cup {"key"}
    BY <1>1, <1>3 DEF ReadPlatform
  <2> QED BY <2>1, InvalidStep
<1>4. CASE brand # 0
  <2>1. /\ out' = out \o s.text
        /\ begin' = IF s.type = "null" THEN begin ELSE Len(out')
        /\ cache' = IF s.type = "null" THEN cache
                    ELSE [cache EXCEPT ![key] = r, !["PLATFORMVERSION"] = NoValue]
        /\ IF ends THEN Read(st, s.type # "null", next)
           ELSE status' = st /\ at' = next /\ pc' = "platformVersion"
        /\ UNCHANGED <<call, key, ptr, iterations>>
    BY <1>4 DEF ReadPlatform
  <2>2. brand \in 1 .. Last
    <3>1. "{" # NUL /\ "brand" # NUL
      BY DEF NUL
    <3>2. IsText /\ at \in 1 .. Last
      BY <1>1, ValueFacts
    <3>3. brand \in 0 .. Last
      BY <3>1, <3>2, MemberInText
    <3> HIDE DEF brand
    <3> QED BY <1>4, <3>2, <3>3, InText
  <2>3. s \in StringSet
    <3> HIDE DEF brand
    <3> QED BY <1>1, <2>2, ValueFacts, StringEnds
  <2>4. s.end \in 1 .. Last /\ s.text \in Seq(Symbol)
    <3> HIDE DEF s, Symbol
    <3> QED BY <2>3 DEF StringSet
  <2>5. next \in 1 .. Last
    <3> HIDE DEF s
    <3> QED BY <1>1, <2>4, ValueFacts, SpaceInText
  <2>6. st \in Statuses
    BY <1>1, ValueFacts, StatusIs
  <2> HIDE DEF Symbol, HeaderSet, s, st, next, Statuses
  <2>7. /\ at' \in 1 .. Last /\ status' = st
        /\ pc' \in {"key", "complete", "callback", "platformVersion"}
        /\ pc' \in {"callback", "platformVersion"} => s.type # "null"
    <3>1. CASE ends
      <4>1. Read(st, s.type # "null", next)
        BY <2>1, <3>1
      <4> QED BY <1>1, <2>5, <4>1, ValueFacts, ReadEnds
    <3>2. CASE ~ ends
      BY <2>1, <2>5, <3>2
    <3> QED BY <3>1, <3>2
  <2>8. UNCHANGED call /\ UNCHANGED key /\ UNCHANGED ptr /\ UNCHANGED iterations
    BY <2>1
  <2>9. /\ Len(out') = Len(out) + Len(s.text) /\ Len(s.text) \in Nat /\ Len(out') \in Nat
        /\ begin \in 0 .. Len(out') /\ ptr \in 0 .. Len(out') /\ Len(out') \in 0 .. Len(out')
        /\ \A h \in HeaderSet : FitsIn(cache[h], Len(out'))
    BY <1>1, <2>1, <2>4, <2>8, WrittenOn
  <2>10. begin <= Len(out') /\ begin \in Nat /\ Names <= begin /\ Names <= Len(out')
    <3>1. Names \in Nat /\ begin \in Nat /\ Names <= begin
      BY <1>1, ValueFacts, PositionsAre
    <3> QED BY <2>9, <3>1
  <2>11. /\ r \in Regions /\ FitsIn(r, Len(out')) /\ r.from = Current(begin)
         /\ r.from + r.length = Current(Len(out'))
    <3>1. Len(out') <= Len(out') /\ length \in Nat /\ IsText
      BY <1>1, <2>9, ValueFacts
    <3> QED BY <2>9, <2>10, <3>1, RegionFits
  <2> HIDE DEF r
  <2>12. /\ cache' \in [HeaderSet -> Regions]
         /\ \A h \in HeaderSet : FitsIn(cache'[h], Len(out'))
         /\ s.type # "null" => cache'["PLATFORM"] = r /\ cache'["PLATFORMVERSION"] = NoValue
    <3>1. cache \in [HeaderSet -> Regions] /\ key \in HeaderSet
      BY <1>1, ValueFacts
    <3>2. CASE s.type = "null"
      BY <2>1, <2>9, <3>1, <3>2
    <3>3. CASE s.type # "null"
      <4> DEFINE c == [cache EXCEPT ![key] = r]
      <4>1. cache' = [c EXCEPT !["PLATFORMVERSION"] = NoValue]
        BY <2>1, <3>3
      <4>2. /\ c \in [HeaderSet -> Regions]
            /\ \A h \in HeaderSet : FitsIn(c[h], Len(out'))
            /\ c[key] = r
        BY <2>9, <2>11, <3>1, CacheWith
      <4> HIDE DEF c
      <4>3. NoValue \in Regions /\ FitsIn(NoValue, Len(out'))
        BY NoValueFits
      <4>4. /\ cache' \in [HeaderSet -> Regions]
            /\ \A h \in HeaderSet : FitsIn(cache'[h], Len(out'))
            /\ cache'["PLATFORMVERSION"] = NoValue
            /\ \A h \in HeaderSet \ {"PLATFORMVERSION"} : cache'[h] = c[h]
        BY <4>1, <4>2, <4>3, PlatformHeaders, CacheWith
      <4>5. cache'["PLATFORM"] = r
        BY <1>2, <4>2, <4>4, PlatformHeaders
      <4> QED BY <4>4, <4>5
    <3> QED BY <3>2, <3>3
  <2>13. Follows /\ pc' \in Pcs \ {"decode", "keys"}
    <3>1. CASE pc' \in {"key", "complete"}
      BY <3>1, FollowsEnd
    <3>2. CASE pc' \in {"callback", "platformVersion"}
      <4>1. /\ s.type # "null" /\ key' = key /\ key \in HeaderSet
            /\ begin' = Len(out')
            /\ cache'["PLATFORM"] = r /\ cache'["PLATFORMVERSION"] = NoValue
        BY <1>1, <2>1, <2>7, <2>8, <2>12, <3>2, ValueFacts
      <4>2. After(r, Current(begin))
        <5>1. Current(begin) <= Current(begin)
          BY <1>1, ValueFacts
        <5> QED BY <2>11, <5>1 DEF After
      <4>3. After(NoValue, Current(begin)) /\ Apart(r, NoValue)
        BY NoValueFits DEF After, Apart
      <4>4. Before(r, Current(begin'))
        <5>1. Current(Len(out')) <= Current(Len(out'))
          BY <1>1, <2>9, ValueFacts, CurrentIs
        <5> QED BY <2>11, <4>1, <5>1 DEF Before
      <4>5. Delivers
        BY <1>1, <1>2, <4>1, <4>2, <4>3 DEF Delivers
      <4>6. pc' # "value" /\ pc' \notin Brands
        BY <3>2 DEF Brands
      <4>7. Follows
        BY <1>1, <2>10, <4>1, <4>3, <4>4, <4>5, <4>6 DEF Follows
      <4> QED BY <3>2, <4>7 DEF Pcs, Reading
    <3> QED BY <2>7, <3>1, <3>2
  <2> HIDE DEF Pcs
  <2>14. /\ NamesWritten /\ iterations' \in Nat /\ key' \in HeaderSet \cup {Undefined}
         /\ begin' \in 0 .. Len(out') /\ ptr' \in 0 .. Len(out')
    BY <1>1, <2>1, <2>8, <2>9, ValueFacts
  <2> QED BY <2>1, <2>4, <2>6, <2>7, <2>8, <2>12, <2>13, <2>14, Assemble
<1> QED BY <1>3, <1>4

LEMMA ReadPlatformVersionStep ==
    ASSUME ParseInv, ReadPlatformVersion
    PROVE  ParseInv' /\ Moves
<1> DEFINE version == IF Sym(at) = "," THEN Member(at + 1, "version") ELSE 0
           list == Past(version, "[")
           v == VersionAt(list)
           s == <<Quote>> \o v.text
           st == IF v.type = "invalid" THEN "INVALID_INPUT" ELSE Written(s)
           end == Versioned(v)
           r == Region(begin, end, st)
<1>1. pc = "platformVersion" /\ pc \in Reading
  BY DEF ReadPlatformVersion, Reading
<1>2. IsPlatform /\ key = "PLATFORM" /\ Before(cache["PLATFORM"], Current(begin))
  BY <1>1 DEF ParseInv, ValuesInv, IsPlatform
<1>3. CASE list = 0 \/ Sym(list) = NUL
  <2>1. Invalid /\ pc \in Reading \cup {"key"}
    BY <1>1, <1>3 DEF ReadPlatformVersion
  <2> QED BY <2>1, InvalidStep
<1>4. CASE ~ (list = 0 \/ Sym(list) = NUL)
  <2>1. /\ out' = out \o s
        /\ cache' = [cache EXCEPT !["PLATFORMVERSION"] = r]
        /\ Read(st, TRUE, v.end)
        /\ UNCHANGED <<call, key, begin, ptr, iterations>>
    BY <1>4 DEF ReadPlatformVersion
  <2>2. list \in 1 .. Last
    <3>1. "," # NUL /\ "version" # NUL /\ "[" # NUL
      BY DEF NUL
    <3>2. IsText /\ at \in 1 .. Last
      BY <1>1, ValueFacts
    <3>3. version \in 0 .. Last
      <4>1. CASE Sym(at) = ","
        <5>1. at + 1 \in 0 .. Last
          BY <3>1, <3>2, <4>1, InText
        <5> QED BY <3>1, <3>2, <4>1, <5>1, MemberEnds
      <4>2. CASE Sym(at) # ","
        <5>1. 0 \in 0 .. Last
          BY <3>2, TextEnds
        <5> QED BY <4>2, <5>1
      <4> QED BY <4>1, <4>2
    <3>4. list \in 0 .. Last
      <4> HIDE DEF version
      <4> QED BY <3>1, <3>2, <3>3, PastInText
    <3> HIDE DEF version, list
    <3> QED BY <1>4, <3>2, <3>4, InText
  <2>3. v \in VersionSet /\ v.end \in list .. Last
    <3> HIDE DEF list
    <3> QED BY <1>1, <2>2, ValueFacts, VersionEnds
  <2> HIDE DEF v
  <2>4. v.end \in 1 .. Last /\ v.text \in Seq(Symbol)
    <3>1. v.end \in 1 .. Last
      BY <1>1, <2>2, <2>3, ValueFacts, InText
    <3> HIDE DEF Symbol
    <3> QED BY <2>3, <3>1 DEF VersionSet
  <2> HIDE DEF Symbol, HeaderSet, list
  <2>5. s \in Seq(Symbol) /\ Len(s) >= 1
    BY <2>4, QuotedVersion
  <2>6. st \in Statuses
    <3>1. Written(s) \in Statuses
      BY <1>1, ValueFacts, StatusIs
    <3> HIDE DEF s
    <3> QED BY <3>1 DEF Statuses
  <2> HIDE DEF s, st, Statuses
  <2>7. /\ at' \in 1 .. Last /\ status' = st
        /\ pc' \in {"key", "complete", "callback"}
    BY <1>1, <2>1, <2>4, ValueFacts, ReadEnds
  <2>8. UNCHANGED call /\ UNCHANGED key /\ UNCHANGED begin /\ UNCHANGED ptr /\ UNCHANGED iterations
    BY <2>1
  <2>9. /\ Len(out') = Len(out) + Len(s) /\ Len(s) \in Nat /\ Len(out') \in Nat
        /\ begin \in 0 .. Len(out') /\ ptr \in 0 .. Len(out')
        /\ \A h \in HeaderSet : FitsIn(cache[h], Len(out'))
    BY <1>1, <2>1, <2>5, <2>8, WrittenOn
  <2>10. r \in Regions /\ FitsIn(r, Len(out')) /\ r.from = Current(begin)
    <3>1. end = Len(out') \/ end = Len(out) + 1
      BY DEF Versioned
    <3> HIDE DEF end
    <3>2. /\ begin \in Nat /\ Names <= begin /\ begin <= Len(out) /\ Len(out) \in Nat
          /\ length \in Nat /\ IsText
      BY <1>1, ValueFacts
    <3>3. end \in Nat /\ begin <= end /\ end <= Len(out')
      BY <2>5, <2>9, <3>1, <3>2
    <3> QED BY <2>9, <3>2, <3>3, RegionFits
  <2> HIDE DEF r
  <2>11. /\ cache' \in [HeaderSet -> Regions]
         /\ \A h \in HeaderSet : FitsIn(cache'[h], Len(out'))
         /\ cache'["PLATFORMVERSION"] = r /\ cache'["PLATFORM"] = cache["PLATFORM"]
    <3>1. cache \in [HeaderSet -> Regions]
      BY <1>1, ValueFacts
    <3>2. /\ cache' \in [HeaderSet -> Regions]
          /\ \A h \in HeaderSet : FitsIn(cache'[h], Len(out'))
          /\ cache'["PLATFORMVERSION"] = r
          /\ \A h \in HeaderSet \ {"PLATFORMVERSION"} : cache'[h] = cache[h]
      BY <2>1, <2>9, <2>10, <3>1, PlatformHeaders, CacheWith
    <3> QED BY <3>2, PlatformHeaders
  <2>12. Follows /\ pc' \in Pcs \ {"decode", "keys"}
    <3>1. CASE pc' \in {"key", "complete"}
      BY <3>1, FollowsEnd
    <3>2. CASE pc' = "callback"
      <4>1. After(r, Current(begin))
        <5>1. Current(begin) <= Current(begin)
          BY <1>1, ValueFacts
        <5> QED BY <2>10, <5>1 DEF After
      <4>2. Apart(cache'["PLATFORM"], cache'["PLATFORMVERSION"])
        BY <1>2, <2>10, <2>11 DEF Apart
      <4>3. Delivers
        BY <1>1, <2>8, <2>11, <4>1 DEF Delivers
      <4>4. pc' # "value" /\ pc' \notin Brands /\ pc' # "platformVersion" /\ pc' \notin Reading
        BY <3>2 DEF Brands, Reading
      <4>5. key' \in HeaderSet
        BY <1>1, <2>8, ValueFacts
      <4>6. Follows
        BY <4>2, <4>3, <4>4, <4>5 DEF Follows
      <4> QED BY <3>2, <4>6 DEF Pcs
    <3> QED BY <2>7, <3>1, <3>2
  <2> HIDE DEF Pcs
  <2>13. /\ NamesWritten /\ iterations' \in Nat /\ key' \in HeaderSet \cup {Undefined}
         /\ begin' \in 0 .. Len(out') /\ ptr' \in 0 .. Len(out')
    BY <1>1, <2>8, <2>9, ValueFacts
  <2> QED BY <2>1, <2>5, <2>6, <2>7, <2>8, <2>11, <2>12, <2>13, Assemble
<1> QED BY <1>3, <1>4

\* A step before the keys are read, or after: it writes s and goes on.
LEMMA WritesOn ==
    ASSUME ParseInv, NEW s \in Seq(Symbol), out' = out \o s,
           UNCHANGED <<call, cache, key, begin, ptr, iterations>>,
           at' \in 1 .. Last, status' \in Statuses,
           pc' \in {"keys", "key", "complete", "returned"},
           pc' = "keys" => Len(out') = Decoded,
           pc' = "key" => NamesWritten'
    PROVE  ParseInv' /\ Moves
<1>1. TypeInv /\ ValuesInv /\ UNCHANGED call
  BY DEF ParseInv
<1>2. /\ begin \in 0 .. Len(out) /\ ptr \in 0 .. Len(out) /\ iterations \in Nat
      /\ key \in HeaderSet \cup {Undefined} /\ cache \in [HeaderSet -> Regions]
      /\ \A h \in HeaderSet : Fits(cache[h])
  BY <1>1 DEF TypeInv, ValuesInv
<1> HIDE DEF Symbol, HeaderSet
<1>3. /\ Len(out) \in Nat /\ Len(s) \in Nat /\ Len(out') = Len(out) + Len(s)
      /\ \A v \in Regions : Fits(v) => FitsIn(v, Len(out'))
  BY <1>1, Grown
<1>4. /\ begin' \in 0 .. Len(out') /\ ptr' \in 0 .. Len(out')
  <2>1. \A n \in 0 .. Len(out) : n \in 0 .. Len(out')
    BY <1>3
  <2> QED BY <1>2, <2>1
<1>5. \A h \in HeaderSet : FitsIn(cache'[h], Len(out'))
  BY <1>2, <1>3
<1>6. /\ iterations' \in Nat /\ key' \in HeaderSet \cup {Undefined}
      /\ cache' \in [HeaderSet -> Regions]
  BY <1>2
<1>7. Follows /\ pc' \in Pcs \ {"decode"}
  BY FollowsEnd
<1>8. pc' \in Reading \cup {"key", "callback"} => NamesWritten \/ NamesWritten'
  BY DEF Reading, Brands
<1> HIDE DEF Pcs, Statuses
<1> QED BY <1>1, <1>4, <1>5, <1>6, <1>7, <1>8, AssembleAny

LEMMA DecodeStep ==
    ASSUME ParseInv, Decode
    PROVE  ParseInv' /\ Moves
<1> DEFINE n == DecodedLength(Len(text))
           s == [i \in 1 .. n |-> Sym(i)]
<1>1. /\ pc = "decode" /\ kind = "base64" /\ out' = s /\ status' = Written(s)
      /\ pc' \in {"keys", "key", "complete", "returned"} /\ pc' # "key"
      /\ UNCHANGED <<call, cache, key, begin, ptr, iterations>> /\ at' = at
  BY DEF Decode
<1>2. TypeInv /\ NamesInv
  BY DEF ParseInv
<1>3. IsText /\ at \in 1 .. Last /\ status \in Statuses /\ out = <<>>
  BY <1>1, <1>2 DEF TypeInv, NamesInv
<1>4. n = Decoded /\ n \in Nat
  BY <1>1, <1>3, PositionsAre DEF Decoded
<1> HIDE DEF n
<1>5. s \in Seq(Symbol) /\ Len(s) = n
  <2>1. \A i \in 1 .. n : Sym(i) \in Symbol
    BY <1>3, SymbolsAre
  <2> HIDE DEF Symbol
  <2> QED BY <1>4, <2>1
<1> HIDE DEF s, Symbol
<1>6. out' = out \o s
  BY <1>1, <1>3, <1>5, ConcatEmptySeq
<1>7. status' \in Statuses
  BY <1>1, <1>3, StatusIs
<1> HIDE DEF Statuses
<1> QED BY <1>1, <1>3, <1>4, <1>5, <1>6, <1>7, WritesOn

LEMMA DecodeBrokenStep ==
    ASSUME ParseInv, DecodeBroken
    PROVE  ParseInv' /\ Moves
<1>1. PICK n \in {0, 3} : out' = [i \in 1 .. n |-> NUL]
  BY DEF DecodeBroken
<1> DEFINE s == [i \in 1 .. n |-> NUL]
<1>2. /\ pc = "decode" /\ pc' = "returned" /\ status' = "INVALID_INPUT"
      /\ UNCHANGED <<call, cache, key, begin, ptr, iterations>> /\ at' = at
  BY DEF DecodeBroken
<1>3. at \in 1 .. Last /\ out = <<>>
  BY <1>2 DEF ParseInv, TypeInv, NamesInv
<1>4. s \in Seq(Symbol)
  <2>1. NUL \in Symbol
    BY DEF Symbol
  <2> HIDE DEF Symbol
  <2>2. n \in Nat
    OBVIOUS
  <2> QED BY <2>1, <2>2
<1> HIDE DEF Symbol
<1>5. out' = out \o s
  <2>1. out' = s
    BY <1>1
  <2> HIDE DEF s
  <2> QED BY <1>3, <1>4, <2>1, ConcatEmptySeq
<1>6. status' \in Statuses
  BY <1>2 DEF Statuses
<1>7. pc' \in {"keys", "key", "complete", "returned"} /\ pc' # "keys" /\ pc' # "key"
  BY <1>2
<1> HIDE DEF s, Statuses
<1> QED BY <1>2, <1>3, <1>4, <1>5, <1>6, <1>7, WritesOn

LEMMA WriteKeysStep ==
    ASSUME ParseInv, WriteKeys
    PROVE  ParseInv' /\ Moves
<1> DEFINE open == SkipSpace(1)
<1>1. /\ pc = "keys" /\ out' = out \o Headers
      /\ IF Sym(open) = "{"
         THEN at' = Skip(open, Quote) /\ status' = Written(Headers) /\ pc' = "key"
         ELSE at' = open /\ status' = "INVALID_INPUT" /\ pc' = "complete"
      /\ UNCHANGED <<call, cache, key, begin, ptr, iterations>>
  BY DEF WriteKeys
<1>2. TypeInv /\ NamesInv
  BY DEF ParseInv
<1>3. IsText /\ status \in Statuses /\ Len(out) = Decoded
  BY <1>1, <1>2 DEF TypeInv, NamesInv
<1>4. open \in 1 .. Last
  BY <1>3, InText, SpaceInText
<1>5. at' \in 1 .. Last
  <2>1. Quote # NUL
    BY DEF Quote, NUL
  <2>2. Skip(open, Quote) \in open .. Last
    BY <1>3, <1>4, <2>1, SkipInText
  <2> HIDE DEF open
  <2>3. Skip(open, Quote) \in 1 .. Last
    BY <1>3, <1>4, <2>2, InText
  <2> QED BY <1>1, <1>4, <2>3
<1>6. status' \in Statuses /\ pc' \in {"key", "complete"}
  <2>1. Written(Headers) \in Statuses
    BY <1>3, StatusIs
  <2> HIDE DEF open
  <2> QED BY <1>1, <2>1 DEF Statuses
<1>7. Headers \in Seq(Symbol)
  <2>1. Headers \in Seq(HeaderSet)
    BY <1>3, PositionsAre
  <2>2. \A h \in HeaderSet : h \in Symbol
    BY DEF Symbol
  <2> HIDE DEF Symbol, HeaderSet
  <2> QED BY <2>1, <2>2
<1>8. NamesWritten'
  <2> HIDE DEF Symbol
  <2>1. /\ Len(out') = Len(out) + Len(Headers)
        /\ \A p \in 1 .. Len(Headers) : out'[Len(out) + p] = Headers[p]
    BY <1>1, <1>2, <1>7, Grown
  <2>2. Len(Headers) = 8 /\ Names = Decoded + 8 /\ Decoded \in Nat /\ Names' = Names
    BY <1>1, <1>3, PositionsAre, CallKept
  <2>3. Names' <= Len(out')
    BY <1>3, <2>1, <2>2
  <2>4. ASSUME NEW h \in HeaderSet PROVE out'[KeyPosition(h)'] = h
    <3>1. PICK i \in 1 .. 8 : Headers[i] = h /\ KeyPosition(h) = Decoded + i
      BY <1>3, PositionsAre
    <3>2. KeyPosition(h)' = Decoded + i
      BY <1>1, <3>1, CallKept
    <3>3. out'[Decoded + i] = Headers[i]
      BY <1>3, <2>1, <2>2
    <3> QED BY <3>1, <3>2, <3>3
  <2> QED BY <2>3, <2>4 DEF NamesWritten
<1>9. pc' \in {"keys", "key", "complete", "returned"} /\ pc' # "keys"
  BY <1>6
<1> HIDE DEF Symbol, Statuses, open
<1> QED BY <1>1, <1>5, <1>6, <1>7, <1>8, <1>9, WritesOn

LEMMA CompleteStep ==
    ASSUME ParseInv, Complete
    PROVE  ParseInv' /\ Moves
<1>1. /\ out' = Append(out, NUL) /\ pc' = "returned" /\ status' = status /\ at' = at
      /\ UNCHANGED <<call, cache, key, begin, ptr, iterations>>
  BY DEF Complete
<1>2. /\ at \in 1 .. Last /\ status \in Statuses /\ out \in Seq(Symbol)
  BY DEF ParseInv, TypeInv
<1>3. <<NUL>> \in Seq(Symbol)
  <2>1. NUL \in Symbol
    BY DEF Symbol
  <2> HIDE DEF Symbol
  <2> QED BY <2>1, Singles
<1> HIDE DEF Symbol
<1>4. out' = out \o <<NUL>>
  BY <1>1, <1>2, <1>3
<1>5. pc' \in {"keys", "key", "complete", "returned"} /\ pc' # "keys" /\ pc' # "key"
  BY <1>1
<1> HIDE DEF Statuses
<1> QED BY <1>1, <1>2, <1>3, <1>4, <1>5, WritesOn

\* Every step of a call keeps what the callers rely on.
LEMMA ParseKeeps ==
    ASSUME ParseInv, Parse
    PROVE  ParseInv' /\ Moves
<1>1. CASE Decode
  BY <1>1, DecodeStep
<1>2. CASE DecodeBroken
  BY <1>2, DecodeBrokenStep
<1>3. CASE WriteKeys
  BY <1>3, WriteKeysStep
<1>4. CASE EndOfText
  BY <1>4, EndOfTextStep
<1>5. CASE BadKey
  BY <1>5, BadKeyStep
<1>6. CASE SkipKey
  BY <1>6, SkipKeyStep
<1>7. CASE ReadKey
  BY <1>7, ReadKeyStep
<1>8. CASE ReadPureString
  BY <1>8, ReadPureStringStep
<1>9. CASE ReadBool
  BY <1>9, ReadBoolStep
<1>10. CASE ReadBrands
  BY <1>10, ReadBrandsStep
<1>11. CASE NoBrands
  BY <1>11, NoBrandsStep
<1>12. CASE ReadBrand
  BY <1>12, ReadBrandStep
<1>13. CASE ReadVersion
  BY <1>13, ReadVersionStep
<1>14. CASE EndBrand
  BY <1>14, EndBrandStep
<1>15. CASE ReadPlatform
  BY <1>15, ReadPlatformStep
<1>16. CASE ReadPlatformVersion
  BY <1>16, ReadPlatformVersionStep
<1>17. CASE Complete
  BY <1>17, CompleteStep
<1> QED BY <1>1, <1>2, <1>3, <1>4, <1>5, <1>6, <1>7, <1>8, <1>9, <1>10, <1>11, <1>12,
           <1>13, <1>14, <1>15, <1>16, <1>17 DEF Parse

\* The state in which a call starts, and in which a detection does.
Fresh ==
    /\ text \in Seq(STRING) /\ length \in Nat /\ at = 1 /\ out = <<>>
    /\ status = "NOT_SET" /\ cache = [h \in HeaderSet |-> NoValue]
    /\ key = Undefined /\ begin = 0 /\ ptr = 0 /\ iterations = 0
    /\ pc \in {"none", "decode", "keys"}
    /\ pc = "keys" => kind # "base64"

LEMMA FreshIsParsed ==
    Fresh => ParseInv
<1> SUFFICES ASSUME Fresh PROVE ParseInv
  OBVIOUS
<1>1. IsText
  BY DEF Fresh, IsText
<1>2. 1 \in 1 .. Last
  BY <1>1, InText
<1>3. out \in Seq(Symbol) /\ Len(out) = 0
  <2> HIDE DEF Symbol
  <2> QED BY DEF Fresh
<1>4. begin \in 0 .. Len(out) /\ ptr \in 0 .. Len(out)
  BY <1>3 DEF Fresh
<1>5. status \in Statuses /\ pc \in Pcs /\ iterations \in Nat
  BY DEF Fresh, Statuses, Pcs
<1>6. cache \in [HeaderSet -> Regions] /\ \A h \in HeaderSet : Fits(cache[h])
  <2>1. \A h \in HeaderSet : cache[h] = NoValue
    BY DEF Fresh
  <2>2. cache \in [HeaderSet -> Regions]
    BY NoValueFits DEF Fresh
  <2>3. \A h \in HeaderSet : Fits(cache[h])
    BY <2>1, NoValueFits DEF Fits
  <2> QED BY <2>2, <2>3
<1>7. TypeInv
  <2>1. key \in HeaderSet \cup {Undefined} /\ at \in 1 .. Last /\ length \in Nat
    BY <1>2 DEF Fresh
  <2> HIDE DEF Symbol, Statuses, Pcs, HeaderSet
  <2> QED BY <1>1, <1>3, <1>4, <1>5, <1>6, <2>1 DEF TypeInv
<1>8. pc \notin Reading /\ pc # "callback" /\ pc # "key" /\ pc # "value"
      /\ pc # "platformVersion" /\ pc \notin Brands
  BY DEF Fresh, Reading, Brands
<1>9. NamesInv
  <2>1. pc = "keys" => Len(out) = Decoded
    BY <1>3 DEF Fresh, Decoded
  <2> QED BY <1>8, <2>1 DEF NamesInv, Fresh
<1>10. ValuesInv
  BY <1>6, <1>8 DEF ValuesInv
<1> QED BY <1>7, <1>9, <1>10 DEF ParseInv

LEMMA StartKeeps ==
    ASSUME NEW k, NEW t \in Seq(STRING), NEW n \in Nat, Start(k, t, n)
    PROVE  ParseInv'
<1>1. Fresh'
  <2>1. pc' \in {"none", "decode", "keys"} /\ (pc' = "keys" => k # "base64")
    BY DEF Start
  <2> QED BY <2>1 DEF Start, Fresh
<1>2. Fresh' => ParseInv'
  BY FreshIsParsed, PTL
<1> QED BY <1>1, <1>2

LEMMA Unparsed ==
    ASSUME ParseInv, UNCHANGED parse
    PROVE  ParseInv'
<1>1. UNCHANGED call /\ UNCHANGED <<call, at, out, status, cache, key, begin, ptr, iterations, pc>>
  BY DEF parse, call
<1>2. /\ IsText' <=> IsText
      /\ Last' = Last /\ length' = length /\ kind' = kind /\ Names' = Names
      /\ Decoded' = Decoded
      /\ \A h : KeyPosition(h)' = KeyPosition(h)
      /\ \A n : Current(n)' = Current(n)
      /\ \A v, n : FitsIn(v, n)' <=> FitsIn(v, n)
  BY <1>1, CallKept
<1>3. TypeInv /\ NamesInv /\ ValuesInv
  BY DEF ParseInv
<1>4. TypeInv'
  <2> HIDE DEF Symbol, Statuses, Pcs, HeaderSet
  <2> QED BY <1>1, <1>2, <1>3 DEF TypeInv
<1>5. NamesInv'
  BY <1>1, <1>2, <1>3 DEF NamesInv, NamesWritten
<1>6. ValuesInv'
  BY <1>1, <1>2, <1>3 DEF ValuesInv, Fits, IsBrands, IsPlatform, Before, Apart
<1> QED BY <1>4, <1>5, <1>6 DEF ParseInv

LEMMA ResumeKeeps ==
    ASSUME ParseInv, NEW more, Resume(more)
    PROVE  ParseInv'
<1> DEFINE version == IsPlatform /\ cache["PLATFORMVERSION"].length # 0
<1>1. /\ pc = "callback" /\ iterations' = iterations + 1
      /\ pc' \in {"complete", "callback", "key"}
      /\ key' = IF more /\ version THEN "PLATFORMVERSION" ELSE key
      /\ at' = at \/ at' = Skip(at, Quote)
      /\ pc' = "callback" => more /\ version
      /\ UNCHANGED <<call, out, status, cache, begin, ptr>>
  BY DEF Resume
<1>2. TypeInv /\ NamesInv /\ ValuesInv
  BY DEF ParseInv
<1>3. /\ IsText /\ at \in 1 .. Last /\ iterations \in Nat /\ key \in HeaderSet
      /\ out \in Seq(Symbol)
  BY <1>1, <1>2 DEF TypeInv, ValuesInv
<1>4. /\ IsText' /\ Last' = Last /\ kind' = kind /\ Decoded' = Decoded /\ Names' = Names
      /\ \A h : KeyPosition(h)' = KeyPosition(h)
      /\ \A v, n : FitsIn(v, n)' <=> FitsIn(v, n)
  BY <1>1, <1>3, CallKept
<1>5. at' \in 1 .. Last
  <2>1. Quote # NUL
    BY DEF Quote, NUL
  <2>2. Skip(at, Quote) \in 1 .. Last
    BY <1>3, <2>1, SkipInText, InText
  <2> QED BY <1>1, <1>3, <2>2
<1>6. key' \in HeaderSet
  BY <1>1, <1>3, PlatformHeaders
<1>7. TypeInv'
  <2>1. pc' \in Pcs /\ iterations' \in Nat
    BY <1>1, <1>3 DEF Pcs
  <2>2. length' = length /\ out' = out /\ status' = status /\ cache' = cache
        /\ begin' = begin /\ ptr' = ptr
    BY <1>1 DEF call
  <2> HIDE DEF Symbol, Statuses, Pcs, HeaderSet
  <2> QED BY <1>2, <1>4, <1>5, <1>6, <2>1, <2>2 DEF TypeInv
<1>8. NamesInv'
  <2>1. NamesWritten
    BY <1>1, <1>2 DEF NamesInv
  <2>2. NamesWritten'
    BY <1>1, <1>4, <2>1 DEF NamesWritten
  <2>3. pc' # "decode" /\ pc' # "keys"
    BY <1>1
  <2> QED BY <2>2, <2>3 DEF NamesInv
<1>9. ValuesInv'
  <2>1. \A h \in HeaderSet : Fits(cache[h])'
    BY <1>1, <1>2, <1>4 DEF ValuesInv, Fits
  <2>2. pc' \notin Reading /\ pc' # "value" /\ pc' # "platformVersion" /\ pc' \notin Brands
    BY <1>1 DEF Reading, Brands
  <2>3. pc' = "callback" => ~ IsPlatform'
    <3>1. pc' = "callback" => key' = "PLATFORMVERSION"
      BY <1>1
    <3> QED BY <3>1, PlatformHeaders DEF IsPlatform
  <2> QED BY <1>6, <2>1, <2>2, <2>3 DEF ValuesInv
<1> QED BY <1>7, <1>8, <1>9 DEF ParseInv
-----------------------------------------------------------------------------
(* The array of TransformArray.                                              *)

\* The array: values in the order they were written, and before the one that
\* is being read.
ArrayInv ==
    /\ headers \in Seq([key : HeaderSet, value : Regions])
    /\ Len(headers) <= input.capacity
    /\ \A i \in DOMAIN headers :
         /\ Fits(headers[i].value)
         /\ \A j \in 1 .. i - 1 : Apart(headers[j].value, headers[i].value)
         /\ pc \in Reading => Before(headers[i].value, Current(begin))
         /\ pc = "callback" => Apart(headers[i].value, cache[key])
         /\ pc \in {"platformVersion", "callback"} /\ IsPlatform =>
              /\ Apart(headers[i].value, cache["PLATFORM"])
              /\ Apart(headers[i].value, cache["PLATFORMVERSION"])
ArrayIInv == ParseInv /\ input \in Inputs /\ ArrayInv

LEMMA BeforeMore ==
    ASSUME length \in Nat, NEW v \in Regions, NEW m \in Nat, NEW n \in Nat, m <= n,
           Before(v, Current(m))
    PROVE  Before(v, Current(n))
<1>1. Current(m) \in Nat /\ Current(n) \in Nat /\ Current(m) <= Current(n)
  BY CurrentIs
<1>2. v.from \in Nat /\ v.length \in Nat
  BY DEF Regions
<1> QED BY <1>1, <1>2 DEF Before

LEMMA BeforeApart ==
    ASSUME NEW v \in Regions, NEW w \in Regions, NEW n \in Nat, Before(v, n), After(w, n)
    PROVE  Apart(v, w)
<1>1. v.from \in Nat /\ v.length \in Nat /\ w.from \in Nat
  BY DEF Regions
<1> QED BY <1>1 DEF Before, After, Apart

\* A value that was delivered stays where it is, and what is delivered next
\* comes after it.
LEMMA DeliveredBefore ==
    ASSUME ParseInv, ParseInv', Moves, NEW v \in Regions, Fits(v),
           pc \in Reading => Before(v, Current(begin)),
           pc = "platformVersion" => Apart(v, cache["PLATFORM"])
    PROVE  /\ FitsIn(v, Len(out'))
           /\ pc' \in Reading => Before(v, Current(begin'))
           /\ pc' = "callback" => Apart(v, cache'[key'])
           /\ pc' \in {"platformVersion", "callback"} /\ IsPlatform' =>
                Apart(v, cache'["PLATFORM"]) /\ Apart(v, cache'["PLATFORMVERSION"])
<1>1. UNCHANGED call /\ Len(out) <= Len(out') /\ Follows
  BY DEF Moves, Grows
<1>2. TypeInv /\ TypeInv' /\ ValuesInv /\ ValuesInv'
  BY DEF ParseInv
<1>3. /\ length \in Nat /\ Len(out) \in Nat /\ Len(out') \in Nat
      /\ begin \in Nat /\ begin' \in Nat
      /\ cache' \in [HeaderSet -> Regions]
      /\ pc' \in Reading \cup {"callback"} => key' \in HeaderSet
  <2>1. /\ length \in Nat /\ out \in Seq(Symbol) /\ begin \in 0 .. Len(out)
    BY <1>2 DEF TypeInv
  <2>2. /\ out' \in Seq(Symbol)' /\ begin' \in 0 .. Len(out')
        /\ cache' \in [HeaderSet -> Regions]
    BY <1>2 DEF TypeInv
  <2>3. Seq(Symbol)' = Seq(Symbol)
    BY DEF Symbol
  <2>4. pc' \in Reading \cup {"callback"} => key' \in HeaderSet
    BY <1>1 DEF Follows
  <2> HIDE DEF Symbol, HeaderSet
  <2>5. Len(out) \in Nat /\ Len(out') \in Nat
    BY <2>1, <2>2, <2>3
  <2>6. begin \in Nat /\ begin' \in Nat
    BY <2>1, <2>2, <2>5
  <2> QED BY <2>1, <2>2, <2>4, <2>5, <2>6
<1>4. v.from \in Nat /\ v.length \in Nat
  BY DEF Regions
<1>5. Before(v, Current(Len(out)))
  BY DEF Fits, FitsIn, Before
<1>6. FitsIn(v, Len(out'))
  <2>1. Before(v, Current(Len(out')))
    BY <1>1, <1>3, <1>5, BeforeMore
  <2> QED BY <2>1 DEF Fits, FitsIn, Before
<1>7. ASSUME pc' \in Reading PROVE Before(v, Current(begin'))
  <2>1. CASE pc \in Reading
    <3>1. begin <= begin'
      BY <1>1, <1>7, <2>1 DEF Follows
    <3> QED BY <1>3, <2>1, <3>1, BeforeMore
  <2>2. CASE pc \notin Reading
    <3>1. Len(out) <= begin'
      BY <1>1, <1>7, <2>2 DEF Follows
    <3> QED BY <1>3, <1>5, <3>1, BeforeMore
  <2> QED BY <2>1, <2>2
<1>8. ASSUME pc' \in {"callback", "platformVersion"}
      PROVE  /\ Apart(v, cache'[key'])
             /\ IsPlatform' => Apart(v, cache'["PLATFORM"]) /\ Apart(v, cache'["PLATFORMVERSION"])
  <2>1. /\ pc \in Reading /\ key' = key
        /\ IF pc = "platformVersion" THEN cache'["PLATFORM"] = cache["PLATFORM"]
           ELSE After(cache'[key], Current(begin))
        /\ IsPlatform => After(cache'["PLATFORMVERSION"], Current(begin))
    BY <1>1, <1>8 DEF Follows, Delivers
  <2>2. key' \in HeaderSet
    BY <1>3, <1>8 DEF Reading
  <2>3. Before(v, Current(begin)) /\ Current(begin) \in Nat
    BY <1>3, <2>1, CurrentIs
  <2>4. IsPlatform' => IsPlatform /\ key' = "PLATFORM"
    BY <1>1, <2>1 DEF IsPlatform, call
  <2>5. cache'[key'] \in Regions /\ cache'["PLATFORMVERSION"] \in Regions
    <3> HIDE DEF HeaderSet
    <3> QED BY <1>3, <2>2, PlatformHeaders
  <2>6. Apart(v, cache'[key'])
    <3>1. CASE pc = "platformVersion"
      <4>1. key = "PLATFORM"
        BY <1>2, <3>1 DEF ValuesInv, IsPlatform
      <4> QED BY <2>1, <3>1, <4>1
    <3>2. CASE pc # "platformVersion"
      BY <2>1, <2>3, <2>5, <3>2, BeforeApart
    <3> QED BY <3>1, <3>2
  <2>7. IsPlatform' => Apart(v, cache'["PLATFORMVERSION"])
    BY <2>1, <2>3, <2>4, <2>5, BeforeApart
  <2> QED BY <2>4, <2>6, <2>7
<1> QED BY <1>6, <1>7, <1>8

LEMMA HeaderTypes ==
    ASSUME ArrayInv, NEW i \in DOMAIN headers
    PROVE  /\ headers[i].value \in Regions /\ headers[i].key \in HeaderSet
           /\ i \in 1 .. Len(headers) /\ Len(headers) \in Nat
<1> DEFINE S == [key : HeaderSet, value : Regions]
<1>1. headers \in Seq(S)
  BY DEF ArrayInv
<1> HIDE DEF S
<1>2. i \in 1 .. Len(headers) /\ Len(headers) \in Nat /\ headers[i] \in S
  BY <1>1
<1> HIDE DEF HeaderSet, Regions
<1>3. headers[i].value \in Regions /\ headers[i].key \in HeaderSet
  BY <1>2 DEF S
<1> QED BY <1>2, <1>3

LEMMA ParsingKeepsArray ==
    ASSUME ParseInv, ArrayInv, Parsing
    PROVE  ParseInv' /\ ArrayInv'
<1>1. ParseInv' /\ Moves /\ UNCHANGED <<input, headers>>
  BY ParseKeeps DEF Parsing
<1>2. UNCHANGED call
  BY <1>1 DEF Moves, Grows
<1>3. /\ \A n : Current(n)' = Current(n)
      /\ \A v, n : FitsIn(v, n)' <=> FitsIn(v, n)
  BY <1>2, CallKept
<1>4. ASSUME NEW i \in DOMAIN headers
      PROVE  /\ Fits(headers[i].value)'
             /\ \A j \in 1 .. i - 1 : Apart(headers[j].value, headers[i].value)'
             /\ pc' \in Reading => Before(headers[i].value, Current(begin))'
             /\ pc' = "callback" => Apart(headers[i].value, cache[key])'
             /\ pc' \in {"platformVersion", "callback"} /\ IsPlatform' =>
                  /\ Apart(headers[i].value, cache["PLATFORM"])'
                  /\ Apart(headers[i].value, cache["PLATFORMVERSION"])'
  <2> DEFINE v == headers[i].value
  <2>1. v \in Regions
    BY HeaderTypes
  <2>2. /\ Fits(v)
        /\ \A j \in 1 .. i - 1 : Apart(headers[j].value, v)
        /\ pc \in Reading => Before(v, Current(begin))
        /\ pc \in {"platformVersion", "callback"} /\ IsPlatform => Apart(v, cache["PLATFORM"])
    BY DEF ArrayInv
  <2>3. pc = "platformVersion" => Apart(v, cache["PLATFORM"])
    <3>1. pc = "platformVersion" => IsPlatform
      BY DEF ParseInv, ValuesInv
    <3> HIDE DEF v
    <3> QED BY <2>2, <3>1
  <2>4. PICK w \in Regions : w = v
    BY <2>1
  <2>5. /\ FitsIn(w, Len(out'))
        /\ pc' \in Reading => Before(w, Current(begin'))
        /\ pc' = "callback" => Apart(w, cache'[key'])
        /\ pc' \in {"platformVersion", "callback"} /\ IsPlatform' =>
             Apart(w, cache'["PLATFORM"]) /\ Apart(w, cache'["PLATFORMVERSION"])
    <3> HIDE DEF v
    <3> QED BY <1>1, <2>2, <2>3, <2>4, DeliveredBefore
  <2>6. headers'[i].value = w /\ headers' = headers
    BY <1>1, <2>4
  <2>7. Fits(headers[i].value)'
    BY <1>3, <2>5, <2>6 DEF Fits
  <2>8. \A j \in 1 .. i - 1 : Apart(headers[j].value, headers[i].value)'
    BY <1>1, <2>2 DEF Apart, Before
  <2>9. /\ pc' \in Reading => Before(headers[i].value, Current(begin))'
        /\ pc' = "callback" => Apart(headers[i].value, cache[key])'
    BY <1>3, <2>5, <2>6 DEF Before, Apart
  <2>10. pc' \in {"platformVersion", "callback"} /\ IsPlatform' =>
           /\ Apart(headers[i].value, cache["PLATFORM"])'
           /\ Apart(headers[i].value, cache["PLATFORMVERSION"])'
    BY <2>5, <2>6 DEF Before, Apart
  <2> QED BY <2>7, <2>8, <2>9, <2>10
<1>5. /\ headers' \in Seq([key : HeaderSet, value : Regions])
      /\ Len(headers') <= input'.capacity /\ DOMAIN headers' = DOMAIN headers
  BY <1>1 DEF ArrayInv
<1>6. ArrayInv'
  BY <1>4, <1>5 DEF ArrayInv, Reading, Brands
<1> QED BY <1>1, <1>6

\* The pair that is pushed comes after those in the array, and before the
\* version of its platform.
LEMMA PushKeepsArray ==
    ASSUME input \in Inputs, ParseInv, ArrayInv, PushToHeaders
    PROVE  ParseInv' /\ ArrayInv'
<1> DEFINE n == Len(headers)
           S == [key : HeaderSet, value : Regions]
           more == Len(headers') < input.capacity
<1>1. /\ pc = "callback" /\ Resume(more) /\ input' = input
      /\ headers' = IF n < input.capacity THEN Append(headers, Pair) ELSE headers
  BY DEF PushToHeaders
<1>2. ParseInv'
  BY <1>1, ResumeKeeps
<1>3. /\ UNCHANGED <<call, out, cache>> /\ UNCHANGED call
      /\ pc' \in {"complete", "callback", "key"}
      /\ pc' = "callback" => IsPlatform /\ key' = "PLATFORMVERSION"
  BY <1>1 DEF Resume
<1>4. /\ headers \in Seq(S) /\ n \in Nat /\ n <= input.capacity /\ DOMAIN headers = 1 .. n
  <2>1. headers \in Seq(S) /\ n <= input.capacity
    BY DEF ArrayInv
  <2> HIDE DEF S
  <2> QED BY <2>1
<1>5. /\ key \in HeaderSet /\ cache \in [HeaderSet -> Regions] /\ Fits(cache[key])
      /\ IsPlatform => Apart(cache["PLATFORM"], cache["PLATFORMVERSION"])
  BY <1>1 DEF ParseInv, TypeInv, ValuesInv
<1>6. Pair \in S /\ Pair.value = cache[key]
  <2>1. cache[key] \in Regions
    <3> HIDE DEF HeaderSet
    <3> QED BY <1>5
  <2> HIDE DEF HeaderSet, Regions
  <2> QED BY <1>5, <2>1 DEF Pair
<1>7. /\ headers' \in Seq(S) /\ Len(headers') <= input.capacity
      /\ \A i \in DOMAIN headers' : \/ i \in DOMAIN headers /\ headers'[i] = headers[i]
                                    \/ i = n + 1 /\ headers'[i] = Pair
      /\ \A i \in DOMAIN headers : headers'[i] = headers[i]
      /\ \A i \in DOMAIN headers' : i \in Nat /\ i <= n + 1
  <2>1. input.capacity \in Nat
    BY InputsAssumption
  <2> HIDE DEF S
  <2>2. CASE n < input.capacity
    <3>1. headers' = Append(headers, Pair)
      BY <1>1, <2>2
    <3>2. /\ headers' \in Seq(S) /\ Len(headers') = n + 1
          /\ \A i \in 1 .. n : headers'[i] = headers[i]
          /\ headers'[n + 1] = Pair
      BY <1>4, <1>6, <3>1, AppendProperties
    <3>3. DOMAIN headers' = 1 .. n + 1
      BY <3>2
    <3> QED BY <1>4, <2>1, <2>2, <3>2, <3>3
  <2>3. CASE ~ (n < input.capacity)
    <3>1. headers' = headers
      BY <1>1, <2>3
    <3> QED BY <1>4, <3>1
  <2> QED BY <2>2, <2>3
<1>8. \A i \in DOMAIN headers :
        /\ Fits(headers[i].value)
        /\ \A j \in 1 .. i - 1 : Apart(headers[j].value, headers[i].value)
        /\ Apart(headers[i].value, cache[key])
        /\ IsPlatform => Apart(headers[i].value, cache["PLATFORMVERSION"])
  BY <1>1 DEF ArrayInv
<1> HIDE DEF S
<1>9. ASSUME NEW i \in DOMAIN headers'
      PROVE  /\ Fits(headers[i].value)'
             /\ \A j \in 1 .. i - 1 : Apart(headers[j].value, headers[i].value)'
             /\ pc' = "callback" => Apart(headers[i].value, cache[key])'
  <2>1. CASE i \in DOMAIN headers /\ headers'[i] = headers[i]
    <3>1. Fits(headers[i].value)'
      <4>1. headers'[i].value = headers[i].value /\ Fits(headers[i].value)
        BY <1>8, <2>1
      <4> QED BY <1>3, <4>1, CallKept DEF Fits
    <3>2. \A j \in 1 .. i - 1 : headers'[j] = headers[j]
      <4>1. \A j \in 1 .. i - 1 : j \in 1 .. n
        BY <1>4, <2>1
      <4> QED BY <1>4, <1>7, <4>1
    <3>3. \A j \in 1 .. i - 1 : Apart(headers[j].value, headers[i].value)'
      BY <1>8, <2>1, <3>2 DEF Apart, Before
    <3>4. pc' = "callback" => Apart(headers[i].value, cache[key])'
      BY <1>3, <1>8, <2>1 DEF Apart, Before
    <3> QED BY <3>1, <3>3, <3>4
  <2>2. CASE i = n + 1 /\ headers'[i] = Pair
    <3>0. headers'[i].value = cache[key]
      BY <1>6, <2>2
    <3>1. Fits(headers[i].value)'
      BY <1>3, <1>5, <3>0, CallKept DEF Fits
    <3>2. \A j \in 1 .. i - 1 : j \in DOMAIN headers /\ headers'[j] = headers[j]
      <4>1. \A j \in 1 .. i - 1 : j \in 1 .. n
        BY <1>4, <2>2
      <4> QED BY <1>4, <1>7, <4>1
    <3>3. \A j \in 1 .. i - 1 : Apart(headers[j].value, headers[i].value)'
      BY <1>8, <3>0, <3>2 DEF Apart, Before
    <3>4. pc' = "callback" => Apart(headers[i].value, cache[key])'
      BY <1>3, <1>5, <3>0 DEF Apart, Before, IsPlatform
    <3> QED BY <3>1, <3>3, <3>4
  <2> QED BY <1>7, <2>1, <2>2
<1>10. pc' \notin Reading /\ pc' # "platformVersion" /\ (pc' = "callback" => ~ IsPlatform')
  <2>1. pc' = "callback" => ~ IsPlatform'
    BY <1>3, PlatformHeaders DEF IsPlatform
  <2> QED BY <1>3, <2>1 DEF Reading, Brands
<1>11. ArrayInv'
  <2>1. headers' \in Seq([key : HeaderSet, value : Regions])' /\ Len(headers') <= input'.capacity
    BY <1>1, <1>7 DEF S
  <2> QED BY <1>9, <1>10, <2>1 DEF ArrayInv, Reading
<1> QED BY <1>2, <1>11

LEMMA CallAgainKeepsArray ==
    ASSUME input \in Inputs, ParseInv, ArrayInv, CallAgain
    PROVE  ParseInv' /\ ArrayInv'
<1>1. Start(kind, text, Larger) /\ headers' = <<>> /\ input' = input
  BY DEF CallAgain
<1>2. text \in Seq(STRING) /\ length \in Nat /\ out \in Seq(Symbol)
  BY DEF ParseInv, TypeInv, IsText
<1>3. Larger \in Nat
  <2>1. Len(out) \in Nat
    <3> HIDE DEF Symbol
    <3> QED BY <1>2
  <2> QED BY <1>2, <2>1 DEF Larger
<1>4. ParseInv'
  BY <1>1, <1>2, <1>3, StartKeeps
<1>5. headers' \in Seq([key : HeaderSet, value : Regions]) /\ Len(headers') = 0
      /\ DOMAIN headers' = {}
  BY <1>1
<1>6. 0 <= input'.capacity
  BY <1>1, InputsAssumption
<1> QED BY <1>4, <1>5, <1>6 DEF ArrayInv

LEMMA ArrayInvInductive ==
    ArraySpec => []ArrayIInv
<1>1. ArrayInit => ArrayIInv
  <2> SUFFICES ASSUME ArrayInit PROVE ArrayIInv
    OBVIOUS
  <2>1. /\ input \in Inputs /\ text = input.text /\ length = input.length /\ kind = input.kind
        /\ headers = <<>>
        /\ pc = IF kind \in {"base64", "broken64"} THEN "decode" ELSE "keys"
    BY DEF ArrayInit
  <2>2. /\ text \in Seq(STRING) /\ length \in Nat /\ 0 <= input.capacity
    BY <2>1, InputsAssumption
  <2>3. Fresh
    <3>1. pc \in {"none", "decode", "keys"} /\ (pc = "keys" => kind # "base64")
      BY <2>1
    <3> QED BY <2>2, <3>1 DEF ArrayInit, Fresh
  <2>4. ParseInv
    BY <2>3, FreshIsParsed
  <2>5. headers \in Seq([key : HeaderSet, value : Regions]) /\ Len(headers) = 0
        /\ DOMAIN headers = {}
    BY <2>1
  <2> QED BY <2>1, <2>2, <2>4, <2>5 DEF ArrayInv, ArrayIInv
<1>2. ArrayIInv /\ [ArrayNext]_arrayVars => ArrayIInv'
  <2> SUFFICES ASSUME ArrayIInv, [ArrayNext]_arrayVars PROVE ArrayIInv'
    OBVIOUS
  <2>0. input \in Inputs /\ ParseInv /\ ArrayInv
    BY DEF ArrayIInv
  <2>1. CASE Parsing
    BY <2>0, <2>1, ParsingKeepsArray DEF ArrayIInv, Parsing
  <2>2. CASE PushToHeaders
    BY <2>0, <2>2, PushKeepsArray DEF ArrayIInv, PushToHeaders
  <2>3. CASE CallAgain
    BY <2>0, <2>3, CallAgainKeepsArray DEF ArrayIInv, CallAgain
  <2>4. CASE UNCHANGED arrayVars
    <3>1. UNCHANGED parse /\ UNCHANGED call /\ UNCHANGED <<input, headers>>
          /\ UNCHANGED <<call, out, cache, key, begin, pc>>
      BY <2>4 DEF arrayVars, parse, call
    <3>2. ParseInv'
      BY <2>0, <3>1, Unparsed
    <3>3. /\ \A n : Current(n)' = Current(n)
          /\ \A v, n : FitsIn(v, n)' <=> FitsIn(v, n)
      BY <3>1, CallKept
    <3>4. ArrayInv'
      BY <2>0, <3>1, <3>3 DEF ArrayInv, Fits, Before, Apart, IsPlatform, call
    <3> QED BY <2>0, <3>1, <3>2, <3>4 DEF ArrayIInv
  <2> QED BY <2>1, <2>2, <2>3, <2>4 DEF ArrayNext
<1> QED BY <1>1, <1>2, PTL DEF ArraySpec

(***************************************************************************)
(* Whatever the text and the buffer, the cursor of the parser of           *)
(* transformc.c does not pass the NUL that ends the text, and the call     *)
(* keeps its state in its ranges.                                          *)
(***************************************************************************)
THEOREM CursorStaysInText ==
    ArraySpec => []CursorInText
<1>1. ArrayIInv => CursorInText
  <2> SUFFICES ASSUME ArrayIInv PROVE CursorInText
    OBVIOUS
  <2>1. TypeInv /\ ArrayInv
    BY DEF ArrayIInv, ParseInv
  <2>2. IsText
    BY <2>1 DEF TypeInv
  <2>3. at \in Nat \ {0} /\ at <= Last
    BY <2>1, <2>2, TextEnds DEF TypeInv
  <2>4. \A h \in HeaderSet :
          cache[h].null \in BOOLEAN /\ {cache[h].from, cache[h].length} \subseteq Nat
    <3>1. \A h \in HeaderSet : cache[h] \in Regions
      BY <2>1 DEF TypeInv
    <3> HIDE DEF HeaderSet
    <3> QED BY <3>1 DEF Regions
  <2>5. {begin, ptr} \subseteq 0 .. Len(out) /\ key \in HeaderSet \cup {Undefined}
        /\ Len(headers) <= input.capacity
    BY <2>1 DEF TypeInv, ArrayInv
  <2>6. status \in {"NOT_SET", "INVALID_INPUT", "INSUFFICIENT_MEMORY"}
    BY <2>1 DEF TypeInv, Statuses
  <2> HIDE DEF HeaderSet
  <2> QED BY <2>3, <2>4, <2>5, <2>6 DEF CursorInText, TypeOK
<1> QED BY <1>1, ArrayInvInductive, PTL

(***************************************************************************)
(* Whatever the text, the buffer and the array, the values that a call     *)
(* delivered are in the buffer, after the names, and share no character.   *)
(***************************************************************************)
THEOREM ArrayValuesAreApart ==
    ArraySpec => []ValuesAreApart
<1>1. ArrayIInv => ValuesAreApart
  <2> SUFFICES ASSUME ArrayIInv PROVE ValuesAreApart
    OBVIOUS
  <2>1. ParseInv /\ ArrayInv /\ IsText
    BY DEF ArrayIInv, ParseInv, TypeInv
  <2>2. KeyPosition(Headers[8]) = Names /\ Names \in Nat
    BY <2>1, PositionsAre
  <2>3. ASSUME NEW v \in Regions, Fits(v), ~ v.null,
               NEW n \in v.from + 1 .. v.from + v.length
        PROVE  n <= Current(Len(out)) /\ n > Names
    <3>1. /\ v.from + v.length <= Current(Len(out))
          /\ v.length # 0 => Names <= v.from
      BY <2>3 DEF Fits, FitsIn
    <3>2. v.from \in Nat /\ v.length \in Nat
      BY DEF Regions
    <3>3. Current(Len(out)) \in Nat
      <4>1. length \in Nat /\ out \in Seq(Symbol)
        BY <2>1 DEF ParseInv, TypeInv
      <4>2. Len(out) \in Nat
        <5> HIDE DEF Symbol
        <5> QED BY <4>1
      <4> QED BY <4>1, <4>2, CurrentIs
    <3> QED BY <2>2, <3>1, <3>2, <3>3
  <2>4. ASSUME NEW i \in DOMAIN headers, NEW n \in ValuePlace(headers[i])
        PROVE  n <= Current(Len(out)) /\ n > KeyPosition(Headers[8])
    <3>1. headers[i].value \in Regions /\ Fits(headers[i].value)
      BY <2>1, HeaderTypes DEF ArrayInv
    <3>2. /\ ~ headers[i].value.null
          /\ n \in headers[i].value.from + 1 .. headers[i].value.from + headers[i].value.length
      BY DEF ValuePlace
    <3> QED BY <2>2, <2>3, <3>1, <3>2
  <2>5. ASSUME NEW v \in Regions, NEW w \in Regions, ~ v.null, ~ w.null, Apart(v, w),
               NEW n \in v.from + 1 .. v.from + v.length, n \in w.from + 1 .. w.from + w.length
        PROVE  FALSE
    <3>1. /\ v.from \in Nat /\ v.length \in Nat /\ w.from \in Nat /\ w.length \in Nat
          /\ v.from + v.length <= w.from
      BY <2>5 DEF Regions, Apart, Before
    <3> QED BY <2>5, <3>1
  <2>6. ASSUME NEW i \in DOMAIN headers, NEW j \in DOMAIN headers, i # j,
               NEW n \in ValuePlace(headers[i]), n \in ValuePlace(headers[j])
        PROVE  FALSE
    <3>1. /\ headers[i].value \in Regions /\ headers[j].value \in Regions
          /\ i \in 1 .. Len(headers) /\ j \in 1 .. Len(headers) /\ Len(headers) \in Nat
      BY <2>1, HeaderTypes
    <3>2. /\ ~ headers[i].value.null /\ ~ headers[j].value.null
          /\ n \in headers[i].value.from + 1 .. headers[i].value.from + headers[i].value.length
          /\ n \in headers[j].value.from + 1 .. headers[j].value.from + headers[j].value.length
      BY <2>6 DEF ValuePlace
    <3>3. i \in 1 .. j - 1 \/ j \in 1 .. i - 1
      BY <2>6, <3>1
    <3>4. Apart(headers[i].value, headers[j].value) \/ Apart(headers[j].value, headers[i].value)
      BY <2>1, <3>3 DEF ArrayInv
    <3> QED BY <2>5, <3>1, <3>2, <3>4
  <2> QED BY <2>4, <2>6 DEF ValuesAreApart
<1> QED BY <1>1, ArrayInvInductive, PTL

-----------------------------------------------------------------------------
(* What was written when the status is still unset.                          *)

\* A value with no place in the buffer is an empty one.
Told(v) == v.null => v.length = 0

\* A step that leaves the status unset found it unset, and what it wrote fits.
Tells ==
    status' = "NOT_SET" =>
      /\ status = "NOT_SET"
      /\ out' = out \/ Len(out') <= Room
      /\ \A h \in HeaderSet : cache'[h] = cache[h] \/ Told(cache'[h])
      /\ pc' # "returned" /\ (pc' = "complete" => pc \in Reading \cup {"key"})

LEMMA WrittenFits ==
    ASSUME ParseInv, NEW s \in Seq(Symbol), out' = out \o s, Written(s) = "NOT_SET"
    PROVE  status = "NOT_SET" /\ (out' = out \/ Len(out') <= Room)
<1>1. out \in Seq(Symbol) /\ length \in Nat
  BY DEF ParseInv, TypeInv
<1> HIDE DEF Symbol
<1>2. status = "NOT_SET" /\ ~ (s # <<>> /\ Len(out) + Len(s) > Room)
  BY DEF Written
<1>3. CASE s = <<>>
  <2>1. out \o <<>> = out
    BY <1>1, ConcatEmptySeq
  <2> QED BY <1>2, <1>3, <2>1
<1>4. CASE s # <<>>
  <2>1. Len(out') = Len(out) + Len(s) /\ Len(out) \in Nat /\ Len(s) \in Nat
    BY <1>1, ConcatProperties
  <2>2. ~ (Len(out) + Len(s) > Room)
    BY <1>2, <1>4
  <2>3. Room \in Nat
    BY <1>1, CurrentIs
  <2> HIDE <1>2
  <2>4. Len(out') <= Room
    BY <2>1, <2>2, <2>3
  <2> QED BY <1>2, <2>4
<1> QED BY <1>3, <1>4

\* A string that leaves the status unset is valid, and it fits with what is
\* written after it.
LEMMA StringFits ==
    ASSUME ParseInv, NEW s, NEW more, s.text \o more \in Seq(Symbol),
           out' = out \o (s.text \o more), StatusOf(s, more) = "NOT_SET"
    PROVE  status = "NOT_SET" /\ (out' = out \/ Len(out') <= Room)
<1>1. s.type # "invalid"
  BY DEF StatusOf
<1>2. Written(s.text \o more) = "NOT_SET"
  BY <1>1 DEF StatusOf
<1> HIDE DEF Symbol
<1> QED BY <1>2, WrittenFits

\* A region that was read while the status is unset is in the buffer.
LEMMA RegionIsTold ==
    ASSUME NEW from, NEW to, NEW st, st = "NOT_SET"
    PROVE  ~ Region(from, to, st).null
BY DEF Region

LEMMA CacheIsTold ==
    ASSUME NEW c \in [HeaderSet -> Regions], NEW k \in HeaderSet, NEW r, Told(r)
    PROVE  \A h \in HeaderSet : [c EXCEPT ![k] = r][h] = c[h] \/ Told([c EXCEPT ![k] = r][h])
<1> HIDE DEF HeaderSet, Regions, Told
<1> QED OBVIOUS

\* A step that writes nothing and reads no value.
LEMMA PassesTell ==
    ASSUME UNCHANGED <<out, cache>>, status' \in {status, "INVALID_INPUT"},
           pc \in Reading \cup {"key"}, pc' # "returned"
    PROVE  Tells
BY DEF Tells

LEMMA InvalidTells ==
    ASSUME pc \in Reading \cup {"key"}, Invalid
    PROVE  Tells
BY PassesTell DEF Invalid

\* A step that reads the value of the key.
LEMMA ReadTells ==
    ASSUME pc \in Reading, NEW st, NEW delivered, NEW end, Read(st, delivered, end),
           st = "NOT_SET" =>
             /\ status = "NOT_SET"
             /\ out' = out \/ Len(out') <= Room
             /\ \A h \in HeaderSet : cache'[h] = cache[h] \/ Told(cache'[h])
    PROVE  Tells
<1>1. status' = st /\ pc' # "returned"
  BY DEF Read
<1> HIDE DEF HeaderSet, Told
<1> QED BY <1>1 DEF Tells

LEMMA ReadPureStringTells ==
    ASSUME ParseInv, ReadPureString
    PROVE  Tells
<1> DEFINE s == StringAt(at)
           st == StatusOf(s, <<>>)
           r == Region(begin, Len(out'), st)
<1>1. /\ pc = "value" /\ out' = out \o s.text
      /\ cache' = IF s.type = "null" THEN cache ELSE [cache EXCEPT ![key] = r]
      /\ Read(st, s.type # "null", s.end)
  BY DEF ReadPureString
<1>2. pc \in Reading
  BY <1>1 DEF Reading
<1>3. s \in StringSet
  BY <1>2, ValueFacts, StringEnds
<1>4. s.text \in Seq(Symbol)
  <2> HIDE DEF s, Symbol
  <2> QED BY <1>3 DEF StringSet
<1> HIDE DEF s, Symbol, HeaderSet
<1>5. s.text \o <<>> = s.text
  BY <1>4, ConcatEmptySeq
<1>6. ASSUME st = "NOT_SET"
      PROVE  /\ status = "NOT_SET"
             /\ out' = out \/ Len(out') <= Room
             /\ \A h \in HeaderSet : cache'[h] = cache[h] \/ Told(cache'[h])
  <2>1. status = "NOT_SET" /\ (out' = out \/ Len(out') <= Room)
    BY <1>1, <1>4, <1>5, <1>6, StringFits
  <2>2. Told(r)
    BY <1>6, RegionIsTold DEF Told
  <2> HIDE DEF r, st
  <2>3. \A h \in HeaderSet : cache'[h] = cache[h] \/ Told(cache'[h])
    <3>1. cache \in [HeaderSet -> Regions] /\ key \in HeaderSet
      BY <1>2, ValueFacts
    <3> QED BY <1>1, <2>2, <3>1, CacheIsTold
  <2> QED BY <2>1, <2>3
<1> HIDE DEF st
<1> QED BY <1>1, <1>2, <1>6, ReadTells

LEMMA ReadBoolTells ==
    ASSUME ParseInv, ReadBool
    PROVE  Tells
<1> DEFINE s == Truths[Sym(at)]
           st == Written(s)
           g == Region(begin, Len(out'), st)
           r == [g EXCEPT !.length = Len(s)]
<1>1. pc = "value" /\ pc \in Reading
  BY DEF ReadBool, Reading
<1>2. CASE Sym(at) \notin DOMAIN Truths
  <2>1. Invalid /\ pc \in Reading \cup {"key"}
    BY <1>1, <1>2 DEF ReadBool
  <2> QED BY <2>1, InvalidTells
<1>3. CASE Sym(at) \in DOMAIN Truths
  <2>1. /\ out' = out \o s
        /\ cache' = [cache EXCEPT ![key] = r]
        /\ Read(st, TRUE, at + 1)
    BY <1>3 DEF ReadBool
  <2>2. s \in Seq(Symbol)
    BY <1>3, TruthsAre
  <2> HIDE DEF Symbol, HeaderSet, s
  <2>3. ASSUME st = "NOT_SET"
        PROVE  /\ status = "NOT_SET"
               /\ out' = out \/ Len(out') <= Room
               /\ \A h \in HeaderSet : cache'[h] = cache[h] \/ Told(cache'[h])
    <3>1. status = "NOT_SET" /\ (out' = out \/ Len(out') <= Room)
      BY <2>1, <2>2, <2>3, WrittenFits
    <3>2. r.null = g.null
      BY DEF Region
    <3>3. Told(r)
      <4>1. ~ g.null
        BY <2>3, RegionIsTold
      <4> HIDE DEF r, g
      <4> QED BY <3>2, <4>1 DEF Told
    <3> HIDE DEF r, st
    <3>4. cache \in [HeaderSet -> Regions] /\ key \in HeaderSet
      BY <1>1, ValueFacts
    <3> QED BY <2>1, <3>1, <3>3, <3>4, CacheIsTold
  <2> HIDE DEF st
  <2> QED BY <1>1, <2>1, <2>3, ReadTells
<1> QED BY <1>2, <1>3

LEMMA NoBrandsTells ==
    ASSUME ParseInv, NoBrands
    PROVE  Tells
<1>1. /\ pc = "brand" /\ Read(status, TRUE, SkipSpace(at)) /\ out' = out
      /\ cache' = [cache EXCEPT ![key] = NoValue]
  BY DEF NoBrands
<1>2. pc \in Reading
  BY <1>1 DEF Reading, Brands
<1>3. Told(NoValue)
  BY NoValueFits DEF Told
<1>4. cache \in [HeaderSet -> Regions] /\ key \in HeaderSet
  BY <1>2, ValueFacts
<1> HIDE DEF HeaderSet
<1>5. \A h \in HeaderSet : cache'[h] = cache[h] \/ Told(cache'[h])
  BY <1>1, <1>3, <1>4, CacheIsTold
<1> QED BY <1>1, <1>2, <1>5, ReadTells

\* The brand of a list, or the platform.
LEMMA BrandText ==
    ASSUME ParseInv, pc \in Reading, NEW brand, brand = Member(Past(at, "{"), "brand"),
           brand # 0
    PROVE  StringAt(brand).text \in Seq(Symbol)
<1>1. "{" # NUL /\ "brand" # NUL
  BY DEF NUL
<1>2. IsText /\ at \in 1 .. Last
  BY ValueFacts
<1>3. brand \in 0 .. Last
  BY <1>1, <1>2, MemberInText
<1>4. brand \in 1 .. Last
  BY <1>2, <1>3, InText
<1>5. StringAt(brand) \in StringSet
  BY <1>2, <1>4, StringEnds
<1> HIDE DEF Symbol
<1> QED BY <1>5 DEF StringSet

LEMMA ReadBrandTells ==
    ASSUME ParseInv, ReadBrand
    PROVE  Tells
<1> DEFINE brand == Member(Past(at, "{"), "brand")
           s == StringAt(brand)
           more == IF s.type = "null" THEN <<>> ELSE <<";v=">>
<1>1. pc \in Reading
  BY DEF ReadBrand, Reading, Brands
<1>2. CASE brand = 0
  <2>1. Invalid /\ pc \in Reading \cup {"key"}
    BY <1>1, <1>2 DEF ReadBrand
  <2> QED BY <2>1, InvalidTells
<1>3. CASE brand # 0
  <2>1. /\ out' = out \o s.text \o more
        /\ status' = StatusOf(s, more)
        /\ pc' # "returned" /\ pc' # "complete" /\ cache' = cache
    BY <1>3 DEF ReadBrand
  <2>2. s.text \in Seq(Symbol)
    BY <1>1, <1>3, BrandText
  <2>3. more \in Seq(Symbol)
    <3>1. ";v=" \in Symbol
      BY DEF Symbol
    <3> HIDE DEF Symbol, s
    <3> QED BY <3>1, Singles
  <2> HIDE DEF Symbol, HeaderSet, s, more
  <2>4. s.text \o more \in Seq(Symbol) /\ out' = out \o (s.text \o more)
    <3>1. out \in Seq(Symbol)
      BY <1>1, ValueFacts
    <3> QED BY <2>1, <2>2, <2>3, <3>1, Joined
  <2>5. status' = "NOT_SET" => status = "NOT_SET" /\ (out' = out \/ Len(out') <= Room)
    BY <2>1, <2>4, StringFits
  <2> QED BY <2>1, <2>5 DEF Tells
<1> QED BY <1>2, <1>3

\* A version in a list, or the one of the platform.
LEMMA VersionText ==
    ASSUME ParseInv, pc \in Reading, NEW version \in 0 .. Last, NEW list,
           list = Past(version, "["), list # 0
    PROVE  <<Quote>> \o VersionAt(list).text \in Seq(Symbol)
<1>1. "[" # NUL /\ IsText
  BY ValueFacts DEF NUL
<1>2. list \in 0 .. Last
  BY <1>1, PastInText
<1>3. list \in 1 .. Last
  BY <1>1, <1>2, InText
<1>4. VersionAt(list) \in VersionSet
  BY <1>1, <1>3, VersionEnds
<1>5. VersionAt(list).text \in Seq(Symbol)
  <2> HIDE DEF Symbol
  <2> QED BY <1>4 DEF VersionSet
<1> HIDE DEF Symbol
<1> QED BY <1>5, QuotedVersion

LEMMA ReadVersionTells ==
    ASSUME ParseInv, ReadVersion
    PROVE  Tells
<1> DEFINE version == Member(Past(at, ","), "version")
           list == Past(version, "[")
           v == IF kind = "sua" THEN VersionAt(list) ELSE StringAt(version)
           s == IF kind = "sua" THEN <<Quote>> \o v.text
                ELSE IF v.type = "null" THEN <<"null">> ELSE v.text
<1>1. pc \in Reading
  BY DEF ReadVersion, Reading, Brands
<1>2. CASE version = 0 \/ (kind = "sua" /\ list = 0)
  <2>1. Invalid /\ pc \in Reading \cup {"key"}
    BY <1>1, <1>2 DEF ReadVersion
  <2> QED BY <2>1, InvalidTells
<1>3. CASE ~ (version = 0 \/ (kind = "sua" /\ list = 0))
  <2>1. /\ out' = out \o s
        /\ status' = IF v.type = "invalid" THEN "INVALID_INPUT" ELSE Written(s)
        /\ pc' # "returned" /\ pc' # "complete" /\ cache' = cache
    BY <1>3 DEF ReadVersion
  <2>2. version \in 0 .. Last /\ version \in 1 .. Last /\ IsText
    <3>1. "," # NUL /\ "version" # NUL
      BY DEF NUL
    <3>2. IsText /\ at \in 1 .. Last
      BY <1>1, ValueFacts
    <3>3. version \in 0 .. Last
      BY <3>1, <3>2, MemberInText
    <3> HIDE DEF version
    <3> QED BY <1>3, <3>2, <3>3, InText
  <2> HIDE DEF version
  <2>3. s \in Seq(Symbol)
    <3>1. CASE kind = "sua"
      <4>1. s = <<Quote>> \o VersionAt(list).text
        BY <3>1
      <4>2. list # 0
        BY <1>3, <3>1
      <4>3. <<Quote>> \o VersionAt(list).text \in Seq(Symbol)
        BY <1>1, <2>2, <4>2, VersionText
      <4> HIDE DEF s, Symbol
      <4> QED BY <4>1, <4>3
    <3>2. CASE kind # "sua"
      <4>1. StringAt(version) \in StringSet
        BY <2>2, StringEnds
      <4>2. StringAt(version).text \in Seq(Symbol)
        <5> HIDE DEF Symbol
        <5> QED BY <4>1 DEF StringSet
      <4>3. <<"null">> \in Seq(Symbol)
        <5>1. "null" \in Symbol
          BY DEF Symbol
        <5> HIDE DEF Symbol
        <5> QED BY <5>1, Singles
      <4>4. s \in {<<"null">>, StringAt(version).text}
        BY <3>2
      <4> HIDE DEF s, Symbol
      <4> QED BY <4>2, <4>3, <4>4
    <3> QED BY <3>1, <3>2
  <2> HIDE DEF s, v, Symbol, HeaderSet
  <2>4. status' = "NOT_SET" => status = "NOT_SET" /\ (out' = out \/ Len(out') <= Room)
    <3>1. status' = "NOT_SET" => Written(s) = "NOT_SET"
      BY <2>1
    <3> QED BY <2>1, <2>3, <3>1, WrittenFits
  <2> QED BY <2>1, <2>4 DEF Tells
<1> QED BY <1>2, <1>3

LEMMA EndBrandTells ==
    ASSUME ParseInv, EndBrand
    PROVE  Tells
<1> DEFINE brace == Past(at, "}")
           next == SkipSpace(brace)
           separated == IF kind = "sua" THEN Current(ptr) # Current(begin) ELSE named
           r == Region(begin, ptr, status)
           delivered == Current(ptr) # Current(begin)
           s == <<",", " ">>
<1>1. pc \in Reading
  BY DEF EndBrand, Reading, Brands
<1>2. CASE brace = 0 \/ Sym(next) \notin {"]", ","}
  <2>1. Invalid /\ pc \in Reading \cup {"key"}
    <3> HIDE DEF brace, next
    <3> QED BY <1>1, <1>2 DEF EndBrand, brace, next
  <2> QED BY <2>1, InvalidTells
<1>3. CASE brace # 0 /\ Sym(next) = "]"
  <2>1. /\ cache' = IF ~ delivered THEN cache ELSE [cache EXCEPT ![key] = r]
        /\ Read(status, delivered, next) /\ out' = out
    BY <1>3 DEF EndBrand
  <2>2. status = "NOT_SET" => Told(r)
    BY RegionIsTold DEF Told
  <2>3. cache \in [HeaderSet -> Regions] /\ key \in HeaderSet
    BY <1>1, ValueFacts
  <2> HIDE DEF r, HeaderSet, delivered, next
  <2>4. status = "NOT_SET" =>
          \A h \in HeaderSet : cache'[h] = cache[h] \/ Told(cache'[h])
    BY <2>1, <2>2, <2>3, CacheIsTold
  <2> QED BY <1>1, <2>1, <2>4, ReadTells
<1>4. CASE brace # 0 /\ Sym(next) = ","
  <2>1. /\ out' = IF separated THEN out \o s ELSE out
        /\ status' = IF separated THEN Written(s) ELSE status
        /\ pc' # "returned" /\ pc' # "complete" /\ cache' = cache
    BY <1>4 DEF EndBrand
  <2>2. s \in Seq(Symbol)
    <3>1. "," \in Symbol /\ " " \in Symbol
      BY DEF Symbol
    <3> HIDE DEF Symbol
    <3> QED BY <3>1, Singles
  <2> HIDE DEF s, Symbol, HeaderSet, separated
  <2>3. status' = "NOT_SET" => status = "NOT_SET" /\ (out' = out \/ Len(out') <= Room)
    BY <2>1, <2>2, WrittenFits
  <2> QED BY <2>1, <2>3 DEF Tells
<1> QED BY <1>2, <1>3, <1>4

LEMMA ReadPlatformTells ==
    ASSUME ParseInv, ReadPlatform
    PROVE  Tells
<1> DEFINE brand == Member(Past(at, "{"), "brand")
           s == StringAt(brand)
           st == StatusOf(s, <<>>)
           next == SkipSpace(s.end)
           r == Region(begin, Len(out'), st)
           ends == s.type = "null" \/ Sym(next) = "}"
<1>1. pc \in Reading
  BY DEF ReadPlatform, Reading
<1>2. CASE brand = 0
  <2>1. Invalid /\ pc \in Reading \cup {"key"}
    BY <1>1, <1>2 DEF ReadPlatform
  <2> QED BY <2>1, InvalidTells
<1>3. CASE brand # 0
  <2>1. /\ out' = out \o s.text
        /\ cache' = IF s.type = "null" THEN cache
                    ELSE [cache EXCEPT ![key] = r, !["PLATFORMVERSION"] = NoValue]
        /\ IF ends THEN Read(st, s.type # "null", next)
           ELSE status' = st /\ at' = next /\ pc' = "platformVersion"
    BY <1>3 DEF ReadPlatform
  <2>2. s.text \in Seq(Symbol)
    BY <1>1, <1>3, BrandText
  <2> HIDE DEF Symbol, HeaderSet, s
  <2>3. s.text \o <<>> = s.text
    BY <2>2, ConcatEmptySeq
  <2>4. ASSUME st = "NOT_SET"
        PROVE  /\ status = "NOT_SET"
               /\ out' = out \/ Len(out') <= Room
               /\ \A h \in HeaderSet : cache'[h] = cache[h] \/ Told(cache'[h])
    <3>1. status = "NOT_SET" /\ (out' = out \/ Len(out') <= Room)
      BY <2>1, <2>2, <2>3, <2>4, StringFits
    <3>2. Told(r) /\ Told(NoValue)
      BY <2>4, RegionIsTold, NoValueFits DEF Told
    <3> HIDE DEF r, st
    <3>3. cache \in [HeaderSet -> Regions] /\ key \in HeaderSet /\ "PLATFORMVERSION" \in HeaderSet
      BY <1>1, ValueFacts, PlatformHeaders
    <3> HIDE DEF Regions, Told
    <3>4. \A h \in HeaderSet : cache'[h] = cache[h] \/ cache'[h] = r \/ cache'[h] = NoValue
      BY <2>1, <3>3
    <3> QED BY <3>1, <3>2, <3>4
  <2> HIDE DEF st, next
  <2>5. CASE ends
    <3>1. Read(st, s.type # "null", next)
      BY <2>1, <2>5
    <3> QED BY <1>1, <2>4, <3>1, ReadTells
  <2>6. CASE ~ ends
    <3>1. status' = st /\ pc' # "returned" /\ pc' # "complete"
      BY <2>1, <2>6
    <3> HIDE DEF ends, Told
    <3> QED BY <2>4, <3>1 DEF Tells
  <2> QED BY <2>5, <2>6
<1> QED BY <1>2, <1>3

LEMMA ReadPlatformVersionTells ==
    ASSUME ParseInv, ReadPlatformVersion
    PROVE  Tells
<1> DEFINE version == IF Sym(at) = "," THEN Member(at + 1, "version") ELSE 0
           list == Past(version, "[")
           v == VersionAt(list)
           s == <<Quote>> \o v.text
           st == IF v.type = "invalid" THEN "INVALID_INPUT" ELSE Written(s)
           r == Region(begin, Versioned(v), st)
<1>1. pc \in Reading
  BY DEF ReadPlatformVersion, Reading
<1>2. CASE list = 0 \/ Sym(list) = NUL
  <2>1. Invalid /\ pc \in Reading \cup {"key"}
    BY <1>1, <1>2 DEF ReadPlatformVersion
  <2> QED BY <2>1, InvalidTells
<1>3. CASE ~ (list = 0 \/ Sym(list) = NUL)
  <2>1. /\ out' = out \o s
        /\ cache' = [cache EXCEPT !["PLATFORMVERSION"] = r]
        /\ Read(st, TRUE, v.end)
    BY <1>3 DEF ReadPlatformVersion
  <2>2. version \in 0 .. Last
    <3>0. "," # NUL /\ "version" # NUL
      BY DEF NUL
    <3>1. IsText /\ at \in 1 .. Last
      BY <1>1, ValueFacts
    <3>2. CASE Sym(at) = ","
      <4>1. at + 1 \in 0 .. Last
        BY <3>0, <3>1, <3>2, InText
      <4> QED BY <3>0, <3>1, <3>2, <4>1, MemberEnds
    <3>3. CASE Sym(at) # ","
      <4>1. 0 \in 0 .. Last
        BY <3>1, TextEnds
      <4> QED BY <3>3, <4>1
    <3> QED BY <3>2, <3>3
  <2> HIDE DEF version
  <2>3. s \in Seq(Symbol)
    BY <1>1, <1>3, <2>2, VersionText
  <2> HIDE DEF s, v, Symbol, HeaderSet
  <2>4. ASSUME st = "NOT_SET"
        PROVE  /\ status = "NOT_SET"
               /\ out' = out \/ Len(out') <= Room
               /\ \A h \in HeaderSet : cache'[h] = cache[h] \/ Told(cache'[h])
    <3>1. Written(s) = "NOT_SET"
      BY <2>4
    <3>2. status = "NOT_SET" /\ (out' = out \/ Len(out') <= Room)
      BY <2>1, <2>3, <3>1, WrittenFits
    <3>3. Told(r)
      BY <2>4, RegionIsTold DEF Told
    <3> HIDE DEF r, st
    <3>4. cache \in [HeaderSet -> Regions]
      BY <1>1, ValueFacts
    <3> QED BY <2>1, <3>2, <3>3, <3>4, PlatformHeaders, CacheIsTold
  <2> HIDE DEF st
  <2> QED BY <1>1, <2>1, <2>4, ReadTells
<1> QED BY <1>2, <1>3

LEMMA DecodeTells ==
    ASSUME ParseInv, Decode
    PROVE  Tells
<1> DEFINE n == DecodedLength(Len(text))
           s == [i \in 1 .. n |-> Sym(i)]
<1>1. /\ pc = "decode" /\ kind = "base64" /\ out' = s /\ status' = Written(s)
      /\ pc' = (IF status' = "INSUFFICIENT_MEMORY" THEN "returned" ELSE "keys")
      /\ cache' = cache
  BY DEF Decode
<1>2. IsText /\ out = <<>>
  BY <1>1 DEF ParseInv, TypeInv, NamesInv
<1>3. n \in Nat
  BY <1>1, <1>2, PositionsAre DEF Decoded
<1> HIDE DEF n
<1>4. s \in Seq(Symbol)
  <2>1. \A i \in 1 .. n : Sym(i) \in Symbol
    BY <1>2, SymbolsAre
  <2> HIDE DEF Symbol
  <2> QED BY <1>3, <2>1
<1> HIDE DEF s, Symbol
<1>5. out' = out \o s
  BY <1>1, <1>2, <1>4, ConcatEmptySeq
<1>6. status' = "NOT_SET" => status = "NOT_SET" /\ (out' = out \/ Len(out') <= Room)
  BY <1>1, <1>4, <1>5, WrittenFits
<1> QED BY <1>1, <1>6 DEF Tells

LEMMA WriteKeysTells ==
    ASSUME ParseInv, WriteKeys
    PROVE  Tells
<1>1. /\ out' = out \o Headers /\ cache' = cache
      /\ \/ status' = Written(Headers) /\ pc' = "key"
         \/ status' = "INVALID_INPUT"
  BY DEF WriteKeys
<1>2. Headers \in Seq(Symbol)
  <2>1. Headers \in Seq(HeaderSet)
    BY PositionsAre DEF ParseInv, TypeInv
  <2>2. \A h \in HeaderSet : h \in Symbol
    BY DEF Symbol
  <2> HIDE DEF Symbol, HeaderSet
  <2> QED BY <2>1, <2>2
<1> HIDE DEF Symbol, HeaderSet
<1>3. status' = "NOT_SET" =>
        status = "NOT_SET" /\ (out' = out \/ Len(out') <= Room) /\ pc' = "key"
  BY <1>1, <1>2, WrittenFits
<1> QED BY <1>1, <1>3 DEF Tells

\* Every step of a call but its last.
LEMMA ParseTells ==
    ASSUME ParseInv, Parse, ~ Complete
    PROVE  Tells
<1>1. CASE Decode
  BY <1>1, DecodeTells
<1>2. CASE DecodeBroken
  BY <1>2 DEF DecodeBroken, Tells
<1>3. CASE WriteKeys
  BY <1>3, WriteKeysTells
<1>4. CASE EndOfText
  BY <1>4, PassesTell DEF EndOfText
<1>5. CASE BadKey
  BY <1>5, InvalidTells DEF BadKey
<1>6. CASE SkipKey
  BY <1>6, PassesTell DEF SkipKey
<1>7. CASE ReadKey
  <2>1. pc \in Reading \cup {"key"}
    BY <1>7 DEF ReadKey
  <2>2. \/ Invalid
        \/ UNCHANGED <<out, cache, status>> /\ pc' = "value"
    BY <1>7 DEF ReadKey
  <2> QED BY <2>1, <2>2, InvalidTells, PassesTell
<1>8. CASE ReadPureString
  BY <1>8, ReadPureStringTells
<1>9. CASE ReadBool
  BY <1>9, ReadBoolTells
<1>10. CASE ReadBrands
  <2>1. pc \in Reading \cup {"key"}
    BY <1>10 DEF ReadBrands, Reading
  <2>2. \/ Invalid
        \/ UNCHANGED <<out, cache, status>> /\ pc' = "brand"
    BY <1>10 DEF ReadBrands
  <2> QED BY <2>1, <2>2, InvalidTells, PassesTell
<1>11. CASE NoBrands
  BY <1>11, NoBrandsTells
<1>12. CASE ReadBrand
  BY <1>12, ReadBrandTells
<1>13. CASE ReadVersion
  BY <1>13, ReadVersionTells
<1>14. CASE EndBrand
  BY <1>14, EndBrandTells
<1>15. CASE ReadPlatform
  BY <1>15, ReadPlatformTells
<1>16. CASE ReadPlatformVersion
  BY <1>16, ReadPlatformVersionTells
<1> QED BY <1>1, <1>2, <1>3, <1>4, <1>5, <1>6, <1>7, <1>8, <1>9, <1>10, <1>11, <1>12,
           <1>13, <1>14, <1>15, <1>16 DEF Parse

\* While the status is unset what was written fits with its terminator, and
\* what was read or delivered is told from what did not fit.
ShortageInv ==
    status = "NOT_SET" =>
      /\ IF pc = "returned" THEN Len(out) <= length ELSE Len(out) <= Room
      /\ pc = "complete" => length # 0
      /\ \A h \in HeaderSet : Told(cache[h])
      /\ \A i \in DOMAIN headers : Told(headers[i].value)

LEMMA NamesTakeRoom ==
    ASSUME ParseInv, pc \in Reading \cup {"key", "callback"}, Len(out) <= Room
    PROVE  length # 0
<1>1. NamesWritten /\ IsText /\ length \in Nat /\ out \in Seq(Symbol)
  BY DEF ParseInv, TypeInv, NamesInv
<1>2. Len(out) \in Nat
  <2> HIDE DEF Symbol
  <2> QED BY <1>1
<1>3. Decoded \in Nat /\ Names = Decoded + 8 /\ Names <= Len(out)
  BY <1>1, PositionsAre DEF NamesWritten
<1>4. Room \in Nat /\ Room <= length
  BY <1>1, CurrentIs
<1> QED BY <1>1, <1>2, <1>3, <1>4

LEMMA CompleteKeepsShortage ==
    ASSUME ParseInv, ShortageInv, Complete, UNCHANGED headers
    PROVE  ShortageInv'
<1>1. /\ pc = "complete" /\ pc' = "returned" /\ out' = Append(out, NUL)
      /\ status' = status /\ cache' = cache /\ length' = length
  BY DEF Complete, call
<1>2. out \in Seq(Symbol) /\ length \in Nat /\ NUL \in Symbol
  BY DEF ParseInv, TypeInv, Symbol
<1> HIDE DEF Symbol
<1>3. Len(out') = Len(out) + 1 /\ Len(out) \in Nat
  BY <1>1, <1>2, AppendProperties
<1>4. status = "NOT_SET" => Len(out) <= Room /\ length # 0
  BY <1>1 DEF ShortageInv
<1>5. length # 0 => Room = length - 1
  BY DEF Room
<1>6. status = "NOT_SET" => Len(out') <= length
  <2> HAVE status = "NOT_SET"
  <2>1. Len(out) <= Room /\ length # 0 /\ Room = length - 1
    BY <1>4, <1>5
  <2> QED BY <1>2, <1>3, <2>1
<1>7. status = "NOT_SET" =>
        /\ \A h \in HeaderSet : Told(cache[h])
        /\ \A i \in DOMAIN headers : Told(headers[i].value)
  BY DEF ShortageInv
<1> HIDE DEF HeaderSet
<1> QED BY <1>1, <1>6, <1>7 DEF ShortageInv, Told

LEMMA ParsingKeepsShortage ==
    ASSUME ParseInv, ShortageInv, Parsing
    PROVE  ShortageInv'
<1>1. Parse /\ UNCHANGED headers
  BY DEF Parsing
<1>2. CASE Complete
  BY <1>1, <1>2, CompleteKeepsShortage
<1>3. CASE ~ Complete
  <2>1. Tells /\ Moves
    BY <1>1, <1>3, ParseTells, ParseKeeps
  <2>2. length' = length /\ Room' = Room
    BY <2>1, CallKept DEF Moves, Grows
  <2>3. Parse /\ ~ Complete => pc # "returned"
    BY DEF Parse, Decode, DecodeBroken, WriteKeys, EndOfText, BadKey, SkipKey, ReadKey,
           ReadPureString, ReadBool, ReadBrands, NoBrands, ReadBrand, ReadVersion, EndBrand,
           ReadPlatform, ReadPlatformVersion
  <2>4. CASE status' = "NOT_SET"
    <3>1. /\ status = "NOT_SET"
          /\ out' = out \/ Len(out') <= Room
          /\ \A h \in HeaderSet : cache'[h] = cache[h] \/ Told(cache'[h])
          /\ pc' # "returned" /\ (pc' = "complete" => pc \in Reading \cup {"key"})
      BY <2>1, <2>4 DEF Tells
    <3>2. /\ Len(out) <= Room
          /\ \A h \in HeaderSet : Told(cache[h])
          /\ \A i \in DOMAIN headers : Told(headers[i].value)
      BY <1>1, <1>3, <2>3, <3>1 DEF ShortageInv
    <3>3. Len(out') <= Room
      BY <3>1, <3>2
    <3>4. pc' = "complete" => length' # 0
      BY <2>2, <3>1, <3>2, NamesTakeRoom
    <3> HIDE DEF HeaderSet
    <3>5. \A h \in HeaderSet : Told(cache'[h])
      BY <3>1, <3>2 DEF Told
    <3>6. \A i \in DOMAIN headers' : Told(headers'[i].value)
      BY <1>1, <3>2
    <3> QED BY <2>2, <3>1, <3>3, <3>4, <3>5, <3>6 DEF ShortageInv, Told
  <2>5. CASE status' # "NOT_SET"
    BY <2>5 DEF ShortageInv
  <2> QED BY <2>4, <2>5
<1> QED BY <1>2, <1>3

LEMMA PushKeepsShortage ==
    ASSUME ParseInv, ArrayInv, ShortageInv, PushToHeaders
    PROVE  ShortageInv'
<1> DEFINE n == Len(headers)
           S == [key : HeaderSet, value : Regions]
           more == Len(headers') < input.capacity
<1>1. /\ pc = "callback" /\ Resume(more)
      /\ headers' = IF n < input.capacity THEN Append(headers, Pair) ELSE headers
  BY DEF PushToHeaders
<1>2. /\ UNCHANGED call /\ out' = out /\ cache' = cache /\ status' = status
      /\ pc' # "returned"
  BY <1>1 DEF Resume
<1>3. length' = length /\ Room' = Room
  BY <1>2, CallKept
<1>4. CASE status' # "NOT_SET"
  BY <1>4 DEF ShortageInv
<1>5. CASE status' = "NOT_SET"
  <2>1. /\ Len(out) <= Room
        /\ \A h \in HeaderSet : Told(cache[h])
        /\ \A i \in DOMAIN headers : Told(headers[i].value)
    BY <1>1, <1>2, <1>5 DEF ShortageInv
  <2>2. length # 0
    BY <1>1, <2>1, NamesTakeRoom
  <2>3. key \in HeaderSet /\ cache[key] \in Regions /\ headers \in Seq(S)
    <3>1. key \in HeaderSet /\ cache \in [HeaderSet -> Regions] /\ headers \in Seq(S)
      BY <1>1 DEF ParseInv, TypeInv, ValuesInv, ArrayInv
    <3> HIDE DEF HeaderSet, Regions, S
    <3> QED BY <3>1
  <2> HIDE DEF HeaderSet
  <2>4. Told(Pair.value) /\ Pair \in S
    <3>1. Pair.value = cache[key]
      BY DEF Pair
    <3>2. Told(cache[key])
      BY <2>1, <2>3
    <3>3. Told(Pair.value)
      BY <3>1, <3>2
    <3> HIDE DEF Regions
    <3>4. Pair \in S
      BY <2>3 DEF Pair
    <3> QED BY <3>3, <3>4
  <2> HIDE DEF S
  <2>5. \A i \in DOMAIN headers' : Told(headers'[i].value)
    <3>1. CASE n < input.capacity
      <4>1. headers' = Append(headers, Pair)
        BY <1>1, <3>1
      <4>2. /\ headers' \in Seq(S) /\ Len(headers') = n + 1 /\ n \in Nat
            /\ \A i \in 1 .. n : headers'[i] = headers[i]
            /\ headers'[n + 1] = Pair
        BY <2>3, <2>4, <4>1, AppendProperties
      <4>3. \A i \in DOMAIN headers' : i \in 1 .. n \/ i = n + 1
        BY <4>2
      <4>4. \A i \in 1 .. n : i \in DOMAIN headers
        BY <2>3
      <4> HIDE <1>1
      <4> QED BY <2>1, <2>4, <4>2, <4>3, <4>4
    <3>2. CASE ~ (n < input.capacity)
      BY <1>1, <2>1, <3>2
    <3> QED BY <3>1, <3>2
  <2>6. \A h \in HeaderSet : Told(cache'[h])
    BY <1>2, <2>1
  <2>7. Len(out') <= Room'
    BY <1>2, <1>3, <2>1
  <2> QED BY <1>2, <1>3, <2>2, <2>5, <2>6, <2>7 DEF ShortageInv, Told
<1> QED BY <1>4, <1>5

\* A call that starts has written nothing and read nothing.
Untold ==
    /\ length \in Nat /\ out = <<>> /\ pc \notin {"complete", "returned"}
    /\ cache = [h \in HeaderSet |-> NoValue] /\ headers = <<>>

LEMMA StartsUntold ==
    Untold => ShortageInv
<1> SUFFICES ASSUME Untold PROVE ShortageInv
  OBVIOUS
<1>1. Len(out) <= Room
  <2>1. Len(out) = 0 /\ Room \in Nat
    BY CurrentIs DEF Untold
  <2> QED BY <2>1
<1>2. \A h \in HeaderSet : Told(cache[h])
  BY NoValueFits DEF Told, Untold
<1>3. DOMAIN headers = {}
  BY DEF Untold
<1> QED BY <1>1, <1>2, <1>3 DEF ShortageInv, Untold

LEMMA ShortageInvInductive ==
    ArraySpec => []ShortageInv
<1>1. ArrayInit => ShortageInv
  <2> SUFFICES ASSUME ArrayInit PROVE ShortageInv
    OBVIOUS
  <2>1. /\ input \in Inputs /\ length = input.length
        /\ out = <<>> /\ headers = <<>> /\ cache = [h \in HeaderSet |-> NoValue]
        /\ pc \notin {"complete", "returned"}
    BY DEF ArrayInit
  <2>2. length \in Nat
    BY <2>1, InputsAssumption
  <2> QED BY <2>1, <2>2, StartsUntold DEF Untold
<1>2. ArrayIInv /\ ShortageInv /\ [ArrayNext]_arrayVars => ShortageInv'
  <2> SUFFICES ASSUME ArrayIInv, ShortageInv, [ArrayNext]_arrayVars PROVE ShortageInv'
    OBVIOUS
  <2>0. ParseInv /\ ArrayInv
    BY DEF ArrayIInv
  <2>1. CASE Parsing
    BY <2>0, <2>1, ParsingKeepsShortage
  <2>2. CASE PushToHeaders
    BY <2>0, <2>2, PushKeepsShortage
  <2>3. CASE CallAgain
    <3>1. /\ length' = Larger /\ out' = <<>> /\ headers' = <<>>
          /\ cache' = [h \in HeaderSet |-> NoValue]
          /\ pc' \notin {"complete", "returned"}
      BY <2>3 DEF CallAgain, Start
    <3>2. length \in Nat /\ out \in Seq(Symbol)
      BY <2>0 DEF ParseInv, TypeInv
    <3>3. Larger \in Nat
      <4>1. Len(out) \in Nat
        <5> HIDE DEF Symbol
        <5> QED BY <3>2
      <4> QED BY <3>2, <4>1 DEF Larger
    <3>4. Untold'
      BY <3>1, <3>3 DEF Untold, HeaderSet, NoValue
    <3>5. Untold' => ShortageInv'
      BY StartsUntold, PTL
    <3> QED BY <3>4, <3>5
  <2>4. CASE UNCHANGED arrayVars
    <3>1. UNCHANGED <<status, pc, length, out, cache, headers>>
      BY <2>4 DEF arrayVars, parse
    <3>2. Room' = Room
      BY <3>1 DEF Room
    <3> HIDE DEF HeaderSet
    <3> QED BY <3>1, <3>2 DEF ShortageInv, Told
  <2> QED BY <2>1, <2>2, <2>3, <2>4 DEF ArrayNext
<1> QED BY <1>1, <1>2, ArrayInvInductive, PTL DEF ArraySpec

(***************************************************************************)
(* Whatever the text, the buffer and the array, a call of an array         *)
(* function of transformc.c that returns without an exception for its      *)
(* buffer has all that it wrote in the buffer, with the terminator, and    *)
(* only an empty value is delivered without a place.                       *)
(***************************************************************************)
THEOREM ShortagesAreReported ==
    ArraySpec => []ShortageIsReported
<1>1. ArrayIInv /\ ShortageInv => ShortageIsReported
  <2> SUFFICES ASSUME ArrayIInv, ShortageInv, pc = "returned", status = "NOT_SET"
               PROVE  /\ ~ BufferTooSmall
                      /\ \A i \in DOMAIN headers :
                           headers[i].value.null => headers[i].value.length = 0
    BY DEF ShortageIsReported
  <2>1. Len(out) <= length /\ \A i \in DOMAIN headers : Told(headers[i].value)
    BY DEF ShortageInv
  <2>2. length \in Nat /\ out \in Seq(Symbol)
    BY DEF ArrayIInv, ParseInv, TypeInv
  <2>3. Len(out) \in Nat
    <3> HIDE DEF Symbol
    <3> QED BY <2>2
  <2>4. ~ BufferTooSmall
    BY <2>1, <2>2, <2>3 DEF BufferTooSmall
  <2> QED BY <2>1, <2>4 DEF Told
<1> QED BY <1>1, ArrayInvInductive, ShortageInvInductive, PTL

-----------------------------------------------------------------------------
(* The work that is left of a call, and what a call writes for it.           *)

\* A status tells of a shortage only when there is one.
Shorts(st) ==
    st = "INSUFFICIENT_MEMORY" => status = "INSUFFICIENT_MEMORY" \/ Len(out') > Room

\* A step moves the cursor on or comes closer to the end of the call, and it
\* writes no more than two characters for each that it reads.
Advances ==
    /\ at <= at' /\ (at < at' \/ Steps' < Steps)
    /\ Len(out') <= Len(out) + 2 * (at' - at)
    /\ Shorts(status')

LEMMA StepsAre ==
    /\ Steps \in 0 .. 7 /\ (pc # "returned" => Steps # 0)
    /\ pc \in Reading => Steps = 5
    /\ pc = "key" => Steps = 2
    /\ pc = "callback" => Steps = IF key = "PLATFORMVERSION" THEN 3 ELSE 4
    /\ pc = "complete" => Steps = 1
    /\ pc = "keys" => Steps = 6
    /\ pc = "decode" => Steps = 7
BY DEF Steps, Reading, Brands

LEMMA StepsWillBe ==
    /\ Steps' \in 0 .. 7 /\ (pc' # "returned" => Steps' # 0)
    /\ pc' \in Reading => Steps' = 5
    /\ pc' = "key" => Steps' = 2
    /\ pc' = "callback" => Steps' = IF key' = "PLATFORMVERSION" THEN 3 ELSE 4
    /\ pc' = "complete" => Steps' = 1
    /\ pc' = "keys" => Steps' = 6
BY DEF Steps, Reading, Brands

LEMMA WrittenShorts ==
    ASSUME ParseInv, NEW s \in Seq(Symbol), out' = out \o s
    PROVE  Shorts(Written(s))
<1>1. out \in Seq(Symbol)
  BY DEF ParseInv, TypeInv
<1> HIDE DEF Symbol
<1>2. Len(out') = Len(out) + Len(s)
  BY <1>1, ConcatProperties
<1> QED BY <1>2 DEF Written, Shorts

LEMMA StringShorts ==
    ASSUME ParseInv, NEW s, NEW more \in Seq(Symbol), s.text \in Seq(Symbol),
           out' = out \o (s.text \o more)
    PROVE  Shorts(StatusOf(s, more))
<1> HIDE DEF Symbol
<1>1. s.text \o more \in Seq(Symbol) /\ Len(s.text \o more) = Len(s.text) + Len(more)
  BY ConcatProperties
<1>2. out \in Seq(Symbol)
  BY DEF ParseInv, TypeInv
<1>3. Len(out') = Len(out) + Len(s.text) + Len(more)
  <2>1. Len(out') = Len(out) + Len(s.text \o more)
    BY <1>1, <1>2, ConcatProperties
  <2>2. Len(out) \in Nat /\ Len(s.text) \in Nat /\ Len(more) \in Nat
    BY <1>2
  <2> QED BY <1>1, <2>1, <2>2
<1>4. CASE s.type = "invalid"
  BY <1>3, <1>4 DEF StatusOf, Shorts
<1>5. CASE s.type # "invalid"
  <2>1. Shorts(Written(s.text \o more))
    BY <1>1, WrittenShorts
  <2> QED BY <1>5, <2>1 DEF StatusOf
<1> QED BY <1>4, <1>5

\* A step that moves on or leaves the reading.
LEMMA Moving ==
    ASSUME ParseInv, NEW s \in Seq(Symbol), out' = out \o s, at' \in 1 .. Last,
           at <= at', at < at' \/ Steps' < Steps, Len(s) <= 2 * (at' - at),
           Shorts(status')
    PROVE  Advances
<1>1. out \in Seq(Symbol)
  BY DEF ParseInv, TypeInv
<1>2. Len(out') = Len(out) + Len(s) /\ Len(out) \in Nat /\ Len(s) \in Nat
  <2> HIDE DEF Symbol
  <2> QED BY <1>1, ConcatProperties
<1>3. at \in Nat /\ at' \in Nat
  BY TextEnds DEF ParseInv, TypeInv
<1>4. Len(out') <= Len(out) + 2 * (at' - at)
  BY <1>2, <1>3
<1> QED BY <1>4 DEF Advances

\* A step that writes nothing.
LEMMA Silent ==
    ASSUME ParseInv, out' = out, at' \in 1 .. Last, at <= at',
           at < at' \/ Steps' < Steps, status' \in {status, "INVALID_INPUT"}
    PROVE  Advances
<1>1. <<>> \in Seq(Symbol) /\ out \in Seq(Symbol) /\ at \in Nat /\ at' \in Nat
  BY TextEnds DEF ParseInv, TypeInv
<1>2. out' = out \o <<>> /\ Len(<<>>) = 0
  <2> HIDE DEF Symbol
  <2> QED BY <1>1, ConcatEmptySeq
<1>3. Len(<<>>) <= 2 * (at' - at)
  <2>1. at \in Nat /\ at' \in Nat /\ at <= at'
    BY <1>1
  <2>2. \A a, b \in Nat : a <= b => 0 <= 2 * (b - a)
    OBVIOUS
  <2> QED BY <1>2, <2>1, <2>2
<1>4. Shorts(status')
  BY DEF Shorts
<1> HIDE DEF Symbol
<1> QED BY <1>1, <1>2, <1>3, <1>4, Moving

LEMMA InvalidAdvances ==
    ASSUME ParseInv, pc \in Reading \cup {"key"}, Invalid
    PROVE  Advances
<1>1. at' = at /\ out' = out /\ status' = "INVALID_INPUT" /\ pc' = "complete" /\ at \in 1 .. Last
  BY DEF Invalid, ParseInv, TypeInv
<1>2. at \in Nat
  BY <1>1, TextEnds DEF ParseInv, TypeInv
<1>3. Steps' < Steps
  BY <1>1, StepsAre, StepsWillBe
<1> QED BY <1>1, <1>2, <1>3, Silent

LEMMA ReadAdvances ==
    ASSUME ParseInv, pc \in Reading, NEW s \in Seq(Symbol), out' = out \o s,
           NEW st, NEW delivered, NEW end \in 1 .. Last, Read(st, delivered, end),
           at <= end, Len(s) <= 2 * (end - at), Shorts(st)
    PROVE  Advances
<1>1. IsText /\ at \in Nat /\ end \in Nat /\ Last \in Nat
  BY TextEnds, ValueFacts DEF ParseInv, TypeInv
<1>2. status' = st /\ at' \in 1 .. Last /\ pc' \in {"key", "complete", "callback"}
  BY <1>1, ReadEnds
<1>3. at' \in Nat /\ end <= at'
  <2>1. Quote # NUL
    BY DEF Quote, NUL
  <2>2. Skip(end, Quote) \in end .. Last
    BY <1>1, <2>1, SkipInText
  <2>3. at' = end \/ at' = Skip(end, Quote)
    BY DEF Read
  <2> QED BY <1>1, <2>2, <2>3
<1>4. Steps' < Steps
  BY <1>2, StepsAre, StepsWillBe
<1>5. Len(s) \in Nat
  <2> HIDE DEF Symbol
  <2> QED OBVIOUS
<1>6. at <= at' /\ Len(s) <= 2 * (at' - at)
  BY <1>1, <1>3, <1>5
<1> HIDE DEF Symbol
<1> QED BY <1>2, <1>4, <1>6, Moving

\* A member that is found is further on.
LEMMA MemberOn ==
    ASSUME IsText, NEW i \in 0 .. Last, NEW word, word # NUL
    PROVE  Member(i, word) = 0 \/ Member(i, word) \in i + 1 .. Last
<1> DEFINE first == Past(i, Quote)
<1>0. Quote # NUL /\ ":" # NUL
  BY DEF Quote, NUL
<1>1. first = 0 \/ first \in i + 1 .. Last
  BY <1>0, PastEnds
<1>2. Member(i, word) = IF first # 0 /\ Sym(first) = word /\ Sym(first + 1) = Quote
                        THEN Past(first + 2, ":") ELSE 0
  BY DEF Member
<1> HIDE DEF first
<1>3. CASE first # 0 /\ Sym(first) = word /\ Sym(first + 1) = Quote
  <2>1. first + 1 \in Int /\ Sym(first + 1) # NUL
    <3>1. first + 1 \in Int
      BY <1>1, <1>3
    <3> QED BY <1>0, <1>3, <3>1
  <2>2. (first + 1) + 1 \in 1 .. Last
    BY <2>1, TextEnds
  <2>3. first + 2 \in 0 .. Last
    BY <1>1, <1>3, <2>2
  <2>4. Past(first + 2, ":") = 0 \/ Past(first + 2, ":") \in (first + 2) + 1 .. Last
    BY <1>0, <2>3, PastEnds
  <2>5. \A n \in (first + 2) + 1 .. Last : n \in i + 1 .. Last
    BY <1>1, <1>3, TextEnds
  <2>6. Member(i, word) = Past(first + 2, ":")
    BY <1>2, <1>3
  <2> QED BY <2>4, <2>5, <2>6
<1>4. CASE ~ (first # 0 /\ Sym(first) = word /\ Sym(first + 1) = Quote)
  BY <1>2, <1>4
<1> QED BY <1>3, <1>4

\* The member after a target is further on than the target.
LEMMA MemberPast ==
    ASSUME IsText, NEW i \in 1 .. Last, NEW target, target # NUL, NEW word, word # NUL
    PROVE  LET m == Member(Past(i, target), word)
           IN m = 0 \/ (m \in 1 .. Last /\ m > i)
<1> DEFINE p == Past(i, target)
           m == Member(p, word)
<1>1. Last \in Nat /\ i \in Nat /\ i \in 0 .. Last
  BY TextEnds
<1>2. p = 0 \/ p \in i + 1 .. Last
  BY <1>1, PastEnds
<1>3. CASE p = 0
  <2>1. \A t : Past(0, t) = 0
    BY DEF Past
  <2>2. Member(0, word) = 0
    BY <2>1 DEF Member
  <2> QED BY <1>3, <2>2
<1>4. CASE p # 0
  <2>1. p \in 0 .. Last /\ p \in Nat /\ p > i
    <3> HIDE DEF p
    <3> QED BY <1>1, <1>2, <1>4
  <2>2. m = 0 \/ m \in p + 1 .. Last
    BY <2>1, MemberOn
  <2> HIDE DEF p, m
  <2>3. m = 0 \/ (m \in 1 .. Last /\ m > i)
    BY <1>1, <2>1, <2>2
  <2> QED BY <2>3 DEF m, p
<1> QED BY <1>3, <1>4

LEMMA SkipKeyAdvances ==
    ASSUME ParseInv, SkipKey
    PROVE  Advances
<1> DEFINE end == KeyAt(at).end
<1>0. IsText /\ at \in 1 .. Last
  BY DEF ParseInv, TypeInv
<1>1. /\ Sym(at) # NUL /\ Sym(end) = Quote /\ at' = SkipValue(end + 1)
      /\ out' = out /\ status' = status
  BY DEF SkipKey
<1>2. end \in 1 .. Last /\ end > at
  BY <1>0, <1>1, KeyEnds
<1> HIDE DEF end
<1>3. Sym(end) # NUL
  BY <1>1 DEF Quote, NUL
<1>4. end + 1 \in 1 .. Last
  BY <1>0, <1>2, <1>3, InText
<1>5. at' \in 1 .. Last /\ at' \in end + 1 .. Last
  BY <1>0, <1>1, <1>4, ValueEnds
<1>6. at < at'
  BY <1>0, <1>2, <1>5, TextEnds
<1>7. at <= at'
  BY <1>0, <1>5, <1>6, TextEnds
<1> QED BY <1>1, <1>5, <1>6, <1>7, Silent

LEMMA ReadKeyAdvances ==
    ASSUME ParseInv, ReadKey
    PROVE  Advances
<1> DEFINE end == KeyAt(at).end
           colon == Past(end, ":")
           first == SkipSpace(colon)
<1>0. IsText /\ at \in 1 .. Last
  BY DEF ParseInv, TypeInv
<1>1. Sym(at) # NUL /\ pc = "key"
  BY DEF ReadKey
<1>2. CASE Invalid
  BY <1>1, <1>2, InvalidAdvances
<1>3. CASE ~ Invalid
  <2>1. colon # 0 /\ at' = first /\ out' = out /\ status' = status
    BY <1>3 DEF ReadKey
  <2>2. end \in 1 .. Last /\ end > at
    BY <1>0, <1>1, KeyEnds
  <2>3. colon = 0 \/ colon \in end + 1 .. Last
    <3>1. ":" # NUL /\ end \in 0 .. Last
      BY <1>0, <2>2, InText DEF NUL
    <3> HIDE DEF end
    <3> QED BY <1>0, <3>1, PastEnds
  <2> HIDE DEF end, colon
  <2>4. colon \in 1 .. Last /\ colon > at
    BY <1>0, <2>1, <2>2, <2>3, TextEnds
  <2>5. first \in colon .. Last
    BY <1>0, <2>4, SpaceEnds
  <2> HIDE DEF first
  <2>6. at' \in 1 .. Last /\ at < at' /\ at <= at'
    BY <1>0, <2>1, <2>4, <2>5, TextEnds
  <2> QED BY <2>1, <2>6, Silent
<1> QED BY <1>2, <1>3

LEMMA ReadPureStringAdvances ==
    ASSUME ParseInv, ReadPureString
    PROVE  Advances
<1> DEFINE s == StringAt(at)
           st == StatusOf(s, <<>>)
<1>1. pc = "value" /\ out' = out \o s.text /\ Read(st, s.type # "null", s.end)
  BY DEF ReadPureString
<1>2. pc \in Reading
  BY <1>1 DEF Reading
<1>3. IsText /\ at \in 1 .. Last
  BY <1>2, ValueFacts
<1>4. s \in StringSet /\ s.end >= at /\ Len(s.text) <= s.end - at
  BY <1>3, StringEnds
<1> HIDE DEF s, Symbol
<1>5. s.text \in Seq(Symbol) /\ s.end \in 1 .. Last
  BY <1>4 DEF StringSet
<1>6. s.text \o <<>> = s.text /\ <<>> \in Seq(Symbol)
  BY <1>5, ConcatEmptySeq
<1>7. Shorts(st)
  BY <1>1, <1>5, <1>6, StringShorts
<1>8. at <= s.end /\ Len(s.text) <= 2 * (s.end - at)
  <2>1. at \in Nat /\ s.end \in Nat /\ Len(s.text) \in Nat
    BY <1>3, <1>5, TextEnds
  <2> QED BY <1>4, <2>1
<1> HIDE DEF st
<1> QED BY <1>1, <1>2, <1>5, <1>7, <1>8, ReadAdvances

LEMMA ReadBoolAdvances ==
    ASSUME ParseInv, ReadBool
    PROVE  Advances
<1> DEFINE s == Truths[Sym(at)]
<1>1. pc = "value" /\ pc \in Reading
  BY DEF ReadBool, Reading
<1>2. CASE Sym(at) \notin DOMAIN Truths
  <2>1. Invalid /\ pc \in Reading \cup {"key"}
    BY <1>1, <1>2 DEF ReadBool
  <2> QED BY <2>1, InvalidAdvances
<1>3. CASE Sym(at) \in DOMAIN Truths
  <2>1. out' = out \o s /\ Read(Written(s), TRUE, at + 1)
    BY <1>3 DEF ReadBool
  <2>2. Sym(at) # NUL /\ s \in Seq(Symbol) /\ Len(s) = 2
    BY <1>3, TruthsAre
  <2> HIDE DEF Symbol, s
  <2>3. Shorts(Written(s))
    BY <2>1, <2>2, WrittenShorts
  <2>4. IsText /\ at \in 1 .. Last /\ at + 1 \in 1 .. Last
    BY <1>1, <2>2, ValueFacts, InText
  <2>5. at <= at + 1 /\ Len(s) <= 2 * ((at + 1) - at)
    <3>1. at \in Nat
      BY <2>4, TextEnds
    <3> QED BY <2>2, <3>1
  <2> QED BY <1>1, <2>1, <2>2, <2>3, <2>4, <2>5, ReadAdvances
<1> QED BY <1>2, <1>3

LEMMA ReadBrandsAdvances ==
    ASSUME ParseInv, ReadBrands
    PROVE  Advances
<1> DEFINE first == Past(at, "[")
<1>1. pc \in Reading /\ pc \in Reading \cup {"key"}
  BY DEF ReadBrands, Reading
<1>2. CASE first = 0
  BY <1>1, <1>2, InvalidAdvances DEF ReadBrands
<1>3. CASE first # 0
  <2>1. at' = first /\ out' = out /\ status' = status
    BY <1>3 DEF ReadBrands
  <2>2. IsText /\ at \in 1 .. Last
    BY <1>1, ValueFacts
  <2>3. at \in 0 .. Last /\ "[" # NUL
    BY <2>2, InText DEF NUL
  <2>4. first \in at + 1 .. Last
    BY <1>3, <2>2, <2>3, PastEnds
  <2> HIDE DEF first
  <2>5. at' \in 1 .. Last /\ at < at' /\ at <= at'
    BY <2>1, <2>2, <2>4, TextEnds
  <2> QED BY <2>1, <2>5, Silent
<1> QED BY <1>2, <1>3

LEMMA NoBrandsAdvances ==
    ASSUME ParseInv, NoBrands
    PROVE  Advances
<1>1. pc = "brand" /\ Read(status, TRUE, SkipSpace(at)) /\ out' = out
  BY DEF NoBrands
<1>2. pc \in Reading
  BY <1>1 DEF Reading, Brands
<1>3. IsText /\ at \in 1 .. Last /\ out \in Seq(Symbol)
  BY <1>2, ValueFacts
<1>4. SkipSpace(at) \in 1 .. Last /\ SkipSpace(at) \in at .. Last
  BY <1>3, SpaceEnds, SpaceInText
<1>5. out' = out \o <<>> /\ <<>> \in Seq(Symbol) /\ Len(<<>>) = 0
  <2> HIDE DEF Symbol
  <2> QED BY <1>1, <1>3, ConcatEmptySeq
<1>6. at <= SkipSpace(at) /\ Len(<<>>) <= 2 * (SkipSpace(at) - at)
  <2>1. at \in Nat /\ SkipSpace(at) \in Nat /\ at <= SkipSpace(at)
    BY <1>3, <1>4, TextEnds
  <2>2. 0 <= 2 * (SkipSpace(at) - at)
    BY <2>1
  <2> QED BY <1>5, <2>1, <2>2
<1>7. Shorts(status)
  BY DEF Shorts
<1> HIDE DEF Symbol
<1> QED BY <1>1, <1>2, <1>4, <1>5, <1>6, <1>7, ReadAdvances

LEMMA ReadBrandAdvances ==
    ASSUME ParseInv, ReadBrand
    PROVE  Advances
<1> DEFINE brand == Member(Past(at, "{"), "brand")
           s == StringAt(brand)
           more == IF s.type = "null" THEN <<>> ELSE <<";v=">>
<1>1. pc \in Reading
  BY DEF ReadBrand, Reading, Brands
<1>2. CASE brand = 0
  <2>1. Invalid /\ pc \in Reading \cup {"key"}
    BY <1>1, <1>2 DEF ReadBrand
  <2> QED BY <2>1, InvalidAdvances
<1>3. CASE brand # 0
  <2>1. /\ out' = out \o s.text \o more
        /\ status' = StatusOf(s, more) /\ at' = s.end
    BY <1>3 DEF ReadBrand
  <2>2. IsText /\ at \in 1 .. Last /\ out \in Seq(Symbol)
    BY <1>1, ValueFacts
  <2>3. "{" # NUL /\ "brand" # NUL
    BY DEF NUL
  <2>4. brand \in 1 .. Last /\ brand > at
    BY <1>3, <2>2, <2>3, MemberPast
  <2> HIDE DEF brand
  <2>5. s \in StringSet /\ s.end >= brand /\ Len(s.text) <= s.end - brand
    BY <2>2, <2>4, StringEnds
  <2>6. more \in Seq(Symbol) /\ Len(more) <= 1
    <3>1. ";v=" \in Symbol
      BY DEF Symbol
    <3>2. Len(<<>>) = 0 /\ Len(<<";v=">>) = 1
      OBVIOUS
    <3>3. more = <<>> \/ more = <<";v=">>
      OBVIOUS
    <3> HIDE DEF Symbol, s, more
    <3>4. more \in Seq(Symbol) /\ (Len(more) = 0 \/ Len(more) = 1)
      BY <3>1, <3>2, <3>3, Singles
    <3>5. \A n : n = 0 \/ n = 1 => n <= 1
      OBVIOUS
    <3> QED BY <3>4, <3>5
  <2> HIDE DEF Symbol, s, more
  <2>7. s.text \in Seq(Symbol) /\ s.end \in 1 .. Last
    BY <2>5 DEF StringSet
  <2> DEFINE t == s.text \o more
  <2>8. t \in Seq(Symbol) /\ out' = out \o t /\ Len(t) = Len(s.text) + Len(more)
    BY <2>1, <2>2, <2>6, <2>7, Joined, ConcatProperties
  <2>9. Shorts(status')
    BY <2>1, <2>6, <2>7, <2>8, StringShorts
  <2> HIDE DEF t
  <2>10. /\ at' \in 1 .. Last /\ at < at' /\ at <= at' /\ Len(t) <= 2 * (at' - at)
    <3>1. /\ at \in Nat /\ brand \in Nat /\ s.end \in Nat
          /\ Len(s.text) \in Nat /\ Len(more) \in Nat
      BY <2>2, <2>4, <2>6, <2>7, TextEnds
    <3>2. at' = s.end /\ brand > at /\ s.end >= brand
      BY <2>1, <2>4, <2>5
    <3>3. Len(t) <= (s.end - brand) + 1
      BY <2>5, <2>6, <2>8, <3>1
    <3>4. \A a, b, e \in Nat : b > a /\ e >= b => (e - b) + 1 <= 2 * (e - a) /\ a < e /\ a <= e
      OBVIOUS
    <3>5. (s.end - brand) + 1 <= 2 * (s.end - at) /\ at < s.end /\ at <= s.end
      BY <3>1, <3>2, <3>4
    <3>6. Len(t) \in Nat
      BY <2>8
    <3> QED BY <2>7, <3>1, <3>2, <3>3, <3>5, <3>6
  <2> QED BY <2>8, <2>9, <2>10, Moving
<1> QED BY <1>2, <1>3

LEMMA ReadVersionAdvances ==
    ASSUME ParseInv, ReadVersion
    PROVE  Advances
<1> DEFINE version == Member(Past(at, ","), "version")
           list == Past(version, "[")
           v == IF kind = "sua" THEN VersionAt(list) ELSE StringAt(version)
           s == IF kind = "sua" THEN <<Quote>> \o v.text
                ELSE IF v.type = "null" THEN <<"null">> ELSE v.text
<1>1. pc \in Reading
  BY DEF ReadVersion, Reading, Brands
<1>2. CASE version = 0 \/ (kind = "sua" /\ list = 0)
  <2>1. Invalid /\ pc \in Reading \cup {"key"}
    BY <1>1, <1>2 DEF ReadVersion
  <2> QED BY <2>1, InvalidAdvances
<1>3. CASE ~ (version = 0 \/ (kind = "sua" /\ list = 0))
  <2>1. /\ out' = out \o s /\ at' = v.end
        /\ status' = IF v.type = "invalid" THEN "INVALID_INPUT" ELSE Written(s)
    BY <1>3 DEF ReadVersion
  <2>2. IsText /\ at \in 1 .. Last
    BY <1>1, ValueFacts
  <2>3. "," # NUL /\ "version" # NUL /\ "[" # NUL
    BY DEF NUL
  <2>4. version \in 1 .. Last /\ version > at
    BY <1>3, <2>2, <2>3, MemberPast
  <2> HIDE DEF version
  <2>5. /\ s \in Seq(Symbol) /\ v.end \in 1 .. Last /\ v.end >= version
        /\ Len(s) <= (v.end - version) + 1
    <3>1. CASE kind = "sua"
      <4>1. s = <<Quote>> \o VersionAt(list).text /\ v.end = VersionAt(list).end
        BY <3>1
      <4>2. list # 0 /\ version \in 0 .. Last
        BY <1>3, <2>2, <2>4, <3>1, InText
      <4>3. list \in version + 1 .. Last
        BY <2>2, <2>3, <4>2, PastEnds
      <4> HIDE DEF list
      <4>4. list \in 1 .. Last /\ list > version
        BY <2>2, <2>4, <4>3, TextEnds
      <4>5. /\ VersionAt(list) \in VersionSet /\ VersionAt(list).end \in list .. Last
            /\ Len(VersionAt(list).text) <= VersionAt(list).end - list
        BY <2>2, <4>4, VersionEnds
      <4> DEFINE t == VersionAt(list).text
                 e == VersionAt(list).end
      <4>6. t \in Seq(Symbol) /\ <<Quote>> \in Seq(Symbol) /\ Len(<<Quote>>) = 1
        <5>1. Quote \in Symbol /\ Len(<<Quote>>) = 1
          BY DEF Symbol
        <5> HIDE DEF Symbol
        <5> QED BY <4>5, <5>1, Singles DEF VersionSet
      <4> HIDE DEF Symbol, t, e
      <4>7. <<Quote>> \o t \in Seq(Symbol) /\ Len(<<Quote>> \o t) = 1 + Len(t)
        BY <4>6, ConcatProperties
      <4>8. Len(t) \in Nat /\ Len(t) <= e - list /\ e \in list .. Last
        BY <4>5, <4>6 DEF t, e
      <4>9. s = <<Quote>> \o t /\ v.end = e
        BY <4>1 DEF t, e
      <4> HIDE DEF s, v
      <4>10. /\ e \in 1 .. Last /\ e >= version /\ 1 + Len(t) <= (e - version) + 1
        BY <2>2, <2>4, <4>4, <4>8, TextEnds
      <4> QED BY <4>7, <4>9, <4>10
    <3>2. CASE kind # "sua"
      <4>1. /\ StringAt(version) \in StringSet /\ StringAt(version).end >= version
            /\ Len(StringAt(version).text) <= StringAt(version).end - version
        BY <2>2, <2>4, StringEnds
      <4>2. StringAt(version).text \in Seq(Symbol) /\ StringAt(version).end \in 1 .. Last
        <5> HIDE DEF Symbol
        <5> QED BY <4>1 DEF StringSet
      <4>3. <<"null">> \in Seq(Symbol) /\ Len(<<"null">>) = 1
        <5>1. "null" \in Symbol /\ Len(<<"null">>) = 1
          BY DEF Symbol
        <5> HIDE DEF Symbol
        <5> QED BY <5>1, Singles
      <4>4. s \in {<<"null">>, StringAt(version).text} /\ v.end = StringAt(version).end
        BY <3>2
      <4> HIDE DEF s, v, Symbol
      <4>5. Len(s) <= (v.end - version) + 1
        <5>1. v.end \in Nat /\ version \in Nat /\ Len(StringAt(version).text) \in Nat
          BY <2>2, <2>4, <4>2, <4>4, TextEnds
        <5>2. v.end >= version /\ Len(StringAt(version).text) <= v.end - version
          BY <4>1, <4>4
        <5>3. 1 <= (v.end - version) + 1 /\ Len(StringAt(version).text) <= (v.end - version) + 1
          BY <5>1, <5>2
        <5> QED BY <4>3, <4>4, <5>3
      <4> QED BY <4>1, <4>2, <4>3, <4>4, <4>5
    <3> QED BY <3>1, <3>2
  <2> HIDE DEF s, v, Symbol
  <2>6. Shorts(status')
    <3>1. Shorts(Written(s)) /\ Shorts("INVALID_INPUT")
      BY <2>1, <2>5, WrittenShorts DEF Shorts
    <3> QED BY <2>1, <3>1
  <2>7. at' \in 1 .. Last /\ at < at' /\ at <= at' /\ Len(s) <= 2 * (at' - at)
    <3>1. at \in Nat /\ version \in Nat /\ v.end \in Nat /\ Len(s) \in Nat
      BY <2>2, <2>4, <2>5, TextEnds
    <3>2. \A a, b, e, n \in Nat : b > a /\ e >= b /\ n <= (e - b) + 1 =>
            n <= 2 * (e - a) /\ a < e /\ a <= e
      OBVIOUS
    <3>3. Len(s) <= 2 * (v.end - at) /\ at < v.end /\ at <= v.end
      BY <2>4, <2>5, <3>1, <3>2
    <3> QED BY <2>1, <2>5, <3>3
  <2> QED BY <2>1, <2>5, <2>6, <2>7, Moving
<1> QED BY <1>2, <1>3

LEMMA EndBrandAdvances ==
    ASSUME ParseInv, EndBrand
    PROVE  Advances
<1> DEFINE brace == Past(at, "}")
           next == SkipSpace(brace)
           separated == IF kind = "sua" THEN Current(ptr) # Current(begin) ELSE named
           delivered == Current(ptr) # Current(begin)
           s == <<",", " ">>
<1>1. pc \in Reading
  BY DEF EndBrand, Reading, Brands
<1>2. CASE brace = 0 \/ Sym(next) \notin {"]", ","}
  <2>1. Invalid /\ pc \in Reading \cup {"key"}
    <3> HIDE DEF brace, next
    <3> QED BY <1>1, <1>2 DEF EndBrand, brace, next
  <2> QED BY <2>1, InvalidAdvances
<1>3. IsText /\ at \in 1 .. Last /\ out \in Seq(Symbol)
  BY <1>1, ValueFacts
<1>4. ASSUME brace # 0
      PROVE  next \in 1 .. Last /\ next > at /\ next \in Nat /\ at \in Nat
  <2>1. "}" # NUL /\ at \in 0 .. Last
    BY <1>3, InText DEF NUL
  <2>2. brace \in at + 1 .. Last
    BY <1>3, <1>4, <2>1, PastEnds
  <2> HIDE DEF brace
  <2>3. brace \in 1 .. Last /\ brace > at
    BY <1>3, <2>2, TextEnds
  <2>4. next \in brace .. Last
    BY <1>3, <2>3, SpaceEnds
  <2> HIDE DEF next
  <2> QED BY <1>3, <2>3, <2>4, TextEnds
<1>5. CASE brace # 0 /\ Sym(next) = "]"
  <2>1. Read(status, delivered, next) /\ out' = out
    BY <1>5 DEF EndBrand
  <2> HIDE DEF brace, next, delivered
  <2>2. out' = out \o <<>> /\ <<>> \in Seq(Symbol) /\ Len(<<>>) = 0
    <3>1. out' = out /\ out \in Seq(Symbol)
      BY <1>3, <2>1
    <3> HIDE DEF Symbol
    <3> QED BY <3>1, ConcatEmptySeq
  <2>3. at <= next /\ Len(<<>>) <= 2 * (next - at)
    <3>1. \A a, b \in Nat : a < b => 0 <= 2 * (b - a) /\ a <= b
      OBVIOUS
    <3>2. at \in Nat /\ next \in Nat /\ at < next
      BY <1>4, <1>5
    <3> QED BY <2>2, <3>1, <3>2
  <2>4. Shorts(status) /\ next \in 1 .. Last
    BY <1>4, <1>5 DEF Shorts
  <2> HIDE DEF Symbol
  <2> QED BY <1>1, <2>1, <2>2, <2>3, <2>4, ReadAdvances
<1>6. CASE brace # 0 /\ Sym(next) = ","
  <2>1. /\ out' = IF separated THEN out \o s ELSE out
        /\ status' = IF separated THEN Written(s) ELSE status
        /\ at' = next + 1
    BY <1>6 DEF EndBrand
  <2> HIDE DEF brace, next, separated
  <2>2. s \in Seq(Symbol) /\ Len(s) = 2
    <3>1. "," \in Symbol /\ " " \in Symbol /\ Len(<<",", " ">>) = 2
      BY DEF Symbol
    <3> HIDE DEF Symbol
    <3> QED BY <3>1, Singles
  <2> HIDE DEF s
  <2>3. at' \in 1 .. Last /\ at < at' /\ at <= at' /\ 2 <= 2 * (at' - at)
    <3>1. next + 1 \in 1 .. Last
      <4>1. "," # NUL
        BY DEF NUL
      <4> QED BY <1>3, <1>4, <1>6, <4>1, InText
    <3>2. \A a, b \in Nat : a < b => a < b + 1 /\ a <= b + 1 /\ 2 <= 2 * ((b + 1) - a)
      OBVIOUS
    <3>3. at \in Nat /\ next \in Nat /\ at < next
      BY <1>4, <1>6
    <3> QED BY <2>1, <3>1, <3>2, <3>3
  <2>4. CASE separated
    <3>1. Shorts(status')
      BY <2>1, <2>2, <2>4, WrittenShorts
    <3>2. Len(s) <= 2 * (at' - at)
      BY <2>2, <2>3
    <3> HIDE DEF Symbol
    <3> QED BY <2>1, <2>2, <2>3, <2>4, <3>1, <3>2, Moving
  <2>5. CASE ~ separated
    <3>1. out' = out /\ status' = status
      BY <2>1, <2>5
    <3> QED BY <2>3, <3>1, Silent
  <2> QED BY <2>4, <2>5
<1> QED BY <1>2, <1>5, <1>6

LEMMA ReadPlatformAdvances ==
    ASSUME ParseInv, ReadPlatform
    PROVE  Advances
<1> DEFINE brand == Member(Past(at, "{"), "brand")
           s == StringAt(brand)
           st == StatusOf(s, <<>>)
           next == SkipSpace(s.end)
           ends == s.type = "null" \/ Sym(next) = "}"
<1>1. pc \in Reading
  BY DEF ReadPlatform, Reading
<1>2. CASE brand = 0
  <2>1. Invalid /\ pc \in Reading \cup {"key"}
    BY <1>1, <1>2 DEF ReadPlatform
  <2> QED BY <2>1, InvalidAdvances
<1>3. CASE brand # 0
  <2>1. /\ out' = out \o s.text
        /\ IF ends THEN Read(st, s.type # "null", next)
           ELSE status' = st /\ at' = next
    BY <1>3 DEF ReadPlatform
  <2>2. IsText /\ at \in 1 .. Last
    BY <1>1, ValueFacts
  <2>3. "{" # NUL /\ "brand" # NUL
    BY DEF NUL
  <2>4. brand \in 1 .. Last /\ brand > at
    BY <1>3, <2>2, <2>3, MemberPast
  <2> HIDE DEF brand
  <2>5. s \in StringSet /\ s.end >= brand /\ Len(s.text) <= s.end - brand
    BY <2>2, <2>4, StringEnds
  <2> HIDE DEF Symbol, s
  <2>6. s.text \in Seq(Symbol) /\ s.end \in 1 .. Last
    BY <2>5 DEF StringSet
  <2>7. s.text \o <<>> = s.text /\ <<>> \in Seq(Symbol)
    BY <2>6, ConcatEmptySeq
  <2>8. Shorts(st)
    BY <2>1, <2>6, <2>7, StringShorts
  <2>9. next \in 1 .. Last /\ next \in s.end .. Last
    BY <2>2, <2>6, SpaceEnds, SpaceInText
  <2> HIDE DEF st, next
  <2>10. at < next /\ at <= next /\ Len(s.text) <= 2 * (next - at)
    <3>1. /\ at \in Nat /\ brand \in Nat /\ s.end \in Nat /\ next \in Nat
          /\ Len(s.text) \in Nat /\ s.end <= next
      BY <2>2, <2>4, <2>6, <2>9, TextEnds
    <3>2. \A a, b, e, n, m \in Nat : b > a /\ e >= b /\ e <= n /\ m <= e - b =>
            m <= 2 * (n - a) /\ a < n /\ a <= n
      OBVIOUS
    <3> QED BY <2>4, <2>5, <3>1, <3>2
  <2>11. CASE ends
    <3>1. Read(st, s.type # "null", next)
      BY <2>1, <2>11
    <3> QED BY <1>1, <2>1, <2>6, <2>8, <2>9, <2>10, <3>1, ReadAdvances
  <2>12. CASE ~ ends
    <3>1. status' = st /\ at' = next
      BY <2>1, <2>12
    <3> HIDE DEF ends
    <3> QED BY <2>1, <2>6, <2>8, <2>9, <2>10, <3>1, Moving
  <2> QED BY <2>11, <2>12
<1> QED BY <1>2, <1>3

LEMMA ReadPlatformVersionAdvances ==
    ASSUME ParseInv, ReadPlatformVersion
    PROVE  Advances
<1> DEFINE version == IF Sym(at) = "," THEN Member(at + 1, "version") ELSE 0
           list == Past(version, "[")
           v == VersionAt(list)
           s == <<Quote>> \o v.text
           st == IF v.type = "invalid" THEN "INVALID_INPUT" ELSE Written(s)
<1>1. pc \in Reading
  BY DEF ReadPlatformVersion, Reading
<1>2. CASE list = 0 \/ Sym(list) = NUL
  <2>1. Invalid /\ pc \in Reading \cup {"key"}
    BY <1>1, <1>2 DEF ReadPlatformVersion
  <2> QED BY <2>1, InvalidAdvances
<1>3. CASE ~ (list = 0 \/ Sym(list) = NUL)
  <2>1. out' = out \o s /\ Read(st, TRUE, v.end)
    BY <1>3 DEF ReadPlatformVersion
  <2>2. IsText /\ at \in 1 .. Last
    BY <1>1, ValueFacts
  <2>3. "," # NUL /\ "version" # NUL /\ "[" # NUL
    BY DEF NUL
  <2>4. version \in 0 .. Last /\ (version # 0 => version > at)
    <3>1. CASE Sym(at) = ","
      <4>1. at + 1 \in 1 .. Last /\ at + 1 \in 0 .. Last
        BY <2>2, <2>3, <3>1, InText
      <4>2. Member(at + 1, "version") = 0 \/ Member(at + 1, "version") \in (at + 1) + 1 .. Last
        BY <2>2, <2>3, <4>1, MemberOn
      <4>3. version = Member(at + 1, "version")
        BY <3>1
      <4> HIDE DEF version
      <4> QED BY <2>2, <4>2, <4>3, TextEnds
    <3>2. CASE Sym(at) # ","
      <4>1. version = 0
        BY <3>2
      <4> HIDE DEF version
      <4> QED BY <2>2, <4>1, TextEnds
    <3> QED BY <3>1, <3>2
  <2> HIDE DEF version
  <2>5. list \in version + 1 .. Last /\ version # 0
    <3>1. list \in version + 1 .. Last
      BY <1>3, <2>2, <2>3, <2>4, PastEnds
    <3>2. \A t : Past(0, t) = 0
      BY DEF Past
    <3> QED BY <1>3, <3>1, <3>2
  <2> HIDE DEF list
  <2>6. list \in 1 .. Last /\ list > at + 1
    BY <2>2, <2>4, <2>5, TextEnds
  <2>7. v \in VersionSet /\ v.end \in list .. Last /\ Len(v.text) <= v.end - list
    BY <2>2, <2>6, VersionEnds
  <2> HIDE DEF v
  <2>8. v.text \in Seq(Symbol) /\ <<Quote>> \in Seq(Symbol) /\ Len(<<Quote>>) = 1
    <3>1. Quote \in Symbol /\ Len(<<Quote>>) = 1
      BY DEF Symbol
    <3> HIDE DEF Symbol
    <3> QED BY <2>7, <3>1, Singles DEF VersionSet
  <2> HIDE DEF Symbol
  <2>9. s \in Seq(Symbol) /\ Len(s) = 1 + Len(v.text)
    BY <2>8, ConcatProperties
  <2> HIDE DEF s
  <2>10. Shorts(st)
    <3>1. Shorts(Written(s)) /\ Shorts("INVALID_INPUT")
      BY <2>1, <2>9, WrittenShorts DEF Shorts
    <3> QED BY <3>1
  <2> HIDE DEF st
  <2>11. v.end \in 1 .. Last /\ at <= v.end /\ Len(s) <= 2 * (v.end - at)
    <3>1. /\ at \in Nat /\ list \in Nat /\ v.end \in Nat /\ Len(v.text) \in Nat
          /\ v.end \in 1 .. Last /\ list <= v.end
      BY <2>2, <2>6, <2>7, <2>8, TextEnds
    <3>2. \A a, b, e, m \in Nat : b > a + 1 /\ b <= e /\ m <= e - b =>
            1 + m <= 2 * (e - a) /\ a <= e
      OBVIOUS
    <3> QED BY <2>6, <2>7, <2>9, <3>1, <3>2
  <2> QED BY <1>1, <2>1, <2>9, <2>10, <2>11, ReadAdvances
<1> QED BY <1>2, <1>3

\* Every step that reads a key or a value.
Reads ==
    \/ EndOfText \/ BadKey \/ SkipKey \/ ReadKey \/ ReadPureString \/ ReadBool
    \/ ReadBrands \/ NoBrands \/ ReadBrand \/ ReadVersion \/ EndBrand
    \/ ReadPlatform \/ ReadPlatformVersion

LEMMA ReadingAdvances ==
    ASSUME ParseInv, Reads
    PROVE  /\ Advances /\ pc \in Reading \cup {"key"}
           /\ pc' \notin {"decode", "keys", "returned"}
<1>1. Advances
  <2>1. CASE EndOfText
    <3>1. pc = "key" /\ pc' = "complete" /\ out' = out /\ at' = at /\ status' = status
      BY <2>1 DEF EndOfText
    <3>2. at \in 1 .. Last /\ at \in Nat
      BY TextEnds DEF ParseInv, TypeInv
    <3>3. Steps' < Steps /\ at <= at'
      BY <3>1, <3>2, StepsAre, StepsWillBe
    <3> QED BY <3>1, <3>2, <3>3, Silent
  <2>2. CASE BadKey
    BY <2>2, InvalidAdvances DEF BadKey
  <2> QED BY <2>1, <2>2, SkipKeyAdvances, ReadKeyAdvances, ReadPureStringAdvances,
             ReadBoolAdvances, ReadBrandsAdvances, NoBrandsAdvances, ReadBrandAdvances,
             ReadVersionAdvances, EndBrandAdvances, ReadPlatformAdvances,
             ReadPlatformVersionAdvances DEF Reads
<1>2. pc \in Reading \cup {"key"}
  BY DEF Reads, EndOfText, BadKey, SkipKey, ReadKey, ReadPureString, ReadBool, ReadBrands,
         NoBrands, ReadBrand, ReadVersion, EndBrand, ReadPlatform, ReadPlatformVersion,
         Reading, Brands
<1>3. pc' \notin {"decode", "keys", "returned"}
  BY <1>2 DEF Reads, EndOfText, BadKey, SkipKey, ReadKey, ReadPureString, ReadBool, ReadBrands,
         NoBrands, ReadBrand, ReadVersion, EndBrand, ReadPlatform, ReadPlatformVersion,
         Reading, Brands, Invalid, Read
<1> QED BY <1>1, <1>2, <1>3

\* Of the other steps of a call, only the last two return.
LEMMA DecodeAdvances ==
    ASSUME ParseInv, Decode
    PROVE  /\ at' = at /\ pc = "decode" /\ pc' \in {"keys", "returned"}
           /\ kind = "base64" /\ Len(out') = Decoded /\ Shorts(status')
           /\ UNCHANGED call
<1> DEFINE n == DecodedLength(Len(text))
           s == [i \in 1 .. n |-> Sym(i)]
<1>1. /\ pc = "decode" /\ kind = "base64" /\ out' = s /\ status' = Written(s)
      /\ pc' \in {"keys", "returned"} /\ at' = at /\ UNCHANGED call
  BY DEF Decode
<1>2. IsText /\ out = <<>>
  BY <1>1 DEF ParseInv, TypeInv, NamesInv
<1>3. n \in Nat /\ Decoded = n
  BY <1>1, <1>2, PositionsAre DEF Decoded
<1> HIDE DEF n
<1>4. s \in Seq(Symbol) /\ Len(s) = n
  <2>1. \A i \in 1 .. n : Sym(i) \in Symbol
    BY <1>2, SymbolsAre
  <2> HIDE DEF Symbol
  <2> QED BY <1>3, <2>1
<1> HIDE DEF s, Symbol
<1>5. out' = out \o s
  BY <1>1, <1>2, <1>4, ConcatEmptySeq
<1>6. Shorts(status')
  BY <1>1, <1>4, <1>5, WrittenShorts
<1> QED BY <1>1, <1>3, <1>4, <1>6

LEMMA WriteKeysAdvances ==
    ASSUME ParseInv, WriteKeys
    PROVE  /\ pc = "keys" /\ pc' \in {"key", "complete"} /\ Len(out') = Names
           /\ Shorts(status') /\ UNCHANGED call
<1>1. /\ out' = out \o Headers /\ pc = "keys" /\ pc' \in {"key", "complete"}
      /\ status' = Written(Headers) \/ status' = "INVALID_INPUT"
      /\ UNCHANGED call
  BY DEF WriteKeys
<1>2. IsText /\ out \in Seq(Symbol) /\ Len(out) = Decoded
  BY <1>1 DEF ParseInv, TypeInv, NamesInv
<1>3. Headers \in Seq(Symbol) /\ Len(Headers) = 8
  <2>1. Headers \in Seq(HeaderSet) /\ Len(Headers) = 8
    BY <1>2, PositionsAre
  <2>2. \A h \in HeaderSet : h \in Symbol
    BY DEF Symbol
  <2> HIDE DEF Symbol, HeaderSet
  <2> QED BY <2>1, <2>2
<1> HIDE DEF Symbol, HeaderSet
<1>4. Shorts(status')
  <2>1. Shorts(Written(Headers)) /\ Shorts("INVALID_INPUT")
    BY <1>1, <1>3, WrittenShorts DEF Shorts
  <2> QED BY <1>1, <2>1
<1>5. Len(out') = Names
  <2>1. Len(out') = Len(out) + Len(Headers)
    BY <1>1, <1>2, <1>3, ConcatProperties
  <2> QED BY <1>2, <1>3, <2>1 DEF Names
<1> QED BY <1>1, <1>4, <1>5

\* What a call has written is bounded by what it has read, the buffer is too
\* small when the status says so, and it was when such a call has returned.
RetryInv ==
    /\ kind = input.kind /\ text = input.text
    /\ pc \in {"decode", "keys"} => at = 1
    /\ pc \in Reading \cup {"key", "callback", "complete"} =>
         Len(out) <= Names + 2 * (at - 1)
    /\ status = "INSUFFICIENT_MEMORY" => Len(out) > Room
    /\ pc = "returned" /\ status = "INSUFFICIENT_MEMORY" /\ kind # "base64" =>
         Len(out) > length

\* What all proofs about a step use.
LEMMA StepFacts ==
    ASSUME ParseInv
    PROVE  /\ IsText /\ at \in 1 .. Last /\ at \in Nat /\ at >= 1 /\ at <= Last
           /\ Last \in Nat /\ Last = Len(text) + 1 /\ Len(text) \in Nat
           /\ length \in Nat /\ out \in Seq(Symbol) /\ Len(out) \in Nat
           /\ Room \in Nat /\ length <= Room + 1
           /\ Names \in Nat /\ Decoded \in Nat /\ Names = Decoded + 8
           /\ Enough = Names + 2 * Len(text) + 1 /\ Enough \in Nat
           /\ pc = "decode" => out = <<>>
<1>1. IsText /\ at \in 1 .. Last /\ length \in Nat /\ out \in Seq(Symbol)
      /\ (pc = "decode" => out = <<>>)
  BY DEF ParseInv, TypeInv, NamesInv
<1>2. Last \in Nat /\ Last = Len(text) + 1 /\ Len(text) \in Nat
  BY <1>1, TextEnds
<1>3. Len(out) \in Nat
  <2> HIDE DEF Symbol
  <2> QED BY <1>1
<1>4. Decoded \in Nat /\ Names = Decoded + 8 /\ KeyPosition(Headers[8]) = Names
  BY <1>1, PositionsAre
<1>5. Room \in Nat /\ length <= Room + 1
  BY <1>1 DEF Room
<1>6. Enough = Names + 2 * Len(text) + 1
  BY <1>4 DEF Enough
<1> HIDE DEF Symbol
<1> QED BY <1>1, <1>2, <1>3, <1>4, <1>5, <1>6

\* A status that tells of a shortage is right as long as the room is the same.
LEMMA ShortsStay ==
    ASSUME ParseInv, RetryInv, Room' = Room, Len(out) <= Len(out'), Len(out') \in Nat,
           Shorts(status'), status' = "INSUFFICIENT_MEMORY"
    PROVE  Len(out') > Room
<1>1. CASE status = "INSUFFICIENT_MEMORY"
  <2>1. Len(out) > Room /\ Len(out) \in Nat /\ Room \in Nat
    BY <1>1, StepFacts DEF RetryInv
  <2> QED BY <2>1
<1>2. CASE status # "INSUFFICIENT_MEMORY"
  BY <1>2 DEF Shorts
<1> QED BY <1>1, <1>2

LEMMA ReadingKeepsRetry ==
    ASSUME ParseInv, RetryInv, Reads, UNCHANGED input
    PROVE  RetryInv'
<1>1. /\ Advances /\ pc \in Reading \cup {"key"}
      /\ pc' \notin {"decode", "keys", "returned"}
  BY ReadingAdvances
<1>2. ParseInv' /\ Moves
  <2>1. Parse
    BY DEF Reads, Parse
  <2> QED BY <2>1, ParseKeeps
<1>3. /\ UNCHANGED call /\ Room' = Room /\ Names' = Names /\ Last' = Last
      /\ Len(out) <= Len(out')
  BY <1>2, CallKept DEF Moves, Grows
<1>4. kind' = input'.kind /\ text' = input'.text
  BY <1>3 DEF RetryInv, call
<1>5. Len(out') \in Nat /\ at' \in Nat
  <2>1. out' \in Seq(Symbol) /\ IsText' /\ at' \in 1 .. Last'
    BY <1>2 DEF ParseInv, TypeInv
  <2>2. at' \in 1 .. Last /\ Last \in Nat
    BY <1>3, <2>1, StepFacts
  <2> HIDE DEF Symbol
  <2>3. Len(out') \in Nat
    BY <2>1
  <2> QED BY <2>2, <2>3
<1>6. Len(out') <= Names' + 2 * (at' - 1)
  <2>1. Len(out) <= Names + 2 * (at - 1)
    BY <1>1 DEF RetryInv
  <2>2. Len(out') <= Len(out) + 2 * (at' - at)
    BY <1>1 DEF Advances
  <2>3. Len(out) \in Nat /\ at \in Nat /\ Names \in Nat
    BY StepFacts
  <2>4. \A a, b, m, n, k \in Nat : m <= k + 2 * (a - 1) /\ n <= m + 2 * (b - a) =>
          n <= k + 2 * (b - 1)
    OBVIOUS
  <2> QED BY <1>3, <1>5, <2>1, <2>2, <2>3, <2>4
<1>7. status' = "INSUFFICIENT_MEMORY" => Len(out') > Room'
  <2>1. Shorts(status')
    BY <1>1 DEF Advances
  <2> QED BY <1>3, <1>5, <2>1, ShortsStay
<1> QED BY <1>1, <1>4, <1>6, <1>7 DEF RetryInv

LEMMA ParsingKeepsRetry ==
    ASSUME ParseInv, RetryInv, Parsing
    PROVE  RetryInv'
<1>0. Parse /\ UNCHANGED input /\ ParseInv' /\ Moves
  BY ParseKeeps DEF Parsing
<1>a. /\ UNCHANGED call /\ Room' = Room /\ Names' = Names /\ Last' = Last
      /\ Len(out) <= Len(out') /\ length' = length /\ kind' = kind
  BY <1>0, CallKept DEF Moves, Grows
<1>b. kind' = input'.kind /\ text' = input'.text
  BY <1>0, <1>a DEF RetryInv, call
<1>c. Len(out') \in Nat /\ at' \in Nat /\ at' >= 1
  <2>1. out' \in Seq(Symbol) /\ at' \in 1 .. Last'
    BY <1>0 DEF ParseInv, TypeInv
  <2>2. at' \in 1 .. Last /\ Last \in Nat
    BY <1>a, <2>1, StepFacts
  <2> HIDE DEF Symbol
  <2>3. Len(out') \in Nat
    BY <2>1
  <2> QED BY <2>2, <2>3
<1>1. CASE Reads
  BY <1>0, <1>1, ReadingKeepsRetry
<1>2. CASE Decode
  <2>1. /\ at' = at /\ pc = "decode" /\ pc' \in {"keys", "returned"}
        /\ kind = "base64" /\ Shorts(status')
    BY <1>2, DecodeAdvances
  <2>2. status' = "INSUFFICIENT_MEMORY" => Len(out') > Room'
    BY <1>a, <1>c, <2>1, ShortsStay
  <2>3. at' = 1
    BY <2>1 DEF RetryInv
  <2> QED BY <1>a, <1>b, <2>1, <2>2, <2>3 DEF RetryInv, Reading, Brands
<1>3. CASE DecodeBroken
  <2>1. pc' = "returned" /\ status' = "INVALID_INPUT"
    BY <1>3 DEF DecodeBroken
  <2> QED BY <1>b, <2>1 DEF RetryInv, Reading, Brands
<1>4. CASE WriteKeys
  <2>1. /\ pc' \in {"key", "complete"} /\ Len(out') = Names /\ Shorts(status')
    BY <1>4, WriteKeysAdvances
  <2>2. status' = "INSUFFICIENT_MEMORY" => Len(out') > Room'
    BY <1>a, <1>c, <2>1, ShortsStay
  <2>3. Len(out') <= Names' + 2 * (at' - 1)
    <3>1. \A k, a \in Nat : a >= 1 => k <= k + 2 * (a - 1)
      OBVIOUS
    <3> QED BY <1>a, <1>c, <2>1, <3>1, StepFacts
  <2> QED BY <1>b, <2>1, <2>2, <2>3 DEF RetryInv
<1>5. CASE Complete
  <2>1. pc = "complete" /\ pc' = "returned" /\ status' = status /\ out' = Append(out, NUL)
    BY <1>5 DEF Complete
  <2>2. Len(out') = Len(out) + 1
    <3>1. out \in Seq(Symbol) /\ NUL \in Symbol
      BY StepFacts DEF Symbol
    <3> HIDE DEF Symbol
    <3> QED BY <2>1, <3>1, AppendProperties
  <2>3. ASSUME status = "INSUFFICIENT_MEMORY"
        PROVE  Len(out') > Room' /\ Len(out') > length'
    <3>1. Len(out) > Room
      BY <2>3 DEF RetryInv
    <3>2. Len(out) \in Nat /\ Room \in Nat /\ length \in Nat /\ length <= Room + 1
      BY StepFacts
    <3> QED BY <1>a, <2>2, <3>1, <3>2
  <2> QED BY <1>b, <2>1, <2>3 DEF RetryInv, Reading, Brands
<1> QED BY <1>0, <1>1, <1>2, <1>3, <1>4, <1>5 DEF Parse, Reads

\* The callback is answered.
LEMMA ResumeAdvances ==
    ASSUME ParseInv, NEW more, Resume(more)
    PROVE  /\ at' \in 1 .. Last /\ at <= at' /\ Steps' < Steps
           /\ UNCHANGED <<call, out, status>>
           /\ pc = "callback" /\ pc' \in {"key", "callback", "complete"}
<1>1. /\ pc = "callback" /\ pc' \in {"key", "callback", "complete"}
      /\ UNCHANGED <<call, out, status>>
      /\ pc' = "callback" => key = "PLATFORM" /\ key' = "PLATFORMVERSION"
      /\ at' = at \/ at' = Skip(at, Quote)
  BY DEF Resume, IsPlatform
<1>2. IsText /\ at \in 1 .. Last /\ at \in Nat /\ Last \in Nat
  BY StepFacts
<1>3. Skip(at, Quote) \in at .. Last
  <2>1. Quote # NUL
    BY DEF Quote, NUL
  <2> QED BY <1>2, <2>1, SkipInText
<1>4. at' \in 1 .. Last /\ at <= at'
  BY <1>1, <1>2, <1>3
<1>5. Steps' < Steps
  <2>1. CASE pc' = "callback"
    <3>1. Steps = 4 /\ Steps' = 3
      BY <1>1, <2>1, StepsAre, StepsWillBe, PlatformHeaders
    <3> QED BY <3>1
  <2>2. CASE pc' # "callback"
    BY <1>1, <2>2, StepsAre, StepsWillBe
  <2> QED BY <2>1, <2>2
<1> QED BY <1>1, <1>4, <1>5

LEMMA PushAdvances ==
    ASSUME ParseInv, PushToHeaders
    PROVE  /\ at' \in 1 .. Last /\ at <= at' /\ Steps' < Steps
           /\ UNCHANGED <<call, out, status, input>>
           /\ pc = "callback" /\ pc' \in {"key", "callback", "complete"}
<1>1. UNCHANGED input /\ Resume(Len(headers') < input.capacity)
  BY DEF PushToHeaders
<1>2. PICK more : Resume(more)
  BY <1>1
<1> QED BY <1>1, <1>2, ResumeAdvances

LEMMA PushKeepsRetry ==
    ASSUME ParseInv, RetryInv, PushToHeaders
    PROVE  RetryInv'
<1>1. /\ at' \in 1 .. Last /\ at <= at'
      /\ UNCHANGED <<call, out, status, input>>
      /\ pc = "callback" /\ pc' \in {"key", "callback", "complete"}
  BY PushAdvances
<1>2. Names' = Names /\ Room' = Room
  BY <1>1, CallKept
<1>3. Len(out') <= Names' + 2 * (at' - 1)
  <2>1. Len(out) <= Names + 2 * (at - 1)
    BY <1>1 DEF RetryInv
  <2>2. \A a, b, m, k \in Nat : m <= k + 2 * (a - 1) /\ a <= b => m <= k + 2 * (b - 1)
    OBVIOUS
  <2>3. at \in Nat /\ at' \in Nat /\ Len(out) \in Nat /\ Names \in Nat
    BY <1>1, StepFacts
  <2> QED BY <1>1, <1>2, <2>1, <2>2, <2>3
<1>4. kind' = input'.kind /\ text' = input'.text
  BY <1>1 DEF RetryInv, call
<1> QED BY <1>1, <1>2, <1>3, <1>4 DEF RetryInv

LEMMA RetryInvInductive ==
    ArraySpec => []RetryInv
<1>1. ArrayInit => RetryInv
  <2> SUFFICES ASSUME ArrayInit PROVE RetryInv
    OBVIOUS
  <2>1. /\ kind = input.kind /\ text = input.text /\ at = 1 /\ status = "NOT_SET"
        /\ pc \in {"decode", "keys"}
    BY DEF ArrayInit
  <2> QED BY <2>1 DEF RetryInv, Reading, Brands
<1>2. ArrayIInv /\ RetryInv /\ [ArrayNext]_arrayVars => RetryInv'
  <2> SUFFICES ASSUME ArrayIInv, RetryInv, [ArrayNext]_arrayVars PROVE RetryInv'
    OBVIOUS
  <2>0. ParseInv
    BY DEF ArrayIInv
  <2>1. CASE Parsing
    BY <2>0, <2>1, ParsingKeepsRetry
  <2>2. CASE PushToHeaders
    BY <2>0, <2>2, PushKeepsRetry
  <2>3. CASE CallAgain
    <3>1. /\ kind' = kind /\ text' = text /\ input' = input /\ at' = 1
          /\ status' = "NOT_SET" /\ pc' \in {"decode", "keys"}
      BY <2>3 DEF CallAgain, Start
    <3> QED BY <3>1 DEF RetryInv, Reading, Brands
  <2>4. CASE UNCHANGED arrayVars
    <3>1. UNCHANGED call /\ UNCHANGED <<input, at, out, status, pc>>
      BY <2>4 DEF arrayVars, parse, call
    <3>2. Names' = Names /\ Room' = Room /\ length' = length
      BY <3>1, CallKept
    <3> QED BY <3>1, <3>2 DEF RetryInv, call
  <2> QED BY <2>1, <2>2, <2>3, <2>4 DEF ArrayNext
<1> QED BY <1>1, <1>2, ArrayInvInductive, PTL DEF ArraySpec
-----------------------------------------------------------------------------
(* The implementation of Retries.                                            *)

\* In a call the work that is left is never none.
LEMMA LeftIs ==
    ASSUME ParseInv, pc # "returned"
    PROVE  Left = 8 * (Last - at) + Steps /\ Left \in Nat \ {0}
<1>1. /\ at \in Nat /\ Last \in Nat /\ at <= Last /\ Steps \in 0 .. 7 /\ Steps # 0
      /\ Left = 8 * (Last - at) + Steps
  BY StepFacts, StepsAre DEF Left
<1>2. \A a, b \in Nat, n \in 0 .. 7 : a <= b /\ n # 0 => 8 * (b - a) + n \in Nat \ {0}
  OBVIOUS
<1> QED BY <1>1, <1>2

\* Less is left after a step that moves the cursor on, or comes closer to the end
\* of the call.
LEMMA LeftGetsLess ==
    ASSUME ParseInv, ParseInv', UNCHANGED call, pc # "returned", pc' # "returned",
           at <= at', at < at' \/ Steps' < Steps
    PROVE  Left' \in 1 .. Left - 1
<1>1. Last' = Last
  BY CallKept
<1>2. Left = 8 * (Last - at) + Steps
  BY LeftIs
<1>3. Left' = 8 * (Last - at') + Steps'
  BY <1>1 DEF Left
<1>4. /\ at \in Nat /\ at' \in Nat /\ Last \in Nat /\ at' <= Last
      /\ Steps \in 0 .. 7 /\ Steps' \in 0 .. 7 /\ Steps' # 0
  <2>1. at' \in 1 .. Last /\ Last \in Nat
    BY <1>1, StepFacts DEF ParseInv, TypeInv
  <2> QED BY <2>1, StepFacts, StepsAre, StepsWillBe
<1>5. \A a, b, last \in Nat, m, n \in 0 .. 7 :
        b <= last /\ a <= b /\ (a < b \/ n < m) /\ n # 0 =>
          8 * (last - b) + n \in 1 .. (8 * (last - a) + m) - 1
  OBVIOUS
<1> QED BY <1>2, <1>3, <1>4, <1>5

\* A step that comes closer to the end of the call, without ending it, is one of
\* Work.
LEMMA Works ==
    ASSUME ParseInv, ParseInv', UNCHANGED call, pc # "returned", pc' # "returned",
           at <= at', at < at' \/ Steps' < Steps
    PROVE  Retry!Work
<1>1. length' = length /\ Enough' = Enough
  BY CallKept DEF Enough, call
<1>2. Left' \in 1 .. Left - 1
  BY LeftGetsLess
<1>3. CallState = "calling" /\ CallState' = "calling"
  BY DEF CallState
<1> QED BY <1>1, <1>2, <1>3 DEF Retry!Work

\* A call that returns has told of a shortage only if there was one.
LEMMA Returns ==
    ASSUME UNCHANGED call, pc # "returned", pc' = "returned",
           status' = "INSUFFICIENT_MEMORY" => length < Enough
    PROVE  Retry!Return
<1>1. length' = length /\ Enough' = Enough
  BY CallKept DEF Enough, call
<1>2. Left' = 0 /\ CallState = "calling"
  BY DEF Left, CallState
<1>3. CallState' = "answered" \/ (length < Enough /\ CallState' = "short")
  BY DEF CallState, Answered, Exception
<1> QED BY <1>1, <1>2, <1>3 DEF Retry!Return

\* What is written of the decoding, or has been before the call completes, is
\* less than enough.
LEMMA DecodingReturns ==
    ASSUME ParseInv, RetryInv, Decode, pc' = "returned"
    PROVE  Retry!Return
<1>1. pc = "decode" /\ Len(out') = Decoded /\ Shorts(status') /\ UNCHANGED call
  BY DecodeAdvances
<1>2. ASSUME status' = "INSUFFICIENT_MEMORY"
      PROVE  length < Enough
  <2>1. status # "INSUFFICIENT_MEMORY"
    <3>1. Len(out) = 0 /\ ~ (Len(out) > Room)
      BY <1>1, StepFacts
    <3> QED BY <3>1 DEF RetryInv
  <2>2. Decoded > Room
    BY <1>1, <1>2, <2>1 DEF Shorts
  <2>3. \A d, r, l, t \in Nat : d > r /\ l <= r + 1 => l < (d + 8) + 2 * t + 1
    OBVIOUS
  <2>4. /\ Decoded \in Nat /\ Room \in Nat /\ length \in Nat /\ Len(text) \in Nat
        /\ length <= Room + 1
    BY StepFacts
  <2>5. length < (Decoded + 8) + 2 * Len(text) + 1
    BY <2>2, <2>3, <2>4
  <2>6. Enough = (Decoded + 8) + 2 * Len(text) + 1
    BY StepFacts
  <2> QED BY <2>5, <2>6
<1> QED BY <1>1, <1>2, Returns

LEMMA CompleteReturns ==
    ASSUME ParseInv, RetryInv, Complete
    PROVE  Retry!Return
<1>1. pc = "complete" /\ pc' = "returned" /\ status' = status /\ UNCHANGED call
  BY DEF Complete
<1>2. ASSUME status' = "INSUFFICIENT_MEMORY"
      PROVE  length < Enough
  <2>1. Len(out) > Room /\ Len(out) <= Names + 2 * (at - 1)
    BY <1>1, <1>2 DEF RetryInv
  <2>2. \A o, r, l, n, a, t \in Nat :
          o > r /\ o <= n + 2 * (a - 1) /\ a <= t + 1 /\ l <= r + 1 => l < n + 2 * t + 1
    OBVIOUS
  <2>3. /\ Len(out) \in Nat /\ Room \in Nat /\ length \in Nat /\ Names \in Nat
        /\ at \in Nat /\ Len(text) \in Nat
        /\ at <= Len(text) + 1 /\ length <= Room + 1
    BY StepFacts
  <2>4. length < Names + 2 * Len(text) + 1
    BY <2>1, <2>2, <2>3
  <2> QED BY <2>4, StepFacts
<1> QED BY <1>1, <1>2, Returns

LEMMA ParsingImplements ==
    ASSUME ParseInv, RetryInv, Parsing
    PROVE  Retry!Next
<1>0. ParseInv' /\ Parse /\ UNCHANGED call
  BY ParseKeeps DEF Parsing, Moves, Grows
<1>1. CASE Reads
  <2>1. /\ at <= at' /\ (at < at' \/ Steps' < Steps) /\ pc \in Reading \cup {"key"}
        /\ pc' # "returned"
    BY <1>1, ReadingAdvances DEF Advances
  <2>2. pc # "returned"
    BY <2>1 DEF Reading, Brands
  <2> QED BY <1>0, <2>1, <2>2, Works DEF Retry!Next
<1>2. CASE Decode
  <2>1. at' = at /\ pc = "decode" /\ pc' \in {"keys", "returned"}
    BY <1>2, DecodeAdvances
  <2>2. CASE pc' = "keys"
    <3>1. Steps = 7 /\ Steps' = 6 /\ at \in Nat
      BY <2>1, <2>2, StepsAre, StepsWillBe, StepFacts
    <3>2. at <= at' /\ Steps' < Steps
      BY <2>1, <3>1
    <3> QED BY <1>0, <2>1, <2>2, <3>2, Works DEF Retry!Next
  <2>3. CASE pc' = "returned"
    BY <1>2, <2>3, DecodingReturns DEF Retry!Next
  <2> QED BY <2>1, <2>2, <2>3
<1>3. CASE DecodeBroken
  <2>1. pc = "decode" /\ pc' = "returned" /\ status' = "INVALID_INPUT"
    BY <1>3 DEF DecodeBroken
  <2> QED BY <1>0, <2>1, Returns DEF Retry!Next
<1>4. CASE WriteKeys
  <2>1. pc = "keys" /\ pc' \in {"key", "complete"} /\ at = 1
    BY <1>4, WriteKeysAdvances DEF RetryInv
  <2>2. at' \in 1 .. Last
    BY <1>0, CallKept DEF ParseInv, TypeInv
  <2>3. Steps = 6 /\ Steps' \in {1, 2}
    BY <2>1, StepsAre, StepsWillBe
  <2>4. at <= at' /\ Steps' < Steps
    BY <2>1, <2>2, <2>3, StepFacts
  <2> QED BY <1>0, <2>1, <2>4, Works DEF Retry!Next
<1>5. CASE Complete
  BY <1>5, CompleteReturns DEF Retry!Next
<1> QED BY <1>0, <1>1, <1>2, <1>3, <1>4, <1>5 DEF Parse, Reads

LEMMA PushImplements ==
    ASSUME ParseInv, ParseInv', PushToHeaders
    PROVE  Retry!Next
<1>1. /\ at <= at' /\ Steps' < Steps /\ UNCHANGED call
      /\ pc # "returned" /\ pc' # "returned"
  BY PushAdvances
<1> QED BY <1>1, Works DEF Retry!Next

LEMMA CallAgainImplements ==
    ASSUME ParseInv, ParseInv', RetryInv, CallAgain, input.byTwo \in BOOLEAN,
           kind = "base64" => input.byTwo
    PROVE  Retry!Next
<1>1. /\ pc = "returned" /\ status = "INSUFFICIENT_MEMORY"
      /\ kind' = kind /\ text' = text /\ length' = Larger
      /\ pc' \in {"decode", "keys"}
  BY DEF CallAgain, Exception, Start
<1>2. length \in Nat /\ Len(out) \in Nat
  BY StepFacts
<1>3. Larger \in Nat /\ Larger > length
  <2>1. CASE ~ input.byTwo
    <3>1. Len(out) > length
      BY <1>1, <2>1 DEF RetryInv
    <3> QED BY <1>2, <2>1, <3>1 DEF Larger
  <2>2. CASE input.byTwo
    <3>1. Len(out) > Room /\ Room \in Nat /\ length <= Room + 1
      BY <1>1, StepFacts DEF RetryInv
    <3>2. Larger = IF 2 * length > Len(out) + 1 THEN 2 * length ELSE Len(out) + 1
      BY <2>2 DEF Larger
    <3>3. \A l, o, r \in Nat : o > r /\ l <= r + 1 =>
            /\ o + 1 > l /\ o + 1 \in Nat
            /\ 2 * l > o + 1 => 2 * l > l /\ 2 * l \in Nat
      OBVIOUS
    <3> QED BY <1>2, <3>1, <3>2, <3>3
  <2> QED BY <2>1, <2>2
<1>4. Enough' = Enough
  BY <1>1 DEF Enough, KeyPosition, KeyPositionInText, Last
<1>5. CallState = "short" /\ CallState' = "calling"
  BY <1>1 DEF CallAgain, CallState, Answered
<1>6. Left' \in Nat \ {0}
  <2>1. pc' # "returned"
    BY <1>1
  <2>2. \A a, b \in Nat, n \in 0 .. 7 : a <= b /\ n # 0 => 8 * (b - a) + n \in Nat \ {0}
    OBVIOUS
  <2>3. Last' = Last /\ Last \in Nat
    BY <1>1, StepFacts DEF Last
  <2>4. at' \in Nat /\ at' <= Last'
    <3>1. at' \in 1 .. Last'
      BY DEF ParseInv, TypeInv
    <3> QED BY <2>3, <3>1
  <2>5. Steps' \in 0 .. 7 /\ Steps' # 0
    BY <2>1, StepsWillBe
  <2>6. Left' = 8 * (Last' - at') + Steps'
    BY <2>1 DEF Left
  <2> QED BY <2>2, <2>3, <2>4, <2>5, <2>6
<1> QED BY <1>1, <1>3, <1>4, <1>5, <1>6 DEF Retry!Next, Retry!CallAgain

(* A caller with a loop like that of Transform.cpp makes finitely many calls *)
(* for every text: each step of the parser moves the cursor on or comes      *)
(* closer to the end of the call, a call that ran out of buffer is made      *)
(* again with a larger one, and no call runs out of a buffer that has the    *)
(* size Enough. Each step is one of Retries, and none leaves its state as it *)
(* was. The caller of the base64 function has to double its buffer, as the   *)
(* wrapper does; one that only allocates what was counted may ask with the   *)
(* same size again and again.                                                *)
THEOREM RetriesRefinement ==
    ASSUME \A i \in Inputs : i.kind = "base64" => i.byTwo
    PROVE  ArraySpec => Retry!Safety /\ [][Retry!Next]_arrayVars
<1>1. ArrayInit /\ ArrayIInv => Retry!Init
  <2> SUFFICES ASSUME ArrayInit, ArrayIInv PROVE Retry!Init
    OBVIOUS
  <2>1. ParseInv /\ pc # "returned"
    BY DEF ArrayIInv, ArrayInit
  <2>2. CallState = "calling" /\ Left \in Nat \ {0} /\ {length, Enough} \subseteq Nat
    BY <2>1, LeftIs, StepFacts DEF CallState
  <2> QED BY <2>2 DEF Retry!Init
<1>2. ArrayIInv /\ ArrayIInv' /\ RetryInv /\ ArrayNext => Retry!Next
  <2> SUFFICES ASSUME ArrayIInv, ArrayIInv', RetryInv, ArrayNext
               PROVE  Retry!Next
    OBVIOUS
  <2>0. ParseInv /\ ParseInv' /\ input \in Inputs
    BY DEF ArrayIInv
  <2>1. CASE Parsing
    BY <2>0, <2>1, ParsingImplements
  <2>2. CASE PushToHeaders
    BY <2>0, <2>2, PushImplements
  <2>3. CASE CallAgain
    <3>1. input.byTwo \in BOOLEAN /\ (kind = "base64" => input.byTwo)
      BY <2>0, InputsAssumption DEF RetryInv
    <3> QED BY <2>0, <2>3, <3>1, CallAgainImplements
  <2> QED BY <2>1, <2>2, <2>3 DEF ArrayNext
<1>3. UNCHANGED arrayVars => UNCHANGED Retry!vars
  <2> SUFFICES ASSUME UNCHANGED arrayVars PROVE UNCHANGED Retry!vars
    OBVIOUS
  <2>1. UNCHANGED <<call, kind, text, length, at, pc, key, status, headers, iterations>>
    BY DEF arrayVars, parse, call
  <2>2. UNCHANGED <<CallState, length, Enough>>
    BY <2>1, CallKept DEF CallState, Answered, Exception, Enough
  <2>3. UNCHANGED Left
    BY <2>1, CallKept DEF Left, Steps
  <2> QED BY <2>2, <2>3 DEF Retry!vars
<1> QED BY <1>1, <1>2, <1>3, ArrayInvInductive, RetryInvInductive, PTL DEF ArraySpec, Retry!Safety

-----------------------------------------------------------------------------
(* A call whose buffer is large enough, as a sequence of places in the text. *)

\* Where a call is: n counts what was written and count the headers.
PlaceAt(p, a, n, filled, st) ==
    [pc |-> p, at |-> a, key |-> key, named |-> named, begin |-> begin, ptr |-> ptr,
     n |-> n, count |-> filled, status |-> st]
Place(filled, st) == PlaceAt(pc, at, Len(out), filled, st)
Begun ==
    [pc |-> IF kind \in {"base64", "broken64"} THEN "decode" ELSE "keys", at |-> 1,
     key |-> Undefined, named |-> FALSE, begin |-> 0, ptr |-> 0,
     n |-> 0, count |-> 0, status |-> "NOT_SET"]

Stop(c) == [c EXCEPT !.pc = "complete"]
Delivered(c, delivered, end) ==
    IF c.status = "INVALID_INPUT" THEN Stop(c)
    ELSE IF delivered THEN [c EXCEPT !.at = end, !.pc = "callback"]
    ELSE [c EXCEPT !.at = Skip(end, Quote), !.pc = "key"]
Wrote(c, s) ==
    [c EXCEPT !.n = @ + Len(s.text),
              !.status = IF s.type = "invalid" THEN "INVALID_INPUT" ELSE @]

AfterKeys(c) ==
    LET open == SkipSpace(1)
        w == [c EXCEPT !.n = @ + 8]
    IN IF Sym(open) = "{" THEN [w EXCEPT !.at = Skip(open, Quote), !.pc = "key"] ELSE Stop(w)

AfterKey(c) ==
    LET k == KeyAt(c.at)
        colon == Past(k.end, ":")
        first == SkipSpace(colon)
    IN IF Sym(c.at) = NUL \/ Sym(k.end) # Quote THEN Stop(c)
       ELSE IF k.key = Undefined THEN [c EXCEPT !.at = SkipValue(k.end + 1)]
       ELSE IF colon = 0 \/ Sym(first) = NUL THEN Stop(c)
       ELSE [c EXCEPT !.at = first, !.key = k.key, !.begin = c.n, !.ptr = c.n, !.pc = "value"]

AfterValue(c) ==
    LET s == StringAt(c.at)
        first == Past(c.at, "[")
    IN IF c.key \in {"BRANDS", "FULLVERSIONLIST"}
       THEN IF first = 0 THEN Stop(c) ELSE [c EXCEPT !.at = first, !.pc = "brand"]
       ELSE IF c.key = "MOBILE"
       THEN IF Sym(c.at) \in DOMAIN Truths
            THEN Delivered([c EXCEPT !.n = @ + 2], TRUE, c.at + 1) ELSE Stop(c)
       ELSE Delivered(Wrote(c, s), s.type # "null", s.end)

AfterBrand(c) ==
    LET brand == Member(Past(c.at, "{"), "brand")
        s == StringAt(brand)
        w == Wrote(c, s)
        n == w.n + (IF s.type = "null" THEN 0 ELSE 1)
    IN IF Sym(SkipSpace(c.at)) = "]" THEN Delivered(c, TRUE, SkipSpace(c.at))
       ELSE IF brand = 0 THEN Stop(c)
       ELSE [w EXCEPT !.at = s.end, !.named = (s.type # "null"), !.n = n,
                      !.ptr = IF s.type = "null" THEN @ ELSE n,
                      !.pc = IF s.type = "null" THEN "endBrand" ELSE "version"]

AfterVersion(c) ==
    LET version == Member(Past(c.at, ","), "version")
        v == StringAt(version)
        n == c.n + (IF v.type = "null" THEN 1 ELSE Len(v.text))
    IN IF version = 0 THEN Stop(c)
       ELSE [Wrote(c, v) EXCEPT !.at = v.end, !.n = n, !.ptr = n, !.pc = "endBrand"]

AfterEnd(c) ==
    LET brace == Past(c.at, "}")
        next == SkipSpace(brace)
        w == [c EXCEPT !.n = @ + 2, !.ptr = c.n + 2]
    IN IF brace = 0 \/ Sym(next) \notin {"]", ","} THEN Stop(c)
       ELSE IF Sym(next) = "]" THEN Delivered(c, c.ptr # c.begin, next)
       ELSE [(IF c.named THEN w ELSE c) EXCEPT !.at = next + 1, !.pc = "brand"]

AfterCallback(c) ==
    LET filled == IF c.count < input.capacity THEN c.count + 1 ELSE c.count
    IN IF filled < input.capacity
       THEN [c EXCEPT !.count = filled, !.at = Skip(@, Quote), !.pc = "key"]
       ELSE Stop([c EXCEPT !.count = filled])

Onward(c) ==
    CASE c.pc = "decode" -> [c EXCEPT !.n = Decoded, !.pc = "keys"]
      [] c.pc = "keys" -> AfterKeys(c)
      [] c.pc = "key" -> AfterKey(c)
      [] c.pc = "value" -> AfterValue(c)
      [] c.pc = "brand" -> AfterBrand(c)
      [] c.pc = "version" -> AfterVersion(c)
      [] c.pc = "endBrand" -> AfterEnd(c)
      [] c.pc = "callback" -> AfterCallback(c)
      [] OTHER -> c

\* The call that is at c comes to d.
Leads(c, d) == \A S : c \in S /\ (\A e \in S : Onward(e) \in S) => d \in S

\* All of what such a call counts is counted by m.
Counted(m) == \A d : Leads(Begun, d) => d.n \in 0 .. m

\* What is not yet counted is ahead of where the call is.
Ahead(filled, st) ==
    \A d : Leads(Begun, d) => d.n \in 0 .. Len(out) \/ Leads(Place(filled, st), d)

\* A call finds out how much it takes ...
Exploring ==
    /\ calls = 1 \/ (calls = 2 /\ kind = "base64" /\ Decoded <= Room)
    /\ pc \notin {"complete", "returned"} =>
         \/ Counted(Len(out))
         \/ \E filled \in Nat, st \in Statuses :
              Len(headers) <= filled /\ Ahead(filled, st)
    /\ pc = "complete" /\ status = "INSUFFICIENT_MEMORY" => Counted(Len(out))
    /\ pc = "returned" /\ status = "INSUFFICIENT_MEMORY" =>
         \/ Len(out) # 0 /\ Counted(Len(out) - 1)
         \/ calls = 1 /\ kind = "base64" /\ Len(out) = Decoded

\* ... and the next one has it.
Settled ==
    /\ calls = 2 \/ (calls = 3 /\ kind = "base64")
    /\ Counted(Room)
    /\ status # "INSUFFICIENT_MEMORY"
    /\ pc \notin {"complete", "returned"} =>
         Leads(Begun, Place(Len(headers), status))

FewInv == kind # "sua" => Exploring \/ Settled

LEMMA LeadsOn ==
    ASSUME NEW c, NEW d
    PROVE  /\ Leads(c, c)
           /\ Leads(c, d) => Leads(c, Onward(d))
           /\ Leads(c, d) => d = c \/ Leads(Onward(c), d)
<1>1. Leads(c, c)
  BY DEF Leads
<1>2. Leads(c, d) => Leads(c, Onward(d))
  BY DEF Leads
<1>3. ASSUME Leads(c, d), d # c PROVE Leads(Onward(c), d)
  <2> SUFFICES ASSUME NEW S, Onward(c) \in S, \A e \in S : Onward(e) \in S
               PROVE  d \in S
    BY DEF Leads
  <2>1. \A e \in S \cup {c} : Onward(e) \in S \cup {c}
    OBVIOUS
  <2>2. d \in S \cup {c}
    BY <1>3, <2>1 DEF Leads
  <2> QED BY <1>3, <2>2
<1> QED BY <1>1, <1>2, <1>3

\* As long as the text is the same, so is the way of a call.
LEMMA WayKept ==
    ASSUME UNCHANGED <<kind, text, input>>
    PROVE  /\ \A c : Onward(c)' = Onward(c)
           /\ \A c, d : Leads(c, d)' <=> Leads(c, d)
           /\ Begun' = Begun
           /\ \A m : Counted(m)' <=> Counted(m)
<1>1. \A i : Sym(i)' = Sym(i)
  BY DEF Sym
<1>2. \A i, t : Skip(i, t)' = Skip(i, t)
  BY DEF Skip, Sym
<1>3. \A i : SkipSpace(i)' = SkipSpace(i)
  BY DEF SkipSpace, Sym
<1>4. \A i, t, u : SkipNested(i, t, u)' = SkipNested(i, t, u)
  BY DEF SkipNested, Skip, Sym
<1>5. \A i : SkipPrimitive(i)' = SkipPrimitive(i)
  BY DEF SkipPrimitive, Sym
<1>6. \A i : SkipValue(i)' = SkipValue(i)
  BY DEF SkipValue, SkipNested, SkipPrimitive, SkipSpace, Skip, Sym
<1>7. \A i, t : Past(i, t)' = Past(i, t)
  BY <1>1, <1>2 DEF Past
<1>8. \A i, t : Member(i, t)' = Member(i, t)
  BY <1>1, <1>7 DEF Member
<1>9. \A i : KeyAt(i)' = KeyAt(i)
  BY <1>1, <1>2 DEF KeyAt, Keys
<1>10. \A i : StringAt(i)' = StringAt(i)
  BY <1>1, <1>2, <1>3 DEF StringAt
<1>11. Truths' = Truths /\ Decoded' = Decoded /\ Begun' = Begun
  BY DEF Truths, Decoded, DecodedLength, Begun
<1>12. \A c : AfterKeys(c)' = AfterKeys(c)
  BY <1>1, <1>2, <1>3 DEF AfterKeys, Stop
<1>13. \A c : AfterKey(c)' = AfterKey(c)
  BY <1>1, <1>3, <1>6, <1>7, <1>9 DEF AfterKey, Stop
<1>14. \A c, v, e : Delivered(c, v, e)' = Delivered(c, v, e)
  BY <1>2 DEF Delivered, Stop
<1>15. \A c : AfterValue(c)' = AfterValue(c)
  BY <1>1, <1>7, <1>10, <1>11, <1>14 DEF AfterValue, Stop, Wrote
<1>16. \A c : AfterBrand(c)' = AfterBrand(c)
  <2> SUFFICES ASSUME NEW c PROVE AfterBrand(c)' = AfterBrand(c)
    OBVIOUS
  <2>1. Member(Past(c.at, "{"), "brand")' = Member(Past(c.at, "{"), "brand")
    BY <1>7, <1>8
  <2>2. StringAt(Member(Past(c.at, "{"), "brand"))' = StringAt(Member(Past(c.at, "{"), "brand"))
    BY <1>10, <2>1
  <2>3. Sym(SkipSpace(c.at))' = Sym(SkipSpace(c.at)) /\ SkipSpace(c.at)' = SkipSpace(c.at)
    BY <1>1, <1>3
  <2> QED BY <1>14, <2>1, <2>2, <2>3 DEF AfterBrand, Stop
<1>17. \A c : AfterVersion(c)' = AfterVersion(c)
  <2> SUFFICES ASSUME NEW c PROVE AfterVersion(c)' = AfterVersion(c)
    OBVIOUS
  <2>1. Member(Past(c.at, ","), "version")' = Member(Past(c.at, ","), "version")
    BY <1>7, <1>8
  <2>2. StringAt(Member(Past(c.at, ","), "version"))' = StringAt(Member(Past(c.at, ","), "version"))
    BY <1>10, <2>1
  <2> QED BY <2>1, <2>2 DEF AfterVersion, Stop
<1>18. \A c : AfterEnd(c)' = AfterEnd(c)
  BY <1>1, <1>3, <1>7, <1>14 DEF AfterEnd, Stop
<1>19. \A c : AfterCallback(c)' = AfterCallback(c)
  BY <1>2 DEF AfterCallback, Stop
<1>20. \A c : Onward(c)' = Onward(c)
  BY <1>11, <1>12, <1>13, <1>15, <1>16, <1>17, <1>18, <1>19 DEF Onward
<1>21. \A c, d : Leads(c, d)' <=> Leads(c, d)
  BY <1>20 DEF Leads
<1> QED BY <1>11, <1>20, <1>21 DEF Counted

-----------------------------------------------------------------------------
(* Each step of a call is one of the way of a call with enough buffer.       *)

\* What the call with enough buffer has written is what was counted, and it
\* ends here or comes to where the call does; it may call the callback first,
\* for the value of a list that another call has no room for.
Mirrors(filled, st) ==
    LET d == Onward(Place(filled, st))
    IN /\ d.n = Len(out')
       /\ \/ d.pc = "complete"
          \/ pc' = "complete" /\ status' = "INVALID_INPUT"
          \/ \E t \in Statuses : d = Place(filled, t)'
          \/ /\ pc' = "key"
             /\ \E t \in Statuses : \E end :
                  at' = Skip(end, Quote) /\ d = PlaceAt("callback", end, Len(out), filled, t)'
       /\ st = status /\ "INSUFFICIENT_MEMORY" \notin {status, status'} /\ Len(out) <= Room =>
            pc' = "complete" \/ d = Place(filled, status)'

LEMMA EndMirrors ==
    ASSUME ParseInv, kind # "sua", pc \in {"key", "value", "brand", "version", "endBrand"},
           NEW filled \in Nat, NEW st \in Statuses,
           Onward(Place(filled, st)) = Stop(Place(filled, st)),
           out' = out, pc' = "complete"
    PROVE  Mirrors(filled, st)
BY DEF Mirrors, Stop, Place, PlaceAt

LEMMA SkipKeyMirrors ==
    ASSUME ParseInv, kind # "sua", SkipKey, NEW filled \in Nat, NEW st \in Statuses
    PROVE  Mirrors(filled, st)
<1> DEFINE c == Place(filled, st)
<1>1. /\ c.pc = "key" /\ c.at = at /\ Sym(at) # NUL /\ Sym(KeyAt(at).end) = Quote
      /\ KeyAt(at).key = Undefined /\ at' = SkipValue(KeyAt(at).end + 1)
      /\ UNCHANGED <<out, status, key, begin, ptr, named, pc>>
  BY DEF SkipKey, Place, PlaceAt
<1>2. Onward(c) = [c EXCEPT !.at = at']
  BY <1>1 DEF Onward, AfterKey
<1>3. [c EXCEPT !.at = at'] = Place(filled, st)'
  BY <1>1 DEF Place, PlaceAt
<1>4. Onward(c).n = Len(out')
  BY <1>1, <1>2 DEF Place, PlaceAt
<1> QED BY <1>1, <1>2, <1>3, <1>4 DEF Mirrors

LEMMA KeyMirrors ==
    ASSUME ParseInv, kind # "sua", EndOfText \/ BadKey \/ SkipKey \/ ReadKey,
           NEW filled \in Nat, NEW st \in Statuses
    PROVE  Mirrors(filled, st)
<1> DEFINE c == Place(filled, st)
<1>1. c.pc = "key" /\ c.at = at /\ c.n = Len(out) /\ pc = "key"
  BY DEF EndOfText, BadKey, SkipKey, ReadKey, Place, PlaceAt
<1>2. Onward(c) = AfterKey(c)
  BY <1>1 DEF Onward
<1>3. CASE EndOfText
  <2>1. Sym(at) = NUL /\ out' = out /\ pc' = "complete"
    BY <1>3 DEF EndOfText
  <2> QED BY <1>1, <1>2, <2>1, EndMirrors DEF AfterKey
<1>4. CASE BadKey
  <2>1. Sym(KeyAt(at).end) # Quote /\ out' = out /\ pc' = "complete"
    BY <1>4 DEF BadKey, Invalid
  <2> QED BY <1>1, <1>2, <2>1, EndMirrors DEF AfterKey
<1>5. CASE ReadKey
  <2> DEFINE colon == Past(KeyAt(at).end, ":")
             first == SkipSpace(colon)
  <2>1. Sym(at) # NUL /\ Sym(KeyAt(at).end) = Quote /\ KeyAt(at).key # Undefined
    BY <1>5 DEF ReadKey
  <2>2. CASE colon = 0 \/ Sym(first) = NUL
    <3>1. out' = out /\ pc' = "complete"
      BY <1>5, <2>2 DEF ReadKey, Invalid
    <3>2. Onward(c) = Stop(c)
      BY <1>1, <1>2, <2>1, <2>2 DEF AfterKey
    <3> QED BY <1>1, <3>1, <3>2, EndMirrors
  <2>3. CASE ~ (colon = 0 \/ Sym(first) = NUL)
    <3>1. /\ at' = first /\ key' = KeyAt(at).key /\ begin' = Len(out) /\ ptr' = Len(out)
          /\ pc' = "value" /\ UNCHANGED <<out, status, named>>
      BY <1>5, <2>3 DEF ReadKey
    <3>2. Onward(c) = [c EXCEPT !.at = at', !.key = key', !.begin = begin', !.ptr = ptr',
                                !.pc = "value"]
      BY <1>1, <1>2, <2>1, <2>3, <3>1 DEF AfterKey
    <3>3. Onward(c) = Place(filled, st)' /\ Onward(c).n = Len(out')
      BY <3>1, <3>2 DEF Place, PlaceAt
    <3> QED BY <3>1, <3>3 DEF Mirrors
  <2> QED BY <2>2, <2>3
<1> QED BY <1>3, <1>4, <1>5, SkipKeyMirrors

LEMMA ReadMirrors ==
    ASSUME UNCHANGED <<key, named, begin, ptr>>,
           NEW x, NEW end, NEW delivered \in BOOLEAN, Read(x, delivered, end),
           NEW filled \in Nat, NEW st \in Statuses,
           NEW t \in Statuses, NEW large \in BOOLEAN, delivered => large,
           Onward(Place(filled, st)) =
             Delivered(PlaceAt(pc, at, Len(out'), filled, t), large, end),
           /\ st = status /\ "INSUFFICIENT_MEMORY" \notin {status, x} /\ Len(out) <= Room =>
                t = x /\ delivered = large
    PROVE  Mirrors(filled, st)
<1> DEFINE d == Onward(Place(filled, st))
           w == PlaceAt(pc, at, Len(out'), filled, t)
<1>0. w.status = t /\ w.n = Len(out') /\ status' = x
  BY DEF Place, PlaceAt, Read
<1>1. CASE t = "INVALID_INPUT"
  <2>1. d = [w EXCEPT !.pc = "complete"]
    BY <1>0, <1>1 DEF Delivered, Stop
  <2>2. d.pc = "complete" /\ d.n = Len(out')
    BY <2>1 DEF Place, PlaceAt
  <2>3. x = "INVALID_INPUT" => pc' = "complete"
    BY DEF Read
  <2> QED BY <1>0, <1>1, <2>2, <2>3 DEF Mirrors
<1>2. CASE x = "INVALID_INPUT" /\ t # "INVALID_INPUT"
  <2>1. pc' = "complete" /\ status' = "INVALID_INPUT"
    BY <1>0, <1>2 DEF Read
  <2>2. d.n = Len(out')
    BY <1>0, <1>2 DEF Delivered, Place, PlaceAt
  <2> QED BY <2>1, <2>2 DEF Mirrors
<1>3. CASE x # "INVALID_INPUT" /\ t # "INVALID_INPUT"
  <2>1. CASE delivered
    <3>1. at' = end /\ pc' = "callback"
      BY <1>3, <2>1 DEF Read
    <3>2. d = [w EXCEPT !.at = end, !.pc = "callback"]
      BY <1>0, <1>3, <2>1 DEF Delivered
    <3>3. d = Place(filled, t)' /\ d.n = Len(out')
      BY <3>1, <3>2 DEF Place, PlaceAt
    <3> QED BY <1>0, <2>1, <3>1, <3>3 DEF Mirrors
  <2>2. CASE ~ delivered
    <3>1. at' = Skip(end, Quote) /\ pc' = "key"
      BY <1>3, <2>2 DEF Read
    <3>2. CASE large
      <4>1. d = [w EXCEPT !.at = end, !.pc = "callback"]
        BY <1>0, <1>3, <3>2 DEF Delivered
      <4> DEFINE e == [pc |-> "callback", at |-> end, key |-> key, named |-> named, begin |-> begin,
                       ptr |-> ptr, n |-> Len(out'), count |-> filled, status |-> t]
      <4>2. d = e /\ d.n = Len(out')
        BY <4>1 DEF Place, PlaceAt
      <4>3. PlaceAt("callback", end, Len(out), filled, t)' = e
        BY <3>1 DEF PlaceAt
      <4> QED BY <1>0, <2>2, <3>1, <3>2, <4>2, <4>3 DEF Mirrors
    <3>3. CASE ~ large
      <4>1. d = [w EXCEPT !.at = Skip(end, Quote), !.pc = "key"]
        BY <1>0, <1>3, <3>3 DEF Delivered
      <4>2. d = Place(filled, t)' /\ d.n = Len(out')
        BY <3>1, <4>1 DEF Place, PlaceAt
      <4> QED BY <1>0, <3>1, <4>2 DEF Mirrors
    <3> QED BY <3>2, <3>3
  <2> QED BY <2>1, <2>2
<1> QED BY <1>1, <1>2, <1>3

\* A status that tells of no shortage is the one there was, or the text is
\* invalid.
LEMMA StatusKept ==
    ASSUME status # "INSUFFICIENT_MEMORY"
    PROVE  /\ \A s : Written(s) # "INSUFFICIENT_MEMORY" => Written(s) = status
           /\ \A s, more : StatusOf(s, more) # "INSUFFICIENT_MEMORY" =>
                StatusOf(s, more) = IF s.type = "invalid" THEN "INVALID_INPUT" ELSE status
BY DEF Written, StatusOf

LEMMA WroteIs ==
    ASSUME NEW p, NEW a, NEW n, NEW filled, NEW st, NEW s
    PROVE  Wrote(PlaceAt(p, a, n, filled, st), s) =
             PlaceAt(p, a, n + Len(s.text), filled,
                     IF s.type = "invalid" THEN "INVALID_INPUT" ELSE st)
<1>1. ASSUME NEW m, NEW u, NEW w,
             w = [PlaceAt(p, a, n, filled, st) EXCEPT !.n = m, !.status = u]
      PROVE  w = PlaceAt(p, a, m, filled, u)
  BY <1>1 DEF PlaceAt
<1> DEFINE m == n + Len(s.text)
           u == IF s.type = "invalid" THEN "INVALID_INPUT" ELSE st
<1>2. PlaceAt(p, a, n, filled, st).n = n /\ PlaceAt(p, a, n, filled, st).status = st
  BY DEF PlaceAt
<1>3. Wrote(PlaceAt(p, a, n, filled, st), s) =
        [PlaceAt(p, a, n, filled, st) EXCEPT !.n = m, !.status = u]
  BY <1>2 DEF Wrote
<1> HIDE DEF m, u
<1>4. Wrote(PlaceAt(p, a, n, filled, st), s) = PlaceAt(p, a, m, filled, u)
  BY <1>1, <1>3
<1> QED BY <1>4 DEF m, u

LEMMA ReadPureStringMirrors ==
    ASSUME ParseInv, kind # "sua", ReadPureString, NEW filled \in Nat, NEW st \in Statuses
    PROVE  Mirrors(filled, st)
<1> DEFINE c == Place(filled, st)
           s == StringAt(at)
           t == IF s.type = "invalid" THEN "INVALID_INPUT" ELSE st
           x == StatusOf(s, <<>>)
<1>1. /\ pc = "value" /\ key \notin {"BRANDS", "FULLVERSIONLIST", "MOBILE"}
      /\ out' = out \o s.text /\ Read(x, s.type # "null", s.end)
      /\ UNCHANGED call /\ UNCHANGED <<key, named, begin, ptr>>
  BY DEF ReadPureString, IsBrands
<1>2. pc \in Reading
  BY <1>1 DEF Reading
<1>3. Len(out') = Len(out) + Len(s.text)
  <2>1. s.text \in Seq(Symbol)
    BY <1>2, ValueFacts, StringEnds DEF StringSet
  <2> HIDE DEF s, Symbol
  <2> QED BY <1>1, <1>2, <2>1, WrittenOn
<1>4. t \in Statuses
  BY DEF Statuses
<1>5. Onward(c) = Delivered(Wrote(c, s), s.type # "null", s.end)
  <2>1. c.pc = "value" /\ c.at = at /\ c.key = key
    BY <1>1 DEF Place, PlaceAt
  <2> HIDE DEF c, s
  <2>2. Onward(c) = AfterValue(c)
    BY <2>1 DEF Onward
  <2>3. AfterValue(c) = Delivered(Wrote(c, s), s.type # "null", s.end)
    BY <1>1, <2>1 DEF AfterValue, s
  <2> QED BY <2>2, <2>3
<1>6. Wrote(c, s) = PlaceAt(pc, at, Len(out'), filled, t)
  BY <1>3, WroteIs DEF Place
<1>7. st = status /\ "INSUFFICIENT_MEMORY" \notin {status, x} => t = x
  BY StatusKept
<1> DEFINE delivered == s.type # "null"
<1>8. Read(x, delivered, s.end) /\ delivered \in BOOLEAN
  BY <1>1
<1>9. Onward(Place(filled, st)) = Delivered(PlaceAt(pc, at, Len(out'), filled, t), delivered, s.end)
  BY <1>5, <1>6
<1> HIDE DEF c, s, t, x, delivered
<1> QED BY <1>1, <1>4, <1>7, <1>8, <1>9, ReadMirrors

LEMMA ReadBoolMirrors ==
    ASSUME ParseInv, kind # "sua", ReadBool, NEW filled \in Nat, NEW st \in Statuses
    PROVE  Mirrors(filled, st)
<1> DEFINE c == Place(filled, st)
           s == Truths[Sym(at)]
           w == [c EXCEPT !.n = @ + 2]
<1>1. /\ pc = "value" /\ key = "MOBILE" /\ key \notin {"BRANDS", "FULLVERSIONLIST"}
      /\ c.pc = "value" /\ c.at = at /\ c.key = key
  BY DEF ReadBool, Place, PlaceAt
<1>2. pc \in Reading
  BY <1>1 DEF Reading
<1>3. Onward(c) = IF Sym(at) \in DOMAIN Truths THEN Delivered(w, TRUE, at + 1) ELSE Stop(c)
  <2> HIDE DEF c
  <2>1. Onward(c) = AfterValue(c)
    BY <1>1 DEF Onward
  <2> QED BY <1>1, <2>1 DEF AfterValue
<1>4. CASE Sym(at) \notin DOMAIN Truths
  <2>1. out' = out /\ pc' = "complete"
    BY <1>4 DEF ReadBool, Invalid
  <2> QED BY <1>1, <1>3, <1>4, <2>1, EndMirrors
<1>5. CASE Sym(at) \in DOMAIN Truths
  <2>1. /\ out' = out \o s /\ Read(Written(s), TRUE, at + 1)
        /\ UNCHANGED call /\ UNCHANGED <<key, named, begin, ptr>>
    BY <1>5 DEF ReadBool
  <2>2. s \in Seq(Symbol) /\ Len(s) = 2
    BY <1>5, TruthsAre
  <2>3. Len(out') = Len(out) + 2
    <3> HIDE DEF s, Symbol
    <3> QED BY <1>2, <2>1, <2>2, WrittenOn
  <2>4. w = PlaceAt(pc, at, Len(out'), filled, st)
    <3>1. ASSUME NEW v, v = w PROVE v = PlaceAt(pc, at, Len(out'), filled, st)
      BY <2>3, <3>1 DEF Place, PlaceAt
    <3> HIDE DEF w
    <3> QED BY <3>1
  <2>5. Onward(Place(filled, st)) = Delivered(PlaceAt(pc, at, Len(out'), filled, st), TRUE, at + 1)
    <3> HIDE DEF w
    <3> QED BY <1>3, <1>5, <2>4
  <2>6. st = status /\ "INSUFFICIENT_MEMORY" \notin {status, Written(s)} => st = Written(s)
    BY StatusKept
  <2> HIDE DEF c, s, w
  <2> QED BY <2>1, <2>5, <2>6, ReadMirrors
<1> QED BY <1>4, <1>5

LEMMA ReadBrandsMirrors ==
    ASSUME ParseInv, kind # "sua", ReadBrands, NEW filled \in Nat, NEW st \in Statuses
    PROVE  Mirrors(filled, st)
<1> DEFINE c == Place(filled, st)
           first == Past(at, "[")
<1>1. /\ pc = "value" /\ key \in {"BRANDS", "FULLVERSIONLIST"}
      /\ c.pc = "value" /\ c.at = at /\ c.key = key
  BY DEF ReadBrands, IsBrands, Place, PlaceAt
<1>2. Onward(c) = IF first = 0 THEN Stop(c) ELSE [c EXCEPT !.at = first, !.pc = "brand"]
  <2> HIDE DEF c
  <2>1. Onward(c) = AfterValue(c)
    BY <1>1 DEF Onward
  <2> QED BY <1>1, <2>1 DEF AfterValue
<1>3. CASE first = 0
  <2>1. out' = out /\ pc' = "complete"
    BY <1>3 DEF ReadBrands, Invalid
  <2> QED BY <1>1, <1>2, <1>3, <2>1, EndMirrors
<1>4. CASE first # 0
  <2>1. /\ at' = first /\ pc' = "brand" /\ UNCHANGED <<out, status, key, named, begin, ptr>>
    BY <1>4 DEF ReadBrands
  <2>2. Onward(c) = [c EXCEPT !.at = first, !.pc = "brand"]
    BY <1>2, <1>4
  <2>3. Onward(c) = Place(filled, st)' /\ Onward(c).n = Len(out')
    BY <2>1, <2>2 DEF Place, PlaceAt
  <2> QED BY <2>1, <2>3 DEF Mirrors
<1> QED BY <1>3, <1>4

LEMMA NoBrandsMirrors ==
    ASSUME ParseInv, kind # "sua", NoBrands, NEW filled \in Nat, NEW st \in Statuses
    PROVE  Mirrors(filled, st)
<1> DEFINE c == Place(filled, st)
           next == SkipSpace(at)
<1>1. /\ pc = "brand" /\ Sym(next) = "]" /\ Read(status, TRUE, next)
      /\ UNCHANGED <<out, key, named, begin, ptr>>
      /\ c.pc = "brand" /\ c.at = at
  BY DEF NoBrands, Place, PlaceAt
<1>2. Onward(c) = Delivered(c, TRUE, next)
  <2> HIDE DEF c
  <2>1. Onward(c) = AfterBrand(c)
    BY <1>1 DEF Onward
  <2> QED BY <1>1, <2>1 DEF AfterBrand
<1>3. Onward(Place(filled, st)) = Delivered(PlaceAt(pc, at, Len(out'), filled, st), TRUE, next)
  <2>1. c = PlaceAt(pc, at, Len(out'), filled, st)
    BY <1>1 DEF Place
  <2> HIDE DEF c, next
  <2> QED BY <1>2, <2>1 DEF c
<1>4. UNCHANGED <<key, named, begin, ptr>>
  BY <1>1
<1> HIDE DEF c, next
<1> QED BY <1>1, <1>3, <1>4, ReadMirrors

LEMMA ReadBrandMirrors ==
    ASSUME ParseInv, kind # "sua", ReadBrand, NEW filled \in Nat, NEW st \in Statuses
    PROVE  Mirrors(filled, st)
<1> DEFINE c == Place(filled, st)
           brand == Member(Past(at, "{"), "brand")
           s == StringAt(brand)
           more == IF s.type = "null" THEN <<>> ELSE <<";v=">>
           t == IF s.type = "invalid" THEN "INVALID_INPUT" ELSE st
           w == Wrote(c, s)
<1>1. pc = "brand" /\ Sym(SkipSpace(at)) # "]" /\ c.pc = "brand" /\ c.at = at
  BY DEF ReadBrand, Place, PlaceAt
<1> DEFINE n == w.n + (IF s.type = "null" THEN 0 ELSE 1)
           r == IF s.type = "null" THEN w.ptr ELSE n
           p == IF s.type = "null" THEN "endBrand" ELSE "version"
<1>2. Onward(c) = IF brand = 0 THEN Stop(c)
                  ELSE [w EXCEPT !.at = s.end, !.named = (s.type # "null"), !.n = n,
                                 !.ptr = r, !.pc = p]
  <2> HIDE DEF c
  <2>1. Onward(c) = AfterBrand(c)
    BY <1>1 DEF Onward
  <2> QED BY <1>1, <2>1 DEF AfterBrand
<1>3. CASE brand = 0
  <2>1. out' = out /\ pc' = "complete"
    BY <1>3 DEF ReadBrand, Invalid
  <2> QED BY <1>1, <1>2, <1>3, <2>1, EndMirrors
<1>4. CASE brand # 0
  <2>1. /\ out' = out \o s.text \o more /\ status' = StatusOf(s, more)
        /\ named' = (s.type # "null") /\ ptr' = (IF named' THEN Len(out') ELSE ptr)
        /\ at' = s.end /\ pc' = (IF named' THEN "version" ELSE "endBrand")
        /\ UNCHANGED <<key, begin>>
    BY <1>4 DEF ReadBrand
  <2>2. pc \in Reading
    BY <1>1 DEF Reading, Brands
  <2>3. s.text \in Seq(Symbol) /\ Len(s.text) \in Nat
    <3>1. IsText /\ at \in 1 .. Last
      BY <2>2, ValueFacts
    <3>2. "{" # NUL /\ "brand" # NUL
      BY DEF NUL
    <3>3. brand \in 1 .. Last
      BY <1>4, <3>1, <3>2, MemberPast
    <3> HIDE DEF brand
    <3>4. s \in StringSet
      BY <3>1, <3>3, StringEnds
    <3> HIDE DEF s, Symbol
    <3> QED BY <3>4 DEF StringSet
  <2>4. Len(out') = Len(out) + Len(s.text) + (IF s.type = "null" THEN 0 ELSE 1)
    <3>1. out \in Seq(Symbol) /\ Len(out) \in Nat
      BY <2>2, ValueFacts
    <3>2. ";v=" \in Symbol
      BY DEF Symbol
    <3>3. more = <<>> \/ more = <<";v=">>
      OBVIOUS
    <3> HIDE DEF Symbol, s
    <3>4. more \in Seq(Symbol) /\ Len(more) = IF s.type = "null" THEN 0 ELSE 1
      <4>1. CASE s.type = "null"
        BY <3>2, <4>1, Singles
      <4>2. CASE s.type # "null"
        BY <3>2, <4>2, Singles
      <4> QED BY <4>1, <4>2
    <3> HIDE DEF more
    <3>5. out \o s.text \in Seq(Symbol) /\ Len(out \o s.text) = Len(out) + Len(s.text)
      BY <2>3, <3>1, ConcatProperties
    <3>6. Len((out \o s.text) \o more) = Len(out \o s.text) + Len(more)
      BY <3>4, <3>5, ConcatProperties
    <3> QED BY <2>1, <3>4, <3>5, <3>6
  <2>5. w = PlaceAt(pc, at, Len(out) + Len(s.text), filled, t)
    <3> HIDE DEF s
    <3> QED BY WroteIs DEF Place
  <2>6. PICK u \in Statuses : u = t
    BY DEF Statuses
  <2>7. st = status /\ "INSUFFICIENT_MEMORY" \notin {status, status'} => u = status'
    BY <2>1, <2>6, StatusKept
  <2> HIDE DEF s, t, more
  <2>8. w.n = Len(out) + Len(s.text) /\ w.ptr = ptr
    <3> HIDE DEF w
    <3> QED BY <2>5 DEF PlaceAt
  <2>9. n = Len(out') /\ r = ptr' /\ p = pc'
    <3> HIDE DEF w
    <3>1. n = Len(out')
      BY <2>4, <2>8
    <3> HIDE DEF n
    <3>2. CASE s.type = "null"
      <4>1. ~ named'
        BY <2>1, <3>2
      <4> QED BY <2>1, <2>8, <3>1, <3>2, <4>1
    <3>3. CASE s.type # "null"
      <4>1. named'
        BY <2>1, <3>3
      <4> QED BY <2>1, <3>1, <3>3, <4>1
    <3> QED BY <3>2, <3>3
  <2>10. Onward(c) = [w EXCEPT !.at = at', !.named = named', !.n = Len(out'), !.ptr = ptr',
                               !.pc = pc']
    <3> HIDE DEF w, n, r, p
    <3> QED BY <1>2, <1>4, <2>1, <2>9
  <2>11. Onward(c) = Place(filled, u)' /\ Onward(c).n = Len(out')
    <3>1. ASSUME NEW m, NEW d,
                 d = [PlaceAt(pc, at, m, filled, u) EXCEPT !.at = at', !.named = named',
                                                           !.n = Len(out'), !.ptr = ptr',
                                                           !.pc = pc']
          PROVE  d = Place(filled, u)' /\ d.n = Len(out')
      BY <2>1, <3>1 DEF Place, PlaceAt
    <3> HIDE DEF c, w
    <3> QED BY <2>5, <2>6, <2>10, <3>1
  <2> HIDE DEF w, n, r, p
  <2> QED BY <2>7, <2>11 DEF Mirrors
<1> QED BY <1>3, <1>4

LEMMA ReadVersionMirrors ==
    ASSUME ParseInv, kind # "sua", ReadVersion, NEW filled \in Nat, NEW st \in Statuses
    PROVE  Mirrors(filled, st)
<1> DEFINE c == Place(filled, st)
           version == Member(Past(at, ","), "version")
           v == StringAt(version)
           s == IF v.type = "null" THEN <<"null">> ELSE v.text
           t == IF v.type = "invalid" THEN "INVALID_INPUT" ELSE st
           w == Wrote(c, v)
           n == c.n + (IF v.type = "null" THEN 1 ELSE Len(v.text))
<1>1. pc = "version" /\ c.pc = "version" /\ c.at = at /\ c.n = Len(out)
  BY DEF ReadVersion, Place, PlaceAt
<1>2. Onward(c) = IF version = 0 THEN Stop(c)
                  ELSE [w EXCEPT !.at = v.end, !.n = n, !.ptr = n, !.pc = "endBrand"]
  <2> HIDE DEF c
  <2>1. Onward(c) = AfterVersion(c)
    BY <1>1 DEF Onward
  <2> QED BY <1>1, <2>1 DEF AfterVersion
<1>3. CASE version = 0
  <2>1. out' = out /\ pc' = "complete"
    BY <1>3 DEF ReadVersion, Invalid
  <2> QED BY <1>1, <1>2, <1>3, <2>1, EndMirrors
<1>4. CASE version # 0
  <2>1. /\ out' = out \o s /\ ptr' = Len(out') /\ at' = v.end /\ pc' = "endBrand"
        /\ status' = IF v.type = "invalid" THEN "INVALID_INPUT" ELSE Written(s)
        /\ UNCHANGED call /\ UNCHANGED <<key, begin, named>>
    BY <1>4 DEF ReadVersion
  <2>2. pc \in Reading
    BY <1>1 DEF Reading, Brands
  <2>3. v.text \in Seq(Symbol) /\ Len(v.text) \in Nat
    <3>1. IsText /\ at \in 1 .. Last
      BY <2>2, ValueFacts
    <3>2. "," # NUL /\ "version" # NUL
      BY DEF NUL
    <3>3. version \in 1 .. Last
      BY <1>4, <3>1, <3>2, MemberPast
    <3> HIDE DEF version
    <3>4. v \in StringSet
      BY <3>1, <3>3, StringEnds
    <3> HIDE DEF v, Symbol
    <3> QED BY <3>4 DEF StringSet
  <2>4. s \in Seq(Symbol) /\ Len(s) = IF v.type = "null" THEN 1 ELSE Len(v.text)
    <3>1. "null" \in Symbol
      BY DEF Symbol
    <3> HIDE DEF Symbol, v
    <3>2. CASE v.type = "null"
      BY <3>1, <3>2, Singles
    <3>3. CASE v.type # "null"
      BY <2>3, <3>3
    <3> QED BY <3>2, <3>3
  <2>5. n = Len(out')
    <3> HIDE DEF s, v, Symbol, c
    <3>1. Len(out') = Len(out) + Len(s)
      BY <2>1, <2>2, <2>4, WrittenOn
    <3> QED BY <1>1, <2>4, <3>1
  <2>6. w = PlaceAt(pc, at, Len(out) + Len(v.text), filled, t)
    <3> HIDE DEF v
    <3> QED BY WroteIs DEF Place
  <2>7. PICK u \in Statuses : u = t
    BY DEF Statuses
  <2>8. st = status /\ "INSUFFICIENT_MEMORY" \notin {status, status'} => u = status'
    BY <2>1, <2>7, StatusKept
  <2> HIDE DEF v, t, s, n
  <2>9. Onward(c) = [w EXCEPT !.at = at', !.n = Len(out'), !.ptr = ptr', !.pc = pc']
    <3> HIDE DEF w
    <3> QED BY <1>2, <1>4, <2>1, <2>5
  <2>10. Onward(c) = Place(filled, u)' /\ Onward(c).n = Len(out')
    <3>1. ASSUME NEW m, NEW d,
                 d = [PlaceAt(pc, at, m, filled, u) EXCEPT !.at = at', !.n = Len(out'),
                                                           !.ptr = ptr', !.pc = pc']
          PROVE  d = Place(filled, u)' /\ d.n = Len(out')
      BY <2>1, <3>1 DEF Place, PlaceAt
    <3> HIDE DEF c, w
    <3> QED BY <2>6, <2>7, <2>9, <3>1
  <2> HIDE DEF w
  <2> QED BY <2>8, <2>10 DEF Mirrors
<1> QED BY <1>3, <1>4

LEMMA EndBrandMirrors ==
    ASSUME ParseInv, kind # "sua", EndBrand, NEW filled \in Nat, NEW st \in Statuses
    PROVE  Mirrors(filled, st)
<1> DEFINE c == Place(filled, st)
           brace == Past(at, "}")
           next == SkipSpace(brace)
           w == [c EXCEPT !.n = @ + 2, !.ptr = c.n + 2]
           large == ptr # begin
           delivered == Current(ptr) # Current(begin)
<1>1. pc = "endBrand" /\ c.pc = "endBrand" /\ c.at = at /\ c.n = Len(out)
      /\ c.ptr = ptr /\ c.begin = begin /\ c.named = named
  BY DEF EndBrand, Place, PlaceAt
<1>2. pc \in Reading
  BY <1>1 DEF Reading, Brands
<1>3. Onward(c) = IF brace = 0 \/ Sym(next) \notin {"]", ","} THEN Stop(c)
                  ELSE IF Sym(next) = "]" THEN Delivered(c, large, next)
                  ELSE [(IF named THEN w ELSE c) EXCEPT !.at = next + 1, !.pc = "brand"]
  <2> HIDE DEF c
  <2>1. Onward(c) = AfterEnd(c)
    BY <1>1 DEF Onward
  <2> QED BY <1>1, <2>1 DEF AfterEnd
<1>4. CASE brace = 0 \/ Sym(next) \notin {"]", ","}
  <2> HIDE DEF brace, next
  <2>1. out' = out /\ pc' = "complete"
    BY <1>4 DEF EndBrand, Invalid, brace, next
  <2> QED BY <1>1, <1>3, <1>4, <2>1, EndMirrors
<1>5. CASE brace # 0 /\ Sym(next) = "]"
  <2>1. Read(status, delivered, next) /\ UNCHANGED <<out, key, named, begin, ptr>>
    BY <1>5 DEF EndBrand
  <2>2. c = PlaceAt(pc, at, Len(out'), filled, st)
    BY <2>1 DEF Place
  <2>3. Len(out) <= Room => delivered = large
    <3>1. begin \in Nat /\ ptr \in Nat /\ begin <= Len(out) /\ ptr <= Len(out) /\ Len(out) \in Nat
          /\ Room \in Nat
      BY <1>2, ValueFacts, StepFacts
    <3> QED BY <3>1 DEF Current
  <2>4. delivered => large
    OBVIOUS
  <2>5. Onward(Place(filled, st)) = Delivered(PlaceAt(pc, at, Len(out'), filled, st), large, next)
    <3> HIDE DEF c, next, large, brace
    <3> QED BY <1>3, <1>5, <2>2 DEF c
  <2>6. UNCHANGED <<key, named, begin, ptr>> /\ delivered \in BOOLEAN /\ large \in BOOLEAN
    BY <2>1
  <2> HIDE DEF c, next, large, delivered, brace
  <2> QED BY <2>1, <2>3, <2>4, <2>5, <2>6, ReadMirrors
<1>6. CASE brace # 0 /\ Sym(next) = ","
  <2>1. /\ out' = IF named THEN out \o <<",", " ">> ELSE out
        /\ status' = IF named THEN Written(<<",", " ">>) ELSE status
        /\ ptr' = IF named THEN Len(out') ELSE ptr
        /\ at' = next + 1 /\ pc' = "brand" /\ UNCHANGED <<key, begin, named>>
        /\ UNCHANGED call
    BY <1>6 DEF EndBrand
  <2>2. Len(<<",", " ">>) = 2 /\ <<",", " ">> \in Seq(Symbol)
    <3>1. "," \in Symbol /\ " " \in Symbol
      BY DEF Symbol
    <3> HIDE DEF Symbol
    <3> QED BY <3>1, Singles
  <2>3. "INSUFFICIENT_MEMORY" \notin {status, status'} => status = status'
    BY <2>1, StatusKept
  <2>4. Onward(c) = [(IF named THEN w ELSE c) EXCEPT !.at = at', !.pc = pc']
    <3> HIDE DEF c, w, brace
    <3> QED BY <1>3, <1>6, <2>1
  <2>5. CASE named
    <3>1. Len(out') = Len(out) + 2 /\ ptr' = Len(out')
      <4> HIDE DEF Symbol
      <4> QED BY <1>2, <2>1, <2>2, <2>5, WrittenOn
    <3>2. w = [c EXCEPT !.n = Len(out'), !.ptr = ptr']
      <4> HIDE DEF c
      <4> QED BY <1>1, <3>1
    <3>3. ASSUME NEW d, d = [w EXCEPT !.at = at', !.pc = pc']
          PROVE  d = Place(filled, st)' /\ d.n = Len(out')
      <4> HIDE DEF w
      <4> QED BY <2>1, <3>2, <3>3 DEF Place, PlaceAt
    <3>4. Onward(c) = Place(filled, st)' /\ Onward(c).n = Len(out')
      <4> HIDE DEF c, w
      <4> QED BY <2>4, <2>5, <3>3
    <3> HIDE DEF w, next, brace
    <3> QED BY <2>3, <3>4 DEF Mirrors
  <2>6. CASE ~ named
    <3>1. out' = out /\ ptr' = ptr
      BY <2>1, <2>6
    <3>2. ASSUME NEW d, d = [c EXCEPT !.at = at', !.pc = pc']
          PROVE  d = Place(filled, st)' /\ d.n = Len(out')
      BY <2>1, <3>1, <3>2 DEF Place, PlaceAt
    <3>3. Onward(c) = Place(filled, st)' /\ Onward(c).n = Len(out')
      <4> HIDE DEF c, w
      <4> QED BY <2>4, <2>6, <3>2
    <3> HIDE DEF w, next, brace
    <3> QED BY <2>3, <3>3 DEF Mirrors
  <2> QED BY <2>5, <2>6
<1> QED BY <1>4, <1>5, <1>6

LEMMA ReadingMirrors ==
    ASSUME ParseInv, kind # "sua", Reads, NEW filled \in Nat, NEW st \in Statuses
    PROVE  Mirrors(filled, st)
<1>1. ~ ReadPlatform /\ ~ ReadPlatformVersion
  BY DEF ReadPlatform, ReadPlatformVersion, IsPlatform, ParseInv, ValuesInv
<1> QED BY <1>1, KeyMirrors, ReadPureStringMirrors, ReadBoolMirrors, ReadBrandsMirrors,
           NoBrandsMirrors, ReadBrandMirrors, ReadVersionMirrors, EndBrandMirrors DEF Reads

LEMMA DecodeMirrors ==
    ASSUME ParseInv, Decode, pc' = "keys", NEW filled \in Nat, NEW st \in Statuses
    PROVE  Mirrors(filled, st)
<1> DEFINE c == Place(filled, st)
<1>1. Len(out') = Decoded /\ pc = "decode"
  BY DecodeAdvances
<1>2. at' = at /\ UNCHANGED <<key, begin, ptr, named>> /\ \E s : status' = Written(s)
  BY DEF Decode
<1>3. Onward(c) = [c EXCEPT !.n = Decoded, !.pc = "keys"]
  BY <1>1 DEF Onward, Place, PlaceAt
<1>4. Onward(c) = Place(filled, st)' /\ Onward(c).n = Len(out')
  <2>1. ASSUME NEW d, d = [c EXCEPT !.n = Decoded, !.pc = "keys"]
        PROVE  d = Place(filled, st)' /\ d.n = Len(out')
    BY <1>1, <1>2, <2>1 DEF Place, PlaceAt
  <2> HIDE DEF c
  <2> QED BY <1>3, <2>1
<1>5. "INSUFFICIENT_MEMORY" \notin {status, status'} => status = status'
  BY <1>2, StatusKept
<1> QED BY <1>4, <1>5 DEF Mirrors

LEMMA WriteKeysMirrors ==
    ASSUME ParseInv, WriteKeys, NEW filled \in Nat, NEW st \in Statuses
    PROVE  Mirrors(filled, st)
<1> DEFINE c == Place(filled, st)
           open == SkipSpace(1)
           w == [c EXCEPT !.n = @ + 8]
<1>1. pc = "keys" /\ Len(out') = Len(out) + 8 /\ c.pc = "keys" /\ c.n = Len(out)
  <2>1. pc = "keys" /\ Len(out') = Names
    BY WriteKeysAdvances
  <2>2. Len(out) = Decoded
    BY <2>1 DEF ParseInv, NamesInv
  <2> QED BY <2>1, <2>2 DEF Names, Place, PlaceAt
<1>2. Onward(c) = IF Sym(open) = "{" THEN [w EXCEPT !.at = Skip(open, Quote), !.pc = "key"]
                  ELSE Stop(w)
  <2> HIDE DEF c
  <2>1. Onward(c) = AfterKeys(c)
    BY <1>1 DEF Onward
  <2> QED BY <1>1, <2>1 DEF AfterKeys
<1>3. w = [c EXCEPT !.n = Len(out')]
  <2> HIDE DEF c
  <2> QED BY <1>1
<1>4. CASE Sym(open) = "{"
  <2>1. /\ at' = Skip(open, Quote) /\ status' = Written(Headers) /\ pc' = "key"
        /\ UNCHANGED <<key, begin, ptr, named>>
    BY <1>4 DEF WriteKeys
  <2>2. Onward(c) = [w EXCEPT !.at = at', !.pc = "key"]
    <3> HIDE DEF c, w, open
    <3> QED BY <1>2, <1>4, <2>1
  <2>3. ASSUME NEW d, d = [w EXCEPT !.at = at', !.pc = "key"]
        PROVE  d = Place(filled, st)' /\ d.n = Len(out')
    <3> HIDE DEF w
    <3> QED BY <1>3, <2>1, <2>3 DEF Place, PlaceAt
  <2>4. Onward(c) = Place(filled, st)' /\ Onward(c).n = Len(out')
    <3> HIDE DEF c, w
    <3> QED BY <2>2, <2>3
  <2>5. "INSUFFICIENT_MEMORY" \notin {status, status'} => status = status'
    BY <2>1, StatusKept
  <2> HIDE DEF w, open
  <2> QED BY <2>4, <2>5 DEF Mirrors
<1>5. CASE Sym(open) # "{"
  <2>1. pc' = "complete"
    BY <1>5 DEF WriteKeys
  <2>2. Onward(c) = Stop(w)
    <3> HIDE DEF c, w, open
    <3> QED BY <1>2, <1>5
  <2>3. Onward(c).pc = "complete" /\ Onward(c).n = Len(out')
    <3> HIDE DEF w
    <3>1. ASSUME NEW d, d = Stop(w) PROVE d.pc = "complete" /\ d.n = Len(out')
      BY <1>3, <3>1 DEF Stop, Place, PlaceAt
    <3> HIDE DEF c
    <3> QED BY <2>2, <3>1
  <2> HIDE DEF w, open
  <2> QED BY <2>1, <2>3 DEF Mirrors
<1> QED BY <1>4, <1>5

\* What a call comes to is what it is at, or comes to from the next place.
LEMMA LeadsEnd ==
    ASSUME NEW c, c.pc = "complete", NEW d, Leads(c, d)
    PROVE  d = c
<1>1. Onward(c) = c
  BY DEF Onward
<1>2. \A e \in {c} : Onward(e) \in {c}
  BY <1>1
<1>3. d \in {c}
  BY <1>2 DEF Leads
<1> QED BY <1>3

LEMMA CountedMore ==
    ASSUME NEW m \in Nat, NEW n \in Nat, m <= n, Counted(m)
    PROVE  Counted(n)
<1>1. 0 .. m \subseteq 0 .. n
  OBVIOUS
<1> QED BY <1>1 DEF Counted

LEMMA LeadsKept ==
    ASSUME UNCHANGED <<kind, text, input>>
    PROVE  /\ \A d : Leads(Begun, d)' <=> Leads(Begun, d)
           /\ \A filled, st, p, d : p = Place(filled, st)' =>
                (Leads(Place(filled, st), d)' <=> Leads(p, d))
           /\ \A filled, st, p : p = Place(filled, st)' =>
                (Leads(Begun, Place(filled, st))' <=> Leads(Begun, p))
<1>1. Begun' = Begun /\ \A c : Onward(c)' = Onward(c)
  BY WayKept
<1>2. \A d : Leads(Begun, d)' <=> Leads(Begun, d)
  BY <1>1 DEF Leads
<1>3. ASSUME NEW filled, NEW st, NEW p, p = Place(filled, st)', NEW d
      PROVE  Leads(Place(filled, st), d)' <=> Leads(p, d)
  BY <1>1, <1>3 DEF Leads
<1>4. ASSUME NEW filled, NEW st, NEW p, p = Place(filled, st)'
      PROVE  Leads(Begun, Place(filled, st))' <=> Leads(Begun, p)
  BY <1>1, <1>4 DEF Leads
<1> QED BY <1>2, <1>3, <1>4

\* What is ahead is ahead of the next place too, but for what is counted there.
LEMMA AheadOn ==
    ASSUME ParseInv, NEW filled, NEW st, Ahead(filled, st),
           NEW n \in Nat, Len(out) <= n, NEW d, d = Onward(Place(filled, st))
    PROVE  \A e : Leads(Begun, e) => e.n \in 0 .. n \/ Leads(d, e)
<1> SUFFICES ASSUME NEW e, Leads(Begun, e) PROVE e.n \in 0 .. n \/ Leads(d, e)
  OBVIOUS
<1>1. Len(out) \in Nat /\ 0 .. Len(out) \subseteq 0 .. n
  BY StepFacts
<1>2. e.n \in 0 .. Len(out) \/ Leads(Place(filled, st), e)
  BY DEF Ahead
<1>3. ASSUME Leads(Place(filled, st), e) PROVE e.n \in 0 .. n \/ Leads(d, e)
  <2>1. e = Place(filled, st) \/ Leads(d, e)
    BY <1>3, LeadsOn
  <2>2. Place(filled, st).n = Len(out) /\ Len(out) \in 0 .. n
    BY <1>1 DEF Place, PlaceAt
  <2> QED BY <2>1, <2>2
<1> QED BY <1>1, <1>2, <1>3

\* Where the call with enough buffer ends, all is counted.
LEMMA EndCounts ==
    ASSUME NEW n \in Nat, NEW d, d.pc = "complete", d.n = n,
           \A e : Leads(Begun, e) => e.n \in 0 .. n \/ Leads(d, e)
    PROVE  Counted(n)
<1> SUFFICES ASSUME NEW e, Leads(Begun, e) PROVE e.n \in 0 .. n
  BY DEF Counted
<1>1. e.n \in 0 .. n \/ e = d
  BY LeadsEnd
<1> QED BY <1>1

\* The callback of the call with enough buffer.
LEMMA CallbackIs ==
    ASSUME NEW a, NEW k, NEW nm, NEW b, NEW p, NEW n, NEW filled, NEW st, NEW d,
           d = [pc |-> "callback", at |-> a, key |-> k, named |-> nm, begin |-> b,
                ptr |-> p, n |-> n, count |-> filled, status |-> st],
           NEW last, last = IF filled < input.capacity THEN filled + 1 ELSE filled
    PROVE  /\ last < input.capacity =>
                Onward(d) = [pc |-> "key", at |-> Skip(a, Quote), key |-> k, named |-> nm,
                             begin |-> b, ptr |-> p, n |-> n, count |-> last, status |-> st]
           /\ ~ (last < input.capacity) => Onward(d).pc = "complete"
           /\ Onward(d).n = n /\ d.n = n
<1>1. d.pc = "callback" /\ d.count = filled /\ d.at = a /\ d.n = n
  OBVIOUS
<1>2. Onward(d) = IF last < input.capacity
                  THEN [d EXCEPT !.count = last, !.at = Skip(a, Quote), !.pc = "key"]
                  ELSE Stop([d EXCEPT !.count = last])
  <2>1. Onward(d) = AfterCallback(d)
    BY <1>1 DEF Onward
  <2>2. [d EXCEPT !.count = last, !.at = Skip(@, Quote), !.pc = "key"]
          = [d EXCEPT !.count = last, !.at = Skip(a, Quote), !.pc = "key"]
    BY <1>1
  <2> QED BY <1>1, <2>1, <2>2 DEF AfterCallback
<1>3. CASE last < input.capacity
  <2>1. Onward(d) = [d EXCEPT !.count = last, !.at = Skip(a, Quote), !.pc = "key"]
    BY <1>2, <1>3
  <2> QED BY <1>1, <1>3, <2>1
<1>4. CASE ~ (last < input.capacity)
  <2>1. Onward(d) = Stop([d EXCEPT !.count = last])
    BY <1>2, <1>4
  <2> QED BY <1>1, <1>4, <2>1 DEF Stop
<1> QED BY <1>3, <1>4

\* The next place of a call that explores.
LEMMA AheadOfNext ==
    ASSUME ParseInv, UNCHANGED call, UNCHANGED <<input, headers>>,
           Len(out') \in Nat, Len(out) <= Len(out'), Len(headers) \in Nat,
           input.capacity \in Nat,
           NEW filled \in Nat, NEW st \in Statuses, Len(headers) <= filled,
           Ahead(filled, st), Mirrors(filled, st)
    PROVE  \/ Counted(Len(out'))
           \/ pc' = "complete" /\ status' = "INVALID_INPUT"
           \/ \E f \in Nat, t \in Statuses :
                Len(headers) <= f /\ Ahead(f, t)'
<1> DEFINE d == Onward(Place(filled, st))
           n == Len(out')
<1>0. UNCHANGED <<kind, text, input>>
  BY DEF call
<1>1. \A e : Leads(Begun, e) => e.n \in 0 .. n \/ Leads(d, e)
  BY AheadOn
<1>2. d.n = n
  BY DEF Mirrors
<1>3. CASE d.pc = "complete"
  <2> HIDE DEF d, n
  <2>1. Counted(n)
    BY <1>1, <1>2, <1>3, EndCounts DEF n
  <2> QED BY <2>1 DEF n
<1>4. ASSUME NEW t \in Statuses, d = Place(filled, t)'
      PROVE  Ahead(filled, t)'
  <2>1. \A e : Leads(Begun, e)' => e.n \in 0 .. n \/ Leads(Place(filled, t), e)'
    <3> HIDE DEF d, n
    <3> QED BY <1>0, <1>1, <1>4, LeadsKept
  <2> QED BY <2>1 DEF Ahead
<1>5. ASSUME pc' = "key", NEW t \in Statuses, NEW end, at' = Skip(end, Quote),
             d = PlaceAt("callback", end, Len(out), filled, t)'
      PROVE  \/ Counted(n)
             \/ \E f \in Nat : Len(headers) <= f /\ Ahead(f, t)'
  <2>1. PICK f \in Nat : f = IF filled < input.capacity THEN filled + 1 ELSE filled
    OBVIOUS
  <2>2. Len(headers) <= f
    BY <2>1
  <2>3. d = [pc |-> "callback", at |-> end, key |-> key', named |-> named', begin |-> begin',
             ptr |-> ptr', n |-> n, count |-> filled, status |-> t]
    BY <1>5 DEF PlaceAt
  <2> HIDE DEF d
  <2>4. /\ f < input.capacity =>
             Onward(d) = [pc |-> "key", at |-> Skip(end, Quote), key |-> key',
                          named |-> named', begin |-> begin', ptr |-> ptr', n |-> n,
                          count |-> f, status |-> t]
        /\ ~ (f < input.capacity) => Onward(d).pc = "complete"
        /\ Onward(d).n = n
    <3> HIDE DEF n
    <3> QED BY <2>1, <2>3, CallbackIs
  <2>5. \A e : Leads(Begun, e) => e.n \in 0 .. n \/ Leads(Onward(d), e)
    <3>1. d.n \in 0 .. n
      BY <1>2
    <3> HIDE DEF n
    <3> QED BY <1>1, <3>1, LeadsOn
  <2>6. CASE f < input.capacity
    <3>1. Onward(d) = Place(f, t)'
      BY <1>5, <2>4, <2>6 DEF Place, PlaceAt
    <3>2. \A e : Leads(Begun, e)' => e.n \in 0 .. n \/ Leads(Place(f, t), e)'
      <4> HIDE DEF n
      <4> QED BY <1>0, <2>5, <3>1, LeadsKept
    <3>3. Ahead(f, t)'
      BY <3>2 DEF Ahead
    <3> QED BY <2>2, <3>3
  <2>7. CASE ~ (f < input.capacity)
    <3>1. n \in Nat
      OBVIOUS
    <3> HIDE DEF n
    <3> QED BY <2>4, <2>5, <2>7, <3>1, EndCounts
  <2> QED BY <2>6, <2>7
<1>6. \/ d.pc = "complete"
      \/ pc' = "complete" /\ status' = "INVALID_INPUT"
      \/ \E t \in Statuses : d = Place(filled, t)'
      \/ /\ pc' = "key"
         /\ \E t \in Statuses : \E end :
              at' = Skip(end, Quote) /\ d = PlaceAt("callback", end, Len(out), filled, t)'
  BY DEF Mirrors
<1> HIDE DEF d
<1> QED BY <1>3, <1>4, <1>5, <1>6

\* A step that reads or writes the text keeps it.
LEMMA NextKeepsFew ==
    ASSUME ParseInv, RetryInv, FewInv, kind # "sua",
           UNCHANGED call, UNCHANGED <<input, headers, calls>>,
           Len(out') \in Nat, Len(out) <= Len(out'), Len(headers) \in Nat,
           input.capacity \in Nat, Shorts(status'),
           pc \notin {"complete", "returned"}, pc' # "returned",
           \A filled \in Nat, st \in Statuses : Mirrors(filled, st)
    PROVE  FewInv'
<1>0. /\ UNCHANGED <<kind, text, input>> /\ kind' = kind /\ Room' = Room /\ Decoded' = Decoded
      /\ Room \in Nat /\ Len(out) \in Nat /\ status \in Statuses
  BY CallKept, StepFacts DEF call, ParseInv, TypeInv
<1>1. CASE Exploring
  <2>1. \/ Counted(Len(out'))
        \/ pc' = "complete" /\ status' = "INVALID_INPUT"
        \/ \E f \in Nat, t \in Statuses : Len(headers) <= f /\ Ahead(f, t)'
    <3>1. CASE Counted(Len(out))
      BY <1>0, <3>1, CountedMore
    <3>2. CASE \E filled \in Nat, st \in Statuses :
                 Len(headers) <= filled /\ Ahead(filled, st)
      BY <3>2, AheadOfNext
    <3> QED BY <1>1, <3>1, <3>2 DEF Exploring
  <2>2. ASSUME NEW n, n = Len(out'), Counted(n) PROVE Counted(Len(out))'
    BY <1>0, <2>2, WayKept DEF Counted
  <2>3. calls' = 1 \/ (calls' = 2 /\ kind' = "base64" /\ Decoded' <= Room')
    BY <1>0, <1>1 DEF Exploring
  <2>4. CASE Counted(Len(out'))
    <3>1. Counted(Len(out))'
      BY <2>2, <2>4
    <3>2. Exploring'
      BY <2>3, <3>1 DEF Exploring
    <3> QED BY <3>2 DEF FewInv
  <2>5. CASE pc' = "complete" /\ status' = "INVALID_INPUT"
    <3>1. Exploring'
      BY <2>3, <2>5 DEF Exploring
    <3> QED BY <3>1 DEF FewInv
  <2>6. CASE ~ Counted(Len(out')) /\ ~ (pc' = "complete" /\ status' = "INVALID_INPUT")
    <3>1. PICK f \in Nat : \E t \in Statuses : Len(headers') <= f /\ Ahead(f, t)'
      BY <2>1, <2>6
    <3>2. CASE pc' # "complete"
      <4>1. Exploring'
        BY <2>3, <3>1, <3>2 DEF Exploring
      <4> QED BY <4>1 DEF FewInv
    <3>3. CASE pc' = "complete"
      <4>1. PICK t \in Statuses : Ahead(f, t)'
        BY <3>1
      <4>2. PICK p : p = Place(f, t)'
        OBVIOUS
      <4>3. p.pc = "complete" /\ p.n = Len(out')
        BY <3>3, <4>2 DEF Place, PlaceAt
      <4>4. \A e : Leads(Begun, e) => e.n \in 0 .. Len(out') \/ Leads(p, e)
        BY <1>0, <4>1, <4>2, LeadsKept DEF Ahead
      <4>5. Counted(Len(out'))
        BY <4>3, <4>4, EndCounts
      <4> QED BY <2>6, <4>5
    <3> QED BY <3>2, <3>3
  <2> QED BY <2>4, <2>5, <2>6
<1>2. CASE Settled
  <2> DEFINE filled == Len(headers)
             d == Onward(Place(filled, status))
  <2>1. Leads(Begun, Place(filled, status)) /\ Counted(Room) /\ status # "INSUFFICIENT_MEMORY"
    BY <1>2 DEF Settled
  <2>2. Len(out) <= Room
    <3>1. Place(filled, status).n = Len(out)
      BY DEF Place, PlaceAt
    <3>2. Len(out) \in 0 .. Room
      BY <2>1, <3>1 DEF Counted
    <3> QED BY <1>0, <3>2
  <2>3. Leads(Begun, d)
    BY <2>1, LeadsOn
  <2>4. d.n = Len(out')
    BY <1>0 DEF Mirrors
  <2>5. Len(out') <= Room
    <3>1. Len(out') \in 0 .. Room
      BY <2>1, <2>3, <2>4 DEF Counted
    <3> QED BY <1>0, <3>1
  <2>6. status' # "INSUFFICIENT_MEMORY"
    BY <1>0, <2>1, <2>5 DEF Shorts
  <2>7. pc' = "complete" \/ d = Place(filled, status)'
    <3>1. Mirrors(filled, status)
      BY <1>0
    <3> QED BY <2>1, <2>2, <2>6, <3>1 DEF Mirrors
  <2>8. Counted(Room)'
    <3>1. \A m : m = Room => (Counted(Room)' <=> Counted(m))
      BY <1>0, WayKept DEF Counted
    <3> QED BY <2>1, <3>1
  <2>9. pc' # "complete" => Leads(Begun, Place(Len(headers), status))'
    <3> HAVE pc' # "complete"
    <3>1. d = Place(filled, status)'
      BY <2>7
    <3>2. Begun' = Begun /\ \A c : Onward(c)' = Onward(c)
      BY <1>0, WayKept
    <3> HIDE DEF d
    <3>3. d = Place(Len(headers), status)'
      BY <3>1 DEF Place, PlaceAt
    <3>4. Leads(Begun, Place(Len(headers), status))'
      BY <2>3, <3>2, <3>3 DEF Leads
    <3> QED BY <3>4
  <2>10. Settled'
    BY <1>0, <1>2, <2>6, <2>8, <2>9 DEF Settled
  <2> QED BY <2>10 DEF FewInv
<1> QED BY <1>1, <1>2 DEF FewInv

LEMMA ReadsKeepFew ==
    ASSUME ParseInv, RetryInv, FewInv, kind # "sua", Reads \/ WriteKeys,
           UNCHANGED <<input, headers, calls>>, Len(headers) \in Nat, input.capacity \in Nat
    PROVE  FewInv'
<1>1. ParseInv' /\ Moves
  <2>1. Parse
    BY DEF Reads, Parse
  <2> QED BY <2>1, ParseKeeps
<1>2. UNCHANGED call /\ Len(out) <= Len(out') /\ Len(out') \in Nat
  <2>1. out' \in Seq(Symbol)
    BY <1>1 DEF ParseInv, TypeInv
  <2>2. Len(out') \in Nat
    <3> HIDE DEF Symbol
    <3> QED BY <2>1
  <2> QED BY <1>1, <2>2 DEF Moves, Grows
<1>3. /\ pc \notin {"complete", "returned"} /\ pc' # "returned" /\ Shorts(status')
      /\ \A filled \in Nat, st \in Statuses : Mirrors(filled, st)
  <2>1. CASE Reads
    <3>1. Advances /\ pc \in Reading \cup {"key"} /\ pc' # "returned"
      BY <2>1, ReadingAdvances
    <3>2. \A filled \in Nat, st \in Statuses : Mirrors(filled, st)
      BY <2>1, ReadingMirrors
    <3> QED BY <3>1, <3>2 DEF Advances, Reading, Brands
  <2>2. CASE WriteKeys
    <3>1. pc = "keys" /\ pc' \in {"key", "complete"} /\ Shorts(status')
      BY <2>2, WriteKeysAdvances
    <3>2. \A filled \in Nat, st \in Statuses : Mirrors(filled, st)
      BY <2>2, WriteKeysMirrors
    <3> QED BY <3>1, <3>2
  <2> QED BY <2>1, <2>2
<1> QED BY <1>2, <1>3, NextKeepsFew

\* A call that returns keeps what was counted.
LEMMA DecodeKeepsFew ==
    ASSUME ParseInv, RetryInv, FewInv, kind # "sua", Decode,
           UNCHANGED <<input, headers, calls>>, Len(headers) \in Nat, input.capacity \in Nat
    PROVE  FewInv'
<1>1. /\ pc = "decode" /\ pc' \in {"keys", "returned"} /\ kind = "base64"
      /\ Len(out') = Decoded /\ Shorts(status') /\ UNCHANGED call
  BY DecodeAdvances
<1>2. /\ Len(out) = 0 /\ Decoded \in Nat /\ Room \in Nat /\ kind' = kind
      /\ Room' = Room /\ Decoded' = Decoded /\ UNCHANGED <<kind, text, input>>
  <2>1. Len(out) = 0 /\ Decoded \in Nat /\ Room \in Nat
    BY <1>1, StepFacts
  <2> QED BY <1>1, <2>1, CallKept DEF call
<1>3. CASE pc' = "keys"
  <2>1. \A filled \in Nat, st \in Statuses : Mirrors(filled, st)
    BY <1>3, DecodeMirrors
  <2>2. pc \notin {"complete", "returned"} /\ pc' # "returned" /\ Len(out') \in Nat
        /\ Len(out) <= Len(out')
    BY <1>1, <1>2, <1>3
  <2> QED BY <1>1, <2>1, <2>2, NextKeepsFew
<1>4. CASE pc' = "returned"
  <2>1. status # "INSUFFICIENT_MEMORY"
    BY <1>2 DEF RetryInv
  <2>2. status' = "INSUFFICIENT_MEMORY" => ~ (Decoded <= Room)
    BY <1>1, <1>2, <2>1 DEF Shorts
  <2>3. CASE Exploring
    <3>1. calls = 1 \/ (calls = 2 /\ kind = "base64" /\ Decoded <= Room)
      BY <2>3 DEF Exploring
    <3>2. Exploring'
      BY <1>1, <1>2, <1>4, <2>2, <3>1 DEF Exploring
    <3> QED BY <3>2 DEF FewInv
  <2>4. CASE Settled
    <3>1. Leads(Begun, Place(Len(headers), status)) /\ Counted(Room)
      BY <1>1, <2>4 DEF Settled
    <3>2. PICK d : d = Onward(Place(Len(headers), status))
      OBVIOUS
    <3>3. d.n = Decoded
      BY <1>1, <3>2 DEF Onward, Place, PlaceAt
    <3>4. Decoded \in 0 .. Room
      BY <3>1, <3>2, <3>3, LeadsOn DEF Counted
    <3>5. status' # "INSUFFICIENT_MEMORY"
      BY <1>2, <2>2, <3>4
    <3>6. Counted(Room)'
      <4>1. \A m : m = Room => (Counted(Room)' <=> Counted(m))
        BY <1>2, WayKept DEF Counted
      <4> QED BY <3>1, <4>1
    <3>7. Settled'
      BY <1>2, <1>4, <2>4, <3>5, <3>6 DEF Settled
    <3> QED BY <3>7 DEF FewInv
  <2> QED BY <2>3, <2>4 DEF FewInv
<1> QED BY <1>1, <1>3, <1>4

LEMMA ReturnKeepsFew ==
    ASSUME ParseInv, FewInv, kind # "sua", Complete \/ DecodeBroken,
           UNCHANGED <<input, headers, calls>>
    PROVE  FewInv'
<1>1. /\ UNCHANGED call /\ pc' = "returned"
      /\ status' = "INVALID_INPUT" \/ (Complete /\ pc = "complete" /\ status' = status)
  BY DEF Complete, DecodeBroken
<1>2. /\ kind' = kind /\ Room' = Room /\ Decoded' = Decoded /\ UNCHANGED <<kind, text, input>>
  BY <1>1, CallKept DEF call
<1>3. CASE Settled
  <2>1. Counted(Room)'
    <3>1. \A m : m = Room => (Counted(Room)' <=> Counted(m))
      BY <1>2, WayKept DEF Counted
    <3> QED BY <1>3, <3>1 DEF Settled
  <2>2. Settled'
    BY <1>1, <1>2, <1>3, <2>1 DEF Settled
  <2> QED BY <2>2 DEF FewInv
<1>4. CASE Exploring
  <2>1. status' = "INSUFFICIENT_MEMORY" =>
          (Len(out) # 0 /\ Counted(Len(out) - 1))'
    <3> HAVE status' = "INSUFFICIENT_MEMORY"
    <3>1. Complete /\ Counted(Len(out))
      BY <1>1, <1>4 DEF Exploring
    <3>2. out' = Append(out, NUL) /\ out \in Seq(Symbol) /\ NUL \in Symbol
      BY <3>1, StepFacts DEF Complete, Symbol
    <3>3. Len(out') = Len(out) + 1 /\ Len(out) \in Nat
      <4> HIDE DEF Symbol
      <4> QED BY <3>2, AppendProperties
    <3>4. Len(out') - 1 = Len(out) /\ Len(out') # 0
      BY <3>3
    <3>5. \A m : m = Len(out') - 1 => (Counted(Len(out) - 1)' <=> Counted(m))
      BY <1>2, WayKept DEF Counted
    <3> QED BY <3>1, <3>4, <3>5
  <2>2. Exploring'
    BY <1>1, <1>2, <1>4, <2>1 DEF Exploring
  <2> QED BY <2>2 DEF FewInv
<1> QED BY <1>3, <1>4 DEF FewInv

LEMMA PushKeepsFew ==
    ASSUME ParseInv, FewInv, kind # "sua", PushToHeaders, calls' = calls,
           Len(headers) \in Nat, Len(headers) <= input.capacity, input.capacity \in Nat,
           Len(headers') = IF Len(headers) < input.capacity THEN Len(headers) + 1
                           ELSE Len(headers)
    PROVE  FewInv'
<1>1. /\ pc = "callback" /\ UNCHANGED <<call, out, status, input>> /\ UNCHANGED call
      /\ pc' = IF Len(headers') < input.capacity THEN "key" ELSE "complete"
      /\ pc' = "key" => at' = Skip(at, Quote) /\ key' = key
      /\ UNCHANGED <<begin, ptr, named>>
  BY DEF PushToHeaders, Resume, IsPlatform
<1>2. /\ UNCHANGED <<kind, text, input>> /\ kind' = kind /\ Room' = Room /\ Decoded' = Decoded
      /\ Len(out) \in Nat /\ out' = out /\ status' = status
  BY <1>1, CallKept, StepFacts DEF call
\* The call with enough buffer.
<1>3. ASSUME NEW filled \in Nat, Len(headers) <= filled, NEW st, NEW d,
             d = Onward(Place(filled, st))
      PROVE  /\ d.n = Len(out)
             /\ \/ d.pc = "complete"
                \/ \E f \in Nat : /\ Len(headers') <= f /\ d = Place(f, st)'
                                  /\ filled = Len(headers) => f = Len(headers')
             /\ filled = Len(headers) => pc' = "complete" \/ d = Place(Len(headers), st)'
  <2>1. PICK f \in Nat : f = IF filled < input.capacity THEN filled + 1 ELSE filled
    OBVIOUS
  <2>2. /\ Len(headers') <= f /\ (filled = Len(headers) => f = Len(headers'))
        /\ f < input.capacity => Len(headers') < input.capacity
    BY <1>3, <2>1
  <2>3. Place(filled, st) = [pc |-> "callback", at |-> at, key |-> key, named |-> named,
                             begin |-> begin, ptr |-> ptr, n |-> Len(out), count |-> filled,
                             status |-> st]
    BY <1>1 DEF Place, PlaceAt
  <2>4. /\ f < input.capacity =>
             d = [pc |-> "key", at |-> Skip(at, Quote), key |-> key, named |-> named,
                  begin |-> begin, ptr |-> ptr, n |-> Len(out), count |-> f, status |-> st]
        /\ ~ (f < input.capacity) => d.pc = "complete"
        /\ d.n = Len(out)
    BY <1>3, <2>1, <2>3, CallbackIs
  <2>5. f < input.capacity => d = Place(f, st)' /\ pc' = "key"
    BY <1>1, <1>2, <2>2, <2>4 DEF Place, PlaceAt
  <2>6. ASSUME filled = Len(headers), pc' # "complete" PROVE d = Place(Len(headers), st)'
    <3>1. f = Len(headers') /\ f < input.capacity
      BY <1>1, <2>2, <2>6
    <3>2. d = Place(f, st)'
      BY <2>5, <3>1
    <3> QED BY <3>1, <3>2 DEF Place, PlaceAt
  <2> QED BY <2>2, <2>4, <2>5, <2>6
<1>4. CASE Exploring
  <2>1. calls' = 1 \/ (calls' = 2 /\ kind' = "base64" /\ Decoded' <= Room')
    BY <1>2, <1>4 DEF Exploring
  <2>2. ASSUME Counted(Len(out)) PROVE Counted(Len(out))'
    BY <1>2, <2>2, WayKept DEF Counted
  <2>3. CASE Counted(Len(out))
    <3>1. Exploring'
      BY <1>1, <2>1, <2>2, <2>3 DEF Exploring
    <3> QED BY <3>1 DEF FewInv
  <2>4. CASE ~ Counted(Len(out))
    <3>1. PICK filled \in Nat : \E st \in Statuses :
                 Len(headers) <= filled /\ Ahead(filled, st)
      BY <1>1, <1>4, <2>4 DEF Exploring
    <3>2. PICK st \in Statuses : Ahead(filled, st)
      BY <3>1
    <3>3. PICK d : d = Onward(Place(filled, st))
      OBVIOUS
    <3>4. \A e : Leads(Begun, e) => e.n \in 0 .. Len(out) \/ Leads(d, e)
      BY <1>2, <3>2, <3>3, AheadOn
    <3>5. d.pc # "complete"
      <4>1. d.n = Len(out)
        BY <1>3, <3>1, <3>3
      <4> QED BY <1>2, <2>4, <3>4, <4>1, EndCounts
    <3>6. PICK f \in Nat : Len(headers') <= f /\ d = Place(f, st)'
      BY <1>3, <3>1, <3>3, <3>5
    <3>7. \A e : Leads(Begun, e)' => e.n \in 0 .. Len(out)' \/ Leads(Place(f, st), e)'
      BY <1>2, <3>4, <3>6, LeadsKept
    <3>8. Ahead(f, st)'
      BY <3>7 DEF Ahead
    <3>9. pc' = "key"
      <4>1. d.pc = pc'
        BY <3>6 DEF Place, PlaceAt
      <4> QED BY <1>1, <3>5, <4>1
    <3>10. Exploring'
      BY <2>1, <3>6, <3>8, <3>9 DEF Exploring
    <3> QED BY <3>10 DEF FewInv
  <2> QED BY <2>3, <2>4
<1>5. CASE Settled
  <2>1. Leads(Begun, Place(Len(headers), status)) /\ Counted(Room)
    BY <1>1, <1>5 DEF Settled
  <2>2. PICK d : d = Onward(Place(Len(headers), status))
    OBVIOUS
  <2>3. Leads(Begun, d)
    BY <2>1, <2>2, LeadsOn
  <2>4. pc' # "complete" => d = Place(Len(headers), status)'
    <3> HAVE pc' # "complete"
    <3>1. \A st : st = status => d = Place(Len(headers), st)'
      BY <1>3, <2>2
    <3> QED BY <1>2, <3>1 DEF Place, PlaceAt
  <2>5. pc' # "complete" => Leads(Begun, Place(Len(headers), status))'
    BY <1>2, <2>3, <2>4, WayKept DEF Leads
  <2>6. Counted(Room)'
    <3>1. \A m : m = Room => (Counted(Room)' <=> Counted(m))
      BY <1>2, WayKept DEF Counted
    <3> QED BY <2>1, <3>1
  <2>7. Settled'
    BY <1>1, <1>2, <1>5, <2>5, <2>6 DEF Settled
  <2> QED BY <2>7 DEF FewInv
<1> QED BY <1>4, <1>5 DEF FewInv

\* A new call starts where every call does.
Starts ==
    /\ at = 1 /\ key = Undefined /\ named = FALSE /\ begin = 0 /\ ptr = 0 /\ out = <<>>
    /\ pc = IF kind \in {"base64", "broken64"} THEN "decode" ELSE "keys"
    /\ headers = <<>> /\ status = "NOT_SET"

LEMMA StartsAre ==
    Starts => /\ Place(Len(headers), status) = Begun /\ Ahead(0, "NOT_SET")
              /\ pc \notin {"complete", "returned"} /\ Len(headers) = 0
<1> SUFFICES ASSUME Starts
             PROVE  /\ Place(Len(headers), status) = Begun /\ Ahead(0, "NOT_SET")
                    /\ pc \notin {"complete", "returned"} /\ Len(headers) = 0
  OBVIOUS
<1>1. Place(0, "NOT_SET") = Begun /\ Len(headers) = 0
  BY DEF Place, PlaceAt, Begun, Starts
<1>2. Ahead(0, "NOT_SET")
  BY <1>1 DEF Ahead
<1> QED BY <1>1, <1>2 DEF Starts

LEMMA StartsWillBe ==
    Starts' => (/\ Place(Len(headers), status) = Begun /\ Ahead(0, "NOT_SET")
                /\ pc \notin {"complete", "returned"} /\ Len(headers) = 0)'
BY StartsAre, PTL

LEMMA CallAgainKeepsFew ==
    ASSUME ParseInv, FewInv, kind # "sua", CallAgain,
           input.byTwo \in BOOLEAN, kind = "base64" => input.byTwo
    PROVE  FewInv'
<1>1. /\ pc = "returned" /\ status = "INSUFFICIENT_MEMORY"
      /\ kind' = kind /\ text' = text /\ length' = Larger /\ input' = input
      /\ UNCHANGED <<kind, text, input>>
  BY DEF CallAgain, Start, Exception
<1>2. Starts'
  BY DEF CallAgain, Start, Starts
<1>3. /\ Place(Len(headers), status)' = Begun' /\ Ahead(0, "NOT_SET")'
      /\ pc' \notin {"complete", "returned"} /\ Len(headers') = 0 /\ status' = "NOT_SET"
  BY <1>2, StartsWillBe DEF Starts
<1>4. Exploring
  BY <1>1 DEF FewInv, Settled
<1>5. calls' = calls + 1 /\ calls \in {1, 2}
  BY <1>4 DEF Exploring, CallAgain, MaxCalls
<1>6. Decoded' = Decoded /\ Decoded \in Nat /\ Len(out) \in Nat /\ length \in Nat
  BY <1>1, StepFacts DEF Decoded, DecodedLength
<1>7. /\ Larger \in Nat /\ Larger >= Len(out)
      /\ kind = "base64" => Larger >= Len(out) + 1
  BY <1>6 DEF Larger
<1>8. Room' = IF Larger = 0 THEN 0 ELSE Larger - 1
  BY <1>1 DEF Room
<1>9. CASE Len(out) # 0 /\ Counted(Len(out) - 1)
  <2>1. Room' \in Nat /\ Len(out) - 1 \in Nat /\ Len(out) - 1 <= Room'
    BY <1>6, <1>7, <1>8, <1>9
  <2>2. \A m : m = Room' => Counted(m)
    BY <1>9, <2>1, CountedMore
  <2>3. Counted(Room)'
    <3>1. \A m : m = Room' => (Counted(Room)' <=> Counted(m))
      BY <1>1, WayKept DEF Counted
    <3> QED BY <2>2, <3>1
  <2>4. Leads(Begun, Place(Len(headers), status))'
    BY <1>3 DEF Leads
  <2>5. calls' = 2 \/ (calls' = 3 /\ kind' = "base64")
    BY <1>1, <1>4, <1>5 DEF Exploring
  <2>6. Settled'
    BY <1>3, <2>3, <2>4, <2>5 DEF Settled
  <2> QED BY <2>6 DEF FewInv
<1>10. CASE calls = 1 /\ kind = "base64" /\ Len(out) = Decoded
  <2>1. Decoded' <= Room'
    BY <1>6, <1>7, <1>8, <1>10
  <2>2. Len(headers') <= 0
    BY <1>3
  <2>3. \E filled \in Nat, st \in Statuses : Len(headers') <= filled /\ Ahead(filled, st)'
    BY <1>3, <2>2 DEF Statuses
  <2>4. Exploring'
    BY <1>1, <1>3, <1>5, <1>10, <2>1, <2>3 DEF Exploring
  <2> QED BY <2>4 DEF FewInv
<1> QED BY <1>1, <1>4, <1>9, <1>10 DEF Exploring

LEMMA FewInvInductive ==
    ASSUME \A i \in Inputs : i.kind = "base64" => i.byTwo
    PROVE  ArraySpec => []FewInv
<1>1. ArrayInit => FewInv
  <2> SUFFICES ASSUME ArrayInit PROVE FewInv
    OBVIOUS
  <2>1. Starts /\ calls = 1
    BY DEF ArrayInit, Starts
  <2>2. Exploring
    <3>1. Len(headers) <= 0 /\ Ahead(0, "NOT_SET") /\ pc \notin {"complete", "returned"}
      BY <2>1, StartsAre
    <3>2. \E filled \in Nat, st \in Statuses : Len(headers) <= filled /\ Ahead(filled, st)
      BY <3>1 DEF Statuses
    <3> QED BY <2>1, <3>1, <3>2 DEF Exploring
  <2> QED BY <2>2 DEF FewInv
<1>2. ArrayIInv /\ RetryInv /\ FewInv /\ [ArrayNext]_arrayVars => FewInv'
  <2> SUFFICES ASSUME ArrayIInv, RetryInv, FewInv, [ArrayNext]_arrayVars, kind' # "sua"
               PROVE  FewInv'
    BY DEF FewInv
  <2>1. /\ ParseInv /\ input \in Inputs /\ kind = input.kind
        /\ input.capacity \in Nat /\ input.byTwo \in BOOLEAN
        /\ kind = "base64" => input.byTwo
    BY InputsAssumption DEF ArrayIInv, RetryInv
  <2>2. /\ headers \in Seq([key : HeaderSet, value : Regions]) /\ Len(headers) \in Nat
        /\ Len(headers) <= input.capacity
    <3>1. /\ headers \in Seq([key : HeaderSet, value : Regions])
          /\ Len(headers) <= input.capacity
      BY DEF ArrayIInv, ArrayInv
    <3> HIDE DEF HeaderSet, Regions
    <3> QED BY <3>1
  <2>3. CASE Parsing
    <3>1. Parse /\ UNCHANGED <<input, headers, calls>>
      BY <2>3 DEF Parsing
    <3>2. kind # "sua"
      BY <2>1, <3>1, ParseKeeps DEF Moves, Grows, call
    <3> QED BY <2>1, <2>2, <3>1, <3>2, ReadsKeepFew, DecodeKeepsFew, ReturnKeepsFew
            DEF Parse, Reads
  <2>4. CASE PushToHeaders
    <3>1. kind # "sua" /\ calls' = calls /\ pc = "callback"
      BY <2>4 DEF PushToHeaders, Resume, call
    <3>2. Len(headers') = IF Len(headers) < input.capacity THEN Len(headers) + 1
                          ELSE Len(headers)
      <4>1. headers' = IF Len(headers) < input.capacity THEN Append(headers, Pair)
                       ELSE headers
        BY <2>4 DEF PushToHeaders
      <4> HIDE DEF HeaderSet, Regions, Pair
      <4> QED BY <2>2, <4>1
    <3> QED BY <2>1, <2>2, <2>4, <3>1, <3>2, PushKeepsFew
  <2>5. CASE CallAgain
    <3>1. kind # "sua"
      BY <2>5 DEF CallAgain, Start
    <3> QED BY <2>1, <2>5, <3>1, CallAgainKeepsFew
  <2>6. CASE UNCHANGED arrayVars
    <3>1. /\ UNCHANGED call /\ UNCHANGED <<kind, text, input>>
          /\ UNCHANGED <<at, out, status, key, begin, ptr, named, pc, headers, calls>>
      BY <2>6 DEF arrayVars, parse, call
    <3>2. /\ Room' = Room /\ Decoded' = Decoded /\ Begun' = Begun
          /\ \A c : Onward(c)' = Onward(c)
      BY <3>1, CallKept, WayKept DEF Decoded
    <3>3. \A f, t : Place(f, t)' = Place(f, t)
      BY <3>1 DEF Place, PlaceAt
    <3>4. \A f, t : Ahead(f, t)' <=> Ahead(f, t)
      BY <3>1, <3>2, <3>3 DEF Ahead, Leads
    <3>5. /\ Counted(Room)' <=> Counted(Room)
          /\ Counted(Len(out))' <=> Counted(Len(out))
          /\ Counted(Len(out) - 1)' <=> Counted(Len(out) - 1)
          /\ Leads(Begun, Place(Len(headers), status))' <=>
               Leads(Begun, Place(Len(headers), status))
      BY <3>1, <3>2, <3>3 DEF Counted, Leads, Place, PlaceAt
    <3>6. Exploring => Exploring'
      BY <3>1, <3>2, <3>4, <3>5 DEF Exploring
    <3>7. Settled => Settled'
      BY <3>1, <3>2, <3>5 DEF Settled
    <3> QED BY <3>1, <3>6, <3>7 DEF FewInv
  <2> QED BY <2>3, <2>4, <2>5, <2>6 DEF ArrayNext
<1> QED BY <1>1, <1>2, ArrayInvInductive, RetryInvInductive, PTL DEF ArraySpec

(* The count of what would have been written is good enough even of a call  *)
(* that ran out of buffer, for every text: the second call of the functions *)
(* for a document and the third of those for base64 has all the buffer that *)
(* it takes. device.sua is left out: one of its calls may count less than   *)
(* the next one takes. The caller of the base64 function doubles its        *)
(* buffer, as the wrapper does.                                             *)
THEOREM FewCallsSuffice ==
    ASSUME \A i \in Inputs : i.kind = "base64" => i.byTwo
    PROVE  ArraySpec => [](kind # "sua" => RetriesAreFew)
<1>1. FewInv => (kind # "sua" => RetriesAreFew)
  BY DEF FewInv, Exploring, Settled, RetriesAreFew
<1> QED BY <1>1, FewInvInductive, PTL

-----------------------------------------------------------------------------
(* Recursions that go on from what came before.                              *)

LEMMA Upwards ==
    ASSUME NEW last \in Nat, NEW G, 0 \in G, \A n \in 1 .. last : n - 1 \in G => n \in G
    PROVE  \A n \in 0 .. last : n \in G
<1> DEFINE Bad == {n \in 0 .. last : n \notin G}
<1>1. ASSUME NEW i \in 0 .. last, i \notin G PROVE FALSE
  <2>1. Bad \in SUBSET Nat /\ Bad # {}
    BY <1>1
  <2>2. PICK n \in Bad : \A m \in Bad : n <= m
    <3> HIDE DEF Bad
    <3> QED BY <2>1, LeastExists
  <2>3. n \in 1 .. last /\ n \notin G
    BY <2>2
  <2>4. n - 1 \notin Bad
    <3>1. ~ (n <= n - 1)
      BY <2>3
    <3> HIDE DEF Bad
    <3> QED BY <2>2, <3>1
  <2> QED BY <2>3, <2>4
<1> QED BY <1>1

\* f starts with a, and goes on from what came before.
Runs(f, a, next, last) ==
    f = [n \in 0 .. last |-> IF n = 0 THEN a ELSE next[n][f[n - 1]]]

LEMMA RunExists ==
    ASSUME NEW last \in Nat, NEW S, NEW a \in S, NEW next \in [1 .. last -> [S -> S]]
    PROVE  \E f \in [0 .. last -> S] : Runs(f, a, next, last)
<1> DEFINE Is(n, f) == f[0] = a /\ \A i \in 1 .. n : f[i] = next[i][f[i - 1]]
           G == {n \in 0 .. last : \E f \in [0 .. n -> S] : Is(n, f)}
<1>1. 0 \in G
  <2>1. [i \in 0 .. 0 |-> a] \in [0 .. 0 -> S]
    OBVIOUS
  <2>2. Is(0, [i \in 0 .. 0 |-> a])
    OBVIOUS
  <2> HIDE DEF Is
  <2> QED BY <2>1, <2>2
<1>2. ASSUME NEW n \in 1 .. last, n - 1 \in G PROVE n \in G
  <2>1. PICK g \in [0 .. n - 1 -> S] : Is(n - 1, g)
    BY <1>2
  <2> DEFINE f == [i \in 0 .. n |-> IF i <= n - 1 THEN g[i] ELSE next[n][g[n - 1]]]
  <2>2. n - 1 \in 0 .. n - 1 /\ next[n] \in [S -> S]
    OBVIOUS
  <2>3. next[n][g[n - 1]] \in S
    BY <2>2
  <2>4. f \in [0 .. n -> S]
    BY <2>3
  <2>5. ASSUME NEW i \in 1 .. n PROVE f[i] = next[i][f[i - 1]]
    <3>1. i - 1 \in 0 .. n /\ i \in 0 .. n /\ i - 1 <= n - 1
      OBVIOUS
    <3>2. f[i - 1] = g[i - 1]
      BY <3>1
    <3>3. CASE i = n
      <4>1. f[i] = next[n][g[n - 1]]
        BY <3>1, <3>3
      <4> QED BY <3>2, <3>3, <4>1
    <3>4. CASE i # n
      <4>1. i <= n - 1 /\ i \in 1 .. n - 1
        BY <3>4
      <4>2. f[i] = g[i]
        BY <3>1, <4>1
      <4> QED BY <2>1, <3>2, <4>1, <4>2
    <3> QED BY <3>3, <3>4
  <2>6. f[0] = a
    BY <2>1
  <2>7. Is(n, f)
    <3> HIDE DEF f
    <3> QED BY <2>5, <2>6
  <2>8. n \in 0 .. last
    OBVIOUS
  <2> HIDE DEF f, Is
  <2> QED BY <2>4, <2>7, <2>8
<1>3. last \in G
  <2>1. last \in 0 .. last
    OBVIOUS
  <2> HIDE DEF G
  <2>2. \A n \in 1 .. last : n - 1 \in G => n \in G
    BY <1>2
  <2>3. \A n \in 0 .. last : n \in G
    BY <1>1, <2>2, Upwards
  <2> QED BY <2>1, <2>3
<1>4. PICK f \in [0 .. last -> S] : Is(last, f)
  BY <1>3
<1>5. f = [n \in 0 .. last |-> IF n = 0 THEN a ELSE next[n][f[n - 1]]]
  <2>1. f = [n \in 0 .. last |-> f[n]]
    OBVIOUS
  <2>2. \A n \in 0 .. last : f[n] = IF n = 0 THEN a ELSE next[n][f[n - 1]]
    <3>1. \A n \in 0 .. last : n = 0 \/ n \in 1 .. last
      OBVIOUS
    <3> QED BY <1>4, <3>1
  <2> QED BY <2>1, <2>2
<1> QED BY <1>5 DEF Runs
-----------------------------------------------------------------------------
(* The headers of GhevDeviceDetectionInit.                                   *)

ItemsOf(s) == {s[i] : i \in DOMAIN s}
IsDistinct(s) == \A i, j \in DOMAIN s : i # j => s[i] # s[j]

LEMMA SegmentsAre ==
    ASSUME NEW p \in DOMAIN Properties
    PROVE  Segments(Properties[p]) \in Seq(STRING) /\ Len(Segments(Properties[p])) \in Nat
<1> DEFINE S == Seq(STRING)
           property == Properties[p]
           values == property.values
           last == Len(values)
           next == [n \in 1 .. last |-> [s \in S |-> s \o values[n]]]
           Is(j) == j = [n \in 0 .. last |-> IF n = 0 THEN <<>> ELSE j[n - 1] \o values[n]]
<1>1. property \in [acceptCh : BOOLEAN, values : Seq(S)]
  <2> DEFINE R == [acceptCh : BOOLEAN, values : Seq(S)]
  <2>1. Properties \in Seq(R)
    BY PropertiesAssumption
  <2> HIDE DEF R
  <2>2. Properties[p] \in R
    BY <2>1
  <2> QED BY <2>2 DEF R
<1>2. values \in Seq(S) /\ last \in Nat
  BY <1>1
<1>3. \A n \in 1 .. last : values[n] \in S
  BY <1>2
<1>4. <<>> \in S
  OBVIOUS
<1>5. PICK j : Is(j) /\ Segments(property) = IF property.acceptCh THEN j[last] ELSE <<>>
  <2>1. next \in [1 .. last -> [S -> S]]
    <3>1. \A n \in 1 .. last : [s \in S |-> s \o values[n]] \in [S -> S]
      BY <1>3
    <3> HIDE DEF S
    <3> QED BY <3>1
  <2>2. PICK f \in [0 .. last -> S] : Runs(f, <<>>, next, last)
    <3> HIDE DEF next, S, last
    <3> QED BY <1>2, <1>4, <2>1, RunExists
  <2>3. Is(f)
    <3>1. f = [n \in 0 .. last |-> IF n = 0 THEN <<>> ELSE next[n][f[n - 1]]]
      BY <2>2 DEF Runs
    <3>2. ASSUME NEW n \in 0 .. last, n # 0 PROVE next[n][f[n - 1]] = f[n - 1] \o values[n]
      <4>1. n \in 1 .. last /\ n - 1 \in 0 .. last
        BY <1>2, <3>2
      <4>2. f[n - 1] \in S
        BY <4>1
      <4> HIDE DEF S
      <4> QED BY <4>1, <4>2
    <3> HIDE DEF next
    <3> QED BY <3>1, <3>2
  <2> QED BY <2>3 DEF Segments
<1>6. j[last] \in S
  <2> DEFINE G == {n \in 0 .. last : j[n] \in S}
  <2>1. 0 \in G /\ \A n \in 0 .. last : n # 0 => j[n] = j[n - 1] \o values[n]
    <3>1. 0 \in 0 .. last
      BY <1>2
    <3>2. j[0] = <<>> /\ \A n \in 0 .. last : n # 0 => j[n] = j[n - 1] \o values[n]
      <4> HIDE DEF last, values
      <4> QED BY <1>5, <3>1
    <3>3. 0 \in G
      <4> HIDE DEF S, last
      <4> QED BY <1>4, <3>1, <3>2
    <3> QED BY <3>2, <3>3
  <2>2. ASSUME NEW n \in 1 .. last, n - 1 \in G PROVE n \in G
    <3>1. n \in 0 .. last /\ n # 0
      BY <1>2
    <3>2. j[n] = j[n - 1] \o values[n] /\ j[n - 1] \in S /\ values[n] \in S
      BY <1>3, <2>1, <2>2, <3>1
    <3>3. j[n] \in S
      BY <3>2
    <3> HIDE DEF S, last
    <3> QED BY <3>1, <3>3
  <2>3. last \in 0 .. last
    BY <1>2
  <2>4. \A n \in 1 .. last : n - 1 \in G => n \in G
    BY <2>2
  <2>5. \A n \in 0 .. last : n \in G
    <3> HIDE DEF G, last
    <3> QED BY <1>2, <2>1, <2>4, Upwards
  <2> QED BY <2>3, <2>5
<1>7. Segments(property) \in S
  <2> HIDE DEF S, last, values
  <2> QED BY <1>4, <1>5, <1>6
<1> QED BY <1>7

\* What the first n properties have: how many segments, and the known headers
\* among these.
SegmentCount ==
    LET sum[n \in 0 .. Len(Properties)] ==
          IF n = 0 THEN 0 ELSE sum[n - 1] + Len(Segments(Properties[n]))
    IN sum
NamedIn(n) == Known \cap UNION {ItemsOf(Segments(Properties[p])) : p \in 1 .. n}

LEMMA SegmentCountIs ==
    /\ Len(Properties) \in Nat /\ DOMAIN Properties = 1 .. Len(Properties)
    /\ SegmentCount[0] = 0
    /\ \A n \in 1 .. Len(Properties) :
         SegmentCount[n] = SegmentCount[n - 1] + Len(Segments(Properties[n]))
    /\ \A n \in 0 .. Len(Properties) :
         SegmentCount[n] \in Nat /\ SegmentCount[n] <= SegmentCount[Len(Properties)]
<1> DEFINE last == Len(Properties)
           next == [n \in 1 .. last |-> [k \in Nat |-> k + Len(Segments(Properties[n]))]]
           Is(j) == j = [n \in 0 .. last |->
                           IF n = 0 THEN 0 ELSE j[n - 1] + Len(Segments(Properties[n]))]
<1>1. last \in Nat /\ DOMAIN Properties = 1 .. last
  BY PropertiesAssumption
<1>2. \A n \in 1 .. last : Len(Segments(Properties[n])) \in Nat
  BY <1>1, SegmentsAre
<1>3. Is(SegmentCount)
  <2>1. next \in [1 .. last -> [Nat -> Nat]]
    <3>1. \A n \in 1 .. last :
            [k \in Nat |-> k + Len(Segments(Properties[n]))] \in [Nat -> Nat]
      BY <1>2
    <3> QED BY <3>1
  <2>2. PICK f \in [0 .. last -> Nat] : Runs(f, 0, next, last)
    <3> HIDE DEF next, last
    <3> QED BY <1>1, <2>1, RunExists
  <2>3. Is(f)
    <3>1. f = [n \in 0 .. last |-> IF n = 0 THEN 0 ELSE next[n][f[n - 1]]]
      BY <2>2 DEF Runs
    <3>2. ASSUME NEW n \in 0 .. last, n # 0
          PROVE  next[n][f[n - 1]] = f[n - 1] + Len(Segments(Properties[n]))
      <4>1. n \in 1 .. last /\ n - 1 \in 0 .. last
        BY <1>1, <3>2
      <4>2. f[n - 1] \in Nat
        BY <4>1
      <4> HIDE DEF last
      <4> QED BY <4>1, <4>2
    <3> HIDE DEF next
    <3> QED BY <3>1, <3>2
  <2> QED BY <2>3 DEF SegmentCount
<1>4. /\ SegmentCount[0] = 0
      /\ \A n \in 1 .. last :
           SegmentCount[n] = SegmentCount[n - 1] + Len(Segments(Properties[n]))
  <2>1. 0 \in 0 .. last /\ \A n \in 1 .. last : n \in 0 .. last /\ n # 0
    BY <1>1
  <2> HIDE DEF last
  <2> QED BY <1>3, <2>1
<1> DEFINE Good == {n \in 0 .. last : SegmentCount[n] \in Nat}
<1>5. \A n \in 0 .. last : n \in Good
  <2>1. 0 \in Good
    BY <1>1, <1>4
  <2>2. ASSUME NEW n \in 1 .. last, n - 1 \in Good PROVE n \in Good
    <3>1. n \in 0 .. last
      BY <1>1
    <3> QED BY <1>2, <1>4, <2>2, <3>1
  <2>3. \A n \in 1 .. last : n - 1 \in Good => n \in Good
    BY <2>2
  <2> HIDE DEF Good, last
  <2> QED BY <1>1, <2>1, <2>3, Upwards
<1>6. \A n \in 0 .. last : SegmentCount[n] <= SegmentCount[last]
  <2> DEFINE G == {k \in 0 .. last : SegmentCount[last - k] <= SegmentCount[last]}
  <2>1. last \in 0 .. last /\ last - 0 = last
    BY <1>1
  <2>2. SegmentCount[last] \in Nat
    BY <1>5, <2>1
  <2>3. 0 \in G
    BY <1>1, <2>1, <2>2
  <2>4. ASSUME NEW k \in 1 .. last, k - 1 \in G PROVE k \in G
    <3> DEFINE n == last - (k - 1)
    <3>1. n \in 1 .. last /\ n \in 0 .. last /\ n - 1 = last - k /\ n - 1 \in 0 .. last
      BY <1>1
    <3>2. SegmentCount[n] <= SegmentCount[last]
      BY <2>4
    <3>3. /\ SegmentCount[n] = SegmentCount[n - 1] + Len(Segments(Properties[n]))
          /\ SegmentCount[n] \in Nat /\ SegmentCount[n - 1] \in Nat
          /\ Len(Segments(Properties[n])) \in Nat
      <4> HIDE DEF n
      <4> QED BY <1>2, <1>4, <1>5, <3>1
    <3>4. SegmentCount[last - k] <= SegmentCount[last]
      <4>1. SegmentCount[n - 1] <= SegmentCount[last]
        <5> HIDE DEF n
        <5> QED BY <2>2, <3>2, <3>3
      <4> QED BY <3>1, <4>1
    <3>5. k \in 0 .. last
      BY <1>1
    <3> QED BY <3>4, <3>5
  <2>5. \A k \in 1 .. last : k - 1 \in G => k \in G
    BY <2>4
  <2>6. \A k \in 0 .. last : k \in G
    <3> HIDE DEF G, last
    <3> QED BY <1>1, <2>3, <2>5, Upwards
  <2>7. ASSUME NEW n \in 0 .. last PROVE SegmentCount[n] <= SegmentCount[last]
    <3>1. last - n \in 0 .. last /\ last - (last - n) = n
      BY <1>1
    <3> QED BY <2>6, <3>1
  <2> QED BY <2>7
<1> QED BY <1>1, <1>4, <1>5, <1>6

LEMMA ArrayIsSome ==
    ASSUME NEW s \in Seq(Known)
    PROVE  s # NoArray
<1>1. ASSUME s = NoArray PROVE FALSE
  <2>1. Len(s) = 1 /\ s[1] = "NULL"
    BY <1>1 DEF NoArray
  <2>2. s[1] \in Known
    BY <2>1
  <2> QED BY <2>1, <2>2, KnownAssumption
<1> QED BY <1>1

LEMMA HeaderAdded ==
    ASSUME NEW s \in Seq(Known), IsDistinct(s), NEW h \in Known,
           \A i \in DOMAIN s : s[i] # h
    PROVE  /\ Append(s, h) \in Seq(Known) /\ Len(Append(s, h)) = Len(s) + 1
           /\ IsDistinct(Append(s, h))
           /\ ItemsOf(Append(s, h)) = ItemsOf(s) \cup {h}
<1> DEFINE t == Append(s, h)
           n == Len(s)
<1>1. /\ t \in Seq(Known) /\ Len(t) = n + 1 /\ n \in Nat
      /\ \A i \in 1 .. n : t[i] = s[i]
      /\ t[n + 1] = h
  BY AppendProperties
<1>2. DOMAIN s = 1 .. n /\ DOMAIN t = 1 .. n + 1
  BY <1>1
<1> HIDE DEF t, n
<1>3. \A i \in DOMAIN t : i \in DOMAIN s \/ i = n + 1
  BY <1>1, <1>2
<1>4. \A i \in DOMAIN s : i \in DOMAIN t /\ t[i] = s[i]
  BY <1>1, <1>2
<1>5. n + 1 \in DOMAIN t
  BY <1>1, <1>2
<1>6. IsDistinct(t)
  BY <1>1, <1>3, <1>4 DEF IsDistinct
<1>7. ItemsOf(t) = ItemsOf(s) \cup {h}
  BY <1>1, <1>3, <1>4, <1>5 DEF ItemsOf
<1> QED BY <1>1, <1>6, <1>7 DEF t, n

\* The names that are known are added, each once.
LEMMA WithHeadersAre ==
    ASSUME NEW names \in Seq(STRING), ghevHeaders \in Seq(Known), IsDistinct(ghevHeaders)
    PROVE  /\ WithHeaders(names) \in Seq(Known) /\ IsDistinct(WithHeaders(names))
           /\ Len(WithHeaders(names)) <= Len(ghevHeaders) + Len(names)
           /\ ItemsOf(WithHeaders(names)) =
                ItemsOf(ghevHeaders) \cup (Known \cap ItemsOf(names))
<1> DEFINE S == Seq(Known)
           last == Len(names)
           IsNew(s, n) == names[n] \in Known /\ \A i \in DOMAIN s : s[i] # names[n]
           next == [n \in 1 .. last |->
                      [s \in S |-> IF IsNew(s, n) THEN Append(s, names[n]) ELSE s]]
           Is(j) == j = [n \in 0 .. last |->
                           IF n = 0 THEN ghevHeaders
                           ELSE IF IsNew(j[n - 1], n) THEN Append(j[n - 1], names[n])
                                ELSE j[n - 1]]
<1>1. last \in Nat /\ DOMAIN names = 1 .. last
  OBVIOUS
<1>2. PICK j : Is(j) /\ WithHeaders(names) = j[last]
  <2>1. next \in [1 .. last -> [S -> S]]
    <3>1. \A n \in 1 .. last :
            [s \in S |-> IF IsNew(s, n) THEN Append(s, names[n]) ELSE s] \in [S -> S]
      OBVIOUS
    <3> HIDE DEF S, IsNew
    <3> QED BY <3>1
  <2>2. PICK f \in [0 .. last -> S] : Runs(f, ghevHeaders, next, last)
    <3> HIDE DEF next, last
    <3> QED BY <1>1, <2>1, RunExists
  <2>3. Is(f)
    <3>1. f = [n \in 0 .. last |-> IF n = 0 THEN ghevHeaders ELSE next[n][f[n - 1]]]
      BY <2>2 DEF Runs
    <3>2. ASSUME NEW n \in 0 .. last, n # 0
          PROVE  next[n][f[n - 1]] =
                   IF IsNew(f[n - 1], n) THEN Append(f[n - 1], names[n]) ELSE f[n - 1]
      <4>1. n \in 1 .. last /\ n - 1 \in 0 .. last
        BY <1>1, <3>2
      <4>2. f[n - 1] \in S
        BY <4>1
      <4> HIDE DEF S, IsNew
      <4> QED BY <4>1, <4>2
    <3> HIDE DEF next, IsNew
    <3> QED BY <3>1, <3>2
  <2> QED BY <2>3 DEF WithHeaders
<1> DEFINE Taken(n) == {names[i] : i \in 1 .. n}
           Good(n) ==
             /\ j[n] \in S /\ IsDistinct(j[n]) /\ Len(j[n]) <= Len(ghevHeaders) + n
             /\ ItemsOf(j[n]) = ItemsOf(ghevHeaders) \cup (Known \cap Taken(n))
           G == {n \in 0 .. last : Good(n)}
<1>3. 0 \in G
  <2>1. 0 \in 0 .. last
    BY <1>1
  <2>2. j[0] = ghevHeaders
    <3> HIDE DEF last, IsNew
    <3> QED BY <1>2, <2>1
  <2>3. Taken(0) = {}
    OBVIOUS
  <2>4. Len(ghevHeaders) <= Len(ghevHeaders) + 0
    OBVIOUS
  <2>5. Good(0)
    <3> HIDE DEF Taken, S
    <3> QED BY <2>2, <2>3, <2>4 DEF S
  <2> HIDE DEF Good, last
  <2> QED BY <2>1, <2>5
<1>4. ASSUME NEW n \in 1 .. last, n - 1 \in G PROVE n \in G
  <2>1. n \in 0 .. last /\ n # 0
    BY <1>1
  <2>2. Good(n - 1)
    BY <1>4
  <2>3. j[n] = IF IsNew(j[n - 1], n) THEN Append(j[n - 1], names[n]) ELSE j[n - 1]
    <3> HIDE DEF last, IsNew
    <3> QED BY <1>2, <2>1
  <2>4. Taken(n) = Taken(n - 1) \cup {names[n]}
    <3>1. \A i \in 1 .. n : i \in 1 .. n - 1 \/ i = n
      OBVIOUS
    <3>2. \A i \in 1 .. n - 1 : i \in 1 .. n
      OBVIOUS
    <3>3. n \in 1 .. n
      OBVIOUS
    <3> QED BY <3>1, <3>2, <3>3
  <2>5. PICK s \in S : s = j[n - 1]
    BY <2>2
  <2> DEFINE b == Len(ghevHeaders)
  <2>6. /\ IsDistinct(s) /\ Len(s) <= b + (n - 1) /\ Len(s) \in Nat /\ b \in Nat
        /\ ItemsOf(s) = ItemsOf(ghevHeaders) \cup (Known \cap Taken(n - 1))
    <3>1. Len(s) \in Nat /\ b \in Nat
      OBVIOUS
    <3> HIDE DEF Taken
    <3> QED BY <2>2, <2>5, <3>1
  <2>7. CASE IsNew(s, n)
    <3>1. names[n] \in Known /\ \A i \in DOMAIN s : s[i] # names[n]
      BY <2>7
    <3>2. PICK h \in Known : h = names[n]
      BY <3>1
    <3> HIDE DEF S
    <3>3. /\ Append(s, h) \in S /\ Len(Append(s, h)) = Len(s) + 1
          /\ IsDistinct(Append(s, h)) /\ ItemsOf(Append(s, h)) = ItemsOf(s) \cup {h}
      <4>1. s \in Seq(Known) /\ \A i \in DOMAIN s : s[i] # h
        BY <3>1, <3>2 DEF S
      <4> QED BY <2>6, <4>1, HeaderAdded DEF S
    <3>4. j[n] = Append(s, h)
      <4> HIDE DEF IsNew
      <4> QED BY <2>3, <2>5, <2>7, <3>2
    <3>5. Len(j[n]) <= b + n
      <4>1. Len(s) + 1 <= b + n
        <5> HIDE DEF b
        <5> QED BY <1>1, <2>6
      <4> QED BY <3>3, <3>4, <4>1
    <3>6. ItemsOf(j[n]) = ItemsOf(ghevHeaders) \cup (Known \cap Taken(n))
      <4> HIDE DEF Taken
      <4> QED BY <2>4, <2>6, <3>2, <3>3, <3>4
    <3>7. Good(n)
      <4> HIDE DEF Taken
      <4> QED BY <3>3, <3>4, <3>5, <3>6
    <3> HIDE DEF Good, last
    <3> QED BY <2>1, <3>7
  <2>8. CASE ~ IsNew(s, n)
    <3>1. names[n] \notin Known \/ names[n] \in ItemsOf(s)
      BY <2>8 DEF ItemsOf
    <3>2. j[n] = s
      <4> HIDE DEF IsNew
      <4> QED BY <2>3, <2>5, <2>8
    <3>3. Len(j[n]) <= b + n
      <4>1. Len(s) <= b + n
        <5> HIDE DEF b
        <5> QED BY <1>1, <2>6
      <4> QED BY <3>2, <4>1
    <3>4. ItemsOf(j[n]) = ItemsOf(ghevHeaders) \cup (Known \cap Taken(n))
      <4> HIDE DEF Taken
      <4> QED BY <2>4, <2>6, <3>1, <3>2
    <3>5. Good(n)
      <4> HIDE DEF Taken
      <4> QED BY <2>6, <3>2, <3>3, <3>4
    <3> HIDE DEF Good, last
    <3> QED BY <2>1, <3>5
  <2> QED BY <2>7, <2>8
<1>5. Good(last)
  <2>1. last \in 0 .. last
    BY <1>1
  <2>2. \A n \in 1 .. last : n - 1 \in G => n \in G
    BY <1>4
  <2>3. \A n \in 0 .. last : n \in G
    <3> HIDE DEF G, last
    <3> QED BY <1>1, <1>3, <2>2, Upwards
  <2> QED BY <2>1, <2>3
<1>6. Taken(last) = ItemsOf(names)
  BY <1>1 DEF ItemsOf
<1> HIDE DEF Taken
<1> QED BY <1>2, <1>5, <1>6

\* The capacity is that of all segments, and what was counted again is that of
\* the properties before the index, which gave the array what it holds.
GhevInv ==
    /\ stage \in {"count", "add"} => index \in 1 .. Len(Properties) + 1
    /\ stage = "count" =>
         ghevHeaders = NoArray /\ count = 0 /\ capacity = SegmentCount[index - 1]
    /\ stage = "add" =>
         /\ ghevHeaders # NoArray
         /\ count = SegmentCount[index - 1]
         /\ capacity = SegmentCount[Len(Properties)]
         /\ ItemsOf(ghevHeaders) = NamedIn(index - 1)
    /\ ghevHeaders # NoArray =>
         /\ ghevHeaders \in Seq(Known) /\ IsDistinct(ghevHeaders)
         /\ count \in Nat /\ capacity \in Nat
         /\ Len(ghevHeaders) <= count /\ count <= capacity
         /\ stage \notin {"count", "add", "failed"} =>
              count = capacity /\ ItemsOf(ghevHeaders) = NamedIn(Len(Properties))

LEMMA CountPropertyKeepsGhev ==
    ASSUME GhevInv, CountProperty
    PROVE  GhevInv'
<1>1. /\ stage = "count" /\ stage' = "count" /\ index \in DOMAIN Properties
      /\ capacity' = capacity + Len(Segments(Properties[index]))
      /\ index' = index + 1 /\ ghevHeaders' = ghevHeaders /\ count' = count
  BY DEF CountProperty
<1>2. ghevHeaders = NoArray /\ count = 0 /\ capacity = SegmentCount[index - 1]
  BY <1>1 DEF GhevInv
<1>3. /\ index \in 1 .. Len(Properties) /\ Len(Properties) \in Nat
      /\ SegmentCount[index] = SegmentCount[index - 1] + Len(Segments(Properties[index]))
  BY <1>1, SegmentCountIs
<1>4. index' \in 1 .. Len(Properties) + 1 /\ index' - 1 = index
  BY <1>1, <1>3
<1>5. capacity' = SegmentCount[index' - 1]
  BY <1>1, <1>2, <1>3, <1>4
<1> QED BY <1>1, <1>2, <1>4, <1>5 DEF GhevInv

LEMMA CreateArrayKeepsGhev ==
    ASSUME GhevInv, CreateArray
    PROVE  GhevInv'
<1>1. /\ stage = "count" /\ index \notin DOMAIN Properties /\ index' = 1
      /\ capacity' = capacity /\ count' = count
      /\ \/ stage' \in {"scan", "failed"} /\ ghevHeaders' = ghevHeaders
         \/ stage' = "add" /\ ghevHeaders' = <<>>
  BY DEF CreateArray
<1>2. /\ index \in 1 .. Len(Properties) + 1
      /\ ghevHeaders = NoArray /\ count = 0 /\ capacity = SegmentCount[index - 1]
  BY <1>1 DEF GhevInv
<1>3. Len(Properties) \in Nat /\ DOMAIN Properties = 1 .. Len(Properties)
      /\ SegmentCount[0] = 0
  BY SegmentCountIs
<1>4. index - 1 = Len(Properties) /\ index' - 1 = 0 /\ index' \in 1 .. Len(Properties) + 1
  BY <1>1, <1>2, <1>3
<1>5. CASE stage' \in {"scan", "failed"} /\ ghevHeaders' = ghevHeaders
  BY <1>2, <1>5 DEF GhevInv
<1>6. CASE stage' = "add" /\ ghevHeaders' = <<>>
  <2>1. /\ ghevHeaders' \in Seq(Known) /\ Len(ghevHeaders') = 0 /\ DOMAIN ghevHeaders' = {}
    BY <1>6
  <2>2. ghevHeaders' # NoArray
    <3>1. <<>> \in Seq(Known)
      OBVIOUS
    <3>2. <<>> # NoArray
      BY <3>1, ArrayIsSome
    <3> QED BY <1>6, <3>2
  <2>3. ItemsOf(ghevHeaders)' = {} /\ IsDistinct(ghevHeaders)'
    BY <2>1 DEF ItemsOf, IsDistinct
  <2>4. NamedIn(0) = {} /\ NamedIn(index - 1)' = NamedIn(0)
    <3>1. 1 .. 0 = {}
      OBVIOUS
    <3>2. NamedIn(0) = {}
      BY <3>1 DEF NamedIn
    <3> QED BY <1>4, <3>2 DEF NamedIn
  <2>5. count' = 0 /\ capacity' = SegmentCount[Len(Properties)]
        /\ SegmentCount[index' - 1] = 0 /\ capacity' \in Nat
    <3>1. Len(Properties) \in 0 .. Len(Properties)
      BY <1>3
    <3>2. SegmentCount[Len(Properties)] \in Nat
      BY <3>1, SegmentCountIs
    <3> QED BY <1>1, <1>2, <1>3, <1>4, <3>2
  <2>6. Len(ghevHeaders') <= count' /\ count' <= capacity'
        /\ count' \in Nat /\ capacity' \in Nat
    BY <2>1, <2>5
  <2>7. SegmentCount' = SegmentCount
    BY DEF SegmentCount, Segments
  <2> QED BY <1>4, <1>6, <2>1, <2>2, <2>3, <2>4, <2>5, <2>6, <2>7 DEF GhevInv
<1> QED BY <1>1, <1>5, <1>6

LEMMA AddPropertyKeepsGhev ==
    ASSUME GhevInv, AddProperty
    PROVE  GhevInv'
<1> DEFINE names == Segments(Properties[index])
<1>1. /\ stage = "add" /\ stage' = "add" /\ index \in DOMAIN Properties
      /\ ghevHeaders' = WithHeaders(names) /\ count' = count + Len(names)
      /\ index' = index + 1 /\ capacity' = capacity
  BY DEF AddProperty
<1>2. /\ ghevHeaders \in Seq(Known) /\ IsDistinct(ghevHeaders)
      /\ Len(ghevHeaders) <= count
      /\ count = SegmentCount[index - 1] /\ capacity = SegmentCount[Len(Properties)]
      /\ ItemsOf(ghevHeaders) = NamedIn(index - 1)
  BY <1>1 DEF GhevInv
<1>3. names \in Seq(STRING) /\ Len(names) \in Nat
  BY <1>1, SegmentsAre
<1>4. /\ index \in 1 .. Len(Properties) /\ Len(Properties) \in Nat
      /\ SegmentCount[index] = SegmentCount[index - 1] + Len(names)
      /\ SegmentCount[index] \in Nat /\ SegmentCount[index] <= SegmentCount[Len(Properties)]
  <2>1. index \in 1 .. Len(Properties) /\ Len(Properties) \in Nat
    BY <1>1, SegmentCountIs
  <2>2. index \in 0 .. Len(Properties)
    BY <2>1
  <2> QED BY <2>1, <2>2, SegmentCountIs
<1>5. index' \in 1 .. Len(Properties) + 1 /\ index' - 1 = index
  BY <1>1, <1>4
<1>6. PICK n \in Seq(STRING) : n = names
  BY <1>3
<1>7. /\ ghevHeaders' \in Seq(Known) /\ IsDistinct(WithHeaders(n))
      /\ Len(ghevHeaders') <= Len(ghevHeaders) + Len(n)
      /\ ItemsOf(WithHeaders(n)) = ItemsOf(ghevHeaders) \cup (Known \cap ItemsOf(n))
      /\ ghevHeaders' = WithHeaders(n)
  <2> HIDE DEF names
  <2> QED BY <1>1, <1>2, <1>6, WithHeadersAre
<1>8. count' = SegmentCount[index' - 1] /\ count' <= capacity'
  <2> HIDE DEF names
  <2> QED BY <1>1, <1>2, <1>4, <1>5
<1>9. Len(ghevHeaders') <= count'
  <2>1. Len(ghevHeaders) \in Nat /\ Len(n) \in Nat /\ Len(ghevHeaders') \in Nat
    BY <1>2, <1>7
  <2>2. count \in Nat
    <3>1. index - 1 \in 0 .. Len(Properties)
      BY <1>4
    <3> QED BY <1>2, <3>1, SegmentCountIs
  <2> HIDE DEF names
  <2> QED BY <1>1, <1>2, <1>6, <1>7, <2>1, <2>2
<1>10. IsDistinct(ghevHeaders)'
  BY <1>7 DEF IsDistinct
<1>11. ItemsOf(ghevHeaders)' = NamedIn(index - 1)'
  <2>1. NamedIn(index) = NamedIn(index - 1) \cup (Known \cap ItemsOf(names))
    <3>1. \A p \in 1 .. index : p \in 1 .. index - 1 \/ p = index
      BY <1>4
    <3>2. (\A p \in 1 .. index - 1 : p \in 1 .. index) /\ index \in 1 .. index
      BY <1>4
    <3> QED BY <3>1, <3>2 DEF NamedIn
  <2>2. NamedIn(index - 1)' = NamedIn(index)
    BY <1>5 DEF NamedIn
  <2>3. ItemsOf(ghevHeaders)' = ItemsOf(WithHeaders(n))
    BY <1>7 DEF ItemsOf
  <2> HIDE DEF names
  <2> QED BY <1>2, <1>6, <1>7, <2>1, <2>2, <2>3
<1>12. ghevHeaders' # NoArray'
  <2>1. PICK s \in Seq(Known) : s = ghevHeaders'
    BY <1>7
  <2> QED BY <2>1, ArrayIsSome DEF NoArray
<1>13. SegmentCount' = SegmentCount
  BY DEF SegmentCount, Segments
<1>14. /\ capacity' = SegmentCount[Len(Properties)]
       /\ count' \in Nat /\ capacity' \in Nat
  <2>1. Len(Properties) \in 0 .. Len(Properties)
    BY <1>4
  <2> HIDE DEF names
  <2> QED BY <1>1, <1>2, <1>4, <1>5, <1>8, <2>1, SegmentCountIs
<1> HIDE DEF names
<1> QED BY <1>1, <1>5, <1>7, <1>8, <1>9, <1>10, <1>11, <1>12, <1>13, <1>14 DEF GhevInv

LEMMA AddedKeepsGhev ==
    ASSUME GhevInv, Added
    PROVE  GhevInv'
<1>1. /\ stage = "add" /\ stage' = "scan" /\ index \notin DOMAIN Properties
      /\ ghevHeaders' = ghevHeaders /\ count' = count /\ capacity' = capacity
  BY DEF Added, init
<1>2. /\ index \in 1 .. Len(Properties) + 1
      /\ ghevHeaders \in Seq(Known) /\ IsDistinct(ghevHeaders)
      /\ count \in Nat /\ capacity \in Nat
      /\ Len(ghevHeaders) <= count /\ count <= capacity
      /\ count = SegmentCount[index - 1] /\ capacity = SegmentCount[Len(Properties)]
      /\ ItemsOf(ghevHeaders) = NamedIn(index - 1)
  BY <1>1 DEF GhevInv
<1>3. index - 1 = Len(Properties)
  BY <1>1, <1>2, SegmentCountIs
<1>4. count' = capacity' /\ ItemsOf(ghevHeaders)' = NamedIn(Len(Properties))'
  BY <1>1, <1>2, <1>3 DEF ItemsOf, NamedIn
<1>5. IsDistinct(ghevHeaders)' /\ NoArray' = NoArray
  BY <1>1, <1>2 DEF IsDistinct, NoArray
<1> QED BY <1>1, <1>2, <1>4, <1>5 DEF GhevInv

\* The other steps leave the array alone.
LEMMA OthersKeepGhev ==
    ASSUME GhevInv, UNCHANGED <<capacity, ghevHeaders, count>>,
           \/ stage' = stage /\ index' = index
           \/ stage \notin {"count", "add", "failed"} /\ stage' \notin {"count", "add", "failed"}
           \/ stage = "count" /\ stage' = "scan"
           \/ stage' = "failed"
    PROVE  GhevInv'
<1>1. /\ ItemsOf(ghevHeaders)' = ItemsOf(ghevHeaders) /\ NoArray' = NoArray
      /\ IsDistinct(ghevHeaders)' <=> IsDistinct(ghevHeaders)
      /\ NamedIn(Len(Properties))' = NamedIn(Len(Properties))
      /\ index' = index => NamedIn(index - 1)' = NamedIn(index - 1)
      /\ SegmentCount' = SegmentCount
  BY DEF ItemsOf, NoArray, IsDistinct, NamedIn, SegmentCount, Segments
<1>2. CASE stage' = stage /\ index' = index
  BY <1>1, <1>2 DEF GhevInv
<1>3. CASE stage \notin {"count", "add", "failed"} /\ stage' \notin {"count", "add", "failed"}
  BY <1>1, <1>3 DEF GhevInv
<1>4. CASE stage = "count" /\ stage' = "scan"
  BY <1>1, <1>4 DEF GhevInv
<1>5. CASE stage' = "failed"
  BY <1>1, <1>5 DEF GhevInv
<1> QED BY <1>2, <1>3, <1>4, <1>5

LEMMA GhevInvInductive ==
    Spec => []GhevInv
<1>1. Init => GhevInv
  <2> SUFFICES ASSUME Init PROVE GhevInv
    OBVIOUS
  <2>1. /\ stage = "count" /\ index = 1 /\ ghevHeaders = NoArray /\ count = 0 /\ capacity = 0
    BY DEF Init
  <2>2. 1 \in 1 .. Len(Properties) + 1 /\ SegmentCount[index - 1] = 0
    BY <2>1, SegmentCountIs
  <2> QED BY <2>1, <2>2 DEF GhevInv
<1>2. GhevInv /\ [Next]_vars => GhevInv'
  <2> SUFFICES ASSUME GhevInv, [Next]_vars PROVE GhevInv'
    OBVIOUS
  <2>1. CASE CountProperty
    BY <2>1, CountPropertyKeepsGhev
  <2>2. CASE CreateArray
    BY <2>2, CreateArrayKeepsGhev
  <2>3. CASE AddProperty
    BY <2>3, AddPropertyKeepsGhev
  <2>4. CASE Added
    BY <2>4, AddedKeepsGhev
  <2>5. CASE NotRequired \/ ReadFails \/ UNCHANGED vars
    BY <2>5, OthersKeepGhev DEF NotRequired, ReadFails, vars, init
  <2>6. CASE NextPair \/ TransformPair \/ Transforming \/ SetSpecialHeader \/ EndTransform
               \/ EndScan \/ SetEvidenceHeaders \/ Override
    <3>1. UNCHANGED init
      BY <2>6 DEF NextPair, TransformPair, Transforming, SetSpecialHeader, EndTransform,
                  EndScan, SetEvidenceHeaders, Override
    <3>2. stage \in {"scan", "transform", "headers", "evaluate"}
          /\ stage' \in {"scan", "transform", "headers", "evaluate", "done"}
      BY <2>6 DEF NextPair, TransformPair, Transforming, SetSpecialHeader, EndTransform,
                  EndScan, SetEvidenceHeaders, Override
    <3> QED BY <3>1, <3>2, OthersKeepGhev DEF init
  <2> QED BY <2>1, <2>2, <2>3, <2>4, <2>5, <2>6 DEF Next
<1> QED BY <1>1, <1>2, PTL DEF Spec

(***************************************************************************)
(* Whatever the properties of the data set, the array that                 *)
(* GhevDeviceDetectionInit allocates is never overrun, has each header     *)
(* once, and is complete when both iterations are through; they counted    *)
(* the same.                                                               *)
(***************************************************************************)
THEOREM GhevHeadersAlwaysFit ==
    Spec => []GhevHeadersFit
<1>1. GhevInv => GhevHeadersFit
  <2> SUFFICES ASSUME GhevInv, ghevHeaders # NoArray
               PROVE  /\ Len(ghevHeaders) <= capacity
                      /\ \A i, j \in DOMAIN ghevHeaders :
                           i # j => ghevHeaders[i] # ghevHeaders[j]
                      /\ stage \notin {"count", "add", "failed"} =>
                           /\ count = capacity
                           /\ {ghevHeaders[i] : i \in DOMAIN ghevHeaders} =
                                Known \cap UNION {{Segments(Properties[p])[s] :
                                                     s \in DOMAIN Segments(Properties[p])} :
                                                    p \in DOMAIN Properties}
    BY DEF GhevHeadersFit
  <2>1. /\ ghevHeaders \in Seq(Known) /\ IsDistinct(ghevHeaders)
        /\ count \in Nat /\ capacity \in Nat /\ Len(ghevHeaders) \in Nat
        /\ Len(ghevHeaders) <= count /\ count <= capacity
        /\ stage \notin {"count", "add", "failed"} =>
             count = capacity /\ ItemsOf(ghevHeaders) = NamedIn(Len(Properties))
    BY DEF GhevInv
  <2>2. Len(ghevHeaders) <= capacity
    BY <2>1
  <2>3. NamedIn(Len(Properties)) =
          Known \cap UNION {{Segments(Properties[p])[s] : s \in DOMAIN Segments(Properties[p])} :
                              p \in DOMAIN Properties}
    <3>1. DOMAIN Properties = 1 .. Len(Properties)
      BY SegmentCountIs
    <3> QED BY <3>1 DEF NamedIn, ItemsOf
  <2> QED BY <2>1, <2>2, <2>3 DEF IsDistinct, ItemsOf
<1> QED BY <1>1, GhevInvInductive, PTL
-----------------------------------------------------------------------------
(* The evidence of a detection.                                              *)

IsSequence(s) == Len(s) \in Nat /\ s = [i \in 1 .. Len(s) |-> s[i]]

LEMMA FunctionIsSequence ==
    ASSUME NEW m \in Nat, NEW f, f = [i \in 1 .. m |-> f[i]]
    PROVE  Len(f) = m /\ IsSequence(f) /\ DOMAIN f = 1 .. m
<1> DEFINE S == {f[i] : i \in 1 .. m}
<1>1. f \in [1 .. m -> S]
  <2>1. \A i \in 1 .. m : f[i] \in S
    OBVIOUS
  <2> HIDE DEF S
  <2>2. [i \in 1 .. m |-> f[i]] \in [1 .. m -> S]
    BY <2>1
  <2> QED BY <2>2
<1> HIDE DEF S
<1>2. f \in Seq(S)
  BY <1>1
<1>3. DOMAIN f = 1 .. m
  BY <1>1
<1>4. Len(f) = m
  BY <1>2, <1>3
<1> QED BY <1>3, <1>4 DEF IsSequence

\* A pair: it has the header of its name or none, and only what a caller
\* provided may be transformed.
IsPair(r) ==
    /\ r = [prefix |-> r.prefix, name |-> r.name, place |-> r.place,
            value |-> r.value, header |-> r.header, from |-> r.from]
    /\ r.header \in {"NULL", r.name}
    /\ r.prefix # "header" => r.from.text \in Seq(STRING)

\* A pair that the last transform set: its value is what was written for it.
IsSet(r) ==
    /\ r.name \in HeaderSet
    /\ ~ r.value.null =>
         /\ r.value.from \in Nat /\ r.value.length \in Nat
         /\ r.value.from + r.value.length <= Current(Len(out))
         /\ r.value.text \in Seq(Symbol) /\ Len(r.value.text) = r.value.length
         /\ \A p \in 1 .. r.value.length : r.value.text[p] = out[r.value.from + p]

PairsInv ==
    /\ IsSequence(evidence)
    /\ \A i \in 1 .. Len(evidence) : IsPair(evidence[i])
SetInv ==
    /\ lastSet \subseteq 1 .. Len(evidence)
    /\ \A i \in lastSet : IsSet(evidence[i])
    /\ lastSet # {} => NamesWritten
OverrideInv == overridden => stage = "done" /\ OverriddenIfComplete

SpecialIInv == ParseInv /\ length = BufferLength /\ PairsInv /\ SetInv /\ OverrideInv

LEMMA RecordChanged ==
    ASSUME NEW p, NEW n, NEW l, NEW v, NEW h, NEW f, NEW w, NEW g, NEW r,
           r = [prefix |-> p, name |-> n, place |-> l, value |-> v, header |-> h, from |-> f],
           NEW s, s = [r EXCEPT !.value = w, !.header = g]
    PROVE  /\ s = [prefix |-> p, name |-> n, place |-> l, value |-> w, header |-> g, from |-> f]
           /\ s.prefix = p /\ s.name = n /\ s.place = l /\ s.value = w /\ s.header = g
           /\ s.from = f
<1> DEFINE t == [prefix |-> p, name |-> n, place |-> l, value |-> w, header |-> g, from |-> f]
           Fields == {"prefix", "name", "place", "value", "header", "from"}
<1>1. s = [x \in DOMAIN s |-> s[x]]
  OBVIOUS
<1>2. DOMAIN s = Fields
  OBVIOUS
<1>3. s.prefix = p /\ s.name = n /\ s.place = l /\ s.value = w /\ s.header = g /\ s.from = f
  OBVIOUS
<1>4. t = [x \in Fields |-> t[x]]
  OBVIOUS
<1>5. t.prefix = p /\ t.name = n /\ t.place = l /\ t.value = w /\ t.header = g /\ t.from = f
  OBVIOUS
<1> HIDE DEF t
<1>6. s = t
  BY <1>1, <1>2, <1>3, <1>4, <1>5
<1> QED BY <1>3, <1>6 DEF t

Changes(s, r, v, h) == s = [r EXCEPT !.value = v, !.header = h]

LEMMA PairChanged ==
    ASSUME NEW r, IsPair(r), NEW v, NEW h, h \in {"NULL", r.name},
           NEW s, Changes(s, r, v, h)
    PROVE  IsPair(s) /\ s.name = r.name /\ s.value = v /\ s.place = r.place /\ s.prefix = r.prefix
<1> DEFINE p == r.prefix
           n == r.name
           l == r.place
           f == r.from
           a == r.value
           b == r.header
<1>1. r = [prefix |-> p, name |-> n, place |-> l, value |-> a, header |-> b, from |-> f]
  BY DEF IsPair
<1>2. p # "header" => f.text \in Seq(STRING)
  BY DEF IsPair
<1> HIDE DEF p, n, l, f, a, b
<1>3. /\ s = [prefix |-> p, name |-> n, place |-> l, value |-> v, header |-> h, from |-> f]
      /\ s.prefix = p /\ s.name = n /\ s.place = l /\ s.value = v /\ s.header = h /\ s.from = f
  <2>1. s = [r EXCEPT !.value = v, !.header = h]
    BY DEF Changes
  <2> QED BY <1>1, <2>1, RecordChanged, Zenon
<1>5. h \in {"NULL", n}
  BY DEF n
<1>6. IsPair(s)
  BY <1>2, <1>3, <1>5 DEF IsPair
<1> QED BY <1>3, <1>6 DEF p, n, l

\* The writing that goes on leaves what the last transform has set.
LEMMA SetsRemain ==
    ASSUME TypeInv, TypeInv', Grows, NEW r, IsSet(r)
    PROVE  IsSet(r)'
<1>1. /\ UNCHANGED call /\ Len(out) <= Len(out')
      /\ \A p \in 1 .. Len(out) : out'[p] = out[p]
  BY DEF Grows
<1>2. /\ r.name \in HeaderSet
      /\ ~ r.value.null =>
           /\ r.value.from \in Nat /\ r.value.length \in Nat
           /\ r.value.from + r.value.length <= Current(Len(out))
           /\ r.value.text \in Seq(Symbol) /\ Len(r.value.text) = r.value.length
           /\ \A p \in 1 .. r.value.length : r.value.text[p] = out[r.value.from + p]
  BY DEF IsSet
<1>3. length \in Nat /\ Len(out) \in Nat /\ Len(out') \in Nat
  <2>1. length \in Nat /\ out \in Seq(Symbol) /\ out' \in Seq(Symbol)'
    BY DEF TypeInv
  <2>2. Seq(Symbol)' = Seq(Symbol)
    BY DEF Symbol
  <2> HIDE DEF Symbol
  <2> QED BY <2>1, <2>2
<1>4. CASE r.value.null
  BY <1>2, <1>4 DEF IsSet
<1>5. CASE ~ r.value.null
  <2>1. \A n : Current(n)' = Current(n)
    BY <1>1, CallKept
  <2>2. /\ Current(Len(out)) \in Nat /\ Current(Len(out)) <= Len(out)
        /\ Current(Len(out)) <= Current(Len(out'))
        /\ Current(Len(out)) \in Nat /\ Current(Len(out')) \in Nat
    BY <1>1, <1>3, CurrentIs
  <2> DEFINE a == r.value.from
             l == r.value.length
             c == Current(Len(out))
             d == Current(Len(out'))
  <2>3. a \in Nat /\ l \in Nat /\ a + l <= c
    BY <1>2, <1>5
  <2> HIDE DEF a, l, c, d
  <2>4. a + l <= d
    BY <2>2, <2>3 DEF c, d
  <2>5. \A p \in 1 .. l : out'[a + p] = out[a + p]
    <3>1. \A p \in 1 .. l : a + p \in 1 .. Len(out)
      BY <1>3, <2>2, <2>3 DEF c
    <3> QED BY <1>1, <3>1
  <2>6. \A p \in 1 .. r.value.length : r.value.text[p] = out'[r.value.from + p]
    BY <1>2, <1>5, <2>5 DEF a, l
  <2>7. r.value.from + r.value.length <= Current(Len(out))'
    BY <2>1, <2>4 DEF a, l, d
  <2>8. Seq(Symbol)' = Seq(Symbol)
    BY DEF Symbol
  <2> HIDE DEF Symbol
  <2> QED BY <1>2, <1>5, <2>6, <2>7, <2>8 DEF IsSet
<1> QED BY <1>4, <1>5

LEMMA EvidenceKept ==
    ASSUME SpecialIInv, UNCHANGED <<parse, evidence, lastSet>>,
           UNCHANGED overridden, UNCHANGED stage \/ stage # "done"
    PROVE  SpecialIInv'
<1>1. ParseInv' /\ length' = length
  BY Unparsed DEF SpecialIInv, parse
<1>2. PairsInv'
  BY DEF SpecialIInv, PairsInv, IsSequence, IsPair
<1>3. SetInv'
  <2>1. UNCHANGED call /\ out' = out
    BY DEF parse, call
  <2>2. \A n : Current(n)' = Current(n)
    BY <2>1, CallKept
  <2>3. NamesWritten' <=> NamesWritten
    BY <2>1, CallKept DEF NamesWritten
  <2>4. \A r : IsSet(r) => IsSet(r)'
    BY <2>1, <2>2 DEF IsSet, Symbol
  <2> QED BY <2>3, <2>4 DEF SpecialIInv, SetInv
<1>4. OverrideInv'
  BY DEF SpecialIInv, OverrideInv, OverriddenIfComplete, Segments
<1> QED BY <1>1, <1>2, <1>3, <1>4 DEF SpecialIInv

LEMMA TransformPairKeeps ==
    ASSUME SpecialIInv, TransformPair
    PROVE  SpecialIInv'
<1>1. /\ stage = "scan" /\ index \in DOMAIN evidence /\ IsSpecial(evidence[index])
      /\ Start(evidence[index].from.kind, evidence[index].from.text, BufferLength)
      /\ lastSet' = {} /\ evidence' = evidence /\ overridden' = overridden
  BY DEF TransformPair
<1>2. PairsInv /\ OverrideInv
  BY DEF SpecialIInv
<1>3. evidence[index].from.text \in Seq(STRING)
  <2>1. DOMAIN evidence = 1 .. Len(evidence)
    BY <1>2 DEF PairsInv, IsSequence
  <2>2. IsPair(evidence[index])
    BY <1>1, <1>2, <2>1 DEF PairsInv
  <2>3. evidence[index].prefix # "header"
    BY <1>1 DEF IsSpecial
  <2> QED BY <2>2, <2>3 DEF IsPair
<1>4. PICK t \in Seq(STRING) : t = evidence[index].from.text
  BY <1>3
<1>5. PICK k : k = evidence[index].from.kind
  OBVIOUS
<1>6. Start(k, t, BufferLength)
  BY <1>1, <1>4, <1>5
<1>7. ParseInv' /\ length' = BufferLength
  BY <1>6, BufferAssumption, StartKeeps DEF Start
<1>8. PairsInv'
  BY <1>1, <1>2 DEF PairsInv, IsSequence, IsPair
<1>9. SetInv'
  BY <1>1 DEF SetInv
<1>10. OverrideInv'
  BY <1>1, <1>2 DEF OverrideInv
<1> QED BY <1>7, <1>8, <1>9, <1>10 DEF SpecialIInv

LEMMA TransformingKeeps ==
    ASSUME SpecialIInv, Transforming
    PROVE  SpecialIInv'
<1>1. /\ stage = "transform" /\ Parse
      /\ evidence' = evidence /\ lastSet' = lastSet /\ overridden' = overridden
  BY DEF Transforming, detection
<1>2. ParseInv /\ length = BufferLength /\ PairsInv /\ SetInv /\ OverrideInv
  BY DEF SpecialIInv
<1>3. ParseInv' /\ Grows
  BY <1>1, <1>2, ParseKeeps DEF Moves
<1>4. TypeInv /\ TypeInv'
  BY <1>2, <1>3 DEF ParseInv
<1>5. length' = BufferLength
  BY <1>2, <1>3 DEF Grows, call
<1>6. PairsInv'
  BY <1>1, <1>2 DEF PairsInv, IsSequence, IsPair
<1>7. SetInv'
  <2>1. \A r : IsSet(r) => IsSet(r)'
    BY <1>3, <1>4, SetsRemain
  <2>2. \A i \in lastSet' : IsSet(evidence[i])'
    <3>1. ASSUME NEW i \in lastSet PROVE IsSet(evidence[i])'
      <4>1. PICK r : r = evidence[i]
        OBVIOUS
      <4>2. IsSet(r)'
        BY <1>2, <2>1, <4>1 DEF SetInv
      <4>3. evidence'[i] = r
        BY <1>1, <4>1
      <4> QED BY <4>2, <4>3 DEF IsSet
    <3> QED BY <1>1, <3>1
  <2>3. NamesWritten => NamesWritten'
    <3>1. UNCHANGED call /\ Len(out) <= Len(out') /\ \A p \in 1 .. Len(out) : out'[p] = out[p]
      BY <1>3 DEF Grows
    <3>2. Names' = Names /\ \A h : KeyPosition(h)' = KeyPosition(h)
      BY <3>1, CallKept
    <3>3. Len(out) \in Nat /\ Len(out') \in Nat /\ Names \in Nat
      <4>1. out \in Seq(Symbol) /\ out' \in Seq(Symbol)' /\ IsText
        BY <1>4 DEF TypeInv
      <4>2. Seq(Symbol)' = Seq(Symbol)
        BY DEF Symbol
      <4>3. Names \in Nat
        BY <4>1, PositionsAre
      <4> HIDE DEF Symbol
      <4> QED BY <4>1, <4>2, <4>3
    <3>4. \A h \in HeaderSet : KeyPosition(h) \in 1 .. Names
      <4>1. IsText
        BY <1>4 DEF TypeInv
      <4>2. Decoded \in Nat /\ Names = Decoded + 8
        BY <4>1, PositionsAre
      <4>3. ASSUME NEW h \in HeaderSet PROVE KeyPosition(h) \in 1 .. Names
        <5>1. PICK i \in 1 .. 8 : KeyPosition(h) = Decoded + i
          BY <4>1, PositionsAre
        <5> QED BY <4>2, <5>1
      <4> QED BY <4>3
    <3>5. ASSUME NamesWritten, NEW h \in HeaderSet PROVE out'[KeyPosition(h)'] = h
      <4>1. Names <= Len(out) /\ out[KeyPosition(h)] = h
        BY <3>5 DEF NamesWritten
      <4>2. KeyPosition(h) \in 1 .. Len(out)
        <5>1. KeyPosition(h) \in 1 .. Names
          BY <3>4
        <5> HIDE DEF HeaderSet
        <5> QED BY <3>3, <4>1, <5>1
      <4>3. out'[KeyPosition(h)] = out[KeyPosition(h)]
        BY <3>1, <4>2
      <4> QED BY <3>2, <4>1, <4>3
    <3>6. NamesWritten => Names' <= Len(out')
      BY <3>1, <3>2, <3>3 DEF NamesWritten
    <3>7. HeaderSet' = HeaderSet
      BY DEF HeaderSet, Headers
    <3> HIDE DEF HeaderSet
    <3> QED BY <3>5, <3>6, <3>7 DEF NamesWritten
  <2> QED BY <1>1, <1>2, <2>2, <2>3 DEF SetInv
<1>8. OverrideInv'
  BY <1>1, <1>2 DEF OverrideInv
<1> QED BY <1>3, <1>5, <1>6, <1>7, <1>8 DEF SpecialIInv

\* The value that is delivered is in the buffer.
LEMMA DeliveredIsSet ==
    ASSUME ParseInv, pc = "callback", NEW r, r.name \in HeaderSet,
           r.value.null = Pair.value.null, r.value.from = Pair.value.from,
           r.value.length = Pair.value.length, r.value.text = Content(Pair.value)
    PROVE  IsSet(r)
<1> DEFINE v == cache[key]
           a == v.from
           l == v.length
<1>1. TypeInv /\ ValuesInv
  BY DEF ParseInv
<1>2. key \in HeaderSet /\ cache \in [HeaderSet -> Regions] /\ length \in Nat
      /\ out \in Seq(Symbol)
  BY <1>1 DEF TypeInv, ValuesInv
<1>3. v \in Regions /\ Fits(v)
  <2>1. Fits(v)
    BY <1>1, <1>2 DEF ValuesInv
  <2> HIDE DEF HeaderSet
  <2> QED BY <1>2, <2>1
<1>4. Pair.value = v
  BY DEF Pair
<1> HIDE DEF v
<1>5. a \in Nat /\ l \in Nat
  BY <1>3 DEF Regions
<1> DEFINE n == Len(out)
           c == Current(Len(out))
<1>6. n \in Nat
  <2> HIDE DEF Symbol
  <2> QED BY <1>2
<1>7. c \in Nat /\ c <= n
  BY <1>2, <1>6, CurrentIs
<1>8. ASSUME ~ v.null
      PROVE  /\ a + l <= c /\ Content(v) \in Seq(Symbol) /\ Len(Content(v)) = l
             /\ \A p \in 1 .. l : Content(v)[p] = out[a + p]
  <2>1. a + l <= c
    BY <1>3, <1>8 DEF Fits, FitsIn
  <2>2. Content(v) = SubSeq(out, a + 1, a + l)
    BY DEF Content
  <2> HIDE DEF a, l, c, n, Symbol
  <2>3. a + 1 \in 1 .. n + 1 /\ a + l \in a .. n
    BY <1>5, <1>6, <1>7, <2>1
  <2>4. \A i \in a + 1 .. a + l : i \in 1 .. n
    BY <1>5, <1>6, <2>3
  <2>5. /\ SubSeq(out, a + 1, a + l) \in Seq(Symbol)
        /\ Len(SubSeq(out, a + 1, a + l)) = IF a + 1 <= a + l THEN a + l - (a + 1) + 1 ELSE 0
        /\ \A i \in 1 .. a + l - (a + 1) + 1 :
             SubSeq(out, a + 1, a + l)[i] = out[a + 1 + i - 1]
    BY <1>2, <1>5, <2>3, SubSeqProperties DEF n
  <2>6. (IF a + 1 <= a + l THEN a + l - (a + 1) + 1 ELSE 0) = l
    BY <1>5
  <2>7. 1 .. a + l - (a + 1) + 1 = 1 .. l /\ \A i \in 1 .. l : a + 1 + i - 1 = a + i
    BY <1>5
  <2> QED BY <2>1, <2>2, <2>5, <2>6, <2>7
<1>9. r.value.null = v.null /\ r.value.from = a /\ r.value.length = l /\ r.value.text = Content(v)
  BY <1>4
<1> HIDE DEF a, l, c, HeaderSet, Symbol
<1> QED BY <1>5, <1>8, <1>9 DEF IsSet, c

\* A pair that is there is changed, or one is added at the end.
Replaces(e, i, s) ==
    e = [n \in DOMAIN evidence \cup {i} |-> IF n # i THEN evidence[n] ELSE s]

LEMMA ReplacedPair ==
    ASSUME IsSequence(evidence), NEW i \in 1 .. Len(evidence) + 1, NEW s,
           NEW e, Replaces(e, i, s)
    PROVE  /\ IsSequence(e) /\ Len(evidence) <= Len(e) /\ i \in 1 .. Len(e)
           /\ e[i] = s
           /\ \A n \in 1 .. Len(e) : n # i => n \in 1 .. Len(evidence) /\ e[n] = evidence[n]
<1> DEFINE l == Len(evidence)
           m == IF i = l + 1 THEN l + 1 ELSE l
<1>1. l \in Nat /\ DOMAIN evidence = 1 .. l
  BY DEF IsSequence
<1> HIDE DEF l
<1>2. m \in Nat /\ l <= m /\ i \in 1 .. m
  BY <1>1 DEF l
<1>3. 1 .. l \cup {i} = 1 .. m
  BY <1>1 DEF l
<1>4. e = [n \in 1 .. m |-> IF n # i THEN evidence[n] ELSE s]
  <2> HIDE DEF m
  <2> QED BY <1>1, <1>3 DEF Replaces
<1>5. \A n \in 1 .. m : n # i => n \in 1 .. l
  BY <1>1 DEF l
<1> HIDE DEF m
<1>6. e = [n \in 1 .. m |-> e[n]]
  BY <1>4
<1>7. Len(e) = m /\ IsSequence(e)
  BY <1>2, <1>6, FunctionIsSequence
<1> QED BY <1>2, <1>4, <1>5, <1>7 DEF l

LEMMA SetSpecialHeaderKeeps ==
    ASSUME SpecialIInv, SetSpecialHeader
    PROVE  SpecialIInv'
<1> DEFINE found == Matching(key)
           place == IF found = {} THEN Len(evidence) + 1
                    ELSE CHOOSE j \in found : \A n \in found : j <= n
           new == [prefix |-> "header", name |-> key, place |-> KeyPosition(key), value |-> Own,
                   header |-> "NULL", from |-> Own]
           old_ == IF found # {} THEN evidence[place] ELSE new
           value == [type |-> "buffer", null |-> Pair.value.null, from |-> Pair.value.from,
                     length |-> Pair.value.length, text |-> Content(Pair.value)]
           header == IF old_.header # "NULL" THEN old_.header
                     ELSE HeaderOf(old_.name, InBuffer(KeyPosition(key)))
           set == [old_ EXCEPT !.value = value, !.header = header]
<1>1. /\ stage = "transform" /\ pc = "callback"
      /\ evidence' = [n \in DOMAIN evidence \cup {place} |->
                        IF n # place THEN evidence[n] ELSE set]
      /\ lastSet' = lastSet \cup {place}
      /\ Resume(TRUE)
      /\ overridden' = overridden
  BY DEF SetSpecialHeader
<1>2. ParseInv /\ length = BufferLength /\ PairsInv /\ SetInv /\ OverrideInv
  BY DEF SpecialIInv
<1>3. ParseInv' /\ length' = BufferLength /\ UNCHANGED call /\ out' = out
  <2>1. ParseInv'
    BY <1>1, <1>2, ResumeKeeps
  <2> QED BY <1>1, <1>2, <2>1 DEF Resume, call
<1>4. key \in HeaderSet /\ NamesWritten
  BY <1>1, <1>2 DEF ParseInv, NamesInv, ValuesInv
<1>5. /\ IsSequence(evidence) /\ Len(evidence) \in Nat /\ DOMAIN evidence = 1 .. Len(evidence)
      /\ \A n \in 1 .. Len(evidence) : IsPair(evidence[n])
  BY <1>2 DEF PairsInv, IsSequence
<1>6. /\ place \in 1 .. Len(evidence) + 1
      /\ found # {} => place \in 1 .. Len(evidence) /\ evidence[place].name = key
  <2>1. found \subseteq 1 .. Len(evidence) /\ \A n \in found : evidence[n].name = key
    BY <1>5 DEF Matching
  <2>2. CASE found = {}
    <3>1. place = Len(evidence) + 1
      BY <2>2
    <3> HIDE DEF found
    <3> QED BY <1>5, <2>2, <3>1
  <2>3. CASE found # {}
    <3>1. found \in SUBSET Nat
      BY <2>1
    <3>2. \E j \in found : \A n \in found : j <= n
      <4> HIDE DEF found
      <4> QED BY <2>3, <3>1, LeastExists
    <3>3. place \in found
      <4> HIDE DEF found
      <4> QED BY <2>3, <3>2
    <3> HIDE DEF place, found
    <3> QED BY <1>5, <2>1, <3>3
  <2> QED BY <2>2, <2>3
<1>7. IsPair(old_) /\ old_.name = key
  <2>1. CASE found # {}
    <3>1. old_ = evidence[place]
      BY <2>1
    <3> HIDE DEF found, place, old_
    <3> QED BY <1>5, <1>6, <2>1, <3>1
  <2>2. CASE found = {}
    <3>1. old_ = new
      BY <2>2
    <3>2. new.prefix = "header" /\ new.name = key /\ new.place = KeyPosition(key)
          /\ new.value = Own /\ new.header = "NULL" /\ new.from = Own
      OBVIOUS
    <3>3. IsPair(new)
      BY <3>2 DEF IsPair
    <3> HIDE DEF new, found, old_
    <3> QED BY <3>1, <3>2, <3>3
  <2> QED BY <2>1, <2>2
<1> HIDE DEF old_
<1>8. header \in {"NULL", old_.name}
  <2>1. old_.header \in {"NULL", old_.name}
    BY <1>7 DEF IsPair
  <2>2. HeaderOf(old_.name, InBuffer(KeyPosition(key))) \in {"NULL", old_.name}
    BY DEF HeaderOf
  <2> QED BY <2>1, <2>2
<1>9. /\ value.null = Pair.value.null /\ value.from = Pair.value.from
      /\ value.length = Pair.value.length /\ value.text = Content(Pair.value)
  OBVIOUS
<1> HIDE DEF value, header, place, found
<1>10. PICK r : r = old_
  OBVIOUS
<1>11. PICK v : v = value
  OBVIOUS
<1>12. PICK h : h = header
  OBVIOUS
<1>13. PICK i : i = place
  OBVIOUS
<1>14. PICK s : Changes(s, r, v, h)
  BY DEF Changes
<1>15. s = set
  BY <1>10, <1>11, <1>12, <1>14 DEF Changes
<1> HIDE DEF set
<1>16. IsPair(s) /\ s.name = r.name /\ s.value = v
  <2>1. IsPair(r) /\ h \in {"NULL", r.name}
    BY <1>7, <1>8, <1>10, <1>12
  <2> QED BY <1>14, <2>1, PairChanged
<1>17. IsSet(s)
  <2>1. s.name \in HeaderSet
    <3> HIDE DEF HeaderSet
    <3> QED BY <1>4, <1>7, <1>10, <1>16
  <2>2. /\ s.value.null = Pair.value.null /\ s.value.from = Pair.value.from
        /\ s.value.length = Pair.value.length /\ s.value.text = Content(Pair.value)
    BY <1>9, <1>11, <1>16
  <2> QED BY <1>1, <1>2, <2>1, <2>2, DeliveredIsSet
<1>18. \A q : IsSet(q) => IsSet(q)'
  <2>1. \A n : Current(n)' = Current(n)
    BY <1>3, CallKept
  <2> QED BY <1>3, <2>1 DEF IsSet, Symbol
<1>19. PICK e : e = evidence'
  OBVIOUS
<1>20. /\ IsSequence(e) /\ Len(evidence) <= Len(e) /\ i \in 1 .. Len(e) /\ e[i] = s
       /\ \A n \in 1 .. Len(e) : n # i => n \in 1 .. Len(evidence) /\ e[n] = evidence[n]
  <2>1. Replaces(e, i, s)
    BY <1>1, <1>13, <1>15, <1>19 DEF Replaces
  <2>2. i \in 1 .. Len(evidence) + 1
    BY <1>6, <1>13
  <2>3. IsSequence(evidence)
    BY <1>5
  <2> QED BY <2>1, <2>2, <2>3, ReplacedPair
<1>21. PairsInv'
  <2>1. \A n \in 1 .. Len(e) : IsPair(e[n])
    BY <1>5, <1>16, <1>20
  <2> QED BY <1>19, <1>20, <2>1 DEF PairsInv, IsSequence, IsPair
<1>22. SetInv'
  <2>1. lastSet' \subseteq 1 .. Len(evidence')
    <3>1. lastSet \subseteq 1 .. Len(evidence)
      BY <1>2 DEF SetInv
    <3>2. Len(e) \in Nat /\ 1 .. Len(evidence) \subseteq 1 .. Len(e)
      BY <1>5, <1>20 DEF IsSequence
    <3>3. lastSet' = lastSet \cup {i}
      BY <1>1, <1>13
    <3> QED BY <1>19, <1>20, <3>1, <3>2, <3>3
  <2>2. ASSUME NEW n \in lastSet' PROVE IsSet(evidence[n])'
    <3>1. PICK q : q = e[n]
      OBVIOUS
    <3>2. IsSet(q)
      <4>1. CASE n = i
        BY <1>17, <1>20, <3>1, <4>1
      <4>2. CASE n # i
        <5>1. n \in lastSet
          BY <1>1, <1>13, <4>2
        <5>2. IsSet(evidence[n])
          BY <1>2, <5>1 DEF SetInv
        <5>3. e[n] = evidence[n]
          BY <1>19, <1>20, <2>1, <4>2
        <5> QED BY <3>1, <5>2, <5>3
      <4> QED BY <4>1, <4>2
    <3>3. IsSet(q)'
      BY <1>18, <3>2
    <3>4. evidence'[n] = q
      BY <1>19, <3>1
    <3> QED BY <3>3, <3>4 DEF IsSet
  <2>3. NamesWritten'
    BY <1>3, <1>4, CallKept DEF NamesWritten
  <2> QED BY <2>1, <2>2, <2>3 DEF SetInv
<1>23. OverrideInv'
  BY <1>1, <1>2 DEF OverrideInv
<1> QED BY <1>3, <1>21, <1>22, <1>23 DEF SpecialIInv

LEMMA SetEvidenceHeadersKeeps ==
    ASSUME SpecialIInv, SetEvidenceHeaders
    PROVE  SpecialIInv'
<1> DEFINE h(i) == IF evidence[i].header # "NULL" THEN evidence[i].header
                   ELSE HeaderOf(evidence[i].name, NameOf(evidence[i]))
<1>1. /\ stage = "headers" /\ UNCHANGED parse /\ lastSet' = lastSet /\ overridden' = overridden
      /\ evidence' = [i \in DOMAIN evidence |-> [evidence[i] EXCEPT !.header = h(i)]]
  BY DEF SetEvidenceHeaders
<1>2. ParseInv /\ length = BufferLength /\ PairsInv /\ SetInv /\ OverrideInv
  BY DEF SpecialIInv
<1>3. ParseInv' /\ length' = BufferLength /\ UNCHANGED call /\ out' = out
  BY <1>1, <1>2, Unparsed DEF parse, call
<1>4. /\ Len(evidence) \in Nat /\ DOMAIN evidence = 1 .. Len(evidence)
      /\ \A n \in 1 .. Len(evidence) : IsPair(evidence[n])
  BY <1>2 DEF PairsInv, IsSequence
<1>5. PICK e : e = evidence'
  OBVIOUS
<1>6. Len(e) = Len(evidence) /\ IsSequence(e)
  <2>1. e = [n \in 1 .. Len(evidence) |-> e[n]]
    <3> HIDE DEF h
    <3> QED BY <1>1, <1>4, <1>5
  <2>2. PICK m \in Nat : m = Len(evidence)
    BY <1>4
  <2>3. e = [n \in 1 .. m |-> e[n]]
    BY <2>1, <2>2
  <2> QED BY <2>2, <2>3, FunctionIsSequence
<1>7. ASSUME NEW n \in 1 .. Len(evidence)
      PROVE  IsPair(e[n]) /\ e[n].name = evidence[n].name /\ e[n].value = evidence[n].value
  <2>1. PICK r : r = evidence[n]
    OBVIOUS
  <2>2. PICK g : g = h(n)
    OBVIOUS
  <2>3. PICK v : v = r.value
    OBVIOUS
  <2>4. IsPair(r)
    BY <1>4, <2>1
  <2>5. g \in {"NULL", r.name}
    <3>1. evidence[n].header \in {"NULL", r.name}
      BY <2>1, <2>4 DEF IsPair
    <3>2. HeaderOf(evidence[n].name, NameOf(evidence[n])) \in {"NULL", r.name}
      BY <2>1 DEF HeaderOf
    <3> QED BY <2>2, <3>1, <3>2
  <2>6. e[n] = [r EXCEPT !.header = g]
    <3> HIDE DEF h
    <3> QED BY <1>1, <1>4, <1>5, <2>1, <2>2
  <2>7. Changes(e[n], r, v, g)
    <3> DEFINE a == r.prefix
               b == r.name
               c == r.place
               d == r.header
               f == r.from
    <3>1. r = [prefix |-> a, name |-> b, place |-> c, value |-> v, header |-> d, from |-> f]
      BY <2>3, <2>4 DEF IsPair
    <3> HIDE DEF a, b, c, d, f
    <3>2. [r EXCEPT !.value = v] = r
      BY <3>1
    <3> QED BY <2>6, <3>2 DEF Changes
  <2>8. IsPair(e[n]) /\ e[n].name = r.name /\ e[n].value = v
    BY <2>4, <2>5, <2>7, PairChanged
  <2> QED BY <2>1, <2>3, <2>8
<1>8. PairsInv'
  <2>1. \A n \in 1 .. Len(e) : IsPair(e[n])
    BY <1>6, <1>7
  <2> QED BY <1>5, <1>6, <2>1 DEF PairsInv, IsSequence, IsPair
<1>9. SetInv'
  <2>1. \A n : Current(n)' = Current(n)
    BY <1>3, CallKept
  <2>2. ASSUME NEW n \in lastSet PROVE IsSet(evidence[n])'
    <3>1. n \in 1 .. Len(evidence) /\ IsSet(evidence[n])
      BY <1>2 DEF SetInv
    <3>2. evidence'[n].name = evidence[n].name /\ evidence'[n].value = evidence[n].value
      BY <1>5, <1>7, <3>1
    <3> QED BY <1>3, <2>1, <3>1, <3>2 DEF IsSet, Symbol
  <2>3. NamesWritten' <=> NamesWritten
    BY <1>3, CallKept DEF NamesWritten
  <2>4. Len(evidence') = Len(evidence)
    BY <1>5, <1>6
  <2> QED BY <1>1, <1>2, <2>2, <2>3, <2>4 DEF SetInv
<1>10. OverrideInv'
  BY <1>1, <1>2 DEF OverrideInv
<1> QED BY <1>3, <1>8, <1>9, <1>10 DEF SpecialIInv

LEMMA PresentIsComplete ==
    ASSUME GhevInv, PairsInv, stage = "evaluate", AllPresent,
           NEW p \in DOMAIN Properties, NEW s \in DOMAIN Segments(Properties[p]),
           Segments(Properties[p])[s] \in Known
    PROVE  \E j \in DOMAIN evidence : evidence[j].name = Segments(Properties[p])[s]
<1> DEFINE h == Segments(Properties[p])[s]
           There == {i \in DOMAIN ghevHeaders :
                       \E j \in DOMAIN evidence : evidence[j].header = ghevHeaders[i]}
           n == Len(ghevHeaders)
<1>1. ghevHeaders # NoArray /\ Cardinality(There) = n
  BY DEF AllPresent
<1>2. ghevHeaders \in Seq(Known) /\ ItemsOf(ghevHeaders) = NamedIn(Len(Properties))
  BY <1>1 DEF GhevInv
<1>3. n \in Nat /\ DOMAIN ghevHeaders = 1 .. n
  BY <1>2
<1>4. There = DOMAIN ghevHeaders
  <2>1. IsFiniteSet(1 .. n) /\ Cardinality(1 .. n) = n
    <3>1. IsFiniteSet(1 .. n) /\ Cardinality(1 .. n) = IF 1 > n THEN 0 ELSE n - 1 + 1
      BY <1>3, FS_Interval
    <3>2. (IF 1 > n THEN 0 ELSE n - 1 + 1) = n
      BY <1>3
    <3> QED BY <3>1, <3>2
  <2>2. There \subseteq 1 .. n
    BY <1>3
  <2> HIDE DEF There, n
  <2> QED BY <1>1, <1>3, <2>1, <2>2, FS_Subset
<1>5. h \in ItemsOf(ghevHeaders)
  <2>1. p \in 1 .. Len(Properties)
    BY SegmentCountIs
  <2>2. h \in ItemsOf(Segments(Properties[p]))
    BY DEF ItemsOf
  <2> QED BY <1>2, <2>1, <2>2 DEF NamedIn
<1>6. PICK i \in DOMAIN ghevHeaders : ghevHeaders[i] = h
  BY <1>5 DEF ItemsOf
<1>7. PICK j \in DOMAIN evidence : evidence[j].header = h
  BY <1>4, <1>6
<1>8. IsPair(evidence[j])
  BY DEF PairsInv, IsSequence
<1>9. evidence[j].header \in {"NULL", evidence[j].name} /\ h # "NULL"
  <2>1. h # "NULL"
    BY KnownAssumption
  <2> QED BY <1>8, <2>1 DEF IsPair
<1> QED BY <1>7, <1>9

LEMMA OverrideKeeps ==
    ASSUME SpecialIInv, GhevInv, Override
    PROVE  SpecialIInv'
<1>1. /\ stage = "evaluate" /\ stage' = "done" /\ overridden' = AllPresent
      /\ UNCHANGED <<parse, evidence, lastSet>>
  BY DEF Override
<1>2. ParseInv /\ length = BufferLength /\ PairsInv /\ SetInv
  BY DEF SpecialIInv
<1>3. ParseInv' /\ length' = BufferLength /\ UNCHANGED call /\ out' = out
  BY <1>1, <1>2, Unparsed DEF parse, call
<1>4. PairsInv'
  BY <1>1, <1>2 DEF PairsInv, IsSequence, IsPair
<1>5. SetInv'
  <2>1. \A n : Current(n)' = Current(n)
    BY <1>3, CallKept
  <2>2. \A r : IsSet(r) => IsSet(r)'
    BY <1>3, <2>1 DEF IsSet, Symbol
  <2>3. NamesWritten' <=> NamesWritten
    BY <1>3, CallKept DEF NamesWritten
  <2> QED BY <1>1, <1>2, <2>2, <2>3 DEF SetInv
<1>6. OverrideInv'
  <2>1. ASSUME AllPresent PROVE OverriddenIfComplete'
    <3>1. \A p \in DOMAIN Properties : \A s \in DOMAIN Segments(Properties[p]) :
            Segments(Properties[p])[s] \in Known =>
              \E j \in DOMAIN evidence : evidence[j].name = Segments(Properties[p])[s]
      BY <1>1, <1>2, <2>1, PresentIsComplete
    <3> QED BY <1>1, <3>1 DEF OverriddenIfComplete, Segments
  <2> QED BY <1>1, <2>1 DEF OverrideInv
<1> QED BY <1>3, <1>4, <1>5, <1>6 DEF SpecialIInv

LEMMA SpecialStarts ==
    ASSUME Init
    PROVE  SpecialIInv
<1>1. PICK e \in Evidence :
        evidence = [i \in DOMAIN e |->
                      [prefix |-> e[i].prefix, name |-> e[i].name, place |-> 0, value |-> Own,
                       header |-> "NULL", from |-> e[i]]]
  BY DEF Init
<1> DEFINE R == [prefix : STRING, name : STRING, kind : STRING, text : Seq(STRING),
                 pairs : Seq([key : STRING, text : Seq(STRING)]), whole : BOOLEAN]
<1>2. e \in Seq(R)
  BY EvidenceAssumption
<1>3. ASSUME NEW r \in R PROVE r.text \in Seq(STRING)
  OBVIOUS
<1> HIDE DEF R
<1>4. Len(e) \in Nat /\ DOMAIN e = 1 .. Len(e) /\ \A i \in 1 .. Len(e) : e[i].text \in Seq(STRING)
  BY <1>2, <1>3
<1>5. PICK v : v = evidence
  OBVIOUS
<1>6. Len(v) = Len(e) /\ IsSequence(v)
  <2>1. v = [i \in 1 .. Len(e) |-> v[i]]
    BY <1>1, <1>4, <1>5
  <2> QED BY <1>4, <2>1, FunctionIsSequence
<1>7. ASSUME NEW i \in 1 .. Len(e) PROVE IsPair(v[i])
  <2> DEFINE p == e[i].prefix
             n == e[i].name
  <2>1. PICK f : f = e[i]
    OBVIOUS
  <2>2. PICK r : r = v[i]
    OBVIOUS
  <2> HIDE DEF p, n
  <2>3. r = [prefix |-> p, name |-> n, place |-> 0, value |-> Own, header |-> "NULL", from |-> f]
    BY <1>1, <1>4, <1>5, <2>1, <2>2 DEF p, n
  <2>4. r.prefix = p /\ r.name = n /\ r.place = 0 /\ r.value = Own /\ r.header = "NULL"
        /\ r.from = f
    BY <2>3
  <2>5. f.text \in Seq(STRING)
    BY <1>4, <2>1
  <2>6. IsPair(r)
    BY <2>3, <2>4, <2>5 DEF IsPair
  <2> QED BY <2>2, <2>6
<1>8. PairsInv
  BY <1>5, <1>6, <1>7 DEF PairsInv
<1>9. ParseInv
  <2>1. text \in Seq(STRING) /\ pc = "none"
    BY DEF Init
  <2>2. Fresh
    BY <2>1, BufferAssumption DEF Init, Fresh
  <2> QED BY <2>2, FreshIsParsed
<1>10. SetInv /\ OverrideInv /\ length = BufferLength
  BY DEF Init, SetInv, OverrideInv
<1> QED BY <1>8, <1>9, <1>10 DEF SpecialIInv

LEMMA SpecialInvInductive ==
    Spec => []SpecialIInv
<1>1. Init => SpecialIInv
  BY SpecialStarts
<1>2. SpecialIInv /\ GhevInv /\ [Next]_vars => SpecialIInv'
  <2> SUFFICES ASSUME SpecialIInv, GhevInv, [Next]_vars PROVE SpecialIInv'
    OBVIOUS
  <2>1. CASE TransformPair
    BY <2>1, TransformPairKeeps
  <2>2. CASE Transforming
    BY <2>2, TransformingKeeps
  <2>3. CASE SetSpecialHeader
    BY <2>3, SetSpecialHeaderKeeps
  <2>4. CASE SetEvidenceHeaders
    BY <2>4, SetEvidenceHeadersKeeps
  <2>5. CASE Override
    BY <2>5, OverrideKeeps
  <2>6. CASE \/ NotRequired \/ CountProperty \/ CreateArray \/ AddProperty \/ Added \/ ReadFails
             \/ NextPair \/ EndTransform \/ EndScan \/ UNCHANGED vars
    <3>1. UNCHANGED <<parse, evidence, lastSet>> /\ UNCHANGED overridden
      BY <2>6 DEF NotRequired, CountProperty, CreateArray, AddProperty, Added, ReadFails,
                  NextPair, EndTransform, EndScan, vars, detection
    <3>2. UNCHANGED stage \/ stage # "done"
      BY <2>6 DEF NotRequired, CountProperty, CreateArray, AddProperty, Added, ReadFails,
                  NextPair, EndTransform, EndScan, vars
    <3> QED BY <3>1, <3>2, EvidenceKept
  <2> QED BY <2>1, <2>2, <2>3, <2>4, <2>5, <2>6 DEF Next
<1> QED BY <1>1, <1>2, GhevInvInductive, PTL DEF Spec

(***************************************************************************)
(* Whatever the properties and the evidence, the JavaScript that would     *)
(* collect headers (GhevDeviceDetectionAllPresent, hash.c:3047) is given   *)
(* up only when a pair names each of them: the array is complete, and a    *)
(* pair has no header but that of its name.                                *)
(***************************************************************************)
THEOREM OverridesAreComplete ==
    Spec => []OverriddenIfComplete
<1>1. SpecialIInv => OverriddenIfComplete
  BY DEF SpecialIInv, OverrideInv, OverriddenIfComplete
<1> QED BY <1>1, SpecialInvInductive, PTL

(***************************************************************************)
(* Whatever the evidence and the length of the buffer, each pair that the  *)
(* last transform set points to the characters that it wrote, and to the   *)
(* name it wrote, until the detection ends.                                *)
(***************************************************************************)
THEOREM LastTransformStaysIntact ==
    Spec => []LastTransformIsIntact
<1>1. SpecialIInv => LastTransformIsIntact
  <2> SUFFICES ASSUME SpecialIInv, NEW i \in lastSet
               PROVE  ValueIsIntact(evidence[i]) /\ NameIsIntact(evidence[i])
    BY DEF LastTransformIsIntact
  <2> DEFINE r == evidence[i]
             a == r.value.from
             l == r.value.length
             t == r.value.text
             n == Len(out)
             c == Current(n)
  <2>1. TypeInv /\ length = BufferLength /\ IsSet(r) /\ NamesWritten
    BY DEF SpecialIInv, ParseInv, SetInv
  <2>2. IsText /\ length \in Nat /\ n \in Nat
    <3>1. IsText /\ length \in Nat /\ out \in Seq(Symbol)
      BY <2>1 DEF TypeInv
    <3> HIDE DEF Symbol
    <3> QED BY <3>1
  <2>3. /\ Room \in Nat /\ Room <= BufferLength /\ BufferLength \in Nat
        /\ c \in Nat /\ c <= Room
        /\ \A m \in Nat : m <= n /\ m <= Room => m <= c
    <3>1. Room \in Nat /\ Room <= length /\ c \in Nat /\ c <= Room
      BY <2>2, CurrentIs
    <3>2. ASSUME NEW m \in Nat, m <= n, m <= Room PROVE m <= c
      <4>1. Current(m) = m /\ Current(m) <= Current(n)
        BY <2>2, <3>2, CurrentIs
      <4> QED BY <4>1
    <3> QED BY <2>1, <2>2, <3>1, <3>2
  <2> HIDE DEF c
  <2>4. ASSUME NEW m \in Nat, m # 0, m <= c PROVE InBuffer(m) = out[m]
    <3>1. m \in 1 .. BufferLength
      BY <2>3, <2>4
    <3>2. Buffer[m] = out[m]
      BY <2>4, <3>1 DEF Buffer, c
    <3> QED BY <3>1, <3>2 DEF InBuffer
  <2>5. ValueIsIntact(r)
    <3> SUFFICES ASSUME ~ r.value.null PROVE Holds(r.value) = t
      BY DEF ValueIsIntact
    <3>1. /\ a \in Nat /\ l \in Nat /\ a + l <= c
          /\ t \in Seq(Symbol) /\ Len(t) = l
          /\ \A p \in 1 .. l : t[p] = out[a + p]
      BY <2>1 DEF IsSet, c
    <3>2. Holds(r.value) = [p \in 1 .. l |-> InBuffer(a + p)]
      BY DEF Holds
    <3> HIDE DEF a, l, t, r, Symbol, n
    <3>3. t = [p \in 1 .. l |-> t[p]]
      BY <3>1
    <3>4. ASSUME NEW p \in 1 .. l PROVE InBuffer(a + p) = t[p]
      <4>1. a + p \in Nat /\ a + p # 0 /\ a + p <= c
        BY <2>3, <3>1
      <4>2. InBuffer(a + p) = out[a + p]
        BY <2>4, <4>1
      <4> QED BY <3>1, <4>2
    <3>5. [p \in 1 .. l |-> InBuffer(a + p)] = [p \in 1 .. l |-> t[p]]
      BY <3>4
    <3> QED BY <3>2, <3>3, <3>5
  <2>6. NameIsIntact(r)
    <3> SUFFICES ASSUME KeyPosition(Headers[8]) <= Room, r.place = KeyPosition(r.name)
                 PROVE  InBuffer(r.place) = r.name
      BY DEF NameIsIntact
    <3>1. r.name \in HeaderSet
      BY <2>1 DEF IsSet
    <3>2. PICK h \in HeaderSet : h = r.name
      BY <3>1
    <3>3. /\ Decoded \in Nat /\ Names = Decoded + 8 /\ KeyPosition(Headers[8]) = Names
          /\ \E j \in 1 .. 8 : KeyPosition(h) = Decoded + j
      BY <2>2, PositionsAre
    <3>4. PICK m \in Nat : m = KeyPosition(h) /\ m # 0 /\ m <= Names
      <4>1. PICK j \in 1 .. 8 : KeyPosition(h) = Decoded + j
        BY <3>3
      <4>2. Decoded + j \in Nat /\ Decoded + j # 0 /\ Decoded + j <= Names
        BY <3>3
      <4> QED BY <4>1, <4>2
    <3>5. Names <= Room /\ Names <= n /\ out[m] = h
      BY <2>1, <3>3, <3>4 DEF NamesWritten
    <3>6. m <= c
      <4>1. m <= Room /\ m <= n
        <5>1. Names \in Nat
          BY <3>3
        <5> HIDE DEF n
        <5> QED BY <2>2, <2>3, <3>4, <3>5, <5>1
      <4> QED BY <2>3, <4>1
    <3>7. InBuffer(m) = h
      BY <2>4, <3>4, <3>5, <3>6
    <3> QED BY <3>2, <3>4, <3>7
  <2> QED BY <2>5, <2>6
<1> QED BY <1>1, SpecialInvInductive, PTL

-----------------------------------------------------------------------------
(* The names of the evidence.                                                *)

\* No pair is added, and each has the name and the place that it had.
SamePairs ==
    /\ Len(evidence') = Len(evidence) /\ DOMAIN evidence' = DOMAIN evidence
    /\ \A i \in DOMAIN evidence :
         evidence'[i].name = evidence[i].name /\ evidence'[i].place = evidence[i].place

LEMMA SamePairsStayReplaced ==
    ASSUME HeadersAreReplaced, SamePairs, length' = length
    PROVE  HeadersAreReplaced'
<1>1. Room' = Room
  BY DEF Room
<1> QED BY <1>1 DEF HeadersAreReplaced, SamePairs

LEMMA NameIsPlaced ==
    ASSUME ParseInv, pc = "callback"
    PROVE  KeyPosition(key) # 0
<1>1. key \in HeaderSet /\ IsText
  BY DEF ParseInv, TypeInv, ValuesInv
<1>2. Decoded \in Nat /\ \E j \in 1 .. 8 : KeyPosition(key) = Decoded + j
  BY <1>1, PositionsAre
<1> QED BY <1>2

\* A name that is written and fits is in the buffer.
LEMMA NameInBuffer ==
    ASSUME ParseInv, length = BufferLength, pc = "callback", KeyPosition(key) \in 1 .. Room
    PROVE  InBuffer(KeyPosition(key)) = key
<1>1. key \in HeaderSet /\ NamesWritten /\ IsText /\ length \in Nat /\ out \in Seq(Symbol)
  BY DEF ParseInv, TypeInv, NamesInv, ValuesInv
<1>2. PICK h \in HeaderSet : h = key
  BY <1>1
<1>3. PICK j \in 1 .. 8 : KeyPosition(h) = Decoded + j
  BY <1>1, PositionsAre
<1>4. Decoded \in Nat /\ Names = Decoded + 8
  BY <1>1, PositionsAre
<1> DEFINE n == Len(out)
           m == KeyPosition(h)
<1>5. n \in Nat
  <2> HIDE DEF Symbol
  <2> QED BY <1>1
<1>6. Names <= n /\ out[m] = h
  BY <1>1 DEF NamesWritten
<1>7. m \in Nat /\ m <= Room /\ m # 0 /\ Room \in Nat /\ Room <= length
  BY <1>1, <1>2, <1>5, CurrentIs
<1>8. m <= n
  <2>1. m <= Names
    BY <1>3, <1>4
  <2> HIDE DEF n, m
  <2> QED BY <1>4, <1>5, <1>6, <1>7, <2>1
<1> HIDE DEF n, m
<1>9. Current(m) = m /\ Current(m) <= Current(n) /\ Current(n) \in Nat
  BY <1>1, <1>5, <1>7, <1>8, CurrentIs
<1>10. m \in 1 .. BufferLength /\ m <= Current(n)
  BY <1>1, <1>7, <1>9
<1>11. InBuffer(m) = out[m]
  BY <1>10 DEF InBuffer, Buffer, n
<1> QED BY <1>2, <1>6, <1>11 DEF m

LEMMA SetSpecialHeaderReplaces ==
    ASSUME SpecialIInv, HeadersAreReplaced, SetSpecialHeader
    PROVE  HeadersAreReplaced'
<1> DEFINE found == Matching(key)
           place == IF found = {} THEN Len(evidence) + 1
                    ELSE CHOOSE j \in found : \A n \in found : j <= n
           new == [prefix |-> "header", name |-> key, place |-> KeyPosition(key), value |-> Own,
                   header |-> "NULL", from |-> Own]
           old_ == IF found # {} THEN evidence[place] ELSE new
           value == [type |-> "buffer", null |-> Pair.value.null, from |-> Pair.value.from,
                     length |-> Pair.value.length, text |-> Content(Pair.value)]
           header == IF old_.header # "NULL" THEN old_.header
                     ELSE HeaderOf(old_.name, InBuffer(KeyPosition(key)))
           set == [old_ EXCEPT !.value = value, !.header = header]
<1>1. /\ pc = "callback"
      /\ evidence' = [n \in DOMAIN evidence \cup {place} |->
                        IF n # place THEN evidence[n] ELSE set]
      /\ UNCHANGED call
  BY DEF SetSpecialHeader, Resume, call
<1>2. ParseInv /\ length = BufferLength /\ PairsInv
  BY DEF SpecialIInv
<1>3. /\ IsSequence(evidence) /\ Len(evidence) \in Nat /\ DOMAIN evidence = 1 .. Len(evidence)
      /\ \A n \in 1 .. Len(evidence) : IsPair(evidence[n])
  BY <1>2 DEF PairsInv, IsSequence
<1>4. /\ found = {} => place = Len(evidence) + 1
      /\ found # {} => place \in 1 .. Len(evidence) /\ evidence[place].name = key
  <2>1. found \subseteq 1 .. Len(evidence) /\ \A n \in found : evidence[n].name = key
    BY <1>3 DEF Matching
  <2>2. CASE found = {}
    BY <2>2
  <2>3. CASE found # {}
    <3>1. found \in SUBSET Nat
      BY <2>1
    <3>2. \E j \in found : \A n \in found : j <= n
      <4> HIDE DEF found
      <4> QED BY <2>3, <3>1, LeastExists
    <3>3. place \in found
      <4> HIDE DEF found
      <4> QED BY <2>3, <3>2
    <3> HIDE DEF place, found
    <3> QED BY <1>3, <2>1, <2>3, <3>3
  <2> QED BY <2>2, <2>3
<1>5. /\ found = {} => /\ old_.prefix = "header" /\ old_.name = key
                       /\ old_.place = KeyPosition(key) /\ old_.header = "NULL"
                       /\ IsPair(old_)
      /\ found # {} => IsPair(old_) /\ old_ = evidence[place]
  <2>1. CASE found # {}
    <3>1. old_ = evidence[place]
      BY <2>1
    <3> HIDE DEF found, place, old_
    <3> QED BY <1>3, <1>4, <2>1, <3>1
  <2>2. CASE found = {}
    <3>1. old_ = new
      BY <2>2
    <3>2. new.prefix = "header" /\ new.name = key /\ new.place = KeyPosition(key)
          /\ new.value = Own /\ new.header = "NULL" /\ new.from = Own
      OBVIOUS
    <3>3. IsPair(new)
      BY <3>2 DEF IsPair
    <3> HIDE DEF new, found, old_
    <3> QED BY <2>2, <3>1, <3>2, <3>3
  <2> QED BY <2>1, <2>2
<1> HIDE DEF old_, value
<1>6. IsPair(old_) /\ header \in {"NULL", old_.name}
  <2>1. IsPair(old_)
    <3> HIDE DEF found
    <3> QED BY <1>5
  <2>2. old_.header \in {"NULL", old_.name}
    BY <2>1 DEF IsPair
  <2>3. HeaderOf(old_.name, InBuffer(KeyPosition(key))) \in {"NULL", old_.name}
    BY DEF HeaderOf
  <2> QED BY <2>1, <2>2, <2>3
<1>7. PICK e : e = evidence'
  OBVIOUS
<1>8. PICK i : i = place
  OBVIOUS
<1>9. PICK s : s = set
  OBVIOUS
<1> HIDE DEF header
<1>10. s.name = old_.name /\ s.place = old_.place
  <2>1. PICK r : r = old_
    OBVIOUS
  <2>2. PICK v : v = value
    OBVIOUS
  <2>3. PICK h : h = header
    OBVIOUS
  <2>4. Changes(s, r, v, h)
    BY <1>9, <2>1, <2>2, <2>3 DEF Changes
  <2>5. IsPair(r) /\ h \in {"NULL", r.name}
    BY <1>6, <2>1, <2>3
  <2>6. s.name = r.name /\ s.place = r.place
    BY <2>4, <2>5, PairChanged
  <2> QED BY <2>1, <2>6
<1> HIDE DEF set, place
<1>11. /\ IsSequence(e) /\ i \in 1 .. Len(e) /\ e[i] = s
       /\ \A n \in 1 .. Len(e) : n # i => n \in 1 .. Len(evidence) /\ e[n] = evidence[n]
  <2>1. Replaces(e, i, s)
    BY <1>1, <1>7, <1>8, <1>9 DEF Replaces
  <2>2. i \in 1 .. Len(evidence) + 1
    <3> HIDE DEF found
    <3> QED BY <1>3, <1>4, <1>8
  <2>3. IsSequence(evidence)
    BY <1>3
  <2> QED BY <2>1, <2>2, <2>3, ReplacedPair
<1>12. DOMAIN e = 1 .. Len(e)
  BY <1>11 DEF IsSequence
<1>13. Room' = Room
  BY <1>1, CallKept
<1>14. CASE found # {}
  <2>1. s.name = evidence[i].name /\ s.place = evidence[i].place /\ i \in 1 .. Len(evidence)
    <3> HIDE DEF found
    <3> QED BY <1>4, <1>5, <1>8, <1>10, <1>14
  <2>2. \A n \in DOMAIN e : /\ n \in DOMAIN evidence
                            /\ e[n].name = evidence[n].name /\ e[n].place = evidence[n].place
    BY <1>3, <1>11, <1>12, <2>1
  <2> QED BY <1>7, <1>13, <2>2 DEF HeadersAreReplaced
<1>15. CASE found = {}
  \* None of the pairs has the name with a place where it would be found.
  <2>1. s.name = key /\ s.place = KeyPosition(key)
    <3> HIDE DEF found
    <3> QED BY <1>5, <1>10, <1>15
  <2>2. ASSUME NEW n \in DOMAIN e, n # i, e[n].name = key
        PROVE  e[n].place # KeyPosition(key) /\ (e[n].place = 0 => KeyPosition(key) \notin 1 .. Room)
    <3>1. n \in DOMAIN evidence /\ e[n] = evidence[n]
      BY <1>3, <1>11, <1>12, <2>2
    <3>2. NameOf(evidence[n]) # InBuffer(KeyPosition(key))
      BY <1>15, <2>2, <3>1 DEF Matching
    <3>3. CASE e[n].place = 0
      <4>1. InBuffer(KeyPosition(key)) # key
        BY <2>2, <3>1, <3>2, <3>3 DEF NameOf
      <4>2. KeyPosition(key) \notin 1 .. Room
        BY <1>1, <1>2, <4>1, NameInBuffer
      <4>3. KeyPosition(key) # 0
        BY <1>1, <1>2, NameIsPlaced
      <4> QED BY <3>3, <4>2, <4>3
    <3>4. CASE e[n].place # 0
      BY <3>1, <3>2, <3>4 DEF NameOf
    <3> QED BY <3>3, <3>4
  <2>3. ASSUME NEW m \in DOMAIN e, NEW n \in DOMAIN e, m # n, e[m].name = e[n].name,
               e[m].place \in 1 .. Room
        PROVE  e[n].place \notin {0, e[m].place}
    <3>1. CASE m = i
      BY <1>11, <2>1, <2>2, <2>3, <3>1
    <3>2. CASE n = i
      <4>1. e[m].name = key /\ e[m].place # KeyPosition(key) /\ e[n].place = KeyPosition(key)
        BY <1>11, <2>1, <2>2, <2>3, <3>2
      <4>2. KeyPosition(key) # 0
        BY <1>1, <1>2, NameIsPlaced
      <4> QED BY <4>1, <4>2
    <3>3. CASE m # i /\ n # i
      <4>1. m \in DOMAIN evidence /\ n \in DOMAIN evidence /\ e[m] = evidence[m] /\ e[n] = evidence[n]
        BY <1>3, <1>11, <1>12, <3>3
      <4> QED BY <2>3, <4>1 DEF HeadersAreReplaced
    <3> QED BY <3>1, <3>2, <3>3
  <2> QED BY <1>7, <1>13, <2>3 DEF HeadersAreReplaced
<1> QED BY <1>14, <1>15

LEMMA SetEvidenceHeadersReplaces ==
    ASSUME SpecialIInv, SetEvidenceHeaders
    PROVE  SamePairs
<1> DEFINE h(i) == IF evidence[i].header # "NULL" THEN evidence[i].header
                   ELSE HeaderOf(evidence[i].name, NameOf(evidence[i]))
<1>1. evidence' = [i \in DOMAIN evidence |-> [evidence[i] EXCEPT !.header = h(i)]]
  BY DEF SetEvidenceHeaders
<1>2. PICK e : e = evidence'
  OBVIOUS
<1>3. DOMAIN e = 1 .. Len(evidence) /\ DOMAIN evidence = 1 .. Len(evidence)
      /\ Len(evidence) \in Nat /\ \A i \in 1 .. Len(evidence) : IsPair(evidence[i])
  <2>1. Len(evidence) \in Nat /\ DOMAIN evidence = 1 .. Len(evidence)
        /\ \A i \in 1 .. Len(evidence) : IsPair(evidence[i])
    BY DEF SpecialIInv, PairsInv, IsSequence
  <2> HIDE DEF h
  <2> QED BY <1>1, <1>2, <2>1
<1>4. Len(e) = Len(evidence)
  <2>1. PICK m \in Nat : m = Len(evidence)
    BY <1>3
  <2>2. e = [n \in 1 .. m |-> e[n]]
    <3> HIDE DEF h
    <3> QED BY <1>1, <1>2, <1>3, <2>1
  <2> QED BY <2>1, <2>2, FunctionIsSequence
<1>5. ASSUME NEW n \in 1 .. Len(evidence)
      PROVE  e[n].name = evidence[n].name /\ e[n].place = evidence[n].place
  <2>1. PICK r : r = evidence[n]
    OBVIOUS
  <2>2. PICK g : g = h(n)
    OBVIOUS
  <2>3. e[n] = [r EXCEPT !.header = g]
    <3> HIDE DEF h
    <3> QED BY <1>1, <1>2, <1>3, <2>1, <2>2
  <2>4. IsPair(r)
    BY <1>3, <2>1
  <2> DEFINE a == r.prefix
             b == r.name
             c == r.place
             d == r.header
             f == r.from
             v == r.value
  <2>5. r = [prefix |-> a, name |-> b, place |-> c, value |-> v, header |-> d, from |-> f]
    BY <2>4 DEF IsPair
  <2> HIDE DEF a, b, c, d, f, v
  <2>6. e[n].name = b /\ e[n].place = c
    BY <2>3, <2>5
  <2> QED BY <2>1, <2>6 DEF b, c
<1> QED BY <1>2, <1>3, <1>4, <1>5 DEF SamePairs

(***************************************************************************)
(* Whatever the evidence, its special pairs and the length of the buffer,  *)
(* the callback of hash.c adds no pair for a header that a caller provided *)
(* with any prefix, nor for one that a transform added before at the same  *)
(* place of the buffer, provided that the name fits: the search among the  *)
(* pairs finds it, whether its name is the caller's or in the buffer.      *)
(***************************************************************************)
THEOREM HeadersStayReplaced ==
    Spec => []HeadersAreReplaced
<1>1. Init => HeadersAreReplaced
  <2> SUFFICES ASSUME Init PROVE HeadersAreReplaced
    OBVIOUS
  <2>1. PICK e \in Evidence :
          evidence = [i \in DOMAIN e |->
                        [prefix |-> e[i].prefix, name |-> e[i].name, place |-> 0, value |-> Own,
                         header |-> "NULL", from |-> e[i]]]
    BY DEF Init
  <2>2. \A i \in DOMAIN evidence : evidence[i].place = 0
    BY <2>1
  <2>3. \A n : 0 \notin 1 .. n
    OBVIOUS
  <2> QED BY <2>2, <2>3 DEF HeadersAreReplaced
<1>2. SpecialIInv /\ SpecialIInv' /\ HeadersAreReplaced /\ [Next]_vars => HeadersAreReplaced'
  <2> SUFFICES ASSUME SpecialIInv, SpecialIInv', HeadersAreReplaced, [Next]_vars
               PROVE  HeadersAreReplaced'
    OBVIOUS
  <2>1. length' = length
    BY DEF SpecialIInv
  <2>2. CASE SetSpecialHeader
    BY <2>2, SetSpecialHeaderReplaces
  <2>3. CASE SetEvidenceHeaders
    BY <2>1, <2>3, SetEvidenceHeadersReplaces, SamePairsStayReplaced
  <2>4. CASE UNCHANGED evidence
    <3>1. SamePairs
      BY <2>4 DEF SamePairs
    <3> QED BY <2>1, <3>1, SamePairsStayReplaced
  <2>5. SetSpecialHeader \/ SetEvidenceHeaders \/ UNCHANGED evidence
    BY DEF Next, vars, detection, NotRequired, CountProperty, CreateArray, AddProperty, Added,
           ReadFails, NextPair, TransformPair, Transforming, EndTransform, EndScan, Override
  <2> QED BY <2>2, <2>3, <2>4, <2>5
<1> QED BY <1>1, <1>2, SpecialInvInductive, PTL DEF Spec
-----------------------------------------------------------------------------
(* What is left of a detection.                                              *)

StagesLeft ==
    CASE stage = "count" -> 5
      [] stage = "add" -> 4
      [] stage \in {"scan", "transform"} -> 3
      [] stage = "headers" -> 2
      [] stage = "evaluate" -> 1
      [] OTHER -> 0
RoundsLeft ==
    CASE stage \in {"count", "add"} -> Len(Properties) + 1 - index
      [] stage \in {"scan", "transform"} -> SpecialsLeft
      [] OTHER -> 0
PairsLeft == IF stage = "scan" THEN Len(evidence) + 1 - index ELSE 0
WorkLeft == IF stage = "transform" THEN Left ELSE 0

LEMMA LowerIs ==
    ASSUME \/ StagesLeft' \in 0 .. (StagesLeft - 1)
           \/ StagesLeft' = StagesLeft /\ RoundsLeft' \in 0 .. (RoundsLeft - 1)
           \/ /\ StagesLeft' = StagesLeft /\ RoundsLeft' = RoundsLeft
              /\ PairsLeft' \in 0 .. (PairsLeft - 1)
           \/ /\ StagesLeft' = StagesLeft /\ RoundsLeft' = RoundsLeft /\ PairsLeft' = PairsLeft
              /\ WorkLeft' \in 0 .. (WorkLeft - 1)
    PROVE  Lower(ToGo', ToGo)
<1> DEFINE b == <<StagesLeft, RoundsLeft, PairsLeft, WorkLeft>>
           a == <<StagesLeft', RoundsLeft', PairsLeft', WorkLeft'>>
<1>1. ToGo = b /\ ToGo' = a
  BY DEF ToGo, StagesLeft, RoundsLeft, PairsLeft, WorkLeft
<1>2. /\ DOMAIN b = 1 .. 4
      /\ b[1] = StagesLeft /\ b[2] = RoundsLeft /\ b[3] = PairsLeft /\ b[4] = WorkLeft
      /\ a[1] = StagesLeft' /\ a[2] = RoundsLeft' /\ a[3] = PairsLeft' /\ a[4] = WorkLeft'
  OBVIOUS
<1> HIDE DEF a, b
<1>3. /\ \A j \in 1 .. (1 - 1) : FALSE
      /\ \A j \in 1 .. (2 - 1) : j = 1
      /\ \A j \in 1 .. (3 - 1) : j = 1 \/ j = 2
      /\ \A j \in 1 .. (4 - 1) : j = 1 \/ j = 2 \/ j = 3
  OBVIOUS
<1>4. \E k \in 1 .. 4 : /\ a[k] \in 0 .. (b[k] - 1)
                        /\ \A j \in 1 .. (k - 1) : a[j] = b[j]
  <2>1. CASE StagesLeft' \in 0 .. (StagesLeft - 1)
    <3> WITNESS 1 \in 1 .. 4
    <3> QED BY <1>2, <1>3, <2>1
  <2>2. CASE StagesLeft' = StagesLeft /\ RoundsLeft' \in 0 .. (RoundsLeft - 1)
    <3> WITNESS 2 \in 1 .. 4
    <3> QED BY <1>2, <1>3, <2>2
  <2>3. CASE /\ StagesLeft' = StagesLeft /\ RoundsLeft' = RoundsLeft
             /\ PairsLeft' \in 0 .. (PairsLeft - 1)
    <3> WITNESS 3 \in 1 .. 4
    <3> QED BY <1>2, <1>3, <2>3
  <2>4. CASE /\ StagesLeft' = StagesLeft /\ RoundsLeft' = RoundsLeft /\ PairsLeft' = PairsLeft
             /\ WorkLeft' \in 0 .. (WorkLeft - 1)
    <3> WITNESS 4 \in 1 .. 4
    <3> QED BY <1>2, <1>3, <2>4
  <2> QED BY <2>1, <2>2, <2>3, <2>4
<1>5. Lower(a, b)
  BY <1>2, <1>4 DEF Lower
<1> QED BY <1>1, <1>5

\* A step that comes to a later stage.
LEMMA LaterStage ==
    ASSUME \/ stage = "count" /\ stage' \in {"add", "scan", "failed"}
           \/ stage = "add" /\ stage' \in {"scan", "failed"}
           \/ stage \in {"scan", "transform"} /\ stage' = "headers"
           \/ stage = "headers" /\ stage' = "evaluate"
           \/ stage = "evaluate" /\ stage' = "done"
    PROVE  Lower(ToGo', ToGo)
<1>1. StagesLeft' \in 0 .. (StagesLeft - 1)
  BY DEF StagesLeft
<1> QED BY <1>1, LowerIs

LEMMA NextProperty ==
    ASSUME GhevInv, stage \in {"count", "add"}, stage' = stage,
           index \in DOMAIN Properties, index' = index + 1
    PROVE  Lower(ToGo', ToGo)
<1>1. StagesLeft' = StagesLeft
  BY DEF StagesLeft
<1>2. Len(Properties) \in Nat /\ index \in 1 .. Len(Properties)
  BY PropertiesAssumption
<1>3. /\ RoundsLeft = Len(Properties) + 1 - index
      /\ RoundsLeft' = Len(Properties) + 1 - (index + 1)
  BY DEF RoundsLeft
<1>4. RoundsLeft' \in 0 .. (RoundsLeft - 1)
  BY <1>2, <1>3
<1> QED BY <1>1, <1>4, LowerIs

\* What the iteration over the evidence relies on.
ScanInv ==
    /\ stage \in {"scan", "transform"} => index \in Nat \ {0}
    /\ stage = "transform" => index <= Len(evidence) /\ IsSpecial(evidence[index])
    /\ pc \in {"decode", "keys"} => at = 1

\* The pairs from a place on that may be transformed.
Specials(n) == {i \in n .. Len(evidence) : IsSpecial(evidence[i])}

LEMMA SpecialsAre ==
    ASSUME NEW n \in Nat, Len(evidence) \in Nat
    PROVE  /\ IsFiniteSet(Specials(n)) /\ Cardinality(Specials(n)) \in Nat
           /\ n <= Len(evidence) /\ IsSpecial(evidence[n]) =>
                Cardinality(Specials(n + 1)) \in 0 .. Cardinality(Specials(n)) - 1
           /\ ~ IsSpecial(evidence[n]) => Specials(n + 1) = Specials(n)
<1>1. \A m \in Nat : IsFiniteSet(Specials(m)) /\ Cardinality(Specials(m)) \in Nat
  <2> SUFFICES ASSUME NEW m \in Nat
               PROVE  IsFiniteSet(Specials(m)) /\ Cardinality(Specials(m)) \in Nat
    OBVIOUS
  <2>1. IsFiniteSet(m .. Len(evidence))
    BY FS_Interval
  <2>2. Specials(m) \in SUBSET (m .. Len(evidence))
    BY DEF Specials
  <2> QED BY <2>1, <2>2, FS_Subset, FS_CardinalityType
<1>2. ASSUME n <= Len(evidence), IsSpecial(evidence[n])
      PROVE  Cardinality(Specials(n + 1)) \in 0 .. Cardinality(Specials(n)) - 1
  <2>1. n \in Specials(n) /\ Specials(n + 1) = Specials(n) \ {n}
    BY <1>2 DEF Specials
  <2>2. Cardinality(Specials(n) \ {n}) = Cardinality(Specials(n)) - 1
    BY <1>1, <2>1, FS_RemoveElement
  <2>3. Cardinality(Specials(n)) \in Nat /\ Cardinality(Specials(n + 1)) \in Nat
    BY <1>1
  <2>4. Cardinality(Specials(n + 1)) = Cardinality(Specials(n)) - 1
    BY <2>1, <2>2
  <2>5. \A a, b \in Nat : a = b - 1 => a \in 0 .. b - 1
    OBVIOUS
  <2> QED BY <2>3, <2>4, <2>5
<1>3. ASSUME ~ IsSpecial(evidence[n]) PROVE Specials(n + 1) = Specials(n)
  BY <1>3 DEF Specials
<1> QED BY <1>1, <1>2, <1>3

\* A pair that is set keeps its prefix and name, one that is added is a header.
LEMMA SetSpecialHeaderChanges ==
    ASSUME SpecialIInv, SetSpecialHeader
    PROVE  \E i \in 1 .. Len(evidence) + 1 : \E s :
             /\ Replaces(evidence', i, s)
             /\ i <= Len(evidence) => IsSpecial(s) = IsSpecial(evidence[i])
             /\ i > Len(evidence) => ~ IsSpecial(s)
<1> DEFINE found == Matching(key)
           place == IF found = {} THEN Len(evidence) + 1
                    ELSE CHOOSE j \in found : \A n \in found : j <= n
           new == [prefix |-> "header", name |-> key, place |-> KeyPosition(key), value |-> Own,
                   header |-> "NULL", from |-> Own]
           old_ == IF found # {} THEN evidence[place] ELSE new
           value == [type |-> "buffer", null |-> Pair.value.null, from |-> Pair.value.from,
                     length |-> Pair.value.length, text |-> Content(Pair.value)]
           header == IF old_.header # "NULL" THEN old_.header
                     ELSE HeaderOf(old_.name, InBuffer(KeyPosition(key)))
           set == [old_ EXCEPT !.value = value, !.header = header]
<1>1. evidence' = [n \in DOMAIN evidence \cup {place} |-> IF n # place THEN evidence[n] ELSE set]
  BY DEF SetSpecialHeader
<1>2. /\ IsSequence(evidence) /\ Len(evidence) \in Nat /\ DOMAIN evidence = 1 .. Len(evidence)
      /\ \A n \in 1 .. Len(evidence) : IsPair(evidence[n])
  BY DEF SpecialIInv, PairsInv, IsSequence
<1>3. /\ found = {} => place = Len(evidence) + 1
      /\ found # {} => place \in 1 .. Len(evidence)
  <2>1. found \subseteq 1 .. Len(evidence)
    BY <1>2 DEF Matching
  <2>2. CASE found = {}
    BY <2>2
  <2>3. CASE found # {}
    <3>1. found \in SUBSET Nat
      BY <2>1
    <3> HIDE DEF found
    <3>2. \E j \in found : \A n \in found : j <= n
      BY <2>3, <3>1, LeastExists
    <3>3. place \in found
      BY <2>3, <3>2
    <3> HIDE DEF place
    <3> QED BY <2>1, <2>3, <3>3
  <2> QED BY <2>2, <2>3
<1>4. /\ IsPair(old_)
      /\ found = {} => old_.prefix = "header"
      /\ found # {} => old_ = evidence[place]
  <2>1. CASE found # {}
    <3>1. old_ = evidence[place]
      BY <2>1
    <3> HIDE DEF found, place, old_
    <3> QED BY <1>2, <1>3, <2>1, <3>1
  <2>2. CASE found = {}
    <3>1. old_ = new
      BY <2>2
    <3>2. new.prefix = "header" /\ new.header = "NULL" /\ IsPair(new)
      BY DEF IsPair
    <3> HIDE DEF new, found, old_
    <3> QED BY <2>2, <3>1, <3>2
  <2> QED BY <2>1, <2>2
<1> HIDE DEF old_, value
<1>5. header \in {"NULL", old_.name}
  <2>1. old_.header \in {"NULL", old_.name}
    BY <1>4 DEF IsPair
  <2>2. HeaderOf(old_.name, InBuffer(KeyPosition(key))) \in {"NULL", old_.name}
    BY DEF HeaderOf
  <2> QED BY <2>1, <2>2
<1>6. PICK s : s = set
  OBVIOUS
<1> HIDE DEF header
<1>7. s.name = old_.name /\ s.prefix = old_.prefix
  <2>1. Changes(s, old_, value, header)
    BY <1>6 DEF Changes
  <2> QED BY <1>4, <1>5, <2>1, PairChanged
<1> HIDE DEF set
<1>8. Replaces(evidence', place, s)
  BY <1>1, <1>6 DEF Replaces
<1>9. CASE found = {}
  <2>1. ~ IsSpecial(s)
    BY <1>4, <1>7, <1>9 DEF IsSpecial
  <2>2. place \in 1 .. Len(evidence) + 1 /\ place > Len(evidence)
    BY <1>2, <1>3, <1>9
  <2> HIDE DEF found, place
  <2> QED BY <1>2, <1>8, <2>1, <2>2
<1>10. CASE found # {}
  <2>1. IsSpecial(s) = IsSpecial(evidence[place])
    BY <1>4, <1>7, <1>10 DEF IsSpecial
  <2>2. place \in 1 .. Len(evidence) + 1 /\ ~ (place > Len(evidence))
    BY <1>2, <1>3, <1>10
  <2> HIDE DEF found, place
  <2> QED BY <1>8, <2>1, <2>2
<1> QED BY <1>9, <1>10

LEMMA SpecialsStay ==
    ASSUME SpecialIInv, SetSpecialHeader, NEW n \in Nat \ {0}
    PROVE  /\ {i \in n .. Len(evidence') : IsSpecial(evidence'[i])} = Specials(n)
           /\ Len(evidence) <= Len(evidence') /\ Len(evidence) \in Nat /\ Len(evidence') \in Nat
<1>1. IsSequence(evidence) /\ Len(evidence) \in Nat
  BY DEF SpecialIInv, PairsInv, IsSequence
<1>2. PICK i \in 1 .. Len(evidence) + 1 : \E s :
        /\ Replaces(evidence', i, s)
        /\ i <= Len(evidence) => IsSpecial(s) = IsSpecial(evidence[i])
        /\ i > Len(evidence) => ~ IsSpecial(s)
  BY SetSpecialHeaderChanges
<1>3. PICK s : /\ Replaces(evidence', i, s)
               /\ i <= Len(evidence) => IsSpecial(s) = IsSpecial(evidence[i])
               /\ i > Len(evidence) => ~ IsSpecial(s)
  BY <1>2
<1>4. PICK e : e = evidence'
  OBVIOUS
<1>5. /\ IsSequence(e) /\ Len(evidence) <= Len(e) /\ i \in 1 .. Len(e) /\ e[i] = s
      /\ \A k \in 1 .. Len(e) : k # i => k \in 1 .. Len(evidence) /\ e[k] = evidence[k]
  BY <1>1, <1>3, <1>4, ReplacedPair
<1>6. Len(e) \in Nat
  BY <1>5 DEF IsSequence
<1>7. \A k \in n .. Len(e) : IsSpecial(e[k]) => k \in Specials(n)
  <2> SUFFICES ASSUME NEW k \in n .. Len(e), IsSpecial(e[k])
               PROVE  k \in n .. Len(evidence) /\ IsSpecial(evidence[k])
    BY DEF Specials
  <2>1. CASE k = i
    BY <1>1, <1>3, <1>5, <2>1
  <2>2. CASE k # i
    BY <1>1, <1>5, <1>6, <2>2
  <2> QED BY <2>1, <2>2
<1>8. \A k \in Specials(n) : k \in n .. Len(e) /\ IsSpecial(e[k])
  <2> SUFFICES ASSUME NEW k \in n .. Len(evidence), IsSpecial(evidence[k])
               PROVE  k \in n .. Len(e) /\ IsSpecial(e[k])
    BY DEF Specials
  <2>1. k \in n .. Len(e) /\ k \in 1 .. Len(e)
    BY <1>1, <1>5, <1>6
  <2>2. CASE k = i
    BY <1>1, <1>3, <1>5, <2>1, <2>2
  <2>3. CASE k # i
    BY <1>5, <2>1, <2>3
  <2> QED BY <2>1, <2>2, <2>3
<1>9. {k \in n .. Len(e) : IsSpecial(e[k])} = Specials(n)
  BY <1>7, <1>8
<1> QED BY <1>1, <1>4, <1>5, <1>6, <1>9

LEMMA ScanInvInductive ==
    Spec => []ScanInv
<1>1. Init => ScanInv
  BY DEF Init, ScanInv
<1>2. SpecialIInv /\ GhevInv /\ ScanInv /\ [Next]_vars => ScanInv'
  <2> SUFFICES ASSUME SpecialIInv, GhevInv, ScanInv, [Next]_vars PROVE ScanInv'
    OBVIOUS
  <2>0. ParseInv /\ Len(evidence) \in Nat /\ DOMAIN evidence = 1 .. Len(evidence)
    BY DEF SpecialIInv, PairsInv, IsSequence
  <2>1. CASE NotRequired \/ CreateArray \/ Added
    <3>1. stage \in {"count", "add"} /\ stage' # "transform" /\ UNCHANGED parse
          /\ (index' = index \/ index' = 1)
      BY <2>1 DEF NotRequired, CreateArray, Added
    <3>2. index \in Nat \ {0}
      BY <3>1, PropertiesAssumption DEF GhevInv
    <3> QED BY <3>1, <3>2 DEF ScanInv, parse
  <2>2. CASE CountProperty \/ AddProperty \/ ReadFails \/ SetEvidenceHeaders \/ Override \/ EndScan
    <3>1. stage' \notin {"scan", "transform"} /\ UNCHANGED parse
      BY <2>2 DEF CountProperty, AddProperty, ReadFails, SetEvidenceHeaders, Override, EndScan
    <3> QED BY <3>1 DEF ScanInv, parse
  <2>3. CASE NextPair \/ EndTransform
    <3>1. stage \in {"scan", "transform"} /\ stage' # "transform" /\ UNCHANGED parse
          /\ (index' = index \/ index' = index + 1)
      BY <2>3 DEF NextPair, EndTransform
    <3> QED BY <3>1 DEF ScanInv, parse
  <2>4. CASE TransformPair
    <3>1. /\ stage = "scan" /\ index \in DOMAIN evidence /\ IsSpecial(evidence[index])
          /\ UNCHANGED <<index, evidence>> /\ at' = 1
      BY <2>4 DEF TransformPair, Start, init
    <3> QED BY <2>0, <3>1 DEF ScanInv, IsSpecial
  <2>5. CASE Transforming
    <3>1. Parse /\ UNCHANGED <<index, evidence, stage>>
      BY <2>5 DEF Transforming, detection
    <3>2. pc' \in {"decode", "keys"} => pc = "decode" /\ at' = at
      <4>1. CASE Reads
        BY <2>0, <4>1, ReadingAdvances
      <4>2. CASE Decode
        BY <2>0, <4>2, DecodeAdvances
      <4>3. CASE DecodeBroken \/ WriteKeys \/ Complete
        BY <4>3 DEF DecodeBroken, WriteKeys, Complete
      <4> QED BY <3>1, <4>1, <4>2, <4>3 DEF Parse, Reads
    <3> QED BY <3>1, <3>2 DEF ScanInv, IsSpecial
  <2>6. CASE SetSpecialHeader
    <3>1. stage = "transform" /\ Resume(TRUE) /\ UNCHANGED <<index, stage>>
      BY <2>6 DEF SetSpecialHeader
    <3>2. pc' \notin {"decode", "keys"}
      BY <2>0, <3>1, ResumeAdvances
    <3>3. index \in Specials(index)
      BY <2>0, <3>1 DEF ScanInv, Specials
    <3>4. index \in {i \in index .. Len(evidence') : IsSpecial(evidence'[i])}
      BY <2>6, <3>1, <3>3, SpecialsStay DEF ScanInv
    <3>5. index <= Len(evidence') /\ IsSpecial(evidence'[index])
      BY <2>6, <3>1, <3>4, SpecialsStay DEF ScanInv
    <3> QED BY <3>1, <3>2, <3>5 DEF ScanInv, IsSpecial
  <2>7. CASE UNCHANGED vars
    BY <2>7 DEF vars, parse, ScanInv, IsSpecial
  <2> QED BY <2>1, <2>2, <2>3, <2>4, <2>5, <2>6, <2>7 DEF Next
<1> QED BY <1>1, <1>2, SpecialInvInductive, GhevInvInductive, PTL DEF Spec

\* A step of a transform leaves less of it.
LEMMA ParseLeavesLess ==
    ASSUME ParseInv, pc \in {"decode", "keys"} => at = 1, Parse
    PROVE  Left' \in 0 .. Left - 1
<1>0. ParseInv' /\ UNCHANGED call
  BY ParseKeeps DEF Moves, Grows
<1>1. CASE Reads
  <2>1. /\ at <= at' /\ (at < at' \/ Steps' < Steps) /\ pc \in Reading \cup {"key"}
        /\ pc' # "returned"
    BY <1>1, ReadingAdvances DEF Advances
  <2>2. pc # "returned"
    BY <2>1 DEF Reading, Brands
  <2>3. Left' \in 1 .. Left - 1
    BY <1>0, <2>1, <2>2, LeftGetsLess
  <2> QED BY <2>2, <2>3, LeftIs
<1>2. CASE WriteKeys
  <2>1. pc = "keys" /\ pc' \in {"key", "complete"} /\ at = 1
    BY <1>2, WriteKeysAdvances
  <2>2. at' \in 1 .. Last
    BY <1>0, CallKept DEF ParseInv, TypeInv
  <2>3. Steps = 6 /\ Steps' \in {1, 2}
    BY <2>1, StepsAre, StepsWillBe
  <2>4. at <= at' /\ Steps' < Steps
    BY <2>1, <2>2, <2>3, StepFacts
  <2>5. Left' \in 1 .. Left - 1
    BY <1>0, <2>1, <2>4, LeftGetsLess
  <2> QED BY <2>1, <2>5, LeftIs
<1>3. CASE Decode /\ pc' = "keys"
  <2>1. at' = at /\ pc = "decode"
    BY <1>3, DecodeAdvances
  <2>2. Steps = 7 /\ Steps' = 6 /\ at \in Nat
    BY <1>3, <2>1, StepsAre, StepsWillBe, StepFacts
  <2>3. at <= at' /\ Steps' < Steps
    BY <2>1, <2>2
  <2>4. Left' \in 1 .. Left - 1
    BY <1>0, <1>3, <2>1, <2>3, LeftGetsLess
  <2> QED BY <2>1, <2>4, LeftIs
<1>4. CASE pc \in {"decode", "complete"} /\ pc' = "returned"
  <2>1. Left' = 0 /\ Left \in Nat \ {0}
    BY <1>4, LeftIs DEF Left
  <2> QED BY <2>1
<1>5. Reads \/ WriteKeys \/ (Decode /\ pc' = "keys")
      \/ (pc \in {"decode", "complete"} /\ pc' = "returned")
  BY DecodeAdvances DEF Parse, Reads, DecodeBroken, Complete
<1> QED BY <1>1, <1>2, <1>3, <1>4, <1>5

LEMMA ScanLower ==
    ASSUME SpecialIInv, SpecialIInv', ScanInv,
           NextPair \/ TransformPair \/ Transforming \/ SetSpecialHeader
             \/ (EndTransform /\ stage' = "scan")
    PROVE  Lower(ToGo', ToGo)
<1>0. /\ ParseInv /\ ParseInv' /\ Len(evidence) \in Nat /\ Len(evidence') \in Nat
      /\ DOMAIN evidence = 1 .. Len(evidence)
  BY DEF SpecialIInv, PairsInv, IsSequence
<1>1. /\ stage \in {"scan", "transform"} /\ stage' \in {"scan", "transform"}
      /\ index \in Nat \ {0}
  BY DEF NextPair, TransformPair, Transforming, SetSpecialHeader, EndTransform, ScanInv
<1>2. StagesLeft' = StagesLeft
  BY <1>1 DEF StagesLeft
<1>3. /\ RoundsLeft = Cardinality(Specials(index))
      /\ RoundsLeft' = Cardinality({i \in index' .. Len(evidence') : IsSpecial(evidence'[i])})
  BY <1>1 DEF RoundsLeft, SpecialsLeft, Specials, IsSpecial
<1>4. evidence' = evidence => RoundsLeft' = Cardinality(Specials(index'))
  BY <1>3 DEF Specials
<1>5. CASE NextPair
  <2>1. /\ stage = "scan" /\ stage' = "scan" /\ index \in 1 .. Len(evidence)
        /\ ~ IsSpecial(evidence[index]) /\ index' = index + 1 /\ evidence' = evidence
    BY <1>0, <1>5 DEF NextPair, detection
  <2>2. RoundsLeft' = RoundsLeft
    BY <1>0, <1>1, <1>3, <1>4, <2>1, SpecialsAre
  <2>3. PairsLeft = Len(evidence) + 1 - index /\ PairsLeft' = Len(evidence) + 1 - (index + 1)
    BY <2>1 DEF PairsLeft
  <2>4. PairsLeft' \in 0 .. (PairsLeft - 1)
    BY <1>0, <2>1, <2>3
  <2> QED BY <1>2, <2>2, <2>4, LowerIs
<1>6. CASE TransformPair
  <2>1. /\ stage = "scan" /\ stage' = "transform" /\ index \in 1 .. Len(evidence)
        /\ index' = index /\ evidence' = evidence
    BY <1>0, <1>6 DEF TransformPair
  <2>2. RoundsLeft' = RoundsLeft
    BY <1>3, <1>4, <2>1
  <2>3. PairsLeft = Len(evidence) + 1 - index /\ PairsLeft' = 0
    BY <2>1 DEF PairsLeft
  <2>4. PairsLeft' \in 0 .. (PairsLeft - 1)
    BY <1>0, <2>1, <2>3
  <2> QED BY <1>2, <2>2, <2>4, LowerIs
<1>7. CASE Transforming
  <2>1. /\ stage = "transform" /\ stage' = "transform" /\ Parse
        /\ index' = index /\ evidence' = evidence
    BY <1>7 DEF Transforming, detection
  <2>2. RoundsLeft' = RoundsLeft /\ PairsLeft' = PairsLeft
    BY <1>3, <1>4, <2>1 DEF PairsLeft
  <2>3. WorkLeft' \in 0 .. (WorkLeft - 1)
    BY <1>0, <2>1, ParseLeavesLess DEF WorkLeft, ScanInv
  <2> QED BY <1>2, <2>2, <2>3, LowerIs
<1>8. CASE SetSpecialHeader
  <2>1. stage = "transform" /\ stage' = "transform" /\ index' = index /\ Resume(TRUE)
    BY <1>8 DEF SetSpecialHeader
  <2>2. RoundsLeft' = RoundsLeft
    BY <1>1, <1>3, <1>8, <2>1, SpecialsStay
  <2>3. PairsLeft' = PairsLeft
    BY <2>1 DEF PairsLeft
  <2>4. /\ at <= at' /\ Steps' < Steps /\ UNCHANGED call
        /\ pc # "returned" /\ pc' # "returned"
    BY <1>0, <2>1, ResumeAdvances
  <2>5. Left' \in 1 .. Left - 1 /\ Left \in Nat
    BY <1>0, <2>4, LeftGetsLess, LeftIs
  <2>6. WorkLeft' \in 0 .. (WorkLeft - 1)
    BY <2>1, <2>5 DEF WorkLeft
  <2> QED BY <1>2, <2>2, <2>3, <2>6, LowerIs
<1>9. CASE EndTransform /\ stage' = "scan"
  <2>1. stage = "transform" /\ index' = index + 1 /\ evidence' = evidence
    BY <1>9 DEF EndTransform, detection
  <2>2. index <= Len(evidence) /\ IsSpecial(evidence[index])
    BY <2>1 DEF ScanInv
  <2>3. RoundsLeft' \in 0 .. (RoundsLeft - 1)
    BY <1>0, <1>1, <1>3, <1>4, <2>1, <2>2, SpecialsAre
  <2> QED BY <1>2, <2>3, LowerIs
<1> QED BY <1>5, <1>6, <1>7, <1>8, <1>9

(***************************************************************************)
(* Whatever the properties, the evidence and the texts, each step of       *)
(* gethighentropyvalues.c and of setSpecialHeaders (hash.c:2507-2625) is   *)
(* one of finitely many: a transform adds pairs to the evidence that is    *)
(* iterated, but none that is a getHighEntropyValues result or a           *)
(* device.sua, and the parser moves on in its text.                        *)
(***************************************************************************)
THEOREM EachStepComesCloser ==
    Spec => ComesCloser
<1>1. SpecialIInv /\ SpecialIInv' /\ GhevInv /\ ScanInv /\ [Next]_vars => [Lower(ToGo', ToGo)]_vars
  <2> SUFFICES ASSUME SpecialIInv, SpecialIInv', GhevInv, ScanInv, Next
               PROVE  Lower(ToGo', ToGo)
    OBVIOUS
  <2>1. CASE NotRequired \/ CreateArray \/ Added \/ ReadFails \/ EndScan \/ SetEvidenceHeaders
             \/ Override \/ (EndTransform /\ stage' = "headers")
    BY <2>1, LaterStage DEF NotRequired, CreateArray, Added, ReadFails, EndScan,
                            SetEvidenceHeaders, Override, EndTransform
  <2>2. CASE CountProperty \/ AddProperty
    BY <2>2, NextProperty DEF CountProperty, AddProperty
  <2>3. CASE NextPair \/ TransformPair \/ Transforming \/ SetSpecialHeader
             \/ (EndTransform /\ stage' = "scan")
    BY <2>3, ScanLower
  <2>4. EndTransform => stage' \in {"scan", "headers"}
    BY DEF EndTransform
  <2> QED BY <2>1, <2>2, <2>3, <2>4 DEF Next
<1> QED BY <1>1, SpecialInvInductive, GhevInvInductive, ScanInvInductive, PTL DEF Spec, ComesCloser
=============================================================================
