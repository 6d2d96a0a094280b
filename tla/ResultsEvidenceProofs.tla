----------------------- MODULE ResultsEvidenceProofs ------------------------
(* Whatever the components, profiles and evidence, and however often the     *)
(* results are used again: they are large enough, they hold only profiles    *)
(* that were earned, those that were asked for prevail, and all ways to read *)
(* them agree.                                                               *)
EXTENDS ResultsEvidence, FiniteSetTheorems, SequenceTheorems, WellFoundedInduction, TLAPS

-----------------------------------------------------------------------------
(* The strengthening.                                                        *)

ItemSet == [header : -1 .. 1, matchedNodes : {0, 1},
            profiles : [Components -> Profiles \cup {Null}],
            overridden : [Components -> BOOLEAN]]

Types ==
    /\ TypeOK
    /\ items \in [Items -> ItemSet]
    /\ pc = "pair" => todo \in Seq(BOOLEAN)
    /\ pc \in {"deviceId", "overrideId", "direct"} => todo \in Seq(Ids)
    /\ pc = "overrides" => todo = evidence.deviceIds

\* No call takes the results to be its own that are another's.
Calls ==
    /\ pc = "direct" => entry = "deviceId"
    /\ pc \in {"overrides", "header", "next", "pair"} => foundIds = 0
    /\ pc \in {"overrides", "header"} => count = 0

\* What was asked for is there.
AskedIsThere ==
    \A i \in Used : \A c \in Components :
        items[i].overridden[c] => items[i].profiles[c] # Null

-----------------------------------------------------------------------------
(* The headers: each component with a header of the data set has its item,   *)
(* and no item holds a profile of a component that is yet to come.           *)
HasHeader(c) == \E n \in DOMAIN evidence.pairs[c] : evidence.pairs[c][n]
WithHeader(S) == {c \in S : HasHeader(c)}

Handled ==
    /\ pc = "next" =>
        /\ count = Cardinality(WithHeader(Available \ pending))
        /\ \A i \in Used : \A c \in Components :
               items[i].profiles[c] # Null => c \in Available \ pending
    /\ pc = "pair" =>
        /\ component \in Available \ pending
        /\ count = Cardinality(WithHeader(Available \ (pending \cup {component})))
                     + (IF lastResult = 0 THEN 0 ELSE 1)
        /\ IF lastResult = 0
           THEN HasHeader(component) <=> \E n \in DOMAIN todo : todo[n]
           ELSE HasHeader(component) /\ lastResult = count
        /\ \A i \in Used : \A c \in Components :
               items[i].profiles[c] # Null =>
                   c \in Available \ pending /\ (c = component => i = lastResult)

\* Past the headers an only item may have been added for what was asked for.
PastHeaders == (pc = "overrideId" \/ Ended) /\ foundIds = 0

Shaped ==
    PastHeaders /\ WithHeader(Available) # {} => count = Cardinality(WithHeader(Available))

-----------------------------------------------------------------------------
(* The profile identities: those before todo have been applied, the last one *)
(* of each component to all items.                                           *)

\* n is the last of the first k identities that is a profile of its component.
IsLast(ids, k, n) ==
    /\ n \in 1 .. k
    /\ ids[n] \in Profiles
    /\ \A m \in 1 .. k : m > n /\ ids[m] \in Profiles =>
           ComponentOf[ids[m]] # ComponentOf[ids[n]]

Holds(p) ==
    /\ count > 0
    /\ \A i \in Used : /\ items[i].profiles[ComponentOf[p]] = p
                       /\ items[i].overridden[ComponentOf[p]]

Kept(ids, k) == \A n \in 1 .. k : IsLast(ids, k, n) => Holds(ids[n])

IsRest(ids) ==
    /\ Len(todo) <= Len(ids)
    /\ \A n \in 1 .. Len(todo) : todo[n] = ids[Len(ids) - Len(todo) + n]

DeviceIdsKept ==
    pc = "deviceId" =>
        LET ids == evidence.deviceIds
            k == Len(ids) - Len(todo)
        IN  /\ IsRest(ids)
            /\ Kept(ids, k)
            /\ count = (IF foundIds = 0 THEN 0 ELSE 1)
            /\ count = 1 => items[1].header = -1
            /\ count = 1 => \A c \in Components : items[1].profiles[c] # Null =>
                                \E n \in 1 .. k : IsLast(ids, k, n) /\ ComponentOf[ids[n]] = c

OverridesKept ==
    /\ pc = "overrideId" =>
        /\ IsRest(evidence.overrideIds)
        /\ Kept(evidence.overrideIds, Len(evidence.overrideIds) - Len(todo))
    /\ Ended /\ processSpecialEvidence => Kept(evidence.overrideIds, Len(evidence.overrideIds))

\* What is read from a device id, or is the default.
Device(c) == IF LastOf(evidence.deviceIds, c) # Null THEN LastOf(evidence.deviceIds, c)
             ELSE IF allowUnmatched THEN Default[c] ELSE Null

Retrieved ==
    /\ pc = "overrideId" \/ (Ended /\ processSpecialEvidence)
    /\ foundIds > 0
    /\ evidence.overrideIds = <<>>
    => /\ count = 1
       /\ \A c \in Components : /\ items[1].profiles[c] = Device(c)
                                /\ items[1].overridden[c] <=> Device(c) # Null

Complete ==
    Ended /\ processSpecialEvidence /\ allowUnmatched =>
        \A c \in Components : \E i \in Used : items[i].profiles[c] # Null

IInv ==
    /\ Types /\ Calls
    /\ AskedIsThere /\ UnusedIsClean /\ ItemsAgree /\ ProfilesAreEarned
    /\ Handled /\ Shaped
    /\ DeviceIdsKept /\ OverridesKept /\ Retrieved /\ Complete

-----------------------------------------------------------------------------
(* What the constants are.                                                   *)

LEMMA Constants ==
    /\ IsFiniteSet(Components) /\ Components \subseteq Nat
    /\ IsFiniteSet(Available) /\ Available \subseteq Components
    /\ Capacity \in Nat \ {0} /\ Items = 1 .. Capacity /\ 1 \in Items
    /\ Null \notin Profiles
    /\ ComponentOf \in [Profiles -> Components]
    /\ \A c \in Components : Default[c] \in Profiles /\ ComponentOf[Default[c]] = c
                             /\ Default[c] # Null
<1>1. IsFiniteSet(Available) /\ Cardinality(Available) \in Nat
  BY ComponentsAssumption, FS_Subset, FS_CardinalityType
<1>2. Cardinality(Available) # 0
  BY <1>1, ComponentsAssumption, FS_EmptySet
<1>3. Null \notin Profiles
  BY ProfilesAssumption
<1> QED BY <1>1, <1>2, <1>3, ComponentsAssumption, ProfilesAssumption DEF Capacity, Items

LEMMA ResetItem ==
    /\ Reset \in ItemSet
    /\ \A c \in Components : Reset.profiles[c] = Null /\ Reset.overridden[c] = FALSE
    /\ Reset.header = 0 /\ Reset.matchedNodes = 0
BY DEF Reset, ItemSet

LEMMA ItemParts ==
    ASSUME NEW r \in ItemSet
    PROVE  /\ IsItem(r)
           /\ r.header \in Int /\ r.matchedNodes \in Nat
           /\ \A c \in Components : /\ r.profiles[c] \in Profiles \cup {Null}
                                    /\ r.overridden[c] \in BOOLEAN
BY DEF ItemSet, IsItem

-----------------------------------------------------------------------------
(* Which item is selected.                                                   *)

(* A set of numbers has a least one.                                         *)
LEMMA LeastIsMember ==
    ASSUME NEW S \in SUBSET Nat, S # {}
    PROVE  Least(S) \in S /\ \A i \in S : Least(S) <= i
<1> DEFINE Below(i) == S \cap (0 .. i)
           T == {Below(i) : i \in S}
<1>1. T \subseteq FiniteSubsetsOf(Nat) /\ T # {}
  <2>1. ASSUME NEW i \in S PROVE Below(i) \in FiniteSubsetsOf(Nat)
    <3>1. IsFiniteSet(0 .. i)
      BY FS_Interval
    <3> QED BY <3>1, FS_Subset DEF FiniteSubsetsOf
  <2> QED BY <2>1
<1>2. PICK x \in T : \A y \in T : ~ (<<y, x>> \in StrictSubsetOrdering(Nat))
  <2> HIDE DEF T
  <2> QED BY <1>1, FS_StrictSubsetOrderingWellFounded, WFMin
<1>3. PICK i \in S : x = Below(i)
  OBVIOUS
<1>4. ASSUME NEW j \in S, j < i PROVE FALSE
  <2>1. Below(j) \subseteq Below(i) /\ i \in Below(i) /\ i \notin Below(j)
    BY <1>4
  <2>2. <<Below(j), x>> \in StrictSubsetOrdering(Nat)
    BY <1>3, <2>1 DEF StrictSubsetOrdering
  <2> QED BY <1>2, <2>2
<1>5. \A j \in S : i <= j
  BY <1>4
<1> QED BY <1>5 DEF Least

\* An overridden profile is preferred to the first one there is.
LEMMA Selection ==
    ASSUME count \in 0 .. Capacity, NEW c \in Components
    PROVE  /\ Selected(c) \in 0 .. count
           /\ (\E i \in Used : items[i].overridden[c])
                => Selected(c) \in Used /\ items[Selected(c)].overridden[c]
           /\ ~ (\E i \in Used : items[i].overridden[c]) /\ count # 1
              /\ (\E i \in Used : items[i].profiles[c] # Null)
                => Selected(c) \in Used /\ items[Selected(c)].profiles[c] # Null
           /\ ~ (\E i \in Used : items[i].overridden[c]) /\ count = 1
              /\ items[1].profiles[c] # Null
                => Selected(c) = 1
<1> DEFINE O == OverriddenItems(items, count, c)
           P == ItemsWithProfile(items, count, Null, c)
<1>0. count \in Nat
  BY Constants
<1>1. O = {i \in Used : items[i].overridden[c]} /\ P = {i \in Used : items[i].profiles[c] # Null}
  BY DEF OverriddenItems, ItemsWithProfile, Used
<1>2. O \in SUBSET Nat /\ P \in SUBSET Nat /\ O \subseteq Used /\ P \subseteq Used
  BY <1>0, <1>1 DEF Used
<1>3. O # {} => Least(O) \in O
  BY <1>2, LeastIsMember
<1>4. P # {} => Least(P) \in P
  BY <1>2, LeastIsMember
<1>5. Selected(c) =
        IF O # {} THEN Least(O)
        ELSE IF count = 1 /\ items[1].header = -1 THEN 1
        ELSE IF P # {} THEN Least(P)
        ELSE IF allowUnmatched /\ count > 0 THEN 1
        ELSE 0
  BY DEF Selected, SelectedItem
<1>6. Used \subseteq 0 .. count /\ (count = 1 => Used = {1}) /\ (count > 0 => 1 \in Used)
      /\ 0 \in 0 .. count
  BY <1>0 DEF Used
<1> HIDE DEF O, P
<1>7. Selected(c) \in 0 .. count
  <2>1. CASE count = 1
    <3>1. 1 \in 0 .. count
      BY <1>0, <2>1
    <3> QED BY <1>2, <1>3, <1>4, <1>5, <1>6, <3>1
  <2>2. CASE count # 1
    BY <1>2, <1>3, <1>4, <1>5, <1>6, <2>2
  <2> QED BY <2>1, <2>2
<1>8. O # {} => Selected(c) \in Used /\ items[Selected(c)].overridden[c]
  BY <1>1, <1>3, <1>5
<1>9. O = {} /\ count # 1 /\ P # {} => Selected(c) \in Used /\ items[Selected(c)].profiles[c] # Null
  BY <1>1, <1>4, <1>5
<1>10. O = {} /\ count = 1 /\ 1 \in P => Selected(c) = 1
  <2> HAVE O = {} /\ count = 1 /\ 1 \in P
  <2>1. Least(P) \in {1}
    BY <1>2, <1>4, <1>6
  <2> QED BY <1>5, <2>1
<1>11. count = 1 /\ items[1].profiles[c] # Null => 1 \in P
  BY <1>1, <1>6
<1> QED BY <1>1, <1>7, <1>8, <1>9, <1>10, <1>11

\* Where any item has a profile for a component the selected one has.
LEMMA SelectionFindsProfile ==
    ASSUME count \in 0 .. Capacity, AskedIsThere, NEW c \in Components,
           NEW i \in Used, items[i].profiles[c] # Null
    PROVE  Selected(c) \in Used /\ SelectedProfile(c) # Null
<1>0. count \in Nat /\ 0 \notin Used /\ (count = 1 => Used = {1})
  BY Constants DEF Used
<1>1. CASE \E j \in Used : items[j].overridden[c]
  <2>1. Selected(c) \in Used /\ items[Selected(c)].overridden[c]
    BY <1>1, Selection
  <2> QED BY <1>0, <2>1 DEF AskedIsThere, SelectedProfile
<1>2. CASE ~ (\E j \in Used : items[j].overridden[c]) /\ count # 1
  <2>1. Selected(c) \in Used /\ items[Selected(c)].profiles[c] # Null
    BY <1>2, Selection
  <2> QED BY <1>0, <2>1 DEF SelectedProfile
<1>3. CASE ~ (\E j \in Used : items[j].overridden[c]) /\ count = 1
  <2>1. i = 1
    BY <1>0, <1>3
  <2>2. Selected(c) = 1
    BY <1>3, <2>1, Selection
  <2> QED BY <1>0, <1>3, <2>1, <2>2 DEF SelectedProfile
<1> QED BY <1>1, <1>2, <1>3

-----------------------------------------------------------------------------
(* What is read of results whose profiles were earned.                       *)

LEMMA ReadersOfOneMind ==
    ASSUME Types, AskedIsThere, ProfilesAreEarned, NEW c \in Components
    PROVE  /\ HasValues(c) = (DeviceId(c) # Null)
           /\ HasValues(c) = (SelectedProfile(c) # Null)
           /\ ~ HasValues(c) => NoValueReason(c) # "unknown"
           /\ (\E i \in Used : items[i].profiles[c] # Null) => DeviceId(c) # Null
<1>0. /\ count \in 0 .. Capacity /\ count \in Nat /\ allowUnmatched \in BOOLEAN
      /\ 0 \notin Used /\ (count = 1 => Used = {1}) /\ Used \subseteq Items
      /\ (count = 0 => Used = {})
      /\ items \in [Items -> ItemSet]
  BY Constants DEF Types, TypeOK, Used
<1>1. Selected(c) = 0 \/ Selected(c) \in Used
  BY <1>0, Selection DEF Used
<1>2. ASSUME NEW i \in Used, items[i].profiles[c] # Null
      PROVE  items[i].overridden[c] \/ ~ IsUnmatched(i)
  <2>1. items[i].matchedNodes \in Nat
    BY <1>0, ItemParts
  <2> QED BY <1>2, <2>1 DEF ProfilesAreEarned, IsUnmatched
<1>3. HasValues(c) = (SelectedProfile(c) # Null)
  BY <1>1, <1>2 DEF HasValues, SelectedProfile
<1>4. CASE count = 0
  <2>1. Selected(c) = 0 /\ DeviceId(c) = Null
    BY <1>0, <1>1, <1>4 DEF DeviceId
  <2>2. NoValueReason(c) # "unknown"
    BY <1>4 DEF NoValueReason
  <2> QED BY <1>0, <1>3, <1>4, <2>1, <2>2 DEF SelectedProfile
<1>5. CASE count = 1
  <2>1. Used = {1} /\ DeviceIdItem(c) = 1 /\ ReasonItem(c) = 1
    BY <1>0, <1>5 DEF DeviceIdItem, ReasonItem, ItemForProperty
  <2>2. CASE items[1].profiles[c] = Null
    <3>1. DeviceId(c) = Null
      BY <2>1, <2>2 DEF DeviceId
    <3>2. SelectedProfile(c) = Null
      BY <1>1, <2>1, <2>2 DEF SelectedProfile
    <3>3. NoValueReason(c) # "unknown"
      BY <1>5, <2>1, <2>2 DEF NoValueReason
    <3> QED BY <1>3, <2>1, <2>2, <3>1, <3>2, <3>3
  <2>3. CASE items[1].profiles[c] # Null
    <3>1. DeviceId(c) # Null
      BY <1>2, <1>5, <2>1, <2>3 DEF DeviceId
    <3>2. SelectedProfile(c) # Null
      BY <1>0, <2>1, <2>3, SelectionFindsProfile
    <3> QED BY <1>3, <3>1, <3>2
  <2> QED BY <2>2, <2>3
<1>6. CASE count # 0 /\ count # 1
  <2>1. DeviceIdItem(c) = Selected(c) /\ ReasonItem(c) = Selected(c)
    BY <1>6 DEF DeviceIdItem, ReasonItem, ItemForProperty, Selected
  <2>2. DeviceId(c) # Null <=> SelectedProfile(c) # Null
    BY <1>0, <1>1, <1>2, <1>6, <2>1 DEF DeviceId, SelectedProfile
  <2>3. SelectedProfile(c) = Null => NoValueReason(c) # "unknown"
    BY <1>6, <2>1 DEF NoValueReason, SelectedProfile
  <2>4. (\E i \in Used : items[i].profiles[c] # Null) => SelectedProfile(c) # Null
    BY <1>0, SelectionFindsProfile
  <2> QED BY <1>3, <2>2, <2>3, <2>4
<1> QED BY <1>4, <1>5, <1>6

\* A profile that all items hold because it was asked for is what is read.
LEMMA HeldIsRead ==
    ASSUME Types, NEW p \in Profiles, Holds(p)
    PROVE  DeviceId(ComponentOf[p]) = p
<1> DEFINE c == ComponentOf[p]
<1>0. /\ count \in 0 .. Capacity /\ count \in Nat /\ count > 0 /\ c \in Components
      /\ 1 \in Used /\ 0 \notin Used
      /\ \A i \in Used : items[i].profiles[c] = p /\ items[i].overridden[c]
  BY Constants DEF Types, TypeOK, Used, Holds
<1>1. Selected(c) \in Used
  BY <1>0, Selection
<1>2. DeviceIdItem(c) \in Used /\ DeviceIdItem(c) # 0
  BY <1>0, <1>1 DEF DeviceIdItem
<1>3. count # 0
  BY <1>0
<1> QED BY <1>0, <1>2, <1>3 DEF DeviceId

-----------------------------------------------------------------------------
(* What the operations on the items do.                                      *)

LEMMA AddProfileEffect ==
    ASSUME Types, UnusedIsClean, NEW p \in Profiles, AddProfile(p)
    PROVE  /\ items' \in [Items -> ItemSet]
           /\ count' \in 1 .. Capacity /\ count' = (IF count = 0 THEN 1 ELSE count)
           /\ \A i \in Items : i > count' => items'[i] = items[i]
           /\ \A i \in 1 .. count' : \A c \in Components :
                /\ items'[i].profiles[c] = IF c = ComponentOf[p] THEN p
                                           ELSE IF count = 0 THEN Null ELSE items[i].profiles[c]
                /\ items'[i].overridden[c] = IF c = ComponentOf[p] THEN TRUE
                                             ELSE IF count = 0 THEN FALSE ELSE items[i].overridden[c]
           /\ \A i \in 1 .. count' : /\ items'[i].matchedNodes = IF count = 0 THEN 0 ELSE items[i].matchedNodes
                                     /\ items'[i].header = IF count = 0 THEN -1 ELSE items[i].header
<1> DEFINE base == IF count = 0 THEN [items EXCEPT ![1] = [Reset EXCEPT !.header = -1]] ELSE items
           last == IF count = 0 THEN 1 ELSE count
           d == ComponentOf[p]
           Given(r) == [r EXCEPT !.profiles[d] = p, !.overridden[d] = TRUE]
<1>0. /\ count \in 0 .. Capacity /\ count \in Nat /\ items \in [Items -> ItemSet] /\ d \in Components
      /\ Capacity \in Nat \ {0}
  BY Constants DEF Types, TypeOK
<1>1. /\ count' = last
      /\ items' = [i \in Items |-> IF i > last THEN base[i]
                                   ELSE Given(base[i])]
  BY DEF AddProfile
<1>2. last \in 1 .. Capacity /\ last \in Nat
  BY <1>0
<1>3. [Reset EXCEPT !.header = -1] \in ItemSet
  <2>1. Reset \in ItemSet /\ -1 \in -1 .. 1
    BY ResetItem
  <2> QED BY <2>1 DEF ItemSet
<1>4. /\ base \in [Items -> ItemSet]
      /\ \A i \in Items : i > last => base[i] = items[i]
  <2>1. CASE count = 0
    <3>1. base = [items EXCEPT ![1] = [Reset EXCEPT !.header = -1]] /\ last = 1
      BY <2>1
    <3>2. \A i \in Items : i > last => i # 1
      BY <3>1, Constants
    <3> HIDE DEF base, last
    <3>3. base \in [Items -> ItemSet]
      BY <1>0, <1>3, <3>1
    <3> QED BY <1>0, <3>1, <3>2, <3>3
  <2>2. CASE count # 0
    BY <1>0, <2>2
  <2> QED BY <2>1, <2>2
<1>5. \A i \in 1 .. last :
        /\ i \in Items
        /\ count = 0 => base[i] = [Reset EXCEPT !.header = -1]
        /\ count # 0 => base[i] = items[i]
  <2> TAKE i \in 1 .. last
  <2>1. i \in Items
    BY <1>0, <1>2, Constants
  <2>2. CASE count = 0
    <3>1. i = 1
      BY <2>2
    <3> QED BY <1>0, <2>1, <2>2, <3>1
  <2>3. CASE count # 0
    BY <2>1, <2>3
  <2> QED BY <2>2, <2>3
<1> HIDE DEF base, last
<1>6. ASSUME NEW r \in ItemSet
      PROVE  /\ Given(r) \in ItemSet
             /\ \A c \in Components :
                  /\ Given(r).profiles[c]
                       = IF c = d THEN p ELSE r.profiles[c]
                  /\ Given(r).overridden[c]
                       = IF c = d THEN TRUE ELSE r.overridden[c]
             /\ Given(r).matchedNodes = r.matchedNodes
             /\ Given(r).header = r.header
  BY <1>0 DEF ItemSet
<1> HIDE DEF Given
<1>7. items' \in [Items -> ItemSet]
  BY <1>1, <1>4, <1>6
<1>8. \A i \in Items : i > count' => items'[i] = items[i]
  BY <1>1, <1>4
<1>9. \A i \in 1 .. last : items'[i] = Given(base[i])
                           /\ base[i] \in ItemSet
  <2> TAKE i \in 1 .. last
  <2>1. ~ i > last /\ i \in Items
    BY <1>2, <1>5
  <2> QED BY <1>1, <1>4, <2>1
<1>10. [Reset EXCEPT !.header = -1].matchedNodes = 0 /\ [Reset EXCEPT !.header = -1].header = -1
       /\ \A c \in Components : /\ [Reset EXCEPT !.header = -1].profiles[c] = Null
                                /\ [Reset EXCEPT !.header = -1].overridden[c] = FALSE
  BY DEF Reset
<1>11. ASSUME NEW i \in 1 .. last
       PROVE  /\ \A c \in Components :
                   /\ items'[i].profiles[c] = IF c = d THEN p
                                              ELSE IF count = 0 THEN Null ELSE items[i].profiles[c]
                   /\ items'[i].overridden[c] = IF c = d THEN TRUE
                                                ELSE IF count = 0 THEN FALSE ELSE items[i].overridden[c]
              /\ items'[i].matchedNodes = IF count = 0 THEN 0 ELSE items[i].matchedNodes
              /\ items'[i].header = IF count = 0 THEN -1 ELSE items[i].header
  <2> DEFINE r == base[i]
  <2>0. items'[i] = Given(r) /\ r \in ItemSet
    BY <1>9
  <2> HIDE DEF r
  <2>1. /\ \A c \in Components : /\ items'[i].profiles[c] = IF c = d THEN p ELSE r.profiles[c]
                                 /\ items'[i].overridden[c] = IF c = d THEN TRUE ELSE r.overridden[c]
        /\ items'[i].matchedNodes = r.matchedNodes
        /\ items'[i].header = r.header
    <3>1. /\ \A c \in Components : /\ Given(r).profiles[c] = IF c = d THEN p ELSE r.profiles[c]
                                   /\ Given(r).overridden[c] = IF c = d THEN TRUE ELSE r.overridden[c]
          /\ Given(r).matchedNodes = r.matchedNodes
          /\ Given(r).header = r.header
      BY <1>6, <2>0
    <3> QED BY <2>0, <3>1
  <2>2. CASE count = 0
    <3>1. r = [Reset EXCEPT !.header = -1]
      BY <1>5, <2>2 DEF r
    <3>2. /\ r.matchedNodes = 0 /\ r.header = -1
          /\ \A c \in Components : r.profiles[c] = Null /\ r.overridden[c] = FALSE
      BY <1>10, <3>1
    <3> QED BY <2>1, <2>2, <3>2
  <2>3. CASE count # 0
    <3>1. r = items[i]
      BY <1>5, <2>3 DEF r
    <3> QED BY <2>1, <2>3, <3>1
  <2> QED BY <2>2, <2>3
<1>12. count' \in 1 .. Capacity /\ count' = (IF count = 0 THEN 1 ELSE count)
  BY <1>1, <1>2 DEF last
<1>13. last = count'
  BY <1>1
<1> QED BY <1>7, <1>8, <1>11, <1>12, <1>13

\* A default is taken where no item has a profile for the component.
LEMMA SetMissingEffect ==
    ASSUME Types, UnusedIsClean, AskedIsThere, SetMissingDefaults
    PROVE  /\ items' \in [Items -> ItemSet]
           /\ count' \in 0 .. Capacity
           /\ count' = (IF allowUnmatched /\ count = 0 THEN 1 ELSE count)
           /\ \A i \in Items : i > count' => items'[i] = items[i]
           /\ \A i \in Items : /\ items'[i].matchedNodes = items[i].matchedNodes
                               /\ items'[i].header = items[i].header
           /\ \A i \in Items, c \in Components :
                /\ items'[i].profiles[c] = IF TakesDefault(i, c) THEN Default[c] ELSE items[i].profiles[c]
                /\ items'[i].overridden[c] = (TakesDefault(i, c) \/ items[i].overridden[c])
           /\ \A i \in Items, c \in Components : TakesDefault(i, c) =>
                /\ allowUnmatched /\ i \in 1 .. count'
                /\ \A j \in 1 .. count' : items[j].profiles[c] = Null
                /\ \A j \in Items : TakesDefault(j, c) => j = i
           /\ allowUnmatched => \A c \in Components : \E i \in 1 .. count' :
                items'[i].profiles[c] # Null
<1>0. /\ count \in 0 .. Capacity /\ count \in Nat /\ items \in [Items -> ItemSet]
      /\ allowUnmatched \in BOOLEAN
      /\ items' = WithDefaults /\ count' = (IF allowUnmatched /\ count = 0 THEN 1 ELSE count)
      /\ Used \subseteq Items
  BY Constants DEF Types, TypeOK, SetMissingDefaults, Used
<1>1. count' \in 0 .. Capacity /\ count' \in Nat /\ (allowUnmatched => 1 \in 1 .. count')
      /\ Used \subseteq 1 .. count' /\ (1 .. count') \subseteq Items
  BY <1>0, Constants DEF Used
<1>2. ASSUME NEW i \in Items, NEW c \in Components, TakesDefault(i, c)
      PROVE  /\ allowUnmatched /\ i \in 1 .. count'
             /\ \A j \in 1 .. count' : items[j].profiles[c] = Null
             /\ \A j \in Items : TakesDefault(j, c) => j = i
  <2>1. allowUnmatched /\ SelectedProfile(c) = Null
        /\ i = (IF Selected(c) = 0 THEN 1 ELSE Selected(c))
    BY <1>2 DEF TakesDefault
  <2>2. i \in 1 .. count'
    <3>1. Selected(c) = 0 \/ Selected(c) \in Used
      BY <1>0, Selection DEF Used
    <3> QED BY <1>1, <2>1, <3>1
  <2>3. \A j \in Used : items[j].profiles[c] = Null
    BY <1>0, <2>1, SelectionFindsProfile
  <2>4. \A j \in 1 .. count' : j \notin Used => items[j].profiles[c] = Null
    <3> TAKE j \in 1 .. count'
    <3> HAVE j \notin Used
    <3>1. j \in Items /\ j > count
      BY <1>0, <1>1 DEF Used
    <3>2. items[j] = Reset
      BY <3>1 DEF UnusedIsClean
    <3> QED BY <3>2, ResetItem
  <2> QED BY <2>1, <2>2, <2>3, <2>4 DEF TakesDefault
<1>3. ASSUME NEW i \in Items
      PROVE  /\ items'[i] \in ItemSet
             /\ items'[i].matchedNodes = items[i].matchedNodes
             /\ items'[i].header = items[i].header
             /\ \A c \in Components :
                  /\ items'[i].profiles[c] = IF TakesDefault(i, c) THEN Default[c] ELSE items[i].profiles[c]
                  /\ items'[i].overridden[c] = (TakesDefault(i, c) \/ items[i].overridden[c])
  <2> DEFINE P == [c \in Components |-> IF TakesDefault(i, c) THEN Default[c] ELSE items[i].profiles[c]]
             O == [c \in Components |-> TakesDefault(i, c) \/ items[i].overridden[c]]
  <2>1. items'[i] = [items[i] EXCEPT !.profiles = P, !.overridden = O]
    BY <1>0 DEF WithDefaults
  <2>2. items[i] \in ItemSet
    BY <1>0
  <2>3. P \in [Components -> Profiles \cup {Null}]
    BY <2>2, Constants, ItemParts
  <2>4. O \in [Components -> BOOLEAN]
    BY <2>2, ItemParts
  <2>5. \A c \in Components : /\ P[c] = IF TakesDefault(i, c) THEN Default[c] ELSE items[i].profiles[c]
                              /\ O[c] = (TakesDefault(i, c) \/ items[i].overridden[c])
    OBVIOUS
  <2> HIDE DEF P, O
  <2>6. /\ items'[i] \in ItemSet
        /\ items'[i].matchedNodes = items[i].matchedNodes
        /\ items'[i].header = items[i].header
        /\ items'[i].profiles = P /\ items'[i].overridden = O
    BY <2>1, <2>2, <2>3, <2>4 DEF ItemSet
  <2> QED BY <2>5, <2>6
<1>4. ASSUME NEW i \in Items, i > count' PROVE items'[i] = items[i]
  <2>1. \A c \in Components : TakesDefault(i, c) = FALSE
    <3>1. i \notin 1 .. count'
      BY <1>1, <1>4
    <3>2. \A c \in Components : TakesDefault(i, c) \in BOOLEAN
      BY DEF TakesDefault
    <3> QED BY <1>2, <3>1, <3>2
  <2>2. items[i] \in ItemSet /\ items'[i] \in ItemSet
    BY <1>0, <1>3
  <2>3. \A c \in Components : /\ items'[i].profiles[c] = items[i].profiles[c]
                              /\ items'[i].overridden[c] = items[i].overridden[c]
    BY <1>3, <2>1, <2>2, ItemParts
  <2>4. items'[i].profiles = items[i].profiles /\ items'[i].overridden = items[i].overridden
    BY <2>2, <2>3 DEF ItemSet
  <2> QED BY <1>3, <2>2, <2>4 DEF ItemSet
<1>5. items' \in [Items -> ItemSet]
  <2>1. DOMAIN items' = Items /\ items' = [i \in Items |-> items'[i]]
    BY <1>0 DEF WithDefaults
  <2> QED BY <1>3, <2>1
<1>6. ASSUME allowUnmatched, NEW c \in Components
      PROVE  \E i \in 1 .. count' : items'[i].profiles[c] # Null
  <2> DEFINE i == IF Selected(c) = 0 THEN 1 ELSE Selected(c)
  <2>1. Selected(c) = 0 \/ Selected(c) \in Used
    BY <1>0, Selection DEF Used
  <2>2. i \in 1 .. count' /\ i \in Items
    BY <1>1, <1>6, <2>1
  <2>3. CASE SelectedProfile(c) = Null
    <3>1. TakesDefault(i, c)
      BY <1>6, <2>3 DEF TakesDefault
    <3>2. items'[i].profiles[c] = Default[c]
      BY <1>3, <2>2, <3>1
    <3> QED BY <2>2, <3>2, Constants
  <2>4. CASE SelectedProfile(c) # Null
    <3>1. Selected(c) # 0 /\ items[i].profiles[c] # Null /\ ~ TakesDefault(i, c)
      BY <2>4 DEF SelectedProfile, TakesDefault
    <3>2. items'[i].profiles[c] # Null
      BY <1>3, <2>2, <3>1
    <3> QED BY <2>2, <3>2
  <2> QED BY <2>3, <2>4
<1> QED BY <1>0, <1>1, <1>2, <1>3, <1>4, <1>5, <1>6

LEMMA EvaluateEffect ==
    ASSUME Types, UnusedIsClean, component \in Components,
           NEW profile \in Profiles \cup {Null}, NEW m \in {0, 1}, Evaluate(profile, m)
    PROVE  /\ items' \in [Items -> ItemSet]
           /\ Target \in 1 .. Capacity /\ lastResult' = Target
           /\ count' = Greater(count, Target) /\ count' \in 1 .. Capacity
           /\ lastResult' \in 1 .. count'
           /\ lastResult = 0 => Target = count + 1 /\ count' = count + 1
           /\ lastResult # 0 => Target = lastResult /\ count' = count
           /\ \A i \in Items : i # Target => items'[i] = items[i]
           /\ items'[Target].matchedNodes = m
           /\ \A c \in Components :
                /\ items'[Target].profiles[c] = (IF c = component THEN profile ELSE Null)
                /\ items'[Target].overridden[c] = FALSE
<1> DEFINE new == [Reset EXCEPT !.header = 1, !.profiles[component] = profile, !.matchedNodes = m]
           T == Target
<1>0. /\ count \in 0 .. Capacity /\ count \in Nat /\ items \in [Items -> ItemSet]
      /\ lastResult \in 0 .. count /\ Capacity \in Nat \ {0}
  BY Constants DEF Types, TypeOK
<1>1. /\ T <= Capacity /\ lastResult' = T /\ count' = Greater(count, T)
      /\ items' = [items EXCEPT ![T] = new]
  BY DEF Evaluate
<1>2. T = IF lastResult # 0 THEN lastResult ELSE count + 1
  BY DEF Target
<1>3. T \in 1 .. Capacity /\ T \in Items
  <2>1. T \in Nat /\ T >= 1
    BY <1>0, <1>2
  <2> HIDE DEF T
  <2> QED BY <1>0, <1>1, <2>1, Constants
<1>4. /\ lastResult = 0 => T = count + 1 /\ count' = count + 1
      /\ lastResult # 0 => T = lastResult /\ count' = count
  <2>1. CASE lastResult = 0
    <3>1. T = count + 1
      BY <1>2, <2>1
    <3> HIDE DEF T
    <3> QED BY <1>0, <1>1, <2>1, <3>1 DEF Greater
  <2>2. CASE lastResult # 0
    <3>1. T = lastResult
      BY <1>2, <2>2
    <3> HIDE DEF T
    <3> QED BY <1>0, <1>1, <2>2, <3>1 DEF Greater
  <2> QED BY <2>1, <2>2
<1> HIDE DEF T
<1>5. count' \in 1 .. Capacity /\ lastResult' \in 1 .. count'
  <2>1. CASE lastResult = 0
    BY <1>0, <1>1, <1>3, <1>4, <2>1
  <2>2. CASE lastResult # 0
    BY <1>0, <1>1, <1>3, <1>4, <2>2
  <2> QED BY <2>1, <2>2
<1>6. /\ new \in ItemSet /\ new.matchedNodes = m
      /\ \A c \in Components : /\ new.profiles[c] = (IF c = component THEN profile ELSE Null)
                               /\ new.overridden[c] = FALSE
  <2>1. Reset \in ItemSet /\ 1 \in -1 .. 1
    BY ResetItem
  <2>2. new \in ItemSet /\ new.matchedNodes = m /\ new.overridden = Reset.overridden
        /\ new.profiles = [Reset.profiles EXCEPT ![component] = profile]
    BY <2>1 DEF ItemSet
  <2>3. Reset.profiles \in [Components -> Profiles \cup {Null}]
    BY <2>1 DEF ItemSet
  <2> HIDE DEF new
  <2> QED BY <2>2, <2>3, ResetItem
<1> HIDE DEF new
<1>7. items' \in [Items -> ItemSet] /\ items'[T] = new
      /\ \A i \in Items : i # T => items'[i] = items[i]
  BY <1>0, <1>1, <1>3, <1>6
<1> QED BY <1>1, <1>3, <1>4, <1>5, <1>6, <1>7 DEF T

-----------------------------------------------------------------------------
(* The operations keep what holds of the contents of the items.              *)

Content == AskedIsThere /\ UnusedIsClean /\ ItemsAgree /\ ProfilesAreEarned

LEMMA AddKeepsContent ==
    ASSUME Types, Content, NEW p \in Profiles, AddProfile(p), UNCHANGED config
    PROVE  Content'
<1> DEFINE d == ComponentOf[p]
<1>0. /\ count \in 0 .. Capacity /\ count \in Nat /\ Used = 1 .. count /\ Used' = 1 .. count'
      /\ AskedIsThere /\ UnusedIsClean /\ ItemsAgree /\ ProfilesAreEarned
      /\ allowUnmatched' = allowUnmatched /\ p # Null /\ d \in Components
  BY Constants DEF Types, TypeOK, Content, Used, config
<1>1. /\ count' \in 1 .. Capacity /\ count' = (IF count = 0 THEN 1 ELSE count)
      /\ \A i \in Items : i > count' => items'[i] = items[i]
      /\ \A i \in 1 .. count' : \A c \in Components :
           /\ items'[i].profiles[c] = IF c = d THEN p
                                      ELSE IF count = 0 THEN Null ELSE items[i].profiles[c]
           /\ items'[i].overridden[c] = IF c = d THEN TRUE
                                        ELSE IF count = 0 THEN FALSE ELSE items[i].overridden[c]
      /\ \A i \in 1 .. count' : items'[i].matchedNodes = IF count = 0 THEN 0 ELSE items[i].matchedNodes
  BY <1>0, AddProfileEffect
\* What an item holds for another component it has held before.
<1>2. ASSUME NEW i \in 1 .. count', NEW c \in Components, c # d, items'[i].profiles[c] # Null
      PROVE  /\ i \in Used /\ items'[i].profiles[c] = items[i].profiles[c]
             /\ items'[i].overridden[c] = items[i].overridden[c]
             /\ items'[i].matchedNodes = items[i].matchedNodes
  <2>1. count # 0
    BY <1>1, <1>2
  <2> QED BY <1>0, <1>1, <1>2, <2>1
<1>3. AskedIsThere'
  <2> SUFFICES ASSUME NEW i \in 1 .. count', NEW c \in Components, items'[i].overridden[c]
               PROVE  items'[i].profiles[c] # Null
    BY <1>0 DEF AskedIsThere
  <2>1. CASE c = d
    BY <1>0, <1>1, <2>1
  <2>2. CASE c # d
    <3>1. count # 0
      BY <1>1, <2>2
    <3>2. i \in Used /\ items[i].overridden[c] /\ items'[i].profiles[c] = items[i].profiles[c]
      BY <1>0, <1>1, <2>2, <3>1
    <3> QED BY <1>0, <3>2 DEF AskedIsThere
  <2> QED BY <2>1, <2>2
<1>4. UnusedIsClean'
  <2>1. \A i \in Items : i > count' => i > count
    BY <1>0, <1>1, Constants
  <2> QED BY <1>0, <1>1, <2>1 DEF UnusedIsClean
<1>5. ItemsAgree'
  <2> SUFFICES ASSUME NEW c \in Components, NEW i \in 1 .. count', NEW j \in 1 .. count',
                      items'[i].profiles[c] # Null, items'[j].profiles[c] # Null
               PROVE  items'[i].profiles[c] = items'[j].profiles[c]
    BY <1>0 DEF ItemsAgree
  <2>1. CASE c = d
    <3>1. items'[i].profiles[c] = p
      BY <1>1, <2>1
    <3>2. items'[j].profiles[c] = p
      BY <1>1, <2>1
    <3> QED BY <3>1, <3>2
  <2>2. CASE c # d
    <3>1. /\ i \in Used /\ items'[i].profiles[c] = items[i].profiles[c]
          /\ j \in Used /\ items'[j].profiles[c] = items[j].profiles[c]
      BY <1>2, <2>2
    <3> QED BY <1>0, <3>1 DEF ItemsAgree
  <2> QED BY <2>1, <2>2
<1>6. ProfilesAreEarned'
  <2> SUFFICES ASSUME NEW i \in 1 .. count', NEW c \in Components, items'[i].profiles[c] # Null
               PROVE  /\ ComponentOf[items'[i].profiles[c]] = c
                      /\ \/ items'[i].matchedNodes > 0 \/ items'[i].overridden[c]
                         \/ allowUnmatched /\ items'[i].profiles[c] = Default[c]
    BY <1>0 DEF ProfilesAreEarned
  <2>1. CASE c = d
    <3>1. items'[i].profiles[c] = p /\ items'[i].overridden[c] = TRUE
      BY <1>1, <2>1
    <3> QED BY <2>1, <3>1
  <2>2. CASE c # d
    BY <1>0, <1>2, <2>2 DEF ProfilesAreEarned
  <2> QED BY <2>1, <2>2
<1> QED BY <1>3, <1>4, <1>5, <1>6 DEF Content

LEMMA MissingKeepsContent ==
    ASSUME Types, Content, SetMissingDefaults, UNCHANGED config
    PROVE  Content'
<1>0. /\ count \in 0 .. Capacity /\ count \in Nat /\ Used = 1 .. count /\ Used' = 1 .. count'
      /\ AskedIsThere /\ UnusedIsClean /\ ItemsAgree /\ ProfilesAreEarned
      /\ allowUnmatched' = allowUnmatched
      /\ items \in [Items -> ItemSet]
  BY Constants DEF Types, TypeOK, Content, Used, config
<1>1. /\ count' \in 0 .. Capacity /\ count' = (IF allowUnmatched /\ count = 0 THEN 1 ELSE count)
      /\ \A i \in Items : i > count' => items'[i] = items[i]
      /\ \A i \in Items : items'[i].matchedNodes = items[i].matchedNodes
      /\ \A i \in Items, c \in Components :
           /\ items'[i].profiles[c] = IF TakesDefault(i, c) THEN Default[c] ELSE items[i].profiles[c]
           /\ items'[i].overridden[c] = (TakesDefault(i, c) \/ items[i].overridden[c])
      /\ \A i \in Items, c \in Components : TakesDefault(i, c) =>
           /\ allowUnmatched /\ i \in 1 .. count'
           /\ \A j \in 1 .. count' : items[j].profiles[c] = Null
           /\ \A j \in Items : TakesDefault(j, c) => j = i
  BY <1>0, SetMissingEffect
<1>2. (1 .. count') \subseteq Items /\ (1 .. count) \subseteq Items
  BY <1>0, <1>1, Constants
\* Otherwise an item in use now was in use before or held nothing.
<1>3. ASSUME NEW i \in 1 .. count', i \notin Used, NEW c \in Components
      PROVE  items[i].profiles[c] = Null /\ items[i].overridden[c] = FALSE
  <2>1. i \in Items /\ i > count
    BY <1>0, <1>2, <1>3
  <2>2. items[i] = Reset
    BY <1>0, <2>1 DEF UnusedIsClean
  <2> QED BY <2>2, ResetItem
<1>4. AskedIsThere'
  <2> SUFFICES ASSUME NEW i \in 1 .. count', NEW c \in Components, items'[i].overridden[c]
               PROVE  items'[i].profiles[c] # Null
    BY <1>0 DEF AskedIsThere
  <2>1. CASE TakesDefault(i, c)
    BY <1>1, <1>2, <2>1, Constants
  <2>2. CASE ~ TakesDefault(i, c)
    <3>1. items[i].overridden[c] /\ items'[i].profiles[c] = items[i].profiles[c]
      BY <1>1, <1>2, <2>2
    <3> QED BY <1>0, <1>3, <3>1 DEF AskedIsThere
  <2> QED BY <2>1, <2>2
<1>5. UnusedIsClean'
  <2>1. \A i \in Items : i > count' => i > count
    BY <1>0, <1>1, Constants
  <2> QED BY <1>0, <1>1, <2>1 DEF UnusedIsClean
<1>6. ItemsAgree'
  <2> SUFFICES ASSUME NEW c \in Components, NEW i \in 1 .. count', NEW j \in 1 .. count',
                      items'[i].profiles[c] # Null, items'[j].profiles[c] # Null
               PROVE  items'[i].profiles[c] = items'[j].profiles[c]
    BY <1>0 DEF ItemsAgree
  <2>1. CASE TakesDefault(i, c) \/ TakesDefault(j, c)
    <3>1. items[i].profiles[c] = Null /\ items[j].profiles[c] = Null
      BY <1>1, <1>2, <2>1
    <3>2. TakesDefault(i, c) /\ TakesDefault(j, c)
      BY <1>1, <1>2, <3>1
    <3> QED BY <1>1, <1>2, <3>2
  <2>2. CASE ~ TakesDefault(i, c) /\ ~ TakesDefault(j, c)
    <3>1. items'[i].profiles[c] = items[i].profiles[c] /\ items'[j].profiles[c] = items[j].profiles[c]
      BY <1>1, <1>2, <2>2
    <3>2. i \in Used /\ j \in Used
      BY <1>3, <3>1
    <3> QED BY <1>0, <3>1, <3>2 DEF ItemsAgree
  <2> QED BY <2>1, <2>2
<1>7. ProfilesAreEarned'
  <2> SUFFICES ASSUME NEW i \in 1 .. count', NEW c \in Components, items'[i].profiles[c] # Null
               PROVE  /\ ComponentOf[items'[i].profiles[c]] = c
                      /\ \/ items'[i].matchedNodes > 0 \/ items'[i].overridden[c]
                         \/ allowUnmatched /\ items'[i].profiles[c] = Default[c]
    BY <1>0 DEF ProfilesAreEarned
  <2>1. CASE TakesDefault(i, c)
    BY <1>1, <1>2, <2>1, Constants
  <2>2. CASE ~ TakesDefault(i, c)
    <3>1. /\ items'[i].profiles[c] = items[i].profiles[c]
          /\ items'[i].overridden[c] = (FALSE \/ items[i].overridden[c])
          /\ items'[i].matchedNodes = items[i].matchedNodes
      BY <1>1, <1>2, <2>2
    <3>2. i \in Used
      BY <1>3, <3>1
    <3> QED BY <1>0, <3>1, <3>2 DEF ProfilesAreEarned
  <2> QED BY <2>1, <2>2
<1> QED BY <1>4, <1>5, <1>6, <1>7 DEF Content

LEMMA EvaluateKeepsContent ==
    ASSUME Types, Content, component \in Components,
           NEW profile \in Profiles \cup {Null}, NEW m \in {0, 1}, Evaluate(profile, m),
           \A i \in Used : items[i].profiles[component] # Null => i = lastResult,
           profile # Null => /\ ComponentOf[profile] = component
                             /\ m > 0 \/ (allowUnmatched /\ profile = Default[component]),
           UNCHANGED config
    PROVE  Content'
<1> DEFINE T == Target
<1>0. /\ count \in 0 .. Capacity /\ count \in Nat /\ Used = 1 .. count /\ Used' = 1 .. count'
      /\ AskedIsThere /\ UnusedIsClean /\ ItemsAgree /\ ProfilesAreEarned
      /\ allowUnmatched' = allowUnmatched
  BY Constants DEF Types, TypeOK, Content, Used, config
<1>1. /\ T \in 1 .. Capacity /\ count' \in 1 .. Capacity
      /\ lastResult = 0 => T = count + 1 /\ count' = count + 1
      /\ lastResult # 0 => T = lastResult /\ count' = count
      /\ \A i \in Items : i # T => items'[i] = items[i]
      /\ items'[T].matchedNodes = m
      /\ \A c \in Components :
           /\ items'[T].profiles[c] = (IF c = component THEN profile ELSE Null)
           /\ items'[T].overridden[c] = FALSE
  BY <1>0, EvaluateEffect
<1> HIDE DEF T
\* Another item is as it was, and has no profile for the component.
<1>2. ASSUME NEW i \in 1 .. count', i # T
      PROVE  i \in Used /\ items'[i] = items[i] /\ items[i].profiles[component] = Null
  <2>1. i \in Used /\ i \in Items
    BY <1>0, <1>1, <1>2, Constants
  <2>2. i # lastResult
    BY <1>0, <1>1, <1>2, <2>1
  <2> QED BY <1>1, <1>2, <2>1, <2>2
<1>3. AskedIsThere'
  <2> SUFFICES ASSUME NEW i \in 1 .. count', NEW c \in Components, items'[i].overridden[c]
               PROVE  items'[i].profiles[c] # Null
    BY <1>0 DEF AskedIsThere
  <2>1. i # T
    BY <1>1
  <2> QED BY <1>0, <1>2, <2>1 DEF AskedIsThere
<1>4. UnusedIsClean'
  <2> SUFFICES ASSUME NEW i \in Items, i > count' PROVE items'[i] = Reset
    BY DEF UnusedIsClean
  <2>1. i > count /\ i # T
    <3>1. CASE lastResult = 0
      BY <1>0, <1>1, <3>1, Constants
    <3>2. CASE lastResult # 0
      <4>1. lastResult \in 0 .. count
        BY DEF Types, TypeOK
      <4> QED BY <1>0, <1>1, <3>2, <4>1, Constants
    <3> QED BY <3>1, <3>2
  <2> QED BY <1>0, <1>1, <2>1 DEF UnusedIsClean
<1>5. ItemsAgree'
  <2> SUFFICES ASSUME NEW c \in Components, NEW i \in 1 .. count', NEW j \in 1 .. count',
                      items'[i].profiles[c] # Null, items'[j].profiles[c] # Null, i # j
               PROVE  items'[i].profiles[c] = items'[j].profiles[c]
    BY <1>0 DEF ItemsAgree
  <2>1. i # T /\ j # T
    BY <1>1, <1>2
  <2> QED BY <1>0, <1>2, <2>1 DEF ItemsAgree
<1>6. ProfilesAreEarned'
  <2> SUFFICES ASSUME NEW i \in 1 .. count', NEW c \in Components, items'[i].profiles[c] # Null
               PROVE  /\ ComponentOf[items'[i].profiles[c]] = c
                      /\ \/ items'[i].matchedNodes > 0 \/ items'[i].overridden[c]
                         \/ allowUnmatched /\ items'[i].profiles[c] = Default[c]
    BY <1>0 DEF ProfilesAreEarned
  <2>1. CASE i = T
    BY <1>1, <2>1
  <2>2. CASE i # T
    BY <1>0, <1>2, <2>2 DEF ProfilesAreEarned
  <2> QED BY <2>1, <2>2
<1> QED BY <1>3, <1>4, <1>5, <1>6 DEF Content

-----------------------------------------------------------------------------
(* The last identity of a component, and those before todo.                  *)

LEMMA GreatestIsMember ==
    ASSUME NEW l \in Nat, NEW S \in SUBSET (1 .. l), S # {}
    PROVE  \E n \in S : \A m \in S : m <= n
<1> DEFINE T == {l - n : n \in S}
<1>1. T \in SUBSET Nat /\ T # {}
  <2>1. \A n \in S : n \in 1 .. l
    OBVIOUS
  <2>2. \A n \in S : l - n \in Nat
    BY <2>1
  <2> QED BY <2>2
<1>2. Least(T) \in T /\ \A t \in T : Least(T) <= t
  <2> HIDE DEF T
  <2> QED BY <1>1, LeastIsMember
<1>3. PICK n \in S : Least(T) = l - n
  BY <1>2
<1>4. ASSUME NEW m \in S PROVE m <= n
  <2>1. l - m \in T
    OBVIOUS
  <2>2. l - n <= l - m
    BY <1>2, <1>3, <2>1
  <2> QED BY <2>2
<1> QED BY <1>4

LEMMA LastOfIsLast ==
    ASSUME NEW ids \in Seq(Ids), NEW c \in Components
    PROVE  \/ /\ LastOf(ids, c) = Null
              /\ \A n \in 1 .. Len(ids) : ids[n] \in Profiles => ComponentOf[ids[n]] # c
           \/ /\ LastOf(ids, c) # Null
              /\ \E n \in 1 .. Len(ids) : /\ IsLast(ids, Len(ids), n)
                                          /\ ComponentOf[ids[n]] = c
                                          /\ LastOf(ids, c) = ids[n]
<1> DEFINE of == {n \in DOMAIN ids : ids[n] \in Profiles /\ ComponentOf[ids[n]] = c}
           N == CHOOSE n \in of : \A m \in of : m <= n
<1>0. DOMAIN ids = 1 .. Len(ids) /\ Len(ids) \in Nat
  BY LenProperties
<1>1. CASE of = {}
  BY <1>0, <1>1 DEF LastOf
<1>2. CASE of # {}
  <2>1. of \in SUBSET (1 .. Len(ids))
    BY <1>0
  <2>2. \E n \in of : \A m \in of : m <= n
    <3> HIDE DEF of
    <3> QED BY <1>0, <1>2, <2>1, GreatestIsMember
  <2>3. N \in of /\ \A m \in of : m <= N
    BY <2>2
  <2>4. LastOf(ids, c) = ids[N]
    BY <1>2 DEF LastOf
  <2> HIDE DEF N
  <2>5. N \in 1 .. Len(ids) /\ ids[N] \in Profiles /\ ComponentOf[ids[N]] = c
    BY <1>0, <2>3
  <2>6. \A m \in 1 .. Len(ids) : m > N /\ ids[m] \in Profiles => ComponentOf[ids[m]] # c
    <3> SUFFICES ASSUME NEW m \in 1 .. Len(ids), m > N, ids[m] \in Profiles, ComponentOf[ids[m]] = c
                 PROVE  FALSE
      OBVIOUS
    <3>1. m \in of
      BY <1>0
    <3> QED BY <2>3, <2>5, <3>1
  <2>7. IsLast(ids, Len(ids), N)
    BY <2>5, <2>6 DEF IsLast
  <2>8. ids[N] # Null
    BY <2>5, Constants
  <2> QED BY <2>4, <2>5, <2>7, <2>8
<1> QED BY <1>1, <1>2

LEMMA RestStep ==
    ASSUME NEW ids \in Seq(Ids), NEW k, k = Len(ids) - Len(todo),
           todo \in Seq(Ids), todo # <<>>, IsRest(ids), todo' = Tail(todo)
    PROVE  /\ k \in Nat /\ k + 1 \in 1 .. Len(ids) /\ Head(todo) = ids[k + 1]
           /\ todo' \in Seq(Ids) /\ IsRest(ids)' /\ k + 1 = Len(ids) - Len(todo')
<1>1. /\ Len(todo) \in Nat \ {0} /\ Len(ids) \in Nat
      /\ Head(todo) = todo[1] /\ todo' \in Seq(Ids)
      /\ Len(todo') = Len(todo) - 1
      /\ \A n \in 1 .. Len(todo') : todo'[n] = todo[n + 1]
  BY EmptySeq, LenProperties, HeadTailProperties
<1>2. /\ Len(todo) <= Len(ids)
      /\ \A n \in 1 .. Len(todo) : todo[n] = ids[Len(ids) - Len(todo) + n]
  BY DEF IsRest
<1>3. k \in Nat /\ k + 1 \in 1 .. Len(ids) /\ k + 1 = Len(ids) - Len(todo')
  BY <1>1, <1>2
<1>4. Head(todo) = ids[k + 1]
  BY <1>1, <1>2
<1>5. ASSUME NEW n \in 1 .. Len(todo') PROVE todo'[n] = ids[Len(ids) - Len(todo') + n]
  <2>1. n + 1 \in 1 .. Len(todo) /\ Len(ids) - Len(todo) + (n + 1) = Len(ids) - Len(todo') + n
    BY <1>1
  <2> QED BY <1>1, <1>2, <2>1
<1>6. Len(todo') <= Len(ids)
  BY <1>1, <1>2
<1> QED BY <1>1, <1>3, <1>4, <1>5, <1>6 DEF IsRest

\* The last of one identity more.
LEMMA LastStep ==
    ASSUME NEW ids, NEW k \in Nat, NEW n \in 1 .. k + 1, IsLast(ids, k + 1, n)
    PROVE  \/ n = k + 1
           \/ /\ n \in 1 .. k /\ IsLast(ids, k, n)
              /\ ids[k + 1] \in Profiles => ComponentOf[ids[k + 1]] # ComponentOf[ids[n]]
<1> SUFFICES ASSUME n # k + 1
             PROVE  /\ n \in 1 .. k /\ IsLast(ids, k, n)
                    /\ ids[k + 1] \in Profiles => ComponentOf[ids[k + 1]] # ComponentOf[ids[n]]
  OBVIOUS
<1>1. n \in 1 .. k /\ k + 1 > n /\ k + 1 \in 1 .. k + 1 /\ (1 .. k) \subseteq 1 .. k + 1
  OBVIOUS
<1> QED BY <1>1 DEF IsLast

LEMMA AddKeepsKept ==
    ASSUME Types, UnusedIsClean, NEW ids \in Seq(Ids), NEW k \in Nat, k + 1 \in 1 .. Len(ids),
           Kept(ids, k), ids[k + 1] \in Profiles, AddProfile(ids[k + 1])
    PROVE  \A n \in 1 .. k + 1 : IsLast(ids, k + 1, n) => Holds(ids[n])'
<1> DEFINE p == ids[k + 1]
<1> SUFFICES ASSUME NEW n \in 1 .. k + 1, IsLast(ids, k + 1, n) PROVE Holds(ids[n])'
  OBVIOUS
<1>0. count \in Nat
  BY Constants DEF Types, TypeOK
<1>1. /\ count' \in 1 .. Capacity /\ count' = (IF count = 0 THEN 1 ELSE count)
      /\ \A i \in 1 .. count' : \A c \in Components :
           /\ items'[i].profiles[c] = IF c = ComponentOf[p] THEN p
                                      ELSE IF count = 0 THEN Null ELSE items[i].profiles[c]
           /\ items'[i].overridden[c] = IF c = ComponentOf[p] THEN TRUE
                                        ELSE IF count = 0 THEN FALSE ELSE items[i].overridden[c]
  BY AddProfileEffect
<1>2. count' > 0 /\ Used' = 1 .. count'
  BY <1>1, Constants DEF Used
<1>3. CASE n = k + 1
  <2>1. ComponentOf[p] \in Components
    BY Constants
  <2>2. \A i \in 1 .. count' : items'[i].profiles[ComponentOf[p]] = p
    BY <1>1, <2>1
  <2>3. \A i \in 1 .. count' : items'[i].overridden[ComponentOf[p]] = TRUE
    BY <1>1, <2>1
  <2> QED BY <1>2, <1>3, <2>2, <2>3 DEF Holds
<1>4. CASE n # k + 1
  <2>1. n \in 1 .. k /\ IsLast(ids, k, n) /\ ComponentOf[p] # ComponentOf[ids[n]]
    BY <1>4, LastStep
  <2>2. ids[n] \in Profiles
    BY <2>1 DEF IsLast
  <2>3. Holds(ids[n])
    BY <2>1 DEF Kept
  <2> DEFINE d == ComponentOf[ids[n]]
  <2>4. d \in Components /\ d # ComponentOf[p]
    BY <2>1, <2>2, Constants
  <2>5. count > 0 /\ count # 0 /\ \A i \in Used : items[i].profiles[d] = ids[n] /\ items[i].overridden[d]
    BY <1>0, <2>3 DEF Holds
  <2>6. count' = count /\ Used = 1 .. count'
    BY <1>1, <2>5 DEF Used
  <2>7. ASSUME NEW i \in 1 .. count'
        PROVE  /\ items'[i].profiles[d] = items[i].profiles[d]
               /\ items'[i].overridden[d] = items[i].overridden[d]
    <3> HIDE DEF d, p
    <3>1. items'[i].profiles[d] = items[i].profiles[d]
      BY <1>1, <2>4, <2>5
    <3>2. items'[i].overridden[d] = items[i].overridden[d]
      BY <1>1, <2>4, <2>5
    <3> QED BY <3>1, <3>2
  <2> QED BY <1>2, <2>5, <2>6, <2>7 DEF Holds
<1> QED BY <1>3, <1>4

LEMMA SkipKeepsKept ==
    ASSUME NEW ids, NEW k \in Nat, Kept(ids, k), ids[k + 1] \notin Profiles,
           UNCHANGED <<count, items>>
    PROVE  \A n \in 1 .. k + 1 : IsLast(ids, k + 1, n) => Holds(ids[n])'
<1> SUFFICES ASSUME NEW n \in 1 .. k + 1, IsLast(ids, k + 1, n) PROVE Holds(ids[n])'
  OBVIOUS
<1>1. n # k + 1
  BY DEF IsLast
<1>2. n \in 1 .. k /\ IsLast(ids, k, n)
  BY <1>1, LastStep
<1> QED BY <1>2 DEF Kept, Holds, Used

\* A component with a profile in all items takes no default.
LEMMA MissingKeepsHolds ==
    ASSUME Types, UnusedIsClean, AskedIsThere, SetMissingDefaults, NEW p \in Profiles, Holds(p)
    PROVE  Holds(p)'
<1> DEFINE d == ComponentOf[p]
<1>0. /\ count \in 0 .. Capacity /\ count \in Nat /\ count > 0 /\ d \in Components
      /\ p # Null
      /\ \A i \in Used : items[i].profiles[d] = p /\ items[i].overridden[d]
      /\ Used \subseteq Items /\ Used = 1 .. count /\ 1 \in 1 .. count
  BY Constants DEF Types, TypeOK, Holds, Used
<1>1. /\ count' = (IF allowUnmatched /\ count = 0 THEN 1 ELSE count)
      /\ \A i \in Items, c \in Components :
           /\ items'[i].profiles[c] = IF TakesDefault(i, c) THEN Default[c] ELSE items[i].profiles[c]
           /\ items'[i].overridden[c] = (TakesDefault(i, c) \/ items[i].overridden[c])
      /\ \A i \in Items, c \in Components : TakesDefault(i, c) =>
              \A j \in 1 .. count' : items[j].profiles[c] = Null
  BY SetMissingEffect
<1>2. count' = count /\ Used' = Used
  BY <1>0, <1>1 DEF Used
<1>3. ASSUME NEW i \in Used PROVE items'[i].profiles[d] = p /\ items'[i].overridden[d]
  <2>1. ~ TakesDefault(i, d)
    BY <1>0, <1>1, <1>2
  <2> QED BY <1>0, <1>1, <2>1
<1> QED BY <1>0, <1>2, <1>3 DEF Holds

-----------------------------------------------------------------------------
(* The strengthening is kept, one kind of step after another.                *)

LEMMA TypesNext ==
    ASSUME Types, UNCHANGED config,
           entry' \in {"create", "evidence", "deviceId"},
           pc' \in {"ready", "overrides", "deviceId", "header", "next", "pair", "overrideId",
                    "direct"},
           IsEvidence(evidence'),
           todo' \in Seq(Ids) \cup Seq(BOOLEAN),
           pending' \subseteq Available,
           component' \in Components \cup {0},
           lastResult' \in 0 .. count',
           foundIds' \in Nat,
           count' \in 0 .. Capacity,
           items' \in [Items -> ItemSet],
           exception' \in BOOLEAN,
           pc' = "pair" => todo' \in Seq(BOOLEAN),
           pc' \in {"deviceId", "overrideId", "direct"} => todo' \in Seq(Ids),
           pc' = "overrides" => todo' = evidence'.deviceIds
    PROVE  Types'
<1>1. DOMAIN items' = Items /\ \A i \in Items : IsItem(items'[i])
  BY ItemParts
<1>2. {allowUnmatched', processSpecialEvidence', exception'} \subseteq BOOLEAN
  <2>1. {allowUnmatched, processSpecialEvidence, exception} \subseteq BOOLEAN
    BY DEF Types, TypeOK
  <2> QED BY <2>1 DEF config
<1>3. TypeOK'
  BY <1>1, <1>2 DEF TypeOK, IsEvidence, IsItem
<1> QED BY <1>3 DEF Types

\* What the types say of the steps below.
LEMMA TypeFacts ==
    ASSUME Types
    PROVE  /\ count \in 0 .. Capacity /\ count \in Nat /\ lastResult \in 0 .. count
           /\ foundIds \in Nat /\ exception \in BOOLEAN /\ allowUnmatched \in BOOLEAN
           /\ items \in [Items -> ItemSet]
           /\ IsEvidence(evidence) /\ todo \in Seq(Ids) \cup Seq(BOOLEAN)
           /\ evidence.deviceIds \in Seq(Ids) /\ evidence.overrideIds \in Seq(Ids)
           /\ pending \subseteq Available /\ component \in Components \cup {0}
           /\ entry \in {"create", "evidence", "deviceId"}
           /\ Used = 1 .. count /\ Used \subseteq Items
<1>1. count \in Nat /\ Used = 1 .. count /\ Used \subseteq Items
  BY Constants DEF Types, TypeOK, Used
<1> QED BY <1>1 DEF Types, TypeOK, IsEvidence

LEMMA ContentFrame ==
    ASSUME Content, UNCHANGED <<allowUnmatched, count, items>>
    PROVE  Content'
BY DEF Content, AskedIsThere, UnusedIsClean, ItemsAgree, ProfilesAreEarned, Used

LEMMA BeginInvariant ==
    ASSUME IInv, NEW e \in Evidence, Begin(e)
    PROVE  IInv'
<1>0. /\ Types /\ UnusedIsClean /\ UNCHANGED <<config, component>>
      /\ evidence' = e /\ count' = 0 /\ exception' = FALSE /\ foundIds' = 0
      /\ todo' = e.deviceIds /\ pending' = {} /\ lastResult' = 0
      /\ pc' \in {"overrides", "header"} /\ entry' = "evidence"
  BY DEF IInv, Begin
<1>1. IsEvidence(e) /\ e.deviceIds \in Seq(Ids)
  BY EvidenceAssumption DEF IsEvidence
<1>2. items' = [i \in Items |-> Reset]
  <2>1. items' = [i \in Items |-> IF i <= count THEN Reset ELSE items[i]]
    BY DEF Begin
  <2>2. \A i \in Items : ~ i <= count => items[i] = Reset
    BY <1>0, Constants, TypeFacts DEF UnusedIsClean
  <2> QED BY <2>1, <2>2
<1>3. Types'
  <2>1. items' \in [Items -> ItemSet] /\ 0 \in 0 .. Capacity /\ 0 \in 0 .. 0 /\ 0 \in Nat
    BY <1>2, ResetItem, Constants
  <2>2. component' \in Components \cup {0}
    BY <1>0, TypeFacts
  <2> QED BY <1>0, <1>1, <2>1, <2>2, TypesNext
<1>4. Used' = {} /\ 0 \notin Used'
  BY <1>0 DEF Used
<1>5. Content'
  BY <1>2, <1>4 DEF Content, AskedIsThere, UnusedIsClean, ItemsAgree, ProfilesAreEarned
<1>6. Calls' /\ Handled' /\ Shaped' /\ DeviceIdsKept' /\ OverridesKept' /\ Retrieved' /\ Complete'
  BY <1>0 DEF Calls, Handled, Shaped, PastHeaders, DeviceIdsKept, OverridesKept, Retrieved,
              Complete, Ended
<1> QED BY <1>3, <1>5, <1>6 DEF IInv, Content

(* Steps that only go on; no profile identity and no header was looked at.   *)
LEMMA GoOnInvariant ==
    ASSUME IInv, UNCHANGED <<config, component, lastResult, pending, count, items>>,
           \/ \E e \in Evidence : FromDeviceId(e.deviceIds)
           \/ DirectEnds
           \/ ExtractOverrides
           \/ NoDeviceIds
    PROVE  IInv'
<1>0. Types /\ Content /\ Calls /\ DeviceIdsKept
  BY DEF IInv, Content
<1>1. Content'
  BY <1>0, ContentFrame DEF config
<1>2. CASE \E e \in Evidence : FromDeviceId(e.deviceIds)
  <2>1. PICK e \in Evidence : FromDeviceId(e.deviceIds)
    BY <1>2
  <2>2. /\ pc' = "direct" /\ entry' = "deviceId" /\ evidence' = NoEvidence
        /\ todo' = e.deviceIds /\ exception' = FALSE /\ foundIds' = foundIds
    BY <2>1 DEF FromDeviceId
  <2>3. e.deviceIds \in Seq(Ids) /\ IsEvidence(NoEvidence)
    BY EvidenceAssumption DEF IsEvidence, NoEvidence
  <2>4. Types'
    BY <1>0, <2>2, <2>3, TypesNext, TypeFacts
  <2>5. Calls' /\ Handled' /\ Shaped' /\ DeviceIdsKept' /\ OverridesKept' /\ Retrieved' /\ Complete'
    BY <2>2 DEF Calls, Handled, Shaped, PastHeaders, DeviceIdsKept, OverridesKept, Retrieved,
                Complete, Ended
  <2> QED BY <1>1, <2>4, <2>5 DEF IInv, Content
<1>3. CASE DirectEnds
  <2>1. /\ pc' = "ready" /\ entry' = "deviceId"
        /\ UNCHANGED <<evidence, todo, foundIds, exception>>
    BY <1>0, <1>3 DEF DirectEnds, loop, Calls
  <2>2. Types'
    BY <1>0, <2>1, TypesNext, TypeFacts
  <2>3. Calls' /\ Handled' /\ Shaped' /\ DeviceIdsKept' /\ OverridesKept' /\ Retrieved' /\ Complete'
    BY <2>1 DEF Calls, Handled, Shaped, PastHeaders, DeviceIdsKept, OverridesKept, Retrieved,
                Complete, Ended
  <2> QED BY <1>1, <2>2, <2>3 DEF IInv, Content
<1>4. CASE ExtractOverrides
  <2>1. /\ pc = "overrides" /\ UNCHANGED <<entry, evidence, todo, foundIds>>
        /\ \/ pc' = "deviceId" /\ exception' = exception
           \/ pc' = "ready" /\ exception' = TRUE
        /\ todo = evidence.deviceIds /\ foundIds = 0 /\ count = 0
    BY <1>0, <1>4 DEF ExtractOverrides, loop, Types, Calls
  <2>2. Types'
    <3>1. todo' \in Seq(Ids) /\ exception' \in BOOLEAN
      BY <1>0, <2>1, TypeFacts
    <3>2. pc' # "pair" /\ pc' # "overrides"
      BY <2>1
    <3> QED BY <1>0, <2>1, <3>1, <3>2, TypesNext, TypeFacts
  <2>3. CASE pc' = "ready" /\ exception' = TRUE
    <3>1. Calls' /\ Handled' /\ Shaped' /\ DeviceIdsKept' /\ OverridesKept' /\ Retrieved' /\ Complete'
      BY <2>3 DEF Calls, Handled, Shaped, PastHeaders, DeviceIdsKept, OverridesKept, Retrieved,
                  Complete, Ended
    <3> QED BY <1>1, <2>2, <3>1 DEF IInv, Content
  <2>4. CASE pc' = "deviceId"
    <3>1. Calls' /\ Handled' /\ Shaped' /\ OverridesKept' /\ Retrieved' /\ Complete'
      BY <2>4 DEF Calls, Handled, Shaped, PastHeaders, OverridesKept, Retrieved,
                  Complete, Ended
    <3>2. DeviceIdsKept'
      <4> DEFINE ids == evidence.deviceIds
      <4>1. Len(ids) \in Nat /\ todo' = ids /\ evidence'.deviceIds = ids
        BY <1>0, <2>1, TypeFacts, LenProperties
      <4>2. Len(ids) - Len(todo') = 0 /\ 1 .. 0 = {} /\ Len(todo') <= Len(ids)
            /\ \A n \in 1 .. Len(todo') : todo'[n] = ids[0 + n]
        BY <4>1
      <4>3. IsRest(evidence.deviceIds)'
        BY <4>1, <4>2 DEF IsRest
      <4>4. Kept(evidence.deviceIds, Len(evidence.deviceIds) - Len(todo))'
        BY <4>1, <4>2 DEF Kept
      <4>5. count' = 0 /\ foundIds' = 0
        BY <2>1
      <4> QED BY <4>3, <4>4, <4>5 DEF DeviceIdsKept
    <3> QED BY <1>1, <2>2, <3>1, <3>2 DEF IInv, Content
  <2> QED BY <2>1, <2>3, <2>4
<1>5. CASE NoDeviceIds
  <2>1. /\ pc = "deviceId" /\ pc' = "header" /\ foundIds = 0 /\ count = 0
        /\ UNCHANGED <<entry, evidence, todo, foundIds, exception>>
    BY <1>0, <1>5 DEF NoDeviceIds, loop, DeviceIdsKept
  <2>2. Types'
    BY <1>0, <2>1, TypesNext, TypeFacts
  <2>3. Calls' /\ Handled' /\ Shaped' /\ DeviceIdsKept' /\ OverridesKept' /\ Retrieved' /\ Complete'
    BY <2>1 DEF Calls, Handled, Shaped, PastHeaders, DeviceIdsKept, OverridesKept, Retrieved,
                Complete, Ended
  <2> QED BY <1>1, <2>2, <2>3 DEF IInv, Content
<1> QED BY <1>2, <1>3, <1>4, <1>5

LEMMA InitInvariant == ASSUME Init PROVE IInv
<1>1. IsEvidence(NoEvidence) /\ NoEvidence.deviceIds = <<>>
  BY DEF IsEvidence, NoEvidence
<1>2. items = [i \in Items |-> Reset] /\ items \in [Items -> ItemSet]
  BY ResetItem DEF Init
<1>3. DOMAIN items = Items /\ \A i \in Items : IsItem(items[i])
  BY <1>2, ItemParts
<1>4. /\ {allowUnmatched, processSpecialEvidence, exception} \subseteq BOOLEAN
      /\ entry = "create" /\ pc = "ready" /\ evidence = NoEvidence /\ todo = <<>>
      /\ pending = {} /\ component = 0 /\ lastResult = 0 /\ foundIds = 0 /\ count = 0
  BY DEF Init
<1>5. 0 \in 0 .. count /\ count \in 0 .. Capacity /\ 0 \in Nat /\ Used = {}
  BY <1>4, Constants DEF Used
<1>6. todo \in Seq(Ids)
  BY <1>4
<1>7. TypeOK
  BY <1>1, <1>3, <1>4, <1>5, <1>6 DEF TypeOK
<1>8. Types
  BY <1>2, <1>4, <1>7 DEF Types
<1>9. Content
  BY <1>2, <1>5 DEF Content, AskedIsThere, UnusedIsClean, ItemsAgree, ProfilesAreEarned
<1>10. Calls /\ Handled /\ Shaped /\ DeviceIdsKept /\ OverridesKept /\ Retrieved /\ Complete
  BY <1>4 DEF Calls, Handled, Shaped, PastHeaders, DeviceIdsKept, OverridesKept, Retrieved,
              Complete, Ended
<1> QED BY <1>8, <1>9, <1>10 DEF IInv, Content

-----------------------------------------------------------------------------
(* The steps from one profile identity to the next.                          *)

LEMMA AddTypes ==
    ASSUME Types, UnusedIsClean, NEW p \in Profiles, AddProfile(p)
    PROVE  /\ items' \in [Items -> ItemSet] /\ count' \in 0 .. Capacity /\ lastResult \in 0 .. count'
           /\ count' = (IF count = 0 THEN 1 ELSE count)
<1>1. /\ items' \in [Items -> ItemSet] /\ count' \in 1 .. Capacity
      /\ count' = (IF count = 0 THEN 1 ELSE count)
  BY AddProfileEffect
<1>2. count \in Nat /\ lastResult \in 0 .. count /\ Capacity \in Nat
  BY TypeFacts, Constants
<1>3. count' \in 0 .. Capacity /\ lastResult \in 0 .. count'
  BY <1>1, <1>2
<1> QED BY <1>1, <1>3

\* A profile identity that cannot be read ends the call.
LEMMA FailsInvariant ==
    ASSUME IInv, pc' = "ready", exception' = TRUE, todo' = <<>>,
           UNCHANGED <<config, entry, evidence, pending, component, lastResult, foundIds,
                       count, items>>
    PROVE  IInv'
<1>1. Types /\ Content
  BY DEF IInv, Content
<1>2. Content'
  BY <1>1, ContentFrame DEF config
<1>3. Types'
  <2>1. todo' \in Seq(Ids)
    OBVIOUS
  <2> QED BY <1>1, <2>1, TypesNext, TypeFacts
<1>4. Calls' /\ Handled' /\ Shaped' /\ DeviceIdsKept' /\ OverridesKept' /\ Retrieved' /\ Complete'
  BY DEF Calls, Handled, Shaped, PastHeaders, DeviceIdsKept, OverridesKept, Retrieved,
         Complete, Ended
<1> QED BY <1>2, <1>3, <1>4 DEF IInv, Content

LEMMA DirectProfileInvariant ==
    ASSUME IInv, DirectProfile
    PROVE  IInv'
<1>0. /\ pc = "direct" /\ todo # <<>> /\ entry = "deviceId"
      /\ UNCHANGED <<config, entry, evidence, pending, component, lastResult, foundIds>>
      /\ AddNext(TRUE, TRUE) /\ Types /\ Content /\ UnusedIsClean /\ todo \in Seq(Ids)
  BY DEF IInv, Content, DirectProfile, Calls, Types
<1>1. Head(todo) \in Ids /\ Tail(todo) \in Seq(Ids)
  BY <1>0, EmptySeq, HeadTailProperties
<1>2. ASSUME UNCHANGED <<pc, exception>>, todo' = Tail(todo), Types', Content' PROVE IInv'
  <2>1. Calls' /\ Handled' /\ Shaped' /\ DeviceIdsKept' /\ OverridesKept' /\ Retrieved' /\ Complete'
    BY <1>0, <1>2 DEF Calls, Handled, Shaped, PastHeaders, DeviceIdsKept, OverridesKept,
                      Retrieved, Complete, Ended
  <2> QED BY <1>2, <2>1 DEF IInv, Content
<1>3. CASE /\ Head(todo) \in Profiles /\ AddProfile(Head(todo))
           /\ todo' = Tail(todo) /\ UNCHANGED <<pc, exception>>
  <2>1. items' \in [Items -> ItemSet] /\ count' \in 0 .. Capacity /\ lastResult \in 0 .. count'
    BY <1>0, <1>3, AddTypes
  <2>2. Types'
    BY <1>0, <1>1, <1>3, <2>1, TypesNext, TypeFacts
  <2>3. Content'
    BY <1>0, <1>3, AddKeepsContent
  <2> QED BY <1>2, <1>3, <2>2, <2>3
<1>4. CASE todo' = Tail(todo) /\ UNCHANGED <<pc, count, items, exception>>
  <2>1. Types'
    BY <1>0, <1>1, <1>4, TypesNext, TypeFacts
  <2>2. Content'
    BY <1>0, <1>4, ContentFrame DEF config
  <2> QED BY <1>2, <1>4, <2>1, <2>2
<1>5. CASE /\ exception' = TRUE /\ todo' = <<>> /\ pc' = "ready" /\ UNCHANGED <<count, items>>
  BY <1>0, <1>5, FailsInvariant
<1> QED BY <1>0, <1>3, <1>4, <1>5 DEF AddNext

\* The last identity of a component stays the last one if the next is of another.
LEMMA LastStays ==
    ASSUME NEW ids, NEW k \in Nat, NEW n \in 1 .. k, IsLast(ids, k, n),
           ids[k + 1] \in Profiles => ComponentOf[ids[k + 1]] # ComponentOf[ids[n]]
    PROVE  n \in 1 .. k + 1 /\ IsLast(ids, k + 1, n)
<1>1. n \in 1 .. k + 1 /\ \A m \in 1 .. k + 1 : m \in 1 .. k \/ m = k + 1
  OBVIOUS
<1> QED BY <1>1 DEF IsLast

LEMMA NextIsLast ==
    ASSUME NEW ids, NEW k \in Nat, ids[k + 1] \in Profiles
    PROVE  k + 1 \in 1 .. k + 1 /\ IsLast(ids, k + 1, k + 1)
<1>1. k + 1 \in 1 .. k + 1 /\ \A m \in 1 .. k + 1 : ~ m > k + 1
  OBVIOUS
<1> QED BY <1>1 DEF IsLast

LEMMA DeviceIdProfileInvariant ==
    ASSUME IInv, DeviceIdProfile
    PROVE  IInv'
<1> PICK ids : ids = evidence.deviceIds
  OBVIOUS
<1> PICK k : k = Len(ids) - Len(todo)
  OBVIOUS
<1>0. /\ pc = "deviceId" /\ todo # <<>>
      /\ UNCHANGED <<config, entry, evidence, pending, component, lastResult>>
      /\ AddNext(foundIds' = foundIds + 1, UNCHANGED foundIds)
      /\ Types /\ Content /\ UnusedIsClean /\ todo \in Seq(Ids) /\ ids \in Seq(Ids)
      /\ count \in Nat /\ foundIds \in Nat
  BY TypeFacts DEF IInv, Content, DeviceIdProfile, Types
<1>1. Head(todo) \in Ids /\ Tail(todo) \in Seq(Ids)
  BY <1>0, EmptySeq, HeadTailProperties
<1>2. /\ IsRest(ids) /\ Kept(ids, k)
      /\ count = (IF foundIds = 0 THEN 0 ELSE 1)
      /\ count = 1 => items[1].header = -1
      /\ count = 1 => \A c \in Components : items[1].profiles[c] # Null =>
                          \E n \in 1 .. k : IsLast(ids, k, n) /\ ComponentOf[ids[n]] = c
  BY <1>0 DEF IInv, DeviceIdsKept
<1>3. todo' = Tail(todo) =>
        /\ k \in Nat /\ k + 1 \in 1 .. Len(ids) /\ Head(todo) = ids[k + 1]
        /\ IsRest(ids)' /\ k + 1 = Len(ids) - Len(todo')
  BY <1>0, <1>2, RestStep
<1>4. evidence'.deviceIds = ids
  BY <1>0
\* It is enough to show what is kept of one identity more.
<1>5. ASSUME UNCHANGED <<pc, exception>>, todo' = Tail(todo), Types', Content',
             \A n \in 1 .. k + 1 : IsLast(ids, k + 1, n) => Holds(ids[n])',
             count' = (IF foundIds' = 0 THEN 0 ELSE 1),
             count' = 1 => items'[1].header = -1,
             count' = 1 => \A c \in Components : items'[1].profiles[c] # Null =>
                          \E n \in 1 .. k + 1 : IsLast(ids, k + 1, n) /\ ComponentOf[ids[n]] = c
      PROVE  IInv'
  <2>1. Calls' /\ Handled' /\ Shaped' /\ OverridesKept' /\ Retrieved' /\ Complete'
    BY <1>0, <1>5 DEF Calls, Handled, Shaped, PastHeaders, OverridesKept,
                      Retrieved, Complete, Ended
  <2>2. DeviceIdsKept'
    <3>1. IsRest(evidence.deviceIds)'
      BY <1>3, <1>4, <1>5
    <3>2. Len(evidence'.deviceIds) - Len(todo') = k + 1
      BY <1>3, <1>4, <1>5
    <3>3. Kept(evidence.deviceIds, Len(evidence.deviceIds) - Len(todo))'
      <4>1. Kept(ids, k + 1)'
        BY <1>5 DEF Kept
      <4> QED BY <1>4, <3>2, <4>1
    <3>4. count' = 1 => \A c \in Components : items'[1].profiles[c] # Null =>
             \E n \in 1 .. (Len(evidence'.deviceIds) - Len(todo')) :
                 /\ IsLast(evidence'.deviceIds, Len(evidence'.deviceIds) - Len(todo'), n)
                 /\ ComponentOf[evidence'.deviceIds[n]] = c
      BY <1>4, <1>5, <3>2
    <3> QED BY <1>5, <3>1, <3>3, <3>4 DEF DeviceIdsKept, IsLast
  <2> QED BY <1>5, <2>1, <2>2 DEF IInv, Content
<1>6. CASE /\ Head(todo) \in Profiles /\ AddProfile(Head(todo)) /\ foundIds' = foundIds + 1
           /\ todo' = Tail(todo) /\ UNCHANGED <<pc, exception>>
  <2> DEFINE p == ids[k + 1]
  <2>0. Head(todo) = p /\ p \in Profiles /\ k \in Nat /\ k + 1 \in 1 .. Len(ids)
    BY <1>3, <1>6
  <2>1. /\ items' \in [Items -> ItemSet] /\ count' \in 0 .. Capacity
        /\ lastResult \in 0 .. count' /\ count' = (IF count = 0 THEN 1 ELSE count)
        /\ foundIds' \in Nat /\ foundIds' # 0
    BY <1>0, <1>6, AddTypes
  <2>2. Types'
    BY <1>0, <1>1, <1>6, <2>1, TypesNext, TypeFacts
  <2>3. Content'
    BY <1>0, <1>6, AddKeepsContent
  <2>4. \A n \in 1 .. k + 1 : IsLast(ids, k + 1, n) => Holds(ids[n])'
    BY <1>0, <1>2, <1>6, <2>0, AddKeepsKept
  <2>5. count' = 1 /\ count \in {0, 1}
    BY <1>2, <2>1
  <2>6. /\ items'[1].header = IF count = 0 THEN -1 ELSE items[1].header
        /\ \A c \in Components :
             items'[1].profiles[c] = IF c = ComponentOf[p] THEN p
                                     ELSE IF count = 0 THEN Null ELSE items[1].profiles[c]
    <3>1. 1 \in 1 .. count'
      BY <2>5
    <3>2. AddProfile(p)
      BY <1>6, <2>0
    <3> HIDE DEF p
    <3>3. Types /\ UnusedIsClean /\ p \in Profiles
      BY <1>0, <2>0
    <3>4. /\ \A i \in 1 .. count' : \A c \in Components :
               /\ items'[i].profiles[c] = IF c = ComponentOf[p] THEN p
                                          ELSE IF count = 0 THEN Null ELSE items[i].profiles[c]
               /\ items'[i].overridden[c] = IF c = ComponentOf[p] THEN TRUE
                                            ELSE IF count = 0 THEN FALSE ELSE items[i].overridden[c]
          /\ \A i \in 1 .. count' : /\ items'[i].matchedNodes = IF count = 0 THEN 0 ELSE items[i].matchedNodes
                                    /\ items'[i].header = IF count = 0 THEN -1 ELSE items[i].header
      BY <3>2, <3>3, AddProfileEffect
    <3> QED BY <3>1, <3>4
  <2>7. items'[1].header = -1
    BY <1>2, <2>5, <2>6
  <2>8. ASSUME NEW c \in Components, items'[1].profiles[c] # Null
        PROVE  \E n \in 1 .. k + 1 : IsLast(ids, k + 1, n) /\ ComponentOf[ids[n]] = c
    <3>1. CASE c = ComponentOf[p]
      BY <2>0, <3>1, NextIsLast
    <3>2. CASE c # ComponentOf[p]
      <4>1. count = 1 /\ items[1].profiles[c] # Null
        BY <2>5, <2>6, <2>8, <3>2
      <4>2. PICK n \in 1 .. k : IsLast(ids, k, n) /\ ComponentOf[ids[n]] = c
        BY <1>2, <4>1
      <4>3. n \in 1 .. k + 1 /\ IsLast(ids, k + 1, n)
        BY <2>0, <3>2, <4>2, LastStays
      <4> QED BY <4>2, <4>3
    <3> QED BY <3>1, <3>2
  <2>9. count' = (IF foundIds' = 0 THEN 0 ELSE 1)
    BY <2>1, <2>5
  <2> QED BY <1>5, <1>6, <2>2, <2>3, <2>4, <2>7, <2>8, <2>9
<1>7. CASE /\ Head(todo) \notin Profiles /\ foundIds' = foundIds
           /\ todo' = Tail(todo) /\ UNCHANGED <<pc, count, items, exception>>
  <2>0. ids[k + 1] \notin Profiles /\ k \in Nat
    BY <1>3, <1>7
  <2>1. Types'
    BY <1>0, <1>1, <1>7, TypesNext, TypeFacts
  <2>2. Content'
    BY <1>0, <1>7, ContentFrame DEF config
  <2>3. \A n \in 1 .. k + 1 : IsLast(ids, k + 1, n) => Holds(ids[n])'
    BY <1>2, <1>7, <2>0, SkipKeepsKept
  <2>4. ASSUME count = 1, NEW c \in Components, items[1].profiles[c] # Null
        PROVE  \E n \in 1 .. k + 1 : IsLast(ids, k + 1, n) /\ ComponentOf[ids[n]] = c
    <3>1. PICK n \in 1 .. k : IsLast(ids, k, n) /\ ComponentOf[ids[n]] = c
      BY <1>2, <2>4
    <3>2. n \in 1 .. k + 1 /\ IsLast(ids, k + 1, n)
      BY <2>0, <3>1, LastStays
    <3> QED BY <3>1, <3>2
  <2>5. UNCHANGED <<count, items, foundIds>>
    BY <1>7
  <2> QED BY <1>2, <1>5, <1>7, <2>1, <2>2, <2>3, <2>4, <2>5
<1>8. CASE /\ exception' = TRUE /\ foundIds' = foundIds
           /\ todo' = <<>> /\ pc' = "ready" /\ UNCHANGED <<count, items>>
  BY <1>0, <1>8, FailsInvariant
<1> QED BY <1>0, <1>6, <1>7, <1>8 DEF AddNext

\* The components with a header of the data set are finitely many.
LEMMA HeadersFinite ==
    ASSUME NEW S \in SUBSET Available
    PROVE  /\ IsFiniteSet(WithHeader(S)) /\ WithHeader(S) \subseteq S
           /\ Cardinality(WithHeader(S)) \in Nat
           /\ Cardinality(WithHeader(S)) <= Capacity
           /\ WithHeader(S) # {} => Cardinality(WithHeader(S)) # 0
<1>1. WithHeader(S) \subseteq S /\ WithHeader(S) \subseteq Available /\ IsFiniteSet(Available)
  BY Constants DEF WithHeader
<1>2. /\ IsFiniteSet(WithHeader(S))
      /\ Cardinality(WithHeader(S)) <= Cardinality(Available)
  BY <1>1, FS_Subset
<1> QED BY <1>1, <1>2, FS_CardinalityType, FS_EmptySet DEF Capacity

LEMMA OverrideProfileIdInvariant ==
    ASSUME IInv, OverrideProfileId
    PROVE  IInv'
<1> PICK ids : ids = evidence.overrideIds
  OBVIOUS
<1> PICK k : k = Len(ids) - Len(todo)
  OBVIOUS
<1>0. /\ pc = "overrideId" /\ todo # <<>>
      /\ UNCHANGED <<config, entry, evidence, pending, component, lastResult, foundIds>>
      /\ AddNext(TRUE, TRUE)
      /\ Types /\ Content /\ UnusedIsClean /\ todo \in Seq(Ids) /\ ids \in Seq(Ids)
      /\ count \in Nat /\ foundIds \in Nat
  BY TypeFacts DEF IInv, Content, OverrideProfileId, Types
<1>1. Head(todo) \in Ids /\ Tail(todo) \in Seq(Ids)
  BY <1>0, EmptySeq, HeadTailProperties
<1>2. IsRest(ids) /\ Kept(ids, k)
  BY <1>0 DEF IInv, OverridesKept
<1>3. todo' = Tail(todo) =>
        /\ k \in Nat /\ k + 1 \in 1 .. Len(ids) /\ Head(todo) = ids[k + 1]
        /\ IsRest(ids)' /\ k + 1 = Len(ids) - Len(todo')
  BY <1>0, <1>2, RestStep
<1>4. evidence'.overrideIds = ids
  BY <1>0
<1>5. ids # <<>>
  <2>1. Len(todo) \in Nat \ {0} /\ Len(todo) <= Len(ids)
    BY <1>0, <1>2, EmptySeq, LenProperties DEF IsRest
  <2> QED BY <2>1
\* It is enough to show what is kept of one identity more.
<1>6. ASSUME UNCHANGED <<pc, exception>>, todo' = Tail(todo), Types', Content',
             \A n \in 1 .. k + 1 : IsLast(ids, k + 1, n) => Holds(ids[n])',
             count # 0 => count' = count
      PROVE  IInv'
  <2>1. Calls' /\ Handled' /\ DeviceIdsKept' /\ Retrieved' /\ Complete'
    BY <1>0, <1>4, <1>5, <1>6 DEF Calls, Handled, DeviceIdsKept, Retrieved, Complete, Ended
  <2>2. Shaped'
    <3>1. SUFFICES ASSUME foundIds' = 0, WithHeader(Available)' # {}
                   PROVE  count' = Cardinality(WithHeader(Available)')
      BY DEF Shaped, PastHeaders
    <3>2. WithHeader(Available)' = WithHeader(Available)
      BY <1>0 DEF WithHeader, HasHeader
    <3>3. count = Cardinality(WithHeader(Available))
      BY <1>0, <3>1, <3>2 DEF IInv, Shaped, PastHeaders
    <3>4. count # 0
      BY <3>1, <3>2, <3>3, HeadersFinite
    <3> QED BY <1>6, <3>2, <3>3, <3>4
  <2>3. OverridesKept'
    <3>1. IsRest(evidence.overrideIds)'
      BY <1>3, <1>4, <1>6
    <3>2. Len(evidence'.overrideIds) - Len(todo') = k + 1
      BY <1>3, <1>4, <1>6
    <3>3. Kept(evidence.overrideIds, Len(evidence.overrideIds) - Len(todo))'
      <4>1. Kept(ids, k + 1)'
        BY <1>6 DEF Kept
      <4> QED BY <1>4, <3>2, <4>1
    <3> QED BY <1>0, <1>6, <3>1, <3>3 DEF OverridesKept, Ended
  <2> QED BY <1>6, <2>1, <2>2, <2>3 DEF IInv, Content
<1>7. CASE /\ Head(todo) \in Profiles /\ AddProfile(Head(todo))
           /\ todo' = Tail(todo) /\ UNCHANGED <<pc, exception>>
  <2>0. Head(todo) = ids[k + 1] /\ k \in Nat /\ k + 1 \in 1 .. Len(ids)
    BY <1>3, <1>7
  <2>1. /\ items' \in [Items -> ItemSet] /\ count' \in 0 .. Capacity
        /\ lastResult \in 0 .. count' /\ count' = (IF count = 0 THEN 1 ELSE count)
    BY <1>0, <1>7, AddTypes
  <2>2. Types'
    BY <1>0, <1>1, <1>7, <2>1, TypesNext, TypeFacts
  <2>3. Content'
    BY <1>0, <1>7, AddKeepsContent
  <2>4. \A n \in 1 .. k + 1 : IsLast(ids, k + 1, n) => Holds(ids[n])'
    BY <1>0, <1>2, <1>7, <2>0, AddKeepsKept
  <2>5. count # 0 => count' = count
    BY <2>1
  <2> QED BY <1>6, <1>7, <2>2, <2>3, <2>4, <2>5
<1>8. CASE /\ Head(todo) \notin Profiles
           /\ todo' = Tail(todo) /\ UNCHANGED <<pc, count, items, exception>>
  <2>0. ids[k + 1] \notin Profiles /\ k \in Nat
    BY <1>3, <1>8
  <2>1. Types'
    BY <1>0, <1>1, <1>8, TypesNext, TypeFacts
  <2>2. Content'
    BY <1>0, <1>8, ContentFrame DEF config
  <2>3. \A n \in 1 .. k + 1 : IsLast(ids, k + 1, n) => Holds(ids[n])'
    BY <1>2, <1>8, <2>0, SkipKeepsKept
  <2> QED BY <1>6, <1>8, <2>1, <2>2, <2>3
<1>9. CASE exception' = TRUE /\ todo' = <<>> /\ pc' = "ready" /\ UNCHANGED <<count, items>>
  BY <1>0, <1>9, FailsInvariant
<1> QED BY <1>0, <1>7, <1>8, <1>9 DEF AddNext

-----------------------------------------------------------------------------
(* The steps in which components without a profile take their default.       *)

LEMMA MissingTypes ==
    ASSUME Types, Content, SetMissingDefaults
    PROVE  /\ items' \in [Items -> ItemSet] /\ count' \in 0 .. Capacity /\ lastResult \in 0 .. count'
           /\ count # 0 => count' = count
<1>1. /\ items' \in [Items -> ItemSet] /\ count' \in 0 .. Capacity
      /\ count' = (IF allowUnmatched /\ count = 0 THEN 1 ELSE count)
  BY SetMissingEffect DEF Content
<1>2. count \in Nat /\ lastResult \in 0 .. count
  BY TypeFacts
<1>3. lastResult \in 0 .. count' /\ (count # 0 => count' = count)
  BY <1>1, <1>2
<1> QED BY <1>1, <1>3

\* Defaults take the place of no profile that was asked for.
LEMMA MissingKeepsKept ==
    ASSUME Types, Content, SetMissingDefaults, NEW ids, NEW k, Kept(ids, k)
    PROVE  Kept(ids, k)'
<1> SUFFICES ASSUME NEW n \in 1 .. k, IsLast(ids, k, n) PROVE Holds(ids[n])'
  BY DEF Kept, IsLast
<1>1. Holds(ids[n]) /\ ids[n] \in Profiles
  BY DEF Kept, IsLast
<1> QED BY <1>1, MissingKeepsHolds DEF Content

LEMMA DeviceIdsFoundInvariant ==
    ASSUME IInv, DeviceIdsFound
    PROVE  IInv'
<1> PICK ids : ids = evidence.deviceIds
  OBVIOUS
<1>0. /\ pc = "deviceId" /\ todo = <<>> /\ foundIds > 0 /\ foundIds \in Nat
      /\ SetMissingDefaults /\ todo' = evidence.overrideIds /\ pc' = "overrideId"
      /\ UNCHANGED <<config, entry, evidence, pending, component, lastResult, foundIds, exception>>
      /\ Types /\ Content /\ ids \in Seq(Ids) /\ evidence.overrideIds \in Seq(Ids)
  BY TypeFacts DEF IInv, Content, DeviceIdsFound
<1>1. /\ Kept(ids, Len(ids)) /\ count = 1
      /\ \A c \in Components : items[1].profiles[c] # Null =>
             \E n \in 1 .. Len(ids) : IsLast(ids, Len(ids), n) /\ ComponentOf[ids[n]] = c
  <2>1. Len(todo) = 0 /\ Len(ids) \in Nat
    BY <1>0, LenProperties
  <2>2. Len(ids) - Len(todo) = Len(ids) /\ foundIds # 0
    BY <1>0, <2>1
  <2> QED BY <1>0, <2>2 DEF IInv, DeviceIdsKept
<1>2. Types'
  <2>1. items' \in [Items -> ItemSet] /\ count' \in 0 .. Capacity /\ lastResult \in 0 .. count'
    BY <1>0, MissingTypes
  <2> QED BY <1>0, <2>1, TypesNext, TypeFacts
<1>3. Content'
  BY <1>0, MissingKeepsContent
<1>4. OverridesKept'
  <2> PICK over : over = evidence.overrideIds
    OBVIOUS
  <2>1. over \in Seq(Ids) /\ todo' = over /\ evidence'.overrideIds = over /\ Len(over) \in Nat
    BY <1>0, LenProperties
  <2>2. Len(over) - Len(todo') = 0 /\ 1 .. 0 = {} /\ Len(todo') <= Len(over)
        /\ \A n \in 1 .. Len(todo') : todo'[n] = over[0 + n]
    BY <2>1
  <2>3. IsRest(evidence.overrideIds)'
    BY <2>1, <2>2 DEF IsRest
  <2>4. Kept(evidence.overrideIds, Len(evidence.overrideIds) - Len(todo))'
    BY <2>1, <2>2 DEF Kept
  <2> QED BY <1>0, <2>3, <2>4 DEF OverridesKept, Ended
<1>5. Retrieved'
  <2>1. /\ count' = 1
        /\ \A c \in Components : /\ items'[1].profiles[c] = IF TakesDefault(1, c) THEN Default[c] ELSE items[1].profiles[c]
                                 /\ items'[1].overridden[c] = (TakesDefault(1, c) \/ items[1].overridden[c])
    BY <1>0, <1>1, SetMissingEffect, Constants DEF Content
  <2>2. ASSUME NEW c \in Components
        PROVE  items'[1].profiles[c] = Device(c) /\ (items'[1].overridden[c] <=> Device(c) # Null)
    <3>0. Used = {1} /\ Used' = {1} /\ items[1] \in ItemSet
      BY <1>0, <1>1, <2>1, TypeFacts, Constants DEF Used
    <3>1. CASE LastOf(ids, c) # Null
      <4>1. PICK n \in 1 .. Len(ids) : /\ IsLast(ids, Len(ids), n)
                                       /\ ComponentOf[ids[n]] = c /\ LastOf(ids, c) = ids[n]
        BY <1>0, <3>1, LastOfIsLast
      <4>2. Holds(ids[n]) /\ ids[n] \in Profiles
        BY <1>1, <4>1 DEF Kept, IsLast
      <4>3. Holds(ids[n])'
        BY <1>0, <4>2, MissingKeepsHolds DEF Content
      <4>4. items'[1].profiles[c] = ids[n] /\ items'[1].overridden[c]
        BY <3>0, <4>1, <4>3 DEF Holds
      <4> QED BY <3>1, <4>1, <4>4 DEF Device
    <3>2. CASE LastOf(ids, c) = Null
      <4>1. items[1].profiles[c] = Null
        <5>1. \A n \in 1 .. Len(ids) : ids[n] \in Profiles => ComponentOf[ids[n]] # c
          BY <1>0, <3>2, LastOfIsLast
        <5> QED BY <1>1, <5>1 DEF IsLast
      <4>2. items[1].overridden[c] = FALSE
        BY <1>0, <3>0, <4>1, ItemParts DEF Content, AskedIsThere
      <4>3. Selected(c) \in {0, 1}
        <5>1. Selected(c) \in 0 .. count
          BY <1>0, Selection, TypeFacts
        <5> QED BY <1>1, <5>1
      <4>4. SelectedProfile(c) = Null
        BY <4>1, <4>3 DEF SelectedProfile
      <4>5. TakesDefault(1, c) = allowUnmatched
        BY <1>0, <4>3, <4>4, TypeFacts DEF TakesDefault
      <4>6. Device(c) = IF allowUnmatched THEN Default[c] ELSE Null
        BY <3>2 DEF Device
      <4>7. Default[c] # Null /\ allowUnmatched \in BOOLEAN
        BY <1>0, Constants, TypeFacts
      <4>8. CASE allowUnmatched
        BY <2>1, <4>2, <4>5, <4>6, <4>7, <4>8
      <4>9. CASE ~ allowUnmatched
        BY <2>1, <4>1, <4>2, <4>5, <4>6, <4>7, <4>9
      <4> QED BY <4>8, <4>9
    <3> QED BY <3>1, <3>2
  <2>3. \A c \in Components : Device(c)' = Device(c)
    BY <1>0 DEF Device, config
  <2> QED BY <2>1, <2>2, <2>3 DEF Retrieved
<1>6. Calls' /\ Handled' /\ Shaped' /\ DeviceIdsKept' /\ Complete'
  <2>1. foundIds' # 0
    BY <1>0
  <2> QED BY <1>0, <2>1 DEF Calls, Handled, Shaped, PastHeaders, DeviceIdsKept, Complete, Ended
<1> QED BY <1>2, <1>3, <1>4, <1>5, <1>6 DEF IInv, Content

LEMMA OverridesEndInvariant ==
    ASSUME IInv, OverridesEnd
    PROVE  IInv'
<1> PICK ids : ids = evidence.overrideIds
  OBVIOUS
<1>0. /\ pc = "overrideId" /\ todo = <<>> /\ SetMissingDefaults /\ pc' = "ready"
      /\ UNCHANGED <<config, entry, evidence, todo, pending, component, lastResult, foundIds, exception>>
      /\ Types /\ Content /\ ids \in Seq(Ids)
  BY TypeFacts DEF IInv, Content, OverridesEnd, loop
<1>1. items' \in [Items -> ItemSet] /\ count' \in 0 .. Capacity /\ lastResult \in 0 .. count'
      /\ (count # 0 => count' = count)
  BY <1>0, MissingTypes
<1>2. Types'
  BY <1>0, <1>1, TypesNext, TypeFacts
<1>3. Content'
  BY <1>0, MissingKeepsContent
<1>4. OverridesKept'
  <2>1. Len(todo) = 0 /\ Len(ids) \in Nat
    BY <1>0, LenProperties
  <2>2. Len(ids) - Len(todo) = Len(ids)
    BY <2>1
  <2>3. Kept(ids, Len(ids))
    BY <1>0, <2>2 DEF IInv, OverridesKept
  <2>4. Kept(ids, Len(ids))'
    BY <1>0, <2>3, MissingKeepsKept
  <2>5. evidence'.overrideIds = ids
    BY <1>0
  <2> QED BY <1>0, <2>4, <2>5 DEF OverridesKept
<1>5. Shaped'
  <2>1. SUFFICES ASSUME foundIds' = 0, WithHeader(Available)' # {}
                 PROVE  count' = Cardinality(WithHeader(Available)')
    BY DEF Shaped, PastHeaders
  <2>2. WithHeader(Available)' = WithHeader(Available)
    BY <1>0 DEF WithHeader, HasHeader
  <2>3. count = Cardinality(WithHeader(Available))
    BY <1>0, <2>1, <2>2 DEF IInv, Shaped, PastHeaders
  <2>4. count # 0
    BY <2>1, <2>2, <2>3, HeadersFinite
  <2> QED BY <1>1, <2>2, <2>3, <2>4
<1>6. Retrieved'
  <2> SUFFICES ASSUME foundIds' > 0, evidence'.overrideIds = <<>>
               PROVE  /\ count' = 1
                      /\ \A c \in Components : /\ items'[1].profiles[c] = Device(c)'
                                               /\ items'[1].overridden[c] <=> Device(c)' # Null
    BY DEF Retrieved
  <2>1. count = 1 /\ \A c \in Components : /\ items[1].profiles[c] = Device(c)
                                           /\ items[1].overridden[c] <=> Device(c) # Null
    BY <1>0 DEF IInv, Retrieved
  <2>2. /\ count' = 1
        /\ \A c \in Components : /\ items'[1].profiles[c] = IF TakesDefault(1, c) THEN Default[c] ELSE items[1].profiles[c]
                                 /\ items'[1].overridden[c] = (TakesDefault(1, c) \/ items[1].overridden[c])
                                 /\ TakesDefault(1, c) => allowUnmatched /\ items[1].profiles[c] = Null
    <3>1. count' = 1 /\ 1 \in 1 .. count'
      BY <1>1, <2>1
    <3> QED BY <1>0, <3>1, SetMissingEffect, Constants DEF Content
  <2>3. \A c \in Components : Device(c)' = Device(c)
    BY <1>0 DEF Device, config
  <2>4. ASSUME NEW c \in Components PROVE ~ TakesDefault(1, c)
    <3>1. allowUnmatched => Device(c) # Null
      BY Constants DEF Device
    <3> QED BY <2>1, <2>2, <3>1
  <2>5. \A c \in Components : /\ items'[1].profiles[c] = items[1].profiles[c]
                              /\ items'[1].overridden[c] <=> items[1].overridden[c]
    <3> TAKE c \in Components
    <3>1. TakesDefault(1, c) = FALSE
      BY <2>4 DEF TakesDefault
    <3>2. items[1].overridden[c] \in BOOLEAN
      BY <1>0, TypeFacts, ItemParts, Constants
    <3> QED BY <2>2, <3>1, <3>2
  <2> QED BY <2>1, <2>2, <2>3, <2>5
<1>7. Complete'
  <2> SUFFICES ASSUME allowUnmatched' PROVE \A c \in Components : \E i \in 1 .. count' : items'[i].profiles[c] # Null
    BY DEF Complete, Used
  <2>1. allowUnmatched
    BY <1>0 DEF config
  <2> QED BY <1>0, <2>1, SetMissingEffect DEF Content
<1>8. Calls' /\ Handled' /\ DeviceIdsKept'
  BY <1>0 DEF Calls, Handled, DeviceIdsKept
<1> QED BY <1>2, <1>3, <1>4, <1>5, <1>6, <1>7, <1>8 DEF IInv, Content

-----------------------------------------------------------------------------
(* The steps from one component and one of its headers to the next.          *)

LEMMA SetEvidenceHeaderInvariant ==
    ASSUME IInv, SetEvidenceHeader
    PROVE  IInv'
<1>0. /\ pc = "header" /\ pending' = Available /\ pc' = "next"
      /\ UNCHANGED <<config, entry, evidence, todo, component, lastResult, foundIds, count,
                     items, exception>>
      /\ Types /\ Content /\ foundIds = 0 /\ count = 0
  BY DEF IInv, Content, SetEvidenceHeader, Calls
<1>1. Types'
  BY <1>0, TypesNext, TypeFacts
<1>2. Content'
  BY <1>0, ContentFrame DEF config
<1>3. Handled'
  <2>1. WithHeader(Available \ pending)' = {}
    BY <1>0 DEF WithHeader
  <2>2. count' = Cardinality(WithHeader(Available \ pending)')
    BY <1>0, <2>1, FS_EmptySet
  <2>3. Used' = {}
    BY <1>0 DEF Used
  <2> QED BY <1>0, <2>2, <2>3 DEF Handled
<1>4. Calls' /\ Shaped' /\ DeviceIdsKept' /\ OverridesKept' /\ Retrieved' /\ Complete'
  BY <1>0 DEF Calls, Shaped, PastHeaders, DeviceIdsKept, OverridesKept, Retrieved, Complete, Ended
<1> QED BY <1>1, <1>2, <1>3, <1>4 DEF IInv, Content

LEMMA HandleComponentInvariant ==
    ASSUME IInv, HandleComponent
    PROVE  IInv'
<1> DEFINE d == Least(pending)
<1>0. /\ pc = "next" /\ pending # {} /\ component' = d /\ pending' = pending \ {d}
      /\ lastResult' = 0 /\ todo' = evidence.pairs[d] /\ pc' = "pair"
      /\ UNCHANGED <<config, entry, evidence, foundIds, count, items, exception>>
      /\ Types /\ Content /\ foundIds = 0
  BY DEF IInv, Content, HandleComponent, Calls
<1>1. d \in pending /\ pending \subseteq Available /\ d \in Components
  BY <1>0, LeastIsMember, TypeFacts, Constants
<1> HIDE DEF d
<1>2. todo' \in Seq(BOOLEAN)
  BY <1>0, <1>1, TypeFacts DEF IsEvidence
<1>3. Types'
  <2>1. 0 \in 0 .. count
    BY <1>0, TypeFacts
  <2> QED BY <1>0, <1>1, <1>2, <2>1, TypesNext, TypeFacts
<1>4. Content'
  BY <1>0, ContentFrame DEF config
<1>5. Handled'
  <2>1. /\ count = Cardinality(WithHeader(Available \ pending))
        /\ \A i \in Used : \A c \in Components :
               items[i].profiles[c] # Null => c \in Available \ pending
    BY <1>0 DEF IInv, Handled
  <2>2. /\ Available \ (pending' \cup {component'}) = Available \ pending
        /\ component' \in Available \ pending'
    BY <1>0, <1>1
  <2>3. WithHeader(Available \ (pending \cup {component}))' = WithHeader(Available \ pending)
    BY <1>0, <2>2 DEF WithHeader, HasHeader
  <2>4. count' = Cardinality(WithHeader(Available \ (pending \cup {component}))')
                     + (IF lastResult' = 0 THEN 0 ELSE 1)
    <3>1. count \in Nat
      BY <1>0, TypeFacts
    <3>2. count' = count /\ lastResult' = 0
      BY <1>0
    <3> QED BY <2>1, <2>3, <3>1, <3>2
  <2>5. HasHeader(component)' <=> \E n \in DOMAIN todo' : todo'[n]
    BY <1>0 DEF HasHeader
  <2>6. \A i \in Used' : \A c \in Components :
               items'[i].profiles[c] # Null =>
                   c \in Available \ pending' /\ (c = component' => i = lastResult')
    BY <1>0, <1>1, <2>1 DEF Used
  <2> QED BY <1>0, <2>2, <2>4, <2>5, <2>6 DEF Handled
<1>6. Calls' /\ Shaped' /\ DeviceIdsKept' /\ OverridesKept' /\ Retrieved' /\ Complete'
  BY <1>0 DEF Calls, Shaped, PastHeaders, DeviceIdsKept, OverridesKept, Retrieved, Complete, Ended
<1> QED BY <1>3, <1>4, <1>5, <1>6 DEF IInv, Content

\* Whether a header is left is seen from the first pair and from the others.
LEMMA HeaderLeft ==
    ASSUME NEW s \in Seq(BOOLEAN), s # <<>>
    PROVE  /\ Tail(s) \in Seq(BOOLEAN)
           /\ (\E n \in DOMAIN s : s[n]) <=> Head(s) \/ \E n \in DOMAIN Tail(s) : Tail(s)[n]
<1>1. /\ Len(s) \in Nat \ {0} /\ DOMAIN s = 1 .. Len(s) /\ Head(s) = s[1]
      /\ Tail(s) \in Seq(BOOLEAN) /\ Len(Tail(s)) = Len(s) - 1
      /\ \A n \in 1 .. Len(Tail(s)) : Tail(s)[n] = s[n + 1]
  BY EmptySeq, LenProperties, HeadTailProperties
<1>2. DOMAIN Tail(s) = 1 .. Len(Tail(s))
  BY <1>1, LenProperties
<1>3. ASSUME NEW n \in DOMAIN s, s[n], ~ Head(s) PROVE \E m \in DOMAIN Tail(s) : Tail(s)[m]
  <2>1. n # 1
    BY <1>1, <1>3
  <2>2. n - 1 \in 1 .. Len(Tail(s)) /\ (n - 1) + 1 = n
    BY <1>1, <2>1
  <2>3. Tail(s)[n - 1] = s[n]
    BY <1>1, <2>2
  <2> QED BY <1>2, <1>3, <2>2, <2>3
<1>4. ASSUME NEW n \in DOMAIN Tail(s), Tail(s)[n] PROVE \E m \in DOMAIN s : s[m]
  <2>1. n \in 1 .. Len(Tail(s)) /\ n + 1 \in DOMAIN s
    BY <1>1, <1>2
  <2>2. s[n + 1]
    BY <1>1, <1>4, <2>1
  <2> QED BY <2>1, <2>2
<1>5. Head(s) => \E m \in DOMAIN s : s[m]
  <2>1. 1 \in DOMAIN s
    BY <1>1
  <2> QED BY <1>1, <2>1
<1> QED BY <1>1, <1>3, <1>4, <1>5

LEMMA SkipPairInvariant ==
    ASSUME IInv, SkipPair
    PROVE  IInv'
<1>0. /\ pc = "pair" /\ todo # <<>> /\ ~ Head(todo) /\ todo' = Tail(todo) /\ pc' = pc
      /\ UNCHANGED <<config, entry, evidence, pending, component, lastResult, foundIds,
                     count, items, exception>>
      /\ Types /\ Content /\ foundIds = 0 /\ todo \in Seq(BOOLEAN)
  BY DEF IInv, Content, SkipPair, Calls, Types
<1>1. Types'
  BY <1>0, HeaderLeft, TypesNext, TypeFacts
<1>2. Content'
  BY <1>0, ContentFrame DEF config
<1>3. Handled'
  <2>1. WithHeader(Available \ (pending \cup {component}))' = WithHeader(Available \ (pending \cup {component}))
        /\ HasHeader(component)' = HasHeader(component) /\ Used' = Used
    BY <1>0 DEF WithHeader, HasHeader, Used
  <2>2. (\E n \in DOMAIN todo : todo[n]) <=> \E n \in DOMAIN todo' : todo'[n]
    BY <1>0, HeaderLeft
  <2>3. /\ component \in Available \ pending
        /\ count = Cardinality(WithHeader(Available \ (pending \cup {component})))
                     + (IF lastResult = 0 THEN 0 ELSE 1)
        /\ IF lastResult = 0
           THEN HasHeader(component) <=> \E n \in DOMAIN todo : todo[n]
           ELSE HasHeader(component) /\ lastResult = count
        /\ \A i \in Used : \A c \in Components :
               items[i].profiles[c] # Null =>
                   c \in Available \ pending /\ (c = component => i = lastResult)
    BY <1>0 DEF IInv, Handled
  <2>4. count' = Cardinality(WithHeader(Available \ (pending \cup {component}))')
                     + (IF lastResult' = 0 THEN 0 ELSE 1)
    BY <1>0, <2>1, <2>3
  <2>5. IF lastResult' = 0
        THEN HasHeader(component)' <=> \E n \in DOMAIN todo' : todo'[n]
        ELSE HasHeader(component)' /\ lastResult' = count'
    BY <1>0, <2>1, <2>2, <2>3
  <2>6. /\ component' \in Available \ pending'
        /\ \A i \in Used' : \A c \in Components :
               items'[i].profiles[c] # Null =>
                   c \in Available \ pending' /\ (c = component' => i = lastResult')
    BY <1>0, <2>1, <2>3
  <2> QED BY <1>0, <2>4, <2>5, <2>6 DEF Handled
<1>4. Calls' /\ Shaped' /\ DeviceIdsKept' /\ OverridesKept' /\ Retrieved' /\ Complete'
  BY <1>0 DEF Calls, Shaped, PastHeaders, DeviceIdsKept, OverridesKept, Retrieved, Complete, Ended
<1> QED BY <1>1, <1>2, <1>3, <1>4 DEF IInv, Content

\* Whatever the graphs answer, the item of the component is the last one.
LEMMA EvaluateInvariant ==
    ASSUME IInv, NEW profile \in Profiles \cup {Null}, NEW m \in {0, 1}, Evaluate(profile, m),
           profile # Null => /\ ComponentOf[profile] = component
                             /\ m > 0 \/ (allowUnmatched /\ profile = Default[component]),
           todo' \in {<<>>, Tail(todo)}, exception' \in BOOLEAN,
           UNCHANGED <<config, entry, pc, evidence, pending, component, foundIds>>
    PROVE  IInv'
<1> DEFINE Before == Available \ (pending \cup {component})
<1>0. /\ pc = "pair" /\ todo # <<>> /\ Head(todo) /\ todo \in Seq(BOOLEAN)
      /\ Types /\ Content /\ UnusedIsClean /\ foundIds = 0
  BY DEF IInv, Content, Evaluate, Calls, Types
<1>1. /\ component \in Available \ pending
      /\ count = Cardinality(WithHeader(Before)) + (IF lastResult = 0 THEN 0 ELSE 1)
      /\ IF lastResult = 0
         THEN HasHeader(component) <=> \E n \in DOMAIN todo : todo[n]
         ELSE HasHeader(component) /\ lastResult = count
      /\ \A i \in Used : \A c \in Components :
             items[i].profiles[c] # Null =>
                 c \in Available \ pending /\ (c = component => i = lastResult)
  BY <1>0 DEF IInv, Handled
<1>2. component \in Components /\ count \in Nat /\ Cardinality(WithHeader(Before)) \in Nat
  BY <1>0, <1>1, Constants, TypeFacts, HeadersFinite
<1>3. HasHeader(component)
  BY <1>0, <1>1, HeaderLeft
<1>4. /\ items' \in [Items -> ItemSet] /\ count' \in 1 .. Capacity
      /\ Target \in 1 .. Capacity /\ lastResult' = Target /\ lastResult' \in 1 .. count'
      /\ lastResult = 0 => Target = count + 1 /\ count' = count + 1
      /\ lastResult # 0 => Target = lastResult /\ count' = count
      /\ \A i \in Items : i # Target => items'[i] = items[i]
      /\ \A c \in Components : items'[Target].profiles[c] = (IF c = component THEN profile ELSE Null)
  BY <1>0, <1>2, EvaluateEffect
<1>5. Types'
  <2>1. todo' \in Seq(BOOLEAN)
    <3>1. todo \in Seq(BOOLEAN) /\ todo # <<>>
      BY <1>0
    <3>2. Tail(todo) \in Seq(BOOLEAN)
      BY <3>1, HeaderLeft
    <3>3. <<>> \in Seq(BOOLEAN)
      OBVIOUS
    <3> QED BY <3>2, <3>3
  <2>2. count' \in 0 .. Capacity /\ lastResult' \in 0 .. count'
    BY <1>4, Constants
  <2> QED BY <1>0, <1>4, <2>1, <2>2, TypesNext, TypeFacts
<1>6. Content'
  BY <1>0, <1>1, <1>2, EvaluateKeepsContent
<1>7. count' = Cardinality(WithHeader(Before)) + 1 /\ lastResult' = count' /\ lastResult' # 0
  <2> PICK h : h = Cardinality(WithHeader(Before))
    OBVIOUS
  <2>0. h \in Nat /\ count = h + (IF lastResult = 0 THEN 0 ELSE 1)
    BY <1>1, <1>2
  <2>1. CASE lastResult = 0
    <3>1. count = h
      BY <2>0, <2>1
    <3> QED BY <1>2, <1>4, <2>0, <2>1, <3>1
  <2>2. CASE lastResult # 0
    <3>1. count = h + 1 /\ lastResult = count
      BY <1>1, <2>0, <2>2
    <3> QED BY <1>2, <1>4, <2>0, <2>2, <3>1
  <2> QED BY <2>1, <2>2
<1>8. ASSUME NEW i \in Used', NEW c \in Components, items'[i].profiles[c] # Null
      PROVE  c \in Available \ pending /\ (c = component => i = lastResult')
  <2>1. CASE i = Target
    BY <1>1, <1>4, <1>8, <2>1
  <2>2. CASE i # Target
    <3>1. i \in Used /\ i \in Items
      <4>1. i \in 1 .. count'
        BY DEF Used
      <4>2. i \in 1 .. count
        BY <1>2, <1>4, <2>2, <4>1
      <4> QED BY <1>0, <4>2, TypeFacts
    <3>2. items'[i] = items[i]
      BY <1>4, <2>2, <3>1
    <3>3. c \in Available \ pending /\ (c = component => i = lastResult)
      BY <1>1, <1>8, <3>1, <3>2
    <3>4. i # 0
      BY <3>1, <1>2 DEF Used
    <3> QED BY <1>4, <2>2, <3>3, <3>4
  <2> QED BY <2>1, <2>2
<1>9. Handled'
  <2>1. /\ WithHeader(Available \ (pending \cup {component}))' = WithHeader(Before)
        /\ HasHeader(component)' = HasHeader(component)
    BY DEF WithHeader, HasHeader
  <2>2. component' = component /\ pending' = pending /\ pc' = "pair"
    BY <1>0
  <2>3. count' = Cardinality(WithHeader(Available \ (pending \cup {component}))')
                     + (IF lastResult' = 0 THEN 0 ELSE 1)
    BY <1>7, <2>1
  <2>4. /\ component' \in Available \ pending'
        /\ IF lastResult' = 0
           THEN HasHeader(component)' <=> \E n \in DOMAIN todo' : todo'[n]
           ELSE HasHeader(component)' /\ lastResult' = count'
        /\ \A i \in Used' : \A c \in Components :
               items'[i].profiles[c] # Null =>
                   c \in Available \ pending' /\ (c = component' => i = lastResult')
    BY <1>1, <1>3, <1>7, <1>8, <2>1, <2>2
  <2> QED BY <2>2, <2>3, <2>4 DEF Handled
<1>10. Calls' /\ Shaped' /\ DeviceIdsKept' /\ OverridesKept' /\ Retrieved' /\ Complete'
  BY <1>0 DEF Calls, Shaped, PastHeaders, DeviceIdsKept, OverridesKept, Retrieved, Complete, Ended
<1> QED BY <1>5, <1>6, <1>9, <1>10 DEF IInv, Content

LEMMA PairInvariant ==
    ASSUME IInv, PairMatches \/ PairUnmatched \/ PairFails
    PROVE  IInv'
<1>0. /\ UNCHANGED <<config, entry, pc, evidence, pending, component, foundIds>>
      /\ exception' \in BOOLEAN /\ todo' \in {<<>>, Tail(todo)}
  BY TypeFacts DEF IInv, PairMatches, PairUnmatched, PairFails
<1>1. ASSUME NEW q \in Profiles \cup {Null}, Evaluate(q, 0),
             q # Null => allowUnmatched /\ q = Default[component]
      PROVE  IInv'
  <2>1. pc = "pair"
    BY <1>1 DEF Evaluate
  <2>2. component \in Components
    BY <2>1, Constants DEF IInv, Handled
  <2>3. q # Null => /\ ComponentOf[q] = component
                    /\ 0 > 0 \/ (allowUnmatched /\ q = Default[component])
    BY <1>1, <2>2, Constants
  <2> QED BY <1>0, <1>1, <2>3, EvaluateInvariant
<1>2. CASE PairMatches
  <2>1. PICK p \in Profiles : ComponentOf[p] = component /\ Evaluate(p, 1)
    BY <1>2 DEF PairMatches
  <2>2. 1 > 0
    OBVIOUS
  <2> QED BY <1>0, <2>1, <2>2, EvaluateInvariant
<1>3. ASSUME Evaluate(Default[component], 0), allowUnmatched PROVE IInv'
  <2>1. pc = "pair"
    BY <1>3 DEF Evaluate
  <2>2. component \in Components
    BY <2>1, Constants DEF IInv, Handled
  <2> QED BY <1>1, <1>3, <2>2, Constants
<1>4. ASSUME Evaluate(Null, 0) PROVE IInv'
  BY <1>1, <1>4
<1> QED BY <1>2, <1>3, <1>4 DEF PairUnmatched, PairFails

LEMMA ComponentEndsInvariant ==
    ASSUME IInv, ComponentEnds
    PROVE  IInv'
<1> DEFINE Before == Available \ (pending \cup {component})
<1>0. /\ pc = "pair" /\ todo = <<>> /\ pc' = "next"
      /\ UNCHANGED <<config, entry, evidence, todo, pending, component, lastResult, foundIds,
                     count, items, exception>>
      /\ Types /\ Content /\ foundIds = 0
  BY DEF IInv, Content, ComponentEnds, Calls, loop
<1>1. Types'
  BY <1>0, TypesNext, TypeFacts
<1>2. Content'
  BY <1>0, ContentFrame DEF config
<1>3. /\ component \in Available \ pending
      /\ count = Cardinality(WithHeader(Before)) + (IF lastResult = 0 THEN 0 ELSE 1)
      /\ IF lastResult = 0
         THEN HasHeader(component) <=> \E n \in DOMAIN todo : todo[n]
         ELSE HasHeader(component) /\ lastResult = count
      /\ \A i \in Used : \A c \in Components :
             items[i].profiles[c] # Null => c \in Available \ pending
  BY <1>0 DEF IInv, Handled
<1>4. IsFiniteSet(WithHeader(Before)) /\ Cardinality(WithHeader(Before)) \in Nat
      /\ component \notin WithHeader(Before)
  BY HeadersFinite DEF WithHeader
<1>5. count = Cardinality(WithHeader(Available \ pending))
  <2>0. Available \ pending = Before \cup {component}
    BY <1>3
  <2>1. CASE lastResult = 0
    <3>1. DOMAIN todo = {}
      BY <1>0
    <3>2. ~ HasHeader(component)
      BY <1>3, <2>1, <3>1
    <3>3. WithHeader(Available \ pending) = WithHeader(Before)
      BY <2>0, <3>2 DEF WithHeader
    <3> QED BY <1>3, <1>4, <2>1, <3>3
  <2>2. CASE lastResult # 0
    <3>1. WithHeader(Available \ pending) = WithHeader(Before) \cup {component}
      BY <1>3, <2>0, <2>2 DEF WithHeader
    <3>2. Cardinality(WithHeader(Available \ pending)) = Cardinality(WithHeader(Before)) + 1
      BY <1>4, <3>1, FS_AddElement
    <3> QED BY <1>3, <1>4, <2>2, <3>2
  <2> QED BY <2>1, <2>2
<1>6. Handled'
  <2>1. WithHeader(Available \ pending)' = WithHeader(Available \ pending)
    BY <1>0 DEF WithHeader, HasHeader
  <2>2. Used' = Used
    BY <1>0 DEF Used
  <2> QED BY <1>0, <1>3, <1>5, <2>1, <2>2 DEF Handled
<1>7. Calls' /\ Shaped' /\ DeviceIdsKept' /\ OverridesKept' /\ Retrieved' /\ Complete'
  BY <1>0 DEF Calls, Shaped, PastHeaders, DeviceIdsKept, OverridesKept, Retrieved, Complete, Ended
<1> QED BY <1>1, <1>2, <1>6, <1>7 DEF IInv, Content

LEMMA ComponentsEndInvariant ==
    ASSUME IInv, ComponentsEnd
    PROVE  IInv'
<1> DEFINE goesOn == processSpecialEvidence /\ ~ exception
<1>0. /\ pc = "next" /\ pending = {}
      /\ pc' = (IF goesOn THEN "overrideId" ELSE "ready")
      /\ todo' = (IF goesOn THEN evidence.overrideIds ELSE <<>>)
      /\ UNCHANGED <<config, entry, evidence, pending, component, lastResult, foundIds, count,
                     items, exception>>
      /\ Types /\ Content /\ foundIds = 0 /\ evidence.overrideIds \in Seq(Ids)
  BY TypeFacts DEF IInv, Content, ComponentsEnd, Calls
<1>1. Types'
  <2>1. todo' \in Seq(Ids) /\ pc' \in {"overrideId", "ready"}
    BY <1>0
  <2> QED BY <1>0, <2>1, TypesNext, TypeFacts
<1>2. Content'
  BY <1>0, ContentFrame DEF config
<1>3. Shaped'
  <2>1. Available \ pending = Available
    BY <1>0
  <2>2. count = Cardinality(WithHeader(Available))
    BY <1>0, <2>1 DEF IInv, Handled
  <2>3. WithHeader(Available)' = WithHeader(Available) /\ count' = count
    BY <1>0 DEF WithHeader, HasHeader
  <2> QED BY <2>2, <2>3 DEF Shaped
<1>4. OverridesKept'
  <2>1. CASE goesOn
    <3> PICK ids : ids = evidence.overrideIds
      OBVIOUS
    <3>1. ids \in Seq(Ids) /\ todo' = ids /\ evidence'.overrideIds = ids /\ Len(ids) \in Nat
      BY <1>0, <2>1, LenProperties
    <3>2. Len(ids) - Len(todo') = 0 /\ 1 .. 0 = {} /\ Len(todo') <= Len(ids)
          /\ \A n \in 1 .. Len(todo') : todo'[n] = ids[0 + n]
      BY <3>1
    <3>3. IsRest(evidence.overrideIds)'
      BY <3>1, <3>2 DEF IsRest
    <3>4. Kept(evidence.overrideIds, Len(evidence.overrideIds) - Len(todo))'
      BY <3>1, <3>2 DEF Kept
    <3>5. pc' = "overrideId"
      BY <1>0, <2>1
    <3> QED BY <3>3, <3>4, <3>5 DEF OverridesKept, Ended
  <2>2. CASE ~ goesOn
    BY <1>0, <2>2 DEF OverridesKept, Ended, config
  <2> QED BY <2>1, <2>2
<1>5. Retrieved'
  <2>1. ~ foundIds' > 0
    BY <1>0
  <2> QED BY <2>1 DEF Retrieved
<1>6. Complete'
  BY <1>0 DEF Complete, Ended, config
<1>7. Calls' /\ Handled' /\ DeviceIdsKept'
  BY <1>0 DEF Calls, Handled, DeviceIdsKept
<1> QED BY <1>1, <1>2, <1>3, <1>4, <1>5, <1>6, <1>7 DEF IInv, Content

-----------------------------------------------------------------------------
(* Every step of a call keeps the strengthening, whichever function the      *)
(* caller fills the results with, and whatever is in them from before.       *)
THEOREM NextInvariant == IInv /\ [Next]_vars => IInv'
<1> SUFFICES ASSUME IInv, [Next]_vars PROVE IInv'
  OBVIOUS
<1>1. ASSUME NEW e \in Evidence, Begin(e) PROVE IInv'
  BY <1>1, BeginInvariant
<1>2. ASSUME NEW e \in Evidence, FromDeviceId(e.deviceIds) PROVE IInv'
  <2>1. UNCHANGED <<config, component, lastResult, pending, count, items>>
    BY <1>2 DEF FromDeviceId
  <2> QED BY <1>2, <2>1, GoOnInvariant
<1>3. CASE DirectProfile
  BY <1>3, DirectProfileInvariant
<1>4. CASE DirectEnds
  <2>1. UNCHANGED <<config, component, lastResult, pending, count, items>>
    BY <1>4 DEF DirectEnds, loop
  <2> QED BY <1>4, <2>1, GoOnInvariant
<1>5. CASE ExtractOverrides
  <2>1. UNCHANGED <<config, component, lastResult, pending, count, items>>
    BY <1>5 DEF ExtractOverrides, loop
  <2> QED BY <1>5, <2>1, GoOnInvariant
<1>6. CASE DeviceIdProfile
  BY <1>6, DeviceIdProfileInvariant
<1>7. CASE DeviceIdsFound
  BY <1>7, DeviceIdsFoundInvariant
<1>8. CASE NoDeviceIds
  <2>1. UNCHANGED <<config, component, lastResult, pending, count, items>>
    BY <1>8 DEF NoDeviceIds, loop
  <2> QED BY <1>8, <2>1, GoOnInvariant
<1>9. CASE SetEvidenceHeader
  BY <1>9, SetEvidenceHeaderInvariant
<1>10. CASE HandleComponent
  BY <1>10, HandleComponentInvariant
<1>11. CASE SkipPair
  BY <1>11, SkipPairInvariant
<1>12. CASE PairMatches \/ PairUnmatched \/ PairFails
  BY <1>12, PairInvariant
<1>13. CASE ComponentEnds
  BY <1>13, ComponentEndsInvariant
<1>14. CASE ComponentsEnd
  BY <1>14, ComponentsEndInvariant
<1>15. CASE OverrideProfileId
  BY <1>15, OverrideProfileIdInvariant
<1>16. CASE OverridesEnd
  BY <1>16, OverridesEndInvariant
<1>17. CASE UNCHANGED vars
  <2>1. /\ UNCHANGED <<config, entry, pc, evidence, todo, pending, component, lastResult, foundIds,
                       count, items, exception>>
        /\ UNCHANGED <<allowUnmatched, processSpecialEvidence>>
    BY <1>17 DEF vars, config, loop
  <2>2. Types'
    BY <2>1 DEF IInv, Types, TypeOK, IsEvidence, IsItem
  <2>3. Content'
    BY <2>1, ContentFrame DEF IInv, Content
  <2>4. Calls' /\ Handled' /\ Shaped'
    BY <2>1 DEF IInv, Calls, Handled, Shaped, PastHeaders, Ended, WithHeader, HasHeader, Used
  <2>5. DeviceIdsKept' /\ OverridesKept'
    BY <2>1 DEF IInv, DeviceIdsKept, OverridesKept, Ended, IsRest, Kept, Holds, IsLast, Used
  <2>6. Retrieved' /\ Complete'
    BY <2>1 DEF IInv, Retrieved, Complete, Ended, Device, LastOf, Used
  <2> QED BY <2>2, <2>3, <2>4, <2>5, <2>6 DEF IInv, Content
<1> QED BY <1>1, <1>2, <1>3, <1>4, <1>5, <1>6, <1>7, <1>8, <1>9, <1>10, <1>11, <1>12, <1>13,
           <1>14, <1>15, <1>16, <1>17 DEF Next

(* The strengthening holds in every state of the results.                    *)
THEOREM Invariant == Spec => []IInv
<1>1. Init => IInv
  BY InitInvariant
<1>2. IInv /\ [Next]_vars => IInv'
  BY NextInvariant
<1> QED BY <1>1, <1>2, PTL DEF Spec

-----------------------------------------------------------------------------
(* The results are never too small: a component whose header is evaluated    *)
(* finds an item within the capacity, and when every available component has *)
(* a header in the evidence there is exactly one item for each of them.      *)
THEOREM ResultsAreLargeEnough == Spec => []ItemsSuffice
<1>1. IInv => TypeOK
  BY DEF IInv, Types
<1>2. IInv => EveryComponentHasItem
  <2> SUFFICES ASSUME IInv, pc = "pair" PROVE Target <= Capacity
    BY DEF EveryComponentHasItem
  <2> DEFINE Before == Available \ (pending \cup {component})
  <2>1. /\ component \in Available \ pending
        /\ count = Cardinality(WithHeader(Before)) + (IF lastResult = 0 THEN 0 ELSE 1)
    BY DEF IInv, Handled
  <2>2. WithHeader(Before) \subseteq Available /\ WithHeader(Before) # Available
    BY <2>1 DEF WithHeader
  <2>3. Cardinality(WithHeader(Before)) < Capacity
    <3>1. /\ Cardinality(WithHeader(Before)) <= Capacity
          /\ Cardinality(WithHeader(Before)) = Capacity => WithHeader(Before) = Available
      BY <2>2, FS_Subset, Constants DEF Capacity
    <3>2. Cardinality(WithHeader(Before)) \in Nat /\ Capacity \in Nat
      BY HeadersFinite, Constants
    <3> HIDE DEF Before
    <3> QED BY <2>2, <3>1, <3>2
  <2>4. /\ count \in 0 .. Capacity /\ lastResult \in 0 .. count /\ Capacity \in Nat
        /\ Cardinality(WithHeader(Before)) \in Nat
    BY Constants, TypeFacts, HeadersFinite DEF IInv
  <2> HIDE DEF Before
  <2>5. CASE lastResult = 0
    BY <2>1, <2>3, <2>4, <2>5 DEF Target
  <2>6. CASE lastResult # 0
    BY <2>4, <2>6 DEF Target
  <2> QED BY <2>5, <2>6
<1>3. IInv => OneItemPerComponent
  <2> SUFFICES ASSUME IInv, Ended, foundIds = 0,
                      \A c \in Available : \E n \in DOMAIN evidence.pairs[c] : evidence.pairs[c][n]
               PROVE  count = Capacity
    BY DEF OneItemPerComponent
  <2>1. WithHeader(Available) = Available
    BY DEF WithHeader, HasHeader
  <2> QED BY <2>1, ComponentsAssumption DEF IInv, Shaped, PastHeaders, Capacity
<1>4. IInv => ItemsSuffice
  BY <1>1, <1>2, <1>3 DEF ItemsSuffice
<1> QED BY <1>4, Invariant, PTL

(* No two items say different things of a component, and the items not in    *)
(* use have nothing left of an earlier detection.                            *)
THEOREM ResultsAreOfOneMind == Spec => []ItemsAreOfOneMind
<1>1. IInv => ItemsAreOfOneMind
  BY DEF IInv, ItemsAreOfOneMind
<1> QED BY <1>1, Invariant, PTL

(* Every profile in the results was matched, asked for, or is an allowed     *)
(* default, and is one of the component it is kept for.                      *)
THEOREM EveryProfileIsEarned == Spec => []ProfilesAreEarned
<1>1. IInv => ProfilesAreEarned
  BY DEF IInv
<1> QED BY <1>1, Invariant, PTL

(* What is read is what the evidence names: the last valid override of a     *)
(* component, and without overrides the device of the device ids.            *)
THEOREM NamedProfilesPrevail == Spec => []EvidencePrevails
<1>1. IInv => OverridesPrevail
  <2> SUFFICES ASSUME IInv, Ended, processSpecialEvidence, NEW c \in Components,
                      LastOf(evidence.overrideIds, c) # Null
               PROVE  DeviceId(c) = LastOf(evidence.overrideIds, c)
    BY DEF OverridesPrevail
  <2> PICK ids : ids = evidence.overrideIds
    OBVIOUS
  <2>1. ids \in Seq(Ids) /\ Kept(ids, Len(ids))
    BY TypeFacts DEF IInv, OverridesKept
  <2>2. PICK n \in 1 .. Len(ids) : /\ IsLast(ids, Len(ids), n)
                                   /\ ComponentOf[ids[n]] = c /\ LastOf(ids, c) = ids[n]
    BY <2>1, LastOfIsLast
  <2>3. ids[n] \in Profiles /\ Holds(ids[n])
    BY <2>1, <2>2 DEF Kept, IsLast
  <2>4. DeviceId(ComponentOf[ids[n]]) = ids[n]
    BY <2>3, HeldIsRead DEF IInv
  <2> QED BY <2>2, <2>4
<1>2. IInv => DeviceIdRetrievesDevice
  <2> SUFFICES ASSUME IInv, Ended, processSpecialEvidence, foundIds > 0,
                      evidence.overrideIds = <<>>, NEW c \in Components
               PROVE  DeviceId(c) = Device(c)
    BY DEF DeviceIdRetrievesDevice, Device
  <2>1. /\ count = 1 /\ items[1].profiles[c] = Device(c)
        /\ items[1].overridden[c] <=> Device(c) # Null
    BY DEF IInv, Retrieved
  <2>2. DeviceIdItem(c) = 1
    BY <2>1 DEF DeviceIdItem
  <2> QED BY <2>1, <2>2 DEF DeviceId
<1>3. IInv => EvidencePrevails
  BY <1>1, <1>2 DEF EvidencePrevails
<1> QED BY <1>3, Invariant, PTL

(* With allowUnmatched and special evidence no component is without profile. *)
THEOREM NoComponentIsMissing == Spec => []DefaultsAreComplete
<1>1. IInv => DefaultsAreComplete
  <2> SUFFICES ASSUME IInv, Ended, processSpecialEvidence, allowUnmatched, NEW c \in Components
               PROVE  DeviceId(c) # Null
    BY DEF DefaultsAreComplete
  <2>1. \E i \in Used : items[i].profiles[c] # Null
    BY DEF IInv, Complete
  <2> QED BY <2>1, ReadersOfOneMind DEF IInv
<1> QED BY <1>1, Invariant, PTL

(* Values, device id and reason agree on whether a component has a profile.  *)
THEOREM AllReadersAgree == Spec => []ReadersAgree
<1>1. IInv => ReadersAgree
  BY ReadersOfOneMind DEF IInv, ReadersAgree
<1> QED BY <1>1, Invariant, PTL
=============================================================================
