--------------------------- MODULE ResultsEvidence ---------------------------
(* How the results of a caller are filled (hash.c, ResultsHashFromEvidence   *)
(* and ResultsHashFromDeviceId), and what the caller reads from them.  The   *)
(* same results are used for one detection after another.                    *)
(*                                                                           *)
(* Results are an array with an item for each component that has available   *)
(* properties.  An item holds a profile for each component of the data set.  *)
(* What a detection in the graphs answers is left open here; see Detection.  *)
(* A profile stands for its identity and for its offset.                     *)
EXTENDS Integers, Sequences, FiniteSets, ResultsSelection

CONSTANTS
    Components,     \* the components of the data set
    Available,      \* those with available properties
    Profiles,       \* profiles of the data set
    Unknown,        \* a profile identity that the data set does not know
    Null,           \* NULL_PROFILE_OFFSET, and the profile identity 0
    ComponentOf,    \* componentIndex of each profile
    Default,        \* defaultProfileOffset of each component
    Evidence        \* evidence that callers provide

Greater(a, b) == IF a > b THEN a ELSE b

Capacity == Cardinality(Available)

Ids == Profiles \cup {Unknown, Null}
Items == 1 .. Capacity

(* The profile identities in the device ids and in the profile overrides of  *)
(* the evidence, and for each component the pairs that its headers find, in  *)
(* the order of precedence; TRUE for a header of the data set.               *)
IsEvidence(e) ==
    /\ e.deviceIds \in Seq(Ids)
    /\ e.overrideIds \in Seq(Ids)
    /\ e.pairs \in [Components -> Seq(BOOLEAN)]

NoEvidence == [deviceIds |-> <<>>, overrideIds |-> <<>>,
               pairs |-> [c \in Components |-> <<>>]]

ASSUME ComponentsAssumption ==
    /\ Components \in SUBSET Nat
    /\ Available \subseteq Components
    /\ IsFiniteSet(Components)
    /\ Available # {}
ASSUME ProfilesAssumption ==
    /\ {Unknown, Null} \cap Profiles = {}
    /\ ComponentOf \in [Profiles -> Components]
    /\ Default \in [Components -> Profiles]
    /\ \A c \in Components : ComponentOf[Default[c]] = c
ASSUME EvidenceAssumption == \A e \in Evidence : IsEvidence(e)

VARIABLES
    allowUnmatched,         \* of the configuration
    processSpecialEvidence, \* of the configuration
    entry,                  \* the function called last
    pc,                     \* where the call is; "ready" when it has returned
    evidence,               \* what the call was given
    todo,                   \* profile identities or pairs that are left
    pending,                \* available components that are left
    component,              \* componentIndex
    lastResult,             \* index of the item for the component, or 0
    foundIds,               \* profilesFoundFromDeviceId
    count,                  \* results->count
    items,                  \* results->items
    exception               \* an exception is set

config == <<allowUnmatched, processSpecialEvidence>>
loop == <<todo, pending, component, lastResult>>
vars == <<config, entry, pc, evidence, loop, foundIds, count, items, exception>>

(* hashResultReset *)
Reset == [header |-> 0,
          matchedNodes |-> 0,
          profiles |-> [c \in Components |-> Null],
          overridden |-> [c \in Components |-> FALSE]]

(* ResultsHashCreate *)
Init ==
    /\ allowUnmatched \in BOOLEAN
    /\ processSpecialEvidence \in BOOLEAN
    /\ entry = "create"
    /\ pc = "ready"
    /\ evidence = NoEvidence
    /\ todo = <<>>
    /\ pending = {}
    /\ component = 0
    /\ lastResult = 0
    /\ foundIds = 0
    /\ count = 0
    /\ items = [i \in Items |-> Reset]
    /\ exception = FALSE

-----------------------------------------------------------------------------
Used == 1 .. count

Selected(c) == SelectedItem(items, count, Null, allowUnmatched, c)

SelectedProfile(c) == IF Selected(c) = 0 THEN Null ELSE items[Selected(c)].profiles[c]

(* Mutant: a component whose item has no profile for it is left alone.       *)
TakesDefaultWithoutItem(i, c) == allowUnmatched /\ Selected(c) = 0 /\ i = 1

(* SetMissingComponentDefaultProfiles: without any result the first item     *)
(* takes the defaults of all components.                                     *)
TakesDefault(i, c) ==
    /\ allowUnmatched
    /\ SelectedProfile(c) = Null
    /\ i = (IF Selected(c) = 0 THEN 1 ELSE Selected(c))

WithDefaults ==
    [i \in Items |->
        [items[i] EXCEPT
            !.profiles = [c \in Components |-> IF TakesDefault(i, c) THEN Default[c] ELSE @[c]],
            !.overridden = [c \in Components |-> TakesDefault(i, c) \/ @[c]]]]

SetMissingDefaults ==
    /\ items' = WithDefaults
    /\ count' = IF allowUnmatched /\ count = 0 THEN 1 ELSE count

(* addProfileById for a profile that is found: every result takes it, and if *)
(* there is no result yet a first one, which belongs to no header.           *)
AddProfile(p) ==
    LET base == IF count = 0 THEN [items EXCEPT ![1] = [Reset EXCEPT !.header = -1]] ELSE items
        last == IF count = 0 THEN 1 ELSE count
    IN  /\ count' = last
        /\ items' = [i \in Items |->
                        IF i > last THEN base[i]
                        ELSE [base[i] EXCEPT !.profiles[ComponentOf[p]] = p,
                                             !.overridden[ComponentOf[p]] = TRUE]]

(* The first of todo is a profile that is found, or is not, or cannot be     *)
(* read: then the exception ends the call.                                   *)
AddNext(onFound, onMissing) ==
    \/ /\ Head(todo) \in Profiles
       /\ AddProfile(Head(todo))
       /\ onFound
       /\ todo' = Tail(todo)
       /\ UNCHANGED <<pc, exception>>
    \/ /\ Head(todo) \notin Profiles
       /\ onMissing
       /\ todo' = Tail(todo)
       /\ UNCHANGED <<pc, count, items, exception>>
    \/ /\ Head(todo) # Null
       /\ exception' = TRUE
       /\ onMissing
       /\ todo' = <<>>
       /\ pc' = "ready"
       /\ UNCHANGED <<count, items>>

-----------------------------------------------------------------------------
(* Mutant: the items that were in use keep their contents.                   *)
BeginUnreset(e) ==
    /\ pc = "ready"
    /\ entry' = "evidence"
    /\ evidence' = e
    /\ count' = 0
    /\ exception' = FALSE
    /\ foundIds' = 0
    /\ todo' = e.deviceIds
    /\ pending' = {}
    /\ lastResult' = 0
    /\ pc' = IF processSpecialEvidence THEN "overrides" ELSE "header"
    /\ UNCHANGED <<config, component, items>>

(* ResultsHashFromEvidence begins: resultsHashReset resets the items in use, *)
(* and the overridden values are extracted when they are enabled.            *)
Begin(e) ==
    /\ pc = "ready"
    /\ evidence' = e
    /\ items' = [i \in Items |-> IF i <= count THEN Reset ELSE items[i]]
    /\ count' = 0
    /\ exception' = FALSE
    /\ foundIds' = 0
    /\ todo' = e.deviceIds
    /\ pending' = {}
    /\ lastResult' = 0
    /\ pc' = IF processSpecialEvidence THEN "overrides" ELSE "header"
    /\ entry' = "evidence"
    /\ UNCHANGED <<config, component>>

ExtractOverrides ==
    /\ pc = "overrides"
    /\ \/ pc' = "deviceId" /\ UNCHANGED exception
       \/ pc' = "ready" /\ exception' = TRUE
    /\ UNCHANGED <<config, entry, evidence, loop, foundIds, count, items>>

(* findAndApplyDeviceIDs, one profile identity after another.                *)
DeviceIdProfile ==
    /\ pc = "deviceId"
    /\ todo # <<>>
    /\ AddNext(foundIds' = foundIds + 1, UNCHANGED foundIds)
    /\ UNCHANGED <<config, entry, evidence, pending, component, lastResult>>

(* Mutant: the overrides are not looked at.                                  *)
DeviceIdsFoundAlone ==
    /\ pc = "deviceId"
    /\ todo = <<>>
    /\ foundIds > 0
    /\ SetMissingDefaults
    /\ pc' = "overrideId"
    /\ UNCHANGED <<config, entry, evidence, loop, foundIds, exception>>

DeviceIdsFound ==
    /\ pc = "deviceId"
    /\ todo = <<>>
    /\ foundIds > 0
    /\ SetMissingDefaults
    /\ todo' = evidence.overrideIds
    /\ pc' = "overrideId"
    /\ UNCHANGED <<config, entry, evidence, pending, component, lastResult, foundIds, exception>>

(* Without a device id the headers are considered, those that setSpecial-    *)
(* Headers adds included.                                                    *)
NoDeviceIds ==
    /\ pc = "deviceId"
    /\ todo = <<>>
    /\ foundIds = 0
    /\ pc' = "header"
    /\ UNCHANGED <<config, entry, evidence, loop, foundIds, count, items, exception>>

(* setEvidenceHeader, and handleAllEvidence begins.                          *)
SetEvidenceHeader ==
    /\ pc = "header"
    /\ pending' = Available
    /\ pc' = "next"
    /\ UNCHANGED <<config, entry, evidence, todo, component, lastResult, foundIds, count,
                   items, exception>>

(* Mutant: the result of the component before is used again.                 *)
HandleComponentSharing ==
    /\ pc = "next"
    /\ pending # {}
    /\ component' = Least(pending)
    /\ pending' = pending \ {Least(pending)}
    /\ todo' = evidence.pairs[Least(pending)]
    /\ pc' = "pair"
    /\ UNCHANGED <<config, entry, evidence, lastResult, foundIds, count, items, exception>>

HandleComponent ==
    /\ pc = "next"
    /\ pending # {}
    /\ component' = Least(pending)
    /\ pending' = pending \ {Least(pending)}
    /\ lastResult' = 0
    /\ todo' = evidence.pairs[Least(pending)]
    /\ pc' = "pair"
    /\ UNCHANGED <<config, entry, evidence, foundIds, count, items, exception>>

-----------------------------------------------------------------------------
(* setResultFromEvidenceForComponentCallback                                 *)

(* A header that is not of the data set, or that finds nothing.              *)
SkipPair ==
    /\ pc = "pair"
    /\ todo # <<>>
    /\ ~ Head(todo)
    /\ todo' = Tail(todo)
    /\ UNCHANGED <<config, entry, pc, evidence, pending, component, lastResult, foundIds,
                   count, items, exception>>

(* The item for the next evaluation: that of the last one for the component, *)
(* which came to nothing, or the next unused item.                           *)
Target == IF lastResult # 0 THEN lastResult ELSE count + 1

(* The target is reset for the pair; the answer of the graphs goes into it.  *)
(* getNextResult would have no result to give beyond the capacity.           *)
Evaluate(profile, matchedNodes) ==
    /\ pc = "pair"
    /\ todo # <<>>
    /\ Head(todo)
    /\ Target <= Capacity
    /\ lastResult' = Target
    /\ count' = Greater(count, Target)
    /\ items' = [items EXCEPT ![Target] =
                    [Reset EXCEPT !.header = 1,
                                  !.profiles[component] = profile,
                                  !.matchedNodes = matchedNodes]]

(* A graph matches; no further pair is looked at for the component.          *)
PairMatches ==
    /\ \E p \in Profiles : ComponentOf[p] = component /\ Evaluate(p, 1)
    /\ ~ exception
    /\ todo' = <<>>
    /\ UNCHANGED <<config, entry, pc, evidence, pending, component, foundIds, exception>>

(* Mutant: the default profile is set although unmatched is not allowed.     *)
PairUnmatchedDefault ==
    /\ Evaluate(Default[component], 0)
    /\ ~ exception
    /\ todo' = Tail(todo)
    /\ UNCHANGED <<config, entry, pc, evidence, pending, component, foundIds, exception>>

(* No graph matches, or the component has none for the header.               *)
PairUnmatched ==
    /\ \/ Evaluate(IF allowUnmatched THEN Default[component] ELSE Null, 0)
       \/ Evaluate(Null, 0)
    /\ ~ exception
    /\ todo' = Tail(todo)
    /\ UNCHANGED <<config, entry, pc, evidence, pending, component, foundIds, exception>>

(* An exception stops the pairs of the component, but not the components.    *)
PairFails ==
    /\ \/ Evaluate(IF allowUnmatched /\ ~ exception THEN Default[component] ELSE Null, 0)
       \/ Evaluate(Null, 0)
    /\ exception' = TRUE
    /\ todo' = <<>>
    /\ UNCHANGED <<config, entry, pc, evidence, pending, component, foundIds>>

ComponentEnds ==
    /\ pc = "pair"
    /\ todo = <<>>
    /\ pc' = "next"
    /\ UNCHANGED <<config, entry, evidence, loop, foundIds, count, items, exception>>

ComponentsEnd ==
    /\ pc = "next"
    /\ pending = {}
    /\ pc' = IF processSpecialEvidence /\ ~ exception THEN "overrideId" ELSE "ready"
    /\ todo' = IF processSpecialEvidence /\ ~ exception THEN evidence.overrideIds ELSE <<>>
    /\ UNCHANGED <<config, entry, evidence, pending, component, lastResult, foundIds, count,
                   items, exception>>

-----------------------------------------------------------------------------
(* OverrideProfileIds, one profile identity after another, and then the      *)
(* defaults once more.                                                       *)
OverrideProfileId ==
    /\ pc = "overrideId"
    /\ todo # <<>>
    /\ AddNext(TRUE, TRUE)
    /\ UNCHANGED <<config, entry, evidence, pending, component, lastResult, foundIds>>

OverridesEnd ==
    /\ pc = "overrideId"
    /\ todo = <<>>
    /\ SetMissingDefaults
    /\ pc' = "ready"
    /\ UNCHANGED <<config, entry, evidence, loop, foundIds, exception>>

-----------------------------------------------------------------------------
(* ResultsHashFromDeviceId called by itself resets nothing.                  *)
FromDeviceId(ids) ==
    /\ pc = "ready"
    /\ entry' = "deviceId"
    /\ evidence' = NoEvidence
    /\ todo' = ids
    /\ exception' = FALSE
    /\ pc' = "direct"
    /\ UNCHANGED <<config, pending, component, lastResult, foundIds, count, items>>

DirectProfile ==
    /\ pc = "direct"
    /\ todo # <<>>
    /\ AddNext(TRUE, TRUE)
    /\ UNCHANGED <<config, entry, evidence, pending, component, lastResult, foundIds>>

DirectEnds ==
    /\ pc = "direct"
    /\ todo = <<>>
    /\ pc' = "ready"
    /\ UNCHANGED <<config, entry, evidence, loop, foundIds, count, items, exception>>

-----------------------------------------------------------------------------
Next ==
    \/ \E e \in Evidence : Begin(e) \/ FromDeviceId(e.deviceIds)
    \/ DirectProfile \/ DirectEnds
    \/ ExtractOverrides
    \/ DeviceIdProfile \/ DeviceIdsFound \/ NoDeviceIds
    \/ SetEvidenceHeader \/ HandleComponent
    \/ SkipPair \/ PairMatches \/ PairUnmatched \/ PairFails
    \/ ComponentEnds \/ ComponentsEnd
    \/ OverrideProfileId \/ OverridesEnd

Spec == Init /\ [][Next]_vars

-----------------------------------------------------------------------------
(* What a caller reads.  ISUNMATCHED of an item.                             *)
IsUnmatched(i) == ~ allowUnmatched /\ items[i].matchedNodes = 0

(* Mutant: profiles that were asked for have to be matched as well.          *)
HasValuesMatched(c) == SelectedProfile(c) # Null /\ ~ IsUnmatched(Selected(c))

(* ResultsHashGetHasValues for a property of component c.                    *)
HasValues(c) ==
    /\ SelectedProfile(c) # Null
    /\ items[Selected(c)].overridden[c] \/ ~ IsUnmatched(Selected(c))

(* ResultsHashGetNoValueReason, which takes an only result as it is.         *)
ReasonItem(c) == ItemForProperty(items, count, Null, allowUnmatched, c)
NoValueReason(c) ==
    IF count = 0 THEN "no results"
    ELSE IF ReasonItem(c) = 0 THEN "null profile"
    ELSE IF items[ReasonItem(c)].profiles[c] = Null THEN "null profile"
    ELSE IF IsUnmatched(ReasonItem(c)) THEN "no matched nodes"
    ELSE "unknown"

(* HashGetDeviceIdFromResults, which takes an only result as it is: the      *)
(* profile identity of component c in the device id, Null for 0.             *)
DeviceIdItem(c) == IF count = 1 THEN 1 ELSE Selected(c)
DeviceId(c) ==
    IF count = 0 \/ DeviceIdItem(c) = 0 THEN Null
    ELSE IF ~ items[DeviceIdItem(c)].overridden[c] /\ IsUnmatched(DeviceIdItem(c)) THEN Null
    ELSE items[DeviceIdItem(c)].profiles[c]

-----------------------------------------------------------------------------
(* The variables have their types.                                           *)
IsItem(r) ==
    /\ r.header \in -1 .. 1
    /\ r.matchedNodes \in {0, 1}
    /\ r.profiles \in [Components -> Profiles \cup {Null}]
    /\ r.overridden \in [Components -> BOOLEAN]

TypeOK ==
    /\ {allowUnmatched, processSpecialEvidence, exception} \subseteq BOOLEAN
    /\ entry \in {"create", "evidence", "deviceId"}
    /\ pc \in {"ready", "overrides", "deviceId", "header", "next", "pair", "overrideId",
               "direct"}
    /\ IsEvidence(evidence)
    /\ todo \in Seq(Ids) \cup Seq(BOOLEAN)
    /\ pending \subseteq Available
    /\ component \in Components \cup {0}
    /\ lastResult \in 0 .. count
    /\ foundIds \in Nat
    /\ count \in 0 .. Capacity
    /\ DOMAIN items = Items /\ \A i \in Items : IsItem(items[i])

(* Nothing of an earlier detection is left in the items that are not in use: *)
(* it is only the items in use that the next detection resets, and the first *)
(* item takes default profiles without being reset.                          *)
UnusedIsClean == \A i \in Items : i > count => items[i] = Reset

(* The items are never at odds about a component, so that it does not matter *)
(* which of them the search for the first profile comes across.              *)
ItemsAgree ==
    \A c \in Components : \A i, j \in Used :
        items[i].profiles[c] # Null /\ items[j].profiles[c] # Null
            => items[i].profiles[c] = items[j].profiles[c]

(* The items say one thing, and that is of this detection only.              *)
ItemsAreOfOneMind == UnusedIsClean /\ ItemsAgree

(* A profile is there because a graph matched, because it was asked for, or, *)
(* only with allowUnmatched, because it is the default of its component; and *)
(* it is a profile of the component it is kept for.                          *)
ProfilesAreEarned ==
    \A i \in Used : \A c \in Components :
        items[i].profiles[c] # Null =>
            /\ ComponentOf[items[i].profiles[c]] = c
            /\ \/ items[i].matchedNodes > 0 \/ items[i].overridden[c]
               \/ allowUnmatched /\ items[i].profiles[c] = Default[c]

(* Each component finds an item for its result, although the results have no *)
(* more items than there are components with available properties.           *)
EveryComponentHasItem ==
    pc = "pair" /\ todo # <<>> => Target <= Capacity

Ended == pc = "ready" /\ entry = "evidence" /\ ~ exception

(* With a header of the data set for every available component there is one  *)
(* item for each of them, unless a device id made detection unnecessary      *)
(* (hash.h: the result shape is a function of the data set).                 *)
OneItemPerComponent ==
    /\ Ended
    /\ foundIds = 0
    /\ \A c \in Available : \E n \in DOMAIN evidence.pairs[c] : evidence.pairs[c][n]
    => count = Capacity

(* The capacity is enough for every evidence, and is made use of.            *)
ItemsSuffice == TypeOK /\ EveryComponentHasItem /\ OneItemPerComponent

(* The last valid override of a component is what is read for it, whatever   *)
(* device ids and headers say, and whichever item is looked at.              *)
LastOf(ids, c) ==
    LET of == {n \in DOMAIN ids : ids[n] \in Profiles /\ ComponentOf[ids[n]] = c}
    IN  IF of = {} THEN Null ELSE ids[CHOOSE n \in of : \A m \in of : m <= n]

OverridesPrevail ==
    Ended /\ processSpecialEvidence =>
        \A c \in Components :
            LastOf(evidence.overrideIds, c) # Null =>
                DeviceId(c) = LastOf(evidence.overrideIds, c)

(* With allowUnmatched and special evidence a caller reads a profile for     *)
(* every component, available or not.                                        *)
DefaultsAreComplete ==
    Ended /\ processSpecialEvidence /\ allowUnmatched =>
        \A c \in Components : DeviceId(c) # Null

(* A device id that was read before retrieves the same device: each of its   *)
(* profiles is read again, and a component it has no profile for has none,   *)
(* or its default.                                                           *)
DeviceIdRetrievesDevice ==
    Ended /\ processSpecialEvidence /\ foundIds > 0 /\ evidence.overrideIds = <<>> =>
        \A c \in Components :
            DeviceId(c) = IF LastOf(evidence.deviceIds, c) # Null
                          THEN LastOf(evidence.deviceIds, c)
                          ELSE IF allowUnmatched THEN Default[c] ELSE Null

(* What the evidence names, by an override or by a device id, is what is     *)
(* read, whatever the headers say.                                           *)
EvidencePrevails == OverridesPrevail /\ DeviceIdRetrievesDevice

(* The functions that read results choose the item in different ways and are *)
(* of one mind: values, device id and selection agree on whether there is a  *)
(* profile, and when there are no values a reason is known.                  *)
ReadersAgree ==
    pc = "ready" =>
        \A c \in Components :
            /\ HasValues(c) = (DeviceId(c) # Null)
            /\ HasValues(c) = (SelectedProfile(c) # Null)
            /\ ~ HasValues(c) => NoValueReason(c) # "unknown"
=============================================================================
