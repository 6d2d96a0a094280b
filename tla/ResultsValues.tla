---------------------------- MODULE ResultsValues ----------------------------
(* What a caller reads from the results of a detection that is over (hash.c, *)
(* from addValue to ResultsHashGetValuesJson, and ResultsHash.cpp): whether  *)
(* a property has values, why it has none, the values, and the strings and   *)
(* the JSON made of them.                                                    *)
(*                                                                           *)
(* Between calls the results keep the list of values and the property that   *)
(* was read last; both refer to items of the collections of the data set,    *)
(* which count their users.  The next call gives them back.  A collection    *)
(* may fail to read an item.  Whether the values of a profile are found with *)
(* an index or by a search makes no difference to the code here.             *)
EXTENDS Integers, Sequences, FiniteSets, SequencesExt, ResultsSelection

CONSTANTS
    Count,          \* number of available properties; their indexes are from 0
    Components,
    NameOf,         \* name of each property
    ComponentOf,    \* componentIndex of each property
    Null,           \* NULL_PROFILE_OFFSET
    ValuesOf,       \* the values of each profile for each property
    Detected,       \* results: [items, overrides, allowUnmatched]
    MaxAsked        \* bound: calls of NoValueReason that read a property

Indexes == 0 .. Count - 1
Asked == -1 .. Count
NoProperty == -1

ASSUME CountAssumption == Count \in Nat \ {0} /\ ComponentOf \in [Indexes -> Components]
ASSUME ValuesAssumption == ValuesOf \in [DOMAIN ValuesOf -> [Indexes -> Seq(STRING)]]
ASSUME DetectedAssumption ==
    \A r \in Detected :
        /\ r.overrides \in [Indexes -> Seq(STRING)]
        /\ \A p \in Indexes : Len(r.overrides[p]) <= 1
        /\ r.items \in Seq([header : Int, matchedNodes : Nat, overridden : [Components -> BOOLEAN],
                            profiles : [Components -> DOMAIN ValuesOf \cup {Null}]])
ASSUME BoundAssumption == MaxAsked \in Nat

(* The results of detections: a profile that is there was detected or asked  *)
(* for, unless unmatched results are allowed (ProfilesAreEarned of           *)
(* ResultsEvidence), and the data file has at least one value for every      *)
(* profile and property of one component, on which ResultsHashGetHasValues   *)
(* counts.                                                                   *)
ASSUME EarnedAssumption ==
    \A r \in Detected : \A i \in DOMAIN r.items, p \in Indexes :
        LET item == r.items[i]
            profile == item.profiles[ComponentOf[p]]
        IN  profile # Null =>
              /\ ValuesOf[profile][p] # <<>>
              /\ r.allowUnmatched \/ item.matchedNodes > 0 \/ item.overridden[ComponentOf[p]]

VARIABLES
    results,        \* the results, with the overridden values
    call,           \* the function that was called
    index,          \* requiredPropertyIndex
    pc,
    propertyItem,   \* the property that the results hold, or NoProperty
    profileItem,    \* the profile that the call holds, or Null
    list,           \* results->values
    ownList,        \* the values of the list are not items of a collection
    capacity,       \* of the list
    visited,        \* values of the profile this iteration has come across
    grown,          \* the list was made larger for this property
    found,          \* GetValues returns the list, not NULL
    exception,
    answer,         \* what the call returned
    output,         \* what was written: strings, properties and separators
    users,          \* of the items of each collection
    asked           \* calls of NoValueReason that read a property

held == <<propertyItem, profileItem, list, ownList, capacity, users>>
reading == <<visited, grown>>
returned == <<answer, output>>
vars == <<results, call, index, pc, held, reading, found, exception, returned, asked>>

NotAsked == "not asked"

Init ==
    /\ results \in Detected
    /\ call = "create"
    /\ index = 0
    /\ pc = "ready"
    /\ propertyItem = NoProperty
    /\ profileItem = Null
    /\ list = <<>>
    /\ ownList = FALSE
    /\ capacity = 1
    /\ visited = 0
    /\ grown = FALSE
    /\ found = FALSE
    /\ exception = FALSE
    /\ answer = NotAsked
    /\ output = <<>>
    /\ users = [property |-> 0, profile |-> 0, string |-> 0]
    /\ asked = 0

-----------------------------------------------------------------------------
(* Operators on the results.                                                 *)
Items == results.items
HasOverride(p) == p \in Indexes /\ results.overrides[p] # <<>>
Selected(p) == SelectedItem(Items, Len(Items), Null, results.allowUnmatched, ComponentOf[p])
ReasonItem(p) == ItemForProperty(Items, Len(Items), Null, results.allowUnmatched, ComponentOf[p])
ProfileIn(i, p) == IF i = 0 THEN Null ELSE Items[i].profiles[ComponentOf[p]]
IsUnmatched(i) == ~ results.allowUnmatched /\ Items[i].matchedNodes = 0

\* The values of the profile that is read.
ProfileValues == ValuesOf[profileItem][index]

UsersReleased ==
    [users EXCEPT !.property = @ - IF propertyItem = NoProperty THEN 0 ELSE 1,
                  !.string = @ - IF ownList THEN 0 ELSE Len(list)]

(* resultsHashRelease                                                        *)
Release ==
    /\ users' = UsersReleased
    /\ propertyItem' = NoProperty
    /\ list' = <<>>
    /\ ownList' = FALSE
    /\ UNCHANGED <<profileItem, capacity>>

(* PropertyGet into the item of the results.                                 *)
ReadProperty ==
    /\ propertyItem' = index
    /\ users' = [users EXCEPT !.property = @ + 1]
    /\ UNCHANGED <<profileItem, list, ownList, capacity>>

Return(a) == answer' = a /\ pc' = "ready"

-----------------------------------------------------------------------------
(* A call begins.  The strings of all properties and JSON go through all     *)
(* properties, the others are about property p.                              *)
Call(f, p) ==
    /\ pc = "ready"
    /\ call' = f
    /\ index' = p
    /\ found' = FALSE
    /\ exception' = FALSE
    /\ answer' = NotAsked
    /\ UNCHANGED <<results, reading>>

AskHasValues(p) ==
    /\ Call("has values", p)
    /\ Release
    /\ pc' = "has values"
    /\ output' = <<>>
    /\ UNCHANGED asked

AskReason(p) ==
    /\ Call("reason", p)
    /\ Release
    /\ pc' = "reason"
    /\ output' = <<>>
    /\ UNCHANGED asked

AskValues(f, p) ==
    /\ f \in {"values", "vector", "string"}
    /\ Call(f, p)
    /\ pc' = "get"
    /\ output' = <<>>
    /\ UNCHANGED <<held, asked>>

(* A name that is not that of an available property: nothing is released.    *)
AskUnknownName ==
    /\ Call("string", NoProperty)
    /\ pc' = "ready"
    /\ output' = <<>>
    /\ UNCHANGED <<held, asked>>

AskAll ==
    /\ Call("all", 0)
    /\ pc' = "get"
    /\ output' = <<>>
    /\ UNCHANGED <<held, asked>>

AskJson ==
    /\ Call("json", 0)
    /\ Release
    /\ pc' = "get"
    /\ output' = <<"{">>
    /\ UNCHANGED asked

-----------------------------------------------------------------------------
(* ResultsHashGetHasValues                                                   *)
HasValuesIn(i, p) ==
    /\ ProfileIn(i, p) # Null
    /\ Items[i].overridden[ComponentOf[p]] \/ ~ IsUnmatched(i)

HasValuesUnread ==
    /\ pc = "has values"
    /\ index \notin Indexes \/ HasOverride(index)
    /\ Return(index \in Indexes)
    /\ UNCHANGED <<results, call, index, held, reading, found, exception, output, asked>>

HasValuesRead ==
    /\ pc = "has values"
    /\ index \in Indexes /\ ~ HasOverride(index)
    /\ ReadProperty
    /\ Return(HasValuesIn(Selected(index), index))
    /\ UNCHANGED <<results, call, index, reading, found, exception, output, asked>>

(* The property is used although it is NULL.                                 *)
HasValuesFails ==
    /\ pc = "has values"
    /\ index \in Indexes /\ ~ HasOverride(index)
    /\ exception' = TRUE
    /\ pc' = "crashed"
    /\ UNCHANGED <<results, call, index, held, reading, found, returned, asked>>

-----------------------------------------------------------------------------
(* ResultsHashGetNoValueReason reads the property twice into the same item.  *)
Reason(i, p) ==
    IF ProfileIn(i, p) = Null THEN "null profile"
    ELSE IF IsUnmatched(i) THEN "no matched nodes"
    ELSE "unknown"

ReasonUnread ==
    /\ pc = "reason"
    /\ index \notin Indexes \/ Items = <<>>
    /\ Return(IF index \notin Indexes THEN "invalid property" ELSE "no results")
    /\ UNCHANGED <<results, call, index, held, reading, found, exception, output, asked>>

ReasonSelect ==
    /\ pc = "reason"
    /\ index \in Indexes /\ Items # <<>>
    /\ asked < MaxAsked
    /\ asked' = asked + 1
    /\ \/ ReadProperty /\ UNCHANGED exception
       \/ exception' = TRUE /\ UNCHANGED held
    /\ pc' = "reason again"
    /\ UNCHANGED <<results, call, index, reading, found, returned>>

(* Without the property there was no result to select.                       *)
ReasonRead ==
    /\ pc = "reason again"
    /\ ReadProperty
    /\ Return(Reason(IF exception THEN 0 ELSE ReasonItem(index), index))
    /\ UNCHANGED <<results, call, index, reading, found, exception, output, asked>>

ReasonFails ==
    /\ pc = "reason again"
    /\ exception' = TRUE
    /\ IF exception \/ ReasonItem(index) = 0
       THEN Return("null profile")
       ELSE pc' = "crashed" /\ UNCHANGED answer
    /\ UNCHANGED <<results, call, index, held, reading, found, output, asked>>

-----------------------------------------------------------------------------
(* ResultsHashGetValues                                                      *)
Got(isFound) == found' = isFound /\ pc' = "got"

GetOverride ==
    /\ pc = "get"
    /\ HasOverride(index)
    /\ list' = results.overrides[index]
    /\ ownList' = TRUE
    /\ propertyItem' = NoProperty
    /\ users' = UsersReleased
    /\ Got(TRUE)
    /\ UNCHANGED <<results, call, index, profileItem, capacity, reading, exception, returned, asked>>

(* An index that is not valid, or an exception of the property before.       *)
GetNothing ==
    /\ pc = "get"
    /\ ~ HasOverride(index)
    /\ index \notin Indexes \/ exception
    /\ Release
    /\ exception' = TRUE
    /\ Got(FALSE)
    /\ UNCHANGED <<results, call, index, reading, returned, asked>>

GetProperty ==
    /\ pc = "get"
    /\ index \in Indexes /\ ~ HasOverride(index) /\ ~ exception
    /\ propertyItem' = index
    /\ users' = [UsersReleased EXCEPT !.property = @ + 1]
    /\ list' = <<>>
    /\ ownList' = FALSE
    /\ pc' = "select"
    /\ UNCHANGED <<results, call, index, profileItem, capacity, reading, found, exception,
                   returned, asked>>

GetPropertyFails ==
    /\ pc = "get"
    /\ index \in Indexes /\ ~ HasOverride(index) /\ ~ exception
    /\ Release
    /\ exception' = TRUE
    /\ Got(FALSE)
    /\ UNCHANGED <<results, call, index, reading, returned, asked>>

(* No result, or a result without a profile: then the list is returned with  *)
(* no value in it.                                                           *)
SelectNoProfile ==
    /\ pc = "select"
    /\ ProfileIn(Selected(index), index) = Null
    /\ Got(Selected(index) # 0)
    /\ UNCHANGED <<results, call, index, held, reading, exception, returned, asked>>

SelectProfile ==
    /\ pc = "select"
    /\ ProfileIn(Selected(index), index) # Null
    /\ profileItem' = ProfileIn(Selected(index), index)
    /\ users' = [users EXCEPT !.profile = @ + 1]
    /\ visited' = 0
    /\ grown' = FALSE
    /\ pc' = "iterate"
    /\ UNCHANGED <<results, call, index, propertyItem, list, ownList, capacity, found, exception,
                   returned, asked>>

SelectProfileFails ==
    /\ pc = "select"
    /\ ProfileIn(Selected(index), index) # Null
    /\ exception' = TRUE
    /\ Got(TRUE)
    /\ UNCHANGED <<results, call, index, held, reading, returned, asked>>

(* addValue: the string of the value is added if there is room.              *)
AddValue ==
    /\ pc = "iterate"
    /\ visited < Len(ProfileValues)
    /\ visited' = visited + 1
    /\ IF Len(list) < capacity
       THEN /\ list' = Append(list, ProfileValues[visited + 1])
            /\ users' = [users EXCEPT !.string = @ + 1]
       ELSE UNCHANGED <<list, users>>
    /\ UNCHANGED <<results, call, index, pc, propertyItem, profileItem, ownList, capacity, grown,
                   found, exception, returned, asked>>

ReleaseProfile ==
    /\ users' = [users EXCEPT !.profile = @ - 1]
    /\ profileItem' = Null
    /\ UNCHANGED <<propertyItem, list, ownList, capacity>>

(* Mutant: the profile is not released.                                      *)
AddValueFailsHolding ==
    /\ pc = "iterate"
    /\ visited < Len(ProfileValues)
    /\ exception' = TRUE
    /\ profileItem' = Null
    /\ Got(TRUE)
    /\ UNCHANGED <<results, call, index, users, propertyItem, list, ownList, capacity, reading,
                   returned, asked>>

(* The value or its string cannot be read, which ends the iteration.         *)
AddValueFails ==
    /\ pc = "iterate"
    /\ visited < Len(ProfileValues)
    /\ exception' = TRUE
    /\ ReleaseProfile
    /\ Got(TRUE)
    /\ UNCHANGED <<results, call, index, reading, returned, asked>>

(* Mutant: the values that fitted stay in the list.                          *)
GrowListKeeping ==
    /\ pc = "iterate"
    /\ visited = Len(ProfileValues) /\ visited > Len(list) /\ ~ grown
    /\ capacity' = visited
    /\ grown' = TRUE
    /\ visited' = 0
    /\ UNCHANGED <<results, call, index, pc, users, propertyItem, list, profileItem, ownList,
                   found, exception, returned, asked>>

(* There are more values than the list has: it is made anew, with room for   *)
(* all of them, and the values are added again.                              *)
GrowList ==
    /\ pc = "iterate"
    /\ visited = Len(ProfileValues) /\ visited > Len(list) /\ ~ grown
    /\ users' = [users EXCEPT !.string = @ - Len(list)]
    /\ list' = <<>>
    /\ capacity' = visited
    /\ grown' = TRUE
    /\ visited' = 0
    /\ UNCHANGED <<results, call, index, pc, propertyItem, profileItem, ownList, found, exception,
                   returned, asked>>

IterationEnds ==
    /\ pc = "iterate"
    /\ visited = Len(ProfileValues)
    /\ visited <= Len(list) \/ grown
    /\ ReleaseProfile
    /\ Got(TRUE)
    /\ UNCHANGED <<results, call, index, reading, exception, returned, asked>>

-----------------------------------------------------------------------------
(* What the callers of GetValues do with the list.                           *)
IsUsable == found /\ ~ exception

(* GetValues itself, getValuesInternal of C++, which throws without a list,  *)
(* and the string of one property.                                           *)
ReturnValues ==
    /\ pc = "got"
    /\ call \in {"values", "vector", "string"}
    /\ output' = IF IsUsable THEN list ELSE <<>>
    /\ Return(IF call = "vector" /\ ~ IsUsable THEN "thrown" ELSE found)
    /\ UNCHANGED <<results, call, index, held, reading, found, exception, asked>>

(* On to the next property, or the end.                                      *)
NextProperty(end) ==
    IF index + 1 \in Indexes
    THEN index' = index + 1 /\ pc' = "get"
    ELSE UNCHANGED index /\ pc' = end

(* The strings of one of all properties, and a line end.                     *)
WriteStrings ==
    /\ pc = "got"
    /\ call = "all"
    /\ output' = output \o (IF IsUsable THEN list ELSE <<>>) \o <<"\r">>
    /\ NextProperty("ready")
    /\ UNCHANGED <<results, call, held, reading, found, exception, answer, asked>>

WriteNothing ==
    /\ pc = "got"
    /\ call = "json"
    /\ ~ IsUsable
    /\ NextProperty("close")
    /\ UNCHANGED <<results, call, held, reading, found, exception, returned, asked>>

\* A comma before every property but the first.
Separator == IF output = <<"{">> THEN <<>> ELSE <<",">>

(* Mutant: a comma after every property that is not the last one there is.   *)
WritePropertyBeforeNext ==
    /\ pc = "got"
    /\ call = "json"
    /\ IsUsable
    /\ output' = output \o <<NameOf[index]>> \o list
                    \o (IF index + 1 \in Indexes THEN <<",">> ELSE <<>>)
    /\ NextProperty("close")
    /\ UNCHANGED <<results, call, held, reading, found, exception, answer, asked>>

(* The property is read once more, into an item of its own, written with its *)
(* values, and given back.                                                   *)
WriteProperty ==
    /\ pc = "got"
    /\ call = "json"
    /\ IsUsable
    /\ output' = output \o Separator \o <<NameOf[index]>> \o list
    /\ NextProperty("close")
    /\ UNCHANGED <<results, call, held, reading, found, exception, answer, asked>>

WritePropertyFails ==
    /\ pc = "got"
    /\ call = "json"
    /\ IsUsable
    /\ exception' = TRUE
    /\ NextProperty("close")
    /\ UNCHANGED <<results, call, held, reading, found, returned, asked>>

CloseDocument ==
    /\ pc = "close"
    /\ output' = Append(output, "}")
    /\ pc' = "ready"
    /\ UNCHANGED <<results, call, index, held, reading, found, exception, answer, asked>>

-----------------------------------------------------------------------------
(* ResultsHashFree, as far as the values are concerned.                      *)
Free ==
    /\ pc = "ready"
    /\ Release
    /\ pc' = "freed"
    /\ UNCHANGED <<results, call, index, reading, found, exception, returned, asked>>

Next ==
    \/ \E p \in Asked : AskHasValues(p) \/ AskReason(p)
    \/ \E f \in {"values", "vector", "string"}, p \in Asked : AskValues(f, p)
    \/ AskUnknownName \/ AskAll \/ AskJson
    \/ HasValuesUnread \/ HasValuesRead \/ HasValuesFails
    \/ ReasonUnread \/ ReasonSelect \/ ReasonRead \/ ReasonFails
    \/ GetOverride \/ GetNothing \/ GetProperty \/ GetPropertyFails
    \/ SelectNoProfile \/ SelectProfile \/ SelectProfileFails
    \/ AddValue \/ AddValueFails \/ GrowList \/ IterationEnds
    \/ ReturnValues \/ WriteStrings
    \/ WriteNothing \/ WriteProperty \/ WritePropertyFails \/ CloseDocument
    \/ Free

Spec == Init /\ [][Next]_vars

-----------------------------------------------------------------------------
(* The variables have their types, and the list stays within its capacity.   *)
TypeOK ==
    /\ results \in Detected
    /\ index \in Asked
    /\ propertyItem \in Indexes \cup {NoProperty}
    /\ profileItem \in DOMAIN ValuesOf \cup {Null}
    /\ {ownList, grown, found, exception} \subseteq BOOLEAN
    /\ Len(list) <= capacity
    /\ visited \in Nat
    /\ asked \in 0 .. MaxAsked
    /\ users \in [property : Nat, profile : Nat, string : Nat]

(* Between calls, whichever item could not be read, only what the results    *)
(* hold has a user; and when they are freed nothing has, but for the         *)
(* property that NoValueReason reads a second time into the same item.       *)
ItemsAreGivenBack ==
    /\ TypeOK
    /\ pc \in {"ready", "freed"} =>
         /\ profileItem = Null /\ users.profile = 0
         /\ users.string = IF ownList THEN 0 ELSE Len(list)
         /\ asked = 0 => users.property = IF propertyItem = NoProperty THEN 0 ELSE 1
         /\ users.property <= asked + 1
    /\ pc = "freed" => users.string = 0 /\ users.property <= asked

Done(f) == pc = "ready" /\ call = f /\ ~ exception

\* The values of a property that the results stand for.
TrueValues(p) ==
    IF HasOverride(p) THEN results.overrides[p]
    ELSE IF ProfileIn(Selected(p), p) = Null THEN <<>>
    ELSE ValuesOf[ProfileIn(Selected(p), p)][p]

\* The lines of all properties, one for each.
Lines == [n \in 1 .. Count |-> Append(TrueValues(n - 1), "\r")]

(* GetValues and the string of a property give all the values of the         *)
(* property and no other, in their order, whatever the list held before and  *)
(* however small it was; and HasValues tells whether there is any.           *)
ValuesAreComplete ==
    /\ \A f \in {"values", "vector", "string"} :
         Done(f) /\ index \in Indexes => output = TrueValues(index)
    /\ Done("has values") /\ index \in Indexes => answer = (TrueValues(index) # <<>>)
    /\ Done("all") => output = FlattenSeq(Lines)

(* The result that is taken for a property has no profile for it, as one     *)
(* that no header led to may have: there is no value, and yet GetValues      *)
(* returns an empty list and not NULL.                                       *)
TakenWithoutProfile(p) ==
    /\ ~ HasOverride(p)
    /\ Selected(p) # 0
    /\ ProfileIn(Selected(p), p) = Null

HasAny(p) == TrueValues(p) # <<>>

(* What the document has for a property: nothing, or its name and its values *)
(* after a comma, which the first property that has values goes without.     *)
Member(p) ==
    IF ~ HasAny(p) THEN <<>>
    ELSE (IF \E q \in 0 .. p - 1 : HasAny(q) THEN <<",">> ELSE <<>>)
           \o <<NameOf[p]>> \o TrueValues(p)

Members == [n \in 1 .. Count |-> Member(n - 1)]

(* The document is that of the properties that have values, with commas      *)
(* between them, also where some in front, between or at the end have none;  *)
(* unless a property is TakenWithoutProfile.  The name of such a property is *)
(* written with no value after it, although it is to be written only if it   *)
(* has values, "otherwise we could have ended up with {"key1":,"key2":}      *)
(* invalid json" (hash.c:4055-4056).                                         *)
JsonIsOfProperties ==
    Done("json") /\ (\A p \in Indexes : ~ TakenWithoutProfile(p)) =>
        output = <<"{">> \o FlattenSeq(Members) \o <<"}">>
=============================================================================
