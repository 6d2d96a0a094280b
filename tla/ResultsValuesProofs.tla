------------------------- MODULE ResultsValuesProofs -------------------------
(* Whatever is asked of results, in whatever order, and whichever item of a  *)
(* collection cannot be read: the items that a call takes are given back, by *)
(* it or by the next one; and a call that reads all it needs gives all the   *)
(* values that there are, and no other.                                      *)
EXTENDS ResultsValues, TLAPS, FiniteSetTheorems, WellFoundedInduction

-----------------------------------------------------------------------------
(* The JSON document as it is written, also when a property is taken without *)
(* a profile: its name with no value.                                        *)
IsWritten(p) == HasAny(p) \/ TakenWithoutProfile(p)

WrittenMember(p) ==
    IF ~ IsWritten(p) THEN <<>>
    ELSE (IF \E q \in 0 .. p - 1 : IsWritten(q) THEN <<",">> ELSE <<>>)
           \o <<NameOf[p]>> \o TrueValues(p)

WrittenMembers == [n \in 1 .. Count |-> WrittenMember(n - 1)]

-----------------------------------------------------------------------------
(* The strengthening.                                                        *)
Locations == {"ready", "has values", "reason", "reason again", "get", "select", "iterate",
              "got", "close", "freed", "crashed"}

Shapes ==
    /\ pc \in Locations
    /\ list \in Seq(STRING)
    /\ capacity \in Nat \ {0}

(* A profile is held by an iteration over its values, and by nothing else.   *)
ProfileIsHeld ==
    /\ users.profile = IF profileItem = Null THEN 0 ELSE 1
    /\ pc = "iterate" <=> profileItem # Null

(* Every string in the list has a user, unless the list is one of overrides. *)
StringsAreHeld ==
    /\ users.string = IF ownList THEN 0 ELSE Len(list)
    /\ pc \in {"select", "iterate"} => ~ ownList
    /\ pc \in {"has values", "reason", "reason again", "freed"} => list = <<>> /\ ~ ownList

Extra == users.property - IF propertyItem = NoProperty THEN 0 ELSE 1

(* The property that the results hold has a user.  Those that there are too  *)
(* many were left by NoValueReason, at most one by each call of it that is   *)
(* over.                                                                     *)
PropertyIsHeld ==
    /\ Extra \in 0 .. asked
    /\ pc = "reason again" => Extra < asked
    /\ pc \in {"has values", "reason", "freed"} => propertyItem = NoProperty

(* A call only goes on to read for a property that there is.                 *)
IndexIsRead ==
    /\ pc \in {"select", "iterate", "reason again"} => index \in Indexes
    /\ pc = "close" => call = "json"

IInv ==
    /\ TypeOK
    /\ Shapes
    /\ ProfileIsHeld
    /\ StringsAreHeld
    /\ PropertyIsHeld
    /\ IndexIsRead

-----------------------------------------------------------------------------
(* A set of numbers has a least one.                                         *)
LEMMA LeastExists ==
    ASSUME NEW S \in SUBSET Nat, S # {}
    PROVE  \E i \in S : \A j \in S : i <= j
<1> DEFINE Below(i) == S \cap (0 .. i)
           T == {Below(i) : i \in S}
<1>1. T \subseteq FiniteSubsetsOf(Nat) /\ T # {}
  <2>1. ASSUME NEW i \in S PROVE Below(i) \in FiniteSubsetsOf(Nat)
    <3>1. IsFiniteSet(0 .. i)
      BY FS_Interval
    <3> QED BY <3>1, FS_Subset DEF FiniteSubsetsOf
  <2> QED BY <2>1
<1>2. PICK x \in T : \A y \in T : ~ (<<y, x>> \in StrictSubsetOrdering(Nat))
  <2> HIDE DEF T
  <2> QED BY <1>1, FS_StrictSubsetOrderingWellFounded, WFMin
<1>3. PICK i \in S : x = Below(i)
  OBVIOUS
<1>4. ASSUME NEW j \in S, j < i PROVE FALSE
  <2>1. Below(j) \subseteq Below(i) /\ i \in Below(i) /\ i \notin Below(j)
    BY <1>4
  <2>2. <<Below(j), x>> \in StrictSubsetOrdering(Nat)
    BY <1>3, <2>1 DEF StrictSubsetOrdering
  <2> QED BY <1>2, <2>2
<1>5. \A j \in S : i <= j
  BY <1>4
<1> QED BY <1>5

LEMMA LeastIsMember ==
    ASSUME NEW S \in SUBSET Nat, S # {}
    PROVE  Least(S) \in S
BY LeastExists DEF Least

(* The item that is selected is one of the results, and what it holds for a  *)
(* component is a profile, or none.                                          *)
LEMMA SelectedIndex ==
    ASSUME TypeOK, NEW p \in Indexes
    PROVE  Selected(p) \in 0 .. Len(Items)
<1> DEFINE c == ComponentOf[p]
           n == Len(Items)
<1>1. n \in Nat
  BY DetectedAssumption DEF TypeOK, Items
<1>2. OverriddenItems(Items, n, c) # {} => Least(OverriddenItems(Items, n, c)) \in 1 .. n
  <2>1. OverriddenItems(Items, n, c) \in SUBSET Nat /\ OverriddenItems(Items, n, c) \subseteq 1 .. n
    BY <1>1 DEF OverriddenItems
  <2> QED BY <2>1, LeastIsMember
<1>3. ItemsWithProfile(Items, n, Null, c) # {} => Least(ItemsWithProfile(Items, n, Null, c)) \in 1 .. n
  <2>1. ItemsWithProfile(Items, n, Null, c) \in SUBSET Nat /\ ItemsWithProfile(Items, n, Null, c) \subseteq 1 .. n
    BY <1>1 DEF ItemsWithProfile
  <2> QED BY <2>1, LeastIsMember
<1> QED BY <1>1, <1>2, <1>3 DEF Selected, SelectedItem

LEMMA SelectedProfile ==
    ASSUME TypeOK, NEW p \in Indexes
    PROVE  ProfileIn(Selected(p), p) \in DOMAIN ValuesOf \cup {Null}
<1> DEFINE c == ComponentOf[p]
           n == Len(Items)
           ItemSet == [header : Int, matchedNodes : Nat, overridden : [Components -> BOOLEAN],
                       profiles : [Components -> DOMAIN ValuesOf \cup {Null}]]
<1>1. Items \in Seq(ItemSet) /\ c \in Components
  BY DetectedAssumption, CountAssumption DEF TypeOK, Items
<1>2. n \in Nat
  BY <1>1
<1>3. CASE Selected(p) = 0
  BY <1>3 DEF ProfileIn
<1>4. CASE Selected(p) \in 1 .. n
  <2>1. Items[Selected(p)] \in ItemSet
    <3> HIDE DEF ItemSet
    <3> QED BY <1>1, <1>4
  <2>2. Items[Selected(p)].profiles[c] \in DOMAIN ValuesOf \cup {Null}
    BY <1>1, <2>1
  <2> QED BY <1>2, <1>4, <2>2 DEF ProfileIn
<1> QED BY <1>2, <1>3, <1>4, SelectedIndex

(* A release leaves no string with a user, and of the property what is too   *)
(* much.                                                                     *)
Users == [property : Nat, profile : Nat, string : Nat]

LEMMA EmptyList == <<>> \in Seq(STRING) /\ Len(<<>>) = 0
OBVIOUS

LEMMA Numbers ==
    ASSUME IInv
    PROVE  /\ users \in Users /\ list \in Seq(STRING) /\ asked \in Nat
           /\ users.property \in Nat /\ users.profile \in Nat /\ users.string \in Nat
           /\ Extra \in Nat /\ Extra <= asked
<1>1. users \in Users /\ list \in Seq(STRING) /\ asked \in 0 .. MaxAsked /\ Extra \in 0 .. asked
  BY DEF IInv, TypeOK, Shapes, PropertyIsHeld, Users
<1>2. asked \in Nat
  BY <1>1, BoundAssumption
<1>3. Extra \in Nat /\ Extra <= asked
  BY <1>1, <1>2
<1> QED BY <1>1, <1>2, <1>3 DEF Users

LEMMA ReleaseEffect ==
    ASSUME IInv
    PROVE  /\ UsersReleased \in Users
           /\ UsersReleased.profile = users.profile
           /\ UsersReleased.string = 0
           /\ UsersReleased.property = Extra
<1> DEFINE p == IF propertyItem = NoProperty THEN 0 ELSE 1
           n == IF ownList THEN 0 ELSE Len(list)
           property == users.property - p
           string == users.string - n
<1>1. Extra = property /\ users.string = n
  BY DEF Extra, IInv, StringsAreHeld
<1>2. string = 0 /\ property \in Nat
  BY <1>1, Numbers
<1>3. UsersReleased = [users EXCEPT !.property = property, !.string = string]
  BY DEF UsersReleased
<1> HIDE DEF property, string
<1> QED BY <1>1, <1>2, <1>3, Numbers DEF Users

LEMMA InitInvariant == Init => IInv
<1> SUFFICES ASSUME Init PROVE IInv
  OBVIOUS
<1> USE DEF Init
<1>1. 0 \in Asked /\ 0 \in 0 .. MaxAsked
  BY CountAssumption, BoundAssumption DEF Asked
<1>2. TypeOK
  <2>1. index \in Asked /\ asked \in 0 .. MaxAsked /\ propertyItem \in Indexes \cup {NoProperty}
    BY <1>1
  <2>2. Len(list) <= capacity /\ visited \in Nat
    OBVIOUS
  <2>3. {ownList, grown, found, exception} \subseteq BOOLEAN
    OBVIOUS
  <2>4. users \in Users
    BY DEF Users
  <2>5. results \in Detected /\ profileItem \in DOMAIN ValuesOf \cup {Null}
    OBVIOUS
  <2> QED BY <2>1, <2>2, <2>3, <2>4, <2>5 DEF TypeOK, Users
<1>3. Shapes /\ ProfileIsHeld /\ StringsAreHeld /\ IndexIsRead
  BY DEF Shapes, Locations, ProfileIsHeld, StringsAreHeld, IndexIsRead
<1>4. PropertyIsHeld
  BY DEF PropertyIsHeld, Extra
<1> QED BY <1>2, <1>3, <1>4 DEF IInv

(* What a release leaves.                                                    *)
LEMMA ReleaseKeeps ==
    ASSUME IInv, Release, asked' = asked
    PROVE  /\ users' \in Users
           /\ propertyItem' = NoProperty /\ list' = <<>> /\ ownList' = FALSE
           /\ StringsAreHeld' /\ Extra' = Extra /\ Extra' \in 0 .. asked'
           /\ users'.profile = users.profile /\ profileItem' = profileItem /\ capacity' = capacity
<1>1. /\ users' = UsersReleased
      /\ propertyItem' = NoProperty /\ list' = <<>> /\ ownList' = FALSE
      /\ profileItem' = profileItem /\ capacity' = capacity
  BY DEF Release
<1>2. users' \in Users /\ users'.string = 0 /\ users'.property = Extra /\ users'.profile = users.profile
  BY <1>1, ReleaseEffect
<1>3. Extra' = Extra
  BY <1>1, <1>2, Numbers DEF Extra
<1>4. StringsAreHeld'
  BY <1>1, <1>2 DEF StringsAreHeld
<1> QED BY <1>1, <1>2, <1>3, <1>4, Numbers

(* Where the calls are.                                                      *)
IsAgain == pc = "reason again"
IsIterating == pc = "iterate"
IsPast == pc \in Locations \ {"iterate", "reason again"}
HasRead == pc \in {"ready", "reason again", "select"}

(* A step that releases.                                                     *)
LEMMA ReleaseInvariant ==
    ASSUME IInv, Release, UNCHANGED <<results, visited, asked>>, index' \in Asked,
           {ownList', grown', found', exception'} \subseteq BOOLEAN,
           ~ IsIterating, IsPast', IndexIsRead'
    PROVE  IInv'
<1>1. profileItem' \in DOMAIN ValuesOf \cup {Null} /\ visited' \in Nat /\ results' \in Detected
      /\ asked' \in 0 .. MaxAsked /\ capacity' \in Nat \ {0}
  BY ReleaseKeeps DEF IInv, TypeOK, Shapes
<1>2. TypeOK'
  <2>1. list' = <<>> /\ propertyItem' \in Indexes \cup {NoProperty} /\ users' \in Users
    BY ReleaseKeeps
  <2>2. Len(list') <= capacity'
    <3>1. capacity' >= 0 /\ Len(list') = 0
      BY <1>1, <2>1, EmptyList
    <3> QED BY <1>1, <3>1
  <2> QED BY <1>1, <2>1, <2>2 DEF TypeOK, Users
<1>3. Shapes'
  <2>1. list' \in Seq(STRING)
    BY ReleaseKeeps, EmptyList
  <2> QED BY <1>1, <2>1 DEF Shapes, IsPast
<1>4. ProfileIsHeld'
  BY ReleaseKeeps DEF IInv, ProfileIsHeld, IsPast, IsIterating
<1>5. PropertyIsHeld'
  BY ReleaseKeeps DEF PropertyIsHeld, IsPast
<1> QED BY <1>2, <1>3, <1>4, <1>5, ReleaseKeeps DEF IInv

(* A property that is read has one more user, which is one too many if one   *)
(* was held before.                                                          *)
LEMMA ReadKeeps ==
    ASSUME IInv, index \in Indexes, propertyItem' = index,
           NEW u \in Users, users' = [u EXCEPT !.property = u.property + 1]
    PROVE  /\ users' \in Users
           /\ users'.profile = u.profile /\ users'.string = u.string
           /\ propertyItem' \in Indexes \cup {NoProperty} /\ propertyItem' # NoProperty
           /\ Extra' = u.property
<1>1. u.property \in Nat
  BY DEF Users
<1>2. /\ users' \in Users /\ users'.property = u.property + 1
      /\ users'.profile = u.profile /\ users'.string = u.string
  BY <1>1 DEF Users
<1>3. propertyItem' # NoProperty
  BY CountAssumption DEF Indexes, NoProperty
<1>4. Extra' = u.property
  BY <1>1, <1>2, <1>3 DEF Extra
<1> QED BY <1>2, <1>3, <1>4

(* A step that reads a property with no list of values.                      *)
LEMMA ReadInvariant ==
    ASSUME IInv, index \in Indexes, propertyItem' = index,
           NEW u \in Users, users' = [u EXCEPT !.property = u.property + 1],
           u.profile = users.profile, u.string = 0, list' = <<>>, ownList' = FALSE,
           u.property <= asked', u.property < asked' \/ ~ IsAgain',
           asked' \in 0 .. MaxAsked,
           UNCHANGED <<results, index, visited, profileItem, capacity, grown, found, exception>>,
           ~ IsIterating, HasRead'
    PROVE  IInv'
<1>1. /\ profileItem' \in DOMAIN ValuesOf \cup {Null} /\ visited' \in Nat /\ results' \in Detected
      /\ capacity' \in Nat \ {0} /\ index' \in Asked
      /\ {ownList', grown', found', exception'} \subseteq BOOLEAN
  BY DEF IInv, TypeOK, Shapes
<1>2. TypeOK'
  <2>1. Len(list') <= capacity'
    BY <1>1, EmptyList
  <2> QED BY <1>1, <2>1, ReadKeeps DEF TypeOK, Users
<1>3. Shapes' /\ IndexIsRead'
  <2>1. list' \in Seq(STRING)
    BY EmptyList
  <2> QED BY <1>1, <2>1 DEF Shapes, Locations, IndexIsRead, HasRead
<1>4. ProfileIsHeld'
  BY ReadKeeps DEF IInv, ProfileIsHeld, HasRead, IsIterating
<1>5. StringsAreHeld'
  BY ReadKeeps DEF StringsAreHeld
<1>6. PropertyIsHeld'
  <2>1. Extra' = u.property /\ u.property \in Nat
    BY ReadKeeps DEF Users
  <2>2. asked' \in Nat
    BY BoundAssumption
  <2>5. Extra' \in 0 .. asked'
    BY <2>1, <2>2
  <2>3. Extra' < asked' \/ ~ IsAgain'
    BY <2>1
  <2>4. pc' \notin {"has values", "reason", "freed"}
    BY DEF HasRead
  <2> QED BY <2>5, <2>3, <2>4 DEF PropertyIsHeld, IsAgain
<1> QED BY <1>2, <1>3, <1>4, <1>5, <1>6 DEF IInv

(* A call begins with a release, or goes on to GetValues, which releases.    *)
LEMMA CallInvariant ==
    ASSUME IInv, NEW f, NEW p \in Asked, Call(f, p), UNCHANGED asked,
           \/ Release /\ pc' \in {"has values", "reason", "get"}
           \/ UNCHANGED held /\ pc' \in {"get", "ready"}
    PROVE  IInv'
<1>1. CASE Release /\ pc' \in {"has values", "reason", "get"}
  <2>1. index' \in Asked /\ UNCHANGED <<results, visited>>
        /\ {ownList', grown', found', exception'} \subseteq BOOLEAN
    BY <1>1 DEF Call, Release, reading, IInv, TypeOK
  <2>2. pc # "iterate" /\ pc' \in Locations
    BY <1>1 DEF Call, Locations
  <2>3. pc' \notin {"iterate", "reason again", "select", "close"}
    BY <1>1
  <2>4. ~ IsIterating /\ IsPast' /\ IndexIsRead'
    BY <2>2, <2>3 DEF IsIterating, IsPast, IndexIsRead
  <2> QED BY <1>1, <2>1, <2>4, ReleaseInvariant
<1>2. CASE UNCHANGED held /\ pc' \in {"get", "ready"}
  BY <1>2 DEF
      Call, held, IInv, TypeOK, Shapes, ProfileIsHeld, StringsAreHeld, PropertyIsHeld, Extra,
      IndexIsRead, Locations, reading
<1> QED BY <1>1, <1>2

(* A step that takes a string, or gives some back, or holds a profile or     *)
(* gives it back, and reads no property.                                     *)
LEMMA ListInvariant ==
    ASSUME IInv, UNCHANGED <<results, index, propertyItem, asked, ownList>>,
           {grown', found', exception'} \subseteq BOOLEAN,
           profileItem' \in DOMAIN ValuesOf \cup {Null}, visited' \in Nat, capacity' \in Nat \ {0},
           list' \in Seq(STRING), Len(list') <= capacity',
           pc \in {"select", "iterate"}, pc' \in {"iterate", "got"},
           pc' = "iterate" <=> profileItem' # Null,
           users' \in Users, users'.property = users.property, users'.string = Len(list'),
           users'.profile = IF profileItem' = Null THEN 0 ELSE 1
    PROVE  IInv'
<1>1. ownList = FALSE /\ index \in Indexes
  BY DEF IInv, TypeOK, StringsAreHeld, IndexIsRead
<1>2. TypeOK'
  BY DEF IInv, TypeOK, Users
<1>3. Shapes' /\ IndexIsRead' /\ ProfileIsHeld'
  BY <1>1 DEF Shapes, Locations, IndexIsRead, ProfileIsHeld
<1>4. StringsAreHeld'
  BY <1>1 DEF StringsAreHeld
<1>5. PropertyIsHeld'
  BY DEF IInv, PropertyIsHeld, Extra
<1> QED BY <1>2, <1>3, <1>4, <1>5 DEF IInv

(* On to the next property.                                                  *)
LEMMA NextIndex ==
    ASSUME index \in Asked, NEW end, NextProperty(end)
    PROVE  index' \in Asked /\ pc' \in {"get", end}
BY CountAssumption DEF NextProperty, Asked, Indexes

LEMMA NextInvariant == IInv /\ [Next]_vars => IInv'
<1> SUFFICES ASSUME IInv, [Next]_vars PROVE IInv'
  OBVIOUS
<1>1. ASSUME NEW p \in Asked, AskHasValues(p) \/ AskReason(p)
      PROVE  IInv'
  BY <1>1, CallInvariant DEF AskHasValues, AskReason
<1>2. ASSUME NEW f, NEW p \in Asked, AskValues(f, p)
      PROVE  IInv'
  BY <1>2, CallInvariant DEF AskValues
<1>3. CASE AskUnknownName \/ AskAll \/ AskJson
  <2>1. NoProperty \in Asked /\ 0 \in Asked
    BY CountAssumption DEF Asked, NoProperty
  <2> QED BY <1>3, <2>1, CallInvariant DEF AskUnknownName, AskAll, AskJson
<1>4. CASE \/ HasValuesUnread \/ HasValuesFails \/ ReasonUnread \/ ReasonFails \/ SelectNoProfile
           \/ SelectProfileFails \/ ReturnValues \/ CloseDocument \/ UNCHANGED vars
  <2> USE DEF IInv, TypeOK, Shapes, ProfileIsHeld, StringsAreHeld, PropertyIsHeld, Extra,
              IndexIsRead, Locations, held, reading, returned, Return, Got
  <2>1. CASE HasValuesUnread \/ HasValuesFails
    BY <2>1 DEF HasValuesUnread, HasValuesFails
  <2>2. CASE ReasonUnread \/ ReasonFails
    BY <2>2 DEF ReasonUnread, ReasonFails
  <2>3. CASE SelectNoProfile
    <3>1. found' \in BOOLEAN
      BY <2>3 DEF SelectNoProfile
    <3> QED BY <2>3, <3>1 DEF SelectNoProfile
  <2>5. CASE SelectProfileFails
    BY <2>5 DEF SelectProfileFails
  <2>4. CASE ReturnValues
    BY <2>4 DEF ReturnValues
  <2>7. CASE CloseDocument
    BY <2>7 DEF CloseDocument
  <2>6. CASE UNCHANGED vars
    BY <2>6 DEF vars
  <2> QED BY <1>4, <2>1, <2>2, <2>3, <2>4, <2>5, <2>6, <2>7
<1>5. CASE HasValuesRead
  <2>1. /\ propertyItem = NoProperty /\ list = <<>> /\ ownList = FALSE /\ users.string = 0
    BY <1>5 DEF HasValuesRead, IInv, TypeOK, PropertyIsHeld, StringsAreHeld
  <2>2. users.property = Extra
    BY <2>1, Numbers DEF Extra
  <2>3. asked' \in 0 .. MaxAsked
    BY <1>5 DEF HasValuesRead, IInv, TypeOK
  <2> QED BY <1>5, <2>1, <2>2, <2>3, Numbers, ReadInvariant
          DEF HasValuesRead, ReadProperty, Return, reading, IsIterating, IsAgain, HasRead
<1>6. CASE ReasonSelect
  <2>1. /\ propertyItem = NoProperty /\ list = <<>> /\ ownList = FALSE /\ users.string = 0
    BY <1>6 DEF ReasonSelect, IInv, TypeOK, PropertyIsHeld, StringsAreHeld
  <2>2. users.property = Extra
    BY <2>1, Numbers DEF Extra
  <2>3. asked' \in 0 .. MaxAsked /\ Extra < asked' /\ asked' \in Nat
    <3>1. asked \in Nat /\ MaxAsked \in Nat /\ Extra \in Nat /\ Extra <= asked
      BY Numbers, BoundAssumption
    <3>2. asked < MaxAsked /\ asked' = asked + 1
      BY <1>6 DEF ReasonSelect
    <3> QED BY <3>1, <3>2
  <2>4. CASE ReadProperty /\ UNCHANGED exception
    <3>1. /\ index \in Indexes /\ propertyItem' = index
          /\ users' = [users EXCEPT !.property = users.property + 1]
          /\ UNCHANGED <<results, index, visited, profileItem, capacity, grown, found, exception>>
          /\ list' = <<>> /\ ownList' = FALSE /\ ~ IsIterating /\ HasRead'
      BY <1>6, <2>1, <2>4 DEF ReasonSelect, ReadProperty, reading, IsIterating, HasRead
    <3>2. users.property <= asked' /\ users.property < asked'
      BY <2>2, <2>3, Numbers
    <3> QED BY <2>1, <2>3, <3>1, <3>2, Numbers, ReadInvariant
  <2>5. CASE exception' = TRUE /\ UNCHANGED held
    <3>1. PropertyIsHeld'
      <4>1. Extra' = Extra
        BY <2>5 DEF held, Extra
      <4>2. Extra' \in 0 .. asked' /\ Extra' < asked'
        BY <2>3, <4>1, Numbers
      <4> QED BY <1>6, <4>2 DEF ReasonSelect, PropertyIsHeld
    <3>2. /\ UNCHANGED <<results, index, pc>> \/ pc' = "reason again"
          /\ {ownList', grown', found', exception'} \subseteq BOOLEAN
      BY <1>6, <2>5 DEF ReasonSelect, held, reading, IInv, TypeOK
    <3>3. TypeOK' /\ Shapes'
      BY <1>6, <2>3, <2>5, <3>2 DEF ReasonSelect, held, reading, IInv, TypeOK, Shapes, Locations
    <3>4. ProfileIsHeld' /\ StringsAreHeld' /\ IndexIsRead'
      BY <1>6, <2>5 DEF ReasonSelect, held, IInv, ProfileIsHeld, StringsAreHeld, IndexIsRead
    <3> QED BY <3>1, <3>3, <3>4 DEF IInv
  <2> QED BY <1>6, <2>4, <2>5 DEF ReasonSelect
<1>7. CASE ReasonRead
  <2>1. /\ list = <<>> /\ ownList = FALSE /\ users.string = 0 /\ index \in Indexes
    BY <1>7 DEF ReasonRead, IInv, TypeOK, IndexIsRead, StringsAreHeld
  <2>2. users.property <= asked
    <3>1. Extra < asked
      BY <1>7 DEF ReasonRead, IInv, PropertyIsHeld
    <3>2. users.property <= Extra + 1
      BY Numbers DEF Extra
    <3> QED BY <3>1, <3>2, Numbers
  <2>3. asked' \in 0 .. MaxAsked /\ asked' = asked
    BY <1>7 DEF ReasonRead, IInv, TypeOK
  <2> QED BY <1>7, <2>1, <2>2, <2>3, Numbers, ReadInvariant
          DEF ReasonRead, ReadProperty, Return, reading, IsIterating, IsAgain, HasRead
<1>8. CASE GetOverride
  <2> USE DEF IInv, TypeOK, Shapes, ProfileIsHeld, StringsAreHeld, PropertyIsHeld, Extra,
              IndexIsRead, Locations, held, reading, returned
  <2> QED BY <1>8, ReleaseEffect, DetectedAssumption DEF GetOverride, HasOverride, Got, Users
<1>9. CASE GetNothing \/ GetPropertyFails
  <2>1. {ownList', grown', found', exception'} \subseteq BOOLEAN /\ IndexIsRead'
    BY <1>9 DEF GetNothing, GetPropertyFails, Release, Got, IInv, TypeOK, IndexIsRead, reading
  <2>2. index' \in Asked /\ UNCHANGED <<results, visited, asked>> /\ pc' \in Locations
    BY <1>9 DEF GetNothing, GetPropertyFails, Got, IInv, TypeOK, Locations, reading
  <2>3. Release /\ pc # "iterate" /\ pc' \notin {"iterate", "reason again"}
    BY <1>9 DEF GetNothing, GetPropertyFails, Got
  <2>4. ~ IsIterating /\ IsPast'
    BY <2>2, <2>3 DEF IsIterating, IsPast
  <2> QED BY <2>1, <2>2, <2>3, <2>4, ReleaseInvariant
<1>10. CASE GetProperty
  <2>1. asked' \in 0 .. MaxAsked
    BY <1>10 DEF GetProperty, IInv, TypeOK
  <2> QED BY <1>10, <2>1, Numbers, ReleaseEffect, ReadInvariant
          DEF GetProperty, reading, IsIterating, IsAgain, HasRead
<1>11. CASE SelectProfile
  <2>1. profileItem' \in DOMAIN ValuesOf \cup {Null} /\ profileItem' # Null
    BY <1>11, SelectedProfile DEF SelectProfile, IInv, IndexIsRead
  <2>2. users.profile = 0 /\ ownList = FALSE
    BY <1>11 DEF SelectProfile, IInv, TypeOK, ProfileIsHeld, StringsAreHeld
  <2>3. users' \in Users /\ users'.property = users.property /\ users'.string = Len(list') /\ users'.profile = 1
    BY <1>11, <2>2, Numbers DEF SelectProfile, Users, IInv, StringsAreHeld
  <2>4. {grown', found', exception'} \subseteq BOOLEAN
    BY <1>11 DEF SelectProfile, IInv, TypeOK
  <2>5. Len(list') <= capacity' /\ list' \in Seq(STRING) /\ capacity' \in Nat \ {0}
    BY <1>11 DEF SelectProfile, IInv, TypeOK, Shapes
  <2> QED BY <1>11, <2>1, <2>3, <2>4, <2>5, ListInvariant DEF SelectProfile
<1>12. CASE AddValue
  <2>1. /\ ProfileValues \in Seq(STRING) /\ profileItem # Null /\ users.profile = 1
        /\ ownList = FALSE /\ users.string = Len(list) /\ visited \in Nat /\ capacity \in Nat \ {0}
    <3>1. profileItem \in DOMAIN ValuesOf /\ index \in Indexes
      BY <1>12 DEF AddValue, IInv, TypeOK, ProfileIsHeld, IndexIsRead
    <3>2. ProfileValues \in Seq(STRING)
      BY <3>1, ValuesAssumption DEF ProfileValues
    <3> QED BY <1>12, <3>2 DEF AddValue, IInv, TypeOK, Shapes, ProfileIsHeld, StringsAreHeld
  <2>2. {grown', found', exception'} \subseteq BOOLEAN /\ profileItem' \in DOMAIN ValuesOf \cup {Null}
    BY <1>12 DEF AddValue, IInv, TypeOK
  <2>3. ProfileValues[visited + 1] \in STRING
    BY <1>12, <2>1 DEF AddValue
  <2>4. CASE Len(list) < capacity
    <3>1. list' \in Seq(STRING) /\ Len(list') = Len(list) + 1
      BY <1>12, <2>3, <2>4, Numbers DEF AddValue
    <3>2. users' \in Users /\ users'.property = users.property /\ users'.string = Len(list') /\ users'.profile = 1
      BY <1>12, <2>1, <2>4, <3>1, Numbers DEF AddValue, Users
    <3>3. Len(list') <= capacity /\ visited' \in Nat
      BY <1>12, <2>1, <2>4, <3>1, Numbers DEF AddValue
    <3> QED BY <1>12, <2>1, <2>2, <3>1, <3>2, <3>3, ListInvariant DEF AddValue
  <2>5. CASE ~ (Len(list) < capacity)
    <3>1. Len(list') <= capacity /\ visited' \in Nat /\ list' = list /\ users' = users
      BY <1>12, <2>1, <2>5 DEF AddValue, IInv, TypeOK
    <3> QED BY <1>12, <2>1, <2>2, <3>1, Numbers, ListInvariant DEF AddValue
  <2> QED BY <2>4, <2>5
<1>13. CASE AddValueFails \/ IterationEnds
  <2>1. /\ users' = [users EXCEPT !.profile = users.profile - 1]
        /\ profileItem' = Null /\ UNCHANGED <<results, index, propertyItem, list, ownList, capacity,
                                             visited, grown, asked>>
        /\ pc = "iterate" /\ pc' = "got" /\ found' = TRUE /\ exception' \in BOOLEAN
    BY <1>13 DEF AddValueFails, IterationEnds, ReleaseProfile, Got, reading, IInv, TypeOK
  <2>2. users.profile = 1 /\ users.string = Len(list) /\ visited \in Nat /\ capacity \in Nat \ {0}
        /\ Len(list) <= capacity /\ grown \in BOOLEAN
    BY <2>1 DEF IInv, TypeOK, Shapes, ProfileIsHeld, StringsAreHeld
  <2>3. users' \in Users /\ users'.property = users.property /\ users'.string = Len(list') /\ users'.profile = 0
    BY <2>1, <2>2, Numbers DEF Users
  <2>4. {grown', found', exception'} \subseteq BOOLEAN
    BY <2>1, <2>2
  <2> QED BY <2>1, <2>2, <2>3, <2>4, Numbers, ListInvariant
<1>14. CASE GrowList
  <2>1. /\ users.profile = 1 /\ users.string = Len(list) /\ visited \in Nat /\ visited > Len(list)
        /\ profileItem # Null /\ profileItem \in DOMAIN ValuesOf \cup {Null}
    BY <1>14 DEF GrowList, IInv, TypeOK, ProfileIsHeld, StringsAreHeld
  <2>2. users' \in Users /\ users'.property = users.property /\ users'.string = 0 /\ users'.profile = 1
    BY <1>14, <2>1, Numbers DEF GrowList, Users
  <2>3. list' = <<>> /\ list' \in Seq(STRING) /\ Len(list') = 0 /\ capacity' \in Nat \ {0}
    BY <1>14, <2>1, Numbers DEF GrowList
  <2>4. {grown', found', exception'} \subseteq BOOLEAN
    BY <1>14 DEF GrowList, IInv, TypeOK
  <2>5. Len(list') <= capacity'
    BY <2>3
  <2> QED BY <1>14, <2>1, <2>2, <2>3, <2>4, <2>5, ListInvariant DEF GrowList
<1>15. CASE WriteStrings \/ WriteNothing \/ WriteProperty \/ WritePropertyFails
  <2>1. index' \in Asked /\ pc' \in {"get", "ready", "close"}
    BY <1>15, NextIndex DEF WriteStrings, WriteNothing, WriteProperty, WritePropertyFails, IInv, TypeOK
  <2>2. /\ call' = call /\ UNCHANGED <<results, held, reading, found, asked>>
        /\ exception' \in BOOLEAN /\ pc = "got" /\ (pc' = "close" => call' = "json")
    BY <1>15 DEF WriteStrings, WriteNothing, WriteProperty, WritePropertyFails, IInv, TypeOK, NextProperty
  <2> QED BY <2>1, <2>2 DEF IInv, TypeOK, Shapes, ProfileIsHeld, StringsAreHeld, PropertyIsHeld, Extra,
              IndexIsRead, Locations, held, reading
<1>16. CASE Free
  <2>1. {ownList', grown', found', exception'} \subseteq BOOLEAN /\ IndexIsRead'
    BY <1>16 DEF Free, Release, IInv, TypeOK, IndexIsRead, reading
  <2>2. index' \in Asked /\ UNCHANGED <<results, visited, asked>> /\ pc' \in Locations
    BY <1>16 DEF Free, IInv, TypeOK, Locations, reading
  <2>3. Release /\ pc # "iterate" /\ pc' \notin {"iterate", "reason again"}
    BY <1>16 DEF Free
  <2>4. ~ IsIterating /\ IsPast'
    BY <2>2, <2>3 DEF IsIterating, IsPast
  <2> QED BY <2>1, <2>2, <2>3, <2>4, ReleaseInvariant
<1> QED BY <1>1, <1>2, <1>3, <1>4, <1>5, <1>6, <1>7, <1>8, <1>9, <1>10, <1>11, <1>12, <1>13, <1>14,
           <1>15, <1>16
        DEF Next

LEMMA SpecInvariant == Spec => []IInv
BY InitInvariant, NextInvariant, PTL DEF Spec

-----------------------------------------------------------------------------
(* The variables of ResultsValues have their types: no count of users falls  *)
(* below zero, and the list stays within its capacity.                       *)
THEOREM Typing == Spec => []TypeOK
<1>1. IInv => TypeOK
  BY DEF IInv
<1> QED BY <1>1, SpecInvariant, PTL

(* Whichever calls are made and whichever reads fail, the items of the       *)
(* collections are given back.                                               *)
THEOREM GivenBack == Spec => []ItemsAreGivenBack
<1>1. ASSUME IInv PROVE ItemsAreGivenBack
  <2> DEFINE ownProperty == IF propertyItem = NoProperty THEN 0 ELSE 1
  <2>1. users.property <= asked + ownProperty /\ (asked = 0 => users.property = ownProperty)
    BY <1>1, Numbers DEF Extra
  <2>2. users.property <= asked + 1
    BY <1>1, <2>1, Numbers
  <2>3. pc \in {"ready", "freed"} => profileItem = Null /\ users.profile = 0
    BY <1>1 DEF IInv, ProfileIsHeld
  <2>4. users.string = IF ownList THEN 0 ELSE Len(list)
    BY <1>1 DEF IInv, StringsAreHeld
  <2>5. pc = "freed" => users.string = 0 /\ users.property <= asked
    <3>1. pc = "freed" => list = <<>> /\ propertyItem = NoProperty
      BY <1>1 DEF IInv, StringsAreHeld, PropertyIsHeld
    <3>2. list = <<>> => users.string = 0
      BY <2>4, EmptyList
    <3>3. propertyItem = NoProperty => users.property <= asked
      BY <1>1, <2>1, Numbers
    <3> QED BY <3>1, <3>2, <3>3
  <2> HIDE DEF ownProperty
  <2> QED BY <1>1, <2>1, <2>2, <2>3, <2>4, <2>5 DEF ownProperty, IInv, ItemsAreGivenBack
<1> QED BY <1>1, SpecInvariant, PTL

-----------------------------------------------------------------------------
(* What the sequences that are flattened give, one after the other.          *)
LEMMA Upwards ==
    ASSUME NEW last \in Nat, NEW G, 0 \in G, \A n \in 1 .. last : n - 1 \in G => n \in G
    PROVE  \A n \in 0 .. last : n \in G
<1> DEFINE Bad == {n \in 0 .. last : n \notin G}
<1>1. ASSUME NEW i \in 0 .. last, i \notin G PROVE FALSE
  <2>1. Bad \in SUBSET Nat /\ Bad # {}
    BY <1>1
  <2>2. PICK n \in Bad : \A m \in Bad : n <= m
    <3> HIDE DEF Bad
    <3> QED BY <2>1, LeastExists
  <2>3. n \in 1 .. last /\ n \notin G
    BY <2>2
  <2>4. n - 1 \notin Bad
    <3>1. ~ (n <= n - 1)
      BY <2>3
    <3> HIDE DEF Bad
    <3> QED BY <2>2, <3>1
  <2> QED BY <2>3, <2>4
<1> QED BY <1>1

IsJoined(f, s, last) ==
    /\ f[0] = <<>>
    /\ \A n \in 1 .. last : f[n] = f[n - 1] \o s[n]

LEMMA JoinedExists ==
    ASSUME NEW S, NEW last \in Nat, NEW s \in [1 .. last -> Seq(S)]
    PROVE  \E f \in [0 .. last -> Seq(S)] : IsJoined(f, s, last)
<1> DEFINE G == {n \in 0 .. last : \E f \in [0 .. n -> Seq(S)] : IsJoined(f, s, n)}
<1>1. 0 \in G
  <2>1. [i \in 0 .. 0 |-> <<>>] \in [0 .. 0 -> Seq(S)]
    OBVIOUS
  <2>2. IsJoined([i \in 0 .. 0 |-> <<>>], s, 0)
    BY DEF IsJoined
  <2>3. 0 \in 0 .. last
    OBVIOUS
  <2> HIDE DEF IsJoined
  <2> QED BY <2>1, <2>2, <2>3
<1>2. ASSUME NEW n \in 1 .. last, n - 1 \in G PROVE n \in G
  <2>1. PICK g \in [0 .. n - 1 -> Seq(S)] : IsJoined(g, s, n - 1)
    BY <1>2
  <2> DEFINE h == g[n - 1] \o s[n]
             f == [i \in 0 .. n |-> IF i <= n - 1 THEN g[i] ELSE h]
  <2>2. g[n - 1] \in Seq(S) /\ s[n] \in Seq(S)
    <3>1. n - 1 \in 0 .. n - 1
      OBVIOUS
    <3> QED BY <3>1
  <2>3. h \in Seq(S)
    BY <2>2
  <2>4. f \in [0 .. n -> Seq(S)]
    <3> HIDE DEF h
    <3> QED BY <2>3
  <2>5. ASSUME NEW i \in 1 .. n PROVE f[i] = f[i - 1] \o s[i]
    <3>1. i - 1 \in 0 .. n /\ i \in 0 .. n /\ i - 1 <= n - 1
      OBVIOUS
    <3>2. f[i - 1] = g[i - 1]
      <4> HIDE DEF h
      <4> QED BY <3>1
    <3>3. CASE i = n
      <4>1. f[i] = h
        <5> HIDE DEF h
        <5> QED BY <3>1, <3>3
      <4> QED BY <3>2, <3>3, <4>1
    <3>4. CASE i # n
      <4>1. i <= n - 1 /\ i \in 1 .. n - 1
        BY <3>4
      <4>2. f[i] = g[i]
        <5> HIDE DEF h
        <5> QED BY <3>1, <4>1
      <4>3. g[i] = g[i - 1] \o s[i]
        BY <2>1, <4>1 DEF IsJoined
      <4> QED BY <3>2, <4>2, <4>3
    <3> QED BY <3>3, <3>4
  <2>6. f[0] = <<>>
    BY <2>1 DEF IsJoined
  <2>7. IsJoined(f, s, n)
    <3> HIDE DEF f
    <3> QED BY <2>5, <2>6 DEF IsJoined
  <2>8. n \in 0 .. last
    OBVIOUS
  <2> HIDE DEF f
  <2> QED BY <2>4, <2>7, <2>8
<1>3. last \in G
  <2>1. last \in 0 .. last
    OBVIOUS
  <2> HIDE DEF G
  <2>2. \A n \in 1 .. last : n - 1 \in G => n \in G
    BY <1>2
  <2>3. \A n \in 0 .. last : n \in G
    BY <1>1, <2>2, Upwards
  <2> QED BY <2>1, <2>3
<1> QED BY <1>3

LEMMA JoinedIsFlat ==
    ASSUME NEW S, NEW last \in Nat \ {0}, NEW s \in [1 .. last -> Seq(S)],
           NEW f \in [0 .. last -> Seq(S)], IsJoined(f, s, last)
    PROVE  FlattenSeq(s) = f[last]
<1> DEFINE Is(g) == g = [i \in 1 .. Len(s) |-> IF i = 1 THEN s[i] ELSE g[i - 1] \o s[i]]
           flatten == CHOOSE g : Is(g)
           e == [i \in 1 .. last |-> f[i]]
<1>1. Len(s) = last
  OBVIOUS
<1>2. \A i \in 1 .. last : f[i] = IF i = 1 THEN s[i] ELSE f[i - 1] \o s[i]
  <2>1. ASSUME NEW i \in 1 .. last, i = 1 PROVE f[i] = s[i]
    <3>1. s[i] \in Seq(S)
      OBVIOUS
    <3>2. f[i] = f[i - 1] \o s[i] /\ f[0] = <<>>
      BY DEF IsJoined
    <3>3. i - 1 = 0
      BY <2>1
    <3>4. f[i] = <<>> \o s[i]
      BY <3>2, <3>3
    <3>5. <<>> \o s[i] = s[i]
      BY <3>1
    <3> QED BY <3>4, <3>5
  <2> QED BY <2>1 DEF IsJoined
<1>3. Is(e)
  <2>1. \A i \in 1 .. last : i # 1 => i - 1 \in 1 .. last
    OBVIOUS
  <2>2. \A i \in 1 .. last : e[i] = IF i = 1 THEN s[i] ELSE e[i - 1] \o s[i]
    BY <1>2, <2>1
  <2>3. e = [i \in 1 .. last |-> e[i]]
    OBVIOUS
  <2> HIDE DEF e
  <2> QED BY <1>1, <2>2, <2>3
<1>4. Is(flatten)
  <2> HIDE DEF Is, e
  <2> QED BY <1>3
<1>5. \A i \in 1 .. last : flatten[i] = IF i = 1 THEN s[i] ELSE flatten[i - 1] \o s[i]
  <2> HIDE DEF flatten
  <2> QED BY <1>1, <1>4
<1> DEFINE G == {n \in 0 .. last : n = 0 \/ flatten[n] = f[n]}
<1>6. last \in G
  <2>1. 0 \in G
    OBVIOUS
  <2>2. ASSUME NEW n \in 1 .. last, n - 1 \in G PROVE n \in G
    <3>1. n \in 0 .. last /\ n # 0 /\ (n # 1 => n - 1 # 0)
      OBVIOUS
    <3>2. n # 1 => flatten[n - 1] = f[n - 1]
      BY <2>2, <3>1
    <3>3. flatten[n] = f[n]
      <4> HIDE DEF flatten
      <4> QED BY <1>2, <1>5, <3>2
    <3> QED BY <3>1, <3>3
  <2>3. \A n \in 1 .. last : n - 1 \in G => n \in G
    BY <2>2
  <2>4. last \in 0 .. last /\ last \in Nat
    OBVIOUS
  <2> HIDE DEF G
  <2>5. \A n \in 0 .. last : n \in G
    BY <2>1, <2>3, <2>4, Upwards
  <2> QED BY <2>4, <2>5
<1>7. FlattenSeq(s) = flatten[Len(s)]
  BY <1>1 DEF FlattenSeq
<1> QED BY <1>1, <1>6, <1>7

-----------------------------------------------------------------------------
(* What is read from the results.                                            *)

LEMMA ResultsKept ==
    ASSUME results' = results
    PROVE  /\ \A p : /\ HasOverride(p)' = HasOverride(p)
                     /\ Selected(p)' = Selected(p)
                     /\ TrueValues(p)' = TrueValues(p)
                     /\ IsWritten(p)' = IsWritten(p)
           /\ Lines' = Lines /\ WrittenMembers' = WrittenMembers
<1>1. \A p : /\ HasOverride(p)' = HasOverride(p) /\ Selected(p)' = Selected(p)
             /\ \A i : ProfileIn(i, p)' = ProfileIn(i, p)
  BY DEF HasOverride, Selected, ProfileIn, Items
<1>2. \A p : TrueValues(p)' = TrueValues(p)
  BY DEF TrueValues, HasOverride, Selected, ProfileIn, Items
<1>3. \A p : IsWritten(p)' = IsWritten(p)
  BY <1>2 DEF IsWritten, HasAny, TakenWithoutProfile, HasOverride, Selected, ProfileIn, Items
<1> QED BY <1>1, <1>2, <1>3 DEF Lines, WrittenMembers, WrittenMember

LEMMA ProfileKept ==
    ASSUME results' = results
    PROVE  \A i, p : ProfileIn(i, p)' = ProfileIn(i, p)
BY DEF ProfileIn, Items

(* A profile that is selected has values, which HasValues tells.             *)
LEMMA SelectedIsEarned ==
    ASSUME TypeOK, NEW p \in Indexes, ProfileIn(Selected(p), p) # Null
    PROVE  /\ ValuesOf[ProfileIn(Selected(p), p)][p] # <<>>
           /\ HasValuesIn(Selected(p), p)
<1>1. Selected(p) \in 0 .. Len(Items)
  BY SelectedIndex
<1>2. Selected(p) # 0
  BY DEF ProfileIn
<1>3. Items = results.items /\ Len(Items) \in Nat /\ results \in Detected
  BY DetectedAssumption DEF TypeOK, Items
<1>4. Selected(p) \in 1 .. Len(Items)
  BY <1>1, <1>2, <1>3
<1>5. DOMAIN results.items = 1 .. Len(results.items)
  BY <1>3, DetectedAssumption
<1>6. Selected(p) \in DOMAIN results.items
  BY <1>3, <1>4, <1>5
<1>7. ProfileIn(Selected(p), p) = results.items[Selected(p)].profiles[ComponentOf[p]]
  BY <1>2 DEF ProfileIn, Items
<1> DEFINE i == Selected(p)
<1>8. /\ ValuesOf[ProfileIn(i, p)][p] # <<>>
      /\ results.allowUnmatched \/ results.items[i].matchedNodes > 0
           \/ results.items[i].overridden[ComponentOf[p]]
  <2> HIDE DEF i
  <2> QED BY <1>3, <1>6, <1>7, EarnedAssumption DEF i
<1>9. results.items[i].matchedNodes > 0 => results.items[i].matchedNodes # 0
  OBVIOUS
<1> QED BY <1>8, <1>9 DEF HasValuesIn, IsUnmatched, Items

LEMMA TrueValuesAre ==
    ASSUME TypeOK, NEW p \in Indexes
    PROVE  TrueValues(p) \in Seq(STRING)
<1>1. CASE HasOverride(p)
  BY <1>1, DetectedAssumption DEF TypeOK, TrueValues
<1>2. CASE ~ HasOverride(p) /\ ProfileIn(Selected(p), p) = Null
  BY <1>2, EmptyList DEF TrueValues
<1>3. CASE ~ HasOverride(p) /\ ProfileIn(Selected(p), p) # Null
  BY <1>3, SelectedProfile, ValuesAssumption DEF TrueValues
<1> QED BY <1>1, <1>2, <1>3

(* What is written.                                                          *)
Letters == STRING \cup {"\r", ",", "{", "}"} \cup {NameOf[p] : p \in Indexes}

LEMMA Wider ==
    ASSUME NEW S, NEW T, S \subseteq T, NEW s \in Seq(S)
    PROVE  s \in Seq(T)
OBVIOUS

LEMMA NothingAdded ==
    ASSUME NEW S, NEW s \in Seq(S)
    PROVE  s \o <<>> = s /\ <<>> \o s = s
OBVIOUS

LEMMA Single ==
    ASSUME NEW S, NEW x \in S
    PROVE  <<x>> \in Seq(S) /\ Len(<<x>>) = 1
OBVIOUS

LEMMA Concatenated ==
    ASSUME NEW S, NEW a \in Seq(S), NEW b \in Seq(S)
    PROVE  a \o b \in Seq(S) /\ Len(a \o b) = Len(a) + Len(b)
OBVIOUS

LEMMA Associated ==
    ASSUME NEW S, NEW a \in Seq(S), NEW b \in Seq(S), NEW c \in Seq(S)
    PROVE  (a \o b) \o c = a \o (b \o c)
OBVIOUS

LEMMA Appended ==
    ASSUME NEW S, NEW a \in Seq(S), NEW x \in S
    PROVE  Append(a, x) \in Seq(S) /\ Append(a, x) = a \o <<x>>
OBVIOUS

LEMMA WrittenAre ==
    ASSUME TypeOK
    PROVE  /\ Lines \in [1 .. Count -> Seq(Letters)]
           /\ WrittenMembers \in [1 .. Count -> Seq(Letters)]
           /\ \A p \in Indexes : TrueValues(p) \in Seq(Letters)
           /\ \A p \in Indexes :
                /\ WrittenMember(p) \in Seq(Letters) /\ Len(WrittenMember(p)) \in Nat
                /\ IsWritten(p) => Len(WrittenMember(p)) > 0
                /\ ~ IsWritten(p) => WrittenMember(p) = <<>>
<1>1. \A p \in Indexes : TrueValues(p) \in Seq(Letters)
  <2>1. STRING \subseteq Letters
    BY DEF Letters
  <2> HIDE DEF Letters
  <2> QED BY <2>1, TrueValuesAre, Wider
<1>2. /\ "\r" \in Letters /\ "," \in Letters
      /\ \A p \in Indexes : NameOf[p] \in Letters
  BY DEF Letters
<1>3. \A n \in 1 .. Count : n - 1 \in Indexes
  BY CountAssumption DEF Indexes
<1>4. ASSUME NEW n \in 1 .. Count PROVE Append(TrueValues(n - 1), "\r") \in Seq(Letters)
  BY <1>1, <1>2, <1>3, Appended
<1>5. ASSUME NEW p \in Indexes
      PROVE  /\ WrittenMember(p) \in Seq(Letters) /\ Len(WrittenMember(p)) \in Nat
             /\ IsWritten(p) => Len(WrittenMember(p)) > 0
             /\ ~ IsWritten(p) => WrittenMember(p) = <<>>
  <2>1. <<NameOf[p]>> \in Seq(Letters) /\ <<",">> \in Seq(Letters)
    BY <1>2, Single
  <2>3. <<>> \in Seq(Letters)
    OBVIOUS
  <2> DEFINE named == (IF \E q \in 0 .. p - 1 : IsWritten(q) THEN <<",">> ELSE <<>>) \o <<NameOf[p]>>
  <2>4. named \in Seq(Letters) /\ Len(named) > 0
    <3> DEFINE comma == IF \E q \in 0 .. p - 1 : IsWritten(q) THEN <<",">> ELSE <<>>
    <3>1. Len(<<NameOf[p]>>) = 1
      OBVIOUS
    <3>2. comma \in Seq(Letters)
      BY <2>1, <2>3
    <3>3. Len(comma) \in Nat
      <4> HIDE DEF comma
      <4> QED BY <3>2
    <3>4. comma \o <<NameOf[p]>> \in Seq(Letters) /\ Len(comma \o <<NameOf[p]>>) > 0
      <4> HIDE DEF comma
      <4>1. comma \o <<NameOf[p]>> \in Seq(Letters)
            /\ Len(comma \o <<NameOf[p]>>) = Len(comma) + Len(<<NameOf[p]>>)
        BY <2>1, <3>2, Concatenated, Zenon
      <4> QED BY <3>1, <3>3, <4>1
    <3> QED BY <3>4
  <2>5. named \o TrueValues(p) \in Seq(Letters) /\ Len(named \o TrueValues(p)) > 0
    <3> HIDE DEF named
    <3>1. TrueValues(p) \in Seq(Letters)
      BY <1>1
    <3>2. Len(TrueValues(p)) \in Nat /\ Len(named) \in Nat
      BY <2>4, <3>1
    <3> QED BY <2>4, <3>1, <3>2, Concatenated
  <2>6. WrittenMember(p) = IF ~ IsWritten(p) THEN <<>> ELSE named \o TrueValues(p)
    BY DEF WrittenMember
  <2>7. Len(<<>>) \in Nat
    OBVIOUS
  <2> HIDE DEF named
  <2> QED BY <2>3, <2>5, <2>6, <2>7
<1> QED BY <1>1, <1>3, <1>4, <1>5 DEF Lines, WrittenMembers

Joined(s) == CHOOSE f \in [0 .. Count -> Seq(Letters)] : IsJoined(f, s, Count)

LEMMA JoinedIs ==
    ASSUME NEW s \in [1 .. Count -> Seq(Letters)]
    PROVE  /\ Joined(s) \in [0 .. Count -> Seq(Letters)]
           /\ Joined(s)[0] = <<>>
           /\ \A i \in Indexes : i + 1 \in 1 .. Count /\ Joined(s)[i + 1] = Joined(s)[i] \o s[i + 1]
           /\ FlattenSeq(s) = Joined(s)[Count]
<1>1. Count \in Nat \ {0}
  BY CountAssumption
<1>2. \E f \in [0 .. Count -> Seq(Letters)] : IsJoined(f, s, Count)
  BY <1>1, JoinedExists
<1>3. Joined(s) \in [0 .. Count -> Seq(Letters)] /\ IsJoined(Joined(s), s, Count)
  BY <1>2 DEF Joined
<1>4. ASSUME NEW i \in Indexes
      PROVE  i + 1 \in 1 .. Count /\ Joined(s)[i + 1] = Joined(s)[i] \o s[i + 1]
  <2>1. i + 1 \in 1 .. Count /\ i + 1 - 1 = i
    BY <1>1 DEF Indexes
  <2>2. PICK n : n = i + 1
    OBVIOUS
  <2>3. n \in 1 .. Count /\ n - 1 = i
    <3>1. i \in Int
      BY <1>1 DEF Indexes
    <3> QED BY <2>1, <2>2, <3>1
  <2>4. Joined(s)[n] = Joined(s)[n - 1] \o s[n]
    BY <1>3, <2>3 DEF IsJoined
  <2> QED BY <2>1, <2>2, <2>3, <2>4
<1>5. Joined(s)[0] = <<>>
  BY <1>3 DEF IsJoined
<1>6. FlattenSeq(s) = Joined(s)[Count]
  BY <1>1, <1>3, JoinedIsFlat
<1> QED BY <1>3, <1>4, <1>5, <1>6

-----------------------------------------------------------------------------
(* The strengthening for what is read.                                       *)
Values == {"values", "vector", "string"}
Reading == {"get", "select", "iterate", "got"}

CallIsOn ==
    /\ pc = "has values" => call = "has values"
    /\ pc \in {"reason", "reason again"} => call = "reason"
    /\ pc \in Reading => call \in Values \cup {"all", "json"}
    /\ call \in {"all", "json"} => index \in Indexes

(* The list is that of the first values of the profile, all of them if the   *)
(* list is large enough, which it is after it was made larger.               *)
IsFirst(s, t, n) == Len(s) = n /\ \A k \in 1 .. n : s[k] = t[k]

ListIsRead ==
    /\ pc = "select" => ~ exception /\ ~ HasOverride(index) /\ list = <<>>
    /\ pc = "iterate" =>
         /\ ~ exception /\ ~ HasOverride(index)
         /\ profileItem = ProfileIn(Selected(index), index)
         /\ visited <= Len(ProfileValues)
         /\ grown => Len(ProfileValues) <= capacity
         /\ IsFirst(list, ProfileValues, IF visited < capacity THEN visited ELSE capacity)
    /\ pc = "got" /\ ~ exception =>
         /\ index \in Indexes
         /\ found <=> IsWritten(index)
         /\ found => list = TrueValues(index)

AnswerIsRead ==
    pc = "ready" /\ ~ exception /\ index \in Indexes =>
      /\ call \in Values => output = TrueValues(index)
      /\ call = "has values" => answer = (TrueValues(index) # <<>>)

(* What was written is for the properties before this one.                   *)
AllIsRead ==
    call = "all" /\ ~ exception =>
      /\ pc \in Reading => output = Joined(Lines)[index]
      /\ pc = "ready" => output = Joined(Lines)[Count]

JsonIsRead ==
    call = "json" /\ ~ exception =>
      /\ pc \in Reading =>
           /\ output = <<"{">> \o Joined(WrittenMembers)[index]
           /\ output = <<"{">> <=> \A q \in 0 .. index - 1 : ~ IsWritten(q)
      /\ pc = "close" => output = <<"{">> \o Joined(WrittenMembers)[Count]
      /\ pc = "ready" => output = (<<"{">> \o Joined(WrittenMembers)[Count]) \o <<"}">>

WInv == CallIsOn /\ AnswerIsRead /\ AllIsRead /\ JsonIsRead
VInv == WInv /\ ListIsRead

(* A step within GetValues writes nothing.                                   *)
LEMMA WithinKeeps ==
    ASSUME WInv, UNCHANGED <<results, call, index, output>>, exception => exception',
           pc \in Reading, pc' \in Reading
    PROVE  WInv'
<1>1. pc' \notin {"has values", "reason", "reason again", "ready", "close"}
  BY DEF Reading
<1>2. CallIsOn' /\ AnswerIsRead'
  BY <1>1 DEF WInv, CallIsOn, AnswerIsRead
<1>3. AllIsRead'
  BY <1>1, ResultsKept DEF WInv, AllIsRead
<1>4. JsonIsRead'
  BY <1>1, ResultsKept DEF WInv, JsonIsRead
<1> QED BY <1>2, <1>3, <1>4 DEF WInv

LEMMA FirstIndex == 0 \in Indexes /\ 0 .. 0 - 1 = {}
<1>1. Count - 1 \in Nat
  BY CountAssumption
<1> QED BY <1>1 DEF Indexes

LEMMA CallKeeps ==
    ASSUME IInv, NEW f, NEW p \in Asked, Call(f, p),
           \/ f = "has values" /\ pc' = "has values"
           \/ f = "reason" /\ pc' = "reason"
           \/ f \in Values /\ pc' = "get"
           \/ f \in Values /\ pc' = "ready" /\ p \notin Indexes
           \/ f = "all" /\ pc' = "get" /\ p = 0 /\ output' = <<>>
           \/ f = "json" /\ pc' = "get" /\ p = 0 /\ output' = <<"{">>
    PROVE  VInv'
<1>1. /\ call' = f /\ index' = p /\ exception' = FALSE
      /\ results' = results /\ pc' \in {"has values", "reason", "get", "ready"}
  BY DEF Call
<1>2. ListIsRead'
  BY <1>1 DEF ListIsRead
<1>3. CallIsOn'
  <2>1. 0 \in Indexes
    BY FirstIndex
  <2>2. f \in {"all", "json"} => p = 0
    BY DEF Values
  <2>3. pc' \in Reading => f \in Values \cup {"all", "json"}
    BY DEF Reading, Values
  <2>4. (pc' = "has values" => f = "has values") /\ (pc' \in {"reason", "reason again"} => f = "reason")
    OBVIOUS
  <2> QED BY <1>1, <2>1, <2>2, <2>3, <2>4 DEF CallIsOn
<1>4. AnswerIsRead'
  BY <1>1 DEF AnswerIsRead, Values
<1>5. TypeOK /\ Lines' = Lines /\ WrittenMembers' = WrittenMembers
  BY <1>1, ResultsKept DEF IInv
<1>6. AllIsRead'
  BY <1>1, <1>5, WrittenAre, JoinedIs DEF AllIsRead, Reading, Values
<1>7. JsonIsRead'
  <2>1. CASE f # "json"
    BY <1>1, <2>1 DEF JsonIsRead
  <2>2. CASE f = "json"
    <3>1. pc' = "get" /\ p = 0 /\ output' = <<"{">>
      BY <2>2 DEF Values
    <3>2. Joined(WrittenMembers)[0] = <<>>
      BY <1>5, WrittenAre, JoinedIs
    <3>3. <<"{">> \o <<>> = <<"{">>
      <4>1. "{" \in Letters
        BY DEF Letters
      <4> QED BY <4>1, Single, NothingAdded
    <3>4. 0 .. p - 1 = {}
      BY <3>1, FirstIndex
    <3> QED BY <1>1, <1>5, <3>1, <3>2, <3>3, <3>4 DEF JsonIsRead
  <2> QED BY <2>1, <2>2
<1> QED BY <1>2, <1>3, <1>4, <1>6, <1>7 DEF VInv, WInv

(* The property that is written is the next one, or it is the last.          *)
LEMMA Advances ==
    ASSUME index \in Indexes, NEW end, NextProperty(end)
    PROVE  /\ index' \in Indexes
           /\ index + 1 \in 1 .. Count
           /\ \/ index' = index + 1 /\ pc' = "get"
              \/ index + 1 = Count /\ index' = index /\ pc' = end
<1>1. index \in Nat /\ index < Count /\ Count \in Nat
  BY CountAssumption DEF Indexes
<1>2. index + 1 \in 1 .. Count /\ (index + 1 \in Indexes \/ index + 1 = Count)
  BY <1>1 DEF Indexes
<1>3. index + 1 = Count => index + 1 \notin Indexes
  BY <1>1 DEF Indexes
<1> QED BY <1>2, <1>3 DEF NextProperty

(* One more property.                                                        *)
LEMMA JoinedNext ==
    ASSUME TypeOK, index \in Indexes
    PROVE  /\ Joined(Lines)[index] \in Seq(Letters)
           /\ Joined(WrittenMembers)[index] \in Seq(Letters)
           /\ Joined(Lines)[index + 1] = Joined(Lines)[index] \o Append(TrueValues(index), "\r")
           /\ Joined(WrittenMembers)[index + 1] = Joined(WrittenMembers)[index] \o WrittenMember(index)
<1>1. index \in Nat /\ index < Count /\ Count \in Nat
  BY CountAssumption DEF Indexes
<1>2. index + 1 \in 1 .. Count /\ index + 1 - 1 = index /\ index \in 0 .. Count
  BY <1>1
<1>3. /\ Lines[index + 1] = Append(TrueValues(index), "\r")
      /\ WrittenMembers[index + 1] = WrittenMember(index)
  BY <1>2 DEF Lines, WrittenMembers
<1>4. Lines \in [1 .. Count -> Seq(Letters)] /\ WrittenMembers \in [1 .. Count -> Seq(Letters)]
  BY WrittenAre
<1>5. /\ Joined(Lines)[index + 1] = Joined(Lines)[index] \o Lines[index + 1]
      /\ Joined(Lines)[index] \in Seq(Letters)
  BY <1>2, <1>4, JoinedIs
<1>6. /\ Joined(WrittenMembers)[index + 1] = Joined(WrittenMembers)[index] \o WrittenMembers[index + 1]
      /\ Joined(WrittenMembers)[index] \in Seq(Letters)
  BY <1>2, <1>4, JoinedIs
<1> QED BY <1>3, <1>5, <1>6

(* What a call goes on to when the property is done.                         *)
LEMMA NextKeeps ==
    ASSUME VInv, pc = "got", call \in {"all", "json"}, NEW end, NextProperty(end),
           (call = "all" /\ end = "ready") \/ (call = "json" /\ end = "close"),
           UNCHANGED <<results, call>>, exception => exception'
    PROVE  /\ ListIsRead' /\ CallIsOn' /\ AnswerIsRead' /\ index \in Indexes
           /\ pc' \in {"get", "ready", "close"}
<1>1. index \in Indexes
  BY DEF VInv, WInv, CallIsOn
<1>2. index' \in Indexes /\ pc' \in {"get", end}
  BY <1>1, Advances
<1>3. pc' \in {"get", "ready", "close"}
  BY <1>2
<1> QED BY <1>1, <1>2, <1>3 DEF ListIsRead, CallIsOn, AnswerIsRead, Values

LEMMA Opening == <<"{">> \in Seq(Letters) /\ Len(<<"{">>) = 1
<1>1. "{" \in Letters
  BY DEF Letters
<1> QED BY <1>1, Single

LEMMA WriteStringsKeeps ==
    ASSUME IInv, VInv, WriteStrings
    PROVE  VInv'
<1>1. /\ NextProperty("ready") /\ pc = "got" /\ call = "all" /\ call' = call /\ results' = results
      /\ output' = output \o (IF IsUsable THEN list ELSE <<>>) \o <<"\r">> /\ exception' = exception
  BY DEF WriteStrings
<1>2. ListIsRead' /\ CallIsOn' /\ AnswerIsRead' /\ index \in Indexes
  BY <1>1, NextKeeps
<1>3. JsonIsRead'
  BY <1>1 DEF JsonIsRead
<1>4. AllIsRead'
  <2> SUFFICES ASSUME ~ exception PROVE AllIsRead'
    BY <1>1 DEF AllIsRead
  <2>1. IF found THEN list = TrueValues(index) ELSE TrueValues(index) = <<>>
    BY <1>1 DEF VInv, ListIsRead, IsWritten, HasAny
  <2>2. (IF IsUsable THEN list ELSE <<>>) = TrueValues(index)
    BY <2>1 DEF IsUsable
  <2>3. output = Joined(Lines)[index]
    BY <1>1 DEF VInv, WInv, AllIsRead, Reading
  <2>4. /\ TrueValues(index) \in Seq(Letters) /\ Joined(Lines)[index] \in Seq(Letters)
        /\ Joined(Lines)[index + 1] = Joined(Lines)[index] \o Append(TrueValues(index), "\r")
    BY <1>2, WrittenAre, JoinedNext DEF IInv
  <2>5. "\r" \in Letters
    BY DEF Letters
  <2>6. /\ <<"\r">> \in Seq(Letters)
        /\ Append(TrueValues(index), "\r") = TrueValues(index) \o <<"\r">>
    BY <2>4, <2>5, Single, Appended
  <2>7. output' = Joined(Lines)[index + 1]
    <3>1. output' = (Joined(Lines)[index] \o TrueValues(index)) \o <<"\r">>
      BY <1>1, <2>2, <2>3
    <3>2. (Joined(Lines)[index] \o TrueValues(index)) \o <<"\r">>
            = Joined(Lines)[index] \o (TrueValues(index) \o <<"\r">>)
      <4>1. PICK a \in Seq(Letters) : a = Joined(Lines)[index]
        BY <2>4
      <4>2. PICK b \in Seq(Letters) : b = TrueValues(index)
        BY <2>4
      <4>3. PICK c \in Seq(Letters) : c = <<"\r">>
        BY <2>6
      <4>4. (a \o b) \o c = a \o (b \o c)
        BY Associated
      <4> QED BY <4>1, <4>2, <4>3, <4>4
    <3> QED BY <2>4, <2>6, <3>1, <3>2
  <2>8. Lines' = Lines
    BY <1>1, ResultsKept
  <2>9. \/ index' = index + 1 /\ pc' = "get"
        \/ index + 1 = Count /\ index' = index /\ pc' = "ready"
    BY <1>1, <1>2, Advances
  <2>10. CASE index' = index + 1 /\ pc' = "get"
    BY <2>7, <2>8, <2>10 DEF AllIsRead
  <2>11. CASE index + 1 = Count /\ index' = index /\ pc' = "ready"
    BY <2>7, <2>8, <2>11 DEF AllIsRead, Reading
  <2> QED BY <2>9, <2>10, <2>11
<1> QED BY <1>2, <1>3, <1>4 DEF VInv, WInv

(* Members that were written, and the separator between them.                *)
LEMMA JsonNext ==
    ASSUME IInv, VInv, pc = "got", call = "json", NextProperty("close"),
           UNCHANGED <<results, call>>, exception => exception',
           ~ exception' => output' = output \o WrittenMember(index)
    PROVE  VInv'
<1>1. ListIsRead' /\ CallIsOn' /\ AnswerIsRead' /\ index \in Indexes
  BY NextKeeps
<1>2. AllIsRead'
  BY DEF AllIsRead
<1>3. JsonIsRead'
  <2> SUFFICES ASSUME ~ exception' PROVE JsonIsRead'
    BY DEF JsonIsRead
  <2>1. /\ output = <<"{">> \o Joined(WrittenMembers)[index]
        /\ output = <<"{">> <=> \A q \in 0 .. index - 1 : ~ IsWritten(q)
    BY DEF VInv, WInv, JsonIsRead, Reading
  <2>2. /\ Joined(WrittenMembers)[index] \in Seq(Letters)
        /\ Joined(WrittenMembers)[index + 1] = Joined(WrittenMembers)[index] \o WrittenMember(index)
    BY <1>1, JoinedNext DEF IInv
  <2>3. WrittenMember(index) \in Seq(Letters) /\ Len(WrittenMember(index)) \in Nat
        /\ (IsWritten(index) => Len(WrittenMember(index)) > 0)
        /\ (~ IsWritten(index) => WrittenMember(index) = <<>>)
    BY <1>1, WrittenAre DEF IInv
  <2>5. output' = <<"{">> \o Joined(WrittenMembers)[index + 1]
    <3>1. output' = (<<"{">> \o Joined(WrittenMembers)[index]) \o WrittenMember(index)
      BY <2>1
    <3>2. (<<"{">> \o Joined(WrittenMembers)[index]) \o WrittenMember(index)
            = <<"{">> \o (Joined(WrittenMembers)[index] \o WrittenMember(index))
      <4>1. PICK a \in Seq(Letters) : a = <<"{">>
        BY Opening
      <4>2. PICK b \in Seq(Letters) : b = Joined(WrittenMembers)[index]
        BY <2>2
      <4>3. PICK c \in Seq(Letters) : c = WrittenMember(index)
        BY <2>3
      <4>4. (a \o b) \o c = a \o (b \o c)
        BY Associated
      <4> QED BY <4>1, <4>2, <4>3, <4>4
    <3> QED BY <2>2, <3>1, <3>2
  <2>6. output \in Seq(Letters) /\ Len(output) >= 1 /\ Len(<<"{">>) = 1
    <3>1. Len(Joined(WrittenMembers)[index]) \in Nat
      BY <2>2
    <3>3. Len(<<"{">>) = 1
      BY Opening
    <3>2. Len(output) = Len(<<"{">>) + Len(Joined(WrittenMembers)[index]) /\ output \in Seq(Letters)
      BY <2>1, <2>2, Opening, Concatenated, Zenon
    <3>4. Len(output) = 1 + Len(Joined(WrittenMembers)[index])
      BY <3>2, <3>3
    <3>5. Len(output) >= 1
      BY <3>1, <3>4
    <3> QED BY <3>2, <3>3, <3>5
  <2>7. output' = <<"{">> <=> \A q \in 0 .. index : ~ IsWritten(q)
    <3>1. \A q \in 0 .. index : q \in 0 .. index - 1 \/ q = index
      BY <1>1 DEF Indexes
    <3>2. index \in 0 .. index /\ 0 .. index - 1 \subseteq 0 .. index
      BY <1>1 DEF Indexes
    <3>3. CASE IsWritten(index)
      <4>1. Len(output') = Len(output) + Len(WrittenMember(index))
        BY <2>3, <2>6, Concatenated
      <4>2. Len(output) \in Nat
        BY <2>6
      <4>4. Len(output') # 1
        BY <2>3, <2>6, <3>3, <4>1, <4>2
      <4>3. output' # <<"{">>
        BY <2>6, <4>4
      <4> QED BY <3>2, <3>3, <4>3
    <3>4. CASE ~ IsWritten(index)
      <4>1. output' = output
        BY <2>3, <2>6, <3>4, NothingAdded
      <4> QED BY <2>1, <3>1, <3>2, <3>4, <4>1
    <3> QED BY <3>3, <3>4
  <2>8. WrittenMembers' = WrittenMembers /\ \A q : IsWritten(q)' = IsWritten(q)
    BY ResultsKept
  <2>9. \/ index' = index + 1 /\ pc' = "get"
        \/ index + 1 = Count /\ index' = index /\ pc' = "close"
    BY <1>1, Advances
  <2>10. CASE index' = index + 1 /\ pc' = "get"
    <3>1. index' - 1 = index
      BY <1>1, <2>10 DEF Indexes
    <3>2. output' = <<"{">> <=> \A q \in 0 .. index' - 1 : ~ IsWritten(q)'
      BY <2>7, <2>8, <3>1
    <3>3. output' = <<"{">> \o Joined(WrittenMembers)'[index']
      BY <2>5, <2>8, <2>10
    <3> QED BY <2>8, <2>10, <3>2, <3>3 DEF JsonIsRead
  <2>11. CASE index + 1 = Count /\ index' = index /\ pc' = "close"
    BY <2>5, <2>8, <2>11 DEF JsonIsRead, Reading
  <2> QED BY <2>9, <2>10, <2>11
<1> QED BY <1>1, <1>2, <1>3 DEF VInv, WInv

LEMMA WriteMemberKeeps ==
    ASSUME IInv, VInv, WriteNothing \/ WriteProperty \/ WritePropertyFails
    PROVE  VInv'
<1>1. /\ pc = "got" /\ call = "json" /\ NextProperty("close")
      /\ UNCHANGED <<results, call>> /\ (exception => exception')
  BY DEF WriteNothing, WriteProperty, WritePropertyFails
<1>2. ASSUME ~ exception' PROVE output' = output \o WrittenMember(index)
  <2>1. ~ exception /\ (WriteNothing \/ WriteProperty)
    BY <1>1, <1>2 DEF WritePropertyFails
  <2>2. /\ index \in Indexes /\ (found <=> IsWritten(index)) /\ (found => list = TrueValues(index))
        /\ output = <<"{">> \o Joined(WrittenMembers)[index]
        /\ output = <<"{">> <=> \A q \in 0 .. index - 1 : ~ IsWritten(q)
    BY <1>1, <2>1 DEF VInv, WInv, ListIsRead, JsonIsRead, Reading
  <2>3. output \in Seq(Letters) /\ TrueValues(index) \in Seq(Letters) /\ <<NameOf[index]>> \in Seq(Letters)
    <3>1. NameOf[index] \in Letters
      BY <2>2 DEF Letters
    <3>2. PICK b \in Seq(Letters) : b = Joined(WrittenMembers)[index]
      BY <2>2, JoinedNext DEF IInv
    <3>3. <<"{">> \o b \in Seq(Letters)
      BY Opening, Concatenated
    <3> QED BY <2>2, <3>1, <3>2, <3>3, Single, WrittenAre DEF IInv
  <2>4. CASE WriteNothing
    <3>1. ~ IsWritten(index) /\ output' = output
      BY <2>1, <2>2, <2>4 DEF WriteNothing, IsUsable, returned
    <3>2. WrittenMember(index) = <<>>
      BY <3>1 DEF WrittenMember
    <3> QED BY <2>3, <3>1, <3>2, NothingAdded
  <2>5. CASE WriteProperty
    <3>1. /\ IsWritten(index) /\ list = TrueValues(index)
          /\ output' = ((output \o Separator) \o <<NameOf[index]>>) \o TrueValues(index)
      BY <2>1, <2>2, <2>5 DEF WriteProperty, IsUsable
    <3>2. Separator = IF \E q \in 0 .. index - 1 : IsWritten(q) THEN <<",">> ELSE <<>>
      BY <2>2 DEF Separator
    <3>3. WrittenMember(index) = (Separator \o <<NameOf[index]>>) \o TrueValues(index)
      BY <3>1, <3>2 DEF WrittenMember
    <3>4. Separator \in Seq(Letters)
      <4>1. "," \in Letters
        BY DEF Letters
      <4>2. <<",">> \in Seq(Letters)
        BY <4>1, Single
      <4>3. <<>> \in Seq(Letters)
        OBVIOUS
      <4> QED BY <4>2, <4>3 DEF Separator
    <3>5. PICK a \in Seq(Letters) : a = output
      BY <2>3
    <3>6. PICK b \in Seq(Letters) : b = Separator
      BY <3>4
    <3>7. PICK c \in Seq(Letters) : c = <<NameOf[index]>>
      BY <2>3
    <3>8. PICK d \in Seq(Letters) : d = TrueValues(index)
      BY <2>3
    <3>9. b \o c \in Seq(Letters) /\ ((a \o b) \o c) \o d = a \o ((b \o c) \o d)
      <4>1. b \o c \in Seq(Letters)
        BY Concatenated
      <4>2. (a \o b) \o c = a \o (b \o c)
        BY Associated
      <4>3. (a \o (b \o c)) \o d = a \o ((b \o c) \o d)
        BY <4>1, Associated
      <4> QED BY <4>1, <4>2, <4>3
    <3> QED BY <3>1, <3>3, <3>5, <3>6, <3>7, <3>8, <3>9
  <2> QED BY <2>1, <2>4, <2>5
<1> QED BY <1>1, <1>2, JsonNext

LEMMA CloseKeeps ==
    ASSUME IInv, VInv, CloseDocument
    PROVE  VInv'
<1>1. /\ pc = "close" /\ pc' = "ready" /\ call = "json"
      /\ output' = Append(output, "}")
      /\ UNCHANGED <<results, call, index, exception>>
  BY DEF CloseDocument, IInv, IndexIsRead
<1>2. ListIsRead' /\ CallIsOn' /\ AnswerIsRead' /\ AllIsRead'
  BY <1>1 DEF VInv, WInv, ListIsRead, CallIsOn, AnswerIsRead, AllIsRead, Reading, Values
<1>3. JsonIsRead'
  <2> SUFFICES ASSUME ~ exception
               PROVE  output' = (<<"{">> \o Joined(WrittenMembers)[Count]) \o <<"}">>
    BY <1>1, ResultsKept DEF JsonIsRead, Reading
  <2>1. output = <<"{">> \o Joined(WrittenMembers)[Count]
    BY <1>1 DEF VInv, WInv, JsonIsRead
  <2>2. PICK b \in Seq(Letters) : b = Joined(WrittenMembers)[Count]
    <3>1. Count \in 0 .. Count
      BY CountAssumption
    <3> QED BY <3>1, WrittenAre, JoinedIs DEF IInv
  <2>3. <<"{">> \o b \in Seq(Letters) /\ "}" \in Letters
    <3>1. "}" \in Letters
      BY DEF Letters
    <3> QED BY <3>1, Opening, Concatenated
  <2>4. Append(<<"{">> \o b, "}") = (<<"{">> \o b) \o <<"}">>
    BY <2>3, Appended
  <2> QED BY <1>1, <2>1, <2>2, <2>4
<1> QED BY <1>2, <1>3 DEF VInv, WInv

(* The answer of GetValues, of HasValues, and of NoValueReason.              *)
LEMMA ReturnKeeps ==
    ASSUME IInv, VInv, ReturnValues \/ HasValuesUnread \/ HasValuesRead
    PROVE  VInv'
<1>1. /\ pc \in {"got", "has values"} /\ pc' = "ready"
      /\ call \in Values \cup {"has values"}
      /\ UNCHANGED <<results, call, index, exception>>
  BY DEF ReturnValues, HasValuesUnread, HasValuesRead, Return, VInv, WInv, CallIsOn, Values
<1>2. call \notin {"all", "json", "reason"}
  BY <1>1 DEF Values
<1>3. ListIsRead' /\ CallIsOn' /\ AllIsRead' /\ JsonIsRead'
  BY <1>1, <1>2 DEF ListIsRead, CallIsOn, AllIsRead, JsonIsRead, Reading
<1>4. AnswerIsRead'
  <2> SUFFICES ASSUME ~ exception, index \in Indexes
               PROVE  /\ call \in Values => output' = TrueValues(index)
                      /\ call = "has values" => answer' = (TrueValues(index) # <<>>)
    BY <1>1, ResultsKept DEF AnswerIsRead
  <2>1. CASE ReturnValues
    <3>1. /\ found <=> IsWritten(index)
          /\ found => list = TrueValues(index)
          /\ output' = IF found THEN list ELSE <<>>
          /\ call # "has values"
      BY <2>1 DEF ReturnValues, IsUsable, VInv, ListIsRead
    <3>2. ~ found => TrueValues(index) = <<>>
      BY <3>1 DEF IsWritten, HasAny
    <3> QED BY <3>1, <3>2
  <2>2. CASE HasValuesUnread
    <3>1. call = "has values" /\ HasOverride(index) /\ answer' = TRUE
      BY <2>2 DEF HasValuesUnread, Return, VInv, WInv, CallIsOn
    <3>2. TrueValues(index) # <<>>
      BY <3>1 DEF TrueValues, HasOverride
    <3> QED BY <3>1, <3>2 DEF Values
  <2>3. CASE HasValuesRead
    <3>1. /\ call = "has values" /\ ~ HasOverride(index)
          /\ answer' = HasValuesIn(Selected(index), index)
      BY <2>3 DEF HasValuesRead, Return, VInv, WInv, CallIsOn
    <3>2. CASE ProfileIn(Selected(index), index) = Null
      BY <3>1, <3>2 DEF TrueValues, HasValuesIn, Values
    <3>3. CASE ProfileIn(Selected(index), index) # Null
      <4>1. TrueValues(index) # <<>> /\ answer' = TRUE
        BY <3>1, <3>3, SelectedIsEarned DEF TrueValues, HasValuesIn, IInv
      <4> QED BY <3>1, <4>1 DEF Values
    <3> QED BY <3>2, <3>3
  <2> QED BY <2>1, <2>2, <2>3
<1> QED BY <1>3, <1>4 DEF VInv, WInv

-----------------------------------------------------------------------------
(* The list within GetValues.                                                *)

(* The values that the iteration comes across.                               *)
LEMMA IteratedValues ==
    ASSUME IInv, pc = "iterate"
    PROVE  /\ ProfileValues \in Seq(STRING) /\ Len(ProfileValues) \in Nat
           /\ profileItem # Null /\ visited \in Nat /\ capacity \in Nat \ {0} /\ index \in Indexes
<1>1. profileItem \in DOMAIN ValuesOf /\ index \in Indexes
  BY DEF IInv, TypeOK, ProfileIsHeld, IndexIsRead
<1>2. ProfileValues \in Seq(STRING)
  BY <1>1, ValuesAssumption DEF ProfileValues
<1> QED BY <1>1, <1>2 DEF IInv, TypeOK, Shapes, ProfileIsHeld

LEMMA SelectKeeps ==
    ASSUME IInv, VInv, GetOverride \/ GetProperty \/ SelectNoProfile \/ SelectProfile
    PROVE  VInv'
<1>1. /\ UNCHANGED <<results, call, index, output, exception>>
      /\ pc \in {"get", "select"} /\ pc' \in {"select", "iterate", "got"}
  BY DEF GetOverride, GetProperty, SelectNoProfile, SelectProfile, Got, returned
<1>2. WInv'
  <2>1. pc \in Reading /\ pc' \in Reading
    BY <1>1 DEF Reading
  <2> QED BY <1>1, <2>1, WithinKeeps DEF VInv
<1>3. ListIsRead'
  <2>1. CASE GetOverride
    <3>1. /\ pc' = "got" /\ found' = TRUE /\ list' = TrueValues(index)
          /\ HasOverride(index)
      BY <2>1 DEF GetOverride, Got, TrueValues
    <3>2. TrueValues(index) # <<>> /\ index \in Indexes
      BY <3>1 DEF TrueValues, HasOverride
    <3> QED BY <1>1, <3>1, <3>2, ResultsKept DEF ListIsRead, IsWritten, HasAny
  <2>2. CASE GetProperty
    BY <1>1, <2>2, ResultsKept DEF GetProperty, ListIsRead
  <2>3. CASE SelectNoProfile
    <3>1. /\ pc' = "got" /\ (found' <=> Selected(index) # 0) /\ list' = list /\ list = <<>>
          /\ ~ HasOverride(index) /\ ProfileIn(Selected(index), index) = Null
      BY <2>3 DEF SelectNoProfile, Got, held, VInv, ListIsRead
    <3>2. TrueValues(index) = <<>> /\ (IsWritten(index) <=> Selected(index) # 0)
      BY <3>1 DEF TrueValues, IsWritten, HasAny, TakenWithoutProfile
    <3>3. index \in Indexes
      BY <2>3 DEF SelectNoProfile, IInv, IndexIsRead
    <3> QED BY <1>1, <3>1, <3>2, <3>3, ResultsKept DEF ListIsRead
  <2>4. CASE SelectProfile
    <3>1. /\ pc' = "iterate" /\ list' = list /\ list = <<>> /\ ~ exception /\ ~ HasOverride(index)
          /\ profileItem' = ProfileIn(Selected(index), index) /\ visited' = 0 /\ grown' = FALSE
          /\ profileItem' # Null /\ index \in Indexes /\ capacity' = capacity
      BY <2>4 DEF SelectProfile, VInv, ListIsRead, IInv, IndexIsRead
    <3>2. ProfileValues' \in Seq(STRING) /\ capacity \in Nat \ {0}
      <4>1. profileItem' \in DOMAIN ValuesOf
        BY <3>1, SelectedProfile DEF IInv
      <4> QED BY <1>1, <3>1, <4>1, ValuesAssumption DEF ProfileValues, IInv, Shapes
    <3>3. Len(ProfileValues') >= 0
      BY <3>2
    <3>4. IsFirst(list', ProfileValues', IF visited' < capacity' THEN visited' ELSE capacity')
      <4>1. (IF visited' < capacity' THEN visited' ELSE capacity') = 0
        BY <3>1, <3>2
      <4>2. Len(list') = 0
        BY <3>1
      <4> QED BY <4>1, <4>2 DEF IsFirst
    <3>5. profileItem' = ProfileIn(Selected(index), index)' /\ HasOverride(index)' = HasOverride(index)
      BY <1>1, <3>1, ResultsKept, ProfileKept
    <3>6. visited' <= Len(ProfileValues')
      BY <3>1, <3>3
    <3> QED BY <1>1, <3>1, <3>4, <3>5, <3>6 DEF ListIsRead
  <2> QED BY <2>1, <2>2, <2>3, <2>4
<1> QED BY <1>2, <1>3 DEF VInv

LEMMA IterateKeeps ==
    ASSUME IInv, VInv, AddValue \/ GrowList \/ IterationEnds
    PROVE  VInv'
<1>1. /\ UNCHANGED <<results, call, index, output, exception>>
      /\ pc = "iterate" /\ pc' \in {"iterate", "got"}
  BY DEF AddValue, GrowList, IterationEnds, Got, returned
<1>2. WInv'
  <2>1. pc \in Reading /\ pc' \in Reading
    BY <1>1 DEF Reading
  <2> QED BY <1>1, <2>1, WithinKeeps DEF VInv
<1> DEFINE fitted == IF visited < capacity THEN visited ELSE capacity
<1>3. /\ ~ exception /\ ~ HasOverride(index)
      /\ profileItem = ProfileIn(Selected(index), index)
      /\ visited <= Len(ProfileValues)
      /\ grown => Len(ProfileValues) <= capacity
      /\ IsFirst(list, ProfileValues, fitted)
  BY <1>1 DEF VInv, ListIsRead
<1>4. /\ ProfileValues \in Seq(STRING) /\ Len(ProfileValues) \in Nat /\ list \in Seq(STRING)
      /\ profileItem # Null /\ visited \in Nat /\ capacity \in Nat \ {0} /\ index \in Indexes
      /\ Len(list) \in Nat
  BY <1>1, IteratedValues, Numbers
<1>5. /\ ProfileIn(Selected(index), index)' = ProfileIn(Selected(index), index)
      /\ HasOverride(index)' = HasOverride(index)
  BY <1>1, ResultsKept, ProfileKept
<1>6. CASE AddValue
  <2>1. /\ pc' = "iterate" /\ visited' = visited + 1 /\ visited < Len(ProfileValues)
        /\ profileItem' = profileItem /\ capacity' = capacity /\ grown' = grown
        /\ list' = IF Len(list) < capacity THEN Append(list, ProfileValues[visited + 1]) ELSE list
    BY <1>1, <1>6 DEF AddValue
  <2>2. ProfileValues' = ProfileValues
    BY <1>1, <2>1 DEF ProfileValues
  <2>3. IsFirst(list', ProfileValues, IF visited' < capacity THEN visited' ELSE capacity)
    <3>1. ProfileValues[visited + 1] \in STRING
      BY <1>4, <2>1
    <3>2. CASE Len(list) < capacity
      <4>1. fitted = visited /\ Len(list) = visited
        BY <1>3, <1>4, <3>2 DEF IsFirst
      <4>2. /\ Len(list') = visited + 1 /\ list'[visited + 1] = ProfileValues[visited + 1]
            /\ \A k \in 1 .. visited : list'[k] = list[k]
        BY <1>4, <2>1, <3>1, <3>2, <4>1
      <4>3. \A k \in 1 .. visited + 1 : list'[k] = ProfileValues[k]
        <5>1. \A k \in 1 .. visited : list[k] = ProfileValues[k]
          BY <1>3, <4>1 DEF IsFirst
        <5>2. \A k \in 1 .. visited + 1 : k \in 1 .. visited \/ k = visited + 1
          BY <1>4
        <5> QED BY <4>2, <5>1, <5>2
      <4>4. (IF visited' < capacity THEN visited' ELSE capacity) = visited + 1
        BY <1>4, <2>1, <3>2, <4>1
      <4> QED BY <4>2, <4>3, <4>4 DEF IsFirst
    <3>3. CASE ~ (Len(list) < capacity)
      <4>1. fitted = capacity /\ list' = list
        BY <1>3, <1>4, <2>1, <3>3 DEF IsFirst
      <4>2. (IF visited' < capacity THEN visited' ELSE capacity) = capacity
        <5>1. ~ (visited < capacity)
          BY <1>3, <1>4, <3>3 DEF IsFirst
        <5> QED BY <1>4, <2>1, <5>1
      <4> QED BY <1>3, <4>1, <4>2
    <3> QED BY <3>2, <3>3
  <2>4. visited' <= Len(ProfileValues)
    BY <1>4, <2>1
  <2> QED BY <1>1, <1>2, <1>3, <1>5, <2>1, <2>2, <2>3, <2>4 DEF VInv, ListIsRead
<1>7. CASE GrowList
  <2>1. /\ pc' = "iterate" /\ visited' = 0 /\ visited = Len(ProfileValues) /\ capacity' = visited
        /\ grown' = TRUE /\ list' = <<>> /\ profileItem' = profileItem
    BY <1>1, <1>7 DEF GrowList
  <2>2. ProfileValues' = ProfileValues
    BY <1>1, <2>1 DEF ProfileValues
  <2>3. IsFirst(list', ProfileValues, IF visited' < capacity' THEN visited' ELSE capacity')
    <3>1. (IF visited' < capacity' THEN visited' ELSE capacity') = 0
      BY <1>4, <2>1
    <3>2. Len(list') = 0
      BY <2>1
    <3> QED BY <3>1, <3>2 DEF IsFirst
  <2>4. visited' <= Len(ProfileValues) /\ Len(ProfileValues) <= capacity'
    BY <1>4, <2>1
  <2> QED BY <1>1, <1>2, <1>3, <1>5, <2>1, <2>2, <2>3, <2>4 DEF VInv, ListIsRead
<1>8. CASE IterationEnds
  <2>1. /\ pc' = "got" /\ found' = TRUE /\ list' = list /\ visited = Len(ProfileValues)
        /\ visited <= Len(list) \/ grown
    BY <1>8 DEF IterationEnds, Got, ReleaseProfile
  <2>2. Len(list) = Len(ProfileValues) /\ \A k \in 1 .. Len(list) : list[k] = ProfileValues[k]
    <3>1. Len(list) = fitted
      BY <1>3 DEF IsFirst
    <3>2. fitted = visited
      BY <1>3, <1>4, <2>1, <3>1
    <3> QED BY <1>3, <2>1, <3>1, <3>2 DEF IsFirst
  <2>3. list = ProfileValues
    BY <1>4, <2>2
  <2>4. TrueValues(index) = ProfileValues
    BY <1>3, <1>4 DEF TrueValues, ProfileValues
  <2>5. ProfileValues # <<>>
    BY <1>3, <1>4, SelectedIsEarned DEF ProfileValues, IInv
  <2>6. IsWritten(index)
    BY <2>4, <2>5 DEF IsWritten, HasAny
  <2> QED BY <1>1, <1>2, <1>4, <2>1, <2>3, <2>4, <2>6, ResultsKept DEF VInv, ListIsRead
<1> QED BY <1>6, <1>7, <1>8

(* A call that fails.                                                        *)
LEMMA FailKeeps ==
    ASSUME VInv, UNCHANGED <<results, call, index, output>>, exception',
           pc \in Reading, pc' = "got"
    PROVE  VInv'
<1>1. WInv'
  BY WithinKeeps DEF VInv, Reading
<1>2. ListIsRead'
  BY DEF ListIsRead
<1> QED BY <1>1, <1>2 DEF VInv

(* A step of NoValueReason, or one after which there is no answer.           *)
LEMMA ReasonKeeps ==
    ASSUME VInv, UNCHANGED <<results, call, index>>,
           \/ pc \in {"reason", "reason again"} /\ pc' \in {"reason again", "ready", "crashed"}
           \/ pc' \in {"crashed", "freed"}
    PROVE  VInv'
<1>1. /\ pc' \in {"reason again", "ready", "crashed", "freed"}
      /\ pc' \in {"reason again", "ready"} => call = "reason"
      /\ call \in {"all", "json"} => index \in Indexes
  BY DEF VInv, WInv, CallIsOn
<1>2. ListIsRead' /\ CallIsOn'
  BY <1>1 DEF ListIsRead, CallIsOn, Reading
<1>3. AnswerIsRead'
  BY <1>1 DEF AnswerIsRead, Values
<1>4. AllIsRead' /\ JsonIsRead'
  BY <1>1 DEF AllIsRead, JsonIsRead, Reading
<1> QED BY <1>2, <1>3, <1>4 DEF VInv, WInv

LEMMA InitRead == Init => VInv
<1> SUFFICES ASSUME Init PROVE VInv
  OBVIOUS
<1>1. pc = "ready" /\ call = "create"
  BY DEF Init
<1>2. ListIsRead /\ CallIsOn /\ AnswerIsRead /\ AllIsRead /\ JsonIsRead
  BY <1>1 DEF ListIsRead, CallIsOn, AnswerIsRead, AllIsRead, JsonIsRead, Reading, Values
<1> QED BY <1>2 DEF VInv, WInv

LEMMA NextRead == IInv /\ VInv /\ [Next]_vars => VInv'
<1> SUFFICES ASSUME IInv, VInv, [Next]_vars PROVE VInv'
  OBVIOUS
<1>1. ASSUME NEW p \in Asked, AskHasValues(p) \/ AskReason(p)
      PROVE  VInv'
  BY <1>1, CallKeeps DEF AskHasValues, AskReason
<1>2. ASSUME NEW f \in {"values", "vector", "string"}, NEW p \in Asked, AskValues(f, p)
      PROVE  VInv'
  BY <1>2, CallKeeps DEF AskValues, Values
<1>3. CASE AskUnknownName
  <2>1. NoProperty \in Asked /\ NoProperty \notin Indexes /\ "string" \in Values
    BY CountAssumption DEF Asked, NoProperty, Indexes, Values
  <2> QED BY <1>3, <2>1, CallKeeps DEF AskUnknownName
<1>4. CASE AskAll \/ AskJson
  <2>1. 0 \in Asked
    BY CountAssumption DEF Asked
  <2> QED BY <1>4, <2>1, CallKeeps DEF AskAll, AskJson
<1>5. CASE HasValuesUnread \/ HasValuesRead \/ ReturnValues
  BY <1>5, ReturnKeeps
<1>6. CASE HasValuesFails \/ ReasonUnread \/ ReasonSelect \/ ReasonRead \/ ReasonFails \/ Free
  BY <1>6, ReasonKeeps DEF HasValuesFails, ReasonUnread, ReasonSelect, ReasonRead, ReasonFails, Free, Return
<1>7. CASE GetOverride \/ GetProperty \/ SelectNoProfile \/ SelectProfile
  BY <1>7, SelectKeeps
<1>8. CASE GetNothing \/ GetPropertyFails \/ SelectProfileFails \/ AddValueFails
  <2>1. pc \in Reading /\ pc' = "got" /\ exception' /\ UNCHANGED <<results, call, index, output>>
    BY <1>8 DEF GetNothing, GetPropertyFails, SelectProfileFails, AddValueFails, Got, Reading, returned
  <2> QED BY <2>1, FailKeeps
<1>9. CASE AddValue \/ GrowList \/ IterationEnds
  BY <1>9, IterateKeeps
<1>10. CASE WriteStrings
  BY <1>10, WriteStringsKeeps
<1>11. CASE WriteNothing \/ WriteProperty \/ WritePropertyFails
  BY <1>11, WriteMemberKeeps
<1>12. CASE CloseDocument
  BY <1>12, CloseKeeps
<1>13. CASE UNCHANGED vars
  <2>1. /\ UNCHANGED <<results, call, index, pc, profileItem, list, capacity, visited, grown, found>>
        /\ UNCHANGED <<exception, answer, output>>
    BY <1>13 DEF vars, held, reading, returned
  <2>2. ProfileValues' = ProfileValues
    BY <2>1 DEF ProfileValues
  <2>3. ListIsRead'
    BY <2>1, <2>2, ResultsKept, ProfileKept DEF VInv, ListIsRead
  <2>4. CallIsOn' /\ AnswerIsRead' /\ AllIsRead'
    BY <2>1, ResultsKept DEF VInv, WInv, CallIsOn, AnswerIsRead, AllIsRead
  <2>5. JsonIsRead'
    BY <2>1, ResultsKept DEF VInv, WInv, JsonIsRead
  <2> QED BY <2>3, <2>4, <2>5 DEF VInv, WInv
<1> QED BY <1>1, <1>2, <1>3, <1>4, <1>5, <1>6, <1>7, <1>8, <1>9, <1>10, <1>11, <1>12, <1>13
        DEF Next

LEMMA SpecRead == Spec => [](IInv /\ VInv)
BY InitInvariant, NextInvariant, InitRead, NextRead, PTL DEF Spec

(* What is given is what there is: the values of the property and no other,  *)
(* in their order, for one property and for all of them, and HasValues tells *)
(* whether there is any.                                                     *)
THEOREM AllValuesAreGiven == Spec => []ValuesAreComplete
<1>1. ASSUME IInv, VInv PROVE ValuesAreComplete
  <2>1. AnswerIsRead /\ AllIsRead
    BY <1>1 DEF VInv, WInv
  <2>2. FlattenSeq(Lines) = Joined(Lines)[Count]
    BY <1>1, WrittenAre, JoinedIs DEF IInv
  <2> QED BY <2>1, <2>2 DEF ValuesAreComplete, Done, AnswerIsRead, AllIsRead, Values
<1> QED BY <1>1, SpecRead, PTL

(* Where no property is taken without a profile, the document is written as  *)
(* it should be.                                                             *)
LEMMA MembersAreWritten ==
    ASSUME Count \in Nat, \A p \in Indexes : ~ TakenWithoutProfile(p)
    PROVE  Members = WrittenMembers
<1>1. \A p \in Indexes : IsWritten(p) <=> HasAny(p)
  BY DEF IsWritten
<1>2. ASSUME NEW p \in Indexes PROVE Member(p) = WrittenMember(p)
  <2>1. \A q \in 0 .. p - 1 : q \in Indexes
    BY DEF Indexes
  <2>2. (\E q \in 0 .. p - 1 : IsWritten(q)) <=> (\E q \in 0 .. p - 1 : HasAny(q))
    BY <1>1, <2>1
  <2> QED BY <1>1, <2>2 DEF Member, WrittenMember
<1>3. ASSUME NEW n \in 1 .. Count PROVE Member(n - 1) = WrittenMember(n - 1)
  <2>1. n - 1 \in Indexes
    BY DEF Indexes
  <2> QED BY <1>2, <2>1
<1> QED BY <1>3 DEF Members, WrittenMembers

(* The document is that of the properties that have values, with a comma     *)
(* before each but the first of them; unless a property is taken from a      *)
(* result that has no profile for it, whose name is then written with no     *)
(* value.                                                                    *)
THEOREM DocumentIsOfProperties == Spec => []JsonIsOfProperties
<1>1. ASSUME IInv, VInv PROVE JsonIsOfProperties
  <2> SUFFICES ASSUME Done("json"), \A p \in Indexes : ~ TakenWithoutProfile(p)
               PROVE  output = <<"{">> \o FlattenSeq(Members) \o <<"}">>
    BY DEF JsonIsOfProperties
  <2>1. JsonIsRead
    BY <1>1 DEF VInv, WInv
  <2>2. FlattenSeq(WrittenMembers) = Joined(WrittenMembers)[Count]
    BY <1>1, WrittenAre, JoinedIs DEF IInv
  <2>3. Members = WrittenMembers
    BY MembersAreWritten, CountAssumption
  <2>4. output = (<<"{">> \o Joined(WrittenMembers)[Count]) \o <<"}">>
    BY <2>1 DEF Done, JsonIsRead
  <2> QED BY <2>2, <2>3, <2>4
<1> QED BY <1>1, SpecRead, PTL
=============================================================================
