--------------------------- MODULE SpecialEvidence ---------------------------
(***************************************************************************)
(* What a detection does with the evidence that stands for several headers *)
(* (src/hash/hash.c, setSpecialHeaders and its callback): each query or    *)
(* cookie pair that is a getHighEntropyValues result or a device.sua is    *)
(* transformed into pairs of the evidence until one transform succeeds.    *)
(* All transforms of a detection write to one buffer of the results.       *)
(*                                                                         *)
(* Before that, gethighentropyvalues.c collects from the data set the      *)
(* headers that must be present for the detection to be complete, and      *)
(* after it, checks whether they are.  A failure to read the data set      *)
(* leaves the data set unusable.                                           *)
(***************************************************************************)
EXTENDS Transform, Descent

CONSTANTS
  Evidence,    \* what callers provide: sequences of pairs [prefix, name, kind,
               \* text, pairs]; the last three are of a special pair, whose
               \* name is "ghev" or "sua", and pairs are the headers it stands
               \* for
  Known,       \* uniqueHeaders: the headers of the data set
  Properties,  \* the properties of the data set: [acceptCh, values], a value
               \* being the sequence of its segments
  BufferLength \* bufferTransformLength

\* "NULL" is the header of a pair that has none.
ASSUME KnownAssumption == Known \subseteq STRING /\ "NULL" \notin Known
ASSUME PropertiesAssumption ==
  Properties \in Seq([acceptCh : BOOLEAN, values : Seq(Seq(STRING))])
ASSUME BufferAssumption == BufferLength \in Nat
ASSUME EvidenceAssumption ==
  Evidence \subseteq
    Seq([prefix : STRING, name : STRING, kind : STRING, text : Seq(STRING),
         pairs : Seq([key : STRING, text : Seq(STRING)]), whole : BOOLEAN])

VARIABLES
  required,    \* JavascriptGetHighEntropyValues is an available property
  capacity,    \* of ghevHeaders
  ghevHeaders, \* or NoArray
  count,       \* what the second iteration counted
  evidence,    \* the pairs, with the ones added
  index,       \* of the pair, or of the property
  old,         \* the buffer before the transform
  lastSet,     \* the pairs set by the last transform
  overridden,  \* the JavaScript is overridden with no value
  stage

vars == <<parse, required, capacity, ghevHeaders, count, evidence, index,
          old, lastSet, overridden, stage>>

init == <<required, capacity, ghevHeaders, count>>
detection == <<evidence, old, lastSet, overridden>>

NoArray == <<"NULL">>
Garbage == "garbage"
Own == [type |-> "own"]

\* The buffer as it is now.
Buffer == [p \in 1 .. BufferLength |->
             IF p <= Current(Len(out)) THEN out[p] ELSE old[p]]
InBuffer(p) == IF p \in 1 .. BufferLength THEN Buffer[p] ELSE Garbage

Init ==
  /\ kind = "none"
  /\ text = <<>>
  /\ length = BufferLength
  /\ at = 1
  /\ out = <<>>
  /\ status = "NOT_SET"
  /\ cache = [h \in HeaderSet |-> NoValue]
  /\ key = Undefined
  /\ begin = 0
  /\ ptr = 0
  /\ named = FALSE
  /\ iterations = 0
  /\ pc = "none"
  /\ required \in BOOLEAN
  /\ capacity = 0
  /\ ghevHeaders = NoArray
  /\ count = 0
  /\ \E e \in Evidence :
       evidence = [i \in DOMAIN e |->
                     [prefix |-> e[i].prefix, name |-> e[i].name, place |-> 0,
                      value |-> Own, header |-> "NULL", from |-> e[i]]]
  /\ index = 1
  /\ old = [p \in 1 .. BufferLength |-> Garbage]
  /\ lastSet = {}
  /\ overridden = FALSE
  /\ stage = "count"

-----------------------------------------------------------------------------
(* GhevDeviceDetectionInit.                                                *)

\* iterateProperties over one property, as the number of segments or as the
\* segments in their order.
Segments(property) ==
  LET values == property.values
      join[n \in 0 .. Len(values)] ==
        IF n = 0 THEN <<>> ELSE join[n - 1] \o values[n]
  IN IF property.acceptCh THEN join[Len(values)] ELSE <<>>

(* Mutant: a header is added for each of its values.                       *)
WithHeadersAgain(names) ==
  LET known(h) == h \in Known IN ghevHeaders \o SelectSeq(names, known)

\* addHeaderCallback for each name: a header is added once, if it is known.
WithHeaders(names) ==
  LET add[n \in 0 .. Len(names)] ==
        IF n = 0 THEN ghevHeaders
        ELSE IF /\ names[n] \in Known
                /\ \A i \in DOMAIN add[n - 1] : add[n - 1][i] # names[n]
             THEN Append(add[n - 1], names[n])
             ELSE add[n - 1]
  IN add[Len(names)]

NotRequired ==
  /\ stage = "count"
  /\ ~required
  /\ stage' = "scan"
  /\ UNCHANGED <<parse, init, index, detection>>

CountProperty ==
  /\ stage = "count"
  /\ required /\ index \in DOMAIN Properties
  /\ capacity' = capacity + Len(Segments(Properties[index]))
  /\ index' = index + 1
  /\ UNCHANGED <<parse, required, ghevHeaders, count, detection, stage>>

CreateArray ==
  /\ stage = "count"
  /\ required /\ index \notin DOMAIN Properties
  /\ index' = 1
  /\ IF capacity = 0
     THEN /\ stage' = "scan"
          /\ UNCHANGED ghevHeaders
     ELSE \/ /\ stage' = "add"
             /\ ghevHeaders' = <<>>
          \/ /\ stage' = "failed"
             /\ UNCHANGED ghevHeaders
  /\ UNCHANGED <<parse, required, capacity, count, detection>>

AddProperty ==
  /\ stage = "add"
  /\ index \in DOMAIN Properties
  /\ ghevHeaders' = WithHeaders(Segments(Properties[index]))
  /\ count' = count + Len(Segments(Properties[index]))
  /\ index' = index + 1
  /\ UNCHANGED <<parse, required, capacity, detection, stage>>

Added ==
  /\ stage = "add"
  /\ index \notin DOMAIN Properties
  /\ index' = 1
  /\ stage' = "scan"
  /\ UNCHANGED <<parse, init, detection>>

\* A property, a value or a string cannot be read: both iterations end with
\* the first exception.
ReadFails ==
  /\ stage \in {"count", "add"}
  /\ required /\ index \in DOMAIN Properties
  /\ stage' = "failed"
  /\ UNCHANGED <<parse, init, index, detection>>

-----------------------------------------------------------------------------
(* resultsHashFromEvidence_setSpecialHeaders.                              *)

IsSpecial(pair) ==
  pair.prefix \in {"query", "cookie"} /\ pair.name \in {"ghev", "sua"}

NextPair ==
  /\ stage = "scan"
  /\ index \in DOMAIN evidence
  /\ ~IsSpecial(evidence[index])
  /\ index' = index + 1
  /\ UNCHANGED <<parse, init, detection, stage>>

TransformPair ==
  /\ stage = "scan"
  /\ index \in DOMAIN evidence
  /\ IsSpecial(evidence[index])
  /\ LET pair == evidence[index].from
     IN Start(pair.kind, pair.text, BufferLength)
  /\ old' = Buffer
  /\ lastSet' = {}
  /\ stage' = "transform"
  /\ UNCHANGED <<init, evidence, index, overridden>>

Transforming ==
  /\ stage = "transform"
  /\ Parse
  /\ UNCHANGED <<init, index, detection, stage>>

\* setSpecialHeadersFindCallback: the names of pairs that were added are in
\* the buffer.
NameOf(pair) == IF pair.place = 0 THEN pair.name ELSE InBuffer(pair.place)

Matching(h) ==
  {i \in DOMAIN evidence :
     evidence[i].name = h /\ NameOf(evidence[i]) = InBuffer(KeyPosition(h))}

\* HeaderGetIndex, for a name that is read from the buffer: it is as long as
\* it was when it was written, and names of different headers differ in
\* length, so that it is the name of that header or of none.
HeaderOf(name, read) ==
  IF read = name /\ name \in Known THEN name ELSE "NULL"

\* setSpecialHeadersCallback.
SetSpecialHeader ==
  /\ stage = "transform"
  /\ pc = "callback"
  /\ LET found == Matching(key)
         i == IF found = {} THEN Len(evidence) + 1
              ELSE CHOOSE j \in found : \A n \in found : j <= n
         pair == IF found # {} THEN evidence[i]
                 ELSE [prefix |-> "header", name |-> key,
                       place |-> KeyPosition(key), value |-> Own,
                       header |-> "NULL", from |-> Own]
         value == [type |-> "buffer", null |-> Pair.value.null,
                   from |-> Pair.value.from, length |-> Pair.value.length,
                   text |-> Content(Pair.value)]
         header == IF pair.header # "NULL" THEN pair.header
                   ELSE HeaderOf(pair.name, InBuffer(KeyPosition(key)))
     IN /\ evidence' = [n \in DOMAIN evidence \cup {i} |->
                          IF n # i THEN evidence[n]
                          ELSE [pair EXCEPT !.value = value,
                                            !.header = header]]
        /\ lastSet' = lastSet \cup {i}
  /\ Resume(TRUE)
  /\ UNCHANGED <<init, index, old, overridden, stage>>

(* Mutant: a transform that ends with an exception is taken for a success. *)
SucceededInPart == iterations > 0

Succeeded == iterations > 0 /\ status = "NOT_SET"

(* Mutant: a pair whose transform failed is tried again.                   *)
EndTransformAgain ==
  /\ stage = "transform"
  /\ pc = "returned"
  /\ stage' = IF Succeeded THEN "headers" ELSE "scan"
  /\ UNCHANGED <<parse, init, index, detection>>

EndTransform ==
  /\ stage = "transform"
  /\ pc = "returned"
  /\ stage' = IF Succeeded THEN "headers" ELSE "scan"
  /\ index' = IF Succeeded THEN index ELSE index + 1
  /\ UNCHANGED <<parse, init, detection>>

EndScan ==
  /\ stage = "scan"
  /\ index \notin DOMAIN evidence
  /\ stage' = "headers"
  /\ UNCHANGED <<parse, init, index, detection>>

\* setEvidenceHeader: pairs that have no header yet.
SetEvidenceHeaders ==
  /\ stage = "headers"
  /\ evidence' = [i \in DOMAIN evidence |->
                    [evidence[i] EXCEPT
                       !.header =
                         IF @ # "NULL" THEN @
                         ELSE HeaderOf(evidence[i].name, NameOf(evidence[i]))]]
  /\ stage' = "evaluate"
  /\ UNCHANGED <<parse, init, index, old, lastSet, overridden>>

(* Mutant: any of the headers is enough.                                   *)
AnyPresent ==
  /\ ghevHeaders # NoArray
  /\ \E i \in DOMAIN ghevHeaders : \E j \in DOMAIN evidence :
       evidence[j].header = ghevHeaders[i]

\* GhevDeviceDetectionAllPresent, with the evidence of every prefix.
AllPresent ==
  /\ ghevHeaders # NoArray
  /\ Cardinality({i \in DOMAIN ghevHeaders :
                    \E j \in DOMAIN evidence :
                      evidence[j].header = ghevHeaders[i]})
       = Len(ghevHeaders)

Override ==
  /\ stage = "evaluate"
  /\ overridden' = AllPresent
  /\ stage' = "done"
  /\ UNCHANGED <<parse, init, evidence, index, old, lastSet>>

Next ==
  \/ NotRequired \/ CountProperty \/ CreateArray \/ AddProperty \/ Added
  \/ ReadFails
  \/ NextPair \/ TransformPair \/ Transforming \/ SetSpecialHeader
  \/ EndTransform \/ EndScan
  \/ SetEvidenceHeaders \/ Override

Spec == Init /\ [][Next]_vars /\ WF_vars(Next)

-----------------------------------------------------------------------------
(* What a reader of the evidence finds in the buffer.                      *)
Holds(value) ==
  [p \in 1 .. value.length |-> InBuffer(value.from + p)]

ValueIsIntact(pair) ==
  pair.value.type = "buffer" /\ ~pair.value.null =>
    Holds(pair.value) = pair.value.text

\* The names fit, and the pair was added by the last transform.
NameIsIntact(pair) ==
  KeyPosition(Headers[8]) <= Room /\ pair.place = KeyPosition(pair.name) =>
    InBuffer(pair.place) = pair.name

(***************************************************************************)
(* The array of headers is never overrun, holds no header twice, and once  *)
(* complete it holds every known header among the segments of the values;  *)
(* then the two iterations counted the same (the assertion of              *)
(* GhevDeviceDetectionInit).                                               *)
(***************************************************************************)
GhevHeadersFit ==
  ghevHeaders # NoArray =>
    /\ Len(ghevHeaders) <= capacity
    /\ \A i, j \in DOMAIN ghevHeaders :
         i # j => ghevHeaders[i] # ghevHeaders[j]
    /\ stage \notin {"count", "add", "failed"} =>
         /\ count = capacity
         /\ {ghevHeaders[i] : i \in DOMAIN ghevHeaders} =
              Known \cap UNION {{Segments(Properties[p])[s] :
                                   s \in DOMAIN Segments(Properties[p])} :
                                  p \in DOMAIN Properties}

(***************************************************************************)
(* The pairs of the last transform point to what the transform wrote for   *)
(* them, until the end of the detection: nothing later writes over their   *)
(* values, nor over the names that it wrote itself.  The name of a pair    *)
(* that an earlier transform added is where that one wrote it.             *)
(***************************************************************************)
LastTransformIsIntact ==
  stage \in {"transform", "headers", "evaluate", "done"} =>
    \A i \in lastSet :
      ValueIsIntact(evidence[i]) /\ NameIsIntact(evidence[i])

\* The first pair that alone would succeed: its document is whole, stands
\* for headers and fits.
Usable(i) ==
  /\ IsSpecial(evidence[i])
  /\ evidence[i].from.whole
  /\ evidence[i].from.pairs # <<>>
Pairs(i) == evidence[i].from.pairs

\* Pair k gives what a document says of a header.
Gives(k, said) ==
  /\ evidence[k].value.type = "buffer"
  /\ Holds(evidence[k].value) = said.text
  /\ evidence[k].header = HeaderOf(said.key, said.key)

\* The name of a pair that a failed transform added was written over by a
\* later one, which then does not find the pair.
NameIsLost(k) ==
  evidence[k].place # 0 /\ NameOf(evidence[k]) # evidence[k].name

\* A caller provided the header before, with another prefix.
IsProvidedAgain(k) ==
  /\ evidence[k].place = 0
  /\ \E j \in 1 .. k - 1 :
       evidence[j].place = 0 /\ evidence[j].name = evidence[k].name

(***************************************************************************)
(* The first special pair that can be transformed is, whatever special     *)
(* pairs come before or after it: when the evidence is evaluated, each     *)
(* header it stands for has its text in a pair, and if the data set knows  *)
(* it, the pair is found for it.  So do all other pairs of that header,    *)
(* "if the header already exists then the current value is replaced"       *)
(* (hash.c:2524), with two exceptions: a pair that an earlier transform    *)
(* added before it failed, when its name is written over, and the second   *)
(* of two pairs of the caller for one header.  These keep what they said,  *)
(* and may be what is found for the header.                                *)
(***************************************************************************)
FirstUsableIsTransformed ==
  stage = "evaluate" =>
    \A i \in DOMAIN evidence :
      Usable(i) /\ (\A j \in 1 .. i - 1 : ~Usable(j)) =>
        \A n \in DOMAIN Pairs(i) :
          LET said == Pairs(i)[n]
              ofHeader == {k \in DOMAIN evidence : evidence[k].name = said.key}
          IN /\ \E k \in ofHeader : Gives(k, said)
             /\ \A k \in ofHeader :
                  Gives(k, said) \/ NameIsLost(k) \/ IsProvidedAgain(k)

(***************************************************************************)
(* No header is added that a caller provided with any prefix, nor twice at *)
(* the same place of the buffer, as transforms do whose names start at the *)
(* same place: its value is replaced instead.  Only the pairs of a name    *)
(* that did not fit in the buffer, or that a transform with its names      *)
(* elsewhere has written over, are not found.                              *)
(***************************************************************************)
HeadersAreReplaced ==
  \A i, j \in DOMAIN evidence :
    /\ i # j /\ evidence[i].name = evidence[j].name
    /\ evidence[i].place \in 1 .. Room
    => evidence[j].place \notin {0, evidence[i].place}

(***************************************************************************)
(* Special evidence that is of use is used, once, and in place of what the *)
(* evidence said before, but for pairs whose name was written over and for *)
(* a header that the caller provided twice.                                *)
(***************************************************************************)
UsableIsUsed == FirstUsableIsTransformed /\ HeadersAreReplaced

(***************************************************************************)
(* The JavaScript that would collect the headers is given up only if each  *)
(* of them is named by a pair of the evidence, of whatever prefix, and no  *)
(* header that the properties name and the data set knows was forgotten.   *)
(***************************************************************************)
OverriddenIfComplete ==
  overridden =>
    \A p \in DOMAIN Properties :
      \A s \in DOMAIN Segments(Properties[p]) :
        Segments(Properties[p])[s] \in Known =>
          \E j \in DOMAIN evidence :
            evidence[j].name = Segments(Properties[p])[s]

-----------------------------------------------------------------------------
(* The end of a detection.                                                 *)

SpecialsLeft ==
  Cardinality({i \in index .. Len(evidence) : IsSpecial(evidence[i])})

\* What is left: stages, properties or pairs that may be transformed, pairs
\* until the next of those, and what is left of a transform.
ToGo ==
  <<CASE stage = "count" -> 5
      [] stage = "add" -> 4
      [] stage \in {"scan", "transform"} -> 3
      [] stage = "headers" -> 2
      [] stage = "evaluate" -> 1
      [] OTHER -> 0,
    CASE stage \in {"count", "add"} -> Len(Properties) + 1 - index
      [] stage \in {"scan", "transform"} -> SpecialsLeft
      [] OTHER -> 0,
    IF stage = "scan" THEN Len(evidence) + 1 - index ELSE 0,
    IF stage = "transform" THEN Left ELSE 0>>

(***************************************************************************)
(* Each step comes closer to the end: a transform adds pairs to the        *)
(* evidence that is iterated, but none that would be transformed, and      *)
(* those that are there are transformed once.                              *)
(***************************************************************************)
ComesCloser == [][Lower(ToGo', ToGo)]_vars

(***************************************************************************)
(* The iteration over the evidence ends although pairs are added to it.    *)
(***************************************************************************)
DetectionEnds == ComesCloser /\ <>(stage \in {"done", "failed"})
=============================================================================
