-------------------------- MODULE ResultsEvidenceMC --------------------------
(* A small instance of ResultsEvidence: three components, the last of which  *)
(* has no available properties, and two profiles of each of the first two.   *)
EXTENDS ResultsEvidence, TLC

CONSTANTS
    p1, q1, p2, q2, p3,
    MaxIds          \* bound: profile identities in an evidence

MCComponentOf == (p1 :> 1) @@ (q1 :> 1) @@ (p2 :> 2) @@ (q2 :> 2) @@ (p3 :> 3)
MCDefault == <<p1, p2, p3>>

IdSequences(ids) == UNION {[1 .. n -> ids] : n \in 0 .. MaxIds}

(* No header for a component, one that is not of the data set, or up to two. *)
Pairs == {<<>>, <<FALSE>>, <<TRUE>>, <<TRUE, TRUE>>}

(* Device ids with headers that would be detected otherwise, and headers     *)
(* without a device id.                                                      *)
MCEvidence ==
    [deviceIds : IdSequences({q1, p2, Unknown, Null}), overrideIds : {<<>>, <<p1>>},
     pairs : {<<<<TRUE>>, <<TRUE>>, <<>>>>}]
    \cup
    [deviceIds : {<<>>}, overrideIds : {<<>>, <<q2, Null>>, <<q1, p1>>},
     pairs : {<<a, b, <<>>>> : a \in Pairs, b \in Pairs}]
=============================================================================
