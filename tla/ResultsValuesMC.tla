--------------------------- MODULE ResultsValuesMC ---------------------------
(* A small instance of ResultsValues: two components, three properties, a    *)
(* profile with one and with two values, and the results that detections     *)
(* leave: none, an item for each component, matched or not, or the one item  *)
(* that a device id fills.                                                   *)
EXTENDS ResultsValues, TLC

CONSTANTS a, b, Null0

MCComponents == {1, 2}
MCComponentOf == (0 :> 1) @@ (1 :> 2) @@ (2 :> 1)
MCNameOf == (0 :> "p0") @@ (1 :> "p1") @@ (2 :> "p2")
MCValuesOf == (a :> ((0 :> <<"x">>) @@ (1 :> <<>>) @@ (2 :> <<"y", "z">>)))
           @@ (b :> ((0 :> <<>>) @@ (1 :> <<"w">>) @@ (2 :> <<>>)))

Item(header, nodes, p, q, asked1, asked2) ==
    [header |-> header, matchedNodes |-> nodes,
     profiles |-> <<p, q>>, overridden |-> <<asked1, asked2>>]

(* The item of a component, whose header may match.                          *)
First1 == {Item(1, 1, a, Null0, FALSE, FALSE), Item(1, 0, Null0, Null0, FALSE, FALSE)}
Second2 == {Item(2, 1, Null0, b, FALSE, FALSE), Item(2, 0, Null0, Null0, FALSE, FALSE)}
ByDeviceId == {<<Item(-1, 0, p, q, p # Null0, q # Null0)>> : p \in {a, Null0}, q \in {b, Null0}}

Strict == {<<>>} \cup {<<i, j>> : i \in First1, j \in Second2} \cup {<<i>> : i \in First1}
              \cup (ByDeviceId \ {<<Item(-1, 0, Null0, Null0, FALSE, FALSE)>>})
Lenient == {<<Item(1, 0, a, Null0, FALSE, FALSE), Item(2, 0, Null0, b, FALSE, FALSE)>>}

MCOverrides == {(0 :> <<>>) @@ (1 :> <<>>) @@ (2 :> <<>>), (0 :> <<>>) @@ (1 :> <<"o">>) @@ (2 :> <<>>)}

MCDetected ==
    [items : Strict, overrides : MCOverrides, allowUnmatched : {FALSE}]
    \cup
    [items : Lenient, overrides : MCOverrides, allowUnmatched : {TRUE}]
=============================================================================
