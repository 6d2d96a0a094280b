---------------------------- MODULE GraphLookupMC ----------------------------
(* Small nodes for GraphLookup.                                              *)
EXTENDS GraphLookup

CONSTANTS MaxHash, MaxList, MaxMalformed

Node(m, hs) ==
    [modulo |-> m,
     hashesCount |-> IF DOMAIN hs = {} THEN 0 ELSE 1 + CHOOSE i \in DOMAIN hs : i + 1 \notin DOMAIN hs,
     hashes |-> hs]

RecordsOver(codes, offsets) == [hashCode : codes, nodeOffset : offsets]

(* Ordered lists of up to MaxList records, one of them empty.                *)
OrderedNodes ==
    LET Lists(k) == {f \in [0 .. (k - 1) -> 0 .. MaxHash] :
                        \A i \in 0 .. (k - 2) : f[i] < f[i + 1]}
    IN  UNION {{Node(0, [i \in 0 .. (k - 1) |-> [hashCode |-> f[i], nodeOffset |-> i + 1]]) :
                   f \in Lists(k)} : k \in 0 .. MaxList}

(* Anything a damaged file may hold: all moduli, markers and bucket offsets. *)
MalformedNodes ==
    UNION {{Node(m, hs) : m \in -1 .. (k + 1),
               hs \in [0 .. (k - 1) -> RecordsOver(0 .. 2, -1 .. k)]} :
           k \in 1 .. MaxMalformed}

(* Hash tables of five records: two slots, and room for two buckets.         *)
TableNodes ==
    {Node(2, [i \in 0 .. 4 |-> IF i < 2 THEN slots[i]
                               ELSE [hashCode |-> rest[i], nodeOffset |-> 9]]) :
        slots \in [0 .. 1 -> RecordsOver(0 .. 3, {0, 2, 4, 5})],
        rest \in [2 .. 4 -> 0 .. 3]}

MCNodes == OrderedNodes \cup MalformedNodes \cup TableNodes
MCHashes == 0 .. MaxHash
=============================================================================
