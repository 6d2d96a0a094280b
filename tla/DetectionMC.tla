----------------------------- MODULE DetectionMC -----------------------------
(* Small instances of Detection: graphs of four nodes, three of which are    *)
(* the performance graph, over a User-Agent of two characters.               *)
EXTENDS Detection, TLC, SequencesExt

CONSTANTS
    MaxSize,        \* bound: characters of a User-Agent
    Tolerances      \* bound: the difference and the drift configured

MCUserAgents == BoundedSeq({1, 2}, MaxSize)

MCConfig(tolerances, graphs) ==
    [difference |-> tolerances[1], drift |-> tolerances[2],
     usePerformanceGraph |-> graphs # "predictive",
     usePredictiveGraph |-> graphs # "performance",
     allowUnmatched |-> graphs # "performance",
     inFile |-> graphs = "performance"]

(* Nodes are read from a file, which may fail, where only the performance    *)
(* graph is used.                                                            *)
MCConfigs ==
    {MCConfig(t, "both") : t \in Tolerances \X Tolerances}
        \cup {MCConfig(<<1, 1>>, "performance"), MCConfig(<<0, 1>>, "predictive")}

MCNode(unmatched, first, last, length, hashes) ==
    [unmatchedNodeOffset |-> unmatched, firstIndex |-> first, lastIndex |-> last,
     length |-> length, isBinary |-> Cardinality(DOMAIN hashes) = 1, hashes |-> hashes]

(* Hashes of the substrings: 1 and 2 of one character, 6, 7, 11 and 12 of    *)
(* two, with a prime of 5.                                                   *)
Roots ==
    {MCNode(2, 0, 1, 1, 2 :> 2),
     MCNode(2, 1, 1, 2, (6 :> -1) @@ (12 :> 2)),
     MCNode(-1, 0, 0, 2, 11 :> 3)}

Children ==
    {MCNode(3, 0, 1, 2, 7 :> -2),
     MCNode(3, 1, 1, 1, 3 :> 3),
     MCNode(-2, 0, 0, 2, (8 :> -3) @@ (5 :> 3)),
     MCNode(3, 0, 0, 2, <<>>)}

Grandchildren ==
    {MCNode(0, 0, 1, 2, 12 :> -4),
     MCNode(0, 1, 1, 1, (2 :> -5) @@ (4 :> -6))}

PredictiveRoots ==
    {MCNode(0, 0, 2, 2, (7 :> 3) @@ (11 :> -7)),
     MCNode(2, 0, 0, 1, 1 :> -8)}

MCGraphs ==
    {[nodes |-> <<r, c, g, p>>, performance |-> 1, predictive |-> 4] :
        r \in Roots, c \in Children, g \in Grandchildren, p \in PredictiveRoots}

(* The edges of the numbers are not in the instances: no binary node has a   *)
(* hash code of zero, and hashes, of which 12 is the largest, are never half *)
(* of their range apart.                                                     *)
ASSUME NoEdges == NoZeroCodes /\ Modulus > 2 * 12
=============================================================================
