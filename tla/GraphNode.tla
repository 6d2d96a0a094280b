------------------------------ MODULE GraphNode ------------------------------
(* A node of the detection graph as it lies in the data file (hash/graph.h). *)
(*                                                                           *)
(* A node is followed by an array of hash records, laid out as a single      *)
(* record, as a list ordered by hash code (modulo = 0), or as a hash table   *)
(* whose collision buckets live in the same array (0 < modulo <=             *)
(* hashesCount).  The node comes out of a data file, so the code also has to *)
(* survive a node that is none of these.  Indexes start at zero, as in C.    *)
EXTENDS Integers

HashRecord == [hashCode : Nat, nodeOffset : Int]

(* The array that follows a node in memory has hashesCount records.          *)
IsNode(n) ==
    /\ n.modulo \in Int
    /\ n.hashesCount \in Nat
    /\ n.hashes \in [0 .. (n.hashesCount - 1) -> HashRecord]

(* Index of no record: the functions of graph.c return NULL.                 *)
NotFound == -1

Indexes(n) == 0 .. (n.hashesCount - 1)

(* FIFTYONE_DEGREES_GRAPH_NODE_IS_HASH_TABLE *)
IsHashTable(n) == n.modulo > 0 /\ n.modulo <= n.hashesCount

-----------------------------------------------------------------------------
(* The layouts.  An ordered list has strictly ascending hash codes.          *)
IsOrdered(n) ==
    \A i, j \in Indexes(n) : i < j => n.hashes[i].hashCode < n.hashes[j].hashCode

(* Record i is in the bucket that starts at record b.                        *)
InBucketOf(n, b, i) == b <= i /\ \A j \in b .. i : n.hashes[j].hashCode # 0

(* A hash table keeps a hash code at the index its modulo gives, or in the   *)
(* bucket that the marker at that index heads.                               *)
IsPlaced(n, i) ==
    LET at == n.hashes[i].hashCode % n.modulo
    IN  \/ i = at
        \/ /\ n.hashes[at].hashCode = 0
           /\ n.hashes[at].nodeOffset \in 1 .. (n.hashesCount - 1)
           /\ InBucketOf(n, n.hashes[at].nodeOffset, i)

IsWellPlaced(n) ==
    \A i \in Indexes(n) : n.hashes[i].hashCode # 0 => IsPlaced(n, i)

(* The node can be relied on to give the record of each hash code it stores. *)
IsWellFormed(n) ==
    \/ n.hashesCount = 1
    \/ n.modulo = 0 /\ IsOrdered(n)
    \/ IsHashTable(n) /\ IsWellPlaced(n)

(* In a hash table zero is a marker, elsewhere it is a hash code.            *)
UsesMarkers(n) == n.hashesCount # 1 /\ n.modulo # 0

(* The records that stand for a hash code.                                   *)
Matches(n, h) ==
    {i \in Indexes(n) : n.hashes[i].hashCode = h /\ (UsesMarkers(n) => h # 0)}
=============================================================================
