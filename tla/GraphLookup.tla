----------------------------- MODULE GraphLookup -----------------------------
(* The search of one graph node for a hash code (hash/graph.c): a call of    *)
(* GraphGetMatchingHashFromNode, one action for each branch it takes and one *)
(* for each turn of its loops.                                               *)
EXTENDS GraphNode

CONSTANTS
    Nodes,      \* the nodes a data file may hold
    Hashes      \* the substring hashes a caller may look for

ASSUME NodesAssumption == \A n \in Nodes : IsNode(n)

ASSUME HashesAssumption == Hashes \subseteq Nat

VARIABLES
    pc,         \* where the call is; "done" when it has returned
    node,       \* the node being searched
    hash,       \* the hash code looked for
    index,      \* nodeHash - nodeHashes, in the hash table search
    lower,      \* the ordered list search looks at
    upper,      \*   lower .. upper
    found       \* index of foundHash, or NotFound

vars == <<pc, node, hash, index, lower, upper, found>>

Record(i) == node.hashes[i]

Return(i) == /\ pc' = "done"
             /\ found' = i

(* GraphGetMatchingHashFromNode: a caller asks for a hash in a node.         *)
Init ==
    /\ node \in Nodes
    /\ hash \in Hashes
    /\ pc = IF node.hashesCount = 1 THEN "binary" ELSE "list"
    /\ index = 0
    /\ lower = 0
    /\ upper = -1
    /\ found = NotFound

-----------------------------------------------------------------------------
(* GraphGetMatchingHashFromBinaryNode: the only record matches or not.       *)
BinaryNode ==
    /\ pc = "binary"
    /\ Return(IF Record(0).hashCode = hash THEN 0 ELSE NotFound)
    /\ UNCHANGED <<node, hash, index, lower, upper>>

(* GraphGetMatchingHashFromListNode: the three layouts of a list node.       *)
ListNodeSearch ==
    /\ pc = "list"
    /\ node.modulo = 0
    /\ pc' = "search"
    /\ lower' = 0
    /\ upper' = node.hashesCount - 1
    /\ UNCHANGED <<node, hash, index, found>>

(* Mutant: a hash of zero is looked up among the markers.                    *)
ListNodeTableZero ==
    /\ pc = "list"
    /\ IsHashTable(node)
    /\ pc' = "head"
    /\ index' = hash % node.modulo
    /\ UNCHANGED <<node, hash, lower, upper, found>>

ListNodeTable ==
    /\ pc = "list"
    /\ IsHashTable(node)
    /\ hash # 0
    /\ pc' = "head"
    /\ index' = hash % node.modulo
    /\ UNCHANGED <<node, hash, lower, upper, found>>

(* A zero hash in a hash table and an unusable modulo end without a read.    *)
ListNodeNoRead ==
    /\ pc = "list"
    /\ node.modulo # 0
    /\ IsHashTable(node) => hash = 0
    /\ Return(NotFound)
    /\ UNCHANGED <<node, hash, index, lower, upper>>

-----------------------------------------------------------------------------
(* GraphGetMatchingHashFromListNodeTable                                     *)

IsBucketHead(r) ==
    r.hashCode = 0 /\ r.nodeOffset > 0 /\ r.nodeOffset < node.hashesCount

TableHead ==
    /\ pc = "head"
    /\ \/ /\ Record(index).hashCode = hash
          /\ Return(index)
          /\ UNCHANGED index
       \/ /\ Record(index).hashCode # hash
          /\ IsBucketHead(Record(index))
          /\ pc' = "bucket"
          /\ index' = Record(index).nodeOffset
          /\ UNCHANGED found
       \/ /\ Record(index).hashCode # hash
          /\ ~ IsBucketHead(Record(index))
          /\ Return(NotFound)
          /\ UNCHANGED index
    /\ UNCHANGED <<node, hash, lower, upper>>

InBucket(i) == i < node.hashesCount /\ Record(i).hashCode # 0

TableBucketNext ==
    /\ pc = "bucket"
    /\ InBucket(index)
    /\ Record(index).hashCode # hash
    /\ index' = index + 1
    /\ UNCHANGED <<pc, node, hash, lower, upper, found>>

TableBucketMatch ==
    /\ pc = "bucket"
    /\ InBucket(index)
    /\ Record(index).hashCode = hash
    /\ Return(index)
    /\ UNCHANGED <<node, hash, index, lower, upper>>

TableBucketEnd ==
    /\ pc = "bucket"
    /\ ~ InBucket(index)
    /\ Return(NotFound)
    /\ UNCHANGED <<node, hash, index, lower, upper>>

-----------------------------------------------------------------------------
(* GraphGetMatchingHashFromListNodeSearch                                    *)

Middle == lower + ((upper - lower) \div 2)

SearchMatch ==
    /\ pc = "search"
    /\ lower <= upper
    /\ Record(Middle).hashCode = hash
    /\ Return(Middle)
    /\ UNCHANGED <<node, hash, index, lower, upper>>

(* Mutant: the range ends beyond the middle.                                 *)
SearchBelowPastMiddle ==
    /\ pc = "search"
    /\ lower <= upper
    /\ Record(Middle).hashCode > hash
    /\ upper' = Middle + 1
    /\ UNCHANGED <<pc, node, hash, index, lower, found>>

SearchBelow ==
    /\ pc = "search"
    /\ lower <= upper
    /\ Record(Middle).hashCode > hash
    /\ upper' = Middle - 1
    /\ UNCHANGED <<pc, node, hash, index, lower, found>>

SearchAbove ==
    /\ pc = "search"
    /\ lower <= upper
    /\ Record(Middle).hashCode < hash
    /\ lower' = Middle + 1
    /\ UNCHANGED <<pc, node, hash, index, upper, found>>

(* Mutant: a range of one record is not looked at.                           *)
SearchEndEarly ==
    /\ pc = "search"
    /\ lower >= upper
    /\ Return(NotFound)
    /\ UNCHANGED <<node, hash, index, lower, upper>>

SearchEnd ==
    /\ pc = "search"
    /\ lower > upper
    /\ Return(NotFound)
    /\ UNCHANGED <<node, hash, index, lower, upper>>

-----------------------------------------------------------------------------
Next ==
    \/ BinaryNode
    \/ ListNodeSearch \/ ListNodeTable \/ ListNodeNoRead
    \/ TableHead \/ TableBucketNext \/ TableBucketMatch \/ TableBucketEnd
    \/ SearchMatch \/ SearchBelow \/ SearchAbove \/ SearchEnd

Spec == Init /\ [][Next]_vars

(* A call runs to its end on the thread that made it.                        *)
FairSpec == Spec /\ WF_vars(Next)

-----------------------------------------------------------------------------
(* The variables have their types.                                           *)
TypeOK ==
    /\ pc \in {"done", "binary", "list", "head", "bucket", "search"}
    /\ IsNode(node)
    /\ hash \in Nat
    /\ index \in Nat
    /\ lower \in Nat
    /\ upper \in Int
    /\ found \in Nat \cup {NotFound}

(* Whatever modulo, offsets and markers the data file holds, every record    *)
(* the search is about to read is a record of the node: the hash table index *)
(* is not bounds checked in the code, nor is the middle of the ordered list. *)
ReadsInBounds ==
    /\ pc = "binary" => 0 \in Indexes(node)
    /\ pc = "head" => index \in Indexes(node)
    /\ pc = "search" /\ lower <= upper => Middle \in Indexes(node)
    /\ pc = "bucket" => index \in 1 .. node.hashesCount

(* A record that is returned carries the hash that was asked for, and is     *)
(* never one of the markers a hash table keeps among its records.            *)
FoundIsStored ==
    pc = "done" /\ found # NotFound => found \in Matches(node, hash)

(* In a node laid out as graph.h says, a search that comes back empty means  *)
(* that the node does not store the hash: neither the halving of the list    *)
(* nor the early end of a bucket loses a record.                             *)
MissingIsAbsent ==
    pc = "done" /\ found = NotFound /\ IsWellFormed(node)
        => Matches(node, hash) = {}

(* What a caller relies on of one search: it stays within its node, and      *)
(* when it comes back empty there is nothing to find.                        *)
SearchIsSound == TypeOK /\ ReadsInBounds /\ MissingIsAbsent

(* The loops make progress: the list that is left to search shrinks, and a   *)
(* bucket is read forwards, so that no record is looked at twice.            *)
LoopsProgress ==
    [][ /\ pc = "search" /\ pc' = "search" => upper' - lower' < upper - lower
        /\ pc = "bucket" /\ pc' = "bucket" => index' > index ]_vars

(* The search of a node answers as a map from hash codes to records does,    *)
(* and does answer.                                                          *)
Map == INSTANCE NodeMap WITH answer <- IF pc = "done" THEN found ELSE -2
ImplementsNodeMap == Map!Spec
ImplementsNodeMapSafety == Map!Safety
=============================================================================
