-------------------------- MODULE GraphLookupProofs --------------------------
(* The search of a node never reads outside it, and answers as a map from    *)
(* hash codes to records, for every node and every hash.                     *)
EXTENDS GraphLookup, TLAPS

-----------------------------------------------------------------------------
(* The middle that the search computes is within the range it halves.        *)
LEMMA MiddleInRange ==
    ASSUME NEW l \in Int, NEW u \in Int, l <= u
    PROVE  l + ((u - l) \div 2) \in l .. u
OBVIOUS

(* A hash reduced by a modulo that is usable is the index of a record.       *)
LEMMA ModuloInRange ==
    ASSUME NEW h \in Nat, NEW m \in Int, m > 0
    PROVE  h % m \in 0 .. (m - 1)
OBVIOUS

(* The records of a node have their types.                                   *)
LEMMA RecordTypes ==
    ASSUME NEW n, IsNode(n), NEW i \in Indexes(n)
    PROVE  /\ n.hashes[i].hashCode \in Nat
           /\ n.hashes[i].nodeOffset \in Int
BY DEF IsNode, Indexes, HashRecord

(* The slot of a hash is the index of a record of the node.                  *)
LEMMA SlotInNode ==
    ASSUME NEW n, IsNode(n), IsHashTable(n), NEW h \in Nat
    PROVE  h % n.modulo \in Indexes(n)
<1>1. n.modulo \in Int /\ n.modulo > 0 /\ n.modulo <= n.hashesCount /\ n.hashesCount \in Nat
  BY DEF IsNode, IsHashTable
<1>2. h % n.modulo \in 0 .. (n.modulo - 1)
  BY <1>1, ModuloInRange
<1> QED BY <1>1, <1>2 DEF Indexes

(* A record with the hash lies at the slot of the hash or in its bucket.     *)
LEMMA MatchIsPlaced ==
    ASSUME NEW n, NEW h, IsWellPlaced(n), NEW i \in Matches(n, h), h # 0
    PROVE  /\ i \in Indexes(n)
           /\ n.hashes[i].hashCode = h
           /\ \/ i = h % n.modulo
              \/ /\ n.hashes[h % n.modulo].hashCode = 0
                 /\ n.hashes[h % n.modulo].nodeOffset \in 1 .. (n.hashesCount - 1)
                 /\ InBucketOf(n, n.hashes[h % n.modulo].nodeOffset, i)
BY DEF IsWellPlaced, IsPlaced, Matches

-----------------------------------------------------------------------------
(* The strengthening.                                                        *)
(* Where the search has been, which is why it can judge its returns: a       *)
(* hash code of an ordered list is within lower .. upper, and the records of *)
(* the bucket that lie before index are neither markers nor the hash.        *)
SearchInvariant ==
    /\ pc = "binary" <=> pc # "done" /\ node.hashesCount = 1
    /\ pc = "search" =>
        /\ node.modulo = 0
        /\ upper < node.hashesCount
        /\ IsOrdered(node) => Matches(node, hash) \subseteq lower .. upper
    /\ pc \in {"head", "bucket"} => IsHashTable(node) /\ hash # 0
    /\ pc = "head" => index = hash % node.modulo
    /\ pc = "bucket" =>
        LET head == Record(hash % node.modulo)
        IN  /\ IsBucketHead(head)
            /\ head.nodeOffset <= index
            /\ index <= node.hashesCount
            /\ \A j \in head.nodeOffset .. (index - 1) :
                    Record(j).hashCode \notin {0, hash}

IInv == TypeOK /\ SearchInvariant /\ FoundIsStored /\ MissingIsAbsent

(* Every read of the hash records is within the node, because of what the    *)
(* search knows when it makes it.                                            *)
LEMMA InvariantBounds == TypeOK /\ SearchInvariant => ReadsInBounds
<1> SUFFICES ASSUME TypeOK, SearchInvariant PROVE ReadsInBounds
  OBVIOUS
<1> USE DEF TypeOK, IsNode, Indexes
<1>1. pc = "binary" => 0 \in Indexes(node)
  BY DEF SearchInvariant
<1>2. pc = "head" => index \in Indexes(node)
  <2> HAVE pc = "head"
  <2>1. node.modulo > 0 /\ node.modulo <= node.hashesCount /\ index = hash % node.modulo
    BY DEF SearchInvariant, IsHashTable
  <2> QED BY <2>1, ModuloInRange
<1>3. pc = "search" /\ lower <= upper => Middle \in Indexes(node)
  <2> HAVE pc = "search" /\ lower <= upper
  <2>1. upper < node.hashesCount
    BY DEF SearchInvariant
  <2>2. Middle \in lower .. upper
    BY MiddleInRange DEF Middle
  <2> QED BY <2>1, <2>2
<1>4. pc = "bucket" => index \in 1 .. node.hashesCount
  <2> HAVE pc = "bucket"
  <2> DEFINE head == Record(hash % node.modulo)
  <2>1. hash % node.modulo \in Indexes(node)
    BY ModuloInRange DEF SearchInvariant, IsHashTable
  <2>2. head.nodeOffset \in Int
    BY <2>1, RecordTypes DEF Record
  <2>3. head.nodeOffset > 0 /\ head.nodeOffset <= index /\ index <= node.hashesCount
    BY DEF SearchInvariant, IsBucketHead
  <2> QED BY <2>2, <2>3
<1> QED BY <1>1, <1>2, <1>3, <1>4 DEF ReadsInBounds

LEMMA InitInvariant == Init => IInv
<1> SUFFICES ASSUME Init PROVE IInv
  OBVIOUS
<1>1. TypeOK
  BY NodesAssumption, HashesAssumption DEF Init, TypeOK, NotFound
<1>2. SearchInvariant
  BY DEF Init, SearchInvariant
<1>3. FoundIsStored /\ MissingIsAbsent
  BY DEF Init, FoundIsStored, MissingIsAbsent
<1> QED BY <1>1, <1>2, <1>3 DEF IInv

LEMMA NextInvariant == IInv /\ [Next]_vars => IInv'
<1> SUFFICES ASSUME IInv, [Next]_vars PROVE IInv'
  OBVIOUS
<1> USE DEF IInv, NotFound, Return
<1>0. ReadsInBounds
  BY InvariantBounds
<1>1. CASE BinaryNode
  <2>1. /\ node.hashesCount = 1 /\ IsNode(node) /\ pc' = "done"
        /\ UNCHANGED <<node, hash, index, lower, upper>>
    BY <1>1 DEF BinaryNode, SearchInvariant, TypeOK
  <2>2. Indexes(node) = {0}
    BY <2>1 DEF Indexes
  <2>3. Matches(node, hash) = IF node.hashes[0].hashCode = hash THEN {0} ELSE {}
    BY <2>1, <2>2 DEF Matches, UsesMarkers
  <2>4. FoundIsStored' /\ MissingIsAbsent'
    BY <1>1, <2>1, <2>3 DEF BinaryNode, Record, FoundIsStored, MissingIsAbsent
  <2>5. TypeOK' /\ SearchInvariant'
    BY <1>1, <2>1 DEF BinaryNode, TypeOK, SearchInvariant
  <2> QED BY <2>4, <2>5
<1>2. CASE ListNodeSearch
  <2>1. TypeOK'
    BY <1>2 DEF ListNodeSearch, TypeOK, IsNode
  <2>2. SearchInvariant'
    BY <1>2 DEF ListNodeSearch, TypeOK, IsNode, SearchInvariant, Matches, Indexes
  <2>3. FoundIsStored' /\ MissingIsAbsent'
    BY <1>2 DEF ListNodeSearch, FoundIsStored, MissingIsAbsent
  <2> QED BY <2>1, <2>2, <2>3
<1>3. CASE ListNodeTable
  <2>1. TypeOK'
    <3>1. hash % node.modulo \in Nat
      BY <1>3, SlotInNode DEF ListNodeTable, TypeOK, Indexes
    <3> QED BY <1>3, <3>1 DEF ListNodeTable, TypeOK
  <2>2. SearchInvariant'
    BY <1>3 DEF ListNodeTable, SearchInvariant
  <2>3. FoundIsStored' /\ MissingIsAbsent'
    BY <1>3 DEF ListNodeTable, FoundIsStored, MissingIsAbsent
  <2> QED BY <2>1, <2>2, <2>3
<1>4. CASE ListNodeNoRead
  <2>1. TypeOK' /\ SearchInvariant' /\ FoundIsStored'
    BY <1>4 DEF ListNodeNoRead, TypeOK, SearchInvariant, FoundIsStored
  <2>2. MissingIsAbsent'
    BY <1>4 DEF ListNodeNoRead, MissingIsAbsent, IsWellFormed, Matches, UsesMarkers,
                SearchInvariant
  <2> QED BY <2>1, <2>2
<1>5. CASE TableHead
  <2> DEFINE r == Record(index)
  <2>1. /\ index \in Indexes(node) /\ index = hash % node.modulo /\ hash # 0
        /\ IsHashTable(node) /\ node.hashesCount # 1 /\ hash \in Nat
        /\ r.hashCode \in Nat /\ r.nodeOffset \in Int
        /\ UNCHANGED <<node, hash, lower, upper>>
    BY <1>0, <1>5, RecordTypes DEF TableHead, ReadsInBounds, SearchInvariant, TypeOK, Record
  <2>2. CASE r.hashCode = hash
    <3>1. pc' = "done" /\ found' = index /\ UNCHANGED index
      BY <1>5, <2>2 DEF TableHead
    <3>2. TypeOK' /\ SearchInvariant' /\ MissingIsAbsent'
      BY <2>1, <3>1 DEF TypeOK, SearchInvariant, MissingIsAbsent
    <3>3. FoundIsStored'
      BY <2>1, <2>2, <3>1 DEF FoundIsStored, Matches, Record
    <3> QED BY <3>2, <3>3
  <2>3. CASE r.hashCode # hash /\ IsBucketHead(r)
    <3>1. pc' = "bucket" /\ index' = r.nodeOffset /\ UNCHANGED found
      BY <1>5, <2>3 DEF TableHead
    <3>2. r.nodeOffset > 0 /\ r.nodeOffset < node.hashesCount
      BY <2>3 DEF IsBucketHead
    <3>3. TypeOK'
      BY <2>1, <3>1, <3>2 DEF TypeOK
    <3>4. SearchInvariant'
      BY <2>1, <2>3, <3>1, <3>2 DEF SearchInvariant, TypeOK, IsNode, Record, IsBucketHead
    <3>5. FoundIsStored' /\ MissingIsAbsent'
      BY <3>1 DEF FoundIsStored, MissingIsAbsent
    <3> QED BY <3>3, <3>4, <3>5
  <2>4. CASE r.hashCode # hash /\ ~ IsBucketHead(r)
    <3>1. pc' = "done" /\ found' = NotFound /\ UNCHANGED index
      BY <1>5, <2>4 DEF TableHead
    <3>2. TypeOK' /\ SearchInvariant' /\ FoundIsStored'
      BY <2>1, <3>1 DEF TypeOK, SearchInvariant, FoundIsStored
    <3>3. ASSUME IsWellFormed(node), NEW i \in Matches(node, hash) PROVE FALSE
      <4>1. IsWellPlaced(node)
        BY <2>1, <3>3 DEF IsWellFormed, IsHashTable, TypeOK, IsNode
      <4>2. /\ i \in Indexes(node) /\ node.hashes[i].hashCode = hash
            /\ \/ i = index
               \/ r.hashCode = 0 /\ r.nodeOffset \in 1 .. (node.hashesCount - 1)
        BY <2>1, <3>3, <4>1, MatchIsPlaced DEF Record
      <4> QED BY <2>4, <4>2 DEF IsBucketHead, Record, TypeOK, IsNode
    <3>4. MissingIsAbsent'
      BY <2>1, <3>1, <3>3 DEF MissingIsAbsent
    <3> QED BY <3>2, <3>4
  <2> QED BY <2>2, <2>3, <2>4
<1>6. CASE TableBucketNext
  <2>1. TypeOK'
    BY <1>6 DEF TableBucketNext, TypeOK
  <2>2. FoundIsStored' /\ MissingIsAbsent'
    BY <1>6 DEF TableBucketNext, FoundIsStored, MissingIsAbsent
  <2>3. SearchInvariant'
    <3> DEFINE b == node.hashes[hash % node.modulo].nodeOffset
    <3>1. /\ pc = "bucket" /\ pc' = "bucket" /\ index' = index + 1
          /\ UNCHANGED <<node, hash, lower, upper, found>>
          /\ index < node.hashesCount
          /\ node.hashes[index].hashCode \notin {0, hash}
      BY <1>6 DEF TableBucketNext, InBucket, Record
    <3>2. /\ node.hashesCount # 1 /\ IsHashTable(node) /\ hash # 0
          /\ IsBucketHead(node.hashes[hash % node.modulo])
          /\ b <= index
          /\ \A j \in b .. (index - 1) : node.hashes[j].hashCode \notin {0, hash}
      BY <3>1 DEF SearchInvariant, Record
    <3>3. b \in Int /\ index \in Nat /\ node.hashesCount \in Nat
      BY <3>2, SlotInNode, RecordTypes DEF TypeOK, IsNode
    <3>4. \A j \in b .. (index' - 1) : node.hashes[j].hashCode \notin {0, hash}
      BY <3>1, <3>2, <3>3
    <3>5. b <= index' /\ index' <= node.hashesCount
      BY <3>1, <3>2, <3>3
    <3> QED BY <3>1, <3>2, <3>4, <3>5 DEF SearchInvariant, Record, IsBucketHead, IsHashTable
  <2> QED BY <2>1, <2>2, <2>3
<1>7. CASE TableBucketMatch
  <2>1. TypeOK' /\ SearchInvariant' /\ MissingIsAbsent'
    BY <1>7 DEF TableBucketMatch, TypeOK, SearchInvariant, MissingIsAbsent
  <2>2. FoundIsStored'
    BY <1>0, <1>7 DEF TableBucketMatch, InBucket, FoundIsStored, Matches, Indexes, Record,
                      ReadsInBounds, SearchInvariant, TypeOK, IsNode
  <2> QED BY <2>1, <2>2
<1>8. CASE TableBucketEnd
  <2>1. TypeOK' /\ SearchInvariant' /\ FoundIsStored'
    BY <1>8 DEF TableBucketEnd, TypeOK, SearchInvariant, FoundIsStored
  <2>2. ASSUME IsWellFormed(node), NEW i \in Matches(node, hash) PROVE FALSE
    <3> DEFINE at == hash % node.modulo
               b == node.hashes[at].nodeOffset
    <3>1. /\ IsHashTable(node) /\ hash # 0 /\ node.hashesCount # 1
          /\ IsBucketHead(node.hashes[at])
          /\ b <= index /\ index <= node.hashesCount
          /\ \A j \in b .. (index - 1) : node.hashes[j].hashCode \notin {0, hash}
      BY <1>8 DEF TableBucketEnd, SearchInvariant, Record
    <3>2. IsWellPlaced(node)
      BY <2>2, <3>1 DEF IsWellFormed, IsHashTable, TypeOK, IsNode
    <3>3. /\ i \in Indexes(node) /\ node.hashes[i].hashCode = hash
          /\ i = at \/ InBucketOf(node, b, i)
      BY <2>2, <3>1, <3>2, MatchIsPlaced
    <3>4. i # at
      BY <3>1, <3>3 DEF IsBucketHead
    <3>5. at \in Indexes(node)
      BY <3>1, SlotInNode DEF TypeOK
    <3>6. b \in Int /\ i \in Int /\ index \in Int
      BY <3>3, <3>5, RecordTypes DEF TypeOK, Indexes, IsNode
    <3>7. index <= i
      BY <3>1, <3>3, <3>4, <3>6 DEF InBucketOf
    <3>8. index < node.hashesCount
      BY <3>3, <3>6, <3>7 DEF Indexes, TypeOK, IsNode
    <3>9. node.hashes[index].hashCode = 0
      BY <1>8, <3>8 DEF TableBucketEnd, InBucket, Record
    <3>10. node.hashes[index].hashCode # 0
      BY <3>1, <3>3, <3>4, <3>6, <3>7 DEF InBucketOf
    <3> QED BY <3>9, <3>10
  <2>3. MissingIsAbsent'
    BY <1>8, <2>2 DEF TableBucketEnd, MissingIsAbsent
  <2> QED BY <2>1, <2>3
<1>9. ASSUME pc = "search", lower <= upper
      PROVE  /\ Middle \in lower .. upper
             /\ Middle \in Indexes(node)
             /\ Record(Middle).hashCode \in Nat
             /\ node.modulo = 0 /\ ~ UsesMarkers(node)
             /\ IsOrdered(node) => Matches(node, hash) \subseteq lower .. upper
  <2>1. Middle \in lower .. upper
    BY <1>9, MiddleInRange DEF Middle, TypeOK
  <2>2. Middle \in Indexes(node)
    BY <1>0, <1>9 DEF ReadsInBounds
  <2> QED BY <1>9, <2>1, <2>2, RecordTypes DEF SearchInvariant, TypeOK, Record, UsesMarkers
<1>10. CASE SearchMatch
  <2> USE <1>9, <1>10 DEF SearchMatch
  <2>1. TypeOK' /\ SearchInvariant' /\ MissingIsAbsent'
    BY DEF TypeOK, SearchInvariant, MissingIsAbsent
  <2>2. FoundIsStored'
    BY DEF FoundIsStored, Matches, Record
  <2> QED BY <2>1, <2>2
<1>11. CASE SearchBelow
  <2> USE <1>9, <1>11 DEF SearchBelow
  <2>1. TypeOK'
    BY DEF TypeOK
  <2>2. FoundIsStored' /\ MissingIsAbsent'
    BY DEF FoundIsStored, MissingIsAbsent
  <2>3. IsOrdered(node) => Matches(node, hash) \subseteq lower .. (Middle - 1)
    <3> SUFFICES ASSUME IsOrdered(node), NEW i \in Matches(node, hash)
                 PROVE  i < Middle
      BY DEF TypeOK
    <3>1. i \in Indexes(node) /\ node.hashes[i].hashCode = hash
      BY DEF Matches
    <3> QED BY <3>1 DEF IsOrdered, Record, Indexes, TypeOK, IsNode
  <2>4. SearchInvariant'
    BY <2>3 DEF SearchInvariant, TypeOK, IsNode, IsHashTable
  <2> QED BY <2>1, <2>2, <2>4
<1>12. CASE SearchAbove
  <2> USE <1>9, <1>12 DEF SearchAbove
  <2>1. TypeOK'
    BY DEF TypeOK
  <2>2. FoundIsStored' /\ MissingIsAbsent'
    BY DEF FoundIsStored, MissingIsAbsent
  <2>3. IsOrdered(node) => Matches(node, hash) \subseteq (Middle + 1) .. upper
    <3> SUFFICES ASSUME IsOrdered(node), NEW i \in Matches(node, hash)
                 PROVE  i > Middle
      BY DEF TypeOK
    <3>1. i \in Indexes(node) /\ node.hashes[i].hashCode = hash
      BY DEF Matches
    <3> QED BY <3>1 DEF IsOrdered, Record, Indexes, TypeOK, IsNode
  <2>4. SearchInvariant'
    BY <2>3 DEF SearchInvariant, TypeOK, IsNode, IsHashTable
  <2> QED BY <2>1, <2>2, <2>4
<1>13. CASE SearchEnd
  <2> USE <1>13 DEF SearchEnd
  <2>1. TypeOK' /\ SearchInvariant' /\ FoundIsStored'
    BY DEF TypeOK, SearchInvariant, FoundIsStored
  <2>2. node.modulo = 0 /\ node.hashesCount # 1
    BY DEF SearchInvariant
  <2>3. IsWellFormed(node) => IsOrdered(node)
    BY <2>2 DEF IsWellFormed, IsHashTable
  <2>4. IsWellFormed(node) => Matches(node, hash) = {}
    BY <2>3 DEF SearchInvariant, TypeOK
  <2>5. MissingIsAbsent'
    BY <2>4 DEF MissingIsAbsent
  <2> QED BY <2>1, <2>5
<1>14. CASE UNCHANGED vars
  BY <1>14 DEF vars, TypeOK, SearchInvariant, FoundIsStored, MissingIsAbsent, Record,
               IsBucketHead
<1> QED
  BY <1>1, <1>2, <1>3, <1>4, <1>5, <1>6, <1>7, <1>8, <1>10, <1>11, <1>12, <1>13, <1>14
  DEF Next

LEMMA SpecInvariant == Spec => []IInv
<1> QED BY InitInvariant, NextInvariant, PTL DEF Spec

-----------------------------------------------------------------------------
(* The variables have their types.                                           *)
THEOREM Typing == Spec => []TypeOK
<1>1. IInv => TypeOK
  BY DEF IInv
<1> QED BY <1>1, SpecInvariant, PTL

(* No node and no hash make the search read beyond the records of the node.  *)
THEOREM Bounds == Spec => []ReadsInBounds
<1>1. IInv => ReadsInBounds
  BY InvariantBounds DEF IInv
<1> QED BY <1>1, SpecInvariant, PTL

(* A record that is returned stands for the hash asked for.                  *)
THEOREM Soundness == Spec => []FoundIsStored
<1>1. IInv => FoundIsStored
  BY DEF IInv
<1> QED BY <1>1, SpecInvariant, PTL

(* A search of a well formed node that returns nothing has missed nothing.   *)
THEOREM Completeness == Spec => []MissingIsAbsent
<1>1. IInv => MissingIsAbsent
  BY DEF IInv
<1> QED BY <1>1, SpecInvariant, PTL

(* Whatever the node and the hash code, the search reads within the node and *)
(* says that a hash code is missing only of a node that does not have it.    *)
THEOREM SearchSoundness == Spec => []SearchIsSound
BY Typing, Bounds, Completeness, PTL DEF SearchIsSound

(* Each turn of a loop leaves strictly less to search.                       *)
THEOREM Progress == Spec => LoopsProgress
<1>1. IInv /\ [Next]_vars =>
        [ /\ pc = "search" /\ pc' = "search" => upper' - lower' < upper - lower
          /\ pc = "bucket" /\ pc' = "bucket" => index' > index ]_vars
  <2> SUFFICES ASSUME IInv, Next
               PROVE  /\ pc = "search" /\ pc' = "search" => upper' - lower' < upper - lower
                      /\ pc = "bucket" /\ pc' = "bucket" => index' > index
    OBVIOUS
  <2>1. ASSUME pc = "search", pc' = "search"
        PROVE  upper' - lower' < upper - lower
    <3>1. lower \in Int /\ upper \in Int
      BY DEF IInv, TypeOK
    <3>2. /\ lower <= upper
          /\ \/ upper' = Middle - 1 /\ lower' = lower
             \/ lower' = Middle + 1 /\ upper' = upper
      BY <2>1 DEF Next, BinaryNode, ListNodeSearch, ListNodeTable, ListNodeNoRead, TableHead,
                  TableBucketNext, TableBucketMatch, TableBucketEnd, SearchMatch, SearchBelow,
                  SearchAbove, SearchEnd, Return
    <3>3. Middle \in lower .. upper
      BY <3>1, <3>2, MiddleInRange DEF Middle
    <3> QED BY <3>1, <3>2, <3>3
  <2>2. ASSUME pc = "bucket", pc' = "bucket"
        PROVE  index' > index
    <3>1. index' = index + 1
      BY <2>2 DEF Next, BinaryNode, ListNodeSearch, ListNodeTable, ListNodeNoRead, TableHead,
                  TableBucketNext, TableBucketMatch, TableBucketEnd, SearchMatch, SearchBelow,
                  SearchAbove, SearchEnd, Return
    <3> QED BY <3>1 DEF IInv, TypeOK
  <2> QED BY <2>1, <2>2
<1> QED BY <1>1, SpecInvariant, PTL DEF Spec, LoopsProgress

(* The search implements the map: it starts as a pending call, its steps     *)
(* leave the call pending, and the step that returns gives an answer that    *)
(* the map may give.                                                         *)
THEOREM Refinement == Spec => ImplementsNodeMapSafety
<1> USE DEF Map!NotFound, NotFound
<1>a. Map!IsNode(node) <=> IsNode(node)
  BY DEF IsNode, Map!IsNode, HashRecord, Map!HashRecord
<1>b. Map!Matches(node, hash) = Matches(node, hash)
  BY DEF Matches, Map!Matches, Indexes, Map!Indexes, UsesMarkers, Map!UsesMarkers
<1>c. Map!IsWellFormed(node) <=> IsWellFormed(node)
  <2>1. Map!IsOrdered(node) <=> IsOrdered(node)
    BY DEF IsOrdered, Map!IsOrdered, Indexes, Map!Indexes
  <2>2. ASSUME NEW b, NEW i PROVE Map!InBucketOf(node, b, i) <=> InBucketOf(node, b, i)
    BY DEF InBucketOf, Map!InBucketOf
  <2>3. ASSUME NEW i PROVE Map!IsPlaced(node, i) <=> IsPlaced(node, i)
    BY <2>2 DEF IsPlaced, Map!IsPlaced
  <2>4. Map!IsWellPlaced(node) <=> IsWellPlaced(node)
    BY <2>3 DEF IsWellPlaced, Map!IsWellPlaced, Indexes, Map!Indexes
  <2> QED BY <2>1, <2>4 DEF IsWellFormed, Map!IsWellFormed, IsHashTable, Map!IsHashTable
<1>1. Init => Map!Init
  <2> SUFFICES ASSUME Init PROVE Map!Init
    OBVIOUS
  <2>1. IsNode(node) /\ hash \in Nat /\ pc # "done"
    BY NodesAssumption, HashesAssumption DEF Init
  <2> QED BY <2>1, <1>a DEF Map!Init, Map!Pending
<1>2. IInv /\ IInv' /\ [Next]_vars => [Map!Reply]_(Map!vars)
  <2> SUFFICES ASSUME IInv, IInv', [Next]_vars
               PROVE  Map!Reply \/ UNCHANGED Map!vars
    OBVIOUS
  <2>1. UNCHANGED <<node, hash>>
    BY DEF Next, BinaryNode, ListNodeSearch, ListNodeTable, ListNodeNoRead, TableHead,
           TableBucketNext, TableBucketMatch, TableBucketEnd, SearchMatch, SearchBelow,
           SearchAbove, SearchEnd, vars
  <2>2. CASE pc = "done"
    <3>1. UNCHANGED vars
      BY <2>2 DEF Next, BinaryNode, ListNodeSearch, ListNodeTable, ListNodeNoRead, TableHead,
                  TableBucketNext, TableBucketMatch, TableBucketEnd, SearchMatch, SearchBelow,
                  SearchAbove, SearchEnd
    <3> QED BY <3>1 DEF vars, Map!vars
  <2>3. CASE pc # "done" /\ pc' # "done"
    BY <2>1, <2>3 DEF Map!vars
  <2>4. CASE pc # "done" /\ pc' = "done"
    <3>1. \/ found' \in Matches(node, hash)
          \/ found' = NotFound /\ (IsWellFormed(node) => Matches(node, hash) = {})
      BY <2>1, <2>4 DEF IInv, FoundIsStored, MissingIsAbsent
    <3> QED BY <2>1, <2>4, <3>1, <1>b, <1>c DEF Map!Reply, Map!Pending
  <2> QED BY <2>2, <2>3, <2>4
<1> QED BY <1>1, <1>2, SpecInvariant, PTL DEF Spec, ImplementsNodeMapSafety, Map!Safety
=============================================================================
