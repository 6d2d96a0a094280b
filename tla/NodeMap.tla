------------------------------- MODULE NodeMap -------------------------------
(* What a caller of GraphGetMatchingHashFromNode relies on: a node is a map  *)
(* from hash codes to records.  One call, answered in one step.              *)
EXTENDS GraphNode

VARIABLES
    node,       \* the node asked
    hash,       \* the hash code asked for
    answer      \* index of the record, NotFound, or Pending

vars == <<node, hash, answer>>

Pending == -2

Init == /\ IsNode(node)
        /\ hash \in Nat
        /\ answer = Pending

(* A record that is returned stands for the hash.  A well formed node        *)
(* returns one whenever it has one; of a malformed node nothing more is      *)
(* promised than that no wrong record is returned.                           *)
Reply == /\ answer = Pending
         /\ \/ answer' \in Matches(node, hash)
            \/ /\ IsWellFormed(node) => Matches(node, hash) = {}
               /\ answer' = NotFound
         /\ UNCHANGED <<node, hash>>

Safety == Init /\ [][Reply]_vars

Spec == Safety /\ WF_vars(Reply)
=============================================================================
