----------------------------- MODULE SharedData -----------------------------
(* What users of the resource manager rely on: whoever holds a data set can  *)
(* read it until he lets go of it, everyone who asks is given the current    *)
(* one, and a data set that is neither current nor held goes away at once    *)
(* and for good.                                                             *)
EXTENDS Integers

CONSTANTS
    DataSets,
    NoDataSet

VARIABLES
    current,    \* the data set that is given out
    held,       \* how many hold each data set
    gone        \* the data sets whose memory was given back

vars == <<current, held, gone>>

Init ==
    /\ current \in DataSets
    /\ held = [d \in DataSets |-> 0]
    /\ gone = {}

Acquire ==
    /\ current # NoDataSet
    /\ held' = [held EXCEPT ![current] = @ + 1]
    /\ UNCHANGED <<current, gone>>

LetGo(d) ==
    /\ held[d] > 0
    /\ held' = [held EXCEPT ![d] = @ - 1]
    /\ gone' = IF held[d] = 1 /\ d # current THEN gone \cup {d} ELSE gone
    /\ UNCHANGED current

(* d becomes current; NoDataSet ends the sharing.                            *)
Install(d) ==
    /\ current # NoDataSet
    /\ d \notin gone \cup {current}
    /\ current' = d
    /\ gone' = IF held[current] = 0 THEN gone \cup {current} ELSE gone
    /\ UNCHANGED held

(* A data set that never became current.                                     *)
Discard(d) ==
    /\ d \notin gone \cup {current}
    /\ held[d] = 0
    /\ gone' = gone \cup {d}
    /\ UNCHANGED <<current, held>>

Next ==
    \/ Acquire
    \/ \E d \in DataSets : LetGo(d) \/ Install(d) \/ Discard(d)
    \/ Install(NoDataSet)

Spec == Init /\ [][Next]_vars

(* Nobody holds, and nobody is given, memory that was given back.            *)
HeldIsThere ==
    \A d \in DataSets : d = current \/ held[d] > 0 => d \notin gone
=============================================================================
