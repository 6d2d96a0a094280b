------------------------------- MODULE Retries -------------------------------
(* What the caller of a transform relies on: a call works its way through a  *)
(* finite piece of work, a call that had too small a buffer is made again    *)
(* with a larger one, and a buffer that is enough is never too small, so     *)
(* that there is an answer.                                                  *)
EXTENDS Integers

VARIABLES
    state,      \* "calling", "short" of buffer, or "answered"
    left,       \* the work that is left of the call
    size,       \* the size of the buffer
    enough      \* a size that is enough

vars == <<state, left, size, enough>>

Init == /\ state = "calling"
        /\ left \in Nat \ {0}
        /\ {size, enough} \subseteq Nat

Work == /\ state = "calling"
        /\ left' \in 1 .. left - 1
        /\ UNCHANGED <<state, size, enough>>

Return == /\ state = "calling"
          /\ left' = 0
          /\ \/ state' = "answered"
             \/ size < enough /\ state' = "short"
          /\ UNCHANGED <<size, enough>>

CallAgain == /\ state = "short"
             /\ state' = "calling"
             /\ left' \in Nat \ {0}
             /\ size' \in Nat
             /\ size' > size
             /\ UNCHANGED enough

Next == Work \/ Return \/ CallAgain

Safety == Init /\ [][Next]_vars

(* Work makes left smaller, and CallAgain brings size closer to enough, so   *)
(* that only finitely many steps come before the answer.                     *)
Spec == Safety /\ <>(state = "answered")
=============================================================================
