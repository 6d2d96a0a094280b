------------------------------- MODULE Descent -------------------------------
(* What is left of something that ends, told by a tuple of numbers: the      *)
(* first of them that changes goes down, and never below zero, so that no    *)
(* tuple descends for ever.                                                  *)
EXTENDS Integers

Lower(a, b) ==
    \E k \in DOMAIN b : /\ a[k] \in 0 .. (b[k] - 1)
                        /\ \A j \in 1 .. (k - 1) : a[j] = b[j]
=============================================================================
