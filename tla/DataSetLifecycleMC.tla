------------------------- MODULE DataSetLifecycleMC -------------------------
(* Small instances of DataSetLifecycle.                                      *)
EXTENDS DataSetLifecycle, TLC

CONSTANTS t1, t2, d1, d2, d3

(* Each data set has its own number of available components.                 *)
MCComponents == (d1 :> 1) @@ (d2 :> 2) @@ (d3 :> 3)

MCThreads == {t1, t2}
MCDataSets == {d1, d2, d3}

AllCalls == {"process", "processBase", "c", "view", "refresh"}

ProcessAndRefresh == {"process", "refresh"}
=============================================================================
