--------------------------- MODULE SharedManagerMC ---------------------------
(* Two threads, and three records that are not of one size, so that the      *)
(* threads have different numbers of records.                                *)
EXTENDS SharedManager

MCSizes == <<1, 3, 2>>
=============================================================================
