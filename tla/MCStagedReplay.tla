--------------------------- MODULE MCStagedReplay ---------------------------
(* Rows 1, 2 and 4 are of one partition, row 3 of another; 1 and 2 landed  *)
(* before.                                                                 *)
EXTENDS StagedReplay, TLC

MCPartitionOf == [r \in Rows |-> IF r = 3 THEN 2 ELSE 1]
=============================================================================
