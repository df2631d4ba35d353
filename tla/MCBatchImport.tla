---------------------------- MODULE MCBatchImport ----------------------------
(***************************************************************************)
(* Instances of BatchImport for TLC: an import of up to two manifests and  *)
(* a submission that meet on task 1, or two imports of one task each.      *)
(***************************************************************************)
EXTENDS BatchImport

Shared == [b \in Batches |-> IF b \in Singles THEN {1} ELSE {1, 2}]
Split  == [b \in Batches |-> IF b = CHOOSE a \in Batches : TRUE THEN {1} ELSE {2}]
==============================================================================
