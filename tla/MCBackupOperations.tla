-------------------------- MODULE MCBackupOperations --------------------------
(* Finite instances of BackupOperations. *)
EXTENDS BackupOperations

CONSTANTS s1, s2
TwoSites == {s1, s2}
==============================================================================
