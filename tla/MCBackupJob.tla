----------------------------- MODULE MCBackupJob -----------------------------
(* BackupJob for TLC; the .cfg files give the bounds.  Downloads are         *)
(* interchangeable.                                                          *)
EXTENDS BackupJob, TLC

Symmetry == Permutations(Downloads)
==============================================================================
