----------------------------- MODULE MCVaultFile -----------------------------
(* VaultFile for TLC.  Processes are interchangeable.                        *)
EXTENDS VaultFile, TLC

Symmetry == Permutations(Procs)
==============================================================================
