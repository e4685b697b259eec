------------------------------ MODULE MCUpdater ------------------------------
(* Updater for TLC: two processes, one of which uses the Updates panel.      *)
EXTENDS Updater, TLC
==============================================================================
