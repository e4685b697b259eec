------------------------------- MODULE Profile -------------------------------
(***************************************************************************)
(* What the two kinds of import promise of a profile, the vault on disk and *)
(* its Library (crates/app/src/vault_backup.rs, module documentation): the  *)
(* two are replaced in one step or not at all, the Library of the vault on  *)
(* disk is never lost, and only that Library is ever shown.                 *)
(***************************************************************************)
CONSTANTS
    Ids,    \* vaults: the one this computer made, and one for each import
    None    \* no vault yet

VARIABLES
    owner,    \* whose vault is on disk
    whole,    \* imports whose backup holds a Library too
    library,  \* the owner has a whole Library, in place or about to be
    shown     \* the owner's Library is open

profile == <<owner, whole, library, shown>>

Init ==
    /\ owner \in Ids \cup {None} /\ whole = {}
    /\ library \in BOOLEAN /\ (library => owner # None) /\ shown = FALSE

\* A backup with a Library is picked for import i.
Offer(i) ==
    /\ i \notin whole /\ i # owner
    /\ whole' = whole \cup {i}
    /\ UNCHANGED <<owner, library, shown>>

\* The vault becomes i's: the first one, or one from a backup, and then with the
\* Library the backup holds, if it holds one.
Replace(i) ==
    /\ i # owner
    /\ owner' = i /\ library' = (i \in whole) /\ shown' = FALSE
    /\ UNCHANGED whole

\* The owner's Library is opened; one that has none gets an empty one.
Open ==
    /\ owner # None /\ ~shown
    /\ library' = TRUE /\ shown' = TRUE
    /\ UNCHANGED <<owner, whole>>

Close ==
    /\ shown /\ shown' = FALSE
    /\ UNCHANGED <<owner, whole, library>>

Next == (\E i \in Ids : Offer(i) \/ Replace(i)) \/ Open \/ Close

Spec == Init /\ [][Next]_profile
==============================================================================
