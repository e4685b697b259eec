---------------------------- MODULE LibraryImport ----------------------------
(***************************************************************************)
(* How PATANYX replaces two encrypted files, the vault and the Library,    *)
(* when a backup is imported (crates/app/src/vault_backup.rs), how an open *)
(* finishes or undoes an interrupted import (recover), and how both meet   *)
(* AppState::open_store, lock and unlock (crates/app/src/state.rs) and the *)
(* import of an older backup behind a marker (crates/app/src/ipc.rs).      *)
(*                                                                         *)
(* A profile is numbered: 0 is the vault this computer had or creates, and *)
(* every import attempt takes the next number.  The number stands for the  *)
(* vault's master key, hence for its Library key and the check value of    *)
(* that key, and for the random names of the two folders the import makes; *)
(* both are fresh for every attempt (PendingImport::new, random_name).     *)
(*                                                                         *)
(* Every change of the disk is a step of its own, so a crash may fall      *)
(* between any two; it keeps the disk and loses the rest.                  *)
(***************************************************************************)
EXTENDS Naturals, FiniteSets

CONSTANTS
    MaxImport,   \* bound: import attempts explored
    MaxFaults,   \* bound: crashes and failed file operations explored
    MaxKept,     \* journals one journal may hold nested: MAX_JOURNAL_BYTES
    None         \* absent: no file, no folder, nothing open

ASSUME ConstantsAssumption ==
    /\ MaxImport \in Nat
    /\ MaxFaults \in Nat
    /\ MaxKept \in Nat
    /\ None \notin Nat

Ids   == 0..MaxImport
Maybe == Ids \cup {None}

VARIABLES
    \* ---- the disk, the live files -------------------------------------
    vault,       \* whose vault is at vault_path
    lib,         \* whose Library file is at store_path
    pics,        \* whose pictures the live folder "archive" holds
    marker,      \* <store>.replace-pending is there
    \* ---- the disk, what imports build aside ---------------------------
    stDir,       \* imports whose staging folder is there
    stArch,      \* ... with its picture folder still in it
    stLib,       \* ... with its Library file still in it
    oldArch,     \* import -> whose pictures archive.old-<import> holds
    \* ---- the disk, the journal ----------------------------------------
    head,        \* the import the journal file is about
    phase,       \* import -> phase in its journal, "none" without one
    superseded,  \* import -> the import whose journal its own one keeps
    tmp,         \* a journal's temporary file was left behind
    \* ---- what the Libraries hold --------------------------------------
    built,       \* Libraries that are complete, not half restored
    bare,        \* Libraries whose records name no picture
    \* ---- memory of the process ----------------------------------------
    open,        \* whose vault is unlocked (AppState::vault)
    store,       \* whose Library is attached (AppState::store)
    pc,          \* what the import, the recovery or the open does next
    job,         \* the import under way
    cur,         \* the import whose journal is being resolved
    ret,         \* where undo and clean_up return to
    via,         \* who called recover: "commit" or "open"
    stop,        \* a stop was asked for (BackupWatch)
    mine,        \* the marker on disk is the one this import wrote
    \* ---- bounds and history -------------------------------------------
    next,        \* the next import's number
    whole,       \* imports of a whole-Library backup (version 4)
    faults       \* crashes and failures so far

live   == <<vault, lib, pics, marker>>
staged == <<stDir, stArch, stLib>>
log    == <<head, phase, superseded>>
data   == <<built, bare>>
sess   == <<open, store>>
call   == <<cur, ret, via>>
hist   == <<next, whole>>
vars   == <<live, staged, oldArch, log, tmp, data, sess, pc, job, call,
            stop, mine, hist, faults>>

Phases == {"none", "preparing", "staged", "vault_committed", "swapped"}

\* The worker's and the open's steps while an import is staged: the event
\* loop runs meanwhile, and a lock or a stop may arrive.
StagingSteps == {"settle", "prepare", "build", "journalStaged", "staged"}
Steps == StagingSteps \cup
         {"idle", "failed", "undoFolder", "undoJournal", "install", "noteCommitted",
          "recover", "swap", "writeSwapped", "cleanMarker", "sweep",
          "cleanTemps", "cleanJournal", "recovered", "unfinished", "openLib",
          "legacyMarker", "legacyInstall", "legacyUnmark", "legacyRemove",
          "legacyClear"}

\* Journals in existence: the journal file and all it keeps nested.
Journals == {i \in Ids : phase[i] # "none"}

\* journal_exists: a journal, or the temporary file of one.
journal_exists == head # None \/ tmp

\* The vault recover decides by: the worker's own after a commit, else the
\* one that is unlocked.
Key == IF via = "commit" THEN job ELSE open

\* ours: the journal's check value is that of this vault's Library key.
Ours(i) == phase[i] # "preparing" /\ i = Key

\* library_in_place: the Library opens under i's key, and so does every
\* picture it names.
library_in_place(i) == lib = i /\ (pics = i \/ i \in bare)

\* The folder "archive" after the store opens: it is created if missing, and
\* pictures no record names are pruned; either may fail, unreported.
Reconciled(i, named) == IF named THEN {pics} ELSE {pics, i}

Fault   == faults < MaxFaults /\ faults' = faults + 1
NoFault == UNCHANGED faults

Go(step) == pc' = step

------------------------------------------------------------------------------
(* The journal file.  write_journal: a temporary file, flushed, renamed,    *)
(* the folder flushed.  It may fail before the rename (the temporary file   *)
(* may stay) or after it (the flush of the folder).                         *)

\* The temporary file of a journal being written may stay.
TempMayStay == tmp' \in BOOLEAN /\ (tmp => tmp')

WriteJournal(i, ph, kept) ==
    /\ head' = i
    /\ phase' = [phase EXCEPT ![i] = ph]
    /\ superseded' = [superseded EXCEPT ![i] = kept]

write_journal(i, ph, kept, onOk, onErr) ==
    \/ WriteJournal(i, ph, kept) /\ UNCHANGED tmp /\ Go(onOk) /\ NoFault
    \/ WriteJournal(i, ph, kept) /\ UNCHANGED tmp /\ Go(onErr) /\ Fault
    \/ UNCHANGED log /\ TempMayStay /\ Go(onErr) /\ Fault

\* The journal of i goes: the one it superseded is put back, or the file is
\* removed.
PutBack(i) ==
    /\ head' = superseded[i]
    /\ phase' = [phase EXCEPT ![i] = "none"]
    /\ superseded' = [superseded EXCEPT ![i] = None]

\* The journal file goes, and every journal nested in it.
DropAll ==
    /\ head' = None
    /\ phase' = [i \in Ids |-> "none"]
    /\ superseded' = [i \in Ids |-> None]

\* remove_journal_temps; can fail only if there is one.
remove_journal_temps(onOk, onErr) ==
    \/ tmp' = FALSE /\ Go(onOk) /\ NoFault
    \/ tmp /\ UNCHANGED tmp /\ Go(onErr) /\ Fault

\* remove_dir_all of i's staging folder, whole or cut short.
RemoveStaging(i) ==
    /\ stDir' = stDir \ {i}
    /\ stArch' = stArch \ {i}
    /\ stLib' = stLib \ {i}

RemoveStagingPartly(i) ==
    /\ i \in stDir
    /\ UNCHANGED stDir
    /\ stArch' \in {stArch, stArch \ {i}}
    /\ stLib' \in {stLib, stLib \ {i}}

------------------------------------------------------------------------------
(* Staging an import: the worker of start_import, stage_inner and build.    *)

StartImport ==
    /\ pc = "idle" /\ next <= MaxImport
    /\ job' = next /\ next' = next + 1 /\ whole' = whole \cup {next}
    /\ stop' = FALSE
    /\ Go("settle") /\ NoFault
    /\ UNCHANGED <<live, staged, oldArch, log, tmp, data, sess, call, mine>>

\* settle: what can be cleared without a vault is, the rest is kept, unless
\* the journal would grow past its limit.
SettleNone ==
    /\ pc = "settle" /\ head = None
    /\ remove_journal_temps("prepare", "failed")
    /\ UNCHANGED <<live, staged, oldArch, log, data, sess, job, call, stop, mine, hist>>

SettlePreparing ==
    /\ pc = "settle" /\ head # None /\ phase[head] = "preparing"
    /\ cur' = head /\ ret' = "settle" /\ Go("undoFolder") /\ NoFault
    /\ UNCHANGED <<live, staged, oldArch, log, tmp, data, sess, job, via, stop, mine, hist>>

\* Mutant: the limit on nested journals is not checked.
SettleKeepUnbounded ==
    /\ pc = "settle" /\ head # None /\ phase[head] # "preparing"
    /\ Go("prepare") /\ NoFault
    /\ UNCHANGED <<live, staged, oldArch, log, tmp, data, sess, job, call, stop, mine, hist>>

SettleKeep ==
    /\ pc = "settle" /\ head # None /\ phase[head] # "preparing"
    /\ Go(IF Cardinality(Journals) > MaxKept THEN "failed" ELSE "prepare") /\ NoFault
    /\ UNCHANGED <<live, staged, oldArch, log, tmp, data, sess, job, call, stop, mine, hist>>

\* The journal is written before the staging folder exists.
PrepareJournal ==
    /\ pc = "prepare"
    /\ write_journal(job, "preparing", head, "build", "failed")
    /\ UNCHANGED <<live, staged, oldArch, data, sess, job, call, stop, mine, hist>>

MakeStaging ==
    /\ pc = "build" /\ job \notin stDir
    /\ stDir' = stDir \cup {job}
    /\ NoFault
    /\ UNCHANGED <<live, stArch, stLib, oldArch, log, tmp, data, sess, pc, job, call, stop, mine, hist>>

MakeArchive ==
    /\ pc = "build" /\ job \in stDir /\ job \notin stArch
    /\ stArch' = stArch \cup {job}
    /\ NoFault
    /\ UNCHANGED <<live, stDir, stLib, oldArch, log, tmp, data, sess, pc, job, call, stop, mine, hist>>

CreateLibrary ==
    /\ pc = "build" /\ job \in stArch /\ job \notin stLib
    /\ stLib' = stLib \cup {job}
    /\ NoFault
    /\ UNCHANGED <<live, stDir, stArch, oldArch, log, tmp, data, sess, pc, job, call, stop, mine, hist>>

\* Every section was read and checked, no stop was seen at the last check,
\* and the restore commits.  The backup may name pictures or none.
CommitRestore ==
    /\ pc = "build" /\ job \in stLib /\ ~stop
    /\ built' = built \cup {job}
    /\ bare' \in {bare, bare \cup {job}}
    /\ Go("journalStaged") /\ NoFault
    /\ UNCHANGED <<live, staged, oldArch, log, tmp, sess, job, call, stop, mine, hist>>

\* A damaged backup, a wrong passphrase, a full disk or a stop: undone.
BuildFails ==
    /\ pc = "build"
    /\ cur' = job /\ ret' = "failed" /\ Go("undoFolder") /\ NoFault
    /\ UNCHANGED <<live, staged, oldArch, log, tmp, data, sess, job, via, stop, mine, hist>>

JournalStaged ==
    /\ pc = "journalStaged"
    /\ write_journal(job, "staged", superseded[job], "staged", "undoFolder")
    /\ cur' = job /\ ret' = "failed"
    /\ UNCHANGED <<live, staged, oldArch, data, sess, job, via, stop, mine, hist>>

\* undo: the staging folder, then the journal.
UndoFolder ==
    /\ pc = "undoFolder"
    /\ \/ /\ RemoveStaging(cur) /\ Go("undoJournal") /\ NoFault
          /\ built' = built \ {cur} /\ bare' = bare \ {cur}
       \/ /\ RemoveStagingPartly(cur) /\ Fault
          /\ Go(IF ret = "recover" THEN "unfinished" ELSE "failed")
          /\ UNCHANGED data
    /\ UNCHANGED <<live, oldArch, log, tmp, sess, job, call, stop, mine, hist>>

UndoJournal ==
    /\ pc = "undoJournal"
    /\ LET onErr == IF ret = "recover" THEN "unfinished" ELSE "failed"
       IN  \/ PutBack(cur) /\ UNCHANGED tmp /\ Go(ret) /\ NoFault
           \/ PutBack(cur) /\ UNCHANGED tmp /\ Go(onErr) /\ Fault
           \/ /\ UNCHANGED log /\ Go(onErr) /\ Fault
              /\ IF superseded[cur] = None THEN UNCHANGED tmp ELSE TempMayStay
    /\ UNCHANGED <<live, staged, oldArch, data, sess, job, call, stop, mine, hist>>

\* The import ends without a commit: backup_job::finish.
ImportFailed ==
    /\ pc = "failed"
    /\ job' = None /\ stop' = FALSE /\ Go("idle") /\ NoFault
    /\ UNCHANGED <<live, staged, oldArch, log, tmp, data, sess, call, mine, hist>>

\* staged_ready: a stop that arrived too late for the worker is honoured
\* here; otherwise the live vault and Library are closed and the commit
\* starts.
StagedStopped ==
    /\ pc = "staged" /\ stop
    /\ cur' = job /\ ret' = "failed" /\ Go("undoFolder") /\ NoFault
    /\ UNCHANGED <<live, staged, oldArch, log, tmp, data, sess, job, via, stop, mine, hist>>

\* Mutant: the previous Library stays attached over the commit.
StagedCommitsAttached ==
    /\ pc = "staged" /\ ~stop
    /\ open' = None /\ Go("install") /\ NoFault
    /\ UNCHANGED <<live, staged, oldArch, log, tmp, data, store, job, call, stop, mine, hist>>

\* Mutant: the Library is moved before the vault is installed.
StagedMovesFirst ==
    /\ pc = "staged" /\ ~stop
    /\ open' = None /\ store' = None /\ via' = "commit" /\ Go("recover") /\ NoFault
    /\ UNCHANGED <<live, staged, oldArch, log, tmp, data, job, cur, ret, stop, mine, hist>>

StagedCommits ==
    /\ pc = "staged" /\ ~stop
    /\ open' = None /\ store' = None /\ Go("install") /\ NoFault
    /\ UNCHANGED <<live, staged, oldArch, log, tmp, data, job, call, stop, mine, hist>>

------------------------------------------------------------------------------
(* The commit and recovery: commit, Staged::install, recover, finish.       *)

\* install: the commit point.  A failure leaves the journal at "staged".
Install ==
    /\ pc = "install"
    /\ \/ vault' = job /\ Go("noteCommitted") /\ NoFault
       \/ UNCHANGED vault /\ Go("failed") /\ Fault
    /\ UNCHANGED <<lib, pics, marker, staged, oldArch, log, tmp, data, sess, job, call, stop, mine, hist>>

\* Best effort: "staged" with a matching check value means the same.
NoteCommitted ==
    /\ pc = "noteCommitted"
    /\ write_journal(job, "vault_committed", superseded[job], "recover", "recover")
    /\ via' = "commit"
    /\ UNCHANGED <<live, staged, oldArch, data, sess, job, cur, ret, stop, mine, hist>>

RecoverNone ==
    /\ pc = "recover" /\ head = None
    /\ remove_journal_temps("recovered", "unfinished")
    /\ UNCHANGED <<live, staged, oldArch, log, data, sess, job, call, stop, mine, hist>>

\* Mutant: a staged import is undone whichever vault is open.
RecoverUndoAny ==
    /\ pc = "recover" /\ head # None
    /\ phase[head] \in {"preparing", "staged"}
    /\ cur' = head /\ ret' = "recover" /\ Go("undoFolder") /\ NoFault
    /\ UNCHANGED <<live, staged, oldArch, log, tmp, data, sess, job, via, stop, mine, hist>>

\* Mutant: the journal goes and the staging folder stays.
RecoverUndoJournalOnly ==
    /\ pc = "recover" /\ head # None
    /\ \/ phase[head] = "preparing"
       \/ phase[head] = "staged" /\ ~Ours(head)
    /\ cur' = head /\ ret' = "recover" /\ Go("undoJournal") /\ NoFault
    /\ UNCHANGED <<live, staged, oldArch, log, tmp, data, sess, job, via, stop, mine, hist>>

\* Before the commit: undone, which may put back an earlier journal.
RecoverUndo ==
    /\ pc = "recover" /\ head # None
    /\ \/ phase[head] = "preparing"
       \/ phase[head] = "staged" /\ ~Ours(head)
    /\ cur' = head /\ ret' = "recover" /\ Go("undoFolder") /\ NoFault
    /\ UNCHANGED <<live, staged, oldArch, log, tmp, data, sess, job, via, stop, mine, hist>>

\* Committed for another vault, or claims a swap this vault does not see.
RecoverForeign ==
    /\ pc = "recover" /\ head # None
    /\ \/ phase[head] = "vault_committed" /\ ~Ours(head)
       \/ phase[head] = "swapped" /\ ~(Ours(head) /\ library_in_place(head))
    /\ Go("unfinished") /\ NoFault
    /\ UNCHANGED <<live, staged, oldArch, log, tmp, data, sess, job, call, stop, mine, hist>>

\* finish, its first check: the staging folder is a real one.
RecoverFinish ==
    /\ pc = "recover" /\ head # None
    /\ phase[head] \in {"staged", "vault_committed"} /\ Ours(head)
    /\ cur' = head /\ NoFault
    /\ Go(IF head \in stDir THEN "swap" ELSE "unfinished")
    /\ UNCHANGED <<live, staged, oldArch, log, tmp, data, sess, job, ret, via, stop, mine, hist>>

RecoverSwapped ==
    /\ pc = "recover" /\ head # None
    /\ phase[head] = "swapped" /\ Ours(head) /\ library_in_place(head)
    /\ cur' = head /\ ret' = "recover" /\ Go("cleanMarker") /\ NoFault
    /\ UNCHANGED <<live, staged, oldArch, log, tmp, data, sess, job, via, stop, mine, hist>>

\* Mutant: the live pictures are copied aside, not moved.
CopyLiveAside ==
    /\ pc = "swap" /\ cur \in stArch /\ pics # None /\ oldArch[cur] = None
    /\ oldArch' = [oldArch EXCEPT ![cur] = pics]
    /\ NoFault
    /\ UNCHANGED <<live, staged, log, tmp, data, sess, pc, job, call, stop, mine, hist>>

\* finish: each move only if what it moves is still there.
MoveLiveAside ==
    /\ pc = "swap" /\ cur \in stArch /\ pics # None /\ oldArch[cur] = None
    /\ oldArch' = [oldArch EXCEPT ![cur] = pics]
    /\ pics' = None
    /\ NoFault
    /\ UNCHANGED <<vault, lib, marker, staged, log, tmp, data, sess, pc, job, call, stop, mine, hist>>

MoveArchiveIn ==
    /\ pc = "swap" /\ cur \in stArch /\ pics = None
    /\ pics' = cur /\ stArch' = stArch \ {cur}
    /\ NoFault
    /\ UNCHANGED <<vault, lib, marker, stDir, stLib, oldArch, log, tmp, data, sess, pc, job, call, stop, mine, hist>>

MoveLibraryIn ==
    /\ pc = "swap" /\ cur \notin stArch /\ cur \in stLib
    /\ lib' = cur /\ stLib' = stLib \ {cur}
    /\ NoFault
    /\ UNCHANGED <<vault, pics, marker, stDir, stArch, oldArch, log, tmp, data, sess, pc, job, call, stop, mine, hist>>

SwapVerified ==
    /\ pc = "swap" /\ cur \notin stArch \cup stLib
    /\ Go(IF library_in_place(cur) THEN "writeSwapped" ELSE "unfinished") /\ NoFault
    /\ UNCHANGED <<live, staged, oldArch, log, tmp, data, sess, job, call, stop, mine, hist>>

\* Both a live picture folder and the aside one: neither is touched.
SwapBlocked == cur \in stArch /\ pics # None /\ oldArch[cur] # None

\* The move is blocked, or a rename, the flush of the folder or a read of the
\* check fails.
SwapFails ==
    /\ pc = "swap" /\ Go("unfinished")
    /\ IF SwapBlocked THEN NoFault ELSE Fault
    /\ UNCHANGED <<live, staged, oldArch, log, tmp, data, sess, job, call, stop, mine, hist>>

WriteSwapped ==
    /\ pc = "writeSwapped"
    /\ write_journal(cur, "swapped", superseded[cur], "cleanMarker", "unfinished")
    /\ ret' = "done"
    /\ UNCHANGED <<live, staged, oldArch, data, sess, job, cur, via, stop, mine, hist>>

\* clean_up: the marker first; what cannot be deleted after it is left for
\* the next open and does not keep the Library shut.
CleanMarker ==
    /\ pc = "cleanMarker"
    /\ \/ marker' = FALSE /\ Go("sweep") /\ NoFault
       \/ marker /\ UNCHANGED marker /\ Go("unfinished") /\ Fault
    /\ UNCHANGED <<vault, lib, pics, staged, oldArch, log, tmp, data, sess, job, call, stop, mine, hist>>

\* The next step when a clean_up or a discard stops at a failure.
GiveUp == IF ret # "discard" THEN "recovered"
          ELSE IF journal_exists THEN "recover" ELSE "openLib"

\* remove_folder and sweep_import_folders, one folder a step.
SweepFolder ==
    /\ pc = "sweep"
    /\ \E i \in Ids :
          \/ /\ i \in stDir
             /\ UNCHANGED oldArch
             /\ \/ RemoveStaging(i) /\ UNCHANGED pc /\ NoFault
                \/ RemoveStagingPartly(i) /\ Go(GiveUp) /\ Fault
          \/ /\ oldArch[i] # None
             /\ UNCHANGED staged
             /\ \/ /\ oldArch' = [oldArch EXCEPT ![i] = None]
                   /\ UNCHANGED pc /\ NoFault
                \/ UNCHANGED oldArch /\ Go(GiveUp) /\ Fault
    /\ UNCHANGED <<live, log, tmp, data, sess, job, call, stop, mine, hist>>

SweepDone ==
    /\ pc = "sweep" /\ stDir = {} /\ \A i \in Ids : oldArch[i] = None
    /\ Go("cleanTemps") /\ NoFault
    /\ UNCHANGED <<live, staged, oldArch, log, tmp, data, sess, job, call, stop, mine, hist>>

CleanTemps ==
    /\ pc = "cleanTemps"
    /\ remove_journal_temps("cleanJournal", GiveUp)
    /\ UNCHANGED <<live, staged, oldArch, log, data, sess, job, call, stop, mine, hist>>

\* Mutant: a finished import puts back the journal it superseded.
CleanJournalPutsBack ==
    /\ pc = "cleanJournal"
    /\ \/ /\ NoFault
          /\ IF ret = "discard" THEN DropAll ELSE PutBack(cur)
          /\ Go(CASE ret = "done" -> "recovered"
                  [] ret = "recover" -> "recover"
                  [] OTHER -> "openLib")
       \/ DropAll /\ Fault /\ Go(IF ret = "discard" THEN "openLib" ELSE "recovered")
       \/ head # None /\ UNCHANGED log /\ Fault /\ Go(GiveUp)
    /\ UNCHANGED <<live, staged, oldArch, tmp, data, sess, job, call, stop, mine, hist>>

\* remove_journal; a failure may come before or after the removal.
CleanJournal ==
    /\ pc = "cleanJournal"
    /\ \/ /\ DropAll /\ NoFault
          /\ Go(CASE ret = "done" -> "recovered"
                  [] ret = "recover" -> "recover"
                  [] OTHER -> "openLib")
       \/ DropAll /\ Fault /\ Go(IF ret = "discard" THEN "openLib" ELSE "recovered")
       \/ head # None /\ UNCHANGED log /\ Fault /\ Go(GiveUp)
    /\ UNCHANGED <<live, staged, oldArch, tmp, data, sess, job, call, stop, mine, hist>>

\* After a commit: committed_ready attaches the Library the worker opened,
\* unless the marker says that it was not replaced.
OpenImported ==
    /\ pc = "recovered" /\ via = "commit"
    /\ open' = job /\ job' = None /\ Go("idle")
    /\ \/ /\ lib = job /\ ~marker
          /\ store' = job /\ NoFault
          /\ pics' \in Reconciled(job, job \notin bare)
       \/ /\ store' = None /\ UNCHANGED pics
          /\ IF lib = job /\ ~marker THEN Fault ELSE NoFault
    /\ UNCHANGED <<vault, lib, marker, staged, oldArch, log, tmp, data, call, stop, mine, hist>>

RecoveredForOpen ==
    /\ pc = "recovered" /\ via = "open"
    /\ Go("openLib") /\ NoFault
    /\ UNCHANGED <<live, staged, oldArch, log, tmp, data, sess, job, call, stop, mine, hist>>

\* library_import_unfinished: the Library stays shut.
LibraryUnfinished ==
    /\ pc = "unfinished"
    /\ open' = Key /\ store' = None /\ job' = None /\ Go("idle") /\ NoFault
    /\ UNCHANGED <<live, staged, oldArch, log, tmp, data, call, stop, mine, hist>>

------------------------------------------------------------------------------
(* Unlock, create, lock: open_store and lock_vault.                         *)

\* Mutant: an unlock opens the Library without running recovery.
UnlockNoRecovery ==
    /\ pc = "idle" /\ open = None /\ vault # None
    /\ open' = vault /\ via' = "open" /\ Go("openLib") /\ NoFault
    /\ UNCHANGED <<live, staged, oldArch, log, tmp, data, store, job, cur, ret, stop, mine, hist>>

\* vault_unlock, vault_unlock_recovery and vault_create are refused while a
\* job runs; the rest of open_store follows without yielding.
Unlock ==
    /\ pc = "idle" /\ open = None /\ vault # None
    /\ open' = vault /\ via' = "open"
    /\ Go(IF journal_exists THEN "recover" ELSE "openLib") /\ NoFault
    /\ UNCHANGED <<live, staged, oldArch, log, tmp, data, store, job, cur, ret, stop, mine, hist>>

CreateVault ==
    /\ pc = "idle" /\ vault = None
    /\ vault' = 0 /\ open' = 0 /\ via' = "open"
    /\ Go(IF journal_exists THEN "recover" ELSE "openLib") /\ NoFault
    /\ UNCHANGED <<lib, pics, marker, staged, oldArch, log, tmp, data, store, job, cur, ret, stop, mine, hist>>

\* open_store past recovery: while the marker and a Library exist, that
\* Library stays shut.
OpenRefused ==
    /\ pc = "openLib" /\ marker /\ lib # None
    /\ store' = None /\ job' = None /\ Go("idle") /\ NoFault
    /\ UNCHANGED <<live, staged, oldArch, log, tmp, data, open, call, stop, mine, hist>>

OpenLibrary ==
    /\ pc = "openLib" /\ ~marker /\ lib # None
    /\ job' = None /\ Go("idle")
    /\ \/ /\ lib = open /\ store' = open /\ NoFault
          /\ pics' \in Reconciled(open, open \notin bare)
       \/ /\ store' = None /\ UNCHANGED pics
          /\ IF lib = open THEN Fault ELSE NoFault
    /\ UNCHANGED <<vault, lib, marker, staged, oldArch, log, tmp, data, open, call, stop, mine, hist>>

\* No Library: the marker has nothing left to guard and goes, best effort,
\* and a Library is created.
CreateMissing ==
    /\ pc = "openLib" /\ lib = None
    /\ job' = None /\ Go("idle")
    /\ \/ /\ lib' = open /\ store' = open
          /\ built' = built \cup {open} /\ bare' = bare \cup {open}
          /\ pics' \in Reconciled(open, FALSE)
          /\ \/ marker' = FALSE /\ NoFault
             \/ marker /\ UNCHANGED marker /\ Fault
       \/ /\ store' = None /\ Fault /\ marker' \in BOOLEAN /\ (marker' => marker)
          /\ UNCHANGED <<lib, pics, data>>
    /\ UNCHANGED <<vault, staged, oldArch, log, tmp, open, call, stop, mine, hist>>

\* A page is archived with its picture, through store_for_write: refused
\* while an import runs.
ArchivePage ==
    /\ pc = "idle" /\ open # None /\ store = open /\ store \in bare
    /\ pics' = store /\ bare' = bare \ {store}
    /\ NoFault
    /\ UNCHANGED <<vault, lib, marker, staged, oldArch, log, tmp, built, sess, pc, job, call, stop, mine, hist>>

Staging ==
    \/ pc \in StagingSteps
    \/ pc \in {"undoFolder", "undoJournal"} /\ ret # "recover"

\* lock_vault: stops an import that has not committed; during a commit it
\* waits.  The Library stays attached.
Lock ==
    /\ pc = "idle" \/ Staging
    /\ open # None
    /\ open' = None /\ stop' = Staging /\ NoFault
    /\ UNCHANGED <<live, staged, oldArch, log, tmp, data, store, pc, job, call, mine, hist>>

\* backup_cancel.
Cancel ==
    /\ Staging /\ ~stop
    /\ stop' = TRUE /\ NoFault
    /\ UNCHANGED <<live, staged, oldArch, log, tmp, data, sess, pc, job, call, mine, hist>>

------------------------------------------------------------------------------
(* The import of an older backup (versions 1 and 2): vault_import,          *)
(* replace_library, finish_library_replacement.  Runs without yielding.     *)

StartLegacyImport ==
    /\ pc = "idle" /\ next <= MaxImport
    /\ job' = next /\ next' = next + 1 /\ Go("legacyMarker") /\ NoFault
    /\ UNCHANGED <<live, staged, oldArch, log, tmp, data, sess, call, stop, mine, whole>>

\* Mutant: the previous Library is removed before the vault is replaced.
RemovesFirst ==
    /\ pc = "legacyMarker"
    /\ mine' = ~marker
    /\ \/ marker' = TRUE /\ lib' = None /\ Go("legacyInstall") /\ NoFault
       \/ ~marker /\ marker' \in BOOLEAN /\ UNCHANGED lib /\ Go("failed") /\ Fault
    /\ UNCHANGED <<vault, pics, staged, oldArch, log, tmp, data, sess, job, call, stop, hist>>

\* A marker already there is another import's, left alone.
EstablishMarker ==
    /\ pc = "legacyMarker"
    /\ mine' = ~marker
    /\ \/ marker' = TRUE /\ Go("legacyInstall") /\ NoFault
       \/ ~marker /\ marker' \in BOOLEAN /\ Go("failed") /\ Fault
    /\ UNCHANGED <<vault, lib, pics, staged, oldArch, log, tmp, data, sess, job, call, stop, hist>>

\* Vault::import_encrypted, with the live vault and Library closed first.
\* It fails for a bad file as for a failed write.
LegacyInstall ==
    /\ pc = "legacyInstall"
    /\ store' = None
    /\ \/ vault' = job /\ open' = job /\ Go("legacyRemove")
       \/ UNCHANGED vault /\ open' = None /\ Go(IF mine THEN "legacyUnmark" ELSE "failed")
    /\ NoFault
    /\ UNCHANGED <<lib, pics, marker, staged, oldArch, log, tmp, data, job, call, stop, mine, hist>>

\* The failed import takes its own marker away.
LegacyUnmark ==
    /\ pc = "legacyUnmark"
    /\ \/ marker' = FALSE /\ NoFault
       \/ marker' \in BOOLEAN /\ Fault
    /\ Go("failed")
    /\ UNCHANGED <<vault, lib, pics, staged, oldArch, log, tmp, data, sess, job, call, stop, mine, hist>>

\* Mutant: the marker is cleared although the Library could not be removed.
LegacyRemoveIgnored ==
    /\ pc = "legacyRemove"
    /\ \/ lib' = None /\ NoFault
       \/ lib' \in {lib, None} /\ Fault
    /\ Go("legacyClear")
    /\ UNCHANGED <<vault, pics, marker, staged, oldArch, log, tmp, data, sess, job, call, stop, mine, hist>>

\* The previous Library goes, durably, before the marker does.
LegacyRemove ==
    /\ pc = "legacyRemove"
    /\ \/ lib' = None /\ Go("legacyClear") /\ NoFault
       \/ lib' \in {lib, None} /\ Go("failed") /\ Fault
    /\ UNCHANGED <<vault, pics, marker, staged, oldArch, log, tmp, data, sess, job, call, stop, mine, hist>>

\* Then discard sweeps what whole-Library imports left, and the open follows
\* whatever became of that.
LegacyClear ==
    /\ pc = "legacyClear"
    /\ \/ marker' = FALSE /\ Go("sweep") /\ NoFault
       \/ marker' \in BOOLEAN /\ Go("failed") /\ Fault
    /\ ret' = "discard" /\ via' = "open"
    /\ UNCHANGED <<vault, lib, pics, staged, oldArch, log, tmp, data, sess, job, cur, stop, mine, hist>>

------------------------------------------------------------------------------
\* The process ends, killed or not, at any point.  A journal being written
\* may leave its temporary file.
WritingJournal ==
    \/ pc \in {"prepare", "journalStaged", "noteCommitted", "writeSwapped"}
    \/ pc = "undoJournal" /\ superseded[cur] # None

Crash ==
    /\ Fault
    /\ IF WritingJournal THEN TempMayStay ELSE UNCHANGED tmp
    /\ open' = None /\ store' = None /\ job' = None /\ cur' = None
    /\ ret' = "done" /\ via' = "open" /\ stop' = FALSE /\ mine' = FALSE
    /\ Go("idle")
    /\ UNCHANGED <<live, staged, oldArch, log, data, hist>>

Init ==
    /\ \/ vault = None /\ lib = None /\ pics = None /\ built = {} /\ bare = {}
       \/ vault = 0 /\ lib = None /\ pics = None /\ built = {} /\ bare = {}
       \/ vault = 0 /\ lib = 0 /\ pics \in {0, None} /\ built = {0} /\ bare = {0}
       \/ vault = 0 /\ lib = 0 /\ pics = 0 /\ built = {0} /\ bare = {}
    /\ marker = FALSE
    /\ stDir = {} /\ stArch = {} /\ stLib = {}
    /\ oldArch = [i \in Ids |-> None]
    /\ head = None /\ phase = [i \in Ids |-> "none"]
    /\ superseded = [i \in Ids |-> None] /\ tmp = FALSE
    /\ open = None /\ store = None /\ pc = "idle" /\ job = None /\ cur = None
    /\ ret = "done" /\ via = "open" /\ stop = FALSE /\ mine = FALSE
    /\ next = 1 /\ whole = {} /\ faults = 0

StageStep ==
    \/ SettleNone \/ SettlePreparing \/ SettleKeep \/ PrepareJournal
    \/ MakeStaging \/ MakeArchive \/ CreateLibrary \/ CommitRestore \/ BuildFails
    \/ JournalStaged \/ UndoFolder \/ UndoJournal \/ ImportFailed
    \/ StagedStopped \/ StagedCommits

RecoverStep ==
    \/ Install \/ NoteCommitted
    \/ RecoverNone \/ RecoverUndo \/ RecoverForeign \/ RecoverFinish \/ RecoverSwapped
    \/ MoveLiveAside \/ MoveArchiveIn \/ MoveLibraryIn
    \/ SwapVerified \/ SwapFails \/ WriteSwapped
    \/ CleanMarker \/ SweepFolder \/ SweepDone \/ CleanTemps \/ CleanJournal
    \/ OpenImported \/ RecoveredForOpen \/ LibraryUnfinished

OpenStep == OpenRefused \/ OpenLibrary \/ CreateMissing

LegacyStep ==
    EstablishMarker \/ LegacyInstall \/ LegacyUnmark \/ LegacyRemove \/ LegacyClear

Next ==
    \/ StartImport \/ StageStep \/ RecoverStep
    \/ Unlock \/ CreateVault \/ OpenStep
    \/ ArchivePage \/ Lock \/ Cancel
    \/ StartLegacyImport \/ LegacyStep
    \/ Crash

Spec == Init /\ [][Next]_vars
------------------------------------------------------------------------------
(* Properties.                                                              *)

Flags == marker \in BOOLEAN /\ tmp \in BOOLEAN /\ stop \in BOOLEAN /\ mine \in BOOLEAN

Types ==
    /\ vault \in Maybe /\ lib \in Maybe /\ pics \in Maybe
    /\ stDir \subseteq Ids /\ stArch \subseteq Ids /\ stLib \subseteq Ids
    /\ oldArch \in [Ids -> Maybe]
    /\ head \in Maybe /\ phase \in [Ids -> Phases] /\ superseded \in [Ids -> Maybe]
    /\ built \subseteq Ids /\ bare \subseteq Ids
    /\ open \in Maybe /\ store \in Maybe
    /\ pc \in Steps /\ job \in Maybe /\ cur \in Maybe
    /\ ret \in {"settle", "recover", "failed", "done", "discard"}
    /\ via \in {"commit", "open"}
    /\ next \in 1..(MaxImport + 1) /\ whole \subseteq Ids
    /\ faults \in 0..MaxFaults

\* The types, and the journal's limit: one journal and at most MaxKept nested
\* in it (settle refuses a further import, MAX_JOURNAL_BYTES).
TypeOK == Types /\ Flags /\ Cardinality(Journals) <= MaxKept + 1

\* i's Library is live, complete, and has every picture its records name.
Complete(i) == library_in_place(i) /\ i \in built

\* i's Library is in two known places, and recovery can finish the move.
Pending(i) ==
    /\ phase[i] \in {"staged", "vault_committed"}
    /\ i \in stDir \cap built
    /\ i \in stArch \/ pics = i
    /\ i \in stLib \/ lib = i

\* The attached Library is always the one of the vault on disk, complete and
\* with its own pictures: never the previous profile's, never a half-moved or
\* half-restored one.
AttachedLibrary == store # None => store = vault /\ Complete(store)

\* "No moment in which either is lost": once an import's vault is the vault
\* on disk, its Library is in place or still completely on disk under a
\* journal that says so, after any crash or failure.
NothingLost == vault \in whole => Complete(vault) \/ Pending(vault)

\* For a vault that a whole-Library import installed, recovery never meets a
\* journal it has to leave alone (committed for another vault, or a swap it
\* cannot see): every journal on the way is one it may undo, or its own.
RecoveryDecides ==
    pc = "recover" /\ head # None /\ Key \in whole =>
        \/ phase[head] = "preparing"
        \/ phase[head] = "staged" /\ head # Key
        \/ head = Key /\ (Pending(head) \/ Complete(head))

\* The move never finds both a live picture folder and the aside one, the
\* case finish refuses to touch.
SwapNeverBlocked == pc = "swap" => ~SwapBlocked

\* No crash leaves a copy of a Library that nothing will ever remove: every
\* staging folder is named by a journal still on disk, and once an import is
\* over, its journal gone, so is every folder any import moved pictures to.
NoOrphanFolders ==
    /\ stDir \subseteq Journals
    /\ vault \in whole /\ Journals = {} => \A i \in Ids : oldArch[i] = None

\* What the comment on undo says of every call of it: "Only valid before the
\* swap began: the live Library and its pictures were never touched."
UndoOnlyBeforeSwap ==
    pc = "undoFolder" => oldArch[cur] = None /\ pics # cur /\ lib # cur

\* What the comment on library_replace_marker says of it: it stands "while a
\* profile import could not remove the previous profile's Library".
MarkerGuardsPrevious == pc = "idle" /\ marker /\ lib # None => lib # vault

\* open_store never opens a Library of another vault, nor one whose pictures
\* it would prune, nor creates an empty one while the vault's own is still to be
\* moved in: when recovery and the marker let it through, what it finds is the
\* vault's own, or there is none.
OpensOwnLibrary ==
    pc = "openLib" => /\ ~marker /\ lib # None => Complete(open)
                      /\ lib = None => ~Pending(open)

\* While a vault stays the vault on disk, its complete Library stays in
\* place: no import that fails, is stopped or is undone disturbs it.
LiveLibraryKept ==
    [][vault # None /\ vault' = vault /\ Complete(vault) => Complete(vault)']_vars

\* The owner of the profile has a Library that is in place or only has to be moved.
HasLibrary == vault # None /\ (Complete(vault) \/ Pending(vault))

P == INSTANCE Profile
        WITH owner <- vault, library <- HasLibrary, shown <- (store # None)

\* Through every crash, failure and journal, what the disk and the session show is
\* a profile whose vault and Library are replaced together: the files implement the
\* abstract specification of an import.
ReplacedTogether == P!Spec

------------------------------------------------------------------------------
(* Liveness.  The worker and the event loop always take their next step, and *)
(* the person unlocks again after a lock or a restart; an unlocked vault is  *)
(* locked at some point (the idle lock).  Failures are finite (MaxFaults).   *)

Fairness == WF_vars(StageStep \/ RecoverStep \/ OpenStep \/ LegacyStep) /\ WF_vars(Unlock) /\ WF_vars(Lock)

FairSpec == Spec /\ Fairness

\* An import that replaced the vault ends with its Library attached, through
\* any finite number of crashes and failures, unless another import replaces
\* the vault again or one of an older backup left its marker.
ImportedLibraryOpens ==
    \A i \in Ids :
        vault = i /\ i \in whole ~> store = i \/ vault # i \/ marker

==============================================================================
