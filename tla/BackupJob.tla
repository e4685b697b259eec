------------------------------ MODULE BackupJob ------------------------------
(***************************************************************************)
(* A backup or an import as a job (crates/app/src/backup_job.rs): the event *)
(* loop, the job's worker thread, and everything that may reach the event   *)
(* loop while the worker runs: a stop, a lock, a close, the close's grace    *)
(* timer, a finished download, the answer of an activation call, an unlock. *)
(*                                                                         *)
(* Each handler of the event loop is one step: it never waits on a worker,  *)
(* and a worker never touches AppState.  What the workers do to the disk is *)
(* LibraryImport; here a worker only ends, and its import is numbered by    *)
(* its job: vault and Library i are those that job i installs, 0 the ones   *)
(* this computer had.                                                       *)
(***************************************************************************)
EXTENDS Naturals, Sequences, FiniteSets

CONSTANTS
    MaxJobs,     \* bound: jobs and imports of an older backup explored
    Downloads,   \* bound: the downloads that may finish
    None         \* absent: nothing open, no call

ASSUME JobsAssumption == MaxJobs \in Nat /\ None \notin Nat

Ids   == 0..MaxJobs
Maybe == Ids \cup {None}

VARIABLES
    \* ---- the disk ------------------------------------------------------
    diskVault,    \* whose vault is at vault_path
    diskLib,      \* whose Library is at store_path
    records,      \* Library -> the downloads it has a record of
    whole,        \* vaults that came with a Library of their own (version 4)
    \* ---- AppState ------------------------------------------------------
    vault,        \* the vault that is open
    store,        \* the Library that is attached
    storeLock,    \* this process holds the Library lock
    epoch,        \* vault_epoch
    pending,      \* pending_activation_event: the vault its call was made for
    call,         \* the activation call in flight: its vault and epoch
    \* ---- backup_job ----------------------------------------------------
    job,          \* the running job, 0 for none
    kind,         \* JobKind
    phase,        \* JobPhase
    stopped,      \* its BackupWatch was told to stop
    lock_after,
    close_requests,
    exit_when_done,
    hold,         \* ImportHold
    kept,         \* the download records the import keeps, taken at its start
    parked,       \* parked_downloads
    \* ---- threads and events ----------------------------------------------
    worker,       \* what the job's worker is doing, "none" once it has ended
    mailbox,      \* the result it left
    queue,        \* the event loop's channel: bells and CloseWindow
    grace,        \* close grace timers still running
    \* ---- the program, and history ----------------------------------------
    running,      \* the event loop runs
    next,         \* the next job's number
    lockWanted,   \* a lock was asked for, and nothing asked to open since
    closing,      \* a close was accepted: the window is to close
    finished,     \* downloads that finished
    told,         \* ... recorded, and said so
    failed,       \* ... not recorded, and said so
    unsaid,       \* ... not recorded, and nothing said
    due,          \* ... recorded, and no import said it did not keep them
    receipts,     \* <<the vault a call was made for, the vault it wrote>>
    shown,        \* imports whose recovery key went to the chrome
    lost          \* imports whose key was said to be lost

disk     == <<diskVault, diskLib, whole>>
app      == <<vault, store, storeLock>>
licence  == <<epoch, pending, call, receipts>>
asked    == <<stopped, lock_after, close_requests, exit_when_done>>
held     == <<hold, kept>>
thread   == <<worker, mailbox>>
dl       == <<records, parked, finished, told, failed, unsaid, due>>
keys     == <<shown, lost>>
wishes   == <<lockWanted, closing>>
vars     == <<disk, app, licence, job, kind, phase, asked, held, thread, queue,
              grace, running, next, dl, keys, wishes>>

CloseWindow == 0      \* UserEvent::CloseWindow; n > 0 is Bell::Ready(n)

NoHold == [newly_locked |-> FALSE, transaction |-> FALSE, had_live |-> FALSE, was_closed |-> FALSE]

\* refuse_if_running, importing, committing.
Running    == job # 0
importing  == job # 0 /\ kind = "import"
committing == job # 0 /\ phase = "committing"

Post(event) == queue' = Append(queue, event)

------------------------------------------------------------------------------
(* Starting and ending a job.                                               *)

new_job(k) ==
    /\ job' = next /\ next' = next + 1
    /\ kind' = k /\ phase' = "working"
    /\ stopped' = FALSE /\ lock_after' = FALSE
    /\ close_requests' = 0 /\ exit_when_done' = FALSE
    /\ mailbox' = "empty"

\* start_export: on a snapshot of the open vault and Library.
start_export ==
    /\ running /\ ~Running /\ next <= MaxJobs /\ vault # None
    /\ new_job("export") /\ worker' = "export"
    /\ UNCHANGED <<disk, app, licence, held, queue, grace, running, dl, keys, wishes>>

\* start_import: takes the Library lock and the import lock, and the download
\* records of the attached Library.
start_import ==
    /\ running /\ ~Running /\ next <= MaxJobs
    /\ new_job("import") /\ worker' = "stage"
    /\ storeLock' = TRUE
    /\ hold' = [newly_locked |-> ~storeLock, transaction |-> TRUE, had_live |-> FALSE,
                was_closed |-> store = None /\ diskLib # None]
    /\ kept' = IF store = None THEN {} ELSE records[store]
    /\ whole' = whole \cup {next}
    /\ lockWanted' = FALSE
    /\ UNCHANGED <<diskVault, diskLib, vault, store, licence, queue, grace, running, dl, keys, closing>>

\* handle_event: a parked answer, or one just arrived, for vault v.  With the
\* vault locked or an import running it is kept, else written to the open
\* vault: the licence is the same in both, as in a backup of this profile.
Deliver(v, openVault, duringImport) ==
    IF openVault = None \/ duringImport
    THEN pending' = v /\ UNCHANGED receipts
    ELSE pending' = None /\ receipts' = receipts \cup {<<v, openVault>>}

\* record_parked_download for each of ds, into the Library s attached now; a
\* save may fail, and with none attached every one does.
Record(ds, s) ==
    \E saved \in SUBSET ds :
        /\ s = None => saved = {}
        /\ records' = [i \in Ids |-> IF i = s THEN records[i] \cup saved ELSE records[i]]
        /\ told' = told \cup saved /\ due' = due \cup saved
        /\ failed' = failed \cup (ds \ saved)

\* release_unused_library_lock.
Released(lockHeld, newly, s) == lockHeld /\ ~(newly /\ s = None)

\* Mutant: the parked downloads are dropped.
finish_unrecorded(v, s, original_kept, lockNow) ==
    /\ job' = 0 /\ mailbox' = "empty" /\ worker' = "none"
    /\ stopped' = FALSE /\ lock_after' = FALSE
    /\ close_requests' = 0 /\ exit_when_done' = FALSE
    /\ phase' = "working" /\ kind' = "export"
    /\ hold' = NoHold /\ kept' = {}
    /\ store' = s /\ Record({}, s) /\ parked' = {} /\ UNCHANGED <<finished, unsaid>>
    /\ IF kind = "export" \/ (original_kept /\ pending = None)
       THEN UNCHANGED <<pending, receipts>>
       ELSE IF original_kept THEN Deliver(pending, v, FALSE)
       ELSE pending' = None /\ UNCHANGED receipts
    /\ vault' = IF lockNow THEN None ELSE v
    /\ queue' = IF exit_when_done THEN Append(Tail(queue), CloseWindow) ELSE Tail(queue)
    /\ UNCHANGED <<grace, running, next, wishes>>

\* finish: ends the job with vault v open and Library s attached.  lockNow:
\* the job's lock_after, so a lock follows.
finish(v, s, original_kept, lockNow) ==
    /\ job' = 0 /\ mailbox' = "empty" /\ worker' = "none"
    /\ stopped' = FALSE /\ lock_after' = FALSE
    /\ close_requests' = 0 /\ exit_when_done' = FALSE
    /\ phase' = "working" /\ kind' = "export"
    /\ hold' = NoHold /\ kept' = {}
    /\ store' = s /\ Record(parked, s) /\ parked' = {} /\ UNCHANGED <<finished, unsaid>>
    /\ IF kind = "export" \/ (original_kept /\ pending = None)
       THEN UNCHANGED <<pending, receipts>>
       ELSE IF original_kept THEN Deliver(pending, v, FALSE)
       ELSE pending' = None /\ UNCHANGED receipts
    /\ vault' = IF lockNow THEN None ELSE v
    /\ queue' = IF exit_when_done THEN Append(Tail(queue), CloseWindow) ELSE Tail(queue)
    /\ UNCHANGED <<grace, running, next, wishes>>

------------------------------------------------------------------------------
(* What the rest of the app asks while a job runs.                          *)

\* backup_job_cancel.
cancel ==
    /\ running /\ Running /\ phase = "working" /\ ~stopped
    /\ stopped' = TRUE
    /\ UNCHANGED <<disk, app, licence, job, kind, phase, lock_after, close_requests,
                   exit_when_done, held, thread, queue, grace, running, next, dl, keys, wishes>>

\* lock_vault, by any trigger: the Library stays attached.
lock_vault ==
    /\ running
    /\ \/ /\ ~committing
          /\ vault' = None
          /\ stopped' = Running
          /\ UNCHANGED lock_after
       \/ /\ committing
          /\ lock_after' = TRUE
          /\ UNCHANGED <<vault, stopped>>
    /\ lockWanted' = TRUE
    /\ UNCHANGED <<disk, store, storeLock, licence, job, kind, phase, close_requests,
                   exit_when_done, held, thread, queue, grace, running, next, dl, keys, closing>>

\* Mutant: a close does not stop the job.
hold_close_unstopped ==
    /\ close_requests' = IF Running /\ close_requests < 2 THEN close_requests + 1 ELSE close_requests
    /\ \/ /\ ~Running \/ close_requests >= 1
          /\ running' = FALSE
          /\ stopped' = Running
          /\ UNCHANGED <<exit_when_done, grace, closing>>
       \/ /\ Running /\ phase = "working" /\ close_requests = 0
          /\ UNCHANGED stopped /\ exit_when_done' = TRUE /\ closing' = TRUE
          /\ grace' = grace + 1
          /\ UNCHANGED running
       \/ /\ committing /\ close_requests = 0
          /\ UNCHANGED <<stopped, exit_when_done, grace, closing, running>>
    /\ UNCHANGED <<disk, app, licence, job, kind, phase, lock_after, held, thread, next, dl, keys, lockWanted>>

\* Mutant: a close stops the job and is then forgotten.
hold_close_forgotten ==
    /\ close_requests' = IF Running /\ close_requests < 2 THEN close_requests + 1 ELSE close_requests
    /\ \/ /\ ~Running \/ close_requests >= 1
          /\ running' = FALSE
          /\ stopped' = Running
          /\ UNCHANGED <<exit_when_done, grace, closing>>
       \/ /\ Running /\ phase = "working" /\ close_requests = 0
          /\ stopped' = TRUE /\ closing' = TRUE /\ UNCHANGED exit_when_done
          /\ UNCHANGED grace
          /\ UNCHANGED running
       \/ /\ committing /\ close_requests = 0
          /\ UNCHANGED <<stopped, exit_when_done, grace, closing, running>>
    /\ UNCHANGED <<disk, app, licence, job, kind, phase, lock_after, held, thread, next, dl, keys, lockWanted>>

\* hold_close: the window closes, or the job is stopped first, or the close
\* is held over the commit.  A second request always closes.
hold_close ==
    /\ close_requests' = IF Running /\ close_requests < 2 THEN close_requests + 1 ELSE close_requests
    /\ \/ /\ ~Running \/ close_requests >= 1
          /\ running' = FALSE
          /\ stopped' = Running
          /\ UNCHANGED <<exit_when_done, grace, closing>>
       \/ /\ Running /\ phase = "working" /\ close_requests = 0
          /\ stopped' = TRUE /\ exit_when_done' = TRUE /\ closing' = TRUE
          /\ grace' = grace + 1
          /\ UNCHANGED running
       \/ /\ committing /\ close_requests = 0
          /\ UNCHANGED <<stopped, exit_when_done, grace, closing, running>>
    /\ UNCHANGED <<disk, app, licence, job, kind, phase, lock_after, held, thread, next, dl, keys, lockWanted>>

\* The window's close button.
CloseRequested == running /\ hold_close /\ UNCHANGED queue

\* UserEvent::CloseWindow.
CloseEvent ==
    /\ running /\ queue # <<>> /\ Head(queue) = CloseWindow
    /\ hold_close /\ queue' = Tail(queue)

\* CLOSE_GRACE has passed.
GraceFires ==
    /\ running /\ grace > 0
    /\ grace' = grace - 1 /\ Post(CloseWindow)
    /\ UNCHANGED <<disk, app, licence, job, kind, phase, asked, held, thread, running, next, dl, keys, wishes>>

\* Mutant: a download is recorded although an import runs.
DownloadFinishesNow(d) ==
    /\ running /\ d \notin finished
    /\ finished' = finished \cup {d}
    /\ Record({d}, store) /\ UNCHANGED <<parked, unsaid>>
    /\ UNCHANGED <<disk, app, licence, job, kind, phase, asked, held, thread, queue, grace, running, next, keys, wishes>>

\* record_download_provenance, of a download that is on disk: parked while an
\* import runs, else recorded now.  A file that can no longer be read and hashed is
\* neither, without a word.
DownloadFinishes(d) ==
    /\ running /\ d \notin finished
    /\ finished' = finished \cup {d}
    /\ \/ unsaid' = unsaid \cup {d} /\ UNCHANGED <<records, parked, told, failed, due>>
       \/ /\ importing /\ parked' = parked \cup {d}
          /\ UNCHANGED <<records, told, failed, unsaid, due>>
       \/ ~importing /\ Record({d}, store) /\ UNCHANGED <<parked, unsaid>>
    /\ UNCHANGED <<disk, app, licence, job, kind, phase, asked, held, thread, queue, grace, running, next, keys, wishes>>

\* Mutant: a call starts with no vault open.
start_activation_locked ==
    /\ running /\ call = None
    /\ call' = [from |-> vault, epoch |-> epoch]
    /\ UNCHANGED <<disk, app, epoch, pending, receipts, job, kind, phase, asked, held, thread,
                   queue, grace, running, next, dl, keys, wishes>>

\* start_activation: one call at a time, for the vault open now.
start_activation ==
    /\ running /\ vault # None /\ call = None
    /\ call' = [from |-> vault, epoch |-> epoch]
    /\ UNCHANGED <<disk, app, epoch, pending, receipts, job, kind, phase, asked, held, thread,
                   queue, grace, running, next, dl, keys, wishes>>

\* The call's answer: dropped if an import may have replaced its vault.
handle_event ==
    /\ running /\ call # None
    /\ call' = None
    /\ IF call.epoch # epoch THEN UNCHANGED <<pending, receipts>>
                             ELSE Deliver(call.from, vault, importing)
    /\ UNCHANGED <<disk, app, epoch, job, kind, phase, asked, held, thread, queue, grace,
                   running, next, dl, keys, wishes>>

\* Mutant: an unlock is not refused while a job runs.
vault_unlock_unrefused ==
    /\ running /\ vault = None /\ diskVault # None
    /\ vault' = diskVault
    /\ \/ /\ diskLib \in {diskVault, None} \/ diskVault \in whole
          /\ store' = diskVault /\ diskLib' = diskVault /\ storeLock' = TRUE
       \/ store' = None /\ UNCHANGED <<diskLib, storeLock>>
       \/ store' = None /\ storeLock' = TRUE /\ UNCHANGED diskLib
    /\ IF pending = None THEN UNCHANGED <<pending, receipts>>
                         ELSE Deliver(pending, diskVault, FALSE)
    /\ lockWanted' = FALSE
    /\ UNCHANGED <<diskVault, whole, epoch, call, job, kind, phase, asked, held, thread, queue, grace,
                   running, next, dl, keys, closing>>

\* vault_unlock: refused while a job runs.  open_store, with recovery, leaves
\* the vault's Library attached or none (LibraryImport); a parked answer is
\* replayed.
vault_unlock ==
    /\ running /\ ~Running /\ vault = None /\ diskVault # None
    /\ vault' = diskVault
    /\ \/ /\ diskLib \in {diskVault, None} \/ diskVault \in whole
          /\ store' = diskVault /\ diskLib' = diskVault /\ storeLock' = TRUE
       \/ store' = None /\ UNCHANGED <<diskLib, storeLock>>
       \/ store' = None /\ storeLock' = TRUE /\ UNCHANGED diskLib
    /\ IF pending = None THEN UNCHANGED <<pending, receipts>>
                         ELSE Deliver(pending, diskVault, FALSE)
    /\ lockWanted' = FALSE
    /\ UNCHANGED <<diskVault, whole, epoch, call, job, kind, phase, asked, held, thread, queue, grace,
                   running, next, dl, keys, closing>>

\* vault_create, where there is none: no answer can be waiting.
vault_create ==
    /\ running /\ ~Running /\ diskVault = None
    /\ diskVault' = 0 /\ vault' = 0
    /\ store' = 0 /\ diskLib' = 0 /\ storeLock' = TRUE
    /\ lockWanted' = FALSE
    /\ UNCHANGED <<whole, licence, job, kind, phase, asked, held, thread, queue, grace,
                   running, next, dl, keys, closing>>

\* vault_import of an older backup, in the call itself: the vault is replaced
\* and the Library with it, or left shut, or the import fails with the live
\* vault and Library already closed.
vault_import ==
    /\ running /\ ~Running /\ next <= MaxJobs
    /\ next' = next + 1 /\ epoch' = epoch + 1
    /\ \/ /\ vault' = next /\ diskVault' = next /\ storeLock' = TRUE
          /\ \/ store' = next /\ diskLib' = next
             \/ store' = None /\ diskLib' \in {diskLib, None}
          /\ pending' = None /\ due' = {}
          /\ shown' = shown \cup {next} /\ lockWanted' = FALSE
       \/ /\ vault' = None /\ store' = None
          /\ UNCHANGED <<diskVault, diskLib, storeLock, pending, due, shown, lockWanted>>
    /\ UNCHANGED <<whole, call, receipts, job, kind, phase, asked, held, thread, queue, grace, running,
                   records, parked, finished, told, failed, unsaid, lost, closing>>

------------------------------------------------------------------------------
(* The worker (spawn_outcome): its result in the mailbox, then the bell.    *)

Leave(outcome) == mailbox' = outcome /\ worker' = "none" /\ Post(job)

ExportEnds ==
    /\ worker = "export"
    /\ \/ ~stopped /\ Leave("exported")
       \/ Leave("exportFailed")
    /\ UNCHANGED <<disk, app, licence, job, kind, phase, asked, held, grace, running, next, dl, keys, wishes>>

\* stage_with: the Library is built aside with the kept download records; a
\* stop seen at the last check is a failure.
StageEnds ==
    /\ worker = "stage"
    /\ \/ ~stopped /\ Leave("staged") /\ records' = [records EXCEPT ![job] = kept]
       \/ Leave("stageFailed") /\ UNCHANGED records
    /\ UNCHANGED <<disk, app, licence, job, kind, phase, asked, held, grace, running, next,
                   parked, finished, told, failed, unsaid, due, keys, wishes>>

AbandonEnds ==
    /\ worker = "abandon"
    /\ Leave("abandoned")
    /\ UNCHANGED <<disk, app, licence, job, kind, phase, asked, held, grace, running, next, dl, keys, wishes>>

\* commit: the vault is written, then the Library moved in; it may stay shut.
CommitInstalls ==
    /\ worker = "commit"
    /\ diskVault' = job /\ worker' = "swap"
    /\ due' = IF hold.was_closed THEN {} ELSE due
    /\ UNCHANGED <<diskLib, whole, app, licence, job, kind, phase, asked, held, mailbox, queue, grace,
                   running, next, records, parked, finished, told, failed, unsaid, keys, wishes>>

CommitFails ==
    /\ worker = "commit"
    /\ Leave("commitFailed")
    /\ UNCHANGED <<disk, app, licence, job, kind, phase, asked, held, grace, running, next, dl, keys, wishes>>

CommitEnds ==
    /\ worker = "swap"
    /\ diskLib' \in {diskLib, job} /\ Leave("committed")
    /\ UNCHANGED <<diskVault, whole, app, licence, job, kind, phase, asked, held, grace, running, next,
                   dl, keys, wishes>>

\* Mutant: a panic leaves the bell unrung.
PanicsSilently ==
    /\ worker # "none"
    /\ mailbox' = "panicked" /\ worker' = "none" /\ UNCHANGED queue
    /\ UNCHANGED <<disk, app, licence, job, kind, phase, asked, held, grace, running, next, dl, keys, wishes>>

Panics ==
    /\ worker # "none"
    /\ Leave("panicked")
    /\ UNCHANGED <<disk, app, licence, job, kind, phase, asked, held, grace, running, next, dl, keys, wishes>>

------------------------------------------------------------------------------
(* The event loop's side: on_bell and handle.                               *)

Bell(outcome) ==
    /\ running /\ queue # <<>> /\ Running
    /\ Head(queue) = job /\ mailbox = outcome

Exported ==
    /\ Bell("exported") \/ Bell("exportFailed")
    /\ finish(vault, store, FALSE, lock_after)
    /\ UNCHANGED <<disk, storeLock, epoch, call, keys>>

\* Staged(Err) and Abandoned: the locks go back, the original vault was kept.
ImportStopped ==
    /\ Bell("stageFailed") \/ Bell("abandoned")
    /\ storeLock' = Released(storeLock, hold.newly_locked, store)
    /\ finish(vault, store, TRUE, lock_after)
    /\ UNCHANGED <<disk, epoch, call, keys>>

\* staged_ready after a stop.
StagedAbandoned ==
    /\ Bell("staged") /\ stopped
    /\ worker' = "abandon" /\ mailbox' = "empty" /\ queue' = Tail(queue)
    /\ UNCHANGED <<disk, app, licence, job, kind, phase, asked, held, grace, running, next, dl, keys, wishes>>

\* Mutant: a stop that came after the last check is not seen.
StagedCommitsUnchecked ==
    /\ Bell("staged")
    /\ vault' = None /\ store' = None /\ epoch' = epoch + 1
    /\ phase' = "committing"
    /\ hold' = [hold EXCEPT !.had_live = vault # None]
    /\ worker' = "commit" /\ mailbox' = "empty" /\ queue' = Tail(queue)
    /\ UNCHANGED <<disk, storeLock, pending, call, receipts, job, kind, asked, kept, grace, running,
                   next, dl, keys, wishes>>

\* Mutant: the commit does not move the vault epoch.
StagedCommitsSameEpoch ==
    /\ Bell("staged") /\ ~stopped
    /\ vault' = None /\ store' = None /\ UNCHANGED epoch
    /\ phase' = "committing"
    /\ hold' = [hold EXCEPT !.had_live = vault # None]
    /\ worker' = "commit" /\ mailbox' = "empty" /\ queue' = Tail(queue)
    /\ UNCHANGED <<disk, storeLock, pending, call, receipts, job, kind, asked, kept, grace, running,
                   next, dl, keys, wishes>>

\* staged_ready: the live vault and Library are closed, the commit starts.
StagedCommits ==
    /\ Bell("staged") /\ ~stopped
    /\ vault' = None /\ store' = None /\ epoch' = epoch + 1
    /\ phase' = "committing"
    /\ hold' = [hold EXCEPT !.had_live = vault # None]
    /\ worker' = "commit" /\ mailbox' = "empty" /\ queue' = Tail(queue)
    /\ UNCHANGED <<disk, storeLock, pending, call, receipts, job, kind, asked, kept, grace, running,
                   next, dl, keys, wishes>>

\* Mutant: the lock asked for during the commit is forgotten.
CommittedReadyUnlocked ==
    /\ Bell("committed")
    /\ \E s \in {None, diskLib} :
          /\ s \in {None, job}
          /\ finish(job, s, FALSE, FALSE)
    /\ IF lock_after THEN lost' = lost \cup {job} /\ UNCHANGED shown
                     ELSE shown' = shown \cup {job} /\ UNCHANGED lost
    /\ UNCHANGED <<disk, storeLock, epoch, call>>

\* Mutant: the key is sent although a lock follows.
CommittedReadySendsKey ==
    /\ Bell("committed")
    /\ \E s \in {None, diskLib} :
          /\ s \in {None, job}
          /\ finish(job, s, FALSE, lock_after)
    /\ shown' = shown \cup {job} /\ UNCHANGED lost
    /\ UNCHANGED <<disk, storeLock, epoch, call>>

\* committed_ready: the imported vault opens, with its Library if that is in
\* place and nothing keeps it shut.  A lock that follows costs the key.
CommittedReady ==
    /\ Bell("committed")
    /\ \E s \in {None, diskLib} :
          /\ s \in {None, job}
          /\ finish(job, s, FALSE, lock_after)
    /\ IF lock_after THEN lost' = lost \cup {job} /\ UNCHANGED shown
                     ELSE shown' = shown \cup {job} /\ UNCHANGED lost
    /\ UNCHANGED <<disk, storeLock, epoch, call>>

CommitFailed ==
    /\ Bell("commitFailed")
    /\ storeLock' = Released(storeLock, hold.newly_locked, store)
    /\ finish(vault, store, FALSE, lock_after \/ hold.had_live)
    /\ UNCHANGED <<disk, epoch, call, keys>>

Panicked ==
    /\ Bell("panicked")
    /\ storeLock' = Released(storeLock, hold.newly_locked, store)
    /\ finish(vault, store, ~committing, lock_after \/ (committing /\ hold.had_live))
    /\ UNCHANGED <<disk, epoch, call, keys>>

\* The program has ended, its worker with it, and is started again.  on_exit gives
\* the worker a moment and writes no parked record: those go with the process.
Restart ==
    /\ ~running
    /\ running' = TRUE
    /\ vault' = None /\ store' = None /\ storeLock' = FALSE
    /\ epoch' = 0 /\ pending' = None /\ call' = None
    /\ job' = 0 /\ kind' = "export" /\ phase' = "working"
    /\ stopped' = FALSE /\ lock_after' = FALSE /\ close_requests' = 0 /\ exit_when_done' = FALSE
    /\ hold' = NoHold /\ kept' = {} /\ parked' = {} /\ unsaid' = unsaid \cup parked
    /\ worker' = "none" /\ mailbox' = "empty" /\ queue' = <<>> /\ grace' = 0
    /\ lockWanted' = FALSE /\ closing' = FALSE
    /\ UNCHANGED <<disk, receipts, next, records, finished, told, failed, due, keys>>

------------------------------------------------------------------------------
Init ==
    /\ diskVault \in {0, None} /\ diskLib = diskVault
    /\ records = [i \in Ids |-> {}] /\ whole = {}
    /\ vault = None /\ store = None /\ storeLock = FALSE
    /\ epoch = 0 /\ pending = None /\ call = None /\ receipts = {}
    /\ job = 0 /\ kind = "export" /\ phase = "working"
    /\ stopped = FALSE /\ lock_after = FALSE /\ close_requests = 0 /\ exit_when_done = FALSE
    /\ hold = NoHold /\ kept = {} /\ parked = {}
    /\ worker = "none" /\ mailbox = "empty" /\ queue = <<>> /\ grace = 0
    /\ running = TRUE /\ next = 1 /\ lockWanted = FALSE /\ closing = FALSE
    /\ finished = {} /\ told = {} /\ failed = {} /\ unsaid = {} /\ due = {}
    /\ shown = {} /\ lost = {}

WorkerStep == ExportEnds \/ StageEnds \/ AbandonEnds \/ CommitInstalls \/ CommitFails
              \/ CommitEnds \/ Panics

BellStep == Exported \/ ImportStopped \/ StagedAbandoned \/ StagedCommits \/ CommittedReady
            \/ CommitFailed \/ Panicked

PersonStep == start_export \/ start_import \/ cancel \/ lock_vault \/ CloseRequested
              \/ vault_unlock \/ vault_create \/ vault_import

Next ==
    \/ WorkerStep \/ BellStep \/ CloseEvent \/ GraceFires \/ PersonStep
    \/ \E d \in Downloads : DownloadFinishes(d)
    \/ start_activation \/ handle_event \/ Restart

Spec == Init /\ [][Next]_vars

\* The worker ends, the event loop takes its next event, the timer fires.
Fairness == WF_vars(WorkerStep) /\ WF_vars(BellStep \/ CloseEvent) /\ WF_vars(GraceFires)

FairSpec == Spec /\ Fairness
------------------------------------------------------------------------------
(* Properties.                                                              *)

Workers  == {"none", "export", "stage", "abandon", "commit", "swap"}
Outcomes == {"empty", "exported", "exportFailed", "staged", "stageFailed", "abandoned",
             "committed", "commitFailed", "panicked"}
Calls    == [from : Ids, epoch : Ids] \cup {None}

\* The types.  An activation call is always made for a vault (from \in Ids), and
\* the queue and the close counter stay within what the handlers put there.
TypeOK ==
    /\ diskVault \in Maybe /\ diskLib \in Maybe /\ whole \subseteq Ids
    /\ records \in [Ids -> SUBSET Downloads]
    /\ vault \in Maybe /\ store \in Maybe /\ storeLock \in BOOLEAN
    /\ epoch \in Ids /\ pending \in Maybe /\ call \in Calls /\ receipts \subseteq Ids \X Ids
    /\ job \in Ids /\ kind \in {"export", "import"} /\ phase \in {"working", "committing"}
    /\ stopped \in BOOLEAN /\ lock_after \in BOOLEAN /\ exit_when_done \in BOOLEAN
    /\ close_requests \in 0..2
    /\ hold \in [newly_locked : BOOLEAN, transaction : BOOLEAN, had_live : BOOLEAN, was_closed : BOOLEAN]
    /\ kept \subseteq Downloads /\ parked \subseteq Downloads
    /\ worker \in Workers /\ mailbox \in Outcomes
    /\ queue \in Seq(Ids) /\ grace \in Nat
    /\ running \in BOOLEAN /\ next \in 1..(MaxJobs + 1)
    /\ lockWanted \in BOOLEAN /\ closing \in BOOLEAN
    /\ finished \subseteq Downloads /\ told \subseteq Downloads /\ failed \subseteq Downloads
    /\ unsaid \subseteq Downloads /\ due \subseteq Downloads /\ shown \subseteq Ids /\ lost \subseteq Ids

\* A stop that was accepted, from the person, a lock or a close, is never
\* followed by the commit: not even when the worker had already passed its
\* last check and left its result (staged_ready).
StopHonoured == running /\ committing => ~stopped

\* While an import's worker is at work the import lock and the Library lock
\* are held, and while it commits no vault and no Library is open: nothing
\* can write to the files it replaces.
CommitAlone ==
    /\ importing /\ worker # "none" => hold.transaction /\ storeLock
    /\ committing => vault = None /\ store = None
    /\ store # None => storeLock /\ store = diskLib

\* Once a lock was asked for, no vault is open until the person opens one:
\* neither a commit's late result nor a stopped import brings one back.
LockHolds == lockWanted /\ ~committing => vault = None

\* Every finished download is in one of five cases and never leaves it for nothing:
\* recorded, reported as not recorded, waiting for an import to end, unreadable when
\* it was hashed, or waiting when the program ended.  So while the program runs, an
\* import's end settles every download that waited for it, once, and the last two
\* cases are the only silent ones (record_download_provenance, finish, on_exit).
DownloadsAccounted ==
    /\ finished = told \cup failed \cup parked \cup unsaid
    /\ told \cap failed = {} /\ parked \cap (told \cup failed) = {}
    /\ unsaid \cap (told \cup failed \cup parked) = {}
    /\ parked # {} => importing

\* A record once reported stays in the live Library through an import: the
\* import keeps the records it found at its start, so none may be added to
\* the Library it replaces after that.
DownloadsKept == diskLib # None => due \subseteq records[diskLib]

\* An activation answer is written only into the vault its call was made for.
AnswersBelong == \A r \in receipts : r[1] = r[2]

\* Once a close was accepted, no import commits before the window closes, not
\* even one started before the CloseWindow event is handled: the recovery key
\* of an import is never lost to a close asked for earlier.
ClosingNeverCommits == closing /\ running => ~committing

\* A recovery key is handed to the chrome only where the vault it opens stays
\* open after that step, and is never also said to be lost.
KeyShownOpen ==
    [][\A i \in Ids : i \in shown' \ shown => vault' = i /\ i \notin lost']_vars

\* Every job ends, whatever is asked of it meanwhile, or the program does.
JobsEnd == Running ~> ~Running \/ ~running

\* A lock asked for during the commit is carried out, unless the program ends.
LockHappens == lock_after ~> (vault = None /\ ~lock_after) \/ ~running

\* An accepted close closes the window.
CloseHappens == closing ~> ~running
==============================================================================
