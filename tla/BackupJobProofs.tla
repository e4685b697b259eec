--------------------------- MODULE BackupJobProofs ---------------------------
(***************************************************************************)
(* What holds of a backup job for any number of jobs, downloads, locks,     *)
(* closes and restarts.  The properties of BackupJob are not inductive: the  *)
(* invariant below adds what the worker and its mailbox say of the job      *)
(* (Table), whose files are on disk (Fresh, Held), what a lock or a stop    *)
(* left behind (Stops), which vault an answer was asked for (Belongs) and   *)
(* which Library has which records (Kept).                                  *)
(***************************************************************************)
EXTENDS BackupJob, TLAPS

Bools ==
    /\ storeLock \in BOOLEAN /\ stopped \in BOOLEAN /\ lock_after \in BOOLEAN
    /\ exit_when_done \in BOOLEAN /\ running \in BOOLEAN
    /\ lockWanted \in BOOLEAN /\ closing \in BOOLEAN

Types ==
    /\ diskVault \in Maybe /\ diskLib \in Maybe /\ whole \subseteq Ids
    /\ records \in [Ids -> SUBSET Downloads]
    /\ vault \in Maybe /\ store \in Maybe
    /\ epoch \in Nat /\ pending \in Maybe /\ receipts \subseteq Ids \X Ids
    /\ call # None => call \in [from : Ids, epoch : Nat]
    /\ job \in Ids /\ kind \in {"export", "import"} /\ phase \in {"working", "committing"}
    /\ hold \in [newly_locked : BOOLEAN, transaction : BOOLEAN, had_live : BOOLEAN, was_closed : BOOLEAN]
    /\ kept \subseteq Downloads /\ parked \subseteq Downloads
    /\ worker \in Workers /\ mailbox \in Outcomes
    /\ next \in 1..(MaxJobs + 1)
    /\ finished \subseteq Downloads /\ told \subseteq Downloads /\ failed \subseteq Downloads
    /\ unsaid \subseteq Downloads /\ due \subseteq Downloads /\ shown \subseteq Ids /\ lost \subseteq Ids

\* What the worker is doing, or left, says what the job is and how far.
Table ==
    /\ job = 0 => worker = "none" /\ mailbox = "empty" /\ phase = "working"
    /\ phase = "committing" => kind = "import"
    /\ worker # "none" => mailbox = "empty"
    /\ worker = "export" \/ mailbox \in {"exported", "exportFailed"} => kind = "export"
    /\ worker \in {"stage", "abandon"} \/ mailbox \in {"staged", "stageFailed", "abandoned"}
         => kind = "import" /\ phase = "working"
    /\ worker \in {"commit", "swap"} \/ mailbox \in {"committed", "commitFailed"}
         => phase = "committing"
    /\ worker = "swap" \/ mailbox = "committed" => diskVault = job

\* A job's number is new: its files are not on disk before it installs them.
Fresh ==
    /\ job < next
    /\ diskVault # None => diskVault < next
    /\ diskLib # None => diskLib < next
    /\ \A i \in whole : i < next
    /\ \A i \in lost : i < next /\ i # 0 /\ i # job
    /\ importing => job \in whole
    /\ worker \in {"stage", "commit"} \/ mailbox = "staged" => diskVault # job /\ diskLib # job

\* What is open is what is on disk, under its locks, and nothing in a commit.
Held ==
    /\ importing => hold.transaction /\ storeLock
    /\ phase = "committing" => vault = None /\ store = None
    /\ store # None => storeLock /\ store = diskLib /\ store = diskVault
    /\ vault # None => vault = diskVault
    /\ diskVault = None => diskLib = None

\* A lock leaves a stop, or a lock_after, behind.
Stops ==
    /\ stopped => job # 0
    /\ running /\ phase = "committing" => ~stopped
    /\ lock_after => phase = "committing"
    /\ lockWanted /\ phase = "working" => vault = None
    /\ lockWanted /\ importing /\ phase = "working" => stopped
    /\ lockWanted /\ phase = "committing" => lock_after

\* The vault an answer belongs to is the one on disk, until a commit starts.
Belongs ==
    /\ \A r \in receipts : r[1] = r[2]
    /\ call # None => call.epoch <= epoch
    /\ phase = "working" /\ pending # None => pending = diskVault
    /\ phase = "working" /\ call # None => (call.epoch = epoch => call.from = diskVault)
    /\ phase = "committing" /\ call # None => call.epoch # epoch

\* The records that are due are in the Library on disk, and in the one an
\* import built.
Kept ==
    /\ diskLib = None => due = {}
    /\ diskLib # None => due \subseteq records[diskLib]
    /\ diskVault \in whole => due \subseteq records[diskVault]
    /\ worker = "stage" => hold.was_closed \/ due \subseteq kept
    /\ worker = "commit" \/ mailbox = "staged" => hold.was_closed \/ due \subseteq records[job]

Rest == Types /\ Table /\ Fresh /\ Held /\ Stops /\ Belongs /\ DownloadsAccounted /\ Kept

IInv == Bools /\ Rest

\* The steps of the other threads and of the program itself.
OtherStep ==
    \/ CloseEvent \/ GraceFires
    \/ \E d \in Downloads : DownloadFinishes(d)
    \/ start_activation \/ handle_event \/ Restart
------------------------------------------------------------------------------
(* Every action keeps the inductive invariant.                              *)

\* The worker's steps: it may end, fail or panic at any point.
LEMMA WorkerInv == IInv /\ WorkerStep => Rest'
<1> SUFFICES ASSUME IInv, WorkerStep PROVE Rest'
  OBVIOUS
<1> USE JobsAssumption DEF IInv, Rest, Bools, Types, Table, Fresh, Held, Stops, Belongs, DownloadsAccounted, Kept,
            Ids, Maybe, Workers, Outcomes, NoHold, importing, committing, Running,
            disk, app, licence, asked, held, thread, dl, keys, wishes
<1>1. CASE ExportEnds
  BY <1>1 DEF ExportEnds, Leave, Post
<1>2. CASE StageEnds
  <2>1. Types'
    <3>1. records' \in [Ids -> SUBSET Downloads]
      BY <1>2 DEF StageEnds
    <3>. QED BY <1>2, <3>1, SMTT(60) DEF StageEnds, Leave, Post
  <2>2. Table'
    BY <1>2 DEF StageEnds, Leave, Post
  <2>3. Fresh'
    BY <1>2 DEF StageEnds, Leave, Post
  <2>4. Held'
    BY <1>2 DEF StageEnds, Leave, Post
  <2>5. Stops'
    BY <1>2 DEF StageEnds, Leave, Post
  <2>6. Belongs'
    BY <1>2 DEF StageEnds, Leave, Post
  <2>7. DownloadsAccounted'
    BY <1>2 DEF StageEnds, Leave, Post
  <2>8. Kept'
    <3>1. CASE Leave("staged") /\ records' = [records EXCEPT ![job] = kept]
      <4>1. \A i \in Ids : i # job => records'[i] = records[i]
        BY <3>1
      <4>2. records'[job] = kept
        BY <3>1
      <4>. QED BY <1>2, <3>1, <4>1, <4>2 DEF StageEnds, Leave
    <3>2. CASE Leave("stageFailed") /\ UNCHANGED records
      BY <1>2, <3>2 DEF StageEnds, Leave
    <3>. QED BY <1>2, <3>1, <3>2 DEF StageEnds
  <2>. QED BY <2>1, <2>2, <2>3, <2>4, <2>5, <2>6, <2>7, <2>8
<1>3. CASE AbandonEnds
  <2>1. Types'
    BY <1>3 DEF AbandonEnds, Leave, Post
  <2>2. Table'
    BY <1>3 DEF AbandonEnds, Leave, Post
  <2>3. Fresh'
    BY <1>3 DEF AbandonEnds, Leave, Post
  <2>4. Held'
    BY <1>3 DEF AbandonEnds, Leave, Post
  <2>5. Stops'
    BY <1>3 DEF AbandonEnds, Leave, Post
  <2>6. Belongs'
    BY <1>3 DEF AbandonEnds, Leave, Post
  <2>7. DownloadsAccounted'
    BY <1>3 DEF AbandonEnds, Leave, Post
  <2>8. Kept'
    BY <1>3 DEF AbandonEnds, Leave, Post
  <2>. QED BY <2>1, <2>2, <2>3, <2>4, <2>5, <2>6, <2>7, <2>8
<1>4. CASE CommitInstalls
  BY <1>4 DEF CommitInstalls
<1>5. CASE CommitFails
  BY <1>5 DEF CommitFails, Leave, Post
<1>6. CASE CommitEnds
  BY <1>6 DEF CommitEnds, Leave, Post
<1>7. CASE Panics
  BY <1>7 DEF Panics, Leave, Post
<1>. QED BY <1>1, <1>2, <1>3, <1>4, <1>5, <1>6, <1>7 DEF WorkerStep

\* The event loop takes the worker's result.
LEMMA BellInv == IInv /\ BellStep => Rest'
<1> SUFFICES ASSUME IInv, BellStep PROVE Rest'
  OBVIOUS
<1> USE JobsAssumption DEF IInv, Rest, Bools, Types, Table, Fresh, Held, Stops, Belongs, DownloadsAccounted, Kept,
            Ids, Maybe, Workers, Outcomes, NoHold, importing, committing, Running,
            disk, app, licence, asked, held, thread, dl, keys, wishes
<1>1. CASE Exported
  <2>1. Types'
    BY <1>1 DEF Exported, Bell, finish, Record
  <2>2. Table'
    BY <1>1 DEF Exported, Bell, finish, Record
  <2>3. Fresh'
    BY <1>1 DEF Exported, Bell, finish, Record
  <2>4. Held'
    BY <1>1 DEF Exported, Bell, finish, Record
  <2>5. Stops'
    BY <1>1 DEF Exported, Bell, finish, Record
  <2>6. Belongs'
    BY <1>1 DEF Exported, Bell, finish, Record
  <2>7. DownloadsAccounted'
    BY <1>1 DEF Exported, Bell, finish, Record
  <2>8. Kept'
    BY <1>1 DEF Exported, Bell, finish, Record
  <2>. QED BY <2>1, <2>2, <2>3, <2>4, <2>5, <2>6, <2>7, <2>8
<1>2. CASE ImportStopped
  <2>1. Types'
    BY <1>2 DEF ImportStopped, Bell, finish, Record, Deliver, Released
  <2>2. Table'
    BY <1>2 DEF ImportStopped, Bell, finish, Record, Deliver, Released
  <2>3. Fresh'
    BY <1>2 DEF ImportStopped, Bell, finish, Record, Deliver, Released
  <2>4. Held'
    BY <1>2 DEF ImportStopped, Bell, finish, Record, Deliver, Released
  <2>5. Stops'
    BY <1>2 DEF ImportStopped, Bell, finish, Record, Deliver, Released
  <2>6. Belongs'
    BY <1>2 DEF ImportStopped, Bell, finish, Record, Deliver, Released
  <2>7. DownloadsAccounted'
    BY <1>2 DEF ImportStopped, Bell, finish, Record, Deliver, Released
  <2>8. Kept'
    BY <1>2 DEF ImportStopped, Bell, finish, Record, Deliver, Released
  <2>. QED BY <2>1, <2>2, <2>3, <2>4, <2>5, <2>6, <2>7, <2>8
<1>3. CASE StagedAbandoned
  <2>1. Types'
    BY <1>3 DEF StagedAbandoned, Bell
  <2>2. Table'
    BY <1>3 DEF StagedAbandoned, Bell
  <2>3. Fresh'
    BY <1>3 DEF StagedAbandoned, Bell
  <2>4. Held'
    BY <1>3 DEF StagedAbandoned, Bell
  <2>5. Stops'
    BY <1>3 DEF StagedAbandoned, Bell
  <2>6. Belongs'
    BY <1>3 DEF StagedAbandoned, Bell
  <2>7. DownloadsAccounted'
    BY <1>3 DEF StagedAbandoned, Bell
  <2>8. Kept'
    BY <1>3 DEF StagedAbandoned, Bell
  <2>. QED BY <2>1, <2>2, <2>3, <2>4, <2>5, <2>6, <2>7, <2>8
<1>4. CASE StagedCommits
  <2>1. Types'
    <3>1. hold' \in [newly_locked : BOOLEAN, transaction : BOOLEAN, had_live : BOOLEAN, was_closed : BOOLEAN]
      BY <1>4 DEF StagedCommits
    <3>2. worker' \in Workers /\ mailbox' \in Outcomes /\ epoch' \in Nat /\ vault' \in Maybe /\ store' \in Maybe
      BY <1>4 DEF StagedCommits
    <3>. QED BY <1>4, <3>1, <3>2 DEF StagedCommits
  <2>2. Table'
    BY <1>4 DEF StagedCommits, Bell
  <2>3. Fresh'
    BY <1>4 DEF StagedCommits, Bell
  <2>4. Held'
    BY <1>4 DEF StagedCommits, Bell
  <2>5. Stops'
    BY <1>4 DEF StagedCommits, Bell
  <2>6. Belongs'
    BY <1>4 DEF StagedCommits, Bell
  <2>7. DownloadsAccounted'
    BY <1>4 DEF StagedCommits, Bell
  <2>8. Kept'
    BY <1>4 DEF StagedCommits, Bell
  <2>. QED BY <2>1, <2>2, <2>3, <2>4, <2>5, <2>6, <2>7, <2>8
<1>5. CASE CommittedReady
  <2>1. Types'
    <3>1. records' \in [Ids -> SUBSET Downloads] /\ told' \subseteq Downloads /\ failed' \subseteq Downloads
          /\ due' \subseteq Downloads
      BY <1>5 DEF CommittedReady, finish, Record
    <3>2. shown' \subseteq Ids /\ lost' \subseteq Ids
      BY <1>5, ZenonT(60) DEF CommittedReady
    <3>3. vault' \in Maybe /\ store' \in Maybe
      BY <1>5 DEF CommittedReady, finish
    <3>. QED BY <1>5, <3>1, <3>2, <3>3 DEF CommittedReady, finish
  <2>2. Table'
    BY <1>5 DEF CommittedReady, Bell, finish, Record
  <2>3. Fresh'
    <3>1. \A i \in lost' : i \in lost \/ i = job
      BY <1>5 DEF CommittedReady
    <3>2. job # 0 /\ job' = 0 /\ worker' = "none" /\ mailbox' = "empty"
      BY <1>5 DEF CommittedReady, Bell, finish
    <3>3. UNCHANGED <<diskVault, diskLib, whole, next>>
      BY <1>5 DEF CommittedReady, finish
    <3>4. \A i \in lost' : i < next' /\ i # 0 /\ i # job'
      BY <3>1, <3>2, <3>3
    <3>. QED BY <3>2, <3>3, <3>4
  <2>4. Held'
    BY <1>5 DEF CommittedReady, Bell, finish, Record
  <2>5. Stops'
    BY <1>5 DEF CommittedReady, Bell, finish, Record
  <2>6. Belongs'
    BY <1>5 DEF CommittedReady, Bell, finish, Record
  <2>7. DownloadsAccounted'
    BY <1>5 DEF CommittedReady, Bell, finish, Record
  <2>8. Kept'
    BY <1>5 DEF CommittedReady, Bell, finish, Record
  <2>. QED BY <2>1, <2>2, <2>3, <2>4, <2>5, <2>6, <2>7, <2>8
<1>6. CASE CommitFailed
  BY <1>6 DEF CommitFailed, Bell, finish, Record, Released
<1>7. CASE Panicked
  BY <1>7, SMTT(60) DEF Panicked, Bell, finish, Record, Deliver, Released
<1>. QED BY <1>1, <1>2, <1>3, <1>4, <1>5, <1>6, <1>7 DEF BellStep

\* What a person may ask, before, during and after a job.
LEMMA PersonInv == IInv /\ PersonStep => Rest'
<1> SUFFICES ASSUME IInv, PersonStep PROVE Rest'
  OBVIOUS
<1> USE JobsAssumption DEF IInv, Rest, Bools, Types, Table, Fresh, Held, Stops, Belongs, DownloadsAccounted, Kept,
            Ids, Maybe, Workers, Outcomes, NoHold, importing, committing, Running,
            disk, app, licence, asked, held, thread, dl, keys, wishes
<1>1. CASE start_export
  <2>1. Types'
    BY <1>1 DEF start_export, new_job
  <2>2. Table'
    BY <1>1 DEF start_export, new_job
  <2>3. Fresh'
    BY <1>1 DEF start_export, new_job
  <2>4. Held'
    BY <1>1 DEF start_export, new_job
  <2>5. Stops'
    BY <1>1 DEF start_export, new_job
  <2>6. Belongs'
    BY <1>1 DEF start_export, new_job
  <2>7. DownloadsAccounted'
    BY <1>1 DEF start_export, new_job
  <2>8. Kept'
    BY <1>1 DEF start_export, new_job
  <2>. QED BY <2>1, <2>2, <2>3, <2>4, <2>5, <2>6, <2>7, <2>8
<1>2. CASE start_import
  <2>1. Types'
    BY <1>2 DEF start_import, new_job
  <2>2. Table'
    BY <1>2 DEF start_import, new_job
  <2>3. Fresh'
    BY <1>2 DEF start_import, new_job
  <2>4. Held'
    BY <1>2 DEF start_import, new_job
  <2>5. Stops'
    BY <1>2 DEF start_import, new_job
  <2>6. Belongs'
    BY <1>2 DEF start_import, new_job
  <2>7. DownloadsAccounted'
    BY <1>2 DEF start_import, new_job
  <2>8. Kept'
    <3>1. worker' = "stage" /\ mailbox' = "empty"
      BY <1>2 DEF start_import, new_job
    <3>2. hold'.was_closed \/ due' \subseteq kept'
      <4>1. CASE store = None
        BY <1>2, <4>1 DEF start_import
      <4>2. CASE store # None
        BY <1>2, <4>2 DEF start_import
      <4>. QED BY <4>1, <4>2
    <3>3. diskVault' \in whole' => diskVault' \in whole
      BY <1>2 DEF start_import
    <3>. QED BY <1>2, <3>1, <3>2, <3>3 DEF start_import
  <2>. QED BY <2>1, <2>2, <2>3, <2>4, <2>5, <2>6, <2>7, <2>8
<1>3. CASE cancel
  BY <1>3 DEF cancel
<1>4. CASE lock_vault
  BY <1>4 DEF lock_vault
<1>5. CASE CloseRequested
  <2>1. Types'
    BY <1>5 DEF CloseRequested, hold_close
  <2>2. Table'
    BY <1>5 DEF CloseRequested, hold_close
  <2>3. Fresh'
    BY <1>5 DEF CloseRequested, hold_close
  <2>4. Held'
    BY <1>5 DEF CloseRequested, hold_close
  <2>5. Stops'
    <3>1. running' => running /\ (stopped' = stopped \/ (stopped' = TRUE /\ phase = "working"))
      BY <1>5 DEF CloseRequested, hold_close
    <3>2. stopped => stopped'
      BY <1>5 DEF CloseRequested, hold_close
    <3>3. stopped' => job' # 0
      BY <1>5 DEF CloseRequested, hold_close
    <3>4. UNCHANGED <<phase, kind, job, vault, lockWanted, lock_after>>
      BY <1>5 DEF CloseRequested, hold_close
    <3>. QED BY <3>1, <3>2, <3>3, <3>4
  <2>6. Belongs'
    BY <1>5 DEF CloseRequested, hold_close
  <2>7. DownloadsAccounted'
    BY <1>5 DEF CloseRequested, hold_close
  <2>8. Kept'
    BY <1>5 DEF CloseRequested, hold_close
  <2>. QED BY <2>1, <2>2, <2>3, <2>4, <2>5, <2>6, <2>7, <2>8
<1>6. CASE vault_unlock
  BY <1>6 DEF vault_unlock, Deliver
<1>7. CASE vault_create
  <2>1. Types'
    BY <1>7 DEF vault_create
  <2>2. Table'
    BY <1>7 DEF vault_create
  <2>3. Fresh'
    BY <1>7 DEF vault_create
  <2>4. Held'
    BY <1>7 DEF vault_create
  <2>5. Stops'
    BY <1>7 DEF vault_create
  <2>6. Belongs'
    BY <1>7 DEF vault_create
  <2>7. DownloadsAccounted'
    BY <1>7 DEF vault_create
  <2>8. Kept'
    BY <1>7 DEF vault_create
  <2>. QED BY <2>1, <2>2, <2>3, <2>4, <2>5, <2>6, <2>7, <2>8
<1>8. CASE vault_import
  <2>1. Types'
    <3>1. next \in Ids /\ next' \in 1..(MaxJobs + 1) /\ epoch' \in Nat
      BY <1>8 DEF vault_import
    <3>2. diskVault' \in Maybe /\ diskLib' \in Maybe /\ vault' \in Maybe /\ store' \in Maybe
      BY <1>8, <3>1 DEF vault_import
    <3>3. pending' \in Maybe /\ due' \subseteq Downloads /\ shown' \subseteq Ids
      BY <1>8, <3>1 DEF vault_import
    <3>. QED BY <1>8, <3>1, <3>2, <3>3 DEF vault_import
  <2>2. Table'
    BY <1>8 DEF vault_import
  <2>3. Fresh'
    BY <1>8 DEF vault_import
  <2>4. Held'
    BY <1>8 DEF vault_import
  <2>5. Stops'
    BY <1>8 DEF vault_import
  <2>6. Belongs'
    BY <1>8 DEF vault_import
  <2>7. DownloadsAccounted'
    BY <1>8 DEF vault_import
  <2>8. Kept'
    BY <1>8 DEF vault_import
  <2>. QED BY <2>1, <2>2, <2>3, <2>4, <2>5, <2>6, <2>7, <2>8
<1>. QED BY <1>1, <1>2, <1>3, <1>4, <1>5, <1>6, <1>7, <1>8 DEF PersonStep

\* A timer, a download, an activation answer, the end of the program.
LEMMA OtherInv == IInv /\ OtherStep => Rest'
<1> SUFFICES ASSUME IInv, OtherStep PROVE Rest'
  OBVIOUS
<1> USE JobsAssumption DEF IInv, Rest, Bools, Types, Table, Fresh, Held, Stops, Belongs, DownloadsAccounted, Kept,
            Ids, Maybe, Workers, Outcomes, NoHold, importing, committing, Running,
            disk, app, licence, asked, held, thread, dl, keys, wishes
<1>1. CASE CloseEvent
  <2>1. Types'
    BY <1>1 DEF CloseEvent, hold_close
  <2>2. Table'
    BY <1>1 DEF CloseEvent, hold_close
  <2>3. Fresh'
    BY <1>1 DEF CloseEvent, hold_close
  <2>4. Held'
    BY <1>1 DEF CloseEvent, hold_close
  <2>5. Stops'
    <3>1. running' => running /\ (stopped' = stopped \/ (stopped' = TRUE /\ phase = "working"))
      BY <1>1 DEF CloseEvent, hold_close
    <3>2. stopped => stopped'
      BY <1>1 DEF CloseEvent, hold_close
    <3>3. stopped' => job' # 0
      BY <1>1 DEF CloseEvent, hold_close
    <3>4. UNCHANGED <<phase, kind, job, vault, lockWanted, lock_after>>
      BY <1>1 DEF CloseEvent, hold_close
    <3>. QED BY <3>1, <3>2, <3>3, <3>4
  <2>6. Belongs'
    BY <1>1 DEF CloseEvent, hold_close
  <2>7. DownloadsAccounted'
    BY <1>1 DEF CloseEvent, hold_close
  <2>8. Kept'
    BY <1>1 DEF CloseEvent, hold_close
  <2>. QED BY <2>1, <2>2, <2>3, <2>4, <2>5, <2>6, <2>7, <2>8
<1>2. CASE GraceFires
  BY <1>2 DEF GraceFires, Post
<1>3. ASSUME NEW d \in Downloads, DownloadFinishes(d) PROVE Rest'
  <2>1. Types'
    <3>1. records' \in [Ids -> SUBSET Downloads]
      BY <1>3 DEF DownloadFinishes, Record
    <3>2. told' \subseteq Downloads /\ failed' \subseteq Downloads /\ due' \subseteq Downloads
      BY <1>3 DEF DownloadFinishes, Record
    <3>3. parked' \subseteq Downloads /\ finished' \subseteq Downloads
      BY <1>3 DEF DownloadFinishes, Record
    <3>. QED BY <1>3, <3>1, <3>2, <3>3 DEF DownloadFinishes
  <2>2. Table'
    BY <1>3 DEF DownloadFinishes, Record
  <2>3. Fresh'
    BY <1>3 DEF DownloadFinishes, Record
  <2>4. Held'
    BY <1>3 DEF DownloadFinishes, Record
  <2>5. Stops'
    BY <1>3 DEF DownloadFinishes, Record
  <2>6. Belongs'
    BY <1>3 DEF DownloadFinishes, Record
  <2>7. DownloadsAccounted'
    BY <1>3 DEF DownloadFinishes, Record
  <2>8. Kept'
    BY <1>3 DEF DownloadFinishes, Record
  <2>. QED BY <2>1, <2>2, <2>3, <2>4, <2>5, <2>6, <2>7, <2>8
<1>4. CASE start_activation
  BY <1>4 DEF start_activation
<1>5. CASE handle_event
  BY <1>5 DEF handle_event, Deliver
<1>6. CASE Restart
  BY <1>6 DEF Restart
<1>. QED BY <1>1, <1>2, <1>3, <1>4, <1>5, <1>6 DEF OtherStep

\* The flags stay flags.
LEMMA BoolsInv == IInv /\ Next => Bools'
<1> SUFFICES ASSUME IInv, Next PROVE Bools'
  OBVIOUS
<1> USE DEF IInv, Bools, disk, app, licence, asked, held, thread, dl, keys, wishes
<1>1. CASE WorkerStep
  BY <1>1 DEF WorkerStep, ExportEnds, StageEnds, AbandonEnds, CommitInstalls, CommitFails,
              CommitEnds, Panics
<1>2. CASE BellStep
  BY <1>2, ZenonT(60) DEF BellStep, Exported, ImportStopped, StagedAbandoned, StagedCommits, CommittedReady,
              CommitFailed, Panicked, finish, Released
<1>3. CASE PersonStep
  BY <1>3 DEF PersonStep, start_export, start_import, new_job, cancel, lock_vault, CloseRequested,
              hold_close, Running, vault_unlock, vault_create, vault_import
<1>4. CASE OtherStep
  BY <1>4, ZenonT(60) DEF OtherStep, CloseEvent, hold_close, Running, GraceFires, DownloadFinishes,
              start_activation, handle_event, Restart
<1>. QED BY <1>1, <1>2, <1>3, <1>4 DEF Next, OtherStep

\* Every step keeps the invariant.
LEMMA InvStep == IInv /\ [Next]_vars => IInv'
<1>1. IInv /\ Next => Rest'
  BY WorkerInv, BellInv, PersonInv, OtherInv DEF Next, OtherStep
<1>2. IInv /\ UNCHANGED vars => IInv'
  BY DEF IInv, Rest, Bools, Types, Table, Fresh, Held, Stops, Belongs, DownloadsAccounted, Kept,
         importing, vars, disk, app, licence, asked, held, thread, dl, keys, wishes
<1>. QED BY <1>1, <1>2, BoolsInv DEF IInv

\* The invariant holds where the program has just started.
LEMMA InvInit == Init => IInv
<1> SUFFICES ASSUME Init PROVE IInv
  OBVIOUS
<1> USE JobsAssumption DEF Init, Ids, Maybe
<1>1. Bools
  BY DEF Bools
<1>2. Types
  BY DEF Types, NoHold, Workers, Outcomes
<1>3. Table /\ Fresh /\ Held /\ Stops /\ Belongs /\ DownloadsAccounted /\ Kept
  BY DEF Table, Fresh, Held, Stops, Belongs, DownloadsAccounted, Kept, importing
<1>. QED BY <1>1, <1>2, <1>3 DEF IInv, Rest

\* The invariant holds always.
LEMMA InvAlways == Spec => []IInv
  BY InvInit, InvStep, PTL DEF Spec

------------------------------------------------------------------------------
(* The event loop's queue and an accepted close.                            *)

\* A CloseWindow waits in the queue, before any bell of the running job.
CloseAhead ==
    \E i \in 1..Len(queue) :
        /\ queue[i] = CloseWindow
        /\ job # 0 => \A k \in 1..(i - 1) : queue[k] # job

\* The queue holds bells of jobs that have a number, and CloseWindow.
Line ==
    /\ queue \in Seq(Nat) /\ \A k \in 1..Len(queue) : queue[k] < next
    /\ grace \in Nat /\ close_requests \in 0..2

\* The epoch moves once a job, at its commit.
Epochs == epoch < next /\ (importing /\ phase = "working" => epoch + 1 < next)

\* After an accepted close the running job is stopped and will end the program, or
\* the CloseWindow comes first.
Closes ==
    closing /\ running => /\ phase # "committing"
                          /\ (job # 0 /\ stopped /\ exit_when_done) \/ CloseAhead

\* A bell or a close posted behind a CloseWindow leaves it ahead.
LEMMA PostedAhead ==
    ASSUME queue \in Seq(Nat), CloseAhead, NEW x \in Nat, queue' = Append(queue, x), job' = job
    PROVE  CloseAhead'
<1>1. PICK i \in 1..Len(queue) : /\ queue[i] = CloseWindow
                                 /\ job # 0 => \A k \in 1..(i - 1) : queue[k] # job
  BY DEF CloseAhead
<1>2. /\ i \in 1..Len(queue') /\ queue'[i] = queue[i]
      /\ \A k \in 1..(i - 1) : queue'[k] = queue[k]
  OBVIOUS
<1>. QED BY <1>1, <1>2 DEF CloseAhead

\* A CloseWindow posted last is ahead of every bell while no job runs.
LEMMA ClosePosted ==
    ASSUME queue \in Seq(Nat), queue # <<>>, queue' = Append(Tail(queue), CloseWindow), job' = 0
    PROVE  CloseAhead'
<1>1. Len(queue') \in 1..Len(queue') /\ queue'[Len(queue')] = CloseWindow
  BY DEF CloseWindow
<1>. QED BY <1>1 DEF CloseAhead

\* A job that starts has no bell in the queue.
LEMMA StartedBehind ==
    ASSUME Line, CloseAhead, job' = next, next \in Nat, UNCHANGED queue
    PROVE  CloseAhead'
<1>1. PICK i \in 1..Len(queue) : queue[i] = CloseWindow
  BY DEF CloseAhead
<1>2. \A k \in 1..(i - 1) : queue[k] < next /\ queue[k] \in Nat
  BY DEF Line
<1>3. \A k \in 1..(i - 1) : queue[k] # next
  BY <1>2
<1>. QED BY <1>1, <1>3 DEF CloseAhead

\* The bell of the running job is not ahead of its CloseWindow.
LEMMA BellBehind ==
    ASSUME queue \in Seq(Nat), queue # <<>>, job # 0, Head(queue) = job, CloseAhead
    PROVE  FALSE
<1>1. PICK i \in 1..Len(queue) : /\ queue[i] = CloseWindow /\ \A k \in 1..(i - 1) : queue[k] # job
  BY DEF CloseAhead
<1>2. queue[1] = job /\ i # 1
  BY <1>1 DEF CloseWindow
<1>3. 1 \in 1..(i - 1)
  BY <1>2
<1>. QED BY <1>1, <1>2, <1>3

\* The queue's next event taken, or one put at its end.
LEMMA LineMoves ==
    ASSUME Line, NEW x \in Nat, x < next, next \in Nat, next' = next \/ next' = next + 1
    PROVE  /\ queue' = queue \/ queue' = Append(queue, x) => queue' \in Seq(Nat) /\ \A k \in 1..Len(queue') : queue'[k] < next'
           /\ queue # <<>> /\ (queue' = Tail(queue) \/ queue' = Append(Tail(queue), x))
                => queue' \in Seq(Nat) /\ \A k \in 1..Len(queue') : queue'[k] < next'
<1>. USE DEF Line
<1>0. \A k \in 1..Len(queue) : queue[k] < next'
  OBVIOUS
<1>1. CASE queue' = queue
  BY <1>0, <1>1
<1>2. CASE queue' = Append(queue, x)
  <2>1. queue' \in Seq(Nat) /\ Len(queue') = Len(queue) + 1 /\ queue'[Len(queue) + 1] = x
        /\ \A k \in 1..Len(queue) : queue'[k] = queue[k]
    BY <1>2
  <2>. QED BY <1>0, <1>2, <2>1
<1>3. CASE queue # <<>> /\ queue' = Tail(queue)
  <2>1. queue' \in Seq(Nat) /\ Len(queue') = Len(queue) - 1 /\ Len(queue) \in Nat \ {0}
        /\ \A k \in 1..Len(queue') : queue'[k] = queue[k + 1]
    BY <1>3
  <2>2. \A k \in 1..Len(queue') : k + 1 \in 1..Len(queue)
    BY <2>1
  <2>3. \A k \in 1..Len(queue') : queue'[k] < next'
    BY <1>0, <2>1, <2>2
  <2>. QED BY <2>1, <2>3
<1>4. CASE queue # <<>> /\ queue' = Append(Tail(queue), x)
  <2>1. queue' \in Seq(Nat) /\ Len(queue') = Len(queue) /\ Len(queue) \in Nat \ {0}
        /\ queue'[Len(queue)] = x /\ \A k \in 1..(Len(queue) - 1) : queue'[k] = queue[k + 1]
    BY <1>4
  <2>2. \A k \in 1..(Len(queue) - 1) : k + 1 \in 1..Len(queue)
    BY <2>1
  <2>3. \A k \in 1..(Len(queue) - 1) : queue'[k] < next'
    BY <1>0, <2>1, <2>2
  <2>4. \A k \in 1..Len(queue') : k \in 1..(Len(queue) - 1) \/ k = Len(queue)
    BY <2>1
  <2>5. x < next'
    OBVIOUS
  <2>. QED BY <2>1, <2>3, <2>4, <2>5
<1>. QED BY <1>1, <1>2, <1>3, <1>4
\* The line, the epochs and the close, step by step.
LEMMA CloseStep ==
    ASSUME IInv, Line, Epochs, Closes, Next
    PROVE  Line' /\ Epochs' /\ Closes'
<1>0. /\ next \in Nat \ {0} /\ next <= MaxJobs + 1 /\ job \in Nat /\ job < next /\ epoch \in Nat
      /\ CloseWindow = 0 /\ CloseWindow < next /\ CloseWindow \in Nat
      /\ queue \in Seq(Nat)
  BY JobsAssumption DEF IInv, Rest, Types, Fresh, Ids, CloseWindow, Line
<1>1. CASE WorkerStep
  <2>1. /\ UNCHANGED <<next, grace, close_requests, epoch, job, kind, phase, closing, running, stopped, exit_when_done>>
        /\ queue' = queue \/ queue' = Append(queue, job)
    BY <1>1 DEF WorkerStep, ExportEnds, StageEnds, AbandonEnds, CommitInstalls, CommitFails, CommitEnds,
                Panics, Leave, Post, licence, asked, wishes
  <2>2. Line'
    BY <1>0, <2>1, LineMoves DEF Line
  <2>3. Epochs'
    BY <2>1 DEF Epochs, importing
  <2>4. Closes'
    <3>1. CloseAhead => CloseAhead'
      <4>1. CASE queue' = queue
        BY <2>1, <4>1 DEF CloseAhead
      <4>2. CASE queue' = Append(queue, job)
        BY <1>0, <2>1, <4>2, PostedAhead
      <4>. QED BY <2>1, <4>1, <4>2
    <3>. QED BY <2>1, <3>1 DEF Closes
  <2>. QED BY <2>2, <2>3, <2>4
<1>2. CASE BellStep
  <2>1. /\ queue # <<>> /\ job # 0 /\ Head(queue) = job /\ running
        /\ UNCHANGED <<next, grace, closing, running>>
    BY <1>2 DEF BellStep, Exported, ImportStopped, StagedAbandoned, StagedCommits, CommittedReady, CommitFailed,
                Panicked, Bell, finish, wishes, Running
  <2>2. closing => stopped /\ exit_when_done /\ phase # "committing"
    BY <1>0, <2>1, BellBehind DEF Closes
  <2>3. CASE StagedAbandoned
    <3>1. UNCHANGED <<close_requests, epoch, job, kind, phase, stopped, exit_when_done>> /\ queue' = Tail(queue)
      BY <2>3 DEF StagedAbandoned, licence, asked
    <3>2. Line'
      BY <1>0, <2>1, <3>1, LineMoves DEF Line
    <3>3. Epochs'
      BY <2>1, <3>1 DEF Epochs, importing
    <3>. QED BY <2>1, <2>2, <3>1, <3>2, <3>3 DEF Closes
  <2>4. CASE StagedCommits
    <3>1. /\ UNCHANGED <<close_requests, job, kind, stopped, exit_when_done>> /\ queue' = Tail(queue)
          /\ ~stopped /\ epoch' = epoch + 1 /\ phase' = "committing" /\ mailbox = "staged"
      BY <2>4 DEF StagedCommits, Bell, asked
    <3>2. Line'
      BY <1>0, <2>1, <3>1, LineMoves DEF Line
    <3>3. kind = "import" /\ phase = "working"
      BY <3>1 DEF IInv, Rest, Table
    <3>4. Epochs'
      BY <1>0, <2>1, <3>1, <3>3 DEF Epochs, importing
    <3>5. ~closing
      BY <2>2, <3>1
    <3>. QED BY <2>1, <3>2, <3>4, <3>5 DEF Closes
  <2>5. CASE Exported \/ ImportStopped \/ CommittedReady \/ CommitFailed \/ Panicked
    <3>1. /\ job' = 0 /\ close_requests' = 0 /\ UNCHANGED epoch /\ phase' = "working" /\ kind' = "export"
          /\ queue' = IF exit_when_done THEN Append(Tail(queue), CloseWindow) ELSE Tail(queue)
      BY <2>5 DEF Exported, ImportStopped, CommittedReady, CommitFailed, Panicked, finish
    <3>2. Line'
      <4>1. queue' \in Seq(Nat) /\ \A k \in 1..Len(queue') : queue'[k] < next'
        BY <1>0, <2>1, <3>1, LineMoves
      <4>. QED BY <2>1, <3>1, <4>1 DEF Line
    <3>3. Epochs'
      BY <2>1, <3>1 DEF Epochs, importing
    <3>4. closing => CloseAhead'
      BY <1>0, <2>1, <2>2, <3>1, ClosePosted
    <3>. QED BY <2>1, <3>1, <3>2, <3>3, <3>4 DEF Closes
  <2>. QED BY <1>2, <2>3, <2>4, <2>5 DEF BellStep
<1>3. CASE start_export \/ start_import
  <2>1. /\ job = 0 /\ job' = next /\ next' = next + 1 /\ close_requests' = 0 /\ phase' = "working"
        /\ UNCHANGED <<queue, grace, running, epoch, closing>>
    BY <1>3 DEF start_export, start_import, new_job, licence, wishes, Running
  <2>2. Line'
    BY <1>0, <2>1, LineMoves DEF Line
  <2>3. Epochs'
    BY <1>0, <2>1 DEF Epochs, importing
  <2>4. Closes'
    BY <1>0, <2>1, StartedBehind DEF Closes
  <2>. QED BY <2>2, <2>3, <2>4
<1>4. CASE cancel \/ lock_vault \/ vault_unlock \/ vault_create \/ start_activation \/ handle_event
           \/ \E d \in Downloads : DownloadFinishes(d)
  <2>1. UNCHANGED <<queue, grace, close_requests, next, epoch, job, kind, phase, closing, running, exit_when_done>>
    BY <1>4, Zenon DEF cancel, lock_vault, vault_unlock, vault_create, start_activation, handle_event, DownloadFinishes,
             licence, asked, wishes
  <2>2. job # 0 /\ stopped => stopped'
    BY <1>4, Zenon DEF cancel, lock_vault, vault_unlock, vault_create, start_activation, handle_event, DownloadFinishes,
             asked, Running
  <2>3. Line' /\ Epochs'
    BY <2>1 DEF Line, Epochs, importing
  <2>4. CloseAhead => CloseAhead'
    BY <2>1 DEF CloseAhead
  <2>. QED BY <2>1, <2>2, <2>3, <2>4 DEF Closes
<1>5. CASE vault_import
  <2>1. /\ job = 0 /\ next' = next + 1 /\ epoch' = epoch + 1
        /\ UNCHANGED <<queue, grace, close_requests, job, kind, phase, closing, running, exit_when_done, stopped>>
    BY <1>5 DEF vault_import, asked, Running
  <2>2. Line'
    BY <1>0, <2>1, LineMoves DEF Line
  <2>3. Epochs'
    BY <1>0, <2>1 DEF Epochs, importing
  <2>4. CloseAhead => CloseAhead'
    BY <2>1 DEF CloseAhead
  <2>. QED BY <2>1, <2>2, <2>3, <2>4 DEF Closes
<1>6. CASE CloseRequested \/ CloseEvent
  <2>1. /\ UNCHANGED <<next, epoch, job, kind, phase>> /\ running
        /\ queue' = queue \/ (queue # <<>> /\ queue' = Tail(queue))
    BY <1>6 DEF CloseRequested, CloseEvent, hold_close, licence
  <2>2. grace' \in Nat /\ close_requests' \in 0..2
    BY <1>6 DEF CloseRequested, CloseEvent, hold_close, Line
  <2>3. Line'
    BY <1>0, <2>1, <2>2, LineMoves DEF Line
  <2>4. Epochs'
    BY <2>1 DEF Epochs, importing
  <2>5. Closes'
    <3> SUFFICES ASSUME closing', running'
                 PROVE  /\ phase' # "committing"
                        /\ (job' # 0 /\ stopped' /\ exit_when_done') \/ CloseAhead'
      BY DEF Closes
    <3>1. \/ job # 0 /\ phase = "working" /\ stopped' = TRUE /\ exit_when_done' = TRUE
          \/ closing' = closing /\ job # 0 /\ phase = "committing"
      BY <1>6, Zenon DEF CloseRequested, CloseEvent, hold_close, Running, committing
    <3>. QED BY <2>1, <3>1 DEF Closes
  <2>. QED BY <2>3, <2>4, <2>5
<1>7. CASE GraceFires
  <2>1. /\ UNCHANGED <<close_requests, next, epoch, job, kind, phase, closing, running, exit_when_done, stopped>>
        /\ queue' = Append(queue, CloseWindow) /\ grace > 0 /\ grace' = grace - 1
    BY <1>7 DEF GraceFires, Post, licence, asked, wishes
  <2>2. Line'
    <3>1. grace' \in Nat
      BY <2>1 DEF Line
    <3>. QED BY <1>0, <2>1, <3>1, LineMoves DEF Line
  <2>3. Epochs'
    BY <2>1 DEF Epochs, importing
  <2>4. CloseAhead => CloseAhead'
    BY <1>0, <2>1, PostedAhead
  <2>. QED BY <2>1, <2>2, <2>3, <2>4 DEF Closes
<1>8. CASE Restart
  BY <1>0, <1>8 DEF Restart, Line, Epochs, Closes, importing
<1>. QED BY <1>1, <1>2, <1>3, <1>4, <1>5, <1>6, <1>7, <1>8 DEF Next, PersonStep

\* So after any number of steps.
LEMMA CloseAlways == Spec => [](IInv /\ Line /\ Epochs /\ Closes)
<1>1. Init => Line /\ Epochs /\ Closes
  BY DEF Init, Line, Epochs, Closes, importing
<1>2. Line /\ Epochs /\ Closes /\ UNCHANGED vars => Line' /\ Epochs' /\ Closes'
  BY DEF Line, Epochs, Closes, CloseAhead, importing, vars, licence, asked, wishes
<1>3. IInv /\ Line /\ Epochs /\ Closes /\ [Next]_vars => Line' /\ Epochs' /\ Closes'
  BY <1>2, CloseStep
<1>. QED BY <1>1, <1>3, InvInit, InvStep, PTL DEF Spec

------------------------------------------------------------------------------
(* The properties.                                                          *)

\* Every variable keeps its type; the epoch and the queue stay within the numbers
\* of the jobs (TypeOK).
THEOREM TypesCorrect == Spec => []TypeOK
<1>1. IInv /\ Line /\ Epochs => TypeOK
  <2> SUFFICES ASSUME IInv, Line, Epochs PROVE TypeOK
    OBVIOUS
  <2>1. epoch \in Ids
    BY JobsAssumption DEF IInv, Rest, Types, Epochs, Ids
  <2>2. call \in Calls
    BY <2>1, JobsAssumption DEF IInv, Rest, Types, Belongs, Calls, Ids
  <2>3. queue \in Seq(Ids)
    <3>1. \A k \in 1..Len(queue) : queue[k] \in Ids
      <4>1. next \in 1..(MaxJobs + 1)
        BY DEF IInv, Rest, Types
      <4>2. \A k \in 1..Len(queue) : queue[k] \in Nat /\ queue[k] < next
        BY DEF Line
      <4>. QED BY <4>1, <4>2, JobsAssumption DEF Ids
    <3>. QED BY <3>1 DEF Line
  <2>4. close_requests \in 0..2 /\ grace \in Nat
    BY DEF Line
  <2>. QED BY <2>1, <2>2, <2>3, <2>4, Zenon DEF TypeOK, IInv, Rest, Types, Bools
<1>. QED BY <1>1, CloseAlways, PTL

\* Once a close was accepted no import commits before the window closes: the running
\* one is stopped, and one started later finds the CloseWindow ahead of its result
\* (hold_close, finish, on_bell).
THEOREM ClosesNeverCommit == Spec => []ClosingNeverCommits
<1>1. Closes => ClosingNeverCommits
  BY DEF Closes, ClosingNeverCommits, committing
<1>. QED BY <1>1, CloseAlways, PTL

\* A stop accepted from the person, a lock or a close is never followed by a
\* commit (staged_ready reads the stop again on the event loop).
THEOREM StopsHonoured == Spec => []StopHonoured
<1>1. IInv => StopHonoured
  BY DEF IInv, Rest, Stops, StopHonoured, committing
<1>. QED BY <1>1, InvAlways, PTL

\* An import's worker always runs under the import lock and the Library lock,
\* and commits with no vault and no Library open (start_import, staged_ready).
THEOREM CommitsAlone == Spec => []CommitAlone
<1>1. IInv => CommitAlone
  BY DEF IInv, Rest, Held, CommitAlone, committing
<1>. QED BY <1>1, InvAlways, PTL

\* After a lock no vault is open until the person opens one, whatever a late
\* result of the worker brings (lock_vault, committed_ready, finish).
THEOREM LocksHold == Spec => []LockHolds
<1>1. IInv => LockHolds
  BY DEF IInv, Rest, Types, Table, Stops, LockHolds, committing
<1>. QED BY <1>1, InvAlways, PTL

\* For any number of downloads, jobs and restarts: a finished download is recorded,
\* reported, waiting for an import, unreadable when it was hashed, or was waiting
\* when the program ended, exactly one of these, and waits only while an import runs
\* (record_download_provenance, finish, on_exit).
THEOREM DownloadsAlwaysAccounted == Spec => []DownloadsAccounted
<1>1. IInv => DownloadsAccounted
  BY DEF IInv, Rest
<1>. QED BY <1>1, InvAlways, PTL

\* A record once reported is in the Library on disk, through any number of
\* imports, unless one said that it does not keep them (start_import's
\* records, build, finish).
THEOREM DownloadsAlwaysKept == Spec => []DownloadsKept
<1>1. IInv => DownloadsKept
  BY DEF IInv, Rest, Kept, DownloadsKept
<1>. QED BY <1>1, InvAlways, PTL

\* An activation answer is written only into the vault its call was made for
\* (handle_event_from, replay_pending, finish).
THEOREM AnswersAlwaysBelong == Spec => []AnswersBelong
<1>1. IInv => AnswersBelong
  BY DEF IInv, Rest, Belongs, AnswersBelong
<1>. QED BY <1>1, InvAlways, PTL

\* A recovery key goes to the chrome only where its vault stays open, and is
\* never also said to be lost (committed_ready, finish, vault_import).
THEOREM KeysShownOpen == Spec => KeyShownOpen
<1>1. IInv /\ [Next]_vars => [\A i \in Ids : i \in shown' \ shown => vault' = i /\ i \notin lost']_vars
  <2> SUFFICES ASSUME IInv, Next, NEW i \in Ids, i \in shown', i \notin shown
               PROVE  vault' = i /\ i \notin lost'
    BY DEF vars
  <2> USE DEF keys
  <2>1. CASE CommittedReady
    <3>1. i = job /\ ~lock_after /\ lost' = lost
      BY <2>1 DEF CommittedReady
    <3>2. vault' = job
      BY <2>1, <3>1 DEF CommittedReady, finish
    <3>. QED BY <3>1, <3>2 DEF IInv, Rest, Fresh
  <2>2. CASE vault_import
    <3>1. i = next /\ vault' = next /\ lost' = lost
      BY <2>2 DEF vault_import
    <3>. QED BY <3>1, JobsAssumption DEF IInv, Rest, Types, Fresh, Ids
  <2>3. CASE WorkerStep
    BY <2>3 DEF WorkerStep, ExportEnds, StageEnds, AbandonEnds, CommitInstalls, CommitFails,
                CommitEnds, Panics
  <2>4. CASE BellStep /\ ~CommittedReady
    BY <2>4 DEF BellStep, Exported, ImportStopped, StagedAbandoned, StagedCommits, CommitFailed,
                Panicked
  <2>5. CASE PersonStep /\ ~vault_import
    BY <2>5 DEF PersonStep, start_export, start_import, cancel, lock_vault, CloseRequested,
                hold_close, vault_unlock, vault_create
  <2>6. CASE OtherStep
    BY <2>6 DEF OtherStep, CloseEvent, hold_close, GraceFires, DownloadFinishes,
                start_activation, handle_event, Restart
  <2>. QED BY <2>1, <2>2, <2>3, <2>4, <2>5, <2>6 DEF Next, OtherStep
<1>. QED BY <1>1, InvAlways, PTL DEF Spec, KeyShownOpen
==============================================================================
