# PATANYX in TLA+

PATANYX is a desktop browser (Rust, `crates/app` and the library crates beside
it) that keeps its user's data in two encrypted files: the **vault** (secrets,
licence, contacts) and the **Library** (bookmarks, archived pages and their
pictures, download records). This directory holds TLA+ models of the parts of it
that are hard to test, the TLC runs that check them on small instances, and TLAPS
proofs of the main results for every value of the constants.

Read first: `Profile.tla` (what an import promises), `LibraryImport.tla` (what
happens to the disk), then `BackupJob.tla` (what happens to the running program).
`VaultFile`, `Updater`, `DeviceRelease` and `ChatTransport` stand alone.
`PROJECT.json` maps every definition to the
source lines it models.

## 1. Inventory

Paths are below `src/crates/`. "Modelled in" is empty for what is still to come or
stays out (section 8).

| Component | State it keeps | Operations | Modelled in |
|---|---|---|---|
| Whole-Library import, `app/src/vault_backup.rs` | staging folders, `archive.old-*` folders, a journal with a phase that keeps earlier journals nested | stage (settle, build), install, recover (undo, finish, clean_up), abandon, discard | `LibraryImport`, `Profile` |
| Library opening and the import of older backups, `app/src/state.rs` `open_store`, `app/src/ipc.rs` `vault_import`, `replace_library` | `store`, `store_lock`, the marker `<store>.replace-pending` | unlock, create, lock, open, older import | `LibraryImport` |
| Jobs, `app/src/backup_job.rs` | the running job, its worker thread, mailbox, watch, parked downloads, close and lock requests | start_export, start_import, cancel, on_lock, hold_close, on_bell and its five outcomes, finish, on_exit | `BackupJob` |
| Activation answers, `app/src/activation.rs`, `licence_control.rs` | in-flight flag, `vault_epoch`, `activation_epoch`, one parked answer | start_activation, handle_event, replay_pending | `BackupJob` (with jobs), `DeviceRelease` (with the vault) |
| Vault file, `vault/src/lib.rs`, `lock.rs`, `backup.rs` | the file, its slots, the advisory lock, rotated copies | create, unlock, save, change_passphrase, add_recovery, rotate, prune, retire, import | `VaultFile` |
| Backup file format, `vault/src/backup_v4.rs` | none (a stream) | write, read, verify | |
| Library store, `store/src` | the file, the picture folder | open, save, restore, reconcile, move_into_vault | |
| Updater, `app/src/updater.rs`, `update/src` | phase under a mutex, the pending release on disk, the failed-release record, `.new` / `.prev` beside the executable | check, download, install, startup_attempt, swap, relaunch, clean_previous | `Updater` |
| Device release, `app/src/activation.rs` | `release_pending`, `released_devices`, receipts in the vault; session, result, in-flight flag | start, answer, retry at unlock, activate, paste, remove, offline receipt | `DeviceRelease` |
| Tunnel, `app/src/tunnel_control.rs`, `tunnel/src` | a bound port, a refuse loop or a running tunnel, a probe thread | bind at start, hand over at unlock, stop | |
| Chat, `app/src/chat_panel.rs`, `chat/src` | sessions, unproven sessions, initiations, links, outstanding messages (feature off in published builds) | open, close, send, retry, probe, dial, handshake, payload, relay events | `ChatTransport` |
| Ad-list consent, engine advisory, page integrity | per-tab prompts, monotonic registers, outstanding requests | ask, answer, record | |
| Language packs, blocklist | a downloaded file | fetch, verify, install | |
| OCR, reader, translation, licence tokens | none (pure) | | |
| Browser shell | tabs, preferences, webviews | | |

How they meet. One event-loop thread owns `AppState`; every handler runs to its
end. Slow work runs on worker threads that never touch `AppState`: a worker leaves
its result in the job's mailbox and posts `Bell::Ready` on the loop's queue. While
a worker runs, the loop still takes locks, closes, timers, downloads, activation
answers and commands. Two *processes* meet only through advisory lock files (the
vault's, the Library's, the marker's, the updater's).

What is hard here:

* an import replaces two files and a folder that no single rename can replace
  together, and may die, or fail, between any two changes; an import of an older
  kind may run in between, and imports may pile up, each keeping the journal of
  the one before;
* a stop, a lock, a close or a restart meets a worker that has just passed its last
  check; a timer outlives the job that started it;
* a download or a network answer arrives while the vault it belongs to is being
  replaced;
* two processes write the same vault or replace the same executable, and either may
  die with a lock held or a file half written;
* a release of the device is a promise kept over a lost answer, a failed save and a
  lock, against a silent activation that wants the opposite;
* two chat peers start a handshake, dial and rekey at once, over links that break and
  a relay that loses and refuses.

`PROJECT.json` lists these as `hazards`, each at its line with the properties that
cover it.

## 2. Modules

### `LibraryImport`: replacing the vault and the Library

A profile is a number: 0 is the vault the computer had, and each import attempt
takes the next number. The number stands for the vault's master key (so for its
Library key and for the check value in the journal) and for the two random folder
names; the code makes all of these afresh for each attempt.

* *Disk*: `vault`, `lib`, `pics` say whose vault file, Library file and `archive`
  folder are live; `stDir`, `stArch`, `stLib` say which staging folders exist and
  what is still in them; `oldArch[i]` is the folder import `i` moves the live
  pictures to; `head`, `phase`, `superseded` are the journal file and the journals
  nested in it; `tmp` a journal's temporary file; `marker` the older import's marker.
* *Memory*: `open` and `store` (`AppState::vault`, `AppState::store`), `stop` (the
  watch), and a program counter `pc` with `job`, `cur`, `ret`, `via` for the call
  in progress.
* *Content*: `built` are Libraries that are complete, `bare` those whose records
  name no picture (for which a missing `archive` folder is no loss).

One action is one change of the disk, so that `Crash` (lose the memory, keep the
disk) may fall between any two. Every file operation whose failure the code handles
has a failing disjunct: a rename that happened although the flush after it failed,
a removal cut short, a temporary file that stayed. The order is the code's:
`StartImport`, `Settle*`, `PrepareJournal`, `MakeStaging`, `MakeArchive`,
`CreateLibrary`, `CommitRestore`, `JournalStaged` (stage_inner and build);
`StagedCommits`, `Install`, `NoteCommitted` (staged_ready, install);
`Recover*` (the match in recover); `MoveLiveAside`, `MoveArchiveIn`,
`MoveLibraryIn`, `SwapVerified`, `WriteSwapped` (finish); `CleanMarker`,
`SweepFolder`, `SweepDone`, `CleanTemps`, `CleanJournal` (clean_up, discard);
`Undo*` (undo). `Unlock`, `CreateVault`, `Open*`, `CreateMissing` are open_store;
`StartLegacyImport` to `LegacyClear` are the older import.

### `BackupJob`: the event loop and the worker

Each handler of the loop is one action. The worker is `worker` (what it is doing)
and ends by `Leave(outcome)`: mailbox, then bell. `queue` is the loop's channel in
FIFO order, holding bells (the job's number) and `CloseWindow` (0). What a worker
does to the disk is `LibraryImport`; here it only ends, well or badly, and
`open_store` is a choice between the results `LibraryImport` shows possible: the
vault's own Library, or none.

History variables state what the user was told or asked for: `lockWanted`,
`closing`, `finished`/`told`/`failed`/`unsaid`/`due` (downloads), `receipts` (which vault an answer was
asked for, which it was written to), `shown`/`lost` (recovery keys). `unsaid` are the
downloads nobody hears of: record_download_provenance returns without a word when the
saved file cannot be hashed, and a download parked for an import is gone when the program
ends before it (on_exit, or a crash).

### `Profile`: what an import promises

Four variables a user could name: whose vault is on disk (`owner`), which imports hold
a Library too (`whole`), whether the owner's Library exists (`library`), whether it is
open (`shown`). `Replace` changes vault and Library in one step; nothing else takes a
Library away. `LibraryImport` implements it (`ReplacedTogether == P!Spec`): `owner` is
the vault file, `library` holds when the owner's Library is in place or is complete
under a journal that recovery will finish, `shown` when it is attached. The single
step of `Replace` is the rename of the vault file; everything before it can be undone
and everything after it will be finished.

### `VaultFile`: one vault, several processes

A vault image is its master key, passphrase slot, recovery slot and entries; each key
is the number of the operation that made it. A process reads the file into `mem` under
the `lock`, an operation changes `mem` first and then saves it: `Rotate` (copy the file
under a fresh stamp), `Prune`, then `Saved` or `SaveFails`, then for a passphrase
change `RetireBackups`. The import discards the copies of the vault it replaces
(`Discard`). A write that dies leaves a temporary file that holds all of the image or a
start of it; `Ours` and `SharesSalt` decide from what is left whose it is, as
classify_leftover and slot_salts_of do. `CreateCheck` looks for the file and `Create`
takes the lock later, without looking again, as create_inner does; `overwritten` records
the vaults that were replaced that way (finding 3).

### `Updater`: one executable, several processes

A file is a version and an inode, which is what `still_running_file` compares. A launch
goes through apply_pending_at_startup (`NotNow`, `NotEver`, `Ripe`), startup_attempt
under the record's lock, and `installer::apply` step by step (`LockUpdate` to
`Restore`); the panel's click takes the same steps from `ApplyClick`. The bytes written are
those of the staged file, which may be another release's than the manifest's beside it:
`Verified` is what refuses such a pair. `CheckNow`,
`CheckDone`, `Chain`, `Downloaded`, `InstallClick`, `InstallBegin` are the phase machine
with its check thread and its two download threads. `Starts` is the set of versions that
would start on this machine; the code does not know it, and the preflight may be wrong
about the engine the file will meet later. `Exit` is a quit or a crash anywhere.

### `DeviceRelease`: activating and giving up a device

The four facts a vault holds about this device (licence, receipt, release started,
released) in memory and on disk, the session and its last result, the one call that may
be out, the answer parked over a lock. `Written` is a list of mutators with a save after
each, any of which may fail; the failed change stays in memory, as in the code. The
answers are handled as in handle_event_from: dropped when the vault was replaced, parked
or dropped when it is locked, applied otherwise, each with the evaluation
(on_vault_unlocked) and the silent retry after it. A receipt pasted offline binds
(`ImportReceipt`) or does not (`ReceiptRejected`): then the records are first saved without
this device's own receipt, evaluated, put back by a save whose failure is ignored, and
evaluated again; the first evaluation may start a silent activation. `wish` records what the user last
asked for.

### `ChatTransport`: two cores and the network between them

Each action is one message of the core's queue: a command, a tick, a discovery or relay
event, a dial's end, or a frame (`InitIgnored`, `InitAnswered`, `RespArrives`,
`MsgArrives`, `AckArrives`, `PingArrives`, `Dropped`). A session is the pair of
ephemerals it was made from, so a frame opens exactly under the session it was sealed
for. `Keeps`/`Shuts` are associate_link's choice between two links, `Proves` the
promotion of the unproven session, `Carried` what a session hands to its successor. `Live`
is route's look at the kept link, which it forgets when the link is gone, before it tries
the relay or a dial (`Path`).
`chan` holds the frames of each link and of the relay in order; a closed link loses them.

`MC*` instantiate the modules for TLC. Each component's theorems are in its `*Proofs`
module: `LibraryImportProofs`, `BackupJobProofs`, `VaultFileProofs`, `UpdaterProofs`,
`DeviceReleaseProofs`, `ChatTransportProofs`.

Definitions named after what they break (`RecoverUndoAny`, `hold_close_forgotten`,
…) and marked *Mutant* stand just before the definition they are a plausible wrong
version of. They are in no specification; replacing the right definition by one of
them makes TLC violate the property `PROJECT.json` names beside it.

## 3. Runs

| Run | Bounds | Distinct states | Shows |
|---|---|---|---|
| `library_import` | 3 imports, 2 faults, 1 nested journal | 2.8 M | the invariants of the import, `LiveLibraryKept`, and that it implements `Profile` |
| `library_import_live` | 2 imports, 2 faults | | `ImportedLibraryOpens` |
| `undo_after_swap` | 2 imports, 3 faults | | violated: finding 1 |
| `marker_after_crash` | 1 import, 1 fault | | violated: finding 2 |
| `backup_job` | 2 jobs, 2 downloads (symmetric) | 5.2 M | the invariants of the job and `KeyShownOpen` |
| `backup_job_live` | 2 jobs, no download | | `JobsEnd`, `LockHappens`, `CloseHappens` |
| `vault_file` | 2 processes (symmetric), 1 entry, 1 copy kept, 3 keys, 2 clock values, 1 leftover | 2.5 M | the five invariants of the vault file |
| `create_race` | the same | | violated: finding 3 |
| `updater` | 2 processes, 1 with a panel, 3 releases of which the third does not start, 3 files, 2 checks | 2.4 M | `WorkingCopy`, `StopHolds`, `NeverOlder`, `BrokenStays` |
| `device_release` | 1 import | 10.8 k | `ReleaseSticks`, `ReleaseSettles` |
| `device_release_intent` | 1 import | | violated: finding 4 |
| `chat_transport` | 2 links (symmetric) and the relay, 1 message, 2 attempts, 4 ephemerals, 1 fault | 3.1 M | `NoStranded`, `ShownOnce`, `RetryBudget` |

What the properties say:

* `NothingLost`: once an import's vault is on disk, its Library is in place or all
  of it is still on disk under a journal recovery can finish.
* `AttachedLibrary`, `OpensOwnLibrary`: the Library that is open, or about to be
  opened, is the complete one of the vault on disk, with its own pictures (opening
  another would prune them).
* `RecoveryDecides`, `SwapNeverBlocked`: recovery for an imported vault never ends
  in one of the cases where the code refuses to touch anything.
* `NoOrphanFolders`: every staging folder is named by a journal that is still on disk, and
  once an imported vault has no journal left, no folder of pictures moved aside is left
  either.
* `LiveLibraryKept`: while the vault stays, no failed, stopped or undone import
  disturbs its Library.
* `ImportedLibraryOpens`: after finitely many failures the imported Library is
  attached.
* `StopHonoured`, `LockHolds`, `ClosingNeverCommits`: a stop, a lock or a close that
  was accepted is not overtaken by a commit or by a commit's result.
* `CommitAlone`: the files are replaced with both locks held and nothing open.
* `DownloadsAccounted`: a finished download is recorded, or reported as not recorded, or
  waits for the import that runs, or could not be read when it was hashed, or was waiting
  when the program ended; exactly one of these. The last two are silent, although the
  comment of record_download_provenance calls what happens then "a decision, not a silent
  drop"; the property says that there are no others.
* `DownloadsKept`: a record survives the import unless the import said it would not.
* `AnswersBelong`: an activation answer reaches only the vault it was asked for.
* `KeyShownOpen`: a one-time recovery key is sent only where its vault stays open.
* `JobsEnd`, `LockHappens`, `CloseHappens`: nothing waits for ever.
* `ReplacedTogether`: the import implements `Profile`.
* `AckedOnDisk`: an entry whose add returned Ok is in the vault file until its deletion or
  an import is asked for, whatever other windows save, with one exception, a vault that
  another window's create replaced. `NoLostUpdate` is the same without the exception and
  does not hold (finding 3).
* `RetiredStaysRetired`: once a passphrase change was reported clean, or an import said
  that it kept no unproven copy, nothing beside the vault opens with an older passphrase,
  and no later save brings one back.
* `FailedNeverLands`: a key whose operation was reported as failed is in no vault file.
* `RecoveryKeyWorks`: a recovery key handed over opens its vault as long as the vault is
  there.
* `PreviousKept`: a save that reported no backup error has copied what it replaces, if
  the clock was past the stamps of the copies there were. Without that condition it is
  false: a clock that went back makes the copy just written the oldest by its name.
* `WorkingCopy`: a file that starts is at the executable's path or at `.prev`.
* `NeverOlder`: the version at the path goes down only when a process takes its own
  install back.
* `StopHolds`: a release given up on is not being installed at any startup, neither under
  its own manifest nor as the staged file beside another release's.
* `BrokenStays`: the screen that names the working copy is not overwritten.
* `ReleaseSticks`, `ReleaseSettles`: a recorded release is not followed by an activation
  the user did not ask for, and does not stay unanswered.
* `NoStranded`, `ShownOnce`, `RetryBudget`: a message reads "sending" exactly while it is
  outstanding, is shown once unless the addressee ended the session it was shown in, and
  is tried at most MAX_SEND_ATTEMPTS times over all sessions.

**Why the bounds are enough.** Two imports are needed for one journal to keep
another, three for the limit of one nested journal (`MaxKept = 1`) to be met; the
real limit is a few levels (each nesting doubles a journal of about 300 bytes,
`MAX_JOURNAL_BYTES` is 64 KiB), and nothing depends on which. Two faults give a
crash and then a failure, or a crash, during the recovery of the first. Two jobs
let a timer, an activation call or a `CloseWindow` of the first reach the second;
two downloads let one be recorded and one not. The number of imports, faults, jobs
and downloads is arbitrary in the theorems.

In `VaultFile`, three keys are the vault's own and two more operations (a change and
an import, two changes, a failed change and a good one); two processes are enough for a
stale read; one copy kept makes every second save prune. In `Updater`, three releases
give a decision about the second while the third is installed; the third does not
start, so the restore happens; three files are an install and its retry or two
installs. Only one process uses the panel, which is where the threads are; the other
launches, installs and dies. In `ChatTransport` two links are the two crossing dials;
four ephemerals are one handshake each way and a rekey. One fault is enough to lose an
acknowledgement or a link at any moment, or to have the relay back after it went, or to
hear of a further address of the other peer; the relay may go at any time, and frames on a
closed link or of a peer without the relay are lost, without being counted.

**Fairness.** In `LibraryImport` the code's own steps (`StageStep`, `RecoverStep`,
`OpenStep`, `LegacyStep`) are weakly fair: they are a thread that runs or a handler
that does not yield. `Unlock` and `Lock` are weakly fair: the property is about a
person who comes back, and an idle vault is locked by its timer. The preferences can turn
that timer off; the assumption is then that the person locks or quits in the end. Failures are
bounded by `MaxFaults`: if a disk never works again nothing can be promised. In
`BackupJob` the worker ends, the loop takes its next event, and the grace timer
fires; nothing is assumed of the person. In `DeviceRelease` the worker answers (its
requests time out), the idle timer or the person locks, the person unlocks again, and `ReleaseDone` is
strongly fair: a server asked again and again is reached in the end and the answer saved.
`ReleaseSettles` says nothing to a person who never unlocks again or a server that is
gone.

Deadlock is checked except in `vault_file`, `updater` and `chat_transport`, where the
bounds on keys, files and handshakes let a behaviour end.

## 4. Findings

The first two are places where a comment says more than the code does; neither loses a
Library that an import restored (`NothingLost` holds in the same model). The third and the
fourth are defects with a small window.

1. `undo_after_swap`. `undo` is documented as "Only valid before the swap began".
   The `vault_committed` note is best effort; if it is lost, a crash in the middle of
   the swap leaves a `staged` journal. An older-backup import that replaces the
   vault and crashes before `discard` then makes the next unlock undo it, and the
   `archive.old-*` folder is named by no journal any more.
2. `marker_after_crash`. The marker is documented as standing "while a profile
   import could not remove the previous profile's Library". It is written before
   the vault is replaced, so a crash in between leaves it over the current vault's
   own Library, which then stays shut until an import succeeds.
3. `create_race`. create_inner's comment at the lock says "Before any bytes are written:
   creating a vault a second process already holds would be the same lost-update race as
   opening one." It asks whether the file exists before it takes the lock, and not again
   after. A window that passed the question, and got the lock only when another window had
   created a vault, stored an entry and closed it, replaces that vault with an empty one. The
   copy that its first save rotates is what is left of the other one. Asking again under the
   lock would close it.
4. `device_release_intent`. `start_release` says "THE INTENT GOES TO DISK BEFORE THE
   REQUEST LEAVES". `begin_release` leaves `release_pending` in memory when its save
   fails, and returns without writing when memory already names the device: the second
   click after a failed one sends the request with nothing on disk, and a crash before
   the answer forgets that the user asked. Saving whenever the disk may lack the record,
   or taking the field back on error, would close it. `ReleaseSticks` and
   `ReleaseSettles` are therefore stated of a release that is *recorded*.

One stale comment met on the way needs no run: the smoke run in `ipc.rs` (5121-5122) says
that after a lock during the commit the result "carries the new recovery key"; `finish`
takes the key out and sends `key_lost`, which the same smoke run asserts (5137-5141) and
`KeyShownOpen` relies on.

## 5. What is proved

Every safety invariant and every action property of a passing run, and the refinement
of `Profile`, is a theorem for all values of the constants. Each inductive invariant
was first checked by TLC on the bounds of section 3. The assumptions are those the
modules declare: the bounds are naturals, and `None`, which stands for an absent file,
process, session or vault, is none of the things it could be mistaken for
(`ConstantsAssumption`, `NoneAssumption` and so on). `Updater` also assumes that release 1,
the installed one, starts (`StartsAssumption`), and `ChatTransport` that each message
has an author (`AuthorAssumption`).

| Module | Theorem | States |
|---|---|---|
| `LibraryImportProofs` | `TypesCorrect` | `TypeOK`, with the limit of nested journals |
| | `NeverLost` | `NothingLost` |
| | `AttachedIsOwn`, `OpensOwn` | `AttachedLibrary`, `OpensOwnLibrary` |
| | `AlwaysDecides`, `MoveNeverBlocked` | `RecoveryDecides`, `SwapNeverBlocked` |
| | `FoldersAreNamed` | `NoOrphanFolders` |
| | `LiveKept`, `Implements` | `LiveLibraryKept`, `ReplacedTogether` |
| `BackupJobProofs` | `TypesCorrect` | `TypeOK` |
| | `StopsHonoured`, `LocksHold`, `ClosesNeverCommit` | `StopHonoured`, `LockHolds`, `ClosingNeverCommits` |
| | `CommitsAlone` | `CommitAlone` |
| | `DownloadsAlwaysAccounted`, `DownloadsAlwaysKept` | `DownloadsAccounted`, `DownloadsKept` |
| | `AnswersAlwaysBelong`, `KeysShownOpen` | `AnswersBelong`, `KeyShownOpen` |
| `VaultFileProofs` | `AckedEntriesStay`, `FailedKeysNeverLand` | `AckedOnDisk`, `FailedNeverLands` |
| | `OldPassphrasesStayRetired`, `RecoveryKeysWork` | `RetiredStaysRetired`, `RecoveryKeyWorks` |
| | `PreviousVersionKept` | `PreviousKept` |
| `UpdaterProofs` | `AlwaysAWorkingCopy`, `PathNeverGoesBack` | `WorkingCopy`, `NeverOlder` |
| | `StoppedIsNotInstalled`, `BrokenIsShown` | `StopHolds`, `BrokenStays` |
| `DeviceReleaseProofs` | `ReleaseIsFinal` | `ReleaseSticks` |
| `ChatTransportProofs` | `NoMessageIsStranded`, `RetriesAreBounded`, `MessagesAreShownOnce` | `NoStranded`, `RetryBudget`, `ShownOnce` |

The inductive invariants are themselves theorems (`Inductive`, `ReleaseIsCovered`) or
lemmas (`InvAlways`, `FoldersAlways`, `CloseAlways`). Along which argument:

**`LibraryImport`.** `NothingLost` is not inductive: whether the Library of the vault on
disk survives a step depends on which journals exist and on where the worker is. `IInv`
adds, for each program counter, what has been achieved so far (`Control`: who is being
built, undone, swapped or cleaned, and by which caller), that an import not yet started
has left no trace (`Fresh`), that the journals form one chain without a gap (`Chain`),
that the vault on disk is never one whose journal may be undone (`Order`), and where its
Library is (`Held`). One lemma per group of actions.

Three parts on top of it, each inductive together with `IInv`, are about what an import
leaves behind. `Aside`: pictures are moved aside only by imports up to the vault on disk,
and from that move to the next one there is no folder `archive`. A store that was opened
in between would make one, and the swap would be blocked; `InPlaceMoved` is the reason
that cannot happen. `Tidy`: a staging folder goes before the journal that names it, and
the folders moved aside before the vault's own journal; it has a clause for `undoJournal`
and for the steps after the sweep, because a crash may fall there. `Limit`: a journal is
written only where `settle` found room, so at the step `prepare` there is room for one
more. `QuietStep` shows once which steps touch none of this.

`Implements` is the refinement. `LibraryStep` shows that a step which leaves the vault in
place does not take `library` away, `KeptStep` and `LibraryOfOwner` where it comes from,
`MadeAttached` that only the owner's Library is shown, `OwnerStep` and `ReplaceStep` that
the vault changes only in `Install`, `LegacyInstall` and `CreateVault`, each of which is a
`Replace`; `RefinesStep` combines them: every step is a step of `Profile` or leaves its
four variables alone.

**`BackupJob`.** `IInv` has `Table` (which worker, mailbox and phase may occur together),
`Fresh` (numbers not given out yet have left no trace), `Held` (who holds the locks),
`Stops`, `Belongs` (a call with the current epoch was made for the vault on disk, and a
parked answer too, which is why the epoch moves exactly when the vault may be replaced),
and `Kept` (the records an import took at its start are still all there are, because
later ones are parked).

`ClosingNeverCommits` needs the order of the queue. After an accepted close either the
job is stopped and will end the program, or a `CloseWindow` is in the queue before every
bell of the running job (`Closes`, `CloseAhead`): a bell posted later goes behind it, and
a job started later has its first bell behind it too. `Line` and `Epochs` (the epoch moves
once a job) give `TypeOK`.

**`VaultFile`.** The properties are about the disk, and hold because of what a process
that holds the lock has in memory. `Exclusive`: who has read the file holds the lock.
`Changes`: until the save lands, memory is the file but for the one slot or entry the
operation is about, and a slot that changed holds the newest key, which nothing on disk
holds yet (`Known(next - 1)`). `Loaded`: everything acknowledged is in the memory that
will replace the file. `CurrentAcked` is what these give at once: every acknowledged entry of
the vault now on disk is in it. `AckedOnDisk` follows because an acknowledged entry belongs
to the vault on disk or to an overwritten one: master keys are never used twice, and only
an import, which ends the obligation, a create, which is recorded, and a migration, before
which nothing was acknowledged, put another there. `Rotated`: the copy of the file about to be replaced has the
newest stamp, so `Prune`, which keeps the newest, keeps it; that needs `StampIsFresh`, the
fact that among n + 1 times in a row one is taken by none of n copies.

**`Updater`.** `Locked`: inside the swap a process holds the update lock, the file at the
path is the one it runs until the rename, and `.prev` is a copy of it after the link; an
automatic install holds the record's lock from the decision to the count, which is
`StopHolds`; and from the verification on the staged bytes are those of the release that
was decided on, so the file written is too. `Inodes`: two names with one inode hold the same bytes, so that
`still_running_file` says what it is used for. `InHand`: every release a process has in
its panel, in a thread or in the install it has begun is newer than the process; with `Locked` it is
newer than what it replaces, which is `NeverOlder`.

**`DeviceRelease`.** `ReleaseCovered`: from the record of the release on, the vault on disk
and the open one hold one of the three facts that keep on_vault_unlocked from activating
whatever receipt there is (release started, released, no licence): the receipt itself does
not count, since a rejected paste takes it away for a while. `NoneToCome`: no activation is
on its way or parked either. A list of saves may fail after any of them, so the invariant is kept by each state a list
passes through, not only by its end.

**`ChatTransport`.** `Carries`: a frame on its way to a peer is a message of the other's or
an acknowledgement of its own. `InFlight`: what a session has outstanding is its author's
own, and its attempts are all that were made, over every session before. `Shown`: a message
that was shown is remembered by the session in place, unless its owner ended it. Each step
that replaces a session takes the three on through `Carried`; that is where a plausible
mistake (a count started afresh, a set not carried) breaks them.

## 6. What is only model-checked

Liveness under fairness is beyond the prover: `ImportedLibraryOpens`, `JobsEnd`,
`LockHappens`, `CloseHappens`, `ReleaseSettles`. The four properties of section 4 are
violated and so are no theorems. `VaultFile`, `Updater`, `DeviceRelease` and
`ChatTransport` have no run for the types alone; the types are part of their inductive
invariants and proved with them.

The proofs are about the same definitions as the runs. The sets `Images`, `Files` and
`Sessions` name what a vault file, an executable and a chat session are, so that the
assumption that `None` is none of them can be stated.

## 7. Abstractions

* A crash is the death of the process; a power loss that reorders renames not yet
  flushed is not modelled.
* Journals are those this program writes: unreadable or altered ones, and links in
  the profile folder, for which the code has refusals, are not.
* Another process holding a lock only makes an operation refuse, which changes
  nothing.
* The contents of a backup file are one choice: the restore commits or fails.
* A version 1 Library (opened by a passphrase instead of a key) is not modelled.
* In `BackupJob` the licence id of an answer is taken to match the open vault's: the
  worst case, since the code would drop it otherwise. Release calls are left out.
  The silent activation retry at unlock is the separate action `start_activation`,
  which may follow at once.
* Progress ticks and the idle warning's countdown change nothing modelled; a lock by
  any trigger is `lock_vault`.
* `VaultFile`: adding and deleting an entry stand for every setter; the file formats are
  one version and version 1; a young temporary file is a choice of the model, as the age
  of a file is of the machine. What a failed save leaves in memory stays there, and a
  later save stores it, as in the code.
* `Updater`: Linux. Signatures and hashes are "these are the bytes of release v". The two
  writes of remember_pending may each fail, so the envelope of one release can stand beside
  the staged file of another; `Verified` then refuses. The number of check and download
  threads is one each.
* `DeviceRelease`: one licence, one device with a readable id, room in the list of released
  devices. An imported vault is any combination of the four facts.
* `ChatTransport`: one identity on each side, one LAN address of the other, deadlines may
  pass at any moment, and remembered ids are not dropped for lack of room (the code bounds
  them far above what a sender can still retry). After a goodbye during a session the code
  keeps the entry but not the address, so a dial it would not start may start here.

## 8. Not modelled, and what comes next

Done: the plan's `LibraryImport`, `BackupJob`, `VaultFile`, `Updater`, `DeviceRelease`, the
abstract `Profile` with its refinement, and `ChatTransport`.

Next, most useful first: the composition of `BackupJob` with `LibraryImport` (the worker's
outcomes as the steps of the import, the loop's locks as the guards of `Unlock` and
`Lock`); an abstract specification of `VaultFile` (one register of entries and slots,
changed by one holder at a time) that it implements; `AdlistConsent`.

Not modelled:

* *Tunnel*: the listener stays bound while the refuse loop hands it over, so there is one
  socket and no moment without an owner; whether a page leaves directly is decided by the
  engine's proxy setting.
* *Engine advisory and floor registers*: a maximum written under a file lock.
* *Language packs, blocklist*: fetch, verify and rename, the shape of `Updater`'s download.
* *Backup file format, OCR, reader, translation, tokens, page integrity*: data and
  cryptography, no protocol.
* *Library store*: one owner, and what an import sees of it is in `LibraryImport`.
* *Browser shell* (most of `state.rs`, `ipc.rs`, `platform/`): callbacks of the operating
  system's webviews and presentation; by lines the largest part of the repository, and one
  in which a small model would say little that the code does not.
* *Packaging*: not part of the running program.
