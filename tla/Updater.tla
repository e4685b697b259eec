------------------------------- MODULE Updater -------------------------------
(***************************************************************************)
(* The updater (crates/app/src/updater.rs, on Linux): several processes of  *)
(* one installation, the executable they were started from, `<exe>.new` and *)
(* `<exe>.prev` beside it, the pending release and the record of failed     *)
(* releases in the data folder, the two file locks, and inside a process    *)
(* the phase that the Updates panel shows, with the check and the two       *)
(* download threads that write it.                                          *)
(*                                                                         *)
(* A release is its version number; a file is a version and an inode.       *)
(* Signatures and hashes are abstracted to "these are the bytes of release  *)
(* v"; whether a file would start on this machine is fixed and unknown to   *)
(* the code (Starts).                                                       *)
(***************************************************************************)
EXTENDS Naturals, FiniteSets

CONSTANTS
    Procs,       \* processes, from launch to exit; a name is used again
    Panels,      \* bound: those in which updates are checked for and clicked
    MaxVersion,  \* bound: releases 1..MaxVersion, 1 is installed first
    MaxFiles,    \* bound: executables written
    MaxChecks,   \* bound: checks started
    Attempts,    \* STARTUP_INSTALL_ATTEMPTS
    Starts,      \* versions that pass their own engine check on this machine
    None         \* absent

\* An executable: its release and its inode.
Files == [ver : Nat, ino : Nat]

ASSUME NoneAssumption == None \notin Procs \cup Nat /\ None \notin Files
ASSUME PanelsAssumption == Panels \subseteq Procs
ASSUME StartsAssumption == Starts \subseteq 1..MaxVersion /\ 1 \in Starts
ASSUME NumbersAssumption == MaxVersion \in Nat /\ MaxFiles \in Nat /\ MaxChecks \in Nat /\ Attempts \in Nat \ {0}

\* What the feed may name: any release, the installed one too.
Releases == 1..MaxVersion

VARIABLES
    \* ---- the disk --------------------------------------------------------
    exe,      \* the file at the executable's path
    prev,     \* <exe>.prev
    new,      \* <exe>.new
    inodes,   \* the last inode given
    pend,     \* the pending envelope and the pending meta, two files
    staged,   \* releases whose staged payload is in the data folder
    counts,   \* FailedReleases::counts
    stopped,  \* FailedReleases::stopped
    updLock,  \* who holds <exe>.update-lock
    recLock,  \* who holds failed-release.lock
    \* ---- the processes -----------------------------------------------------
    pc,       \* what the main thread is doing
    runs,     \* the file the process was started from
    via,      \* who called installer::apply: the startup or the click
    want,     \* the manifest in hand: [env, src], its staged file's release
    \* ---- UPDATER, and its threads ------------------------------------------
    phase,
    offer,    \* the release the phase names
    env,      \* u.envelope
    check,    \* the check thread: its step and the release it found
    dl,       \* the download threads: [bg, click], the release or None
    checks    \* checks started so far

files  == <<exe, prev, new, inodes>>
data   == <<pend, staged>>
record == <<counts, stopped>>
locks  == <<updLock, recLock>>
main   == <<pc, runs, via, want>>
panel  == <<phase, offer, env, check, dl>>
vars   == <<files, data, record, locks, main, panel, checks>>

NoWant  == [env |-> None, src |-> None]
NoCheck == [at |-> "none", ver |-> None]
NoDl    == [bg |-> None, click |-> None]

At(p, from, to) == pc[p] = from /\ pc' = [pc EXCEPT ![p] = to]
Set(var, p, value) == [var EXCEPT ![p] = value]

\* What a file of release v is, written now.
Fresh(v) == [ver |-> v, ino |-> inodes + 1]

\* Mutant: any other version will do.
AnyOther(p, v) == v # runs[p].ver

\* decide: only what is newer than the running file.
Newer(p, v) == v > runs[p].ver

\* clean_pending: each of the two files goes, or its removal fails.
CleanPending == \E e \in {pend.env, None}, m \in {pend.meta, None} : pend' = [env |-> e, meta |-> m]

\* Whether a failure of v is the one that stops it (FailedReleases::after_failure).
Stops(v, restore) == restore \/ counts[v] + 1 >= Attempts

\* note_failed_install_locked: counted, or the record could not be written.
NoteFailed(v, restore) ==
    IF v \in stopped THEN UNCHANGED record
    ELSE IF Stops(v, restore)
         THEN stopped' = stopped \cup {v} /\ counts' = [counts EXCEPT ![v] = 0]
         ELSE stopped' = stopped /\ counts' = [counts EXCEPT ![v] = @ + 1]

------------------------------------------------------------------------------
(* A launch: apply_pending_at_startup.                                      *)

\* A process starts from the file at the path, which passes its engine check.
Launch(p) ==
    /\ exe.ver \in Starts
    /\ At(p, "off", "boot")
    /\ runs' = Set(runs, p, exe) /\ via' = Set(via, p, "startup")
    /\ UNCHANGED <<files, data, record, locks, want, panel, checks>>

\* Nothing to install now: no pending release, it is not ripe, automatic installs
\* are off.
NotNow(p) ==
    /\ At(p, "boot", "starting")
    /\ UNCHANGED <<files, data, record, locks, runs, via, want, panel, checks>>

\* Nothing to keep: no meta, reached, refused for the engine, or given up on.  A
\* reached one also forgets what the record holds up to the running version, if
\* its lock can be had and the record written.
NotEver(p) ==
    /\ pend.env # None /\ At(p, "boot", "starting")
    /\ CleanPending
    /\ \/ UNCHANGED record
       \/ /\ pend.meta # None /\ recLock = None
          /\ stopped' = {v \in stopped : v > runs[p].ver}
          /\ counts' = [v \in Releases |-> IF v > runs[p].ver THEN counts[v] ELSE 0]
    /\ UNCHANGED <<files, staged, locks, runs, via, want, panel, checks>>

\* A ripe release, newer than this process, is to be tried.
Ripe(p) ==
    /\ pend.env # None /\ pend.meta # None
    /\ At(p, "boot", "attempt")
    /\ Newer(p, pend.env) /\ pend.env \notin stopped
    /\ want' = Set(want, p, [env |-> pend.env, src |-> pend.meta])
    /\ UNCHANGED <<files, data, record, locks, runs, via, panel, checks>>

\* Mutant: the decision made before the lock was had is not made again.
DecidedBefore(p) ==
    /\ recLock = None /\ At(p, "attempt", "apply") /\ recLock' = p
    /\ UNCHANGED <<files, data, record, updLock, runs, via, want, panel, checks>>

\* startup_attempt: under the record's lock, and only what is not stopped; a
\* launch that does not get the lock installs nothing.
StartupAttempt(p) ==
    \/ /\ recLock = None /\ want[p].env \notin stopped
       /\ At(p, "attempt", "apply") /\ recLock' = p
       /\ UNCHANGED <<files, data, record, updLock, runs, via, want, panel, checks>>
    \/ /\ recLock = None /\ At(p, "attempt", "starting") /\ want[p].env \in stopped
       /\ CleanPending /\ want' = Set(want, p, NoWant)
       /\ UNCHANGED <<files, staged, record, locks, runs, via, panel, checks>>
    \/ /\ recLock # None /\ At(p, "attempt", "starting")
       /\ want' = Set(want, p, NoWant)
       /\ UNCHANGED <<files, data, record, locks, runs, via, panel, checks>>

\* Mutant: whoever finds a .prev removes it.
CleansAnyPrevious(p) ==
    /\ At(p, "starting", "ui") /\ via' = Set(via, p, "none")
    /\ prev' = IF updLock = None THEN None ELSE prev
    /\ UNCHANGED <<exe, new, inodes, data, record, locks, runs, want, panel, checks>>

\* clean_previous, remove_previous_if_obsolete: only the process that is the file
\* at the path, under the update lock; the removal may fail.
CleanPrevious(p) ==
    /\ At(p, "starting", "ui") /\ via' = Set(via, p, "none")
    /\ \/ UNCHANGED prev
       \/ updLock = None /\ runs[p].ino = exe.ino /\ prev' = None
    /\ UNCHANGED <<exe, new, inodes, data, record, locks, runs, want, panel, checks>>

------------------------------------------------------------------------------
(* installer::apply.                                                        *)

\* An error leaves the swap with the update lock released.
Fails(p, how) ==
    /\ pc' = Set(pc, p, how)
    /\ updLock' = IF updLock = p THEN None ELSE updLock

\* Mutant: whatever file is staged is taken for the manifest's.
AnyStaged(p) == want[p].src \in staged

\* The staged bytes must be the manifest's, and the engine new enough.
Verified(p) == want[p].src = want[p].env /\ want[p].src \in staged

\* apply, lock_update and still_running_file: AnotherInstall when the lock is held
\* or when the path no longer holds the file this process runs.
LockUpdate(p) ==
    /\ pc[p] = "apply"
    /\ \/ /\ Verified(p) /\ updLock = None /\ runs[p].ino = exe.ino
          /\ updLock' = p /\ pc' = Set(pc, p, "locked")
       \/ /\ Verified(p) /\ (updLock # None \/ runs[p].ino # exe.ino)
          /\ Fails(p, "another")
       \/ Fails(p, "failed")
    /\ UNCHANGED <<files, data, record, recLock, runs, via, want, panel, checks>>

\* write_fresh of the staged bytes to <exe>.new, over what sat there, then preflight:
\* the new file asked on this machine now, which need not be the engine it will meet,
\* and read again.
WriteNew(p) ==
    /\ pc[p] = "locked"
    /\ \/ /\ inodes < MaxFiles
          /\ new' = Fresh(want[p].src) /\ inodes' = inodes + 1
          /\ pc' = Set(pc, p, "checked") /\ UNCHANGED updLock
       \/ new' = None /\ Fails(p, "failed") /\ UNCHANGED inodes
    /\ UNCHANGED <<exe, prev, data, record, recLock, runs, via, want, panel, checks>>

\* swap_keeping_previous: whatever is at .prev goes first ...
DropPrev(p) ==
    /\ At(p, "checked", "dropped")
    /\ prev' \in {prev, None}
    /\ UNCHANGED <<exe, new, inodes, data, record, locks, runs, via, want, panel, checks>>

\* ... then the running file gets that name too, by a hard link or as a copy.
LinkPrev(p) ==
    /\ pc[p] = "dropped"
    /\ \/ /\ prev = None /\ prev' = exe
          /\ pc' = Set(pc, p, "linked") /\ UNCHANGED <<new, inodes, updLock>>
       \/ /\ inodes < MaxFiles
          /\ prev' = Fresh(exe.ver) /\ inodes' = inodes + 1
          /\ pc' = Set(pc, p, "linked") /\ UNCHANGED <<new, updLock>>
       \/ /\ Fails(p, "failed") /\ new' = None /\ prev' \in {prev, None}
          /\ UNCHANGED inodes
    /\ UNCHANGED <<exe, data, record, recLock, runs, via, want, panel, checks>>

Rename(p) ==
    /\ pc[p] = "linked"
    /\ \/ /\ exe' = new /\ new' = None
          /\ pc' = Set(pc, p, "renamed") /\ UNCHANGED <<prev, updLock>>
       \/ /\ Fails(p, "failed") /\ new' = None /\ prev' \in {prev, None}
          /\ UNCHANGED exe
    /\ UNCHANGED <<inodes, data, record, recLock, runs, via, want, panel, checks>>

\* relaunch: the new file is spawned, or not.  startup_attempt returns with it.
Relaunch(p) ==
    /\ pc[p] = "renamed"
    /\ \/ /\ Fails(p, "installed")
          /\ recLock' = IF recLock = p THEN None ELSE recLock
       \/ pc' = Set(pc, p, "restore") /\ UNCHANGED locks
    /\ UNCHANGED <<files, data, record, runs, via, want, panel, checks>>

\* The relaunch failed: .prev goes back over the path, or RestoreFailed.
Restore(p) ==
    /\ pc[p] = "restore"
    /\ \/ /\ prev # None
          /\ exe' = prev /\ prev' = None /\ Fails(p, "failed")
       \/ Fails(p, "broken") /\ UNCHANGED <<exe, prev>>
    /\ UNCHANGED <<new, inodes, data, record, recLock, runs, via, want, panel, checks>>

\* After an install: the startup tidies up and the process ends; the click quits.
Installed(p) ==
    /\ pc[p] = "installed" /\ pc' = Set(pc, p, "off")
    /\ IF via[p] = "startup"
       THEN CleanPending /\ staged' \in {staged, staged \ {want[p].src}}
       ELSE UNCHANGED data
    /\ runs' = Set(runs, p, None) /\ via' = Set(via, p, "none") /\ want' = Set(want, p, NoWant)
    /\ phase' = Set(phase, p, "idle") /\ offer' = Set(offer, p, None) /\ env' = Set(env, p, None)
    /\ check' = Set(check, p, NoCheck) /\ dl' = Set(dl, p, NoDl)
    /\ UNCHANGED <<files, record, locks, checks>>

\* show_install_broken: the recovery screen.
ShowBroken(p) ==
    /\ CleanPending
    /\ phase' = Set(phase, p, "broken") /\ offer' = Set(offer, p, None)

\* The rest of startup_attempt and startup_follow_up after an error: counted under
\* the lock unless another process is the reason or the record cannot be written.
StartupFailed(p) ==
    /\ pc[p] \in {"failed", "another", "broken"} /\ via[p] = "startup"
    /\ pc' = Set(pc, p, "starting") /\ recLock' = None
    /\ \/ pc[p] # "another" /\ NoteFailed(want[p].env, pc[p] = "broken")
       \/ UNCHANGED record
    /\ CASE pc[p] = "broken" -> ShowBroken(p)
         [] stopped' # stopped -> CleanPending /\ UNCHANGED <<phase, offer>>
         [] OTHER -> UNCHANGED <<pend, phase, offer>>
    /\ want' = Set(want, p, NoWant)
    /\ UNCHANGED <<files, staged, updLock, runs, via, env, check, dl, checks>>

\* apply_staged's error: only a failed restore is recorded, if the record's lock
\* can be had.
ClickFailed(p) ==
    /\ pc[p] \in {"failed", "another", "broken"} /\ via[p] = "click"
    /\ pc' = Set(pc, p, "ui") /\ via' = Set(via, p, "none") /\ want' = Set(want, p, NoWant)
    /\ IF pc[p] = "broken"
       THEN /\ ShowBroken(p)
            /\ \/ recLock = None /\ NoteFailed(want[p].env, TRUE)
               \/ UNCHANGED record
       ELSE UNCHANGED <<record, pend, phase, offer>>
    /\ UNCHANGED <<files, staged, locks, runs, env, check, dl, checks>>

\* The process ends, by a quit or a crash: the locks go with it.
Exit(p) ==
    /\ pc[p] # "off" /\ pc' = Set(pc, p, "off")
    /\ updLock' = IF updLock = p THEN None ELSE updLock
    /\ recLock' = IF recLock = p THEN None ELSE recLock
    /\ runs' = Set(runs, p, None) /\ via' = Set(via, p, "none") /\ want' = Set(want, p, NoWant)
    /\ phase' = Set(phase, p, "idle") /\ offer' = Set(offer, p, None) /\ env' = Set(env, p, None)
    /\ check' = Set(check, p, NoCheck) /\ dl' = Set(dl, p, NoDl)
    /\ UNCHANGED <<files, data, record, checks>>

------------------------------------------------------------------------------
(* The Updates panel and its threads.                                       *)

\* Mutant: a thread's result always lands.
AlwaysLands(p, ph, v) == phase' = Set(phase, p, ph) /\ offer' = Set(offer, p, v)

\* commit_phase.
CommitPhase(p, ph, v) ==
    IF phase[p] = "broken" THEN UNCHANGED <<phase, offer>>
    ELSE phase' = Set(phase, p, ph) /\ offer' = Set(offer, p, v)

\* check_now, off the main thread, so also while a click installs: its second look
\* and the transition under one lock.  Bounds: one check thread at a time and
\* MaxChecks in all.
CheckNow(p) ==
    /\ p \in Panels /\ (pc[p] = "ui" \/ via[p] = "click")
    /\ check[p].at = "none" /\ checks < MaxChecks /\ checks' = checks + 1
    /\ phase[p] \notin {"checking", "downloading", "broken"}
    /\ phase' = Set(phase, p, "checking") /\ offer' = Set(offer, p, None)
    /\ check' = Set(check, p, [at |-> "fetch", ver |-> None])
    /\ UNCHANGED <<files, data, record, locks, main, env, dl>>

\* The check thread's answer: an offer, with or without the background download
\* to follow; or no offer (up to date, ahead, refused, held, or no answer), with
\* whatever envelope was fetched.
CheckDone(p) ==
    /\ check[p].at = "fetch"
    /\ \/ \E v \in Releases :
              /\ Newer(p, v)
              /\ CommitPhase(p, "offered", v) /\ env' = Set(env, p, v)
              /\ \E chain \in {NoCheck, [at |-> "chain", ver |-> v]} : check' = Set(check, p, chain)
       \/ /\ CommitPhase(p, "settled", None)
          /\ \E e \in Releases \cup {None} : env' = Set(env, p, e)
          /\ check' = Set(check, p, NoCheck)
    /\ UNCHANGED <<files, data, record, locks, main, dl, checks>>

\* The background chain looks again under the lock before it downloads.  Bound:
\* one download at a time.
Chain(p) ==
    /\ check[p].at = "chain" /\ check' = Set(check, p, NoCheck)
    /\ phase[p] = "offered" => dl[p] = NoDl
    /\ IF phase[p] = "offered"
       THEN /\ phase' = Set(phase, p, "downloading") /\ offer' = Set(offer, p, check[p].ver)
            /\ dl' = [dl EXCEPT ![p].bg = check[p].ver]
       ELSE UNCHANGED <<phase, offer, dl>>
    /\ UNCHANGED <<files, data, record, locks, main, env, checks>>

\* remember_pending(e, staged file of v): two writes, either of which may fail;
\* nothing for a release given up on.
RememberPending(e, v) ==
    IF v \in stopped THEN UNCHANGED pend
    ELSE \E pe \in {e, pend.env}, pm \in {v, pend.meta} : pend' = [env |-> pe, meta |-> pm]

\* What a download of v by thread t ends in; the envelope it remembers is its own
\* check's for the background chain, the last check's for a click.
Downloaded(p, t, v, e) ==
    /\ dl[p][t] = v /\ v # None
    /\ dl' = [dl EXCEPT ![p][t] = None]
    /\ \/ /\ staged' = staged \cup {v}
          /\ IF e # None THEN RememberPending(e, v) ELSE UNCHANGED pend
          /\ CommitPhase(p, "ready", v)
       \/ CommitPhase(p, "failed", v) /\ UNCHANGED data
       \/ CommitPhase(p, "settled", None) /\ UNCHANGED data
    /\ UNCHANGED <<files, record, locks, main, env, check, checks>>

\* install: the first lock reads the offer, the second one starts the download.
InstallClick(p) ==
    /\ p \in Panels /\ offer[p] # None /\ phase[p] \in {"offered", "failed"}
    /\ At(p, "ui", "clicked") /\ via' = Set(via, p, "click")
    /\ want' = Set(want, p, [env |-> offer[p], src |-> offer[p]])
    /\ UNCHANGED <<files, data, record, locks, runs, panel, checks>>

InstallBegin(p) ==
    /\ At(p, "clicked", "ui") /\ via' = Set(via, p, "none") /\ want' = Set(want, p, NoWant)
    /\ offer' = Set(offer, p, want[p].env)
    /\ \/ /\ dl[p] = NoDl /\ phase' = Set(phase, p, "downloading")
          /\ dl' = [dl EXCEPT ![p].click = want[p].env]
       \/ phase' = Set(phase, p, "failed") /\ UNCHANGED dl
    /\ UNCHANGED <<files, data, record, locks, runs, env, check, checks>>

\* apply_staged, only from Ready.
ApplyClick(p) ==
    /\ p \in Panels /\ phase[p] = "ready"
    /\ At(p, "ui", "apply") /\ via' = Set(via, p, "click")
    /\ want' = Set(want, p, [env |-> offer[p], src |-> offer[p]])
    /\ UNCHANGED <<files, data, record, locks, runs, panel, checks>>

------------------------------------------------------------------------------
\* Version 1 is installed and starts; nothing is pending; the record is empty.
Init ==
    /\ exe = [ver |-> 1, ino |-> 1] /\ prev = None /\ new = None /\ inodes = 1
    /\ pend = [env |-> None, meta |-> None] /\ staged = {}
    /\ counts = [v \in Releases |-> 0] /\ stopped = {}
    /\ updLock = None /\ recLock = None
    /\ pc = [p \in Procs |-> "off"] /\ runs = [p \in Procs |-> None]
    /\ via = [p \in Procs |-> "none"] /\ want = [p \in Procs |-> NoWant]
    /\ phase = [p \in Procs |-> "idle"] /\ offer = [p \in Procs |-> None]
    /\ env = [p \in Procs |-> None]
    /\ checks = 0 /\ check = [p \in Procs |-> NoCheck] /\ dl = [p \in Procs |-> NoDl]

Startup(p) ==
    \/ Launch(p) \/ NotNow(p) \/ NotEver(p) \/ Ripe(p) \/ StartupAttempt(p)
    \/ CleanPrevious(p) \/ StartupFailed(p)

Swap(p) ==
    \/ LockUpdate(p) \/ WriteNew(p) \/ DropPrev(p)
    \/ LinkPrev(p) \/ Rename(p) \/ Relaunch(p) \/ Restore(p) \/ Installed(p)

Panel(p) ==
    \/ CheckNow(p) \/ CheckDone(p) \/ Chain(p)
    \/ Downloaded(p, "bg", dl[p].bg, dl[p].bg)
    \/ Downloaded(p, "click", dl[p].click, env[p])
    \/ InstallClick(p) \/ InstallBegin(p) \/ ApplyClick(p) \/ ClickFailed(p)

Next == \E p \in Procs : Startup(p) \/ Swap(p) \/ Panel(p) \/ Exit(p)

Spec == Init /\ [][Next]_vars

------------------------------------------------------------------------------
(* Properties.                                                              *)

\* Whatever dies, fails or runs at the same time, a file that starts is at the
\* executable's path or kept at .prev: also after a release that does not start
\* was put in place, and also while an older process still runs from memory
\* (swap_keeping_previous, clean_previous).
WorkingCopy == exe.ver \in Starts \/ (prev # None /\ prev.ver \in Starts)

\* The version at the path only goes down when the process that put the new file
\* there puts back its own: a decision another window's install has made stale
\* never installs an older release over a newer one (still_running_file).
NeverOlder ==
    [][exe'.ver < exe.ver => \E p \in Procs : pc[p] = "restore" /\ exe'.ver = runs[p].ver]_vars

\* No automatic install is under way of a release the automatic install has given
\* up on, whichever process gave up and however late (startup_attempt under the
\* record's lock), and the file it is about to put in place is not of one either:
\* the manifest of one release never brings in the staged file of another (apply).
StopHolds ==
    \A p \in Procs : via[p] = "startup" =>
        /\ pc[p] \in {"apply", "locked", "checked", "dropped", "linked", "renamed"}
               => want[p].env \notin stopped
        /\ pc[p] \in {"checked", "dropped", "linked"} => new.ver \notin stopped

\* Once a process shows that its install is broken it shows nothing else until it
\* ends, whichever check or download was still running (commit_phase).
BrokenStays ==
    [][\A p \in Procs : phase[p] = "broken" => phase'[p] = "broken" \/ pc'[p] = "off"]_vars
==============================================================================
