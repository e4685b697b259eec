---------------------------- MODULE UpdaterProofs ----------------------------
(***************************************************************************)
(* What holds of an update for any number of processes, releases, files and *)
(* checks.  The properties of Updater are kept by three things the model    *)
(* does not say in one place: who is inside the swap holds the update lock  *)
(* and the file at the path is the one it runs (Locked); a file is known by *)
(* its inode (Inodes); and every release a process has in hand, in its      *)
(* panel or in a thread, is newer than the process (InHand).                *)
(***************************************************************************)
EXTENDS Updater, TLAPS

Maybe      == Nat \cup {None}
MaybeFile  == Files \cup {None}
Swapping   == {"locked", "checked", "dropped", "linked", "renamed", "restore"}
Attempting == {"apply", "failed", "another", "broken"} \cup Swapping
States     == {"off", "boot", "starting", "attempt", "ui", "clicked", "installed"} \cup Attempting
Phases     == {"idle", "checking", "offered", "settled", "downloading", "ready", "failed", "broken"}

DiskTypes ==
    /\ exe \in Files /\ prev \in MaybeFile /\ new \in MaybeFile /\ inodes \in Nat
    /\ pend \in [env : Maybe, meta : Maybe]
    /\ updLock \in Procs \cup {None} /\ recLock \in Procs \cup {None}

MainTypes ==
    /\ pc \in [Procs -> States]
    /\ runs \in [Procs -> MaybeFile]
    /\ via \in [Procs -> {"none", "startup", "click"}]
    /\ want \in [Procs -> [env : Maybe, src : Maybe]]

PanelTypes ==
    /\ phase \in [Procs -> Phases]
    /\ offer \in [Procs -> Maybe]
    /\ env \in [Procs -> Maybe]
    /\ check \in [Procs -> [at : {"none", "fetch", "chain"}, ver : Maybe]]
    /\ dl \in [Procs -> [bg : Maybe, click : Maybe]]

Types == DiskTypes /\ MainTypes /\ PanelTypes

\* A file is known by its inode: two names, or a name and a process, with the
\* same inode have the same bytes.
AllFiles == ({exe, prev, new} \cup {runs[q] : q \in Procs}) \ {None}
Inodes ==
    /\ \A x \in AllFiles : x.ino <= inodes
    /\ \A x, y \in AllFiles : x.ino = y.ino => x = y

\* Inside the swap a process holds the update lock and the bytes of the release it
\* decided on; until the rename the path
\* holds the file it runs, and after the link so does .prev.  An automatic
\* install holds the record's lock from the decision to the count.
Locked(p) ==
    /\ pc[p] \in Swapping => updLock = p
    /\ pc[p] \in {"locked", "checked", "dropped", "linked"} => exe = runs[p]
    /\ pc[p] = "locked" => want[p].src = want[p].env
    /\ pc[p] \in {"checked", "dropped", "linked"} => new # None /\ new.ver = want[p].env
    /\ pc[p] \in {"linked", "renamed", "restore"} => prev # None /\ prev.ver = runs[p].ver
    /\ via[p] = "startup" /\ pc[p] \in Attempting => recLock = p

\* Whatever release a process has in hand is newer than the process.
Ahead(p, v) == v # None => v > runs[p].ver
InHand(p) ==
    /\ pc[p] # "off" => runs[p] # None /\ runs[p].ver \in Starts
    /\ Ahead(p, want[p].env) /\ Ahead(p, offer[p]) /\ Ahead(p, check[p].ver)
    /\ Ahead(p, dl[p].bg) /\ Ahead(p, dl[p].click)
    /\ pc[p] \in {"attempt"} \cup Attempting => want[p].env # None
    /\ phase[p] = "ready" => offer[p] # None
    /\ pc[p] = "clicked" => phase[p] # "broken"

\* A process that is not running has nothing in hand.
Off(p) ==
    pc[p] = "off" =>
        /\ via[p] = "none" /\ want[p] = NoWant
        /\ phase[p] = "idle" /\ offer[p] = None /\ check[p] = NoCheck /\ dl[p] = NoDl

\* StopHolds, of one process.
Stop(p) ==
    via[p] = "startup" /\ pc[p] \in {"apply", "locked", "checked", "dropped", "linked", "renamed"}
        => want[p].env \notin stopped

PInv(p) == Locked(p) /\ Stop(p) /\ InHand(p) /\ Off(p)

FInv == Inodes /\ WorkingCopy

IInv == Types /\ FInv /\ \A p \in Procs : PInv(p)
------------------------------------------------------------------------------
(* What a step leaves alone.                                                *)

\* What p's step leaves alone of another process.
SameProc(q) ==
    /\ pc'[q] = pc[q] /\ runs'[q] = runs[q] /\ via'[q] = via[q] /\ want'[q] = want[q]
    /\ phase'[q] = phase[q] /\ offer'[q] = offer[q] /\ check'[q] = check[q] /\ dl'[q] = dl[q]

\* A step changes the files or the update lock only with that lock in hand or
\* free, and the record's lock and the list of stopped releases likewise: then
\* no other process loses anything.
LEMMA OthersKeep ==
    ASSUME \A q \in Procs : PInv(q), NEW p \in Procs,
           \A q \in Procs \ {p} : SameProc(q),
           \/ exe' = exe /\ new' = new /\ prev' = prev /\ updLock' = updLock
           \/ updLock \in {p, None},
           (recLock' = recLock /\ stopped' \subseteq stopped) \/ recLock \in {p, None}
    PROVE  \A q \in Procs \ {p} : PInv(q)'
<1> SUFFICES ASSUME NEW q \in Procs \ {p} PROVE PInv(q)'
  OBVIOUS
<1> USE DEF PInv, SameProc
<1>1. q # None
  BY NoneAssumption
<1>2. Locked(q)'
  BY <1>1 DEF Locked, Swapping
<1>3. Stop(q)'
  BY <1>1 DEF Locked, Stop, Attempting, Swapping
<1>4. InHand(q)' /\ Off(q)'
  BY DEF InHand, Off, Ahead
<1>. QED BY <1>2, <1>3, <1>4

\* The files of a step that writes none: a process may start from the file at the
\* path or end.
LEMMA FilesStay ==
    ASSUME FInv, NEW p \in Procs, UNCHANGED files, runs \in [Procs -> MaybeFile],
           runs' \in {runs, [runs EXCEPT ![p] = exe], [runs EXCEPT ![p] = None]}
    PROVE  FInv'
<1>1. UNCHANGED <<exe, prev, new, inodes>>
  BY DEF files
<1>2. AllFiles' \subseteq AllFiles
  <2> SUFFICES ASSUME NEW q \in Procs PROVE runs'[q] \in {runs[q], exe, None}
    BY <1>1 DEF AllFiles
  <2>. QED OBVIOUS
<1>. QED BY <1>1, <1>2 DEF FInv, Inodes, WorkingCopy

\* A step that writes no new file moves the ones there are.
LEMMA InodesStay ==
    ASSUME Inodes, inodes' = inodes, runs' = runs,
           {exe', prev', new'} \subseteq {exe, prev, new, None}
    PROVE  Inodes'
<1>1. AllFiles' \subseteq AllFiles
  BY DEF AllFiles
<1>. QED BY <1>1 DEF Inodes

\* A file that is written has an inode of its own.
LEMMA InodesGrow ==
    ASSUME Inodes, Types, NEW v \in Nat, inodes' = inodes + 1, runs' = runs,
           {exe', prev', new'} \subseteq {exe, prev, new, None, Fresh(v)}
    PROVE  Inodes' /\ Fresh(v) \in Files /\ Fresh(v).ver = v
<1>1. AllFiles' \subseteq AllFiles \cup {Fresh(v)}
  BY DEF AllFiles
<1>2. AllFiles \subseteq Files
  BY DEF AllFiles, Types, DiskTypes, MainTypes, MaybeFile
<1>3. Fresh(v) \in Files /\ Fresh(v).ver = v /\ Fresh(v).ino = inodes + 1 /\ inodes \in Nat
  BY DEF Fresh, Files, Types, DiskTypes
<1>4. \A x \in AllFiles : x.ino \in Nat /\ x.ino <= inodes
  BY <1>2 DEF Inodes, Files
<1>5. \A x \in AllFiles' : x.ino <= inodes'
  BY <1>1, <1>3, <1>4
<1>6. ASSUME NEW x \in AllFiles', NEW y \in AllFiles', x.ino = y.ino PROVE x = y
  <2>1. CASE x \in AllFiles /\ y \in AllFiles
    BY <1>6, <2>1 DEF Inodes
  <2>2. CASE x = Fresh(v) /\ y \in AllFiles
    BY <1>3, <1>4, <1>6, <2>2
  <2>3. CASE x \in AllFiles /\ y = Fresh(v)
    BY <1>3, <1>4, <1>6, <2>3
  <2>. QED BY <1>1, <2>1, <2>2, <2>3
<1>. QED BY <1>3, <1>5, <1>6 DEF Inodes

\* The file a process runs is the one at the path when their inodes agree.
LEMMA RunsIsExe ==
    ASSUME IInv, NEW p \in Procs, pc[p] # "off", runs[p].ino = exe.ino
    PROVE  runs[p] = exe /\ exe.ver \in Starts
<1>1. runs[p] # None /\ runs[p].ver \in Starts
  BY DEF IInv, PInv, InHand
<1>2. exe \in AllFiles /\ runs[p] \in AllFiles
  BY <1>1, NoneAssumption DEF AllFiles, IInv, Types, DiskTypes
<1>. QED BY <1>1, <1>2 DEF IInv, FInv, Inodes

\* clean_pending and remember_pending leave releases, or nothing, pending.
LEMMA PendTypes ==
    ASSUME Types
    PROVE  /\ CleanPending => pend' \in [env : Maybe, meta : Maybe]
           /\ \A e, v \in Nat : RememberPending(e, v) => pend' \in [env : Maybe, meta : Maybe]
  BY DEF Types, DiskTypes, Maybe, CleanPending, RememberPending

------------------------------------------------------------------------------
(* Every action keeps the invariant.                                        *)

\* A process starts, and decides at startup.
LEMMA StartupInv ==
    ASSUME IInv, NEW p \in Procs, Startup(p) PROVE IInv'
<1> USE DEF IInv
<1>1. CASE Launch(p)
  <2> USE <1>1 DEF Launch, At, Set
  <2>1. Types'
    BY DEF Types, DiskTypes, MainTypes, PanelTypes, MaybeFile, States, files, data, locks, panel
  <2>2. FInv'
    BY FilesStay DEF Types, MainTypes
  <2>3. \A q \in Procs \ {p} : PInv(q)'
    BY OthersKeep DEF SameProc, Types, MainTypes, files, locks, record, panel
  <2>4. PInv(p)'
    <3>1. /\ pc'[p] = "boot" /\ runs'[p] = exe /\ exe # None /\ exe.ver \in Starts
          /\ want'[p] = NoWant /\ phase'[p] = "idle" /\ offer'[p] = None /\ check'[p] = NoCheck /\ dl'[p] = NoDl
      BY NoneAssumption DEF Types, DiskTypes, MainTypes, PInv, Off, panel
    <3>. QED BY <3>1 DEF PInv, Locked, Stop, InHand, Ahead, Off, Attempting, Swapping, NoWant, NoCheck, NoDl
  <2>. QED BY <2>1, <2>2, <2>3, <2>4
<1>2. CASE NotNow(p)
  <2> USE <1>2 DEF NotNow, At
  <2>1. Types'
    BY DEF Types, DiskTypes, MainTypes, PanelTypes, States, files, data, locks, panel
  <2>2. FInv'
    BY FilesStay DEF Types, MainTypes
  <2>3. \A q \in Procs \ {p} : PInv(q)'
    BY OthersKeep DEF SameProc, Types, MainTypes, files, locks, record, panel
  <2>4. PInv(p)'
    BY DEF Types, MainTypes, PInv, Locked, Stop, InHand, Ahead, Off, Attempting, Swapping, panel
  <2>. QED BY <2>1, <2>2, <2>3, <2>4
<1>3. CASE NotEver(p)
  <2> USE <1>3 DEF NotEver, At
  <2>1. Types'
    BY PendTypes DEF Types, DiskTypes, MainTypes, PanelTypes, States, files, locks, panel
  <2>2. FInv'
    BY FilesStay DEF Types, MainTypes
  <2>3. \A q \in Procs \ {p} : PInv(q)'
    <3>1. stopped' \subseteq stopped
      BY DEF record
    <3>. QED BY <3>1, OthersKeep DEF SameProc, Types, MainTypes, files, locks, panel
  <2>4. PInv(p)'
    BY DEF Types, MainTypes, PInv, Locked, Stop, InHand, Ahead, Off, Attempting, Swapping, panel
  <2>. QED BY <2>1, <2>2, <2>3, <2>4
<1>4. CASE Ripe(p)
  <2> USE <1>4 DEF Ripe, At, Set
  <2>1. Types'
    BY DEF Types, DiskTypes, MainTypes, PanelTypes, States, Attempting, files, data, locks, panel
  <2>2. FInv'
    BY FilesStay DEF Types, MainTypes
  <2>3. \A q \in Procs \ {p} : PInv(q)'
    BY OthersKeep DEF SameProc, Types, MainTypes, files, locks, record, panel
  <2>4. PInv(p)'
    BY DEF Types, MainTypes, PInv, Locked, Stop, InHand, Ahead, Newer, Off, Attempting, Swapping, panel
  <2>. QED BY <2>1, <2>2, <2>3, <2>4
<1>5. CASE StartupAttempt(p)
  <2> USE <1>5 DEF StartupAttempt, At, Set
  <2>1. Types'
    <3>1. pend' \in [env : Maybe, meta : Maybe]
      BY PendTypes DEF Types, DiskTypes, data
    <3>2. MainTypes'
      BY DEF Types, MainTypes, States, Attempting, NoWant, Maybe
    <3>. QED BY <3>1, <3>2 DEF Types, DiskTypes, PanelTypes, files, locks, panel
  <2>2. FInv'
    BY FilesStay DEF Types, MainTypes
  <2>3. \A q \in Procs \ {p} : PInv(q)'
    BY OthersKeep DEF SameProc, Types, MainTypes, files, locks, record, panel
  <2>4. PInv(p)'
    BY DEF Types, MainTypes, PInv, Locked, Stop, InHand, Ahead, Off, Attempting, Swapping, NoWant, panel, record
  <2>. QED BY <2>1, <2>2, <2>3, <2>4
<1>6. CASE CleanPrevious(p)
  <2> USE <1>6 DEF CleanPrevious, At, Set
  <2>1. Types'
    BY DEF Types, DiskTypes, MainTypes, PanelTypes, MaybeFile, States, data, locks, panel
  <2>2. Inodes'
    BY InodesStay DEF FInv
  <2>3. WorkingCopy'
    BY RunsIsExe DEF FInv, WorkingCopy
  <2>4. \A q \in Procs \ {p} : PInv(q)'
    BY OthersKeep DEF SameProc, Types, MainTypes, locks, record, panel
  <2>5. PInv(p)'
    BY DEF Types, MainTypes, PInv, Locked, Stop, InHand, Ahead, Off, Attempting, Swapping, panel
  <2>. QED BY <2>1, <2>2, <2>3, <2>4, <2>5 DEF FInv
<1>7. CASE StartupFailed(p)
  <2> USE <1>7 DEF StartupFailed, Set
  <2>1. recLock = p
    BY DEF PInv, Locked, Attempting
  <2>2. /\ \/ phase' = phase /\ offer' = offer
           \/ phase' = [phase EXCEPT ![p] = "broken"] /\ offer' = [offer EXCEPT ![p] = None]
        /\ pend' = pend \/ CleanPending
    <3>1. CASE pc[p] = "broken"
      BY <3>1 DEF ShowBroken
    <3>2. CASE pc[p] # "broken"
      BY <3>2
    <3>. QED BY <3>1, <3>2
  <2>3. Types'
    <3>1. pend' \in [env : Maybe, meta : Maybe]
      BY <2>2, PendTypes DEF Types, DiskTypes
    <3>2. MainTypes'
      BY DEF Types, MainTypes, States, NoWant, Maybe
    <3>3. PanelTypes'
      BY <2>2 DEF Types, PanelTypes, Phases, Maybe
    <3>. QED BY <3>1, <3>2, <3>3 DEF Types, DiskTypes, files
  <2>4. FInv'
    BY FilesStay DEF Types, MainTypes
  <2>5. \A q \in Procs \ {p} : PInv(q)'
    <3>1. \A q \in Procs \ {p} : SameProc(q)
      BY <2>2 DEF SameProc, Types, MainTypes, PanelTypes
    <3>. QED BY <2>1, <3>1, OthersKeep DEF files
  <2>6. PInv(p)'
    BY <2>2 DEF Types, MainTypes, PanelTypes, PInv, Locked, Stop, InHand, Ahead, Off, Attempting, Swapping, NoWant, Phases
  <2>. QED BY <2>3, <2>4, <2>5, <2>6
<1>. QED BY <1>1, <1>2, <1>3, <1>4, <1>5, <1>6, <1>7 DEF Startup

\* installer::apply.
LEMMA SwapInv ==
    ASSUME IInv, NEW p \in Procs, Swap(p) PROVE IInv'
<1> USE DEF IInv
<1>1. CASE LockUpdate(p)
  <2> USE <1>1 DEF LockUpdate, Fails, Set
  <2>1. Types'
    BY DEF Types, DiskTypes, MainTypes, PanelTypes, States, Attempting, Swapping, files, data, panel
  <2>2. FInv'
    BY FilesStay DEF Types, MainTypes
  <2>3. \A q \in Procs \ {p} : PInv(q)'
    BY OthersKeep DEF SameProc, Types, MainTypes, files, record, panel
  <2>4. PInv(p)'
    <3>1. pc'[p] = "locked" => runs[p] = exe /\ updLock' = p /\ want[p].src = want[p].env
      BY RunsIsExe DEF Types, MainTypes, Verified
    <3>2. pc'[p] \in {"locked", "another", "failed"}
      BY DEF Types, MainTypes
    <3>. QED BY <3>1, <3>2 DEF PInv, Locked, Stop, InHand, Ahead, Off, Attempting, Swapping, panel, record, files
  <2>. QED BY <2>1, <2>2, <2>3, <2>4
<1>2. CASE WriteNew(p)
  <2> USE <1>2 DEF WriteNew, Fails, Set
  <2>1. /\ updLock = p /\ exe = runs[p] /\ exe.ver \in Starts /\ want[p].env # None /\ want[p].env \in Nat
        /\ want[p].src = want[p].env
    BY DEF PInv, Locked, InHand, Attempting, Swapping, Types, MainTypes, Maybe
  <2>2. /\ Inodes'
        /\ new' = None \/ (new' = Fresh(want[p].src) /\ new' \in Files /\ new'.ver = want[p].env)
    BY <2>1, InodesStay, InodesGrow DEF FInv
  <2>3. Types'
    <3>1. DiskTypes'
      BY <2>2 DEF Types, DiskTypes, MaybeFile, data
    <3>2. MainTypes'
      BY DEF Types, MainTypes, States, Attempting, Swapping
    <3>3. PanelTypes'
      BY DEF Types, PanelTypes, panel
    <3>. QED BY <3>1, <3>2, <3>3 DEF Types
  <2>4. WorkingCopy'
    BY <2>1 DEF WorkingCopy
  <2>5. \A q \in Procs \ {p} : PInv(q)'
    BY <2>1, OthersKeep DEF SameProc, Types, MainTypes, record, panel
  <2>6. PInv(p)'
    <3>1. \/ pc'[p] = "checked" /\ new' \in Files /\ new'.ver = want[p].env /\ updLock' = p
          \/ pc'[p] = "failed"
      BY <2>1, <2>2, InodesGrow DEF FInv, Types, MainTypes
    <3>. QED BY <2>1, <3>1, NoneAssumption
             DEF PInv, Locked, Stop, InHand, Ahead, Off, Attempting, Swapping, panel, record
  <2>. QED BY <2>2, <2>3, <2>4, <2>5, <2>6 DEF FInv
<1>3. CASE DropPrev(p)
  <2> USE <1>3 DEF DropPrev, At
  <2>1. updLock = p /\ exe = runs[p] /\ exe.ver \in Starts
    BY DEF PInv, Locked, InHand, Swapping
  <2>2. FInv'
    BY <2>1, InodesStay DEF FInv, WorkingCopy
  <2>3. Types'
    BY DEF Types, DiskTypes, MainTypes, PanelTypes, MaybeFile, States, Attempting, Swapping, data, locks, panel
  <2>4. \A q \in Procs \ {p} : PInv(q)'
    BY <2>1, OthersKeep DEF SameProc, Types, MainTypes, record, locks, panel
  <2>5. PInv(p)'
    BY DEF Types, MainTypes, PInv, Locked, Stop, InHand, Ahead, Off, Attempting, Swapping, locks, panel, record
  <2>. QED BY <2>2, <2>3, <2>4, <2>5
<1>4. CASE LinkPrev(p)
  <2> USE <1>4 DEF LinkPrev, Fails, Set
  <2>1. /\ updLock = p /\ exe = runs[p] /\ exe.ver \in Starts /\ exe \in Files /\ exe # None /\ exe.ver \in Nat
        /\ new # None /\ new.ver = want[p].env
    BY NoneAssumption DEF PInv, Locked, InHand, Swapping, Types, DiskTypes, Files
  <2>2. /\ Inodes'
        /\ \/ pc'[p] = "failed" /\ prev' \in {prev, None} /\ new' = None
           \/ /\ pc'[p] = "linked" /\ prev' \in Files /\ prev'.ver = exe.ver
              /\ new' = new /\ updLock' = p
    <3>1. CASE inodes' = inodes
      BY <2>1, <3>1, InodesStay DEF FInv, Types, DiskTypes, MainTypes
    <3>2. CASE inodes' = inodes + 1 /\ prev' = Fresh(exe.ver) /\ pc' = [pc EXCEPT ![p] = "linked"] /\ UNCHANGED <<new, updLock>>
      BY <2>1, <3>2, InodesGrow DEF FInv, Types, MainTypes
    <3>. QED BY <3>1, <3>2
  <2>3. Types'
    <3>1. MainTypes'
      BY DEF Types, MainTypes, States, Attempting, Swapping
    <3>2. DiskTypes'
      BY <2>2 DEF Types, DiskTypes, MaybeFile, data
    <3>. QED BY <3>1, <3>2 DEF Types, PanelTypes, panel
  <2>4. WorkingCopy'
    BY <2>1 DEF WorkingCopy
  <2>5. \A q \in Procs \ {p} : PInv(q)'
    BY <2>1, OthersKeep DEF SameProc, Types, MainTypes, record, panel
  <2>6. PInv(p)'
    BY <2>1, <2>2, NoneAssumption
       DEF PInv, Locked, Stop, InHand, Ahead, Off, Attempting, Swapping, panel, record
  <2>. QED BY <2>2, <2>3, <2>4, <2>5, <2>6 DEF FInv
<1>5. CASE Rename(p)
  <2> USE <1>5 DEF Rename, Fails, Set
  <2>1. /\ updLock = p /\ exe = runs[p] /\ exe.ver \in Starts /\ new # None
        /\ prev # None /\ prev.ver = exe.ver
    BY DEF PInv, Locked, InHand, Swapping
  <2>2. FInv'
    BY <2>1, InodesStay DEF FInv, WorkingCopy
  <2>3. Types'
    BY <2>1 DEF Types, DiskTypes, MainTypes, PanelTypes, MaybeFile, States, Attempting, Swapping, data, panel
  <2>4. \A q \in Procs \ {p} : PInv(q)'
    BY <2>1, OthersKeep DEF SameProc, Types, MainTypes, record, panel
  <2>5. PInv(p)'
    <3>1. pc'[p] = "failed" \/ (pc'[p] = "renamed" /\ prev' = prev /\ updLock' = p)
      BY <2>1 DEF Types, MainTypes
    <3>. QED BY <2>1, <3>1 DEF PInv, Locked, Stop, InHand, Ahead, Off, Attempting, Swapping, panel, record
  <2>. QED BY <2>2, <2>3, <2>4, <2>5
<1>6. CASE Relaunch(p)
  <2> USE <1>6 DEF Relaunch, Fails, Set
  <2>1. updLock = p
    BY DEF PInv, Locked, Swapping
  <2>2. FInv'
    BY FilesStay DEF Types, MainTypes
  <2>3. Types'
    BY DEF Types, DiskTypes, MainTypes, PanelTypes, States, Attempting, Swapping, files, data, locks, panel
  <2>4. \A q \in Procs \ {p} : PInv(q)'
    BY <2>1, OthersKeep DEF SameProc, Types, MainTypes, record, locks, panel
  <2>5. PInv(p)'
    BY <2>1 DEF Types, MainTypes, PInv, Locked, Stop, InHand, Ahead, Off, Attempting, Swapping, files, locks, panel, record
  <2>. QED BY <2>2, <2>3, <2>4, <2>5
<1>7. CASE Restore(p)
  <2> USE <1>7 DEF Restore, Fails, Set
  <2>1. updLock = p /\ prev # None /\ prev.ver = runs[p].ver /\ runs[p].ver \in Starts
    BY DEF PInv, Locked, InHand, Swapping
  <2>2. FInv'
    BY <2>1, InodesStay DEF FInv, WorkingCopy
  <2>3. Types'
    BY <2>1 DEF Types, DiskTypes, MainTypes, PanelTypes, MaybeFile, States, Attempting, Swapping, data, panel
  <2>4. \A q \in Procs \ {p} : PInv(q)'
    BY <2>1, OthersKeep DEF SameProc, Types, MainTypes, record, panel
  <2>5. PInv(p)'
    BY DEF Types, MainTypes, PInv, Locked, Stop, InHand, Ahead, Off, Attempting, Swapping, panel, record
  <2>. QED BY <2>2, <2>3, <2>4, <2>5
<1>8. CASE Installed(p)
  <2> USE <1>8 DEF Installed, Set
  <2>1. Types'
    <3>1. pend' \in [env : Maybe, meta : Maybe]
      BY PendTypes DEF Types, DiskTypes, data
    <3>. QED BY <3>1 DEF Types, DiskTypes, MainTypes, PanelTypes, MaybeFile, Maybe, States, Phases,
                       NoWant, NoCheck, NoDl, files, locks
  <2>2. FInv'
    BY FilesStay DEF Types, MainTypes
  <2>3. \A q \in Procs \ {p} : PInv(q)'
    BY OthersKeep DEF SameProc, Types, MainTypes, PanelTypes, record, locks, files
  <2>4. PInv(p)'
    BY DEF Types, MainTypes, PanelTypes, PInv, Locked, Stop, InHand, Ahead, Off, Attempting, Swapping, NoWant, NoCheck, NoDl
  <2>. QED BY <2>1, <2>2, <2>3, <2>4
<1>. QED BY <1>1, <1>2, <1>3, <1>4, <1>5, <1>6, <1>7, <1>8 DEF Swap

\* What the panel's threads and clicks leave alone.
LEMMA PanelFrame ==
    ASSUME IInv, NEW p \in Procs, UNCHANGED <<files, record, locks, runs>>,
           \A q \in Procs \ {p} : SameProc(q)
    PROVE  FInv' /\ \A q \in Procs \ {p} : PInv(q)'
<1>1. FInv'
  BY FilesStay DEF IInv, Types, MainTypes
<1>2. \A q \in Procs \ {p} : PInv(q)'
  BY OthersKeep DEF IInv, files, record, locks
<1>. QED BY <1>1, <1>2

\* A download's end: a file staged and remembered, or a failure.
LEMMA DownloadedInv ==
    ASSUME IInv, NEW p \in Procs, NEW t \in {"bg", "click"}, NEW e \in Maybe,
           Downloaded(p, t, dl[p][t], e)
    PROVE  IInv'
<1> DEFINE v == dl[p][t]
<1> USE DEF IInv
<1>1. v \in Nat /\ Ahead(p, v)
  BY DEF Downloaded, Types, PanelTypes, Maybe, PInv, InHand
<1>2. dl' = [dl EXCEPT ![p][t] = None] /\ UNCHANGED <<files, record, locks, main, env, check, checks>>
  BY DEF Downloaded
<1>3. \/ phase' = phase /\ offer' = offer
      \/ /\ phase[p] # "broken"
         /\ \/ phase' = [phase EXCEPT ![p] = "ready"] /\ offer' = [offer EXCEPT ![p] = v]
            \/ phase' = [phase EXCEPT ![p] = "failed"] /\ offer' = [offer EXCEPT ![p] = v]
            \/ phase' = [phase EXCEPT ![p] = "settled"] /\ offer' = [offer EXCEPT ![p] = None]
  BY DEF Downloaded, CommitPhase, Set
<1>4. pend' \in [env : Maybe, meta : Maybe]
  <2>1. CASE pend' = pend
    BY <2>1 DEF Types, DiskTypes
  <2>2. CASE e # None /\ RememberPending(e, v)
    BY <1>1, <2>2, PendTypes DEF Maybe
  <2>. QED BY <2>1, <2>2 DEF Downloaded, data
<1>5. /\ dl' \in [Procs -> [bg : Maybe, click : Maybe]]
      /\ dl'[p].bg \in {dl[p].bg, None} /\ dl'[p].click \in {dl[p].click, None}
      /\ \A q \in Procs \ {p} : dl'[q] = dl[q]
  BY <1>2 DEF Types, PanelTypes, Maybe
<1>. HIDE DEF v
<1>6. Types'
  <2>1. phase' \in [Procs -> Phases]
    BY <1>3 DEF Types, PanelTypes, Phases
  <2>2. offer' \in [Procs -> Maybe]
    BY <1>1, <1>3 DEF Types, PanelTypes, Maybe
  <2>3. PanelTypes'
    BY <1>2, <1>5, <2>1, <2>2 DEF Types, PanelTypes
  <2>. QED BY <1>2, <1>4, <2>3 DEF Types, DiskTypes, MainTypes, files, locks, main
<1>7. FInv' /\ \A q \in Procs \ {p} : PInv(q)'
  BY <1>2, <1>3, <1>5, PanelFrame DEF SameProc, Types, PanelTypes, main
<1>8. PInv(p)'
  <2>1. Locked(p)' /\ Stop(p)'
    BY <1>2 DEF PInv, Locked, Stop, files, locks, main, record
  <2>2. InHand(p)'
    <3>1. Ahead(p, dl[p].bg)' /\ Ahead(p, dl[p].click)'
      BY <1>2, <1>5 DEF PInv, InHand, Ahead, main
    <3>2. Ahead(p, offer[p])' /\ (phase'[p] = "ready" => offer'[p] # None) /\ (phase[p] # "broken" => phase'[p] # "broken")
      BY <1>1, <1>2, <1>3, NoneAssumption DEF PInv, InHand, Ahead, main, Types, PanelTypes
    <3>. QED BY <1>2, <3>1, <3>2 DEF PInv, InHand, Ahead, main
  <2>3. Off(p)'
    BY <1>1, <1>2, NoneAssumption DEF PInv, Off, NoDl, main, v
  <2>. QED BY <2>1, <2>2, <2>3 DEF PInv
<1>. QED BY <1>6, <1>7, <1>8

\* The checks, the clicks and their threads.
LEMMA PanelInv ==
    ASSUME IInv, NEW p \in Procs, Panel(p) PROVE IInv'
<1> USE DEF IInv
<1>1. CASE CheckNow(p)
  <2> USE <1>1 DEF CheckNow, Set
  <2>1. pc[p] # "off"
    BY DEF PInv, Off
  <2>2. Types'
    BY DEF Types, DiskTypes, MainTypes, PanelTypes, Phases, Maybe, files, data, locks, main
  <2>3. FInv' /\ \A q \in Procs \ {p} : PInv(q)'
    BY PanelFrame DEF SameProc, Types, PanelTypes, main
  <2>4. PInv(p)'
    BY <2>1 DEF Types, PanelTypes, PInv, Locked, Stop, InHand, Ahead, Off, files, locks, main, record
  <2>. QED BY <2>2, <2>3, <2>4
<1>2. CASE CheckDone(p)
  <2> USE <1>2 DEF CheckDone, CommitPhase, Set
  <2>1. pc[p] # "off"
    BY DEF PInv, Off, NoCheck
  <2> DEFINE Answer ==
        /\ env' \in [Procs -> Maybe]
        /\ \E c \in [at : {"none", "chain"}, ver : Maybe] : Ahead(p, c.ver) /\ check' = [check EXCEPT ![p] = c]
        /\ \/ phase' = phase /\ offer' = offer
           \/ /\ phase[p] # "broken"
              /\ \E v \in Maybe : /\ Ahead(p, v) /\ offer' = [offer EXCEPT ![p] = v]
                                  /\ \E ph \in {"offered", "settled"} : phase' = [phase EXCEPT ![p] = ph]
  <2>2. Answer
    <3>1. ASSUME NEW v \in Releases, Newer(p, v), CommitPhase(p, "offered", v), env' = Set(env, p, v),
                 NEW chain \in {NoCheck, [at |-> "chain", ver |-> v]}, check' = Set(check, p, chain)
          PROVE  Answer
      <4>1. v \in Maybe /\ Ahead(p, v) /\ chain \in [at : {"none", "chain"}, ver : Maybe] /\ Ahead(p, chain.ver)
        BY <3>1, NumbersAssumption DEF Releases, Maybe, Ahead, Newer, NoCheck
      <4>. QED BY <3>1, <4>1 DEF Types, PanelTypes
    <3>2. ASSUME CommitPhase(p, "settled", None), NEW e \in Releases \cup {None}, env' = Set(env, p, e),
                 check' = Set(check, p, NoCheck)
          PROVE  Answer
      <4>1. e \in Maybe /\ Ahead(p, None) /\ NoCheck \in [at : {"none", "chain"}, ver : Maybe] /\ Ahead(p, NoCheck.ver)
        BY <3>2, NumbersAssumption DEF Releases, Maybe, Ahead, NoCheck
      <4>. QED BY <3>2, <4>1 DEF Types, PanelTypes, Maybe
    <3>. QED BY <3>1, <3>2
  <2>3. Types'
    <3>1. phase' \in [Procs -> Phases] /\ offer' \in [Procs -> Maybe]
      <4>1. CASE phase' = phase /\ offer' = offer
        BY <4>1 DEF Types, PanelTypes
      <4>2. ASSUME NEW v \in Maybe, NEW ph \in {"offered", "settled"},
                   offer' = [offer EXCEPT ![p] = v], phase' = [phase EXCEPT ![p] = ph]
            PROVE  phase' \in [Procs -> Phases] /\ offer' \in [Procs -> Maybe]
        <5>1. ph \in Phases
          BY DEF Phases
        <5>. HIDE <1>2
        <5>. QED BY <4>2, <5>1 DEF Types, PanelTypes
      <4>. QED BY <2>2, <4>1, <4>2
    <3>2. check' \in [Procs -> [at : {"none", "fetch", "chain"}, ver : Maybe]]
      <4>1. PICK c \in [at : {"none", "chain"}, ver : Maybe] : check' = [check EXCEPT ![p] = c]
        BY <2>2
      <4>2. c \in [at : {"none", "fetch", "chain"}, ver : Maybe]
        OBVIOUS
      <4>. HIDE <1>2
      <4>. QED BY <4>1, <4>2 DEF Types, PanelTypes
    <3>. QED BY <2>2, <3>1, <3>2 DEF Types, DiskTypes, MainTypes, PanelTypes, files, data, locks, main
  <2>4. FInv' /\ \A q \in Procs \ {p} : PInv(q)'
    BY <2>2, PanelFrame DEF SameProc, Types, PanelTypes, main
  <2>5. PInv(p)'
    <3>1. Locked(p)' /\ Stop(p)' /\ Off(p)'
      BY <2>1 DEF PInv, Locked, Stop, Off, files, locks, main, record
    <3>2. InHand(p)'
      BY <2>2 DEF Types, PanelTypes, PInv, InHand, Ahead, main
    <3>. QED BY <3>1, <3>2 DEF PInv
  <2>. QED BY <2>3, <2>4, <2>5
<1>3. CASE Chain(p)
  <2> USE <1>3 DEF Chain, Set
  <2>1. pc[p] # "off" /\ Ahead(p, check[p].ver)
    BY DEF PInv, Off, NoCheck, InHand
  <2>2. /\ check' = [check EXCEPT ![p] = NoCheck]
        /\ \/ phase' = phase /\ offer' = offer /\ dl' = dl
           \/ /\ phase' = [phase EXCEPT ![p] = "downloading"] /\ offer' = [offer EXCEPT ![p] = check[p].ver]
              /\ dl' = [dl EXCEPT ![p].bg = check[p].ver]
    OBVIOUS
  <2>3. Types'
    <3>1. phase' \in [Procs -> Phases]
      BY <2>2 DEF Types, PanelTypes, Phases
    <3>2. offer' \in [Procs -> Maybe] /\ dl' \in [Procs -> [bg : Maybe, click : Maybe]]
      <4>1. check[p].ver \in Maybe /\ offer \in [Procs -> Maybe] /\ dl \in [Procs -> [bg : Maybe, click : Maybe]]
        BY DEF Types, PanelTypes
      <4>. HIDE <1>3 DEF IInv
      <4>2. offer' \in [Procs -> Maybe]
        BY <2>2, <4>1
      <4>3. dl' \in [Procs -> [bg : Maybe, click : Maybe]]
        BY <2>2, <4>1
      <4>. QED BY <4>2, <4>3
    <3>3. check' \in [Procs -> [at : {"none", "fetch", "chain"}, ver : Maybe]]
      BY <2>2 DEF Types, PanelTypes, NoCheck, Maybe
    <3>. QED BY <3>1, <3>2, <3>3 DEF Types, DiskTypes, MainTypes, PanelTypes, files, data, locks, main
  <2>4. FInv' /\ \A q \in Procs \ {p} : PInv(q)'
    BY <2>2, PanelFrame DEF SameProc, Types, PanelTypes, main
  <2>5. PInv(p)'
    <3>1. Locked(p)' /\ Stop(p)' /\ Off(p)'
      BY <2>1 DEF PInv, Locked, Stop, Off, files, locks, main, record
    <3>2. InHand(p)'
      BY <2>1, <2>2 DEF Types, PanelTypes, PInv, InHand, Ahead, NoCheck, main
    <3>. QED BY <3>1, <3>2 DEF PInv
  <2>. QED BY <2>3, <2>4, <2>5
<1>4. CASE Downloaded(p, "bg", dl[p].bg, dl[p].bg)
  <2>1. dl[p].bg \in Maybe
    BY DEF Types, PanelTypes
  <2>. QED BY <1>4, <2>1, DownloadedInv
<1>5. CASE Downloaded(p, "click", dl[p].click, env[p])
  <2>1. env[p] \in Maybe
    BY DEF Types, PanelTypes
  <2>. QED BY <1>5, <2>1, DownloadedInv
<1>6. CASE InstallClick(p)
  <2> USE <1>6 DEF InstallClick, At, Set
  <2>1. Types'
    BY DEF Types, DiskTypes, MainTypes, PanelTypes, States, files, data, locks, panel
  <2>2. FInv' /\ \A q \in Procs \ {p} : PInv(q)'
    BY PanelFrame DEF SameProc, Types, MainTypes, panel
  <2>3. PInv(p)'
    BY DEF Types, MainTypes, PInv, Locked, Stop, InHand, Ahead, Off, Attempting, Swapping, panel
  <2>. QED BY <2>1, <2>2, <2>3
<1>7. CASE InstallBegin(p)
  <2> USE <1>7 DEF InstallBegin, At, Set
  <2>1. /\ \E ph \in {"downloading", "failed"} : phase' = [phase EXCEPT ![p] = ph]
        /\ dl' = dl \/ dl' = [dl EXCEPT ![p].click = want[p].env]
        /\ want[p].env \in Maybe
    BY DEF Types, MainTypes
  <2>2. Types'
    <3>1. phase' \in [Procs -> Phases]
      BY <2>1 DEF Types, PanelTypes, Phases
    <3>2. offer' \in [Procs -> Maybe]
      BY <2>1 DEF Types, PanelTypes
    <3>3. dl' \in [Procs -> [bg : Maybe, click : Maybe]]
      <4>1. dl \in [Procs -> [bg : Maybe, click : Maybe]]
        BY DEF Types, PanelTypes
      <4>. HIDE <1>7 DEF IInv
      <4>. QED BY <2>1, <4>1
    <3>4. MainTypes'
      BY DEF Types, MainTypes, States, NoWant, Maybe
    <3>. QED BY <3>1, <3>2, <3>3, <3>4 DEF Types, DiskTypes, PanelTypes, files, data, locks
  <2>3. FInv' /\ \A q \in Procs \ {p} : PInv(q)'
    BY <2>1, PanelFrame DEF SameProc, Types, MainTypes, PanelTypes
  <2>4. PInv(p)'
    <3>1. Locked(p)' /\ Stop(p)' /\ Off(p)'
      BY DEF Types, MainTypes, PInv, Locked, Stop, Off, Attempting, Swapping
    <3>2. InHand(p)'
      BY <2>1 DEF Types, MainTypes, PanelTypes, PInv, InHand, Ahead, Attempting, Swapping, NoWant
    <3>. QED BY <3>1, <3>2 DEF PInv
  <2>. QED BY <2>2, <2>3, <2>4
<1>8. CASE ApplyClick(p)
  <2> USE <1>8 DEF ApplyClick, At, Set
  <2>1. Types'
    BY DEF Types, DiskTypes, MainTypes, PanelTypes, States, Attempting, files, data, locks, panel
  <2>2. FInv' /\ \A q \in Procs \ {p} : PInv(q)'
    BY PanelFrame DEF SameProc, Types, MainTypes, panel
  <2>3. PInv(p)'
    BY DEF Types, MainTypes, PInv, Locked, Stop, InHand, Ahead, Off, Attempting, Swapping, panel
  <2>. QED BY <2>1, <2>2, <2>3
<1>9. CASE ClickFailed(p)
  <2> USE <1>9 DEF ClickFailed, Set
  <2>1. /\ \/ phase' = phase /\ offer' = offer
           \/ phase' = [phase EXCEPT ![p] = "broken"] /\ offer' = [offer EXCEPT ![p] = None]
        /\ pend' = pend \/ CleanPending
        /\ stopped' = stopped \/ recLock = None
    BY DEF ShowBroken, record
  <2>2. Types'
    <3>1. pend' \in [env : Maybe, meta : Maybe]
      BY <2>1, PendTypes DEF Types, DiskTypes
    <3>2. MainTypes'
      BY DEF Types, MainTypes, States, NoWant, Maybe
    <3>3. PanelTypes'
      BY <2>1 DEF Types, PanelTypes, Phases, Maybe
    <3>. QED BY <3>1, <3>2, <3>3 DEF Types, DiskTypes, files, locks
  <2>3. FInv'
    BY FilesStay DEF Types, MainTypes
  <2>4. \A q \in Procs \ {p} : PInv(q)'
    <3>1. \A q \in Procs \ {p} : SameProc(q)
      BY <2>1 DEF SameProc, Types, MainTypes, PanelTypes
    <3>. QED BY <2>1, <3>1, OthersKeep DEF files, locks
  <2>5. PInv(p)'
    BY <2>1 DEF Types, MainTypes, PanelTypes, PInv, Locked, Stop, InHand, Ahead, Off, Attempting, Swapping, NoWant
  <2>. QED BY <2>2, <2>3, <2>4, <2>5
<1>. QED BY <1>1, <1>2, <1>3, <1>4, <1>5, <1>6, <1>7, <1>8, <1>9 DEF Panel

\* A process ends anywhere.
LEMMA ExitInv ==
    ASSUME IInv, NEW p \in Procs, Exit(p) PROVE IInv'
<1> USE DEF IInv, Exit, Set
<1>1. Types'
  BY DEF Types, DiskTypes, MainTypes, PanelTypes, MaybeFile, Maybe, States, Phases,
         NoWant, NoCheck, NoDl, files, data
<1>2. FInv'
  BY FilesStay DEF Types, MainTypes
<1>3. \A q \in Procs \ {p} : PInv(q)'
  BY OthersKeep DEF SameProc, Types, MainTypes, PanelTypes, record, files
<1>4. PInv(p)'
  BY DEF Types, MainTypes, PanelTypes, PInv, Locked, Stop, InHand, Ahead, Off, Attempting, Swapping, NoWant, NoCheck, NoDl
<1>. QED BY <1>1, <1>2, <1>3, <1>4

------------------------------------------------------------------------------
(* The theorems.                                                            *)

\* One file that starts, nobody running, nothing in hand.
LEMMA InitInv == Init => IInv
<1> SUFFICES ASSUME Init PROVE IInv
  OBVIOUS
<1>1. Types
  BY DEF Init, Types, DiskTypes, MainTypes, PanelTypes, Files, MaybeFile, Maybe, States, Phases, NoWant, NoCheck, NoDl
<1>2. FInv
  <2>1. AllFiles \subseteq {exe}
    BY DEF Init, AllFiles
  <2>. QED BY <2>1, StartsAssumption DEF Init, FInv, Inodes, WorkingCopy
<1>3. \A p \in Procs : PInv(p)
  BY DEF Init, PInv, Locked, Stop, InHand, Ahead, Off, Attempting, Swapping, NoWant, NoCheck, NoDl
<1>. QED BY <1>1, <1>2, <1>3 DEF IInv

\* Every step of every process, and its death, keeps the invariant.
LEMMA NextInv == IInv /\ [Next]_vars => IInv'
<1> SUFFICES ASSUME IInv, [Next]_vars PROVE IInv'
  OBVIOUS
<1>1. CASE Next
  BY <1>1, StartupInv, SwapInv, PanelInv, ExitInv DEF Next
<1>2. CASE UNCHANGED vars
  <2> USE <1>2 DEF vars, files, data, record, locks, main, panel
  <2>1. Types' /\ FInv'
    BY DEF IInv, Types, DiskTypes, MainTypes, PanelTypes, FInv, Inodes, AllFiles, WorkingCopy
  <2>2. \A p \in Procs : PInv(p)'
    BY DEF IInv, PInv, Locked, Stop, InHand, Ahead, Off
  <2>. QED BY <2>1, <2>2 DEF IInv
<1>. QED BY <1>1, <1>2

\* The inductive invariant: who may swap, which file is which, and that every
\* release in hand is newer.
THEOREM Inductive == Spec => []IInv
  BY InitInv, NextInv, PTL DEF Spec

\* A file that starts is at the path or at .prev, whatever dies or fails
\* (swap_keeping_previous, clean_previous).
THEOREM AlwaysAWorkingCopy == Spec => []WorkingCopy
<1>1. IInv => WorkingCopy
  BY DEF IInv, FInv
<1>. QED BY <1>1, Inductive, PTL

\* No automatic install of a release that was given up on is under way
\* (startup_attempt).
THEOREM StoppedIsNotInstalled == Spec => []StopHolds
<1>1. IInv => StopHolds
  BY DEF IInv, PInv, Locked, Stop, StopHolds
<1>. QED BY <1>1, Inductive, PTL

\* The version at the path only goes down when a process puts its own file back
\* (still_running_file, the restore after a failed relaunch).
THEOREM PathNeverGoesBack == Spec => NeverOlder
<1>1. IInv /\ [Next]_vars
        => [exe'.ver < exe.ver => \E p \in Procs : pc[p] = "restore" /\ exe'.ver = runs[p].ver]_vars
  <2> SUFFICES ASSUME IInv, NEW p \in Procs, Startup(p) \/ Swap(p) \/ Panel(p) \/ Exit(p),
                      exe'.ver < exe.ver
               PROVE  pc[p] = "restore" /\ exe'.ver = runs[p].ver
    BY DEF Next
  <2>1. exe \in Files /\ exe.ver \in Nat
    BY DEF IInv, Types, DiskTypes, Files
  <2>2. exe' # exe
    BY <2>1
  <2>3. (Rename(p) \/ Restore(p)) /\ PInv(p)
    BY <2>2 DEF IInv, Startup, Launch, NotNow, NotEver, Ripe, StartupAttempt, CleanPrevious, StartupFailed,
                Swap, LockUpdate, WriteNew, DropPrev, LinkPrev, Relaunch, Installed,
                Panel, CheckNow, CheckDone, Chain, Downloaded, InstallClick, InstallBegin, ApplyClick, ClickFailed,
                Exit, files
  <2>4. CASE Rename(p)
    <3>1. exe' = new /\ exe = runs[p] /\ new.ver = want[p].env /\ want[p].env # None /\ want[p].env > runs[p].ver
      BY <2>2, <2>3, <2>4 DEF Rename, PInv, Locked, InHand, Ahead, Attempting, Swapping
    <3>2. want[p].env \in Nat
      BY <3>1 DEF IInv, Types, MainTypes, Maybe
    <3>. QED BY <2>1, <3>1, <3>2
  <2>5. CASE Restore(p)
    BY <2>2, <2>3, <2>5 DEF Restore, PInv, Locked
  <2>. QED BY <2>3, <2>4, <2>5
<1>. QED BY <1>1, Inductive, PTL DEF Spec, NeverOlder

\* A process whose install is broken shows nothing else until it ends
\* (commit_phase, the second look of check_now and of install).
THEOREM BrokenIsShown == Spec => BrokenStays
<1>1. IInv /\ [Next]_vars
        => [\A p \in Procs : phase[p] = "broken" => phase'[p] = "broken" \/ pc'[p] = "off"]_vars
  <2> SUFFICES ASSUME IInv, NEW p \in Procs, Startup(p) \/ Swap(p) \/ Panel(p) \/ Exit(p),
                      NEW q \in Procs, phase[q] = "broken"
               PROVE  phase'[q] = "broken" \/ pc'[q] = "off"
    BY DEF Next
  <2>1. PInv(p) /\ Types
    BY DEF IInv
  <2>2. CASE Startup(p)
    BY <2>1, <2>2 DEF Startup, Launch, NotNow, NotEver, Ripe, StartupAttempt, CleanPrevious, StartupFailed,
                ShowBroken, Set, panel, Types, PanelTypes
  <2>3. CASE Swap(p)
    BY <2>1, <2>3 DEF Swap, LockUpdate, WriteNew, DropPrev, LinkPrev, Rename, Relaunch, Restore, Installed,
                Set, panel, Types, PanelTypes, MainTypes
  <2>4. CASE Panel(p)
    BY <2>1, <2>4 DEF Panel, CheckNow, CheckDone, Chain, Downloaded, CommitPhase, InstallClick, InstallBegin,
                ApplyClick, ClickFailed, ShowBroken, At, Set, panel, Types, PanelTypes, PInv, InHand
  <2>5. CASE Exit(p)
    BY <2>1, <2>5 DEF Exit, Set, Types, PanelTypes, MainTypes
  <2>. QED BY <2>2, <2>3, <2>4, <2>5
<1>. QED BY <1>1, Inductive, PTL DEF Spec, BrokenStays
==============================================================================
