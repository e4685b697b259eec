------------------------- MODULE LibraryImportProofs -------------------------
(***************************************************************************)
(* That an import never loses a Library, proved for any number of imports, *)
(* crashes and failures.                                                   *)
(***************************************************************************)
EXTENDS LibraryImport, FiniteSetTheorems, TLAPS

\* The journals form one chain, newest first, with no gap: following
\* `superseded` from the head meets every journal there is.
Chain ==
    /\ head # None => phase[head] # "none"
    /\ \A i \in Ids : phase[i] # "none" => head # None /\ i <= head /\ i \in whole
    /\ \A i \in Ids : phase[i] = "preparing" => i = head
    /\ \A i \in Ids : superseded[i] # None =>
          /\ phase[i] # "none" /\ superseded[i] < i
          /\ phase[superseded[i]] # "none"
          /\ \A k \in Ids : superseded[i] < k /\ k < i => phase[k] = "none"
    /\ \A i \in Ids : phase[i] # "none" /\ superseded[i] = None =>
          \A k \in Ids : k < i => phase[k] = "none"

\* A number not handed out yet is nowhere; nor is that of the import under
\* way before its first journal.
Unused(i) ==
    /\ phase[i] = "none" /\ superseded[i] = None
    /\ i \notin stDir /\ i \notin stArch /\ i \notin stLib
    /\ i # vault /\ i # lib /\ i # pics /\ i # store

Fresh ==
    /\ 0 \notin whole
    /\ \A i \in whole : i < next
    /\ \A i \in Ids : i >= next => Unused(i)
    /\ job # None => job < next /\ job # 0
    /\ job # None => \A i \in Ids : i > job => Unused(i)

\* What is committed is never newer than the vault on disk, and the vault's
\* own journal goes only together with every older one.
Order ==
    /\ \A i \in Ids : phase[i] \in {"vault_committed", "swapped"} =>
          vault # None /\ i <= vault
    /\ vault \in whole => \A i \in Ids : i < vault /\ phase[i] # "none" =>
                                            phase[vault] # "none"
    /\ \A i \in Ids : i = vault => phase[i] # "preparing"
    /\ vault = None => lib = None
    /\ \A i \in Ids : i \in stArch \/ i \in stLib => lib # i /\ i \in whole

\* The Library of the vault on disk.
Held ==
    /\ vault \in whole =>
          IF phase[vault] \in {"staged", "vault_committed"} THEN Pending(vault)
                                                            ELSE Complete(vault)
    /\ vault # None /\ vault \notin whole => lib = None \/ marker \/ Complete(vault)

\* The session: only the vault on disk is ever open, and only its Library.
Session ==
    /\ open # None => open = vault
    /\ store # None => store = vault /\ Complete(store)

Recovering ==
    \/ pc \in {"recover", "swap", "writeSwapped", "cleanMarker", "sweep", "cleanTemps",
               "cleanJournal", "recovered", "unfinished"}
    \/ pc \in {"undoFolder", "undoJournal"} /\ ret = "recover"

\* What is known at each step of the process.
Control ==
    /\ pc \in {"settle", "prepare", "build", "journalStaged", "staged", "install"} =>
          job \in whole /\ job # vault /\ job # lib /\ job # pics
    /\ pc \in {"settle", "prepare"} => Unused(job)
    /\ pc = "build" => /\ job \in stLib => job \in stArch
                       /\ job \in stArch => job \in stDir
    /\ pc = "prepare" /\ head # None => phase[head] # "preparing"
    /\ pc \in {"build", "journalStaged"} => head = job /\ phase[job] = "preparing"
    /\ pc = "journalStaged" => job \in stDir \cap stArch \cap stLib \cap built
    /\ pc \in {"staged", "install", "noteCommitted"} =>
          /\ head = job /\ phase[job] = "staged"
          /\ job \in stDir \cap stArch \cap stLib \cap built
    /\ pc \in {"install", "noteCommitted"} => open = None /\ store = None
    /\ pc = "noteCommitted" => job = vault /\ job \in whole
    /\ pc \in {"undoFolder", "undoJournal"} =>
          /\ cur # None /\ head = cur /\ cur # vault
          /\ phase[cur] \in {"preparing", "staged"}
          /\ ret \in {"settle", "recover", "failed"}
          /\ ret = "settle" => job \in whole /\ job # vault /\ Unused(job)
          /\ ret = "recover" \/ job # None
    /\ Recovering =>
          \/ via = "commit" /\ job = vault /\ job \in whole /\ open = None /\ store = None
          \/ via = "open" /\ open = vault /\ open # None
    /\ pc = "openLib" => open = vault /\ open # None /\ via = "open"
    /\ pc = "swap" =>
          cur = vault /\ head = cur /\ phase[cur] \in {"staged", "vault_committed"}
    /\ pc = "swap" => store = None \/ via = "open"
    /\ pc = "writeSwapped" =>
          cur = vault /\ head = cur /\ phase[cur] # "none" /\ cur \in whole /\ Complete(cur)
    /\ pc = "cleanMarker" \/ (pc \in {"sweep", "cleanTemps", "cleanJournal"} /\ ret # "discard") =>
          cur = vault /\ head = cur /\ cur \in whole /\ phase[cur] = "swapped" /\ Complete(cur)
    /\ pc = "cleanMarker" => ret \in {"done", "recover"}
    /\ pc \in {"sweep", "cleanTemps", "cleanJournal"} => ret \in {"done", "recover", "discard"}
    /\ pc \in {"sweep", "cleanTemps", "cleanJournal"} /\ ret = "discard" =>
          vault \notin whole /\ lib = None /\ via = "open"
    /\ pc \in {"recovered", "openLib"} /\ vault \in whole => Complete(vault)
    /\ pc \in {"legacyMarker", "legacyInstall", "legacyUnmark"} =>
          job # None /\ job \notin whole /\ job # vault /\ Unused(job)
    /\ pc \in {"legacyInstall", "legacyUnmark"} => marker
    /\ pc = "legacyUnmark" => mine
    /\ pc \in {"legacyInstall", "legacyUnmark"} /\ mine /\ vault # None /\ vault \notin whole =>
          lib = None \/ Complete(vault)
    /\ pc \in {"legacyRemove", "legacyClear"} =>
          vault = job /\ open = job /\ job # None /\ job \notin whole /\ store = None
    /\ pc = "legacyRemove" => marker /\ lib # vault
    /\ pc = "legacyClear" => lib = None

Rest == Types /\ Chain /\ Fresh /\ Order /\ Held /\ Session /\ Control

IInv == Flags /\ Rest

USE ConstantsAssumption
    DEF Ids, Maybe, Phases, Steps, StagingSteps, live, staged, log, data, sess, call, hist

------------------------------------------------------------------------------
(* Every action keeps the inductive invariant.                              *)

\* Staging an import: stage_inner, build, undo and staged_ready.
LEMMA StageInv == IInv /\ StageStep => Rest'
<1> SUFFICES ASSUME IInv, StageStep PROVE Rest'
  OBVIOUS
<1> USE DEF IInv, Flags, Rest, Types, Chain, Unused, Fresh, Order, Held, Session, Recovering,
        Control, Pending, Complete, library_in_place
<1>1. CASE SettleNone
  BY <1>1 DEF SettleNone, Fault, Go, NoFault, remove_journal_temps
<1>2. CASE SettlePreparing
  BY <1>2 DEF SettlePreparing, Go, NoFault
<1>3. CASE SettleKeep
  BY <1>3 DEF SettleKeep, Go, Journals, NoFault
<1>4. CASE PrepareJournal
  <2> USE <1>4 DEF PrepareJournal, Fault, Go, NoFault, TempMayStay, WriteJournal, write_journal
  <2>1. Types'
    <3>1. job \in Ids /\ head \in Maybe
      OBVIOUS
    <3>2. head' \in Maybe
      BY <3>1
    <3>3. "preparing" \in Phases /\ phase \in [Ids -> Phases] /\ superseded \in [Ids -> Maybe]
      OBVIOUS
    <3>4. \/ UNCHANGED log
          \/ /\ phase' = [phase EXCEPT ![job] = "preparing"]
             /\ superseded' = [superseded EXCEPT ![job] = head]
      BY <1>4 DEF PrepareJournal, write_journal, WriteJournal
    <3>5. phase' \in [Ids -> Phases] /\ superseded' \in [Ids -> Maybe]
      BY ONLY <3>1, <3>3, <3>4 DEF log
    <3>. QED BY <3>2, <3>5
  <2>2. Chain'
    BY SMTT(30)
  <2>3. Fresh'
    BY SMTT(30)
  <2>4. Order'
    BY SMTT(30)
  <2>5. Held'
    BY SMTT(30)
  <2>6. Session'
    BY SMTT(30)
  <2>7. Control'
    BY SMTT(30)
  <2>. QED BY <2>1, <2>2, <2>3, <2>4, <2>5, <2>6, <2>7 DEF Rest
<1>5. CASE MakeStaging
  BY <1>5 DEF MakeStaging, NoFault
<1>6. CASE MakeArchive
  <2> USE <1>6 DEF MakeArchive, NoFault
  <2>1. Types'
    BY SMTT(30)
  <2>2. Chain'
    BY SMTT(30)
  <2>3. Fresh'
    BY SMTT(30)
  <2>4. Order'
    BY SMTT(30)
  <2>5. Held'
    BY SMTT(30)
  <2>6. Session'
    BY SMTT(30)
  <2>7. Control'
    BY SMTT(30)
  <2>. QED BY <2>1, <2>2, <2>3, <2>4, <2>5, <2>6, <2>7 DEF Rest
<1>7. CASE CreateLibrary
  BY <1>7 DEF CreateLibrary, NoFault
<1>8. CASE CommitRestore
  <2> USE <1>8 DEF CommitRestore, Go, NoFault
  <2>1. Types'
    BY SMTT(30)
  <2>2. Chain'
    BY SMTT(30)
  <2>3. Fresh'
    BY SMTT(30)
  <2>4. Order'
    BY SMTT(30)
  <2>5. Held'
    BY SMTT(30)
  <2>6. Session'
    BY SMTT(30)
  <2>7. Control'
    BY SMTT(30)
  <2>. QED BY <2>1, <2>2, <2>3, <2>4, <2>5, <2>6, <2>7 DEF Rest
<1>9. CASE BuildFails
  BY <1>9 DEF BuildFails, Go, NoFault
<1>10. CASE JournalStaged
  <2> USE <1>10 DEF JournalStaged, Fault, Go, NoFault, TempMayStay, WriteJournal, write_journal
  <2>1. Types'
    BY SMTT(30)
  <2>2. Chain'
    BY SMTT(30)
  <2>3. Fresh'
    BY SMTT(30)
  <2>4. Order'
    BY SMTT(30)
  <2>5. Held'
    BY SMTT(30)
  <2>6. Session'
    BY SMTT(30)
  <2>7. Control'
    BY SMTT(30)
  <2>. QED BY <2>1, <2>2, <2>3, <2>4, <2>5, <2>6, <2>7 DEF Rest
<1>11. CASE UndoFolder
  <2> USE <1>11 DEF UndoFolder, Fault, Go, NoFault, RemoveStaging, RemoveStagingPartly
  <2>1. Types'
    <3>1. stDir' \subseteq Ids /\ stArch' \subseteq Ids /\ stLib' \subseteq Ids
      BY <1>11 DEF UndoFolder, RemoveStaging, RemoveStagingPartly
    <3>2. built' \subseteq Ids /\ bare' \subseteq Ids
      BY <1>11 DEF UndoFolder
    <3>. QED BY <3>1, <3>2, <1>11 DEF UndoFolder, Go, Fault, NoFault
  <2>2. Chain'
    BY SMTT(30)
  <2>3. Fresh'
    BY SMTT(30)
  <2>4. Order'
    BY SMTT(30)
  <2>5. Held'
    BY SMTT(30)
  <2>6. Session'
    BY SMTT(30)
  <2>7. Control'
    BY SMTT(30)
  <2>. QED BY <2>1, <2>2, <2>3, <2>4, <2>5, <2>6, <2>7 DEF Rest
<1>12. CASE UndoJournal
  <2> USE <1>12 DEF UndoJournal, Fault, Go, NoFault, PutBack, TempMayStay
  <2>1. Types'
    BY SMTT(90)
  <2>2. Chain'
    <3>1. CASE UNCHANGED log
      BY <3>1
    <3>2. CASE PutBack(cur)
      <4>1. cur \in Ids /\ head = cur /\ phase[cur] # "none"
        BY <1>12 DEF UndoJournal
      <4>2. \A i \in Ids : phase'[i] = IF i = cur THEN "none" ELSE phase[i]
        BY <3>2, <4>1 DEF PutBack
      <4>3. \A i \in Ids : superseded'[i] = IF i = cur THEN None ELSE superseded[i]
        BY <3>2, <4>1 DEF PutBack
      <4>4. head' = superseded[cur] /\ UNCHANGED whole
        BY <3>2, <1>12 DEF UndoJournal, PutBack
      <4>5. \A i \in Ids : phase'[i] # "none" => head' # None /\ i <= head' /\ i \in whole'
        BY <4>1, <4>2, <4>4
      <4>6. head' # None => phase'[head'] # "none"
        BY <4>1, <4>2, <4>4
      <4>7. \A i \in Ids : superseded'[i] # None => i # cur /\ superseded'[i] = superseded[i]
                                                            /\ superseded[i] # cur
        BY <4>1, <4>3
      <4>8. \A i \in Ids : phase'[i] # "preparing"
        BY <4>1, <4>2
      <4>. QED BY <4>1, <4>2, <4>3, <4>5, <4>6, <4>7, <4>8
    <3>. QED BY <3>1, <3>2, <1>12 DEF UndoJournal
  <2>3. Fresh'
    BY SMTT(30)
  <2>4. Order'
    BY SMTT(30)
  <2>5. Held'
    BY SMTT(30)
  <2>6. Session'
    BY SMTT(30)
  <2>7. Control'
    BY SMTT(30)
  <2>. QED BY <2>1, <2>2, <2>3, <2>4, <2>5, <2>6, <2>7 DEF Rest
<1>13. CASE ImportFailed
  BY <1>13 DEF ImportFailed, Go, NoFault
<1>14. CASE StagedStopped
  BY <1>14 DEF StagedStopped, Go, NoFault
<1>15. CASE StagedCommits
  BY <1>15 DEF StagedCommits, Go, NoFault
<1>. QED BY <1>1, <1>2, <1>3, <1>4, <1>5, <1>6, <1>7, <1>8, <1>9, <1>10, <1>11, <1>12, <1>13, <1>14,
        <1>15 DEF StageStep

\* The commit and recovery: install, recover, finish and clean_up.
LEMMA RecoverInv == IInv /\ RecoverStep => Rest'
<1> SUFFICES ASSUME IInv, RecoverStep PROVE Rest'
  OBVIOUS
<1> USE DEF IInv, Flags, Rest, Types, Chain, Unused, Fresh, Order, Held, Session, Recovering,
        Control, Pending, Complete, library_in_place
<1>1. CASE Install
  BY <1>1 DEF Install, Fault, Go, NoFault
<1>2. CASE NoteCommitted
  <2> USE <1>2 DEF NoteCommitted, Fault, Go, NoFault, TempMayStay, WriteJournal, write_journal
  <2>1. Types'
    BY SMTT(30)
  <2>2. Chain'
    BY SMTT(30)
  <2>3. Fresh'
    BY SMTT(30)
  <2>4. Order'
    BY SMTT(30)
  <2>5. Held'
    BY SMTT(30)
  <2>6. Session'
    BY SMTT(30)
  <2>7. Control'
    BY SMTT(30)
  <2>. QED BY <2>1, <2>2, <2>3, <2>4, <2>5, <2>6, <2>7 DEF Rest
<1>3. CASE RecoverNone
  BY <1>3 DEF RecoverNone, Fault, Go, NoFault, remove_journal_temps
<1>4. CASE RecoverUndo
  BY <1>4 DEF RecoverUndo, Go, Key, NoFault, Ours
<1>5. CASE RecoverForeign
  BY <1>5 DEF RecoverForeign, Go, Key, NoFault, Ours
<1>6. CASE RecoverFinish
  BY <1>6 DEF RecoverFinish, Go, Key, NoFault, Ours
<1>7. CASE RecoverSwapped
  BY <1>7 DEF RecoverSwapped, Go, Key, NoFault, Ours
<1>8. CASE MoveLiveAside
  BY <1>8 DEF MoveLiveAside, NoFault
<1>10. CASE MoveArchiveIn
  BY <1>10 DEF MoveArchiveIn, NoFault
<1>11. CASE MoveLibraryIn
  BY <1>11 DEF MoveLibraryIn, NoFault
<1>12. CASE SwapVerified
  BY <1>12 DEF SwapVerified, Go, NoFault
<1>13. CASE SwapFails
  BY <1>13 DEF SwapFails, Fault, NoFault, Go
<1>14. CASE WriteSwapped
  <2> USE <1>14 DEF WriteSwapped, Fault, Go, NoFault, TempMayStay, WriteJournal, write_journal
  <2>1. Types'
    BY SMTT(30)
  <2>2. Chain'
    BY SMTT(30)
  <2>3. Fresh'
    BY SMTT(30)
  <2>4. Order'
    BY SMTT(30)
  <2>5. Held'
    BY SMTT(30)
  <2>6. Session'
    BY SMTT(30)
  <2>7. Control'
    BY SMTT(30)
  <2>. QED BY <2>1, <2>2, <2>3, <2>4, <2>5, <2>6, <2>7 DEF Rest
<1>15. CASE CleanMarker
  BY <1>15 DEF CleanMarker, Fault, Go, NoFault
<1>16. CASE SweepFolder
  <2> USE <1>16 DEF SweepFolder, Fault, GiveUp, Go, NoFault, RemoveStaging, RemoveStagingPartly,
         journal_exists
  <2>1. Types'
    <3>1. stDir' \subseteq Ids /\ stArch' \subseteq Ids /\ stLib' \subseteq Ids
      BY <1>16 DEF SweepFolder, RemoveStaging, RemoveStagingPartly
    <3>2. oldArch' \in [Ids -> Maybe]
      BY <1>16 DEF SweepFolder
    <3>. QED BY <3>1, <3>2, <1>16, SMTT(60) DEF SweepFolder, GiveUp, Go, Fault, NoFault
  <2>2. Chain'
    BY SMTT(30)
  <2>3. Fresh'
    BY SMTT(30)
  <2>4. Order'
    BY SMTT(30)
  <2>5. Held'
    BY SMTT(30)
  <2>6. Session'
    BY SMTT(30)
  <2>7. Control'
    BY SMTT(30)
  <2>. QED BY <2>1, <2>2, <2>3, <2>4, <2>5, <2>6, <2>7 DEF Rest
<1>17. CASE SweepDone
  BY <1>17 DEF SweepDone, Go, NoFault
<1>18. CASE CleanTemps
  BY <1>18 DEF CleanTemps, Fault, GiveUp, Go, NoFault, journal_exists, remove_journal_temps
<1>19. CASE CleanJournal
  <2> USE <1>19 DEF CleanJournal, DropAll, Fault, GiveUp, Go, NoFault, journal_exists
  <2>1. Types'
    BY SMTT(30)
  <2>2. Chain'
    BY SMTT(30)
  <2>3. Fresh'
    BY SMTT(30)
  <2>4. Order'
    BY SMTT(30)
  <2>5. Held'
    BY SMTT(30)
  <2>6. Session'
    BY SMTT(30)
  <2>7. Control'
    <3>1. CASE ret = "discard"
      <4>1. pc' \in {"openLib", "recover"}
        BY <3>1
      <4>. QED BY <3>1, <4>1
    <3>2. CASE ret # "discard"
      <4>1. pc' \in {"recovered", "recover"}
        BY <3>2
      <4>. QED BY <3>2, <4>1
    <3>. QED BY <3>1, <3>2
  <2>. QED BY <2>1, <2>2, <2>3, <2>4, <2>5, <2>6, <2>7 DEF Rest
<1>20. CASE OpenImported
  BY <1>20 DEF OpenImported, Fault, Go, NoFault, Reconciled
<1>21. CASE RecoveredForOpen
  BY <1>21 DEF RecoveredForOpen, Go, NoFault
<1>22. CASE LibraryUnfinished
  BY <1>22 DEF LibraryUnfinished, Go, Key, NoFault
<1>. QED BY <1>1, <1>2, <1>3, <1>4, <1>5, <1>6, <1>7, <1>8, <1>10, <1>11, <1>12, <1>13, <1>14,
        <1>15, <1>16, <1>17, <1>18, <1>19, <1>20, <1>21, <1>22 DEF RecoverStep

\* open_store past recovery.
LEMMA OpenInv == IInv /\ OpenStep => Rest'
<1> SUFFICES ASSUME IInv, OpenStep PROVE Rest'
  OBVIOUS
<1> USE DEF IInv, Flags, Rest, Types, Chain, Unused, Fresh, Order, Held, Session, Recovering,
        Control, Pending, Complete, library_in_place
<1>1. CASE OpenRefused
  BY <1>1 DEF OpenRefused, Go, NoFault
<1>2. CASE OpenLibrary
  BY <1>2 DEF OpenLibrary, Fault, Go, NoFault, Reconciled
<1>3. CASE CreateMissing
  <2> USE <1>3 DEF CreateMissing, Fault, Go, NoFault, Reconciled
  <2>1. Types'
    <3>1. open \in Ids
      OBVIOUS
    <3>2. built' \subseteq Ids /\ bare' \subseteq Ids
      BY <3>1, ZenonT(60)
    <3>3. lib' \in Maybe /\ pics' \in Maybe /\ store' \in Maybe
      BY <3>1
    <3>. QED BY <3>2, <3>3
  <2>2. Chain'
    BY SMTT(30)
  <2>3. Fresh'
    BY SMTT(30)
  <2>4. Order'
    BY SMTT(30)
  <2>5. Held'
    BY SMTT(30)
  <2>6. Session'
    BY SMTT(30)
  <2>7. Control'
    BY SMTT(30)
  <2>. QED BY <2>1, <2>2, <2>3, <2>4, <2>5, <2>6, <2>7 DEF Rest
<1>. QED BY <1>1, <1>2, <1>3 DEF OpenStep

\* The import of an older backup: replace_library, finish_library_replacement.
LEMMA LegacyInv == IInv /\ LegacyStep => Rest'
<1> SUFFICES ASSUME IInv, LegacyStep PROVE Rest'
  OBVIOUS
<1> USE DEF IInv, Flags, Rest, Types, Chain, Unused, Fresh, Order, Held, Session, Recovering,
        Control, Pending, Complete, library_in_place
<1>1. CASE EstablishMarker
  <2> USE <1>1 DEF EstablishMarker, Fault, Go, NoFault
  <2>1. Types'
    BY SMTT(30)
  <2>2. Chain'
    BY SMTT(30)
  <2>3. Fresh'
    BY SMTT(30)
  <2>4. Order'
    BY SMTT(30)
  <2>5. Held'
    BY SMTT(30)
  <2>6. Session'
    BY SMTT(30)
  <2>7. Control'
    <3>1. CASE marker
      BY <3>1
    <3>2. CASE ~marker /\ pc' = "failed"
      BY <3>2
    <3>3. CASE ~marker /\ pc' = "legacyInstall"
      BY <3>3
    <3>. QED BY <3>1, <3>2, <3>3
  <2>. QED BY <2>1, <2>2, <2>3, <2>4, <2>5, <2>6, <2>7 DEF Rest
<1>2. CASE LegacyInstall
  BY <1>2, SMTT(60) DEF LegacyInstall, Go, NoFault
<1>3. CASE LegacyUnmark
  <2> USE <1>3 DEF LegacyUnmark, Fault, Go, NoFault
  <2>1. Types'
    BY SMTT(30)
  <2>2. Chain'
    BY SMTT(30)
  <2>3. Fresh'
    BY SMTT(30)
  <2>4. Order'
    BY SMTT(30)
  <2>5. Held'
    BY SMTT(30)
  <2>6. Session'
    BY SMTT(30)
  <2>7. Control'
    BY SMTT(30)
  <2>. QED BY <2>1, <2>2, <2>3, <2>4, <2>5, <2>6, <2>7 DEF Rest
<1>4. CASE LegacyRemove
  BY <1>4, SMTT(60) DEF LegacyRemove, Fault, Go, NoFault
<1>5. CASE LegacyClear
  BY <1>5 DEF LegacyClear, Fault, Go, NoFault
<1>. QED BY <1>1, <1>2, <1>3, <1>4, <1>5 DEF LegacyStep

\* What the person does, and crashes.
UserStep == StartImport \/ Unlock \/ CreateVault \/ ArchivePage
            \/ Lock \/ Cancel \/ StartLegacyImport \/ Crash

\* Unlock, lock, create, a write, the start of an import, a crash.
LEMMA UserInv == IInv /\ UserStep => Rest'
<1> SUFFICES ASSUME IInv, UserStep PROVE Rest'
  OBVIOUS
<1> USE DEF IInv, Flags, Rest, Types, Chain, Unused, Fresh, Order, Held, Session, Recovering,
        Control, Pending, Complete, library_in_place
<1>1. CASE StartImport
  BY <1>1 DEF StartImport, Go, NoFault
<1>2. CASE Unlock
  BY <1>2 DEF Unlock, Go, NoFault, journal_exists
<1>3. CASE CreateVault
  BY <1>3 DEF CreateVault, Go, NoFault, journal_exists
<1>4. CASE ArchivePage
  BY <1>4 DEF ArchivePage, NoFault
<1>5. CASE Lock
  BY <1>5 DEF Lock, NoFault, Staging
<1>6. CASE Cancel
  BY <1>6 DEF Cancel, NoFault, Staging
<1>7. CASE StartLegacyImport
  BY <1>7 DEF StartLegacyImport, Go, NoFault
<1>8. CASE Crash
  BY <1>8 DEF Crash, Fault, Go, TempMayStay, WritingJournal
<1>. QED BY <1>1, <1>2, <1>3, <1>4, <1>5, <1>6, <1>7, <1>8 DEF UserStep

\* The flags stay Boolean.
LEMMA FlagsInv == Flags /\ Next => Flags'
<1> SUFFICES ASSUME Flags, Next PROVE Flags'
  OBVIOUS
<1> USE DEF Flags
<1>1. CASE SettleNone BY <1>1 DEF SettleNone, remove_journal_temps
<1>2. CASE SettlePreparing BY <1>2 DEF SettlePreparing
<1>3. CASE SettleKeep BY <1>3 DEF SettleKeep
<1>4. CASE PrepareJournal BY <1>4 DEF PrepareJournal, TempMayStay, write_journal
<1>5. CASE MakeStaging BY <1>5 DEF MakeStaging
<1>6. CASE MakeArchive BY <1>6 DEF MakeArchive
<1>7. CASE CreateLibrary BY <1>7 DEF CreateLibrary
<1>8. CASE CommitRestore BY <1>8 DEF CommitRestore
<1>9. CASE BuildFails BY <1>9 DEF BuildFails
<1>10. CASE JournalStaged BY <1>10 DEF JournalStaged, TempMayStay, write_journal
<1>11. CASE UndoFolder BY <1>11 DEF UndoFolder
<1>12. CASE UndoJournal BY <1>12 DEF UndoJournal, TempMayStay
<1>13. CASE ImportFailed BY <1>13 DEF ImportFailed
<1>14. CASE StagedStopped BY <1>14 DEF StagedStopped
<1>15. CASE StagedCommits BY <1>15 DEF StagedCommits
<1>16. CASE Install BY <1>16 DEF Install
<1>17. CASE NoteCommitted BY <1>17 DEF NoteCommitted, TempMayStay, write_journal
<1>18. CASE RecoverNone BY <1>18 DEF RecoverNone, remove_journal_temps
<1>19. CASE RecoverUndo BY <1>19 DEF RecoverUndo
<1>20. CASE RecoverForeign BY <1>20 DEF RecoverForeign
<1>21. CASE RecoverFinish BY <1>21 DEF RecoverFinish
<1>22. CASE RecoverSwapped BY <1>22 DEF RecoverSwapped
<1>23. CASE MoveLiveAside BY <1>23 DEF MoveLiveAside
<1>25. CASE MoveArchiveIn BY <1>25 DEF MoveArchiveIn
<1>26. CASE MoveLibraryIn BY <1>26 DEF MoveLibraryIn
<1>27. CASE SwapVerified BY <1>27 DEF SwapVerified
<1>28. CASE SwapFails BY <1>28 DEF SwapFails
<1>29. CASE WriteSwapped BY <1>29 DEF WriteSwapped, TempMayStay, write_journal
<1>30. CASE CleanMarker BY <1>30 DEF CleanMarker
<1>31. CASE SweepFolder BY <1>31 DEF SweepFolder
<1>32. CASE SweepDone BY <1>32 DEF SweepDone
<1>33. CASE CleanTemps BY <1>33 DEF CleanTemps, remove_journal_temps
<1>34. CASE CleanJournal BY <1>34 DEF CleanJournal
<1>35. CASE OpenImported BY <1>35 DEF OpenImported
<1>36. CASE RecoveredForOpen BY <1>36 DEF RecoveredForOpen
<1>37. CASE LibraryUnfinished BY <1>37 DEF LibraryUnfinished
<1>38. CASE OpenRefused BY <1>38 DEF OpenRefused
<1>39. CASE OpenLibrary BY <1>39 DEF OpenLibrary
<1>40. CASE CreateMissing BY <1>40 DEF CreateMissing
<1>41. CASE EstablishMarker BY <1>41 DEF EstablishMarker
<1>42. CASE LegacyInstall BY <1>42 DEF LegacyInstall
<1>43. CASE LegacyUnmark BY <1>43 DEF LegacyUnmark
<1>44. CASE LegacyRemove BY <1>44 DEF LegacyRemove
<1>45. CASE LegacyClear BY <1>45 DEF LegacyClear
<1>46. CASE StartImport BY <1>46 DEF StartImport
<1>47. CASE Unlock BY <1>47 DEF Unlock
<1>48. CASE CreateVault BY <1>48 DEF CreateVault
<1>49. CASE ArchivePage BY <1>49 DEF ArchivePage
<1>50. CASE Lock BY <1>50 DEF Lock, Staging
<1>51. CASE Cancel BY <1>51 DEF Cancel, Staging
<1>52. CASE StartLegacyImport BY <1>52 DEF StartLegacyImport
<1>53. CASE Crash BY <1>53 DEF Crash, TempMayStay
<1>. QED BY <1>1, <1>2, <1>3, <1>4, <1>5, <1>6, <1>7, <1>8, <1>9, <1>10, <1>11, <1>12, <1>13, <1>14,
        <1>15, <1>16, <1>17, <1>18, <1>19, <1>20, <1>21, <1>22, <1>23, <1>25, <1>26, <1>27,
        <1>28, <1>29, <1>30, <1>31, <1>32, <1>33, <1>34, <1>35, <1>36, <1>37, <1>38, <1>39, <1>40,
        <1>41, <1>42, <1>43, <1>44, <1>45, <1>46, <1>47, <1>48, <1>49, <1>50, <1>51, <1>52, <1>53
        DEF Next, StageStep, RecoverStep, OpenStep, LegacyStep

\* The inductive step, over all of Next.
LEMMA InvStep == IInv /\ [Next]_vars => IInv'
<1> SUFFICES ASSUME IInv, [Next]_vars PROVE IInv'
  OBVIOUS
<1>1. CASE Next
  <2>1. Flags'
    BY <1>1, FlagsInv DEF IInv
  <2>2. Rest'
    BY <1>1, StageInv, RecoverInv, OpenInv, LegacyInv, UserInv DEF Next, UserStep
  <2>. QED BY <2>1, <2>2 DEF IInv
<1>2. CASE UNCHANGED vars
  BY <1>2 DEF vars, IInv, Rest, Flags, Types, Chain, Unused, Fresh, Order, Held, Session,
              Recovering, Control, Pending, Complete, library_in_place
<1>. QED BY <1>1, <1>2

\* It holds at the start: no import, no journal, nothing open.
LEMMA InvInit == Init => IInv
<1> SUFFICES ASSUME Init PROVE IInv
  OBVIOUS
<1>1. Flags
  BY DEF Init, Flags
<1>2. Rest
  BY DEF Init, Rest, Types, Chain, Unused, Fresh, Order, Held, Session,
         Recovering, Control, Pending, Complete, library_in_place
<1>. QED BY <1>1, <1>2 DEF IInv

\* Hence it always holds, through crashes and failures of any step.
LEMMA InvAlways == Spec => []IInv
BY InvInit, InvStep, PTL DEF Spec

------------------------------------------------------------------------------
(* The folders imports leave, and how many journals there are.              *)

\* No import has moved pictures aside.
NoneAside == \A i \in Ids : oldArch[i] = None

\* Pictures are moved aside by imports up to the vault on disk only, and the folder
\* "archive" is not made again before that import's own pictures are in.
Aside ==
    /\ \A i \in Ids : oldArch[i] # None => vault # None /\ i <= vault
    /\ vault \in stArch /\ oldArch[vault] # None => pics = None

\* A staging folder goes before its journal, the folders moved aside before the
\* vault's own.
Tidy ==
    /\ \A i \in stDir : phase[i] # "none"
    /\ pc = "undoJournal" => cur \notin stDir
    /\ pc \in {"cleanTemps", "cleanJournal"} => stDir = {} /\ NoneAside
    /\ vault \in whole /\ phase[vault] = "none" => NoneAside

\* A journal is written only where settle found room for it.
Limit ==
    /\ Cardinality(Journals) <= MaxKept + 1
    /\ pc = "prepare" => Cardinality(Journals) <= MaxKept

\* The steps that touch a folder, a journal, the vault on disk or its pictures, or
\* that lead to one that removes a journal.
FolderStep ==
    \/ MakeStaging \/ MakeArchive \/ UndoFolder \/ UndoJournal \/ MoveLiveAside
    \/ MoveArchiveIn \/ SweepFolder \/ SweepDone \/ CleanTemps \/ CleanJournal
    \/ PrepareJournal \/ JournalStaged \/ NoteCommitted \/ WriteSwapped \/ Install
    \/ LegacyInstall \/ CreateVault \/ StartImport \/ OpenImported \/ OpenLibrary
    \/ CreateMissing \/ ArchivePage \/ SettleNone \/ SettleKeep

\* Every other step leaves all that alone.
LEMMA QuietStep ==
    ASSUME Next, ~FolderStep
    PROVE  /\ UNCHANGED <<vault, pics, stDir, stArch, oldArch, phase, whole>>
           /\ pc' \notin {"prepare", "undoJournal", "cleanTemps", "cleanJournal"} \/ UNCHANGED <<pc, cur>>
<1> USE DEF live, staged, log, call, hist, Go
<1>1. CASE SettlePreparing BY <1>1 DEF SettlePreparing
<1>2. CASE CreateLibrary BY <1>2 DEF CreateLibrary
<1>3. CASE CommitRestore BY <1>3 DEF CommitRestore
<1>4. CASE BuildFails BY <1>4 DEF BuildFails
<1>5. CASE ImportFailed BY <1>5 DEF ImportFailed
<1>6. CASE StagedStopped BY <1>6 DEF StagedStopped
<1>7. CASE StagedCommits BY <1>7 DEF StagedCommits
<1>8. CASE RecoverNone BY <1>8 DEF RecoverNone, remove_journal_temps
<1>9. CASE RecoverUndo BY <1>9 DEF RecoverUndo
<1>10. CASE RecoverForeign BY <1>10 DEF RecoverForeign
<1>11. CASE RecoverFinish BY <1>11 DEF RecoverFinish
<1>12. CASE RecoverSwapped BY <1>12 DEF RecoverSwapped
<1>13. CASE MoveLibraryIn BY <1>13 DEF MoveLibraryIn
<1>14. CASE SwapVerified BY <1>14 DEF SwapVerified
<1>15. CASE SwapFails BY <1>15 DEF SwapFails
<1>16. CASE CleanMarker BY <1>16 DEF CleanMarker
<1>17. CASE RecoveredForOpen BY <1>17 DEF RecoveredForOpen
<1>18. CASE LibraryUnfinished BY <1>18 DEF LibraryUnfinished
<1>19. CASE OpenRefused BY <1>19 DEF OpenRefused
<1>20. CASE EstablishMarker BY <1>20 DEF EstablishMarker
<1>21. CASE LegacyUnmark BY <1>21 DEF LegacyUnmark
<1>22. CASE LegacyRemove BY <1>22 DEF LegacyRemove
<1>23. CASE LegacyClear BY <1>23 DEF LegacyClear
<1>24. CASE Unlock BY <1>24 DEF Unlock
<1>25. CASE Lock BY <1>25 DEF Lock
<1>26. CASE Cancel BY <1>26 DEF Cancel
<1>27. CASE StartLegacyImport BY <1>27 DEF StartLegacyImport
<1>28. CASE Crash BY <1>28 DEF Crash
<1>. QED BY <1>1, <1>2, <1>3, <1>4, <1>5, <1>6, <1>7, <1>8, <1>9, <1>10, <1>11, <1>12, <1>13, <1>14, <1>15,
          <1>16, <1>17, <1>18, <1>19, <1>20, <1>21, <1>22, <1>23, <1>24, <1>25, <1>26, <1>27, <1>28
    DEF Next, FolderStep, StageStep, RecoverStep, OpenStep, LegacyStep

\* Where the vault's Library is in place, its pictures have left the staging folder.
LEMMA InPlaceMoved ==
    ASSUME IInv, \/ pc \in {"openLib", "recovered"}
                 \/ store # None
    PROVE  vault \notin stArch
  BY DEF IInv, Rest, Types, Order, Session, Control, Complete, library_in_place

\* Pictures moved aside, step by step.
LEMMA AsideStep ==
    ASSUME IInv, Aside, Next
    PROVE  Aside'
<1>0. /\ oldArch \in [Ids -> Maybe] /\ vault \in Maybe /\ cur \in Maybe /\ None \notin Ids
      /\ Ids \subseteq Nat
  BY ConstantsAssumption DEF IInv, Rest, Types, Ids
<1>1. CASE ~FolderStep
  BY <1>1, QuietStep DEF Aside
<1>2. CASE \/ MakeStaging \/ UndoJournal \/ SweepDone \/ CleanTemps \/ CleanJournal \/ PrepareJournal
           \/ JournalStaged \/ NoteCommitted \/ WriteSwapped \/ StartImport \/ SettleNone \/ SettleKeep
  <2>1. UNCHANGED <<vault, pics, stArch, oldArch>>
    BY <1>2 DEF MakeStaging, UndoJournal, SweepDone, CleanTemps, CleanJournal, PrepareJournal, JournalStaged,
                NoteCommitted, WriteSwapped, StartImport, SettleNone, SettleKeep, live, staged
  <2>. QED BY <2>1 DEF Aside
<1>3. CASE UndoFolder
  <2>1. UNCHANGED <<vault, pics, oldArch>> /\ stArch' \subseteq stArch
    BY <1>3 DEF UndoFolder, live, RemoveStaging, RemoveStagingPartly
  <2>. QED BY <2>1 DEF Aside
<1>4. CASE SweepFolder
  <2>1. UNCHANGED <<vault, pics>> /\ stArch' \subseteq stArch
        /\ \A i \in Ids : oldArch'[i] # None => oldArch[i] # None
    BY <1>0, <1>4 DEF SweepFolder, live, staged, RemoveStaging, RemoveStagingPartly
  <2>2. vault \in stArch => vault \in Ids
    BY DEF IInv, Rest, Types
  <2>. QED BY <2>1, <2>2 DEF Aside
<1>5. CASE MakeArchive
  <2>1. UNCHANGED <<vault, pics, oldArch>> /\ stArch' = stArch \cup {job} /\ pc = "build"
    BY <1>5 DEF MakeArchive, live
  <2>2. job # vault
    BY <2>1 DEF IInv, Rest, Control
  <2>. QED BY <2>1, <2>2 DEF Aside
<1>6. CASE MoveLiveAside
  <2>1. oldArch' = [oldArch EXCEPT ![cur] = pics] /\ pics' = None /\ vault' = vault /\ pc = "swap"
        /\ cur \in stArch
    BY <1>6 DEF MoveLiveAside
  <2>2. cur = vault /\ cur \in Ids
    BY <2>1 DEF IInv, Rest, Types, Control
  <2>. QED BY <1>0, <2>1, <2>2 DEF Aside
<1>7. CASE MoveArchiveIn
  <2>1. stArch' = stArch \ {cur} /\ UNCHANGED <<vault, oldArch>> /\ pc = "swap"
    BY <1>7 DEF MoveArchiveIn
  <2>2. cur = vault
    BY <2>1 DEF IInv, Rest, Control
  <2>. QED BY <2>1, <2>2 DEF Aside
<1>8. CASE Install \/ LegacyInstall
  <2>1. UNCHANGED <<pics, stArch, oldArch>> /\ vault' \in {vault, job} /\ pc \in {"install", "legacyInstall"}
    BY <1>8 DEF Install, LegacyInstall, staged
  <2>2. job \in Ids /\ (vault = None \/ vault < job)
    BY <2>1, ConstantsAssumption DEF IInv, Rest, Types, Fresh, Unused, Control, Ids, Maybe
  <2>3. CASE vault' = job
    <3>1. \A i \in Ids : oldArch[i] # None => i < job
      BY <1>0, <2>2 DEF Aside
    <3>2. oldArch[job] = None
      BY <1>0, <2>2, <3>1
    <3>3. \A i \in Ids : oldArch[i] # None => vault' # None /\ i <= vault'
      BY <1>0, <2>2, <2>3, <3>1
    <3>. QED BY <2>1, <2>3, <3>2, <3>3 DEF Aside
  <2>4. CASE vault' = vault
    BY <2>1, <2>4 DEF Aside
  <2>. QED BY <2>1, <2>3, <2>4
<1>9. CASE CreateVault
  <2>1. vault = None /\ UNCHANGED <<pics, stArch, oldArch>> /\ vault' = 0 /\ 0 \in Ids
    BY <1>9, ConstantsAssumption DEF CreateVault, staged, Ids
  <2>. QED BY <2>1 DEF Aside
<1>10. CASE OpenImported \/ OpenLibrary \/ CreateMissing \/ ArchivePage
  <2>1. UNCHANGED <<vault, stArch, oldArch>> /\ (pc \in {"openLib", "recovered"} \/ store # None)
    BY <1>10 DEF OpenImported, OpenLibrary, CreateMissing, ArchivePage, staged
  <2>. QED BY <2>1, InPlaceMoved DEF Aside
<1>. QED BY <1>1, <1>2, <1>3, <1>4, <1>5, <1>6, <1>7, <1>8, <1>9, <1>10 DEF FolderStep

\* Staging folders, journals and what was moved aside, step by step.
LEMMA TidyStep ==
    ASSUME IInv, Tidy, Next
    PROVE  Tidy'
<1>0. /\ oldArch \in [Ids -> Maybe] /\ phase \in [Ids -> Phases] /\ stDir \subseteq Ids /\ whole \subseteq Ids
      /\ None \notin Ids
  BY ConstantsAssumption DEF IInv, Rest, Types, Ids
<1>1. CASE ~FolderStep
  BY <1>1, QuietStep DEF Tidy, NoneAside
<1>2. CASE \/ MakeArchive \/ OpenImported \/ OpenLibrary \/ CreateMissing \/ ArchivePage
           \/ SettleNone \/ SettleKeep \/ MoveArchiveIn
  <2>1. UNCHANGED <<vault, stDir, oldArch, phase, whole>>
        /\ pc' \notin {"undoJournal", "cleanTemps", "cleanJournal"}
    BY <1>2 DEF MakeArchive, OpenImported, OpenLibrary, CreateMissing, ArchivePage, SettleNone, SettleKeep,
                MoveArchiveIn, live, staged, log, hist, Go, remove_journal_temps
  <2>. QED BY <2>1 DEF Tidy, NoneAside
<1>3. CASE MakeStaging
  <2>1. UNCHANGED <<vault, oldArch, phase, whole, pc>> /\ stDir' = stDir \cup {job} /\ pc = "build"
    BY <1>3 DEF MakeStaging, live, log, hist
  <2>2. phase[job] # "none"
    BY <2>1 DEF IInv, Rest, Control
  <2>. QED BY <2>1, <2>2 DEF Tidy, NoneAside
<1>4. CASE UndoFolder
  <2>1. UNCHANGED <<vault, oldArch, phase, whole, cur>> /\ stDir' \subseteq stDir
        /\ pc' \notin {"cleanTemps", "cleanJournal"} /\ (pc' = "undoJournal" => stDir' = stDir \ {cur})
    BY <1>4 DEF UndoFolder, live, log, hist, call, RemoveStaging, RemoveStagingPartly, Go
  <2>. QED BY <2>1 DEF Tidy, NoneAside
<1>5. CASE UndoJournal
  <2>1. /\ UNCHANGED <<vault, oldArch, whole, cur, stDir>> /\ pc = "undoJournal"
        /\ phase' = phase \/ phase' = [phase EXCEPT ![cur] = "none"]
        /\ pc' \in {ret, "unfinished", "failed"}
    BY <1>5 DEF UndoJournal, live, log, hist, call, staged, PutBack, Go
  <2>2. cur # vault /\ ret \in {"settle", "recover", "failed"} /\ cur \notin stDir /\ cur \in Ids
    BY <2>1 DEF IInv, Rest, Types, Control, Tidy, Maybe
  <2>3. \A i \in Ids : i # cur => phase'[i] = phase[i]
    BY <1>0, <2>1, <2>2
  <2>4. \A i \in stDir : phase'[i] # "none"
    BY <1>0, <2>2, <2>3 DEF Tidy
  <2>5. vault \in whole => phase'[vault] = phase[vault]
    BY <1>0, <2>2, <2>3
  <2>. QED BY <2>1, <2>2, <2>4, <2>5 DEF Tidy, NoneAside
<1>6. CASE MoveLiveAside
  <2>1. UNCHANGED <<vault, phase, whole, stDir, pc>> /\ pc = "swap"
    BY <1>6 DEF MoveLiveAside, staged, log, hist
  <2>2. phase[vault] # "none"
    BY <2>1 DEF IInv, Rest, Control
  <2>. QED BY <2>1, <2>2 DEF Tidy
<1>7. CASE SweepFolder
  <2>1. /\ UNCHANGED <<vault, phase, whole>> /\ stDir' \subseteq stDir /\ pc = "sweep"
        /\ \A i \in Ids : oldArch'[i] # None => oldArch[i] # None
    BY <1>0, <1>7 DEF SweepFolder, live, log, hist, staged, RemoveStaging, RemoveStagingPartly
  <2>2. pc' \in {"sweep", "recovered", "recover", "openLib"}
    BY <1>7 DEF SweepFolder, Go, GiveUp
  <2>. QED BY <2>1, <2>2 DEF Tidy, NoneAside
<1>8. CASE SweepDone \/ CleanTemps
  <2>1. UNCHANGED <<vault, oldArch, phase, whole, stDir>> /\ stDir = {} /\ NoneAside
    BY <1>8 DEF SweepDone, CleanTemps, live, log, hist, staged, NoneAside, Tidy
  <2>2. pc' # "undoJournal"
    BY <1>8 DEF SweepDone, CleanTemps, Go, remove_journal_temps, GiveUp
  <2>. QED BY <2>1, <2>2 DEF Tidy, NoneAside
<1>9. CASE CleanJournal
  <2>1. UNCHANGED <<vault, oldArch, whole, stDir>> /\ stDir = {} /\ NoneAside
    BY <1>9 DEF CleanJournal, live, hist, staged, Tidy
  <2>2. pc' # "undoJournal"
    BY <1>9 DEF CleanJournal, Go, GiveUp
  <2>. QED BY <2>1, <2>2 DEF Tidy, NoneAside
<1>10. CASE PrepareJournal \/ JournalStaged \/ NoteCommitted \/ WriteSwapped
  <2>1. /\ UNCHANGED <<vault, oldArch, whole, stDir>>
        /\ pc' \notin {"undoJournal", "cleanTemps", "cleanJournal"}
    BY <1>10 DEF PrepareJournal, JournalStaged, NoteCommitted, WriteSwapped, live, hist, staged, write_journal, Go
  <2>2. \A i \in Ids : phase'[i] = "none" => phase[i] = "none"
    BY <1>0, <1>10 DEF PrepareJournal, JournalStaged, NoteCommitted, WriteSwapped, write_journal, WriteJournal, log
  <2>. QED BY <1>0, <2>1, <2>2 DEF Tidy, NoneAside
<1>11. CASE Install
  <2>1. /\ UNCHANGED <<oldArch, whole, stDir, phase>> /\ vault' \in {vault, job} /\ pc = "install"
        /\ pc' \notin {"undoJournal", "cleanTemps", "cleanJournal"}
    BY <1>11 DEF Install, hist, staged, log, Go
  <2>2. phase[job] # "none"
    BY <2>1 DEF IInv, Rest, Control
  <2>. QED BY <2>1, <2>2 DEF Tidy, NoneAside
<1>12. CASE LegacyInstall
  <2>1. /\ UNCHANGED <<oldArch, whole, stDir, phase>> /\ vault' \in {vault, job} /\ pc = "legacyInstall"
        /\ pc' \notin {"undoJournal", "cleanTemps", "cleanJournal"}
    BY <1>12 DEF LegacyInstall, hist, staged, log, Go
  <2>2. job \notin whole
    BY <2>1 DEF IInv, Rest, Control
  <2>. QED BY <2>1, <2>2 DEF Tidy, NoneAside
<1>13. CASE CreateVault
  <2>1. /\ UNCHANGED <<oldArch, whole, stDir, phase>> /\ vault' = 0
        /\ pc' \notin {"undoJournal", "cleanTemps", "cleanJournal"}
    BY <1>13 DEF CreateVault, hist, staged, log, Go
  <2>2. 0 \notin whole
    BY DEF IInv, Rest, Fresh
  <2>. QED BY <2>1, <2>2 DEF Tidy, NoneAside
<1>14. CASE StartImport
  <2>1. /\ UNCHANGED <<vault, oldArch, stDir, phase>> /\ whole' = whole \cup {next} /\ next <= MaxImport
        /\ pc' = "settle"
    BY <1>14 DEF StartImport, live, staged, log, Go
  <2>2. vault # next
    BY <2>1, ConstantsAssumption DEF IInv, Rest, Types, Fresh, Unused, Ids
  <2>. QED BY <2>1, <2>2 DEF Tidy, NoneAside
<1>. QED BY <1>1, <1>2, <1>3, <1>4, <1>5, <1>6, <1>7, <1>8, <1>9, <1>10, <1>11, <1>12, <1>13, <1>14
    DEF FolderStep

\* The journals are finitely many: at most one for each import.
LEMMA JournalsFinite ==
    /\ IsFiniteSet(Journals) /\ Cardinality(Journals) \in Nat
    /\ IsFiniteSet(Journals') /\ Cardinality(Journals') \in Nat
<1>1. IsFiniteSet(Ids)
  BY FS_Interval, ConstantsAssumption DEF Ids
<1>2. Journals \subseteq Ids /\ Journals' \subseteq Ids
  BY DEF Journals
<1>. QED BY <1>1, <1>2, FS_Subset, FS_CardinalityType

\* The number of journals, step by step.
LEMMA LimitStep ==
    ASSUME IInv, Limit, Next
    PROVE  Limit'
<1>0. /\ phase \in [Ids -> Phases] /\ MaxKept \in Nat
      /\ Cardinality(Journals) \in Nat /\ Cardinality(Journals') \in Nat
  BY JournalsFinite, ConstantsAssumption DEF IInv, Rest, Types
<1>1. ASSUME Journals' \subseteq Journals
      PROVE  Cardinality(Journals') <= Cardinality(Journals)
  BY <1>1, JournalsFinite, FS_Subset
<1>2. ASSUME Journals' \subseteq Journals, pc' # "prepare" \/ pc = "prepare"
      PROVE  Limit'
  BY <1>0, <1>1, <1>2 DEF Limit
<1>3. CASE ~FolderStep
  <2>1. phase' = phase /\ (pc' # "prepare" \/ pc' = pc)
    BY <1>3, QuietStep
  <2>2. Journals' = Journals
    BY <2>1 DEF Journals
  <2>. QED BY <1>2, <2>1, <2>2
<1>4. CASE \/ MakeStaging \/ MakeArchive \/ UndoFolder \/ MoveLiveAside \/ MoveArchiveIn \/ SweepFolder
           \/ SweepDone \/ CleanTemps \/ Install \/ LegacyInstall \/ CreateVault \/ StartImport
           \/ OpenImported \/ OpenLibrary \/ CreateMissing \/ ArchivePage
  <2>1. phase' = phase
    BY <1>4 DEF MakeStaging, MakeArchive, UndoFolder, MoveLiveAside, MoveArchiveIn, SweepFolder, SweepDone,
                CleanTemps, Install, LegacyInstall, CreateVault, StartImport, OpenImported, OpenLibrary,
                CreateMissing, ArchivePage, log
  <2>2. pc' # "prepare" \/ pc' = pc
    BY <1>4 DEF MakeStaging, MakeArchive, UndoFolder, MoveLiveAside, MoveArchiveIn, SweepFolder, SweepDone,
                CleanTemps, Install, LegacyInstall, CreateVault, StartImport, OpenImported, OpenLibrary,
                CreateMissing, ArchivePage, Go, GiveUp, remove_journal_temps
  <2>3. Journals' = Journals
    BY <2>1 DEF Journals
  <2>. QED BY <1>2, <2>2, <2>3
<1>5. CASE UndoJournal \/ CleanJournal
  <2>1. \A i \in Ids : phase[i] = "none" => phase'[i] = "none"
    BY <1>0, <1>5 DEF UndoJournal, CleanJournal, PutBack, DropAll, log
  <2>2. pc' # "prepare"
    <3>1. CASE UndoJournal
      BY <3>1 DEF UndoJournal, Go, IInv, Rest, Control
    <3>2. CASE CleanJournal
      BY <3>2 DEF CleanJournal, Go, GiveUp
    <3>. QED BY <1>5, <3>1, <3>2
  <2>3. Journals' \subseteq Journals
    BY <2>1 DEF Journals
  <2>. QED BY <1>2, <2>2, <2>3
<1>6. CASE JournalStaged \/ NoteCommitted \/ WriteSwapped
  <2>1. PICK i \in {job, cur} : /\ phase[i] # "none"
                                /\ \A k \in Ids : k # i => phase'[k] = phase[k]
    <3>1. CASE JournalStaged
      BY <1>0, <3>1 DEF JournalStaged, write_journal, WriteJournal, log, IInv, Rest, Control
    <3>2. CASE NoteCommitted
      BY <1>0, <3>2 DEF NoteCommitted, write_journal, WriteJournal, log, IInv, Rest, Control
    <3>3. CASE WriteSwapped
      BY <1>0, <3>3 DEF WriteSwapped, write_journal, WriteJournal, log, IInv, Rest, Control
    <3>. QED BY <1>6, <3>1, <3>2, <3>3
  <2>2. Journals' \subseteq Journals
    BY <2>1 DEF Journals
  <2>3. pc' # "prepare"
    BY <1>6 DEF JournalStaged, NoteCommitted, WriteSwapped, write_journal, Go
  <2>. QED BY <1>2, <2>2, <2>3
<1>7. CASE PrepareJournal
  <2>1. pc = "prepare" /\ pc' # "prepare"
    BY <1>7 DEF PrepareJournal, write_journal, Go
  <2>2. \A k \in Ids : k # job => phase'[k] = phase[k]
    BY <1>0, <1>7 DEF PrepareJournal, write_journal, WriteJournal, log
  <2>3. Journals' \subseteq Journals \cup {job}
    BY <2>2 DEF Journals
  <2>4. Cardinality(Journals') <= Cardinality(Journals \cup {job})
    BY <2>3, JournalsFinite, FS_Subset, FS_AddElement
  <2>5. Cardinality(Journals \cup {job}) <= Cardinality(Journals) + 1
    <3>1. \/ Cardinality(Journals \cup {job}) = Cardinality(Journals)
          \/ Cardinality(Journals \cup {job}) = Cardinality(Journals) + 1
      BY JournalsFinite, FS_AddElement, Zenon
    <3>. QED BY <1>0, <3>1
  <2>6. Cardinality(Journals \cup {job}) \in Nat
    BY JournalsFinite, FS_AddElement, FS_CardinalityType
  <2>. QED BY <1>0, <2>1, <2>4, <2>5, <2>6 DEF Limit
<1>8. CASE SettleNone
  <2>1. phase' = phase /\ head = None
    BY <1>8 DEF SettleNone, log
  <2>2. Journals' = {}
    BY <2>1 DEF Journals, IInv, Rest, Chain
  <2>3. Cardinality(Journals') = 0
    BY <2>2, FS_EmptySet
  <2>. QED BY <1>0, <2>3 DEF Limit
<1>9. CASE SettleKeep
  <2>1. phase' = phase /\ (pc' = "prepare" => ~(Cardinality(Journals) > MaxKept))
    BY <1>9 DEF SettleKeep, log, Go
  <2>2. Journals' = Journals
    BY <2>1 DEF Journals
  <2>. QED BY <1>0, <2>1, <2>2 DEF Limit
<1>. QED BY <1>3, <1>4, <1>5, <1>6, <1>7, <1>8, <1>9 DEF FolderStep

\* All three hold in every state.
LEMMA FoldersAlways == Spec => [](IInv /\ Aside /\ Tidy /\ Limit)
<1>1. Init => Aside /\ Tidy
  BY ConstantsAssumption DEF Init, Aside, Tidy, NoneAside, Ids
<1>2. Init => Limit
  <2> HAVE Init
  <2>1. Journals = {}
    BY DEF Init, Journals, Ids
  <2>2. Cardinality(Journals) = 0
    BY <2>1, FS_EmptySet
  <2>. QED BY <2>2, ConstantsAssumption DEF Init, Limit
<1>3. IInv /\ Aside /\ Tidy /\ Limit /\ UNCHANGED vars => Aside' /\ Tidy' /\ Limit'
  BY DEF vars, live, staged, log, data, call, hist, Aside, Tidy, NoneAside, Limit, Journals
<1>4. IInv /\ Aside /\ Tidy /\ Limit /\ [Next]_vars => (IInv /\ Aside /\ Tidy /\ Limit)'
  BY <1>3, InvStep, AsideStep, TidyStep, LimitStep
<1>. QED BY InvInit, <1>1, <1>2, <1>4, PTL DEF Spec

------------------------------------------------------------------------------
(* What follows, for any number of imports, crashes and failures.           *)

\* Every variable keeps its type, and settle keeps the journals within the limit
\* of what one journal file may hold.
THEOREM TypesCorrect == Spec => []TypeOK
<1>1. IInv /\ Limit => TypeOK
  BY DEF IInv, Rest, Limit, TypeOK
<1>. QED BY <1>1, FoldersAlways, PTL

\* finish never meets both a live picture folder and the one it moves aside: the
\* case in which it touches neither and the Library stays shut.
THEOREM MoveNeverBlocked == Spec => []SwapNeverBlocked
<1>1. IInv /\ Aside => SwapNeverBlocked
  BY DEF IInv, Rest, Control, Aside, SwapNeverBlocked, SwapBlocked
<1>. QED BY <1>1, FoldersAlways, PTL

\* Every staging folder is named by a journal still on disk, and the last journal
\* goes only after every folder that pictures were moved to.
THEOREM FoldersAreNamed == Spec => []NoOrphanFolders
<1>1. IInv /\ Tidy => NoOrphanFolders
  BY DEF IInv, Rest, Types, Tidy, NoneAside, Journals, NoOrphanFolders
<1>. QED BY <1>1, FoldersAlways, PTL

\* Once an import's vault is the one on disk, its Library is in place or
\* still completely on disk under a journal that recovery finishes from.
THEOREM NeverLost == Spec => []NothingLost
<1>1. IInv => NothingLost
  BY DEF IInv, Rest, Held, NothingLost
<1>. QED BY <1>1, InvAlways, PTL

\* The attached Library is the complete Library of the vault on disk.
THEOREM AttachedIsOwn == Spec => []AttachedLibrary
<1>1. IInv => AttachedLibrary
  BY DEF IInv, Rest, Session, AttachedLibrary
<1>. QED BY <1>1, InvAlways, PTL

\* open_store, let through by recovery and the marker, finds the vault's own
\* complete Library.
THEOREM OpensOwn == Spec => []OpensOwnLibrary
<1>1. IInv => OpensOwnLibrary
  BY DEF IInv, Rest, Types, Chain, Control, Held, Pending, Complete, library_in_place, OpensOwnLibrary
<1>. QED BY <1>1, InvAlways, PTL

\* Recovery for a vault that a whole-Library import installed never meets a
\* journal it has to leave alone.
THEOREM AlwaysDecides == Spec => []RecoveryDecides
<1>1. IInv => RecoveryDecides
  BY DEF IInv, Rest, Types, Chain, Order, Held, Control, Recovering, Key, RecoveryDecides
<1>. QED BY <1>1, InvAlways, PTL

\* The steps that change the live Library or what the Libraries hold.
LEMMA LibraryStep ==
    ASSUME [Next]_vars
    PROVE  \/ CommitRestore \/ UndoFolder \/ MoveLiveAside \/ MoveArchiveIn \/ MoveLibraryIn
           \/ OpenImported \/ OpenLibrary \/ CreateMissing \/ ArchivePage \/ Install
           \/ CreateVault \/ LegacyInstall \/ LegacyRemove \/ UNCHANGED <<lib, pics, data>>
<1>1. StageStep => CommitRestore \/ UndoFolder \/ UNCHANGED <<lib, pics, data>>
  BY DEF StageStep, SettleNone, SettlePreparing, SettleKeep, PrepareJournal, MakeStaging,
         MakeArchive, CreateLibrary, BuildFails, JournalStaged, UndoJournal, ImportFailed,
         StagedStopped, StagedCommits
<1>2. RecoverStep => \/ Install \/ MoveLiveAside \/ MoveArchiveIn \/ MoveLibraryIn
                      \/ OpenImported \/ UNCHANGED <<lib, pics, data>>
  BY DEF RecoverStep, NoteCommitted, RecoverNone, RecoverUndo, RecoverForeign, RecoverFinish,
         RecoverSwapped, SwapVerified, SwapFails, WriteSwapped, CleanMarker,
         SweepFolder, SweepDone, CleanTemps, CleanJournal, RecoveredForOpen, LibraryUnfinished
<1>3. OpenStep \/ LegacyStep =>
           \/ OpenLibrary \/ CreateMissing \/ LegacyInstall \/ LegacyRemove
           \/ UNCHANGED <<lib, pics, data>>
  BY DEF OpenStep, LegacyStep, OpenRefused, EstablishMarker, LegacyUnmark, LegacyClear
<1>4. UserStep \/ UNCHANGED vars =>
           CreateVault \/ ArchivePage \/ UNCHANGED <<lib, pics, data>>
  BY DEF UserStep, StartImport, Unlock, Lock, Cancel, StartLegacyImport, Crash, vars
<1>5. \/ StageStep \/ RecoverStep \/ OpenStep \/ LegacyStep \/ UserStep
       \/ UNCHANGED vars
  BY DEF Next, UserStep
<1>. QED BY ONLY <1>1, <1>2, <1>3, <1>4, <1>5

\* A step that leaves the vault in place leaves its complete Library in place.
LEMMA KeptStep ==
    IInv /\ [Next]_vars =>
        (vault # None /\ vault' = vault /\ Complete(vault) => Complete(vault)')
<1> SUFFICES ASSUME IInv, [Next]_vars
             PROVE  vault # None /\ vault' = vault /\ Complete(vault) => Complete(vault)'
  OBVIOUS
<1> USE DEF Complete, library_in_place
<1>1. CASE UNCHANGED <<lib, pics, data>>
  BY <1>1
<1>2. CASE CommitRestore
  BY <1>2 DEF CommitRestore, IInv, Rest, Control
<1>3. CASE UndoFolder
  BY <1>3 DEF UndoFolder, IInv, Rest, Control
<1>4. CASE MoveLiveAside
  BY <1>4 DEF MoveLiveAside, IInv, Rest, Types, Order, Control
<1>5. CASE MoveArchiveIn \/ MoveLibraryIn
  BY <1>5 DEF MoveArchiveIn, MoveLibraryIn, IInv, Rest, Control
<1>6. CASE OpenImported
  BY <1>6 DEF OpenImported, Reconciled, IInv, Rest, Control, Recovering
<1>7. CASE OpenLibrary \/ CreateMissing
  BY <1>7 DEF OpenLibrary, CreateMissing, Reconciled, IInv, Rest, Control
<1>8. CASE ArchivePage
  BY <1>8 DEF ArchivePage, IInv, Rest, Session
<1>9. CASE Install \/ CreateVault \/ LegacyInstall
  BY <1>9 DEF Install, CreateVault, LegacyInstall
<1>10. CASE LegacyRemove
  BY <1>10 DEF LegacyRemove, IInv, Rest, Control
<1>11. \/ CommitRestore \/ UndoFolder \/ MoveLiveAside \/ MoveArchiveIn \/ MoveLibraryIn
       \/ OpenImported \/ OpenLibrary \/ CreateMissing \/ ArchivePage \/ Install \/ CreateVault
       \/ LegacyInstall \/ LegacyRemove \/ UNCHANGED <<lib, pics, data>>
  BY LibraryStep
<1>. QED BY ONLY <1>1, <1>2, <1>3, <1>4, <1>5, <1>6, <1>7, <1>8, <1>9, <1>10, <1>11

\* While a vault stays the vault on disk, its complete Library stays in place.
THEOREM LiveKept == Spec => LiveLibraryKept
<1> DEFINE Kept == vault # None /\ vault' = vault /\ Complete(vault) => Complete(vault)'
<1>1. IInv /\ [Next]_vars => Kept
  BY KeptStep
<1>. QED BY <1>1, InvAlways, PTL DEF Spec, LiveLibraryKept

------------------------------------------------------------------------------
(* The refinement: the files implement Profile.                             *)

\* What the owner's Library is, in terms of the inductive invariant.
OwnersLibrary ==
    /\ vault \in whole => vault # None /\ HasLibrary
    /\ vault \notin whole => (HasLibrary <=> vault # None /\ Complete(vault))

\* A whole-Library import's vault has its Library; any other's has it when it is in place.
LEMMA LibraryOfOwner == IInv => OwnersLibrary
<1> SUFFICES ASSUME IInv PROVE OwnersLibrary
  OBVIOUS
<1>1. vault \in whole => vault # None /\ HasLibrary
  BY DEF IInv, Rest, Types, Held, HasLibrary
<1>2. Pending(vault) /\ vault # None => vault \in whole
  BY DEF IInv, Rest, Types, Chain, Pending
<1>. QED BY <1>1, <1>2 DEF HasLibrary, OwnersLibrary

\* A Library that a vault of its own gets afterwards is attached as it is made.
LEMMA MadeAttached ==
    ASSUME IInv, [Next]_vars, vault' = vault, vault # None, vault \notin whole,
           ~Complete(vault), Complete(vault)'
    PROVE  store' # None
<1> USE DEF Complete, library_in_place
<1>1. CASE UNCHANGED <<lib, pics, data>>
  BY <1>1
<1>2. CASE CommitRestore
  BY <1>2 DEF CommitRestore, IInv, Rest, Control
<1>3. CASE UndoFolder
  BY <1>3 DEF UndoFolder, IInv, Rest, Control
<1>4. CASE MoveLiveAside \/ MoveArchiveIn \/ MoveLibraryIn
  BY <1>4 DEF MoveLiveAside, MoveArchiveIn, MoveLibraryIn, IInv, Rest, Types, Chain, Control
<1>5. CASE OpenImported
  BY <1>5 DEF OpenImported, Reconciled, IInv, Rest, Control, Recovering
<1>6. CASE OpenLibrary \/ CreateMissing
  BY <1>6 DEF OpenLibrary, CreateMissing, IInv, Rest, Control
<1>7. CASE ArchivePage
  BY <1>7 DEF ArchivePage, sess
<1>8. CASE Install \/ CreateVault \/ LegacyInstall
  BY <1>8 DEF Install, CreateVault, LegacyInstall
<1>9. CASE LegacyRemove
  BY <1>9 DEF LegacyRemove
<1>10. \/ CommitRestore \/ UndoFolder \/ MoveLiveAside \/ MoveArchiveIn \/ MoveLibraryIn
       \/ OpenImported \/ OpenLibrary \/ CreateMissing \/ ArchivePage \/ Install \/ CreateVault
       \/ LegacyInstall \/ LegacyRemove \/ UNCHANGED <<lib, pics, data>>
  BY LibraryStep
<1>. QED BY ONLY <1>1, <1>2, <1>3, <1>4, <1>5, <1>6, <1>7, <1>8, <1>9, <1>10

\* The steps that change the vault or begin an import.
LEMMA OwnerStep ==
    ASSUME [Next]_vars
    PROVE  \/ UNCHANGED <<vault, whole>> \/ StartImport \/ CreateVault
           \/ (Install \/ LegacyInstall) /\ vault' = job
<1>1. StageStep => UNCHANGED <<vault, whole>>
  BY DEF StageStep, SettleNone, SettlePreparing, SettleKeep, PrepareJournal, MakeStaging,
         MakeArchive, CreateLibrary, CommitRestore, BuildFails, JournalStaged, UndoFolder,
         UndoJournal, ImportFailed, StagedStopped, StagedCommits
<1>2. RecoverStep => Install \/ UNCHANGED <<vault, whole>>
  BY DEF RecoverStep, NoteCommitted, RecoverNone, RecoverUndo, RecoverForeign, RecoverFinish,
         RecoverSwapped, MoveLiveAside, MoveArchiveIn, MoveLibraryIn, SwapVerified, SwapFails,
         WriteSwapped, CleanMarker, SweepFolder, SweepDone, CleanTemps, CleanJournal,
         OpenImported, RecoveredForOpen, LibraryUnfinished
<1>3. OpenStep \/ LegacyStep => LegacyInstall \/ UNCHANGED <<vault, whole>>
  BY DEF OpenStep, LegacyStep, OpenRefused, OpenLibrary, CreateMissing, EstablishMarker,
         LegacyUnmark, LegacyRemove, LegacyClear
<1>4. UserStep \/ UNCHANGED vars =>
          StartImport \/ CreateVault \/ UNCHANGED <<vault, whole>>
  BY DEF UserStep, Unlock, ArchivePage, Lock, Cancel, StartLegacyImport, Crash, vars
<1>5. Install \/ LegacyInstall => vault' = job \/ UNCHANGED <<vault, whole>>
  BY DEF Install, LegacyInstall
<1>6. \/ StageStep \/ RecoverStep \/ OpenStep \/ LegacyStep \/ UserStep
      \/ UNCHANGED vars
  BY DEF Next, UserStep
<1>. QED BY ONLY <1>1, <1>2, <1>3, <1>4, <1>5, <1>6

\* A vault that changes, changes as Profile's Replace.
LEMMA ReplaceStep ==
    ASSUME IInv, IInv', CreateVault \/ ((Install \/ LegacyInstall) /\ vault' = job)
    PROVE  \E i \in Ids : P!Replace(i)
<1> OwnersLibrary'
  BY LibraryOfOwner, PTL
<1>1. CASE CreateVault
  <2>1. 0 \in Ids /\ 0 \notin whole /\ vault # 0 /\ vault' = 0 /\ whole' = whole
    BY <1>1 DEF CreateVault, IInv, Rest, Fresh
  <2>2. store' = None /\ lib' = None
    BY <1>1 DEF CreateVault, IInv, Rest, Order, Session
  <2>3. ~HasLibrary'
    BY <2>1, <2>2 DEF OwnersLibrary, Complete, library_in_place
  <2>4. HasLibrary' = (0 \in whole) /\ (store # None)' = FALSE
    BY <2>1, <2>2, <2>3 DEF HasLibrary
  <2>5. P!Replace(0)
    BY <2>1, <2>4 DEF P!Replace
  <2>. QED BY <2>1, <2>5
<1>2. CASE Install /\ vault' = job
  <2>1. job \in Ids /\ job \in whole /\ vault # job /\ whole' = whole /\ store' = None
    BY <1>2 DEF Install, IInv, Rest, Types, Control
  <2>2. HasLibrary'
    BY <1>2, <2>1 DEF OwnersLibrary
  <2>. QED BY <1>2, <2>1, <2>2 DEF P!Replace
<1>3. CASE LegacyInstall /\ vault' = job
  <2>1. job \in Ids /\ job \notin whole /\ vault # job /\ whole' = whole /\ store' = None
    BY <1>3 DEF LegacyInstall, IInv, Rest, Types, Control
  <2>2. lib' # job
    BY <1>3 DEF LegacyInstall, IInv, Rest, Control, Unused
  <2>3. ~HasLibrary'
    BY <1>3, <2>1, <2>2 DEF OwnersLibrary, Complete, library_in_place
  <2>4. HasLibrary' = (job \in whole) /\ (store # None)' = FALSE
    BY <2>1, <2>3 DEF HasLibrary
  <2>5. P!Replace(job)
    BY <1>3, <2>1, <2>4 DEF P!Replace
  <2>. QED BY <2>1, <2>5
<1>. QED BY <1>1, <1>2, <1>3

\* Every step of the files is a step of Profile or leaves it alone.
LEMMA RefinesStep ==
    IInv /\ IInv' /\ [Next]_vars => [P!Next]_(P!profile)
<1> SUFFICES ASSUME IInv, IInv', [Next]_vars PROVE [P!Next]_(P!profile)
  OBVIOUS
<1>1. CASE UNCHANGED <<vault, whole>>
  <2>1. store # None => HasLibrary
    BY DEF IInv, Rest, Session, HasLibrary
  <2>2. store' # None => vault' # None /\ HasLibrary'
    BY DEF IInv, Rest, Session, HasLibrary
  <2>5. OwnersLibrary /\ OwnersLibrary'
    BY LibraryOfOwner, PTL
  <2>3. HasLibrary => HasLibrary'
    BY <1>1, <2>5, KeptStep DEF OwnersLibrary
  <2>4. HasLibrary' /\ ~HasLibrary => store' # None
    BY <1>1, <2>5, MadeAttached DEF OwnersLibrary
  <2>6. HasLibrary \in BOOLEAN /\ HasLibrary' \in BOOLEAN
    BY DEF HasLibrary
  <2>7. CASE store = None /\ store' # None
    <3>1. HasLibrary' = TRUE /\ (store # None)' = TRUE
      BY <2>2, <2>6, <2>7
    <3>2. P!Open
      BY <1>1, <2>2, <2>7, <3>1 DEF P!Open
    <3>. QED BY <3>2 DEF P!Next
  <2>8. CASE store # None /\ store' = None
    <3>1. HasLibrary' = HasLibrary /\ (store # None)' = FALSE
      BY <2>1, <2>3, <2>6, <2>8
    <3>2. P!Close
      BY <1>1, <2>8, <3>1 DEF P!Close
    <3>. QED BY <3>2 DEF P!Next
  <2>9. CASE (store # None) = (store' # None)
    <3>1. HasLibrary' = HasLibrary
      BY <2>1, <2>3, <2>4, <2>6, <2>9
    <3>. QED BY <1>1, <2>9, <3>1 DEF P!profile
  <2>. QED BY <2>7, <2>8, <2>9
<1>2. CASE StartImport
  <2>1. next \in Ids /\ next \notin whole /\ next # vault
    BY <1>2 DEF StartImport, IInv, Rest, Types, Fresh, Unused
  <2>2. UNCHANGED <<vault, HasLibrary, store>>
    BY <1>2 DEF StartImport, HasLibrary, Complete, Pending, library_in_place
  <2>3. P!Offer(next)
    BY <1>2, <2>1, <2>2 DEF StartImport, P!Offer
  <2>. QED BY <2>1, <2>3 DEF P!Next
<1>3. CASE CreateVault \/ ((Install \/ LegacyInstall) /\ vault' = job)
  BY <1>3, ReplaceStep DEF P!Next
<1>. QED BY <1>1, <1>2, <1>3, OwnerStep

\* Whatever crashes and fails, the vault and the Library of a profile are replaced
\* together or not at all, and only the owner's Library is ever attached.
THEOREM Implements == Spec => ReplacedTogether
<1>1. Init => P!Init
  BY DEF Init, P!Init, HasLibrary, Complete, Pending, library_in_place
<1>2. IInv /\ IInv' /\ [Next]_vars => [P!Next]_(P!profile)
  BY RefinesStep
<1>. QED BY <1>1, <1>2, InvAlways, PTL DEF Spec, ReplacedTogether, P!Spec
==============================================================================
