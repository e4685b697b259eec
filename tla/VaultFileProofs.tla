--------------------------- MODULE VaultFileProofs ---------------------------
(***************************************************************************)
(* What holds of the vault file for any number of processes, entries, keys  *)
(* and copies.  The properties of VaultFile are about the disk; they are    *)
(* kept because of what a process that holds the lock has in memory.  The   *)
(* invariant below says so: which keys can be on disk (Known), which slots  *)
(* a save changes (Changes), that what is acknowledged for this vault is in *)
(* the memory that will replace the file (Loaded), and that the copy of the *)
(* file about to be replaced outlives the pruning (Rotated).                *)
(***************************************************************************)
EXTENDS VaultFile, FiniteSetTheorems, WellFoundedInduction, TLAPS

USE DEF said

Ops    == [kind : Kinds \cup {None}, old : Nat \cup Entries \cup {None}, kept : Nat, late : BOOLEAN]

SavingStates == {"discard", "rotate", "prune", "write"}
InMemory     == {"read", "open", "retire"} \cup SavingStates
Holding      == {"locked"} \cup InMemory
States       == {"idle", "creating"} \cup Holding

\* The operations that make a vault, and all that make a key.
NewKinds == {"create", "migrate", "import"}
KeyKinds == NewKinds \cup {"rekey", "recovery"}

DiskTypes ==
    /\ disk \in Images \cup {None}
    /\ IsFiniteSet(backups) /\ \A b \in backups : b.stamp \in Nat /\ b.img \in Images
    /\ IsFiniteSet(temps) /\ \A t \in temps : t.img \in Images
    /\ acked \subseteq (Nat \ {0}) \X Entries /\ shown \subseteq Nat \X (Nat \ {0})
    /\ next \in Nat \ {0, 1} /\ void \subseteq Nat /\ refused \subseteq Nat \ {0}

ProcTypes ==
    /\ lock \in Procs \cup {None}
    /\ pc \in [Procs -> States]
    /\ mem \in [Procs -> Images \cup {None}]
    /\ op \in [Procs -> Ops]
    /\ lbe \in [Procs -> BOOLEAN]

\* Every key on disk, acknowledged, shown, void or refused is below n.
Known(n) ==
    /\ disk \in Images => disk.master < n /\ disk.pass < n /\ disk.rec < n
    /\ \A b \in backups : b.img.pass < n /\ b.img.rec < n
    /\ \A a \in acked : a[1] < n
    /\ \A s \in shown : s[1] < n
    /\ \A k \in void \cup refused : k < n

\* What was acknowledged for the vault that is there is in it.
CurrentAcked == disk # None => \A e \in Entries : <<disk.master, e>> \in acked => e \in disk.data

\* RecoveryKeyWorks for every key number there is.
ShownWorks == disk # None => \A s \in shown : s[1] = disk.master => s[2] = disk.rec

\* The slots in memory are the file's, but for the one the save is about.
Changes(p) ==
    /\ op[p].kind \in NewKinds =>
           mem[p].master = next - 1 /\ mem[p].pass = next - 1 /\ mem[p].rec \in {0, next - 1}
    /\ op[p].kind \notin NewKinds => disk \in Images /\ mem[p].master = disk.master /\ mem[p].master # 0
    /\ op[p].kind = "migrate" => disk \in Images /\ disk.master = 0
    /\ op[p].kind \in {"add", "delete", "recovery"} => mem[p].pass = disk.pass
    /\ op[p].kind \in {"add", "delete", "rekey"} => mem[p].rec = disk.rec
    /\ op[p].kind = "rekey" => mem[p].pass = next - 1 /\ op[p].old = disk.pass
    /\ op[p].kind = "recovery" => mem[p].rec = next - 1 /\ disk.rec = 0
    /\ op[p].kind \in KeyKinds => Known(next - 1)
    /\ op[p].kind = "add" => op[p].old \in mem[p].data

\* What is in memory can replace the file.
Loaded(p) ==
    /\ mem[p] \in Images
    /\ \A e \in Entries : <<mem[p].master, e>> \in acked => e \in mem[p].data
    /\ pc[p] \in {"read", "open", "retire"} =>
           /\ disk \in Images
           /\ mem[p].master = disk.master /\ mem[p].pass = disk.pass /\ mem[p].rec = disk.rec
    /\ pc[p] \in {"open", "retire"} => mem[p].master # 0
    /\ pc[p] \in SavingStates => op[p].kind \in Kinds /\ Changes(p)
    /\ pc[p] = "discard" => op[p].kind = "import"
    /\ pc[p] = "write" /\ op[p].kind = "import" /\ op[p].kept = 0 => backups = {} /\ temps = {}

\* A copy of the file, and no copy has a later stamp.
NewestIsDisk == \E b \in backups : b.img = disk /\ \A c \in backups : c.stamp <= b.stamp

\* How far the copy of the file about to be replaced has got.
Rotated(p) ==
    /\ pc[p] \in {"rotate", "prune"} => op[p].kind # "import"
    /\ pc[p] = "rotate" => ~op[p].late
    /\ pc[p] = "prune" /\ op[p].late => NewestIsDisk
    /\ (/\ pc[p] = "write" /\ op[p].kind \in Kinds \ {"rekey", "import"}
        /\ ~lbe[p] /\ op[p].late /\ disk # None)
           => \E b \in backups : b.img = disk

Exclusive(p) == pc[p] \in Holding => lock = p

PInv(p) ==
    /\ Exclusive(p)
    /\ pc[p] \in InMemory => Loaded(p) /\ Rotated(p)

DInv == DiskTypes /\ Known(next) /\ AckedOnDisk /\ CurrentAcked /\ RetiredStaysRetired /\ FailedNeverLands /\ ShownWorks

IInv == ProcTypes /\ DInv /\ \A p \in Procs : PInv(p)
------------------------------------------------------------------------------
(* The operators the model is built from.                                   *)

\* Among n + 1 times in a row there is one that none of n copies has, and a
\* first one: the name a copy gets is a number, and the time itself when every
\* copy is older.
LEMMA StampIsFresh ==
    ASSUME NEW t \in Nat, IsFiniteSet(backups), \A b \in backups : b.stamp \in Nat
    PROVE  /\ Stamp(t) \in Nat
           /\ (\A b \in backups : t > b.stamp) => Stamp(t) = t
<1> DEFINE taken == {b.stamp : b \in backups}
           n == Cardinality(backups)
           free == {s \in t..(t + n) : s \notin taken}
<1>1. n \in Nat
  BY FS_CardinalityType
<1>2. free # {}
  <2> SUFFICES ASSUME free = {} PROVE FALSE
    OBVIOUS
  <2>1. t..(t + n) \in SUBSET taken
    OBVIOUS
  <2>2. IsFiniteSet(taken) /\ Cardinality(taken) <= n
    <3>1. [b \in backups |-> b.stamp] \in Surjection(backups, taken)
      BY DEF Surjection
    <3>. QED BY <3>1, FS_Surjection
  <2>3. Cardinality(t..(t + n)) = n + 1
    BY <1>1, FS_Interval
  <2>4. Cardinality(t..(t + n)) <= Cardinality(taken)
    BY <2>1, <2>2, FS_Subset
  <2>5. Cardinality(taken) \in Nat
    BY <2>2, FS_CardinalityType
  <2>. HIDE DEF taken, n
  <2>. QED BY <1>1, <2>2, <2>3, <2>4, <2>5
<1>3. PICK s \in free : \A r \in free : ~(<<r, s>> \in OpToRel(<, Nat))
  <2>1. free \subseteq Nat
    BY <1>1
  <2>. QED BY <1>2, <2>1, NatLessThanWellFounded, WFMin
<1>4. \A r \in t..(s - 1) : r \in taken
  <2> TAKE r \in t..(s - 1)
  <2>1. r \in Nat /\ s \in Nat /\ r < s /\ r \in t..(t + n)
    BY <1>1
  <2>2. <<r, s>> \in OpToRel(<, Nat)
    BY <2>1 DEF OpToRel
  <2>. QED BY <1>3, <2>1, <2>2
<1>5. /\ Stamp(t) \in t..(t + n) /\ Stamp(t) \notin taken
      /\ \A r \in t..(Stamp(t) - 1) : r \in taken
  BY <1>3, <1>4 DEF Stamp
<1>6. ASSUME \A b \in backups : t > b.stamp PROVE Stamp(t) = t
  <2>1. t \notin taken
    BY <1>6
  <2>2. Stamp(t) \in Nat /\ Stamp(t) >= t
    BY <1>1, <1>5
  <2>3. t \notin t..(Stamp(t) - 1)
    BY <1>5, <2>1
  <2>. QED BY <2>2, <2>3
<1>. QED BY <1>1, <1>5, <1>6
------------------------------------------------------------------------------
(* The processes that do not take the step.                                 *)

\* While p holds the lock, or takes it, nobody else has anything to keep.
LEMMA OthersWait ==
    ASSUME ProcTypes, \A q \in Procs : PInv(q), NEW p \in Procs,
           pc[p] \in Holding \/ lock = None,
           \A q \in Procs \ {p} : pc'[q] = pc[q]
    PROVE  \A q \in Procs \ {p} : PInv(q)'
<1> SUFFICES ASSUME NEW q \in Procs \ {p} PROVE pc[q] \notin Holding
  BY DEF PInv, Exclusive, Holding
<1>. QED BY NoneAssumption DEF PInv, Exclusive

\* A step that leaves the files, the keys and the lock of the others alone.
LEMMA OthersStay ==
    ASSUME \A q \in Procs : PInv(q), NEW p \in Procs,
           UNCHANGED <<files, keys, said>>, lock' = lock \/ lock = p,
           \A q \in Procs \ {p} : pc'[q] = pc[q] /\ mem'[q] = mem[q] /\ op'[q] = op[q] /\ lbe'[q] = lbe[q]
    PROVE  \A q \in Procs \ {p} : PInv(q)'
  BY DEF PInv, Exclusive, Loaded, Rotated, Changes, Known, NewestIsDisk, files, keys,
         Holding, InMemory, SavingStates

\* What holds of the disk and its history is about those alone.
LEMMA DiskStays == DInv /\ UNCHANGED <<files, keys, said>> => DInv'
  BY DEF DInv, DiskTypes, Known, AckedOnDisk, OnDisk, CurrentAcked, RetiredStaysRetired, FailedNeverLands, ShownWorks, files, keys
------------------------------------------------------------------------------
(* Every action keeps the invariant.                                        *)

\* Dropping the vault ends what p had to keep.
LEMMA DropInv ==
    ASSUME ProcTypes, NEW p \in Procs, pc' = [pc EXCEPT ![p] = "idle"], Drop(p)
    PROVE  ProcTypes' /\ PInv(p)'
  BY DEF ProcTypes, Drop, PInv, Exclusive, Holding, InMemory, SavingStates, States, Ops, NoOp

\* Looking, locking, reading, unlocking and closing change no file.
OpeningStep(p) ==
    CreateCheck(p) \/ LockBeforeReading(p) \/ UnlockSlots(p) \/ Close(p)

\* They keep the invariant: what a process reads under the lock is the file.
LEMMA OpeningInv ==
    ASSUME IInv, NEW p \in Procs, OpeningStep(p) PROVE IInv'
<1> USE DEF IInv
<1>1. DInv'
  BY DiskStays DEF OpeningStep, CreateCheck, LockBeforeReading, UnlockSlots, Close
<1>2. CASE CreateCheck(p)
  <2>1. ProcTypes' /\ PInv(p)'
    BY <1>2 DEF CreateCheck, At, ProcTypes, PInv, Exclusive, Holding, InMemory, SavingStates, States
  <2>2. \A q \in Procs \ {p} : PInv(q)'
    BY <1>2, OthersStay DEF CreateCheck, At, ProcTypes
  <2>. QED BY <1>1, <2>1, <2>2
<1>3. CASE LockBeforeReading(p)
  <2>1. ProcTypes' /\ Exclusive(p)'
    BY <1>3 DEF LockBeforeReading, At, files, ProcTypes, DInv, DiskTypes, PInv, Exclusive,
                Holding, InMemory, SavingStates, States
  <2>2. ASSUME pc'[p] \in InMemory PROVE Loaded(p)' /\ Rotated(p)'
    <3>1. pc'[p] = "read" /\ disk # None /\ mem'[p] = disk /\ UNCHANGED <<files, keys, said>>
      BY <1>3, <2>2 DEF LockBeforeReading, At, ProcTypes, InMemory, SavingStates
    <3>. QED BY <3>1 DEF Loaded, Rotated, DInv, DiskTypes, AckedOnDisk, OnDisk, CurrentAcked, files, SavingStates
  <2>3. \A q \in Procs \ {p} : PInv(q)'
    BY <1>3, OthersWait DEF LockBeforeReading, At, ProcTypes, Holding
  <2>. QED BY <1>1, <2>1, <2>2, <2>3 DEF PInv
<1>4. CASE UnlockSlots(p)
  <2>1. ProcTypes' /\ PInv(p)'
    <3>1. CASE At(p, "read", "idle") /\ Drop(p)
      BY <3>1, DropInv DEF At
    <3>2. CASE At(p, "read", "open") /\ ~V1(mem[p]) /\ UNCHANGED <<files, lock, mem, op, lbe, keys, said>>
      BY <3>2 DEF At, V1, ProcTypes, PInv, Exclusive, Loaded, Rotated, Holding, InMemory,
                  SavingStates, States, files, keys
    <3>. QED BY <1>4, <3>1, <3>2 DEF UnlockSlots
  <2>2. \A q \in Procs \ {p} : PInv(q)'
    BY <1>4, OthersWait DEF UnlockSlots, At, ProcTypes, Holding, InMemory
  <2>. QED BY <1>1, <2>1, <2>2
<1>5. CASE Close(p)
  <2>1. ProcTypes' /\ PInv(p)'
    BY <1>5, DropInv DEF Close, At
  <2>2. \A q \in Procs \ {p} : PInv(q)'
    BY <1>5, OthersWait DEF Close, At, ProcTypes, Holding, InMemory
  <2>. QED BY <1>1, <2>1, <2>2
<1>. QED BY <1>2, <1>3, <1>4, <1>5 DEF OpeningStep

\* Taking a key number, and asking for a deletion, leave the disk as it is; every
\* key there was is below the new one.
LEMMA NextKey ==
    ASSUME DInv, UNCHANGED <<files, void, refused, shown>>,
           acked' \subseteq acked, overwritten' = overwritten, next' = next \/ next' = next + 1
    PROVE  DInv' /\ (next' = next + 1 => Known(next - 1)')
<1> USE DEF DInv, DiskTypes, files
<1>1. DiskTypes'
  OBVIOUS
<1>2. /\ disk \in Images => disk.master \in Nat /\ disk.pass \in Nat /\ disk.rec \in Nat
      /\ \A b \in backups : b.img.pass \in Nat /\ b.img.rec \in Nat
      /\ \A a \in acked : a[1] \in Nat
      /\ \A s \in shown : s[1] \in Nat
      /\ \A k \in void \cup refused : k \in Nat
  BY DEF Images
<1>3. Known(next)'
  BY <1>2 DEF Known
<1>4. next' = next + 1 => Known(next - 1)'
  BY <1>2 DEF Known
<1>5. (AckedOnDisk /\ CurrentAcked /\ RetiredStaysRetired /\ FailedNeverLands /\ ShownWorks)'
  BY DEF AckedOnDisk, OnDisk, CurrentAcked, RetiredStaysRetired, FailedNeverLands, ShownWorks
<1>. QED BY <1>1, <1>3, <1>4, <1>5

\* The operations that change memory and start a save.
StartingStep(p) ==
    \/ Create(p) \/ UnlockV1AndMigrate(p) \/ Import(p)
    \/ \E e \in Entries : Add(p, e) \/ Delete(p, e)
    \/ ChangePassphrase(p) \/ AddRecovery(p)

\* A new vault: its keys are all the next number, and nothing on disk has it.
LEMMA NewVaultInv ==
    ASSUME IInv, NEW p \in Procs, NEW rec \in {0, next}, NEW data \in SUBSET Entries,
           NEW from \in {"discard", "rotate"}, NEW kind \in NewKinds,
           kind = "import" <=> from = "discard",
           kind = "migrate" => disk \in Images /\ disk.master = 0,
           pc[p] = "read" \/ lock = None,
           lock' = p, next' = next + 1,
           Begin(p, from, kind, None, NewVault(rec, data)),
           UNCHANGED <<files, lbe, void, refused, shown, said>>
    PROVE  IInv'
<1> USE DEF IInv
<1>1. DInv' /\ Known(next - 1)'
  BY NextKey
<1>2. next \in Nat /\ next' - 1 = next /\ NewVault(rec, data) \in Images
  BY DEF DInv, DiskTypes, NewVault, Images
<1>3. ProcTypes'
  BY <1>2 DEF ProcTypes, Begin, NewKinds, Kinds, Ops, States, Holding, InMemory, SavingStates
<1>4. /\ pc'[p] = from /\ mem'[p] = NewVault(rec, data) /\ op'[p].kind = kind /\ ~op'[p].late
  BY DEF ProcTypes, Begin
<1>5. Changes(p)'
  BY <1>1, <1>2, <1>4 DEF Changes, NewVault, NewKinds, files
<1>6. Loaded(p)'
  <2>1. \A e \in Entries : <<mem'[p].master, e>> \notin acked
    <3>1. \A a \in acked : a[1] # next
      BY <1>2 DEF DInv, DiskTypes, Known
    <3>. QED BY <1>4, <3>1 DEF NewVault
  <2>. QED BY <1>2, <1>4, <1>5, <2>1 DEF Loaded, SavingStates, NewKinds, Kinds
<1>7. Rotated(p)'
  BY <1>4 DEF Rotated
<1>8. \A q \in Procs \ {p} : PInv(q)'
  BY OthersWait DEF Begin, ProcTypes, Holding, InMemory
<1>. QED BY <1>1, <1>3, <1>6, <1>7, <1>8 DEF PInv, Exclusive

\* An operation that starts changes memory only, and by its own key or entry.
LEMMA StartingInv ==
    ASSUME IInv, NEW p \in Procs, StartingStep(p) PROVE IInv'
<1> USE DEF IInv
<1>1. CASE Create(p)
  <2>1. CASE lock = None /\ lock' = p
    BY <1>1, <2>1, NewVaultInv DEF Create, NewKinds, At
  <2>2. CASE lock # None
    <3>1. At(p, "creating", "idle") /\ UNCHANGED <<files, lock, mem, op, lbe, keys, said>>
      BY <1>1, <2>2 DEF Create
    <3>2. ProcTypes' /\ PInv(p)'
      BY <3>1 DEF At, ProcTypes, PInv, Exclusive, Holding, InMemory, SavingStates, States
    <3>3. \A q \in Procs \ {p} : PInv(q)'
      BY <3>1, OthersStay DEF At, ProcTypes
    <3>. QED BY <3>1, <3>2, <3>3, DiskStays
  <2>. QED BY <1>1, <2>1, <2>2 DEF Create
<1>2. CASE UnlockV1AndMigrate(p)
  <2>1. lock' = p /\ mem[p].data \in SUBSET Entries /\ disk \in Images /\ disk.master = 0
    BY <1>2 DEF UnlockV1AndMigrate, V1, PInv, Exclusive, Loaded, Images, Holding, InMemory
  <2>. QED BY <1>2, <2>1, NewVaultInv DEF UnlockV1AndMigrate, NewKinds, keys
<1>3. CASE Import(p)
  BY <1>3, NewVaultInv DEF Import, NewKinds
<1>4. ASSUME NEW e \in Entries, Add(p, e) PROVE IInv'
  <2> DEFINE v == [mem[p] EXCEPT !.data = @ \cup {e}]
  <2>1. /\ pc[p] = "open" /\ lock = p /\ UNCHANGED <<files, lock, lbe, keys, said>>
        /\ Begin(p, "rotate", "add", e, v) /\ Loaded(p)
    BY <1>4 DEF Add, PInv, Exclusive, Holding, InMemory
  <2>2. v \in Images /\ v.master = mem[p].master /\ v.pass = mem[p].pass /\ v.rec = mem[p].rec
           /\ v.data = mem[p].data \cup {e}
    BY <2>1 DEF Loaded, Images
  <2>. HIDE DEF v
  <2>3. ProcTypes'
    BY <2>1, <2>2 DEF ProcTypes, Begin, Kinds, Ops, States, Holding, InMemory, SavingStates
  <2>4. pc'[p] = "rotate" /\ mem'[p] = v /\ op'[p].kind = "add" /\ op'[p].old = e /\ ~op'[p].late
    BY <2>1 DEF ProcTypes, Begin
  <2>5. Loaded(p)' /\ Rotated(p)'
    BY <2>1, <2>2, <2>4 DEF Loaded, Rotated, Changes, files, keys, NewKinds, KeyKinds, Kinds, SavingStates
  <2>6. \A q \in Procs \ {p} : PInv(q)'
    BY <2>1, OthersWait DEF Begin, ProcTypes, Holding, InMemory
  <2>. QED BY <2>1, <2>3, <2>4, <2>5, <2>6, DiskStays DEF PInv, Exclusive
<1>5. ASSUME NEW e \in Entries, Delete(p, e) PROVE IInv'
  <2> DEFINE v == [mem[p] EXCEPT !.data = @ \ {e}]
  <2>1. /\ pc[p] = "open" /\ lock = p /\ UNCHANGED <<files, lock, lbe, keys, overwritten>>
        /\ acked' = acked \ {<<mem[p].master, e>>}
        /\ Begin(p, "rotate", "delete", e, v) /\ Loaded(p)
    BY <1>5 DEF Delete, PInv, Exclusive, Holding, InMemory
  <2>2. v \in Images /\ v.master = mem[p].master /\ v.pass = mem[p].pass /\ v.rec = mem[p].rec
           /\ v.data = mem[p].data \ {e}
    BY <2>1 DEF Loaded, Images
  <2>. HIDE DEF v
  <2>3. ProcTypes'
    BY <2>1, <2>2 DEF ProcTypes, Begin, Kinds, Ops, States, Holding, InMemory, SavingStates
  <2>4. pc'[p] = "rotate" /\ mem'[p] = v /\ op'[p].kind = "delete" /\ ~op'[p].late
    BY <2>1 DEF ProcTypes, Begin
  <2>5. Loaded(p)' /\ Rotated(p)'
    BY <2>1, <2>2, <2>4 DEF Loaded, Rotated, Changes, files, keys, NewKinds, KeyKinds, Kinds, SavingStates
  <2>6. \A q \in Procs \ {p} : PInv(q)'
    BY <2>1, OthersWait DEF Begin, ProcTypes, Holding, InMemory
  <2>7. DInv'
    BY <2>1, NextKey DEF keys
  <2>. QED BY <2>1, <2>3, <2>4, <2>5, <2>6, <2>7 DEF PInv, Exclusive
<1>6. CASE ChangePassphrase(p)
  <2> DEFINE v == [mem[p] EXCEPT !.pass = next]
  <2>1. /\ pc[p] = "open" /\ lock = p /\ UNCHANGED <<files, lock, lbe, void, refused, shown, said>>
        /\ next' = next + 1 /\ next \in Nat
        /\ Begin(p, "write", "rekey", mem[p].pass, v) /\ Loaded(p)
    BY <1>6 DEF ChangePassphrase, PInv, Exclusive, Holding, InMemory, DInv, DiskTypes
  <2>2. v \in Images /\ v.master = mem[p].master /\ v.pass = next /\ v.rec = mem[p].rec
           /\ v.data = mem[p].data
    BY <2>1 DEF Loaded, Images
  <2>. HIDE DEF v
  <2>3. DInv' /\ Known(next - 1)' /\ next' - 1 = next
    BY <2>1, NextKey
  <2>4. ProcTypes'
    <3>1. mem[p].pass \in Nat
      BY <2>1 DEF Loaded, Images
    <3>. QED BY <2>1, <2>2, <3>1 DEF ProcTypes, Begin, Kinds, Ops, States, Holding, InMemory, SavingStates
  <2>5. pc'[p] = "write" /\ mem'[p] = v /\ op'[p].kind = "rekey" /\ op'[p].old = mem[p].pass
    BY <2>1 DEF ProcTypes, Begin
  <2>6. Loaded(p)' /\ Rotated(p)'
    BY <2>1, <2>2, <2>3, <2>5 DEF Loaded, Rotated, Changes, files, NewKinds, Kinds, SavingStates
  <2>7. \A q \in Procs \ {p} : PInv(q)'
    BY <2>1, OthersWait DEF Begin, ProcTypes, Holding, InMemory
  <2>. QED BY <2>1, <2>3, <2>4, <2>5, <2>6, <2>7 DEF PInv, Exclusive
<1>7. CASE AddRecovery(p)
  <2> DEFINE v == [mem[p] EXCEPT !.rec = next]
  <2>1. /\ pc[p] = "open" /\ lock = p /\ UNCHANGED <<files, lock, lbe, void, refused, shown, said>>
        /\ next' = next + 1 /\ next \in Nat /\ mem[p].rec = 0
        /\ Begin(p, "rotate", "recovery", None, v) /\ Loaded(p)
    BY <1>7 DEF AddRecovery, PInv, Exclusive, Holding, InMemory, DInv, DiskTypes
  <2>2. v \in Images /\ v.master = mem[p].master /\ v.pass = mem[p].pass /\ v.rec = next
           /\ v.data = mem[p].data
    BY <2>1 DEF Loaded, Images
  <2>. HIDE DEF v
  <2>3. DInv' /\ Known(next - 1)' /\ next' - 1 = next
    BY <2>1, NextKey
  <2>4. ProcTypes'
    BY <2>1, <2>2 DEF ProcTypes, Begin, Kinds, Ops, States, Holding, InMemory, SavingStates
  <2>5. pc'[p] = "rotate" /\ mem'[p] = v /\ op'[p].kind = "recovery" /\ ~op'[p].late
    BY <2>1 DEF ProcTypes, Begin
  <2>6. Loaded(p)' /\ Rotated(p)'
    BY <2>1, <2>2, <2>3, <2>5 DEF Loaded, Rotated, Changes, files, NewKinds, Kinds, SavingStates
  <2>7. \A q \in Procs \ {p} : PInv(q)'
    BY <2>1, OthersWait DEF Begin, ProcTypes, Holding, InMemory
  <2>. QED BY <2>1, <2>3, <2>4, <2>5, <2>6, <2>7 DEF PInv, Exclusive
<1>. QED BY <1>1, <1>2, <1>3, <1>4, <1>5, <1>6, <1>7 DEF StartingStep
------------------------------------------------------------------------------
(* The save.                                                                *)

\* The keys a save writes are the file's or the newest, so none of them was
\* retired or refused.
LEMMA WrittenKeys ==
    ASSUME IInv, NEW p \in Procs, pc[p] \in SavingStates
    PROVE  /\ mem[p] \in Images /\ mem[p].pass \notin void
           /\ {mem[p].pass, mem[p].rec} \cap refused = {}
           /\ mem[p].master < next /\ mem[p].pass < next /\ mem[p].rec < next
<1>1. mem[p] \in Images /\ Changes(p) /\ op[p].kind \in Kinds
  BY DEF IInv, PInv, Loaded, InMemory
<1>2. /\ next \in Nat \ {0, 1} /\ void \subseteq Nat /\ refused \subseteq Nat \ {0}
      /\ disk \in Images => disk.master \in Nat /\ disk.pass \in Nat /\ disk.rec \in Nat
      /\ disk \in Images => disk # None
  BY NoneAssumption DEF IInv, DInv, DiskTypes, Images
<1>3. Known(next) /\ RetiredStaysRetired /\ FailedNeverLands
  BY DEF IInv, DInv
<1>4. CASE op[p].kind \in NewKinds
  BY <1>1, <1>2, <1>4 DEF Changes, Known, KeyKinds
<1>5. CASE op[p].kind = "rekey"
  BY <1>1, <1>2, <1>3, <1>5 DEF Changes, Known, KeyKinds, NewKinds, FailedNeverLands
<1>6. CASE op[p].kind = "recovery"
  BY <1>1, <1>2, <1>3, <1>6 DEF Changes, Known, KeyKinds, NewKinds, FailedNeverLands, RetiredStaysRetired
<1>7. CASE op[p].kind \in {"add", "delete"}
  BY <1>1, <1>2, <1>3, <1>7 DEF Changes, Known, NewKinds, FailedNeverLands, RetiredStaysRetired
<1>. QED BY <1>1, <1>4, <1>5, <1>6, <1>7 DEF Kinds, NewKinds

\* The temporary files are whole or cut images whose passphrase was not retired.
Harmless(ts) == IsFiniteSet(ts) /\ \A t \in ts : t.img \in Images /\ t.img.pass \notin void

\* What a write may leave under a temporary name.
LEMMA DebrisIsHarmless ==
    ASSUME DInv, NEW i \in Images, i.pass \notin void, Debris(i)
    PROVE  Harmless(temps')
<1>1. Harmless(temps)
  BY DEF Harmless, DInv, DiskTypes, RetiredStaysRetired
<1>2. ASSUME NEW c \in Cuts, temps' = temps \cup {[img |-> i, cut |-> c]}
      PROVE  Harmless(temps')
  <2>1. IsFiniteSet(temps')
    BY <1>1, <1>2, FS_AddElement DEF Harmless
  <2>. QED BY <1>1, <1>2, <2>1 DEF Harmless
<1>. QED BY <1>1, <1>2 DEF Debris

\* So is what is left of them when some are removed.
LEMMA FewerIsHarmless ==
    ASSUME DInv, temps' \in SUBSET temps
    PROVE  Harmless(temps')
<1>1. IsFiniteSet(temps')
  BY FS_Subset DEF DInv, DiskTypes
<1>. QED BY <1>1 DEF Harmless, DInv, DiskTypes, RetiredStaysRetired

\* A save that has not reached the file: only its new key is refused.
LEMMA FileStays ==
    ASSUME DInv, disk' = disk, next' = next, void' = void, shown' = shown, UNCHANGED said,
           backups' \in SUBSET backups, Harmless(temps'),
           refused' = refused \/ (refused' = refused \cup {next - 1} /\ Known(next - 1))
    PROVE  DInv' /\ (refused' = refused => \A n \in Nat : Known(n) => Known(n)')
<1> USE DEF DInv
<1>1. next \in Nat \ {0, 1} /\ IsFiniteSet(backups')
  BY FS_Subset DEF DiskTypes
<1>2. DiskTypes'
  <2>1. refused' \subseteq Nat \ {0}
    <3>1. next - 1 \in Nat \ {0} /\ refused \subseteq Nat \ {0}
      BY <1>1 DEF DiskTypes
    <3>. QED BY <3>1
  <2>2. \A b \in backups' : b.stamp \in Nat /\ b.img \in Images
    BY DEF DiskTypes
  <2>. QED BY <1>1, <2>1, <2>2 DEF DiskTypes, Harmless
<1>3. Known(next)'
  BY <1>1 DEF Known
<1>4. (AckedOnDisk /\ CurrentAcked /\ RetiredStaysRetired /\ ShownWorks)'
  BY DEF AckedOnDisk, OnDisk, CurrentAcked, RetiredStaysRetired, ShownWorks, Harmless
<1>5. FailedNeverLands'
  <2>1. ASSUME Known(next - 1)
        PROVE  /\ disk # None => next - 1 \notin {disk.pass, disk.rec}
               /\ \A b \in backups : next - 1 \notin {b.img.pass, b.img.rec}
    BY <1>1, <2>1 DEF Known, DiskTypes, Images
  <2>. QED BY <2>1 DEF FailedNeverLands
<1>6. refused' = refused => \A n \in Nat : Known(n) => Known(n)'
  BY DEF Known
<1>. QED BY <1>2, <1>3, <1>4, <1>5, <1>6

\* A step of the save that leaves memory, the file and the keys alone keeps what
\* the save is about.
LEMMA SaveGoesOn ==
    ASSUME IInv, NEW p \in Procs, pc[p] \in SavingStates, pc'[p] \in SavingStates \ {"discard"},
           UNCHANGED <<disk, mem, next, said>>, op'[p].kind = op[p].kind, op'[p].old = op[p].old,
           Known(next - 1) => Known(next - 1)',
           pc'[p] = "write" /\ op[p].kind = "import" /\ op'[p].kept = 0 => backups' = {} /\ temps' = {}
    PROVE  Loaded(p)'
<1>1. Loaded(p) /\ Changes(p) /\ op[p].kind \in Kinds
  BY DEF IInv, PInv, Loaded, InMemory
<1>2. Changes(p)'
  BY <1>1 DEF Changes
<1>. QED BY <1>1, <1>2 DEF Loaded, SavingStates

\* discard_replaced_vault_leftovers.
LEMMA DiscardInv ==
    ASSUME IInv, NEW p \in Procs, Discard(p) PROVE IInv'
<1> USE DEF IInv
<1>1. pc[p] = "discard" /\ lock = p /\ Loaded(p) /\ op[p].kind = "import"
  BY DEF Discard, PInv, Exclusive, Loaded, Holding, InMemory, SavingStates
<1>2. mem[p] \in Images /\ mem[p].pass \notin void
  BY <1>1, WrittenKeys DEF SavingStates
<1>3. \A q \in Procs \ {p} : PInv(q)'
  <2>1. \A q \in Procs \ {p} : pc'[q] = pc[q]
    BY DEF Discard, ProcTypes
  <2>. QED BY <1>1, <2>1, OthersWait DEF Holding, InMemory, SavingStates
<1>4. backups' \in SUBSET backups /\ temps' \in SUBSET temps /\ UNCHANGED <<disk, next, void, shown, said>>
  BY DEF Discard, keys
<1>5. CASE pc' = [pc EXCEPT ![p] = "write"]
  <2>1. /\ op' = [op EXCEPT ![p].kept = Cardinality(backups') + Cardinality(temps')]
        /\ UNCHANGED <<disk, lock, mem, lbe, keys, said>>
    BY <1>5 DEF Discard, ProcTypes
  <2>2. DInv' /\ \A n \in Nat : Known(n) => Known(n)'
    <3>1. refused' = refused /\ Harmless(temps')
      BY <1>4, <2>1, FewerIsHarmless DEF keys
    <3>. QED BY <1>4, <3>1, FileStays
  <2>3. Cardinality(backups') \in Nat /\ Cardinality(temps') \in Nat
    BY <2>2, FS_CardinalityType DEF DInv, DiskTypes
  <2>4. ProcTypes'
    BY <1>5, <2>1, <2>3 DEF ProcTypes, Ops, States, Holding, InMemory, SavingStates
  <2>5. /\ op'[p].kind = op[p].kind /\ op'[p].old = op[p].old /\ op'[p].late = op[p].late
        /\ op'[p].kept = Cardinality(backups') + Cardinality(temps') /\ pc'[p] = "write"
    BY <1>5, <2>1 DEF ProcTypes, Ops
  <2>6. op'[p].kept = 0 => backups' = {} /\ temps' = {}
    <3>1. op'[p].kept = 0 => Cardinality(backups') = 0 /\ Cardinality(temps') = 0
      BY <2>3, <2>5
    <3>2. IsFiniteSet(backups') /\ IsFiniteSet(temps')
      BY <2>2 DEF DInv, DiskTypes
    <3>. QED BY <3>1, <3>2, FS_EmptySet
  <2>7. Known(next - 1) => Known(next - 1)'
    BY <1>4, <2>2 DEF DInv, DiskTypes
  <2>8. Loaded(p)' /\ Rotated(p)'
    BY <1>1, <1>4, <2>1, <2>5, <2>6, <2>7, SaveGoesOn DEF Rotated, SavingStates
  <2>. QED BY <1>1, <1>3, <2>1, <2>2, <2>4, <2>8 DEF PInv, Exclusive
<1>6. CASE pc' = [pc EXCEPT ![p] = "idle"]
  <2>1. Drop(p) /\ refused' = refused \cup {mem[p].pass}
    BY <1>6 DEF Discard, ProcTypes
  <2>2. mem[p].pass = next - 1 /\ Known(next - 1)
    BY <1>1 DEF Loaded, Changes, NewKinds, KeyKinds, SavingStates
  <2>3. DInv'
    BY <1>4, <2>1, <2>2, FewerIsHarmless, FileStays
  <2>. QED BY <1>3, <1>6, <2>1, <2>3, DropInv
<1>. QED BY <1>5, <1>6 DEF Discard

\* prune_backups keeps the newest copy.
LEMMA PruneKeeps ==
    ASSUME IInv, NEW b \in backups, \A c \in backups : c.stamp <= b.stamp
    PROVE  b \notin PastTheBound
<1>1. {c \in backups : c.stamp > b.stamp} = {}
  BY DEF IInv, DInv, DiskTypes
<1>2. Cardinality({c \in backups : c.stamp > b.stamp}) = 0
  BY <1>1, FS_EmptySet
<1>. QED BY <1>2, BoundsAssumption DEF PastTheBound

\* rotate_backups and prune_backups.
LEMMA RotateInv ==
    ASSUME IInv, NEW p \in Procs, Rotate(p) \/ Prune(p) PROVE IInv'
<1> USE DEF IInv
<1>1. /\ pc[p] \in {"rotate", "prune"} /\ lock = p /\ Loaded(p) /\ Rotated(p)
      /\ UNCHANGED <<disk, lock, mem, keys, said>>
  BY DEF Rotate, Prune, At, PInv, Exclusive, Holding, InMemory, SavingStates, files
<1>2. \A q \in Procs \ {p} : PInv(q)'
  <2>1. \A q \in Procs \ {p} : pc'[q] = pc[q]
    BY DEF Rotate, Prune, At, ProcTypes
  <2>. QED BY <1>1, <2>1, OthersWait DEF Holding, InMemory, SavingStates
<1>3. mem[p] \in Images /\ mem[p].pass \notin void
  BY <1>1, WrittenKeys DEF SavingStates
<1>4. refused' = refused /\ next - 1 \in Nat /\ next' = next
  BY <1>1 DEF keys, DInv, DiskTypes
<1>5. CASE disk = None /\ At(p, "rotate", "write") /\ UNCHANGED <<files, op>> /\ lbe' = [lbe EXCEPT ![p] = FALSE]
  <2>1. DInv'
    BY <1>1, <1>5, DiskStays
  <2>2. ProcTypes'
    BY <1>1, <1>5 DEF At, ProcTypes, States, Holding, InMemory, SavingStates
  <2>3. pc'[p] = "write" /\ (Known(next - 1) => Known(next - 1)')
    BY <1>1, <1>5 DEF At, ProcTypes, Known, files, keys
  <2>4. Loaded(p)' /\ Rotated(p)'
    BY <1>1, <1>4, <1>5, <2>3, SaveGoesOn DEF Rotated, SavingStates
  <2>. QED BY <1>1, <1>2, <2>1, <2>2, <2>4 DEF PInv, Exclusive
<1>6. ASSUME NEW t \in 1..MaxClock, disk # None, At(p, "rotate", "prune"),
             backups' = backups \cup {[stamp |-> Stamp(t), img |-> disk]},
             op' = [op EXCEPT ![p].late = \A b \in backups : t > b.stamp],
             UNCHANGED <<temps, lbe>>
      PROVE  IInv'
  <2> DEFINE new == [stamp |-> Stamp(t), img |-> disk]
  <2>1. /\ t \in Nat /\ disk \in Images
        /\ Stamp(t) \in Nat /\ ((\A b \in backups : t > b.stamp) => Stamp(t) = t)
    BY <1>6, BoundsAssumption, StampIsFresh DEF DInv, DiskTypes
  <2>2. new.stamp = Stamp(t) /\ new.img = disk /\ backups' = backups \cup {new}
    BY <1>6
  <2>. HIDE DEF new
  <2>3. DInv'
    <3>1. IsFiniteSet(backups')
      BY <2>2, FS_AddElement DEF DInv, DiskTypes
    <3>2. DiskTypes'
      BY <1>1, <1>6, <2>1, <2>2, <3>1 DEF DInv, DiskTypes, keys
    <3>3. Known(next)'
      BY <1>1, <2>1, <2>2 DEF DInv, Known, keys
    <3>4. (AckedOnDisk /\ CurrentAcked /\ RetiredStaysRetired /\ FailedNeverLands /\ ShownWorks)'
      BY <1>1, <1>6, <2>2 DEF DInv, AckedOnDisk, OnDisk, CurrentAcked, RetiredStaysRetired, FailedNeverLands, ShownWorks, keys
    <3>. QED BY <3>2, <3>3, <3>4 DEF DInv
  <2>4. ProcTypes'
    <3>1. op' \in [Procs -> Ops]
      <4> DEFINE late == \A b \in backups : t > b.stamp
      <4>1. late \in BOOLEAN /\ op' = [op EXCEPT ![p].late = late]
        BY <1>6
      <4>. HIDE DEF late
      <4>. QED BY <4>1 DEF ProcTypes, Ops
    <3>. QED BY <1>1, <1>6, <3>1 DEF At, ProcTypes, States, Holding, InMemory, SavingStates
  <2>5. /\ pc'[p] = "prune" /\ op'[p].kind = op[p].kind /\ op'[p].old = op[p].old
        /\ op'[p].late = (\A b \in backups : t > b.stamp)
    BY <1>6 DEF At, ProcTypes, Ops
  <2>6. Known(next - 1) => Known(next - 1)'
    BY <1>1, <1>4, <2>1, <2>2 DEF Known, keys
  <2>7. Loaded(p)'
    BY <1>1, <1>4, <2>5, <2>6, SaveGoesOn DEF SavingStates
  <2>8. Rotated(p)'
    <3>1. op'[p].late => NewestIsDisk'
      <4> SUFFICES ASSUME \A b \in backups : t > b.stamp PROVE NewestIsDisk'
        BY <2>5
      <4>1. \A c \in backups' : c.stamp <= new.stamp
        BY <2>1, <2>2 DEF DInv, DiskTypes
      <4>. QED BY <1>1, <2>2, <4>1 DEF NewestIsDisk
    <3>2. op[p].kind # "import"
      BY <1>1 DEF Rotated
    <3>. QED BY <2>5, <3>1, <3>2 DEF Rotated
  <2>. QED BY <1>1, <1>2, <2>3, <2>4, <2>7, <2>8 DEF PInv, Exclusive
<1>7. CASE disk # None /\ At(p, "rotate", "write") /\ UNCHANGED <<backups, op>> /\ lbe' = [lbe EXCEPT ![p] = TRUE] /\ Debris(disk)
  <2>1. disk \in Images /\ disk.pass \notin void /\ UNCHANGED <<disk, next, void, shown, said>>
    BY <1>1, <1>7 DEF DInv, DiskTypes, RetiredStaysRetired, keys
  <2>2. DInv' /\ (Known(next - 1) => Known(next - 1)')
    <3>1. Harmless(temps')
      BY <1>7, <2>1, DebrisIsHarmless
    <3>. QED BY <1>4, <1>7, <2>1, <3>1, FileStays
  <2>3. ProcTypes' /\ pc'[p] = "write" /\ lbe'[p]
    BY <1>1, <1>7 DEF At, ProcTypes, States, Holding, InMemory, SavingStates
  <2>4. op[p].kind # "import"
    BY <1>1 DEF Rotated
  <2>5. Loaded(p)' /\ Rotated(p)'
    BY <1>1, <1>4, <1>7, <2>2, <2>3, <2>4, SaveGoesOn DEF Rotated, SavingStates
  <2>. QED BY <1>1, <1>2, <2>2, <2>3, <2>5 DEF PInv, Exclusive
<1>8. CASE Prune(p)
  <2>1. PICK gone \in SUBSET PastTheBound : backups' = backups \ gone /\ \E e \in BOOLEAN : lbe' = [lbe EXCEPT ![p] = e]
    BY <1>8 DEF Prune
  <2>2. backups' \in SUBSET backups /\ UNCHANGED <<temps, op>> /\ At(p, "prune", "write")
    BY <1>8, <2>1 DEF Prune
  <2>3. DInv' /\ (Known(next - 1) => Known(next - 1)')
    <3>1. UNCHANGED <<next, void, shown>>
      BY <1>1 DEF keys
    <3>2. Harmless(temps')
      BY <2>2, FewerIsHarmless
    <3>. QED BY <1>1, <1>4, <2>2, <3>1, <3>2, FileStays
  <2>4. ProcTypes' /\ pc'[p] = "write"
    BY <1>1, <2>1, <2>2 DEF At, ProcTypes, States, Holding, InMemory, SavingStates
  <2>5. op[p].kind # "import" /\ (op[p].late => NewestIsDisk)
    BY <1>1, <2>2 DEF Rotated, At
  <2>6. Loaded(p)'
    BY <1>1, <1>4, <2>2, <2>3, <2>4, <2>5, SaveGoesOn DEF SavingStates
  <2>7. op[p].late => \E b \in backups' : b.img = disk
    BY <2>1, <2>5, PruneKeeps DEF NewestIsDisk
  <2>. QED BY <1>1, <1>2, <2>2, <2>3, <2>4, <2>5, <2>6, <2>7 DEF PInv, Exclusive, Rotated
<1>. QED BY <1>1, <1>5, <1>6, <1>7, <1>8 DEF Rotate

\* atomic_write_with succeeds: memory becomes the file.
LEMMA SavedInv ==
    ASSUME IInv, NEW p \in Procs, Saved(p) PROVE IInv'
<1> USE DEF IInv
<1>1. /\ pc[p] = "write" /\ lock = p /\ Loaded(p) /\ Changes(p) /\ op[p].kind \in Kinds
      /\ disk' = mem[p] /\ UNCHANGED <<backups, temps, lock, mem, lbe, next, refused>>
  BY DEF Saved, PInv, Exclusive, Loaded, Holding, InMemory, SavingStates
<1>2. /\ mem[p] \in Images /\ mem[p].pass \notin void
      /\ {mem[p].pass, mem[p].rec} \cap refused = {}
      /\ mem[p].master < next /\ mem[p].pass < next /\ mem[p].rec < next
  BY <1>1, WrittenKeys DEF SavingStates
<1>3. /\ next \in Nat \ {0, 1}
      /\ mem[p].master \in Nat /\ mem[p].pass \in Nat /\ mem[p].rec \in Nat /\ mem[p].data \subseteq Entries
  BY <1>2 DEF DInv, DiskTypes, Images
<1>4. \/ acked' \in SUBSET acked
      \/ op[p].kind = "add" /\ acked' = acked \cup {<<mem[p].master, op[p].old>>}
  <2>1. CASE op[p].kind = "rekey"
    BY <2>1 DEF Saved
  <2>2. CASE op[p].kind = "add"
    BY <2>2 DEF Saved
  <2>3. CASE op[p].kind = "import"
    BY <2>3 DEF Saved
  <2>4. CASE op[p].kind \notin {"rekey", "add", "import"}
    BY <2>4 DEF Saved
  <2>. QED BY <2>1, <2>2, <2>3, <2>4
<1>5. shown' = shown \/ (/\ op[p].kind \in NewKinds \cup {"recovery"} /\ mem[p].rec # 0
                         /\ shown' = shown \cup {<<mem[p].master, mem[p].rec>>})
  BY DEF Saved, NewKinds
<1>6. void' = void \/ (/\ void' = (1..(next - 1)) \ {mem[p].pass}
                       /\ backups = {} /\ temps = {})
  BY <1>1 DEF Saved, Loaded
<1>7. op[p].kind = "add" => op[p].old \in mem[p].data
  BY <1>1 DEF Changes
<1>8. DiskTypes'
  <2>1. acked' \subseteq (Nat \ {0}) \X Entries
    <3>1. op[p].kind = "add" => mem[p].master # 0
      BY <1>1 DEF Changes, NewKinds
    <3>. QED BY <1>3, <1>4, <1>7, <3>1 DEF DInv, DiskTypes
  <2>2. shown' \subseteq Nat \X (Nat \ {0})
    BY <1>3, <1>5 DEF DInv, DiskTypes
  <2>3. void' \subseteq Nat
    <3>1. 1..(next - 1) \subseteq Nat /\ void \subseteq Nat
      BY <1>3 DEF DInv, DiskTypes
    <3>. QED BY <1>6, <3>1
  <2>. QED BY <1>1, <1>2, <2>1, <2>2, <2>3 DEF DInv, DiskTypes
<1>9. Known(next)'
  <2>1. \A k \in void' : k < next
    BY <1>3, <1>6 DEF DInv, Known
  <2>. QED BY <1>1, <1>2, <1>4, <1>5, <2>1 DEF DInv, Known
<1>10. \A e \in Entries : <<mem[p].master, e>> \in acked' => e \in mem[p].data
  BY <1>1, <1>4, <1>7 DEF Loaded
<1>11. RetiredStaysRetired'
  BY <1>1, <1>2, <1>6 DEF DInv, RetiredStaysRetired
<1>12. FailedNeverLands'
  BY <1>1, <1>2 DEF DInv, FailedNeverLands
<1>13. ShownWorks'
  <2> SUFFICES ASSUME NEW s \in shown, s[1] = mem[p].master PROVE s[2] = mem[p].rec
    BY <1>1, <1>5 DEF ShownWorks
  <2>1. s[1] \in Nat /\ s[2] \in Nat \ {0}
    BY DEF DInv, DiskTypes
  <2>2. op[p].kind \notin NewKinds
    BY <1>1, <1>3, <2>1 DEF Changes, KeyKinds, Known
  <2>3. disk \in Images /\ disk # None /\ s[1] = disk.master
    BY <1>1, <2>2, NoneAssumption DEF Changes
  <2>4. s[2] = disk.rec
    BY <2>3 DEF DInv, ShownWorks
  <2>. QED BY <1>1, <2>1, <2>2, <2>4 DEF Changes, Kinds, NewKinds
<1>14. AckedOnDisk'
  <2> SUFFICES ASSUME NEW a \in acked', a[1] \notin overwritten'
               PROVE  mem[p].master = a[1] /\ a[2] \in mem[p].data
    BY <1>1, <1>2, NoneAssumption DEF AckedOnDisk, OnDisk
  <2>1. overwritten \subseteq overwritten'
    BY DEF Saved
  <2>2. CASE a \notin acked
    BY <1>4, <1>7, <2>2
  <2>3. CASE a \in acked
    <3>1. disk # None /\ disk.master = a[1] /\ a[1] \in Nat \ {0} /\ a[2] \in Entries
          /\ a = <<a[1], a[2]>>
      BY <2>1, <2>3 DEF DInv, DiskTypes, AckedOnDisk, OnDisk
    <3>2. op[p].kind # "create"
      BY <3>1 DEF Saved
    <3>3. op[p].kind # "import"
      BY <3>1 DEF Saved
    <3>4. op[p].kind # "migrate"
      BY <1>1, <3>1 DEF Changes
    <3>5. mem[p].master = a[1]
      BY <1>1, <3>1, <3>2, <3>3, <3>4 DEF Changes, NewKinds
    <3>. QED BY <1>10, <3>1, <3>5
  <2>. QED BY <2>2, <2>3
<1>15. CurrentAcked' /\ mem[p].master # 0
  <2>1. mem[p].master # 0
    BY <1>1, <1>3 DEF Changes
  <2>. QED BY <1>1, <1>10, <2>1 DEF CurrentAcked
<1>16. DInv'
  BY <1>1, <1>8, <1>9, <1>11, <1>12, <1>13, <1>14, <1>15 DEF DInv
<1>17. ProcTypes' /\ pc'[p] \in {"open", "retire"}
  <2>1. CASE op[p].kind = "rekey"
    <3>1. pc' = [pc EXCEPT ![p] = "retire"] /\ op' = op
      BY <2>1 DEF Saved
    <3>. QED BY <1>1, <3>1 DEF ProcTypes, States, Holding, InMemory
  <2>2. CASE op[p].kind # "rekey"
    <3>1. pc' = [pc EXCEPT ![p] = "open"] /\ op' = [op EXCEPT ![p] = NoOp]
      BY <2>2 DEF Saved
    <3>. QED BY <1>1, <3>1 DEF ProcTypes, NoOp, Ops, States, Holding, InMemory
  <2>. QED BY <2>1, <2>2
<1>18. Loaded(p)' /\ Rotated(p)'
  BY <1>1, <1>2, <1>10, <1>17, <1>15 DEF Loaded, Rotated, SavingStates
<1>19. \A q \in Procs \ {p} : PInv(q)'
  <2>1. \A q \in Procs \ {p} : pc'[q] = pc[q]
    BY DEF Saved, ProcTypes
  <2>. QED BY <1>1, <2>1, OthersWait DEF Holding, InMemory, SavingStates
<1>. QED BY <1>1, <1>17, <1>18, <1>19, <1>16 DEF PInv, Exclusive

\* atomic_write_with fails: the slot operations take their slot back.
LEMMA SaveFailsInv ==
    ASSUME IInv, NEW p \in Procs, SaveFails(p) PROVE IInv'
<1> USE DEF IInv
<1>1. /\ pc[p] = "write" /\ lock = p /\ Loaded(p) /\ Changes(p) /\ op[p].kind \in Kinds
      /\ UNCHANGED <<disk, backups, next, void, shown, said>>
  BY DEF SaveFails, PInv, Exclusive, Loaded, Holding, InMemory, SavingStates
<1>2. mem[p] \in Images /\ mem[p].pass \notin void
  BY <1>1, WrittenKeys DEF SavingStates
<1>3. DInv'
  <2>1. Harmless(temps')
    BY <1>2, DebrisIsHarmless DEF SaveFails
  <2>2. refused' = refused \cup KeyOf(p)
    BY DEF SaveFails
  <2>3. KeyOf(p) = {} \/ (KeyOf(p) = {next - 1} /\ Known(next - 1))
    BY <1>1 DEF KeyOf, Changes, Kinds, NewKinds, KeyKinds
  <2>. QED BY <1>1, <2>1, <2>2, <2>3, FileStays
<1>4. \A q \in Procs \ {p} : PInv(q)'
  <2>1. \A q \in Procs \ {p} : pc'[q] = pc[q]
    BY DEF SaveFails, ProcTypes
  <2>. QED BY <1>1, <2>1, OthersWait DEF Holding, InMemory, SavingStates
<1>5. CASE op[p].kind \in NewKinds
  <2>1. pc' = [pc EXCEPT ![p] = "idle"] /\ Drop(p)
    BY <1>5 DEF SaveFails, NewKinds
  <2>. QED BY <1>3, <1>4, <2>1, DropInv
<1>6. CASE op[p].kind \notin NewKinds
  <2> DEFINE v == RolledBack(p)
  <2>1. /\ pc' = [pc EXCEPT ![p] = "open"] /\ mem' = [mem EXCEPT ![p] = v]
        /\ op' = [op EXCEPT ![p] = NoOp] /\ UNCHANGED <<lock, lbe>>
    BY <1>6 DEF SaveFails, NewKinds
  <2>2. disk \in Images
    BY <1>1, <1>6 DEF Changes
  <2>3. disk.pass \in Nat /\ disk.rec \in Nat
    BY <2>2 DEF Images
  <2>4. v \in Images /\ v.master = mem[p].master /\ v.data = mem[p].data /\ v.pass = disk.pass /\ v.rec = disk.rec
    <3>1. CASE op[p].kind = "rekey"
      <4>1. v = [mem[p] EXCEPT !.pass = disk.pass]
        BY <1>1, <3>1 DEF RolledBack, Changes
      <4>. QED BY <1>1, <1>2, <2>3, <3>1, <4>1 DEF Changes, Images
    <3>2. CASE op[p].kind = "recovery"
      <4>1. v = [mem[p] EXCEPT !.rec = 0]
        BY <3>2 DEF RolledBack
      <4>. QED BY <1>1, <1>2, <3>2, <4>1 DEF Changes, Images
    <3>3. CASE op[p].kind \in {"add", "delete"}
      BY <1>1, <1>2, <3>3 DEF RolledBack, Changes
    <3>. QED BY <1>1, <1>6, <3>1, <3>2, <3>3 DEF Kinds, NewKinds
  <2>. HIDE DEF v
  <2>5. ProcTypes' /\ pc'[p] = "open" /\ mem'[p] = v
    BY <2>1, <2>4 DEF ProcTypes, NoOp, Ops, States, Holding, InMemory, SavingStates
  <2>6. Loaded(p)' /\ Rotated(p)'
    BY <1>1, <1>6, <2>2, <2>4, <2>5 DEF Loaded, Rotated, Changes, SavingStates
  <2>. QED BY <1>1, <1>3, <1>4, <2>1, <2>5, <2>6 DEF PInv, Exclusive
<1>. QED BY <1>5, <1>6

\* retire_backups.
LEMMA RetireInv ==
    ASSUME IInv, NEW p \in Procs, RetireBackups(p) PROVE IInv'
<1> USE DEF IInv
<1>1. /\ pc[p] = "retire" /\ lock = p /\ Loaded(p) /\ pc' = [pc EXCEPT ![p] = "open"]
      /\ op' = [op EXCEPT ![p] = NoOp] /\ lbe' \in {lbe, [lbe EXCEPT ![p] = FALSE]}
      /\ UNCHANGED <<disk, lock, mem, next, refused, shown, said>>
  BY DEF RetireBackups, At, PInv, Exclusive, Holding, InMemory
<1>2. backups' \in SUBSET backups /\ temps' \in SUBSET temps
  BY DEF RetireBackups
<1>3. disk \in Images /\ mem[p].pass = disk.pass
  BY <1>1 DEF Loaded
<1>4. void' = void \/ (backups' = {} /\ temps' = {} /\ void' = (1..(next - 1)) \ {disk.pass})
  BY <1>3 DEF RetireBackups
<1>5. next \in Nat \ {0, 1} /\ IsFiniteSet(backups') /\ IsFiniteSet(temps')
  BY <1>2, FS_Subset DEF DInv, DiskTypes
<1>6. DInv'
  <2>1. DiskTypes'
    <3>1. 1..(next - 1) \subseteq Nat /\ void \subseteq Nat
      BY <1>5 DEF DInv, DiskTypes
    <3>2. void' \subseteq Nat
      BY <1>4, <3>1
    <3>. QED BY <1>1, <1>2, <1>5, <3>2 DEF DInv, DiskTypes
  <2>2. Known(next)'
    <3>1. \A k \in void' : k < next
      BY <1>4, <1>5 DEF DInv, Known
    <3>. QED BY <1>1, <1>2, <3>1 DEF DInv, Known
  <2>3. RetiredStaysRetired'
    BY <1>1, <1>2, <1>4 DEF DInv, RetiredStaysRetired
  <2>4. (AckedOnDisk /\ CurrentAcked /\ FailedNeverLands /\ ShownWorks)'
    BY <1>1, <1>2 DEF DInv, AckedOnDisk, OnDisk, CurrentAcked, FailedNeverLands, ShownWorks
  <2>. QED BY <2>1, <2>2, <2>3, <2>4 DEF DInv
<1>7. ProcTypes' /\ pc'[p] = "open"
  BY <1>1 DEF ProcTypes, NoOp, Ops, States, Holding, InMemory, SavingStates
<1>8. Loaded(p)' /\ Rotated(p)'
  BY <1>1, <1>7 DEF Loaded, Rotated, SavingStates
<1>9. \A q \in Procs \ {p} : PInv(q)'
  BY <1>1, OthersWait DEF ProcTypes, Holding, InMemory
<1>. QED BY <1>1, <1>6, <1>7, <1>8, <1>9 DEF PInv, Exclusive

\* A process dies anywhere.
LEMMA CrashInv ==
    ASSUME IInv, NEW p \in Procs, Crash(p) PROVE IInv'
<1> USE DEF IInv
<1>1. pc' = [pc EXCEPT ![p] = "idle"] /\ Drop(p) /\ UNCHANGED <<disk, backups, keys, said>>
  BY DEF Crash
<1>2. ProcTypes' /\ PInv(p)'
  BY <1>1, DropInv
<1>3. CASE pc[p] \in SavingStates
  <2>1. Harmless(temps')
    <3>1. CASE pc[p] = "rotate" /\ disk # None
      <4>1. Debris(disk)
        BY <3>1 DEF Crash
      <4>2. disk \in Images /\ disk.pass \notin void
        BY <3>1 DEF DInv, DiskTypes, RetiredStaysRetired
      <4>. QED BY <4>1, <4>2, DebrisIsHarmless
    <3>2. CASE pc[p] = "write"
      <4>1. Debris(mem[p])
        BY <3>2 DEF Crash
      <4>. QED BY <1>3, <4>1, WrittenKeys, DebrisIsHarmless
    <3>3. CASE temps' = temps
      BY <3>3, FewerIsHarmless
    <3>. QED BY <3>1, <3>2, <3>3 DEF Crash
  <2>2. DInv'
    BY <1>1, <2>1, FileStays DEF keys
  <2>3. \A q \in Procs \ {p} : PInv(q)'
    BY <1>1, <1>3, OthersWait DEF ProcTypes, Holding, InMemory
  <2>. QED BY <1>2, <2>2, <2>3
<1>4. CASE pc[p] \notin SavingStates
  <2>1. temps' = temps
    BY <1>4 DEF Crash, SavingStates
  <2>2. DInv'
    BY <1>1, <2>1, DiskStays DEF files
  <2>3. \A q \in Procs \ {p} : PInv(q)'
    BY <1>1, <2>1, OthersStay DEF Drop, ProcTypes, files
  <2>. QED BY <1>2, <2>2, <2>3
<1>. QED BY <1>3, <1>4

------------------------------------------------------------------------------
(* The theorems.                                                            *)

\* A new profile, a vault of either version, with or without a recovery slot.
LEMMA InitInv == Init => IInv
<1> SUFFICES ASSUME Init PROVE IInv
  OBVIOUS
<1>1. disk \in Images \cup {None}
  BY DEF Init, Images
<1>2. disk # None => disk.master \in {0, 1} /\ disk.pass = 1 /\ disk.rec \in {0, 1}
  BY DEF Init
<1>3. DiskTypes
  <2>1. shown \subseteq Nat \X (Nat \ {0})
    BY <1>2 DEF Init
  <2>. QED BY <1>1, <2>1, FS_EmptySet DEF Init, DiskTypes
<1>4. Known(next)
  BY <1>1, <1>2, NoneAssumption DEF Init, Known
<1>5. AckedOnDisk /\ CurrentAcked /\ RetiredStaysRetired /\ FailedNeverLands /\ ShownWorks
  BY <1>2 DEF Init, AckedOnDisk, OnDisk, CurrentAcked, RetiredStaysRetired, FailedNeverLands, ShownWorks
<1>6. ProcTypes
  BY DEF Init, ProcTypes, NoOp, Ops, States
<1>7. \A p \in Procs : PInv(p)
  BY DEF Init, PInv, Exclusive, Holding, InMemory, SavingStates
<1>. QED BY <1>3, <1>4, <1>5, <1>6, <1>7 DEF IInv, DInv

\* Every step of every process, and its death, keeps the invariant.
LEMMA NextInv == IInv /\ [Next]_vars => IInv'
<1> SUFFICES ASSUME IInv, [Next]_vars PROVE IInv'
  OBVIOUS
<1>1. ASSUME NEW p \in Procs, Step(p) PROVE IInv'
  BY <1>1, OpeningInv, StartingInv, DiscardInv, RotateInv, SavedInv, SaveFailsInv, RetireInv, CrashInv
     DEF Step, OpeningStep, StartingStep
<1>2. CASE UNCHANGED vars
  <2>1. UNCHANGED <<files, lock, pc, mem, op, lbe, keys, said>>
    BY <1>2 DEF vars
  <2>2. DInv' /\ ProcTypes'
    BY <2>1, DiskStays DEF IInv, ProcTypes
  <2>3. \A q \in Procs : PInv(q)'
    BY <2>1 DEF IInv, PInv, Exclusive, Loaded, Rotated, Changes, Known, NewestIsDisk, files, keys
  <2>. QED BY <2>2, <2>3 DEF IInv
<1>. QED BY <1>1, <1>2 DEF Next

\* The inductive invariant: exclusive use of the file, what each save may
\* change, and everything below.
THEOREM Inductive == Spec => []IInv
  BY InitInv, NextInv, PTL DEF Spec

\* An entry whose add returned Ok is in the file until its deletion, or an import in
\* place of its vault, is asked for, unless a create has replaced that vault:
\* processes that read, save, fail and die in between do not undo it
\* (lock_before_reading, save_inner).
THEOREM AckedEntriesStay == Spec => []AckedOnDisk
<1>1. IInv => AckedOnDisk
  BY DEF IInv, DInv
<1>. QED BY <1>1, Inductive, PTL

\* A passphrase said to open nothing any more opens no file, whole or cut, and no
\* later save brings it back (change_passphrase, retire_entries, install_waiting).
THEOREM OldPassphrasesStayRetired == Spec => []RetiredStaysRetired
<1>1. IInv => RetiredStaysRetired
  BY DEF IInv, DInv
<1>. QED BY <1>1, Inductive, PTL

\* A key whose operation failed is in no vault file and in no copy of one
\* (change_passphrase's and add_recovery's way back).
THEOREM FailedKeysNeverLand == Spec => []FailedNeverLands
<1>1. IInv => FailedNeverLands
  BY DEF IInv, DInv
<1>. QED BY <1>1, Inductive, PTL

\* A recovery key that was handed over opens the vault it was handed over for
\* (replace_slot, add_recovery, migration).
THEOREM RecoveryKeysWork == Spec => []RecoveryKeyWorks
<1>1. IInv => RecoveryKeyWorks
  <2> SUFFICES ASSUME IInv, disk # None, NEW r \in 1..MaxKeys, <<disk.master, r>> \in shown
               PROVE  disk.rec = r
    BY DEF RecoveryKeyWorks
  <2>. QED BY DEF IInv, DInv, ShownWorks
<1>. QED BY <1>1, Inductive, PTL

\* A save with no backup error recorded replaces a file that is among the copies,
\* given a clock past their stamps (rotate_backups, prune_backups).
THEOREM PreviousVersionKept == Spec => []PreviousKept
<1>1. IInv => PreviousKept
  BY DEF IInv, PInv, Rotated, PreviousKept, InMemory, SavingStates
<1>. QED BY <1>1, Inductive, PTL
==============================================================================
