------------------------------ MODULE VaultFile ------------------------------
(***************************************************************************)
(* The vault file (crates/vault/src/lib.rs, lock.rs, backup.rs and the      *)
(* install of backup_v4.rs): two or more processes, each with the whole     *)
(* vault in memory while it is open, one file that a save replaces by       *)
(* rename, the rotated copies beside it, and the temporary files a crash    *)
(* leaves.                                                                  *)
(*                                                                         *)
(* Keys are numbers.  Every operation that makes a key takes the next       *)
(* number: `master` is the operation that made the vault's master key,      *)
(* `pass` and `rec` the ones that made its passphrase and recovery slots    *)
(* (0: no such slot).  A slot number stands for the slot's bytes, so for    *)
(* its salt and for the secret that opens it.  A version 1 file has master  *)
(* 0: its contents are sealed under the passphrase itself.                  *)
(***************************************************************************)
EXTENDS Naturals, FiniteSets

CONSTANTS
    Procs,       \* running copies of the program
    Entries,     \* credentials, notes, contacts
    MaxBackups,  \* DEFAULT_MAX_BACKUPS
    MaxKeys,     \* bound: operations that make a key
    MaxClock,    \* bound: the wall clock's values
    MaxCopies,   \* bound: copies at once, failed prunings included
    MaxTemps,    \* bound: temporary files left behind
    None         \* no file, nobody

\* What a vault file holds.
Images == [master : Nat, pass : Nat, rec : Nat, data : SUBSET Entries]

ASSUME NoneAssumption == None \notin Procs /\ None \notin Images
ASSUME BoundsAssumption == /\ MaxBackups \in Nat \ {0} /\ MaxKeys \in Nat /\ MaxClock \in Nat
                           /\ MaxCopies \in Nat /\ MaxTemps \in Nat

VARIABLES
    \* ---- the disk --------------------------------------------------------
    disk,      \* the vault file: [master, pass, rec, data] or None
    backups,   \* the rotated copies: [stamp, img]
    temps,     \* `.tmp-*` files a crash or a failed cleanup left: [img, cut]
    lock,      \* who holds the lock on the sidecar
    \* ---- the processes -----------------------------------------------------
    pc,        \* what each is doing
    mem,       \* the Vault it has in memory, or the bytes it has read
    op,        \* the operation its save belongs to
    lbe,       \* last_backup_error of the vault it has open
    \* ---- history ---------------------------------------------------------
    next,      \* the next key number
    acked,     \* <<master, entry>>: stored, said so, and nobody asked for its end
    overwritten, \* master keys of the vaults that a create has replaced
    void,      \* passphrase slots said to open nothing any more
    refused,   \* keys whose operation was reported as failed
    shown      \* <<master, recovery slot>>: recovery keys handed over

files == <<disk, backups, temps>>
keys  == <<next, void, refused, shown>>
said  == <<acked, overwritten>>
vars  == <<files, lock, pc, mem, op, lbe, keys, said>>

Kinds == {"create", "migrate", "import", "add", "delete", "rekey", "recovery"}
NoOp  == [kind |-> None, old |-> None, kept |-> 0, late |-> FALSE]

V1(img) == img.master = 0

\* What a write that stops half-way leaves under a temporary name: all of img, or
\* a start of it that holds the key bytes of both slots or of the first only.
Cuts == {"whole", "slots", "first"}
Debris(img) ==
    \/ UNCHANGED temps
    \/ /\ Cardinality(temps) < MaxTemps
       /\ \E c \in Cuts : temps' = temps \cup {[img |-> img, cut |-> c]}

At(p, from, to) == pc[p] = from /\ pc' = [pc EXCEPT ![p] = to]

\* The Vault is dropped, or the process ends: the lock goes with it.
Drop(p) ==
    /\ lock' = IF lock = p THEN None ELSE lock
    /\ mem' = [mem EXCEPT ![p] = None]
    /\ op' = [op EXCEPT ![p] = NoOp]
    /\ lbe' = [lbe EXCEPT ![p] = FALSE]

\* A new vault: a master key, a passphrase slot and a recovery slot or none.
NewVault(rec, data) == [master |-> next, pass |-> next, rec |-> rec, data |-> data]

\* The save that op starts: `from` is where it starts, with or without the
\* rotation (save, save_inner(false)).
Begin(p, from, kind, old, vault) ==
    /\ pc' = [pc EXCEPT ![p] = from]
    /\ op' = [op EXCEPT ![p] = [kind |-> kind, old |-> old, kept |-> 0, late |-> FALSE]]
    /\ mem' = [mem EXCEPT ![p] = vault]

------------------------------------------------------------------------------
(* Opening.                                                                 *)

\* create_inner's first check, before the lock is asked for.
CreateCheck(p) ==
    /\ disk = None /\ next < MaxKeys
    /\ At(p, "idle", "creating")
    /\ UNCHANGED <<files, lock, mem, op, lbe, keys, said>>

\* create_inner: with or without a recovery key; Locked when another holds it.
Create(p) ==
    \/ /\ pc[p] = "creating" /\ lock = None /\ next <= MaxKeys
       /\ lock' = p /\ next' = next + 1
       /\ \E rec \in {0, next} : Begin(p, "rotate", "create", None, NewVault(rec, {}))
       /\ UNCHANGED <<files, lbe, void, refused, shown, said>>
    \/ /\ lock # None
       /\ At(p, "creating", "idle")
       /\ UNCHANGED <<files, lock, mem, op, lbe, keys, said>>

\* Mutant: the bytes are read first and the lock is taken after.
ReadBeforeLocking(p) ==
    \/ /\ disk # None
       /\ At(p, "idle", "locked") /\ mem' = [mem EXCEPT ![p] = disk]
       /\ UNCHANGED <<files, lock, op, lbe, keys, said>>
    \/ /\ lock = None /\ lock' = p
       /\ At(p, "locked", "read")
       /\ UNCHANGED <<files, mem, op, lbe, keys, said>>

\* lock_before_reading, then the read; a busy lock after every retry is Locked
\* and changes nothing.
LockBeforeReading(p) ==
    \/ /\ disk # None /\ lock = None /\ lock' = p
       /\ At(p, "idle", "locked")
       /\ UNCHANGED <<files, mem, op, lbe, keys, said>>
    \/ /\ disk # None
       /\ At(p, "locked", "read") /\ mem' = [mem EXCEPT ![p] = disk]
       /\ UNCHANGED <<files, lock, op, lbe, keys, said>>

\* unlock_slots: the passphrase or the recovery key opens one of its slots, or
\* the guard is dropped with the error.
UnlockSlots(p) ==
    \/ /\ At(p, "read", "open") /\ ~V1(mem[p])
       /\ UNCHANGED <<files, lock, mem, op, lbe, keys, said>>
    \/ /\ At(p, "read", "idle") /\ Drop(p)
       /\ UNCHANGED <<files, keys, said>>

\* unlock_v1_and_migrate: a master key, both slots and an ordinary save.
UnlockV1AndMigrate(p) ==
    /\ pc[p] = "read" /\ V1(mem[p]) /\ next <= MaxKeys
    /\ next' = next + 1
    /\ Begin(p, "rotate", "migrate", None, NewVault(next, mem[p].data))
    /\ UNCHANGED <<files, lock, lbe, void, refused, shown, said>>

\* PendingImport::install_waiting: the lock, a new vault; the copies of the
\* vault it replaces are discarded next.
Import(p) ==
    /\ pc[p] = "idle" /\ lock = None /\ next <= MaxKeys
    /\ lock' = p /\ next' = next + 1
    /\ \E data \in SUBSET Entries : Begin(p, "discard", "import", None, NewVault(next, data))
    /\ UNCHANGED <<files, lbe, void, refused, shown, said>>

Salts(img) == {img.pass, img.rec} \ {0}

\* Whether a header, possibly cut, shows a slot of the vault being replaced.
SharesSalt(img, cut) ==
    /\ disk # None /\ ~V1(disk) /\ ~V1(img)
    /\ (IF cut = "first" THEN {img.pass} ELSE Salts(img)) \cap Salts(disk) # {}

\* discard_replaced_vault_leftovers: copies that share a salt are removed, a
\* young temporary file and everything unproven is kept and counted.  A failed
\* removal refuses the import.
Discard(p) ==
    LET proven == {b \in backups : SharesSalt(b.img, "whole")}
        ours   == {t \in temps : SharesSalt(t.img, t.cut)}
    IN  /\ pc[p] = "discard"
        /\ \E young \in SUBSET ours :
               \/ /\ backups' = backups \ proven
                  /\ temps' = temps \ (ours \ young)
                  /\ pc' = [pc EXCEPT ![p] = "write"]
                  /\ op' = [op EXCEPT ![p].kept = Cardinality(backups') + Cardinality(temps')]
                  /\ UNCHANGED <<disk, lock, mem, lbe, keys, said>>
               \/ \E b \in SUBSET proven, t \in SUBSET (ours \ young) :
                      /\ backups' = backups \ b /\ temps' = temps \ t
                      /\ pc' = [pc EXCEPT ![p] = "idle"] /\ Drop(p)
                      /\ refused' = refused \cup {mem[p].pass}
                      /\ UNCHANGED <<disk, next, void, shown, said>>

------------------------------------------------------------------------------
(* The operations of an open vault.  Memory changes first, then the save.   *)

\* add_credential, add_note, add_contact, the setters.
Add(p, e) ==
    /\ pc[p] = "open" /\ e \notin mem[p].data
    /\ Begin(p, "rotate", "add", e, [mem[p] EXCEPT !.data = @ \cup {e}])
    /\ UNCHANGED <<files, lock, lbe, keys, said>>

\* delete_credential, delete_note, delete_contact: asked for, so no longer owed.
Delete(p, e) ==
    /\ pc[p] = "open" /\ e \in mem[p].data
    /\ Begin(p, "rotate", "delete", e, [mem[p] EXCEPT !.data = @ \ {e}])
    /\ acked' = acked \ {<<mem[p].master, e>>}
    /\ UNCHANGED <<files, lock, lbe, keys, overwritten>>

\* Mutant: the new header is built from the passphrase slot alone.
RekeyDropsRecovery(p) ==
    /\ pc[p] = "open" /\ next <= MaxKeys
    /\ next' = next + 1
    /\ Begin(p, "write", "rekey", mem[p].pass, [mem[p] EXCEPT !.pass = next, !.rec = 0])
    /\ UNCHANGED <<files, lock, lbe, void, refused, shown, said>>

\* change_passphrase, the current passphrase verified: the slot is replaced in
\* memory and saved without a rotation.
ChangePassphrase(p) ==
    /\ pc[p] = "open" /\ next <= MaxKeys
    /\ next' = next + 1
    /\ Begin(p, "write", "rekey", mem[p].pass, [mem[p] EXCEPT !.pass = next])
    /\ UNCHANGED <<files, lock, lbe, void, refused, shown, said>>

\* add_recovery, refused when there is a slot already.
AddRecovery(p) ==
    /\ pc[p] = "open" /\ mem[p].rec = 0 /\ next <= MaxKeys
    /\ next' = next + 1
    /\ Begin(p, "rotate", "recovery", None, [mem[p] EXCEPT !.rec = next])
    /\ UNCHANGED <<files, lock, lbe, void, refused, shown, said>>

Close(p) ==
    /\ At(p, "open", "idle") /\ Drop(p)
    /\ UNCHANGED <<files, keys, said>>

------------------------------------------------------------------------------
(* The save.                                                                *)

\* fresh_backup_path: the time, bumped past the copies that exist.
Stamp(t) == CHOOSE s \in t..(t + Cardinality(backups)) :
               /\ s \notin {b.stamp : b \in backups}
               /\ \A r \in t..(s - 1) : r \in {b.stamp : b \in backups}

\* rotate_backups: the file as it is now, copied under a fresh stamp.  A failure
\* is recorded and does not fail the save.
Rotate(p) ==
    \/ /\ disk = None
       /\ At(p, "rotate", "write") /\ lbe' = [lbe EXCEPT ![p] = FALSE]
       /\ UNCHANGED <<files, lock, mem, op, keys, said>>
    \/ /\ disk # None
       /\ At(p, "rotate", "prune") /\ Cardinality(backups) < MaxCopies
       /\ \E t \in 1..MaxClock :
              /\ backups' = backups \cup {[stamp |-> Stamp(t), img |-> disk]}
              /\ op' = [op EXCEPT ![p].late = \A b \in backups : t > b.stamp]
       /\ UNCHANGED <<disk, temps, lock, mem, lbe, keys, said>>
    \/ /\ disk # None
       /\ At(p, "rotate", "write") /\ lbe' = [lbe EXCEPT ![p] = TRUE]
       /\ Debris(disk)
       /\ UNCHANGED <<disk, backups, lock, mem, op, keys, said>>

\* Mutant: sorted oldest first.
PastTheNewest == {b \in backups : Cardinality({c \in backups : c.stamp < b.stamp}) >= MaxBackups}

\* The copies past the bound, the newest stamps first.
PastTheBound == {b \in backups : Cardinality({c \in backups : c.stamp > b.stamp}) >= MaxBackups}

\* prune_backups: removes them one by one in that order; the first that cannot be
\* removed ends it.
Prune(p) ==
    /\ At(p, "prune", "write")
    /\ \E gone \in SUBSET PastTheBound :
           /\ \A b \in gone, c \in PastTheBound : c.stamp > b.stamp => c \in gone
           /\ backups' = backups \ gone
           /\ \E e \in {gone # PastTheBound, TRUE} : lbe' = [lbe EXCEPT ![p] = e]
    /\ UNCHANGED <<disk, temps, lock, mem, op, keys, said>>

\* atomic_write_with succeeds, and the operation returns, except that a passphrase
\* change goes on to retire the copies.  The import reports what it kept; it was
\* asked for in place of the vault that was there, whose entries are owed no more.
\* A create was asked for where there was none: what it replaces is written down.
Saved(p) ==
    /\ pc[p] = "write"
    /\ disk' = mem[p]
    /\ IF op[p].kind = "rekey"
       THEN /\ pc' = [pc EXCEPT ![p] = "retire"]
            /\ UNCHANGED <<op, said, void, shown>>
       ELSE /\ pc' = [pc EXCEPT ![p] = "open"]
            /\ op' = [op EXCEPT ![p] = NoOp]
            /\ acked' = CASE op[p].kind = "add"    -> acked \cup {<<mem[p].master, op[p].old>>}
                          [] op[p].kind = "import" -> {a \in acked : disk = None \/ a[1] # disk.master}
                          [] OTHER                 -> acked
            /\ overwritten' = IF op[p].kind = "create" /\ disk # None
                              THEN overwritten \cup {disk.master} ELSE overwritten
            /\ shown' = IF op[p].kind \in {"create", "migrate", "import", "recovery"} /\ mem[p].rec # 0
                        THEN shown \cup {<<mem[p].master, mem[p].rec>>} ELSE shown
            /\ void' = IF op[p].kind = "import" /\ op[p].kept = 0
                       THEN (1..(next - 1)) \ {mem[p].pass} ELSE void
    /\ UNCHANGED <<backups, temps, lock, mem, lbe, next, refused>>

\* Mutant: a failed passphrase change leaves the new slot in memory.
KeepsTheSlot(p) ==
    IF op[p].kind = "recovery" THEN [mem[p] EXCEPT !.rec = 0] ELSE mem[p]

\* What memory holds after a failed save: the slot operations take their slot
\* back, the others leave the change in memory.
RolledBack(p) ==
    CASE op[p].kind = "rekey"    -> [mem[p] EXCEPT !.pass = op[p].old]
      [] op[p].kind = "recovery" -> [mem[p] EXCEPT !.rec = 0]
      [] OTHER                   -> mem[p]

\* The key the operation in progress has made.
KeyOf(p) ==
    CASE op[p].kind \in {"create", "migrate", "import", "rekey"} -> {mem[p].pass}
      [] op[p].kind = "recovery" -> {mem[p].rec}
      [] OTHER -> {}

\* Mutant: an add whose save failed returns Ok.
FailureSwallowed(p) ==
    /\ pc[p] = "write" /\ op[p].kind = "add"
    /\ pc' = [pc EXCEPT ![p] = "open"] /\ op' = [op EXCEPT ![p] = NoOp]
    /\ acked' = acked \cup {<<mem[p].master, op[p].old>>}
    /\ UNCHANGED <<files, lock, mem, lbe, keys, overwritten>>

\* atomic_write_with fails, before or at the rename: the old file is still there.
SaveFails(p) ==
    /\ pc[p] = "write"
    /\ Debris(mem[p])
    /\ refused' = refused \cup KeyOf(p)
    /\ IF op[p].kind \in {"create", "migrate", "import"}
       THEN pc' = [pc EXCEPT ![p] = "idle"] /\ Drop(p)
       ELSE /\ pc' = [pc EXCEPT ![p] = "open"]
            /\ mem' = [mem EXCEPT ![p] = RolledBack(p)]
            /\ op' = [op EXCEPT ![p] = NoOp]
            /\ UNCHANGED <<lock, lbe>>
    /\ UNCHANGED <<disk, backups, next, void, shown, said>>

\* classify_leftover: a slot this vault holds or has just retired, or a whole
\* file under its master key.  Every other vault-shaped file is Unknown.
Ours(p, t) ==
    /\ ~V1(t.img)
    /\ \/ t.img.pass \in {mem[p].pass, op[p].old}
       \/ t.cut # "first" /\ t.img.rec # 0 /\ t.img.rec = mem[p].rec
       \/ t.cut = "whole" /\ t.img.master = mem[p].master

\* retire_backups: every backup by its name, every temporary file that is ours;
\* an entry that stays, or is unknown, is BackupsRetained.  A failure on one does
\* not stop the rest.
RetireBackups(p) ==
    /\ At(p, "retire", "open")
    /\ op' = [op EXCEPT ![p] = NoOp]
    /\ backups' \in SUBSET backups
    /\ \E left \in SUBSET {t \in temps : Ours(p, t)} :
           temps' = {t \in temps : ~Ours(p, t)} \cup left
    /\ \/ /\ backups' = {} /\ temps' = {}
          /\ lbe' = [lbe EXCEPT ![p] = FALSE]
          /\ void' = (1..(next - 1)) \ {mem[p].pass}
       \/ UNCHANGED <<lbe, void>>                       \* BackupsRetained
    /\ UNCHANGED <<disk, lock, mem, next, refused, shown, said>>

\* The process dies anywhere; a write in progress leaves what it had written.
Crash(p) ==
    /\ pc[p] # "idle"
    /\ pc' = [pc EXCEPT ![p] = "idle"] /\ Drop(p)
    /\ CASE pc[p] = "rotate" /\ disk # None -> Debris(disk)
         [] pc[p] = "write"                 -> Debris(mem[p])
         [] OTHER                           -> UNCHANGED temps
    /\ UNCHANGED <<disk, backups, keys, said>>

------------------------------------------------------------------------------
\* A vault from an earlier run, of this version or of version 1, or none yet.
Init ==
    /\ disk \in {None} \cup [master : {0, 1}, pass : {1}, rec : {0, 1}, data : {{}}]
    /\ disk # None => (disk.master = 0 => disk.rec = 0)
    /\ backups = {} /\ temps = {} /\ lock = None
    /\ pc = [p \in Procs |-> "idle"]
    /\ mem = [p \in Procs |-> None]
    /\ op = [p \in Procs |-> NoOp]
    /\ lbe = [p \in Procs |-> FALSE]
    /\ next = 2
    /\ acked = {} /\ overwritten = {} /\ void = {} /\ refused = {}
    /\ shown = IF disk # None /\ disk.rec # 0 THEN {<<disk.master, disk.rec>>} ELSE {}

Step(p) ==
    \/ CreateCheck(p) \/ Create(p) \/ LockBeforeReading(p) \/ UnlockSlots(p)
    \/ UnlockV1AndMigrate(p) \/ Import(p) \/ Discard(p)
    \/ \E e \in Entries : Add(p, e) \/ Delete(p, e)
    \/ ChangePassphrase(p) \/ AddRecovery(p) \/ Close(p)
    \/ Rotate(p) \/ Prune(p) \/ Saved(p) \/ SaveFails(p) \/ RetireBackups(p)
    \/ Crash(p)

Next == \E p \in Procs : Step(p)

Spec == Init /\ [][Next]_vars

------------------------------------------------------------------------------
(* Properties.                                                              *)

OnDisk(a) == disk # None /\ disk.master = a[1] /\ a[2] \in disk.data

\* An entry whose add returned Ok is in the vault file, whatever the other processes
\* did and wherever they died, until somebody asks for its deletion or for an import
\* in place of its vault: no other window's save undoes it (lib.rs
\* lock_before_reading, lock.rs).  The exception is in the formula: a vault that
\* another window's create has replaced (create_inner).
AckedOnDisk == \A a \in acked : OnDisk(a) \/ a[1] \in overwritten

\* The same without the exception, as lock.rs and the comment in create_inner have
\* it: no window loses what another has stored, a window that creates the vault
\* included.  create_inner looks for the file before it takes the lock, not after.
NoLostUpdate == \A a \in acked : OnDisk(a)

\* Once a passphrase change has returned Ok, or an import has reported that no
\* unproven copy was kept, no file beside the vault, whole or cut, opens with an
\* older passphrase, and no later save brings one back (backup.rs
\* change_passphrase, retire_entries, discard_replaced_vault_leftovers).
RetiredStaysRetired ==
    /\ disk # None => disk.pass \notin void
    /\ \A f \in backups \cup temps : f.img.pass \notin void

\* A key whose operation was reported as failed is on disk in no vault and in no
\* rotated copy: a later save never commits it (change_passphrase's and
\* add_recovery's way back).
FailedNeverLands ==
    /\ disk # None => {disk.pass, disk.rec} \cap refused = {}
    /\ \A b \in backups : {b.img.pass, b.img.rec} \cap refused = {}

\* A recovery key that was handed over opens the vault it was handed over for, as
\* long as that vault is there: passphrase changes, failed saves and crashes do
\* not end it (replace_slot leaves every other slot alone).
RecoveryKeyWorks ==
    disk # None => \A r \in 1..MaxKeys : <<disk.master, r>> \in shown => disk.rec = r

\* A save about to replace the file, with no backup error recorded, has the file
\* it replaces among the copies, provided the clock was past the stamps of the
\* copies there were (rotate_backups before the write, prune_backups by the stamps).
PreviousKept ==
    \A p \in Procs :
        (/\ pc[p] = "write" /\ op[p].kind \in Kinds \ {"rekey", "import"}
         /\ ~lbe[p] /\ op[p].late /\ disk # None)
            => \E b \in backups : b.img = disk
==============================================================================
