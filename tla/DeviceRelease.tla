---------------------------- MODULE DeviceRelease ----------------------------
(***************************************************************************)
(* Activating and releasing this device (crates/app/src/activation.rs,      *)
(* licence_control.rs, the licence arms of ipc.rs, and the licence part of  *)
(* crates/vault/src/lib.rs): the vault's four facts about this device in    *)
(* memory and on disk, the session, the one worker that asks the licence    *)
(* server, and the answer parked over a lock.                               *)
(*                                                                         *)
(* One licence and one device, whose id file is readable.  A mutator of the *)
(* vault changes memory and then saves the whole of it; the save may fail,  *)
(* and a crash may come after any save (the save that fails, then Exit).    *)
(***************************************************************************)
EXTENDS Naturals, Sequences

CONSTANTS
    MaxImports,  \* bound: imports that replace the vault
    None         \* absent

ASSUME MaxImportsAssumption == MaxImports \in Nat

VARIABLES
    disk,     \* the vault file's facts about this device
    mem,      \* the open vault's, or None while it is locked
    active,   \* SESSION's activation: Activated
    last,     \* LAST_ACTIVATION_RESULT: none, released, release_pending, other
    retried,  \* RETRIED_FOR
    call,     \* the call that is out (ACTIVATION_IN_FLIGHT): [kind, epoch]
    parked,   \* pending_activation_event: an activation's outcome
    epoch,    \* vault_epoch
    wish      \* history: what the user last asked of this device, a release once
              \* it is recorded

vars == <<disk, mem, active, last, retried, call, parked, epoch, wish>>

Facts   == [token : BOOLEAN, receipt : BOOLEAN, pending : BOOLEAN, released : BOOLEAN]
NoCall  == [kind |-> "none", epoch |-> 0]

Call(kind) == [kind |-> kind, epoch |-> epoch]

\* The mutators, by what they make of the facts.  A list of them is applied in
\* order, each with its save, those that find nothing to do without one; the first
\* save that fails ends the list.
WithReceipt(m)   == [m EXCEPT !.receipt = TRUE]
NoReceipt(m)     == [m EXCEPT !.receipt = FALSE]
NotReleased(m)   == [m EXCEPT !.released = FALSE]
NotPending(m)    == [m EXCEPT !.pending = FALSE]
WithToken(m)     == [m EXCEPT !.token = TRUE]
WithoutToken(m)  == [m EXCEPT !.token = FALSE]

\* states[1] is memory before, states[i+1] memory after the i-th mutator.  The
\* first mutator of a list always writes when always is TRUE.
Written(states, always, m, d, ok) ==
    LET n == Len(states)
        writes(i) == (always /\ i = 2) \/ states[i] # states[i - 1]
        saves == {i \in 2..n : writes(i)}
    IN  \/ /\ ok = TRUE /\ m = states[n]
           /\ d = IF saves = {} THEN disk ELSE states[n]
        \/ /\ ok = FALSE
           /\ \E f \in saves :
                  /\ m = states[f]
                  /\ d = IF \E i \in saves : i < f THEN states[f - 1] ELSE disk

------------------------------------------------------------------------------
(* The evaluation and the calls.                                            *)

\* The result the evaluation of m leaves, from the result r before it.
Shown(m, r) ==
    CASE m.receipt \/ ~m.token -> r
      [] m.released            -> "released"
      [] m.pending             -> "release_pending"
      [] OTHER                 -> r

\* on_vault_unlocked's last part: whether a silent activation starts.
Retries(m, r, replay, c) ==
    /\ m.token /\ ~m.receipt /\ ~m.released /\ ~m.pending /\ ~replay
    /\ Shown(m, r) # "released" /\ ~retried /\ c = NoCall

\* Mutant: the retry is left to the user.
NeverFinishes(m, c) == c

\* finish_pending_release: one call at a time.
FinishPendingRelease(m, c) ==
    IF m.pending /\ m.token /\ c = NoCall THEN Call("release") ELSE c

------------------------------------------------------------------------------
(* Lock and unlock.                                                         *)

\* vault_unlock: the evaluation, the parked answer, the unfinished release.
Unlock ==
    /\ mem = None /\ parked = None
    /\ mem' = disk
    /\ active' = (disk.token /\ disk.receipt) /\ last' = Shown(disk, last)
    /\ IF Retries(disk, last, FALSE, call)
       THEN retried' = TRUE /\ call' = Call("activate")
       ELSE retried' = retried /\ call' = FinishPendingRelease(disk, call)
    /\ UNCHANGED <<disk, parked, epoch, wish>>

\* The answer of an activation, on the facts m with call c: a receipt and three
\* saves, then the evaluation; or a refusal.  The release that comes after it at an
\* unlock is finished from what memory holds then.
Activated(m, c, unlock) ==
    \E after \in Facts, d \in Facts, ok \in BOOLEAN :
        /\ Written(<<m, WithReceipt(m), NotReleased(WithReceipt(m)),
                     NotPending(NotReleased(WithReceipt(m)))>>, TRUE, after, d, ok)
        /\ mem' = after /\ disk' = d
        /\ IF ok THEN active' = after.token /\ last' = Shown(after, last)
           ELSE active' = (IF unlock THEN m.receipt ELSE active) /\ last' = "other"
        /\ retried' = retried
        /\ call' = IF unlock THEN FinishPendingRelease(after, c) ELSE c

\* An unlock with an answer parked: the evaluation starts no retry, replay_pending
\* delivers the answer.
UnlockReplay ==
    /\ mem = None /\ parked # None
    /\ parked' = None
    /\ \/ /\ parked = "ok" /\ disk.token /\ Activated(disk, call, TRUE)
       \/ /\ parked = "refused" \/ ~disk.token
          /\ mem' = disk /\ UNCHANGED <<disk, retried>>
          /\ active' = (disk.token /\ disk.receipt)
          /\ last' = IF disk.token THEN "other" ELSE last
          /\ call' = FinishPendingRelease(disk, call)
    /\ UNCHANGED <<epoch, wish>>

\* The lock, and its on_vault_locked.
Lock ==
    /\ mem # None
    /\ mem' = None /\ active' = FALSE /\ last' = "none" /\ retried' = FALSE
    /\ UNCHANGED <<disk, call, parked, epoch, wish>>

\* The process ends, by a crash too; what is not on disk is gone.
Exit ==
    /\ mem' = None /\ active' = FALSE /\ last' = "none" /\ retried' = FALSE
    /\ call' = NoCall /\ parked' = None
    /\ UNCHANGED <<disk, epoch, wish>>

------------------------------------------------------------------------------
(* The user.                                                                *)

\* licence_release and start_release: only while activated and with nothing out.
\* begin_release writes unless memory says it is recorded already.
StartRelease ==
    /\ mem # None /\ active /\ call = NoCall
    /\ \E after \in Facts, d \in Facts, ok \in BOOLEAN :
           /\ Written(<<mem, [mem EXCEPT !.pending = TRUE]>>, FALSE, after, d, ok)
           /\ mem' = after /\ disk' = d
           /\ IF ok /\ mem.token
              THEN /\ call' = Call("release") /\ UNCHANGED last
                   /\ wish' = IF d.pending THEN "release" ELSE wish
              ELSE UNCHANGED <<call, wish>> /\ last' = "other"
    /\ UNCHANGED <<active, retried, parked, epoch>>

\* activate_now: the release of this device stops applying, durably, before the
\* request leaves.
ActivateNow ==
    /\ mem # None /\ call = NoCall
    /\ \E after \in Facts, d \in Facts, ok \in BOOLEAN :
           /\ Written(<<mem, NotReleased(mem), NotPending(NotReleased(mem))>>, FALSE, after, d, ok)
           /\ mem' = after /\ disk' = d
           /\ last' = IF ok THEN "none" ELSE "other"
           /\ call' = IF ok /\ mem.token THEN Call("activate") ELSE call
    /\ wish' = "activate"
    /\ UNCHANGED <<active, retried, parked, epoch>>

\* licence_paste with a token of this licence: a fresh intent.
Paste ==
    /\ mem # None
    /\ \E after \in Facts, d \in Facts, ok \in BOOLEAN :
           /\ Written(<<mem, WithToken(mem), NotReleased(WithToken(mem)),
                        NotPending(NotReleased(WithToken(mem)))>>, TRUE, after, d, ok)
           /\ mem' = after /\ disk' = d
           /\ wish' = "activate"
           /\ IF ok
              THEN /\ active' = after.receipt /\ last' = "none"
                   /\ IF ~after.receipt /\ call = NoCall /\ ~(parked # None)
                      THEN retried' = TRUE /\ call' = Call("activate")
                      ELSE retried' = FALSE /\ call' = call
              ELSE UNCHANGED <<active, last, retried, call>>
    /\ UNCHANGED <<parked, epoch>>

\* licence_remove: the token, then the receipts.
RemoveLicence ==
    /\ mem # None
    /\ \E after \in Facts, d \in Facts, ok \in BOOLEAN :
           /\ Written(<<mem, WithoutToken(mem), NoReceipt(WithoutToken(mem))>>, TRUE, after, d, ok)
           /\ mem' = after /\ disk' = d
           /\ active' = IF ok THEN FALSE ELSE active
    /\ UNCHANGED <<last, retried, call, parked, epoch, wish>>

\* import_receipt of a receipt that binds: stored and evaluated, then the earlier
\* release is over.
ImportReceipt ==
    /\ mem # None /\ mem.token
    /\ \E after \in Facts, d \in Facts, ok \in BOOLEAN :
           /\ Written(<<mem, WithReceipt(mem), NotReleased(WithReceipt(mem)),
                        NotPending(NotReleased(WithReceipt(mem)))>>, TRUE, after, d, ok)
           /\ mem' = after /\ disk' = d
           /\ active' = IF ok \/ after # WithReceipt(mem) THEN TRUE ELSE active
    /\ wish' = "activate"
    /\ UNCHANGED <<last, retried, call, parked, epoch>>

\* import_receipt of one that does not bind.  It takes the place of this device's own
\* receipt and is saved; the evaluation then finds the device without one and may
\* start the silent activation.  The records before it are put back, in memory at
\* least (that save's failure is ignored), and evaluated again.
ReceiptRejected ==
    /\ mem # None /\ mem.token
    /\ \/ mem' = NoReceipt(mem) /\ UNCHANGED <<disk, active, last, retried, call>>   \* vault_io
       \/ /\ mem' = mem /\ disk' \in {mem, NoReceipt(mem)}
          /\ active' = mem.receipt /\ last' = Shown(mem, Shown(NoReceipt(mem), last))
          /\ IF Retries(NoReceipt(mem), last, parked # None, call)
             THEN retried' = TRUE /\ call' = Call("activate")
             ELSE UNCHANGED <<retried, call>>
    /\ UNCHANGED <<parked, epoch, wish>>

\* An import has replaced the open vault with one that may come from this device
\* too; it is evaluated as at an unlock, and a parked answer is dropped.
Import ==
    /\ mem # None /\ epoch < MaxImports
    /\ epoch' = epoch + 1 /\ parked' = None /\ wish' = "none"
    /\ \E m \in Facts :
           /\ disk' = m /\ mem' = m
           /\ active' = (m.token /\ m.receipt) /\ last' = Shown(m, last)
           /\ IF Retries(m, last, FALSE, call)
              THEN retried' = TRUE /\ call' = [kind |-> "activate", epoch |-> epoch + 1]
              ELSE /\ retried' = retried
                   /\ call' = IF m.pending /\ m.token /\ call = NoCall
                              THEN [kind |-> "release", epoch |-> epoch + 1] ELSE call

------------------------------------------------------------------------------
(* The worker's answer: handle_event_from.                                  *)

\* Dropped: asked for a vault that has been replaced.  The flag is cleared.
AnswerStale ==
    /\ call # NoCall /\ call.epoch # epoch
    /\ call' = NoCall
    /\ UNCHANGED <<disk, mem, active, last, retried, parked, epoch, wish>>

\* The vault is locked: an activation's answer is parked, a release's dropped.
AnswerLocked ==
    /\ call # NoCall /\ call.epoch = epoch /\ mem = None
    /\ call' = NoCall
    /\ \/ call.kind = "activate" /\ parked' \in {"ok", "refused"}
       \/ call.kind = "release" /\ UNCHANGED parked
    /\ UNCHANGED <<disk, mem, active, last, retried, epoch, wish>>

Answerable(kind) == call.kind = kind /\ call.epoch = epoch /\ mem # None

AnswerActivate ==
    /\ Answerable("activate")
    /\ \/ mem.token /\ Activated(mem, NoCall, FALSE)
       \/ /\ call' = NoCall /\ last' = IF mem.token THEN "other" ELSE last
          /\ UNCHANGED <<disk, mem, active, retried>>
    /\ UNCHANGED <<parked, epoch, wish>>

\* Mutant: the release is not recorded with the receipt's removal.
MarkerForgotten(m) == [m EXCEPT !.receipt = FALSE, !.pending = FALSE]

\* Vault::release_device, the list of released devices having room: the receipt,
\* the started release and the record of it in one write.
ReleaseDevice(m) == [m EXCEPT !.receipt = FALSE, !.pending = FALSE, !.released = TRUE]

\* A release the server has confirmed, and the evaluation after it: before it the
\* result says "released" when the save succeeded, and after it "vault_io" when not.
Released(ok) ==
    /\ Answerable("release") /\ mem.token
    /\ mem' = ReleaseDevice(mem)
    /\ disk' = IF ok THEN mem' ELSE disk
    /\ active' = (mem'.token /\ mem'.receipt)
    /\ last' = IF ok THEN "released" ELSE "other"
    /\ IF Retries(mem', IF ok THEN "released" ELSE last, parked # None, NoCall)
       THEN retried' = TRUE /\ call' = Call("activate")
       ELSE retried' = retried /\ call' = NoCall
    /\ UNCHANGED <<parked, epoch, wish>>

ReleaseDone == Released(TRUE)

\* The write failed, the server could not be reached, or the licence is gone.
ReleaseNotDone ==
    \/ Released(FALSE)
    \/ /\ Answerable("release") /\ call' = NoCall
       /\ last' = IF mem.token THEN "other" ELSE last
       /\ UNCHANGED <<disk, mem, active, retried, parked, epoch, wish>>

------------------------------------------------------------------------------
\* A vault with a licence, on a device that has or has not activated.
Init ==
    /\ disk \in {f \in Facts : f.token /\ ~f.pending /\ ~f.released}
    /\ mem = None /\ active = FALSE /\ last = "none" /\ retried = FALSE
    /\ call = NoCall /\ parked = None /\ epoch = 0 /\ wish = "none"

Next ==
    \/ Unlock \/ UnlockReplay \/ Lock \/ Exit
    \/ StartRelease \/ ActivateNow \/ Paste \/ RemoveLicence
    \/ ImportReceipt \/ ReceiptRejected \/ Import
    \/ AnswerStale \/ AnswerLocked \/ AnswerActivate \/ ReleaseDone \/ ReleaseNotDone

Spec == Init /\ [][Next]_vars

\* The worker answers (its requests time out), the idle timer locks the vault, the
\* user unlocks it again, and a server asked again and again is reached and the
\* answer saved.
Fairness ==
    /\ WF_vars(Lock) /\ WF_vars(Unlock \/ UnlockReplay)
    /\ WF_vars(AnswerStale \/ AnswerLocked \/ AnswerActivate \/ ReleaseDone \/ ReleaseNotDone)
    /\ SF_vars(ReleaseDone)

FairSpec == Spec /\ Fairness

------------------------------------------------------------------------------
(* Properties.                                                              *)

\* Once the release of this device has been asked for and recorded, no request to
\* activate it leaves until the user takes it back, whatever is locked, lost,
\* answered late or fails to be saved in between (on_vault_unlocked's retry against release_pending
\* and released_devices).
ReleaseSticks ==
    [][call' # call /\ call'.kind = "activate" => wish' # "release"]_vars

\* A release that is recorded does not stay unanswered: while the vault keeps its
\* licence and the user does not take the release back, it is asked for again at
\* each unlock until the answer is stored (finish_pending_release).
ReleaseSettles ==
    (disk.pending /\ disk.token) ~> (~disk.pending \/ ~disk.token \/ wish = "activate")

\* While a release asked for in this vault is out, the vault file says so: no lock,
\* crash or exit can lose it (start_release: begin_release before the request).
IntentFirst == call.kind = "release" /\ call.epoch = epoch => disk.pending
==============================================================================
