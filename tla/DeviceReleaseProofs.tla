------------------------- MODULE DeviceReleaseProofs -------------------------
(***************************************************************************)
(* A release that was asked for is not undone, for any number of imports,   *)
(* locks, crashes and failed saves.  The reason is Covered: from the moment *)
(* the release is recorded, the vault on disk and the open one always hold  *)
(* one of the three facts that keep the silent activation away, with or     *)
(* without a receipt.  Each list of saves passes through such states only,  *)
(* so it may fail after any of them.  And no activation's answer is still   *)
(* to come that could take these facts away.                                *)
(***************************************************************************)
EXTENDS DeviceRelease, TLAPS

Types ==
    /\ disk \in Facts /\ mem \in Facts \cup {None}
    /\ wish \in {"none", "activate", "release"}

\* The facts that keep on_vault_unlocked from activating this device, whatever its
\* receipts are.
Covered(m) == m.pending \/ m.released \/ ~m.token

ReleaseCovered == wish = "release" => Covered(disk) /\ (mem # None => Covered(mem))

\* An open vault has no answer parked, and none is on its way to a device that is
\* being released.
NoneToCome ==
    /\ mem # None => parked = None
    /\ wish = "release" => call.kind # "activate" /\ parked = None

IInv == Types /\ ReleaseCovered /\ NoneToCome
------------------------------------------------------------------------------
(* The operators the model is built from.                                   *)

\* The silent activation starts only from facts that are not covered.
LEMMA RetriesUncovered ==
    ASSUME NEW m \in Facts, NEW r, NEW replay, NEW c, Retries(m, r, replay, c)
    PROVE  ~Covered(m)
  BY DEF Retries, Covered

\* What finish_pending_release starts is a release.
LEMMA FinishReleases ==
    ASSUME NEW m, NEW c, c.kind # "activate" PROVE FinishPendingRelease(m, c).kind # "activate"
  BY DEF FinishPendingRelease, Call

\* A list of mutators that all leave covered facts leaves memory and disk covered,
\* wherever its saves fail.
LEMMA WrittenCovered ==
    ASSUME NEW states, NEW n \in Nat \ {0, 1}, Len(states) = n, \A i \in 2..n : Covered(states[i]),
           Covered(disk), NEW always \in BOOLEAN, NEW m, NEW d, NEW ok \in BOOLEAN, Written(states, always, m, d, ok)
    PROVE  Covered(m) /\ Covered(d)
<1> DEFINE saves == {i \in 2..n : (always /\ i = 2) \/ states[i] # states[i - 1]}
<1>1. n \in 2..n
  OBVIOUS
<1>2. CASE m = states[n] /\ d = IF saves = {} THEN disk ELSE states[n]
  BY <1>1, <1>2
<1>3. ASSUME NEW f \in saves, m = states[f],
             d = IF \E i \in saves : i < f THEN states[f - 1] ELSE disk
      PROVE  Covered(m) /\ Covered(d)
  <2>1. ASSUME NEW i \in saves, i < f PROVE f - 1 \in 2..n
    BY <1>1, <2>1
  <2>2. Covered(states[f])
    OBVIOUS
  <2>3. (\E i \in saves : i < f) => Covered(states[f - 1])
    BY <2>1
  <2>. HIDE DEF saves
  <2>. QED BY <1>3, <2>2, <2>3
<1>. QED BY <1>2, <1>3 DEF Written

\* Each list of mutators passes through covered facts only: a removal drops the
\* token first, a release sets its record with the receipt's removal, a rejected
\* receipt touches neither.
LEMMA Mutators ==
    ASSUME NEW m \in Facts
    PROVE  /\ Covered(WithoutToken(m)) /\ Covered(NoReceipt(WithoutToken(m)))
           /\ ReleaseDevice(m) \in Facts /\ Covered(ReleaseDevice(m))
           /\ NoReceipt(m) \in Facts /\ (Covered(m) => Covered(NoReceipt(m)))
  BY DEF Facts, Covered, NoReceipt, WithoutToken, ReleaseDevice
------------------------------------------------------------------------------
(* The invariant.                                                           *)

\* No release is recorded in the beginning.
LEMMA InitInv == Init => IInv
  BY DEF Init, IInv, Types, ReleaseCovered, NoneToCome

\* Every handler, command, save and crash keeps the recorded release covered.
LEMMA NextInv == IInv /\ [Next]_vars => IInv'
<1> SUFFICES ASSUME IInv, [Next]_vars PROVE IInv'
  OBVIOUS
<1> USE DEF IInv, Types
<1> NoCall.kind = "none"
  BY DEF NoCall
<1>0. CASE Unlock
  <2>1. Types' /\ ReleaseCovered' /\ parked' = None /\ wish' = wish
    BY <1>0 DEF Unlock, ReleaseCovered
  <2>2. ASSUME wish = "release" PROVE call'.kind # "activate"
    <3>1. ~Retries(disk, last, FALSE, call)
      BY <2>2, RetriesUncovered DEF ReleaseCovered
    <3>. QED BY <1>0, <2>2, <3>1, FinishReleases DEF Unlock, NoneToCome
  <2>. QED BY <2>1, <2>2 DEF NoneToCome
<1>1. CASE Lock \/ Exit \/ AnswerStale \/ AnswerLocked
  <2>1. Types' /\ ReleaseCovered' /\ wish' = wish
    BY <1>1 DEF Lock, Exit, AnswerStale, AnswerLocked, ReleaseCovered
  <2>2. NoneToCome'
    BY <1>1 DEF Lock, Exit, AnswerStale, AnswerLocked, NoneToCome
  <2>. QED BY <2>1, <2>2
<1>2. CASE UnlockReplay
  <2>1. Types' /\ parked' = None /\ wish' = wish /\ wish # "release"
    BY <1>2 DEF UnlockReplay, Activated, NoneToCome
  <2>. QED BY <2>1 DEF ReleaseCovered, NoneToCome
<1>3. CASE StartRelease
  <2> DEFINE p == [mem EXCEPT !.pending = TRUE]
             s == <<mem, p>>
  <2>1. PICK after \in Facts, d \in Facts, ok \in BOOLEAN :
          /\ Written(s, FALSE, after, d, ok) /\ mem' = after /\ disk' = d
          /\ wish' \in {wish, "release"}
          /\ wish' # wish => d.pending
    BY <1>3 DEF StartRelease
  <2>0. NoneToCome'
    BY <1>3 DEF StartRelease, NoneToCome, Call
  <2>2. mem \in Facts /\ Covered(p) /\ Len(s) = 2 /\ s[1] = mem /\ s[2] = p
    BY <1>3 DEF StartRelease, Facts, Covered
  <2>3. Covered(after)
    <3>1. after = s[2]
      BY <2>1, <2>2 DEF Written
    <3>. QED BY <2>2, <3>1
  <2>4. CASE wish = "release"
    <3>1. Covered(disk)
      BY <2>4 DEF ReleaseCovered
    <3>2. Covered(d)
      <4>. HIDE DEF s, p
      <4>1. \A i \in 2..2 : i = 2
        OBVIOUS
      <4>2. 2 \in Nat \ {0, 1} /\ FALSE \in BOOLEAN
        OBVIOUS
      <4>. QED BY <2>1, <2>2, <3>1, <4>1, <4>2, WrittenCovered, Zenon
    <3>. QED BY <2>0, <2>1, <2>3, <3>2 DEF ReleaseCovered
  <2>5. CASE wish # "release"
    BY <2>0, <2>1, <2>3, <2>5 DEF ReleaseCovered, Covered
  <2>. QED BY <2>4, <2>5
<1>4. CASE ActivateNow \/ Paste \/ ImportReceipt \/ Import
  <2>1. Types' /\ wish' # "release"
    BY <1>4 DEF ActivateNow, Paste, ImportReceipt, Import
  <2>2. mem # None /\ parked' \in {parked, None}
    BY <1>4 DEF ActivateNow, Paste, ImportReceipt, Import
  <2>. QED BY <2>1, <2>2 DEF ReleaseCovered, NoneToCome
<1>10. CASE ReceiptRejected
  <2>1. /\ mem \in Facts /\ mem' \in {mem, NoReceipt(mem)} /\ disk' \in {disk, mem, NoReceipt(mem)}
        /\ parked' = parked /\ wish' = wish /\ mem # None
    BY <1>10 DEF ReceiptRejected
  <2>2. NoReceipt(mem) \in Facts /\ (Covered(mem) => Covered(NoReceipt(mem)))
    BY <2>1, Mutators
  <2>3. Types' /\ ReleaseCovered'
    BY <2>1, <2>2 DEF ReleaseCovered
  <2>4. ASSUME wish = "release" PROVE call'.kind # "activate"
    <3>1. ~Retries(NoReceipt(mem), last, parked # None, call)
      BY <2>1, <2>2, <2>4, RetriesUncovered DEF ReleaseCovered
    <3>. QED BY <1>10, <2>4, <3>1 DEF ReceiptRejected, NoneToCome
  <2>. QED BY <2>1, <2>3, <2>4 DEF NoneToCome
<1>5. CASE RemoveLicence
  <2> DEFINE s == <<mem, WithoutToken(mem), NoReceipt(WithoutToken(mem))>>
  <2>1. PICK after \in Facts, d \in Facts, ok \in BOOLEAN :
          Written(s, TRUE, after, d, ok) /\ mem' = after /\ disk' = d
    BY <1>5 DEF RemoveLicence
  <2>2. mem \in Facts /\ mem # None /\ wish' = wish /\ call' = call /\ parked' = parked
    BY <1>5 DEF RemoveLicence
  <2>3. Len(s) = 3 /\ s[2] = WithoutToken(mem) /\ s[3] = NoReceipt(WithoutToken(mem))
    OBVIOUS
  <2>. HIDE DEF s
  <2>4. Covered(s[2]) /\ Covered(s[3])
    BY <2>2, <2>3, Mutators, Zenon
  <2>5. \A i \in 2..3 : i \in {2, 3}
    OBVIOUS
  <2>6. \A i \in 2..3 : Covered(s[i])
    BY <2>4, <2>5, Zenon
  <2>7. 3 \in Nat \ {0, 1} /\ TRUE \in BOOLEAN
    OBVIOUS
  <2>8. Covered(disk) => Covered(after) /\ Covered(d)
    BY <2>1, <2>3, <2>6, <2>7, WrittenCovered, Zenon
  <2>. QED BY <2>1, <2>2, <2>8 DEF ReleaseCovered, NoneToCome
<1>6. CASE AnswerActivate
  <2>1. Types' /\ parked' = parked /\ wish' = wish /\ wish # "release" /\ mem # None
    BY <1>6 DEF AnswerActivate, Answerable, Activated, NoneToCome
  <2>. QED BY <2>1 DEF ReleaseCovered, NoneToCome
<1>7. ASSUME NEW ok \in BOOLEAN, Released(ok) PROVE IInv'
  <2>1. /\ mem \in Facts /\ mem # None /\ mem' = ReleaseDevice(mem) /\ disk' \in {mem', disk}
        /\ wish' = wish /\ parked' = parked
    BY <1>7 DEF Released, Answerable
  <2>2. ReleaseDevice(mem) \in Facts /\ Covered(ReleaseDevice(mem))
    BY <2>1, Mutators
  <2>3. ~Retries(mem', IF ok THEN "released" ELSE last, parked # None, NoCall)
    BY <2>1, <2>2, RetriesUncovered
  <2>4. call' = NoCall
    BY <1>7, <2>3 DEF Released
  <2>. QED BY <2>1, <2>2, <2>4 DEF ReleaseCovered, NoneToCome
<1>8. CASE ReleaseDone \/ ReleaseNotDone
  <2>1. CASE \E ok \in BOOLEAN : Released(ok)
    BY <1>7, <2>1
  <2>2. CASE call' = NoCall /\ UNCHANGED <<disk, mem, parked, wish>>
    BY <2>2 DEF ReleaseCovered, NoneToCome
  <2>. QED BY <1>8, <2>1, <2>2 DEF ReleaseDone, ReleaseNotDone
<1>9. CASE UNCHANGED vars
  BY <1>9 DEF vars, ReleaseCovered, NoneToCome
<1>. QED BY <1>0, <1>1, <1>2, <1>3, <1>4, <1>5, <1>6, <1>8, <1>9, <1>10 DEF Next

\* From the release's record on, disk and memory hold a fact that keeps the silent
\* activation away, after every save of every list, and no activation is under way.
THEOREM ReleaseIsCovered == Spec => []IInv
  BY InitInv, NextInv, PTL DEF Spec

\* Once the release of this device is recorded no request to activate it leaves
\* until the user takes it back (on_vault_unlocked, start_release, import_receipt,
\* handle_event_from).
THEOREM ReleaseIsFinal == Spec => ReleaseSticks
<1>1. IInv' => [call' # call /\ call'.kind = "activate" => wish' # "release"]_vars
  BY DEF IInv, NoneToCome
<1>. QED BY <1>1, ReleaseIsCovered, PTL DEF ReleaseSticks
==============================================================================
