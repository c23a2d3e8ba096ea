-------------------------- MODULE SoloBooking_proofs --------------------------
(***************************************************************************)
(* What SoloBooking.tla promises for every number of slots, holds,         *)
(* requests and ticks.                                                     *)
(*                                                                         *)
(* Each property has an inductive strengthening here:                      *)
(*   Lifecycle  what a run's program counter says of its other variables;  *)
(*   Finalized  what a run has booked so far, and what a code stands for;  *)
(*   HeldBy     which hold blocks a slot, and that nobody who has already  *)
(*              dealt with the slot settles that hold;                     *)
(*   Claims     who may sell a slot, as long as nobody has broken a claim; *)
(*   NameIsOwners  that no player has a claim to a slot which the owner    *)
(*              has entered as sold.                                       *)
(***************************************************************************)
EXTENDS SoloBooking, TLAPS

Born(h) == holdStatus[h] \notin {"unborn", "checked"}

PaysForHold == {"answer", "sync", "book", "row"}
HasSlot     == {"row", "take", "entry", "gridbook", "gridclose", "already"}
NoTarget    == {"idle", "check", "take", "entry", "gridbook", "gridclose", "already"}

RunLifecycle(r) ==
    /\ pc[r] \in PaysForHold => target[r] \in Hold
    /\ pc[r] \in PaysForHold => Born(target[r])
    /\ pc[r] \in PaysForHold \ {"answer"} => target[r] \in everVerified
    /\ pc[r] \in {"book", "row"} => todo[r] \subseteq selections[target[r]]
    /\ pc[r] \in HasSlot => at[r] \in Slot
    /\ pc[r] = "row" => at[r] \in todo[r]
    /\ pc[r] \in NoTarget => target[r] = NoHold
    /\ pc[r] = "idle" => \A s \in Slot : booking[r][s] = "none"
    /\ \A s \in Slot :
          booking[r][s] # "none" /\ target[r] # NoHold => target[r] \in everVerified

SweepLifecycle ==
    /\ sweepPc = "release" => current \in Hold
    /\ sweepPc = "release" => sweepTodo \subseteq selections[current]
    /\ \A h \in stale \union {current} : h # NoHold => Born(h) /\ expiresAt[h] <= now

Lifecycle ==
    /\ \A r \in Run : RunLifecycle(r)
    /\ \A h \in Hold : payment[h] # "none" => Born(h)
    /\ SweepLifecycle

Finalized ==
    /\ \A r \in Run : pc[r] \in {"book", "row"} =>
          \A s \in selections[target[r]] \ todo[r] : booking[r][s] = "CONFIRMED"
    /\ \A h \in Hold : finalCode[h] # NoHold =>
          /\ pc[finalCode[h]] = "done"
          /\ target[finalCode[h]] = h
          /\ Born(h)
    /\ BookedHoldIsComplete

Held(s) == status[s] = "BLOCKED" /\ heldUntil[s] # NoDeadline

\* Run r has dealt with slot s of the hold it finalizes.
RunPassed(r, s) ==
    /\ pc[r] \in {"book", "row"}
    /\ s \in selections[target[r]]
    /\ s \notin todo[r] \/ (pc[r] = "row" /\ at[r] = s)

SweepPassed(s) == sweepPc = "release" /\ s \in selections[current] \ sweepTodo

\* owner[s] is the hold that blocks s.
OwnedBy(owner) ==
    \A s \in Slot : Held(s) =>
        /\ owner[s] \in Hold
        /\ holdStatus[owner[s]] = "PAYMENT_PENDING"
        /\ s \in selections[owner[s]]
        /\ expiresAt[owner[s]] = heldUntil[s]
        /\ \A r \in Run : RunPassed(r, s) => owner[s] # target[r]
        /\ SweepPassed(s) => owner[s] # current

HeldBy ==
    /\ \A s \in Slot : status[s] = "AVAILABLE" => heldUntil[s] = NoDeadline
    /\ \E owner \in [Slot -> Hold \union {NoHold}] : OwnedBy(owner)

Claims(s) ==
    /\ \A r1, r2 \in Run : Selling(r1, s) /\ Selling(r2, s) => SameBuyer(r1, r2)
    /\ \A r \in Run, h \in Hold :
          Selling(r, s) /\ Payable(h) /\ s \in selections[h] => target[r] = h
    /\ \A g, h \in Hold :
          Payable(g) /\ Payable(h) /\ s \in selections[g] \intersect selections[h] => g = h
    /\ \A r \in Run : Selling(r, s) => status[s] = "BOOKED"
    /\ \A h \in Hold : Payable(h) /\ s \in selections[h] =>
          \/ status[s] = "BOOKED"
          \/ status[s] = "BLOCKED" /\ heldUntil[s] = expiresAt[h]

AllClaims == \A s \in Slot \ breach : Claims(s)

\* A slot that carries the name of a customer of the owner's is BOOKED, no player
\* has a claim to it, and no request is about to write such a name elsewhere
\* than on the slot it read it from.
NameIsOwners(s) ==
    /\ manualName[s] => OwnerSold(s) /\ ~Claimed(s)
    /\ \A r \in Run : pc[r] \in {"take", "gridbook", "gridclose"} /\ at[r] = s => ~seenName[r]

AllNames == \A s \in Slot \ breach : NameIsOwners(s)

(***************************************************************************)
(* Types, and the life of a run.                                           *)
(***************************************************************************)

\* The initial state is well typed and every run is at its beginning.
LEMMA InitTyped == Init => TypeOK /\ Lifecycle
BY ConstantsAssumption
   DEF Init, TypeOK, SlotStatus, HoldStatus, PaymentState, RunPc, BookingStatus, NoDeadline,
       Lifecycle, RunLifecycle, SweepLifecycle, Born, PaysForHold, HasSlot, NoTarget

\* A born hold keeps its selections and its deadline, and stays born.
HoldsOnlyGrow ==
    /\ \A h \in Hold : Born(h) => Born(h)' /\ selections'[h] = selections[h] /\ expiresAt'[h] = expiresAt[h]
    /\ everVerified \subseteq everVerified'

\* A step that leaves the runs alone leaves their invariant alone.
LEMMA RunsUntouched ==
    ASSUME TypeOK, Lifecycle, HoldsOnlyGrow, UNCHANGED runVars,
           \A r \in Run, s \in Slot : booking'[r][s] # "none" => booking[r][s] # "none",
           \A r \in Run, s \in Slot : booking[r][s] = "none" => booking'[r][s] = "none"
    PROVE  \A r \in Run : RunLifecycle(r)'
BY ConstantsAssumption
   DEF Lifecycle, RunLifecycle, HoldsOnlyGrow, runVars, TypeOK, PaysForHold, HasSlot, NoTarget, Born

\* The same for the sweep.
LEMMA SweepUntouched ==
    ASSUME TypeOK, Lifecycle, HoldsOnlyGrow, UNCHANGED sweepVars, now' >= now, now' \in Nat
    PROVE  SweepLifecycle'
BY ConstantsAssumption DEF Lifecycle, SweepLifecycle, HoldsOnlyGrow, sweepVars, TypeOK

\* The steps of a hold, of the sweep and of the clock.
LEMMA HoldTyped ==
    TypeOK /\ Lifecycle /\ (HoldStep \/ SweepStep \/ SweepCrash \/ Tick) => TypeOK' /\ Lifecycle'
<1> SUFFICES ASSUME TypeOK, Lifecycle, HoldStep \/ SweepStep \/ SweepCrash \/ Tick
             PROVE  TypeOK' /\ Lifecycle'
  OBVIOUS
<1> USE ConstantsAssumption
    DEF slotVars, holdVars, payVars, runVars, sweepVars, NoDeadline
<1>1. ASSUME NEW h \in Hold, NEW sel \in SUBSET Slot, CheckHold(h, sel) PROVE TypeOK' /\ Lifecycle'
  <2>1. TypeOK'
    BY <1>1 DEF CheckHold, TypeOK, HoldStatus
  <2>2. HoldsOnlyGrow
    BY <1>1 DEF CheckHold, TypeOK, HoldsOnlyGrow, Born
  <2>3. \A r \in Run : RunLifecycle(r)'
    BY <1>1, <2>2, RunsUntouched DEF CheckHold
  <2>4. SweepLifecycle'
    BY <1>1, <2>2, SweepUntouched DEF CheckHold, TypeOK
  <2> QED
    BY <1>1, <2>1, <2>2, <2>3, <2>4 DEF CheckHold, Lifecycle, HoldsOnlyGrow
<1>2. ASSUME NEW h \in Hold, CommitHold(h) PROVE TypeOK' /\ Lifecycle'
  <2>1. TypeOK'
    BY <1>2 DEF CommitHold, TypeOK, SlotStatus, HoldStatus
  <2>2. HoldsOnlyGrow
    BY <1>2 DEF CommitHold, TypeOK, HoldsOnlyGrow, Born
  <2>3. \A r \in Run : RunLifecycle(r)'
    BY <1>2, <2>2, RunsUntouched DEF CommitHold
  <2>4. SweepLifecycle'
    BY <1>2, <2>2, SweepUntouched DEF CommitHold, TypeOK
  <2> QED
    BY <1>2, <2>1, <2>2, <2>3, <2>4 DEF CommitHold, Lifecycle, HoldsOnlyGrow
<1>3. ASSUME NEW h \in Hold, SubmitPayment(h) PROVE TypeOK' /\ Lifecycle'
  <2>1. TypeOK'
    BY <1>3 DEF SubmitPayment, TypeOK, PaymentState
  <2>2. HoldsOnlyGrow
    BY <1>3 DEF SubmitPayment, TypeOK, HoldsOnlyGrow, Born
  <2>3. \A r \in Run : RunLifecycle(r)'
    BY <1>3, <2>2, RunsUntouched DEF SubmitPayment
  <2>4. SweepLifecycle'
    BY <1>3, <2>2, SweepUntouched DEF SubmitPayment, TypeOK
  <2> QED
    BY <1>3, <2>1, <2>2, <2>3, <2>4 DEF SubmitPayment, Lifecycle, Payable, Born, TypeOK
<1>4. ASSUME NEW h \in Hold, Reverse(h) PROVE TypeOK' /\ Lifecycle'
  <2>1. booking' \in [Run -> [Slot -> BookingStatus]]
    BY <1>4 DEF Reverse, BookingStatus, TypeOK
  <2>2. TypeOK'
    BY <1>4, <2>1 DEF Reverse, TypeOK, SlotStatus, HoldStatus, PaymentState
  <2>3. HoldsOnlyGrow
    BY <1>4 DEF Reverse, TypeOK, HoldsOnlyGrow, Born
  <2>4. \A r \in Run, s \in Slot : booking'[r][s] = "none" <=> booking[r][s] = "none"
    BY <1>4 DEF Reverse, TypeOK, Sold
  <2>5. \A r \in Run : RunLifecycle(r)'
    BY <1>4, <2>3, <2>4, RunsUntouched DEF Reverse
  <2>6. SweepLifecycle'
    BY <1>4, <2>3, SweepUntouched DEF Reverse, TypeOK
  <2> QED
    BY <1>4, <2>2, <2>3, <2>5, <2>6 DEF Reverse, Lifecycle, Born, TypeOK
<1>5. CASE SweepLoad
  <2>1. TypeOK' /\ HoldsOnlyGrow
    BY <1>5 DEF SweepLoad, StaleHolds, TypeOK, HoldsOnlyGrow, Born
  <2>2. \A r \in Run : RunLifecycle(r)'
    BY <1>5, <2>1, RunsUntouched DEF SweepLoad
  <2>3. SweepLifecycle'
    BY <1>5 DEF SweepLoad, StaleHolds, SweepLifecycle, Lifecycle, Born, TypeOK
  <2> QED
    BY <1>5, <2>1, <2>2, <2>3 DEF SweepLoad, Lifecycle, Born
<1>6. ASSUME NEW h \in Hold, SweepPick(h) PROVE TypeOK' /\ Lifecycle'
  <2>1. TypeOK' /\ HoldsOnlyGrow
    BY <1>6 DEF SweepPick, TypeOK, HoldsOnlyGrow, Born
  <2>2. \A r \in Run : RunLifecycle(r)'
    BY <1>6, <2>1, RunsUntouched DEF SweepPick
  <2>3. SweepLifecycle'
    BY <1>6 DEF SweepPick, SweepLifecycle, Lifecycle, Born, TypeOK
  <2> QED
    BY <1>6, <2>1, <2>2, <2>3 DEF SweepPick, Lifecycle, Born
<1>7. ASSUME NEW s \in Slot, SweepRelease(s) PROVE TypeOK' /\ Lifecycle'
  <2>1. TypeOK' /\ HoldsOnlyGrow
    BY <1>7 DEF SweepRelease, TypeOK, SlotStatus, HoldsOnlyGrow, Born
  <2>2. \A r \in Run : RunLifecycle(r)'
    BY <1>7, <2>1, RunsUntouched DEF SweepRelease
  <2>3. SweepLifecycle'
    BY <1>7 DEF SweepRelease, SweepLifecycle, Lifecycle, Born, TypeOK
  <2> QED
    BY <1>7, <2>1, <2>2, <2>3 DEF SweepRelease, Lifecycle, Born
<1>8. CASE SweepExpire
  <2>1. TypeOK' /\ HoldsOnlyGrow
    BY <1>8 DEF SweepExpire, TypeOK, HoldStatus, HoldsOnlyGrow, Born
  <2>2. \A r \in Run : RunLifecycle(r)'
    BY <1>8, <2>1, RunsUntouched DEF SweepExpire
  <2>3. SweepLifecycle'
    BY <1>8 DEF SweepExpire, SweepLifecycle, Lifecycle, Born, TypeOK
  <2> QED
    BY <1>8, <2>1, <2>2, <2>3 DEF SweepExpire, Lifecycle, Born, TypeOK, HoldsOnlyGrow
<1>9. CASE SweepCrash
  <2>1. TypeOK' /\ HoldsOnlyGrow
    BY <1>9 DEF SweepCrash, TypeOK, HoldsOnlyGrow, Born
  <2>2. \A r \in Run : RunLifecycle(r)'
    BY <1>9, <2>1, RunsUntouched DEF SweepCrash
  <2>3. SweepLifecycle'
    BY <1>9 DEF SweepCrash, SweepLifecycle, Lifecycle, Born, TypeOK
  <2> QED
    BY <1>9, <2>1, <2>2, <2>3 DEF SweepCrash, Lifecycle, Born
<1>10. CASE Tick
  <2>1. TypeOK' /\ HoldsOnlyGrow
    BY <1>10 DEF Tick, TypeOK, HoldsOnlyGrow, Born
  <2>2. \A r \in Run : RunLifecycle(r)'
    BY <1>10, <2>1, RunsUntouched DEF Tick
  <2>3. SweepLifecycle'
    BY <1>10, <2>1, SweepUntouched DEF Tick, TypeOK
  <2> QED
    BY <1>10, <2>1, <2>2, <2>3 DEF Tick, Lifecycle, Born
<1> QED
  BY <1>1, <1>2, <1>3, <1>4, <1>5, <1>6, <1>7, <1>8, <1>9, <1>10 DEF HoldStep, SweepStep

\* The steps of a run and the bulk operations.
LEMMA RunTyped ==
    TypeOK /\ Lifecycle /\ (RunStep \/ \E sel \in SUBSET Slot : GridBulk(sel))
        => TypeOK' /\ Lifecycle'
<1> SUFFICES ASSUME TypeOK, Lifecycle, RunStep \/ \E sel \in SUBSET Slot : GridBulk(sel)
             PROVE  TypeOK' /\ Lifecycle'
  OBVIOUS
<1> USE ConstantsAssumption
    DEF slotVars, holdVars, payVars, runVars, sweepVars, NoDeadline
<1>1. ASSUME NEW r \in Run, NEW h \in Hold, LoadPayment(r, h) PROVE TypeOK' /\ Lifecycle'
  <2>1. TypeOK'
    BY <1>1 DEF LoadPayment, TypeOK, Lifecycle, RunLifecycle, SlotStatus, HoldStatus, PaymentState, RunPc,
               PaysForHold, HasSlot
  <2>2. \A q \in Run : RunLifecycle(q)'
    BY <1>1 DEF LoadPayment, TypeOK, Lifecycle, RunLifecycle, PaysForHold, HasSlot, NoTarget, Born
  <2>3. SweepLifecycle'
    BY <1>1 DEF LoadPayment, TypeOK, Lifecycle, RunLifecycle, SweepLifecycle, Born, PaysForHold
  <2> QED
    BY <1>1, <2>1, <2>2, <2>3 DEF LoadPayment, TypeOK, Lifecycle, RunLifecycle, Born, PaysForHold
<1>2. ASSUME NEW r \in Run, AcceptPayment(r) PROVE TypeOK' /\ Lifecycle'
  <2>1. TypeOK'
    BY <1>2 DEF AcceptPayment, TypeOK, Lifecycle, RunLifecycle, SlotStatus, HoldStatus, PaymentState, RunPc,
               PaysForHold, HasSlot, AfterPaymentSaved
  <2>2. \A q \in Run : RunLifecycle(q)'
    BY <1>2 DEF AcceptPayment, TypeOK, Lifecycle, RunLifecycle, PaysForHold, HasSlot, NoTarget, Born, AfterPaymentSaved
  <2>3. SweepLifecycle'
    BY <1>2 DEF AcceptPayment, TypeOK, Lifecycle, RunLifecycle, SweepLifecycle, Born, PaysForHold
  <2> QED
    BY <1>2, <2>1, <2>2, <2>3 DEF AcceptPayment, TypeOK, Lifecycle, RunLifecycle, Born, PaysForHold
<1>3. ASSUME NEW r \in Run, RefusePayment(r) PROVE TypeOK' /\ Lifecycle'
  <2>1. TypeOK'
    BY <1>3 DEF RefusePayment, TypeOK, Lifecycle, RunLifecycle, SlotStatus, HoldStatus, PaymentState, RunPc,
               PaysForHold, HasSlot, AfterPaymentSaved
  <2>2. \A q \in Run : RunLifecycle(q)'
    BY <1>3 DEF RefusePayment, TypeOK, Lifecycle, RunLifecycle, PaysForHold, HasSlot, NoTarget, Born, AfterPaymentSaved
  <2>3. SweepLifecycle'
    BY <1>3 DEF RefusePayment, TypeOK, Lifecycle, RunLifecycle, SweepLifecycle, Born, PaysForHold
  <2> QED
    BY <1>3, <2>1, <2>2, <2>3 DEF RefusePayment, TypeOK, Lifecycle, RunLifecycle, Born, PaysForHold
<1>4. ASSUME NEW r \in Run, StartFinalize(r) PROVE TypeOK' /\ Lifecycle'
  <2>1. TypeOK'
    <3>1. pc' \in [Run -> RunPc]
      <4>1. PICK where \in {"book", "done"} : pc' = [pc EXCEPT ![r] = where]
        BY <1>4 DEF StartFinalize
      <4> QED
        BY <4>1 DEF TypeOK, RunPc
    <3>2. todo' \in [Run -> SUBSET Slot]
      BY <1>4 DEF StartFinalize, TypeOK, Lifecycle, RunLifecycle, PaysForHold
    <3> QED
      BY <1>4, <3>1, <3>2 DEF StartFinalize, TypeOK
  <2>2. \A q \in Run : RunLifecycle(q)'
    BY <1>4 DEF StartFinalize, TypeOK, Lifecycle, RunLifecycle, PaysForHold, HasSlot, NoTarget, Born
  <2>3. SweepLifecycle'
    BY <1>4 DEF StartFinalize, TypeOK, Lifecycle, RunLifecycle, SweepLifecycle, Born, PaysForHold
  <2> QED
    BY <1>4, <2>1, <2>2, <2>3 DEF StartFinalize, TypeOK, Lifecycle, RunLifecycle, Born, PaysForHold
<1>5. ASSUME NEW r \in Run, NEW s \in Slot, BookSlot(r, s) PROVE TypeOK' /\ Lifecycle'
  <2>1. TypeOK'
    BY <1>5 DEF BookSlot, TypeOK, Lifecycle, RunLifecycle, SlotStatus, HoldStatus, PaymentState, RunPc,
               PaysForHold, HasSlot
  <2>2. \A q \in Run : RunLifecycle(q)'
    BY <1>5 DEF BookSlot, TypeOK, Lifecycle, RunLifecycle, PaysForHold, HasSlot, NoTarget, Born
  <2>3. SweepLifecycle'
    BY <1>5 DEF BookSlot, TypeOK, Lifecycle, RunLifecycle, SweepLifecycle, Born, PaysForHold
  <2> QED
    BY <1>5, <2>1, <2>2, <2>3 DEF BookSlot, TypeOK, Lifecycle, RunLifecycle, Born, PaysForHold
<1>6. ASSUME NEW r \in Run, CreateBooking(r) PROVE TypeOK' /\ Lifecycle'
  <2>1. TypeOK'
    BY <1>6 DEF CreateBooking, TypeOK, Lifecycle, RunLifecycle, SlotStatus, HoldStatus, PaymentState, RunPc,
               PaysForHold, HasSlot, BookingStatus
  <2>2. \A q \in Run : RunLifecycle(q)'
    BY <1>6 DEF CreateBooking, TypeOK, Lifecycle, RunLifecycle, PaysForHold, HasSlot, NoTarget, Born, BookingStatus
  <2>3. SweepLifecycle'
    BY <1>6 DEF CreateBooking, TypeOK, Lifecycle, RunLifecycle, SweepLifecycle, Born, PaysForHold
  <2> QED
    BY <1>6, <2>1, <2>2, <2>3 DEF CreateBooking, TypeOK, Lifecycle, RunLifecycle, Born, PaysForHold
<1>7. ASSUME NEW r \in Run, SaveBooked(r) PROVE TypeOK' /\ Lifecycle'
  <2>1. TypeOK'
    BY <1>7 DEF SaveBooked, TypeOK, Lifecycle, RunLifecycle, SlotStatus, HoldStatus, PaymentState, RunPc,
               PaysForHold, HasSlot
  <2>2. \A q \in Run : RunLifecycle(q)'
    BY <1>7 DEF SaveBooked, TypeOK, Lifecycle, RunLifecycle, PaysForHold, HasSlot, NoTarget, Born
  <2>3. SweepLifecycle'
    BY <1>7 DEF SaveBooked, TypeOK, Lifecycle, RunLifecycle, SweepLifecycle, Born, PaysForHold
  <2> QED
    BY <1>7, <2>1, <2>2, <2>3 DEF SaveBooked, TypeOK, Lifecycle, RunLifecycle, Born, PaysForHold
<1>8. ASSUME NEW r \in Run, NEW sel \in SUBSET Slot, GroupStart(r, sel) PROVE TypeOK' /\ Lifecycle'
  <2>1. TypeOK'
    BY <1>8 DEF GroupStart, TypeOK, Lifecycle, RunLifecycle, SlotStatus, HoldStatus, PaymentState, RunPc,
               PaysForHold, HasSlot
  <2>2. \A q \in Run : RunLifecycle(q)'
    BY <1>8 DEF GroupStart, TypeOK, Lifecycle, RunLifecycle, PaysForHold, HasSlot, NoTarget, Born
  <2>3. SweepLifecycle'
    BY <1>8 DEF GroupStart, TypeOK, Lifecycle, RunLifecycle, SweepLifecycle, Born, PaysForHold
  <2> QED
    BY <1>8, <2>1, <2>2, <2>3 DEF GroupStart, TypeOK, Lifecycle, RunLifecycle, Born, PaysForHold
<1>9. ASSUME NEW r \in Run, NEW s \in Slot, GroupCheck(r, s) PROVE TypeOK' /\ Lifecycle'
  <2>1. TypeOK'
    <3>1. pc' \in [Run -> RunPc]
      <4>1. PICK where \in {"take", "done"} : pc' = [pc EXCEPT ![r] = where]
        BY <1>9 DEF GroupCheck
      <4> QED
        BY <4>1 DEF TypeOK, RunPc
    <3>2. at' \in [Run -> Slot \union {NoSlot}] /\ seenName' \in [Run -> BOOLEAN]
      <4>1. CASE UNCHANGED <<at, seenName>>
        BY <4>1 DEF TypeOK
      <4>2. CASE /\ at' = [at EXCEPT ![r] = s]
                 /\ seenName' = [seenName EXCEPT ![r] = manualName[s]]
        <5>1. manualName[s] \in BOOLEAN
          BY DEF TypeOK
        <5> QED
          BY <4>2, <5>1 DEF TypeOK
      <4> QED
        BY <1>9, <4>1, <4>2 DEF GroupCheck
    <3> QED
      BY <1>9, <3>1, <3>2 DEF GroupCheck, TypeOK
  <2>2. \A q \in Run : RunLifecycle(q)'
    BY <1>9 DEF GroupCheck, TypeOK, Lifecycle, RunLifecycle, PaysForHold, HasSlot, NoTarget, Born
  <2>3. SweepLifecycle'
    BY <1>9 DEF GroupCheck, TypeOK, Lifecycle, RunLifecycle, SweepLifecycle, Born, PaysForHold
  <2> QED
    BY <1>9, <2>1, <2>2, <2>3 DEF GroupCheck, TypeOK, Lifecycle, RunLifecycle, Born, PaysForHold
<1>10. ASSUME NEW r \in Run, GroupTake(r) PROVE TypeOK' /\ Lifecycle'
  <2>1. TypeOK'
    BY <1>10 DEF GroupTake, TypeOK, Lifecycle, RunLifecycle, SlotStatus, HoldStatus, PaymentState, RunPc,
               PaysForHold, HasSlot
  <2>2. \A q \in Run : RunLifecycle(q)'
    BY <1>10 DEF GroupTake, TypeOK, Lifecycle, RunLifecycle, PaysForHold, HasSlot, NoTarget, Born
  <2>3. SweepLifecycle'
    BY <1>10 DEF GroupTake, TypeOK, Lifecycle, RunLifecycle, SweepLifecycle, Born, PaysForHold
  <2> QED
    BY <1>10, <2>1, <2>2, <2>3 DEF GroupTake, TypeOK, Lifecycle, RunLifecycle, Born, PaysForHold
<1>11. ASSUME NEW r \in Run, GroupFinish(r) PROVE TypeOK' /\ Lifecycle'
  <2>1. TypeOK'
    BY <1>11 DEF GroupFinish, TypeOK, Lifecycle, RunLifecycle, SlotStatus, HoldStatus, PaymentState, RunPc,
               PaysForHold, HasSlot
  <2>2. \A q \in Run : RunLifecycle(q)'
    BY <1>11 DEF GroupFinish, TypeOK, Lifecycle, RunLifecycle, PaysForHold, HasSlot, NoTarget, Born
  <2>3. SweepLifecycle'
    BY <1>11 DEF GroupFinish, TypeOK, Lifecycle, RunLifecycle, SweepLifecycle, Born, PaysForHold
  <2> QED
    BY <1>11, <2>1, <2>2, <2>3 DEF GroupFinish, TypeOK, Lifecycle, RunLifecycle, Born, PaysForHold
<1>12. ASSUME NEW r \in Run, NEW s \in Slot, GridCheck(r, s) PROVE TypeOK' /\ Lifecycle'
  <2>1. TypeOK'
    BY <1>12 DEF GridCheck, TypeOK, Lifecycle, RunLifecycle, SlotStatus, HoldStatus, PaymentState, RunPc,
               PaysForHold, HasSlot
  <2>2. \A q \in Run : RunLifecycle(q)'
    BY <1>12 DEF GridCheck, TypeOK, Lifecycle, RunLifecycle, PaysForHold, HasSlot, NoTarget, Born
  <2>3. SweepLifecycle'
    BY <1>12 DEF GridCheck, TypeOK, Lifecycle, RunLifecycle, SweepLifecycle, Born, PaysForHold
  <2> QED
    BY <1>12, <2>1, <2>2, <2>3 DEF GridCheck, TypeOK, Lifecycle, RunLifecycle, Born, PaysForHold
<1>13. ASSUME NEW r \in Run, GridWrite(r) PROVE TypeOK' /\ Lifecycle'
  <2>1. TypeOK'
    BY <1>13 DEF GridWrite, TypeOK, Lifecycle, RunLifecycle, SlotStatus, HoldStatus, PaymentState, RunPc,
               PaysForHold, HasSlot
  <2>2. \A q \in Run : RunLifecycle(q)'
    BY <1>13 DEF GridWrite, TypeOK, Lifecycle, RunLifecycle, PaysForHold, HasSlot, NoTarget, Born
  <2>3. SweepLifecycle'
    BY <1>13 DEF GridWrite, TypeOK, Lifecycle, RunLifecycle, SweepLifecycle, Born, PaysForHold
  <2> QED
    BY <1>13, <2>1, <2>2, <2>3 DEF GridWrite, TypeOK, Lifecycle, RunLifecycle, Born, PaysForHold
<1>14. ASSUME NEW r \in Run, NEW s \in Slot, AlreadyCheck(r, s) PROVE TypeOK' /\ Lifecycle'
  <2>1. TypeOK'
    BY <1>14 DEF AlreadyCheck, TypeOK, Lifecycle, RunLifecycle, SlotStatus, HoldStatus, PaymentState, RunPc,
               PaysForHold, HasSlot
  <2>2. \A q \in Run : RunLifecycle(q)'
    BY <1>14 DEF AlreadyCheck, TypeOK, Lifecycle, RunLifecycle, PaysForHold, HasSlot, NoTarget, Born
  <2>3. SweepLifecycle'
    BY <1>14 DEF AlreadyCheck, TypeOK, Lifecycle, RunLifecycle, SweepLifecycle, Born, PaysForHold
  <2> QED
    BY <1>14, <2>1, <2>2, <2>3 DEF AlreadyCheck, TypeOK, Lifecycle, RunLifecycle, Born, PaysForHold
<1>15. ASSUME NEW r \in Run, AlreadyWrite(r) PROVE TypeOK' /\ Lifecycle'
  <2>1. TypeOK'
    BY <1>15 DEF AlreadyWrite, TypeOK, Lifecycle, RunLifecycle, SlotStatus, HoldStatus, PaymentState, RunPc,
               PaysForHold, HasSlot
  <2>2. \A q \in Run : RunLifecycle(q)'
    BY <1>15 DEF AlreadyWrite, TypeOK, Lifecycle, RunLifecycle, PaysForHold, HasSlot, NoTarget, Born
  <2>3. SweepLifecycle'
    BY <1>15 DEF AlreadyWrite, TypeOK, Lifecycle, RunLifecycle, SweepLifecycle, Born, PaysForHold
  <2> QED
    BY <1>15, <2>1, <2>2, <2>3 DEF AlreadyWrite, TypeOK, Lifecycle, RunLifecycle, Born, PaysForHold
<1>16. ASSUME NEW sel \in SUBSET Slot, GridBulk(sel) PROVE TypeOK' /\ Lifecycle'
  <2>1. TypeOK'
    <3>1. status' \in [Slot -> SlotStatus]
      BY <1>16 DEF GridBulk, TypeOK, SlotStatus
    <3>2. manualName' \in [Slot -> BOOLEAN]
      <4>1. CASE UNCHANGED manualName
        BY <4>1 DEF TypeOK
      <4>2. CASE manualName' = [s \in Slot |-> s \in sel \/ manualName[s]]
        BY <4>2, Zenon
      <4> QED
        BY <1>16, <4>1, <4>2 DEF GridBulk
    <3> QED
      BY <1>16, <3>1, <3>2 DEF GridBulk, TypeOK
  <2>2. HoldsOnlyGrow
    BY <1>16 DEF GridBulk, HoldsOnlyGrow, Born
  <2>3. \A r \in Run : RunLifecycle(r)'
    BY <1>16, <2>2, RunsUntouched DEF GridBulk
  <2>4. SweepLifecycle'
    BY <1>16, <2>2, SweepUntouched DEF GridBulk, TypeOK
  <2> QED
    BY <1>16, <2>1, <2>3, <2>4 DEF GridBulk, Lifecycle, Born
<1> QED
  BY <1>1, <1>2, <1>3, <1>4, <1>5, <1>6, <1>7, <1>8, <1>9, <1>10, <1>11, <1>12, <1>13,
     <1>14, <1>15, <1>16 DEF RunStep

\* Types and life cycles are inductive.
LEMMA TypedStep == TypeOK /\ Lifecycle /\ [Next]_vars => TypeOK' /\ Lifecycle'
<1>1. TypeOK /\ Lifecycle /\ UNCHANGED vars => TypeOK' /\ Lifecycle'
  BY DEF TypeOK, Lifecycle, RunLifecycle, SweepLifecycle, Born,
         vars, slotVars, holdVars, payVars, runVars, sweepVars
<1> QED
  BY <1>1, HoldTyped, RunTyped DEF Next

\* In every reachable state of SoloBooking, each variable keeps to its domain.
THEOREM TypeCorrect == Spec => []TypeOK
BY InitTyped, TypedStep, PTL DEF Spec

\* No Booking row of a hold exists unless the hold's payment has been VERIFIED
\* at some time: not even when polls, sweep and reversal overlap
\* (finalize_solo_booking, called by _sync_solo_booking_hold).
THEOREM PaidBeforeBooked == Spec => []BookingOnlyIfVerified
<1>1. Lifecycle => BookingOnlyIfVerified
  BY DEF Lifecycle, RunLifecycle, BookingOnlyIfVerified
<1> QED
  BY <1>1, InitTyped, TypedStep, PTL DEF Spec

(***************************************************************************)
(* Codes: what a run has booked, and which run a hold's code names.        *)
(***************************************************************************)

LEMMA InitFinalized == Init => Finalized
BY ConstantsAssumption DEF Init, Finalized, BookedHoldIsComplete

\* A step keeps Finalized if it sets no code, books no hold, cancels no
\* Booking, and lets no run start or end the loop over its selections.
LEMMA FinalizedKept ==
    ASSUME TypeOK, Lifecycle, Finalized, HoldsOnlyGrow, UNCHANGED finalCode,
           \A h \in Hold : holdStatus'[h] = "BOOKED" => holdStatus[h] = "BOOKED",
           \A r \in Run : pc[r] = "done" => pc'[r] = "done" /\ target'[r] = target[r],
           \A r \in Run : pc'[r] \in {"book", "row"} =>
              pc[r] \in {"book", "row"} /\ target'[r] = target[r] /\ todo'[r] = todo[r],
           \A r \in Run, s \in Slot : Sold(r, s) => Sold(r, s)'
    PROVE  Finalized'
<1> USE ConstantsAssumption DEF TypeOK
<1>1. ASSUME NEW r \in Run, pc'[r] \in {"book", "row"}
      PROVE  \A s \in selections'[target'[r]] \ todo'[r] : booking'[r][s] = "CONFIRMED"
  BY <1>1 DEF Finalized, Sold, Lifecycle, RunLifecycle, HoldsOnlyGrow, PaysForHold
<1>2. ASSUME NEW h \in Hold, finalCode'[h] # NoHold
      PROVE  pc'[finalCode'[h]] = "done" /\ target'[finalCode'[h]] = h /\ Born(h)'
  BY <1>2 DEF Finalized, HoldsOnlyGrow
<1>3. BookedHoldIsComplete'
  <2> SUFFICES ASSUME NEW h \in Hold, holdStatus'[h] = "BOOKED"
               PROVE  /\ finalCode'[h] \in Run
                      /\ \A s \in selections'[h] : booking'[finalCode'[h]][s] = "CONFIRMED"
    BY DEF BookedHoldIsComplete
  <2>1. holdStatus[h] = "BOOKED" /\ selections'[h] = selections[h]
    BY DEF HoldsOnlyGrow, Born
  <2>2. finalCode[h] \in Run /\ \A s \in selections[h] : Sold(finalCode[h], s)
    BY <2>1 DEF Finalized, BookedHoldIsComplete, Sold
  <2> QED
    BY <2>1, <2>2 DEF Sold
<1> QED
  BY <1>1, <1>2, <1>3 DEF Finalized

\* Holds, sweep and clock.
LEMMA HoldFinalized ==
    TypeOK /\ Lifecycle /\ Finalized /\ (HoldStep \/ SweepStep \/ SweepCrash \/ Tick) => Finalized'
<1> SUFFICES ASSUME TypeOK, Lifecycle, Finalized, HoldStep \/ SweepStep \/ SweepCrash \/ Tick
             PROVE  Finalized'
  OBVIOUS
<1> USE ConstantsAssumption DEF slotVars, holdVars, payVars, runVars, sweepVars
<1>1. ASSUME NEW h \in Hold, NEW sel \in SUBSET Slot, CheckHold(h, sel) PROVE Finalized'
  BY <1>1, FinalizedKept DEF CheckHold, TypeOK, HoldsOnlyGrow, Born, Sold
<1>2. ASSUME NEW h \in Hold, CommitHold(h) PROVE Finalized'
  BY <1>2, FinalizedKept DEF CommitHold, TypeOK, HoldsOnlyGrow, Born, Sold
<1>3. ASSUME NEW h \in Hold, SubmitPayment(h) PROVE Finalized'
  BY <1>3, FinalizedKept DEF SubmitPayment, HoldsOnlyGrow, Born, Sold
<1>4. ASSUME NEW h \in Hold, Reverse(h) PROVE Finalized'
  <2>1. HoldsOnlyGrow
    BY <1>4 DEF Reverse, TypeOK, HoldsOnlyGrow, Born
  <2>2. \A r \in Run, s \in Slot : Sold(r, s) /\ r # finalCode[h] => Sold(r, s)'
    BY <1>4 DEF Reverse, TypeOK, Sold, CancelledWith
  <2>3. ASSUME NEW r \in Run, pc[r] \in {"book", "row"}
        PROVE  \A s \in selections'[target'[r]] \ todo'[r] : booking'[r][s] = "CONFIRMED"
    <3>1. r # finalCode[h]
      BY <2>3 DEF Finalized, TypeOK
    <3>2. target[r] \in Hold /\ \A s \in selections[target[r]] \ todo[r] : s \in Slot /\ Sold(r, s)
      BY <2>3 DEF Finalized, Lifecycle, RunLifecycle, PaysForHold, TypeOK, Sold
    <3> QED
      BY <1>4, <2>2, <3>1, <3>2 DEF Reverse, Sold
  <2>4. BookedHoldIsComplete'
    <3> SUFFICES ASSUME NEW g \in Hold, holdStatus'[g] = "BOOKED"
                 PROVE  /\ finalCode'[g] \in Run
                        /\ \A s \in selections'[g] : booking'[finalCode'[g]][s] = "CONFIRMED"
      BY DEF BookedHoldIsComplete
    <3>1. g # h /\ holdStatus[g] = "BOOKED"
      BY <1>4 DEF Reverse, TypeOK
    <3>2. finalCode[g] \in Run /\ target[finalCode[g]] = g
      BY <3>1 DEF Finalized, BookedHoldIsComplete
    <3>3. finalCode[g] # finalCode[h]
      BY <3>1, <3>2 DEF Finalized
    <3> QED
      BY <1>4, <2>2, <3>1, <3>2, <3>3 DEF Reverse, Finalized, BookedHoldIsComplete, Sold, TypeOK
  <2> QED
    BY <1>4, <2>1, <2>3, <2>4 DEF Reverse, Finalized, HoldsOnlyGrow
<1>5. CASE SweepLoad
  BY <1>5, FinalizedKept DEF SweepLoad, HoldsOnlyGrow, Born, Sold
<1>6. ASSUME NEW h \in Hold, SweepPick(h) PROVE Finalized'
  BY <1>6, FinalizedKept DEF SweepPick, HoldsOnlyGrow, Born, Sold
<1>7. ASSUME NEW s \in Slot, SweepRelease(s) PROVE Finalized'
  BY <1>7, FinalizedKept DEF SweepRelease, HoldsOnlyGrow, Born, Sold
<1>8. CASE SweepExpire
  BY <1>8, FinalizedKept DEF SweepExpire, TypeOK, HoldsOnlyGrow, Born, Sold
<1>9. CASE SweepCrash
  BY <1>9, FinalizedKept DEF SweepCrash, HoldsOnlyGrow, Born, Sold
<1>10. CASE Tick
  BY <1>10, FinalizedKept DEF Tick, HoldsOnlyGrow, Born, Sold
<1> QED
  BY <1>1, <1>2, <1>3, <1>4, <1>5, <1>6, <1>7, <1>8, <1>9, <1>10 DEF HoldStep, SweepStep

\* Runs and the bulk operations.
LEMMA RunFinalized ==
    TypeOK /\ Lifecycle /\ Finalized /\ (RunStep \/ \E sel \in SUBSET Slot : GridBulk(sel))
        => Finalized'
<1> SUFFICES ASSUME TypeOK, Lifecycle, Finalized, RunStep \/ \E sel \in SUBSET Slot : GridBulk(sel)
             PROVE  Finalized'
  OBVIOUS
<1> USE ConstantsAssumption DEF slotVars, holdVars, payVars, runVars, sweepVars
<1>1. ASSUME NEW r \in Run, NEW h \in Hold, LoadPayment(r, h) PROVE Finalized'
  BY <1>1, FinalizedKept DEF LoadPayment, TypeOK, HoldsOnlyGrow, Born, Sold
<1>2. ASSUME NEW r \in Run, AcceptPayment(r) PROVE Finalized'
  BY <1>2, FinalizedKept DEF AcceptPayment, TypeOK, HoldsOnlyGrow, Born, Sold, AfterPaymentSaved
<1>3. ASSUME NEW r \in Run, RefusePayment(r) PROVE Finalized'
  BY <1>3, FinalizedKept DEF RefusePayment, TypeOK, HoldsOnlyGrow, Born, Sold, AfterPaymentSaved
<1>4. ASSUME NEW r \in Run, StartFinalize(r) PROVE Finalized'
  <2>1. ASSUME NEW q \in Run, pc'[q] \in {"book", "row"}
        PROVE  \A s \in selections'[target'[q]] \ todo'[q] : booking'[q][s] = "CONFIRMED"
    BY <1>4, <2>1 DEF StartFinalize, Finalized, TypeOK
  <2> QED
    BY <1>4, <2>1 DEF StartFinalize, Finalized, BookedHoldIsComplete, TypeOK, Born
<1>5. ASSUME NEW r \in Run, NEW s \in Slot, BookSlot(r, s) PROVE Finalized'
  BY <1>5, FinalizedKept DEF BookSlot, TypeOK, HoldsOnlyGrow, Born, Sold
<1>6. ASSUME NEW r \in Run, CreateBooking(r) PROVE Finalized'
  <2>1. \A q \in Run, s \in Slot : Sold(q, s) => Sold(q, s)'
    BY <1>6 DEF CreateBooking, Sold, TypeOK
  <2>2. ASSUME NEW q \in Run, pc'[q] \in {"book", "row"}
        PROVE  \A s \in selections'[target'[q]] \ todo'[q] : booking'[q][s] = "CONFIRMED"
    <3>1. CASE q = r
      <4>1. pc[r] = "row" /\ at[r] \in Slot /\ target[r] \in Hold
        BY <1>6, <2>2, <3>1 DEF CreateBooking, TypeOK, Lifecycle, RunLifecycle, PaysForHold, HasSlot
      <4>2. todo'[r] = todo[r] \ {at[r]} /\ booking'[r][at[r]] = "CONFIRMED"
        <5>1. todo' = [todo EXCEPT ![r] = todo[r] \ {at[r]}]
          BY <1>6 DEF CreateBooking
        <5>2. booking' = [booking EXCEPT ![r][at[r]] = "CONFIRMED"]
          BY <1>6 DEF CreateBooking
        <5>3. booking'[r] = [booking[r] EXCEPT ![at[r]] = "CONFIRMED"] /\ booking[r] \in [Slot -> BookingStatus]
          BY <5>2 DEF TypeOK
        <5>4. booking'[r][at[r]] = "CONFIRMED"
          BY <4>1, <5>3
        <5>5. todo'[r] = todo[r] \ {at[r]}
          BY <5>1 DEF TypeOK
        <5> QED
          BY <5>4, <5>5
      <4> QED
        BY <1>6, <2>1, <3>1, <4>1, <4>2 DEF CreateBooking, Finalized, Sold, TypeOK
    <3>2. CASE q # r
      BY <1>6, <2>1, <2>2, <3>2 DEF CreateBooking, Finalized, Sold, TypeOK, Lifecycle, RunLifecycle,
                                   PaysForHold
    <3> QED
      BY <3>1, <3>2
  <2>3. BookedHoldIsComplete'
    BY <1>6, <2>1 DEF CreateBooking, Finalized, BookedHoldIsComplete, Sold, TypeOK
  <2> QED
    BY <1>6, <2>2, <2>3 DEF CreateBooking, Finalized, TypeOK, Born
<1>7. ASSUME NEW r \in Run, SaveBooked(r) PROVE Finalized'
  <2>1. target[r] \in Hold /\ Born(target[r])
        /\ \A s \in selections[target[r]] : booking[r][s] = "CONFIRMED"
    BY <1>7 DEF SaveBooked, ItemsDone, Finalized, Lifecycle, RunLifecycle, PaysForHold, TypeOK
  <2>2. BookedHoldIsComplete'
    BY <1>7, <2>1 DEF SaveBooked, Finalized, BookedHoldIsComplete, TypeOK
  <2> QED
    BY <1>7, <2>1, <2>2 DEF SaveBooked, Finalized, TypeOK, Born
<1>8. ASSUME NEW r \in Run, NEW sel \in SUBSET Slot, GroupStart(r, sel) PROVE Finalized'
  BY <1>8, FinalizedKept DEF GroupStart, TypeOK, HoldsOnlyGrow, Born, Sold
<1>9. ASSUME NEW r \in Run, NEW s \in Slot, GroupCheck(r, s) PROVE Finalized'
  BY <1>9, FinalizedKept DEF GroupCheck, TypeOK, HoldsOnlyGrow, Born, Sold
<1>10. ASSUME NEW r \in Run, GroupTake(r) PROVE Finalized'
  BY <1>10, FinalizedKept DEF GroupTake, TypeOK, HoldsOnlyGrow, Born, Sold
<1>11. ASSUME NEW r \in Run, GroupFinish(r) PROVE Finalized'
  BY <1>11, FinalizedKept DEF GroupFinish, TypeOK, HoldsOnlyGrow, Born, Sold
<1>12. ASSUME NEW r \in Run, NEW s \in Slot, GridCheck(r, s) PROVE Finalized'
  BY <1>12, FinalizedKept DEF GridCheck, TypeOK, HoldsOnlyGrow, Born, Sold
<1>13. ASSUME NEW r \in Run, GridWrite(r) PROVE Finalized'
  BY <1>13, FinalizedKept DEF GridWrite, TypeOK, HoldsOnlyGrow, Born, Sold
<1>14. ASSUME NEW r \in Run, NEW s \in Slot, AlreadyCheck(r, s) PROVE Finalized'
  BY <1>14, FinalizedKept DEF AlreadyCheck, TypeOK, HoldsOnlyGrow, Born, Sold
<1>15. ASSUME NEW r \in Run, AlreadyWrite(r) PROVE Finalized'
  BY <1>15, FinalizedKept DEF AlreadyWrite, TypeOK, HoldsOnlyGrow, Born, Sold
<1>16. ASSUME NEW sel \in SUBSET Slot, GridBulk(sel) PROVE Finalized'
  BY <1>16, FinalizedKept DEF GridBulk, HoldsOnlyGrow, Born, Sold
<1> QED
  BY <1>1, <1>2, <1>3, <1>4, <1>5, <1>6, <1>7, <1>8, <1>9, <1>10, <1>11, <1>12, <1>13,
     <1>14, <1>15, <1>16 DEF RunStep

\* Types, life cycles and codes together.
RunsInv == TypeOK /\ Lifecycle /\ Finalized

LEMMA RunsInvStep == RunsInv /\ [Next]_vars => RunsInv'
<1>1. Finalized /\ UNCHANGED vars => Finalized'
  BY DEF Finalized, BookedHoldIsComplete, Born, vars, slotVars, holdVars, payVars, runVars, sweepVars
<1> QED
  BY <1>1, TypedStep, HoldFinalized, RunFinalized DEF RunsInv, Next

LEMMA RunsInvHolds == Spec => []RunsInv
<1>1. Init => RunsInv
  BY InitTyped, InitFinalized DEF RunsInv
<1> QED
  BY <1>1, RunsInvStep, PTL DEF Spec

\* A hold that says BOOKED has a live Booking under its own code for every slot
\* it selects, however many polls finalized it at once and whatever the sweep
\* and the owner did meanwhile (finalize_solo_booking, _cancel_solo).
THEOREM BookedIsComplete == Spec => []BookedHoldIsComplete
<1>1. RunsInv => BookedHoldIsComplete
  BY DEF RunsInv, Finalized
<1> QED
  BY <1>1, RunsInvHolds, PTL

(***************************************************************************)
(* A live Booking disappears only with its own payment.                    *)
(***************************************************************************)

\* A live Booking is cancelled only in the step that reverses the payment of
\* the hold it was made for (_cancel_bookings_by_code, called by _cancel_solo):
\* an instant booking, or a booking made by another poll, is never touched.
THEOREM CancelledByOwner == Spec => CancelledOnlyByOwnReversal
<1> DEFINE ByOwner == \A r \in Run, s \in Slot :
              Sold(r, s) /\ ~Sold(r, s)' =>
                 /\ target[r] \in Hold
                 /\ payment[target[r]] = "verified" /\ payment'[target[r]] = "reversed"
<1>1. ASSUME NEW h \in Hold, RunsInv, Reverse(h) PROVE ByOwner
  <2> SUFFICES ASSUME NEW r \in Run, NEW s \in Slot, Sold(r, s), ~Sold(r, s)'
               PROVE  target[r] = h
    BY <1>1 DEF Reverse, RunsInv, TypeOK
  <2>1. r = finalCode[h]
    BY <1>1 DEF Reverse, RunsInv, TypeOK, Sold, CancelledWith
  <2> QED
    BY <1>1, <2>1, ConstantsAssumption DEF RunsInv, Finalized
<1>2. ASSUME NEW r \in Run, RunsInv, CreateBooking(r) PROVE ByOwner
  BY <1>2 DEF CreateBooking, RunsInv, TypeOK, Sold
<1>3. ASSUME UNCHANGED booking PROVE ByOwner
  BY <1>3 DEF Sold
<1>4. ASSUME HoldStep, ~UNCHANGED booking PROVE \E h \in Hold : Reverse(h)
  BY <1>4 DEF HoldStep, CheckHold, CommitHold, SubmitPayment
<1>5. ASSUME RunStep, ~UNCHANGED booking PROVE \E r \in Run : CreateBooking(r)
  BY <1>5 DEF RunStep, LoadPayment, AcceptPayment, RefusePayment, StartFinalize, BookSlot, SaveBooked,
     GroupStart, GroupCheck, GroupTake, GroupFinish, GridCheck, GridWrite, AlreadyCheck, AlreadyWrite
<1>6. ASSUME SweepStep \/ SweepCrash \/ Tick \/ \E sel \in SUBSET Slot : GridBulk(sel)
      PROVE  UNCHANGED booking
  BY <1>6 DEF SweepStep, SweepLoad, SweepPick, SweepRelease, SweepExpire, SweepCrash, Tick, GridBulk
<1>7. RunsInv /\ [Next]_vars => [ByOwner]_vars
  BY <1>1, <1>2, <1>3, <1>4, <1>5, <1>6 DEF Next
<1> QED
  BY <1>7, RunsInvHolds, PTL DEF Spec, CancelledOnlyByOwnReversal

(***************************************************************************)
(* Held slots.                                                             *)
(***************************************************************************)

LEMMA InitHeldBy == Init => HeldBy
<1> SUFFICES ASSUME Init PROVE HeldBy
  OBVIOUS
<1> DEFINE nobody == [s \in Slot |-> NoHold]
<1>1. nobody \in [Slot -> Hold \union {NoHold}] /\ OwnedBy(nobody)
  BY DEF Init, OwnedBy, Held
<1> QED
  BY <1>1 DEF HeldBy, Init

\* A step keeps HeldBy if it holds no slot, passes no slot that stays held, and
\* settles a hold only when its slots are no longer held or have been passed.
LEMMA HeldByKept ==
    ASSUME TypeOK, HeldBy, HoldsOnlyGrow,
           \A s \in Slot : status'[s] = "AVAILABLE" => heldUntil'[s] = NoDeadline,
           \A s \in Slot : Held(s)' => Held(s) /\ heldUntil'[s] = heldUntil[s],
           \A s \in Slot, r \in Run :
              Held(s)' /\ RunPassed(r, s)' => RunPassed(r, s) /\ target'[r] = target[r],
           \A s \in Slot : Held(s)' /\ SweepPassed(s)' => SweepPassed(s) /\ current' = current,
           \A h \in Hold : holdStatus[h] = "PAYMENT_PENDING" /\ holdStatus'[h] # "PAYMENT_PENDING" =>
              \A s \in selections[h] : Held(s)' =>
                 \/ \E r \in Run : RunPassed(r, s) /\ target[r] = h
                 \/ SweepPassed(s) /\ current = h
    PROVE  HeldBy'
<1>1. PICK owner \in [Slot -> Hold \union {NoHold}] : OwnedBy(owner)
  BY DEF HeldBy
<1>2. ASSUME NEW s \in Slot, Held(s)'
      PROVE  /\ owner[s] \in Hold
             /\ holdStatus'[owner[s]] = "PAYMENT_PENDING"
             /\ s \in selections'[owner[s]]
             /\ expiresAt'[owner[s]] = heldUntil'[s]
             /\ \A r \in Run : RunPassed(r, s)' => owner[s] # target'[r]
             /\ SweepPassed(s)' => owner[s] # current'
  <2>1. /\ owner[s] \in Hold /\ holdStatus[owner[s]] = "PAYMENT_PENDING"
        /\ s \in selections[owner[s]] /\ expiresAt[owner[s]] = heldUntil[s]
        /\ \A r \in Run : RunPassed(r, s) => owner[s] # target[r]
        /\ SweepPassed(s) => owner[s] # current
    BY <1>1, <1>2 DEF OwnedBy
  <2>2. Born(owner[s])
    BY <2>1 DEF Born
  <2>3. holdStatus'[owner[s]] = "PAYMENT_PENDING"
    BY <1>2, <2>1
  <2> QED
    BY <1>2, <2>1, <2>2, <2>3 DEF HoldsOnlyGrow
<1>3. OwnedBy(owner)'
  BY <1>2 DEF OwnedBy
<1> QED
  BY <1>3 DEF HeldBy

\* Holds, sweep and clock.
LEMMA HoldHeldBy ==
    TypeOK /\ Lifecycle /\ HeldBy /\ (HoldStep \/ SweepStep \/ SweepCrash \/ Tick) => HeldBy'
<1> SUFFICES ASSUME TypeOK, Lifecycle, HeldBy, HoldStep \/ SweepStep \/ SweepCrash \/ Tick
             PROVE  HeldBy'
  OBVIOUS
<1> USE ConstantsAssumption DEF slotVars, holdVars, payVars, runVars, sweepVars
<1>0. \A s \in Slot : status[s] = "AVAILABLE" => heldUntil[s] = NoDeadline
  BY DEF HeldBy
<1>1. ASSUME NEW h \in Hold, NEW sel \in SUBSET Slot, CheckHold(h, sel) PROVE HeldBy'
  <2>1. HoldsOnlyGrow
    BY <1>1 DEF CheckHold, TypeOK, HoldsOnlyGrow, Born
  <2>2. \A s \in Slot, r \in Run : RunPassed(r, s)' => RunPassed(r, s) /\ target'[r] = target[r]
    BY <1>1, <2>1 DEF CheckHold, RunPassed, HoldsOnlyGrow, Lifecycle, RunLifecycle, PaysForHold
  <2>3. \A s \in Slot : SweepPassed(s)' => SweepPassed(s) /\ current' = current
    BY <1>1, <2>1 DEF CheckHold, SweepPassed, HoldsOnlyGrow, Lifecycle, SweepLifecycle
  <2>4. \A g \in Hold : holdStatus[g] = "PAYMENT_PENDING" => holdStatus'[g] = "PAYMENT_PENDING"
    BY <1>1 DEF CheckHold, TypeOK
  <2> QED
    BY <1>0, <1>1, <2>1, <2>2, <2>3, <2>4, HeldByKept DEF CheckHold, Held
<1>2. ASSUME NEW h \in Hold, CommitHold(h) PROVE HeldBy'
  <2>1. PICK owner \in [Slot -> Hold \union {NoHold}] : OwnedBy(owner)
    BY DEF HeldBy
  <2>2. PICK taken \in [Slot -> Hold \union {NoHold}] :
           taken = [s \in Slot |-> IF s \in selections[h] THEN h ELSE owner[s]]
    OBVIOUS
  <2>3. HoldsOnlyGrow
    BY <1>2 DEF CommitHold, TypeOK, HoldsOnlyGrow, Born
  <2>4. \A r \in Run : pc[r] \in {"book", "row"} => target[r] # h
    BY <1>2 DEF CommitHold, Lifecycle, RunLifecycle, PaysForHold, Born
  <2>5. sweepPc = "release" => current # h
    BY <1>2 DEF CommitHold, Lifecycle, SweepLifecycle, Born
  <2>6. ASSUME NEW s \in Slot, Held(s)'
        PROVE  /\ taken[s] \in Hold
               /\ holdStatus'[taken[s]] = "PAYMENT_PENDING"
               /\ s \in selections'[taken[s]]
               /\ expiresAt'[taken[s]] = heldUntil'[s]
               /\ \A r \in Run : RunPassed(r, s)' => taken[s] # target'[r]
               /\ SweepPassed(s)' => taken[s] # current'
    <3>1. CASE s \in selections[h]
      BY <1>2, <2>2, <2>4, <2>5, <3>1 DEF CommitHold, TypeOK, RunPassed, SweepPassed
    <3>2. CASE s \notin selections[h]
      <4>1. Held(s) /\ heldUntil'[s] = heldUntil[s]
        BY <1>2, <2>6, <3>2 DEF CommitHold, Held
      <4> QED
        BY <1>2, <2>1, <2>2, <3>2, <4>1 DEF CommitHold, TypeOK, OwnedBy, RunPassed, SweepPassed
    <3> QED
      BY <3>1, <3>2
  <2>7. OwnedBy(taken)'
    BY <2>6 DEF OwnedBy
  <2>8. \A s \in Slot : status'[s] = "AVAILABLE" => heldUntil'[s] = NoDeadline
    BY <1>0, <1>2 DEF CommitHold
  <2> QED
    BY <2>2, <2>7, <2>8 DEF HeldBy
<1>3. ASSUME NEW h \in Hold, SubmitPayment(h) PROVE HeldBy'
  BY <1>0, <1>3, HeldByKept DEF SubmitPayment, HoldsOnlyGrow, Born, Held, RunPassed, SweepPassed
<1>4. ASSUME NEW h \in Hold, Reverse(h) PROVE HeldBy'
  <2>1. HoldsOnlyGrow
    BY <1>4 DEF Reverse, TypeOK, HoldsOnlyGrow, Born
  <2>2. \A s \in Slot : Held(s)' => Held(s) /\ heldUntil'[s] = heldUntil[s]
    BY <1>4 DEF Reverse, Held
  <2>3. ASSUME NEW s \in selections[h], holdStatus[h] = "PAYMENT_PENDING" PROVE ~Held(s)'
    BY <1>4, <2>3 DEF Reverse, Held, ReleasesSlot, TypeOK
  <2>4. \A s \in Slot : status'[s] = "AVAILABLE" => heldUntil'[s] = NoDeadline
    BY <1>0, <1>4 DEF Reverse
  <2> QED
    BY <1>4, <2>1, <2>2, <2>3, <2>4, HeldByKept DEF Reverse, TypeOK, RunPassed, SweepPassed
<1>5. CASE SweepLoad
  BY <1>0, <1>5, HeldByKept DEF SweepLoad, HoldsOnlyGrow, Born, Held, RunPassed, SweepPassed
<1>6. ASSUME NEW h \in Hold, SweepPick(h) PROVE HeldBy'
  BY <1>0, <1>6, HeldByKept DEF SweepPick, HoldsOnlyGrow, Born, Held, RunPassed, SweepPassed
<1>7. ASSUME NEW s \in Slot, SweepRelease(s) PROVE HeldBy'
  <2>1. /\ \A q \in Slot : Held(q)' => Held(q) /\ heldUntil'[q] = heldUntil[q] /\ q # s
        /\ \A q \in Slot : status'[q] = "AVAILABLE" => heldUntil'[q] = NoDeadline
    BY <1>0, <1>7 DEF SweepRelease, ReleasesSlot, Held, TypeOK
  <2> QED
    BY <1>7, <2>1, HeldByKept DEF SweepRelease, HoldsOnlyGrow, Born, RunPassed, SweepPassed
<1>8. CASE SweepExpire
  BY <1>0, <1>8, HeldByKept
     DEF SweepExpire, AllReleased, TypeOK, HoldsOnlyGrow, Born, Held, RunPassed, SweepPassed
<1>9. CASE SweepCrash
  BY <1>0, <1>9, HeldByKept DEF SweepCrash, HoldsOnlyGrow, Born, Held, RunPassed, SweepPassed
<1>10. CASE Tick
  BY <1>0, <1>10, HeldByKept DEF Tick, HoldsOnlyGrow, Born, Held, RunPassed, SweepPassed
<1> QED
  BY <1>1, <1>2, <1>3, <1>4, <1>5, <1>6, <1>7, <1>8, <1>9, <1>10 DEF HoldStep, SweepStep

\* Runs and the bulk operations.
LEMMA RunHeldBy ==
    TypeOK /\ Lifecycle /\ HeldBy /\ (RunStep \/ \E sel \in SUBSET Slot : GridBulk(sel))
        => HeldBy'
<1> SUFFICES ASSUME TypeOK, Lifecycle, HeldBy, RunStep \/ \E sel \in SUBSET Slot : GridBulk(sel)
             PROVE  HeldBy'
  OBVIOUS
<1> USE ConstantsAssumption DEF slotVars, holdVars, payVars, runVars, sweepVars
<1>0. \A s \in Slot : status[s] = "AVAILABLE" => heldUntil[s] = NoDeadline
  BY DEF HeldBy
<1>1. ASSUME NEW r \in Run, NEW h \in Hold, LoadPayment(r, h) PROVE HeldBy'
  BY <1>0, <1>1, HeldByKept
     DEF LoadPayment, TypeOK, HoldsOnlyGrow, Born, Held, RunPassed, SweepPassed
<1>2. ASSUME NEW r \in Run, AcceptPayment(r) PROVE HeldBy'
  BY <1>0, <1>2, HeldByKept
     DEF AcceptPayment, TypeOK, HoldsOnlyGrow, Born, Held, RunPassed, SweepPassed, AfterPaymentSaved
<1>3. ASSUME NEW r \in Run, RefusePayment(r) PROVE HeldBy'
  BY <1>0, <1>3, HeldByKept
     DEF RefusePayment, TypeOK, HoldsOnlyGrow, Born, Held, RunPassed, SweepPassed, AfterPaymentSaved
<1>4. ASSUME NEW r \in Run, StartFinalize(r) PROVE HeldBy'
  BY <1>0, <1>4, HeldByKept
     DEF StartFinalize, TypeOK, HoldsOnlyGrow, Born, Held, RunPassed, SweepPassed
<1>5. ASSUME NEW r \in Run, NEW s \in Slot, BookSlot(r, s) PROVE HeldBy'
  BY <1>0, <1>5, HeldByKept
     DEF BookSlot, TypeOK, HoldsOnlyGrow, Born, Held, RunPassed, SweepPassed
<1>6. ASSUME NEW r \in Run, CreateBooking(r) PROVE HeldBy'
  BY <1>0, <1>6, HeldByKept
     DEF CreateBooking, TypeOK, HoldsOnlyGrow, Born, Held, RunPassed, SweepPassed
<1>7. ASSUME NEW r \in Run, SaveBooked(r) PROVE HeldBy'
  BY <1>0, <1>7, HeldByKept
     DEF SaveBooked, TypeOK, HoldsOnlyGrow, Born, Held, RunPassed, SweepPassed, ItemsDone, Lifecycle, RunLifecycle, PaysForHold
<1>8. ASSUME NEW r \in Run, NEW sel \in SUBSET Slot, GroupStart(r, sel) PROVE HeldBy'
  BY <1>0, <1>8, HeldByKept
     DEF GroupStart, TypeOK, HoldsOnlyGrow, Born, Held, RunPassed, SweepPassed
<1>9. ASSUME NEW r \in Run, NEW s \in Slot, GroupCheck(r, s) PROVE HeldBy'
  BY <1>0, <1>9, HeldByKept
     DEF GroupCheck, TypeOK, HoldsOnlyGrow, Born, Held, RunPassed, SweepPassed
<1>10. ASSUME NEW r \in Run, GroupTake(r) PROVE HeldBy'
  BY <1>0, <1>10, HeldByKept
     DEF GroupTake, TypeOK, HoldsOnlyGrow, Born, Held, RunPassed, SweepPassed
<1>11. ASSUME NEW r \in Run, GroupFinish(r) PROVE HeldBy'
  BY <1>0, <1>11, HeldByKept
     DEF GroupFinish, TypeOK, HoldsOnlyGrow, Born, Held, RunPassed, SweepPassed
<1>12. ASSUME NEW r \in Run, NEW s \in Slot, GridCheck(r, s) PROVE HeldBy'
  BY <1>0, <1>12, HeldByKept
     DEF GridCheck, TypeOK, HoldsOnlyGrow, Born, Held, RunPassed, SweepPassed
<1>13. ASSUME NEW r \in Run, GridWrite(r) PROVE HeldBy'
  BY <1>0, <1>13, HeldByKept
     DEF GridWrite, TypeOK, HoldsOnlyGrow, Born, Held, RunPassed, SweepPassed
<1>14. ASSUME NEW r \in Run, NEW s \in Slot, AlreadyCheck(r, s) PROVE HeldBy'
  BY <1>0, <1>14, HeldByKept
     DEF AlreadyCheck, TypeOK, HoldsOnlyGrow, Born, Held, RunPassed, SweepPassed
<1>15. ASSUME NEW r \in Run, AlreadyWrite(r) PROVE HeldBy'
  BY <1>0, <1>15, HeldByKept
     DEF AlreadyWrite, TypeOK, HoldsOnlyGrow, Born, Held, RunPassed, SweepPassed
<1>16. ASSUME NEW sel \in SUBSET Slot, GridBulk(sel) PROVE HeldBy'
  BY <1>0, <1>16, HeldByKept DEF GridBulk, HoldsOnlyGrow, Born, Held, RunPassed, SweepPassed
<1> QED
  BY <1>1, <1>2, <1>3, <1>4, <1>5, <1>6, <1>7, <1>8, <1>9, <1>10, <1>11, <1>12, <1>13,
     <1>14, <1>15, <1>16 DEF RunStep

\* No slot is left on hold for nobody: whatever polls, sweeps (a crashed one
\* included), reversals and the owner's grid do, a slot blocked until a
\* deadline belongs to a pending hold with that deadline (hold_slots,
\* release_slots, sweep_solo_booking_timeouts).
THEOREM NoOrphanedHold == Spec => []HeldSlotHasPendingHold
<1>1. HeldBy /\ UNCHANGED vars => HeldBy'
  BY DEF HeldBy, OwnedBy, Held, RunPassed, SweepPassed,
         vars, slotVars, holdVars, payVars, runVars, sweepVars
<1>2. RunsInv /\ HeldBy /\ [Next]_vars => HeldBy'
  BY <1>1, HoldHeldBy, RunHeldBy DEF RunsInv, Next
<1>3. HeldBy => HeldSlotHasPendingHold
  BY DEF HeldBy, OwnedBy, Held, HeldSlotHasPendingHold
<1> QED
  BY <1>2, <1>3, InitHeldBy, RunsInvHolds, PTL DEF Spec

(***************************************************************************)
(* Claims.                                                                 *)
(***************************************************************************)

LEMMA InitClaims == Init => AllClaims
<1> SUFFICES ASSUME Init, NEW s \in Slot PROVE Claims(s)
  BY DEF AllClaims
<1>1. /\ \A r \in Run : ~Selling(r, s)
      /\ \A h \in Hold : ~Payable(h)
  BY DEF Init, Selling, Sold, MidSale, Payable
<1> QED
  BY <1>1 DEF Claims

\* Nobody has a claim to a slot that IsSlotAvailable lets through.
LEMMA AvailableIsUnclaimed ==
    ASSUME TypeOK, NEW s \in Slot, Claims(s), IsSlotAvailable(s)
    PROVE  /\ \A r \in Run : ~Selling(r, s)
           /\ \A h \in Hold : Payable(h) => s \notin selections[h]
<1>1. \A r \in Run : ~Selling(r, s)
  BY DEF Claims, IsSlotAvailable
<1>2. ASSUME NEW h \in Hold, Payable(h), s \in selections[h] PROVE FALSE
  <2>1. expiresAt[h] \in Nat /\ now \in Nat /\ ~(now >= expiresAt[h])
    BY <1>2 DEF TypeOK, Payable, IsPaymentExpired
  <2>2. status[s] = "BOOKED" \/ (status[s] = "BLOCKED" /\ heldUntil[s] = expiresAt[h])
    BY <1>2 DEF Claims
  <2> QED
    BY <2>1, <2>2 DEF IsSlotAvailable
<1> QED
  BY <1>1, <1>2

\* A step that leaves slot s alone keeps its claims if nobody starts to sell it
\* and no hold becomes payable.
LEMMA ClaimsKept ==
    ASSUME NEW s \in Slot, Claims(s),
           status'[s] = status[s], heldUntil'[s] = heldUntil[s],
           \A r \in Run : Selling(r, s)' => Selling(r, s) /\ target'[r] = target[r],
           \A h \in Hold : Payable(h)' =>
              Payable(h) /\ selections'[h] = selections[h] /\ expiresAt'[h] = expiresAt[h]
    PROVE  Claims(s)'
<1>1. \A r1, r2 \in Run : Selling(r1, s)' /\ Selling(r2, s)' => SameBuyer(r1, r2)'
  BY DEF Claims, SameBuyer
<1>2. \A r \in Run, h \in Hold :
         Selling(r, s)' /\ Payable(h)' /\ s \in selections'[h] => target'[r] = h
  BY DEF Claims
<1>3. \A g, h \in Hold :
         Payable(g)' /\ Payable(h)' /\ s \in selections'[g] \intersect selections'[h] => g = h
  BY DEF Claims
<1>4. \A r \in Run : Selling(r, s)' => status'[s] = "BOOKED"
  BY DEF Claims
<1>5. \A h \in Hold : Payable(h)' /\ s \in selections'[h] =>
         status'[s] = "BOOKED" \/ (status'[s] = "BLOCKED" /\ heldUntil'[s] = expiresAt'[h])
  BY DEF Claims
<1> QED
  BY <1>1, <1>2, <1>3, <1>4, <1>5 DEF Claims

\* A step may write a slot nobody has a claim to, if it leaves it unclaimed.
LEMMA UnclaimedStays ==
    ASSUME NEW s \in Slot,
           \A r \in Run : ~Selling(r, s)',
           \A h \in Hold : Payable(h)' => s \notin selections'[h]
    PROVE  Claims(s)'
BY DEF Claims

\* Holds, sweep and clock.
LEMMA HoldClaims ==
    TypeOK /\ Lifecycle /\ AllClaims /\ (HoldStep \/ SweepStep \/ SweepCrash \/ Tick) => AllClaims'
<1> SUFFICES ASSUME TypeOK, Lifecycle, AllClaims, HoldStep \/ SweepStep \/ SweepCrash \/ Tick,
                    NEW s \in Slot \ breach'
             PROVE  Claims(s)'
  BY DEF AllClaims
<1> USE ConstantsAssumption DEF slotVars, holdVars, payVars, runVars, sweepVars
<1>0. ASSUME breach \subseteq breach' PROVE Claims(s)
  BY <1>0 DEF AllClaims
<1>1. ASSUME NEW h \in Hold, NEW sel \in SUBSET Slot, CheckHold(h, sel) PROVE Claims(s)'
  <2>1. \A g \in Hold : Payable(g)' =>
           Payable(g) /\ selections'[g] = selections[g] /\ expiresAt'[g] = expiresAt[g]
    BY <1>1 DEF CheckHold, TypeOK, Payable, IsPaymentExpired
  <2> QED
    BY <1>0, <1>1, <2>1, ClaimsKept DEF CheckHold, Selling, Sold, MidSale
<1>2. ASSUME NEW h \in Hold, CommitHold(h) PROVE Claims(s)'
  <2>1. Claims(s)
    BY <1>0, <1>2 DEF CommitHold
  <2>2. /\ \A g \in Hold \ {h} : Payable(g)' => Payable(g)
        /\ \A r \in Run : Selling(r, s)' => Selling(r, s)
    BY <1>2 DEF CommitHold, TypeOK, Payable, IsPaymentExpired, Selling, Sold, MidSale
  <2>3. CASE s \in selections[h]
    <3>1. IsSlotAvailable(s)
      BY <1>2, <2>3 DEF CommitHold
    <3>2. /\ \A r \in Run : ~Selling(r, s)'
          /\ \A g \in Hold \ {h} : Payable(g)' => s \notin selections'[g]
      BY <1>2, <2>1, <2>2, <3>1, AvailableIsUnclaimed DEF CommitHold
    <3>3. status'[s] = "BLOCKED" /\ heldUntil'[s] = expiresAt'[h]
      BY <1>2, <2>3 DEF CommitHold
    <3> QED
      BY <3>2, <3>3 DEF Claims
  <2>4. CASE s \notin selections[h]
    <3>1. status'[s] = status[s] /\ heldUntil'[s] = heldUntil[s] /\ s \notin selections'[h]
      BY <1>2, <2>4 DEF CommitHold
    <3>2. UNCHANGED <<target, selections, expiresAt>>
      BY <1>2 DEF CommitHold
    <3> QED
      BY <2>1, <2>2, <3>1, <3>2 DEF Claims, SameBuyer
  <2> QED
    BY <2>3, <2>4
<1>3. ASSUME NEW h \in Hold, SubmitPayment(h) PROVE Claims(s)'
  BY <1>0, <1>3, ClaimsKept DEF SubmitPayment, Selling, Sold, MidSale, Payable, IsPaymentExpired
<1>4. ASSUME NEW h \in Hold, Reverse(h) PROVE Claims(s)'
  <2>1. Claims(s)
    BY <1>0, <1>4 DEF Reverse
  <2>2. /\ \A g \in Hold : Payable(g)' => g # h /\ Payable(g)
        /\ UNCHANGED <<selections, expiresAt, target>>
    BY <1>4 DEF Reverse, TypeOK, Payable, IsPaymentExpired
  <2>3. \A r \in Run : Selling(r, s)' => Selling(r, s)
    BY <1>4 DEF Reverse, TypeOK, Selling, Sold, MidSale
  <2>4. CASE status'[s] = status[s] /\ heldUntil'[s] = heldUntil[s]
    BY <2>1, <2>2, <2>3, <2>4, ClaimsKept
  <2>5. CASE ~(status'[s] = status[s] /\ heldUntil'[s] = heldUntil[s])
    <3> DEFINE cancelled == IF holdStatus[h] = "CANCELLED" THEN {} ELSE CancelledWith(h)
    <3>1. s \in selections[h] /\ ~TakenFromOther(s, h)
      BY <1>4, <2>5 DEF Reverse
    <3>2. \/ status[s] = "BLOCKED"
          \/ \A r \in Run \ cancelled : ~Sold(r, s)
      BY <1>4, <2>5 DEF Reverse, ReleasesSlot
    <3>3. \A r \in Run : ~Sold(r, s)'
      <4>1. CASE status[s] = "BLOCKED"
        BY <1>4, <2>1, <4>1 DEF Reverse, Claims, Selling, Sold
      <4>2. CASE \A r \in Run \ cancelled : ~Sold(r, s)
        BY <1>4, <4>2 DEF Reverse, Sold, TypeOK
      <4> QED
        BY <3>2, <4>1, <4>2
    <3>4. \A r \in Run : ~Selling(r, s)'
      BY <1>4, <3>1, <3>3 DEF Reverse, TakenFromOther, Selling, MidSale
    <3>5. \A g \in Hold : Payable(g)' => s \notin selections'[g]
      BY <2>2, <3>1 DEF TakenFromOther
    <3> QED
      BY <3>4, <3>5, UnclaimedStays
  <2> QED
    BY <2>4, <2>5
<1>5. CASE SweepLoad
  BY <1>0, <1>5, ClaimsKept DEF SweepLoad, Selling, Sold, MidSale, Payable, IsPaymentExpired
<1>6. ASSUME NEW h \in Hold, SweepPick(h) PROVE Claims(s)'
  BY <1>0, <1>6, ClaimsKept DEF SweepPick, Selling, Sold, MidSale, Payable, IsPaymentExpired
<1>7. ASSUME NEW q \in Slot, SweepRelease(q) PROVE Claims(s)'
  <2>1. Claims(s)
    BY <1>0, <1>7 DEF SweepRelease
  <2>2. /\ \A g \in Hold : Payable(g)' <=> Payable(g)
        /\ \A r \in Run : Selling(r, s)' => Selling(r, s)
        /\ UNCHANGED <<selections, expiresAt, target>>
    BY <1>7 DEF SweepRelease, Selling, Sold, MidSale, Payable, IsPaymentExpired
  <2>3. CASE q # s \/ ~ReleasesSlot(q)
    BY <1>7, <2>1, <2>2, <2>3, ClaimsKept DEF SweepRelease, TypeOK
  <2>4. CASE q = s /\ ReleasesSlot(q)
    <3>1. ~TakenFromOther(s, current)
      BY <1>7, <2>4 DEF SweepRelease
    <3>2. current \in Hold /\ ~Payable(current)
      BY <1>7 DEF SweepRelease, Lifecycle, SweepLifecycle, Payable, IsPaymentExpired, TypeOK
    <3>3. \A g \in Hold : Payable(g)' => s \notin selections'[g]
      BY <2>2, <3>1, <3>2 DEF TakenFromOther
    <3>4. \A r \in Run : ~Selling(r, s)'
      BY <2>1, <2>2, <2>4 DEF Claims, ReleasesSlot
    <3> QED
      BY <3>3, <3>4, UnclaimedStays
  <2> QED
    BY <2>3, <2>4
<1>8. CASE SweepExpire
  BY <1>0, <1>8, ClaimsKept DEF SweepExpire, TypeOK, Selling, Sold, MidSale, Payable, IsPaymentExpired
<1>9. CASE SweepCrash
  BY <1>0, <1>9, ClaimsKept DEF SweepCrash, Selling, Sold, MidSale, Payable, IsPaymentExpired
<1>10. CASE Tick
  <2>1. \A g \in Hold : Payable(g)' => Payable(g)
    BY <1>10 DEF Tick, TypeOK, Payable, IsPaymentExpired
  <2> QED
    BY <1>0, <1>10, <2>1, ClaimsKept DEF Tick, Selling, Sold, MidSale
<1> QED
  BY <1>1, <1>2, <1>3, <1>4, <1>5, <1>6, <1>7, <1>8, <1>9, <1>10 DEF HoldStep, SweepStep

\* Runs and the bulk operations.
LEMMA RunClaims ==
    TypeOK /\ Lifecycle /\ AllClaims /\ (RunStep \/ \E sel \in SUBSET Slot : GridBulk(sel))
        => AllClaims'
<1> SUFFICES ASSUME TypeOK, Lifecycle, AllClaims, RunStep \/ \E sel \in SUBSET Slot : GridBulk(sel),
                    NEW s \in Slot \ breach'
             PROVE  Claims(s)'
  BY DEF AllClaims
<1> USE ConstantsAssumption DEF slotVars, holdVars, payVars, runVars, sweepVars
<1>0. ASSUME breach \subseteq breach' PROVE Claims(s)
  BY <1>0 DEF AllClaims
<1>1. ASSUME NEW r \in Run, NEW h \in Hold, LoadPayment(r, h) PROVE Claims(s)'
  <2>1. \A q \in Run : Selling(q, s)' => q # r /\ Selling(q, s)
    BY <1>1 DEF LoadPayment, TypeOK, Selling, Sold, MidSale, Lifecycle, RunLifecycle
  <2> QED
    BY <1>0, <1>1, <2>1, ClaimsKept DEF LoadPayment, TypeOK, Payable, IsPaymentExpired
<1>2. ASSUME NEW r \in Run, AcceptPayment(r) PROVE Claims(s)'
  BY <1>0, <1>2, ClaimsKept
     DEF AcceptPayment, TypeOK, Selling, Sold, MidSale, Payable, IsPaymentExpired, AfterPaymentSaved
<1>3. ASSUME NEW r \in Run, RefusePayment(r) PROVE Claims(s)'
  BY <1>0, <1>3, ClaimsKept
     DEF RefusePayment, TypeOK, Selling, Sold, MidSale, Payable, IsPaymentExpired, AfterPaymentSaved
<1>4. ASSUME NEW r \in Run, StartFinalize(r) PROVE Claims(s)'
  BY <1>0, <1>4, ClaimsKept
     DEF StartFinalize, TypeOK, Selling, Sold, MidSale, Payable, IsPaymentExpired
<1>5. ASSUME NEW r \in Run, NEW q \in Slot, BookSlot(r, q) PROVE Claims(s)'
  <2>1. Claims(s)
    BY <1>0, <1>5 DEF BookSlot
  <2>2. /\ \A g \in Hold : Payable(g)' <=> Payable(g)
        /\ \A p \in Run : Selling(p, s)' => Selling(p, s) \/ (p = r /\ s = q)
        /\ UNCHANGED <<selections, expiresAt, target>>
    BY <1>5 DEF BookSlot, TypeOK, Selling, Sold, MidSale, Payable, IsPaymentExpired
  <2>3. CASE s # q
    BY <1>5, <2>1, <2>2, <2>3, ClaimsKept DEF BookSlot, TypeOK
  <2>4. CASE s = q
    <3>1. target[r] \in Hold /\ s \in selections[target[r]]
      BY <1>5, <2>4 DEF BookSlot, Lifecycle, RunLifecycle, PaysForHold
    <3>2. Payable(target[r]) \/ \E p \in Run : target[p] = target[r] /\ Sold(p, s)
      BY <1>5, <2>4 DEF BookSlot
    <3>3. \A p \in Run : Selling(p, s) => target[p] = target[r]
      BY <2>1, <3>1, <3>2 DEF Claims, Selling, SameBuyer
    <3>4. \A g \in Hold : Payable(g) /\ s \in selections[g] => g = target[r]
      BY <2>1, <3>1, <3>2 DEF Claims, Selling
    <3>5. status'[s] = "BOOKED"
      BY <1>5, <2>4 DEF BookSlot, TypeOK
    <3> QED
      BY <2>2, <3>1, <3>3, <3>4, <3>5 DEF Claims, SameBuyer
  <2> QED
    BY <2>3, <2>4
<1>6. ASSUME NEW r \in Run, CreateBooking(r) PROVE Claims(s)'
  <2>1. at[r] \in Slot
    BY <1>6 DEF CreateBooking, Lifecycle, RunLifecycle, HasSlot
  <2>2. \A q \in Run : Sold(q, s)' => Sold(q, s) \/ (q = r /\ at[r] = s)
    BY <1>6, <2>1 DEF CreateBooking, TypeOK, Sold
  <2>3. \A q \in Run : MidSale(q, s)' => MidSale(q, s)
    BY <1>6 DEF CreateBooking, TypeOK, MidSale
  <2>4. \A q \in Run : Selling(q, s)' => Selling(q, s)
    BY <1>6, <2>2, <2>3 DEF CreateBooking, Selling, MidSale
  <2> QED
    BY <1>0, <1>6, <2>4, ClaimsKept DEF CreateBooking, Payable, IsPaymentExpired
<1>7. ASSUME NEW r \in Run, SaveBooked(r) PROVE Claims(s)'
  BY <1>0, <1>7, ClaimsKept
     DEF SaveBooked, TypeOK, Selling, Sold, MidSale, Payable, IsPaymentExpired
<1>8. ASSUME NEW r \in Run, NEW sel \in SUBSET Slot, GroupStart(r, sel) PROVE Claims(s)'
  BY <1>0, <1>8, ClaimsKept
     DEF GroupStart, TypeOK, Selling, Sold, MidSale, Payable, IsPaymentExpired
<1>9. ASSUME NEW r \in Run, NEW q \in Slot, GroupCheck(r, q) PROVE Claims(s)'
  BY <1>0, <1>9, ClaimsKept
     DEF GroupCheck, TypeOK, Selling, Sold, MidSale, Payable, IsPaymentExpired
<1>10. ASSUME NEW r \in Run, GroupTake(r) PROVE Claims(s)'
  <2>1. Claims(s)
    BY <1>0, <1>10 DEF GroupTake
  <2>2. /\ \A g \in Hold : Payable(g)' <=> Payable(g)
        /\ \A q \in Run : Selling(q, s)' => Selling(q, s) \/ (q = r /\ at[r] = s)
        /\ UNCHANGED <<selections, expiresAt, target>>
    BY <1>10 DEF GroupTake, TypeOK, Selling, Sold, MidSale, Payable, IsPaymentExpired
  <2>3. CASE s # at[r]
    BY <1>10, <2>1, <2>2, <2>3, ClaimsKept DEF GroupTake, TypeOK
  <2>4. CASE s = at[r]
    <3>1. status[s] = "AVAILABLE" /\ status'[s] = "BOOKED"
      BY <1>10, <2>4 DEF GroupTake, TypeOK
    <3>2. /\ \A q \in Run : ~Selling(q, s)
          /\ \A h \in Hold : Payable(h) => s \notin selections[h]
      BY <2>1, <3>1, AvailableIsUnclaimed DEF IsSlotAvailable
    <3> QED
      BY <2>2, <3>1, <3>2 DEF Claims, SameBuyer
  <2> QED
    BY <2>3, <2>4
<1>11. ASSUME NEW r \in Run, GroupFinish(r) PROVE Claims(s)'
  BY <1>0, <1>11, ClaimsKept
     DEF GroupFinish, TypeOK, Selling, Sold, MidSale, Payable, IsPaymentExpired
<1>12. ASSUME NEW r \in Run, NEW q \in Slot, GridCheck(r, q) PROVE Claims(s)'
  BY <1>0, <1>12, ClaimsKept
     DEF GridCheck, TypeOK, Selling, Sold, MidSale, Payable, IsPaymentExpired
<1>13. ASSUME NEW r \in Run, GridWrite(r) PROVE Claims(s)'
  <2>1. Claims(s)
    BY <1>0, <1>13 DEF GridWrite
  <2>2. /\ \A g \in Hold : Payable(g)' <=> Payable(g)
        /\ \A q \in Run : Selling(q, s)' => Selling(q, s)
        /\ UNCHANGED <<selections, expiresAt, target>>
    BY <1>13 DEF GridWrite, TypeOK, Selling, Sold, MidSale, Payable, IsPaymentExpired
  <2>3. CASE s # at[r]
    BY <1>13, <2>1, <2>2, <2>3, ClaimsKept DEF GridWrite, TypeOK
  <2>4. CASE s = at[r]
    <3>1. status[s] = "AVAILABLE"
      BY <1>13, <2>4 DEF GridWrite
    <3> QED
      BY <2>1, <2>2, <3>1, AvailableIsUnclaimed, UnclaimedStays DEF IsSlotAvailable
  <2> QED
    BY <2>3, <2>4
<1>14. ASSUME NEW r \in Run, NEW q \in Slot, AlreadyCheck(r, q) PROVE Claims(s)'
  BY <1>0, <1>14, ClaimsKept
     DEF AlreadyCheck, TypeOK, Selling, Sold, MidSale, Payable, IsPaymentExpired
<1>15. ASSUME NEW r \in Run, AlreadyWrite(r) PROVE Claims(s)'
  <2>1. Claims(s)
    BY <1>0, <1>15 DEF AlreadyWrite
  <2>2. /\ \A g \in Hold : Payable(g)' <=> Payable(g)
        /\ \A q \in Run : Selling(q, s)' => Selling(q, s)
        /\ UNCHANGED <<selections, expiresAt, target>>
    BY <1>15 DEF AlreadyWrite, TypeOK, Selling, Sold, MidSale, Payable, IsPaymentExpired
  <2>3. status'[s] = "BOOKED" \/ UNCHANGED <<status[s], heldUntil[s]>>
    BY <1>15 DEF AlreadyWrite, TypeOK
  <2> QED
    BY <2>1, <2>2, <2>3 DEF Claims, SameBuyer
<1>16. ASSUME NEW sel \in SUBSET Slot, GridBulk(sel) PROVE Claims(s)'
  <2>1. Claims(s)
    BY <1>0, <1>16 DEF GridBulk
  <2>2. /\ \A g \in Hold : Payable(g)' <=> Payable(g)
        /\ \A q \in Run : Selling(q, s)' => Selling(q, s)
        /\ UNCHANGED <<selections, expiresAt, target, heldUntil>>
    BY <1>16 DEF GridBulk, Selling, Sold, MidSale, Payable, IsPaymentExpired
  <2>3. CASE s \notin sel
    BY <1>16, <2>1, <2>2, <2>3, ClaimsKept DEF GridBulk
  <2>4. CASE s \in sel
    <3>1. status[s] = "AVAILABLE"
      BY <1>16, <2>4 DEF GridBulk
    <3> QED
      BY <2>1, <2>2, <3>1, AvailableIsUnclaimed, UnclaimedStays DEF IsSlotAvailable
  <2> QED
    BY <2>3, <2>4
<1> QED
  BY <1>1, <1>2, <1>3, <1>4, <1>5, <1>6, <1>7, <1>8, <1>9, <1>10, <1>11, <1>12, <1>13,
     <1>14, <1>15, <1>16 DEF RunStep

LEMMA ClaimsHold == Spec => []AllClaims
<1>1. AllClaims /\ UNCHANGED vars => AllClaims'
  BY DEF AllClaims, Claims, Selling, Sold, MidSale, SameBuyer, Payable, IsPaymentExpired,
         vars, slotVars, holdVars, payVars, runVars, sweepVars
<1>2. RunsInv /\ AllClaims /\ [Next]_vars => AllClaims'
  BY <1>1, HoldClaims, RunClaims DEF RunsInv, Next
<1> QED
  BY <1>2, InitClaims, RunsInvHolds, PTL DEF Spec

\* As long as no step has written the slot against a claim, the slot of a live
\* Booking says BOOKED (create_booking_group, finalize_team_slots_as_booked,
\* _free_booked_slots, release_slots).
THEOREM SoldIsBooked == Spec => []SoldSlotIsBooked
<1>1. AllClaims => SoldSlotIsBooked
  BY DEF AllClaims, Claims, Selling, SoldSlotIsBooked
<1> QED
  BY <1>1, ClaimsHold, PTL

(***************************************************************************)
(* Customers of the owner's.                                               *)
(***************************************************************************)

\* A step that leaves the name and the status of slot s alone keeps NameIsOwners
\* if no player gets a claim and no request reads the slot.
LEMMA NameKept ==
    ASSUME NEW s \in Slot, NameIsOwners(s),
           status'[s] = status[s], manualName'[s] = manualName[s],
           Claimed(s)' => Claimed(s),
           \A r \in Run : pc'[r] \in {"take", "gridbook", "gridclose"} /\ at'[r] = s =>
              /\ pc[r] \in {"take", "gridbook", "gridclose"} /\ at[r] = s
              /\ seenName'[r] = seenName[r]
    PROVE  NameIsOwners(s)'
BY DEF NameIsOwners, OwnerSold

LEMMA InitNames == Init => AllNames
BY DEF Init, AllNames, NameIsOwners, OwnerSold

\* Holds, sweep and clock.
LEMMA HoldNames ==
    TypeOK /\ Lifecycle /\ AllNames /\ (HoldStep \/ SweepStep \/ SweepCrash \/ Tick) => AllNames'
<1> SUFFICES ASSUME TypeOK, Lifecycle, AllNames, HoldStep \/ SweepStep \/ SweepCrash \/ Tick,
                    NEW s \in Slot \ breach'
             PROVE  NameIsOwners(s)'
  BY DEF AllNames
<1> USE ConstantsAssumption DEF slotVars, holdVars, payVars, runVars, sweepVars
<1>0. ASSUME breach \subseteq breach' PROVE NameIsOwners(s)
  BY <1>0 DEF AllNames
<1>1. ASSUME NEW h \in Hold, NEW sel \in SUBSET Slot, CheckHold(h, sel) PROVE NameIsOwners(s)'
  <2>1. \A g \in Hold : Payable(g)' => Payable(g) /\ selections'[g] = selections[g]
    BY <1>1 DEF CheckHold, TypeOK, Payable, IsPaymentExpired
  <2>2. Claimed(s)' => Claimed(s)
    BY <1>1, <2>1 DEF CheckHold, Claimed, Selling, Sold, MidSale
  <2> QED
    BY <1>0, <1>1, <2>2, NameKept DEF CheckHold
<1>2. ASSUME NEW h \in Hold, CommitHold(h) PROVE NameIsOwners(s)'
  <2>1. NameIsOwners(s)
    BY <1>0, <1>2 DEF CommitHold
  <2>2. CASE s \in selections[h]
    <3>1. status[s] # "BOOKED"
      BY <1>2, <2>2 DEF CommitHold, IsSlotAvailable
    <3>2. ~manualName[s]
      BY <2>1, <3>1 DEF NameIsOwners, OwnerSold
    <3> QED
      BY <1>2, <2>1, <3>2 DEF CommitHold, NameIsOwners
  <2>3. CASE s \notin selections[h]
    <3>1. \A g \in Hold : Payable(g)' /\ s \in selections'[g] => Payable(g) /\ s \in selections[g]
      BY <1>2, <2>3 DEF CommitHold, TypeOK, Payable, IsPaymentExpired
    <3>2. Claimed(s)' => Claimed(s)
      BY <1>2, <3>1 DEF CommitHold, Claimed, Selling, Sold, MidSale
    <3> QED
      BY <1>2, <2>1, <2>3, <3>2, NameKept DEF CommitHold
  <2> QED
    BY <2>2, <2>3
<1>3. ASSUME NEW h \in Hold, SubmitPayment(h) PROVE NameIsOwners(s)'
  BY <1>0, <1>3, NameKept
     DEF SubmitPayment, Claimed, Selling, Sold, MidSale, Payable, IsPaymentExpired
<1>4. ASSUME NEW h \in Hold, Reverse(h) PROVE NameIsOwners(s)'
  <2>1. NameIsOwners(s)
    BY <1>0, <1>4 DEF Reverse
  <2>2. \A g \in Hold : Payable(g)' => Payable(g)
    BY <1>4 DEF Reverse, TypeOK, Payable, IsPaymentExpired
  <2>3. \A r \in Run : Selling(r, s)' => Selling(r, s)
    BY <1>4 DEF Reverse, TypeOK, Selling, Sold, MidSale
  <2>4. Claimed(s)' => Claimed(s)
    BY <1>4, <2>2, <2>3 DEF Reverse, Claimed
  <2>5. CASE status'[s] = status[s]
    BY <1>4, <2>1, <2>4, <2>5, NameKept DEF Reverse
  <2>6. CASE status'[s] # status[s]
    <3>1. ~TakenFromOther(s, h)
      BY <1>4, <2>6 DEF Reverse
    <3>2. ~manualName[s]
      BY <2>1, <3>1 DEF TakenFromOther, NameIsOwners
    <3> QED
      BY <1>4, <2>1, <3>2 DEF Reverse, NameIsOwners
  <2> QED
    BY <2>5, <2>6
<1>5. CASE SweepLoad
  BY <1>0, <1>5, NameKept DEF SweepLoad, Claimed, Selling, Sold, MidSale, Payable, IsPaymentExpired
<1>6. ASSUME NEW h \in Hold, SweepPick(h) PROVE NameIsOwners(s)'
  BY <1>0, <1>6, NameKept DEF SweepPick, Claimed, Selling, Sold, MidSale, Payable, IsPaymentExpired
<1>7. ASSUME NEW q \in Slot, SweepRelease(q) PROVE NameIsOwners(s)'
  <2>1. NameIsOwners(s)
    BY <1>0, <1>7 DEF SweepRelease
  <2>2. Claimed(s)' => Claimed(s)
    BY <1>7 DEF SweepRelease, Claimed, Selling, Sold, MidSale, Payable, IsPaymentExpired
  <2>3. manualName[s] => status'[s] = status[s]
    BY <1>7, <2>1 DEF SweepRelease, ReleasesSlot, NameIsOwners, OwnerSold, TypeOK
  <2> QED
    BY <1>7, <2>1, <2>2, <2>3 DEF SweepRelease, NameIsOwners, OwnerSold
<1>8. CASE SweepExpire
  <2>1. \A g \in Hold : Payable(g)' => Payable(g)
    BY <1>8 DEF SweepExpire, TypeOK, Payable, IsPaymentExpired
  <2>2. Claimed(s)' => Claimed(s)
    BY <1>8, <2>1 DEF SweepExpire, Claimed, Selling, Sold, MidSale
  <2> QED
    BY <1>0, <1>8, <2>2, NameKept DEF SweepExpire
<1>9. CASE SweepCrash
  BY <1>0, <1>9, NameKept DEF SweepCrash, Claimed, Selling, Sold, MidSale, Payable, IsPaymentExpired
<1>10. CASE Tick
  <2>1. \A g \in Hold : Payable(g)' => Payable(g)
    BY <1>10 DEF Tick, TypeOK, Payable, IsPaymentExpired
  <2>2. Claimed(s)' => Claimed(s)
    BY <1>10, <2>1 DEF Tick, Claimed, Selling, Sold, MidSale
  <2> QED
    BY <1>0, <1>10, <2>2, NameKept DEF Tick
<1> QED
  BY <1>1, <1>2, <1>3, <1>4, <1>5, <1>6, <1>7, <1>8, <1>9, <1>10 DEF HoldStep, SweepStep

\* Runs and the bulk operations.
LEMMA RunNames ==
    TypeOK /\ Lifecycle /\ AllClaims /\ AllNames
        /\ (RunStep \/ \E sel \in SUBSET Slot : GridBulk(sel))
        => AllNames'
<1> SUFFICES ASSUME TypeOK, Lifecycle, AllClaims, AllNames,
                    RunStep \/ \E sel \in SUBSET Slot : GridBulk(sel),
                    NEW s \in Slot \ breach'
             PROVE  NameIsOwners(s)'
  BY DEF AllNames
<1> USE ConstantsAssumption DEF slotVars, holdVars, payVars, runVars, sweepVars
<1>0. ASSUME breach \subseteq breach' PROVE NameIsOwners(s) /\ Claims(s)
  BY <1>0 DEF AllNames, AllClaims
<1>a. ASSUME status[s] = "AVAILABLE", Claims(s) PROVE ~Claimed(s)
  BY <1>a, AvailableIsUnclaimed DEF Claimed, IsSlotAvailable
<1>1. ASSUME NEW r \in Run, NEW h \in Hold, LoadPayment(r, h) PROVE NameIsOwners(s)'
  BY <1>0, <1>1, NameKept
     DEF LoadPayment, TypeOK, Claimed, Selling, Sold, MidSale, Payable, IsPaymentExpired
<1>2. ASSUME NEW r \in Run, AcceptPayment(r) PROVE NameIsOwners(s)'
  BY <1>0, <1>2, NameKept
     DEF AcceptPayment, AfterPaymentSaved, TypeOK, Claimed, Selling, Sold, MidSale, Payable, IsPaymentExpired
<1>3. ASSUME NEW r \in Run, RefusePayment(r) PROVE NameIsOwners(s)'
  BY <1>0, <1>3, NameKept
     DEF RefusePayment, AfterPaymentSaved, TypeOK, Claimed, Selling, Sold, MidSale, Payable, IsPaymentExpired
<1>4. ASSUME NEW r \in Run, StartFinalize(r) PROVE NameIsOwners(s)'
  BY <1>0, <1>4, NameKept
     DEF StartFinalize, TypeOK, Claimed, Selling, Sold, MidSale, Payable, IsPaymentExpired
<1>5. ASSUME NEW r \in Run, NEW q \in Slot, BookSlot(r, q) PROVE NameIsOwners(s)'
  <2>1. NameIsOwners(s) /\ Claims(s)
    BY <1>0, <1>5 DEF BookSlot
  <2>2. CASE s # q
    <3>1. Claimed(s)' => Claimed(s)
      BY <1>5, <2>2 DEF BookSlot, TypeOK, Claimed, Selling, Sold, MidSale, Payable, IsPaymentExpired
    <3> QED
      BY <1>5, <2>1, <2>2, <3>1, NameKept DEF BookSlot, TypeOK
  <2>3. CASE s = q
    <3>1. target[r] \in Hold /\ s \in selections[target[r]]
      BY <1>5, <2>3 DEF BookSlot, Lifecycle, RunLifecycle, PaysForHold
    <3>2. Claimed(s)
      BY <1>5, <2>3, <3>1 DEF BookSlot, Claimed, Selling
    <3> QED
      BY <1>5, <2>1, <3>2 DEF BookSlot, TypeOK, NameIsOwners
  <2> QED
    BY <2>2, <2>3
<1>6. ASSUME NEW r \in Run, CreateBooking(r) PROVE NameIsOwners(s)'
  <2>1. at[r] \in Slot
    BY <1>6 DEF CreateBooking, Lifecycle, RunLifecycle, HasSlot
  <2>2. \A q \in Run : Sold(q, s)' => Sold(q, s) \/ (q = r /\ at[r] = s)
    BY <1>6, <2>1 DEF CreateBooking, TypeOK, Sold
  <2>3. \A q \in Run : MidSale(q, s)' => MidSale(q, s)
    BY <1>6 DEF CreateBooking, TypeOK, MidSale
  <2>4. Claimed(s)' => Claimed(s)
    BY <1>6, <2>2, <2>3 DEF CreateBooking, Claimed, Selling, MidSale, Payable, IsPaymentExpired
  <2> QED
    BY <1>0, <1>6, <2>4, NameKept DEF CreateBooking, TypeOK
<1>7. ASSUME NEW r \in Run, SaveBooked(r) PROVE NameIsOwners(s)'
  <2>1. \A g \in Hold : Payable(g)' => Payable(g)
    BY <1>7 DEF SaveBooked, TypeOK, Payable, IsPaymentExpired
  <2>2. Claimed(s)' => Claimed(s)
    BY <1>7, <2>1 DEF SaveBooked, TypeOK, Claimed, Selling, Sold, MidSale
  <2> QED
    BY <1>0, <1>7, <2>2, NameKept DEF SaveBooked, TypeOK
<1>8. ASSUME NEW r \in Run, NEW sel \in SUBSET Slot, GroupStart(r, sel) PROVE NameIsOwners(s)'
  BY <1>0, <1>8, NameKept
     DEF GroupStart, TypeOK, Claimed, Selling, Sold, MidSale, Payable, IsPaymentExpired
<1>9. ASSUME NEW r \in Run, NEW q \in Slot, GroupCheck(r, q) PROVE NameIsOwners(s)'
  <2>1. NameIsOwners(s)
    BY <1>0, <1>9 DEF GroupCheck
  <2>2. Claimed(s)' => Claimed(s)
    BY <1>9 DEF GroupCheck, TypeOK, Claimed, Selling, Sold, MidSale, Payable, IsPaymentExpired
  <2>3. CASE status[q] = "AVAILABLE" /\ q = s
    <3>1. ~manualName[s]
      BY <2>1, <2>3 DEF NameIsOwners, OwnerSold
    <3>2. pc' = [pc EXCEPT ![r] = "take"] /\ at' = [at EXCEPT ![r] = s]
          /\ seenName' = [seenName EXCEPT ![r] = manualName[s]]
      BY <1>9, <2>3 DEF GroupCheck
    <3> QED
      BY <1>9, <2>1, <3>1, <3>2 DEF GroupCheck, TypeOK, NameIsOwners
  <2>4. CASE ~(status[q] = "AVAILABLE" /\ q = s)
    BY <1>9, <2>1, <2>2, <2>4, NameKept DEF GroupCheck, TypeOK
  <2> QED
    BY <2>3, <2>4
<1>10. ASSUME NEW r \in Run, GroupTake(r) PROVE NameIsOwners(s)'
  <2>1. NameIsOwners(s)
    BY <1>0, <1>10 DEF GroupTake
  <2>2. CASE s # at[r]
    <3>1. Claimed(s)' => Claimed(s)
      BY <1>10, <2>2 DEF GroupTake, TypeOK, Claimed, Selling, Sold, MidSale, Payable, IsPaymentExpired
    <3> QED
      BY <1>10, <2>1, <2>2, <3>1, NameKept DEF GroupTake, TypeOK
  <2>3. CASE s = at[r]
    BY <1>10, <2>1, <2>3 DEF GroupTake, TypeOK, NameIsOwners
  <2> QED
    BY <2>2, <2>3
<1>11. ASSUME NEW r \in Run, GroupFinish(r) PROVE NameIsOwners(s)'
  BY <1>0, <1>11, NameKept
     DEF GroupFinish, TypeOK, Claimed, Selling, Sold, MidSale, Payable, IsPaymentExpired
<1>12. ASSUME NEW r \in Run, NEW q \in Slot, GridCheck(r, q) PROVE NameIsOwners(s)'
  <2>1. NameIsOwners(s)
    BY <1>0, <1>12 DEF GridCheck
  <2>2. Claimed(s)' => Claimed(s)
    BY <1>12 DEF GridCheck, TypeOK, Claimed, Selling, Sold, MidSale, Payable, IsPaymentExpired
  <2>3. CASE q = s
    <3>1. ~manualName[s]
      BY <1>12, <2>1, <2>3 DEF GridCheck, NameIsOwners, OwnerSold
    <3> QED
      BY <1>12, <2>1, <2>3, <3>1 DEF GridCheck, TypeOK, NameIsOwners
  <2>4. CASE q # s
    BY <1>12, <2>1, <2>2, <2>4, NameKept DEF GridCheck, TypeOK
  <2> QED
    BY <2>3, <2>4
<1>13. ASSUME NEW r \in Run, GridWrite(r) PROVE NameIsOwners(s)'
  <2>1. NameIsOwners(s) /\ Claims(s)
    BY <1>0, <1>13 DEF GridWrite
  <2>2. Claimed(s)' => Claimed(s)
    BY <1>13 DEF GridWrite, TypeOK, Claimed, Selling, Sold, MidSale, Payable, IsPaymentExpired
  <2>3. CASE s # at[r]
    BY <1>13, <2>1, <2>2, <2>3, NameKept DEF GridWrite, TypeOK
  <2>4. CASE s = at[r]
    <3>1. ~Claimed(s)
      BY <1>13, <1>a, <2>1, <2>4 DEF GridWrite
    <3>2. ~seenName[r]
      BY <1>13, <2>1, <2>4 DEF GridWrite, NameIsOwners
    <3>3. /\ status'[s] = IF pc[r] = "gridbook" THEN "BOOKED" ELSE "BLOCKED"
          /\ manualName'[s] = (pc[r] = "gridbook" \/ seenName[r])
      BY <1>13, <2>4 DEF GridWrite, TypeOK
    <3>4. \A q \in Run : pc'[q] \in {"take", "gridbook", "gridclose"} /\ at'[q] = s =>
             /\ pc[q] \in {"take", "gridbook", "gridclose"} /\ at[q] = s
             /\ seenName'[q] = seenName[q]
      BY <1>13 DEF GridWrite, TypeOK
    <3> QED
      BY <2>1, <2>2, <3>1, <3>2, <3>3, <3>4 DEF NameIsOwners, OwnerSold
  <2> QED
    BY <2>3, <2>4
<1>14. ASSUME NEW r \in Run, NEW q \in Slot, AlreadyCheck(r, q) PROVE NameIsOwners(s)'
  BY <1>0, <1>14, NameKept
     DEF AlreadyCheck, TypeOK, Claimed, Selling, Sold, MidSale, Payable, IsPaymentExpired
<1>15. ASSUME NEW r \in Run, AlreadyWrite(r) PROVE NameIsOwners(s)'
  <2>1. NameIsOwners(s)
    BY <1>0, <1>15 DEF AlreadyWrite
  <2>2. Claimed(s)' => Claimed(s)
    BY <1>15 DEF AlreadyWrite, TypeOK, Claimed, Selling, Sold, MidSale, Payable, IsPaymentExpired
  <2>3. CASE s # at[r]
    BY <1>15, <2>1, <2>2, <2>3, NameKept DEF AlreadyWrite, TypeOK
  <2>4. CASE s = at[r]
    <3>1. ~Claimed(s) /\ status'[s] = "BOOKED" /\ manualName'[s]
      BY <1>15, <2>4 DEF AlreadyWrite, TypeOK
    <3> QED
      BY <1>15, <2>1, <2>2, <3>1 DEF AlreadyWrite, TypeOK, NameIsOwners, OwnerSold
  <2> QED
    BY <2>3, <2>4
<1>16. ASSUME NEW sel \in SUBSET Slot, GridBulk(sel) PROVE NameIsOwners(s)'
  <2>1. NameIsOwners(s) /\ Claims(s)
    BY <1>0, <1>16 DEF GridBulk
  <2>2. Claimed(s)' => Claimed(s)
    BY <1>16 DEF GridBulk, Claimed, Selling, Sold, MidSale, Payable, IsPaymentExpired
  <2>3. CASE s \notin sel
    <3>1. status'[s] = status[s]
      BY <1>16, <2>3 DEF GridBulk
    <3>2. manualName'[s] => manualName[s]
      BY <1>16, <2>3, Zenon DEF GridBulk
    <3> QED
      BY <1>16, <2>1, <2>2, <3>1, <3>2 DEF GridBulk, NameIsOwners, OwnerSold
  <2>4. CASE s \in sel
    <3>1. ~Claimed(s) /\ ~manualName[s]
      BY <1>16, <1>a, <2>1, <2>4 DEF GridBulk, NameIsOwners, OwnerSold
    <3>2. (status'[s] = "BOOKED" /\ manualName'[s]) \/ manualName'[s] = manualName[s]
      BY <1>16, <2>4 DEF GridBulk
    <3> QED
      BY <1>16, <2>1, <2>2, <3>1, <3>2 DEF GridBulk, NameIsOwners, OwnerSold
  <2> QED
    BY <2>3, <2>4
<1> QED
  BY <1>1, <1>2, <1>3, <1>4, <1>5, <1>6, <1>7, <1>8, <1>9, <1>10, <1>11, <1>12, <1>13,
     <1>14, <1>15, <1>16 DEF RunStep

LEMMA NamesHold == Spec => []AllNames
<1>1. AllNames /\ UNCHANGED vars => AllNames'
  BY DEF AllNames, NameIsOwners, OwnerSold, Claimed, Selling, Sold, MidSale, Payable, IsPaymentExpired,
         vars, slotVars, holdVars, payVars, runVars, sweepVars
<1>2. RunsInv /\ AllClaims /\ AllNames /\ [Next]_vars => AllNames'
  BY <1>1, HoldNames, RunNames DEF RunsInv, Next
<1> QED
  BY <1>2, InitNames, RunsInvHolds, ClaimsHold, PTL DEF Spec

\* A slot is sold to two buyers, two players or a player and a customer the
\* owner has entered, only after one of the seven writes that the history
\* variable breach records (CommitHold, GroupTake, GridWrite, BookSlot,
\* SweepRelease, Reverse, AlreadyWrite); every other interleaving of the
\* module's steps is safe.
THEOREM OnlyBreachesDoubleSell == Spec => []DoubleSaleHasCause
<1>1. AllClaims /\ AllNames => DoubleSaleHasCause
  BY DEF AllClaims, Claims, Selling, AllNames, NameIsOwners, OwnerSold, Claimed, DoubleSaleHasCause
<1> QED
  BY <1>1, ClaimsHold, NamesHold, PTL

================================================================================
