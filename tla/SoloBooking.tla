------------------------------ MODULE SoloBooking ------------------------------
(***************************************************************************)
(* The slots of one pitch and everything that writes them outside a team   *)
(* booking: a player's paid hold (SoloBookingHold), the instant booking of *)
(* create_booking_group, the pitch owner's grid, the periodic sweep and    *)
(* the owner's reversal of a verified payment.                             *)
(*                                                                         *)
(* The database is PostgreSQL at READ COMMITTED and requests run in        *)
(* autocommit mode.  Hence:                                                *)
(*   - a function without transaction.atomic is one action per save();     *)
(*   - an atomic function that takes no row lock is an action that reads   *)
(*     and checks, and a later one that commits all its writes;            *)
(*   - an atomic block whose rows are locked with select_for_update is one *)
(*     action.                                                             *)
(* A request that dies simply takes no further step.  Each element of Run  *)
(* is one request (or poll), and the booking code it generates is the run  *)
(* itself: random 8-character codes are taken to be distinct.  A selection *)
(* is a set: the client is taken not to list a slot twice, and the loop    *)
(* over it may go in any order.  Each slot has exactly one Slot row.       *)
(***************************************************************************)
EXTENDS Integers

CONSTANTS
    Slot,             \* the cells (start, end) of the pitch
    Hold,             \* SoloBookingHold rows that may be created
    Run,              \* requests other than the creation of a hold
    NoHold,           \* stands for "no hold" in a run or in the sweep
    NoSlot,           \* stands for "no slot" in a run
    PayWindow,        \* PAYMENT_LIFETIME_MINUTES, in ticks
    MaxNow,           \* bound: the clock stops here
    MaxSweepCrashes   \* bound: how often the sweep dies half way

ASSUME ConstantsAssumption ==
    /\ NoHold \notin Hold \union Run
    /\ NoSlot \notin Slot
    /\ PayWindow \in Nat \ {0}
    /\ MaxNow \in Nat
    /\ MaxSweepCrashes \in Nat

VARIABLES
    status,        \* Slot.status
    heldUntil,     \* Slot.held_until
    manualName,    \* whether Slot.manual_booked_name is filled in
    holdStatus,    \* SoloBookingHold.status, or where its creation stands
    selections,    \* SoloBookingHold.selections
    expiresAt,     \* SoloBookingHold.payment_expires_at
    finalCode,     \* SoloBookingHold.final_booking_code
    payment,       \* the payment of a hold, as far as bookings can tell
    everVerified,  \* history: the holds whose payment has been VERIFIED
    pc,            \* where a run stands
    target,        \* the hold a run pays for
    todo,          \* the selections a run has still to process
    at,            \* the slot row a run has in memory
    seenName,      \* manual_booked_name of that row when it was read
    booking,       \* booking[r][s]: the Booking row with code r on slot s
    sweepPc, stale, current, sweepTodo, crashes,  \* the sweep
    now,           \* the clock
    breach         \* history: slots written against somebody's claim

slotVars  == <<status, heldUntil, manualName>>
holdVars  == <<holdStatus, selections, expiresAt, finalCode>>
payVars   == <<payment, everVerified>>
runVars   == <<pc, target, todo, at, seenName>>
sweepVars == <<sweepPc, stale, current, sweepTodo, crashes>>

vars == <<slotVars, holdVars, payVars, runVars, booking, sweepVars, now, breach>>

NoDeadline == 0    \* held_until IS NULL; a real deadline is at least PayWindow

SlotStatus == {"AVAILABLE", "BLOCKED", "BOOKED"}

\* "unborn" and "checked" are not in the database: no request yet, and a
\* request that has passed its checks and not committed.
HoldStatus == {"unborn", "checked", "PAYMENT_PENDING", "BOOKED", "CANCELLED", "EXPIRED"}

PaymentState == {"none", "submitted", "verified", "failed", "reversed"}

RunPc == {"idle", "answer", "sync", "book", "row", "check", "take", "entry",
          "gridbook", "gridclose", "already", "done"}

BookingStatus == {"none", "CONFIRMED", "CANCELLED"}

--------------------------------------------------------------------------------
(* Who has a claim to a slot.                                              *)

\* Mutant: a slot held for somebody's payment counts as free.
IsSlotAvailableIgnoringHolds(s) == status[s] # "BOOKED"

IsSlotAvailable(s) ==
    \/ status[s] = "AVAILABLE"
    \/ /\ status[s] = "BLOCKED"
       /\ heldUntil[s] # NoDeadline
       /\ now >= heldUntil[s]

\* Mutant: the filter on BLOCKED is forgotten.
ReleasesAnySlot(s) == status[s] # "AVAILABLE"

\* What release_slots updates: a BLOCKED slot, whoever blocked it.
ReleasesSlot(s) == status[s] = "BLOCKED"

IsPaymentExpired(h) == now >= expiresAt[h]

\* The player of h may still pay: submitting is refused otherwise.
Payable(h) == holdStatus[h] = "PAYMENT_PENDING" /\ ~IsPaymentExpired(h)

\* Run r has a live Booking on s, or has taken s and is about to create it.
MidSale(r, s) == pc[r] \in {"row", "entry"} /\ at[r] = s
Sold(r, s)    == booking[r][s] = "CONFIRMED"
Selling(r, s) == Sold(r, s) \/ MidSale(r, s)

\* The owner has entered a customer of his own on s: there is no Booking row,
\* the slot itself carries the customer's name.
OwnerSold(s) == status[s] = "BOOKED" /\ manualName[s]

\* Two runs that finalize the same hold sell to the same player.
SameBuyer(r1, r2) == r1 = r2 \/ (target[r1] = target[r2] /\ target[r1] \in Hold)

\* Mutant: everything sold on the hold's slots is cancelled.
CancelledWithAllNeighbours(h) == {r \in Run : \E s \in selections[h] : Sold(r, s)}

\* _cancel_bookings_by_code: only the code the hold carries.
CancelledWith(h) == {r \in Run : r = finalCode[h]}

\* Mutant: the Booking rows are synchronised whatever the payment became.
AfterPaymentSavedUnchecked(p) == "sync"

\* _sync_solo_booking_hold does nothing unless the payment is VERIFIED.
AfterPaymentSaved(p) == IF p = "verified" THEN "sync" ELSE "done"

\* Mutant: the hold is saved without waiting for the loop to end.
ItemsDoneTooEarly(r) == todo[r] \subseteq Slot

ItemsDone(r) == todo[r] = {}

\* Mutant: the sweep leaves out holds with a payment under way.
UnpaidStaleHolds ==
    {h \in Hold : holdStatus[h] = "PAYMENT_PENDING" /\ expiresAt[h] <= now /\ payment[h] = "none"}

StaleHolds == {h \in Hold : holdStatus[h] = "PAYMENT_PENDING" /\ expiresAt[h] <= now}

\* Mutant: the sweep saves the hold before its slots are released.
ReleasedTooEarly == sweepTodo \subseteq Slot

AllReleased == sweepTodo = {}

\* A player has bought s, is about to, or may still pay for it.
Claimed(s) ==
    \/ \E r \in Run : Selling(r, s)
    \/ \E h \in Hold : Payable(h) /\ s \in selections[h]

\* A slot is given back for hold h although a run is in the middle of selling
\* it, the owner has sold it himself, or another hold is still waiting for its
\* payment.
TakenFromOther(s, h) ==
    \/ \E r \in Run : MidSale(r, s)
    \/ OwnerSold(s)
    \/ \E g \in Hold \ {h} : Payable(g) /\ s \in selections[g]

--------------------------------------------------------------------------------
(* A player's hold.                                                        *)

\* create_solo_booking_hold, up to its last check: every slot is available.
CheckHold(h, sel) ==
    /\ holdStatus[h] = "unborn"
    /\ sel # {}
    /\ \A s \in sel : IsSlotAvailable(s)
    /\ now + PayWindow <= MaxNow          \* bound: the deadline can be reached
    /\ holdStatus' = [holdStatus EXCEPT ![h] = "checked"]
    /\ selections' = [selections EXCEPT ![h] = sel]
    /\ expiresAt' = [expiresAt EXCEPT ![h] = now + PayWindow]
    /\ UNCHANGED <<slotVars, finalCode, payVars, runVars, booking, sweepVars, now, breach>>

\* ... and its commit: hold_slots blocks the slots, whatever they are by now,
\* and the hold row appears.
CommitHold(h) ==
    /\ holdStatus[h] = "checked"
    /\ status' = [s \in Slot |-> IF s \in selections[h] THEN "BLOCKED" ELSE status[s]]
    /\ heldUntil' = [s \in Slot |-> IF s \in selections[h] THEN expiresAt[h] ELSE heldUntil[s]]
    /\ holdStatus' = [holdStatus EXCEPT ![h] = "PAYMENT_PENDING"]
    /\ breach' = breach \union {s \in selections[h] : ~IsSlotAvailable(s)}
    /\ UNCHANGED <<manualName, selections, expiresAt, finalCode, payVars, runVars, booking, sweepVars, now>>

\* SubmitSoloBookingPaymentView: a payment is submitted inside the window.
SubmitPayment(h) ==
    /\ Payable(h)
    /\ payment[h] \in {"none", "failed"}
    /\ payment' = [payment EXCEPT ![h] = "submitted"]
    /\ UNCHANGED <<slotVars, holdVars, everVerified, runVars, booking, sweepVars, now, breach>>

\* The submitting request itself, a poll or a reviewer has loaded the payment
\* row, not yet decided, and is waiting for the bank (or for a person).
LoadPayment(r, h) ==
    /\ pc[r] = "idle"
    /\ payment[h] = "submitted"
    /\ pc' = [pc EXCEPT ![r] = "answer"]
    /\ target' = [target EXCEPT ![r] = h]
    /\ UNCHANGED <<slotVars, holdVars, payVars, todo, at, seenName, booking, sweepVars, now, breach>>

\* The row is saved VERIFIED, from the copy in memory.
AcceptPayment(r) ==
    /\ pc[r] = "answer"
    /\ payment' = [payment EXCEPT ![target[r]] = "verified"]
    /\ everVerified' = everVerified \union {target[r]}
    /\ pc' = [pc EXCEPT ![r] = AfterPaymentSaved("verified")]
    /\ UNCHANGED <<slotVars, holdVars, target, todo, at, seenName, booking, sweepVars, now, breach>>

\* The row is saved REJECTED, or NEEDS_REVIEW, from the copy in memory; or it
\* was the row of another attempt, and what the hold had is unaffected.
RefusePayment(r) ==
    /\ pc[r] = "answer"
    /\ \E p \in {"failed", "submitted"} :
          /\ payment' = [payment EXCEPT ![target[r]] = p] \/ UNCHANGED payment
          /\ pc' = [pc EXCEPT ![r] = AfterPaymentSaved(p)]
    /\ UNCHANGED <<slotVars, holdVars, everVerified, target, todo, at, seenName, booking, sweepVars, now, breach>>

\* finalize_solo_booking loads the hold, and returns unless it is still pending.
StartFinalize(r) ==
    LET h == target[r] IN
    /\ pc[r] = "sync"
    /\ \/ /\ holdStatus[h] = "PAYMENT_PENDING"
          /\ pc' = [pc EXCEPT ![r] = "book"]
          /\ todo' = [todo EXCEPT ![r] = selections[h]]
       \/ /\ holdStatus[h] # "PAYMENT_PENDING"
          /\ pc' = [pc EXCEPT ![r] = "done"]
          /\ UNCHANGED todo
    /\ UNCHANGED <<slotVars, holdVars, payVars, target, at, seenName, booking, sweepVars, now, breach>>

\* finalize_team_slots_as_booked, first save of an item: the slot is BOOKED.
BookSlot(r, s) ==
    LET h == target[r]
        ownAlready == \E q \in Run : target[q] = h /\ Sold(q, s)
    IN
    /\ pc[r] = "book"
    /\ s \in todo[r]
    /\ status' = [status EXCEPT ![s] = "BOOKED"]
    /\ heldUntil' = [heldUntil EXCEPT ![s] = NoDeadline]
    /\ pc' = [pc EXCEPT ![r] = "row"]
    /\ at' = [at EXCEPT ![r] = s]
    /\ breach' = IF Payable(h) \/ ownAlready THEN breach ELSE breach \union {s}
    /\ UNCHANGED <<manualName, holdVars, payVars, target, todo, seenName, booking, sweepVars, now>>

\* ... and the second: its Booking row.  create_booking_group does the same.
CreateBooking(r) ==
    /\ pc[r] \in {"row", "entry"}
    /\ booking' = [booking EXCEPT ![r][at[r]] = "CONFIRMED"]
    /\ todo' = [todo EXCEPT ![r] = @ \ {at[r]}]
    /\ pc' = [pc EXCEPT ![r] = IF @ = "row" THEN "book" ELSE "check"]
    /\ at' = [at EXCEPT ![r] = NoSlot]
    /\ UNCHANGED <<slotVars, holdVars, payVars, target, seenName, sweepVars, now, breach>>

\* Mutant: the hold is given the slot row in memory instead of the code.
SaveBookedWithSlot(r) ==
    /\ pc[r] = "book"
    /\ ItemsDone(r)
    /\ finalCode' = [finalCode EXCEPT ![target[r]] = at[r]]
    /\ holdStatus' = [holdStatus EXCEPT ![target[r]] = "BOOKED"]
    /\ pc' = [pc EXCEPT ![r] = "done"]
    /\ UNCHANGED <<slotVars, selections, expiresAt, payVars, target, todo, at, seenName, booking, sweepVars, now, breach>>

\* finalize_solo_booking saves the hold, from the copy in memory.
SaveBooked(r) ==
    /\ pc[r] = "book"
    /\ ItemsDone(r)
    /\ holdStatus' = [holdStatus EXCEPT ![target[r]] = "BOOKED"]
    /\ finalCode' = [finalCode EXCEPT ![target[r]] = r]
    /\ pc' = [pc EXCEPT ![r] = "done"]
    /\ UNCHANGED <<slotVars, selections, expiresAt, payVars, target, todo, at, seenName, booking, sweepVars, now, breach>>

\* owner_reverse_verified_payment with _cancel_solo, under row locks.
Reverse(h) ==
    LET cancelled == IF holdStatus[h] = "CANCELLED" THEN {} ELSE CancelledWith(h)
        live(s)   == \E r \in Run \ cancelled : Sold(r, s)
        released  == {s \in selections[h] : holdStatus[h] = "PAYMENT_PENDING" /\ ReleasesSlot(s)}
        freed     == {s \in selections[h] : holdStatus[h] # "CANCELLED" /\ status[s] = "BOOKED" /\ ~live(s)}
        opened    == released \union freed
    IN
    /\ payment[h] = "verified"
    /\ payment' = [payment EXCEPT ![h] = "reversed"]
    /\ booking' = [r \in Run |->
                     IF r \in cancelled
                     THEN [s \in Slot |-> IF Sold(r, s) THEN "CANCELLED" ELSE booking[r][s]]
                     ELSE booking[r]]
    /\ status' = [s \in Slot |-> IF s \in opened THEN "AVAILABLE" ELSE status[s]]
    /\ heldUntil' = [s \in Slot |-> IF s \in opened THEN NoDeadline ELSE heldUntil[s]]
    /\ holdStatus' = [holdStatus EXCEPT ![h] = "CANCELLED"]
    /\ breach' = breach \union {s \in opened : TakenFromOther(s, h)}
    /\ UNCHANGED <<manualName, selections, expiresAt, finalCode, everVerified, runVars, sweepVars, now>>

--------------------------------------------------------------------------------
(* Instant bookings: create_booking_group.                                 *)

GroupStart(r, sel) ==
    /\ pc[r] = "idle"
    /\ sel # {}
    /\ pc' = [pc EXCEPT ![r] = "check"]
    /\ todo' = [todo EXCEPT ![r] = sel]
    /\ UNCHANGED <<slotVars, holdVars, payVars, target, at, seenName, booking, sweepVars, now, breach>>

\* An item whose slot is not free ends the request; what it booked stays.
GroupCheck(r, s) ==
    /\ pc[r] = "check"
    /\ s \in todo[r]
    /\ \/ /\ status[s] = "AVAILABLE"
          /\ pc' = [pc EXCEPT ![r] = "take"]
          /\ at' = [at EXCEPT ![r] = s]
          /\ seenName' = [seenName EXCEPT ![r] = manualName[s]]
       \/ /\ status[s] # "AVAILABLE"
          /\ pc' = [pc EXCEPT ![r] = "done"]
          /\ UNCHANGED <<at, seenName>>
    /\ UNCHANGED <<slotVars, holdVars, payVars, target, todo, booking, sweepVars, now, breach>>

\* slot.save() writes every field of the row as it was read.
GroupTake(r) ==
    LET s == at[r] IN
    /\ pc[r] = "take"
    /\ status' = [status EXCEPT ![s] = "BOOKED"]
    /\ heldUntil' = [heldUntil EXCEPT ![s] = NoDeadline]
    /\ manualName' = [manualName EXCEPT ![s] = seenName[r]]
    /\ pc' = [pc EXCEPT ![r] = "entry"]
    /\ breach' = IF status[s] = "AVAILABLE" THEN breach ELSE breach \union {s}
    /\ UNCHANGED <<holdVars, payVars, target, todo, at, seenName, booking, sweepVars, now>>

GroupFinish(r) ==
    /\ pc[r] = "check"
    /\ ItemsDone(r)
    /\ pc' = [pc EXCEPT ![r] = "done"]
    /\ UNCHANGED <<slotVars, holdVars, payVars, target, todo, at, seenName, booking, sweepVars, now, breach>>

--------------------------------------------------------------------------------
(* The owner's grid.                                                       *)

\* owner_grid_book_slot and owner_grid_close_slot find the cell free ...
GridCheck(r, s) ==
    /\ pc[r] = "idle"
    /\ status[s] = "AVAILABLE"
    /\ \E kind \in {"gridbook", "gridclose"} : pc' = [pc EXCEPT ![r] = kind]
    /\ at' = [at EXCEPT ![r] = s]
    /\ seenName' = [seenName EXCEPT ![r] = manualName[s]]
    /\ UNCHANGED <<slotVars, holdVars, payVars, target, todo, booking, sweepVars, now, breach>>

\* ... and save the row they read.
GridWrite(r) ==
    LET s == at[r]
        books == pc[r] = "gridbook"
    IN
    /\ pc[r] \in {"gridbook", "gridclose"}
    /\ status' = [status EXCEPT ![s] = IF books THEN "BOOKED" ELSE "BLOCKED"]
    /\ heldUntil' = [heldUntil EXCEPT ![s] = NoDeadline]
    /\ manualName' = [manualName EXCEPT ![s] = books \/ seenName[r]]
    /\ pc' = [pc EXCEPT ![r] = "done"]
    /\ at' = [at EXCEPT ![r] = NoSlot]
    /\ breach' = IF status[s] = "AVAILABLE" THEN breach ELSE breach \union {s}
    /\ UNCHANGED <<holdVars, payVars, target, todo, seenName, booking, sweepVars, now>>

\* owner_grid_book_slots_bulk and owner_grid_close_slots_bulk, rows locked.
GridBulk(sel) ==
    /\ sel # {}
    /\ \A s \in sel : status[s] = "AVAILABLE"
    /\ \/ /\ status' = [s \in Slot |-> IF s \in sel THEN "BOOKED" ELSE status[s]]
          /\ manualName' = [s \in Slot |-> s \in sel \/ manualName[s]]
       \/ /\ status' = [s \in Slot |-> IF s \in sel THEN "BLOCKED" ELSE status[s]]
          /\ UNCHANGED manualName
    /\ UNCHANGED <<heldUntil, holdVars, payVars, runVars, booking, sweepVars, now, breach>>

\* _apply_already_booked_slots when a pitch is edited: everything but an
\* in-app booking is overwritten, a slot held for a payment included.
AlreadyCheck(r, s) ==
    /\ pc[r] = "idle"
    /\ ~(status[s] = "BOOKED" /\ ~manualName[s])
    /\ pc' = [pc EXCEPT ![r] = "already"]
    /\ at' = [at EXCEPT ![r] = s]
    /\ UNCHANGED <<slotVars, holdVars, payVars, target, todo, seenName, booking, sweepVars, now, breach>>

\* update_or_create saves only the fields in its defaults: not held_until.
AlreadyWrite(r) ==
    LET s == at[r] IN
    /\ pc[r] = "already"
    /\ status' = [status EXCEPT ![s] = "BOOKED"]
    /\ manualName' = [manualName EXCEPT ![s] = TRUE]
    /\ pc' = [pc EXCEPT ![r] = "done"]
    /\ at' = [at EXCEPT ![r] = NoSlot]
    /\ breach' = IF Claimed(s) THEN breach \union {s} ELSE breach
    /\ UNCHANGED <<heldUntil, holdVars, payVars, target, todo, seenName, booking, sweepVars, now>>

--------------------------------------------------------------------------------
(* sweep_solo_booking_timeouts, once a minute.                             *)

SweepLoad ==
    /\ sweepPc = "idle"
    /\ stale' = StaleHolds
    /\ stale' # {}
    /\ sweepPc' = "next"
    /\ UNCHANGED <<slotVars, holdVars, payVars, runVars, booking, current, sweepTodo, crashes, now, breach>>

SweepPick(h) ==
    /\ sweepPc = "next"
    /\ h \in stale
    /\ stale' = stale \ {h}
    /\ current' = h
    /\ sweepTodo' = selections[h]
    /\ sweepPc' = "release"
    /\ UNCHANGED <<slotVars, holdVars, payVars, runVars, booking, crashes, now, breach>>

\* release_slots on one item of the selections.
SweepRelease(s) ==
    LET frees == ReleasesSlot(s) IN
    /\ sweepPc = "release"
    /\ s \in sweepTodo
    /\ status' = [status EXCEPT ![s] = IF frees THEN "AVAILABLE" ELSE @]
    /\ heldUntil' = [heldUntil EXCEPT ![s] = IF frees THEN NoDeadline ELSE @]
    /\ sweepTodo' = sweepTodo \ {s}
    /\ breach' = IF frees /\ TakenFromOther(s, current) THEN breach \union {s} ELSE breach
    /\ UNCHANGED <<manualName, holdVars, payVars, runVars, booking, sweepPc, stale, current, crashes, now>>

\* The hold is saved from the copy in memory, without a second look.
SweepExpire ==
    /\ sweepPc = "release"
    /\ AllReleased
    /\ holdStatus' = [holdStatus EXCEPT ![current] = "EXPIRED"]
    /\ current' = NoHold
    /\ sweepPc' = IF stale = {} THEN "idle" ELSE "next"
    /\ UNCHANGED <<slotVars, selections, expiresAt, finalCode, payVars, runVars, booking, stale, sweepTodo, crashes, now, breach>>

SweepCrash ==
    /\ sweepPc # "idle"
    /\ crashes < MaxSweepCrashes
    /\ crashes' = crashes + 1
    /\ sweepPc' = "idle"
    /\ stale' = {}
    /\ current' = NoHold
    /\ sweepTodo' = {}
    /\ UNCHANGED <<slotVars, holdVars, payVars, runVars, booking, now, breach>>

Tick ==
    /\ now < MaxNow
    /\ now' = now + 1
    /\ UNCHANGED <<slotVars, holdVars, payVars, runVars, booking, sweepVars, breach>>

--------------------------------------------------------------------------------
Init ==
    /\ status = [s \in Slot |-> "AVAILABLE"]
    /\ heldUntil = [s \in Slot |-> NoDeadline]
    /\ manualName = [s \in Slot |-> FALSE]
    /\ holdStatus = [h \in Hold |-> "unborn"]
    /\ selections = [h \in Hold |-> {}]
    /\ expiresAt = [h \in Hold |-> NoDeadline]
    /\ finalCode = [h \in Hold |-> NoHold]
    /\ payment = [h \in Hold |-> "none"]
    /\ everVerified = {}
    /\ pc = [r \in Run |-> "idle"]
    /\ target = [r \in Run |-> NoHold]
    /\ todo = [r \in Run |-> {}]
    /\ at = [r \in Run |-> NoSlot]
    /\ seenName = [r \in Run |-> FALSE]
    /\ booking = [r \in Run |-> [s \in Slot |-> "none"]]
    /\ sweepPc = "idle"
    /\ stale = {}
    /\ current = NoHold
    /\ sweepTodo = {}
    /\ crashes = 0
    /\ now = 0
    /\ breach = {}

HoldStep ==
    \E h \in Hold :
        \/ \E sel \in SUBSET Slot : CheckHold(h, sel)
        \/ CommitHold(h)
        \/ SubmitPayment(h)
        \/ Reverse(h)

RunStep ==
    \E r \in Run :
        \/ \E h \in Hold : LoadPayment(r, h)
        \/ AcceptPayment(r)
        \/ RefusePayment(r)
        \/ StartFinalize(r)
        \/ \E s \in Slot : BookSlot(r, s)
        \/ CreateBooking(r)
        \/ SaveBooked(r)
        \/ \E sel \in SUBSET Slot : GroupStart(r, sel)
        \/ \E s \in Slot : GroupCheck(r, s)
        \/ GroupTake(r)
        \/ GroupFinish(r)
        \/ \E s \in Slot : GridCheck(r, s)
        \/ GridWrite(r)
        \/ \E s \in Slot : AlreadyCheck(r, s)
        \/ AlreadyWrite(r)

SweepStep ==
    \/ SweepLoad
    \/ \E h \in Hold : SweepPick(h)
    \/ \E s \in Slot : SweepRelease(s)
    \/ SweepExpire

Next ==
    \/ HoldStep
    \/ RunStep
    \/ \E sel \in SUBSET Slot : GridBulk(sel)
    \/ SweepStep
    \/ SweepCrash
    \/ Tick

Spec == Init /\ [][Next]_vars

\* Celery beat queues the sweep every minute, and its worker finishes what it
\* does not crash in; nothing obliges a person or a bank to act.
FairSpec == Spec /\ WF_vars(Tick) /\ WF_vars(SweepStep)

--------------------------------------------------------------------------------
(* Properties.                                                             *)

\* Every variable keeps to its domain.
TypeOK ==
    /\ status \in [Slot -> SlotStatus]
    /\ heldUntil \in [Slot -> Nat]
    /\ manualName \in [Slot -> BOOLEAN]
    /\ holdStatus \in [Hold -> HoldStatus]
    /\ selections \in [Hold -> SUBSET Slot]
    /\ expiresAt \in [Hold -> Nat]
    /\ finalCode \in [Hold -> Run \union {NoHold}]
    /\ payment \in [Hold -> PaymentState]
    /\ everVerified \subseteq Hold
    /\ pc \in [Run -> RunPc]
    /\ target \in [Run -> Hold \union {NoHold}]
    /\ todo \in [Run -> SUBSET Slot]
    /\ at \in [Run -> Slot \union {NoSlot}]
    /\ seenName \in [Run -> BOOLEAN]
    /\ booking \in [Run -> [Slot -> BookingStatus]]
    /\ sweepPc \in {"idle", "next", "release"}
    /\ stale \subseteq Hold
    /\ current \in Hold \union {NoHold}
    /\ sweepTodo \subseteq Slot
    /\ crashes \in Nat
    /\ now \in Nat
    /\ breach \subseteq Slot

\* A Booking row made for a hold exists only if that hold's payment has been
\* VERIFIED at some time ("No real Booking row exists until payment is
\* VERIFIED", SoloBookingHold), whatever polls and reversals did in between.
BookingOnlyIfVerified ==
    \A r \in Run, s \in Slot :
        booking[r][s] # "none" /\ target[r] # NoHold => target[r] \in everVerified

\* A hold that says BOOKED has a live Booking, under the code it carries, for
\* every slot selected, even if several polls finalized it at the same time.
BookedHoldIsComplete ==
    \A h \in Hold : holdStatus[h] = "BOOKED" =>
        /\ finalCode[h] \in Run
        /\ \A s \in selections[h] : booking[finalCode[h]][s] = "CONFIRMED"

\* No slot is left on hold for nobody: a slot blocked until a deadline belongs
\* to the selections of a pending hold with that deadline, which the sweep will
\* find.  (create_booking_group and the grid would refuse the slot for ever.)
HeldSlotHasPendingHold ==
    \A s \in Slot : status[s] = "BLOCKED" /\ heldUntil[s] # NoDeadline =>
        \E h \in Hold :
            /\ holdStatus[h] = "PAYMENT_PENDING"
            /\ s \in selections[h]
            /\ expiresAt[h] = heldUntil[s]

\* The slot of a live Booking is BOOKED, unless a step has written the slot
\* against a claim.
SoldSlotIsBooked ==
    \A s \in Slot \ breach :
        (\E r \in Run : Sold(r, s)) => status[s] = "BOOKED"

\* A slot is sold to two different buyers, two players or a player and a
\* customer of the owner's, only if some step wrote it against a claim.  Those
\* steps are: a commit whose check had become stale (CommitHold, GroupTake,
\* GridWrite), a hold finalized when it was no longer payable (BookSlot), a
\* release or a reversal that gave away a slot of somebody else (SweepRelease,
\* Reverse), and an entry of the owner's list of already booked slots on a slot
\* that a player holds or has bought meanwhile (AlreadyWrite).  No other step
\* of this module can double-book a slot.
DoubleSaleHasCause ==
    \A s \in Slot \ breach :
        /\ \A r1, r2 \in Run : Sold(r1, s) /\ Sold(r2, s) => SameBuyer(r1, r2)
        /\ OwnerSold(s) => \A r \in Run : ~Sold(r, s)

\* A live Booking is cancelled only together with the payment of its own hold.
CancelledOnlyByOwnReversal ==
    [][\A r \in Run, s \in Slot :
          Sold(r, s) /\ ~Sold(r, s)' =>
             /\ target[r] \in Hold
             /\ payment[target[r]] = "verified" /\ payment'[target[r]] = "reversed"]_vars

\* The sweep "releases slots held by an expired, never-paid solo booking"
\* (sweep_solo_booking_timeouts): a slot it frees was past its own deadline.
SweepFreesOnlyLapsedSlots ==
    [][\A s \in Slot :
          sweepPc = "release" /\ s \in sweepTodo \ sweepTodo'
             /\ status[s] = "BLOCKED" /\ status'[s] = "AVAILABLE"
          => heldUntil[s] \in 1 .. now]_vars

\* Every hold leaves PAYMENT_PENDING: it is paid, reversed, or swept.
EveryHoldSettles ==
    \A h \in Hold : holdStatus[h] = "PAYMENT_PENDING" ~> holdStatus[h] # "PAYMENT_PENDING"

\* Every slot held for a payment is free of that hold in the end.
HeldSlotIsFreed ==
    \A s \in Slot :
        (status[s] = "BLOCKED" /\ heldUntil[s] # NoDeadline)
            ~> ~(status[s] = "BLOCKED" /\ heldUntil[s] # NoDeadline)

================================================================================
