------------------------------ MODULE TeamBooking ------------------------------
(***************************************************************************)
(* One booking request of a team: the captain asks who can play, the       *)
(* players answer, outsiders fill open places, everybody pays a share, the *)
(* captain deals with those who do not, and the slot is booked.  Players,  *)
(* captain, polls, the payment gateway, the sweep, the pitch owner and a   *)
(* rival for the slot act on the same few rows.                            *)
(*                                                                         *)
(* Atomicity is that of SoloBooking: a save() is an action, preceded by    *)
(* the reads it depends on; a function under transaction.atomic reads in   *)
(* actions of their own (READ COMMITTED sees what others commit between    *)
(* two queries) and commits all its writes in its last one; a row lock     *)
(* that outlasts an action is a guard of the others (PaysNow).             *)
(*                                                                         *)
(* The request has one selection.  Amounts are left out, and with them the *)
(* difference between covering the missing players and splitting the price *)
(* anew; so are notifications and the flags that only decide which popup   *)
(* is shown (owner_action_taken, booked_popup_shown, summary_sent).  Each  *)
(* player answers and pays in one browser: at most one request to pay, and *)
(* one answer, is under way per player.                                    *)
(***************************************************************************)
EXTENDS Integers, FiniteSets

CONSTANTS
    Player,            \* everybody who may play
    Member,            \* the active members of the team
    captain,           \* the team's owner, who makes the request
    Call,              \* requests of the captain that decide something
    NoCode,            \* stands for an empty final_booking_code
    MaxRound,          \* bound: on payment rounds
    MaxUnderWay        \* bound: on what is under way when an answer, decision or payment comes in

ASSUME ConstantsAssumption ==
    /\ Member \subseteq Player
    /\ captain \in Member
    /\ Player \intersect Call = {}
    /\ NoCode \notin Player \union Call
    /\ MaxRound \in Nat \ {0}

VARIABLES
    status, round, needsAction, finalCode,  \* TeamBookingRequest
    requestOver,    \* the time to answer is over (expires_at)
    paymentOver,    \* the time to pay is over (payment_expires_at)
    confirmation,   \* TeamBookingConfirmation.status of each member
    share,          \* share[p][k]: TeamBookingPayment.status of player p in round k
    verified,       \* the shares with a VERIFIED PaymentTransaction
    joined,         \* who has filled the open match of the request; none if it is not full
    slot,           \* the Slot row, and (history) who wrote it last
    booking,        \* the Booking rows of the team, by booking code
    rivalBooked,    \* somebody else's live Booking on the slot
    confirming,     \* the members whose confirmation is about to be saved
    call,           \* the captain's requests: where they stand and what they have read
    pay,            \* likewise the payment of each player
    upkeep          \* what a popup, a view or the sweep is about to do to the request

requestVars == <<status, round, needsAction, finalCode>>
timeVars    == <<requestOver, paymentOver>>
slotVars    == <<slot, booking, rivalBooked>>
rowVars     == <<requestVars, timeVars, confirmation, share, verified, joined, slotVars>>
procVars    == <<confirming, call, pay, upkeep>>

vars == <<rowVars, procVars>>

Round == 1 .. MaxRound

\* "deleted" is not in the database.  Nothing but the guards looks at the rows
\* of a deleted request: they are kept as history.
RequestStatus == {"PENDING", "EXPIRED", "AWAITING_OPEN_SLOTS", "PAYMENT_PENDING",
                  "BOOKED", "UNAVAILABLE", "CANCELLED", "deleted"}

\* Statuses in which the slot is not held for the team.
AtRisk == {"PENDING", "EXPIRED", "AWAITING_OPEN_SLOTS"}

ConfirmationStatus == {"PENDING", "CONFIRMED", "DECLINED"}

ShareStatus == {"none", "PENDING", "PAID", "COVERED_BY_OWNER", "EXCLUDED"}

SlotRow == [status : {"AVAILABLE", "BLOCKED", "BOOKED"}, by : {"nobody", "team", "rival"}]

Free == [status |-> "AVAILABLE", by |-> "nobody"]

BookingStatus == {"none", "CONFIRMED", "CANCELLED"}

\* A booking code is named after the player or call that finalizes with it.
Code == Player \union Call

\* What the captain may ask for: start and drop are cover or recalculate, and
\* cancel, of the answers' summary; open and startOpen open places and close
\* them to start payment; the others resolve an unpaid round.
Decision == {"start", "drop", "open", "startOpen", "remind", "cover", "recalculate", "cancel"}

CallState == [pc : {"idle", "loaded", "checked"}, op : Decision \union {"none"}, round : Round,
              filled : BOOLEAN, unpaid : SUBSET Player, paid : SUBSET Player]

PayState == [pc : {"idle", "paying", "verified", "marked", "book", "booked"}, round : Round, last : BOOLEAN]

IdleCall == [pc |-> "idle", op |-> "none", round |-> 1, filled |-> FALSE, unpaid |-> {}, paid |-> {}]
IdlePay == [pc |-> "idle", round |-> 1, last |-> FALSE]

--------------------------------------------------------------------------------
(* The request and its rows.                                               *)

Exists == status # "deleted"

Confirmed(m) == confirmation[m] = "CONFIRMED"
AllResponded == \A m \in Member : confirmation[m] # "PENDING"
AllConfirmed == \A m \in Member : Confirmed(m)
Missing      == {m \in Member \ {captain} : ~Confirmed(m)}

\* Somebody's share is pending, other than that of p in round k.
StillPending(p, k) == \E q \in Player, j \in Round : <<q, j>> # <<p, k>> /\ share[q][j] = "PENDING"

NothingPending == ~\E q \in Player, j \in Round : share[q][j] = "PENDING"

UnpaidIn(k) == {q \in Player \ {captain} : share[q][k] = "PENDING"}

\* Mutant: the pending shares count as paid.
NotExcludedIn(k) == {q \in Player : share[q][k] \in {"PAID", "COVERED_BY_OWNER", "PENDING"}}

PaidIn(k) == {q \in Player : share[q][k] \in {"PAID", "COVERED_BY_OWNER"}}

IsOpenSlotsFilled == joined # {}

\* A request to pay that has not committed holds the lock on its share.
PaysNow(p) == pay[p].pc = "paying"

\* Another answer, decision or payment may come in.  (Views and the sweep may
\* at any time, one of them at a time.)
Room ==
    Cardinality(confirming) + Cardinality({c \in Call : call[c].pc # "idle"})
        + Cardinality({p \in Player : pay[p].pc # "idle"}) + Cardinality({upkeep} \ {"none"})
    < MaxUnderWay

--------------------------------------------------------------------------------
(* The slot.                                                               *)

IsSlotAvailable ==
    \/ slot.status = "AVAILABLE"
    \/ (slot.status = "BLOCKED" /\ paymentOver)

HoldSlot ==
    /\ slot' = [status |-> "BLOCKED", by |-> "team"]
    /\ paymentOver' = FALSE

\* release_slots: BLOCKED becomes AVAILABLE, whoever blocked it.
ReleaseSlot == slot' = IF slot.status = "BLOCKED" THEN Free ELSE slot

\* Mutant: the Booking gets the status of the slot.
BookSlotAsSlot(code) ==
    /\ slot' = [status |-> "BOOKED", by |-> "team"]
    /\ booking' = [booking EXCEPT ![code] = "BOOKED"]

\* finalize_team_slots_as_booked, under this code.
BookSlot(code) ==
    /\ slot' = [status |-> "BOOKED", by |-> "team"]
    /\ booking' = [booking EXCEPT ![code] = "CONFIRMED"]

--------------------------------------------------------------------------------
(* Asking who can play.                                                    *)

\* confirm_booking_request reads the request and the confirmation ...
LoadConfirm(m) ==
    /\ Room
    /\ m \notin confirming
    /\ status = "PENDING" /\ ~requestOver
    /\ confirmation[m] = "PENDING"
    /\ confirming' = confirming \union {m}
    /\ UNCHANGED <<rowVars, call, pay, upkeep>>

\* ... and saves the confirmation, whatever has become of the request.
SaveConfirm(m) ==
    /\ m \in confirming
    /\ confirming' = confirming \ {m}
    /\ confirmation' = IF Exists THEN [confirmation EXCEPT ![m] = "CONFIRMED"] ELSE confirmation
    /\ UNCHANGED <<requestVars, share, verified, joined, slotVars, call, pay, upkeep, timeVars>>

\* decline_booking_request does not look at the request.  Nobody but the
\* member writes his confirmation, so reading and saving it are one action.
Decline(m) ==
    /\ Exists
    /\ m \notin confirming
    /\ confirmation[m] = "PENDING"
    /\ confirmation' = [confirmation EXCEPT ![m] = "DECLINED"]
    /\ UNCHANGED <<requestVars, share, verified, joined, slotVars, procVars, timeVars>>

\* Mutant: only the answers close the question, and not the time.
ReadsAnswered == status = "PENDING" /\ AllResponded

\* The popups, the detail views, a late confirmation and the sweep's first
\* function read a PENDING request whose time is up; the captain's popup also
\* one that everybody has answered ...
ReadsExpired == status = "PENDING" /\ (requestOver \/ AllResponded)

LoadExpired ==
    /\ upkeep = "none"
    /\ ReadsExpired
    /\ upkeep' = "expire"
    /\ UNCHANGED <<rowVars, confirming, call, pay>>

\* ... and mark_expired saves the status of that copy.
MarkExpired ==
    /\ upkeep = "expire"
    /\ upkeep' = "none"
    /\ status' = IF Exists THEN "EXPIRED" ELSE status
    /\ UNCHANGED <<round, needsAction, finalCode, confirmation, share, verified, joined,
                   slotVars, confirming, call, pay, timeVars>>

--------------------------------------------------------------------------------
(* The open match of the request, as far as the request can tell.          *)

\* join_open_match: with the last place taken, handle_open_slot_match_filled
\* hands the request back to the captain.  Members of the team may join, too.
FillMatch(some) ==
    /\ status = "AWAITING_OPEN_SLOTS"
    /\ some # {} /\ Cardinality(some) < Cardinality(Member)
    /\ joined' = some
    /\ status' = "EXPIRED"
    /\ UNCHANGED <<round, needsAction, finalCode, confirmation, share, verified, slotVars,
                   procVars, timeVars>>

\* leave_open_match and cancel_match do not tell the request.
LeaveMatch ==
    /\ joined # {}
    /\ joined' = {}
    /\ UNCHANGED <<requestVars, confirmation, share, verified, slotVars, procVars, timeVars>>

--------------------------------------------------------------------------------
(* The captain's decisions: each is one transaction, without row locks.    *)

MayDecide(op) ==
    \/ /\ op \in {"start", "drop"}
       /\ status = "EXPIRED" \/ (status = "PENDING" /\ AllConfirmed)
    \/ /\ op = "open"
       /\ status \in {"PENDING", "EXPIRED"}
       /\ Missing # {}
    \/ /\ op = "startOpen"
       /\ status = "AWAITING_OPEN_SLOTS"
    \/ /\ op \in {"remind", "cover", "recalculate", "cancel"}
       /\ status = "PAYMENT_PENDING"

\* The request is read, its status examined.
Load(c, op) ==
    /\ Room
    /\ call[c].pc = "idle"
    /\ MayDecide(op)
    /\ call' = [call EXCEPT ![c] = [IdleCall EXCEPT !.pc = "loaded", !.op = op, !.round = round,
                                       !.filled = op = "start" /\ IsOpenSlotsFilled]]
    /\ UNCHANGED <<rowVars, confirming, pay, upkeep>>

\* An error, or the end of the process: everything is rolled back.
Fail(c) ==
    /\ call[c].pc # "idle"
    /\ call' = [call EXCEPT ![c] = IdleCall]
    /\ UNCHANGED <<rowVars, confirming, pay, upkeep>>

\* The slot is examined: remind and recalculate first ask for somebody unpaid.
Checks(c) ==
    /\ call[c].pc = "loaded"
    /\ call[c].op \notin {"drop", "cancel"}
    /\ call[c].op \in {"remind", "recalculate"} => UnpaidIn(call[c].round) # {}

CheckAvailable(c) ==
    /\ Checks(c)
    /\ IsSlotAvailable
    /\ call' = [call EXCEPT ![c].pc = "checked",
                            ![c].unpaid = IF call[c].op = "cover" THEN UnpaidIn(call[c].round) ELSE {},
                            ![c].paid = IF call[c].op = "recalculate" THEN PaidIn(call[c].round) ELSE {}]
    /\ UNCHANGED <<rowVars, confirming, pay, upkeep>>

\* It is not free, and be it on account of the team's own hold.
CheckUnavailable(c) ==
    /\ Checks(c)
    /\ ~IsSlotAvailable
    /\ Exists
    /\ status' = "UNAVAILABLE"
    /\ needsAction' = (needsAction /\ call[c].op \in {"start", "open", "startOpen"})
    /\ joined' = IF call[c].op = "startOpen" THEN {} ELSE joined
    /\ call' = [call EXCEPT ![c] = IdleCall]
    /\ UNCHANGED <<round, finalCode, confirmation, share, verified, slotVars, confirming, pay,
                   upkeep, timeVars>>

\* The last action of a call that passed its check, and of one that needs none.
Commits(c, op) ==
    /\ call[c].op = op
    /\ call[c].pc = IF op \in {"drop", "cancel"} THEN "loaded" ELSE "checked"
    /\ call' = [call EXCEPT ![c] = IdleCall]
    /\ UNCHANGED <<requestOver, confirmation, confirming, pay, upkeep>>

\* Mutant: nothing refuses a second share of the same player and round.
StartPaymentAgain(payers) ==
    /\ Exists
    /\ HoldSlot
    /\ share' = [p \in Player |-> IF p \in payers THEN [share[p] EXCEPT ![1] = "PENDING"] ELSE share[p]]
    /\ status' = "PAYMENT_PENDING"
    /\ UNCHANGED <<round, needsAction, finalCode, verified, booking, rivalBooked>>

\* Payment rows are created at round 1: uniq_payment_per_request_payer_round
\* refuses a second one, and a player who is both a payer and a joiner.
StartPayment(payers) ==
    /\ Exists
    /\ \A p \in payers : share[p][1] = "none"
    /\ HoldSlot
    /\ share' = [p \in Player |-> IF p \in payers THEN [share[p] EXCEPT ![1] = "PENDING"] ELSE share[p]]
    /\ status' = "PAYMENT_PENDING"
    /\ UNCHANGED <<round, needsAction, finalCode, verified, booking, rivalBooked>>

ConfirmedPayers == {captain} \union {m \in Member : Confirmed(m)}

\* resolve_confirm_summary: cover and recalculate.
Start(c) ==
    /\ Commits(c, "start")
    /\ call[c].filled => joined \intersect ConfirmedPayers = {}
    /\ StartPayment(ConfirmedPayers \union (IF call[c].filled THEN joined ELSE {}))
    /\ UNCHANGED joined

\* cover_remaining_open_slots_and_start_payment: the match is cancelled.
StartOpen(c) ==
    /\ Commits(c, "startOpen")
    /\ StartPayment(ConfirmedPayers)
    /\ joined' = {}

\* open_slots_for_declined_members: a new match takes the place of the one the
\* request may have had.  create_match refuses if the team has a confirmed one.
OpenSlots(c) ==
    /\ Commits(c, "open")
    /\ Exists
    /\ joined = {}
    /\ status' = "AWAITING_OPEN_SLOTS"
    /\ UNCHANGED <<paymentOver, round, needsAction, finalCode, share, verified, joined, slotVars>>

\* booking_request.delete() takes the shares and their transactions along.
Delete ==
    /\ ~\E p \in Player : PaysNow(p)
    /\ status' = IF Exists THEN "deleted" ELSE status
    /\ verified' = {}
    /\ UNCHANGED <<paymentOver, round, needsAction, finalCode, share, joined, booking, rivalBooked>>

\* resolve_confirm_summary: cancel.
Drop(c) ==
    /\ Commits(c, "drop")
    /\ Delete
    /\ UNCHANGED slot

\* resolve_payment_timeout: cancel.
Cancel(c) ==
    /\ Commits(c, "cancel")
    /\ Delete
    /\ ReleaseSlot

\* resolve_payment_timeout: remind.
Remind(c) ==
    /\ Commits(c, "remind")
    /\ Exists
    /\ HoldSlot
    /\ needsAction' = FALSE
    /\ UNCHANGED <<status, round, finalCode, share, verified, joined, booking, rivalBooked>>

\* resolve_payment_timeout: cover.  The shares it has read are marked, and
\* charged to the captain, who may not have paid his own.
Cover(c) ==
    /\ Commits(c, "cover")
    /\ Exists
    /\ call[c].unpaid # {} => share[captain][call[c].round] # "none"
    /\ ~\E p \in call[c].unpaid : PaysNow(p)
    /\ share' = [p \in Player |-> IF p \in call[c].unpaid
                                  THEN [share[p] EXCEPT ![call[c].round] = "COVERED_BY_OWNER"]
                                  ELSE share[p]]
    /\ needsAction' = FALSE
    /\ BookSlot(c)
    /\ status' = "BOOKED"
    /\ finalCode' = c
    /\ UNCHANGED <<paymentOver, round, verified, joined, rivalBooked>>

\* Mutant: everybody else of the round is left out, the paid included.
LeftOutPaidToo(c) == {p \in Player \ {captain} : share[p][call[c].round] # "none"}

\* Who is excluded: whoever is unpaid by then.
LeftOut(c) == UnpaidIn(call[c].round)

\* resolve_payment_timeout: recalculate.  Whoever had paid when it looked gets
\* a share of the next round; the unpaid are left out, those included who have
\* become unpaid since.  The new shares keep it from finalizing.
Recalculate(c) ==
    /\ Commits(c, "recalculate")
    /\ Exists
    /\ call[c].paid # {}
    /\ call[c].round < MaxRound
    /\ \A p \in call[c].paid : share[p][call[c].round + 1] = "none"
    /\ ~\E p \in LeftOut(c) : PaysNow(p)
    /\ HoldSlot
    /\ share' = [p \in Player |->
                    [k \in Round |->
                        IF k = call[c].round /\ p \in LeftOut(c) THEN "EXCLUDED"
                        ELSE IF k = call[c].round + 1 /\ p \in call[c].paid THEN "PENDING"
                        ELSE share[p][k]]]
    /\ round' = call[c].round + 1
    /\ needsAction' = FALSE
    /\ UNCHANGED <<status, finalCode, verified, joined, booking, rivalBooked>>

--------------------------------------------------------------------------------
(* Paying.                                                                 *)

LatestPending(p, k) ==
    /\ share[p][k] = "PENDING"
    /\ \A j \in Round : j > k => share[p][j] # "PENDING"

\* pay_for_booking is one transaction: the share it marks as paid is locked,
\* and seen as paid by nobody else, until it commits.  Before that, it looks
\* whether this was the last one.
PayLoad(p, k) ==
    /\ Room
    /\ pay[p].pc = "idle"
    /\ status = "PAYMENT_PENDING"
    /\ ~paymentOver
    /\ LatestPending(p, k)
    /\ pay' = [pay EXCEPT ![p] = [pc |-> "paying", round |-> k, last |-> ~StillPending(p, k)]]
    /\ UNCHANGED <<rowVars, confirming, call, upkeep>>

PayCommit(p) ==
    /\ pay[p].pc = "paying"
    /\ share' = [share EXCEPT ![p][pay[p].round] = "PAID"]
    /\ pay' = [pay EXCEPT ![p] = IdlePay]
    /\ \/ /\ pay[p].last
          /\ BookSlot(p)
          /\ status' = "BOOKED"
          /\ finalCode' = p
       \/ /\ ~pay[p].last
          /\ UNCHANGED <<status, finalCode, slot, booking>>
    /\ UNCHANGED <<round, needsAction, confirmation, verified, joined, rivalBooked, confirming,
                   call, upkeep, timeVars>>

\* A PaymentTransaction of the share becomes VERIFIED, however late, and
\* mark_payment_verified_from_gateway reads the share.
Verify(p, k) ==
    /\ Room
    /\ pay[p].pc = "idle"
    /\ Exists
    /\ share[p][k] = "PENDING"
    /\ verified' = verified \union {<<p, k>>}
    /\ pay' = [pay EXCEPT ![p] = [pc |-> "verified", round |-> k, last |-> FALSE]]
    /\ UNCHANGED <<requestVars, confirmation, share, joined, slotVars, confirming, call, upkeep,
                   timeVars>>

\* It becomes VERIFIED after the share has been settled or dropped: nothing
\* else happens.
VerifyTooLate(p, k) ==
    /\ Exists
    /\ share[p][k] \in {"PAID", "COVERED_BY_OWNER", "EXCLUDED"}
    /\ <<p, k>> \notin verified
    /\ verified' = verified \union {<<p, k>>}
    /\ UNCHANGED <<requestVars, timeVars, confirmation, share, joined, slotVars, procVars>>

\* The share is saved as paid.
MarkPaid(p) ==
    /\ pay[p].pc = "verified"
    /\ share' = IF Exists THEN [share EXCEPT ![p][pay[p].round] = "PAID"] ELSE share
    /\ pay' = [pay EXCEPT ![p] = IF Exists THEN [@ EXCEPT !.pc = "marked"] ELSE IdlePay]
    /\ UNCHANGED <<requestVars, confirmation, verified, joined, slotVars, confirming, call,
                   upkeep, timeVars>>

\* _try_finalize_if_all_paid
TryFinalize(p) ==
    /\ pay[p].pc = "marked"
    /\ pay' = [pay EXCEPT ![p] = IF status = "PAYMENT_PENDING" /\ NothingPending
                                 THEN [@ EXCEPT !.pc = "book"] ELSE IdlePay]
    /\ UNCHANGED <<rowVars, confirming, call, upkeep>>

\* _finalize_booking, outside a transaction: the slot and its Booking ...
Finalize(p) ==
    /\ pay[p].pc = "book"
    /\ BookSlot(p)
    /\ pay' = [pay EXCEPT ![p].pc = "booked"]
    /\ UNCHANGED <<requestVars, confirmation, share, verified, joined, rivalBooked, confirming,
                   call, upkeep, timeVars>>

\* ... and the request.
SaveBooked(p) ==
    /\ pay[p].pc = "booked"
    /\ pay' = [pay EXCEPT ![p] = IdlePay]
    /\ status' = IF Exists THEN "BOOKED" ELSE status
    /\ finalCode' = IF Exists THEN p ELSE finalCode
    /\ UNCHANGED <<round, needsAction, confirmation, share, verified, joined, slotVars,
                   confirming, call, upkeep, timeVars>>

\* Without a code nothing is cancelled, whatever has been booked.
BookingsAfterReversal == IF finalCode = NoCode THEN booking ELSE [booking EXCEPT ![finalCode] = "CANCELLED"]

\* _cancel_team: the pitch owner rejects a verified payment.
Reverse(p, k) ==
    /\ <<p, k>> \in verified
    /\ verified' = verified \ {<<p, k>>}
    /\ \/ /\ status = "CANCELLED"
          /\ UNCHANGED <<status, needsAction, slot, booking>>
       \/ /\ status # "CANCELLED"
          /\ status' = "CANCELLED"
          /\ needsAction' = FALSE
          /\ booking' = BookingsAfterReversal
          /\ slot' = IF \/ (slot.status = "BLOCKED" /\ finalCode = NoCode)
                        \/ /\ slot.status = "BOOKED"
                           /\ ~rivalBooked
                           /\ \A code \in Code : booking'[code] # "CONFIRMED"
                     THEN Free ELSE slot
    /\ UNCHANGED <<round, finalCode, confirmation, share, joined, rivalBooked, procVars, timeVars>>

--------------------------------------------------------------------------------
(* Whoever else wants the slot: a player or another team (SoloBooking has  *)
(* them in detail).                                                        *)

RivalBooks ==
    /\ IsSlotAvailable
    /\ slot' = [status |-> "BOOKED", by |-> "rival"]
    /\ rivalBooked' = TRUE

RivalCancels ==
    /\ rivalBooked
    /\ rivalBooked' = FALSE
    /\ slot' = IF slot.status = "BOOKED" /\ \A code \in Code : booking[code] # "CONFIRMED" THEN Free ELSE slot

Rival ==
    /\ RivalBooks \/ RivalCancels
    /\ UNCHANGED <<requestVars, confirmation, share, verified, joined, booking, procVars, timeVars>>

--------------------------------------------------------------------------------
(* The rest of the sweep (team_booking_sweep): two functions, each of      *)
(* which reads the request and later saves a part of its copy.             *)

\* Mutant: only the other players' shares count as unpaid.
OthersStillUnpaid == \E q \in Player \ {captain}, k \in Round : share[q][k] = "PENDING"

StillUnpaid == \E q \in Player, k \in Round : share[q][k] = "PENDING"

UpkeepTo(pc) ==
    /\ upkeep' = pc
    /\ UNCHANGED <<round, finalCode, timeVars, confirmation, share, verified, joined, booking,
                   rivalBooked, confirming, call, pay>>

\* sweep_payment_timeouts finds the request ...
LoadTimedOut ==
    /\ upkeep = "none"
    /\ status = "PAYMENT_PENDING" /\ paymentOver /\ ~needsAction
    /\ UpkeepTo("release")
    /\ UNCHANGED <<status, needsAction, slot>>

\* ... passes it over if nothing is unpaid, else releases the slot ...
SweepRelease ==
    /\ upkeep = "release"
    /\ \/ ~(Exists /\ StillUnpaid) /\ UpkeepTo("none") /\ UNCHANGED slot
       \/ (Exists /\ StillUnpaid) /\ UpkeepTo("flag") /\ ReleaseSlot
    /\ UNCHANGED <<status, needsAction>>

\* ... and hands it to the captain.
SweepFlag ==
    /\ upkeep = "flag"
    /\ UpkeepTo("none")
    /\ needsAction' = (needsAction \/ Exists)
    /\ UNCHANGED <<status, slot>>

\* sweep_pitch_conflicts_and_notify_owners finds the request ...
LoadAtRisk ==
    /\ upkeep = "none"
    /\ status \in AtRisk
    /\ UpkeepTo("check")
    /\ UNCHANGED <<status, needsAction, slot>>

\* ... and gives it up if the slot is not free, whatever it is by now.
SweepCheck ==
    /\ upkeep = "check"
    /\ UpkeepTo("none")
    /\ status' = IF Exists /\ ~IsSlotAvailable THEN "UNAVAILABLE" ELSE status
    /\ UNCHANGED <<needsAction, slot>>

Sweep == LoadTimedOut \/ SweepRelease \/ SweepFlag \/ LoadAtRisk \/ SweepCheck

--------------------------------------------------------------------------------

\* Each deadline passes while somebody still looks at it: the second one is
\* that of the hold on the slot as well (hold_slots).
RequestTimesOut ==
    /\ status = "PENDING"
    /\ ~requestOver
    /\ requestOver' = TRUE
    /\ UNCHANGED <<requestVars, paymentOver, confirmation, share, verified, joined, slotVars,
                   procVars>>

PaymentTimesOut ==
    /\ status = "PAYMENT_PENDING" \/ slot.status = "BLOCKED"
    /\ ~paymentOver
    /\ paymentOver' = TRUE
    /\ UNCHANGED <<requestVars, requestOver, confirmation, share, verified, joined, slotVars,
                   procVars>>

Time == RequestTimesOut \/ PaymentTimesOut

\* create_team_booking_request has just run, at time 0: the captain has
\* confirmed by asking.
Init ==
    /\ status = "PENDING"
    /\ round = 1
    /\ needsAction = FALSE
    /\ finalCode = NoCode
    /\ confirmation = [m \in Member |-> IF m = captain THEN "CONFIRMED" ELSE "PENDING"]
    /\ share = [p \in Player |-> [k \in Round |-> "none"]]
    /\ verified = {}
    /\ joined = {}
    /\ slot = Free
    /\ booking = [code \in Code |-> "none"]
    /\ rivalBooked = FALSE
    /\ confirming = {}
    /\ call = [c \in Call |-> IdleCall]
    /\ pay = [p \in Player |-> IdlePay]
    /\ upkeep = "none"
    /\ requestOver = FALSE /\ paymentOver = FALSE

AnswerStep == LoadExpired \/ MarkExpired \/ \E m \in Member : LoadConfirm(m) \/ SaveConfirm(m) \/ Decline(m)

MatchStep == LeaveMatch \/ \E some \in SUBSET Player : FillMatch(some)

CallStep(c) ==
    \/ \E op \in Decision : Load(c, op)
    \/ Fail(c) \/ CheckAvailable(c) \/ CheckUnavailable(c)
    \/ Start(c) \/ StartOpen(c) \/ OpenSlots(c) \/ Drop(c)
    \/ Cancel(c) \/ Remind(c) \/ Cover(c) \/ Recalculate(c)

PayStep(p) ==
    \/ \E k \in Round : PayLoad(p, k) \/ Verify(p, k) \/ VerifyTooLate(p, k) \/ Reverse(p, k)
    \/ PayCommit(p) \/ MarkPaid(p) \/ TryFinalize(p) \/ Finalize(p) \/ SaveBooked(p)

Next ==
    \/ AnswerStep
    \/ MatchStep
    \/ \E c \in Call : CallStep(c)
    \/ \E p \in Player : PayStep(p)
    \/ Rival
    \/ Sweep
    \/ Time

Spec == Init /\ [][Next]_vars

\* Time passes, and Celery beat queues the sweep every minute, which calls its
\* functions one after the other, so that each has its turn again and again.
\* Nobody has to answer, pay or decide.
FairSpec ==
    /\ Spec
    /\ WF_vars(Time)
    /\ WF_vars(MarkExpired \/ SweepRelease \/ SweepFlag \/ SweepCheck)
    /\ SF_vars(requestOver /\ LoadExpired)
    /\ SF_vars(LoadTimedOut)

--------------------------------------------------------------------------------
(* Properties.                                                             *)

\* Every variable keeps to its domain.
TypeOK ==
    /\ status \in RequestStatus
    /\ round \in Round
    /\ needsAction \in BOOLEAN
    /\ finalCode \in Code \union {NoCode}
    /\ confirmation \in [Member -> ConfirmationStatus]
    /\ share \in [Player -> [Round -> ShareStatus]]
    /\ verified \subseteq Player \X Round
    /\ joined \subseteq Player
    /\ slot \in SlotRow
    /\ booking \in [Code -> BookingStatus]
    /\ rivalBooked \in BOOLEAN
    /\ confirming \subseteq Member
    /\ call \in [Call -> CallState]
    /\ pay \in [Player -> PayState]
    /\ upkeep \in {"none", "expire", "release", "flag", "check"}
    /\ requestOver \in BOOLEAN /\ paymentOver \in BOOLEAN

\* The pool of shares that the payment rows amount to.
Owing == {p \in Player : share[p][1] = "PENDING"}
Opened == \E p \in Player : share[p][1] # "none"
Booked == \E code \in Code : booking[code] # "none"

Pool == INSTANCE SharePool WITH opened <- Opened, owes <- Owing, booked <- Booked

\* The captain asks for the money once, whatever double clicks, retries and
\* stale saves do to the status, and no booking is made while a player other
\* than the captain owes his first share (_try_finalize_if_all_paid and cover).
ImplementsSharePool == Pool!Spec

\* A share of a later round is asked of those only who have settled the one
\* before: "paid members get a NEW row at round+1 for their top-up share"
\* (TeamBookingPayment.round).
TopUpOnlyIfSettled ==
    \A p \in Player : \A k \in Round :
        k > 1 /\ share[p][k] # "none" => share[p][k - 1] \in {"PAID", "COVERED_BY_OWNER"}

\* What a player has settled stays settled: "the record of what they already
\* paid is never overwritten or lost" (TeamBookingPayment.round), be it that
\* the captain's cover, decided on what he had read before, replaces PAID.
SettledStaysSettled ==
    [][\A p \in Player, k \in Round : share[p][k] \in {"PAID", "COVERED_BY_OWNER"}
                                          => share'[p][k] \in {"PAID", "COVERED_BY_OWNER"}]_vars

\* The answers close in the end: nobody is left with a question that stays open.
EveryAskEnds == status = "PENDING" ~> status # "PENDING"

\* A share that is not paid in time comes to the captain's attention, his own
\* included: payment_timeout_needs_owner_action "drives the mandatory owner popup".
UnpaidIsNoticed ==
    status = "PAYMENT_PENDING" /\ ~NothingPending
        ~> needsAction \/ status # "PAYMENT_PENDING" \/ NothingPending

\* "payment_success - everyone paid, booking finalized" (get_pending_owner_action):
\* a request that waits for payment has somebody to wait for, or a payment or
\* a decision under way.
FullyPaidIsBooked ==
    status = "PAYMENT_PENDING" /\ NothingPending =>
        \/ \E p \in Player : pay[p].pc # "idle"
        \/ \E c \in Call : call[c].pc # "idle"

================================================================================
