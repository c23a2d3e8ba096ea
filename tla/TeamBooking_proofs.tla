-------------------------- MODULE TeamBooking_proofs --------------------------
(***************************************************************************)
(* What TeamBooking.tla promises for every number of players, members,     *)
(* decisions and payment rounds.                                           *)
(*                                                                         *)
(* Nearly everything follows from how shares move.  A step either opens    *)
(* payment, when nobody has a share yet, or lets shares go forward: none   *)
(* to PENDING only in a later round and for those who have settled before, *)
(* PENDING to EXCLUDED, anything that exists to settled                    *)
(* (EveryStepMovesShares).  The rest of the inductive invariant says that  *)
(* what the captain's requests and the payments have read is not           *)
(* contradicted by that.                                                   *)
(***************************************************************************)
EXTENDS TeamBooking, TLAPS

IsSettled(s) == s \in {"PAID", "COVERED_BY_OWNER"}

\* Whoever has been asked for a share has settled those of the rounds before,
\* and the captain is among the first to be asked.
Orderly ==
    /\ Opened => share[captain][1] # "none"
    /\ \A p \in Player, k \in Round :
          share[p][k] # "none" => \A j \in Round : j < k => IsSettled(share[p][j])

\* No player but the captain owes a first share any more.
Cleared == Opened /\ \A q \in Player \ {captain} : share[q][1] # "PENDING"

\* A payment under way is for a share that exists; one that is the last, or
\* is about to book, has seen that nobody else owes a first share.
PayReady(p) ==
    /\ pay[p].pc # "idle" => share[p][pay[p].round] # "none"
    /\ pay[p].pc = "paying" /\ pay[p].last => \A q \in Player \ {p} : share[q][1] # "PENDING"
    /\ pay[p].pc = "book" => \A q \in Player : share[q][1] # "PENDING"

\* What the captain's request has read of the shares still holds, in that they
\* go forward only; it covers whoever owes a first share.
CallReady(c) ==
    /\ call[c].pc # "idle" /\ call[c].op \in {"remind", "cover", "recalculate", "cancel"} => Opened
    /\ call[c].pc # "idle" /\ call[c].round > 1 => Cleared
    /\ \A p \in call[c].paid : IsSettled(share[p][call[c].round])
    /\ \A p \in call[c].unpaid : share[p][call[c].round] # "none"
    /\ call[c].pc = "checked" /\ call[c].op = "cover" =>
          \A q \in Player \ {captain} : share[q][1] = "PENDING" => q \in call[c].unpaid /\ call[c].round = 1

Ready ==
    /\ status = "PAYMENT_PENDING" => Opened
    /\ round > 1 => Cleared
    /\ \A p \in Player : PayReady(p)
    /\ \A c \in Call : CallReady(c)

(***************************************************************************)
(* How shares move.                                                        *)
(***************************************************************************)

\* Payment begins: nobody has a share, and these players get one.
Opens ==
    /\ \A p \in Player, k \in Round : share[p][k] = "none"
    /\ share'[captain][1] = "PENDING"
    /\ \A p \in Player : share'[p][1] \in {"none", "PENDING"}
    /\ \A p \in Player, k \in Round : k # 1 => share'[p][k] = "none"

MovesForward(p, k) ==
    \/ share'[p][k] = share[p][k]
    \/ share[p][k] # "none" /\ IsSettled(share'[p][k])
    \/ share[p][k] = "PENDING" /\ share'[p][k] = "EXCLUDED"
    \/ /\ k > 1 /\ share[p][k] = "none" /\ share'[p][k] = "PENDING"
       /\ \A j \in Round : j < k => IsSettled(share[p][j])

Forward == \A p \in Player, k \in Round : MovesForward(p, k)

(***************************************************************************)
(* The types.                                                              *)
(***************************************************************************)

\* The fields of the idle records and of the slot are in their domains.
LEMMA RecordTypes == IdleCall \in CallState /\ IdlePay \in PayState /\ Free \in SlotRow
BY ConstantsAssumption DEF IdleCall, IdlePay, Free, CallState, PayState, SlotRow, Round

LEMMA InitType == Init => TypeOK
<1> SUFFICES ASSUME Init PROVE TypeOK
  OBVIOUS
<1>1. /\ call \in [Call -> CallState]
      /\ pay \in [Player -> PayState]
      /\ slot \in SlotRow
  BY RecordTypes DEF Init
<1>2. share \in [Player -> [Round -> ShareStatus]]
  BY DEF Init, ShareStatus
<1>3. round \in Round
  BY ConstantsAssumption DEF Init, Round
<1> QED
  BY <1>1, <1>2, <1>3 DEF Init, TypeOK, RequestStatus, Code, ConfirmationStatus, BookingStatus

LEMMA AnswerType == TypeOK /\ AnswerStep => TypeOK'
<1> USE DEF TypeOK, requestVars, timeVars, slotVars, rowVars, procVars, RequestStatus, ConfirmationStatus
<1> SUFFICES ASSUME TypeOK, AnswerStep PROVE TypeOK'
  OBVIOUS
<1>1. ASSUME LoadExpired \/ MarkExpired PROVE TypeOK'
  BY <1>1 DEF LoadExpired, MarkExpired
<1>2. ASSUME NEW m \in Member, LoadConfirm(m) \/ SaveConfirm(m) \/ Decline(m) PROVE TypeOK'
  BY <1>2 DEF LoadConfirm, SaveConfirm, Decline
<1> QED
  BY <1>1, <1>2 DEF AnswerStep

LEMMA MatchType == TypeOK /\ MatchStep => TypeOK'
BY DEF MatchStep, FillMatch, LeaveMatch, TypeOK, requestVars, timeVars, slotVars, procVars, RequestStatus

\* A call that ends, and whatever it has done to the other rows.
LEMMA StartType ==
    ASSUME TypeOK, NEW payers \in SUBSET Player, StartPayment(payers)
    PROVE  /\ status' \in RequestStatus /\ round' \in Round /\ needsAction' \in BOOLEAN
           /\ finalCode' \in Code \union {NoCode} /\ share' \in [Player -> [Round -> ShareStatus]]
           /\ verified' \subseteq Player \X Round /\ slot' \in SlotRow
           /\ booking' \in [Code -> BookingStatus] /\ rivalBooked' \in BOOLEAN
           /\ paymentOver' \in BOOLEAN
BY DEF StartPayment, HoldSlot, TypeOK, RequestStatus, Round, ShareStatus, SlotRow

LEMMA DecisionType == ASSUME TypeOK, NEW c \in Call, CallStep(c) PROVE TypeOK'
<1> USE DEF requestVars, timeVars, slotVars, rowVars
<1>1. ASSUME NEW op \in Decision, Load(c, op) PROVE TypeOK'
  <2>1. [IdleCall EXCEPT !.pc = "loaded", !.op = op, !.round = round,
                         !.filled = op = "start" /\ IsOpenSlotsFilled] \in CallState
    BY <1>1 DEF IdleCall, CallState, TypeOK, IsOpenSlotsFilled
  <2> QED
    BY <1>1, <2>1 DEF Load, TypeOK
<1>2. ASSUME Fail(c) PROVE TypeOK'
  BY <1>2, RecordTypes DEF Fail, TypeOK
<1>3. ASSUME CheckAvailable(c) PROVE TypeOK'
  <2>1. /\ UnpaidIn(call[c].round) \subseteq Player
        /\ PaidIn(call[c].round) \subseteq Player
    BY DEF UnpaidIn, PaidIn
  <2>2. PICK u \in SUBSET Player, d \in SUBSET Player :
            call' = [call EXCEPT ![c].pc = "checked", ![c].unpaid = u, ![c].paid = d]
    BY <1>3, <2>1 DEF CheckAvailable
  <2>3. call' = [call EXCEPT ![c] = [call[c] EXCEPT !.pc = "checked", !.unpaid = u, !.paid = d]]
    BY <2>2 DEF TypeOK
  <2>4. [call[c] EXCEPT !.pc = "checked", !.unpaid = u, !.paid = d] \in CallState
    BY DEF TypeOK, CallState
  <2>5. call' \in [Call -> CallState]
    BY <2>3, <2>4 DEF TypeOK
  <2> QED
    BY <1>3, <2>5 DEF CheckAvailable, TypeOK
<1>4. ASSUME CheckUnavailable(c) PROVE TypeOK'
  BY <1>4, RecordTypes DEF CheckUnavailable, TypeOK, RequestStatus
<1>5. ASSUME Start(c) PROVE TypeOK'
  <2>1. PICK payers \in SUBSET Player : StartPayment(payers)
    BY <1>5, ConstantsAssumption DEF Start, ConfirmedPayers, TypeOK
  <2> QED
    BY <1>5, <2>1, StartType, RecordTypes DEF Start, Commits, TypeOK
<1>6. ASSUME StartOpen(c) PROVE TypeOK'
  <2>1. PICK payers \in SUBSET Player : StartPayment(payers)
    BY <1>6, ConstantsAssumption DEF StartOpen, ConfirmedPayers, TypeOK
  <2> QED
    BY <1>6, <2>1, StartType, RecordTypes DEF StartOpen, Commits, TypeOK
<1>7. ASSUME OpenSlots(c) PROVE TypeOK'
  BY <1>7, RecordTypes DEF OpenSlots, Commits, TypeOK, RequestStatus
<1>8. ASSUME Drop(c) \/ Cancel(c) PROVE TypeOK'
  BY <1>8, RecordTypes DEF Drop, Cancel, Delete, ReleaseSlot, Commits, TypeOK, RequestStatus
<1>9. ASSUME Remind(c) PROVE TypeOK'
  BY <1>9, RecordTypes DEF Remind, HoldSlot, Commits, TypeOK, SlotRow
<1>10. ASSUME Cover(c) PROVE TypeOK'
  BY <1>10, RecordTypes
     DEF Cover, BookSlot, Commits, TypeOK, SlotRow, BookingStatus, RequestStatus, ShareStatus, Code, CallState
<1>11. ASSUME Recalculate(c) PROVE TypeOK'
  <2>1. call[c].round + 1 \in Round
    BY <1>11, ConstantsAssumption DEF Recalculate, TypeOK, CallState, Round
  <2>2. share' \in [Player -> [Round -> ShareStatus]]
    BY <1>11 DEF Recalculate, TypeOK, ShareStatus
  <2> QED
    BY <1>11, <2>1, <2>2, RecordTypes DEF Recalculate, HoldSlot, Commits, TypeOK, SlotRow
<1> QED
  BY <1>1, <1>2, <1>3, <1>4, <1>5, <1>6, <1>7, <1>8, <1>9, <1>10, <1>11 DEF CallStep

LEMMA PayType == ASSUME TypeOK, NEW p \in Player, PayStep(p) PROVE TypeOK'
<1> USE DEF requestVars, timeVars, slotVars, rowVars, procVars
<1>1. ASSUME NEW k \in Round, PayLoad(p, k) \/ Verify(p, k) PROVE TypeOK'
  <2>1. PICK l \in BOOLEAN, where \in {"paying", "verified"} :
            pay' = [pay EXCEPT ![p] = [pc |-> where, round |-> k, last |-> l]]
    BY <1>1 DEF PayLoad, Verify, StillPending
  <2> QED
    BY <1>1, <2>1 DEF PayLoad, Verify, TypeOK, PayState
<1>2. ASSUME NEW k \in Round, VerifyTooLate(p, k) PROVE TypeOK'
  BY <1>2 DEF VerifyTooLate, TypeOK
<1>3. ASSUME NEW k \in Round, Reverse(p, k) PROVE TypeOK'
  <2>1. BookingsAfterReversal \in [Code -> BookingStatus]
    BY DEF BookingsAfterReversal, TypeOK, BookingStatus
  <2> QED
    BY <1>3, <2>1, RecordTypes DEF Reverse, TypeOK, RequestStatus
<1>4. ASSUME PayCommit(p) PROVE TypeOK'
  BY <1>4, RecordTypes
     DEF PayCommit, BookSlot, TypeOK, SlotRow, BookingStatus, RequestStatus, ShareStatus, Code, PayState
<1>5. ASSUME MarkPaid(p) \/ TryFinalize(p) PROVE TypeOK'
  <2>1. /\ [pay[p] EXCEPT !.pc = "marked"] \in PayState
        /\ [pay[p] EXCEPT !.pc = "book"] \in PayState
    BY DEF TypeOK, PayState
  <2>2. PICK new \in PayState : pay' = [pay EXCEPT ![p] = new]
    BY <1>5, <2>1, RecordTypes DEF MarkPaid, TryFinalize
  <2>3. share' \in [Player -> [Round -> ShareStatus]]
    BY <1>5 DEF MarkPaid, TryFinalize, TypeOK, ShareStatus
  <2> QED
    BY <1>5, <2>2, <2>3 DEF MarkPaid, TryFinalize, TypeOK
<1>6. ASSUME Finalize(p) \/ SaveBooked(p) PROVE TypeOK'
  <2>1. [pay[p] EXCEPT !.pc = "booked"] \in PayState
    BY DEF TypeOK, PayState
  <2>2. PICK new \in PayState : pay' = [pay EXCEPT ![p] = new]
    BY <1>6, <2>1, RecordTypes DEF Finalize, SaveBooked
  <2> QED
    BY <1>6, <2>2
       DEF Finalize, SaveBooked, BookSlot, TypeOK, SlotRow, BookingStatus, RequestStatus, Code
<1> QED
  BY <1>1, <1>2, <1>3, <1>4, <1>5, <1>6 DEF PayStep

LEMMA OtherType == TypeOK /\ (Rival \/ Sweep \/ Time) => TypeOK'
<1> USE DEF TypeOK, requestVars, timeVars, slotVars, procVars
<1> SUFFICES ASSUME TypeOK, Rival \/ Sweep \/ Time PROVE TypeOK'
  OBVIOUS
<1>1. CASE Rival
  <2>1. [status |-> "BOOKED", by |-> "rival"] \in SlotRow
    BY DEF SlotRow
  <2>2. slot' \in SlotRow /\ rivalBooked' \in BOOLEAN
    BY <1>1, <2>1, RecordTypes DEF Rival, RivalBooks, RivalCancels
  <2> QED
    BY <1>1, <2>2 DEF Rival
<1>2. CASE Sweep
  BY <1>2, RecordTypes
     DEF Sweep, UpkeepTo, LoadTimedOut, SweepRelease, SweepFlag, LoadAtRisk, SweepCheck, ReleaseSlot,
         RequestStatus
<1>3. CASE Time
  BY <1>3 DEF Time, RequestTimesOut, PaymentTimesOut
<1> QED
  BY <1>1, <1>2, <1>3

LEMMA NextType == TypeOK /\ [Next]_vars => TypeOK'
<1> SUFFICES ASSUME TypeOK, [Next]_vars PROVE TypeOK'
  OBVIOUS
<1>1. CASE Next
  BY <1>1, AnswerType, MatchType, DecisionType, PayType, OtherType DEF Next
<1>2. CASE UNCHANGED vars
  BY <1>2 DEF vars, rowVars, requestVars, timeVars, slotVars, procVars, TypeOK
<1> QED
  BY <1>1, <1>2

\* Every variable keeps to its domain, in particular what requests of the
\* captain and of the players remember between their steps.
THEOREM TypeCorrect == Spec => []TypeOK
<1>1. TypeOK /\ [Next]_vars => TypeOK'
  BY NextType
<1> QED
  BY InitType, <1>1, PTL DEF Spec

(***************************************************************************)
(* Each step opens payment or lets shares go forward.                      *)
(***************************************************************************)

LEMMA SharesStay == ASSUME UNCHANGED share PROVE Forward
BY DEF Forward, MovesForward

\* The captain's share is asked for with the first ones, and nobody owes a
\* later share without a first one: so payment that starts starts afresh.
LEMMA StartOpens ==
    ASSUME TypeOK, Orderly, NEW payers \in SUBSET Player, captain \in payers, StartPayment(payers)
    PROVE  Opens /\ status' = "PAYMENT_PENDING" /\ UNCHANGED round
<1>1. 1 \in Round /\ captain \in Player
  BY ConstantsAssumption DEF Round
<1>2. ~Opened
  BY <1>1 DEF StartPayment, Orderly
<1>3. \A p \in Player : share[p][1] = "none"
  BY <1>2 DEF Opened
<1>4. ASSUME NEW p \in Player, NEW k \in Round, share[p][k] # "none" PROVE FALSE
  <2>1. k # 1 => 1 < k
    BY ConstantsAssumption DEF Round
  <2> QED
    BY <1>1, <1>3, <1>4, <2>1 DEF Orderly, IsSettled
<1>5. ASSUME NEW p \in Player, NEW k \in Round
      PROVE  share'[p][k] = IF k = 1 /\ p \in payers THEN "PENDING" ELSE "none"
  <2>1. share'[p] = IF p \in payers THEN [share[p] EXCEPT ![1] = "PENDING"] ELSE share[p]
    BY DEF StartPayment
  <2>2. share[p] \in [Round -> ShareStatus] /\ share[p][k] = "none"
    BY <1>4 DEF TypeOK
  <2> QED
    BY <2>1, <2>2
<1> QED
  BY <1>1, <1>4, <1>5 DEF Opens, StartPayment

\* The two decisions that start payment.
LEMMA StartsPayment ==
    ASSUME TypeOK, Orderly, NEW c \in Call, Start(c) \/ StartOpen(c)
    PROVE  Opens /\ status' = "PAYMENT_PENDING" /\ UNCHANGED <<round, pay, booking>>
<1>1. PICK payers \in SUBSET Player : captain \in payers /\ StartPayment(payers)
  BY ConstantsAssumption DEF Start, StartOpen, ConfirmedPayers, TypeOK
<1> QED
  BY <1>1, StartOpens DEF Start, StartOpen, Commits, StartPayment

LEMMA CoverForward ==
    ASSUME TypeOK, NEW c \in Call, CallReady(c), Cover(c)
    PROVE  Forward
<1>1. \A p \in Player, k \in Round :
          share'[p][k] = IF p \in call[c].unpaid /\ k = call[c].round THEN "COVERED_BY_OWNER" ELSE share[p][k]
  BY DEF Cover, TypeOK, CallState
<1> QED
  BY <1>1 DEF Forward, MovesForward, IsSettled, CallReady

\* The next round's shares go to those who were read as paid, and whoever has
\* settled a share has settled the ones before.
LEMMA RecalculateForward ==
    ASSUME TypeOK, Orderly, NEW c \in Call, CallReady(c), Recalculate(c)
    PROVE  Forward /\ Opened /\ Cleared'
<1>1. call[c].round \in Round /\ call[c].round + 1 \in Round /\ Round \subseteq Nat
  BY ConstantsAssumption DEF Recalculate, TypeOK, CallState, Round
<1>2. \A p \in Player, k \in Round :
          share'[p][k] = IF k = call[c].round /\ p \in LeftOut(c) THEN "EXCLUDED"
                         ELSE IF k = call[c].round + 1 /\ p \in call[c].paid THEN "PENDING"
                         ELSE share[p][k]
  BY DEF Recalculate
<1>3. ASSUME NEW p \in call[c].paid PROVE \A j \in Round : j < call[c].round + 1 => IsSettled(share[p][j])
  <2>1. p \in Player /\ IsSettled(share[p][call[c].round])
    BY DEF TypeOK, CallState, CallReady
  <2>2. \A j \in Round : j < call[c].round => IsSettled(share[p][j])
    BY <1>1, <2>1 DEF Orderly, IsSettled
  <2>3. \A j, l \in Nat : j < l + 1 => j < l \/ j = l
    OBVIOUS
  <2> QED
    BY <1>1, <2>1, <2>2, <2>3
<1>4. ASSUME NEW p \in Player, NEW k \in Round PROVE MovesForward(p, k)
  <2>1. CASE k = call[c].round /\ p \in LeftOut(c)
    BY <1>2, <2>1 DEF LeftOut, UnpaidIn, MovesForward
  <2>2. CASE k = call[c].round + 1 /\ p \in call[c].paid
    <3>1. share[p][k] = "none" /\ share'[p][k] = "PENDING" /\ k > 1
      BY <1>1, <1>2, <2>2, ConstantsAssumption DEF Recalculate, Round
    <3> QED
      BY <1>3, <2>2, <3>1 DEF MovesForward
  <2>3. CASE ~(k = call[c].round /\ p \in LeftOut(c)) /\ ~(k = call[c].round + 1 /\ p \in call[c].paid)
    BY <1>2, <2>3 DEF MovesForward
  <2> QED
    BY <2>1, <2>2, <2>3
<1>5. Opened
  BY DEF Recalculate, Commits, CallReady
<1>6. 1 \in Round
  BY ConstantsAssumption DEF Round
<1>7. PICK p \in Player : share[p][1] # "none"
  BY <1>5 DEF Opened
<1>8. share'[p][1] # "none"
  BY <1>2, <1>6, <1>7
<1>9. ASSUME NEW q \in Player \ {captain}, share'[q][1] = "PENDING" PROVE FALSE
  <2>1. call[c].round + 1 # 1
    BY <1>1, ConstantsAssumption DEF Round
  <2>2. share[q][1] = "PENDING" /\ ~(call[c].round = 1 /\ q \in LeftOut(c))
    BY <1>2, <1>6, <1>9, <2>1
  <2>3. call[c].round # 1
    BY <2>2 DEF LeftOut, UnpaidIn
  <2>4. call[c].round > 1
    BY <1>1, <2>3, ConstantsAssumption DEF Round
  <2> QED
    BY <2>2, <2>4 DEF CallReady, Cleared, Recalculate, Commits
<1> QED
  BY <1>4, <1>5, <1>8, <1>9 DEF Forward, Cleared, Opened

\* A share that is paid exists (PayReady).
LEMMA PaidForward ==
    ASSUME TypeOK, NEW p \in Player, PayReady(p), PayCommit(p) \/ MarkPaid(p)
    PROVE  Forward
<1>1. share' = [share EXCEPT ![p][pay[p].round] = "PAID"] \/ share' = share
  BY DEF PayCommit, MarkPaid
<1>2. share[p][pay[p].round] # "none"
  BY DEF PayReady, PayCommit, MarkPaid
<1> QED
  BY <1>1, <1>2 DEF TypeOK, PayState, Forward, MovesForward, IsSettled

\* The other steps do not touch the shares, nor the rounds.
OtherCallStep(c) ==
    \/ \E op \in Decision : Load(c, op)
    \/ Fail(c) \/ CheckAvailable(c) \/ CheckUnavailable(c)
    \/ OpenSlots(c) \/ Drop(c) \/ Cancel(c) \/ Remind(c)

OtherPayStep(p) ==
    \/ \E k \in Round : PayLoad(p, k) \/ Verify(p, k) \/ VerifyTooLate(p, k) \/ Reverse(p, k)
    \/ TryFinalize(p) \/ Finalize(p) \/ SaveBooked(p)

LEMMA OtherCallsKeep ==
    ASSUME NEW c \in Call, OtherCallStep(c)
    PROVE  UNCHANGED <<share, round, pay>> /\ (status' = "PAYMENT_PENDING" => status = "PAYMENT_PENDING")
BY DEF OtherCallStep, Load, Fail, CheckAvailable, CheckUnavailable, OpenSlots, Drop, Cancel, Remind,
       Commits, Delete, rowVars, requestVars, slotVars

LEMMA OtherPaysKeep ==
    ASSUME NEW p \in Player, OtherPayStep(p)
    PROVE  UNCHANGED <<share, round, call>> /\ (status' = "PAYMENT_PENDING" => status = "PAYMENT_PENDING")
BY DEF OtherPayStep, PayLoad, Verify, VerifyTooLate, Reverse, TryFinalize, Finalize, SaveBooked,
       rowVars, requestVars, slotVars, procVars

LEMMA OutsidersKeep ==
    ASSUME AnswerStep \/ MatchStep \/ Rival \/ Sweep \/ Time
    PROVE  /\ UNCHANGED <<share, round, call, pay>>
           /\ status' = "PAYMENT_PENDING" => status = "PAYMENT_PENDING"
<1> USE DEF rowVars, requestVars, timeVars, slotVars, procVars
<1>1. CASE AnswerStep
  BY <1>1 DEF AnswerStep, LoadExpired, MarkExpired, LoadConfirm, SaveConfirm, Decline
<1>2. CASE MatchStep
  BY <1>2 DEF MatchStep, FillMatch, LeaveMatch
<1>3. CASE Rival
  BY <1>3 DEF Rival
<1>4. CASE Sweep
  BY <1>4 DEF Sweep, UpkeepTo, LoadTimedOut, SweepRelease, SweepFlag, LoadAtRisk, SweepCheck
<1>5. CASE Time
  BY <1>5 DEF Time, RequestTimesOut, PaymentTimesOut
<1> QED
  BY <1>1, <1>2, <1>3, <1>4, <1>5

(***************************************************************************)
(* The inductive invariant: shares in order, and nothing that was read is  *)
(* contradicted since.                                                     *)
(***************************************************************************)

IInv == TypeOK /\ Orderly /\ Ready

LEMMA OneIsARound == 1 \in Round /\ Round \subseteq Nat /\ \A k \in Round : k = 1 \/ k > 1
BY ConstantsAssumption DEF Round

\* Nothing has begun.
LEMMA InitInvariant == Init => IInv
<1> SUFFICES ASSUME Init PROVE IInv
  OBVIOUS
<1>1. \A p \in Player, k \in Round : share[p][k] = "none"
  BY DEF Init
<1>2. Orderly
  BY <1>1, OneIsARound DEF Orderly, Opened
<1>3. \A p \in Player : PayReady(p)
  BY DEF Init, PayReady, IdlePay
<1>4. \A c \in Call : CallReady(c)
  BY DEF Init, CallReady, IdleCall
<1>5. Ready
  BY <1>3, <1>4, ConstantsAssumption DEF Init, Ready
<1> QED
  BY <1>2, <1>5, InitType DEF IInv

LEMMA ForwardKeeps ==
    ASSUME Orderly, Forward
    PROVE  Orderly' /\ Opened' = Opened /\ (Cleared => Cleared') /\ Owing' \subseteq Owing
<1>1. \A p \in Player : (share'[p][1] # "none") = (share[p][1] # "none")
  BY OneIsARound DEF Forward, MovesForward, IsSettled
<1>2. Opened' = Opened
  BY <1>1 DEF Opened
<1>3. \A p \in Player : share'[p][1] = "PENDING" => share[p][1] = "PENDING"
  BY OneIsARound DEF Forward, MovesForward, IsSettled
<1>4. \A p \in Player, k \in Round : IsSettled(share[p][k]) => IsSettled(share'[p][k])
  BY DEF Forward, MovesForward, IsSettled
<1>5. \A p \in Player, k \in Round :
          share'[p][k] # "none" => \A j \in Round : j < k => IsSettled(share[p][j])
  BY DEF Forward, MovesForward, Orderly
<1>6. Orderly'
  BY <1>1, <1>2, <1>4, <1>5, ConstantsAssumption DEF Orderly
<1> QED
  BY <1>2, <1>3, <1>6 DEF Cleared, Owing

\* Whoever does not act himself is ready still.
LEMMA PayReadyKept ==
    ASSUME TypeOK, Forward, NEW p \in Player, PayReady(p), pay'[p] = pay[p]
    PROVE  PayReady(p)'
<1>1. \A q \in Player : share'[q][1] = "PENDING" => share[q][1] = "PENDING"
  BY OneIsARound DEF Forward, MovesForward, IsSettled
<1>2. pay[p].round \in Round
  BY DEF TypeOK, PayState
<1>3. share[p][pay[p].round] # "none" => share'[p][pay[p].round] # "none"
  BY <1>2 DEF Forward, MovesForward, IsSettled
<1> QED
  BY <1>1, <1>3 DEF PayReady

LEMMA CallReadyKept ==
    ASSUME TypeOK, Orderly, Forward, NEW c \in Call, CallReady(c), call'[c] = call[c]
    PROVE  CallReady(c)'
<1>1. \A q \in Player : share'[q][1] = "PENDING" => share[q][1] = "PENDING"
  BY OneIsARound DEF Forward, MovesForward, IsSettled
<1>2. call[c].round \in Round /\ call[c].paid \subseteq Player /\ call[c].unpaid \subseteq Player
  BY DEF TypeOK, CallState
<1>3. \A p \in call[c].paid : IsSettled(share'[p][call[c].round])
  BY <1>2 DEF Forward, MovesForward, IsSettled, CallReady
<1>4. \A p \in call[c].unpaid : share'[p][call[c].round] # "none"
  BY <1>2 DEF Forward, MovesForward, IsSettled, CallReady
<1> QED
  BY <1>1, <1>3, <1>4, ForwardKeeps DEF CallReady

\* What has ended has nothing to be contradicted.
LEMMA IdleIsReady ==
    /\ \A c \in Call : TypeOK /\ call' = [call EXCEPT ![c] = IdleCall] => CallReady(c)'
    /\ \A p \in Player : TypeOK /\ pay' = [pay EXCEPT ![p] = IdlePay] => PayReady(p)'
<1>1. ASSUME NEW c \in Call, TypeOK, call' = [call EXCEPT ![c] = IdleCall] PROVE CallReady(c)'
  <2>1. call'[c] = IdleCall
    BY <1>1 DEF TypeOK
  <2> QED
    BY <2>1 DEF CallReady, IdleCall
<1>2. ASSUME NEW p \in Player, TypeOK, pay' = [pay EXCEPT ![p] = IdlePay] PROVE PayReady(p)'
  <2>1. pay'[p] = IdlePay
    BY <1>2 DEF TypeOK
  <2> QED
    BY <2>1 DEF PayReady, IdlePay
<1> QED
  BY <1>1, <1>2

\* When payment starts, nobody can have read anything of it.
LEMMA OpensKeeps ==
    ASSUME IInv, Opens, status' = "PAYMENT_PENDING", UNCHANGED <<round, pay>>,
           NEW c \in Call, call' = [call EXCEPT ![c] = IdleCall]
    PROVE  Orderly' /\ Ready'
<1>1. captain \in Player /\ 1 \in Round
  BY ConstantsAssumption, OneIsARound
<1>2. ~Opened /\ Opened'
  BY <1>1 DEF Opens, Opened
<1>3. Orderly'
  <2>1. \A j \in Round : ~(j < 1)
    BY ConstantsAssumption DEF Round
  <2>2. \A p \in Player, k \in Round : share'[p][k] # "none" => k = 1
    BY DEF Opens
  <2>3. share'[captain][1] # "none"
    BY DEF Opens
  <2> QED
    BY <2>1, <2>2, <2>3 DEF Orderly
<1>4. ASSUME NEW p \in Player PROVE PayReady(p)'
  <2>1. pay[p].round \in Round
    BY DEF IInv, TypeOK, PayState
  <2>2. pay[p].pc = "idle"
    BY <2>1 DEF IInv, Ready, PayReady, Opens
  <2> QED
    BY <2>2 DEF PayReady
<1>5. ASSUME NEW d \in Call \ {c} PROVE CallReady(d)'
  <2>1. call'[d] = call[d]
    BY DEF IInv, TypeOK
  <2>2. call[d].round \in Round /\ call[d].paid \subseteq Player /\ call[d].unpaid \subseteq Player
    BY DEF IInv, TypeOK, CallState
  <2>3. call[d].paid = {} /\ call[d].unpaid = {}
    BY <2>2 DEF IInv, Ready, CallReady, Opens, IsSettled
  <2>4. call[d].pc # "idle" => /\ ~(call[d].round > 1)
                               /\ call[d].op \notin {"remind", "cover", "recalculate", "cancel"}
    BY <1>2 DEF IInv, Ready, CallReady, Cleared
  <2> QED
    BY <2>1, <2>3, <2>4 DEF CallReady
<1>6. CallReady(c)'
  BY IdleIsReady DEF IInv
<1>7. ~(round > 1)
  BY <1>2 DEF IInv, Ready, Cleared
<1> QED
  BY <1>2, <1>3, <1>4, <1>5, <1>6, <1>7 DEF Ready

\* A step that moves shares forward keeps the invariant if the one who acts is
\* ready after it.
LEMMA ForwardInvariant ==
    ASSUME IInv, TypeOK', Forward,
           status' = "PAYMENT_PENDING" => status = "PAYMENT_PENDING",
           round' = round \/ Cleared',
           \A p \in Player : pay'[p] = pay[p] \/ PayReady(p)',
           \A c \in Call : call'[c] = call[c] \/ CallReady(c)'
    PROVE  IInv'
<1>1. Orderly' /\ Opened' = Opened /\ (Cleared => Cleared')
  BY ForwardKeeps DEF IInv
<1>2. \A p \in Player : PayReady(p)'
  BY PayReadyKept DEF IInv, Ready
<1>3. \A c \in Call : CallReady(c)'
  BY CallReadyKept DEF IInv, Ready
<1> QED
  BY <1>1, <1>2, <1>3 DEF IInv, Ready

\* Decisions of the captain.
LEMMA DecisionKeeps == ASSUME IInv, NEW c \in Call, CallStep(c) PROVE IInv'
<1> USE DEF IInv
<1>0. TypeOK'
  BY DecisionType
<1>1. ASSUME Start(c) \/ StartOpen(c) PROVE IInv'
  <2>1. call' = [call EXCEPT ![c] = IdleCall]
    BY <1>1 DEF Start, StartOpen, Commits
  <2> QED
    BY <1>0, <1>1, <2>1, StartsPayment, OpensKeeps
<1>2. ASSUME OtherCallStep(c) PROVE IInv'
  <2>1. /\ Forward /\ UNCHANGED <<share, round, pay>>
        /\ status' = "PAYMENT_PENDING" => status = "PAYMENT_PENDING"
    BY <1>2, OtherCallsKeep, SharesStay
  <2>2. \A d \in Call \ {c} : call'[d] = call[d]
    BY <1>2
       DEF OtherCallStep, Load, Fail, CheckAvailable, CheckUnavailable, OpenSlots, Drop, Cancel,
           Remind, Commits, TypeOK
  <2>3. CallReady(c)'
    <3>1. CASE \E op \in Decision : Load(c, op)
      <4>1. PICK op \in Decision : Load(c, op)
        BY <3>1
      <4>2. /\ call'[c].pc = "loaded" /\ call'[c].op = op /\ call'[c].round = round
            /\ call'[c].unpaid = {} /\ call'[c].paid = {}
        BY <4>1 DEF Load, IdleCall, TypeOK
      <4>3. op \in {"remind", "cover", "recalculate", "cancel"} => Opened'
        BY <2>1, <4>1 DEF Load, MayDecide, Ready, Opened
      <4>4. round > 1 => Cleared'
        BY <2>1 DEF Ready, Cleared, Opened
      <4> QED
        BY <4>2, <4>3, <4>4 DEF CallReady
    <3>2. CASE CheckAvailable(c)
      <4>1. call[c].round \in Round
        BY DEF TypeOK, CallState
      <4>2. /\ call'[c].pc = "checked" /\ call'[c].op = call[c].op /\ call'[c].round = call[c].round
            /\ call'[c].unpaid = IF call[c].op = "cover" THEN UnpaidIn(call[c].round) ELSE {}
            /\ call'[c].paid = IF call[c].op = "recalculate" THEN PaidIn(call[c].round) ELSE {}
        BY <3>2 DEF CheckAvailable, TypeOK, CallState
      <4>3. CallReady(c) /\ call[c].pc # "idle"
        BY <3>2 DEF CheckAvailable, Checks, Ready
      <4>4. Opened' = Opened /\ Cleared' = Cleared
        BY <2>1 DEF Opened, Cleared
      <4>5. \A q \in Player \ {captain} :
                call[c].op = "cover" /\ share[q][1] = "PENDING"
                    => q \in UnpaidIn(call[c].round) /\ call[c].round = 1
        BY <4>1, <4>3, OneIsARound DEF CallReady, Cleared, UnpaidIn
      <4>6. \A p \in call'[c].paid : IsSettled(share'[p][call[c].round])
        BY <2>1, <4>2 DEF PaidIn, IsSettled
      <4>7. \A p \in call'[c].unpaid : share'[p][call[c].round] # "none"
        BY <2>1, <4>2 DEF UnpaidIn
      <4>8. call[c].op = "cover" => \A q \in Player \ {captain} :
                share'[q][1] = "PENDING" => q \in call'[c].unpaid /\ call'[c].round = 1
        BY <2>1, <4>2, <4>5
      <4> QED
        BY <4>2, <4>3, <4>4, <4>6, <4>7, <4>8 DEF CallReady
    <3>3. CASE Fail(c) \/ CheckUnavailable(c) \/ OpenSlots(c) \/ Drop(c) \/ Cancel(c) \/ Remind(c)
      BY <3>3, IdleIsReady DEF Fail, CheckUnavailable, OpenSlots, Drop, Cancel, Remind, Commits
    <3> QED
      BY <1>2, <3>1, <3>2, <3>3 DEF OtherCallStep
  <2> QED
    BY <1>0, <2>1, <2>2, <2>3, ForwardInvariant
<1>3. ASSUME Cover(c) \/ Recalculate(c) PROVE IInv'
  <2>1. CallReady(c)
    BY DEF Ready
  <2>2. Forward /\ (round' = round \/ Cleared')
    BY <1>3, <2>1, CoverForward, RecalculateForward DEF Cover
  <2>3. /\ UNCHANGED pay /\ call' = [call EXCEPT ![c] = IdleCall]
        /\ status' = "PAYMENT_PENDING" => status = "PAYMENT_PENDING"
    BY <1>3 DEF Cover, Recalculate, Commits
  <2>4. CallReady(c)' /\ \A d \in Call \ {c} : call'[d] = call[d]
    BY <2>3, IdleIsReady DEF TypeOK
  <2> QED
    BY <1>0, <2>2, <2>3, <2>4, ForwardInvariant
<1> QED
  BY <1>1, <1>2, <1>3 DEF CallStep, OtherCallStep

\* Payments.
LEMMA PayKeeps == ASSUME IInv, NEW p \in Player, PayStep(p) PROVE IInv'
<1> USE DEF IInv, rowVars, requestVars, slotVars, procVars
<1>0. TypeOK' /\ PayReady(p)
  BY PayType DEF Ready
<1>1. Forward /\ UNCHANGED <<round, call>> /\ (status' = "PAYMENT_PENDING" => status = "PAYMENT_PENDING")
  <2>1. CASE PayCommit(p) \/ MarkPaid(p)
    BY <1>0, <2>1, PaidForward DEF PayCommit, MarkPaid
  <2>2. CASE OtherPayStep(p)
    BY <2>2, OtherPaysKeep, SharesStay
  <2> QED
    BY <2>1, <2>2 DEF PayStep, OtherPayStep
<1>2. \A q \in Player \ {p} : pay'[q] = pay[q]
  BY DEF PayStep, PayLoad, Verify, VerifyTooLate, Reverse, PayCommit, MarkPaid, TryFinalize, Finalize,
         SaveBooked, TypeOK
<1>3. PayReady(p)'
  <2>1. ASSUME NEW k \in Round, PayLoad(p, k) PROVE PayReady(p)'
    <3>1. pay'[p].pc = "paying" /\ pay'[p].round = k /\ pay'[p].last = ~StillPending(p, k)
      BY <2>1 DEF PayLoad, TypeOK
    <3>2. share[p][k] # "none" /\ UNCHANGED share
      BY <2>1 DEF PayLoad, LatestPending
    <3>3. ~StillPending(p, k) => \A q \in Player \ {p} : share[q][1] # "PENDING"
      BY OneIsARound DEF StillPending
    <3> QED
      BY <3>1, <3>2, <3>3 DEF PayReady
  <2>2. ASSUME NEW k \in Round, Verify(p, k) PROVE PayReady(p)'
    BY <2>2 DEF Verify, TypeOK, PayReady
  <2>3. ASSUME NEW k \in Round, VerifyTooLate(p, k) \/ Reverse(p, k) PROVE PayReady(p)'
    BY <1>0, <2>3 DEF VerifyTooLate, Reverse, PayReady
  <2>4. ASSUME PayCommit(p) \/ SaveBooked(p) PROVE PayReady(p)'
    BY <2>4, IdleIsReady DEF PayCommit, SaveBooked
  <2>5. ASSUME MarkPaid(p) PROVE PayReady(p)'
    <3>1. CASE ~Exists
      BY <2>5, <3>1, IdleIsReady DEF MarkPaid
    <3>2. CASE Exists
      <4>1. pay[p].round \in Round
        BY DEF TypeOK, PayState
      <4>2. pay'[p].pc = "marked" /\ pay'[p].round = pay[p].round
        BY <2>5, <3>2 DEF MarkPaid, TypeOK, PayState
      <4>3. share'[p][pay[p].round] = "PAID"
        BY <2>5, <3>2, <4>1 DEF MarkPaid, TypeOK
      <4> QED
        BY <4>2, <4>3 DEF PayReady
    <3> QED
      BY <3>1, <3>2
  <2>6. ASSUME TryFinalize(p) PROVE PayReady(p)'
    <3>1. CASE status = "PAYMENT_PENDING" /\ NothingPending
      <4>1. pay'[p].pc = "book" /\ pay'[p].round = pay[p].round /\ UNCHANGED share
        BY <2>6, <3>1 DEF TryFinalize, TypeOK, PayState
      <4>2. share[p][pay[p].round] # "none"
        BY <1>0, <2>6 DEF TryFinalize, PayReady
      <4>3. \A q \in Player : share[q][1] # "PENDING"
        BY <3>1, OneIsARound DEF NothingPending
      <4> QED
        BY <4>1, <4>2, <4>3 DEF PayReady
    <3>2. CASE ~(status = "PAYMENT_PENDING" /\ NothingPending)
      <4>1. pay' = [pay EXCEPT ![p] = IdlePay]
        BY <2>6, <3>2 DEF TryFinalize
      <4> QED
        BY <4>1, IdleIsReady
    <3> QED
      BY <3>1, <3>2
  <2>7. ASSUME Finalize(p) PROVE PayReady(p)'
    <3>1. pay'[p].pc = "booked" /\ pay'[p].round = pay[p].round /\ UNCHANGED share
      BY <2>7 DEF Finalize, TypeOK, PayState
    <3> QED
      BY <1>0, <2>7, <3>1 DEF Finalize, PayReady
  <2> QED
    BY <2>1, <2>2, <2>3, <2>4, <2>5, <2>6, <2>7 DEF PayStep
<1> QED
  BY <1>0, <1>1, <1>2, <1>3, ForwardInvariant

LEMMA NextKeeps == IInv /\ [Next]_vars => IInv'
<1> SUFFICES ASSUME IInv, [Next]_vars PROVE IInv'
  OBVIOUS
<1>1. CASE AnswerStep \/ MatchStep \/ Rival \/ Sweep \/ Time
  BY <1>1, OutsidersKeep, SharesStay, NextType, ForwardInvariant DEF IInv, Next
<1>2. CASE UNCHANGED vars
  BY <1>2, NextType, SharesStay, ForwardInvariant DEF IInv, vars, rowVars, requestVars, procVars
<1> QED
  BY <1>1, <1>2, DecisionKeeps, PayKeeps DEF Next

LEMMA InvariantHolds == Spec => []IInv
BY InitInvariant, NextKeeps, PTL DEF Spec

(***************************************************************************)
(* What follows.                                                           *)
(***************************************************************************)

\* Nobody is asked for a share of a later round who has not settled the one
\* before (TeamBookingPayment.round), for any number of rounds and of captain's
\* requests under way.
THEOREM TopUpsInOrder == Spec => []TopUpOnlyIfSettled
<1>1. IInv => TopUpOnlyIfSettled
  <2> SUFFICES ASSUME IInv, NEW p \in Player, NEW k \in Round, k > 1, share[p][k] # "none"
               PROVE  share[p][k - 1] \in {"PAID", "COVERED_BY_OWNER"}
    BY DEF TopUpOnlyIfSettled
  <2>1. k - 1 \in Round /\ k - 1 < k
    BY ConstantsAssumption DEF Round
  <2> QED
    BY <2>1 DEF IInv, Orderly, IsSettled
<1> QED
  BY <1>1, InvariantHolds, PTL

LEMMA EveryStepMovesShares == IInv /\ [Next]_vars => Opens \/ Forward
<1> SUFFICES ASSUME IInv, [Next]_vars PROVE Opens \/ Forward
  OBVIOUS
<1>1. ASSUME NEW c \in Call, CallStep(c) PROVE Opens \/ Forward
  <2>1. CASE Start(c) \/ StartOpen(c)
    BY <2>1, StartsPayment DEF IInv
  <2>2. CASE Cover(c) \/ Recalculate(c)
    BY <2>2, CoverForward, RecalculateForward DEF IInv, Ready
  <2>3. CASE OtherCallStep(c)
    BY <2>3, OtherCallsKeep, SharesStay
  <2> QED
    BY <1>1, <2>1, <2>2, <2>3 DEF CallStep, OtherCallStep
<1>2. ASSUME NEW p \in Player, PayStep(p) PROVE Forward
  <2>1. CASE PayCommit(p) \/ MarkPaid(p)
    BY <2>1, PaidForward DEF IInv, Ready
  <2>2. CASE OtherPayStep(p)
    BY <2>2, OtherPaysKeep, SharesStay
  <2> QED
    BY <1>2, <2>1, <2>2 DEF PayStep, OtherPayStep
<1>3. CASE UNCHANGED vars
  BY <1>3, SharesStay DEF vars, rowVars
<1> QED
  BY <1>1, <1>2, <1>3, OutsidersKeep, SharesStay DEF Next

\* What a player has settled stays settled, whatever the captain decides on
\* what he had read before.
THEOREM SettledForGood == Spec => SettledStaysSettled
<1>1. IInv /\ [Next]_vars =>
         [\A p \in Player, k \in Round : share[p][k] \in {"PAID", "COVERED_BY_OWNER"}
                                             => share'[p][k] \in {"PAID", "COVERED_BY_OWNER"}]_vars
  BY EveryStepMovesShares DEF Opens, Forward, MovesForward, IsSettled
<1> QED
  BY <1>1, InvariantHolds, PTL DEF Spec, SettledStaysSettled

\* A code that is kept, and one that is about to be kept, has a booking.
Coded ==
    /\ finalCode # NoCode => booking[finalCode] # "none"
    /\ \A p \in Player : pay[p].pc = "booked" => booking[p] # "none"

\* No booking disappears, and whoever keeps a code has booked under it.
LEMMA CodedFrom ==
    ASSUME Coded,
           \A code \in Code : booking[code] # "none" => booking'[code] # "none",
           finalCode \in Code \union {NoCode},
           finalCode' = finalCode \/ booking'[finalCode'] # "none",
           \A p \in Player : pay'[p].pc = "booked" => pay[p].pc = "booked" \/ booking'[p] # "none"
    PROVE  Coded'
BY DEF Coded, Code

LEMMA CodedKept == TypeOK /\ Coded /\ [Next]_vars => Coded'
<1> USE DEF rowVars, requestVars, slotVars, procVars, timeVars
<1> SUFFICES ASSUME TypeOK, Coded, [Next]_vars PROVE Coded'
  OBVIOUS
<1>0. /\ finalCode \in Code \union {NoCode} /\ NoCode \notin Code
      /\ Player \subseteq Code /\ Call \subseteq Code
  BY ConstantsAssumption DEF TypeOK, Code
<1>1. ASSUME UNCHANGED <<booking, finalCode, pay>> PROVE Coded'
  BY <1>1 DEF Coded
<1>2. ASSUME NEW code \in Code, BookSlot(code)
      PROVE  booking'[code] # "none" /\ \A other \in Code : booking[other] # "none" => booking'[other] # "none"
  BY <1>2 DEF BookSlot, TypeOK
<1>3. CASE AnswerStep \/ MatchStep \/ Rival \/ Sweep \/ Time
  <2>1. UNCHANGED <<booking, finalCode, pay>>
    BY <1>3
       DEF AnswerStep, LoadExpired, MarkExpired, LoadConfirm, SaveConfirm, Decline, MatchStep, FillMatch,
           LeaveMatch, Rival, Sweep, UpkeepTo, LoadTimedOut, SweepRelease, SweepFlag, LoadAtRisk,
           SweepCheck, Time, RequestTimesOut, PaymentTimesOut
  <2> QED
    BY <1>1, <2>1
<1>4. ASSUME NEW c \in Call, CallStep(c) PROVE Coded'
  <2>1. CASE Cover(c)
    BY <1>0, <1>2, <2>1, CodedFrom DEF Cover, Commits
  <2>2. CASE ~Cover(c)
    <3>1. UNCHANGED <<booking, finalCode, pay>>
      BY <1>4, <2>2
         DEF CallStep, Load, Fail, CheckAvailable, CheckUnavailable, Start, StartOpen, StartPayment,
             OpenSlots, Drop, Cancel, Delete, Remind, Recalculate, Commits
    <3> QED
      BY <1>1, <3>1
  <2> QED
    BY <2>1, <2>2
<1>5. ASSUME NEW p \in Player, PayStep(p) PROVE Coded'
  <2>1. \A q \in Player \ {p} : pay'[q] = pay[q]
    BY <1>5
       DEF PayStep, PayLoad, Verify, VerifyTooLate, Reverse, PayCommit, MarkPaid, TryFinalize, Finalize,
           SaveBooked, TypeOK
  <2>2. CASE Finalize(p)
    BY <1>0, <1>2, <2>1, <2>2, CodedFrom DEF Finalize
  <2>3. CASE PayCommit(p)
    <3>1. pay'[p].pc # "booked"
      BY <2>3 DEF PayCommit, IdlePay, TypeOK
    <3>2. CASE pay[p].last
      BY <1>0, <1>2, <2>1, <2>3, <3>1, <3>2, CodedFrom DEF PayCommit
    <3>3. CASE ~pay[p].last
      BY <1>0, <2>1, <2>3, <3>1, <3>3, CodedFrom DEF PayCommit
    <3> QED
      BY <3>2, <3>3
  <2>4. CASE SaveBooked(p)
    <3>1. pay'[p].pc # "booked"
      BY <2>4 DEF SaveBooked, IdlePay, TypeOK
    <3>2. booking[p] # "none" /\ UNCHANGED booking /\ finalCode' \in {finalCode, p}
      BY <2>4 DEF SaveBooked, Coded
    <3> QED
      BY <1>0, <2>1, <3>1, <3>2, CodedFrom
  <2>5. CASE \E k \in Round : Reverse(p, k)
    <3>1. booking' = booking \/ booking' = BookingsAfterReversal
      BY <2>5 DEF Reverse
    <3>2. \A code \in Code : booking[code] # "none" => booking'[code] # "none"
      BY <3>1 DEF BookingsAfterReversal, TypeOK
    <3> QED
      BY <1>0, <2>5, <3>2, CodedFrom DEF Reverse
  <2>6. CASE \/ \E k \in Round : PayLoad(p, k) \/ Verify(p, k) \/ VerifyTooLate(p, k)
             \/ MarkPaid(p) \/ TryFinalize(p)
    <3>1. UNCHANGED <<booking, finalCode>>
      BY <2>6 DEF PayLoad, Verify, VerifyTooLate, MarkPaid, TryFinalize
    <3>2. pay'[p].pc = "booked" => pay[p].pc = "booked"
      <4>1. ASSUME NEW k \in Round, PayLoad(p, k) \/ Verify(p, k) \/ VerifyTooLate(p, k)
            PROVE  pay'[p].pc = "booked" => pay[p].pc = "booked"
        BY <4>1 DEF PayLoad, Verify, VerifyTooLate, TypeOK
      <4>2. ASSUME MarkPaid(p) PROVE pay'[p].pc # "booked"
        BY <4>2 DEF MarkPaid, IdlePay, TypeOK, PayState
      <4>3. ASSUME TryFinalize(p) PROVE pay'[p].pc # "booked"
        BY <4>3 DEF TryFinalize, IdlePay, TypeOK, PayState
      <4> QED
        BY <2>6, <4>1, <4>2, <4>3
    <3> QED
      BY <1>0, <2>1, <3>1, <3>2, CodedFrom
  <2> QED
    BY <1>5, <2>2, <2>3, <2>4, <2>5, <2>6 DEF PayStep
<1>6. CASE UNCHANGED vars
  BY <1>1, <1>6 DEF vars
<1> QED
  BY <1>3, <1>4, <1>5, <1>6 DEF Next

LEMMA CodedHolds == Spec => []Coded
<1>1. Init => Coded
  BY DEF Init, Coded, IdlePay
<1> QED
  BY <1>1, CodedKept, TypeCorrect, PTL DEF Spec

\* Only a last payment, its repair and the captain's cover make a booking; by
\* then nobody else owes a first share.  A booking is cancelled, never removed.
LEMMA BookingsNeedShares ==
    IInv /\ Coded /\ [Next]_vars => /\ Booked => Booked'
                                    /\ Booked' /\ ~Booked => Opened /\ Owing' \subseteq {captain}
<1> USE DEF IInv, rowVars, requestVars, slotVars, procVars
<1> SUFFICES ASSUME IInv, Coded, [Next]_vars
             PROVE  /\ Booked => Booked'
                    /\ Booked' /\ ~Booked => Opened /\ Owing' \subseteq {captain}
  OBVIOUS
<1>1. UNCHANGED booking => Booked' = Booked
  BY DEF Booked
<1>2. ASSUME NEW code \in Code, BookSlot(code) PROVE Booked'
  BY <1>2 DEF BookSlot, Booked, TypeOK
<1>3. ASSUME NEW c \in Call, Cover(c) PROVE Booked' /\ Opened /\ Owing' \subseteq {captain}
  <2>1. CallReady(c) /\ call[c].op = "cover" /\ call[c].pc = "checked"
    BY <1>3 DEF Ready, Cover, Commits
  <2>2. \A q \in Player : share'[q][1] = "PENDING" => share[q][1] = "PENDING"
    BY <1>3, <2>1, CoverForward, ForwardKeeps DEF Owing
  <2>3. ASSUME NEW q \in Player \ {captain}, share'[q][1] = "PENDING" PROVE FALSE
    <3>1. q \in call[c].unpaid /\ call[c].round = 1
      BY <2>1, <2>2, <2>3 DEF CallReady
    <3>2. share'[q] = [share[q] EXCEPT ![1] = "COVERED_BY_OWNER"]
      BY <1>3, <3>1 DEF Cover
    <3> QED
      BY <2>3, <3>2, OneIsARound DEF TypeOK
  <2>4. Opened
    BY <2>1 DEF CallReady
  <2> QED
    BY <1>2, <1>3, <2>3, <2>4 DEF Cover, Code, Owing
<1>4. ASSUME NEW p \in Player, PayCommit(p)
      PROVE  /\ Booked => Booked'
             /\ Booked' /\ ~Booked => Opened /\ Owing' \subseteq {captain}
  <2>1. PayReady(p) /\ pay[p].pc = "paying" /\ pay[p].round \in Round
    BY <1>4 DEF Ready, PayCommit, TypeOK, PayState
  <2>2. CASE ~pay[p].last
    BY <1>1, <1>4, <2>2 DEF PayCommit
  <2>3. CASE pay[p].last
    <3>1. \A q \in Player \ {p} : share'[q][1] # "PENDING"
      BY <1>4, <2>1, <2>3 DEF PayReady, PayCommit, TypeOK
    <3>2. share'[p] = [share[p] EXCEPT ![pay[p].round] = "PAID"]
      BY <1>4 DEF PayCommit, TypeOK
    <3>3. share[p][pay[p].round] # "none"
      BY <2>1 DEF PayReady
    <3>4. pay[p].round > 1 => IsSettled(share[p][1])
      BY <2>1, <3>3, OneIsARound DEF Orderly
    <3>5. share'[p][1] # "PENDING"
      BY <2>1, <3>2, <3>4, OneIsARound DEF IsSettled, TypeOK
    <3>6. share[p][1] # "none"
      BY <2>1, <3>3, <3>4, OneIsARound DEF IsSettled
    <3>7. Booked'
      BY <1>2, <1>4, <2>3 DEF PayCommit, Code
    <3> QED
      BY <3>1, <3>5, <3>6, <3>7 DEF Owing, Opened
  <2> QED
    BY <2>2, <2>3
<1>5. ASSUME NEW p \in Player, Finalize(p) PROVE Booked' /\ Opened /\ Owing' \subseteq {captain}
  <2>1. PayReady(p) /\ pay[p].pc = "book" /\ pay[p].round \in Round
    BY <1>5 DEF Ready, Finalize, TypeOK, PayState
  <2>2. share[p][1] # "none"
    BY <2>1, OneIsARound DEF PayReady, Orderly, IsSettled
  <2>3. \A q \in Player : share'[q][1] # "PENDING"
    BY <1>5, <2>1 DEF Finalize, PayReady
  <2> QED
    BY <1>2, <1>5, <2>2, <2>3 DEF Finalize, Code, Owing, Opened
<1>6. ASSUME NEW p \in Player, NEW k \in Round, Reverse(p, k) PROVE Booked' = Booked
  <2>1. booking' = booking \/ booking' = BookingsAfterReversal
    BY <1>6 DEF Reverse
  <2>2. \A code \in Code : (booking'[code] # "none") = (booking[code] # "none")
    BY <2>1 DEF BookingsAfterReversal, Coded, TypeOK
  <2> QED
    BY <2>2 DEF Booked
<1>7. CASE AnswerStep \/ MatchStep \/ Rival \/ Sweep \/ Time \/ UNCHANGED vars
  <2>1. UNCHANGED booking
    BY <1>7
       DEF AnswerStep, LoadExpired, MarkExpired, LoadConfirm, SaveConfirm, Decline, MatchStep, FillMatch,
           LeaveMatch, Rival, Sweep, UpkeepTo, LoadTimedOut, SweepRelease, SweepFlag, LoadAtRisk,
           SweepCheck, Time, RequestTimesOut, PaymentTimesOut, vars
  <2> QED
    BY <1>1, <2>1
<1>8. ASSUME NEW c \in Call, CallStep(c), ~Cover(c) PROVE Booked' = Booked
  <2>1. UNCHANGED booking
    BY <1>8
       DEF CallStep, Load, Fail, CheckAvailable, CheckUnavailable, Start, StartOpen, StartPayment,
           OpenSlots, Drop, Cancel, Delete, Remind, Recalculate, Commits
  <2> QED
    BY <1>1, <2>1
<1>9. ASSUME NEW p \in Player, PayStep(p), ~PayCommit(p), ~Finalize(p), \A k \in Round : ~Reverse(p, k)
      PROVE  Booked' = Booked
  <2>1. UNCHANGED booking
    BY <1>9 DEF PayStep, PayLoad, Verify, VerifyTooLate, MarkPaid, TryFinalize, SaveBooked
  <2> QED
    BY <1>1, <2>1
<1> QED
  BY <1>3, <1>4, <1>5, <1>6, <1>7, <1>8, <1>9 DEF Next

\* The request implements its pool of shares: the captain asks for the money
\* once, whatever double clicks, retries and stale saves do to the status, and
\* no booking is made while a player other than him owes his first share.
THEOREM TeamImplementsSharePool == Spec => ImplementsSharePool
<1>1. Init => Pool!Init
  <2> SUFFICES ASSUME Init PROVE Pool!Init
    OBVIOUS
  <2>1. ~Opened /\ Owing = {} /\ ~Booked
    BY OneIsARound DEF Init, Opened, Owing, Booked
  <2> QED
    BY <2>1 DEF Pool!Init
<1>2. IInv /\ Coded /\ [Next]_vars => [Pool!Next]_<<Opened, Owing, Booked>>
  <2> SUFFICES ASSUME IInv, Coded, [Next]_vars PROVE [Pool!Next]_<<Opened, Owing, Booked>>
    OBVIOUS
  <2>0. /\ Booked => Booked'
        /\ Booked' /\ ~Booked => Opened /\ Owing' \subseteq {captain}
    BY BookingsNeedShares
  <2>1. CASE Opens
    <3>1. captain \in Player /\ 1 \in Round
      BY ConstantsAssumption, OneIsARound
    <3>2. ~Opened /\ Opened' /\ captain \in Owing' /\ Owing' \subseteq Player
      BY <2>1, <3>1 DEF Opens, Opened, Owing
    <3>3. Booked' = Booked
      BY <2>0, <3>2 DEF Booked
    <3>4. Pool!Open(Owing')
      BY <3>2, <3>3 DEF Pool!Open, Opened
    <3> QED
      BY <3>2, <3>4 DEF Pool!Next
  <2>2. CASE Forward
    <3>1. Opened' = Opened /\ Owing' \subseteq Owing
      BY <2>2, ForwardKeeps DEF IInv
    <3>2. CASE Opened
      <4>1. Owing' = Owing \ (Owing \ Owing')
        BY <3>1
      <4>2. Booked' \in {Booked, TRUE}
        BY <2>0 DEF Booked
      <4>3. Pool!Settle(Owing \ Owing')
        BY <2>0, <3>1, <3>2, <4>1, <4>2 DEF Pool!Settle
      <4>4. Owing \ Owing' \in SUBSET Player
        BY DEF Owing
      <4> QED
        BY <4>3, <4>4 DEF Pool!Next
    <3>3. CASE ~Opened
      <4>1. Owing = {} /\ Owing' = {}
        BY <3>1, <3>3 DEF Opened, Owing
      <4>2. Booked' = Booked
        BY <2>0, <3>3 DEF Booked
      <4> QED
        BY <3>1, <4>1, <4>2
    <3> QED
      BY <3>2, <3>3
  <2> QED
    BY <2>1, <2>2, EveryStepMovesShares
<1> QED
  BY <1>1, <1>2, InvariantHolds, CodedHolds, PTL DEF Spec, ImplementsSharePool, Pool!Spec

================================================================================
