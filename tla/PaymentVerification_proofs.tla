----------------------- MODULE PaymentVerification_proofs -----------------------
(***************************************************************************)
(* What PaymentVerification.tla promises for every number of attempts,     *)
(* targets, references and requests.                                       *)
(*                                                                         *)
(* The inductive invariant has four parts:                                 *)
(*   RowsFilled    what a row that has been created holds;                 *)
(*   RunsInStep    a request's copy agrees with its row on the target and, *)
(*                 up to spelling, on the reference;                       *)
(*   PaidOnce      VERIFIED rows differ in target and in reference;        *)
(*   Attested      what is kept of the bank's confirmations is genuine.    *)
(***************************************************************************)
EXTENDS PaymentVerification, TLAPS

HasForm == {"reference", "lookup", "create", "insert"}
HasRow  == {"created", "calling", "polled", "decide", "conflict", "sync", "recover",
            "discard", "review"}

RowsFilled == \A t \in Txn : status[t] # "unborn" => target[t] \in Target /\ ref[t] \in Ref

RunInStep(r) ==
    /\ pc[r] \in HasForm => wants[r] \in Target /\ typed[r] \in Ref
    /\ pc[r] \in HasRow =>
          /\ txn[r] \in Txn
          /\ status[txn[r]] # "unborn"
          /\ wants[r] = target[txn[r]]
          /\ typed[r] \in Ref
          /\ Canonical[typed[r]] = Canonical[ref[txn[r]]]

RunsInStep == \A r \in Run : RunInStep(r)

PaidOnce ==
    \A t, q \in Txn :
        status[t] = "VERIFIED" /\ status[q] = "VERIFIED" /\ t # q
        => ref[t] # ref[q] /\ target[t] # target[q]

RunAttested(r) ==
    /\ pc[r] = "idle" => ~copyStored[r]
    /\ copyStored[r] /\ pc[r] # "done" => typed[r] \in Ref /\ Canonical[typed[r]] \in confirmed
    /\ pc[r] = "decide" /\ answer[r] = "pass" => Canonical[typed[r]] \in confirmed

Attested ==
    /\ \A t \in Txn : stored[t] => status[t] # "unborn" /\ Canonical[ref[t]] \in confirmed
    /\ \A r \in Run : RunAttested(r)
    /\ VerifiedWasConfirmed

(***************************************************************************)
(* What a step does to the rows: nothing, or one of three things.          *)
(***************************************************************************)

\* A row leaves VERIFIED, or changes between other statuses.
Turns(t, s) ==
    /\ status[t] # "unborn"
    /\ s \notin {"VERIFIED", "unborn"}
    /\ s \in InFlight => MayBeInFlight(t)
    /\ status' = [status EXCEPT ![t] = s]
    /\ UNCHANGED <<target, ref>>

\* A row becomes, or stays, VERIFIED, with p as a spelling of its reference.
Verifies(t, p) ==
    /\ status[t] # "unborn"
    /\ Canonical[p] = Canonical[ref[t]]
    /\ MayBeVerified(t, p, target[t])
    /\ status' = [status EXCEPT ![t] = "VERIFIED"]
    /\ ref' = [ref EXCEPT ![t] = p]
    /\ UNCHANGED target

\* A new row replaces the attempts in flight with its reference.
Creates(t, x, p) ==
    /\ status[t] = "unborn"
    /\ status' = [q \in Txn |-> IF q = t THEN "PENDING"
                                ELSE IF q \in Superseded(p) THEN "REJECTED" ELSE status[q]]
    /\ target' = [target EXCEPT ![t] = x]
    /\ ref' = [ref EXCEPT ![t] = p]

RowStep ==
    \/ UNCHANGED <<status, target, ref>>
    \/ \E t \in Txn, s \in PaymentStatus \union {"deleted"} : Turns(t, s)
    \/ \E t \in Txn, p \in Ref : Verifies(t, p)
    \/ \E t \in Txn, x \in Target, p \in Ref : Creates(t, x, p)

\* Each action of a submission is a row step.
LEMMA SubmitRowStep ==
    ASSUME TypeOK, RowsFilled, RunsInStep, NEW r \in Run, SubmitStep(r)
    PROVE  RowStep
<1> USE DEF rowVars
<1>1. ASSUME NEW x \in Target, NEW p \in Ref, CheckReference(r, x, p) PROVE RowStep
  BY <1>1 DEF CheckReference, RowStep
<1>2. ASSUME CheckTarget(r) PROVE RowStep
  BY <1>2 DEF CheckTarget, RowStep
<1>3. ASSUME LookUpAnswer(r) PROVE RowStep
  BY <1>3 DEF LookUpAnswer, RowStep
<1>4. ASSUME NEW t \in Txn, ReplaceAttempts(r, t) \/ InsertRow(r, t) PROVE RowStep
  <2>1. wants[r] \in Target /\ typed[r] \in Ref
    BY <1>4 DEF ReplaceAttempts, InsertRow, RunsInStep, RunInStep, HasForm
  <2>2. Creates(t, wants[r], typed[r])
    BY <1>4 DEF ReplaceAttempts, InsertRow, CreateRow, Creates
  <2> QED
    BY <2>1, <2>2 DEF RowStep
<1>5. ASSUME UseStored(r) PROVE RowStep
  BY <1>5 DEF UseStored, RowStep
<1>6. ASSUME MarkProcessing(r) PROVE RowStep
  <2>1. txn[r] \in Txn /\ status[txn[r]] # "unborn"
    BY <1>6 DEF MarkProcessing, RunsInStep, RunInStep, HasRow
  <2>2. Turns(txn[r], "PROCESSING") \/ UNCHANGED <<status, target, ref>>
    BY <1>6, <2>1 DEF MarkProcessing, Turns, InFlight
  <2> QED
    BY <2>1, <2>2 DEF RowStep, PaymentStatus
<1>7. ASSUME CallFails(r) PROVE RowStep
  <2>1. txn[r] \in Txn /\ Turns(txn[r], "deleted")
    BY <1>7 DEF CallFails, RunsInStep, RunInStep, HasRow, Turns, InFlight
  <2> QED
    BY <2>1 DEF RowStep
<1>8. ASSUME CallQueued(r) PROVE RowStep
  BY <1>8 DEF CallQueued, RowStep
<1>9. ASSUME CallAnswers(r) PROVE RowStep
  BY <1>9 DEF CallAnswers, RowStep
<1>10. ASSUME CallRefused(r) PROVE RowStep
  BY <1>10 DEF CallRefused, RowStep
<1>11. ASSUME FindNoAttempts(r) PROVE RowStep
  BY <1>11 DEF FindNoAttempts, RowStep
<1> QED
  BY <1>1, <1>2, <1>3, <1>4, <1>5, <1>6, <1>7, <1>8, <1>9, <1>10, <1>11 DEF SubmitStep

\* So is each action that decides an attempt.
LEMMA DecideRowStep ==
    ASSUME TypeOK, RowsFilled, RunsInStep, NEW r \in Run, DecideStep(r)
    PROVE  RowStep
<1> USE DEF rowVars
<1>1. ASSUME TurnDown(r) PROVE RowStep
  <2>1. txn[r] \in Txn /\ Turns(txn[r], Outcome(answer[r]))
    BY <1>1 DEF TurnDown, SaveStatus, Exists, PaymentStatus, Outcome, RunsInStep, RunInStep, HasRow, Turns, InFlight
  <2> QED
    BY <2>1 DEF RowStep, Outcome, PaymentStatus
<1>2. ASSUME Verify(r) PROVE RowStep
  <2>1. /\ txn[r] \in Txn
        /\ status[txn[r]] # "unborn"
        /\ wants[r] = target[txn[r]]
        /\ typed[r] \in Ref
        /\ Canonical[typed[r]] = Canonical[ref[txn[r]]]
    BY <1>2 DEF Verify, RunsInStep, RunInStep, HasRow
  <2>2. PICK p \in {typed[r], Canonical[typed[r]]} :
             \/ /\ MayBeVerified(txn[r], p, wants[r])
                /\ status' = [status EXCEPT ![txn[r]] = "VERIFIED"]
                /\ ref' = [ref EXCEPT ![txn[r]] = p]
             \/ UNCHANGED <<status, ref>>
    BY <1>2 DEF Verify
  <2>3. p \in Ref /\ Canonical[p] = Canonical[ref[txn[r]]]
    BY <2>1, ConstantsAssumption
  <2>4. Verifies(txn[r], p) \/ UNCHANGED <<status, target, ref>>
    BY <1>2, <2>1, <2>2, <2>3 DEF Verifies, Verify
  <2> QED
    BY <2>1, <2>3, <2>4 DEF RowStep
<1>3. ASSUME HandleConflict(r) PROVE RowStep
  BY <1>3 DEF HandleConflict, RowStep
<1>4. ASSUME Sync(r) \/ Break(r) \/ Recover(r) PROVE RowStep
  BY <1>4 DEF Sync, Break, Recover, RowStep
<1>5. ASSUME Discard(r) PROVE RowStep
  <2>1. txn[r] \in Txn /\ Turns(txn[r], "deleted")
    BY <1>5 DEF Discard, RunsInStep, RunInStep, HasRow, Turns, InFlight
  <2> QED
    BY <2>1 DEF RowStep
<1> QED
  BY <1>1, <1>2, <1>3, <1>4, <1>5 DEF DecideStep

\* So is each step of a poll, of a review and of the owner.
LEMMA PeopleRowStep ==
    ASSUME TypeOK, RowsFilled, RunsInStep,
           (\E r \in Run : PollStep(r) \/ ReviewStep(r)) \/ (\E t \in Txn : OwnerStep(t))
    PROVE  RowStep
<1> USE DEF rowVars, runVars
<1>1. ASSUME NEW r \in Run, PollStep(r) PROVE RowStep
  BY <1>1 DEF PollStep, Poll, PollAnswers, RowStep
<1>2. ASSUME NEW r \in Run, NEW t \in Txn, LoadReview(r, t) PROVE RowStep
  BY <1>2 DEF LoadReview, RowStep
<1>3. ASSUME NEW r \in Run, ApproveReview(r) PROVE RowStep
  <2>1. txn[r] \in Txn /\ typed[r] \in Ref /\ Verifies(txn[r], typed[r])
    BY <1>3 DEF ApproveReview, RunsInStep, RunInStep, HasRow, Verifies
  <2> QED
    BY <2>1 DEF RowStep
<1>4. ASSUME NEW r \in Run, RejectReview(r) PROVE RowStep
  <2>1. txn[r] \in Txn /\ Turns(txn[r], "REJECTED")
    BY <1>4 DEF RejectReview, SaveStatus, RunsInStep, RunInStep, HasRow, Turns, InFlight
  <2> QED
    BY <2>1 DEF RowStep, PaymentStatus
<1>5. ASSUME NEW t \in Txn, OwnerApprove(t) PROVE RowStep
  <2>1. ref[t] \in Ref /\ ref' = [ref EXCEPT ![t] = ref[t]]
    BY <1>5 DEF OwnerApprove, RowsFilled, TypeOK
  <2>2. Verifies(t, ref[t])
    BY <1>5, <2>1 DEF OwnerApprove, Verifies
  <2> QED
    BY <2>1, <2>2 DEF RowStep
<1>6. ASSUME NEW t \in Txn, OwnerReject(t) \/ OwnerReverse(t) PROVE RowStep
  <2>1. Turns(t, "REJECTED")
    BY <1>6 DEF OwnerReject, OwnerReverse, SaveStatus, Turns, InFlight
  <2> QED
    BY <2>1 DEF RowStep, PaymentStatus
<1> QED
  BY <1>1, <1>2, <1>3, <1>4, <1>5, <1>6 DEF ReviewStep, OwnerStep

LEMMA EveryStepIsRowStep == TypeOK /\ RowsFilled /\ RunsInStep /\ [Next]_vars => RowStep
BY SubmitRowStep, DecideRowStep, PeopleRowStep DEF Next, RowStep, vars, rowVars

(***************************************************************************)
(* What a row step preserves.                                              *)
(***************************************************************************)

\* A row that exists keeps its target and, up to spelling, its reference.
RowsKept ==
    \A t \in Txn : status[t] # "unborn" =>
        /\ status'[t] # "unborn"
        /\ target'[t] = target[t]
        /\ ref'[t] \in Ref
        /\ Canonical[ref'[t]] = Canonical[ref[t]]

LEMMA RowStepKeepsRows ==
    ASSUME TypeOK, RowsFilled, RowStep
    PROVE  RowsKept /\ RowsFilled'
<1>1. CASE UNCHANGED <<status, target, ref>>
  BY <1>1 DEF RowsFilled, RowsKept
<1>2. ASSUME NEW t \in Txn, NEW s \in PaymentStatus \union {"deleted"}, Turns(t, s)
      PROVE  RowsKept /\ RowsFilled'
  BY <1>2 DEF Turns, RowsFilled, RowsKept, TypeOK
<1>3. ASSUME NEW t \in Txn, NEW p \in Ref, Verifies(t, p)
      PROVE  RowsKept /\ RowsFilled'
  BY <1>3 DEF Verifies, RowsFilled, RowsKept, TypeOK
<1>4. ASSUME NEW t \in Txn, NEW x \in Target, NEW p \in Ref, Creates(t, x, p)
      PROVE  RowsKept /\ RowsFilled'
  BY <1>4 DEF Creates, RowsFilled, RowsKept, TypeOK, Superseded, InFlight
<1> QED
  BY <1>1, <1>2, <1>3, <1>4 DEF RowStep

LEMMA RowStepKeepsPaidOnce ==
    ASSUME TypeOK, PaidOnce, RowStep
    PROVE  PaidOnce'
<1>1. CASE UNCHANGED <<status, target, ref>>
  BY <1>1 DEF PaidOnce
<1>2. ASSUME NEW t \in Txn, NEW s \in PaymentStatus \union {"deleted"}, Turns(t, s)
      PROVE  PaidOnce'
  BY <1>2 DEF Turns, PaidOnce, TypeOK
<1>3. ASSUME NEW t \in Txn, NEW p \in Ref, Verifies(t, p)
      PROVE  PaidOnce'
  BY <1>3 DEF Verifies, PaidOnce, MayBeVerified, TypeOK
<1>4. ASSUME NEW t \in Txn, NEW x \in Target, NEW p \in Ref, Creates(t, x, p)
      PROVE  PaidOnce'
  BY <1>4 DEF Creates, PaidOnce, TypeOK
<1> QED
  BY <1>1, <1>2, <1>3, <1>4 DEF RowStep

(***************************************************************************)
(* Types, and the requests' copies.                                        *)
(***************************************************************************)

LEMMA InitInvariant ==
    Init => TypeOK /\ RowsFilled /\ RunsInStep /\ PaidOnce /\ Attested
BY DEF Init, TypeOK, RunPc, Answer, RowsFilled, RunsInStep, RunInStep, HasForm, HasRow, PaidOnce,
       Attested, RunAttested, VerifiedWasConfirmed

\* A request whose own variables do not change stays in step with its row.
LEMMA BystanderInStep ==
    ASSUME RowsKept, NEW q \in Run, RunInStep(q),
           UNCHANGED <<pc[q], txn[q], wants[q], typed[q]>>
    PROVE  RunInStep(q)'
BY DEF RowsKept, RunInStep

LEMMA SubmitTyped ==
    ASSUME TypeOK, RowsFilled, RunsInStep, NEW r \in Run, SubmitStep(r)
    PROVE  TypeOK' /\ RunsInStep'
<1> USE ConstantsAssumption DEF rowVars, runVars, Goto
<1>0. RowsKept
  BY SubmitRowStep, RowStepKeepsRows
<1>1. ASSUME NEW x \in Target, NEW p \in Ref, CheckReference(r, x, p) PROVE TypeOK' /\ RunsInStep'
  <2>1. TypeOK'
    BY <1>1 DEF CheckReference, TypeOK, RunPc
  <2>2. \A q \in Run : RunInStep(q)'
    BY <1>1 DEF CheckReference, TypeOK, RunsInStep, RunInStep, HasForm, HasRow
  <2> QED
    BY <2>1, <2>2 DEF RunsInStep
<1>2. ASSUME CheckTarget(r) PROVE TypeOK' /\ RunsInStep'
  <2>1. TypeOK'
    BY <1>2 DEF CheckTarget, TypeOK, RunPc
  <2>2. \A q \in Run : RunInStep(q)'
    BY <1>2 DEF CheckTarget, TypeOK, RunsInStep, RunInStep, HasForm, HasRow
  <2> QED
    BY <2>1, <2>2 DEF RunsInStep
<1>3. ASSUME LookUpAnswer(r) PROVE TypeOK' /\ RunsInStep'
  <2>1. TypeOK'
    BY <1>3 DEF LookUpAnswer, FindStored, TypeOK, RunPc
  <2>2. \A q \in Run : RunInStep(q)'
    BY <1>3 DEF LookUpAnswer, TypeOK, RunsInStep, RunInStep, HasForm, HasRow
  <2> QED
    BY <2>1, <2>2 DEF RunsInStep
<1>4. ASSUME NEW t \in Txn, ReplaceAttempts(r, t) \/ InsertRow(r, t) PROVE TypeOK' /\ RunsInStep'
  <2>1. wants[r] \in Target /\ typed[r] \in Ref
    BY <1>4 DEF ReplaceAttempts, InsertRow, CreateRow, RunsInStep, RunInStep, HasForm
  <2>2. TypeOK'
    <3>1. CreateRow(r, t)
      BY <1>4 DEF ReplaceAttempts, InsertRow
    <3> QED
      BY <2>1, <3>1 DEF CreateRow, TypeOK, RunPc, PaymentStatus
  <2>3. RunInStep(r)'
    BY <1>4, <2>1 DEF ReplaceAttempts, InsertRow, CreateRow, TypeOK, RunInStep, HasForm, HasRow
  <2>4. \A q \in Run \ {r} : RunInStep(q)'
    BY <1>4, <1>0, BystanderInStep DEF ReplaceAttempts, InsertRow, CreateRow, TypeOK, RunsInStep
  <2> QED
    BY <2>2, <2>3, <2>4 DEF RunsInStep
<1>5. ASSUME UseStored(r) PROVE TypeOK' /\ RunsInStep'
  <2>1. TypeOK'
    <3>1. PICK a \in Confirming : answer' = [answer EXCEPT ![r] = a]
      BY <1>5 DEF UseStored
    <3>2. answer' \in [Run -> Answer]
      BY <3>1 DEF TypeOK, Confirming, Answer
    <3>3. pc' \in [Run -> RunPc] /\ asked' \in [Txn -> BOOLEAN] /\ stored' \in [Txn -> BOOLEAN]
      BY <1>5 DEF UseStored, TypeOK, RunPc
    <3> QED
      BY <1>5, <3>2, <3>3 DEF UseStored, TypeOK
  <2>2. \A q \in Run : RunInStep(q)'
    BY <1>5 DEF UseStored, TypeOK, RunsInStep, RunInStep, HasForm, HasRow
  <2> QED
    BY <2>1, <2>2 DEF RunsInStep
<1>6. ASSUME MarkProcessing(r) PROVE TypeOK' /\ RunsInStep'
  <2>1. PICK where \in {"calling", "done"} : pc' = [pc EXCEPT ![r] = where]
    BY <1>6 DEF MarkProcessing
  <2>2. status' \in [Txn -> PaymentStatus \union {"unborn", "deleted"}]
    BY <1>6 DEF MarkProcessing, TypeOK, PaymentStatus
  <2>3. TypeOK'
    BY <1>6, <2>1, <2>2 DEF MarkProcessing, TypeOK, RunPc
  <2>4. \A q \in Run : RunInStep(q)'
    BY <1>0, <1>6, <2>1 DEF MarkProcessing, TypeOK, RunsInStep, RunInStep, HasForm, HasRow, RowsKept
  <2> QED
    BY <2>3, <2>4 DEF RunsInStep
<1>7. ASSUME CallFails(r) PROVE TypeOK' /\ RunsInStep'
  <2>1. TypeOK'
    BY <1>7 DEF CallFails, TypeOK, RunPc
  <2>2. \A q \in Run : RunInStep(q)'
    BY <1>0, <1>7 DEF CallFails, TypeOK, RunsInStep, RunInStep, HasForm, HasRow, RowsKept
  <2> QED
    BY <2>1, <2>2 DEF RunsInStep
<1>8. ASSUME CallQueued(r) PROVE TypeOK' /\ RunsInStep'
  <2>1. TypeOK'
    BY <1>8 DEF CallQueued, TypeOK, RunPc
  <2>2. \A q \in Run : RunInStep(q)'
    BY <1>8 DEF CallQueued, TypeOK, RunsInStep, RunInStep, HasForm, HasRow
  <2> QED
    BY <2>1, <2>2 DEF RunsInStep
<1>9. ASSUME CallAnswers(r) PROVE TypeOK' /\ RunsInStep'
  <2>1. typed[r] \in Ref
    BY <1>9 DEF CallAnswers, RunsInStep, RunInStep, HasRow
  <2>2. confirmed' \subseteq Ref
    BY <1>9, <2>1 DEF CallAnswers, TypeOK
  <2>3. PICK a \in Confirming \union {"fail"} :
             /\ answer' = [answer EXCEPT ![r] = a]
             /\ stored' = [stored EXCEPT ![txn[r]] = a \in Confirming]
             /\ copyStored' = [copyStored EXCEPT ![r] = a \in Confirming]
    BY <1>9 DEF CallAnswers
  <2>4. answer' \in [Run -> Answer]
    BY <2>3 DEF TypeOK, Answer, Confirming
  <2>5. stored' \in [Txn -> BOOLEAN] /\ copyStored' \in [Run -> BOOLEAN]
    <3>1. CASE a \in Confirming
      <4>1. stored' = [stored EXCEPT ![txn[r]] = TRUE] /\ copyStored' = [copyStored EXCEPT ![r] = TRUE]
        BY <2>3, <3>1, Zenon
      <4> QED
        BY <4>1 DEF TypeOK
    <3>2. CASE a \notin Confirming
      <4>1. stored' = [stored EXCEPT ![txn[r]] = FALSE] /\ copyStored' = [copyStored EXCEPT ![r] = FALSE]
        <5>1. (a \in Confirming) = FALSE
          BY <3>2
        <5> QED
          BY <2>3, <5>1
      <4> QED
        BY <4>1 DEF TypeOK
    <3> QED
      BY <3>1, <3>2
  <2>6. TypeOK'
    BY <1>9, <2>2, <2>4, <2>5 DEF CallAnswers, TypeOK, RunPc
  <2>7. \A q \in Run : RunInStep(q)'
    BY <1>9 DEF CallAnswers, TypeOK, RunsInStep, RunInStep, HasForm, HasRow
  <2> QED
    BY <2>6, <2>7 DEF RunsInStep
<1>10. ASSUME CallRefused(r) PROVE TypeOK' /\ RunsInStep'
  <2>1. TypeOK'
    BY <1>10 DEF CallRefused, TypeOK, RunPc, Answer
  <2>2. \A q \in Run : RunInStep(q)'
    BY <1>10 DEF CallRefused, TypeOK, RunsInStep, RunInStep, HasForm, HasRow
  <2> QED
    BY <2>1, <2>2 DEF RunsInStep
<1>11. ASSUME FindNoAttempts(r) PROVE TypeOK' /\ RunsInStep'
  <2>1. TypeOK'
    BY <1>11 DEF FindNoAttempts, TypeOK, RunPc
  <2>2. \A q \in Run : RunInStep(q)'
    BY <1>11 DEF FindNoAttempts, TypeOK, RunsInStep, RunInStep, HasForm, HasRow
  <2> QED
    BY <2>1, <2>2 DEF RunsInStep
<1> QED
  BY <1>1, <1>2, <1>3, <1>4, <1>5, <1>6, <1>7, <1>8, <1>9, <1>10, <1>11 DEF SubmitStep

LEMMA DecideTyped ==
    ASSUME TypeOK, RowsFilled, RunsInStep, NEW r \in Run, DecideStep(r)
    PROVE  TypeOK' /\ RunsInStep'
<1> USE ConstantsAssumption DEF rowVars, runVars, Goto
<1>0. RowsKept
  BY DecideRowStep, RowStepKeepsRows
<1>1. ASSUME TurnDown(r) PROVE TypeOK' /\ RunsInStep'
  <2>1. Outcome(answer[r]) \in PaymentStatus
    BY DEF Outcome, PaymentStatus
  <2>2. TypeOK'
    BY <1>1, <2>1 DEF TurnDown, SaveStatus, TypeOK, RunPc
  <2>3. \A q \in Run : RunInStep(q)'
    BY <1>0, <1>1 DEF TurnDown, TypeOK, RunsInStep, RunInStep, HasForm, HasRow, RowsKept
  <2> QED
    BY <2>2, <2>3 DEF RunsInStep
<1>2. ASSUME Verify(r) PROVE TypeOK' /\ RunsInStep'
  <2>1. /\ txn[r] \in Txn
        /\ status[txn[r]] # "unborn"
        /\ wants[r] = target[txn[r]]
        /\ typed[r] \in Ref
        /\ Canonical[typed[r]] = Canonical[ref[txn[r]]]
    BY <1>2 DEF Verify, RunsInStep, RunInStep, HasRow
  <2>2. PICK p \in {typed[r], Canonical[typed[r]]} :
             /\ typed' = [typed EXCEPT ![r] = p]
             /\ \/ /\ status' = [status EXCEPT ![txn[r]] = "VERIFIED"]
                   /\ ref' = [ref EXCEPT ![txn[r]] = p]
                   /\ asked' = [asked EXCEPT ![txn[r]] = TRUE]
                   /\ stored' = [stored EXCEPT ![txn[r]] = copyStored[r]]
                   /\ banned' = [banned EXCEPT ![txn[r]] = FALSE]
                   /\ byHand' = byHand \ {txn[r]}
                   /\ pc' = [pc EXCEPT ![r] = "sync"]
                \/ /\ pc' = [pc EXCEPT ![r] = "conflict"]
                   /\ UNCHANGED <<status, ref, asked, stored, banned, byHand>>
    BY <1>2 DEF Verify
  <2>3. p \in Ref /\ Canonical[p] = Canonical[typed[r]]
    BY <2>1
  <2>4. PICK where \in {"sync", "conflict"} : pc' = [pc EXCEPT ![r] = where]
    BY <2>2
  <2>5. pc' \in [Run -> RunPc] /\ typed' \in [Run -> Ref \union {Nothing}]
    BY <2>2, <2>3, <2>4 DEF TypeOK, RunPc
  <2>6. /\ status' \in [Txn -> PaymentStatus \union {"unborn", "deleted"}]
        /\ ref' \in [Txn -> Ref \union {Nothing}]
    BY <2>2, <2>3 DEF TypeOK, PaymentStatus
  <2>7. copyStored[r] \in BOOLEAN
    BY DEF TypeOK
  <2>8. /\ asked' \in [Txn -> BOOLEAN] /\ stored' \in [Txn -> BOOLEAN]
        /\ banned' \in [Txn -> BOOLEAN] /\ byHand' \subseteq Txn
    BY <2>2, <2>7 DEF TypeOK
  <2>9. TypeOK'
    BY <1>2, <2>5, <2>6, <2>8 DEF Verify, TypeOK
  <2>10. RunInStep(r)'
    BY <1>0, <1>2, <2>1, <2>2, <2>3, <2>4 DEF Verify, TypeOK, RunInStep, HasForm, HasRow, RowsKept
  <2>11. \A q \in Run \ {r} : RunInStep(q)'
    BY <1>0, <1>2, <2>2, <2>4, BystanderInStep DEF Verify, TypeOK, RunsInStep
  <2> QED
    BY <2>9, <2>10, <2>11 DEF RunsInStep
<1>3. ASSUME HandleConflict(r) PROVE TypeOK' /\ RunsInStep'
  <2>1. PICK a \in {"review", "fail"} : answer' = [answer EXCEPT ![r] = a]
    BY <1>3 DEF HandleConflict
  <2>2. TypeOK'
    BY <1>3, <2>1 DEF HandleConflict, TypeOK, RunPc, Answer
  <2>3. \A q \in Run : RunInStep(q)'
    BY <1>3 DEF HandleConflict, TypeOK, RunsInStep, RunInStep, HasForm, HasRow
  <2> QED
    BY <2>2, <2>3 DEF RunsInStep
<1>4. ASSUME Sync(r) PROVE TypeOK' /\ RunsInStep'
  <2>1. TypeOK'
    BY <1>4 DEF Sync, TypeOK, RunPc
  <2>2. \A q \in Run : RunInStep(q)'
    BY <1>4 DEF Sync, TypeOK, RunsInStep, RunInStep, HasForm, HasRow
  <2> QED
    BY <2>1, <2>2 DEF RunsInStep
<1>5. ASSUME Break(r) PROVE TypeOK' /\ RunsInStep'
  <2>1. TypeOK'
    BY <1>5 DEF Break, TypeOK, RunPc
  <2>2. \A q \in Run : RunInStep(q)'
    BY <1>5 DEF Break, TypeOK, RunsInStep, RunInStep, HasForm, HasRow
  <2> QED
    BY <2>1, <2>2 DEF RunsInStep
<1>6. ASSUME Recover(r) PROVE TypeOK' /\ RunsInStep'
  <2>1. PICK where \in {"done", "discard"} : pc' = [pc EXCEPT ![r] = where]
    BY <1>6 DEF Recover
  <2>2. TypeOK'
    BY <1>6, <2>1 DEF Recover, TypeOK, RunPc
  <2>3. \A q \in Run : RunInStep(q)'
    BY <1>6, <2>1 DEF Recover, TypeOK, RunsInStep, RunInStep, HasForm, HasRow
  <2> QED
    BY <2>2, <2>3 DEF RunsInStep
<1>7. ASSUME Discard(r) PROVE TypeOK' /\ RunsInStep'
  <2>1. TypeOK'
    BY <1>7 DEF Discard, TypeOK, RunPc
  <2>2. \A q \in Run : RunInStep(q)'
    BY <1>0, <1>7 DEF Discard, TypeOK, RunsInStep, RunInStep, HasForm, HasRow, RowsKept
  <2> QED
    BY <2>1, <2>2 DEF RunsInStep
<1> QED
  BY <1>1, <1>2, <1>3, <1>4, <1>5, <1>6, <1>7 DEF DecideStep

LEMMA PollTyped ==
    ASSUME TypeOK, RowsFilled, RunsInStep, NEW r \in Run, PollStep(r)
    PROVE  TypeOK' /\ RunsInStep'
<1> USE DEF rowVars, runVars, Goto
<1>1. ASSUME NEW t \in Txn, Poll(r, t) PROVE TypeOK' /\ RunsInStep'
  <2>1. target[t] \in Target /\ ref[t] \in Ref
    BY <1>1 DEF Poll, RowsFilled
  <2>2. TypeOK'
    BY <1>1, <2>1 DEF Poll, TypeOK, RunPc
  <2>3. \A q \in Run : RunInStep(q)'
    BY <1>1, <2>1 DEF Poll, TypeOK, RunsInStep, RunInStep, HasForm, HasRow
  <2> QED
    BY <2>2, <2>3 DEF RunsInStep
<1>2. ASSUME PollAnswers(r) PROVE TypeOK' /\ RunsInStep'
  <2>1. typed[r] \in Ref /\ Canonical[typed[r]] \in Ref
    BY <1>2, ConstantsAssumption DEF PollAnswers, RunsInStep, RunInStep, HasRow
  <2>2. confirmed' \subseteq Ref
    BY <1>2, <2>1 DEF PollAnswers, TypeOK
  <2>3. PICK a \in Answer \ {"none"} :
             /\ answer' = [answer EXCEPT ![r] = a]
             /\ copyStored' = [copyStored EXCEPT ![r] = a \in Confirming]
    BY <1>2 DEF PollAnswers
  <2>4. answer' \in [Run -> Answer]
    BY <2>3 DEF TypeOK
  <2>5. copyStored' \in [Run -> BOOLEAN]
    <3>1. CASE a \in Confirming
      <4>1. copyStored' = [copyStored EXCEPT ![r] = TRUE]
        BY <2>3, <3>1, Zenon
      <4> QED
        BY <4>1 DEF TypeOK
    <3>2. CASE a \notin Confirming
      <4>1. (a \in Confirming) = FALSE
        BY <3>2
      <4>2. copyStored' = [copyStored EXCEPT ![r] = FALSE]
        BY <2>3, <4>1
      <4> QED
        BY <4>2 DEF TypeOK
    <3> QED
      BY <3>1, <3>2
  <2>6. stored' \in [Txn -> BOOLEAN]
    <3>1. stored' = stored \/ stored' = [stored EXCEPT ![txn[r]] = FALSE]
      BY <1>2 DEF PollAnswers
    <3> QED
      BY <3>1 DEF TypeOK
  <2>7. TypeOK'
    BY <1>2, <2>2, <2>4, <2>5, <2>6 DEF PollAnswers, TypeOK, RunPc
  <2>8. \A q \in Run : RunInStep(q)'
    BY <1>2 DEF PollAnswers, TypeOK, RunsInStep, RunInStep, HasForm, HasRow
  <2> QED
    BY <2>7, <2>8 DEF RunsInStep
<1> QED
  BY <1>1, <1>2 DEF PollStep

LEMMA ReviewTyped ==
    ASSUME TypeOK, RowsFilled, RunsInStep, NEW r \in Run, ReviewStep(r)
    PROVE  TypeOK' /\ RunsInStep'
<1> USE DEF rowVars, runVars, Goto
<1>0. RowsKept
  BY PeopleRowStep, RowStepKeepsRows
<1>1. ASSUME NEW t \in Txn, LoadReview(r, t) PROVE TypeOK' /\ RunsInStep'
  <2>1. target[t] \in Target /\ ref[t] \in Ref
    BY <1>1 DEF LoadReview, RowsFilled
  <2>2. stored[t] \in BOOLEAN
    BY DEF TypeOK
  <2>3. copyStored' \in [Run -> BOOLEAN]
    BY <1>1, <2>2 DEF LoadReview, TypeOK
  <2>4. TypeOK'
    BY <1>1, <2>1, <2>3 DEF LoadReview, TypeOK, RunPc
  <2>5. \A q \in Run : RunInStep(q)'
    BY <1>1, <2>1 DEF LoadReview, TypeOK, RunsInStep, RunInStep, HasForm, HasRow
  <2> QED
    BY <2>4, <2>5 DEF RunsInStep
<1>2. ASSUME ApproveReview(r) PROVE TypeOK' /\ RunsInStep'
  <2>1. txn[r] \in Txn /\ typed[r] \in Ref
    BY <1>2 DEF ApproveReview, RunsInStep, RunInStep, HasRow
  <2>2. copyStored[r] \in BOOLEAN
    BY DEF TypeOK
  <2>3. stored' \in [Txn -> BOOLEAN] /\ banned' \in [Txn -> BOOLEAN]
    BY <1>2, <2>2 DEF ApproveReview, TypeOK
  <2>4. TypeOK'
    BY <1>2, <2>1, <2>3 DEF ApproveReview, TypeOK, RunPc, PaymentStatus
  <2>5. \A q \in Run : RunInStep(q)'
    BY <1>0, <1>2 DEF ApproveReview, TypeOK, RunsInStep, RunInStep, HasForm, HasRow, RowsKept
  <2> QED
    BY <2>4, <2>5 DEF RunsInStep
<1>3. ASSUME RejectReview(r) PROVE TypeOK' /\ RunsInStep'
  <2>1. TypeOK'
    BY <1>3 DEF RejectReview, SaveStatus, TypeOK, RunPc, PaymentStatus
  <2>2. \A q \in Run : RunInStep(q)'
    BY <1>0, <1>3 DEF RejectReview, TypeOK, RunsInStep, RunInStep, HasForm, HasRow, RowsKept
  <2> QED
    BY <2>1, <2>2 DEF RunsInStep
<1> QED
  BY <1>1, <1>2, <1>3 DEF ReviewStep

LEMMA OwnerTyped ==
    ASSUME TypeOK, RowsFilled, RunsInStep, NEW t \in Txn, OwnerStep(t)
    PROVE  TypeOK' /\ RunsInStep'
<1>1. RowsKept
  BY PeopleRowStep, RowStepKeepsRows
<1>2. TypeOK'
  BY DEF OwnerStep, OwnerApprove, OwnerReject, OwnerReverse, SaveStatus, TypeOK, PaymentStatus, runVars
<1>3. \A q \in Run : RunInStep(q)'
  BY <1>1, BystanderInStep DEF OwnerStep, OwnerApprove, OwnerReject, OwnerReverse, RunsInStep, runVars
<1> QED
  BY <1>2, <1>3 DEF RunsInStep

LEMMA CoreKept ==
    TypeOK /\ RowsFilled /\ RunsInStep /\ [Next]_vars => TypeOK' /\ RowsFilled' /\ RunsInStep'
<1> SUFFICES ASSUME TypeOK, RowsFilled, RunsInStep, [Next]_vars
             PROVE  TypeOK' /\ RowsFilled' /\ RunsInStep'
  OBVIOUS
<1>1. RowsFilled'
  BY EveryStepIsRowStep, RowStepKeepsRows
<1>2. CASE Next
  BY <1>1, <1>2, SubmitTyped, DecideTyped, PollTyped, ReviewTyped, OwnerTyped DEF Next
<1>3. CASE UNCHANGED vars
  BY <1>3 DEF vars, rowVars, runVars, TypeOK, RowsFilled, RunsInStep, RunInStep
<1> QED
  BY <1>1, <1>2, <1>3

Core == TypeOK /\ RowsFilled /\ RunsInStep

LEMMA CoreHolds == Spec => []Core
<1>1. Init => Core
  BY InitInvariant DEF Core
<1>2. Core /\ [Next]_vars => Core'
  BY CoreKept DEF Core
<1> QED
  BY <1>1, <1>2, PTL DEF Spec

\* Every variable keeps to its domain: EXPIRED, for one, is a status no code sets.
THEOREM TypeCorrect == Spec => []TypeOK
BY CoreHolds, PTL DEF Core

(***************************************************************************)
(* The ledger.                                                             *)
(***************************************************************************)

\* What paid says while VERIFIED rows differ in target.
PaidMatches ==
    /\ \A t \in Txn : status[t] = "VERIFIED" /\ target[t] \in Target => paid[target[t]] = ref[t]
    /\ \A x \in Target : ~AlreadyPaid(x) => paid[x] = Nothing
    /\ paid = [x \in Target |-> paid[x]]

LEMMA PaidIs == PaidOnce => PaidMatches
<1> SUFFICES ASSUME PaidOnce PROVE PaidMatches
  OBVIOUS
<1>1. ASSUME NEW t \in Txn, status[t] = "VERIFIED", target[t] \in Target
      PROVE  paid[target[t]] = ref[t]
  <2> DEFINE q == CHOOSE q \in Txn : status[q] = "VERIFIED" /\ target[q] = target[t]
  <2>1. q \in Txn /\ status[q] = "VERIFIED" /\ target[q] = target[t]
    BY <1>1
  <2>2. q = t
    BY <1>1, <2>1 DEF PaidOnce
  <2>3. AlreadyPaid(target[t])
    BY <1>1 DEF AlreadyPaid
  <2> QED
    BY <1>1, <2>2, <2>3 DEF paid
<1>2. \A x \in Target : ~AlreadyPaid(x) => paid[x] = Nothing
  BY DEF paid
<1>3. paid = [x \in Target |-> paid[x]]
  BY DEF paid
<1> QED
  BY <1>1, <1>2, <1>3 DEF PaidMatches

\* PaidIs in the next state.
LEMMA PaidIsNext == PaidOnce' => PaidMatches'
BY PaidIs, PTL

\* The ledger at x depends on the VERIFIED rows of x only.
LEMMA SamePaid ==
    ASSUME PaidOnce, PaidOnce', NEW x \in Target,
           \A t \in Txn : status'[t] = "VERIFIED" /\ target'[t] = x
                            <=> status[t] = "VERIFIED" /\ target[t] = x,
           \A t \in Txn : status[t] = "VERIFIED" /\ target[t] = x => ref'[t] = ref[t]
    PROVE  paid'[x] = paid[x]
<1>1. CASE AlreadyPaid(x)
  <2>1. PICK t \in Txn : status[t] = "VERIFIED" /\ target[t] = x
    BY <1>1 DEF AlreadyPaid
  <2> QED
    BY <2>1, PaidIs, PaidIsNext DEF PaidMatches
<1>2. CASE ~AlreadyPaid(x)
  <2>1. ~AlreadyPaid(x)'
    BY <1>2 DEF AlreadyPaid
  <2> QED
    BY <1>2, <2>1, PaidIs, PaidIsNext DEF PaidMatches
<1> QED
  BY <1>1, <1>2

\* A row that leaves VERIFIED voids its target's entry.
LEMMA TurnIsVoid ==
    ASSUME Core, PaidOnce, PaidOnce', NEW t \in Txn, NEW s \in PaymentStatus \union {"deleted"},
           Turns(t, s)
    PROVE  [Ledger!Next]_paid
<1>1. target[t] \in Target /\ ref[t] \in Ref
  BY DEF Core, RowsFilled, Turns
<1>2. \A x \in Target \ {target[t]} : paid'[x] = paid[x]
  BY SamePaid DEF Turns, Core, TypeOK
<1>3. CASE status[t] = "VERIFIED"
  <2>1. paid[target[t]] = ref[t]
    BY <1>1, <1>3, PaidIs DEF PaidMatches
  <2>2. PICK x \in Target : x = target[t]
    BY <1>1
  <2>3. ~AlreadyPaid(x)'
    BY <1>3, <2>2 DEF AlreadyPaid, Turns, PaidOnce, Core, TypeOK
  <2>4. paid'[target[t]] = Nothing
    BY <2>2, <2>3, PaidIsNext DEF PaidMatches
  <2>5. paid' = [paid EXCEPT ![target[t]] = Nothing]
    BY <1>1, <1>2, <2>4, PaidIs, PaidIsNext DEF PaidMatches
  <2>6. Ledger!Void(target[t])
    BY <1>1, <2>1, <2>5, ConstantsAssumption DEF Ledger!Void
  <2> QED
    BY <1>1, <2>6 DEF Ledger!Next
<1>4. CASE status[t] # "VERIFIED"
  <2>1. paid'[target[t]] = paid[target[t]]
    BY <1>1, <1>4, SamePaid DEF Turns, Core, TypeOK
  <2>2. paid' = paid
    BY <1>1, <1>2, <2>1, PaidIs, PaidIsNext DEF PaidMatches
  <2> QED
    BY <2>2
<1> QED
  BY <1>3, <1>4

\* A row that becomes VERIFIED pays its target, and one that stays it respells.
LEMMA VerifyIsPay ==
    ASSUME Core, PaidOnce, PaidOnce', NEW t \in Txn, NEW p \in Ref, Verifies(t, p)
    PROVE  [Ledger!Next]_paid
<1>1. target[t] \in Target /\ ref[t] \in Ref
  BY DEF Core, RowsFilled, Verifies
<1>2. \A x \in Target \ {target[t]} : paid'[x] = paid[x]
  BY SamePaid DEF Verifies, Core, TypeOK
<1>3. paid'[target[t]] = p
  BY <1>1, PaidIsNext DEF PaidMatches, Verifies, Core, TypeOK
<1>4. paid' = [paid EXCEPT ![target[t]] = p]
  BY <1>1, <1>2, <1>3, PaidIs, PaidIsNext DEF PaidMatches
<1>5. \A y \in Target \ {target[t]} : paid[y] # p
  <2> SUFFICES ASSUME NEW y \in Target, y # target[t] PROVE paid[y] # p
    OBVIOUS
  <2>1. CASE AlreadyPaid(y)
    <3>1. PICK q \in Txn : status[q] = "VERIFIED" /\ target[q] = y
      BY <2>1 DEF AlreadyPaid
    <3>2. paid[y] = ref[q] /\ q # t
      BY <3>1, PaidIs DEF PaidMatches
    <3> QED
      BY <3>1, <3>2 DEF Verifies, MayBeVerified
  <2>2. CASE ~AlreadyPaid(y)
    BY <2>2, PaidIs, ConstantsAssumption DEF PaidMatches
  <2> QED
    BY <2>1, <2>2
<1>6. CASE status[t] = "VERIFIED"
  <2>1. paid[target[t]] = ref[t]
    BY <1>1, <1>6, PaidIs DEF PaidMatches
  <2>2. CASE p = ref[t]
    <3>1. paid' = paid
      BY <1>1, <1>2, <1>3, <2>1, <2>2, PaidIs, PaidIsNext DEF PaidMatches
    <3> QED
      BY <3>1
  <2>3. CASE p # ref[t]
    <3>1. Ledger!Respell(target[t], p)
      BY <1>1, <1>4, <1>5, <2>1, <2>3, ConstantsAssumption DEF Ledger!Respell, Verifies
    <3> QED
      BY <1>1, <3>1 DEF Ledger!Next
  <2> QED
    BY <2>2, <2>3
<1>7. CASE status[t] # "VERIFIED"
  <2>1. ~AlreadyPaid(target[t])
    BY <1>7 DEF AlreadyPaid, Verifies, MayBeVerified
  <2>2. paid[target[t]] = Nothing
    BY <1>1, <2>1, PaidIs DEF PaidMatches
  <2>3. Ledger!Pay(target[t], p)
    BY <1>1, <1>4, <1>5, <2>2, ConstantsAssumption DEF Ledger!Pay
  <2> QED
    BY <1>1, <2>3 DEF Ledger!Next
<1> QED
  BY <1>6, <1>7

\* The ledger does not see a row being created.
LEMMA CreateIsStutter ==
    ASSUME Core, PaidOnce, PaidOnce', NEW t \in Txn, NEW x \in Target, NEW p \in Ref, Creates(t, x, p)
    PROVE  paid' = paid
<1>1. \A q \in Txn : status'[q] = "VERIFIED" <=> status[q] = "VERIFIED"
  BY DEF Creates, Superseded, InFlight
<1>2. \A q \in Txn : status[q] = "VERIFIED" => target'[q] = target[q] /\ ref'[q] = ref[q]
  BY DEF Creates, Core, TypeOK
<1>3. \A y \in Target : paid'[y] = paid[y]
  BY <1>1, <1>2, SamePaid
<1> QED
  BY <1>3, PaidIs, PaidIsNext DEF PaidMatches

LEMMA RowStepIsLedgerStep ==
    ASSUME Core, PaidOnce, RowStep
    PROVE  [Ledger!Next]_paid
<1>1. PaidOnce'
  BY RowStepKeepsPaidOnce DEF Core
<1>2. CASE UNCHANGED <<status, target, ref>>
  <2>1. \A x \in Target : paid'[x] = paid[x]
    BY <1>1, <1>2, SamePaid
  <2>2. paid' = paid
    BY <1>1, <2>1, PaidIs, PaidIsNext DEF PaidMatches
  <2> QED
    BY <2>2
<1> QED
  BY <1>1, <1>2, TurnIsVoid, VerifyIsPay, CreateIsStutter DEF RowStep

\* VERIFIED rows differ in target and in reference, whatever requests hold stale
\* copies of them: the unique constraints are enough.
LEMMA PaidOnceHolds == Spec => []PaidOnce
<1>1. Init => PaidOnce
  BY InitInvariant
<1>2. Core /\ PaidOnce /\ [Next]_vars => PaidOnce'
  BY EveryStepIsRowStep, RowStepKeepsPaidOnce DEF Core
<1> QED
  BY <1>1, <1>2, CoreHolds, PTL DEF Spec

\* The payments implement the ledger: every step of every request pays an unpaid
\* target with an unused reference, respells a reference, voids a payment, or
\* changes nothing that the ledger sees (the constraints of PaymentTransaction).
THEOREM PaymentsImplementLedger == Spec => ImplementsLedger
<1>1. Init => Ledger!Init
  BY DEF Init, Ledger!Init, paid, AlreadyPaid
<1>2. Core /\ PaidOnce /\ [Next]_vars => [Ledger!Next]_paid
  BY EveryStepIsRowStep, RowStepIsLedgerStep DEF Core
<1> QED
  BY <1>1, <1>2, CoreHolds, PaidOnceHolds, PTL DEF Spec, ImplementsLedger, Ledger!Spec

\* A reference, as it is spelled in the rows, never pays for two things.
THEOREM ReferencePaysOnce == Spec => []Ledger!PaysOnce
<1>1. Core /\ PaidOnce => Ledger!PaysOnce
  <2> SUFFICES ASSUME Core, PaidOnce, NEW x \in Target, NEW y \in Target,
                      paid[x] = paid[y], paid[x] # Nothing
               PROVE  x = y
    BY DEF Ledger!PaysOnce
  <2>1. PICK t \in Txn : status[t] = "VERIFIED" /\ target[t] = x
    BY PaidIs DEF PaidMatches, AlreadyPaid
  <2>2. PICK q \in Txn : status[q] = "VERIFIED" /\ target[q] = y
    BY PaidIs DEF PaidMatches, AlreadyPaid
  <2>3. ref[t] = ref[q]
    BY <2>1, <2>2, PaidIs DEF PaidMatches
  <2> QED
    BY <2>1, <2>2, <2>3 DEF PaidOnce
<1> QED
  BY <1>1, CoreHolds, PaidOnceHolds, PTL

(***************************************************************************)
(* The bank's confirmations.                                               *)
(***************************************************************************)

Known(t) == status[t] # "unborn" /\ Canonical[ref[t]] \in confirmed'

LEMMA AttestedFrom ==
    ASSUME Attested, RowsKept, confirmed \subseteq confirmed',
           \A q \in Run : RunAttested(q)',
           \A t \in Txn : stored'[t] => stored[t] \/ Known(t),
           \A t \in Txn : status'[t] = "VERIFIED" /\ t \notin byHand'
                            => (status[t] = "VERIFIED" /\ t \notin byHand) \/ Known(t)
    PROVE  Attested'
BY DEF Attested, RowsKept, Known, VerifiedWasConfirmed

LEMMA BystanderAttested ==
    ASSUME Attested, confirmed \subseteq confirmed', NEW q \in Run,
           UNCHANGED <<pc[q], typed[q], copyStored[q], answer[q]>>
    PROVE  RunAttested(q)'
BY DEF Attested, RunAttested

LEMMA SubmitAttested ==
    ASSUME Core, Attested, NEW r \in Run, SubmitStep(r)
    PROVE  Attested'
<1> USE DEF Core, rowVars, runVars, Goto
<1>0. RowsKept
  BY SubmitRowStep, RowStepKeepsRows
<1>1. ASSUME NEW x \in Target, NEW p \in Ref, CheckReference(r, x, p) PROVE Attested'
  <2>1. \A q \in Run : RunAttested(q)'
    BY <1>1 DEF CheckReference, TypeOK, Attested, RunAttested
  <2> QED
    BY <1>0, <1>1, <2>1, AttestedFrom DEF CheckReference
<1>2. ASSUME CheckTarget(r) PROVE Attested'
  <2>1. \A q \in Run : RunAttested(q)'
    BY <1>2 DEF CheckTarget, TypeOK, Attested, RunAttested
  <2> QED
    BY <1>0, <1>2, <2>1, AttestedFrom DEF CheckTarget
<1>3. ASSUME LookUpAnswer(r) PROVE Attested'
  <2>1. typed[r] \in Ref
    BY <1>3 DEF LookUpAnswer, RunsInStep, RunInStep, HasForm
  <2>2. FindStored(typed[r]) => Canonical[typed[r]] \in confirmed
    BY DEF FindStored, Attested
  <2>3. copyStored'[r] = FindStored(typed[r]) /\ UNCHANGED <<typed, answer, confirmed>>
    BY <1>3 DEF LookUpAnswer, TypeOK
  <2>4. pc'[r] = "create"
    BY <1>3 DEF LookUpAnswer, TypeOK
  <2>5. RunAttested(r)'
    BY <2>1, <2>2, <2>3, <2>4 DEF RunAttested
  <2>6. \A q \in Run \ {r} : RunAttested(q)'
    BY <1>3, BystanderAttested DEF LookUpAnswer, TypeOK
  <2> QED
    BY <1>0, <1>3, <2>5, <2>6, AttestedFrom DEF LookUpAnswer
<1>4. ASSUME NEW t \in Txn, ReplaceAttempts(r, t) \/ InsertRow(r, t) PROVE Attested'
  <2>1. \A q \in Run : RunAttested(q)'
    BY <1>4 DEF ReplaceAttempts, InsertRow, CreateRow, TypeOK, Attested, RunAttested
  <2>2. \A q \in Txn : status'[q] = "VERIFIED" => status[q] = "VERIFIED"
    BY <1>4 DEF ReplaceAttempts, InsertRow, CreateRow
  <2> QED
    BY <1>0, <1>4, <2>1, <2>2, AttestedFrom DEF ReplaceAttempts, InsertRow, CreateRow
<1>5. ASSUME UseStored(r) PROVE Attested'
  <2>1. /\ txn[r] \in Txn
        /\ status[txn[r]] # "unborn"
        /\ Canonical[typed[r]] = Canonical[ref[txn[r]]]
    BY <1>5 DEF UseStored, RunsInStep, RunInStep, HasRow
  <2>2. Canonical[typed[r]] \in confirmed
    BY <1>5 DEF UseStored, Attested, RunAttested
  <2>3. \A q \in Run : RunAttested(q)'
    BY <1>5, <2>2 DEF UseStored, TypeOK, Attested, RunAttested
  <2>4. Known(txn[r])
    BY <1>5, <2>1, <2>2 DEF UseStored, Known
  <2>5. \A q \in Txn : stored'[q] => stored[q] \/ q = txn[r]
    BY <1>5 DEF UseStored, TypeOK
  <2> QED
    BY <1>0, <1>5, <2>3, <2>4, <2>5, AttestedFrom DEF UseStored
<1>6. ASSUME MarkProcessing(r) PROVE Attested'
  <2>1. \A q \in Run : RunAttested(q)'
    BY <1>6 DEF MarkProcessing, TypeOK, Attested, RunAttested
  <2>2. \A q \in Txn : status'[q] = "VERIFIED" => status[q] = "VERIFIED"
    BY <1>6 DEF MarkProcessing, TypeOK
  <2> QED
    BY <1>0, <1>6, <2>1, <2>2, AttestedFrom DEF MarkProcessing
<1>7. ASSUME CallFails(r) PROVE Attested'
  <2>1. \A q \in Run : RunAttested(q)'
    BY <1>7 DEF CallFails, TypeOK, Attested, RunAttested
  <2>2. \A q \in Txn : status'[q] = "VERIFIED" => status[q] = "VERIFIED"
    BY <1>7 DEF CallFails, TypeOK
  <2> QED
    BY <1>0, <1>7, <2>1, <2>2, AttestedFrom DEF CallFails
<1>8. ASSUME CallQueued(r) PROVE Attested'
  <2>1. \A q \in Run : RunAttested(q)'
    BY <1>8 DEF CallQueued, TypeOK, Attested, RunAttested
  <2>2. \A q \in Txn : stored'[q] => stored[q]
    BY <1>8 DEF CallQueued, TypeOK
  <2> QED
    BY <1>0, <1>8, <2>1, <2>2, AttestedFrom DEF CallQueued
<1>9. ASSUME CallAnswers(r) PROVE Attested'
  <2>1. /\ txn[r] \in Txn
        /\ status[txn[r]] # "unborn"
        /\ typed[r] \in Ref
        /\ Canonical[typed[r]] = Canonical[ref[txn[r]]]
    BY <1>9 DEF CallAnswers, RunsInStep, RunInStep, HasRow
  <2>2. PICK a \in Confirming \union {"fail"} :
             /\ answer' = [answer EXCEPT ![r] = a]
             /\ stored' = [stored EXCEPT ![txn[r]] = a \in Confirming]
             /\ copyStored' = [copyStored EXCEPT ![r] = a \in Confirming]
             /\ confirmed' = IF a \in Confirming THEN confirmed \union {Canonical[typed[r]]}
                                                 ELSE confirmed
    BY <1>9 DEF CallAnswers
  <2>3. confirmed \subseteq confirmed' /\ (a \in Confirming => Canonical[typed[r]] \in confirmed')
    BY <2>2
  <2>4. RunAttested(r)'
    BY <1>9, <2>1, <2>2, <2>3 DEF CallAnswers, TypeOK, RunAttested, Confirming
  <2>5. \A q \in Run \ {r} : RunAttested(q)'
    BY <1>9, <2>2, <2>3, BystanderAttested DEF CallAnswers, TypeOK
  <2>6. \A q \in Txn : stored'[q] => stored[q] \/ Known(q)
    BY <2>1, <2>2, <2>3 DEF TypeOK, Known
  <2> QED
    BY <1>0, <1>9, <2>3, <2>4, <2>5, <2>6, AttestedFrom DEF CallAnswers
<1>10. ASSUME CallRefused(r) PROVE Attested'
  <2>1. \A q \in Run : RunAttested(q)'
    BY <1>10 DEF CallRefused, TypeOK, Attested, RunAttested
  <2> QED
    BY <1>0, <1>10, <2>1, AttestedFrom DEF CallRefused
<1>11. ASSUME FindNoAttempts(r) PROVE Attested'
  <2>1. \A q \in Run : RunAttested(q)'
    BY <1>11 DEF FindNoAttempts, TypeOK, Attested, RunAttested
  <2> QED
    BY <1>0, <1>11, <2>1, AttestedFrom DEF FindNoAttempts
<1> QED
  BY <1>1, <1>2, <1>3, <1>4, <1>5, <1>6, <1>7, <1>8, <1>9, <1>10, <1>11 DEF SubmitStep

LEMMA DecideAttested ==
    ASSUME Core, Attested, NEW r \in Run, DecideStep(r)
    PROVE  Attested'
<1> USE DEF Core, rowVars, runVars, Goto
<1>0. RowsKept
  BY DecideRowStep, RowStepKeepsRows
<1>1. ASSUME TurnDown(r) PROVE Attested'
  <2>1. \A q \in Run : RunAttested(q)'
    BY <1>1 DEF TurnDown, TypeOK, Attested, RunAttested
  <2>2. \A q \in Txn : status'[q] = "VERIFIED" => status[q] = "VERIFIED"
    BY <1>1 DEF TurnDown, SaveStatus, Outcome, TypeOK
  <2> QED
    BY <1>0, <1>1, <2>1, <2>2, AttestedFrom DEF TurnDown
<1>2. ASSUME Verify(r) PROVE Attested'
  <2>1. /\ txn[r] \in Txn
        /\ status[txn[r]] # "unborn"
        /\ typed[r] \in Ref
        /\ Canonical[typed[r]] = Canonical[ref[txn[r]]]
    BY <1>2 DEF Verify, RunsInStep, RunInStep, HasRow
  <2>2. Canonical[typed[r]] \in confirmed
    BY <1>2 DEF Verify, Attested, RunAttested
  <2>3. PICK p \in {typed[r], Canonical[typed[r]]} :
             /\ typed' = [typed EXCEPT ![r] = p]
             /\ \/ /\ status' = [status EXCEPT ![txn[r]] = "VERIFIED"]
                   /\ stored' = [stored EXCEPT ![txn[r]] = copyStored[r]]
                   /\ byHand' = byHand \ {txn[r]}
                   /\ pc' = [pc EXCEPT ![r] = "sync"]
                \/ /\ pc' = [pc EXCEPT ![r] = "conflict"]
                   /\ UNCHANGED <<status, ref, asked, stored, banned, byHand>>
    BY <1>2 DEF Verify
  <2>4. p \in Ref /\ Canonical[p] = Canonical[typed[r]]
    BY <2>1, ConstantsAssumption
  <2>5. PICK where \in {"sync", "conflict"} : pc' = [pc EXCEPT ![r] = where]
    BY <2>3
  <2>6. RunAttested(r)'
    BY <1>2, <2>2, <2>3, <2>4, <2>5 DEF Verify, TypeOK, RunAttested
  <2>7. \A q \in Run \ {r} : RunAttested(q)'
    BY <1>2, <2>3, <2>5, BystanderAttested DEF Verify, TypeOK
  <2>8. Known(txn[r])
    BY <1>2, <2>1, <2>2 DEF Verify, Known
  <2>9. \A q \in Txn : stored'[q] => stored[q] \/ q = txn[r]
    BY <2>3 DEF TypeOK
  <2>10. \A q \in Txn : status'[q] = "VERIFIED" /\ q \notin byHand'
                          => (status[q] = "VERIFIED" /\ q \notin byHand) \/ q = txn[r]
    BY <2>3 DEF TypeOK
  <2> QED
    BY <1>0, <1>2, <2>6, <2>7, <2>8, <2>9, <2>10, AttestedFrom DEF Verify
<1>3. ASSUME HandleConflict(r) PROVE Attested'
  <2>1. PICK a \in {"review", "fail"} : answer' = [answer EXCEPT ![r] = a]
    BY <1>3 DEF HandleConflict
  <2>2. \A q \in Run : RunAttested(q)'
    BY <1>3, <2>1 DEF HandleConflict, TypeOK, Attested, RunAttested
  <2> QED
    BY <1>0, <1>3, <2>2, AttestedFrom DEF HandleConflict
<1>4. ASSUME Sync(r) \/ Break(r) \/ Recover(r) PROVE Attested'
  <2>1. PICK where \in {"done", "recover", "discard"} : pc' = [pc EXCEPT ![r] = where]
    BY <1>4 DEF Sync, Break, Recover
  <2>2. UNCHANGED <<rowVars, typed, copyStored, answer, confirmed, byHand>> /\ pc[r] # "done"
    BY <1>4 DEF Sync, Break, Recover
  <2>3. \A q \in Run : RunAttested(q)'
    BY <2>1, <2>2 DEF TypeOK, Attested, RunAttested
  <2> QED
    BY <1>0, <2>2, <2>3, AttestedFrom
<1>5. ASSUME Discard(r) PROVE Attested'
  <2>1. \A q \in Run : RunAttested(q)'
    BY <1>5 DEF Discard, TypeOK, Attested, RunAttested
  <2>2. \A q \in Txn : status'[q] = "VERIFIED" => status[q] = "VERIFIED"
    BY <1>5 DEF Discard, TypeOK
  <2> QED
    BY <1>0, <1>5, <2>1, <2>2, AttestedFrom DEF Discard
<1> QED
  BY <1>1, <1>2, <1>3, <1>4, <1>5 DEF DecideStep

LEMMA PollAttested ==
    ASSUME Core, Attested, NEW r \in Run, PollStep(r)
    PROVE  Attested'
<1> USE DEF Core, rowVars, runVars, Goto
<1>0. RowsKept
  BY PeopleRowStep, RowStepKeepsRows
<1>1. ASSUME NEW t \in Txn, Poll(r, t) PROVE Attested'
  <2>1. \A q \in Run : RunAttested(q)'
    BY <1>1 DEF Poll, TypeOK, Attested, RunAttested
  <2> QED
    BY <1>0, <1>1, <2>1, AttestedFrom DEF Poll
<1>2. ASSUME PollAnswers(r) PROVE Attested'
  <2>1. typed[r] \in Ref
    BY <1>2 DEF PollAnswers, RunsInStep, RunInStep, HasRow
  <2>2. PICK a \in Answer \ {"none"} :
             /\ answer' = [answer EXCEPT ![r] = a]
             /\ copyStored' = [copyStored EXCEPT ![r] = a \in Confirming]
             /\ confirmed' = IF a \in Confirming THEN confirmed \union {Canonical[typed[r]]}
                                                 ELSE confirmed
    BY <1>2 DEF PollAnswers
  <2>3. confirmed \subseteq confirmed' /\ (a \in Confirming => Canonical[typed[r]] \in confirmed')
    BY <2>2
  <2>4. RunAttested(r)'
    BY <1>2, <2>1, <2>2, <2>3 DEF PollAnswers, TypeOK, RunAttested, Confirming
  <2>5. \A q \in Run \ {r} : RunAttested(q)'
    BY <1>2, <2>2, <2>3, BystanderAttested DEF PollAnswers, TypeOK
  <2>6. stored' = stored \/ stored' = [stored EXCEPT ![txn[r]] = FALSE]
    BY <1>2 DEF PollAnswers
  <2>7. \A q \in Txn : stored'[q] => stored[q]
    BY <2>6 DEF TypeOK
  <2> QED
    BY <1>0, <1>2, <2>3, <2>4, <2>5, <2>7, AttestedFrom DEF PollAnswers
<1> QED
  BY <1>1, <1>2 DEF PollStep

LEMMA ReviewAttested ==
    ASSUME Core, Attested, NEW r \in Run, ReviewStep(r)
    PROVE  Attested'
<1> USE DEF Core, rowVars, runVars, Goto
<1>0. RowsKept
  BY PeopleRowStep, RowStepKeepsRows
<1>1. ASSUME NEW t \in Txn, LoadReview(r, t) PROVE Attested'
  <2>1. ref[t] \in Ref /\ (stored[t] => Canonical[ref[t]] \in confirmed)
    BY <1>1 DEF LoadReview, RowsFilled, Attested
  <2>2. /\ pc'[r] = "review" /\ typed'[r] = ref[t] /\ copyStored'[r] = stored[t]
        /\ UNCHANGED <<answer, confirmed>>
    BY <1>1 DEF LoadReview, TypeOK
  <2>3. RunAttested(r)'
    BY <2>1, <2>2 DEF RunAttested
  <2>4. \A q \in Run \ {r} : RunAttested(q)'
    BY <1>1, BystanderAttested DEF LoadReview, TypeOK
  <2> QED
    BY <1>0, <1>1, <2>3, <2>4, AttestedFrom DEF LoadReview
<1>2. ASSUME ApproveReview(r) PROVE Attested'
  <2>1. /\ txn[r] \in Txn
        /\ status[txn[r]] # "unborn"
        /\ Canonical[typed[r]] = Canonical[ref[txn[r]]]
    BY <1>2 DEF ApproveReview, RunsInStep, RunInStep, HasRow
  <2>2. \A q \in Run : RunAttested(q)'
    BY <1>2 DEF ApproveReview, TypeOK, Attested, RunAttested
  <2>3. copyStored[r] => Known(txn[r])
    BY <1>2, <2>1 DEF ApproveReview, Known, Attested, RunAttested
  <2>4. \A q \in Txn : stored'[q] => stored[q] \/ (q = txn[r] /\ copyStored[r])
    BY <1>2 DEF ApproveReview, TypeOK
  <2>5. \A q \in Txn : status'[q] = "VERIFIED" /\ q \notin byHand'
                         => status[q] = "VERIFIED" /\ q \notin byHand
    BY <1>2 DEF ApproveReview, TypeOK
  <2> QED
    BY <1>0, <1>2, <2>2, <2>3, <2>4, <2>5, AttestedFrom DEF ApproveReview
<1>3. ASSUME RejectReview(r) PROVE Attested'
  <2>1. \A q \in Run : RunAttested(q)'
    BY <1>3 DEF RejectReview, TypeOK, Attested, RunAttested
  <2>2. \A q \in Txn : status'[q] = "VERIFIED" => status[q] = "VERIFIED"
    BY <1>3 DEF RejectReview, SaveStatus, TypeOK
  <2> QED
    BY <1>0, <1>3, <2>1, <2>2, AttestedFrom DEF RejectReview
<1> QED
  BY <1>1, <1>2, <1>3 DEF ReviewStep

LEMMA OwnerAttested ==
    ASSUME Core, Attested, NEW t \in Txn, OwnerStep(t)
    PROVE  Attested'
<1> USE DEF Core, runVars
<1>1. RowsKept
  BY PeopleRowStep, RowStepKeepsRows
<1>2. UNCHANGED <<stored, runVars, confirmed>>
  BY DEF OwnerStep, OwnerApprove, OwnerReject, OwnerReverse
<1>3. \A q \in Run : RunAttested(q)'
  BY <1>2, BystanderAttested
<1>4. \A q \in Txn : status'[q] = "VERIFIED" /\ q \notin byHand'
                       => status[q] = "VERIFIED" /\ q \notin byHand
  BY DEF OwnerStep, OwnerApprove, OwnerReject, OwnerReverse, SaveStatus, TypeOK
<1> QED
  BY <1>1, <1>2, <1>3, <1>4, AttestedFrom

LEMMA AttestedKept == Core /\ Attested /\ [Next]_vars => Attested'
<1> SUFFICES ASSUME Core, Attested, [Next]_vars PROVE Attested'
  OBVIOUS
<1>1. CASE Next
  BY <1>1, SubmitAttested, DecideAttested, PollAttested, ReviewAttested, OwnerAttested DEF Next
<1>2. CASE UNCHANGED vars
  BY <1>2 DEF vars, rowVars, runVars, Attested, RunAttested, VerifiedWasConfirmed
<1> QED
  BY <1>1, <1>2

\* Unless a person has decided it, a payment is VERIFIED only with a receipt the
\* bank has confirmed: stale answers, stored answers and retries included
\* (_apply_verification_result, _find_stored_provider_result).
THEOREM ConfirmedBeforeVerified == Spec => []VerifiedWasConfirmed
<1>1. Init => Attested
  BY InitInvariant
<1>2. Attested => VerifiedWasConfirmed
  BY DEF Attested
<1> QED
  BY <1>1, <1>2, AttestedKept, CoreHolds, PTL DEF Spec

================================================================================
