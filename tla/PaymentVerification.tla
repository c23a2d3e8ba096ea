-------------------------- MODULE PaymentVerification --------------------------
(***************************************************************************)
(* Manual bank payments: the PaymentTransaction rows of one bank, and the  *)
(* requests that work on them.  A request submits a reference, has it      *)
(* checked by verify.et (at once, queued, or from a stored answer), polls  *)
(* a queued check, or decides a review; the pitch owner decides a review   *)
(* or reverses a verified payment under a row lock.                        *)
(*                                                                         *)
(* Requests run in autocommit mode on copies of rows: each save() is an    *)
(* action of its own, and so are the queries before it that decide         *)
(* something.  A save with update_fields writes those fields whatever the  *)
(* row has become (and fails if it is gone); a plain save() writes the     *)
(* whole copy, and inserts it again if the row is gone.  A request that is *)
(* refused, fails or dies takes no further step.  The bank's answers, the  *)
(* checks on them (receiver, time, amount, sender) and the age of an       *)
(* attempt are nondeterministic.                                           *)
(***************************************************************************)
EXTENDS Integers

CONSTANTS
    Txn,          \* PaymentTransaction rows that may be created
    Target,       \* what is paid for: solo holds, team shares, bookings
    Ref,          \* references a payer may type
    Canonical,    \* the bank's own spelling of each reference
    Run,          \* requests
    Nothing       \* stands for no row, no target and no reference

ASSUME ConstantsAssumption ==
    /\ Nothing \notin Txn \union Target \union Ref
    /\ Canonical \in [Ref -> Ref]
    /\ \A p \in Ref : Canonical[Canonical[p]] = Canonical[p]

VARIABLES
    status,       \* PaymentTransaction.status; "unborn" and "deleted" rows are not there
    target,       \* the booking, team share or solo hold of the row
    ref,          \* reference_number
    asked,        \* whether verify_request_id is set
    stored,       \* whether verify_response is a confirmation by the bank
    banned,       \* whether rejection_reason starts with owner_rejected_verified
    pc,           \* where a request stands
    kind,         \* what kind of request it is
    txn,          \* the row it works on
    wants,        \* the target in its copy
    typed,        \* the reference in its copy
    copyStored,   \* whether its copy of verify_response is a confirmation
    answer,       \* what the checks make of the answer it has got
    confirmed,    \* history: receipts the bank has confirmed
    byHand        \* history: rows whose VERIFIED status was a person's decision

rowVars == <<status, target, ref, asked, stored, banned>>
runVars == <<pc, kind, txn, wants, typed, copyStored, answer>>

vars == <<rowVars, runVars, confirmed, byHand>>

PaymentStatus == {"PENDING", "PROCESSING", "VERIFIED", "REJECTED", "NEEDS_REVIEW"}
InFlight == {"PENDING", "PROCESSING"}

RunPc == {"idle", "reference", "lookup", "create", "insert", "created", "calling", "polled", "decide",
          "conflict", "sync", "recover", "discard", "review", "done"}

\* "fail": not confirmed; "mismatch", "review", "pass": confirmed, and refused,
\* unclear or right; "late": the bank has not answered in time.
Answer == {"none", "fail", "late", "mismatch", "review", "pass"}
Confirming == {"mismatch", "review", "pass"}

\* Mutant: an attempt that is never answered expires.
OutcomeWithExpiry(a) ==
    CASE a = "late" -> "EXPIRED" [] a = "review" -> "NEEDS_REVIEW" [] OTHER -> "REJECTED"

\* The status of an attempt that does not pass the checks.
Outcome(a) == IF a \in {"late", "review"} THEN "NEEDS_REVIEW" ELSE "REJECTED"

--------------------------------------------------------------------------------
Exists(t) == status[t] \in PaymentStatus

ReferenceVerified(p) == \E t \in Txn : status[t] = "VERIFIED" /\ ref[t] = p

\* A reference whose verified payment the owner has rejected.
ReferenceBanned(p) == \E t \in Txn : Exists(t) /\ banned[t] /\ ref[t] = p

AlreadyPaid(x) == \E t \in Txn : status[t] = "VERIFIED" /\ target[t] = x

\* Mutant: an answer is re-used whatever the bank had said.
FindStoredAnyAnswer(p) == \E t \in Txn : Exists(t) /\ asked[t] /\ ref[t] = p

FindStored(p) == \E t \in Txn : Exists(t) /\ stored[t] /\ ref[t] = p

\* The attempts a new one with reference p replaces.
Superseded(p) == {t \in Txn : status[t] \in InFlight /\ ref[t] = p}

\* Mutant: the constraint on the target is missing.
MayBeVerifiedByReference(t, p, x) == \A q \in Txn \ {t} : status[q] = "VERIFIED" => ref[q] # p

\* The unique constraints on VERIFIED rows let row t have reference p and target x.
MayBeVerified(t, p, x) ==
    \A q \in Txn \ {t} : status[q] = "VERIFIED" => ref[q] # p /\ target[q] # x

\* The unique constraint on rows in flight.
MayBeInFlight(t) ==
    \A q \in Txn \ {t} : ~(status[q] \in InFlight /\ ref[q] = ref[t])

\* save(update_fields=["status", "rejection_reason", ...])
SaveStatus(t, s) ==
    /\ Exists(t)
    /\ status' = [status EXCEPT ![t] = s]
    /\ banned' = [banned EXCEPT ![t] = FALSE]

Goto(r, where) == pc' = [pc EXCEPT ![r] = where]

--------------------------------------------------------------------------------
(* submit_manual_bank_payment.                                             *)

\* RULE 1: the reference has not been used.
CheckReference(r, x, p) ==
    /\ pc[r] = "idle"
    /\ ~ReferenceVerified(p)
    /\ ~ReferenceBanned(p)
    /\ kind' = [kind EXCEPT ![r] = "submit"]
    /\ wants' = [wants EXCEPT ![r] = x]
    /\ typed' = [typed EXCEPT ![r] = p]
    /\ Goto(r, "reference")
    /\ UNCHANGED <<rowVars, txn, copyStored, answer, confirmed, byHand>>

\* The target is unpaid.
CheckTarget(r) ==
    /\ pc[r] = "reference"
    /\ ~AlreadyPaid(wants[r])
    /\ Goto(r, "lookup")
    /\ UNCHANGED <<rowVars, kind, txn, wants, typed, copyStored, answer, confirmed, byHand>>

\* An answer the bank has given to an earlier attempt is looked up.
LookUpAnswer(r) ==
    /\ pc[r] = "lookup"
    /\ copyStored' = [copyStored EXCEPT ![r] = FindStored(typed[r])]
    /\ Goto(r, "create")
    /\ UNCHANGED <<rowVars, kind, txn, wants, typed, answer, confirmed, byHand>>

\* The new row, PENDING; the attempts in its way are rejected.
CreateRow(r, t) ==
    LET p == typed[r] IN
    /\ status[t] = "unborn"
    /\ status' = [q \in Txn |-> IF q = t THEN "PENDING"
                                ELSE IF q \in Superseded(p) THEN "REJECTED" ELSE status[q]]
    /\ banned' = [q \in Txn |-> banned[q] /\ q \notin Superseded(p)]
    /\ target' = [target EXCEPT ![t] = wants[r]]
    /\ ref' = [ref EXCEPT ![t] = p]
    /\ txn' = [txn EXCEPT ![r] = t]
    /\ Goto(r, "created")
    /\ UNCHANGED <<asked, stored, kind, wants, typed, copyStored, answer, confirmed, byHand>>

\* The attempts in flight are found, and replaced by a new row.  This is one
\* action: they are locked until the commit, and as long as one of them is in
\* flight the unique constraint lets nobody else insert a row beside it.  (An
\* attempt of another payer that is not stale makes the request fail instead,
\* and nothing is saved.)
ReplaceAttempts(r, t) ==
    /\ pc[r] = "create"
    /\ Superseded(typed[r]) # {}
    /\ CreateRow(r, t)

\* SELECT ... FOR UPDATE finds nothing, and so locks nothing ...
FindNoAttempts(r) ==
    /\ pc[r] = "create"
    /\ Superseded(typed[r]) = {}
    /\ Goto(r, "insert")
    /\ UNCHANGED <<rowVars, kind, txn, wants, typed, copyStored, answer, confirmed, byHand>>

\* ... and the row is inserted.  If another request has inserted one for the
\* same reference meanwhile, the unique constraint refuses this one with an
\* IntegrityError, and the request fails.
InsertRow(r, t) ==
    /\ pc[r] = "insert"
    /\ Superseded(typed[r]) = {}
    /\ CreateRow(r, t)

\* The stored answer is copied to the row, and the checks run on it.
UseStored(r) ==
    /\ pc[r] = "created"
    /\ copyStored[r]
    /\ asked' = [asked EXCEPT ![txn[r]] = TRUE]
    /\ stored' = [stored EXCEPT ![txn[r]] = TRUE]
    /\ \E a \in Confirming : answer' = [answer EXCEPT ![r] = a]
    /\ Goto(r, "decide")
    /\ UNCHANGED <<status, target, ref, banned, kind, txn, wants, typed, copyStored, confirmed, byHand>>

\* The row is saved PROCESSING, whatever it has become since it was created;
\* if another attempt is in flight by now, the constraint ends the request.
MarkProcessing(r) ==
    /\ pc[r] = "created"
    /\ ~copyStored[r]
    /\ \/ /\ MayBeInFlight(txn[r])
          /\ status' = [status EXCEPT ![txn[r]] = "PROCESSING"]
          /\ Goto(r, "calling")
       \/ /\ ~MayBeInFlight(txn[r])
          /\ Goto(r, "done")
          /\ UNCHANGED status
    /\ UNCHANGED <<target, ref, asked, stored, banned, kind, txn, wants, typed, copyStored, answer, confirmed, byHand>>

\* _discard_row: verify.et is out of reach.
CallFails(r) ==
    /\ pc[r] = "calling"
    /\ status' = [status EXCEPT ![txn[r]] = "deleted"]
    /\ Goto(r, "done")
    /\ UNCHANGED <<target, ref, asked, stored, banned, kind, txn, wants, typed, copyStored, answer, confirmed, byHand>>

\* 202: the check is queued.  Also the answer to a retry from a poll.
CallQueued(r) ==
    /\ pc[r] \in {"calling", "polled"}
    /\ Exists(txn[r])
    /\ asked' = [asked EXCEPT ![txn[r]] = TRUE]
    /\ stored' = [stored EXCEPT ![txn[r]] = FALSE]
    /\ Goto(r, "done")
    /\ UNCHANGED <<status, target, ref, banned, kind, txn, wants, typed, copyStored, answer, confirmed, byHand>>

\* 200: the answer is saved with the row.  Also the answer to a retry.
CallAnswers(r) ==
    /\ pc[r] \in {"calling", "polled"}
    /\ Exists(txn[r])
    /\ \E a \in Confirming \union {"fail"} :
          /\ answer' = [answer EXCEPT ![r] = a]
          /\ stored' = [stored EXCEPT ![txn[r]] = a \in Confirming]
          /\ copyStored' = [copyStored EXCEPT ![r] = a \in Confirming]
          /\ confirmed' = IF a \in Confirming THEN confirmed \union {Canonical[typed[r]]} ELSE confirmed
    /\ asked' = [asked EXCEPT ![txn[r]] = TRUE]
    /\ Goto(r, "decide")
    /\ UNCHANGED <<status, target, ref, banned, kind, txn, wants, typed, byHand>>

\* Any other HTTP status: the attempt is rejected, without an answer to save.
CallRefused(r) ==
    /\ pc[r] = "calling"
    /\ answer' = [answer EXCEPT ![r] = "fail"]
    /\ Goto(r, "decide")
    /\ UNCHANGED <<rowVars, kind, txn, wants, typed, copyStored, confirmed, byHand>>

--------------------------------------------------------------------------------
(* check_pending_payment.                                                  *)

\* A poll has loaded a row whose check is queued, and asks verify.et.
Poll(r, t) ==
    /\ pc[r] = "idle"
    /\ status[t] = "PROCESSING"
    /\ asked[t]
    /\ kind' = [kind EXCEPT ![r] = "poll"]
    /\ txn' = [txn EXCEPT ![r] = t]
    /\ wants' = [wants EXCEPT ![r] = target[t]]
    /\ typed' = [typed EXCEPT ![r] = ref[t]]
    /\ Goto(r, "polled")
    /\ UNCHANGED <<rowVars, copyStored, answer, confirmed, byHand>>

\* The answer stays in the copy, but one that says the check has failed is saved.
PollAnswers(r) ==
    /\ pc[r] = "polled"
    /\ \E a \in Answer \ {"none"} :
          /\ answer' = [answer EXCEPT ![r] = a]
          /\ copyStored' = [copyStored EXCEPT ![r] = a \in Confirming]
          /\ confirmed' = IF a \in Confirming THEN confirmed \union {Canonical[typed[r]]} ELSE confirmed
          /\ \/ UNCHANGED stored
             \/ /\ a = "fail"
                /\ Exists(txn[r])
                /\ stored' = [stored EXCEPT ![txn[r]] = FALSE]
    /\ Goto(r, "decide")
    /\ UNCHANGED <<status, target, ref, asked, banned, kind, txn, wants, typed, byHand>>

--------------------------------------------------------------------------------
(* _apply_verification_result.                                             *)

\* _reject or _needs_review.
TurnDown(r) ==
    /\ pc[r] = "decide"
    /\ answer[r] # "pass"
    /\ SaveStatus(txn[r], Outcome(answer[r]))
    /\ Goto(r, "done")
    /\ UNCHANGED <<target, ref, asked, stored, kind, txn, wants, typed, copyStored, answer, confirmed, byHand>>

\* Every check has passed.  The copy gets the bank's spelling of the reference,
\* if the answer has one, and is saved as a whole, unless a constraint objects.
Verify(r) ==
    LET t == txn[r] IN
    /\ pc[r] = "decide"
    /\ answer[r] = "pass"
    /\ \E p \in {typed[r], Canonical[typed[r]]} :
          /\ typed' = [typed EXCEPT ![r] = p]
          /\ \/ /\ MayBeVerified(t, p, wants[r])
                /\ status' = [status EXCEPT ![t] = "VERIFIED"]
                /\ ref' = [ref EXCEPT ![t] = p]
                /\ asked' = [asked EXCEPT ![t] = TRUE]
                /\ stored' = [stored EXCEPT ![t] = copyStored[r]]
                /\ banned' = [banned EXCEPT ![t] = FALSE]
                /\ byHand' = byHand \ {t}
                /\ Goto(r, "sync")
             \/ /\ ~MayBeVerified(t, p, wants[r])
                /\ Goto(r, "conflict")
                /\ UNCHANGED <<status, ref, asked, stored, banned, byHand>>
    /\ UNCHANGED <<target, kind, txn, wants, copyStored, answer, confirmed>>

\* _handle_verified_conflict: the row is read again, and the attempt is refused,
\* or left to a person if another receipt has paid for the target.
HandleConflict(r) ==
    LET t == txn[r]
        paidByAnother == \E q \in Txn \ {t} :
            status[q] = "VERIFIED" /\ target[q] = target[t] /\ ref[q] # ref[t]
    IN
    /\ pc[r] = "conflict"
    /\ Exists(t)
    /\ answer' = [answer EXCEPT ![r] = IF paidByAnother THEN "review" ELSE "fail"]
    /\ Goto(r, "decide")
    /\ UNCHANGED <<rowVars, kind, txn, wants, typed, copyStored, confirmed, byHand>>

\* The booking is told.
Sync(r) ==
    /\ pc[r] = "sync"
    /\ Goto(r, "done")
    /\ UNCHANGED <<rowVars, kind, txn, wants, typed, copyStored, answer, confirmed, byHand>>

\* Something unexpected after a submitted payment has its answer ...
Break(r) ==
    /\ \/ pc[r] \in {"calling", "decide", "conflict", "sync"} /\ kind[r] = "submit"
       \/ pc[r] = "created" /\ copyStored[r]
    /\ Goto(r, "recover")
    /\ UNCHANGED <<rowVars, kind, txn, wants, typed, copyStored, answer, confirmed, byHand>>

\* ... and _recover_or_discard: a VERIFIED row is kept ...
Recover(r) ==
    /\ pc[r] = "recover"
    /\ Goto(r, IF status[txn[r]] \in {"VERIFIED", "deleted"} THEN "done" ELSE "discard")
    /\ UNCHANGED <<rowVars, kind, txn, wants, typed, copyStored, answer, confirmed, byHand>>

\* ... any other is deleted.
Discard(r) ==
    /\ pc[r] = "discard"
    /\ status' = [status EXCEPT ![txn[r]] = "deleted"]
    /\ Goto(r, "done")
    /\ UNCHANGED <<target, ref, asked, stored, banned, kind, txn, wants, typed, copyStored, answer, confirmed, byHand>>

--------------------------------------------------------------------------------
(* People.                                                                 *)

\* resolve_needs_review: an administrator's request has loaded the row.
LoadReview(r, t) ==
    /\ pc[r] = "idle"
    /\ status[t] = "NEEDS_REVIEW"
    /\ kind' = [kind EXCEPT ![r] = "review"]
    /\ txn' = [txn EXCEPT ![r] = t]
    /\ wants' = [wants EXCEPT ![r] = target[t]]
    /\ typed' = [typed EXCEPT ![r] = ref[t]]
    /\ copyStored' = [copyStored EXCEPT ![r] = stored[t]]
    /\ Goto(r, "review")
    /\ UNCHANGED <<rowVars, answer, confirmed, byHand>>

\* The whole copy is saved; if a constraint objects, the request fails.
ApproveReview(r) ==
    LET t == txn[r] IN
    /\ pc[r] = "review"
    /\ MayBeVerified(t, typed[r], wants[r])
    /\ status' = [status EXCEPT ![t] = "VERIFIED"]
    /\ ref' = [ref EXCEPT ![t] = typed[r]]
    /\ stored' = [stored EXCEPT ![t] = copyStored[r]]
    /\ banned' = [banned EXCEPT ![t] = FALSE]
    /\ byHand' = byHand \union {t}
    /\ Goto(r, "sync")
    /\ UNCHANGED <<target, asked, kind, txn, wants, typed, copyStored, answer, confirmed>>

RejectReview(r) ==
    /\ pc[r] = "review"
    /\ SaveStatus(txn[r], "REJECTED")
    /\ Goto(r, "done")
    /\ UNCHANGED <<target, ref, asked, stored, kind, txn, wants, typed, copyStored, answer, confirmed, byHand>>

\* owner_resolve_payment, under a row lock.
OwnerApprove(t) ==
    /\ status[t] = "NEEDS_REVIEW"
    /\ MayBeVerified(t, ref[t], target[t])
    /\ status' = [status EXCEPT ![t] = "VERIFIED"]
    /\ banned' = [banned EXCEPT ![t] = FALSE]
    /\ byHand' = byHand \union {t}
    /\ UNCHANGED <<target, ref, asked, stored, runVars, confirmed>>

OwnerReject(t) ==
    /\ status[t] = "NEEDS_REVIEW"
    /\ SaveStatus(t, "REJECTED")
    /\ UNCHANGED <<target, ref, asked, stored, runVars, confirmed, byHand>>

\* owner_reverse_verified_payment, under a row lock and with a fresh code.
OwnerReverse(t) ==
    /\ status[t] = "VERIFIED"
    /\ status' = [status EXCEPT ![t] = "REJECTED"]
    /\ banned' = [banned EXCEPT ![t] = TRUE]
    /\ UNCHANGED <<target, ref, asked, stored, runVars, confirmed, byHand>>

--------------------------------------------------------------------------------
Init ==
    /\ status = [t \in Txn |-> "unborn"]
    /\ target = [t \in Txn |-> Nothing]
    /\ ref = [t \in Txn |-> Nothing]
    /\ asked = [t \in Txn |-> FALSE]
    /\ stored = [t \in Txn |-> FALSE]
    /\ banned = [t \in Txn |-> FALSE]
    /\ pc = [r \in Run |-> "idle"]
    /\ kind = [r \in Run |-> "none"]
    /\ txn = [r \in Run |-> Nothing]
    /\ wants = [r \in Run |-> Nothing]
    /\ typed = [r \in Run |-> Nothing]
    /\ copyStored = [r \in Run |-> FALSE]
    /\ answer = [r \in Run |-> "none"]
    /\ confirmed = {}
    /\ byHand = {}

SubmitStep(r) ==
    \/ \E x \in Target, p \in Ref : CheckReference(r, x, p)
    \/ CheckTarget(r)
    \/ LookUpAnswer(r)
    \/ \E t \in Txn : ReplaceAttempts(r, t)
    \/ FindNoAttempts(r)
    \/ \E t \in Txn : InsertRow(r, t)
    \/ UseStored(r)
    \/ MarkProcessing(r)
    \/ CallFails(r)
    \/ CallQueued(r)
    \/ CallAnswers(r)
    \/ CallRefused(r)

DecideStep(r) ==
    \/ TurnDown(r)
    \/ Verify(r)
    \/ HandleConflict(r)
    \/ Sync(r)
    \/ Break(r)
    \/ Recover(r)
    \/ Discard(r)

PollStep(r) == (\E t \in Txn : Poll(r, t)) \/ PollAnswers(r)

ReviewStep(r) == (\E t \in Txn : LoadReview(r, t)) \/ ApproveReview(r) \/ RejectReview(r)

OwnerStep(t) == OwnerApprove(t) \/ OwnerReject(t) \/ OwnerReverse(t)

Next ==
    \/ \E r \in Run : SubmitStep(r) \/ DecideStep(r) \/ PollStep(r) \/ ReviewStep(r)
    \/ \E t \in Txn : OwnerStep(t)

Spec == Init /\ [][Next]_vars

--------------------------------------------------------------------------------
(* Properties.                                                             *)

\* Every variable keeps to its domain.
TypeOK ==
    /\ status \in [Txn -> PaymentStatus \union {"unborn", "deleted"}]
    /\ target \in [Txn -> Target \union {Nothing}]
    /\ ref \in [Txn -> Ref \union {Nothing}]
    /\ asked \in [Txn -> BOOLEAN]
    /\ stored \in [Txn -> BOOLEAN]
    /\ banned \in [Txn -> BOOLEAN]
    /\ pc \in [Run -> RunPc]
    /\ kind \in [Run -> {"none", "submit", "poll", "review"}]
    /\ txn \in [Run -> Txn \union {Nothing}]
    /\ wants \in [Run -> Target \union {Nothing}]
    /\ typed \in [Run -> Ref \union {Nothing}]
    /\ copyStored \in [Run -> BOOLEAN]
    /\ answer \in [Run -> Answer]
    /\ confirmed \subseteq Ref
    /\ byHand \subseteq Txn

\* A payment is VERIFIED without a person's decision only if the bank has
\* confirmed its receipt, in this attempt or an earlier one of anybody
\* ("Failures are never reused - only confirmed payments", _find_stored_provider_result).
VerifiedWasConfirmed ==
    \A t \in Txn : status[t] = "VERIFIED" /\ t \notin byHand => Canonical[ref[t]] \in confirmed

\* The ledger that the VERIFIED rows amount to.
paid == [x \in Target |->
            IF AlreadyPaid(x) THEN ref[CHOOSE t \in Txn : status[t] = "VERIFIED" /\ target[t] = x]
            ELSE Nothing]

Ledger == INSTANCE PaymentLedger WITH Unpaid <- Nothing

\* Retries, polls, reviews and reversals, in any order, only ever pay an unpaid
\* target with an unused reference, respell the reference, or void the payment.
ImplementsLedger == Ledger!Spec

\* A VERIFIED payment stops being VERIFIED only by the owner's reversal:
\* "VERIFIED -> REJECTED, only with the 5-digit code emailed to the owner"
\* (owner_reverse_verified_payment).
OnlyOwnerUnverifies ==
    [][\A t \in Txn : status[t] = "VERIFIED" /\ status'[t] = "REJECTED" => banned'[t]]_vars

================================================================================
