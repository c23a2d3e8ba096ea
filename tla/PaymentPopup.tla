------------------------------ MODULE PaymentPopup -----------------------------
(***************************************************************************)
(* The popup a player pays in (MemberPaymentPopup.tsx): it loads how the   *)
(* pitch is paid, scans a photo of the receipt for its reference, submits  *)
(* the payment, and asks for its status on an interval until there is one. *)
(* A question is asked whether or not the last one is answered, and an     *)
(* answer stops the interval that is current by then, not its own.  The    *)
(* shell may put another payment into the popup or take it away at any     *)
(* time, whatever it is doing (AppShell.tsx).  The server is the status of *)
(* each payment (PaymentVerification has how it comes about).              *)
(***************************************************************************)
EXTENDS Naturals, FiniteSets, Functions

CONSTANTS
    MaxScans,     \* bound: photos scanned at once
    MaxTxns,      \* bound: payments submitted
    MaxPolls      \* bound: questions under way at once, about one payment and in all

VARIABLES
    txnStatus,    \* the server: status of every payment
    payPopup      \* the popup

payVars == <<txnStatus, payPopup>>

Txn == 1..MaxTxns
\* decided: verified, rejected, or to be reviewed, which decides once more; so the
\* verdict is what the server says when it is asked.
TxnStatus == {"none", "pending", "decided"}

Step == {"loading", "no_config", "gateway_unavailable", "form", "submitting", "polling",
         "rejected", "needs_review", "timeout"}

Popup ==
    [open  : BOOLEAN, step : Step,
     closes : BOOLEAN,                                \* onPaid and onClose are given: not by the shell for a team's
     info : {"asked", "here", "failed"},              \* fetchInfo of the payment that is shown
     account : BOOLEAN, sender : BOOLEAN,             \* selectedAccount and senderBank are chosen
     ask : BOOLEAN,                                   \* askAccount, and too few digits are typed
     file : BOOLEAN, reference : BOOLEAN,             \* a photo is chosen, a reference filled in
     scanning : BOOLEAN, scans : 0..MaxScans,         \* scans not answered yet
     submits : SUBSET Txn,                            \* submissions not answered yet
     timers : SUBSET Txn, current : 0..MaxTxns,       \* intervals running; the one of pollTimer
     polls : [Txn -> 0..MaxPolls],                    \* questions not answered yet
     paid : BOOLEAN,                                  \* verified: the shell's next poll takes the popup away
     late : BOOLEAN,                                  \* a question was answered after its interval was stopped
     reopened : BOOLEAN]                              \* another payment's form came over a submission or an interval

PayTypeOK ==
    /\ txnStatus \in [Txn -> TxnStatus]
    /\ payPopup \in Popup

FreshPopup(closes) ==
    [open |-> TRUE, step |-> "loading", closes |-> closes, info |-> "asked",
     account |-> FALSE, sender |-> FALSE, ask |-> FALSE,
     file |-> FALSE, reference |-> FALSE, scanning |-> FALSE, scans |-> 0,
     submits |-> {}, timers |-> {}, current |-> 0,
     polls |-> [t \in Txn |-> 0], paid |-> FALSE, late |-> FALSE, reopened |-> FALSE]

PayInit ==
    /\ txnStatus = [t \in Txn |-> "none"]
    /\ payPopup \in {FreshPopup(closes) : closes \in BOOLEAN}

OnPay(p) == payPopup' = p /\ UNCHANGED txnStatus

\* The popup leaves the screen: the interval of pollTimer is cleared, and no
\* other; what was asked is still answered.
Unmounted(p) ==
    [FreshPopup(p.closes) EXCEPT
        !.open = FALSE, !.info = "here",
        !.submits = p.submits, !.timers = p.timers \ {p.current}, !.current = p.current,
        !.polls = p.polls, !.late = p.late, !.reopened = p.reopened]

\* An answer that comes later than that changes nothing a player sees.
Seen(p) == IF p.open THEN p ELSE [p EXCEPT !.step = "loading", !.ask = FALSE, !.paid = FALSE]

\* The shell's poll has nothing to pay any more, or something that goes first.
TakeAway == payPopup.open /\ OnPay(Unmounted(payPopup))

\* The shell's poll brings another payment: the same popup shows it and loads how
\* it is paid, and everything else stays.
ChangePayment == payPopup.open /\ OnPay([payPopup EXCEPT !.info = "asked"])

\* fetchInfo: the owner takes payments by hand (into one account or one of
\* several), by a gateway, or not at all.  The step is set whatever it was.
InfoArrives ==
    /\ payPopup.open /\ payPopup.info = "asked"
    /\ LET p == [payPopup EXCEPT !.info = "here", !.paid = FALSE]
       IN \/ \E single \in BOOLEAN :
               OnPay([p EXCEPT !.step = "form", !.account = @ \/ single,
                               !.reopened = @ \/ p.timers # {} \/ p.submits # {}])
          \/ \E step \in {"no_config", "gateway_unavailable"} : OnPay([p EXCEPT !.step = step])

\* The error is shown, and the step is what it was.
InfoFails == payPopup.open /\ payPopup.info = "asked" /\ OnPay([payPopup EXCEPT !.info = "failed"])

\* getMySavedSenderBanks: the number needed is one the server remembers.
SavedBanksArrive == payPopup.ask /\ OnPay([payPopup EXCEPT !.ask = FALSE])

\* The form, step by step.
FormOpen == payPopup.open /\ payPopup.step = "form"
SelectAccount == FormOpen /\ OnPay([payPopup EXCEPT !.account = TRUE])

\* chooseSenderBank: the receipts of some banks need an account number.
ChooseSenderBank ==
    /\ FormOpen /\ payPopup.account
    /\ \E ask \in BOOLEAN : OnPay([payPopup EXCEPT !.sender = TRUE, !.ask = ask])

UploadShown == FormOpen /\ payPopup.account /\ payPopup.sender

\* handleFileSelected: one more scan, whatever became of the last one.
HandleFileSelected ==
    /\ UploadShown /\ payPopup.scans < MaxScans
    /\ OnPay([payPopup EXCEPT !.file = TRUE, !.scanning = TRUE, !.scans = @ + 1])

\* A reference is found, or none is: then what the box held stays.
ScanArrives ==
    /\ payPopup.scans > 0
    /\ \E reference \in {TRUE, payPopup.reference} :
          OnPay([payPopup EXCEPT !.scans = @ - 1, !.scanning = FALSE, !.reference = reference])

TypeReference == UploadShown /\ OnPay([payPopup EXCEPT !.reference = TRUE])

TypeAccount == UploadShown /\ payPopup.ask /\ OnPay([payPopup EXCEPT !.ask = FALSE])

-----------------------------------------------------------------------------
(* Submitting and waiting. *)

\* Payments are numbered in the order in which the server creates them.
MayTxn(t) == txnStatus[t] = "none" /\ \A u \in Txn : u < t => txnStatus[u] # "none" \/ u \in payPopup.submits

\* handleSubmit: off while a photo is scanned.
HandleSubmit(t) ==
    /\ UploadShown /\ ~payPopup.scanning
    /\ payPopup.file /\ payPopup.reference /\ ~payPopup.ask
    /\ t \notin payPopup.submits /\ MayTxn(t)
    /\ OnPay([payPopup EXCEPT !.step = "submitting", !.paid = FALSE, !.submits = @ \union {t}])

\* The server has a verdict on the payment at once or later.
ServeSubmit(t) ==
    /\ t \in payPopup.submits /\ txnStatus[t] = "none"
    /\ \E status \in {"pending", "decided"} : txnStatus' = [txnStatus EXCEPT ![t] = status]
    /\ UNCHANGED payPopup

Decide(t) ==
    /\ txnStatus[t] = "pending" /\ txnStatus' = [txnStatus EXCEPT ![t] = "decided"]
    /\ UNCHANGED payPopup

\* onPaid and onClose take the popup away; without them it stays as it is.
Paid(p) == IF p.open /\ p.closes THEN Unmounted(p) ELSE [p EXCEPT !.paid = TRUE]

\* handleRejected: the number may have been the wrong one to open the receipt with.
Rejected(p) == {[p EXCEPT !.step = "rejected", !.ask = ask] : ask \in {TRUE, p.ask}}

\* What both answers do with a verdict.
Verdict(p) == {Paid(p), [p EXCEPT !.step = "needs_review"]} \union Rejected(p)

StartPolling(p, t) ==
    [p EXCEPT !.step = "polling", !.paid = FALSE, !.timers = @ \union {t}, !.current = t]

SubmitArrives(t) ==
    /\ t \in payPopup.submits /\ txnStatus[t] # "none"
    /\ LET p == [payPopup EXCEPT !.submits = @ \ {t}]
       IN IF txnStatus[t] = "pending" THEN OnPay(Seen(StartPolling(p, t)))
          ELSE \E q \in Verdict(p) : OnPay(Seen(q))

\* Mutant: a failed submission leaves the spinner.
SubmitFailsSilently(t) == t \in payPopup.submits /\ OnPay([payPopup EXCEPT !.submits = @ \ {t}])

\* Refused or lost: back to the form with the error.
SubmitFails(t) ==
    /\ t \in payPopup.submits
    /\ \E ask \in {TRUE, payPopup.ask} :
          OnPay(Seen([payPopup EXCEPT !.submits = @ \ {t}, !.ask = ask, !.step = "form"]))

\* The interval asks again.
Tick(t) ==
    /\ t \in payPopup.timers /\ payPopup.polls[t] < MaxPolls /\ SumFunction(payPopup.polls) < MaxPolls
    /\ OnPay([payPopup EXCEPT !.polls[t] = @ + 1])

\* Mutant: the answer ends the wait and the interval goes on.
StoppedNever(p) == p

\* clearInterval(pollTimer.current!)
Stopped(p) == [p EXCEPT !.timers = @ \ {p.current}]

\* A question about t is answered with a verdict, or that there is none; that
\* changes nothing until one question too many was asked (the popup asks 90).
PollArrives(t) ==
    /\ payPopup.polls[t] > 0
    /\ LET p == [payPopup EXCEPT !.polls[t] = @ - 1, !.late = @ \/ t \notin payPopup.timers]
       IN \/ txnStatus[t] = "decided" /\ \E q \in Verdict(Stopped(p)) : OnPay(Seen(q))
          \/ txnStatus[t] = "pending" /\ \E q \in {p, [Stopped(p) EXCEPT !.step = "timeout"]} : OnPay(Seen(q))

\* "a short network hiccup - keep checking"
PollFails(t) == payPopup.polls[t] > 0 /\ OnPay([payPopup EXCEPT !.polls[t] = @ - 1])

\* retry, from "rejected" or after too many questions.
Retry ==
    /\ payPopup.step \in {"rejected", "timeout"}
    /\ OnPay([payPopup EXCEPT !.step = "form"])

-----------------------------------------------------------------------------
PayNext ==
    \/ TakeAway \/ ChangePayment \/ InfoArrives \/ InfoFails
    \/ SavedBanksArrive \/ SelectAccount \/ HandleFileSelected \/ TypeReference \/ TypeAccount
    \/ ChooseSenderBank \/ ScanArrives
    \/ \E t \in Txn : \/ HandleSubmit(t) \/ ServeSubmit(t) \/ Decide(t)
                      \/ SubmitArrives(t) \/ SubmitFails(t)
                      \/ Tick(t) \/ PollArrives(t) \/ PollFails(t)
    \/ Retry

PaySpec == PayInit /\ [][PayNext]_payVars

-----------------------------------------------------------------------------
(* What the popup promises. *)

\* One payment is asked about at a time, with two exceptions: an answer came after
\* its interval was stopped and sent the player back to the form while the next
\* submission was under way (MemberPaymentPopup.tsx:199-214), or the shell put
\* another payment into the popup, whose form opened over a submission or an
\* interval of the last one (138-156, AppShell.tsx:403-416, 935).
OneIntervalUnlessLate ==
    Cardinality(payPopup.timers) > 1 => payPopup.late \/ payPopup.reopened

\* A player who sees the spinner waits for something that can come: how the pitch
\* is paid, a submission not answered yet, or an interval that goes on asking
\* about his payment.  Two spinners stay with nothing under way here: after
\* fetchInfo has failed (line 153), and after the payment of a team's share is
\* verified, until the shell's poll takes the popup away.
WaitHasCause ==
    /\ payPopup.open /\ payPopup.step = "loading" => payPopup.info \in {"asked", "failed"}
    /\ payPopup.step = "submitting" =>
          payPopup.submits # {} \/ (payPopup.paid /\ ~payPopup.closes)
    /\ payPopup.step = "polling" =>
          payPopup.current \in payPopup.timers \/ (payPopup.paid /\ ~payPopup.closes)

=============================================================================
