------------------------------- MODULE AppShell -------------------------------
(***************************************************************************)
(* The questions the shell around every page puts to its player             *)
(* (AppShell.tsx): whether he can play, what to do about a booking whose    *)
(* window has closed, a share or a hold to pay, a payment that has          *)
(* completed.  Each is polled on an interval of its own, and every answer   *)
(* overwrites what the last one brought, however old it is.  The server is  *)
(* what it has due for the player under each question.                      *)
(***************************************************************************)
EXTENDS Naturals, FiniteSets

CONSTANTS
    Request,      \* bookings a question can be about
    None,         \* nothing due
    MaxAnswers,   \* bound: polls under way at once
    MaxChanges    \* bound: times the server's side changes by itself

VARIABLES
    due,          \* the server: what each poll is answered with
    dueChanges,   \* how often that has changed by itself
    shell         \* the shell

shellVars == <<due, dueChanges, shell>>

Poll == {"confirmation", "ownerAction", "payment", "solo", "completion"}
OwnerType == {"confirm_summary", "payment_timeout", "payment_success", "pitch_unavailable"}
Item == [type : OwnerType \union {"ask"}, request : Request]

\* What a poll may be answered with.
Due(p) ==
    {None} \union {item \in Item : (item.type \in OwnerType) <=> (p = "ownerAction")}

\* What the owner is offered about an expired window; the button for a full squad sends "cover".
Menu(type) ==
    CASE type = "confirm_summary" -> {"cover", "recalculate", "open_slot", "cancel"}
      [] type = "payment_timeout" -> {"remind", "cover", "recalculate", "cancel"}
      [] OTHER                    -> {}

Choice == {"cover", "recalculate", "open_slot", "cancel", "remind"}

\* Calls that set ownerActionLoading: the resolve handlers (from the owner's
\* popup or the bookings' drawer) and the acknowledgement of a booked pitch.
OwnerCall == {"resolve", "acknowledge", "cover_open"}
CallKind == OwnerCall \union {"respond", "unavailable", "completed"}

Shell ==
    [shown : [Poll -> Item \union {None}],
     answers : SUBSET [poll : Poll, item : Item \union {None}],   \* polls answered and not arrived
     calls : SUBSET CallKind,
     dismissed : [{"confirmation", "ownerAction"} -> Request \union {None}],
     declining : BOOLEAN,       \* the confirmation asks "Are you sure?"
     responding : BOOLEAN,      \* its loading
     ownerLoading : BOOLEAN,
     completionLoading : BOOLEAN,
     choice : Choice \union {None},
     replaced : BOOLEAN,        \* a poll put another question into the owner's open popup
     unavailable : BOOLEAN]     \* PitchUnavailablePopup

ShellTypeOK ==
    /\ due \in [Poll -> Item \union {None}] /\ \A p \in Poll : due[p] \in Due(p)
    /\ dueChanges \in 0..MaxChanges
    /\ shell \in Shell

ShellInit ==
    /\ due = [p \in Poll |-> None]
    /\ dueChanges = 0
    /\ shell = [shown |-> [p \in Poll |-> None], answers |-> {}, calls |-> {},
                dismissed |-> [p \in {"confirmation", "ownerAction"} |-> None],
                declining |-> FALSE, responding |-> FALSE, ownerLoading |-> FALSE,
                completionLoading |-> FALSE, choice |-> None, replaced |-> FALSE, unavailable |-> FALSE]

OnShell(s) == shell' = s /\ UNCHANGED <<due, dueChanges>>

-----------------------------------------------------------------------------
(* Which popup is on screen. *)

ConfirmShown(s) ==
    s.shown.confirmation # None /\ s.shown.confirmation.request # s.dismissed.confirmation

OwnerShown(s) ==
    /\ s.shown.confirmation = None /\ s.shown.ownerAction # None
    /\ s.shown.ownerAction.type = "confirm_summary" =>
          s.shown.ownerAction.request # s.dismissed.ownerAction

PaymentShown(s) ==
    s.shown.confirmation = None /\ s.shown.ownerAction = None /\ s.shown.payment # None

SoloShown(s) ==
    /\ s.shown.confirmation = None /\ s.shown.ownerAction = None
    /\ s.shown.payment = None /\ s.shown.solo # None

\* Mutant: the shell keeps what was chosen in a popup that has left the screen.
RenderedKeeping(s) == [s EXCEPT !.declining = @ /\ ConfirmShown(s), !.responding = @ /\ ConfirmShown(s)]

\* A popup that leaves the screen forgets its own state; one that stays keeps
\* it, whichever question it shows now.
Rendered(s) ==
    [s EXCEPT !.declining = @ /\ ConfirmShown(s), !.responding = @ /\ ConfirmShown(s),
              !.choice = IF OwnerShown(s) THEN @ ELSE None,
              !.replaced = @ /\ OwnerShown(s)]

-----------------------------------------------------------------------------
(* Polling. *)

\* A deadline, another member, or the player in another tab.
DueChanges(p) ==
    /\ dueChanges < MaxChanges
    /\ \E item \in Due(p) \ {due[p]} : due' = [due EXCEPT ![p] = item]
    /\ dueChanges' = dueChanges + 1
    /\ UNCHANGED shell

RoomToAsk == Cardinality(shell.answers) < MaxAnswers
Asked(s, p, item) == [s EXCEPT !.answers = @ \union {[poll |-> p, item |-> item]}]

\* The intervals ask whether or not the last answer has come.
Refresh(p) == RoomToAsk /\ OnShell(Asked(shell, p, due[p]))

\* refreshPendingOwnerAction: a lost pitch is announced and acknowledged.
PitchLost(a) == a.item # None /\ a.item.type = "pitch_unavailable"

PollArrives(a) ==
    /\ a \in shell.answers
    /\ LET s == [shell EXCEPT !.answers = @ \ {a}]
       IN IF PitchLost(a)
          THEN OnShell([s EXCEPT !.unavailable = TRUE, !.calls = @ \union {"unavailable"}])
          ELSE OnShell(Rendered(
                 [s EXCEPT !.shown[a.poll] = a.item,
                           !.replaced = \/ @
                                        \/ /\ a.poll = "ownerAction" /\ OwnerShown(shell)
                                           /\ a.item # shell.shown.ownerAction]))

PollFails(a) == a \in shell.answers /\ OnShell([shell EXCEPT !.answers = @ \ {a}])

-----------------------------------------------------------------------------
(* What the player does in the popups. *)

\* TeamBookingConfirmPopup: yes, or no twice.
AskDecline == ConfirmShown(shell) /\ ~shell.responding /\ OnShell([shell EXCEPT !.declining = TRUE])
GoBack == shell.declining /\ ~shell.responding /\ OnShell([shell EXCEPT !.declining = FALSE])

Respond ==
    /\ ConfirmShown(shell) /\ ~shell.responding /\ "respond" \notin shell.calls
    /\ OnShell([shell EXCEPT !.responding = TRUE, !.calls = @ \union {"respond"}])

\* onClose: the overlay, or the cross in the corner.
DismissConfirmation ==
    /\ ConfirmShown(shell)
    /\ OnShell(Rendered([shell EXCEPT !.dismissed.confirmation = shell.shown.confirmation.request]))

\* OwnerBookingSummaryPopup
Choose(choice) ==
    /\ OwnerShown(shell) /\ choice \in Menu(shell.shown.ownerAction.type)
    /\ OnShell([shell EXCEPT !.choice = choice])

DismissOwnerAction ==
    /\ OwnerShown(shell) /\ shell.shown.ownerAction.type = "confirm_summary"
    /\ OnShell(Rendered([shell EXCEPT !.dismissed.ownerAction = shell.shown.ownerAction.request]))

\* Every button of the owner's is off while a decision is under way.
Starts(kind) ==
    /\ ~shell.ownerLoading
    /\ OnShell([shell EXCEPT !.ownerLoading = TRUE, !.calls = @ \union {kind}])

\* submit, or the one button of a full squad; "open_slot" opens a form instead.
ResolveChosen ==
    /\ OwnerShown(shell) /\ Menu(shell.shown.ownerAction.type) # {}
    /\ shell.choice # "open_slot"
    /\ shell.choice # None \/ shell.shown.ownerAction.type = "confirm_summary"
    /\ Starts("resolve")

\* The bookings' drawer calls the same handlers.
DecideInDrawer == Starts("resolve") \/ Starts("cover_open")

AcknowledgeSuccess ==
    /\ OwnerShown(shell) /\ shell.shown.ownerAction.type = "payment_success"
    /\ Starts("acknowledge")

AcknowledgeCompletion ==
    /\ shell.shown.completion # None /\ ~shell.completionLoading
    /\ OnShell([shell EXCEPT !.completionLoading = TRUE, !.calls = @ \union {"completed"}])

\* The popup of a solo hold is closed or paid: asked again at once.
SoloClosed ==
    /\ SoloShown(shell) /\ RoomToAsk
    /\ OnShell(Asked([shell EXCEPT !.shown.solo = None], "solo", due.solo))

CloseUnavailable == shell.unavailable /\ OnShell([shell EXCEPT !.unavailable = FALSE])

-----------------------------------------------------------------------------
(* The calls are answered. *)

\* The question each call answers.
About(kind) ==
    CASE kind = "respond"   -> "confirmation"
      [] kind = "completed" -> "completion"
      [] OTHER              -> "ownerAction"

\* The server has nothing due any more, or what another booking has due.
Answers(kind) ==
    LET p == About(kind)
    IN \E item \in Due(p) :
          /\ item # None => due[p] # None /\ item.request # due[p].request
          /\ due' = [due EXCEPT ![p] = item]

\* finally
Settled(s, kind) ==
    [s EXCEPT !.calls = @ \ {kind},
              !.ownerLoading = @ /\ kind \notin OwnerCall,
              !.completionLoading = @ /\ kind # "completed",
              !.responding = @ /\ kind # "respond"]

\* Covering the open slots leaves the popup to the next poll; the other calls
\* close it.
Closed(s, kind) ==
    IF kind = "cover_open" THEN s ELSE Rendered([s EXCEPT !.shown[About(kind)] = None])

\* Most handlers ask again at once; resolving may find that the pitch is lost.
CallAnswered(kind) ==
    /\ kind \in shell.calls
    /\ Answers(kind) /\ UNCHANGED dueChanges
    /\ \E lost \in {FALSE, (kind \in {"resolve", "cover_open"})} :
          LET s == Closed(Settled([shell EXCEPT !.unavailable = @ \/ lost], kind), kind)
          IN IF kind \in {"unavailable", "completed"} THEN shell' = s
             ELSE RoomToAsk /\ shell' = Asked(s, About(kind), due'[About(kind)])

\* Refused, or the answer is lost: the popup stays as it is.
CallFails(kind) ==
    /\ kind \in shell.calls
    /\ Answers(kind) \/ UNCHANGED due
    /\ shell' = Settled(shell, kind) /\ UNCHANGED dueChanges

-----------------------------------------------------------------------------
ShellNext ==
    \/ \E p \in Poll : DueChanges(p) \/ Refresh(p)
    \/ \E a \in shell.answers : PollArrives(a) \/ PollFails(a)
    \/ AskDecline \/ GoBack \/ Respond \/ DismissConfirmation
    \/ \E choice \in Choice : Choose(choice)
    \/ DismissOwnerAction \/ ResolveChosen \/ DecideInDrawer \/ AcknowledgeSuccess
    \/ AcknowledgeCompletion \/ SoloClosed \/ CloseUnavailable
    \/ \E kind \in shell.calls : CallAnswered(kind) \/ CallFails(kind)

ShellSpec == ShellInit /\ [][ShellNext]_shellVars

-----------------------------------------------------------------------------
(* What the shell promises. *)

\* An owner never has two decisions under way, although three popups share one
\* flag for them and polls replace what he decides about: whoever sees the
\* spinner has exactly one call behind it (AppShell.tsx:428-540).
OneDecisionUnderWay ==
    /\ Cardinality(shell.calls \intersect OwnerCall) <= 1
    /\ shell.ownerLoading <=> shell.calls \intersect OwnerCall # {}
    /\ shell.completionLoading <=> "completed" \in shell.calls
    /\ shell.responding => "respond" \in shell.calls

\* What an owner has chosen is one of the options before him, unless a poll has
\* put another question into the popup he had open (OwnerBookingSummaryPopup.tsx:72).
ChoiceIsOffered ==
    OwnerShown(shell) /\ shell.choice # None =>
        shell.choice \in Menu(shell.shown.ownerAction.type) \/ shell.replaced

=============================================================================
