---------------------------- MODULE PitchBookingPage ---------------------------
(***************************************************************************)
(* A pitch's page (PitchDetail.tsx) with the dialog that asks how to book  *)
(* (BookingTeamModal.tsx): the hours selected in a mode, then a cash       *)
(* booking by the pitch's manager, a hold to pay alone, or a request to a  *)
(* team.  No button waits for the call of another one, and what the page   *)
(* knows of the user, his teams and the hours may be late or out of date.  *)
(* The server is the set of free hours (SoloBooking has what it does).     *)
(***************************************************************************)
EXTENDS Naturals, FiniteSets

CONSTANTS
    Cell,         \* the hours of one week
    Weeks,        \* weeks of the monthly view (the page has 4)
    MaxBookings   \* bound: calls under way at once

VARIABLES
    free,         \* the server: hours nobody has
    isManager,    \* the server: this user runs the pitch
    ownsTeam,     \* the server: he owns a team
    pitchPage     \* the page

pitchVars == <<free, isManager, ownsTeam, pitchPage>>

Mode == {"daily", "weekly", "monthly"}
Slot == (0..Weeks) \X Cell                 \* week 0: daily_weekly_days

\* displayedDays, over all weeks.
SlotsOf(mode) == IF mode = "monthly" THEN (1..Weeks) \X Cell ELSE {0} \X Cell

BookingStep == {"closed", "choice", "team-select", "team-confirm"}
Choice == {"none", "individual", "team"}

\* A call under way: of a cash booking (and the reload after it), a hold, or a request.
BookingCall == [kind : {"cash", "reload", "hold", "request"}, slots : SUBSET Slot, made : BOOLEAN]

PitchPage ==
    [phase : {"loading", "shown", "missing"},
     teams : {"loading", "none", "some"},                \* ownedTeams
     shown : SUBSET Slot,                                \* hours shown as available
     mode  : Mode, week : 1..Weeks, selected : SUBSET Slot,
     step  : BookingStep, team : BOOLEAN,                \* selectedTeam
     pendingChoice : Choice,                             \* of the dialog
     holdFailed : BOOLEAN,                               \* a hold was refused or lost since it was chosen
     teamBookingLoading : BOOLEAN,
     calls : SUBSET BookingCall]

PitchTypeOK ==
    /\ free \subseteq Slot /\ isManager \in BOOLEAN /\ ownsTeam \in BOOLEAN
    /\ pitchPage \in PitchPage /\ Cardinality(pitchPage.calls) <= MaxBookings

PitchInit ==
    /\ free = Slot
    /\ isManager \in BOOLEAN /\ ownsTeam \in BOOLEAN
    /\ pitchPage = [phase |-> "loading", teams |-> "loading", shown |-> {}, mode |-> "daily",
                    week |-> 1, selected |-> {}, step |-> "closed", team |-> FALSE,
                    pendingChoice |-> "none", holdFailed |-> FALSE,
                    teamBookingLoading |-> FALSE, calls |-> {}]

OnPitch(p) == pitchPage' = p /\ UNCHANGED <<free, isManager, ownsTeam>>
Shown == pitchPage.phase = "shown"

\* loadOwnedTeams; a failure counts as no team.
TeamsArrive ==
    /\ pitchPage.teams = "loading"
    /\ \E teams \in {"none", IF ownsTeam THEN "some" ELSE "none"} : OnPitch([pitchPage EXCEPT !.teams = teams])

\* load: the user and the hours together; without either "Pitch not found".
PitchArrives ==
    /\ pitchPage.phase = "loading"
    /\ \/ OnPitch([pitchPage EXCEPT !.phase = "shown", !.shown = free])
       \/ OnPitch([pitchPage EXCEPT !.phase = "missing"])

\* Mutant: the tab keeps the hours selected in the other one.
SetModeKeeping(mode) ==
    Shown /\ pitchPage.step = "closed" /\ OnPitch([pitchPage EXCEPT !.mode = mode])

\* The tabs.
SetMode(mode) ==
    /\ Shown /\ pitchPage.step = "closed"
    /\ OnPitch([pitchPage EXCEPT !.mode = mode, !.selected = {},
                                 !.week = IF mode = "monthly" THEN @ ELSE 1])

\* The arrows between the weeks of the monthly view.
TurnWeek(week) ==
    /\ Shown /\ pitchPage.step = "closed" /\ pitchPage.mode = "monthly"
    /\ week \in {pitchPage.week - 1, pitchPage.week + 1}
    /\ OnPitch([pitchPage EXCEPT !.week = week])

\* The buttons of displayedDays.
DisplayedSlots == IF pitchPage.mode = "monthly" THEN {pitchPage.week} \X Cell ELSE SlotsOf(pitchPage.mode)

\* toggleSlot of an hour shown as available.
ToggleSlot(s) ==
    /\ Shown /\ pitchPage.step = "closed" /\ s \in DisplayedSlots \intersect pitchPage.shown
    /\ OnPitch([pitchPage EXCEPT !.selected = IF s \in @ THEN @ \ {s} ELSE @ \union {s}])

ClearSelection == Shown /\ pitchPage.step = "closed" /\ OnPitch([pitchPage EXCEPT !.selected = {}])

\* canApplyWeek1ToAll: the hours selected in week 1 are shown free in every other.
Pattern == {c \in Cell : <<1, c>> \in pitchPage.selected}
CanApplyWeek1ToAll == Pattern # {} /\ (2..Weeks) \X Pattern \subseteq pitchPage.shown

ApplyWeek1ToAllWeeks ==
    /\ Shown /\ pitchPage.step = "closed" /\ pitchPage.mode = "monthly" /\ CanApplyWeek1ToAll
    /\ OnPitch([pitchPage EXCEPT !.selected = ((1..Weeks) \X Pattern) \intersect pitchPage.shown])

-----------------------------------------------------------------------------
(* Booking. *)

RoomForCall == Cardinality(pitchPage.calls) < MaxBookings
NewCall(kind) == [kind |-> kind, slots |-> pitchPage.selected, made |-> FALSE]
WithCall(p, kind) == [p EXCEPT !.calls = @ \union {NewCall(kind)}]

\* handleBookClick: the manager books at once, an owner of a team is asked, and
\* everybody else pays alone.  Nothing keeps it from a second click.
HandleBookClick ==
    /\ Shown /\ pitchPage.step = "closed" /\ pitchPage.selected # {} /\ RoomForCall
    /\ OnPitch(CASE isManager -> WithCall(pitchPage, "cash")
                 [] ~isManager /\ pitchPage.teams = "some" -> [pitchPage EXCEPT !.step = "choice"]
                 [] ~isManager /\ pitchPage.teams # "some" -> WithCall(pitchPage, "hold"))

\* The step changes: the dialog's effect forgets the pending choice.
ToStep(p, step) ==
    [p EXCEPT !.step = step, !.pendingChoice = IF step = p.step THEN @ ELSE "none",
              !.holdFailed = @ /\ step = p.step]

\* handleChoice: the spinner of an option stops when the step changes ...
ChooseTeamBooking ==
    /\ pitchPage.step = "choice" /\ pitchPage.pendingChoice = "none"
    /\ OnPitch(ToStep(pitchPage, "team-select"))

\* ... and chooseIndividualBooking does not return the promise of its call.
ChooseIndividualBooking ==
    /\ pitchPage.step = "choice" /\ pitchPage.pendingChoice = "none" /\ RoomForCall
    /\ pitchPage.selected # {}
    /\ OnPitch([WithCall(pitchPage, "hold") EXCEPT !.pendingChoice = "individual"])

SelectTeamForBooking ==
    /\ pitchPage.step = "team-select" /\ OnPitch([pitchPage EXCEPT !.team = TRUE])

ProceedToTeamConfirm ==
    /\ pitchPage.step = "team-select" /\ pitchPage.team
    /\ OnPitch(ToStep(pitchPage, "team-confirm"))

\* The back buttons of the two steps; the second one stays on while the call is made.
BackToChoiceStep ==
    /\ pitchPage.step = "team-select"
    /\ OnPitch([ToStep(pitchPage, "choice") EXCEPT !.team = FALSE])
BackToTeamSelectStep ==
    /\ pitchPage.step = "team-confirm" /\ OnPitch(ToStep(pitchPage, "team-select"))

\* closeBookingModal: by Escape or beside the card at any time.
Closed(p) == [ToStep(p, "closed") EXCEPT !.team = FALSE]
CloseBookingModal == pitchPage.step # "closed" /\ OnPitch(Closed(pitchPage))

HandleConfirmTeamBooking ==
    /\ pitchPage.step = "team-confirm" /\ ~pitchPage.teamBookingLoading
    /\ pitchPage.team /\ pitchPage.selected # {} /\ RoomForCall
    /\ OnPitch([WithCall(pitchPage, "request") EXCEPT !.teamBookingLoading = TRUE])

-----------------------------------------------------------------------------
(* The server and its answers. *)

Without(p, c) == [p EXCEPT !.calls = @ \ {c}]

\* All of the hours or none.
ServeBooking(c) ==
    /\ c.kind \in {"cash", "hold", "request"} /\ ~c.made /\ c.slots \subseteq free
    /\ free' = IF c.kind = "request" THEN free ELSE free \ c.slots
    /\ pitchPage' = [pitchPage EXCEPT !.calls = (@ \ {c}) \union {[c EXCEPT !.made = TRUE]}]
    /\ UNCHANGED <<isManager, ownsTeam>>

\* handleBook goes on: the hours are loaded again.
CashArrives(c) ==
    /\ c.kind = "cash" /\ c.made
    /\ OnPitch([Without(pitchPage, c) EXCEPT !.calls = @ \union {[c EXCEPT !.kind = "reload"]}])

ReloadArrives(c) ==
    /\ c.kind = "reload"
    /\ OnPitch([Without(pitchPage, c) EXCEPT !.shown = free, !.selected = {}])

\* The hold is made: the payment's popup is the shell's.  The hours stay shown as free.
HoldArrives(c) ==
    /\ c.kind = "hold" /\ c.made
    /\ OnPitch([ToStep(Without(pitchPage, c), "closed") EXCEPT !.selected = {}])

RequestArrives(c) ==
    /\ c.kind = "request" /\ c.made
    /\ OnPitch([Closed(Without(pitchPage, c)) EXCEPT !.selected = {}, !.teamBookingLoading = FALSE])

\* Refused, or lost before or after it was made; the reload too may fail, and
\* then the page says that the booking did.  A hold that fails is told, and the
\* dialog stays as it is.
CallFails(c) ==
    OnPitch([Without(pitchPage, c) EXCEPT
                !.teamBookingLoading = @ /\ c.kind # "request",
                !.holdFailed = @ \/ (c.kind = "hold" /\ pitchPage.pendingChoice = "individual")])

\* Somebody else books an hour.
OthersBook(s) ==
    /\ s \in free /\ free' = free \ {s} /\ UNCHANGED <<isManager, ownsTeam, pitchPage>>

-----------------------------------------------------------------------------
BookingAnswer(kind) ==
    \E c \in pitchPage.calls : c.kind = kind /\
        (CashArrives(c) \/ ReloadArrives(c) \/ HoldArrives(c) \/ RequestArrives(c) \/ CallFails(c))

PitchNext ==
    \/ TeamsArrive \/ PitchArrives
    \/ \E mode \in Mode : SetMode(mode)
    \/ \E week \in 1..Weeks : TurnWeek(week)
    \/ \E s \in Slot : ToggleSlot(s) \/ OthersBook(s)
    \/ ClearSelection \/ ApplyWeek1ToAllWeeks \/ HandleBookClick
    \/ ChooseTeamBooking \/ ChooseIndividualBooking \/ SelectTeamForBooking \/ ProceedToTeamConfirm
    \/ BackToChoiceStep \/ BackToTeamSelectStep \/ CloseBookingModal \/ HandleConfirmTeamBooking
    \/ \E c \in pitchPage.calls : ServeBooking(c)
    \/ \E kind \in {"cash", "reload", "hold", "request"} : BookingAnswer(kind)

PitchSpec == PitchInit /\ [][PitchNext]_pitchVars

-----------------------------------------------------------------------------
(* What the page promises. *)

\* The hours that are priced and sent are hours of the mode that is priced and
\* sent with them, whatever was selected and answered before (PitchDetail.tsx
\* priceForMode, handleBook, handleConfirmTeamBooking).
SelectionIsOfTheMode == pitchPage.selected \subseteq SlotsOf(pitchPage.mode)

\* Every selected hour is shown as available now: a reload that shows it taken
\* also drops it from the selection.
SelectionIsShownFree == pitchPage.selected \subseteq pitchPage.shown

HoldUnderWay == \E c \in pitchPage.calls : c.kind = "hold"

\* The spinner of an option and the two buttons it disables have a hold behind
\* them, as long as none has failed (BookingTeamModal.tsx:164-179): the page does
\* not give the dialog the promise it waits for (PitchDetail.tsx:504-506), and a
\* failed hold leaves both, although the comment there (171-172) says otherwise.
ChoiceHasHold == pitchPage.pendingChoice # "none" => HoldUnderWay \/ pitchPage.holdFailed

\* The spinner of the request to a team has a request behind it, also when the
\* dialog was closed meanwhile and opened again.
TeamBookingHasCall == pitchPage.teamBookingLoading => \E c \in pitchPage.calls : c.kind = "request"

=============================================================================
