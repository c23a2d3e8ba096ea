----------------------------- MODULE BookingPopups ----------------------------
(***************************************************************************)
(* The popups a player opens himself from the top bar (AppShell.tsx): the   *)
(* notifications' drawer with the details behind a notification and the     *)
(* invitation to a team, and the list of his team bookings with the live    *)
(* detail of one and the form that opens its slots to outside players.  A   *)
(* popup that closes drops the loads it waits for, never the calls it has   *)
(* sent: their answers act on whatever is open by then.                     *)
(***************************************************************************)
EXTENDS Naturals, FiniteSets

CONSTANTS
    None,        \* nothing chosen, loaded or shown
    MaxUnread    \* bound: notifications the badge counts

VARIABLE popups  \* the popups

\* What the live detail of a booking may show.
BookingState == {"waiting", "squad", "decide", "open_slots", "payment", "over"}
DetailShows == BookingState \union {None, "error"}
Choice == {"cover", "recalculate", "open_slot", "cancel"}

View == {"confirmation", "payment", "summary"}

\* "summary" is the owner's mandatory popup, which shares the loading flag.
OwnerCall == {"resolve", "cover_open", "summary"}
CallKind == OwnerCall \union {"open_slot", "open_slot_left", "respond", "accept", "decline", "mark"}

Popups ==
    [drawer : BOOLEAN, listed : BOOLEAN, badge : 0..MaxUnread,
     viewLoading : BOOLEAN, view : View \union {None}, responding : BOOLEAN,
     viewCall : View \union {None},
     list : BOOLEAN, detail : BOOLEAN,             \* teamBookingListOpen, activeLiveDetailId
     shows : DetailShows, choice : Choice \union {None}, cover : BOOLEAN,
     resolving : BOOLEAN,                          \* ownerActionLoading
     form : BOOLEAN, submitting : BOOLEAN,         \* openSlotContext
     unavailable : BOOLEAN,
     invitation : BOOLEAN, preview : {None, "shown", "error"},
     acting : {None, "accept", "decline"}, rejecting : BOOLEAN,
     calls : SUBSET CallKind]

PopupsTypeOK == popups \in Popups

PopupsInit ==
    popups = [drawer |-> FALSE, listed |-> FALSE, badge |-> 0, viewLoading |-> FALSE,
              view |-> None, responding |-> FALSE, viewCall |-> None, list |-> FALSE, detail |-> FALSE,
              shows |-> None, choice |-> None, cover |-> FALSE, resolving |-> FALSE,
              form |-> FALSE, submitting |-> FALSE, unavailable |-> FALSE, invitation |-> FALSE,
              preview |-> None, acting |-> None, rejecting |-> FALSE, calls |-> {}]

OnPopups(p) == popups' = p

\* Every popup covers the page, and the top bar with it.
Bare ==
    /\ ~popups.drawer /\ ~popups.list /\ ~popups.detail /\ ~popups.form /\ ~popups.unavailable
    /\ ~popups.invitation /\ popups.view = None /\ ~popups.viewLoading

-----------------------------------------------------------------------------
(* Notifications. *)

\* refreshNotifications on its interval: the count of a moment ago, which a
\* notification since, or reading them all, has made old.
BadgeArrives == \E n \in 0..MaxUnread : OnPopups([popups EXCEPT !.badge = n, !.listed = TRUE])

\* handleBellClick, markAllRead: read here before the server has heard of it.
OpenDrawer ==
    /\ Bare
    /\ LET p == [popups EXCEPT !.drawer = TRUE, !.badge = 0]
       IN OnPopups(IF popups.badge > 0 THEN [p EXCEPT !.calls = @ \union {"mark"}] ELSE p)

\* The overlay, the cross or Escape.
CloseDrawer == popups.drawer /\ OnPopups([popups EXCEPT !.drawer = FALSE])

\* handleViewNotification: a detail is loaded under a spinner.
ViewNotification(view) ==
    /\ popups.drawer /\ popups.listed /\ ~popups.viewLoading /\ ~popups.invitation
    /\ OnPopups([popups EXCEPT !.viewLoading = TRUE, !.viewCall = view])

ViewArrives ==
    /\ popups.viewCall # None
    /\ OnPopups([popups EXCEPT !.viewLoading = FALSE, !.viewCall = None, !.view = popups.viewCall,
                               !.drawer = FALSE])

\* The drawer stays.
ViewFails ==
    /\ popups.viewCall # None
    /\ OnPopups([popups EXCEPT !.viewLoading = FALSE, !.viewCall = None])

CloseView == popups.view # None /\ OnPopups([popups EXCEPT !.view = None, !.responding = FALSE])

\* A question that is still open can be answered here too.
RespondInView ==
    /\ popups.view = "confirmation" /\ ~popups.responding /\ "respond" \notin popups.calls
    /\ OnPopups([popups EXCEPT !.responding = TRUE, !.calls = @ \union {"respond"}])

\* An invitation opens over the drawer, by "View" as by "Reject".
OpenInvitation ==
    /\ popups.drawer /\ popups.listed /\ ~popups.invitation /\ ~popups.viewLoading
    /\ OnPopups([popups EXCEPT !.invitation = TRUE])

\* TeamInvitationPopup
WithoutInvitation(p) ==
    [p EXCEPT !.invitation = FALSE, !.preview = None, !.acting = None, !.rejecting = FALSE]

PreviewArrives ==
    /\ popups.invitation /\ popups.preview = None
    /\ \E preview \in {"shown", "error"} : OnPopups([popups EXCEPT !.preview = preview])

AskReject ==
    /\ popups.preview = "shown" /\ popups.acting = None
    /\ OnPopups([popups EXCEPT !.rejecting = ~@])

Act(answer) ==
    /\ popups.preview = "shown" /\ popups.acting = None
    /\ popups.rejecting <=> (answer = "decline")
    /\ answer \notin popups.calls
    /\ OnPopups([popups EXCEPT !.acting = answer, !.calls = @ \union {answer}])

CloseInvitation == popups.invitation /\ OnPopups(WithoutInvitation(popups))

-----------------------------------------------------------------------------
(* Team bookings. *)

OpenList == Bare /\ OnPopups([popups EXCEPT !.list = TRUE])
CloseList == popups.list /\ ~popups.detail /\ OnPopups([popups EXCEPT !.list = FALSE])
SelectBooking == popups.list /\ ~popups.detail /\ OnPopups([popups EXCEPT !.detail = TRUE])

DetailShown == popups.detail /\ ~popups.form

\* The detail is gone from the screen, and what was chosen in it.
FreshDetail(p) == [p EXCEPT !.shows = None, !.choice = None, !.cover = FALSE]

\* Both are closed, "Back to list" too.
WithoutDetail(p) == FreshDetail([p EXCEPT !.detail = FALSE, !.list = FALSE])

CloseDetail == DetailShown /\ OnPopups(WithoutDetail(popups))

\* Asked every five seconds; a refusal takes the place of the detail.
DetailArrives ==
    /\ DetailShown
    /\ \E shows \in BookingState \union {"error"} : OnPopups([popups EXCEPT !.shows = shows])

ChooseInDetail(choice) ==
    DetailShown /\ popups.shows = "decide" /\ OnPopups([popups EXCEPT !.choice = choice])

ToggleCover ==
    DetailShown /\ popups.shows = "open_slots" /\ OnPopups([popups EXCEPT !.cover = ~@])

\* Every button that decides about a booking is off while a decision is under way.
Decides(kind) ==
    /\ ~popups.resolving
    /\ OnPopups([popups EXCEPT !.resolving = TRUE, !.calls = @ \union {kind}])

ResolveInDetail ==
    /\ DetailShown
    /\ \/ popups.shows = "squad"
       \/ popups.shows = "decide" /\ popups.choice \in Choice \ {"open_slot"}
    /\ Decides("resolve")

CoverOpenSlots == DetailShown /\ popups.shows = "open_slots" /\ popups.cover /\ Decides("cover_open")

\* handleResolveSummary and handleResolvePaymentTimeout, from the mandatory popup.
DecideInSummary == Decides("summary")

\* From the detail, or from the mandatory popup over a bare page.
OpenSlotForm ==
    /\ \/ DetailShown /\ popups.shows = "decide" /\ popups.choice = "open_slot" /\ ~popups.resolving
       \/ Bare
    /\ OnPopups(FreshDetail([popups EXCEPT !.form = TRUE]))

SubmitForm ==
    /\ popups.form /\ ~popups.submitting
    /\ "open_slot" \notin popups.calls
    /\ OnPopups([popups EXCEPT !.submitting = TRUE, !.calls = @ \union {"open_slot"}])

\* The cross stays on while the form is sent; its call is on its own then.
Left(calls) ==
    IF "open_slot" \in calls THEN (calls \ {"open_slot"}) \union {"open_slot_left"} ELSE calls

CloseForm ==
    /\ popups.form /\ "open_slot_left" \notin popups.calls
    /\ OnPopups([popups EXCEPT !.form = FALSE, !.submitting = FALSE, !.calls = Left(@)])

CloseUnavailable == popups.unavailable /\ OnPopups([popups EXCEPT !.unavailable = FALSE])

-----------------------------------------------------------------------------
(* Answers. *)

Without(kind) ==
    [popups EXCEPT !.calls = @ \ {kind}, !.resolving = @ /\ kind \notin OwnerCall]

\* cancelled closes what is open of the bookings; so does covering open slots.
OwnerAnswered(kind) ==
    /\ kind \in popups.calls \intersect OwnerCall
    /\ \E lost \in BOOLEAN, cancelled \in BOOLEAN :
          LET p == [Without(kind) EXCEPT !.unavailable = @ \/ lost]
          IN OnPopups(IF cancelled \/ kind = "cover_open" THEN WithoutDetail(p) ELSE p)

\* Either form is closed by the answer, the one that was left by the next one's.
FormAnswered(kind) ==
    /\ kind \in popups.calls \intersect {"open_slot", "open_slot_left"}
    /\ \E lost \in BOOLEAN :
          LET p == [Without(kind) EXCEPT !.form = FALSE, !.submitting = FALSE, !.unavailable = @ \/ lost]
          IN IF popups.submitting /\ kind = "open_slot_left"
             THEN OnPopups([p EXCEPT !.calls = Left(@)]) ELSE OnPopups(p)

RespondAnswered ==
    /\ "respond" \in popups.calls
    /\ OnPopups([Without("respond") EXCEPT !.responding = FALSE,
                    !.view = IF @ = "confirmation" THEN None ELSE @])

InvitationAnswered(answer) ==
    /\ answer \in popups.calls \intersect {"accept", "decline"}
    /\ OnPopups(WithoutInvitation(Without(answer)))

Marked == "mark" \in popups.calls /\ OnPopups(Without("mark"))

\* The error is shown, or nothing, and the buttons are on again.
Fails(kind) ==
    [Without(kind) EXCEPT
        !.submitting = @ /\ kind # "open_slot", !.responding = @ /\ kind # "respond",
        !.acting = IF @ = kind THEN None ELSE @]

CallFails(kind) == kind \in popups.calls /\ OnPopups(Fails(kind))

-----------------------------------------------------------------------------
PopupsNext ==
    \/ BadgeArrives \/ OpenDrawer \/ CloseDrawer
    \/ \E view \in View : ViewNotification(view)
    \/ ViewArrives \/ ViewFails \/ CloseView \/ RespondInView
    \/ OpenInvitation \/ PreviewArrives \/ AskReject \/ CloseInvitation
    \/ \E answer \in {"accept", "decline"} : Act(answer) \/ InvitationAnswered(answer)
    \/ OpenList \/ CloseList \/ SelectBooking \/ CloseDetail \/ DetailArrives
    \/ \E choice \in Choice : ChooseInDetail(choice)
    \/ ToggleCover \/ ResolveInDetail \/ CoverOpenSlots \/ DecideInSummary
    \/ OpenSlotForm \/ SubmitForm \/ CloseForm \/ CloseUnavailable
    \/ \E kind \in CallKind : OwnerAnswered(kind) \/ FormAnswered(kind) \/ CallFails(kind)
    \/ RespondAnswered \/ Marked

PopupsSpec == PopupsInit /\ [][PopupsNext]_popups

-----------------------------------------------------------------------------
(* What the popups promise. *)

\* Every spinner and every button that is off waits for a call that can be
\* answered, although a popup may be closed, reopened or closed by another
\* popup's answer while its own call is under way.
PopupWaitsForCall ==
    /\ popups.resolving <=> popups.calls \intersect OwnerCall # {}
    /\ Cardinality(popups.calls \intersect OwnerCall) <= 1
    /\ popups.viewLoading <=> popups.viewCall # None
    /\ popups.submitting => popups.form /\ "open_slot" \in popups.calls
    /\ popups.responding => popups.view = "confirmation" /\ "respond" \in popups.calls
    /\ popups.acting # None => popups.invitation /\ popups.acting \in popups.calls

=============================================================================
