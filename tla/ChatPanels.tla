------------------------------ MODULE ChatPanels ------------------------------
(***************************************************************************)
(* What surrounds the messages of a team's chat (chatPage.tsx): the dialog  *)
(* that sends a photo and its caption, the cards of the team's bookings and *)
(* the popups they open, the voice message and the photo of a bubble, and   *)
(* the sidebar with the teams and the search.                               *)
(***************************************************************************)
EXTENDS Naturals, FiniteSets

CONSTANTS
    None,        \* nothing shown, chosen or under way
    MaxFailures  \* bound: times the sending of one photo fails

VARIABLES
    booking,     \* the state of the team's booking at the server
    photo,       \* the dialog
    cards,       \* the cards and their popups
    bubble,      \* a voice message and a photo of the list
    sidebar      \* the teams, the search and the pane that is shown

panelVars == <<booking, photo, cards, bubble, sidebar>>

\* The states a team's booking goes through, in their order; "over" stands for
\* expired, unavailable and cancelled.
Stages == <<"pending", "awaiting_open_slots", "payment_pending", "booked", "over">>
Stage == {Stages[i] : i \in DOMAIN Stages}
View == {"confirmation", "payment", "summary"}

Photo ==
    [pending : BOOLEAN, caption : BOOLEAN, sending : BOOLEAN, error : BOOLEAN,
     call : {"image", "caption", None}, served : BOOLEAN,
     posted : 0..MaxFailures + 1, failures : 0..MaxFailures]  \* history of this photo

Cards ==
    [loads : SUBSET Stage, shown : Stage \union {None}, expanded : BOOLEAN,
     opening : SUBSET View, view : View \union {None}, responding : BOOLEAN]

Bubble ==
    [audio : {"idle", "loading", "ready", "error"}, playing : BOOLEAN,
     image : {"loading", "ready", "error"}]

Sidebar ==
    [loading : BOOLEAN, teams : BOOLEAN, open : BOOLEAN, mode : {"list", "search"}, query : BOOLEAN,
     pane : {"sidebar", "thread"}, highlighted : BOOLEAN]

PanelsTypeOK ==
    /\ booking \in Stage /\ photo \in Photo /\ cards \in Cards /\ bubble \in Bubble
    /\ sidebar \in Sidebar

NoPhoto == [pending |-> FALSE, caption |-> FALSE, sending |-> FALSE, error |-> FALSE,
            call |-> None, served |-> FALSE, posted |-> 0, failures |-> 0]

NoCards == [loads |-> {}, shown |-> None, expanded |-> FALSE, opening |-> {}, view |-> None,
            responding |-> FALSE]

NewBubble == [audio |-> "idle", playing |-> FALSE, image |-> "loading"]

\* The link to a team's chat opens its thread; /chat opens the list.
PanelsInit ==
    /\ booking = "pending" /\ photo = NoPhoto /\ cards = NoCards /\ bubble = NewBubble
    /\ \E open \in BOOLEAN :
          sidebar = [loading |-> TRUE, teams |-> FALSE, open |-> open, mode |-> "list", query |-> FALSE,
                     pane |-> IF open THEN "thread" ELSE "sidebar", highlighted |-> FALSE]

OnPhoto(p) == photo' = p /\ UNCHANGED <<booking, cards, bubble, sidebar>>
OnCards(c) == cards' = c /\ UNCHANGED <<booking, photo, bubble, sidebar>>
OnBubble(b) == bubble' = b /\ UNCHANGED <<booking, photo, cards, sidebar>>
OnSidebar(s) == sidebar' = s /\ UNCHANGED <<booking, photo, cards, bubble>>

Open == sidebar.open

-----------------------------------------------------------------------------
(* The photo dialog. *)

\* handleFileChosen: a photo that may be sent, or an error and no dialog.
PickPhoto ==
    /\ Open /\ ~photo.pending
    /\ \/ OnPhoto([NoPhoto EXCEPT !.pending = TRUE])
       \/ OnPhoto([photo EXCEPT !.error = TRUE])

TypeCaption == photo.pending /\ ~photo.sending /\ OnPhoto([photo EXCEPT !.caption = ~@])

\* closePendingImage
ClosePhoto == photo.pending /\ ~photo.sending /\ OnPhoto([NoPhoto EXCEPT !.error = photo.error])

\* confirmSendPendingImage: the photo, then the caption.  What has been sent is
\* not remembered: after a failure the photo is sent again.
CanConfirm == photo.pending /\ ~photo.sending /\ photo.failures < MaxFailures

ConfirmPhoto == CanConfirm /\ OnPhoto([photo EXCEPT !.sending = TRUE, !.call = "image", !.served = FALSE])

PhotoServed ==
    /\ photo.call # None /\ ~photo.served /\ photo.posted <= MaxFailures
    /\ OnPhoto([photo EXCEPT !.served = TRUE, !.posted = IF photo.call = "image" THEN @ + 1 ELSE @])

PhotoAnswered ==
    /\ photo.call # None /\ photo.served
    /\ OnPhoto(IF photo.call = "image" /\ photo.caption
               THEN [photo EXCEPT !.call = "caption", !.served = FALSE]
               ELSE [NoPhoto EXCEPT !.error = photo.error])

\* Refused, or the answer lost: the dialog stays.
PhotoFails ==
    /\ photo.call # None
    /\ OnPhoto([photo EXCEPT !.sending = FALSE, !.error = TRUE, !.call = None, !.served = FALSE,
                             !.failures = @ + 1])

-----------------------------------------------------------------------------
(* The cards. *)

\* Members, the owner or the sweep move the booking on.
StageMoves ==
    /\ booking # "booked"
    /\ booking' \in {s \in Stage : \E i, j \in DOMAIN Stages : i < j /\ Stages[i] = booking /\ Stages[j] = s}
    /\ UNCHANGED <<photo, cards, bubble, sidebar>>

\* fetchTeamBookings at first, every twelve seconds and after an answer, also
\* while another one is under way.
LoadCards == Open /\ Cardinality(cards.loads) < 2 /\ OnCards([cards EXCEPT !.loads = @ \union {booking}])

\* The last to arrive is shown, which is not always the last to have been asked.
CardsArrive(stage) ==
    stage \in cards.loads /\ OnCards([cards EXCEPT !.loads = @ \ {stage}, !.shown = stage])

\* One source or detail that fails leaves its booking out.
CardsFail(stage) ==
    stage \in cards.loads /\ OnCards([cards EXCEPT !.loads = @ \ {stage}, !.shown = None])

\* isVisibleBooking and isPastBookedDate, when the time that is booked is not over.
Visible == Open /\ cards.shown \notin {None, "over"}

ExpandCard == Visible /\ OnCards([cards EXCEPT !.expanded = ~@])

\* openBooking, by the stage the card shows.
\* Mutant: open slots are taken for a booking that asks for its shares.
ViewOfPaying(stage) ==
    IF stage = "booked" THEN "summary"
    ELSE IF stage \in {"awaiting_open_slots", "payment_pending"} THEN "payment" ELSE "confirmation"

ViewOf(stage) ==
    IF stage = "booked" THEN "summary" ELSE IF stage = "payment_pending" THEN "payment" ELSE "confirmation"

OpenCard ==
    /\ Visible /\ cards.view = None
    /\ OnCards([cards EXCEPT !.opening = @ \union {ViewOf(cards.shown)}])

CardOpens(view) ==
    view \in cards.opening /\ OnCards([cards EXCEPT !.opening = @ \ {view}, !.view = view])

CardOpenFails(view) == view \in cards.opening /\ OnCards([cards EXCEPT !.opening = @ \ {view}])

CloseCard == cards.view # None /\ ~cards.responding /\ OnCards([cards EXCEPT !.view = None])

\* handleConfirmYes, handleConfirmNo: the answer, with the cards loaded again.
Respond ==
    /\ cards.view = "confirmation" /\ ~cards.responding
    /\ OnCards([cards EXCEPT !.responding = TRUE])

\* Another popup that has opened since stays.
RespondAnswered ==
    /\ cards.responding /\ Cardinality(cards.loads) < 2
    /\ OnCards([cards EXCEPT !.responding = FALSE, !.loads = @ \union {booking},
                             !.view = IF @ = "confirmation" THEN None ELSE @])

RespondFails == cards.responding /\ OnCards([cards EXCEPT !.responding = FALSE])

\* MemberPaymentPopup's onPaid.
PaidInCard ==
    /\ cards.view = "payment" /\ ~cards.responding /\ Cardinality(cards.loads) < 2
    /\ OnCards([cards EXCEPT !.view = None, !.loads = @ \union {booking}])

-----------------------------------------------------------------------------
(* The bubbles. *)

\* togglePlay: the file is fetched at the first click, and again after an error.
TogglePlay ==
    /\ Open /\ bubble.audio # "loading"
    /\ OnBubble(IF bubble.audio = "ready" THEN [bubble EXCEPT !.playing = ~@]
                ELSE [bubble EXCEPT !.audio = "loading"])

AudioArrives ==
    /\ bubble.audio = "loading"
    /\ \/ OnBubble([bubble EXCEPT !.audio = "ready", !.playing = TRUE])
       \/ OnBubble([bubble EXCEPT !.audio = "error"])

AudioEnds == bubble.playing /\ OnBubble([bubble EXCEPT !.playing = FALSE])

\* A photo is fetched when it is shown, once.
ImageArrives ==
    /\ Open /\ bubble.image = "loading"
    /\ \E image \in {"ready", "error"} : OnBubble([bubble EXCEPT !.image = image])

-----------------------------------------------------------------------------
(* The sidebar. *)

TeamsArrive ==
    /\ sidebar.loading
    /\ \E teams \in BOOLEAN : OnSidebar([sidebar EXCEPT !.loading = FALSE, !.teams = teams])

\* Another team's thread: ChatThread and all it holds are made anew.
SelectTeam ==
    /\ sidebar.teams /\ sidebar.mode = "list"
    /\ sidebar' = [sidebar EXCEPT !.open = TRUE, !.pane = "thread", !.query = FALSE, !.highlighted = FALSE]
    /\ photo' = NoPhoto /\ cards' = NoCards /\ bubble' = NewBubble /\ booking' \in Stage

BackToTeams == Open /\ OnSidebar([sidebar EXCEPT !.pane = "sidebar"])
OpenSearch == Open /\ OnSidebar([sidebar EXCEPT !.mode = "search", !.pane = "sidebar"])
TypeQuery == sidebar.mode = "search" /\ OnSidebar([sidebar EXCEPT !.query = ~@])
CloseSearch == sidebar.mode = "search" /\ OnSidebar([sidebar EXCEPT !.mode = "list", !.query = FALSE])

\* The message is scrolled to and highlighted.  onScrollHandled renders again at
\* once, which clears the timer that would end the highlight.
SelectResult ==
    /\ sidebar.mode = "search" /\ sidebar.query
    /\ OnSidebar([sidebar EXCEPT !.pane = "thread", !.highlighted = TRUE])

-----------------------------------------------------------------------------
\* The panels share nothing but the team whose thread is open.
PhotoNext ==
    \/ PickPhoto \/ TypeCaption \/ ClosePhoto \/ ConfirmPhoto
    \/ PhotoServed \/ PhotoAnswered \/ PhotoFails

CardsNext ==
    \/ StageMoves \/ LoadCards \/ ExpandCard \/ OpenCard \/ CloseCard
    \/ Respond \/ RespondAnswered \/ RespondFails \/ PaidInCard
    \/ \E stage \in Stage : CardsArrive(stage) \/ CardsFail(stage)
    \/ \E view \in View : CardOpens(view) \/ CardOpenFails(view)

BubbleNext == TogglePlay \/ AudioArrives \/ AudioEnds \/ ImageArrives

SidebarNext ==
    \/ TeamsArrive \/ SelectTeam \/ BackToTeams
    \/ OpenSearch \/ TypeQuery \/ CloseSearch \/ SelectResult

PanelsNext == PhotoNext \/ CardsNext \/ BubbleNext \/ SidebarNext

PanelsSpec == PanelsInit /\ [][PanelsNext]_panelVars

-----------------------------------------------------------------------------
(* Properties *)

\* A photo is posted twice only after a failure: a lost answer or a caption that
\* failed, after which "Send" begins with the photo again
\* (confirmSendPendingImage).
PhotoPostedAgainAfterFailure == photo.posted <= photo.failures + 1

\* However old the card that was clicked, its popup asks for a payment only when
\* the team's booking has come to its payments, and shows the summary of a booked
\* pitch only when it is booked (openBooking, fetchTeamBookings).
ViewIsDue ==
    /\ cards.view = "payment" => booking \in {"payment_pending", "booked", "over"}
    /\ cards.view = "summary" => booking = "booked"

=============================================================================
