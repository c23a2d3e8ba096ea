-------------------------- MODULE TeamDashboardPage --------------------------
(***************************************************************************)
(* The page of one team in the web client (TeamDashboard.tsx) with its     *)
(* roster tab (ManageRoster.tsx) and its overview form.  The page loads    *)
(* the team, then the lists its role may see, and loads all of it again    *)
(* after every change; nothing numbers the loads or cancels one.  A load   *)
(* is sent, the team is served and arrives, the lists are asked for,       *)
(* served, and arrive, each when it likes.  The server is a counter of the *)
(* changes made to each team and the role of the viewer in it.             *)
(***************************************************************************)
EXTENDS Integers, FiniteSets

CONSTANTS
    Slug,        \* the teams whose page is opened
    MaxChange,   \* bound: changes of a team on the server
    MaxLoads,    \* bound: loads under way at once
    MaxCalls,    \* bound: changes requested by the page and not answered
    NoTeam, NoForm

VARIABLES
    teams,       \* the server: per team the changes so far and the viewer's role
    dashboard    \* the page: its route, what it shows, what it waits for

dashboardVars == <<teams, dashboard>>

Manager == {"owner", "admin"}
ViewerRole == {"owner", "admin", "member", "stranger"}
Method == {"link", "code"}
Dialog == {"none", "menu", "add", "edit", "delete"}
MenuKind == {"promote", "demote", "remove", "transfer"}
ModalKind == {"invite", "makelink", "makecode", "cutlink", "cutcode"}
CallKind == MenuKind \union ModalKind
              \union {"approve", "reject", "deleteInvite", "saveInvite", "saveTeam"}

Snapshot == [of : Slug, at : 0..MaxChange, role : ViewerRole]
Load == [n : 1..MaxLoads, got : Snapshot,
         step : {"team", "teamServed", "lists", "listsServed"}]

\* A call is mounted while the component that made it is still on the page; a
\* save carries the version of the team.
Call == [kind : CallKind, of : Slug, mounted : BOOLEAN, base : 0..MaxChange]

Dashboard ==
    [slug    : Slug,                       \* useParams
     tab     : {"roster", "overview"},
     team    : Snapshot \union {NoTeam},   \* TeamDashboardData shown
     lists   : Snapshot \union {NoTeam},   \* roster, invitations, join requests shown
     loading : BOOLEAN,
     denied  : BOOLEAN,
     loads   : SUBSET Load,
     dialog  : Dialog,                     \* what ManageRoster shows over the list
     panel   : [Method -> {"form", "confirm", "loading", "ready"}],
     changed : BOOLEAN,                    \* AddPlayersModal.hasChanges
     form    : (0..MaxChange) \union {NoForm},  \* OverviewTab: the change it was copied at
     calls   : SUBSET Call]

TypeOK ==
    /\ teams \in [Slug -> [at : 0..MaxChange, role : ViewerRole]]
    /\ dashboard \in Dashboard

Seen(s) == [of |-> s, at |-> teams[s].at, role |-> teams[s].role]
FreshPanel == [m \in Method |-> "form"]

\* loadDashboard(currentSlug) is called: one more load is under way.
RoomForLoad(loads) == {n \in 1..MaxLoads : \A l \in loads : l.n # n}
LoadsWith(loads, s) ==
    loads \union {[n |-> CHOOSE n \in RoomForLoad(loads) : TRUE, step |-> "team", got |-> Seen(s)]}

FreshPage(s) ==
    [slug |-> s, tab |-> "roster", team |-> NoTeam, lists |-> NoTeam,
     loading |-> TRUE, denied |-> FALSE, loads |-> LoadsWith({}, s),
     dialog |-> "none", panel |-> FreshPanel, changed |-> FALSE, form |-> NoForm, calls |-> {}]

Init ==
    /\ teams \in [Slug -> [at : {0}, role : {"owner", "admin", "member"}]]
    /\ \E s \in Slug : dashboard = FreshPage(s)

-----------------------------------------------------------------------------
(* The route and the loads. *)

Replace(l, new) == [dashboard EXCEPT !.loads = (@ \ {l}) \union new]

\* The server answers one of the two rounds of a load, as it stands now.
ServeLoad(l) ==
    /\ l.step \in {"team", "lists"}
    /\ dashboard' = Replace(l, {[l EXCEPT !.step = IF @ = "team" THEN "teamServed" ELSE "listsServed",
                                          !.got = Seen(@.of)]})
    /\ UNCHANGED teams

\* The team's record arrives: it is shown at once and the lists are asked for.
TeamArrives(l) ==
    /\ l.step = "teamServed" /\ l.got.role # "stranger"
    /\ dashboard' = [Replace(l, {[l EXCEPT !.step = "lists"]}) EXCEPT !.team = l.got]
    /\ UNCHANGED teams

\* The lists arrive together (Promise.all), or the roster alone for a member.
ListsArrive(l) ==
    /\ l.step = "listsServed" /\ l.got.role # "stranger"
    /\ dashboard' = [Replace(l, {}) EXCEPT !.lists = l.got, !.loading = FALSE]
    /\ UNCHANGED teams

\* Any refused or failed round sends the viewer back to the list of teams.
LoadFails(l) ==
    /\ l.step \in {"teamServed", "listsServed"}
    /\ dashboard' = [Replace(l, {}) EXCEPT !.denied = TRUE, !.loading = FALSE]
    /\ UNCHANGED teams

\* What the page shows: back to /teams, the skeleton, or the tabs.
Screen == CASE dashboard.denied -> "teams"
            [] ~dashboard.denied /\ (dashboard.loading \/ dashboard.team = NoTeam) -> "skeleton"
            [] OTHER -> "tabs"

\* Changing the tab unmounts what the other one showed, with its state.
OpenTab(t) ==
    /\ Screen = "tabs" /\ t # dashboard.tab
    /\ dashboard' = [dashboard EXCEPT !.tab = t, !.dialog = "none", !.panel = FreshPanel,
                       !.changed = FALSE, !.form = NoForm,
                       !.calls = {[c EXCEPT !.mounted = FALSE] : c \in @}]
    /\ UNCHANGED teams

-----------------------------------------------------------------------------
(* The roster tab. *)

OnRoster == Screen = "tabs" /\ dashboard.tab = "roster"
canManage == dashboard.team # NoTeam /\ dashboard.team.role \in Manager

\* The buttons of a member's row, of an invitation and of a request, drawn for a
\* manager while no dialog covers them.
RowButtons == OnRoster /\ canManage /\ dashboard.dialog = "none"
ReviewButtons == OnRoster /\ canManage /\ dashboard.dialog = "none"

\* "Add players", a member's menu, "Edit" and "Delete" of an invitation.
OpenDialog(d) ==
    /\ RowButtons /\ d # "none"
    /\ dashboard' = [dashboard EXCEPT !.dialog = d, !.panel = FreshPanel, !.changed = FALSE]
    /\ UNCHANGED teams

RoomForCall == Cardinality(dashboard.calls) < MaxCalls
CallsWith(k, b) == dashboard.calls
                     \union {[kind |-> k, of |-> dashboard.slug, mounted |-> TRUE, base |-> b]}
Waiting(k) == \E c \in dashboard.calls : c.kind = k /\ c.mounted

\* handleRoleChange, handleRemoveMember, handleTransferOwnership: the menu closes
\* first; "Transfer ownership" is the owner's.
ChooseInMenu(k) ==
    /\ OnRoster /\ dashboard.dialog = "menu" /\ RoomForCall
    /\ k = "transfer" => dashboard.team.role = "owner"
    /\ dashboard' = [dashboard EXCEPT !.dialog = "none", !.calls = CallsWith(k, 0)]
    /\ UNCHANGED teams

\* handleApproveRequest and handleRejectRequest: nothing is disabled meanwhile.
Review(k) ==
    /\ ReviewButtons /\ RoomForCall
    /\ dashboard' = [dashboard EXCEPT !.calls = CallsWith(k, 0)]
    /\ UNCHANGED teams

\* handleConfirmDelete: the dialog stays until the answer.
ConfirmDelete ==
    /\ OnRoster /\ dashboard.dialog = "delete" /\ RoomForCall
    /\ dashboard' = [dashboard EXCEPT !.calls = CallsWith("deleteInvite", 0)]
    /\ UNCHANGED teams

\* EditInvitationModal.handleSave: both buttons are disabled while it saves.
SaveInvitation ==
    /\ OnRoster /\ dashboard.dialog = "edit" /\ ~Waiting("saveInvite") /\ RoomForCall
    /\ dashboard' = [dashboard EXCEPT !.calls = CallsWith("saveInvite", 0)]
    /\ UNCHANGED teams

\* The dialogs close by their button or their overlay, also while a call is
\* under way: the modal is unmounted, and the roster is loaded again only when
\* AddPlayersModal knows of a change.
CloseDialog ==
    LET gone == CASE dashboard.dialog = "edit" -> {"saveInvite"}
                  [] dashboard.dialog = "add" -> ModalKind
                  [] OTHER -> {}
        reload == dashboard.dialog = "add" /\ dashboard.changed
    IN  /\ OnRoster /\ dashboard.dialog # "none"
        /\ reload => RoomForLoad(dashboard.loads) # {}
        /\ dashboard' = [dashboard EXCEPT
             !.dialog = "none", !.panel = FreshPanel, !.changed = FALSE,
             !.calls = {[c EXCEPT !.mounted = @ /\ c.kind \notin gone] : c \in @},
             !.loads = IF reload THEN LoadsWith(@, dashboard.slug) ELSE @]
        /\ UNCHANGED teams

\* The panels of AddPlayersModal: settings, confirmation, spinner, the invite.
LinkPanelShows(p) == OnRoster /\ dashboard.dialog = "add" /\ dashboard.panel["link"] = p
CodePanelShows(p) == OnRoster /\ dashboard.dialog = "add" /\ dashboard.panel["code"] = p
PanelShows(m, p) == IF m = "link" THEN LinkPanelShows(p) ELSE CodePanelShows(p)

Confirm(m) ==
    /\ PanelShows(m, "form") \/ PanelShows(m, "confirm")
    /\ dashboard' = [dashboard EXCEPT !.panel[m] = IF @ = "form" THEN "confirm" ELSE "form"]
    /\ UNCHANGED teams

MakeKind(m) == IF m = "link" THEN "makelink" ELSE "makecode"
CutKind(m) == IF m = "link" THEN "cutlink" ELSE "cutcode"

\* generateLink and generateCode, after the limit was compared with the open slots.
Generate(m) ==
    /\ PanelShows(m, "confirm") /\ RoomForCall
    /\ dashboard' = [dashboard EXCEPT !.panel[m] = "loading", !.calls = CallsWith(MakeKind(m), 0)]
    /\ UNCHANGED teams

\* cancelLink and cancelCode: the panel keeps the invite until the answer.
CancelInvite(m) ==
    /\ PanelShows(m, "ready") /\ RoomForCall
    /\ dashboard' = [dashboard EXCEPT !.calls = CallsWith(CutKind(m), 0)]
    /\ UNCHANGED teams

\* SearchTab.handleSearch shows users; handleInvite invites one of them.
InviteFound ==
    /\ OnRoster /\ dashboard.dialog = "add" /\ ~Waiting("invite") /\ RoomForCall
    /\ dashboard' = [dashboard EXCEPT !.calls = CallsWith("invite", 0)]
    /\ UNCHANGED teams

-----------------------------------------------------------------------------
(* The overview tab. *)

\* The fields and buttons of the form are disabled while it is saved.
FormOpen == Screen = "tabs" /\ dashboard.form # NoForm /\ ~Waiting("saveTeam")

\* startEdit copies the team that is shown; cancelEdit drops the copy.
StartEdit ==
    /\ Screen = "tabs" /\ dashboard.tab = "overview" /\ canManage /\ dashboard.form = NoForm
    /\ dashboard' = [dashboard EXCEPT !.form = dashboard.team.at]
    /\ UNCHANGED teams

CancelEdit ==
    /\ FormOpen
    /\ dashboard' = [dashboard EXCEPT !.form = NoForm]
    /\ UNCHANGED teams

\* handleSave of a valid form: it sends the version of the team that is shown
\* by now, not of the one the form was copied from.
SaveTeam ==
    /\ FormOpen /\ RoomForCall
    /\ dashboard' = [dashboard EXCEPT !.calls = CallsWith("saveTeam", dashboard.team.at)]
    /\ UNCHANGED teams

-----------------------------------------------------------------------------
(* The answers. *)

\* What the server checks of a call (TeamRoster has the services themselves).
Accepts(c) ==
    /\ teams[c.of].at < MaxChange
    /\ teams[c.of].role \in IF c.kind \in {"promote", "demote", "transfer"} THEN {"owner"} ELSE Manager
    /\ c.kind = "saveTeam" => c.base = teams[c.of].at

\* The server makes the change; giving the team away leaves the viewer a member.
Made(c) == [teams EXCEPT ![c.of].at = @ + 1,
                         ![c.of].role = IF c.kind = "transfer" THEN "member" ELSE @]

\* The panels after an answer: the invite is ready, or forgotten.
PanelAfter(c, made) ==
    [m \in Method |-> CASE c.mounted /\ c.kind = MakeKind(m) -> made
                        [] c.mounted /\ c.kind = CutKind(m) -> "form"
                        [] OTHER -> dashboard.panel[m]]

\* After a change made from the list or a dialog the page loads the team again,
\* with the slug of the render that made the call; the modal only notes it, and
\* the overview shows the answer.
Reloads(c) == c.kind \notin ModalKind \union {"saveTeam"}
Succeeds(c) ==
    /\ Accepts(c)
    /\ Reloads(c) => RoomForLoad(dashboard.loads) # {}
    /\ teams' = Made(c)
    /\ dashboard' = [dashboard EXCEPT
         !.calls = @ \ {c},
         !.loads = IF Reloads(c) THEN LoadsWith(@, c.of) ELSE @,
         !.changed = @ \/ (c.mounted /\ c.kind \in ModalKind),
         !.panel = PanelAfter(c, "ready"),
         !.dialog = IF c.mounted /\ c.kind \in {"deleteInvite", "saveInvite"} THEN "none" ELSE @,
         !.team = IF c.kind = "saveTeam"
                  THEN [of |-> c.of, at |-> teams[c.of].at + 1, role |-> teams[c.of].role] ELSE @,
         !.form = IF c.mounted /\ c.kind = "saveTeam" THEN NoForm ELSE @]

\* Refused, or lost on the way before or after the server made the change: an
\* error is shown; the panels go back, a cancelled invite is forgotten (finally).
Fails(c) ==
    /\ \/ UNCHANGED teams
       \/ Accepts(c) /\ teams' = Made(c)
    /\ dashboard' = [dashboard EXCEPT
         !.calls = @ \ {c},
         !.panel = PanelAfter(c, "form"),
         !.dialog = IF c.mounted /\ c.kind = "deleteInvite" THEN "none" ELSE @]

\* Somebody else changes the team, or the viewer's place in it.
OthersChange(s, r) ==
    /\ teams[s].at < MaxChange
    /\ teams' = [teams EXCEPT ![s] = [at |-> @.at + 1, role |-> r]]
    /\ UNCHANGED dashboard

-----------------------------------------------------------------------------
Arrive(n) == \E l \in dashboard.loads :
                l.n = n /\ (ServeLoad(l) \/ TeamArrives(l) \/ ListsArrive(l) \/ LoadFails(l))
Answer(k) == \E c \in dashboard.calls : c.kind = k /\ (Succeeds(c) \/ Fails(c))

Viewer ==
    \/ \E t \in {"roster", "overview"} : OpenTab(t)
    \/ \E d \in Dialog : OpenDialog(d)
    \/ \E k \in MenuKind : ChooseInMenu(k)
    \/ \E k \in {"approve", "reject"} : Review(k)
    \/ ConfirmDelete \/ SaveInvitation \/ CloseDialog
    \/ \E m \in Method : Confirm(m) \/ Generate(m) \/ CancelInvite(m)
    \/ InviteFound \/ StartEdit \/ CancelEdit \/ SaveTeam

Next == \/ Viewer
        \/ \E n \in 1..MaxLoads : Arrive(n)
        \/ \E k \in CallKind : Answer(k)
        \/ \E s \in Slug, r \in ViewerRole : OthersChange(s, r)

Spec == Init /\ [][Next]_dashboardVars

-----------------------------------------------------------------------------
(* What the page promises. *)

\* The skeleton has a load behind it, whatever the loads before answered and in
\* whatever order: the page shows the team or goes back to the list of teams.
SkeletonHasLoad == Screen = "skeleton" => dashboard.loads # {}

\* A spinner in a panel of AddPlayersModal has the call behind it that will show
\* the invite or the form again, whatever else was closed, cancelled or refused.
SpinnerHasCall ==
    \A m \in Method : dashboard.panel[m] = "loading" => Waiting(MakeKind(m))

=============================================================================
