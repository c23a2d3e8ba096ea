------------------------------- MODULE AdminPage -------------------------------
(***************************************************************************)
(* The admin's control panel (Admin.tsx): owners and pitches are approved,  *)
(* deleted, created and edited, and every call that succeeds loads all      *)
(* lists again.  The four lists are four requests answered independently,   *)
(* nothing keeps two refreshes apart, and nothing disables a button while   *)
(* its call is under way, except "Decline" and the wizards' own submission. *)
(* One owner and one pitch of his stand for the tables.  Their rows are also *)
(* written by others, of whom this page hears nothing: owners, and admins at *)
(* other screens.  Each view is one step.  The statistics, the messages, the *)
(* filters (which hide cards and change nothing), the location and the      *)
(* payment dialogs are left out.                                            *)
(***************************************************************************)
EXTENDS Naturals, FiniteSets

CONSTANTS
    None,        \* no refresh under its number in "loads", no dialog
    MaxLoads,    \* bound: refreshes, the first of the mount
    MaxCalls,    \* bound: calls under way
    MaxChanges   \* bound: what others change

VARIABLES
    registry,    \* the server's rows: the owner and his pitch
    admin        \* the page

adminVars == <<registry, admin>>

Standing == {"none", "pending", "approved"}    \* none: no such row
Registry == [owner : Standing, pitch : Standing]

\* What the lists show: listPendingOwners, listOwners, listPendingPitches, listPitches.
Lists == [pendingOwner : BOOLEAN, owner : Standing, pendingPitch : BOOLEAN, pitch : Standing]

\* What each request would answer about the rows r.
ListsOf(r) ==
    [pendingOwner |-> r.owner = "pending", owner |-> r.owner,
     pendingPitch |-> r.pitch = "pending", pitch |-> r.pitch]

Kind == {"approveOwner", "declineOwner", "approvePitch", "deletePitch", "deleteOwner",
         "createPitch", "updatePitch"}
Wizards == {"createPitch", "updatePitch"}

\* asked: on its way; done and refused: the answer is on its way.
Call == [kind : Kind, state : {"asked", "done", "refused"}, id : 1..MaxCalls]

\* A refresh: the rows its requests may have seen, and the wizard that awaits it.
Load == [seen : SUBSET Registry, awaitedBy : Wizards \union {None}]

Admin ==
    [lists : Lists, begun : 0..MaxLoads, loads : [1..MaxLoads -> Load \union {None}], loading : BOOLEAN,
     calls : SUBSET Call, declining : BOOLEAN,
     confirm : {"deletePitch", "deleteOwner", None},
     open : SUBSET Wizards, submitting : SUBSET Wizards,
     overlapped : BOOLEAN, missed : BOOLEAN, elsewhere : BOOLEAN,    \* history, see the properties
     changes : 0..MaxChanges]

AdminTypeOK == registry \in Registry /\ admin \in Admin

Idle(loads) == \A n \in DOMAIN loads : loads[n] = None

\* The place the next one takes, if there is any.
LowestOf(places) == {n \in places : \A k \in places : n <= k}

\* A refresh starts: the spinner, no message, and four requests.
Refreshing(page, by) ==
    {[page EXCEPT !.begun = n, !.loads[n] = [seen |-> {registry}, awaitedBy |-> by],
                  !.loading = TRUE,
                  !.overlapped = @ \/ ~Idle(page.loads), !.elsewhere = FALSE]
        : n \in {page.begun + 1} \intersect 1..MaxLoads}

Empty == [pendingOwner |-> FALSE, owner |-> "none", pendingPitch |-> FALSE, pitch |-> "none"]

\* The page is mounted and refreshes.
AdminInit ==
    /\ registry \in {r \in Registry : r.owner = "none" => r.pitch = "none"}
    /\ admin \in Refreshing([lists |-> Empty, begun |-> 0, loads |-> [n \in 1..MaxLoads |-> None],
                             loading |-> TRUE, calls |-> {}, declining |-> FALSE,
                             confirm |-> None, open |-> {}, submitting |-> {},
                             overlapped |-> FALSE, missed |-> FALSE, elsewhere |-> FALSE,
                             changes |-> 0], None)

OnPage(page) == admin' = page /\ UNCHANGED registry

-----------------------------------------------------------------------------
(* refresh(). *)

\* onSubmit of a wizard has returned: the wizard clears its draft and calls onClose.
WizardReturns(page, w) ==
    IF w = None THEN page ELSE [page EXCEPT !.open = @ \ {w}, !.submitting = @ \ {w}]

\* What four requests may answer that each saw one of the rows in "seen".
Answers(seen) ==
    [pendingOwner : {ListsOf(r).pendingOwner : r \in seen}, owner : {r.owner : r \in seen},
     pendingPitch : {ListsOf(r).pendingPitch : r \in seen}, pitch : {r.pitch : r \in seen}]

\* All requests are answered, each from the rows of its own moment.
RefreshArrives(n) ==
    /\ admin.loads[n] # None
    /\ \E lists \in Answers(admin.loads[n].seen) :
         OnPage(WizardReturns([admin EXCEPT !.lists = lists, !.loads[n] = None, !.loading = FALSE],
                              admin.loads[n].awaitedBy))

\* One of them fails: no list changes, and the caller is not told.
RefreshFails(n) ==
    /\ admin.loads[n] # None
    /\ OnPage(WizardReturns([admin EXCEPT !.loads[n] = None, !.loading = FALSE, !.missed = TRUE],
                            admin.loads[n].awaitedBy))

-----------------------------------------------------------------------------
(* The server. *)

\* What the views answer: a row that is gone is not found, a pitch is approved
\* only for an approved owner, and there is no view that declines an owner.
Served(kind) ==
    CASE kind = "approveOwner" -> IF registry.owner = "none" THEN None
                                  ELSE [registry EXCEPT !.owner = "approved"]
      [] kind = "approvePitch" -> IF registry.pitch = "none" \/ registry.owner # "approved" THEN None
                                  ELSE [registry EXCEPT !.pitch = "approved"]
      [] kind = "deletePitch" -> IF registry.pitch = "none" THEN None
                                 ELSE [registry EXCEPT !.pitch = "none"]
      [] kind = "deleteOwner" -> IF registry.owner = "none" THEN None
                                 ELSE [registry EXCEPT !.owner = "none", !.pitch = "none"]
      [] kind = "createPitch" -> IF registry.owner = "none" \/ registry.pitch # "none" THEN None
                                 ELSE [registry EXCEPT !.pitch = "pending"]
      [] kind = "updatePitch" -> IF registry.pitch = "none" THEN None ELSE registry
      [] kind = "declineOwner" -> None

\* The refreshes under way may see the new rows too.
AlsoSeeing(loads, r) ==
    [n \in DOMAIN loads |->
        IF loads[n] = None THEN None ELSE [loads[n] EXCEPT !.seen = @ \union {r}]]

\* The server handles a call.  A creation may be refused when the row is there
\* already: what follows it, the hours booked before, is checked after it.
Serve(c) ==
    /\ c \in admin.calls /\ c.state = "asked"
    /\ \E late \in {FALSE, c.kind = "createPitch" /\ Served(c.kind) # None} :
         LET r == Served(c.kind)
             after == IF r = None THEN registry ELSE r
             answer == [c EXCEPT !.state = IF r = None \/ late THEN "refused" ELSE "done"]
         IN  /\ registry' = after
             /\ admin' = [admin EXCEPT !.calls = (@ \ {c}) \union {answer},
                                       !.loads = AlsoSeeing(@, after), !.missed = @ \/ late]

\* What others may write: another admin what this one may; the owner registers,
\* creates a pitch, or edits it, which saves the whole row he read and so
\* takes back an approval given meanwhile.
OthersWrite ==
    ({Served(kind) : kind \in Kind} \ {None})
      \union {r \in {[registry EXCEPT !.owner = "pending"]} : registry.owner = "none"}
      \union {r \in {[registry EXCEPT !.pitch = "pending"]} : registry.pitch = "approved"}

\* Somebody else changes the rows, and nothing tells this page.
OthersChange ==
    \E r \in OthersWrite \ {registry} :
        /\ admin.changes < MaxChanges
        /\ registry' = r
        /\ admin' = [admin EXCEPT !.loads = AlsoSeeing(@, r), !.elsewhere = TRUE, !.changes = @ + 1]

-----------------------------------------------------------------------------
(* The buttons. *)

Calling(page, kind) ==
    {[page EXCEPT !.calls = @ \union {[kind |-> kind, state |-> "asked", id |-> n]}]
        : n \in LowestOf((1..MaxCalls) \ {c.id : c \in page.calls})}

\* Neither the dialog nor a wizard covers the page.
Uncovered == admin.confirm = None /\ admin.open = {}

\* The card of a pending owner, hidden while loading; "Approve" is never disabled.
OwnerCardShown == Uncovered /\ ~admin.loading /\ admin.lists.pendingOwner

ApproveOwner ==
    /\ OwnerCardShown
    /\ \E page \in Calling(admin, "approveOwner") : OnPage(page)

DeclineOwner ==
    /\ OwnerCardShown /\ ~admin.declining
    /\ \E page \in Calling([admin EXCEPT !.declining = TRUE], "declineOwner") : OnPage(page)

OwnerRowShown == Uncovered /\ ~admin.loading /\ admin.lists.owner # "none"
PendingPitchShown == Uncovered /\ ~admin.loading /\ admin.lists.pendingPitch
PitchShown == Uncovered /\ ~admin.loading /\ admin.lists.pitch # "none"

ApprovePitch ==
    /\ PendingPitchShown
    /\ \E page \in Calling(admin, "approvePitch") : OnPage(page)

\* onDeletePitch and onDeleteOwnerAccount only ask; the dialog outlives its card.
AskToDelete ==
    \/ /\ PendingPitchShown \/ PitchShown
       /\ OnPage([admin EXCEPT !.confirm = "deletePitch"])
    \/ OwnerRowShown /\ OnPage([admin EXCEPT !.confirm = "deleteOwner"])

\* ConfirmModal: "Yes" starts the deletion and closes; everything else closes.
Confirm ==
    /\ admin.confirm # None
    /\ \/ OnPage([admin EXCEPT !.confirm = None])
       \/ \E page \in Calling([admin EXCEPT !.confirm = None], admin.confirm) : OnPage(page)

\* The wizards: opened by the header's button and by a card, closed at any time.
OpenWizard ==
    \/ Uncovered /\ OnPage([admin EXCEPT !.open = @ \union {"createPitch"}])
    \/ /\ PendingPitchShown \/ PitchShown
       /\ OnPage([admin EXCEPT !.open = @ \union {"updatePitch"}])

CloseWizard(w) == w \in admin.open /\ OnPage([admin EXCEPT !.open = @ \ {w}])

SubmitWizard(w) ==
    /\ w \in admin.open /\ w \notin admin.submitting
    /\ \E page \in Calling([admin EXCEPT !.submitting = @ \union {w}], w) : OnPage(page)

-----------------------------------------------------------------------------
(* The answers. *)

Ended(c) == [admin EXCEPT !.calls = @ \ {c}]

\* Mutant: a deletion does not load the lists again.
SucceedsQuietly(c) ==
    /\ c \in admin.calls /\ c.state = "done"
    /\ IF c.kind \in {"deletePitch", "deleteOwner"} THEN OnPage(Ended(c))
       ELSE \E page \in Refreshing([Ended(c) EXCEPT !.open = @ \ {c.kind}],
                                   IF c.kind \in Wizards THEN c.kind ELSE None) : OnPage(page)

\* Success: a toast, the wizard is closed, and the lists are loaded again.
Succeeds(c) ==
    /\ c \in admin.calls /\ c.state = "done"
    /\ \E page \in Refreshing([Ended(c) EXCEPT !.open = @ \ {c.kind}],
                              IF c.kind \in Wizards THEN c.kind ELSE None) : OnPage(page)

\* Refused, or the answer is lost: the server may have acted, and no list is loaded.
Fails(c) ==
    /\ c \in admin.calls /\ c.state # "asked"
    /\ OnPage([Ended(c) EXCEPT !.declining = @ /\ c.kind # "declineOwner",
                               !.submitting = @ \ {c.kind},
                               !.missed = @ \/ c.state = "done"])

-----------------------------------------------------------------------------
AdminNext ==
    \/ \E n \in 1..MaxLoads : RefreshArrives(n) \/ RefreshFails(n)
    \/ \E c \in admin.calls : Serve(c) \/ Succeeds(c) \/ Fails(c)
    \/ OthersChange
    \/ ApproveOwner \/ DeclineOwner \/ ApprovePitch \/ AskToDelete \/ Confirm \/ OpenWizard
    \/ \E w \in Wizards : CloseWizard(w) \/ SubmitWizard(w)

AdminSpec == AdminInit /\ [][AdminNext]_adminVars

-----------------------------------------------------------------------------
\* Once nothing is under way the four lists show the rows there are, whatever
\* calls and refreshes crossed on the way, with four exceptions: somebody else
\* has changed the rows since the last refresh was sent (the page never asks
\* by itself), a refresh failed, an answer was lost or told of a failure after
\* the row was written, or two refreshes overlapped and the older answered last.
IdleListsAreCurrent ==
    Idle(admin.loads) /\ admin.calls = {} /\ ~(admin.missed \/ admin.overlapped \/ admin.elsewhere)
        => admin.lists = ListsOf(registry)

\* The spinner stands for a refresh: it is never left behind, and it is taken
\* away under a running refresh only when two have overlapped.
SpinnerIsRefresh ==
    /\ admin.loading => ~Idle(admin.loads)
    /\ ~Idle(admin.loads) /\ ~admin.overlapped => admin.loading

=============================================================================
