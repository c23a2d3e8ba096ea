# MedaPlus, verified

MedaPlus is a marketplace for football pitches: players book time slots, alone
or as a team that splits the price; they pay by bank transfer, which a
verification service (verify.et) confirms from the transaction reference; pitch
owners run a grid of slots and decide doubtful payments. The backend is Django
on PostgreSQL, with a Celery worker that sweeps expired work once a minute.
This directory holds TLA+ models of the parts whose correctness depends on the
order in which requests, polls, sweeps and people act, the runs in which TLC
checks them, and the proofs that TLAPS checks. The client is a React application
whose pages load, poll and save beside each other. Paths below are relative to
`src/backend/`, and those of the client's files (`.ts`, `.tsx`) to
`src/frontend/src/`.

## 1. Inventory

| Component | State | Operations | Interacts with |
|---|---|---|---|
| Slots, solo holds, instant bookings (`bookings/`) | `Slot` (status, held_until, manual name), `SoloBookingHold` (selections, deadline, code), `Booking` rows | create a hold, finalize it, instant group booking, sweep | payments finalize a hold; the grid and team bookings write the same slots |
| Owner's grid (`pitches/views.py`) | the same `Slot` rows | book, close, bulk book and close, list of already booked slots | slots |
| Manual bank payments (`payment/services.py`) | `PaymentTransaction` rows: status, target, reference, stored answer | submit, retry, poll, review, owner's approval, rejection and reversal | verify.et; on VERIFIED, holds and team shares are told |
| Rejection of a verified payment (`payment/rejection.py`) | none of its own | cancel the booking a payment paid for, free its slots | slots, holds, team requests |
| Team booking (`team_booking/`) | requests, member confirmations, member payments by round, two deadlines, a held slot | ask, confirm, decline, the captain's decisions on the answers and on an unpaid round, pay, finalize, sweeps | slots, payments, open matches |
| Open matches (`match/`) | matches, participants | create, update, join, leave, cancel | fills open places of a team booking |
| Roster, invitations, join requests (`team/`) | teams with a version, memberships with a role, invitations, reusable links with a count, join requests | invite, accept, decline, use a link, edit its limit, ask, approve, leave, remove, promote, demote, transfer the ownership, edit the team | team booking reads the roster |
| Sessions (`accounts/`, `lib/api.ts`, `lib/session.ts`) | `UserSession` rows; per browser the stored login; per tab a flag and a list of waiting requests | log in, authenticate, rotate, revoke, log out; two interceptors around every request | every request of the client |
| One-time passwords (`accounts/`) | codes with attempts and locks | send, verify | the reversal of a payment needs a code |
| Client: sign-in, profile | fields, errors, a countdown, forms | log in, register, verify, resend; save, upload, change the phone number | sessions |
| Client: shell and popups (`pages/AppShell.tsx`, `MemberPaymentPopup.tsx`) | the questions due, one loading flag, what is open | polls, the captain's and the members' answers, payments and their polling | team booking, payments, notifications |
| Client: booking pages (`PitchDetail.tsx`, `BookingGrid.tsx`) | selections, modes, a window of days, a popup with its price | select, drag, book, close, page, reload | slots, holds, team booking |
| Client: team dashboard (`TeamDashboard.tsx`, `ManageRoster.tsx`) | the team, three lists, dialogs | reload after each change, invite, review, edit | roster |
| Client: chat (`chatPage.tsx`) | the messages listed, a draft, a recorder, a photo, booking cards | first page, older pages, polls, post, edit, delete, record | chat's server, team booking |
| Client: wizard and admin (`PitchWizardModal.tsx`, `Admin.tsx`) | steps, a stored draft, an address that is looked up; four lists | submit, approve, decline, delete, refresh | pitches, owners |
| Owner bank accounts (`payment/services.py`) | accounts, one active per bank | add, edit, switch | read when a payment is submitted |
| Receipt OCR, notifications, the chat's server, discovery pages, deployment | | | inputs of the models, or not modelled |

What is hard, and what makes each part correct:

* **Slots.** Requests run in autocommit mode. A check and the write it justifies
  are apart unless the code locks the row, and most of it does not. Players,
  owner, sweep and late payments write the same row. Correct: a slot is sold to
  one buyer; what is sold is BOOKED; nothing stays on hold for ever; money comes
  before the booking.
* **Payments.** A request holds a copy of its row while a remote service
  answers, for minutes; retries, polls, administrators and owners decide the
  same row meanwhile, and a plain `save()` writes the whole copy back. Correct: a
  receipt pays once, a target is paid once, nothing is VERIFIED that the bank or
  a person has not confirmed, a decision is not undone by a stale copy.
* **Team bookings.** Deadlines race answers, a booking may only be final when
  everybody's share is settled, a crash between two saves must be repaired by a
  sweep. Correct: no booking before the money, nobody charged for a cancelled
  one, every request ends.
* **Rosters.** Only an activation and a transfer of the ownership lock the team's
  row; every other service decides on what it has read and writes later. Correct:
  one owner, who belongs to the team; no roster beyond its capacity; no link used
  beyond its limit.
* **Sessions.** The tabs of a browser share a storage and nothing else, a refresh
  replaces the tokens they all use, and its answer may come late or never. Correct:
  requests that wait for a refresh are always told how it ended, and none is tried
  again for ever.
* **The client's pages.** Loads, polls and calls overlap, are answered in any order
  or not at all, and act on a page that may have moved on. Correct: nothing waits
  for nothing, nothing is done twice by a click, what is shown is what is asked
  about.
* **Open matches, one-time passwords** (not modelled yet). Places and attempts are
  counted and then written.

`PROJECT.json` lists the components with their status, and under `hazards` each
place in the code where one of these difficulties bites, with the properties
that watch it.

## 2. Modules

| Module | What it is |
|---|---|
| `SoloBooking` | the slots of one pitch and all that writes them outside a team booking |
| `MCSoloBooking` | its symmetry set for TLC |
| `SoloBooking_proofs` | proofs for any number of slots, holds, requests, ticks |
| `PaymentLedger` | abstract: which reference pays for which target |
| `PaymentVerification` | the `PaymentTransaction` rows of one bank and the requests on them |
| `MCPaymentVerification` | two spellings of a receipt and another receipt, for TLC |
| `PaymentVerification_proofs` | proofs, among them that the rows implement the ledger |
| `SharePool` | abstract: who owes a share, and when the pitch may be booked |
| `TeamBooking` | one request of a team, from the question who can play to the booking or its reversal |
| `MCTeamBooking` | its symmetry set for TLC |
| `TeamBooking_proofs` | proofs, among them that the request implements the pool |
| `TeamRoster` | memberships, invitations, a link, join requests, and the team's record |
| `MCTeamRoster` | the constraint that keeps TLC to few kinds of services at a time |
| `TeamRoster_proofs` | proofs for any number of accounts, places and services |
| `ClientSession` | the login of a browser: storage, tabs, interceptors, and the server's rows |
| `ClientSession_proofs` | proofs for any number of tabs, requests, logins and tokens |
| `SignInPages`, `ProfilePage` | login, signup, the code page; the profile |
| `AppShell`, `BookingPopups`, `PaymentPopup` | the questions the shell asks; the popups a player opens; the popup he pays in |
| `PitchBookingPage`, `BookingGridPage` | a player's booking page; the owner's grid |
| `TeamDashboardPage` | the page of a team with its roster tab |
| `ChatThread`, `ChatComposer`, `ChatPanels` | the list of messages; the draft and the recorder; photos, cards, sidebar |
| `PitchWizard`, `AdminPage` | the wizard that enters a pitch; the admin's lists |
| `Client` | the client's pages together: which page moves, and what the pages promise |
| `MCClient` | `Client` on small instances |
| `ClientForms_proofs` | proofs about sign-in, profile, team dashboard, wizard and admin |
| `ClientBooking_proofs` | proofs about the grid, the booking page, the payment popup, the shell and its popups |
| `Client_proofs` | proofs about the chat, and about all pages together |

### Atomicity

Django runs each query in its own transaction (there is no `ATOMIC_REQUESTS`)
and PostgreSQL at READ COMMITTED. The models follow this rule: each `save()` or
`delete()` is an action; a query on which the request decides belongs to an
action before it, with a program counter in between; an atomic block that
locks its rows is one action; an atomic block that does not is a check and a
commit. A request that dies takes no further step, which every behaviour of a
specification without fairness may do, so crashes of requests need no action of
their own. The crash of the sweep has one, because a liveness property depends
on the sweep coming back.

### SoloBooking

State: `status`, `heldUntil`, `manualName` are the columns of `Slot`;
`holdStatus`, `selections`, `expiresAt`, `finalCode` those of
`SoloBookingHold`; `booking[r][s]` is the `Booking` row with the code of
request `r` on slot `s`; `payment` is what the hold sees of its payment;
`pc`, `target`, `todo`, `at`, `seenName` are the local variables of a request;
`sweepPc`, `stale`, `current`, `sweepTodo` those of the sweep. `everVerified`
and `breach` are history.

Actions: `CheckHold`/`CommitHold` are `create_solo_booking_hold`, whose checks
and commit are apart; `LoadPayment`, `AcceptPayment`, `RefusePayment` the answer
to a payment; `StartFinalize`, `BookSlot`, `CreateBooking`, `SaveBooked` the loop
of `finalize_team_slots_as_booked` and the save of the hold; `Reverse` is
`_cancel_solo`; `GroupStart` to `GroupFinish` are `create_booking_group`;
`GridCheck`/`GridWrite`, `GridBulk`, `AlreadyCheck`/`AlreadyWrite` the owner's
grid; `SweepLoad` to `SweepCrash` the Celery sweep.

The code *can* sell a slot twice: several writers do not look at what they
overwrite. The model does not hide this, and the property does not assume it
away: `breach` records the slots that a step has written against somebody's
claim. A buyer is a player with a `Booking` row, or a customer of the owner's
(`OwnerSold`: the slot is BOOKED under a name and has no row), and
`DoubleSaleHasCause` says that a slot with two buyers was written in one of the
seven ways it names: `CommitHold`, `GroupTake`, `GridWrite`, `BookSlot`,
`SweepRelease`, `Reverse`, and `AlreadyWrite`, which enters the owner's list of
booked slots over whatever the slots have become. The list is complete for the
writers of this module; a team's booking writes slots too, and is not composed
with it.

### PaymentVerification

State: `status`, `target`, `ref` of a row; `asked` (there is a request id, so a
poll is possible), `stored` (the answer kept in `verify_response` is a
confirmation), `banned` (the rejection reason says `owner_rejected_verified`).
A request has a copy: `txn`, `wants`, `typed`, `copyStored`, `answer`. `confirmed`
(receipts the bank has confirmed) and `byHand` (rows a person has approved) are
history. `Canonical` maps each spelling of a receipt's number to the bank's own.

Actions: `CheckReference`, `CheckTarget`, `LookUpAnswer`, then `ReplaceAttempts`, or
`FindNoAttempts` and `InsertRow`, then `UseStored` or `MarkProcessing` and
`CallFails`/`CallQueued`/`CallAnswers`/`CallRefused`
are `submit_manual_bank_payment`; `Poll`, `PollAnswers` (and `CallQueued`, `CallAnswers`
for its retry) are `check_pending_payment`; `TurnDown`, `Verify`,
`HandleConflict`, `Sync` are `_apply_verification_result`; `Break`, `Recover`,
`Discard` are the handling of the unexpected; `LoadReview`, `ApproveReview`,
`RejectReview` are `resolve_needs_review`; `OwnerApprove`, `OwnerReject`,
`OwnerReverse` hold a row lock. A save with `update_fields` and a plain save
differ: the former fails on a deleted row and touches its fields only, the
latter writes the whole copy and brings a deleted row back.

A submission first rejects the attempts in flight for its reference and then
inserts its own, in one transaction. Attempts it finds it locks
(`ReplaceAttempts`, one action). Where it finds none it locks nothing
(`FindNoAttempts`), another submission may insert meanwhile, and then the unique
constraint refuses the insert: `InsertRow` is enabled only while it does not,
and a request that is refused ends there. So of two first submissions one fails,
as the comment on the constraint says; but a submission that comes after an
insert rejects what it finds and is not refused, and both requests then ask
verify.et, which the comment denies (section 3).

`PaymentLedger` is what a payer and an owner may rely on: a target is paid by
one reference, a reference pays for one target. `paid` in `PaymentVerification`
is the refinement mapping (the reference of the VERIFIED row of each target),
and `ImplementsLedger` the refinement.

### TeamBooking

State: `status`, `round`, `needsAction`, `finalCode` are columns of
`TeamBookingRequest`; `confirmation` the status of each
`TeamBookingConfirmation`; `share[p][k]` that of the `TeamBookingPayment` of
player `p` in round `k`; `verified` the shares with a VERIFIED
`PaymentTransaction`; `slot`, `booking`, `rivalBooked` the slot, the team's
`Booking` rows and somebody else's; `joined` is who has filled the open match.
The two deadlines are compared with the clock only, so each is a Boolean
(`requestOver`, `paymentOver`) that time turns on and a new hold turns off. What
a request has read is in `call` (a decision of the captain), `pay` (the payment
of a player), `confirming` and `upkeep` (a popup, a view or the sweep, one at a
time).

| Actions | Code in `team_booking/services.py` |
|---|---|
| `LoadConfirm`, `SaveConfirm`, `Decline` | `confirm_booking_request`, `decline_booking_request` |
| `LoadExpired`, `MarkExpired` | the callers of `mark_expired`, among them the first function of the sweep |
| `Load`, `CheckAvailable`, `CheckUnavailable`, `Fail` | the head of each decision and `_check_available_or_mark_unavailable` |
| `Start`, `Drop` | `resolve_confirm_summary` |
| `OpenSlots`, `StartOpen` | `open_slots_for_declined_members`, `cover_remaining_open_slots_and_start_payment` |
| `Remind`, `Cover`, `Recalculate`, `Cancel` | `resolve_payment_timeout` |
| `PayLoad`, `PayCommit` | `pay_for_booking`, one transaction that locks the share |
| `Verify`, `MarkPaid`, `TryFinalize`, `Finalize`, `SaveBooked` | `mark_payment_verified_from_gateway` to `_finalize_booking`, outside a transaction |
| `Reverse` | `_cancel_team` in `payment/rejection.py` |
| `LoadTimedOut` to `SweepCheck` | the other two functions of `team_booking_sweep` |
| `FillMatch`, `LeaveMatch` | `handle_open_slot_match_filled`, and what `match/` does without telling the request |

A decision is atomic in its writes but not in its reads: other transactions
commit between two of its queries. So what it has read is kept in `call`, and a
commit checks again only what the database checks (a unique constraint, a row
that must exist, a lock). Amounts are left out, so covering the missing players
and splitting the price anew are one action when payment starts (`Start`); in
an unpaid round they differ, since the second opens a new round. A request has
one selection. The match is full or counts as empty, and its last join, which
reads and writes the request, is one action.

`SharePool` is what the players may rely on: the captain asks for the money
once; a first share that is settled or dropped is not owed again; the pitch is
booked only when nobody but the captain owes his first share. The captain is
excepted because `resolve_payment_timeout` books with his own share pending.

### TeamRoster

State: `role` and `status` are the columns of `TeamMembership`, `team` the record
with `max_roster_size`, visibility and `version`; `invite` and `request` the latest
direct invitation and join request of each user; `link` the reusable invitation with
its limit, its count and its redemptions; `ops` the services that have read and not
yet written. `Begin` makes the reads and checks of a service (`Allowed`), and one
of `WriteMembership`, `WriteApproval`, `WriteAnswer`, `WriteCut`, `WriteLimit`,
`WriteTeam` is its write, on rows that may have changed. What the code does under a
lock is one action: `Activate` (`activate_membership`, inside `AcceptInvitation`,
`RedeemLink` and `WriteApproval`), `TransferOwnership`, and `WriteLimit`, whose checks in
the view precede its lock. `Savable` is what the database refuses: two owners, or
an owner who is not active. Where the code can have several links, or a second
invitation after the first was answered, the model keeps the latest and does not
replace it while a service works on it (`Replaceable`, `LinkReplaceable`).

A promotion or demotion that read its target before the ownership was transferred
to it writes `admin` or `member` over `owner`, and the team has no owner left,
although the comment in `demote_to_member` says that it is never ownerless "even
for one row" (`team/services/membership_service.py:139-142`).
`OwnershipLostOnlyToStaleWrite` says that this is the only way. The version of the team's
record is compared when the form is validated only (`VersionStillCurrent`), not in the
statement that saves, which `team/models/team.py:215-217` describes.

### ClientSession

State: `row` is the `UserSession` of each login with the number of its current token;
`lapsed` the tokens whose time is over; `stored` the storage of the browser; `refresh`
per tab the call of `performRefresh` (`isRefreshing` is that there is one); `request`
where each request is: subscribed before it is sent or after a 401, leading the
refresh, or sent.

`SendNow` and `SendAfterRefresh` are the request interceptor, `Answered`, `Failed`
and `Unauthorized` the server and the response interceptor, `RefreshLookup` and
`RefreshRotate` the two queries of `refresh_session`, which no lock joins,
`RefreshArrives` and `RefreshFails` the end of `performRefresh` with `onRefreshed`.
`Reload` drops what a tab waits for. Two tabs that refresh with the same token both
rotate the row; the comment in `lib/api.ts:104-107` has the second tab in mind, and the
second tab's rotation makes the first one's tokens useless. The model shows both.

A request that leads a refresh after a 401 is marked (`retried`, `_retry` in the code) and
is sent once more and never again. One that only subscribes is returned before the
mark is set (`lib/api.ts:134-148`), and may meet a 401, subscribe and be sent again as often
as others rotate its token away. So the model claims two things and no more: every wait
for a refresh ends (`EveryWaitEnds`), and a marked request is settled
(`MarkedRequestSettles`). That every request is settled is not claimed: it is false.

### The client's pages

Each page is a module with one record variable for what the page holds, named after
the component's state, and as little of the server as its answers need: a counter of
changes, a set of free hours, the status of a payment. A call is in a set of calls
under way, and its answer is an action of its own that finds whatever the page has
become. Closing a page or a popup drops what the code drops (a `cancelled` flag, an
interval) and nothing else. A failed call is an action too. Texts, layout and styles
are left out.

`Client` puts the pages together as `main.tsx` does: a tab shows one page at a
time, and a page forgets its state when it is left, so a behaviour stays on the page
it begins with (`route`). The shell, its popups and the parts of the chat share no
variable with each other and are entries of their own, which keeps the sum of
their state spaces from becoming the product. `Wizard(MaxPicks)` is the wizard for any
bound on the places picked: the entry `wizard` has it with its draft, `lookups` without,
for more picks. The bounds of the pages are constants of `Client`, and its assumptions say
what they must be: numbers, and an empty value (`None`) that is none of the things it stands
in for. `Client.cfg` gives them the values TLC checks.

Where a page can do something its user would not expect, the property names the
exception and says that it is the only one:

* `PaymentPopup`: the shell renders the popup without a key and may put another payment
  into it, or take it away, at any time (`ChangePayment`, `TakeAway`); `info` is the
  load of how the pitch is paid, `closes` that the popup was given `onPaid` and
  `onClose`, which the shell does not give for a team's share. Two intervals run only if
  a poll was answered after its interval was stopped (`late`) or another payment's form
  opened over a submission or an interval (`reopened`). Two of its spinners stay with
  nothing under way in the popup: after that load has failed, and after a team's share was
  verified, until the shell's poll takes the popup away. `WaitHasCause` names both.
* `PitchBookingPage`: `pendingChoice` is the dialog's spinner with its two disabled
  buttons. `chooseIndividualBooking` does not return its promise, so a failed hold
  leaves them (`holdFailed`, named in `ChoiceHasHold`), although the comment there promises
  that the spinner stops on failure (section 3).
* `ChatThread`: `created_at` is set before the transaction of a post commits. A message
  has its place in `log` from then on and is in `hidden` until its `Commit`; one that
  becomes visible after a newer one was read for the page is `late`, and no poll
  brings it. `GapOnlyBelowOwn` excepts it, what lies right below the player's own
  message, and what lies below a message that the late first page took out (`lost`).
* `ChatComposer`: three ways leave a microphone on: it is granted after the chat was left
  (`leftAsking`), a recording is thrown away in the moment between `stop()` and its event
  (`crossed`), or no recorder can be made or started after it was granted (`failed`,
  `RecorderFails`).
* `AdminPage`: the rows are also written by owners and by admins at other screens
  (`OthersChange`), and the page never asks by itself. The lists are the rows once nothing is
  under way, unless somebody else wrote since the last refresh was sent (`elsewhere`),
  a refresh failed or an answer was lost (`missed`), or two refreshes overlapped.
* `PitchWizard`: a second click while it waits for an address (`doubled`). `AppShell`: a
  question replaced by a poll under a choice (`replaced`).

A password of `SignInPages` may be cleared, or be too short (`Short`), which
is an error of its own.

## 3. Runs

| Run | Instance | Question | Result |
|---|---|---|---|
| `solo_booking` | 1 slot, 2 holds, 2 requests, 2 ticks, a sweep that may crash once | is every double sale, to players or to the owner's customers, caused by a named write, no hold orphaned, no booking unpaid, no booking cancelled with another's payment? | holds, 1.7 million states |
| `solo_items` | 2 slots, 1 hold, 2 requests | is a BOOKED hold booked in full when its loop is interleaved with polls, reversal, grid and sweep? | holds, 1.3 million states |
| `solo_liveness` | 1 slot, 2 holds, 1 request | with a fair sweep, does every hold settle and every held slot come free? | holds |
| `solo_sweep_frees_live_hold` | 1 slot, 2 holds, 1 request | does the sweep free only what its docstring says? | violated |
| `payment_verification` | 2 attempts, 2 targets, 3 references of 2 receipts, 3 requests | do the payments behave like the ledger, with nothing VERIFIED unconfirmed? | holds, 1.5 million states |
| `payment_unverified` | 2 attempts, 2 targets, 2 requests | does a VERIFIED payment stop being VERIFIED only through the owner's reversal? | violated |
| `team_booking` | captain and mate, 1 decision at a time, 2 rounds, 2 things under way | does the request behave like its pool of shares, is a top-up asked only of those who have settled, does what is settled stay settled? | holds, 1.8 million states |
| `team_liveness` | the same, 1 thing under way when another comes in | with a fair sweep, does every question close, and does every unpaid share come to the captain's attention? | holds, 72 thousand states |
| `team_fully_paid` | captain and two players, 2 decisions at a time | is a request with every share paid booked, or about to be? | violated |
| `team_roster` | 3 accounts, a roster of at most 2, 1 edit of the team, 1 service between its reads and its write, 1 family of services beside the memberships | one owner at most, no growth past the capacity, no link beyond its limit, no owner lost but to a stale write? | holds, 646 thousand states |
| `session` | 2 tabs, 2 requests, 1 login, tokens 0 to 2 | does every waiting request have a leader, does every wait end, and is every marked request settled? | holds, 420 thousand states |
| `client` | every page with the bounds in `Client.cfg` | does anything wait for nothing or happen twice, and is what is shown current, but for the exceptions named? | holds, 1.8 million states |

**The three violations** are disagreements between the code and what it says of
itself; `findings` in `PROJECT.json` quotes the lines.

* `release_slots` does not ask whose hold blocks a slot. Player A's hold lapses,
  B takes the slot over (allowed, since `held_until` has passed), then the sweep
  handles A's hold and frees the slot B is about to pay for.
* A review decided on a copy that was loaded before the owner approved saves
  REJECTED over VERIFIED, without the code and without cancelling the booking.
* Two last payments that overlap each see the other as PENDING. Neither
  finalizes; the sweep passes over a request in which nothing is unpaid, so it stays
  PAYMENT_PENDING with everybody's money.

Other disagreements are described here without a run. `_free_booked_slots` looks for
`Booking` rows only, and a booking the owner enters in the grid has none, so reversing a
payment that came after its hold had expired frees a slot given away since. The bank's
spelling of a reference is stored only if the answer carries one; a receipt verified
under the typed spelling can pay again under the other. The check before a captain's
decision does not know whose hold blocks the slot: the second of two decisions finds
the team's own hold and saves UNAVAILABLE. The comment on the unique constraint of
attempts in flight says that of two submissions "the SECOND insert fails immediately with
IntegrityError rather than both requests separately calling verify.et"
(`payment/models.py:231-234`); `submit_manual_bank_payment` rejects the attempt in flight
before it inserts (`payment/services.py:909-926`), so unless the two meet before the first
insert neither fails and both call. The comment in `BookingTeamModal.tsx:171-172` says that
the spinner of a choice stops on "success or failure"; `chooseIndividualBooking` gives it
no promise (`PitchDetail.tsx:504-506`), and after a failed hold it stays. The models have
these behaviours.

**Bounds.** Two holds on one slot are what it takes for one to lapse while the other
is payable; with two requests, two polls can finalize the same hold, a poll can race
an instant booking, or a group its neighbour. Two slots in `solo_items` make the
loops over a selection interruptible; one hold is enough there because conflicts
between holds are the first run's matter. The window is one tick and the clock has
room for a hold to be taken, to lapse, and to be taken over (`MaxNow`, a bound, as
is `MaxSweepCrashes`). For payments two rows suffice for each uniqueness constraint,
three requests for a retry beside a poll and a review of the same row; the
references include two spellings of one receipt, and a second receipt, without which
paying a target twice would look like respelling. For a team, a captain and a mate
tell the share of the captain, who is treated apart, from that of the others; two
rounds are a round and its top-up; `MaxUnderWay` (a bound) is the number of
operations that may overlap, and two let any two of answer, decision, payment and
upkeep do so. One decision at a time is enough in the runs that hold, because each
reads and commits against payments, answers and the sweep; two at a time are in the
runs that fail and in the theorems. For a roster, three accounts are an owner and
two who compete for one place; one service that has read suffices for it to be
overtaken by everything that is done under a lock, and `FewFamilies` (a bound) lets
a behaviour use one of invitations, links, join requests and edits beside the
memberships, since these meet only in the memberships; the theorems need none of
these bounds. For a session, two tabs and two requests are a leader and a
subscriber, in one tab or against the other tab's rotation, and with three token
numbers (`MaxToken`) there is always one nobody has any more, which stands for a new
one: rotations are not bounded, and a leader without the mark would meet a 401,
refresh and be sent again for ever. For a page, two loads or two calls are what it
takes for an older answer to come last, and two items (weeks, places, passwords,
payments) for one to be taken for the other; a grid of two days and one hour has a
selection that grows and shrinks; three messages with pages of one have one that is
listed, one that is skipped and one that is older, and one of two that overlap is
committed late; one change by somebody else is enough for the admin's lists to miss
it. Symmetry is used in safety runs only, over sets of model values that the
specifications treat alike. Deadlock checking is off everywhere: people and the
clock may stop.

**Fairness.** `solo_liveness` and `team_liveness` assume that the clock ticks
and that the sweep, which Celery beat queues every 60 s (`config/settings.py`),
takes its next step (weak fairness). `TeamBooking` has all upkeep in one variable,
so that a view at the wrong moment could keep a function of the sweep waiting;
since the sweep calls its functions one after the other every minute, each gets
its turn (strong fairness of `LoadTimedOut` and of `LoadExpired` past the
deadline). `ClientSession` assumes that a request and a refresh that
were sent are answered or fail in the end, as the browser makes them. The client's
pages assume nothing: their spinners are shown to have a cause, not to end.
Neither a player, nor a bank, nor an owner or captain is obliged to act.
The properties of `solo_liveness` hold although the sweep may die once between
any two of its steps; they would not if it died for ever. Those of `team_liveness`
also hold with `MaxUnderWay = 2`, which takes TLC five minutes.

**Mutants.** For every property of a passing run `PROJECT.json` names a
definition and a mutated form of it beside it in the module (its comment starts
with "Mutant"): the kind of slip the property is there to catch. The mutated
forms are used nowhere else.

## 4. Proofs

`SoloBooking_proofs` proves, from `ConstantsAssumption` alone and for all
values of the constants:
`TypeCorrect`, `PaidBeforeBooked`, `BookedIsComplete`, `CancelledByOwner`,
`NoOrphanedHold`, `SoldIsBooked`, `OnlyBreachesDoubleSell`, one for each safety
property of the passing runs. The invariants are not inductive alone.
`Lifecycle` ties a request's program counter to its other variables (a request
in the loop of finalization pays for a hold that was once verified, and what
it still has to do is part of the hold's selection). `Finalized` says what a
request in that loop has booked, and that a code saved in a hold belongs to a
request that has ended. `HeldBy` says there is an assignment of blocked slots to
pending holds such that nobody who has dealt with the slot settles the hold that
is assigned to it: this is why two holds with the same deadline do
not lose a slot to the sweep of one of them. `AllClaims` says, of each slot not
written against a claim, who may sell it, and `NameIsOwners` that no player has a claim to
a slot that the owner has sold.

`PaymentVerification_proofs` classifies each action first: as far as `status`,
`target` and `ref` go a step does nothing, turns a row away from VERIFIED or
between other statuses, makes or keeps a row VERIFIED under a spelling of its
reference, or creates a row (`EveryStepIsRowStep`). For this a request's copy must agree with
its row on the target and on the receipt (`RunsInStep`), and rows must be filled
in (`RowsFilled`). The three kinds of step, not the actions one by one, are then shown to
preserve `PaidOnce`, and to be steps of the ledger or invisible to it. Theorems:
`TypeCorrect`, `PaymentsImplementLedger`, `ReferencePaysOnce`, `ConfirmedBeforeVerified`
(its invariant `Attested` follows each confirmation from the bank's answer through
stored answers and copies).

`TeamBooking_proofs` shows first how shares move: a step either opens payment,
when nobody has a share, or lets shares go forward, PENDING to settled or
EXCLUDED, none to PENDING only for a player who has settled the rounds before
(`EveryStepMovesShares`). It needs to know that shares are in order
(`Orderly`), and that what decisions and payments have read is not contradicted by
shares that go forward only (`Ready`): whoever was read as paid has settled, whoever
still owes a first share is among those a cover has read, a payment that was the
last still is. From it follow `TopUpsInOrder`, `SettledForGood` and, with the fact
that a code that is kept has a booking (`Coded`), `TeamImplementsSharePool`,
all for any number of players, of simultaneous decisions and of rounds, and
`TypeCorrect`.

`TeamRoster_proofs` needs only that the types hold and that the owner's row can be
saved (`Savable`): the capacity is compared under the lock in each of the three steps
that make a member active, the limit of a link in the steps that use it and change it.
Theorems: `RosterTypeCorrect`, `OwnerIsOne`, `OwnershipLostToStaleWrite`,
`GrowsWithinCapacity`, `LinkWithinLimit`.

`ClientSession_proofs` restates `WaiterHasLeader` request by request (`Led`), which is
inductive with the types and with what a refresh knows (`RefreshOK`: a refresh that
has found its row still has one, because rows are never deleted, and one that has won
has a token). Its lemmas follow the three ways the pair of refresh and requests changes: a
tab drops both (`LeavePageLed`), a request leads a refresh (`LeadingLed`), or one
request changes that leads none (`OneRequestLed`). Theorems: `SessionTypeCorrect`,
`NobodyWaitsAlone`.

**The client's pages.** Each page has an invariant of its own (`SignInInv` to
`PanelsInv`), shown for its initial states and kept by each of its actions. Since only
the page shown moves (`FormsSteps`, `BookingSteps`, `ChatSteps`), every invariant is one of
`Client!Spec` whatever page the tab shows, and the theorems combine them. They assume
nothing but the assumptions of `Client` on its constants: any number of fields, slots,
hours, requests, payments, loads and calls. What the invariants add to the
properties:

* `SignInInv`: a mounted call is one the page shown can make (`CallsOfThePage`), so
  a login answered late cannot end the wait of the code page.
* `TeamPageInv`: a load that asks for the lists has shown the team, and a panel that
  waits has a mounted call of its own kind (`DashboardSound`).
* `GridInv`: a price timer is one of the popup that is open and rings with that popup's
  number of cells, nothing is dragged below a popup that books (`PopupSound`), and no day
  is missing in a range that is shown or loaded (`Whole`), which makes its cells defined.
* `PitchInv`: what is selected is of the mode and shown, and nothing is while the page
  loads (`PitchSound`); where the dialog asks, hours are selected, so an option that is chosen
  does start a hold (`ChoiceSound`).
* `PayInv`: until an answer comes late or a form opens over what is under way, the popup is
  in one thing at a time, one submission or one interval, that of `pollTimer`
  (`InOneThing`); the wait itself has its cause or one of the two excuses (`HasCause`).
* `ShellInv`: the flags are those of the calls under way (`FlagsOK`), and what is chosen
  is chosen in a popup that is shown (`ChoiceOK`).
* `PopupsInv`: which popups may be open beside which, and which calls each has (`PopupsOK`).
* `ThreadInv`: `GapOnlyBelowOwn` speaks of the least known message above a missing one,
  and is not inductive. `Chained` says it link by link: below a listed message is another
  that the page knows of (`Known`: listed, posted from this page, or taken out by the late
  first page), unless the older messages begin there. It speaks of the messages that
  did not become visible late (`Firm`), and is inductive with two facts about the loads under
  way: what was read for them leaves out no firm message of its stretch (`AnswersWhole`),
  which a commit that comes after the read cannot spoil since it makes its message late; and
  what they will join the list to, the anchor of a poll or the first message of the list, is
  still known when they arrive (`LoadsJoin`). `DedupeIs` says what `dedupeMessages` returns:
  for this `Dedupe` takes the messages that stay by their rank (`Nth`) rather than with the
  recursive `SelectSeq`.
* `ComposerInv`: until one of the three exceptions there is at most one stream, the one that
  is held, and the recorder asks for none while it records (`VoiceSound`).
* `PanelsInv`: a photo has been posted more often than it failed only if this time it was
  posted (`PhotoOK`); a card and a popup, also on their way, are of a stage the booking has
  come to (`CardsDue`).
* `WizardInv`: without a second click while the first waits, one submission waits, is
  under way or loads the list, and the button knows of the latter two (`OneSubmission`).
  `LookupsInv`: what was typed before the newest place was picked counts as typed
  (`TypedBefore`).
* `AdminInv`: refreshes that have not overlapped are one, and whatever the lists show or
  will show is current unless an answer that says the rows have changed is still on its
  way or somebody else has changed them (`NewsIsOnItsWay`).

Theorems: `FieldErrorsAreCurrent`, `AddressFollowsPlace`, `AdminListsAreCurrent`,
`PriceIsOfTheSlots`, `SelectionStaysBookable`, `ChoiceWasOffered`, `ThreadStaysWhole`,
`MicrophoneIsReleased`, `OpenedViewIsDue`, `NobodyWaitsForNothing`,
`EverythingIsDoneOnce`, and `PagesTypeCorrect`.

Only model-checked: the six liveness properties (TLAPS does not reach liveness
under fairness) and the three counterexamples, for which there is nothing to prove. Every
safety and action property of the passing runs is a theorem. All inductive invariants
were also checked by TLC on the instances above.

## 5. What is not modelled, and the plan

Abstracted in the modules there are: prices, notes, notifications, the spelling
of codes (taken to be distinct), the checks on a bank's answer (receiver, time,
amount, sender: any outcome is possible), OCR. `SoloBooking` has one row per cell
of the grid; the code has no unique constraint that guarantees this.
`PaymentStatus.EXPIRED` is a status no code sets. Of the roster, deleting a team,
jersey numbers and the search for users are left out; of the sessions, devices and the
list of them. On the server, the creation of pitches, statistics, notifications and
the storage of messages are outside: no decision reads them back.

A payment of a plain `Booking` is routed (`payment/urls.py:55`) and left out: its target
is neither a hold nor a share, and the client does not submit one.

Of the client, discovery, landing, matches and tournaments are lists that are read and
shown, and the owner's statistics are numbers. Several files no route reaches: `App.tsx`
at the root of `src/`, `pages/App_old.tsx`, `PitchWizardModal_old.tsx`, `api_old.ts`, `Admin_old.tsx`,
`PitchDetail_old.tsx`, `Tournaments.tsx`, `CreateMatch.tsx`, `MatchDetail.tsx`, `TeamMembers.tsx`
and the like. Some behaviours of the client are in the models and in no property,
because nothing says what should happen: a booking that was made but whose reload fails is
reported as "Booking failed." (`PitchDetail.tsx:437-451`); a drag on the grid means other
days when the window is reloaded under it; a deleted message is shown again by the late
answer to its edit (`chatPage.tsx:904-911`); an empty thread is never polled; an admin's
"Decline" calls a route the server does not have (`lib/pitches.ts:152`).

Of `team_booking/`, two things are in the model and in no property: the captain's
cover books while his own share is pending, and overlapping repairs of the same
last payment may each create a `Booking`, under two codes, for the same slot and
team.

Next, in this order:

1. `OpenMatch` and its link to a team's open places: capacity, joining two
   matches at once, a match shrunk while it fills, a match cancelled that was
   final. Its last join takes two actions there, which `FillMatch` joins.
2. One-time passwords: attempts, locks, single use; the code that a reversal needs is
   bound to an owner and not to a payment.
3. Bank accounts: the active account that a submitted payment is checked against.
4. Payments and bookings composed: a VERIFIED payment is backed by a booking, or by
   a reversal, which the modules cannot say apart; the rows of the grid, which no
   unique constraint keeps single.
5. Pure algorithms: the split of a bulk price over slots, the recalculation of
   shares with rounding, the comparison of names.

Proofs come with each module; the runs of small modules will share an MC module
where their questions allow it, and `solo_items` may become part of `solo_liveness`.
