--------------------------------- MODULE Client ---------------------------------
(***************************************************************************)
(* The pages of the web client (main.tsx), checked together: a tab shows   *)
(* one page at a time and a page forgets its state when it is left, so a   *)
(* behaviour stays on the page it has begun with.  What is mounted around  *)
(* every page, the shell and its popups, shares nothing with them and has  *)
(* entries of its own, and so have the parts of the chat that share only   *)
(* the team that is open.                                                  *)
(***************************************************************************)
EXTENDS Integers

CONSTANTS
    None,                                     \* nothing there: the empty value of every page
    Slug, TeamChanges, TeamLoads, TeamCalls,  \* of TeamDashboardPage
    TextField, Secret, Short, CodeLength, MaxWait,   \* of SignInPages
    EditForm, UserChanges, UserCalls,         \* of ProfilePage
    Hours, WindowDays, PageStep, Picked,
    PagesBack, GridLoads, GridChanges,        \* of BookingGridPage
    Cell, Weeks, MaxBookings,                 \* of PitchBookingPage
    MaxScans, MaxTxns, MaxPolls,              \* of PaymentPopup
    Request, MaxAnswers, ShellChanges,        \* of AppShell
    MaxUnread,                                \* of BookingPopups
    MaxMessages, PageSize,                    \* of ChatThread
    MaxFailures,                              \* of ChatPanels
    WizardPicks, LookupPicks,                 \* of PitchWizard, the second without its draft
    AdminLoads, AdminCalls, AdminChanges      \* of AdminPage

VARIABLES
    route,                                    \* the page that is shown
    teams, dashboard,                         \* /teams/:slug
    loggedIn, account,                        \* /login, /signup, /verify-otp
    user, session, profile,                   \* /profile
    slot, changes, grid,                      \* /app/owner/pitches/:pitchId
    free, isManager, ownsTeam, pitchPage,     \* /app/pitches/:pitchId
    txnStatus, payPopup,                      \* the popup in which a player pays
    due, dueChanges, shell,                   \* AppShell: the questions it asks
    popups,                                   \* AppShell: what the player opens
    log, chat,                                \* /chat: the messages
    message, composer, voice,                 \* /chat: the composer
    booking, photo, cards, bubble, sidebar,   \* /chat: the rest
    draft, wizard,                            \* /owner: a pitch is entered
    registry, admin                           \* /admin

TeamPage  == INSTANCE TeamDashboardPage WITH MaxChange <- TeamChanges, MaxLoads <- TeamLoads,
                                             MaxCalls <- TeamCalls, NoTeam <- None, NoForm <- None
SignIn    == INSTANCE SignInPages WITH Empty <- None
Profile   == INSTANCE ProfilePage WITH MaxSave <- UserChanges, MaxPending <- UserCalls, NoUser <- None
Grid      == INSTANCE BookingGridPage WITH MaxLoads <- GridLoads, MaxChanges <- GridChanges
Pitch     == INSTANCE PitchBookingPage
Pay       == INSTANCE PaymentPopup
Shell     == INSTANCE AppShell WITH MaxChanges <- ShellChanges
Opened    == INSTANCE BookingPopups
Thread    == INSTANCE ChatThread
Write     == INSTANCE ChatComposer
Panels    == INSTANCE ChatPanels
Wizard(MaxPicks) == INSTANCE PitchWizard
Admin     == INSTANCE AdminPage WITH MaxLoads <- AdminLoads, MaxCalls <- AdminCalls,
                                     MaxChanges <- AdminChanges

\* The bounds are numbers, and what stands for nothing is not one of the things.
ASSUME TeamPageAssumption ==
    TeamChanges \in Nat /\ TeamLoads \in Nat \ {0} /\ None \notin TeamPage!Snapshot
ASSUME SignInAssumption == CodeLength \in Nat /\ MaxWait \in Nat
ASSUME ProfileAssumption ==
    /\ UserChanges \in Nat
    /\ EditForm \intersect {"me", "photo", "requestPhone", "confirmPhone", "logout"} = {}
ASSUME GridAssumption ==
    /\ Hours \in Nat /\ WindowDays \in Nat \ {0} /\ PageStep \in Nat /\ PagesBack \in Nat
    /\ Picked \subseteq Int /\ \A d, e \in Picked : d..e \subseteq Grid!Day
    /\ GridLoads \in Nat \ {0} /\ GridChanges \in Nat
    /\ None \notin Grid!Popup
ASSUME PitchAssumption == Weeks \in Nat \ {0} /\ MaxBookings \in Nat
ASSUME PayAssumption ==
    MaxScans \in Nat /\ MaxTxns \in Nat /\ MaxPolls \in Nat
ASSUME ShellAssumption == ShellChanges \in Nat
ASSUME PopupsAssumption ==
    MaxUnread \in Nat /\ None \notin Opened!View \union {"shown", "error", "accept", "decline"}
ASSUME ThreadAssumption == MaxMessages \in Nat /\ PageSize \in Nat \ {0}
ASSUME ComposerAssumption == None \notin Write!Sending \union Write!Deletion
ASSUME PanelsAssumption ==
    MaxFailures \in Nat /\ None \notin {"image", "caption"} \union Panels!Stage \union Panels!View
ASSUME WizardAssumption == WizardPicks \in Nat /\ LookupPicks \in Nat
ASSUME AdminAssumption ==
    /\ AdminLoads \in Nat /\ AdminCalls \in Nat /\ AdminChanges \in Nat
    /\ None \notin Admin!Load

Route == {"team", "signIn", "profile", "grid", "pitch", "pay", "shell", "popups", "thread",
          "composer", "panels", "cards", "photo", "wizard", "lookups", "admin"}

\* A page that is not shown stays in one of its initial states.
Parked ==
    /\ route # "team" => \A s \in Slug : teams[s].role = "owner"
    /\ route # "pitch" => ~isManager /\ ~ownsTeam
    /\ route # "pay" => payPopup.closes
    /\ route # "thread" => log.sent = 0
    /\ route # "panels" => (sidebar.open <=> route \in {"cards", "photo"})
    /\ route # "wizard" => wizard.mode = "create"
    /\ registry = [owner |-> "pending", pitch |-> "pending"]

Init ==
    /\ route \in Route
    /\ TeamPage!Init /\ SignIn!AccountInit /\ Profile!ProfileInit /\ Grid!GridInit
    /\ Pitch!PitchInit /\ Pay!PayInit /\ Shell!ShellInit /\ Opened!PopupsInit
    /\ Thread!ChatInit /\ Write!ComposerInit /\ Panels!PanelsInit /\ Admin!AdminInit
    /\ IF route = "lookups" THEN Wizard(LookupPicks)!WizardInit ELSE Wizard(WizardPicks)!WizardInit
    /\ Parked

teamVars    == <<teams, dashboard>>
signInVars  == <<loggedIn, account>>
profileVars == <<user, session, profile>>
gridVars    == <<slot, changes, grid>>
pitchVars   == <<free, isManager, ownsTeam, pitchPage>>
payVars     == <<txnStatus, payPopup>>
shellVars   == <<due, dueChanges, shell>>
threadVars  == <<log, chat>>
writeVars   == <<message, composer, voice>>
panelVars   == <<booking, photo, cards, bubble, sidebar>>
wizardVars  == <<draft, wizard>>
adminVars   == <<registry, admin>>

\* Only the page that is shown moves.
Shows(r) ==
    /\ route = r /\ UNCHANGED route
    /\ r # "team" => UNCHANGED teamVars
    /\ r # "signIn" => UNCHANGED signInVars
    /\ r # "profile" => UNCHANGED profileVars
    /\ r # "grid" => UNCHANGED gridVars
    /\ r # "pitch" => UNCHANGED pitchVars
    /\ r # "pay" => UNCHANGED payVars
    /\ r # "shell" => UNCHANGED shellVars
    /\ r # "popups" => UNCHANGED popups
    /\ r # "thread" => UNCHANGED threadVars
    /\ r # "composer" => UNCHANGED writeVars
    /\ r \notin {"panels", "cards", "photo"} => UNCHANGED panelVars
    /\ r \notin {"wizard", "lookups"} => UNCHANGED wizardVars
    /\ r # "admin" => UNCHANGED adminVars

Next ==
    \/ Shows("team") /\ TeamPage!Next
    \/ Shows("signIn") /\ SignIn!AccountNext
    \/ Shows("profile") /\ Profile!ProfileNext
    \/ Shows("grid") /\ Grid!GridNext
    \/ Shows("pitch") /\ Pitch!PitchNext
    \/ Shows("pay") /\ Pay!PayNext
    \/ Shows("shell") /\ Shell!ShellNext
    \/ Shows("popups") /\ Opened!PopupsNext
    \/ Shows("thread") /\ Thread!ChatNext
    \/ Shows("composer") /\ Write!ComposerNext
    \/ Shows("panels") /\ (Panels!BubbleNext \/ Panels!SidebarNext)
    \/ Shows("cards") /\ Panels!CardsNext
    \/ Shows("photo") /\ Panels!PhotoNext
    \/ Shows("wizard") /\ Wizard(WizardPicks)!WizardNext
    \/ Shows("lookups") /\ Wizard(LookupPicks)!VisitNext
    \/ Shows("admin") /\ Admin!AdminNext

vars == <<route, teamVars, signInVars, profileVars, gridVars, pitchVars, payVars, shellVars, popups,
          threadVars, writeVars, panelVars, wizardVars, adminVars>>

Spec == Init /\ [][Next]_vars

-----------------------------------------------------------------------------
(* What the pages promise; each part is explained in the page's module. *)

\* Every page keeps to the states its module describes.
PagesTypeOK ==
    /\ route \in Route
    /\ route = "team" => TeamPage!TypeOK
    /\ route = "signIn" => SignIn!AccountTypeOK
    /\ route = "profile" => Profile!ProfileTypeOK
    /\ route = "grid" => Grid!GridTypeOK
    /\ route = "pitch" => Pitch!PitchTypeOK
    /\ route = "pay" => Pay!PayTypeOK
    /\ route = "shell" => Shell!ShellTypeOK
    /\ route = "popups" => Opened!PopupsTypeOK
    /\ route = "thread" => Thread!ChatTypeOK
    /\ route = "composer" => Write!ComposerTypeOK
    /\ route \in {"panels", "cards", "photo"} => Panels!PanelsTypeOK
    /\ route = "wizard" => Wizard(WizardPicks)!WizardTypeOK
    /\ route = "lookups" => Wizard(LookupPicks)!WizardTypeOK
    /\ route = "admin" => Admin!AdminTypeOK

\* The skeletons, spinners and disabled forms of these page parts stand for a
\* load, a call or a timer that is under way, however the answers overlap, fail,
\* or come to a part that was closed and opened again.
\* Three spinners outlive what they stood for, and their parts name them: the
\* payment popup's when it could not load how the pitch is paid, the same popup's
\* when a team's share is verified and the shell has not asked again, and that of
\* "Individual" when the hold failed.
NothingWaitsForNothing ==
    /\ TeamPage!SkeletonHasLoad /\ TeamPage!SpinnerHasCall
    /\ SignIn!DisabledFormHasCall
    /\ Profile!BusyHasCall
    /\ Grid!ShimmerHasCause
    /\ Pitch!TeamBookingHasCall /\ Pitch!ChoiceHasHold
    /\ Pay!WaitHasCause
    /\ Opened!PopupWaitsForCall
    /\ Thread!SendingHasCall /\ Write!SendingHasCall
    /\ Admin!SpinnerIsRefresh

\* Nothing is done twice at a time by clicking twice or waiting badly: a code is
\* verified once, one payment is asked about, an owner decides once, a photo and
\* a pitch are sent once, with the exceptions the pages' properties name.
NothingIsDoneTwice ==
    /\ SignIn!OneVerification
    /\ Pay!OneIntervalUnlessLate
    /\ Shell!OneDecisionUnderWay
    /\ Panels!PhotoPostedAgainAfterFailure
    /\ route = "wizard" => Wizard(WizardPicks)!OneSubmissionUnlessWaiting

\* The errors below the fields are those of what the fields hold (SignInPages).
ErrorsAreCurrent == SignIn!ErrorsAreCurrent

\* The price an owner is shown is that of the cells he books (BookingGridPage).
ProposedPriceIsOfTheSlots == Grid!ProposedPriceIsOfTheSlots

\* The hours a player has selected are hours of the mode he pays for, and shown
\* as free, after every reload and change of mode (PitchBookingPage).
SelectionIsBookable == Pitch!SelectionIsOfTheMode /\ Pitch!SelectionIsShownFree

\* An owner's choice is one of those before him unless a poll has replaced the
\* question (AppShell).
ChoiceIsOffered == Shell!ChoiceIsOffered

\* A message is listed once, and none is missing that no later load brings,
\* except below the player's own and where one became visible late (ChatThread).
ThreadIsWhole == Thread!ListedOnce /\ Thread!GapOnlyBelowOwn

\* The microphone is off when the recorder is gone, with three exceptions (ChatComposer).
MicrophoneIsHeld == Write!MicrophoneIsHeld

\* A popup that was opened from an old card is one the booking has come to (ChatPanels).
ViewIsDue == Panels!ViewIsDue

\* The address of a new pitch is that of its place, with the exceptions a slow or
\* failed lookup makes (PitchWizard).
AddressIsOfThePlace == route = "lookups" => Wizard(LookupPicks)!AddressIsOfThePlace

\* The admin's lists are the rows once nothing is under way, unless somebody else
\* has changed them since, refreshes overlapped or an answer was lost (AdminPage).
IdleListsAreCurrent == Admin!IdleListsAreCurrent

=============================================================================
