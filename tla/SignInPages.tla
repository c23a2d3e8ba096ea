------------------------------ MODULE SignInPages ------------------------------
(***************************************************************************)
(* The ways into an account: Login.tsx, Signup.tsx and OtpVerify.tsx.  The *)
(* forms check each field when it is left, and again at every keystroke    *)
(* once it was left; the code page submits by itself when its last box is  *)
(* filled, and asks for a new code after a countdown.  Whoever is logged   *)
(* in is kept in the storage of the browser (ClientSession has its         *)
(* tokens).                                                                *)
(***************************************************************************)
EXTENDS Integers, FiniteSets

CONSTANTS
    TextField,    \* fields checked on their own: names, phone, email, username
    Secret,       \* passwords a person types
    Short,        \* those of them that are too short
    CodeLength,   \* CODE_LENGTH: boxes of the code
    MaxWait,      \* bound: seconds of the resend countdown
    Empty         \* nothing typed

VARIABLES
    loggedIn,     \* localStorage holds a session
    account       \* the page that is shown

accountVars == <<loggedIn, account>>

Field == TextField \union {"password", "confirm"}
Route == {"login", "signup", "otp", "home"}
SignInKind == {"login", "register", "verify", "resend"}
Call == [kind : SignInKind, mounted : BOOLEAN]

Account ==
    [route     : Route,
     valid     : [TextField -> BOOLEAN],     \* what is typed passes its check
     password  : Secret \union {Empty},
     confirm   : Secret \union {Empty},
     touched   : SUBSET Field,
     faults    : SUBSET Field,               \* fields with an error below them
     loading   : BOOLEAN,                    \* the form or the code is on its way
     boxes     : 0..CodeLength,              \* boxes filled
     submitted : BOOLEAN,                    \* autoSubmittedRef
     wait      : 0..MaxWait,                 \* secondsLeft
     resending : BOOLEAN,
     calls     : SUBSET Call]

AccountTypeOK == loggedIn \in BOOLEAN /\ account \in Account

Fresh(r, calls) ==
    [route |-> r, valid |-> [f \in TextField |-> FALSE], password |-> Empty, confirm |-> Empty,
     touched |-> {}, faults |-> {}, loading |-> FALSE, boxes |-> 0, submitted |-> FALSE,
     wait |-> IF r = "otp" THEN MaxWait ELSE 0, resending |-> FALSE,
     calls |-> {[c EXCEPT !.mounted = FALSE] : c \in calls}]

AccountInit == loggedIn = FALSE /\ account = Fresh("login", {})

\* A request leaves the page; one of a kind is under way at most.
Sent(page, k) == [page EXCEPT !.calls = @ \union {[kind |-> k, mounted |-> TRUE]}]
Quiet(k) == \A c \in account.calls : c.kind # k

\* The links of the pages, disabled while a form of theirs is sent; the one on
\* the code page never is. The new page starts from nothing, answers still come
\* to the old one.
Follow(r) ==
    /\ r # account.route /\ r \in {"login", "signup"}
    /\ account.route \in {"login", "signup"} => ~account.loading
    /\ account.route = "otp" => r = "signup"
    /\ account' = Fresh(r, account.calls)
    /\ UNCHANGED loggedIn

-----------------------------------------------------------------------------
(* The forms of Login and Signup. *)

\* Fields are disabled while the form is sent.
LoginOpen == account.route = "login" /\ ~account.loading
TextsOpen == account.route = "signup" /\ ~account.loading
SecretsOpen == account.route = "signup" /\ ~account.loading

\* The validators: a text field on its own, the two passwords together.
Faulty(page, f) ==
    CASE f = "password" -> page.password \in Short \union {Empty}
      [] f = "confirm"  -> page.confirm = Empty \/ page.confirm # page.password
      [] OTHER          -> ~page.valid[f]

Recheck(page, fields) ==
    [page EXCEPT !.faults = (@ \ fields) \union {f \in fields : Faulty(page, f)}]

\* handle...Change of a text field: an error is only kept current once the field
\* was left.
TypeText(f) ==
    /\ LoginOpen \/ TextsOpen
    /\ \E v \in BOOLEAN :
         LET page == [account EXCEPT !.valid[f] = v]
         IN  account' = Recheck(page, page.touched \intersect {f})
    /\ UNCHANGED loggedIn

\* Mutant: the confirmation is not checked again when the password changes.
TypePasswordOnly(v) ==
    /\ SecretsOpen
    /\ LET page == [account EXCEPT !.password = v]
       IN  account' = Recheck(page, page.touched \intersect {"password"})
    /\ UNCHANGED loggedIn

\* handlePasswordChange: the password typed, or cleared, can turn the confirmation
\* wrong, or right.
TypePassword(v) ==
    /\ SecretsOpen
    /\ LET page == [account EXCEPT !.password = v]
       IN  account' = Recheck(page, page.touched \intersect {"password", "confirm"})
    /\ UNCHANGED loggedIn

TypeConfirm(v) ==
    /\ SecretsOpen
    /\ LET page == [account EXCEPT !.confirm = v]
       IN  account' = Recheck(page, page.touched \intersect {"confirm"})
    /\ UNCHANGED loggedIn

\* handle...Blur: the field is left, and checked. Login has only the phone.
LeaveField(f) ==
    /\ (LoginOpen /\ f \in TextField) \/ TextsOpen
    /\ account' = Recheck([account EXCEPT !.touched = @ \union {f}], {f})
    /\ UNCHANGED loggedIn

\* onSubmit of Login: the phone is checked, the password is the server's matter.
SubmitLogin ==
    LET page == Recheck([account EXCEPT !.touched = @ \union TextField], TextField) IN
    /\ LoginOpen /\ Quiet("login")
    /\ account' = IF page.faults = {} THEN Sent([page EXCEPT !.loading = TRUE], "login") ELSE page
    /\ UNCHANGED loggedIn

\* onSubmit of Signup: every field is touched and checked.
SubmitSignup ==
    LET page == Recheck([account EXCEPT !.touched = Field], Field) IN
    /\ SecretsOpen /\ Quiet("register")
    /\ account' = IF page.faults = {} THEN Sent([page EXCEPT !.loading = TRUE], "register") ELSE page
    /\ UNCHANGED loggedIn

-----------------------------------------------------------------------------
(* The code page. *)

CodeOpen == account.route = "otp" /\ ~account.loading

\* Boxes are filled or emptied, one by one or all at once by a paste or the
\* keyboard's autofill. The effect on the code submits a full one by itself.
FillBoxes(n) ==
    LET full == n = CodeLength IN
    /\ CodeOpen /\ n # account.boxes
    /\ full => Quiet("verify")
    /\ account' = IF full /\ ~account.submitted
                  THEN Sent([account EXCEPT !.boxes = n, !.submitted = TRUE, !.loading = TRUE], "verify")
                  ELSE [account EXCEPT !.boxes = n, !.submitted = @ /\ full]
    /\ UNCHANGED loggedIn

\* Mutant: the countdown runs on past zero.
CountdownPastZero ==
    /\ account.route = "otp"
    /\ account' = [account EXCEPT !.wait = @ - 1]
    /\ UNCHANGED loggedIn

Countdown ==
    /\ account.route = "otp" /\ account.wait > 0
    /\ account' = [account EXCEPT !.wait = @ - 1]
    /\ UNCHANGED loggedIn

\* handleResend: also possible while a code is verified.
Resend ==
    /\ account.route = "otp" /\ account.wait = 0 /\ ~account.resending /\ Quiet("resend")
    /\ account' = Sent([account EXCEPT !.resending = TRUE], "resend")
    /\ UNCHANGED loggedIn

-----------------------------------------------------------------------------
(* The answers; a state setter of a page that is gone does nothing, its        *)
(* navigation still happens.                                                   *)

Answered(k) == [account EXCEPT !.calls = {c \in @ : c.kind # k}]
Mounted(k) == \E c \in account.calls : c.kind = k /\ c.mounted
InFlight(k) == \E c \in account.calls : c.kind = k

\* login and verifySignupOtp save the session and show the role's first page;
\* registering goes on to the code.
MovesOn(k) ==
    /\ InFlight(k) /\ k # "resend"
    /\ loggedIn' = (loggedIn \/ k # "register")
    /\ account' = Fresh(IF k = "register" THEN "otp" ELSE "home", Answered(k).calls)

\* The same calls refused or lost: the form is open again, the code is emptied.
Stays(k) ==
    /\ InFlight(k) /\ k # "resend"
    /\ account' = IF ~Mounted(k) THEN Answered(k)
                  ELSE [Answered(k) EXCEPT !.loading = FALSE, !.boxes = 0, !.submitted = FALSE]
    /\ UNCHANGED loggedIn

\* A new code was sent: the boxes are emptied and the countdown starts again; or
\* it was refused, perhaps until a time the server names (blocked_until).
ResendAnswered(ok, blocked) ==
    /\ InFlight("resend")
    /\ account' = CASE ~Mounted("resend") -> Answered("resend")
                    [] Mounted("resend") /\ ok ->
                         [Answered("resend") EXCEPT !.resending = FALSE, !.wait = MaxWait,
                            !.boxes = 0, !.submitted = FALSE]
                    [] Mounted("resend") /\ ~ok ->
                         [Answered("resend") EXCEPT !.resending = FALSE, !.wait = blocked]
    /\ UNCHANGED loggedIn

-----------------------------------------------------------------------------
AccountAnswer(k) ==
    \/ MovesOn(k) \/ Stays(k)
    \/ k = "resend" /\ \E ok \in BOOLEAN, w \in 0..MaxWait : ResendAnswered(ok, w)

AccountNext ==
    \/ \E r \in Route : Follow(r)
    \/ \E f \in TextField : TypeText(f)
    \/ \E f \in Field : LeaveField(f)
    \/ \E v \in Secret \union {Empty} : TypePassword(v) \/ TypeConfirm(v)
    \/ SubmitLogin \/ SubmitSignup
    \/ \E n \in 0..CodeLength : FillBoxes(n)
    \/ Countdown \/ Resend
    \/ \E k \in SignInKind : AccountAnswer(k)

AccountSpec == AccountInit /\ [][AccountNext]_accountVars

-----------------------------------------------------------------------------
(* What the pages promise. *)

\* An error below a field is about what the field holds now, and a field that
\* was left has its error whenever it is wrong, the confirmation included when
\* the password changes behind it (Signup.tsx:283-295).
ErrorsAreCurrent ==
    \A f \in Field : f \in account.touched => (f \in account.faults <=> Faulty(account, f))

\* The page never verifies a code while it still waits for another one, although
\* it submits by itself and a resend empties the boxes at any time
\* (OtpVerify.tsx:86-95, 203-209).
OneVerification ==
    account.route = "otp" => (account.loading <=> Mounted("verify"))

\* A form that is disabled waits for a call of the page that is shown, whatever
\* calls of the pages before it are still answered.
DisabledFormHasCall == account.loading => \E c \in account.calls : c.mounted /\ c.kind # "resend"

=============================================================================
