--------------------------- MODULE ClientForms_proofs ---------------------------
(***************************************************************************)
(* What the client's pages of forms and lists promise for every number of  *)
(* fields, calls, loads and picks: the sign-in pages, the profile, a       *)
(* team's dashboard, the owner's wizard and the admin page of Client.tla.  *)
(* Each page has an invariant of its own that its initial states satisfy   *)
(* and its actions keep; as only the page that is shown moves, all of them *)
(* hold together, and the theorems at the end follow.                      *)
(***************************************************************************)
EXTENDS Client, FiniteSetTheorems, TLAPS

(***************************************************************************)
(* The sign-in pages (SignInPages).                                        *)
(***************************************************************************)

\* The calls of a page that is shown are those its form can make.
MayCall(r, k) ==
    \/ r = "login" /\ k = "login"
    \/ r = "signup" /\ k = "register"
    \/ r = "otp" /\ k \in {"verify", "resend"}

CallsOfThePage == \A c \in account.calls : c.mounted => MayCall(account.route, c.kind)

SignInInv ==
    /\ SignIn!AccountTypeOK /\ CallsOfThePage
    /\ SignIn!ErrorsAreCurrent /\ SignIn!OneVerification /\ SignIn!DisabledFormHasCall

LEMMA FreshPage ==
    ASSUME NEW r \in SignIn!Route, NEW calls \in SUBSET SignIn!Call
    PROVE  /\ SignIn!Fresh(r, calls) \in SignIn!Account /\ SignIn!Fresh(r, calls).route = r
           /\ SignIn!Fresh(r, calls).touched = {} /\ ~SignIn!Fresh(r, calls).loading
           /\ \A c \in SignIn!Fresh(r, calls).calls : ~c.mounted
<1> DEFINE gone == {[c EXCEPT !.mounted = FALSE] : c \in calls}
<1>1. \A c \in SignIn!Call : [c EXCEPT !.mounted = FALSE] \in SignIn!Call
        /\ ~[c EXCEPT !.mounted = FALSE].mounted
  BY DEF SignIn!Call
<1>2. gone \in SUBSET SignIn!Call /\ \A c \in gone : ~c.mounted
  BY <1>1
<1>3. SignIn!Fresh(r, calls).calls = gone
  BY DEF SignIn!Fresh
<1> HIDE DEF gone
<1>4. SignIn!Fresh(r, calls) =
        [route |-> r, valid |-> [f \in TextField |-> FALSE], password |-> None, confirm |-> None,
         touched |-> {}, faults |-> {}, loading |-> FALSE, boxes |-> 0, submitted |-> FALSE,
         wait |-> IF r = "otp" THEN MaxWait ELSE 0, resending |-> FALSE, calls |-> gone]
  BY DEF SignIn!Fresh, gone
<1> QED
  BY <1>2, <1>4, SignInAssumption DEF SignIn!Account

LEMMA FreshInv ==
    ASSUME NEW r \in SignIn!Route, NEW calls \in SUBSET SignIn!Call, account' = SignIn!Fresh(r, calls),
           loggedIn' \in BOOLEAN
    PROVE  SignInInv'
BY FreshPage DEF SignInInv, SignIn!AccountTypeOK, CallsOfThePage, SignIn!ErrorsAreCurrent,
   SignIn!OneVerification,
                 SignIn!DisabledFormHasCall, SignIn!Mounted

\* What a page and its calls have in common is all that OneVerification and
\* DisabledFormHasCall speak of.
SameCalls(page) ==
    page.route = account.route /\ page.calls = account.calls /\ page.loading = account.loading

LEMMA RecheckIs ==
    ASSUME NEW page \in SignIn!Account, NEW fields \in SUBSET SignIn!Field
    PROVE  /\ SignIn!Recheck(page, fields) \in SignIn!Account
           /\ SignIn!Recheck(page, fields).route = page.route
           /\ SignIn!Recheck(page, fields).touched = page.touched
           /\ SignIn!Recheck(page, fields).loading = page.loading
           /\ SignIn!Recheck(page, fields).calls = page.calls
           /\ \A f \in SignIn!Field : f \in SignIn!Recheck(page, fields).faults <=>
                                  IF f \in fields THEN SignIn!Faulty(page, f) ELSE f \in page.faults
           /\ \A f \in SignIn!Field : SignIn!Faulty(SignIn!Recheck(page, fields), f) <=> SignIn!Faulty(page, f)
<1> DEFINE faults == (page.faults \ fields) \union {f \in fields : SignIn!Faulty(page, f)}
<1>1. faults \in SUBSET SignIn!Field
        /\ \A f \in SignIn!Field : f \in faults <=> IF f \in fields THEN SignIn!Faulty(page, f) ELSE f \in page.faults
  BY DEF SignIn!Account
<1>2. SignIn!Recheck(page, fields) = [page EXCEPT !.faults = faults]
  BY DEF SignIn!Recheck
<1> HIDE DEF faults
<1> QED
  BY <1>1, <1>2 DEF SignIn!Account, SignIn!Faulty

\* Rechecking the fields that may have turned wrong, or right, is enough.
LEMMA RecheckInv ==
    ASSUME SignInInv, NEW page \in SignIn!Account, NEW fields \in SUBSET SignIn!Field, SameCalls(page),
           \A f \in page.touched \ fields : f \in page.faults <=> SignIn!Faulty(page, f),
           account' = SignIn!Recheck(page, fields), UNCHANGED loggedIn
    PROVE  SignInInv'
<1>1. SignIn!ErrorsAreCurrent'
  BY RecheckIs DEF SignIn!ErrorsAreCurrent
<1> QED
  BY <1>1, RecheckIs DEF SignInInv, SignIn!AccountTypeOK, CallsOfThePage, SignIn!OneVerification,
     SignIn!DisabledFormHasCall,
     SignIn!Mounted, SameCalls

LEMMA TypeTextInv == ASSUME SignInInv, NEW f \in TextField, SignIn!TypeText(f) PROVE SignInInv'
<1> USE DEF SignInInv, SignIn!AccountTypeOK
<1>1. PICK v \in BOOLEAN : account' = SignIn!Recheck([account EXCEPT !.valid[f] = v], account.touched \intersect {f})
  BY DEF SignIn!TypeText, SignIn!Account
<1> DEFINE page == [account EXCEPT !.valid[f] = v]
<1>2. page \in SignIn!Account /\ SameCalls(page)
  BY DEF SignIn!Account, SameCalls
<1>3. \A g \in page.touched \ (account.touched \intersect {f}) : g \in page.faults <=> SignIn!Faulty(page, g)
  BY DEF SignIn!ErrorsAreCurrent, SignIn!Faulty, SignIn!Account
<1>4. account.touched \intersect {f} \in SUBSET SignIn!Field
  BY DEF SignIn!Account
<1> HIDE DEF page
<1> QED
  BY <1>1, <1>2, <1>3, <1>4, RecheckInv DEF SignIn!TypeText, page

LEMMA TypeSecretInv ==
    ASSUME SignInInv, NEW v \in Secret \union {None}, SignIn!TypePassword(v) \/ SignIn!TypeConfirm(v)
    PROVE  SignInInv'
<1> USE DEF SignInInv, SignIn!AccountTypeOK
<1>1. CASE SignIn!TypePassword(v)
  <2> DEFINE page == [account EXCEPT !.password = v]
             fields == page.touched \intersect {"password", "confirm"}
  <2>1. page \in SignIn!Account /\ SameCalls(page) /\ fields \in SUBSET SignIn!Field
    BY DEF SignIn!Account, SameCalls, SignIn!Field
  <2>2. \A g \in page.touched \ fields : g \in page.faults <=> SignIn!Faulty(page, g)
    BY DEF SignIn!ErrorsAreCurrent, SignIn!Faulty, SignIn!Account
  <2> QED
    BY <1>1, <2>1, <2>2, RecheckInv DEF SignIn!TypePassword
<1>2. CASE SignIn!TypeConfirm(v)
  <2> DEFINE page == [account EXCEPT !.confirm = v]
             fields == page.touched \intersect {"confirm"}
  <2>1. page \in SignIn!Account /\ SameCalls(page) /\ fields \in SUBSET SignIn!Field
    BY DEF SignIn!Account, SameCalls, SignIn!Field
  <2>2. \A g \in page.touched \ fields : g \in page.faults <=> SignIn!Faulty(page, g)
    BY DEF SignIn!ErrorsAreCurrent, SignIn!Faulty, SignIn!Account
  <2> QED
    BY <1>2, <2>1, <2>2, RecheckInv DEF SignIn!TypeConfirm
<1> QED
  BY <1>1, <1>2

\* A field that is left is checked as it is.
LEMMA TouchInv ==
    ASSUME SignInInv, NEW fields \in SUBSET SignIn!Field
    PROVE  LET page == [account EXCEPT !.touched = @ \union fields]
           IN  /\ page \in SignIn!Account /\ SameCalls(page)
               /\ \A g \in page.touched \ fields : g \in page.faults <=> SignIn!Faulty(page, g)
BY DEF SignInInv, SignIn!AccountTypeOK, SignIn!Account, SameCalls, SignIn!ErrorsAreCurrent, SignIn!Faulty

LEMMA LeaveFieldInv == ASSUME SignInInv, NEW f \in SignIn!Field, SignIn!LeaveField(f) PROVE SignInInv'
<1>1. {f} \in SUBSET SignIn!Field
  OBVIOUS
<1> QED
  BY <1>1, TouchInv, RecheckInv DEF SignIn!LeaveField

\* A call leaves a page that waits for none.
LEMMA SendInv ==
    ASSUME SignInInv, NEW page \in SignIn!Account, NEW k \in SignIn!SignInKind, MayCall(page.route, k),
           \A f \in page.touched : f \in page.faults <=> SignIn!Faulty(page, f),
           page.route = account.route, page.calls = account.calls,
           page.loading = (account.loading \/ k # "resend"),
           account' = SignIn!Sent(page, k), UNCHANGED loggedIn
    PROVE  SignInInv'
<1> DEFINE call == [kind |-> k, mounted |-> TRUE]
<1>1. call \in SignIn!Call /\ call.kind = k /\ call.mounted
  BY DEF SignIn!Call
<1> HIDE DEF call
<1>2. account' = [page EXCEPT !.calls = page.calls \union {call}]
  BY DEF SignIn!Sent, call
<1>3. /\ account' \in SignIn!Account /\ account'.calls = account.calls \union {call}
      /\ account'.route = account.route /\ account'.loading = page.loading
  BY <1>1, <1>2 DEF SignIn!Account
<1>4. SignIn!ErrorsAreCurrent'
  BY <1>1, <1>2 DEF SignIn!ErrorsAreCurrent, SignIn!Account, SignIn!Faulty
<1> QED
  BY <1>1, <1>3, <1>4 DEF SignInInv, SignIn!AccountTypeOK, CallsOfThePage, SignIn!OneVerification,
     SignIn!DisabledFormHasCall,
     SignIn!Mounted, MayCall

LEMMA SubmitInv == ASSUME SignInInv, SignIn!SubmitLogin \/ SignIn!SubmitSignup PROVE SignInInv'
<1> USE DEF SignInInv, SignIn!AccountTypeOK
<1>1. ASSUME NEW fields \in SUBSET SignIn!Field, NEW k \in {"login", "register"}, MayCall(account.route, k),
             ~account.loading,
             NEW page, page = SignIn!Recheck([account EXCEPT !.touched = @ \union fields], fields),
             account' = IF page.faults = {} THEN SignIn!Sent([page EXCEPT !.loading = TRUE], k) ELSE page,
             UNCHANGED loggedIn
      PROVE  SignInInv'
  <2> DEFINE left == [account EXCEPT !.touched = @ \union fields]
             busy == [page EXCEPT !.loading = TRUE]
  <2>1. left \in SignIn!Account /\ SameCalls(left)
          /\ \A g \in left.touched \ fields : g \in left.faults <=> SignIn!Faulty(left, g)
    BY <1>1, TouchInv
  <2>2. CASE account' = page
    BY <1>1, <2>1, <2>2, RecheckInv
  <2>3. page \in SignIn!Account /\ SameCalls(page)
          /\ \A g \in page.touched : g \in page.faults <=> SignIn!Faulty(page, g)
    <3>1. page = SignIn!Recheck(left, fields) /\ left.touched \in SUBSET SignIn!Field
      BY <1>1, <2>1 DEF SignIn!Account
    <3> HIDE DEF left
    <3> QED
      <4>1. /\ page \in SignIn!Account /\ page.touched = left.touched
            /\ page.route = left.route /\ page.calls = left.calls /\ page.loading = left.loading
        BY <1>1, <2>1, <3>1, RecheckIs
      <4>2. \A g \in SignIn!Field : g \in page.faults <=> IF g \in fields THEN SignIn!Faulty(left, g) ELSE g \in left.faults
        BY <1>1, <2>1, <3>1, RecheckIs
      <4>3. \A g \in SignIn!Field : SignIn!Faulty(page, g) <=> SignIn!Faulty(left, g)
        BY <1>1, <2>1, <3>1, RecheckIs
      <4> QED
        BY <2>1, <3>1, <4>1, <4>2, <4>3 DEF SameCalls
  <2>4. busy \in SignIn!Account /\ busy.loading /\ busy.route = account.route /\ busy.calls = account.calls
    BY <2>3 DEF SignIn!Account, SameCalls
  <2>5. \A g \in busy.touched : g \in busy.faults <=> SignIn!Faulty(busy, g)
    BY <2>3 DEF SignIn!Account, SignIn!Faulty
  <2>6. CASE account' = SignIn!Sent(busy, k)
    <3> HIDE DEF busy
    <3>1. busy.loading = (account.loading \/ k # "resend")
      BY <1>1, <2>4 DEF SignIn!Account
    <3>2. MayCall(busy.route, k) /\ k \in SignIn!SignInKind
      BY <1>1, <2>4 DEF SignIn!SignInKind
    <3> QED
      BY <1>1, <2>4, <2>5, <2>6, <3>1, <3>2, SendInv
  <2> QED
    BY <1>1, <2>2, <2>6
<1>2. CASE SignIn!SubmitLogin
  <2>1. TextField \in SUBSET SignIn!Field
    BY DEF SignIn!Field
  <2> QED
    BY <1>1, <1>2, <2>1 DEF SignIn!SubmitLogin, SignIn!LoginOpen, MayCall
<1>3. CASE SignIn!SubmitSignup
  <2>1. account.touched \union SignIn!Field = SignIn!Field
    BY DEF SignIn!Account
  <2> QED
    BY <1>1, <1>3, <2>1 DEF SignIn!SubmitSignup, SignIn!SecretsOpen, MayCall
<1> QED
  BY <1>2, <1>3

LEMMA FillBoxesInv == ASSUME SignInInv, NEW n \in 0..CodeLength, SignIn!FillBoxes(n) PROVE SignInInv'
<1> USE DEF SignInInv, SignIn!AccountTypeOK
<1>1. CASE n = CodeLength /\ ~account.submitted
  <2> DEFINE full == [account EXCEPT !.boxes = n, !.submitted = TRUE, !.loading = TRUE]
  <2>1. full \in SignIn!Account /\ full.loading = TRUE /\ full.route = "otp" /\ full.calls = account.calls
    BY DEF SignIn!Account, SignIn!FillBoxes, SignIn!CodeOpen
  <2>2. \A g \in full.touched : g \in full.faults <=> SignIn!Faulty(full, g)
    BY DEF SignIn!Account, SignIn!Faulty, SignIn!ErrorsAreCurrent
  <2>3. account' = SignIn!Sent(full, "verify") /\ account.route = "otp"
    BY <1>1 DEF SignIn!FillBoxes, SignIn!CodeOpen
  <2> HIDE DEF full
  <2> QED
    BY <2>1, <2>2, <2>3, SendInv DEF SignIn!FillBoxes, MayCall, SignIn!SignInKind
<1>2. CASE ~(n = CodeLength /\ ~account.submitted)
  <2>1. account' = [account EXCEPT !.boxes = n, !.submitted = @ /\ n = CodeLength]
    BY <1>2 DEF SignIn!FillBoxes
  <2>2. account' \in SignIn!Account /\ account'.loading = account.loading
                             /\ account'.route = account.route /\ account'.calls = account.calls
    BY <2>1 DEF SignIn!Account
  <2>3. SignIn!ErrorsAreCurrent'
    BY <2>1 DEF SignIn!Account, SignIn!Faulty, SignIn!ErrorsAreCurrent
  <2> QED
    BY <2>2, <2>3 DEF SignIn!FillBoxes, CallsOfThePage, SignIn!OneVerification, SignIn!DisabledFormHasCall,
       SignIn!Mounted
<1> QED
  BY <1>1, <1>2

LEMMA CountdownInv == ASSUME SignInInv, SignIn!Countdown PROVE SignInInv'
<1> USE DEF SignInInv, SignIn!AccountTypeOK
<1>1. account.wait - 1 \in 0..MaxWait
  BY SignInAssumption DEF SignIn!Countdown, SignIn!Account
<1>2. account' \in SignIn!Account /\ account'.loading = account.loading
                           /\ account'.route = account.route /\ account'.calls = account.calls
  BY <1>1 DEF SignIn!Account, SignIn!Countdown
<1>3. SignIn!ErrorsAreCurrent'
  BY DEF SignIn!Account, SignIn!Faulty, SignIn!ErrorsAreCurrent, SignIn!Countdown
<1> QED
  BY <1>2, <1>3 DEF SignIn!Countdown, CallsOfThePage, SignIn!OneVerification, SignIn!DisabledFormHasCall,
     SignIn!Mounted

LEMMA ResendInv == ASSUME SignInInv, SignIn!Resend PROVE SignInInv'
<1> USE DEF SignInInv, SignIn!AccountTypeOK
<1> DEFINE page == [account EXCEPT !.resending = TRUE]
<1>1. page \in SignIn!Account /\ page.loading = account.loading /\ page.route = "otp"
        /\ page.calls = account.calls
  BY DEF SignIn!Account, SignIn!Resend
<1>2. \A g \in page.touched : g \in page.faults <=> SignIn!Faulty(page, g)
  BY DEF SignIn!Account, SignIn!Faulty, SignIn!ErrorsAreCurrent
<1>3. page.loading = (account.loading \/ "resend" # "resend")
  BY <1>1 DEF SignIn!Account
<1>4. account' = SignIn!Sent(page, "resend") /\ account.route = "otp"
  BY DEF SignIn!Resend
<1> HIDE DEF page
<1> QED
  BY <1>1, <1>2, <1>3, <1>4, SendInv DEF SignIn!Resend, MayCall, SignIn!SignInKind

\* An answer takes the calls of its kind away.
LEMMA AnsweredIs ==
    ASSUME SignInInv, NEW k
    PROVE  /\ SignIn!Answered(k) \in SignIn!Account /\ SignIn!Answered(k).route = account.route
           /\ SignIn!Answered(k).loading = account.loading
           /\ SignIn!Answered(k).calls = {c \in account.calls : c.kind # k}
           /\ \A f \in SignIn!Field : f \in SignIn!Answered(k).touched =>
                                  (f \in SignIn!Answered(k).faults <=> SignIn!Faulty(SignIn!Answered(k), f))
<1> DEFINE rest == {c \in account.calls : c.kind # k}
<1>1. rest \in SUBSET SignIn!Call
  BY DEF SignInInv, SignIn!AccountTypeOK, SignIn!Account
<1>2. SignIn!Answered(k) = [account EXCEPT !.calls = rest]
  BY DEF SignIn!Answered
<1> HIDE DEF rest
<1>3. SignIn!Answered(k) \in SignIn!Account /\ SignIn!Answered(k).route = account.route
        /\ SignIn!Answered(k).loading = account.loading
                              /\ SignIn!Answered(k).calls = rest
  BY <1>1, <1>2 DEF SignInInv, SignIn!AccountTypeOK, SignIn!Account
<1>4. \A f \in SignIn!Field : f \in SignIn!Answered(k).touched =>
                                  (f \in SignIn!Answered(k).faults <=> SignIn!Faulty(SignIn!Answered(k), f))
  BY <1>1, <1>2 DEF SignInInv, SignIn!AccountTypeOK, SignIn!Account, SignIn!ErrorsAreCurrent, SignIn!Faulty
<1> QED
  BY <1>3, <1>4 DEF rest

\* What an answer leaves of a page: it is open again, has a new code, or none.
Reopened(page) == [page EXCEPT !.loading = FALSE, !.boxes = 0, !.submitted = FALSE]
Resent(page) == [page EXCEPT !.resending = FALSE, !.wait = MaxWait, !.boxes = 0, !.submitted = FALSE]
Blocked(page, w) == [page EXCEPT !.resending = FALSE, !.wait = w]

LEMMA ReopenedIs ==
    ASSUME NEW page \in SignIn!Account, NEW w \in 0..MaxWait, NEW next,
           next = Reopened(page) \/ next = Resent(page) \/ next = Blocked(page, w)
    PROVE  /\ next \in SignIn!Account /\ next.route = page.route /\ next.calls = page.calls
           /\ next.touched = page.touched /\ next.faults = page.faults
           /\ \A f \in SignIn!Field : SignIn!Faulty(next, f) <=> SignIn!Faulty(page, f)
<1>1. 0 \in 0..CodeLength
  BY SignInAssumption
<1>2. next \in SignIn!Account
  <2>1. Reopened(page) \in SignIn!Account
    BY <1>1 DEF SignIn!Account, Reopened
  <2>2. Resent(page) \in SignIn!Account
    <3>1. MaxWait \in 0..MaxWait
      BY SignInAssumption
    <3>2. \A v \in 0..MaxWait :
             [page EXCEPT !.resending = FALSE, !.wait = v, !.boxes = 0, !.submitted = FALSE] \in SignIn!Account
      BY <1>1 DEF SignIn!Account
    <3> QED
      BY <3>1, <3>2 DEF Resent
  <2>3. Blocked(page, w) \in SignIn!Account
    BY DEF SignIn!Account, Blocked
  <2> QED
    BY <2>1, <2>2, <2>3
<1>3. /\ next.route = page.route /\ next.calls = page.calls /\ next.valid = page.valid
      /\ next.password = page.password /\ next.confirm = page.confirm
      /\ next.touched = page.touched /\ next.faults = page.faults
  BY DEF SignIn!Account, Reopened, Resent, Blocked
<1> QED
  BY <1>2, <1>3 DEF SignIn!Faulty

LEMMA LoadingAfter ==
    ASSUME NEW page \in SignIn!Account, NEW w \in 0..MaxWait
    PROVE  /\ ~Reopened(page).loading
           /\ Resent(page).loading = page.loading /\ Blocked(page, w).loading = page.loading
BY DEF SignIn!Account, Reopened, Resent, Blocked

LEMMA AnswerInv ==
    ASSUME SignInInv, NEW k \in SignIn!SignInKind, SignIn!AccountAnswer(k)
    PROVE  SignInInv'
<1> USE DEF SignInInv, SignIn!AccountTypeOK
<1> DEFINE rest == SignIn!Answered(k)
<1>0. /\ rest \in SignIn!Account /\ rest.route = account.route /\ rest.loading = account.loading
      /\ rest.calls = {c \in account.calls : c.kind # k}
  BY AnsweredIs
<1>9. \A f \in SignIn!Field : f \in rest.touched => (f \in rest.faults <=> SignIn!Faulty(rest, f))
  BY AnsweredIs
<1> HIDE DEF rest
<1>1. CASE SignIn!MovesOn(k)
  <2>1. rest.calls \in SUBSET SignIn!Call /\ {"otp", "home"} \subseteq SignIn!Route
    BY <1>0 DEF SignIn!Account, SignIn!Route
  <2> QED
    BY <1>1, <2>1, FreshInv DEF SignIn!MovesOn, rest
<1>2. ASSUME account' = rest, ~SignIn!Mounted(k), UNCHANGED loggedIn PROVE SignInInv'
  <2>1. SignIn!ErrorsAreCurrent'
    BY <1>9, <1>2 DEF SignIn!ErrorsAreCurrent
  <2> QED
    BY <1>0, <1>2, <2>1 DEF CallsOfThePage, SignIn!OneVerification, SignIn!DisabledFormHasCall, SignIn!Mounted
<1>3. CASE SignIn!Stays(k) /\ SignIn!Mounted(k)
  <2>1. account' = Reopened(rest)
    BY <1>3 DEF SignIn!Stays, rest, Reopened
  <2>2. 0 \in 0..MaxWait
    BY SignInAssumption
  <2>3. /\ account' \in SignIn!Account /\ account'.route = account.route /\ ~account'.loading
        /\ account'.calls = rest.calls
    BY <1>0, <2>1, <2>2, ReopenedIs, LoadingAfter
  <2>5. SignIn!ErrorsAreCurrent'
    BY <1>0, <1>9, <2>1, <2>2, ReopenedIs DEF SignIn!ErrorsAreCurrent
  <2>4. account.route = "otp" => k = "verify"
    BY <1>3 DEF SignIn!Mounted, CallsOfThePage, MayCall, SignIn!Stays
  <2> QED
    BY <1>0, <1>3, <2>3, <2>4, <2>5 DEF CallsOfThePage, SignIn!OneVerification, SignIn!DisabledFormHasCall,
       SignIn!Mounted, SignIn!Stays
<1>4. ASSUME k = "resend", SignIn!Mounted(k), NEW w \in 0..MaxWait, UNCHANGED loggedIn,
             account' = Resent(rest) \/ account' = Blocked(rest, w)
      PROVE  SignInInv'
  <2>2. /\ account' \in SignIn!Account /\ account'.route = account.route /\ account'.loading = account.loading
        /\ account'.calls = rest.calls
    BY <1>0, <1>4, ReopenedIs, LoadingAfter
  <2>3. SignIn!ErrorsAreCurrent'
    BY <1>0, <1>9, <1>4, ReopenedIs DEF SignIn!ErrorsAreCurrent
  <2> QED
    BY <1>0, <1>4, <2>2, <2>3 DEF CallsOfThePage, SignIn!OneVerification, SignIn!DisabledFormHasCall,
       SignIn!Mounted
<1>5. CASE k = "resend" /\ \E ok \in BOOLEAN, w \in 0..MaxWait : SignIn!ResendAnswered(ok, w)
  <2>1. MaxWait \in 0..MaxWait
    BY SignInAssumption
  <2> QED
    BY <1>2, <1>4, <1>5, <2>1 DEF SignIn!ResendAnswered, rest, Resent, Blocked
<1> QED
  BY <1>1, <1>2, <1>3, <1>5 DEF SignIn!AccountAnswer, SignIn!Stays, rest

LEMMA FollowInv == ASSUME SignInInv, NEW r \in SignIn!Route, SignIn!Follow(r) PROVE SignInInv'
BY FreshInv DEF SignIn!Follow, SignInInv, SignIn!AccountTypeOK, SignIn!Account

LEMMA SignInInit == ASSUME SignIn!AccountInit PROVE SignInInv
<1>1. {} \in SUBSET SignIn!Call /\ "login" \in SignIn!Route
  BY DEF SignIn!Route
<1> QED
  BY <1>1, FreshPage DEF SignIn!AccountInit, SignInInv, SignIn!AccountTypeOK, CallsOfThePage,
     SignIn!ErrorsAreCurrent,
                       SignIn!OneVerification, SignIn!DisabledFormHasCall, SignIn!Mounted

LEMMA SignInStep == ASSUME SignInInv, SignIn!AccountNext PROVE SignInInv'
BY TypeTextInv, TypeSecretInv, LeaveFieldInv, SubmitInv, FillBoxesInv, CountdownInv, ResendInv,
   AnswerInv, FollowInv DEF SignIn!AccountNext

(***************************************************************************)
(* The profile page (ProfilePage).                                         *)
(***************************************************************************)

ProfileInv == Profile!ProfileTypeOK /\ Profile!BusyHasCall

\* The parts of the page that can be busy, but for the call of the kind k.
BusyBut(page, k) ==
    /\ \A f \in EditForm : page.forms[f] = "saving" => f \in profile.calls /\ f # k
    /\ page.phone = "requesting" => "requestPhone" \in profile.calls /\ k # "requestPhone"
    /\ page.phone = "verifying" => "confirmPhone" \in profile.calls /\ k # "confirmPhone"
    /\ page.leaving => "logout" \in profile.calls /\ k # "logout"
    /\ page.uploading # None => "photo" \in profile.calls /\ k # "photo"

LEMMA ProfileAnsweredInv ==
    ASSUME ProfileInv, NEW k, profile' \in Profile!Profile, profile'.calls = profile.calls \ {k},
           BusyBut(profile', k), user' \in 0..UserChanges, session' \in BOOLEAN
    PROVE  ProfileInv'
BY DEF ProfileInv, Profile!ProfileTypeOK, Profile!BusyHasCall, BusyBut

LEMMA ProfileFormsInv ==
    ASSUME ProfileInv, NEW f \in EditForm, Profile!ToggleForm(f) \/ Profile!SaveForm(f)
    PROVE  ProfileInv'
<1>1. profile \in Profile!Profile
  BY DEF ProfileInv, Profile!ProfileTypeOK
<1>2. CASE Profile!ToggleForm(f)
  <2> DEFINE to == IF profile.forms[f] = "open" THEN "closed" ELSE "open"
             forms == [profile.forms EXCEPT ![f] = to]
  <2>1. /\ forms \in [EditForm -> Profile!FormState]
        /\ \A g \in EditForm : forms[g] = "saving" => profile.forms[g] = "saving"
    BY <1>1 DEF Profile!Profile, Profile!FormState
  <2>2. profile' = [profile EXCEPT !.forms = forms] /\ UNCHANGED <<user, session>>
    BY <1>1, <1>2 DEF Profile!ToggleForm, Profile!Profile
  <2> HIDE DEF forms
  <2>3. /\ profile' \in Profile!Profile /\ profile'.forms = forms /\ profile'.calls = profile.calls
        /\ profile'.phone = profile.phone /\ profile'.leaving = profile.leaving
        /\ profile'.uploading = profile.uploading
    BY <1>1, <2>1, <2>2 DEF Profile!Profile
  <2> QED
    BY <2>1, <2>2, <2>3 DEF ProfileInv, Profile!ProfileTypeOK, Profile!BusyHasCall
<1>3. CASE Profile!SaveForm(f)
  <2> DEFINE forms == [profile.forms EXCEPT ![f] = "saving"]
             page == [profile EXCEPT !.forms = forms]
  <2>1. /\ forms \in [EditForm -> Profile!FormState]
        /\ \A g \in EditForm : forms[g] = "saving" => profile.forms[g] = "saving" \/ f = g
    BY <1>1 DEF Profile!Profile, Profile!FormState
  <2>2. profile' = Profile!Sent(page, f) /\ UNCHANGED <<user, session>>
    BY <1>1, <1>3 DEF Profile!SaveForm, Profile!Profile
  <2> HIDE DEF forms
  <2>3. /\ page \in Profile!Profile /\ page.forms = forms /\ page.calls = profile.calls
        /\ page.phone = profile.phone /\ page.leaving = profile.leaving /\ page.uploading = profile.uploading
    BY <1>1, <2>1 DEF Profile!Profile
  <2>4. f \in Profile!ProfileKind
    BY DEF Profile!ProfileKind
  <2> HIDE DEF page
  <2>5. /\ profile' \in Profile!Profile /\ profile'.calls = profile.calls \union {f} /\ profile'.forms = forms
        /\ profile'.phone = profile.phone /\ profile'.leaving = profile.leaving
        /\ profile'.uploading = profile.uploading
    BY <2>2, <2>3, <2>4 DEF Profile!Profile, Profile!Sent
  <2> QED
    BY <2>1, <2>2, <2>5 DEF ProfileInv, Profile!ProfileTypeOK, Profile!BusyHasCall
<1> QED
  BY <1>2, <1>3

\* The buttons of the page outside the forms: what becomes busy sends its call.
LEMMA ProfileButtonsInv ==
    ASSUME ProfileInv,
           Profile!UploadPhoto \/ Profile!RequestPhone \/ Profile!ConfirmPhone \/ Profile!Logout
             \/ \E s \in Profile!PhoneStage : Profile!StepPhone(s)
    PROVE  ProfileInv'
<1>1. profile \in Profile!Profile
  BY DEF ProfileInv, Profile!ProfileTypeOK
<1>2. CASE Profile!UploadPhoto
  <2>1. profile.shown \in (0..UserChanges) \union {None} /\ "photo" \in Profile!ProfileKind
    BY <1>1 DEF Profile!Profile, Profile!ProfileKind
  <2>2. profile' = [profile EXCEPT !.uploading = profile.shown, !.calls = profile.calls \union {"photo"}]
    BY <1>1, <1>2 DEF Profile!UploadPhoto, Profile!Sent, Profile!Profile
  <2>3. /\ profile' \in Profile!Profile /\ profile'.calls = profile.calls \union {"photo"}
        /\ profile'.forms = profile.forms /\ profile'.phone = profile.phone
             /\ profile'.leaving = profile.leaving
    BY <1>1, <2>1, <2>2 DEF Profile!Profile
  <2> QED
    BY <1>2, <2>3 DEF ProfileInv, Profile!ProfileTypeOK, Profile!BusyHasCall, Profile!UploadPhoto
<1>3. ASSUME NEW stage \in Profile!PhoneStage, NEW k \in Profile!ProfileKind,
             stage = "requesting" => k = "requestPhone", stage = "verifying" => k = "confirmPhone",
             profile' = Profile!Sent([profile EXCEPT !.phone = stage], k), UNCHANGED <<user, session>>
      PROVE  ProfileInv'
  <2>2. profile' = [profile EXCEPT !.phone = stage, !.calls = profile.calls \union {k}]
    BY <1>1, <1>3 DEF Profile!Sent, Profile!Profile
  <2>3. /\ profile' \in Profile!Profile /\ profile'.calls = profile.calls \union {k} /\ profile'.phone = stage
        /\ profile'.forms = profile.forms /\ profile'.uploading = profile.uploading
        /\ profile'.leaving = profile.leaving
    BY <1>1, <2>2 DEF Profile!Profile
  <2> QED
    BY <1>3, <2>3 DEF ProfileInv, Profile!ProfileTypeOK, Profile!BusyHasCall
<1>4. CASE Profile!RequestPhone \/ Profile!ConfirmPhone
  BY <1>3, <1>4 DEF Profile!RequestPhone, Profile!ConfirmPhone, Profile!PhoneStage, Profile!ProfileKind
<1>5. CASE Profile!Logout
  <2>1. profile' = [profile EXCEPT !.leaving = TRUE, !.calls = profile.calls \union {"logout"}]
    BY <1>1, <1>5 DEF Profile!Logout, Profile!Sent, Profile!Profile
  <2>2. "logout" \in Profile!ProfileKind
    BY DEF Profile!ProfileKind
  <2>3. /\ profile' \in Profile!Profile /\ profile'.calls = profile.calls \union {"logout"}
        /\ profile'.phone = profile.phone /\ profile'.forms = profile.forms
        /\ profile'.uploading = profile.uploading
    BY <1>1, <2>1, <2>2 DEF Profile!Profile
  <2> QED
    BY <1>5, <2>3 DEF ProfileInv, Profile!ProfileTypeOK, Profile!BusyHasCall, Profile!Logout
<1>6. ASSUME NEW s \in Profile!PhoneStage, Profile!StepPhone(s) PROVE ProfileInv'
  <2>1. s \notin {"requesting", "verifying"}
    BY <1>6 DEF Profile!StepPhone
  <2>2. /\ profile' \in Profile!Profile /\ profile'.calls = profile.calls /\ profile'.phone = s
        /\ profile'.forms = profile.forms /\ profile'.uploading = profile.uploading
        /\ profile'.leaving = profile.leaving
    BY <1>1, <1>6 DEF Profile!StepPhone, Profile!Profile
  <2> QED
    BY <1>6, <2>1, <2>2 DEF ProfileInv, Profile!ProfileTypeOK, Profile!BusyHasCall, Profile!StepPhone
<1> QED
  BY <1>2, <1>4, <1>5, <1>6

\* What an answer finds of the page; what it changes comes on top.
LEMMA ProfileAnsweredIs ==
    ASSUME ProfileInv, NEW k
    PROVE  /\ Profile!Answered(k) \in Profile!Profile /\ Profile!Answered(k).calls = profile.calls \ {k}
           /\ Profile!Answered(k).forms = profile.forms /\ Profile!Answered(k).phone = profile.phone
           /\ Profile!Answered(k).leaving = profile.leaving
                /\ Profile!Answered(k).uploading = profile.uploading
           /\ Profile!Answered(k).shown = profile.shown /\ Profile!Answered(k).open = profile.open
BY DEF Profile!Answered, ProfileInv, Profile!ProfileTypeOK, Profile!Profile

LEMMA ChangedIs ==
    ASSUME ProfileInv, NEW ok \in BOOLEAN, Profile!Changed(ok)
    PROVE  user' \in 0..UserChanges /\ (ok => user + 1 \in 0..UserChanges)
BY ProfileAssumption DEF ProfileInv, Profile!ProfileTypeOK, Profile!Changed

LEMMA ProfileAnswerInv ==
    ASSUME ProfileInv, NEW k \in Profile!ProfileKind, Profile!ProfileAnswer(k)
    PROVE  ProfileInv'
<1>1. PICK ok \in BOOLEAN :
        \/ k = "me" /\ Profile!ProfileArrives(ok)
        \/ k \in EditForm /\ Profile!FormAnswered(k, ok)
        \/ k = "photo" /\ Profile!PhotoAnswered(ok)
        \/ k = "requestPhone" /\ Profile!PhoneRequested(ok)
        \/ k = "confirmPhone" /\ Profile!PhoneConfirmed(ok)
        \/ k = "logout" /\ Profile!LoggedOut(ok)
  BY DEF Profile!ProfileAnswer
<1> DEFINE rest == Profile!Answered(k)
<1>2. /\ rest \in Profile!Profile /\ rest.calls = profile.calls \ {k}
      /\ rest.forms = profile.forms /\ rest.phone = profile.phone /\ rest.leaving = profile.leaving
      /\ rest.uploading = profile.uploading /\ rest.shown = profile.shown /\ rest.open = profile.open
  BY ProfileAnsweredIs
<1>3. /\ user \in 0..UserChanges /\ session \in BOOLEAN /\ profile \in Profile!Profile
      /\ \A f \in EditForm : profile.forms[f] = "saving" => f \in profile.calls
      /\ profile.phone = "requesting" => "requestPhone" \in profile.calls
      /\ profile.phone = "verifying" => "confirmPhone" \in profile.calls
      /\ profile.leaving => "logout" \in profile.calls
      /\ profile.uploading # None => "photo" \in profile.calls
  BY DEF ProfileInv, Profile!ProfileTypeOK, Profile!BusyHasCall
<1>4. CASE k = "me" /\ Profile!ProfileArrives(ok)
  <2> DEFINE shown == IF ok THEN user ELSE None
  <2>1. shown \in (0..UserChanges) \union {None}
    BY <1>3
  <2>2. profile' = [rest EXCEPT !.loading = FALSE, !.shown = shown] /\ UNCHANGED <<user, session>>
    BY <1>4 DEF Profile!ProfileArrives
  <2> HIDE DEF rest, shown
  <2>3. /\ profile' \in Profile!Profile /\ profile'.calls = rest.calls /\ profile'.forms = rest.forms
        /\ profile'.phone = rest.phone /\ profile'.leaving = rest.leaving
             /\ profile'.uploading = rest.uploading
    BY <1>2, <2>1, <2>2 DEF Profile!Profile
  <2>4. BusyBut(profile', k)
    BY <1>2, <1>3, <1>4, <2>3, ProfileAssumption DEF BusyBut
  <2> QED
    BY <1>2, <1>3, <2>2, <2>3, <2>4, ProfileAnsweredInv
<1>5. CASE k \in EditForm /\ Profile!FormAnswered(k, ok)
  <2> DEFINE shown == IF ok /\ k # "password" THEN user + 1 ELSE rest.shown
             forms == [rest.forms EXCEPT ![k] = IF ok THEN "closed" ELSE "open"]
  <2>1. user' \in 0..UserChanges /\ shown \in (0..UserChanges) \union {None}
    BY <1>2, <1>5, ChangedIs DEF Profile!FormAnswered, Profile!Profile
  <2>2. profile' = [rest EXCEPT !.forms = forms, !.shown = shown] /\ UNCHANGED session
    BY <1>2, <1>5 DEF Profile!FormAnswered, Profile!Profile
  <2>3. /\ forms \in [EditForm -> Profile!FormState] /\ forms[k] # "saving"
        /\ \A f \in EditForm : f # k => forms[f] = profile.forms[f]
    BY <1>2, <1>5 DEF Profile!FormState, Profile!Profile
  <2> HIDE DEF rest, shown, forms
  <2>4. /\ profile' \in Profile!Profile /\ profile'.calls = rest.calls /\ profile'.forms = forms
        /\ profile'.phone = rest.phone /\ profile'.leaving = rest.leaving
             /\ profile'.uploading = rest.uploading
    BY <1>2, <2>1, <2>2, <2>3 DEF Profile!Profile
  <2>5. BusyBut(profile', k)
    BY <1>2, <1>3, <1>5, <2>3, <2>4, ProfileAssumption DEF BusyBut
  <2> QED
    BY <1>2, <1>3, <2>1, <2>2, <2>4, <2>5, ProfileAnsweredInv
<1>6. CASE k = "photo" /\ Profile!PhotoAnswered(ok)
  <2> DEFINE shown == IF ok THEN profile.uploading ELSE rest.shown
  <2>1. user' \in 0..UserChanges /\ shown \in (0..UserChanges) \union {None}
    BY <1>2, <1>3, <1>6, ChangedIs DEF Profile!PhotoAnswered, Profile!Profile
  <2>2. profile' = [rest EXCEPT !.uploading = None, !.shown = shown] /\ UNCHANGED session
    BY <1>2, <1>6 DEF Profile!PhotoAnswered, Profile!Profile
  <2> HIDE DEF rest, shown
  <2>4. /\ profile' \in Profile!Profile /\ profile'.calls = rest.calls /\ profile'.forms = rest.forms
        /\ profile'.phone = rest.phone /\ profile'.leaving = rest.leaving /\ profile'.uploading = None
    BY <1>2, <2>1, <2>2 DEF Profile!Profile
  <2>5. BusyBut(profile', k)
    BY <1>2, <1>3, <1>6, <2>4, ProfileAssumption DEF BusyBut
  <2> QED
    BY <1>2, <1>3, <2>1, <2>2, <2>4, <2>5, ProfileAnsweredInv
<1>7. CASE k = "requestPhone" /\ Profile!PhoneRequested(ok)
  <2> DEFINE stage == IF ok THEN "otp" ELSE "form"
  <2>1. stage \in Profile!PhoneStage /\ stage \notin {"requesting", "verifying"}
    BY DEF Profile!PhoneStage
  <2>2. profile' = [rest EXCEPT !.phone = stage] /\ UNCHANGED <<user, session>>
    BY <1>7 DEF Profile!PhoneRequested
  <2> HIDE DEF rest, stage
  <2>4. /\ profile' \in Profile!Profile /\ profile'.calls = rest.calls /\ profile'.forms = rest.forms
        /\ profile'.phone = stage /\ profile'.leaving = rest.leaving /\ profile'.uploading = rest.uploading
    BY <1>2, <2>1, <2>2 DEF Profile!Profile
  <2>5. BusyBut(profile', k)
    BY <1>2, <1>3, <1>7, <2>1, <2>4, ProfileAssumption DEF BusyBut
  <2> QED
    BY <1>2, <1>3, <2>2, <2>4, <2>5, ProfileAnsweredInv
<1>8. CASE k = "confirmPhone" /\ Profile!PhoneConfirmed(ok)
  <2> DEFINE stage == IF ok THEN "done" ELSE "otp"
             shown == IF ok THEN user + 1 ELSE rest.shown
  <2>1. stage \in Profile!PhoneStage /\ stage \notin {"requesting", "verifying"}
    BY DEF Profile!PhoneStage
  <2>2. profile' = [rest EXCEPT !.phone = stage, !.shown = shown] /\ UNCHANGED session
    BY <1>2, <1>8 DEF Profile!PhoneConfirmed, Profile!Profile
  <2>3. user' \in 0..UserChanges /\ shown \in (0..UserChanges) \union {None}
    BY <1>2, <1>8, ChangedIs DEF Profile!PhoneConfirmed, Profile!Profile
  <2> HIDE DEF rest, stage, shown
  <2>4. /\ profile' \in Profile!Profile /\ profile'.calls = rest.calls /\ profile'.forms = rest.forms
        /\ profile'.phone = stage /\ profile'.leaving = rest.leaving /\ profile'.uploading = rest.uploading
    BY <1>2, <2>1, <2>2, <2>3 DEF Profile!Profile
  <2>5. BusyBut(profile', k)
    BY <1>2, <1>3, <1>8, <2>1, <2>4, ProfileAssumption DEF BusyBut
  <2> QED
    BY <1>2, <1>3, <2>2, <2>3, <2>4, <2>5, ProfileAnsweredInv
<1>9. CASE k = "logout" /\ Profile!LoggedOut(ok)
  <2> DEFINE open == rest.open /\ ~ok
  <2>1. open \in BOOLEAN
    OBVIOUS
  <2>2. profile' = [rest EXCEPT !.leaving = FALSE, !.open = open] /\ UNCHANGED user /\ session' \in BOOLEAN
    BY <1>2, <1>9 DEF Profile!LoggedOut, Profile!Profile
  <2> HIDE DEF rest, open
  <2>4. /\ profile' \in Profile!Profile /\ profile'.calls = rest.calls /\ profile'.forms = rest.forms
        /\ profile'.phone = rest.phone /\ ~profile'.leaving /\ profile'.uploading = rest.uploading
    BY <1>2, <2>1, <2>2 DEF Profile!Profile
  <2>5. BusyBut(profile', k)
    BY <1>2, <1>3, <1>9, <2>4, ProfileAssumption DEF BusyBut
  <2> QED
    BY <1>2, <1>3, <2>2, <2>4, <2>5, ProfileAnsweredInv
<1> QED
  BY <1>1, <1>4, <1>5, <1>6, <1>7, <1>8, <1>9

LEMMA ProfileInitInv == ASSUME Profile!ProfileInit PROVE ProfileInv
<1>1. profile \in Profile!Profile
  BY DEF Profile!ProfileInit, Profile!Profile, Profile!FormState, Profile!PhoneStage, Profile!ProfileKind
<1> QED
  BY <1>1, ProfileAssumption DEF Profile!ProfileInit, ProfileInv, Profile!ProfileTypeOK, Profile!BusyHasCall

LEMMA ProfileStep == ASSUME ProfileInv, Profile!ProfileNext PROVE ProfileInv'
BY ProfileFormsInv, ProfileButtonsInv, ProfileAnswerInv DEF Profile!ProfileNext

(***************************************************************************)
(* A team's dashboard (TeamDashboardPage).                                 *)
(***************************************************************************)

\* A page that waits has a load, a load that asks for the lists has shown the
\* team, and a panel that waits has a call that is still its own.
DashboardSound(d) ==
    /\ ~d.denied /\ (d.loading \/ d.team = None) => d.loads # {}
    /\ \A l \in d.loads : l.step \in {"lists", "listsServed"} => d.team # None
    /\ \A m \in TeamPage!Method : d.panel[m] = "loading"
         => \E c \in d.calls : c.kind = TeamPage!MakeKind(m) /\ c.mounted

TeamPageInv == TeamPage!TypeOK /\ DashboardSound(dashboard)

LEMMA TeamPageScreen == TeamPage!Screen = "tabs" => ~dashboard.denied /\ dashboard.team # None
<1> SUFFICES ASSUME dashboard.denied \/ dashboard.team = None PROVE TeamPage!Screen \in {"teams", "skeleton"}
  OBVIOUS
<1>1. CASE dashboard.denied
  BY <1>1 DEF TeamPage!Screen
<1>2. CASE ~dashboard.denied /\ (dashboard.loading \/ dashboard.team = None)
  BY <1>2 DEF TeamPage!Screen
<1> QED
  BY <1>1, <1>2

LEMMA TeamPageInvImplies ==
    ASSUME TeamPageInv
    PROVE  TeamPage!TypeOK /\ TeamPage!SkeletonHasLoad /\ TeamPage!SpinnerHasCall
<1>1. TeamPage!SkeletonHasLoad
  <2> SUFFICES ASSUME dashboard.loads = {} PROVE TeamPage!Screen # "skeleton"
    BY DEF TeamPage!SkeletonHasLoad
  <2>1. dashboard.denied \/ ~(dashboard.loading \/ dashboard.team = None)
    BY DEF TeamPageInv, DashboardSound
  <2>2. CASE dashboard.denied
    BY <2>2 DEF TeamPage!Screen
  <2>3. CASE ~dashboard.denied
    BY <2>1, <2>3 DEF TeamPage!Screen
  <2> QED
    BY <2>2, <2>3
<1>2. TeamPage!SpinnerHasCall
  BY DEF TeamPage!SpinnerHasCall, TeamPage!Waiting, TeamPageInv, DashboardSound
<1> QED
  BY <1>1, <1>2 DEF TeamPageInv

LEMMA TeamPageSoundInv ==
    ASSUME teams' \in [Slug -> [at : 0..TeamChanges, role : TeamPage!ViewerRole]],
           NEW d, d \in TeamPage!Dashboard, DashboardSound(d), dashboard' = d
    PROVE  TeamPageInv'
BY DEF TeamPageInv, TeamPage!TypeOK, DashboardSound

LEMMA TeamPageSnapshot ==
    ASSUME TeamPageInv, NEW s \in Slug
    PROVE  TeamPage!Seen(s) \in TeamPage!Snapshot /\ teams[s].at \in 0..TeamChanges
             /\ teams[s].role \in TeamPage!ViewerRole
BY DEF TeamPageInv, TeamPage!TypeOK, TeamPage!Seen, TeamPage!Snapshot

-----------------------------------------------------------------------------
(* The loads. *)

LEMMA TeamPageLoadsWith ==
    ASSUME NEW loads \in SUBSET TeamPage!Load, TeamPage!RoomForLoad(loads) # {}, NEW s \in Slug,
           TeamPage!Seen(s) \in TeamPage!Snapshot
    PROVE  /\ TeamPage!LoadsWith(loads, s) \in SUBSET TeamPage!Load /\ TeamPage!LoadsWith(loads, s) # {}
           /\ \A l \in TeamPage!LoadsWith(loads, s) : l \in loads \/ l.step = "team"
<1> DEFINE n == CHOOSE n \in TeamPage!RoomForLoad(loads) : TRUE
           l == [n |-> n, step |-> "team", got |-> TeamPage!Seen(s)]
<1>1. n \in TeamPage!RoomForLoad(loads)
  OBVIOUS
<1>2. n \in 1..TeamLoads
  BY <1>1 DEF TeamPage!RoomForLoad
<1>3. TeamPage!LoadsWith(loads, s) = loads \union {l}
  BY DEF TeamPage!LoadsWith
<1> HIDE DEF n
<1>4. l \in TeamPage!Load /\ l.step = "team"
  BY <1>2 DEF TeamPage!Load
<1> QED
  BY <1>3, <1>4

LEMMA TeamPageArriveInv ==
    ASSUME TeamPageInv, NEW l \in dashboard.loads,
           TeamPage!ServeLoad(l) \/ TeamPage!TeamArrives(l) \/ TeamPage!ListsArrive(l) \/ TeamPage!LoadFails(l)
    PROVE  TeamPageInv'
<1>1. /\ dashboard \in TeamPage!Dashboard /\ DashboardSound(dashboard) /\ l \in TeamPage!Load
           /\ l.got \in TeamPage!Snapshot
      /\ l.got.of \in Slug /\ dashboard.loads \in SUBSET TeamPage!Load
      /\ teams' \in [Slug -> [at : 0..TeamChanges, role : TeamPage!ViewerRole]]
  BY DEF TeamPageInv, TeamPage!TypeOK, TeamPage!Dashboard, TeamPage!Load, TeamPage!Snapshot,
     TeamPage!ServeLoad, TeamPage!TeamArrives, TeamPage!ListsArrive, TeamPage!LoadFails
<1>2. ASSUME NEW loads \in SUBSET TeamPage!Load, NEW team \in TeamPage!Snapshot \union {None},
             NEW lists \in TeamPage!Snapshot \union {None}, NEW loading \in BOOLEAN, NEW denied \in BOOLEAN,
             dashboard' = [dashboard EXCEPT !.loads = loads, !.team = team, !.lists = lists,
                                            !.loading = loading, !.denied = denied],
             ~denied /\ (loading \/ team = None) => loads # {},
             \A m \in loads : m.step \in {"lists", "listsServed"} => team # None
      PROVE  TeamPageInv'
  <2> DEFINE d == [dashboard EXCEPT !.loads = loads, !.team = team, !.lists = lists,
                                    !.loading = loading, !.denied = denied]
  <2>1. /\ d \in TeamPage!Dashboard /\ d.loads = loads /\ d.team = team /\ d.loading = loading
             /\ d.denied = denied
        /\ d.panel = dashboard.panel /\ d.calls = dashboard.calls
    BY <1>1 DEF TeamPage!Dashboard
  <2> HIDE DEF d
  <2>2. DashboardSound(d)
    BY <1>1, <1>2, <2>1 DEF DashboardSound
  <2> QED
    BY <1>1, <1>2, <2>1, <2>2, TeamPageSoundInv DEF d
<1>3. /\ dashboard.team \in TeamPage!Snapshot \union {None}
           /\ dashboard.lists \in TeamPage!Snapshot \union {None}
      /\ dashboard.loading \in BOOLEAN /\ dashboard.denied \in BOOLEAN
  BY <1>1 DEF TeamPage!Dashboard
<1>4. CASE TeamPage!ServeLoad(l)
  <2> DEFINE step == IF l.step = "team" THEN "teamServed" ELSE "listsServed"
             m == [l EXCEPT !.step = step, !.got = TeamPage!Seen(l.got.of)]
             loads == (dashboard.loads \ {l}) \union {m}
  <2>1. /\ step \in {"team", "teamServed", "lists", "listsServed"}
             /\ TeamPage!Seen(l.got.of) \in TeamPage!Snapshot
        /\ (step = "listsServed" => l.step = "lists")
    BY <1>1, <1>4, TeamPageSnapshot DEF TeamPage!ServeLoad
  <2>2. dashboard' = [dashboard EXCEPT !.loads = loads, !.team = dashboard.team, !.lists = dashboard.lists,
                                       !.loading = dashboard.loading, !.denied = dashboard.denied]
    BY <1>1, <1>4 DEF TeamPage!ServeLoad, TeamPage!Replace, TeamPage!Dashboard, TeamPage!Load
  <2>3. step \in {"teamServed", "listsServed"}
    OBVIOUS
  <2> HIDE DEF step
  <2>4. m \in TeamPage!Load /\ m.step = step
    BY <1>1, <2>1 DEF TeamPage!Load
  <2> HIDE DEF m
  <2>5. /\ loads \in SUBSET TeamPage!Load /\ loads # {}
        /\ \A k \in loads : k.step \in {"lists", "listsServed"} => dashboard.team # None
    BY <1>1, <2>1, <2>3, <2>4 DEF DashboardSound
  <2> HIDE DEF loads
  <2> QED
    BY <1>2, <1>3, <2>2, <2>5
<1>5. CASE TeamPage!TeamArrives(l)
  <2> DEFINE m == [l EXCEPT !.step = "lists"]
             loads == (dashboard.loads \ {l}) \union {m}
  <2>1. m \in TeamPage!Load /\ m.step = "lists"
    BY <1>1 DEF TeamPage!Load
  <2>2. dashboard' = [dashboard EXCEPT !.loads = loads, !.team = l.got, !.lists = dashboard.lists,
                                       !.loading = dashboard.loading, !.denied = dashboard.denied]
    BY <1>1, <1>5 DEF TeamPage!TeamArrives, TeamPage!Replace, TeamPage!Dashboard
  <2> HIDE DEF m
  <2>3. loads \in SUBSET TeamPage!Load /\ loads # {}
    BY <1>1, <2>1
  <2>4. l.got # None /\ l.got \in TeamPage!Snapshot \union {None}
    BY <1>1, TeamPageAssumption
  <2> HIDE DEF loads, m
  <2> QED
    BY <1>2, <1>3, <2>2, <2>3, <2>4
<1>6. CASE TeamPage!ListsArrive(l)
  <2> DEFINE loads == dashboard.loads \ {l}
  <2>1. dashboard' = [dashboard EXCEPT !.loads = loads, !.team = dashboard.team, !.lists = l.got,
                                       !.loading = FALSE, !.denied = dashboard.denied]
    BY <1>1, <1>6 DEF TeamPage!ListsArrive, TeamPage!Replace, TeamPage!Dashboard
  <2>2. dashboard.team # None
    BY <1>1, <1>6 DEF TeamPage!ListsArrive, DashboardSound
  <2>3. loads \in SUBSET TeamPage!Load
    BY <1>1
  <2> HIDE DEF loads
  <2> QED
    BY <1>1, <1>2, <1>3, <2>1, <2>2, <2>3
<1>7. CASE TeamPage!LoadFails(l)
  <2> DEFINE loads == dashboard.loads \ {l}
  <2>1. dashboard' = [dashboard EXCEPT !.loads = loads, !.team = dashboard.team, !.lists = dashboard.lists,
                                       !.loading = FALSE, !.denied = TRUE]
    BY <1>1, <1>7 DEF TeamPage!LoadFails, TeamPage!Replace, TeamPage!Dashboard
  <2>2. /\ loads \in SUBSET TeamPage!Load
        /\ \A k \in loads : k.step \in {"lists", "listsServed"} => dashboard.team # None
    BY <1>1 DEF DashboardSound
  <2> HIDE DEF loads
  <2> QED
    BY <1>2, <1>3, <2>1, <2>2
<1> QED
  BY <1>4, <1>5, <1>6, <1>7

-----------------------------------------------------------------------------
(* What the viewer does. *)

PanelState == [TeamPage!Method -> {"form", "confirm", "loading", "ready"}]
HasCalls(panel, calls) ==
    \A m \in TeamPage!Method : panel[m] = "loading"
      => \E c \in calls : c.kind = TeamPage!MakeKind(m) /\ c.mounted

\* The page with the fields the viewer's actions change.
Viewed(tab, dialog, panel, edits, form, calls) ==
    [dashboard EXCEPT !.tab = tab, !.dialog = dialog, !.panel = panel,
                      !.changed = edits, !.form = form, !.calls = calls]

LEMMA TeamPageViewInv ==
    ASSUME TeamPageInv, UNCHANGED teams,
           NEW tab \in {"roster", "overview"}, NEW dialog \in TeamPage!Dialog, NEW panel \in PanelState,
           NEW edits \in BOOLEAN, NEW form \in (0..TeamChanges) \union {None},
           NEW calls \in SUBSET TeamPage!Call,
           HasCalls(panel, calls),
           dashboard' = Viewed(tab, dialog, panel, edits, form, calls)
    PROVE  TeamPageInv'
<1> DEFINE d == Viewed(tab, dialog, panel, edits, form, calls)
<1>1. dashboard \in TeamPage!Dashboard /\ DashboardSound(dashboard)
  BY DEF TeamPageInv, TeamPage!TypeOK
<1>2. /\ d \in TeamPage!Dashboard /\ d.loads = dashboard.loads /\ d.team = dashboard.team
      /\ d.loading = dashboard.loading /\ d.denied = dashboard.denied
      /\ d.panel = panel /\ d.calls = calls
  BY <1>1 DEF TeamPage!Dashboard, PanelState, Viewed
<1> HIDE DEF d
<1>3. DashboardSound(d)
  BY <1>1, <1>2 DEF DashboardSound, HasCalls
<1>4. teams' \in [Slug -> [at : 0..TeamChanges, role : TeamPage!ViewerRole]]
  BY DEF TeamPageInv, TeamPage!TypeOK
<1> QED
  BY <1>2, <1>3, <1>4, TeamPageSoundInv DEF d

\* What the six fields of the page hold that the viewer's actions change.
LEMMA TeamPageFields ==
    ASSUME TeamPageInv
    PROVE  /\ dashboard \in TeamPage!Dashboard /\ dashboard.slug \in Slug
           /\ dashboard.tab \in {"roster", "overview"} /\ dashboard.dialog \in TeamPage!Dialog
           /\ dashboard.panel \in PanelState /\ dashboard.changed \in BOOLEAN
           /\ dashboard.form \in (0..TeamChanges) \union {None} /\ dashboard.calls \in SUBSET TeamPage!Call
           /\ HasCalls(dashboard.panel, dashboard.calls)
BY DEF TeamPageInv, TeamPage!TypeOK, TeamPage!Dashboard, PanelState, DashboardSound, HasCalls

LEMMA TeamPageFreshPanel ==
    ASSUME NEW calls
    PROVE  TeamPage!FreshPanel \in PanelState /\ HasCalls(TeamPage!FreshPanel, calls)
BY DEF TeamPage!FreshPanel, PanelState, HasCalls

LEMMA TeamPageCallsWith ==
    ASSUME TeamPageInv, NEW k \in TeamPage!CallKind, NEW b \in 0..TeamChanges
    PROVE  /\ TeamPage!CallsWith(k, b) \in SUBSET TeamPage!Call
           /\ dashboard.calls \subseteq TeamPage!CallsWith(k, b)
           /\ \E c \in TeamPage!CallsWith(k, b) : c.kind = k /\ c.mounted
<1> DEFINE c == [kind |-> k, of |-> dashboard.slug, mounted |-> TRUE, base |-> b]
<1>1. c \in TeamPage!Call /\ c.kind = k /\ c.mounted
  BY TeamPageFields DEF TeamPage!Call
<1>2. TeamPage!CallsWith(k, b) = dashboard.calls \union {c}
  BY DEF TeamPage!CallsWith
<1> HIDE DEF c
<1> QED
  BY <1>1, <1>2, TeamPageFields

\* A call that changes nothing but the dialog that is shown.
LEMMA TeamPageCallInv ==
    ASSUME TeamPageInv, UNCHANGED teams, NEW k \in TeamPage!CallKind, NEW b \in 0..TeamChanges,
           NEW dialog \in TeamPage!Dialog,
           dashboard' = [dashboard EXCEPT !.dialog = dialog, !.calls = TeamPage!CallsWith(k, b)]
    PROVE  TeamPageInv'
<1> DEFINE calls == TeamPage!CallsWith(k, b)
<1>1. calls \in SUBSET TeamPage!Call /\ HasCalls(dashboard.panel, calls)
  BY TeamPageFields, TeamPageCallsWith DEF HasCalls
<1>2. dashboard' = [dashboard EXCEPT !.dialog = dialog, !.calls = calls]
  OBVIOUS
<1> HIDE DEF calls
<1>3. dashboard' = Viewed(dashboard.tab, dialog, dashboard.panel, dashboard.changed, dashboard.form, calls)
  BY <1>2, TeamPageFields DEF TeamPage!Dashboard, Viewed
<1>4. /\ dashboard.tab \in {"roster", "overview"} /\ dashboard.dialog \in TeamPage!Dialog
      /\ dashboard.panel \in PanelState /\ dashboard.changed \in BOOLEAN
      /\ dashboard.form \in (0..TeamChanges) \union {None} /\ dashboard.calls \in SUBSET TeamPage!Call
      /\ HasCalls(dashboard.panel, dashboard.calls)
  BY TeamPageFields
<1> QED
  BY <1>1, <1>3, <1>4, TeamPageViewInv

LEMMA TeamPageCallsInv ==
    ASSUME TeamPageInv,
           \/ \E k \in TeamPage!MenuKind : TeamPage!ChooseInMenu(k)
           \/ \E k \in {"approve", "reject"} : TeamPage!Review(k)
           \/ TeamPage!ConfirmDelete \/ TeamPage!SaveInvitation
           \/ \E m \in TeamPage!Method : TeamPage!CancelInvite(m)
           \/ TeamPage!InviteFound \/ TeamPage!SaveTeam
    PROVE  TeamPageInv'
<1>1. 0 \in 0..TeamChanges /\ "none" \in TeamPage!Dialog /\ dashboard.dialog \in TeamPage!Dialog
  BY TeamPageAssumption, TeamPageFields DEF TeamPage!Dialog
<1>2. \A k, b : [dashboard EXCEPT !.calls = TeamPage!CallsWith(k, b)]
                = [dashboard EXCEPT !.dialog = dashboard.dialog, !.calls = TeamPage!CallsWith(k, b)]
  BY TeamPageFields DEF TeamPage!Dashboard
<1>3. ASSUME NEW k \in TeamPage!MenuKind, TeamPage!ChooseInMenu(k) PROVE TeamPageInv'
  <2>1. k \in TeamPage!CallKind
    BY DEF TeamPage!CallKind
  <2> QED
    BY <1>1, <1>3, <2>1, TeamPageCallInv DEF TeamPage!ChooseInMenu
<1>4. ASSUME NEW k \in TeamPage!CallKind, NEW b \in 0..TeamChanges, UNCHANGED teams,
             dashboard' = [dashboard EXCEPT !.calls = TeamPage!CallsWith(k, b)]
      PROVE  TeamPageInv'
  BY <1>1, <1>2, <1>4, TeamPageCallInv
<1>5. {"approve", "reject", "deleteInvite", "saveInvite", "saveTeam", "invite", "cutlink", "cutcode"} \subseteq TeamPage!CallKind
  BY DEF TeamPage!CallKind, TeamPage!ModalKind
<1>6. ASSUME NEW k \in {"approve", "reject"}, TeamPage!Review(k) PROVE TeamPageInv'
  BY <1>1, <1>4, <1>5, <1>6 DEF TeamPage!Review
<1>7. CASE TeamPage!ConfirmDelete
  BY <1>1, <1>4, <1>5, <1>7 DEF TeamPage!ConfirmDelete
<1>8. CASE TeamPage!SaveInvitation
  BY <1>1, <1>4, <1>5, <1>8 DEF TeamPage!SaveInvitation
<1>9. ASSUME NEW m \in TeamPage!Method, TeamPage!CancelInvite(m) PROVE TeamPageInv'
  <2>1. TeamPage!CutKind(m) \in TeamPage!CallKind
    BY <1>5 DEF TeamPage!CutKind
  <2> QED
    BY <1>1, <1>4, <1>9, <2>1 DEF TeamPage!CancelInvite
<1>10. CASE TeamPage!InviteFound
  BY <1>1, <1>4, <1>5, <1>10 DEF TeamPage!InviteFound
<1>11. CASE TeamPage!SaveTeam
  <2>1. dashboard.team \in TeamPage!Snapshot
    BY <1>11, TeamPageScreen, TeamPageFields DEF TeamPage!SaveTeam, TeamPage!FormOpen, TeamPage!Dashboard
  <2>2. dashboard.team.at \in 0..TeamChanges
    BY <2>1 DEF TeamPage!Snapshot
  <2> QED
    BY <1>4, <1>5, <1>11, <2>2 DEF TeamPage!SaveTeam
<1> QED
  BY <1>3, <1>6, <1>7, <1>8, <1>9, <1>10, <1>11

LEMMA TeamPagePanelInv ==
    ASSUME TeamPageInv, NEW m \in TeamPage!Method, TeamPage!Confirm(m) \/ TeamPage!Generate(m)
    PROVE  TeamPageInv'
<1>1. dashboard \in TeamPage!Dashboard /\ dashboard.panel \in PanelState
  BY TeamPageFields
<1>2. CASE TeamPage!Confirm(m)
  <2> DEFINE panel == [dashboard.panel EXCEPT ![m] = IF @ = "form" THEN "confirm" ELSE "form"]
  <2>1. panel \in PanelState /\ HasCalls(panel, dashboard.calls)
    BY <1>1, TeamPageFields DEF PanelState, HasCalls
  <2>2. dashboard' = [dashboard EXCEPT !.panel = panel] /\ UNCHANGED teams
    BY <1>1, <1>2 DEF TeamPage!Confirm, TeamPage!Dashboard
  <2> HIDE DEF panel
  <2>3. dashboard' = Viewed(dashboard.tab, dashboard.dialog, panel, dashboard.changed, dashboard.form, dashboard.calls)
    BY <1>1, <2>2 DEF TeamPage!Dashboard, Viewed
  <2>9. /\ dashboard.tab \in {"roster", "overview"} /\ dashboard.dialog \in TeamPage!Dialog
        /\ dashboard.panel \in PanelState /\ dashboard.changed \in BOOLEAN
        /\ dashboard.form \in (0..TeamChanges) \union {None} /\ dashboard.calls \in SUBSET TeamPage!Call
        /\ HasCalls(dashboard.panel, dashboard.calls)
    BY TeamPageFields
  <2> QED
    BY <2>1, <2>2, <2>3, <2>9, TeamPageViewInv
<1>3. CASE TeamPage!Generate(m)
  <2> DEFINE panel == [dashboard.panel EXCEPT ![m] = "loading"]
             calls == TeamPage!CallsWith(TeamPage!MakeKind(m), 0)
  <2>1. TeamPage!MakeKind(m) \in TeamPage!CallKind /\ 0 \in 0..TeamChanges
    BY TeamPageAssumption DEF TeamPage!MakeKind, TeamPage!CallKind, TeamPage!ModalKind
  <2>2. calls \in SUBSET TeamPage!Call /\ dashboard.calls \subseteq calls
          /\ \E c \in calls : c.kind = TeamPage!MakeKind(m) /\ c.mounted
    BY <2>1, TeamPageCallsWith
  <2>3. dashboard' = [dashboard EXCEPT !.panel = panel, !.calls = calls] /\ UNCHANGED teams
    BY <1>1, <1>3 DEF TeamPage!Generate, TeamPage!Dashboard
  <2> HIDE DEF calls
  <2>4. panel \in PanelState /\ HasCalls(panel, calls)
    BY <1>1, <2>2, TeamPageFields DEF PanelState, HasCalls
  <2> HIDE DEF panel
  <2>5. UNCHANGED teams
          /\ dashboard' = Viewed(dashboard.tab, dashboard.dialog, panel, dashboard.changed, dashboard.form, calls)
    BY <1>1, <2>3 DEF TeamPage!Dashboard, Viewed
  <2>9. /\ dashboard.tab \in {"roster", "overview"} /\ dashboard.dialog \in TeamPage!Dialog
        /\ dashboard.panel \in PanelState /\ dashboard.changed \in BOOLEAN
        /\ dashboard.form \in (0..TeamChanges) \union {None} /\ dashboard.calls \in SUBSET TeamPage!Call
        /\ HasCalls(dashboard.panel, dashboard.calls)
    BY TeamPageFields
  <2> QED
    BY <2>2, <2>4, <2>5, <2>9, TeamPageViewInv
<1> QED
  BY <1>2, <1>3

LEMMA TeamPageOpensInv ==
    ASSUME TeamPageInv,
           \/ \E t \in {"roster", "overview"} : TeamPage!OpenTab(t)
           \/ \E d \in TeamPage!Dialog : TeamPage!OpenDialog(d)
           \/ TeamPage!StartEdit \/ TeamPage!CancelEdit
    PROVE  TeamPageInv'
<1>1. dashboard \in TeamPage!Dashboard /\ "none" \in TeamPage!Dialog
  BY TeamPageFields DEF TeamPage!Dialog
<1>2. ASSUME NEW t \in {"roster", "overview"}, TeamPage!OpenTab(t) PROVE TeamPageInv'
  <2> DEFINE calls == {[c EXCEPT !.mounted = FALSE] : c \in dashboard.calls}
             panel == TeamPage!FreshPanel
  <2>1. calls \in SUBSET TeamPage!Call
    BY TeamPageFields DEF TeamPage!Call
  <2>2. /\ dashboard' = Viewed(t, "none", panel, FALSE, None, calls)
        /\ UNCHANGED teams
    BY <1>1, <1>2 DEF TeamPage!OpenTab, TeamPage!Dashboard, Viewed
  <2>3. panel \in PanelState /\ HasCalls(panel, calls)
    BY TeamPageFreshPanel
  <2> HIDE DEF calls, panel
  <2> QED
    BY <1>1, <2>1, <2>2, <2>3, TeamPageViewInv
<1>3. ASSUME NEW d \in TeamPage!Dialog, TeamPage!OpenDialog(d) PROVE TeamPageInv'
  <2> DEFINE panel == TeamPage!FreshPanel
  <2>1. /\ dashboard' = Viewed(dashboard.tab, d, panel, FALSE, dashboard.form, dashboard.calls)
        /\ UNCHANGED teams
    BY <1>1, <1>3 DEF TeamPage!OpenDialog, TeamPage!Dashboard, Viewed
  <2>2. panel \in PanelState /\ HasCalls(panel, dashboard.calls)
    BY TeamPageFreshPanel
  <2> HIDE DEF panel
  <2>9. /\ dashboard.tab \in {"roster", "overview"} /\ dashboard.dialog \in TeamPage!Dialog
        /\ dashboard.panel \in PanelState /\ dashboard.changed \in BOOLEAN
        /\ dashboard.form \in (0..TeamChanges) \union {None} /\ dashboard.calls \in SUBSET TeamPage!Call
        /\ HasCalls(dashboard.panel, dashboard.calls)
    BY TeamPageFields
  <2> QED
    BY <2>1, <2>2, <2>9, TeamPageViewInv
<1>4. ASSUME NEW form \in (0..TeamChanges) \union {None}, dashboard' = [dashboard EXCEPT !.form = form],
             UNCHANGED teams
      PROVE  TeamPageInv'
  <2>1. UNCHANGED teams
          /\ dashboard' = Viewed(dashboard.tab, dashboard.dialog, dashboard.panel, dashboard.changed, form, dashboard.calls)
    BY <1>1, <1>4 DEF TeamPage!Dashboard, Viewed
  <2>9. /\ dashboard.tab \in {"roster", "overview"} /\ dashboard.dialog \in TeamPage!Dialog
        /\ dashboard.panel \in PanelState /\ dashboard.changed \in BOOLEAN
        /\ dashboard.form \in (0..TeamChanges) \union {None} /\ dashboard.calls \in SUBSET TeamPage!Call
        /\ HasCalls(dashboard.panel, dashboard.calls)
    BY TeamPageFields
  <2> QED
    BY <2>1, <2>9, TeamPageViewInv
<1>5. CASE TeamPage!StartEdit
  <2>1. dashboard.team \in TeamPage!Snapshot
    BY <1>1, <1>5, TeamPageScreen DEF TeamPage!StartEdit, TeamPage!Dashboard
  <2>2. dashboard.team.at \in 0..TeamChanges
    BY <2>1 DEF TeamPage!Snapshot
  <2> QED
    BY <1>4, <1>5, <2>2 DEF TeamPage!StartEdit
<1>6. CASE TeamPage!CancelEdit
  BY <1>4, <1>6 DEF TeamPage!CancelEdit
<1> QED
  BY <1>2, <1>3, <1>5, <1>6

\* A dialog that closes loads the roster again, or not.
LEMMA TeamPageCloseInv == ASSUME TeamPageInv, TeamPage!CloseDialog PROVE TeamPageInv'
<1> DEFINE gone == CASE dashboard.dialog = "edit" -> {"saveInvite"}
                     [] dashboard.dialog = "add" -> TeamPage!ModalKind
                     [] OTHER -> {}
           reload == dashboard.dialog = "add" /\ dashboard.changed
           calls == {[c EXCEPT !.mounted = @ /\ c.kind \notin gone] : c \in dashboard.calls}
           loads == IF reload THEN TeamPage!LoadsWith(dashboard.loads, dashboard.slug) ELSE dashboard.loads
           panel == TeamPage!FreshPanel
           d == [dashboard EXCEPT !.dialog = "none", !.panel = panel, !.changed = FALSE,
                                  !.calls = calls, !.loads = loads]
<1>1. /\ dashboard \in TeamPage!Dashboard /\ DashboardSound(dashboard) /\ "none" \in TeamPage!Dialog
      /\ dashboard.loads \in SUBSET TeamPage!Load /\ dashboard.slug \in Slug /\ UNCHANGED teams
      /\ teams' \in [Slug -> [at : 0..TeamChanges, role : TeamPage!ViewerRole]]
  BY TeamPageFields DEF TeamPageInv, TeamPage!TypeOK, TeamPage!Dialog, TeamPage!Dashboard,
     TeamPage!CloseDialog
<1>2. dashboard' = d /\ (reload => TeamPage!RoomForLoad(dashboard.loads) # {})
  BY <1>1 DEF TeamPage!CloseDialog, TeamPage!Dashboard
<1> HIDE DEF gone
<1>3. calls \in SUBSET TeamPage!Call
  <2>1. \A c \in dashboard.calls : c.mounted \in BOOLEAN /\ (c.mounted /\ c.kind \notin gone) \in BOOLEAN
    BY TeamPageFields DEF TeamPage!Call
  <2> QED
    BY <2>1, TeamPageFields DEF TeamPage!Call
<1>4. panel \in PanelState /\ HasCalls(panel, calls)
  BY TeamPageFreshPanel
<1>5. /\ loads \in SUBSET TeamPage!Load /\ (dashboard.loads # {} => loads # {})
      /\ \A l \in loads : l \in dashboard.loads \/ l.step = "team"
  BY <1>1, <1>2, TeamPageSnapshot, TeamPageLoadsWith
<1> HIDE DEF calls, loads, panel
<1>6. /\ d \in TeamPage!Dashboard /\ d.loads = loads /\ d.team = dashboard.team
      /\ d.loading = dashboard.loading /\ d.denied = dashboard.denied
      /\ d.panel = panel /\ d.calls = calls
  BY <1>1, <1>3, <1>4, <1>5 DEF TeamPage!Dashboard, PanelState
<1> HIDE DEF d
<1>7. DashboardSound(d)
  BY <1>1, <1>4, <1>5, <1>6 DEF DashboardSound, HasCalls
<1> QED
  BY <1>1, <1>2, <1>6, <1>7, TeamPageSoundInv

-----------------------------------------------------------------------------
(* The answers. *)

LEMMA TeamPageMade ==
    ASSUME TeamPageInv, NEW c \in TeamPage!Call, TeamPage!Accepts(c)
    PROVE  TeamPage!Made(c) \in [Slug -> [at : 0..TeamChanges, role : TeamPage!ViewerRole]]
<1> DEFINE Place == [at : 0..TeamChanges, role : TeamPage!ViewerRole]
           at == teams[c.of].at + 1
           later == [teams EXCEPT ![c.of].at = at]
           role == IF c.kind = "transfer" THEN "member" ELSE later[c.of].role
<1>1. /\ c.of \in Slug /\ teams \in [Slug -> Place] /\ teams[c.of] \in Place
      /\ teams[c.of].at \in 0..TeamChanges /\ teams[c.of].role \in TeamPage!ViewerRole
  BY TeamPageSnapshot DEF TeamPage!Call, TeamPageInv, TeamPage!TypeOK
<1>2. at \in 0..TeamChanges
  BY <1>1, TeamPageAssumption DEF TeamPage!Accepts
<1>3. TeamPage!Made(c) = [later EXCEPT ![c.of].role = role]
  BY <1>1 DEF TeamPage!Made
<1> HIDE DEF at
<1>4. [teams[c.of] EXCEPT !.at = at] \in Place
  BY <1>1, <1>2
<1>5. later \in [Slug -> Place]
  BY <1>1, <1>4
<1> HIDE DEF later
<1>6. role \in TeamPage!ViewerRole /\ later[c.of] \in Place
  BY <1>1, <1>5 DEF TeamPage!ViewerRole
<1> HIDE DEF role
<1>7. [later[c.of] EXCEPT !.role = role] \in Place
  BY <1>6
<1> QED
  BY <1>1, <1>3, <1>5, <1>7

\* The panel of the invite that is answered is no longer loading; every other
\* one still has its call.
LEMMA TeamPagePanelAfter ==
    ASSUME TeamPageInv, NEW c \in dashboard.calls, NEW made \in {"ready", "form"}
    PROVE  TeamPage!PanelAfter(c, made) \in PanelState
             /\ HasCalls(TeamPage!PanelAfter(c, made), dashboard.calls \ {c})
<1>1. dashboard.panel \in PanelState /\ HasCalls(dashboard.panel, dashboard.calls)
  BY TeamPageFields
<1>2. ASSUME NEW m \in TeamPage!Method
      PROVE  /\ TeamPage!PanelAfter(c, made)[m] \in {"ready", "form", dashboard.panel[m]}
             /\ (c.mounted /\ c.kind = TeamPage!MakeKind(m)) => TeamPage!PanelAfter(c, made)[m] = made
  <2> TeamPage!MakeKind(m) # TeamPage!CutKind(m)
    BY DEF TeamPage!MakeKind, TeamPage!CutKind
  <2>1. CASE c.mounted /\ c.kind = TeamPage!MakeKind(m)
    BY <2>1 DEF TeamPage!PanelAfter
  <2>2. CASE ~(c.mounted /\ c.kind = TeamPage!MakeKind(m)) /\ c.mounted /\ c.kind = TeamPage!CutKind(m)
    BY <2>2 DEF TeamPage!PanelAfter
  <2>3. CASE ~(c.mounted /\ c.kind = TeamPage!MakeKind(m)) /\ ~(c.mounted /\ c.kind = TeamPage!CutKind(m))
    BY <2>3 DEF TeamPage!PanelAfter
  <2> QED
    BY <2>1, <2>2, <2>3
<1>3. TeamPage!PanelAfter(c, made) \in PanelState
  <2>1. \A m \in TeamPage!Method : TeamPage!PanelAfter(c, made)[m] \in {"form", "confirm", "loading", "ready"}
    BY <1>1, <1>2 DEF PanelState
  <2> DEFINE f == TeamPage!PanelAfter(c, made)
  <2>2. f = [m \in TeamPage!Method |-> f[m]]
    BY DEF TeamPage!PanelAfter
  <2> HIDE DEF f
  <2> QED
    BY <2>1, <2>2 DEF PanelState, f
<1>4. ASSUME NEW m \in TeamPage!Method, TeamPage!PanelAfter(c, made)[m] = "loading"
      PROVE  \E k \in dashboard.calls \ {c} : k.kind = TeamPage!MakeKind(m) /\ k.mounted
  <2>1. ~(c.mounted /\ c.kind = TeamPage!MakeKind(m)) /\ dashboard.panel[m] = "loading"
    BY <1>2, <1>4
  <2>2. PICK k \in dashboard.calls : k.kind = TeamPage!MakeKind(m) /\ k.mounted
    BY <1>1, <2>1 DEF HasCalls
  <2> QED
    BY <2>1, <2>2
<1> QED
  BY <1>3, <1>4 DEF HasCalls

LEMMA TeamPageSucceedsInv ==
    ASSUME TeamPageInv, NEW c \in dashboard.calls, TeamPage!Succeeds(c)
    PROVE  TeamPageInv'
<1> DEFINE calls == dashboard.calls \ {c}
           loads == IF TeamPage!Reloads(c) THEN TeamPage!LoadsWith(dashboard.loads, c.of) ELSE dashboard.loads
           edits == dashboard.changed \/ (c.mounted /\ c.kind \in TeamPage!ModalKind)
           panel == TeamPage!PanelAfter(c, "ready")
           dialog == IF c.mounted /\ c.kind \in {"deleteInvite", "saveInvite"}
                     THEN "none" ELSE dashboard.dialog
           shown == [of |-> c.of, at |-> teams[c.of].at + 1, role |-> teams[c.of].role]
           team == IF c.kind = "saveTeam" THEN shown ELSE dashboard.team
           form == IF c.mounted /\ c.kind = "saveTeam" THEN None ELSE dashboard.form
           d == [dashboard EXCEPT !.calls = calls, !.loads = loads, !.changed = edits, !.panel = panel,
                                  !.dialog = dialog, !.team = team, !.form = form]
<1>1. /\ dashboard \in TeamPage!Dashboard /\ DashboardSound(dashboard) /\ c \in TeamPage!Call /\ c.of \in Slug
      /\ c.mounted \in BOOLEAN
      /\ dashboard.loads \in SUBSET TeamPage!Load /\ dashboard.team \in TeamPage!Snapshot \union {None}
      /\ teams[c.of].at \in 0..TeamChanges /\ teams[c.of].role \in TeamPage!ViewerRole /\ TeamPage!Accepts(c)
  BY TeamPageSnapshot DEF TeamPageInv, TeamPage!TypeOK, TeamPage!Dashboard, TeamPage!Call, TeamPage!Succeeds
<1>2. teams' \in [Slug -> [at : 0..TeamChanges, role : TeamPage!ViewerRole]]
  BY <1>1, TeamPageMade DEF TeamPage!Succeeds
<1>3. dashboard' = d /\ (TeamPage!Reloads(c) => TeamPage!RoomForLoad(dashboard.loads) # {})
  BY <1>1 DEF TeamPage!Succeeds, TeamPage!Dashboard
<1>4. calls \in SUBSET TeamPage!Call /\ edits \in BOOLEAN /\ dialog \in TeamPage!Dialog
        /\ form \in (0..TeamChanges) \union {None}
  BY <1>1, TeamPageFields DEF TeamPage!Dialog
<1>5. panel \in PanelState /\ HasCalls(panel, calls)
  BY TeamPagePanelAfter
<1>6. /\ loads \in SUBSET TeamPage!Load /\ (dashboard.loads # {} => loads # {})
      /\ \A l \in loads : l \in dashboard.loads \/ l.step = "team"
  BY <1>1, <1>3, TeamPageSnapshot, TeamPageLoadsWith
<1>7. team \in TeamPage!Snapshot \union {None} /\ (team = None => dashboard.team = None)
  <2>1. shown \in TeamPage!Snapshot
    BY <1>1, TeamPageAssumption DEF TeamPage!Accepts, TeamPage!Snapshot
  <2> HIDE DEF shown
  <2> QED
    BY <1>1, <2>1, TeamPageAssumption
<1> HIDE DEF calls, loads, edits, panel, dialog, team, form
<1>8. /\ d \in TeamPage!Dashboard /\ d.loads = loads /\ d.team = team
      /\ d.loading = dashboard.loading /\ d.denied = dashboard.denied
      /\ d.panel = panel /\ d.calls = calls
  BY <1>1, <1>4, <1>5, <1>6, <1>7 DEF TeamPage!Dashboard, PanelState
<1> HIDE DEF d
<1>9. DashboardSound(d)
  BY <1>1, <1>5, <1>6, <1>7, <1>8 DEF DashboardSound, HasCalls
<1> QED
  BY <1>2, <1>3, <1>8, <1>9, TeamPageSoundInv

LEMMA TeamPageFailsInv == ASSUME TeamPageInv, NEW c \in dashboard.calls, TeamPage!Fails(c) PROVE TeamPageInv'
<1> DEFINE calls == dashboard.calls \ {c}
           panel == TeamPage!PanelAfter(c, "form")
           dialog == IF c.mounted /\ c.kind = "deleteInvite" THEN "none" ELSE dashboard.dialog
           d == [dashboard EXCEPT !.calls = calls, !.panel = panel, !.dialog = dialog]
<1>1. /\ dashboard \in TeamPage!Dashboard /\ DashboardSound(dashboard) /\ c \in TeamPage!Call
      /\ teams \in [Slug -> [at : 0..TeamChanges, role : TeamPage!ViewerRole]]
  BY DEF TeamPageInv, TeamPage!TypeOK, TeamPage!Dashboard
<1>2. teams' \in [Slug -> [at : 0..TeamChanges, role : TeamPage!ViewerRole]]
  BY <1>1, TeamPageMade DEF TeamPage!Fails
<1>3. dashboard' = d
  BY <1>1 DEF TeamPage!Fails, TeamPage!Dashboard
<1>4. calls \in SUBSET TeamPage!Call /\ dialog \in TeamPage!Dialog
  BY <1>1, TeamPageFields DEF TeamPage!Dialog
<1>5. panel \in PanelState /\ HasCalls(panel, calls)
  BY TeamPagePanelAfter
<1> HIDE DEF calls, panel, dialog
<1>6. /\ d \in TeamPage!Dashboard /\ d.loads = dashboard.loads /\ d.team = dashboard.team
      /\ d.loading = dashboard.loading /\ d.denied = dashboard.denied
      /\ d.panel = panel /\ d.calls = calls
  BY <1>1, <1>4, <1>5 DEF TeamPage!Dashboard, PanelState
<1> HIDE DEF d
<1>7. DashboardSound(d)
  BY <1>1, <1>5, <1>6 DEF DashboardSound, HasCalls
<1> QED
  BY <1>2, <1>3, <1>6, <1>7, TeamPageSoundInv

LEMMA TeamPageInitInv == TeamPage!Init => TeamPageInv
<1> SUFFICES ASSUME TeamPage!Init PROVE TeamPageInv
  OBVIOUS
<1>1. teams \in [Slug -> [at : 0..TeamChanges, role : TeamPage!ViewerRole]]
  BY TeamPageAssumption DEF TeamPage!Init, TeamPage!ViewerRole
<1>2. PICK s \in Slug : dashboard = TeamPage!FreshPage(s)
  BY DEF TeamPage!Init
<1>3. TeamPage!Seen(s) \in TeamPage!Snapshot
  BY <1>1 DEF TeamPage!Seen, TeamPage!Snapshot
<1>4. TeamPage!RoomForLoad({}) # {} /\ {} \in SUBSET TeamPage!Load
  <2>1. 1 \in 1..TeamLoads
    BY TeamPageAssumption
  <2> QED
    BY <2>1 DEF TeamPage!RoomForLoad
<1> DEFINE loads == TeamPage!LoadsWith({}, s)
<1>5. loads \in SUBSET TeamPage!Load /\ loads # {} /\ \A l \in loads : l.step = "team"
  BY <1>3, <1>4, TeamPageLoadsWith
<1>6. dashboard = [slug |-> s, tab |-> "roster", team |-> None, lists |-> None,
                   loading |-> TRUE, denied |-> FALSE, loads |-> loads,
                   dialog |-> "none", panel |-> TeamPage!FreshPanel, changed |-> FALSE, form |-> None,
                   calls |-> {}]
  BY <1>2 DEF TeamPage!FreshPage
<1> HIDE DEF loads
<1>7. TeamPage!FreshPanel \in PanelState /\ HasCalls(TeamPage!FreshPanel, {})
  BY TeamPageFreshPanel
<1>8. dashboard \in TeamPage!Dashboard
  BY <1>5, <1>6, <1>7 DEF TeamPage!Dashboard, PanelState, TeamPage!Dialog
<1>9. DashboardSound(dashboard)
  BY <1>5, <1>6, <1>7 DEF DashboardSound, HasCalls
<1> QED
  BY <1>1, <1>8, <1>9 DEF TeamPageInv, TeamPage!TypeOK

LEMMA TeamPageStep == ASSUME TeamPageInv, [TeamPage!Next]_TeamPage!dashboardVars PROVE TeamPageInv'
<1>1. CASE UNCHANGED TeamPage!dashboardVars
  BY <1>1 DEF TeamPage!dashboardVars, TeamPageInv, TeamPage!TypeOK, DashboardSound
<1>2. CASE TeamPage!Viewer
  BY <1>2, TeamPageCallsInv, TeamPagePanelInv, TeamPageOpensInv, TeamPageCloseInv DEF TeamPage!Viewer
<1>3. CASE \E n \in 1..TeamLoads : TeamPage!Arrive(n)
  BY <1>3, TeamPageArriveInv DEF TeamPage!Arrive
<1>4. CASE \E k \in TeamPage!CallKind : TeamPage!Answer(k)
  BY <1>4, TeamPageSucceedsInv, TeamPageFailsInv DEF TeamPage!Answer
<1>5. ASSUME NEW s \in Slug, NEW r \in TeamPage!ViewerRole, TeamPage!OthersChange(s, r) PROVE TeamPageInv'
  <2> DEFINE at == teams[s].at + 1
  <2>1. at \in 0..TeamChanges
    BY <1>5, TeamPageSnapshot, TeamPageAssumption DEF TeamPage!OthersChange
  <2>2. teams' = [teams EXCEPT ![s] = [at |-> at, role |-> r]] /\ dashboard' = dashboard
    BY <1>5 DEF TeamPage!OthersChange, TeamPageInv, TeamPage!TypeOK
  <2> HIDE DEF at
  <2>3. teams' \in [Slug -> [at : 0..TeamChanges, role : TeamPage!ViewerRole]]
    BY <2>1, <2>2 DEF TeamPageInv, TeamPage!TypeOK
  <2> QED
    BY <2>2, <2>3, TeamPageSoundInv DEF TeamPageInv, TeamPage!TypeOK
<1> QED
  BY <1>1, <1>2, <1>3, <1>4, <1>5 DEF TeamPage!Next

(***************************************************************************)
(* The owner's pitch wizard (PitchWizard).                                 *)
(***************************************************************************)

\* Without a second click while the first waits, at most one submission waits, is
\* under way or loads the list, and the button knows of the latter two.
OneSubmission(n) ==
    ~wizard.doubled =>
        /\ wizard.calls <= 1
        /\ wizard.calls = 1 => ~wizard.reloading
        /\ wizard.calls = 1 \/ wizard.reloading =>
               wizard.submitting /\ \A p \in 1..n : wizard.waiting[p] = 0
        /\ \A p \in 1..n : wizard.waiting[p] <= 1
        /\ \A p, q \in 1..n : wizard.waiting[p] > 0 /\ wizard.waiting[q] > 0 => p = q

\* The address that was typed before the newest place was picked was typed.
TypedBefore == wizard.picks > 0 /\ wizard.form.place = wizard.picks /\ wizard.before[wizard.picks]
                 => wizard.touched

WizardInv(n) == Wizard(n)!WizardTypeOK /\ OneSubmission(n)
LookupsInv(n) == Wizard(n)!WizardTypeOK /\ draft = None /\ TypedBefore /\ Wizard(n)!AddressIsOfThePlace

LEMMA WizardImplies == ASSUME NEW n \in Nat, WizardInv(n) PROVE Wizard(n)!OneSubmissionUnlessWaiting
BY DEF WizardInv, OneSubmission, Wizard!OneSubmissionUnlessWaiting, Wizard!WizardTypeOK, Wizard!Wizard

LEMMA BaselineIs ==
    ASSUME NEW n \in Nat, NEW mode
    PROVE  /\ Wizard(n)!Baseline(mode) \in Wizard(n)!Form
           /\ Wizard(n)!Baseline(mode).place = 0
BY DEF Wizard!Baseline, Wizard!Form, Wizard!Place, Wizard!Blank

Restarted(n, w, open) == [Wizard(n)!Reset(w) EXCEPT !.open = open]

\* Closing, or starting over, is no business of lookups and submissions.
LEMMA ResetIs ==
    ASSUME NEW n \in Nat, NEW w \in Wizard(n)!Wizard, NEW open \in BOOLEAN,
           NEW next, next = Restarted(n, w, open)
    PROVE  /\ next \in Wizard(n)!Wizard /\ next.form.place = 0 /\ (~open => ~next.open)
           /\ next.picks = w.picks /\ next.lookups = w.lookups /\ next.before = w.before
           /\ next.waiting = w.waiting /\ next.calls = w.calls /\ next.reloading = w.reloading
           /\ next.submitting = w.submitting /\ next.doubled = w.doubled /\ next.crossed = w.crossed
<1> DEFINE form == Wizard(n)!Baseline(w.mode)
           touched == (w.mode = "edit")
<1>1. form \in Wizard(n)!Form /\ form.place = 0 /\ touched \in BOOLEAN
  BY BaselineIs
<1>2. next = [[w EXCEPT !.step = "details", !.reached = FALSE, !.restored = FALSE, !.form = form,
                        !.touched = touched] EXCEPT !.open = open]
  BY DEF Wizard!Reset, Restarted
<1> HIDE DEF form, touched
<1>3. [w EXCEPT !.step = "details", !.reached = FALSE, !.restored = FALSE, !.form = form, !.touched = touched]
         \in Wizard(n)!Wizard
  BY <1>1 DEF Wizard!Wizard, Wizard!Step
<1>4. next = [w EXCEPT !.step = "details", !.reached = FALSE, !.restored = FALSE, !.form = form,
                       !.touched = touched, !.open = open]
  BY <1>1, <1>2, <1>3 DEF Wizard!Wizard
<1> QED
  BY <1>1, <1>4 DEF Wizard!Wizard, Wizard!Step

\* The fields that the two invariants speak of.
SameLookups(w) ==
    /\ w.picks = wizard.picks /\ w.lookups = wizard.lookups /\ w.before = wizard.before
    /\ w.crossed = wizard.crossed
SameSubmissions(w) ==
    /\ w.waiting = wizard.waiting /\ w.calls = wizard.calls /\ w.reloading = wizard.reloading
    /\ w.submitting = wizard.submitting /\ w.doubled = wizard.doubled

LEMMA ResetInv ==
    ASSUME NEW n \in Nat, WizardInv(n) \/ LookupsInv(n), NEW open \in BOOLEAN,
           wizard' = Restarted(n, wizard, open),
           draft' = None \/ UNCHANGED draft
    PROVE  (WizardInv(n) => WizardInv(n)') /\ (LookupsInv(n) => LookupsInv(n)')
<1>1. wizard \in Wizard(n)!Wizard
  BY DEF WizardInv, LookupsInv, Wizard!WizardTypeOK
<1>2. wizard' \in Wizard(n)!Wizard /\ wizard'.form.place = 0 /\ SameLookups(wizard')
        /\ SameSubmissions(wizard')
  BY <1>1, ResetIs DEF SameLookups, SameSubmissions
<1>3. draft' \in Wizard(n)!Draft \union {None}
  BY DEF WizardInv, LookupsInv, Wizard!WizardTypeOK
<1>4. wizard.picks \in 0..n
  BY <1>1 DEF Wizard!Wizard, Wizard!Place
<1> QED
  BY <1>2, <1>3, <1>4 DEF WizardInv, LookupsInv, Wizard!WizardTypeOK, OneSubmission, TypedBefore,
     Wizard!AddressIsOfThePlace, SameSubmissions, SameLookups

\* A step of the wizard that neither looks up nor submits.
LEMMA QuietInv ==
    ASSUME NEW n \in Nat, WizardInv(n) \/ LookupsInv(n), wizard' \in Wizard(n)!Wizard,
           SameLookups(wizard'), SameSubmissions(wizard'),
           \/ wizard'.touched
           \/ /\ wizard'.form.place = wizard.form.place /\ wizard'.form.address = wizard.form.address
              /\ wizard'.touched = wizard.touched,
           wizard'.open => wizard.open,
           UNCHANGED draft
    PROVE  (WizardInv(n) => WizardInv(n)') /\ (LookupsInv(n) => LookupsInv(n)')
<1>1. ASSUME LookupsInv(n) PROVE TypedBefore' /\ Wizard(n)!AddressIsOfThePlace'
  BY <1>1 DEF LookupsInv, TypedBefore, Wizard!AddressIsOfThePlace, Wizard!LookedUp, Wizard!Blank, SameLookups
<1>2. ASSUME WizardInv(n) PROVE OneSubmission(n)'
  BY <1>2 DEF WizardInv, OneSubmission, SameSubmissions
<1> QED
  BY <1>1, <1>2 DEF WizardInv, LookupsInv, Wizard!WizardTypeOK

LEMMA StepsInv ==
    ASSUME NEW n \in Nat, WizardInv(n) \/ LookupsInv(n),
           \/ Wizard(n)!CloseWizard \/ Wizard(n)!StartOver \/ Wizard(n)!ChangePhotos \/ Wizard(n)!GoNext
           \/ Wizard(n)!GoBack \/ Wizard(n)!GoToStep \/ Wizard(n)!TypeAddress
    PROVE  (WizardInv(n) => WizardInv(n)') /\ (LookupsInv(n) => LookupsInv(n)')
<1>1. wizard \in Wizard(n)!Wizard
  BY DEF WizardInv, LookupsInv, Wizard!WizardTypeOK
<1>2. CASE Wizard(n)!CloseWizard
  BY <1>2, ResetInv DEF Wizard!CloseWizard, Wizard!Closed, Wizard!OnWizard, Restarted
<1>3. CASE Wizard(n)!StartOver
  <2>1. Wizard(n)!Reset(wizard) = Restarted(n, wizard, wizard.open) /\ wizard.open \in BOOLEAN
    <3> DEFINE form == Wizard(n)!Baseline(wizard.mode)
               touched == (wizard.mode = "edit")
    <3> HIDE DEF form, touched
    <3>1. [wizard EXCEPT !.step = "details", !.reached = FALSE, !.restored = FALSE, !.form = form,
              !.touched = touched]
            = [[wizard EXCEPT !.step = "details", !.reached = FALSE, !.restored = FALSE, !.form = form,
                        !.touched = touched] EXCEPT !.open = wizard.open]
      BY <1>1 DEF Wizard!Wizard
    <3>2. wizard.open \in BOOLEAN
      BY <1>1 DEF Wizard!Wizard
    <3> QED
      BY <3>1, <3>2 DEF Wizard!Reset, Restarted, form, touched
  <2> QED
    BY <1>3, <2>1, ResetInv DEF Wizard!StartOver
<1>4. CASE Wizard(n)!ChangePhotos \/ Wizard(n)!GoNext \/ Wizard(n)!GoBack \/ Wizard(n)!GoToStep
  <2>1. /\ wizard' \in Wizard(n)!Wizard /\ SameLookups(wizard') /\ SameSubmissions(wizard')
        /\ wizard'.form.place = wizard.form.place /\ wizard'.form.address = wizard.form.address
        /\ wizard'.touched = wizard.touched /\ wizard'.open = wizard.open
    <3>1. CASE Wizard(n)!ChangePhotos
      <4> DEFINE photos == ~wizard.form.photos
      <4>1. wizard' = [wizard EXCEPT !.form.photos = photos] /\ photos \in BOOLEAN
        BY <1>1, <3>1 DEF Wizard!ChangePhotos, Wizard!OnWizard, Wizard!Wizard, Wizard!Form
      <4> HIDE DEF photos
      <4> QED
        BY <1>1, <4>1 DEF Wizard!Wizard, Wizard!Form, SameLookups, SameSubmissions
    <3>2. CASE Wizard(n)!GoNext \/ Wizard(n)!GoBack \/ Wizard(n)!GoToStep
      BY <1>1, <3>2 DEF Wizard!GoNext, Wizard!GoBack, Wizard!GoToStep, Wizard!OnWizard,
         Wizard!Wizard, Wizard!Step, SameLookups, SameSubmissions
    <3> QED
      BY <1>4, <3>1, <3>2
  <2> QED
    BY <1>4, <2>1, QuietInv DEF Wizard!ChangePhotos, Wizard!GoNext, Wizard!GoBack, Wizard!GoToStep,
       Wizard!OnWizard
<1>5. CASE Wizard(n)!TypeAddress
  <2>1. PICK address \in {Wizard(n)!Typed, Wizard(n)!Blank} :
            wizard' = [wizard EXCEPT !.form.address = address, !.touched = TRUE] /\ UNCHANGED draft
    BY <1>5 DEF Wizard!TypeAddress, Wizard!OnWizard
  <2>2. address \in 0..Wizard(n)!Blank
    BY DEF Wizard!Typed, Wizard!Blank
  <2>3. /\ wizard' \in Wizard(n)!Wizard /\ SameLookups(wizard') /\ SameSubmissions(wizard')
        /\ wizard'.touched /\ wizard'.open = wizard.open
    BY <1>1, <2>1, <2>2 DEF Wizard!Wizard, Wizard!Form, SameLookups, SameSubmissions
  <2> QED
    BY <2>1, <2>3, QuietInv
<1> QED
  BY <1>2, <1>3, <1>4, <1>5

\* A draft of an earlier visit is restored; there is none while drafts are not kept.
LEMMA OpenInv ==
    ASSUME NEW n \in Nat, WizardInv(n) \/ LookupsInv(n), Wizard(n)!OpenWizard
    PROVE  (WizardInv(n) => WizardInv(n)') /\ (LookupsInv(n) => LookupsInv(n)')
<1>1. wizard \in Wizard(n)!Wizard /\ draft \in Wizard(n)!Draft \union {None}
  BY DEF WizardInv, LookupsInv, Wizard!WizardTypeOK
<1>2. CASE draft # None /\ Wizard(n)!Meaningful(draft.form)
  <2> DEFINE touched == (draft.form.address # Wizard(n)!Blank)
  <2>1. /\ draft.form \in Wizard(n)!Form /\ draft.step \in Wizard(n)!Step /\ draft.reached \in BOOLEAN
        /\ touched \in BOOLEAN
    BY <1>1, <1>2 DEF Wizard!Draft
  <2>2. /\ wizard' = [wizard EXCEPT !.open = TRUE, !.restored = TRUE, !.step = draft.step,
                                    !.reached = draft.reached, !.form = draft.form, !.touched = touched]
        /\ UNCHANGED draft
    BY <1>2 DEF Wizard!OpenWizard
  <2> HIDE DEF touched
  <2>3. wizard' \in Wizard(n)!Wizard /\ SameSubmissions(wizard')
    BY <1>1, <2>1, <2>2 DEF Wizard!Wizard, SameSubmissions
  <2> QED
    BY <1>2, <2>2, <2>3 DEF WizardInv, LookupsInv, Wizard!WizardTypeOK, OneSubmission, SameSubmissions
<1>3. CASE ~(draft # None /\ Wizard(n)!Meaningful(draft.form))
  BY <1>3, ResetInv DEF Wizard!OpenWizard, Restarted
<1> QED
  BY <1>2, <1>3

LEMMA PickInv ==
    ASSUME NEW n \in Nat, WizardInv(n) \/ LookupsInv(n), Wizard(n)!PickPlace
    PROVE  (WizardInv(n) => WizardInv(n)') /\ (LookupsInv(n) => LookupsInv(n)')
<1> DEFINE p == wizard.picks + 1
           cleared == [q \in Wizard(n)!Pick |-> IF wizard.lookups[q] = "timer" THEN "cleared" ELSE wizard.lookups[q]]
           lookups == [cleared EXCEPT ![p] = "timer"]
           before == [wizard.before EXCEPT ![p] = wizard.touched]
<1>1. wizard \in Wizard(n)!Wizard
  BY DEF WizardInv, LookupsInv, Wizard!WizardTypeOK
<1>2. p \in 1..n /\ p \in 0..n /\ wizard.touched \in BOOLEAN
  BY <1>1 DEF Wizard!PickPlace, Wizard!Wizard, Wizard!Place
<1>3. lookups \in [Wizard(n)!Pick -> Wizard(n)!Lookup] /\ lookups[p] = "timer"
  BY <1>1, <1>2 DEF Wizard!Wizard, Wizard!Lookup, Wizard!Pick
<1>4. before \in [Wizard(n)!Pick -> BOOLEAN] /\ before[p] = wizard.touched
  BY <1>1, <1>2 DEF Wizard!Wizard, Wizard!Pick
<1>5. /\ wizard' = [wizard EXCEPT !.picks = p, !.form.place = p, !.before = before, !.lookups = lookups]
      /\ UNCHANGED draft
  BY <1>1 DEF Wizard!PickPlace, Wizard!OnWizard, Wizard!Wizard
<1> HIDE DEF p, cleared, lookups, before
<1>6. wizard' \in Wizard(n)!Wizard
  BY <1>1, <1>2, <1>3, <1>4, <1>5 DEF Wizard!Wizard, Wizard!Form, Wizard!Place
<1>7. /\ wizard'.picks = p /\ wizard'.lookups = lookups /\ wizard'.before = before
      /\ wizard'.touched = wizard.touched /\ SameSubmissions(wizard')
  BY <1>1, <1>5 DEF Wizard!Wizard, SameSubmissions
<1> QED
  BY <1>2, <1>3, <1>4, <1>5, <1>6, <1>7 DEF WizardInv, LookupsInv, Wizard!WizardTypeOK, OneSubmission,
     SameSubmissions,
     TypedBefore, Wizard!AddressIsOfThePlace, Wizard!LookedUp

LEMMA AskInv ==
    ASSUME NEW n \in Nat, WizardInv(n) \/ LookupsInv(n), NEW p \in 1..n, Wizard(n)!AskAddress(p)
    PROVE  (WizardInv(n) => WizardInv(n)') /\ (LookupsInv(n) => LookupsInv(n)')
<1> DEFINE lookups == [wizard.lookups EXCEPT ![p] = "asked"]
<1>1. wizard \in Wizard(n)!Wizard
  BY DEF WizardInv, LookupsInv, Wizard!WizardTypeOK
<1>2. /\ lookups \in [Wizard(n)!Pick -> Wizard(n)!Lookup] /\ lookups[p] = "asked"
      /\ \A q \in 1..n : q # p => lookups[q] = wizard.lookups[q]
  BY <1>1 DEF Wizard!Wizard, Wizard!Lookup, Wizard!Pick
<1>3. wizard' = [wizard EXCEPT !.lookups = lookups] /\ UNCHANGED draft /\ wizard.lookups[p] = "timer"
  BY <1>1 DEF Wizard!AskAddress, Wizard!OnWizard, Wizard!Wizard
<1> HIDE DEF lookups
<1>4. /\ wizard' \in Wizard(n)!Wizard /\ wizard'.lookups = lookups /\ SameSubmissions(wizard')
      /\ wizard'.picks = wizard.picks /\ wizard'.form = wizard.form /\ wizard'.touched = wizard.touched
      /\ wizard'.before = wizard.before /\ wizard'.crossed = wizard.crossed /\ wizard'.open = wizard.open
  BY <1>1, <1>2, <1>3 DEF Wizard!Wizard, SameSubmissions
<1>5. wizard.picks \in 0..n
  BY <1>1 DEF Wizard!Wizard, Wizard!Place
<1> QED
  BY <1>2, <1>3, <1>4, <1>5 DEF WizardInv, LookupsInv, Wizard!WizardTypeOK, OneSubmission, SameSubmissions,
     TypedBefore, Wizard!AddressIsOfThePlace, Wizard!LookedUp, Wizard!Blank

\* The answer for a place comes to what the wizard shows by now.
LEMMA ArrivesInv ==
    ASSUME NEW n \in Nat, WizardInv(n) \/ LookupsInv(n), NEW p \in 1..n, Wizard(n)!AddressArrives(p)
    PROVE  (WizardInv(n) => WizardInv(n)') /\ (LookupsInv(n) => LookupsInv(n)')
<1>1. wizard \in Wizard(n)!Wizard
  BY DEF WizardInv, LookupsInv, Wizard!WizardTypeOK
<1>2. PICK found \in BOOLEAN :
         wizard' = [wizard EXCEPT
                        !.form.address = Wizard(n)!AddressAfter(wizard.form.address, found, wizard.before[p], p),
                        !.lookups[p] = "answered", !.waiting[p] = 0,
                        !.calls = wizard.calls + wizard.waiting[p],
                        !.submitting = wizard.submitting \/ wizard.waiting[p] > 0,
                        !.crossed = wizard.crossed \/ ~found \/ p # wizard.form.place]
  BY <1>1 DEF Wizard!AddressArrives, Wizard!OnWizard, Wizard!Wizard
<1> DEFINE address == Wizard(n)!AddressAfter(wizard.form.address, found, wizard.before[p], p)
           lookups == [wizard.lookups EXCEPT ![p] = "answered"]
           waiting == [wizard.waiting EXCEPT ![p] = 0]
           calls == wizard.calls + wizard.waiting[p]
           submitting == wizard.submitting \/ wizard.waiting[p] > 0
           crossed == wizard.crossed \/ ~found \/ p # wizard.form.place
<1>3. address \in 0..Wizard(n)!Blank
  BY <1>1 DEF Wizard!Wizard, Wizard!Form, Wizard!AddressAfter, Wizard!Blank
<1>4. /\ lookups \in [Wizard(n)!Pick -> Wizard(n)!Lookup]
      /\ \A q \in 1..n : q # p => lookups[q] = wizard.lookups[q]
  BY <1>1 DEF Wizard!Wizard, Wizard!Lookup, Wizard!Pick
<1>5. /\ waiting \in [Wizard(n)!Pick -> 0..2] /\ waiting[p] = 0
      /\ \A q \in 1..n : q # p => waiting[q] = wizard.waiting[q]
  BY <1>1 DEF Wizard!Wizard, Wizard!Pick
<1>6. wizard.calls \in 0..2 /\ wizard.waiting[p] \in 0..2 /\ calls \in 0..2 /\ submitting \in BOOLEAN
        /\ crossed \in BOOLEAN
  BY <1>1 DEF Wizard!AddressArrives, Wizard!Wizard, Wizard!Pick
<1>7. ~crossed => ~wizard.crossed /\ p = wizard.form.place /\ (wizard.before[p] \/ address = p)
  BY DEF Wizard!AddressAfter
<1>8. wizard' = [wizard EXCEPT !.form.address = address, !.lookups = lookups, !.waiting = waiting,
                               !.calls = calls, !.submitting = submitting, !.crossed = crossed]
  BY <1>1, <1>2 DEF Wizard!Wizard
<1>9. submitting <=> wizard.submitting \/ wizard.waiting[p] > 0
  BY <1>1 DEF Wizard!Wizard
<1>10. calls = wizard.calls + wizard.waiting[p]
  OBVIOUS
<1> HIDE DEF address, lookups, waiting, calls, submitting, crossed
<1>11. wizard' \in Wizard(n)!Wizard
  BY <1>1, <1>3, <1>4, <1>5, <1>6, <1>8 DEF Wizard!Wizard, Wizard!Form
<1>12. /\ wizard'.waiting = waiting /\ wizard'.calls = calls /\ wizard'.submitting = submitting
       /\ wizard'.crossed = crossed /\ wizard'.lookups = lookups /\ wizard'.doubled = wizard.doubled
       /\ wizard'.reloading = wizard.reloading /\ wizard'.picks = wizard.picks
       /\ wizard'.before = wizard.before /\ wizard'.touched = wizard.touched /\ wizard'.open = wizard.open
       /\ wizard'.form.place = wizard.form.place /\ wizard'.form.address = address
  BY <1>1, <1>8 DEF Wizard!Wizard, Wizard!Form
<1>13. UNCHANGED draft
  BY <1>2 DEF Wizard!AddressArrives, Wizard!OnWizard
<1>14. \A q \in 1..n : wizard.waiting[q] \in 0..2
  BY <1>1 DEF Wizard!Wizard, Wizard!Pick
<1>15. ASSUME WizardInv(n) PROVE OneSubmission(n)'
  BY <1>5, <1>6, <1>9, <1>10, <1>12, <1>14, <1>15 DEF WizardInv, OneSubmission
<1>16. ASSUME LookupsInv(n) PROVE TypedBefore' /\ Wizard(n)!AddressIsOfThePlace'
  BY <1>4, <1>7, <1>12, <1>16 DEF LookupsInv, TypedBefore, Wizard!AddressIsOfThePlace, Wizard!LookedUp,
     Wizard!Blank
<1> QED
  BY <1>11, <1>13, <1>15, <1>16 DEF WizardInv, LookupsInv, Wizard!WizardTypeOK

LEMMA FinishInv ==
    ASSUME NEW n \in Nat, WizardInv(n) \/ LookupsInv(n), Wizard(n)!Finish
    PROVE  (WizardInv(n) => WizardInv(n)') /\ (LookupsInv(n) => LookupsInv(n)')
<1> DEFINE p == wizard.picks
           doubled == wizard.doubled \/ \E q \in Wizard(n)!Pick : wizard.waiting[q] > 0
<1>1. wizard \in Wizard(n)!Wizard /\ ~wizard.submitting /\ wizard.calls < 2 /\ UNCHANGED draft
  BY DEF WizardInv, LookupsInv, Wizard!WizardTypeOK, Wizard!Finish, Wizard!CanFinish, Wizard!OnWizard
<1>2. doubled \in BOOLEAN /\ (~doubled => ~wizard.doubled /\ \A q \in 1..n : wizard.waiting[q] = 0)
  BY <1>1 DEF Wizard!Wizard, Wizard!Pick
<1>3. CASE Wizard(n)!LookedUp
  <2> DEFINE waiting == [wizard.waiting EXCEPT ![p] = wizard.waiting[p] + 1]
  <2>1. p \in 1..n /\ wizard.waiting[p] \in 0..1
    BY <1>1, <1>3 DEF Wizard!LookedUp, Wizard!Wizard, Wizard!Finish, Wizard!Place, Wizard!Pick
  <2>2. /\ waiting \in [Wizard(n)!Pick -> 0..2] /\ waiting[p] = wizard.waiting[p] + 1
        /\ \A q \in 1..n : q # p => waiting[q] = wizard.waiting[q]
    BY <1>1, <2>1 DEF Wizard!Wizard, Wizard!Pick
  <2>3. wizard' = [wizard EXCEPT !.waiting = waiting, !.doubled = doubled]
    BY <1>1, <1>3 DEF Wizard!Finish, Wizard!OnWizard, Wizard!Wizard
  <2> HIDE DEF waiting, doubled
  <2>4. /\ wizard' \in Wizard(n)!Wizard /\ wizard'.waiting = waiting /\ wizard'.doubled = doubled
        /\ wizard'.calls = wizard.calls /\ wizard'.reloading = wizard.reloading
        /\ wizard'.submitting = wizard.submitting
        /\ SameLookups(wizard') /\ wizard'.form = wizard.form /\ wizard'.touched = wizard.touched
        /\ wizard'.open = wizard.open
    BY <1>1, <1>2, <2>2, <2>3 DEF Wizard!Wizard, SameLookups
  <2>5. ASSUME WizardInv(n) PROVE OneSubmission(n)'
    <3>1. wizard.calls \in 0..2
      BY <1>1 DEF Wizard!Wizard
    <3> QED
      BY <1>1, <1>2, <2>1, <2>2, <2>4, <2>5, <3>1 DEF WizardInv, OneSubmission
  <2>6. ASSUME LookupsInv(n) PROVE TypedBefore' /\ Wizard(n)!AddressIsOfThePlace'
    BY <2>4, <2>6 DEF LookupsInv, TypedBefore, Wizard!AddressIsOfThePlace, Wizard!LookedUp, Wizard!Blank,
       SameLookups
  <2> QED
    BY <1>1, <2>4, <2>5, <2>6 DEF WizardInv, LookupsInv, Wizard!WizardTypeOK
<1>4. CASE ~Wizard(n)!LookedUp
  <2> DEFINE calls == wizard.calls + 1
  <2>1. wizard.calls \in 0..1 /\ calls \in 0..2 /\ calls = wizard.calls + 1
    BY <1>1 DEF Wizard!Wizard
  <2>3. wizard' = [wizard EXCEPT !.calls = calls, !.submitting = TRUE, !.doubled = doubled]
    BY <1>1, <1>4 DEF Wizard!Finish, Wizard!OnWizard, Wizard!Wizard
  <2> HIDE DEF calls, doubled
  <2>4. /\ wizard' \in Wizard(n)!Wizard /\ wizard'.waiting = wizard.waiting /\ wizard'.doubled = doubled
        /\ wizard'.calls = calls /\ wizard'.reloading = wizard.reloading /\ wizard'.submitting
        /\ SameLookups(wizard') /\ wizard'.form = wizard.form /\ wizard'.touched = wizard.touched
        /\ wizard'.open = wizard.open
    BY <1>1, <1>2, <2>1, <2>3 DEF Wizard!Wizard, SameLookups
  <2>5. ASSUME WizardInv(n) PROVE OneSubmission(n)'
    BY <1>1, <1>2, <2>1, <2>4, <2>5 DEF WizardInv, OneSubmission
  <2>6. ASSUME LookupsInv(n) PROVE TypedBefore' /\ Wizard(n)!AddressIsOfThePlace'
    BY <2>4, <2>6 DEF LookupsInv, TypedBefore, Wizard!AddressIsOfThePlace, Wizard!LookedUp, Wizard!Blank,
       SameLookups
  <2> QED
    BY <1>1, <2>4, <2>5, <2>6 DEF WizardInv, LookupsInv, Wizard!WizardTypeOK
<1> QED
  BY <1>3, <1>4

\* Submitted and SubmitFails: the call ends, the wizard waits for the list or not at all.
LEMMA CallEndsInv ==
    ASSUME NEW n \in Nat, WizardInv(n) \/ LookupsInv(n), Wizard(n)!Submitted \/ Wizard(n)!SubmitFails
    PROVE  (WizardInv(n) => WizardInv(n)') /\ (LookupsInv(n) => LookupsInv(n)')
<1> DEFINE calls == wizard.calls - 1
<1>1. wizard \in Wizard(n)!Wizard /\ wizard.calls > 0 /\ UNCHANGED draft
  BY DEF WizardInv, LookupsInv, Wizard!WizardTypeOK, Wizard!Submitted, Wizard!SubmitFails, Wizard!OnWizard
<1>2. wizard.calls \in 1..2 /\ calls \in 0..2 /\ calls = wizard.calls - 1
  BY <1>1 DEF Wizard!Wizard
<1>3. \/ wizard' = [wizard EXCEPT !.calls = calls, !.reloading = TRUE, !.open = FALSE]
      \/ wizard' = [wizard EXCEPT !.calls = calls, !.submitting = FALSE]
  BY <1>1 DEF Wizard!Submitted, Wizard!SubmitFails, Wizard!OnWizard, Wizard!Wizard
<1> HIDE DEF calls
<1>4. /\ wizard' \in Wizard(n)!Wizard /\ SameLookups(wizard') /\ wizard'.form = wizard.form
      /\ wizard'.touched = wizard.touched /\ (wizard'.open => wizard.open)
      /\ wizard'.calls = calls /\ wizard'.waiting = wizard.waiting /\ wizard'.doubled = wizard.doubled
      /\ \/ wizard'.reloading = TRUE /\ wizard'.submitting = wizard.submitting
         \/ wizard'.reloading = wizard.reloading /\ wizard'.submitting = FALSE
  BY <1>1, <1>2, <1>3 DEF Wizard!Wizard, SameLookups
<1>5. ASSUME WizardInv(n) PROVE OneSubmission(n)'
  BY <1>1, <1>2, <1>4, <1>5 DEF WizardInv, OneSubmission
<1>6. ASSUME LookupsInv(n) PROVE TypedBefore' /\ Wizard(n)!AddressIsOfThePlace'
  BY <1>4, <1>6 DEF LookupsInv, TypedBefore, Wizard!AddressIsOfThePlace, Wizard!LookedUp, Wizard!Blank,
     SameLookups
<1> QED
  BY <1>1, <1>4, <1>5, <1>6 DEF WizardInv, LookupsInv, Wizard!WizardTypeOK

LEMMA FinishedInv ==
    ASSUME NEW n \in Nat, WizardInv(n) \/ LookupsInv(n), Wizard(n)!Finished
    PROVE  (WizardInv(n) => WizardInv(n)') /\ (LookupsInv(n) => LookupsInv(n)')
<1> DEFINE closed == Restarted(n, wizard, FALSE)
<1>1. wizard \in Wizard(n)!Wizard /\ wizard.reloading /\ draft' = None
  BY DEF WizardInv, LookupsInv, Wizard!WizardTypeOK, Wizard!Finished
<1>2. wizard' = [closed EXCEPT !.reloading = FALSE, !.submitting = FALSE]
  BY DEF Wizard!Finished, Wizard!Closed, Restarted
<1>3. /\ closed \in Wizard(n)!Wizard /\ closed.form.place = 0 /\ ~closed.open
      /\ SameLookups(closed) /\ SameSubmissions(closed)
  <2> HIDE DEF closed
  <2>1. closed = Restarted(n, wizard, FALSE)
    BY DEF closed
  <2>2. ASSUME NEW w \in Wizard(n)!Wizard, NEW next, next = Restarted(n, w, FALSE)
        PROVE  /\ next \in Wizard(n)!Wizard /\ next.form.place = 0 /\ ~next.open
               /\ next.picks = w.picks /\ next.lookups = w.lookups /\ next.before = w.before
               /\ next.waiting = w.waiting /\ next.calls = w.calls /\ next.reloading = w.reloading
               /\ next.submitting = w.submitting /\ next.doubled = w.doubled /\ next.crossed = w.crossed
    BY <2>2, ResetIs
  <2> QED
    BY <1>1, <2>1, <2>2 DEF SameLookups, SameSubmissions
<1> HIDE DEF closed
<1>4. /\ wizard' \in Wizard(n)!Wizard /\ ~wizard'.reloading /\ ~wizard'.submitting
      /\ wizard'.form = closed.form /\ wizard'.open = closed.open /\ wizard'.calls = closed.calls
      /\ wizard'.waiting = closed.waiting /\ wizard'.doubled = closed.doubled /\ wizard'.picks = closed.picks
  BY <1>2, <1>3 DEF Wizard!Wizard
<1>5. wizard.calls \in 0..2
  BY <1>1 DEF Wizard!Wizard
<1>6. ASSUME WizardInv(n) PROVE OneSubmission(n)'
  BY <1>1, <1>3, <1>4, <1>5, <1>6 DEF WizardInv, OneSubmission, SameSubmissions
<1> QED
  BY <1>1, <1>3, <1>4, <1>6 DEF WizardInv, LookupsInv, Wizard!WizardTypeOK, TypedBefore,
     Wizard!AddressIsOfThePlace

LEMMA SaveDraftInv ==
    ASSUME NEW n \in Nat, WizardInv(n), Wizard(n)!SaveDraft
    PROVE  WizardInv(n)'
<1> DEFINE here == Wizard(n)!Here
<1>1. here \in Wizard(n)!Draft /\ wizard.form.photos \in BOOLEAN
  BY DEF WizardInv, Wizard!WizardTypeOK, Wizard!Here, Wizard!Wizard, Wizard!Draft, Wizard!Form
<1>2. \A photos \in BOOLEAN : [here EXCEPT !.form.photos = photos] \in Wizard(n)!Draft
  <2> HIDE DEF here
  <2> QED
    BY <1>1 DEF Wizard!Draft, Wizard!Form
<1>3. {wizard.form.photos, wizard.mode = "edit" /\ wizard.form.photos} \subseteq BOOLEAN
  BY <1>1
<1>4. draft' \in Wizard(n)!Draft \union {None} /\ UNCHANGED wizard
  BY <1>2, <1>3 DEF Wizard!SaveDraft
<1> QED
  BY <1>4 DEF WizardInv, Wizard!WizardTypeOK, OneSubmission

LEMMA VisitStep ==
    ASSUME NEW n \in Nat, WizardInv(n) \/ LookupsInv(n), Wizard(n)!VisitNext
    PROVE  (WizardInv(n) => WizardInv(n)') /\ (LookupsInv(n) => LookupsInv(n)')
BY StepsInv, OpenInv, PickInv, AskInv, ArrivesInv, FinishInv, CallEndsInv, FinishedInv
   DEF Wizard!VisitNext, Wizard!Pick

LEMMA WizardStep == ASSUME NEW n \in Nat, WizardInv(n), Wizard(n)!WizardNext PROVE WizardInv(n)'
BY VisitStep, SaveDraftInv DEF Wizard!WizardNext

LEMMA WizardInitInv == ASSUME NEW n \in Nat, Wizard(n)!WizardInit PROVE WizardInv(n) /\ LookupsInv(n)
<1>1. PICK mode \in {"create", "edit"} :
          wizard = [mode |-> mode, open |-> FALSE, restored |-> FALSE, step |-> "details",
                    reached |-> FALSE, form |-> Wizard(n)!Baseline(mode), touched |-> mode = "edit",
                    picks |-> 0, lookups |-> [p \in Wizard(n)!Pick |-> "none"],
                    before |-> [p \in Wizard(n)!Pick |-> FALSE],
                    waiting |-> [p \in Wizard(n)!Pick |-> 0], calls |-> 0, reloading |-> FALSE,
                    submitting |-> FALSE,
                    doubled |-> FALSE, crossed |-> FALSE]
  BY DEF Wizard!WizardInit
<1> DEFINE form == Wizard(n)!Baseline(mode)
           touched == (mode = "edit")
<1>2. form \in Wizard(n)!Form /\ touched \in BOOLEAN
  BY BaselineIs
<1> HIDE DEF form, touched
<1>3. wizard = [mode |-> mode, open |-> FALSE, restored |-> FALSE, step |-> "details",
                    reached |-> FALSE, form |-> form, touched |-> touched,
                    picks |-> 0, lookups |-> [p \in Wizard(n)!Pick |-> "none"],
                    before |-> [p \in Wizard(n)!Pick |-> FALSE],
                    waiting |-> [p \in Wizard(n)!Pick |-> 0], calls |-> 0, reloading |-> FALSE,
                    submitting |-> FALSE,
                    doubled |-> FALSE, crossed |-> FALSE]
  BY <1>1 DEF form, touched
<1>4. wizard \in Wizard(n)!Wizard
  BY <1>2, <1>3 DEF Wizard!Wizard, Wizard!Step, Wizard!Place, Wizard!Pick, Wizard!Lookup
<1> QED
  BY <1>3, <1>4 DEF WizardInv, LookupsInv, Wizard!WizardTypeOK, OneSubmission, TypedBefore,
     Wizard!AddressIsOfThePlace, Wizard!WizardInit, Wizard!Pick

(***************************************************************************)
(* The admin page (AdminPage).                                             *)
(***************************************************************************)

\* Two refreshes under way have overlapped.
OneRefreshUnlessOverlapped ==
    ~admin.overlapped =>
        \A m, n \in 1..AdminLoads : admin.loads[m] # None /\ admin.loads[n] # None => m = n

Pending == \E c \in admin.calls : c.state = "done"

\* Whatever the lists show, or will show, is current unless an answer that says
\* that the rows have changed is still on its way, or somebody else changed them.
NewsIsOnItsWay ==
    ~admin.missed /\ ~admin.overlapped /\ ~admin.elsewhere /\ ~Pending =>
        /\ Admin!Idle(admin.loads) => admin.lists = Admin!ListsOf(registry)
        /\ \A n \in 1..AdminLoads : admin.loads[n] # None => admin.loads[n].seen = {registry}

AdminInv == Admin!AdminTypeOK /\ OneRefreshUnlessOverlapped /\ Admin!SpinnerIsRefresh /\ NewsIsOnItsWay

LEMMA AdminInvImplies == AdminInv => Admin!IdleListsAreCurrent
BY DEF AdminInv, NewsIsOnItsWay, Admin!IdleListsAreCurrent, Pending

\* A page that differs in what the lists do not depend on.
SamePage(page) ==
    /\ page.lists = admin.lists /\ page.loads = admin.loads /\ page.loading = admin.loading
    /\ page.overlapped = admin.overlapped /\ page.missed = admin.missed
    /\ page.elsewhere = admin.elsewhere

LEMMA SamePageInv ==
    ASSUME AdminInv, NEW page \in Admin!Admin, SamePage(page), Admin!OnPage(page),
           \A c \in page.calls : c \in admin.calls \/ c.state # "done",
           \A c \in admin.calls : c.state = "done" => c \in page.calls \/ page.missed
    PROVE  AdminInv'
<1>1. Admin!AdminTypeOK' /\ OneRefreshUnlessOverlapped' /\ Admin!SpinnerIsRefresh'
  BY DEF AdminInv, Admin!AdminTypeOK, Admin!OnPage, SamePage, OneRefreshUnlessOverlapped,
     Admin!SpinnerIsRefresh, Admin!Idle
<1>2. NewsIsOnItsWay'
  BY DEF AdminInv, NewsIsOnItsWay, Pending, Admin!OnPage, SamePage, Admin!Idle, Admin!ListsOf
<1> QED
  BY <1>1, <1>2 DEF AdminInv

\* A call is made from a page.
LEMMA CallingIs ==
    ASSUME NEW page \in Admin!Admin, NEW kind \in Admin!Kind, NEW next \in Admin!Calling(page, kind)
    PROVE  /\ next \in Admin!Admin /\ next.lists = page.lists /\ next.loads = page.loads
           /\ next.loading = page.loading /\ next.overlapped = page.overlapped
           /\ next.missed = page.missed /\ next.elsewhere = page.elsewhere
           /\ page.calls \subseteq next.calls
           /\ \A c \in next.calls : c \in page.calls \/ c.state # "done"
<1>1. PICK n \in Admin!LowestOf((1..AdminCalls) \ {c.id : c \in page.calls}) :
              next = [page EXCEPT !.calls = page.calls \union {[kind |-> kind, state |-> "asked", id |-> n]}]
  BY DEF Admin!Calling
<1> DEFINE call == [kind |-> kind, state |-> "asked", id |-> n]
<1>2. call \in Admin!Call /\ call.state # "done"
  BY <1>1 DEF Admin!Call, Admin!LowestOf
<1>3. next = [page EXCEPT !.calls = page.calls \union {call}]
  BY <1>1
<1> HIDE DEF call
<1>4. next \in Admin!Admin
  BY <1>2, <1>3 DEF Admin!Admin
<1> QED
  BY <1>2, <1>3, <1>4 DEF Admin!Admin

LEMMA CallingInv ==
    ASSUME AdminInv, NEW page \in Admin!Admin, SamePage(page), page.calls = admin.calls, NEW kind \in Admin!Kind,
           NEW next \in Admin!Calling(page, kind), Admin!OnPage(next)
    PROVE  AdminInv'
<1>1. next \in Admin!Admin /\ SamePage(next)
  BY CallingIs DEF SamePage
<1>2. /\ \A c \in next.calls : c \in admin.calls \/ c.state # "done"
      /\ admin.calls \subseteq next.calls
  BY CallingIs
<1> QED
  BY <1>1, <1>2, SamePageInv

LEMMA ButtonsInv ==
    ASSUME AdminInv, Admin!ApproveOwner \/ Admin!DeclineOwner \/ Admin!ApprovePitch \/ Admin!AskToDelete
             \/ Admin!Confirm \/ Admin!OpenWizard
    PROVE  AdminInv'
<1>0. admin \in Admin!Admin /\ SamePage(admin)
  BY DEF AdminInv, Admin!AdminTypeOK, SamePage
<1>1. CASE Admin!ApproveOwner \/ Admin!ApprovePitch
  BY <1>0, <1>1, CallingInv DEF Admin!ApproveOwner, Admin!ApprovePitch, Admin!Kind
<1>2. CASE Admin!DeclineOwner
  <2> DEFINE page == [admin EXCEPT !.declining = TRUE]
  <2>1. page \in Admin!Admin /\ SamePage(page) /\ page.calls = admin.calls
    BY <1>0 DEF Admin!Admin, SamePage
  <2> HIDE DEF page
  <2> QED
    BY <1>2, <2>1, CallingInv DEF Admin!DeclineOwner, Admin!Kind, page
<1>3. ASSUME NEW confirm \in {"deletePitch", "deleteOwner", None}
      PROVE  LET page == [admin EXCEPT !.confirm = confirm]
             IN  page \in Admin!Admin /\ SamePage(page) /\ page.calls = admin.calls
  BY <1>0 DEF Admin!Admin, SamePage
<1>4. CASE Admin!AskToDelete
  BY <1>3, <1>4, SamePageInv DEF Admin!AskToDelete
<1>5. CASE Admin!Confirm
  <2>1. None \in {"deletePitch", "deleteOwner", None} /\ admin.confirm \in Admin!Kind
    BY <1>0, <1>5 DEF Admin!Confirm, Admin!Admin, Admin!Kind
  <2> QED
    BY <1>3, <1>5, <2>1, SamePageInv, CallingInv DEF Admin!Confirm
<1>6. CASE Admin!OpenWizard
  <2>1. ASSUME NEW w \in Admin!Wizards
        PROVE  LET page == [admin EXCEPT !.open = admin.open \union {w}]
               IN  page \in Admin!Admin /\ SamePage(page) /\ page.calls = admin.calls
    BY <1>0 DEF Admin!Admin, SamePage
  <2> QED
    BY <1>6, <2>1, SamePageInv DEF Admin!OpenWizard, Admin!Wizards
<1> QED
  BY <1>1, <1>2, <1>4, <1>5, <1>6

LEMMA WizardsInv ==
    ASSUME AdminInv, NEW w \in Admin!Wizards, Admin!CloseWizard(w) \/ Admin!SubmitWizard(w)
    PROVE  AdminInv'
<1>0. admin \in Admin!Admin
  BY DEF AdminInv, Admin!AdminTypeOK
<1>1. CASE Admin!CloseWizard(w)
  <2>1. LET page == [admin EXCEPT !.open = admin.open \ {w}]
        IN  page \in Admin!Admin /\ SamePage(page) /\ page.calls = admin.calls
    BY <1>0 DEF Admin!Admin, SamePage
  <2> QED
    BY <1>1, <2>1, SamePageInv DEF Admin!CloseWizard
<1>2. CASE Admin!SubmitWizard(w)
  <2> DEFINE page == [admin EXCEPT !.submitting = admin.submitting \union {w}]
  <2>1. page \in Admin!Admin /\ SamePage(page) /\ page.calls = admin.calls
    BY <1>0 DEF Admin!Admin, SamePage
  <2> HIDE DEF page
  <2> QED
    BY <1>2, <2>1, CallingInv DEF Admin!SubmitWizard, Admin!Wizards, Admin!Kind, page
<1> QED
  BY <1>1, <1>2

\* A refresh is the only one under way, or overlaps.
LEMMA RefreshingIs ==
    ASSUME NEW page \in Admin!Admin, NEW by \in Admin!Wizards \union {None},
           NEW next \in Admin!Refreshing(page, by),
           registry \in Admin!Registry
    PROVE  /\ next \in Admin!Admin /\ next.loading = TRUE
           /\ next.calls = page.calls /\ next.missed = page.missed
           /\ ~next.overlapped => ~page.overlapped /\ Admin!Idle(page.loads)
           /\ \E n \in 1..AdminLoads : /\ next.loads[n] # None /\ next.loads[n].seen = {registry}
                                     /\ \A m \in 1..AdminLoads : m # n => next.loads[m] = page.loads[m]
<1>1. PICK n \in {page.begun + 1} \intersect 1..AdminLoads :
         next = [page EXCEPT !.begun = n, !.loads[n] = [seen |-> {registry}, awaitedBy |-> by],
                             !.loading = TRUE, !.overlapped = page.overlapped \/ ~Admin!Idle(page.loads),
                             !.elsewhere = FALSE]
  BY ZenonT(60) DEF Admin!Refreshing
<1> DEFINE load == [seen |-> {registry}, awaitedBy |-> by]
<1>2. load \in Admin!Load /\ load # None /\ load.seen = {registry}
  BY AdminAssumption DEF Admin!Load
<1> DEFINE lapped == page.overlapped \/ ~Admin!Idle(page.loads)
<1>3. lapped \in BOOLEAN /\ (~lapped => ~page.overlapped /\ Admin!Idle(page.loads))
  BY DEF Admin!Admin
<1>4. next = [page EXCEPT !.begun = n, !.loads[n] = load, !.loading = TRUE, !.overlapped = lapped,
                             !.elsewhere = FALSE]
  BY <1>1
<1> HIDE DEF load, lapped
<1>5. n \in 1..AdminLoads /\ n \in 0..AdminLoads
  BY <1>1, AdminAssumption
<1>6. next \in Admin!Admin
  BY <1>2, <1>3, <1>4, <1>5 DEF Admin!Admin
<1>7. /\ next.loading = TRUE /\ next.calls = page.calls /\ next.missed = page.missed
      /\ next.overlapped = lapped
      /\ next.loads[n] = load /\ \A m \in 1..AdminLoads : m # n => next.loads[m] = page.loads[m]
  BY <1>2, <1>3, <1>4, <1>5 DEF Admin!Admin
<1> QED
  BY <1>2, <1>3, <1>5, <1>6, <1>7

LEMMA RefreshingInv ==
    ASSUME AdminInv, NEW page \in Admin!Admin, NEW by \in Admin!Wizards \union {None},
           NEW next \in Admin!Refreshing(page, by),
           page.overlapped = admin.overlapped, page.loads = admin.loads, page.missed = admin.missed,
           Admin!OnPage(next)
    PROVE  AdminInv'
<1>1. registry \in Admin!Registry /\ admin \in Admin!Admin
  BY DEF AdminInv, Admin!AdminTypeOK
<1>2. admin' \in Admin!Admin /\ admin'.loading
        /\ (~admin'.overlapped => ~admin.overlapped /\ Admin!Idle(admin.loads))
  BY <1>1, RefreshingIs DEF Admin!OnPage
<1>3. PICK n \in 1..AdminLoads :
          /\ admin'.loads[n] # None /\ admin'.loads[n].seen = {registry}
          /\ \A m \in 1..AdminLoads : m # n => admin'.loads[m] = admin.loads[m]
  <2>1. \E n \in 1..AdminLoads : /\ next.loads[n] # None /\ next.loads[n].seen = {registry}
                               /\ \A m \in 1..AdminLoads : m # n => next.loads[m] = page.loads[m]
    BY <1>1, RefreshingIs
  <2>2. admin' = next
    BY DEF Admin!OnPage
  <2> QED
    BY <2>1, <2>2
<1>4. DOMAIN admin.loads = 1..AdminLoads /\ DOMAIN admin'.loads = 1..AdminLoads
  BY <1>1, <1>2 DEF Admin!Admin
<1>5. ~Admin!Idle(admin'.loads)
  BY <1>3, <1>4 DEF Admin!Idle
<1>6. ~admin'.overlapped => \A m \in 1..AdminLoads : m # n => admin'.loads[m] = None
  BY <1>2, <1>3, <1>4 DEF Admin!Idle
<1>7. registry' = registry
  BY DEF Admin!OnPage
<1>8. Admin!AdminTypeOK' /\ OneRefreshUnlessOverlapped' /\ Admin!SpinnerIsRefresh'
  BY <1>1, <1>2, <1>5, <1>6, <1>7 DEF Admin!AdminTypeOK, OneRefreshUnlessOverlapped, Admin!SpinnerIsRefresh
<1>9. NewsIsOnItsWay'
  BY <1>3, <1>5, <1>6, <1>7 DEF NewsIsOnItsWay
<1> QED
  BY <1>8, <1>9 DEF AdminInv

LEMMA SucceedsInv == ASSUME AdminInv, NEW c \in admin.calls, Admin!Succeeds(c) PROVE AdminInv'
<1>0. admin \in Admin!Admin
  BY DEF AdminInv, Admin!AdminTypeOK
<1> DEFINE page == [Admin!Ended(c) EXCEPT !.open = @ \ {c.kind}]
           by == IF c.kind \in Admin!Wizards THEN c.kind ELSE None
<1>1. page = [admin EXCEPT !.calls = admin.calls \ {c}, !.open = admin.open \ {c.kind}]
  BY <1>0 DEF Admin!Ended, Admin!Admin
<1>2. page \in Admin!Admin /\ SamePage(page) /\ by \in Admin!Wizards \union {None}
  BY <1>0, <1>1 DEF Admin!Admin, SamePage
<1>3. PICK next \in Admin!Refreshing(page, by) : Admin!OnPage(next)
  BY DEF Admin!Succeeds
<1> HIDE DEF page, by
<1> QED
  BY <1>2, <1>3, RefreshingInv DEF SamePage

LEMMA FailsInv == ASSUME AdminInv, NEW c \in admin.calls, Admin!Fails(c) PROVE AdminInv'
<1>0. admin \in Admin!Admin
  BY DEF AdminInv, Admin!AdminTypeOK
<1> DEFINE missed == admin.missed \/ c.state = "done"
           declining == admin.declining /\ c.kind # "declineOwner"
           page == [admin EXCEPT !.calls = admin.calls \ {c}, !.declining = declining,
                                 !.submitting = admin.submitting \ {c.kind}, !.missed = missed]
<1>1. admin' = page /\ registry' = registry
  BY <1>0 DEF Admin!Fails, Admin!Ended, Admin!OnPage, Admin!Admin
<1>2. missed \in BOOLEAN /\ declining \in BOOLEAN
  BY <1>0 DEF Admin!Admin
<1>3. (c.state = "done" => missed) /\ (c.state # "done" => missed = admin.missed)
  BY <1>0 DEF Admin!Admin
<1> HIDE DEF missed, declining
<1>4. /\ page \in Admin!Admin /\ page.lists = admin.lists /\ page.loads = admin.loads
      /\ page.loading = admin.loading /\ page.overlapped = admin.overlapped /\ page.missed = missed
      /\ page.elsewhere = admin.elsewhere
      /\ page.calls = admin.calls \ {c}
  BY <1>0, <1>2 DEF Admin!Admin
<1> HIDE DEF page
<1>5. Admin!AdminTypeOK' /\ OneRefreshUnlessOverlapped' /\ Admin!SpinnerIsRefresh'
  BY <1>1, <1>4 DEF AdminInv, Admin!AdminTypeOK, OneRefreshUnlessOverlapped, Admin!SpinnerIsRefresh,
     Admin!Idle
<1>6. NewsIsOnItsWay'
  BY <1>1, <1>3, <1>4 DEF AdminInv, NewsIsOnItsWay, Pending, Admin!Idle, Admin!ListsOf
<1> QED
  BY <1>5, <1>6 DEF AdminInv

\* A refresh ends: the lists are new ones or an answer is missed.
LEMMA RefreshEndsInv ==
    ASSUME AdminInv, NEW n \in 1..AdminLoads, admin.loads[n] # None, NEW lists \in Admin!Lists,
           NEW missed \in BOOLEAN,
           NEW page, page = [admin EXCEPT !.lists = lists, !.loads[n] = None, !.loading = FALSE,
               !.missed = missed],
           NEW next, next = Admin!WizardReturns(page, admin.loads[n].awaitedBy), Admin!OnPage(next),
           ~missed => ~admin.missed,
           ~missed /\ admin.loads[n].seen = {registry} => lists = Admin!ListsOf(registry)
    PROVE  AdminInv'
<1>0. admin \in Admin!Admin /\ registry \in Admin!Registry
  BY DEF AdminInv, Admin!AdminTypeOK
<1>1. /\ page \in Admin!Admin /\ page.lists = lists /\ page.missed = missed /\ page.calls = admin.calls
      /\ page.overlapped = admin.overlapped /\ ~page.loading /\ page.elsewhere = admin.elsewhere
      /\ page.loads[n] = None /\ \A m \in 1..AdminLoads : m # n => page.loads[m] = admin.loads[m]
      /\ DOMAIN page.loads = 1..AdminLoads /\ DOMAIN admin.loads = 1..AdminLoads
  BY <1>0 DEF Admin!Admin
<1>2. /\ next \in Admin!Admin /\ next.lists = lists /\ next.missed = missed /\ next.calls = page.calls
      /\ next.overlapped = page.overlapped /\ ~next.loading /\ next.loads = page.loads
      /\ next.elsewhere = page.elsewhere
  BY <1>1 DEF Admin!WizardReturns, Admin!Admin
<1>3. Admin!AdminTypeOK' /\ OneRefreshUnlessOverlapped'
  BY <1>0, <1>1, <1>2 DEF AdminInv, Admin!AdminTypeOK, OneRefreshUnlessOverlapped, Admin!OnPage
<1>4. ~admin.overlapped => Admin!Idle(next.loads)
  BY <1>1, <1>2 DEF AdminInv, OneRefreshUnlessOverlapped, Admin!Idle
<1>5. Admin!SpinnerIsRefresh'
  BY <1>1, <1>2, <1>4 DEF Admin!SpinnerIsRefresh, Admin!OnPage
<1>6. ASSUME ~missed, ~admin.overlapped, ~admin.elsewhere, ~Pending
      PROVE  lists = Admin!ListsOf(registry)
               /\ Admin!Idle(next.loads)
  BY <1>4, <1>6 DEF AdminInv, NewsIsOnItsWay
<1>7. NewsIsOnItsWay'
  BY <1>1, <1>2, <1>6 DEF NewsIsOnItsWay, Pending, Admin!OnPage, Admin!Idle
<1> QED
  BY <1>3, <1>5, <1>7 DEF AdminInv

LEMMA RefreshInv ==
    ASSUME AdminInv, NEW n \in 1..AdminLoads, Admin!RefreshArrives(n) \/ Admin!RefreshFails(n)
    PROVE  AdminInv'
<1>0. admin \in Admin!Admin /\ registry \in Admin!Registry
        /\ (admin.loads[n] # None => admin.loads[n] \in Admin!Load)
  BY DEF AdminInv, Admin!AdminTypeOK, Admin!Admin
<1>1. CASE Admin!RefreshArrives(n)
  <2>0. admin.loads[n] # None
    BY <1>1, Zenon DEF Admin!RefreshArrives
  <2>1. PICK lists \in Admin!Answers(admin.loads[n].seen) :
           Admin!OnPage(Admin!WizardReturns(
             [admin EXCEPT !.lists = lists, !.loads[n] = None, !.loading = FALSE], admin.loads[n].awaitedBy))
    BY <1>1, ZenonT(60) DEF Admin!RefreshArrives
  <2>2. admin.loads[n].seen \subseteq Admin!Registry
    BY <1>0, <2>0 DEF Admin!Load
  <2>3. lists \in Admin!Lists
    BY <2>1, <2>2 DEF Admin!Answers, Admin!Lists, Admin!ListsOf, Admin!Registry
  <2>4. admin.loads[n].seen = {registry} => lists = Admin!ListsOf(registry)
    BY <2>1 DEF Admin!Answers, Admin!ListsOf
  <2>5. [admin EXCEPT !.lists = lists, !.loads[n] = None, !.loading = FALSE]
          = [admin EXCEPT !.lists = lists, !.loads[n] = None, !.loading = FALSE, !.missed = admin.missed]
    BY <1>0 DEF Admin!Admin
  <2>6. admin.missed \in BOOLEAN
    BY <1>0 DEF Admin!Admin
  <2>7. Admin!OnPage(Admin!WizardReturns([admin EXCEPT !.lists = lists, !.loads[n] = None, !.loading = FALSE,
            !.missed = admin.missed],
                 admin.loads[n].awaitedBy))
    <3> DEFINE was == [admin EXCEPT !.lists = lists, !.loads[n] = None, !.loading = FALSE]
               now == [admin EXCEPT !.lists = lists, !.loads[n] = None, !.loading = FALSE,
                                    !.missed = admin.missed]
    <3>1. was = now
      BY <2>5
    <3>2. Admin!OnPage(Admin!WizardReturns(was, admin.loads[n].awaitedBy))
      BY <2>1
    <3> HIDE DEF was, now
    <3>3. Admin!OnPage(Admin!WizardReturns(now, admin.loads[n].awaitedBy))
      BY <3>1, <3>2
    <3> QED
      BY <3>3 DEF now
  <2> QED
    BY <1>0, <2>0, <2>3, <2>4, <2>6, <2>7, RefreshEndsInv, ZenonT(60)
<1>2. CASE Admin!RefreshFails(n)
  <2>1. [admin EXCEPT !.loads[n] = None, !.loading = FALSE, !.missed = TRUE]
          = [admin EXCEPT !.lists = admin.lists, !.loads[n] = None, !.loading = FALSE, !.missed = TRUE]
    BY <1>0 DEF Admin!Admin
  <2>2. admin.lists \in Admin!Lists
    BY <1>0 DEF Admin!Admin
  <2> QED
    BY <1>2, <2>1, <2>2, RefreshEndsInv, ZenonT(60) DEF Admin!RefreshFails
<1> QED
  BY <1>1, <1>2

LEMMA ServedIs ==
    ASSUME registry \in Admin!Registry, NEW kind \in Admin!Kind, Admin!Served(kind) # None
    PROVE  Admin!Served(kind) \in Admin!Registry
BY DEF Admin!Served, Admin!Registry, Admin!Standing, Admin!Kind

\* The refreshes under way may have seen the rows r as well.
LEMMA AlsoSeeingIs ==
    ASSUME admin \in Admin!Admin, NEW r \in Admin!Registry
    PROVE  LET loads == Admin!AlsoSeeing(admin.loads, r)
           IN  /\ loads \in [1..AdminLoads -> Admin!Load \union {None}]
               /\ \A n \in 1..AdminLoads : loads[n] = None <=> admin.loads[n] = None
               /\ \A n \in 1..AdminLoads : loads[n] # None => loads[n].seen = admin.loads[n].seen \union {r}
               /\ Admin!Idle(loads) <=> Admin!Idle(admin.loads)
<1> DEFINE loads == Admin!AlsoSeeing(admin.loads, r)
<1>1. admin.loads \in [1..AdminLoads -> Admin!Load \union {None}]
  BY DEF Admin!Admin
<1>2. \A x \in Admin!Load : /\ [x EXCEPT !.seen = x.seen \union {r}] \in Admin!Load
                            /\ [x EXCEPT !.seen = x.seen \union {r}].seen = x.seen \union {r}
  BY DEF Admin!Load
<1>3. /\ loads \in [1..AdminLoads -> Admin!Load \union {None}]
      /\ \A n \in 1..AdminLoads : loads[n] = None <=> admin.loads[n] = None
      /\ \A n \in 1..AdminLoads : loads[n] # None => loads[n].seen = admin.loads[n].seen \union {r}
  BY <1>1, <1>2, AdminAssumption, ZenonT(60) DEF Admin!AlsoSeeing
<1> HIDE DEF loads
<1>4. Admin!Idle(loads) <=> Admin!Idle(admin.loads)
  BY <1>1, <1>3 DEF Admin!Idle
<1> QED
  BY <1>3, <1>4 DEF loads

LEMMA ServeInv == ASSUME AdminInv, NEW c \in admin.calls, Admin!Serve(c) PROVE AdminInv'
<1>0. admin \in Admin!Admin /\ registry \in Admin!Registry /\ c \in Admin!Call
  BY DEF AdminInv, Admin!AdminTypeOK, Admin!Admin
<1>1. PICK late \in {FALSE, c.kind = "createPitch" /\ Admin!Served(c.kind) # None} :
         LET r == Admin!Served(c.kind)
             after == IF r = None THEN registry ELSE r
             answer == [c EXCEPT !.state = IF r = None \/ late THEN "refused" ELSE "done"]
         IN  /\ registry' = after
             /\ admin' = [admin EXCEPT !.calls = (admin.calls \ {c}) \union {answer},
                                       !.loads = Admin!AlsoSeeing(admin.loads, after),
                                       !.missed = admin.missed \/ late]
  BY <1>0 DEF Admin!Serve, Admin!Admin
<1> DEFINE r == Admin!Served(c.kind)
           after == IF r = None THEN registry ELSE r
           answer == [c EXCEPT !.state = IF r = None \/ late THEN "refused" ELSE "done"]
           loads == Admin!AlsoSeeing(admin.loads, after)
           missed == admin.missed \/ late
<1>2. after \in Admin!Registry
  BY <1>0, ServedIs DEF Admin!Call
<1>3. answer \in Admin!Call /\ (answer.state # "done" => r = None \/ late)
  BY <1>0 DEF Admin!Call
<1>4. missed \in BOOLEAN /\ (~missed => ~admin.missed /\ ~late)
  BY <1>0 DEF Admin!Admin
<1>5. /\ registry' = after
      /\ admin' = [admin EXCEPT !.calls = (admin.calls \ {c}) \union {answer}, !.loads = loads,
                               !.missed = missed]
  BY <1>1
<1>6. /\ loads \in [1..AdminLoads -> Admin!Load \union {None}]
      /\ \A n \in 1..AdminLoads : loads[n] = None <=> admin.loads[n] = None
      /\ \A n \in 1..AdminLoads : loads[n] # None => loads[n].seen = admin.loads[n].seen \union {after}
      /\ Admin!Idle(loads) <=> Admin!Idle(admin.loads)
  BY <1>0, <1>2, AlsoSeeingIs
<1>7. r = None => after = registry
  OBVIOUS
<1> HIDE DEF r, after, loads, answer, missed
<1>8. /\ admin' \in Admin!Admin /\ admin'.lists = admin.lists /\ admin'.loads = loads
      /\ admin'.loading = admin.loading /\ admin'.overlapped = admin.overlapped
      /\ admin'.elsewhere = admin.elsewhere /\ admin'.missed = missed
      /\ admin'.calls = (admin.calls \ {c}) \union {answer}
  BY <1>0, <1>3, <1>4, <1>5, <1>6 DEF Admin!Admin
<1>9. Admin!AdminTypeOK' /\ OneRefreshUnlessOverlapped' /\ Admin!SpinnerIsRefresh'
  BY <1>2, <1>5, <1>6, <1>8 DEF AdminInv, Admin!AdminTypeOK, OneRefreshUnlessOverlapped,
     Admin!SpinnerIsRefresh
<1>10. NewsIsOnItsWay'
  <2>1. ASSUME ~Pending', ~missed PROVE ~Pending /\ after = registry
    <3>1. c.state = "asked" /\ answer.state # "done"
      BY <1>8, <2>1 DEF Admin!Serve, Pending
    <3> QED
      BY <1>3, <1>4, <1>7, <1>8, <2>1, <3>1 DEF Pending
  <2> QED
    BY <1>4, <1>5, <1>6, <1>8, <2>1 DEF AdminInv, NewsIsOnItsWay
<1> QED
  BY <1>9, <1>10 DEF AdminInv

\* What somebody else writes is excused until the next refresh is sent.
LEMMA OthersInv == ASSUME AdminInv, Admin!OthersChange PROVE AdminInv'
<1>0. admin \in Admin!Admin /\ registry \in Admin!Registry
  BY DEF AdminInv, Admin!AdminTypeOK
<1>1. PICK r \in Admin!OthersWrite :
         /\ admin.changes < AdminChanges /\ registry' = r
         /\ admin' = [admin EXCEPT !.loads = Admin!AlsoSeeing(admin.loads, r), !.elsewhere = TRUE,
                                  !.changes = admin.changes + 1]
  BY <1>0, ZenonT(60) DEF Admin!OthersChange
<1>2. r \in Admin!Registry
  BY <1>0, <1>1, ServedIs DEF Admin!OthersWrite, Admin!Registry, Admin!Standing
<1> DEFINE loads == Admin!AlsoSeeing(admin.loads, r)
<1>3. /\ loads \in [1..AdminLoads -> Admin!Load \union {None}]
      /\ \A n \in 1..AdminLoads : loads[n] = None <=> admin.loads[n] = None
      /\ Admin!Idle(loads) <=> Admin!Idle(admin.loads)
  BY <1>0, <1>2, AlsoSeeingIs
<1>4. admin' = [admin EXCEPT !.loads = loads, !.elsewhere = TRUE, !.changes = admin.changes + 1]
  BY <1>1
<1>5. admin.changes + 1 \in 0..AdminChanges
  BY <1>0, <1>1, AdminAssumption DEF Admin!Admin
<1> HIDE DEF loads
<1>6. /\ admin' \in Admin!Admin /\ admin'.loads = loads /\ admin'.elsewhere
      /\ admin'.loading = admin.loading /\ admin'.overlapped = admin.overlapped
  BY <1>0, <1>3, <1>4, <1>5 DEF Admin!Admin
<1> QED
  BY <1>1, <1>2, <1>3, <1>6 DEF AdminInv, Admin!AdminTypeOK, OneRefreshUnlessOverlapped,
     Admin!SpinnerIsRefresh, NewsIsOnItsWay

LEMMA AdminInitInv == ASSUME Admin!AdminInit PROVE AdminInv
<1> DEFINE page == [lists |-> Admin!Empty, begun |-> 0, loads |-> [n \in 1..AdminLoads |-> None],
                             loading |-> TRUE, calls |-> {}, declining |-> FALSE,
                             confirm |-> None, open |-> {}, submitting |-> {},
                             overlapped |-> FALSE, missed |-> FALSE, elsewhere |-> FALSE,
                             changes |-> 0]
<1>1. Admin!Empty \in Admin!Lists
  BY DEF Admin!Empty, Admin!Lists, Admin!Standing
<1>2. page \in Admin!Admin /\ page.calls = {}
  BY <1>1, AdminAssumption DEF Admin!Admin
<1>3. registry \in Admin!Registry /\ admin \in Admin!Refreshing(page, None)
  BY DEF Admin!AdminInit
<1>4. \A n \in 1..AdminLoads : page.loads[n] = None
  OBVIOUS
<1> HIDE DEF page
<1>5. admin \in Admin!Admin /\ admin.loading /\ admin.calls = {}
  BY <1>2, <1>3, RefreshingIs
<1>6. PICK n \in 1..AdminLoads : /\ admin.loads[n] # None /\ admin.loads[n].seen = {registry}
                               /\ \A m \in 1..AdminLoads : m # n => admin.loads[m] = None
  <2>1. \E n \in 1..AdminLoads : /\ admin.loads[n] # None /\ admin.loads[n].seen = {registry}
                               /\ \A m \in 1..AdminLoads : m # n => admin.loads[m] = page.loads[m]
    BY <1>2, <1>3, RefreshingIs
  <2> QED
    BY <1>4, <2>1
<1>7. ~Admin!Idle(admin.loads)
  BY <1>5, <1>6 DEF Admin!Idle, Admin!Admin
<1> QED
  BY <1>3, <1>5, <1>6, <1>7 DEF AdminInv, Admin!AdminTypeOK, OneRefreshUnlessOverlapped,
     Admin!SpinnerIsRefresh, NewsIsOnItsWay

LEMMA AdminStep == ASSUME AdminInv, Admin!AdminNext PROVE AdminInv'
BY ButtonsInv, WizardsInv, RefreshInv, SucceedsInv, FailsInv, ServeInv, OthersInv DEF Admin!AdminNext

(***************************************************************************)
(* The pages together, and the theorems.                                   *)
(***************************************************************************)

\* A step of the client is one of the page that is shown, or none of the page's.
LEMMA FormsSteps ==
    ASSUME [Next]_vars
    PROVE  /\ SignIn!AccountNext \/ UNCHANGED signInVars
           /\ Profile!ProfileNext \/ UNCHANGED profileVars
           /\ TeamPage!Next \/ UNCHANGED teamVars
           /\ Admin!AdminNext \/ UNCHANGED adminVars
           /\ \/ route = "wizard" /\ Wizard(WizardPicks)!WizardNext
              \/ route = "lookups" /\ Wizard(LookupPicks)!VisitNext
              \/ UNCHANGED wizardVars
           /\ route' = route
BY DEF Next, Shows, vars

LEMMA SignInHolds == Spec => []SignInInv
<1>1. Init => SignInInv
  BY SignInInit DEF Init
<1>2. SignInInv /\ [Next]_vars => SignInInv'
  <2> SUFFICES ASSUME SignInInv, [Next]_vars PROVE SignInInv'
    OBVIOUS
  <2>1. CASE UNCHANGED signInVars
    BY <2>1 DEF signInVars, SignInInv, SignIn!AccountTypeOK, CallsOfThePage, SignIn!ErrorsAreCurrent,
                SignIn!OneVerification, SignIn!DisabledFormHasCall, SignIn!Faulty, SignIn!Mounted
  <2> QED
    BY <2>1, FormsSteps, SignInStep
<1> QED
  BY <1>1, <1>2, PTL DEF Spec

LEMMA ProfileHolds == Spec => []ProfileInv
<1>1. Init => ProfileInv
  BY ProfileInitInv DEF Init
<1>2. ProfileInv /\ [Next]_vars => ProfileInv'
  <2> SUFFICES ASSUME ProfileInv, [Next]_vars PROVE ProfileInv'
    OBVIOUS
  <2>1. CASE UNCHANGED profileVars
    BY <2>1 DEF profileVars, ProfileInv, Profile!ProfileTypeOK, Profile!BusyHasCall
  <2> QED
    BY <2>1, FormsSteps, ProfileStep
<1> QED
  BY <1>1, <1>2, PTL DEF Spec

LEMMA TeamPageHolds == Spec => []TeamPageInv
<1>1. Init => TeamPageInv
  BY TeamPageInitInv DEF Init
<1>2. TeamPageInv /\ [Next]_vars => TeamPageInv'
  <2> SUFFICES ASSUME TeamPageInv, [Next]_vars PROVE TeamPageInv'
    OBVIOUS
  <2>1. [TeamPage!Next]_TeamPage!dashboardVars
    BY FormsSteps DEF teamVars, TeamPage!dashboardVars
  <2> QED
    BY <2>1, TeamPageStep
<1> QED
  BY <1>1, <1>2, PTL DEF Spec

LEMMA AdminHolds == Spec => []AdminInv
<1>1. Init => AdminInv
  BY AdminInitInv DEF Init
<1>2. AdminInv /\ [Next]_vars => AdminInv'
  <2> SUFFICES ASSUME AdminInv, [Next]_vars PROVE AdminInv'
    OBVIOUS
  <2>1. CASE UNCHANGED adminVars
    BY <2>1 DEF adminVars, AdminInv, Admin!AdminTypeOK, OneRefreshUnlessOverlapped,
                Admin!SpinnerIsRefresh, NewsIsOnItsWay, Pending
  <2> QED
    BY <2>1, FormsSteps, AdminStep
<1> QED
  BY <1>1, <1>2, PTL DEF Spec

\* The wizard is checked with its draft, and without it for longer visits.
WizardOfRoute ==
    /\ route # "lookups" => WizardInv(WizardPicks)
    /\ route = "lookups" => LookupsInv(LookupPicks)

LEMMA WizardsHold == Spec => []WizardOfRoute
<1>1. Init => WizardOfRoute
  BY WizardInitInv, WizardAssumption DEF Init, WizardOfRoute
<1>2. WizardOfRoute /\ [Next]_vars => WizardOfRoute'
  <2> SUFFICES ASSUME WizardOfRoute, [Next]_vars PROVE WizardOfRoute'
    OBVIOUS
  <2>1. CASE UNCHANGED wizardVars
    BY <2>1, FormsSteps DEF wizardVars, WizardOfRoute, WizardInv, LookupsInv, Wizard!WizardTypeOK,
       OneSubmission,
                TypedBefore, Wizard!AddressIsOfThePlace, Wizard!LookedUp
  <2>2. CASE route = "wizard" /\ Wizard(WizardPicks)!WizardNext
    BY <2>2, FormsSteps, WizardStep, WizardAssumption DEF WizardOfRoute
  <2>3. CASE route = "lookups" /\ Wizard(LookupPicks)!VisitNext
    BY <2>3, FormsSteps, VisitStep, WizardAssumption DEF WizardOfRoute
  <2> QED
    BY <2>1, <2>2, <2>3, FormsSteps
<1> QED
  BY <1>1, <1>2, PTL DEF Spec

\* A field that was left has an error below it exactly while what it holds is
\* wrong, whichever field was changed last, the confirmation included when the
\* password changes behind it (validateField in Login.tsx and Signup.tsx).
THEOREM FieldErrorsAreCurrent == Spec => []ErrorsAreCurrent
<1>1. SignInInv => ErrorsAreCurrent
  BY DEF SignInInv, ErrorsAreCurrent
<1> QED
  BY <1>1, SignInHolds, PTL

\* An address nobody typed is blank or that of the place on the map once no
\* lookup for it is under way, but for the exceptions a slow or failed lookup
\* makes, however many places are picked meanwhile (PitchWizardModal.tsx).
THEOREM AddressFollowsPlace == Spec => []AddressIsOfThePlace
<1>1. WizardOfRoute => AddressIsOfThePlace
  BY DEF WizardOfRoute, LookupsInv, AddressIsOfThePlace
<1> QED
  BY <1>1, WizardsHold, PTL

\* An admin who waits until nothing is under way sees the rows as they are,
\* unless somebody else has changed them since the last refresh was sent,
\* refreshes overlapped, one failed or an answer was lost (Admin.tsx).
THEOREM AdminListsAreCurrent == Spec => []IdleListsAreCurrent
<1>1. AdminInv => IdleListsAreCurrent
  BY AdminInvImplies DEF IdleListsAreCurrent
<1> QED
  BY <1>1, AdminHolds, PTL

===============================================================================
