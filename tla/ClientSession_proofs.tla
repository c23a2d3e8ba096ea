------------------------- MODULE ClientSession_proofs -------------------------
(***************************************************************************)
(* What the interceptors of ClientSession.tla promise for any number of    *)
(* tabs, requests, logins and tokens.  The types and WaiterHasLeader (as   *)
(* Led, said of single requests) are inductive with one fact more: a       *)
(* refresh that has found its row still has one, and one that has won has  *)
(* a token to hand out.                                                    *)
(***************************************************************************)
EXTENDS ClientSession, TLAPS

RefreshOK ==
    \A t \in Tab : refresh[t] # Nothing =>
        /\ refresh[t].step = "found" => row[refresh[t].token.login] # Nothing
        /\ refresh[t].step = "won" => refresh[t].new \in Token

(***************************************************************************)
(* The types.                                                              *)
(***************************************************************************)

LEMMA LeavePageType ==
    ASSUME TypeOK, NEW t \in Tab, LeavePage(t)
    PROVE  refresh' \in [Tab -> Refresh \union {Nothing}] /\ request' \in [Request -> Pending \union {Nothing}]
BY DEF TypeOK, LeavePage

LEMMA BeginType ==
    ASSUME TypeOK, NEW r \in Request, NEW t \in Tab, NEW k \in {"get", "logout"},
           NEW at \in Where, NEW token \in Token \union {Nothing}, Begin(r, t, k, at, token)
    PROVE  request' \in [Request -> Pending \union {Nothing}]
BY DEF TypeOK, Begin, Pending

LEMMA PerformRefreshType ==
    ASSUME TypeOK, stored # Nothing, NEW t \in Tab, NEW r \in Request, PerformRefresh(t, r)
    PROVE  /\ refresh' \in [Tab -> Refresh \union {Nothing}]
           /\ refresh'[t] = [by |-> r, token |-> stored.token, step |-> "asked", new |-> Nothing]
           /\ \A u \in Tab : u # t => refresh'[u] = refresh[u]
BY DEF TypeOK, PerformRefresh, Refresh, Stored

LEMMA SendType ==
    ASSUME TypeOK, NEW r \in Request, NEW t \in Tab, NEW k \in {"get", "logout"},
           SendNow(r, t, k) \/ SendAfterRefresh(r, t, k)
    PROVE  TypeOK'
<1>1. CASE SendNow(r, t, k)
  <2>1. (IF stored = Nothing THEN Nothing ELSE stored.token) \in Token \union {Nothing}
    BY DEF TypeOK, Stored
  <2> QED
    BY <1>1, <2>1, BeginType DEF SendNow, TypeOK, Where
<1>2. CASE SendAfterRefresh(r, t, k)
  <2>1. request' \in [Request -> Pending \union {Nothing}]
    BY <1>2, BeginType DEF SendAfterRefresh, Where
  <2>2. refresh' \in [Tab -> Refresh \union {Nothing}]
    BY <1>2, PerformRefreshType DEF SendAfterRefresh, TypeOK
  <2> QED
    BY <1>2, <2>1, <2>2 DEF SendAfterRefresh, TypeOK
<1> QED
  BY <1>1, <1>2

LEMMA AnswerType == ASSUME TypeOK, NEW r \in Request, Answer(r) PROVE TypeOK'
<1>1. CASE Answered(r)
  <2>1. request[r] \in Pending /\ request[r].token \in Token
    BY <1>1 DEF Answered, Accepted, TypeOK, Pending
  <2>2. row' \in [1..MaxSession -> Row \union {Nothing}]
    <3>1. row[request[r].token.login] \in Row
      BY <1>1, <2>1 DEF Answered, Accepted, TypeOK, Token
    <3>2. [row[request[r].token.login] EXCEPT !.live = FALSE] \in Row
      BY <3>1 DEF Row
    <3> QED
      BY <1>1, <2>1, <3>2 DEF Answered, TypeOK, Token
  <2> QED
    BY <1>1, <2>2 DEF Answered, Settle, TypeOK
<1>2. CASE Failed(r)
  BY <1>2 DEF Failed, Settle, TypeOK
<1>3. CASE Unauthorized(r)
  <2>0. request[r] \in Pending /\ request[r].tab \in Tab
    BY <1>3 DEF Unauthorized, TypeOK, Pending
  <2>1. CASE Settle(r)
    BY <1>3, <2>1 DEF Unauthorized, Settle, TypeOK
  <2>2. CASE ClearAuthAndRedirect(request[r].tab)
    BY <1>3, <2>0, <2>2, LeavePageType DEF Unauthorized, ClearAuthAndRedirect, TypeOK
  <2>3. CASE Move(r, "waitsAgain") /\ UNCHANGED <<stored, refresh>>
    <3>1. [[request[r] EXCEPT !.at = "waitsAgain"] EXCEPT !.token = Nothing] \in Pending
      BY <2>0 DEF Pending, Where
    <3> QED
      BY <1>3, <2>3, <3>1 DEF Unauthorized, Move, TypeOK
  <2>4. CASE /\ stored # Nothing
             /\ request' = [request EXCEPT ![r].at = "leadsAgain", ![r].token = Nothing,
                                           ![r].retried = TRUE]
             /\ PerformRefresh(request[r].tab, r)
             /\ UNCHANGED stored
    <3>1. [[[request[r] EXCEPT !.at = "leadsAgain"] EXCEPT !.token = Nothing] EXCEPT !.retried = TRUE]
              \in Pending
      BY <2>0 DEF Pending, Where
    <3>2. request' \in [Request -> Pending \union {Nothing}]
      BY <2>4, <3>1 DEF TypeOK
    <3> QED
      BY <1>3, <2>0, <2>4, <3>2, PerformRefreshType DEF Unauthorized, TypeOK
  <2> QED
    BY <1>3, <2>1, <2>2, <2>3, <2>4 DEF Unauthorized
<1> QED
  BY <1>1, <1>2, <1>3 DEF Answer

\* Rotating a token writes a row and a refresh; the refresh keeps its leader.
LEMMA RotateType ==
    ASSUME TypeOK, RefreshOK, NEW t \in Tab, RefreshRotate(t)
    PROVE  /\ row' \in [1..MaxSession -> Row \union {Nothing}]
           /\ refresh'[t] \in Refresh /\ refresh'[t].by = refresh[t].by
<1> DEFINE s == refresh[t].token.login
<1>1. refresh[t] \in Refresh /\ s \in 1..MaxSession /\ row[s] \in Row
  BY DEF RefreshRotate, RefreshOK, TypeOK, Refresh, Token
<1>2. PICK n \in 0..MaxToken :
          /\ row' = [row EXCEPT ![s].token = n]
          /\ refresh' = [refresh EXCEPT ![t].step = "won", ![t].new = [login |-> s, n |-> n]]
  BY DEF RefreshRotate
<1>3. row' \in [1..MaxSession -> Row \union {Nothing}]
  <2>1. [row[s] EXCEPT !.token = n] \in Row
    BY <1>1 DEF Row
  <2> QED
    BY <1>1, <1>2, <2>1 DEF TypeOK
<1>4. refresh'[t] = [[refresh[t] EXCEPT !.step = "won"] EXCEPT !.new = [login |-> s, n |-> n]]
  BY <1>2 DEF TypeOK
<1> DEFINE token == [login |-> s, n |-> n]
<1>5. token \in Token
  BY <1>1 DEF Token
<1>6. refresh'[t] = [[refresh[t] EXCEPT !.step = "won"] EXCEPT !.new = token]
  BY <1>4
<1> HIDE DEF token
<1>7. /\ [[refresh[t] EXCEPT !.step = "won"] EXCEPT !.new = token] \in Refresh
      /\ [[refresh[t] EXCEPT !.step = "won"] EXCEPT !.new = token].by = refresh[t].by
  BY <1>1, <1>5 DEF Refresh
<1> QED
  BY <1>3, <1>6, <1>7

LEMMA RefreshType == ASSUME TypeOK, RefreshOK, NEW t \in Tab, RefreshStep(t) PROVE TypeOK'
<1>0. ASSUME refresh[t] # Nothing PROVE refresh[t] \in Refresh
  BY <1>0 DEF TypeOK
<1>1. CASE RefreshLookup(t)
  <2>1. \A s \in {"found", "refused"} : [refresh[t] EXCEPT !.step = s] \in Refresh
    BY <1>0, <1>1 DEF RefreshLookup, Refresh
  <2>2. refresh' \in [Tab -> Refresh \union {Nothing}]
    BY <1>1, <2>1 DEF RefreshLookup, TypeOK
  <2> QED
    BY <1>1, <2>2 DEF RefreshLookup, TypeOK
<1>2. CASE RefreshRotate(t)
  <2>1. refresh' \in [Tab -> Refresh \union {Nothing}]
    BY <1>2, RotateType DEF RefreshRotate, TypeOK
  <2> QED
    BY <1>2, <2>1, RotateType DEF RefreshRotate, TypeOK
<1>3. CASE RefreshArrives(t)
  <2>1. refresh[t].new \in Token
    BY <1>3 DEF RefreshArrives, RefreshOK
  <2>2. stored' \in Stored \union {Nothing}
    BY <1>3, <2>1 DEF RefreshArrives, TypeOK, Stored
  <2>3. \A r \in Request : request[r] \in Pending =>
            [[request[r] EXCEPT !.at = "sent"] EXCEPT !.token = refresh[t].new] \in Pending
    BY <2>1 DEF Pending, Where
  <2>4. \A r \in OfTab(t) : request[r] \in Pending
    BY DEF OfTab, TypeOK
  <2>5. request' \in [Request -> Pending \union {Nothing}]
    BY <1>3, <2>3, <2>4 DEF RefreshArrives, Resumed, TypeOK
  <2> QED
    BY <1>3, <2>2, <2>5 DEF RefreshArrives, TypeOK
<1>4. CASE RefreshFails(t)
  BY <1>4, LeavePageType DEF RefreshFails, ClearAuthAndRedirect, TypeOK
<1> QED
  BY <1>1, <1>2, <1>3, <1>4 DEF RefreshStep

LEMMA OutsideType ==
    ASSUME TypeOK, \/ \E s \in 1..MaxSession : Login(s) \/ Revoke(s)
                   \/ \E token \in Token : Lapse(token)
                   \/ \E t \in Tab : Reload(t)
    PROVE  TypeOK'
<1>1. ASSUME NEW s \in 1..MaxSession, Login(s) PROVE TypeOK'
  <2>1. /\ [token |-> 0, live |-> TRUE] \in Row
        /\ [user |-> s, token |-> [login |-> s, n |-> 0]] \in Stored
    BY BoundsAssumption DEF Row, Stored, Token
  <2> QED
    BY <1>1, <2>1 DEF Login, TypeOK
<1>2. ASSUME NEW s \in 1..MaxSession, Revoke(s) PROVE TypeOK'
  <2>1. [row[s] EXCEPT !.live = FALSE] \in Row
    BY <1>2 DEF Revoke, TypeOK, Row
  <2> QED
    BY <1>2, <2>1 DEF Revoke, TypeOK
<1>3. ASSUME NEW token \in Token, Lapse(token) PROVE TypeOK'
  BY <1>3 DEF Lapse, TypeOK
<1>4. ASSUME NEW t \in Tab, Reload(t) PROVE TypeOK'
  BY <1>4, LeavePageType DEF Reload, TypeOK
<1> QED
  BY <1>1, <1>2, <1>3, <1>4

LEMMA NextType == ASSUME TypeOK, RefreshOK, [Next]_vars PROVE TypeOK'
<1>1. CASE UNCHANGED vars
  BY <1>1 DEF vars, TypeOK
<1> QED
  BY <1>1, SendType, AnswerType, RefreshType, OutsideType DEF Next

(***************************************************************************)
(* What a refresh knows.                                                   *)
(***************************************************************************)

\* A row that exists stays: tokens are rotated and rows revoked, none is deleted.
LEMMA RowsStay ==
    ASSUME TypeOK, RefreshOK, [Next]_vars, NEW s \in 1..MaxSession, row[s] # Nothing
    PROVE  row'[s] # Nothing
<1>0. row[s] \in Row
  BY DEF TypeOK
<1>1. ASSUME NEW r \in Request, Answered(r) PROVE row'[s] # Nothing
  <2>1. [row[s] EXCEPT !.live = FALSE] \in Row
    BY <1>0 DEF Row
  <2> QED
    BY <1>1, <2>1, NothingAssumption DEF Answered, TypeOK
<1>2. ASSUME NEW t \in Tab, RefreshRotate(t) PROVE row'[s] # Nothing
  <2>1. CASE s = refresh[t].token.login
    <3>1. PICK n \in 0..MaxToken : row' = [row EXCEPT ![s].token = n]
      BY <1>2, <2>1 DEF RefreshRotate
    <3>2. [row[s] EXCEPT !.token = n] \in Row
      BY <1>0 DEF Row
    <3> QED
      BY <3>1, <3>2, NothingAssumption DEF TypeOK
  <2>2. CASE s # refresh[t].token.login
    BY <1>2, <2>2 DEF RefreshRotate, TypeOK
  <2> QED
    BY <2>1, <2>2
<1>3. ASSUME NEW u \in 1..MaxSession, Login(u) PROVE row'[s] # Nothing
  BY <1>3 DEF Login, TypeOK
<1>4. ASSUME NEW u \in 1..MaxSession, Revoke(u) PROVE row'[s] # Nothing
  <2>1. [row[s] EXCEPT !.live = FALSE] \in Row
    BY <1>0 DEF Row
  <2> QED
    BY <1>4, <2>1, NothingAssumption DEF Revoke, TypeOK
<1>5. ASSUME UNCHANGED row PROVE row'[s] # Nothing
  BY <1>5
<1>6. ASSUME NEW r \in Request, Answer(r) PROVE row'[s] # Nothing
  BY <1>1, <1>5, <1>6 DEF Answer, Failed, Unauthorized
<1>7. ASSUME NEW t \in Tab, RefreshStep(t) \/ Reload(t) PROVE row'[s] # Nothing
  BY <1>2, <1>5, <1>7 DEF RefreshStep, RefreshLookup, RefreshArrives, RefreshFails, Reload
<1>8. ASSUME NEW r \in Request, NEW t \in Tab, NEW k \in {"get", "logout"},
             SendNow(r, t, k) \/ SendAfterRefresh(r, t, k)
      PROVE  row'[s] # Nothing
  BY <1>5, <1>8 DEF SendNow, SendAfterRefresh
<1>9. ASSUME NEW token \in Token, Lapse(token) PROVE row'[s] # Nothing
  BY <1>5, <1>9 DEF Lapse
<1> QED
  BY <1>3, <1>4, <1>5, <1>6, <1>7, <1>8, <1>9 DEF Next, vars

\* A refresh either stays as it is, is dropped, begins, or makes one step.
LEMMA RefreshMoves ==
    ASSUME TypeOK, [Next]_vars, NEW t \in Tab, refresh'[t] # Nothing, refresh'[t] # refresh[t]
    PROVE  \/ refresh'[t].step = "asked"
           \/ RefreshLookup(t) \/ RefreshRotate(t)
<1>1. ASSUME NEW u \in Tab, LeavePage(u) PROVE refresh'[t] = refresh[t] \/ refresh'[t] = Nothing
  BY <1>1 DEF LeavePage, TypeOK
<1>2. ASSUME NEW r \in Request, NEW u \in Tab, PerformRefresh(u, r)
      PROVE  refresh'[t] = refresh[t] \/ refresh'[t].step = "asked"
  BY <1>2 DEF PerformRefresh, TypeOK
<1>3. ASSUME NEW r \in Request, Answer(r) PROVE refresh'[t].step = "asked"
  <2>1. request[r].tab \in Tab
    BY <1>3 DEF Answer, Answered, Failed, Unauthorized, TypeOK, Pending
  <2> QED
    BY <1>1, <1>2, <1>3, <2>1
       DEF Answer, Answered, Failed, Settle, Unauthorized, ClearAuthAndRedirect
<1>4. ASSUME NEW u \in Tab, RefreshStep(u) PROVE RefreshLookup(t) \/ RefreshRotate(t)
  <2>1. CASE RefreshLookup(u) \/ RefreshRotate(u)
    BY <2>1 DEF RefreshLookup, RefreshRotate, TypeOK
  <2>2. CASE RefreshArrives(u)
    BY <2>2 DEF RefreshArrives, TypeOK
  <2> QED
    BY <1>1, <1>4, <2>1, <2>2 DEF RefreshStep, RefreshFails, ClearAuthAndRedirect
<1>5. ASSUME NEW r \in Request, NEW u \in Tab, NEW k \in {"get", "logout"},
             SendNow(r, u, k) \/ SendAfterRefresh(r, u, k)
      PROVE  refresh'[t].step = "asked"
  BY <1>2, <1>5 DEF SendNow, SendAfterRefresh
<1>6. ASSUME NEW u \in Tab, Reload(u) PROVE FALSE
  BY <1>1, <1>6 DEF Reload
<1>7. ASSUME UNCHANGED refresh PROVE FALSE
  BY <1>7
<1> QED
  BY <1>3, <1>4, <1>5, <1>6, <1>7 DEF Next, vars, Login, Revoke, Lapse

LEMMA RefreshOKKept == ASSUME TypeOK, RefreshOK, [Next]_vars PROVE RefreshOK'
<1> SUFFICES ASSUME NEW t \in Tab, refresh'[t] # Nothing
             PROVE  /\ refresh'[t].step = "found" => row'[refresh'[t].token.login] # Nothing
                    /\ refresh'[t].step = "won" => refresh'[t].new \in Token
  BY DEF RefreshOK
<1>1. CASE refresh'[t] = refresh[t]
  <2>1. refresh[t].token.login \in 1..MaxSession
    BY <1>1 DEF TypeOK, Refresh, Token
  <2> QED
    BY <1>1, <2>1, RowsStay DEF RefreshOK
<1>2. CASE refresh'[t].step = "asked"
  BY <1>2
<1>3. CASE RefreshLookup(t)
  <2>1. refresh[t] \in Refresh
    BY <1>3 DEF RefreshLookup, TypeOK
  <2>2. /\ refresh'[t].token = refresh[t].token /\ row' = row
        /\ refresh'[t].step \in {"found", "refused"}
        /\ refresh'[t].step = "found" => Refreshable(refresh[t].token)
    BY <1>3, <2>1 DEF RefreshLookup, TypeOK, Refresh
  <2> QED
    BY <2>2 DEF Refreshable
<1>4. CASE RefreshRotate(t)
  <2>1. refresh[t] \in Refresh /\ refresh[t].token.login \in 1..MaxSession
    BY <1>4 DEF RefreshRotate, TypeOK, Refresh, Token
  <2>2. row[refresh[t].token.login] \in Row
    BY <1>4, <2>1 DEF RefreshRotate, RefreshOK, TypeOK
  <2>3. PICK n \in 0..MaxToken :
            refresh' = [refresh EXCEPT ![t].step = "won",
                                       ![t].new = [login |-> refresh[t].token.login, n |-> n]]
    BY <1>4 DEF RefreshRotate
  <2>4. refresh'[t].step = "won" /\ refresh'[t].new = [login |-> refresh[t].token.login, n |-> n]
    BY <2>1, <2>3 DEF TypeOK, Refresh
  <2> QED
    BY <2>1, <2>4 DEF Token
<1> QED
  BY <1>1, <1>2, <1>3, <1>4, RefreshMoves

(***************************************************************************)
(* Waiters and leaders, request by request.                                *)
(***************************************************************************)

Waiting(r) == request[r] # Nothing /\ request[r].at \in {"waits", "waitsAgain"}
Leading(r, t) == request[r] # Nothing /\ request[r].tab = t /\ request[r].at \in {"leads", "leadsAgain"}

Led ==
    /\ \A r \in Request : Waiting(r) => refresh[request[r].tab] # Nothing
    /\ \A t \in Tab : refresh[t] # Nothing => \E r \in Request : refresh[t].by = r /\ Leading(r, t)

LEMMA LedGivesLeaders == ASSUME TypeOK, Led PROVE WaiterHasLeader
<1>1. ASSUME NEW t \in Tab, Subscribers(t) # {} PROVE refresh[t] # Nothing
  <2>1. PICK r \in Request : Waiting(r) /\ request[r].tab = t
    BY <1>1 DEF Subscribers, OfTab, Waiting
  <2> QED
    BY <2>1 DEF Led
<1>2. ASSUME NEW t \in Tab, refresh[t] # Nothing
      PROVE  refresh[t].by \in OfTab(t) /\ request[refresh[t].by].at \in {"leads", "leadsAgain"}
  <2>1. PICK r \in Request : refresh[t].by = r /\ Leading(r, t)
    BY <1>2 DEF Led
  <2> QED
    BY <2>1 DEF Leading, OfTab
<1> QED
  BY <1>1, <1>2 DEF WaiterHasLeader

\* A tab that drops its requests and its refresh leaves the other tabs as they were.
LEMMA LeavePageLed == ASSUME TypeOK, Led, NEW t \in Tab, LeavePage(t) PROVE Led'
<1>1. \A r \in Request : request'[r] = IF r \in OfTab(t) THEN Nothing ELSE request[r]
  BY DEF LeavePage
<1>2. \A u \in Tab : refresh'[u] = IF u = t THEN Nothing ELSE refresh[u]
  BY DEF LeavePage, TypeOK
<1>3. \A r \in Request : request[r] # Nothing => request[r].tab \in Tab
  BY DEF TypeOK, Pending
<1>4. \A r \in Request : Waiting(r)' =>
         Waiting(r) /\ request'[r] = request[r] /\ request[r].tab \in Tab /\ request[r].tab # t
  BY <1>1, <1>3 DEF Waiting, OfTab
<1>5. \A u \in Tab : refresh'[u] # Nothing => u # t /\ refresh'[u] = refresh[u]
  BY <1>2
<1>6. \A u \in Tab, r \in Request : u # t /\ Leading(r, u) => Leading(r, u)'
  BY <1>1 DEF Leading, OfTab
<1>7. \A r \in Request : Waiting(r)' => refresh'[request'[r].tab] # Nothing
  BY <1>2, <1>4 DEF Led
<1>8. \A u \in Tab : refresh'[u] # Nothing => \E r \in Request : refresh'[u].by = r /\ Leading(r, u)'
  <2> SUFFICES ASSUME NEW u \in Tab, refresh'[u] # Nothing
               PROVE  \E r \in Request : refresh'[u].by = r /\ Leading(r, u)'
    OBVIOUS
  <2>1. u # t /\ refresh'[u] = refresh[u]
    BY <1>5
  <2>2. PICK r \in Request : refresh[u].by = r /\ Leading(r, u)
    BY <2>1 DEF Led
  <2> QED
    BY <1>6, <2>1, <2>2
<1> QED
  BY <1>7, <1>8 DEF Led

\* A request of a tab without a refresh leads one.
LEMMA LeadingLed ==
    ASSUME TypeOK, Led, NEW r \in Request, NEW t \in Tab, NEW p \in Pending,
           p.tab = t, p.at \in {"leads", "leadsAgain"},
           ~\E u \in Tab : Leading(r, u),
           refresh[t] = Nothing, PerformRefresh(t, r),
           request' = [request EXCEPT ![r] = p]
    PROVE  Led'
<1>1. p # Nothing
  BY NothingAssumption
<1>2. \A u \in Tab : refresh'[u] = IF u = t THEN [by |-> r, token |-> stored.token, step |-> "asked", new |-> Nothing]
                                          ELSE refresh[u]
  BY DEF PerformRefresh, TypeOK
<1>3. \A q \in Request : request'[q] = IF q = r THEN p ELSE request[q]
  BY DEF TypeOK
<1>4. \A q \in Request : Waiting(q)' => q # r /\ Waiting(q) /\ request'[q] = request[q] /\ request[q].tab \in Tab
  BY <1>3 DEF Waiting, TypeOK, Pending
<1>5. \A q \in Request : Waiting(q)' => request'[q].tab # t
  BY <1>4 DEF Led
<1>6. \A u \in Tab : u # t /\ refresh'[u] # Nothing =>
         \E q \in Request : refresh'[u].by = q /\ Leading(q, u)'
  <2> SUFFICES ASSUME NEW u \in Tab, u # t, refresh'[u] # Nothing
               PROVE  \E q \in Request : refresh'[u].by = q /\ Leading(q, u)'
    OBVIOUS
  <2>1. PICK q \in Request : refresh[u].by = q /\ Leading(q, u)
    BY <1>2 DEF Led
  <2>2. q # r /\ request'[q] = request[q] /\ refresh'[u] = refresh[u]
    BY <1>2, <1>3, <2>1
  <2>3. Leading(q, u)'
    BY <2>1, <2>2 DEF Leading
  <2> QED
    BY <2>1, <2>2, <2>3
<1>7. refresh'[t].by = r /\ Leading(r, t)'
  BY <1>1, <1>2, <1>3 DEF Leading
<1>8. \A q \in Request : Waiting(q)' => refresh'[request'[q].tab] # Nothing
  BY <1>2, <1>4, <1>5 DEF Led
<1>9. \A u \in Tab : refresh'[u] # Nothing => \E q \in Request : refresh'[u].by = q /\ Leading(q, u)'
  BY <1>6, <1>7
<1> QED
  BY <1>8, <1>9 DEF Led

\* One request changes that leads no refresh: it is sent, settled, or waits
\* behind the refresh of its tab.
LEMMA OneRequestLed ==
    ASSUME TypeOK, Led, NEW r \in Request, NEW p \in Pending \union {Nothing},
           ~\E t \in Tab : Leading(r, t),
           p # Nothing /\ p.at \in {"waits", "waitsAgain"} => refresh[p.tab] # Nothing,
           request' = [request EXCEPT ![r] = p], UNCHANGED refresh
    PROVE  Led'
<1>1. \A q \in Request : request'[q] = IF q = r THEN p ELSE request[q]
  BY DEF TypeOK
<1> QED
  BY <1>1 DEF Led, Leading, Waiting

LEMMA SendLed ==
    ASSUME TypeOK, Led, NEW r \in Request, NEW t \in Tab, NEW k \in {"get", "logout"},
           SendNow(r, t, k) \/ SendAfterRefresh(r, t, k)
    PROVE  Led'
<1>0. ~\E u \in Tab : Leading(r, u)
  BY DEF SendNow, SendAfterRefresh, Leading
<1>1. \A at \in Where, token \in Token \union {Nothing} :
         [tab |-> t, kind |-> k, at |-> at, token |-> token, retried |-> FALSE] \in Pending
  BY DEF Pending
<1>2. CASE SendNow(r, t, k)
  <2>1. (IF stored = Nothing THEN Nothing ELSE stored.token) \in Token \union {Nothing}
    BY DEF TypeOK, Stored
  <2> QED
    BY <1>0, <1>1, <1>2, <2>1, OneRequestLed DEF SendNow, Begin, Where
<1>3. CASE SendAfterRefresh(r, t, k) /\ refresh[t] = Nothing
  BY <1>0, <1>1, <1>3, LeadingLed DEF SendAfterRefresh, Begin, Where
<1>4. CASE SendAfterRefresh(r, t, k) /\ refresh[t] # Nothing
  BY <1>0, <1>1, <1>4, OneRequestLed DEF SendAfterRefresh, Begin, Where
<1> QED
  BY <1>2, <1>3, <1>4

LEMMA AnswerLed == ASSUME TypeOK, Led, NEW r \in Request, Answer(r) PROVE Led'
<1>0. /\ request[r] \in Pending /\ request[r].tab \in Tab /\ request[r].at = "sent"
      /\ ~\E u \in Tab : Leading(r, u)
  BY DEF Answer, Answered, Failed, Unauthorized, Leading, TypeOK, Pending
<1>1. CASE Settle(r)
  BY <1>0, <1>1, OneRequestLed DEF Settle
<1>2. CASE ClearAuthAndRedirect(request[r].tab)
  BY <1>0, <1>2, LeavePageLed DEF ClearAuthAndRedirect
<1>3. CASE Move(r, "waitsAgain") /\ refresh[request[r].tab] # Nothing /\ UNCHANGED refresh
  <2> DEFINE p == [[request[r] EXCEPT !.at = "waitsAgain"] EXCEPT !.token = Nothing]
  <2>1. p \in Pending /\ p.tab = request[r].tab
    BY <1>0 DEF Pending, Where
  <2>2. request' = [request EXCEPT ![r] = p]
    BY <1>3 DEF Move, TypeOK
  <2>3. p.at = "waitsAgain"
    BY <1>0 DEF Pending
  <2> HIDE DEF p
  <2> QED
    BY <1>0, <1>3, <2>1, <2>2, <2>3, OneRequestLed
<1>4. CASE /\ refresh[request[r].tab] = Nothing
           /\ request' = [request EXCEPT ![r].at = "leadsAgain", ![r].token = Nothing,
                                         ![r].retried = TRUE]
           /\ PerformRefresh(request[r].tab, r)
  <2> DEFINE p == [[[request[r] EXCEPT !.at = "leadsAgain"] EXCEPT !.token = Nothing] EXCEPT !.retried = TRUE]
  <2>1. p \in Pending /\ p.tab = request[r].tab /\ p.at = "leadsAgain"
    BY <1>0 DEF Pending, Where
  <2>2. request' = [request EXCEPT ![r] = p]
    BY <1>4 DEF TypeOK
  <2> HIDE DEF p
  <2> QED
    BY <1>0, <1>4, <2>1, <2>2, LeadingLed
<1> QED
  BY <1>1, <1>2, <1>3, <1>4 DEF Answer, Answered, Failed, Unauthorized

LEMMA RefreshLed == ASSUME TypeOK, RefreshOK, Led, NEW t \in Tab, RefreshStep(t) PROVE Led'
<1>0. ASSUME refresh[t] # Nothing PROVE refresh[t] \in Refresh
  BY <1>0 DEF TypeOK
<1>1. CASE RefreshLookup(t)
  <2>1. \A s \in {"found", "refused"} :
           [refresh[t] EXCEPT !.step = s] \in Refresh /\ [refresh[t] EXCEPT !.step = s].by = refresh[t].by
    BY <1>0, <1>1 DEF RefreshLookup, Refresh
  <2>2. refresh'[t] # Nothing /\ refresh'[t].by = refresh[t].by
    BY <1>1, <2>1, NothingAssumption DEF RefreshLookup, TypeOK
  <2>3. \A u \in Tab : u # t => refresh'[u] = refresh[u]
    BY <1>1 DEF RefreshLookup, TypeOK
  <2> QED
    BY <1>1, <2>2, <2>3 DEF RefreshLookup, Led, Waiting, Leading, TypeOK, Pending
<1>2. CASE RefreshRotate(t)
  <2>1. refresh'[t].by = refresh[t].by /\ refresh'[t] # Nothing
    BY <1>2, RotateType, NothingAssumption
  <2>2. refresh[t] # Nothing /\ request' = request
    BY <1>2 DEF RefreshRotate
  <2>3. \A u \in Tab : u # t => refresh'[u] = refresh[u]
    BY <1>2 DEF RefreshRotate, TypeOK
  <2>4. \A u \in Tab : /\ refresh[u] = Nothing <=> refresh'[u] = Nothing
                       /\ refresh'[u].by = refresh[u].by
    BY <2>1, <2>2, <2>3
  <2>5. \A r \in Request : Waiting(r) => request[r].tab \in Tab
    BY DEF Waiting, TypeOK, Pending
  <2> QED
    BY <2>2, <2>4, <2>5 DEF Led, Waiting, Leading
<1>3. CASE RefreshArrives(t)
  <2>1. \A u \in Tab : refresh'[u] = IF u = t THEN Nothing ELSE refresh[u]
    BY <1>3 DEF RefreshArrives, TypeOK
  <2>2. \A r \in Request : request'[r] # request[r] =>
           request[r] # Nothing /\ request[r] \in Pending /\ request[r].tab = t /\ request'[r].at = "sent"
    <3> SUFFICES ASSUME NEW r \in Request, request'[r] # request[r]
                 PROVE  request[r] # Nothing /\ request[r] \in Pending /\ request[r].tab = t /\ request'[r].at = "sent"
      OBVIOUS
    <3>1. r \in OfTab(t) /\ request'[r] = [[request[r] EXCEPT !.at = "sent"] EXCEPT !.token = refresh[t].new]
      BY <1>3 DEF RefreshArrives, Resumed
    <3>2. request[r] # Nothing /\ request[r] \in Pending /\ request[r].tab = t
      BY <3>1 DEF OfTab, TypeOK
    <3>3. [[request[r] EXCEPT !.at = "sent"] EXCEPT !.token = refresh[t].new].at = "sent"
      BY <3>2 DEF Pending
    <3> QED
      BY <3>1, <3>2, <3>3
  <2>3. \A r \in Request : ~(Waiting(r)' /\ request'[r].tab = t)
    <3> SUFFICES ASSUME NEW r \in Request, Waiting(r)', request'[r].tab = t PROVE FALSE
      OBVIOUS
    <3>1. request'[r] = request[r]
      BY <2>2 DEF Waiting
    <3>2. r \in Subscribers(t)
      BY <3>1 DEF Subscribers, OfTab, Waiting
    <3>3. request'[r] = [[request[r] EXCEPT !.at = "sent"] EXCEPT !.token = refresh[t].new]
      BY <1>3, <3>2 DEF RefreshArrives, Resumed, Subscribers
    <3>4. request[r] \in Pending
      BY <3>2 DEF Subscribers, OfTab, TypeOK
    <3>5. request'[r].at = "sent"
      BY <3>3, <3>4 DEF Pending
    <3> QED
      BY <3>5 DEF Waiting
  <2>4. \A r \in Request : Waiting(r)' => request'[r] = request[r] /\ Waiting(r) /\ request[r].tab \in Tab
    BY <2>2 DEF Waiting, TypeOK, Pending
  <2>5. \A u \in Tab : u # t /\ refresh[u] # Nothing => request'[refresh[u].by] = request[refresh[u].by]
    BY <2>2 DEF Led, Leading
  <2> QED
    BY <2>1, <2>3, <2>4, <2>5 DEF Led, Leading
<1>4. CASE RefreshFails(t)
  BY <1>4, LeavePageLed DEF RefreshFails, ClearAuthAndRedirect
<1> QED
  BY <1>1, <1>2, <1>3, <1>4 DEF RefreshStep

LEMMA LedKept == ASSUME TypeOK, RefreshOK, Led, [Next]_vars PROVE Led'
<1>1. ASSUME UNCHANGED <<refresh, request>> PROVE Led'
  BY <1>1 DEF Led, Waiting, Leading
<1>2. ASSUME NEW t \in Tab, Reload(t) PROVE Led'
  BY <1>2, LeavePageLed DEF Reload
<1> QED
  BY <1>1, <1>2, SendLed, AnswerLed, RefreshLed DEF Next, vars, Login, Revoke, Lapse

(***************************************************************************)
(* The theorems.                                                           *)
(***************************************************************************)

IInv == TypeOK /\ RefreshOK /\ Led

LEMMA InvariantHolds == Spec => []IInv
<1>1. Init => IInv
  BY DEF Init, IInv, TypeOK, RefreshOK, Led, Waiting
<1>2. IInv /\ [Next]_vars => IInv'
  <2> SUFFICES ASSUME IInv, [Next]_vars PROVE IInv'
    OBVIOUS
  <2> QED
    BY NextType, RefreshOKKept, LedKept DEF IInv
<1> QED
  BY <1>1, <1>2, PTL DEF Spec

\* Storage, rows, refreshes and requests keep to their domains, whatever several
\* tabs do to the storage they share.
THEOREM SessionTypeCorrect == Spec => []TypeOK
<1> QED
  BY InvariantHolds, PTL DEF IInv

\* No request waits for a refresh that nobody is making.
THEOREM NobodyWaitsAlone == Spec => []WaiterHasLeader
<1>1. IInv => WaiterHasLeader
  BY LedGivesLeaders DEF IInv
<1> QED
  BY <1>1, InvariantHolds, PTL

===============================================================================
