----------------------------- MODULE ClientSession -----------------------------
(***************************************************************************)
(* The login of a browser: the session all its tabs share in localStorage  *)
(* (lib/session.ts), the two interceptors every request of a tab passes    *)
(* (lib/api.ts), and the server's rows, whose tokens a refresh rotates.    *)
(* Each tab is a page of its own with its own isRefreshing flag and its    *)
(* own list of requests that wait for the refresh; only the storage and    *)
(* the server are common to them.                                          *)
(***************************************************************************)
EXTENDS Integers, FiniteSets

CONSTANTS
    Tab,         \* tabs of one browser
    Request,     \* requests that may be under way at once
    MaxSession,  \* bound: logins
    MaxToken,    \* bound: tokens told apart per login
    Nothing      \* no session stored, no token, no refresh

ASSUME BoundsAssumption == MaxSession \in Nat \ {0} /\ MaxToken \in Nat

VARIABLES
    row,       \* UserSession rows: per login the current token and whether it lives
    lapsed,    \* tokens whose expires_at has passed
    stored,    \* localStorage: whose login it is, and the tokens
    refresh,   \* per tab: isRefreshing and the call of performRefresh, or Nothing
    request    \* per request: where it is, or Nothing

vars == <<row, lapsed, stored, refresh, request>>

Token == [login : 1..MaxSession, n : 0..MaxToken]
Row == [token : 0..MaxToken, live : BOOLEAN]
Stored == [user : 1..MaxSession, token : Token]

\* A request waits before it is sent, or after a 401 (refreshSubscribers); it
\* leads while performRefresh runs on its behalf.
Where == {"waits", "leads", "sent", "waitsAgain", "leadsAgain"}
Pending == [tab : Tab, kind : {"get", "logout"}, at : Where,
            token : Token \union {Nothing}, retried : BOOLEAN]
Refresh == [by : Request, token : Token, step : {"asked", "found", "won", "refused"},
            new : Token \union {Nothing}]

ASSUME NothingAssumption == Nothing \notin Token \union Row \union Stored \union Pending \union Refresh

TypeOK ==
    /\ row \in [1..MaxSession -> Row \union {Nothing}]
    /\ lapsed \subseteq Token
    /\ stored \in Stored \union {Nothing}
    /\ refresh \in [Tab -> Refresh \union {Nothing}]
    /\ request \in [Request -> Pending \union {Nothing}]

Init ==
    /\ row = [s \in 1..MaxSession |-> Nothing]
    /\ lapsed = {}
    /\ stored = Nothing
    /\ refresh = [t \in Tab |-> Nothing]
    /\ request = [r \in Request |-> Nothing]

-----------------------------------------------------------------------------
(* Helpers. *)

\* by_token_hash(...).is_active(): the token of the row, not revoked, not expired.
Accepted(token) ==
    /\ token # Nothing
    /\ row[token.login] # Nothing
    /\ row[token.login].live
    /\ row[token.login].token = token.n
    /\ token \notin lapsed

\* is_refresh_valid and not revoked: the refresh token outlives the access token.
Refreshable(token) ==
    /\ row[token.login] # Nothing
    /\ row[token.login].live
    /\ row[token.login].token = token.n

\* Somebody can still present the token: it is the row's, it is stored, a request
\* was sent with it, or a refresh was asked with it or is about to hand it out.
InUse(token) ==
    \/ row[token.login] # Nothing /\ row[token.login].token = token.n
    \/ stored # Nothing /\ stored.token = token
    \/ \E r \in Request : request[r] # Nothing /\ request[r].token = token
    \/ \E t \in Tab : /\ refresh[t] # Nothing
                     /\ \/ refresh[t].step \in {"asked", "found"} /\ refresh[t].token = token
                        \/ refresh[t].step = "won" /\ refresh[t].new = token

OfTab(t) == {r \in Request : request[r] # Nothing /\ request[r].tab = t}
Subscribers(t) == {r \in OfTab(t) : request[r].at \in {"waits", "waitsAgain"}}

\* The page of a tab goes away: what it was waiting for is dropped with it.
LeavePage(t) ==
    /\ refresh' = [refresh EXCEPT ![t] = Nothing]
    /\ request' = [r \in Request |-> IF r \in OfTab(t) THEN Nothing ELSE request[r]]

\* clearAuthAndRedirect: the storage of every tab is emptied, this one goes to /login.
ClearAuthAndRedirect(t) == stored' = Nothing /\ LeavePage(t)

\* The tokens that are stored now are sent to /auth/refresh/.
PerformRefresh(t, r) ==
    refresh' = [refresh EXCEPT ![t] =
        [by |-> r, token |-> stored.token, step |-> "asked", new |-> Nothing]]

-----------------------------------------------------------------------------
(* The requests of a tab. *)

Begin(r, t, k, at, token) ==
    request' = [request EXCEPT ![r] =
        [tab |-> t, kind |-> k, at |-> at, token |-> token, retried |-> FALSE]]

\* The request interceptor with a token that is good by its expires_at, or with
\* none at all: the request goes out as it is.
SendNow(r, t, k) ==
    /\ request[r] = Nothing
    /\ stored # Nothing => stored.token \notin lapsed
    /\ Begin(r, t, k, "sent", IF stored = Nothing THEN Nothing ELSE stored.token)
    /\ UNCHANGED <<row, lapsed, stored, refresh>>

\* The request interceptor with a token that has expired: the first request of
\* the tab refreshes it, the others subscribe.
SendAfterRefresh(r, t, k) ==
    /\ request[r] = Nothing
    /\ stored # Nothing /\ stored.token \in lapsed
    /\ IF refresh[t] = Nothing
       THEN PerformRefresh(t, r) /\ Begin(r, t, k, "leads", Nothing)
       ELSE Begin(r, t, k, "waits", Nothing) /\ UNCHANGED refresh
    /\ UNCHANGED <<row, lapsed, stored>>

\* The caller of a request is answered. logout() empties the storage whatever
\* the answer was.
Settle(r) ==
    /\ request' = [request EXCEPT ![r] = Nothing]
    /\ stored' = IF request[r].kind = "logout" THEN Nothing ELSE stored
    /\ UNCHANGED refresh

\* The server accepts the token; logging out revokes the row it belongs to.
Answered(r) ==
    /\ request[r] # Nothing /\ request[r].at = "sent" /\ Accepted(request[r].token)
    /\ row' = IF request[r].kind = "logout"
              THEN [row EXCEPT ![request[r].token.login].live = FALSE] ELSE row
    /\ Settle(r)
    /\ UNCHANGED lapsed

\* No answer, or an error other than 401: the interceptor passes it on.
Failed(r) ==
    /\ request[r] # Nothing /\ request[r].at = "sent"
    /\ Settle(r)
    /\ UNCHANGED <<row, lapsed>>

\* The refused token of a request that is held back is of no more use.
Move(r, at) == request' = [request EXCEPT ![r].at = at, ![r].token = Nothing]

\* Mutant: the mark _retry is set but never looked at.
UnauthorizedAgain(r) ==
    LET t == request[r].tab IN
    /\ request[r] # Nothing /\ request[r].at = "sent" /\ ~Accepted(request[r].token)
    /\ \/ stored = Nothing /\ ClearAuthAndRedirect(t)
       \/ /\ stored # Nothing /\ refresh[t] # Nothing
          /\ Move(r, "waitsAgain")
          /\ UNCHANGED <<stored, refresh>>
       \/ /\ stored # Nothing /\ refresh[t] = Nothing
          /\ request' = [request EXCEPT ![r].at = "leadsAgain", ![r].token = Nothing,
                                        ![r].retried = TRUE]
          /\ PerformRefresh(t, r)
          /\ UNCHANGED stored
    /\ UNCHANGED <<row, lapsed>>

\* The response interceptor with a 401: a request that led a refresh before is
\* passed on; without a stored token the tab goes to /login; otherwise the
\* request waits for the refresh that runs, or leads one.
Unauthorized(r) ==
    LET t == request[r].tab IN
    /\ request[r] # Nothing /\ request[r].at = "sent" /\ ~Accepted(request[r].token)
    /\ \/ /\ request[r].retried
          /\ Settle(r)
       \/ /\ ~request[r].retried /\ stored = Nothing
          /\ ClearAuthAndRedirect(t)
       \/ /\ ~request[r].retried /\ stored # Nothing /\ refresh[t] # Nothing
          /\ Move(r, "waitsAgain")
          /\ UNCHANGED <<stored, refresh>>
       \/ /\ ~request[r].retried /\ stored # Nothing /\ refresh[t] = Nothing
          /\ request' = [request EXCEPT ![r].at = "leadsAgain", ![r].token = Nothing,
                                        ![r].retried = TRUE]
          /\ PerformRefresh(t, r)
          /\ UNCHANGED stored
    /\ UNCHANGED <<row, lapsed>>

-----------------------------------------------------------------------------
(* The refresh of a tab. *)

\* refresh_session looks the row up by the token's hash ...
RefreshLookup(t) ==
    /\ refresh[t] # Nothing /\ refresh[t].step = "asked"
    /\ refresh' = [refresh EXCEPT ![t].step =
                     IF Refreshable(refresh[t].token) THEN "found" ELSE "refused"]
    /\ UNCHANGED <<row, lapsed, stored, request>>

\* ... and later saves new hashes into it, without a lock and without looking
\* again: of two requests that found the row, the second save wins.  The token is
\* new: one that nobody has any more stands for it.
RefreshRotate(t) ==
    LET s == refresh[t].token.login IN
    /\ refresh[t] # Nothing /\ refresh[t].step = "found"
    /\ \E n \in 0..MaxToken :
         LET token == [login |-> s, n |-> n] IN
         /\ ~InUse(token)
         /\ row' = [row EXCEPT ![s].token = n]
         /\ lapsed' = lapsed \ {token}
         /\ refresh' = [refresh EXCEPT ![t].step = "won", ![t].new = token]
    /\ UNCHANGED <<stored, request>>

\* Mutant: the leader goes on, and nobody tells the requests that subscribed.
ResumedAlone(t, token) ==
    [r \in Request |->
        IF r \in OfTab(t) /\ refresh[t].by = r
        THEN [request[r] EXCEPT !.at = "sent", !.token = token]
        ELSE request[r]]

\* What the tab's requests do with a new token: the leader and the subscribers
\* are all sent with it (onRefreshed).
Resumed(t, token) ==
    [r \in Request |->
        IF r \in OfTab(t) /\ (r \in Subscribers(t) \/ refresh[t].by = r)
        THEN [request[r] EXCEPT !.at = "sent", !.token = token]
        ELSE request[r]]

\* updateTokens: the new tokens go into whatever session is stored by now, and
\* nowhere when there is none.
RefreshArrives(t) ==
    /\ refresh[t] # Nothing /\ refresh[t].step = "won"
    /\ stored' = IF stored = Nothing THEN Nothing ELSE [stored EXCEPT !.token = refresh[t].new]
    /\ refresh' = [refresh EXCEPT ![t] = Nothing]
    /\ request' = Resumed(t, refresh[t].new)
    /\ UNCHANGED <<row, lapsed>>

\* Mutant: a failed refresh rejects its leader and forgets who waits.
RefreshFailsAlone(t) ==
    /\ refresh[t] # Nothing
    /\ stored' = Nothing
    /\ refresh' = [refresh EXCEPT ![t] = Nothing]
    /\ request' = [request EXCEPT ![refresh[t].by] = Nothing]
    /\ UNCHANGED <<row, lapsed>>

\* The refresh was refused, or its answer is lost: null goes to everybody, and
\* the tab clears the login it finds in the storage.
RefreshFails(t) ==
    /\ refresh[t] # Nothing
    /\ ClearAuthAndRedirect(t)
    /\ UNCHANGED <<row, lapsed>>

-----------------------------------------------------------------------------
(* The user and the clock. *)

\* Mutant: only the tokens are written to the storage, not whose they are.
LoginStoresTokens(s) ==
    /\ row[s] = Nothing /\ (s > 1 => row[s - 1] # Nothing)
    /\ row' = [row EXCEPT ![s] = [token |-> 0, live |-> TRUE]]
    /\ stored' = [login |-> s, n |-> 0]
    /\ UNCHANGED <<lapsed, refresh, request>>

\* Login.tsx and OtpVerify.tsx: a new row, and saveSession over what is stored.
Login(s) ==
    /\ row[s] = Nothing /\ (s > 1 => row[s - 1] # Nothing)
    /\ row' = [row EXCEPT ![s] = [token |-> 0, live |-> TRUE]]
    /\ stored' = [user |-> s, token |-> [login |-> s, n |-> 0]]
    /\ UNCHANGED <<lapsed, refresh, request>>

\* expires_at of a token that somebody has passes.
Lapse(token) ==
    /\ token \notin lapsed /\ InUse(token)
    /\ lapsed' = lapsed \union {token}
    /\ UNCHANGED <<row, stored, refresh, request>>

\* refresh_expires_at passes, or the row is revoked from somewhere else.
Revoke(s) ==
    /\ row[s] # Nothing /\ row[s].live
    /\ row' = [row EXCEPT ![s].live = FALSE]
    /\ UNCHANGED <<lapsed, stored, refresh, request>>

\* The tab is reloaded or closed, whatever it was doing.
Reload(t) ==
    /\ OfTab(t) # {}
    /\ LeavePage(t)
    /\ UNCHANGED <<row, lapsed, stored>>

-----------------------------------------------------------------------------
RefreshStep(t) == RefreshLookup(t) \/ RefreshRotate(t) \/ RefreshArrives(t) \/ RefreshFails(t)
Answer(r) == Answered(r) \/ Failed(r) \/ Unauthorized(r)

Next ==
    \/ \E r \in Request, t \in Tab, k \in {"get", "logout"} : SendNow(r, t, k) \/ SendAfterRefresh(r, t, k)
    \/ \E r \in Request : Answer(r)
    \/ \E t \in Tab : RefreshStep(t) \/ Reload(t)
    \/ \E s \in 1..MaxSession : Login(s) \/ Revoke(s)
    \/ \E token \in Token : Lapse(token)

\* Every call to the server is answered or fails in the end.
Fairness == /\ \A r \in Request : WF_vars(Answer(r))
            /\ \A t \in Tab : WF_vars(RefreshStep(t))

Spec == Init /\ [][Next]_vars /\ Fairness

-----------------------------------------------------------------------------
(* What the interceptors promise. *)

\* A request that waits for a refresh waits for one that is under way in its own
\* tab, led by another request of that tab: onRefreshed reaches every subscriber
\* and isRefreshing is never left behind (api.ts:28-38, 84-91, 126-137, 143-145).
WaiterHasLeader ==
    \A t \in Tab :
        /\ Subscribers(t) # {} => refresh[t] # Nothing
        /\ refresh[t] # Nothing =>
             /\ refresh[t].by \in OfTab(t)
             /\ request[refresh[t].by].at \in {"leads", "leadsAgain"}

\* No request is kept waiting for a refresh: whatever becomes of the refresh, the
\* requests it held back are sent, rejected or gone with their page
\* (api.ts:28-38, 84-91, 126-161).
EveryWaitEnds ==
    \A r \in Request :
        (request[r] # Nothing /\ request[r].at # "sent")
            ~> (request[r] = Nothing \/ request[r].at = "sent")

\* A request that led a refresh after a 401 is sent once more and never again,
\* however often the others rotate its token away (the _retry mark, api.ts:118-124,
\* 148).  A request that only waited for such a refresh carries no mark.
MarkedRequestSettles ==
    \A r \in Request : (request[r] # Nothing /\ request[r].retried) ~> (request[r] = Nothing)

=============================================================================
