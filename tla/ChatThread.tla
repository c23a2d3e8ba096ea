------------------------------ MODULE ChatThread ------------------------------
(***************************************************************************)
(* The messages of a team's chat and the player's posts among them          *)
(* (ChatThread in chatPage.tsx).  A first page, older pages and a poll for  *)
(* what comes after the last message of the list bring messages in, and the *)
(* answers to the player's own posts are appended meanwhile.  The server is *)
(* the log of the team's messages in the order of their creation; a message *)
(* has its place there before its transaction commits, and nobody sees it   *)
(* until then (chat_services.py, chat/models.py).                           *)
(***************************************************************************)
EXTENDS Integers, Sequences, FiniteSets, SequencesExt

CONSTANTS
    MaxMessages,  \* bound: messages in the log
    PageSize      \* messages of one answer (the page asks for 50)

VARIABLES
    log,          \* the server's messages
    chat          \* the page

chatVars == <<log, chat>>

Message == 1..MaxMessages
Load == {"first", "older", "poll"}
Asked == MaxMessages + 1    \* sent and not served yet

\* own: the messages the player has posted from this page.  late: those that
\* became visible after a newer one had been read for this page.
Log == [sent : 0..MaxMessages, hidden : SUBSET Message, own : SUBSET Message, late : SUBSET Message]

Answer == [served : BOOLEAN, page : SUBSET Message, more : BOOLEAN]
NoAnswer == [served |-> FALSE, page |-> {}, more |-> FALSE]

Visible == (1..log.sent) \ log.hidden

Chat ==
    [list : Seq(Message), lost : SUBSET Message,        \* lost: what the first page replaced
     first : {"asked", "arrived", "failed"},
     more : BOOLEAN, older : 0..MaxMessages,            \* hasMoreOlder; the anchor asked before
     polling : BOOLEAN, after : 0..MaxMessages,         \* the anchor asked after
     answer : [Load -> Answer],                         \* what was read for a load under way
     post : 0..Asked,                                   \* the post under way; what it became
     sending : BOOLEAN]

ChatTypeOK ==
    /\ log \in Log /\ log.hidden \union log.own \union log.late \subseteq 1..log.sent
    /\ chat \in Chat
    /\ Range(chat.list) \union chat.lost \subseteq Visible
    /\ \A l \in Load : chat.answer[l].page \subseteq Visible

ChatInit ==
    /\ \E sent \in 0..MaxMessages - 1 :
          log = [sent |-> sent, hidden |-> {}, own |-> {}, late |-> {}]
    /\ chat = [list |-> <<>>, lost |-> {}, first |-> "asked", more |-> FALSE, older |-> 0,
               polling |-> FALSE, after |-> 0, answer |-> [l \in Load |-> NoAnswer],
               post |-> 0, sending |-> FALSE]

OnPage(c) == chat' = c /\ UNCHANGED log

-----------------------------------------------------------------------------
(* What the server answers, and how an answer joins the list. *)

\* At most PageSize of some messages: the newest of them, or the oldest.
NewestPage(S) == {m \in S : Cardinality({k \in S : k > m}) < PageSize}
OldestPage(S) == {m \in S : Cardinality({k \in S : k < m}) < PageSize}

\* Mutant: the default order of after() too, the newest first.
PollNewestFirst(anchor) == NewestPage({m \in Visible : m > anchor})

\* What each load asks for: the newest, the newest before an anchor, the oldest after one.
FirstPage == NewestPage(Visible)
Before(anchor) == NewestPage({m \in Visible : m < anchor})
After(anchor) == OldestPage({m \in Visible : m > anchor})

WithAnswer(c, l, answer) == [c EXCEPT !.answer = [@ EXCEPT ![l] = answer]]
Served(l, page, all) ==
    OnPage(WithAnswer(chat, l, [served |-> TRUE, page |-> page, more |-> page # all]))

\* The oldest message comes first, on the page as here.
Nth(S, n) == CHOOSE i \in S : Cardinality({j \in S : j <= i}) = n
Ascending(S) == [n \in 1..Cardinality(S) |-> Nth(S, n)]

\* dedupeMessages: the first copy of a message stays, and the order with it.
Dedupe(front, back) ==
    LET kept == {i \in 1..Len(back) : back[i] \notin Range(front)}
    IN front \o [n \in 1..Cardinality(kept) |-> back[Nth(kept, n)]]

-----------------------------------------------------------------------------
(* Messages that come in. *)

\* send_*_message: a message is created in a transaction ...
Created(own) ==
    /\ log.sent < MaxMessages
    /\ log' = [log EXCEPT !.sent = @ + 1, !.hidden = @ \union {log.sent + 1},
                          !.own = IF own THEN @ \union {log.sent + 1} ELSE @]

\* Another member posts.
OthersPost == Created(FALSE) /\ UNCHANGED chat

\* What this page was or is about to be shown.
Read == Range(chat.list) \union UNION {chat.answer[l].page : l \in Load}

\* ... that commits later, or never.
Commit(m) ==
    /\ m \in log.hidden
    /\ log' = [log EXCEPT !.hidden = @ \ {m},
                          !.late = IF \E k \in Read : k > m THEN @ \union {m} ELSE @]
    /\ UNCHANGED chat

FirstServed ==
    /\ chat.first = "asked" /\ ~chat.answer["first"].served
    /\ Served("first", FirstPage, Visible)

Ended(c, l) == WithAnswer(c, l, NoAnswer)

\* The page replaces the list, the player's own posts in it included.
FirstArrives ==
    LET answer == chat.answer["first"] IN
    /\ chat.first = "asked" /\ answer.served
    /\ OnPage([Ended(chat, "first") EXCEPT
                  !.first = "arrived", !.list = Ascending(answer.page), !.more = answer.more,
                  !.lost = Range(chat.list) \ answer.page])

FirstFails == chat.first = "asked" /\ OnPage([Ended(chat, "first") EXCEPT !.first = "failed"])

\* Every eight seconds, unless a poll is under way: what comes after the last
\* message.  An empty list never asks.
StartPoll ==
    /\ ~chat.polling /\ chat.list # <<>>
    /\ OnPage([chat EXCEPT !.polling = TRUE, !.after = Last(chat.list)])

ServePoll ==
    /\ chat.polling /\ ~chat.answer["poll"].served
    /\ Served("poll", After(chat.after), {m \in Visible : m > chat.after})

PollEnds(c) == [Ended(c, "poll") EXCEPT !.polling = FALSE, !.after = 0]

PollArrives ==
    /\ chat.polling /\ chat.answer["poll"].served
    /\ OnPage([PollEnds(chat) EXCEPT !.list = Dedupe(@, Ascending(chat.answer["poll"].page))])

PollFails == chat.polling /\ OnPage(PollEnds(chat))

\* handleScroll near the top.
LoadOlder ==
    /\ chat.more /\ chat.older = 0 /\ chat.list # <<>>
    /\ OnPage([chat EXCEPT !.older = chat.list[1]])

ServeOlder ==
    /\ chat.older # 0 /\ ~chat.answer["older"].served
    /\ Served("older", Before(chat.older), {m \in Visible : m < chat.older})

OlderEnds(c) == [Ended(c, "older") EXCEPT !.older = 0]

OlderArrives ==
    LET answer == chat.answer["older"] IN
    /\ chat.older # 0 /\ answer.served
    /\ OnPage([OlderEnds(chat) EXCEPT !.list = Dedupe(Ascending(answer.page), @), !.more = answer.more])

OlderFails == chat.older # 0 /\ OnPage(OlderEnds(chat))

-----------------------------------------------------------------------------
(* The composer. *)

\* handleSend of a new message (ChatComposer has the drafts and the edits).  A voice
\* message, a photo and its caption join the list the same way.
SendText ==
    /\ ~chat.sending
    /\ OnPage([chat EXCEPT !.sending = TRUE, !.post = Asked])

ServePost ==
    /\ chat.post = Asked /\ Created(TRUE)
    /\ chat' = [chat EXCEPT !.post = log.sent + 1]

PostArrives ==
    /\ chat.post \in Visible
    /\ OnPage([chat EXCEPT !.list = Dedupe(@, <<chat.post>>), !.post = 0, !.sending = FALSE])

\* The finally of handleSend.
SendFails(c) == [c EXCEPT !.sending = FALSE]

\* Refused, or only the answer is lost.
PostFails == chat.post # 0 /\ OnPage(SendFails([chat EXCEPT !.post = 0]))

-----------------------------------------------------------------------------
ChatNext ==
    \/ OthersPost
    \/ \E m \in Message : Commit(m)
    \/ FirstServed \/ FirstArrives \/ FirstFails
    \/ StartPoll \/ ServePoll \/ PollArrives \/ PollFails
    \/ LoadOlder \/ ServeOlder \/ OlderArrives \/ OlderFails
    \/ SendText \/ ServePost \/ PostArrives \/ PostFails

ChatSpec == ChatInit /\ [][ChatNext]_chatVars

-----------------------------------------------------------------------------
(* Properties *)

\* Two loads and the answer to the player's post may all bring the same
\* message, and the list still holds it once (dedupeMessages).
ListedOnce == \A i, j \in 1..Len(chat.list) : chat.list[i] = chat.list[j] => i = j

\* The polls skip nothing they could have seen: a message that is missing below
\* one of the list is one that "older messages" still brings, or lies right below
\* a message the player has posted from this page (the answer to a post is
\* appended without what came before it, and the next poll asks after it), or
\* below one that a late first page took out of the list, or became visible only
\* after a newer message had been read: created_at is set before the transaction
\* commits (chat_services.py:105-120), and a poll asks for what is newer than the
\* last message (chat/models.py:37-46).  Such a message stays missing until the
\* page is opened again.
GapOnlyBelowOwn ==
    \A m \in Visible \ (Range(chat.list) \union log.late) :
        LET above == {k \in Range(chat.list) : k > m}
            known == {k \in Range(chat.list) \union log.own \union chat.lost : k >= m}
        IN above # {} => (chat.more /\ m < chat.list[1]) \/ Min(known) \in log.own \union chat.lost

\* The composer is disabled exactly while a post is under way, however the post
\* ends and whatever the loads do meanwhile.
SendingHasCall == chat.sending <=> chat.post # 0

=============================================================================
