----------------------------- MODULE Client_proofs -----------------------------
(***************************************************************************)
(* What all pages of Client.tla promise together, for every value of the   *)
(* bounds: no page waits for nothing, nothing is done twice, and every     *)
(* page keeps to its states.  The chat comes first: the list of messages,  *)
(* the composer with the recorder, the photo and the cards.                *)
(***************************************************************************)
EXTENDS ClientForms_proofs, ClientBooking_proofs, Sequences

(***************************************************************************)
(* The messages of a chat (ChatThread).                                    *)
(***************************************************************************)

LEMMA ThreadCardinality == \A S : Thread!Cardinality(S) = Cardinality(S)
BY DEF Thread!Cardinality, Cardinality

\* A set of numbers that is bounded has its members in order.
LEMMA NthIs ==
    ASSUME NEW m \in Nat, NEW S \in SUBSET (1..m)
    PROVE  /\ Cardinality(S) \in Nat
           /\ \A n \in 1..Cardinality(S) : Thread!Nth(S, n) \in S
           /\ \A i \in S : \E n \in 1..Cardinality(S) : Thread!Nth(S, n) = i
           /\ \A n, k \in 1..Cardinality(S) : Thread!Nth(S, n) = Thread!Nth(S, k) => n = k
           /\ \A n \in 1..Cardinality(S) : Cardinality({j \in S : j <= Thread!Nth(S, n)}) = n
<1> DEFINE Upto(i) == {j \in S : j <= i}
           rank == [i \in S |-> Cardinality(Upto(i))]
           size == Cardinality(S)
<1>1. IsFiniteSet(S) /\ size \in Nat
  <2>1. IsFiniteSet(1..m)
    BY FS_Interval
  <2> QED
    BY <2>1, FS_Subset, FS_CardinalityType
<1>2. \A i \in S : Upto(i) \in SUBSET S /\ IsFiniteSet(Upto(i)) /\ Cardinality(Upto(i)) \in 1..size
  <2> SUFFICES ASSUME NEW i \in S
               PROVE  Upto(i) \in SUBSET S /\ IsFiniteSet(Upto(i)) /\ Cardinality(Upto(i)) \in 1..size
    OBVIOUS
  <2>1. Upto(i) \in SUBSET S /\ i \in Upto(i)
    OBVIOUS
  <2>2. IsFiniteSet(Upto(i)) /\ Cardinality(Upto(i)) <= size /\ Cardinality(Upto(i)) \in Nat
    BY <1>1, <2>1, FS_Subset, FS_CardinalityType
  <2>3. Cardinality(Upto(i)) # 0
    BY <2>1, <2>2, FS_EmptySet
  <2> QED
    BY <1>1, <2>1, <2>2, <2>3
<1>3. \A i, j \in S : i < j => Cardinality(Upto(i)) # Cardinality(Upto(j))
  <2> SUFFICES ASSUME NEW i \in S, NEW j \in S, i < j
               PROVE  Cardinality(Upto(i)) # Cardinality(Upto(j))
    OBVIOUS
  <2>1. \A k \in S : k \in Int
    OBVIOUS
  <2>2. i <= j /\ ~(j <= i) /\ j <= j /\ \A k \in S : k <= i => k <= j
    BY <2>1
  <2>3. Upto(i) \in SUBSET Upto(j) /\ j \in Upto(j) /\ j \notin Upto(i)
    BY <2>2
  <2> QED
    BY <1>2, <2>3, FS_Subset
<1>4. \A i, j \in S : rank[i] = rank[j] => i = j
  <2> HIDE DEF Upto
  <2> QED
    BY <1>3
<1>5. rank \in [S -> 1..size]
  BY <1>2
<1> HIDE DEF rank
<1>6. rank \in Injection(S, 1..size)
  BY <1>4, <1>5 DEF Injection, IsInjective
<1>7. IsFiniteSet(1..size) /\ Cardinality(1..size) = size
  BY <1>1, FS_Interval
<1> HIDE DEF size
<1>8. rank \in Surjection(S, 1..size)
  BY <1>6, <1>7, FS_Injection DEF size
<1>9. \A n \in 1..size : \E i \in S : rank[i] = n
  BY <1>8 DEF Surjection
<1>10. \A i \in S : rank[i] = Cardinality({j \in S : j <= i})
  BY DEF rank
<1>11. \A n \in 1..size : Thread!Nth(S, n) \in S /\ rank[Thread!Nth(S, n)] = n
  <2> SUFFICES ASSUME NEW n \in 1..size
               PROVE  Thread!Nth(S, n) \in S /\ rank[Thread!Nth(S, n)] = n
    OBVIOUS
  <2>1. PICK i \in S : rank[i] = n
    BY <1>9
  <2>2. \E k \in S : Cardinality({j \in S : j <= k}) = n
    BY <1>10, <2>1
  <2> QED
    BY <1>10, <2>2, ThreadCardinality DEF Thread!Nth
<1>12. \A i \in S : rank[i] \in 1..size /\ Thread!Nth(S, rank[i]) = i
  BY <1>4, <1>5, <1>11
<1> QED
  BY <1>1, <1>10, <1>11, <1>12 DEF size

Once(s) == \A i, j \in 1..Len(s) : s[i] = s[j] => i = j

\* What dedupeMessages returns: the messages of both lists, each of them once,
\* and the first of the front list first.
LEMMA DedupeIs ==
    ASSUME NEW T, NEW front \in Seq(T), NEW back \in Seq(T), Once(front), Once(back)
    PROVE  /\ Thread!Dedupe(front, back) \in Seq(T) /\ Once(Thread!Dedupe(front, back))
           /\ Thread!Range(Thread!Dedupe(front, back)) = Thread!Range(front) \union Thread!Range(back)
           /\ front # <<>> => Thread!Dedupe(front, back) # <<>> /\ Thread!Dedupe(front, back)[1] = front[1]
<1> DEFINE kept == {i \in 1..Len(back) : back[i] \notin Thread!Range(front)}
           size == Cardinality(kept)
           rest == [n \in 1..size |-> back[Thread!Nth(kept, n)]]
           all == front \o rest
<1>1. Thread!Dedupe(front, back) = all
  BY ThreadCardinality DEF Thread!Dedupe
<1>2. /\ size \in Nat
      /\ \A n \in 1..size : Thread!Nth(kept, n) \in kept
      /\ \A i \in kept : \E n \in 1..size : Thread!Nth(kept, n) = i
      /\ \A n, k \in 1..size : Thread!Nth(kept, n) = Thread!Nth(kept, k) => n = k
  <2>1. Len(back) \in Nat /\ kept \in SUBSET (1..Len(back))
    OBVIOUS
  <2> HIDE DEF kept
  <2> QED
    BY <2>1, NthIs
<1>3. \A i \in kept : i \in 1..Len(back) /\ back[i] \in T /\ back[i] \notin Thread!Range(front)
  OBVIOUS
<1>4. \A i \in 1..Len(back) : back[i] \in Thread!Range(front) \/ i \in kept
  OBVIOUS
<1> HIDE DEF kept, size
<1>5. rest \in Seq(T) /\ Len(rest) = size /\ \A n \in 1..size : rest[n] = back[Thread!Nth(kept, n)]
  <2>1. \A n \in 1..size : back[Thread!Nth(kept, n)] \in T
    BY <1>2, <1>3
  <2>2. rest \in [1..size -> T]
    BY <2>1
  <2>3. rest \in Seq(T)
    BY <1>2, <2>2
  <2> QED
    BY <1>2, <2>2, <2>3
<1> HIDE DEF rest
<1>6. /\ all \in Seq(T) /\ Len(all) = Len(front) + size
      /\ \A i \in 1..Len(front) : all[i] = front[i]
      /\ \A n \in 1..size : all[Len(front) + n] = rest[n]
  BY <1>2, <1>5
<1>7. DOMAIN all = 1..Len(front) + size /\ DOMAIN front = 1..Len(front) /\ DOMAIN back = 1..Len(back)
  BY <1>6
<1>8. Len(front) \in Nat /\ Len(back) \in Nat
  OBVIOUS
<1> HIDE DEF all
<1>9. \A i \in 1..Len(front) + size :
          \/ i \in 1..Len(front) /\ all[i] = front[i]
          \/ \E n \in 1..size : i = Len(front) + n /\ all[i] = back[Thread!Nth(kept, n)]
  <2> SUFFICES ASSUME NEW i \in 1..Len(front) + size, i \notin 1..Len(front)
               PROVE  \E n \in 1..size : i = Len(front) + n /\ all[i] = back[Thread!Nth(kept, n)]
    BY <1>6
  <2>1. i - Len(front) \in 1..size /\ i = Len(front) + (i - Len(front))
    BY <1>2, <1>8
  <2> QED
    BY <1>5, <1>6, <2>1
<1>10. Thread!Range(all) = Thread!Range(front) \union Thread!Range(back)
  <2>1. \A x \in Thread!Range(all) : x \in Thread!Range(front) \union Thread!Range(back)
    BY <1>2, <1>3, <1>7, <1>9 DEF Thread!Range
  <2>2. \A x \in Thread!Range(front) : x \in Thread!Range(all)
    <3> SUFFICES ASSUME NEW i \in 1..Len(front) PROVE front[i] \in Thread!Range(all)
      BY <1>7 DEF Thread!Range
    <3>1. i \in 1..Len(front) + size
      BY <1>2, <1>8
    <3> QED
      BY <1>6, <1>7, <3>1 DEF Thread!Range
  <2>3. \A x \in Thread!Range(back) : x \in Thread!Range(all)
    <3> SUFFICES ASSUME NEW i \in 1..Len(back), back[i] \notin Thread!Range(front)
                 PROVE  back[i] \in Thread!Range(all)
      BY <1>7, <2>2 DEF Thread!Range
    <3>1. PICK n \in 1..size : Thread!Nth(kept, n) = i
      BY <1>2, <1>4
    <3>2. Len(front) + n \in 1..Len(front) + size
      BY <1>2, <1>8
    <3> QED
      BY <1>5, <1>6, <1>7, <3>1, <3>2 DEF Thread!Range
  <2> QED
    BY <2>1, <2>2, <2>3
<1>11. front # <<>> => all # <<>> /\ all[1] = front[1]
  <2> SUFFICES ASSUME front # <<>> PROVE all # <<>> /\ all[1] = front[1]
    OBVIOUS
  <2>1. 1 \in 1..Len(front)
    OBVIOUS
  <2> QED
    BY <1>2, <1>6, <1>8, <2>1
<1>12. ASSUME NEW i \in 1..Len(front) + size, NEW j \in 1..Len(front) + size, all[i] = all[j]
       PROVE  i = j
  <2>1. CASE i \in 1..Len(front) /\ j \in 1..Len(front)
    BY <1>6, <1>12, <2>1 DEF Once
  <2>2. CASE i \in 1..Len(front) /\ j \notin 1..Len(front)
    <3>1. PICK n \in 1..size : all[j] = back[Thread!Nth(kept, n)]
      BY <1>9, <2>2
    <3>2. all[i] = front[i] /\ front[i] \in Thread!Range(front)
      BY <1>6, <1>7, <2>2 DEF Thread!Range
    <3> QED
      BY <1>2, <1>3, <1>12, <3>1, <3>2
  <2>3. CASE i \notin 1..Len(front) /\ j \in 1..Len(front)
    <3>1. PICK n \in 1..size : all[i] = back[Thread!Nth(kept, n)]
      BY <1>9, <2>3
    <3>2. all[j] = front[j] /\ front[j] \in Thread!Range(front)
      BY <1>6, <1>7, <2>3 DEF Thread!Range
    <3> QED
      BY <1>2, <1>3, <1>12, <3>1, <3>2
  <2>4. CASE i \notin 1..Len(front) /\ j \notin 1..Len(front)
    <3>1. PICK n \in 1..size : i = Len(front) + n /\ all[i] = back[Thread!Nth(kept, n)]
      BY <1>9, <2>4
    <3>2. PICK k \in 1..size : j = Len(front) + k /\ all[j] = back[Thread!Nth(kept, k)]
      BY <1>9, <2>4
    <3>3. Thread!Nth(kept, n) = Thread!Nth(kept, k)
      BY <1>2, <1>3, <1>12, <3>1, <3>2 DEF Once
    <3> QED
      BY <1>2, <3>1, <3>2, <3>3
  <2> QED
    BY <2>1, <2>2, <2>3, <2>4
<1>13. Once(all)
  BY <1>6, <1>12 DEF Once
<1> QED
  BY <1>1, <1>6, <1>10, <1>11, <1>13

\* The least of some numbers is the first of them.
LEMMA FirstIsLeast ==
    ASSUME NEW m \in Nat, NEW S \in SUBSET (1..m), S # {}
    PROVE  /\ 1 \in 1..Cardinality(S) /\ Thread!Nth(S, 1) \in S
           /\ \A y \in S : Thread!Nth(S, 1) <= y
<1> DEFINE x == Thread!Nth(S, 1)
           below == {j \in S : j <= x}
<1>1. IsFiniteSet(S)
  <2>1. IsFiniteSet(1..m)
    BY FS_Interval
  <2> QED
    BY <2>1, FS_Subset
<1>2. Cardinality(S) \in Nat /\ Cardinality(S) # 0
  BY <1>1, FS_EmptySet, FS_CardinalityType
<1>3. x \in S /\ Cardinality(below) = 1
  <2>1. 1 \in 1..Cardinality(S)
    BY <1>2
  <2> QED
    BY <2>1, NthIs
<1>4. \A y \in S : y \in Int
  OBVIOUS
<1> HIDE DEF x
<1>5. below \in SUBSET S /\ x \in below
  BY <1>3, <1>4
<1> HIDE DEF below
<1>6. below = {x}
  <2>1. IsFiniteSet(below)
    BY <1>1, <1>5, FS_Subset
  <2>2. {x} \in SUBSET below /\ Cardinality({x}) = 1
    BY <1>5, FS_Singleton
  <2> QED
    BY <1>3, <2>1, <2>2, FS_Subset
<1>7. \A y \in S : x <= y
  <2> SUFFICES ASSUME NEW y \in S PROVE x <= y
    OBVIOUS
  <2>1. y <= x => y = x
    BY <1>6 DEF below
  <2> QED
    BY <1>3, <1>4, <2>1
<1> QED
  BY <1>2, <1>3, <1>7 DEF x

LEMMA LeastIs ==
    ASSUME NEW m \in Nat, NEW S \in SUBSET (1..m), S # {}
    PROVE  Thread!Min(S) \in S /\ \A y \in S : Thread!Min(S) <= y
<1>1. \E x \in S : \A y \in S : x <= y
  BY FirstIsLeast
<1> QED
  BY <1>1 DEF Thread!Min

\* The messages of an answer in the order they are shown in, each of them once.
LEMMA AscendingIs ==
    ASSUME NEW m \in Nat, NEW S \in SUBSET (1..m)
    PROVE  /\ Thread!Ascending(S) \in Seq(S) /\ Once(Thread!Ascending(S))
           /\ Thread!Range(Thread!Ascending(S)) = S
           /\ S # {} => /\ Thread!Ascending(S) # <<>> /\ Thread!Ascending(S)[1] \in S
                        /\ \A y \in S : Thread!Ascending(S)[1] <= y
<1> DEFINE size == Cardinality(S)
           list == Thread!Ascending(S)
<1>1. /\ size \in Nat
      /\ \A n \in 1..size : Thread!Nth(S, n) \in S
      /\ \A i \in S : \E n \in 1..size : Thread!Nth(S, n) = i
      /\ \A n, k \in 1..size : Thread!Nth(S, n) = Thread!Nth(S, k) => n = k
  BY NthIs
<1>2. list = [n \in 1..size |-> Thread!Nth(S, n)]
  BY ThreadCardinality DEF Thread!Ascending
<1> HIDE DEF list, size
<1>3. DOMAIN list = 1..size /\ \A n \in 1..size : list[n] = Thread!Nth(S, n)
  BY <1>2
<1>4. list \in [1..size -> S]
  BY <1>1, <1>2
<1>5. list \in Seq(S) /\ Len(list) = size
  BY <1>1, <1>4
<1>6. Once(list)
  BY <1>1, <1>3, <1>5 DEF Once
<1>7. Thread!Range(list) = S
  BY <1>1, <1>3 DEF Thread!Range
<1>8. S # {} => list # <<>> /\ list[1] \in S /\ \A y \in S : list[1] <= y
  <2> SUFFICES ASSUME S # {} PROVE list # <<>> /\ list[1] \in S /\ \A y \in S : list[1] <= y
    OBVIOUS
  <2>1. 1 \in 1..size /\ Thread!Nth(S, 1) \in S /\ \A y \in S : Thread!Nth(S, 1) <= y
    BY FirstIsLeast DEF size
  <2> QED
    BY <1>3, <1>5, <2>1
<1> QED
  BY <1>5, <1>6, <1>7, <1>8 DEF list

\* A page leaves out nothing between its messages and the end it is read from.
LEMMA PagesAre ==
    ASSUME NEW m \in Nat, NEW S \in SUBSET (1..m), PageSize \in Nat \ {0}
    PROVE  /\ Thread!NewestPage(S) \subseteq S
           /\ \A k \in Thread!NewestPage(S), j \in S : k < j => j \in Thread!NewestPage(S)
           /\ Thread!OldestPage(S) \subseteq S
           /\ \A k \in Thread!OldestPage(S), j \in S : j < k => j \in Thread!OldestPage(S)
<1>1. IsFiniteSet(S)
  <2>1. IsFiniteSet(1..m)
    BY FS_Interval
  <2> QED
    BY <2>1, FS_Subset
<1>2. \A k \in S : k \in Int
  OBVIOUS
<1>3. ASSUME NEW A \in SUBSET S, NEW B \in SUBSET A, Cardinality(A) < PageSize
      PROVE  Cardinality(B) < PageSize
  <2>1. IsFiniteSet(A) /\ IsFiniteSet(B) /\ Cardinality(B) <= Cardinality(A)
    BY <1>1, FS_Subset
  <2>2. Cardinality(A) \in Nat /\ Cardinality(B) \in Nat
    BY <2>1, FS_CardinalityType
  <2> QED
    BY <1>3, <2>1, <2>2
<1>4. \A k \in Thread!NewestPage(S), j \in S : k < j => j \in Thread!NewestPage(S)
  <2> SUFFICES ASSUME NEW k \in S, Cardinality({i \in S : i > k}) < PageSize, NEW j \in S, k < j
               PROVE  Cardinality({i \in S : i > j}) < PageSize
    BY ThreadCardinality DEF Thread!NewestPage
  <2> DEFINE A == {i \in S : i > k}
             B == {i \in S : i > j}
  <2>0. \A i \in S : i > j => i > k
    BY <1>2
  <2>1. A \in SUBSET S /\ B \in SUBSET A
    BY <2>0
  <2> HIDE DEF A, B
  <2>2. Cardinality(A) < PageSize => Cardinality(B) < PageSize
    BY <1>3, <2>1
  <2> QED
    BY <2>2 DEF A, B
<1>5. \A k \in Thread!OldestPage(S), j \in S : j < k => j \in Thread!OldestPage(S)
  <2> SUFFICES ASSUME NEW k \in S, Cardinality({i \in S : i < k}) < PageSize, NEW j \in S, j < k
               PROVE  Cardinality({i \in S : i < j}) < PageSize
    BY ThreadCardinality DEF Thread!OldestPage
  <2> DEFINE A == {i \in S : i < k}
             B == {i \in S : i < j}
  <2>0. \A i \in S : i < j => i < k
    BY <1>2
  <2>1. A \in SUBSET S /\ B \in SUBSET A
    BY <2>0
  <2> HIDE DEF A, B
  <2>2. Cardinality(A) < PageSize => Cardinality(B) < PageSize
    BY <1>3, <2>1
  <2> QED
    BY <2>2 DEF A, B
<1> QED
  BY <1>4, <1>5 DEF Thread!NewestPage, Thread!OldestPage

\* The messages below which one may be missing for good; what the page knows of;
\* and the messages it should not miss.
Passed == log.own \union chat.lost
Known == Thread!Range(chat.list) \union Passed
Firm == Thread!Visible \ log.late

\* Between a message listed and one that is missing below it is another the page
\* knows of, or the load of older messages begins here.
Chained ==
    \A k \in Thread!Range(chat.list) \ Passed, m \in Firm \ Known :
        m < k => (\E j \in Known : m < j /\ j < k) \/ (chat.more /\ k <= chat.list[1])

\* What was read for a load leaves nothing out between its messages and the
\* anchor, and says when it leaves out something beyond them.
FirstWhole(a) ==
    \A k \in a.page, m \in Firm :
        m < k => m \in a.page \/ (a.more /\ \A p \in a.page : m <= p)

PollWhole(a, after) ==
    \A k \in a.page : k > after /\ \A m \in Firm : after < m /\ m < k => m \in a.page

OlderWhole(a, older) ==
    /\ \A k \in a.page : k < older
    /\ a.served =>
          \A m \in Firm : m < older => m \in a.page \/ (a.more /\ \A p \in a.page : m <= p)

AnswersWhole ==
    /\ FirstWhole(chat.answer["first"])
    /\ PollWhole(chat.answer["poll"], chat.after)
    /\ OlderWhole(chat.answer["older"], chat.older)

\* What the loads under way will join the list to is still there.
LoadsJoin ==
    /\ chat.polling => chat.after \in Known
    /\ ~chat.polling => chat.answer["poll"] = Thread!NoAnswer
    /\ chat.older # 0 => chat.first = "arrived" /\ chat.list # <<>> /\ chat.older = chat.list[1]
    /\ chat.older = 0 => chat.answer["older"] = Thread!NoAnswer
    /\ chat.more \/ chat.lost # {} => chat.first = "arrived"

ThreadInv ==
    /\ Thread!ChatTypeOK /\ Thread!SendingHasCall /\ Thread!ListedOnce
    /\ Chained /\ AnswersWhole /\ LoadsJoin
    /\ chat.post \in Thread!Message => chat.post \in log.own

\* What the types say of the log and the page.
LEMMA ThreadTypes ==
    ASSUME Thread!ChatTypeOK
    PROVE  /\ log \in Thread!Log /\ log.sent \in Nat /\ log.sent \in 0..MaxMessages /\ MaxMessages \in Nat
           /\ log.own \subseteq 1..log.sent /\ log.hidden \subseteq 1..log.sent /\ log.late \subseteq 1..log.sent
           /\ Thread!Visible \subseteq 1..log.sent /\ Thread!Visible \subseteq Thread!Message
           /\ chat \in Thread!Chat /\ PageSize \in Nat \ {0}
           /\ Thread!Range(chat.list) \subseteq Thread!Visible /\ chat.lost \subseteq Thread!Visible
           /\ Known \subseteq 1..log.sent /\ Firm \subseteq 1..log.sent
           /\ Thread!Asked = MaxMessages + 1
           /\ "first" \in Thread!Load /\ "poll" \in Thread!Load /\ "older" \in Thread!Load
           /\ \A l \in Thread!Load : chat.answer[l] \in Thread!Answer
                                       /\ chat.answer[l].page \subseteq Thread!Visible
<1>1. /\ log \in Thread!Log /\ log.hidden \union log.own \union log.late \subseteq 1..log.sent
      /\ chat \in Thread!Chat /\ Thread!Range(chat.list) \union chat.lost \subseteq Thread!Visible
      /\ \A l \in Thread!Load : chat.answer[l].page \subseteq Thread!Visible
  BY DEF Thread!ChatTypeOK
<1>2. log.sent \in 0..MaxMessages /\ MaxMessages \in Nat /\ log.sent \in Nat /\ PageSize \in Nat \ {0}
  BY <1>1, ThreadAssumption DEF Thread!Log
<1>3. Thread!Visible \subseteq 1..log.sent /\ Thread!Visible \subseteq Thread!Message
  BY <1>2 DEF Thread!Visible, Thread!Message
<1>4. chat.answer \in [Thread!Load -> Thread!Answer]
  BY <1>1 DEF Thread!Chat
<1>5. Known \subseteq 1..log.sent /\ Firm \subseteq 1..log.sent
  BY <1>1, <1>3 DEF Known, Passed, Firm
<1> QED
  BY <1>1, <1>2, <1>3, <1>4, <1>5 DEF Thread!Asked, Thread!Load

\* The first and the last message of a list are messages of it.
LEMMA ListEnds ==
    ASSUME NEW list \in Seq(Thread!Message), list # <<>>
    PROVE  list[1] \in Thread!Range(list) /\ Thread!Last(list) \in Thread!Range(list)
<1>1. DOMAIN list = 1..Len(list) /\ 1 \in 1..Len(list) /\ Len(list) \in 1..Len(list)
  OBVIOUS
<1> QED
  BY <1>1 DEF Thread!Range, Thread!Last

LEMMA ListIs ==
    ASSUME Thread!ChatTypeOK
    PROVE  /\ chat.list \in Seq(Thread!Message) /\ chat.lost \in SUBSET Thread!Message
           /\ chat.list # <<>> =>
                /\ chat.list[1] \in Thread!Range(chat.list)
                /\ Thread!Last(chat.list) \in Thread!Range(chat.list)
           /\ chat.list = <<>> => Thread!Range(chat.list) = {}
<1>1. chat.list \in Seq(Thread!Message) /\ chat.lost \in SUBSET Thread!Message
  BY DEF Thread!ChatTypeOK, Thread!Chat
<1>2. Thread!Range(<<>>) = {}
  BY DEF Thread!Range
<1> QED
  BY <1>1, <1>2, ListEnds

\* The least message known above a missing one is one it may be missing below.
LEMMA ChainedImplies == ASSUME Thread!ChatTypeOK, Chained PROVE Thread!GapOnlyBelowOwn
<1> DEFINE above(m) == {k \in Thread!Range(chat.list) : k > m}
           known(m) == {k \in Thread!Range(chat.list) \union log.own \union chat.lost : k >= m}
<1> SUFFICES ASSUME NEW m \in Thread!Visible, m \notin Thread!Range(chat.list), m \notin log.late,
                    above(m) # {}
             PROVE  \/ chat.more /\ m < chat.list[1]
                    \/ Thread!Min(known(m)) \in log.own \union chat.lost
  BY DEF Thread!GapOnlyBelowOwn
<1> DEFINE least == Thread!Min(known(m))
<1>1. /\ log.sent \in Nat /\ Known \subseteq 1..log.sent /\ m \in 1..log.sent /\ m \in Firm
      /\ Thread!Range(chat.list) \subseteq Known /\ Known = Thread!Range(chat.list) \union Passed
  BY ThreadTypes DEF Firm, Known
<1>2. known(m) = {k \in Known : k >= m}
  BY DEF Known, Passed
<1>3. known(m) \in SUBSET (1..log.sent) /\ known(m) # {}
  BY <1>1, <1>2
<1>4. least \in known(m) /\ \A y \in known(m) : least <= y
  <2> HIDE DEF known
  <2> QED
    BY <1>1, <1>3, LeastIs
<1> HIDE DEF least
<1>5. least \in Known /\ least >= m /\ \A y \in Known : y >= m => least <= y
  BY <1>2, <1>4
<1>6. CASE least \in Passed
  BY <1>6 DEF least, Passed
<1>7. CASE least \notin Passed
  <2>1. least \in Thread!Range(chat.list) \ Passed /\ m < least
    BY <1>1, <1>5, <1>7
  <2>2. m \notin Known
    BY <1>1, <1>5, <2>1
  <2>3. ~\E j \in Known : m < j /\ j < least
    BY <1>1, <1>5
  <2>4. chat.more /\ least <= chat.list[1]
    BY <1>1, <2>1, <2>2, <2>3 DEF Chained
  <2>5. chat.list[1] \in Thread!Range(chat.list)
    BY <2>1, ListIs
  <2> QED
    BY <1>1, <2>1, <2>4, <2>5
<1> QED
  BY <1>6, <1>7

LEMMA ThreadInvImplies ==
    ASSUME ThreadInv
    PROVE  Thread!ChatTypeOK /\ Thread!SendingHasCall /\ Thread!ListedOnce /\ Thread!GapOnlyBelowOwn
BY ChainedImplies DEF ThreadInv

LEMMA NothingIsWhole ==
    /\ Thread!NoAnswer \in Thread!Answer /\ Thread!NoAnswer.page = {} /\ ~Thread!NoAnswer.served
    /\ FirstWhole(Thread!NoAnswer)
    /\ \A n : PollWhole(Thread!NoAnswer, n) /\ OlderWhole(Thread!NoAnswer, n)
BY DEF Thread!NoAnswer, Thread!Answer, FirstWhole, PollWhole, OlderWhole

LEMMA ThreadInitInv == Thread!ChatInit => ThreadInv
<1> SUFFICES ASSUME Thread!ChatInit PROVE ThreadInv
  OBVIOUS
<1>1. PICK sent \in 0..MaxMessages - 1 : log = [sent |-> sent, hidden |-> {}, own |-> {}, late |-> {}]
  BY DEF Thread!ChatInit
<1>2. log \in Thread!Log /\ log.hidden = {} /\ log.own = {} /\ log.late = {}
  BY <1>1, ThreadAssumption DEF Thread!Log
<1>3. /\ chat.list = <<>> /\ chat.lost = {} /\ chat.first = "asked" /\ ~chat.more /\ chat.older = 0
      /\ chat.polling = FALSE /\ chat.after = 0 /\ chat.post = 0 /\ chat.sending = FALSE
      /\ chat.answer = [l \in Thread!Load |-> Thread!NoAnswer]
      /\ chat \in Thread!Chat
  <2>1. Thread!NoAnswer \in Thread!Answer /\ 0 \in 0..Thread!Asked /\ 0 \in 0..MaxMessages
    BY NothingIsWhole, ThreadAssumption DEF Thread!Asked
  <2>2. [l \in Thread!Load |-> Thread!NoAnswer] \in [Thread!Load -> Thread!Answer]
    BY <2>1
  <2>3. <<>> \in Seq(Thread!Message)
    OBVIOUS
  <2> QED
    BY <2>1, <2>2, <2>3 DEF Thread!ChatInit, Thread!Chat
<1>4. Thread!Range(chat.list) = {} /\ Len(chat.list) = 0
  BY <1>3 DEF Thread!Range
<1>5. \A l \in Thread!Load : chat.answer[l] = Thread!NoAnswer
  BY <1>3
<1>6. chat.answer["first"] = Thread!NoAnswer /\ chat.answer["poll"] = Thread!NoAnswer
        /\ chat.answer["older"] = Thread!NoAnswer
  BY <1>5 DEF Thread!Load
<1>7. Thread!ChatTypeOK
  BY <1>2, <1>3, <1>4, <1>5, NothingIsWhole DEF Thread!ChatTypeOK
<1>8. Thread!SendingHasCall /\ Thread!ListedOnce
  BY <1>3, <1>4 DEF Thread!SendingHasCall, Thread!ListedOnce
<1>9. Chained
  BY <1>4 DEF Chained
<1>10. AnswersWhole
  BY <1>6, NothingIsWhole DEF AnswersWhole
<1>11. LoadsJoin
  BY <1>3, <1>6 DEF LoadsJoin
<1>12. chat.post \notin Thread!Message
  BY <1>3, ThreadAssumption DEF Thread!Message
<1> QED
  BY <1>7, <1>8, <1>9, <1>10, <1>11, <1>12 DEF ThreadInv

\* What two states of the page have in common.
ListSame(c, d) == d.list = c.list /\ d.lost = c.lost /\ d.more = c.more
PostSame(c, d) == d.post = c.post /\ d.sending = c.sending
LoadsSame(c, d) ==
    d.first = c.first /\ d.polling = c.polling /\ d.after = c.after /\ d.older = c.older

\* What is read for a load changes nothing else of the page.
LEMMA WithAnswerIs ==
    ASSUME NEW c \in Thread!Chat, NEW l \in Thread!Load, NEW a \in Thread!Answer
    PROVE  /\ Thread!WithAnswer(c, l, a) \in Thread!Chat
           /\ Thread!WithAnswer(c, l, a).answer[l] = a
           /\ \A k \in Thread!Load : k # l => Thread!WithAnswer(c, l, a).answer[k] = c.answer[k]
           /\ ListSame(c, Thread!WithAnswer(c, l, a)) /\ PostSame(c, Thread!WithAnswer(c, l, a))
           /\ LoadsSame(c, Thread!WithAnswer(c, l, a))
<1> DEFINE answer == [c.answer EXCEPT ![l] = a]
           d == Thread!WithAnswer(c, l, a)
<1>1. c.answer \in [Thread!Load -> Thread!Answer]
  BY DEF Thread!Chat
<1>2. /\ answer \in [Thread!Load -> Thread!Answer] /\ answer[l] = a
      /\ \A k \in Thread!Load : k # l => answer[k] = c.answer[k]
  BY <1>1
<1>3. d = [c EXCEPT !.answer = answer]
  BY DEF Thread!WithAnswer
<1> HIDE DEF answer, d
<1>4. d \in Thread!Chat /\ d.answer = answer /\ ListSame(c, d) /\ PostSame(c, d) /\ LoadsSame(c, d)
  BY <1>2, <1>3 DEF Thread!Chat, ListSame, PostSame, LoadsSame
<1> QED
  BY <1>2, <1>4 DEF d

\* A step of the page that keeps to its messages, and knows of all it knew of.
LEMMA PageStepInv ==
    ASSUME ThreadInv, log' = log, chat' \in Thread!Chat,
           Thread!Range(chat'.list) \union chat'.lost \subseteq Thread!Visible,
           \A l \in Thread!Load : chat'.answer[l].page \subseteq Thread!Visible,
           Thread!ListedOnce', Chained', LoadsJoin', FirstWhole(chat'.answer["first"]),
           PollWhole(chat'.answer["poll"], chat'.after), OlderWhole(chat'.answer["older"], chat'.older),
           chat'.sending <=> chat'.post # 0, chat'.post \in {chat.post, 0, Thread!Asked}
    PROVE  ThreadInv'
<1>1. Thread!ChatTypeOK'
  BY DEF ThreadInv, Thread!ChatTypeOK, Thread!Visible
<1>2. AnswersWhole'
  BY DEF AnswersWhole, FirstWhole, PollWhole, OlderWhole, Firm, Thread!Visible
<1>3. chat'.post \in Thread!Message => chat'.post \in log'.own
  <2>1. 0 \notin Thread!Message /\ Thread!Asked \notin Thread!Message
    BY ThreadAssumption DEF Thread!Message, Thread!Asked
  <2> QED
    BY <2>1 DEF ThreadInv
<1> QED
  BY <1>1, <1>2, <1>3 DEF ThreadInv, Thread!SendingHasCall

\* A step that leaves the list alone.
LEMMA ListSameInv ==
    ASSUME ThreadInv, log' = log, ListSame(chat, chat')
    PROVE  /\ Thread!Range(chat'.list) \union chat'.lost \subseteq Thread!Visible
           /\ Thread!ListedOnce' /\ Chained' /\ Known' = Known
<1>1. Known' = Known /\ Passed' = Passed /\ Firm' = Firm
  BY DEF Known, Passed, Firm, Thread!Visible, ListSame
<1> QED
  BY <1>1 DEF ThreadInv, Thread!ChatTypeOK, Thread!ListedOnce, Chained, ListSame

LEMMA ChatUnchanged == ASSUME ThreadInv, UNCHANGED Thread!chatVars PROVE ThreadInv'
BY DEF ThreadInv, Thread!chatVars, Thread!ChatTypeOK, Thread!SendingHasCall, Thread!ListedOnce, Thread!Visible,
   Chained, Known, Passed, Firm, AnswersWhole, FirstWhole, PollWhole, OlderWhole, LoadsJoin

\* The server reads an answer.
LEMMA ServedKeeps ==
    ASSUME ThreadInv, NEW l \in Thread!Load, NEW a \in Thread!Answer, a.page \subseteq Thread!Visible,
           Thread!OnPage(Thread!WithAnswer(chat, l, a)),
           l = "first" => FirstWhole(a),
           l = "poll" => chat.polling /\ PollWhole(a, chat.after),
           l = "older" => chat.older # 0 /\ OlderWhole(a, chat.older)
    PROVE  ThreadInv'
<1>1. /\ log' = log /\ chat' \in Thread!Chat /\ chat'.answer[l] = a
      /\ \A k \in Thread!Load : k # l => chat'.answer[k] = chat.answer[k]
      /\ ListSame(chat, chat') /\ PostSame(chat, chat') /\ LoadsSame(chat, chat')
      /\ \A k \in Thread!Load : chat.answer[k].page \subseteq Thread!Visible
  BY WithAnswerIs DEF Thread!OnPage, ThreadInv, Thread!ChatTypeOK
<1>2. "first" \in Thread!Load /\ "poll" \in Thread!Load /\ "older" \in Thread!Load
  BY DEF Thread!Load
<1>3. /\ Thread!Range(chat'.list) \union chat'.lost \subseteq Thread!Visible
      /\ Thread!ListedOnce' /\ Chained' /\ Known' = Known
  BY <1>1, ListSameInv
<1>4. FirstWhole(chat'.answer["first"]) /\ PollWhole(chat'.answer["poll"], chat'.after)
        /\ OlderWhole(chat'.answer["older"], chat'.older)
  BY <1>1, <1>2 DEF ThreadInv, AnswersWhole, LoadsSame
<1>5. LoadsJoin'
  BY <1>1, <1>2, <1>3 DEF ThreadInv, LoadsJoin, LoadsSame, ListSame
<1>6. (chat'.sending <=> chat'.post # 0) /\ chat'.post = chat.post
  BY <1>1 DEF ThreadInv, Thread!SendingHasCall, PostSame
<1> QED
  BY <1>1, <1>3, <1>4, <1>5, <1>6, PageStepInv

LEMMA FirstServedInv == ASSUME ThreadInv, Thread!FirstServed PROVE ThreadInv'
<1> DEFINE page == Thread!NewestPage(Thread!Visible)
           more == page # Thread!Visible
           a == [served |-> TRUE, page |-> page, more |-> more]
<1>1. /\ log.sent \in Nat /\ Thread!Visible \in SUBSET (1..log.sent) /\ Thread!Visible \subseteq Thread!Message
      /\ Firm \subseteq Thread!Visible /\ "first" \in Thread!Load /\ PageSize \in Nat \ {0}
  BY ThreadTypes DEF ThreadInv, Firm
<1>2. page \subseteq Thread!Visible /\ \A k \in page, j \in Thread!Visible : k < j => j \in page
  BY <1>1, PagesAre
<1>3. Thread!OnPage(Thread!WithAnswer(chat, "first", a))
  BY DEF Thread!FirstServed, Thread!Served, Thread!FirstPage
<1>4. ~more => page = Thread!Visible
  OBVIOUS
<1> HIDE DEF page, more
<1>5. a \in Thread!Answer /\ a.page = page /\ (a.more <=> more)
  <2>1. more \in BOOLEAN
    BY DEF more
  <2> QED
    BY <1>1, <1>2, <2>1 DEF Thread!Answer
<1> HIDE DEF a
<1>6. FirstWhole(a)
  <2> SUFFICES ASSUME NEW k \in page, NEW m \in Firm, m < k, m \notin page, NEW p \in page
               PROVE  more /\ m <= p
    BY <1>5 DEF FirstWhole
  <2>1. more /\ ~(p < m)
    BY <1>1, <1>2, <1>4
  <2>2. p \in Int /\ m \in Int
    BY <1>1, <1>2
  <2> QED
    BY <2>1, <2>2
<1> QED
  BY <1>1, <1>2, <1>3, <1>5, <1>6, ServedKeeps

LEMMA ServePollInv == ASSUME ThreadInv, Thread!ServePoll PROVE ThreadInv'
<1> DEFINE S == {m \in Thread!Visible : m > chat.after}
           page == Thread!OldestPage(S)
           more == page # S
           a == [served |-> TRUE, page |-> page, more |-> more]
<1>1. /\ log.sent \in Nat /\ Thread!Visible \in SUBSET (1..log.sent) /\ Thread!Visible \subseteq Thread!Message
      /\ Firm \subseteq Thread!Visible /\ "poll" \in Thread!Load /\ PageSize \in Nat \ {0}
      /\ chat.polling
  BY ThreadTypes DEF ThreadInv, Firm, Thread!ServePoll
<1>2. S \in SUBSET (1..log.sent)
  BY <1>1
<1>3. page \subseteq S /\ \A k \in page, j \in S : j < k => j \in page
  <2> HIDE DEF S
  <2> QED
    BY <1>1, <1>2, PagesAre
<1>4. Thread!OnPage(Thread!WithAnswer(chat, "poll", a))
  BY DEF Thread!ServePoll, Thread!Served, Thread!After
<1>5. page \subseteq Thread!Visible /\ \A k \in page : k > chat.after
  BY <1>3
<1>6. \A m \in Firm : chat.after < m => m \in S
  <2> SUFFICES ASSUME NEW m \in Firm, chat.after < m PROVE m > chat.after
    BY <1>1
  <2>1. m \in Int /\ chat.after \in Int
    BY <1>1 DEF ThreadInv, Thread!ChatTypeOK, Thread!Chat
  <2> QED
    BY <2>1
<1> HIDE DEF page, more, S
<1>7. a \in Thread!Answer /\ a.page = page
  <2>1. more \in BOOLEAN
    BY DEF more
  <2> QED
    BY <1>1, <1>5, <2>1 DEF Thread!Answer
<1> HIDE DEF a
<1>8. PollWhole(a, chat.after)
  BY <1>3, <1>5, <1>6, <1>7 DEF PollWhole
<1> QED
  BY <1>1, <1>4, <1>5, <1>7, <1>8, ServedKeeps

LEMMA ServeOlderInv == ASSUME ThreadInv, Thread!ServeOlder PROVE ThreadInv'
<1> DEFINE S == {m \in Thread!Visible : m < chat.older}
           page == Thread!NewestPage(S)
           more == page # S
           a == [served |-> TRUE, page |-> page, more |-> more]
<1>1. /\ log.sent \in Nat /\ Thread!Visible \in SUBSET (1..log.sent) /\ Thread!Visible \subseteq Thread!Message
      /\ Firm \subseteq Thread!Visible /\ "older" \in Thread!Load /\ PageSize \in Nat \ {0}
      /\ chat.older # 0
  BY ThreadTypes DEF ThreadInv, Firm, Thread!ServeOlder
<1>2. S \in SUBSET (1..log.sent)
  BY <1>1
<1>3. page \subseteq S /\ \A k \in page, j \in S : k < j => j \in page
  <2> HIDE DEF S
  <2> QED
    BY <1>1, <1>2, PagesAre
<1>4. Thread!OnPage(Thread!WithAnswer(chat, "older", a))
  BY DEF Thread!ServeOlder, Thread!Served, Thread!Before
<1>5. page \subseteq Thread!Visible /\ \A k \in page : k < chat.older
  BY <1>3
<1>6. \A m \in Firm : m < chat.older => m \in S
  BY <1>1
<1>7. ~more => page = S
  OBVIOUS
<1> HIDE DEF page, more, S
<1>8. a \in Thread!Answer /\ a.page = page /\ (a.more <=> more)
  <2>1. more \in BOOLEAN
    BY DEF more
  <2> QED
    BY <1>1, <1>5, <2>1 DEF Thread!Answer
<1> HIDE DEF a
<1>9. OlderWhole(a, chat.older)
  <2> SUFFICES ASSUME NEW m \in Firm, m < chat.older, m \notin page
               PROVE  more /\ \A p \in page : m <= p
    BY <1>5, <1>8 DEF OlderWhole
  <2>1. more /\ \A p \in page : ~(p < m)
    BY <1>3, <1>6, <1>7
  <2>2. m \in Int /\ \A p \in page : p \in Int
    BY <1>1, <1>5
  <2> QED
    BY <2>1, <2>2
<1> QED
  BY <1>1, <1>4, <1>5, <1>8, <1>9, ServedKeeps

\* A load that ends, or begins, without the list.
LEMMA LoadStepInv ==
    ASSUME ThreadInv, log' = log, chat' \in Thread!Chat, ListSame(chat, chat'),
           \A l \in Thread!Load : chat'.answer[l] \in {chat.answer[l], Thread!NoAnswer},
           LoadsJoin', chat'.after = chat.after \/ chat'.answer["poll"] = Thread!NoAnswer,
           chat'.older = chat.older \/ chat'.answer["older"] = Thread!NoAnswer,
           chat'.sending <=> chat'.post # 0, chat'.post \in {chat.post, 0, Thread!Asked}
    PROVE  ThreadInv'
<1>1. "first" \in Thread!Load /\ "poll" \in Thread!Load /\ "older" \in Thread!Load
  BY DEF Thread!Load
<1>2. FirstWhole(chat'.answer["first"]) /\ PollWhole(chat'.answer["poll"], chat'.after)
        /\ OlderWhole(chat'.answer["older"], chat'.older)
  BY <1>1, NothingIsWhole DEF ThreadInv, AnswersWhole
<1>3. \A l \in Thread!Load : chat'.answer[l].page \subseteq Thread!Visible
  <2>1. \A l \in Thread!Load : chat.answer[l].page \subseteq Thread!Visible
    BY DEF ThreadInv, Thread!ChatTypeOK
  <2>2. Thread!NoAnswer.page \subseteq Thread!Visible
    BY NothingIsWhole
  <2> QED
    BY <2>1, <2>2
<1> QED
  BY <1>2, <1>3, ListSameInv, PageStepInv

\* What the page is without an answer.
LEMMA WithoutAnswerIs ==
    ASSUME ThreadInv, NEW l \in Thread!Load
    PROVE  LET c == Thread!WithAnswer(chat, l, Thread!NoAnswer) IN
           /\ c \in Thread!Chat /\ c.answer[l] = Thread!NoAnswer
           /\ \A k \in Thread!Load : k # l => c.answer[k] = chat.answer[k]
           /\ ListSame(chat, c) /\ PostSame(chat, c) /\ LoadsSame(chat, c)
BY NothingIsWhole, WithAnswerIs DEF ThreadInv, Thread!ChatTypeOK

LEMMA PageFacts ==
    ASSUME ThreadInv
    PROVE  /\ "first" \in Thread!Load /\ "poll" \in Thread!Load /\ "older" \in Thread!Load
           /\ 0 \in 0..MaxMessages /\ MaxMessages \in Nat /\ (chat.sending <=> chat.post # 0)
BY ThreadAssumption DEF ThreadInv, Thread!Load, Thread!SendingHasCall

LEMMA FirstFailsInv == ASSUME ThreadInv, Thread!FirstFails PROVE ThreadInv'
<1> DEFINE c == Thread!WithAnswer(chat, "first", Thread!NoAnswer)
<1>1. chat.first = "asked" /\ chat' = [c EXCEPT !.first = "failed"] /\ log' = log
  BY DEF Thread!FirstFails, Thread!OnPage, Thread!Ended
<1>2. /\ c \in Thread!Chat /\ c.answer["first"] = Thread!NoAnswer
      /\ \A k \in Thread!Load : k # "first" => c.answer[k] = chat.answer[k]
      /\ ListSame(chat, c) /\ PostSame(chat, c) /\ LoadsSame(chat, c)
  BY PageFacts, WithoutAnswerIs
<1> HIDE DEF c
<1>3. /\ chat' \in Thread!Chat /\ chat'.answer = c.answer /\ chat'.first = "failed"
      /\ ListSame(chat, chat') /\ PostSame(chat, chat')
      /\ chat'.polling = chat.polling /\ chat'.after = chat.after /\ chat'.older = chat.older
  BY <1>1, <1>2, PageFacts DEF Thread!Chat, ListSame, PostSame, LoadsSame
<1>4. LoadsJoin'
  <2>1. Known' = Known
    BY <1>1, <1>3, ListSameInv
  <2> QED
    BY <1>1, <1>2, <1>3, <2>1, PageFacts DEF ThreadInv, LoadsJoin, ListSame
<1> QED
  BY <1>1, <1>2, <1>3, <1>4, PageFacts, LoadStepInv DEF PostSame

LEMMA PollFailsInv == ASSUME ThreadInv, Thread!PollFails PROVE ThreadInv'
<1> DEFINE c == Thread!WithAnswer(chat, "poll", Thread!NoAnswer)
<1>1. chat' = [c EXCEPT !.polling = FALSE, !.after = 0] /\ log' = log
  BY DEF Thread!PollFails, Thread!OnPage, Thread!PollEnds, Thread!Ended
<1>2. /\ c \in Thread!Chat /\ c.answer["poll"] = Thread!NoAnswer
      /\ \A k \in Thread!Load : k # "poll" => c.answer[k] = chat.answer[k]
      /\ ListSame(chat, c) /\ PostSame(chat, c) /\ LoadsSame(chat, c)
  BY PageFacts, WithoutAnswerIs
<1> HIDE DEF c
<1>3. /\ chat' \in Thread!Chat /\ chat'.answer = c.answer /\ chat'.first = chat.first
      /\ ListSame(chat, chat') /\ PostSame(chat, chat')
      /\ ~chat'.polling /\ chat'.older = chat.older
  BY <1>1, <1>2, PageFacts DEF Thread!Chat, ListSame, PostSame, LoadsSame
<1>4. LoadsJoin'
  BY <1>2, <1>3, PageFacts DEF ThreadInv, LoadsJoin, ListSame
<1> QED
  BY <1>1, <1>2, <1>3, <1>4, PageFacts, LoadStepInv DEF PostSame

LEMMA OlderFailsInv == ASSUME ThreadInv, Thread!OlderFails PROVE ThreadInv'
<1> DEFINE c == Thread!WithAnswer(chat, "older", Thread!NoAnswer)
<1>1. chat' = [c EXCEPT !.older = 0] /\ log' = log
  BY DEF Thread!OlderFails, Thread!OnPage, Thread!OlderEnds, Thread!Ended
<1>2. /\ c \in Thread!Chat /\ c.answer["older"] = Thread!NoAnswer
      /\ \A k \in Thread!Load : k # "older" => c.answer[k] = chat.answer[k]
      /\ ListSame(chat, c) /\ PostSame(chat, c) /\ LoadsSame(chat, c)
  BY PageFacts, WithoutAnswerIs
<1> HIDE DEF c
<1>3. /\ chat' \in Thread!Chat /\ chat'.answer = c.answer /\ chat'.first = chat.first
      /\ ListSame(chat, chat') /\ PostSame(chat, chat')
      /\ chat'.polling = chat.polling /\ chat'.after = chat.after /\ chat'.older = 0
  BY <1>1, <1>2, PageFacts DEF Thread!Chat, ListSame, PostSame, LoadsSame
<1>4. LoadsJoin'
  <2>1. Known' = Known
    BY <1>1, <1>3, ListSameInv
  <2> QED
    BY <1>1, <1>2, <1>3, <2>1, PageFacts DEF ThreadInv, LoadsJoin, ListSame
<1> QED
  BY <1>1, <1>2, <1>3, <1>4, PageFacts, LoadStepInv DEF PostSame

LEMMA AsksInv == ASSUME ThreadInv, Thread!StartPoll \/ Thread!LoadOlder PROVE ThreadInv'
<1>1. /\ chat \in Thread!Chat /\ MaxMessages \in Nat /\ (chat.sending <=> chat.post # 0)
      /\ Thread!Message \subseteq 0..MaxMessages
      /\ Thread!Range(chat.list) \subseteq Thread!Message /\ Thread!Range(chat.list) \subseteq Known
      /\ "first" \in Thread!Load /\ "poll" \in Thread!Load /\ "older" \in Thread!Load
  BY ThreadTypes DEF ThreadInv, Thread!ChatTypeOK, Thread!SendingHasCall, Thread!Message, Known
<1>2. chat.list # <<>> =>
        /\ chat.list[1] \in Thread!Range(chat.list) /\ Thread!Last(chat.list) \in Thread!Range(chat.list)
  BY ListIs DEF ThreadInv
<1>3. CASE Thread!StartPoll
  <2> DEFINE anchor == Thread!Last(chat.list)
  <2>1. ~chat.polling /\ chat' = [chat EXCEPT !.polling = TRUE, !.after = anchor] /\ log' = log
          /\ anchor \in 0..MaxMessages /\ anchor \in Known
    BY <1>1, <1>2, <1>3 DEF Thread!StartPoll, Thread!OnPage
  <2> HIDE DEF anchor
  <2>2. /\ chat' \in Thread!Chat /\ chat'.answer = chat.answer /\ chat'.first = chat.first
        /\ ListSame(chat, chat') /\ PostSame(chat, chat')
        /\ chat'.polling /\ chat'.after = anchor /\ chat'.older = chat.older
    BY <1>1, <2>1 DEF Thread!Chat, ListSame, PostSame
  <2>3. LoadsJoin' /\ chat'.answer["poll"] = Thread!NoAnswer
    <3>1. Known' = Known
      BY <2>1, <2>2, ListSameInv
    <3> QED
      BY <2>1, <2>2, <3>1 DEF ThreadInv, LoadsJoin, ListSame
  <2> QED
    BY <1>1, <2>1, <2>2, <2>3, LoadStepInv DEF PostSame
<1>4. CASE Thread!LoadOlder
  <2> DEFINE anchor == chat.list[1]
  <2>1. chat.older = 0 /\ chat' = [chat EXCEPT !.older = anchor] /\ log' = log
          /\ anchor \in 0..MaxMessages /\ anchor = chat.list[1] /\ chat.list # <<>> /\ chat.more
    BY <1>1, <1>2, <1>4 DEF Thread!LoadOlder, Thread!OnPage
  <2>2. anchor \in Thread!Message /\ anchor # 0
    <3>1. 0 \notin Thread!Message
      BY DEF Thread!Message
    <3> QED
      BY <1>1, <1>2, <2>1, <3>1
  <2> HIDE DEF anchor
  <2>3. /\ chat' \in Thread!Chat /\ chat'.answer = chat.answer /\ chat'.first = chat.first
        /\ ListSame(chat, chat') /\ PostSame(chat, chat')
        /\ chat'.polling = chat.polling /\ chat'.after = chat.after /\ chat'.older = anchor
    BY <1>1, <2>1 DEF Thread!Chat, ListSame, PostSame
  <2>4. LoadsJoin' /\ chat'.answer["older"] = Thread!NoAnswer
    <3>1. Known' = Known
      BY <2>1, <2>3, ListSameInv
    <3> QED
      BY <2>1, <2>2, <2>3, <3>1 DEF ThreadInv, LoadsJoin, ListSame
  <2> QED
    BY <1>1, <2>1, <2>3, <2>4, LoadStepInv DEF PostSame
<1> QED
  BY <1>3, <1>4

LEMMA SendTextInv == ASSUME ThreadInv, Thread!SendText \/ Thread!PostFails PROVE ThreadInv'
<1>1. chat \in Thread!Chat /\ Thread!Asked # 0 /\ Thread!Asked \in 0..Thread!Asked /\ 0 \in 0..Thread!Asked
  BY ThreadAssumption DEF ThreadInv, Thread!ChatTypeOK, Thread!Asked
<1>2. ASSUME chat' \in Thread!Chat, log' = log, chat'.answer = chat.answer,
             ListSame(chat, chat'), LoadsSame(chat, chat'),
             chat'.post \in {0, Thread!Asked}, chat'.sending <=> chat'.post # 0
      PROVE  ThreadInv'
  <2>1. LoadsJoin'
    <3>1. Known' = Known
      BY <1>2, ListSameInv
    <3> QED
      BY <1>2, <3>1 DEF ThreadInv, LoadsJoin, ListSame, LoadsSame
  <2> QED
    BY <1>2, <2>1, LoadStepInv DEF LoadsSame
<1>3. CASE Thread!SendText
  <2>1. chat' = [chat EXCEPT !.post = Thread!Asked, !.sending = TRUE] /\ log' = log
    BY <1>1, <1>3 DEF Thread!SendText, Thread!OnPage, Thread!Chat
  <2> QED
    BY <1>1, <1>2, <2>1 DEF Thread!Chat, ListSame, LoadsSame
<1>4. CASE Thread!PostFails
  <2>1. chat' = [chat EXCEPT !.post = 0, !.sending = FALSE] /\ log' = log
    BY <1>1, <1>4 DEF Thread!PostFails, Thread!SendFails, Thread!OnPage, Thread!Chat
  <2> QED
    BY <1>1, <1>2, <2>1 DEF Thread!Chat, ListSame, LoadsSame
<1> QED
  BY <1>3, <1>4

\* A sequence of some messages is one of more.
LEMMA SeqGrows ==
    ASSUME NEW S, NEW T, S \subseteq T, NEW s \in Seq(S)
    PROVE  s \in Seq(T)
OBVIOUS

LEMMA FirstArrivesInv == ASSUME ThreadInv, Thread!FirstArrives PROVE ThreadInv'
<1> DEFINE a == chat.answer["first"]
           page == a.page
           more == a.more
           list == Thread!Ascending(page)
           lost == Thread!Range(chat.list) \ page
           c == Thread!WithAnswer(chat, "first", Thread!NoAnswer)
<1>1. /\ chat.first = "asked" /\ log' = log
      /\ chat' = [c EXCEPT !.first = "arrived", !.list = list, !.more = more, !.lost = lost]
  BY DEF Thread!FirstArrives, Thread!OnPage, Thread!Ended
<1>2. /\ c \in Thread!Chat /\ c.answer["first"] = Thread!NoAnswer
      /\ \A k \in Thread!Load : k # "first" => c.answer[k] = chat.answer[k]
      /\ ListSame(chat, c) /\ PostSame(chat, c) /\ LoadsSame(chat, c)
  BY PageFacts, WithoutAnswerIs
<1>3. /\ log.sent \in Nat /\ Thread!Visible \in SUBSET (1..log.sent) /\ Thread!Visible \subseteq Thread!Message
      /\ a \in Thread!Answer /\ page \subseteq Thread!Visible /\ Firm \subseteq 1..log.sent
      /\ Thread!Range(chat.list) \subseteq Thread!Visible
      /\ \A l \in Thread!Load : chat.answer[l].page \subseteq Thread!Visible
  BY ThreadTypes DEF ThreadInv
<1>4. more \in BOOLEAN /\ page \in SUBSET (1..log.sent) /\ page \subseteq Thread!Message
        /\ lost \subseteq Thread!Visible /\ lost \in SUBSET Thread!Message
  BY <1>3 DEF Thread!Answer
<1>5. FirstWhole(a)
  BY DEF ThreadInv, AnswersWhole
<1>6. \A k \in page, m \in Firm : m < k => m \in page \/ (more /\ \A p \in page : m <= p)
  BY <1>5 DEF FirstWhole
<1> HIDE DEF a, page, more, list, c
<1>7. /\ list \in Seq(page) /\ Once(list) /\ Thread!Range(list) = page
      /\ page # {} => list # <<>> /\ list[1] \in page /\ \A y \in page : list[1] <= y
  BY <1>3, <1>4, AscendingIs DEF list
<1>8. list \in Seq(Thread!Message)
  BY <1>4, <1>7, SeqGrows
<1> HIDE DEF lost
<1>9. /\ chat' \in Thread!Chat /\ chat'.answer = c.answer /\ PostSame(chat, chat')
      /\ chat'.first = "arrived" /\ chat'.list = list /\ chat'.more = more /\ chat'.lost = lost
      /\ chat'.polling = chat.polling /\ chat'.after = chat.after /\ chat'.older = chat.older
  BY <1>1, <1>2, <1>4, <1>8 DEF Thread!Chat, ListSame, PostSame, LoadsSame
<1>10. chat.lost = {} /\ chat.older = 0
  BY <1>1 DEF ThreadInv, LoadsJoin
<1>11. Known' = page \union log.own \union lost /\ Passed' = log.own \union lost /\ Firm' = Firm
        /\ Known \subseteq Known'
  BY <1>1, <1>7, <1>9, <1>10 DEF Known, Passed, Firm, Thread!Visible, lost
<1>12. Chained'
  <2> SUFFICES ASSUME NEW k \in page, NEW m \in Firm, m \notin Known', m < k
               PROVE  (\E j \in Known' : m < j /\ j < k) \/ (more /\ k <= list[1])
    BY <1>7, <1>9, <1>11 DEF Chained
  <2>1. m \notin page /\ more /\ \A p \in page : m <= p
    BY <1>6, <1>11
  <2>0. m \in Int /\ \A p \in page : p \in Int
    BY <1>3, <1>4
  <2>2. list[1] \in page /\ list[1] <= k /\ list[1] \in Int /\ k \in Int
    BY <1>7, <2>0
  <2>3. m < list[1]
    <3>1. m <= list[1] /\ m # list[1]
      BY <2>1, <2>2
    <3> QED
      BY <2>0, <2>2, <3>1
  <2>4. CASE list[1] < k
    BY <1>11, <2>2, <2>3, <2>4
  <2>5. CASE ~(list[1] < k)
    BY <2>1, <2>2, <2>5
  <2> QED
    BY <2>4, <2>5
<1>13. LoadsJoin'
  BY <1>2, <1>9, <1>10, <1>11, PageFacts DEF ThreadInv, LoadsJoin
<1>14. FirstWhole(chat'.answer["first"]) /\ PollWhole(chat'.answer["poll"], chat'.after)
         /\ OlderWhole(chat'.answer["older"], chat'.older)
  BY <1>2, <1>9, NothingIsWhole, PageFacts DEF ThreadInv, AnswersWhole
<1>15. \A l \in Thread!Load : chat'.answer[l].page \subseteq Thread!Visible
  BY <1>2, <1>3, <1>9, NothingIsWhole, PageFacts
<1>16. Thread!ListedOnce'
  BY <1>7, <1>9 DEF Thread!ListedOnce, Once
<1>17. Thread!Range(chat'.list) \union chat'.lost \subseteq Thread!Visible
  BY <1>3, <1>4, <1>7, <1>9
<1>18. (chat'.sending <=> chat'.post # 0) /\ chat'.post = chat.post
  BY <1>9, PageFacts DEF PostSame
<1> QED
  BY <1>1, <1>9, <1>12, <1>13, <1>14, <1>15, <1>16, <1>17, <1>18, PageStepInv

\* New messages join the list at the end.
LEMMA JoinsAtEnd ==
    ASSUME ThreadInv, log' = log, NEW new \in Seq(Thread!Message), Once(new),
           Thread!Range(new) \subseteq Thread!Visible,
           \A k \in Thread!Range(new) \ Known, m \in Firm \ (Known \union Thread!Range(new)) :
              m < k => \E j \in Known : m < j /\ j < k,
           chat'.list = Thread!Dedupe(chat.list, new), chat'.lost = chat.lost, chat'.more = chat.more
    PROVE  /\ chat'.list \in Seq(Thread!Message)
           /\ Thread!Range(chat'.list) \union chat'.lost \subseteq Thread!Visible
           /\ Thread!ListedOnce' /\ Chained' /\ Known \subseteq Known'
           /\ chat.list # <<>> => chat'.list # <<>> /\ chat'.list[1] = chat.list[1]
<1>1. Once(chat.list) /\ Thread!ChatTypeOK
  BY DEF ThreadInv, Thread!ListedOnce, Once
<1>2. chat.list \in Seq(Thread!Message) /\ (chat.list = <<>> => Thread!Range(chat.list) = {})
  BY <1>1, ListIs
<1>3. /\ chat'.list \in Seq(Thread!Message) /\ Once(chat'.list)
      /\ Thread!Range(chat'.list) = Thread!Range(chat.list) \union Thread!Range(new)
      /\ chat.list # <<>> => chat'.list # <<>> /\ chat'.list[1] = chat.list[1]
  BY <1>1, <1>2, DedupeIs
<1>4. Known' = Known \union Thread!Range(new) /\ Passed' = Passed /\ Firm' = Firm
        /\ Known = Thread!Range(chat.list) \union Passed
  BY <1>3 DEF Known, Passed, Firm, Thread!Visible
<1>5. Chained'
  <2> SUFFICES ASSUME NEW k \in Thread!Range(chat'.list), k \notin Passed,
                      NEW m \in Firm, m \notin Known', m < k
               PROVE  (\E j \in Known' : m < j /\ j < k) \/ (chat'.more /\ k <= chat'.list[1])
    BY <1>4 DEF Chained
  <2>1. CASE k \in Thread!Range(chat.list)
    <3>1. (\E j \in Known : m < j /\ j < k) \/ (chat.more /\ k <= chat.list[1])
      BY <1>4, <2>1 DEF ThreadInv, Chained
    <3> QED
      BY <1>2, <1>3, <1>4, <2>1, <3>1
  <2>2. CASE k \notin Thread!Range(chat.list)
    <3>1. k \in Thread!Range(new) \ Known /\ m \in Firm \ (Known \union Thread!Range(new))
      BY <1>3, <1>4, <2>2
    <3>2. \E j \in Known : m < j /\ j < k
      BY <3>1
    <3> QED
      BY <1>4, <3>2
  <2> QED
    BY <2>1, <2>2
<1>6. Thread!ListedOnce'
  BY <1>3 DEF Thread!ListedOnce, Once
<1>7. Thread!Range(chat'.list) \union chat'.lost \subseteq Thread!Visible
  BY <1>1, <1>3 DEF Thread!ChatTypeOK
<1> QED
  BY <1>3, <1>4, <1>5, <1>6, <1>7

LEMMA PollArrivesInv == ASSUME ThreadInv, Thread!PollArrives PROVE ThreadInv'
<1> DEFINE a == chat.answer["poll"]
           page == a.page
           new == Thread!Ascending(page)
           list == Thread!Dedupe(chat.list, new)
           c == Thread!WithAnswer(chat, "poll", Thread!NoAnswer)
<1>1. /\ chat.polling /\ log' = log
      /\ chat' = [[c EXCEPT !.polling = FALSE, !.after = 0] EXCEPT !.list = Thread!Dedupe(@, new)]
  BY Zenon DEF Thread!PollArrives, Thread!OnPage, Thread!PollEnds, Thread!Ended
<1>2. /\ c \in Thread!Chat /\ c.answer["poll"] = Thread!NoAnswer
      /\ \A k \in Thread!Load : k # "poll" => c.answer[k] = chat.answer[k]
      /\ ListSame(chat, c) /\ PostSame(chat, c) /\ LoadsSame(chat, c)
  BY PageFacts, WithoutAnswerIs
<1>3. /\ log.sent \in Nat /\ Thread!Visible \in SUBSET (1..log.sent) /\ Thread!Visible \subseteq Thread!Message
      /\ page \subseteq Thread!Visible /\ Firm \subseteq 1..log.sent
      /\ \A l \in Thread!Load : chat.answer[l].page \subseteq Thread!Visible
      /\ Known \subseteq 1..log.sent
  BY ThreadTypes DEF ThreadInv
<1>4. page \in SUBSET (1..log.sent) /\ page \subseteq Thread!Message
  BY <1>3
<1>5. PollWhole(a, chat.after) /\ chat.after \in Known
  BY <1>1 DEF ThreadInv, AnswersWhole, LoadsJoin
<1>6. \A k \in page : k > chat.after /\ \A m \in Firm : chat.after < m /\ m < k => m \in page
  BY <1>5 DEF PollWhole
<1> HIDE DEF a, page, c, new, list
<1>7. new \in Seq(page) /\ Once(new) /\ Thread!Range(new) = page
  BY <1>3, <1>4, AscendingIs DEF new
<1>8. new \in Seq(Thread!Message)
  BY <1>4, <1>7, SeqGrows
<1>9. chat' = [c EXCEPT !.polling = FALSE, !.after = 0, !.list = list]
  BY <1>1, <1>2 DEF list, ListSame, Thread!Chat
<1>10. list \in Seq(Thread!Message)
  <2>1. Once(chat.list) /\ chat.list \in Seq(Thread!Message)
    BY ListIs DEF ThreadInv, Thread!ListedOnce, Once
  <2> QED
    BY <1>7, <1>8, <2>1, DedupeIs DEF list
<1>11. /\ chat' \in Thread!Chat /\ chat'.answer = c.answer /\ PostSame(chat, chat')
       /\ chat'.first = chat.first /\ chat'.list = list /\ chat'.more = chat.more /\ chat'.lost = chat.lost
       /\ ~chat'.polling /\ chat'.older = chat.older
  BY <1>2, <1>9, <1>10, PageFacts DEF Thread!Chat, ListSame, PostSame, LoadsSame
<1>12. ASSUME NEW k \in page \ Known, NEW m \in Firm \ (Known \union page), m < k
       PROVE  \E j \in Known : m < j /\ j < k
  <2>1. chat.after < k /\ ~(chat.after < m)
    BY <1>3, <1>4, <1>5, <1>6, <1>12
  <2>2. m < chat.after
    <3>0. m \in Firm /\ m \notin Known /\ \A i \in Firm \union Known : i \in Int
      BY <1>3, <1>12
    <3>1. m \in Int /\ chat.after \in Int /\ m # chat.after
      BY <1>5, <3>0
    <3> QED
      BY <2>1, <3>1
  <2> QED
    BY <1>5, <2>1, <2>2
<1>13. /\ Thread!Range(chat'.list) \union chat'.lost \subseteq Thread!Visible
       /\ Thread!ListedOnce' /\ Chained' /\ Known \subseteq Known'
       /\ chat.list # <<>> => chat'.list # <<>> /\ chat'.list[1] = chat.list[1]
  BY <1>1, <1>3, <1>7, <1>8, <1>11, <1>12, JoinsAtEnd DEF list
<1>14. LoadsJoin'
  BY <1>2, <1>11, <1>13, PageFacts DEF ThreadInv, LoadsJoin
<1>15. FirstWhole(chat'.answer["first"]) /\ PollWhole(chat'.answer["poll"], chat'.after)
         /\ OlderWhole(chat'.answer["older"], chat'.older)
  BY <1>2, <1>11, NothingIsWhole, PageFacts DEF ThreadInv, AnswersWhole
<1>16. \A l \in Thread!Load : chat'.answer[l].page \subseteq Thread!Visible
  BY <1>2, <1>3, <1>11, NothingIsWhole, PageFacts
<1>17. (chat'.sending <=> chat'.post # 0) /\ chat'.post = chat.post
  BY <1>11, PageFacts DEF PostSame
<1> QED
  BY <1>1, <1>11, <1>13, <1>14, <1>15, <1>16, <1>17, PageStepInv

LEMMA PostArrivesInv == ASSUME ThreadInv, Thread!PostArrives PROVE ThreadInv'
<1> DEFINE new == <<chat.post>>
           list == Thread!Dedupe(chat.list, new)
<1>1. /\ chat.post \in Thread!Visible /\ log' = log
      /\ chat' = [chat EXCEPT !.list = list, !.post = 0, !.sending = FALSE]
  BY DEF Thread!PostArrives, Thread!OnPage
<1>2. chat \in Thread!Chat /\ chat.post \in Thread!Message /\ chat.post \in log.own
  BY <1>1, ThreadTypes DEF ThreadInv
<1>3. /\ new \in Seq(Thread!Message) /\ Thread!Range(new) = {chat.post} /\ Once(new)
  BY <1>2 DEF Thread!Range, Once
<1> HIDE DEF new, list
<1>4. list \in Seq(Thread!Message)
  <2>1. Once(chat.list) /\ chat.list \in Seq(Thread!Message)
    BY ListIs DEF ThreadInv, Thread!ListedOnce, Once
  <2> QED
    BY <1>3, <2>1, DedupeIs DEF list
<1>5. /\ chat' \in Thread!Chat /\ chat'.answer = chat.answer /\ LoadsSame(chat, chat')
      /\ chat'.list = list /\ chat'.lost = chat.lost /\ chat'.more = chat.more
      /\ chat'.post = 0 /\ chat'.sending = FALSE
  <2>1. 0 \in 0..Thread!Asked
    BY ThreadAssumption DEF Thread!Asked
  <2> QED
    BY <1>1, <1>2, <1>4, <2>1 DEF Thread!Chat, LoadsSame
<1>6. Thread!Range(new) \ Known = {} /\ Thread!Range(new) \subseteq Thread!Visible
  BY <1>1, <1>2, <1>3 DEF Known, Passed
<1>7. /\ Thread!Range(chat'.list) \union chat'.lost \subseteq Thread!Visible
      /\ Thread!ListedOnce' /\ Chained' /\ Known \subseteq Known'
      /\ chat.list # <<>> => chat'.list # <<>> /\ chat'.list[1] = chat.list[1]
  BY <1>1, <1>3, <1>5, <1>6, JoinsAtEnd DEF list
<1>8. LoadsJoin'
  BY <1>5, <1>7 DEF ThreadInv, LoadsJoin, LoadsSame
<1>9. FirstWhole(chat'.answer["first"]) /\ PollWhole(chat'.answer["poll"], chat'.after)
        /\ OlderWhole(chat'.answer["older"], chat'.older)
      /\ \A l \in Thread!Load : chat'.answer[l].page \subseteq Thread!Visible
  BY <1>5 DEF ThreadInv, AnswersWhole, LoadsSame, Thread!ChatTypeOK
<1> QED
  BY <1>1, <1>5, <1>7, <1>8, <1>9, PageStepInv

\* An empty page of older messages leaves the first of the list the first.
LEMMA EmptyFrontIs ==
    ASSUME NEW T, NEW front \in Seq({}), NEW back \in Seq(T), back # <<>>
    PROVE  Thread!Dedupe(front, back)[1] = back[1]
<1> DEFINE kept == {i \in 1..Len(back) : back[i] \notin Thread!Range(front)}
           size == Cardinality(kept)
           rest == [n \in 1..size |-> back[Thread!Nth(kept, n)]]
<1>1. front = <<>> /\ Len(back) \in Nat /\ Len(back) >= 1
  OBVIOUS
<1>2. Thread!Range(front) = {}
  BY <1>1 DEF Thread!Range
<1>3. kept = 1..Len(back)
  BY <1>2
<1>4. Thread!Dedupe(front, back) = front \o rest
  BY ThreadCardinality DEF Thread!Dedupe
<1> HIDE DEF kept
<1>5. kept \in SUBSET (1..Len(back)) /\ 1 \in kept
  BY <1>1, <1>3
<1>6. 1 \in 1..size /\ Thread!Nth(kept, 1) \in kept /\ Thread!Nth(kept, 1) <= 1
  <2>1. kept # {}
    BY <1>5
  <2>2. 1 \in 1..size /\ Thread!Nth(kept, 1) \in kept /\ \A y \in kept : Thread!Nth(kept, 1) <= y
    BY <1>1, <1>5, <2>1, FirstIsLeast
  <2> QED
    BY <1>5, <2>2
<1>7. Thread!Nth(kept, 1) = 1 /\ size \in Nat
        /\ \A n \in 1..size : Thread!Nth(kept, n) \in 1..Len(back)
  <2>1. size \in Nat /\ \A n \in 1..size : Thread!Nth(kept, n) \in kept
    BY <1>1, <1>5, NthIs
  <2> QED
    BY <1>1, <1>3, <1>6, <2>1
<1> HIDE DEF size
<1>8. rest \in [1..size -> T] /\ rest[1] = back[1]
  BY <1>6, <1>7
<1> HIDE DEF rest
<1>9. (<<>> \o rest)[1] = rest[1]
  <2>1. rest \in Seq(T)
    BY <1>7, <1>8
  <2> QED
    BY <2>1
<1> QED
  BY <1>1, <1>4, <1>8, <1>9

LEMMA OlderArrivesInv == ASSUME ThreadInv, Thread!OlderArrives PROVE ThreadInv'
<1> DEFINE a == chat.answer["older"]
           page == a.page
           more == a.more
           front == Thread!Ascending(page)
           list == Thread!Dedupe(front, chat.list)
           c == Thread!WithAnswer(chat, "older", Thread!NoAnswer)
<1>1. /\ chat.older # 0 /\ a.served /\ log' = log
      /\ chat' = [[c EXCEPT !.older = 0] EXCEPT !.list = Thread!Dedupe(front, @), !.more = more]
  BY Zenon DEF Thread!OlderArrives, Thread!OnPage, Thread!OlderEnds, Thread!Ended
<1>2. /\ c \in Thread!Chat /\ c.answer["older"] = Thread!NoAnswer
      /\ \A k \in Thread!Load : k # "older" => c.answer[k] = chat.answer[k]
      /\ ListSame(chat, c) /\ PostSame(chat, c) /\ LoadsSame(chat, c)
  BY PageFacts, WithoutAnswerIs
<1>3. /\ log.sent \in Nat /\ Thread!Visible \in SUBSET (1..log.sent) /\ Thread!Visible \subseteq Thread!Message
      /\ a \in Thread!Answer /\ page \subseteq Thread!Visible /\ Firm \subseteq 1..log.sent
      /\ Thread!Range(chat.list) \subseteq Thread!Visible /\ chat.lost \subseteq Thread!Visible
      /\ \A l \in Thread!Load : chat.answer[l].page \subseteq Thread!Visible
  BY ThreadTypes DEF ThreadInv
<1>4. page \in SUBSET (1..log.sent) /\ page \subseteq Thread!Message /\ more \in BOOLEAN
  BY <1>3 DEF Thread!Answer
<1>5. OlderWhole(a, chat.older)
  BY DEF ThreadInv, AnswersWhole
<1>6. /\ \A k \in page : k < chat.older
      /\ \A m \in Firm : m < chat.older => m \in page \/ (more /\ \A p \in page : m <= p)
  BY <1>1, <1>5 DEF OlderWhole
<1>7. chat.first = "arrived" /\ chat.list # <<>> /\ chat.older = chat.list[1]
  BY <1>1 DEF ThreadInv, LoadsJoin
<1> HIDE DEF a, page, more, front, list, c
<1>8. /\ front \in Seq(page) /\ Once(front) /\ Thread!Range(front) = page
      /\ page # {} => front # <<>> /\ front[1] \in page /\ \A y \in page : front[1] <= y
  BY <1>3, <1>4, AscendingIs DEF front
<1>9. front \in Seq(Thread!Message)
  BY <1>4, <1>8, SeqGrows
<1>10. Once(chat.list) /\ chat.list \in Seq(Thread!Message) /\ chat.older \in Thread!Range(chat.list)
  BY <1>7, ListIs DEF ThreadInv, Thread!ListedOnce, Once
<1>11. /\ list \in Seq(Thread!Message) /\ Once(list)
       /\ Thread!Range(list) = page \union Thread!Range(chat.list)
       /\ front # <<>> => list[1] = front[1]
  BY <1>8, <1>9, <1>10, DedupeIs DEF list
<1>12. chat' = [c EXCEPT !.older = 0, !.list = list, !.more = more]
  BY <1>1, <1>2 DEF list, ListSame, Thread!Chat
<1>13. /\ chat' \in Thread!Chat /\ chat'.answer = c.answer /\ PostSame(chat, chat')
       /\ chat'.first = chat.first /\ chat'.list = list /\ chat'.more = more /\ chat'.lost = chat.lost
       /\ chat'.polling = chat.polling /\ chat'.after = chat.after /\ chat'.older = 0
  BY <1>2, <1>4, <1>11, <1>12, PageFacts DEF Thread!Chat, ListSame, PostSame, LoadsSame
<1>14. Known' = Known \union page /\ Passed' = Passed /\ Firm' = Firm
         /\ Known = Thread!Range(chat.list) \union Passed
  BY <1>1, <1>11, <1>13 DEF Known, Passed, Firm, Thread!Visible
<1>15. chat.older \in Int /\ \A i \in Thread!Visible \union Firm : i \in Int
  <2>1. Thread!Visible \union Firm \subseteq 1..log.sent /\ chat.older \in Thread!Visible
    BY <1>3, <1>10
  <2> QED
    BY <2>1
<1>16. Chained'
  <2> SUFFICES ASSUME NEW k \in Thread!Range(list), k \notin Passed,
                      NEW m \in Firm, m \notin Known', m < k,
                      ~\E j \in Known' : m < j /\ j < k
               PROVE  more /\ k <= list[1]
    BY <1>13, <1>14 DEF Chained
  <2>1. k \in Int /\ m \in Int
    BY <1>3, <1>11, <1>15
  <2>2. k <= chat.older
    <3>1. CASE k \in Thread!Range(chat.list)
      <4>1. chat.more /\ k <= chat.list[1]
        BY <1>14, <3>1 DEF ThreadInv, Chained
      <4> QED
        BY <1>7, <4>1
    <3>2. CASE k \notin Thread!Range(chat.list)
      BY <1>6, <1>11, <1>15, <2>1, <3>2
    <3> QED
      BY <3>1, <3>2
  <2>3. m < chat.older /\ m \notin page
    BY <1>14, <1>15, <2>1, <2>2
  <2>4. more /\ \A p \in page : m <= p
    BY <1>6, <2>3
  <2>5. CASE page = {}
    <3>1. list[1] = chat.list[1]
      BY <1>7, <1>8, <1>10, <2>5, EmptyFrontIs DEF list
    <3> QED
      BY <1>7, <2>2, <2>4, <3>1
  <2>6. CASE page # {}
    <3>1. list[1] = front[1] /\ front[1] \in page /\ front[1] \in Int
      BY <1>3, <1>8, <1>11, <1>15, <2>6
    <3>2. m < front[1]
      BY <2>1, <2>3, <2>4, <3>1
    <3>3. ~(front[1] < k)
      BY <1>14, <3>1, <3>2
    <3> QED
      BY <2>1, <2>4, <3>1, <3>3
  <2> QED
    BY <2>5, <2>6
<1>17. LoadsJoin'
  BY <1>2, <1>7, <1>13, <1>14, PageFacts DEF ThreadInv, LoadsJoin
<1>18. FirstWhole(chat'.answer["first"]) /\ PollWhole(chat'.answer["poll"], chat'.after)
         /\ OlderWhole(chat'.answer["older"], chat'.older)
  BY <1>2, <1>13, NothingIsWhole, PageFacts DEF ThreadInv, AnswersWhole
<1>19. \A l \in Thread!Load : chat'.answer[l].page \subseteq Thread!Visible
  BY <1>2, <1>3, <1>13, NothingIsWhole, PageFacts
<1>20. Thread!ListedOnce' /\ Thread!Range(chat'.list) \union chat'.lost \subseteq Thread!Visible
  BY <1>3, <1>11, <1>13 DEF Thread!ListedOnce, Once
<1>21. (chat'.sending <=> chat'.post # 0) /\ chat'.post = chat.post
  BY <1>13, PageFacts DEF PostSame
<1> QED
  BY <1>1, <1>13, <1>16, <1>17, <1>18, <1>19, <1>20, <1>21, PageStepInv

\* A message is created or committed: what the page should not miss grows by
\* one at most, that comes after all the page has read.
LEMMA LogStepInv ==
    ASSUME ThreadInv, log' \in Thread!Log,
           log'.hidden \union log'.own \union log'.late \subseteq 1..log'.sent,
           Thread!Visible \subseteq Thread!Visible', log.own \subseteq log'.own,
           \A m \in Firm' \ Firm : \A k \in Thread!Read : ~(k > m),
           chat' \in Thread!Chat, ListSame(chat, chat'), LoadsSame(chat, chat'),
           chat'.answer = chat.answer, chat'.sending = chat.sending,
           chat'.post = chat.post \/ (chat'.post \in log'.own /\ chat.post # 0 /\ chat'.post # 0)
    PROVE  ThreadInv'
<1>1. /\ Known \subseteq Known' /\ Passed \subseteq Passed' /\ Thread!Range(chat'.list) = Thread!Range(chat.list)
      /\ Known' = Thread!Range(chat.list) \union Passed'
  BY DEF Known, Passed, ListSame
<1>2. /\ Known \subseteq 1..log.sent /\ Firm' \subseteq 1..log'.sent /\ log'.sent \in Nat /\ log.sent \in Nat
      /\ "first" \in Thread!Load /\ "poll" \in Thread!Load /\ "older" \in Thread!Load
  BY ThreadTypes, ThreadAssumption DEF ThreadInv, Thread!Log, Firm, Thread!Visible
<1>3. /\ Thread!Range(chat.list) \subseteq Thread!Read
      /\ \A l \in Thread!Load : chat.answer[l].page \subseteq Thread!Read
      /\ \A l \in Thread!Load : chat.answer[l].page \subseteq Thread!Visible
  BY DEF Thread!Read, ThreadInv, Thread!ChatTypeOK
<1>4. \A m \in Firm' \ Firm, k \in Thread!Read : ~(m < k)
  <2> SUFFICES ASSUME NEW m \in Firm' \ Firm, NEW k \in Thread!Read PROVE ~(m < k)
    OBVIOUS
  <2>1. ~(k > m)
    OBVIOUS
  <2> QED
    BY <2>1
<1>5. Thread!ChatTypeOK'
  BY DEF ThreadInv, Thread!ChatTypeOK, ListSame
<1>6. Chained'
  <2> SUFFICES ASSUME NEW k \in Thread!Range(chat.list), k \notin Passed',
                      NEW m \in Firm', m \notin Known', m < k
               PROVE  (\E j \in Known' : m < j /\ j < k) \/ (chat.more /\ k <= chat.list[1])
    BY <1>1 DEF Chained, ListSame
  <2>1. m \in Firm /\ m \notin Known /\ k \notin Passed
    BY <1>1, <1>3, <1>4
  <2>2. (\E j \in Known : m < j /\ j < k) \/ (chat.more /\ k <= chat.list[1])
    BY <2>1 DEF ThreadInv, Chained
  <2> QED
    BY <1>1, <2>2
<1>7. FirstWhole(chat.answer["first"])'
  <2> DEFINE a == chat.answer["first"]
  <2>1. a' = a /\ FirstWhole(a) /\ a.page \subseteq Thread!Read
    BY <1>2, <1>3 DEF ThreadInv, AnswersWhole
  <2> HIDE DEF a
  <2>2. FirstWhole(a)'
    BY <1>4, <2>1 DEF FirstWhole
  <2> QED
    BY <2>2 DEF a
<1>8. PollWhole(chat.answer["poll"], chat.after)'
  <2> DEFINE a == chat.answer["poll"]
             after == chat.after
  <2>1. a' = a /\ after' = after /\ PollWhole(a, after) /\ a.page \subseteq Thread!Read
    BY <1>2, <1>3 DEF ThreadInv, AnswersWhole, LoadsSame
  <2> HIDE DEF a, after
  <2>2. PollWhole(a, after)'
    BY <1>4, <2>1 DEF PollWhole
  <2> QED
    BY <2>2 DEF a, after
<1>9. OlderWhole(chat.answer["older"], chat.older)'
  <2> DEFINE a == chat.answer["older"]
             older == chat.older
  <2>1. a' = a /\ older' = older /\ OlderWhole(a, older)
    BY <1>2 DEF ThreadInv, AnswersWhole, LoadsSame
  <2>2. a.served => older \in Thread!Read
    <3>1. chat.older = 0 => ~a.served
      BY NothingIsWhole DEF ThreadInv, LoadsJoin
    <3>2. chat.older # 0 => chat.older \in Thread!Range(chat.list)
      BY ListIs DEF ThreadInv, LoadsJoin
    <3> QED
      BY <1>3, <3>1, <3>2
  <2> HIDE DEF a, older
  <2>3. OlderWhole(a, older)'
    BY <1>4, <2>1, <2>2 DEF OlderWhole
  <2> QED
    BY <2>3 DEF a, older
<1>10. AnswersWhole'
  BY <1>7, <1>8, <1>9 DEF AnswersWhole
<1>11. LoadsJoin'
  BY <1>1 DEF ThreadInv, LoadsJoin, ListSame, LoadsSame
<1>12. Thread!ListedOnce' /\ Thread!SendingHasCall'
  BY DEF ThreadInv, Thread!ListedOnce, Thread!SendingHasCall, ListSame
<1>13. chat'.post \in Thread!Message => chat'.post \in log'.own
  BY DEF ThreadInv
<1> QED
  BY <1>5, <1>6, <1>10, <1>11, <1>12, <1>13 DEF ThreadInv

\* A message that is created is hidden.
LEMMA CreatedIs ==
    ASSUME ThreadInv, NEW own \in BOOLEAN, Thread!Created(own)
    PROVE  /\ log' \in Thread!Log /\ log'.hidden \union log'.own \union log'.late \subseteq 1..log'.sent
           /\ Thread!Visible' = Thread!Visible /\ Firm' = Firm /\ log.own \subseteq log'.own
           /\ own => log.sent + 1 \in log'.own
           /\ log.sent + 1 \in Thread!Message
<1> DEFINE sent == log.sent + 1
           hidden == log.hidden \union {sent}
           owns == IF own THEN log.own \union {sent} ELSE log.own
<1>1. log.sent < MaxMessages
        /\ log' = [log EXCEPT !.sent = sent, !.hidden = hidden, !.own = owns]
  BY Zenon DEF Thread!Created
<1>2. /\ log \in Thread!Log /\ log.sent \in Nat /\ MaxMessages \in Nat
      /\ log.own \subseteq 1..log.sent /\ log.hidden \subseteq 1..log.sent /\ log.late \subseteq 1..log.sent
      /\ 1..log.sent \subseteq Thread!Message
  BY ThreadTypes DEF ThreadInv, Thread!Message
<1>3. sent \in 0..MaxMessages /\ sent \in Thread!Message
  BY <1>1, <1>2 DEF Thread!Message
<1>4. 1..sent = (1..log.sent) \union {sent} /\ sent \notin 1..log.sent
  BY <1>2
<1>5. (own => sent \in owns) /\ log.own \subseteq owns /\ owns \subseteq 1..sent /\ hidden \subseteq 1..sent
        /\ owns \subseteq Thread!Message /\ hidden \subseteq Thread!Message
  BY <1>2, <1>3, <1>4
<1>6. (1..sent) \ hidden = (1..log.sent) \ log.hidden
  BY <1>4
<1> HIDE DEF sent, hidden, owns
<1>7. log' \in Thread!Log /\ log'.sent = sent /\ log'.hidden = hidden /\ log'.own = owns /\ log'.late = log.late
  BY <1>1, <1>2, <1>3, <1>5 DEF Thread!Log
<1>8. Thread!Visible' = Thread!Visible /\ Firm' = Firm
  BY <1>6, <1>7 DEF Thread!Visible, Firm
<1> QED
  BY <1>2, <1>3, <1>4, <1>5, <1>7, <1>8 DEF sent

LEMMA OthersPostInv == ASSUME ThreadInv, Thread!OthersPost PROVE ThreadInv'
<1>1. Thread!Created(FALSE) /\ chat' = chat /\ chat \in Thread!Chat
  BY ThreadTypes DEF Thread!OthersPost, ThreadInv
<1> QED
  BY <1>1, CreatedIs, LogStepInv DEF ListSame, LoadsSame

LEMMA ServePostInv == ASSUME ThreadInv, Thread!ServePost PROVE ThreadInv'
<1> DEFINE post == log.sent + 1
<1>1. /\ Thread!Created(TRUE) /\ chat' = [chat EXCEPT !.post = post] /\ chat \in Thread!Chat
      /\ chat.post = Thread!Asked
  BY ThreadTypes DEF Thread!ServePost, ThreadInv
<1>2. post \in Thread!Message /\ post \in 0..Thread!Asked /\ post # 0 /\ chat.post # 0
  <2>1. post \in Thread!Message
    BY <1>1, CreatedIs
  <2>2. \A i \in Thread!Message : i \in 0..Thread!Asked /\ i # 0
    BY ThreadAssumption DEF Thread!Message, Thread!Asked
  <2>3. Thread!Asked # 0
    BY ThreadAssumption DEF Thread!Asked
  <2> QED
    BY <1>1, <2>1, <2>2, <2>3
<1>3. post \in log'.own
  BY <1>1, CreatedIs
<1> HIDE DEF post
<1>4. /\ chat' \in Thread!Chat /\ ListSame(chat, chat') /\ LoadsSame(chat, chat')
      /\ chat'.answer = chat.answer /\ chat'.sending = chat.sending /\ chat'.post = post
  BY <1>1, <1>2 DEF Thread!Chat, ListSame, LoadsSame
<1> QED
  BY <1>1, <1>2, <1>3, <1>4, CreatedIs, LogStepInv

LEMMA CommitInv == ASSUME ThreadInv, NEW m \in Thread!Message, Thread!Commit(m) PROVE ThreadInv'
<1> DEFINE hidden == log.hidden \ {m}
           late == IF \E k \in Thread!Read : k > m THEN log.late \union {m} ELSE log.late
<1>1. /\ m \in log.hidden /\ chat' = chat
      /\ log' = [log EXCEPT !.hidden = hidden, !.late = late]
  BY Zenon DEF Thread!Commit
<1>2. /\ log \in Thread!Log /\ chat \in Thread!Chat
      /\ log.own \subseteq 1..log.sent /\ log.hidden \subseteq 1..log.sent /\ log.late \subseteq 1..log.sent
  BY ThreadTypes DEF ThreadInv
<1>3. /\ late \subseteq 1..log.sent /\ hidden \subseteq 1..log.sent /\ log.late \subseteq late
      /\ late \in SUBSET Thread!Message /\ hidden \in SUBSET Thread!Message
      /\ m \in late \/ \A k \in Thread!Read : ~(k > m)
  BY <1>1, <1>2 DEF Thread!Log
<1> HIDE DEF late
<1>4. log' \in Thread!Log /\ log'.sent = log.sent /\ log'.hidden = hidden /\ log'.own = log.own /\ log'.late = late
  BY <1>1, <1>2, <1>3 DEF Thread!Log
<1>5. Thread!Visible \subseteq Thread!Visible' /\ \A i \in Firm' \ Firm : i = m /\ i \notin late
  BY <1>3, <1>4 DEF Thread!Visible, Firm
<1>6. \A i \in Firm' \ Firm : \A k \in Thread!Read : ~(k > i)
  BY <1>3, <1>5
<1> QED
  BY <1>1, <1>2, <1>3, <1>4, <1>5, <1>6, LogStepInv DEF ListSame, LoadsSame

LEMMA ThreadStep == ASSUME ThreadInv, [Thread!ChatNext]_Thread!chatVars PROVE ThreadInv'
BY ChatUnchanged, OthersPostInv, CommitInv, FirstServedInv, FirstArrivesInv, FirstFailsInv, AsksInv,
   ServePollInv, PollArrivesInv, PollFailsInv, ServeOlderInv, OlderArrivesInv, OlderFailsInv,
   SendTextInv, ServePostInv, PostArrivesInv DEF Thread!ChatNext

(***************************************************************************)
(* The composer and the recorder (ChatComposer).                           *)
(***************************************************************************)

\* Until the chat was left while asking, a recording was thrown away while it
\* stopped, or no recorder started: one stream at most, the one that is held, and the recorder asks for
\* nothing while it records.
VoiceSound(v) ==
    /\ v.streams > 0 => v.held /\ v.streams = 1 /\ v.state \in {"recording", "paused"}
    /\ v.asking > 0 => v.asking = 1 /\ v.state = "requesting"
    /\ v.stopping => v.left \/ v.state \in {"recording", "paused"}
    /\ v.left => v.asking = 0

VoiceOK(v) ==
    /\ v \in Write!Voice
    /\ v.held => v.streams > 0
    /\ v.leftAsking => v.left
    /\ VoiceSound(v) \/ v.leftAsking \/ v.crossed \/ v.failed

ComposerInv == Write!ComposerTypeOK /\ Write!SendingHasCall /\ VoiceOK(voice)

LEMMA ComposerInvImplies == ComposerInv => Write!MicrophoneIsHeld
BY DEF ComposerInv, Write!ComposerTypeOK, VoiceOK, VoiceSound, Write!MicrophoneIsHeld, Write!Recording,
   Write!Voice

LEMMA ComposerInitInv == Write!ComposerInit => ComposerInv
<1> SUFFICES ASSUME Write!ComposerInit PROVE ComposerInv
  OBVIOUS
<1>1. voice \in Write!Voice /\ VoiceOK(voice)
  BY DEF Write!ComposerInit, Write!Voice, VoiceOK, VoiceSound
<1>2. composer \in Write!Composer /\ composer.sending = FALSE /\ composer.call = None
        /\ message \in Write!Copy
  BY DEF Write!ComposerInit, Write!Composer, Write!Copy
<1> QED
  BY <1>1, <1>2 DEF ComposerInv, Write!ComposerTypeOK, Write!SendingHasCall

LEMMA ComposerTextInv ==
    ASSUME ComposerInv, composer' \in Write!Composer, composer'.sending <=> composer'.call # None,
           message' \in Write!Copy, voice' = voice
    PROVE  ComposerInv'
BY DEF ComposerInv, Write!ComposerTypeOK, Write!SendingHasCall, VoiceOK, VoiceSound

LEMMA UneditedIs ==
    ASSUME NEW c \in Write!Composer
    PROVE  Write!Unedited(c) \in Write!Composer /\ Write!Unedited(c).sending = c.sending
             /\ Write!Unedited(c).call = c.call
BY DEF Write!Unedited, Write!Composer

LEMMA SentIs ==
    ASSUME NEW c \in Write!Composer
    PROVE  Write!Sent(c) \in Write!Composer /\ Write!Sent(c).sending = FALSE /\ Write!Sent(c).call = None
BY DEF Write!Sent, Write!Composer

LEMMA ComposerDraftInv ==
    ASSUME ComposerInv, Write!TypeDraft \/ Write!ToggleMenu \/ Write!StartEdit \/ Write!CancelEdit \/ Write!Send
    PROVE  ComposerInv'
<1>1. composer \in Write!Composer /\ (composer.sending <=> composer.call # None) /\ message \in Write!Copy
  BY DEF ComposerInv, Write!ComposerTypeOK, Write!SendingHasCall
<1>2. CASE Write!TypeDraft
  <2>1. composer' \in Write!Composer /\ composer'.sending = composer.sending /\ composer'.call = composer.call
    BY <1>1, <1>2 DEF Write!TypeDraft, Write!OnComposer, Write!Composer
  <2> QED
    BY <1>1, <1>2, <2>1, ComposerTextInv DEF Write!TypeDraft, Write!OnComposer
<1>3. CASE Write!ToggleMenu
  <2>1. composer' \in Write!Composer /\ composer'.sending = composer.sending /\ composer'.call = composer.call
    BY <1>1, <1>3 DEF Write!ToggleMenu, Write!OnComposer, Write!Composer
  <2> QED
    BY <1>1, <1>3, <2>1, ComposerTextInv DEF Write!ToggleMenu, Write!OnComposer
<1>4. CASE Write!StartEdit
  <2>1. composer' \in Write!Composer /\ composer'.sending = composer.sending /\ composer'.call = composer.call
    BY <1>1, <1>4 DEF Write!StartEdit, Write!OnComposer, Write!Composer
  <2> QED
    BY <1>1, <1>4, <2>1, ComposerTextInv DEF Write!StartEdit, Write!OnComposer
<1>5. CASE Write!CancelEdit
  BY <1>1, <1>5, UneditedIs, ComposerTextInv DEF Write!CancelEdit, Write!OnComposer
<1>6. CASE Write!Send
  <2> DEFINE call == IF composer.editing THEN "edit" ELSE "post"
  <2>1. call \in Write!Sending /\ call # None
    BY ComposerAssumption DEF Write!Sending
  <2>2. composer' = [composer EXCEPT !.sending = TRUE, !.call = call]
    BY <1>6 DEF Write!Send, Write!OnComposer
  <2> HIDE DEF call
  <2>3. composer' \in Write!Composer /\ composer'.sending = TRUE /\ composer'.call = call
    BY <1>1, <2>1, <2>2 DEF Write!Composer
  <2> QED
    BY <1>1, <1>6, <2>1, <2>3, ComposerTextInv DEF Write!Send, Write!OnComposer
<1> QED
  BY <1>2, <1>3, <1>4, <1>5, <1>6

LEMMA ComposerAnswerInv ==
    ASSUME ComposerInv, Write!EditServed \/ Write!PostAnswered \/ Write!EditAnswered \/ Write!SendFails
    PROVE  ComposerInv'
<1>1. composer \in Write!Composer /\ (composer.sending <=> composer.call # None) /\ message \in Write!Copy
  BY DEF ComposerInv, Write!ComposerTypeOK, Write!SendingHasCall
<1>2. CASE Write!EditServed
  <2>1. composer' \in Write!Composer /\ composer'.sending = composer.sending /\ composer'.call = "edited"
    BY <1>1, <1>2 DEF Write!EditServed, Write!OnComposer, Write!Composer, Write!Sending
  <2>2. composer.call # None /\ "edited" # None
    BY <1>2, ComposerAssumption DEF Write!EditServed, Write!Sending
  <2> QED
    BY <1>1, <1>2, <2>1, <2>2, ComposerTextInv DEF Write!EditServed, Write!OnComposer
<1>3. CASE Write!PostAnswered
  <2> DEFINE c == [composer EXCEPT !.draft = FALSE]
  <2>1. c \in Write!Composer
    BY <1>1 DEF Write!Composer
  <2> HIDE DEF c
  <2>2. composer' = Write!Sent(c)
    BY <1>3 DEF Write!PostAnswered, Write!OnComposer, c
  <2> QED
    BY <1>1, <1>3, <2>1, <2>2, SentIs, ComposerTextInv DEF Write!PostAnswered, Write!OnComposer
<1>4. CASE Write!EditAnswered
  <2> DEFINE c == [composer EXCEPT !.copy = "alive"]
  <2>1. c \in Write!Composer
    BY <1>1 DEF Write!Composer, Write!Copy
  <2> HIDE DEF c
  <2>2. composer' = Write!Sent(Write!Unedited(c))
    BY <1>4 DEF Write!EditAnswered, Write!OnComposer, c
  <2>3. Write!Unedited(c) \in Write!Composer
    BY <2>1, UneditedIs
  <2> QED
    BY <1>1, <1>4, <2>2, <2>3, SentIs, ComposerTextInv DEF Write!EditAnswered, Write!OnComposer
<1>5. CASE Write!SendFails
  BY <1>1, <1>5, SentIs, ComposerTextInv DEF Write!SendFails, Write!OnComposer
<1> QED
  BY <1>2, <1>3, <1>4, <1>5

LEMMA ComposerDeleteInv ==
    ASSUME ComposerInv, Write!Delete \/ Write!DeleteServed \/ Write!DeleteAnswered \/ Write!DeleteFails
    PROVE  ComposerInv'
<1>1. composer \in Write!Composer /\ (composer.sending <=> composer.call # None) /\ message \in Write!Copy
  BY DEF ComposerInv, Write!ComposerTypeOK, Write!SendingHasCall
<1>2. CASE Write!Delete
  <2>1. composer' \in Write!Composer /\ composer'.sending = composer.sending /\ composer'.call = composer.call
    BY <1>1, <1>2 DEF Write!Delete, Write!OnComposer, Write!Composer, Write!Deletion
  <2> QED
    BY <1>1, <1>2, <2>1, ComposerTextInv DEF Write!Delete, Write!OnComposer
<1>3. CASE Write!DeleteServed
  <2>1. composer' \in Write!Composer /\ composer'.sending = composer.sending /\ composer'.call = composer.call
    BY <1>1, <1>3 DEF Write!DeleteServed, Write!Composer, Write!Deletion
  <2> QED
    BY <1>1, <1>3, <2>1, ComposerTextInv DEF Write!DeleteServed, Write!Copy
<1>4. CASE Write!DeleteAnswered
  <2> DEFINE c == [composer EXCEPT !.copy = "deleted", !.menu = FALSE, !.deletion = None, !.deleteEnds = FALSE]
  <2>1. c \in Write!Composer /\ c.sending = composer.sending /\ c.call = composer.call
    BY <1>1 DEF Write!Composer, Write!Copy
  <2> HIDE DEF c
  <2>2. composer' = Write!Unedited(c) \/ composer' = c
    BY <1>4 DEF Write!DeleteAnswered, Write!OnComposer, c
  <2>3. composer' \in Write!Composer /\ composer'.sending = composer.sending /\ composer'.call = composer.call
    BY <2>1, <2>2, UneditedIs
  <2> QED
    BY <1>1, <1>4, <2>3, ComposerTextInv DEF Write!DeleteAnswered, Write!OnComposer
<1>5. CASE Write!DeleteFails
  <2>1. composer' \in Write!Composer /\ composer'.sending = composer.sending /\ composer'.call = composer.call
    BY <1>1, <1>5 DEF Write!DeleteFails, Write!OnComposer, Write!Composer
  <2> QED
    BY <1>1, <1>5, <2>1, ComposerTextInv DEF Write!DeleteFails, Write!OnComposer
<1> QED
  BY <1>2, <1>3, <1>4, <1>5

\* What cleanup leaves: no stream of a sound recorder.
LEMMA CleanupIs ==
    ASSUME VoiceOK(voice)
    PROVE  /\ Write!Cleanup(voice) \in Write!Voice /\ ~Write!Cleanup(voice).held
                /\ Write!Cleanup(voice).state = "idle"
           /\ Write!Cleanup(voice).asking = voice.asking /\ Write!Cleanup(voice).stopping = voice.stopping
           /\ Write!Cleanup(voice).left = voice.left /\ Write!Cleanup(voice).leftAsking = voice.leftAsking
           /\ Write!Cleanup(voice).crossed = voice.crossed /\ Write!Cleanup(voice).failed = voice.failed
           /\ Write!Cleanup(voice).posting = voice.posting
           /\ VoiceSound(voice) => Write!Cleanup(voice).streams = 0
<1>1. /\ voice \in Write!Voice /\ voice.streams \in 0..2
      /\ voice.held => voice.streams > 0
      /\ VoiceSound(voice) => voice.streams = 0 \/ (voice.held /\ voice.streams = 1)
  <2>1. voice \in Write!Voice /\ (voice.held => voice.streams > 0)
    BY DEF VoiceOK
  <2>2. voice.streams \in 0..2
    BY <2>1 DEF Write!Voice
  <2>3. VoiceSound(voice) => voice.streams = 0 \/ (voice.held /\ voice.streams = 1)
    BY <2>2 DEF VoiceSound
  <2> QED
    BY <2>1, <2>2, <2>3
<1> DEFINE n == IF voice.held THEN voice.streams - 1 ELSE voice.streams
<1>2. n \in 0..2 /\ (VoiceSound(voice) => n = 0)
  BY <1>1
<1>3. Write!Cleanup(voice) = [voice EXCEPT !.streams = n, !.held = FALSE, !.seconds = FALSE, !.state = "idle"]
  BY <1>1 DEF Write!Cleanup, Write!Voice
<1> HIDE DEF n
<1> QED
  BY <1>1, <1>2, <1>3 DEF Write!Voice

LEMMA VoiceStepInv ==
    ASSUME ComposerInv, VoiceOK(voice'), UNCHANGED <<message, composer>>
    PROVE  ComposerInv'
BY DEF ComposerInv, Write!ComposerTypeOK, Write!SendingHasCall, VoiceOK

LEMMA VoiceAskInv ==
    ASSUME ComposerInv, Write!StartVoice \/ Write!Granted \/ Write!RecorderFails \/ Write!Denied
    PROVE  ComposerInv'
<1>1. /\ voice \in Write!Voice /\ VoiceOK(voice) /\ voice.asking \in 0..2 /\ voice.streams \in 0..2
      /\ voice.left \in BOOLEAN /\ voice.stopping \in BOOLEAN
  BY DEF ComposerInv, VoiceOK, Write!Voice
<1>2. CASE Write!StartVoice
  <2> DEFINE n == voice.asking + 1
  <2>1. n \in 0..2 /\ voice.state = "idle" /\ ~voice.left
    BY <1>1, <1>2 DEF Write!StartVoice, Write!InputShown, Write!Here
  <2>2. voice' = [voice EXCEPT !.state = "requesting", !.asking = n]
    BY <1>1, <1>2 DEF Write!StartVoice, Write!OnVoice, Write!Voice
  <2> HIDE DEF n
  <2>3. /\ voice' \in Write!Voice /\ voice'.state = "requesting" /\ voice'.asking = n
        /\ voice'.streams = voice.streams /\ voice'.held = voice.held /\ voice'.stopping = voice.stopping
        /\ voice'.left = voice.left /\ voice'.leftAsking = voice.leftAsking /\ voice'.crossed = voice.crossed
        /\ voice'.failed = voice.failed
    BY <1>1, <2>1, <2>2 DEF Write!Voice
  <2>4. VoiceOK(voice')
    BY <1>1, <2>1, <2>3 DEF VoiceOK, VoiceSound, n
  <2> QED
    BY <1>2, <2>4, VoiceStepInv DEF Write!StartVoice, Write!OnVoice
<1>3. CASE Write!Granted
  <2> DEFINE n == voice.asking - 1
             m == voice.streams + 1
             state == IF voice.left THEN voice.state ELSE "recording"
  <2>1. n \in 0..2 /\ m \in 0..2 /\ m > 0 /\ state \in {"idle", "requesting", "recording", "paused"}
    BY <1>1, <1>3 DEF Write!Granted, Write!Voice
  <2>2. voice' = [voice EXCEPT !.asking = n, !.streams = m, !.held = TRUE, !.seconds = FALSE, !.state = state]
    BY <1>1, <1>3 DEF Write!Granted, Write!OnVoice, Write!Voice
  <2> HIDE DEF n, m, state
  <2>3. /\ voice' \in Write!Voice /\ voice'.state = state /\ voice'.asking = n
        /\ voice'.streams = m /\ voice'.held = TRUE /\ voice'.stopping = voice.stopping
        /\ voice'.left = voice.left /\ voice'.leftAsking = voice.leftAsking /\ voice'.crossed = voice.crossed
        /\ voice'.failed = voice.failed
    BY <1>1, <2>1, <2>2 DEF Write!Voice
  <2>4. VoiceSound(voice) => VoiceSound(voice')
    BY <1>1, <1>3, <2>1, <2>3 DEF VoiceSound, n, m, state, Write!Granted
  <2> QED
    BY <1>1, <1>3, <2>1, <2>3, <2>4, VoiceStepInv DEF Write!Granted, Write!OnVoice, VoiceOK
<1>4. CASE Write!Denied
  <2> DEFINE n == voice.asking - 1
  <2>1. n \in 0..2
    BY <1>1, <1>4 DEF Write!Denied
  <2>2. voice' = [voice EXCEPT !.asking = n, !.state = "idle"]
    BY <1>1, <1>4 DEF Write!Denied, Write!OnVoice, Write!Voice
  <2> HIDE DEF n
  <2>3. /\ voice' \in Write!Voice /\ voice'.state = "idle" /\ voice'.asking = n
        /\ voice'.streams = voice.streams /\ voice'.held = voice.held /\ voice'.stopping = voice.stopping
        /\ voice'.left = voice.left /\ voice'.leftAsking = voice.leftAsking /\ voice'.crossed = voice.crossed
        /\ voice'.failed = voice.failed
    BY <1>1, <2>1, <2>2 DEF Write!Voice
  <2>4. VoiceOK(voice')
    BY <1>1, <1>4, <2>1, <2>3 DEF VoiceOK, VoiceSound, n, Write!Denied
  <2> QED
    BY <1>4, <2>4, VoiceStepInv DEF Write!Denied, Write!OnVoice
<1>5. CASE Write!RecorderFails
  <2> DEFINE n == voice.asking - 1
             m == voice.streams + 1
  <2>1. n \in 0..2 /\ m \in 0..2 /\ m > 0
    BY <1>1, <1>5 DEF Write!RecorderFails
  <2>2. voice' = [voice EXCEPT !.asking = n, !.streams = m, !.held = TRUE, !.state = "idle", !.failed = TRUE]
    BY <1>1, <1>5 DEF Write!RecorderFails, Write!OnVoice, Write!Voice
  <2> HIDE DEF n, m
  <2>3. /\ voice' \in Write!Voice /\ voice'.streams = m /\ voice'.failed = TRUE
        /\ voice'.left = voice.left /\ voice'.leftAsking = voice.leftAsking
    BY <1>1, <2>1, <2>2 DEF Write!Voice
  <2> QED
    BY <1>1, <1>5, <2>1, <2>3, VoiceStepInv DEF Write!RecorderFails, Write!OnVoice, VoiceOK
<1> QED
  BY <1>2, <1>3, <1>4, <1>5

LEMMA VoiceBarInv ==
    ASSUME ComposerInv, Write!Tick \/ Write!PauseVoice \/ Write!ResumeVoice \/ Write!SendVoice
             \/ Write!VoiceAnswered
    PROVE  ComposerInv'
<1>1. /\ voice \in Write!Voice /\ VoiceOK(voice)
  BY DEF ComposerInv, VoiceOK
<1>2. /\ voice' \in Write!Voice /\ voice'.asking = voice.asking /\ voice'.streams = voice.streams
      /\ voice'.held = voice.held /\ voice'.left = voice.left /\ voice'.leftAsking = voice.leftAsking
      /\ voice'.crossed = voice.crossed /\ voice'.failed = voice.failed
      /\ voice'.stopping => voice.stopping \/ voice'.state \in {"recording", "paused"}
      /\ voice'.state = voice.state
         \/ (voice.state \in {"recording", "paused"} /\ voice'.state \in {"recording", "paused"})
  <2>1. CASE Write!Tick
    BY <1>1, <2>1 DEF Write!Tick, Write!OnVoice, Write!Voice
  <2>2. CASE Write!PauseVoice
    BY <1>1, <2>2 DEF Write!PauseVoice, Write!OnVoice, Write!Voice
  <2>3. CASE Write!ResumeVoice
    BY <1>1, <2>3 DEF Write!ResumeVoice, Write!OnVoice, Write!Voice
  <2>4. CASE Write!SendVoice
    BY <1>1, <2>4 DEF Write!SendVoice, Write!OnVoice, Write!Voice, Write!Recording
  <2>5. CASE Write!VoiceAnswered
    <3>1. /\ voice' \in Write!Voice /\ voice'.asking = voice.asking /\ voice'.streams = voice.streams
          /\ voice'.held = voice.held /\ voice'.left = voice.left /\ voice'.leftAsking = voice.leftAsking
          /\ voice'.failed = voice.failed /\ voice'.crossed = voice.crossed /\ voice'.stopping = voice.stopping /\ voice'.state = voice.state
      BY <1>1, <2>5 DEF Write!VoiceAnswered, Write!OnVoice, Write!Voice
    <3> QED
      BY <3>1
  <2> QED
    BY <2>1, <2>2, <2>3, <2>4, <2>5
<1>3. VoiceOK(voice')
  BY <1>1, <1>2 DEF VoiceOK, VoiceSound
<1>4. UNCHANGED <<message, composer>>
  BY DEF Write!Tick, Write!PauseVoice, Write!ResumeVoice, Write!SendVoice, Write!VoiceAnswered, Write!OnVoice
<1> QED
  BY <1>3, <1>4, VoiceStepInv

LEMMA VoiceEndInv ==
    ASSUME ComposerInv, Write!DiscardVoice \/ Write!VoiceStopped \/ Write!LeaveChat
    PROVE  ComposerInv'
<1> DEFINE v == Write!Cleanup(voice)
<1>1. /\ voice \in Write!Voice /\ VoiceOK(voice) /\ voice.asking \in 0..2
      /\ voice.posting \in BOOLEAN /\ voice.final \in BOOLEAN /\ voice.crossed \in BOOLEAN
      /\ voice.stopping \in BOOLEAN /\ voice.leftAsking \in BOOLEAN
  BY DEF ComposerInv, VoiceOK, Write!Voice
<1>2. /\ v \in Write!Voice /\ ~v.held /\ v.state = "idle" /\ v.asking = voice.asking
           /\ v.stopping = voice.stopping
      /\ v.left = voice.left /\ v.leftAsking = voice.leftAsking /\ v.crossed = voice.crossed
      /\ v.failed = voice.failed
      /\ v.posting = voice.posting /\ (VoiceSound(voice) => v.streams = 0)
  BY <1>1, CleanupIs
<1>3. CASE Write!DiscardVoice
  <2> DEFINE crossed == voice.crossed \/ voice.stopping
  <2>1. voice' = [v EXCEPT !.crossed = v.crossed \/ voice.stopping] /\ Write!Recording
    BY <1>2, <1>3 DEF Write!DiscardVoice, Write!OnVoice, Write!Voice
  <2>2. voice' = [v EXCEPT !.crossed = crossed] /\ crossed \in BOOLEAN
    BY <1>1, <1>2, <2>1
  <2> HIDE DEF v, crossed
  <2>3. /\ voice' \in Write!Voice /\ voice'.state = "idle" /\ voice'.asking = voice.asking
        /\ voice'.streams = v.streams /\ voice'.held = v.held /\ voice'.stopping = voice.stopping
        /\ voice'.left = voice.left /\ voice'.leftAsking = voice.leftAsking /\ voice'.crossed = crossed
        /\ voice'.failed = voice.failed
    BY <1>2, <2>2 DEF Write!Voice
  <2>4. VoiceOK(voice')
    <3>1. voice.streams \in 0..2 /\ v.streams \in 0..2
      BY <1>1, <1>2 DEF Write!Voice
    <3>2. v.held = FALSE /\ (voice.leftAsking => voice.left)
      BY <1>1, <1>2 DEF VoiceOK
    <3>3. CASE voice.crossed \/ voice.stopping \/ voice.failed
      BY <3>1, <3>2, <3>3, <2>3 DEF VoiceOK, crossed
    <3>4. CASE ~voice.crossed /\ ~voice.stopping /\ ~voice.failed /\ voice.leftAsking
      BY <3>1, <3>2, <3>4, <2>3 DEF VoiceOK
    <3>5. CASE ~voice.crossed /\ ~voice.stopping /\ ~voice.failed /\ ~voice.leftAsking
      <4>1. VoiceSound(voice) /\ v.streams = 0 /\ voice.asking = 0
        BY <1>1, <1>2, <2>1, <3>5 DEF VoiceOK, VoiceSound, Write!Recording
      <4> QED
        BY <3>1, <3>2, <3>5, <2>3, <4>1 DEF VoiceOK, VoiceSound
    <3> QED
      BY <1>1, <3>3, <3>4, <3>5
  <2> QED
    BY <1>3, <2>4, VoiceStepInv DEF Write!DiscardVoice, Write!OnVoice
<1>4. CASE Write!VoiceStopped
  <2> DEFINE posting == voice.posting \/ voice.final
  <2>1. voice' = [v EXCEPT !.stopping = FALSE, !.final = FALSE, !.posting = v.posting \/ voice.final]
    BY <1>2, <1>4 DEF Write!VoiceStopped, Write!OnVoice, Write!Voice
  <2>2. /\ voice' = [v EXCEPT !.stopping = FALSE, !.final = FALSE, !.posting = posting]
        /\ posting \in BOOLEAN
    <3>1. posting \in BOOLEAN /\ v.posting = voice.posting
      BY <1>1, <1>2
    <3> HIDE DEF v
    <3> QED
      BY <3>1, <2>1
  <2> HIDE DEF v, posting
  <2>3. /\ voice' \in Write!Voice /\ voice'.state = "idle" /\ voice'.asking = voice.asking
        /\ voice'.streams = v.streams /\ voice'.held = v.held /\ voice'.stopping = FALSE
        /\ voice'.left = voice.left /\ voice'.leftAsking = voice.leftAsking /\ voice'.crossed = voice.crossed
        /\ voice'.failed = voice.failed
    BY <1>2, <2>2 DEF Write!Voice
  <2>4. VoiceOK(voice')
    <3>1. voice.streams \in 0..2 /\ v.streams \in 0..2 /\ v.held = FALSE /\ voice.stopping
      BY <1>1, <1>2, <1>4 DEF Write!Voice, Write!VoiceStopped
    <3>2. voice.leftAsking => voice.left
      BY <1>1 DEF VoiceOK
    <3>3. CASE voice.crossed \/ voice.leftAsking \/ voice.failed
      BY <3>1, <3>2, <3>3, <2>3 DEF VoiceOK
    <3>4. CASE ~voice.crossed /\ ~voice.leftAsking /\ ~voice.failed
      <4>1. VoiceSound(voice) /\ v.streams = 0 /\ voice.asking = 0
        BY <1>1, <1>2, <3>1, <3>4 DEF VoiceOK, VoiceSound
      <4> QED
        BY <3>1, <3>2, <2>3, <4>1 DEF VoiceOK, VoiceSound
    <3> QED
      BY <1>1, <3>3, <3>4
  <2> QED
    BY <1>4, <2>4, VoiceStepInv DEF Write!VoiceStopped, Write!OnVoice
<1>5. CASE Write!LeaveChat
  <2> DEFINE leftAsking == (voice.asking > 0)
  <2>1. voice' = [v EXCEPT !.left = TRUE, !.leftAsking = leftAsking] /\ leftAsking \in BOOLEAN
    BY <1>1, <1>2, <1>5 DEF Write!LeaveChat, Write!OnVoice, Write!Voice
  <2> HIDE DEF v, leftAsking
  <2>3. /\ voice' \in Write!Voice /\ voice'.state = "idle" /\ voice'.asking = voice.asking
        /\ voice'.streams = v.streams /\ voice'.held = v.held /\ voice'.stopping = voice.stopping
        /\ voice'.left = TRUE /\ voice'.leftAsking = leftAsking /\ voice'.crossed = voice.crossed
        /\ voice'.failed = voice.failed
    BY <1>2, <2>1 DEF Write!Voice
  <2>4. ~voice.left /\ (voice.leftAsking => voice.left)
    <3>1. ~voice.left
      BY <1>5 DEF Write!LeaveChat, Write!Here
    <3>2. voice.leftAsking => voice.left
      BY <1>1 DEF VoiceOK
    <3> QED
      BY <3>1, <3>2
  <2>5. VoiceOK(voice')
    <3>1. voice.streams \in 0..2 /\ v.streams \in 0..2 /\ v.held = FALSE /\ ~voice.leftAsking
      BY <1>1, <1>2, <2>4 DEF Write!Voice
    <3>2. CASE voice.crossed \/ voice.failed \/ voice.asking > 0
      BY <3>1, <3>2, <2>3 DEF VoiceOK, leftAsking
    <3>3. CASE ~voice.crossed /\ ~voice.failed /\ ~(voice.asking > 0)
      <4>1. VoiceSound(voice) /\ v.streams = 0 /\ voice.asking = 0
        BY <1>1, <1>2, <3>1, <3>3 DEF VoiceOK
      <4> QED
        BY <3>1, <2>3, <4>1 DEF VoiceOK, VoiceSound, leftAsking
    <3> QED
      BY <1>1, <3>2, <3>3
  <2> QED
    BY <1>5, <2>5, VoiceStepInv DEF Write!LeaveChat, Write!OnVoice
<1> QED
  BY <1>3, <1>4, <1>5

LEMMA ComposerStep == ASSUME ComposerInv, [Write!ComposerNext]_Write!composerVars PROVE ComposerInv'
<1>1. CASE Write!TypeDraft \/ Write!ToggleMenu \/ Write!StartEdit \/ Write!CancelEdit \/ Write!Send
  BY <1>1, ComposerDraftInv
<1>2. CASE Write!EditServed \/ Write!PostAnswered \/ Write!EditAnswered \/ Write!SendFails
  BY <1>2, ComposerAnswerInv
<1>3. CASE Write!Delete \/ Write!DeleteServed \/ Write!DeleteAnswered \/ Write!DeleteFails
  BY <1>3, ComposerDeleteInv
<1>4. CASE Write!StartVoice \/ Write!Granted \/ Write!RecorderFails \/ Write!Denied
  BY <1>4, VoiceAskInv
<1>5. CASE Write!Tick \/ Write!PauseVoice \/ Write!ResumeVoice \/ Write!SendVoice \/ Write!VoiceAnswered
  BY <1>5, VoiceBarInv
<1>6. CASE Write!DiscardVoice \/ Write!VoiceStopped \/ Write!LeaveChat
  BY <1>6, VoiceEndInv
<1>7. CASE UNCHANGED Write!composerVars
  BY <1>7 DEF Write!composerVars, ComposerInv, Write!ComposerTypeOK, Write!SendingHasCall, VoiceOK, VoiceSound
<1> QED
  BY <1>1, <1>2, <1>3, <1>4, <1>5, <1>6, <1>7 DEF Write!ComposerNext

(***************************************************************************)
(* The photo, the cards and the bubble of a chat (ChatPanels).             *)
(***************************************************************************)

\* A photo that is being sent is within its failures, and was posted once more
\* than it failed only when this time it was posted.
PhotoOK ==
    /\ photo.sending <=> photo.call # None
    /\ photo.call # None => photo.failures < MaxFailures
    /\ photo.served => photo.call # None
    /\ photo.posted <= photo.failures + 1
    /\ photo.call # "caption" /\ ~photo.served => photo.posted <= photo.failures

\* The booking has come to the stage, or to what the popup is for.
StageDue(stage) ==
    /\ stage = "booked" => booking = "booked"
    /\ stage = "payment_pending" => booking \in {"payment_pending", "booked", "over"}

ViewDue(view) ==
    /\ view = "payment" => booking \in {"payment_pending", "booked", "over"}
    /\ view = "summary" => booking = "booked"

\* A card, also one on its way, is of a stage the booking has come to, and so is
\* a popup.
CardsDue ==
    /\ \A stage \in cards.loads \union {cards.shown} : StageDue(stage)
    /\ \A view \in cards.opening \union {cards.view} : ViewDue(view)

PanelsInv == Panels!PanelsTypeOK /\ PhotoOK /\ CardsDue

LEMMA StagesAre ==
    /\ Panels!Stage = {"pending", "awaiting_open_slots", "payment_pending", "booked", "over"}
    /\ \A i, j \in DOMAIN Panels!Stages : i < j /\ Panels!Stages[i] = "payment_pending"
         => Panels!Stages[j] \in {"booked", "over"}
<1>1. DOMAIN Panels!Stages = 1..5
  BY DEF Panels!Stages
<1>2. /\ Panels!Stages[1] = "pending" /\ Panels!Stages[2] = "awaiting_open_slots"
           /\ Panels!Stages[3] = "payment_pending"
      /\ Panels!Stages[4] = "booked" /\ Panels!Stages[5] = "over"
  BY DEF Panels!Stages
<1>3. \A i \in 1..5 : i \in {1, 2, 3, 4, 5}
  OBVIOUS
<1>4. Panels!Stage = {Panels!Stages[i] : i \in 1..5}
  BY <1>1 DEF Panels!Stage
<1>5. Panels!Stage = {"pending", "awaiting_open_slots", "payment_pending", "booked", "over"}
  BY <1>2, <1>3, <1>4
<1>6. ASSUME NEW i \in 1..5, NEW j \in 1..5, i < j, Panels!Stages[i] = "payment_pending"
      PROVE  Panels!Stages[j] \in {"booked", "over"}
  <2>1. i = 3
    BY <1>2, <1>3, <1>6
  <2>2. j = 4 \/ j = 5
    BY <1>6, <2>1
  <2> QED
    BY <1>2, <2>2
<1> QED
  BY <1>1, <1>5, <1>6

LEMMA PanelsInvImplies == PanelsInv => Panels!PhotoPostedAgainAfterFailure /\ Panels!ViewIsDue
BY DEF PanelsInv, PhotoOK, CardsDue, ViewDue, Panels!PhotoPostedAgainAfterFailure, Panels!ViewIsDue

\* A team whose chat is opened has no photo and no cards yet.
LEMMA NoPhotoIs ==
    /\ Panels!NoPhoto \in Panels!Photo /\ ~Panels!NoPhoto.sending /\ Panels!NoPhoto.call = None
         /\ ~Panels!NoPhoto.served
    /\ Panels!NoPhoto.posted = 0 /\ Panels!NoPhoto.failures = 0
BY PanelsAssumption DEF Panels!NoPhoto, Panels!Photo

LEMMA NoCardsIs ==
    /\ Panels!NoCards \in Panels!Cards /\ Panels!NoCards.loads = {} /\ Panels!NoCards.shown = None
         /\ Panels!NoCards.opening = {}
    /\ Panels!NoCards.view = None
BY DEF Panels!NoCards, Panels!Cards

LEMMA PanelsFreshInv ==
    ASSUME booking' \in Panels!Stage, photo' = Panels!NoPhoto, cards' = Panels!NoCards,
           bubble' \in Panels!Bubble, sidebar' \in Panels!Sidebar
    PROVE  PanelsInv'
<1>1. Panels!PanelsTypeOK'
  BY NoPhotoIs, NoCardsIs DEF Panels!PanelsTypeOK
<1>2. PhotoOK'
  BY NoPhotoIs, PanelsAssumption DEF PhotoOK
<1>3. CardsDue'
  BY NoCardsIs, PanelsAssumption, StagesAre DEF CardsDue, StageDue, ViewDue, Panels!View
<1> QED
  BY <1>1, <1>2, <1>3 DEF PanelsInv

LEMMA PanelsInitInv == Panels!PanelsInit => PanelsInv
<1> SUFFICES ASSUME Panels!PanelsInit PROVE PanelsInv
  OBVIOUS
<1>1. Panels!NewBubble \in Panels!Bubble /\ booking \in Panels!Stage
  BY StagesAre DEF Panels!PanelsInit, Panels!NewBubble, Panels!Bubble
<1>2. sidebar \in Panels!Sidebar
  BY DEF Panels!PanelsInit, Panels!Sidebar
<1>3. Panels!PanelsTypeOK
  BY <1>1, <1>2, NoPhotoIs, NoCardsIs DEF Panels!PanelsTypeOK, Panels!PanelsInit
<1>4. PhotoOK
  BY NoPhotoIs, PanelsAssumption DEF PhotoOK, Panels!PanelsInit
<1>5. CardsDue
  BY NoCardsIs, PanelsAssumption, StagesAre DEF CardsDue, StageDue, ViewDue, Panels!View, Panels!PanelsInit
<1> QED
  BY <1>3, <1>4, <1>5 DEF PanelsInv

LEMMA PhotoStep == ASSUME PanelsInv, Panels!PhotoNext PROVE PanelsInv'
<1>1. /\ photo \in Panels!Photo /\ photo.posted \in 0..MaxFailures + 1 /\ photo.failures \in 0..MaxFailures
      /\ photo.served \in BOOLEAN /\ photo.sending \in BOOLEAN /\ MaxFailures \in Nat
      /\ None # "image" /\ None # "caption" /\ photo.error \in BOOLEAN /\ PhotoOK
  BY PanelsAssumption DEF PanelsInv, Panels!PanelsTypeOK, Panels!Photo
<1>2. UNCHANGED <<booking, cards, bubble, sidebar>>
  BY DEF Panels!PhotoNext, Panels!PickPhoto, Panels!TypeCaption, Panels!ClosePhoto, Panels!ConfirmPhoto,
     Panels!PhotoServed, Panels!PhotoAnswered, Panels!PhotoFails, Panels!OnPhoto
<1>3. SUFFICES photo' \in Panels!Photo /\ PhotoOK'
  BY <1>2 DEF PanelsInv, Panels!PanelsTypeOK, CardsDue, StageDue, ViewDue
<1>4. ASSUME photo' = [Panels!NoPhoto EXCEPT !.pending = TRUE]
               \/ photo' = [Panels!NoPhoto EXCEPT !.error = photo.error]
      PROVE  photo' \in Panels!Photo /\ PhotoOK'
  <2>1. /\ photo' \in Panels!Photo /\ photo'.sending = FALSE /\ photo'.call = None /\ photo'.posted = 0
        /\ photo'.failures = 0 /\ photo'.served = FALSE
    <3>1. CASE photo' = [Panels!NoPhoto EXCEPT !.pending = TRUE]
      BY <1>1, <3>1, NoPhotoIs DEF Panels!Photo
    <3>2. CASE photo' = [Panels!NoPhoto EXCEPT !.error = photo.error]
      BY <1>1, <3>2, NoPhotoIs DEF Panels!Photo
    <3> QED
      BY <1>4, <3>1, <3>2
  <2> QED
    BY <1>1, <2>1 DEF PhotoOK
<1>5. ASSUME PhotoOK, photo' \in Panels!Photo, photo'.sending = photo.sending, photo'.call = photo.call,
             photo'.served = photo.served, photo'.posted = photo.posted, photo'.failures = photo.failures
      PROVE  photo' \in Panels!Photo /\ PhotoOK'
  BY <1>5 DEF PhotoOK
<1>6. CASE Panels!PickPhoto
  <2>1. CASE Panels!OnPhoto([Panels!NoPhoto EXCEPT !.pending = TRUE])
    BY <1>4, <2>1 DEF Panels!OnPhoto
  <2>2. CASE Panels!OnPhoto([photo EXCEPT !.error = TRUE])
    <3>1. /\ photo' \in Panels!Photo /\ photo'.sending = photo.sending /\ photo'.call = photo.call
          /\ photo'.served = photo.served /\ photo'.posted = photo.posted /\ photo'.failures = photo.failures
      BY <1>1, <2>2 DEF Panels!OnPhoto, Panels!Photo
    <3> QED
      BY <1>1, <3>1, <1>5
  <2> QED
    BY <1>6, <2>1, <2>2 DEF Panels!PickPhoto
<1>7. CASE Panels!TypeCaption
  <2>1. /\ photo' \in Panels!Photo /\ photo'.sending = photo.sending /\ photo'.call = photo.call
        /\ photo'.served = photo.served /\ photo'.posted = photo.posted /\ photo'.failures = photo.failures
    BY <1>1, <1>7 DEF Panels!TypeCaption, Panels!OnPhoto, Panels!Photo
  <2> QED
    BY <1>1, <2>1, <1>5
<1>8. CASE Panels!ClosePhoto
  BY <1>4, <1>8 DEF Panels!ClosePhoto, Panels!OnPhoto
<1>9. CASE Panels!ConfirmPhoto
  <2>1. /\ photo' \in Panels!Photo /\ photo'.sending = TRUE /\ photo'.call = "image"
        /\ photo'.served = FALSE /\ photo'.posted = photo.posted /\ photo'.failures = photo.failures
        /\ ~photo.sending /\ photo.failures < MaxFailures
    BY <1>1, <1>9 DEF Panels!ConfirmPhoto, Panels!CanConfirm, Panels!OnPhoto, Panels!Photo
  <2>2. photo.posted <= photo.failures
    BY <1>1, <2>1 DEF PhotoOK
  <2>3. photo'.call # None
    BY <1>1, <2>1
  <2> QED
    BY <1>1, <2>1, <2>2, <2>3 DEF PhotoOK
<1>10. CASE Panels!PhotoServed
  <2> DEFINE n == IF photo.call = "image" THEN photo.posted + 1 ELSE photo.posted
  <2>1. photo' = [photo EXCEPT !.served = TRUE, !.posted = n]
    BY <1>1, <1>10 DEF Panels!PhotoServed, Panels!OnPhoto, Panels!Photo
  <2>2. /\ n \in 0..MaxFailures + 1 /\ n <= photo.failures + 1
        /\ photo.call # None /\ ~photo.served
    BY <1>1, <1>10 DEF Panels!PhotoServed, PhotoOK
  <2> HIDE DEF n
  <2>3. /\ photo' \in Panels!Photo /\ photo'.sending = photo.sending /\ photo'.call = photo.call
        /\ photo'.served = TRUE /\ photo'.posted = n /\ photo'.failures = photo.failures
    BY <1>1, <2>1, <2>2 DEF Panels!Photo
  <2> QED
    BY <1>1, <2>2, <2>3 DEF PhotoOK
<1>11. CASE Panels!PhotoAnswered
  <2>1. CASE photo.call = "image" /\ photo.caption
    <3>1. photo' = [photo EXCEPT !.call = "caption", !.served = FALSE]
      BY <1>11, <2>1 DEF Panels!PhotoAnswered, Panels!OnPhoto
    <3>2. /\ photo' \in Panels!Photo /\ photo'.sending = photo.sending /\ photo'.call = "caption"
          /\ photo'.served = FALSE /\ photo'.posted = photo.posted /\ photo'.failures = photo.failures
      BY <1>1, <3>1 DEF Panels!Photo
    <3> QED
      BY <1>1, <2>1, <3>2 DEF PhotoOK
  <2>2. CASE ~(photo.call = "image" /\ photo.caption)
    BY <1>4, <1>11, <2>2 DEF Panels!PhotoAnswered, Panels!OnPhoto
  <2> QED
    BY <2>1, <2>2
<1>12. CASE Panels!PhotoFails
  <2> DEFINE n == photo.failures + 1
  <2>1. /\ photo.call # None /\ photo.failures < MaxFailures
        /\ photo' = [photo EXCEPT !.sending = FALSE, !.error = TRUE, !.call = None, !.served = FALSE,
               !.failures = n]
    BY <1>1, <1>12 DEF Panels!PhotoFails, Panels!OnPhoto, PhotoOK, Panels!Photo
  <2>2. n \in 0..MaxFailures /\ photo.posted <= n
    BY <1>1, <2>1 DEF PhotoOK
  <2> HIDE DEF n
  <2>3. /\ photo' \in Panels!Photo /\ photo'.sending = FALSE /\ photo'.call = None
        /\ photo'.served = FALSE /\ photo'.posted = photo.posted /\ photo'.failures = n
    BY <1>1, <2>1, <2>2 DEF Panels!Photo
  <2> QED
    BY <1>1, <2>2, <2>3 DEF PhotoOK
<1> QED
  BY <1>6, <1>7, <1>8, <1>9, <1>10, <1>11, <1>12 DEF Panels!PhotoNext

LEMMA CardsChangeInv ==
    ASSUME PanelsInv, cards' \in Panels!Cards, CardsDue', UNCHANGED <<booking, photo, bubble, sidebar>>
    PROVE  PanelsInv'
BY DEF PanelsInv, Panels!PanelsTypeOK, PhotoOK

\* What has come stays come to.
LEMMA StageMovesInv == ASSUME PanelsInv, Panels!StageMoves PROVE PanelsInv'
<1>1. booking \in Panels!Stage /\ cards' = cards /\ photo' = photo /\ bubble' = bubble /\ sidebar' = sidebar
  BY DEF PanelsInv, Panels!PanelsTypeOK, Panels!StageMoves
<1>2. PICK i, j \in DOMAIN Panels!Stages : i < j /\ Panels!Stages[i] = booking /\ Panels!Stages[j] = booking'
  BY DEF Panels!StageMoves
<1>3. booking # "booked" /\ booking' \in Panels!Stage
  BY DEF Panels!StageMoves
<1>4. \A i1, j1 \in DOMAIN Panels!Stages : i1 < j1 /\ Panels!Stages[i1] = "over" => FALSE
  <2>1. DOMAIN Panels!Stages = 1..5
    BY DEF Panels!Stages
  <2>2. /\ Panels!Stages[1] = "pending" /\ Panels!Stages[2] = "awaiting_open_slots"
             /\ Panels!Stages[3] = "payment_pending"
        /\ Panels!Stages[4] = "booked"
    BY DEF Panels!Stages
  <2>3. SUFFICES ASSUME NEW i1 \in 1..5, NEW j1 \in 1..5, i1 < j1, Panels!Stages[i1] = "over" PROVE FALSE
    BY <2>1
  <2>4. i1 \in {1, 2, 3, 4}
    BY <2>3
  <2> QED
    BY <2>2, <2>3, <2>4
<1>5. booking = "payment_pending" => booking' \in {"booked", "over"}
  BY <1>2, StagesAre
<1>6. booking # "over"
  BY <1>2, <1>4
<1>7. \A s : StageDue(s) => (StageDue(s))'
  BY <1>3, <1>5, <1>6 DEF StageDue
<1>8. \A v : ViewDue(v) => (ViewDue(v))'
  BY <1>3, <1>5, <1>6 DEF ViewDue
<1>9. CardsDue'
  BY <1>1, <1>7, <1>8 DEF PanelsInv, CardsDue
<1> QED
  BY <1>1, <1>3, <1>9 DEF PanelsInv, Panels!PanelsTypeOK, PhotoOK

LEMMA CardsLoadInv ==
    ASSUME PanelsInv,
           Panels!LoadCards \/ \E stage \in Panels!Stage : Panels!CardsArrive(stage) \/ Panels!CardsFail(stage)
    PROVE  PanelsInv'
<1>1. cards \in Panels!Cards /\ CardsDue /\ booking \in Panels!Stage /\ StageDue(booking)
  BY StagesAre DEF PanelsInv, Panels!PanelsTypeOK, StageDue
<1>2. CASE Panels!LoadCards
  <2>1. /\ cards' \in Panels!Cards /\ cards'.loads = cards.loads \union {booking}
             /\ cards'.shown = cards.shown
        /\ cards'.opening = cards.opening /\ cards'.view = cards.view
    BY <1>1, <1>2 DEF Panels!LoadCards, Panels!OnCards, Panels!Cards
  <2>2. CardsDue'
    BY <1>1, <1>2, <2>1 DEF CardsDue, StageDue, ViewDue, Panels!LoadCards, Panels!OnCards
  <2> QED
    BY <1>2, <2>1, <2>2, CardsChangeInv DEF Panels!LoadCards, Panels!OnCards
<1>3. ASSUME NEW stage \in Panels!Stage, Panels!CardsArrive(stage) PROVE PanelsInv'
  <2>1. /\ cards' \in Panels!Cards /\ cards'.loads = cards.loads \ {stage} /\ cards'.shown = stage
        /\ cards'.opening = cards.opening /\ cards'.view = cards.view
    BY <1>1, <1>3 DEF Panels!CardsArrive, Panels!OnCards, Panels!Cards
  <2>2. CardsDue'
    BY <1>1, <1>3, <2>1 DEF CardsDue, StageDue, ViewDue, Panels!CardsArrive, Panels!OnCards
  <2> QED
    BY <1>3, <2>1, <2>2, CardsChangeInv DEF Panels!CardsArrive, Panels!OnCards
<1>4. ASSUME NEW stage \in Panels!Stage, Panels!CardsFail(stage) PROVE PanelsInv'
  <2>1. /\ cards' \in Panels!Cards /\ cards'.loads = cards.loads \ {stage} /\ cards'.shown = None
        /\ cards'.opening = cards.opening /\ cards'.view = cards.view
    BY <1>1, <1>4 DEF Panels!CardsFail, Panels!OnCards, Panels!Cards
  <2>2. None # "booked" /\ None # "payment_pending"
    BY PanelsAssumption, StagesAre
  <2>3. CardsDue'
    BY <1>1, <1>4, <2>1, <2>2 DEF CardsDue, StageDue, ViewDue, Panels!CardsFail, Panels!OnCards
  <2> QED
    BY <1>4, <2>1, <2>3, CardsChangeInv DEF Panels!CardsFail, Panels!OnCards
<1> QED
  BY <1>2, <1>3, <1>4

LEMMA CardsOpenInv ==
    ASSUME PanelsInv,
           Panels!ExpandCard \/ Panels!OpenCard \/ Panels!CloseCard
             \/ \E view \in Panels!View : Panels!CardOpens(view) \/ Panels!CardOpenFails(view)
    PROVE  PanelsInv'
<1>1. cards \in Panels!Cards /\ CardsDue /\ booking \in Panels!Stage /\ None \notin Panels!View
  BY PanelsAssumption DEF PanelsInv, Panels!PanelsTypeOK
<1>2. CASE Panels!ExpandCard
  <2>1. /\ cards' \in Panels!Cards /\ cards'.loads = cards.loads /\ cards'.shown = cards.shown
        /\ cards'.opening = cards.opening /\ cards'.view = cards.view
    BY <1>1, <1>2 DEF Panels!ExpandCard, Panels!OnCards, Panels!Cards
  <2>2. CardsDue'
    BY <1>1, <1>2, <2>1 DEF CardsDue, StageDue, ViewDue, Panels!ExpandCard, Panels!OnCards
  <2> QED
    BY <1>2, <2>1, <2>2, CardsChangeInv DEF Panels!ExpandCard, Panels!OnCards
<1>3. CASE Panels!OpenCard
  <2> DEFINE view == Panels!ViewOf(cards.shown)
  <2>1. view \in Panels!View /\ ViewDue(view)
    BY <1>1 DEF Panels!ViewOf, Panels!View, CardsDue, StageDue, ViewDue
  <2>2. cards' = [cards EXCEPT !.opening = cards.opening \union {view}]
    BY <1>1, <1>3 DEF Panels!OpenCard, Panels!OnCards, Panels!Cards
  <2> HIDE DEF view
  <2>3. /\ cards' \in Panels!Cards /\ cards'.loads = cards.loads /\ cards'.shown = cards.shown
        /\ cards'.opening = cards.opening \union {view} /\ cards'.view = cards.view
    BY <1>1, <2>1, <2>2 DEF Panels!Cards
  <2>4. CardsDue'
    BY <1>1, <1>3, <2>1, <2>3 DEF CardsDue, StageDue, ViewDue, Panels!OpenCard, Panels!OnCards
  <2> QED
    BY <1>3, <2>3, <2>4, CardsChangeInv DEF Panels!OpenCard, Panels!OnCards
<1>4. CASE Panels!CloseCard
  <2>1. /\ cards' \in Panels!Cards /\ cards'.loads = cards.loads /\ cards'.shown = cards.shown
        /\ cards'.opening = cards.opening /\ cards'.view = None
    BY <1>1, <1>4 DEF Panels!CloseCard, Panels!OnCards, Panels!Cards
  <2>2. None # "payment" /\ None # "summary"
    BY <1>1 DEF Panels!View
  <2>3. CardsDue'
    BY <1>1, <1>4, <2>1, <2>2 DEF CardsDue, StageDue, ViewDue, Panels!CloseCard, Panels!OnCards
  <2> QED
    BY <1>4, <2>1, <2>3, CardsChangeInv DEF Panels!CloseCard, Panels!OnCards
<1>5. ASSUME NEW view \in Panels!View, Panels!CardOpens(view) PROVE PanelsInv'
  <2>1. /\ cards' \in Panels!Cards /\ cards'.loads = cards.loads /\ cards'.shown = cards.shown
        /\ cards'.opening = cards.opening \ {view} /\ cards'.view = view
    BY <1>1, <1>5 DEF Panels!CardOpens, Panels!OnCards, Panels!Cards
  <2>3. CardsDue'
    BY <1>1, <1>5, <2>1 DEF CardsDue, StageDue, ViewDue, Panels!CardOpens, Panels!OnCards
  <2> QED
    BY <1>5, <2>1, <2>3, CardsChangeInv DEF Panels!CardOpens, Panels!OnCards
<1>6. ASSUME NEW view \in Panels!View, Panels!CardOpenFails(view) PROVE PanelsInv'
  <2>1. /\ cards' \in Panels!Cards /\ cards'.loads = cards.loads /\ cards'.shown = cards.shown
        /\ cards'.opening = cards.opening \ {view} /\ cards'.view = cards.view
    BY <1>1, <1>6 DEF Panels!CardOpenFails, Panels!OnCards, Panels!Cards
  <2>3. CardsDue'
    BY <1>1, <1>6, <2>1 DEF CardsDue, StageDue, ViewDue, Panels!CardOpenFails, Panels!OnCards
  <2> QED
    BY <1>6, <2>1, <2>3, CardsChangeInv DEF Panels!CardOpenFails, Panels!OnCards
<1> QED
  BY <1>2, <1>3, <1>4, <1>5, <1>6

LEMMA CardsRespondInv ==
    ASSUME PanelsInv, Panels!Respond \/ Panels!RespondAnswered \/ Panels!RespondFails \/ Panels!PaidInCard
    PROVE  PanelsInv'
<1>1. /\ cards \in Panels!Cards /\ CardsDue /\ booking \in Panels!Stage /\ StageDue(booking)
      /\ None # "payment" /\ None # "summary"
  BY PanelsAssumption, StagesAre DEF PanelsInv, Panels!PanelsTypeOK, Panels!View, StageDue
<1>2. CASE Panels!Respond \/ Panels!RespondFails
  <2>1. /\ cards' \in Panels!Cards /\ cards'.loads = cards.loads /\ cards'.shown = cards.shown
        /\ cards'.opening = cards.opening /\ cards'.view = cards.view
    <3>1. CASE Panels!Respond
      BY <1>1, <3>1 DEF Panels!Respond, Panels!OnCards, Panels!Cards
    <3>2. CASE Panels!RespondFails
      BY <1>1, <3>2 DEF Panels!RespondFails, Panels!OnCards, Panels!Cards
    <3> QED
      BY <1>2, <3>1, <3>2
  <2>2. CardsDue'
    BY <1>1, <1>2, <2>1 DEF CardsDue, StageDue, ViewDue, Panels!Respond, Panels!RespondFails, Panels!OnCards
  <2> QED
    BY <1>2, <2>1, <2>2, CardsChangeInv DEF Panels!Respond, Panels!RespondFails, Panels!OnCards
<1>3. CASE Panels!RespondAnswered
  <2> DEFINE view == IF cards.view = "confirmation" THEN None ELSE cards.view
  <2>1. view \in Panels!View \union {None} /\ (view = cards.view \/ view = None)
    BY <1>1 DEF Panels!Cards
  <2>2. cards' = [cards EXCEPT !.responding = FALSE, !.loads = cards.loads \union {booking}, !.view = view]
    BY <1>1, <1>3 DEF Panels!RespondAnswered, Panels!OnCards, Panels!Cards
  <2> HIDE DEF view
  <2>3. /\ cards' \in Panels!Cards /\ cards'.loads = cards.loads \union {booking}
             /\ cards'.shown = cards.shown
        /\ cards'.opening = cards.opening /\ cards'.view = view
    BY <1>1, <2>1, <2>2 DEF Panels!Cards
  <2>4. CardsDue'
    BY <1>1, <1>3, <2>1, <2>3 DEF CardsDue, StageDue, ViewDue, Panels!RespondAnswered, Panels!OnCards
  <2> QED
    BY <1>3, <2>3, <2>4, CardsChangeInv DEF Panels!RespondAnswered, Panels!OnCards
<1>4. CASE Panels!PaidInCard
  <2>1. /\ cards' \in Panels!Cards /\ cards'.loads = cards.loads \union {booking}
             /\ cards'.shown = cards.shown
        /\ cards'.opening = cards.opening /\ cards'.view = None
    BY <1>1, <1>4 DEF Panels!PaidInCard, Panels!OnCards, Panels!Cards
  <2>2. CardsDue'
    BY <1>1, <1>4, <2>1 DEF CardsDue, StageDue, ViewDue, Panels!PaidInCard, Panels!OnCards
  <2> QED
    BY <1>4, <2>1, <2>2, CardsChangeInv DEF Panels!PaidInCard, Panels!OnCards
<1> QED
  BY <1>2, <1>3, <1>4

LEMMA CardsStep == ASSUME PanelsInv, Panels!CardsNext PROVE PanelsInv'
BY StageMovesInv, CardsLoadInv, CardsOpenInv, CardsRespondInv DEF Panels!CardsNext

LEMMA BubbleStep == ASSUME PanelsInv, Panels!BubbleNext PROVE PanelsInv'
<1>1. bubble \in Panels!Bubble
  BY DEF PanelsInv, Panels!PanelsTypeOK
<1>2. bubble' \in Panels!Bubble /\ UNCHANGED <<booking, photo, cards, sidebar>>
  <2>1. CASE Panels!TogglePlay
    BY <1>1, <2>1 DEF Panels!TogglePlay, Panels!OnBubble, Panels!Bubble
  <2>2. CASE Panels!AudioArrives
    BY <1>1, <2>2 DEF Panels!AudioArrives, Panels!OnBubble, Panels!Bubble
  <2>3. CASE Panels!AudioEnds
    BY <1>1, <2>3 DEF Panels!AudioEnds, Panels!OnBubble, Panels!Bubble
  <2>4. CASE Panels!ImageArrives
    BY <1>1, <2>4 DEF Panels!ImageArrives, Panels!OnBubble, Panels!Bubble
  <2> QED
    BY <2>1, <2>2, <2>3, <2>4 DEF Panels!BubbleNext
<1> QED
  BY <1>2 DEF PanelsInv, Panels!PanelsTypeOK, PhotoOK, CardsDue, StageDue, ViewDue

LEMMA SidebarStep == ASSUME PanelsInv, Panels!SidebarNext PROVE PanelsInv'
<1>1. sidebar \in Panels!Sidebar
  BY DEF PanelsInv, Panels!PanelsTypeOK
<1>2. ASSUME sidebar' \in Panels!Sidebar, UNCHANGED <<booking, photo, cards, bubble>> PROVE PanelsInv'
  BY <1>2 DEF PanelsInv, Panels!PanelsTypeOK, PhotoOK, CardsDue, StageDue, ViewDue
<1>3. CASE Panels!TeamsArrive
  BY <1>1, <1>2, <1>3 DEF Panels!TeamsArrive, Panels!OnSidebar, Panels!Sidebar
<1>4. CASE Panels!SelectTeam
  <2>1. sidebar' \in Panels!Sidebar
    BY <1>1, <1>4 DEF Panels!SelectTeam, Panels!Sidebar
  <2>2. Panels!NewBubble \in Panels!Bubble
    BY DEF Panels!NewBubble, Panels!Bubble
  <2> QED
    BY <1>4, <2>1, <2>2, PanelsFreshInv DEF Panels!SelectTeam
<1>5. CASE Panels!BackToTeams
  BY <1>1, <1>2, <1>5 DEF Panels!BackToTeams, Panels!OnSidebar, Panels!Sidebar
<1>6. CASE Panels!OpenSearch
  BY <1>1, <1>2, <1>6 DEF Panels!OpenSearch, Panels!OnSidebar, Panels!Sidebar
<1>7. CASE Panels!TypeQuery
  BY <1>1, <1>2, <1>7 DEF Panels!TypeQuery, Panels!OnSidebar, Panels!Sidebar
<1>8. CASE Panels!CloseSearch
  BY <1>1, <1>2, <1>8 DEF Panels!CloseSearch, Panels!OnSidebar, Panels!Sidebar
<1>9. CASE Panels!SelectResult
  BY <1>1, <1>2, <1>9 DEF Panels!SelectResult, Panels!OnSidebar, Panels!Sidebar
<1> QED
  BY <1>3, <1>4, <1>5, <1>6, <1>7, <1>8, <1>9 DEF Panels!SidebarNext

LEMMA PanelsStep == ASSUME PanelsInv, [Panels!PanelsNext]_Panels!panelVars PROVE PanelsInv'
<1>1. CASE UNCHANGED Panels!panelVars
  BY <1>1 DEF Panels!panelVars, PanelsInv, Panels!PanelsTypeOK, PhotoOK, CardsDue, StageDue, ViewDue
<1> QED
  BY <1>1, PhotoStep, CardsStep, BubbleStep, SidebarStep DEF Panels!PanelsNext

(***************************************************************************)
(* The pages together, and the theorems.                                   *)
(***************************************************************************)

\* A step of the client is one of the page that is shown, or none of the page's.
LEMMA ChatSteps ==
    ASSUME [Next]_vars
    PROVE  /\ Thread!ChatNext \/ UNCHANGED threadVars
           /\ Write!ComposerNext \/ UNCHANGED writeVars
           /\ Panels!PanelsNext \/ UNCHANGED panelVars
           /\ route' = route
BY DEF Next, Shows, vars, Panels!PanelsNext

LEMMA RouteHolds == Spec => [](route \in Route)
<1>1. Init => route \in Route
  BY DEF Init
<1>2. route \in Route /\ [Next]_vars => (route \in Route)'
  BY ChatSteps DEF Route
<1> QED
  BY <1>1, <1>2, PTL DEF Spec

LEMMA ThreadHolds == Spec => []ThreadInv
<1>1. Init => ThreadInv
  BY ThreadInitInv DEF Init
<1>2. ThreadInv /\ [Next]_vars => ThreadInv'
  <2> SUFFICES ASSUME ThreadInv, [Next]_vars PROVE ThreadInv'
    OBVIOUS
  <2>1. [Thread!ChatNext]_Thread!chatVars
    BY ChatSteps DEF threadVars, Thread!chatVars
  <2> QED
    BY <2>1, ThreadStep
<1> QED
  BY <1>1, <1>2, PTL DEF Spec

LEMMA ComposerHolds == Spec => []ComposerInv
<1>1. Init => ComposerInv
  BY ComposerInitInv DEF Init
<1>2. ComposerInv /\ [Next]_vars => ComposerInv'
  <2> SUFFICES ASSUME ComposerInv, [Next]_vars PROVE ComposerInv'
    OBVIOUS
  <2>1. [Write!ComposerNext]_Write!composerVars
    BY ChatSteps DEF writeVars, Write!composerVars
  <2> QED
    BY <2>1, ComposerStep
<1> QED
  BY <1>1, <1>2, PTL DEF Spec

LEMMA PanelsHold == Spec => []PanelsInv
<1>1. Init => PanelsInv
  BY PanelsInitInv DEF Init
<1>2. PanelsInv /\ [Next]_vars => PanelsInv'
  <2> SUFFICES ASSUME PanelsInv, [Next]_vars PROVE PanelsInv'
    OBVIOUS
  <2>1. [Panels!PanelsNext]_Panels!panelVars
    BY ChatSteps DEF panelVars, Panels!panelVars
  <2> QED
    BY <2>1, PanelsStep
<1> QED
  BY <1>1, <1>2, PTL DEF Spec

\* The list holds a message once, whichever loads, polls and posts brought it, and
\* one that is missing is brought by the older messages or lies below one of the
\* player's own, or one that a late first page took out, or was committed after a
\* newer one had been read (dedupeMessages and the loads in chatPage.tsx, created_at
\* in chat_services.py:105-120).
THEOREM ThreadStaysWhole == Spec => []ThreadIsWhole
<1>1. ThreadInv => ThreadIsWhole
  BY ThreadInvImplies DEF ThreadIsWhole
<1> QED
  BY <1>1, ThreadHolds, PTL

\* The microphone is on only while the recorder's bar is shown, but for a chat
\* that is left while the browser asks, a recording thrown away while it stops and
\* a recorder that does not start once the microphone is granted (chatPage.tsx).
THEOREM MicrophoneIsReleased == Spec => []MicrophoneIsHeld
<1>1. ComposerInv => MicrophoneIsHeld
  BY ComposerInvImplies DEF MicrophoneIsHeld
<1> QED
  BY <1>1, ComposerHolds, PTL

\* A popup opened from a booking's card, however old the card, is one the booking
\* has come to (chatPage.tsx).
THEOREM OpenedViewIsDue == Spec => []ViewIsDue
<1>1. PanelsInv => ViewIsDue
  BY PanelsInvImplies DEF ViewIsDue
<1> QED
  BY <1>1, PanelsHold, PTL

\* Behind the skeletons, spinners and disabled forms of the pages a load, a call
\* or a timer is under way, however answers overlap or come to a part of the page
\* that was closed and opened again, with three exceptions that the properties of
\* the pages name: the payment popup whose fetchInfo has failed
\* (MemberPaymentPopup.tsx:153), the same popup once a team's share is verified,
\* until the shell's poll removes it, and the choice of how to book whose hold has
\* failed (BookingTeamModal.tsx:164-179).
THEOREM NobodyWaitsForNothing == Spec => []NothingWaitsForNothing
<1>1. /\ TeamPageInv /\ SignInInv /\ ProfileInv /\ AdminInv
      /\ GridInv /\ PitchInv /\ ChoiceSound /\ PayInv /\ PopupsInv
      /\ ThreadInv /\ ComposerInv
      => NothingWaitsForNothing
  <2> SUFFICES ASSUME TeamPageInv, SignInInv, ProfileInv, AdminInv, GridInv, PitchInv, ChoiceSound,
                      PayInv, PopupsInv, ThreadInv, ComposerInv
               PROVE  NothingWaitsForNothing
    OBVIOUS
  <2>1. TeamPage!SkeletonHasLoad /\ TeamPage!SpinnerHasCall
    BY TeamPageInvImplies
  <2>2. SignIn!DisabledFormHasCall /\ Profile!BusyHasCall /\ Admin!SpinnerIsRefresh
    BY DEF SignInInv, ProfileInv, AdminInv
  <2>3. Grid!ShimmerHasCause /\ Pitch!TeamBookingHasCall /\ Pitch!ChoiceHasHold
    BY GridInvImplies, PitchInvImplies DEF ChoiceSound
  <2>4. Pay!WaitHasCause /\ Opened!PopupWaitsForCall
    BY PayInvImplies, PopupsInvImplies
  <2>5. Thread!SendingHasCall /\ Write!SendingHasCall
    BY ThreadInvImplies DEF ComposerInv
  <2> QED
    BY <2>1, <2>2, <2>3, <2>4, <2>5 DEF NothingWaitsForNothing
<1> QED
  BY <1>1, TeamPageHolds, SignInHolds, ProfileHolds, AdminHolds, GridHolds, PitchHolds, ChoiceHolds,
     PayHolds, PopupsHold, ThreadHolds, ComposerHolds, PTL

\* A code is verified once, one payment is asked about, an owner decides once, a
\* photo and a pitch are sent once, whatever is clicked again while an answer is
\* on its way and whichever payment the shell puts into an open popup, with the
\* exceptions the properties of the pages name.
THEOREM EverythingIsDoneOnce == Spec => []NothingIsDoneTwice
<1>1. SignInInv /\ PayInv /\ ShellInv /\ PanelsInv /\ WizardOfRoute => NothingIsDoneTwice
  <2> SUFFICES ASSUME SignInInv, PayInv, ShellInv, PanelsInv, WizardOfRoute PROVE NothingIsDoneTwice
    OBVIOUS
  <2>1. SignIn!OneVerification
    BY DEF SignInInv
  <2>2. Pay!OneIntervalUnlessLate /\ Shell!OneDecisionUnderWay /\ Panels!PhotoPostedAgainAfterFailure
    BY PayInvImplies, ShellInvImplies, PanelsInvImplies
  <2>3. route = "wizard" => Wizard(WizardPicks)!OneSubmissionUnlessWaiting
    BY WizardImplies, WizardAssumption DEF WizardOfRoute
  <2> QED
    BY <2>1, <2>2, <2>3 DEF NothingIsDoneTwice
<1> QED
  BY <1>1, SignInHolds, PayHolds, ShellHolds, PanelsHold, WizardsHold, PTL

\* Every page keeps to the states its module describes.
THEOREM PagesTypeCorrect == Spec => []PagesTypeOK
<1>1. /\ route \in Route /\ TeamPageInv /\ SignInInv /\ ProfileInv /\ AdminInv /\ WizardOfRoute
      /\ GridInv /\ PitchInv /\ PayInv /\ ShellInv /\ PopupsInv
      /\ ThreadInv /\ ComposerInv /\ PanelsInv
      => PagesTypeOK
  <2> SUFFICES ASSUME route \in Route, TeamPageInv, SignInInv, ProfileInv, AdminInv, WizardOfRoute,
                      GridInv, PitchInv, PayInv, ShellInv, PopupsInv, ThreadInv, ComposerInv, PanelsInv
               PROVE  PagesTypeOK
    OBVIOUS
  <2>1. TeamPage!TypeOK /\ SignIn!AccountTypeOK /\ Profile!ProfileTypeOK /\ Admin!AdminTypeOK
    BY TeamPageInvImplies DEF SignInInv, ProfileInv, AdminInv
  <2>2. Grid!GridTypeOK /\ Pitch!PitchTypeOK /\ Pay!PayTypeOK
    BY GridInvImplies, PitchInvImplies, PayInvImplies
  <2>3. Shell!ShellTypeOK /\ Opened!PopupsTypeOK
    BY ShellInvImplies, PopupsInvImplies
  <2>4. Thread!ChatTypeOK /\ Write!ComposerTypeOK /\ Panels!PanelsTypeOK
    BY ThreadInvImplies DEF ComposerInv, PanelsInv
  <2>5. /\ route = "wizard" => Wizard(WizardPicks)!WizardTypeOK
        /\ route = "lookups" => Wizard(LookupPicks)!WizardTypeOK
    BY DEF WizardOfRoute, WizardInv, LookupsInv
  <2> QED
    BY <2>1, <2>2, <2>3, <2>4, <2>5 DEF PagesTypeOK
<1> QED
  BY <1>1, RouteHolds, TeamPageHolds, SignInHolds, ProfileHolds, AdminHolds, WizardsHold, GridHolds,
     PitchHolds,
     PayHolds, ShellHolds, PopupsHold, ThreadHolds, ComposerHolds, PanelsHold, PTL

===============================================================================
