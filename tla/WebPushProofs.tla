----------------------------- MODULE WebPushProofs -----------------------------
(***************************************************************************)
(* Proofs about WebPush, for any pages, clients, sizes and plans.          *)
(*                                                                         *)
(* That nothing is skipped is not inductive: it needs to be known of every *)
(* place where a number of a line waits (the hello, the messages, the      *)
(* socket, the poll) that the page will have, when it uses it, what comes  *)
(* before it. Only of the answer to a poll from before the page signed in  *)
(* nothing is known, and a page that draws it is left out from there on.   *)
(***************************************************************************)
EXTENDS WebPush, SequenceTheorems, TLAPS

\* The status, if it is known
Known == {0, 1, None}

\* Messages, and the fields of the records
Logs == [type : {"log"}, first : Nat, last : Nat]
PageMessages == [type : {"auth"}] \cup [type : {"svs"}, svs : {0, 1}] \cup Logs
ClientMessages == [type : {"auth"}] \cup [type : {"hello"}] \cup [type : {"state"}, svs : {0, 1}]
Messages(c) == IF c \in Pages THEN PageMessages ELSE ClientMessages
Flushes == [on : BOOLEAN, todo : SUBSET (Pages \cup Clients), svs : Known, svs_key : Known, more : BOOLEAN]
Socks == [open : BOOLEAN, closing : BOOLEAN, token : Nat, ready : BOOLEAN, log_after : Nat, svs : Known,
          due : BOOLEAN]
Links(c) == [up : BOOLEAN, hello : Nat \cup {None}, down : Seq(Messages(c))]
Polls == [asked : Nat \cup {None}, to : Nat \cup {None}, svs : Known, token : Nat]
Shown == [on : BOOLEAN, token : Nat, after : Nat, drawn : SUBSET Nat, svs : Known, late : BOOLEAN,
          ws : {"none", "open", "live"}, poll : Polls, old : Polls, mixed : BOOLEAN]

\* The types of the connections
LinkTypes ==
  /\ DOMAIN link = Pages \cup Clients /\ link = [c \in Pages \cup Clients |-> link[c]]
  /\ \A c \in Pages \cup Clients : link[c] \in Links(c)

\* The types of the variables
Types ==
  /\ head \in Nat /\ svs \in {0, 1}
  /\ told \in BOOLEAN /\ queued \in BOOLEAN /\ work \in BOOLEAN /\ queueing \in BOOLEAN
  /\ flush \in Flushes
  /\ sock \in [Pages \cup Clients -> Socks]
  /\ order \in Seq(Clients)
  /\ LinkTypes
  /\ page \in [Pages -> Shown]

\* No token is held twice, and none that was not issued.
Tokens ==
  /\ sessions \in Seq(Nat) /\ issued \in Nat /\ api_token \in Nat
  /\ Len(sessions) <= MaxSessions /\ IsInjective(sessions)
  /\ Range(sessions) \subseteq 1..issued

\* One run is pending at most, and s_ws_flush_queued says so.
Queue ==
  /\ queued <=> (work \/ queueing)
  /\ ~(work /\ queueing)

\* The flush goes through sockets that are open; it is over before a request is served.
Sockets ==
  /\ flush.todo \subseteq Open
  /\ flush.on \/ flush.todo = {}
  /\ IsInjective(order)
  /\ Range(order) = Open \cap Clients

\* The lines up to n are drawn by a page, or among the first k messages under way to it.
Covers(after, down, k, n) ==
  \/ n <= after
  \/ \E j \in 1..k : down[j].type = "log" /\ n <= down[j].last

\* Of the h lines of the log, a page has drawn all up to logAfter but what was overwritten.
DrawnWell(h, g) ==
  /\ g.after <= h
  /\ g.on /\ ~g.mixed => \A n \in 1..g.after : n \in g.drawn \/ n <= h - LOG_CAPACITY

\* No message under way leaves out a line that is there and neither drawn nor ahead of it.
DownWell(h, after, down) ==
  \A i \in DOMAIN down :
    down[i].type = "log" =>
      /\ down[i].last <= h
      /\ down[i].first <= h - LOG_CAPACITY + 1 \/ Covers(after, down, i - 1, down[i].first - 1)

\* Nor does the answer to a poll; the poll asks for nothing further than logAfter.
PollWell(h, after, poll) ==
  /\ poll.asked # None /\ poll.to = None => poll.asked <= after
  /\ poll.to # None =>
       /\ poll.to <= h
       /\ poll.asked # None
       /\ poll.asked <= h - LOG_CAPACITY + 1 \/ poll.asked <= after + 1

\* The answer to a poll from before the page signed in is only known to be of the log.
OldWell(h, poll) == poll.to # None => poll.to <= h /\ poll.asked # None

\* Where p, the hello, the messages, the socket and the polls of p stand in the log
Cursor(p) ==
  /\ DrawnWell(head, page[p])
  /\ ~page[p].on => link[p] = NoLink
  /\ link[p].hello # None => link[p].hello <= page[p].after
  /\ DownWell(head, page[p].after, link[p].down)
  /\ link[p].up /\ sock[p].ready =>
       Covers(page[p].after, link[p].down, Len(link[p].down), sock[p].log_after)
  /\ PollWell(head, page[p].after, page[p].poll)
  /\ OldWell(head, page[p].old)

Cursors == \A p \in Pages : Cursor(p)

\* No socket is ahead of the log.
Places == \A c \in Pages \cup Clients : sock[c].log_after <= head

\* The inductive invariant
IInv == Types /\ Tokens /\ Queue /\ Sockets /\ Cursors /\ Places

-----------------------------------------------------------------------------
(* Sequences without repetition *)

\* RemoveFirst takes an item out of a sequence that holds it once, and keeps the order of
\* the others.
LEMMA Removed ==
  ASSUME NEW S, NEW s \in Seq(S), IsInjective(s), NEW k \in 1..Len(s)
  PROVE  /\ RemoveFirst(s, s[k]) \in Seq(S)
         /\ Len(RemoveFirst(s, s[k])) = Len(s) - 1
         /\ \A i \in 1..Len(s) - 1 : RemoveFirst(s, s[k])[i] = IF i < k THEN s[i] ELSE s[i + 1]
<1> DEFINE I == {i \in 1..Len(s) : s[i] = s[k]}
           before == SubSeq(s, 1, k - 1)
           after == SubSeq(s, k + 1, Len(s))
<1>1. I = {k}
  BY DEF IsInjective
<1>2. (CHOOSE x \in I : \A y \in I : x =< y) = k
  <2> HIDE DEF I
  <2> QED
    BY <1>1
<1>3. RemoveFirst(s, s[k]) = before \o after
  BY <1>1, <1>2 DEF RemoveFirst, RemoveAt, SelectInSeq, Min
<1>4. /\ before \in Seq(S) /\ Len(before) = k - 1
      /\ \A i \in 1..k - 1 : before[i] = s[i]
  OBVIOUS
<1>5. /\ after \in Seq(S) /\ Len(after) = Len(s) - k
      /\ \A i \in 1..Len(s) - k : after[i] = s[i + k]
  OBVIOUS
<1> HIDE DEF before, after
<1>6. /\ before \o after \in Seq(S)
      /\ Len(before \o after) = Len(before) + Len(after)
      /\ \A i \in 1..Len(before) + Len(after) :
           (before \o after)[i] = IF i <= Len(before) THEN before[i] ELSE after[i - Len(before)]
  BY <1>4, <1>5, ConcatProperties, Zenon
<1>7. ASSUME NEW i \in 1..Len(s) - 1
      PROVE  (before \o after)[i] = IF i < k THEN s[i] ELSE s[i + 1]
  <2>1. CASE i < k
    BY <2>1, <1>4, <1>5, <1>6
  <2>2. CASE ~(i < k)
    <3>1. i - (k - 1) \in 1..Len(s) - k /\ i - (k - 1) + k = i + 1
      BY <2>2
    <3>2. (before \o after)[i] = after[i - (k - 1)]
      BY <2>2, <1>4, <1>5, <1>6
    <3>3. after[i - (k - 1)] = s[i - (k - 1) + k]
      BY <3>1, <1>5
    <3> QED
      BY <2>2, <3>1, <3>2, <3>3
  <2> QED
    BY <2>1, <2>2
<1> QED
  BY <1>3, <1>4, <1>5, <1>6, <1>7

\* It leaves a sequence alone that does not hold the item.
LEMMA NotRemoved ==
  ASSUME NEW s, NEW e, ~Contains(s, e)
  PROVE  RemoveFirst(s, e) = s
BY DEF Contains, RemoveFirst

\* What RemoveFirst leaves of a sequence without repetition is all but the item.
LEMMA RemovedItems ==
  ASSUME NEW S, NEW s \in Seq(S), IsInjective(s), NEW e
  PROVE  /\ RemoveFirst(s, e) \in Seq(S) /\ IsInjective(RemoveFirst(s, e))
         /\ Range(RemoveFirst(s, e)) = Range(s) \ {e}
         /\ Len(RemoveFirst(s, e)) = IF e \in Range(s) THEN Len(s) - 1 ELSE Len(s)
<1>1. CASE ~Contains(s, e)
  <2>1. e \notin Range(s)
    BY <1>1 DEF Contains, Range
  <2> QED
    BY <1>1, <2>1, NotRemoved
<1>2. CASE Contains(s, e)
  <2>1. PICK k \in 1..Len(s) : s[k] = e
    BY <1>2 DEF Contains
  <2>2. PICK r \in Seq(S) :
          /\ r = RemoveFirst(s, e)
          /\ Len(r) = Len(s) - 1
          /\ \A i \in 1..Len(s) - 1 : r[i] = IF i < k THEN s[i] ELSE s[i + 1]
    BY <2>1, Removed
  <2>3. IsInjective(r)
    <3> SUFFICES ASSUME NEW i \in 1..Len(s) - 1, NEW j \in 1..Len(s) - 1, r[i] = r[j]
                 PROVE  i = j
      BY <2>2 DEF IsInjective
    <3> DEFINE at(n) == IF n < k THEN n ELSE n + 1
    <3>1. at(i) \in 1..Len(s) /\ at(j) \in 1..Len(s)
      OBVIOUS
    <3>2. s[at(i)] = s[at(j)]
      BY <2>2
    <3>3. at(i) = at(j)
      BY <3>1, <3>2 DEF IsInjective
    <3> QED
      BY <3>3
  <2>4. Range(r) \subseteq Range(s) \ {e}
    BY <2>1, <2>2 DEF IsInjective, Range
  <2>5. ASSUME NEW i \in 1..Len(s), s[i] # e
        PROVE  s[i] \in Range(r)
    <3>1. CASE i < k
      BY <2>2, <3>1 DEF Range
    <3>2. CASE i > k
      <4>1. i - 1 \in 1..Len(s) - 1 /\ ~(i - 1 < k) /\ (i - 1) + 1 = i
        BY <3>2
      <4>2. r[i - 1] = s[i]
        BY <2>2, <4>1
      <4> QED
        BY <2>2, <4>1, <4>2 DEF Range
    <3> QED
      BY <2>1, <2>5, <3>1, <3>2
  <2>6. Range(s) \ {e} \subseteq Range(r)
    BY <2>5 DEF Range
  <2>7. e \in Range(s)
    BY <2>1 DEF Range
  <2> QED
    BY <2>2, <2>3, <2>4, <2>6, <2>7
<1> QED
  BY <1>1, <1>2

\* A new item at the end
LEMMA AppendedItems ==
  ASSUME NEW S, NEW s \in Seq(S), IsInjective(s), NEW e \in S, e \notin Range(s)
  PROVE  /\ Append(s, e) \in Seq(S) /\ IsInjective(Append(s, e))
         /\ Range(Append(s, e)) = Range(s) \cup {e}
         /\ Len(Append(s, e)) = Len(s) + 1
<1>1. IsInjective(Append(s, e))
  BY DEF IsInjective, Range
<1>2. Range(Append(s, e)) = Range(s) \cup {e}
  BY DEF Range
<1> QED
  BY <1>1, <1>2

\* All but the first item
LEMMA TailItems ==
  ASSUME NEW S, NEW s \in Seq(S), IsInjective(s), s # <<>>
  PROVE  /\ Tail(s) \in Seq(S) /\ IsInjective(Tail(s))
         /\ Range(Tail(s)) \subseteq Range(s)
         /\ Len(Tail(s)) = Len(s) - 1
<1>1. /\ Tail(s) \in Seq(S) /\ Len(Tail(s)) = Len(s) - 1
      /\ \A i \in 1..Len(s) - 1 : Tail(s)[i] = s[i + 1]
  OBVIOUS
<1>2. IsInjective(Tail(s))
  BY <1>1 DEF IsInjective
<1>3. Range(Tail(s)) \subseteq Range(s)
  BY <1>1 DEF Range
<1> QED
  BY <1>1, <1>2, <1>3

-----------------------------------------------------------------------------
(* Sessions *)

\* What a step does to the sessions and the API token
AuthStep ==
  \/ UNCHANGED authVars
  \/ CreateSession
  \/ \E token : EndSession(token)
  \/ \E token : IsSession(token) /\ sessions' = Used(token) /\ UNCHANGED <<issued, api_token>>
  \/ Regenerate

\* Every step of WebPush is one of those: no session is used that is not valid.
LEMMA NextIsAuthStep == [Next]_vars => AuthStep
<1> SUFFICES ASSUME [Next]_vars PROVE AuthStep
  OBVIOUS
<1> USE DEF AuthStep, authVars
<1>1. CASE UNCHANGED vars
  BY <1>1 DEF vars
<1>2. CASE LogAdd \/ Changes \/ Listener \/ Tick \/ QueueWork \/ FlushBegin \/ FlushKey \/ FlushEnd
  BY <1>2 DEF LogAdd, Changes, Listener, Tick, QueueWork, FlushBegin, FlushKey, FlushEnd
<1>3. CASE Expires
  BY <1>3 DEF Expires
<1>4. CASE RegenerateToken \/ PortalLogin
  BY <1>4 DEF RegenerateToken, PortalLogin
<1>5. ASSUME NEW c \in Pages \cup Clients, FlushOne(c)
      PROVE  AuthStep
  BY <1>5 DEF FlushOne, FlushEvents, FlushWaiting, FlushEnded, FlushPage
<1>6. ASSUME NEW c \in Pages \cup Clients, Close(c) \/ Lost(c)
      PROVE  AuthStep
  BY <1>6 DEF Close, Lost
<1>7. ASSUME NEW p \in Pages, Login(p)
      PROVE  AuthStep
  BY <1>7 DEF Login
<1>8. ASSUME NEW p \in Pages, Logout(p)
      PROVE  AuthStep
  BY <1>8 DEF Logout
<1>9. ASSUME NEW p \in Pages, Connect(p)
      PROVE  AuthStep
  BY <1>9 DEF Connect
<1>10. ASSUME NEW p \in Pages, Hello(p)
       PROVE  AuthStep
  BY <1>10 DEF Hello
<1>11. ASSUME NEW p \in Pages, ServePoll(p) \/ ServeOld(p)
       PROVE  AuthStep
  BY <1>11, Zenon DEF ServePoll, ServeOld, Serves
<1>12. ASSUME NEW p \in Pages,
              PageReads(p) \/ PagePolls(p) \/ PageTakesPoll(p) \/ PageTakesOld(p) \/ PageDrops(p)
       PROVE  AuthStep
  BY <1>12 DEF PageReads, PagePolls, PageTakesPoll, PageTakesOld, PageDrops
<1>13. ASSUME NEW e \in Clients, ConnectEvents(e) \/ ClientReads(e) \/ Minute(e)
       PROVE  AuthStep
  BY <1>13 DEF ConnectEvents, ClientReads, Minute
<1> QED
  BY <1>1, <1>2, <1>3, <1>4, <1>5, <1>6, <1>7, <1>8, <1>9, <1>10, <1>11, <1>12, <1>13 DEF Next

\* No step makes a table of sessions too long, holds a token twice or makes one up.
LEMMA TokensStep ==
  ASSUME Tokens, AuthStep
  PROVE  Tokens'
<1> USE SessionsAssumption DEF Tokens
<1>1. CASE UNCHANGED authVars
  BY <1>1 DEF authVars
<1>2. CASE CreateSession
  <2> DEFINE kept == IF Len(sessions) = MaxSessions THEN Tail(sessions) ELSE sessions
  <2>1. /\ kept \in Seq(Nat) /\ IsInjective(kept) /\ Range(kept) \subseteq Range(sessions)
        /\ Len(kept) < MaxSessions
    BY TailItems
  <2>2. issued + 1 \notin Range(kept) /\ issued + 1 \in Nat
    BY <2>1
  <2> HIDE DEF kept
  <2>3. /\ Append(kept, issued + 1) \in Seq(Nat) /\ IsInjective(Append(kept, issued + 1))
        /\ Range(Append(kept, issued + 1)) = Range(kept) \cup {issued + 1}
        /\ Len(Append(kept, issued + 1)) = Len(kept) + 1
    BY <2>1, <2>2, AppendedItems
  <2>4. sessions' = Append(kept, issued + 1) /\ issued' = issued + 1 /\ api_token' = api_token
    BY <1>2 DEF CreateSession, kept
  <2>5. Range(kept) \cup {issued + 1} \subseteq 1..issued + 1
    BY <2>1
  <2>6. Len(kept) + 1 <= MaxSessions
    BY <2>1
  <2> QED
    BY <2>3, <2>4, <2>5, <2>6
<1>3. ASSUME NEW token, EndSession(token)
      PROVE  Tokens'
  <2>1. /\ sessions' \in Seq(Nat) /\ IsInjective(sessions')
        /\ Range(sessions') \subseteq Range(sessions)
        /\ Len(sessions') <= Len(sessions)
    BY <1>3, RemovedItems DEF EndSession
  <2> QED
    BY <1>3, <2>1 DEF EndSession
<1>4. ASSUME NEW token, IsSession(token), sessions' = Used(token), UNCHANGED <<issued, api_token>>
      PROVE  Tokens'
  <2>1. token \in Range(sessions) /\ token \in Nat
    BY <1>4 DEF IsSession, Contains, Range
  <2> DEFINE r == RemoveFirst(sessions, token)
  <2>2. /\ r \in Seq(Nat) /\ IsInjective(r) /\ Len(r) = Len(sessions) - 1
        /\ Range(r) = Range(sessions) \ {token}
    BY <2>1, RemovedItems
  <2> HIDE DEF r
  <2>3. /\ Append(r, token) \in Seq(Nat) /\ IsInjective(Append(r, token))
        /\ Range(Append(r, token)) = Range(r) \cup {token}
        /\ Len(Append(r, token)) = Len(r) + 1
    BY <2>1, <2>2, AppendedItems
  <2> QED
    BY <1>4, <2>1, <2>2, <2>3 DEF Used, r
<1>5. CASE Regenerate
  BY <1>5 DEF Regenerate
<1> QED
  BY <1>1, <1>2, <1>3, <1>4, <1>5 DEF AuthStep

-----------------------------------------------------------------------------
(* Types *)

\* Messages that are sent keep the sockets and the connections typed.
\* What log_since returns starts behind `after', or where the log was overwritten.
LEMMA UntilTypes ==
  ASSUME head \in Nat, NEW after \in Nat
  PROVE  /\ Until(after).first \in Nat /\ Until(after).last \in Nat
         /\ Until(after).last <= head
         /\ Until(after).first = after + 1 \/ Until(after).first = head - LOG_CAPACITY + 1
BY PushAssumption DEF Until

\* So does the answer to a poll.
LEMMA AnswerTypes ==
  ASSUME Types, NEW poll \in Polls, poll.asked # None
  PROVE  /\ Answer(poll) \in Polls
         /\ Answer(poll).asked \in Nat /\ Answer(poll).to \in Nat /\ Answer(poll).to <= head
         /\ \/ Answer(poll).asked = poll.asked + 1
            \/ Answer(poll).asked = head - LOG_CAPACITY + 1
<1> DEFINE batch == Until(poll.asked)
           answer == [poll EXCEPT !.asked = batch.first, !.to = batch.last, !.svs = svs]
<1>1. poll.asked \in Nat /\ svs \in Known /\ head \in Nat
  BY DEF Types, Polls, Known
<1>2. /\ batch.first \in Nat /\ batch.last \in Nat /\ batch.last <= head
      /\ batch.first = poll.asked + 1 \/ batch.first = head - LOG_CAPACITY + 1
  BY <1>1, UntilTypes
<1>3. Answer(poll) = answer
  BY DEF Answer
<1> HIDE DEF batch
<1>4. answer \in Polls /\ answer.asked = batch.first /\ answer.to = batch.last
  BY <1>1, <1>2 DEF Polls
<1> HIDE DEF answer
<1> QED
  BY <1>2, <1>3, <1>4

\* A connection that is set to one of its type
LEMMA LinkSet ==
  ASSUME LinkTypes, NEW c \in Pages \cup Clients, NEW l \in Links(c), link' = [link EXCEPT ![c] = l]
  PROVE  LinkTypes'
BY DEF LinkTypes

LEMMA SendsToTypes ==
  ASSUME Types, NEW c \in Pages \cup Clients, NEW k \in Socks, NEW messages \in Seq(Messages(c)),
         SendsTo(c, k, messages)
  PROVE  sock' \in [Pages \cup Clients -> Socks] /\ LinkTypes'
<1>1. sock' \in [Pages \cup Clients -> Socks]
  <2>1. [k EXCEPT !.closing = TRUE] \in Socks
    BY DEF Socks
  <2>2. PICK j \in Socks : sock' = [sock EXCEPT ![c] = j]
    BY <2>1 DEF SendsTo
  <2> QED
    BY <2>2 DEF Types
<1>2. CASE UNCHANGED link
  BY <1>1, <1>2 DEF Types, LinkTypes
<1>3. CASE link' = [link EXCEPT ![c].down = IF link[c].up THEN @ \o messages ELSE <<>>]
  <2>1. PICK down \in Seq(Messages(c)) : link' = [link EXCEPT ![c].down = down]
    <3>1. link[c].down \in Seq(Messages(c))
      BY DEF Types, LinkTypes, Links
    <3>2. link[c].down \o messages \in Seq(Messages(c)) /\ <<>> \in Seq(Messages(c))
      BY <3>1
    <3> QED
      BY <1>3, <3>2
  <2>2. link'[c] \in Links(c)
    BY <2>1 DEF Types, LinkTypes, Links
  <2>3. \A d \in Pages \cup Clients : d # c => link'[d] = link[d]
    BY <1>3 DEF Types, LinkTypes
  <2> QED
    BY <1>1, <1>3, <2>2, <2>3 DEF Types, LinkTypes
<1> QED
  BY <1>2, <1>3, <1>1 DEF SendsTo

\* So does the message that a session or a token is not valid any more.
LEMMA TellsAuthTypes ==
  ASSUME Types, NEW c \in Pages \cup Clients, TellsAuth(c)
  PROVE  sock' \in [Pages \cup Clients -> Socks] /\ LinkTypes'
<1>1. sock' \in [Pages \cup Clients -> Socks]
  BY DEF TellsAuth, Types, Socks
<1>2. PICK down \in {link[c].down, Append(link[c].down, AuthMessage)} :
        link' = [link EXCEPT ![c].hello = None, ![c].down = down]
  BY DEF TellsAuth
<1>3. AuthMessage \in Messages(c)
  BY DEF AuthMessage, Messages, PageMessages, ClientMessages
<1>4. down \in Seq(Messages(c))
  <2>1. link[c].down \in Seq(Messages(c))
    BY DEF Types, LinkTypes, Links
  <2> QED
    BY <1>3, <2>1
<1>5. link'[c] \in Links(c)
  BY <1>2, <1>4 DEF Types, LinkTypes, Links
<1>6. \A d \in Pages \cup Clients : d # c => link'[d] = link[d]
  BY <1>2 DEF Types, LinkTypes
<1> QED
  BY <1>1, <1>2, <1>5, <1>6 DEF Types, LinkTypes

\* Every step keeps the types.
LEMMA TypesStep == IInv /\ [Next]_vars => Types'
<1> SUFFICES ASSUME Types, Tokens, Sockets, Cursors, [Next]_vars PROVE Types'
  BY DEF IInv
<1> USE DEF queueVars, sockVars
<1>1. CASE UNCHANGED vars
  BY <1>1 DEF vars, Types, LinkTypes
<1>2. CASE LogAdd \/ Changes
  <2>1. head' \in Nat /\ svs' \in {0, 1}
    BY <1>2 DEF LogAdd, Changes, Types
  <2>2. told' \in BOOLEAN
    BY <1>2, Zenon DEF LogAdd, Changes, Types
  <2> QED
    BY <1>2, <2>1, <2>2 DEF LogAdd, Changes, Types, LinkTypes
<1>3. CASE Listener \/ Tick \/ QueueWork
  <2>1. told' \in BOOLEAN /\ queued' \in BOOLEAN /\ work' \in BOOLEAN /\ queueing' \in BOOLEAN
    BY <1>3, Zenon DEF Listener, Tick, QueueWork, Notify, Types
  <2> QED
    BY <1>3, <2>1 DEF Listener, Tick, QueueWork, Types, LinkTypes
<1>4. CASE FlushBegin \/ FlushKey \/ FlushEnd
  <2>1. NoFlush \in Flushes /\ [NoFlush EXCEPT !.on = TRUE, !.todo = Open] \in Flushes
    BY DEF Flushes, NoFlush, Open, Known, None
  <2>2. [flush EXCEPT !.svs_key = svs] \in Flushes
    BY DEF Types, Flushes, Known
  <2>3. flush' \in Flushes
    BY <1>4, <2>1, <2>2 DEF FlushBegin, FlushKey, FlushEnd
  <2>4. told' \in BOOLEAN /\ queued' \in BOOLEAN /\ work' \in BOOLEAN /\ queueing' \in BOOLEAN
    BY <1>4, Zenon DEF FlushBegin, FlushKey, FlushEnd, Notify, Types, queueVars
  <2> QED
    BY <1>4, <2>3, <2>4 DEF FlushBegin, FlushKey, FlushEnd, Types, LinkTypes
<1>5. CASE Expires \/ RegenerateToken \/ PortalLogin
  BY <1>5 DEF Expires, RegenerateToken, PortalLogin, Types, LinkTypes
<1>6. ASSUME NEW c \in Pages \cup Clients, FlushOne(c)
      PROVE  Types'
  <2> DEFINE k == sock[c]
  <2>0. k \in Socks /\ flush \in Flushes
    BY DEF Types
  <2>1. CASE c \in Clients /\ FlushEvents(c)
    <3>1. ASSUME NEW key \in Known
          PROVE  [k EXCEPT !.ready = TRUE, !.svs = key, !.due = FALSE] \in Socks
      BY <2>0 DEF Socks
    <3>2. flush.svs_key \in Known /\ [flush EXCEPT !.todo = @ \ {c}] \in Flushes
      BY <2>0 DEF Flushes
    <3> DEFINE hello == IF k.ready THEN <<>> ELSE <<[type |-> "hello"]>>
               state == IF flush.svs_key = k.svs /\ ~k.due THEN <<>> ELSE <<[type |-> "state", svs |-> svs]>>
    <3>3. hello \o state \in Seq(Messages(c))
      <4>1. [type |-> "hello"] \in Messages(c) /\ [type |-> "state", svs |-> svs] \in Messages(c)
        BY <2>1, PushAssumption DEF Messages, ClientMessages, Types
      <4>2. hello \in Seq(Messages(c)) /\ state \in Seq(Messages(c))
        BY <4>1
      <4> QED
        BY <4>2
    <3> HIDE DEF hello, state
    <3>4. sock' \in [Pages \cup Clients -> Socks] /\ LinkTypes'
      BY <2>1, <3>1, <3>2, <3>3, SendsToTypes, TellsAuthTypes DEF FlushEvents, hello, state
    <3> QED
      BY <1>6, <2>1, <3>2, <3>4 DEF FlushOne, FlushEvents, Types
  <2>2. CASE c \in Pages /\ ~sock[c].ready /\ FlushWaiting(c)
    <3>1. [flush EXCEPT !.todo = @ \ {c}] \in Flushes
      BY <2>0 DEF Flushes
    <3> QED
      BY <1>6, <2>2, <3>1 DEF FlushOne, FlushWaiting, Types, LinkTypes
  <2>3. CASE c \in Pages /\ sock[c].ready /\ ~IsSession(sock[c].token) /\ FlushEnded(c)
    <3>1. [flush EXCEPT !.todo = @ \ {c}] \in Flushes
      BY <2>0 DEF Flushes
    <3> QED
      BY <1>6, <2>3, <3>1, TellsAuthTypes DEF FlushOne, FlushEnded, Types
  <2>4. CASE c \in Pages /\ sock[c].ready /\ IsSession(sock[c].token) /\ FlushPage(c)
    <3> DEFINE batch == Until(k.log_after)
               now == IF flush.svs = None THEN svs ELSE flush.svs
               news == IF now # k.svs THEN <<[type |-> "svs", svs |-> now]>> ELSE <<>>
               lines == IF head > k.log_after
                        THEN <<[type |-> "log", first |-> batch.first, last |-> batch.last]>> ELSE <<>>
               after == IF lines = <<>> THEN k.log_after ELSE batch.last
               more == flush.more \/ (lines # <<>> /\ batch.last - batch.first + 1 = LOG_BATCH)
    <3>1. batch.first \in Nat /\ batch.last \in Nat
      BY <2>0, UntilTypes DEF Types, Socks
    <3>2. now \in {0, 1}
      BY <2>0 DEF Types, Flushes, Known
    <3>3. news \in Seq(Messages(c)) /\ lines \in Seq(Messages(c))
      <4>1. [type |-> "svs", svs |-> now] \in Messages(c)
        BY <2>4, <3>2 DEF Messages, PageMessages
      <4>2. [type |-> "log", first |-> batch.first, last |-> batch.last] \in Messages(c)
        BY <2>4, <3>1 DEF Messages, PageMessages, Logs
      <4> QED
        BY <4>1, <4>2
    <3>4. after \in Nat
      BY <2>0, <3>1 DEF Socks
    <3>5. more \in BOOLEAN
      BY <2>0 DEF Flushes
    <3>6. FlushPage(c) => /\ SendsTo(c, [k EXCEPT !.svs = now, !.log_after = after], news \o lines)
                          /\ flush' = [flush EXCEPT !.todo = @ \ {c}, !.svs = now, !.more = more]
      BY DEF FlushPage
    <3> HIDE DEF batch, now, news, lines, after, more
    <3>7. [k EXCEPT !.svs = now, !.log_after = after] \in Socks
      BY <2>0, <3>2, <3>4 DEF Socks, Known
    <3>8. [flush EXCEPT !.todo = @ \ {c}, !.svs = now, !.more = more] \in Flushes
      BY <2>0, <3>2, <3>5 DEF Flushes, Known
    <3>9. news \o lines \in Seq(Messages(c))
      BY <3>3
    <3>10. sock' \in [Pages \cup Clients -> Socks] /\ LinkTypes'
      BY <2>4, <3>6, <3>7, <3>9, SendsToTypes
    <3> QED
      BY <1>6, <2>4, <3>6, <3>8, <3>10 DEF FlushOne, Types
  <2> QED
    BY <1>6, <2>1, <2>2, <2>3, <2>4 DEF FlushOne
<1>7. ASSUME NEW c \in Pages \cup Clients, Close(c)
      PROVE  Types'
  <2>1. sock' \in [Pages \cup Clients -> Socks]
    BY <1>7 DEF Close, Types, NoSock, Socks, NoToken, Known, None
  <2>2. order' \in Seq(Clients)
    BY <1>7, RemovedItems DEF Close, Types, Sockets
  <2>3. [link[c] EXCEPT !.up = FALSE, !.hello = None] \in Links(c)
    BY DEF Types, LinkTypes, Links
  <2>4. LinkTypes'
    BY <1>7, <2>3, LinkSet DEF Close, Types
  <2> QED
    BY <1>7, <2>1, <2>2, <2>4 DEF Close, Types
<1>8. ASSUME NEW c \in Pages \cup Clients, Lost(c)
      PROVE  Types'
  <2>1. NoLink \in Links(c)
    BY DEF NoLink, Links
  <2>2. LinkTypes'
    BY <1>8, <2>1, LinkSet DEF Lost, Types
  <2> QED
    BY <1>8, <2>2 DEF Lost, Types
<1>9. NoPoll \in Polls
  BY DEF NoPoll, Polls, Known, None, NoToken
<1>10. ASSUME NEW p \in Pages, Login(p)
      PROVE  Types'
  <2> DEFINE before == IF page[p].poll # NoPoll THEN page[p].poll ELSE page[p].old
  <2>1. [NoPage EXCEPT !.on = TRUE, !.token = issued', !.old = before] \in Shown
    <3>1. issued' \in Nat
      BY <1>10 DEF Login, CreateSession, Tokens
    <3>2. NoPage \in Shown
      BY <1>9 DEF NoPage, NoToken, Shown, Known, None
    <3>3. before \in Polls
      BY DEF Types, Shown
    <3> HIDE DEF before
    <3> QED
      BY <3>1, <3>2, <3>3 DEF Shown
  <2>2. page' \in [Pages -> Shown]
    BY <1>10, <2>1 DEF Login, Types
  <2> QED
    BY <1>10, <2>2 DEF Login, Types, LinkTypes
<1>11. ASSUME NEW p \in Pages, NEW g \in Shown, SignedOut(p, g)
      PROVE  page' \in [Pages -> Shown] /\ LinkTypes'
  <2>1. [g EXCEPT !.on = FALSE, !.ws = "none"] \in Shown
    BY DEF Shown
  <2>2. page' \in [Pages -> Shown]
    BY <1>11, <2>1 DEF SignedOut, Types
  <2>3. NoLink \in Links(p)
    BY DEF NoLink, Links
  <2>4. LinkTypes'
    BY <1>11, <2>3, LinkSet DEF SignedOut, Types
  <2> QED
    BY <2>2, <2>4
<1>12. ASSUME NEW p \in Pages, Logout(p)
       PROVE  Types'
  <2>0. page[p] \in Shown
    BY DEF Types
  <2>1. page' \in [Pages -> Shown] /\ LinkTypes'
    BY <1>11, <1>12, <2>0 DEF Logout, Types, LinkTypes
  <2> QED
    BY <1>12, <2>1 DEF Logout, Types
<1>13. ASSUME NEW p \in Pages, Connect(p)
       PROVE  Types'
  <2>1. page[p] \in Shown /\ [page[p] EXCEPT !.ws = "open"] \in Shown
    BY DEF Types, Shown
  <2>2. page' \in [Pages -> Shown]
    BY <1>13, <2>1 DEF Connect, Types
  <2>3. [NoSock EXCEPT !.open = TRUE, !.token = page[p].token] \in Socks
    BY <2>1 DEF NoSock, Socks, Shown, NoToken, Known, None
  <2>4. sock' \in [Pages \cup Clients -> Socks]
    BY <1>13, <2>3 DEF Connect, Types
  <2>5. [NoLink EXCEPT !.up = TRUE, !.hello = page[p].after] \in Links(p)
    <3>1. NoLink \in Links(p) /\ page[p].after \in Nat
      BY <2>1 DEF NoLink, Links, Shown
    <3> QED
      BY <3>1 DEF Links
  <2>6. LinkTypes'
    BY <1>13, <2>5, LinkSet DEF Connect, Types
  <2> QED
    BY <1>13, <2>2, <2>4, <2>6 DEF Connect, Types
<1>14. ASSUME NEW p \in Pages, Hello(p)
       PROVE  Types'
  <2>1. CASE TellsAuth(p) /\ UNCHANGED <<sessions, queued, queueing>>
    BY <1>14, <2>1, TellsAuthTypes DEF Hello, Types
  <2>2. CASE /\ sock' = [sock EXCEPT ![p].log_after = link[p].hello, ![p].svs = None, ![p].ready = TRUE]
             /\ link' = [link EXCEPT ![p].hello = None]
             /\ Notify
    <3>1. link[p] \in Links(p) /\ [link[p] EXCEPT !.hello = None] \in Links(p)
      BY DEF Types, LinkTypes, Links
    <3>2. [sock[p] EXCEPT !.log_after = link[p].hello, !.svs = None, !.ready = TRUE] \in Socks
      BY <1>14, <3>1 DEF Hello, Links, Types, Socks, Known
    <3>3. sock' \in [Pages \cup Clients -> Socks]
      BY <2>2, <3>2 DEF Types
    <3>4. LinkTypes'
      BY <2>2, <3>1, LinkSet DEF Types
    <3>5. queued' \in BOOLEAN /\ queueing' \in BOOLEAN
      BY <2>2, Zenon DEF Notify, Types
    <3> QED
      BY <1>14, <3>3, <3>4, <3>5 DEF Hello, Types
  <2> QED
    BY <1>14, <2>1, <2>2 DEF Hello
<1>15. ASSUME NEW p \in Pages, ServePoll(p) \/ ServeOld(p)
       PROVE  Types'
  <2>1. page[p] \in Shown /\ page[p].poll \in Polls /\ page[p].old \in Polls
    BY DEF Types, Shown
  <2>2. ASSUME NEW poll, NEW answered \in Shown, NEW without \in Shown, Serves(p, poll, answered, without)
        PROVE  Types'
    <3>1. page' \in [Pages -> Shown] /\ LinkTypes'
      BY <1>11, <2>2 DEF Serves, Types, LinkTypes
    <3> QED
      BY <2>2, <3>1 DEF Serves, Types
  <2>3. CASE ServePoll(p)
    <3>1. Answer(page[p].poll) \in Polls
      BY <2>1, <2>3, AnswerTypes DEF ServePoll, Serves
    <3>2. /\ [page[p] EXCEPT !.poll = Answer(page[p].poll)] \in Shown
          /\ [page[p] EXCEPT !.poll = NoPoll] \in Shown
      BY <1>9, <2>1, <3>1 DEF Shown
    <3> QED
      BY <2>2, <2>3, <3>2 DEF ServePoll
  <2>4. CASE ServeOld(p)
    <3>1. Answer(page[p].old) \in Polls
      BY <2>1, <2>4, AnswerTypes DEF ServeOld, Serves
    <3>2. /\ [page[p] EXCEPT !.old = Answer(page[p].old)] \in Shown
          /\ [page[p] EXCEPT !.old = NoPoll] \in Shown
      BY <1>9, <2>1, <3>1 DEF Shown
    <3> QED
      BY <2>2, <2>4, <3>2 DEF ServeOld
  <2> QED
    BY <1>15, <2>3, <2>4
<1>16. ASSUME NEW g \in Shown, NEW first \in Nat, NEW last \in Nat
       PROVE  Drawn(g, first, last) \in Shown
  <2>1. g.drawn \cup {n \in first..last : n > g.after} \in SUBSET Nat
    BY <1>16 DEF Shown
  <2>2. (IF last > g.after THEN last ELSE g.after) \in Nat
    BY <1>16 DEF Shown
  <2> QED
    BY <1>16, <2>1, <2>2 DEF Drawn, Shown
<1>17. ASSUME NEW p \in Pages, PageReads(p)
       PROVE  Types'
  <2> DEFINE message == Head(link[p].down)
             live == [page[p] EXCEPT !.ws = "live"]
  <2>1. link[p] \in Links(p) /\ link[p].down \in Seq(Messages(p)) /\ link[p].down # <<>>
    BY <1>17 DEF PageReads, Types, LinkTypes, Links
  <2>2. message \in PageMessages /\ Tail(link[p].down) \in Seq(Messages(p))
    BY <2>1 DEF Messages
  <2>3. page[p] \in Shown /\ live \in Shown
    BY DEF Types, Shown
  <2>4. CASE message.type = "auth"
    BY <1>11, <1>17, <2>3, <2>4 DEF PageReads, Types
  <2>5. CASE message.type # "auth"
    <3>1. [link[p] EXCEPT !.down = Tail(@)] \in Links(p)
      BY <2>1, <2>2 DEF Links
    <3>2. LinkTypes'
      BY <1>17, <2>5, <3>1, LinkSet DEF PageReads, Types
    <3>3. message.type = "svs" => [live EXCEPT !.svs = message.svs, !.late = FALSE] \in Shown
      BY <2>2, <2>3 DEF PageMessages, Logs, Shown, Known
    <3>4. message.type # "svs" => Drawn(live, message.first, message.last) \in Shown
      BY <1>16, <2>2, <2>3, <2>5 DEF PageMessages, Logs
    <3>5. page' \in [Pages -> Shown]
      BY <1>17, <2>5, <3>3, <3>4 DEF PageReads, Types
    <3> QED
      BY <1>17, <3>2, <3>5 DEF PageReads, Types
  <2> QED
    BY <2>4, <2>5
<1>18. ASSUME NEW g \in Shown, NEW poll \in Polls, poll.asked # None, poll.to # None
       PROVE  Taken(g, poll) \in Shown
  <2>1. poll.asked \in Nat /\ poll.to \in Nat /\ poll.svs \in Known
    BY <1>18 DEF Polls
  <2>2. Drawn(g, poll.asked, poll.to) \in Shown
    BY <1>16, <2>1
  <2> QED
    BY <2>1, <2>2 DEF Taken, Shown
<1>22. ASSUME NEW p \in Pages, PagePolls(p) \/ PageTakesPoll(p) \/ PageTakesOld(p) \/ PageDrops(p)
       PROVE  Types'
  <2>1. page[p] \in Shown /\ page[p].poll \in Polls /\ page[p].old \in Polls
    BY DEF Types, Shown
  <2>2. PagePolls(p) => page' \in [Pages -> Shown]
    <3> DEFINE poll == [NoPoll EXCEPT !.asked = page[p].after, !.token = page[p].token]
    <3>1. poll \in Polls
      BY <1>9, <2>1 DEF Shown, Polls
    <3>2. PagePolls(p) => page' = [page EXCEPT ![p].poll = poll]
      BY DEF PagePolls
    <3> HIDE DEF poll
    <3>3. [page[p] EXCEPT !.poll = poll] \in Shown
      BY <2>1, <3>1 DEF Shown
    <3> QED
      BY <3>2, <3>3 DEF Types
  <2>3. PageDrops(p) => page' \in [Pages -> Shown]
    <3>1. [page[p] EXCEPT !.ws = "none"] \in Shown
      BY <2>1 DEF Shown
    <3> QED
      BY <3>1 DEF PageDrops, Types
  <2>4. PageTakesPoll(p) => page' \in [Pages -> Shown]
    <3> SUFFICES ASSUME PageTakesPoll(p) PROVE page' \in [Pages -> Shown]
      OBVIOUS
    <3>1. page[p].poll.asked # None /\ page[p].poll.to # None
      BY DEF PageTakesPoll, Cursors, Cursor, PollWell
    <3>2. Taken(page[p], page[p].poll) \in Shown
      BY <1>18, <2>1, <3>1
    <3>3. [Taken(page[p], page[p].poll) EXCEPT !.poll = NoPoll] \in Shown
      BY <1>9, <3>2 DEF Shown
    <3> QED
      BY <3>3 DEF PageTakesPoll, Types
  <2>5. PageTakesOld(p) => page' \in [Pages -> Shown]
    <3> SUFFICES ASSUME PageTakesOld(p) PROVE page' \in [Pages -> Shown]
      OBVIOUS
    <3>1. page[p].old.asked # None /\ page[p].old.to # None
      BY DEF PageTakesOld, Cursors, Cursor, OldWell
    <3>2. Taken(page[p], page[p].old) \in Shown
      BY <1>18, <2>1, <3>1
    <3>3. [Taken(page[p], page[p].old) EXCEPT !.old = NoPoll, !.mixed = TRUE] \in Shown
      BY <1>9, <3>2 DEF Shown
    <3> QED
      BY <3>3 DEF PageTakesOld, Types
  <2> QED
    BY <1>22, <2>2, <2>3, <2>4, <2>5 DEF PagePolls, PageTakesPoll, PageTakesOld, PageDrops, Types, LinkTypes
<1>19. ASSUME NEW e \in Clients, ConnectEvents(e)
       PROVE  Types'
  <2>1. Room \in [Pages \cup Clients -> Socks]
    BY DEF Room, Types, Socks
  <2>2. [NoSock EXCEPT !.open = TRUE, !.token = api_token] \in Socks
    BY DEF NoSock, Socks, NoToken, Known, None, Tokens
  <2>3. sock' \in [Pages \cup Clients -> Socks] /\ order' \in Seq(Clients)
    BY <1>19, <2>1, <2>2 DEF ConnectEvents, Types
  <2>4. [link[e] EXCEPT !.up = TRUE] \in Links(e)
    BY DEF Types, LinkTypes, Links
  <2>5. LinkTypes'
    BY <1>19, <2>4, LinkSet DEF ConnectEvents, Types
  <2> QED
    BY <1>19, <2>3, <2>5 DEF ConnectEvents, Types
<1>20. ASSUME NEW e \in Clients, ClientReads(e)
       PROVE  Types'
  <2>1. link[e] \in Links(e) /\ link[e].down \in Seq(Messages(e)) /\ link[e].down # <<>>
    BY <1>20 DEF ClientReads, Types, LinkTypes, Links
  <2>2. Tail(link[e].down) \in Seq(Messages(e))
    BY <2>1
  <2>3. [link[e] EXCEPT !.down = Tail(@)] \in Links(e)
    BY <2>1, <2>2 DEF Links
  <2>4. LinkTypes'
    BY <1>20, <2>3, LinkSet DEF ClientReads, Types
  <2> QED
    BY <1>20, <2>4 DEF ClientReads, Types
<1>21. ASSUME NEW e \in Clients, Minute(e)
       PROVE  Types'
  BY <1>21 DEF Minute, Types, LinkTypes, Socks
<1> QED
  BY <1>1, <1>2, <1>3, <1>4, <1>5, <1>6, <1>7, <1>8, <1>10, <1>12, <1>13, <1>14, <1>15, <1>17, <1>19, <1>20,
     <1>21, <1>22 DEF Next

-----------------------------------------------------------------------------
(* The queue and the sockets *)

\* Every step leaves one pending run of ws_flush at most, and marked.
LEMMA QueueStep == IInv /\ [Next]_vars => Queue'
<1> SUFFICES ASSUME Types, Queue, [Next]_vars PROVE Queue'
  BY DEF IInv
<1> USE DEF queueVars, Queue, Types
<1>1. CASE UNCHANGED <<queued, work, queueing>>
  BY <1>1
<1>2. CASE QueueWork
  <2>1. CASE work' = TRUE /\ queued' = queued
    BY <1>2, <2>1, Zenon DEF QueueWork
  <2>2. CASE queued' = FALSE /\ work' = work
    BY <1>2, <2>2, Zenon DEF QueueWork
  <2> QED
    BY <1>2, <2>1, <2>2, Zenon DEF QueueWork
<1>3. CASE FlushBegin
  BY <1>3 DEF FlushBegin
<1>4. CASE UNCHANGED work /\ Notify
  BY <1>4 DEF Notify
<1>5. ASSUME NEW c \in Pages \cup Clients, FlushOne(c) \/ Close(c) \/ Lost(c)
      PROVE  Queue'
  BY <1>1, <1>5, Zenon DEF FlushOne, Close, Lost
<1>6. ASSUME NEW p \in Pages, Hello(p)
      PROVE  Queue'
  BY <1>1, <1>4, <1>6, Zenon DEF Hello
<1>7. ASSUME NEW p \in Pages,
             Login(p) \/ Logout(p) \/ Connect(p) \/ PageReads(p) \/ PagePolls(p) \/ PageTakesPoll(p)
               \/ PageTakesOld(p) \/ PageDrops(p)
      PROVE  Queue'
  BY <1>1, <1>7, Zenon DEF Login, Logout, Connect, PageReads, PagePolls, PageTakesPoll, PageTakesOld, PageDrops
<1>11. ASSUME NEW p \in Pages, ServePoll(p) \/ ServeOld(p)
       PROVE  Queue'
  BY <1>1, <1>11, Zenon DEF ServePoll, ServeOld, Serves
<1>8. ASSUME NEW e \in Clients, ConnectEvents(e) \/ ClientReads(e) \/ Minute(e)
      PROVE  Queue'
  BY <1>1, <1>8, Zenon DEF ConnectEvents, ClientReads, Minute
<1>9. CASE LogAdd \/ Changes \/ FlushKey \/ Expires \/ RegenerateToken \/ PortalLogin \/ UNCHANGED vars
  BY <1>1, <1>9, Zenon DEF LogAdd, Changes, FlushKey, Expires, RegenerateToken, PortalLogin, vars
<1>10. CASE Listener \/ Tick \/ FlushEnd
  BY <1>1, <1>4, <1>10, Zenon DEF Listener, Tick, FlushEnd
<1> QED
  BY <1>2, <1>3, <1>5, <1>6, <1>7, <1>8, <1>9, <1>10, <1>11 DEF Next

\* A step that opens and closes nothing and puts nothing on the flush's list
LEMMA SocketsKept ==
  ASSUME Sockets, order' = order, flush'.todo \subseteq flush.todo,
         \A c \in Pages \cup Clients : sock'[c].open = sock[c].open,
         flush'.on = flush.on \/ flush'.todo = {}
  PROVE  Sockets'
BY DEF Sockets, Open

\* What is sent, or told, opens and closes no socket.
LEMMA SendingKeepsOpen ==
  ASSUME Types, NEW c \in Pages \cup Clients,
         \/ TellsAuth(c)
         \/ \E k \in Socks : \E messages : k.open = sock[c].open /\ SendsTo(c, k, messages)
  PROVE  \A d \in Pages \cup Clients : sock'[d].open = sock[d].open
<1>1. ASSUME NEW k \in Socks, k.open = sock[c].open, sock' = [sock EXCEPT ![c] = k]
      PROVE  \A d \in Pages \cup Clients : sock'[d].open = sock[d].open
  BY <1>1 DEF Types
<1>2. CASE TellsAuth(c)
  <2>1. [sock[c] EXCEPT !.closing = TRUE] \in Socks /\ [sock[c] EXCEPT !.closing = TRUE].open = sock[c].open
    BY DEF Types, Socks
  <2> QED
    BY <1>1, <1>2, <2>1 DEF TellsAuth
<1>3. ASSUME NEW k \in Socks, NEW messages, k.open = sock[c].open, SendsTo(c, k, messages)
      PROVE  \A d \in Pages \cup Clients : sock'[d].open = sock[d].open
  <2>1. [k EXCEPT !.closing = TRUE] \in Socks /\ [k EXCEPT !.closing = TRUE].open = sock[c].open
    BY <1>3 DEF Socks
  <2> QED
    BY <1>1, <1>3, <2>1 DEF SendsTo
<1> QED
  BY <1>2, <1>3

\* Every step leaves the flush's list and the order of the events clients right.
LEMMA SocketsStep == IInv /\ [Next]_vars => Sockets'
<1> SUFFICES ASSUME Types, Sockets, Tokens, [Next]_vars PROVE Sockets'
  BY DEF IInv
<1> USE DEF sockVars
<1>1. CASE UNCHANGED <<sockVars, flush>>
  BY <1>1, SocketsKept
<1>2. CASE LogAdd \/ Changes \/ Listener \/ Tick \/ QueueWork \/ Expires \/ RegenerateToken \/ PortalLogin
             \/ UNCHANGED vars
  BY <1>1, <1>2, Zenon DEF LogAdd, Changes, Listener, Tick, QueueWork, Expires, RegenerateToken, PortalLogin, vars
<1>3. CASE FlushBegin
  BY <1>3 DEF FlushBegin, Sockets, Open, NoFlush
<1>4. CASE FlushKey \/ FlushEnd
  BY <1>4, SocketsKept DEF FlushKey, FlushEnd, NoFlush, Types, Flushes
<1>5. ASSUME NEW c \in Pages \cup Clients, FlushOne(c)
      PROVE  Sockets'
  <2>0. sock[c] \in Socks /\ flush \in Flushes
    BY DEF Types
  <2>1. flush'.on = flush.on /\ flush'.todo = flush.todo \ {c}
    <3>1. CASE FlushEvents(c) \/ FlushWaiting(c) \/ FlushEnded(c)
      BY <2>0, <3>1 DEF FlushEvents, FlushWaiting, FlushEnded, Flushes
    <3>2. CASE FlushPage(c)
      BY <2>0, <3>2 DEF FlushPage, Flushes
    <3> QED
      BY <1>5, <3>1, <3>2 DEF FlushOne
  <2>2. \A d \in Pages \cup Clients : sock'[d].open = sock[d].open
    <3>1. CASE FlushEvents(c)
      <4>1. [sock[c] EXCEPT !.ready = TRUE, !.svs = flush.svs_key, !.due = FALSE] \in Socks
        BY <2>0 DEF Socks, Flushes
      <4>2. [sock[c] EXCEPT !.ready = TRUE, !.svs = flush.svs_key, !.due = FALSE].open = sock[c].open
        BY <2>0 DEF Socks
      <4> QED
        BY <3>1, <4>1, <4>2, SendingKeepsOpen DEF FlushEvents
    <3>2. CASE FlushWaiting(c)
      BY <3>2 DEF FlushWaiting
    <3>3. CASE FlushEnded(c)
      BY <3>3, SendingKeepsOpen DEF FlushEnded
    <3>4. CASE FlushPage(c)
      <4>1. PICK now, after, messages : SendsTo(c, [sock[c] EXCEPT !.svs = now, !.log_after = after], messages)
        BY <3>4, Zenon DEF FlushPage
      <4> DEFINE k == [sock[c] EXCEPT !.svs = now, !.log_after = after]
      <4>2. k.open = sock[c].open /\ [k EXCEPT !.closing = TRUE].open = sock[c].open
        BY <2>0 DEF Socks
      <4> HIDE DEF k
      <4>3. PICK j \in {k, [k EXCEPT !.closing = TRUE]} : sock' = [sock EXCEPT ![c] = j]
        BY <4>1 DEF SendsTo, k
      <4> QED
        BY <4>2, <4>3 DEF Types
    <3> QED
      BY <1>5, <3>1, <3>2, <3>3, <3>4 DEF FlushOne
  <2> QED
    BY <1>5, <2>1, <2>2, SocketsKept DEF FlushOne
<1>6. ASSUME NEW c \in Pages \cup Clients, Close(c)
      PROVE  Sockets'
  <2>1. flush' = flush /\ flush.todo = {}
    BY <1>6 DEF Close, Sockets
  <2>2. Open' = Open \ {c}
    BY <1>6 DEF Close, Open, Types, NoSock
  <2>3. IsInjective(order') /\ Range(order') = Range(order) \ {c}
    BY <1>6, RemovedItems DEF Close, Types, Sockets
  <2> QED
    BY <2>1, <2>2, <2>3 DEF Sockets
<1>7. ASSUME NEW c \in Pages \cup Clients, Lost(c)
      PROVE  Sockets'
  BY <1>1, <1>7, Zenon DEF Lost
<1>8. ASSUME NEW p \in Pages,
             Login(p) \/ Logout(p) \/ PageReads(p) \/ PagePolls(p) \/ PageTakesPoll(p) \/ PageTakesOld(p)
               \/ PageDrops(p)
      PROVE  Sockets'
  BY <1>1, <1>8, Zenon DEF Login, Logout, PageReads, PagePolls, PageTakesPoll, PageTakesOld, PageDrops
<1>14. ASSUME NEW p \in Pages, ServePoll(p) \/ ServeOld(p)
       PROVE  Sockets'
  BY <1>1, <1>14, Zenon DEF ServePoll, ServeOld, Serves
<1>9. ASSUME NEW p \in Pages, Connect(p)
      PROVE  Sockets'
  <2>1. order' = order /\ flush' = flush /\ flush.todo = {}
    BY <1>9 DEF Connect, Sockets
  <2>2. Open' = Open \cup {p}
    BY <1>9 DEF Connect, Open, Types, NoSock
  <2> QED
    BY <2>1, <2>2, PushAssumption DEF Sockets
<1>10. ASSUME NEW p \in Pages, Hello(p)
       PROVE  Sockets'
  <2>1. \A d \in Pages \cup Clients : sock'[d].open = sock[d].open
    <3>1. CASE TellsAuth(p)
      BY <3>1, SendingKeepsOpen
    <3>2. CASE sock' = [sock EXCEPT ![p].log_after = link[p].hello, ![p].svs = None, ![p].ready = TRUE]
      BY <3>2 DEF Types, Socks
    <3> QED
      BY <1>10, <3>1, <3>2 DEF Hello
  <2> QED
    BY <1>10, <2>1, SocketsKept DEF Hello
<1>11. ASSUME NEW e \in Clients, ConnectEvents(e)
       PROVE  Sockets'
  <2>1. flush' = flush /\ flush.todo = {}
    BY <1>11 DEF ConnectEvents, Sockets
  <2>2. Open' = Open \cup {e} /\ e \notin Open
    BY <1>11 DEF ConnectEvents, Room, Open, Types, NoSock, Socks
  <2>3. e \notin Range(order)
    BY <2>2 DEF Sockets
  <2>4. IsInjective(order') /\ Range(order') = Range(order) \cup {e}
    BY <1>11, <2>3, AppendedItems DEF ConnectEvents, Types, Sockets
  <2> QED
    BY <2>1, <2>2, <2>4 DEF Sockets
<1>12. ASSUME NEW e \in Clients, ClientReads(e)
       PROVE  Sockets'
  BY <1>1, <1>12, Zenon DEF ClientReads
<1>13. ASSUME NEW e \in Clients, Minute(e)
       PROVE  Sockets'
  BY <1>13, SocketsKept DEF Minute, Types, Socks
<1> QED
  BY <1>2, <1>3, <1>4, <1>5, <1>6, <1>7, <1>8, <1>9, <1>10, <1>11, <1>12, <1>13, <1>14 DEF Next

-----------------------------------------------------------------------------
(* What a page draws *)

\* What is covered stays so when messages are added and the page draws more.
LEMMA CoversGrows ==
  ASSUME NEW after \in Nat, NEW more \in Nat, after <= more, NEW down, NEW longer,
         NEW k \in Nat, NEW m \in Nat, NEW n \in Int, k <= m, Covers(after, down, k, n),
         \A j \in 1..k : longer[j] = down[j]
  PROVE  Covers(more, longer, m, n)
BY DEF Covers

\* What is right for a log stays so when it grows, and when the page draws more.
LEMMA DrawnGrows ==
  ASSUME NEW h \in Nat, NEW k \in Nat, h <= k, NEW g \in Shown, DrawnWell(h, g)
  PROVE  DrawnWell(k, g)
BY PushAssumption DEF DrawnWell, Shown

LEMMA DownGrows ==
  ASSUME NEW h \in Nat, NEW k \in Nat, h <= k, NEW after \in Nat, NEW more \in Nat, after <= more,
         NEW down \in Seq(PageMessages), DownWell(h, after, down)
  PROVE  DownWell(k, more, down)
<1> SUFFICES ASSUME NEW i \in DOMAIN down, down[i].type = "log"
             PROVE  /\ down[i].last <= k
                    /\ \/ down[i].first <= k - LOG_CAPACITY + 1
                       \/ Covers(more, down, i - 1, down[i].first - 1)
  BY DEF DownWell
<1>1. down[i] \in PageMessages /\ i \in 1..Len(down)
  OBVIOUS
<1>2. down[i].first \in Nat /\ down[i].last \in Nat
  BY <1>1 DEF PageMessages, Logs
<1>3. Covers(after, down, i - 1, down[i].first - 1) => Covers(more, down, i - 1, down[i].first - 1)
  BY <1>1, <1>2 DEF Covers
<1>4. /\ down[i].last <= h
      /\ down[i].first <= h - LOG_CAPACITY + 1 \/ Covers(after, down, i - 1, down[i].first - 1)
  BY DEF DownWell
<1> QED
  BY <1>2, <1>3, <1>4, PushAssumption

LEMMA PollGrows ==
  ASSUME NEW h \in Nat, NEW k \in Nat, h <= k, NEW after \in Nat, NEW more \in Nat, after <= more,
         NEW poll \in Polls, PollWell(h, after, poll)
  PROVE  PollWell(k, more, poll)
BY PushAssumption DEF PollWell, Polls, None

LEMMA OldGrows ==
  ASSUME NEW h \in Nat, NEW k \in Nat, h <= k, NEW poll \in Polls, OldWell(h, poll)
  PROVE  OldWell(k, poll)
BY DEF OldWell, Polls, None

\* The types of what a page shows and of its connection
LEMMA PageTypes ==
  ASSUME Types, NEW p \in Pages
  PROVE  /\ head \in Nat /\ p \in Pages \cup Clients
         /\ page[p] \in Shown /\ page[p].after \in Nat /\ page[p].poll \in Polls /\ page[p].old \in Polls
         /\ link[p] \in Links(p) /\ link[p].hello \in Nat \cup {None}
         /\ link[p].down \in Seq(PageMessages) /\ Len(link[p].down) \in Nat
         /\ sock[p] \in Socks /\ sock[p].log_after \in Nat
<1>1. link[p] \in Links(p) /\ Messages(p) = PageMessages
  BY DEF Types, LinkTypes, Messages
<1>2. link[p].down \in Seq(PageMessages)
  BY <1>1 DEF Links
<1> QED
  BY <1>1, <1>2 DEF Types, Links, Shown, Socks

\* A step that leaves a page, its connection and its socket's place in the log alone
LEMMA CursorKept ==
  ASSUME Types, head' \in Nat, head <= head', NEW p \in Pages, Cursor(p),
         page'[p] = page[p], link'[p] = link[p],
         sock'[p].ready => sock[p].ready /\ sock'[p].log_after = sock[p].log_after
  PROVE  Cursor(p)'
<1>1. /\ DrawnWell(head', page[p]) /\ DownWell(head', page[p].after, link[p].down)
      /\ PollWell(head', page[p].after, page[p].poll) /\ OldWell(head', page[p].old)
  BY PageTypes, DrawnGrows, DownGrows, PollGrows, OldGrows DEF Cursor
<1> QED
  BY <1>1 DEF Cursor

\* Messages that start where the socket stands are right behind those under way.
LEMMA DownSends ==
  ASSUME NEW h \in Nat, NEW after \in Nat, NEW from \in Nat,
         NEW down \in Seq(PageMessages), NEW messages \in Seq(PageMessages),
         DownWell(h, after, down), Covers(after, down, Len(down), from),
         \A i \in DOMAIN messages : messages[i].type = "log" =>
           /\ messages[i].last <= h
           /\ messages[i].first = from + 1 \/ messages[i].first = h - LOG_CAPACITY + 1
  PROVE  DownWell(h, after, down \o messages)
<1> DEFINE longer == down \o messages
<1>1. /\ longer \in Seq(PageMessages) /\ Len(longer) = Len(down) + Len(messages)
      /\ DOMAIN longer = 1..Len(longer)
      /\ \A i \in 1..Len(down) : longer[i] = down[i]
      /\ \A i \in Len(down) + 1..Len(down) + Len(messages) : longer[i] = messages[i - Len(down)]
  OBVIOUS
<1> HIDE DEF longer
<1> SUFFICES ASSUME NEW i \in 1..Len(longer), longer[i].type = "log"
             PROVE  /\ longer[i].last <= h
                    /\ \/ longer[i].first <= h - LOG_CAPACITY + 1
                       \/ Covers(after, longer, i - 1, longer[i].first - 1)
  <2>1. DownWell(h, after, longer)
    BY <1>1 DEF DownWell
  <2> QED
    BY <2>1 DEF longer
<1>2. longer[i].first \in Nat /\ longer[i].last \in Nat
  BY <1>1 DEF PageMessages, Logs
<1>3. CASE i \in 1..Len(down)
  <2>1. ASSUME Covers(after, down, i - 1, down[i].first - 1)
        PROVE  Covers(after, longer, i - 1, longer[i].first - 1)
    <3>1. /\ i - 1 \in Nat /\ after <= after /\ i - 1 <= i - 1 /\ longer[i].first - 1 \in Int
          /\ longer[i] = down[i] /\ \A j \in 1..i - 1 : longer[j] = down[j]
      BY <1>1, <1>2, <1>3
    <3>2. Covers(after, down, i - 1, longer[i].first - 1)
      BY <2>1, <3>1
    <3> QED
      BY <3>1, <3>2 DEF Covers
  <2>2. /\ down[i].last <= h
        /\ down[i].first <= h - LOG_CAPACITY + 1 \/ Covers(after, down, i - 1, down[i].first - 1)
    <3>1. i \in DOMAIN down /\ down[i].type = "log"
      BY <1>1, <1>3
    <3> QED
      BY <3>1 DEF DownWell
  <2>3. longer[i] = down[i]
    BY <1>1, <1>3
  <2> QED
    BY <2>1, <2>2, <2>3
<1>4. CASE i \in Len(down) + 1..Len(down) + Len(messages)
  <2>1. i - Len(down) \in DOMAIN messages /\ longer[i] = messages[i - Len(down)]
    BY <1>1, <1>4
  <2>2. Covers(after, longer, i - 1, from)
    <3>1. /\ Len(down) \in Nat /\ i - 1 \in Nat /\ after <= after /\ Len(down) <= i - 1 /\ from \in Int
      BY <1>4
    <3> QED
      BY <1>1, <3>1 DEF Covers
  <2>3. longer[i].first = from + 1 => longer[i].first - 1 = from
    BY <1>2
  <2> QED
    BY <1>2, <2>1, <2>2, <2>3, PushAssumption
<1> QED
  BY <1>1, <1>3, <1>4

\* A page that reads the first message has what the others rely on.
LEMMA DownReads ==
  ASSUME NEW h \in Nat, NEW after \in Nat, NEW more \in Nat, after <= more,
         NEW down \in Seq(PageMessages), down # <<>>, DownWell(h, after, down),
         Head(down).type = "log" => Head(down).last <= more
  PROVE  /\ DownWell(h, more, Tail(down))
         /\ \A n \in Int : Covers(after, down, Len(down), n) => Covers(more, Tail(down), Len(Tail(down)), n)
<1> DEFINE rest == Tail(down)
<1>1. /\ rest \in Seq(PageMessages) /\ Len(rest) = Len(down) - 1
      /\ \A i \in 1..Len(rest) : rest[i] = down[i + 1]
      /\ Head(down) = down[1] /\ down[1] \in PageMessages
  OBVIOUS
<1> HIDE DEF rest
<1>2. ASSUME NEW k \in 1..Len(down), NEW n \in Int, Covers(after, down, k, n)
      PROVE  Covers(more, rest, k - 1, n)
  <2>1. CASE n <= after
    BY <2>1 DEF Covers
  <2>2. ASSUME NEW j \in 1..k, down[j].type = "log", n <= down[j].last
        PROVE  Covers(more, rest, k - 1, n)
    <3>1. down[j] \in PageMessages /\ down[j].last \in Nat
      BY <2>2 DEF PageMessages, Logs
    <3>2. CASE j = 1
      BY <1>1, <2>2, <3>1, <3>2 DEF Covers
    <3>3. CASE j # 1
      <4>1. j - 1 \in 1..k - 1 /\ rest[j - 1] = down[j]
        BY <1>1, <3>3
      <4> QED
        BY <2>2, <4>1 DEF Covers
    <3> QED
      BY <3>2, <3>3
  <2> QED
    BY <1>2, <2>1, <2>2 DEF Covers
<1>3. DownWell(h, more, rest)
  <2> SUFFICES ASSUME NEW i \in 1..Len(rest), rest[i].type = "log"
               PROVE  /\ rest[i].last <= h
                      /\ \/ rest[i].first <= h - LOG_CAPACITY + 1
                         \/ Covers(more, rest, i - 1, rest[i].first - 1)
    BY <1>1 DEF DownWell
  <2>1. i + 1 \in 1..Len(down) /\ rest[i] = down[i + 1] /\ (i + 1) - 1 = i
    BY <1>1
  <2>2. /\ rest[i].last <= h /\ rest[i].first \in Nat
        /\ rest[i].first <= h - LOG_CAPACITY + 1 \/ Covers(after, down, i, rest[i].first - 1)
    <3>1. rest[i] \in PageMessages
      BY <1>1
    <3>2. rest[i].first \in Nat /\ rest[i].last \in Nat
      BY <3>1 DEF PageMessages, Logs
    <3>3. /\ down[i + 1].last <= h
          /\ \/ down[i + 1].first <= h - LOG_CAPACITY + 1
             \/ Covers(after, down, i, down[i + 1].first - 1)
      BY <2>1 DEF DownWell
    <3> QED
      BY <2>1, <3>2, <3>3
  <2>3. i \in 1..Len(down) /\ rest[i].first - 1 \in Int
    BY <1>1, <2>2
  <2> QED
    BY <1>2, <2>2, <2>3
<1>4. ASSUME NEW n \in Int, Covers(after, down, Len(down), n)
      PROVE  Covers(more, rest, Len(rest), n)
  BY <1>1, <1>2, <1>4
<1> QED
  BY <1>3, <1>4 DEF rest

\* A page that draws lines which follow those it has, or what was overwritten
LEMMA Draws ==
  ASSUME NEW h \in Nat, NEW g \in Shown, NEW first \in Nat, NEW last \in Nat, DrawnWell(h, g), last <= h,
         first <= h - LOG_CAPACITY + 1 \/ first <= g.after + 1
  PROVE  /\ DrawnWell(h, Drawn(g, first, last))
         /\ Drawn(g, first, last) \in Shown
         /\ Drawn(g, first, last).on = g.on /\ Drawn(g, first, last).mixed = g.mixed
         /\ Drawn(g, first, last).poll = g.poll /\ Drawn(g, first, last).old = g.old
         /\ g.after <= Drawn(g, first, last).after /\ last <= Drawn(g, first, last).after
<1> DEFINE drawn == g.drawn \cup {n \in first..last : n > g.after}
           after == IF last > g.after THEN last ELSE g.after
           d == [g EXCEPT !.drawn = drawn, !.after = after]
<1>1. /\ drawn \in SUBSET Nat /\ after \in Nat /\ g.after \in Nat
      /\ g.after <= after /\ last <= after /\ after <= h
  BY DEF Shown, DrawnWell
<1>2. ASSUME g.on, ~g.mixed, NEW n \in 1..after
      PROVE  n \in drawn \/ n <= h - LOG_CAPACITY
  BY <1>1, <1>2, PushAssumption DEF DrawnWell
<1>3. Drawn(g, first, last) = d
  BY DEF Drawn
<1> HIDE DEF drawn, after
<1>4. /\ d \in Shown /\ d.on = g.on /\ d.mixed = g.mixed /\ d.poll = g.poll /\ d.old = g.old
      /\ d.after = after /\ d.drawn = drawn
  BY <1>1 DEF Shown
<1> HIDE DEF d
<1>5. DrawnWell(h, d)
  BY <1>1, <1>2, <1>4 DEF DrawnWell
<1> QED
  BY <1>1, <1>3, <1>4, <1>5

\* A page that draws any lines of the log
LEMMA DrawsAny ==
  ASSUME NEW h \in Nat, NEW g \in Shown, NEW first \in Nat, NEW last \in Nat, g.after <= h, last <= h
  PROVE  /\ Drawn(g, first, last) \in Shown
         /\ Drawn(g, first, last).on = g.on /\ Drawn(g, first, last).poll = g.poll
         /\ g.after <= Drawn(g, first, last).after /\ Drawn(g, first, last).after <= h
<1> DEFINE drawn == g.drawn \cup {n \in first..last : n > g.after}
           after == IF last > g.after THEN last ELSE g.after
           d == [g EXCEPT !.drawn = drawn, !.after = after]
<1>1. drawn \in SUBSET Nat /\ after \in Nat /\ g.after <= after /\ after <= h
  BY DEF Shown
<1>2. Drawn(g, first, last) = d
  BY DEF Drawn
<1> HIDE DEF drawn, after
<1>3. d \in Shown /\ d.on = g.on /\ d.poll = g.poll /\ d.after = after
  BY <1>1 DEF Shown
<1> QED
  BY <1>1, <1>2, <1>3

\* What a flush does to a page that is ready: messages that start at its socket's place in
\* the log, which is then behind the last of them.
LEMMA FlushedPage ==
  ASSUME Types, NEW p \in Pages, FlushPage(p)
  PROVE  \E messages \in Seq(PageMessages), k \in Socks :
           /\ SendsTo(p, k, messages)
           /\ k.ready = sock[p].ready /\ k.open = sock[p].open
           /\ k.log_after <= head \/ k.log_after = sock[p].log_after
           /\ \/ k.log_after = sock[p].log_after
              \/ /\ Len(messages) > 0 /\ messages[Len(messages)].type = "log"
                 /\ messages[Len(messages)].last = k.log_after
           /\ \A i \in DOMAIN messages : messages[i].type = "log" =>
                /\ messages[i].last <= head
                /\ \/ messages[i].first = sock[p].log_after + 1
                   \/ messages[i].first = head - LOG_CAPACITY + 1
<1> DEFINE batch == Until(sock[p].log_after)
           now == IF flush.svs = None THEN svs ELSE flush.svs
           line == [type |-> "log", first |-> batch.first, last |-> batch.last]
           status == [type |-> "svs", svs |-> now]
           news == IF now # sock[p].svs THEN <<status>> ELSE <<>>
           lines == IF head > sock[p].log_after THEN <<line>> ELSE <<>>
           after == IF lines = <<>> THEN sock[p].log_after ELSE batch.last
           k == [sock[p] EXCEPT !.svs = now, !.log_after = after]
<1>1. /\ sock[p] \in Socks /\ sock[p].log_after \in Nat /\ sock[p].open \in BOOLEAN
      /\ flush \in Flushes /\ head \in Nat
  BY DEF Types, Socks
<1>2. /\ batch.first \in Nat /\ batch.last \in Nat /\ batch.last <= head
      /\ batch.first = sock[p].log_after + 1 \/ batch.first = head - LOG_CAPACITY + 1
  BY <1>1, UntilTypes
<1>3. now \in {0, 1}
  BY <1>1 DEF Types, Flushes, Known
<1>4. SendsTo(p, k, news \o lines)
  BY DEF FlushPage
<1> HIDE DEF batch, now
<1>5. /\ line \in PageMessages /\ line.type = "log" /\ line.first = batch.first /\ line.last = batch.last
      /\ status \in PageMessages /\ status.type # "log"
  BY <1>2, <1>3 DEF PageMessages, Logs
<1> HIDE DEF line, status
<1>6. /\ after \in Nat /\ (after <= head \/ after = sock[p].log_after)
      /\ after = sock[p].log_after \/ (lines = <<line>> /\ after = batch.last)
  BY <1>1, <1>2
<1> HIDE DEF after
<1>7. k \in Socks /\ k.ready = sock[p].ready /\ k.open = sock[p].open /\ k.log_after = after
  BY <1>1, <1>3, <1>6 DEF Socks, Known
<1> HIDE DEF k
<1>8. PICK messages \in {<<>>, <<status>>, <<line>>, <<status, line>>} :
        /\ messages = news \o lines
        /\ lines = <<line>> => messages \in {<<line>>, <<status, line>>}
  OBVIOUS
<1>9. messages \in Seq(PageMessages)
  BY <1>5, <1>8
<1>10. \A i \in DOMAIN messages : messages[i] = status \/ messages[i] = line
  BY <1>8
<1>11. ASSUME lines = <<line>>
       PROVE  Len(messages) > 0 /\ messages[Len(messages)] = line
  <2>1. CASE messages = <<line>>
    BY <2>1
  <2>2. CASE messages = <<status, line>>
    BY <2>2
  <2> QED
    BY <1>8, <1>11, <2>1, <2>2
<1> HIDE DEF lines, news
<1> QED
  BY <1>2, <1>4, <1>5, <1>6, <1>7, <1>8, <1>9, <1>10, <1>11

\* Every step keeps the sockets behind the log.
LEMMA PlacesStep == IInv /\ [Next]_vars => Places'
<1> SUFFICES ASSUME Types, Cursors, Places, [Next]_vars PROVE Places'
  BY DEF IInv
<1> USE DEF sockVars
<1>0. head \in Nat /\ \A c \in Pages \cup Clients : sock[c] \in Socks /\ sock[c].log_after \in Nat
  BY DEF Types, Socks
<1>1. CASE UNCHANGED <<sock, head>>
  BY <1>1 DEF Places
<1>2. CASE Changes \/ Listener \/ Tick \/ QueueWork \/ FlushBegin \/ FlushKey \/ FlushEnd \/ Expires
             \/ RegenerateToken \/ PortalLogin \/ UNCHANGED vars
  BY <1>1, <1>2, Zenon DEF Changes, Listener, Tick, QueueWork, FlushBegin, FlushKey, FlushEnd, Expires,
                           RegenerateToken, PortalLogin, vars
<1>3. CASE LogAdd
  BY <1>0, <1>3 DEF LogAdd, Places
<1>4. ASSUME NEW c \in Pages \cup Clients, NEW k, head' = head,
             k.log_after <= head, sock' = [sock EXCEPT ![c] = k]
      PROVE  Places'
  BY <1>4 DEF Places, Types
<1>5. ASSUME NEW c \in Pages \cup Clients, TellsAuth(c), head' = head
      PROVE  Places'
  BY <1>0, <1>4, <1>5 DEF TellsAuth, Socks, Places
<1>6. ASSUME NEW c \in Pages \cup Clients, NEW k \in Socks, NEW messages, k.log_after <= head,
             SendsTo(c, k, messages), head' = head
      PROVE  Places'
  BY <1>4, <1>6 DEF SendsTo, Socks
<1>7. ASSUME NEW c \in Pages \cup Clients, FlushOne(c)
      PROVE  Places'
  <2>1. CASE FlushEvents(c)
    <3>1. [sock[c] EXCEPT !.ready = TRUE, !.svs = flush.svs_key, !.due = FALSE] \in Socks
      BY <1>0 DEF Types, Socks, Flushes
    <3>2. [sock[c] EXCEPT !.ready = TRUE, !.svs = flush.svs_key, !.due = FALSE].log_after <= head
      BY <1>0 DEF Places, Socks
    <3> QED
      BY <1>5, <1>6, <1>7, <2>1, <3>1, <3>2 DEF FlushOne, FlushEvents
  <2>2. CASE FlushWaiting(c)
    BY <1>1, <1>7, <2>2 DEF FlushOne, FlushWaiting
  <2>3. CASE FlushEnded(c)
    BY <1>5, <1>7, <2>3 DEF FlushOne, FlushEnded
  <2>4. CASE c \in Pages /\ FlushPage(c)
    <3>1. PICK messages \in Seq(PageMessages), k \in Socks :
            SendsTo(c, k, messages) /\ (k.log_after <= head \/ k.log_after = sock[c].log_after)
      BY <2>4, FlushedPage
    <3> QED
      BY <1>6, <1>7, <3>1 DEF FlushOne, Places
  <2> QED
    BY <1>7, <2>1, <2>2, <2>3, <2>4 DEF FlushOne
<1>8. ASSUME NEW c \in Pages \cup Clients, Close(c)
      PROVE  Places'
  <2>1. NoSock.log_after <= head
    BY <1>0 DEF NoSock
  <2> QED
    BY <1>4, <1>8, <2>1 DEF Close
<1>9. ASSUME NEW c \in Pages \cup Clients, Lost(c)
      PROVE  Places'
  BY <1>1, <1>9, Zenon DEF Lost
<1>10. ASSUME NEW p \in Pages,
              Login(p) \/ Logout(p) \/ PageReads(p) \/ PagePolls(p) \/ PageTakesPoll(p) \/ PageTakesOld(p)
                \/ PageDrops(p)
       PROVE  Places'
  BY <1>1, <1>10, Zenon DEF Login, Logout, PageReads, PagePolls, PageTakesPoll, PageTakesOld, PageDrops
<1>16. ASSUME NEW p \in Pages, ServePoll(p) \/ ServeOld(p)
       PROVE  Places'
  BY <1>1, <1>16, Zenon DEF ServePoll, ServeOld, Serves
<1>11. ASSUME NEW p \in Pages, Connect(p)
       PROVE  Places'
  <2>1. [NoSock EXCEPT !.open = TRUE, !.token = page[p].token].log_after <= head
    BY <1>0 DEF NoSock
  <2> QED
    BY <1>4, <1>11, <2>1 DEF Connect
<1>12. ASSUME NEW p \in Pages, Hello(p)
       PROVE  Places'
  <2>1. CASE TellsAuth(p)
    BY <1>5, <1>12, <2>1 DEF Hello
  <2>2. CASE sock' = [sock EXCEPT ![p].log_after = link[p].hello, ![p].svs = None, ![p].ready = TRUE]
    <3>1. link[p].hello <= head
      BY <1>12, PageTypes DEF Hello, Cursors, Cursor, DrawnWell, None
    <3>2. [sock[p] EXCEPT !.log_after = link[p].hello, !.svs = None, !.ready = TRUE].log_after <= head
      BY <1>0, <3>1 DEF Socks
    <3>3. sock' = [sock EXCEPT ![p] = [sock[p] EXCEPT !.log_after = link[p].hello, !.svs = None, !.ready = TRUE]]
      BY <2>2 DEF Types
    <3> QED
      BY <1>4, <1>12, <3>2, <3>3 DEF Hello
  <2> QED
    BY <1>12, <2>1, <2>2 DEF Hello
<1>13. ASSUME NEW e \in Clients, ConnectEvents(e)
       PROVE  Places'
  <2>1. Room \in [Pages \cup Clients -> Socks] /\ \A c \in Pages \cup Clients : Room[c].log_after <= head
    BY DEF Room, Places, Types, Socks
  <2>2. [NoSock EXCEPT !.open = TRUE, !.token = api_token].log_after <= head
    BY <1>0 DEF NoSock
  <2>3. sock' = [Room EXCEPT ![e] = [NoSock EXCEPT !.open = TRUE, !.token = api_token]] /\ head' = head
    BY <1>13 DEF ConnectEvents
  <2> QED
    BY <2>1, <2>2, <2>3 DEF Places
<1>14. ASSUME NEW e \in Clients, ClientReads(e)
       PROVE  Places'
  BY <1>1, <1>14, Zenon DEF ClientReads
<1>15. ASSUME NEW e \in Clients, Minute(e)
       PROVE  Places'
  BY <1>0, <1>4, <1>15 DEF Minute, Places, Socks
<1> QED
  BY <1>2, <1>3, <1>7, <1>8, <1>9, <1>10, <1>11, <1>12, <1>13, <1>14, <1>15, <1>16
  DEF Next

\* A page that is told that its session has ended
LEMMA ToldPage ==
  ASSUME Types, NEW p \in Pages, Cursor(p), TellsAuth(p), head' = head, page' = page
  PROVE  Cursor(p)'
<1> DEFINE down == link[p].down
<1>1. /\ sock'[p].ready = sock[p].ready /\ sock'[p].log_after = sock[p].log_after
      /\ link'[p].hello = None /\ link'[p].up = link[p].up
  BY PageTypes DEF TellsAuth, Types, LinkTypes, Socks, Links
<1>2. link'[p].down = down \/ (link[p].up /\ link'[p].down = Append(down, AuthMessage))
  BY PageTypes DEF TellsAuth, Types, LinkTypes, Links
<1>3. link[p] = NoLink => link'[p] = NoLink
  <2> SUFFICES ASSUME link[p] = NoLink PROVE link'[p] = NoLink
    OBVIOUS
  <2>1. ~link[p].up /\ down = <<>> /\ link[p].hello = None
    BY DEF NoLink
  <2>2. link' = [link EXCEPT ![p].hello = None, ![p].down = down]
    BY <2>1 DEF TellsAuth
  <2>3. link'[p] = [link[p] EXCEPT !.hello = None, !.down = down]
    BY <2>2 DEF Types, LinkTypes
  <2> QED
    BY <2>1, <2>3 DEF NoLink
<1>4. CASE link'[p].down = down
  BY <1>1, <1>3, <1>4, Zenon DEF Cursor
<1>5. CASE link[p].up /\ link'[p].down = Append(down, AuthMessage)
  <2> DEFINE longer == Append(down, AuthMessage)
  <2>1. /\ Len(longer) = Len(down) + 1 /\ DOMAIN longer = 1..Len(down) + 1 /\ DOMAIN down = 1..Len(down)
        /\ longer[Len(down) + 1].type # "log"
        /\ Len(down) \in Nat
        /\ \A i \in 1..Len(down) : longer[i] = down[i]
    BY PageTypes DEF AuthMessage
  <2> HIDE DEF longer
  <2>2. \A k \in 0..Len(down) : \A n : Covers(page[p].after, down, k, n) => Covers(page[p].after, longer, k, n)
    BY <2>1 DEF Covers
  <2>3. \A n : Covers(page[p].after, down, Len(down), n) => Covers(page[p].after, longer, Len(longer), n)
    BY <2>1 DEF Covers
  <2>4. DownWell(head, page[p].after, longer)
    <3> SUFFICES ASSUME NEW i \in 1..Len(down), longer[i].type = "log"
                 PROVE  /\ longer[i].last <= head
                        /\ \/ longer[i].first <= head - LOG_CAPACITY + 1
                           \/ Covers(page[p].after, longer, i - 1, longer[i].first - 1)
      BY <2>1 DEF DownWell
    <3>1. longer[i] = down[i] /\ i - 1 \in 0..Len(down)
      BY <2>1
    <3>2. /\ down[i].last <= head
          /\ \/ down[i].first <= head - LOG_CAPACITY + 1
             \/ Covers(page[p].after, down, i - 1, down[i].first - 1)
      BY <2>1, <3>1 DEF Cursor, DownWell
    <3> QED
      BY <2>2, <3>1, <3>2
  <2>5. page[p].on
    BY <1>5 DEF Cursor, NoLink
  <2> QED
    BY <1>1, <1>5, <2>3, <2>4, <2>5 DEF Cursor, longer
<1> QED
  BY <1>2, <1>4, <1>5

\* A page that is sent what is new
LEMMA FlushedCursor ==
  ASSUME Types, NEW p \in Pages, Cursor(p), sock[p].ready, FlushPage(p), head' = head, page' = page
  PROVE  Cursor(p)'
<1> DEFINE down == link[p].down
<1>1. PICK messages \in Seq(PageMessages), k \in Socks :
        /\ SendsTo(p, k, messages)
        /\ k.ready = sock[p].ready
        /\ \/ k.log_after = sock[p].log_after
           \/ /\ Len(messages) > 0 /\ messages[Len(messages)].type = "log"
              /\ messages[Len(messages)].last = k.log_after
        /\ \A i \in DOMAIN messages : messages[i].type = "log" =>
             /\ messages[i].last <= head
             /\ messages[i].first = sock[p].log_after + 1 \/ messages[i].first = head - LOG_CAPACITY + 1
  BY FlushedPage
<1>2. CASE ~link[p].up
  <2>1. /\ link'[p].up = FALSE /\ link'[p].hello = link[p].hello
        /\ link'[p].down = down \/ link'[p].down = <<>>
        /\ link[p] = NoLink => link'[p] = NoLink
    <3>1. CASE link' = link
      BY <1>2, <3>1, PageTypes DEF Links
    <3>2. CASE link' = [link EXCEPT ![p].down = <<>>]
      <4>1. link'[p] = [link[p] EXCEPT !.down = <<>>]
        BY <3>2 DEF Types, LinkTypes
      <4>2. link'[p].up = FALSE /\ link'[p].hello = link[p].hello /\ link'[p].down = <<>>
        BY <1>2, <4>1, PageTypes DEF Links
      <4> QED
        BY <4>1, <4>2 DEF NoLink
    <3> QED
      BY <1>1, <1>2, <3>1, <3>2 DEF SendsTo
  <2>2. DownWell(head, page[p].after, link'[p].down)
    BY <2>1 DEF Cursor, DownWell
  <2> QED
    BY <2>1, <2>2 DEF Cursor
<1>3. CASE link[p].up
  <2>1. sock'[p] = k
    BY <1>1, <1>3 DEF SendsTo, Types
  <2>2. /\ link'[p].up = link[p].up /\ link'[p].hello = link[p].hello
        /\ link'[p].down = down \o messages
    <3>1. link' = [link EXCEPT ![p].down = down \o messages]
      BY <1>1, <1>3 DEF SendsTo
    <3>2. link'[p] = [link[p] EXCEPT !.down = down \o messages]
      BY <3>1 DEF Types, LinkTypes
    <3> QED
      BY <3>2, PageTypes DEF Links
  <2>3. page[p].on /\ Covers(page[p].after, down, Len(down), sock[p].log_after)
    BY <1>3 DEF Cursor, NoLink
  <2>4. DownWell(head, page[p].after, down \o messages)
    BY <1>1, <2>3, PageTypes, DownSends DEF Cursor
  <2> DEFINE longer == down \o messages
  <2>5. /\ Len(longer) = Len(down) + Len(messages) /\ Len(down) \in Nat /\ Len(messages) \in Nat
        /\ \A i \in 1..Len(down) : longer[i] = down[i]
        /\ Len(messages) > 0 => longer[Len(longer)] = messages[Len(messages)]
    BY PageTypes
  <2> HIDE DEF longer
  <2>6. Covers(page[p].after, longer, Len(longer), k.log_after)
    <3>1. CASE k.log_after = sock[p].log_after
      BY <2>3, <2>5, <3>1 DEF Covers
    <3>2. CASE /\ Len(messages) > 0 /\ messages[Len(messages)].type = "log"
               /\ messages[Len(messages)].last = k.log_after
      <4>1. k.log_after <= k.log_after /\ Len(longer) \in 1..Len(longer)
        BY <2>5, <3>2 DEF Socks
      <4> QED
        BY <2>5, <3>2, <4>1 DEF Covers
    <3> QED
      BY <1>1, <3>1, <3>2
  <2> QED
    BY <2>1, <2>2, <2>3, <2>4, <2>6 DEF Cursor, longer
<1> QED
  BY <1>2, <1>3

\* A page that is signed out
LEMMA SignedOutCursor ==
  ASSUME Types, NEW p \in Pages, Cursor(p), NEW g \in Shown, g.after = page[p].after,
         PollWell(head, g.after, g.poll), OldWell(head, g.old),
         SignedOut(p, g), head' = head, sock' = sock
  PROVE  Cursor(p)'
<1>1. page'[p] = [g EXCEPT !.on = FALSE, !.ws = "none"] /\ link'[p] = NoLink
  BY DEF SignedOut, Types, LinkTypes
<1>2. /\ page'[p].on = FALSE /\ page'[p].after = page[p].after
      /\ page'[p].poll = g.poll /\ page'[p].old = g.old
  BY <1>1 DEF Shown
<1>3. DrawnWell(head', page'[p])
  BY <1>2 DEF Cursor, DrawnWell
<1>4. DownWell(head', page'[p].after, <<>>)
  BY DEF DownWell
<1> QED
  BY <1>1, <1>2, <1>3, <1>4 DEF Cursor, NoLink

\* Every step keeps what the pages rely on.
LEMMA CursorsStep == IInv /\ [Next]_vars => Cursors'
<1> SUFFICES ASSUME Types, Cursors, Places, Sockets, [Next]_vars, NEW p \in Pages
             PROVE  Cursor(p)'
  BY DEF IInv, Cursors
<1> USE DEF sockVars
<1>0. Cursor(p)
  BY DEF Cursors
<1>1. CASE UNCHANGED <<head, sock, link, page>>
  BY <1>0, <1>1, Zenon DEF Cursor
<1>2. ASSUME head' = head, page'[p] = page[p], link'[p] = link[p], sock'[p] = sock[p]
      PROVE  Cursor(p)'
  BY <1>0, <1>2, Zenon DEF Cursor
<1>3. CASE Changes \/ Listener \/ Tick \/ QueueWork \/ FlushBegin \/ FlushKey \/ FlushEnd \/ Expires
             \/ RegenerateToken \/ PortalLogin \/ UNCHANGED vars
  BY <1>1, <1>3, Zenon DEF Changes, Listener, Tick, QueueWork, FlushBegin, FlushKey, FlushEnd, Expires,
                           RegenerateToken, PortalLogin, vars
<1>4. CASE LogAdd
  <2>1. head' \in Nat /\ head <= head'
    BY <1>4 DEF LogAdd, Types
  <2> QED
    BY <1>0, <1>4, <2>1, CursorKept DEF LogAdd
<1>5. ASSUME NEW c \in Pages \cup Clients, FlushOne(c)
      PROVE  Cursor(p)'
  <2>0. head' = head /\ page' = page
    BY <1>5 DEF FlushOne
  <2>1. CASE c # p
    <3>1. sock'[p] = sock[p] /\ link'[p] = link[p]
      <4>1. CASE FlushEvents(c)
        BY <2>1, <4>1 DEF FlushEvents, TellsAuth, SendsTo, Types, LinkTypes
      <4>2. CASE FlushWaiting(c)
        BY <4>2 DEF FlushWaiting
      <4>3. CASE FlushEnded(c)
        BY <2>1, <4>3 DEF FlushEnded, TellsAuth, Types, LinkTypes
      <4>4. CASE FlushPage(c)
        BY <2>1, <4>4 DEF FlushPage, SendsTo, Types, LinkTypes
      <4> QED
        BY <1>5, <4>1, <4>2, <4>3, <4>4 DEF FlushOne
    <3> QED
      BY <1>2, <2>0, <3>1
  <2>2. CASE c = p
    <3>1. CASE FlushWaiting(p)
      BY <1>1, <2>0, <3>1 DEF FlushWaiting
    <3>2. CASE FlushEnded(p)
      BY <1>0, <2>0, <3>2, ToldPage DEF FlushEnded
    <3>3. CASE sock[p].ready /\ FlushPage(p)
      BY <1>0, <2>0, <3>3, FlushedCursor
    <3> QED
      BY <1>5, <2>2, <3>1, <3>2, <3>3, PushAssumption DEF FlushOne
  <2> QED
    BY <2>1, <2>2
<1>6. ASSUME NEW c \in Pages \cup Clients, Close(c)
      PROVE  Cursor(p)'
  <2>1. CASE c # p
    BY <1>2, <1>6, <2>1 DEF Close, Types, LinkTypes
  <2>2. CASE c = p
    <3>1. link'[p] = [link[p] EXCEPT !.up = FALSE, !.hello = None]
      BY <1>6, <2>2 DEF Close, Types, LinkTypes
    <3>2. link'[p].up = FALSE /\ link'[p].hello = None /\ link'[p].down = link[p].down
      BY <3>1, PageTypes DEF Links
    <3>3. ASSUME link[p] = NoLink
          PROVE  link'[p] = NoLink
      <4>1. link[p].up = FALSE /\ link[p].hello = None
        BY <3>3 DEF NoLink
      <4>2. link'[p] = [link[p] EXCEPT !.up = link[p].up, !.hello = link[p].hello]
        BY <3>1, <4>1
      <4> QED
        BY <3>3, <4>2, PageTypes DEF NoLink
    <3> QED
      BY <1>0, <1>6, <3>2, <3>3 DEF Close, Cursor
  <2> QED
    BY <2>1, <2>2
<1>7. ASSUME NEW c \in Pages \cup Clients, Lost(c)
      PROVE  Cursor(p)'
  <2>1. CASE c # p
    BY <1>2, <1>7, <2>1 DEF Lost, Types, LinkTypes
  <2>2. CASE c = p
    <3>1. link'[p] = NoLink
      BY <1>7, <2>2 DEF Lost, Types, LinkTypes
    <3>2. DownWell(head, page[p].after, <<>>)
      BY DEF DownWell
    <3> QED
      BY <1>0, <1>7, <3>1, <3>2 DEF Lost, Cursor, NoLink
  <2> QED
    BY <2>1, <2>2
<1>8. ASSUME NEW q \in Pages, Login(q)
      PROVE  Cursor(p)'
  <2>1. CASE q # p
    BY <1>2, <1>8, <2>1 DEF Login, Types
  <2>2. CASE q = p
    <3> DEFINE before == IF page[p].poll # NoPoll THEN page[p].poll ELSE page[p].old
    <3>1. page'[p] = [NoPage EXCEPT !.on = TRUE, !.token = issued', !.old = before]
      BY <1>8, <2>2 DEF Login, Types
    <3>2. OldWell(head, before)
      BY <1>0 DEF Cursor, PollWell, OldWell
    <3> HIDE DEF before
    <3>3. page'[p].after = 0 /\ page'[p].poll = NoPoll /\ page'[p].on /\ page'[p].old = before
      BY <3>1 DEF NoPage
    <3>4. link'[p] = NoLink /\ head' = head
      BY <1>0, <1>8, <2>2 DEF Login, Cursor
    <3>5. /\ DrawnWell(head, page'[p]) /\ DownWell(head, 0, <<>>) /\ PollWell(head, 0, NoPoll)
      BY <3>3, PageTypes DEF DrawnWell, DownWell, PollWell, NoPoll
    <3> QED
      BY <3>2, <3>3, <3>4, <3>5 DEF Cursor, NoLink
  <2> QED
    BY <2>1, <2>2
<1>9. ASSUME NEW q \in Pages, NEW g \in Shown, g.after = page[q].after,
             PollWell(head, g.after, g.poll), OldWell(head, g.old),
             SignedOut(q, g), head' = head, sock' = sock
      PROVE  Cursor(p)'
  <2>1. CASE q # p
    BY <1>2, <1>9, <2>1 DEF SignedOut, Types, LinkTypes
  <2>2. CASE q = p
    BY <1>0, <1>9, <2>2, SignedOutCursor
  <2> QED
    BY <2>1, <2>2
<1>20. ASSUME NEW q \in Pages, SignedOut(q, page[q]), head' = head, sock' = sock
       PROVE  Cursor(p)'
  <2>1. page[q] \in Shown /\ PollWell(head, page[q].after, page[q].poll) /\ OldWell(head, page[q].old)
    BY PageTypes DEF Cursors, Cursor
  <2> QED
    BY <1>9, <1>20, <2>1
<1>10. ASSUME NEW q \in Pages, Logout(q)
       PROVE  Cursor(p)'
  BY <1>1, <1>10, <1>20 DEF Logout
<1>11. ASSUME NEW q \in Pages, Connect(q)
       PROVE  Cursor(p)'
  <2>1. CASE q # p
    BY <1>2, <1>11, <2>1 DEF Connect, Types, LinkTypes
  <2>2. CASE q = p
    <3>1. page'[p] = [page[p] EXCEPT !.ws = "open"] /\ page[p].on
      BY <1>11, <2>2 DEF Connect, Types
    <3>2. /\ page'[p].on /\ page'[p].after = page[p].after /\ page'[p].drawn = page[p].drawn
          /\ page'[p].poll = page[p].poll /\ page'[p].old = page[p].old /\ page'[p].mixed = page[p].mixed
      BY <3>1, PageTypes DEF Shown
    <3>3. link'[p].hello = page[p].after /\ link'[p].down = <<>>
      BY <1>11, <2>2 DEF Connect, Types, LinkTypes, NoLink
    <3>4. sock'[p].ready = FALSE
      BY <1>11, <2>2 DEF Connect, Types, NoSock
    <3>5. DrawnWell(head, page'[p]) /\ DownWell(head, page[p].after, <<>>)
      BY <1>0, <3>1, <3>2 DEF Cursor, DrawnWell, DownWell
    <3>6. page'[p].after <= page'[p].after /\ head' = head
      BY <1>11, <3>2, PageTypes DEF Connect
    <3> QED
      BY <1>0, <3>2, <3>3, <3>4, <3>5, <3>6 DEF Cursor
  <2> QED
    BY <2>1, <2>2
<1>12. ASSUME NEW q \in Pages, Hello(q)
       PROVE  Cursor(p)'
  <2>0. head' = head /\ page' = page
    BY <1>12 DEF Hello
  <2>1. CASE q # p
    BY <1>2, <1>12, <2>0, <2>1 DEF Hello, TellsAuth, Types, LinkTypes
  <2>2. CASE q = p /\ TellsAuth(p)
    BY <1>0, <2>0, <2>2, ToldPage
  <2>3. CASE /\ q = p
             /\ sock' = [sock EXCEPT ![p].log_after = link[p].hello, ![p].svs = None, ![p].ready = TRUE]
             /\ link' = [link EXCEPT ![p].hello = None]
    <3>1. link[p].hello <= page[p].after /\ page[p].on
      BY <1>0, <1>12, <2>3 DEF Hello, Cursor, NoLink
    <3>2. sock'[p].log_after = link[p].hello
      BY <2>3, PageTypes DEF Types, Socks
    <3>3. link'[p] = [link[p] EXCEPT !.hello = None]
      BY <2>3 DEF Types, LinkTypes
    <3>4. link'[p].hello = None /\ link'[p].down = link[p].down
      BY <3>3, PageTypes DEF Links
    <3>5. Covers(page[p].after, link[p].down, Len(link[p].down), sock'[p].log_after)
      BY <3>1, <3>2 DEF Covers
    <3> QED
      BY <1>0, <2>0, <3>1, <3>4, <3>5 DEF Cursor
  <2> QED
    BY <1>12, <2>1, <2>2, <2>3 DEF Hello
<1>13. ASSUME NEW q \in Pages, ServePoll(q)
       PROVE  Cursor(p)'
  <2> DEFINE poll == page[q].poll
             without == [page[q] EXCEPT !.poll = NoPoll]
  <2>0. /\ head' = head /\ sock' = sock
        /\ poll.asked # None /\ poll.to = None
        /\ \/ page' = [page EXCEPT ![q] = [page[q] EXCEPT !.poll = Answer(poll)]] /\ link' = link
           \/ SignedOut(q, without)
    BY <1>13, Zenon DEF ServePoll, Serves, sockVars
  <2>1. CASE SignedOut(q, without)
    <3>1. without \in Shown /\ without.after = page[q].after /\ without.poll = NoPoll
          /\ without.old = page[q].old
      <4>1. NoPoll \in Polls
        BY DEF NoPoll, Polls, Known, None, NoToken
      <4> QED
        BY <4>1, PageTypes DEF Shown
    <3>2. PollWell(head, without.after, NoPoll) /\ OldWell(head, page[q].old)
      BY DEF PollWell, NoPoll, Cursors, Cursor
    <3> HIDE DEF without
    <3> QED
      BY <1>9, <2>0, <2>1, <3>1, <3>2
  <2>2. CASE q # p /\ page' = [page EXCEPT ![q] = [page[q] EXCEPT !.poll = Answer(poll)]] /\ link' = link
    BY <1>2, <2>0, <2>2 DEF Types
  <2>3. CASE q = p /\ page' = [page EXCEPT ![q] = [page[q] EXCEPT !.poll = Answer(poll)]] /\ link' = link
    <3>1. /\ Answer(poll).asked \in Nat /\ Answer(poll).to \in Nat /\ Answer(poll).to <= head
          /\ Answer(poll).asked = poll.asked + 1 \/ Answer(poll).asked = head - LOG_CAPACITY + 1
          /\ poll.asked \in Nat /\ Answer(poll) \in Polls
      BY <2>0, AnswerTypes, PageTypes DEF Polls
    <3>2. poll.asked <= page[p].after
      BY <1>0, <2>0, <2>3 DEF Cursor, PollWell
    <3>3. PollWell(head, page[p].after, Answer(poll))
      BY <3>1, <3>2, PageTypes, PushAssumption DEF PollWell, None
    <3>4. page'[p] = [page[p] EXCEPT !.poll = Answer(poll)]
      BY <2>3 DEF Types
    <3>5. /\ page'[p].on = page[p].on /\ page'[p].after = page[p].after /\ page'[p].drawn = page[p].drawn
          /\ page'[p].poll = Answer(poll) /\ page'[p].old = page[p].old /\ page'[p].mixed = page[p].mixed
      BY <3>4, PageTypes DEF Shown
    <3>6. DrawnWell(head, page'[p])
      BY <1>0, <3>5 DEF Cursor, DrawnWell
    <3> QED
      BY <1>0, <2>0, <2>3, <3>3, <3>5, <3>6 DEF Cursor
  <2> QED
    BY <2>0, <2>1, <2>2, <2>3
<1>21. ASSUME NEW q \in Pages, ServeOld(q)
       PROVE  Cursor(p)'
  <2> DEFINE poll == page[q].old
             without == [page[q] EXCEPT !.old = NoPoll]
  <2>0. /\ head' = head /\ sock' = sock
        /\ poll.asked # None /\ poll.to = None
        /\ \/ page' = [page EXCEPT ![q] = [page[q] EXCEPT !.old = Answer(poll)]] /\ link' = link
           \/ SignedOut(q, without)
    BY <1>21, Zenon DEF ServeOld, Serves, sockVars
  <2>1. CASE SignedOut(q, without)
    <3>1. without \in Shown /\ without.after = page[q].after /\ without.poll = page[q].poll
          /\ without.old = NoPoll
      <4>1. NoPoll \in Polls
        BY DEF NoPoll, Polls, Known, None, NoToken
      <4> QED
        BY <4>1, PageTypes DEF Shown
    <3>2. PollWell(head, page[q].after, page[q].poll) /\ OldWell(head, NoPoll)
      BY DEF OldWell, NoPoll, Cursors, Cursor
    <3> HIDE DEF without
    <3> QED
      BY <1>9, <2>0, <2>1, <3>1, <3>2
  <2>2. CASE q # p /\ page' = [page EXCEPT ![q] = [page[q] EXCEPT !.old = Answer(poll)]] /\ link' = link
    BY <1>2, <2>0, <2>2 DEF Types
  <2>3. CASE q = p /\ page' = [page EXCEPT ![q] = [page[q] EXCEPT !.old = Answer(poll)]] /\ link' = link
    <3>1. /\ Answer(poll).asked \in Nat /\ Answer(poll).to <= head /\ Answer(poll) \in Polls
      BY <2>0, AnswerTypes, PageTypes
    <3>2. OldWell(head, Answer(poll))
      BY <3>1 DEF OldWell, None
    <3>3. page'[p] = [page[p] EXCEPT !.old = Answer(poll)]
      BY <2>3 DEF Types
    <3>4. /\ page'[p].on = page[p].on /\ page'[p].after = page[p].after /\ page'[p].drawn = page[p].drawn
          /\ page'[p].poll = page[p].poll /\ page'[p].old = Answer(poll) /\ page'[p].mixed = page[p].mixed
      BY <3>1, <3>3, PageTypes DEF Shown
    <3>5. DrawnWell(head, page'[p])
      BY <1>0, <3>4 DEF Cursor, DrawnWell
    <3> QED
      BY <1>0, <2>0, <2>3, <3>2, <3>4, <3>5 DEF Cursor
  <2> QED
    BY <2>0, <2>1, <2>2, <2>3
<1>14. ASSUME NEW q \in Pages, PageReads(q)
       PROVE  Cursor(p)'
  <2>0. head' = head /\ sock' = sock
    BY <1>14 DEF PageReads
  <2>1. CASE SignedOut(q, page[q])
    BY <1>20, <2>0, <2>1
  <2>2. CASE q # p /\ ~SignedOut(q, page[q])
    BY <1>2, <1>14, <2>0, <2>2 DEF PageReads, Types, LinkTypes
  <2>3. CASE q = p /\ ~SignedOut(q, page[q])
    <3> DEFINE down == link[p].down
               message == Head(down)
               live == [page[p] EXCEPT !.ws = "live"]
    <3>1. /\ page[p].on /\ down # <<>> /\ down \in Seq(PageMessages) /\ message.type # "auth"
          /\ message \in PageMessages /\ message = down[1] /\ 1 \in DOMAIN down
      BY <1>14, <2>3, PageTypes DEF PageReads
    <3>2. link'[p] = [link[p] EXCEPT !.down = Tail(down)]
      BY <1>14, <2>3 DEF PageReads, Types, LinkTypes
    <3>3. /\ link'[p].down = Tail(down) /\ link'[p].up = link[p].up /\ link'[p].hello = link[p].hello
      BY <3>2, PageTypes DEF Links
    <3>4. page'[p] = IF message.type = "svs" THEN [live EXCEPT !.svs = message.svs, !.late = FALSE]
                     ELSE Drawn(live, message.first, message.last)
      BY <1>14, <2>3 DEF PageReads, Types
    <3>5. /\ live \in Shown /\ live.on = page[p].on /\ live.after = page[p].after
          /\ live.drawn = page[p].drawn /\ live.poll = page[p].poll /\ live.old = page[p].old
          /\ live.mixed = page[p].mixed
      BY PageTypes DEF Shown
    <3>6. DrawnWell(head, live)
      BY <1>0, <3>5 DEF Cursor, DrawnWell
    <3> HIDE DEF live
    <3>7. /\ page'[p].on /\ page'[p].poll = page[p].poll /\ page'[p].old = page[p].old
          /\ DrawnWell(head, page'[p])
          /\ page'[p].after \in Nat /\ page[p].after <= page'[p].after
          /\ message.type = "log" => message.last <= page'[p].after
      <4>1. CASE message.type = "svs"
        <5>1. /\ page'[p].on = live.on /\ page'[p].after = live.after /\ page'[p].drawn = live.drawn
              /\ page'[p].poll = live.poll /\ page'[p].old = live.old /\ page'[p].mixed = live.mixed
          BY <3>4, <3>5, <4>1 DEF Shown
        <5>2. DrawnWell(head, page'[p])
          BY <3>6, <5>1 DEF DrawnWell
        <5> QED
          BY <3>1, <3>5, <4>1, <5>1, <5>2, PageTypes
      <4>2. CASE message.type = "log"
        <5>1. message.first \in Nat /\ message.last \in Nat
          BY <3>1, <4>2 DEF PageMessages, Logs
        <5>2. message.last <= head
              /\ (message.first <= head - LOG_CAPACITY + 1 \/ Covers(page[p].after, down, 0, message.first - 1))
          BY <1>0, <3>1, <4>2 DEF Cursor, DownWell
        <5>3. message.first <= head - LOG_CAPACITY + 1 \/ message.first <= live.after + 1
          BY <3>5, <5>1, <5>2, PageTypes DEF Covers
        <5>4. page'[p] = Drawn(live, message.first, message.last)
          BY <3>4, <4>2
        <5>5. /\ DrawnWell(head, page'[p]) /\ page'[p] \in Shown
              /\ page'[p].on = live.on /\ page'[p].poll = live.poll /\ page'[p].old = live.old
              /\ live.after <= page'[p].after /\ message.last <= page'[p].after
          BY <3>5, <3>6, <5>1, <5>2, <5>3, <5>4, PageTypes, Draws
        <5> QED
          BY <3>1, <3>5, <5>5 DEF Shown
      <4> QED
        BY <3>1, <4>1, <4>2 DEF PageMessages, Logs
    <3>8. /\ DownWell(head, page'[p].after, Tail(down))
          /\ \A n \in Int : Covers(page[p].after, down, Len(down), n) =>
                             Covers(page'[p].after, Tail(down), Len(Tail(down)), n)
      BY <1>0, <3>1, <3>7, PageTypes, DownReads DEF Cursor
    <3>9. PollWell(head, page'[p].after, page[p].poll)
      BY <1>0, <3>7, PageTypes, PollGrows DEF Cursor
    <3>10. link[p].hello # None => link[p].hello <= page'[p].after
      BY <1>0, <3>7, PageTypes DEF Cursor, None
    <3> QED
      BY <1>0, <2>0, <3>3, <3>7, <3>8, <3>9, <3>10, PageTypes DEF Cursor
  <2> QED
    BY <2>1, <2>2, <2>3
<1>15. ASSUME NEW q \in Pages, PagePolls(q)
       PROVE  Cursor(p)'
  <2>1. CASE q # p
    BY <1>2, <1>15, <2>1 DEF PagePolls, Types
  <2>2. CASE q = p
    <3> DEFINE poll == [NoPoll EXCEPT !.asked = page[p].after, !.token = page[p].token]
    <3>0. poll.asked = page[p].after /\ poll.to = None
      BY DEF NoPoll
    <3>1. page'[p] = [page[p] EXCEPT !.poll = poll]
      BY <1>15, <2>2 DEF PagePolls, Types
    <3> HIDE DEF poll
    <3>2. /\ page'[p].on = page[p].on /\ page'[p].after = page[p].after /\ page'[p].drawn = page[p].drawn
          /\ page'[p].poll = poll /\ page'[p].old = page[p].old /\ page'[p].mixed = page[p].mixed
      BY <3>1, PageTypes DEF Shown
    <3>3. page'[p].poll.asked = page[p].after /\ page'[p].poll.to = None /\ page[p].on
      BY <1>15, <2>2, <3>0, <3>2 DEF PagePolls
    <3>4. PollWell(head, page[p].after, page'[p].poll)
      BY <3>3, PageTypes DEF PollWell
    <3>5. DrawnWell(head, page'[p])
      BY <1>0, <3>2 DEF Cursor, DrawnWell
    <3> QED
      BY <1>0, <1>15, <3>2, <3>3, <3>4, <3>5 DEF PagePolls, Cursor
  <2> QED
    BY <2>1, <2>2
<1>22. ASSUME head' = head, link'[p] = link[p], sock'[p] = sock[p], page'[p].on = page[p].on,
              page'[p].after \in Nat, page[p].after <= page'[p].after, DrawnWell(head, page'[p]),
              PollWell(head, page'[p].after, page'[p].poll), OldWell(head, page'[p].old)
       PROVE  Cursor(p)'
  <2>1. DownWell(head, page'[p].after, link[p].down)
    BY <1>0, <1>22, PageTypes, DownGrows DEF Cursor
  <2>2. link[p].hello # None => link[p].hello <= page'[p].after
    BY <1>0, <1>22, PageTypes DEF Cursor, None
  <2>3. Covers(page[p].after, link[p].down, Len(link[p].down), sock[p].log_after) =>
          Covers(page'[p].after, link[p].down, Len(link[p].down), sock[p].log_after)
    BY <1>22, PageTypes DEF Covers
  <2> QED
    BY <1>0, <1>22, <2>1, <2>2, <2>3 DEF Cursor
<1>16. ASSUME NEW q \in Pages, PageTakesPoll(q)
       PROVE  Cursor(p)'
  <2>1. CASE q # p
    BY <1>2, <1>16, <2>1 DEF PageTakesPoll, Types
  <2>2. CASE q = p
    <3> DEFINE poll == page[p].poll
               drawn == Drawn(page[p], poll.asked, poll.to)
    <3>1. page'[p] = [[drawn EXCEPT !.svs = poll.svs, !.late = page[p].ws = "live"] EXCEPT !.poll = NoPoll]
      BY <1>16, <2>2 DEF PageTakesPoll, Types, Taken
    <3>2. /\ poll.asked \in Nat /\ poll.to \in Nat /\ poll.to <= head
          /\ poll.asked <= head - LOG_CAPACITY + 1 \/ poll.asked <= page[p].after + 1
      BY <1>0, <1>16, <2>2, PageTypes DEF PageTakesPoll, Cursor, PollWell, Polls
    <3>3. /\ DrawnWell(head, drawn) /\ drawn \in Shown /\ drawn.on = page[p].on
          /\ page[p].after <= drawn.after /\ drawn.old = page[p].old
      <4>1. DrawnWell(head, page[p]) /\ head \in Nat /\ page[p] \in Shown
        BY <1>0, PageTypes DEF Cursor
      <4> DEFINE g == page[p]
                 first == poll.asked
                 last == poll.to
      <4>2. /\ first \in Nat /\ last \in Nat /\ last <= head
            /\ first <= head - LOG_CAPACITY + 1 \/ first <= g.after + 1
        BY <3>2
      <4>3. g \in Shown /\ DrawnWell(head, g) /\ head \in Nat
        BY <4>1
      <4> HIDE DEF g, first, last
      <4>4. /\ DrawnWell(head, Drawn(g, first, last)) /\ Drawn(g, first, last) \in Shown
            /\ Drawn(g, first, last).on = g.on /\ Drawn(g, first, last).old = g.old
            /\ g.after <= Drawn(g, first, last).after
        BY <4>2, <4>3, Draws
      <4> QED
        BY <4>4 DEF g, first, last
    <3> HIDE DEF drawn
    <3>4. /\ page'[p].on = page[p].on /\ page'[p].after = drawn.after /\ page'[p].drawn = drawn.drawn
          /\ page'[p].mixed = drawn.mixed /\ page'[p].poll = NoPoll /\ page'[p].old = page[p].old
          /\ drawn.after \in Nat
      BY <3>1, <3>3 DEF Shown
    <3>5. DrawnWell(head, page'[p]) /\ PollWell(head, page'[p].after, NoPoll)
      BY <3>3, <3>4 DEF DrawnWell, PollWell, NoPoll
    <3> QED
      BY <1>0, <1>16, <1>22, <3>3, <3>4, <3>5 DEF PageTakesPoll, Cursor
  <2> QED
    BY <2>1, <2>2
<1>23. ASSUME NEW q \in Pages, PageTakesOld(q)
       PROVE  Cursor(p)'
  <2>1. CASE q # p
    BY <1>2, <1>23, <2>1 DEF PageTakesOld, Types
  <2>2. CASE q = p
    <3> DEFINE poll == page[p].old
               drawn == Drawn(page[p], poll.asked, poll.to)
    <3>1. page'[p] = [[drawn EXCEPT !.svs = poll.svs, !.late = page[p].ws = "live"]
                        EXCEPT !.old = NoPoll, !.mixed = TRUE]
      BY <1>23, <2>2 DEF PageTakesOld, Types, Taken
    <3>2. poll.asked \in Nat /\ poll.to \in Nat /\ poll.to <= head
      BY <1>0, <1>23, <2>2, PageTypes DEF PageTakesOld, Cursor, OldWell, Polls
    <3>3. /\ drawn \in Shown /\ drawn.on = page[p].on /\ drawn.poll = page[p].poll
          /\ page[p].after <= drawn.after /\ drawn.after <= head
      <4>1. page[p].after <= head /\ head \in Nat /\ page[p] \in Shown
        BY <1>0, PageTypes DEF Cursor, DrawnWell
      <4> DEFINE g == page[p]
                 first == poll.asked
                 last == poll.to
      <4>2. first \in Nat /\ last \in Nat /\ last <= head
        BY <3>2
      <4>3. g \in Shown /\ g.after <= head /\ head \in Nat
        BY <4>1
      <4> HIDE DEF g, first, last
      <4>4. /\ Drawn(g, first, last) \in Shown
            /\ Drawn(g, first, last).on = g.on /\ Drawn(g, first, last).poll = g.poll
            /\ g.after <= Drawn(g, first, last).after /\ Drawn(g, first, last).after <= head
        BY <4>2, <4>3, DrawsAny
      <4> QED
        BY <4>4 DEF g, first, last
    <3> HIDE DEF drawn
    <3>4. /\ page'[p].on = page[p].on /\ page'[p].after = drawn.after
          /\ page'[p].mixed /\ page'[p].old = NoPoll /\ page'[p].poll = page[p].poll
          /\ drawn.after \in Nat
      BY <3>1, <3>3 DEF Shown
    <3>5. DrawnWell(head, page'[p]) /\ OldWell(head, NoPoll)
      BY <3>3, <3>4 DEF DrawnWell, OldWell, NoPoll
    <3>6. PollWell(head, page'[p].after, page'[p].poll)
      BY <1>0, <3>3, <3>4, PageTypes, PollGrows DEF Cursor
    <3> QED
      BY <1>23, <1>22, <3>3, <3>4, <3>5, <3>6 DEF PageTakesOld
  <2> QED
    BY <2>1, <2>2
<1>17. ASSUME NEW q \in Pages, PageDrops(q)
       PROVE  Cursor(p)'
  <2>1. CASE q # p
    BY <1>2, <1>17, <2>1 DEF PageDrops, Types
  <2>2. CASE q = p
    <3>1. page'[p] = [page[p] EXCEPT !.ws = "none"]
      BY <1>17, <2>2 DEF PageDrops, Types
    <3>2. /\ page'[p].on = page[p].on /\ page'[p].after = page[p].after /\ page'[p].drawn = page[p].drawn
          /\ page'[p].poll = page[p].poll /\ page'[p].old = page[p].old /\ page'[p].mixed = page[p].mixed
      BY <3>1, PageTypes DEF Shown
    <3>3. DrawnWell(head, page'[p])
      BY <1>0, <3>2 DEF Cursor, DrawnWell
    <3> QED
      BY <1>0, <1>17, <3>2, <3>3 DEF PageDrops, Cursor
  <2> QED
    BY <2>1, <2>2
<1>18. ASSUME NEW e \in Clients, ConnectEvents(e)
       PROVE  Cursor(p)'
  <2>1. e # p
    BY PushAssumption
  <2>2. /\ sock'[p].ready = sock[p].ready /\ sock'[p].log_after = sock[p].log_after
        /\ link'[p] = link[p] /\ page' = page /\ head' = head
    BY <1>18, <2>1, PageTypes DEF ConnectEvents, Room, Types, LinkTypes, Socks
  <2> QED
    BY <1>0, <2>2 DEF Cursor
<1>19. ASSUME NEW e \in Clients, ClientReads(e) \/ Minute(e)
       PROVE  Cursor(p)'
  <2>1. e # p
    BY PushAssumption
  <2> QED
    BY <1>2, <1>19, <2>1 DEF ClientReads, Minute, Types, LinkTypes
<1> QED
  BY <1>3, <1>4, <1>5, <1>6, <1>7, <1>8, <1>9, <1>10, <1>11, <1>12, <1>13, <1>14, <1>15, <1>16, <1>17, <1>18,
     <1>19, <1>21, <1>23 DEF Next

-----------------------------------------------------------------------------
(* The invariant *)

\* It holds where everything is closed and empty.
LEMMA InitIInv == Init => IInv
<1> SUFFICES ASSUME Init PROVE IInv
  OBVIOUS
<1> USE PushAssumption, SessionsAssumption
<1>1. NoFlush \in Flushes /\ NoSock \in Socks /\ NoPage \in Shown
      /\ \A c \in Pages \cup Clients : NoLink \in Links(c)
  BY DEF NoFlush, Flushes, NoSock, Socks, NoToken, Known, None, NoPage, Shown, NoPoll, Polls, NoLink, Links
<1>2. Types
  <2>1. /\ sock \in [Pages \cup Clients -> Socks] /\ page \in [Pages -> Shown] /\ LinkTypes
        /\ flush \in Flushes /\ order \in Seq(Clients)
    BY <1>1 DEF Init, LinkTypes
  <2>2. head \in Nat /\ svs \in {0, 1}
    BY DEF Init
  <2>3. told \in BOOLEAN /\ queued \in BOOLEAN /\ work \in BOOLEAN /\ queueing \in BOOLEAN
    BY Zenon DEF Init
  <2> QED
    BY <2>1, <2>2, <2>3, Zenon DEF Types
<1>3. Tokens
  BY DEF Init, AuthInit, Tokens, IsInjective, Range
<1>4. Queue
  BY Zenon DEF Init, Queue
<1>5. Sockets /\ Places
  BY DEF Init, Sockets, Places, Open, NoSock, NoFlush, IsInjective, Range
<1>6. Cursors
  BY DEF Init, Cursors, Cursor, DrawnWell, DownWell, PollWell, OldWell, NoPage, NoLink, NoPoll, NoSock
<1> QED
  BY <1>2, <1>3, <1>4, <1>5, <1>6 DEF IInv

\* No step breaks it.
LEMMA NextIInv == IInv /\ [Next]_vars => IInv'
BY NextIsAuthStep, TokensStep, TypesStep, QueueStep, SocketsStep, CursorsStep, PlacesStep DEF IInv

\* IInv holds in every state the pages, the clients and the server can reach.
THEOREM Invariance == Spec => []IInv
<1>1. Init => IInv
  BY InitIInv
<1>2. IInv /\ [Next]_vars => IInv'
  BY NextIInv
<1> QED
  BY <1>1, <1>2, PTL DEF Spec

\* One run of ws_flush is pending at most, and whoever finds it marked as queued may rely on
\* it; the flush goes through open sockets only, sessions are never doubled, and the order in
\* which events clients make room is that of their sockets.
THEOREM TypeCorrectness == Spec => []TypeOK
<1>1. IInv => TypeOK
  <2> SUFFICES ASSUME Types, Tokens, Queue, Sockets, Places PROVE TypeOK
    BY DEF IInv
  <2>1. AuthTypeOK
    BY DEF Tokens, AuthTypeOK, Range
  <2>2. head \in Nat /\ svs \in {0, 1} /\ flush.on \in BOOLEAN /\ flush.todo \subseteq Open
    BY DEF Types, Flushes, Sockets
  <2>3. \A c \in Open : sock[c].log_after <= head /\ sock[c].svs \in {0, 1, None}
    BY DEF Types, Socks, Known, Places, Open
  <2>4. {order[i] : i \in DOMAIN order} = Open \cap Clients
    BY DEF Sockets, Range
  <2>5. /\ told \in BOOLEAN /\ work \in BOOLEAN /\ queueing \in BOOLEAN
        /\ queued <=> (work \/ queueing)
        /\ ~(work /\ queueing)
    BY DEF Types, Queue
  <2> QED
    BY <2>1, <2>2, <2>3, <2>4, <2>5, Zenon DEF TypeOK
<1> QED
  BY <1>1, Invariance, PTL

\* Whatever is lost, polled, sent twice or opened again, a page misses only lines that were
\* overwritten before the bridge could send them, unless it drew the answer to a poll that it
\* had sent before it last signed in.
THEOREM NothingIsSkipped == Spec => []NothingSkipped
<1>1. IInv => NothingSkipped
  BY PageTypes, PushAssumption DEF IInv, Cursors, Cursor, DrawnWell, NothingSkipped, Overwritten
<1> QED
  BY <1>1, Invariance, PTL
================================================================================
