-------------------------------- MODULE WebPush --------------------------------
(***************************************************************************)
(* Live updates: /ws and /api/v1/events of web_server.cpp, the traffic log *)
(* of svs_usb.cpp that they carry, and the page's side of it in            *)
(* index.html.                                                             *)
(*                                                                         *)
(* Any task that logs a line has the server's task push what is new, and a *)
(* tick does so twice a second. The server's task does one thing at a      *)
(* time: a run of ws_flush, client by client, or a request. A page polls   *)
(* until its socket answers, and again when that is lost.                  *)
(*                                                                         *)
(* Left out: what the status holds (a number that changes stands for it);  *)
(* pings, and the commands a page sends; the types an events client asks   *)
(* for; free sockets and memory; restarts of the bridge. A page tries its  *)
(* socket again only when the server noticed that the last one is gone,    *)
(* and asks for the log and the status in one poll. Of the polls it sent   *)
(* before it signed in again, only the last may still be under way.        *)
(***************************************************************************)
EXTENDS Auth, FiniteSets

CONSTANTS
  Pages, Clients,  \* browser pages, and clients of /api/v1/events
  LOG_CAPACITY, LOG_BATCH, EVENTS_MAX,
  Plans            \* how often each thing may happen in one behaviour: a set of records

ASSUME PushAssumption ==
  /\ Pages \cap Clients = {}
  /\ LOG_CAPACITY \in Nat \ {0} /\ LOG_BATCH \in Nat \ {0} /\ EVENTS_MAX \in Nat \ {0}

VARIABLES
  left,      \* what of the plan is left
  head,      \* s_log_seq
  svs,       \* the status
  told,      \* log_add is about to call the listener
  queued,    \* s_ws_flush_queued
  queueing,  \* ws_notify is about to queue the work
  work,      \* ws_flush is in the server's queue
  flush,     \* where ws_flush is
  sock,      \* WsClient of each client, if its socket is open
  order,     \* opened_us: the events clients' sockets in the order they were opened
  link,      \* the connection of each client, and what is under way in it
  page,      \* each page: what it shows
  heard      \* each events client: the status it was told last

queueVars == <<told, queued, queueing, work>>
sockVars == <<sock, order>>
vars == <<left, head, svs, authVars, queueVars, flush, sockVars, link, page, heard>>

None == -1
Spend(what) == left[what] > 0 /\ left' = [left EXCEPT ![what] = @ - 1]

\* token, ready, log_after and svs are WsClient's; closing: its end is triggered; due: a
\* minute has passed since the last state
NoSock == [open |-> FALSE, closing |-> FALSE, token |-> NoToken, ready |-> FALSE, log_after |-> 0,
           svs |-> None, due |-> FALSE]
NoLink == [up |-> FALSE, hello |-> None, down |-> <<>>]
NoFlush == [on |-> FALSE, todo |-> {}, svs |-> None, svs_key |-> None, more |-> FALSE]

\* logAfter, the entries drawn, the status; late: a poll's, taken after the socket went
\* live; the socket: none, open, live; the poll, and one left from before the page signed
\* in: what it asks for, then its answer; mixed: the answer to that one was drawn
NoPoll == [asked |-> None, to |-> None, svs |-> None, token |-> NoToken]
NoPage == [on |-> FALSE, token |-> NoToken, after |-> 0, drawn |-> {}, svs |-> None, late |-> FALSE,
           ws |-> "none", poll |-> NoPoll, old |-> NoPoll, mixed |-> FALSE]

Init ==
  /\ left \in Plans
  /\ head = 0 /\ svs = 0
  /\ AuthInit
  /\ told = FALSE /\ queued = FALSE /\ queueing = FALSE /\ work = FALSE /\ flush = NoFlush
  /\ sock = [c \in Pages \cup Clients |-> NoSock]
  /\ order = <<>>
  /\ link = [c \in Pages \cup Clients |-> NoLink]
  /\ page = [p \in Pages |-> NoPage]
  /\ heard = [e \in Clients |-> None]

Open == {c \in Pages \cup Clients : sock[c].open}
Overwritten == 1..head - LOG_CAPACITY

\* log_since: the entries after `after' that it returns are those up to
Until(after) ==
  LET from == IF after > head - LOG_CAPACITY THEN after ELSE head - LOG_CAPACITY
  IN  [first |-> from + 1, last |-> IF head > from + LOG_BATCH THEN from + LOG_BATCH ELSE head]

-----------------------------------------------------------------------------
(* Other tasks *)

\* log_add, up to the call of the listener
LogAdd ==
  /\ Spend("lines")
  /\ head' = head + 1
  /\ told' = TRUE
  /\ UNCHANGED <<svs, authVars, queued, queueing, work, flush, sockVars, link, page, heard>>

\* The status changes.
Changes ==
  /\ Spend("changes")
  /\ svs' = 1 - svs
  /\ UNCHANGED <<head, authVars, queueVars, flush, sockVars, link, page, heard>>

\* mutant: every notice queues another run
NotifyAlways ==
  LET first == Open # {}
  IN  /\ queued' = (queued \/ first)
      /\ queueing' = (queueing \/ first)

\* ws_notify, up to httpd_queue_work
Notify ==
  LET first == Open # {} /\ ~queued
  IN  /\ queued' = (queued \/ first)
      /\ queueing' = (queueing \/ first)

Listener ==
  /\ told
  /\ told' = FALSE
  /\ Notify
  /\ UNCHANGED <<left, head, svs, authVars, work, flush, sockVars, link, page, heard>>

\* on_ws_tick
Tick ==
  /\ Notify
  /\ UNCHANGED <<left, head, svs, authVars, told, work, flush, sockVars, link, page, heard>>

\* mutant: a failure leaves the mark that the work is queued
QueueWorkKeeps ==
  /\ queueing
  /\ queueing' = FALSE
  /\ \/ work' = TRUE /\ UNCHANGED left
     \/ Spend("failures") /\ UNCHANGED work
  /\ UNCHANGED <<head, svs, authVars, told, queued, flush, sockVars, link, page, heard>>

\* httpd_queue_work, which may fail
QueueWork ==
  /\ queueing
  /\ queueing' = FALSE
  /\ \/ work' = TRUE /\ UNCHANGED <<left, queued>>
     \/ Spend("failures") /\ queued' = FALSE /\ UNCHANGED work
  /\ UNCHANGED <<head, svs, authVars, told, flush, sockVars, link, page, heard>>

-----------------------------------------------------------------------------
(* ws_flush, in the server's task *)

FlushBegin ==
  /\ work /\ ~flush.on
  /\ work' = FALSE /\ queued' = FALSE
  /\ flush' = [NoFlush EXCEPT !.on = TRUE, !.todo = Open]
  /\ UNCHANGED <<left, head, svs, authVars, told, queueing, sockVars, link, page, heard>>

\* Messages are sent to c, whose WsClient becomes k; or that fails, when the other
\* end is gone, and the socket is to be closed.
SendsTo(c, k, messages) ==
  \/ /\ sock' = [sock EXCEPT ![c] = k]
     /\ link' = [link EXCEPT ![c].down = IF link[c].up THEN @ \o messages ELSE <<>>]
  \/ /\ messages # <<>> /\ ~link[c].up
     /\ sock' = [sock EXCEPT ![c] = [k EXCEPT !.closing = TRUE]]
     /\ UNCHANGED link

\* One whose session or token is not valid any more is told so, and closed; told again
\* before that, it learns nothing new.
AuthMessage == [type |-> "auth"]
TellsAuth(c) ==
  /\ sock' = [sock EXCEPT ![c].closing = TRUE]
  /\ link' = [link EXCEPT ![c].hello = None,
                          ![c].down = IF ~link[c].up \/ Contains(@, AuthMessage) THEN @
                                      ELSE Append(@, AuthMessage)]

\* mutant: a page's log_after runs ahead of the batch sent
FlushPageAhead(p) ==
  LET k == sock[p]
      batch == Until(k.log_after)
      now == IF flush.svs = None THEN svs ELSE flush.svs
      news == IF now # k.svs THEN <<[type |-> "svs", svs |-> now]>> ELSE <<>>
      lines == IF head > k.log_after
               THEN <<[type |-> "log", first |-> batch.first, last |-> batch.last]>> ELSE <<>>
  IN  /\ sessions' = Used(k.token) /\ UNCHANGED <<issued, api_token>>
      /\ SendsTo(p, [k EXCEPT !.svs = now, !.log_after = head], news \o lines)
      /\ flush' = [flush EXCEPT !.todo = @ \ {p}, !.svs = now]

\* A page that is ready, with a session
FlushPage(p) ==
  LET k == sock[p]
      batch == Until(k.log_after)
      now == IF flush.svs = None THEN svs ELSE flush.svs
      news == IF now # k.svs THEN <<[type |-> "svs", svs |-> now]>> ELSE <<>>
      lines == IF head > k.log_after
               THEN <<[type |-> "log", first |-> batch.first, last |-> batch.last]>> ELSE <<>>
  IN  /\ sessions' = Used(k.token) /\ UNCHANGED <<issued, api_token>>
      /\ SendsTo(p, [k EXCEPT !.svs = now, !.log_after = IF lines = <<>> THEN @ ELSE batch.last],
                 news \o lines)
      /\ flush' = [flush EXCEPT !.todo = @ \ {p}, !.svs = now,
                                !.more = @ \/ (lines # <<>> /\ batch.last - batch.first + 1 = LOG_BATCH)]

\* events_flush, up to the building of svs_key
FlushKey ==
  /\ flush.on /\ flush.todo \cap Clients # {} /\ flush.svs_key = None
  /\ flush' = [flush EXCEPT !.svs_key = svs]
  /\ UNCHANGED <<left, head, svs, authVars, queueVars, sockVars, link, page, heard>>

\* events_flush: the state sent is read after the key.
FlushEvents(e) ==
  LET k == sock[e]
      hello == IF k.ready THEN <<>> ELSE <<[type |-> "hello"]>>
      state == IF flush.svs_key = k.svs /\ ~k.due THEN <<>> ELSE <<[type |-> "state", svs |-> svs]>>
  IN  /\ flush.svs_key # None
      /\ IF ~IsApiToken(k.token) THEN TellsAuth(e)
         ELSE SendsTo(e, [k EXCEPT !.ready = TRUE, !.svs = flush.svs_key, !.due = FALSE], hello \o state)
      /\ flush' = [flush EXCEPT !.todo = @ \ {e}]
      /\ UNCHANGED authVars

\* A page that said no hello yet gets nothing.
FlushWaiting(p) ==
  /\ flush' = [flush EXCEPT !.todo = @ \ {p}]
  /\ UNCHANGED <<sock, link, authVars>>

\* The session of a page has ended.
FlushEnded(p) ==
  /\ TellsAuth(p)
  /\ flush' = [flush EXCEPT !.todo = @ \ {p}]
  /\ UNCHANGED authVars

FlushOne(c) ==
  /\ flush.on /\ c \in flush.todo
  /\ \/ c \in Clients /\ FlushEvents(c)
     \/ c \in Pages /\ ~sock[c].ready /\ FlushWaiting(c)
     \/ c \in Pages /\ sock[c].ready /\ ~IsSession(sock[c].token) /\ FlushEnded(c)
     \/ c \in Pages /\ sock[c].ready /\ IsSession(sock[c].token) /\ FlushPage(c)
  /\ UNCHANGED <<left, head, svs, queueVars, order, page, heard>>

FlushEnd ==
  /\ flush.on /\ flush.todo = {}
  /\ flush' = NoFlush
  /\ IF flush.more THEN Notify ELSE UNCHANGED <<queued, queueing>>
  /\ UNCHANGED <<left, head, svs, authVars, told, work, sockVars, link, page, heard>>

-----------------------------------------------------------------------------
(* Requests, in the server's task *)

\* The socket is closed: its end was triggered, or the other end found gone.
Close(c) ==
  /\ ~flush.on
  /\ sock[c].open /\ (sock[c].closing \/ ~link[c].up)
  /\ sock' = [sock EXCEPT ![c] = NoSock]
  /\ order' = RemoveFirst(order, c)
  /\ link' = [link EXCEPT ![c].up = FALSE, ![c].hello = None]
  /\ UNCHANGED <<left, head, svs, authVars, queueVars, flush, page, heard>>

\* login_post, and startLog: the page starts from the whole log.  A poll that is under way
\* stays so.
Login(p) ==
  LET before == IF page[p].poll # NoPoll THEN page[p].poll ELSE page[p].old
  IN  /\ ~flush.on
      /\ ~page[p].on
      /\ Spend("logins")
      /\ CreateSession
      /\ page' = [page EXCEPT ![p] = [NoPage EXCEPT !.on = TRUE, !.token = issued', !.old = before]]
      /\ UNCHANGED <<head, svs, queueVars, flush, sockVars, link, heard>>

\* login_post of the setup portal, in the task of the other server: it may come at any
\* point of a run of ws_flush.
PortalLogin ==
  /\ Spend("portals")
  /\ CreateSession
  /\ UNCHANGED <<head, svs, queueVars, flush, sockVars, link, page, heard>>

\* showAuth and wsDrop, for a page that is otherwise g: its end of the socket is closed.
SignedOut(p, g) ==
  /\ page' = [page EXCEPT ![p] = [g EXCEPT !.on = FALSE, !.ws = "none"]]
  /\ link' = [link EXCEPT ![p] = NoLink]

\* logout_post, of a page or of another browser with the same session
Logout(p) ==
  /\ ~flush.on
  /\ page[p].on
  /\ Spend("logouts")
  /\ EndSession(page[p].token)
  /\ \/ SignedOut(p, page[p])
     \/ UNCHANGED <<page, link>>
  /\ UNCHANGED <<head, svs, queueVars, flush, sockVars, heard>>

\* A session that nothing uses expires.
Expires ==
  /\ Spend("logouts")
  /\ \E i \in DOMAIN sessions :
       /\ \A p \in Pages : page[p].on => page[p].token # sessions[i] \/ page[p].ws = "none"
       /\ EndSession(sessions[i])
  /\ UNCHANGED <<head, svs, queueVars, flush, sockVars, link, page, heard>>

\* wsConnect, and ws_pre_handshake; the hello is on its way.  Without a session the
\* handshake is refused, and the page learns it from a poll.
Connect(p) ==
  /\ ~flush.on
  /\ page[p].on /\ page[p].ws = "none" /\ ~sock[p].open
  /\ IsSession(page[p].token)
  /\ Spend("connects")
  /\ sessions' = Used(page[p].token)
  /\ sock' = [sock EXCEPT ![p] = [NoSock EXCEPT !.open = TRUE, !.token = page[p].token]]
  /\ link' = [link EXCEPT ![p] = [NoLink EXCEPT !.up = TRUE, !.hello = page[p].after]]
  /\ page' = [page EXCEPT ![p].ws = "open"]
  /\ UNCHANGED <<head, svs, issued, api_token, queueVars, flush, order, heard>>

\* ws_handler, for the hello of a page
Hello(p) ==
  /\ ~flush.on
  /\ sock[p].open /\ ~sock[p].closing /\ link[p].hello # None
  /\ \/ /\ IsSession(sock[p].token)
        /\ sessions' = Used(sock[p].token)
        /\ sock' = [sock EXCEPT ![p].log_after = link[p].hello, ![p].svs = None, ![p].ready = TRUE]
        /\ link' = [link EXCEPT ![p].hello = None]
        /\ Notify
     \/ /\ ~IsSession(sock[p].token)
        /\ TellsAuth(p)
        /\ UNCHANGED <<sessions, queued, queueing>>
  /\ UNCHANGED <<left, head, svs, issued, api_token, told, work, flush, order, page, heard>>

\* svs_log_get, and svs_get for the status
Answer(poll) ==
  [poll EXCEPT !.asked = Until(poll.asked).first, !.to = Until(poll.asked).last, !.svs = svs]

\* A poll of p is answered, which makes the page `answered', or refused, which signs it out
\* and leaves it without that poll.
Serves(p, poll, answered, without) ==
  /\ ~flush.on
  /\ poll.asked # None /\ poll.to = None
  /\ \/ /\ IsSession(poll.token)
        /\ sessions' = Used(poll.token)
        /\ page' = [page EXCEPT ![p] = answered]
        /\ UNCHANGED link
     \/ /\ ~IsSession(poll.token)
        /\ SignedOut(p, without)
        /\ UNCHANGED sessions
  /\ UNCHANGED <<left, head, svs, issued, api_token, queueVars, flush, sockVars, heard>>

ServePoll(p) ==
  Serves(p, page[p].poll, [page[p] EXCEPT !.poll = Answer(@)], [page[p] EXCEPT !.poll = NoPoll])

ServeOld(p) ==
  Serves(p, page[p].old, [page[p] EXCEPT !.old = Answer(@)], [page[p] EXCEPT !.old = NoPoll])

\* events_make_room: at EVENTS_MAX the oldest goes.
Room == IF Len(order) >= EVENTS_MAX THEN [sock EXCEPT ![order[1]].closing = TRUE] ELSE sock

\* events_pre_handshake
ConnectEvents(e) ==
  /\ ~flush.on
  /\ ~sock[e].open /\ link[e] = NoLink
  /\ Spend("events")
  /\ sock' = [Room EXCEPT ![e] = [NoSock EXCEPT !.open = TRUE, !.token = api_token]]
  /\ order' = Append(order, e)
  /\ link' = [link EXCEPT ![e].up = TRUE]
  /\ UNCHANGED <<head, svs, authVars, queueVars, flush, page, heard>>

\* api_token_regenerate_post
RegenerateToken ==
  /\ ~flush.on
  /\ Spend("tokens")
  /\ Regenerate
  /\ UNCHANGED <<head, svs, queueVars, flush, sockVars, link, page, heard>>

-----------------------------------------------------------------------------
(* Pages and clients *)

\* showLog: entries after logAfter are drawn.
Drawn(g, first, last) ==
  [g EXCEPT !.drawn = @ \cup {n \in first..last : n > g.after}, !.after = IF last > @ THEN last ELSE @]

\* s.onmessage
PageReads(p) ==
  LET message == Head(link[p].down)
      live == [page[p] EXCEPT !.ws = "live"]
  IN  /\ page[p].on /\ link[p].down # <<>>
      /\ IF message.type = "auth" THEN SignedOut(p, page[p])
         ELSE /\ link' = [link EXCEPT ![p].down = Tail(@)]
              /\ page' = [page EXCEPT ![p] = IF message.type = "svs" THEN [live EXCEPT !.svs = message.svs, !.late = FALSE]
                                             ELSE Drawn(live, message.first, message.last)]
      /\ UNCHANGED <<left, head, svs, authVars, queueVars, flush, sockVars, heard>>

\* pollLog: a page polls unless its socket is live, and then a poll may be under way.
PagePolls(p) ==
  /\ page[p].on /\ page[p].ws # "live" /\ page[p].poll = NoPoll
  /\ page[p].after # head \/ page[p].svs # svs \/ ~IsSession(page[p].token)
  /\ page' = [page EXCEPT ![p].poll = [NoPoll EXCEPT !.asked = page[p].after, !.token = page[p].token]]
  /\ UNCHANGED <<left, head, svs, authVars, queueVars, flush, sockVars, link, heard>>

\* What the answer to a poll makes of a page, signed in or not
Taken(g, poll) ==
  [Drawn(g, poll.asked, poll.to) EXCEPT !.svs = poll.svs, !.late = g.ws = "live"]

PageTakesPoll(p) ==
  /\ page[p].poll.to # None
  /\ page' = [page EXCEPT ![p] = [Taken(@, @.poll) EXCEPT !.poll = NoPoll]]
  /\ UNCHANGED <<left, head, svs, authVars, queueVars, flush, sockVars, link, heard>>

PageTakesOld(p) ==
  /\ page[p].old.to # None
  /\ page' = [page EXCEPT ![p] = [Taken(@, @.old) EXCEPT !.old = NoPoll, !.mixed = TRUE]]
  /\ UNCHANGED <<left, head, svs, authVars, queueVars, flush, sockVars, link, heard>>

\* s.onclose, or a ping that is not answered
PageDrops(p) ==
  /\ page[p].on /\ page[p].ws # "none" /\ ~link[p].up /\ link[p].down = <<>>
  /\ page' = [page EXCEPT ![p].ws = "none"]
  /\ UNCHANGED <<left, head, svs, authVars, queueVars, flush, sockVars, link, heard>>

\* A client of /api/v1/events reads; told that its token is void, or closed, it leaves.
ClientReads(e) ==
  LET message == Head(link[e].down)
  IN  /\ link[e].down # <<>>
      /\ link' = [link EXCEPT ![e].down = Tail(@)]
      /\ heard' = [heard EXCEPT ![e] = IF message.type = "state" THEN message.svs ELSE @]
      /\ UNCHANGED <<left, head, svs, authVars, queueVars, flush, sockVars, page>>

\* A minute passes since e was told a state, which is not the one now (otherwise it
\* brings nothing).
Minute(e) ==
  /\ sock[e].ready /\ sock[e].svs = svs /\ ~sock[e].due
  /\ link[e].down = <<>> /\ heard[e] # svs
  /\ sock' = [sock EXCEPT ![e].due = TRUE]
  /\ UNCHANGED <<left, head, svs, authVars, queueVars, flush, order, link, page, heard>>

\* A connection is lost, with all that is under way.
Lost(c) ==
  /\ link[c].up
  /\ Spend("losses")
  /\ link' = [link EXCEPT ![c] = NoLink]
  /\ UNCHANGED <<head, svs, authVars, queueVars, flush, sockVars, page, heard>>

-----------------------------------------------------------------------------
Serve ==
  \/ \E c \in Pages \cup Clients : Close(c)
  \/ \E p \in Pages : Hello(p) \/ ServePoll(p) \/ ServeOld(p)

Next ==
  \/ LogAdd \/ Changes \/ Listener \/ Tick \/ QueueWork
  \/ FlushBegin \/ FlushKey \/ FlushEnd \/ Expires \/ RegenerateToken \/ PortalLogin
  \/ \E c \in Pages \cup Clients : FlushOne(c) \/ Close(c) \/ Lost(c)
  \/ \E p \in Pages :
       \/ Login(p) \/ Logout(p) \/ Connect(p) \/ Hello(p) \/ ServePoll(p)
       \/ ServeOld(p) \/ PageReads(p) \/ PagePolls(p) \/ PageTakesPoll(p) \/ PageTakesOld(p)
       \/ PageDrops(p)
  \/ \E e \in Clients : ConnectEvents(e) \/ ClientReads(e) \/ Minute(e)

Spec == Init /\ [][Next]_vars

\* Tasks and the tick run.  The server takes turns between the queued work and its
\* sockets, so that no request waits for ever; pages read, poll, and notice that
\* their socket is gone.
FairSpec ==
  /\ Spec
  /\ WF_vars(Listener) /\ WF_vars(Tick) /\ WF_vars(QueueWork)
  /\ WF_vars(FlushBegin \/ FlushKey \/ FlushEnd \/ \E c \in Pages \cup Clients : FlushOne(c))
  /\ SF_vars(Serve)
  /\ \A p \in Pages : WF_vars(PageReads(p) \/ PageTakesPoll(p) \/ PageTakesOld(p) \/ PageDrops(p)
                                   \/ PagePolls(p))
  /\ \A e \in Clients : WF_vars(ClientReads(e) \/ Minute(e))

-----------------------------------------------------------------------------
(* Properties *)

\* Types; one run of ws_flush is pending at most, and whoever finds it marked as
\* queued may rely on it.
TypeOK ==
  /\ AuthTypeOK
  /\ head \in Nat /\ svs \in {0, 1}
  /\ told \in BOOLEAN /\ work \in BOOLEAN /\ queueing \in BOOLEAN
  /\ queued <=> (work \/ queueing)
  /\ ~(work /\ queueing)
  /\ flush.on \in BOOLEAN /\ flush.todo \subseteq Open
  /\ \A c \in Open : sock[c].log_after <= head /\ sock[c].svs \in {0, 1, None}
  /\ {order[i] : i \in DOMAIN order} = Open \cap Clients

\* A page draws every line of the log, whether the socket or a poll brings it, and whatever
\* breaks or is opened again: it misses only what was overwritten before the bridge could
\* send it.  But showLog also draws the answer to a poll that the page sent before it signed
\* in, and after that it may lack the lines before those of the answer.
NothingSkipped ==
  \A p \in Pages :
    page[p].on /\ ~page[p].mixed => (1..page[p].after) \ page[p].drawn \subseteq Overwritten

\* In the end every page that is signed in shows the newest line and the status,
\* with a session that is valid; every events client knows the status; and sockets
\* of sessions that ended and of old API tokens are closed.
PagesSettle ==
  <>[](/\ \A p \in Pages :
            page[p].on => page[p].after = head /\ (page[p].svs = svs \/ page[p].late) /\ IsSession(page[p].token)
       /\ \A p \in Pages \cap Open : IsSession(sock[p].token)
       /\ \A e \in Clients \cap Open : IsApiToken(sock[e].token) /\ heard[e] = svs)
=============================================================================
