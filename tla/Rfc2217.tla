-------------------------------- MODULE Rfc2217 --------------------------------
(***************************************************************************)
(* The RFC 2217 server: rfc2217.cpp, and the receive tap of svs_usb.cpp.   *)
(*                                                                         *)
(* One task serves a few TCP clients. What a client types goes to the SVS  *)
(* as it comes; what the SVS says is read from a ring of its last bytes,   *)
(* each client at its own pace, and passes a filter that takes out the     *)
(* input number before the value of Y<n> and G<n>.                         *)
(*                                                                         *)
(* The clients are programs somewhere else. Their side of Telnet is that   *)
(* of RFC 854: an offer or a request is answered only when it changes      *)
(* something, and a client asks for a change when nothing is on its way,   *)
(* or before it read anything. TCP cuts what they send anywhere.           *)
(*                                                                         *)
(* A pass of the task's loop is not kept in order: it does for one client  *)
(* at a time what there is to do. Time is an action: the wait for an echo  *)
(* ends, the gap after a restart passes. Left out: the counters and times  *)
(* of the status page, the traffic log; that restart_svs takes 100 ms.     *)
(***************************************************************************)
EXTENDS Rfc2217Proto, FiniteSets

CONSTANTS
  MaxConns,    \* bound on the TCP connections ever made
  MaxClients,  \* MAX_CLIENTS
  TapSize,     \* TAP_SIZE
  RawMax,      \* bytes read from the tap at once: 128
  LineMax,     \* CLIENT_LINE_MAX
  Supported,   \* options that the clients accept
  Plans        \* what the outside may do in one behaviour: a set of records of
               \*   conns: how many connections are made, said: how many bytes the SVS sends,
               \*   sayings: of which pieces, typings and requests: what a client sends
               \*   of its own accord, and options it asks to change, typed: how often,
               \*   cuts: how often TCP cuts what a client sends, events: how often a
               \*   session begins, the SVS is replugged or a client leaves, patient:
               \*   nothing of this happens before those connected are greeted

ASSUME ServerAssumption ==
  /\ MaxConns \in Nat /\ MaxClients \in Nat \ {0} /\ TapSize \in Nat \ {0} /\ RawMax \in Nat \ {0}
  /\ LineMax \in Nat \ {0}
  /\ \A p \in Plans :
       /\ p.conns \in 0..MaxConns /\ p.requests \subseteq Byte
       /\ p.sayings \cup p.typings \subseteq Seq(Byte)
       /\ \A bytes \in p.typings : Telnet(bytes).at = "data"

VARIABLES
  plan,    \* the plan of this behaviour
  said,    \* all the SVS sent
  tap,     \* s_tap: the item in each slot
  linked,  \* svs_usb::is_connected
  busy,    \* svs_settings::busy
  modem,   \* the modem state read at the top of the loop
  client,  \* clients: by connection, those that have a slot
  todo,    \* what is left to do with the bytes just received
  rested,  \* RESTART_MIN_GAP_MS passed since last_ms
  net,     \* a connection: how it is, and the bytes under way in it
  peer,    \* the program at the other end
  events   \* how often something happened to the line or a connection

serverVars == <<modem, client, todo, rested>>
svsVars == <<plan, said, tap, linked, busy>>
vars == <<svsVars, serverVars, net, peer, events>>

\* Connections are numbered as they come, which is the order of since_ms.
Conns == 1..MaxConns
NoConn == 0
Nothing == [conn |-> NoConn, raised |-> FALSE, data |-> <<>>]
Open == DOMAIN client
MODEM_LINK_UP == 176
MODEM_LINK_DOWN == 0

\* A client as add_client leaves it; late: ECHO_WAIT_MS passed since echo_ms.
\* from, got, asks, passed and whole are for the properties: where it began, the
\* places of what it was given, the inputs it asked about with the places of what
\* was held just then, what it typed that went to the SVS or was refused, and that
\* no answer to its commands was cut.
Joined ==
  [proto |-> Greeted(Fresh), pos |-> Len(said), modem |-> -1, line |-> <<>>, echo |-> NoEcho,
   late |-> FALSE, from |-> Len(said), got |-> <<>>, asks |-> <<>>, passed |-> <<>>,
   whole |-> TRUE]

\* A connection, and the bytes under way to the server and from it
NewConn == [state |-> "new", up |-> <<>>, down |-> <<>>]

\* will and do: what the program at the other end agreed to; fresh: it read
\* nothing yet; typed and cut: how often it sent, and how often TCP cut it; text
\* and heard: the data, Telnet aside, that it sent and that it read.
NewPeer ==
  [will |-> {}, do |-> {}, fresh |-> TRUE, typed |-> 0, cut |-> 0, text |-> <<>>, heard |-> <<>>]

Init ==
  /\ plan \in Plans
  /\ said = <<>>
  /\ tap = [i \in 0..TapSize - 1 |-> [at |-> 0, b |-> 0]]
  /\ linked \in BOOLEAN
  /\ busy = FALSE
  /\ modem = MODEM_LINK_DOWN
  /\ client = <<>>
  /\ todo = Nothing
  /\ rested = TRUE
  /\ net = [c \in Conns |-> NewConn]
  /\ peer = [c \in Conns |-> NewPeer]
  /\ events = 0

-----------------------------------------------------------------------------
(* The SVS and the people *)

\* The offers at the beginning were read, answered, and the answer read.
IsGreeted(c) ==
  ~peer[c].fresh /\ client[c].modem # -1 /\ (net[c].up = <<>> \/ peer[c].typed > 0)
May == plan.patient => \A c \in Open : IsGreeted(c)

\* tap_add: bytes, from place n + 1 on, go to ring
TapAdd(ring, n, bytes) ==
  LET after[i \in 0..Len(bytes)] ==
        IF i = 0 THEN ring
        ELSE [after[i - 1] EXCEPT ![(n + i - 1) % TapSize] = [at |-> n + i, b |-> bytes[i]]]
  IN  after[Len(bytes)]

\* The SVS says something.
Says(bytes) ==
  /\ linked /\ May
  /\ Len(said) + Len(bytes) <= plan.said
  /\ said' = said \o bytes
  /\ tap' = TapAdd(tap, Len(said), bytes)
  /\ UNCHANGED <<plan, linked, busy, serverVars, net, peer, events>>

Event == May /\ events < plan.events /\ events' = events + 1

\* A settings session or a flash begins or ends
Session ==
  /\ IF busy THEN UNCHANGED events ELSE linked /\ Event
  /\ busy' = ~busy
  /\ UNCHANGED <<plan, said, tap, linked, serverVars, net, peer>>

\* The SVS is plugged in or out.
Replug ==
  /\ Event
  /\ linked' = ~linked
  /\ UNCHANGED <<plan, said, tap, busy, serverVars, net, peer>>

-----------------------------------------------------------------------------
(* The task *)

\* drop_client
Dropped(c) == client' = [d \in Open \ {c} |-> client[d]]

Gone(c) == [net EXCEPT ![c] = [NewConn EXCEPT !.state = "closed"]]

\* A send fails when the other end is gone, or does not read for a second.
MayFail(c) == net[c].state = "left" \/ net[c].down # <<>>

\* send_to: the bytes are sent and the client becomes c2, or it is dropped
Sends(c, c2, bytes) ==
  \/ /\ client' = [client EXCEPT ![c] = c2]
     /\ net' = [net EXCEPT ![c].down = @ \o bytes]
  \/ /\ bytes # <<>> /\ MayFail(c)
     /\ Dropped(c)
     /\ net' = Gone(c)

Idle == todo = Nothing
Todo(c, raised, data) ==
  IF raised \/ data # <<>> THEN [conn |-> c, raised |-> raised, data |-> data] ELSE Nothing

\* add_client: when all are taken, the oldest makes room.
Accept(c) ==
  /\ Idle /\ May
  /\ net[c].state = "new" /\ \A d \in 1..c - 1 : net[d].state # "new"
  /\ LET out == IF Cardinality(Open) = MaxClients THEN {d \in Open : \A e \in Open : d <= e} ELSE {}
     IN  /\ client' = [d \in {c} \cup (Open \ out) |-> IF d = c THEN Joined ELSE client[d]]
         /\ net' = [d \in Conns |->
                      IF d = c THEN [NewConn EXCEPT !.state = "open", !.down = Greeting]
                      ELSE IF d \in out THEN [NewConn EXCEPT !.state = "closed"] ELSE net[d]]
  /\ UNCHANGED <<svsVars, modem, todo, rested, peer, events>>

\* The modem state is read once in each pass.
Look ==
  /\ Idle
  /\ modem # (IF linked THEN MODEM_LINK_UP ELSE MODEM_LINK_DOWN)
  /\ modem' = IF linked THEN MODEM_LINK_UP ELSE MODEM_LINK_DOWN
  /\ UNCHANGED <<svsVars, client, todo, rested, net, peer, events>>

\* recv of the first n bytes under way, rfc2217_input, and its replies
Receive(c, n) ==
  LET bytes == SubSeq(net[c].up, 1, n)
      cut == n < Len(net[c].up)
  IN  /\ Idle
      /\ cut => peer[c].cut < plan.cuts
      /\ peer' = [peer EXCEPT ![c].cut = IF cut THEN @ + 1 ELSE @]
      /\ \E r \in {Input(client[c].proto, bytes, modem)} :
           \/ /\ client' = [client EXCEPT ![c].proto = r.s,
                                         ![c].whole = @ /\ IsWhole(r.io.reply)]
              /\ net' = [net EXCEPT ![c].up = SubSeq(@, n + 1, Len(@)),
                                    ![c].down = @ \o r.io.reply]
              /\ todo' = Todo(c, r.io.raised, r.io.data)
           \/ /\ r.io.reply # <<>> /\ MayFail(c)
              /\ Dropped(c)
              /\ net' = Gone(c)
              /\ UNCHANGED todo
      /\ UNCHANGED <<svsVars, modem, rested, events>>

\* recv tells that the other end left, at once or by TCP's keepalive.
ReceiveEnd(c) ==
  /\ Idle
  /\ net[c].state = "left" /\ net[c].up = <<>>
  /\ Dropped(c)
  /\ net' = Gone(c)
  /\ UNCHANGED <<svsVars, modem, todo, rested, peer, events>>

\* restart_for_dtr
RestartForDtr ==
  /\ todo.raised
  /\ rested' = (rested /\ (busy \/ ~linked))
  /\ todo' = Todo(todo.conn, FALSE, todo.data)
  /\ UNCHANGED <<svsVars, modem, client, net, peer, events>>

\* log_line's Y<n> and G<n>: one to three digits, line ends aside
IsEnd(b) == b \in {13, 10}
Trimmed(line) ==
  LET kept == {i \in DOMAIN line : ~IsEnd(line[i])}
  IN  IF kept = {} THEN <<>>
      ELSE SubSeq(line, CHOOSE i \in kept : \A j \in kept : i <= j,
                        CHOOSE i \in kept : \A j \in kept : i >= j)
IsAsk(cmd) ==
  Len(cmd) \in 2..4 /\ cmd[1] \in {89, 71} /\ \A i \in 2..Len(cmd) : cmd[i] \in Digits

\* mutant: a line that is too long stays
LogLineKeeps(k) == k

\* log_line
LogLine(k) ==
  LET cmd == Trimmed(k.line)
      input == Number(Tail(cmd))
  IN  IF ~IsAsk(cmd) THEN [k EXCEPT !.line = <<>>]
      ELSE [k EXCEPT !.line = <<>>, !.echo = Expect(input), !.late = FALSE,
                     !.asks = Append(@, [input |-> input,
                                         held |-> {k.echo.hold[i].at : i \in DOMAIN k.echo.hold}])]

Typed(k, b) ==
  LET kept == [k EXCEPT !.line = IF Len(@) < LineMax THEN Append(@, b) ELSE @]
  IN  IF b = Newline \/ Len(kept.line) = LineMax THEN LogLine(kept) ELSE kept

\* from_client, a byte after the other
TypedAll(k, bytes) ==
  LET after[i \in 0..Len(bytes)] ==
        IF i = 0 THEN k ELSE The({Typed(u, bytes[i]) : u \in {after[i - 1]}})
  IN  after[Len(bytes)]

\* from_client: all of it is sent, or refused and the line with it
FromClient ==
  LET c == todo.conn
      sent == IF linked /\ ~busy THEN TypedAll(client[c], todo.data) ELSE [client[c] EXCEPT !.line = <<>>]
  IN  /\ ~todo.raised /\ todo.data # <<>>
      /\ client' = [client EXCEPT ![c] = [sent EXCEPT !.passed = @ \o todo.data]]
      /\ todo' = Nothing
      /\ UNCHANGED <<svsVars, modem, rested, net, peer, events>>

\* The modem state, once at the beginning and whenever it changed
Announce(c) ==
  /\ Idle
  /\ client[c].modem # modem
  /\ Sends(c, [client[c] EXCEPT !.modem = modem], ModemState(modem))
  /\ UNCHANGED <<svsVars, modem, todo, rested, peer, events>>

\* send_text of items to client c, whose echo filter is e from now on
SendsText(c, k, e, items) ==
  Sends(c, [k EXCEPT !.echo = e, !.late = @ /\ e.input # NoInput,
                     !.got = @ \o [i \in DOMAIN items |-> items[i].at]],
        Escape(Bytes(items)))

\* rfc2217_echo_release, after ECHO_WAIT_MS
Release(c) ==
  /\ Idle
  /\ client[c].late
  /\ SendsText(c, client[c], NoEcho, client[c].echo.hold)
  /\ UNCHANGED <<svsVars, modem, todo, rested, peer, events>>

\* mutant: who falls behind starts again at the newest byte
SinceHead(pos) == IF Len(said) - pos > TapSize THEN Len(said) ELSE pos

\* rx_since: from where it reads, and how far it comes
Since(pos) == IF Len(said) - pos > TapSize THEN Len(said) - TapSize ELSE pos
Until(pos) == IF Len(said) - Since(pos) > RawMax THEN Since(pos) + RawMax ELSE Len(said)
Tapped(pos) == [i \in 1..Until(pos) - Since(pos) |-> tap[(Since(pos) + i - 1) % TapSize]]

\* One round of the loop that gives a client what the SVS said
Drain(c) ==
  LET k == client[c]
  IN  /\ Idle
      /\ k.pos # Len(said)
      /\ \E f \in {EchoFilter(k.echo, Tapped(k.pos))} :
           SendsText(c, [k EXCEPT !.pos = Until(@)], f.e, f.out)
      /\ UNCHANGED <<svsVars, modem, todo, rested, peer, events>>

\* Time passes.
EchoWaits(c) ==
  /\ client[c].echo.input # NoInput /\ ~client[c].late
  /\ client' = [client EXCEPT ![c].late = TRUE]
  /\ UNCHANGED <<svsVars, modem, todo, rested, net, peer, events>>

Rests ==
  /\ ~rested
  /\ rested' = TRUE
  /\ UNCHANGED <<svsVars, modem, client, todo, net, peer, events>>

-----------------------------------------------------------------------------
(* The programs at the other end *)

\* How it takes a verb, and what it answers
PeerTold(p, verb, opt) ==
  CASE verb = DO -> IF opt \in p.will THEN [p |-> p, says |-> <<>>]
                    ELSE IF opt \in Supported
                         THEN [p |-> [p EXCEPT !.will = @ \cup {opt}], says |-> <<IAC, WILL, opt>>]
                         ELSE [p |-> p, says |-> <<IAC, WONT, opt>>]
    [] verb = DONT -> IF opt \notin p.will THEN [p |-> p, says |-> <<>>]
                      ELSE [p |-> [p EXCEPT !.will = @ \ {opt}], says |-> <<IAC, WONT, opt>>]
    [] verb = WILL -> IF opt \in p.do THEN [p |-> p, says |-> <<>>]
                      ELSE IF opt \in Supported
                           THEN [p |-> [p EXCEPT !.do = @ \cup {opt}], says |-> <<IAC, DO, opt>>]
                           ELSE [p |-> p, says |-> <<IAC, DONT, opt>>]
    [] verb = WONT -> IF opt \notin p.do THEN [p |-> p, says |-> <<>>]
                      ELSE [p |-> [p EXCEPT !.do = @ \ {opt}], says |-> <<IAC, DONT, opt>>]

\* It reads all there is and answers.
Answers(p, verbs) ==
  LET after[i \in 0..Len(verbs)] ==
        IF i = 0 THEN [p |-> p, says |-> <<>>]
        ELSE The({[PeerTold(a.p, verbs[i][1], verbs[i][2]) EXCEPT !.says = a.says \o @] :
                    a \in {after[i - 1]}})
  IN  after[Len(verbs)]

PeerReads(c) ==
  /\ net[c].state = "open"
  /\ net[c].down # <<>>
  /\ \E read \in {Telnet(net[c].down)} : \E a \in {Answers(peer[c], read.verbs)} :
       /\ peer' = [peer EXCEPT ![c] = [a.p EXCEPT !.fresh = FALSE, !.heard = @ \o read.data]]
       /\ net' = [net EXCEPT ![c].up = @ \o a.says, ![c].down = <<>>]
  /\ UNCHANGED <<svsVars, serverVars, events>>

\* It sends something of its own accord: text, a command of the SVS, a
\* COM-PORT command.
Type(c, bytes) ==
  /\ May
  /\ net[c].state = "open"
  /\ peer[c].typed < plan.typed
  /\ peer' = [peer EXCEPT ![c].typed = @ + 1, ![c].text = @ \o Telnet(bytes).data]
  /\ net' = [net EXCEPT ![c].up = @ \o bytes]
  /\ UNCHANGED <<svsVars, serverVars, events>>

Quiet(c) == net[c].up = <<>> /\ net[c].down = <<>>

\* It offers or asks for a change of an option.
Request(c, verb, opt) ==
  LET p == peer[c]
      changed ==
        CASE verb = WILL -> [p EXCEPT !.will = @ \cup {opt}]
          [] verb = WONT -> [p EXCEPT !.will = @ \ {opt}]
          [] verb = DO -> [p EXCEPT !.do = @ \cup {opt}]
          [] verb = DONT -> [p EXCEPT !.do = @ \ {opt}]
  IN  /\ net[c].state = "open"
      /\ p.typed < plan.typed
      /\ Quiet(c) \/ (p.fresh /\ p.typed = 0)
      /\ changed # p
      /\ peer' = [peer EXCEPT ![c] = [changed EXCEPT !.typed = @ + 1]]
      /\ net' = [net EXCEPT ![c].up = @ \o <<IAC, verb, opt>>]
      /\ UNCHANGED <<svsVars, serverVars, events>>

\* It closes the connection, or vanishes.
Leave(c) ==
  /\ Event
  /\ net[c].state = "open"
  /\ net' = [net EXCEPT ![c].state = "left"]
  /\ UNCHANGED <<svsVars, serverVars, peer>>

-----------------------------------------------------------------------------
Task ==
  \/ Look
  \/ RestartForDtr
  \/ FromClient
  \/ \E c \in Open :
       \/ \E n \in 1..Len(net[c].up) : Receive(c, n)
       \/ ReceiveEnd(c) \/ Announce(c) \/ Release(c) \/ Drain(c)

Next ==
  \/ Task
  \/ Rests
  \/ \E bytes \in plan.sayings : Says(bytes)
  \/ Session \/ Replug
  \/ \E c \in Open : EchoWaits(c)
  \/ \E c \in 1..plan.conns :
       \/ Accept(c) \/ PeerReads(c) \/ Leave(c)
       \/ \E bytes \in plan.typings : Type(c, bytes)
       \/ \E verb \in WILL..DONT, opt \in plan.requests : Request(c, verb, opt)

Spec == Init /\ [][Next]_vars

\* The task runs; time passes; the programs at the other end read what they are
\* sent.  That much of it goes on is all that is needed: what there is to do for
\* a client comes to an end, so that its turn comes.
Progress == Task \/ \E c \in Open : EchoWaits(c) \/ PeerReads(c)

FairSpec == Spec /\ WF_vars(Progress)

-----------------------------------------------------------------------------
(* Properties *)

IsClient(k) ==
  /\ k.proto.st \in States /\ k.proto.we \in SUBSET we_accept /\ k.proto.they \in SUBSET they_accept
  /\ Len(k.proto.sb) <= SbMax /\ k.proto.dtr \in BOOLEAN
  /\ k.from <= k.pos /\ k.pos <= Len(said)
  /\ k.modem \in {-1, MODEM_LINK_UP, MODEM_LINK_DOWN}
  /\ Len(k.line) < LineMax
  /\ Len(k.echo.hold) < HoldMax
  /\ k.echo.input = NoInput => k.echo.hold = <<>> /\ ~k.late

\* Types; the line being typed and the line held always have room for a byte.
TypeOK ==
  /\ plan \in Plans
  /\ linked \in BOOLEAN /\ busy \in BOOLEAN /\ rested \in BOOLEAN
  /\ modem \in {MODEM_LINK_UP, MODEM_LINK_DOWN}
  /\ Cardinality(Open) <= MaxClients
  /\ \A c \in Open : IsClient(client[c]) /\ net[c].state \in {"open", "left"}
  /\ \A c \in Conns \ Open : net[c].state \in {"new", "closed"}
  /\ todo = Nothing \/ (todo.conn \in Open /\ (todo.raised \/ todo.data # <<>>))
  /\ \A i \in DOMAIN tap : tap[i].at \in 0..Len(said) /\ tap[i].b \in Byte

\* Both ways Telnet is transparent, the byte 255 and sequences that TCP cuts
\* included: once nothing is under way, the program at the other end read the
\* data that it was given (unless an answer to it had no room), and all it typed,
\* and nothing else, was sent to the SVS or refused.
Transparent ==
  \A c \in Open :
    /\ net[c].down = <<>> /\ client[c].whole =>
         peer[c].heard = [i \in DOMAIN client[c].got |-> said[client[c].got[i]]]
    /\ net[c].up = <<>> /\ todo.conn # c => client[c].passed = peer[c].text

\* What the SVS said and a client was given or is to be given, in order
Given(k) == k.got \o [i \in DOMAIN k.echo.hold |-> k.echo.hold[i].at]
\* What it will not get
Missing(k) == (k.from + 1)..k.pos \ {Given(k)[i] : i \in DOMAIN Given(k)}
Overwritten == 1..Len(said) - TapSize

\* l is from the first to the last byte of a line that is missing and that is the
\* number of an input it asked about, or could be, as its beginning was overwritten
IsAnswer(k, l) ==
  /\ l[1]..l[2] \subseteq Missing(k)
  /\ said[l[2]] = Newline
  /\ \A i \in l[1]..l[2] - 1 : said[i] # Newline
  /\ \/ \E a \in DOMAIN k.asks : LineIsNumber(SubSeq(said, l[1], l[2]), k.asks[a].input)
     \/ l[1] - 1 \in Overwritten /\ \A i \in l[1]..l[2] : said[i] \in Digits \cup Blanks
Answered(k) == {l \in (k.from + 1..k.pos) \X (k.from + 1..k.pos) : l[1] <= l[2] /\ IsAnswer(k, l)}

\* A client is given what the SVS says in its order and once.  It misses only what
\* was overwritten before it was read, lines that are the number of an input it
\* asked about, one for each time it asked, and what was held when it asked again.
OnlyEchoMissing ==
  \A c \in Open :
    LET k == client[c]
    IN  /\ \A i \in 1..Len(Given(k)) - 1 : Given(k)[i] < Given(k)[i + 1]
        /\ Cardinality({l[2] : l \in Answered(k)} \ Overwritten) <= Len(k.asks)
        /\ \A n \in Missing(k) :
             \/ n \in Overwritten
             \/ \E l \in Answered(k) : n \in l[1]..l[2]
             \/ \E a \in DOMAIN k.asks : n \in k.asks[a].held

\* Both ends agree on every option that is remembered.
Agree(c) ==
  \A opt \in we_accept :
    /\ (opt \in client[c].proto.they) <=> (opt \in peer[c].will)
    /\ (opt \in client[c].proto.we) <=> (opt \in peer[c].do)

\* In the end every client that stays was given all the SVS said, what was held
\* for an echo that never came included, and knows whether the SVS is plugged in;
\* and no option is bounced back and forth for ever: nothing is under way any more,
\* and both ends agree.
Settles ==
  <>[](\A c \in Open : /\ Quiet(c) /\ Agree(c)
                       /\ client[c].pos = Len(said) /\ client[c].echo.hold = <<>>
                       /\ client[c].modem = (IF linked THEN MODEM_LINK_UP ELSE MODEM_LINK_DOWN))
=============================================================================
