----------------------------- MODULE Rfc2217Proto -----------------------------
(***************************************************************************)
(* RFC 2217 (a serial port over Telnet), without sockets: rfc2217_proto.c. *)
(*                                                                         *)
(* Bytes are numbers, as in the code. The parser takes one byte at a time, *)
(* so that what a client sends may be cut anywhere; its result is a record *)
(* [s, io]: the state rfc2217_t and what came out of it, rfc2217_io_t.     *)
(* What the SVS sends is a sequence of items [at, b]: a byte and its place *)
(* in all the SVS ever sent, which the code does not know and never looks  *)
(* at.                                                                     *)
(*                                                                         *)
(* Left out: rfc2217_describe, which words bytes for the traffic log, and  *)
(* the cap of the data buffer, which has room for all of the input.        *)
(***************************************************************************)
EXTENDS Integers, Sequences

CONSTANTS
  SbMax,     \* RFC2217_SB_MAX
  ReplyMax,  \* the room for replies to one input: 256
  HoldMax    \* RFC2217_ECHO_HOLD_MAX

ASSUME ProtoAssumption == SbMax \in Nat /\ ReplyMax \in Nat /\ HoldMax \in Nat \ {0}

IAC == 255
DONT == 254
DO == 253
WONT == 252
WILL == 251
SB == 250
SE == 240
OPT_BINARY == 0
OPT_SGA == 3
OPT_COM_PORT == 44
CPO_SIGNATURE == 0
CPO_SET_BAUDRATE == 1
CPO_SET_CONTROL == 5
CPO_NOTIFY_LINESTATE == 6
CPO_NOTIFY_MODEMSTATE == 7
\* The flow control commands, which are not answered
CPO_FLOWCONTROL == {8, 9}
\* The settings that are remembered, and how many bytes each has: baud rate,
\* data bits, parity, stop bits
SettingWidth == [c \in 1..4 |-> IF c = CPO_SET_BAUDRATE THEN 4 ELSE 1]
SERVER_OFFSET == 100
CONTROL_DTR_ON == 8
CONTROL_DTR_OFF == 9
SIGNATURE == <<83, 86, 83, 32, 66, 114, 105, 100, 103, 101>>

\* Options we accept: ours and theirs
we_accept == {OPT_BINARY, OPT_SGA}
they_accept == {OPT_BINARY, OPT_SGA, OPT_COM_PORT}

\* The element of a set of one.  The({F(x) : x \in {e}}) is F(e), with e evaluated once.
The(S) == CHOOSE x \in S : TRUE

\* bit: the options that are remembered, those below 32
Bit(opt) == IF opt < 32 THEN {opt} ELSE {}

Byte == 0..255
States == {"data", "iac", "verb", "sb", "sb_iac"}

\* rfc2217_init
Fresh ==
  [st |-> "data", verb |-> 0, sb |-> <<>>, overflow |-> FALSE, we |-> {}, they |-> {},
   set |-> <<(<<0, 0, 37, 128>>), (<<8>>), (<<1>>), (<<1>>)>>, dtr |-> FALSE]

-----------------------------------------------------------------------------
(* What the server says *)

\* put, for each byte: what does not fit is left out
Put(io, bytes) ==
  LET all == io.reply \o bytes
  IN  [io EXCEPT !.reply = SubSeq(all, 1, IF Len(all) < ReplyMax THEN Len(all) ELSE ReplyMax)]

\* mutant: 255 is sent as it is
EscapeNot(bytes) == bytes

\* rfc2217_escape: the byte 255 doubled
Escape(bytes) ==
  LET upTo[i \in 0..Len(bytes)] ==
        IF i = 0 THEN <<>>
        ELSE upTo[i - 1] \o (IF bytes[i] = IAC THEN <<IAC, IAC>> ELSE <<bytes[i]>>)
  IN  upTo[Len(bytes)]

\* put_cpo: a COM-PORT reply
Cpo(cmd, payload) ==
  <<IAC, SB, OPT_COM_PORT, (cmd + SERVER_OFFSET) % 256>> \o Escape(payload) \o <<IAC, SE>>

\* rfc2217_modemstate
ModemState(modem) == Cpo(CPO_NOTIFY_MODEMSTATE, <<modem>>)

\* rfc2217_greeting
Greeting ==
  <<IAC, WILL, OPT_BINARY, IAC, DO, OPT_BINARY, IAC, WILL, OPT_SGA, IAC, DO, OPT_SGA,
    IAC, DO, OPT_COM_PORT>>

Greeted(s) == [s EXCEPT !.we = @ \cup we_accept, !.they = @ \cup we_accept]

-----------------------------------------------------------------------------
(* What the client says *)

\* on_verb.  Answers only when our side's state changes; COM-PORT is not
\* remembered, and a WILL of it is always confirmed.
Answer(s, verb, opt) ==
  LET Says(v) == <<IAC, v, opt>>
      Unless(same, v) == IF same THEN <<>> ELSE Says(v)
  IN  CASE opt = OPT_COM_PORT ->
             CASE verb = WILL -> Says(DO)
               [] verb = DO -> Says(WONT)
               [] OTHER -> <<>>
        [] opt # OPT_COM_PORT /\ verb = WILL ->
             IF opt \in they_accept THEN Unless(opt \in s.they, DO) ELSE Says(DONT)
        [] opt # OPT_COM_PORT /\ verb = WONT -> Unless(opt \notin s.they, DONT)
        [] opt # OPT_COM_PORT /\ verb = DO ->
             IF opt \in we_accept THEN Unless(opt \in s.we, WILL) ELSE Says(WONT)
        [] opt # OPT_COM_PORT /\ verb = DONT -> Unless(opt \notin s.we, WONT)

\* mutant: a refusal is not remembered
ToldForgets(s, verb, opt) ==
  CASE verb = WILL -> [s EXCEPT !.they = @ \cup (Bit(opt) \cap they_accept)]
    [] verb = DO -> [s EXCEPT !.we = @ \cup (Bit(opt) \cap we_accept)]
    [] OTHER -> s

Told(s, verb, opt) ==
  CASE opt = OPT_COM_PORT -> s
    [] opt # OPT_COM_PORT /\ verb = WILL -> [s EXCEPT !.they = @ \cup (Bit(opt) \cap they_accept)]
    [] opt # OPT_COM_PORT /\ verb = WONT -> [s EXCEPT !.they = @ \ {opt}]
    [] opt # OPT_COM_PORT /\ verb = DO -> [s EXCEPT !.we = @ \cup (Bit(opt) \cap we_accept)]
    [] opt # OPT_COM_PORT /\ verb = DONT -> [s EXCEPT !.we = @ \ {opt}]

OnVerb(r, verb, opt) ==
  [s |-> Told(r.s, verb, opt), io |-> Put(r.io, Answer(r.s, verb, opt))]

\* on_subneg: the command, its argument, and what it answers
Command(s) == s.sb[2]
Argument(s) == SubSeq(s.sb, 3, Len(s.sb))

\* The last value asked for; zero only asks
Setting(s, cmd, arg) ==
  LET value == SubSeq(arg, 1, SettingWidth[cmd])
  IN  IF \A i \in DOMAIN value : value[i] = 0 THEN s.set[cmd] ELSE value

Subneg(r, modem) ==
  LET cmd == Command(r.s)
      arg == Argument(r.s)
      Says(payload) == Put(r.io, Cpo(cmd, payload))
  IN  CASE cmd = CPO_SIGNATURE ->
             IF arg = <<>> THEN [r EXCEPT !.io = Says(SIGNATURE)] ELSE r
        [] cmd \in DOMAIN SettingWidth ->
             IF Len(arg) < SettingWidth[cmd] THEN r
             ELSE [s |-> [r.s EXCEPT !.set[cmd] = Setting(r.s, cmd, arg)],
                   io |-> Says(Setting(r.s, cmd, arg))]
        [] cmd = CPO_NOTIFY_MODEMSTATE -> [r EXCEPT !.io = Says(<<modem>>)]
        [] cmd = CPO_NOTIFY_LINESTATE -> [r EXCEPT !.io = Says(<<96>>)]
        [] cmd \in CPO_FLOWCONTROL -> r
        [] cmd = CPO_SET_CONTROL ->
             IF arg = <<>> THEN r
             ELSE [s |-> [r.s EXCEPT !.dtr = (arg[1] = CONTROL_DTR_ON)
                                             \/ (@ /\ arg[1] # CONTROL_DTR_OFF)],
                   io |-> [Says(<<arg[1]>>) EXCEPT
                             !.raised = @ \/ (arg[1] = CONTROL_DTR_ON /\ ~r.s.dtr)]]
        [] OTHER -> IF arg = <<>> THEN r ELSE [r EXCEPT !.io = Says(<<arg[1]>>)]

OnSubneg(r, modem) ==
  IF r.s.overflow \/ Len(r.s.sb) < 2 \/ r.s.sb[1] # OPT_COM_PORT THEN r ELSE Subneg(r, modem)

\* A byte of a subnegotiation: too many are noted, not kept
Keep(s, b) ==
  IF Len(s.sb) < SbMax THEN [s EXCEPT !.sb = Append(@, b)] ELSE [s EXCEPT !.overflow = TRUE]

\* rfc2217_input, one byte
Take(r, b, modem) ==
  LET To(st) == [r EXCEPT !.s.st = st]
      Data == [r EXCEPT !.s.st = "data", !.io.data = Append(@, b)]
  IN  CASE r.s.st = "data" -> IF b = IAC THEN To("iac") ELSE Data
        [] r.s.st = "iac" ->
             CASE b = IAC -> Data
               [] b \in WILL..DONT -> [r EXCEPT !.s.st = "verb", !.s.verb = b]
               [] b = SB -> [r EXCEPT !.s.st = "sb", !.s.sb = <<>>, !.s.overflow = FALSE]
               [] OTHER -> To("data")
        [] r.s.st = "verb" -> [OnVerb(r, r.s.verb, b) EXCEPT !.s.st = "data"]
        [] r.s.st = "sb" -> IF b = IAC THEN To("sb_iac") ELSE [r EXCEPT !.s = Keep(r.s, b)]
        [] r.s.st = "sb_iac" ->
             CASE b = IAC -> [r EXCEPT !.s = [Keep(r.s, b) EXCEPT !.st = "sb"]]
               [] b = SE -> [OnSubneg(r, modem) EXCEPT !.s.st = "data"]
               [] OTHER -> To("sb")

Input(s, bytes, modem) ==
  LET after[i \in 0..Len(bytes)] ==
        IF i = 0 THEN [s |-> s, io |-> [data |-> <<>>, reply |-> <<>>, raised |-> FALSE]]
        ELSE The({Take(r, bytes[i], modem) : r \in {after[i - 1]}})
  IN  after[Len(bytes)]

-----------------------------------------------------------------------------
(* The input number that the SVS puts before the value of Y<n> and G<n> *)

NoInput == -1
Newline == 10
Digits == 48..57
Blanks == {32, 13, 10}

\* rfc2217_echo_init
NoEcho == [input |-> NoInput, hold |-> <<>>]

\* rfc2217_echo_expect: whatever is held is forgotten
Expect(input) == [input |-> input, hold |-> <<>>]

\* The number a sequence of bytes spells, NoInput if it has no digit
Number(bytes) ==
  LET upTo[i \in 0..Len(bytes)] ==
        IF i = 0 THEN NoInput
        ELSE IF bytes[i] \notin Digits THEN upTo[i - 1]
        ELSE (IF upTo[i - 1] = NoInput THEN 0 ELSE upTo[i - 1] * 10) + bytes[i] - 48
  IN  upTo[Len(bytes)]

Bytes(items) == [i \in DOMAIN items |-> items[i].b]

\* line_is_number
LineIsNumber(bytes, want) ==
  /\ \A i \in DOMAIN bytes : bytes[i] \in Digits \cup Blanks
  /\ Number(bytes) = want

\* rfc2217_echo_filter, one byte; e is [input, hold], out what goes on
FilterOne(f, item) ==
  LET hold == Append(f.e.hold, item)
      goesOn == f.out \o hold
  IN  CASE f.e.input = NoInput -> [f EXCEPT !.out = Append(@, item)]
        [] f.e.input # NoInput /\ item.b = Newline ->
             IF LineIsNumber(Bytes(hold), f.e.input) THEN [f EXCEPT !.e = NoEcho]
             ELSE [e |-> Expect(f.e.input), out |-> goesOn]
        [] f.e.input # NoInput /\ item.b # Newline ->
             IF Len(hold) = HoldMax THEN [e |-> NoEcho, out |-> goesOn]
             ELSE [f EXCEPT !.e.hold = hold]

EchoFilter(e, items) ==
  LET after[i \in 0..Len(items)] ==
        IF i = 0 THEN [e |-> e, out |-> <<>>]
        ELSE The({FilterOne(f, items[i]) : f \in {after[i - 1]}})
  IN  after[Len(items)]
-----------------------------------------------------------------------------
(* The program at the other end reads: where it is in a command of Telnet, the *)
(* data so far, and the verbs with their options                              *)

Fragment == [at |-> "data", verb |-> DONT, data |-> <<>>, verbs |-> <<>>]

ReadOne(t, b) ==
  LET Data == [t EXCEPT !.at = "data", !.data = Append(@, b)]
  IN  CASE t.at = "data" -> IF b = IAC THEN [t EXCEPT !.at = "command"] ELSE Data
        [] t.at = "command" ->
             CASE b = IAC -> Data
               [] b \in WILL..DONT -> [t EXCEPT !.at = "option", !.verb = b]
               [] b = SB -> [t EXCEPT !.at = "inside"]
               [] OTHER -> [t EXCEPT !.at = "data"]
        [] t.at = "option" -> [t EXCEPT !.at = "data", !.verbs = Append(@, <<t.verb, b>>)]
        [] t.at = "inside" -> [t EXCEPT !.at = IF b = IAC THEN "end" ELSE "inside"]
        [] t.at = "end" -> [t EXCEPT !.at = IF b = SE THEN "data" ELSE "inside"]

Read(t, bytes) ==
  LET upTo[i \in 0..Len(bytes)] ==
        IF i = 0 THEN t ELSE The({ReadOne(u, bytes[i]) : u \in {upTo[i - 1]}})
  IN  upTo[Len(bytes)]

Telnet(bytes) == Read(Fragment, bytes)

\* Commands only, and none cut
IsWhole(bytes) == Telnet(bytes).at = "data" /\ Telnet(bytes).data = <<>>
=============================================================================
