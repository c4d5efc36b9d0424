---------------------------- MODULE SvsSettings ----------------------------
(***************************************************************************)
(* Reading and saving the settings of the SVS over the serial line:         *)
(* svs_settings.cpp on top of the settings sessions of svs_usb.cpp.         *)
(*                                                                         *)
(* The background task asks the SVS byte by byte, and an answer is only a   *)
(* number: nothing in it says which question it answers.  Between any two   *)
(* steps of the task the SVS can be pulled or swapped, the answer can be    *)
(* lost or late, and others can talk to the SVS.                            *)
(*                                                                         *)
(* What interferes in a behaviour is its faults, one of Scenarios:          *)
(*   "swap"     the SVS is unplugged and another, or the same, plugged in   *)
(*   "silent"   the HD-15 of the RetroTINK is plugged in now and then, so   *)
(*              that the SVS hears nothing                                  *)
(*   "late"     an answer arrives after the bridge gave up waiting          *)
(*   "console"  a command is typed on the serial console of the bridge      *)
(*   "remote"   someone selects another input                               *)
(*   "power"    the bridge loses power                                      *)
(*                                                                         *)
(* Left out: progress texts, the traffic log, and the answers to Y1 and G1  *)
(* that a read collects for the log (query_all ends by emptying the queue). *)
(***************************************************************************)
EXTENDS SvsConfig

CONSTANTS
  SVS, NoSvs,
  InputsOf,        \* InputsOf[s]: inputs the SVS s reports
  Chips,           \* Chips[s]: EEPROM contents s may start with
  Wants,           \* Wants[f]: settings asked for in behaviours with the faults f
  Scenarios,       \* sets of disturbances that occur together
  ATTEMPTS,        \* how often a question is asked
  QueueSize,       \* lines s_answers has room for: 8
  MaxConnections,  \* bound on the connections counted between restarts
  MaxTyped,        \* bound on the commands typed
  MaxRestarts      \* bound on the restarts by "power"; after any other one, no SVS is opened

ASSUME ScenariosAssumption ==
  \A f \in Scenarios : f \subseteq {"swap", "silent", "late", "console", "remote", "power"}
ASSUME SvsAssumption ==
  /\ NoSvs \notin SVS
  /\ InputsOf \in [SVS -> Nat]
  /\ \A s \in SVS : \A e \in Chips[s] : e \in [DOMAIN e -> Byte]
ASSUME WantsAssumption ==
  \A f \in Scenarios :
    Wants[f] \subseteq Seq([auto_profile : BOOLEAN, rgsb : BOOLEAN, sync_bypass : BOOLEAN,
                           ir : Seq(IrCode), rgb_to_ypbpr : BOOLEAN, ypbpr_to_rgb : BOOLEAN])
ASSUME SizesAssumption ==
  /\ ATTEMPTS \in Nat \ {0}
  /\ QueueSize \in Nat \ {0, 1}   \* room for both lines of a transcoder's answer
  /\ MaxConnections \in Nat /\ MaxTyped \in Nat /\ MaxRestarts \in Nat

VARIABLES
  faults,       \* what disturbs this behaviour, one of Scenarios
  typed,        \* how many commands were typed on the console
  port,         \* the SVS in the USB port
  dev,          \* s_dev: the SVS device_task has open
  alive,        \* the open handle still reaches the SVS in the port
  connections,  \* s_info.connections
  restarts,     \* how often the bridge restarted
  current,      \* s_info.current_input, Unknown until the SVS reported
  eeprom,       \* eeprom[s]: the EEPROM of s
  converts,     \* converts[s][<<n, x>>]: transcoder x is on for input n of s
  screen,       \* screen[s]: the input s shows
  wire,         \* lines of the SVS on their way to rx_print_task
  answers,      \* s_answers
  session,      \* s_session
  task,         \* s_task
  pc,           \* where the background task is
  read,         \* s_read
  want,         \* s_want
  r,            \* the task's own Read
  left,         \* what a write still has to do of its current part
  attempt,      \* of the current question
  prev,         \* the input to go back to
  outcome       \* how the task is ending

envVars == <<faults, typed>>
busVars == <<port, dev, alive, connections, restarts>>
svsVars == <<eeprom, converts, screen>>
lineVars == <<wire, answers>>
jobVars == <<r, left, attempt, prev, outcome>>
vars == <<envVars, port, dev, alive, connections, restarts, current, eeprom, converts, screen,
          wire, answers, session, task, pc, read, want, r, left, attempt, prev, outcome>>

Unknown == -1
\* The transcoders: Y (RGB to YPbPr) and G (YPbPr to RGB)
Transcoders == {"Y", "G"}
Field(x) == IF x = "Y" THEN "rgb_to_ypbpr" ELSE "ypbpr_to_rgb"
FittedIn(e, x) == Fitted(e, IF x = "Y" THEN TX_RGB_TO_YPBPR ELSE TX_YPBPR_TO_RGB)

Nothing == [a \in {} |-> {}]
NoRead == [valid |-> FALSE, connection |-> 0, inputs |-> 0, eeprom |-> Nothing, tx |-> Nothing]
NoWant == <<>>

\* The byte a line with the number i is parsed to (parse_byte_reply)
Number(i) == {b \in Bits : (i \div 2^b) % 2 = 1}

\* The settings a Read holds, transcoders included
Settings(rd) ==
  [n \in 1..rd.inputs |->
     LET on(x) == <<n, x>> \in DOMAIN rd.tx /\ rd.tx[<<n, x>>]
         s == decode_input(rd.eeprom, n, rd.inputs)
     IN  [auto_profile |-> s.auto_profile, rgsb |-> s.rgsb, sync_bypass |-> s.sync_bypass,
          ir |-> s.ir, rgb_to_ypbpr |-> on("Y"), ypbpr_to_rgb |-> on("G")]]

\* mutant: the connection count is not compared
ShownWhileOpen == read.valid /\ dev # NoSvs

\* status().snapshot.valid
Shown == read.valid /\ dev # NoSvs /\ read.connection = connections

Init ==
  /\ faults \in Scenarios
  /\ typed = 0
  /\ port \in SVS
  /\ dev = NoSvs
  /\ alive = FALSE
  /\ connections = 0
  /\ restarts = 0
  /\ current = Unknown
  /\ eeprom \in [SVS -> UNION {Chips[s] : s \in SVS}]
  /\ \A s \in SVS : eeprom[s] \in Chips[s]
  /\ converts = [s \in SVS |-> [p \in (1..InputsOf[s]) \X Transcoders |-> FALSE]]
  /\ screen = [s \in SVS |-> 0]
  /\ wire = <<>>
  /\ answers = <<>>
  /\ session = FALSE
  /\ task = "Idle"
  /\ pc = "idle"
  /\ read = NoRead
  /\ want = NoWant
  /\ r = NoRead
  /\ left = {}
  /\ attempt = 0
  /\ prev = Unknown
  /\ outcome = FALSE

-----------------------------------------------------------------------------
(* The SVS and the USB side *)

Plug(s) ==
  /\ "swap" \in faults
  /\ port = NoSvs
  /\ port' = s
  /\ UNCHANGED <<envVars, dev, alive, connections, restarts, current, svsVars, lineVars, session,
                 task, pc, read, want, jobVars>>

\* What is on the wire is lost with the link.
Unplug ==
  /\ "swap" \in faults
  /\ port # NoSvs
  /\ port' = NoSvs
  /\ alive' = FALSE
  /\ wire' = <<>>
  /\ UNCHANGED <<envVars, dev, connections, restarts, current, svsVars, answers, session, task,
                 pc, read, want, jobVars>>

Open ==
  /\ dev = NoSvs
  /\ port # NoSvs
  /\ connections < MaxConnections
  /\ restarts <= IF "power" \in faults THEN MaxRestarts ELSE 0
  /\ dev' = port
  /\ alive' = TRUE
  /\ connections' = connections + 1
  /\ UNCHANGED <<envVars, port, restarts, current, svsVars, lineVars, session, task, pc, read,
                 want, jobVars>>

\* device_task forgets what the SVS reported.
Close ==
  /\ dev # NoSvs
  /\ ~alive
  /\ dev' = NoSvs
  /\ current' = Unknown
  /\ UNCHANGED <<envVars, port, alive, connections, restarts, svsVars, lineVars, session, task,
                 pc, read, want, jobVars>>

\* The status lines every 2 s and after a change (parse_line). They carry the
\* firmware, the inputs and the input shown; they are no answers.
Report ==
  /\ alive
  /\ current # screen[port]
  /\ current' = screen[port]
  /\ UNCHANGED <<envVars, busVars, svsVars, lineVars, session, task, pc, read, want, jobVars>>

Select(n) ==
  /\ "remote" \in faults
  /\ port # NoSvs
  /\ n \in (0..InputsOf[port]) \ {screen[port]}
  /\ screen' = [screen EXCEPT ![port] = n]
  /\ UNCHANGED <<envVars, busVars, current, eeprom, converts, lineVars, session, task, pc, read,
                 want, jobVars>>

\* rx_print_task takes a line in; the queue is there for a session only.
Deliver ==
  /\ wire # <<>>
  /\ wire' = Tail(wire)
  /\ answers' = IF session /\ Len(answers) < QueueSize THEN Append(answers, Head(wire))
                ELSE answers
  /\ UNCHANGED <<envVars, busVars, current, svsVars, session, task, pc, read, want, jobVars>>

\* What the SVS answers to R<a>, and to Y<n> or G<n>: the input, then 0 for on and
\* 1, the byte {0}, for off
ByteLines(a) == IF a \in DOMAIN eeprom[port] THEN <<eeprom[port][a]>> ELSE <<>>
TranscoderLines(n, x) ==
  IF n \in 1..InputsOf[port]
  THEN <<Number(n), IF converts[port][<<n, x>>] THEN {} ELSE {0}>> ELSE <<>>

\* console_task sends whatever is typed, here one question.
Console(a) ==
  /\ "console" \in faults
  /\ alive
  /\ typed < MaxTyped
  /\ typed' = typed + 1
  /\ wire' = wire \o ByteLines(a)
  /\ UNCHANGED <<faults, busVars, current, svsVars, answers, session, task, pc, read, want,
                 jobVars>>

\* Nothing of the bridge's state survives; the EEPROM of the SVS keeps what it has.
BridgeRestart ==
  /\ restarts' = restarts + 1
  /\ dev' = NoSvs
  /\ alive' = FALSE
  /\ connections' = 0
  /\ current' = Unknown
  /\ wire' = <<>>
  /\ answers' = <<>>
  /\ session' = FALSE
  /\ task' = "Idle"
  /\ pc' = "idle"
  /\ read' = NoRead
  /\ want' = NoWant
  /\ r' = NoRead
  /\ left' = {}
  /\ attempt' = 0
  /\ prev' = Unknown
  /\ outcome' = FALSE
  /\ UNCHANGED <<envVars, port, svsVars>>

PowerLoss == "power" \in faults /\ restarts < MaxRestarts /\ BridgeRestart

-----------------------------------------------------------------------------
(* Handlers of the HTTPS server *)

\* read_blocker
CanRead == task = "Idle" /\ dev # NoSvs /\ current # Unknown

\* claim, then create the task, which can fail
Start(t) ==
  /\ task' = t
  /\ pc' = "begin"
  /\ UNCHANGED <<envVars, busVars, current, svsVars, lineVars, session, read, jobVars>>

StartRead ==
  /\ CanRead
  /\ Start("Reading")
  /\ UNCHANGED want

\* start_write keeps what a module or a missing transcoder cannot have.
Normalized(w) ==
  LET old == Settings(read)
      e == read.eeprom
  IN  [n \in 1..read.inputs |->
         [auto_profile |-> w[n].auto_profile,
          rgsb |-> IF ScartV3(e, n) \/ VgaV3(e, n) THEN w[n].rgsb ELSE old[n].rgsb,
          sync_bypass |-> IF ScartV3(e, n) THEN w[n].sync_bypass ELSE old[n].sync_bypass,
          ir |-> w[n].ir,
          rgb_to_ypbpr |-> IF FittedIn(e, "Y") THEN w[n].rgb_to_ypbpr ELSE old[n].rgb_to_ypbpr,
          ypbpr_to_rgb |-> IF FittedIn(e, "G") THEN w[n].ypbpr_to_rgb ELSE old[n].ypbpr_to_rgb]]

StartWrite(w) ==
  /\ CanRead
  /\ Shown
  /\ Len(w) = read.inputs
  /\ InputsOf[dev] = read.inputs
  /\ \A n \in 1..Len(w) : Len(w[n].ir) <= ir_slots(read.inputs)
  /\ want' = Normalized(w)
  /\ Start("Writing")

-----------------------------------------------------------------------------
(* Both tasks *)

Ending(ok) == pc' = "end" /\ outcome' = ok

EndWithoutSession ==                   \* mutant: a way out that keeps the session
  /\ pc = "end"
  /\ session' = (outcome /\ session)
  /\ pc' = "ended"
  /\ UNCHANGED <<envVars, busVars, current, svsVars, lineVars, task, read, want, jobVars>>

\* finish: the session ends first, then the task is idle.
EndSession ==
  /\ pc = "end"
  /\ session' = FALSE
  /\ pc' = "ended"
  /\ UNCHANGED <<envVars, busVars, current, svsVars, lineVars, task, read, want, jobVars>>

\* The task's locals go with it.
ToIdle ==
  /\ task' = "Idle"
  /\ pc' = "idle"
  /\ r' = NoRead
  /\ left' = {}
  /\ attempt' = 0
  /\ prev' = Unknown
  /\ outcome' = FALSE

Finish ==
  /\ pc = "ended"
  /\ ToIdle
  /\ UNCHANGED <<envVars, busVars, current, svsVars, lineVars, session, read, want>>

\* The question the task is at: <<"R", address>>, or <<x, input>> for the
\* transcoder x. A read goes through the bitmaps, then the transcoders fitted,
\* then the IR codes of each input up to its first empty slot.
BitmapsLeft == bitmap_addresses(r.inputs) \ DOMAIN r.eeprom

TranscodersLeft ==
  {p \in (1..r.inputs) \X Transcoders : FittedIn(r.eeprom, p[2])} \ DOMAIN r.tx

IrAddress(p) == ir_address_addr(p[1], p[2], r.inputs)
IrCommand(p) == ir_command_addr(p[1], p[2], r.inputs)

\* The rows of codes a read has come to: <<input, slot>>
IrLeft ==
  {p \in (1..r.inputs) \X (0..(ir_slots(r.inputs) - 1)) :
     /\ \A k \in 0..(p[2] - 1) : ~EndsList(r.eeprom, p[1], k, r.inputs)
     /\ ~({IrAddress(p), IrCommand(p)} \subseteq DOMAIN r.eeprom)}

ReadQuestion ==
  IF BitmapsLeft # {} THEN <<"R", Min(BitmapsLeft)>>
  ELSE IF TranscodersLeft # {}
  THEN LET n == Min({p[1] : p \in TranscodersLeft})
       IN  <<IF <<n, "Y">> \in TranscodersLeft THEN "Y" ELSE "G", n>>
  ELSE LET n == Min({p[1] : p \in IrLeft})
           p == CHOOSE p \in IrLeft : p[1] = n
       IN  <<"R", IF IrAddress(p) \in DOMAIN r.eeprom THEN IrCommand(p) ELSE IrAddress(p)>>

AllRead == BitmapsLeft = {} /\ TranscodersLeft = {} /\ IrLeft = {}

\* A write does its EEPROM bytes in ascending order.
NextPut == CHOOSE p \in left : \A q \in left : p[1] <= q[1]

Question == IF task = "Reading" THEN ReadQuestion ELSE <<"R", NextPut[1]>>

\* query or query_last up to the wait: the queue is emptied, the question sent
Ask ==
  /\ pc = "ask"
  /\ task = "Reading" => ~AllRead
  /\ answers' = <<>>
  /\ IF ~alive THEN pc' = "unanswered" /\ UNCHANGED wire
     ELSE /\ pc' = "await"
          /\ wire' \in {wire \o (IF Question[1] = "R" THEN ByteLines(Question[2])
                                 ELSE TranscoderLines(Question[2], Question[1]))}
                   \cup IF "silent" \in faults THEN {wire} ELSE {}
  /\ UNCHANGED <<envVars, busVars, current, svsVars, session, task, read, want, jobVars>>

TimeOutEarly ==                        \* mutant: waits less than the SVS takes
  /\ pc = "await"
  /\ answers = <<>>
  /\ pc' = "unanswered"
  /\ UNCHANGED <<envVars, busVars, current, svsVars, lineVars, session, task, read, want,
                 jobVars>>

\* The wait ends without an answer.
TimeOut ==
  /\ pc = "await"
  /\ answers = <<>>
  /\ wire = <<>> \/ "late" \in faults
  /\ pc' = "unanswered"
  /\ UNCHANGED <<envVars, busVars, current, svsVars, lineVars, session, task, read, want,
                 jobVars>>

UnansweredOnceMore ==                  \* mutant: off by one
  /\ pc = "unanswered"
  /\ IF attempt < ATTEMPTS
     THEN pc' = "ask" /\ attempt' = attempt + 1 /\ UNCHANGED <<r, left, prev, outcome>>
     ELSE Ending(FALSE) /\ UNCHANGED <<r, left, attempt, prev>>
  /\ UNCHANGED <<envVars, busVars, current, svsVars, lineVars, session, task, read, want>>

\* The next attempt, or "The SVS did not answer"
Unanswered ==
  /\ pc = "unanswered"
  /\ IF attempt + 1 < ATTEMPTS
     THEN pc' = "ask" /\ attempt' = attempt + 1 /\ UNCHANGED <<r, left, prev, outcome>>
     ELSE Ending(FALSE) /\ UNCHANGED <<r, left, attempt, prev>>
  /\ UNCHANGED <<envVars, busVars, current, svsVars, lineVars, session, task, read, want>>

With(f, x, v) == [y \in DOMAIN f \cup {x} |-> IF y = x THEN v ELSE f[y]]

\* An answer to R<a>: the first line in the queue
AnswerTo(a, v) ==
  IF task = "Reading"
  THEN /\ r' = [r EXCEPT !.eeprom = With(@, a, v)]
       /\ pc' = "ask"
       /\ attempt' = 0
       /\ UNCHANGED <<left, prev, outcome>>
  ELSE IF v = NextPut[2]
  THEN /\ r' = [r EXCEPT !.eeprom = With(@, a, v)]
       /\ left' = left \ {NextPut}
       /\ pc' = "check"
       /\ attempt' = 0
       /\ UNCHANGED <<prev, outcome>>
  ELSE Ending(FALSE) /\ UNCHANGED <<r, left, attempt, prev>>

Receive ==
  /\ pc = "await"
  /\ answers # <<>>
  /\ answers' = Tail(answers)
  /\ Question[1] = "R"
  /\ AnswerTo(Question[2], Head(answers))
  /\ UNCHANGED <<envVars, busVars, current, svsVars, wire, session, task, read, want>>

ReceiveFirst ==                        \* mutant: the first line is the answer
  /\ pc = "await"
  /\ answers # <<>>
  /\ wire = <<>> \/ "late" \in faults
  /\ Question[1] # "R"
  /\ answers' = <<>>
  /\ r' = [r EXCEPT !.tx = With(@, <<Question[2], Question[1]>>, Head(answers) = {})]
  /\ pc' = "ask"
  /\ attempt' = 0
  /\ UNCHANGED <<envVars, busVars, current, svsVars, wire, session, task, read, want, left, prev,
                 outcome>>

\* query_last: the last line that comes without a pause counts.
ReceiveLast ==
  /\ pc = "await"
  /\ answers # <<>>
  /\ wire = <<>> \/ "late" \in faults
  /\ Question[1] # "R"
  /\ answers' = <<>>
  /\ r' = [r EXCEPT !.tx = With(@, <<Question[2], Question[1]>>,
                                 answers[Len(answers)] = {})]
  /\ pc' = "ask"
  /\ attempt' = 0
  /\ UNCHANGED <<envVars, busVars, current, svsVars, wire, session, task, read, want, left, prev,
                 outcome>>

-----------------------------------------------------------------------------
(* read_task *)

\* A read started for an SVS that is gone by now has no inputs to read.
BeginRead ==
  /\ pc = "begin"
  /\ task = "Reading"
  /\ r' = [NoRead EXCEPT !.connection = connections,
             !.inputs = IF current = Unknown THEN Unknown ELSE InputsOf[dev]]
  /\ session' = TRUE
  /\ answers' = <<>>
  /\ pc' = "ask"
  /\ UNCHANGED <<envVars, busVars, current, svsVars, wire, task, read, want, left, attempt, prev,
                 outcome>>

\* Sizing the settings for -1 inputs throws, which restarts the bridge.
Abort ==
  /\ pc = "ask"
  /\ task = "Reading"
  /\ r.inputs = Unknown
  /\ BitmapsLeft = {}
  /\ BridgeRestart

StoreRead ==
  /\ pc = "ask"
  /\ task = "Reading"
  /\ r.inputs # Unknown
  /\ AllRead
  /\ read' = [r EXCEPT !.valid = TRUE]
  /\ Ending(TRUE)
  /\ UNCHANGED <<envVars, busVars, current, svsVars, lineVars, session, task, want, r, left,
                 attempt, prev>>

-----------------------------------------------------------------------------
(* write_task *)

Plan == plan_writes(read.eeprom, want, read.inputs)

\* The transcoders to set, in the order of the inputs
Changes ==
  {p \in (1..r.inputs) \X Transcoders : want[p[1]][Field(p[2])] # Settings(r)[p[1]][Field(p[2])]}

BeginWrite ==
  /\ pc = "begin"
  /\ task = "Writing"
  /\ r' = read
  /\ session' = TRUE
  /\ answers' = <<>>
  /\ IF CanPlan(read.eeprom, want, read.inputs)
     THEN left' = Plan /\ pc' = "save" /\ UNCHANGED outcome
     ELSE Ending(FALSE) /\ UNCHANGED left
  /\ UNCHANGED <<envVars, busVars, current, svsVars, wire, task, read, want, attempt, prev>>

\* One W command; the SVS gives no answer to it.
Save ==
  /\ pc = "save"
  /\ left # {}
  /\ IF ~alive THEN Ending(FALSE) /\ UNCHANGED <<eeprom, left>>
     ELSE /\ left' = left \ {NextPut}
          /\ eeprom' \in {[eeprom EXCEPT ![port] = Written(@, {NextPut})]}
                     \cup IF "silent" \in faults THEN {eeprom} ELSE {}
          /\ UNCHANGED <<pc, outcome>>
  /\ UNCHANGED <<envVars, busVars, current, converts, screen, lineVars, session, task, read,
                 want, r, attempt, prev>>

\* All bytes are sent: each is read back.
BeginCheck ==
  /\ pc = "save"
  /\ left = {}
  /\ left' = Plan
  /\ pc' = "check"
  /\ UNCHANGED <<envVars, busVars, current, svsVars, lineVars, session, task, read, want, r,
                 attempt, prev, outcome>>

Check ==
  /\ pc = "check"
  /\ left # {}
  /\ pc' = "ask"
  /\ UNCHANGED <<envVars, busVars, current, svsVars, lineVars, session, task, read, want,
                 jobVars>>

\* All bytes are confirmed: the transcoders are next, if any changes.
BeginTranscoders ==
  /\ pc = "check"
  /\ left = {}
  /\ left' = Changes
  /\ prev' = IF current > 0 THEN current ELSE 0
  /\ outcome' = TRUE
  /\ pc' = IF Changes = {} THEN "store" ELSE "switch"
  /\ UNCHANGED <<envVars, busVars, current, svsVars, lineVars, session, task, read, want, r,
                 attempt>>

NextChange ==
  LET n == Min({p[1] : p \in left})
  IN  <<n, IF <<n, "Y">> \in left THEN "Y" ELSE "G">>

\* What a command changes if the SVS hears it
Heard(f, g) == {f} \cup IF "silent" \in faults THEN {g} ELSE {}

\* A transcoder is set for the input on screen, so that comes first.
Switch ==
  /\ pc = "switch"
  /\ IF left = {} THEN pc' = "restore" /\ UNCHANGED <<screen, outcome>>
     ELSE IF ~alive THEN pc' = "restore" /\ outcome' = FALSE /\ UNCHANGED screen
     ELSE /\ screen' \in Heard([screen EXCEPT ![port] = NextChange[1]], screen)
          /\ pc' = "wait"
          /\ UNCHANGED outcome
  /\ UNCHANGED <<envVars, busVars, current, eeprom, converts, lineVars, session, task, read,
                 want, r, left, attempt, prev>>

WaitForInputForever ==                 \* mutant: no timeout
  /\ pc = "wait"
  /\ current = NextChange[1]
  /\ pc' = "set"
  /\ UNCHANGED <<envVars, busVars, current, svsVars, lineVars, session, task, read, want, r,
                 left, attempt, prev, outcome>>

\* wait_for_input: the SVS reports the input, or has not within 3 s.
WaitForInput ==
  /\ pc = "wait"
  /\ \/ /\ current = NextChange[1]
        /\ pc' = "set"
        /\ UNCHANGED outcome
     \/ /\ current # NextChange[1]
        /\ alive => screen[port] # NextChange[1]
        /\ pc' = "restore"
        /\ outcome' = FALSE
  /\ UNCHANGED <<envVars, busVars, current, svsVars, lineVars, session, task, read, want, r,
                 left, attempt, prev>>

Set ==
  /\ pc = "set"
  /\ LET x == NextChange[2]
         on == want[NextChange[1]][Field(x)]
         shown == <<screen[port], x>>
     IN  IF ~alive THEN pc' = "restore" /\ outcome' = FALSE /\ UNCHANGED converts
         ELSE /\ converts' \in
                   Heard(IF shown \in DOMAIN converts[port]
                         THEN [converts EXCEPT ![port][shown] = on] ELSE converts, converts)
              /\ pc' = "confirm"
              /\ UNCHANGED outcome
  /\ UNCHANGED <<envVars, busVars, current, eeprom, screen, lineVars, session, task, read, want,
                 r, left, attempt, prev>>

\* query_all: its answer decides only what is reported. The lines of the
\* window are dropped from the queue; late ones are still on their way.
Confirm ==
  /\ pc = "confirm"
  /\ r' = [r EXCEPT !.tx = With(@, NextChange, want[NextChange[1]][Field(NextChange[2])])]
  /\ left' = left \ {NextChange}
  /\ answers' = <<>>
  /\ wire' \in {<<>>} \cup IF "late" \in faults /\ alive
                           THEN {wire \o TranscoderLines(NextChange[1], NextChange[2])} ELSE {}
  /\ pc' = "switch"
  /\ UNCHANGED <<envVars, busVars, current, svsVars, session, task, read, want, attempt, prev,
                 outcome>>

\* Back to the input that was on screen, also after a failure
Restore ==
  /\ pc = "restore"
  /\ screen' \in IF alive THEN Heard([screen EXCEPT ![port] = prev], screen) ELSE {screen}
  /\ pc' = "store"
  /\ UNCHANGED <<envVars, busVars, current, eeprom, converts, lineVars, session, task, read,
                 want, jobVars>>

StoreWriteKeepsRead ==                 \* mutant: the snapshot is not brought up to date
  /\ pc = "store"
  /\ pc' = "end"
  /\ UNCHANGED <<envVars, busVars, current, svsVars, lineVars, session, task, read, want,
                 jobVars>>

\* What was saved is kept either way.
StoreWrite ==
  /\ pc = "store"
  /\ read' = r
  /\ pc' = "end"
  /\ UNCHANGED <<envVars, busVars, current, svsVars, lineVars, session, task, want, jobVars>>

-----------------------------------------------------------------------------
Environment ==
  \/ \E s \in SVS : Plug(s)
  \/ Unplug \/ Open \/ Close \/ Report
  \/ \E n \in UNION {0..InputsOf[s] : s \in SVS} : Select(n)
  \/ \E a \in {AUTO_PROFILE_BASE, RGSB_BASE} : Console(a)
  \/ PowerLoss

Handlers == StartRead \/ \E w \in Wants[faults] : StartWrite(w)

Background ==
  \/ EndSession \/ Finish \/ Ask \/ TimeOut \/ Unanswered \/ Receive \/ ReceiveLast
  \/ BeginRead \/ Abort \/ StoreRead
  \/ BeginWrite \/ Save \/ BeginCheck \/ Check \/ BeginTranscoders
  \/ Switch \/ WaitForInput \/ Set \/ Confirm \/ Restore \/ StoreWrite

Next == Environment \/ Deliver \/ Handlers \/ Background

Spec == Init /\ [][Next]_vars

\* Lines arrive, status lines are repeated, and every wait has a timeout.
FairSpec == Spec /\ WF_vars(Deliver) /\ WF_vars(Report) /\ WF_vars(Background)

-----------------------------------------------------------------------------
(* Properties *)

\* The SVS gets and answers all it is sent, and in time.
Heeded == faults \cap {"silent", "late", "console"} = {}

TypeOK ==
  /\ port \in SVS \cup {NoSvs}
  /\ dev \in SVS \cup {NoSvs}
  /\ alive \in BOOLEAN /\ session \in BOOLEAN /\ outcome \in BOOLEAN
  /\ connections \in 0..MaxConnections
  /\ restarts \in 0..(MaxRestarts + 1)
  /\ faults \in Scenarios /\ typed \in 0..MaxTyped
  /\ current \in Nat \cup {Unknown}
  /\ \A s \in SVS : eeprom[s] \in [DOMAIN eeprom[s] -> Byte]
  /\ screen \in [SVS -> Nat]
  /\ wire \in Seq(Byte) /\ answers \in Seq(Byte) /\ Len(answers) <= QueueSize
  /\ task \in {"Idle", "Reading", "Writing"}
  /\ \A rd \in {r, read} :
       /\ rd \in [valid : BOOLEAN, connection : Nat, inputs : Int,
                 eeprom : {rd.eeprom}, tx : {rd.tx}]
       /\ rd.eeprom \in [DOMAIN rd.eeprom -> Byte]
       /\ rd.tx \in [DOMAIN rd.tx -> BOOLEAN]
  /\ attempt \in 0..(ATTEMPTS - 1)

\* svs_settings.h: a snapshot shown as valid is what the SVS that is plugged
\* in holds, whatever was swapped while it was read or saved to. (An SVS that
\* was pulled is shown until device_task has noticed.)
ShownIsChip ==
  Heeded /\ task = "Idle" /\ Shown /\ alive =>
    \A a \in DOMAIN read.eeprom : read.eeprom[a] = eeprom[dev][a]

\* query: every answer is taken for the byte that was asked for, as long as
\* none is late and nobody else asks.
ReadsAreRight ==
  faults \cap {"late", "console"} = {} /\ task = "Reading" /\ alive /\ r.connection = connections =>
    \A a \in DOMAIN r.eeprom : r.eeprom[a] = eeprom[dev][a]

\* A save reported as done is one the SVS holds, IR codes and flags alike,
\* unless the SVS was replugged since it was read.
SavedIsThere ==
  Heeded /\ pc = "end" /\ task = "Writing" /\ outcome /\ alive /\ r.connection = connections =>
    Decode(Reading(eeprom[dev], r.inputs), r.inputs) =
      [n \in 1..r.inputs |->
         [auto_profile |-> want[n].auto_profile, rgsb |-> want[n].rgsb,
          sync_bypass |-> want[n].sync_bypass, ir |-> want[n].ir]]

\* write_task: the transcoders of every input end up as asked, though each can
\* only be set for the input on screen, unless somebody selects another one.
TranscodersSet ==
  /\ Heeded /\ "remote" \notin faults
  /\ pc = "end" /\ task = "Writing" /\ outcome /\ alive /\ r.connection = connections
  => \A p \in DOMAIN r.tx : converts[dev][p] = want[p[1]][Field(p[2])]

\* session_begin and session_end: a task that is under way is in a session,
\* and the session, which keeps the SVS's answers from everyone else, never
\* outlives it.
SessionHeld == pc \in {"ask", "await", "unanswered", "save", "check", "switch", "wait",
                       "set", "confirm", "restore", "store"} <=> session /\ pc # "end"

\* plan_writes: a save never changes the bits of inputs the SVS did not
\* report, even when what the bridge knows of it is out of date.
UnmanagedKept ==
  [][faults \cap {"swap", "late", "console"} = {} =>
     \A s \in SVS, m \in Maps : \A i \in 0..(bitmap_bytes(InputsOf[s]) - 1), b \in Bits :
       8 * i + b + 1 > InputsOf[s] =>
         (b \in eeprom'[s][m.base + i] <=> b \in eeprom[s][m.base + i])]_vars

\* The result "Nothing to save: the SVS already has these settings"
NothingToSaveIsTrue ==
  pc = "save" /\ Plan = {} /\ Changes = {} /\ alive /\ r.connection = connections =>
    \A n \in 1..r.inputs :
      LET s == decode_input(Reading(eeprom[dev], r.inputs), n, r.inputs)
      IN  /\ s.auto_profile = want[n].auto_profile
          /\ s.rgsb = want[n].rgsb
          /\ s.sync_bypass = want[n].sync_bypass
          /\ s.ir = want[n].ir

\* Every read and every save ends by itself, whatever the SVS does. (Somebody
\* who switches inputs without end is left out: the 3 s that a save waits for
\* an input have no clock here.)
TaskEnds == ("remote" \notin faults /\ task # "Idle") ~> (task = "Idle")
=============================================================================
