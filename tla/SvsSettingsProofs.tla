-------------------------- MODULE SvsSettingsProofs --------------------------
(***************************************************************************)
(* Proofs about SvsSettings, for any SVSs with any number of inputs, any    *)
(* EEPROMs and any settings wanted: what the bridge shows and reports of an *)
(* SVS that can be swapped, disturbed and cut off at every step is true of  *)
(* the one plugged in.                                                      *)
(*                                                                         *)
(* Everything rests on one idea: rd is Live while the connection it was     *)
(* read on is still there, and what rd says needs to be true no longer.     *)
(***************************************************************************)
EXTENDS SvsSettings, SvsConfigProofs

Asking == {"ask", "await", "unanswered"}
Switching == {"switch", "wait", "set", "confirm"}
Saving == {"save", "check"} \cup Asking
InSession == Asking \cup {"save", "check"} \cup Switching \cup {"restore", "store", "end"}

-----------------------------------------------------------------------------
(* The inductive invariant, one part after the other *)

\* The connection, and what the steps of the task tell about it
Bus ==
  /\ alive => dev = port /\ port \in SVS /\ connections >= 1
  /\ dev = NoSvs => current = Unknown
  /\ dev # NoSvs => restarts <= MaxRestarts
  /\ task # "Idle" => restarts <= MaxRestarts
  /\ "swap" \notin faults => port \in SVS /\ (dev # NoSvs => alive) /\ (task # "Idle" => dev # NoSvs)

Steps ==
  /\ pc \in {"idle", "begin", "ended"} \cup InSession
  /\ task = "Idle" <=> pc = "idle"
  /\ pc \in {"save", "check", "restore", "store"} \cup Switching => task = "Writing"
  /\ session <=> pc \in InSession
  /\ pc \in {"idle", "begin", "save", "check"} \cup Asking => ~outcome
  /\ pc \in {"idle", "begin"} => r = NoRead

BusTypes ==
  /\ port \in SVS \cup {NoSvs} /\ dev \in SVS \cup {NoSvs} /\ alive \in BOOLEAN
  /\ connections \in 0..MaxConnections /\ restarts \in 0..(MaxRestarts + 1)
  /\ faults \in Scenarios /\ typed \in 0..MaxTyped
  /\ current \in Nat \cup {Unknown} /\ screen \in [SVS -> Nat]

TaskTypes ==
  /\ session \in BOOLEAN /\ outcome \in BOOLEAN
  /\ task \in {"Idle", "Reading", "Writing"} /\ attempt \in 0..(ATTEMPTS - 1)
  /\ pc \in Switching \cup {"restore"} => prev \in Nat

Lines == wire \in Seq(Byte) /\ answers \in Seq(Byte) /\ Len(answers) <= QueueSize

IsEeprom(e) == e \in [DOMAIN e -> Byte]

Devices ==
  /\ eeprom \in [SVS -> {eeprom[s] : s \in SVS}] /\ \A s \in SVS : IsEeprom(eeprom[s])
  /\ converts \in [SVS -> {converts[s] : s \in SVS}]
  /\ \A s \in SVS : converts[s] \in [(1..InputsOf[s]) \X Transcoders -> BOOLEAN]

IsRead(rd) ==
  /\ rd \in [valid : BOOLEAN, connection : Nat, inputs : Int, eeprom : {rd.eeprom}, tx : {rd.tx}]
  /\ IsEeprom(rd.eeprom)
  /\ rd.tx \in [DOMAIN rd.tx -> BOOLEAN]

Records == IsRead(r) /\ IsRead(read) /\ r.connection <= connections /\ read.connection <= connections

\* What a write has to do
Job ==
  task = "Writing" =>
    /\ Wanted(want, read.inputs)
    /\ \A n \in 1..read.inputs, x \in Transcoders : want[n][Field(x)] \in BOOLEAN
    /\ pc # "begin" => r.inputs = read.inputs /\ r.connection = read.connection
    /\ pc \in Saving =>
         CanPlan(read.eeprom, want, read.inputs) /\ left \subseteq Plan /\ r.tx = read.tx
    /\ pc \in Switching => left \subseteq (1..r.inputs) \X Transcoders
    /\ pc \in Asking \cup {"wait", "set", "confirm"} => left # {}

\* rd is of the connection that is there.
Live(rd) == alive /\ rd.connection = connections

LiveInputs ==
  /\ Live(read) => read.inputs = InputsOf[dev]
  /\ Live(r) => r.inputs = InputsOf[dev] \/ (task = "Reading" /\ r.inputs = Unknown)

\* Without swaps the connection of a task stays there.
Steady ==
  "swap" \notin faults =>
    /\ pc \notin {"idle", "begin"} => Live(r)
    /\ task = "Writing" => Live(read)

\* Nobody else asks, and nothing comes late.
Quiet == faults \cap {"late", "console"} = {}

Expected ==
  IF Question[1] = "R" THEN ByteLines(Question[2]) ELSE TranscoderLines(Question[2], Question[1])

\* Between two questions nothing is under way; during one, its answer, whole or not at all.
Answering ==
  Quiet =>
    /\ pc # "await" => wire = <<>>
    /\ pc = "await" /\ Question[1] = "R" => Len(wire) + Len(answers) <= 1
    /\ pc = "await" /\ Live(r) =>
         answers \o wire \in {Expected} \cup IF "silent" \in faults THEN {<<>>} ELSE {}

\* f, as far as it goes, is in e.
Agrees(f, e) == \A a \in DOMAIN f : a \in DOMAIN e /\ f[a] = e[a]

ReadRight == Quiet /\ task = "Reading" /\ Live(r) => Agrees(r.eeprom, eeprom[dev])

\* A save that has put the bytes ws of its plan on e
PartlySaved(e, ws) ==
  /\ \A p \in ws : p[1] \in DOMAIN e /\ e[p[1]] = p[2]
  /\ \A a \in DOMAIN read.eeprom :
       a \in DOMAIN e /\ ((\A p \in ws : p[1] # a) => e[a] = read.eeprom[a])

\* What is shown as read is what the SVS has, except while a save is under way.
ReadKnown ==
  Live(read) /\ (task = "Writing" => pc \in {"begin", "end", "ended"}) =>
    Agrees(read.eeprom, eeprom[dev])

\* How far the SVS is with a save, and the Read the save goes on from
SaveKnown ==
  task = "Writing" /\ Live(r) =>
    /\ pc = "save" => PartlySaved(eeprom[dev], Plan \ left) /\ r.eeprom = read.eeprom
    /\ pc \in {"check", "ask", "await"} =>
         /\ PartlySaved(eeprom[dev], Plan)
         /\ \A a \in DOMAIN r.eeprom :
              a \in DOMAIN eeprom[dev] /\ ((\A p \in left : p[1] # a) => r.eeprom[a] = eeprom[dev][a])
    /\ pc # "unanswered"
    /\ pc \in Switching \cup {"restore", "store"} =>
         Agrees(r.eeprom, eeprom[dev]) /\ Holds(eeprom[dev], want, r.inputs)
    /\ pc = "end" /\ outcome => Holds(eeprom[dev], want, r.inputs)

Known == Heeded => ReadKnown /\ SaveKnown

\* ... and of the transcoders
AsWanted(p) == want[p[1]][Field(p[2])]

TxRead ==
  Live(read) /\ (task = "Writing" => pc \notin Switching \cup {"restore", "store"}) =>
    Agrees(read.tx, converts[dev])

TxTask ==
  Live(r) /\ pc # "confirm" /\ (task = "Writing" => pc \notin {"end", "ended"}) =>
    Agrees(r.tx, converts[dev])

\* What is set is for the input on screen ...
OnScreen == Live(r) /\ pc \in {"wait", "set"} => screen[dev] = NextChange[1]

\* ... and is known to be set one step later.
JustSet ==
  Live(r) /\ pc = "confirm" =>
    /\ NextChange \in DOMAIN converts[dev] /\ converts[dev][NextChange] = AsWanted(NextChange)
    /\ \A p \in DOMAIN r.tx :
         p \in DOMAIN converts[dev] /\ (p # NextChange => r.tx[p] = converts[dev][p])

LeftToSet ==
  Live(r) =>
    /\ pc \in Switching => \A p \in DOMAIN r.tx : p \in left \/ r.tx[p] = AsWanted(p)
    /\ task = "Writing" /\ pc \in {"restore", "store"} /\ outcome =>
         \A p \in DOMAIN r.tx : r.tx[p] = AsWanted(p)

AllSet ==
  Live(r) /\ task = "Writing" /\ pc = "end" /\ outcome =>
    \A p \in DOMAIN r.tx : converts[dev][p] = AsWanted(p)

TxKnown ==
  Heeded /\ "remote" \notin faults =>
    TxRead /\ TxTask /\ OnScreen /\ JustSet /\ LeftToSet /\ AllSet

\* f has the bits of inputs past those of an SVS as e has them.
SameRest(f, e, inputs) ==
  \A m \in Maps, i \in 0..(bitmap_bytes(inputs) - 1), b \in Bits :
    8 * i + b + 1 > inputs /\ m.base + i \in DOMAIN f =>
      m.base + i \in DOMAIN e /\ (b \in f[m.base + i] <=> b \in e[m.base + i])

RestKnown ==
  faults \cap {"swap", "late", "console"} = {} =>
    /\ SameRest(read.eeprom, eeprom[port], InputsOf[port])
    /\ SameRest(r.eeprom, eeprom[port], InputsOf[port])

IInv ==
  /\ Bus /\ Steps /\ BusTypes /\ TaskTypes /\ Lines /\ Devices /\ Records /\ Job /\ LiveInputs /\ Steady
  /\ Answering /\ ReadRight /\ Known /\ TxKnown /\ RestKnown

-----------------------------------------------------------------------------
(* What the provers need to know of the operators of SvsSettings *)

LEMMA SameQuestion ==
  ASSUME UNCHANGED <<task, r, left>>
  PROVE  Question' = Question
BY DEF Question, ReadQuestion, NextPut, BitmapsLeft, TranscodersLeft, IrLeft, IrAddress, IrCommand

\* The next byte of a save is one that is left.
LEMMA NextPutIsLeft ==
  ASSUME left # {}, \A p \in left : p[1] \in Nat
  PROVE  NextPut \in left
<1>1. {p[1] : p \in left} \in SUBSET Nat /\ {p[1] : p \in left} # {}
  OBVIOUS
<1>2. PICK a \in {p[1] : p \in left} : \A b \in {p[1] : p \in left} : a <= b
  BY <1>1, Least
<1>3. \E p \in left : \A q \in left : p[1] <= q[1]
  BY <1>2
<1> QED
  BY <1>3 DEF NextPut

\* The next transcoder is one that is left to set.
LEMMA NextChangeIsLeft ==
  ASSUME left # {}, NEW k, left \subseteq (1..k) \X Transcoders
  PROVE  NextChange \in left
<1> DEFINE S == {p[1] : p \in left}
<1>1. S \in SUBSET Nat /\ S # {}
  OBVIOUS
<1>2. PICK a \in S : \A b \in S : a <= b
  <2> HIDE DEF S
  <2> QED
    BY <1>1, Least
<1>3. Min(S) = a
  <2> HIDE DEF S
  <2> QED
    BY <1>1, <1>2, MinIsLeast
<1>4. PICK p \in left : p[1] = a
  BY <1>2
<1>5. p = <<a, "Y">> \/ p = <<a, "G">>
  BY <1>4 DEF Transcoders
<1> QED
  BY <1>3, <1>4, <1>5 DEF NextChange

\* A line that is delivered leaves what is to be received as it was.
LEMMA LineMoves ==
  ASSUME NEW a \in Seq(Byte), NEW w \in Seq(Byte), w # <<>>
  PROVE  /\ Tail(w) \in Seq(Byte) /\ Append(a, Head(w)) \in Seq(Byte)
         /\ Append(a, Head(w)) \o Tail(w) = a \o w
         /\ Len(Append(a, Head(w))) = Len(a) + 1 /\ Len(Tail(w)) = Len(w) - 1
  OBVIOUS

LEMMA Lists ==
  /\ <<>> \in Seq(Byte) /\ Len(<<>>) = 0
  /\ \A a, b \in Seq(Byte) : a \o b \in Seq(Byte) /\ Len(a \o b) = Len(a) + Len(b)
  /\ \A a \in Seq(Byte) : Len(a) \in Nat /\ (a # <<>> => Tail(a) \in Seq(Byte) /\ Len(Tail(a)) = Len(a) - 1)
OBVIOUS

LEMMA Sizes ==
  /\ QueueSize \in Nat /\ QueueSize >= 2 /\ ATTEMPTS \in Nat /\ ATTEMPTS >= 1
  /\ 0 \in 0..(ATTEMPTS - 1)
  /\ MaxConnections \in Nat /\ MaxRestarts \in Nat /\ MaxTyped \in Nat
BY SizesAssumption

\* What one command W leaves on an EEPROM
LEMMA OneWritten ==
  ASSUME NEW e, NEW p
  PROVE  /\ \A a : a \in DOMAIN Written(e, {p}) <=> a \in DOMAIN e \/ a = p[1]
         /\ Written(e, {p})[p[1]] = p[2]
         /\ \A a \in DOMAIN e : a # p[1] => Written(e, {p})[a] = e[a]
  BY WrittenBytes

-----------------------------------------------------------------------------
(* The connection, the steps of the task, and the types *)

LEMMA BusStep ==
  ASSUME Bus, Steps, BusTypes, TaskTypes, [Next]_vars
  PROVE  Bus'
<1> USE SvsAssumption, SizesAssumption DEF Bus, busVars
<1>1. CASE Environment
  <2> USE DEF BusTypes
  <2>1. ASSUME NEW s \in SVS, Plug(s) PROVE Bus'
    BY <2>1 DEF Plug, envVars
  <2>2. CASE Unplug
    BY <2>2 DEF Unplug, envVars
  <2>3. CASE Open
    BY <2>3 DEF Open, envVars
  <2>4. CASE Close
    BY <2>4 DEF Close, envVars
  <2>5. CASE PowerLoss
    BY <2>5 DEF PowerLoss, BridgeRestart, envVars
  <2>6. ASSUME Report \/ (\E n : Select(n)) \/ (\E a : Console(a)) PROVE Bus'
    BY <2>6 DEF Report, Select, Console, envVars
  <2> QED
    BY <1>1, <2>1, <2>2, <2>3, <2>4, <2>5, <2>6 DEF Environment
<1>2. CASE Deliver
  BY <1>2 DEF Deliver, envVars
<1>3. CASE Handlers
  BY <1>3 DEF Handlers, StartRead, StartWrite, Start, CanRead, envVars
<1>4. CASE Background
  <2>1. CASE Abort
    BY <2>1 DEF Abort, BridgeRestart, envVars
  <2>2. CASE Finish
    BY <2>2 DEF Finish, ToIdle, envVars
  <2>3. CASE EndSession \/ Ask \/ TimeOut \/ Unanswered \/ Receive \/ ReceiveLast \/ BeginRead
             \/ StoreRead \/ BeginWrite \/ Save \/ BeginCheck \/ Check \/ BeginTranscoders
             \/ Switch \/ WaitForInput \/ Set \/ Confirm \/ Restore \/ StoreWrite
    <3>1. UNCHANGED <<busVars, faults, task, current>>
      BY <2>3 DEF EndSession, Ask, TimeOut, Unanswered, Receive, ReceiveLast, BeginRead,
         StoreRead, BeginWrite, Save, BeginCheck, Check, BeginTranscoders, Switch, WaitForInput,
         Set, Confirm, Restore, StoreWrite, envVars
    <3> QED
      BY <3>1
  <2> QED
    BY <1>4, <2>1, <2>2, <2>3 DEF Background
<1>5. CASE UNCHANGED vars
  BY <1>5 DEF vars, envVars
<1> QED
  BY <1>1, <1>2, <1>3, <1>4, <1>5 DEF Next

LEMMA StepsStep ==
  ASSUME Steps, TaskTypes, [Next]_vars
  PROVE  Steps'
<1> USE DEF Steps, InSession, Asking, Switching, jobVars
<1>1. CASE Environment \/ Deliver \/ UNCHANGED vars
  <2>1. CASE PowerLoss
    BY <2>1 DEF PowerLoss, BridgeRestart
  <2>2. ASSUME ~PowerLoss PROVE UNCHANGED <<pc, task, session, outcome, r>>
    BY <1>1, <2>2 DEF Environment, Plug, Unplug, Open, Close, Report, Select, Console, Deliver, vars
  <2> QED
    BY <2>1, <2>2
<1>2. CASE Handlers
  BY <1>2 DEF Handlers, StartRead, StartWrite, Start, CanRead
<1>3. CASE Background
  <2>1. CASE Abort
    BY <2>1 DEF Abort, BridgeRestart
  <2>2. CASE EndSession \/ Finish
    BY <2>2 DEF EndSession, Finish, ToIdle
  <2>3. CASE Ask \/ TimeOut \/ Unanswered
    BY <2>3 DEF Ask, TimeOut, Unanswered, Ending
  <2>4. CASE Receive
    <3>1. /\ pc = "await" /\ UNCHANGED <<task, session>>
          /\ \/ pc' = "ask" /\ UNCHANGED outcome
             \/ task # "Reading" /\ pc' = "check" /\ UNCHANGED outcome
             \/ pc' = "end" /\ outcome' = FALSE
      BY <2>4, Zenon DEF Receive, AnswerTo, Ending
    <3> QED
      BY <3>1 DEF TaskTypes
  <2>5. CASE ReceiveLast
    BY <2>5 DEF ReceiveLast
  <2>6. CASE BeginRead
    BY <2>6 DEF BeginRead
  <2>7. CASE StoreRead
    BY <2>7 DEF StoreRead, Ending
  <2>8. CASE BeginWrite
    BY <2>8 DEF BeginWrite, Ending
  <2>9. CASE Save
    BY <2>9 DEF Save, Ending
  <2>10. CASE BeginCheck \/ Check \/ BeginTranscoders
    BY <2>10 DEF BeginCheck, Check, BeginTranscoders
  <2>11. CASE Switch \/ WaitForInput \/ Set
    BY <2>11 DEF Switch, WaitForInput, Set
  <2>12. CASE Confirm \/ Restore \/ StoreWrite
    BY <2>12 DEF Confirm, Restore, StoreWrite
  <2> QED
    BY <1>3, <2>1, <2>2, <2>3, <2>4, <2>5, <2>6, <2>7, <2>8, <2>9, <2>10, <2>11, <2>12
       DEF Background
<1> QED
  BY <1>1, <1>2, <1>3 DEF Next

LEMMA LinesAreBytes ==
  ASSUME Devices, port \in SVS
  PROVE  /\ \A a : ByteLines(a) \in Seq(Byte)
         /\ \A n, x : TranscoderLines(n, x) \in Seq(Byte)
<1>1. ASSUME NEW a PROVE ByteLines(a) \in Seq(Byte)
  <2>1. IsEeprom(eeprom[port])
    BY DEF Devices
  <2> QED
    BY <2>1 DEF ByteLines, IsEeprom
<1>2. ASSUME NEW n, NEW x PROVE TranscoderLines(n, x) \in Seq(Byte)
  <2>1. Number(n) \in Byte /\ {} \in Byte /\ {0} \in Byte
    BY DEF Number, Byte, Bits
  <2> HIDE DEF Byte
  <2> QED
    BY <2>1 DEF TranscoderLines
<1> QED
  BY <1>1, <1>2

LEMMA LinesStep ==
  ASSUME Bus, Lines, Devices, [Next]_vars
  PROVE  Lines'
<1> USE DEF Lines
<1>0. <<>> \in Seq(Byte) /\ Len(<<>>) <= QueueSize
  BY Lists, Sizes
<1>1. CASE UNCHANGED <<wire, answers>>
  BY <1>1
<1>2. CASE Unplug \/ BridgeRestart
  <2>1. wire' = <<>> /\ (answers' = answers \/ answers' = <<>>)
    BY <1>2 DEF Unplug, BridgeRestart
  <2> QED
    BY <1>0, <2>1
<1>3. ASSUME NEW a, Console(a) PROVE Lines'
  <2>1. ByteLines(a) \in Seq(Byte) /\ wire' = wire \o ByteLines(a) /\ answers' = answers
    BY <1>3, LinesAreBytes DEF Console, Bus
  <2> QED
    BY <2>1
<1>4. CASE Deliver
  <2>1. wire # <<>> /\ wire' = Tail(wire) /\ (answers' = answers
        \/ (answers' = Append(answers, Head(wire)) /\ Len(answers) < QueueSize))
    BY <1>4 DEF Deliver
  <2>2. /\ Tail(wire) \in Seq(Byte) /\ Append(answers, Head(wire)) \in Seq(Byte)
        /\ Len(Append(answers, Head(wire))) = Len(answers) + 1 /\ Len(answers) \in Nat
    BY <2>1, LineMoves
  <2> QED
    BY <2>1, <2>2, Sizes
<1>5. CASE Ask
  <2>1. answers' = <<>> /\ (wire' = wire \/ (alive /\ ((\E a : wire' = wire \o ByteLines(a))
                                               \/ (\E n, x : wire' = wire \o TranscoderLines(n, x)))))
    BY <1>5 DEF Ask
  <2>2. alive => (\A a : ByteLines(a) \in Seq(Byte)) /\ (\A n, x : TranscoderLines(n, x) \in Seq(Byte))
    BY LinesAreBytes DEF Bus
  <2> QED
    BY <1>0, <2>1, <2>2, Lists
<1>6. CASE Receive
  <2>1. answers # <<>> /\ answers' = Tail(answers) /\ wire' = wire
    BY <1>6 DEF Receive
  <2> QED
    BY <2>1, Lists, Sizes
<1>7. CASE ReceiveLast \/ BeginRead \/ BeginWrite
  <2>1. wire' = wire /\ answers' = <<>>
    BY <1>7 DEF ReceiveLast, BeginRead, BeginWrite
  <2> QED
    BY <1>0, <2>1
<1>8. CASE Confirm
  <2>1. answers' = <<>> /\ (wire' = <<>> \/ (alive /\ \E n, x : wire' = wire \o TranscoderLines(n, x)))
    BY <1>8 DEF Confirm
  <2>2. alive => \A n, x : TranscoderLines(n, x) \in Seq(Byte)
    BY LinesAreBytes DEF Bus
  <2> QED
    BY <1>0, <2>1, <2>2, Lists
<1> QED
  <2>1. CASE Environment
    BY <1>1, <1>2, <1>3, <2>1 DEF Environment, Plug, Open, Close, Report, Select, PowerLoss, lineVars
  <2>2. CASE Handlers \/ UNCHANGED vars
    BY <1>1, <2>2 DEF Handlers, StartRead, StartWrite, Start, vars, lineVars
  <2>3. CASE Background
    BY <1>1, <1>2, <1>5, <1>6, <1>7, <1>8, <2>3
       DEF Background, EndSession, Finish, TimeOut, Unanswered, Abort, StoreRead, Save, BeginCheck,
           Check, BeginTranscoders, Switch, WaitForInput, Set, Restore, StoreWrite, lineVars
  <2> QED
    BY <1>4, <2>1, <2>2, <2>3 DEF Next

\* The next transcoder to set, while one is left
LEMMA NextChangeOk ==
  ASSUME Steps, Job, Records, pc \in Switching, left # {}
  PROVE  /\ NextChange \in left /\ NextChange \in (1..r.inputs) \X Transcoders
         /\ NextChange = <<NextChange[1], NextChange[2]>>
         /\ NextChange[1] \in Nat /\ NextChange[1] \in 1..r.inputs /\ NextChange[2] \in Transcoders
         /\ AsWanted(NextChange) \in BOOLEAN
<1>1. task = "Writing" /\ pc # "begin"
  BY DEF Steps, Switching
<1>2. left \subseteq (1..r.inputs) \X Transcoders /\ r.inputs = read.inputs
      /\ \A n \in 1..read.inputs, x \in Transcoders : want[n][Field(x)] \in BOOLEAN
  BY <1>1 DEF Job
<1>3. NextChange \in left
  BY <1>2, NextChangeIsLeft
<1>4. r.inputs \in Int
  BY DEF Records, IsRead
<1> QED
  BY <1>2, <1>3, <1>4 DEF AsWanted

LEMMA BusTypesStep ==
  ASSUME Bus, Steps, BusTypes, TaskTypes, Records, Job, [Next]_vars
  PROVE  BusTypes'
<1> USE SvsAssumption, Sizes DEF BusTypes, busVars, envVars, svsVars, Unknown
<1>1. CASE Environment
  <2>1. ASSUME NEW s \in SVS, Plug(s) PROVE BusTypes'
    BY <2>1 DEF Plug
  <2>2. CASE Unplug
    BY <2>2 DEF Unplug
  <2>3. CASE Open
    BY <2>3 DEF Open
  <2>4. CASE Close
    BY <2>4 DEF Close
  <2>5. CASE PowerLoss
    <3>1. restarts < MaxRestarts
      BY <2>5 DEF PowerLoss
    <3>2. /\ UNCHANGED <<faults, typed, port, screen>>
          /\ dev' = NoSvs /\ alive' = FALSE /\ connections' = 0 /\ current' = Unknown
          /\ restarts' = restarts + 1
      BY <2>5 DEF PowerLoss, BridgeRestart
    <3>3. restarts' \in 0..(MaxRestarts + 1) /\ connections' \in 0..MaxConnections
      BY <3>1, <3>2
    <3> QED
      BY <3>2, <3>3
  <2>6. CASE Report
    BY <2>6 DEF Report, Bus
  <2>7. ASSUME NEW n, Select(n) PROVE BusTypes'
    <3>1. screen' \in [SVS -> Nat]
      <4>1. port \in SVS /\ n \in 0..InputsOf[port] /\ InputsOf[port] \in Nat
        BY <2>7 DEF Select
      <4> QED
        BY <2>7, <4>1 DEF Select
    <3> QED
      BY <2>7, <3>1 DEF Select
  <2>8. ASSUME NEW a, Console(a) PROVE BusTypes'
    <3>1. typed' = typed + 1 /\ typed < MaxTyped /\ UNCHANGED <<busVars, faults, current, screen>>
      BY <2>8 DEF Console
    <3> QED
      BY <3>1
  <2> QED
    BY <1>1, <2>1, <2>2, <2>3, <2>4, <2>5, <2>6, <2>7, <2>8 DEF Environment
<1>2. CASE Background /\ ~Abort
  <2>1. UNCHANGED <<envVars, busVars, current>>
    BY <1>2 DEF Background, EndSession, Finish, Ask, TimeOut, Unanswered, Receive, ReceiveLast,
       BeginRead, StoreRead, BeginWrite, Save, BeginCheck, Check, BeginTranscoders, Switch,
       WaitForInput, Set, Confirm, Restore, StoreWrite
  <2>2. screen' \in [SVS -> Nat]
    <3>1. CASE Switch
      <4>1. screen' = screen
              \/ (pc = "switch" /\ left # {} /\ alive /\ screen' = [screen EXCEPT ![port] = NextChange[1]])
        BY <3>1 DEF Switch, Heard
      <4> QED
        BY <4>1, NextChangeOk DEF Bus, Switching
    <3>2. CASE Restore
      <4>1. screen' = screen \/ (pc = "restore" /\ alive /\ screen' = [screen EXCEPT ![port] = prev])
        BY <3>2 DEF Restore, Heard
      <4> QED
        BY <4>1 DEF Bus, TaskTypes
    <3>3. CASE ~Switch /\ ~Restore
      <4>1. screen' = screen
        BY <1>2, <3>3 DEF Background, EndSession, Finish, Ask, TimeOut, Unanswered, Receive,
           ReceiveLast, BeginRead, StoreRead, BeginWrite, Save, BeginCheck, Check,
           BeginTranscoders, WaitForInput, Set, Confirm, StoreWrite
      <4> QED
        BY <4>1
    <3> QED
      BY <3>1, <3>2, <3>3
  <2> QED
    BY <2>1, <2>2
<1>3. CASE Abort
  <2>1. restarts <= MaxRestarts
    BY <1>3 DEF Abort, Bus
  <2>2. /\ UNCHANGED <<faults, typed, port, screen>>
        /\ dev' = NoSvs /\ alive' = FALSE /\ connections' = 0 /\ current' = Unknown
        /\ restarts' = restarts + 1
    BY <1>3 DEF Abort, BridgeRestart
  <2>3. restarts' \in 0..(MaxRestarts + 1) /\ connections' \in 0..MaxConnections
    BY <2>1, <2>2
  <2> QED
    BY <2>2, <2>3
<1>4. CASE Deliver \/ Handlers \/ UNCHANGED vars
  <2>1. UNCHANGED <<envVars, busVars, current, screen>>
    BY <1>4 DEF Deliver, Handlers, StartRead, StartWrite, Start, vars
  <2> QED
    BY <2>1
<1> QED
  BY <1>1, <1>2, <1>3, <1>4 DEF Next

LEMMA TaskTypesStep ==
  ASSUME TaskTypes, BusTypes, Steps, [Next]_vars
  PROVE  TaskTypes'
<1> USE Sizes DEF TaskTypes, Switching, jobVars
<1>1. CASE Environment \/ Deliver \/ UNCHANGED vars
  <2>1. CASE PowerLoss
    BY <2>1 DEF PowerLoss, BridgeRestart
  <2>2. ASSUME ~PowerLoss PROVE UNCHANGED <<session, outcome, task, attempt, prev, pc>>
    BY <1>1, <2>2 DEF Environment, Plug, Unplug, Open, Close, Report, Select, Console, Deliver, vars
  <2> QED
    BY <2>1, <2>2
<1>2. CASE Handlers
  BY <1>2 DEF Handlers, StartRead, StartWrite, Start
<1>3. CASE Background
  <2>1. CASE Abort
    BY <2>1 DEF Abort, BridgeRestart
  <2>2. CASE EndSession \/ Finish
    BY <2>2 DEF EndSession, Finish, ToIdle
  <2>3. CASE Ask \/ TimeOut \/ ReceiveLast
    BY <2>3 DEF Ask, TimeOut, ReceiveLast
  <2>4. CASE Unanswered
    <3>1. /\ UNCHANGED <<session, task, prev>> /\ outcome' \in {outcome, FALSE}
          /\ attempt' = attempt \/ (attempt + 1 < ATTEMPTS /\ attempt' = attempt + 1)
          /\ pc' \in {"ask", "end"}
      BY <2>4, Zenon DEF Unanswered, Ending
    <3>2. attempt' \in 0..(ATTEMPTS - 1)
      BY <3>1
    <3> QED
      BY <3>1, <3>2
  <2>5. CASE Receive
    <3>1. /\ UNCHANGED <<session, task, prev>> /\ outcome' \in {outcome, FALSE}
          /\ attempt' = 0 \/ attempt' = attempt
          /\ pc' \in {"ask", "check", "end"}
      BY <2>5, Zenon DEF Receive, AnswerTo, Ending
    <3> QED
      BY <3>1
  <2>6. CASE BeginRead \/ StoreRead
    BY <2>6 DEF BeginRead, StoreRead, Ending
  <2>7. CASE BeginWrite \/ BeginCheck \/ Check
    BY <2>7 DEF BeginWrite, BeginCheck, Check, Ending
  <2>8. CASE Save
    BY <2>8 DEF Save, Ending
  <2>9. CASE BeginTranscoders
    <3>1. /\ UNCHANGED <<session, task, attempt>> /\ outcome' = TRUE
          /\ prev' = IF current > 0 THEN current ELSE 0
      BY <2>9 DEF BeginTranscoders
    <3>2. current \in Int
      BY DEF BusTypes, Unknown
    <3> QED
      BY <3>1, <3>2
  <2>10. CASE Switch \/ WaitForInput \/ Set
    BY <2>10 DEF Switch, WaitForInput, Set
  <2>11. CASE Confirm \/ Restore \/ StoreWrite
    BY <2>11 DEF Confirm, Restore, StoreWrite
  <2> QED
    BY <1>3, <2>1, <2>2, <2>3, <2>4, <2>5, <2>6, <2>7, <2>8, <2>9, <2>10, <2>11 DEF Background
<1> QED
  BY <1>1, <1>2, <1>3 DEF Next

-----------------------------------------------------------------------------
(* The SVSs, what is known of them, and what a write has to do *)

\* The plan of the save under way is made of bytes at addresses.
LEMMA PlanBytes ==
  ASSUME Job, task = "Writing", pc \in Saving
  PROVE  /\ read.inputs \in 1..MAX_INPUTS /\ read.inputs \in Nat
         /\ CanPlan(read.eeprom, want, read.inputs) /\ left \subseteq Plan
         /\ Plan \subseteq Puts(read.eeprom, want, read.inputs)
         /\ \A p \in Plan : p[1] \in Nat /\ p[2] \in Byte
         /\ \A p, q \in Plan : p[1] = q[1] => p[2] = q[2]
<1>1. CanPlan(read.eeprom, want, read.inputs) /\ left \subseteq Plan /\ Wanted(want, read.inputs)
  BY DEF Job
<1>2. read.inputs \in 1..MAX_INPUTS /\ read.inputs \in Nat
  BY <1>1, InputsAssumption DEF CanPlan
<1>3. Plan \subseteq Puts(read.eeprom, want, read.inputs)
  BY DEF Plan, plan_writes
<1>4. bitmap_addresses(read.inputs) \subseteq Nat
  BY DEF bitmap_addresses, AUTO_PROFILE_BASE, RGSB_BASE, SYNC_BYPASS_BASE, SCART_V3_BASE,
     VGA_V3_BASE, TX_RGB_TO_YPBPR, TX_YPBPR_TO_RGB
<1>5. ASSUME NEW p \in Puts(read.eeprom, want, read.inputs) PROVE p[1] \in Nat /\ p[2] \in Byte
  <2>1. p[1] \in 0..(2 * IR_REGION - 1) \/ p[1] \in bitmap_addresses(read.inputs)
    BY <1>2, PutAddress
  <2>2. p[2] \in Byte
    BY <1>1, <1>2, PutByte
  <2> QED
    BY <1>4, <2>1, <2>2
<1>6. \A p, q \in Puts(read.eeprom, want, read.inputs) : p[1] = q[1] => p[2] = q[2]
  BY <1>2, PlanHasNoClash DEF OneByteEach
<1> QED
  BY <1>1, <1>2, <1>3, <1>5, <1>6

LEMMA NextPutOk ==
  ASSUME Job, task = "Writing", pc \in Saving, left # {}
  PROVE  /\ NextPut \in left /\ NextPut \in Plan
         /\ NextPut[1] \in Nat /\ NextPut[2] \in Byte
BY PlanBytes, NextPutIsLeft

LEMMA DevicesStep ==
  ASSUME Bus, Steps, Records, Job, Devices, [Next]_vars
  PROVE  Devices'
<1>1. CASE UNCHANGED <<eeprom, converts>>
  BY <1>1 DEF Devices, IsEeprom
<1>2. CASE Save
  <2>1. CASE eeprom' = eeprom
    BY <1>1, <1>2, <2>1 DEF Save
  <2>2. CASE eeprom' # eeprom
    <3>1. /\ pc = "save" /\ left # {} /\ alive /\ converts' = converts
          /\ eeprom' = [eeprom EXCEPT ![port] = Written(@, {NextPut})]
      BY <1>2, <2>2 DEF Save
    <3>2. task = "Writing" /\ port \in SVS
      BY <3>1 DEF Steps, Bus
    <3>3. NextPut[2] \in Byte
      BY <3>1, <3>2, NextPutOk DEF Saving
    <3>4. IsEeprom(Written(eeprom[port], {NextPut}))
      <4> DEFINE f == Written(eeprom[port], {NextPut})
      <4>1. IsEeprom(eeprom[port])
        BY <3>2 DEF Devices
      <4>2. ASSUME NEW a \in DOMAIN f PROVE f[a] \in Byte
        <5>1. \A b \in DOMAIN eeprom[port] : eeprom[port][b] \in Byte
          BY <4>1 DEF IsEeprom
        <5>2. a \in DOMAIN eeprom[port] \/ a = NextPut[1]
          BY OneWritten
        <5>3. f[NextPut[1]] = NextPut[2]
              /\ \A b \in DOMAIN eeprom[port] : b # NextPut[1] => f[b] = eeprom[port][b]
          BY OneWritten
        <5> QED
          BY <3>3, <5>1, <5>2, <5>3
      <4>3. f = [a \in DOMAIN f |-> f[a]]
        BY DEF Written
      <4> HIDE DEF f
      <4>4. IsEeprom(f)
        BY <4>2, <4>3 DEF IsEeprom
      <4> QED
        BY <4>4 DEF f
    <3>5. DOMAIN eeprom = SVS /\ eeprom = [s \in SVS |-> eeprom[s]]
          /\ \A s \in SVS : IsEeprom(eeprom[s])
      BY DEF Devices
    <3>6. /\ eeprom' = [s \in SVS |-> eeprom'[s]]
          /\ \A s \in SVS : eeprom'[s] = IF s = port THEN Written(eeprom[port], {NextPut}) ELSE eeprom[s]
      BY <3>1, <3>2, <3>5
    <3>7. \A s \in SVS : IsEeprom(eeprom'[s])
      BY <3>4, <3>5, <3>6
    <3> QED
      BY <3>1, <3>6, <3>7 DEF Devices, IsEeprom
  <2> QED
    BY <2>1, <2>2
<1>3. CASE Set
  <2>1. CASE converts' = converts
    BY <1>1, <1>3, <2>1 DEF Set
  <2>2. CASE converts' # converts
    <3> DEFINE shown == <<screen[port], NextChange[2]>>
               on == want[NextChange[1]][Field(NextChange[2])]
    <3>1. /\ pc = "set" /\ alive /\ eeprom' = eeprom /\ shown \in DOMAIN converts[port]
          /\ converts' = [converts EXCEPT ![port] = [@ EXCEPT ![shown] = on]]
      BY <1>3, <2>2 DEF Set, Heard
    <3>2. task = "Writing" /\ port \in SVS /\ left # {}
      BY <3>1 DEF Steps, Bus, Job, Switching
    <3>3. on \in BOOLEAN
      BY <3>1, <3>2, NextChangeOk DEF Switching, AsWanted
    <3> HIDE DEF shown, on
    <3> DEFINE f == [converts[port] EXCEPT ![shown] = on]
    <3>4. converts[port] \in [(1..InputsOf[port]) \X Transcoders -> BOOLEAN]
      BY <3>2 DEF Devices
    <3>5. f \in [(1..InputsOf[port]) \X Transcoders -> BOOLEAN]
      BY <3>1, <3>3, <3>4
    <3>6. converts = [s \in SVS |-> converts[s]]
      BY DEF Devices
    <3>7. converts' = [converts EXCEPT ![port] = f]
      BY <3>1
    <3> HIDE DEF f
    <3>8. /\ converts' = [s \in SVS |-> converts'[s]]
          /\ \A s \in SVS : converts'[s] = IF s = port THEN f ELSE converts[s]
      BY <3>2, <3>6, <3>7
    <3>9. \A s \in SVS : converts'[s] \in [(1..InputsOf[s]) \X Transcoders -> BOOLEAN]
      BY <3>5, <3>8 DEF Devices
    <3> QED
      BY <3>1, <3>8, <3>9 DEF Devices, IsEeprom
  <2> QED
    BY <2>1, <2>2
<1>4. CASE ~Save /\ ~Set
  <2>1. UNCHANGED <<eeprom, converts>>
    BY <1>4 DEF Next, Environment, Plug, Unplug, Open, Close, Report, Select, Console, PowerLoss,
       Deliver, Handlers, StartRead, StartWrite, Start, Background, EndSession, Finish, Ask,
       TimeOut, Unanswered, Receive, ReceiveLast, BeginRead, Abort, StoreRead, BeginWrite,
       BeginCheck, Check, BeginTranscoders, Switch, WaitForInput, Confirm, Restore, StoreWrite,
       BridgeRestart, svsVars, vars
  <2> QED
    BY <1>1, <2>1
<1> QED
  BY <1>2, <1>3, <1>4

LEMMA WithEeprom ==
  ASSUME NEW rd, IsRead(rd), NEW a, NEW v \in Byte
  PROVE  LET new == [rd EXCEPT !.eeprom = With(@, a, v)]
         IN  /\ IsRead(new) /\ new.connection = rd.connection /\ new.inputs = rd.inputs
             /\ new.tx = rd.tx /\ new.eeprom = With(rd.eeprom, a, v)
<1> DEFINE f == With(rd.eeprom, a, v)
<1>1. \A b \in DOMAIN f : f[b] \in Byte
  BY DEF With, IsRead, IsEeprom
<1>2. f = [b \in DOMAIN f |-> f[b]]
  BY DEF With
<1>3. f \in [DOMAIN f -> Byte]
  BY <1>1, <1>2
<1> HIDE DEF f
<1> QED
  BY <1>3 DEF IsRead, IsEeprom, f

LEMMA WithTx ==
  ASSUME NEW rd, IsRead(rd), NEW p, NEW v \in BOOLEAN
  PROVE  LET new == [rd EXCEPT !.tx = With(@, p, v)]
         IN  /\ IsRead(new) /\ new.connection = rd.connection /\ new.inputs = rd.inputs
             /\ new.eeprom = rd.eeprom /\ new.tx = With(rd.tx, p, v)
<1> DEFINE f == With(rd.tx, p, v)
<1>1. \A b \in DOMAIN f : f[b] \in BOOLEAN
  BY DEF With, IsRead
<1>2. f = [b \in DOMAIN f |-> f[b]]
  BY DEF With
<1>3. f \in [DOMAIN f -> BOOLEAN]
  BY <1>1, <1>2
<1> HIDE DEF f
<1> QED
  BY <1>3 DEF IsRead, IsEeprom, f

LEMMA NoReadIsRead == IsRead(NoRead) /\ NoRead.connection = 0
BY DEF NoRead, Nothing, IsRead, IsEeprom

\* How the steps change what has been read
LEMMA ReadsChange ==
  ASSUME BusTypes, Bus, Steps, Lines, Records, Job, Next
  PROVE  /\ \/ UNCHANGED <<r, read>>
            \/ BridgeRestart
            \/ Finish /\ r' = NoRead /\ read' = read
            \/ BeginRead /\ read' = read /\ IsRead(r') /\ r'.connection = connections
            \/ BeginWrite /\ r' = read /\ read' = read
            \/ /\ Receive /\ read' = read
               /\ \E a : \E v \in Byte : r' = [r EXCEPT !.eeprom = With(@, a, v)]
            \/ /\ (ReceiveLast \/ Confirm) /\ read' = read
               /\ \E p : \E v \in BOOLEAN : r' = [r EXCEPT !.tx = With(@, p, v)]
            \/ StoreRead /\ r' = r /\ read' = [r EXCEPT !.valid = TRUE]
            \/ StoreWrite /\ r' = r /\ read' = r
         /\ connections' = connections \/ connections' = connections + 1 \/ BridgeRestart
<1> USE DEF jobVars, busVars
<1>1. CASE Environment \/ Deliver \/ Handlers
  BY <1>1 DEF Environment, Plug, Unplug, Open, Close, Report, Select, Console, PowerLoss,
     Deliver, Handlers, StartRead, StartWrite, Start
<1>2. CASE Background
  <2>1. CASE EndSession \/ Ask \/ TimeOut \/ Save \/ BeginCheck \/ Check \/ BeginTranscoders
             \/ Switch \/ WaitForInput \/ Set \/ Restore
    BY <2>1 DEF EndSession, Ask, TimeOut, Save, BeginCheck, Check, BeginTranscoders, Switch,
       WaitForInput, Set, Restore
  <2>2. CASE Unanswered
    BY <2>2 DEF Unanswered
  <2>3. CASE Abort
    BY <2>3 DEF Abort
  <2>4. CASE Finish
    BY <2>4 DEF Finish, ToIdle
  <2>5. CASE BeginRead
    <3>1. /\ UNCHANGED <<read, connections>>
          /\ r' = [NoRead EXCEPT !.connection = connections,
                     !.inputs = IF current = Unknown THEN Unknown ELSE InputsOf[dev]]
      BY <2>5 DEF BeginRead
    <3> DEFINE k == IF current = Unknown THEN Unknown ELSE InputsOf[dev]
    <3>2. k \in Int
      BY SvsAssumption DEF Bus, BusTypes, Unknown
    <3>3. connections \in Nat
      BY Sizes DEF BusTypes
    <3> HIDE DEF k
    <3>4. IsRead([NoRead EXCEPT !.connection = connections, !.inputs = k])
      BY <3>2, <3>3 DEF NoRead, Nothing, IsRead, IsEeprom
    <3>5. IsRead(r') /\ r'.connection = connections
      BY <3>1, <3>4 DEF k, NoRead
    <3> QED
      BY <2>5, <3>1, <3>5
  <2>6. CASE BeginWrite
    BY <2>6 DEF BeginWrite
  <2>7. CASE Receive
    <3>1. /\ answers # <<>> /\ UNCHANGED <<read, connections>>
          /\ r' = r \/ r' = [r EXCEPT !.eeprom = With(@, Question[2], Head(answers))]
      BY <2>7, Zenon DEF Receive, AnswerTo
    <3>2. Head(answers) \in Byte
      BY <3>1 DEF Lines
    <3> QED
      BY <2>7, <3>1, <3>2
  <2>8. CASE ReceiveLast
    <3>1. /\ UNCHANGED <<read, connections>>
          /\ r' = [r EXCEPT !.tx = With(@, <<Question[2], Question[1]>>, answers[Len(answers)] = {})]
      BY <2>8 DEF ReceiveLast
    <3> QED
      BY <2>8, <3>1
  <2>9. CASE Confirm
    <3>1. /\ UNCHANGED <<read, connections>> /\ pc = "confirm"
          /\ r' = [r EXCEPT !.tx = With(@, NextChange, AsWanted(NextChange))]
      BY <2>9 DEF Confirm, AsWanted
    <3>2. AsWanted(NextChange) \in BOOLEAN
      <4>1. left # {}
        BY <3>1 DEF Job, Steps, Switching
      <4> QED
        BY <3>1, <4>1, NextChangeOk DEF Switching
    <3> QED
      BY <2>9, <3>1, <3>2
  <2>10. CASE StoreRead
    BY <2>10 DEF StoreRead
  <2>11. CASE StoreWrite
    BY <2>11 DEF StoreWrite
  <2> QED
    BY <1>2, <2>1, <2>2, <2>3, <2>4, <2>5, <2>6, <2>7, <2>8, <2>9, <2>10, <2>11 DEF Background
<1> QED
  BY <1>1, <1>2 DEF Next

LEMMA RecordsStep ==
  ASSUME BusTypes, Bus, Steps, Lines, Records, Job, [Next]_vars
  PROVE  Records'
<1>1. connections \in Nat /\ r.connection \in Nat /\ read.connection \in Nat
  BY Sizes DEF BusTypes, Records, IsRead
<1>2. CASE UNCHANGED vars
  BY <1>2 DEF vars, busVars, Records, IsRead, IsEeprom
<1>3. CASE BridgeRestart
  <2>1. r' = NoRead /\ read' = NoRead /\ connections' = 0
    BY <1>3 DEF BridgeRestart
  <2>2. IsRead(r') /\ IsRead(read') /\ r'.connection = 0 /\ read'.connection = 0
    BY <2>1, NoReadIsRead
  <2> QED
    BY <2>1, <2>2 DEF Records, IsRead, IsEeprom
<1>4. CASE Next /\ ~BridgeRestart
  <2>1. connections' >= connections /\ connections' \in Nat
    BY <1>1, <1>4, ReadsChange
  <2>2. IsRead(r') /\ r'.connection <= connections
    <3>1. CASE r' = r
      BY <3>1 DEF Records
    <3>2. CASE r' = NoRead
      BY <1>1, <3>2, NoReadIsRead
    <3>3. CASE r' = read
      BY <3>3 DEF Records
    <3>4. ASSUME NEW a, NEW v \in Byte, r' = [r EXCEPT !.eeprom = With(@, a, v)]
          PROVE  IsRead(r') /\ r'.connection <= connections
      BY <3>4, WithEeprom DEF Records
    <3>5. ASSUME NEW p, NEW v \in BOOLEAN, r' = [r EXCEPT !.tx = With(@, p, v)]
          PROVE  IsRead(r') /\ r'.connection <= connections
      BY <3>5, WithTx DEF Records
    <3>6. CASE IsRead(r') /\ r'.connection = connections
      BY <1>1, <3>6
    <3> QED
      BY <1>4, <3>1, <3>2, <3>3, <3>4, <3>5, <3>6, ReadsChange
  <2>3. IsRead(read') /\ read'.connection <= connections
    <3>1. CASE read' = read
      BY <3>1 DEF Records
    <3>2. CASE read' = r
      BY <3>2 DEF Records
    <3>3. CASE read' = [r EXCEPT !.valid = TRUE]
      BY <3>3 DEF Records, IsRead, IsEeprom
    <3> QED
      BY <1>4, <3>1, <3>2, <3>3, ReadsChange
  <2>4. r'.connection <= connections' /\ read'.connection <= connections'
    <3>1. r'.connection \in Nat /\ read'.connection \in Nat
      BY <2>2, <2>3 DEF IsRead
    <3> QED
      BY <1>1, <2>1, <2>2, <2>3, <3>1
  <2> QED
    BY <2>2, <2>3, <2>4 DEF Records, IsRead, IsEeprom
<1> QED
  BY <1>2, <1>3, <1>4

\* A connection that is there after a step was there before it, unless it is a new one.
LEMMA LiveBefore ==
  ASSUME Bus, BusTypes, [Next]_vars, NEW rd, rd.connection \in Nat, rd.connection <= connections,
         alive', rd.connection = connections'
  PROVE  Live(rd) /\ UNCHANGED <<alive, connections, dev, port>> /\ dev \in SVS /\ port = dev
<1>1. connections \in Nat
  BY Sizes DEF BusTypes
<1>2. CASE Environment
  <2> USE SvsAssumption DEF busVars, Bus
  <2>1. ASSUME NEW s \in SVS, Plug(s) PROVE FALSE
    BY <2>1 DEF Plug
  <2>2. ~Unplug /\ ~PowerLoss
    BY DEF Unplug, PowerLoss, BridgeRestart
  <2>3. ~Open
    BY <1>1 DEF Open
  <2>4. ~Close
    BY DEF Close
  <2>5. ASSUME Report \/ (\E n : Select(n)) \/ (\E a : Console(a))
        PROVE  UNCHANGED <<alive, connections, dev, port>>
    BY <2>5 DEF Report, Select, Console
  <2> QED
    BY <1>2, <2>1, <2>2, <2>3, <2>4, <2>5 DEF Environment, Live
<1>3. CASE Deliver \/ Handlers \/ UNCHANGED vars
  <2>1. UNCHANGED <<alive, connections, dev, port>>
    BY <1>3 DEF Deliver, Handlers, StartRead, StartWrite, Start, vars, busVars
  <2> QED
    BY <2>1 DEF Live, Bus
<1>4. CASE Background
  <2>1. ~Abort
    BY DEF Abort, BridgeRestart
  <2>2. UNCHANGED <<alive, connections, dev, port>>
    BY <1>4, <2>1 DEF Background, EndSession, Finish, Ask, TimeOut, Unanswered, Receive,
       ReceiveLast, BeginRead, StoreRead, BeginWrite, Save, BeginCheck, Check, BeginTranscoders,
       Switch, WaitForInput, Set, Confirm, Restore, StoreWrite, busVars
  <2> QED
    BY <2>2 DEF Live, Bus
<1> QED
  BY <1>2, <1>3, <1>4 DEF Next

\* Before its first step a task has no Read of any connection.
LEMMA NoReadIsNotLive ==
  ASSUME Bus
  PROVE  ~Live(NoRead)
BY NoReadIsRead DEF Bus, Live

\* What start_write keeps is proper settings.
LEMMA NormalizedIsWanted ==
  ASSUME BusTypes, NEW w \in Wants[faults], Len(w) = read.inputs,
         \A n \in 1..Len(w) : Len(w[n].ir) <= ir_slots(read.inputs)
  PROVE  /\ Wanted(Normalized(w), read.inputs)
         /\ \A n \in 1..read.inputs, x \in Transcoders : Normalized(w)[n][Field(x)] \in BOOLEAN
<1> DEFINE S == [auto_profile : BOOLEAN, rgsb : BOOLEAN, sync_bypass : BOOLEAN,
                 ir : Seq(IrCode), rgb_to_ypbpr : BOOLEAN, ypbpr_to_rgb : BOOLEAN]
           N == Normalized(w)
           old == Settings(read)
<1>1. w \in Seq(S)
  BY WantsAssumption DEF BusTypes
<1>2. DOMAIN N = 1..read.inputs /\ DOMAIN old = 1..read.inputs
  BY DEF Normalized, Settings
<1>3. ASSUME NEW n \in 1..read.inputs
      PROVE  /\ N[n].auto_profile \in BOOLEAN /\ N[n].rgsb \in BOOLEAN /\ N[n].sync_bypass \in BOOLEAN
             /\ N[n].ir \in Seq(IrCode) /\ Len(N[n].ir) <= ir_slots(read.inputs)
             /\ N[n].rgb_to_ypbpr \in BOOLEAN /\ N[n].ypbpr_to_rgb \in BOOLEAN
  <2>1. w[n] \in S /\ Len(w[n].ir) <= ir_slots(read.inputs)
    <3> HIDE DEF S
    <3> QED
      BY <1>1
  <2>2. /\ w[n].auto_profile \in BOOLEAN /\ w[n].rgsb \in BOOLEAN /\ w[n].sync_bypass \in BOOLEAN
        /\ w[n].ir \in Seq(IrCode) /\ w[n].rgb_to_ypbpr \in BOOLEAN /\ w[n].ypbpr_to_rgb \in BOOLEAN
    BY <2>1
  <2>3. /\ old[n].rgsb \in BOOLEAN /\ old[n].sync_bypass \in BOOLEAN
        /\ old[n].rgb_to_ypbpr \in BOOLEAN /\ old[n].ypbpr_to_rgb \in BOOLEAN
    BY DEF Settings, decode_input, Bit
  <2> HIDE DEF old
  <2>4. N[n] = [auto_profile |-> w[n].auto_profile,
          rgsb |-> IF ScartV3(read.eeprom, n) \/ VgaV3(read.eeprom, n) THEN w[n].rgsb ELSE old[n].rgsb,
          sync_bypass |-> IF ScartV3(read.eeprom, n) THEN w[n].sync_bypass ELSE old[n].sync_bypass,
          ir |-> w[n].ir,
          rgb_to_ypbpr |-> IF FittedIn(read.eeprom, "Y") THEN w[n].rgb_to_ypbpr ELSE old[n].rgb_to_ypbpr,
          ypbpr_to_rgb |-> IF FittedIn(read.eeprom, "G") THEN w[n].ypbpr_to_rgb ELSE old[n].ypbpr_to_rgb]
    BY DEF Normalized, old
  <2> HIDE DEF N, S
  <2> QED
    BY <2>1, <2>2, <2>3, <2>4
<1> HIDE DEF N
<1>4. \A m \in Maps : m.field \in {"auto_profile", "rgsb", "sync_bypass"}
  BY DEF Maps
<1>5. \A x \in Transcoders : Field(x) \in {"rgb_to_ypbpr", "ypbpr_to_rgb"}
  BY DEF Field, Transcoders
<1>6. Wanted(N, read.inputs)
  BY <1>2, <1>3, <1>4 DEF Wanted
<1>7. \A n \in 1..read.inputs, x \in Transcoders : N[n][Field(x)] \in BOOLEAN
  BY <1>3, <1>5
<1> QED
  BY <1>6, <1>7 DEF N

LEMMA JobStep ==
  ASSUME BusTypes, Bus, Steps, Records, Job, [Next]_vars
  PROVE  Job'
<1> USE DEF Job, Saving, Asking, Switching
<1>1. CASE UNCHANGED <<task, want, read, r, pc, left>>
  BY <1>1 DEF Plan
<1>2. CASE task' # "Writing"
  BY <1>2
<1>3. ASSUME NEW w \in Wants[faults], StartWrite(w) PROVE Job'
  <2>1. /\ want' = Normalized(w) /\ pc' = "begin" /\ read' = read
        /\ Len(w) = read.inputs /\ \A n \in 1..Len(w) : Len(w[n].ir) <= ir_slots(read.inputs)
    BY <1>3 DEF StartWrite, Start
  <2> QED
    BY <2>1, NormalizedIsWanted
<1>4. CASE task = "Writing" /\ Background /\ ~Abort /\ ~Finish
  <2> DEFINE Wanting == /\ Wanted(want, read.inputs)
                        /\ \A n \in 1..read.inputs, x \in Transcoders : want[n][Field(x)] \in BOOLEAN
  <2>0. Wanting /\ task' = task /\ want' = want
    BY <1>4 DEF Background, EndSession, Ask, TimeOut, Unanswered, Receive, ReceiveLast, BeginRead,
       StoreRead, BeginWrite, Save, BeginCheck, Check, BeginTranscoders, Switch, WaitForInput,
       Set, Confirm, Restore, StoreWrite
  <2> HIDE DEF Wanting
  <2>1. CASE EndSession
    BY <1>4, <2>0, <2>1 DEF EndSession, Wanting, Plan, jobVars, Steps, InSession
  <2>2. CASE Ask \/ TimeOut
    BY <1>4, <2>0, <2>2 DEF Ask, TimeOut, Wanting, Plan, jobVars
  <2>3. CASE Unanswered
    <3>1. UNCHANGED <<r, read, left>> /\ pc = "unanswered" /\ pc' \in {"ask", "end"}
      BY <2>3, Zenon DEF Unanswered, Ending
    <3> QED
      BY <1>4, <2>0, <3>1 DEF Wanting, Plan
  <2>4. CASE Receive
    <3>1. /\ read' = read /\ pc = "await"
          /\ \/ /\ r' = [r EXCEPT !.eeprom = With(@, Question[2], Head(answers))]
                /\ left' = left \ {NextPut} /\ pc' = "check"
             \/ UNCHANGED <<r, left>> /\ pc' = "end"
      BY <1>4, <2>4, Zenon DEF Receive, AnswerTo, Ending
    <3>2. r'.inputs = r.inputs /\ r'.connection = r.connection /\ r'.tx = r.tx
      BY <3>1 DEF Records, IsRead
    <3> QED
      BY <1>4, <2>0, <3>1, <3>2 DEF Wanting, Plan
  <2>5. CASE ReceiveLast
    <3>1. Question[1] = "R"
      BY <1>4 DEF Question
    <3> QED
      BY <2>5, <3>1 DEF ReceiveLast
  <2>6. CASE BeginWrite
    <3>1. /\ r' = read /\ read' = read
          /\ \/ CanPlan(read.eeprom, want, read.inputs) /\ left' = Plan /\ pc' = "save"
             \/ pc' = "end"
      BY <2>6, Zenon DEF BeginWrite, Ending
    <3> QED
      BY <1>4, <2>0, <3>1 DEF Wanting, Plan
  <2>7. CASE Save
    <3>1. /\ pc = "save" /\ UNCHANGED <<r, read>> /\ pc' \in {"save", "end"}
          /\ left' = left \/ left' = left \ {NextPut}
      BY <2>7, Zenon DEF Save, Ending
    <3> QED
      BY <1>4, <2>0, <3>1 DEF Wanting, Plan
  <2>8. CASE BeginCheck \/ Check
    BY <1>4, <2>0, <2>8 DEF BeginCheck, Check, Wanting, Plan, jobVars
  <2>9. CASE BeginTranscoders
    <3>1. /\ UNCHANGED <<r, read>> /\ pc = "check" /\ left' = Changes
          /\ pc' = "store" \/ (pc' = "switch" /\ Changes # {})
      BY <2>9 DEF BeginTranscoders
    <3>2. Changes \subseteq (1..r.inputs) \X Transcoders
      BY DEF Changes
    <3> QED
      BY <1>4, <2>0, <3>1, <3>2 DEF Wanting, Plan
  <2>10. CASE Switch \/ WaitForInput \/ Set
    <3>1. /\ UNCHANGED <<r, read, left>> /\ pc \in Switching
          /\ pc' = "restore" \/ (pc' \in Switching /\ left # {})
      BY <1>4, <2>10 DEF Switch, WaitForInput, Set
    <3> QED
      BY <1>4, <2>0, <3>1 DEF Wanting, Plan
  <2>11. CASE Confirm
    <3>1. /\ read' = read /\ pc = "confirm" /\ pc' = "switch" /\ left' = left \ {NextChange}
          /\ r' = [r EXCEPT !.tx = With(@, NextChange, want[NextChange[1]][Field(NextChange[2])])]
      BY <2>11 DEF Confirm
    <3>2. r'.inputs = r.inputs /\ r'.connection = r.connection
      BY <3>1 DEF Records, IsRead
    <3> QED
      BY <1>4, <2>0, <3>1, <3>2 DEF Wanting, Plan
  <2>12. CASE Restore
    BY <1>4, <2>0, <2>12 DEF Restore, Wanting, Plan, jobVars
  <2>13. CASE StoreWrite
    <3>1. r' = r /\ read' = r /\ pc = "store" /\ pc' = "end"
      BY <2>13 DEF StoreWrite, jobVars
    <3>2. r.inputs = read.inputs
      BY <1>4, <3>1
    <3> QED
      BY <1>4, <2>0, <3>1, <3>2 DEF Wanting
  <2>14. ~BeginRead /\ ~StoreRead
    BY <1>4 DEF BeginRead, StoreRead
  <2> QED
    BY <1>4, <2>1, <2>2, <2>3, <2>4, <2>5, <2>6, <2>7, <2>8, <2>9, <2>10, <2>11, <2>12, <2>13,
       <2>14 DEF Background
<1> QED
  <2>1. CASE Environment
    BY <1>1, <1>2, <2>1 DEF Environment, Plug, Unplug, Open, Close, Report, Select, Console,
       PowerLoss, BridgeRestart, jobVars
  <2>2. CASE Deliver \/ StartRead \/ UNCHANGED vars
    BY <1>1, <1>2, <2>2 DEF Deliver, StartRead, Start, jobVars, vars
  <2>3. CASE Background
    <3>1. CASE Abort \/ Finish
      BY <1>2, <3>1 DEF Abort, BridgeRestart, Finish, ToIdle
    <3>2. CASE ~Abort /\ ~Finish
      <4>1. task' = task
        BY <2>3, <3>2 DEF Background, EndSession, Ask, TimeOut, Unanswered, Receive, ReceiveLast,
           BeginRead, StoreRead, BeginWrite, Save, BeginCheck, Check, BeginTranscoders, Switch,
           WaitForInput, Set, Confirm, Restore, StoreWrite
      <4> QED
        BY <1>2, <1>4, <2>3, <3>2, <4>1
    <3> QED
      BY <3>1, <3>2
  <2> QED
    BY <1>3, <2>1, <2>2, <2>3 DEF Next, Handlers

LEMMA LiveInputsStep ==
  ASSUME Bus, Bus', BusTypes, Steps, Lines, Records, Job, LiveInputs, [Next]_vars
  PROVE  LiveInputs'
<1>0. \A rd \in {r, read} : rd.connection \in Nat /\ rd.connection <= connections
  BY DEF Records, IsRead
<1>1. ASSUME NEW rd \in {r, read}, alive', rd.connection = connections'
      PROVE  Live(rd) /\ InputsOf[dev'] = InputsOf[dev]
  BY <1>0, <1>1, LiveBefore
<1>2. ASSUME r' = r, task' = task \/ r = NoRead, alive', r'.connection = connections'
      PROVE  r'.inputs = InputsOf[dev'] \/ (task' = "Reading" /\ r'.inputs = Unknown)
  <2>1. Live(r) /\ InputsOf[dev'] = InputsOf[dev]
    BY <1>1, <1>2
  <2>2. r # NoRead
    BY <2>1, NoReadIsNotLive
  <2> QED
    BY <1>2, <2>1, <2>2 DEF LiveInputs
<1>3. ASSUME read' = read, alive', read'.connection = connections'
      PROVE  read'.inputs = InputsOf[dev']
  BY <1>1, <1>3 DEF LiveInputs
<1>4. CASE UNCHANGED vars
  BY <1>2, <1>3, <1>4 DEF vars, LiveInputs, Live
<1>5. CASE Next
  <2>1. CASE UNCHANGED <<r, read>>
    <3>1. task' = task \/ r = NoRead
      <4>1. CASE Handlers
        BY <4>1 DEF Handlers, StartRead, StartWrite, CanRead, Steps
      <4>2. CASE ~Handlers
        <5>1. CASE BridgeRestart \/ Finish
          BY <2>1, <5>1 DEF BridgeRestart, Finish, ToIdle
        <5>2. CASE ~BridgeRestart /\ ~Finish
          BY <1>5, <4>2, <5>2 DEF Next, Environment, Plug, Unplug, Open, Close, Report, Select,
             Console, PowerLoss, Deliver, Background, EndSession, Ask, TimeOut, Unanswered,
             Receive, ReceiveLast, BeginRead, Abort, StoreRead, BeginWrite, Save, BeginCheck,
             Check, BeginTranscoders, Switch, WaitForInput, Set, Confirm, Restore, StoreWrite
        <5> QED
          BY <5>1, <5>2
      <4> QED
        BY <4>1, <4>2
    <3> QED
      BY <1>2, <1>3, <2>1, <3>1 DEF LiveInputs, Live
  <2>2. CASE BridgeRestart
    BY <2>2 DEF BridgeRestart, LiveInputs, Live
  <2>3. CASE Finish /\ r' = NoRead /\ read' = read
    <3>1. ~(alive' /\ r'.connection = connections')
      BY <2>3, NoReadIsRead DEF Bus
    <3> QED
      BY <1>3, <2>3, <3>1 DEF LiveInputs, Live
  <2>4. CASE BeginRead /\ read' = read
    <3>1. /\ r' = [NoRead EXCEPT !.connection = connections,
                     !.inputs = IF current = Unknown THEN Unknown ELSE InputsOf[dev]]
          /\ dev' = dev /\ task' = "Reading"
      BY <2>4 DEF BeginRead, busVars
    <3>2. r'.inputs = IF current = Unknown THEN Unknown ELSE InputsOf[dev]
      BY <3>1 DEF NoRead
    <3> QED
      BY <1>3, <2>4, <3>1, <3>2 DEF LiveInputs, Live
  <2>5. CASE BeginWrite /\ r' = read /\ read' = read
    BY <1>3, <2>5 DEF LiveInputs, Live
  <2>6. ASSUME read' = read, task' = task, r'.inputs = r.inputs, r'.connection = r.connection
        PROVE  LiveInputs'
    <3>1. ASSUME alive', r'.connection = connections'
          PROVE  r'.inputs = InputsOf[dev'] \/ (task' = "Reading" /\ r'.inputs = Unknown)
      BY <1>1, <2>6, <3>1 DEF LiveInputs
    <3> QED
      BY <1>3, <2>6, <3>1 DEF LiveInputs, Live
  <2>7. ASSUME Receive, read' = read, NEW a, NEW v \in Byte, r' = [r EXCEPT !.eeprom = With(@, a, v)]
        PROVE  LiveInputs'
    <3>1. task' = task /\ r'.inputs = r.inputs /\ r'.connection = r.connection
      BY <2>7, WithEeprom DEF Receive, Records
    <3> QED
      BY <2>6, <2>7, <3>1
  <2>8. ASSUME ReceiveLast \/ Confirm, read' = read,
               NEW p, NEW v \in BOOLEAN, r' = [r EXCEPT !.tx = With(@, p, v)]
        PROVE  LiveInputs'
    <3>1. task' = task /\ r'.inputs = r.inputs /\ r'.connection = r.connection
      BY <2>8, WithTx DEF ReceiveLast, Confirm, Records
    <3> QED
      BY <2>6, <2>8, <3>1
  <2>9. CASE (StoreRead /\ r' = r /\ read' = [r EXCEPT !.valid = TRUE])
             \/ (StoreWrite /\ r' = r /\ read' = r)
    <3>1. /\ task' = task /\ (r.inputs # Unknown \/ task # "Reading")
          /\ read'.inputs = r.inputs /\ read'.connection = r.connection
      BY <2>9 DEF StoreRead, StoreWrite, Steps, Records, IsRead
    <3>2. ASSUME alive', r.connection = connections' PROVE r.inputs = InputsOf[dev']
      BY <1>1, <3>1, <3>2 DEF LiveInputs
    <3> QED
      BY <2>9, <3>1, <3>2 DEF LiveInputs, Live
  <2> QED
    BY <1>5, <2>1, <2>2, <2>3, <2>4, <2>5, <2>7, <2>8, <2>9, ReadsChange
<1> QED
  BY <1>4, <1>5

\* What disturbs a behaviour does so from its start.
LEMMA FaultsStay ==
  ASSUME [Next]_vars
  PROVE  faults' = faults
BY DEF Next, Environment, Plug, Unplug, Open, Close, Report, Select, Console, PowerLoss, Deliver,
   Handlers, StartRead, StartWrite, Start, Background, EndSession, Finish, Ask, TimeOut,
   Unanswered, Receive, ReceiveLast, BeginRead, Abort, StoreRead, BeginWrite, Save, BeginCheck,
   Check, BeginTranscoders, Switch, WaitForInput, Set, Confirm, Restore, StoreWrite,
   BridgeRestart, envVars, vars

LEMMA SteadyStep ==
  ASSUME Bus, BusTypes, Steps, TaskTypes, Lines, Records, Job, Steady, [Next]_vars
  PROVE  Steady'
<1> SUFFICES ASSUME "swap" \notin faults
             PROVE  /\ pc' \notin {"idle", "begin"} => alive' /\ r'.connection = connections'
                    /\ task' = "Writing" => alive' /\ read'.connection = connections'
  <2>1. faults' = faults
    BY FaultsStay
  <2> QED
    BY <2>1 DEF Steady, Live
<1>1. /\ pc \notin {"idle", "begin"} => alive /\ r.connection = connections
      /\ task = "Writing" => alive /\ read.connection = connections
      /\ dev # NoSvs => alive
      /\ task # "Idle" => dev # NoSvs
  BY DEF Steady, Live, Bus
<1>2. CASE UNCHANGED <<pc, task, r, read, alive, connections>>
  BY <1>1, <1>2
<1>3. CASE BridgeRestart \/ Finish
  BY <1>3 DEF BridgeRestart, Finish, ToIdle
<1>4. CASE Open
  <2>1. task' = "Idle" /\ pc' = "idle"
    BY <1>1, <1>4 DEF Open, Steps
  <2> QED
    BY <2>1
<1>5. CASE StartRead
  BY <1>1, <1>5 DEF StartRead, Start, Steps, TaskTypes
<1>6. ASSUME NEW w, StartWrite(w)
      PROVE  pc' = "begin" /\ alive' /\ read'.connection = connections'
  BY <1>1, <1>6 DEF StartWrite, Start, CanRead, Shown, busVars
<1>7. CASE Background /\ ~Abort /\ ~Finish
  <2>1. UNCHANGED <<alive, connections, task>> /\ pc # "idle"
    BY <1>7 DEF Background, EndSession, Ask, TimeOut, Unanswered, Receive, ReceiveLast, BeginRead,
       StoreRead, BeginWrite, Save, BeginCheck, Check, BeginTranscoders, Switch, WaitForInput,
       Set, Confirm, Restore, StoreWrite, busVars
  <2>2. alive
    BY <1>1, <2>1 DEF Steps, TaskTypes
  <2>3. CASE pc = "begin"
    <3>1. CASE BeginRead
      <4>1. r' = [NoRead EXCEPT !.connection = connections,
                    !.inputs = IF current = Unknown THEN Unknown ELSE InputsOf[dev]]
            /\ task' = "Reading"
        BY <3>1 DEF BeginRead
      <4> QED
        BY <2>1, <2>2, <4>1 DEF NoRead
    <3>2. CASE BeginWrite
      <4>1. r' = read /\ read' = read /\ task = "Writing"
        BY <3>2 DEF BeginWrite
      <4> QED
        BY <1>1, <2>1, <2>2, <4>1
    <3> QED
      BY <1>7, <2>3, <3>1, <3>2 DEF Background, EndSession, Ask, TimeOut, Unanswered, Receive,
         ReceiveLast, StoreRead, Save, BeginCheck, Check, BeginTranscoders, Switch, WaitForInput,
         Set, Confirm, Restore, StoreWrite
  <2>4. CASE pc # "begin"
    <3>1. r.connection = connections /\ (task = "Writing" => read.connection = connections)
      BY <1>1, <2>1, <2>4
    <3>2. r'.connection = r.connection
          /\ (read' = read \/ read'.connection = r.connection)
      <4>1. ~BeginRead /\ ~BeginWrite /\ ~BridgeRestart
        BY <2>1, <2>2, <2>4 DEF BeginRead, BeginWrite, BridgeRestart
      <4>2. CASE UNCHANGED <<r, read>>
        BY <4>2
      <4>3. ASSUME read' = read, NEW a, NEW v \in Byte, r' = [r EXCEPT !.eeprom = With(@, a, v)]
            PROVE  r'.connection = r.connection
        BY <4>3, WithEeprom DEF Records
      <4>4. ASSUME read' = read, NEW p, NEW v \in BOOLEAN, r' = [r EXCEPT !.tx = With(@, p, v)]
            PROVE  r'.connection = r.connection
        BY <4>4, WithTx DEF Records
      <4>5. CASE r' = r /\ (read' = r \/ read' = [r EXCEPT !.valid = TRUE])
        BY <4>5 DEF Records, IsRead
      <4> QED
        BY <1>7, <4>1, <4>2, <4>3, <4>4, <4>5, ReadsChange DEF Next
    <3> QED
      BY <2>1, <2>2, <3>1, <3>2
  <2> QED
    BY <2>3, <2>4
<1> QED
  <2>1. CASE Environment
    BY <1>2, <1>3, <1>4, <2>1 DEF Environment, Plug, Unplug, Close, Report, Select, Console,
       PowerLoss, jobVars, busVars
  <2>2. CASE Deliver \/ Handlers \/ UNCHANGED vars
    BY <1>2, <1>5, <1>6, <2>2 DEF Deliver, Handlers, jobVars, busVars, vars
  <2>3. CASE Background
    BY <1>3, <1>7, <2>3 DEF Abort
  <2> QED
    BY <2>1, <2>2, <2>3 DEF Next

-----------------------------------------------------------------------------
(* The questions and their answers *)

LEMMA SameExpected ==
  ASSUME UNCHANGED <<task, r, left, port, eeprom, converts>>
  PROVE  Expected' = Expected
<1>1. Question' = Question
  BY SameQuestion
<1> HIDE DEF Question
<1> QED
  BY <1>1 DEF Expected, ByteLines, TranscoderLines

\* How many lines answer a question
LEMMA ExpectedLines ==
  ASSUME Devices, port \in SVS
  PROVE  /\ Expected \in Seq(Byte) /\ Len(Expected) <= 2
         /\ Question[1] = "R" => Len(Expected) <= 1
<1>1. \A a : Len(ByteLines(a)) <= 1
  BY DEF ByteLines
<1>2. \A n, x : Len(TranscoderLines(n, x)) <= 2
  BY DEF TranscoderLines
<1>3. \A s \in Seq(Byte) : Len(s) \in Nat
  OBVIOUS
<1>4. CASE Question[1] = "R"
  <2>1. Expected = ByteLines(Question[2])
    BY <1>4 DEF Expected
  <2>2. Expected \in Seq(Byte) /\ Len(Expected) <= 1
    BY <1>1, <2>1, LinesAreBytes
  <2> QED
    BY <1>3, <2>2
<1>5. CASE Question[1] # "R"
  <2>1. Expected = TranscoderLines(Question[2], Question[1])
    BY <1>5 DEF Expected
  <2> QED
    BY <1>2, <1>5, <2>1, LinesAreBytes
<1> QED
  BY <1>4, <1>5

LEMMA AnsweringStep ==
  ASSUME Bus, BusTypes, Steps, Lines, Devices, Records, Answering, [Next]_vars
  PROVE  Answering'
<1> DEFINE Lost == IF "silent" \in faults THEN {<<>>} ELSE {}
<1> SUFFICES ASSUME Quiet
             PROVE  /\ pc' # "await" => wire' = <<>>
                    /\ pc' = "await" /\ Question'[1] = "R" => Len(wire') + Len(answers') <= 1
                    /\ pc' = "await" /\ Live(r)' => answers' \o wire' \in {Expected'} \cup Lost
  <2>1. faults' = faults
    BY FaultsStay
  <2> QED
    BY <2>1 DEF Answering, Quiet
<1>1. /\ pc # "await" => wire = <<>>
      /\ pc = "await" /\ Question[1] = "R" => Len(wire) + Len(answers) <= 1
      /\ pc = "await" /\ Live(r) => answers \o wire \in {Expected} \cup Lost
  BY DEF Answering
<1>2. "late" \notin faults /\ "console" \notin faults
  BY DEF Quiet
<1>3. wire \in Seq(Byte) /\ answers \in Seq(Byte) /\ Len(wire) \in Nat /\ Len(answers) \in Nat
  BY Lists DEF Lines
<1>4. ASSUME r' = r, Live(r)' PROVE Live(r) /\ port' = port /\ port \in SVS /\ dev = port
  <2>1. r.connection \in Nat /\ r.connection <= connections
    BY DEF Records, IsRead
  <2> QED
    BY <1>4, <2>1, LiveBefore DEF Live
<1> HIDE DEF Lost
<1>5. ASSUME UNCHANGED <<pc, wire, answers, task, r, left, eeprom, converts>>
      PROVE  /\ pc' # "await" => wire' = <<>>
             /\ pc' = "await" /\ Question'[1] = "R" => Len(wire') + Len(answers') <= 1
             /\ pc' = "await" /\ Live(r)' => answers' \o wire' \in {Expected'} \cup Lost
  <2>1. Question' = Question
    BY <1>5, SameQuestion
  <2>2. ASSUME pc' = "await", Live(r)' PROVE answers' \o wire' \in {Expected'} \cup Lost
    <3>1. Live(r) /\ port' = port
      BY <1>4, <1>5, <2>2
    <3>2. Expected' = Expected
      BY <1>5, <3>1, SameExpected
    <3> QED
      BY <1>1, <1>5, <2>2, <3>1, <3>2
  <2> QED
    BY <1>1, <1>5, <2>1, <2>2
<1>6. CASE Unplug
  <2>1. /\ wire' = <<>> /\ ~alive' /\ UNCHANGED <<pc, answers, task, r, left>>
    BY <1>6 DEF Unplug, jobVars
  <2>2. Question' = Question
    BY <2>1, SameQuestion
  <2>3. Len(wire') = 0 /\ Len(wire) >= 0
    BY <1>3, <2>1
  <2> QED
    BY <1>1, <1>3, <2>1, <2>2, <2>3 DEF Live
<1>7. CASE Deliver
  <2>1. /\ UNCHANGED <<pc, task, r, left, eeprom, converts, port>>
        /\ wire # <<>> /\ wire' = Tail(wire)
        /\ answers' = IF session /\ Len(answers) < QueueSize THEN Append(answers, Head(wire)) ELSE answers
    BY <1>7 DEF Deliver, jobVars, svsVars, busVars
  <2>2. pc = "await" /\ session
    BY <1>1, <2>1 DEF Steps, InSession, Asking
  <2>3. /\ Len(Append(answers, Head(wire))) = Len(answers) + 1 /\ Len(Tail(wire)) = Len(wire) - 1
        /\ Append(answers, Head(wire)) \o Tail(wire) = answers \o wire
    BY <1>3, <2>1, LineMoves
  <2>4. Question' = Question
    BY <2>1, SameQuestion
  <2>5. Len(wire') + Len(answers') <= Len(wire) + Len(answers)
    BY <1>3, <2>1, <2>3
  <2>6. Question'[1] = "R" => Len(wire') + Len(answers') <= 1
    <3>1. Len(wire') \in Nat /\ Len(answers') \in Nat
      BY <1>3, <2>1, <2>3
    <3> QED
      BY <1>1, <1>3, <2>2, <2>4, <2>5, <3>1
  <2>7. ASSUME Live(r)' PROVE answers' \o wire' \in {Expected'} \cup Lost
    <3>1. Live(r) /\ port' = port /\ port \in SVS
      BY <1>4, <2>1, <2>7
    <3>2. Expected' = Expected
      BY <2>1, SameExpected
    <3>3. Len(answers \o wire) = Len(answers) + Len(wire) /\ Len(wire) # 0
      BY <1>3, <2>1
    <3>4. answers \o wire # <<>>
      BY <1>3, <3>3
    <3>5. answers \o wire = Expected
      BY <1>1, <2>2, <3>1, <3>4 DEF Lost
    <3>6. Len(answers) < QueueSize
      BY <1>3, <3>1, <3>3, <3>5, ExpectedLines, Sizes
    <3>7. answers' \o wire' = Expected'
      BY <2>1, <2>2, <2>3, <3>2, <3>5, <3>6
    <3> QED
      BY <3>7
  <2> QED
    BY <2>1, <2>2, <2>6, <2>7
<1>8. CASE Ask
  <2>1. /\ UNCHANGED <<task, r, left, eeprom, converts, port, dev, alive, connections>>
        /\ pc = "ask" /\ answers' = <<>>
        /\ IF ~alive THEN pc' = "unanswered" /\ wire' = wire
           ELSE pc' = "await" /\ (wire' = wire \o Expected \/ ("silent" \in faults /\ wire' = wire))
    BY <1>8 DEF Ask, Expected, jobVars, svsVars, busVars
  <2>2. wire = <<>>
    BY <1>1, <2>1
  <2>3. Question' = Question /\ Expected' = Expected
    BY <2>1, SameQuestion, SameExpected
  <2>4. CASE ~alive
    BY <2>1, <2>2, <2>4
  <2>5. CASE alive
    <3>1. /\ Expected \in Seq(Byte) /\ (Question[1] = "R" => Len(Expected) <= 1)
      BY <2>5, ExpectedLines DEF Bus
    <3>2. <<>> \o Expected = Expected /\ <<>> \o (<<>> \o Expected) = Expected /\ <<>> \o <<>> = <<>>
          /\ Len(<<>>) = 0 /\ Len(Expected) \in Nat
      BY <3>1
    <3>3. wire' = Expected \/ ("silent" \in faults /\ wire' = <<>>)
      BY <2>1, <2>2, <2>5, <3>2
    <3>4. answers' \o wire' \in {Expected'} \cup Lost
      BY <2>1, <2>3, <3>2, <3>3 DEF Lost
    <3>5. Question'[1] = "R" => Len(wire') + Len(answers') <= 1
      BY <2>1, <2>3, <3>1, <3>2, <3>3
    <3> QED
      BY <2>1, <2>5, <3>4, <3>5
  <2> QED
    BY <2>4, <2>5
<1>9. CASE TimeOut \/ ReceiveLast
  <2>1. pc' # "await" /\ wire' = wire /\ wire = <<>>
    BY <1>2, <1>9 DEF TimeOut, ReceiveLast, lineVars
  <2> QED
    BY <2>1
<1>10. CASE Receive
  <2>1. /\ pc = "await" /\ answers # <<>> /\ Question[1] = "R" /\ wire' = wire
        /\ pc' \in {"ask", "check", "end"}
    BY <1>10, Zenon DEF Receive, AnswerTo, Ending
  <2>2. Len(answers) # 0 /\ (Len(wire) = 0 => wire = <<>>)
    BY <1>3, <2>1
  <2>3. wire = <<>>
    BY <1>1, <1>3, <2>1, <2>2
  <2> QED
    BY <2>1, <2>3
<1>11. CASE Confirm
  <2>1. pc' = "switch" /\ wire' = <<>>
    BY <1>2, <1>11 DEF Confirm
  <2> QED
    BY <2>1
<1>12. CASE BridgeRestart
  BY <1>12 DEF BridgeRestart
<1>13. ASSUME pc # "await", pc' # "await", wire' = wire
       PROVE  /\ pc' # "await" => wire' = <<>>
              /\ pc' = "await" /\ Question'[1] = "R" => Len(wire') + Len(answers') <= 1
              /\ pc' = "await" /\ Live(r)' => answers' \o wire' \in {Expected'} \cup Lost
  BY <1>1, <1>13
<1>14. CASE Environment /\ ~Unplug /\ ~PowerLoss
  <2>1. UNCHANGED <<pc, wire, answers, task, r, left, eeprom, converts>>
    BY <1>2, <1>14 DEF Environment, Plug, Open, Close, Report, Select, Console, lineVars, svsVars,
       jobVars
  <2> QED
    BY <1>5, <2>1
<1>15. CASE UNCHANGED vars
  <2>1. UNCHANGED <<pc, wire, answers, task, r, left, eeprom, converts>>
    BY <1>15 DEF vars
  <2> QED
    BY <1>5, <2>1
<1>16. CASE Handlers
  <2>1. pc # "await" /\ pc' # "await" /\ wire' = wire
    BY <1>16 DEF Handlers, StartRead, StartWrite, Start, CanRead, Steps, lineVars
  <2> QED
    BY <1>13, <2>1
<1>17. CASE Background /\ ~Ask /\ ~TimeOut /\ ~Receive /\ ~ReceiveLast /\ ~Confirm /\ ~Abort
  <2>1. pc # "await" /\ pc' # "await" /\ wire' = wire
    <3>1. CASE Unanswered
      BY <3>1, Zenon DEF Unanswered, Ending, lineVars
    <3>2. CASE EndSession \/ Finish \/ BeginRead \/ StoreRead
      BY <3>2 DEF EndSession, Finish, ToIdle, BeginRead, StoreRead, Ending, lineVars
    <3>3. CASE BeginWrite \/ Save
      BY <3>3 DEF BeginWrite, Save, Ending, lineVars
    <3>4. CASE BeginCheck \/ Check \/ BeginTranscoders \/ Switch \/ WaitForInput \/ Set
               \/ Restore \/ StoreWrite
      BY <3>4 DEF BeginCheck, Check, BeginTranscoders, Switch, WaitForInput, Set, Restore,
         StoreWrite, lineVars
    <3> QED
      BY <1>17, <3>1, <3>2, <3>3, <3>4 DEF Background
  <2> QED
    BY <1>13, <2>1
<1> QED
  BY <1>6, <1>7, <1>8, <1>9, <1>10, <1>11, <1>12, <1>14, <1>15, <1>16, <1>17
     DEF Next, Background, PowerLoss, Abort

LEMMA TaskChanges ==
  ASSUME [Next]_vars
  PROVE  \/ UNCHANGED <<task, want>>
         \/ BridgeRestart
         \/ Handlers /\ task = "Idle"
         \/ Finish /\ task' = "Idle"
<1>1. CASE Environment \/ Deliver \/ UNCHANGED vars
  BY <1>1 DEF Environment, Plug, Unplug, Open, Close, Report, Select, Console, PowerLoss, Deliver, vars
<1>2. CASE Handlers
  BY <1>2 DEF Handlers, StartRead, StartWrite, CanRead
<1>3. CASE Background
  BY <1>3 DEF Background, EndSession, Finish, ToIdle, Ask, TimeOut, Unanswered, Receive, ReceiveLast,
     BeginRead, Abort, StoreRead, BeginWrite, Save, BeginCheck, Check, BeginTranscoders, Switch,
     WaitForInput, Set, Confirm, Restore, StoreWrite
<1> QED
  BY <1>1, <1>2, <1>3 DEF Next

\* Only a save changes what an EEPROM holds, one byte at a time.
LEMMA EepromChanges ==
  ASSUME [Next]_vars
  PROVE  \/ eeprom' = eeprom
         \/ /\ Save /\ pc = "save" /\ pc' = "save" /\ left # {} /\ alive /\ left' = left \ {NextPut}
            /\ eeprom' = [eeprom EXCEPT ![port] = Written(@, {NextPut})]
            /\ UNCHANGED <<r, read, task, want, port, dev>>
<1>1. CASE Save
  BY <1>1 DEF Save, busVars
<1>2. CASE ~Save
  BY <1>2 DEF Next, Environment, Plug, Unplug, Open, Close, Report, Select, Console, PowerLoss,
     Deliver, Handlers, StartRead, StartWrite, Start, Background, EndSession, Finish, Ask,
     TimeOut, Unanswered, Receive, ReceiveLast, BeginRead, Abort, StoreRead, BeginWrite,
     BeginCheck, Check, BeginTranscoders, Switch, WaitForInput, Set, Confirm, Restore, StoreWrite,
     BridgeRestart, svsVars, vars
<1> QED
  BY <1>1, <1>2

\* While nobody else asks, the first line that comes is the byte asked for.
LEMMA AnswerIsRight ==
  ASSUME Quiet, Lines, Bus, Answering, pc = "await", Live(r), answers # <<>>, Question[1] = "R"
  PROVE  Question[2] \in DOMAIN eeprom[dev] /\ Head(answers) = eeprom[dev][Question[2]]
<1>1. answers \o wire \in {Expected} \cup IF "silent" \in faults THEN {<<>>} ELSE {}
  BY DEF Answering
<1>2. answers \in Seq(Byte) /\ wire \in Seq(Byte)
  BY DEF Lines
<1>3. answers \o wire # <<>> /\ Head(answers \o wire) = Head(answers)
  BY <1>2
<1>4. answers \o wire = Expected
  BY <1>1, <1>3
<1>5. Expected = ByteLines(Question[2]) /\ port = dev
  BY DEF Expected, Bus, Live
<1>6. CASE Question[2] \in DOMAIN eeprom[dev]
  <2> DEFINE v == eeprom[dev][Question[2]]
  <2>1. Expected = <<v>>
    BY <1>5, <1>6 DEF ByteLines
  <2> HIDE DEF v
  <2>2. Head(answers) = v
    BY <1>3, <1>4, <2>1
  <2> QED
    BY <1>6, <2>2 DEF v
<1>7. CASE Question[2] \notin DOMAIN eeprom[dev]
  BY <1>3, <1>4, <1>5, <1>7 DEF ByteLines
<1> QED
  BY <1>6, <1>7

LEMMA WithAgrees ==
  ASSUME NEW f, NEW e, Agrees(f, e), NEW x \in DOMAIN e
  PROVE  Agrees(With(f, x, e[x]), e)
BY DEF Agrees, With

LEMMA ReadRightStep ==
  ASSUME Bus, Bus', BusTypes, Steps, Lines, Records, Job, Answering, ReadRight, [Next]_vars
  PROVE  ReadRight'
<1> SUFFICES ASSUME Quiet, task' = "Reading", alive', r'.connection = connections'
             PROVE  Agrees(r'.eeprom, eeprom'[dev'])
  <2>1. faults' = faults
    BY FaultsStay
  <2> QED
    BY <2>1 DEF ReadRight, Quiet, Live, Agrees
<1>1. ASSUME r'.connection = r.connection, r # NoRead
      PROVE  /\ Live(r) /\ task = "Reading" /\ UNCHANGED <<dev, eeprom, task>> /\ port = dev
             /\ Agrees(r.eeprom, eeprom[dev])
  <2>1. r.connection \in Nat /\ r.connection <= connections
    BY DEF Records, IsRead
  <2>2. Live(r) /\ dev' = dev /\ port = dev
    BY <1>1, <2>1, LiveBefore
  <2>3. task # "Idle"
    BY <1>1 DEF Steps
  <2>4. task = "Reading" /\ task' = task
    <3>1. ~BridgeRestart
      BY DEF BridgeRestart
    <3> QED
      BY <2>3, <3>1, TaskChanges
  <2>5. eeprom' = eeprom
    BY <2>4, EepromChanges DEF Steps
  <2> QED
    BY <2>2, <2>4, <2>5 DEF ReadRight
<1>2. r' # NoRead
  BY NoReadIsRead DEF Bus
<1>3. CASE r' = r
  BY <1>1, <1>2, <1>3
<1>4. CASE BeginRead
  <2>1. r'.eeprom = Nothing
    BY <1>4 DEF BeginRead, NoRead
  <2> QED
    BY <2>1 DEF Agrees, Nothing
<1>5. ASSUME Receive, NEW a, NEW v \in Byte, r' = [r EXCEPT !.eeprom = With(@, a, v)]
      PROVE  Agrees(r'.eeprom, eeprom'[dev'])
  <2>1. r'.connection = r.connection
    BY <1>5, WithEeprom DEF Records
  <2>2. r # NoRead
    BY <1>2, <2>1, NoReadIsRead DEF Bus
  <2>3. /\ Live(r) /\ task = "Reading" /\ UNCHANGED <<dev, eeprom, task>>
        /\ Agrees(r.eeprom, eeprom[dev])
    BY <1>1, <2>1, <2>2
  <2>4. /\ pc = "await" /\ answers # <<>> /\ Question[1] = "R"
        /\ r' = [r EXCEPT !.eeprom = With(@, Question[2], Head(answers))]
    BY <1>5, <2>3 DEF Receive, AnswerTo
  <2>5. Question[2] \in DOMAIN eeprom[dev] /\ Head(answers) = eeprom[dev][Question[2]]
    BY <2>3, <2>4, AnswerIsRight
  <2>6. r'.eeprom = With(r.eeprom, Question[2], Head(answers))
    BY <2>4 DEF Records, IsRead
  <2> HIDE DEF Question
  <2>7. Agrees(r'.eeprom, eeprom[dev])
    BY <2>3, <2>5, <2>6, WithAgrees
  <2> QED
    BY <2>3, <2>7
<1>6. ASSUME NEW p, NEW v \in BOOLEAN, r' = [r EXCEPT !.tx = With(@, p, v)]
      PROVE  Agrees(r'.eeprom, eeprom'[dev'])
  <2>1. r'.connection = r.connection /\ r'.eeprom = r.eeprom
    BY <1>6, WithTx DEF Records
  <2>2. r # NoRead
    BY <2>1, NoReadIsRead DEF Bus
  <2> QED
    BY <1>1, <2>1, <2>2
<1>7. ~BridgeRestart /\ ~BeginWrite /\ ~Finish
  BY DEF BridgeRestart, BeginWrite, Finish, ToIdle
<1>8. r' = r \/ Next
  BY DEF vars
<1> QED
  BY <1>3, <1>4, <1>5, <1>6, <1>7, <1>8, ReadsChange

-----------------------------------------------------------------------------
(* What a read and a save know of the EEPROM *)

\* A save gets the byte it asks for, and it is the byte that was put there.
LEMMA SavedByteIsRead ==
  ASSUME Heeded, Bus, Lines, Job, Answering, SaveKnown, task = "Writing", Live(r), pc = "await"
  PROVE  /\ Question = <<"R", NextPut[1]>> /\ NextPut \in left /\ NextPut \in Plan
         /\ NextPut[1] \in DOMAIN eeprom[dev] /\ eeprom[dev][NextPut[1]] = NextPut[2]
         /\ answers # <<>> => Head(answers) = NextPut[2]
         /\ answers # <<>> \/ wire # <<>>
<1>1. Question = <<"R", NextPut[1]>>
  BY DEF Question
<1>2. NextPut \in left /\ NextPut \in Plan
  BY NextPutOk DEF Job, Saving, Asking
<1>3. NextPut[1] \in DOMAIN eeprom[dev] /\ eeprom[dev][NextPut[1]] = NextPut[2]
  BY <1>2 DEF SaveKnown, PartlySaved
<1>4. Quiet /\ "silent" \notin faults
  BY DEF Heeded, Quiet
<1>5. answers # <<>> => Head(answers) = NextPut[2]
  BY <1>1, <1>3, <1>4, AnswerIsRight
<1>6. answers # <<>> \/ wire # <<>>
  <2>1. answers \o wire = Expected
    BY <1>4 DEF Answering
  <2>2. Expected = <<eeprom[dev][NextPut[1]]>>
    BY <1>1, <1>3 DEF Expected, ByteLines, Bus, Live
  <2> DEFINE v == eeprom[dev][NextPut[1]]
  <2>3. answers \o wire = <<v>>
    BY <2>1, <2>2
  <2> HIDE DEF v
  <2> QED
    BY <2>3
<1> QED
  BY <1>1, <1>2, <1>3, <1>5, <1>6

\* So no question of a save goes unanswered, and each byte is confirmed.
LEMMA ChecksSucceed ==
  ASSUME Heeded, Bus, Lines, Records, Job, Answering, SaveKnown, task = "Writing", Live(r)
  PROVE  /\ ~TimeOut /\ ~Unanswered
         /\ Receive => /\ pc = "await" /\ pc' = "check" /\ left' = left \ {NextPut}
                       /\ r' = [r EXCEPT !.eeprom = With(@, NextPut[1], NextPut[2])]
                       /\ UNCHANGED <<task, read, want, eeprom, dev>>
<1>1. ~Unanswered
  BY DEF Unanswered, SaveKnown
<1>2. ~TimeOut
  <2>1. "late" \notin faults
    BY DEF Heeded
  <2> QED
    BY <2>1, SavedByteIsRead DEF TimeOut
<1>3. ASSUME Receive
      PROVE  /\ pc = "await" /\ pc' = "check" /\ left' = left \ {NextPut}
             /\ r' = [r EXCEPT !.eeprom = With(@, NextPut[1], NextPut[2])]
             /\ UNCHANGED <<task, read, want, eeprom, dev>>
  <2>1. pc = "await" /\ answers # <<>> /\ AnswerTo(Question[2], Head(answers))
        /\ UNCHANGED <<task, read, want, eeprom, dev>>
    BY <1>3 DEF Receive, svsVars, busVars
  <2>2. Question[2] = NextPut[1] /\ Head(answers) = NextPut[2]
    BY <2>1, SavedByteIsRead
  <2> QED
    BY <2>1, <2>2 DEF AnswerTo
<1> QED
  BY <1>1, <1>2, <1>3

LEMMA ReadKnownStep ==
  ASSUME Heeded, Bus, BusTypes, Steps, TaskTypes, Lines, Records, Job, Answering, ReadRight,
         ReadKnown, SaveKnown, [Next]_vars
  PROVE  ReadKnown'
<1> SUFFICES ASSUME alive', read'.connection = connections',
                    task' = "Writing" => pc' \in {"begin", "end", "ended"}
             PROVE  Agrees(read'.eeprom, eeprom'[dev'])
  BY DEF ReadKnown, Live, Agrees
<1>1. ~BridgeRestart
  BY DEF BridgeRestart
<1>2. eeprom' = eeprom
  <2>1. ASSUME Save, pc = "save", pc' = "save", task' = task PROVE FALSE
    BY <2>1 DEF Steps
  <2> QED
    BY <2>1, EepromChanges
<1>3. CASE read' = read /\ ~StoreWrite
  <2>1. read.connection \in Nat /\ read.connection <= connections
    BY DEF Records, IsRead
  <2>2. Live(read) /\ dev' = dev
    BY <1>3, <2>1, LiveBefore
  <2>3. ASSUME task = "Writing", pc \notin {"begin", "end", "ended"} PROVE FALSE
    <3>1. pc # "idle" /\ task' = task
      BY <1>1, <2>3, TaskChanges DEF Steps, Finish
    <3>2. pc' \in {"begin", "end", "ended"}
      BY <2>3, <3>1
    <3>3. Live(r)
      BY <2>2, <2>3 DEF Job, Live
    <3>4. ~TimeOut /\ ~Unanswered /\ (Receive => pc' = "check")
      BY <2>3, <3>3, ChecksSucceed
    <3>5. CASE Environment \/ Deliver \/ UNCHANGED vars
      BY <1>1, <2>3, <3>2, <3>5 DEF Environment, Plug, Unplug, Open, Close, Report, Select, Console,
         PowerLoss, Deliver, vars
    <3>6. CASE Handlers
      BY <2>3, <3>6 DEF Handlers, StartRead, StartWrite, CanRead
    <3>7. CASE Background
      BY <1>1, <1>3, <2>2, <2>3, <3>2, <3>4, <3>7 DEF Background, EndSession, Finish, Ask, ReceiveLast,
         BeginRead, Abort, StoreRead, BeginWrite, Save, BeginCheck, Check, BeginTranscoders,
         Switch, WaitForInput, Set, Confirm, Restore, Live
    <3> QED
      BY <3>5, <3>6, <3>7 DEF Next
  <2> QED
    BY <1>2, <1>3, <2>2, <2>3 DEF ReadKnown
<1>4. ASSUME read'.eeprom = r.eeprom, read'.connection = r.connection, StoreRead \/ StoreWrite
      PROVE  Agrees(read'.eeprom, eeprom'[dev'])
  <2>1. r.connection \in Nat /\ r.connection <= connections
    BY DEF Records, IsRead
  <2>2. Live(r) /\ dev' = dev
    BY <1>4, <2>1, LiveBefore
  <2>3. CASE StoreRead
    BY <1>2, <1>4, <2>2, <2>3 DEF StoreRead, ReadRight, Quiet, Heeded
  <2>4. CASE StoreWrite
    <3>1. pc = "store" /\ task = "Writing"
      BY <2>4 DEF StoreWrite, Steps
    <3> QED
      BY <1>2, <1>4, <2>2, <3>1 DEF SaveKnown
  <2> QED
    BY <1>4, <2>3, <2>4
<1>5. CASE StoreRead
  BY <1>4, <1>5 DEF StoreRead, Records, IsRead
<1>6. CASE StoreWrite
  BY <1>4, <1>6 DEF StoreWrite
<1> QED
  BY <1>1, <1>3, <1>5, <1>6, ReadsChange DEF vars

\* An EEPROM with the whole plan on it holds what was wanted: what was not planned was there.
LEMMA WholePlanIsHeld ==
  ASSUME Job, task = "Writing", pc \in Saving, NEW e, PartlySaved(e, Plan)
  PROVE  Holds(e, want, read.inputs)
<1>1. /\ read.inputs \in Nat /\ Plan \subseteq Puts(read.eeprom, want, read.inputs)
      /\ \A p, q \in Puts(read.eeprom, want, read.inputs) : p[1] = q[1] => p[2] = q[2]
  BY PlanBytes, PlanHasNoClash DEF OneByteEach
<1>2. ASSUME NEW p \in Puts(read.eeprom, want, read.inputs)
      PROVE  p[1] \in DOMAIN e /\ e[p[1]] = p[2]
  <2>1. CASE \E q \in Plan : q[1] = p[1]
    BY <1>1, <2>1 DEF PartlySaved
  <2>2. CASE \A q \in Plan : q[1] # p[1]
    <3>1. p \notin Plan
      BY <2>2
    <3>2. p[1] \in DOMAIN read.eeprom /\ read.eeprom[p[1]] = p[2]
      BY <3>1 DEF Plan, plan_writes
    <3> QED
      BY <2>2, <3>2 DEF PartlySaved
  <2> QED
    BY <2>1, <2>2
<1> QED
  BY <1>1, <1>2, PutsAreHeld

\* One more byte of the plan on the EEPROM
LEMMA OneMoreSaved ==
  ASSUME Job, task = "Writing", pc \in Saving, left # {},
         NEW e, PartlySaved(e, Plan \ left)
  PROVE  PartlySaved(Written(e, {NextPut}), Plan \ (left \ {NextPut}))
<1> DEFINE f == Written(e, {NextPut})
<1>1. NextPut \in left /\ NextPut \in Plan /\ \A p, q \in Plan : p[1] = q[1] => p[2] = q[2]
  BY NextPutOk, PlanBytes
<1>2. /\ \A a : a \in DOMAIN f <=> a \in DOMAIN e \/ a = NextPut[1]
      /\ f[NextPut[1]] = NextPut[2]
      /\ \A a \in DOMAIN e : a # NextPut[1] => f[a] = e[a]
  BY OneWritten
<1> HIDE DEF f
<1>3. ASSUME NEW p \in Plan \ (left \ {NextPut}) PROVE p[1] \in DOMAIN f /\ f[p[1]] = p[2]
  <2>1. CASE p[1] = NextPut[1]
    BY <1>1, <1>2, <2>1
  <2>2. CASE p[1] # NextPut[1]
    <3>1. p \in Plan \ left
      BY <2>2
    <3> QED
      BY <1>2, <2>2, <3>1 DEF PartlySaved
  <2> QED
    BY <2>1, <2>2
<1>4. ASSUME NEW a \in DOMAIN read.eeprom
      PROVE  a \in DOMAIN f
             /\ ((\A p \in Plan \ (left \ {NextPut}) : p[1] # a) => f[a] = read.eeprom[a])
  <2>1. a \in DOMAIN e /\ ((\A p \in Plan \ left : p[1] # a) => e[a] = read.eeprom[a])
    BY DEF PartlySaved
  <2>2. NextPut \in Plan \ (left \ {NextPut})
    BY <1>1
  <2> QED
    BY <1>2, <2>1, <2>2
<1>5. PartlySaved(f, Plan \ (left \ {NextPut}))
  BY <1>3, <1>4 DEF PartlySaved
<1> QED
  BY <1>5 DEF f

LEMMA SaveKnownStep ==
  ASSUME Heeded, Bus, Bus', BusTypes, Steps, TaskTypes, Lines, Devices, Records, Job, Answering,
         ReadKnown, SaveKnown, [Next]_vars
  PROVE  SaveKnown'
<1> SUFFICES ASSUME task' = "Writing", alive', r'.connection = connections' PROVE SaveKnown'
  BY DEF SaveKnown, Live
<1>1. ~BridgeRestart /\ ~Finish /\ ~BeginRead
  BY DEF BridgeRestart, Finish, ToIdle, BeginRead
<1>2. r' # NoRead
  BY NoReadIsRead DEF Bus
<1>3. ASSUME r'.connection = r.connection, r # NoRead
      PROVE  /\ Live(r) /\ task = "Writing" /\ UNCHANGED <<task, want, dev, port>> /\ port = dev
             /\ dev \in SVS
  <2>1. r.connection \in Nat /\ r.connection <= connections
    BY DEF Records, IsRead
  <2>2. Live(r) /\ UNCHANGED <<dev, port>> /\ port = dev /\ dev \in SVS
    BY <1>3, <2>1, LiveBefore
  <2>3. task # "Idle"
    BY <1>3 DEF Steps
  <2>4. UNCHANGED <<task, want>>
    BY <1>1, <2>3, TaskChanges
  <2> QED
    BY <2>2, <2>4
<1>4. ASSUME UNCHANGED <<r, read, want, left, pc, outcome, eeprom>> PROVE SaveKnown'
  <2>1. Live(r) /\ task = "Writing" /\ UNCHANGED <<task, want, dev>>
    BY <1>2, <1>3, <1>4
  <2>2. Plan' = Plan
    BY <1>4 DEF Plan
  <2> QED
    BY <1>4, <2>1, <2>2 DEF SaveKnown, PartlySaved, Agrees, Holds, HasFlags, HasCodes
<1>5. CASE BeginWrite
  <2>1. /\ pc = "begin" /\ task = "Writing" /\ r' = read /\ UNCHANGED <<read, want, eeprom, dev>>
        /\ \/ left' = Plan /\ pc' = "save"
           \/ pc' = "end" /\ outcome' = FALSE
    BY <1>5, Zenon DEF BeginWrite, Ending, svsVars, busVars
  <2>2. Plan' = Plan
    BY <2>1 DEF Plan
  <2>3. Live(read)
    BY <2>1, LiveBefore DEF Records, IsRead
  <2>4. Agrees(read.eeprom, eeprom[dev])
    BY <2>1, <2>3 DEF ReadKnown
  <2>5. PartlySaved(eeprom[dev], {})
    BY <2>4 DEF PartlySaved, Agrees
  <2>6. CASE pc' = "end" /\ outcome' = FALSE
    BY <2>6 DEF SaveKnown, Switching
  <2>7. CASE left' = Plan /\ pc' = "save"
    <3>1. Plan' \ left' = {}
      BY <2>2, <2>7
    <3>2. PartlySaved(eeprom[dev], {})'
      BY <2>1, <2>5 DEF PartlySaved
    <3>3. PartlySaved(eeprom[dev], Plan \ left)'
      BY <3>1, <3>2
    <3> QED
      BY <2>1, <2>7, <3>3 DEF SaveKnown, Switching
  <2> QED
    BY <2>1, <2>6, <2>7
<1>6. CASE Receive
  <2>1. r'.connection = r.connection
    <3>1. r' = r \/ r' = [r EXCEPT !.eeprom = With(@, Question[2], Head(answers))]
      BY <1>6, Zenon DEF Receive, AnswerTo
    <3>2. answers # <<>> /\ Head(answers) \in Byte
      BY <1>6 DEF Receive, Lines
    <3>3. [r EXCEPT !.eeprom = With(@, Question[2], Head(answers))].connection = r.connection
      BY <3>2, WithEeprom DEF Records
    <3> QED
      BY <3>1, <3>3
  <2>2. r # NoRead
    BY <1>6, NoReadIsRead, <2>1 DEF Bus
  <2>3. /\ Live(r) /\ task = "Writing" /\ UNCHANGED <<task, want, dev>>
    BY <1>3, <2>1, <2>2
  <2>4. /\ pc = "await" /\ pc' = "check" /\ left' = left \ {NextPut}
        /\ r' = [r EXCEPT !.eeprom = With(@, NextPut[1], NextPut[2])]
        /\ UNCHANGED <<task, read, want, eeprom, dev>>
    BY <1>6, <2>3, ChecksSucceed
  <2>5. NextPut[1] \in DOMAIN eeprom[dev] /\ eeprom[dev][NextPut[1]] = NextPut[2]
    BY <2>3, <2>4, SavedByteIsRead
  <2>6. r'.eeprom = With(r.eeprom, NextPut[1], NextPut[2])
    BY <2>4 DEF Records, IsRead
  <2>7. Plan' = Plan
    BY <2>4 DEF Plan
  <2>8. /\ PartlySaved(eeprom[dev], Plan)
        /\ \A a \in DOMAIN r.eeprom :
             a \in DOMAIN eeprom[dev] /\ ((\A p \in left : p[1] # a) => r.eeprom[a] = eeprom[dev][a])
    BY <2>3, <2>4 DEF SaveKnown
  <2>9. ASSUME NEW a \in DOMAIN r'.eeprom
        PROVE  a \in DOMAIN eeprom[dev] /\ ((\A p \in left' : p[1] # a) => r'.eeprom[a] = eeprom[dev][a])
    BY <2>4, <2>5, <2>6, <2>8 DEF With
  <2>10. PartlySaved(eeprom[dev], Plan)'
    BY <2>4, <2>7, <2>8 DEF PartlySaved
  <2> QED
    BY <2>4, <2>9, <2>10 DEF SaveKnown, Switching
<1>7. CASE Confirm
  <2>1. /\ pc = "confirm" /\ pc' = "switch" /\ UNCHANGED <<want, eeprom, dev>>
        /\ r' = [r EXCEPT !.tx = With(@, NextChange, want[NextChange[1]][Field(NextChange[2])])]
    BY <1>7 DEF Confirm, svsVars, busVars
  <2>2. r'.connection = r.connection /\ r'.eeprom = r.eeprom /\ r'.inputs = r.inputs
    BY <2>1 DEF Records, IsRead
  <2>3. r # NoRead
    BY <2>2, NoReadIsRead DEF Bus
  <2>4. Live(r) /\ task = "Writing"
    BY <1>3, <2>2, <2>3
  <2>5. Agrees(r.eeprom, eeprom[dev]) /\ Holds(eeprom[dev], want, r.inputs)
    BY <2>1, <2>4 DEF SaveKnown, Switching
  <2>6. Agrees(r.eeprom, eeprom[dev])' /\ Holds(eeprom[dev], want, r.inputs)'
    BY <2>1, <2>2, <2>5 DEF Agrees, Holds, HasFlags, HasCodes
  <2> QED
    BY <2>1, <2>6 DEF SaveKnown
<1>8. CASE Background /\ ~Receive /\ ~Confirm /\ ~BeginWrite
  <2>0. ASSUME NEW p, NEW v \in BOOLEAN, ReceiveLast, r' = [r EXCEPT !.tx = With(@, p, v)] PROVE FALSE
    <3>1. r'.connection = r.connection
      BY <2>0, WithTx DEF Records
    <3>2. task = "Writing"
      BY <1>3, <3>1, NoReadIsRead DEF Bus
    <3> QED
      BY <2>0, <3>2 DEF ReceiveLast, Question
  <2>1. r' = r
    BY <1>1, <1>8, <2>0, ReadsChange DEF Next
  <2>2. /\ Live(r) /\ task = "Writing" /\ UNCHANGED <<task, want, dev, port>> /\ port = dev
        /\ dev \in SVS
    BY <1>2, <1>3, <2>1
  <2>3. ~TimeOut /\ ~Unanswered
    BY <2>2, ChecksSucceed
  <2>4. ~StoreRead
    BY <2>2 DEF StoreRead
  <2>5. CASE Save
    <3>1. /\ pc = "save" /\ pc' = "save" /\ left # {} /\ left' = left \ {NextPut}
          /\ eeprom' = [eeprom EXCEPT ![port] = Written(@, {NextPut})]
          /\ UNCHANGED <<read, want>>
      BY <2>2, <2>5 DEF Save, Heeded, Live
    <3>2. PartlySaved(eeprom[dev], Plan \ left) /\ r.eeprom = read.eeprom
      BY <2>2, <3>1 DEF SaveKnown
    <3>3. PartlySaved(Written(eeprom[dev], {NextPut}), Plan \ (left \ {NextPut}))
      BY <2>2, <3>1, <3>2, OneMoreSaved DEF Saving
    <3>4. eeprom'[dev'] = Written(eeprom[dev], {NextPut})
      BY <2>2, <3>1 DEF Devices
    <3>5. Plan' = Plan
      BY <3>1 DEF Plan
    <3>6. PartlySaved(eeprom[dev], Plan \ left)'
      BY <3>1, <3>3, <3>4, <3>5 DEF PartlySaved
    <3> QED
      BY <2>1, <3>1, <3>2, <3>6 DEF SaveKnown, Switching
  <2>6. CASE BeginCheck
    <3>1. pc = "save" /\ pc' = "check" /\ left = {} /\ left' = Plan /\ UNCHANGED <<read, want, eeprom>>
      BY <2>6 DEF BeginCheck, svsVars
    <3>2. PartlySaved(eeprom[dev], Plan) /\ r.eeprom = read.eeprom
      BY <2>2, <3>1 DEF SaveKnown
    <3>3. Plan' = Plan
      BY <3>1 DEF Plan
    <3>4. PartlySaved(eeprom[dev], Plan)'
      BY <2>2, <3>1, <3>2, <3>3 DEF PartlySaved
    <3>5. \A a \in DOMAIN r'.eeprom :
            a \in DOMAIN eeprom'[dev']
            /\ ((\A p \in left' : p[1] # a) => r'.eeprom[a] = eeprom'[dev'][a])
      BY <2>1, <2>2, <3>1, <3>2 DEF PartlySaved
    <3> QED
      BY <3>1, <3>4, <3>5 DEF SaveKnown, Switching
  <2>7. CASE Check \/ Ask
    <3>1. /\ pc \in {"check", "ask"} /\ pc' \in {"ask", "await"} /\ UNCHANGED <<read, want, eeprom, left>>
      BY <2>2, <2>7 DEF Check, Ask, svsVars, jobVars, Live
    <3>2. Plan' = Plan
      BY <3>1 DEF Plan
    <3> QED
      BY <2>1, <2>2, <3>1, <3>2 DEF SaveKnown, Switching, PartlySaved
  <2>8. CASE BeginTranscoders
    <3>1. pc = "check" /\ left = {} /\ pc' \in {"store", "switch"} /\ UNCHANGED <<want, eeprom>>
      BY <2>8 DEF BeginTranscoders, svsVars
    <3>2. PartlySaved(eeprom[dev], Plan) /\ Agrees(r.eeprom, eeprom[dev])
      BY <2>2, <3>1 DEF SaveKnown, Agrees
    <3>3. r.inputs = read.inputs
      BY <2>2, <3>1 DEF Job
    <3>4. Holds(eeprom[dev], want, r.inputs)
      BY <2>2, <3>1, <3>2, <3>3, WholePlanIsHeld DEF Saving
    <3>5. Agrees(r.eeprom, eeprom[dev])' /\ Holds(eeprom[dev], want, r.inputs)'
      BY <2>1, <2>2, <3>1, <3>2, <3>4 DEF Agrees, Holds, HasFlags, HasCodes
    <3> QED
      BY <3>1, <3>5 DEF SaveKnown
  <2>9. CASE Switch \/ WaitForInput \/ Set \/ Restore \/ StoreWrite
    <3>1. /\ pc \in Switching \cup {"restore", "store"} /\ pc' \in Switching \cup {"restore", "store", "end"}
          /\ UNCHANGED <<want, eeprom>>
      BY <2>9 DEF Switch, WaitForInput, Set, Restore, StoreWrite, Switching, svsVars
    <3>2. Agrees(r.eeprom, eeprom[dev]) /\ Holds(eeprom[dev], want, r.inputs)
      BY <2>2, <3>1 DEF SaveKnown
    <3>3. Agrees(r.eeprom, eeprom[dev])' /\ Holds(eeprom[dev], want, r.inputs)'
      BY <2>1, <2>2, <3>1, <3>2 DEF Agrees, Holds, HasFlags, HasCodes
    <3> QED
      BY <3>1, <3>3 DEF SaveKnown, Switching
  <2>10. CASE EndSession
    <3>1. pc' = "ended"
      BY <2>10 DEF EndSession
    <3> QED
      BY <3>1 DEF SaveKnown, Switching
  <2>11. ~Abort /\ ~ReceiveLast
    BY <1>1, <2>2 DEF Abort, ReceiveLast, Question
  <2> QED
    BY <1>1, <1>8, <2>3, <2>4, <2>5, <2>6, <2>7, <2>8, <2>9, <2>10, <2>11 DEF Background
<1>9. CASE Environment \/ Deliver \/ UNCHANGED vars
  <2>1. UNCHANGED <<r, read, want, left, pc, outcome, eeprom>>
    BY <1>1, <1>9 DEF Environment, Plug, Unplug, Open, Close, Report, Select, Console, PowerLoss, Deliver,
       jobVars, svsVars, vars
  <2> QED
    BY <1>4, <2>1
<1>10. CASE Handlers
  <2>1. r' = r /\ r = NoRead
    BY <1>10 DEF Handlers, StartRead, StartWrite, Start, CanRead, Steps, jobVars
  <2> QED
    BY <1>2, <2>1
<1> QED
  BY <1>5, <1>6, <1>7, <1>8, <1>9, <1>10 DEF Next

-----------------------------------------------------------------------------
(* The transcoders *)

\* Only a save sets one, of the input on screen.
LEMMA ConvertsChanges ==
  ASSUME [Next]_vars
  PROVE  \/ converts' = converts
         \/ /\ Set /\ pc = "set" /\ pc' = "confirm" /\ alive
            /\ UNCHANGED <<task, port, dev, r, left, want, screen, outcome>>
            /\ <<screen[port], NextChange[2]>> \in DOMAIN converts[port]
            /\ converts' = [converts EXCEPT ![port] =
                              [@ EXCEPT ![<<screen[port], NextChange[2]>>] =
                                           want[NextChange[1]][Field(NextChange[2])]]]
<1>1. CASE Set
  BY <1>1 DEF Set, Heard, busVars
<1>2. CASE ~Set
  BY <1>2 DEF Next, Environment, Plug, Unplug, Open, Close, Report, Select, Console, PowerLoss,
     Deliver, Handlers, StartRead, StartWrite, Start, Background, EndSession, Finish, Ask,
     TimeOut, Unanswered, Receive, ReceiveLast, BeginRead, Abort, StoreRead, BeginWrite, Save,
     BeginCheck, Check, BeginTranscoders, Switch, WaitForInput, Confirm, Restore, StoreWrite,
     BridgeRestart, svsVars, vars
<1> QED
  BY <1>1, <1>2

\* A task whose connection is there after a step was there before it.
LEMMA LiveTask ==
  ASSUME Bus, Bus', BusTypes, Steps, Records, [Next]_vars,
         alive', r'.connection = connections', r'.connection = r.connection
  PROVE  /\ Live(r) /\ UNCHANGED <<task, want, dev, port>> /\ port = dev /\ dev \in SVS
         /\ pc \notin {"idle", "begin"} /\ ~BridgeRestart /\ ~Finish
<1>1. r.connection \in Nat /\ r.connection <= connections
  BY DEF Records, IsRead
<1>2. Live(r) /\ UNCHANGED <<dev, port>> /\ port = dev /\ dev \in SVS
  BY <1>1, LiveBefore
<1>3. r # NoRead /\ r' # NoRead
  BY NoReadIsRead DEF Bus
<1>4. task # "Idle" /\ pc \notin {"idle", "begin"}
  BY <1>3 DEF Steps
<1>5. ~BridgeRestart /\ ~Finish
  BY <1>3 DEF BridgeRestart, Finish, ToIdle
<1>6. UNCHANGED <<task, want>>
  BY <1>4, <1>5, TaskChanges
<1> QED
  BY <1>2, <1>4, <1>5, <1>6

\* A step of neither the task nor the handlers changes nothing of a task's.
LEMMA TaskAtRest ==
  ASSUME Environment \/ Deliver \/ UNCHANGED vars, ~BridgeRestart
  PROVE  UNCHANGED <<task, pc, r, read, want, left, outcome, converts>>
         /\ (screen' = screen \/ "remote" \in faults)
BY DEF Environment, Plug, Unplug, Open, Close, Report, Select, Console, PowerLoss, Deliver,
   jobVars, svsVars, vars

LEMMA TxReadStep ==
  ASSUME Heeded, Bus, BusTypes, Steps, Lines, Records, Job, TxRead, TxTask, [Next]_vars
  PROVE  TxRead'
<1> SUFFICES ASSUME alive', read'.connection = connections',
                    task' = "Writing" => pc' \notin Switching \cup {"restore", "store"}
             PROVE  Agrees(read'.tx, converts'[dev'])
  BY DEF TxRead, Live, Agrees
<1>1. ~BridgeRestart
  BY DEF BridgeRestart
<1>2. converts' = converts
  BY ConvertsChanges DEF Steps, Switching
<1>3. CASE read' = read /\ ~StoreWrite
  <2>1. read.connection \in Nat /\ read.connection <= connections
    BY DEF Records, IsRead
  <2>2. Live(read) /\ dev' = dev
    BY <1>3, <2>1, LiveBefore
  <2>3. ASSUME task = "Writing", pc \in Switching \cup {"restore", "store"} PROVE FALSE
    <3>1. task' = task
      BY <1>1, <2>3, TaskChanges DEF Steps, Finish, Switching
    <3>2. CASE Environment \/ Deliver \/ UNCHANGED vars
      BY <1>1, <2>3, <3>1, <3>2, TaskAtRest
    <3>3. CASE Handlers
      BY <2>3, <3>3 DEF Handlers, StartRead, StartWrite, CanRead
    <3>4. CASE Background
      <4>1. ~Unanswered /\ ~Receive
        BY <2>3 DEF Unanswered, Receive, Switching
      <4> QED
      BY <1>1, <1>3, <2>3, <3>1, <3>4, <4>1 DEF Background, EndSession, Finish, Ask, TimeOut, ReceiveLast,
         BeginRead, Abort, StoreRead, BeginWrite, Save, BeginCheck, Check, BeginTranscoders,
         Switch, WaitForInput, Set, Confirm, Restore, Switching
    <3> QED
      BY <3>2, <3>3, <3>4 DEF Next
  <2> QED
    BY <1>2, <1>3, <2>2, <2>3 DEF TxRead
<1>4. ASSUME read'.tx = r.tx, read'.connection = r.connection, StoreRead \/ StoreWrite
      PROVE  Agrees(read'.tx, converts'[dev'])
  <2>1. r.connection \in Nat /\ r.connection <= connections
    BY DEF Records, IsRead
  <2>2. Live(r) /\ dev' = dev
    BY <1>4, <2>1, LiveBefore
  <2> QED
    BY <1>2, <1>4, <2>2 DEF StoreRead, StoreWrite, TxTask
<1>5. CASE StoreRead
  BY <1>4, <1>5 DEF StoreRead, Records, IsRead
<1>6. CASE StoreWrite
  BY <1>4, <1>6 DEF StoreWrite
<1> QED
  BY <1>1, <1>3, <1>5, <1>6, ReadsChange DEF vars

\* What a read is told of a transcoder is true: the last line of the answer is the byte 0
\* if it is on.
LEMMA TranscoderIsRight ==
  ASSUME Heeded, Bus, Lines, Devices, Answering, Live(r), ReceiveLast
  PROVE  /\ <<Question[2], Question[1]>> \in DOMAIN converts[dev]
         /\ (answers[Len(answers)] = {}) = converts[dev][<<Question[2], Question[1]>>]
<1> DEFINE n == Question[2]
           x == Question[1]
<1>1. pc = "await" /\ answers # <<>> /\ wire = <<>> /\ x # "R"
  BY DEF ReceiveLast, Heeded
<1>2. answers \in Seq(Byte) /\ answers \o <<>> = answers
  BY DEF Lines
<1>3. answers = Expected
  BY <1>1, <1>2 DEF Answering, Heeded, Quiet
<1>4. x \in Transcoders
  <2>1. task = "Reading"
    BY <1>1 DEF Question
  <2> QED
    BY <1>1, <2>1 DEF Question, ReadQuestion, Transcoders
<1>5. dev = port /\ dev \in SVS
  BY DEF Bus, Live
<1>6. Expected = TranscoderLines(n, x)
  BY <1>1 DEF Expected
<1> HIDE DEF n, x
<1>7. n \in 1..InputsOf[dev]
      /\ answers = <<Number(n), IF converts[dev][<<n, x>>] THEN {} ELSE {0}>>
  BY <1>1, <1>3, <1>5, <1>6 DEF TranscoderLines
<1>8. <<n, x>> \in (1..InputsOf[dev]) \X Transcoders
  BY <1>4, <1>7
<1>9. DOMAIN converts[dev] = (1..InputsOf[dev]) \X Transcoders /\ converts[dev][<<n, x>>] \in BOOLEAN
  BY <1>5, <1>8 DEF Devices
<1> DEFINE on == converts[dev][<<n, x>>]
<1>10. on \in BOOLEAN /\ answers = <<Number(n), IF on THEN {} ELSE {0}>>
  BY <1>7, <1>9
<1> HIDE DEF on
<1>11. Len(answers) = 2 /\ answers[2] = IF on THEN {} ELSE {0}
  BY <1>10
<1>12. (answers[Len(answers)] = {}) = on
  <2>1. {0} # {}
    OBVIOUS
  <2> QED
    BY <1>10, <1>11, <2>1
<1> QED
  BY <1>8, <1>9, <1>12 DEF n, x, on

LEMMA TxTaskStep ==
  ASSUME Heeded, Bus, Bus', BusTypes, Steps, Lines, Devices, Records, Job, Answering,
         TxRead, TxTask, JustSet, [Next]_vars
  PROVE  TxTask'
<1> SUFFICES ASSUME alive', r'.connection = connections', pc' # "confirm",
                    task' = "Writing" => pc' \notin {"end", "ended"}
             PROVE  Agrees(r'.tx, converts'[dev'])
  BY DEF TxTask, Live, Agrees
<1>1. converts' = converts
  BY ConvertsChanges
<1>2. ASSUME r'.connection = r.connection, r'.tx = r.tx, ~Confirm
      PROVE  Agrees(r'.tx, converts'[dev'])
  <2>1. Live(r) /\ UNCHANGED <<task, dev>> /\ ~Finish /\ ~BridgeRestart /\ pc \notin {"idle", "begin"}
    BY <1>2, LiveTask
  <2>2. pc # "confirm"
    <3>1. ASSUME pc = "confirm" PROVE pc' = pc
      <4>1. CASE Environment \/ Deliver \/ UNCHANGED vars
        BY <2>1, <4>1, TaskAtRest
      <4>2. CASE Handlers
        BY <3>1, <4>2 DEF Handlers, StartRead, StartWrite, CanRead, Steps
      <4>3. CASE Background
        BY <1>2, <2>1, <3>1, <4>3 DEF Background, EndSession, Finish, Ask, TimeOut, Unanswered,
           Receive, ReceiveLast, BeginRead, Abort, StoreRead, BeginWrite, Save, BeginCheck, Check,
           BeginTranscoders, Switch, WaitForInput, Set, Restore, StoreWrite
      <4> QED
        BY <4>1, <4>2, <4>3 DEF Next
    <3> QED
      BY <3>1
  <2>3. ASSUME task = "Writing", pc \in {"end", "ended"} PROVE FALSE
    <3>1. pc' \in {"end", "ended"}
      <4>1. CASE Environment \/ Deliver \/ UNCHANGED vars
        BY <2>1, <2>3, <4>1, TaskAtRest
      <4>2. CASE Handlers
        BY <2>3, <4>2 DEF Handlers, StartRead, StartWrite, CanRead, Steps
      <4>3. CASE Background
        BY <1>2, <2>1, <2>3, <4>3 DEF Background, EndSession, Finish, Ask, TimeOut, Unanswered,
           Receive, ReceiveLast, BeginRead, Abort, StoreRead, BeginWrite, Save, BeginCheck, Check,
           BeginTranscoders, Switch, WaitForInput, Set, Restore, StoreWrite
      <4> QED
        BY <4>1, <4>2, <4>3 DEF Next
    <3> QED
      BY <2>1, <2>3, <3>1
  <2> QED
    BY <1>1, <1>2, <2>1, <2>2, <2>3 DEF TxTask
<1>3. CASE BeginRead
  <2>1. r'.tx = Nothing
    BY <1>3 DEF BeginRead, NoRead
  <2> QED
    BY <2>1 DEF Agrees, Nothing
<1>4. CASE BeginWrite
  <2>1. r' = read /\ pc = "begin" /\ UNCHANGED <<read, dev>>
    BY <1>4 DEF BeginWrite, busVars
  <2>2. Live(read)
    BY <2>1, LiveBefore DEF Records, IsRead
  <2> QED
    BY <1>1, <2>1, <2>2 DEF TxRead, Switching
<1>5. CASE ReceiveLast
  <2>1. /\ r' = [r EXCEPT !.tx = With(@, <<Question[2], Question[1]>>, answers[Len(answers)] = {})]
        /\ pc = "await" /\ UNCHANGED <<task, dev>>
    BY <1>5 DEF ReceiveLast, busVars
  <2>2. /\ r'.connection = r.connection
        /\ r'.tx = With(r.tx, <<Question[2], Question[1]>>, answers[Len(answers)] = {})
    BY <2>1 DEF Records, IsRead
  <2>3. Live(r)
    BY <2>2, LiveTask
  <2>4. Agrees(r.tx, converts[dev])
    BY <2>1, <2>3 DEF TxTask
  <2> DEFINE p == <<Question[2], Question[1]>>
  <2>5. p \in DOMAIN converts[dev] /\ (answers[Len(answers)] = {}) = converts[dev][p]
    BY <1>5, <2>3, TranscoderIsRight
  <2>6. r'.tx = With(r.tx, p, converts[dev][p])
    BY <2>2, <2>5
  <2> HIDE DEF p
  <2>7. Agrees(r'.tx, converts[dev])
    BY <2>4, <2>5, <2>6, WithAgrees
  <2> QED
    BY <1>1, <2>1, <2>7
<1>6. CASE Confirm
  <2>1. /\ r' = [r EXCEPT !.tx = With(@, NextChange, AsWanted(NextChange))]
        /\ pc = "confirm" /\ UNCHANGED <<task, dev>>
    BY <1>6 DEF Confirm, AsWanted, busVars
  <2>2. r'.connection = r.connection /\ r'.tx = With(r.tx, NextChange, AsWanted(NextChange))
    BY <2>1 DEF Records, IsRead
  <2>3. Live(r)
    BY <2>2, LiveTask
  <2>4. Agrees(r'.tx, converts[dev])
    BY <2>1, <2>2, <2>3 DEF JustSet, With, Agrees
  <2> QED
    BY <1>1, <2>1, <2>4
<1>7. CASE r' = r /\ ~Confirm
  BY <1>2, <1>7
<1>8. CASE Finish /\ r' = NoRead
  <2>1. r'.connection = 0
    BY <1>8, NoReadIsRead
  <2> QED
    BY <2>1 DEF Bus
<1>9. ASSUME Receive, NEW a, NEW v \in Byte, r' = [r EXCEPT !.eeprom = With(@, a, v)]
      PROVE  Agrees(r'.tx, converts'[dev'])
  <2>1. r'.connection = r.connection /\ r'.tx = r.tx
    BY <1>9, WithEeprom DEF Records
  <2>2. ~Confirm
    BY <1>9 DEF Receive, Confirm
  <2> QED
    BY <1>2, <2>1, <2>2
<1>10. ~BridgeRestart
  BY DEF BridgeRestart
<1> QED
  BY <1>3, <1>4, <1>5, <1>6, <1>7, <1>8, <1>9, <1>10, ReadsChange DEF vars

\* How a task comes to the inputs and transcoders it sets
LEMMA SwitchSteps ==
  ASSUME Steps, [Next]_vars, ~BridgeRestart, pc' \in Switching \cup {"restore", "store"}
  PROVE  \/ UNCHANGED <<task, pc, r, read, want, left, outcome, converts>>
            /\ (screen' = screen \/ "remote" \in faults)
         \/ BeginTranscoders \/ Switch \/ WaitForInput \/ Set \/ Confirm \/ Restore
<1>1. CASE Environment \/ Deliver \/ UNCHANGED vars
  BY <1>1, TaskAtRest
<1>2. CASE Handlers
  BY <1>2 DEF Handlers, StartRead, StartWrite, Start, Switching
<1>3. CASE Background
  <2>1. ~Unanswered /\ ~Receive
    <3>1. ASSUME Unanswered PROVE pc' \in {"ask", "end"}
      BY <3>1, Zenon DEF Unanswered, Ending
    <3>2. ASSUME Receive PROVE pc' \in {"ask", "check", "end"}
      BY <3>2, Zenon DEF Receive, AnswerTo, Ending
    <3> QED
      BY <3>1, <3>2 DEF Switching
  <2>2. ~BeginWrite /\ ~Save
    <3>1. ASSUME BeginWrite \/ Save PROVE pc' \in {"save", "end"}
      BY <3>1, Zenon DEF BeginWrite, Save, Ending
    <3> QED
      BY <3>1 DEF Switching
  <2>3. ~EndSession /\ ~Finish /\ ~Ask /\ ~TimeOut /\ ~ReceiveLast /\ ~BeginRead /\ ~Abort
        /\ ~StoreRead /\ ~BeginCheck /\ ~Check /\ ~StoreWrite
    BY DEF EndSession, Finish, ToIdle, Ask, TimeOut, ReceiveLast, BeginRead, Abort, StoreRead,
       BeginCheck, Check, StoreWrite, Ending, Switching
  <2> QED
    BY <1>3, <2>1, <2>2, <2>3 DEF Background
<1> QED
  BY <1>1, <1>2, <1>3 DEF Next

LEMMA OnScreenStep ==
  ASSUME Heeded, "remote" \notin faults, Bus, Bus', BusTypes, Steps, Records, OnScreen, [Next]_vars
  PROVE  OnScreen'
<1> SUFFICES ASSUME alive', r'.connection = connections', pc' \in {"wait", "set"}
             PROVE  screen'[dev'] = NextChange'[1]
  BY DEF OnScreen, Live
<1>1. ~BridgeRestart
  BY DEF BridgeRestart
<1>2. \/ /\ UNCHANGED <<pc, r, left>> /\ screen' = screen
      \/ WaitForInput \/ Switch
  BY <1>1, SwitchSteps DEF Switching, BeginTranscoders, Set, Confirm, Restore
<1>3. r' = r /\ left' = left /\ NextChange' = NextChange
  BY <1>2 DEF WaitForInput, Switch, NextChange
<1>4. Live(r) /\ UNCHANGED <<dev, port>> /\ port = dev /\ dev \in SVS
  BY <1>3, LiveTask
<1>5. CASE Switch
  <2>1. screen' = [screen EXCEPT ![port] = NextChange[1]]
    BY <1>4, <1>5 DEF Switch, Heard, Heeded, Live
  <2> QED
    BY <1>3, <1>4, <2>1 DEF BusTypes
<1>6. CASE WaitForInput
  <2>1. pc = "wait" /\ screen' = screen
    BY <1>6 DEF WaitForInput, svsVars
  <2> QED
    BY <1>3, <1>4, <2>1 DEF OnScreen
<1> QED
  BY <1>2, <1>3, <1>4, <1>5, <1>6 DEF OnScreen

LEMMA JustSetStep ==
  ASSUME Heeded, "remote" \notin faults, Bus, Bus', BusTypes, Steps, Devices, Records, Job,
         LiveInputs, TxTask, OnScreen, JustSet, [Next]_vars
  PROVE  JustSet'
<1> SUFFICES ASSUME alive', r'.connection = connections', pc' = "confirm" PROVE JustSet'
  BY DEF JustSet, Live
<1>1. ~BridgeRestart
  BY DEF BridgeRestart
<1>2. \/ UNCHANGED <<task, pc, r, left, want, converts>>
      \/ Set
  BY <1>1, SwitchSteps DEF Switching, BeginTranscoders, WaitForInput, Switch, Confirm, Restore
<1>3. r' = r /\ left' = left /\ want' = want
  BY <1>2 DEF Set
<1>4. NextChange' = NextChange /\ AsWanted(NextChange)' = AsWanted(NextChange)
  BY <1>3 DEF NextChange, AsWanted
<1>5. Live(r) /\ UNCHANGED <<dev, port>> /\ port = dev /\ dev \in SVS
  BY <1>3, LiveTask
<1>6. CASE Set
  <2>1. pc = "set" /\ task = "Writing" /\ left # {}
    BY <1>6 DEF Set, Steps, Switching, Job
  <2>2. screen[port] = NextChange[1]
    BY <1>5, <2>1 DEF OnScreen
  <2>3. NextChange \in (1..r.inputs) \X Transcoders /\ NextChange = <<NextChange[1], NextChange[2]>>
    BY <2>1, NextChangeOk DEF Switching
  <2>4. r.inputs = InputsOf[dev]
    BY <1>5, <2>1 DEF LiveInputs
  <2>5. NextChange \in DOMAIN converts[port]
    BY <1>5, <2>3, <2>4 DEF Devices
  <2>6. converts' = [converts EXCEPT ![port] = [@ EXCEPT ![NextChange] = AsWanted(NextChange)]]
    <3>1. <<screen[port], NextChange[2]>> = NextChange
      BY <2>2, <2>3
    <3> QED
      BY <1>5, <1>6, <2>5, <3>1 DEF Set, Heard, Heeded, Live, AsWanted
  <2>7. converts'[dev] = [converts[dev] EXCEPT ![NextChange] = AsWanted(NextChange)]
    BY <1>5, <2>6 DEF Devices
  <2>8. Agrees(r.tx, converts[dev])
    BY <1>5, <2>1 DEF TxTask
  <2> HIDE DEF NextChange
  <2>9. /\ NextChange \in DOMAIN converts'[dev] /\ converts'[dev][NextChange] = AsWanted(NextChange)
        /\ \A p \in DOMAIN r.tx :
             p \in DOMAIN converts'[dev] /\ (p # NextChange => r.tx[p] = converts'[dev][p])
    BY <1>5, <2>5, <2>7, <2>8 DEF Agrees
  <2> QED
    BY <1>3, <1>4, <1>5, <2>9 DEF JustSet
<1>7. CASE UNCHANGED <<task, pc, r, left, want, converts>>
  BY <1>4, <1>5, <1>7 DEF JustSet
<1> QED
  BY <1>2, <1>6, <1>7

\* What the settings of a Read say of a transcoder
LEMMA SettingsOfTx ==
  ASSUME NEW rd, NEW p \in (1..rd.inputs) \X Transcoders, p \in DOMAIN rd.tx, rd.tx[p] \in BOOLEAN
  PROVE  Settings(rd)[p[1]][Field(p[2])] = rd.tx[p]
<1>1. p = <<p[1], p[2]>> /\ p[1] \in 1..rd.inputs /\ p[2] \in {"Y", "G"}
  BY DEF Transcoders
<1> DEFINE n == p[1]
           on(x) == <<n, x>> \in DOMAIN rd.tx /\ rd.tx[<<n, x>>]
           s == decode_input(rd.eeprom, n, rd.inputs)
<1>2. Settings(rd)[n] =
        [auto_profile |-> s.auto_profile, rgsb |-> s.rgsb, sync_bypass |-> s.sync_bypass,
         ir |-> s.ir, rgb_to_ypbpr |-> on("Y"), ypbpr_to_rgb |-> on("G")]
  BY <1>1 DEF Settings
<1> HIDE DEF s
<1>3. CASE p[2] = "Y"
  <2>1. Settings(rd)[n][Field(p[2])] = on("Y")
    BY <1>2, <1>3 DEF Field
  <2>2. on("Y") = rd.tx[p]
    BY <1>1, <1>3
  <2> QED
    BY <2>1, <2>2
<1>4. CASE p[2] = "G"
  <2>1. Settings(rd)[n][Field(p[2])] = on("G")
    BY <1>2, <1>4 DEF Field
  <2>2. on("G") = rd.tx[p]
    BY <1>1, <1>4
  <2> QED
    BY <2>1, <2>2
<1> QED
  BY <1>1, <1>3, <1>4

LEMMA LeftToSetStep ==
  ASSUME "remote" \notin faults, Bus, Bus', BusTypes, Steps, Devices, Records, Job, LiveInputs,
         TxTask, LeftToSet, [Next]_vars
  PROVE  LeftToSet'
<1> SUFFICES ASSUME alive', r'.connection = connections', pc' \in Switching \cup {"restore", "store"}
             PROVE  LeftToSet'
  BY DEF LeftToSet, Live
<1>1. ~BridgeRestart
  BY DEF BridgeRestart
<1>2. r'.connection = r.connection
  <2>1. r' = r \/ Confirm
    BY <1>1, SwitchSteps DEF BeginTranscoders, Switch, WaitForInput, Set, Restore, jobVars
  <2>2. Confirm => r'.connection = r.connection
    BY DEF Confirm, Records, IsRead
  <2> QED
    BY <2>1, <2>2
<1>3. Live(r) /\ UNCHANGED <<task, want, dev>> /\ dev \in SVS
  BY <1>2, LiveTask
<1>4. \A p : AsWanted(p)' = AsWanted(p)
  BY <1>3 DEF AsWanted
<1>5. CASE BeginTranscoders
  <2>1. /\ pc = "check" /\ task = "Writing" /\ r' = r /\ left' = Changes
        /\ pc' = IF Changes = {} THEN "store" ELSE "switch"
    BY <1>5 DEF BeginTranscoders, Steps
  <2>2. Agrees(r.tx, converts[dev]) /\ r.inputs = InputsOf[dev]
    BY <1>3, <2>1 DEF TxTask, LiveInputs
  <2>3. ASSUME NEW p \in DOMAIN r.tx PROVE p \in Changes \/ r.tx[p] = AsWanted(p)
    <3>1. p \in (1..r.inputs) \X Transcoders
      BY <1>3, <2>2 DEF Agrees, Devices
    <3>2. r.tx[p] \in BOOLEAN
      BY DEF Records, IsRead
    <3>3. Settings(r)[p[1]][Field(p[2])] = r.tx[p]
      BY <3>1, <3>2, SettingsOfTx
    <3> QED
      BY <3>1, <3>3 DEF Changes, AsWanted
  <2> QED
    BY <1>4, <2>1, <2>3 DEF LeftToSet, Switching
<1>6. CASE Confirm
  <2>1. /\ pc = "confirm" /\ pc' = "switch" /\ left' = left \ {NextChange}
        /\ r' = [r EXCEPT !.tx = With(@, NextChange, AsWanted(NextChange))]
    BY <1>6 DEF Confirm, AsWanted
  <2>2. r'.tx = With(r.tx, NextChange, AsWanted(NextChange))
    BY <2>1 DEF Records, IsRead
  <2>3. \A p \in DOMAIN r.tx : p \in left \/ r.tx[p] = AsWanted(p)
    BY <1>3, <2>1 DEF LeftToSet, Switching
  <2>4. ASSUME NEW p \in DOMAIN r'.tx PROVE p \in left' \/ r'.tx[p] = AsWanted(p)
    BY <2>1, <2>2, <2>3 DEF With
  <2> QED
    BY <1>4, <2>1, <2>4 DEF LeftToSet
<1>7. CASE Switch \/ WaitForInput \/ Set \/ Restore
  <2>1. /\ UNCHANGED <<r, left>>
        /\ \/ pc \in Switching /\ pc' \in Switching
           \/ pc = "switch" /\ pc' = "restore" /\ left = {}
           \/ pc' = "restore" /\ outcome' = FALSE
           \/ pc = "restore" /\ pc' = "store" /\ outcome' = outcome
    BY <1>7 DEF Switch, WaitForInput, Set, Restore, Switching, jobVars
  <2>2. task = "Writing"
    BY <1>7 DEF Switch, WaitForInput, Set, Restore, Steps, Switching
  <2>3. CASE pc \in Switching /\ pc' \in Switching
    BY <1>3, <1>4, <2>1, <2>3 DEF LeftToSet, Switching
  <2>4. CASE pc = "switch" /\ pc' = "restore" /\ left = {}
    BY <1>3, <1>4, <2>1, <2>4 DEF LeftToSet, Switching
  <2>5. CASE pc' = "restore" /\ outcome' = FALSE
    BY <2>5 DEF LeftToSet, Switching
  <2>6. CASE pc = "restore" /\ pc' = "store" /\ outcome' = outcome
    BY <1>3, <1>4, <2>1, <2>2, <2>6 DEF LeftToSet, Switching
  <2> QED
    BY <2>1, <2>3, <2>4, <2>5, <2>6
<1>8. CASE UNCHANGED <<task, pc, r, left, outcome>>
  BY <1>3, <1>4, <1>8 DEF LeftToSet
<1> QED
  BY <1>1, <1>5, <1>6, <1>7, <1>8, SwitchSteps

LEMMA AllSetStep ==
  ASSUME Bus, Bus', BusTypes, Steps, Records, TxTask, LeftToSet, AllSet, [Next]_vars
  PROVE  AllSet'
<1> SUFFICES ASSUME alive', r'.connection = connections', task' = "Writing", pc' = "end", outcome'
             PROVE  AllSet'
  BY DEF AllSet, Live
<1>1. ~BridgeRestart
  BY DEF BridgeRestart
<1>2. converts' = converts
  BY ConvertsChanges
<1>3. StoreWrite \/ UNCHANGED <<task, pc, r, want, outcome>>
  <2>1. CASE Environment \/ Deliver \/ UNCHANGED vars
    BY <1>1, <2>1, TaskAtRest
  <2>2. ~Handlers
    BY DEF Handlers, StartRead, StartWrite, Start
  <2>3. CASE Background
    <3>1. ASSUME Unanswered \/ Receive PROVE pc' # "end" \/ outcome' = FALSE
      BY <3>1, Zenon DEF Unanswered, Receive, AnswerTo, Ending
    <3>2. ASSUME BeginWrite PROVE pc' # "end" \/ outcome' = FALSE
      BY <3>2, Zenon DEF BeginWrite, Ending
    <3>3. ASSUME Save PROVE pc' # "end" \/ outcome' = FALSE
      BY <3>3 DEF Save, Ending
    <3>4. ~StoreRead
      BY DEF StoreRead
    <3>5. ~EndSession /\ ~Finish /\ ~Ask /\ ~TimeOut /\ ~ReceiveLast /\ ~BeginRead
      BY DEF EndSession, Finish, ToIdle, Ask, TimeOut, ReceiveLast, BeginRead
    <3>6. ~Abort /\ ~BeginCheck /\ ~Check /\ ~BeginTranscoders /\ ~Confirm /\ ~Restore
      BY <1>1 DEF Abort, BeginCheck, Check, BeginTranscoders, Confirm, Restore
    <3>7. ~Switch /\ ~WaitForInput /\ ~Set
      BY DEF Switch, WaitForInput, Set
    <3> QED
      BY <2>3, <3>1, <3>2, <3>3, <3>4, <3>5, <3>6, <3>7 DEF Background
  <2> QED
    BY <2>1, <2>2, <2>3 DEF Next
<1>4. r' = r
  BY <1>3 DEF StoreWrite, jobVars
<1>5. Live(r) /\ UNCHANGED <<task, want, dev>>
  BY <1>4, LiveTask
<1>6. \A p : AsWanted(p)' = AsWanted(p)
  BY <1>5 DEF AsWanted
<1>7. CASE StoreWrite
  <2>1. pc = "store" /\ outcome' = outcome
    BY <1>7 DEF StoreWrite, jobVars
  <2>2. Agrees(r.tx, converts[dev]) /\ \A p \in DOMAIN r.tx : r.tx[p] = AsWanted(p)
    BY <1>5, <2>1 DEF TxTask, LeftToSet
  <2> QED
    BY <1>2, <1>4, <1>5, <1>6, <2>2 DEF AllSet, Agrees
<1> QED
  BY <1>2, <1>3, <1>4, <1>5, <1>6, <1>7 DEF AllSet

-----------------------------------------------------------------------------
(* The bits of inputs the SVS does not report *)

\* A byte that is put has the bits of inputs past the last one as they were read.
LEMMA PutKeepsRest ==
  ASSUME NEW inputs \in 1..MAX_INPUTS, NEW known, NEW w, NEW e, CanPlan(known, w, inputs),
         SameRest(known, e, inputs), NEW p \in Puts(known, w, inputs),
         NEW m \in Maps, NEW i \in 0..(bitmap_bytes(inputs) - 1), NEW b \in Bits,
         8 * i + b + 1 > inputs
  PROVE  /\ m.base + i \in DOMAIN e
         /\ p[1] = m.base + i => (b \in p[2] <=> b \in e[m.base + i])
<1>1. m.base + i \in DOMAIN known
  BY DEF CanPlan
<1>2. m.base + i \in DOMAIN e /\ (b \in known[m.base + i] <=> b \in e[m.base + i])
  BY <1>1 DEF SameRest
<1>3. ASSUME p[1] = m.base + i PROVE b \in p[2] <=> b \in known[m.base + i]
  <2>1. inputs \in Nat
    BY InputsAssumption
  <2>2. m.base + i >= 2 * IR_REGION
    BY FlagsApart
  <2>3. p[1] \notin 0..(2 * IR_REGION - 1)
    BY <1>3, <2>2, RegionAssumption
  <2>4. p \in FlagPuts(known, w, inputs)
    BY <2>1, <2>3, PutAddress
  <2>5. \E o \in Maps : \E j \in 0..(bitmap_bytes(inputs) - 1) :
          p = <<o.base + j, FlagByte(known, w, inputs, o, j)>>
    BY <2>4 DEF FlagPuts
  <2>6. PICK o \in Maps : \E j \in 0..(bitmap_bytes(inputs) - 1) :
          p = <<o.base + j, FlagByte(known, w, inputs, o, j)>>
    BY <2>5
  <2>7. PICK j \in 0..(bitmap_bytes(inputs) - 1) :
          p = <<o.base + j, FlagByte(known, w, inputs, o, j)>>
    BY <2>6
  <2>8. m.base + i = o.base + j
    BY <1>3, <2>7
  <2>9. m = o /\ i = j
    BY <2>8, FlagsApart
  <2>10. p[2] = FlagByte(known, w, inputs, m, i)
    BY <2>7, <2>9
  <2>11. ~(8 * i + b + 1 <= inputs)
    BY InputsAssumption DEF bitmap_bytes, Bits
  <2> QED
    BY <2>10, <2>11 DEF FlagByte
<1> QED
  BY <1>2, <1>3

\* What a save does while nobody swaps SVSs
LEMMA SaveKeepsRest ==
  ASSUME faults \cap {"swap", "late", "console"} = {}, Bus, Steps, Job, LiveInputs, Steady,
         RestKnown, pc = "save", left # {}, alive,
         NEW m \in Maps, NEW i \in 0..(bitmap_bytes(InputsOf[port]) - 1), NEW b \in Bits,
         8 * i + b + 1 > InputsOf[port]
  PROVE  LET f == Written(eeprom[port], {NextPut})
             a == m.base + i
         IN  a \in DOMAIN eeprom[port] /\ a \in DOMAIN f /\ (b \in f[a] <=> b \in eeprom[port][a])
<1>1. task = "Writing" /\ pc \in Saving /\ port = dev
  BY DEF Steps, Bus, Saving
<1>2. read.inputs = InputsOf[port]
  BY <1>1 DEF Steady, LiveInputs
<1>3. /\ read.inputs \in 1..MAX_INPUTS /\ CanPlan(read.eeprom, want, read.inputs)
      /\ NextPut \in Puts(read.eeprom, want, read.inputs)
  BY <1>1, PlanBytes, NextPutOk
<1>4. SameRest(read.eeprom, eeprom[port], read.inputs)
  BY <1>2 DEF RestKnown
<1> DEFINE a == m.base + i
<1>5. a \in DOMAIN eeprom[port] /\ (NextPut[1] = a => (b \in NextPut[2] <=> b \in eeprom[port][a]))
  BY <1>2, <1>3, <1>4, PutKeepsRest
<1> HIDE DEF a
<1> DEFINE f == Written(eeprom[port], {NextPut})
<1>6. /\ \A x : x \in DOMAIN f <=> x \in DOMAIN eeprom[port] \/ x = NextPut[1]
      /\ f[NextPut[1]] = NextPut[2]
      /\ \A x \in DOMAIN eeprom[port] : x # NextPut[1] => f[x] = eeprom[port][x]
  BY OneWritten
<1> HIDE DEF f
<1>7. a \in DOMAIN f /\ (b \in f[a] <=> b \in eeprom[port][a])
  BY <1>5, <1>6
<1> QED
  BY <1>5, <1>7 DEF a, f

LEMMA SameRestWith ==
  ASSUME NEW f, NEW e, NEW inputs, SameRest(f, e, inputs), NEW x \in DOMAIN e
  PROVE  SameRest(With(f, x, e[x]), e, inputs)
BY DEF SameRest, With

\* An SVS stays in the port.
LEMMA PortStays ==
  ASSUME "swap" \notin faults, Bus, [Next]_vars
  PROVE  port' = port /\ port \in SVS
BY DEF Bus, Next, Environment, Plug, Unplug, Open, Close, Report, Select, Console, PowerLoss,
   Deliver, Handlers, StartRead, StartWrite, Start, Background, EndSession, Finish, Ask, TimeOut,
   Unanswered, Receive, ReceiveLast, BeginRead, Abort, StoreRead, BeginWrite, Save, BeginCheck,
   Check, BeginTranscoders, Switch, WaitForInput, Set, Confirm, Restore, StoreWrite,
   BridgeRestart, busVars, vars

LEMMA RestKnownStep ==
  ASSUME Bus, BusTypes, Steps, Lines, Devices, Records, Job, LiveInputs, Steady, Answering,
         RestKnown, [Next]_vars
  PROVE  RestKnown'
<1> SUFFICES ASSUME faults \cap {"swap", "late", "console"} = {}
             PROVE  /\ SameRest(read'.eeprom, eeprom'[port'], InputsOf[port'])
                    /\ SameRest(r'.eeprom, eeprom'[port'], InputsOf[port'])
  <2>1. faults' = faults
    BY FaultsStay
  <2> QED
    BY <2>1 DEF RestKnown, SameRest
<1> DEFINE e == eeprom[port]
           inputs == InputsOf[port]
<1>1. port' = port /\ port \in SVS /\ "swap" \notin faults
  BY PortStays
<1>2. SameRest(read.eeprom, e, inputs) /\ SameRest(r.eeprom, e, inputs)
  BY DEF RestKnown
<1>3. CASE eeprom' = eeprom
  <2>1. SameRest(Nothing, e, inputs)
    BY DEF SameRest, Nothing
  <2>2. ASSUME Receive PROVE SameRest(r'.eeprom, e, inputs) /\ read' = read
    <3>1. /\ pc = "await" /\ answers # <<>> /\ Question[1] = "R" /\ read' = read
          /\ r' = r \/ r' = [r EXCEPT !.eeprom = With(@, Question[2], Head(answers))]
      BY <2>2, Zenon DEF Receive, AnswerTo
    <3>2. Live(r) /\ Quiet
      BY <1>1, <3>1 DEF Steady, Quiet
    <3>3. Question[2] \in DOMAIN eeprom[dev] /\ Head(answers) = eeprom[dev][Question[2]]
      BY <3>1, <3>2, AnswerIsRight
    <3>4. dev = port
      BY <3>2 DEF Bus, Live
    <3>5. r' = r \/ r'.eeprom = With(r.eeprom, Question[2], e[Question[2]])
      BY <3>1, <3>3, <3>4 DEF Records, IsRead
    <3>6. SameRest(With(r.eeprom, Question[2], e[Question[2]]), e, inputs)
      BY <1>2, <3>3, <3>4, SameRestWith
    <3> QED
      BY <1>2, <3>1, <3>5, <3>6
  <2>3. ASSUME NEW p, NEW v \in BOOLEAN, r' = [r EXCEPT !.tx = With(@, p, v)]
        PROVE  r'.eeprom = r.eeprom
    BY <2>3, WithTx DEF Records
  <2>4. BridgeRestart => r'.eeprom = Nothing /\ read'.eeprom = Nothing
    BY DEF BridgeRestart, NoRead
  <2>5. BeginRead => r'.eeprom = Nothing
    BY DEF BeginRead, NoRead
  <2>6. NoRead.eeprom = Nothing
    BY DEF NoRead
  <2>7. [r EXCEPT !.valid = TRUE].eeprom = r.eeprom
    BY DEF Records, IsRead
  <2>8. UNCHANGED vars => UNCHANGED <<r, read>>
    BY DEF vars
  <2> HIDE DEF e, inputs
  <2>9. SameRest(read'.eeprom, e, inputs) /\ SameRest(r'.eeprom, e, inputs)
    <3>1. CASE UNCHANGED <<r, read>>
      BY <1>2, <3>1
    <3>2. CASE BridgeRestart
      BY <2>1, <2>4, <3>2
    <3>3. CASE r' = NoRead /\ read' = read
      BY <1>2, <2>1, <2>6, <3>3
    <3>4. CASE BeginRead /\ read' = read
      BY <1>2, <2>1, <2>5, <3>4
    <3>5. CASE r' = read /\ read' = read
      BY <1>2, <3>5
    <3>6. CASE Receive
      BY <1>2, <2>2, <3>6
    <3>7. ASSUME read' = read, NEW p, NEW v \in BOOLEAN, r' = [r EXCEPT !.tx = With(@, p, v)]
          PROVE  SameRest(read'.eeprom, e, inputs) /\ SameRest(r'.eeprom, e, inputs)
      BY <1>2, <2>3, <3>7
    <3>8. CASE r' = r /\ (read' = [r EXCEPT !.valid = TRUE] \/ read' = r)
      BY <1>2, <2>7, <3>8
    <3> QED
      BY <2>8, <3>1, <3>2, <3>3, <3>4, <3>5, <3>6, <3>7, <3>8, ReadsChange
  <2> QED
    BY <1>1, <1>3, <2>9 DEF e, inputs
<1>4. CASE eeprom' # eeprom
  <2>1. /\ pc = "save" /\ left # {} /\ alive /\ UNCHANGED <<r, read>>
        /\ eeprom' = [eeprom EXCEPT ![port] = Written(@, {NextPut})]
    BY <1>4, EepromChanges
  <2>2. eeprom'[port] = Written(e, {NextPut})
    BY <1>1, <2>1 DEF Devices
  <2>3. ASSUME NEW f, SameRest(f, e, inputs) PROVE SameRest(f, Written(e, {NextPut}), inputs)
    <3>1. SUFFICES ASSUME NEW m \in Maps, NEW i \in 0..(bitmap_bytes(inputs) - 1), NEW b \in Bits,
                          8 * i + b + 1 > inputs, m.base + i \in DOMAIN f
                   PROVE  /\ m.base + i \in DOMAIN Written(e, {NextPut})
                          /\ b \in f[m.base + i] <=> b \in Written(e, {NextPut})[m.base + i]
      BY DEF SameRest
    <3>2. b \in f[m.base + i] <=> b \in e[m.base + i]
      BY <2>3, <3>1 DEF SameRest
    <3>3. /\ m.base + i \in DOMAIN Written(e, {NextPut})
          /\ b \in Written(e, {NextPut})[m.base + i] <=> b \in e[m.base + i]
      BY <2>1, <3>1, SaveKeepsRest
    <3> QED
      BY <3>2, <3>3
  <2> HIDE DEF e, inputs
  <2>4. SameRest(read.eeprom, Written(e, {NextPut}), inputs) /\ SameRest(r.eeprom, Written(e, {NextPut}), inputs)
    BY <1>2, <2>3
  <2> QED
    BY <1>1, <2>1, <2>2, <2>4 DEF inputs
<1> QED
  BY <1>3, <1>4

-----------------------------------------------------------------------------
(* The theorems *)

LEMMA Initially == Init => IInv
<1> SUFFICES ASSUME Init PROVE IInv
  OBVIOUS
<1> USE DEF Init
<1>1. Bus /\ Steps
  <2>1. port # NoSvs
    BY SvsAssumption
  <2> QED
    BY <2>1, Sizes DEF Bus, Steps, InSession, Asking, Switching
<1>2. BusTypes /\ TaskTypes /\ Lines
  <2>1. screen \in [SVS -> Nat]
    OBVIOUS
  <2>2. /\ 0 \in 0..MaxConnections /\ 0 \in 0..(MaxRestarts + 1) /\ 0 \in 0..MaxTyped
        /\ 0 \in 0..(ATTEMPTS - 1) /\ 0 <= QueueSize
    BY Sizes
  <2> QED
    BY <2>1, <2>2, Lists DEF BusTypes, TaskTypes, Lines, Switching
<1>3. Devices
  <2>1. \A s \in SVS : IsEeprom(eeprom[s])
    BY SvsAssumption DEF IsEeprom
  <2>2. \A s \in SVS : converts[s] \in [(1..InputsOf[s]) \X Transcoders -> BOOLEAN]
    OBVIOUS
  <2>3. eeprom \in [SVS -> {eeprom[s] : s \in SVS}]
    OBVIOUS
  <2>4. converts \in [SVS -> {converts[s] : s \in SVS}]
    OBVIOUS
  <2> QED
    BY <2>1, <2>2, <2>3, <2>4 DEF Devices
<1>4. Records
  BY NoReadIsRead DEF Records
<1>5. ~Live(r) /\ ~Live(read) /\ pc = "idle" /\ task = "Idle" /\ wire = <<>>
  BY DEF Live
<1>6. Job /\ LiveInputs /\ Steady /\ ReadRight
  BY <1>5 DEF Job, LiveInputs, Steady, ReadRight
<1>7. Answering
  BY <1>5 DEF Answering
<1>8. Known
  BY <1>5 DEF Known, ReadKnown, SaveKnown
<1>9. TxKnown
  BY <1>5 DEF TxKnown, TxRead, TxTask, OnScreen, JustSet, LeftToSet, AllSet, Switching
<1>10. RestKnown
  <2>1. NoRead.eeprom = Nothing
    BY DEF NoRead
  <2> QED
    BY <2>1 DEF RestKnown, SameRest, Nothing
<1> QED
  BY <1>1, <1>2, <1>3, <1>4, <1>6, <1>7, <1>8, <1>9, <1>10 DEF IInv

LEMMA Inductive == IInv /\ [Next]_vars => IInv'
<1> SUFFICES ASSUME IInv, [Next]_vars PROVE IInv'
  OBVIOUS
<1> USE DEF IInv
<1>1. Bus' /\ Steps' /\ BusTypes' /\ TaskTypes'
  BY BusStep, StepsStep, BusTypesStep, TaskTypesStep
<1>2. Lines' /\ Devices' /\ Records' /\ Job'
  BY LinesStep, DevicesStep, RecordsStep, JobStep
<1>3. LiveInputs' /\ Steady' /\ Answering' /\ ReadRight'
  BY <1>1, LiveInputsStep, SteadyStep, AnsweringStep, ReadRightStep
<1>4. Known'
  <2> SUFFICES ASSUME Heeded PROVE ReadKnown' /\ SaveKnown'
    <3>1. faults' = faults
      BY FaultsStay
    <3> QED
      BY <3>1 DEF Known, Heeded
  <2>1. ReadKnown /\ SaveKnown
    BY DEF Known
  <2> QED
    BY <1>1, <2>1, ReadKnownStep, SaveKnownStep
<1>5. TxKnown'
  <2> SUFFICES ASSUME Heeded, "remote" \notin faults
               PROVE  (TxRead /\ TxTask /\ OnScreen /\ JustSet /\ LeftToSet /\ AllSet)'
    <3>1. faults' = faults
      BY FaultsStay
    <3> QED
      BY <3>1 DEF TxKnown, Heeded
  <2>1. TxRead /\ TxTask /\ OnScreen /\ JustSet /\ LeftToSet /\ AllSet
    BY DEF TxKnown
  <2> QED
    BY <1>1, <2>1, TxReadStep, TxTaskStep, OnScreenStep, JustSetStep, LeftToSetStep, AllSetStep
<1>6. RestKnown'
  BY RestKnownStep
<1> QED
  BY <1>1, <1>2, <1>3, <1>4, <1>5, <1>6

LEMMA Invariance == Spec => []IInv
<1>1. Init => IInv
  BY Initially
<1>2. IInv /\ [Next]_vars => IInv'
  BY Inductive
<1> QED
  BY <1>1, <1>2, PTL DEF Spec

\* The variables hold what svs_settings.cpp and svs_usb.cpp can put in them: lines are bytes
\* and fit the queue, a Read has the bytes and transcoders it was told, and a question is
\* asked ATTEMPTS times.
THEOREM TypeCorrectness == Spec => []TypeOK
<1>1. IInv => TypeOK
  <2> SUFFICES ASSUME IInv PROVE TypeOK
    OBVIOUS
  <2>1. \A s \in SVS : eeprom[s] \in [DOMAIN eeprom[s] -> Byte]
    BY DEF IInv, Devices, IsEeprom
  <2>2. ASSUME NEW rd \in {r, read}
        PROVE  /\ rd \in [valid : BOOLEAN, connection : Nat, inputs : Int,
                          eeprom : {rd.eeprom}, tx : {rd.tx}]
               /\ rd.eeprom \in [DOMAIN rd.eeprom -> Byte]
               /\ rd.tx \in [DOMAIN rd.tx -> BOOLEAN]
    BY DEF IInv, Records, IsRead, IsEeprom
  <2> QED
    BY <2>1, <2>2, Zenon DEF IInv, BusTypes, TaskTypes, Lines, TypeOK
<1> QED
  BY <1>1, Invariance, PTL

\* session_begin and session_end: the settings session, which keeps the answers of the SVS
\* from everyone else, is there exactly while a task needs it, on every way out of one.
THEOREM SessionAlwaysHeld == Spec => []SessionHeld
<1>1. IInv => SessionHeld
  <2> SUFFICES ASSUME Steps PROVE SessionHeld
    BY DEF IInv
  <2> QED
    BY DEF Steps, SessionHeld, InSession, Asking, Switching
<1> QED
  BY <1>1, Invariance, PTL

\* svs_settings.h: a snapshot shown as valid is what the SVS plugged in holds, whatever was
\* swapped while it was read or saved to.
THEOREM SnapshotsAreTrue == Spec => []ShownIsChip
<1>1. IInv => ShownIsChip
  BY DEF IInv, Known, ReadKnown, ShownIsChip, Shown, Live, Agrees
<1> QED
  BY <1>1, Invariance, PTL

\* query: while no answer is late and nobody else asks, each one is taken for the byte that
\* was asked for, though nothing in it says so.
THEOREM AnswersAreMatched == Spec => []ReadsAreRight
<1>1. IInv => ReadsAreRight
  BY DEF IInv, ReadRight, ReadsAreRight, Quiet, Live, Agrees
<1> QED
  BY <1>1, Invariance, PTL

\* write_task: what a save reports as done is what a new read of the SVS would find, flags
\* and IR codes alike.
THEOREM SavesAreThere == Spec => []SavedIsThere
<1>1. IInv => SavedIsThere
  <2> SUFFICES ASSUME IInv, Heeded, pc = "end", task = "Writing", outcome, alive,
                      r.connection = connections
               PROVE  Decode(Reading(eeprom[dev], r.inputs), r.inputs) =
                        [n \in 1..r.inputs |->
                           [auto_profile |-> want[n].auto_profile, rgsb |-> want[n].rgsb,
                            sync_bypass |-> want[n].sync_bypass, ir |-> want[n].ir]]
    BY DEF SavedIsThere
  <2>1. Holds(eeprom[dev], want, r.inputs)
    BY DEF IInv, Known, SaveKnown, Live
  <2>2. Wanted(want, r.inputs)
    BY DEF IInv, Job
  <2>3. r.inputs \in Nat
    BY SvsAssumption DEF IInv, LiveInputs, Live, Bus
  <2>4. Holds(Reading(eeprom[dev], r.inputs), want, r.inputs)
    BY <2>1, <2>2, <2>3, ReadingHolds
  <2>5. \A n \in 1..r.inputs :
          decode_input(Reading(eeprom[dev], r.inputs), n, r.inputs) =
            [auto_profile |-> want[n].auto_profile, rgsb |-> want[n].rgsb,
             sync_bypass |-> want[n].sync_bypass, ir |-> want[n].ir]
    BY <2>2, <2>3, <2>4, DecodesBack
  <2> QED
    BY <2>5 DEF Decode
<1> QED
  BY <1>1, Invariance, PTL

\* write_task: each transcoder of each input ends up as asked, though it can only be set
\* while its input is on screen.
THEOREM TranscodersAreSet == Spec => []TranscodersSet
<1>1. IInv => TranscodersSet
  BY DEF IInv, TxKnown, AllSet, TranscodersSet, Live, AsWanted
<1> QED
  BY <1>1, Invariance, PTL

\* plan_writes: no save ever changes a bit of an input the SVS does not report, even when
\* what the bridge knows of the SVS is out of date.
THEOREM UnmanagedBitsAreKept == Spec => UnmanagedKept
<1>1. IInv /\ [Next]_vars =>
        [faults \cap {"swap", "late", "console"} = {} =>
           \A s \in SVS, m \in Maps : \A i \in 0..(bitmap_bytes(InputsOf[s]) - 1), b \in Bits :
             8 * i + b + 1 > InputsOf[s] =>
               (b \in eeprom'[s][m.base + i] <=> b \in eeprom[s][m.base + i])]_vars
  <2> SUFFICES ASSUME IInv, [Next]_vars, faults \cap {"swap", "late", "console"} = {},
                      NEW s \in SVS, NEW m \in Maps,
                      NEW i \in 0..(bitmap_bytes(InputsOf[s]) - 1), NEW b \in Bits,
                      8 * i + b + 1 > InputsOf[s]
               PROVE  b \in eeprom'[s][m.base + i] <=> b \in eeprom[s][m.base + i]
    OBVIOUS
  <2>1. CASE eeprom' = eeprom
    BY <2>1
  <2>2. CASE eeprom' # eeprom
    <3>1. /\ pc = "save" /\ left # {} /\ alive
          /\ eeprom' = [eeprom EXCEPT ![port] = Written(@, {NextPut})]
      BY <2>2, EepromChanges
    <3>2. eeprom \in [SVS -> {eeprom[t] : t \in SVS}]
      BY DEF IInv, Devices
    <3>3. CASE s = port
      <4>1. eeprom'[s] = Written(eeprom[port], {NextPut})
        BY <3>1, <3>2, <3>3
      <4>2. b \in Written(eeprom[port], {NextPut})[m.base + i] <=> b \in eeprom[port][m.base + i]
        BY <3>1, <3>3, SaveKeepsRest DEF IInv
      <4> QED
        BY <3>3, <4>1, <4>2
    <3>4. CASE s # port
      BY <3>1, <3>2, <3>4
    <3> QED
      BY <3>3, <3>4
  <2> QED
    BY <2>1, <2>2
<1> QED
  BY <1>1, Invariance, PTL DEF Spec, UnmanagedKept
=============================================================================
