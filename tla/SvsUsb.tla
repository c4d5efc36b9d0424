------------------------------- MODULE SvsUsb -------------------------------
(***************************************************************************)
(* The USB link to the SVS: svs_usb.cpp.                                    *)
(*                                                                         *)
(* Four parties share it.  The USB host's callbacks queue new devices, put  *)
(* what the SVS sends into a buffer and raise s_disconnected.  device_task  *)
(* opens an SVS, restarts it once after a deliberate start of the bridge to  *)
(* see its banner, puts its input back, and waits for it to go.             *)
(* rx_print_task turns the buffer into s_info, which everyone reads.  Web   *)
(* handlers restart the SVS, and a bootloader session takes the line (raw). *)
(*                                                                         *)
(* A heartbeat (the lines TOTAL INPUTS and CURRENT INPUT) is one item of    *)
(* the buffer.  Left out: the NEW INPUT line, which tells an input earlier  *)
(* than the next heartbeat does, partial lines, the traffic log, the raw    *)
(* tap.  Settings sessions are in SvsSettings.  Of the web handlers, the    *)
(* console and the RFC 2217 clients one at a time restarts the SVS.         *)
(* CONFIG_SVS_ASSERT_DTR is off, its default: at rest DTR is not asserted.  *)
(* Opening the SVS, its rate, its lines and a command may fail; nothing but  *)
(* a log line comes of that.                                                *)
(***************************************************************************)
EXTENDS Integers, Sequences

CONSTANTS
  SVS,          \* the SVSs that are ever plugged in
  Others,       \* USB devices that are no SVS
  Nobody,       \* no device
  Inputs,       \* Inputs[s]: how many inputs s has
  NewDevsSize,  \* devices s_new_dev_q has room for: 4
  StreamSize,   \* items s_rx_stream has room for
  MaxActs       \* bound on what people do: plugging, selecting, restarting, flashing

ASSUME DevicesAssumption == SVS \cap Others = {} /\ Nobody \notin SVS \cup Others
ASSUME InputsAssumption == Inputs \in [SVS -> Nat \ {0}]
ASSUME SizesAssumption == NewDevsSize \in Nat \ {0} /\ StreamSize \in Nat /\ MaxActs \in Nat

VARIABLES
  acts,       \* how often people interfered
  port,       \* the device in the USB port
  screen,     \* the input the SVS in the port shows, 0 for none
  booting,    \* it was reset and has not printed its banner
  dtr,        \* DTR is asserted at the device in the port
  newDevs,    \* devices in s_new_dev_q
  stream,     \* s_rx_stream
  gone,       \* s_disconnected
  opened,     \* the device that device_task holds a handle of
  alive,      \* the handle still reaches it
  dev,        \* s_dev
  info,       \* s_info
  raw,        \* s_raw
  restartOnBoot, \* s_restart_on_boot
  pc,         \* where device_task is
  boots,      \* its copy of boots_seen
  prev,       \* its prev_input
  web,        \* where svs_restart_post is
  failed,     \* what last failed at the device in the port
  told        \* for PictureSettles: where the firmware in s_info may come from

svsVars == <<port, screen, booting, dtr>>
usbVars == <<newDevs, stream, gone>>
taskVars == <<opened, alive, dev, restartOnBoot, pc, boots, prev>>
vars == <<acts, port, screen, booting, dtr, newDevs, stream, gone, opened, alive, dev, info,
          raw, restartOnBoot, pc, boots, prev, web, failed, told>>

Unknown == -1
MaxInputs == CHOOSE m \in {Inputs[s] : s \in SVS} : \A s \in SVS : Inputs[s] <= m
Steps == {"idle", "open", "publish", "first", "remember", "pulse", "release", "second",
          "restore", "connected", "forget"}

Lines ==
  [kind : {"banner"}, of : SVS] \cup
  UNION {[kind : {"status"}, of : {s}, input : 0..Inputs[s]] : s \in SVS}

\* What may fail: VCP::open, set_baudrate, set_control_line_state
Failures == {"open", "rate", "lines"}

\* A banner of the SVS that is open reached the buffer; there were lines left
\* in it when the SVS before was forgotten.
Sources == {"banner", "rest"}

\* s_info of an SVS that reported nothing yet; firmware is the SVS whose line it
\* is, live and inputs_live follow from firmware, current and total.
Blank(connections) ==
  [firmware |-> Nobody, current |-> Unknown, total |-> Unknown, boots |-> 0,
   connections |-> connections]

Init ==
  /\ acts = 0
  /\ port \in SVS \cup Others \cup {Nobody}
  /\ screen = IF port \in SVS THEN 1 ELSE 0
  /\ booting \in IF port \in SVS THEN BOOLEAN ELSE {FALSE}
  /\ dtr = FALSE
  /\ newDevs = IF port = Nobody THEN 0 ELSE 1
  /\ stream = <<>>
  /\ gone = FALSE
  /\ opened = Nobody
  /\ alive = FALSE
  /\ dev = Nobody
  /\ info = Blank(0)
  /\ raw = FALSE
  /\ restartOnBoot \in BOOLEAN
  /\ pc = "idle"
  /\ boots = 0
  /\ prev = Unknown
  /\ web = "idle"
  /\ failed = {}
  /\ told = {}

-----------------------------------------------------------------------------
\* What people do, and what fails, is bounded.
Act == acts < MaxActs /\ acts' = acts + 1

(* The SVS *)

\* A DTR edge resets the SVS at the other end of the handle.
SetDtr(on) ==
  /\ dtr' = on
  /\ booting' = (booting \/ (on /\ ~dtr))

\* set_control_line_state fails, whether the SVS got the request or not.
SetLinesFails(on, left) ==
  /\ Act
  /\ SetDtr(on) \/ UNCHANGED <<dtr, booting>>
  /\ failed' = left \cup {"lines"}

\* What the SVS sends: lost without a handle, raw_read's in raw mode (on_rx),
\* garbage at another rate, and dropped when the buffer is full
Heard == alive /\ ~raw /\ "rate" \notin failed /\ Len(stream) < StreamSize
Sends(line) == stream' = IF Heard THEN Append(stream, line) ELSE stream

\* An SVS that comes up prints its banner and selects an input of its choice.
ComeUp ==
  /\ booting
  /\ booting' = FALSE
  /\ screen' \in 0..Inputs[port]
  /\ Sends([kind |-> "banner", of |-> port])
  /\ told' = IF Heard THEN told \cup {"banner"} ELSE told
  /\ UNCHANGED <<acts, port, dtr, newDevs, gone, taskVars, info, raw, web, failed>>

\* Every 2 s. A heartbeat that repeats the newest item of the buffer adds
\* nothing to it.
Report ==
  LET line == [kind |-> "status", of |-> port, input |-> screen]
  IN  /\ alive
      /\ ~booting
      /\ \A i \in DOMAIN stream : i = Len(stream) => stream[i] # line
      /\ Sends(line)
      /\ UNCHANGED <<acts, svsVars, newDevs, gone, taskVars, info, raw, web, failed, told>>

-----------------------------------------------------------------------------
(* People *)

\* on_new_device
NewDevice == newDevs' = IF newDevs < NewDevsSize THEN newDevs + 1 ELSE newDevs

Plug(d) ==
  /\ Act
  /\ port = Nobody
  /\ port' = d
  /\ screen' \in IF d \in SVS THEN 0..Inputs[d] ELSE {0}
  /\ booting' \in IF d \in SVS THEN BOOLEAN ELSE {FALSE}
  /\ dtr' = FALSE
  /\ NewDevice
  /\ UNCHANGED <<stream, gone, taskVars, info, raw, web, failed, told>>

\* on_event, if there is a handle of the device
Unplug ==
  /\ Act
  /\ port # Nobody
  /\ port' = Nobody
  /\ screen' = 0
  /\ booting' = FALSE
  /\ dtr' = FALSE
  /\ alive' = FALSE
  /\ gone' = (gone \/ alive)
  /\ failed' = {}
  /\ UNCHANGED <<newDevs, stream, opened, dev, info, raw, restartOnBoot, pc, boots, prev,
                 web, told>>

\* At the SVS, with its remote, or by a command (send)
Select(n) ==
  /\ Act
  /\ port \in SVS
  /\ ~booting
  /\ n \in (0..Inputs[port]) \ {screen}
  /\ screen' = n
  /\ UNCHANGED <<port, booting, dtr, usbVars, taskVars, info, raw, web, failed, told>>

\* do_restart_svs for svs_restart_post: DTR is asserted, and released 100 ms
\* later, unless asserting it failed.
RestartSvs ==
  /\ web = "idle"
  /\ dev # Nobody /\ ~raw /\ alive
  /\ \/ Act /\ SetDtr(TRUE) /\ web' = "release" /\ UNCHANGED failed
     \/ SetLinesFails(TRUE, failed) /\ UNCHANGED web
  /\ UNCHANGED <<port, screen, usbVars, taskVars, info, raw, told>>

\* DTR is released, with left of what failed before; a handle that no longer
\* reaches its SVS reaches no other one.
ReleaseDtr(left) ==
  IF dev # Nobody /\ alive
  THEN \/ SetDtr(FALSE) /\ failed' = left \ {"lines"} /\ UNCHANGED acts
       \/ SetLinesFails(FALSE, left)
  ELSE UNCHANGED <<acts, dtr, booting, failed>>

RestartedSvs ==
  /\ web = "release"
  /\ ReleaseDtr(failed)
  /\ web' = "idle"
  /\ UNCHANGED <<port, screen, usbVars, taskVars, info, raw, told>>

\* A bootloader session: raw_begin, raw_set_lines as often as it likes, raw_end
RawBegin ==
  /\ Act
  /\ dev # Nobody /\ ~raw /\ alive
  /\ raw' = TRUE
  /\ UNCHANGED <<svsVars, usbVars, taskVars, info, web, failed, told>>

RawLines(on) ==
  /\ raw
  /\ dev # Nobody /\ alive
  /\ dtr # on
  /\ Act
  /\ SetDtr(on)
  /\ UNCHANGED <<port, screen, usbVars, taskVars, info, raw, web, failed, told>>

RawEndKeepsLines ==                    \* mutant: DTR stays as the session left it
  /\ raw
  /\ raw' = FALSE
  /\ UNCHANGED <<acts, svsVars, usbVars, taskVars, info, web, failed, told>>

\* The rate of the session stays where setting the usual one fails.
RawEnd ==
  /\ raw
  /\ raw' = FALSE
  /\ \/ ReleaseDtr(failed \ {"rate"})
     \/ /\ alive /\ dev # Nobody
        /\ Act
        /\ dtr' = FALSE
        /\ failed' = (failed \ {"lines"}) \cup {"rate"}
        /\ UNCHANGED booting
  /\ UNCHANGED <<port, screen, usbVars, taskVars, info, web, told>>

\* The bridge restarts, deliberately or by a crash or the watchdog; a device in
\* the port is enumerated again.
Restart(deliberate) ==
  /\ Act
  /\ restartOnBoot' = deliberate
  /\ dtr' = FALSE
  /\ newDevs' = IF port = Nobody THEN 0 ELSE 1
  /\ stream' = <<>>
  /\ gone' = FALSE
  /\ opened' = Nobody
  /\ alive' = FALSE
  /\ dev' = Nobody
  /\ info' = Blank(0)
  /\ raw' = FALSE
  /\ pc' = "idle"
  /\ boots' = 0
  /\ prev' = Unknown
  /\ web' = "idle"
  /\ failed' = {}
  /\ told' = {}
  /\ UNCHANGED <<port, screen, booting>>

-----------------------------------------------------------------------------
(* rx_print_task *)

Parse ==
  /\ stream # <<>>
  /\ stream' = Tail(stream)
  /\ LET line == Head(stream)
     IN  info' = IF line.kind = "banner"
                 THEN [info EXCEPT !.firmware = line.of, !.boots = @ + 1]
                 ELSE [info EXCEPT !.current = line.input, !.total = Inputs[line.of]]
  /\ UNCHANGED <<acts, svsVars, newDevs, gone, taskVars, raw, web, failed, told>>

-----------------------------------------------------------------------------
(* device_task *)

Goto(step) == pc' = step

TakeNew ==
  /\ pc = "idle"
  /\ newDevs > 0
  /\ newDevs' = newDevs - 1
  /\ Goto("open")
  /\ UNCHANGED <<acts, svsVars, stream, gone, opened, alive, dev, info, raw, restartOnBoot,
                 boots, prev, web, failed, told>>

\* VCP::open takes the SVS that is there now, whichever device was queued.  It
\* may fail, with what was queued used up; so may setting the rate, with the
\* SVS taken for open.  DTR is released, which it was before.
Open ==
  /\ pc = "open"
  /\ \/ /\ port \in SVS
        /\ \/ failed' = failed \ {"open", "rate"} /\ UNCHANGED acts
           \/ Act /\ failed' = (failed \ {"open"}) \cup {"rate"}
        /\ opened' = port
        /\ alive' = TRUE
        /\ dtr' = FALSE
        /\ Goto("publish")
     \/ /\ port \in SVS
        /\ Act
        /\ failed' = failed \cup {"open"}
        /\ Goto("idle")
        /\ UNCHANGED <<opened, alive, dtr>>
     \/ /\ port \notin SVS
        /\ Goto("idle")
        /\ UNCHANGED <<acts, failed, opened, alive, dtr>>
  /\ UNCHANGED <<port, screen, booting, usbVars, dev, info, raw, restartOnBoot, boots, prev,
                 web, told>>

PublishAlways ==                       \* mutant: the flag is not one-shot
  /\ pc = "publish"
  /\ dev' = opened
  /\ info' = [info EXCEPT !.connections = @ + 1]
  /\ boots' = info.boots
  /\ Goto(IF restartOnBoot THEN "first" ELSE "connected")
  /\ UNCHANGED <<acts, svsVars, usbVars, opened, alive, raw, restartOnBoot, prev, web, failed,
                 told>>

Publish ==
  /\ pc = "publish"
  /\ dev' = opened
  /\ info' = [info EXCEPT !.connections = @ + 1]
  /\ boots' = info.boots
  /\ restartOnBoot' = FALSE
  /\ Goto(IF restartOnBoot THEN "first" ELSE "connected")
  /\ UNCHANGED <<acts, svsVars, usbVars, opened, alive, raw, prev, web, failed, told>>

\* A banner since then, or 4 s without one
Banner == info.boots # boots

WaitFirst ==
  /\ pc = "first"
  /\ Goto(IF Banner THEN "connected" ELSE "remember")
  /\ UNCHANGED <<acts, svsVars, usbVars, opened, alive, dev, info, raw, restartOnBoot, boots,
                 prev, web, failed, told>>

Remember ==
  /\ pc = "remember"
  /\ prev' = info.current
  /\ Goto("pulse")
  /\ UNCHANGED <<acts, svsVars, usbVars, opened, alive, dev, info, raw, restartOnBoot, boots,
                 web, failed, told>>

\* do_restart_svs: it is refused in raw mode, and a handle may not reach its SVS.
Pulse ==
  /\ pc = "pulse"
  /\ \/ ~raw /\ alive /\ SetDtr(TRUE) /\ Goto("release") /\ UNCHANGED <<acts, failed>>
     \/ ~raw /\ alive /\ SetLinesFails(TRUE, failed) /\ Goto("second")
     \/ (raw \/ ~alive) /\ Goto("second") /\ UNCHANGED <<acts, dtr, booting, failed>>
  /\ UNCHANGED <<port, screen, usbVars, opened, alive, dev, info, raw, restartOnBoot, boots,
                 prev, web, told>>

Release ==
  /\ pc = "release"
  /\ ReleaseDtr(failed)
  /\ Goto("second")
  /\ UNCHANGED <<port, screen, usbVars, opened, alive, dev, info, raw, restartOnBoot, boots,
                 prev, web, told>>

WaitSecond ==
  /\ pc = "second"
  /\ Goto("restore")
  /\ UNCHANGED <<acts, svsVars, usbVars, opened, alive, dev, info, raw, restartOnBoot, boots,
                 prev, web, failed, told>>

\* do_send, which a bootloader session refuses and which may fail; an SVS that is
\* booting, or listens at another rate, is deaf.
Restore ==
  /\ pc = "restore"
  /\ \/ /\ IF /\ prev > 0 /\ info.current # prev
              /\ ~raw /\ alive /\ ~booting /\ "rate" \notin failed /\ prev <= Inputs[port]
           THEN screen' = prev
           ELSE UNCHANGED screen
        /\ UNCHANGED acts
     \/ Act /\ UNCHANGED screen
  /\ Goto("connected")
  /\ UNCHANGED <<port, booting, dtr, usbVars, opened, alive, dev, info, raw, restartOnBoot,
                 boots, prev, web, failed, told>>

WaitGoneKeepsRaised ==                 \* mutant: s_disconnected stays raised
  /\ pc = "connected"
  /\ gone
  /\ Goto("forget")
  /\ UNCHANGED <<acts, svsVars, usbVars, opened, alive, dev, info, raw, restartOnBoot, boots,
                 prev, web, failed, told>>

WaitGone ==
  /\ pc = "connected"
  /\ gone
  /\ gone' = FALSE
  /\ Goto("forget")
  /\ UNCHANGED <<acts, svsVars, newDevs, stream, opened, alive, dev, info, raw, restartOnBoot,
                 boots, prev, web, failed, told>>

\* A mutant below forgets less.
ForgetInto(blank, device) ==
  /\ pc = "forget"
  /\ dev' = device
  /\ opened' = Nobody
  /\ info' = blank
  /\ boots' = 0
  /\ prev' = Unknown
  /\ told' = IF stream = <<>> THEN {} ELSE {"rest"}
  /\ Goto("idle")
  /\ UNCHANGED <<acts, svsVars, usbVars, alive, raw, restartOnBoot, web, failed>>

\* mutant: s_dev points to the deleted handle
ForgetKeepsDev == ForgetInto(Blank(info.connections), dev)

\* mutant: the firmware is not cleared
ForgetKeepsFirmware ==
  ForgetInto([Blank(info.connections) EXCEPT !.firmware = info.firmware], Nobody)

Forget == ForgetInto(Blank(info.connections), Nobody)

-----------------------------------------------------------------------------
People ==
  \/ \E d \in SVS \cup Others : Plug(d)
  \/ Unplug
  \/ \E n \in 0..MaxInputs : Select(n)
  \/ RestartSvs \/ RawBegin \/ \E on \in BOOLEAN : RawLines(on)
  \/ \E deliberate \in BOOLEAN : Restart(deliberate)

DeviceTask ==
  \/ TakeNew \/ Open \/ Publish \/ WaitFirst \/ Remember \/ Pulse \/ Release \/ WaitSecond
  \/ Restore \/ WaitGone \/ Forget

Next == ComeUp \/ Report \/ People \/ RestartedSvs \/ RawEnd \/ Parse \/ DeviceTask

Spec == Init /\ [][Next]_vars

\* Every wait of device_task has a timeout or ends with the SVS, an SVS comes up
\* and repeats itself, and a bootloader session ends (when the line falls quiet:
\* see SvsFlasher).
FairSpec ==
  /\ Spec
  /\ WF_vars(ComeUp) /\ WF_vars(Report)
  /\ WF_vars(RestartedSvs) /\ WF_vars(RawEnd)
  /\ WF_vars(Parse) /\ WF_vars(DeviceTask)

-----------------------------------------------------------------------------
(* Properties *)

Infos ==
  [firmware : SVS \cup {Nobody}, current : Nat \cup {Unknown}, total : Nat \cup {Unknown},
   boots : Nat, connections : Nat]

TypeOK ==
  /\ acts \in 0..MaxActs
  /\ port \in SVS \cup Others \cup {Nobody}
  /\ screen \in IF port \in SVS THEN 0..Inputs[port] ELSE {0}
  /\ booting \in BOOLEAN /\ (booting => port \in SVS)
  /\ dtr \in BOOLEAN /\ gone \in BOOLEAN /\ alive \in BOOLEAN /\ raw \in BOOLEAN
  /\ newDevs \in 0..NewDevsSize
  /\ stream \in Seq(Lines) /\ Len(stream) <= StreamSize
  /\ opened \in SVS \cup {Nobody} /\ dev \in {opened, Nobody}
  /\ info \in Infos
  /\ restartOnBoot \in BOOLEAN
  /\ pc \in Steps
  /\ boots \in Nat /\ prev \in Nat \cup {Unknown}
  /\ web \in {"idle", "release"}
  /\ failed \subseteq Failures /\ told \subseteq Sources

\* device_task: s_disconnected is raised by the loss of the very SVS that is
\* open, and not lost: none is waited for in vain or dropped for another one.
GoneIsOpened ==
  opened # Nobody => (alive <=> ~gone /\ pc # "forget")

\* device_task: while the bridge restarts an SVS at boot, all it goes by was said
\* by that very SVS: the banner it waits for, and the input it puts back.  Lines
\* of one that is gone (UsbStale) never reach that decision.
RestartGoesByOwn ==
  pc \in {"first", "remember", "pulse", "release", "second", "restore"} =>
    /\ \A i \in DOMAIN stream : stream[i].of = opened
    /\ info.firmware \in {opened, Nobody} /\ (Banner => info.firmware = opened)
    /\ info.total \in {Inputs[opened], Unknown}
    /\ info.current <= Inputs[opened] /\ prev <= Inputs[opened]

\* do_restart_svs and raw_end: whoever asserted DTR, it is released in the end, or
\* no later restart would be an edge that the SVS sees; unless setting the lines
\* failed, which nobody repeats.
DtrReleased == dtr => raw \/ web = "release" \/ pc = "release" \/ "lines" \in failed

\* info(): once nobody interferes, the SVS in the port is open and what the
\* bridge knows of it is so, whatever was queued, dropped or late before.  The
\* firmware is its own if its banner was not dropped, else none; where neither
\* holds, lines of the SVS before were left in the buffer (UsbStale).  An SVS that
\* could not be opened, or not at its rate, stays unknown until it is plugged in
\* again: device_task does not try twice.
PictureSettles ==
  <>[](port \in SVS /\ failed \cap {"open", "rate"} = {} =>
         /\ dev = port /\ alive
         /\ info.current = screen
         /\ info.total = Inputs[port]
         /\ "banner" \in told => info.firmware = port
         /\ told = {} => info.firmware = Nobody)

\* svs_usb.cpp: of an SVS that is unplugged nothing is reported.
NothingWhenUnplugged == pc = "idle" => info = Blank(info.connections)

\* device_task: the input is put back once the SVS that the bridge restarted
\* has printed its banner, unless it selected that input again by itself.
InputPutBack ==
  [][pc = "restore" /\ pc' = "connected" /\ Banner /\ prev > 0 /\ alive /\ ~raw /\ ~booting
     => screen' = prev]_vars
=============================================================================
