---------------------------- MODULE SvsUsbProofs ----------------------------
(***************************************************************************)
(* Proofs about SvsUsb, for any number of devices, inputs, connections and  *)
(* interruptions, and any sizes of the queue and the buffer.                *)
(***************************************************************************)
EXTENDS SvsUsb, TLAPS

\* Where device_task holds a handle, and where s_dev is set
Held == {"publish", "first", "remember", "pulse", "release", "second", "restore",
         "connected", "forget"}

\* What device_task may rely on: the handle it opened, s_dev and the semaphore
\* go together, and only a handle of the SVS in the port reaches it.
Handle ==
  /\ GoneIsOpened
  /\ opened # Nobody <=> pc \in Held
  /\ opened = Nobody => ~alive /\ ~gone
  /\ pc = "forget" => ~gone
  /\ dev = (IF pc \in Held \ {"publish"} THEN opened ELSE Nobody)
  /\ alive => opened = port

\* DTR is asserted only through s_dev, so that whoever releases it finds it there.
Asserted == (dtr => alive /\ dev # Nobody) /\ DtrReleased

\* All that is in the buffer, and in s_info, was said by the SVS that is open.
StreamOwn == \A i \in DOMAIN stream : stream[i].of = opened
InfoOwn ==
  /\ info.firmware \in {opened, Nobody}
  /\ info.total = Unknown \/ (opened \in SVS /\ info.total = Inputs[opened])
  /\ info.current = Unknown \/ (opened \in SVS /\ info.current <= Inputs[opened])

Restarting == {"first", "remember", "pulse", "release", "second", "restore"}
BannerOwn == Banner => info.firmware = opened
PrevOwn == prev = Unknown \/ (opened \in SVS /\ prev <= Inputs[opened])

\* Until the first connection since the bridge started is past its restart,
\* there was no other SVS to hear of.
FirstOnly ==
  /\ restartOnBoot => pc \in {"idle", "open", "publish"}
  /\ restartOnBoot \/ pc \in Restarting => StreamOwn /\ InfoOwn
  /\ pc \in Restarting => BannerOwn /\ PrevOwn
  /\ pc \in {"idle", "open", "publish", "first"} => prev = Unknown

IInv == TypeOK /\ Handle /\ Asserted /\ FirstOnly

-----------------------------------------------------------------------------
\* What rx_print_task takes from the buffer is a line.
LEMMA LineTypes ==
  ASSUME NEW line \in Lines
  PROVE  /\ line.kind \in {"banner", "status"}
         /\ line.of \in SVS
         /\ line.kind = "status" => line.input \in 0..Inputs[line.of]
BY InputsAssumption DEF Lines

\* What the SVS sends fits into the buffer.
LEMMA SendsTypes ==
  ASSUME stream \in Seq(Lines), Len(stream) <= StreamSize, NEW line \in Lines, Sends(line)
  PROVE  stream' \in Seq(Lines) /\ Len(stream') <= StreamSize
<1>1. CASE stream' = stream
  BY <1>1
<1>2. CASE stream' = Append(stream, line) /\ Len(stream) < StreamSize
  BY <1>2, SizesAssumption
<1> QED
  BY <1>1, <1>2 DEF Sends, Heard

\* What is left of a sequence without its first item.
LEMMA TailTypes ==
  ASSUME NEW S, NEW s \in Seq(S), s # <<>>
  PROVE  Tail(s) \in Seq(S) /\ Len(Tail(s)) <= Len(s)
OBVIOUS

LEMMA InitIInv == Init => IInv
<1> SUFFICES ASSUME Init PROVE IInv
  OBVIOUS
<1>1. TypeOK
  <2>1. screen \in IF port \in SVS THEN 0..Inputs[port] ELSE {0}
    BY InputsAssumption DEF Init
  <2>2. info \in Infos /\ prev \in Nat \cup {Unknown} /\ boots \in Nat
    BY DEF Init, Infos, Blank, Unknown
  <2>3. booting \in BOOLEAN /\ (booting => port \in SVS)
    BY DEF Init
  <2>4. stream \in Seq(Lines) /\ Len(stream) <= StreamSize
    BY SizesAssumption DEF Init
  <2>5. newDevs \in 0..NewDevsSize /\ acts \in 0..MaxActs
    BY SizesAssumption DEF Init
  <2> QED
    BY <2>1, <2>2, <2>3, <2>4, <2>5 DEF Init, TypeOK, Steps
<1>2. Handle /\ Asserted /\ FirstOnly
  BY DEF Init, Handle, GoneIsOpened, Held, Asserted, DtrReleased, FirstOnly, StreamOwn,
         InfoOwn, Restarting, Blank
<1> QED
  BY <1>1, <1>2 DEF IInv

\* The buffer holds lines, and not too many.
LEMMA StreamStep ==
  ASSUME IInv, [Next]_vars
  PROVE  stream' \in Seq(Lines) /\ Len(stream') <= StreamSize
<1>1. stream \in Seq(Lines) /\ Len(stream) <= StreamSize
  BY DEF IInv, TypeOK
<1>2. CASE ComeUp
  <2>1. [kind |-> "banner", of |-> port] \in Lines
    BY <1>2 DEF ComeUp, Lines, IInv, TypeOK
  <2> QED
    BY <1>1, <1>2, <2>1, SendsTypes DEF ComeUp
<1>3. CASE Report
  <2>1. port \in SVS
    BY <1>3 DEF Report, IInv, TypeOK, Handle
  <2>2. [kind |-> "status", of |-> port, input |-> screen] \in Lines
    <3>1. screen \in 0..Inputs[port]
      BY <2>1 DEF IInv, TypeOK
    <3>2. [kind |-> "status", of |-> port, input |-> screen]
            \in [kind : {"status"}, of : {port}, input : 0..Inputs[port]]
      BY <3>1
    <3> QED
      BY <2>1, <3>2 DEF Lines
  <2> QED
    BY <1>1, <1>3, <2>2, SendsTypes DEF Report
<1>4. CASE Parse
  <2>1. stream # <<>> /\ stream' = Tail(stream)
    BY <1>4 DEF Parse
  <2>2. Tail(stream) \in Seq(Lines) /\ Len(Tail(stream)) <= Len(stream)
    BY <1>1, <2>1, TailTypes
  <2>3. Len(stream) \in Nat /\ Len(Tail(stream)) \in Nat
    BY <1>1, <2>2
  <2> QED
    BY <1>1, <2>1, <2>2, <2>3, SizesAssumption
<1>5. ASSUME NEW deliberate \in BOOLEAN, Restart(deliberate)
      PROVE  stream' \in Seq(Lines) /\ Len(stream') <= StreamSize
  BY <1>5, SizesAssumption DEF Restart
<1>6. CASE UNCHANGED stream
  BY <1>1, <1>6
<1> QED
  BY <1>2, <1>3, <1>4, <1>5, <1>6
     DEF Next, People, DeviceTask, vars, usbVars, Plug, Unplug, Select, RestartSvs, RawBegin,
         RawLines, RestartedSvs, RawEnd, TakeNew, Open, Publish, WaitFirst, Remember, Pulse,
         Release, WaitSecond, Restore, WaitGone, Forget, ForgetInto

\* s_info keeps its type.
LEMMA InfoStep ==
  ASSUME IInv, [Next]_vars
  PROVE  info' \in Infos
<1>1. info \in Infos
  BY DEF IInv, TypeOK
<1>2. CASE Parse
  <2>1. Head(stream) \in Lines
    BY <1>2 DEF Parse, IInv, TypeOK
  <2>2. CASE Head(stream).kind = "banner"
    <3>1. info' = [info EXCEPT !.firmware = Head(stream).of, !.boots = @ + 1]
      BY <1>2, <2>2 DEF Parse
    <3>2. info.boots \in Nat /\ info = [firmware |-> info.firmware, current |-> info.current,
            total |-> info.total, boots |-> info.boots, connections |-> info.connections]
      BY <1>1 DEF Infos
    <3>3. info' = [firmware |-> Head(stream).of, current |-> info.current, total |-> info.total,
                   boots |-> info.boots + 1, connections |-> info.connections]
      BY <3>1, <3>2
    <3>4. Head(stream).of \in SVS
      BY <2>1, LineTypes
    <3> QED
      BY <1>1, <3>3, <3>4 DEF Infos
  <2>3. CASE Head(stream).kind # "banner"
    <3>1. Head(stream).input \in Nat /\ Inputs[Head(stream).of] \in Nat
      <4>1. Head(stream).of \in SVS /\ Head(stream).input \in 0..Inputs[Head(stream).of]
        BY <2>1, <2>3, LineTypes
      <4> QED
        BY <4>1, InputsAssumption
    <3> QED
      BY <1>1, <1>2, <2>3, <3>1 DEF Parse, Infos
  <2> QED
    BY <2>2, <2>3
<1>3. CASE Publish
  BY <1>1, <1>3 DEF Publish, Infos
<1>4. CASE Forget
  BY <1>1, <1>4 DEF Forget, ForgetInto, Blank, Infos, Unknown
<1>5. ASSUME NEW deliberate \in BOOLEAN, Restart(deliberate) PROVE info' \in Infos
  BY <1>5 DEF Restart, Blank, Infos, Unknown
<1>6. CASE UNCHANGED info
  BY <1>1, <1>6
<1> QED
  BY <1>2, <1>3, <1>4, <1>5, <1>6
     DEF Next, People, DeviceTask, vars, Plug, Unplug, Select, RestartSvs, RawBegin, RawLines,
         RestartedSvs, RawEnd, ComeUp, Report, TakeNew, Open, WaitFirst, Remember, Pulse,
         Release, WaitSecond, Restore, WaitGone

\* What is plugged in, and what it shows
PortOK ==
  /\ port \in SVS \cup Others \cup {Nobody}
  /\ screen \in IF port \in SVS THEN 0..Inputs[port] ELSE {0}
  /\ booting \in BOOLEAN /\ (booting => port \in SVS)

LEMMA PortStep ==
  ASSUME IInv, [Next]_vars
  PROVE  PortOK'
<1> USE DevicesAssumption, InputsAssumption DEF svsVars
<1>1. PortOK /\ (alive => port \in SVS) /\ prev \in Nat \cup {Unknown}
  BY DEF IInv, TypeOK, Handle, PortOK
<1>2. ASSUME NEW d \in SVS \cup Others, Plug(d) PROVE PortOK'
  BY <1>2 DEF Plug, PortOK
<1>3. CASE Unplug
  BY <1>3 DEF Unplug, PortOK
<1>4. ASSUME NEW n \in 0..MaxInputs, Select(n) PROVE PortOK'
  BY <1>1, <1>4 DEF Select, PortOK
<1>5. CASE ComeUp
  BY <1>1, <1>5 DEF ComeUp, PortOK
<1>6. CASE Restore
  BY <1>1, <1>6 DEF Restore, PortOK, Unknown
<1>7. CASE alive /\ booting' \in BOOLEAN /\ UNCHANGED <<port, screen>>
  BY <1>1, <1>7 DEF PortOK
<1>8. CASE UNCHANGED <<port, screen, booting>>
  BY <1>1, <1>8 DEF PortOK
<1>9. booting \in BOOLEAN /\ dtr \in BOOLEAN
  BY DEF IInv, TypeOK
<1>10. ASSUME NEW on \in BOOLEAN, NEW left, SetLinesFails(on, left) \/ SetDtr(on)
       PROVE  booting' \in BOOLEAN
  BY <1>9, <1>10 DEF SetLinesFails, SetDtr
<1>11. ASSUME NEW left, ReleaseDtr(left) PROVE (alive /\ booting' \in BOOLEAN) \/ UNCHANGED booting
  BY <1>10, <1>11 DEF ReleaseDtr
<1>12. CASE RestartedSvs \/ RawEnd \/ Release
  BY <1>7, <1>8, <1>11, <1>12 DEF RestartedSvs, RawEnd, Release
<1>13. CASE RestartSvs \/ Pulse \/ \E on \in BOOLEAN : RawLines(on)
  BY <1>7, <1>8, <1>10, <1>13 DEF RestartSvs, Pulse, RawLines
<1> QED
  BY <1>2, <1>3, <1>4, <1>5, <1>6, <1>8, <1>12, <1>13
     DEF Next, People, DeviceTask, vars, RawBegin, Restart, Report, Parse, TakeNew, Open,
         Publish, WaitFirst, Remember, WaitSecond, WaitGone, Forget, ForgetInto

\* The counters, flags and places of the parties
OtherOK ==
  /\ gone \in BOOLEAN /\ alive \in BOOLEAN /\ raw \in BOOLEAN
  /\ newDevs \in 0..NewDevsSize
  /\ opened \in SVS \cup {Nobody} /\ dev \in {opened, Nobody}
  /\ restartOnBoot \in BOOLEAN
  /\ pc \in Steps
  /\ boots \in Nat /\ prev \in Nat \cup {Unknown}
  /\ web \in {"idle", "release"}

LEMMA OtherStep ==
  ASSUME IInv, [Next]_vars
  PROVE  OtherOK'
<1> USE SizesAssumption DEF svsVars, usbVars, taskVars
<1>0. OtherOK /\ info \in Infos /\ dev = (IF pc \in Held \ {"publish"} THEN opened ELSE Nobody)
  BY DEF IInv, TypeOK, OtherOK, Handle
<1>1. CASE UNCHANGED vars
  BY <1>0, <1>1 DEF OtherOK, Steps, vars
<1>2. ASSUME NEW d \in SVS \cup Others, Plug(d) PROVE OtherOK'
  <2>1. newDevs' \in 0..NewDevsSize
    BY <1>0, <1>2 DEF OtherOK, Plug, Act, NewDevice
  <2>2. UNCHANGED <<gone, taskVars, info, raw, web>>
    BY <1>2 DEF Plug
  <2> QED
    BY <1>0, <2>1, <2>2 DEF OtherOK
<1>3. ASSUME NEW n \in 0..MaxInputs, Select(n) PROVE OtherOK'
  BY <1>0, <1>3 DEF OtherOK, Steps, Select, Act
<1>4. ASSUME NEW on \in BOOLEAN, RawLines(on) PROVE OtherOK'
  BY <1>0, <1>4 DEF OtherOK, Steps, RawLines, Act, SetDtr, SetLinesFails
<1>5. ASSUME NEW deliberate \in BOOLEAN, Restart(deliberate) PROVE OtherOK'
  <2>1. newDevs' \in 0..NewDevsSize
    BY <1>0, <1>5 DEF OtherOK, Restart, Act
  <2>2. restartOnBoot' \in BOOLEAN
    BY <1>5, Zenon DEF Restart
  <2> QED
    BY <1>5, <2>1, <2>2 DEF OtherOK, Steps, Unknown, Restart
<1>6. CASE ComeUp
  BY <1>0, <1>6 DEF OtherOK, Steps, ComeUp, Sends, Heard
<1>7. CASE Report
  BY <1>0, <1>7 DEF OtherOK, Steps, Report, Sends, Heard
<1>8. CASE Unplug
  <2>1. gone' \in BOOLEAN /\ alive' = FALSE
    BY <1>8, Zenon DEF Unplug
  <2>2. UNCHANGED <<newDevs, opened, dev, raw, restartOnBoot, pc, boots, prev, web>>
    BY <1>0, <1>8 DEF OtherOK, Unplug, Act
  <2> QED
    BY <1>0, <2>1, <2>2 DEF OtherOK
<1>9. CASE RestartSvs
  <2>1. web' \in {"idle", "release"}
        /\ UNCHANGED <<usbVars, taskVars, info, raw>>
    BY <1>0, <1>9 DEF OtherOK, RestartSvs, Act, SetDtr, SetLinesFails
  <2> QED
    BY <1>0, <2>1 DEF OtherOK
<1>10. CASE RawBegin
  BY <1>0, <1>10 DEF OtherOK, Steps, RawBegin, Act
<1>11. CASE RestartedSvs
  <2>1. web' = "idle" /\ UNCHANGED <<usbVars, taskVars, raw>>
    BY <1>11 DEF RestartedSvs
  <2> QED
    BY <1>0, <2>1 DEF OtherOK
<1>12. CASE RawEnd
  <2>1. raw' = FALSE /\ UNCHANGED <<usbVars, taskVars, web>>
    BY <1>12 DEF RawEnd
  <2> QED
    BY <1>0, <2>1 DEF OtherOK
<1>13. CASE Parse
  <2>1. UNCHANGED <<newDevs, gone, taskVars, raw, web>>
    BY <1>13 DEF Parse
  <2> QED
    BY <1>0, <2>1 DEF OtherOK
<1>14. CASE TakeNew
  BY <1>0, <1>14 DEF OtherOK, Steps, TakeNew, Goto
<1>15. CASE Open
  <2>1. CASE port \in SVS
    BY <1>0, <1>15, <2>1 DEF OtherOK, Held, Steps, Open, Goto
  <2>2. CASE port \notin SVS
    BY <1>0, <1>15, <2>2 DEF OtherOK, Steps, Open, Goto
  <2> QED
    BY <2>1, <2>2
<1>16. CASE Publish
  BY <1>0, <1>16 DEF OtherOK, Steps, Infos, Publish, Goto
<1>17. CASE WaitFirst
  BY <1>0, <1>17 DEF OtherOK, Steps, WaitFirst, Goto
<1>18. CASE Remember
  BY <1>0, <1>18 DEF OtherOK, Steps, Infos, Remember, Goto
<1>19. CASE Pulse
  BY <1>0, <1>19 DEF OtherOK, Steps, Pulse, Goto, SetDtr, SetLinesFails
<1>20. CASE Release
  BY <1>0, <1>20 DEF OtherOK, Steps, Release, Goto, ReleaseDtr, SetLinesFails, SetDtr
<1>21. CASE WaitSecond
  BY <1>0, <1>21 DEF OtherOK, Steps, WaitSecond, Goto
<1>22. CASE Restore
  BY <1>0, <1>22 DEF OtherOK, Steps, Restore, Goto
<1>23. CASE WaitGone
  BY <1>0, <1>23 DEF OtherOK, Steps, WaitGone, Goto
<1>24. CASE Forget
  BY <1>0, <1>24 DEF OtherOK, Steps, Held, Unknown, Forget, ForgetInto, Goto, Blank
<1> QED
  BY <1>1, <1>2, <1>3, <1>4, <1>5, <1>6, <1>7, <1>8, <1>9, <1>10, <1>11, <1>12,
     <1>13, <1>14, <1>15, <1>16, <1>17, <1>18, <1>19, <1>20, <1>21, <1>22, <1>23, <1>24
     DEF Next, People, DeviceTask

\* The bound on what people do, the lines, and what failed or was told
LinesOK ==
  /\ acts \in 0..MaxActs
  /\ dtr \in BOOLEAN
  /\ failed \subseteq Failures /\ told \subseteq Sources

LEMMA LinesStep ==
  ASSUME IInv, [Next]_vars
  PROVE  LinesOK'
<1> USE SizesAssumption DEF svsVars
<1>0. LinesOK
  BY DEF IInv, TypeOK, LinesOK
<1>1. acts' \in 0..MaxActs
  <2>1. Act \/ UNCHANGED acts
    BY DEF Next, People, DeviceTask, vars, Plug, Unplug, Select, RestartSvs, SetLinesFails,
           RawBegin, RawLines, Restart, ReleaseDtr, RestartedSvs, RawEnd, ComeUp, Report,
           Parse, TakeNew, Open, Publish, WaitFirst, Remember, Pulse, Release, WaitSecond,
           Restore, WaitGone, Forget, ForgetInto
  <2> QED
    BY <1>0, <2>1 DEF LinesOK, Act
<1>2. told' \subseteq Sources
  <2>1. told' \in {told, told \cup {"banner"}, {}, {"rest"}}
    BY DEF Next, People, DeviceTask, vars, Plug, Unplug, Select, RestartSvs, RawBegin, RawLines,
           Restart, RestartedSvs, RawEnd, ComeUp, Report, Parse, TakeNew, Open, Publish,
           WaitFirst, Remember, Pulse, Release, WaitSecond, Restore, WaitGone, Forget, ForgetInto
  <2> QED
    BY <1>0, <2>1 DEF LinesOK, Sources
<1>3. ASSUME NEW on \in BOOLEAN, NEW left \in SUBSET Failures, SetLinesFails(on, left)
      PROVE  dtr' \in BOOLEAN /\ failed' \subseteq Failures
  BY <1>0, <1>3 DEF LinesOK, SetLinesFails, SetDtr, Failures
<1>4. CASE UNCHANGED <<dtr, failed>>
  BY <1>0, <1>1, <1>2, <1>4 DEF LinesOK
<1>5. ASSUME NEW left \in SUBSET Failures, ReleaseDtr(left)
      PROVE  LinesOK'
  <2>1. dtr' \in BOOLEAN /\ failed' \subseteq Failures
    BY <1>0, <1>3, <1>5 DEF ReleaseDtr, SetDtr, LinesOK
  <2> QED
    BY <1>1, <1>2, <2>1 DEF LinesOK
<1>6. ASSUME NEW d \in SVS \cup Others, Plug(d) PROVE LinesOK'
  BY <1>0, <1>1, <1>2, <1>6 DEF LinesOK, Plug
<1>7. CASE Unplug
  BY <1>0, <1>1, <1>2, <1>7 DEF LinesOK, Unplug
<1>8. CASE RestartSvs
  <2>1. dtr' \in BOOLEAN /\ failed' \subseteq Failures
    BY <1>0, <1>3, <1>8 DEF RestartSvs, SetDtr, LinesOK
  <2> QED
    BY <1>1, <1>2, <2>1 DEF LinesOK
<1>9. ASSUME NEW on \in BOOLEAN, RawLines(on) PROVE LinesOK'
  BY <1>0, <1>1, <1>2, <1>9 DEF LinesOK, RawLines, SetDtr
<1>10. CASE RawEnd
  <2>1. CASE ReleaseDtr(failed \ {"rate"})
    BY <1>0, <1>5, <2>1 DEF LinesOK
  <2>2. CASE dtr' = FALSE /\ failed' = (failed \ {"lines"}) \cup {"rate"}
    BY <1>0, <1>1, <1>2, <2>2 DEF LinesOK, Failures
  <2> QED
    BY <1>10, <2>1, <2>2 DEF RawEnd
<1>11. ASSUME NEW deliberate \in BOOLEAN, Restart(deliberate) PROVE LinesOK'
  BY <1>0, <1>1, <1>2, <1>11 DEF LinesOK, Restart
<1>12. CASE Open
  <2>1. dtr' \in BOOLEAN
    BY <1>0, <1>12 DEF Open, LinesOK
  <2>2. failed' \subseteq Failures
    BY <1>0, <1>12 DEF Open, LinesOK, Failures
  <2> QED
    BY <1>1, <1>2, <2>1, <2>2 DEF LinesOK
<1>13. CASE Pulse
  <2>1. dtr' \in BOOLEAN /\ failed' \subseteq Failures
    BY <1>0, <1>3, <1>13 DEF Pulse, SetDtr, LinesOK
  <2> QED
    BY <1>1, <1>2, <2>1 DEF LinesOK
<1>14. CASE RestartedSvs \/ Release
  BY <1>0, <1>5, <1>14 DEF RestartedSvs, Release, LinesOK
<1> QED
  BY <1>4, <1>6, <1>7, <1>8, <1>9, <1>10, <1>11, <1>12, <1>13, <1>14
     DEF Next, People, DeviceTask, vars, Select, RawBegin, ComeUp, Report, Parse, TakeNew,
         Publish, WaitFirst, Remember, WaitSecond, Restore, WaitGone,
         Forget, ForgetInto

LEMMA TypeStep ==
  ASSUME IInv, [Next]_vars
  PROVE  TypeOK'
<1>1. (stream \in Seq(Lines) /\ Len(stream) <= StreamSize)' /\ (info \in Infos)'
      /\ PortOK' /\ OtherOK' /\ LinesOK'
  BY StreamStep, InfoStep, PortStep, OtherStep, LinesStep
<1> QED
  BY <1>1 DEF TypeOK, PortOK, OtherOK, LinesOK

\* Every step keeps handle, s_dev and semaphore together.
LEMMA HandleStep ==
  ASSUME IInv, [Next]_vars
  PROVE  Handle'
<1> USE DevicesAssumption DEF IInv, TypeOK, svsVars, usbVars, taskVars
<1>1. CASE UNCHANGED vars
  BY <1>1 DEF Handle, GoneIsOpened, Held, vars
<1>2. ASSUME NEW d \in SVS \cup Others, Plug(d) PROVE Handle'
  BY <1>2 DEF Handle, GoneIsOpened, Held, Plug, Act, NewDevice
<1>3. ASSUME NEW n \in 0..MaxInputs, Select(n) PROVE Handle'
  BY <1>3 DEF Handle, GoneIsOpened, Held, Select, Act
<1>4. ASSUME NEW on \in BOOLEAN, RawLines(on) PROVE Handle'
  BY <1>4 DEF Handle, GoneIsOpened, Held, RawLines, Act, SetDtr, SetLinesFails
<1>5. ASSUME NEW deliberate \in BOOLEAN, Restart(deliberate) PROVE Handle'
  BY <1>5 DEF Handle, GoneIsOpened, Held, Restart, Act, Blank
<1>6. CASE ComeUp
  BY <1>6 DEF Handle, GoneIsOpened, Held, ComeUp, Sends, Heard
<1>7. CASE Report
  BY <1>7 DEF Handle, GoneIsOpened, Held, Report, Sends, Heard
<1>8. CASE Unplug
  BY <1>8 DEF Handle, GoneIsOpened, Held, Unplug, Act
<1>9. CASE RestartSvs
  BY <1>9 DEF Handle, GoneIsOpened, Held, RestartSvs, Act, SetDtr, SetLinesFails
<1>10. CASE RawBegin
  BY <1>10 DEF Handle, GoneIsOpened, Held, RawBegin, Act
<1>11. CASE RestartedSvs
  BY <1>11 DEF Handle, GoneIsOpened, Held, RestartedSvs, ReleaseDtr, SetLinesFails, SetDtr
<1>12. CASE RawEnd
  BY <1>12 DEF Handle, GoneIsOpened, Held, RawEnd, ReleaseDtr, SetLinesFails, SetDtr
<1>13. CASE Parse
  BY <1>13 DEF Handle, GoneIsOpened, Held, Parse
<1>14. CASE TakeNew
  BY <1>14 DEF Handle, GoneIsOpened, Held, TakeNew, Goto
<1>15. CASE Open
  BY <1>15 DEF Handle, GoneIsOpened, Held, Open, Goto
<1>16. CASE Publish
  BY <1>16 DEF Handle, GoneIsOpened, Held, Publish, Goto
<1>17. CASE WaitFirst
  BY <1>17 DEF Handle, GoneIsOpened, Held, WaitFirst, Goto
<1>18. CASE Remember
  BY <1>18 DEF Handle, GoneIsOpened, Held, Remember, Goto
<1>19. CASE Pulse
  BY <1>19 DEF Handle, GoneIsOpened, Held, Pulse, Goto, SetDtr, SetLinesFails
<1>20. CASE Release
  BY <1>20 DEF Handle, GoneIsOpened, Held, Release, Goto, ReleaseDtr, SetLinesFails, SetDtr
<1>21. CASE WaitSecond
  BY <1>21 DEF Handle, GoneIsOpened, Held, WaitSecond, Goto
<1>22. CASE Restore
  BY <1>22 DEF Handle, GoneIsOpened, Held, Restore, Goto
<1>23. CASE WaitGone
  BY <1>23 DEF Handle, GoneIsOpened, Held, WaitGone, Goto
<1>24. CASE Forget
  BY <1>24 DEF Handle, GoneIsOpened, Held, Forget, ForgetInto, Goto, Blank
<1> QED
  BY <1>1, <1>2, <1>3, <1>4, <1>5, <1>6, <1>7, <1>8, <1>9, <1>10, <1>11, <1>12,
     <1>13, <1>14, <1>15, <1>16, <1>17, <1>18, <1>19, <1>20, <1>21, <1>22, <1>23, <1>24
     DEF Next, People, DeviceTask

\* Whoever asserts DTR has s_dev and releases it.
LEMMA AssertedStep ==
  ASSUME IInv, [Next]_vars
  PROVE  Asserted'
<1> USE DEF IInv, Handle, GoneIsOpened, Held, svsVars, usbVars, taskVars
<1>1. CASE UNCHANGED vars
  BY <1>1 DEF Asserted, DtrReleased, vars
<1>2. ASSUME NEW d \in SVS \cup Others, Plug(d) PROVE Asserted'
  BY <1>2 DEF Asserted, DtrReleased, Plug, Act, NewDevice
<1>3. ASSUME NEW n \in 0..MaxInputs, Select(n) PROVE Asserted'
  BY <1>3 DEF Asserted, DtrReleased, Select, Act
<1>4. ASSUME NEW on \in BOOLEAN, RawLines(on) PROVE Asserted'
  BY <1>4 DEF Asserted, DtrReleased, RawLines, Act, SetDtr, SetLinesFails
<1>5. ASSUME NEW deliberate \in BOOLEAN, Restart(deliberate) PROVE Asserted'
  BY <1>5 DEF Asserted, DtrReleased, Restart, Act, Blank
<1>6. CASE ComeUp
  BY <1>6 DEF Asserted, DtrReleased, ComeUp, Sends, Heard
<1>7. CASE Report
  BY <1>7 DEF Asserted, DtrReleased, Report, Sends, Heard
<1>8. CASE Unplug
  BY <1>8 DEF Asserted, DtrReleased, Unplug, Act
<1>9. CASE RestartSvs
  BY <1>9 DEF Asserted, DtrReleased, RestartSvs, Act, SetDtr, SetLinesFails
<1>10. CASE RawBegin
  BY <1>10 DEF Asserted, DtrReleased, RawBegin, Act
<1>11. CASE RestartedSvs
  BY <1>11 DEF Asserted, DtrReleased, RestartedSvs, ReleaseDtr, SetLinesFails, SetDtr
<1>12. CASE RawEnd
  BY <1>12 DEF Asserted, DtrReleased, RawEnd, ReleaseDtr, SetLinesFails, SetDtr
<1>13. CASE Parse
  BY <1>13 DEF Asserted, DtrReleased, Parse
<1>14. CASE TakeNew
  BY <1>14 DEF Asserted, DtrReleased, TakeNew, Goto
<1>15. CASE Open
  BY <1>15 DEF Asserted, DtrReleased, Open, Goto
<1>16. CASE Publish
  BY <1>16 DEF Asserted, DtrReleased, Publish, Goto
<1>17. CASE WaitFirst
  BY <1>17 DEF Asserted, DtrReleased, WaitFirst, Goto
<1>18. CASE Remember
  BY <1>18 DEF Asserted, DtrReleased, Remember, Goto
<1>19. CASE Pulse
  BY <1>19 DEF Asserted, DtrReleased, Pulse, Goto, SetDtr, SetLinesFails
<1>20. CASE Release
  BY <1>20 DEF Asserted, DtrReleased, Release, Goto, ReleaseDtr, SetLinesFails, SetDtr
<1>21. CASE WaitSecond
  BY <1>21 DEF Asserted, DtrReleased, WaitSecond, Goto
<1>22. CASE Restore
  BY <1>22 DEF Asserted, DtrReleased, Restore, Goto
<1>23. CASE WaitGone
  BY <1>23 DEF Asserted, DtrReleased, WaitGone, Goto
<1>24. CASE Forget
  BY <1>24 DEF Asserted, DtrReleased, Forget, ForgetInto, Goto, Blank
<1> QED
  BY <1>1, <1>2, <1>3, <1>4, <1>5, <1>6, <1>7, <1>8, <1>9, <1>10, <1>11, <1>12,
     <1>13, <1>14, <1>15, <1>16, <1>17, <1>18, <1>19, <1>20, <1>21, <1>22, <1>23, <1>24
     DEF Next, People, DeviceTask

\* The buffer still holds what the SVS that is open said, and nothing else.
LEMMA StreamOwnStep ==
  ASSUME IInv, [Next]_vars, StreamOwn, UNCHANGED opened
  PROVE  StreamOwn'
<1>1. stream \in Seq(Lines) /\ (alive => opened = port)
  BY DEF IInv, TypeOK, Handle
<1>2. ASSUME NEW line, line.of = port, Sends(line)
      PROVE  StreamOwn'
  <2>1. CASE stream' = stream
    BY <2>1 DEF StreamOwn
  <2>2. CASE alive /\ stream' = Append(stream, line)
    <3>1. ASSUME NEW i \in DOMAIN stream' PROVE stream'[i].of = opened
      <4>1. CASE i \in DOMAIN stream
        BY <1>1, <2>2, <4>1 DEF StreamOwn
      <4>2. CASE i = Len(stream) + 1
        BY <1>1, <1>2, <2>2, <4>2
      <4> QED
        BY <1>1, <2>2, <3>1, <4>1, <4>2
    <3> QED
      BY <3>1 DEF StreamOwn
  <2> QED
    BY <1>2, <2>1, <2>2 DEF Sends, Heard
<1>3. CASE ComeUp
  BY <1>2, <1>3 DEF ComeUp
<1>4. CASE Report
  BY <1>2, <1>4 DEF Report
<1>5. CASE stream # <<>> /\ stream' = Tail(stream)
  <2>1. ASSUME NEW i \in DOMAIN stream' PROVE stream'[i].of = opened
    <3>1. i \in 1..Len(stream) - 1 /\ stream'[i] = stream[i + 1]
      BY <1>1, <1>5, <2>1
    <3>2. i + 1 \in DOMAIN stream
      BY <1>1, <3>1
    <3> QED
      BY <3>1, <3>2 DEF StreamOwn
  <2> QED
    BY <2>1 DEF StreamOwn
<1>6. CASE stream' = <<>>
  BY <1>6 DEF StreamOwn
<1>7. CASE UNCHANGED stream
  BY <1>7 DEF StreamOwn
<1> QED
  BY <1>3, <1>4, <1>5, <1>6, <1>7
     DEF Next, People, DeviceTask, vars, usbVars, Plug, Unplug, Select, RestartSvs, RawBegin,
         RawLines, Restart, RestartedSvs, RawEnd, Parse, TakeNew, Open, Publish, WaitFirst,
         Remember, Pulse, Release, WaitSecond, Restore, WaitGone, Forget, ForgetInto

\* What rx_print_task takes from such a buffer into such an s_info
LEMMA ParseOwn ==
  ASSUME IInv, Parse, StreamOwn, InfoOwn
  PROVE  InfoOwn' /\ (BannerOwn => BannerOwn')
<1> DEFINE line == Head(stream)
<1>1. line \in Lines /\ line.of = opened /\ UNCHANGED <<opened, boots>>
  BY DEF Parse, IInv, TypeOK, StreamOwn, taskVars
<1>2. /\ line.kind \in {"banner", "status"}
      /\ opened \in SVS
      /\ line.kind = "status" => line.input \in 0..Inputs[opened]
  BY <1>1, LineTypes
<1>3. info \in Infos /\ Inputs[opened] \in Nat /\ boots \in Nat
  BY <1>2, InputsAssumption DEF IInv, TypeOK
<1>4. CASE line.kind = "banner"
  <2>1. info' = [info EXCEPT !.firmware = opened, !.boots = @ + 1]
    BY <1>1, <1>4 DEF Parse
  <2>2. info'.firmware = opened /\ info'.total = info.total /\ info'.current = info.current
    BY <1>3, <2>1 DEF Infos
  <2> QED
    BY <1>1, <2>2 DEF InfoOwn, BannerOwn
<1>5. CASE line.kind = "status"
  <2>1. info' = [info EXCEPT !.current = line.input, !.total = Inputs[opened]]
    BY <1>1, <1>5 DEF Parse
  <2>2. /\ info'.firmware = info.firmware /\ info'.boots = info.boots
        /\ info'.total = Inputs[opened] /\ info'.current = line.input
    BY <1>3, <2>1 DEF Infos
  <2>3. line.input <= Inputs[opened]
    BY <1>2, <1>3, <1>5
  <2> QED
    BY <1>1, <1>2, <2>2, <2>3 DEF InfoOwn, BannerOwn, Banner
<1> QED
  BY <1>2, <1>4, <1>5

\* Before the first SVS is open nothing was said.
LEMMA NothingSaid ==
  ASSUME IInv, StreamOwn, InfoOwn, opened = Nobody
  PROVE  stream = <<>> /\ info.firmware = Nobody /\ info.total = Unknown
         /\ info.current = Unknown
<1>1. \A i \in DOMAIN stream : stream[i] \in Lines
  BY DEF IInv, TypeOK
<1>2. DOMAIN stream = {}
  BY <1>1, LineTypes, DevicesAssumption DEF StreamOwn
<1>3. stream \in Seq(Lines)
  BY DEF IInv, TypeOK
<1>4. stream = <<>>
  BY <1>2, <1>3
<1> QED
  BY <1>4, DevicesAssumption DEF InfoOwn

\* Every step up to the end of the restart at boot leaves the SVS's own words.
LEMMA FirstOnlyStep ==
  ASSUME IInv, [Next]_vars
  PROVE  FirstOnly'
<1> USE DEF Restarting
<1>0. FirstOnly /\ info \in Infos /\ pc \in Steps /\ restartOnBoot \in BOOLEAN
  BY DEF IInv, TypeOK
<1>1. CASE UNCHANGED <<info, opened, restartOnBoot, pc, boots, prev>>
  <2>1. StreamOwn => StreamOwn'
    BY <1>1, StreamOwnStep
  <2>2. (InfoOwn => InfoOwn') /\ (BannerOwn => BannerOwn') /\ (PrevOwn => PrevOwn')
    BY <1>1 DEF InfoOwn, BannerOwn, Banner, PrevOwn
  <2> QED
    BY <1>0, <1>1, <2>1, <2>2 DEF FirstOnly
<1>2. ASSUME NEW deliberate \in BOOLEAN, Restart(deliberate) PROVE FirstOnly'
  <2>1. stream' = <<>> /\ info' = Blank(0) /\ opened' = Nobody /\ pc' = "idle"
        /\ prev' = Unknown
    BY <1>2 DEF Restart
  <2>2. StreamOwn' /\ InfoOwn'
    BY <2>1 DEF StreamOwn, InfoOwn, Blank
  <2> QED
    BY <2>1, <2>2 DEF FirstOnly
<1>3. CASE Parse
  <2>1. UNCHANGED <<opened, restartOnBoot, pc, boots, prev>>
    BY <1>3 DEF Parse, taskVars
  <2>2. StreamOwn /\ InfoOwn => StreamOwn' /\ InfoOwn' /\ (BannerOwn => BannerOwn')
    BY <1>3, <2>1, StreamOwnStep, ParseOwn
  <2>3. PrevOwn => PrevOwn'
    BY <2>1 DEF PrevOwn
  <2> QED
    BY <1>0, <2>1, <2>2, <2>3 DEF FirstOnly
<1>4. CASE TakeNew
  <2>1. UNCHANGED <<info, opened, restartOnBoot, boots, prev, stream>> /\ pc' = "open"
        /\ pc = "idle"
    BY <1>4 DEF TakeNew, Goto
  <2>2. (StreamOwn => StreamOwn') /\ (InfoOwn => InfoOwn')
    BY <2>1 DEF StreamOwn, InfoOwn
  <2> QED
    BY <1>0, <2>1, <2>2 DEF FirstOnly
<1>5. CASE Open
  <2>1. /\ UNCHANGED <<info, restartOnBoot, boots, prev, stream>>
        /\ pc = "open" /\ pc' \in {"idle", "publish"}
        /\ opened' = opened \/ opened' \in SVS
    BY <1>5 DEF Open, Goto, usbVars
  <2>2. opened = Nobody
    BY <2>1 DEF IInv, Handle, Held
  <2>3. StreamOwn /\ InfoOwn => StreamOwn' /\ InfoOwn'
    <3> SUFFICES ASSUME StreamOwn, InfoOwn PROVE StreamOwn' /\ InfoOwn'
      OBVIOUS
    <3>1. stream = <<>> /\ info.firmware = Nobody /\ info.total = Unknown
          /\ info.current = Unknown
      BY <2>2, NothingSaid
    <3> QED
      BY <2>1, <3>1 DEF StreamOwn, InfoOwn
  <2> QED
    BY <1>0, <2>1, <2>3 DEF FirstOnly
<1>6. CASE Publish
  <2>1. /\ UNCHANGED <<opened, prev, stream>>
        /\ pc = "publish" /\ boots' = info.boots /\ restartOnBoot' = FALSE
        /\ pc' = IF restartOnBoot THEN "first" ELSE "connected"
        /\ info' = [info EXCEPT !.connections = @ + 1]
    BY <1>6 DEF Publish, Goto, usbVars
  <2>2. /\ info'.firmware = info.firmware /\ info'.total = info.total
        /\ info'.current = info.current /\ info'.boots = info.boots
    BY <1>0, <2>1 DEF Infos
  <2>3. (StreamOwn => StreamOwn') /\ (InfoOwn => InfoOwn') /\ BannerOwn'
    BY <2>1, <2>2 DEF StreamOwn, InfoOwn, BannerOwn, Banner
  <2>4. prev' = Unknown
    BY <1>0, <2>1 DEF FirstOnly
  <2> QED
    BY <1>0, <2>1, <2>3, <2>4 DEF FirstOnly, PrevOwn
<1>7. CASE Remember
  <2>1. /\ UNCHANGED <<info, opened, restartOnBoot, boots, stream>>
        /\ pc = "remember" /\ pc' = "pulse" /\ prev' = info.current
    BY <1>7 DEF Remember, Goto, usbVars
  <2>2. StreamOwn' /\ InfoOwn' /\ BannerOwn'
    BY <1>0, <2>1 DEF FirstOnly, StreamOwn, InfoOwn, BannerOwn, Banner
  <2>3. PrevOwn'
    BY <1>0, <2>1 DEF FirstOnly, InfoOwn, PrevOwn
  <2> QED
    BY <1>0, <2>1, <2>2, <2>3 DEF FirstOnly
<1>8. CASE Forget
  <2>1. /\ pc = "forget" /\ pc' = "idle" /\ prev' = Unknown
        /\ UNCHANGED restartOnBoot
    BY <1>8 DEF Forget, ForgetInto, Goto
  <2> QED
    BY <1>0, <2>1 DEF FirstOnly
<1>9. CASE /\ UNCHANGED <<info, opened, restartOnBoot, boots, prev, stream>>
           /\ pc \in Restarting /\ pc' \in (Restarting \ {"first"}) \cup {"connected"}
  <2>1. StreamOwn' /\ InfoOwn' /\ BannerOwn' /\ PrevOwn'
    BY <1>0, <1>9 DEF FirstOnly, StreamOwn, InfoOwn, BannerOwn, Banner, PrevOwn
  <2> QED
    BY <1>0, <1>9, <2>1 DEF FirstOnly
<1>10. CASE WaitFirst \/ Pulse \/ Release \/ WaitSecond \/ Restore
  BY <1>9, <1>10 DEF WaitFirst, Pulse, Release, WaitSecond, Restore, Goto, usbVars
<1>11. CASE WaitGone
  <2>1. /\ UNCHANGED restartOnBoot /\ pc = "connected" /\ pc' = "forget"
    BY <1>11 DEF WaitGone, Goto
  <2> QED
    BY <1>0, <2>1 DEF FirstOnly
<1> QED
  BY <1>1, <1>2, <1>3, <1>4, <1>5, <1>6, <1>7, <1>8, <1>10, <1>11
     DEF Next, People, DeviceTask, vars, taskVars, Plug, Unplug, Select, RestartSvs, RawBegin,
         RawLines, RestartedSvs, RawEnd, ComeUp, Report

LEMMA IInvHolds == Spec => []IInv
<1>1. Init => IInv
  BY InitIInv
<1>2. IInv /\ [Next]_vars => IInv'
  <2> SUFFICES ASSUME IInv, [Next]_vars PROVE IInv'
    OBVIOUS
  <2>1. TypeOK' /\ Handle' /\ Asserted' /\ FirstOnly'
    BY TypeStep, HandleStep, AssertedStep, FirstOnlyStep
  <2> QED
    BY <2>1 DEF IInv
<1> QED
  BY <1>1, <1>2, PTL DEF Spec

\* Every variable of the link keeps its type, and the buffer its size.
THEOREM UsbTypeCorrect == Spec => []TypeOK
<1>1. IInv => TypeOK
  BY DEF IInv
<1> QED
  BY <1>1, IInvHolds, PTL

\* device_task: the loss of the SVS that is open is always noticed, and none
\* is ever taken for the loss of a later one.
THEOREM LossIsNoticed == Spec => []GoneIsOpened
<1>1. IInv => GoneIsOpened
  BY DEF IInv, Handle
<1> QED
  BY <1>1, IInvHolds, PTL

\* do_restart_svs and raw_end: DTR never stays asserted with nobody left to
\* release it, however restarts, sessions and unplugging overlap.
THEOREM DtrAlwaysReleased == Spec => []DtrReleased
<1>1. IInv => DtrReleased
  BY DEF IInv, Asserted
<1> QED
  BY <1>1, IInvHolds, PTL

\* device_task: nothing but what the SVS said that is being restarted reaches the
\* decisions of the restart at boot, however devices came and went before.
THEOREM RestartIsItsOwn == Spec => []RestartGoesByOwn
<1>1. IInv => RestartGoesByOwn
  <2> SUFFICES ASSUME IInv, pc \in Restarting
               PROVE  /\ StreamOwn /\ info.firmware \in {opened, Nobody}
                      /\ (Banner => info.firmware = opened)
                      /\ info.total \in {Inputs[opened], Unknown}
                      /\ info.current <= Inputs[opened] /\ prev <= Inputs[opened]
    BY DEF RestartGoesByOwn, Restarting, StreamOwn
  <2>1. StreamOwn /\ InfoOwn /\ BannerOwn /\ PrevOwn
    BY DEF IInv, FirstOnly
  <2>2. opened \in SVS
    BY DEF IInv, TypeOK, Handle, Held, Restarting
  <2>3. Inputs[opened] \in Nat
    BY <2>2, InputsAssumption
  <2> QED
    BY <2>1, <2>2, <2>3 DEF InfoOwn, BannerOwn, PrevOwn, Unknown
<1> QED
  BY <1>1, IInvHolds, PTL
=============================================================================
