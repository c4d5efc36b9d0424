-------------------------- MODULE SvsFlasherProofs --------------------------
(***************************************************************************)
(* Proofs about SvsFlasher, for any number of SVSs, bootloaders, pages,     *)
(* images and reconnections.                                               *)
(***************************************************************************)
EXTENDS SvsFlasher, TLAPS

(***************************************************************************)
(* The inductive invariant.  Its parts say what each party may rely on      *)
(* while the others move.                                                  *)
(***************************************************************************)

\* The handle, the bootloader's mode and raw mode. A chip that is in its
\* bootloader was put there through the handle that is still open.
Link ==
  /\ alive => dev = port /\ port \in SVS
  /\ mode = "boot" => alive \/ (dev = NoSvs /\ task = "Idle")
  /\ RawHasOwner
  /\ task = "Idle" <=> pc = "idle"

\* A flashable device is described by the bootloader kept with it.
Describes(d, b) ==
  d.compatible => Compatible(b) /\ d.space = b.space /\ d.vector = Vector(b)

\* A start_flash between its locks, and a flash_task, have an image and a
\* flashable device to work on.
Armed ==
  /\ Describes(device, checkedBoot)
  /\ handler # "none" => task = "Idle"
  /\ handler = "flash" => device.compatible /\ image \in Images
  /\ task = "Flashing" /\ pc = "start" => device.compatible /\ image \in Images
  /\ task = "Flashing" /\ pc # "start" =>
       /\ work.image \in Images
       /\ work.device.compatible
       /\ Describes(work.device, work.boot)

\* What was read in this bootloader session is about the chip that answers.
Session ==
  /\ pc \in {"idle", "start", "raw", "enter"} => bi = NoBoot
  /\ pc \in {"idle", "start", "raw", "enter", "drain", "info", "compare", "admit"} => page = 0
  /\ Talking /\ bi # NoBoot /\ pc # "enter" => bi \in {Boot[port], SyncOnly(Boot[port])}

\* flash_task writes and reads back only what suits the bootloader it found,
\* and the pages behind it went through the same programming.
Writing ==
  /\ good => task \in {"Flashing", "Previewing"} /\ pc \in {"leave", "store", "banner"}
  /\ pc = "compare" => task = "Previewing"
  /\ pc \in {"admit", "write", "verify"} => task = "Flashing"
  /\ pc \in {"write", "verify"} =>
       /\ bi = work.boot
       /\ Suits(work.image, work.boot)
  /\ pc = "write" /\ Talking =>
       \A q \in 0..(page - 1) : flash[port][q] \in {Buffer(q), DamagedPage}
  /\ pc = "verify" /\ Talking =>
       \A q \in 0..(page - 1) : flash[port][q] = Buffer(q)

IInv == TypeOK /\ Link /\ Armed /\ Session /\ Writing /\ Recoverable /\ BootloaderIntact

-----------------------------------------------------------------------------
\* Describing what SyncOnly hides would not pass for a flashable bootloader.
LEMMA SyncNotFlashable ==
  ASSUME NEW b \in BootInfos, Compatible(SyncOnly(b))
  PROVE  SyncOnly(b) = b
BY DEF SyncOnly, Compatible, TableKinds

\* While flash_task writes or reads back a chip that answers, the bootloader
\* it works for is that chip's own.
LEMMA WritesOwnBootloader ==
  ASSUME IInv, pc \in {"write", "verify"}, Talking
  PROVE  /\ port \in SVS
         /\ work.boot = Boot[port]
         /\ Compatible(Boot[port])
         /\ work.image \in Images
         /\ Suits(work.image, Boot[port])
<1>1. port \in SVS /\ Boot[port] \in BootInfos /\ work.boot \in BootInfos
  BY ChipAssumption DEF IInv, Link, Talking, TypeOK
<1>2. work.image \in Images /\ Compatible(work.boot) /\ bi = work.boot
  BY DEF IInv, Writing, Armed, Describes
<1>3. bi # NoBoot
  BY <1>2 DEF Compatible, NoBoot
<1>4. bi = Boot[port]
  BY <1>1, <1>2, <1>3, SyncNotFlashable DEF IInv, Session
<1> QED
  BY <1>1, <1>2, <1>4 DEF IInv, Writing

\* The empty values have their types.
LEMMA Defaults ==
  /\ NoBoot \in BootInfos
  /\ NoDevice \in Devices
  /\ NoWork \in [image : Images \cup {NoImage}, boot : BootInfos, device : Devices]
  /\ NoResult \in [of : Tasks \cup {"Idle"}, ok : BOOLEAN]
<1>1. NoBoot \in BootInfos /\ NoDevice \in Devices
  BY PagesAssumption DEF NoBoot, BootInfos, Kinds, NoDevice, Devices
<1> QED
  BY <1>1 DEF NoWork, NoResult

\* The inductive invariant holds when the bridge starts with an empty port.
LEMMA InitIInv == Init => IInv
<1> USE PagesAssumption, ChipAssumption, ImageAssumption
<1> SUFFICES ASSUME Init PROVE IInv
  OBVIOUS
<1>1. TypeOK
  <2>1. flash \in [SVS -> [Pages -> PageVal]]
    BY DEF Init, Delivered, Pages, PageVal
  <2> QED
    BY <2>1, Defaults DEF Init, TypeOK, Steps
<1>2. Link /\ Armed /\ Session /\ Writing
  BY DEF Init, Link, RawHasOwner, Steps, Armed, Describes, Session, Writing, Talking,
         NoDevice, NoBoot
<1>3. Recoverable /\ BootloaderIntact
  BY DEF Init, Recoverable, BootloaderIntact, Delivered, Pages
<1> QED
  BY <1>1, <1>2, <1>3 DEF IInv

\* A started task, or one that could not be created, leaves its types intact.
LEMMA StartTaskTypes ==
  ASSUME TypeOK, NEW t \in Tasks, StartTask(t), handler' \in {"none", "flash", "preview"}
  PROVE  TypeOK'
<1>1. result' \in [of : Tasks \cup {"Idle"}, ok : BOOLEAN]
  <2>1. result' = NoResult \/ result' = [of |-> t, ok |-> FALSE]
    BY DEF StartTask
  <2>2. [of |-> t, ok |-> FALSE] \in [of : Tasks \cup {"Idle"}, ok : BOOLEAN]
    OBVIOUS
  <2> QED
    BY <2>1, <2>2, Defaults
<1> QED
  BY <1>1 DEF TypeOK, StartTask, Steps, usbVars, jobVars, flasherVars

\* What a finished task leaves behind has its type.
LEMMA FinishTypes ==
  ASSUME TypeOK, NEW ok \in BOOLEAN, Finish(ok)
  PROVE  /\ task' = "Idle" /\ pc' = "idle" /\ pc' \in Steps
         /\ result' \in [of : Tasks \cup {"Idle"}, ok : BOOLEAN]
         /\ bi' \in BootInfos
         /\ attempt' \in Nat
         /\ conn' \in Nat
         /\ work' \in [image : Images \cup {NoImage}, boot : BootInfos, device : Devices]
         /\ page' \in Nat
         /\ good' \in BOOLEAN
<1>1. result' = [of |-> task, ok |-> ok] /\ task \in Tasks \cup {"Idle"}
  BY DEF Finish, TypeOK
<1>2. result' \in [of : Tasks \cup {"Idle"}, ok : BOOLEAN]
  BY <1>1
<1> QED
  BY <1>2, Defaults DEF Finish, Steps

\* Moving to a step outside the writing loop keeps the program counter's types.
LEMMA GotoTypes ==
  ASSUME TypeOK, NEW step \in Steps \ {"write", "verify"}, Goto(step)
  PROVE  /\ task' = task /\ result' = result
         /\ pc' \in Steps /\ pc' \notin {"write", "verify"}
BY DEF Goto

\* evaluate gives a device of the right shape.
LEMMA EvaluateTypes ==
  ASSUME NEW b \in BootInfos
  PROVE  Evaluate(b) \in Devices
<1>1. Compatible(b) \in BOOLEAN /\ Vector(b) \in BOOLEAN
  BY DEF Compatible, Vector
<1>2. (IF Compatible(b) THEN b.space ELSE 0) \in 0..FlashPages
  BY PagesAssumption DEF BootInfos
<1> QED
  BY <1>1, <1>2, Zenon DEF Evaluate, Devices

\* A page of the image in flash_task's buffer, or a damaged one, is a page.
LEMMA LandsTypes ==
  ASSUME IInv, pc = "write", Talking,
         NEW v \in {Buffer(page), DamagedPage}, Lands(v)
  PROVE  flash' \in [SVS -> [Pages -> PageVal]]
<1>1. port \in SVS /\ work.boot \in BootInfos /\ work.image \in Images
  BY WritesOwnBootloader DEF IInv, TypeOK
<1>2. page \in Pages
  BY <1>1, ImageAssumption, PagesAssumption DEF IInv, TypeOK, Pages
<1>3. v \in PageVal
  BY <1>1, PagesAssumption DEF Buffer, Programmed, DamagedPage, PageVal, BootInfos
<1> QED
  BY <1>1, <1>2, <1>3 DEF Lands, IInv, TypeOK

\* Every step keeps every variable in its type.
LEMMA TypeStep ==
  ASSUME IInv, [Next]_vars
  PROVE  TypeOK'
<1> USE DEF usbVars, jobVars, flasherVars, IInv
<1>1. CASE UNCHANGED vars
  BY <1>1 DEF TypeOK, vars
<1>2. ASSUME NEW s \in SVS, Plug(s) PROVE TypeOK'
  BY <1>2 DEF TypeOK, Plug
<1>3. CASE Unplug
  BY ZenonT(60), <1>3 DEF TypeOK, Unplug
<1>4. CASE Open
  BY <1>4 DEF TypeOK, Open
<1>5. CASE Close
  BY <1>5 DEF TypeOK, Close
<1>6. CASE BootTimeout
  BY <1>6 DEF TypeOK, BootTimeout
<1>7. CASE PowerCut
  BY ZenonT(60), <1>7, LandsTypes DEF TypeOK, PowerCut
<1>8. CASE BridgeRestart
  BY <1>8, Defaults DEF TypeOK, BridgeRestart, Steps
<1>9. CASE StartCheck
  BY <1>9, StartTaskTypes DEF TypeOK, StartCheck, StartTask, Tasks
<1>10. CASE StartProbe
  BY <1>10, StartTaskTypes DEF TypeOK, StartProbe, StartTask, Tasks
<1>11. CASE RequestFlash
  BY <1>11 DEF TypeOK, RequestFlash
<1>12. CASE StartFlash
  BY <1>12, StartTaskTypes DEF TypeOK, StartFlash, StartTask, Tasks
<1>13. CASE RequestPreview
  BY <1>13 DEF TypeOK, RequestPreview
<1>14. CASE StartPreview
  BY <1>14, StartTaskTypes DEF TypeOK, StartPreview, StartTask, Tasks
<1>15. CASE Refuse
  BY <1>15 DEF TypeOK, Refuse
<1>16. ASSUME NEW i \in Images, Stage(i) PROVE TypeOK'
  BY <1>16, Defaults DEF TypeOK, Stage
<1>17. CASE Clear
  BY <1>17 DEF TypeOK, Clear
<1>18. CASE Begin
  <2>1. work' \in [image : Images \cup {NoImage}, boot : BootInfos, device : Devices]
    BY <1>18 DEF TypeOK, Begin
  <2> QED
    BY <1>18, <2>1 DEF TypeOK, Begin, Goto, Steps
<1>19. CASE RawBegin
  <2>1. CASE Finish(FALSE)
    BY ZenonT(60), <1>19, <2>1, FinishTypes DEF TypeOK, RawBegin
  <2>2. CASE Goto("enter") /\ raw' = TRUE /\ UNCHANGED jobVars
    BY <1>19, <2>2 DEF TypeOK, RawBegin, Goto, Steps
  <2> QED
    BY <1>19, <2>1, <2>2 DEF RawBegin
<1>20. CASE Enter
  <2>1. bi' \in BootInfos
    <3>1. CASE raw /\ alive /\ bi' = SyncOnly(Boot[port])
      <4>1. Boot[port] \in BootInfos
        BY <3>1, ChipAssumption DEF Link
      <4> QED
        BY <3>1, <4>1, PagesAssumption DEF SyncOnly, BootInfos, Kinds
    <3>2. CASE UNCHANGED bi
      BY <3>2 DEF TypeOK
    <3> QED
      BY <1>20, <3>1, <3>2 DEF Enter
  <2>2. attempt' \in Nat /\ mode' \in {"app", "boot"}
    BY <1>20 DEF TypeOK, Enter
  <2>3. UNCHANGED <<port, noisy, dev, alive, connections, flash, raw, flasherVars, handler,
                   conn, work, page, good, task, result>> /\ pc' = "drain"
    BY <1>20 DEF Enter, Goto
  <2> QED
    BY <2>1, <2>2, <2>3 DEF TypeOK, Steps
<1>21. CASE ReadBootInfo
  <2>1. bi' \in BootInfos
    BY <1>21, ChipAssumption DEF TypeOK, ReadBootInfo, Talking, Link
  <2> QED
    BY <1>21, <2>1 DEF TypeOK, ReadBootInfo, Goto, Steps
<1>22. CASE Compare
  <2>1. good' \in BOOLEAN
    BY <1>22, Zenon DEF Compare
  <2> QED
    BY <1>22, <2>1 DEF TypeOK, Compare, Goto, Steps
<1>23. CASE Admit
  <2>1. CASE pc' = "leave"
    BY <1>23, <2>1 DEF TypeOK, Admit, Goto, Steps
  <2>2. CASE pc' = "write"
    <3>1. work.image \in Images
      BY <1>23, <2>2 DEF Admit, Armed, Writing
    <3>2. page = 0 /\ 0 < Size[work.image]
      BY <1>23, <3>1, ImageAssumption DEF Admit, Session
    <3> QED
      BY <1>23, <2>2, <3>1, <3>2 DEF TypeOK, Admit, Goto, Steps
  <2> QED
    BY <1>23, <2>1, <2>2 DEF Admit, Goto
<1>24. CASE WritePage
  <2>1. flash' \in [SVS -> [Pages -> PageVal]]
    BY <1>24, LandsTypes DEF WritePage
  <2>2. page' \in Nat /\ pc' \in Steps
        /\ (pc' \in {"write", "verify"} => work.image \in Images /\ page' < Size[work.image])
    <3>1. work.image \in Images /\ page \in Nat /\ page < Size[work.image]
      BY <1>24 DEF TypeOK, WritePage
    <3>2. Size[work.image] \in Nat
      BY <3>1, ImageAssumption, PagesAssumption
    <3>3. \/ page + 1 = Size[work.image] /\ page' = 0 /\ pc' = "verify"
          \/ page + 1 # Size[work.image] /\ page' = page + 1 /\ pc' = "write"
      BY <1>24 DEF WritePage, Advance, Last, Goto
    <3> QED
      BY <3>1, <3>2, <3>3 DEF Steps
  <2>3. UNCHANGED <<usbVars, raw, flasherVars, handler, bi, attempt, conn, work, good,
                   task, result>>
    BY <1>24 DEF WritePage, Advance, Goto
  <2> QED
    BY <2>1, <2>2, <2>3 DEF TypeOK
<1>25. CASE WriteFails
  <2>1. flash' \in [SVS -> [Pages -> PageVal]]
    BY <1>25, LandsTypes DEF WriteFails, TypeOK
  <2> QED
    BY <1>25, <2>1 DEF TypeOK, WriteFails, Goto, Steps
<1>26. CASE VerifyPage
  <2>1. page' \in Nat /\ pc' \in Steps
        /\ (pc' \in {"write", "verify"} => work.image \in Images /\ page' < Size[work.image])
    BY <1>26, ImageAssumption DEF TypeOK, VerifyPage, Advance, Last, Goto, Steps
  <2>2. good' \in BOOLEAN
    BY <1>26 DEF TypeOK, VerifyPage, Last
  <2> QED
    BY <1>26, <2>1, <2>2 DEF TypeOK, VerifyPage, Advance, Goto
<1>27. CASE EndRaw
  <2>1. task \in Tasks
    BY <1>27 DEF TypeOK, EndRaw, Link
  <2>2. CASE \E ok \in BOOLEAN : Finish(ok)
    BY <1>27, <2>2, FinishTypes DEF TypeOK, EndRaw, LeaveRaw
  <2>3. ASSUME Goto("store") \/ Goto("banner"), UNCHANGED jobVars PROVE TypeOK'
    <3>1. mode' \in {"app", "boot"} /\ raw' = FALSE
      BY <1>27 DEF TypeOK, EndRaw, LeaveRaw
    <3>2. UNCHANGED <<port, noisy, dev, alive, connections, flash, flasherVars, handler>>
      BY <1>27 DEF EndRaw
    <3> QED
      BY ZenonT(60), <2>3, <3>1, <3>2 DEF TypeOK, Goto, Steps
  <2> QED
    BY <1>27, <2>1, <2>2, <2>3 DEF EndRaw, Tasks
<1>28. CASE StoreCheck
  <2>1. CASE bi = NoBoot
    BY ZenonT(60), <1>28, <2>1, FinishTypes, Defaults DEF TypeOK, StoreCheck
  <2>2. CASE ~(bi = NoBoot)
    BY <1>28, <2>2, EvaluateTypes DEF TypeOK, StoreCheck, Goto, Steps
  <2> QED
    BY <2>1, <2>2
<1>29. CASE StorePreview
  <2>1. Finish(good) /\ good \in BOOLEAN
    BY <1>29 DEF TypeOK, StorePreview
  <2>2. device' \in Devices
    BY <1>29 DEF TypeOK, StorePreview, Devices
  <2> QED
    BY <1>29, <2>1, <2>2, FinishTypes DEF TypeOK, StorePreview
<1>30. CASE Banner
  <2> DEFINE ok == task = "Checking" => device.compatible
  <2>1. ok \in BOOLEAN /\ Finish(ok)
    BY <1>30 DEF Banner
  <2> HIDE DEF ok
  <2>2. PICK done \in BOOLEAN : Finish(done)
    BY <2>1
  <2>3. UNCHANGED <<usbVars, flash, raw, flasherVars, handler>>
    BY <1>30 DEF Banner
  <2> QED
    BY <2>2, <2>3, FinishTypes, SMTT(40) DEF TypeOK
<1>31. CASE Noise
  BY <1>31 DEF TypeOK, Noise
<1>32. CASE Drain
  BY <1>32 DEF TypeOK, Drain, Goto, Steps
<1> QED
  BY <1>1, <1>2, <1>3, <1>4, <1>5, <1>6, <1>7, <1>8, <1>9, <1>10, <1>11, <1>12, <1>13, <1>14, <1>15, <1>16, <1>17, <1>18, <1>19, <1>20, <1>21, <1>22, <1>23, <1>24, <1>25, <1>26, <1>27, <1>28, <1>29, <1>30, <1>31, <1>32 DEF Next, Usb, Handlers, Background

\* The ways out of a bootloader session.
LEMMA EndRawCases ==
  ASSUME TypeOK, Link, EndRaw
  PROVE  /\ pc = "leave" /\ raw' = FALSE
         /\ mode' = mode \/ (mode' = "app" /\ alive) \/ (mode' = "boot" /\ mode = "boot")
         /\ UNCHANGED <<port, noisy, dev, alive, connections, flash, image, device,
                        checkedBoot, checkedConnection, handler>>
         /\ \/ task \in {"Checking", "Previewing"} /\ Goto("store") /\ UNCHANGED jobVars
            \/ task = "Flashing" /\ good /\ Goto("banner") /\ UNCHANGED jobVars
            \/ \E ok \in BOOLEAN : Finish(ok)
<1>1. pc = "leave" /\ task \in Tasks /\ good \in BOOLEAN
  BY DEF TypeOK, Link, EndRaw
<1>2. mode' \in (IF bi # NoBoot /\ (task = "Flashing" => good) /\ Talking
                 THEN {"app", "boot"} ELSE {mode})
  BY DEF EndRaw
<1>3. mode' = mode \/ (mode' = "app" /\ alive) \/ (mode' = "boot" /\ mode = "boot")
  BY <1>2 DEF Talking
<1>4. \/ task \in {"Checking", "Previewing"} /\ Goto("store") /\ UNCHANGED jobVars
      \/ task = "Flashing" /\ good /\ Goto("banner") /\ UNCHANGED jobVars
      \/ \E ok \in BOOLEAN : Finish(ok)
  <2>1. CASE task \in {"Checking", "Previewing"}
    BY <2>1 DEF EndRaw
  <2>2. CASE task = "Flashing" /\ good
    BY <2>2 DEF EndRaw
  <2>3. CASE task = "Flashing" /\ ~good
    BY <2>3 DEF EndRaw
  <2>4. CASE task = "Probing"
    BY <2>4 DEF EndRaw
  <2> QED
    BY <1>1, <2>1, <2>2, <2>3, <2>4 DEF Tasks
<1> QED
  BY <1>1, <1>3, <1>4 DEF EndRaw, LeaveRaw, flasherVars

\* evaluate describes the bootloader it was given.
LEMMA EvaluateDescribes ==
  ASSUME NEW b
  PROVE  Describes(Evaluate(b), b)
<1>1. Evaluate(b).compatible = Compatible(b) /\ Evaluate(b).vector = Vector(b)
      /\ Evaluate(b).space = IF Compatible(b) THEN b.space ELSE 0
  BY DEF Evaluate
<1> QED
  BY <1>1, Zenon DEF Describes

\* Every step keeps the link: a handle is for the chip in the port, and raw
\* mode belongs to the task in its bootloader session.
LEMMA LinkStep ==
  ASSUME IInv, [Next]_vars
  PROVE  Link'
<1> TypeOK /\ Link
  BY DEF IInv
<1> USE DEF usbVars, jobVars, flasherVars, RawHasOwner
<1>1. CASE UNCHANGED vars
  BY <1>1 DEF TypeOK, Link, vars
<1>2. ASSUME NEW s \in SVS, Plug(s) PROVE Link'
  BY <1>2, ChipAssumption DEF TypeOK, Link, Plug, Steps, Tasks
<1>3. CASE Unplug
  BY <1>3 DEF TypeOK, Link, Unplug
<1>4. CASE Open
  BY <1>4, ChipAssumption DEF TypeOK, Link, Open, Steps, Tasks
<1>5. CASE Close
  BY <1>5 DEF TypeOK, Link, Close
<1>6. CASE BootTimeout
  BY <1>6 DEF TypeOK, Link, BootTimeout
<1>7. CASE PowerCut
  BY <1>7 DEF TypeOK, Link, PowerCut
<1>8. CASE BridgeRestart
  BY <1>8 DEF TypeOK, Link, BridgeRestart, Steps, Tasks
<1>9. CASE StartCheck
  BY <1>9, ChipAssumption DEF TypeOK, Link, StartCheck, StartTask, Steps, Tasks
<1>10. CASE StartProbe
  BY <1>10, ChipAssumption DEF TypeOK, Link, StartProbe, StartTask, Steps, Tasks
<1>11. CASE RequestFlash
  BY <1>11 DEF TypeOK, Link, RequestFlash
<1>12. CASE StartFlash
  BY <1>12, ChipAssumption DEF TypeOK, Link, StartFlash, StartTask, Steps, Tasks
<1>13. CASE RequestPreview
  BY <1>13 DEF TypeOK, Link, RequestPreview
<1>14. CASE StartPreview
  BY <1>14, ChipAssumption DEF TypeOK, Link, StartPreview, StartTask, Steps, Tasks
<1>15. CASE Refuse
  BY <1>15 DEF TypeOK, Link, Refuse
<1>16. ASSUME NEW i \in Images, Stage(i) PROVE Link'
  BY <1>16 DEF TypeOK, Link, Stage
<1>17. CASE Clear
  BY <1>17 DEF TypeOK, Link, Clear
<1>18. CASE Begin
  BY <1>18 DEF TypeOK, Link, Begin, Goto, Steps, Tasks
<1>19. CASE RawBegin
  BY <1>19 DEF TypeOK, Link, RawBegin, Goto, Finish, Steps, Tasks
<1>20. CASE Enter
  BY <1>20 DEF TypeOK, Link, Enter, Goto, Steps, Tasks
<1>21. CASE ReadBootInfo
  BY <1>21 DEF TypeOK, Link, ReadBootInfo, Goto, Steps, Tasks
<1>22. CASE Compare
  BY <1>22 DEF TypeOK, Link, Compare, Goto, Steps, Tasks
<1>23. CASE Admit
  BY <1>23 DEF TypeOK, Link, Admit, Goto, Steps, Tasks
<1>24. CASE WritePage
  BY <1>24 DEF TypeOK, Link, WritePage, Lands, Advance, Last, Goto, Steps, Tasks
<1>25. CASE WriteFails
  BY <1>25 DEF TypeOK, Link, WriteFails, Lands, Goto, Steps, Tasks
<1>26. CASE VerifyPage
  BY <1>26 DEF TypeOK, Link, VerifyPage, Advance, Last, Goto, Steps, Tasks
<1>27. CASE EndRaw
  <2>1. TypeOK /\ Link /\ pc = "leave"
    BY <1>27 DEF EndRaw
  <2>2. alive' = alive /\ dev' = dev /\ port' = port /\ raw' = FALSE
        /\ (mode' = "boot" => mode = "boot")
    BY <2>1, <1>27, EndRawCases
  <2>3. (mode = "boot" => alive) /\ (alive => dev = port /\ port \in SVS) /\ ~(task = "Idle")
    BY <2>1 DEF Link
  <2>4. \/ pc' \in {"store", "banner"} /\ task' = task
        \/ pc' = "idle" /\ task' = "Idle"
    BY <2>1, <1>27, EndRawCases DEF Goto, Finish
  <2> QED
    BY <2>2, <2>3, <2>4 DEF Link, Steps
<1>28. CASE StoreCheck
  BY <1>28 DEF TypeOK, Link, StoreCheck, Goto, Finish, Steps, Tasks
<1>29. CASE StorePreview
  BY <1>29 DEF TypeOK, Link, StorePreview, Finish, Steps, Tasks
<1>30. CASE Banner
  BY <1>30 DEF TypeOK, Link, Banner, Finish, Steps, Tasks
<1>31. CASE Noise
  BY <1>31 DEF TypeOK, Link, Noise
<1>32. CASE Drain
  BY <1>32 DEF TypeOK, Link, Drain, Goto, Steps, Tasks
<1> QED
  BY <1>1, <1>2, <1>3, <1>4, <1>5, <1>6, <1>7, <1>8, <1>9, <1>10, <1>11, <1>12, <1>13, <1>14, <1>15, <1>16, <1>17, <1>18, <1>19, <1>20, <1>21, <1>22, <1>23, <1>24, <1>25, <1>26, <1>27, <1>28, <1>29, <1>30, <1>31, <1>32 DEF Next, Usb, Handlers, Background

\* Every step leaves a pending or running flash with its image and device.
LEMMA ArmedStep ==
  ASSUME IInv, [Next]_vars
  PROVE  Armed'
<1> TypeOK /\ Link /\ Armed /\ Writing
  BY DEF IInv
<1> USE DEF usbVars, jobVars, flasherVars, Describes
<1>1. CASE UNCHANGED vars
  BY <1>1 DEF TypeOK, Link, Armed, vars
<1>2. ASSUME NEW s \in SVS, Plug(s) PROVE Armed'
  BY <1>2 DEF TypeOK, Link, Armed, Plug
<1>3. CASE Unplug
  BY <1>3 DEF TypeOK, Link, Armed, Unplug
<1>4. CASE Open
  BY <1>4 DEF TypeOK, Link, Armed, Open
<1>5. CASE Close
  BY <1>5 DEF TypeOK, Link, Armed, Close
<1>6. CASE BootTimeout
  BY <1>6 DEF TypeOK, Link, Armed, BootTimeout
<1>7. CASE PowerCut
  BY <1>7 DEF TypeOK, Link, Armed, PowerCut
<1>8. CASE BridgeRestart
  BY <1>8 DEF TypeOK, Link, Armed, BridgeRestart, NoDevice, NoBoot
<1>9. CASE StartCheck
  BY <1>9 DEF TypeOK, Link, Armed, StartCheck, StartTask
<1>10. CASE StartProbe
  BY <1>10 DEF TypeOK, Link, Armed, StartProbe, StartTask
<1>11. CASE RequestFlash
  BY <1>11 DEF TypeOK, Link, Armed, RequestFlash, CanFlash, ShownDevice, NoDevice
<1>12. CASE StartFlash
  BY <1>12 DEF TypeOK, Link, Armed, StartFlash, StartTask
<1>13. CASE RequestPreview
  BY <1>13 DEF TypeOK, Link, Armed, RequestPreview
<1>14. CASE StartPreview
  BY <1>14 DEF TypeOK, Link, Armed, StartPreview, StartTask
<1>15. CASE Refuse
  BY <1>15 DEF TypeOK, Link, Armed, Refuse
<1>16. ASSUME NEW i \in Images, Stage(i) PROVE Armed'
  BY <1>16 DEF TypeOK, Link, Armed, Stage
<1>17. CASE Clear
  BY <1>17 DEF TypeOK, Link, Armed, Clear
<1>18. CASE Begin
  BY <1>18 DEF TypeOK, Link, Armed, Begin, Goto
<1>19. CASE RawBegin
  BY <1>19 DEF TypeOK, Link, Armed, RawBegin, Goto, Finish
<1>20. CASE Enter
  BY <1>20 DEF TypeOK, Link, Armed, Enter, Goto
<1>21. CASE ReadBootInfo
  BY <1>21 DEF TypeOK, Link, Armed, ReadBootInfo, Goto
<1>22. CASE Compare
  BY <1>22 DEF TypeOK, Link, Armed, Compare, Goto
<1>23. CASE Admit
  BY <1>23 DEF TypeOK, Link, Armed, Admit, Goto
<1>24. CASE WritePage
  BY <1>24 DEF TypeOK, Link, Armed, WritePage, Lands, Advance, Last, Goto
<1>25. CASE WriteFails
  BY <1>25 DEF TypeOK, Link, Armed, WriteFails, Lands, Goto
<1>26. CASE VerifyPage
  BY <1>26 DEF TypeOK, Link, Armed, VerifyPage, Advance, Last, Goto
<1>27. CASE EndRaw
  <2>1. TypeOK /\ Link
    OBVIOUS
  <2> QED
    BY <2>1, <1>27, EndRawCases DEF TypeOK, Link, Armed, Goto, Finish
<1>28. CASE StoreCheck
  <2>1. CASE bi = NoBoot
    BY <1>28, <2>1 DEF TypeOK, Link, Armed, StoreCheck, Finish, NoDevice
  <2>2. CASE ~(bi = NoBoot)
    <3>1. Describes(device, checkedBoot)'
      BY <1>28, <2>2, EvaluateDescribes, Zenon DEF StoreCheck, Describes
    <3> QED
      BY <1>28, <2>2, <3>1 DEF TypeOK, Link, Armed, StoreCheck, Goto
  <2> QED
    BY <2>1, <2>2
<1>29. CASE StorePreview
  BY <1>29 DEF TypeOK, Link, Armed, StorePreview, Finish
<1>30. CASE Banner
  BY <1>30 DEF TypeOK, Link, Armed, Banner, Finish
<1>31. CASE Noise
  BY <1>31 DEF TypeOK, Link, Armed, Noise
<1>32. CASE Drain
  BY <1>32 DEF TypeOK, Link, Armed, Drain, Goto
<1> QED
  BY <1>1, <1>2, <1>3, <1>4, <1>5, <1>6, <1>7, <1>8, <1>9, <1>10, <1>11, <1>12, <1>13, <1>14, <1>15, <1>16, <1>17, <1>18, <1>19, <1>20, <1>21, <1>22, <1>23, <1>24, <1>25, <1>26, <1>27, <1>28, <1>29, <1>30, <1>31, <1>32 DEF Next, Usb, Handlers, Background

\* Every step leaves what was read in a session about the chip that answers.
LEMMA SessionStep ==
  ASSUME IInv, [Next]_vars
  PROVE  Session'
<1> TypeOK /\ Link /\ Session
  BY DEF IInv
<1> USE DEF usbVars, jobVars, flasherVars, Talking
<1>1. CASE UNCHANGED vars
  BY <1>1 DEF TypeOK, Link, Session, vars
<1>2. ASSUME NEW s \in SVS, Plug(s) PROVE Session'
  BY <1>2 DEF TypeOK, Link, Session, Plug
<1>3. CASE Unplug
  BY <1>3 DEF TypeOK, Link, Session, Unplug
<1>4. CASE Open
  BY <1>4 DEF TypeOK, Link, Session, Open
<1>5. CASE Close
  BY <1>5 DEF TypeOK, Link, Session, Close
<1>6. CASE BootTimeout
  BY <1>6 DEF TypeOK, Link, Session, BootTimeout
<1>7. CASE PowerCut
  BY <1>7 DEF TypeOK, Link, Session, PowerCut
<1>8. CASE BridgeRestart
  BY <1>8 DEF TypeOK, Link, Session, BridgeRestart
<1>9. CASE StartCheck
  BY <1>9 DEF TypeOK, Link, Session, StartCheck, StartTask
<1>10. CASE StartProbe
  BY <1>10 DEF TypeOK, Link, Session, StartProbe, StartTask
<1>11. CASE RequestFlash
  BY <1>11 DEF TypeOK, Link, Session, RequestFlash
<1>12. CASE StartFlash
  BY <1>12 DEF TypeOK, Link, Session, StartFlash, StartTask
<1>13. CASE RequestPreview
  BY <1>13 DEF TypeOK, Link, Session, RequestPreview
<1>14. CASE StartPreview
  BY <1>14 DEF TypeOK, Link, Session, StartPreview, StartTask
<1>15. CASE Refuse
  BY <1>15 DEF TypeOK, Link, Session, Refuse
<1>16. ASSUME NEW i \in Images, Stage(i) PROVE Session'
  BY <1>16 DEF TypeOK, Link, Session, Stage
<1>17. CASE Clear
  BY <1>17 DEF TypeOK, Link, Session, Clear
<1>18. CASE Begin
  BY <1>18 DEF TypeOK, Link, Session, Begin, Goto
<1>19. CASE RawBegin
  BY <1>19 DEF TypeOK, Link, Session, RawBegin, Goto, Finish
<1>20. CASE Enter
  BY <1>20 DEF TypeOK, Link, Session, Enter, Goto, SyncOnly
<1>21. CASE ReadBootInfo
  BY <1>21 DEF TypeOK, Link, Session, ReadBootInfo, Goto
<1>22. CASE Compare
  BY <1>22 DEF TypeOK, Link, Session, Compare, Goto
<1>23. CASE Admit
  BY <1>23 DEF TypeOK, Link, Session, Admit, Goto
<1>24. CASE WritePage
  BY <1>24 DEF TypeOK, Link, Session, WritePage, Lands, Advance, Last, Goto
<1>25. CASE WriteFails
  BY <1>25 DEF TypeOK, Link, Session, WriteFails, Lands, Goto
<1>26. CASE VerifyPage
  BY <1>26 DEF TypeOK, Link, Session, VerifyPage, Advance, Last, Goto
<1>27. CASE EndRaw
  <2>1. TypeOK /\ Link
    OBVIOUS
  <2> QED
    BY <2>1, <1>27, EndRawCases DEF TypeOK, Link, Session, Goto, Finish
<1>28. CASE StoreCheck
  BY <1>28 DEF TypeOK, Link, Session, StoreCheck, Goto, Finish
<1>29. CASE StorePreview
  BY <1>29 DEF TypeOK, Link, Session, StorePreview, Finish
<1>30. CASE Banner
  BY <1>30 DEF TypeOK, Link, Session, Banner, Finish
<1>31. CASE Noise
  BY <1>31 DEF TypeOK, Link, Session, Noise
<1>32. CASE Drain
  BY <1>32 DEF TypeOK, Link, Session, Drain, Goto
<1> QED
  BY <1>1, <1>2, <1>3, <1>4, <1>5, <1>6, <1>7, <1>8, <1>9, <1>10, <1>11, <1>12, <1>13, <1>14, <1>15, <1>16, <1>17, <1>18, <1>19, <1>20, <1>21, <1>22, <1>23, <1>24, <1>25, <1>26, <1>27, <1>28, <1>29, <1>30, <1>31, <1>32 DEF Next, Usb, Handlers, Background

\* What a programmed page leaves on the chips: one page of the chip in the
\* port, below its own bootloader.
LEMMA LandsEffect ==
  ASSUME IInv, pc = "write", Talking, NEW v \in {Buffer(page), DamagedPage}, Lands(v)
  PROVE  /\ port \in SVS /\ page \in Pages
         /\ flash' = [flash EXCEPT ![port] = [flash[port] EXCEPT ![page] = v]]
         /\ Compatible(Boot[port]) /\ page < Boot[port].space
         /\ v \in {Programmed(work.image, Boot[port], page), DamagedPage}
         /\ work.image \in Images /\ Suits(work.image, Boot[port])
         /\ page < Size[work.image]
<1>1. /\ port \in SVS /\ work.image \in Images /\ Suits(work.image, Boot[port])
      /\ Compatible(Boot[port]) /\ work.boot = Boot[port]
  BY WritesOwnBootloader
<1>2. page \in Nat /\ page < Size[work.image]
  BY DEF IInv, TypeOK
<1>3. /\ Size[work.image] \in 1..FlashPages /\ Size[work.image] <= Boot[port].space
      /\ Boot[port].space \in 0..FlashPages /\ FlashPages \in Nat
  BY <1>1, ImageAssumption, ChipAssumption, PagesAssumption DEF Suits, BootInfos
<1>4. page \in Pages /\ page < Boot[port].space
  BY <1>2, <1>3 DEF Pages
<1> QED
  BY <1>1, <1>2, <1>4 DEF Lands, Buffer

\* Every step keeps flash_task writing only what suits the bootloader found.
LEMMA WritingStep ==
  ASSUME IInv, [Next]_vars
  PROVE  Writing'
<1> TypeOK /\ Link /\ Armed /\ Session /\ Writing
  BY DEF IInv
<1> USE DEF usbVars, jobVars, flasherVars, Talking, Buffer
<1>1. CASE UNCHANGED vars
  BY <1>1 DEF TypeOK, Link, Writing, vars
<1>2. ASSUME NEW s \in SVS, Plug(s) PROVE Writing'
  BY <1>2 DEF TypeOK, Link, Writing, Plug
<1>3. CASE Unplug
  BY <1>3 DEF TypeOK, Link, Writing, Unplug
<1>4. CASE Open
  BY <1>4 DEF TypeOK, Link, Writing, Open
<1>5. CASE Close
  BY <1>5 DEF TypeOK, Link, Writing, Close
<1>6. CASE BootTimeout
  BY <1>6 DEF TypeOK, Link, Writing, BootTimeout
<1>7. CASE PowerCut
  BY <1>7 DEF TypeOK, Link, Writing, PowerCut
<1>8. CASE BridgeRestart
  BY <1>8 DEF TypeOK, Link, Writing, BridgeRestart
<1>9. CASE StartCheck
  BY <1>9 DEF TypeOK, Link, Writing, StartCheck, StartTask
<1>10. CASE StartProbe
  BY <1>10 DEF TypeOK, Link, Writing, StartProbe, StartTask
<1>11. CASE RequestFlash
  BY <1>11 DEF TypeOK, Link, Writing, RequestFlash
<1>12. CASE StartFlash
  BY <1>12 DEF TypeOK, Link, Writing, StartFlash, StartTask
<1>13. CASE RequestPreview
  BY <1>13 DEF TypeOK, Link, Writing, RequestPreview
<1>14. CASE StartPreview
  BY <1>14 DEF TypeOK, Link, Writing, StartPreview, StartTask
<1>15. CASE Refuse
  BY <1>15 DEF TypeOK, Link, Writing, Refuse
<1>16. ASSUME NEW i \in Images, Stage(i) PROVE Writing'
  BY <1>16 DEF TypeOK, Link, Writing, Stage
<1>17. CASE Clear
  BY <1>17 DEF TypeOK, Link, Writing, Clear
<1>18. CASE Begin
  BY <1>18 DEF TypeOK, Link, Writing, Begin, Goto
<1>19. CASE RawBegin
  BY <1>19 DEF TypeOK, Link, Writing, RawBegin, Goto, Finish
<1>20. CASE Enter
  BY <1>20 DEF TypeOK, Link, Writing, Enter, Goto
<1>21. CASE ReadBootInfo
  BY <1>21 DEF TypeOK, Link, Writing, ReadBootInfo, Goto
<1>22. CASE Compare
  BY <1>22 DEF TypeOK, Link, Writing, Compare, Goto
<1>23. CASE Admit
  <2>1. CASE pc' = "leave"
    BY <1>23, <2>1 DEF TypeOK, Writing, Admit, Goto
  <2>2. CASE pc' = "write"
    <3>1. /\ task = "Flashing" /\ page = 0
          /\ SameBootloader(bi, work.boot)
          /\ Fits(work.image, work.device)
          /\ work.device.vector => work.image \in Patchable
          /\ work.device.space = work.boot.space
          /\ work.device.vector = Vector(work.boot)
      BY <1>23, <2>2 DEF Admit, Goto, Armed, Describes, Session, Writing
    <3>2. bi = work.boot /\ Suits(work.image, work.boot)
      BY <3>1 DEF SameBootloader, Fits, Suits
    <3>3. pc' = "write" /\ UNCHANGED <<task, page, bi, work, good, flash, port>> /\ ~good
      BY <1>23, <2>2 DEF Admit, Goto, Writing
    <3> QED
      BY <3>1, <3>2, <3>3 DEF Writing, Suits
  <2> QED
    BY <1>23, <2>1, <2>2 DEF Admit, Goto
<1>24. CASE WritePage
  <2>1. PICK v \in {Buffer(page), DamagedPage} : Lands(v)
    BY <1>24 DEF WritePage
  <2>2. /\ port \in SVS /\ page \in Pages /\ page \in Nat
        /\ flash' = [flash EXCEPT ![port] = [flash[port] EXCEPT ![page] = v]]
    BY <2>1, <1>24, LandsEffect DEF WritePage, IInv, TypeOK
  <2>3. flash'[port] = [flash[port] EXCEPT ![page] = v] /\ flash[port] \in [Pages -> PageVal]
    BY <2>2 DEF TypeOK
  <2>4. UNCHANGED <<task, port, raw, alive, mode, bi, work, good>> /\ pc' \in {"write", "verify"}
    BY <1>24 DEF WritePage, Advance, Goto
  <2>5. pc = "write" /\ Talking
    BY <1>24 DEF WritePage
  <2>6. CASE Last
    <3>1. pc' = "verify" /\ page' = 0
      BY <1>24, <2>6 DEF WritePage, Advance, Goto
    <3> QED
      BY <2>4, <2>5, <3>1 DEF Writing, Suits
  <2>7. CASE ~Last
    <3>1. pc' = "write" /\ page' = page + 1
      BY <1>24, <2>7 DEF WritePage, Advance, Goto
    <3>2. ASSUME NEW q \in 0..(page' - 1)
          PROVE  flash'[port][q] \in {Programmed(work.image, work.boot, q), DamagedPage}
      <4>1. CASE q = page
        BY <4>1, <2>2, <2>3
      <4>2. CASE ~(q = page)
        <5>1. q \in 0..(page - 1)
          BY <4>2, <3>1, <2>2
        <5>2. flash[port][q] \in {Programmed(work.image, work.boot, q), DamagedPage}
          BY <5>1, <2>5 DEF Writing
        <5>3. q \in Pages
          BY <5>1, <2>2, PagesAssumption DEF Pages
        <5> QED
          BY <5>2, <5>3, <4>2, <2>3
      <4> QED
        BY <4>1, <4>2
    <3> QED
      BY <2>4, <2>5, <3>1, <3>2 DEF Writing, Suits
  <2> QED
    BY <2>6, <2>7
<1>25. CASE WriteFails
  BY <1>25 DEF TypeOK, Link, Writing, WriteFails, Lands, Goto
<1>26. CASE VerifyPage
  <2>1. CASE Goto("leave") /\ UNCHANGED <<page, good>>
    BY <1>26, <2>1 DEF TypeOK, Writing, VerifyPage, Goto
  <2>2. CASE Talking /\ ReadsBack(page) /\ Advance("leave") /\ good' = Last
    <3>1. /\ UNCHANGED <<task, port, raw, alive, mode, bi, work, flash>>
          /\ pc = "verify" /\ page \in Nat
      BY <1>26, <2>2 DEF TypeOK, VerifyPage, Advance, Goto
    <3>2. CASE Last
      BY <2>2, <3>1, <3>2 DEF Writing, Advance, Goto
    <3>3. CASE ~Last
      <4>1. pc' = "verify" /\ page' = page + 1 /\ ~good'
        BY <2>2, <3>1, <3>3 DEF Advance, Goto
      <4>2. ASSUME NEW q \in 0..(page' - 1)
            PROVE  flash[port][q] = Programmed(work.image, work.boot, q)
        <5>1. CASE q = page
          BY <5>1, <2>2 DEF ReadsBack
        <5>2. CASE ~(q = page)
          <6>1. q \in 0..(page - 1)
            BY <5>2, <4>1, <3>1
          <6> QED
            BY <6>1, <2>2, <3>1 DEF Writing
        <5> QED
          BY <5>1, <5>2
      <4> QED
        BY <2>2, <3>1, <4>1, <4>2 DEF Writing, Suits
    <3> QED
      BY <3>2, <3>3
  <2> QED
    BY <1>26, <2>1, <2>2 DEF VerifyPage
<1>27. CASE EndRaw
  <2>1. pc = "leave" /\ raw' = FALSE /\ TypeOK /\ Link
    BY <1>27 DEF EndRaw, LeaveRaw
  <2>2. CASE \E ok \in BOOLEAN : Finish(ok)
    BY <2>1, <2>2 DEF Writing, Finish
  <2>3. CASE /\ pc' \in {"store", "banner"}
             /\ UNCHANGED <<task, result>> /\ UNCHANGED jobVars
    BY <2>1, <2>3 DEF Writing
  <2> QED
    BY <2>1, <2>2, <2>3, <1>27, EndRawCases DEF Goto
<1>28. CASE StoreCheck
  BY <1>28 DEF TypeOK, Link, Writing, StoreCheck, Goto, Finish
<1>29. CASE StorePreview
  BY <1>29 DEF TypeOK, Link, Writing, StorePreview, Finish
<1>30. CASE Banner
  BY <1>30 DEF TypeOK, Link, Writing, Banner, Finish
<1>31. CASE Noise
  BY <1>31 DEF TypeOK, Link, Writing, Noise
<1>32. CASE Drain
  BY <1>32 DEF TypeOK, Link, Writing, Drain, Goto
<1> QED
  BY <1>1, <1>2, <1>3, <1>4, <1>5, <1>6, <1>7, <1>8, <1>9, <1>10, <1>11, <1>12, <1>13, <1>14, <1>15, <1>16, <1>17, <1>18, <1>19, <1>20, <1>21, <1>22, <1>23, <1>24, <1>25, <1>26, <1>27, <1>28, <1>29, <1>30, <1>31, <1>32 DEF Next, Usb, Handlers, Background

\* Chips only change by a programmed page.
LEMMA FlashSteps ==
  ASSUME IInv, [Next]_vars
  PROVE  \/ UNCHANGED flash
         \/ /\ pc = "write" /\ Talking
            /\ \E v \in {Buffer(page), DamagedPage} : Lands(v)
<1>1. CASE UNCHANGED vars
  BY <1>1 DEF vars
<1>2. ASSUME NEW s \in SVS, Plug(s) PROVE flash' = flash
  BY <1>2 DEF Plug
<1>3. CASE Unplug
  BY <1>3 DEF Unplug
<1>4. CASE Open
  BY <1>4 DEF Open
<1>5. CASE Close
  BY <1>5 DEF Close
<1>6. CASE BootTimeout
  BY <1>6 DEF BootTimeout
<1>7. CASE PowerCut
  BY <1>7 DEF PowerCut
<1>8. CASE BridgeRestart
  BY <1>8 DEF BridgeRestart
<1>9. CASE StartCheck
  BY <1>9 DEF StartCheck, StartTask
<1>10. CASE StartProbe
  BY <1>10 DEF StartProbe, StartTask
<1>11. CASE RequestFlash
  BY <1>11 DEF RequestFlash
<1>12. CASE StartFlash
  BY <1>12 DEF StartFlash, StartTask
<1>13. CASE RequestPreview
  BY <1>13 DEF RequestPreview
<1>14. CASE StartPreview
  BY <1>14 DEF StartPreview, StartTask
<1>15. CASE Refuse
  BY <1>15 DEF Refuse
<1>16. ASSUME NEW i \in Images, Stage(i) PROVE flash' = flash
  BY <1>16 DEF Stage
<1>17. CASE Clear
  BY <1>17 DEF Clear
<1>18. CASE Begin
  BY <1>18 DEF Begin, Goto
<1>19. CASE RawBegin
  BY <1>19 DEF RawBegin, Goto, Finish
<1>20. CASE Enter
  BY <1>20 DEF Enter, Goto
<1>21. CASE ReadBootInfo
  BY <1>21 DEF ReadBootInfo, Goto
<1>22. CASE Compare
  BY <1>22 DEF Compare, Goto
<1>23. CASE Admit
  BY <1>23 DEF Admit, Goto
<1>24. CASE WritePage
  BY <1>24 DEF WritePage, Lands, Advance, Last, Goto
<1>25. CASE WriteFails
  BY <1>25 DEF WriteFails, Lands, Goto
<1>26. CASE VerifyPage
  BY <1>26 DEF VerifyPage, Advance, Last, Goto
<1>27. CASE EndRaw
  BY <1>27 DEF EndRaw, LeaveRaw, Goto, Finish
<1>28. CASE StoreCheck
  BY <1>28 DEF StoreCheck, Goto, Finish
<1>29. CASE StorePreview
  BY <1>29 DEF StorePreview, Finish
<1>30. CASE Banner
  BY <1>30 DEF Banner, Finish
<1>31. CASE Noise
  BY <1>31 DEF Noise
<1>32. CASE Drain
  BY <1>32 DEF Drain, Goto
<1> QED
  BY <1>1, <1>2, <1>3, <1>4, <1>5, <1>6, <1>7, <1>8, <1>9, <1>10, <1>11, <1>12, <1>13, <1>14, <1>15, <1>16, <1>17, <1>18, <1>19, <1>20, <1>21, <1>22, <1>23, <1>24, <1>25, <1>26, <1>27, <1>28, <1>29, <1>30, <1>31, <1>32 DEF Next, Usb, Handlers, Background

\* Every step keeps the chips recoverable and their bootloaders intact.
LEMMA ChipStep ==
  ASSUME IInv, [Next]_vars
  PROVE  Recoverable' /\ BootloaderIntact'
<1>1. CASE UNCHANGED flash
  BY <1>1 DEF IInv, Recoverable, BootloaderIntact
<1>2. ASSUME pc = "write", Talking, NEW v \in {Buffer(page), DamagedPage}, Lands(v)
      PROVE  Recoverable' /\ BootloaderIntact'
  <2>1. /\ port \in SVS /\ page \in Pages
        /\ flash' = [flash EXCEPT ![port] = [flash[port] EXCEPT ![page] = v]]
        /\ Compatible(Boot[port]) /\ page < Boot[port].space
        /\ v \in {Programmed(work.image, Boot[port], page), DamagedPage}
    BY <1>2, LandsEffect
  <2>2. flash \in [SVS -> [Pages -> PageVal]]
    BY DEF IInv, TypeOK
  <2>3. 0 \in Pages /\ Boot \in [SVS -> BootInfos]
    BY PagesAssumption, ChipAssumption DEF Pages
  <2>4. ASSUME NEW s \in SVS, NEW p \in Pages, s # port \/ p # page
        PROVE  flash'[s][p] = flash[s][p]
    BY <2>1, <2>2, <2>4
  <2>5. flash'[port][page] = v
    BY <2>1, <2>2
  <2>6. Recoverable'
    <3> SUFFICES ASSUME NEW s \in SVS, Vector(Boot[s]), flash'[s][0].image \in Images
                 PROVE  flash'[s][0].jump = Boot[s].space
      BY DEF Recoverable
    <3>1. CASE s = port /\ page = 0
      BY <3>1, <2>1, <2>5, ImageAssumption DEF Programmed, DamagedPage
    <3>2. CASE s # port \/ page # 0
      BY <3>2, <2>3, <2>4 DEF IInv, Recoverable
    <3> QED
      BY <3>1, <3>2
  <2>7. BootloaderIntact'
    <3> SUFFICES ASSUME NEW s \in SVS, NEW p \in Pages,
                        ~Compatible(Boot[s]) \/ p >= Boot[s].space
                 PROVE  flash'[s][p] = Delivered(s)[p]
      BY DEF BootloaderIntact
    <3>1. s # port \/ p # page
      BY <2>1, <2>3 DEF Pages, BootInfos
    <3> QED
      BY <3>1, <2>4 DEF IInv, BootloaderIntact
  <2> QED
    BY <2>6, <2>7
<1> QED
  BY <1>1, <1>2, FlashSteps

-----------------------------------------------------------------------------
\* The inductive invariant holds in every reachable state.
LEMMA IInvHolds == Spec => []IInv
<1>1. IInv /\ [Next]_vars => IInv'
  BY TypeStep, LinkStep, ArmedStep, SessionStep, WritingStep, ChipStep DEF IInv
<1> QED
  BY InitIInv, <1>1, PTL DEF Spec

\* svs_flasher.cpp: every variable keeps its type, and flash_task never
\* indexes a page past the end of its image.
THEOREM TypeCorrect == Spec => []TypeOK
<1>1. IInv => TypeOK
  BY DEF IInv
<1> QED
  BY IInvHolds, <1>1, PTL

\* svs_flasher.h: however flashes are interrupted, repeated or cut short by
\* SVSs being swapped, an SVS that holds firmware from the bridge in its reset
\* page starts its own bootloader. For any number of SVSs and bootloaders.
THEOREM AlwaysRecoverable == Spec => []Recoverable
<1>1. IInv => Recoverable
  BY DEF IInv
<1> QED
  BY IInvHolds, <1>1, PTL

\* evaluate and the size checks of flash_task: no page at or above the start
\* of a bootloader is ever programmed, nor any page of an SVS the bridge
\* does not know how to flash.
THEOREM BootloaderAlwaysIntact == Spec => []BootloaderIntact
<1>1. IInv => BootloaderIntact
  BY DEF IInv
<1> QED
  BY IInvHolds, <1>1, PTL

\* raw_begin and raw_end: no way out of a task, not even one taken because
\* the SVS was pulled, leaves svs_usb in raw mode.
THEOREM RawAlwaysHasOwner == Spec => []RawHasOwner
<1>1. IInv => RawHasOwner
  BY DEF IInv, Link
<1> QED
  BY IInvHolds, <1>1, PTL

\* An update comes to be reported only by the last page read back.
LEMMA ReportStep ==
  ASSUME IInv, [Next]_vars, task' = "Flashing", good', ~(task = "Flashing" /\ good)
  PROVE  VerifyPage /\ Talking /\ ReadsBack(page) /\ Last
<1> Link /\ Writing
  BY DEF IInv
<1> USE DEF usbVars, jobVars, flasherVars
<1>1. CASE UNCHANGED vars
  BY <1>1 DEF Link, Writing, vars
<1>2. ASSUME NEW s \in SVS, Plug(s) PROVE FALSE
  BY <1>2 DEF Link, Writing, Plug
<1>3. CASE Unplug
  BY <1>3 DEF Link, Writing, Unplug
<1>4. CASE Open
  BY <1>4 DEF Link, Writing, Open
<1>5. CASE Close
  BY <1>5 DEF Link, Writing, Close
<1>6. CASE BootTimeout
  BY <1>6 DEF Link, Writing, BootTimeout
<1>7. CASE PowerCut
  BY <1>7 DEF Link, Writing, PowerCut
<1>8. CASE BridgeRestart
  BY <1>8 DEF Link, Writing, BridgeRestart
<1>9. CASE StartCheck
  BY <1>9 DEF Link, Writing, StartCheck, StartTask
<1>10. CASE StartProbe
  BY <1>10 DEF Link, Writing, StartProbe, StartTask
<1>11. CASE RequestFlash
  BY <1>11 DEF Link, Writing, RequestFlash
<1>12. CASE StartFlash
  BY <1>12 DEF Link, Writing, StartFlash, StartTask
<1>13. CASE RequestPreview
  BY <1>13 DEF Link, Writing, RequestPreview
<1>14. CASE StartPreview
  BY <1>14 DEF Link, Writing, StartPreview, StartTask
<1>15. CASE Refuse
  BY <1>15 DEF Link, Writing, Refuse
<1>16. ASSUME NEW i \in Images, Stage(i) PROVE FALSE
  BY <1>16 DEF Link, Writing, Stage
<1>17. CASE Clear
  BY <1>17 DEF Link, Writing, Clear
<1>18. CASE Begin
  BY <1>18 DEF Link, Writing, Begin, Goto
<1>19. CASE RawBegin
  BY <1>19 DEF Link, Writing, RawBegin, Goto, Finish
<1>20. CASE Enter
  BY <1>20 DEF Link, Writing, Enter, Goto
<1>21. CASE ReadBootInfo
  BY <1>21 DEF Link, Writing, ReadBootInfo, Goto
<1>22. CASE Compare
  BY <1>22 DEF Link, Writing, Compare, Goto
<1>23. CASE Admit
  BY <1>23 DEF Link, Writing, Admit, Goto
<1>24. CASE WritePage
  BY <1>24 DEF Link, Writing, WritePage, Lands, Advance, Last, Goto
<1>25. CASE WriteFails
  BY <1>25 DEF Link, Writing, WriteFails, Lands, Goto
<1>26. CASE VerifyPage
  BY <1>26 DEF Link, Writing, VerifyPage, Advance, Last, Goto
<1>27. CASE EndRaw
  BY <1>27, EndRawCases DEF Writing, Goto, Finish, IInv
<1>28. CASE StoreCheck
  BY <1>28 DEF Link, Writing, StoreCheck, Goto, Finish
<1>29. CASE StorePreview
  BY <1>29 DEF Link, Writing, StorePreview, Finish
<1>30. CASE Banner
  BY <1>30 DEF Link, Writing, Banner, Finish
<1>31. CASE Noise
  BY <1>31 DEF Link, Writing, Noise
<1>32. CASE Drain
  BY <1>32 DEF Link, Writing, Drain, Goto
<1> QED
  BY <1>1, <1>2, <1>3, <1>4, <1>5, <1>6, <1>7, <1>8, <1>9, <1>10, <1>11, <1>12, <1>13, <1>14, <1>15, <1>16, <1>17, <1>18, <1>19, <1>20, <1>21, <1>22, <1>23, <1>24, <1>25, <1>26, <1>27, <1>28, <1>29, <1>30, <1>31, <1>32 DEF Next, Usb, Handlers, Background

\* FirmwareUpdate and the flasher mean the same by the terms of SvsChip.
LEMMA PromiseChip ==
  /\ Promise!Pages = Pages
  /\ Promise!DamagedPage = DamagedPage
  /\ \A s : Promise!Delivered(s) = Delivered(s)
  /\ \A b : Promise!Compatible(b) = Compatible(b)
  /\ \A i, b, p : Promise!Programmed(i, b, p) = Programmed(i, b, p)
  /\ \A i, b : Promise!Suits(i, b) = Suits(i, b)
BY DEF Promise!Pages, Pages, Promise!DamagedPage, DamagedPage, Promise!Delivered, Delivered,
       Promise!Compatible, Compatible, Promise!Programmed, Programmed, Promise!Vector, Vector,
       Promise!Suits, Suits

\* Every step of the flasher is a step FirmwareUpdate allows, or none.
LEMMA PromiseStep ==
  ASSUME IInv, [Next]_vars
  PROVE  [Promise!Next]_(Promise!vars)
<1> DEFINE report == task = "Flashing" /\ good
<1>1. CASE UNCHANGED flash
  <2>1. CASE ~report'
    BY <1>1, <2>1 DEF Promise!Next, Promise!Settle
  <2>2. CASE report /\ report'
    BY <1>1, <2>2 DEF Promise!vars
  <2>3. CASE ~report /\ report'
    <3>1. pc = "verify" /\ Talking /\ ReadsBack(page) /\ page + 1 = Size[work.image]
      BY <2>3, ReportStep DEF VerifyPage, Last
    <3>2. port \in SVS /\ work.image \in Images /\ work.boot = Boot[port]
      BY <3>1, WritesOwnBootloader
    <3>3. ASSUME NEW q \in 0..(Size[work.image] - 1)
          PROVE  flash[port][q] = Programmed(work.image, Boot[port], q)
      <4>1. CASE q = page
        BY <4>1, <3>1, <3>2 DEF ReadsBack, Buffer
      <4>2. CASE ~(q = page)
        <5>1. q \in 0..(page - 1)
          BY <3>1, <4>2 DEF IInv, TypeOK
        <5> QED
          BY <5>1, <3>1, <3>2 DEF IInv, Writing, Buffer
      <4> QED
        BY <4>1, <4>2
    <3> QED
      BY <1>1, <2>3, <3>2, <3>3, PromiseChip DEF Promise!Next, Promise!Report
  <2> QED
    BY <2>1, <2>2, <2>3
<1>2. ASSUME pc = "write", Talking, NEW v \in {Buffer(page), DamagedPage}, Lands(v),
             ~(UNCHANGED flash)
      PROVE  Promise!Next
  <2>1. /\ port \in SVS /\ page \in Pages
        /\ flash' = [flash EXCEPT ![port] = [flash[port] EXCEPT ![page] = v]]
        /\ Compatible(Boot[port])
        /\ v \in {Programmed(work.image, Boot[port], page), DamagedPage}
        /\ work.image \in Images /\ Suits(work.image, Boot[port])
        /\ page < Size[work.image]
    BY <1>2, LandsEffect
  <2>2. work.boot = Boot[port]
    BY <1>2, WritesOwnBootloader
  <2>3. \A q \in 0..(page - 1) :
          flash[port][q] \in {Programmed(work.image, Boot[port], q), DamagedPage}
    BY <1>2, <2>2 DEF IInv, Writing, Buffer
  <2>4. ~report /\ ~report'
    <3>1. ~good
      BY <1>2 DEF IInv, Writing
    <3>2. CASE report'
      BY <1>2, <3>1, <3>2, ReportStep DEF VerifyPage
    <3> QED
      BY <3>1, <3>2
  <2>5. Promise!ProgramPage(port, work.image, page)
    BY <2>1, <2>3, <2>4, PromiseChip DEF Promise!ProgramPage
  <2> QED
    BY <2>1, <2>5, PromiseChip DEF Promise!Next
<1> QED
  BY <1>1, <1>2, FlashSteps

\* The flasher keeps the promise of FirmwareUpdate: pages are programmed in
\* order, for the bootloader of the very chip they land on, and success is
\* reported only of a chip that holds the whole image.
THEOREM FlasherKeepsPromise == Spec => KeepsPromise
<1>1. Init => Promise!Init
  BY PromiseChip DEF Init, Promise!Init
<1> QED
  BY IInvHolds, <1>1, PromiseStep, PTL DEF Spec, KeepsPromise, Promise!Spec

-----------------------------------------------------------------------------
(***************************************************************************)
(* What status() shows of a device.  That needs more than IInv: a check or *)
(* a preview is of the connection it was made on, however late its result  *)
(* is stored.                                                              *)
(***************************************************************************)

\* What check_task found, or is about to keep, is about the SVS that is still open.
Checked ==
  /\ device.vector => device.compatible
  /\ device.compatible => device.checked
  /\ device.verified => device.vector
  /\ checkedConnection <= connections /\ conn <= connections
  /\ task = "Checking" /\ connections = conn /\ dev # NoSvs /\ bi # NoBoot =>
       bi \in {Boot[dev], SyncOnly(Boot[dev])}
  /\ CheckHolds

\* preview_task works with what the last check found, and what it confirmed stays so.
Previewed ==
  /\ handler = "preview" \/ task = "Previewing" => device.vector
  /\ task = "Previewing" /\ pc # "start" => work.device = device /\ work.boot = checkedBoot
  /\ task = "Previewing" /\ good /\ connections = checkedConnection /\ dev # NoSvs =>
       flash[dev][0].jump = Boot[dev].space
  /\ PreviewHolds

\* What is known of the open device
known == <<device, checkedBoot, checkedConnection, connections, dev>>

\* The steps, told apart by what they do to the state of a check
LEMMA CheckingSteps ==
  ASSUME IInv, [Next]_vars
  PROVE  \/ UNCHANGED <<known, conn, bi, task>>
         \/ UNCHANGED known /\ \E ok \in BOOLEAN : Finish(ok)
         \/ \E t \in Tasks : StartTask(t)
         \/ Close \/ Open \/ BridgeRestart \/ Begin \/ Enter \/ ReadBootInfo
         \/ StoreCheck \/ StorePreview
<1> TypeOK /\ Link
  BY DEF IInv
<1> USE DEF known, usbVars, jobVars, flasherVars
<1>1. CASE UNCHANGED vars
  BY <1>1 DEF vars
<1>2. CASE (\E s \in SVS : Plug(s)) \/ Unplug \/ BootTimeout \/ PowerCut \/ Noise
  BY <1>2 DEF Plug, Unplug, BootTimeout, PowerCut, Noise
<1>3. CASE StartCheck \/ StartProbe \/ StartFlash \/ StartPreview
  BY <1>3 DEF StartCheck, StartProbe, StartFlash, StartPreview, Tasks
<1>4. CASE RequestFlash \/ RequestPreview \/ Refuse \/ Clear \/ \E i \in Images : Stage(i)
  BY <1>4 DEF RequestFlash, RequestPreview, Refuse, Clear, Stage
<1>5. CASE RawBegin
  BY <1>5 DEF RawBegin, Goto
<1>6. CASE Drain \/ Compare \/ Admit \/ WriteFails
  BY <1>6 DEF Drain, Compare, Admit, WriteFails, Goto
<1>7. CASE WritePage \/ VerifyPage
  BY <1>7 DEF WritePage, VerifyPage, Advance, Goto
<1>8. CASE EndRaw
  BY <1>8, EndRawCases DEF Goto
<1>9. CASE Banner
  <2> DEFINE ok == task = "Checking" => device.compatible
  <2>1. ok \in BOOLEAN /\ Finish(ok)
    BY <1>9 DEF Banner
  <2> HIDE DEF ok
  <2>2. PICK done \in BOOLEAN : Finish(done)
    BY <2>1
  <2> QED
    BY <1>9, <2>2 DEF Banner
<1> QED
  BY <1>1, <1>2, <1>3, <1>4, <1>5, <1>6, <1>7, <1>8, <1>9 DEF Next, Usb, Handlers, Background

\* Every step keeps what is known of the open device.
LEMMA CheckStep ==
  ASSUME IInv, Checked, Previewed, [Next]_vars
  PROVE  Checked'
<1> TypeOK /\ Link /\ Session
  BY DEF IInv
<1> USE DEF known, usbVars, jobVars, flasherVars, CheckHolds, ShownDevice
<1>0. connections \in Nat /\ checkedConnection \in Nat /\ conn \in Nat /\ dev \in SVS \cup {NoSvs}
  BY DEF TypeOK
<1>1. CASE UNCHANGED <<known, conn, bi, task>>
  BY <1>1 DEF Checked
<1>2. CASE UNCHANGED known /\ \E ok \in BOOLEAN : Finish(ok)
  BY <1>0, <1>2 DEF Checked, Finish
<1>3. ASSUME NEW t \in Tasks, StartTask(t) PROVE Checked'
  BY <1>3 DEF Checked, StartTask, Link, Session
<1>4. CASE Close
  BY <1>4 DEF Checked, Close, NoDevice
<1>5. CASE Open
  BY <1>0, <1>5 DEF Checked, Open, NoDevice
<1>6. CASE BridgeRestart
  BY <1>6 DEF Checked, BridgeRestart, NoDevice
<1>7. CASE Begin
  BY <1>0, <1>7 DEF Checked, Begin, Goto, Session
<1>8. CASE Enter
  BY <1>8 DEF Checked, Enter, Goto, Link
<1>9. CASE ReadBootInfo
  BY <1>9 DEF Checked, ReadBootInfo, Goto, Link, Talking
<1>10. CASE StoreCheck
  <2>1. CASE bi = NoBoot
    BY <1>0, <1>10, <2>1 DEF Checked, StoreCheck, Finish, NoDevice
  <2>2. CASE bi # NoBoot
    <3>1. /\ device' = Evaluate(bi) /\ checkedBoot' = bi /\ checkedConnection' = conn
          /\ UNCHANGED <<connections, dev, conn, bi, task>>
      BY <1>10, <2>2 DEF StoreCheck, Goto
    <3>2. /\ device'.checked /\ ~device'.verified
          /\ device'.compatible <=> Compatible(bi)
          /\ device'.vector <=> Vector(bi)
          /\ Compatible(bi) => device'.space = bi.space
      BY <3>1 DEF Evaluate
    <3>3. CheckHolds'
      <4> SUFFICES ASSUME dev # NoSvs, connections = conn, Compatible(bi)
                   PROVE  bi = Boot[dev]
        BY <3>1, <3>2 DEF NoDevice
      <4>1. bi \in {Boot[dev], SyncOnly(Boot[dev])} /\ Boot[dev] \in BootInfos
        BY <1>0, <1>10, <2>2, ChipAssumption DEF Checked, StoreCheck
      <4> QED
        BY <4>1, SyncNotFlashable
    <3> HIDE DEF CheckHolds
    <3> QED
      BY <1>0, <3>1, <3>2, <3>3 DEF Checked, Compatible, Vector
  <2> QED
    BY <2>1, <2>2
<1>11. CASE StorePreview
  <2>1. /\ device'.checked = device.checked /\ device'.compatible = device.compatible
        /\ device'.vector = device.vector /\ device'.space = device.space /\ device.vector
    BY <1>11 DEF Previewed, StorePreview, TypeOK, Devices
  <2>2. UNCHANGED <<checkedBoot, checkedConnection, connections, dev>> /\ task' = "Idle" /\ conn' = 0
    BY <1>11 DEF StorePreview, Finish
  <2>3. CheckHolds'
    BY <2>1, <2>2, Zenon DEF Checked, NoDevice
  <2> HIDE DEF CheckHolds
  <2> QED
    BY <1>0, <2>1, <2>2, <2>3 DEF Checked
<1> QED
  BY <1>1, <1>2, <1>3, <1>4, <1>5, <1>6, <1>7, <1>8, <1>9, <1>10, <1>11, CheckingSteps

\* A page that flash_task writes does not take away what a preview confirmed.
LEMMA WritesWhatIsShown ==
  ASSUME IInv, Checked, Previewed, pc = "write", Talking,
         NEW v \in {Buffer(page), DamagedPage}, Lands(v),
         device.verified, device.checked => connections = checkedConnection /\ dev # NoSvs
  PROVE  flash'[dev][0].jump = Boot[dev].space \/ flash'[dev][0] = DamagedPage
<1>1. /\ port \in SVS /\ page \in Pages
      /\ flash' = [flash EXCEPT ![port] = [flash[port] EXCEPT ![page] = v]]
      /\ v \in {Programmed(work.image, Boot[port], page), DamagedPage}
  BY LandsEffect
<1>2. dev = port
  BY DEF IInv, Link, Talking
<1>3. device.checked /\ device.compatible /\ device.vector
  BY DEF Checked
<1>4. Vector(Boot[dev])
  BY <1>3, Zenon DEF Checked, CheckHolds, ShownDevice, IInv, Armed, Describes
<1>5. flash[dev][0].jump = Boot[dev].space \/ flash[dev][0] = DamagedPage
  BY <1>3, Zenon DEF Previewed, PreviewHolds, ShownDevice
<1>6. flash \in [SVS -> [Pages -> PageVal]] /\ 0 \in Pages
  BY PagesAssumption DEF IInv, TypeOK, Pages
<1>7. CASE page = 0
  BY <1>1, <1>2, <1>4, <1>6, <1>7 DEF Programmed
<1>8. CASE page # 0
  BY <1>1, <1>2, <1>5, <1>6, <1>8
<1> QED
  BY <1>7, <1>8

\* The steps, told apart by what they do to the state of a preview
LEMMA PreviewingSteps ==
  ASSUME IInv, [Next]_vars
  PROVE  \/ /\ UNCHANGED <<known, handler, task, work>>
            /\ pc = "start" <=> pc' = "start"
            /\ UNCHANGED good \/ task # "Previewing"
         \/ UNCHANGED <<known, handler, flash>> /\ \E ok \in BOOLEAN : Finish(ok)
         \/ RequestPreview \/ StartPreview \/ StartCheck \/ StartProbe \/ StartFlash
         \/ UNCHANGED <<known, task, pc, flash, work, good>> /\ handler' \in {"none", "flash"}
         \/ Close \/ Open \/ BridgeRestart \/ Begin \/ Compare \/ StoreCheck \/ StorePreview
<1> TypeOK /\ Link /\ Writing
  BY DEF IInv
<1> USE DEF known, usbVars, jobVars, flasherVars
<1>1. CASE UNCHANGED vars
  BY <1>1 DEF vars
<1>2. CASE (\E s \in SVS : Plug(s)) \/ Unplug \/ BootTimeout \/ PowerCut \/ Noise
  BY <1>2 DEF Plug, Unplug, BootTimeout, PowerCut, Noise
<1>3. CASE RequestFlash \/ Refuse
  BY <1>3 DEF RequestFlash, Refuse
<1>4. CASE Clear \/ \E i \in Images : Stage(i)
  BY <1>4 DEF Clear, Stage
<1>5. CASE RawBegin
  BY <1>5 DEF RawBegin, Goto
<1>6. CASE Enter \/ Drain \/ ReadBootInfo
  <2>1. pc # "start" /\ pc' # "start"
    BY <1>6 DEF Enter, Drain, ReadBootInfo, Goto
  <2> QED
    BY <1>6, <2>1 DEF Enter, Drain, ReadBootInfo, Goto
<1>7. CASE Admit \/ WriteFails \/ WritePage
  <2>1. pc # "start" /\ pc' # "start"
    BY <1>7 DEF Admit, WriteFails, WritePage, Advance, Goto
  <2> QED
    BY <1>7, <2>1 DEF Admit, WriteFails, WritePage, Advance, Goto
<1>8. CASE VerifyPage
  <2>1. pc # "start" /\ pc' # "start" /\ task # "Previewing"
    BY <1>8 DEF VerifyPage, Advance, Goto, Writing
  <2> QED
    BY <1>8, <2>1 DEF VerifyPage, Advance, Goto
<1>9. CASE EndRaw
  BY <1>9, EndRawCases DEF Goto
<1>10. CASE Banner
  <2> DEFINE ok == task = "Checking" => device.compatible
  <2>1. ok \in BOOLEAN /\ Finish(ok)
    BY <1>10 DEF Banner
  <2> HIDE DEF ok
  <2>2. PICK done \in BOOLEAN : Finish(done)
    BY <2>1
  <2> QED
    BY <1>10, <2>2 DEF Banner
<1> QED
  BY <1>1, <1>2, <1>3, <1>4, <1>5, <1>6, <1>7, <1>8, <1>9, <1>10 DEF Next, Usb, Handlers, Background

\* Every step keeps what a preview confirmed.
LEMMA PreviewStep ==
  ASSUME IInv, Checked, Previewed, [Next]_vars
  PROVE  Previewed'
<1> TypeOK /\ Link /\ Armed /\ Writing
  BY DEF IInv
<1> USE DEF known, usbVars, jobVars, flasherVars
<1>0. connections \in Nat /\ checkedConnection \in Nat /\ dev \in SVS \cup {NoSvs}
  BY DEF TypeOK
<1>1. CASE /\ UNCHANGED <<known, handler, task, work>>
           /\ pc = "start" <=> pc' = "start"
           /\ UNCHANGED good \/ task # "Previewing"
  <2>1. PreviewHolds'
    <3>1. CASE UNCHANGED flash
      BY <1>1, <3>1 DEF Previewed, PreviewHolds, ShownDevice
    <3>2. CASE pc = "write" /\ Talking /\ \E v \in {Buffer(page), DamagedPage} : Lands(v)
      <4> SUFFICES ASSUME ShownDevice'.verified
                   PROVE  flash'[dev][0].jump = Boot[dev].space \/ flash'[dev][0] = DamagedPage
        BY <1>1 DEF PreviewHolds
      <4>1. device.verified /\ (device.checked => connections = checkedConnection /\ dev # NoSvs)
        BY <1>1 DEF ShownDevice, NoDevice
      <4> QED
        BY <3>2, <4>1, WritesWhatIsShown
    <3> QED
      BY <3>1, <3>2, FlashSteps
  <2>2. task = "Previewing" => UNCHANGED flash
    BY FlashSteps DEF Writing
  <2> QED
    BY <1>1, <2>1, <2>2 DEF Previewed
<1>2. CASE UNCHANGED <<known, handler, flash>> /\ \E ok \in BOOLEAN : Finish(ok)
  BY <1>2 DEF Previewed, PreviewHolds, ShownDevice, Finish
<1>3. CASE RequestPreview \/ StartPreview
  BY <1>3 DEF Previewed, PreviewHolds, ShownDevice, RequestPreview, StartPreview, StartTask, Link,
              Writing
<1>4. CASE StartCheck \/ StartProbe \/ StartFlash
  BY <1>4 DEF Previewed, PreviewHolds, ShownDevice, StartCheck, StartProbe, StartFlash, StartTask
<1>5. CASE UNCHANGED <<known, task, pc, flash, work, good>> /\ handler' \in {"none", "flash"}
  BY <1>5 DEF Previewed, PreviewHolds, ShownDevice
<1>6. CASE Close
  BY <1>6 DEF Previewed, Checked, PreviewHolds, ShownDevice, NoDevice, Close
<1>7. CASE Open
  BY <1>0, <1>7 DEF Previewed, Checked, PreviewHolds, ShownDevice, NoDevice, Open
<1>8. CASE BridgeRestart
  BY <1>8 DEF Previewed, PreviewHolds, ShownDevice, NoDevice, BridgeRestart
<1>9. CASE Begin
  <2>1. task = "Previewing" => work' = [image |-> image, boot |-> checkedBoot, device |-> device]
    BY <1>9 DEF Begin
  <2> QED
    BY <1>9, <2>1 DEF Previewed, PreviewHolds, ShownDevice, Begin, Goto
<1>10. CASE Compare
  <2>1. task = "Previewing" /\ pc # "start" /\ device.vector
    BY <1>10 DEF Compare, Writing, Previewed
  <2>2. UNCHANGED <<known, handler, task, work, flash>> /\ pc' # "start"
    BY <1>10 DEF Compare, Goto
  <2>3. good' /\ connections = checkedConnection /\ dev # NoSvs => flash[dev][0].jump = Boot[dev].space
    <3> SUFFICES ASSUME good', connections = checkedConnection, dev # NoSvs
                 PROVE  flash[dev][0].jump = Boot[dev].space
      OBVIOUS
    <3>1. Talking /\ flash[port][0].jump = work.device.space
      BY <1>10 DEF Compare
    <3>2. dev = port /\ work.device = device
      BY <2>1, <3>1 DEF Previewed, Link, Talking
    <3>3. device.space = Boot[dev].space
      BY <2>1 DEF Checked, CheckHolds, ShownDevice
    <3> QED
      BY <3>1, <3>2, <3>3
  <2> QED
    BY <2>1, <2>2, <2>3 DEF Previewed, PreviewHolds, ShownDevice
<1>11. CASE StoreCheck
  <2>1. ~device'.verified /\ ~NoDevice.verified
    <3>1. ~NoDevice.verified /\ ~Evaluate(bi).verified
      BY DEF NoDevice, Evaluate
    <3>2. device' = NoDevice \/ device' = Evaluate(bi)
      BY <1>11 DEF StoreCheck
    <3> QED
      BY <3>1, <3>2, Zenon
  <2>2. task = "Checking" /\ task' # "Previewing" /\ UNCHANGED handler /\ handler # "preview"
    BY <1>11 DEF StoreCheck, Finish, Goto, Armed
  <2> QED
    BY <2>1, <2>2 DEF Previewed, PreviewHolds, ShownDevice
<1>12. CASE StorePreview
  <2>1. /\ device'.checked = device.checked /\ device'.vector = device.vector
        /\ device'.verified = good
    BY <1>12 DEF StorePreview, TypeOK, Devices
  <2>2. /\ UNCHANGED <<checkedConnection, connections, dev, flash, handler>> /\ task' = "Idle"
        /\ task = "Previewing" /\ device.vector /\ device.checked
    BY <1>12 DEF StorePreview, Finish, Previewed, Checked
  <2>3. PreviewHolds'
    <3> SUFFICES ASSUME ShownDevice'.verified
                 PROVE  flash[dev][0].jump = Boot[dev].space
      BY <2>2 DEF PreviewHolds
    <3>1. good /\ connections = checkedConnection /\ dev # NoSvs
      BY <2>1, <2>2 DEF ShownDevice, NoDevice
    <3> QED
      BY <2>2, <3>1 DEF Previewed
  <2> QED
    BY <2>1, <2>2, <2>3 DEF Previewed
<1> QED
  BY <1>1, <1>2, <1>3, <1>4, <1>5, <1>6, <1>7, <1>8, <1>9, <1>10, <1>11, <1>12, PreviewingSteps

LEMMA ShownHolds == Spec => [](Checked /\ Previewed)
<1>1. Init => Checked /\ Previewed
  BY DEF Init, Checked, Previewed, CheckHolds, PreviewHolds, ShownDevice, NoDevice
<1>2. IInv /\ Checked /\ Previewed /\ [Next]_vars => Checked' /\ Previewed'
  BY CheckStep, PreviewStep
<1> QED
  BY <1>1, <1>2, IInvHolds, PTL DEF Spec

\* status(): a device shown as flashable is the open one, with the bootloader and the
\* room that the last check found, however SVSs were swapped while it ran.
THEOREM ChecksHold == Spec => []CheckHolds
<1>1. Checked => CheckHolds
  BY DEF Checked
<1> QED
  BY <1>1, ShownHolds, PTL

\* status(): a device shown as confirmed by a preview jumps to its own bootloader, or
\* lost its reset page in a flash that was cut short.
THEOREM PreviewsHold == Spec => []PreviewHolds
<1>1. Previewed => PreviewHolds
  BY DEF Previewed
<1> QED
  BY <1>1, ShownHolds, PTL
=============================================================================
