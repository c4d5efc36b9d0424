----------------------------- MODULE SvsFlasher -----------------------------
(***************************************************************************)
(* Firmware updates of the SVS over USB: svs_flasher.cpp on top of the raw  *)
(* mode of svs_usb.cpp, driven by the handlers of web_server.cpp.           *)
(*                                                                         *)
(* Three parties interleave: the HTTPS server task, which runs one handler  *)
(* at a time; the one background task a handler may start (check, preview,  *)
(* flash or diagnostics), whose steps are the calls it makes to svs_usb;    *)
(* and the USB side, where an SVS can be pulled and another one plugged in  *)
(* at any moment, before device_task has noticed the first one go.          *)
(*                                                                         *)
(* Simplifications: one exchange with the bootloader is one step, with      *)
(* every outcome it can have; progress texts and the banner's wording are   *)
(* left out; the reads of status() are one step.                           *)
(***************************************************************************)
EXTENDS SvsChip

CONSTANT MaxConnections  \* bound on the connections counted between restarts

VARIABLES
  port,        \* the SVS in the USB port, NoSvs when it is empty
  mode,        \* "boot": that SVS runs its bootloader; "app" otherwise
  flash,       \* flash[s][p]: page p of the chip of s
  noisy,       \* that SVS sends without a pause of DRAIN_QUIET, while a task drains the line
  dev,         \* s_dev: the SVS device_task has open
  alive,       \* the open handle still reaches the SVS in the port
  raw,         \* s_raw
  connections, \* s_info.connections
  task,        \* s_task
  pc,          \* where the background task is
  image,       \* s_image / s_image_info
  device,      \* s_device
  checkedBoot, \* s_checked_boot
  checkedConnection, \* s_checked_connection
  result,      \* s_result_of, s_result_ok
  handler,     \* a start_flash or start_preview between its two locks
  bi,          \* BootInfo read in this bootloader session
  attempt,     \* enter_bootloader's loop index
  conn,        \* check_task's copy of connections
  work,        \* the task's copies of image, s_checked_boot and s_device
  page,        \* flash_task's loop index
  good         \* the task's outcome so far

usbVars == <<port, mode, noisy, dev, alive, connections>>
jobVars == <<bi, attempt, conn, work, page, good>>
flasherVars == <<image, device, checkedBoot, checkedConnection>>
vars == <<port, mode, noisy, flash, dev, alive, raw, connections, task, pc, image, device,
          checkedBoot, checkedConnection, result, handler, bi, attempt, conn, work, page, good>>

Tasks == {"Checking", "Flashing", "Probing", "Previewing"}
Steps == {"idle", "start", "raw", "enter", "drain", "info", "compare", "admit", "write",
          "verify", "leave", "store", "banner"}

ResetTimings == 2  \* the entries of RESET_TIMINGS

NoBoot == [kind |-> "none", space |-> 0]
NoDevice == [checked |-> FALSE, compatible |-> FALSE, vector |-> FALSE,
             verified |-> FALSE, space |-> 0]
NoResult == [of |-> "Idle", ok |-> FALSE]
NoWork == [image |-> NoImage, boot |-> NoBoot, device |-> NoDevice]

Devices == [checked : BOOLEAN, compatible : BOOLEAN, vector : BOOLEAN,
            verified : BOOLEAN, space : 0..FlashPages]

TypeOK ==
  /\ port \in SVS \cup {NoSvs}
  /\ mode \in {"app", "boot"}
  /\ noisy \in BOOLEAN
  /\ flash \in [SVS -> [Pages -> PageVal]]
  /\ dev \in SVS \cup {NoSvs}
  /\ alive \in BOOLEAN
  /\ raw \in BOOLEAN
  /\ connections \in Nat
  /\ task \in Tasks \cup {"Idle"}
  /\ pc \in Steps
  /\ image \in Images \cup {NoImage}
  /\ device \in Devices
  /\ checkedBoot \in BootInfos
  /\ checkedConnection \in Nat
  /\ result \in [of : Tasks \cup {"Idle"}, ok : BOOLEAN]
  /\ handler \in {"none", "flash", "preview"}
  /\ bi \in BootInfos
  /\ attempt \in Nat
  /\ conn \in Nat
  /\ work \in [image : Images \cup {NoImage}, boot : BootInfos, device : Devices]
  /\ page \in Nat
  /\ pc \in {"write", "verify"} =>
       work.image \in Images /\ page < Size[work.image]
  /\ good \in BOOLEAN

-----------------------------------------------------------------------------
(* What the flasher decides from what it knows *)

\* The sync bytes alone: the kinds the table tells apart look the same.
SyncOnly(b) == IF b.kind \in TableKinds THEN [kind |-> "no_table", space |-> 0] ELSE b

SameBootloaderKind(a, b) == a.kind = b.kind     \* mutant: the table is not compared
SameBootloader(a, b) == a = b

EvaluateKeepsVerified(b) ==         \* mutant: a new check keeps the old preview
  [checked |-> TRUE, compatible |-> Compatible(b), vector |-> Vector(b),
   verified |-> device.verified, space |-> IF Compatible(b) THEN b.space ELSE 0]

Evaluate(b) ==
  [checked |-> TRUE, compatible |-> Compatible(b), vector |-> Vector(b),
   verified |-> FALSE, space |-> IF Compatible(b) THEN b.space ELSE 0]

ShownWhileOpen ==                   \* mutant: the connection count is not compared
  IF device.checked /\ dev = NoSvs THEN NoDevice ELSE device

\* The device status() shows: a check only holds for the connection it was made on.
ShownDevice ==
  IF device.checked /\ (dev = NoSvs \/ connections # checkedConnection)
  THEN NoDevice ELSE device

FitsOneOver(i, d) == Size[i] <= d.space + 1     \* mutant: off by one page
Fits(i, d) == Size[i] <= d.space

\* status().can_flash
CanFlash ==
  /\ task = "Idle"
  /\ dev # NoSvs
  /\ ShownDevice.compatible
  /\ image # NoImage
  /\ Fits(image, ShownDevice)
  /\ ShownDevice.vector => ShownDevice.verified

\* A bootloader session in which the chip answers
Talking == raw /\ alive /\ mode = "boot"

-----------------------------------------------------------------------------
Init ==
  /\ port = NoSvs
  /\ mode = "app"
  /\ noisy = FALSE
  /\ flash = [s \in SVS |-> Delivered(s)]
  /\ dev = NoSvs
  /\ alive = FALSE
  /\ raw = FALSE
  /\ connections = 0
  /\ task = "Idle"
  /\ pc = "idle"
  /\ image = NoImage
  /\ device = NoDevice
  /\ checkedBoot = NoBoot
  /\ checkedConnection = 0
  /\ result = NoResult
  /\ handler = "none"
  /\ bi = NoBoot
  /\ attempt = 0
  /\ conn = 0
  /\ work = NoWork
  /\ page = 0
  /\ good = FALSE

-----------------------------------------------------------------------------
(* The USB side *)

Plug(s) ==
  /\ port = NoSvs
  /\ port' = s
  /\ mode' = "app"
  /\ UNCHANGED <<noisy, flash, dev, alive, raw, connections, task, pc, flasherVars, result,
                 handler, jobVars>>

\* Pulling the SVS kills the handle at once; svs_usb notices in Close.
Unplug ==
  /\ port # NoSvs
  /\ port' = NoSvs
  /\ mode' = "app"
  /\ alive' = FALSE
  /\ noisy' = FALSE
  /\ UNCHANGED <<flash, dev, raw, connections, task, pc, flasherVars, result,
                 handler, jobVars>>

\* device_task opens the new device
Open ==
  /\ dev = NoSvs
  /\ port # NoSvs
  /\ connections < MaxConnections
  /\ dev' = port
  /\ alive' = TRUE
  /\ connections' = connections + 1
  /\ UNCHANGED <<port, mode, noisy, flash, raw, task, pc, flasherVars, result, handler, jobVars>>

\* device_task gets the disconnect event. Raw mode is not left.
Close ==
  /\ dev # NoSvs
  /\ ~alive
  /\ dev' = NoSvs
  /\ UNCHANGED <<port, mode, noisy, flash, alive, raw, connections, task, pc, flasherVars,
                 result, handler, jobVars>>

\* The bootloader's own watchdog starts the application
BootTimeout ==
  /\ mode = "boot"
  /\ mode' = "app"
  /\ UNCHANGED <<port, noisy, flash, dev, alive, raw, connections, task, pc, flasherVars,
                 result, handler, jobVars>>

\* The SVS starts to send without a pause while a task drains the line, or pauses.
Noise ==
  /\ pc = "drain"
  /\ alive
  /\ noisy' = ~noisy
  /\ UNCHANGED <<port, mode, dev, alive, connections, flash, raw, task, pc, flasherVars,
                 result, handler, jobVars>>

\* The bridge loses power or restarts: nothing of the flasher's state is kept.
BridgeRestart ==
  /\ noisy' = FALSE
  /\ dev' = NoSvs
  /\ alive' = FALSE
  /\ raw' = FALSE
  /\ connections' = 0
  /\ task' = "Idle"
  /\ pc' = "idle"
  /\ image' = NoImage
  /\ device' = NoDevice
  /\ checkedBoot' = NoBoot
  /\ checkedConnection' = 0
  /\ result' = NoResult
  /\ handler' = "none"
  /\ bi' = NoBoot
  /\ attempt' = 0
  /\ conn' = 0
  /\ work' = NoWork
  /\ page' = 0
  /\ good' = FALSE
  /\ UNCHANGED <<port, mode, flash>>

-----------------------------------------------------------------------------
(* Handlers of the HTTPS server: one at a time *)

\* start_task; creating the task can fail.
StartTask(t) ==
  /\ task = "Idle"
  /\ dev # NoSvs
  /\ \/ /\ task' = t
        /\ pc' = "start"
        /\ result' = NoResult
     \/ /\ result' = [of |-> t, ok |-> FALSE]
        /\ UNCHANGED <<task, pc>>
  /\ UNCHANGED <<usbVars, flash, raw, flasherVars, jobVars>>

StartCheck == handler = "none" /\ StartTask("Checking") /\ UNCHANGED handler
StartProbe == handler = "none" /\ StartTask("Probing") /\ UNCHANGED handler

\* start_flash looks at status(), and only then calls start_task.
RequestFlash ==
  /\ handler = "none"
  /\ CanFlash
  /\ handler' = "flash"
  /\ UNCHANGED <<usbVars, flash, raw, task, pc, flasherVars, result, jobVars>>

StartFlash == handler = "flash" /\ handler' = "none" /\ StartTask("Flashing")

\* start_preview looks at s_device, then calls start_task.
RequestPreview ==
  /\ handler = "none"
  /\ task = "Idle"
  /\ device.checked
  /\ device.vector
  /\ handler' = "preview"
  /\ UNCHANGED <<usbVars, flash, raw, task, pc, flasherVars, result, jobVars>>

StartPreview == handler = "preview" /\ handler' = "none" /\ StartTask("Previewing")

\* start_task finds the SVS gone
Refuse ==
  /\ handler # "none"
  /\ dev = NoSvs
  /\ handler' = "none"
  /\ UNCHANGED <<usbVars, flash, raw, task, pc, flasherVars, result, jobVars>>

\* stage_hex, for an upload or a download from the official repository
Stage(i) ==
  /\ handler = "none"
  /\ task = "Idle"
  /\ image' = i
  /\ result' = IF result.of = "Flashing" THEN NoResult ELSE result
  /\ UNCHANGED <<usbVars, flash, raw, task, pc, device, checkedBoot, checkedConnection,
                 handler, jobVars>>

\* A file that cannot be read, downloaded or decoded: clear()
Clear ==
  /\ handler = "none"
  /\ task = "Idle"
  /\ image' = NoImage
  /\ UNCHANGED <<usbVars, flash, raw, task, pc, device, checkedBoot, checkedConnection,
                 result, handler, jobVars>>

-----------------------------------------------------------------------------
(* The background task *)

Goto(step) == pc' = step /\ UNCHANGED <<task, result>>

\* finish(); the task's locals go with it.
Finish(ok) ==
  /\ task' = "Idle"
  /\ pc' = "idle"
  /\ result' = [of |-> task, ok |-> ok]
  /\ bi' = NoBoot
  /\ attempt' = 0
  /\ conn' = 0
  /\ work' = NoWork
  /\ page' = 0
  /\ good' = FALSE

\* What the task copies before it touches the SVS
Begin ==
  /\ pc = "start"
  /\ Goto("raw")
  /\ conn' = IF task = "Checking" THEN connections ELSE conn
  /\ work' = IF task \in {"Flashing", "Previewing"}
             THEN [image |-> image, boot |-> checkedBoot, device |-> device] ELSE work
  /\ UNCHANGED <<usbVars, flash, raw, flasherVars, handler, bi, attempt, page, good>>

LeaveRawIfOpen == raw' = (dev = NoSvs /\ raw)   \* mutant: raw_end needs a device
LeaveRaw == raw' = FALSE

\* raw_begin, which fails without an SVS, in raw mode or on a USB error
RawBegin ==
  /\ pc = "raw"
  /\ \/ /\ dev # NoSvs /\ ~raw /\ alive
        /\ raw' = TRUE
        /\ Goto("enter")
        /\ UNCHANGED jobVars
     \/ Finish(FALSE) /\ UNCHANGED raw
  /\ UNCHANGED <<usbVars, flash, flasherVars, handler>>

EnterUntilAnswered ==               \* mutant: attempts are not counted
  /\ pc = "enter"
  /\ attempt' = attempt
  /\ \/ /\ raw /\ alive
        /\ mode' = "boot"
        /\ bi' = SyncOnly(Boot[port])
     \/ /\ mode' \in IF raw /\ alive THEN {"app", "boot"} ELSE {mode}
        /\ UNCHANGED bi
  /\ Goto("drain")
  /\ UNCHANGED <<port, noisy, dev, alive, connections, flash, raw, flasherVars, handler,
                 conn, work, page, good>>

\* One attempt of enter_bootloader: a reset pulse, which may work although no reply is
\* understood, and get_sync up to its last raw_drain.
Enter ==
  /\ pc = "enter"
  /\ attempt' = attempt + 1
  /\ \/ /\ raw /\ alive
        /\ mode' = "boot"
        /\ bi' = SyncOnly(Boot[port])
     \/ /\ mode' \in IF raw /\ alive THEN {"app", "boot"} ELSE {mode}
        /\ UNCHANGED bi
  /\ Goto("drain")
  /\ UNCHANGED <<port, noisy, dev, alive, connections, flash, raw, flasherVars, handler,
                 conn, work, page, good>>

\* raw_drain, which ends once nothing came for DRAIN_QUIET, however long that takes; without
\* an answer the next timing is tried.
Drain ==
  /\ pc = "drain"
  /\ ~noisy
  /\ IF bi = NoBoot /\ attempt < ResetTimings
     THEN Goto("enter") /\ UNCHANGED attempt
     ELSE Goto(IF bi = NoBoot THEN "leave" ELSE "info") /\ attempt' = 0
  /\ UNCHANGED <<usbVars, flash, raw, flasherVars, handler, bi, conn, work, page, good>>

\* read_boot_info: the table, when the sync bytes promise one and it arrives
ReadBootInfo ==
  /\ pc = "info"
  /\ bi' \in {bi} \cup
       IF Talking /\ bi.kind = "no_table" THEN {Boot[port]} ELSE {}
  /\ Goto(CASE task = "Previewing" -> "compare"
            [] task = "Flashing"   -> "admit"
            [] OTHER               -> "leave")
  /\ UNCHANGED <<usbVars, flash, raw, flasherVars, handler, attempt, conn, work, page, good>>

\* preview_task: the same bootloader, and its own start in the reset vector
Compare ==
  /\ pc = "compare"
  /\ good' \in {FALSE} \cup
       IF SameBootloader(bi, work.boot) /\ Talking
       THEN {flash[port][0].jump = work.device.space} ELSE {}
  /\ Goto("leave")
  /\ UNCHANGED <<usbVars, flash, raw, flasherVars, handler, bi, attempt, conn, work, page>>

\* flash_task, before anything is written: the same bootloader, room below
\* it, and a reset vector that can be patched
Admit ==
  /\ pc = "admit"
  /\ Goto(IF /\ SameBootloader(bi, work.boot)
             /\ Fits(work.image, work.device)
             /\ work.device.vector => work.image \in Patchable
          THEN "write" ELSE "leave")
  /\ UNCHANGED <<usbVars, flash, raw, flasherVars, handler, jobVars>>

\* What flash_task has in its buffer for a page once patch_vectors ran
Buffer(p) == Programmed(work.image, work.boot, p)

Lands(v) == flash' = [flash EXCEPT ![port] = [@ EXCEPT ![page] = v]]

LastTooLate == page = Size[work.image]          \* mutant: off by one
Last == page + 1 = Size[work.image]

Advance(next) ==
  /\ page' = IF Last THEN 0 ELSE page + 1
  /\ Goto(IF Last THEN next ELSE pc)

\* write_page acknowledged; nothing checks the bytes on the way.
WritePage ==
  /\ pc = "write"
  /\ Talking
  /\ \E v \in {Buffer(page), DamagedPage} : Lands(v)
  /\ Advance("verify")
  /\ UNCHANGED <<usbVars, raw, flasherVars, handler, bi, attempt, conn, work, good>>

\* write_page fails: the page may or may not have been programmed.
WriteFails ==
  /\ pc = "write"
  /\ \/ Talking /\ \E v \in {Buffer(page), DamagedPage} : Lands(v)
     \/ UNCHANGED flash
  /\ Goto("leave")
  /\ UNCHANGED <<usbVars, raw, flasherVars, handler, jobVars>>

\* The power is cut while a page is being programmed.
PowerCut ==
  /\ pc = "write"
  /\ Talking
  /\ \E v \in {Buffer(page), DamagedPage} : Lands(v)
  /\ port' = NoSvs
  /\ mode' = "app"
  /\ alive' = FALSE
  /\ UNCHANGED <<noisy, dev, connections, raw, task, pc, flasherVars, result, handler, jobVars>>

ReadsBackFirst(p) == p = 0 => flash[port][p] = Buffer(p)   \* mutant: only page 0
ReadsBack(p) == flash[port][p] = Buffer(p)

VerifyPage ==
  /\ pc = "verify"
  /\ \/ /\ Talking
        /\ ReadsBack(page)
        /\ Advance("leave")
        /\ good' = Last
     \/ /\ Goto("leave")
        /\ UNCHANGED <<page, good>>
  /\ UNCHANGED <<usbVars, flash, raw, flasherVars, handler, bi, attempt, conn, work>>

\* leave_bootloader, skipped when the bootloader never answered and after a
\* failed flash, then raw_end
EndRaw ==
  /\ pc = "leave"
  /\ LeaveRaw
  /\ mode' \in IF bi # NoBoot /\ (task = "Flashing" => good) /\ Talking
               THEN {"app", "boot"} ELSE {mode}
  /\ CASE task \in {"Checking", "Previewing"} -> Goto("store") /\ UNCHANGED jobVars
       [] task = "Flashing" /\ good           -> Goto("banner") /\ UNCHANGED jobVars
       [] task = "Flashing" /\ ~good          -> Finish(FALSE)
       [] task = "Probing"                    -> Finish(TRUE)
  /\ UNCHANGED <<port, noisy, dev, alive, connections, flash, flasherVars, handler>>

\* check_task keeps what it identified, for the connection it started on.
StoreCheck ==
  /\ pc = "store"
  /\ task = "Checking"
  /\ IF bi = NoBoot
     THEN /\ device' = NoDevice
          /\ Finish(FALSE)
          /\ UNCHANGED <<checkedBoot, checkedConnection>>
     ELSE /\ device' = Evaluate(bi)
          /\ checkedBoot' = bi
          /\ checkedConnection' = conn
          /\ Goto("banner")
          /\ UNCHANGED jobVars
  /\ UNCHANGED <<usbVars, flash, raw, image, handler>>

StorePreview ==
  /\ pc = "store"
  /\ task = "Previewing"
  /\ device' = [device EXCEPT !.verified = good]
  /\ Finish(good)
  /\ UNCHANGED <<usbVars, flash, raw, image, checkedBoot, checkedConnection, handler>>

\* wait_for_banner, then finish
Banner ==
  /\ pc = "banner"
  /\ Finish(task = "Checking" => device.compatible)
  /\ UNCHANGED <<usbVars, flash, raw, flasherVars, handler>>

-----------------------------------------------------------------------------
Usb == (\E s \in SVS : Plug(s)) \/ Unplug \/ Open \/ Close \/ BootTimeout \/ Noise

Handlers ==
  \/ StartCheck \/ StartProbe
  \/ RequestFlash \/ StartFlash
  \/ RequestPreview \/ StartPreview
  \/ Refuse
  \/ \E i \in Images : Stage(i)
  \/ Clear

Background ==
  \/ Begin \/ RawBegin \/ Enter \/ Drain \/ ReadBootInfo \/ Compare \/ Admit
  \/ WritePage \/ WriteFails \/ VerifyPage
  \/ EndRaw \/ StoreCheck \/ StorePreview \/ Banner

Next == Usb \/ PowerCut \/ BridgeRestart \/ Handlers \/ Background

Spec == Init /\ [][Next]_vars

\* Every wait of a task has a timeout, so a task that was started goes on, but for
\* raw_drain, which ends at the next pause on the line.
FairSpec == Spec /\ WF_vars(Background) /\ SF_vars(Drain)

-----------------------------------------------------------------------------
(* Properties *)

\* svs_flasher.h: a flash can be interrupted anywhere and repeated. Whatever
\* sequence of aborts, swapped SVSs and images there was, the reset page of
\* an SVS with a vector bootloader that holds firmware from the bridge jumps
\* to that SVS's own bootloader.
Recoverable ==
  \A s \in SVS :
    Vector(Boot[s]) /\ flash[s][0].image \in Images => flash[s][0].jump = Boot[s].space

\* evaluate and the size checks: the bootloader itself is never overwritten,
\* and an SVS whose bootloader the bridge cannot flash keeps its firmware.
BootloaderIntact ==
  \A s \in SVS, p \in Pages :
    ~Compatible(Boot[s]) \/ p >= Boot[s].space => flash[s][p] = Delivered(s)[p]

\* status(): a device shown as checked and flashable is the one that is
\* open, even when SVSs were swapped while the check was running.
CheckHolds ==
  ShownDevice.compatible =>
    /\ checkedBoot = Boot[dev]
    /\ device.space = Boot[dev].space

\* status(): a device shown as verified carries its own bootloader's address
\* in its reset page, unless a flash since then damaged that page.
PreviewHolds ==
  ShownDevice.verified =>
    flash[dev][0].jump = Boot[dev].space \/ flash[dev][0] = DamagedPage

\* raw_begin and raw_end: raw mode, which shuts out every other sender, never
\* outlives the task that began it, and only one in a bootloader session has it.
RawHasOwner == raw <=> pc \in Steps \ {"idle", "start", "raw", "store", "banner"}

\* svs_flasher.h: a vector bootloader is only flashed after a preview
\* confirmed that the patch matches what is on the chip.
OnlyConfirmedVectors ==
  [][\A s \in SVS :
       /\ Vector(Boot[s])
       /\ flash'[s][0] # flash[s][0]
       => flash[s][0] = DamagedPage \/ flash[s][0].jump = Boot[s].space]_vars

\* Every task ends by itself, whatever happens to the SVS meanwhile, unless raw_drain,
\* which has no deadline, reads from an SVS that never pauses again.
TaskEnds == []<>~noisy => ((task # "Idle") ~> (task = "Idle"))

\* The promise of FirmwareUpdate: a flash being reported is one that has
\* passed its last read-back.
Promise == INSTANCE FirmwareUpdate WITH
  report <- task = "Flashing" /\ good

KeepsPromise == Promise!Spec
=============================================================================
