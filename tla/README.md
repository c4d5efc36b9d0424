# SVS-bridge in TLA+

SVS-bridge is firmware for an ESP32 that is plugged into a Scalable Video
Switch (SVS) over USB and puts it on the network: a web page and a WebSocket, an
RFC 2217 serial port, status reports to a "Cruller" on the same network, and
updates of the SVS's firmware and settings. The SVS is an Arduino-like board
behind a CH34x serial chip. It talks in lines of text, resets when DTR falls,
and has a bootloader that is entered right after a reset.

These modules model the parts of the bridge in which that line to the SVS is
read, shared and used to change the SVS, the servers that pass it on, and what
keeps the bridge itself reachable: its network and its own updates. Paths below
are relative to the repository; `M/` stands for `src/platform/esp32/main/` and `C/` for `src/core/`.

## The system

| component | state | operations | talks to |
|---|---|---|---|
| `M/svs_usb` | `s_dev`, `s_info`, `s_raw`, `s_session`, queues `s_new_dev_q`, `s_answers`, `s_raw_rx`, streams, ring of the traffic log, raw tap | open/close on plug events, parse lines, send, query, restart over DTR, raw mode, sessions | everyone that wants the SVS |
| `M/svs_flasher`, `C/svs_vectors.h`, `C/svs_hex.h` | `s_task`, staged image, checked device, result | check, probe, preview, stage, clear, flash | svs_usb (raw mode), web_server |
| `M/svs_settings`, `C/svs_config.h` | `s_task`, `s_read`, `s_want`, layout JSON | read, write, status | svs_usb (session, query), web_server |
| `M/web_server`, `C/api_events.h` | HTTP handlers, WebSocket clients, OTA in progress, reboot timer | one handler at a time per server task; push loop | all components |
| `M/rfc2217`, `C/rfc2217_proto.c` | clients, Telnet parser, echo filter | accept, from client, from SVS, DTR restart | svs_usb |
| `M/cruller` | Crullers found, the one selected, last report | browse, scan, report and repeat, select | svs_usb, wifi_manager |
| `M/wifi_manager`, `M/dns_server` | credentials, connected, setup AP, timers | connect, retry, fall back to the setup AP, scan | web_server |
| `M/auth` | password hash, sessions, token, lockout | set up, log in, log out, check | web_server |
| `M/main`, `M/factory_reset` | OTA confirmation, console | start-up order, console lines | svs_usb, auth |
| `M/svs_fw_repo`, `M/bridge_fw_repo`, `M/tls_cert` | download buffers, certificate | fetch, generate | web_server, svs_flasher |

Each runs in FreeRTOS tasks: `device_task` and `rx_print_task` of svs_usb, one
task per HTTP server, one background task of the flasher and one of the
settings, the tasks of rfc2217 and cruller, the timer task, the events of the
WiFi driver and of mDNS, the USB host's callbacks and the console. They share the SVS's one serial line.

What is hard about it:

* **An SVS can be pulled, or swapped for another, between any two steps.** The
  flasher checks one SVS, is asked to flash it later, and patches the reset
  vector for the bootloader it found: the wrong one makes an SVS unreachable.
* **Power fails between two pages, or between two bytes.** The chip must still
  reach its bootloader; what the bridge shows must still be true.
* **Answers are anonymous.** A byte of the EEPROM comes back as a bare number,
  so which question it answers follows from timing only.
* **Requests are checked and then acted on.** `can_flash`, `busy()` and the like
  are evaluated under a lock that is released before the task starts.
* **One line, many senders.** Raw mode and settings sessions shut the others out
  and must be given back on every way out.
* **Everything waits for a peripheral** that may never answer.
* **Readers share rings and logs**, each at its own pace, over connections that
  break: nobody may miss what could be had, or get it twice.
* **The bridge updates itself over the network** that the new firmware may not be
  able to join.
* **Events are queued**: by the time one is handled the network, the selection or
  the session it is about may be another.

What makes each component correct, in one line: svs_usb, that its picture of the
SVS is of the one plugged in and that exclusive use always ends; the flasher, that
no SVS loses its bootloader or the way into it and that success is true; the
settings, that what is shown and what is reported saved is what the EEPROM
holds, and that nothing else in it changes; rfc2217, that bytes pass in order
and Telnet never leaks into them; the web server, that dangerous operations
exclude each other; auth, that nobody gets in without the password; cruller and
Wi-Fi, that they get back to a working state after any failure.

## Modules

| module | models |
|---|---|
| `SvsChip` | an SVS's microcontroller: bootloader kinds, flash pages, what a patched image looks like |
| `FirmwareUpdate` | the abstract promise of an update: pages in order, below a compatible bootloader, with its jump; truthful report |
| `SvsFlasher` | `M/svs_flasher.cpp` with raw mode, plug events and the handlers that start its tasks |
| `SvsFlasherProofs` | theorems about `SvsFlasher` |
| `SvsUsb` | `M/svs_usb.cpp`: the USB callbacks, `device_task`, `rx_print_task`, the restart over DTR, raw mode as its users see it |
| `SvsUsbProofs` | theorems about `SvsUsb` |
| `SvsConfig` | `C/svs_config.h`: the map of the EEPROM, decoding, `plan_writes` |
| `SettingsEditor` | read, edit, save against an undisturbed SVS: checks `SvsConfig` |
| `SvsConfigProofs`, `SettingsEditorProofs` | theorems about the layout and planning, and about the editor |
| `SvsSettings` | `M/svs_settings.cpp` with the sessions and queries of `M/svs_usb.cpp`, on top of `SvsConfig` |
| `SvsSettingsProofs` | theorems about `SvsSettings` |
| `Rfc2217Proto` | `C/rfc2217_proto.c`: Telnet, COM port commands, the echo filter, as functions of state and bytes |
| `Rfc2217` | `M/rfc2217.cpp` on top of it, the raw tap of `M/svs_usb.cpp`, and the programs at the other end |
| `Rfc2217Proofs` | theorems about `Rfc2217Proto` and `Rfc2217` |
| `WifiManager` | `M/wifi_manager.cpp`, the WiFi driver and the network |
| `BridgeUpdate` | uploads, restarts and resets of `M/web_server.cpp`, `M/main.cpp` and `M/factory_reset.cpp`, the boot loader and its two partitions |
| `CrullerReport` | `M/cruller.cpp` and the Crullers on the network |
| `Bridge` | the three composed |
| `BridgeProofs` | theorems about `Bridge` and its parts |
| `Auth` | sessions and the API token of `M/auth.cpp` |
| `WebPush` | live updates of `M/web_server.cpp`, the traffic log of `M/svs_usb.cpp`, and the page's side of it in `src/src/web/index.html`; on top of `Auth` |
| `WebPushProofs` | theorems about `WebPush` and `Auth` |
| `MC*` | constants for TLC: small sets of SVSs, bootloaders, EEPROM contents and requests |

`PROJECT.json` maps every definition to its lines.

Three modules have the USB link in them, each with the part of it that its
properties need. `SvsUsb` is about the link itself: queues, the picture `s_info`,
DTR. `SvsFlasher` and `SvsSettings` take connecting as one step (`Open`, `Close`)
and follow what is said over the line.

### The USB link

`port`, `screen`, `booting` and `dtr` are the world: what is plugged in and what
it does. `newDevs`, `stream` and `gone` are `s_new_dev_q` (only its length: the
device queued is only printed, `VCP::open` takes the one that is there),
`s_rx_stream` and `s_disconnected`. `opened` and `alive` are `device_task`'s handle
and whether it still reaches anything; `dev` is `s_dev`. `device_task` is a
program counter `pc` with one action per step between two waits or locks:
`TakeNew`, `Open`, `Publish`, `WaitFirst`, `Remember`, `Pulse`, `Release`,
`WaitSecond`, `Restore`, `WaitGone`, `Forget`. A wait with a timeout may end at
any time. `RestartSvs` and `RestartedSvs` are the two locked halves of
`do_restart_svs` for its callers outside of `device_task`, `Parse` is a turn of
`rx_print_task`. `Restart` restarts the bridge, deliberately or not.

The requests that configure the SVS may fail: opening it, setting its rate, and setting
its lines, where DTR may have changed or not (`SetLinesFails`). The code logs such a failure
or returns it, and tries nothing again; `failed` holds what has failed since. Properties that it
breaks name it. `told` says where the firmware shown may come from: a banner of this connection, or lines
that the disconnect left in the buffer.

### The flasher

`SvsFlasher` has three groups of actions. *USB*: `Plug`, `Unplug`, `Open`,
`Close` (plug events and `device_task`), `BootTimeout` (the bootloader starts
the application). *Handlers*: `StartCheck`, `StartProbe`, `RequestFlash` followed
by `StartFlash`, `RequestPreview` followed by `StartPreview` (the two locks of
`start_flash`, with anything possible in between), `Stage`, `Clear`. *Background*:
the steps of the one task, `Begin` to `Banner`, one step per exchange with the
bootloader. `Enter` is one attempt of `enter_bootloader`, with one of its `ResetTimings` and the
`get_sync` of it, and `Drain` the `raw_drain` that follows: it ends when the line pauses for 20 ms, and
nothing else ends it. `Noise` is an SVS that starts or stops sending without such a pause. The diagnostics
(`probe_task`) reset and drain as `Enter` and `Drain` do, and are modelled by the same steps.
`BridgeRestart` and `PowerCut` may come anywhere.

Bytes are abstracted to what the properties tell apart. A page holds an image's
contents, the factory's, or damage; page 0 also has the page its reset vector
jumps to. Programming a page ends in the intended contents or in damage, also
when it is acknowledged. Reading `status()` is one step.

### The settings

`SvsConfig` computes on bytes as sets of bits. `SvsSettings` runs the two tasks
question by question: `Ask`, then `Receive` or `ReceiveLast` (`query`,
`query_last`) or `TimeOut`, then the next attempt or failure. `ReadQuestion`
derives the question from what has been read so far, which is what the nested
loops of `read_task` amount to. A save is `Save` byte by byte, then `Check`,
then the transcoders (`Switch`, `WaitForInput`, `Set`, `Confirm`, `Restore`),
then `StoreWrite`. Lines from the SVS travel over `wire` to `answers`
(`rx_print_task` and its queue).

Which disturbances happen is chosen in `Init` (`faults`), because each property
names the ones under which the code keeps it. Reading the Y1 and G1 answers for
the log is left out, as `query_all` empties the queue afterwards.

`StartWrite` is one step, though `svs_settings.cpp:493-531` takes several locks one after another. Requests
come from one server task, so nobody else starts anything in between. A plug event may come in
between; then the task starts with the same request and the same snapshot as when
that event comes after `StartWrite` and before `BeginWrite`.

### The RFC 2217 server

`Rfc2217Proto` has a function per C function: `OnVerb`, `OnSubneg`, `Take` and
`Input` for the parser, `Escape`, `ModemState` and `Greeting` for what is sent,
`Expect`, `FilterOne` and `EchoFilter` for the input numbers that are taken out.
Bytes are numbers, since the parser is about bytes. In `Rfc2217` a client has the
fields of `struct client` and five history fields for the properties. Connections are
numbered as they come, so the number is `since_ms`: a new client without a slot takes that of the smallest. What the
loop does for one client is `Receive` (one `recv`, then `todo` holds what
`rfc2217_input` found, which `RestartForDtr` and `FromClient` act on), `Announce`,
`Release` and `Drain`; `Accept` and `ReceiveEnd` make and end clients. `tap` is
the ring, `Says` writes it (`TapAdd`), `Since`, `Until` and `Tapped` are `rx_since`. The
other end is a Telnet peer by RFC 854: `Read` reads byte by byte, as `Telnet` from the
beginning, and `PeerTold` answers.

### The bridge on its network

`WifiManager` follows the driver's events through a queue to `OnWifiEvent`, and
the three timers through the timer task that they share; starting and stopping
the access point takes long, so `OnFallbackTimer` and `OnApStopTimer` each end in
`ApSwitched`. `Scan`/`Scanned` and `SetCredentials`/`CredentialsSet` are the two
halves of the handlers. `BridgeUpdate` has the two partitions in `slot`, with the
state the boot loader keeps of each; `Boot` is the boot loader and `app_main`,
`OtaBegin`, `OtaEnd`, `OtaFails`, `OtaSwitch` are `ota_apply`, `Confirm` and `RollBack`
are `confirm_update_task`. An image is good, deaf (never joins a network) or
crashes. In `CrullerReport` the task's loop is a scan (after joining a network, and then from time
to time), `Look` (or `LookOffline`), `Answered` or `NotAnswered`, and `Store`. `OnBrowse` is the mDNS
task. A scan is `ScanAsks` and `ScanEnds`, by the task or for the page (`Scanners`): the results of
two may be handled in either order, as `s_scan_mutex` is released before `s_mutex` is taken, and the
answers of a Cruller that is there may be lost. `Bridge` puts each next to the others and says what
a restart does to all three (`Stops`).

### Live updates

Any task logs a line (`LogAdd`, then `Listener`), a timer ticks (`Tick`): both are
`ws_notify`, of which `QueueWork` is the call that may fail. `FlushBegin`,
`FlushOne` per client and `FlushEnd` are `ws_flush`; nothing else happens in the
server's task meanwhile. `FlushKey` is apart because `events_flush` reads the
status twice. A page is its cursor `logAfter`, what it drew, its socket and its
poll. Signing out cancels no poll: it goes on as `old` (`ServeOld`), and its answer is drawn
by whatever the page is by then (`PageTakesOld`); `mixed` remembers that it was. `PortalLogin` is a login
through the server on port 80, whose task runs beside `ws_flush`.

## Runs

| run | instance | shows |
|---|---|---|
| `Flasher` | 3 SVSs with vector bootloaders (one of another size, one never patched), 3 pages, a 2-page image, 2 connections | `PreviewHolds`, `RawHasOwner`, `Recoverable`, `BootloaderIntact`, `CheckHolds`; `KeepsPromise` (refines `FirmwareUpdate`) |
| `FlasherLive` | a hardware bootloader next to one the bridge must not flash; an image that cannot be patched | every task ends unless the SVS never pauses (`TaskEnds`) |
| `FlasherUnconfirmed` | two SVSs with one kind of bootloader, one not patched | violation: see findings |
| `Editor` | 9 inputs with 2 IR slots each, 16 EEPROMs, 27 requests | `SavedIsThere`, `NoClash`, `SavingIsIdempotent`, `OnlyManaged` |
| `Settings` | 2 SVSs with one input and different settings, in five scenarios | `SessionHeld`, `ShownIsChip`, `ReadsAreRight`, `SavedIsThere`, `TranscodersSet`, `UnmanagedKept`; every task ends (`TaskEnds`) |
| `SettingsStale` | the silent scenario | violation: see findings |
| `Usb` | 2 SVSs with 1 and 2 inputs and a keyboard, 3 interferences | `GoneIsOpened`, `RestartGoesByOwn`, `DtrReleased`; the picture of the SVS becomes right (`PictureSettles`) |
| `UsbStale`, `UsbRestore` | two SVSs and 2 interferences; one SVS and none | violations: see findings |
| `Rfc2217` | 5 plans; up to 3 connections for 2 slots, a ring of 2 bytes | `Transparent`, `OnlyEchoMissing`; options, held lines and modem state settle (`Settles`) |
| `Bridge` | 9 plans; 2 partitions, 2 Crullers with 2 addresses, 2 inputs | `NeverStranded`, `LastIsSelected`; `ComesBack`, `Rejoins`, `SelectedKnows`, `ListedAreHere` |
| `WebPush` | 10 plans; 2 pages, 2 API clients, 1 session, 1 API socket, a log of 2 lines sent one by one | `NothingSkipped`; everybody learns the newest or is signed out (`PagesSettle`) |

Bounds and why they are enough:

* *SVSs.* Two with the same bootloader and one with another give every pair
  that a swap can exchange: same/same, same/different, patched/unpatched.
* *Pages.* Images of two pages have a reset page, a last page and an order
  between them; bootloaders of one and two pages make an image fit one and not
  the other. One page of flash is above every bootloader start.
* *`MaxConnections` = 2.* The connection count tells "this connection" from "a
  later one", so two are enough; a restart sets it back to 0 and there may be
  any number of those in the flasher.
* *Inputs.* Nine inputs give bitmaps of two bytes and a byte shared with inputs
  that do not exist. `IR_REGION` is 20 instead of 250, so nine inputs have two
  slots, as 32 have three in the real one. Session behaviour does not depend on
  the layout, so `Settings` has one input and `IR_REGION` 4.
* *`QueueSize` = 2* instead of 8: it holds what a transcoder answers, and a command typed on
  the console fills it. *`MaxTyped` = 1*: one question on the
  console at any moment. *`MaxRestarts` = 1*: one power cut at any moment.
* *`ATTEMPTS` = 2* as in the code.
* *`NewDevsSize` = 1, `StreamSize` = 2* instead of 4 and 4096 bytes, so that both
  overflow within the three interferences.
* *`MaxActs` = 3*: an unplugging, a plugging and one more (selecting an input,
  a restart, a bootloader session or its lines, a request to the SVS that fails, another
  plugging), in any order and at any moment.

* *Plans.* In `Rfc2217`, `Bridge` and `WebPush` what may come from outside is
  chosen in `Init` as a record of how often each thing may happen, in any order
  and at any moment. A plan has what one kind of trouble needs, so that the states
  of the plans add up instead of multiplying; each is commented in its MC module.
* *`Rfc2217`*: `TapSize` 2 is overtaken by 3 bytes, `RawMax` 2 makes more than one
  round, `LineMax` 4 and `HoldMax` 3 are filled by `Y1` and by an echoed line,
  3 connections for 2 slots crowd the oldest out.
* *`Bridge`*: three changes of the router let the network go while a retry, a scan
  or the access point is under way, and come back; a scan meets new credentials; two updates let
  the second one start from the first; a Cruller loses answers, and does so for longer than it is kept; two moves let a Cruller leave and come back elsewhere.
* *`WebPush`*: `LOG_BATCH` 1 and `LOG_CAPACITY` 2 make three lines need several
  flushes and overwrite one; one session and one API socket make the second of
  each push the first out; a second login after a logout meets the poll of the first, with sockets and without; three handshakes make two at once.

The `Settings`, `Usb`, `Rfc2217`, `Bridge` and `WebPush` runs do not check for deadlock: an unplugged bridge whose
connections or interferences are used up, with nobody at the page, rightly
does nothing.

### Fairness

`WF(Background)` in both specifications: each step of a task is a call into
svs_usb, and but for one every wait in it has a timeout, so a started task goes on without
the SVS's help. The exception is `raw_drain` (`M/svs_usb.cpp:794-799`), which reads until the line has been
quiet for 20 ms and has no deadline. `SF(Drain)` says that it ends when the SVS pauses again and again,
and `TaskEnds` of the flasher is stated for such an SVS (`[]<>~noisy`). One that never pauses keeps the
task, and with it raw mode, until it is unplugged. `WF(Deliver)`: bytes that left the SVS reach `rx_print_task`
unless the link is lost. `WF(Report)`: the SVS repeats its status lines every 2
s. In `SvsUsb`: `WF(DeviceTask)`, whose waits have a timeout or
wait for an event; `WF(Parse)`; `WF(ComeUp)` and `WF(Report)`, the SVS; and
`WF(RestartedSvs)` and `WF(RawEnd)`: the pulse of 100 ms ends, and so does every
bootloader session (`RawHasOwner` and `TaskEnds` of the flasher, and with them an SVS that pauses). No fairness is
assumed of handlers that people start, plug events, or people. `TaskEnds` of the
settings excludes somebody who switches inputs for ever: the 3 s for which a save waits for
an input are not modelled as time.

`Rfc2217`: one condition, `WF(Progress)`: the task's loop, the wait for an echo and
the reading of the other end go on. Nothing is said of the order in which clients
get their turn, since what there is to do for each comes to an end.

`Bridge`: weak fairness of what runs by itself (the start, the confirmation, each
timer, the driver's events and attempts, the second halves of handlers, the
reporting task and what ends a scan). Strong fairness of the task's scans: of its
passes one scans at least every `SCAN_MS`. The page's scans are people's and
not assumed. Nothing says that an upload ends, that a
request gets through while one may still be lost, or that anybody does anything.

`WebPush`: weak fairness of the listener, the tick, the call that queues and the
flush; strong fairness of requests and closings (`Serve`), because a flush is
queued again and again and the HTTP server's loop looks at its queue and at every
socket in each round; and each page and client reads, polls and notices that its
socket is gone. `Minute` is the resend of an unchanged state every minute, taken
only when it matters. Opening a socket again is not assumed.

## Proofs

Every safety property that a run checks is proved of `Spec`, for every value of the
constants; `FairSpec` implies `Spec`, so they hold of both.

| module | theorems | of |
|---|---|---|
| `SvsFlasherProofs` | `TypeCorrect`, `RawAlwaysHasOwner`, `BootloaderAlwaysIntact`, `AlwaysRecoverable`, `ChecksHold`, `PreviewsHold`; `FlasherKeepsPromise`: `SvsFlasher` implements `FirmwareUpdate` | any SVSs, images, pages, bootloaders, number of connections |
| `SvsConfigProofs` | `PlanHasNoClash`, `DecodesBack`, `PlanIsHeld`, `NothingToSave` | `plan_writes` and decoding, for any EEPROM, number of inputs and size of the IR region |
| `SettingsEditorProofs` | `TypeCorrectness`, `SavesAreReadBack`, `SavingTwiceWritesOnce`, `EditorNeverClashes`, `OthersAreKept` | any EEPROMs and requests |
| `SvsSettingsProofs` | `TypeCorrectness`, `SessionAlwaysHeld`, `SnapshotsAreTrue`, `AnswersAreMatched`, `SavesAreThere`, `TranscodersAreSet`, `UnmanagedBitsAreKept` | any SVSs, settings, scenarios, attempts, queue of at least 2 lines |
| `SvsUsbProofs` | `UsbTypeCorrect`, `LossIsNoticed`, `DtrAlwaysReleased`, `RestartIsItsOwn` | any devices, sizes, number of interferences |
| `Rfc2217Proofs` | `Rfc2217TypeCorrect`, `TransparentHolds`, `OnlyEchoMissingHolds`; `EscapeReads`, `InputReads` | any plans, connections, slots, sizes of the ring and of the line being typed |
| `BridgeProofs` | `TypeCorrectness`, `UpdatesStrandNoBridge`, `OutcomeOfSelected` | any Crullers, addresses, inputs, plans |
| `WebPushProofs` | `TypeCorrectness`, `NothingIsSkipped` | any pages, clients, sessions, sizes of the log and of a batch, plans |

`BootloaderIntact` is run for vector bootloaders and proved for every kind.

Assumptions. Those about identities say that the empty values (`NoSvs`, `Nobody`,
`NoCruller` and the like) are not members of the sets and that sets of different things
have nothing in common. The others:

* `ImageAssumption`, `ChipAssumption`: images have pages and bootloaders start above page 0.
* `RegionAssumption`, `InputsAssumption` of `SvsConfig`: `IR_REGION` is at most 250 and there are
  at most 32 inputs, as in the code; the first makes every address fit into 0..511.
* `EditorAssumption`, `SvsAssumption`, `WantsAssumption`: EEPROMs hold bytes, and what is wanted is
  what the web server parses from a request (flags, and codes that are a byte each).
* `SizesAssumption` of `SvsSettings`: a question is asked at least once, and the queue has room for
  two lines, which is what a transcoder answers with.
* `InputsAssumption` of `SvsUsb`: an SVS has an input.
* `ProtoAssumption`: the buffers of the parser have a size, and that of the filter has room for a byte.
* `ServerAssumption` of `Rfc2217`: there is a slot, a ring and a line being typed; what is said, typed and asked
  is bytes, and a program does not type half a command.
* `CrullerAssumption`: the Crullers present at the start have different addresses.

### The flasher

`Recoverable` is not inductive: a step that writes page 0 keeps it only if the
task writes for the bootloader of the chip that answers. The inductive invariant
`IInv` says why it does:

* `Link`: a chip is in its bootloader only through the handle that is open (or
  after a restart, when no task runs), raw mode belongs to a task;
* `Armed`: a flash that was requested and one that runs have an image and a
  device that describes the bootloader kept with it (`Describes`);
* `Session`: what was read in a bootloader session is about the chip that
  answers now, since a chip plugged in later is not in its bootloader;
* `Writing`: pages are written only when the bootloader read is the checked one,
  and pages before the current one hold the image, or damage while writing.

From these, `WritesOwnBootloader`: whenever a page is written or compared, the
work is for the bootloader of that very chip. Each part has a step lemma
(`TypeStep`, `LinkStep`, `ArmedStep`, `SessionStep`, `WritingStep`, `ChipStep`)
with a case per action, and `IInvHolds` puts them together. `ChecksHold` and
`PreviewsHold` need what `Checked` and `Previewed` add to it: what a check or a preview has
found so far is about the device that is open, as long as nothing closes it.

### The settings

The lemmas of `SvsConfigProofs` are about the layout (flag bytes and slots of two inputs are
apart, and no address is past the EEPROM) and about bits. Those on lists of codes need a first
empty slot and a first difference; the least element of a set of numbers comes from the
well-foundedness of the order, so `Min` can be reasoned about.

In `SvsSettings` an answer is a bare byte, so that "the bridge's idea of the EEPROM is the
EEPROM" depends on every earlier question. The invariant has a part for each link:

* `Bus`, `Steps`, `Job`: what the step of the task tells about the handle, the session and what is
  left to do;
* `Steady`: what a scenario excludes has not happened;
* `Answering`: between two questions nothing is under way, and during one exactly its own
  answer is, on the wire, in the queue or in part in each. It holds while no answer is late
  and nobody types, and is why a byte can be taken for the answer;
* `ReadRight`: what was read so far is what the SVS held, at the addresses asked;
* `Known`, `TxKnown`: while `Live`, that is while the connection it was read on is still there,
  what is known of the EEPROM is right apart from the writes still left, each of which is of
  the plan; and a transcoder that was set was set with its input on screen;
* `RestKnown`: the bits of the inputs an SVS does not have are known as they are, live or not.

`Live` is what makes the proof go through a swap: what was read is tied to a connection, not
to an SVS, and connections are only counted up until a restart forgets all that was read.
`UnmanagedBitsAreKept` needs `RestKnown` and not `Known`: a byte is written whole, so what matters is
the bits that came along with it when it was read.

`SettingsEditor` is the same without the line: what is known is a part of the EEPROM (`Current`), and
what was saved is held (`Kept`).

### The USB link

The invariant of `SvsUsb` has three parts besides the types. `Handle`: `pc` tells
whether there is a handle and whether `s_dev` holds it, the semaphore is down
without one, and only a handle of the SVS in the port reaches it (this is what
makes `GoneIsOpened` inductive: when the semaphore is taken the handle is dead,
and nothing raises it again before the next `Open`). `Asserted`: DTR is
asserted only at an SVS that `s_dev` still reaches, so whoever is to release it can.
`FirstOnly`: on the first connection after a start nothing of another SVS is anywhere: the lines in
the stream are of the SVS that is open (`StreamOwn`), and so are what `s_info` holds (`InfoOwn`), the banner
waited for (`BannerOwn`) and the input remembered (`PrevOwn`). The decision to restart is taken on
that connection only, because the flag is taken down when it is counted.

### The RFC 2217 server

All three properties compare sequences that loops computed: over the bytes of a chunk, over what the
ring holds, over all that was ever said. What a loop does is proved by induction on its length, which
`Upto` gets from the well-founded order of the numbers, and each function has a lemma saying that
the model's recursive function is a run of its one-byte step (`InputRuns`, `FilterRuns`, `TapRuns`, `TypedRuns`,
`ReadRuns`). So every lemma after those is about one byte.

`TakeReads` is the heart of `Transparent`: the parser of `C/rfc2217_proto.c` and the reader of RFC 854
are in corresponding states (`Start`) and have found the same data, byte after byte; `InputReads` says it of
a chunk, from whatever state the chunk before left. `EscapeReads`, `GreetingReads`, `ModemReads` and `VerbReads` say how
each thing that is sent reads, and `ReadsJoin` that such things may follow each other.

`Inv` is `World` and `Tables`, which are types, what the ring holds (`Rings`: in each slot the byte said last
at a place of that slot), and `Fine(c)` for each connection, so that a step in which one client has its
turn is looked at for that client only (`TurnKept`). Of a client with a slot, `Served` says:

* `UpFine`: what is under way, read from where the parser is, behind what was passed and what is left to do
  (`todo`), is what was typed. It is inductive where `Transparent` is not, as that speaks of
  an empty connection;
* `DownFine`: what the program heard, and what is under way, are the bytes it was given;
* `Order`: it was given places in order and only once (`GivenInOrder`); what is held is the last it read, with no gap but
  what was overwritten, and no whole line (`HeldIsLast`); the line ends it misses are not
  more than the times it asked, and one fewer while an echo is awaited (`EndsCounted`); and each byte it misses
  has its reason (`Excused`).

`Removed` is why `Order` survives an echo taken out: what was held and the line end that completed it are
a stretch of what was said without a line end inside, unless the ring had overtaken it.

### The bridge on its network

`NeverStranded` speaks of the moment before a start. `Recoverable` of `BridgeProofs` says what must be
known while a firmware runs: that it is whole, that one on trial has one to go back to that
joined a network, that any other joined one itself, and that what is selected next is the one
running or one on trial. `Events` is why "joined" is true when the confirmation believes it:
the events in the queue agree with the station in the end, and none comes to a firmware that
cannot join.

### Live updates

`NothingSkipped` is about lines drawn; numbers of lines wait in the hello, in messages on their
way, in the server's `log_after` of a socket and in polls. `Cursors` and `Places` say of each such
place that the page will have drawn what comes before it by the time it is used. Of the answer to a poll from
before the last sign-in only `OldWell` is known, that it is of the log; a page that drew one is `mixed`, and
what it drew is left open until it signs in again. `Queue` says
that `queued` is set exactly while a flush is about to be queued or in the server's
queue, and `Sockets` and `Tokens` that the sequences by age (`order`, the sessions) hold nothing twice.

### What is only model-checked

* All liveness (`TaskEnds` of both tasks, `PictureSettles`, `Settles`, `ComesBack`, `Rejoins`, `SelectedKnows`,
  `ListedAreHere`, `PagesSettle`), which TLAPS does not reach.

## What the models say about the code

Findings, each with a run that shows it:

* `FlasherUnconfirmed`: the preview that `svs_flasher.h:22-24` demands before a
  vector bootloader is written below is demanded of the SVS that was plugged in
  when the flash was requested. `flash_task` compares only the bootloader, so an
  SVS of the same kind that takes its place is flashed unconfirmed. (By
  `Recoverable` it still gets the right jump.)
* `SettingsStale`: a save that fails half way leaves the settings from before it
  on show, and "Nothing to save" is the answer to asking for them again.
* `UsbStale`: `device_task` clears `s_info` when the SVS is gone, but lines of that
  SVS may still be in `s_rx_stream`; `rx_print_task` then reports an SVS that is
  not there. A firmware version that gets in this way stays until the next
  disconnect.
* `UsbRestore`: the restart at boot compares the input with the one before as
  soon as the banner is seen. The lines that tell the new input come later, so
  the comparison finds the old one and the input is not put back.

Known and stated as conditions of properties:

* `raw_drain` has no deadline, so an SVS, or whatever else is on the line, that sends without a pause
  of 20 ms keeps a check or a flash, and with it the whole bridge's use of the SVS, until it is unplugged.
  `TaskEnds` of the flasher excludes it.
* The restart at boot is not what `svs_usb.h:23-25` says: "The last known values are kept in NVS, so the
  bridge knows them after a restart of its own without restarting the SVS. Only when nothing is known (first
  install, factory reset) is the SVS restarted once when it connects." Nothing is read from NVS
  (`svs_usb.cpp:285-286` says so too), and `s_restart_on_boot` is set after every power-on and every deliberate
  restart (514-515): the first SVS that does not boot by itself is restarted once after each of those.
  Crashes set nothing. `RestartGoesByOwn` is about what that restart goes by.
* An SVS that cannot be opened, or whose rate cannot be set, is not tried again, and DTR stays as it is
  where setting the lines fails: `PictureSettles` and `DtrReleased` exclude that (`failed`). `svs_usb.cpp:418-425`
  only logs it.
* A banner that the full buffer drops leaves the firmware unknown until the SVS boots again;
  `PictureSettles` says that it is then none.
* A save goes on after a swap: `write_task` does not compare the connection again
  after its start, so an SVS that is swapped in gets the rest of the other one's
  bytes, though "nothing is written that was not read first"
  (`svs_settings.h:7-8`). `SavedIsThere` and `TranscodersSet` speak of saves
  without a swap.
* An answer later than the timeout, or to a question typed on the console, is
  taken for the answer to the next question: `ReadsAreRight` excludes both.
* A transcoder is set for the input on screen, which somebody at the remote may
  change in the 50 ms before the command: `TranscodersSet` excludes that.
* A list of IR codes that grows is written over slots that were never read
  (`svs_config.h:295-302`), so "only the bytes that change" (`svs_settings.h:8`)
  is not quite true; the result is right (`SavedIsThere`).
* An SVS unplugged between `read_blocker` and the start of `read_task` makes it
  size its settings for -1 inputs, which throws and restarts the bridge
  (`Abort`).
* While page 0 itself is half written, a vector bootloader cannot be entered
  from it. `Recoverable` speaks of page 0 once it holds an image.

RFC 2217 (`Rfc2217`):

* `rfc2217_echo_expect` (`C/rfc2217_proto.c:269-272`) forgets the bytes that are
  held for an earlier Y or G: a client that asks again too soon loses up to a line
  of what the SVS said, though "everything else passes untouched". `OnlyEchoMissing`
  allows for it (`held`).
* A client that changes an option before its last change was answered can make it
  bounce for ever, against `C/rfc2217_proto.c:100-101`: a `WILL` and a `WONT` on their way
  meet the answers to each other. The peer of the model waits for the answer,
  which is the rule of RFC 1143.
* Answers to one chunk of input beyond 256 bytes are cut silently (`put`, 56-58), also within a
  command: the program then takes what it is given next for the rest of it. The answer to the COM port
  command 155, which there is not, has the byte 255 in it unescaped (`put_cpo`, 67-78, adds 100), with the same
  effect. `Transparent` speaks of clients that neither happened to (`whole`).
* A client that the ring overtakes while the beginning of a line is held (`Overtaken`) may lose the end of another
  line: "1" is held, the rest of that line and the start of the next are overwritten, "2" and a line end
  follow, and the filter takes "12" out though nobody said it. `OnlyEchoMissing` allows for a line
  of digits whose beginning was overwritten.
* DTR raised in a chunk restarts the SVS before the data that preceded it in the
  same chunk is sent (`M/rfc2217.cpp`, `todo` handles `raised` first).

The network (`Bridge`):

* Credentials that the driver refuses are entered after the retry timer was
  stopped: nothing starts it again, and with no attempt under way the bridge no
  longer tries the network it knew (`GaveUp`), against `src/README.md:128-129`. Entered
  while the access point is being taken down they leave neither network nor access
  point; `ComesBack` and `Rejoins` exclude `GaveUp`.
* The fall-back timer looks at `s_sta_connected` before the event of a connection
  just made is handled: the access point comes up, and stays up beside the network
  until the next disconnect, against `src/README.md:123-124`.
* A restart that was announced comes a second later; a flash or a save started
  within that second is cut off, though `M/web_server.cpp:107-108` refuses the restart
  during either.
* An announcement that comes within 3 s after a report is not acted on: a Cruller
  that restarts right then learns the input with the next heartbeat, not "as soon
  as it announces itself again" (`M/cruller.h`). `SelectedKnows` holds because of
  the heartbeat.
* A report under way to an address that another Cruller took meanwhile tells the
  input to that one.

Live updates (`WebPush`):

* A poll for the status that is answered before a push and arrives after it puts
  the older status on show, where it stays until the status changes again: a page
  with a live socket asks for none (`index.html:846`). `PagesSettle` allows for it
  (`late`).
* `events_flush` compares one reading of the status (`M/web_server.cpp:1489-1495`) and
  sends a later one (1500-1505). A change in between that is taken back leaves an
  API client with the state in between, until the resend a minute later (`Minute`).
* Two handshakes for `/api/v1/events` before the first closing was carried out close
  the same oldest socket twice: more than `EVENTS_MAX` stay open.
* A page whose `logAfter` is from before a restart of the bridge draws nothing until
  the new log is as long (`index.html:1666`). Restarts are left out of the model.
* A page that signs in again while an answer to its last poll is on the way draws that answer
  after `startLog` has set `logAfter` to 0 (`index.html:1685-1686`; `wsDrop`, 1768-1782, cancels nothing), and
  skips the lines before it, against "(Re)starts from the bridge's whole history, e.g. after logging in
  again" (1705). `NothingSkipped` excludes a page that drew one (`mixed`).
* A late 401 to such a poll signs the page out again (`index.html:468`).

## Not modelled

* `C/svs_protocol.h` and the decoding in `C/svs_hex.h`: pure text matching, whose results
  are inputs of `SvsUsb` and `SvsFlasher`. The instruction arithmetic of
  `C/svs_vectors.h` is abstracted to what it does to page 0.
* Passwords, their hash, the lock after wrong ones and the first set-up
  (`M/auth.cpp:68-216`): cryptography and one counter; `Auth` has sessions and the
  token.
* `rfc2217_describe`, which words log lines.
* `M/svs_fw_repo.cpp` and the lists and downloads of `M/bridge_fw_repo.cpp`: HTTP and
  JSON; what a download does to the bridge is `OtaBegin` to `OtaSwitch`.
* `M/tls_cert.cpp` and `M/dns_server.cpp`, which keep no state that can go wrong.
* The stored layout JSON of `M/svs_settings.cpp:536-708`; JSON, texts and log messages.
* The pages, apart from their live updates; `scripts/`, the tests and the build.

## Plan

1. The flasher: the one component that can make an SVS unusable. *Done.*
2. The settings: planning, then the sessions. *Done.*
3. `SvsUsb`: `device_task`, `rx_print_task`, the restart over DTR and the restore
   of the input after it; the picture `s_info` keeps of the SVS. *Done.*
4. `Rfc2217Proto` and `Rfc2217`: Telnet, the echo filter, the raw tap. *Done.*
5. `WifiManager`, `BridgeUpdate`, `CrullerReport`, and `Bridge` of the three. *Done.*
6. `Auth` and `WebPush`: sessions, the traffic log and live updates. *Done.*
7. Theorems: every safety property of the flasher, the settings, the editor, the USB link, the
   bridge and live updates. *Done.*
8. Theorems about `Rfc2217`: its types, `Transparent` and `OnlyEchoMissing`. *Done.*
9. `SvsHex` and the arithmetic of `SvsVectors` as pure operators with reference
   definitions.
