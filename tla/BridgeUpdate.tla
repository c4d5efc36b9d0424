----------------------------- MODULE BridgeUpdate -----------------------------
(***************************************************************************)
(* The bridge's own firmware, and how it comes back: the update over the   *)
(* air, the reboot and the factory reset of web_server.cpp,                *)
(* factory_reset.cpp and confirm_update_task of main.cpp, on the WiFi of   *)
(* WifiManager.                                                            *)
(*                                                                         *)
(* The boot loader and the calls esp_ota_* are ESP-IDF's, with rollback    *)
(* enabled (sdkconfig.defaults): a new image is started once, as pending;  *)
(* one that is pending at the next boot is given up for the other slot,    *)
(* and so is one that is not whole. A pending image may not update, and    *)
(* esp_ota_end and esp_ota_set_boot_partition take only whole images.      *)
(*                                                                         *)
(* Left out: the header checks that refuse foreign images before anything  *)
(* is erased, the download itself, the seconds of each wait.               *)
(***************************************************************************)
EXTENDS WifiManager

VARIABLES
  slot,      \* ota_0 and ota_1: the image there, whether it is whole, its state in otadata
  selected,  \* the slot otadata names
  running,   \* the slot the firmware that runs was started from
  up,        \* the firmware runs
  ota,       \* ota_apply: idle, writing, written
  rebooting, \* s_reboot_timer runs
  erase,     \* s_erase_before_reboot
  confirm,   \* confirm_update_task waits
  svsBusy    \* the flasher or the settings are busy

updateVars == <<slot, selected, running, up, ota, rebooting, erase, confirm, svsBusy>>

Slots == {"ota_0", "ota_1"}
Other(s) == IF s = "ota_0" THEN "ota_1" ELSE "ota_0"

\* Images: one that works, one that never joins the network, one that crashes
\* before it does.
Images == {"good", "deaf", "crash"}

UpdateInit ==
  /\ left \in Plans
  /\ router \in BOOLEAN
  /\ stored \in {"none", "right"}
  /\ joins = FALSE
  /\ WifiOff
  /\ slot = [s \in Slots |-> [image |-> "good", whole |-> s = "ota_0", state |-> "valid"]]
  /\ selected = "ota_0" /\ running = "ota_0" /\ up = FALSE
  /\ ota = "idle" /\ rebooting = FALSE /\ erase = FALSE /\ confirm = FALSE /\ svsBusy = FALSE

-----------------------------------------------------------------------------
(* Starting and stopping *)

GivenUp(s) == slot[s].state \in {"pending", "failed"}

\* The slot that the boot loader turns to, and the one that it starts
Chosen == IF GivenUp(selected) THEN Other(selected) ELSE selected
Booted == IF slot[Chosen].whole THEN Chosen ELSE Other(Chosen)

\* The boot loader, and app_main
Boot ==
  /\ ~up
  /\ up' = TRUE
  /\ selected' = Chosen /\ running' = Booted
  /\ slot' = [s \in Slots |->
                [slot[s] EXCEPT !.state = CASE s = selected /\ @ = "pending" -> "failed"
                                            [] s = Chosen /\ @ = "new" -> "pending"
                                            [] OTHER -> @]]
  /\ confirm' = (slot'[Booted].state = "pending")
  /\ joins' = (slot[Booted].image = "good")
  /\ StartWifi
  /\ UNCHANGED <<left, router, stored, ota, rebooting, erase, svsBusy>>

\* esp_restart, and power that is cut
Stop ==
  /\ up' = FALSE
  /\ ota' = "idle" /\ rebooting' = FALSE /\ erase' = FALSE /\ confirm' = FALSE /\ svsBusy' = FALSE
  /\ StopWifi
  /\ UNCHANGED <<router, joins, selected, running>>

PowerCut == up /\ Spend("cuts") /\ Stop /\ UNCHANGED <<stored, slot>>

Crash ==
  /\ up /\ slot[running].image = "crash"
  /\ Stop
  /\ UNCHANGED <<left, stored, slot>>

\* on_reboot_timer, factory_reset::perform included
OnRebootTimer ==
  /\ rebooting /\ timerTask = "idle"
  /\ stored' = IF erase THEN "none" ELSE stored
  /\ Stop
  /\ UNCHANGED <<left, slot>>

\* button_task: the button was held long enough.
Button ==
  /\ up
  /\ Spend("buttons")
  /\ stored' = "none"
  /\ Stop
  /\ UNCHANGED slot

-----------------------------------------------------------------------------
(* confirm_update_task *)

\* mutant: a new firmware is kept as soon as it runs
ConfirmAtOnce ==
  /\ confirm
  /\ confirm' = FALSE
  /\ slot' = [slot EXCEPT ![running].state = "valid"]
  /\ UNCHANGED <<left, router, stored, joins, wifiVars, selected, running, up, ota, rebooting,
                 erase, svsBusy>>

\* esp_ota_mark_app_valid_cancel_rollback
Confirm ==
  /\ confirm /\ connected
  /\ confirm' = FALSE
  /\ slot' = [slot EXCEPT ![running].state = "valid"]
  /\ UNCHANGED <<left, router, stored, joins, wifiVars, selected, running, up, ota, rebooting,
                 erase, svsBusy>>

\* esp_ota_mark_app_invalid_rollback_and_reboot where there is an image to go back
\* to, else only a restart
RollBack ==
  /\ confirm /\ ~connected
  /\ slot' = IF slot[Other(running)].whole /\ ~GivenUp(Other(running))
             THEN [slot EXCEPT ![running].state = "failed"] ELSE slot
  /\ Stop
  /\ UNCHANGED <<left, stored>>

-----------------------------------------------------------------------------
(* Handlers; the HTTPS server runs one at a time *)

Served == up /\ Reached /\ slot[running].image = "good" /\ ota = "idle"

\* The SVS is flashed, or its settings are read or saved.
SvsWork ==
  /\ up
  /\ IF svsBusy THEN UNCHANGED left ELSE Served /\ Spend("works")
  /\ svsBusy' = ~svsBusy
  /\ UNCHANGED <<router, stored, joins, wifiVars, slot, selected, running, up, ota, rebooting,
                 erase, confirm>>

\* ota_post and ota_github_post, and ota_apply up to esp_ota_begin, which erases
OtaBegin(image) ==
  /\ Served /\ ~svsBusy
  /\ slot[running].state # "pending"
  /\ Spend("updates")
  /\ ota' = "writing"
  /\ slot' = [slot EXCEPT ![Other(running)].whole = FALSE, ![Other(running)].image = image]
  /\ UNCHANGED <<router, stored, joins, wifiVars, selected, running, up, rebooting, erase,
                 confirm, svsBusy>>

\* The transfer ends early, a write fails, or the image turns out corrupted.
OtaFails ==
  /\ ota = "writing"
  /\ ota' = "idle"
  /\ UNCHANGED <<left, router, stored, joins, wifiVars, slot, selected, running, up, rebooting,
                 erase, confirm, svsBusy>>

\* All of it is written.
OtaEnd ==
  /\ ota = "writing"
  /\ ota' = "written"
  /\ slot' = [slot EXCEPT ![Other(running)].whole = TRUE]
  /\ UNCHANGED <<left, router, stored, joins, wifiVars, selected, running, up, rebooting,
                 erase, confirm, svsBusy>>

\* esp_ota_set_boot_partition, and schedule_reboot
OtaSwitch ==
  /\ ota = "written"
  /\ ota' = "idle"
  /\ selected' = Other(running)
  /\ slot' = [slot EXCEPT ![Other(running)].state = "new"]
  /\ rebooting' = TRUE
  /\ UNCHANGED <<left, router, stored, joins, wifiVars, running, up, erase, confirm, svsBusy>>

\* reboot_post and factory_reset_post: the reboot comes a second later.
RebootPost(erases) ==
  /\ Served /\ ~svsBusy
  /\ Spend("reboots")
  /\ erase' = (erase \/ erases)
  /\ rebooting' = TRUE
  /\ UNCHANGED <<router, stored, joins, wifiVars, slot, selected, running, up, ota, confirm,
                 svsBusy>>

-----------------------------------------------------------------------------
\* Types; only a running firmware has tasks and timers, and one that may yet be
\* given up waits for the network and updates nothing.
UpdateTypeOK ==
  /\ slot \in [Slots -> [image : Images, whole : BOOLEAN,
                         state : {"new", "pending", "valid", "failed"}]]
  /\ selected \in Slots /\ running \in Slots
  /\ up \in BOOLEAN /\ ota \in {"idle", "writing", "written"}
  /\ rebooting \in BOOLEAN /\ erase \in BOOLEAN /\ confirm \in BOOLEAN /\ svsBusy \in BOOLEAN
  /\ ~up => WifiOff /\ ota = "idle" /\ ~rebooting /\ ~erase /\ ~confirm /\ ~svsBusy
  /\ up => (confirm <=> slot[running].state = "pending")
  /\ confirm => ota = "idle"
=============================================================================
