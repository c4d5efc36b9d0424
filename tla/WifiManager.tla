----------------------------- MODULE WifiManager -----------------------------
(***************************************************************************)
(* The bridge on the network: wifi_manager.cpp.                            *)
(*                                                                         *)
(* The WiFi driver reports to on_wifi_event through a queue; three timers  *)
(* share the timer task: the setup access point comes up when the station  *)
(* has no network for a while, connecting is retried, and the access point *)
(* goes down some time after the station connected. Bringing it up or down *)
(* takes long, so that events come in between. Web handlers scan, and      *)
(* enter credentials, and interfere with both.                             *)
(*                                                                         *)
(* The driver is modelled by how the code uses it: an attempt to connect   *)
(* ends in one event; disconnecting ends an attempt or a connection with   *)
(* an event, and is nothing when there is neither. Left out: the names of  *)
(* networks, the DNS of the portal, mDNS, how long each timer takes.       *)
(***************************************************************************)
EXTENDS Integers, Sequences

CONSTANTS
  Plans  \* how often each thing may happen from outside in one behaviour: a set
         \* of records, see BridgeUpdate

VARIABLES
  left,      \* what of the plan is left
  router,    \* the network is there
  stored,    \* the credentials in the driver's NVS: none, right or wrong
  joins,     \* the firmware that runs is able to join a network
  radio,     \* the station: off, idle, connecting or linked
  queue,     \* events on their way to on_wifi_event
  has,       \* s_has_credentials
  connected, \* s_sta_connected
  ap,        \* s_ap_active
  timers,    \* the timers that run
  timerTask, \* what the timer task is in the middle of: idle, starting, stopping
  scanning,  \* scan_json is scanning
  entering,  \* set_credentials is about to store these
  refused    \* the credentials entered last were refused

wifiVars == <<radio, queue, has, connected, ap, timers, timerTask, scanning, entering, refused>>

Credentials == {"none", "right", "wrong"}
Timers == {"fallback", "retry", "stop"}

Spend(what) == left[what] > 0 /\ left' = [left EXCEPT ![what] = @ - 1]

WifiOff ==
  /\ radio = "off" /\ queue = <<>> /\ has = FALSE /\ connected = FALSE /\ ap = FALSE
  /\ timers = {} /\ timerTask = "idle" /\ scanning = FALSE /\ entering = "none"
  /\ refused = FALSE

-----------------------------------------------------------------------------
(* The driver *)

\* esp_wifi_connect
Connect == radio' = IF radio = "idle" THEN "connecting" ELSE radio

\* esp_wifi_disconnect
Disconnect ==
  /\ radio' = IF radio = "off" THEN radio ELSE "idle"
  /\ queue' = IF radio \in {"connecting", "linked"} THEN Append(queue, "disconnected") ELSE queue

Joinable == router /\ stored = "right" /\ joins

\* An attempt ends.
Attempted ==
  /\ radio = "connecting"
  /\ radio' = IF Joinable THEN "linked" ELSE "idle"
  /\ queue' = Append(queue, IF Joinable THEN "got_ip" ELSE "disconnected")
  /\ UNCHANGED <<left, router, stored, joins, has, connected, ap, timers, timerTask, scanning,
                 entering, refused>>

\* The network goes, or comes back.
Router ==
  /\ Spend("router")
  /\ router' = ~router
  /\ IF radio = "linked" THEN Disconnect ELSE UNCHANGED <<radio, queue>>
  /\ UNCHANGED <<stored, joins, has, connected, ap, timers, timerTask, scanning, entering, refused>>

-----------------------------------------------------------------------------
(* Events and timers *)

\* on_wifi_event
StaStart ==
  /\ IF has THEN Connect ELSE UNCHANGED radio
  /\ UNCHANGED <<connected, timers>>

\* mutant: the connection is taken to be there still
StaDisconnectedKeeps ==
  /\ timers' = timers \cup (IF has THEN {"retry"} ELSE {})
                      \cup (IF ap THEN {} ELSE {"fallback"})
  /\ UNCHANGED <<radio, connected>>

\* mutant: a lost connection does not start the wait for the access point
StaDisconnectedQuiet ==
  /\ connected' = FALSE
  /\ timers' = timers \cup (IF has THEN {"retry"} ELSE {})
  /\ UNCHANGED radio

StaDisconnected ==
  /\ connected' = FALSE
  /\ timers' = timers \cup (IF has THEN {"retry"} ELSE {})
                      \cup (IF ap THEN {} ELSE {"fallback"})
  /\ UNCHANGED radio

GotIp ==
  /\ connected' = TRUE
  /\ timers' = (timers \ {"fallback", "retry"}) \cup (IF ap THEN {"stop"} ELSE {})
  /\ UNCHANGED radio

OnWifiEvent ==
  /\ queue # <<>>
  /\ queue' = Tail(queue)
  /\ \/ Head(queue) = "start" /\ StaStart
     \/ Head(queue) = "disconnected" /\ StaDisconnected
     \/ Head(queue) = "got_ip" /\ GotIp
  /\ UNCHANGED <<left, router, stored, joins, has, ap, timerTask, scanning, entering, refused>>

Expires(timer) ==
  /\ timerTask = "idle"
  /\ timer \in timers
  /\ timers' = timers \ {timer}
  /\ UNCHANGED <<left, router, stored, joins, queue, has, connected, ap, scanning, entering, refused>>

\* on_fallback_timer, and start_ap up to where it is up
OnFallbackTimer ==
  /\ Expires("fallback")
  /\ timerTask' = IF connected \/ ap THEN "idle" ELSE "starting"
  /\ UNCHANGED radio

\* on_retry_timer
OnRetryTimer ==
  /\ Expires("retry")
  /\ IF has /\ ~connected THEN Connect ELSE UNCHANGED radio
  /\ UNCHANGED timerTask

\* on_ap_stop_timer, and stop_ap up to where it is down
OnApStopTimer ==
  /\ Expires("stop")
  /\ timerTask' = IF connected /\ ap THEN "stopping" ELSE "idle"
  /\ UNCHANGED radio

\* The rest of start_ap or stop_ap
ApSwitched ==
  /\ timerTask # "idle"
  /\ ap' = (timerTask = "starting")
  /\ timerTask' = "idle"
  /\ UNCHANGED <<left, router, stored, joins, radio, queue, has, connected, timers, scanning,
                 entering, refused>>

-----------------------------------------------------------------------------
(* Web handlers; the page is open on the network or on the access point *)

Reached == radio = "linked" \/ ap

\* scan_json pauses a connection attempt ...
Scan ==
  /\ Reached /\ ~scanning
  /\ Spend("scans")
  /\ scanning' = TRUE
  /\ IF connected THEN UNCHANGED <<radio, queue, timers>>
     ELSE Disconnect /\ timers' = timers \ {"retry"}
  /\ UNCHANGED <<router, stored, joins, has, connected, ap, timerTask, entering, refused>>

\* mutant: what the scan paused is not tried again
ScannedOnly ==
  /\ scanning
  /\ scanning' = FALSE
  /\ UNCHANGED <<left, router, stored, joins, radio, queue, has, connected, ap, timers, timerTask,
                 entering, refused>>

\* ... and has it tried again after the scan.
Scanned ==
  /\ scanning
  /\ scanning' = FALSE
  /\ timers' = timers \cup (IF has /\ ~connected THEN {"retry"} ELSE {})
  /\ UNCHANGED <<left, router, stored, joins, radio, queue, has, connected, ap, timerTask,
                 entering, refused>>

\* set_credentials, up to esp_wifi_set_config
SetCredentials(c) ==
  /\ Reached /\ entering = "none"
  /\ Spend("credentials")
  /\ entering' = c
  /\ Disconnect
  /\ timers' = timers \ {"retry"}
  /\ UNCHANGED <<router, stored, joins, has, connected, ap, timerTask, scanning, refused>>

\* The driver stores them, or refuses them.
CredentialsSet ==
  /\ entering # "none"
  /\ entering' = "none"
  /\ refused' = (entering = "refused")
  /\ IF entering = "refused" THEN UNCHANGED <<stored, has, radio>>
     ELSE stored' = entering /\ has' = TRUE /\ Connect
  /\ UNCHANGED <<left, router, joins, queue, connected, ap, timers, timerTask, scanning>>

-----------------------------------------------------------------------------
\* start, at boot: without credentials the access point comes up at once.
StartWifi ==
  /\ radio' = "idle"
  /\ queue' = <<"start">>
  /\ has' = (stored # "none")
  /\ connected' = FALSE
  /\ ap' = (stored = "none")
  /\ timers' = IF stored = "none" THEN {} ELSE {"fallback"}
  /\ timerTask' = "idle" /\ scanning' = FALSE /\ entering' = "none" /\ refused' = FALSE

\* Power off, or a restart
StopWifi ==
  /\ radio' = "off" /\ queue' = <<>> /\ has' = FALSE /\ connected' = FALSE /\ ap' = FALSE
  /\ timers' = {} /\ timerTask' = "idle" /\ scanning' = FALSE /\ entering' = "none"
  /\ refused' = FALSE

WifiTypeOK ==
  /\ router \in BOOLEAN /\ joins \in BOOLEAN /\ stored \in Credentials
  /\ radio \in {"off", "idle", "connecting", "linked"}
  /\ queue \in Seq({"start", "disconnected", "got_ip"})
  /\ has \in BOOLEAN /\ connected \in BOOLEAN /\ ap \in BOOLEAN /\ timers \in SUBSET Timers
  /\ timerTask \in {"idle", "starting", "stopping"}
  /\ scanning \in BOOLEAN /\ entering \in Credentials \cup {"refused"} /\ refused \in BOOLEAN
=============================================================================
