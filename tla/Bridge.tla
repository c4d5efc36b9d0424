-------------------------------- MODULE Bridge --------------------------------
(***************************************************************************)
(* The bridge on its network: the WiFi (WifiManager), the firmware that is *)
(* started, updated and reset (BridgeUpdate), and the reports to a Cruller *)
(* (CrullerReport), which need the first and are cut off by the second.    *)
(***************************************************************************)
EXTENDS BridgeUpdate, CrullerReport

vars == <<left, router, stored, joins, wifiVars, updateVars, crullerVars>>

Init == UpdateInit /\ CrullerInit

\* An action of one of the three
Wifi(A) == up /\ A /\ UNCHANGED <<updateVars, crullerVars>>
Update(A) == A /\ UNCHANGED crullerVars
Cruller(A) == up /\ A /\ UNCHANGED <<router, stored, joins, wifiVars, updateVars>>

\* The network, the Crullers and the SVS do not wait for the bridge.
Outside(A, rest) == A /\ UNCHANGED rest

\* An action that stops the firmware; a factory reset forgets the Cruller too.
Stops(A, erases) ==
  /\ A
  /\ CrullerStops
  /\ selected_id' = IF erases THEN NoCruller ELSE selected_id

Next ==
  \/ Outside(Router, <<updateVars, crullerVars>>)
  \/ Wifi(Attempted) \/ Wifi(OnWifiEvent)
  \/ Wifi(OnFallbackTimer) \/ Wifi(OnRetryTimer) \/ Wifi(OnApStopTimer) \/ Wifi(ApSwitched)
  \/ Wifi(Scan) \/ Wifi(Scanned) \/ Wifi(CredentialsSet)
  \/ \E c \in {"right", "wrong", "refused"} : Wifi(SetCredentials(c))
  \/ Update(Boot) \/ Update(Confirm) \/ Update(SvsWork)
  \/ Update(OtaFails) \/ Update(OtaEnd) \/ Update(OtaSwitch)
  \/ \E image \in Images : Update(OtaBegin(image))
  \/ \E erases \in BOOLEAN : Update(RebootPost(erases))
  \/ Stops(PowerCut, FALSE) \/ Stops(Crash, FALSE) \/ Stops(RollBack, FALSE)
  \/ Stops(OnRebootTimer, erase) \/ Stops(Button, TRUE)
  \/ Outside(InputChanges, <<router, stored, joins, wifiVars, updateVars>>)
  \/ \E c \in Crullers :
       \/ Outside(CrullerComes(c), <<router, stored, joins, wifiVars, updateVars>>)
       \/ Outside(CrullerGoes(c), <<router, stored, joins, wifiVars, updateVars>>)
       \/ Cruller(Ages(c))
  \/ \E s \in Scanners : Cruller(ScanAsks(s)) \/ Cruller(ScanEnds(s))
  \/ Cruller(LookOffline) \/ Cruller(Look) \/ Cruller(Answered) \/ Cruller(NotAnswered)
  \/ Cruller(Store) \/ Cruller(GapPasses) \/ Cruller(BeatPasses)
  \/ \E c \in Crullers \cup {NoCruller} : Served /\ Cruller(Select(c))

Spec == Init /\ [][Next]_vars

\* The firmware runs, and the driver's attempts end; timers expire, and the timer
\* task, the reporting task and the handlers go on; of the passes of that task, one
\* scans at least every SCAN_MS.  Nothing says that a transfer ends, or that a report
\* or an answer gets through while one may still be lost.
FairSpec ==
  /\ Spec
  /\ WF_vars(Update(Boot)) /\ WF_vars(Update(Confirm) \/ Stops(RollBack, FALSE))
  /\ WF_vars(Stops(Crash, FALSE)) /\ WF_vars(Stops(OnRebootTimer, erase))
  /\ WF_vars(Wifi(Attempted)) /\ WF_vars(Wifi(OnWifiEvent))
  /\ WF_vars(Wifi(OnFallbackTimer)) /\ WF_vars(Wifi(OnRetryTimer))
  /\ WF_vars(Wifi(OnApStopTimer)) /\ WF_vars(Wifi(ApSwitched))
  /\ WF_vars(Wifi(Scanned)) /\ WF_vars(Wifi(CredentialsSet))
  /\ SF_vars(Cruller(ScanAsks("task")))
  /\ \A s \in Scanners : WF_vars(Cruller(ScanEnds(s)))
  /\ WF_vars(\E c \in Crullers : Cruller(Ages(c)))
  /\ WF_vars(Cruller(Look) \/ Cruller(Answered) \/ Cruller(NotAnswered) \/ Cruller(Store))
  /\ WF_vars(Cruller(GapPasses) \/ Cruller(BeatPasses))

-----------------------------------------------------------------------------
(* Properties *)

\* Types; and what the firmware believes of the network is right once the events
\* on their way have come.
TypeOK ==
  /\ WifiTypeOK /\ UpdateTypeOK /\ CrullerTypeOK
  /\ queue = <<>> => (connected <=> radio = "linked")

Kept(s) == slot[s].image = "good" /\ slot[s].whole /\ slot[s].state = "valid"

\* Whenever the power is cut, what is started next is a firmware that joined a
\* network before, or a new one with such a firmware to go back to: an update
\* cannot strand the bridge (README.md: "so a bad update can't leave a remote bridge
\* unreachable").
NeverStranded == Kept(Booted) \/ (slot[Booted].state = "new" /\ Kept(Other(Booted)))

\* set_credentials stops retrying; nothing starts it again when the driver refuses
\* the credentials and no attempt was under way.
GaveUp == refused /\ radio = "idle" /\ timers = {} /\ queue = <<>>

\* Again and again somebody can reach a firmware that works, over the network or
\* the setup access point, whatever images were tried, and whatever interfered,
\* save refused credentials entered while the access point closes.
ComesBack == []<>(up /\ slot[running].image = "good" /\ (Reached \/ GaveUp))

\* When the network stays there, and the credentials are right, the bridge ends up
\* in it, whatever scanned, entered credentials or opened the access point before.
Rejoins == <>[](Joinable /\ up /\ ~GaveUp) => <>[](radio = "linked" /\ connected)

\* The outcome that the page shows is of a report to the Cruller that is selected,
\* not of one that was under way to another when it was selected.
LastIsSelected == last.to \in {selected_id, NoCruller}

\* The Cruller that is selected learns the input that the SVS ends up with, whatever
\* was lost, whoever started again or moved to another address, and whenever the
\* bridge lost its network.
SelectedKnows ==
  \A c \in Crullers :
    <>[](connected /\ radio = "linked" /\ selected_id = c /\ c \in DOMAIN here /\ input # Unknown)
      => <>[](knows[c] = input)

\* The list that the page shows comes to hold just the Crullers on the network.
ListedAreHere == <>[](connected /\ radio = "linked") => <>[](Listed = DOMAIN here)
=============================================================================
