----------------------------- MODULE BridgeProofs -----------------------------
(***************************************************************************)
(* Proofs about Bridge, for any Crullers, addresses, inputs and plans.     *)
(***************************************************************************)
EXTENDS Bridge, SequenceTheorems, TLAPS

\* What s_sta_connected will be once the events on their way have come
Believed ==
  IF queue = <<>> \/ queue[Len(queue)] = "start" THEN connected ELSE queue[Len(queue)] = "got_ip"

\* The events that come agree with the station in the end, and only the start of the
\* driver says nothing of it; nothing is linked by a firmware that cannot join.
Events ==
  /\ Believed <=> radio = "linked"
  /\ \A i \in DOMAIN queue : queue[i] = "start" => i = 1
  /\ (connected \/ radio = "linked" \/ \E i \in DOMAIN queue : queue[i] = "got_ip") => joins

\* A firmware that runs is whole; one that was not confirmed has one to go back to that
\* joined a network, and any other did so itself and is what the boot loader falls
\* back to. Without one, that is so of the firmware started next.
Recoverable ==
  /\ up => /\ slot[running].whole
           /\ joins <=> slot[running].image = "good"
           /\ slot[running].state = "pending" => Kept(Other(running)) /\ selected = running
           /\ slot[running].state # "pending" =>
                Kept(running) /\ (selected = running \/ slot[selected].state \in {"new", "pending"})
           /\ ota = "written" => slot[Other(running)].whole
  /\ ~up => NeverStranded /\ (Booted # Chosen => slot[Chosen].state = "new")

\* The Crullers that are there have addresses, and answers bring such.
Maps == UNION {[D -> Addresses] : D \in SUBSET Crullers}
Answers == here \in Maps /\ answers \in [Scanners -> [asked : BOOLEAN, from : Maps]]

IInv ==
  /\ WifiTypeOK /\ Events
  /\ UpdateTypeOK /\ Recoverable
  /\ CrullerTypeOK /\ Answers /\ LastIsSelected

-----------------------------------------------------------------------------
(* WiFi *)

News == {"start", "disconnected", "got_ip"}

\* What an event at the end of the queue does to what is believed
LEMMA EventComes ==
  ASSUME WifiTypeOK, Events, NEW e \in {"disconnected", "got_ip"}, queue' = Append(queue, e),
         connected' = connected, joins' = joins,
         radio' = "linked" <=> e = "got_ip",
         e = "got_ip" => joins
  PROVE  queue' \in Seq(News) /\ Events'
<1>1. /\ queue \in Seq(News) /\ Len(queue) \in Nat /\ queue' \in Seq(News)
      /\ Len(queue') = Len(queue) + 1 /\ queue'[Len(queue')] = e /\ queue' # <<>>
      /\ \A i \in 1..Len(queue) : queue'[i] = queue[i]
      /\ DOMAIN queue' = 1..Len(queue) + 1 /\ DOMAIN queue = 1..Len(queue)
  BY DEF WifiTypeOK, News
<1>2. Believed' <=> e = "got_ip"
  BY <1>1 DEF Believed
<1>3. \A i \in DOMAIN queue' : queue'[i] = "start" => i = 1
  BY <1>1 DEF Events
<1>4. (\E i \in DOMAIN queue' : queue'[i] = "got_ip") => joins
  BY <1>1 DEF Events
<1> QED
  BY <1>1, <1>2, <1>3, <1>4 DEF Events

\* What happens to an event when it is handled
LEMMA EventGoes ==
  ASSUME WifiTypeOK, Events, queue # <<>>, queue' = Tail(queue), joins' = joins,
         radio' = "linked" <=> radio = "linked",
         Head(queue) = "start" => connected' = connected,
         Head(queue) # "start" => (connected' <=> Head(queue) = "got_ip")
  PROVE  queue' \in Seq(News) /\ Events'
<1>0. queue \in Seq(News)
  BY DEF WifiTypeOK, News
<1>1. /\ Len(queue) \in Nat \ {0} /\ queue' \in Seq(News) /\ Len(queue') = Len(queue) - 1
      /\ \A i \in 1..Len(queue') : queue'[i] = queue[i + 1]
      /\ DOMAIN queue' = 1..Len(queue') /\ DOMAIN queue = 1..Len(queue)
      /\ Head(queue) = queue[1]
  BY <1>0, HeadTailProperties, EmptySeq, LenProperties
<1>2. queue' = <<>> <=> Len(queue) = 1
  <2>1. Len(<<>>) = 0 /\ (\A s \in Seq(News) : s # <<>> => Len(s) \in Nat \ {0})
    BY EmptySeq
  <2>2. queue' = <<>> <=> Len(queue') = 0
    <3>1. queue' = <<>> => Len(queue') = 0
      BY <2>1, Zenon
    <3>2. queue' # <<>> => Len(queue') \in Nat \ {0}
      BY <1>1, <2>1, Zenon
    <3> QED
      BY <3>1, <3>2
  <2> QED
    BY <1>1, <2>2
<1>3. \A i \in DOMAIN queue' : queue'[i] # "start"
  BY <1>1 DEF Events
<1>4. Believed' <=> Believed
  <2>1. CASE Len(queue) = 1
    <3>1. CASE queue[1] = "start"
      <4>1. queue[Len(queue)] = "start" /\ queue' = <<>> /\ connected' = connected
        BY <1>1, <1>2, <2>1, <3>1
      <4> QED
        BY <4>1, Zenon DEF Believed
    <3>2. CASE queue[1] # "start"
      BY <1>1, <1>2, <2>1, <3>2, Zenon DEF Believed
    <3> QED
      BY <3>1, <3>2
  <2>2. CASE Len(queue) # 1
    <3>1. /\ queue'[Len(queue')] = queue[Len(queue)] /\ Len(queue') \in DOMAIN queue'
          /\ queue' # <<>>
      BY <1>1, <1>2, <2>2
    <3>2. queue'[Len(queue')] # "start"
      BY <1>3, <3>1
    <3> QED
      BY <3>1, <3>2, Zenon DEF Believed
  <2> QED
    BY <2>1, <2>2
<1>5. (connected' \/ \E i \in DOMAIN queue' : queue'[i] = "got_ip") => joins
  BY <1>1 DEF Events
<1> QED
  BY <1>1, <1>3, <1>4, <1>5 DEF Events

\* esp_wifi_disconnect, whatever the station does
LEMMA Disconnects ==
  ASSUME WifiTypeOK, Events, Disconnect, connected' = connected, joins' = joins
  PROVE  queue' \in Seq(News) /\ Events' /\ radio' \in {"off", "idle"} /\ (radio' = "off" <=> radio = "off")
<1>1. CASE radio \in {"connecting", "linked"}
  BY <1>1, EventComes DEF Disconnect
<1>2. CASE radio \in {"off", "idle"}
  BY <1>2 DEF Disconnect, Events, Believed, WifiTypeOK, News
<1> QED
  BY <1>1, <1>2 DEF WifiTypeOK, Disconnect

\* No event comes, and the station joins and leaves nothing.
LEMMA NoNews ==
  ASSUME Events, queue' = queue, connected' = connected, joins' = joins,
         radio' = "linked" <=> radio = "linked"
  PROVE  Events'
<1>1. Believed' <=> Believed
  BY DEF Believed
<1> QED
  BY <1>1 DEF Events

\* Stopping, and starting
LEMMA Silent ==
  ASSUME queue' \in {<<>>, <<"start">>}, connected' = FALSE, radio' # "linked"
  PROVE  queue' \in Seq(News) /\ Events'
<1>1. CASE queue' = <<>>
  BY <1>1 DEF Events, Believed, News
<1>2. CASE queue' = <<"start">>
  BY <1>2 DEF Events, Believed, News
<1> QED
  BY <1>1, <1>2

LEMMA WifiStep ==
  ASSUME IInv, [Next]_vars
  PROVE  WifiTypeOK' /\ Events'
<1> USE DEF Credentials, Timers, News, Spend
<1>0. WifiTypeOK /\ Events
  BY DEF IInv
<1>1. CASE Attempted
  <2>1. Events' /\ queue' \in Seq(News)
    <3>1. CASE Joinable
      BY <1>0, <1>1, <3>1, EventComes DEF Attempted, Joinable
    <3>2. CASE ~Joinable
      BY <1>0, <1>1, <3>2, EventComes DEF Attempted
    <3> QED
      BY <3>1, <3>2
  <2> QED
    BY <1>0, <1>1, <2>1 DEF Attempted, WifiTypeOK
<1>2. CASE Router
  <2>1. Events' /\ queue' \in Seq(News)
    <3>1. CASE radio = "linked"
      BY <1>0, <1>2, <3>1, Disconnects DEF Router
    <3>2. CASE radio # "linked"
      BY <1>0, <1>2, <3>2, NoNews DEF Router, WifiTypeOK
    <3> QED
      BY <3>1, <3>2
  <2> QED
    BY <1>0, <1>2, <2>1 DEF Router, WifiTypeOK, Disconnect
<1>3. CASE OnWifiEvent
  <2>1. radio' = "linked" <=> radio = "linked"
    BY <1>3 DEF OnWifiEvent, StaStart, StaDisconnected, GotIp, Connect
  <2>2. Events' /\ queue' \in Seq(News)
    <3>1. Head(queue) = "start" => connected' = connected
      BY <1>3 DEF OnWifiEvent, StaStart
    <3>2. Head(queue) # "start" => (connected' <=> Head(queue) = "got_ip")
      BY <1>3 DEF OnWifiEvent, StaDisconnected, GotIp
    <3> QED
      BY <1>0, <1>3, <2>1, <3>1, <3>2, EventGoes DEF OnWifiEvent
  <2>3. timers' \in SUBSET Timers /\ radio' \in {"off", "idle", "connecting", "linked"}
        /\ connected' \in BOOLEAN
    BY <1>0, <1>3 DEF OnWifiEvent, StaStart, StaDisconnected, GotIp, Connect, WifiTypeOK
  <2> QED
    BY <1>0, <1>3, <2>2, <2>3 DEF OnWifiEvent, WifiTypeOK
<1>4. CASE OnFallbackTimer \/ OnApStopTimer
  <2>1. Events'
    BY <1>0, <1>4, NoNews DEF OnFallbackTimer, OnApStopTimer, Expires
  <2>2. timers' \in SUBSET Timers /\ timerTask' \in {"idle", "starting", "stopping"}
    BY <1>0, <1>4 DEF OnFallbackTimer, OnApStopTimer, Expires, WifiTypeOK
  <2> QED
    BY <1>0, <1>4, <2>1, <2>2 DEF OnFallbackTimer, OnApStopTimer, Expires, WifiTypeOK
<1>5. CASE OnRetryTimer
  <2>1. radio' = "linked" <=> radio = "linked"
    BY <1>5 DEF OnRetryTimer, Connect
  <2> QED
    BY <1>0, <1>5, <2>1, NoNews DEF OnRetryTimer, Connect, Expires, WifiTypeOK
<1>6. CASE ApSwitched \/ Scanned
  <2>1. Events'
    BY <1>0, <1>6, NoNews DEF ApSwitched, Scanned
  <2>2. timers' \in SUBSET Timers /\ ap' \in BOOLEAN /\ scanning' \in BOOLEAN
        /\ timerTask' \in {"idle", "starting", "stopping"}
    BY <1>0, <1>6 DEF ApSwitched, Scanned, WifiTypeOK
  <2> QED
    BY <1>0, <1>6, <2>1, <2>2 DEF ApSwitched, Scanned, WifiTypeOK
<1>7. CASE Scan
  <2>1. Events' /\ queue' \in Seq(News)
    <3>1. CASE connected
      BY <1>0, <1>7, <3>1, NoNews DEF Scan, WifiTypeOK
    <3>2. CASE ~connected
      BY <1>0, <1>7, <3>2, Disconnects DEF Scan
    <3> QED
      BY <3>1, <3>2
  <2>2. timers' \in SUBSET Timers /\ radio' \in {"off", "idle", "connecting", "linked"}
    BY <1>0, <1>7 DEF Scan, Disconnect, WifiTypeOK
  <2> QED
    BY <1>0, <1>7, <2>1, <2>2 DEF Scan, WifiTypeOK
<1>8. ASSUME NEW c \in {"right", "wrong", "refused"}, SetCredentials(c)
      PROVE  WifiTypeOK' /\ Events'
  <2>1. Events' /\ queue' \in Seq(News)
    BY <1>0, <1>8, Disconnects DEF SetCredentials
  <2> QED
    BY <1>0, <1>8, <2>1 DEF SetCredentials, Disconnect, WifiTypeOK
<1>9. CASE CredentialsSet
  <2>1. radio' = "linked" <=> radio = "linked"
    BY <1>9 DEF CredentialsSet, Connect
  <2>2. Events'
    BY <1>0, <1>9, <2>1, NoNews DEF CredentialsSet
  <2>3. /\ stored' \in Credentials /\ has' \in BOOLEAN /\ refused' \in BOOLEAN
        /\ radio' \in {"off", "idle", "connecting", "linked"}
    BY <1>0, <1>9 DEF CredentialsSet, Connect, WifiTypeOK
  <2> QED
    BY <1>0, <1>9, <2>2, <2>3 DEF CredentialsSet, WifiTypeOK
<1>10. CASE Boot
  <2>1. Events' /\ queue' \in Seq(News)
    BY <1>10, Silent DEF Boot, StartWifi
  <2> QED
    BY <1>0, <1>10, <2>1 DEF Boot, StartWifi, WifiTypeOK
<1>11. CASE Stop /\ stored' \in {stored, "none"}
  <2>1. Events' /\ queue' \in Seq(News)
    BY <1>11, Silent DEF Stop, StopWifi
  <2> QED
    BY <1>0, <1>11, <2>1 DEF Stop, StopWifi, WifiTypeOK
<1>12. CASE UNCHANGED <<router, stored, joins, wifiVars>>
  BY <1>0, <1>12, NoNews DEF WifiTypeOK, wifiVars
<1>13. \/ Attempted \/ Router \/ OnWifiEvent \/ OnFallbackTimer \/ OnApStopTimer \/ OnRetryTimer
       \/ ApSwitched \/ Scanned \/ Scan \/ CredentialsSet \/ Boot
       \/ \E c \in {"right", "wrong", "refused"} : SetCredentials(c)
       \/ Stop /\ stored' \in {stored, "none"}
       \/ UNCHANGED <<router, stored, joins, wifiVars>>
  <2>1. CASE Next
    BY <2>1 DEF Next, Outside, Wifi, Update, Cruller, Stops, Confirm, SvsWork, OtaFails, OtaEnd,
                OtaSwitch, OtaBegin, RebootPost, PowerCut, Crash, RollBack, OnRebootTimer, Button
  <2> QED
    BY <2>1 DEF vars
<1> QED
  BY <1>1, <1>2, <1>3, <1>4, <1>5, <1>6, <1>7, <1>8, <1>9, <1>10, <1>11, <1>12, <1>13

-----------------------------------------------------------------------------
(* Updates *)

\* Whatever stops a firmware, what is started next works or can be gone back from.
LEMMA PowerFails ==
  ASSUME UpdateTypeOK, Recoverable, up
  PROVE  NeverStranded /\ (Booted # Chosen => slot[Chosen].state = "new")
<1> USE DEF UpdateTypeOK, Slots, Other
<1>1. CASE slot[running].state = "pending"
  <2>1. selected = running /\ Kept(Other(running))
    BY <1>1 DEF Recoverable
  <2>2. Chosen = Other(running) /\ Booted = Other(running)
    BY <1>1, <2>1 DEF Chosen, Booted, GivenUp, Kept
  <2> QED
    BY <2>1, <2>2 DEF NeverStranded
<1>2. CASE slot[running].state # "pending"
  <2>1. Kept(running) /\ (selected = running \/ slot[selected].state \in {"new", "pending"})
    BY <1>2 DEF Recoverable
  <2>2. CASE selected = running \/ slot[selected].state = "pending"
    <3>1. Chosen = running /\ Booted = running
      BY <2>1, <2>2 DEF Chosen, Booted, GivenUp, Kept
    <3> QED
      BY <2>1, <3>1 DEF NeverStranded
  <2>3. CASE selected # running /\ slot[selected].state = "new"
    <3>1. Chosen = selected /\ Other(selected) = running /\ Booted \in {selected, running}
      BY <2>3 DEF Chosen, Booted, GivenUp
    <3> QED
      BY <2>1, <2>3, <3>1 DEF NeverStranded
  <2> QED
    BY <2>1, <2>2, <2>3
<1> QED
  BY <1>1, <1>2

\* A firmware that stops, with the slots as they are
LEMMA Stopping ==
  ASSUME UpdateTypeOK, Recoverable, up, Stop, slot' = slot
  PROVE  UpdateTypeOK' /\ Recoverable'
<1>1. UpdateTypeOK'
  BY DEF UpdateTypeOK, Stop, StopWifi, WifiOff
<1>2. Booted' = Booted /\ Chosen' = Chosen
  BY DEF Booted, Chosen, GivenUp, Stop
<1>3. NeverStranded' /\ (Booted' # Chosen' => slot'[Chosen'].state = "new")
  BY <1>2, PowerFails DEF NeverStranded, Kept
<1> QED
  BY <1>1, <1>3 DEF Recoverable, Stop

\* A new firmware that did not join is given up for the one that did.
LEMMA RollingBack ==
  ASSUME UpdateTypeOK, Recoverable, RollBack
  PROVE  UpdateTypeOK' /\ Recoverable'
<1> USE DEF UpdateTypeOK, Slots, Other
<1>1. up /\ slot[running].state = "pending" /\ Kept(Other(running)) /\ selected = running
  BY DEF RollBack, Recoverable
<1>2. slot' = [slot EXCEPT ![running].state = "failed"]
  BY <1>1 DEF RollBack, Kept, GivenUp
<1>3. slot' \in [Slots -> [image : Images, whole : BOOLEAN, state : {"new", "pending", "valid", "failed"}]]
  BY <1>2
<1>4. slot'[running].state = "failed" /\ slot'[Other(running)] = slot[Other(running)]
  BY <1>2
<1>5. UpdateTypeOK'
  BY <1>3 DEF RollBack, Stop, StopWifi, WifiOff
<1>6. Chosen' = Other(running) /\ Booted' = Other(running)
  BY <1>1, <1>4 DEF Chosen, Booted, GivenUp, Kept, RollBack, Stop
<1>7. Kept(Other(running))'
  BY <1>1, <1>4 DEF Kept, RollBack, Stop
<1> QED
  BY <1>5, <1>6, <1>7 DEF Recoverable, NeverStranded, Kept, RollBack, Stop

\* What the boot loader starts is whole, and is on probation only with another to go
\* back to.
LEMMA Booting ==
  ASSUME UpdateTypeOK, Recoverable, Boot
  PROVE  UpdateTypeOK' /\ Recoverable'
<1> USE DEF UpdateTypeOK, Slots, Other
<1>1. ~up /\ ota = "idle" /\ NeverStranded /\ (Booted # Chosen => slot[Chosen].state = "new")
  BY DEF Boot, Recoverable
<1>2. Chosen \in Slots /\ Booted \in Slots
  BY DEF Chosen, Booted
<1> DEFINE After(s) == CASE s = selected /\ slot[s].state = "pending" -> "failed"
                         [] s = Chosen /\ slot[s].state = "new" -> "pending"
                         [] OTHER -> slot[s].state
<1>3. \A s \in Slots : slot'[s] = [slot[s] EXCEPT !.state = After(s)]
  BY DEF Boot
<1>4. \A s \in Slots : /\ slot'[s].state = After(s)
                       /\ slot'[s].whole = slot[s].whole /\ slot'[s].image = slot[s].image
  BY <1>3
<1>5. slot' \in [Slots -> [image : Images, whole : BOOLEAN, state : {"new", "pending", "valid", "failed"}]]
  BY DEF Boot
<1>6. UpdateTypeOK'
  BY <1>2, <1>5 DEF Boot
<1>7. slot[Booted].whole /\ slot[Booted].state # "pending"
  BY <1>1, <1>2 DEF NeverStranded, Booted, Kept
<1>8. slot'[Booted].state = "pending" => Kept(Other(Booted)) /\ Chosen = Booted
  BY <1>1, <1>2, <1>4, <1>7 DEF NeverStranded, Kept
<1>9. slot'[Booted].state # "pending" =>
        Kept(Booted) /\ (Chosen = Booted \/ slot'[Chosen].state \in {"new", "pending"})
  BY <1>1, <1>2, <1>4, <1>7 DEF NeverStranded, Kept
<1>10. \A s \in Slots : Kept(s) => Kept(s)'
  BY <1>4 DEF Kept
<1>11. running' = Booted /\ selected' = Chosen /\ up' /\ (joins' <=> slot'[Booted].image = "good")
       /\ ota' = "idle"
  BY <1>1, <1>2, <1>4 DEF Boot
<1> QED
  BY <1>2, <1>4, <1>6, <1>7, <1>8, <1>9, <1>10, <1>11 DEF Recoverable

\* An update, and the end of a firmware's probation
LEMMA Updating ==
  ASSUME WifiTypeOK, Events, UpdateTypeOK, Recoverable,
         Confirm \/ OtaEnd \/ OtaSwitch \/ \E image \in Images : OtaBegin(image)
  PROVE  UpdateTypeOK' /\ Recoverable'
<1> USE DEF UpdateTypeOK, Slots, Other
<1> DEFINE SlotType == [image : Images, whole : BOOLEAN, state : {"new", "pending", "valid", "failed"}]
<1>1. up
  BY DEF Confirm, OtaEnd, OtaSwitch, OtaBegin, Served
<1>2. CASE Confirm
  <2>1. slot[running].image = "good" /\ slot[running].whole /\ selected = running
    BY <1>1, <1>2 DEF Confirm, Events, Recoverable
  <2>2. slot'[running] = [slot[running] EXCEPT !.state = "valid"] /\ slot' \in [Slots -> SlotType]
    BY <1>2 DEF Confirm
  <2>3. Kept(running)'
    BY <1>2, <2>1, <2>2 DEF Kept, Confirm
  <2>4. UpdateTypeOK'
    BY <1>1, <1>2, <2>2 DEF Confirm
  <2> QED
    BY <1>1, <1>2, <2>1, <2>3, <2>4 DEF Recoverable, Confirm, Kept
<1>3. CASE OtaEnd
  <2>1. slot[running].state # "pending"
    BY <1>1, <1>3 DEF OtaEnd
  <2>2. /\ slot'[Other(running)] = [slot[Other(running)] EXCEPT !.whole = TRUE]
        /\ slot'[running] = slot[running] /\ slot' \in [Slots -> SlotType]
    BY <1>3 DEF OtaEnd
  <2>3. UpdateTypeOK'
    BY <1>1, <1>3, <2>1, <2>2 DEF OtaEnd
  <2>4. slot'[Other(running)].whole /\ slot'[Other(running)].state = slot[Other(running)].state
    BY <2>2
  <2> QED
    BY <1>1, <1>3, <2>1, <2>2, <2>3, <2>4 DEF Recoverable, OtaEnd, Kept
<1>4. CASE OtaSwitch
  <2>1. slot[running].state # "pending"
    BY <1>1, <1>4 DEF OtaSwitch
  <2>2. /\ slot'[Other(running)] = [slot[Other(running)] EXCEPT !.state = "new"]
        /\ slot'[running] = slot[running] /\ slot' \in [Slots -> SlotType]
    BY <1>4 DEF OtaSwitch
  <2>3. UpdateTypeOK'
    BY <1>1, <1>4, <2>1, <2>2 DEF OtaSwitch
  <2>4. slot'[Other(running)].state = "new"
    BY <2>2
  <2> QED
    BY <1>1, <1>4, <2>1, <2>2, <2>3, <2>4 DEF Recoverable, OtaSwitch, Kept
<1>5. ASSUME NEW image \in Images, OtaBegin(image)
      PROVE  UpdateTypeOK' /\ Recoverable'
  <2>1. slot[running].state # "pending" /\ ~confirm
    BY <1>1, <1>5 DEF OtaBegin
  <2>2. /\ slot'[running] = slot[running] /\ slot' \in [Slots -> SlotType]
        /\ slot'[Other(running)].state = slot[Other(running)].state
    <3> DEFINE Erased == [slot[Other(running)] EXCEPT !.whole = FALSE]
               Begun == [Erased EXCEPT !.image = image]
    <3>1. Other(running) \in Slots /\ Other(running) # running /\ slot \in [Slots -> SlotType]
      OBVIOUS
    <3>2. Begun \in SlotType /\ Begun.state = slot[Other(running)].state
      BY <3>1
    <3>3. slot' = [[slot EXCEPT ![Other(running)] = Erased] EXCEPT ![Other(running)] = Begun]
      BY <1>5, <3>1 DEF OtaBegin
    <3> HIDE DEF Begun, Erased, SlotType
    <3> QED
      BY <3>1, <3>2, <3>3
  <2>3. UpdateTypeOK'
    BY <1>1, <1>5, <2>1, <2>2 DEF OtaBegin
  <2> QED
    BY <1>1, <1>5, <2>1, <2>2, <2>3 DEF Recoverable, OtaBegin, Kept
<1> QED
  BY <1>2, <1>3, <1>4, <1>5

LEMMA UpdateStep ==
  ASSUME IInv, [Next]_vars
  PROVE  UpdateTypeOK' /\ Recoverable'
<1>0. UpdateTypeOK /\ Recoverable /\ WifiTypeOK /\ Events
  BY DEF IInv
<1>1. CASE Boot
  BY <1>0, <1>1, Booting
<1>2. CASE RollBack
  BY <1>0, <1>2, RollingBack
<1>3. CASE PowerCut \/ Crash \/ OnRebootTimer \/ Button
  <2>1. up /\ Stop /\ slot' = slot
    BY <1>0, <1>3 DEF PowerCut, Crash, OnRebootTimer, Button, UpdateTypeOK
  <2> QED
    BY <1>0, <2>1, Stopping
<1>4. CASE Confirm \/ OtaEnd \/ OtaSwitch \/ \E image \in Images : OtaBegin(image)
  BY <1>0, <1>4, Updating
<1>5. CASE SvsWork \/ OtaFails \/ \E erases \in BOOLEAN : RebootPost(erases)
  <2>1. /\ up /\ UNCHANGED <<slot, selected, running, up, confirm, joins>>
        /\ ota' \in {ota, "idle"} /\ rebooting' \in BOOLEAN /\ erase' \in BOOLEAN
        /\ svsBusy' \in BOOLEAN
    BY <1>0, <1>5 DEF SvsWork, OtaFails, RebootPost, Served, UpdateTypeOK
  <2>2. UpdateTypeOK'
    BY <1>0, <2>1 DEF UpdateTypeOK
  <2> QED
    BY <1>0, <2>1, <2>2 DEF Recoverable, Kept, NeverStranded, Booted, Chosen, GivenUp
<1>6. CASE UNCHANGED <<updateVars, joins>> /\ (~up => UNCHANGED wifiVars)
  <2>1. UpdateTypeOK'
    BY <1>0, <1>6 DEF UpdateTypeOK, WifiOff, updateVars, wifiVars
  <2> QED
    BY <1>0, <1>6, <2>1 DEF Recoverable, Kept, NeverStranded, Booted, Chosen, GivenUp, updateVars
<1>7. \/ Boot \/ RollBack \/ PowerCut \/ Crash \/ OnRebootTimer \/ Button
      \/ Confirm \/ OtaEnd \/ OtaSwitch \/ (\E image \in Images : OtaBegin(image))
      \/ SvsWork \/ OtaFails \/ (\E erases \in BOOLEAN : RebootPost(erases))
      \/ UNCHANGED <<updateVars, joins>> /\ (~up => UNCHANGED wifiVars)
  <2>1. Router /\ ~up => UNCHANGED wifiVars
    BY <1>0 DEF UpdateTypeOK, WifiOff, Router, wifiVars
  <2>2. /\ Router => UNCHANGED joins
        /\ Attempted \/ OnWifiEvent \/ OnFallbackTimer \/ OnRetryTimer \/ OnApStopTimer \/ ApSwitched
             \/ Scan \/ Scanned \/ CredentialsSet \/ (\E c \in {"right", "wrong", "refused"} : SetCredentials(c))
           => UNCHANGED joins
    BY DEF Router, Attempted, OnWifiEvent, OnFallbackTimer, OnRetryTimer, OnApStopTimer, Expires,
           ApSwitched, Scan, Scanned, CredentialsSet, SetCredentials
  <2>3. CASE Next
    BY <2>1, <2>2, <2>3 DEF Next, Outside, Wifi, Update, Cruller, Stops
  <2> QED
    BY <2>3 DEF vars
<1> QED
  BY <1>1, <1>2, <1>3, <1>4, <1>5, <1>6, <1>7

-----------------------------------------------------------------------------
(* The reports to a Cruller *)

CrullerInv == CrullerTypeOK /\ Answers /\ LastIsSelected

\* A list of Crullers with their addresses
LEMMA AddressMaps ==
  ASSUME NEW f
  PROVE  f \in Maps <=> /\ f = [c \in DOMAIN f |-> f[c]] /\ DOMAIN f \subseteq Crullers
                       /\ \A c \in DOMAIN f : f[c] \in Addresses
BY DEF Maps

\* The Crullers, which come and go, and the scans
LEMMA CrullersMove ==
  ASSUME CrullerInv,
         \/ \E s \in Scanners : ScanAsks(s) \/ ScanEnds(s)
         \/ \E c \in Crullers : CrullerComes(c) \/ CrullerGoes(c) \/ Ages(c)
  PROVE  CrullerInv'
<1> USE DEF CrullerInv, CrullerTypeOK, LastIsSelected, Answers, Listed
<1>1. ASSUME NEW c \in Crullers, CrullerComes(c)
      PROVE  CrullerInv'
  <2>1. DOMAIN here' \subseteq Crullers /\ \A d \in DOMAIN here' : here'[d] \in Addresses
    BY <1>1 DEF CrullerComes
  <2>2. knows' \in [Crullers -> Inputs \cup {Unknown}]
    BY <1>1 DEF CrullerComes
  <2>3. c \in DOMAIN here'
    BY <1>1 DEF CrullerComes
  <2>4. /\ DOMAIN found' \subseteq Crullers /\ old' \subseteq DOMAIN found' /\ announced' \in BOOLEAN
        /\ \A d \in DOMAIN found' : found'[d] \in Addresses
    BY <1>1, <2>1, <2>3 DEF CrullerComes, OnBrowse
  <2>5. here' \in Maps
    BY <1>1, <2>1, AddressMaps DEF CrullerComes
  <2> QED
    BY <1>1, <2>1, <2>2, <2>4, <2>5 DEF CrullerComes
<1>2. ASSUME NEW c \in Crullers, CrullerGoes(c)
      PROVE  CrullerInv'
  <2>1. DOMAIN here' \subseteq Crullers /\ \A d \in DOMAIN here' : here'[d] \in Addresses
    BY <1>2 DEF CrullerGoes, Restrict
  <2>2. /\ DOMAIN found' \subseteq Crullers /\ old' \subseteq DOMAIN found'
        /\ \A d \in DOMAIN found' : found'[d] \in Addresses
    BY <1>2 DEF CrullerGoes, Restrict
  <2>3. here' \in Maps
    BY <1>2, <2>1, AddressMaps DEF CrullerGoes, Restrict
  <2> QED
    BY <1>2, <2>1, <2>2, <2>3 DEF CrullerGoes
<1>3. ASSUME NEW c \in Crullers, Ages(c)
      PROVE  CrullerInv'
  BY <1>3 DEF Ages
<1>4. ASSUME NEW s \in Scanners, ScanAsks(s)
      PROVE  CrullerInv'
  <2>1. PICK h : /\ h \in {here, <<>>} \cup {Restrict(here, DOMAIN here \ {c}) : c \in DOMAIN here}
                 /\ answers' = [answers EXCEPT ![s] = [asked |-> TRUE, from |-> h]]
    BY <1>4 DEF ScanAsks
  <2>2. h \in Maps
    <3>1. <<>> = [c \in {} |-> 0] /\ DOMAIN <<>> = {}
      OBVIOUS
    <3>2. CASE h = <<>>
      BY <3>1, <3>2, AddressMaps
    <3>3. ASSUME NEW c \in DOMAIN here, h = Restrict(here, DOMAIN here \ {c})
          PROVE  h \in Maps
      <4>1. h = [d \in DOMAIN here \ {c} |-> here[d]]
        BY <3>3, Zenon DEF Restrict
      <4> QED
        BY <4>1, AddressMaps
    <3> QED
      BY <2>1, <3>2, <3>3
  <2>3. [asked |-> TRUE, from |-> h] \in [asked : BOOLEAN, from : Maps] /\ DOMAIN h \subseteq Crullers
    BY <2>2, AddressMaps
  <2>4. Answers' /\ answers'[s].asked /\ answers'[s].from = h
        /\ \A t \in Scanners : t # s => answers'[t] = answers[t]
    <3>1. UNCHANGED here
      BY <1>4 DEF ScanAsks
    <3> QED
      BY <2>1, <2>3, <3>1
  <2>5. old' \subseteq DOMAIN found' /\ found' = found
    BY <1>4 DEF ScanAsks
  <2>6. /\ \A t \in Scanners : DOMAIN answers'[t].from \subseteq Crullers
        /\ task' = "scanning" <=> answers'["task"].asked
        /\ task' \in {"poll", "scanning", "scanned", "sending", "answered"}
        /\ task' \in {"sending", "answered"} <=> report # NoReport
        /\ was' \in BOOLEAN
    <3>1. CASE s = "task"
      BY <1>4, <2>3, <2>4, <3>1 DEF ScanAsks, Scanners
    <3>2. CASE s # "task"
      BY <1>4, <2>3, <2>4, <3>2 DEF ScanAsks, Scanners
    <3> QED
      BY <3>1, <3>2
  <2> QED
    BY <1>4, <2>4, <2>5, <2>6 DEF ScanAsks
<1>5. ASSUME NEW s \in Scanners, ScanEnds(s)
      PROVE  CrullerInv'
  <2>1. NotScanning \in [asked : BOOLEAN, from : Maps]
    <3>1. <<>> = [c \in {} |-> 0] /\ DOMAIN <<>> = {}
      OBVIOUS
    <3> QED
      BY <3>1, AddressMaps DEF NotScanning
  <2>2. Answers' /\ answers'[s] = NotScanning /\ \A t \in Scanners : t # s => answers'[t] = answers[t]
    BY <1>5, <2>1 DEF ScanEnds
  <2>3. /\ DOMAIN answers[s].from \subseteq Crullers
        /\ \A d \in DOMAIN answers[s].from : answers[s].from[d] \in Addresses
    BY AddressMaps
  <2>4. /\ DOMAIN found' \subseteq Crullers /\ old' \subseteq DOMAIN found'
        /\ \A d \in DOMAIN found' : found'[d] \in Addresses
    BY <1>5, <2>3 DEF ScanEnds
  <2>5. /\ \A t \in Scanners : DOMAIN answers'[t].from \subseteq Crullers
        /\ task' = "scanning" <=> answers'["task"].asked
        /\ task' \in {"poll", "scanning", "scanned", "sending", "answered"}
        /\ task' \in {"sending", "answered"} <=> report # NoReport
    <3>1. DOMAIN NotScanning.from = {} /\ ~NotScanning.asked
      BY DEF NotScanning
    <3>2. CASE s = "task"
      BY <1>5, <2>2, <3>1, <3>2 DEF ScanEnds, Scanners
    <3>3. CASE s # "task"
      BY <1>5, <2>2, <3>1, <3>3 DEF ScanEnds, Scanners
    <3> QED
      BY <3>2, <3>3
  <2> QED
    BY <1>5, <2>2, <2>4, <2>5 DEF ScanEnds
<1> QED
  BY <1>1, <1>2, <1>3, <1>4, <1>5

\* The task, and the choice of a Cruller
LEMMA TaskWorks ==
  ASSUME CrullerInv,
         \/ LookOffline \/ Look \/ Answered \/ NotAnswered \/ Store \/ GapPasses \/ BeatPasses
         \/ InputChanges \/ \E c \in Crullers \cup {NoCruller} : Select(c)
  PROVE  CrullerInv'
<1> USE DEF CrullerInv, CrullerTypeOK, LastIsSelected, Answers, Listed
<1>1. CASE LookOffline \/ GapPasses \/ BeatPasses \/ InputChanges
  BY <1>1 DEF LookOffline, GapPasses, BeatPasses, InputChanges
<1>2. CASE Look
  <2>1. CASE task' = "poll" /\ UNCHANGED report
    BY <1>2, <2>1 DEF Look, Scanners
  <2>2. CASE /\ selected_id \in Listed /\ task' = "sending"
             /\ report' = [to |-> selected_id, at |-> found[selected_id], input |-> input, ok |-> FALSE]
    <3>1. report' \in Reports
      BY <2>2 DEF Reports
    <3>2. report' # NoReport
      BY <2>2, CrullerAssumption DEF NoReport
    <3> QED
      BY <1>2, <2>2, <3>1, <3>2 DEF Look
  <2> QED
    BY <1>2, <2>1, <2>2 DEF Look
<1>3. CASE Answered
  <2>1. knows' \in [Crullers -> Inputs \cup {Unknown}]
    BY <1>3 DEF Answered, Reports
  <2>2. report' \in Reports /\ report' # NoReport
    BY <1>3 DEF Answered, Reports, NoReport
  <2> QED
    BY <1>3, <2>1, <2>2 DEF Answered
<1>4. CASE NotAnswered
  <2>1. knows' \in [Crullers -> Inputs \cup {Unknown}]
    BY <1>4 DEF NotAnswered, Reports
  <2> QED
    BY <1>4, <2>1 DEF NotAnswered
<1>5. CASE Store
  <2>1. NoReport \in Reports
    BY DEF NoReport, Reports
  <2> QED
    BY <1>5, <2>1 DEF Store
<1>6. ASSUME NEW c \in Crullers \cup {NoCruller}, Select(c)
      PROVE  CrullerInv'
  <2>1. last' \in Reports /\ last'.to \in {selected_id', NoCruller}
    BY <1>6 DEF Select, NoReport, Reports
  <2> QED
    BY <1>6, <2>1 DEF Select
<1> QED
  BY <1>1, <1>2, <1>3, <1>4, <1>5, <1>6

\* What is there of scans before the first one
NoScansWell ==
  /\ NoScans \in [Scanners -> [asked : BOOLEAN, from : Maps]]
  /\ \A s \in Scanners : DOMAIN NoScans[s].from = {}
  /\ ~NoScans["task"].asked

LEMMA NothingScanned == NoScansWell
<1>1. <<>> = [c \in {} |-> 0] /\ DOMAIN <<>> = {}
  OBVIOUS
<1>2. NotScanning \in [asked : BOOLEAN, from : Maps]
  BY <1>1, AddressMaps DEF NotScanning
<1> QED
  BY <1>2 DEF NoScansWell, NoScans, NotScanning, Scanners

\* A restart
LEMMA TaskStops ==
  ASSUME CrullerInv, CrullerStops, selected_id' \in {selected_id, NoCruller}
  PROVE  CrullerInv'
<1>1. NoReport \in Reports /\ NoReport.to = NoCruller
  BY DEF NoReport, Reports
<1>2. DOMAIN <<>> = {} /\ NoScansWell
  BY NothingScanned
<1> QED
  BY <1>1, <1>2 DEF NoScansWell, CrullerInv, CrullerTypeOK, LastIsSelected, Answers, Listed, CrullerStops

LEMMA CrullerStep ==
  ASSUME IInv, [Next]_vars
  PROVE  CrullerTypeOK' /\ Answers' /\ LastIsSelected'
<1>0. CrullerInv
  BY DEF IInv, CrullerInv
<1>1. \/ \E s \in Scanners : ScanAsks(s) \/ ScanEnds(s)
      \/ (\E c \in Crullers : CrullerComes(c) \/ CrullerGoes(c) \/ Ages(c))
      \/ LookOffline \/ Look \/ Answered \/ NotAnswered \/ Store \/ GapPasses \/ BeatPasses
      \/ InputChanges \/ (\E c \in Crullers \cup {NoCruller} : Select(c))
      \/ CrullerStops /\ selected_id' \in {selected_id, NoCruller}
      \/ UNCHANGED crullerVars
  <2>1. CASE Next
    BY <2>1 DEF Next, Outside, Wifi, Update, Cruller, Stops
  <2> QED
    BY <2>1 DEF vars
<1>2. CASE UNCHANGED crullerVars
  BY <1>0, <1>2 DEF CrullerInv, CrullerTypeOK, LastIsSelected, Answers, Listed, crullerVars
<1>3. CASE \/ \E s \in Scanners : ScanAsks(s) \/ ScanEnds(s)
           \/ \E c \in Crullers : CrullerComes(c) \/ CrullerGoes(c) \/ Ages(c)
  <2>1. CrullerInv'
    BY <1>0, <1>3, CrullersMove
  <2> QED
    BY <2>1 DEF CrullerInv
<1>4. CASE \/ LookOffline \/ Look \/ Answered \/ NotAnswered \/ Store \/ GapPasses \/ BeatPasses
           \/ InputChanges \/ \E c \in Crullers \cup {NoCruller} : Select(c)
  <2>1. CrullerInv'
    BY <1>0, <1>4, TaskWorks
  <2> QED
    BY <2>1 DEF CrullerInv
<1>5. CASE CrullerStops /\ selected_id' \in {selected_id, NoCruller}
  BY <1>0, <1>5, TaskStops DEF CrullerInv
<1> QED
  BY <1>1, <1>2, <1>3, <1>4, <1>5

-----------------------------------------------------------------------------
(* Theorems *)

LEMMA InitIInv ==
  ASSUME Init
  PROVE  IInv
<1> USE DEF Init, UpdateInit, CrullerInit, WifiOff, CrullerOff
<1>1. WifiTypeOK
  <2>1. /\ queue \in Seq({"start", "disconnected", "got_ip"}) /\ timers \in SUBSET Timers
        /\ router \in BOOLEAN /\ joins \in BOOLEAN /\ stored \in Credentials
    BY EmptySeq DEF Credentials
  <2> QED
    BY <2>1 DEF WifiTypeOK, Credentials
<1>2. Events
  BY DEF Events, Believed
<1>3. UpdateTypeOK
  BY DEF UpdateTypeOK, Slots, Images
<1>4. Recoverable
  BY DEF Recoverable, NeverStranded, Kept, Booted, Chosen, GivenUp, Slots
<1>5. /\ left.crullers \subseteq Crullers /\ left.chosen \subseteq Crullers \cup {NoCruller}
      /\ here \in [left.crullers -> Addresses]
  BY CrullerAssumption DEF Injection, IsInjective
<1>6. NoReport \in Reports /\ NoReport.to = NoCruller /\ DOMAIN <<>> = {} /\ NoScansWell
  BY NothingScanned DEF NoReport, Reports
<1>7. here \in Maps
  BY <1>5, AddressMaps
<1>8. CrullerTypeOK
  BY <1>5, <1>6 DEF CrullerTypeOK, Listed, NoScansWell
<1> QED
  BY <1>1, <1>2, <1>3, <1>4, <1>6, <1>7, <1>8 DEF IInv, Answers, LastIsSelected, NoScansWell

\* The inductive invariant
THEOREM Invariance == Spec => []IInv
<1>1. IInv /\ [Next]_vars => IInv'
  BY WifiStep, UpdateStep, CrullerStep DEF IInv
<1> QED
  BY InitIInv, <1>1, PTL DEF Spec

\* Types; and the firmware is right about its network once all events have come.
THEOREM TypeCorrectness == Spec => []TypeOK
<1>1. IInv => TypeOK
  <2>1. IInv /\ queue = <<>> => (connected <=> radio = "linked")
    BY DEF IInv, Events, Believed
  <2> QED
    BY <2>1 DEF IInv, TypeOK
<1> QED
  BY <1>1, Invariance, PTL

\* An update cannot strand the bridge: whenever the power fails, what starts next
\* joined a network before, or is new, with one that did to go back to.
THEOREM UpdatesStrandNoBridge == Spec => []NeverStranded
<1>1. IInv => NeverStranded
  BY PowerFails DEF IInv, Recoverable
<1> QED
  BY <1>1, Invariance, PTL

\* The outcome shown is of the Cruller that is selected.
THEOREM OutcomeOfSelected == Spec => []LastIsSelected
<1>1. IInv => LastIsSelected
  BY DEF IInv
<1> QED
  BY <1>1, Invariance, PTL
================================================================================
