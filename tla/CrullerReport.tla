---------------------------- MODULE CrullerReport ----------------------------
(***************************************************************************)
(* Telling a Cruller which input the SVS has: cruller.cpp.                 *)
(*                                                                         *)
(* Crullers come and go on the network and announce themselves there;      *)
(* on_browse hears it in the mDNS task. Scans, of the reporting task and   *)
(* of a web page, refresh the list, each with what it heard, whichever     *)
(* asked first. The task looks at everything again and again, and reports  *)
(* to the Cruller that was selected when there is something new, when that *)
(* one announced itself, and when nothing was said for long.               *)
(*                                                                         *)
(* What is reported is one value: the input stands for the number of       *)
(* inputs and the description of the switch too, a change of which is due  *)
(* just like it. The two times between reports, after one that got through *)
(* and after one that did not, are one, and a scan of the task may come in *)
(* any pass of its loop. Left out: scans with nothing to hear of and       *)
(* nothing to drop from the list; host names, kept beside the addresses; the texts of errors;   *)
(* Crullers paired with other bridges, which hear a report and refuse it.  *)
(***************************************************************************)
EXTENDS WifiManager, Functions

CONSTANTS
  Crullers, NoCruller,
  Addresses,  \* the IP addresses they can have
  Inputs      \* of the SVS

ASSUME CrullerAssumption ==
  /\ NoCruller \notin Crullers
  /\ \A plan \in Plans :
       /\ plan.crullers \subseteq Crullers /\ plan.chosen \subseteq Crullers \cup {NoCruller}
       /\ Injection(plan.crullers, Addresses) # {}

Unknown == -1

VARIABLES
  here,      \* the Crullers on the network: the address of each
  knows,     \* the input each was last told
  input,     \* svs_usb::info().current_input
  selected_id, \* s_selected, and the id in NVS: nothing reads one but not the other
  found,     \* s_found: the address of each Cruller known
  old,       \* those of them not heard of for FORGET_MS
  announced, \* s_announced
  answers,   \* what the scan of each of Scanners heard and has still to put into the list
  last,      \* s_last
  task,      \* where the task is: poll, scanning, scanned, sending, answered
  report,    \* the report being sent
  sent,      \* sent_to, sent_input
  was,       \* was_connected
  beat,      \* next_report has come
  rested     \* ANNOUNCE_GAP_MS passed since last_report

crullerVars == <<here, knows, input, selected_id, found, old, announced, answers, last, task, report,
                 sent, was, beat, rested>>

Scanners == {"task", "page"}
NotScanning == [asked |-> FALSE, from |-> <<>>]
NoScans == [s \in Scanners |-> NotScanning]
NoReport == [to |-> NoCruller, at |-> 0, input |-> Unknown, ok |-> FALSE]
NothingSent == [to |-> NoCruller, input |-> Unknown]
Listed == DOMAIN found

\* start, and what a restart leaves of it
CrullerOff ==
  /\ found = <<>> /\ old = {} /\ announced = FALSE /\ answers = NoScans /\ last = NoReport
  /\ task = "poll" /\ report = NoReport /\ sent = NothingSent
  /\ was = FALSE /\ beat = TRUE /\ rested = TRUE
CrullerStops ==
  /\ found' = <<>> /\ old' = {} /\ announced' = FALSE /\ answers' = NoScans /\ last' = NoReport
  /\ task' = "poll" /\ report' = NoReport /\ sent' = NothingSent
  /\ was' = FALSE /\ beat' = TRUE /\ rested' = TRUE
  /\ UNCHANGED <<here, knows, input>>

CrullerInit ==
  /\ here = CHOOSE h \in [left.crullers -> Addresses] : \A c, d \in left.crullers : h[c] = h[d] => c = d
  /\ knows = [c \in Crullers |-> Unknown]
  /\ input \in Inputs
  /\ selected_id \in left.chosen
  /\ CrullerOff

-----------------------------------------------------------------------------
(* The Crullers, and the SVS *)

\* The input of the SVS changes, or is not known any more.
InputChanges ==
  /\ Spend("inputs")
  /\ input' \in (Inputs \cup {Unknown}) \ {input}
  /\ UNCHANGED <<here, knows, selected_id, found, old, announced, answers, last, task, report, sent,
                 was, beat, rested>>

\* on_browse, for an announcement of c
OnBrowse(c) ==
  /\ found' = [d \in Listed \cup {c} |-> IF d = c THEN here'[c] ELSE found[d]]
  /\ old' = old \ {c}
  /\ announced' = (announced \/ selected_id = c)

\* A Cruller comes, or starts again, maybe with another address: it knows no
\* input, and announces itself, which the bridge may miss.
CrullerComes(c) ==
  /\ Spend("moves")
  /\ \E a \in Addresses :
       /\ \A d \in DOMAIN here \ {c} : here[d] # a
       /\ here' = [d \in DOMAIN here \cup {c} |-> IF d = c THEN a ELSE here[d]]
  /\ knows' = [knows EXCEPT ![c] = Unknown]
  /\ \/ UNCHANGED <<found, old, announced>>
     \/ radio = "linked" /\ OnBrowse(c)
  /\ UNCHANGED <<input, selected_id, answers, last, task, report, sent, was, beat, rested>>

\* It goes, and says so in time, with on_browse for the goodbye, or not.
CrullerGoes(c) ==
  /\ Spend("moves")
  /\ c \in DOMAIN here
  /\ here' = Restrict(here, DOMAIN here \ {c})
  /\ \/ UNCHANGED <<found, old>>
     \/ /\ radio = "linked"
        /\ found' = Restrict(found, Listed \ {c})
        /\ old' = old \ {c}
  /\ UNCHANGED <<knows, input, selected_id, announced, answers, last, task, report, sent, was, beat,
                 rested>>

-----------------------------------------------------------------------------
(* Scans *)

\* The query of s goes out, and answers come: to be handled once s is done waiting, which
\* may be after those to the other's. Those of one Cruller may be lost, for FORGET_MS even.
ScanAsks(s) ==
  LET hears(h) == answers' = [answers EXCEPT ![s] = [asked |-> TRUE, from |-> h]]
  IN  /\ connected /\ answers[s] = NotScanning
      /\ DOMAIN here \cup Listed # {}
      /\ IF s = "task"
         THEN /\ task = "poll" /\ task' = "scanning"
              /\ was' = TRUE
              /\ sent' = IF was THEN sent ELSE [sent EXCEPT !.to = NoCruller]
         ELSE UNCHANGED <<task, was, sent>>
      /\ \/ hears(IF radio = "linked" THEN here ELSE <<>>) /\ UNCHANGED <<left, old>>
         \/ /\ radio = "linked" /\ Spend("losses")
            /\ \E c \in DOMAIN here :
                 /\ hears(Restrict(here, DOMAIN here \ {c}))
                 /\ old' \in {old, old \cup ({c} \cap Listed)}
      /\ UNCHANGED <<here, knows, input, selected_id, found, announced, last, report, beat, rested>>

\* mutant: nothing is ever dropped from the list
ScanEndsKeeping(s) ==
  LET from == answers[s].from
  IN  /\ answers[s].asked
      /\ found' = [c \in DOMAIN from \cup Listed |-> IF c \in DOMAIN from THEN from[c] ELSE found[c]]
      /\ old' = old \ DOMAIN from
      /\ answers' = [answers EXCEPT ![s] = NotScanning]
      /\ task' = IF s = "task" THEN "scanned" ELSE task
      /\ UNCHANGED <<left, here, knows, input, selected_id, announced, last, report, sent, was, beat,
                     rested>>

\* The rest of scan: the answers are added, and the old ones dropped.
ScanEnds(s) ==
  LET from == answers[s].from
  IN  /\ answers[s].asked
      /\ found' = [c \in DOMAIN from \cup (Listed \ old) |->
                     IF c \in DOMAIN from THEN from[c] ELSE found[c]]
      /\ old' = {}
      /\ answers' = [answers EXCEPT ![s] = NotScanning]
      /\ task' = IF s = "task" THEN "scanned" ELSE task
      /\ UNCHANGED <<left, here, knows, input, selected_id, announced, last, report, sent, was, beat,
                     rested>>

\* Nothing was heard of a Cruller for FORGET_MS.
Ages(c) ==
  /\ c \in Listed \ (DOMAIN here \cup old)
  /\ old' = old \cup {c}
  /\ UNCHANGED <<left, here, knows, input, selected_id, found, announced, answers, last, task, report,
                 sent, was, beat, rested>>

-----------------------------------------------------------------------------
(* The task *)

\* mutant: reports are not repeated
DueOnce(s) == s.to # selected_id \/ s.input # input \/ (announced /\ rested)

\* A report is due, s being what was reported before.
Due(s) == s.to # selected_id \/ s.input # input \/ beat \/ (announced /\ rested)

\* A pass of the loop while there is no network
LookOffline ==
  /\ task = "poll" /\ ~connected
  /\ was' = FALSE
  /\ UNCHANGED <<left, here, knows, input, selected_id, found, old, announced, answers, last, task,
                 report, sent, beat, rested>>

\* A pass of the loop, after the scan if there is one, up to the report. Having joined the
\* network, when it always scans, or with nobody to report to, it forgets to whom it reported.
Look ==
  LET before == IF was THEN sent ELSE [sent EXCEPT !.to = NoCruller]
  IN  /\ \/ task = "scanned"
         \/ task = "poll" /\ connected /\ (was \/ DOMAIN here \cup Listed = {})
      /\ was' = TRUE
      /\ announced' = FALSE
      /\ IF selected_id \notin Listed
         THEN sent' = [sent EXCEPT !.to = NoCruller] /\ task' = "poll" /\ UNCHANGED report
         ELSE /\ sent' = before
              /\ IF input # Unknown /\ Due(before)
                 THEN /\ task' = "sending"
                      /\ report' = [to |-> selected_id, at |-> found[selected_id], input |-> input,
                                    ok |-> FALSE]
                 ELSE task' = "poll" /\ UNCHANGED report
      /\ UNCHANGED <<left, here, knows, input, selected_id, found, old, answers, last, beat, rested>>

\* The request gets to the Cruller that has the address, and the answer back.
Answered ==
  /\ task = "sending"
  /\ radio = "linked"
  /\ \E c \in DOMAIN here :
       /\ here[c] = report.at
       /\ knows' = [knows EXCEPT ![c] = report.input]
  /\ task' = "answered"
  /\ report' = [report EXCEPT !.ok = TRUE]
  /\ UNCHANGED <<left, here, input, selected_id, found, old, announced, answers, last, sent, was,
                 beat, rested>>

\* Nobody is there, or the request is lost, or only the answer.
NotAnswered ==
  LET nobody == radio # "linked" \/ \A c \in DOMAIN here : here[c] # report.at
  IN  /\ task = "sending"
      /\ IF nobody THEN UNCHANGED left ELSE Spend("losses")
      /\ knows' \in {knows} \cup {[knows EXCEPT ![c] = report.input] :
                                    c \in {d \in DOMAIN here : ~nobody /\ here[d] = report.at}}
      /\ task' = "answered"
      /\ UNCHANGED <<here, input, selected_id, found, old, announced, answers, last, report, sent,
                     was, beat, rested>>

\* mutant: the outcome is kept whoever is selected by now
StoreAlways ==
  /\ task = "answered"
  /\ task' = "poll" /\ report' = NoReport
  /\ sent' = [to |-> report.to, input |-> report.input]
  /\ beat' = FALSE /\ rested' = FALSE
  /\ last' = report
  /\ UNCHANGED <<left, here, knows, input, selected_id, found, old, announced, answers, was>>

\* The rest of the loop
Store ==
  /\ task = "answered"
  /\ task' = "poll" /\ report' = NoReport
  /\ sent' = [to |-> report.to, input |-> report.input]
  /\ beat' = FALSE /\ rested' = FALSE
  /\ last' = IF selected_id = report.to THEN report ELSE last
  /\ UNCHANGED <<left, here, knows, input, selected_id, found, old, announced, answers, was>>

\* HEARTBEAT_MS or RETRY_MS pass, and ANNOUNCE_GAP_MS long before.
GapPasses ==
  /\ ~rested
  /\ rested' = TRUE
  /\ UNCHANGED <<left, here, knows, input, selected_id, found, old, announced, answers, last, task,
                 report, sent, was, beat>>

BeatPasses ==
  /\ ~beat /\ rested
  /\ beat' = TRUE
  /\ UNCHANGED <<left, here, knows, input, selected_id, found, old, announced, answers, last, task,
                 report, sent, was, rested>>

-----------------------------------------------------------------------------
\* select: the web page chooses a Cruller, or none.
Select(c) ==
  /\ Spend("selects")
  /\ selected_id' = c
  /\ last' = IF selected_id = c THEN last ELSE NoReport
  /\ UNCHANGED <<here, knows, input, found, old, announced, answers, task, report, sent, was, beat,
                 rested>>

Reports == [to : Crullers \cup {NoCruller}, at : Addresses \cup {0},
            input : Inputs \cup {Unknown}, ok : BOOLEAN]

CrullerTypeOK ==
  /\ DOMAIN here \subseteq Crullers /\ Listed \subseteq Crullers
  /\ \A s \in Scanners : DOMAIN answers[s].from \subseteq Crullers
  /\ \A c \in DOMAIN here : here[c] \in Addresses
  /\ \A c \in Listed : found[c] \in Addresses
  /\ old \subseteq Listed
  /\ knows \in [Crullers -> Inputs \cup {Unknown}] /\ input \in Inputs \cup {Unknown}
  /\ selected_id \in Crullers \cup {NoCruller}
  /\ last \in Reports /\ report \in Reports
  /\ task \in {"poll", "scanning", "scanned", "sending", "answered"}
  /\ task \in {"sending", "answered"} <=> report # NoReport
  /\ task = "scanning" <=> answers["task"].asked
  /\ announced \in BOOLEAN /\ was \in BOOLEAN /\ beat \in BOOLEAN /\ rested \in BOOLEAN
=============================================================================
