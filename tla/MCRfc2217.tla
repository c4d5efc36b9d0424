------------------------------ MODULE MCRfc2217 ------------------------------
(* A plan for each thing that is hard, so that their states add up and do not
   multiply: a utility that asks Y1 twice of an SVS that says 1s and line ends; an
   answer that the ring overtakes while its beginning is held;
   a client that changes options; more clients than slots; DTR, a byte 255,
   sessions, replugs and clients that leave. *)
EXTENDS Rfc2217

Y1 == <<89, 49, 10>>
Y12 == <<89, 49, 50, 10>>
A255 == <<IAC, IAC>>
DtrOn == <<IAC, SB, OPT_COM_PORT, CPO_SET_CONTROL, CONTROL_DTR_ON, IAC, SE>>

Calm == [conns |-> 1, said |-> 0, sayings |-> {}, typings |-> {}, requests |-> {},
         typed |-> 0, cuts |-> 0, events |-> 0, patient |-> TRUE]
Asking == [Calm EXCEPT !.said = 3, !.sayings = {<<49>>, <<10>>}, !.typings = {Y1}, !.typed = 2]
Overtaken == [Calm EXCEPT !.said = 4, !.sayings = {<<49>>, <<65, 50, 10>>},
                          !.typings = {Y12}, !.typed = 1]
Negotiating == [Calm EXCEPT !.requests = {OPT_BINARY, 1, OPT_COM_PORT}, !.typed = 2,
                            !.cuts = 1, !.patient = FALSE]
Crowded == [Calm EXCEPT !.conns = 3, !.said = 1, !.sayings = {<<49>>}]
Disturbed == [Calm EXCEPT !.said = 2, !.sayings = {<<IAC>>}, !.typings = {A255, DtrOn},
                          !.typed = 1, !.cuts = 1, !.events = 1]
AllPlans == {Asking, Overtaken, Negotiating, Crowded, Disturbed}
=============================================================================
