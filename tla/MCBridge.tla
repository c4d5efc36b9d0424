------------------------------- MODULE MCBridge -------------------------------
(* A plan for each kind of trouble, so that their states add up: a network that
   comes and goes under scans; credentials entered, and entered during a scan; updates
   with power cuts; resets, reboots and work on the SVS around an update; a Cruller
   that starts again, or loses its answers; Crullers that move; a Cruller selected
   instead of another; reports over a network that comes and goes. *)
EXTENDS Bridge

Calm == [router |-> 0, scans |-> 0, credentials |-> 0, updates |-> 0, cuts |-> 0, buttons |-> 0,
         reboots |-> 0, works |-> 0, inputs |-> 0, moves |-> 0, losses |-> 0, selects |-> 0,
         crullers |-> {}, chosen |-> {"none"}]
Flapping == [Calm EXCEPT !.router = 3, !.scans = 2]
Entering == [Calm EXCEPT !.router = 1, !.credentials = 2]
Interfering == [Calm EXCEPT !.router = 1, !.scans = 1, !.credentials = 1]
Updating == [Calm EXCEPT !.router = 1, !.updates = 2, !.cuts = 1]
Resetting == [Calm EXCEPT !.updates = 1, !.buttons = 1, !.reboots = 1, !.works = 1]
Restarting == [Calm EXCEPT !.moves = 1, !.losses = 1, !.crullers = {"a"},
                           !.chosen = {"a"}]
Moving == [Calm EXCEPT !.moves = 2, !.crullers = {"a", "b"}, !.chosen = {"a"}]
Selecting == [Calm EXCEPT !.inputs = 1, !.selects = 2, !.crullers = {"a", "b"}, !.chosen = {"none", "a"}]
Rejoining == [Calm EXCEPT !.router = 2, !.inputs = 1, !.crullers = {"a"}, !.chosen = {"a"}]
AllPlans == {Flapping, Entering, Interfering, Updating, Resetting, Restarting, Moving, Selecting, Rejoining}
=============================================================================
