------------------------------- MODULE MCWebPush -------------------------------
(* A plan for each kind of trouble, so that their states add up: more lines than a
   batch, and than the log holds, over sockets that break; work that is not queued;
   a session that ends; one that ends and is followed by another; one that makes room
   for another, at either server; events clients beyond EVENTS_MAX; a new token; a
   status that changes and changes back. *)
EXTENDS WebPush

Calm == [lines |-> 0, changes |-> 0, failures |-> 0, logins |-> 1, portals |-> 0, logouts |-> 0,
         connects |-> 1, events |-> 0, tokens |-> 0, losses |-> 0]
Logging == [Calm EXCEPT !.lines = 3, !.connects = 2, !.losses = 1]
Failing == [Calm EXCEPT !.lines = 1, !.changes = 1, !.failures = 2]
Ending == [Calm EXCEPT !.lines = 1, !.logouts = 1]
Again == [Calm EXCEPT !.lines = 2, !.logins = 2, !.logouts = 1, !.connects = 0]
AgainLive == [Again EXCEPT !.lines = 1, !.connects = 1]
Crowded == [Calm EXCEPT !.logins = 2, !.connects = 2]
Portal == [Calm EXCEPT !.lines = 1, !.portals = 1]
Replacing == [Calm EXCEPT !.logins = 0, !.events = 3, !.losses = 1]
Renewing == [Calm EXCEPT !.logins = 0, !.events = 2, !.tokens = 1]
Swinging == [Calm EXCEPT !.logins = 0, !.changes = 2, !.events = 1]
AllPlans == {Logging, Failing, Ending, Again, AgainLive, Crowded, Portal, Replacing, Renewing, Swinging}
=============================================================================
