--------------------------- MODULE MCSvsSettings ---------------------------
(* SVSs of one input with two IR slots and one transcoder fitted *)
EXTENDS SvsSettings

A == {0}
B == {1}

\* Two ways to be set up; the bit 1 of the flags belongs to an input past it.
Chip(auto, code) ==
  [x \in (0..(2 * IR_REGION - 1)) \cup bitmap_addresses(1) |->
     CASE x = AUTO_PROFILE_BASE -> auto
       [] x \in {RGSB_BASE, SCART_V3_BASE} -> {1}
       [] x \in {VGA_V3_BASE, TX_YPBPR_TO_RGB} -> {0}
       [] x = ir_address_addr(1, 0, 1) -> code
       [] x \in {ir_address_addr(1, 1, 1), ir_command_addr(1, 1, 1)} -> IR_EMPTY
       [] x = ir_command_addr(1, 0, 1) -> B
       [] OTHER -> {}]

OneChip == [s \in SVS |-> {Chip({1}, A)}]
TwoChips == [s \in SVS |-> IF s = "a" THEN {Chip({1}, A)} ELSE {Chip({0}, IR_EMPTY)}]

OneInput == [s \in SVS |-> 1]

Want(auto, rgsb, ir, y) ==
  <<[auto_profile |-> auto, rgsb |-> rgsb, sync_bypass |-> FALSE, ir |-> ir,
     rgb_to_ypbpr |-> y, ypbpr_to_rgb |-> FALSE]>>

\* Everything else than the first chip has
OneWant == {Want(TRUE, FALSE, <<>>, TRUE)}

\* ... and back again
Opposites == OneWant \cup {Want(FALSE, TRUE, <<<<A, B>>>>, FALSE)}

\* ... and only a longer list of codes
ThreeWants == Opposites \cup {Want(FALSE, TRUE, <<<<A, B>>, <<B, A>>>>, FALSE)}

Disturbances == {{}, {"remote", "power"}, {"swap"}, {"silent"}, {"console"}}

\* Swaps and losses leave no room for more than one save that differs.
MCWants ==
  [f \in Scenarios |->
     IF f \subseteq {"remote", "power"} THEN ThreeWants
     ELSE IF Cardinality(Scenarios) = 1 THEN Opposites ELSE OneWant]
=============================================================================
