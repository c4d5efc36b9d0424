--------------------------- MODULE FirmwareUpdate ---------------------------
(***************************************************************************)
(* What an SVS firmware update promises, whoever performs it and however    *)
(* it is interrupted.  Only chips are visible: a page of a chip is          *)
(* programmed only below a bootloader known to be flashable, for that very  *)
(* bootloader, the reset page first and the rest in ascending order; and    *)
(* success is reported only of a chip that holds the whole image.           *)
(* SvsFlasher implements this specification.                               *)
(***************************************************************************)
EXTENDS SvsChip

VARIABLES
  flash,    \* flash[s][p]: page p of the chip of s
  report    \* an update is being reported as written and verified

vars == <<flash, report>>

Init ==
  /\ flash = [s \in SVS |-> Delivered(s)]
  /\ report = FALSE

\* Page p of s takes image i, or what is left of it when the transfer is
\* garbled or the power is cut. Every page before it went through the same.
ProgramPage(s, i, p) ==
  /\ Compatible(Boot[s])
  /\ Suits(i, Boot[s])
  /\ p < Size[i]
  /\ \A q \in 0..(p - 1) : flash[s][q] \in {Programmed(i, Boot[s], q), DamagedPage}
  /\ \E v \in {Programmed(i, Boot[s], p), DamagedPage} :
       flash' = [flash EXCEPT ![s] = [@ EXCEPT ![p] = v]]
  /\ UNCHANGED report

\* An update is reported complete: some chip holds the whole image
Report ==
  /\ \E s \in SVS, i \in Images :
       \A q \in 0..(Size[i] - 1) : flash[s][q] = Programmed(i, Boot[s], q)
  /\ report' = TRUE
  /\ UNCHANGED flash

Settle ==
  /\ report' = FALSE
  /\ UNCHANGED flash

Next ==
  \/ \E s \in SVS, i \in Images, p \in Pages : ProgramPage(s, i, p)
  \/ Report
  \/ Settle

Spec == Init /\ [][Next]_vars
=============================================================================
