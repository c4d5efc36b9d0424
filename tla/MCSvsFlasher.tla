---------------------------- MODULE MCSvsFlasher ----------------------------
(***************************************************************************)
(* Instances of SvsFlasher for TLC: SVSs with vector bootloaders of         *)
(* different sizes, two of them alike; and one with a hardware bootloader   *)
(* next to one that cannot be flashed.                                      *)
(***************************************************************************)
EXTENDS SvsFlasher

VectorBoot(pages) == [kind |-> "vector", space |-> pages]

SizesOfBoot == [s \in SVS |-> VectorBoot(IF s = "a" THEN 1 ELSE 2)]
KindsOfBoot == [s \in SVS |-> [kind |-> IF s = "a" THEN "hardware" ELSE "not_urboot",
                               space |-> 2]]

\* "c" has the bootloader of "b" and was never flashed by a tool that patches.
AllButCShipped == [s \in SVS |-> IF s = "c" THEN 0 ELSE Boot[s].space]
NoneShipped == [s \in SVS |-> 0]

\* "small" fits every bootloader, "odd" cannot be patched
Sizes == [i \in Images |-> IF i = "small" THEN 1 ELSE 2]
PatchableImages == Images \ {"odd"}
=============================================================================
