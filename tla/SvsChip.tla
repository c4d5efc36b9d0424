------------------------------ MODULE SvsChip ------------------------------
(***************************************************************************)
(* The microcontroller of an SVS as the firmware updater sees it: the boot *)
(* loader it reveals (svs_flasher.cpp, evaluate) and its flash, page by     *)
(* page.                                                                   *)
(*                                                                         *)
(* A bootloader is a record: "kind" is what the two sync bytes and the      *)
(* table at the top of flash tell (one kind per way out of evaluate), and   *)
(* "space" is the number of pages below it, which is also the page it       *)
(* starts at.  A page is a record: whose firmware it holds, and, for the    *)
(* reset page, the page its reset vector jumps to when that is a boot       *)
(* loader (0 when it enters an application).  Bytes are not modelled: the   *)
(* bytes of the patch are the subject of SvsVectors.                       *)
(***************************************************************************)
EXTENDS Naturals

CONSTANTS
  SVS,         \* the SVSs that are ever plugged into the bridge
  NoSvs,       \* no SVS
  FlashPages,  \* pages of flash, the bootloader's own included
  Boot,        \* Boot[s]: the bootloader of s
  Shipped,     \* Shipped[s]: where the reset vector of s jumps as delivered
  Images,      \* firmware images that can be staged
  NoImage,     \* nothing staged
  Factory,     \* the firmware an SVS is delivered with
  Damaged,     \* contents of a page whose programming was garbled or cut
  Size,        \* Size[i]: pages image i occupies, the last one padded
  Patchable    \* the images patch_vectors can patch

Kinds == {"stk500", "other_mcu", "no_read", "no_erase", "no_table",
          "not_urboot", "hardware", "vector", "none"}

BootInfos == [kind : Kinds, space : 0..FlashPages]

\* The kinds only the table at the top of flash can tell apart
TableKinds == {"not_urboot", "hardware", "vector"}

ASSUME PagesAssumption == FlashPages \in Nat \ {0}

ASSUME ChipAssumption ==
  /\ NoSvs \notin SVS
  /\ Boot \in [SVS -> BootInfos]
  /\ \A s \in SVS : /\ Boot[s].kind # "none"
                    /\ Boot[s].space > 0
  /\ Shipped \in [SVS -> 0..FlashPages]

ASSUME ImageAssumption ==
  /\ {NoImage, Factory, Damaged} \cap Images = {}
  /\ Factory # Damaged
  /\ Size \in [Images -> 1..FlashPages]
  /\ Patchable \subseteq Images

-----------------------------------------------------------------------------
Pages == 0..(FlashPages - 1)

PageVal == [image : Images \cup {Factory, Damaged}, jump : 0..FlashPages]

DamagedPage == [image |-> Damaged, jump |-> 0]

\* The flash of s as delivered
Delivered(s) ==
  [p \in Pages |-> [image |-> Factory, jump |-> IF p = 0 THEN Shipped[s] ELSE 0]]

\* evaluate: an urboot on an ATmega328P that reads flash and erases pages
Compatible(b) == b.kind \in {"hardware", "vector"}

Vector(b) == b.kind = "vector"

\* Page p of image i as it is written for bootloader b: a vector bootloader
\* gets the reset vector of its own start, any other image goes in unpatched.
Programmed(i, b, p) ==
  [image |-> i, jump |-> IF p = 0 /\ Vector(b) THEN b.space ELSE 0]

\* The image fits below the bootloader and can be patched for it
Suits(i, b) ==
  /\ Size[i] <= b.space
  /\ Vector(b) => i \in Patchable
=============================================================================
