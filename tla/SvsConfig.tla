----------------------------- MODULE SvsConfig -----------------------------
(***************************************************************************)
(* The settings of an SVS and where they live in its EEPROM: svs_config.h.  *)
(*                                                                         *)
(* A byte is the set of its bits that are 1, so 0 is {} and 0xFF is Bits.   *)
(* An Eeprom view (the bytes the bridge has read) is a function from the    *)
(* addresses read to bytes; -1, "not read", is being outside its DOMAIN.    *)
(* The settings of an SVS are a sequence with one record per input.         *)
(***************************************************************************)
EXTENDS Integers, Sequences, FiniteSetsExt

CONSTANTS
  IR_REGION,   \* address bytes of IR codes, 250 in the code
  MAX_INPUTS   \* 32 in the code

ASSUME RegionAssumption == IR_REGION \in 1..250
ASSUME InputsAssumption == MAX_INPUTS \in 1..32

Bits == 0..7
Byte == SUBSET Bits
IR_EMPTY == Bits

AUTO_PROFILE_BASE == 513
RGSB_BASE == 550
SYNC_BYPASS_BASE == 590
SCART_V3_BASE == 630
VGA_V3_BASE == 670
TX_RGB_TO_YPBPR == 710
TX_YPBPR_TO_RGB == 711

\* The bitmaps a save may change, and whether a 0 bit means on
Maps == {[base |-> AUTO_PROFILE_BASE, field |-> "auto_profile", low |-> FALSE],
         [base |-> RGSB_BASE, field |-> "rgsb", low |-> TRUE],
         [base |-> SYNC_BYPASS_BASE, field |-> "sync_bypass", low |-> FALSE]}

bitmap_bytes(inputs) == (inputs + 7) \div 8

bit_ofOneOff(base, n) == [addr |-> base + n \div 8, bit |-> n % 8]   \* mutant: 0-based
bit_of(base, n) == [addr |-> base + (n - 1) \div 8, bit |-> (n - 1) % 8]

ir_slots(inputs) == IF inputs > 0 THEN IR_REGION \div (inputs + 1) ELSE 0

ir_address_addrAdjacent(n, k, inputs) == n + k    \* mutant: an input's slots side by side
ir_address_addr(n, k, inputs) == n + k * (inputs + 1)
ir_command_addr(n, k, inputs) == ir_address_addr(n, k, inputs) + IR_REGION

\* An IR code: 0xFF marks the end of a list, so it cannot be an address.
IrCode == (Byte \ {IR_EMPTY}) \X Byte

-----------------------------------------------------------------------------
(* Reading *)

\* Every address read besides the IR slots
bitmap_addresses(inputs) ==
  {base + i : base \in {AUTO_PROFILE_BASE, RGSB_BASE, SYNC_BYPASS_BASE,
                        SCART_V3_BASE, VGA_V3_BASE},
              i \in 0..(bitmap_bytes(inputs) - 1)}
  \cup {TX_RGB_TO_YPBPR, TX_YPBPR_TO_RGB}

Bit(e, base, n, low) ==
  LET b == bit_of(base, n)
  IN  (b.addr \in DOMAIN e /\ b.bit \in e[b.addr]) # low

\* Slot k of input n ends its list of codes
EndsList(e, n, k, inputs) ==
  \/ ir_address_addr(n, k, inputs) \notin DOMAIN e
  \/ e[ir_address_addr(n, k, inputs)] = IR_EMPTY
  \/ ir_command_addr(n, k, inputs) \notin DOMAIN e

DecodeIr(e, n, inputs) ==
  LET slots == 0..(ir_slots(inputs) - 1)
      size == Min({k \in slots : EndsList(e, n, k, inputs)} \cup {ir_slots(inputs)})
  IN  [i \in 1..size |-> <<e[ir_address_addr(n, i - 1, inputs)],
                           e[ir_command_addr(n, i - 1, inputs)]>>]

\* The EEPROM part of the settings of input n
decode_input(e, n, inputs) ==
  [auto_profile |-> Bit(e, AUTO_PROFILE_BASE, n, FALSE),
   rgsb |-> Bit(e, RGSB_BASE, n, TRUE),
   sync_bypass |-> Bit(e, SYNC_BYPASS_BASE, n, FALSE),
   ir |-> DecodeIr(e, n, inputs)]

Decode(e, inputs) == [n \in 1..inputs |-> decode_input(e, n, inputs)]

\* TRUE for a transcoder fitted / a V3 module on input n
Fitted(e, addr) == addr \in DOMAIN e /\ e[addr] = {}
ScartV3(e, n) == Bit(e, SCART_V3_BASE, n, TRUE)
VgaV3(e, n) == Bit(e, VGA_V3_BASE, n, TRUE)

\* read_task stops at the first empty slot of each input.
ReadAddresses(chip, inputs) ==
  LET read(n, k) == \A j \in 0..(k - 1) : chip[ir_address_addr(n, j, inputs)] # IR_EMPTY
      rows == {p \in (1..inputs) \X (0..(ir_slots(inputs) - 1)) : read(p[1], p[2])}
  IN  bitmap_addresses(inputs)
        \cup {ir_address_addr(p[1], p[2], inputs) : p \in rows}
        \cup {ir_command_addr(p[1], p[2], inputs) : p \in rows}

\* What a read of an SVS that answers every question gathers
Reading(chip, inputs) == [a \in ReadAddresses(chip, inputs) |-> chip[a]]

-----------------------------------------------------------------------------
(* Planning a save: plan_writes *)

CanPlan(read, want, inputs) ==
  /\ inputs \in 1..MAX_INPUTS
  /\ DOMAIN want = 1..inputs
  /\ \A m \in Maps, i \in 0..(bitmap_bytes(inputs) - 1) : m.base + i \in DOMAIN read
  /\ \A n \in 1..inputs : Len(want[n].ir) <= ir_slots(inputs)

FlagByteCleared(read, want, inputs, m, i) ==  \* mutant: bits past the inputs are lost
  {b \in Bits : LET n == 8 * i + b + 1 IN n <= inputs /\ want[n][m.field] # m.low}

\* The byte i of bitmap m; bits of inputs the bridge does not manage stay.
FlagByte(read, want, inputs, m, i) ==
  {b \in Bits : LET n == 8 * i + b + 1
                IN  IF n <= inputs THEN want[n][m.field] # m.low ELSE b \in read[m.base + i]}

FlagPuts(read, want, inputs) ==
  {<<m.base + i, FlagByte(read, want, inputs, m, i)>> :
     m \in Maps, i \in 0..(bitmap_bytes(inputs) - 1)}

TouchedPastEnd(read, want, n, inputs) ==      \* mutant: ends a full list too
  {k \in 0..ir_slots(inputs) :
     k <= Len(want[n].ir) \/ k <= Len(DecodeIr(read, n, inputs))}

\* The slots of input n a save sets: the codes, one empty slot to end the
\* list, and the tail of a longer list that was there
Touched(read, want, n, inputs) ==
  {k \in 0..(ir_slots(inputs) - 1) :
     k <= Len(want[n].ir) \/ k <= Len(DecodeIr(read, n, inputs))}

SlotValue(want, n, k) ==
  IF k < Len(want[n].ir) THEN want[n].ir[k + 1] ELSE <<IR_EMPTY, IR_EMPTY>>

IrPuts(read, want, inputs) ==
  UNION {UNION {{<<ir_address_addr(n, k, inputs), SlotValue(want, n, k)[1]>>,
                 <<ir_command_addr(n, k, inputs), SlotValue(want, n, k)[2]>>} :
                k \in Touched(read, want, n, inputs)} : n \in 1..inputs}

Puts(read, want, inputs) == FlagPuts(read, want, inputs) \cup IrPuts(read, want, inputs)

plan_writesAll(read, want, inputs) == Puts(read, want, inputs)   \* mutant: nothing compared

\* The bytes to write, as a set of <<address, byte>>: only those that change
plan_writes(read, want, inputs) ==
  {p \in Puts(read, want, inputs) :
     p[1] \notin DOMAIN read \/ read[p[1]] # p[2]}

\* A view or a chip after the bytes in ws
Written(e, ws) ==
  [a \in DOMAIN e \cup {p[1] : p \in ws} |->
     IF \E p \in ws : p[1] = a THEN (CHOOSE p \in ws : p[1] = a)[2] ELSE e[a]]

\* No two settings share a byte: a plan sets each address to one value.
OneByteEach(read, want, inputs) ==
  \A p, q \in Puts(read, want, inputs) : p[1] = q[1] => p[2] = q[2]
=============================================================================
