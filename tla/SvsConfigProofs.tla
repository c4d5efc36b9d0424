-------------------------- MODULE SvsConfigProofs --------------------------
(***************************************************************************)
(* Proofs about SvsConfig: the layout keeps every setting in bytes of its   *)
(* own, for any number of inputs the SVS may have, and what is planned and  *)
(* written is what a read finds.                                            *)
(***************************************************************************)
EXTENDS SvsConfig, WellFoundedInduction, TLAPS

Slots(inputs) == 0..(ir_slots(inputs) - 1)

\* The address bytes of all slots lie in the IR region.
LEMMA SlotInRegion ==
  ASSUME NEW inputs \in Nat, NEW n \in 1..inputs, NEW k \in Slots(inputs)
  PROVE  ir_address_addr(n, k, inputs) \in 1..(IR_REGION - 1)
<1> USE RegionAssumption
<1>1. inputs \in Nat /\ inputs >= 1 /\ n \in Nat /\ n >= 1 /\ n <= inputs
  OBVIOUS
<1> DEFINE slots == IR_REGION \div (inputs + 1)
<1>2. slots \in Int /\ slots * (inputs + 1) <= IR_REGION
  BY <1>1
<1>3. k \in Nat /\ k + 1 <= slots
  BY <1>1, <1>2 DEF Slots, ir_slots
<1>4. (k + 1) * (inputs + 1) <= slots * (inputs + 1)
  BY <1>1, <1>2, <1>3
<1>5. (k + 1) * (inputs + 1) = k * (inputs + 1) + inputs + 1 /\ k * (inputs + 1) \in Nat
  BY <1>1, <1>3
<1> QED
  BY <1>1, <1>2, <1>3, <1>4, <1>5 DEF ir_address_addr

\* Two slots never share an address byte.
LEMMA SlotsApart ==
  ASSUME NEW inputs \in 1..MAX_INPUTS,
         NEW n \in 1..inputs, NEW k \in Slots(inputs),
         NEW m \in 1..inputs, NEW l \in Slots(inputs),
         ir_address_addr(n, k, inputs) = ir_address_addr(m, l, inputs)
  PROVE  n = m /\ k = l
<1> USE RegionAssumption, InputsAssumption
<1>1. /\ inputs \in Nat /\ inputs >= 1
      /\ n \in Nat /\ n >= 1 /\ n <= inputs /\ m \in Nat /\ m >= 1 /\ m <= inputs
  OBVIOUS
<1>2. k \in Nat /\ l \in Nat
  BY <1>1 DEF Slots, ir_slots
<1>3. ASSUME NEW i \in Nat, NEW j \in Nat, i < j
      PROVE  j * (inputs + 1) >= i * (inputs + 1) + inputs + 1
  <2>1. (i + 1) * (inputs + 1) = i * (inputs + 1) + inputs + 1
    BY <1>1
  <2>2. j * (inputs + 1) >= (i + 1) * (inputs + 1)
    BY <1>1, <1>3
  <2> QED
    BY <2>1, <2>2, <1>1
<1>4. n + k * (inputs + 1) = m + l * (inputs + 1)
  BY DEF ir_address_addr
<1>5. k * (inputs + 1) \in Nat /\ l * (inputs + 1) \in Nat
  BY <1>1, <1>2
<1>6. ~(k < l)
  BY <1>1, <1>2, <1>3, <1>4, <1>5
<1>7. ~(l < k)
  BY <1>1, <1>2, <1>3, <1>4, <1>5
<1>8. k = l
  BY <1>2, <1>6, <1>7
<1> QED
  BY <1>1, <1>4, <1>5, <1>8

\* Every byte of a bitmap belongs to that bitmap alone, past the IR codes.
LEMMA FlagsApart ==
  ASSUME NEW inputs \in 1..MAX_INPUTS, NEW m \in Maps, NEW o \in Maps,
         NEW i \in 0..(bitmap_bytes(inputs) - 1), NEW j \in 0..(bitmap_bytes(inputs) - 1)
  PROVE  /\ m.base + i >= 2 * IR_REGION
         /\ m.base + i = o.base + j => m = o /\ i = j
<1>1. i \in 0..3 /\ j \in 0..3
  BY InputsAssumption DEF bitmap_bytes
<1>2. m.base \in {513, 550, 590} /\ o.base \in {513, 550, 590}
  BY DEF Maps, AUTO_PROFILE_BASE, RGSB_BASE, SYNC_BYPASS_BASE
<1>3. m.base = o.base => m = o
  <2> DEFINE a == [base |-> 513, field |-> "auto_profile", low |-> FALSE]
             r == [base |-> 550, field |-> "rgsb", low |-> TRUE]
             s == [base |-> 590, field |-> "sync_bypass", low |-> FALSE]
  <2>1. m \in {a, r, s} /\ o \in {a, r, s}
    BY Zenon DEF Maps, AUTO_PROFILE_BASE, RGSB_BASE, SYNC_BYPASS_BASE
  <2>2. a.base = 513 /\ r.base = 550 /\ s.base = 590
    OBVIOUS
  <2> HIDE DEF a, r, s
  <2> QED
    BY <2>1, <2>2
<1> QED
  BY <1>1, <1>2, <1>3, RegionAssumption

\* What an IR put is: one half of a slot.
LEMMA IrPut ==
  ASSUME NEW inputs, NEW known, NEW want, NEW p \in IrPuts(known, want, inputs)
  PROVE  \E n \in 1..inputs, k \in Slots(inputs) :
           \/ p = <<ir_address_addr(n, k, inputs), SlotValue(want, n, k)[1]>>
           \/ p = <<ir_command_addr(n, k, inputs), SlotValue(want, n, k)[2]>>
BY DEF IrPuts, Touched, Slots

\* svs_config.h: whatever was read and is wanted, no two settings are planned
\* into the same byte.
THEOREM PlanHasNoClash ==
  ASSUME NEW inputs \in 1..MAX_INPUTS, NEW known, NEW want
  PROVE  OneByteEach(known, want, inputs)
<1> SUFFICES ASSUME NEW p \in Puts(known, want, inputs), NEW q \in Puts(known, want, inputs),
                    p[1] = q[1]
             PROVE  p[2] = q[2]
  BY DEF OneByteEach
<1> DEFINE bytes == 0..(bitmap_bytes(inputs) - 1)
           F == FlagPuts(known, want, inputs)
           I == IrPuts(known, want, inputs)
<1>1. ASSUME NEW r \in F
      PROVE  \E m \in Maps, i \in bytes :
               r = <<m.base + i, FlagByte(known, want, inputs, m, i)>>
  BY DEF FlagPuts
<1>2. ASSUME NEW r \in F PROVE r[1] >= 2 * IR_REGION
  BY <1>1, FlagsApart
<1>3. ASSUME NEW r \in I PROVE r[1] \in Int /\ r[1] < 2 * IR_REGION
  <2>1. PICK n \in 1..inputs, k \in Slots(inputs) :
           \/ r = <<ir_address_addr(n, k, inputs), SlotValue(want, n, k)[1]>>
           \/ r = <<ir_command_addr(n, k, inputs), SlotValue(want, n, k)[2]>>
    BY IrPut
  <2> QED
    BY <2>1, SlotInRegion, RegionAssumption DEF ir_command_addr
<1>4. CASE p \in F /\ q \in F
  <2>1. PICK m \in Maps, i \in bytes : p = <<m.base + i, FlagByte(known, want, inputs, m, i)>>
    BY <1>4, <1>1
  <2>2. PICK o \in Maps, j \in bytes : q = <<o.base + j, FlagByte(known, want, inputs, o, j)>>
    BY <1>4, <1>1
  <2>3. m = o /\ i = j
    BY <2>1, <2>2, FlagsApart
  <2> QED
    BY <2>1, <2>2, <2>3
<1>5. CASE p \in I /\ q \in I
  <2>1. PICK n \in 1..inputs, k \in Slots(inputs) :
           \/ p = <<ir_address_addr(n, k, inputs), SlotValue(want, n, k)[1]>>
           \/ p = <<ir_command_addr(n, k, inputs), SlotValue(want, n, k)[2]>>
    BY <1>5, IrPut
  <2>2. PICK m \in 1..inputs, l \in Slots(inputs) :
           \/ q = <<ir_address_addr(m, l, inputs), SlotValue(want, m, l)[1]>>
           \/ q = <<ir_command_addr(m, l, inputs), SlotValue(want, m, l)[2]>>
    BY <1>5, IrPut
  <2>3. /\ ir_address_addr(n, k, inputs) \in 1..(IR_REGION - 1)
        /\ ir_address_addr(m, l, inputs) \in 1..(IR_REGION - 1)
    BY SlotInRegion
  <2>4. ir_address_addr(n, k, inputs) = ir_address_addr(m, l, inputs)
    BY <2>1, <2>2, <2>3, RegionAssumption DEF ir_command_addr
  <2>5. n = m /\ k = l
    BY <2>4, SlotsApart
  <2> QED
    BY <2>1, <2>2, <2>3, <2>5, RegionAssumption DEF ir_command_addr
<1> QED
  BY <1>2, <1>3, <1>4, <1>5, RegionAssumption DEF Puts

-----------------------------------------------------------------------------
(* Writing what is planned *)

\* A nonempty set of naturals has a least one.
LEMMA Least ==
  ASSUME NEW S \in SUBSET Nat, S # {}
  PROVE  \E m \in S : \A k \in S : m <= k
<1>1. PICK m \in S : \A k \in S : ~(<<k, m>> \in OpToRel(<, Nat))
  BY NatLessThanWellFounded, WFMin
<1>2. ASSUME NEW k \in S PROVE ~(k < m)
  <2>1. <<k, m>> \in Nat \X Nat /\ <<k, m>>[1] = k /\ <<k, m>>[2] = m
    BY <1>1
  <2> QED
    BY <1>1, <2>1 DEF OpToRel
<1> QED
  BY <1>2

LEMMA MinIsLeast ==
  ASSUME NEW S \in SUBSET Nat, NEW m \in S, \A k \in S : m <= k
  PROVE  Min(S) = m
<1>1. Min(S) \in S /\ \A k \in S : Min(S) <= k
  BY DEF Min
<1>2. Min(S) \in Nat /\ m \in Nat
  BY <1>1
<1>3. Min(S) <= m /\ m <= Min(S)
  BY <1>1
<1> HIDE DEF Min
<1> QED
  BY <1>2, <1>3

\* The bytes after a plan without clashes: its own, and the others as they were
LEMMA WrittenBytes ==
  ASSUME NEW e, NEW ws, \A p, q \in ws : p[1] = q[1] => p[2] = q[2]
  PROVE  /\ \A a : a \in DOMAIN Written(e, ws) <=> a \in DOMAIN e \/ \E p \in ws : p[1] = a
         /\ \A p \in ws : Written(e, ws)[p[1]] = p[2]
         /\ \A a \in DOMAIN e : (\A p \in ws : p[1] # a) => Written(e, ws)[a] = e[a]
<1>1. \A a : a \in DOMAIN Written(e, ws) <=> a \in DOMAIN e \/ \E p \in ws : p[1] = a
  BY DEF Written
<1>2. ASSUME NEW p \in ws PROVE Written(e, ws)[p[1]] = p[2]
  <2> DEFINE q == CHOOSE q \in ws : q[1] = p[1]
  <2>1. q \in ws /\ q[1] = p[1]
    OBVIOUS
  <2>2. Written(e, ws)[p[1]] = q[2]
    BY <2>1 DEF Written
  <2> QED
    BY <2>1, <2>2
<1>3. ASSUME NEW a \in DOMAIN e, \A p \in ws : p[1] # a
      PROVE  Written(e, ws)[a] = e[a]
  BY <1>3 DEF Written
<1> QED
  BY <1>1, <1>2, <1>3

\* Settings that may be asked for: one list of codes for each input, which has room
Wanted(want, inputs) ==
  /\ DOMAIN want = 1..inputs
  /\ \A n \in 1..inputs : /\ \A m \in Maps : want[n][m.field] \in BOOLEAN
                          /\ want[n].ir \in Seq(IrCode) /\ Len(want[n].ir) <= ir_slots(inputs)

\* The chip holds what is wanted: the flag of each input, its codes, and an empty slot
\* after them.
HasFlags(e, want, inputs) ==
  \A n \in 1..inputs, m \in Maps :
    LET b == bit_of(m.base, n)
    IN  b.addr \in DOMAIN e /\ (b.bit \in e[b.addr] <=> want[n][m.field] # m.low)

HasCodes(e, want, inputs) ==
  \A n \in 1..inputs : \A k \in Slots(inputs) :
    k <= Len(want[n].ir) =>
      /\ ir_address_addr(n, k, inputs) \in DOMAIN e /\ ir_command_addr(n, k, inputs) \in DOMAIN e
      /\ e[ir_address_addr(n, k, inputs)] = SlotValue(want, n, k)[1]
      /\ e[ir_command_addr(n, k, inputs)] = SlotValue(want, n, k)[2]

Holds(e, want, inputs) == HasFlags(e, want, inputs) /\ HasCodes(e, want, inputs)

\* Every flag has its bit in a byte of its bitmap.
LEMMA BitInByte ==
  ASSUME NEW inputs \in Nat, NEW n \in 1..inputs, NEW base \in Nat
  PROVE  LET b == bit_of(base, n)
             i == (n - 1) \div 8
         IN  /\ i \in 0..(bitmap_bytes(inputs) - 1) /\ b.addr = base + i
             /\ b.bit \in Bits /\ 8 * i + b.bit + 1 = n
<1>1. /\ (n - 1) \div 8 \in Nat /\ (n - 1) % 8 \in 0..7
      /\ 8 * ((n - 1) \div 8) + ((n - 1) % 8) = n - 1
  OBVIOUS
<1> DEFINE q == (n - 1) \div 8
           r == (inputs + 7) \div 8
<1>2. r \in Nat /\ inputs < 8 * r + 1
  OBVIOUS
<1>3. q \in Nat /\ 8 * q < n /\ n <= inputs /\ n \in Nat
  BY <1>1
<1> HIDE DEF q, r
<1>4. q <= r - 1
  BY <1>2, <1>3
<1>5. (n - 1) \div 8 <= (inputs + 7) \div 8 - 1
  BY <1>4 DEF q, r
<1> QED
  BY <1>1, <1>5 DEF bit_of, bitmap_bytes, Bits

\* A chip with every byte of a plan holds what was wanted.
LEMMA PutsAreHeld ==
  ASSUME NEW inputs \in Nat, NEW want, NEW known, NEW e,
         \A p \in Puts(known, want, inputs) : p[1] \in DOMAIN e /\ e[p[1]] = p[2]
  PROVE  Holds(e, want, inputs)
<1>1. ASSUME NEW n \in 1..inputs, NEW m \in Maps
      PROVE  LET b == bit_of(m.base, n)
             IN  b.addr \in DOMAIN e /\ (b.bit \in e[b.addr] <=> want[n][m.field] # m.low)
  <2> DEFINE b == bit_of(m.base, n)
             i == (n - 1) \div 8
             p == <<m.base + i, FlagByte(known, want, inputs, m, i)>>
  <2>1. m.base \in Nat
    BY DEF Maps, AUTO_PROFILE_BASE, RGSB_BASE, SYNC_BYPASS_BASE
  <2>2. /\ i \in 0..(bitmap_bytes(inputs) - 1) /\ b.addr = m.base + i
        /\ b.bit \in Bits /\ 8 * i + b.bit + 1 = n
    BY <2>1, BitInByte
  <2>3. p \in Puts(known, want, inputs)
    BY <2>2 DEF Puts, FlagPuts
  <2>4. b.addr \in DOMAIN e /\ e[b.addr] = FlagByte(known, want, inputs, m, i)
    BY <2>2, <2>3
  <2>5. b.bit \in FlagByte(known, want, inputs, m, i) <=> want[n][m.field] # m.low
    BY <2>2 DEF FlagByte
  <2> QED
    BY <2>4, <2>5
<1>2. ASSUME NEW n \in 1..inputs, NEW k \in Slots(inputs), k <= Len(want[n].ir)
      PROVE  /\ <<ir_address_addr(n, k, inputs), SlotValue(want, n, k)[1]>> \in Puts(known, want, inputs)
             /\ <<ir_command_addr(n, k, inputs), SlotValue(want, n, k)[2]>> \in Puts(known, want, inputs)
  BY <1>2 DEF Puts, IrPuts, Touched, Slots
<1>3. HasCodes(e, want, inputs)
  BY <1>2 DEF HasCodes
<1> QED
  BY <1>1, <1>3 DEF Holds, HasFlags

\* Reading a chip that holds what is wanted finds it: the bridge shows what it saved.
LEMMA SlotsAreRead ==
  ASSUME NEW inputs \in Nat, NEW want, NEW e, NEW n \in 1..inputs, Wanted(want, inputs),
         HasCodes(e, want, inputs)
  PROVE  DecodeIr(e, n, inputs) = want[n].ir
<1> DEFINE slots == 0..(ir_slots(inputs) - 1)
           ends == {k \in slots : EndsList(e, n, k, inputs)} \cup {ir_slots(inputs)}
           len == Len(want[n].ir)
<1>1. want[n].ir \in Seq(IrCode) /\ len \in Nat /\ len <= ir_slots(inputs)
  BY DEF Wanted
<1>2. ir_slots(inputs) \in Nat
  BY RegionAssumption DEF ir_slots
<1>3. ASSUME NEW k \in slots, k < len
      PROVE  /\ ~EndsList(e, n, k, inputs)
             /\ <<e[ir_address_addr(n, k, inputs)], e[ir_command_addr(n, k, inputs)]>> = want[n].ir[k + 1]
  <2>1. want[n].ir[k + 1] \in IrCode
    BY <1>1, <1>2, <1>3
  <2>2. SlotValue(want, n, k) = want[n].ir[k + 1]
    BY <1>3 DEF SlotValue
  <2>3. /\ ir_address_addr(n, k, inputs) \in DOMAIN e /\ ir_command_addr(n, k, inputs) \in DOMAIN e
        /\ e[ir_address_addr(n, k, inputs)] = want[n].ir[k + 1][1]
        /\ e[ir_command_addr(n, k, inputs)] = want[n].ir[k + 1][2]
    BY <1>1, <1>2, <1>3, <2>2 DEF HasCodes, Slots
  <2> QED
    BY <2>1, <2>3 DEF IrCode, EndsList
<1>4. len \in slots => EndsList(e, n, len, inputs)
  <2> SUFFICES ASSUME len \in slots PROVE EndsList(e, n, len, inputs)
    OBVIOUS
  <2>1. SlotValue(want, n, len) = <<IR_EMPTY, IR_EMPTY>>
    BY <1>1 DEF SlotValue
  <2> QED
    BY <1>1, <2>1 DEF HasCodes, Slots, EndsList
<1>5. len \in ends /\ \A k \in ends : len <= k
  <2>1. ASSUME NEW k \in slots, EndsList(e, n, k, inputs) PROVE len <= k
    BY <2>1, <1>1, <1>2, <1>3
  <2> QED
    BY <2>1, <1>1, <1>2, <1>4
<1>6. Min(ends) = len
  <2>1. ends \in SUBSET Nat
    BY <1>2
  <2> HIDE DEF ends, len
  <2> QED
    BY <2>1, <1>5, MinIsLeast
<1>7. DecodeIr(e, n, inputs) =
        [i \in 1..len |-> <<e[ir_address_addr(n, i - 1, inputs)], e[ir_command_addr(n, i - 1, inputs)]>>]
  BY <1>6 DEF DecodeIr
<1>8. ASSUME NEW i \in 1..len
      PROVE  <<e[ir_address_addr(n, i - 1, inputs)], e[ir_command_addr(n, i - 1, inputs)]>> = want[n].ir[i]
  <2>1. i - 1 \in slots /\ i - 1 < len /\ (i - 1) + 1 = i
    BY <1>1, <1>2
  <2> QED
    BY <2>1, <1>3
<1>9. want[n].ir = [i \in 1..len |-> want[n].ir[i]]
  BY <1>1
<1> QED
  BY <1>7, <1>8, <1>9

\* decode_input finds of an input what was wanted of it, in every field that plan_writes
\* looks at.
THEOREM DecodesBack ==
  ASSUME NEW inputs \in Nat, NEW want, NEW e, Wanted(want, inputs), Holds(e, want, inputs),
         NEW n \in 1..inputs
  PROVE  decode_input(e, n, inputs) =
           [auto_profile |-> want[n].auto_profile, rgsb |-> want[n].rgsb,
            sync_bypass |-> want[n].sync_bypass, ir |-> want[n].ir]
<1>1. ASSUME NEW m \in Maps
      PROVE  /\ want[n][m.field] \in BOOLEAN
             /\ bit_of(m.base, n).addr \in DOMAIN e
             /\ bit_of(m.base, n).bit \in e[bit_of(m.base, n).addr] <=> want[n][m.field] # m.low
  BY DEF Wanted, Holds, HasFlags
<1> DEFINE a == [base |-> AUTO_PROFILE_BASE, field |-> "auto_profile", low |-> FALSE]
           g == [base |-> RGSB_BASE, field |-> "rgsb", low |-> TRUE]
           s == [base |-> SYNC_BYPASS_BASE, field |-> "sync_bypass", low |-> FALSE]
<1>2. a \in Maps /\ g \in Maps /\ s \in Maps
  BY Zenon DEF Maps
<1>3. Bit(e, AUTO_PROFILE_BASE, n, FALSE) = want[n].auto_profile
  <2>1. a.base = AUTO_PROFILE_BASE /\ a.field = "auto_profile" /\ a.low = FALSE
    OBVIOUS
  <2> HIDE DEF a
  <2> QED
    BY <1>1, <1>2, <2>1, Zenon DEF Bit
<1>4. Bit(e, RGSB_BASE, n, TRUE) = want[n].rgsb
  <2>1. g.base = RGSB_BASE /\ g.field = "rgsb" /\ g.low = TRUE
    OBVIOUS
  <2> HIDE DEF g
  <2> QED
    BY <1>1, <1>2, <2>1, Zenon DEF Bit
<1>5. Bit(e, SYNC_BYPASS_BASE, n, FALSE) = want[n].sync_bypass
  <2>1. s.base = SYNC_BYPASS_BASE /\ s.field = "sync_bypass" /\ s.low = FALSE
    OBVIOUS
  <2> HIDE DEF s
  <2> QED
    BY <1>1, <1>2, <2>1, Zenon DEF Bit
<1>6. DecodeIr(e, n, inputs) = want[n].ir
  BY SlotsAreRead DEF Holds
<1> QED
  BY <1>3, <1>4, <1>5, <1>6, Zenon DEF decode_input

\* A save sets bytes of the IR region and of the bitmaps, no others.
LEMMA PutAddress ==
  ASSUME NEW inputs \in Nat, NEW known, NEW want, NEW p \in Puts(known, want, inputs)
  PROVE  \/ p \in IrPuts(known, want, inputs) /\ p[1] \in 0..(2 * IR_REGION - 1)
         \/ p \in FlagPuts(known, want, inputs) /\ p[1] \in bitmap_addresses(inputs)
<1>1. ASSUME p \in IrPuts(known, want, inputs) PROVE p[1] \in 0..(2 * IR_REGION - 1)
  <2>1. PICK n \in 1..inputs, k \in Slots(inputs) :
           \/ p = <<ir_address_addr(n, k, inputs), SlotValue(want, n, k)[1]>>
           \/ p = <<ir_command_addr(n, k, inputs), SlotValue(want, n, k)[2]>>
    BY <1>1, IrPut
  <2> QED
    BY <2>1, SlotInRegion, RegionAssumption DEF ir_command_addr
<1>2. ASSUME p \in FlagPuts(known, want, inputs) PROVE p[1] \in bitmap_addresses(inputs)
  <2>1. PICK m \in Maps, i \in 0..(bitmap_bytes(inputs) - 1) :
           p = <<m.base + i, FlagByte(known, want, inputs, m, i)>>
    BY <1>2 DEF FlagPuts
  <2>2. m.base \in {AUTO_PROFILE_BASE, RGSB_BASE, SYNC_BYPASS_BASE}
    BY DEF Maps
  <2> QED
    BY <2>1, <2>2 DEF bitmap_addresses
<1> QED
  BY <1>1, <1>2 DEF Puts

\* ... and sets them to bytes.
LEMMA PutByte ==
  ASSUME NEW inputs \in Nat, NEW known, NEW want, Wanted(want, inputs),
         NEW p \in Puts(known, want, inputs)
  PROVE  p[2] \in Byte
<1>1. ASSUME p \in IrPuts(known, want, inputs) PROVE p[2] \in Byte
  <2>1. PICK n \in 1..inputs, k \in Slots(inputs) :
           \/ p = <<ir_address_addr(n, k, inputs), SlotValue(want, n, k)[1]>>
           \/ p = <<ir_command_addr(n, k, inputs), SlotValue(want, n, k)[2]>>
    BY <1>1, IrPut
  <2>2. k \in Nat /\ want[n].ir \in Seq(IrCode)
    BY DEF Wanted, Slots
  <2>3. CASE k < Len(want[n].ir)
    <3>1. want[n].ir[k + 1] \in IrCode /\ SlotValue(want, n, k) = want[n].ir[k + 1]
      BY <2>2, <2>3 DEF SlotValue
    <3> QED
      BY <2>1, <3>1 DEF IrCode
  <2>4. CASE ~(k < Len(want[n].ir))
    BY <2>1, <2>4 DEF SlotValue, IR_EMPTY, Byte
  <2> QED
    BY <2>3, <2>4
<1>2. ASSUME p \in FlagPuts(known, want, inputs) PROVE p[2] \in Byte
  BY <1>2 DEF FlagPuts, FlagByte, Byte
<1> QED
  BY <1>1, <1>2 DEF Puts

\* plan_writes: a save leaves out only what the chip has already, so that after it the
\* chip holds all that was wanted.
THEOREM PlanIsHeld ==
  ASSUME NEW inputs \in 1..MAX_INPUTS, NEW known, NEW want, NEW e,
         \A a \in DOMAIN known : a \in DOMAIN e /\ known[a] = e[a]
  PROVE  Holds(Written(e, plan_writes(known, want, inputs)), want, inputs)
<1> DEFINE ws == plan_writes(known, want, inputs)
<1>1. /\ \A p, q \in Puts(known, want, inputs) : p[1] = q[1] => p[2] = q[2]
      /\ ws \subseteq Puts(known, want, inputs)
  BY PlanHasNoClash DEF OneByteEach, plan_writes
<1>2. \A p, q \in ws : p[1] = q[1] => p[2] = q[2]
  BY <1>1
<1>3. /\ \A a : a \in DOMAIN Written(e, ws) <=> a \in DOMAIN e \/ \E p \in ws : p[1] = a
      /\ \A p \in ws : Written(e, ws)[p[1]] = p[2]
      /\ \A a \in DOMAIN e : (\A p \in ws : p[1] # a) => Written(e, ws)[a] = e[a]
  <2> HIDE DEF ws
  <2> QED
    BY <1>2, WrittenBytes
<1> DEFINE f == Written(e, ws)
<1>4. ASSUME NEW p \in Puts(known, want, inputs) PROVE p[1] \in DOMAIN f /\ f[p[1]] = p[2]
  <2>1. CASE p \in ws
    BY <1>3, <2>1
  <2>2. CASE p \notin ws
    <3>1. p[1] \in DOMAIN known /\ known[p[1]] = p[2]
      BY <2>2 DEF plan_writes
    <3>2. \A q \in ws : q[1] # p[1]
      BY <1>1, <3>1 DEF plan_writes
    <3> QED
      BY <1>3, <3>1, <3>2
  <2> QED
    BY <2>1, <2>2
<1>5. inputs \in Nat
  BY InputsAssumption
<1> HIDE DEF f
<1>6. Holds(f, want, inputs)
  BY <1>4, <1>5, PutsAreHeld
<1> QED
  BY <1>6 DEF f

\* A read that stops at the first empty slot misses nothing of it.
LEMMA ReadingHolds ==
  ASSUME NEW inputs \in Nat, NEW want, NEW e, Wanted(want, inputs), Holds(e, want, inputs)
  PROVE  Holds(Reading(e, inputs), want, inputs)
<1>1. bitmap_addresses(inputs) \subseteq ReadAddresses(e, inputs)
  BY DEF ReadAddresses
<1>2. ASSUME NEW n \in 1..inputs, NEW m \in Maps
      PROVE  bit_of(m.base, n).addr \in ReadAddresses(e, inputs)
  <2>1. m.base \in {AUTO_PROFILE_BASE, RGSB_BASE, SYNC_BYPASS_BASE} /\ m.base \in Nat
    BY DEF Maps, AUTO_PROFILE_BASE, RGSB_BASE, SYNC_BYPASS_BASE
  <2>2. /\ (n - 1) \div 8 \in 0..(bitmap_bytes(inputs) - 1)
        /\ bit_of(m.base, n).addr = m.base + (n - 1) \div 8
    BY <2>1, BitInByte
  <2>3. bit_of(m.base, n).addr \in bitmap_addresses(inputs)
    BY <2>1, <2>2 DEF bitmap_addresses
  <2> QED
    BY <1>1, <2>3
<1>3. HasFlags(Reading(e, inputs), want, inputs)
  BY <1>2 DEF Holds, HasFlags, Reading
<1>4. ASSUME NEW n \in 1..inputs, NEW k \in Slots(inputs), k <= Len(want[n].ir)
      PROVE  /\ ir_address_addr(n, k, inputs) \in ReadAddresses(e, inputs)
             /\ ir_command_addr(n, k, inputs) \in ReadAddresses(e, inputs)
  <2>1. ir_slots(inputs) \in Nat /\ k \in Nat /\ k < ir_slots(inputs)
    BY RegionAssumption DEF ir_slots, Slots
  <2>2. ASSUME NEW j \in 0..(k - 1) PROVE e[ir_address_addr(n, j, inputs)] # IR_EMPTY
    <3>1. want[n].ir \in Seq(IrCode) /\ j \in Slots(inputs) /\ j < Len(want[n].ir) /\ j \in Nat
      <4>1. want[n].ir \in Seq(IrCode)
        BY DEF Wanted
      <4> QED
        BY <1>4, <2>1, <2>2, <4>1 DEF Slots
    <3>2. want[n].ir[j + 1] \in IrCode /\ SlotValue(want, n, j) = want[n].ir[j + 1]
      BY <3>1 DEF SlotValue
    <3>3. e[ir_address_addr(n, j, inputs)] = want[n].ir[j + 1][1]
      BY <3>1, <3>2 DEF Holds, HasCodes
    <3> QED
      BY <3>2, <3>3 DEF IrCode
  <2> QED
    <3>1. <<n, k>> \in {p \in (1..inputs) \X Slots(inputs) :
                         \A j \in 0..(p[2] - 1) : e[ir_address_addr(p[1], j, inputs)] # IR_EMPTY}
      BY <2>2
    <3> QED
      BY <3>1 DEF ReadAddresses, Slots
<1>5. HasCodes(Reading(e, inputs), want, inputs)
  BY <1>4 DEF Holds, HasCodes, Reading
<1> QED
  BY <1>3, <1>5 DEF Holds

\* There is nothing to save for settings that are there.
THEOREM NothingToSave ==
  ASSUME NEW inputs \in Nat, NEW want, NEW e, Wanted(want, inputs), Holds(e, want, inputs),
         \A a \in bitmap_addresses(inputs) : a \in DOMAIN e /\ e[a] \in Byte
  PROVE  plan_writes(e, want, inputs) = {}
<1> SUFFICES ASSUME NEW p \in Puts(e, want, inputs)
             PROVE  p[1] \in DOMAIN e /\ e[p[1]] = p[2]
  BY DEF plan_writes
<1>1. CASE p \in FlagPuts(e, want, inputs)
  <2>1. PICK m \in Maps, i \in 0..(bitmap_bytes(inputs) - 1) :
           p = <<m.base + i, FlagByte(e, want, inputs, m, i)>>
    BY <1>1 DEF FlagPuts
  <2>2. m.base \in {AUTO_PROFILE_BASE, RGSB_BASE, SYNC_BYPASS_BASE} /\ m.base \in Nat
    BY DEF Maps, AUTO_PROFILE_BASE, RGSB_BASE, SYNC_BYPASS_BASE
  <2>3. m.base + i \in DOMAIN e /\ e[m.base + i] \subseteq Bits
    BY <2>2 DEF bitmap_addresses, Byte
  <2>4. ASSUME NEW b \in Bits
        PROVE  b \in FlagByte(e, want, inputs, m, i) <=> b \in e[m.base + i]
    <3> DEFINE n == 8 * i + b + 1
    <3>1. CASE n <= inputs
      <4>1. n \in 1..inputs
        BY <3>1 DEF Bits
      <4>2. (n - 1) \div 8 = i /\ (n - 1) % 8 = b
        BY DEF Bits
      <4>3. bit_of(m.base, n).addr = m.base + i /\ bit_of(m.base, n).bit = b
        BY <4>2 DEF bit_of
      <4>4. b \in e[m.base + i] <=> want[n][m.field] # m.low
        BY <4>1, <4>3 DEF Holds, HasFlags
      <4> QED
        BY <3>1, <4>4 DEF FlagByte
    <3>2. CASE ~(n <= inputs)
      BY <3>2 DEF FlagByte
    <3> QED
      BY <3>1, <3>2
  <2>5. FlagByte(e, want, inputs, m, i) \subseteq Bits
    BY DEF FlagByte
  <2>6. FlagByte(e, want, inputs, m, i) = e[m.base + i]
    BY <2>3, <2>4, <2>5
  <2> QED
    BY <2>1, <2>3, <2>6
<1>2. CASE p \in IrPuts(e, want, inputs)
  <2>1. PICK n \in 1..inputs : \E k \in Touched(e, want, n, inputs) :
           \/ p = <<ir_address_addr(n, k, inputs), SlotValue(want, n, k)[1]>>
           \/ p = <<ir_command_addr(n, k, inputs), SlotValue(want, n, k)[2]>>
    BY <1>2 DEF IrPuts
  <2>2. PICK k \in Touched(e, want, n, inputs) :
           \/ p = <<ir_address_addr(n, k, inputs), SlotValue(want, n, k)[1]>>
           \/ p = <<ir_command_addr(n, k, inputs), SlotValue(want, n, k)[2]>>
    BY <2>1
  <2>3. k \in Slots(inputs) /\ k <= Len(want[n].ir)
    BY SlotsAreRead DEF Touched, Slots, Holds
  <2> QED
    BY <2>2, <2>3 DEF Holds, HasCodes
<1> QED
  BY <1>1, <1>2 DEF Puts
=============================================================================
