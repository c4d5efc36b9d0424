------------------------ MODULE SettingsEditorProofs ------------------------
(***************************************************************************)
(* Proofs about SettingsEditor, for every number of inputs, every EEPROM    *)
(* and every sequence of reads and saves: the layout, the plan and the read *)
(* of SvsConfig fit together.                                               *)
(***************************************************************************)
EXTENDS SettingsEditor, SvsConfigProofs

\* The page's view is up to date, and has the bitmaps if it has anything.
Current ==
  /\ \A a \in DOMAIN read : read[a] = chip[a]
  /\ read # Unread => bitmap_addresses(Inputs) \subseteq DOMAIN read

\* What was saved was proper settings, and the SVS holds them.
Kept ==
  saved # NoWant =>
    /\ saved \in Wants /\ Wanted(saved, Inputs)
    /\ Holds(chip, saved, Inputs)

IInv == TypeOK /\ Current /\ Kept

\* A read asks for addresses the EEPROM has.
LEMMA ReadInEeprom ==
  ASSUME NEW e
  PROVE  /\ ReadAddresses(e, Inputs) \subseteq Addresses
         /\ bitmap_addresses(Inputs) \subseteq ReadAddresses(e, Inputs)
<1> DEFINE rows == {p \in (1..Inputs) \X Slots(Inputs) :
                      \A j \in 0..(p[2] - 1) : e[ir_address_addr(p[1], j, Inputs)] # IR_EMPTY}
<1>1. ReadAddresses(e, Inputs) = bitmap_addresses(Inputs)
        \cup {ir_address_addr(p[1], p[2], Inputs) : p \in rows}
        \cup {ir_command_addr(p[1], p[2], Inputs) : p \in rows}
  BY DEF ReadAddresses, Slots
<1>2. ASSUME NEW p \in rows
      PROVE  /\ ir_address_addr(p[1], p[2], Inputs) \in 0..(2 * IR_REGION - 1)
             /\ ir_command_addr(p[1], p[2], Inputs) \in 0..(2 * IR_REGION - 1)
  BY SlotInRegion, EditorAssumption, RegionAssumption DEF ir_command_addr
<1> HIDE DEF rows
<1> QED
  BY <1>1, <1>2 DEF Addresses

\* A save starts from proper settings.
LEMMA SaveIsWanted ==
  ASSUME NEW want \in Wants, CanPlan(read, want, Inputs)
  PROVE  Wanted(want, Inputs) /\ Inputs \in 1..MAX_INPUTS /\ want # NoWant
<1> DEFINE S == [auto_profile : BOOLEAN, rgsb : BOOLEAN, sync_bypass : BOOLEAN, ir : Seq(IrCode)]
<1>1. want \in Seq(S) /\ DOMAIN want = 1..Inputs /\ Inputs \in 1..MAX_INPUTS
      /\ \A n \in 1..Inputs : Len(want[n].ir) <= ir_slots(Inputs)
  BY EditorAssumption DEF CanPlan
<1>2. ASSUME NEW n \in 1..Inputs
      PROVE  want[n].ir \in Seq(IrCode) /\ \A m \in Maps : want[n][m.field] \in BOOLEAN
  <2> HIDE DEF S
  <2>1. want[n] \in S
    BY <1>1
  <2>2. /\ want[n].auto_profile \in BOOLEAN /\ want[n].rgsb \in BOOLEAN
        /\ want[n].sync_bypass \in BOOLEAN /\ want[n].ir \in Seq(IrCode)
    BY <2>1 DEF S
  <2>3. \A m \in Maps : m.field \in {"auto_profile", "rgsb", "sync_bypass"}
    BY DEF Maps
  <2> QED
    BY <2>2, <2>3
<1>3. want # NoWant
  BY <1>1, InputsAssumption DEF NoWant
<1> QED
  BY <1>1, <1>2, <1>3 DEF Wanted

\* One save: the new bytes of the chip and of the view
LEMMA SaveStep ==
  ASSUME IInv, NEW want \in Wants, Save(want)
  PROVE  /\ IInv'
         /\ \A a \in DOMAIN chip : chip'[a] # chip[a] =>
              \E p \in Puts(read, want, Inputs) : p[1] = a /\ chip'[a] = p[2]
<1> DEFINE ws == plan_writes(read, want, Inputs)
<1>1. /\ CanPlan(read, want, Inputs) /\ read # Unread
      /\ chip' = Written(chip, ws) /\ read' = Written(read, ws) /\ saved' = want
  BY DEF Save
<1>2. Wanted(want, Inputs) /\ Inputs \in 1..MAX_INPUTS /\ Inputs \in Nat /\ want # NoWant
  BY <1>1, SaveIsWanted, EditorAssumption
<1>3. /\ \A p, q \in ws : p[1] = q[1] => p[2] = q[2]
      /\ \A p \in ws : p \in Puts(read, want, Inputs) /\ p[1] \in Addresses /\ p[2] \in Byte
  <2>1. ws \subseteq Puts(read, want, Inputs)
    BY DEF plan_writes
  <2>2. \A p, q \in Puts(read, want, Inputs) : p[1] = q[1] => p[2] = q[2]
    BY <1>2, PlanHasNoClash DEF OneByteEach
  <2>3. ASSUME NEW p \in Puts(read, want, Inputs) PROVE p[1] \in Addresses /\ p[2] \in Byte
    BY <1>2, PutAddress, PutByte DEF Addresses
  <2> HIDE DEF ws
  <2> QED
    BY <2>1, <2>2, <2>3
<1>4. chip \in [Addresses -> Byte] /\ DOMAIN read \subseteq Addresses
      /\ \A a \in DOMAIN read : read[a] \in Byte /\ read[a] = chip[a]
  BY DEF IInv, TypeOK, Current
<1>5. Holds(chip', want, Inputs)
  BY <1>1, <1>2, <1>4, PlanIsHeld
<1> HIDE DEF ws
<1>6. /\ \A a : a \in DOMAIN chip' <=> a \in DOMAIN chip \/ \E p \in ws : p[1] = a
      /\ \A p \in ws : chip'[p[1]] = p[2]
      /\ \A a \in DOMAIN chip : (\A p \in ws : p[1] # a) => chip'[a] = chip[a]
  BY <1>1, <1>3, WrittenBytes
<1>7. /\ \A a : a \in DOMAIN read' <=> a \in DOMAIN read \/ \E p \in ws : p[1] = a
      /\ \A p \in ws : read'[p[1]] = p[2]
      /\ \A a \in DOMAIN read : (\A p \in ws : p[1] # a) => read'[a] = read[a]
  BY <1>1, <1>3, WrittenBytes
<1>8. chip' \in [Addresses -> Byte]
  <2>1. DOMAIN chip' = Addresses
    BY <1>3, <1>4, <1>6
  <2>2. \A a \in Addresses : chip'[a] \in Byte
    BY <1>3, <1>4, <1>6
  <2>3. chip' = [a \in DOMAIN chip' |-> chip'[a]]
    BY <1>1 DEF Written
  <2> QED
    BY <2>1, <2>2, <2>3
<1>9. read' \in [DOMAIN read' -> Byte] /\ DOMAIN read' \subseteq Addresses
  <2>1. \A a \in DOMAIN read' : read'[a] \in Byte /\ a \in Addresses
    BY <1>3, <1>4, <1>7
  <2>2. read' = [a \in DOMAIN read' |-> read'[a]]
    BY <1>1 DEF Written
  <2> QED
    BY <2>1, <2>2
<1>10. \A a \in DOMAIN read' : read'[a] = chip'[a]
  BY <1>4, <1>6, <1>7
<1>11. bitmap_addresses(Inputs) \subseteq DOMAIN read'
  BY <1>1, <1>7 DEF IInv, Current
<1>12. IInv'
  BY <1>1, <1>2, <1>5, <1>8, <1>9, <1>10, <1>11 DEF IInv, TypeOK, Current, Kept
<1>13. ASSUME NEW a \in DOMAIN chip, chip'[a] # chip[a]
       PROVE  \E p \in Puts(read, want, Inputs) : p[1] = a /\ chip'[a] = p[2]
  BY <1>3, <1>6, <1>13
<1> QED
  BY <1>12, <1>13

LEMMA ReadStep ==
  ASSUME IInv, Read
  PROVE  IInv'
<1>1. read' = Reading(chip, Inputs) /\ chip' = chip /\ saved' = saved
  BY DEF Read
<1>2. chip \in [Addresses -> Byte]
  BY DEF IInv, TypeOK
<1>3. /\ DOMAIN read' = ReadAddresses(chip, Inputs) /\ read' = [a \in DOMAIN read' |-> chip[a]]
      /\ \A a \in DOMAIN read' : read'[a] = chip[a]
  BY <1>1 DEF Reading
<1>4. DOMAIN read' \subseteq Addresses /\ bitmap_addresses(Inputs) \subseteq DOMAIN read'
  BY <1>3, ReadInEeprom
<1>5. read' \in [DOMAIN read' -> Byte]
  BY <1>2, <1>3, <1>4
<1> QED
  BY <1>1, <1>3, <1>4, <1>5 DEF IInv, TypeOK, Current, Kept

LEMMA Invariance == Spec => []IInv
<1>1. Init => IInv
  <2> SUFFICES ASSUME Init PROVE IInv
    OBVIOUS
  <2>1. Unread \in [DOMAIN Unread -> Byte] /\ DOMAIN Unread = {}
    BY DEF Unread
  <2> QED
    BY <2>1, EditorAssumption DEF Init, IInv, TypeOK, Current, Kept
<1>2. IInv /\ [Next]_vars => IInv'
  <2> SUFFICES ASSUME IInv, [Next]_vars PROVE IInv'
    OBVIOUS
  <2>1. CASE Read
    BY <2>1, ReadStep
  <2>2. ASSUME NEW want \in Wants, Save(want) PROVE IInv'
    BY <2>2, SaveStep
  <2>3. CASE UNCHANGED vars
    BY <2>3 DEF vars, IInv, TypeOK, Current, Kept
  <2> QED
    BY <2>1, <2>2, <2>3 DEF Next
<1> QED
  BY <1>1, <1>2, PTL DEF Spec

-----------------------------------------------------------------------------
\* The chip and the page's view hold bytes at the addresses of the EEPROM.
THEOREM TypeCorrectness == Spec => []TypeOK
BY Invariance, PTL DEF IInv

\* plan_writes and decode_input: a read after any saves shows the settings saved last.
THEOREM SavesAreReadBack == Spec => []SavedIsThere
<1>1. IInv => SavedIsThere
  <2> SUFFICES ASSUME IInv, saved # NoWant
               PROVE  Decode(Reading(chip, Inputs), Inputs) = saved
    BY DEF SavedIsThere
  <2> DEFINE S == [auto_profile : BOOLEAN, rgsb : BOOLEAN, sync_bypass : BOOLEAN, ir : Seq(IrCode)]
             e == Reading(chip, Inputs)
  <2>1. saved \in Seq(S) /\ Wanted(saved, Inputs) /\ Holds(chip, saved, Inputs) /\ Inputs \in Nat
    BY EditorAssumption DEF IInv, Kept
  <2>2. Holds(e, saved, Inputs)
    BY <2>1, ReadingHolds
  <2> HIDE DEF e
  <2>3. ASSUME NEW n \in 1..Inputs PROVE decode_input(e, n, Inputs) = saved[n]
    <3>1. decode_input(e, n, Inputs) =
            [auto_profile |-> saved[n].auto_profile, rgsb |-> saved[n].rgsb,
             sync_bypass |-> saved[n].sync_bypass, ir |-> saved[n].ir]
      BY <2>1, <2>2, DecodesBack
    <3>2. saved[n] \in S
      <4> HIDE DEF S
      <4> QED
        BY <2>1 DEF Wanted
    <3> QED
      BY <3>1, <3>2
  <2>4. saved = [n \in 1..Inputs |-> saved[n]]
    <3> HIDE DEF S
    <3> QED
      BY <2>1 DEF Wanted
  <2>5. Decode(e, Inputs) = saved
    BY <2>3, <2>4 DEF Decode
  <2> QED
    BY <2>5 DEF e
<1> QED
  BY <1>1, Invariance, PTL

\* plan_writes: asking again for what was saved writes no byte.
THEOREM SavingTwiceWritesOnce == Spec => []SavingIsIdempotent
<1>1. IInv => SavingIsIdempotent
  <2> SUFFICES ASSUME IInv, saved # NoWant
               PROVE  plan_writes(Reading(chip, Inputs), saved, Inputs) = {}
    BY DEF SavingIsIdempotent
  <2> DEFINE e == Reading(chip, Inputs)
  <2>1. Wanted(saved, Inputs) /\ Holds(chip, saved, Inputs) /\ Inputs \in Nat
    BY EditorAssumption DEF IInv, Kept
  <2>2. Holds(e, saved, Inputs)
    BY <2>1, ReadingHolds
  <2>3. ASSUME NEW a \in bitmap_addresses(Inputs) PROVE a \in DOMAIN e /\ e[a] \in Byte
    <3>1. a \in ReadAddresses(chip, Inputs) /\ a \in Addresses
      BY ReadInEeprom
    <3> QED
      BY <3>1 DEF Reading, IInv, TypeOK
  <2> HIDE DEF e
  <2>4. plan_writes(e, saved, Inputs) = {}
    BY <2>1, <2>2, <2>3, NothingToSave
  <2> QED
    BY <2>4 DEF e
<1> QED
  BY <1>1, Invariance, PTL

\* The settings page never plans two values for one byte.
THEOREM EditorNeverClashes == Spec => []NoClash
<1>1. NoClash
  BY PlanHasNoClash DEF NoClash, CanPlan
<1> QED
  BY <1>1, PTL

\* plan_writes: a save leaves alone the bytes that hold no setting, and in those that do
\* the bits of inputs the SVS does not have.
THEOREM OthersAreKept == Spec => OnlyManaged
<1>1. IInv /\ [Next]_vars =>
        [\A a \in DOMAIN chip : chip'[a] # chip[a] =>
           \/ a < 2 * IR_REGION
           \/ \E m \in Maps, i \in 0..(bitmap_bytes(Inputs) - 1) :
                /\ a = m.base + i
                /\ \A b \in Bits : 8 * i + b + 1 > Inputs => (b \in chip'[a] <=> b \in chip[a])]_vars
  <2> DEFINE Managed(a) == a < 2 * IR_REGION
               \/ \E m \in Maps, i \in 0..(bitmap_bytes(Inputs) - 1) :
                    /\ a = m.base + i
                    /\ \A b \in Bits : 8 * i + b + 1 > Inputs => (b \in chip'[a] <=> b \in chip[a])
  <2> SUFFICES ASSUME IInv, Next
               PROVE  \A a \in DOMAIN chip : chip'[a] # chip[a] => Managed(a)
    OBVIOUS
  <2>1. CASE Read
    BY <2>1 DEF Read
  <2>2. ASSUME NEW want \in Wants, Save(want), NEW a \in DOMAIN chip, chip'[a] # chip[a]
        PROVE  Managed(a)
    <3>1. CanPlan(read, want, Inputs) /\ Inputs \in Nat
      BY <2>2, EditorAssumption DEF Save
    <3>2. PICK p \in Puts(read, want, Inputs) : p[1] = a /\ chip'[a] = p[2]
      BY <2>2, SaveStep
    <3>3. CASE p \in IrPuts(read, want, Inputs) /\ p[1] \in 0..(2 * IR_REGION - 1)
      BY <3>2, <3>3, RegionAssumption
    <3>4. CASE p \in FlagPuts(read, want, Inputs)
      <4>1. PICK m \in Maps, i \in 0..(bitmap_bytes(Inputs) - 1) :
               p = <<m.base + i, FlagByte(read, want, Inputs, m, i)>>
        BY <3>4 DEF FlagPuts
      <4>2. a = m.base + i /\ chip'[a] = FlagByte(read, want, Inputs, m, i)
        BY <3>2, <4>1
      <4>3. read[a] = chip[a]
        BY <3>1, <4>2 DEF CanPlan, IInv, Current
      <4>4. ASSUME NEW b \in Bits, 8 * i + b + 1 > Inputs PROVE b \in chip'[a] <=> b \in chip[a]
        <5>1. ~(8 * i + b + 1 <= Inputs)
          BY <3>1, <4>4 DEF Bits
        <5> QED
          BY <4>2, <4>3, <5>1 DEF FlagByte
      <4> QED
        BY <4>2, <4>4
    <3> QED
      BY <3>1, <3>2, <3>3, <3>4, PutAddress
  <2> QED
    BY <2>1, <2>2 DEF Next
<1> QED
  BY <1>1, Invariance, PTL DEF Spec, OnlyManaged
=============================================================================
