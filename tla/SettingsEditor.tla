--------------------------- MODULE SettingsEditor ---------------------------
(***************************************************************************)
(* The settings page against an SVS nobody disturbs: read, edit, save, any  *)
(* number of times.  It checks the layout and the planning of SvsConfig;    *)
(* SvsSettings is the same with everything that can interfere.              *)
(***************************************************************************)
EXTENDS SvsConfig

CONSTANTS
  Inputs,   \* how many inputs the SVS reports
  Chips,    \* EEPROM contents the SVS may start with
  Wants     \* settings the page may ask for

VARIABLES
  chip,     \* the EEPROM of the SVS
  read,     \* s_read.eeprom, as of the last read
  saved     \* the settings of the last save, NoWant before it

vars == <<chip, read, saved>>

\* The EEPROM as far as settings are concerned
Addresses == (0..(2 * IR_REGION - 1)) \cup bitmap_addresses(Inputs)

ASSUME EditorAssumption ==
  /\ Inputs \in Nat
  /\ Chips \subseteq [Addresses -> Byte]
  /\ Wants \subseteq Seq([auto_profile : BOOLEAN, rgsb : BOOLEAN, sync_bypass : BOOLEAN,
                          ir : Seq(IrCode)])

NoWant == <<>>
Unread == [a \in {} |-> {}]

Init ==
  /\ chip \in Chips
  /\ read = Unread
  /\ saved = NoWant

Read ==
  /\ read' = Reading(chip, Inputs)
  /\ UNCHANGED <<chip, saved>>

\* write_task: the planned bytes, which the page's view then holds too
Save(want) ==
  /\ read # Unread
  /\ CanPlan(read, want, Inputs)
  /\ LET ws == plan_writes(read, want, Inputs)
     IN  chip' = Written(chip, ws) /\ read' = Written(read, ws)
  /\ saved' = want

Next == Read \/ \E want \in Wants : Save(want)

Spec == Init /\ [][Next]_vars

-----------------------------------------------------------------------------
TypeOK ==
  /\ chip \in [Addresses -> Byte]
  /\ read \in [DOMAIN read -> Byte]
  /\ DOMAIN read \subseteq Addresses
  /\ saved \in Wants \cup {NoWant}

\* plan_writes: an SVS that was saved to holds exactly what was asked for,
\* whatever stale codes its slots held before.
SavedIsThere == saved # NoWant => Decode(Reading(chip, Inputs), Inputs) = saved

\* plan_writes: whatever was read and whatever is wanted, no byte is asked to
\* hold two settings at once.
NoClash ==
  read # Unread =>
    \A want \in Wants : CanPlan(read, want, Inputs) => OneByteEach(read, want, Inputs)

\* "Nothing to save": after a save, asking for the same again writes nothing.
SavingIsIdempotent ==
  saved # NoWant => plan_writes(Reading(chip, Inputs), saved, Inputs) = {}

\* A save changes no byte outside the bitmaps and the IR slots, and no bit of
\* an input past those the SVS reported.
OnlyManaged ==
  [][\A a \in DOMAIN chip : chip'[a] # chip[a] =>
       \/ a < 2 * IR_REGION
       \/ \E m \in Maps, i \in 0..(bitmap_bytes(Inputs) - 1) :
            /\ a = m.base + i
            /\ \A b \in Bits : 8 * i + b + 1 > Inputs => (b \in chip'[a] <=> b \in chip[a])]_vars
=============================================================================
