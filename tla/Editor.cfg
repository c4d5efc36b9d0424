SPECIFICATION Spec
CONSTANTS
  IR_REGION = 20
  MAX_INPUTS = 32
  Inputs = 9
  Chips <- MCChips
  Wants <- MCWants
INVARIANTS
  TypeOK
  SavedIsThere
  NoClash
  SavingIsIdempotent
PROPERTY
  OnlyManaged
