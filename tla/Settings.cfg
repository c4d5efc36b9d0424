SPECIFICATION FairSpec
CONSTANTS
  IR_REGION = 4
  MAX_INPUTS = 32
  SVS = {"a", "b"}
  NoSvs = "none"
  InputsOf <- OneInput
  Chips <- TwoChips
  Wants <- MCWants
  Scenarios <- Disturbances
  ATTEMPTS = 2
  QueueSize = 2
  MaxConnections = 2
  MaxTyped = 1
  MaxRestarts = 1
INVARIANTS
  TypeOK
  SessionHeld
  ShownIsChip
  ReadsAreRight
  SavedIsThere
  TranscodersSet
PROPERTY
  UnmanagedKept
  TaskEnds
CHECK_DEADLOCK FALSE
