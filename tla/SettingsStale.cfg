SPECIFICATION Spec
CONSTANTS
  IR_REGION = 4
  MAX_INPUTS = 32
  SVS = {"a", "b"}
  NoSvs = "none"
  InputsOf <- OneInput
  Chips <- TwoChips
  Wants <- MCWants
  Scenarios = {{"silent"}}
  ATTEMPTS = 2
  QueueSize = 8
  MaxConnections = 1
  MaxTyped = 1
  MaxRestarts = 1
INVARIANT
  NothingToSaveIsTrue
CHECK_DEADLOCK FALSE
