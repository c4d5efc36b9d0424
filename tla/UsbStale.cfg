SPECIFICATION Spec
CONSTANTS
  SVS = {"a", "b"}
  Others = {}
  Nobody = "nobody"
  Inputs <- OneOrTwo
  NewDevsSize = 1
  StreamSize = 2
  MaxActs = 2
INVARIANTS
  NothingWhenUnplugged
CHECK_DEADLOCK FALSE
