SPECIFICATION Spec
CONSTANTS
  SVS = {"b"}
  Others = {}
  Nobody = "nobody"
  Inputs <- OneOrTwo
  NewDevsSize = 1
  StreamSize = 2
  MaxActs = 0
PROPERTY
  InputPutBack
CHECK_DEADLOCK FALSE
