SPECIFICATION FairSpec
CONSTANTS
  SVS = {"a", "b"}
  Others = {"keyboard"}
  Nobody = "nobody"
  Inputs <- OneOrTwo
  NewDevsSize = 1
  StreamSize = 2
  MaxActs = 3
INVARIANTS
  TypeOK
  GoneIsOpened
  RestartGoesByOwn
  DtrReleased
PROPERTY
  PictureSettles
CHECK_DEADLOCK FALSE
