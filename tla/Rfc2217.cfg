SPECIFICATION FairSpec
CONSTANTS
  SbMax = 4
  ReplyMax = 256
  HoldMax = 3
  MaxConns = 3
  MaxClients = 2
  TapSize = 2
  RawMax = 2
  LineMax = 4
  Supported = {0, 44}
  Plans <- AllPlans
INVARIANTS
  TypeOK
  Transparent
  OnlyEchoMissing
PROPERTY Settles
CHECK_DEADLOCK FALSE
