SPECIFICATION FairSpec
CONSTANTS
  Plans <- AllPlans
  Pages = {"p", "q"}
  Clients = {"e", "f"}
  MaxSessions = 1
  LOG_CAPACITY = 2
  LOG_BATCH = 1
  EVENTS_MAX = 1
INVARIANTS
  TypeOK
  NothingSkipped
PROPERTY PagesSettle
CHECK_DEADLOCK FALSE
