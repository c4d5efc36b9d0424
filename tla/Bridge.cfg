SPECIFICATION FairSpec
CONSTANTS
  Plans <- AllPlans
  Crullers = {"a", "b"}
  NoCruller = "none"
  Addresses = {1, 2}
  Inputs = {1, 2}
INVARIANTS
  TypeOK
  NeverStranded
  LastIsSelected
PROPERTIES
  ComesBack
  Rejoins
  SelectedKnows
  ListedAreHere
CHECK_DEADLOCK FALSE
