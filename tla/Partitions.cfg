CONSTANTS
  PartitionNames = {"p", "q", "r", "s"}
  Spellings = {"p", "P"}
  Bounds <- MCBounds
  Literals <- MCLiterals
  MaxValue <- MCMax
  Values <- MCValues
  Options <- MCOptions
  Schemes = {"e", "g"}
  Clients = {"c", "d"}
  Scenarios <- MCScenarios
  MaxCrashes = 1
SPECIFICATION FairSpec
INVARIANTS TypeOK NeverRejected Resumes DoneConverged RewritesOnlyChanged
PROPERTIES ImplementsCustody Settles
CHECK_DEADLOCK FALSE
