CONSTANTS
  Names <- MCNames
  Columns = {"x", "y", "z"}
  Defs = {"d"}
  Keys = {"k"}
  Checks = {}
  ForeignKeys = {"f"}
  Guards = {"g"}
  Rank <- MCRank
  Clients = {"p", "q"}
  Scenarios <- MCScenarios
  MaxCrashes = 0
  ForeignDDL = {}
  MaxForeign = 0
SPECIFICATION FairSpec
INVARIANTS DoneConverged
PROPERTIES Finishes
CHECK_DEADLOCK FALSE
