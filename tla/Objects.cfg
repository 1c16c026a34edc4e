CONSTANTS
  Names <- MCNames
  Columns = {"x", "y", "z"}
  Defs = {"d", "e"}
  Keys = {"k", "l"}
  Checks = {"c"}
  ForeignKeys = {}
  Guards = {"g"}
  Rank <- MCRank
  Clients = {"p"}
  Scenarios <- MCScenarios
  MaxCrashes = 0
  ForeignDDL = {}
  MaxForeign = 0
SPECIFICATION Spec
INVARIANTS NeverRejected ReplanEmpty DoneConverged
CHECK_DEADLOCK FALSE
