CONSTANTS
  Names <- MCNames
  Columns = {"x", "y"}
  Defs = {"d"}
  Keys = {"k"}
  Checks = {}
  ForeignKeys = {"f"}
  Guards = {}
  Rank <- MCRank
  Clients = {"p"}
  Scenarios <- CoveringIndexWidened
  MaxCrashes = 0
  ForeignDDL = {}
  MaxForeign = 0
SPECIFICATION Spec
INVARIANTS NeverRejected
CHECK_DEADLOCK FALSE
