CONSTANTS
  Names <- MCNames
  Columns = {"x", "y"}
  Defs = {"d"}
  Keys = {"k"}
  Checks = {}
  ForeignKeys = {"f"}
  Guards = {}
  Rank <- MCRank
  Clients = {"p"}
  Scenarios <- HiddenDestination
  MaxCrashes = 0
  ForeignDDL = {}
  MaxForeign = 0
SPECIFICATION Spec
INVARIANTS RenamedDataKept
CHECK_DEADLOCK FALSE
