CONSTANTS
  Names <- MCNames
  Columns <- MCColumns
  Defs = {"d"}
  Keys = {}
  Checks = {}
  ForeignKeys = {"f"}
  Guards = {}
  Rank <- MCRank
  Clients = {"p"}
  Scenarios <- AllScenarios
  MaxCrashes = 1
  ForeignDDL = {}
  MaxForeign = 0
SPECIFICATION Spec
INVARIANTS TypeOK DataKept NeverRejected PlannableStays Resumable NothingNeedless
PROPERTIES HiddenUntouched
CHECK_DEADLOCK FALSE
