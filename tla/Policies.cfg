CONSTANTS
  Names <- MCNames
  Columns = {"x", "y", "z"}
  Defs = {"d"}
  Keys = {"k"}
  Checks = {"c"}
  ForeignKeys = {"f"}
  Guards = {"g"}
  Rank <- MCRank
  Clients = {"p"}
  Scenarios <- PoliciesAndMigration
  MaxCrashes = 1
  ForeignDDL <- MCForeign
  MaxForeign = 1
SPECIFICATION Spec
INVARIANTS NothingHidden ReplanEmpty
PROPERTIES DropsOptedIn ObjectsOptedIn ImplementsCustody
CHECK_DEADLOCK FALSE
