CONSTANTS
  Fields = {"a", "b", "c", "x", "y"}
  Charsets = {"latin1", "utf8mb4"}
  None = None
  AlterScenarios <- MCAlterScenarios
  MaxCrashes = 1
  MaxApplies = 3
SPECIFICATION FairSpec
INVARIANTS NeverRejected AddedInPlace EmptyPlanFaithful Stages FoldsFaithfully
PROPERTIES Settles
CHECK_DEADLOCK FALSE
