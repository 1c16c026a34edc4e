CONSTANTS
  Fields = {"a", "b", "c", "x", "y"}
  Charsets = {"latin1", "utf8mb4"}
  None = None
  AlterScenarios <- SpelledOut
  MaxCrashes = 1
  MaxApplies = 3
SPECIFICATION Spec
INVARIANTS ConvergesInOneApply
CHECK_DEADLOCK FALSE
