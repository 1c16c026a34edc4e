CONSTANTS
  Views <- MCNames
  ViewScenarios <- MCViewScenarios
  MaxCrashes = 1
SPECIFICATION FairSpec
INVARIANTS Ordered StuckOnCycle NeverRejected OnlyChangedDangle
PROPERTIES ImplementsCutover Settles
CHECK_DEADLOCK FALSE
