SPECIFICATION Spec
CONSTANTS
  Budget = 1
  MaxRuns = 2
  MaxFaults = 3
INVARIANTS
  ReusedOnlyWhenClean
  Isolated
PROPERTY
  CallsSettle
