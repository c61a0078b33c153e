SPECIFICATION Spec
CONSTANTS
  MaxCpu = 1
  Budget = 1
  MaxFaults = 2
INVARIANTS
  AccountedExecution
  VerifierAlone
  ReleasedOnlyWhenAbsent
  ResultIsTrue
PROPERTIES
  AbortEnds
