\* Three starts of two processes, one of which may die with a child process,
\* two operators, and one failing input or output.
SPECIFICATION Spec
CONSTANTS
  Process = {p1, p2}
  Operator = {o1, o2}
  MaxStarts = 3
  Descendants = TRUE
  MaxFaults = 1
  MaxRepairAttempts = 2
INVARIANTS
  SectionHasOneProcess
  EvidenceSurvives
  PassIsEarned
SYMMETRY MCSymmetry
\* When the starts are used up nothing happens any more.
CHECK_DEADLOCK FALSE
