\* Requests of two processes create, amend, retire and repair two workspaces.
SPECIFICATION RetentionSpec
CONSTANTS
  p1 = p1
  p2 = p2
  w1 = w1
  w2 = w2
  r1 = r1
  r2 = r2
  None = None
  Process = {p1, p2}
  Workspace = {w1, w2}
  RunId = {r1, r2}
  Capacity = 2
  MaxVersion = 2
INVARIANTS
  RunsHaveTheirWorkspace
PROPERTIES
  RunsUseTheCurrentVersion
SYMMETRY MCSymmetry
\* When every workspace is retired and no run is left, nothing happens any more.
CHECK_DEADLOCK FALSE
