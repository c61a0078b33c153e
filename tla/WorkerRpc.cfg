\* Two calls that may share their identifiers, on two supervisors.
SPECIFICATION RpcSpec
CONSTANTS
  c1 = c1
  c2 = c2
  s1 = s1
  s2 = s2
  i1 = i1
  i2 = i2
  n1 = n1
  n2 = n2
  None = None
  Supervisor = {s1, s2}
  Call = {c1, c2}
  RequestId = {i1, i2}
  Nonce = {n1, n2}
  Time = {0, 1, 2}
  RpcTimeout = 1
  WallTime = 1
  ClockSkew = 0
  ReplayCapacity = 2
  PassSigning = TRUE
SYMMETRY MCSymmetry
INVARIANTS
  OneExecutionPerCapability
  SlotHasOneOwner
  AcceptedWorkIsOver
