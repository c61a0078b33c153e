\* Two processes race through admission, whole executions, expiry and recovery.
SPECIFICATION Spec
CONSTANTS
  p1 = p1
  p2 = p2
  r1 = r1
  r2 = r2
  s1 = s1
  k1 = k1
  k2 = k2
  in1 = in1
  in2 = in2
  pol1 = pol1
  None = None
  Process = {p1, p2}
  RunId = {r1, r2}
  Session = {s1}
  ClientRequest = {k1, k2}
  Input = {in1, in2}
  Policy = {pol1}
  PolicyOf <- MCPolicyOf
  Time <- MCTime
  LeaseDuration = 1
  MaxRunsPerSession = 2
  MaxEventsPerRun = 12
  MaxGeneration = 2
INVARIANTS
  OneBlockingRun
  AuthorityBindsActiveRun
  LogsAreExecutions
  SuccessHasOwnEvidence
  OneRunPerRequest
PROPERTIES
  FinishedRunsStand
  ImplementsLifecycle
CONSTRAINT MCShortLogs
SYMMETRY MCSymmetry
