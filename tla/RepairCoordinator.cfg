\* Timers, late answers, refused calls, crashes and fencing in every order, and
\* what must happen under the fairness of timers and of polling clients.
SPECIFICATION FairSpec
CONSTANTS
  p1 = p1
  p2 = p2
  r1 = r1
  r2 = r2
  None = None
  Process = {p1, p2}
  RunId = {r1, r2}
INVARIANTS
  BusyWorkHoldsLatch
  ClosedRunsWereTornDown
  NoProgressAfterReturn
PROPERTIES
  AdmittedRunsEnd
  ExecutionsReturn
