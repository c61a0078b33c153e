\* Two processes verify two requests over one replay store.
SPECIFICATION Spec
CONSTANTS
  p1 = p1
  p2 = p2
  r1 = r1
  r2 = r2
  Process = {p1, p2}
  Request = {r1, r2}
  Expiry <- MCExpiry
  Time <- MCTime
  Capacity = 3
  ChallengeTtl = 1
INVARIANTS
  OneOutcomePerRequest
  EvidenceStands
SYMMETRY MCSymmetry
