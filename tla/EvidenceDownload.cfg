\* Attestations stand for one unit of time, archives are kept for two.
SPECIFICATION Spec
CONSTANTS
  TrustedKeys = {"key-1"}
  MaxFutureSkew = 0
  MaxAge = 1
  MaxRequests = 3
  Scenarios <- MCScenarios
  Ttl = 2
  MaxTime = 2
  PiecesOf <- PackagePieces
  Accepts <- AcceptsPackage
  IsLive <- IsLivePackage
  LiveExpiry <- PackageExpiry
  Genuine <- AcceptablePackages
  CompiledDecides <- DecidesAlike
INVARIANTS
  CompiledPolicyDecides
  ServedIsGenuine
  FreshWhenServed
PROPERTIES
  RequestsAreAnswered
\* When every request is answered and nothing is left to publish, all is over.
CHECK_DEADLOCK FALSE
