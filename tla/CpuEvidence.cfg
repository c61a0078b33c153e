\* Three roles whose readings are 0 or 1, a budget of 1, at most
\* three samples per role and two faults in a containment. A session stops
\* once it has ended.
SPECIFICATION SessionSpec
CONSTANTS
  Budget = 1
  MaxEvents = 40
  MaxSamples = 3
  MaxUsage = 1
  MaxFaults = 2
  None = None
INVARIANTS
  ReaderAcceptsProducer
  QuietExactlyWhenClaimed
  UsageIsAccounted
CHECK_DEADLOCK FALSE
