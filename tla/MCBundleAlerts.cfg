SPECIFICATION FairSpec
CONSTANTS
  Checks = {c1, c2}
  Amounts = {2}
  Thresholds = {50}
  Off = Off
  MaxBundles = 2
  MaxConsumed = 4
  MaxUpdates = 1
  FaultKinds = {"redis", "query", "mail", "record", "crash"}
  MaxFaults = 1
INVARIANTS TypeOK ReportIsFifo NoneOverlooked LoggedWasSent CopiesBounded
PROPERTIES AlertedEventually
CHECK_DEADLOCK FALSE
