SPECIFICATION Spec
CONSTANTS
  Checks = {c1}
  Amounts = {2}
  Thresholds = {50}
  Off = Off
  MaxBundles = 2
  MaxConsumed = 4
  MaxUpdates = 0
  FaultKinds = {}
  MaxFaults = 0
PROPERTIES LetterAgreesWithReport
CHECK_DEADLOCK FALSE
