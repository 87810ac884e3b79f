SPECIFICATION Spec
CONSTANTS
  Requests = {r1, r2, r3}
  Bundles = {b1}
  Amounts = {1}
  InitialContracted = 1
  InitialConsumed = 0
  InitialQuotaRow = TRUE
  MaxInFlight = 2
  UsageRecordAsync = TRUE
  FaultKinds = {}
  MaxFaults = 0
  Miss = Miss
PROPERTIES NoAdmissionOnceConsumed
CHECK_DEADLOCK FALSE
