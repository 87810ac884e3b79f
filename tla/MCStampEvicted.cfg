SPECIFICATION Spec
CONSTANTS
  Requests = {r1, r2, r3}
  Bundles = {}
  Amounts = {1}
  InitialContracted = 5
  InitialConsumed = 2
  InitialQuotaRow = TRUE
  MaxInFlight = 2
  UsageRecordAsync = TRUE
  FaultKinds = {"evict"}
  MaxFaults = 1
  Miss = Miss
PROPERTIES ReadCorrectsCounter
CHECK_DEADLOCK FALSE
