SPECIFICATION Spec
CONSTANTS
  Requests = {r1, r2, r3}
  Bundles = {}
  Amounts = {1}
  InitialContracted = 1
  InitialConsumed = 0
  InitialQuotaRow = FALSE
  MaxInFlight = 2
  UsageRecordAsync = TRUE
  FaultKinds = {}
  MaxFaults = 0
  Miss = Miss
INVARIANTS CounterNeverAhead
CHECK_DEADLOCK FALSE
