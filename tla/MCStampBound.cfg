SPECIFICATION Spec
CONSTANTS
  Requests = {r1, r2, r3}
  Bundles = {b1}
  Amounts = {1}
  InitialContracted = 1
  InitialConsumed = 0
  InitialQuotaRow = TRUE
  MaxInFlight = 2
  UsageRecordAsync = TRUE
  FaultKinds = {"record", "invalidate", "crash"}
  MaxFaults = 2
  Miss = Miss
SYMMETRY Symmetric
INVARIANTS OvershootBounded
PROPERTIES SettledIsSeen PurchaseSeen
CHECK_DEADLOCK FALSE
