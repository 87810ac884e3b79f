SPECIFICATION Spec
CONSTANTS
  Requests = {r1, r2, r3}
  Bundles = {}
  Amounts = {1}
  InitialContracted = 2
  InitialConsumed = 0
  InitialQuotaRow = FALSE
  MaxInFlight = 2
  UsageRecordAsync = TRUE
  FaultKinds = {"check", "record", "invalidate", "evict", "crash", "resend"}
  MaxFaults = 2
  Miss = Miss
SYMMETRY Symmetric
INVARIANTS TypeOK LedgerExact CounterLeadBounded RefusalJustified
PROPERTIES ImplementsBagLedger
CHECK_DEADLOCK FALSE
