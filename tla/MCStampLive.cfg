SPECIFICATION FairSpec
CONSTANTS
  Requests = {r1, r2}
  Bundles = {b1}
  Amounts = {1}
  InitialContracted = 1
  InitialConsumed = 0
  InitialQuotaRow = TRUE
  MaxInFlight = 2
  UsageRecordAsync = FALSE
  FaultKinds = {"check", "record", "invalidate", "evict", "resend"}
  MaxFaults = 1
  Miss = Miss
PROPERTIES EveryOutcomeRecorded ContractedHeals
CHECK_DEADLOCK FALSE
