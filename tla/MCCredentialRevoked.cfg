SPECIFICATION Spec
CONSTANTS
  Creds = {c1}
  Users = {u1}
  Tenants = {t1, t2}
  Requests = {q1}
  Life <- Lifetimes
  MaxDelay = 1
  MaxChanges = 3
  FaultKinds = {}
  MaxFaults = 0
  Horizon = 3
  None = None
INVARIANTS RevokedIsOut
CHECK_DEADLOCK FALSE
