SPECIFICATION ServiceSpec
CONSTANTS
  Creds = {c1}
  Users = {u1}
  Tenants = {i1, i2}
  Requests = {e1, e2}
  Life <- Lifetimes
  MaxDelay = 1
  MaxChanges = 3
  FaultKinds = {"redis", "postgres", "crash"}
  MaxFaults = 1
  Horizon = 3
  None = None
  Upstream = {i1, i2}
  Hosts = {h1, h2}
  Environment = h1
  Editors = {e1, e2}
  Stamps = {q1}
  Fillings <- FillingsTried
  Retries = {1}
  EnvRetries = 0
  DefaultLife = 1
  MaxLag = 1
  MaxUpEdits = 3
  MaxUpFaults = 1
  Void = Void
  c1 = c1
  u1 = u1
  a1 = a1
  a2 = a2
  Addr = {a1, a2}
  Ranges <- Nested
  Callers = {q1}
  ListLife = 1
  MaxWait = 1
  MaxListEdits = 2
  MaxListFaults = 1
  Absent = Absent
  GlobalRPS = 1
  Bursts = {1, 2}
  Second = 2
  Window = 2
  MaxTardy = 2
  Waiting = {e1, e2}
  MaxClock = 4
  MaxTries = 2
  MaxRateFaults = 1
  NotNamed = NotNamed
SYMMETRY Symmetric
INVARIANTS
  TypeOK RevokedOnlyByRace
  UpstreamsTypeOK CredentialsStayHome DefaultRecent SendsCounted
  AllowlistTypeOK
  RatesTypeOK GlobalBounded TenantBounded RefusedForCause
PROPERTIES AdmissionRecent RefusalRecent VerdictRecent
CHECK_DEADLOCK FALSE
