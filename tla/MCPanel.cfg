SPECIFICATION Spec
CONSTANTS
  People = {p}
  r1 = r1
  v1 = v1
  PanelRoles = {r1, r2}
  Tickets = {v1, v2}
  Secrets = {w1, w2}
  Conns = {q1, q2}
  TicketLife <- Lifetimes
  PendingLife = 0
  AccessLife = 0
  MaxConnAge = 1
  MaxSessions = 1
  MaxEdits = 1
  MaxLost = 1
  Nil = Nil
  Accounts = {v1, v2}
  Clients = {w1, w2}
  Handlers = {q1, q2}
  MaxWrites = 3
  MaxDbErrors = 1
  NoOne = NoOne
  DaysIn <- Calendar
  Year = 2
  JobDay = 2
  LastMonth = 5
  MaxDdlErrors = 1
  MaxStarts = 2
  MaxEvents = 2
SYMMETRY Symmetric
INVARIANTS
  SessionsTypeOK AccessRecent
  UsersTypeOK OneWord ViewerConfined SuperadminLeft
  RetentionTypeOK ReportComplete
PROPERTIES TicketOpensOnce SecondFactorStands
CHECK_DEADLOCK FALSE
