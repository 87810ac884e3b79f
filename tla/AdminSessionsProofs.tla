-------------------------- MODULE AdminSessionsProofs --------------------------
(***************************************************************************)
(* Proofs about AdminSessions: for any users, roles, tickets and requests, *)
(* any lifetimes, any number of changes and of lost deletions.             *)
(***************************************************************************)
EXTENDS AdminSessions, TLAPS

-----------------------------------------------------------------------------
\* Types.

TicketsType ==
  /\ issued \subseteq Tickets
  /\ ticket \in [Tickets -> Ticket \cup {Nil}]
  /\ \A k \in Tickets : ticket[k] # Nil => k \in issued /\ ticket[k].age <= TicketLife[ticket[k].kind]

PendingType ==
  /\ pending \in [People -> Pending \cup {Nil}]
  /\ \A u \in People : pending[u] # Nil => pending[u].age <= PendingLife

AccessType == access \subseteq Access /\ \A a \in access : a.age <= AccessLife

\* What a request has read at each place, when the tickets iss have been issued.
WellRead(c, iss) ==
  /\ c.age <= MaxConnAge
  /\ c.at = "write" => c.secret # Nil
  /\ c.op \in {"verify", "complete"} => c.ticket \in iss
  /\ c.at \in {"code", "pending"} \/ (c.op = "complete" /\ c.at = "write") => c.role # Nil

ConnsType ==
  /\ conn \in [Conns -> Conn \cup {Nil}]
  /\ \A q \in Conns : conn[q] # Nil => WellRead(conn[q], issued)

CountsType == refresh \in [People -> 0..MaxSessions] /\ edits \in 0..MaxEdits /\ lost \in 0..MaxLost

HistoryType ==
  /\ since \in [Grants -> 0..(AccessBound + 1)]
  /\ enrolled \in [People -> 0..(EnrolBound + 1)]
  /\ opened \subseteq issued
  /\ shared \subseteq issued

LEMMA SessionsParts ==
  SessionsTypeOK <=> /\ person \in [People -> Person]
                     /\ TicketsType /\ PendingType /\ AccessType /\ ConnsType
                     /\ CountsType /\ HistoryType
BY DEF SessionsTypeOK, TicketsType, PendingType, AccessType, ConnsType, WellRead, CountsType, HistoryType

LEMMA SessionsPartsNext ==
  SessionsTypeOK' <=> /\ person' \in [People -> Person]
                      /\ TicketsType' /\ PendingType' /\ AccessType' /\ ConnsType'
                      /\ CountsType' /\ HistoryType'
BY DEF SessionsTypeOK, TicketsType, PendingType, AccessType, ConnsType, WellRead, CountsType, HistoryType

LEMMA TicketsStand ==
  ASSUME TicketsType, UNCHANGED <<ticket, issued>> PROVE TicketsType'
BY DEF TicketsType

LEMMA PendingStands == ASSUME PendingType, UNCHANGED pending PROVE PendingType'
BY DEF PendingType

LEMMA AccessStands == ASSUME AccessType, UNCHANGED access PROVE AccessType'
BY DEF AccessType

LEMMA ConnsStand == ASSUME ConnsType, UNCHANGED <<conn, issued>> PROVE ConnsType'
BY DEF ConnsType, WellRead

LEMMA CountsStand == ASSUME CountsType, UNCHANGED <<refresh, edits, lost>> PROVE CountsType'
BY DEF CountsType

LEMMA HistoryStands == ASSUME HistoryType, UNCHANGED <<since, enrolled, opened, shared, issued>> PROVE HistoryType'
BY DEF HistoryType

LEMMA SessionBounds == AccessBound \in Nat /\ EnrolBound \in Nat
<1>1. TicketLife["setup"] \in Nat
  BY SessionsAssumption DEF Kinds
<1>. QED BY <1>1, SessionsAssumption DEF AccessBound, EnrolBound

\* One request starts, goes on or ends.
LEMMA ConnMoves ==
  ASSUME ConnsType, issued \subseteq issued', NEW q \in Conns, NEW d \in Conn \cup {Nil},
         conn' = [conn EXCEPT ![q] = d], d # Nil => WellRead(d, issued')
  PROVE  ConnsType'
<1>1. \A p \in Conns : conn'[p] = IF p = q THEN d ELSE conn[p]
  BY DEF ConnsType
<1>2. conn' \in [Conns -> Conn \cup {Nil}]
  BY DEF ConnsType
<1>3. \A c : WellRead(c, issued) => WellRead(c, issued')
  BY DEF WellRead
<1>4. \A p \in Conns : conn'[p] # Nil => WellRead(conn'[p], issued')
  BY <1>1, <1>3 DEF ConnsType
<1>. QED BY <1>2, <1>4 DEF ConnsType, WellRead

Ops    == {"login", "verify", "complete", "enable", "refresh"}
Places == {"hash", "find", "code", "pending", "write"}

LEMMA StartFacts ==
  ASSUME ConnsType, NEW q \in Conns, NEW op \in Ops, NEW place \in Places, NEW u \in People,
         NEW k \in Tickets \cup {Nil}, NEW r \in PanelRoles \cup {Nil}, NEW s \in Secrets \cup {Nil},
         Start(q, op, place, u, k, r, s)
  PROVE  /\ conn' = [conn EXCEPT ![q] = conn'[q]] /\ conn'[q] \in Conn /\ conn'[q] # Nil
         /\ conn'[q].op = op /\ conn'[q].at = place /\ conn'[q].user = u /\ conn'[q].ticket = k
         /\ conn'[q].role = r /\ conn'[q].secret = s /\ conn'[q].age = 0
<1> DEFINE d == [op |-> op, at |-> place, user |-> u, ticket |-> k, role |-> r, secret |-> s, age |-> 0]
<1>1. d \in Conn
  BY DEF Conn, Ops, Places
<1>2. conn' = [conn EXCEPT ![q] = d]
  BY DEF Start
<1>3. /\ d.op = op /\ d.at = place /\ d.user = u /\ d.ticket = k
      /\ d.role = r /\ d.secret = s /\ d.age = 0
  OBVIOUS
<1> HIDE DEF d
<1>4. conn'[q] = d
  BY <1>2 DEF ConnsType
<1>. QED BY <1>1, <1>2, <1>3, <1>4, SessionsAssumption

LEMMA GoOnFacts ==
  ASSUME ConnsType, NEW q \in Conns, conn[q] # Nil, NEW place \in Places,
         NEW r \in PanelRoles \cup {Nil}, NEW s \in Secrets \cup {Nil}, GoOn(q, place, r, s)
  PROVE  /\ conn' = [conn EXCEPT ![q] = conn'[q]] /\ conn'[q] \in Conn /\ conn'[q] # Nil
         /\ conn[q] \in Conn /\ WellRead(conn[q], issued)
         /\ conn'[q].op = conn[q].op /\ conn'[q].at = place /\ conn'[q].user = conn[q].user
         /\ conn'[q].ticket = conn[q].ticket
         /\ conn'[q].role = r /\ conn'[q].secret = s /\ conn'[q].age = conn[q].age
<1> DEFINE c == conn[q]
           d == [op |-> c.op, at |-> place, user |-> c.user, ticket |-> c.ticket,
                 role |-> r, secret |-> s, age |-> c.age]
<1>1. c \in Conn /\ WellRead(c, issued)
  BY DEF ConnsType
<1>2. d \in Conn
  BY <1>1 DEF Conn, Places
<1>3. conn' = [conn EXCEPT ![q] = d]
  BY DEF GoOn
<1>4. /\ d.op = c.op /\ d.at = place /\ d.user = c.user /\ d.ticket = c.ticket
      /\ d.role = r /\ d.secret = s /\ d.age = c.age
  OBVIOUS
<1> HIDE DEF d
<1>5. conn'[q] = d
  BY <1>3 DEF ConnsType
<1>. QED BY <1>1, <1>2, <1>3, <1>4, <1>5, SessionsAssumption

LEMMA LeaveType ==
  ASSUME ConnsType, issued \subseteq issued', NEW q \in Conns, Leave(q)
  PROVE  ConnsType'
BY ConnMoves DEF Leave

LEMMA ConnFacts ==
  ASSUME ConnsType, NEW q \in Conns, conn[q] # Nil
  PROVE  /\ conn[q] \in Conn /\ WellRead(conn[q], issued)
         /\ conn[q].user \in People /\ conn[q].op \in Ops /\ conn[q].at \in Places
         /\ conn[q].ticket \in Tickets \cup {Nil} /\ conn[q].role \in PanelRoles \cup {Nil}
         /\ conn[q].secret \in Secrets \cup {Nil} /\ conn[q].age \in Nat /\ conn[q].age <= MaxConnAge
<1>1. conn[q] \in Conn /\ WellRead(conn[q], issued)
  BY DEF ConnsType
<1>. QED BY <1>1 DEF Conn, Ops, Places, WellRead

LEMMA PersonFacts ==
  ASSUME person \in [People -> Person], NEW u \in People
  PROVE  /\ person[u].status \in {"active", "inactive", "deleted"}
         /\ person[u].role \in PanelRoles /\ person[u].role # Nil
         /\ person[u].secret \in Secrets \cup {Nil}
<1>1. person[u] \in Person
  OBVIOUS
<1>. QED BY <1>1, SessionsAssumption DEF Person
LEMMA OnlyConns ==
  ASSUME SessionsTypeOK, ConnsType',
         UNCHANGED <<person, ticket, pending, refresh, access, bounds, history>>
  PROVE  SessionsTypeOK'
BY SessionsParts, SessionsPartsNext, TicketsStand, PendingStands, AccessStands, CountsStand, HistoryStands
   DEF bounds, history

LEMMA LoginType ==
  ASSUME SessionsTypeOK, NEW q \in Conns, NEW u \in People, Login(q, u)
  PROVE  SessionsTypeOK'
<1> DEFINE s == person[u].secret
<1>1. ConnsType /\ s \in Secrets \cup {Nil} /\ issued' = issued
  BY SessionsParts, PersonFacts DEF Login, bounds
<1>2. Start(q, "login", "hash", u, Nil, Nil, s)
  BY DEF Login
<1> HIDE DEF s
<1>3. /\ conn' = [conn EXCEPT ![q] = conn'[q]] /\ conn'[q] \in Conn
      /\ conn'[q].op = "login" /\ conn'[q].at = "hash" /\ conn'[q].age = 0
  <2>1. "login" \in Ops /\ "hash" \in Places
    BY DEF Ops, Places
  <2>. QED BY <1>1, <1>2, <2>1, StartFacts
<1>4. WellRead(conn'[q], issued')
  BY <1>3, SessionsAssumption DEF WellRead
<1>5. ConnsType'
  BY <1>1, <1>3, <1>4, ConnMoves
<1>. QED BY <1>5, OnlyConns DEF Login

LEMMA PresentType ==
  ASSUME SessionsTypeOK, NEW q \in Conns, NEW k \in Tickets, Present(q, k)
  PROVE  SessionsTypeOK'
<1>1. ConnsType /\ issued' = issued
  BY SessionsParts DEF Present, bounds
<1>2. ticket[k] # Nil /\ ticket[k] \in Ticket /\ k \in issued
  BY SessionsParts DEF Present, TicketsType
<1>3. ticket[k].user \in People
  BY <1>2 DEF Ticket
<1>4. PICK op \in {"verify", "complete"} : Start(q, op, "find", ticket[k].user, k, Nil, Nil)
  BY DEF Present
<1>5. /\ conn' = [conn EXCEPT ![q] = conn'[q]] /\ conn'[q] \in Conn
      /\ conn'[q].op = op /\ conn'[q].at = "find" /\ conn'[q].ticket = k /\ conn'[q].age = 0
  <2> DEFINE u == ticket[k].user
  <2>1. u \in People /\ Start(q, op, "find", u, k, Nil, Nil)
    BY <1>3, <1>4
  <2> HIDE DEF u
  <2>2. op \in Ops /\ "find" \in Places
    BY DEF Ops, Places
  <2>. QED BY <1>1, <2>1, <2>2, StartFacts
<1>6. WellRead(conn'[q], issued')
  BY <1>1, <1>2, <1>5, SessionsAssumption DEF WellRead
<1>7. ConnsType'
  BY <1>1, <1>5, <1>6, ConnMoves
<1>. QED BY <1>7, OnlyConns DEF Present

LEMMA StartEnableType ==
  ASSUME SessionsTypeOK, NEW q \in Conns, NEW u \in People, StartEnable(q, u)
  PROVE  SessionsTypeOK'
<1>1. ConnsType /\ issued' = issued
  BY SessionsParts DEF StartEnable, bounds
<1>2. pending[u] \in Pending
  BY SessionsParts DEF StartEnable, PendingType
<1>3. pending[u].secret \in Secrets /\ pending[u].secret # Nil
  BY <1>2, SessionsAssumption DEF Pending
<1>4. Start(q, "enable", "write", u, Nil, Nil, pending[u].secret)
  BY DEF StartEnable
<1>5. /\ conn' = [conn EXCEPT ![q] = conn'[q]] /\ conn'[q] \in Conn
      /\ conn'[q].op = "enable" /\ conn'[q].secret = pending[u].secret /\ conn'[q].age = 0
      /\ conn'[q].at = "write"
  <2> DEFINE s == pending[u].secret
  <2>1. s \in Secrets /\ Start(q, "enable", "write", u, Nil, Nil, s)
    BY <1>3, <1>4
  <2>2. "enable" \in Ops /\ "write" \in Places
    BY DEF Ops, Places
  <2> HIDE DEF s
  <2>3. /\ conn' = [conn EXCEPT ![q] = conn'[q]] /\ conn'[q] \in Conn
        /\ conn'[q].op = "enable" /\ conn'[q].secret = s /\ conn'[q].age = 0
        /\ conn'[q].at = "write"
    BY <1>1, <2>1, <2>2, StartFacts
  <2>. QED BY <2>3 DEF s
<1>6. WellRead(conn'[q], issued')
  BY <1>3, <1>5, SessionsAssumption DEF WellRead
<1>7. ConnsType'
  BY <1>1, <1>5, <1>6, ConnMoves
<1>. QED BY <1>7, OnlyConns DEF StartEnable

LEMMA PresentRefreshType ==
  ASSUME SessionsTypeOK, NEW q \in Conns, NEW u \in People, PresentRefresh(q, u)
  PROVE  SessionsTypeOK'
<1>1. ConnsType /\ issued' = issued
  BY SessionsParts DEF PresentRefresh, bounds
<1>2. Start(q, "refresh", "find", u, Nil, Nil, Nil)
  BY DEF PresentRefresh
<1>3. /\ conn' = [conn EXCEPT ![q] = conn'[q]] /\ conn'[q] \in Conn
      /\ conn'[q].op = "refresh" /\ conn'[q].at = "find" /\ conn'[q].age = 0
  BY <1>1, <1>2, StartFacts DEF Ops, Places
<1>4. WellRead(conn'[q], issued')
  BY <1>3, SessionsAssumption DEF WellRead
<1>5. ConnsType'
  BY <1>1, <1>3, <1>4, ConnMoves
<1>. QED BY <1>5, OnlyConns DEF PresentRefresh

LEMMA FindType ==
  ASSUME SessionsTypeOK, NEW q \in Conns, Find(q)
  PROVE  SessionsTypeOK'
<1>1. ConnsType /\ issued' = issued /\ conn[q] # Nil
  BY SessionsParts DEF Find, bounds, IsAt
<1> DEFINE p == person[conn[q].user]
<1>2. p.role \in PanelRoles /\ p.role # Nil /\ p.secret \in Secrets \cup {Nil}
  BY <1>1, ConnFacts, PersonFacts, SessionsParts
<1>3. \/ conn[q].op = "verify" /\ GoOn(q, "code", p.role, p.secret)
      \/ conn[q].op = "complete" /\ GoOn(q, "pending", p.role, Nil)
  BY DEF Find, IsAt
<1> HIDE DEF p
<1>4. PICK place \in {"code", "pending"}, s \in Secrets \cup {Nil} : GoOn(q, place, p.role, s)
  BY <1>2, <1>3
<1>5. /\ conn' = [conn EXCEPT ![q] = conn'[q]] /\ conn'[q] \in Conn
      /\ WellRead(conn[q], issued)
      /\ conn'[q].op = conn[q].op /\ conn'[q].at = place
      /\ conn'[q].ticket = conn[q].ticket
      /\ conn'[q].role = p.role /\ conn'[q].age = conn[q].age
  BY <1>1, <1>2, <1>4, GoOnFacts DEF Places
<1>6. WellRead(conn'[q], issued')
  BY <1>1, <1>2, <1>5 DEF WellRead
<1>7. ConnsType'
  BY <1>1, <1>5, <1>6, ConnMoves
<1>. QED BY <1>7, OnlyConns DEF Find

LEMMA GetPendingType ==
  ASSUME SessionsTypeOK, NEW q \in Conns, GetPending(q)
  PROVE  SessionsTypeOK'
<1>1. ConnsType /\ issued' = issued /\ conn[q] # Nil /\ conn[q].at = "pending" /\ conn[q].op = "complete"
  BY SessionsParts DEF GetPending, bounds, IsAt
<1>2. conn[q].user \in People /\ conn[q].role \in PanelRoles \cup {Nil}
  BY <1>1, ConnFacts
<1>3. pending[conn[q].user] \in Pending
  BY <1>2, SessionsParts DEF GetPending, PendingType
<1> DEFINE s == pending[conn[q].user].secret
<1>4. s \in Secrets /\ s # Nil
  BY <1>3, SessionsAssumption DEF Pending
<1>5. GoOn(q, "write", conn[q].role, s)
  BY DEF GetPending
<1> HIDE DEF s
<1>6. /\ conn' = [conn EXCEPT ![q] = conn'[q]] /\ conn'[q] \in Conn
      /\ WellRead(conn[q], issued)
      /\ conn'[q].op = conn[q].op /\ conn'[q].at = "write" /\ conn'[q].ticket = conn[q].ticket
      /\ conn'[q].role = conn[q].role /\ conn'[q].secret = s /\ conn'[q].age = conn[q].age
  BY <1>1, <1>2, <1>4, <1>5, GoOnFacts DEF Places
<1>7. WellRead(conn'[q], issued')
  BY <1>1, <1>4, <1>6 DEF WellRead
<1>8. ConnsType'
  BY <1>1, <1>6, <1>7, ConnMoves
<1>. QED BY <1>8, OnlyConns DEF GetPending

LEMMA GiveUpType ==
  ASSUME SessionsTypeOK, NEW q \in Conns, GiveUp(q)
  PROVE  SessionsTypeOK'
<1>1. ConnsType /\ issued' = issued /\ Leave(q)
  BY SessionsParts DEF GiveUp, bounds
<1>2. ConnsType'
  BY <1>1, LeaveType
<1>. QED BY <1>2, OnlyConns DEF GiveUp

LEMMA IssueTicketType ==
  ASSUME SessionsTypeOK, NEW q \in Conns, NEW k \in Tickets, IssueTicket(q, k)
  PROVE  SessionsTypeOK'
<1>1. ConnsType /\ issued' = issued \cup {k} /\ conn[q] # Nil /\ Leave(q)
  BY SessionsParts DEF IssueTicket, IsAt
<1> DEFINE e == [user |-> conn[q].user, kind |-> IF conn[q].secret = Nil THEN "setup" ELSE "mfa",
                 age |-> 0]
<1>2. conn[q].user \in People
  BY <1>1, ConnFacts
<1>3. e \in Ticket /\ e.age = 0 /\ e.kind \in Kinds
  BY <1>2 DEF Ticket, Kinds
<1>4. ticket' = [ticket EXCEPT ![k] = e]
  BY DEF IssueTicket
<1> HIDE DEF e
<1>5. TicketLife[e.kind] \in Nat
  BY <1>3, SessionsAssumption
<1>6. TicketsType'
  <2>1. TicketsType
    BY SessionsParts
  <2>2. \A j \in Tickets : ticket'[j] = IF j = k THEN e ELSE ticket[j]
    BY <1>4, <2>1 DEF TicketsType
  <2>3. issued' \subseteq Tickets /\ ticket' \in [Tickets -> Ticket \cup {Nil}]
    BY <1>1, <1>3, <1>4, <2>1 DEF TicketsType
  <2>4. \A j \in Tickets : ticket'[j] # Nil =>
          j \in issued' /\ ticket'[j].age <= TicketLife[ticket'[j].kind]
    BY <1>1, <1>3, <1>5, <2>1, <2>2 DEF TicketsType
  <2>. QED BY <2>3, <2>4 DEF TicketsType
<1>7. ConnsType'
  BY <1>1, LeaveType
<1>8. HistoryType'
  BY <1>1, SessionsParts DEF IssueTicket, history, HistoryType
<1>9. PendingType' /\ AccessType' /\ CountsType' /\ person' \in [People -> Person]
  BY SessionsParts, PendingStands, AccessStands, CountsStand DEF IssueTicket
<1>. QED BY <1>6, <1>7, <1>8, <1>9, SessionsPartsNext

LEMMA ProposeType ==
  ASSUME SessionsTypeOK, NEW u \in People, Propose(u)
  PROVE  SessionsTypeOK'
<1>1. PICK s \in Secrets : pending' = [pending EXCEPT ![u] = [secret |-> s, age |-> 0]]
  BY DEF Propose
<1> DEFINE e == [secret |-> s, age |-> 0]
<1>2. e \in Pending /\ e.age = 0
  BY DEF Pending
<1>3. pending' = [pending EXCEPT ![u] = e]
  BY <1>1
<1> HIDE DEF e
<1>4. PendingType'
  BY <1>2, <1>3, SessionsParts, SessionsAssumption DEF PendingType
<1>5. UNCHANGED <<person, ticket, refresh, access, conn, bounds, history>>
  BY DEF Propose
<1>. QED BY <1>4, <1>5, SessionsParts, SessionsPartsNext, TicketsStand, AccessStands, ConnsStand,
            CountsStand, HistoryStands DEF bounds, history
LEMMA WithSecretType ==
  ASSUME person \in [People -> Person], NEW u \in People, NEW s \in Secrets \cup {Nil}, WithSecret(u, s)
  PROVE  /\ person' \in [People -> Person]
         /\ person'[u].status = person[u].status /\ person'[u].role = person[u].role
         /\ person'[u].secret = s
         /\ \A v \in People : v # u => person'[v] = person[v]
<1> DEFINE e == [status |-> person[u].status, role |-> person[u].role, secret |-> s]
<1>1. e \in Person
  BY PersonFacts DEF Person
<1>2. person' = [person EXCEPT ![u] = e]
  BY DEF WithSecret
<1>3. e.status = person[u].status /\ e.role = person[u].role /\ e.secret = s
  OBVIOUS
<1> HIDE DEF e
<1>. QED BY <1>1, <1>2, <1>3

LEMMA EnrolType ==
  ASSUME SessionsTypeOK, NEW q \in Conns, conn[q] # Nil, Enrol(q)
  PROVE  person' \in [People -> Person] /\ PendingType'
<1>1. conn[q].user \in People /\ conn[q].secret \in Secrets \cup {Nil}
  BY SessionsParts, ConnFacts
<1>2. WithSecret(conn[q].user, conn[q].secret) /\ pending' = [pending EXCEPT ![conn[q].user] = Nil]
  BY DEF Enrol
<1>3. person' \in [People -> Person]
  BY <1>1, <1>2, WithSecretType, SessionsParts
<1>4. PendingType'
  BY <1>1, <1>2, SessionsParts DEF PendingType
<1>. QED BY <1>3, <1>4

LEMMA EnableType ==
  ASSUME SessionsTypeOK, NEW q \in Conns, EnableTOTP(q)
  PROVE  SessionsTypeOK'
<1>1. conn[q] # Nil /\ Enrol(q) /\ Leave(q) /\ UNCHANGED <<ticket, refresh, access, bounds, history>>
  BY DEF EnableTOTP, IsAt
<1>2. person' \in [People -> Person] /\ PendingType'
  BY <1>1, EnrolType
<1>3. ConnsType'
  BY <1>1, SessionsParts, LeaveType DEF bounds
<1>. QED BY <1>1, <1>2, <1>3, SessionsParts, SessionsPartsNext, TicketsStand, AccessStands, CountsStand,
            HistoryStands DEF bounds, history

\* What OpenSession does to each of the things it changes.
LEMMA OpenFacts ==
  ASSUME SessionsTypeOK, NEW q \in Conns, conn[q] # Nil, conn[q].op \in {"verify", "complete"},
         conn[q].role # Nil, OpenSession(q), issued' = issued
  PROVE  /\ conn[q].ticket \in issued /\ conn[q].ticket \in Tickets
         /\ conn[q].user \in People /\ conn[q].role \in PanelRoles
         /\ ticket' \in {ticket, [ticket EXCEPT ![conn[q].ticket] = Nil]}
         /\ shared' \in {shared, shared \cup {conn[q].ticket}}
         /\ opened' = opened \cup {conn[q].ticket}
         /\ conn' = [conn EXCEPT ![q] = Nil]
         /\ TicketsType' /\ AccessType' /\ ConnsType'
         /\ refresh' \in [People -> 0..MaxSessions] /\ lost' \in 0..MaxLost
<1>1. WellRead(conn[q], issued) /\ conn[q].user \in People /\ conn[q].role \in PanelRoles
  BY SessionsParts, ConnFacts
<1>2. conn[q].ticket \in issued /\ conn[q].ticket \in Tickets
  BY <1>1, SessionsParts DEF WellRead, TicketsType
<1>3. ticket' \in {ticket, [ticket EXCEPT ![conn[q].ticket] = Nil]}
  BY DEF OpenSession
<1>4. shared' \in {shared, shared \cup {conn[q].ticket}}
  BY DEF OpenSession
<1>5. opened' = opened \cup {conn[q].ticket} /\ Leave(q)
  BY DEF OpenSession
<1>6. TicketsType'
  BY <1>2, <1>3, SessionsParts DEF TicketsType
<1>7. ConnsType'
  BY <1>5, SessionsParts, LeaveType
<1>8. AccessType'
  <2> DEFINE a == [user |-> conn[q].user, role |-> conn[q].role, age |-> 0]
  <2>1. a \in Access /\ a.age = 0
    BY <1>1 DEF Access
  <2>2. access' = access \cup {a}
    BY DEF OpenSession
  <2> HIDE DEF a
  <2>. QED BY <2>1, <2>2, SessionsParts, SessionsAssumption DEF AccessType
<1>9. refresh' \in [People -> 0..MaxSessions]
  <2>1. refresh \in [People -> 0..MaxSessions] /\ MaxSessions \in Nat
    BY SessionsParts, SessionsAssumption DEF CountsType
  <2>2. refresh[conn[q].user] < MaxSessions
    BY DEF OpenSession
  <2>3. refresh' = [refresh EXCEPT ![conn[q].user] = @ + 1]
    BY DEF OpenSession
  <2>. QED BY <1>1, <2>1, <2>2, <2>3
<1>10. lost' \in 0..MaxLost
  <2>1. lost' = lost \/ (lost < MaxLost /\ lost' = lost + 1)
    BY DEF OpenSession
  <2>. QED BY <2>1, SessionsParts, SessionsAssumption DEF CountsType
<1>11. conn' = [conn EXCEPT ![q] = Nil]
  BY <1>5 DEF Leave
<1>. QED BY <1>1, <1>2, <1>3, <1>4, <1>5, <1>6, <1>7, <1>8, <1>9, <1>10, <1>11

LEMMA OpenHistory ==
  ASSUME SessionsTypeOK, NEW k \in issued, opened' = opened \cup {k}, shared' \in {shared, shared \cup {k}},
         UNCHANGED <<issued, since, enrolled>>
  PROVE  HistoryType'
BY SessionsParts DEF HistoryType

LEMMA CountsNext ==
  ASSUME SessionsTypeOK, refresh' \in [People -> 0..MaxSessions], lost' \in 0..MaxLost, edits' = edits
  PROVE  CountsType'
BY SessionsParts DEF CountsType

LEMMA VerifyType ==
  ASSUME SessionsTypeOK, NEW q \in Conns, VerifyTOTP(q)
  PROVE  SessionsTypeOK'
<1>1. /\ conn[q] # Nil /\ conn[q].op = "verify" /\ conn[q].at = "code" /\ OpenSession(q)
      /\ UNCHANGED <<person, pending, issued, edits, since, enrolled>>
  BY DEF VerifyTOTP, IsAt
<1>2. conn[q].role # Nil
  BY <1>1, SessionsParts, ConnFacts DEF WellRead
<1>3. HistoryType' /\ CountsType' /\ TicketsType' /\ AccessType' /\ ConnsType'
  BY <1>1, <1>2, OpenFacts, OpenHistory, CountsNext
<1>. QED BY <1>1, <1>3, SessionsParts, SessionsPartsNext, PendingStands

LEMMA CompleteType ==
  ASSUME SessionsTypeOK, NEW q \in Conns, CompleteTOTPSetup(q)
  PROVE  SessionsTypeOK'
<1>1. /\ conn[q] # Nil /\ conn[q].op = "complete" /\ conn[q].at = "write" /\ Enrol(q) /\ OpenSession(q)
      /\ UNCHANGED <<issued, edits, since, enrolled>>
  BY DEF CompleteTOTPSetup, IsAt
<1>2. conn[q].role # Nil
  BY <1>1, SessionsParts, ConnFacts DEF WellRead
<1>3. HistoryType' /\ CountsType' /\ TicketsType' /\ AccessType' /\ ConnsType'
  BY <1>1, <1>2, OpenFacts, OpenHistory, CountsNext
<1>4. person' \in [People -> Person] /\ PendingType'
  BY <1>1, EnrolType
<1>. QED BY <1>3, <1>4, SessionsPartsNext

LEMMA RefreshType ==
  ASSUME SessionsTypeOK, NEW q \in Conns, Refresh(q)
  PROVE  SessionsTypeOK'
<1>1. /\ conn[q] # Nil /\ Leave(q)
      /\ UNCHANGED <<person, ticket, pending, refresh, bounds, history>>
  BY DEF Refresh, IsAt
<1> DEFINE a == [user |-> conn[q].user, role |-> person[conn[q].user].role, age |-> 0]
<1>2. a \in Access /\ a.age = 0
  BY <1>1, SessionsParts, ConnFacts, PersonFacts DEF Access
<1>3. access' = access \cup {a}
  BY DEF Refresh
<1> HIDE DEF a
<1>4. AccessType'
  BY <1>2, <1>3, SessionsParts, SessionsAssumption DEF AccessType
<1>5. ConnsType'
  BY <1>1, SessionsParts, LeaveType DEF bounds
<1>. QED BY <1>1, <1>4, <1>5, SessionsParts, SessionsPartsNext, TicketsStand, PendingStands, CountsStand,
            HistoryStands DEF bounds, history

LEMMA LogoutType ==
  ASSUME SessionsTypeOK, NEW u \in People, Logout(u)
  PROVE  SessionsTypeOK'
<1>1. /\ refresh[u] > 0 /\ refresh' = [refresh EXCEPT ![u] = @ - 1]
      /\ UNCHANGED <<person, ticket, pending, access, conn, bounds, history>>
  BY DEF Logout
<1>2. refresh' \in [People -> 0..MaxSessions]
  BY <1>1, SessionsParts, SessionsAssumption DEF CountsType
<1>3. CountsType'
  BY <1>1, <1>2, SessionsParts DEF CountsType, bounds
<1>. QED BY <1>1, <1>3, SessionsParts, SessionsPartsNext, TicketsStand, PendingStands, AccessStands,
            ConnsStand, HistoryStands DEF bounds, history

LEMMA EvictType ==
  ASSUME SessionsTypeOK, (\E k \in Tickets : EvictTicket(k)) \/ (\E u \in People : EvictPending(u))
  PROVE  SessionsTypeOK'
<1>1. ASSUME NEW k \in Tickets, EvictTicket(k)
      PROVE  SessionsTypeOK'
  <2>1. /\ ticket' = [ticket EXCEPT ![k] = Nil]
        /\ UNCHANGED <<person, pending, refresh, access, conn, bounds, history>>
    BY <1>1 DEF EvictTicket
  <2>2. TicketsType'
    BY <2>1, SessionsParts DEF TicketsType, bounds
  <2>. QED BY <2>1, <2>2, SessionsParts, SessionsPartsNext, PendingStands, AccessStands, ConnsStand,
              CountsStand, HistoryStands DEF bounds, history
<1>2. ASSUME NEW u \in People, EvictPending(u)
      PROVE  SessionsTypeOK'
  <2>1. /\ pending' = [pending EXCEPT ![u] = Nil]
        /\ UNCHANGED <<person, ticket, refresh, access, conn, bounds, history>>
    BY <1>2 DEF EvictPending
  <2>2. PendingType'
    BY <2>1, SessionsParts DEF PendingType
  <2>. QED BY <2>1, <2>2, SessionsParts, SessionsPartsNext, TicketsStand, AccessStands, ConnsStand,
              CountsStand, HistoryStands DEF bounds, history
<1>. QED BY <1>1, <1>2

\* What the administrators change, and the histories with it.
LEMMA EditFacts ==
  ASSUME SessionsTypeOK, NEW u \in People, NEW new \in Person, Edit(u, new)
  PROVE  /\ SessionsTypeOK'
         /\ person' = [person EXCEPT ![u] = new]
         /\ \A g \in Grants : since'[g] \in {0, since[g]} /\ (Entitled(person', g[1], g[2]) =>
                                since'[g] = 0 \/ (since'[g] = since[g] /\ Entitled(person, g[1], g[2])))
         /\ \A v \in People : enrolled'[v] \in {0, enrolled[v]} /\ (person'[v].secret = Nil =>
                                enrolled'[v] = 0 \/ (enrolled'[v] = enrolled[v] /\ person[v].secret = Nil))
<1>1. /\ edits < MaxEdits /\ edits' = edits + 1 /\ person' = [person EXCEPT ![u] = new]
      /\ UNCHANGED <<ticket, pending, refresh, access, conn, issued, lost, opened, shared>>
  BY DEF Edit
<1>2. person \in [People -> Person] /\ person' \in [People -> Person]
  BY <1>1, SessionsParts
<1>3. CountsType'
  BY <1>1, SessionsParts, SessionsAssumption DEF CountsType
<1>4. \A g \in Grants : since'[g] = IF g[1] = u /\ (Entitled(person, u, g[2]) \/ Entitled(person', u, g[2]))
                                    THEN 0 ELSE since[g]
  BY DEF Edit
<1>5. enrolled' = [enrolled EXCEPT ![u] = IF new.secret = Nil THEN 0 ELSE @]
  BY DEF Edit
<1>6. /\ since \in [Grants -> 0..(AccessBound + 1)] /\ enrolled \in [People -> 0..(EnrolBound + 1)]
      /\ AccessBound + 1 \in Nat /\ EnrolBound + 1 \in Nat
  BY SessionsParts, SessionBounds DEF HistoryType
<1>7. since' \in [Grants -> 0..(AccessBound + 1)]
  BY <1>4, <1>6 DEF Edit
<1>8. enrolled' \in [People -> 0..(EnrolBound + 1)]
  BY <1>5, <1>6
<1>9. HistoryType'
  BY <1>1, <1>7, <1>8, SessionsParts DEF HistoryType
<1>10. \A g \in Grants : since'[g] \in {0, since[g]} /\ (Entitled(person', g[1], g[2]) =>
                                since'[g] = 0 \/ (since'[g] = since[g] /\ Entitled(person, g[1], g[2])))
  <2>1. SUFFICES ASSUME NEW g \in Grants
                 PROVE  since'[g] \in {0, since[g]} /\ (Entitled(person', g[1], g[2]) =>
                          since'[g] = 0 \/ (since'[g] = since[g] /\ Entitled(person, g[1], g[2])))
    OBVIOUS
  <2>2. CASE g[1] = u
    BY <1>4, <2>2
  <2>3. CASE g[1] # u
    <3>1. g[1] \in People
      BY DEF Grants
    <3>2. person'[g[1]] = person[g[1]]
      BY <1>1, <1>2, <2>3, <3>1
    <3>3. Entitled(person', g[1], g[2]) <=> Entitled(person, g[1], g[2])
      BY <3>2 DEF Entitled
    <3>. QED BY <1>4, <2>3, <3>3
  <2>. QED BY <2>2, <2>3
<1>11. \A v \in People : enrolled'[v] \in {0, enrolled[v]} /\ (person'[v].secret = Nil =>
                                enrolled'[v] = 0 \/ (enrolled'[v] = enrolled[v] /\ person[v].secret = Nil))
  BY <1>1, <1>2, <1>5, <1>6
<1>12. SessionsTypeOK'
  BY <1>1, <1>2, <1>3, <1>9, SessionsParts, SessionsPartsNext, TicketsStand, PendingStands, AccessStands,
     ConnsStand
<1>. QED BY <1>1, <1>10, <1>11, <1>12

\* Each change is one of these.
LEMMA EditNew ==
  ASSUME SessionsTypeOK, NEW u \in People,
         \/ AdminResetTOTP(u)
         \/ \E st \in {"active", "inactive", "deleted"} : SetStatus(u, st)
         \/ \E r \in PanelRoles : SetPanelRole(u, r)
  PROVE  \E new \in Person : Edit(u, new)
<1>1. /\ person[u].status \in {"active", "inactive", "deleted"}
      /\ person[u].role \in PanelRoles /\ person[u].secret \in Secrets \cup {Nil}
  BY SessionsParts, PersonFacts
<1>2. ASSUME AdminResetTOTP(u)
      PROVE  \E new \in Person : Edit(u, new)
  <2>1. [status |-> person[u].status, role |-> person[u].role, secret |-> Nil] \in Person
    BY <1>1 DEF Person
  <2>. QED BY <1>2, <2>1 DEF AdminResetTOTP
<1>3. ASSUME NEW st \in {"active", "inactive", "deleted"}, SetStatus(u, st)
      PROVE  \E new \in Person : Edit(u, new)
  <2>1. [status |-> st, role |-> person[u].role, secret |-> person[u].secret] \in Person
    BY <1>1 DEF Person
  <2>. QED BY <1>3, <2>1 DEF SetStatus
<1>4. ASSUME NEW r \in PanelRoles, SetPanelRole(u, r)
      PROVE  \E new \in Person : Edit(u, new)
  <2>1. [status |-> person[u].status, role |-> r, secret |-> person[u].secret] \in Person
    BY <1>1 DEF Person
  <2>. QED BY <1>4, <2>1 DEF SetPanelRole
<1>. QED BY <1>2, <1>3, <1>4
\* Time passes: what a request, a ticket and an access token are afterwards.
LEMMA TickConn ==
  ASSUME ConnsType, Tick, NEW q \in Conns
  PROVE  \/ conn[q] = Nil /\ conn'[q] = Nil
         \/ /\ conn[q] # Nil /\ conn'[q] # Nil /\ conn[q] \in Conn /\ conn'[q] \in Conn
            /\ WellRead(conn[q], issued) /\ conn[q].age < MaxConnAge
            /\ conn'[q].op = conn[q].op /\ conn'[q].at = conn[q].at /\ conn'[q].user = conn[q].user
            /\ conn'[q].ticket = conn[q].ticket /\ conn'[q].role = conn[q].role
            /\ conn'[q].secret = conn[q].secret /\ conn'[q].age = conn[q].age + 1
<1> DEFINE c == conn[q]
           d == Waited(c)
<1>1. CASE c = Nil
  BY <1>1 DEF Tick
<1>2. CASE c # Nil
  <2>1. c \in Conn /\ WellRead(c, issued) /\ c.age < MaxConnAge
    BY <1>2 DEF ConnsType, Tick
  <2>2. conn'[q] = d
    BY <1>2 DEF Tick
  <2>3. d \in Conn
    BY <2>1 DEF Conn, Waited
  <2>4. /\ d.op = c.op /\ d.at = c.at /\ d.user = c.user /\ d.ticket = c.ticket
        /\ d.role = c.role /\ d.secret = c.secret /\ d.age = c.age + 1
    BY DEF Waited
  <2> HIDE DEF d
  <2>. QED BY <1>2, <2>1, <2>2, <2>3, <2>4, SessionsAssumption
<1>. QED BY <1>1, <1>2

LEMMA TickTicket ==
  ASSUME TicketsType, Tick, NEW k \in Tickets
  PROVE  \/ ticket'[k] = Nil
         \/ /\ ticket[k] # Nil /\ ticket[k] \in Ticket /\ ticket'[k] \in Ticket /\ ticket'[k] # Nil
            /\ ticket'[k].user = ticket[k].user /\ ticket'[k].kind = ticket[k].kind
            /\ ticket'[k].age = ticket[k].age + 1 /\ ticket'[k].age <= TicketLife[ticket[k].kind]
<1> DEFINE e == ticket[k]
           d == Older(e)
<1>1. ticket'[k] = IF Lives(e) THEN d ELSE Nil
  BY DEF Tick
<1>2. CASE ~Lives(e)
  BY <1>1, <1>2
<1>3. CASE Lives(e)
  <2>1. e # Nil /\ e \in Ticket /\ e.age < TicketLife[e.kind]
    BY <1>3 DEF Lives, TicketsType
  <2>2. e.kind \in Kinds /\ e.age \in Nat /\ e.user \in People
    BY <2>1 DEF Ticket
  <2>3. TicketLife[e.kind] \in Nat
    BY <2>2, SessionsAssumption
  <2>4. d \in Ticket
    BY <2>2 DEF Ticket, Older
  <2>5. d.user = e.user /\ d.kind = e.kind /\ d.age = e.age + 1
    BY DEF Older
  <2>6. ticket'[k] = d
    BY <1>1, <1>3
  <2> HIDE DEF d
  <2>. QED BY <2>1, <2>2, <2>3, <2>4, <2>5, <2>6, SessionsAssumption
<1>. QED BY <1>2, <1>3

LEMMA TickAccess ==
  ASSUME AccessType, Tick, NEW b \in access'
  PROVE  b \in Access /\ \E a \in access : /\ a.user = b.user /\ a.role = b.role
                                           /\ b.age = a.age + 1 /\ a.age < AccessLife
<1>1. access' = {[user |-> a.user, role |-> a.role, age |-> a.age + 1] :
                   a \in {c \in access : c.age < AccessLife}}
  BY DEF Tick
<1>2. PICK a \in access : a.age < AccessLife /\ b = [user |-> a.user, role |-> a.role, age |-> a.age + 1]
  BY <1>1
<1>3. a \in Access
  BY DEF AccessType
<1>4. b \in Access
  BY <1>2, <1>3 DEF Access
<1>. QED BY <1>2, <1>4

LEMMA TickHistory ==
  ASSUME HistoryType, Tick
  PROVE  /\ since' \in [Grants -> 0..(AccessBound + 1)] /\ enrolled' \in [People -> 0..(EnrolBound + 1)]
         /\ \A g \in Grants : since'[g] <= since[g] + 1 /\ (Entitled(person, g[1], g[2]) => since'[g] = 0)
         /\ \A u \in People : enrolled'[u] <= enrolled[u] + 1 /\ (person[u].secret = Nil => enrolled'[u] = 0)
<1>1. AccessBound \in Nat /\ EnrolBound \in Nat
  BY SessionBounds
<1>2. ASSUME NEW g \in Grants
      PROVE  /\ since'[g] \in 0..(AccessBound + 1) /\ since'[g] <= since[g] + 1
             /\ (Entitled(person, g[1], g[2]) => since'[g] = 0)
  <2>1. since[g] \in 0..(AccessBound + 1)
    BY DEF HistoryType
  <2>2. since'[g] = IF Entitled(person, g[1], g[2]) THEN 0 ELSE Later(since[g], AccessBound)
    BY DEF Tick
  <2>. QED BY <1>1, <2>1, <2>2 DEF Later
<1>3. ASSUME NEW u \in People
      PROVE  /\ enrolled'[u] \in 0..(EnrolBound + 1) /\ enrolled'[u] <= enrolled[u] + 1
             /\ (person[u].secret = Nil => enrolled'[u] = 0)
  <2>1. enrolled[u] \in 0..(EnrolBound + 1)
    BY DEF HistoryType
  <2>2. enrolled'[u] = IF person[u].secret = Nil THEN 0 ELSE Later(enrolled[u], EnrolBound)
    BY DEF Tick
  <2>. QED BY <1>1, <2>1, <2>2 DEF Later
<1>4. since' \in [Grants -> 0..(AccessBound + 1)] /\ enrolled' \in [People -> 0..(EnrolBound + 1)]
  BY <1>2, <1>3 DEF Tick
<1>. QED BY <1>2, <1>3, <1>4

LEMMA TickType ==
  ASSUME SessionsTypeOK, Tick
  PROVE  SessionsTypeOK'
<1>1. UNCHANGED <<person, refresh, bounds, opened, shared>>
  BY DEF Tick
<1>2. issued' = issued /\ edits' = edits /\ lost' = lost /\ opened' = opened /\ shared' = shared
  BY <1>1 DEF bounds
<1>3. TicketsType'
  <2>1. TicketsType
    BY SessionsParts
  <2>2. ticket' \in [Tickets -> Ticket \cup {Nil}]
    BY <2>1, TickTicket DEF Tick
  <2>3. \A k \in Tickets : ticket'[k] # Nil => k \in issued' /\ ticket'[k].age <= TicketLife[ticket'[k].kind]
    BY <1>2, <2>1, TickTicket DEF TicketsType
  <2>. QED BY <1>2, <2>1, <2>2, <2>3 DEF TicketsType
<1>4. PendingType'
  <2>1. ASSUME NEW u \in People
        PROVE  /\ pending'[u] \in Pending \cup {Nil}
               /\ pending'[u] # Nil => pending'[u].age <= PendingLife
    <3> DEFINE e == [secret |-> pending[u].secret, age |-> pending[u].age + 1]
    <3>1. pending'[u] = IF pending[u] # Nil /\ pending[u].age < PendingLife THEN e ELSE Nil
      BY DEF Tick
    <3>2. ASSUME pending[u] # Nil, pending[u].age < PendingLife
          PROVE  e \in Pending /\ e.age <= PendingLife
      <4>1. pending[u] \in Pending
        BY <3>2, SessionsParts DEF PendingType
      <4>. QED BY <3>2, <4>1, SessionsAssumption DEF Pending
    <3> HIDE DEF e
    <3>. QED BY <3>1, <3>2
  <2>2. pending' \in [People -> Pending \cup {Nil}]
    BY <2>1 DEF Tick
  <2>. QED BY <2>1, <2>2 DEF PendingType
<1>5. AccessType'
  <2>1. ASSUME NEW b \in access'
        PROVE  b \in Access /\ b.age <= AccessLife
    <3>1. PICK a \in access : b.age = a.age + 1 /\ a.age < AccessLife
      BY SessionsParts, TickAccess
    <3>2. a.age \in Nat
      BY SessionsParts DEF AccessType, Access
    <3>. QED BY <3>1, <3>2, SessionsParts, TickAccess, SessionsAssumption
  <2>. QED BY <2>1 DEF AccessType
<1>6. ConnsType'
  <2>1. ConnsType
    BY SessionsParts
  <2>2. conn' \in [Conns -> Conn \cup {Nil}]
    BY <2>1, TickConn DEF Tick
  <2>3. ASSUME NEW q \in Conns, conn'[q] # Nil
        PROVE  WellRead(conn'[q], issued')
    <3>1. /\ conn[q] # Nil /\ conn[q].age \in Nat /\ WellRead(conn[q], issued) /\ conn[q].age < MaxConnAge
      BY <2>1, <2>3, TickConn, ConnFacts
    <3>2. /\ conn'[q].op = conn[q].op /\ conn'[q].at = conn[q].at
          /\ conn'[q].ticket = conn[q].ticket /\ conn'[q].role = conn[q].role
          /\ conn'[q].secret = conn[q].secret /\ conn'[q].age = conn[q].age + 1
      BY <2>1, <2>3, TickConn
    <3>. QED BY <1>2, <3>1, <3>2, SessionsAssumption DEF WellRead
  <2>. QED BY <2>2, <2>3 DEF ConnsType, WellRead
<1>7. CountsType'
  BY <1>1, <1>2, SessionsParts, CountsStand
<1>8. HistoryType'
  BY <1>2, SessionsParts, TickHistory DEF HistoryType
<1>. QED BY <1>1, <1>3, <1>4, <1>5, <1>6, <1>7, <1>8, SessionsParts, SessionsPartsNext

LEMMA SessionsStepType ==
  ASSUME SessionsTypeOK, [SessionsNext]_sessionsVars
  PROVE  SessionsTypeOK'
<1>1. CASE UNCHANGED sessionsVars
  BY <1>1, SessionsParts, SessionsPartsNext, TicketsStand, PendingStands, AccessStands, ConnsStand,
     CountsStand, HistoryStands DEF sessionsVars
<1>2. ASSUME NEW u \in People, SetupTOTPForLogin(u) \/ SetupTOTP(u)
      PROVE  SessionsTypeOK'
  BY <1>2, ProposeType DEF SetupTOTPForLogin, SetupTOTP
<1>3. ASSUME NEW u \in People,
             \/ AdminResetTOTP(u)
             \/ \E st \in {"active", "inactive", "deleted"} : SetStatus(u, st)
             \/ \E r \in PanelRoles : SetPanelRole(u, r)
      PROVE  SessionsTypeOK'
  BY <1>3, EditNew, EditFacts
<1>. QED BY <1>1, <1>2, <1>3, LoginType, StartEnableType, PresentRefreshType, IssueTicketType, PresentType,
            FindType, GetPendingType, EnableType, VerifyType, CompleteType, RefreshType, GiveUpType,
            LogoutType, EvictType, TickType DEF SessionsNext

LEMMA SessionsInitType == SessionsInit => SessionsTypeOK
<1>. SUFFICES ASSUME SessionsInit PROVE SessionsTypeOK
  OBVIOUS
<1>1. person \in [People -> Person]
  BY DEF SessionsInit, Person
<1>2. TicketsType /\ PendingType /\ AccessType /\ ConnsType
  BY DEF SessionsInit, TicketsType, PendingType, AccessType, ConnsType
<1>3. CountsType
  BY SessionsAssumption DEF SessionsInit, CountsType
<1>4. AccessBound + 1 \in Nat /\ EnrolBound + 1 \in Nat
  BY SessionBounds
<1>5. HistoryType
  BY <1>4 DEF SessionsInit, HistoryType
<1>. QED BY <1>1, <1>2, <1>3, <1>5, SessionsParts

\* The state keeps its kinds, every key its lifetime, and a request has read what
\* it goes by before it gets there: for any users, tickets and requests.
THEOREM SessionsTypeCorrect == SessionsSpec => []SessionsTypeOK
BY SessionsInitType, SessionsStepType, PTL DEF SessionsSpec
-----------------------------------------------------------------------------
\* The argument.  A role in a request was the user's no longer ago than the request
\* has taken, and one in an access token no longer than that and the token's age;
\* what a login may do for want of a second factor, it may as long as its request
\* and its ticket last.  A ticket that has served and was closed to all others is
\* gone, and no request holds it.  (s is the history since, e is enrolled.)
RowsRight(p, s, e) ==
  /\ \A g \in Grants : Entitled(p, g[1], g[2]) => s[g] = 0
  /\ \A u \in People : p[u].secret = Nil => e[u] = 0

Token(a, s) == s[<<a.user, a.role>>] <= a.age + MaxConnAge

SetupFor(t, e) == t.kind = "setup" => e[t.user] <= t.age + MaxConnAge

Backed(c, s, e) ==
  /\ c.role # Nil => s[<<c.user, c.role>>] <= c.age
  /\ c.op = "login" /\ c.secret = Nil => e[c.user] <= c.age
  /\ c.op = "complete" => e[c.user] <= c.age + (TicketLife["setup"] + MaxConnAge)

Spent == opened \ shared

SessionsInv ==
  /\ RowsRight(person, since, enrolled)
  /\ \A a \in access : Token(a, since)
  /\ \A k \in Tickets : ticket[k] # Nil => SetupFor(ticket[k], enrolled) /\ k \notin Spent
  /\ \A q \in Conns : conn[q] # Nil => Backed(conn[q], since, enrolled) /\ conn[q].ticket \notin Spent

LEMMA SessionsInvNext ==
  SessionsInv' <=>
    /\ RowsRight(person', since', enrolled')
    /\ \A a \in access' : Token(a, since')
    /\ \A k \in Tickets : ticket'[k] # Nil => SetupFor(ticket'[k], enrolled') /\ k \notin Spent'
    /\ \A q \in Conns : conn'[q] # Nil => Backed(conn'[q], since', enrolled') /\ conn'[q].ticket \notin Spent'
BY DEF SessionsInv, RowsRight, Token, SetupFor, Backed, Entitled

LEMMA SpentTickets == SessionsTypeOK => Spent \subseteq issued /\ Spent \subseteq Tickets /\ Nil \notin Spent
BY SessionsParts, SessionsAssumption DEF HistoryType, TicketsType, Spent

LEMMA HistoryNat ==
  SessionsTypeOK => since \in [Grants -> Nat] /\ enrolled \in [People -> Nat]
<1>1. AccessBound + 1 \in Nat /\ EnrolBound + 1 \in Nat
  BY SessionBounds
<1>2. \A n \in Nat : 0..n \subseteq Nat
  OBVIOUS
<1>. QED BY <1>1, <1>2, SessionsParts DEF HistoryType

\* A step of one request, or the end of a key, that no history tells of.
TokensRight(new) == \A a \in new : a \in access \/ Token(a, since)

TicketsRight(new) == \A k \in Tickets : \/ new[k] \in {Nil, ticket[k]}
                                        \/ SetupFor(new[k], enrolled) /\ k \notin Spent

ConnsRight(new) == \A q \in Conns : \/ new[q] \in {Nil, conn[q]}
                                    \/ Backed(new[q], since, enrolled) /\ new[q].ticket \notin Spent

LEMMA Quiet ==
  ASSUME SessionsInv, UNCHANGED history, RowsRight(person', since, enrolled),
         TokensRight(access'), TicketsRight(ticket'), ConnsRight(conn')
  PROVE  SessionsInv'
<1>1. since' = since /\ enrolled' = enrolled /\ Spent' = Spent
  BY DEF history, Spent
<1>2. \A p \in Conns : conn'[p] # Nil => Backed(conn'[p], since, enrolled) /\ conn'[p].ticket \notin Spent
  BY DEF SessionsInv, ConnsRight
<1>3. \A k \in Tickets : ticket'[k] # Nil => SetupFor(ticket'[k], enrolled) /\ k \notin Spent
  BY DEF SessionsInv, TicketsRight
<1>4. \A a \in access' : Token(a, since)
  BY DEF SessionsInv, TokensRight
<1>. QED BY <1>1, <1>2, <1>3, <1>4, SessionsInvNext

LEMMA ConnInv ==
  ASSUME SessionsTypeOK, SessionsInv, UNCHANGED <<person, ticket, access, history>>,
         NEW q \in Conns, conn' = [conn EXCEPT ![q] = conn'[q]],
         Backed(conn'[q], since, enrolled), conn'[q].ticket \notin Spent
  PROVE  SessionsInv'
<1>1. ConnsRight(conn')
  <2>1. \A p \in Conns : p # q => conn'[p] = conn[p]
    BY SessionsParts DEF ConnsType
  <2>. QED BY <2>1 DEF ConnsRight
<1>2. TokensRight(access') /\ TicketsRight(ticket')
  BY DEF TokensRight, TicketsRight
<1>3. RowsRight(person', since, enrolled)
  BY DEF SessionsInv
<1>. QED BY <1>1, <1>2, <1>3, Quiet

LEMMA LoginInv ==
  ASSUME SessionsTypeOK, SessionsInv, NEW q \in Conns, NEW u \in People, Login(q, u)
  PROVE  SessionsInv'
<1> DEFINE s == person[u].secret
<1>1. ConnsType /\ s \in Secrets \cup {Nil}
  BY SessionsParts, PersonFacts
<1>2. Start(q, "login", "hash", u, Nil, Nil, s)
  BY DEF Login
<1>3. s = Nil => enrolled[u] = 0
  BY DEF SessionsInv, RowsRight
<1> HIDE DEF s
<1>4. /\ conn' = [conn EXCEPT ![q] = conn'[q]]
      /\ conn'[q].op = "login" /\ conn'[q].user = u /\ conn'[q].ticket = Nil
      /\ conn'[q].role = Nil /\ conn'[q].secret = s /\ conn'[q].age = 0
  <2>1. "login" \in Ops /\ "hash" \in Places
    BY DEF Ops, Places
  <2>. QED BY <1>1, <1>2, <2>1, StartFacts
<1>5. Backed(conn'[q], since, enrolled) /\ conn'[q].ticket \notin Spent
  BY <1>3, <1>4, SpentTickets DEF Backed
<1>6. UNCHANGED <<person, ticket, access, history>>
  BY DEF Login
<1>. QED BY <1>4, <1>5, <1>6, ConnInv

LEMMA StartInv ==
  ASSUME SessionsTypeOK, SessionsInv, NEW q \in Conns, NEW u \in People, StartEnable(q, u) \/ PresentRefresh(q, u)
  PROVE  SessionsInv'
<1>1. ConnsType
  BY SessionsParts
<1>2. PICK op \in {"enable", "refresh"}, place \in Places, s \in Secrets \cup {Nil} :
        Start(q, op, place, u, Nil, Nil, s)
  <2>1. CASE StartEnable(q, u)
    <3>1. pending[u] \in Pending
      BY <2>1, SessionsParts DEF StartEnable, PendingType
    <3>2. pending[u].secret \in Secrets
      BY <3>1 DEF Pending
    <3>. QED BY <2>1, <3>2 DEF StartEnable, Places
  <2>2. CASE PresentRefresh(q, u)
    BY <2>2 DEF PresentRefresh, Places
  <2>. QED BY <2>1, <2>2
<1>3. op \in Ops /\ op # "login" /\ op # "complete"
  BY DEF Ops
<1>4. /\ conn' = [conn EXCEPT ![q] = conn'[q]]
      /\ conn'[q].op = op /\ conn'[q].user = u /\ conn'[q].ticket = Nil
      /\ conn'[q].role = Nil
  BY <1>1, <1>2, <1>3, StartFacts
<1>5. Backed(conn'[q], since, enrolled) /\ conn'[q].ticket \notin Spent
  BY <1>3, <1>4, SpentTickets DEF Backed
<1>6. UNCHANGED <<person, ticket, access, history>>
  BY DEF StartEnable, PresentRefresh
<1>. QED BY <1>4, <1>5, <1>6, ConnInv

LEMMA PresentInv ==
  ASSUME SessionsTypeOK, SessionsInv, NEW q \in Conns, NEW k \in Tickets, Present(q, k)
  PROVE  SessionsInv'
<1>1. ConnsType
  BY SessionsParts
<1> DEFINE t == ticket[k]
           op == IF t.kind = "mfa" THEN "verify" ELSE "complete"
           u == t.user
<1>2. /\ t # Nil /\ t \in Ticket /\ t.age <= TicketLife[t.kind]
  BY SessionsParts DEF Present, TicketsType
<1>3. u \in People /\ t.kind \in Kinds /\ t.age \in Nat
  BY <1>2 DEF Ticket
<1>4. Start(q, op, "find", u, k, Nil, Nil)
  BY DEF Present
<1>5. op \in Ops /\ "find" \in Places /\ op # "login"
  BY DEF Ops, Places
<1>6. op = "complete" => enrolled[u] <= 0 + (TicketLife["setup"] + MaxConnAge)
  <2>1. SUFFICES ASSUME op = "complete" PROVE enrolled[u] <= 0 + (TicketLife["setup"] + MaxConnAge)
    OBVIOUS
  <2>2. t.kind = "setup"
    BY <1>3, <2>1 DEF Kinds
  <2>3. enrolled[u] <= t.age + MaxConnAge
    BY <1>2, <2>2 DEF SessionsInv, SetupFor
  <2>4. enrolled[u] \in Nat /\ TicketLife["setup"] \in Nat /\ MaxConnAge \in Nat /\ t.age <= TicketLife["setup"]
    BY <1>2, <1>3, <2>2, HistoryNat, SessionsAssumption DEF Kinds
  <2>. QED BY <1>3, <2>3, <2>4
<1>7. k \notin Spent
  BY <1>2 DEF SessionsInv
<1> HIDE DEF op, u
<1>8. /\ conn' = [conn EXCEPT ![q] = conn'[q]]
      /\ conn'[q].op = op /\ conn'[q].user = u /\ conn'[q].ticket = k
      /\ conn'[q].role = Nil /\ conn'[q].age = 0
  BY <1>1, <1>3, <1>4, <1>5, StartFacts
<1>9. Backed(conn'[q], since, enrolled) /\ conn'[q].ticket \notin Spent
  BY <1>5, <1>6, <1>7, <1>8 DEF Backed
<1>10. UNCHANGED <<person, ticket, access, history>>
  BY DEF Present
<1>. QED BY <1>8, <1>9, <1>10, ConnInv

LEMMA FindInv ==
  ASSUME SessionsTypeOK, SessionsInv, NEW q \in Conns, Find(q)
  PROVE  SessionsInv'
<1>1. ConnsType /\ conn[q] # Nil
  BY SessionsParts DEF Find, IsAt
<1>2. conn[q].user \in People /\ conn[q].age \in Nat
  BY <1>1, ConnFacts
<1> DEFINE p == person[conn[q].user]
<1>3. p.role \in PanelRoles /\ p.secret \in Secrets \cup {Nil}
  BY <1>2, PersonFacts, SessionsParts
<1>4. Entitled(person, conn[q].user, p.role)
  BY DEF Find, Entitled
<1>5. since[<<conn[q].user, p.role>>] = 0
  BY <1>2, <1>3, <1>4 DEF SessionsInv, RowsRight, Grants
<1>6. \/ conn[q].op = "verify" /\ GoOn(q, "code", p.role, p.secret)
      \/ conn[q].op = "complete" /\ GoOn(q, "pending", p.role, Nil)
  BY DEF Find, IsAt
<1> HIDE DEF p
<1>7. PICK place \in {"code", "pending"}, s \in Secrets \cup {Nil} : GoOn(q, place, p.role, s)
  BY <1>3, <1>6
<1>8. /\ conn' = [conn EXCEPT ![q] = conn'[q]]
      /\ conn'[q].op = conn[q].op /\ conn'[q].user = conn[q].user /\ conn'[q].ticket = conn[q].ticket
      /\ conn'[q].role = p.role /\ conn'[q].age = conn[q].age
  BY <1>1, <1>3, <1>7, GoOnFacts DEF Places
<1>9. Backed(conn[q], since, enrolled) /\ conn[q].ticket \notin Spent
  BY <1>1 DEF SessionsInv
<1>10. Backed(conn'[q], since, enrolled) /\ conn'[q].ticket \notin Spent
  BY <1>2, <1>5, <1>6, <1>8, <1>9 DEF Backed
<1>11. UNCHANGED <<person, ticket, access, history>>
  BY DEF Find
<1>. QED BY <1>8, <1>10, <1>11, ConnInv

LEMMA GetPendingInv ==
  ASSUME SessionsTypeOK, SessionsInv, NEW q \in Conns, GetPending(q)
  PROVE  SessionsInv'
<1>1. ConnsType /\ conn[q] # Nil /\ conn[q].op = "complete"
  BY SessionsParts DEF GetPending, IsAt
<1>2. conn[q].user \in People /\ conn[q].role \in PanelRoles \cup {Nil}
  BY <1>1, ConnFacts
<1>3. pending[conn[q].user] \in Pending
  BY <1>2, SessionsParts DEF GetPending, PendingType
<1> DEFINE s == pending[conn[q].user].secret
<1>4. s \in Secrets
  BY <1>3 DEF Pending
<1>5. GoOn(q, "write", conn[q].role, s)
  BY DEF GetPending
<1> HIDE DEF s
<1>6. /\ conn' = [conn EXCEPT ![q] = conn'[q]]
      /\ conn'[q].op = conn[q].op /\ conn'[q].user = conn[q].user /\ conn'[q].ticket = conn[q].ticket
      /\ conn'[q].role = conn[q].role /\ conn'[q].age = conn[q].age
  BY <1>1, <1>2, <1>4, <1>5, GoOnFacts DEF Places
<1>7. Backed(conn[q], since, enrolled) /\ conn[q].ticket \notin Spent
  BY <1>1 DEF SessionsInv
<1>8. Backed(conn'[q], since, enrolled) /\ conn'[q].ticket \notin Spent
  BY <1>1, <1>6, <1>7 DEF Backed
<1>9. UNCHANGED <<person, ticket, access, history>>
  BY DEF GetPending
<1>. QED BY <1>6, <1>8, <1>9, ConnInv

LEMMA IssueInv ==
  ASSUME SessionsTypeOK, SessionsInv, NEW q \in Conns, NEW k \in Tickets, IssueTicket(q, k)
  PROVE  SessionsInv'
<1>1. /\ conn[q] # Nil /\ conn[q].op = "login" /\ k \notin issued /\ conn' = [conn EXCEPT ![q] = Nil]
      /\ UNCHANGED <<person, access, history>>
  BY DEF IssueTicket, IsAt, Leave
<1> DEFINE e == [user |-> conn[q].user, kind |-> IF conn[q].secret = Nil THEN "setup" ELSE "mfa",
                 age |-> 0]
<1>2. e.user = conn[q].user /\ e.age = 0 /\ (e.kind = "setup" => conn[q].secret = Nil)
  OBVIOUS
<1>3. ticket' = [ticket EXCEPT ![k] = e]
  BY DEF IssueTicket
<1> HIDE DEF e
<1>4. conn[q].secret = Nil => enrolled[conn[q].user] <= conn[q].age
  BY <1>1 DEF SessionsInv, Backed
<1>5. enrolled[conn[q].user] \in Nat /\ conn[q].age \in Nat /\ conn[q].age <= MaxConnAge
  BY <1>1, SessionsParts, ConnFacts, HistoryNat
<1>6. SetupFor(e, enrolled) /\ k \notin Spent
  BY <1>1, <1>2, <1>4, <1>5, SpentTickets, SessionsAssumption DEF SetupFor
<1>7. \A j \in Tickets : ticket'[j] = IF j = k THEN e ELSE ticket[j]
  BY <1>3, SessionsParts DEF TicketsType
<1>8. TicketsRight(ticket')
  BY <1>6, <1>7 DEF TicketsRight
<1>9. RowsRight(person', since, enrolled)
  BY <1>1 DEF SessionsInv
<1>10. TokensRight(access')
  BY <1>1 DEF TokensRight
<1>11. ConnsRight(conn')
  BY <1>1, SessionsParts DEF ConnsRight, ConnsType
<1>. QED BY <1>1, <1>8, <1>9, <1>10, <1>11, Quiet
\* A request that ends.
LEMMA Ended ==
  ASSUME SessionsTypeOK, NEW q \in Conns, Leave(q) \/ UNCHANGED conn
  PROVE  ConnsRight(conn')
BY SessionsParts DEF Leave, ConnsRight, ConnsType

LEMMA RowsStayRight ==
  ASSUME SessionsTypeOK, SessionsInv, NEW u \in People, NEW s \in Secrets, WithSecret(u, s)
  PROVE  RowsRight(person', since, enrolled)
<1>1. /\ person' \in [People -> Person]
      /\ person'[u].status = person[u].status /\ person'[u].role = person[u].role
      /\ person'[u].secret = s
      /\ \A v \in People : v # u => person'[v] = person[v]
  BY SessionsParts, WithSecretType
<1>2. s # Nil
  BY SessionsAssumption
<1>3. \A v \in People : \A r : Entitled(person', v, r) => Entitled(person, v, r)
  BY <1>1 DEF Entitled
<1>4. \A v \in People : person'[v].secret = Nil => person[v].secret = Nil
  BY <1>1, <1>2
<1>5. \A g \in Grants : g[1] \in People
  BY DEF Grants
<1>. QED BY <1>3, <1>4, <1>5 DEF SessionsInv, RowsRight

LEMMA EnableInv ==
  ASSUME SessionsTypeOK, SessionsInv, NEW q \in Conns, EnableTOTP(q)
  PROVE  SessionsInv'
<1>1. /\ conn[q] # Nil /\ conn[q].at = "write" /\ WithSecret(conn[q].user, conn[q].secret) /\ Leave(q)
      /\ UNCHANGED <<ticket, access, history>>
  BY DEF EnableTOTP, IsAt, Enrol
<1>2. conn[q].user \in People /\ conn[q].secret \in Secrets
  BY <1>1, SessionsParts, ConnFacts DEF WellRead
<1>3. RowsRight(person', since, enrolled)
  BY <1>1, <1>2, RowsStayRight
<1>4. ConnsRight(conn') /\ TokensRight(access') /\ TicketsRight(ticket')
  BY <1>1, Ended DEF TokensRight, TicketsRight
<1>. QED BY <1>1, <1>3, <1>4, Quiet

LEMMA RefreshInv ==
  ASSUME SessionsTypeOK, SessionsInv, NEW q \in Conns, Refresh(q)
  PROVE  SessionsInv'
<1>1. conn[q] # Nil /\ Leave(q) /\ UNCHANGED <<person, ticket, history>>
  BY DEF Refresh, IsAt
<1> DEFINE u == conn[q].user
           a == [user |-> u, role |-> person[u].role, age |-> 0]
<1>2. u \in People /\ person[u].role \in PanelRoles
  BY <1>1, SessionsParts, ConnFacts, PersonFacts
<1>3. Entitled(person, u, person[u].role)
  BY DEF Refresh, Entitled
<1>4. since[<<u, person[u].role>>] = 0
  BY <1>2, <1>3 DEF SessionsInv, RowsRight, Grants
<1>5. Token(a, since)
  BY <1>4, SessionsAssumption DEF Token
<1>6. access' = access \cup {a}
  BY DEF Refresh
<1> HIDE DEF a
<1>7. TokensRight(access')
  BY <1>5, <1>6 DEF TokensRight
<1>8. ConnsRight(conn') /\ TicketsRight(ticket') /\ RowsRight(person', since, enrolled)
  BY <1>1, Ended DEF TicketsRight, SessionsInv
<1>. QED BY <1>1, <1>7, <1>8, Quiet

LEMMA OtherInv ==
  ASSUME SessionsTypeOK, SessionsInv,
         \/ \E q \in Conns : GiveUp(q)
         \/ \E u \in People : Propose(u) \/ Logout(u) \/ EvictPending(u)
         \/ \E k \in Tickets : EvictTicket(k)
  PROVE  SessionsInv'
<1>1. UNCHANGED <<person, access, history>>
  BY DEF GiveUp, Propose, Logout, EvictPending, EvictTicket
<1>2. TokensRight(access') /\ RowsRight(person', since, enrolled)
  BY <1>1 DEF TokensRight, SessionsInv
<1>3. TicketsRight(ticket')
  BY SessionsParts DEF GiveUp, Propose, Logout, EvictPending, EvictTicket, TicketsRight, TicketsType
<1>4. ConnsRight(conn')
  <2>1. (\E q \in Conns : Leave(q)) \/ UNCHANGED conn
    BY DEF GiveUp, Propose, Logout, EvictPending, EvictTicket
  <2>2. UNCHANGED conn => ConnsRight(conn')
    BY DEF ConnsRight
  <2>. QED BY <2>1, <2>2, Ended
<1>. QED BY <1>1, <1>2, <1>3, <1>4, Quiet

\* A session opens: its role is the one the request has read, and its ticket is
\* closed to the others unless it is one of those in shared.
LEMMA OpenInv ==
  ASSUME SessionsTypeOK, SessionsInv, NEW q \in Conns, conn[q] # Nil, conn[q].op \in {"verify", "complete"},
         conn[q].role # Nil, OpenSession(q), UNCHANGED <<issued, since, enrolled>>,
         RowsRight(person', since, enrolled)
  PROVE  SessionsInv'
<1> DEFINE k == conn[q].ticket
<1>1. /\ k \in Tickets /\ conn[q].user \in People /\ conn[q].role \in PanelRoles
      /\ ticket' \in {ticket, [ticket EXCEPT ![k] = Nil]}
      /\ shared' \in {shared, shared \cup {k}} /\ opened' = opened \cup {k}
      /\ conn' = [conn EXCEPT ![q] = Nil]
  BY OpenFacts
<1>2. /\ Backed(conn[q], since, enrolled) /\ k \notin Spent
      /\ conn[q].age \in Nat /\ conn[q].age <= MaxConnAge
  BY SessionsParts, ConnFacts DEF SessionsInv
<1> DEFINE a == [user |-> conn[q].user, role |-> conn[q].role, age |-> 0]
<1>3. since[<<conn[q].user, conn[q].role>>] <= conn[q].age
  BY <1>2 DEF Backed
<1>4. since[<<conn[q].user, conn[q].role>>] \in Nat
  BY <1>1, HistoryNat DEF Grants
<1>5. Token(a, since)
  BY <1>2, <1>3, <1>4, SessionsAssumption DEF Token
<1>6. access' = access \cup {a}
  BY DEF OpenSession
<1> HIDE DEF a
<1>7. \A b \in access' : Token(b, since)
  BY <1>5, <1>6 DEF SessionsInv
<1>8. \/ Spent' \subseteq Spent
      \/ /\ Spent' \subseteq Spent \cup {k}
         /\ ticket' = [ticket EXCEPT ![k] = Nil] /\ Holders(q) = {}
  <2>1. \/ k \in shared' /\ Spent' \subseteq Spent
        \/ /\ ticket' = [ticket EXCEPT ![k] = Nil] /\ Holders(q) = {}
           /\ shared' = shared
    BY <1>1 DEF OpenSession, Spent
  <2>. QED BY <1>1, <2>1 DEF Spent
<1>9. \A j \in Tickets : ticket'[j] # Nil => SetupFor(ticket'[j], enrolled) /\ j \notin Spent'
  <2>1. \A j \in Tickets : ticket'[j] # Nil => ticket'[j] = ticket[j]
    BY <1>1, SessionsParts DEF TicketsType
  <2>2. ticket' = [ticket EXCEPT ![k] = Nil] => ticket'[k] = Nil
    BY <1>1, SessionsParts DEF TicketsType
  <2>. QED BY <1>8, <2>1, <2>2 DEF SessionsInv
<1>10. \A p \in Conns : conn'[p] # Nil => Backed(conn'[p], since, enrolled) /\ conn'[p].ticket \notin Spent'
  <2>1. ASSUME NEW p \in Conns, conn'[p] # Nil
        PROVE  p # q /\ conn'[p] = conn[p]
    BY <1>1, <2>1, SessionsParts DEF ConnsType
  <2>2. ASSUME NEW p \in Conns, conn'[p] # Nil, Holders(q) = {}
        PROVE  conn[p].ticket # k
    BY <2>1, <2>2 DEF Holders
  <2>. QED BY <1>8, <2>1, <2>2 DEF SessionsInv
<1>. QED BY <1>7, <1>9, <1>10, SessionsInvNext

LEMMA VerifyInv ==
  ASSUME SessionsTypeOK, SessionsInv, NEW q \in Conns, VerifyTOTP(q)
  PROVE  SessionsInv'
<1>1. /\ conn[q] # Nil /\ conn[q].op = "verify" /\ conn[q].at = "code" /\ OpenSession(q)
      /\ UNCHANGED <<person, issued, since, enrolled>>
  BY DEF VerifyTOTP, IsAt
<1>2. conn[q].role # Nil
  BY <1>1, SessionsParts, ConnFacts DEF WellRead
<1>3. RowsRight(person', since, enrolled)
  BY <1>1 DEF SessionsInv
<1>. QED BY <1>1, <1>2, <1>3, OpenInv

LEMMA CompleteInv ==
  ASSUME SessionsTypeOK, SessionsInv, NEW q \in Conns, CompleteTOTPSetup(q)
  PROVE  SessionsInv'
<1>1. /\ conn[q] # Nil /\ conn[q].op = "complete" /\ conn[q].at = "write" /\ OpenSession(q)
      /\ WithSecret(conn[q].user, conn[q].secret)
      /\ UNCHANGED <<issued, since, enrolled>>
  BY DEF CompleteTOTPSetup, IsAt, Enrol
<1>2. conn[q].role # Nil /\ conn[q].user \in People /\ conn[q].secret \in Secrets
  BY <1>1, SessionsParts, ConnFacts DEF WellRead
<1>3. RowsRight(person', since, enrolled)
  BY <1>1, <1>2, RowsStayRight
<1>. QED BY <1>1, <1>2, <1>3, OpenInv
LEMMA EditInv ==
  ASSUME SessionsTypeOK, SessionsInv, NEW u \in People, NEW new \in Person, Edit(u, new)
  PROVE  SessionsInv'
<1>1. /\ \A g \in Grants : since'[g] \in {0, since[g]} /\ (Entitled(person', g[1], g[2]) =>
                                since'[g] = 0 \/ (since'[g] = since[g] /\ Entitled(person, g[1], g[2])))
      /\ \A v \in People : enrolled'[v] \in {0, enrolled[v]} /\ (person'[v].secret = Nil =>
                                enrolled'[v] = 0 \/ (enrolled'[v] = enrolled[v] /\ person[v].secret = Nil))
  BY EditFacts
<1>2. access' = access /\ ticket' = ticket /\ conn' = conn /\ Spent' = Spent
  BY DEF Edit, Spent
<1>3. RowsRight(person', since', enrolled')
  BY <1>1 DEF SessionsInv, RowsRight
<1>4. ASSUME NEW a \in access PROVE Token(a, since')
  <2>1. a \in Access /\ Token(a, since)
    BY SessionsParts DEF AccessType, SessionsInv
  <2>2. <<a.user, a.role>> \in Grants /\ a.age \in Nat
    BY <2>1 DEF Access, Grants
  <2>. QED BY <1>1, <2>1, <2>2, SessionsAssumption DEF Token
<1>5. ASSUME NEW k \in Tickets, ticket[k] # Nil PROVE SetupFor(ticket[k], enrolled')
  <2>1. ticket[k] \in Ticket /\ SetupFor(ticket[k], enrolled)
    BY <1>5, SessionsParts DEF TicketsType, SessionsInv
  <2>2. ticket[k].user \in People /\ ticket[k].age \in Nat
    BY <2>1 DEF Ticket
  <2>. QED BY <1>1, <2>1, <2>2, SessionsAssumption DEF SetupFor
<1>6. ASSUME NEW q \in Conns, conn[q] # Nil PROVE Backed(conn[q], since', enrolled')
  <2>1. Backed(conn[q], since, enrolled)
    BY <1>6 DEF SessionsInv
  <2>2. /\ conn[q].user \in People /\ conn[q].role \in PanelRoles \cup {Nil} /\ conn[q].age \in Nat
    BY <1>6, SessionsParts, ConnFacts
  <2>3. conn[q].role # Nil => <<conn[q].user, conn[q].role>> \in Grants
    BY <2>2 DEF Grants
  <2>4. TicketLife["setup"] + MaxConnAge \in Nat
    BY SessionsAssumption DEF Kinds
  <2>5. enrolled'[conn[q].user] \in {0, enrolled[conn[q].user]}
    BY <1>1, <2>2
  <2>6. conn[q].role # Nil =>
          since'[<<conn[q].user, conn[q].role>>] \in {0, since[<<conn[q].user, conn[q].role>>]}
    BY <1>1, <2>3
  <2>. QED BY <2>1, <2>2, <2>4, <2>5, <2>6 DEF Backed
<1>. QED BY <1>2, <1>3, <1>4, <1>5, <1>6, SessionsInvNext DEF SessionsInv

LEMMA TickInv ==
  ASSUME SessionsTypeOK, SessionsInv, Tick
  PROVE  SessionsInv'
<1>1. /\ \A g \in Grants : since'[g] <= since[g] + 1 /\ (Entitled(person, g[1], g[2]) => since'[g] = 0)
      /\ \A u \in People : enrolled'[u] <= enrolled[u] + 1 /\ (person[u].secret = Nil => enrolled'[u] = 0)
  BY SessionsParts, TickHistory
<1>2. /\ \A g \in Grants : since[g] \in Nat /\ since'[g] \in Nat
      /\ \A u \in People : enrolled[u] \in Nat /\ enrolled'[u] \in Nat
  <2>1. SessionsTypeOK'
    BY TickType
  <2>2. since' \in [Grants -> 0..(AccessBound + 1)] /\ enrolled' \in [People -> 0..(EnrolBound + 1)]
    BY <2>1, SessionsPartsNext DEF HistoryType
  <2>3. AccessBound + 1 \in Nat /\ EnrolBound + 1 \in Nat
    BY SessionBounds
  <2>4. \A n \in Nat : 0..n \subseteq Nat
    OBVIOUS
  <2>. QED BY <2>2, <2>3, <2>4, HistoryNat
<1>3. person' = person /\ Spent' = Spent
  BY DEF Tick, Spent
<1>4. RowsRight(person', since', enrolled')
  BY <1>1, <1>3 DEF RowsRight
<1>5. ASSUME NEW b \in access' PROVE Token(b, since')
  <2>1. PICK a \in access : a.user = b.user /\ a.role = b.role /\ b.age = a.age + 1
    BY SessionsParts, TickAccess
  <2>2. a \in Access /\ Token(a, since)
    BY SessionsParts DEF AccessType, SessionsInv
  <2>3. <<a.user, a.role>> \in Grants /\ a.age \in Nat
    BY <2>2 DEF Access, Grants
  <2>4. since[<<a.user, a.role>>] <= a.age + MaxConnAge
    BY <2>2 DEF Token
  <2>5. since'[<<a.user, a.role>>] <= b.age + MaxConnAge
    BY <1>1, <1>2, <2>1, <2>3, <2>4, SessionsAssumption
  <2>. QED BY <2>1, <2>5 DEF Token
<1>6. ASSUME NEW k \in Tickets, ticket'[k] # Nil PROVE SetupFor(ticket'[k], enrolled') /\ k \notin Spent'
  <2>1. /\ ticket[k] # Nil /\ ticket[k] \in Ticket
        /\ ticket'[k].user = ticket[k].user /\ ticket'[k].kind = ticket[k].kind
        /\ ticket'[k].age = ticket[k].age + 1
    BY <1>6, SessionsParts, TickTicket
  <2>2. SetupFor(ticket[k], enrolled) /\ k \notin Spent
    BY <2>1 DEF SessionsInv
  <2>3. ticket[k].user \in People /\ ticket[k].age \in Nat
    BY <2>1 DEF Ticket
  <2>. QED BY <1>1, <1>2, <1>3, <2>1, <2>2, <2>3, SessionsAssumption DEF SetupFor
<1>7. ASSUME NEW q \in Conns, conn'[q] # Nil
      PROVE  Backed(conn'[q], since', enrolled') /\ conn'[q].ticket \notin Spent'
  <2>1. /\ conn[q] # Nil
        /\ conn'[q].op = conn[q].op /\ conn'[q].user = conn[q].user
        /\ conn'[q].ticket = conn[q].ticket /\ conn'[q].role = conn[q].role
        /\ conn'[q].secret = conn[q].secret /\ conn'[q].age = conn[q].age + 1
    BY <1>7, SessionsParts, TickConn
  <2>2. Backed(conn[q], since, enrolled) /\ conn[q].ticket \notin Spent
    BY <2>1 DEF SessionsInv
  <2>3. /\ conn[q].user \in People /\ conn[q].role \in PanelRoles \cup {Nil} /\ conn[q].age \in Nat
    BY <2>1, SessionsParts, ConnFacts
  <2>4. conn[q].role # Nil => <<conn[q].user, conn[q].role>> \in Grants
    BY <2>3 DEF Grants
  <2> DEFINE n == TicketLife["setup"] + MaxConnAge
             h == since[<<conn[q].user, conn[q].role>>]
             i == since'[<<conn[q].user, conn[q].role>>]
             e == enrolled[conn[q].user]
             f == enrolled'[conn[q].user]
  <2>5. n \in Nat
    BY SessionsAssumption DEF Kinds
  <2>6. conn[q].role # Nil => h \in Nat /\ i \in Nat /\ i <= h + 1
    BY <1>1, <1>2, <2>4
  <2>7. e \in Nat /\ f \in Nat /\ f <= e + 1
    BY <1>1, <1>2, <2>3
  <2>8. /\ conn[q].role # Nil => h <= conn[q].age
        /\ conn[q].op = "login" /\ conn[q].secret = Nil => e <= conn[q].age
        /\ conn[q].op = "complete" => e <= conn[q].age + n
    BY <2>2 DEF Backed
  <2> HIDE DEF n, h, i, e, f
  <2>9. /\ conn[q].role # Nil => i <= conn[q].age + 1
        /\ conn[q].op = "login" /\ conn[q].secret = Nil => f <= conn[q].age + 1
        /\ conn[q].op = "complete" => f <= (conn[q].age + 1) + n
    BY <2>3, <2>5, <2>6, <2>7, <2>8
  <2>10. Backed(conn'[q], since', enrolled')
    BY <2>1, <2>9 DEF Backed, n, i, f
  <2>. QED BY <1>3, <2>1, <2>2, <2>10
<1>. QED BY <1>4, <1>5, <1>6, <1>7, SessionsInvNext

LEMMA SessionsStepInv ==
  ASSUME SessionsTypeOK, SessionsInv, [SessionsNext]_sessionsVars
  PROVE  SessionsInv'
<1>1. CASE UNCHANGED sessionsVars
  <2>1. /\ person' = person /\ since' = since /\ enrolled' = enrolled /\ access' = access
        /\ ticket' = ticket /\ conn' = conn /\ Spent' = Spent
    BY <1>1 DEF sessionsVars, Spent
  <2>. QED BY <2>1, SessionsInvNext DEF SessionsInv
<1>2. ASSUME NEW u \in People, SetupTOTPForLogin(u) \/ SetupTOTP(u)
      PROVE  SessionsInv'
  BY <1>2, OtherInv DEF SetupTOTPForLogin, SetupTOTP
<1>3. ASSUME NEW u \in People,
             \/ AdminResetTOTP(u)
             \/ \E st \in {"active", "inactive", "deleted"} : SetStatus(u, st)
             \/ \E r \in PanelRoles : SetPanelRole(u, r)
      PROVE  SessionsInv'
  BY <1>3, EditNew, EditInv
<1>4. ASSUME NEW q \in Conns, GiveUp(q) PROVE SessionsInv'
  BY <1>4, OtherInv
<1>5. ASSUME NEW u \in People, Logout(u) \/ EvictPending(u) PROVE SessionsInv'
  BY <1>5, OtherInv
<1>6. ASSUME NEW k \in Tickets, EvictTicket(k) PROVE SessionsInv'
  BY <1>6, OtherInv
<1>. QED BY <1>1, <1>2, <1>3, <1>4, <1>5, <1>6, LoginInv, StartInv, IssueInv, PresentInv, FindInv,
            GetPendingInv, EnableInv, VerifyInv, CompleteInv, RefreshInv, TickInv DEF SessionsNext

LEMMA SessionsInitInv == SessionsInit => SessionsInv
<1>. SUFFICES ASSUME SessionsInit PROVE SessionsInv
  OBVIOUS
<1>1. RowsRight(person, since, enrolled)
  BY DEF SessionsInit, RowsRight
<1>. QED BY <1>1 DEF SessionsInit, SessionsInv

\* A role outlives its withdrawal, a user his deactivation, by an access token and
\* one request at most, whatever logins, refreshes and enrolments are under way.
THEOREM AccessCorrect == SessionsSpec => []AccessRecent
<1>1. SessionsInit => SessionsTypeOK /\ SessionsInv
  BY SessionsInitType, SessionsInitInv
<1>2. SessionsTypeOK /\ SessionsInv /\ [SessionsNext]_sessionsVars => SessionsTypeOK' /\ SessionsInv'
  BY SessionsStepType, SessionsStepInv
<1>3. SessionsTypeOK /\ SessionsInv => AccessRecent
  <2>1. SUFFICES ASSUME SessionsTypeOK, SessionsInv, NEW g \in Grants,
                        NEW a \in access, a.user = g[1], a.role = g[2]
                 PROVE  since[g] <= AccessBound
    BY DEF AccessRecent, May
  <2>2. a \in Access /\ a.age <= AccessLife /\ Token(a, since)
    BY <2>1, SessionsParts DEF AccessType, SessionsInv
  <2>3. g = <<a.user, a.role>> /\ a.age \in Nat
    BY <2>1, <2>2 DEF Grants, Access
  <2>4. since[g] <= a.age + MaxConnAge /\ since[g] \in Nat
    BY <2>1, <2>2, <2>3, HistoryNat DEF Token
  <2>. QED BY <2>2, <2>3, <2>4, SessionsAssumption DEF AccessBound
<1>. QED BY <1>1, <1>2, <1>3, PTL DEF SessionsSpec

\* A ticket opens no second session unless its DEL was lost or came after another
\* request had read it.
THEOREM TicketCorrect == SessionsSpec => TicketOpensOnce
<1>1. SessionsInit => SessionsTypeOK /\ SessionsInv
  BY SessionsInitType, SessionsInitInv
<1>2. SessionsTypeOK /\ SessionsInv /\ [SessionsNext]_sessionsVars => SessionsTypeOK' /\ SessionsInv'
  BY SessionsStepType, SessionsStepInv
<1>3. SessionsTypeOK /\ SessionsInv =>
        [\A q \in Conns :
           LET c == conn[q]
           IN  c # Nil /\ c.ticket \in opened /\ conn'[q] = Nil /\ refresh'[c.user] > refresh[c.user]
                 => c.ticket \in shared]_sessionsVars
  BY DEF SessionsInv, Spent
<1>. QED BY <1>1, <1>2, <1>3, PTL DEF SessionsSpec, TicketOpensOnce

\* What changes a secret and opens a session is the end of an enrolment.
LEMMA OpensAndEnrols ==
  ASSUME SessionsTypeOK, [SessionsNext]_sessionsVars, NEW u \in People,
         refresh'[u] > refresh[u], person'[u].secret # person[u].secret
  PROVE  \E q \in Conns : CompleteTOTPSetup(q) /\ conn[q].user = u
<1>1. refresh \in [People -> 0..MaxSessions] /\ MaxSessions \in Nat
  BY SessionsParts, SessionsAssumption DEF CountsType
<1>2. refresh' # refresh /\ person' # person
  BY <1>1
<1>3. ASSUME NEW v \in People PROVE ~Logout(v)
  BY <1>2 DEF Logout
<1>4. ASSUME NEW v \in People
      PROVE  ~(\/ AdminResetTOTP(v)
               \/ \E st \in {"active", "inactive", "deleted"} : SetStatus(v, st)
               \/ \E r \in PanelRoles : SetPanelRole(v, r))
  BY <1>2 DEF AdminResetTOTP, SetStatus, SetPanelRole, Edit
<1>5. ASSUME NEW v \in People
      PROVE  ~SetupTOTPForLogin(v) /\ ~SetupTOTP(v) /\ ~EvictPending(v)
  BY <1>2 DEF SetupTOTPForLogin, SetupTOTP, Propose, EvictPending
<1>6. ASSUME NEW q \in Conns
      PROVE  /\ \A v \in People : ~Login(q, v) /\ ~StartEnable(q, v) /\ ~PresentRefresh(q, v)
             /\ \A k \in Tickets : ~IssueTicket(q, k) /\ ~Present(q, k)
             /\ ~Find(q) /\ ~GetPending(q) /\ ~GiveUp(q) /\ ~Refresh(q)
  BY <1>2 DEF Login, StartEnable, PresentRefresh, IssueTicket, Present, Find, GetPending, GiveUp, Refresh
<1>7. ASSUME NEW q \in Conns
      PROVE  ~EnableTOTP(q) /\ ~VerifyTOTP(q)
  BY <1>2 DEF EnableTOTP, VerifyTOTP
<1>8. ~Tick /\ \A k \in Tickets : ~EvictTicket(k)
  BY <1>2 DEF Tick, EvictTicket
<1>9. PICK q \in Conns : CompleteTOTPSetup(q)
  BY <1>2, <1>3, <1>4, <1>5, <1>6, <1>7, <1>8 DEF SessionsNext, sessionsVars
<1>10. conn[q].user = u
  <2>1. refresh' = [refresh EXCEPT ![conn[q].user] = @ + 1]
    BY <1>9 DEF CompleteTOTPSetup, OpenSession
  <2>2. conn[q].user # u => refresh'[u] = refresh[u]
    BY <1>1, <2>1
  <2>. QED BY <1>1, <2>2
<1>. QED BY <1>9, <1>10

\* Without the second factor that a user has set up nobody enrols another, longer
\* than a setup ticket from before may last and two requests take.
THEOREM SecondFactorCorrect == SessionsSpec => SecondFactorStands
<1>1. SessionsInit => SessionsTypeOK /\ SessionsInv
  BY SessionsInitType, SessionsInitInv
<1>2. SessionsTypeOK /\ SessionsInv /\ [SessionsNext]_sessionsVars => SessionsTypeOK' /\ SessionsInv'
  BY SessionsStepType, SessionsStepInv
<1>3. SessionsTypeOK /\ SessionsInv /\ [SessionsNext]_sessionsVars =>
        [\A u \in People :
           refresh'[u] > refresh[u] /\ person'[u].secret # person[u].secret
             => enrolled[u] <= EnrolBound]_sessionsVars
  <2>1. SUFFICES ASSUME SessionsTypeOK, SessionsInv, [SessionsNext]_sessionsVars, NEW u \in People,
                        refresh'[u] > refresh[u], person'[u].secret # person[u].secret
                 PROVE  enrolled[u] <= EnrolBound
    OBVIOUS
  <2>2. PICK q \in Conns : CompleteTOTPSetup(q) /\ conn[q].user = u
    BY <2>1, OpensAndEnrols
  <2>3. conn[q] # Nil /\ conn[q].op = "complete"
    BY <2>2 DEF CompleteTOTPSetup, IsAt
  <2>4. conn[q].age \in Nat /\ conn[q].age <= MaxConnAge
    BY <2>1, <2>3, SessionsParts, ConnFacts
  <2>5. enrolled[u] <= conn[q].age + (TicketLife["setup"] + MaxConnAge)
    BY <2>1, <2>2, <2>3 DEF SessionsInv, Backed
  <2>6. enrolled[u] \in Nat /\ TicketLife["setup"] \in Nat /\ MaxConnAge \in Nat
    BY <2>1, HistoryNat, SessionsAssumption DEF Kinds
  <2>. QED BY <2>4, <2>5, <2>6 DEF EnrolBound
<1>. QED BY <1>1, <1>2, <1>3, PTL DEF SessionsSpec, SecondFactorStands
=============================================================================
