---------------------------- MODULE AdminSessions ----------------------------
(***************************************************************************)
(* How a user of the panel comes to a session and loses it: the login in   *)
(* two stages, the compulsory enrolment of a second factor, the refresh    *)
(* and access tokens, and what the administrators change meanwhile, one    *)
(* statement at a time (AdminUsers has the handlers they are made of).     *)
(*                                                                         *)
(* Simplifications.  Whether a password or a code is right is a choice: a  *)
(* wrong one writes nothing and the request ends.  totp_enabled is the     *)
(* presence of a secret, since UpdateTOTP always writes the two together.  *)
(* A secret stands for a random one: it never comes back while it is known *)
(* anywhere.  In VerifyTOTP and CompleteTOTPSetup what follows the check   *)
(* of the code is one step: between its parts the others can only do what  *)
(* they could do before or after it.  So is FindByID with the SET in       *)
(* SetupTOTP.  The refresh tokens of a user are told apart by nothing but  *)
(* their number.  Access tokens are held by browsers and read nowhere but  *)
(* in the middleware.                                                      *)
(***************************************************************************)
EXTENDS Integers, FiniteSets

CONSTANTS People,
          PanelRoles,
          Tickets,      \* mfa_tokens and setup_tokens that may be issued
          Secrets,      \* TOTP secrets
          Conns,        \* requests under way at once (a bound)
          TicketLife,   \* lifetime in ticks, by kind: "mfa", "setup"
          PendingLife,  \* of totp_pending
          AccessLife,   \* of an access token
          MaxConnAge,   \* ticks a request may take: an assumption
          MaxSessions,  \* refresh tokens of a user (a bound)
          MaxEdits,     \* administrators' changes (a bound)
          MaxLost,      \* DELs that fail (a bound)
          Nil

Kinds == {"mfa", "setup"}

Person  == [status : {"active", "inactive", "deleted"}, role : PanelRoles,
            secret : Secrets \cup {Nil}]
Ticket  == [user : People, kind : Kinds, age : Nat]
Pending == [secret : Secrets, age : Nat]
Access  == [user : People, role : PanelRoles, age : Nat]
\* A request: which, where it is, what it has read so far, and since when.
Conn == [op : {"login", "verify", "complete", "enable", "refresh"},
         at : {"hash", "find", "code", "pending", "write"},
         user : People, ticket : Tickets \cup {Nil}, role : PanelRoles \cup {Nil},
         secret : Secrets \cup {Nil}, age : Nat]

ASSUME SessionsAssumption ==
  /\ TicketLife \in [Kinds -> Nat]
  /\ PendingLife \in Nat
  /\ AccessLife \in Nat
  /\ MaxConnAge \in Nat
  /\ MaxSessions \in Nat
  /\ MaxEdits \in Nat
  /\ MaxLost \in Nat
  /\ Nil \notin Secrets \cup Tickets \cup PanelRoles
  /\ Nil \notin Conn
  /\ Nil \notin Ticket
  /\ Nil \notin Pending

\* How long after it has ended an access may go on, and after the enrolment of a
\* second factor its replacement.  The histories count no further than one more.
AccessBound == AccessLife + MaxConnAge
EnrolBound  == TicketLife["setup"] + 2 * MaxConnAge

VARIABLES
  person,    \* admin_users, with the role
  ticket,    \* mfa:<token> and totp_setup:<token>
  pending,   \* totp_pending:<user>
  refresh,   \* how many refresh:<token> a user has
  access,    \* the access tokens that have not expired
  conn,      \* the requests under way, or Nil
  issued,    \* the tickets that have been issued
  edits,     \* administrators' changes so far
  lost,      \* DELs that failed so far
  since,     \* history: ticks since a user last had a role, as an active user
  enrolled,  \* history: ticks since a user last had no second factor
  opened,    \* history: the tickets that have opened a session
  shared     \* history: those whose DEL did not close them to all others

sessionsVars == <<person, ticket, pending, refresh, access, conn, issued, edits, lost,
                  since, enrolled, opened, shared>>
history == <<since, enrolled, opened, shared>>
bounds  == <<issued, edits, lost>>

Grants == People \X PanelRoles
Entitled(p, u, r) == p[u].status = "active" /\ p[u].role = r
Later(n, bound) == IF n <= bound THEN n + 1 ELSE n

-----------------------------------------------------------------------------
SessionsInit ==
  /\ person \in [People -> [status : {"active"}, role : PanelRoles, secret : {Nil}]]
  /\ ticket = [k \in Tickets |-> Nil]
  /\ pending = [u \in People |-> Nil]
  /\ refresh = [u \in People |-> 0]
  /\ access = {}
  /\ conn = [q \in Conns |-> Nil]
  /\ issued = {}
  /\ edits = 0
  /\ lost = 0
  /\ since = [g \in Grants |-> IF Entitled(person, g[1], g[2]) THEN 0 ELSE AccessBound + 1]
  /\ enrolled = [u \in People |-> 0]
  /\ opened = {}
  /\ shared = {}

-----------------------------------------------------------------------------
\* Requests.

IsAt(q, op, place) == conn[q] # Nil /\ conn[q].op = op /\ conn[q].at = place
Idle(q) == conn[q] = Nil
Leave(q) == conn' = [conn EXCEPT ![q] = Nil]

Start(q, op, place, u, k, r, s) ==
  conn' = [conn EXCEPT ![q] = [op |-> op, at |-> place, user |-> u, ticket |-> k,
                               role |-> r, secret |-> s, age |-> 0]]
\* A request goes on, with what it has read.
GoOn(q, place, r, s) ==
  conn' = [conn EXCEPT ![q] = [op |-> @.op, at |-> place, user |-> @.user, ticket |-> @.ticket,
                               role |-> r, secret |-> s, age |-> @.age]]

\* A request that has failed, or found nothing, answers 401 and has written nothing.
GiveUp(q) ==
  /\ ~Idle(q)
  /\ Leave(q)
  /\ UNCHANGED <<person, ticket, pending, refresh, access, bounds, history>>

\* Login: the user is read, and the password hashed, before the token is written.
Login(q, u) ==
  /\ Idle(q)
  /\ person[u].status = "active"
  /\ Start(q, "login", "hash", u, Nil, Nil, person[u].secret)
  /\ UNCHANGED <<person, ticket, pending, refresh, access, bounds, history>>

\* generateMFAToken, generateSetupToken.
IssueTicket(q, k) ==
  /\ IsAt(q, "login", "hash")
  /\ k \notin issued
  /\ issued' = issued \cup {k}
  /\ ticket' = [ticket EXCEPT ![k] =
       [user |-> conn[q].user, kind |-> IF conn[q].secret = Nil THEN "setup" ELSE "mfa",
        age |-> 0]]
  /\ Leave(q)
  /\ UNCHANGED <<person, pending, refresh, access, edits, lost, history>>

\* VerifyTOTP and CompleteTOTPSetup: the GET of the token.
Present(q, k) ==
  /\ Idle(q)
  /\ ticket[k] # Nil
  /\ Start(q, IF ticket[k].kind = "mfa" THEN "verify" ELSE "complete", "find",
           ticket[k].user, k, Nil, Nil)
  /\ UNCHANGED <<person, ticket, pending, refresh, access, bounds, history>>

\* Their FindByID.
Find(q) ==
  /\ \/ /\ IsAt(q, "verify", "find")
        /\ person[conn[q].user].secret # Nil
        /\ GoOn(q, "code", person[conn[q].user].role, person[conn[q].user].secret)
     \/ /\ IsAt(q, "complete", "find")
        /\ GoOn(q, "pending", person[conn[q].user].role, Nil)
  /\ person[conn[q].user].status = "active"
  /\ UNCHANGED <<person, ticket, pending, refresh, access, bounds, history>>

\* Require and RequireRole look at the token alone, not at what became of the user.
May(u, r) == \E a \in access : a.user = u /\ a.role = r
Bears(u) == \E r \in PanelRoles : May(u, r)

Known == {person[u].secret : u \in People}
           \cup {pending[u].secret : u \in {v \in People : pending[v] # Nil}}
           \cup {conn[q].secret : q \in {p \in Conns : conn[p] # Nil}}

\* A new secret takes the place of the one that waits.
Propose(u) ==
  /\ \E s \in Secrets \ Known :
       pending' = [pending EXCEPT ![u] = [secret |-> s, age |-> 0]]
  /\ UNCHANGED <<person, ticket, refresh, access, conn, bounds, history>>

SetupTOTPForLogin(u) ==
  /\ \E k \in Tickets : ticket[k] # Nil /\ ticket[k].kind = "setup" /\ ticket[k].user = u
  /\ person[u].status = "active"
  /\ Propose(u)

\* With an access token: the user has to be there, not to be active.
SetupTOTP(u) ==
  /\ Bears(u)
  /\ person[u].status # "deleted"
  /\ Propose(u)

\* EnableTOTP with an access token, whatever has become of the user: the GET.
StartEnable(q, u) ==
  /\ Idle(q)
  /\ Bears(u)
  /\ pending[u] # Nil
  /\ Start(q, "enable", "write", u, Nil, Nil, pending[u].secret)
  /\ UNCHANGED <<person, ticket, pending, refresh, access, bounds, history>>

\* The same GET in CompleteTOTPSetup.
GetPending(q) ==
  /\ IsAt(q, "complete", "pending")
  /\ pending[conn[q].user] # Nil
  /\ GoOn(q, "write", conn[q].role, pending[conn[q].user].secret)
  /\ UNCHANGED <<person, ticket, pending, refresh, access, bounds, history>>

WithSecret(u, s) ==
  person' = [person EXCEPT ![u] =
               [status |-> person[u].status, role |-> person[u].role, secret |-> s]]

\* UpdateTOTP, in EnableTOTP.
Enrol(q) ==
  /\ WithSecret(conn[q].user, conn[q].secret)
  /\ pending' = [pending EXCEPT ![conn[q].user] = Nil]

EnableTOTP(q) ==
  /\ IsAt(q, "enable", "write")
  /\ Enrol(q)
  /\ Leave(q)
  /\ UNCHANGED <<ticket, refresh, access, bounds, history>>

\* The others that have read the ticket of q.
Holders(q) == {p \in Conns \ {q} : conn[p] # Nil /\ conn[p].ticket = conn[q].ticket}

\* Mutant: the token is not deleted when it has served.
OpenAndKeep(q) ==
  /\ opened' = opened \cup {conn[q].ticket}
  /\ refresh[conn[q].user] < MaxSessions
  /\ refresh' = [refresh EXCEPT ![conn[q].user] = @ + 1]
  /\ access' = access \cup {[user |-> conn[q].user, role |-> conn[q].role, age |-> 0]}
  /\ Leave(q)
  /\ UNCHANGED <<ticket, shared, lost>>

\* The DEL of the ticket, whose failure is ignored, and issueTokens with the
\* roles read in FindByID.
OpenSession(q) ==
  LET k == conn[q].ticket
  IN  /\ \/ /\ ticket' = [ticket EXCEPT ![k] = Nil]
            /\ shared' = IF Holders(q) = {} THEN shared ELSE shared \cup {k}
            /\ lost' = lost
         \/ /\ lost < MaxLost
            /\ lost' = lost + 1
            /\ shared' = shared \cup {k}
            /\ UNCHANGED ticket
      /\ opened' = opened \cup {k}
      /\ refresh[conn[q].user] < MaxSessions
      /\ refresh' = [refresh EXCEPT ![conn[q].user] = @ + 1]
      /\ access' = access \cup {[user |-> conn[q].user, role |-> conn[q].role, age |-> 0]}
      /\ Leave(q)

VerifyTOTP(q) ==
  /\ IsAt(q, "verify", "code")
  /\ OpenSession(q)
  /\ UNCHANGED <<person, pending, issued, edits, since, enrolled>>

CompleteTOTPSetup(q) ==
  /\ IsAt(q, "complete", "write")
  /\ Enrol(q)
  /\ OpenSession(q)
  /\ UNCHANGED <<issued, edits, since, enrolled>>

\* Refresh: the GET of the refresh token; FindByID and the new access token.
PresentRefresh(q, u) ==
  /\ Idle(q)
  /\ refresh[u] > 0
  /\ Start(q, "refresh", "find", u, Nil, Nil, Nil)
  /\ UNCHANGED <<person, ticket, pending, refresh, access, bounds, history>>

\* Mutant: the user is not looked up again.
RefreshUnchecked(q) ==
  /\ IsAt(q, "refresh", "find")
  /\ access' = access \cup {[user |-> conn[q].user, role |-> person[conn[q].user].role, age |-> 0]}
  /\ Leave(q)
  /\ UNCHANGED <<person, ticket, pending, refresh, bounds, history>>

Refresh(q) ==
  /\ IsAt(q, "refresh", "find")
  /\ person[conn[q].user].status = "active"
  /\ access' = access \cup {[user |-> conn[q].user, role |-> person[conn[q].user].role, age |-> 0]}
  /\ Leave(q)
  /\ UNCHANGED <<person, ticket, pending, refresh, bounds, history>>

\* Logout; and the end of a refresh token's week, or its eviction.  The access
\* tokens live on.
Logout(u) ==
  /\ refresh[u] > 0
  /\ refresh' = [refresh EXCEPT ![u] = @ - 1]
  /\ UNCHANGED <<person, ticket, pending, access, conn, bounds, history>>

-----------------------------------------------------------------------------
\* Administrators.

Edit(u, new) ==
  /\ edits < MaxEdits
  /\ edits' = edits + 1
  /\ person' = [person EXCEPT ![u] = new]
  /\ since' = [g \in Grants |->
       IF g[1] = u /\ (Entitled(person, u, g[2]) \/ Entitled(person', u, g[2]))
       THEN 0 ELSE since[g]]
  /\ enrolled' = [enrolled EXCEPT ![u] = IF new.secret = Nil THEN 0 ELSE @]
  /\ UNCHANGED <<ticket, pending, refresh, access, conn, issued, lost, opened, shared>>

\* is_active, the roles and deleted_at: Update, SetRole and SoftDelete.
SetStatus(u, st) ==
  /\ person[u].status # "deleted"
  /\ st # person[u].status
  /\ Edit(u, [status |-> st, role |-> person[u].role, secret |-> person[u].secret])

SetPanelRole(u, r) ==
  /\ r # person[u].role
  /\ Edit(u, [status |-> person[u].status, role |-> r, secret |-> person[u].secret])

\* AdminResetTOTP.  Neither the sessions nor the tickets are touched.
AdminResetTOTP(u) ==
  /\ person[u].status # "deleted"
  /\ Edit(u, [status |-> person[u].status, role |-> person[u].role, secret |-> Nil])

-----------------------------------------------------------------------------
\* A key is evicted, or expires before the tick that ends it.
EvictTicket(k) ==
  /\ ticket[k] # Nil
  /\ ticket' = [ticket EXCEPT ![k] = Nil]
  /\ UNCHANGED <<person, pending, refresh, access, conn, bounds, history>>

EvictPending(u) ==
  /\ pending[u] # Nil
  /\ pending' = [pending EXCEPT ![u] = Nil]
  /\ UNCHANGED <<person, ticket, refresh, access, conn, bounds, history>>

\* Time passes; what is older than its lifetime is gone.
Older(e) == [user |-> e.user, kind |-> e.kind, age |-> e.age + 1]
Waited(c) == [op |-> c.op, at |-> c.at, user |-> c.user, ticket |-> c.ticket,
              role |-> c.role, secret |-> c.secret, age |-> c.age + 1]

\* Mutant: the setup token has no TTL.
KeptTicket(e) == e # Nil /\ (e.kind = "setup" \/ e.age < TicketLife[e.kind])

Lives(e) == e # Nil /\ e.age < TicketLife[e.kind]

Tick ==
  /\ \A q \in Conns : conn[q] # Nil => conn[q].age < MaxConnAge
  /\ ticket' = [k \in Tickets |-> IF Lives(ticket[k]) THEN Older(ticket[k]) ELSE Nil]
  /\ pending' = [u \in People |->
       IF pending[u] # Nil /\ pending[u].age < PendingLife
       THEN [secret |-> pending[u].secret, age |-> pending[u].age + 1] ELSE Nil]
  /\ access' = {[user |-> a.user, role |-> a.role, age |-> a.age + 1] :
                  a \in {b \in access : b.age < AccessLife}}
  /\ conn' = [q \in Conns |-> IF conn[q] = Nil THEN Nil ELSE Waited(conn[q])]
  /\ since' = [g \in Grants |-> IF Entitled(person, g[1], g[2]) THEN 0 ELSE Later(since[g], AccessBound)]
  /\ enrolled' = [u \in People |-> IF person[u].secret = Nil THEN 0 ELSE Later(enrolled[u], EnrolBound)]
  /\ UNCHANGED <<person, refresh, bounds, opened, shared>>

SessionsNext ==
  \/ \E q \in Conns :
       \/ \E u \in People : Login(q, u) \/ StartEnable(q, u) \/ PresentRefresh(q, u)
       \/ \E k \in Tickets : IssueTicket(q, k) \/ Present(q, k)
       \/ Find(q) \/ GetPending(q) \/ EnableTOTP(q) \/ VerifyTOTP(q)
       \/ CompleteTOTPSetup(q) \/ Refresh(q) \/ GiveUp(q)
  \/ \E u \in People :
       \/ SetupTOTPForLogin(u) \/ SetupTOTP(u) \/ Logout(u)
       \/ AdminResetTOTP(u) \/ EvictPending(u)
       \/ \E st \in {"active", "inactive", "deleted"} : SetStatus(u, st)
       \/ \E r \in PanelRoles : SetPanelRole(u, r)
  \/ \E k \in Tickets : EvictTicket(k)
  \/ Tick

SessionsSpec == SessionsInit /\ [][SessionsNext]_sessionsVars
-----------------------------------------------------------------------------
\* The kinds of the state, the ages a key may reach, and what a request has read
\* at each place.
SessionsTypeOK ==
  /\ person \in [People -> Person]
  /\ ticket \in [Tickets -> Ticket \cup {Nil}]
  /\ \A k \in Tickets : ticket[k] # Nil => k \in issued /\ ticket[k].age <= TicketLife[ticket[k].kind]
  /\ pending \in [People -> Pending \cup {Nil}]
  /\ \A u \in People : pending[u] # Nil => pending[u].age <= PendingLife
  /\ refresh \in [People -> 0..MaxSessions]
  /\ access \subseteq Access
  /\ \A a \in access : a.age <= AccessLife
  /\ conn \in [Conns -> Conn \cup {Nil}]
  /\ \A q \in Conns : conn[q] # Nil =>
       /\ conn[q].age <= MaxConnAge
       /\ conn[q].at = "write" => conn[q].secret # Nil
       /\ conn[q].op \in {"verify", "complete"} => conn[q].ticket \in issued
       /\ conn[q].at \in {"code", "pending"} \/ (conn[q].op = "complete" /\ conn[q].at = "write") =>
            conn[q].role # Nil
  /\ issued \subseteq Tickets
  /\ edits \in 0..MaxEdits
  /\ lost \in 0..MaxLost
  /\ since \in [Grants -> 0..(AccessBound + 1)]
  /\ enrolled \in [People -> 0..(EnrolBound + 1)]
  /\ opened \subseteq issued
  /\ shared \subseteq issued

\* Who has been deactivated, deleted or given another role may go on for as long
\* as an access token lives, whose roles nobody looks up again, and one request;
\* no refresh and no login under way at the change makes it longer.
AccessRecent ==
  \A g \in Grants : May(g[1], g[2]) => since[g] <= AccessBound

\* "Uso único" (service.go): a token of the login opens a second session only
\* when its DEL failed, or came while another request had read it already.
TicketOpensOnce ==
  [][\A q \in Conns :
       LET c == conn[q]
       IN  c # Nil /\ c.ticket \in opened /\ conn'[q] = Nil /\ refresh'[c.user] > refresh[c.user]
             => c.ticket \in shared]_sessionsVars

\* A password alone replaces a second factor that has been set up, and opens a
\* session with the new one, only for as long as a setup_token issued before
\* may live: every login after that needs the factor.
SecondFactorStands ==
  [][\A u \in People :
       refresh'[u] > refresh[u] /\ person'[u].secret # person[u].secret
         => enrolled[u] <= EnrolBound]_sessionsVars
=============================================================================
