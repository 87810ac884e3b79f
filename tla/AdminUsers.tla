------------------------------ MODULE AdminUsers ------------------------------
(***************************************************************************)
(* The users of the admin panel: their roles, the tenants a viewer may see *)
(* and the handlers that write them, each a sequence of statements with no *)
(* transaction around it.  Any number of handlers run at once.             *)
(*                                                                         *)
(* Simplifications.  Names, e-mails and passwords are left out: whether an *)
(* e-mail is taken does not depend on what is modelled, and a refused      *)
(* request writes nothing.  validateRoleAndScope reads the tenant and      *)
(* guardLastSuperadmin the target right after it, in one step: nothing     *)
(* that changes one of them depends on the other.  Each of the two         *)
(* transactions, SetRole and SetTenantScope, is one step, its commit; the  *)
(* rows of another one that committed since its DELETE began survive it    *)
(* (READ COMMITTED, the default), which is a choice of the step.  Who may  *)
(* call is in AdminSessions.                                               *)
(***************************************************************************)
EXTENDS Integers, FiniteSets

CONSTANTS Accounts,     \* users that may be created
          Clients,      \* tenants
          Handlers,     \* requests of administrators under way at once (a bound)
          MaxWrites,    \* requests of administrators in all (a bound)
          MaxDbErrors,  \* statements that fail (a bound)
          NoOne

Roles == {"superadmin", "admin", "viewer"}

\* What an administrator asks for: validateRoleAndScope wants exactly one tenant
\* for a viewer and none for the others.
Wish == [role : {"viewer"}, scope : {{t} : t \in Clients}]
          \cup [role : {"superadmin", "admin"}, scope : {{}}]

Ops    == {"create", "update", "delete"}
Places == {"count", "write", "role", "scope"}
Call   == [at : Places, op : Ops, user : Accounts, wish : Wish \cup {NoOne},
           active : BOOLEAN, alone : BOOLEAN,
           keptRoles : SUBSET Roles, keptScope : SUBSET Clients]

ASSUME UsersAssumption ==
  /\ MaxWrites \in Nat
  /\ MaxDbErrors \in Nat
  /\ IsFiniteSet(Accounts)
  /\ NoOne \notin Wish \cup Call

VARIABLES
  status,    \* admin_users: is_active and deleted_at
  roles,     \* admin_user_roles
  scope,     \* admin_user_tenant_scope
  clients,   \* the tenants there are
  call,      \* the handlers under way, or NoOne
  word,      \* history: the last request that was carried out alone
  marred,    \* history: users whose rows no single request wrote
  overtaken, \* history: a guard was skipped, or a superadmin lost after it
  writes,    \* requests so far
  dbErrors   \* failed statements so far

usersVars == <<status, roles, scope, clients, call, word, marred, overtaken, writes, dbErrors>>

Existing == {u \in Accounts : status[u] \in {"active", "inactive"}}

\* CountByRole.
ActiveWith(role) == {u \in Accounts : status[u] = "active" /\ role \in roles[u]}

\* resolveTenantScope: the tenants in the reports and in the audit log of a user
\* whose token names the roles rs.  No rows means no restriction.
Visible(u, rs) ==
  IF rs \cap {"superadmin", "admin"} # {} \/ scope[u] = {} THEN clients ELSE scope[u]

-----------------------------------------------------------------------------
UsersInit ==
  /\ clients = Clients
  /\ status \in [Accounts -> {"none", "active"}]
  /\ word \in [Accounts -> Wish \cup {NoOne}]
  /\ \A u \in Accounts : (word[u] = NoOne) <=> (status[u] = "none")
  /\ roles = [u \in Accounts |-> IF word[u] = NoOne THEN {} ELSE {word[u].role}]
  /\ scope = [u \in Accounts |-> IF word[u] = NoOne THEN {} ELSE word[u].scope]
  /\ \E u \in Accounts : roles[u] = {"superadmin"}
  /\ call = [h \in Handlers |-> NoOne]
  /\ marred = {}
  /\ overtaken = FALSE
  /\ writes = 0
  /\ dbErrors = 0

\* The handlers at work on the rows of u, past the write of the user itself.
Writing(u) == {h \in Handlers : call[h] # NoOne /\ call[h].user = u
                                /\ call[h].at \in {"role", "scope"}}
PastGuard == {h \in Handlers : call[h] # NoOne /\ call[h].at \in {"write", "role"}}

\* To be conjoined to every write of h: supers are the superadmins after it.
NoteOvertaken(h, supers) ==
  overtaken' = (overtaken \/ (/\ ~(ActiveWith("superadmin") \subseteq supers)
                              /\ PastGuard \ {h} # {}))

Supers(st, rs) == {u \in Accounts : st[u] = "active" /\ "superadmin" \in rs[u]}

Finish(h) == call' = [call EXCEPT ![h] = NoOne]

\* Any statement may fail; the handler answers 500 and stops where it is.
Fail(h) ==
  /\ call[h] # NoOne
  /\ dbErrors < MaxDbErrors
  /\ dbErrors' = dbErrors + 1
  /\ Finish(h)
  /\ marred' = IF call[h].at \in {"role", "scope"} THEN marred \cup {call[h].user} ELSE marred
  /\ UNCHANGED <<status, roles, scope, clients, word, overtaken, writes>>

\* willStaySuperadmin.
Stays(op, w, active) == op # "delete" /\ w.role = "superadmin" /\ active

\* Create, Update and Delete up to the guard's first read.  The guard is skipped
\* for a user that is not a superadmin, that is not there, or that could not be
\* read: FindByID drops the error of GetRoles and the guard that of FindByID.
Begin(h, op, u, w, active) ==
  /\ call[h] = NoOne
  /\ writes < MaxWrites
  /\ writes' = writes + 1
  /\ op = "create" => (active /\ status[u] = "none")
  /\ op = "update" => status[u] # "none"
  /\ op = "delete" => (w = NoOne /\ ~active /\ u \in Existing)
  /\ op # "delete" => (w # NoOne /\ w.scope \subseteq clients)
  /\ \E unread \in BOOLEAN :
       LET asked == /\ op # "create"
                    /\ u \in Existing
                    /\ "superadmin" \in roles[u]
                    /\ ~Stays(op, w, active)
       IN /\ unread => (asked /\ dbErrors < MaxDbErrors)
          /\ dbErrors' = IF unread THEN dbErrors + 1 ELSE dbErrors
          /\ overtaken' = (overtaken \/ unread)
          /\ call' = [call EXCEPT ![h] =
                [at |-> IF asked /\ ~unread THEN "count" ELSE "write", op |-> op, user |-> u,
                 wish |-> w, active |-> active, alone |-> TRUE,
                 keptRoles |-> {}, keptScope |-> {}]]
  /\ UNCHANGED <<status, roles, scope, clients, word, marred>>

\* Mutant: the guard lets the last one go.
CountOffByOne(h) ==
  /\ call[h] # NoOne
  /\ call[h].at = "count"
  /\ IF Cardinality(ActiveWith("superadmin")) < 1
     THEN Finish(h)
     ELSE call' = [call EXCEPT ![h].at = "write"]
  /\ UNCHANGED <<status, roles, scope, clients, word, marred, overtaken, writes, dbErrors>>

\* The rest of guardLastSuperadmin.  The count is of active users, whether or not
\* the target is one of them.
Count(h) ==
  /\ call[h] # NoOne
  /\ call[h].at = "count"
  /\ IF Cardinality(ActiveWith("superadmin")) <= 1
     THEN Finish(h)
     ELSE call' = [call EXCEPT ![h].at = "write"]
  /\ UNCHANGED <<status, roles, scope, clients, word, marred, overtaken, writes, dbErrors>>

\* A write of h past which it goes on to the roles.
Enter(h) ==
  LET u     == call[h].user
      alone == Writing(u) = {}
  IN  /\ call' = [k \in Handlers |->
           IF k = h THEN [call[h] EXCEPT !.at = "role", !.alone = alone]
           ELSE IF k \in Writing(u) THEN [call[k] EXCEPT !.alone = FALSE]
           ELSE call[k]]
      /\ marred' = IF alone THEN marred ELSE marred \cup {u}

At(h, place) == call[h] # NoOne /\ call[h].at = place
Serves(h, op) == At(h, "write") /\ call[h].op = op

InsertUser(h) ==
  /\ Serves(h, "create")
  /\ status[call[h].user] = "none"
  /\ status' = [status EXCEPT ![call[h].user] = "active"]
  /\ Enter(h)
  /\ NoteOvertaken(h, Supers(status', roles))
  /\ UNCHANGED <<roles, scope, clients, word, writes, dbErrors>>

\* Mutant: the tenants are taken away before the new one is written.
UpdateAndClear(h) ==
  /\ Serves(h, "update")
  /\ call[h].user \in Existing
  /\ status' = [status EXCEPT ![call[h].user] = IF call[h].active THEN "active" ELSE "inactive"]
  /\ scope' = [scope EXCEPT ![call[h].user] = {}]
  /\ Enter(h)
  /\ NoteOvertaken(h, Supers(status', roles))
  /\ UNCHANGED <<roles, clients, word, writes, dbErrors>>

UpdateUser(h) ==
  /\ Serves(h, "update")
  /\ call[h].user \in Existing
  /\ status' = [status EXCEPT ![call[h].user] = IF call[h].active THEN "active" ELSE "inactive"]
  /\ Enter(h)
  /\ NoteOvertaken(h, Supers(status', roles))
  /\ UNCHANGED <<roles, scope, clients, word, writes, dbErrors>>

SoftDelete(h) ==
  /\ Serves(h, "delete")
  /\ status' = [status EXCEPT ![call[h].user] = "deleted"]
  /\ Finish(h)
  /\ NoteOvertaken(h, Supers(status', roles))
  /\ UNCHANGED <<roles, scope, clients, word, marred, writes, dbErrors>>

\* The name is taken, even by a deleted user; or the user has been deleted.
Refuse(h) ==
  /\ \/ Serves(h, "create") /\ status[call[h].user] # "none"
     \/ Serves(h, "update") /\ call[h].user \notin Existing
  /\ Finish(h)
  /\ UNCHANGED <<status, roles, scope, clients, word, marred, overtaken, writes, dbErrors>>

\* What is said of a user when a request has written all it had to.
Conclude(h) ==
  IF call[h].alone
  THEN /\ word' = [word EXCEPT ![call[h].user] = call[h].wish]
       /\ marred' = marred \ {call[h].user}
  ELSE UNCHANGED <<word, marred>>

\* The other handlers at the same place, for the same user.
Rivals(h) == {k \in Handlers \ {h} : At(k, call[h].at) /\ call[k].user = call[h].user}

\* Mutant: AssignRole, which deletes no role, for SetRole.
AssignRole(u, kept, role) == roles[u] \cup {role}

ReplaceRole(u, kept, role) == kept \cup {role}

\* SetRole.  Create of a superadmin or an admin ends here.
SetRole(h) ==
  /\ At(h, "role")
  /\ LET c    == call[h]
         last == c.op = "create" /\ c.wish.role # "viewer"
     IN  /\ \E kept \in {{}, c.keptRoles} :
              roles' = [roles EXCEPT ![c.user] = ReplaceRole(c.user, kept, c.wish.role)]
         /\ call' = [k \in Handlers |->
              IF k = h THEN IF last THEN NoOne ELSE [c EXCEPT !.at = "scope"]
              ELSE IF k \in Rivals(h) THEN [call[k] EXCEPT !.keptRoles = @ \cup {c.wish.role}]
              ELSE call[k]]
         /\ IF last THEN Conclude(h) ELSE UNCHANGED <<word, marred>>
  /\ NoteOvertaken(h, Supers(status, roles'))
  /\ UNCHANGED <<status, scope, clients, writes, dbErrors>>

\* SetTenantScope.
SetTenantScope(h) ==
  /\ At(h, "scope")
  /\ call[h].wish.scope \subseteq clients
  /\ LET c == call[h]
     IN  /\ \E kept \in {{}, c.keptScope} :
              scope' = [scope EXCEPT ![c.user] = kept \cup c.wish.scope]
         /\ call' = [k \in Handlers |->
              IF k = h THEN NoOne
              ELSE IF k \in Rivals(h) THEN [call[k] EXCEPT !.keptScope = @ \cup c.wish.scope]
              ELSE call[k]]
  /\ Conclude(h)
  /\ UNCHANGED <<status, roles, clients, overtaken, writes, dbErrors>>

\* The tenant of the request is gone: the foreign key refuses the row and the
\* transaction is rolled back, but not what came before it.
ScopeRefused(h) ==
  /\ At(h, "scope")
  /\ ~(call[h].wish.scope \subseteq clients)
  /\ marred' = marred \cup {call[h].user}
  /\ Finish(h)
  /\ UNCHANGED <<status, roles, scope, clients, word, overtaken, writes, dbErrors>>

\* Mutant: the scopes keep their rows.
DeleteUncascaded(t) ==
  /\ t \in clients
  /\ writes < MaxWrites
  /\ writes' = writes + 1
  /\ clients' = clients \ {t}
  /\ UNCHANGED <<status, roles, scope, call, word, marred, overtaken, dbErrors>>

\* Deleting a tenant deletes its rows of the scopes (ON DELETE CASCADE).
DeleteClient(t) ==
  /\ t \in clients
  /\ writes < MaxWrites
  /\ writes' = writes + 1
  /\ clients' = clients \ {t}
  /\ scope' = [u \in Accounts |-> scope[u] \ {t}]
  /\ call' = [k \in Handlers |-> IF call[k] = NoOne THEN NoOne
                                 ELSE [call[k] EXCEPT !.keptScope = @ \ {t}]]
  /\ marred' = marred \cup {u \in Accounts : t \in scope[u]}
  /\ UNCHANGED <<status, roles, word, overtaken, dbErrors>>

UsersNext ==
  \/ \E h \in Handlers :
       \/ \E op \in Ops, u \in Accounts, w \in Wish \cup {NoOne}, active \in BOOLEAN :
            Begin(h, op, u, w, active)
       \/ Count(h) \/ InsertUser(h) \/ UpdateUser(h) \/ SoftDelete(h) \/ Refuse(h)
       \/ SetRole(h) \/ SetTenantScope(h) \/ ScopeRefused(h) \/ Fail(h)
  \/ \E t \in Clients : DeleteClient(t)

UsersSpec == UsersInit /\ [][UsersNext]_usersVars

-----------------------------------------------------------------------------
\* The kinds of the state, and what a handler has at each place.
UsersTypeOK ==
  /\ status \in [Accounts -> {"none", "active", "inactive", "deleted"}]
  /\ roles \in [Accounts -> SUBSET Roles]
  /\ scope \in [Accounts -> SUBSET clients]
  /\ clients \subseteq Clients
  /\ call \in [Handlers -> Call \cup {NoOne}]
  /\ \A h \in Handlers : call[h] # NoOne =>
       /\ call[h].op = "delete" <=> call[h].wish = NoOne
       /\ call[h].at \in {"role", "scope"} => call[h].op # "delete"
  /\ word \in [Accounts -> Wish \cup {NoOne}]
  /\ marred \subseteq Accounts
  /\ overtaken \in BOOLEAN
  /\ writes \in 0..MaxWrites
  /\ dbErrors \in 0..MaxDbErrors

\* Edits end in what one administrator asked for: a user at rest has the one role
\* and the one tenant of the last request that wrote them alone, even though the
\* role and the tenant are written apart and other edits run meanwhile -- unless
\* the last ones overlapped, one was cut short, or its tenant has been deleted.
OneWord ==
  \A u \in Accounts :
    Writing(u) = {} /\ u \notin marred /\ word[u] # NoOne =>
      /\ roles[u] = {word[u].role}
      /\ scope[u] = word[u].scope

\* A viewer sees one tenant, "nunca todos los clientes" (users.go): while edits
\* replace the tenant of a viewer, not for an instant do its reports show more
\* than the tenants of those edits -- with the same three exceptions.
ViewerConfined ==
  \A u \in Accounts \ marred :
    LET asked == {word[u]} \cup {call[h].wish : h \in Writing(u)}
    IN  (\A w \in asked : w # NoOne /\ w.role = "viewer") =>
          Visible(u, roles[u]) \subseteq UNION {w.scope : w \in asked}

\* guardLastSuperadmin keeps an active superadmin through any number of edits,
\* deactivations and deletions, unless one was lost between another request's
\* guard and its last write, or a guard was skipped because its read failed.
SuperadminLeft == overtaken \/ ActiveWith("superadmin") # {}
=============================================================================
