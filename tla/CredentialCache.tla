--------------------------- MODULE CredentialCache ---------------------------
(***************************************************************************)
(* Who may stamp.  An API credential is presented as a key (the middleware *)
(* auth.go, cred:hash in Redis) or as a URL token (HandleByToken,          *)
(* cred:token), a basic credential as username and password (basicauth.go  *)
(* and tsp.go, which share basicauth:user and do the same).  Each lookup   *)
(* reads Redis and, on a miss, Postgres, and leaves an entry that lives    *)
(* for a minute (hash) or for five.  Administrators create, rotate and     *)
(* revoke credentials and suspend, reactivate and delete tenants           *)
(* meanwhile.                                                              *)
(*                                                                         *)
(* Abstracted: the secret of a basic credential is the tenant it was made  *)
(* for, since a username is UNIQUE and comes back only for another tenant, *)
(* after the deletion of the first has cascaded to it.  A key or token is  *)
(* random and never comes back.  Rotate is a revocation followed by a      *)
(* Create, with other steps between and possibly no Create at all.  No     *)
(* code writes expires_at, so a credential never expires.  tenant:status,  *)
(* which Suspend, Reactivate and Delete invalidate, is read nowhere.       *)
(* Access by IP (noauth) reads Postgres each time and caches nothing.      *)
(***************************************************************************)
EXTENDS Integers

CONSTANTS Creds,       \* API credentials that may be issued
          Users,       \* usernames of basic credentials
          Tenants,
          Requests,    \* lookups under way at once (a bound)
          Life,        \* lifetime of an entry in ticks, by path
          MaxDelay,    \* ticks from a SELECT to its SET: an assumption
          MaxChanges,  \* administrators' changes (a bound)
          FaultKinds,  \* the faults that may happen
          MaxFaults,   \* and how many of them (a bound)
          Horizon,     \* times beyond this many ticks are not told apart
          None

\* "redis": a GET, SET or DEL fails; "postgres": a SELECT fails; "crash": the
\* backend restarts.
AllFaults == {"redis", "postgres", "crash"}
Paths     == {"hash", "token", "user"}

ASSUME ConstantsAssumption ==
  /\ Life \in [Paths -> Nat]
  /\ MaxDelay \in Nat
  /\ MaxChanges \in Nat
  /\ MaxFaults \in Nat
  /\ FaultKinds \subseteq AllFaults
  /\ Horizon \in Nat
  /\ Creds \cap Users = {}
  /\ None \notin Tenants
  /\ {"none", "refused"} \cap Tenants = {}

\* Otherwise the properties that speak of times would hold by the cap.
ASSUME HorizonAssumption == \A p \in Paths : Horizon > Life[p] + MaxDelay

VARIABLES
  tenant,   \* tenants.status; "gone" after the physical DELETE
  row,      \* api_credentials and basic_auth_credentials
  cache,    \* the three kinds of entries, or None
  pc,       \* where each lookup is
  ask,      \* the key and the secret it presents
  held,     \* the entry it has read from Postgres and is to write, or None
  reply,    \* the tenant it was admitted for, or "refused"
  dels,     \* DELs of the revocations, still to run
  since,    \* history: ticks since a right to stamp came or went
  raced,    \* history: keys whose DEL ran while a lookup held an entry
  changes,  \* administrators' changes so far
  faults    \* faults so far

vars == <<tenant, row, cache, pc, ask, held, reply, dels, since, raced, changes, faults>>

postgres == <<tenant, row>>
lookups  == <<pc, ask, held, reply>>

Logins == Creds \cup Users
Key    == (Creds \X {"hash", "token"}) \cup (Users \X {"user"})
Login(k) == k[1]
Path(k)  == k[2]
Secrets(k) == IF Path(k) = "user" THEN Tenants ELSE {None}
\* What a revocation deletes: the token's entry is not among it.
Invalidated(l) == IF l \in Creds THEN <<l, "hash">> ELSE <<l, "user">>

Entry == [tenant : Tenants, status : {"active", "suspended"}, age : Nat]
Aged(e, n) == [tenant |-> e.tenant, status |-> e.status, age |-> n]
\* What a lookup presents.
Requested == [key : Key, secret : Tenants \cup {None}]
ASSUME NoneAssumption == None \notin Entry \cup Requested

\* A row is deleted with its tenant; a key is then used up, a username free.
Rows == [status : {"none", "active", "revoked", "deleted"}, tenant : Tenants \cup {None}]

\* A right to stamp: a login, for the tenant it belongs to.
Rights == Logins \X Tenants
Valid(g) == /\ row[g[1]] = [status |-> "active", tenant |-> g[2]]
            /\ tenant[g[2]] = "active"

Fault(kind) == /\ kind \in FaultKinds
               /\ faults < MaxFaults
               /\ faults' = faults + 1

Init ==
  /\ tenant = [t \in Tenants |-> "active"]
  /\ row = [l \in Logins |-> [status |-> "none", tenant |-> None]]
  /\ cache = [k \in Key |-> None]
  /\ pc = [q \in Requests |-> "idle"]
  /\ ask = [q \in Requests |-> None]
  /\ held = [q \in Requests |-> None]
  /\ reply = [q \in Requests |-> "none"]
  /\ dels = {}
  /\ since = [g \in Rights |-> Horizon]
  /\ raced = {}
  /\ changes = 0
  /\ faults = 0

-----------------------------------------------------------------------------
\* Lookups.

Goto(q, place) == pc' = [pc EXCEPT ![q] = place]
Answer(q, r)   == /\ Goto(q, "done")
                  /\ reply' = [reply EXCEPT ![q] = r]

\* Mutant: the tenant's status is not looked at.
JudgeSecret(k, s, e) == IF Path(k) = "user" /\ e.tenant # s THEN "refused" ELSE e.tenant

\* What an entry, or a row, says to whoever presents secret s under key k.
\* Entries are written of active credentials only, so that the check of
\* CredStatus always succeeds.
Judge(k, s, e) == IF e.status = "suspended" \/ (Path(k) = "user" /\ e.tenant # s)
                  THEN "refused" ELSE e.tenant

\* Mutant: GETEX, which renews the TTL, for GET.
GetAndRenew(q, k, s) ==
  /\ pc[q] = "idle"
  /\ ask' = [ask EXCEPT ![q] = [key |-> k, secret |-> s]]
  /\ \/ /\ cache[k] # None
        /\ Answer(q, Judge(k, s, cache[k]))
        /\ cache' = [cache EXCEPT ![k] = Aged(@, 0)]
     \/ /\ cache[k] = None
        /\ Goto(q, "select")
        /\ UNCHANGED <<cache, reply>>
  /\ UNCHANGED <<postgres, held, dels, since, raced, changes, faults>>

\* GET: a hit decides at once; a miss and a failure both go to Postgres.
Get(q, k, s) ==
  /\ pc[q] = "idle"
  /\ ask' = [ask EXCEPT ![q] = [key |-> k, secret |-> s]]
  /\ \/ /\ cache[k] # None
        /\ Answer(q, Judge(k, s, cache[k]))
        /\ UNCHANGED faults
     \/ /\ IF cache[k] = None THEN UNCHANGED faults ELSE Fault("redis")
        /\ Goto(q, "select")
        /\ UNCHANGED reply
  /\ UNCHANGED <<postgres, cache, held, dels, since, raced, changes>>

\* The row behind a key, as the three SELECTs join it with its tenant.
Found(k) == [tenant |-> row[Login(k)].tenant, status |-> tenant[row[Login(k)].tenant], age |-> 0]
Active(k) == row[Login(k)].status = "active"

Select(q, path) == /\ pc[q] = "select"
                   /\ Path(ask[q].key) = path
                   /\ UNCHANGED <<postgres, cache, ask, dels, since, raced, changes>>

Hold(q) == held' = [held EXCEPT ![q] = Found(ask[q].key)]

\* auth.go: an active row is cached whatever its tenant's status, and the
\* status is looked at afterwards.
FindByHash(q) ==
  /\ Select(q, "hash")
  /\ UNCHANGED faults
  /\ \/ /\ Active(ask[q].key)
        /\ Hold(q)
        /\ Goto(q, "set")
        /\ UNCHANGED reply
     \/ /\ ~Active(ask[q].key)
        /\ Answer(q, "refused")
        /\ UNCHANGED held

\* HandleByToken, basicauth.go and tsp.go decide first, and a goroutine
\* writes the entry of an admitted request.
DecideAndHold(q) ==
  LET k == ask[q].key
      j == IF Active(k) THEN Judge(k, ask[q].secret, Found(k)) ELSE "refused"
  IN  /\ Answer(q, j)
      /\ IF j = "refused" THEN UNCHANGED held ELSE Hold(q)

FindByURLToken(q) == /\ Select(q, "token")
                     /\ DecideAndHold(q)
                     /\ UNCHANGED faults

FindByUsername(q) == /\ Select(q, "user")
                     /\ DecideAndHold(q)
                     /\ UNCHANGED faults

SelectFails(q) == /\ \E p \in Paths : Select(q, p)
                  /\ Fault("postgres")
                  /\ Answer(q, "refused")
                  /\ UNCHANGED held

\* SET with its TTL, or a SET that fails, whose error is ignored.
Write(q) == \/ /\ cache' = [cache EXCEPT ![ask[q].key] = Aged(held[q], 0)]
               /\ UNCHANGED faults
            \/ /\ Fault("redis")
               /\ UNCHANGED cache

SetCredential(q) ==
  /\ pc[q] = "set"
  /\ Write(q)
  /\ held' = [held EXCEPT ![q] = None]
  /\ Answer(q, Judge(ask[q].key, ask[q].secret, held[q]))
  /\ UNCHANGED <<postgres, ask, dels, since, raced, changes>>

SetInBackground(q) ==
  /\ pc[q] = "done"
  /\ held[q] # None
  /\ Write(q)
  /\ held' = [held EXCEPT ![q] = None]
  /\ UNCHANGED <<postgres, pc, ask, reply, dels, since, raced, changes>>

\* Mutant: the place of a request is given up before its goroutine has written.
LeaveEarly(q) ==
  /\ pc[q] = "done"
  /\ Goto(q, "idle")
  /\ ask' = [ask EXCEPT ![q] = None]
  /\ reply' = [reply EXCEPT ![q] = "none"]
  /\ UNCHANGED <<postgres, cache, held, dels, since, raced, changes, faults>>

\* The request and its goroutine have ended.
Leave(q) ==
  /\ pc[q] = "done"
  /\ held[q] = None
  /\ Goto(q, "idle")
  /\ ask' = [ask EXCEPT ![q] = None]
  /\ reply' = [reply EXCEPT ![q] = "none"]
  /\ UNCHANGED <<postgres, cache, held, dels, since, raced, changes, faults>>

-----------------------------------------------------------------------------
\* Administrators.

\* Every change is one UPDATE, INSERT or DELETE; since follows from it.
Change == /\ changes < MaxChanges
          /\ changes' = changes + 1
          /\ since' = [g \in Rights |-> IF Valid(g)' = Valid(g) THEN since[g] ELSE 0]
          /\ UNCHANGED <<cache, lookups, raced, faults>>

\* The services do not ask for the tenant's status; the foreign key asks that
\* it exists.
Create(l, t) ==
  /\ tenant[t] # "gone"
  /\ row[l].status \in {"none"} \cup (IF l \in Users THEN {"deleted"} ELSE {})
  /\ row' = [row EXCEPT ![l] = [status |-> "active", tenant |-> t]]
  /\ UNCHANGED <<tenant, dels>>
  /\ Change

\* Mutant: no DEL.
RevokeOnly(l) ==
  /\ row[l].status = "active"
  /\ row' = [row EXCEPT ![l] = [status |-> "revoked", tenant |-> row[l].tenant]]
  /\ UNCHANGED <<tenant, dels>>
  /\ Change

\* UPDATE ... WHERE status='active', then a goroutine with the DEL.
Revoke(l) ==
  /\ row[l].status = "active"
  /\ row' = [row EXCEPT ![l] = [status |-> "revoked", tenant |-> row[l].tenant]]
  /\ dels' = dels \cup {Invalidated(l)}
  /\ UNCHANGED tenant
  /\ Change

SetStatus(t, s) ==
  /\ tenant[t] \notin {"gone", s}
  /\ tenant' = [tenant EXCEPT ![t] = s]
  /\ UNCHANGED <<row, dels>>
  /\ Change

Suspend(t)    == SetStatus(t, "suspended")
Reactivate(t) == SetStatus(t, "active")

\* The rows of its credentials go with it, their cache entries do not.
Delete(t) ==
  /\ tenant[t] # "gone"
  /\ tenant' = [tenant EXCEPT ![t] = "gone"]
  /\ row' = [l \in Logins |-> IF row[l].tenant = t
                              THEN [status |-> "deleted", tenant |-> None] ELSE row[l]]
  /\ UNCHANGED dels
  /\ Change

\* The goroutine of a revocation; the error of its DEL is ignored.  Two DELs of
\* one key are one here: the second would do what Evict does.
Invalidate(k) ==
  /\ k \in dels
  /\ dels' = dels \ {k}
  /\ \/ /\ cache' = [cache EXCEPT ![k] = None]
        /\ UNCHANGED faults
     \/ /\ Fault("redis")
        /\ UNCHANGED cache
  /\ raced' = IF \E q \in Requests : held[q] # None /\ ask[q].key = k
              THEN raced \cup {k} ELSE raced
  /\ UNCHANGED <<postgres, lookups, since, changes>>

-----------------------------------------------------------------------------
\* Redis and time.

\* Redis drops an entry under memory pressure (allkeys-lru) or at its TTL.
Evict(k) ==
  /\ cache[k] # None
  /\ cache' = [cache EXCEPT ![k] = None]
  /\ UNCHANGED <<postgres, lookups, dels, since, raced, changes, faults>>

\* A tick: no entry outlives its TTL, and no SET is later than MaxDelay.
Tick ==
  /\ \A q \in Requests : held[q] # None => held[q].age < MaxDelay
  /\ cache' = [k \in Key |->
                 IF cache[k] # None /\ cache[k].age < Life[Path(k)]
                 THEN Aged(cache[k], cache[k].age + 1) ELSE None]
  /\ held' = [q \in Requests |->
                IF held[q] = None THEN None ELSE Aged(held[q], held[q].age + 1)]
  /\ since' = [g \in Rights |-> IF since[g] < Horizon THEN since[g] + 1 ELSE Horizon]
  /\ UNCHANGED <<postgres, pc, ask, reply, dels, raced, changes, faults>>

\* A restart ends the lookups and the goroutines; both stores remain.
Crash ==
  /\ Fault("crash")
  /\ pc' = [q \in Requests |-> "idle"]
  /\ ask' = [q \in Requests |-> None]
  /\ held' = [q \in Requests |-> None]
  /\ reply' = [q \in Requests |-> "none"]
  /\ dels' = {}
  /\ UNCHANGED <<postgres, cache, since, raced, changes>>

Lookup(q) == \/ \E k \in Key : \E s \in Secrets(k) : Get(q, k, s)
             \/ FindByHash(q)
             \/ FindByURLToken(q)
             \/ FindByUsername(q)
             \/ SelectFails(q)
             \/ SetCredential(q)
             \/ SetInBackground(q)
             \/ Leave(q)

Administer == \/ \E l \in Logins, t \in Tenants : Create(l, t)
              \/ \E l \in Logins : Revoke(l)
              \/ \E t \in Tenants : Suspend(t)
              \/ \E t \in Tenants : Reactivate(t)
              \/ \E t \in Tenants : Delete(t)

Next == \/ \E q \in Requests : Lookup(q)
        \/ Administer
        \/ \E k \in Key : Invalidate(k)
        \/ \E k \in Key : Evict(k)
        \/ Tick
        \/ Crash

Spec == Init /\ [][Next]_vars

-----------------------------------------------------------------------------
(***************************************************************************)
(* Properties.                                                             *)
(***************************************************************************)

\* Types, and what a lookup carries at each place.
TypeOK ==
  /\ tenant \in [Tenants -> {"active", "suspended", "gone"}]
  /\ row \in [Logins -> Rows]
  /\ \A l \in Logins : row[l].status \in {"active", "revoked"} <=> row[l].tenant # None
  /\ cache \in [Key -> Entry \cup {None}]
  /\ pc \in [Requests -> {"idle", "select", "set", "done"}]
  /\ ask \in [Requests -> Requested \cup {None}]
  /\ held \in [Requests -> Entry \cup {None}]
  /\ reply \in [Requests -> Tenants \cup {"none", "refused"}]
  /\ dels \subseteq Key
  /\ since \in [Rights -> 0 .. Horizon]
  /\ raced \subseteq Key
  /\ changes \in 0 .. MaxChanges
  /\ faults \in 0 .. MaxFaults
  /\ \A q \in Requests : /\ pc[q] = "idle" <=> ask[q] = None
                         /\ pc[q] = "set" => held[q] # None
                         /\ held[q] # None => pc[q] \in {"set", "done"}

Decided(q) == pc[q] # "done" /\ pc'[q] = "done"
Recently(g, k) == since[g] <= Life[Path(k)] + MaxDelay

\* A client is let in as a tenant only with a credential of that tenant, and
\* with its password, that gives the right to stamp now or did so less than the
\* entry's lifetime and one write ago: that is all a revoked credential, a
\* suspended or a deleted tenant still gets, over whatever path, whichever DEL is
\* lost or overtaken.
AdmissionRecent ==
  [][\A q \in Requests : Decided(q) /\ reply'[q] \in Tenants =>
       LET k == ask'[q].key
           g == <<Login(k), reply'[q]>>
       IN  /\ Valid(g) \/ Recently(g, k)
           /\ Path(k) = "user" => reply'[q] = ask'[q].secret]_vars

\* A client with the right secret is turned away only if it has no right to stamp
\* or had none that short a time ago, unless a statement failed: a reactivated
\* tenant, and the new owner of a username, wait no longer.  Nothing tells the
\* cache about either.
RefusalRecent ==
  [][\A q \in Requests : Decided(q) /\ reply'[q] = "refused" /\ faults' = faults =>
       LET k == ask'[q].key
       IN  \A t \in Tenants :
             (Path(k) = "user" => t = ask'[q].secret) =>
               LET g == <<Login(k), t>> IN ~Valid(g) \/ Recently(g, k)]_vars

\* Without faults, once the DEL of a revocation has run, the key or username it
\* deletes has an entry only if a lookup had read the row before the UPDATE and
\* was still to write it when the DEL ran.
RevokedOnlyByRace ==
  faults = 0 =>
    \A l \in Logins :
      LET k == Invalidated(l)
      IN  row[l].status = "revoked" /\ k \notin dels \cup raced =>
            /\ cache[k] = None
            /\ \A q \in Requests : held[q] # None => ask[q].key # k

\* A revocation invalidates the cache (service/credential/service.go:131,
\* service/basicauth/service.go:76): once its DEL has run, and with no write to
\* come, nothing cached is left of the credential.
RevokedIsOut ==
  dels = {} /\ raced = {} /\ (\A q \in Requests : held[q] = None) =>
    \A k \in Key : row[Login(k)].status = "revoked" => cache[k] = None

=============================================================================
