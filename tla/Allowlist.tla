------------------------------- MODULE Allowlist -------------------------------
(***************************************************************************)
(* The addresses a tenant may be used from: the list in Postgres, its copy *)
(* in Redis (tenant:ip), the middleware that checks every request against  *)
(* it, and the access by address alone, without a credential, which reads  *)
(* the list in Postgres.                                                   *)
(*                                                                         *)
(* Simplifications.  One tenant: nothing relates the lists of two, and     *)
(* FindTenantByIP takes any one that fits.  A CIDR is the set of its       *)
(* addresses.  That a request with a credential has a good one is a choice *)
(* (CredentialCache tells when, and that it may be after the tenant's      *)
(* deletion).  NoAuthHandler.Enable is one step: two that insert at once,  *)
(* or one that finds the row gone, change nothing.  A CIDR that is on the  *)
(* list, or was, cannot be created again: UNIQUE (tenant_id, cidr), and    *)
(* deletion keeps the row.                                                 *)
(* A request to /ts/{urlToken} (HandleByToken) is outside: no middleware   *)
(* looks at its address, so it enters from anywhere.                       *)
(***************************************************************************)
EXTENDS Integers

CONSTANTS Addr, Ranges,
          Callers,         \* requests under way at once (a bound)
          ListLife,        \* lifetime of tenant:ip, in ticks
          MaxWait,         \* ticks from the start of a request's check to its end
          MaxListEdits,    \* edits in all (a bound)
          MaxListFaults,   \* failures of Redis and Postgres, and crashes (a bound)
          Absent

ASSUME AllowlistAssumption ==
  /\ Ranges \subseteq SUBSET Addr
  /\ ListLife \in Nat
  /\ MaxWait \in Nat
  /\ MaxListEdits \in Nat
  /\ MaxListFaults \in Nat
  /\ Absent \notin [on : SUBSET Ranges, age : Nat]

Caller == [addr : Addr, kind : {"credential", "address"}, age : Nat,
           at : {"check", "load", "put", "passed", "refused", "open"},
           held : SUBSET Ranges]

ASSUME CallerAssumption == Absent \notin Caller

\* How old a verdict may be, and an address without a credential.  The histories
\* count no further than one more.
VerdictBound == ListLife + MaxWait
NoauthBound  == MaxWait

VARIABLES
  ranges,      \* tenant_ip_allowlist
  noauth,      \* noauth_access
  client,      \* the tenant
  cached,      \* tenant:ip, or Absent
  listDels,    \* deletions of it still to run
  caller,      \* the requests under way, or Absent
  listEdits,
  listFaults,
  unlisted,    \* history: ticks since Postgres last let an address in
  listedFor,   \* history: ticks since it last kept it out
  unknown      \* history: ticks since FindTenantByIP last found it

allowlistVars == <<ranges, noauth, client, cached, listDels, caller, listEdits, listFaults,
                   unlisted, listedFor, unknown>>
rows == <<ranges, noauth, client>>
ages == <<unlisted, listedFor, unknown>>

\* FindByTenant.
On(r) == {c \in Ranges : r[c] = "on"}

\* Check: an empty list lets everybody in.
Admits(list, a) == list = {} \/ a \in UNION list

FindTenantByIP(r, n, t, a) == n = "active" /\ t = "active" /\ a \in UNION On(r)

\* What the histories go by: who may come with a credential, and who without one.
Welcome(r, a) == On(r) = {} \/ \E c \in On(r) : a \in c
Known(r, n, t, a) == n = "active" /\ t = "active" /\ \E c \in On(r) : a \in c

ListFault == listFaults < MaxListFaults /\ listFaults' = listFaults + 1

-----------------------------------------------------------------------------
\* A tenant that has just been created, or one that has long used both.
AllowlistInit ==
  /\ noauth \in {"none", "active"}
  /\ ranges = [c \in Ranges |-> IF noauth = "none" THEN "none" ELSE "on"]
  /\ client = "active"
  /\ cached = Absent
  /\ listDels = 0
  /\ caller = [q \in Callers |-> Absent]
  /\ listEdits = 0
  /\ listFaults = 0
  /\ unlisted = [a \in Addr |-> IF Welcome(ranges, a) THEN 0 ELSE VerdictBound + 1]
  /\ listedFor = [a \in Addr |-> IF Welcome(ranges, a) THEN VerdictBound + 1 ELSE 0]
  /\ unknown = [a \in Addr |-> IF Known(ranges, noauth, client, a) THEN 0 ELSE NoauthBound + 1]

-----------------------------------------------------------------------------
\* The panel.

\* History: what is so before a step or after it is not past.
Past(old, before, after) == [a \in Addr |-> IF before[a] \/ after[a] THEN 0 ELSE old[a]]

ListEdit(r, n, t, invalidated) ==
  /\ listEdits < MaxListEdits
  /\ listEdits' = listEdits + 1
  /\ ranges' = r
  /\ noauth' = n
  /\ client' = t
  /\ listDels' = IF invalidated THEN listDels + 1 ELSE listDels
  /\ unlisted' = Past(unlisted, [a \in Addr |-> Welcome(ranges, a)],
                                [a \in Addr |-> Welcome(r, a)])
  /\ listedFor' = Past(listedFor, [a \in Addr |-> ~Welcome(ranges, a)],
                                  [a \in Addr |-> ~Welcome(r, a)])
  /\ unknown' = Past(unknown, [a \in Addr |-> Known(ranges, noauth, client, a)],
                              [a \in Addr |-> Known(r, n, t, a)])
  /\ UNCHANGED <<cached, caller, listFaults>>

CreateRange(c) ==
  /\ client # "deleted"
  /\ ranges[c] = "none"
  /\ ListEdit([ranges EXCEPT ![c] = "on"], noauth, client, TRUE)

\* Update writes a label, even of a range that is off.
LabelRange(c) == ranges[c] # "none" /\ ListEdit(ranges, noauth, client, TRUE)

\* The only one of the three that leaves the copy in Redis.
DeleteRange(c) ==
  /\ ranges[c] # "none"
  /\ ListEdit([ranges EXCEPT ![c] = "off"], noauth, client, FALSE)

EnableNoauth  == client # "deleted" /\ ListEdit(ranges, "active", client, FALSE)
DisableNoauth == noauth # "none" /\ ListEdit(ranges, "suspended", client, FALSE)
DeleteNoauth  == ListEdit(ranges, "none", client, FALSE)

SuspendClient == client # "deleted" /\ ListEdit(ranges, noauth, "suspended", TRUE)
ReactivateClient == client # "deleted" /\ ListEdit(ranges, noauth, "active", FALSE)
\* With the rows of the tenant (ON DELETE CASCADE).
DeleteTenant ==
  /\ client # "deleted"
  /\ ListEdit([c \in Ranges |-> "none"], "none", "deleted", TRUE)

\* The DEL that ends these handlers; its error is dropped.
InvalidateIPAllowlist ==
  /\ listDels > 0
  /\ listDels' = listDels - 1
  /\ \/ cached' = Absent /\ UNCHANGED listFaults
     \/ ListFault /\ UNCHANGED cached
  /\ UNCHANGED <<rows, caller, listEdits, ages>>

-----------------------------------------------------------------------------
\* Requests.

Arrive(q, a, kind) ==
  /\ caller[q] = Absent
  /\ caller' = [caller EXCEPT ![q] =
       [addr |-> a, kind |-> kind, age |-> 0, at |-> "check", held |-> {}]]
  /\ UNCHANGED <<rows, cached, listDels, listEdits, listFaults, ages>>

ByCredential(q, a) == Arrive(q, a, "credential")
ByAddress(q, a) == FindTenantByIP(ranges, noauth, client, a) /\ Arrive(q, a, "address")

IsIn(q, place) == caller[q] # Absent /\ caller[q].at = place
Advance(q, place, list) ==
  caller' = [caller EXCEPT ![q] = [addr |-> @.addr, kind |-> @.kind, age |-> @.age,
                                   at |-> place, held |-> list]]
Judged(q, list) ==
  Advance(q, IF Admits(list, caller[q].addr) THEN "passed" ELSE "refused", {})

\* Mutant: a hit gives the entry a new lifetime.
GetAndRenewList(q) ==
  /\ IsIn(q, "check")
  /\ IF cached = Absent
     THEN Advance(q, "load", {}) /\ UNCHANGED cached
     ELSE Judged(q, cached.on) /\ cached' = [on |-> cached.on, age |-> 0]
  /\ UNCHANGED <<rows, listDels, listEdits, listFaults, ages>>

\* getCIDRs: a failing GET is a miss.
GetIPAllowlist(q) ==
  /\ IsIn(q, "check")
  /\ \/ /\ cached # Absent
        /\ Judged(q, cached.on)
        /\ UNCHANGED listFaults
     \/ /\ cached = Absent
        /\ Advance(q, "load", {})
        /\ UNCHANGED listFaults
     \/ /\ cached # Absent
        /\ ListFault
        /\ Advance(q, "load", {})
  /\ UNCHANGED <<rows, cached, listDels, listEdits, ages>>

\* Fail-open when it is Postgres that fails.
FindByTenant(q) ==
  /\ IsIn(q, "load")
  /\ \/ Advance(q, "put", On(ranges)) /\ UNCHANGED listFaults
     \/ ListFault /\ Advance(q, "open", {})
  /\ UNCHANGED <<rows, cached, listDels, listEdits, ages>>

SetIPAllowlist(q) ==
  /\ IsIn(q, "put")
  /\ Judged(q, caller[q].held)
  /\ \/ cached' = [on |-> caller[q].held, age |-> 0] /\ UNCHANGED listFaults
     \/ ListFault /\ UNCHANGED cached
  /\ UNCHANGED <<rows, listDels, listEdits, ages>>

Verdicts == {"passed", "refused", "open"}

EndCall(q) ==
  /\ caller[q] # Absent
  /\ caller[q].at \in Verdicts
  /\ caller' = [caller EXCEPT ![q] = Absent]
  /\ UNCHANGED <<rows, cached, listDels, listEdits, listFaults, ages>>

-----------------------------------------------------------------------------
EvictList ==
  /\ cached # Absent
  /\ cached' = Absent
  /\ UNCHANGED <<rows, listDels, caller, listEdits, listFaults, ages>>

\* Mutant: SET without EX.
ListKept == cached # Absent

ListLives == cached # Absent /\ cached.age < ListLife

Since(n, now, bound) == IF now THEN 0 ELSE IF n <= bound THEN n + 1 ELSE n

AllowlistTick ==
  /\ \A q \in Callers : caller[q] # Absent => caller[q].age < MaxWait
  /\ cached' = IF ListLives THEN [on |-> cached.on, age |-> cached.age + 1] ELSE Absent
  /\ caller' = [q \in Callers |-> IF caller[q] = Absent THEN Absent ELSE
       [addr |-> caller[q].addr, kind |-> caller[q].kind, age |-> caller[q].age + 1,
        at |-> caller[q].at, held |-> caller[q].held]]
  /\ unlisted' = [a \in Addr |-> Since(unlisted[a], Welcome(ranges, a), VerdictBound)]
  /\ listedFor' = [a \in Addr |-> Since(listedFor[a], ~Welcome(ranges, a), VerdictBound)]
  /\ unknown' = [a \in Addr |->
       Since(unknown[a], Known(ranges, noauth, client, a), NoauthBound)]
  /\ UNCHANGED <<rows, listDels, listEdits, listFaults>>

AllowlistCrash ==
  /\ ListFault
  /\ listDels' = 0
  /\ caller' = [q \in Callers |-> Absent]
  /\ UNCHANGED <<rows, cached, listEdits, ages>>

AllowlistNext ==
  \/ \E c \in Ranges : CreateRange(c) \/ LabelRange(c) \/ DeleteRange(c)
  \/ EnableNoauth \/ DisableNoauth \/ DeleteNoauth
  \/ SuspendClient \/ ReactivateClient \/ DeleteTenant
  \/ InvalidateIPAllowlist
  \/ \E q \in Callers :
       \/ \E a \in Addr : ByCredential(q, a) \/ ByAddress(q, a)
       \/ GetIPAllowlist(q) \/ FindByTenant(q) \/ SetIPAllowlist(q) \/ EndCall(q)
  \/ EvictList
  \/ AllowlistTick
  \/ AllowlistCrash

AllowlistSpec == AllowlistInit /\ [][AllowlistNext]_allowlistVars

-----------------------------------------------------------------------------
\* The kinds of the state, and how old the copy and the requests may be.
AllowlistTypeOK ==
  /\ ranges \in [Ranges -> {"none", "on", "off"}]
  /\ noauth \in {"none", "active", "suspended"}
  /\ client \in {"active", "suspended", "deleted"}
  /\ cached \in [on : SUBSET Ranges, age : 0..ListLife] \cup {Absent}
  /\ listDels \in 0..listEdits
  /\ caller \in [Callers -> Caller \cup {Absent}]
  /\ \A q \in Callers : caller[q] # Absent =>
       /\ caller[q].age <= MaxWait
       /\ caller[q].at # "put" => caller[q].held = {}
  /\ listEdits \in 0..MaxListEdits
  /\ listFaults \in 0..MaxListFaults
  /\ {unlisted, listedFor} \subseteq [Addr -> 0..(VerdictBound + 1)]
  /\ unknown \in [Addr -> 0..(NoauthBound + 1)]

\* What the check says, yes or no, the list in Postgres said not longer ago than
\* an entry lives and one write lags: a deletion invalidates nothing, a DEL is
\* lost or overtaken by the SET of an old list, and it is still no worse.
VerdictRecent ==
  [][\A q \in Callers :
       LET c == caller[q]
           d == caller'[q]
       IN  c # Absent /\ d # Absent /\ c.at \notin Verdicts =>
             /\ d.at = "passed" => unlisted[c.addr] <= VerdictBound
             /\ d.at = "refused" => listedFor[c.addr] <= VerdictBound]_allowlistVars

\* "Por defecto está BLOQUEADO" (migration 009): a request without a credential gets
\* through only with an address that was on the list, of an active tenant that has
\* this access, when the request came -- though the check after it is satisfied by
\* an empty list, by a stale copy and by a failure of Postgres.
NoauthRecent ==
  [][\A q \in Callers :
       LET c == caller[q]
           d == caller'[q]
       IN  c # Absent /\ d # Absent /\ c.kind = "address" /\ c.at \notin Verdicts
             /\ d.at \in {"passed", "open"}
               => unknown[c.addr] <= NoauthBound]_allowlistVars
=============================================================================
