------------------------ MODULE CredentialCacheProofs ------------------------
(***************************************************************************)
(* Proofs about CredentialCache: for any credentials, users, tenants and   *)
(* lookups, any lifetimes, any number of changes and faults.               *)
(*                                                                         *)
(* The argument: an entry, in Redis or in the hands of a lookup, says of   *)
(* every right behind its key what Postgres says, or the right has come or *)
(* gone since it was read.  Its age bounds how long ago that can be.       *)
(***************************************************************************)
EXTENDS CredentialCache, TLAPS

\* A row in use belongs to a tenant that exists: deletes cascade.
RowsLive == \A l \in Logins : row[l].status \in {"active", "revoked"} =>
                                tenant[row[l].tenant] # "gone"

\* Entry e under key k is right about t, or t's right changed n ticks ago at most.
Told(k, e, n) ==
  \A t \in Tenants : \/ since[<<Login(k), t>>] <= n
                     \/ Valid(<<Login(k), t>>) <=> (e.tenant = t /\ e.status = "active")

Fresh ==
  /\ \A k \in Key : cache[k] # None =>
       /\ cache[k].age <= Life[Path(k)]
       /\ Told(k, cache[k], cache[k].age + MaxDelay)
  /\ \A q \in Requests, k \in Key : held[q] # None /\ ask[q].key = k =>
       /\ held[q].age <= MaxDelay
       /\ Told(k, held[q], held[q].age)

Inv == TypeOK /\ RowsLive /\ Fresh

-----------------------------------------------------------------------------
LEMMA KeyFacts ==
  ASSUME NEW k \in Key
  PROVE  /\ Login(k) \in Logins
         /\ Path(k) \in Paths
         /\ \A t \in Tenants : <<Login(k), t>> \in Rights
BY DEF Key, Login, Path, Logins, Paths, Rights

LEMMA RightFacts ==
  ASSUME NEW l \in Logins, NEW t \in Tenants
  PROVE  /\ <<l, t>> \in Rights
         /\ Valid(<<l, t>>) <=> /\ row[l] = [status |-> "active", tenant |-> t]
                                /\ tenant[t] = "active"
BY DEF Rights, Valid

\* What a SELECT finds is an entry, and it is right.
LEMMA FoundTold ==
  ASSUME TypeOK, RowsLive, NEW k \in Key, Active(k)
  PROVE  /\ Found(k) \in Entry
         /\ Found(k).age = 0
         /\ Told(k, Found(k), 0)
<1>1. Login(k) \in Logins
  BY KeyFacts
<1> DEFINE r == row[Login(k)]
<1>2. r \in Rows /\ r.status = "active" /\ r.tenant \in Tenants
  BY <1>1 DEF TypeOK, Active, Rows
<1>3. tenant[r.tenant] \in {"active", "suspended"}
  BY <1>1, <1>2 DEF TypeOK, RowsLive
<1>4. Found(k) = [tenant |-> r.tenant, status |-> tenant[r.tenant], age |-> 0]
  BY DEF Found
<1>5. Found(k) \in Entry /\ Found(k).age = 0
  BY <1>2, <1>3, <1>4 DEF Entry
<1>6. ASSUME NEW t \in Tenants
      PROVE  Valid(<<Login(k), t>>) <=> (r.tenant = t /\ tenant[r.tenant] = "active")
  <2>1. r = [status |-> "active", tenant |-> t] <=> r.tenant = t
    BY <1>2 DEF Rows
  <2>. QED BY <2>1, <1>1, RightFacts
<1>. QED BY <1>4, <1>5, <1>6 DEF Told

LEMMA FoundType ==
  ASSUME TypeOK, RowsLive, NEW k \in Key, Active(k)
  PROVE  Found(k) \in Entry
BY FoundTold

LEMMA AgedFacts ==
  ASSUME NEW e \in Entry, NEW n \in Nat
  PROVE  /\ Aged(e, n) \in Entry
         /\ Aged(e, n).age = n
         /\ Aged(e, n).tenant = e.tenant
         /\ Aged(e, n).status = e.status
BY DEF Aged, Entry

\* What the judgement of an entry can be.
LEMMA JudgeType ==
  ASSUME NEW k, NEW s, NEW e \in Entry
  PROVE  Judge(k, s, e) \in Tenants \cup {"refused"}
BY DEF Judge, Entry

-----------------------------------------------------------------------------
\* Types.

WroteType == cache' \in [Key -> Entry \cup {None}] /\ faults' \in 0 .. MaxFaults

LEMMA WriteType ==
  ASSUME TypeOK, NEW q \in Requests, held[q] # None, Write(q)
  PROVE  WroteType
<1>1. ask[q].key \in Key /\ held[q] \in Entry
  BY NoneAssumption DEF TypeOK, Requested
<1>2. Aged(held[q], 0) \in Entry
  BY <1>1, AgedFacts
<1>. QED BY <1>1, <1>2, ConstantsAssumption DEF TypeOK, Write, WroteType, Fault

\* What a lookup may change, given what it does.
LEMMA LookupType ==
  ASSUME TypeOK, RowsLive, NEW q \in Requests, Lookup(q)
  PROVE  TypeOK'
<1> USE ConstantsAssumption, NoneAssumption
<1>1. ASSUME NEW k \in Key, NEW s \in Secrets(k), Get(q, k, s)  PROVE TypeOK'
  <2>1. [key |-> k, secret |-> s] \in Requested /\ [key |-> k, secret |-> s] # None
    <3>1. [key |-> k, secret |-> s] \in Requested
      BY <1>1 DEF Requested, Secrets
    <3>. QED BY <3>1
  <2>2. cache[k] # None => Judge(k, s, cache[k]) \in Tenants \cup {"refused"}
    BY JudgeType DEF TypeOK
  <2>. QED BY <1>1, <2>1, <2>2 DEF Get, Answer, Goto, TypeOK, Fault, postgres
<1>2. CASE FindByHash(q)
  BY <1>2, FoundType DEF FindByHash, Select, Hold, Answer, Goto, TypeOK, Requested, postgres
<1>3. CASE FindByURLToken(q) \/ FindByUsername(q)
  BY <1>3, FoundType, JudgeType DEF FindByURLToken, FindByUsername, DecideAndHold, Select, Hold, Answer, Goto, TypeOK, Requested, postgres
<1>4. CASE SelectFails(q)
  BY <1>4 DEF SelectFails, Select, Answer, Goto, Fault, TypeOK, postgres
<1>5. CASE SetCredential(q)
  <2>1. held[q] # None
    BY <1>5 DEF SetCredential, TypeOK
  <2>2. Judge(ask[q].key, ask[q].secret, held[q]) \in Tenants \cup {"refused"}
    BY <2>1, JudgeType DEF TypeOK
  <2>3. WroteType
    BY <1>5, <2>1, WriteType DEF SetCredential
  <2>. QED BY <1>5, <2>2, <2>3 DEF SetCredential, Answer, Goto, TypeOK, WroteType, postgres
<1>6. CASE SetInBackground(q)
  <2>1. WroteType
    BY <1>6, WriteType DEF SetInBackground
  <2>. QED BY <1>6, <2>1 DEF SetInBackground, TypeOK, WroteType, postgres
<1>7. CASE Leave(q)
  BY <1>7 DEF Leave, Goto, TypeOK, postgres
<1>. QED BY <1>1, <1>2, <1>3, <1>4, <1>5, <1>6, <1>7 DEF Lookup

LEMMA ChangeSince ==
  ASSUME TypeOK, Change
  PROVE  since' \in [Rights -> 0 .. Horizon] /\ changes' \in 0 .. MaxChanges
BY ConstantsAssumption DEF TypeOK, Change

LEMMA AdministerType ==
  ASSUME TypeOK, RowsLive, Administer
  PROVE  TypeOK' /\ RowsLive'
<1> USE ConstantsAssumption
<1>1. ASSUME NEW l \in Logins, NEW t \in Tenants, Create(l, t)  PROVE TypeOK' /\ RowsLive'
  BY <1>1, ChangeSince DEF Create, Change, TypeOK, RowsLive, Rows, lookups
<1>2. ASSUME NEW l \in Logins, Revoke(l)  PROVE TypeOK' /\ RowsLive'
  <2>1. Invalidated(l) \in Key
    BY DEF Invalidated, Key, Logins
  <2>. QED BY <1>2, <2>1, ChangeSince DEF Revoke, Change, TypeOK, RowsLive, Rows, lookups
<1>3. ASSUME NEW t \in Tenants, NEW s \in {"active", "suspended"}, SetStatus(t, s)
      PROVE  TypeOK' /\ RowsLive'
  BY <1>3, ChangeSince DEF SetStatus, Change, TypeOK, RowsLive, Rows, lookups
<1>4. ASSUME NEW t \in Tenants, Delete(t)  PROVE TypeOK' /\ RowsLive'
  <2>1. TypeOK'
    BY <1>4, ChangeSince DEF Delete, Change, TypeOK, Rows, lookups
  <2>2. RowsLive'
    BY <1>4 DEF Delete, TypeOK, RowsLive, Rows
  <2>. QED BY <2>1, <2>2
<1>. QED BY <1>1, <1>2, <1>3, <1>4 DEF Administer, Suspend, Reactivate

LEMMA StoreType ==
  ASSUME TypeOK, NEW k \in Key, Invalidate(k) \/ Evict(k)
  PROVE  TypeOK'
BY ConstantsAssumption DEF Invalidate, Evict, Fault, TypeOK, postgres, lookups

LEMMA TickType ==
  ASSUME TypeOK, Tick
  PROVE  TypeOK'
<1>1. cache' \in [Key -> Entry \cup {None}]
  <2>1. ASSUME NEW k \in Key, cache[k] # None
        PROVE  Aged(cache[k], cache[k].age + 1) \in Entry
    <3>1. cache[k] \in Entry /\ cache[k].age + 1 \in Nat
      BY <2>1 DEF TypeOK, Entry
    <3>. QED BY <3>1, AgedFacts
  <2>. QED BY <2>1 DEF Tick
<1>2. ASSUME NEW q \in Requests, held[q] # None
      PROVE  Aged(held[q], held[q].age + 1) \in Entry
  <2>1. held[q] \in Entry /\ held[q].age + 1 \in Nat
    BY <1>2 DEF TypeOK, Entry
  <2>. QED BY <2>1, AgedFacts
<1>3. held' \in [Requests -> Entry \cup {None}]
  BY <1>2 DEF Tick
<1>4. \A q \in Requests : held'[q] # None <=> held[q] # None
  BY <1>2, NoneAssumption DEF Tick
<1>5. since' \in [Rights -> 0 .. Horizon]
  BY ConstantsAssumption DEF Tick, TypeOK
<1>. QED BY <1>1, <1>3, <1>4, <1>5 DEF Tick, TypeOK, postgres

LEMMA TypeStep ==
  ASSUME TypeOK, RowsLive, [Next]_vars
  PROVE  TypeOK' /\ RowsLive'
<1>1. ASSUME NEW q \in Requests, Lookup(q)  PROVE TypeOK' /\ RowsLive'
  <2>1. UNCHANGED postgres
    BY <1>1 DEF Lookup, Get, FindByHash, FindByURLToken, FindByUsername, SelectFails, Select, SetCredential, SetInBackground, Leave
  <2>. QED BY <1>1, <2>1, LookupType DEF RowsLive, postgres
<1>2. CASE Administer
  BY <1>2, AdministerType
<1>3. ASSUME NEW k \in Key, Invalidate(k) \/ Evict(k)  PROVE TypeOK' /\ RowsLive'
  BY <1>3, StoreType DEF Invalidate, Evict, RowsLive, postgres
<1>4. CASE Tick
  BY <1>4, TickType DEF Tick, RowsLive, postgres
<1>5. CASE Crash
  BY <1>5, ConstantsAssumption, NoneAssumption DEF Crash, Fault, TypeOK, RowsLive, postgres
<1>6. CASE UNCHANGED vars
  BY <1>6 DEF vars, TypeOK, RowsLive
<1>. QED BY <1>1, <1>2, <1>3, <1>4, <1>5, <1>6 DEF Next

LEMMA TypeInit == Init => TypeOK /\ RowsLive
BY ConstantsAssumption DEF Init, TypeOK, RowsLive, Rows

\* The state of every lookup, entry and right has its type, and a lookup carries
\* an entry exactly where the code does.
THEOREM TypeCorrect == Spec => []TypeOK
<1>1. Spec => [](TypeOK /\ RowsLive)
  BY TypeInit, TypeStep, PTL DEF Spec
<1>. QED BY <1>1, PTL

-----------------------------------------------------------------------------
\* Entries are fresh.

\* Told, of an entry as it is now, after the step.
NowTold(k, e, n) ==
  \A t \in Tenants : \/ since'[<<Login(k), t>>] <= n
                     \/ Valid(<<Login(k), t>>)' <=> (e.tenant = t /\ e.status = "active")

LEMMA QuietTold ==
  ASSUME UNCHANGED <<tenant, row, since>>, NEW k, NEW e, NEW n, Told(k, e, n)
  PROVE  NowTold(k, e, n)
BY DEF Told, NowTold, Valid

LEMMA ChangeTold ==
  ASSUME TypeOK, Change, NEW k \in Key, NEW e, NEW n \in Nat, Told(k, e, n)
  PROVE  NowTold(k, e, n)
<1> SUFFICES ASSUME NEW t \in Tenants, ~(since'[<<Login(k), t>>] <= n)
             PROVE  Valid(<<Login(k), t>>)' <=> (e.tenant = t /\ e.status = "active")
  BY DEF NowTold
<1> DEFINE g == <<Login(k), t>>
<1>1. g \in Rights
  BY KeyFacts
<1>2. since'[g] = IF Valid(g)' = Valid(g) THEN since[g] ELSE 0
  BY <1>1 DEF Change
<1>3. Valid(g)' = Valid(g) /\ since'[g] = since[g]
  BY <1>2
<1>. QED BY <1>3 DEF Told

LEMMA TickTold ==
  ASSUME TypeOK, Tick, NEW k \in Key, NEW e, NEW n \in Nat, Told(k, e, n)
  PROVE  NowTold(k, e, n + 1)
<1> SUFFICES ASSUME NEW t \in Tenants
             PROVE  \/ since'[<<Login(k), t>>] <= n + 1
                    \/ Valid(<<Login(k), t>>)' <=> (e.tenant = t /\ e.status = "active")
  BY DEF NowTold
<1> DEFINE g == <<Login(k), t>>
<1>1. g \in Rights
  BY KeyFacts
<1>2. since[g] \in Nat /\ since'[g] \in Nat /\ since'[g] <= since[g] + 1
  BY <1>1, ConstantsAssumption DEF Tick, TypeOK
<1>3. Valid(g)' <=> Valid(g)
  BY DEF Tick, Valid, postgres
<1>4. CASE since[g] <= n
  BY <1>2, <1>4
<1>5. CASE ~(since[g] <= n)
  BY <1>3, <1>5 DEF Told
<1>. QED BY <1>4, <1>5

\* Fresh, after the step.
FreshCache ==
  \A k \in Key : cache'[k] # None =>
    /\ cache'[k].age <= Life[Path(k)]
    /\ NowTold(k, cache'[k], cache'[k].age + MaxDelay)

FreshHeld ==
  \A q \in Requests, k \in Key : held'[q] # None /\ ask'[q].key = k =>
    /\ held'[q].age <= MaxDelay
    /\ NowTold(k, held'[q], held'[q].age)

LEMMA FreshNext == FreshCache /\ FreshHeld => Fresh'
<1>2. FreshCache => (\A k \in Key : cache[k] # None =>
                       /\ cache[k].age <= Life[Path(k)]
                       /\ Told(k, cache[k], cache[k].age + MaxDelay))'
  BY DEF FreshCache, NowTold, Told, Login, Path, Valid
<1>3. FreshHeld => (\A q \in Requests, k \in Key : held[q] # None /\ ask[q].key = k =>
                      /\ held[q].age <= MaxDelay
                      /\ Told(k, held[q], held[q].age))'
  BY DEF FreshHeld, NowTold, Told, Login, Valid
<1>. QED BY <1>2, <1>3 DEF Fresh

LEMMA HeldFacts ==
  ASSUME TypeOK, NEW q \in Requests, held[q] # None
  PROVE  /\ pc[q] \in {"set", "done"}
         /\ ask[q] \in Requested
         /\ ask[q].key \in Key
         /\ held[q] \in Entry
         /\ held[q].age \in Nat
BY NoneAssumption DEF TypeOK, Requested, Entry

LEMMA CacheFacts ==
  ASSUME TypeOK, NEW k \in Key, cache[k] # None
  PROVE  cache[k] \in Entry /\ cache[k].age \in Nat
BY DEF TypeOK, Entry

\* A step that changes neither rows nor times and writes no entry.
LEMMA QuietCache ==
  ASSUME Fresh, UNCHANGED <<tenant, row, since>>,
         \A k \in Key : cache'[k] \in {cache[k], None}
  PROVE  FreshCache
BY QuietTold DEF Fresh, FreshCache

LEMMA QuietHeld ==
  ASSUME Fresh, UNCHANGED <<tenant, row, since>>,
         \A q \in Requests : held'[q] # None => held'[q] = held[q] /\ ask'[q] = ask[q]
  PROVE  FreshHeld
BY QuietTold DEF Fresh, FreshHeld

\* A SELECT gives a lookup an entry that is right at the moment.
LEMMA HoldFresh ==
  ASSUME Inv, UNCHANGED <<tenant, row, since, ask>>, NEW q \in Requests,
         ask[q].key \in Key, Active(ask[q].key), Hold(q)
  PROVE  FreshHeld
<1> DEFINE k == ask[q].key
<1>1. Found(k).age = 0 /\ NowTold(k, Found(k), 0)
  BY FoundTold, QuietTold DEF Inv
<1>2. held'[q] = Found(k) /\ \A p \in Requests : p # q => held'[p] = held[p]
  BY DEF Hold, Inv, TypeOK
<1>3. ASSUME NEW p \in Requests, NEW j \in Key, held'[p] # None, ask'[p].key = j
      PROVE  held'[p].age <= MaxDelay /\ NowTold(j, held'[p], held'[p].age)
  <2>1. CASE p = q
    BY <2>1, <1>1, <1>2, <1>3, ConstantsAssumption
  <2>2. CASE p # q
    BY <2>2, <1>2, <1>3, QuietTold DEF Inv, Fresh
  <2>. QED BY <2>1, <2>2
<1>. QED BY <1>3 DEF FreshHeld

\* A SET writes an entry that was right at most MaxDelay ago.
LEMMA WriteFresh ==
  ASSUME Inv, UNCHANGED <<tenant, row, since>>, NEW q \in Requests, held[q] # None, Write(q)
  PROVE  FreshCache
<1> DEFINE k == ask[q].key
           e == Aged(held[q], 0)
<1>1. k \in Key /\ held[q] \in Entry
  BY HeldFacts DEF Inv
<1>2. e.age = 0 /\ e.tenant = held[q].tenant /\ e.status = held[q].status
  BY <1>1, AgedFacts
<1>3. held[q].age <= MaxDelay /\ held[q].age \in Nat /\ Told(k, held[q], held[q].age)
  BY HeldFacts DEF Inv, Fresh
<1>4. Told(k, e, 0 + MaxDelay)
  <2> SUFFICES ASSUME NEW t \in Tenants
               PROVE  \/ since[<<Login(k), t>>] <= 0 + MaxDelay
                      \/ Valid(<<Login(k), t>>) <=> (e.tenant = t /\ e.status = "active")
    BY DEF Told
  <2>1. since[<<Login(k), t>>] \in Nat
    BY <1>1, KeyFacts, ConstantsAssumption DEF Inv, TypeOK
  <2>. QED BY <2>1, <1>2, <1>3, ConstantsAssumption DEF Told
<1>5. NowTold(k, e, 0 + MaxDelay) /\ e.age <= Life[Path(k)]
  BY <1>1, <1>2, <1>4, QuietTold, KeyFacts, ConstantsAssumption
<1>6. CASE cache' = [cache EXCEPT ![k] = e]
  <2>1. cache'[k] = e /\ \A j \in Key : j # k => cache'[j] = cache[j]
    BY <1>1, <1>6 DEF Inv, TypeOK
  <2>2. ASSUME NEW j \in Key, cache'[j] # None
        PROVE  cache'[j].age <= Life[Path(j)] /\ NowTold(j, cache'[j], cache'[j].age + MaxDelay)
    <3>1. CASE j = k
      BY <3>1, <2>1, <1>2, <1>5
    <3>2. CASE j # k
      BY <3>2, <2>1, <2>2, QuietTold DEF Inv, Fresh
    <3>. QED BY <3>1, <3>2
  <2>. QED BY <2>2 DEF FreshCache
<1>7. CASE UNCHANGED cache
  BY <1>7, QuietCache DEF Inv
<1>. QED BY <1>6, <1>7 DEF Write

LEMMA LookupFresh ==
  ASSUME Inv, NEW q \in Requests, Lookup(q)
  PROVE  FreshCache /\ FreshHeld
<1> USE DEF Inv
<1>1. ASSUME NEW k \in Key, NEW s \in Secrets(k), Get(q, k, s)  PROVE FreshCache /\ FreshHeld
  <2>1. held[q] = None
    BY <1>1, HeldFacts DEF Get
  <2>2. UNCHANGED <<tenant, row, since, cache, held>> /\ \A p \in Requests : p # q => ask'[p] = ask[p]
    BY <1>1 DEF Get, postgres, TypeOK
  <2>. QED BY <2>1, <2>2, QuietCache, QuietHeld
<1>2. CASE FindByHash(q) \/ FindByURLToken(q) \/ FindByUsername(q)
  <2>1. pc[q] = "select" /\ UNCHANGED <<tenant, row, since, cache, ask>>
    BY <1>2 DEF FindByHash, FindByURLToken, FindByUsername, Select, postgres
  <2>2. ask[q].key \in Key
    BY <2>1 DEF TypeOK, Requested
  <2>3. \/ Active(ask[q].key) /\ Hold(q)
        \/ UNCHANGED held
    BY <1>2 DEF FindByHash, FindByURLToken, FindByUsername, DecideAndHold
  <2>4. FreshCache
    BY <2>1, QuietCache
  <2>5. CASE Active(ask[q].key) /\ Hold(q)
    BY <2>1, <2>2, <2>4, <2>5, HoldFresh
  <2>6. CASE UNCHANGED held
    BY <2>1, <2>4, <2>6, QuietHeld
  <2>. QED BY <2>3, <2>5, <2>6
<1>3. CASE SelectFails(q)
  <2>1. UNCHANGED <<tenant, row, since, cache, ask, held>>
    BY <1>3 DEF SelectFails, Select, postgres
  <2>. QED BY <2>1, QuietCache, QuietHeld
<1>4. CASE SetCredential(q) \/ SetInBackground(q)
  <2>1. held[q] # None /\ Write(q) /\ UNCHANGED <<tenant, row, since, ask>>
    BY <1>4 DEF SetCredential, SetInBackground, postgres, TypeOK
  <2>2. \A p \in Requests : held'[p] # None => held'[p] = held[p]
    BY <1>4 DEF SetCredential, SetInBackground, TypeOK
  <2>. QED BY <2>1, <2>2, WriteFresh, QuietHeld
<1>5. CASE Leave(q)
  <2>1. held[q] = None /\ UNCHANGED <<tenant, row, since, cache, held>>
    BY <1>5 DEF Leave, postgres
  <2>2. \A p \in Requests : p # q => ask'[p] = ask[p]
    BY <1>5 DEF Leave, TypeOK
  <2>. QED BY <2>1, <2>2, QuietCache, QuietHeld
<1>. QED BY <1>1, <1>2, <1>3, <1>4, <1>5 DEF Lookup

LEMMA AdministerFresh ==
  ASSUME Inv, Administer
  PROVE  FreshCache /\ FreshHeld
<1>1. Change
  BY DEF Administer, Create, Revoke, Suspend, Reactivate, SetStatus, Delete
<1>2. UNCHANGED <<cache, ask, held>>
  BY <1>1 DEF Change, lookups
<1>3. ASSUME NEW k \in Key, cache[k] # None
      PROVE  /\ cache[k].age <= Life[Path(k)]
             /\ NowTold(k, cache[k], cache[k].age + MaxDelay)
  <2>1. cache[k].age + MaxDelay \in Nat
    BY <1>3, CacheFacts, ConstantsAssumption DEF Inv
  <2>2. cache[k].age <= Life[Path(k)] /\ Told(k, cache[k], cache[k].age + MaxDelay)
    BY <1>3 DEF Inv, Fresh
  <2>. QED BY <1>1, <2>1, <2>2, ChangeTold DEF Inv
<1>4. ASSUME NEW q \in Requests, NEW k \in Key, held[q] # None, ask[q].key = k
      PROVE  held[q].age <= MaxDelay /\ NowTold(k, held[q], held[q].age)
  <2>1. held[q].age \in Nat
    BY <1>4, HeldFacts DEF Inv
  <2>2. held[q].age <= MaxDelay /\ Told(k, held[q], held[q].age)
    BY <1>4 DEF Inv, Fresh
  <2>. QED BY <1>1, <2>1, <2>2, ChangeTold DEF Inv
<1>. QED BY <1>2, <1>3, <1>4 DEF FreshCache, FreshHeld

LEMMA TickFresh ==
  ASSUME Inv, Tick
  PROVE  FreshCache /\ FreshHeld
<1>1. ASSUME NEW k \in Key, cache'[k] # None
      PROVE  /\ cache'[k].age <= Life[Path(k)]
             /\ NowTold(k, cache'[k], cache'[k].age + MaxDelay)
  <2> DEFINE e == Aged(cache[k], cache[k].age + 1)
  <2>1. cache[k] # None /\ cache[k].age < Life[Path(k)] /\ cache'[k] = e
    BY <1>1 DEF Tick
  <2>2. cache[k] \in Entry /\ cache[k].age \in Nat /\ cache[k].age + 1 \in Nat
    BY <2>1, CacheFacts DEF Inv
  <2>3. e.age = cache[k].age + 1 /\ e.tenant = cache[k].tenant /\ e.status = cache[k].status
    BY <2>2, AgedFacts
  <2>4. Told(k, cache[k], cache[k].age + MaxDelay)
    BY <2>1 DEF Inv, Fresh
  <2>5. NowTold(k, cache[k], cache[k].age + MaxDelay + 1)
    BY <2>2, <2>4, TickTold, ConstantsAssumption DEF Inv
  <2>6. e.age <= Life[Path(k)]
    BY <2>1, <2>2, <2>3, KeyFacts, ConstantsAssumption
  <2>7. e.age + MaxDelay = cache[k].age + MaxDelay + 1
    BY <2>2, <2>3, ConstantsAssumption
  <2>8. NowTold(k, e, e.age + MaxDelay)
    BY <2>3, <2>5, <2>7 DEF NowTold
  <2>. QED BY <2>1, <2>6, <2>8
<1>2. ASSUME NEW q \in Requests, NEW k \in Key, held'[q] # None, ask'[q].key = k
      PROVE  held'[q].age <= MaxDelay /\ NowTold(k, held'[q], held'[q].age)
  <2> DEFINE e == Aged(held[q], held[q].age + 1)
  <2>1. held[q] # None /\ held[q].age < MaxDelay /\ held'[q] = e /\ ask[q].key = k
    BY <1>2 DEF Tick
  <2>2. held[q] \in Entry /\ held[q].age \in Nat /\ held[q].age + 1 \in Nat
    BY <2>1, HeldFacts DEF Inv
  <2>3. e.age = held[q].age + 1 /\ e.tenant = held[q].tenant /\ e.status = held[q].status
    BY <2>2, AgedFacts
  <2>4. Told(k, held[q], held[q].age)
    BY <2>1 DEF Inv, Fresh
  <2>5. NowTold(k, held[q], held[q].age + 1)
    BY <2>2, <2>4, TickTold DEF Inv
  <2>6. e.age <= MaxDelay
    BY <2>1, <2>2, <2>3, ConstantsAssumption
  <2>7. NowTold(k, e, e.age)
    BY <2>3, <2>5 DEF NowTold
  <2>. QED BY <2>1, <2>6, <2>7
<1>. QED BY <1>1, <1>2 DEF FreshCache, FreshHeld

LEMMA InvStep ==
  ASSUME Inv, [Next]_vars
  PROVE  Inv'
<1>1. TypeOK' /\ RowsLive'
  BY TypeStep DEF Inv
<1>2. ASSUME NEW q \in Requests, Lookup(q)  PROVE FreshCache /\ FreshHeld
  BY <1>2, LookupFresh
<1>3. ASSUME Administer  PROVE FreshCache /\ FreshHeld
  BY <1>3, AdministerFresh
<1>4. ASSUME NEW k \in Key, Invalidate(k) \/ Evict(k)  PROVE FreshCache /\ FreshHeld
  <2>1. UNCHANGED <<tenant, row, since, ask, held>>
    BY <1>4 DEF Invalidate, Evict, postgres, lookups
  <2>2. \A j \in Key : cache'[j] \in {cache[j], None}
    BY <1>4 DEF Invalidate, Evict, Inv, TypeOK
  <2>. QED BY <2>1, <2>2, QuietCache, QuietHeld DEF Inv
<1>5. ASSUME Tick  PROVE FreshCache /\ FreshHeld
  BY <1>5, TickFresh
<1>6. ASSUME Crash  PROVE FreshCache /\ FreshHeld
  <2>1. UNCHANGED <<tenant, row, since, cache>> /\ \A q \in Requests : held'[q] = None
    BY <1>6 DEF Crash, postgres
  <2>. QED BY <2>1, QuietCache, QuietHeld DEF Inv
<1>7. ASSUME UNCHANGED vars  PROVE FreshCache /\ FreshHeld
  BY <1>7, QuietCache, QuietHeld DEF vars, Inv
<1>8. FreshCache /\ FreshHeld
  BY <1>2, <1>3, <1>4, <1>5, <1>6, <1>7 DEF Next
<1>. QED BY <1>1, <1>8, FreshNext DEF Inv

LEMMA InvInit == Init => Inv
<1>1. Init => Fresh
  BY DEF Init, Fresh
<1>. QED BY <1>1, TypeInit DEF Inv

\* Whatever an entry says was true of Postgres when it was read, or has changed
\* since within the entry's age and one delayed write.
THEOREM FreshCorrect == Spec => []Inv
BY InvInit, InvStep, PTL DEF Spec

-----------------------------------------------------------------------------
\* Decisions.

\* What both properties ask of an answer r to secret s under key k.
Sound(k, s, r) ==
  /\ r \in Tenants => /\ Valid(<<Login(k), r>>) \/ Recently(<<Login(k), r>>, k)
                      /\ Path(k) = "user" => r = s
  /\ r = "refused" =>
       \A t \in Tenants : (Path(k) = "user" => t = s) =>
         ~Valid(<<Login(k), t>>) \/ Recently(<<Login(k), t>>, k)

\* An entry that is right, or was so recently, is judged soundly.
LEMMA JudgeSound ==
  ASSUME TypeOK, NEW k \in Key, NEW s, NEW e \in Entry, NEW n \in Nat,
         n <= Life[Path(k)] + MaxDelay, Told(k, e, n)
  PROVE  Sound(k, s, Judge(k, s, e))
<1> USE ConstantsAssumption
<1>1. ASSUME NEW t \in Tenants
      PROVE  \/ Recently(<<Login(k), t>>, k)
             \/ Valid(<<Login(k), t>>) <=> (e.tenant = t /\ e.status = "active")
  <2>1. since[<<Login(k), t>>] \in Nat /\ Life[Path(k)] + MaxDelay \in Nat
    BY KeyFacts DEF TypeOK
  <2>2. CASE since[<<Login(k), t>>] <= n
    BY <2>1, <2>2 DEF Recently
  <2>3. CASE ~(since[<<Login(k), t>>] <= n)
    BY <2>3 DEF Told
  <2>. QED BY <2>2, <2>3
<1>2. e.tenant \in Tenants /\ e.status \in {"active", "suspended"} /\ "refused" \notin Tenants
  BY DEF Entry
<1>3. CASE Judge(k, s, e) = "refused"
  <2>1. e.status = "suspended" \/ (Path(k) = "user" /\ e.tenant # s)
    BY <1>2, <1>3 DEF Judge
  <2>2. ASSUME NEW t \in Tenants, Path(k) = "user" => t = s
        PROVE  ~Valid(<<Login(k), t>>) \/ Recently(<<Login(k), t>>, k)
    BY <1>1, <2>1, <2>2
  <2>. QED BY <1>2, <1>3, <2>2 DEF Sound
<1>4. CASE Judge(k, s, e) # "refused"
  <2>1. Judge(k, s, e) = e.tenant /\ e.status = "active" /\ (Path(k) = "user" => e.tenant = s)
    BY <1>2, <1>4 DEF Judge
  <2>2. Valid(<<Login(k), e.tenant>>) \/ Recently(<<Login(k), e.tenant>>, k)
    BY <1>1, <1>2, <2>1
  <2>. QED BY <1>2, <1>4, <2>1, <2>2 DEF Sound
<1>. QED BY <1>3, <1>4

\* Without an active row there is no right.
LEMMA InactiveSound ==
  ASSUME TypeOK, NEW k \in Key, NEW s, ~Active(k)
  PROVE  Sound(k, s, "refused")
<1>1. "refused" \notin Tenants
  BY ConstantsAssumption
<1>2. \A t \in Tenants : ~Valid(<<Login(k), t>>)
  <2> SUFFICES ASSUME NEW t \in Tenants, Valid(<<Login(k), t>>)  PROVE FALSE
    OBVIOUS
  <2>1. row[Login(k)] = [status |-> "active", tenant |-> t]
    BY KeyFacts, RightFacts
  <2>. QED BY <2>1 DEF Active
<1>. QED BY <1>1, <1>2 DEF Sound

\* Every answer is sound, but for a refusal in a step that is a fault.
LEMMA DecisionSound ==
  ASSUME Inv, [Next]_vars, NEW q \in Requests, Decided(q),
         faults' = faults \/ reply'[q] # "refused"
  PROVE  /\ ask'[q].key \in Key
         /\ Sound(ask'[q].key, ask'[q].secret, reply'[q])
<1> USE ConstantsAssumption DEF Inv, Decided
<1> DEFINE Goal == /\ ask'[q].key \in Key
                   /\ Sound(ask'[q].key, ask'[q].secret, reply'[q])
<1>1. \A k \in Key : Life[Path(k)] \in Nat /\ 0 \in Nat /\ MaxDelay \in Nat
  BY KeyFacts
<1>2. ASSUME NEW k \in Key, NEW s \in Secrets(k), Get(q, k, s)  PROVE Goal
  <2>1. cache[k] # None /\ reply'[q] = Judge(k, s, cache[k])
    BY <1>2 DEF Get, Answer, Goto, TypeOK
  <2>2. ask'[q] = [key |-> k, secret |-> s]
    BY <1>2 DEF Get, TypeOK
  <2>3. cache[k] \in Entry /\ cache[k].age \in Nat
    BY <2>1, CacheFacts
  <2>4. cache[k].age <= Life[Path(k)] /\ Told(k, cache[k], cache[k].age + MaxDelay)
    BY <2>1 DEF Fresh
  <2>5. Sound(k, s, Judge(k, s, cache[k]))
    BY <1>1, <2>3, <2>4, JudgeSound
  <2>. QED BY <2>1, <2>2, <2>5
<1>3. ASSUME FindByHash(q) \/ FindByURLToken(q) \/ FindByUsername(q)  PROVE Goal
  <2>1. pc[q] = "select" /\ UNCHANGED ask
    BY <1>3 DEF FindByHash, FindByURLToken, FindByUsername, Select
  <2>2. ask[q].key \in Key
    BY <2>1 DEF TypeOK, Requested
  <2>3. \/ ~Active(ask[q].key) /\ reply'[q] = "refused"
        \/ Active(ask[q].key) /\ reply'[q] = Judge(ask[q].key, ask[q].secret, Found(ask[q].key))
    BY <1>3 DEF FindByHash, FindByURLToken, FindByUsername, DecideAndHold, Answer, Goto, TypeOK
  <2>4. CASE ~Active(ask[q].key) /\ reply'[q] = "refused"
    BY <2>1, <2>2, <2>4, InactiveSound
  <2>5. CASE Active(ask[q].key) /\ reply'[q] = Judge(ask[q].key, ask[q].secret, Found(ask[q].key))
    <3>1. Found(ask[q].key) \in Entry /\ Told(ask[q].key, Found(ask[q].key), 0)
      BY <2>2, <2>5, FoundTold
    <3>2. 0 <= Life[Path(ask[q].key)] + MaxDelay
      BY <1>1, <2>2
    <3>. QED BY <2>1, <2>2, <2>5, <3>1, <3>2, JudgeSound
  <2>. QED BY <2>3, <2>4, <2>5
<1>4. ASSUME SelectFails(q)  PROVE Goal
  BY <1>4 DEF SelectFails, Answer, Fault, TypeOK
<1>5. ASSUME SetCredential(q)  PROVE Goal
  <2>1. held[q] # None /\ UNCHANGED ask /\ reply'[q] = Judge(ask[q].key, ask[q].secret, held[q])
    BY <1>5 DEF SetCredential, Answer, Goto, TypeOK
  <2>2. ask[q].key \in Key /\ held[q] \in Entry /\ held[q].age \in Nat
    BY <2>1, HeldFacts
  <2>3. held[q].age <= MaxDelay /\ Told(ask[q].key, held[q], held[q].age)
    BY <2>1, <2>2 DEF Fresh
  <2>4. held[q].age <= Life[Path(ask[q].key)] + MaxDelay
    BY <1>1, <2>2, <2>3
  <2>. QED BY <2>1, <2>2, <2>3, <2>4, JudgeSound
<1>6. ASSUME SetInBackground(q) \/ Leave(q)  PROVE Goal
  BY <1>6 DEF SetInBackground, Leave, Goto, TypeOK
<1>7. ASSUME NEW p \in Requests, p # q, Lookup(p)  PROVE Goal
  <2>1. pc'[q] = pc[q]
    BY <1>7 DEF Lookup, Get, FindByHash, FindByURLToken, FindByUsername, DecideAndHold, SelectFails, Select, SetCredential, SetInBackground, Leave, Answer, Goto, TypeOK
  <2>. QED BY <2>1
<1>8. ASSUME Administer \/ (\E k \in Key : Invalidate(k) \/ Evict(k)) \/ Tick \/ UNCHANGED vars
      PROVE  Goal
  <2>1. UNCHANGED pc
    BY <1>8 DEF Administer, Create, Revoke, Suspend, Reactivate, SetStatus, Delete, Change, Invalidate, Evict, Tick, lookups, vars
  <2>. QED BY <2>1
<1>9. ASSUME Crash  PROVE Goal
  BY <1>9 DEF Crash
<1>. QED BY <1>2, <1>3, <1>4, <1>5, <1>6, <1>7, <1>8, <1>9 DEF Next, Lookup

\* The properties of CredentialCache that speak of times, for every instance.

\* No credential admits anybody later than the lifetime of an entry and one write
\* after it stopped giving the right to stamp.
THEOREM Admission == Spec => AdmissionRecent
<1>1. ASSUME Inv, [Next]_vars, NEW q \in Requests, Decided(q), reply'[q] \in Tenants
      PROVE  LET k == ask'[q].key
                 g == <<Login(k), reply'[q]>>
             IN  /\ Valid(g) \/ Recently(g, k)
                 /\ Path(k) = "user" => reply'[q] = ask'[q].secret
  <2>1. reply'[q] # "refused"
    BY <1>1, ConstantsAssumption
  <2>. QED BY <1>1, <2>1, DecisionSound DEF Sound
<1>2. Inv /\ [Next]_vars =>
        [\A q \in Requests : Decided(q) /\ reply'[q] \in Tenants =>
           LET k == ask'[q].key
               g == <<Login(k), reply'[q]>>
           IN  /\ Valid(g) \/ Recently(g, k)
               /\ Path(k) = "user" => reply'[q] = ask'[q].secret]_vars
  BY <1>1
<1>. QED BY FreshCorrect, <1>2, PTL DEF Spec, AdmissionRecent

\* Nobody with a right to stamp is refused later than that after it came.
THEOREM Refusal == Spec => RefusalRecent
<1>1. ASSUME Inv, [Next]_vars, NEW q \in Requests, Decided(q), reply'[q] = "refused",
             faults' = faults
      PROVE  LET k == ask'[q].key
             IN  \A t \in Tenants :
                   (Path(k) = "user" => t = ask'[q].secret) =>
                     LET g == <<Login(k), t>> IN ~Valid(g) \/ Recently(g, k)
  BY <1>1, DecisionSound DEF Sound
<1>2. Inv /\ [Next]_vars =>
        [\A q \in Requests : Decided(q) /\ reply'[q] = "refused" /\ faults' = faults =>
           LET k == ask'[q].key
           IN  \A t \in Tenants :
                 (Path(k) = "user" => t = ask'[q].secret) =>
                   LET g == <<Login(k), t>> IN ~Valid(g) \/ Recently(g, k)]_vars
  BY <1>1
<1>. QED BY FreshCorrect, <1>2, PTL DEF Spec, RefusalRecent

-----------------------------------------------------------------------------
\* Revocations.

LEMMA InvalidatedFacts ==
  ASSUME NEW l \in Logins
  PROVE  Invalidated(l) \in Key /\ Login(Invalidated(l)) = l
BY DEF Invalidated, Key, Login, Logins

\* Nothing is cached, or about to be, under key k.
Clean(k) == /\ cache[k] = None
            /\ \A q \in Requests : held[q] # None => ask[q].key # k

CleanNext(k) == /\ cache'[k] = None
                /\ \A q \in Requests : held'[q] # None => ask'[q].key # k

\* A lookup leaves the key of a revoked row clean.
LEMMA LookupClean ==
  ASSUME Inv, NEW q \in Requests, Lookup(q), NEW k \in Key, ~Active(k), Clean(k)
  PROVE  CleanNext(k)
<1> USE DEF Inv, TypeOK, Clean
<1>1. ASSUME NEW j \in Key, NEW s \in Secrets(j), Get(q, j, s)  PROVE CleanNext(k)
  <2>1. held[q] = None /\ UNCHANGED <<cache, held>>
    BY <1>1, HeldFacts DEF Get
  <2>2. \A p \in Requests : p # q => ask'[p] = ask[p]
    BY <1>1 DEF Get
  <2>. QED BY <2>1, <2>2 DEF CleanNext
<1>2. ASSUME FindByHash(q) \/ FindByURLToken(q) \/ FindByUsername(q)  PROVE CleanNext(k)
  <2>1. UNCHANGED <<cache, ask>>
    BY <1>2 DEF FindByHash, FindByURLToken, FindByUsername, Select
  <2>2. \/ Active(ask[q].key) /\ Hold(q)
        \/ UNCHANGED held
    BY <1>2 DEF FindByHash, FindByURLToken, FindByUsername, DecideAndHold
  <2>3. CASE Active(ask[q].key) /\ Hold(q)
    <3>1. ask[q].key # k
      BY <2>3
    <3>2. \A p \in Requests : p # q => held'[p] = held[p]
      BY <2>3 DEF Hold
    <3>. QED BY <2>1, <3>1, <3>2 DEF CleanNext
  <2>4. CASE UNCHANGED held
    BY <2>1, <2>4 DEF CleanNext
  <2>. QED BY <2>2, <2>3, <2>4
<1>3. ASSUME SelectFails(q)  PROVE CleanNext(k)
  BY <1>3 DEF SelectFails, Select, CleanNext
<1>4. ASSUME SetCredential(q) \/ SetInBackground(q)  PROVE CleanNext(k)
  <2>1. held[q] # None /\ Write(q) /\ UNCHANGED ask
    BY <1>4 DEF SetCredential, SetInBackground
  <2>2. ask[q].key # k /\ ask[q].key \in Key
    BY <2>1, HeldFacts
  <2>3. cache'[k] = None
    BY <2>1, <2>2 DEF Write
  <2>4. \A p \in Requests : held'[p] # None => held'[p] = held[p]
    BY <1>4 DEF SetCredential, SetInBackground
  <2>. QED BY <2>1, <2>3, <2>4 DEF CleanNext
<1>5. ASSUME Leave(q)  PROVE CleanNext(k)
  <2>1. held[q] = None /\ UNCHANGED <<cache, held>>
    BY <1>5 DEF Leave
  <2>2. \A p \in Requests : p # q => ask'[p] = ask[p]
    BY <1>5 DEF Leave
  <2>. QED BY <2>1, <2>2 DEF CleanNext
<1>. QED BY <1>1, <1>2, <1>3, <1>4, <1>5 DEF Lookup

Revoked == faults = 0 =>
             \A l \in Logins : row[l].status = "revoked" /\ Invalidated(l) \notin dels \cup raced
                                 => Clean(Invalidated(l))

LEMMA RevokedIs == Revoked <=> RevokedOnlyByRace
BY DEF Revoked, RevokedOnlyByRace, Clean

LEMMA RevokedStep ==
  ASSUME Inv, Revoked, [Next]_vars
  PROVE  Revoked'
<1> USE DEF Inv
<1> SUFFICES ASSUME faults' = 0, NEW l \in Logins, row'[l].status = "revoked",
                    Invalidated(l) \notin dels' \cup raced'
             PROVE  CleanNext(Invalidated(l))
  BY DEF Revoked, Clean, CleanNext, Invalidated
<1> DEFINE k == Invalidated(l)
<1>1. k \in Key /\ Login(k) = l
  BY InvalidatedFacts
<1>2. faults \in Nat /\ (\A kind : Fault(kind) => faults' # 0)
  BY ConstantsAssumption DEF TypeOK, Fault
<1>3. ASSUME faults = 0, row[l].status = "revoked", k \notin dels \cup raced
      PROVE  Clean(k)
  BY <1>3 DEF Revoked
<1>4. ASSUME NEW q \in Requests, Lookup(q)  PROVE CleanNext(k)
  <2>1. UNCHANGED <<row, dels, raced>>
    BY <1>4 DEF Lookup, Get, FindByHash, FindByURLToken, FindByUsername, SelectFails, Select, SetCredential, SetInBackground, Leave, postgres
  <2>2. faults = 0
    BY <1>2, <1>4 DEF Lookup, Get, FindByHash, FindByURLToken, FindByUsername, SelectFails, SetCredential, SetInBackground, Write, Leave
  <2>3. Clean(k) /\ ~Active(k)
    BY <1>1, <1>3, <2>1, <2>2 DEF Active
  <2>. QED BY <1>1, <1>4, <2>3, LookupClean
<1>5. ASSUME Administer  PROVE CleanNext(k)
  <2>1. Change
    BY <1>5 DEF Administer, Create, Revoke, Suspend, Reactivate, SetStatus, Delete
  <2>2. UNCHANGED <<cache, ask, held, raced, faults>> /\ dels \subseteq dels'
    BY <1>5, <2>1 DEF Administer, Create, Revoke, Suspend, Reactivate, SetStatus, Delete, Change, lookups
  <2>3. row[l].status = "revoked" \/ k \in dels'
    <3>1. ASSUME NEW m \in Logins, NEW t \in Tenants, Create(m, t)  PROVE row[l].status = "revoked"
      BY <3>1 DEF Create, TypeOK
    <3>2. ASSUME NEW m \in Logins, Revoke(m)  PROVE row[l].status = "revoked" \/ k \in dels'
      BY <3>2 DEF Revoke, TypeOK
    <3>3. ASSUME NEW t \in Tenants, Suspend(t) \/ Reactivate(t)  PROVE row[l].status = "revoked"
      BY <3>3 DEF Suspend, Reactivate, SetStatus
    <3>4. ASSUME NEW t \in Tenants, Delete(t)  PROVE row[l].status = "revoked"
      BY <3>4 DEF Delete, TypeOK
    <3>. QED BY <1>5, <3>1, <3>2, <3>3, <3>4 DEF Administer
  <2>4. Clean(k)
    BY <1>3, <2>2, <2>3
  <2>. QED BY <2>2, <2>4 DEF Clean, CleanNext
<1>6. ASSUME NEW j \in Key, Invalidate(j)  PROVE CleanNext(k)
  <2>1. UNCHANGED <<row, ask, held>> /\ faults = 0 /\ raced \subseteq raced'
    BY <1>2, <1>6 DEF Invalidate, postgres, lookups
  <2>2. cache' = [cache EXCEPT ![j] = None]
    BY <1>2, <1>6 DEF Invalidate
  <2>3. CASE j = k
    BY <1>1, <1>6, <2>1, <2>2, <2>3 DEF Invalidate, CleanNext, TypeOK
  <2>4. CASE j # k
    <3>1. Clean(k)
      BY <1>3, <1>6, <2>1, <2>4 DEF Invalidate
    <3>. QED BY <1>1, <2>1, <2>2, <2>4, <3>1 DEF Clean, CleanNext, TypeOK
  <2>. QED BY <2>3, <2>4
<1>7. ASSUME (\E j \in Key : Evict(j)) \/ Tick \/ UNCHANGED vars  PROVE CleanNext(k)
  <2>1. UNCHANGED <<row, ask, dels, raced, faults>>
    BY <1>7 DEF Evict, Tick, vars, postgres, lookups
  <2>2. Clean(k)
    BY <1>3, <2>1
  <2>3. cache'[k] = None
    BY <1>1, <1>7, <2>2 DEF Evict, Tick, vars, Clean, TypeOK
  <2>4. \A q \in Requests : held'[q] # None => held[q] # None
    BY <1>7 DEF Evict, Tick, vars, lookups, TypeOK
  <2>. QED BY <2>1, <2>2, <2>3, <2>4 DEF Clean, CleanNext
<1>8. ASSUME Crash  PROVE CleanNext(k)
  BY <1>2, <1>8 DEF Crash
<1>. QED BY <1>4, <1>5, <1>6, <1>7, <1>8 DEF Next

\* Without faults, only a write that a revocation's DEL overtook leaves an entry.
THEOREM Revocation == Spec => []RevokedOnlyByRace
<1>1. Init => Revoked
  BY DEF Init, Revoked
<1>2. Spec => []Revoked
  BY <1>1, RevokedStep, FreshCorrect, PTL DEF Spec
<1>. QED BY <1>2, RevokedIs, PTL
=============================================================================
