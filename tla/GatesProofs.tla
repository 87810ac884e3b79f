----------------------------- MODULE GatesProofs -----------------------------
(***************************************************************************)
(* Proofs about what stands before the public endpoints.                   *)
(*                                                                         *)
(* Allowlist: for any addresses and ranges, any number of requests, edits  *)
(* and failures, any lifetimes.  A list, in Redis or in the hands of a     *)
(* request, says of every address what Postgres said, not longer ago than  *)
(* the list is old.                                                        *)
(*                                                                         *)
(* RateLimits: for any limits, windows and delays, any number of requests, *)
(* failures and evictions.  What a limit let through lately is bounded by  *)
(* what the keys that still live have counted: the key of the tenant that  *)
(* covers all of a window, or the keys of the seconds that requests named. *)
(***************************************************************************)
EXTENDS Allowlist, RateLimits, FiniteSetTheorems, TLAPS

-----------------------------------------------------------------------------
\* Types.

CachedList == [on : SUBSET Ranges, age : 0..ListLife]

LEMMA NotAbsent ==
  /\ \A e \in CachedList : e # Absent
  /\ \A c \in Caller : c # Absent
BY AllowlistAssumption, CallerAssumption DEF CachedList

LEMMA OnType == \A r : On(r) \in SUBSET Ranges
BY DEF On

\* The parts of the type invariant that different steps change.
RowsType ==
  /\ ranges \in [Ranges -> {"none", "on", "off"}]
  /\ noauth \in {"none", "active", "suspended"}
  /\ client \in {"active", "suspended", "deleted"}
  /\ {unlisted, listedFor} \subseteq [Addr -> 0..(VerdictBound + 1)]
  /\ unknown \in [Addr -> 0..(NoauthBound + 1)]

CountsType ==
  /\ listDels \in 0..listEdits
  /\ listEdits \in 0..MaxListEdits
  /\ listFaults \in 0..MaxListFaults

CallersType ==
  /\ caller \in [Callers -> Caller \cup {Absent}]
  /\ \A q \in Callers : caller[q] # Absent =>
       /\ caller[q].age <= MaxWait
       /\ caller[q].at # "put" => caller[q].held = {}

LEMMA AllowlistParts ==
  AllowlistTypeOK <=> RowsType /\ CountsType /\ CallersType /\ cached \in CachedList \cup {Absent}
BY DEF AllowlistTypeOK, RowsType, CountsType, CallersType, CachedList

LEMMA AllowlistPartsNext ==
  AllowlistTypeOK' <=> RowsType' /\ CountsType' /\ CallersType' /\ cached' \in CachedList \cup {Absent}
BY DEF AllowlistTypeOK, RowsType, CountsType, CallersType, CachedList

LEMMA RowsStand ==
  ASSUME AllowlistTypeOK, UNCHANGED <<rows, ages>>
  PROVE  RowsType'
BY DEF AllowlistTypeOK, RowsType, rows, ages

LEMMA FaultCounts ==
  ASSUME AllowlistTypeOK, listDels' \in 0..listDels, listEdits' = listEdits,
         listFaults' = listFaults \/ ListFault
  PROVE  CountsType'
BY AllowlistAssumption DEF AllowlistTypeOK, CountsType, ListFault

LEMMA PastType ==
  ASSUME NEW n \in Nat, NEW h \in [Addr -> 0..n], NEW b, NEW c
  PROVE  /\ Past(h, b, c) \in [Addr -> 0..n]
         /\ \A x \in Addr : Past(h, b, c)[x] \in {0, h[x]} /\ (b[x] \/ c[x] => Past(h, b, c)[x] = 0)
BY DEF Past

LEMMA BoundsNat == VerdictBound \in Nat /\ NoauthBound \in Nat
BY AllowlistAssumption DEF VerdictBound, NoauthBound

LEMMA EditType ==
  ASSUME AllowlistTypeOK,
         NEW r \in [Ranges -> {"none", "on", "off"}], NEW n \in {"none", "active", "suspended"},
         NEW t \in {"active", "suspended", "deleted"}, NEW b \in BOOLEAN, ListEdit(r, n, t, b)
  PROVE  AllowlistTypeOK'
<1>1. unlisted' \in [Addr -> 0..(VerdictBound + 1)] /\ listedFor' \in [Addr -> 0..(VerdictBound + 1)]
  <2>1. VerdictBound + 1 \in Nat
    BY BoundsNat
  <2>2. unlisted \in [Addr -> 0..(VerdictBound + 1)] /\ listedFor \in [Addr -> 0..(VerdictBound + 1)]
    BY DEF AllowlistTypeOK
  <2>. QED BY <2>1, <2>2, PastType DEF ListEdit
<1>2. unknown' \in [Addr -> 0..(NoauthBound + 1)]
  <2>1. NoauthBound + 1 \in Nat
    BY BoundsNat
  <2>2. unknown \in [Addr -> 0..(NoauthBound + 1)]
    BY DEF AllowlistTypeOK
  <2> QED BY <2>1, <2>2, PastType DEF ListEdit
<1>3. RowsType'
  BY <1>1, <1>2 DEF ListEdit, RowsType
<1>4. CountsType'
  <2>1. /\ listDels' = listDels \/ listDels' = listDels + 1
        /\ listEdits < MaxListEdits /\ listEdits' = listEdits + 1 /\ listFaults' = listFaults
    BY DEF ListEdit
  <2>. QED BY <2>1, AllowlistAssumption DEF AllowlistTypeOK, CountsType
<1>5. CallersType' /\ cached' \in CachedList \cup {Absent}
  BY DEF ListEdit, AllowlistTypeOK, CallersType, CachedList
<1>. QED BY <1>3, <1>4, <1>5, AllowlistPartsNext

\* One request moves on, or ends.
LEMMA CallerType ==
  ASSUME AllowlistTypeOK, NEW q \in Callers, NEW d \in Caller \cup {Absent},
         caller' = [caller EXCEPT ![q] = d],
         d # Absent => d.age <= MaxWait /\ (d.at # "put" => d.held = {})
  PROVE  CallersType'
BY DEF AllowlistTypeOK, CallersType

LEMMA AdvanceFacts ==
  ASSUME AllowlistTypeOK, NEW q \in Callers, caller[q] # Absent,
         NEW place \in {"load", "put", "passed", "refused", "open"},
         NEW list \in SUBSET Ranges, Advance(q, place, list)
  PROVE  /\ caller'[q] \in Caller /\ caller'[q] # Absent
         /\ caller' = [caller EXCEPT ![q] = caller'[q]]
         /\ caller'[q].addr = caller[q].addr /\ caller'[q].kind = caller[q].kind
         /\ caller'[q].age = caller[q].age /\ caller'[q].at = place /\ caller'[q].held = list
<1> DEFINE c == caller[q]
           d == [addr |-> c.addr, kind |-> c.kind, age |-> c.age, at |-> place, held |-> list]
<1>1. c \in Caller
  BY DEF AllowlistTypeOK
<1>2. d \in Caller
  BY <1>1 DEF Caller
<1>3. caller' = [caller EXCEPT ![q] = d]
  BY DEF Advance
<1>4. d.addr = c.addr /\ d.kind = c.kind /\ d.age = c.age /\ d.at = place /\ d.held = list
  OBVIOUS
<1> HIDE DEF d
<1>5. caller'[q] = d
  BY <1>3 DEF AllowlistTypeOK
<1>. QED BY <1>2, <1>3, <1>4, <1>5, NotAbsent

LEMMA AdvanceType ==
  ASSUME AllowlistTypeOK, NEW q \in Callers, caller[q] # Absent,
         NEW place \in {"load", "put", "passed", "refused", "open"},
         NEW list \in SUBSET Ranges, Advance(q, place, list), place # "put" => list = {}
  PROVE  CallersType'
<1>1. caller[q].age <= MaxWait
  BY DEF AllowlistTypeOK
<1> DEFINE d == caller'[q]
<1>2. d \in Caller /\ caller' = [caller EXCEPT ![q] = d] /\ d.age <= MaxWait /\ (d.at # "put" => d.held = {})
  BY <1>1, AdvanceFacts
<1>3. \A p \in Callers : caller'[p] = IF p = q THEN d ELSE caller[p]
  BY <1>2 DEF AllowlistTypeOK
<1>4. caller' \in [Callers -> Caller \cup {Absent}]
  BY <1>2 DEF AllowlistTypeOK
<1> HIDE DEF d
<1>. QED BY <1>2, <1>3, <1>4 DEF AllowlistTypeOK, CallersType

LEMMA PanelType ==
  ASSUME AllowlistTypeOK,
         \/ \E c \in Ranges : CreateRange(c) \/ LabelRange(c) \/ DeleteRange(c)
         \/ EnableNoauth \/ DisableNoauth \/ DeleteNoauth
         \/ SuspendClient \/ ReactivateClient \/ DeleteTenant
  PROVE  \E r \in [Ranges -> {"none", "on", "off"}], n \in {"none", "active", "suspended"},
            t \in {"active", "suspended", "deleted"}, b \in BOOLEAN : ListEdit(r, n, t, b)
<1>1. /\ ranges \in [Ranges -> {"none", "on", "off"}]
      /\ noauth \in {"none", "active", "suspended"}
      /\ client \in {"active", "suspended", "deleted"}
  BY DEF AllowlistTypeOK
<1>2. ASSUME NEW c \in Ranges
      PROVE  /\ [ranges EXCEPT ![c] = "on"] \in [Ranges -> {"none", "on", "off"}]
             /\ [ranges EXCEPT ![c] = "off"] \in [Ranges -> {"none", "on", "off"}]
  BY <1>1
<1>3. [c \in Ranges |-> "none"] \in [Ranges -> {"none", "on", "off"}]
  OBVIOUS
<1>4. ASSUME NEW c \in Ranges, CreateRange(c) \/ LabelRange(c) \/ DeleteRange(c)
      PROVE  \E r \in [Ranges -> {"none", "on", "off"}], b \in BOOLEAN : ListEdit(r, noauth, client, b)
  BY <1>1, <1>2, <1>4 DEF CreateRange, LabelRange, DeleteRange
<1>5. ASSUME EnableNoauth \/ DisableNoauth \/ DeleteNoauth
      PROVE  \E n \in {"none", "active", "suspended"} : ListEdit(ranges, n, client, FALSE)
  BY <1>5 DEF EnableNoauth, DisableNoauth, DeleteNoauth
<1>6. ASSUME SuspendClient \/ ReactivateClient
      PROVE  \E t \in {"active", "suspended", "deleted"}, b \in BOOLEAN : ListEdit(ranges, noauth, t, b)
  BY <1>6 DEF SuspendClient, ReactivateClient
<1>7. ASSUME DeleteTenant
      PROVE  ListEdit([c \in Ranges |-> "none"], "none", "deleted", TRUE)
  BY <1>7 DEF DeleteTenant
<1>. QED BY <1>1, <1>3, <1>4, <1>5, <1>6, <1>7

\* What a request may do, as a step of its own.
LEMMA GetType ==
  ASSUME AllowlistTypeOK, NEW q \in Callers, GetIPAllowlist(q)
  PROVE  AllowlistTypeOK'
<1>1. caller[q] # Absent
  BY DEF GetIPAllowlist, IsIn
<1>2. \E place \in {"load", "passed", "refused"} : Advance(q, place, {})
  BY DEF GetIPAllowlist, Judged
<1>3. CallersType'
  BY <1>1, <1>2, AdvanceType
<1>4. RowsType' /\ CountsType' /\ cached' \in CachedList \cup {Absent}
  BY RowsStand, FaultCounts DEF GetIPAllowlist, AllowlistTypeOK, CachedList
<1>. QED BY <1>3, <1>4, AllowlistPartsNext

LEMMA FindType ==
  ASSUME AllowlistTypeOK, NEW q \in Callers, FindByTenant(q)
  PROVE  AllowlistTypeOK'
<1>1. caller[q] # Absent
  BY DEF FindByTenant, IsIn
<1>2. Advance(q, "put", On(ranges)) \/ Advance(q, "open", {})
  BY DEF FindByTenant
<1>3. CallersType'
  BY <1>1, <1>2, OnType, AdvanceType
<1>4. RowsType' /\ CountsType' /\ cached' \in CachedList \cup {Absent}
  BY RowsStand, FaultCounts DEF FindByTenant, AllowlistTypeOK, CachedList
<1>. QED BY <1>3, <1>4, AllowlistPartsNext

LEMMA PutType ==
  ASSUME AllowlistTypeOK, NEW q \in Callers, SetIPAllowlist(q)
  PROVE  AllowlistTypeOK'
<1>1. caller[q] # Absent /\ caller[q] \in Caller
  BY DEF SetIPAllowlist, IsIn, AllowlistTypeOK
<1>2. \E place \in {"passed", "refused"} : Advance(q, place, {})
  BY DEF SetIPAllowlist, Judged
<1>3. CallersType'
  BY <1>1, <1>2, AdvanceType
<1>4. [on |-> caller[q].held, age |-> 0] \in CachedList
  BY <1>1, AllowlistAssumption DEF Caller, CachedList
<1>5. cached' \in CachedList \cup {Absent}
  BY <1>4 DEF SetIPAllowlist, AllowlistTypeOK, CachedList
<1>6. RowsType' /\ CountsType'
  BY RowsStand, FaultCounts DEF SetIPAllowlist, AllowlistTypeOK
<1>. QED BY <1>3, <1>5, <1>6, AllowlistPartsNext

LEMMA ArriveType ==
  ASSUME AllowlistTypeOK, NEW q \in Callers, NEW a \in Addr, NEW kind \in {"credential", "address"},
         Arrive(q, a, kind)
  PROVE  AllowlistTypeOK'
<1> DEFINE d == [addr |-> a, kind |-> kind, age |-> 0, at |-> "check", held |-> {}]
<1>1. d \in Caller \cup {Absent} /\ d.age = 0 /\ d.held = {}
  BY DEF Caller
<1>2. caller' = [caller EXCEPT ![q] = d]
  BY DEF Arrive
<1> HIDE DEF d
<1>3. d.age <= MaxWait /\ (d.at # "put" => d.held = {})
  BY <1>1, AllowlistAssumption
<1>5. CallersType'
  BY <1>1, <1>2, <1>3, CallerType
<1>4. RowsType' /\ CountsType' /\ cached' \in CachedList \cup {Absent}
  BY RowsStand, FaultCounts DEF Arrive, AllowlistTypeOK, CachedList
<1>. QED BY <1>4, <1>5, AllowlistPartsNext

LEMMA EndCallType ==
  ASSUME AllowlistTypeOK, NEW q \in Callers, EndCall(q)
  PROVE  AllowlistTypeOK'
<1>1. CallersType'
  BY CallerType DEF EndCall
<1>2. RowsType' /\ CountsType' /\ cached' \in CachedList \cup {Absent}
  BY RowsStand, FaultCounts DEF EndCall, AllowlistTypeOK, CachedList
<1>. QED BY <1>1, <1>2, AllowlistPartsNext

LEMMA KeyType ==
  ASSUME AllowlistTypeOK, InvalidateIPAllowlist \/ EvictList \/ AllowlistCrash
  PROVE  AllowlistTypeOK'
<1>1. RowsType' /\ cached' \in CachedList \cup {Absent}
  BY RowsStand DEF InvalidateIPAllowlist, EvictList, AllowlistCrash, AllowlistTypeOK, CachedList
<1>2. CountsType'
  BY FaultCounts DEF InvalidateIPAllowlist, EvictList, AllowlistCrash, AllowlistTypeOK
<1>3. CallersType'
  BY DEF InvalidateIPAllowlist, EvictList, AllowlistCrash, AllowlistTypeOK, CallersType
<1>. QED BY <1>1, <1>2, <1>3, AllowlistPartsNext

LEMMA SinceType ==
  ASSUME NEW n \in Nat, NEW bound \in Nat, n <= bound + 1, NEW now
  PROVE  /\ Since(n, now, bound) \in 0..(bound + 1)
         /\ Since(n, now, bound) <= n + 1
         /\ now => Since(n, now, bound) = 0
BY DEF Since

\* A request that waits grows older, and nothing else.
LEMMA TickCaller ==
  ASSUME AllowlistTypeOK, AllowlistTick, NEW q \in Callers
  PROVE  \/ caller[q] = Absent /\ caller'[q] = Absent
         \/ /\ caller[q] # Absent /\ caller'[q] # Absent
            /\ caller[q] \in Caller /\ caller'[q] \in Caller
            /\ caller[q].age < MaxWait
            /\ caller'[q].addr = caller[q].addr /\ caller'[q].kind = caller[q].kind
            /\ caller'[q].age = caller[q].age + 1
            /\ caller'[q].at = caller[q].at /\ caller'[q].held = caller[q].held
<1> DEFINE c == caller[q]
           d == [addr |-> c.addr, kind |-> c.kind, age |-> c.age + 1, at |-> c.at, held |-> c.held]
<1>1. CASE c = Absent
  BY <1>1 DEF AllowlistTick
<1>2. CASE c # Absent
  <2>1. c \in Caller
    BY <1>2 DEF AllowlistTypeOK
  <2>2. d \in Caller
    BY <2>1 DEF Caller
  <2>3. caller'[q] = d
    BY <1>2 DEF AllowlistTick
  <2>4. /\ d.addr = c.addr /\ d.kind = c.kind /\ d.age = c.age + 1
        /\ d.at = c.at /\ d.held = c.held
    OBVIOUS
  <2>5. c.age < MaxWait
    BY <1>2 DEF AllowlistTick
  <2> HIDE DEF c, d
  <2>. QED BY <1>2, <2>1, <2>2, <2>3, <2>4, <2>5, NotAbsent DEF c
<1>. QED BY <1>1, <1>2

LEMMA TickType ==
  ASSUME AllowlistTypeOK, AllowlistTick
  PROVE  AllowlistTypeOK'
<1>1. ASSUME NEW a \in Addr
      PROVE  /\ unlisted'[a] \in 0..(VerdictBound + 1) /\ listedFor'[a] \in 0..(VerdictBound + 1)
             /\ unknown'[a] \in 0..(NoauthBound + 1)
  <2>1. /\ unlisted[a] \in 0..(VerdictBound + 1) /\ listedFor[a] \in 0..(VerdictBound + 1)
        /\ unknown[a] \in 0..(NoauthBound + 1)
    BY DEF AllowlistTypeOK
  <2>2. /\ unlisted'[a] = Since(unlisted[a], Welcome(ranges, a), VerdictBound)
        /\ listedFor'[a] = Since(listedFor[a], ~Welcome(ranges, a), VerdictBound)
        /\ unknown'[a] = Since(unknown[a], Known(ranges, noauth, client, a), NoauthBound)
    BY DEF AllowlistTick
  <2>3. /\ unlisted[a] \in Nat /\ listedFor[a] \in Nat /\ unknown[a] \in Nat
        /\ unlisted[a] <= VerdictBound + 1 /\ listedFor[a] <= VerdictBound + 1
        /\ unknown[a] <= NoauthBound + 1
    BY <2>1, BoundsNat
  <2>4. unlisted'[a] \in 0..(VerdictBound + 1)
    BY <2>2, <2>3, BoundsNat DEF Since
  <2>5. listedFor'[a] \in 0..(VerdictBound + 1)
    BY <2>2, <2>3, BoundsNat DEF Since
  <2>6. unknown'[a] \in 0..(NoauthBound + 1)
    BY <2>2, <2>3, BoundsNat DEF Since
  <2>. QED BY <2>4, <2>5, <2>6
<1>2. RowsType'
  <2>1. /\ unlisted' \in [Addr -> 0..(VerdictBound + 1)] /\ listedFor' \in [Addr -> 0..(VerdictBound + 1)]
        /\ unknown' \in [Addr -> 0..(NoauthBound + 1)]
    BY <1>1 DEF AllowlistTick
  <2>. QED BY <2>1 DEF AllowlistTick, AllowlistTypeOK, RowsType, rows
<1>3. CountsType'
  BY FaultCounts DEF AllowlistTick, AllowlistTypeOK
<1>4. CallersType'
  <2>1. \A q \in Callers : caller'[q] \in Caller \cup {Absent}
    BY TickCaller
  <2>2. caller' \in [Callers -> Caller \cup {Absent}]
    BY <2>1 DEF AllowlistTick
  <2>3. \A q \in Callers : caller'[q] # Absent =>
          caller'[q].age <= MaxWait /\ (caller'[q].at # "put" => caller'[q].held = {})
    BY TickCaller, AllowlistAssumption DEF AllowlistTypeOK, Caller
  <2>. QED BY <2>2, <2>3 DEF CallersType
<1>5. cached' \in CachedList \cup {Absent}
  <2>1. cached # Absent /\ cached.age < ListLife => [on |-> cached.on, age |-> cached.age + 1] \in CachedList
    <3>1. ASSUME cached # Absent, cached.age < ListLife
          PROVE  cached \in CachedList
      BY <3>1 DEF AllowlistTypeOK, CachedList
    <3>2. ASSUME NEW e \in CachedList, e.age < ListLife
          PROVE  e.on \in SUBSET Ranges /\ e.age + 1 \in 0..ListLife
      BY <3>2, AllowlistAssumption DEF CachedList
    <3>. QED BY <3>1, <3>2 DEF CachedList
  <2>. QED BY <2>1 DEF AllowlistTick, ListLives
<1>. QED BY <1>2, <1>3, <1>4, <1>5, AllowlistPartsNext

LEMMA AllowlistStepType ==
  ASSUME AllowlistTypeOK, [AllowlistNext]_allowlistVars
  PROVE  AllowlistTypeOK'
<1>1. ASSUME NEW q \in Callers, NEW a \in Addr, ByCredential(q, a) \/ ByAddress(q, a)
      PROVE  AllowlistTypeOK'
  BY <1>1, ArriveType DEF ByCredential, ByAddress
<1>2. CASE UNCHANGED allowlistVars
  BY <1>2 DEF AllowlistTypeOK, allowlistVars
<1>. QED BY <1>1, <1>2, PanelType, EditType, GetType, FindType, PutType, EndCallType, KeyType, TickType
         DEF AllowlistNext

LEMMA AllowlistInitType == AllowlistInit => AllowlistTypeOK
BY AllowlistAssumption, BoundsNat DEF AllowlistInit, AllowlistTypeOK

\* The state keeps its kinds, the copy of the list its lifetime and the requests
\* their age: for any number of requests, edits and failures.
THEOREM AllowlistTypeCorrect == AllowlistSpec => []AllowlistTypeOK
BY AllowlistInitType, AllowlistStepType, PTL DEF AllowlistSpec
-----------------------------------------------------------------------------
\* What a list says of an address was so at most n ticks ago, by the histories
\* u (of unlisted) and l (of listedFor).
Told(list, n, u, l) ==
  \A a \in Addr : (Admits(list, a) => u[a] <= n) /\ (~Admits(list, a) => l[a] <= n)

\* The histories of the rows as they are: k is that of unknown.
AgesRight(r, n, t, u, l, k) ==
  \A a \in Addr : /\ Welcome(r, a) => u[a] = 0
                  /\ ~Welcome(r, a) => l[a] = 0
                  /\ Known(r, n, t, a) => k[a] = 0

\* A list in the hands of a request is no older than the request, and so is what
\* let a request in that shows no credential.
Waits(c, u, l, k) ==
  /\ c.at = "put" => Told(c.held, c.age, u, l)
  /\ c.kind = "address" /\ c.at \notin Verdicts => k[c.addr] <= c.age

ListInv ==
  /\ AgesRight(ranges, noauth, client, unlisted, listedFor, unknown)
  /\ cached # Absent => Told(cached.on, cached.age + MaxWait, unlisted, listedFor)
  /\ \A q \in Callers : caller[q] # Absent => Waits(caller[q], unlisted, listedFor, unknown)

Ages == [Addr -> Nat]

\* History v is history u, d ticks later at most; after an edit.
Grown(u, v, d) == \A a \in Addr : v[a] <= u[a] + d
Edited(u, v) == \A a \in Addr : v[a] \in {0, u[a]}

LEMMA AgesType == AllowlistTypeOK => unlisted \in Ages /\ listedFor \in Ages /\ unknown \in Ages
<1>1. \A n \in Nat : [Addr -> 0..n] \subseteq Ages
  BY DEF Ages
<1>2. VerdictBound + 1 \in Nat /\ NoauthBound + 1 \in Nat
  BY BoundsNat
<1>. QED BY <1>1, <1>2 DEF AllowlistTypeOK

LEMMA OnAdmits == \A r, a : Admits(On(r), a) <=> Welcome(r, a)
BY DEF Admits, Welcome, On

LEMMA FindKnown == \A r, n, t, a : FindTenantByIP(r, n, t, a) <=> Known(r, n, t, a)
BY DEF FindTenantByIP, Known, On

\* The list just read is told now.
LEMMA ToldNow ==
  ASSUME NEW r, NEW n, NEW t, NEW u, NEW l, NEW k, NEW m \in Nat, AgesRight(r, n, t, u, l, k)
  PROVE  Told(On(r), m, u, l)
<1>. SUFFICES ASSUME NEW a \in Addr
              PROVE  (Admits(On(r), a) => u[a] <= m) /\ (~Admits(On(r), a) => l[a] <= m)
  BY DEF Told
<1>1. Admits(On(r), a) <=> Welcome(r, a)
  BY OnAdmits
<1>2. (Welcome(r, a) => u[a] = 0) /\ (~Welcome(r, a) => l[a] = 0)
  BY DEF AgesRight
<1>. QED BY <1>1, <1>2

\* And d ticks later it is d ticks older at most.
LEMMA ToldLater ==
  ASSUME NEW u \in Ages, NEW l \in Ages, NEW v \in Ages, NEW m \in Ages, NEW n \in Nat, NEW d \in Nat,
         Grown(u, v, d), Grown(l, m, d),
         NEW list, Told(list, n, u, l)
  PROVE  Told(list, n + d, v, m)
<1>. SUFFICES ASSUME NEW a \in Addr
              PROVE  (Admits(list, a) => v[a] <= n + d) /\ (~Admits(list, a) => m[a] <= n + d)
  BY DEF Told
<1>1. u[a] \in Nat /\ l[a] \in Nat /\ v[a] \in Nat /\ m[a] \in Nat /\ v[a] <= u[a] + d /\ m[a] <= l[a] + d
  BY DEF Ages, Grown
<1>2. (Admits(list, a) => u[a] <= n) /\ (~Admits(list, a) => l[a] <= n)
  BY DEF Told
<1>. QED BY <1>1, <1>2

LEMMA ToldLonger ==
  ASSUME NEW u \in Ages, NEW l \in Ages, NEW n \in Nat, NEW m \in Nat, n <= m, NEW list, Told(list, n, u, l)
  PROVE  Told(list, m, u, l)
<1>. SUFFICES ASSUME NEW a \in Addr
              PROVE  (Admits(list, a) => u[a] <= m) /\ (~Admits(list, a) => l[a] <= m)
  BY DEF Told
<1>1. u[a] \in Nat /\ l[a] \in Nat
  BY DEF Ages
<1>2. (Admits(list, a) => u[a] <= n) /\ (~Admits(list, a) => l[a] <= n)
  BY DEF Told
<1>. QED BY <1>1, <1>2

\* An edit makes none of it older.
LEMMA ToldStill ==
  ASSUME NEW u \in Ages, NEW l \in Ages, NEW v \in Ages, NEW m \in Ages, NEW n \in Nat,
         Edited(u, v), Edited(l, m),
         NEW list, Told(list, n, u, l)
  PROVE  Told(list, n, v, m)
<1>. SUFFICES ASSUME NEW a \in Addr
              PROVE  (Admits(list, a) => v[a] <= n) /\ (~Admits(list, a) => m[a] <= n)
  BY DEF Told
<1>1. (Admits(list, a) => u[a] <= n) /\ (~Admits(list, a) => l[a] <= n)
  BY DEF Told
<1>2. v[a] \in {0, u[a]} /\ m[a] \in {0, l[a]}
  BY DEF Edited
<1>. QED BY <1>1, <1>2

LEMMA WaitsStill ==
  ASSUME NEW u \in Ages, NEW l \in Ages, NEW k \in Ages, NEW v \in Ages, NEW m \in Ages, NEW j \in Ages,
         Edited(u, v), Edited(l, m), Edited(k, j),
         NEW c \in Caller, Waits(c, u, l, k)
  PROVE  Waits(c, v, m, j)
<1>1. c.age \in Nat /\ c.addr \in Addr
  BY DEF Caller
<1>2. j[c.addr] \in {0, k[c.addr]}
  BY <1>1 DEF Edited
<1>3. c.at = "put" => Told(c.held, c.age, v, m)
  BY <1>1, ToldStill DEF Waits
<1>4. c.kind = "address" /\ c.at \notin Verdicts => j[c.addr] <= c.age
  BY <1>1, <1>2 DEF Waits
<1>. QED BY <1>3, <1>4 DEF Waits

LEMMA ListInvNext ==
  ListInv' <=>
    /\ AgesRight(ranges', noauth', client', unlisted', listedFor', unknown')
    /\ cached' # Absent => Told(cached'.on, cached'.age + MaxWait, unlisted', listedFor')
    /\ \A q \in Callers : caller'[q] # Absent => Waits(caller'[q], unlisted', listedFor', unknown')
BY DEF ListInv, AgesRight, Told, Waits, Admits, Welcome, Known, On, Verdicts
\* A change of the list makes nothing older than it was.
LEMMA EditInv ==
  ASSUME AllowlistTypeOK, ListInv, AllowlistTypeOK', NEW r, NEW n, NEW t, NEW b, ListEdit(r, n, t, b)
  PROVE  ListInv'
<1>1. /\ unlisted \in Ages /\ listedFor \in Ages /\ unknown \in Ages
      /\ unlisted' \in Ages /\ listedFor' \in Ages /\ unknown' \in Ages
  <2>1. unlisted \in Ages /\ listedFor \in Ages /\ unknown \in Ages
    BY AgesType
  <2>2. \A h \in Ages : \A x, y : Past(h, x, y) \in Ages
    BY DEF Past, Ages
  <2>. QED BY <2>1, <2>2 DEF ListEdit
<1>2. ASSUME NEW a \in Addr
      PROVE  /\ unlisted'[a] \in {0, unlisted[a]} /\ (Welcome(r, a) => unlisted'[a] = 0)
             /\ listedFor'[a] \in {0, listedFor[a]} /\ (~Welcome(r, a) => listedFor'[a] = 0)
             /\ unknown'[a] \in {0, unknown[a]} /\ (Known(r, n, t, a) => unknown'[a] = 0)
  BY DEF ListEdit, Past
<1>3. AgesRight(ranges', noauth', client', unlisted', listedFor', unknown')
  BY <1>2 DEF AgesRight, ListEdit
<1>4. Edited(unlisted, unlisted') /\ Edited(listedFor, listedFor') /\ Edited(unknown, unknown')
  BY <1>2 DEF Edited
<1>5. cached' # Absent => Told(cached'.on, cached'.age + MaxWait, unlisted', listedFor')
  <2>1. SUFFICES ASSUME cached # Absent
                 PROVE  Told(cached.on, cached.age + MaxWait, unlisted', listedFor')
    BY DEF ListEdit
  <2>2. cached.age + MaxWait \in Nat
    BY <2>1, AllowlistAssumption DEF AllowlistTypeOK
  <2>3. Told(cached.on, cached.age + MaxWait, unlisted, listedFor)
    BY <2>1 DEF ListInv
  <2>. QED BY <1>1, <1>4, <2>2, <2>3, ToldStill
<1>6. ASSUME NEW q \in Callers, caller[q] # Absent
      PROVE  Waits(caller[q], unlisted', listedFor', unknown')
  <2>1. caller[q] \in Caller
    BY <1>6 DEF AllowlistTypeOK
  <2>2. Waits(caller[q], unlisted, listedFor, unknown)
    BY <1>6 DEF ListInv
  <2>. QED BY <1>1, <1>4, <2>1, <2>2, WaitsStill
<1>7. caller' = caller
  BY DEF ListEdit
<1>. QED BY <1>3, <1>5, <1>6, <1>7, ListInvNext

\* A step of one request, and of the copy in Redis.
LEMMA OthersStand ==
  ASSUME AllowlistTypeOK, ListInv, UNCHANGED <<rows, ages>>,
         NEW q \in Callers, NEW d, caller' = [caller EXCEPT ![q] = d],
         d # Absent => Waits(d, unlisted, listedFor, unknown),
         cached' # Absent => Told(cached'.on, cached'.age + MaxWait, unlisted, listedFor)
  PROVE  ListInv'
<1>1. /\ ranges' = ranges /\ noauth' = noauth /\ client' = client
      /\ unlisted' = unlisted /\ listedFor' = listedFor /\ unknown' = unknown
  BY DEF rows, ages
<1>2. \A p \in Callers : caller'[p] = IF p = q THEN d ELSE caller[p]
  BY DEF AllowlistTypeOK
<1>3. \A p \in Callers : caller'[p] # Absent => Waits(caller'[p], unlisted, listedFor, unknown)
  BY <1>2 DEF ListInv
<1>4. AgesRight(ranges, noauth, client, unlisted, listedFor, unknown)
  BY DEF ListInv
<1>. QED BY <1>1, <1>3, <1>4, ListInvNext

\* What a request takes over from the step before.
LEMMA StillWaits ==
  ASSUME AllowlistTypeOK, ListInv, NEW q \in Callers, NEW place \in {"load", "put", "passed", "refused", "open"},
         NEW list \in SUBSET Ranges, IsIn(q, "check") \/ IsIn(q, "load") \/ IsIn(q, "put"),
         Advance(q, place, list),
         place = "put" => Told(list, caller[q].age, unlisted, listedFor)
  PROVE  /\ caller' = [caller EXCEPT ![q] = caller'[q]]
         /\ Waits(caller'[q], unlisted, listedFor, unknown)
<1>1. caller[q] # Absent /\ caller[q].at \notin Verdicts
  BY DEF IsIn, Verdicts
<1>2. /\ caller' = [caller EXCEPT ![q] = caller'[q]]
      /\ caller'[q].addr = caller[q].addr /\ caller'[q].kind = caller[q].kind
      /\ caller'[q].age = caller[q].age /\ caller'[q].at = place /\ caller'[q].held = list
  BY <1>1, AdvanceFacts
<1>3. Waits(caller[q], unlisted, listedFor, unknown)
  BY <1>1 DEF ListInv
<1>4. caller'[q].at = "put" => Told(caller'[q].held, caller'[q].age, unlisted, listedFor)
  BY <1>2
<1>5. caller'[q].kind = "address" => unknown[caller'[q].addr] <= caller'[q].age
  BY <1>1, <1>2, <1>3 DEF Waits
<1>. QED BY <1>2, <1>4, <1>5 DEF Waits

LEMMA GetInv ==
  ASSUME AllowlistTypeOK, ListInv, NEW q \in Callers, GetIPAllowlist(q)
  PROVE  ListInv'
<1>1. IsIn(q, "check") /\ UNCHANGED <<rows, ages>> /\ cached' = cached
  BY DEF GetIPAllowlist
<1>2. \E place \in {"load", "passed", "refused"} : Advance(q, place, {})
  BY DEF GetIPAllowlist, Judged
<1>3. /\ caller' = [caller EXCEPT ![q] = caller'[q]]
      /\ Waits(caller'[q], unlisted, listedFor, unknown)
  BY <1>1, <1>2, StillWaits
<1>4. cached' # Absent => Told(cached'.on, cached'.age + MaxWait, unlisted, listedFor)
  BY <1>1 DEF ListInv
<1>. QED BY <1>1, <1>3, <1>4, OthersStand

LEMMA FindInv ==
  ASSUME AllowlistTypeOK, ListInv, NEW q \in Callers, FindByTenant(q)
  PROVE  ListInv'
<1>1. IsIn(q, "load") /\ UNCHANGED <<rows, ages>> /\ cached' = cached
  BY DEF FindByTenant
<1>2. caller[q] # Absent /\ caller[q].age \in Nat
  BY <1>1 DEF IsIn, AllowlistTypeOK, Caller
<1>3. Told(On(ranges), caller[q].age, unlisted, listedFor)
  BY <1>2, ToldNow DEF ListInv
<1>4. Advance(q, "put", On(ranges)) \/ Advance(q, "open", {})
  BY DEF FindByTenant
<1>5. /\ caller' = [caller EXCEPT ![q] = caller'[q]]
      /\ Waits(caller'[q], unlisted, listedFor, unknown)
  BY <1>1, <1>3, <1>4, OnType, StillWaits
<1>6. cached' # Absent => Told(cached'.on, cached'.age + MaxWait, unlisted, listedFor)
  BY <1>1 DEF ListInv
<1>. QED BY <1>1, <1>5, <1>6, OthersStand

LEMMA PutInv ==
  ASSUME AllowlistTypeOK, ListInv, NEW q \in Callers, SetIPAllowlist(q)
  PROVE  ListInv'
<1>1. IsIn(q, "put") /\ UNCHANGED <<rows, ages>>
  BY DEF SetIPAllowlist
<1>2. /\ caller[q] # Absent /\ caller[q].at = "put"
      /\ caller[q].age \in Nat /\ caller[q].age <= MaxWait
  BY <1>1 DEF IsIn, AllowlistTypeOK, Caller
<1>3. Told(caller[q].held, caller[q].age, unlisted, listedFor)
  BY <1>2 DEF ListInv, Waits
<1>4. Told(caller[q].held, MaxWait, unlisted, listedFor)
  BY <1>2, <1>3, ToldLonger, AgesType, AllowlistAssumption
<1>5. \E place \in {"passed", "refused"} : Advance(q, place, {})
  BY DEF SetIPAllowlist, Judged
<1>6. /\ caller' = [caller EXCEPT ![q] = caller'[q]]
      /\ Waits(caller'[q], unlisted, listedFor, unknown)
  BY <1>1, <1>5, StillWaits
<1>7. cached' = [on |-> caller[q].held, age |-> 0] \/ cached' = cached
  BY DEF SetIPAllowlist
<1>8. [on |-> caller[q].held, age |-> 0].on = caller[q].held /\ 0 + MaxWait = MaxWait
  BY AllowlistAssumption
<1>9. cached' # Absent => Told(cached'.on, cached'.age + MaxWait, unlisted, listedFor)
  <2>1. CASE cached' = cached
    BY <2>1 DEF ListInv
  <2>2. CASE cached' = [on |-> caller[q].held, age |-> 0]
    <3>1. cached'.on = caller[q].held /\ cached'.age + MaxWait = MaxWait
      BY <2>2, <1>8
    <3>. QED BY <3>1, <1>4
  <2>. QED BY <1>7, <2>1, <2>2
<1>. QED BY <1>1, <1>6, <1>9, OthersStand

LEMMA ArriveInv ==
  ASSUME AllowlistTypeOK, ListInv, NEW q \in Callers, NEW a \in Addr, ByCredential(q, a) \/ ByAddress(q, a)
  PROVE  ListInv'
<1>1. PICK kind \in {"credential", "address"} :
        Arrive(q, a, kind) /\ (kind = "address" => Known(ranges, noauth, client, a))
  BY FindKnown DEF ByCredential, ByAddress
<1> DEFINE d == [addr |-> a, kind |-> kind, age |-> 0, at |-> "check", held |-> {}]
<1>2. d.addr = a /\ d.kind = kind /\ d.age = 0 /\ d.at = "check"
  OBVIOUS
<1>3. caller' = [caller EXCEPT ![q] = d]
  BY <1>1 DEF Arrive
<1> HIDE DEF d
<1>4. kind = "address" => unknown[a] = 0
  BY <1>1 DEF ListInv, AgesRight
<1>5. Waits(d, unlisted, listedFor, unknown)
  BY <1>2, <1>4 DEF Waits
<1>6. UNCHANGED <<rows, ages>> /\ cached' = cached
  BY <1>1 DEF Arrive
<1>7. cached' # Absent => Told(cached'.on, cached'.age + MaxWait, unlisted, listedFor)
  BY <1>6 DEF ListInv
<1>. QED BY <1>3, <1>5, <1>6, <1>7, OthersStand

LEMMA EndCallInv ==
  ASSUME AllowlistTypeOK, ListInv, NEW q \in Callers, EndCall(q)
  PROVE  ListInv'
<1>1. UNCHANGED <<rows, ages>> /\ cached' = cached /\ caller' = [caller EXCEPT ![q] = Absent]
  BY DEF EndCall
<1>2. cached' # Absent => Told(cached'.on, cached'.age + MaxWait, unlisted, listedFor)
  BY <1>1 DEF ListInv
<1>. QED BY <1>1, <1>2, OthersStand

LEMMA KeyInv ==
  ASSUME AllowlistTypeOK, ListInv, InvalidateIPAllowlist \/ EvictList \/ AllowlistCrash
  PROVE  ListInv'
<1>1. UNCHANGED <<rows, ages>> /\ cached' \in {cached, Absent}
  BY DEF InvalidateIPAllowlist, EvictList, AllowlistCrash
<1>2. /\ ranges' = ranges /\ noauth' = noauth /\ client' = client
      /\ unlisted' = unlisted /\ listedFor' = listedFor /\ unknown' = unknown
  BY <1>1 DEF rows, ages
<1>3. caller' = caller \/ \A q \in Callers : caller'[q] = Absent
  BY DEF InvalidateIPAllowlist, EvictList, AllowlistCrash
<1>. QED BY <1>1, <1>2, <1>3, ListInvNext DEF ListInv
\* Time passes, for the lists as for what they say.
LEMMA TickInv ==
  ASSUME AllowlistTypeOK, ListInv, AllowlistTypeOK', AllowlistTick
  PROVE  ListInv'
<1>1. /\ unlisted \in Ages /\ listedFor \in Ages /\ unknown \in Ages
  BY AgesType
<1>2. ASSUME NEW a \in Addr
      PROVE  /\ unlisted'[a] \in Nat /\ unlisted'[a] <= unlisted[a] + 1
             /\ (Welcome(ranges, a) => unlisted'[a] = 0)
             /\ listedFor'[a] \in Nat /\ listedFor'[a] <= listedFor[a] + 1
             /\ (~Welcome(ranges, a) => listedFor'[a] = 0)
             /\ unknown'[a] \in Nat /\ unknown'[a] <= unknown[a] + 1
             /\ (Known(ranges, noauth, client, a) => unknown'[a] = 0)
  <2>1. unlisted[a] \in Nat /\ listedFor[a] \in Nat /\ unknown[a] \in Nat
    BY <1>1 DEF Ages
  <2>2. /\ unlisted'[a] = Since(unlisted[a], Welcome(ranges, a), VerdictBound)
        /\ listedFor'[a] = Since(listedFor[a], ~Welcome(ranges, a), VerdictBound)
        /\ unknown'[a] = Since(unknown[a], Known(ranges, noauth, client, a), NoauthBound)
    BY DEF AllowlistTick
  <2>. QED BY <2>1, <2>2 DEF Since
<1>3. unlisted' \in Ages /\ listedFor' \in Ages /\ unknown' \in Ages
  BY <1>2 DEF AllowlistTick, Ages
<1>4. AgesRight(ranges', noauth', client', unlisted', listedFor', unknown')
  BY <1>2 DEF AgesRight, AllowlistTick, rows
<1>7. Grown(unlisted, unlisted', 1) /\ Grown(listedFor, listedFor', 1) /\ Grown(unknown, unknown', 1)
  BY <1>2 DEF Grown
<1>5. cached' # Absent => Told(cached'.on, cached'.age + MaxWait, unlisted', listedFor')
  <2>1. SUFFICES ASSUME cached # Absent, cached' = [on |-> cached.on, age |-> cached.age + 1]
                 PROVE  Told(cached'.on, cached'.age + MaxWait, unlisted', listedFor')
    BY DEF AllowlistTick, ListLives
  <2>2. cached'.on = cached.on /\ cached'.age = cached.age + 1
    BY <2>1
  <2>3. cached.age \in Nat /\ MaxWait \in Nat
    BY <2>1, AllowlistAssumption DEF AllowlistTypeOK
  <2>4. cached.age + MaxWait \in Nat /\ cached'.age + MaxWait = (cached.age + MaxWait) + 1
    BY <2>2, <2>3
  <2>5. Told(cached.on, cached.age + MaxWait, unlisted, listedFor)
    BY <2>1 DEF ListInv
  <2>6. Told(cached.on, (cached.age + MaxWait) + 1, unlisted', listedFor')
    BY <1>1, <1>3, <1>7, <2>4, <2>5, ToldLater
  <2>. QED BY <2>2, <2>4, <2>6
<1>6. ASSUME NEW q \in Callers, caller'[q] # Absent
      PROVE  Waits(caller'[q], unlisted', listedFor', unknown')
  <2>1. /\ caller[q] # Absent /\ caller[q] \in Caller /\ caller'[q] \in Caller
        /\ caller'[q].addr = caller[q].addr /\ caller'[q].kind = caller[q].kind
        /\ caller'[q].age = caller[q].age + 1
        /\ caller'[q].at = caller[q].at /\ caller'[q].held = caller[q].held
    BY <1>6, TickCaller
  <2>2. Waits(caller[q], unlisted, listedFor, unknown)
    BY <2>1 DEF ListInv
  <2>3. /\ caller[q].age \in Nat
        /\ unknown[caller[q].addr] \in Nat /\ unknown'[caller[q].addr] \in Nat
        /\ unknown'[caller[q].addr] <= unknown[caller[q].addr] + 1
    BY <1>1, <1>2, <2>1 DEF Caller, Ages
  <2>4. ASSUME caller'[q].at = "put"
        PROVE  Told(caller'[q].held, caller'[q].age, unlisted', listedFor')
    <3>1. Told(caller[q].held, caller[q].age, unlisted, listedFor)
      BY <2>1, <2>2, <2>4 DEF Waits
    <3>2. Told(caller[q].held, caller[q].age + 1, unlisted', listedFor')
      BY <1>1, <1>3, <1>7, <2>3, <3>1, ToldLater
    <3>. QED BY <2>1, <3>2
  <2>5. ASSUME caller'[q].kind = "address", caller'[q].at \notin Verdicts
        PROVE  unknown'[caller'[q].addr] <= caller'[q].age
    <3>1. unknown[caller[q].addr] <= caller[q].age
      BY <2>1, <2>2, <2>5 DEF Waits
    <3>. QED BY <2>1, <2>3, <3>1
  <2>. QED BY <2>4, <2>5 DEF Waits
<1>. QED BY <1>4, <1>5, <1>6, ListInvNext

LEMMA ListInvStep ==
  ASSUME AllowlistTypeOK, ListInv, [AllowlistNext]_allowlistVars
  PROVE  ListInv'
<1>1. AllowlistTypeOK'
  BY AllowlistStepType
<1>2. CASE UNCHANGED allowlistVars
  <2>1. /\ ranges' = ranges /\ noauth' = noauth /\ client' = client /\ cached' = cached
        /\ caller' = caller
        /\ unlisted' = unlisted /\ listedFor' = listedFor /\ unknown' = unknown
    BY <1>2 DEF allowlistVars
  <2>. QED BY <2>1, ListInvNext DEF ListInv
<1>3. CASE \/ \E c \in Ranges : CreateRange(c) \/ LabelRange(c) \/ DeleteRange(c)
           \/ EnableNoauth \/ DisableNoauth \/ DeleteNoauth
           \/ SuspendClient \/ ReactivateClient \/ DeleteTenant
  BY <1>1, <1>3, PanelType, EditInv
<1>. QED BY <1>1, <1>2, <1>3, GetInv, FindInv, PutInv, ArriveInv, EndCallInv, KeyInv, TickInv
         DEF AllowlistNext

LEMMA AllowlistInitInv == AllowlistInit => ListInv
BY DEF AllowlistInit, ListInv, AgesRight

-----------------------------------------------------------------------------
\* What changes the place of a request that stays.
LEMMA RequestMoves ==
  ASSUME AllowlistTypeOK, [AllowlistNext]_allowlistVars, NEW q \in Callers,
         caller[q] # Absent, caller'[q] # Absent, caller'[q].at # caller[q].at
  PROVE  GetIPAllowlist(q) \/ FindByTenant(q) \/ SetIPAllowlist(q)
<1>1. caller \in [Callers -> Caller \cup {Absent}]
  BY DEF AllowlistTypeOK
<1>2. caller' # caller
  OBVIOUS
<1>3. ASSUME NEW p \in Callers, NEW a \in Addr
      PROVE  ~ByCredential(p, a) /\ ~ByAddress(p, a)
  <2>1. ASSUME NEW kind, Arrive(p, a, kind)
        PROVE  FALSE
    BY <1>1, <2>1 DEF Arrive
  <2>. QED BY <2>1 DEF ByCredential, ByAddress
<1>4. ASSUME NEW p \in Callers
      PROVE  ~EndCall(p)
  BY <1>1 DEF EndCall
<1>5. ~AllowlistTick
  BY TickCaller
<1>6. ~InvalidateIPAllowlist /\ ~EvictList /\ ~AllowlistCrash
  BY <1>2 DEF InvalidateIPAllowlist, EvictList, AllowlistCrash
<1>7. ~(\/ \E c \in Ranges : CreateRange(c) \/ LabelRange(c) \/ DeleteRange(c)
        \/ EnableNoauth \/ DisableNoauth \/ DeleteNoauth
        \/ SuspendClient \/ ReactivateClient \/ DeleteTenant)
  BY <1>2, PanelType DEF ListEdit
<1>8. ASSUME NEW p \in Callers, GetIPAllowlist(p) \/ FindByTenant(p) \/ SetIPAllowlist(p)
      PROVE  p = q
  <2>1. \E place, list : Advance(p, place, list)
    BY <1>8 DEF GetIPAllowlist, FindByTenant, SetIPAllowlist, Judged
  <2>2. \E d : caller' = [caller EXCEPT ![p] = d]
    BY <2>1 DEF Advance
  <2>. QED BY <1>1, <2>2
<1>. QED BY <1>2, <1>3, <1>4, <1>5, <1>6, <1>7, <1>8 DEF AllowlistNext, allowlistVars

LEMMA VerdictsRight ==
  ASSUME AllowlistTypeOK, ListInv, [AllowlistNext]_allowlistVars, NEW q \in Callers,
         caller[q] # Absent, caller'[q] # Absent, caller[q].at \notin Verdicts
  PROVE  /\ caller'[q].at = "passed" => unlisted[caller[q].addr] <= VerdictBound
         /\ caller'[q].at = "refused" => listedFor[caller[q].addr] <= VerdictBound
<1>1. caller[q].addr \in Addr /\ caller[q].age \in Nat /\ caller[q].age <= MaxWait
  BY DEF AllowlistTypeOK, Caller
<1>2. unlisted \in Ages /\ listedFor \in Ages /\ VerdictBound \in Nat
  BY AgesType, BoundsNat
<1>3. ASSUME NEW list \in SUBSET Ranges, Judged(q, list), Told(list, VerdictBound, unlisted, listedFor)
      PROVE  /\ caller'[q].at = "passed" => unlisted[caller[q].addr] <= VerdictBound
             /\ caller'[q].at = "refused" => listedFor[caller[q].addr] <= VerdictBound
  <2>1. /\ Admits(list, caller[q].addr) => unlisted[caller[q].addr] <= VerdictBound
        /\ ~Admits(list, caller[q].addr) => listedFor[caller[q].addr] <= VerdictBound
    BY <1>1, <1>3 DEF Told
  <2>2. CASE Admits(list, caller[q].addr)
    <3>1. Advance(q, "passed", {})
      BY <1>3, <2>2 DEF Judged
    <3>2. caller'[q].at = "passed"
      BY <3>1, AdvanceFacts
    <3>. QED BY <2>1, <2>2, <3>2
  <2>3. CASE ~Admits(list, caller[q].addr)
    <3>1. Advance(q, "refused", {})
      BY <1>3, <2>3 DEF Judged
    <3>2. caller'[q].at = "refused"
      BY <3>1, AdvanceFacts
    <3>. QED BY <2>1, <2>3, <3>2
  <2>. QED BY <2>2, <2>3
<1>4. CASE GetIPAllowlist(q)
  <2>1. (cached # Absent /\ Judged(q, cached.on)) \/ Advance(q, "load", {})
    BY <1>4 DEF GetIPAllowlist
  <2>2. CASE Advance(q, "load", {})
    <3>1. caller'[q].at = "load"
      BY <2>2, AdvanceFacts
    <3>. QED BY <3>1
  <2>3. CASE cached # Absent /\ Judged(q, cached.on)
    <3>1. cached \in CachedList
      BY <2>3 DEF AllowlistTypeOK, CachedList
    <3>2. cached.on \in SUBSET Ranges /\ cached.age \in Nat /\ cached.age <= ListLife
      BY <3>1, AllowlistAssumption DEF CachedList
    <3>3. cached.age + MaxWait \in Nat /\ cached.age + MaxWait <= VerdictBound
      BY <3>2, AllowlistAssumption DEF VerdictBound
    <3>4. Told(cached.on, cached.age + MaxWait, unlisted, listedFor)
      BY <2>3 DEF ListInv
    <3>5. Told(cached.on, VerdictBound, unlisted, listedFor)
      BY <1>2, <3>3, <3>4, ToldLonger
    <3>. QED BY <1>3, <2>3, <3>2, <3>5
  <2>. QED BY <2>1, <2>2, <2>3
<1>5. CASE FindByTenant(q)
  <2>1. Advance(q, "put", On(ranges)) \/ Advance(q, "open", {})
    BY <1>5 DEF FindByTenant
  <2>2. caller'[q].at \in {"put", "open"}
    BY <2>1, OnType, AdvanceFacts
  <2>. QED BY <2>2
<1>6. CASE SetIPAllowlist(q)
  <2>1. caller[q].at = "put" /\ Judged(q, caller[q].held)
    BY <1>6 DEF SetIPAllowlist, IsIn
  <2>2. caller[q].held \in SUBSET Ranges
    BY DEF AllowlistTypeOK, Caller
  <2>3. Told(caller[q].held, caller[q].age, unlisted, listedFor)
    BY <2>1 DEF ListInv, Waits
  <2>4. caller[q].age <= VerdictBound
    BY <1>1, AllowlistAssumption DEF VerdictBound
  <2>5. Told(caller[q].held, VerdictBound, unlisted, listedFor)
    BY <1>1, <1>2, <2>3, <2>4, ToldLonger
  <2>. QED BY <1>3, <2>1, <2>2, <2>5
<1>7. CASE caller'[q].at = caller[q].at
  BY <1>7 DEF Verdicts
<1>. QED BY <1>4, <1>5, <1>6, <1>7, RequestMoves

LEMMA PassesRight ==
  ASSUME AllowlistTypeOK, ListInv, NEW q \in Callers,
         caller[q] # Absent, caller[q].kind = "address", caller[q].at \notin Verdicts
  PROVE  unknown[caller[q].addr] <= NoauthBound
<1>1. caller[q].addr \in Addr /\ caller[q].age \in Nat /\ caller[q].age <= MaxWait
  BY DEF AllowlistTypeOK, Caller
<1>2. unknown[caller[q].addr] \in Nat
  BY <1>1, AgesType DEF Ages
<1>3. unknown[caller[q].addr] <= caller[q].age
  BY DEF ListInv, Waits
<1>. QED BY <1>1, <1>2, <1>3, AllowlistAssumption DEF NoauthBound

-----------------------------------------------------------------------------
\* Whatever is lost, evicted or overtaken between the list in Postgres, its copy in
\* Redis and the request: a request is let through, or kept out, by what the list
\* said at most a lifetime of the copy and one request ago.
THEOREM VerdictCorrect == AllowlistSpec => VerdictRecent
<1>1. AllowlistInit => AllowlistTypeOK /\ ListInv
  BY AllowlistInitType, AllowlistInitInv
<1>2. AllowlistTypeOK /\ ListInv /\ [AllowlistNext]_allowlistVars => AllowlistTypeOK' /\ ListInv'
  BY AllowlistStepType, ListInvStep
<1>3. AllowlistTypeOK /\ ListInv /\ [AllowlistNext]_allowlistVars =>
        [\A q \in Callers :
           LET c == caller[q]
               d == caller'[q]
           IN  c # Absent /\ d # Absent /\ c.at \notin Verdicts =>
                 /\ d.at = "passed" => unlisted[c.addr] <= VerdictBound
                 /\ d.at = "refused" => listedFor[c.addr] <= VerdictBound]_allowlistVars
  BY VerdictsRight
<1>. QED BY <1>1, <1>2, <1>3, PTL DEF AllowlistSpec, VerdictRecent

\* However stale or empty the list the check then goes by: who comes without a
\* credential gets through only if FindTenantByIP found the address when the
\* request came.
THEOREM NoauthCorrect == AllowlistSpec => NoauthRecent
<1>1. AllowlistInit => AllowlistTypeOK /\ ListInv
  BY AllowlistInitType, AllowlistInitInv
<1>2. AllowlistTypeOK /\ ListInv /\ [AllowlistNext]_allowlistVars => AllowlistTypeOK' /\ ListInv'
  BY AllowlistStepType, ListInvStep
<1>3. AllowlistTypeOK /\ ListInv /\ [AllowlistNext]_allowlistVars =>
        [\A q \in Callers :
           LET c == caller[q]
               d == caller'[q]
           IN  c # Absent /\ d # Absent /\ c.kind = "address" /\ c.at \notin Verdicts
                 /\ d.at \in {"passed", "open"}
                   => unknown[c.addr] <= NoauthBound]_allowlistVars
  BY PassesRight
<1>. QED BY <1>1, <1>2, <1>3, PTL DEF AllowlistSpec, NoauthRecent

-----------------------------------------------------------------------------
\* RateLimits: the sums of its history.

\* Induction over the subsets of a finite set: of those with a property one has
\* no strict subset with it.
LEMMA Smallest ==
  ASSUME NEW S, IsFiniteSet(S), NEW P \in SUBSET SUBSET S, P # {}
  PROVE  \E T \in P : \A U \in P : U \subseteq T => U = T
<1> DEFINE Strict == StrictSubsetOrdering(S)
           Finite == FiniteSubsetsOf(S)
<1>1. IsWellFoundedOn(Strict, Finite)
  BY FS_StrictSubsetOrderingWellFounded
<1>2. P \subseteq Finite
  BY FS_Subset DEF FiniteSubsetsOf
<1>3. \E T \in P : \A U \in P : <<U, T>> \notin Strict
  <2> HIDE DEF Strict, Finite
  <2> QED BY <1>1, <1>2, WFMin
<1>4. ASSUME NEW T \in P, NEW U \in P, U \subseteq T, U # T
      PROVE  <<U, T>> \in Strict
  BY <1>2, <1>4 DEF StrictSubsetOrdering, FiniteSubsetsOf
<1> QED BY <1>3, <1>4

Total(h, S) == MapThenSumSet(LAMBDA x : h[x], S)

\* The order in which MapThenSumSet takes the elements, and the function of the
\* subsets of S it is defined with.
First(S) == CHOOSE x \in S : TRUE
Sums(g, h, S) ==
  g = [s \in SUBSET S |-> IF s = {} THEN 0 ELSE h[First(s)] + g[s \ {First(s)}]]
Iter(h, S) == CHOOSE g : Sums(g, h, S)

LEMMA TotalIs == \A h, S : Total(h, S) = Iter(h, S)[S]
BY DEF Total, MapThenSumSet, MapThenFoldSet, Iter, Sums, First

LEMMA FirstIn == \A s : s # {} => First(s) \in s
BY DEF First

\* Two of these functions agree where both are defined.
LEMMA SumsAgree ==
  ASSUME NEW h, NEW S, NEW T, NEW f, NEW g, Sums(f, h, S), Sums(g, h, T),
         NEW s \in SUBSET (S \cap T), IsFiniteSet(s)
  PROVE  f[s] = g[s]
<1> DEFINE P == {u \in SUBSET s : f[u] # g[u]}
<1>1. SUFFICES ASSUME P # {} PROVE FALSE
  OBVIOUS
<1>2. PICK u \in P : \A v \in P : v \subseteq u => v = u
  <2> HIDE DEF P
  <2>1. P \in SUBSET SUBSET s
    BY DEF P
  <2> QED BY <1>1, <2>1, Smallest
<1>3. u \in SUBSET S /\ u \in SUBSET T /\ u \in SUBSET s
  OBVIOUS
<1>4. u # {}
  BY <1>3 DEF Sums
<1>5. f[u] = h[First(u)] + f[u \ {First(u)}] /\ g[u] = h[First(u)] + g[u \ {First(u)}]
  BY <1>3, <1>4 DEF Sums
<1>6. f[u \ {First(u)}] # g[u \ {First(u)}]
  BY <1>5
<1>7. u \ {First(u)} \in P /\ u \ {First(u)} # u
  BY <1>3, <1>4, <1>6, FirstIn
<1> QED BY <1>2, <1>7

\* There is one for every finite set.
LEMMA IterSums ==
  ASSUME NEW h, NEW S, IsFiniteSet(S)
  PROVE  Sums(Iter(h, S), h, S)
<1> DEFINE P == {u \in SUBSET S : ~ Sums(Iter(h, u), h, u)}
<1>1. SUFFICES ASSUME P # {} PROVE FALSE
  OBVIOUS
<1>2. PICK u \in P : \A v \in P : v \subseteq u => v = u
  <2> HIDE DEF P
  <2>1. P \in SUBSET SUBSET S
    BY DEF P
  <2> QED BY <1>1, <2>1, Smallest
<1>3. \A v \in SUBSET u : v # u => Sums(Iter(h, v), h, v)
  BY <1>2
<1> DEFINE Rest(s) == s \ {First(s)}
           Next(s) == IF s = {} THEN 0 ELSE h[First(s)] + Iter(h, Rest(s))[Rest(s)]
           g == [s \in SUBSET u |-> Next(s)]
<1>4. ASSUME NEW s \in SUBSET u, s # u
      PROVE  Iter(h, s)[s] = Next(s)
  <2>1. CASE s = {}
    BY <1>3, <1>4, <2>1 DEF Sums
  <2>2. CASE s # {}
    <3>1. Sums(Iter(h, s), h, s)
      BY <1>3, <1>4
    <3>2. Rest(s) # u /\ Rest(s) \in SUBSET s /\ Rest(s) \in SUBSET u
      BY <2>2, FirstIn, <1>4
    <3>3. Sums(Iter(h, Rest(s)), h, Rest(s))
      BY <1>3, <3>2
    <3>4. IsFiniteSet(Rest(s))
      BY <3>2, FS_Subset
    <3>5. Iter(h, s)[Rest(s)] = Iter(h, Rest(s))[Rest(s)]
      <4> HIDE DEF Rest
      <4> QED BY <3>1, <3>2, <3>3, <3>4, SumsAgree
    <3>6. Iter(h, s)[s] = h[First(s)] + Iter(h, s)[Rest(s)]
      BY <2>2, <3>1 DEF Sums
    <3> QED BY <2>2, <3>5, <3>6
  <2> QED BY <2>1, <2>2
<1>5. ASSUME NEW s \in SUBSET u, s # {}
      PROVE  g[s] = h[First(s)] + g[Rest(s)]
  <2>1. Rest(s) \in SUBSET u /\ Rest(s) # u
    BY <1>5, FirstIn
  <2>2. g[Rest(s)] = Iter(h, Rest(s))[Rest(s)]
    BY <1>4, <2>1
  <2> QED BY <1>5, <2>2
<1>6. Sums(g, h, u)
  BY <1>5 DEF Sums
<1>7. Sums(Iter(h, u), h, u)
  <2> HIDE DEF g
  <2> QED BY <1>6 DEF Iter
<1> QED BY <1>2, <1>7

LEMMA TotalEmpty == \A h : Total(h, {}) = 0
<1> TAKE h
<1>1. Sums(Iter(h, {}), h, {})
  BY IterSums, FS_EmptySet
<1> QED BY <1>1, TotalIs DEF Sums

LEMMA TotalFirst ==
  ASSUME NEW h, NEW S, IsFiniteSet(S), S # {}
  PROVE  Total(h, S) = h[First(S)] + Total(h, S \ {First(S)})
<1> DEFINE T == S \ {First(S)}
<1>1. T \in SUBSET S /\ IsFiniteSet(T)
  BY FS_Subset
<1>2. Sums(Iter(h, S), h, S) /\ Sums(Iter(h, T), h, T)
  BY <1>1, IterSums
<1>3. Iter(h, S)[T] = Iter(h, T)[T]
  <2> HIDE DEF T
  <2> QED BY <1>1, <1>2, SumsAgree
<1>4. Iter(h, S)[S] = h[First(S)] + Iter(h, S)[T]
  BY <1>2 DEF Sums
<1> QED BY <1>3, <1>4, TotalIs

LEMMA TotalType ==
  ASSUME NEW h, NEW S, IsFiniteSet(S), \A x \in S : h[x] \in Int
  PROVE  Total(h, S) \in Int
<1> DEFINE P == {u \in SUBSET S : Total(h, u) \notin Int}
<1>1. SUFFICES ASSUME P # {} PROVE FALSE
  OBVIOUS
<1>2. PICK u \in P : \A v \in P : v \subseteq u => v = u
  <2> HIDE DEF P
  <2>1. P \in SUBSET SUBSET S
    BY DEF P
  <2> QED BY <1>1, <2>1, Smallest
<1>3. u # {} /\ IsFiniteSet(u)
  <2>1. Total(h, u) # 0
    OBVIOUS
  <2> QED BY <2>1, TotalEmpty, FS_Subset
<1>4. First(u) \in u /\ h[First(u)] \in Int
  BY <1>3, FirstIn
<1>5. Total(h, u \ {First(u)}) \in Int
  BY <1>2, <1>4
<1> QED BY <1>3, <1>4, <1>5, TotalFirst

\* Any element can be taken first.
LEMMA TotalRemove ==
  ASSUME NEW h, NEW S, IsFiniteSet(S), \A x \in S : h[x] \in Int, NEW a \in S
  PROVE  Total(h, S) = h[a] + Total(h, S \ {a})
<1> DEFINE P == {u \in SUBSET S : \E x \in u : Total(h, u) # h[x] + Total(h, u \ {x})}
<1>1. SUFFICES ASSUME P # {} PROVE FALSE
  OBVIOUS
<1>2. PICK u \in P : \A v \in P : v \subseteq u => v = u
  <2> HIDE DEF P
  <2>1. P \in SUBSET SUBSET S
    BY DEF P
  <2> QED BY <1>1, <2>1, Smallest
<1>3. PICK x \in u : Total(h, u) # h[x] + Total(h, u \ {x})
  BY <1>2
<1> DEFINE f == First(u)
<1>4. IsFiniteSet(u) /\ f \in u /\ Total(h, u) = h[f] + Total(h, u \ {f})
  BY <1>3, FS_Subset, FirstIn, TotalFirst
<1> HIDE DEF f
<1>5. f # x
  BY <1>3, <1>4
<1>6. Total(h, u \ {f}) = h[x] + Total(h, (u \ {f}) \ {x})
  <2>1. u \ {f} \notin P
    BY <1>2, <1>4
  <2> QED BY <2>1, <1>5
<1>7. Total(h, u \ {x}) = h[f] + Total(h, (u \ {x}) \ {f})
  <2>1. u \ {x} \notin P
    BY <1>2
  <2> QED BY <2>1, <1>4, <1>5
<1>8. (u \ {x}) \ {f} = (u \ {f}) \ {x}
  OBVIOUS
<1>9. Total(h, (u \ {f}) \ {x}) \in Int
  <2>1. IsFiniteSet((u \ {f}) \ {x})
    BY FS_Subset
  <2> QED BY <2>1, TotalType
<1>10. h[f] \in Int /\ h[x] \in Int
  BY <1>4
<1> QED BY <1>3, <1>4, <1>6, <1>7, <1>8, <1>9, <1>10

LEMMA TotalSame ==
  ASSUME NEW g, NEW h, NEW S, IsFiniteSet(S), \A x \in S : g[x] = h[x]
  PROVE  Total(g, S) = Total(h, S)
<1> DEFINE P == {u \in SUBSET S : Total(g, u) # Total(h, u)}
<1>1. SUFFICES ASSUME P # {} PROVE FALSE
  OBVIOUS
<1>2. PICK u \in P : \A v \in P : v \subseteq u => v = u
  <2> HIDE DEF P
  <2>1. P \in SUBSET SUBSET S
    BY DEF P
  <2> QED BY <1>1, <2>1, Smallest
<1>3. u # {} /\ IsFiniteSet(u)
  BY TotalEmpty, FS_Subset
<1>4. First(u) \in u
  BY <1>3, FirstIn
<1>5. Total(g, u \ {First(u)}) = Total(h, u \ {First(u)})
  BY <1>2, <1>4
<1> QED BY <1>3, <1>4, <1>5, TotalFirst

LEMMA TotalBounded ==
  ASSUME NEW h, NEW S, IsFiniteSet(S), NEW b \in Nat, \A x \in S : h[x] \in 0..b
  PROVE  Total(h, S) \in Nat /\ Total(h, S) <= b * Cardinality(S)
<1> DEFINE Good(u) == Total(h, u) \in Nat /\ Total(h, u) <= b * Cardinality(u)
           P == {u \in SUBSET S : ~ Good(u)}
<1>1. SUFFICES ASSUME P # {} PROVE FALSE
  OBVIOUS
<1>2. PICK u \in P : \A v \in P : v \subseteq u => v = u
  <2> HIDE DEF P
  <2>1. P \in SUBSET SUBSET S
    BY DEF P
  <2> QED BY <1>1, <2>1, Smallest
<1>3. u # {} /\ IsFiniteSet(u)
  BY TotalEmpty, FS_Subset, FS_EmptySet
<1> DEFINE f == First(u)
           c == Cardinality(u \ {f})
<1>4. f \in u /\ h[f] \in 0..b /\ Total(h, u) = h[f] + Total(h, u \ {f})
  BY <1>3, FirstIn, TotalFirst
<1>5. c \in Nat /\ Cardinality(u) = c + 1
  <2>1. IsFiniteSet(u \ {f}) /\ c = Cardinality(u) - 1
    BY <1>3, <1>4, FS_RemoveElement
  <2>2. c \in Nat /\ Cardinality(u) \in Nat
    BY <1>3, <2>1, FS_CardinalityType
  <2> QED BY <2>1, <2>2
<1>6. Good(u \ {f})
  BY <1>2, <1>4
<1> HIDE DEF f, c
<1>7. b * (c + 1) = b * c + b
  BY <1>5
<1>8. Total(h, u \ {f}) \in Nat /\ Total(h, u \ {f}) <= b * c
  BY <1>6 DEF c
<1>9. b * c \in Nat
  BY <1>5
<1>10. Good(u)
  BY <1>4, <1>5, <1>7, <1>8, <1>9
<1> QED BY <1>2, <1>10

\* What is left out of a sum is nothing.
LEMMA TotalTrim ==
  ASSUME NEW h, NEW S, IsFiniteSet(S), \A x \in S : h[x] \in Int,
         NEW T \in SUBSET S, \A x \in S \ T : h[x] = 0
  PROVE  Total(h, S) = Total(h, T)
<1> DEFINE P == {u \in SUBSET S : T \subseteq u /\ Total(h, u) # Total(h, T)}
<1>1. SUFFICES ASSUME P # {} PROVE FALSE
  OBVIOUS
<1>2. PICK u \in P : \A v \in P : v \subseteq u => v = u
  <2> HIDE DEF P
  <2>1. P \in SUBSET SUBSET S
    BY DEF P
  <2> QED BY <1>1, <2>1, Smallest
<1>3. PICK x \in u : x \notin T
  OBVIOUS
<1>4. h[x] = 0 /\ IsFiniteSet(u) /\ IsFiniteSet(u \ {x})
  BY <1>3, FS_Subset
<1>5. Total(h, u) = h[x] + Total(h, u \ {x}) /\ Total(h, u \ {x}) \in Int
  BY <1>4, TotalRemove, TotalType
<1>6. u \ {x} \in P
  BY <1>3, <1>4, <1>5
<1> QED BY <1>2, <1>6

-----------------------------------------------------------------------------
\* Sums over the ticks.

History == [Times -> Nat]

LEMMA SumIs == \A h, T : SumOf(h, T) = Total(h, T \cap Times)
BY DEF SumOf, Total

LEMMA SumFinite == \A T : IsFiniteSet(T \cap Times)
<1> TAKE T
<1>1. IsFiniteSet(Times)
  BY RatesAssumption, FS_Interval DEF Times
<1> QED BY <1>1, FS_Subset

LEMMA SumType ==
  ASSUME NEW h \in History, NEW T
  PROVE  SumOf(h, T) \in Nat
<1> DEFINE U == T \cap Times
<1>1. IsFiniteSet(U) /\ \A x \in U : h[x] \in Nat
  BY SumFinite DEF History
<1> DEFINE P == {u \in SUBSET U : Total(h, u) \notin Nat}
<1>2. SUFFICES ASSUME P # {} PROVE FALSE
  BY SumIs
<1>3. PICK u \in P : \A v \in P : v \subseteq u => v = u
  <2> HIDE DEF P
  <2>1. P \in SUBSET SUBSET U
    BY DEF P
  <2> QED BY <1>1, <1>2, <2>1, Smallest
<1>4. u # {} /\ IsFiniteSet(u)
  <2>1. Total(h, u) # 0
    OBVIOUS
  <2> QED BY <1>1, <2>1, TotalEmpty, FS_Subset
<1>5. First(u) \in u /\ h[First(u)] \in Nat
  BY <1>1, <1>4, FirstIn
<1>6. Total(h, u \ {First(u)}) \in Nat
  BY <1>3, <1>5
<1> QED BY <1>4, <1>5, <1>6, TotalFirst

\* One more at c is one more in all if c is among the ticks.
LEMMA SumCounted ==
  ASSUME NEW h \in History, NEW c \in Times, NEW T
  PROVE  /\ [h EXCEPT ![c] = @ + 1] \in History
         /\ SumOf([h EXCEPT ![c] = @ + 1], T) = SumOf(h, T) + (IF c \in T THEN 1 ELSE 0)
<1> DEFINE g == [h EXCEPT ![c] = @ + 1]
           U == T \cap Times
<1>1. g \in History
  BY DEF History
<1>2. IsFiniteSet(U) /\ IsFiniteSet(U \ {c})
  BY SumFinite, FS_Subset
<1>3. \A x \in U : g[x] \in Int /\ h[x] \in Int
  BY <1>1 DEF History
<1>4. g[c] = h[c] + 1 /\ h[c] \in Int /\ \A x \in U \ {c} : g[x] = h[x]
  BY DEF History
<1> HIDE DEF g
<1>5. CASE c \in T
  <2>1. Total(g, U \ {c}) = Total(h, U \ {c}) /\ Total(h, U \ {c}) \in Int
    BY <1>2, <1>3, <1>4, TotalSame, TotalType
  <2>2. c \in U
    BY <1>5
  <2>3. Total(g, U) = g[c] + Total(g, U \ {c})
    BY <1>2, <1>3, <2>2, TotalRemove
  <2>4. Total(h, U) = h[c] + Total(h, U \ {c})
    BY <1>2, <1>3, <2>2, TotalRemove
  <2>5. Total(g, U) = Total(h, U) + 1
    BY <1>4, <2>1, <2>3, <2>4
  <2> QED BY <1>1, <1>5, <2>5, SumIs DEF g
<1>6. CASE c \notin T
  <2>1. Total(g, U) = Total(h, U)
    BY <1>2, <1>4, <1>6, TotalSame
  <2>2. SumOf(h, T) \in Nat
    BY SumType
  <2> QED BY <1>1, <1>6, <2>1, <2>2, SumIs DEF g
<1> QED BY <1>5, <1>6

LEMMA SumOneMore ==
  ASSUME NEW h \in History, NEW c \in Times, NEW T, c \in T
  PROVE  SumOf([h EXCEPT ![c] = @ + 1], T) = SumOf(h, T) + 1
<1>1. SumOf([h EXCEPT ![c] = @ + 1], T) = SumOf(h, T) + (IF c \in T THEN 1 ELSE 0)
  BY SumCounted
<1> QED BY <1>1

LEMMA SumNoMore ==
  ASSUME NEW h \in History, NEW c \in Times, NEW T, c \notin T
  PROVE  SumOf([h EXCEPT ![c] = @ + 1], T) = SumOf(h, T)
<1>1. SumOf([h EXCEPT ![c] = @ + 1], T) = SumOf(h, T) + (IF c \in T THEN 1 ELSE 0)
  BY SumCounted
<1>2. SumOf(h, T) \in Nat
  BY SumType
<1> QED BY <1>1, <1>2

LEMMA SumGrows ==
  ASSUME NEW h \in History, NEW c \in Times, NEW T
  PROVE  /\ SumOf(h, T) \in Nat
         /\ SumOf([h EXCEPT ![c] = @ + 1], T) \in Nat
         /\ SumOf([h EXCEPT ![c] = @ + 1], T) >= SumOf(h, T)
<1>1. SumOf(h, T) \in Nat
  BY SumType
<1>2. SumOf([h EXCEPT ![c] = @ + 1], T) = SumOf(h, T) + (IF c \in T THEN 1 ELSE 0)
  BY SumCounted
<1>3. CASE c \in T
  BY <1>1, <1>2, <1>3
<1>4. CASE c \notin T
  BY <1>1, <1>2, <1>4
<1> QED BY <1>3, <1>4

\* Ticks at which nothing was counted do not matter.
LEMMA SumTrim ==
  ASSUME NEW h \in History, NEW T, NEW U \in SUBSET T, \A x \in (T \ U) \cap Times : h[x] = 0
  PROVE  SumOf(h, T) = SumOf(h, U)
<1>1. \A x \in T \cap Times : h[x] \in Int
  BY DEF History
<1>2. U \cap Times \in SUBSET (T \cap Times)
  OBVIOUS
<1>3. \A x \in (T \cap Times) \ (U \cap Times) : h[x] = 0
  OBVIOUS
<1>4. Total(h, T \cap Times) = Total(h, U \cap Times)
  BY <1>1, <1>2, <1>3, SumFinite, TotalTrim
<1> QED BY <1>4, SumIs

LEMMA SumZero ==
  ASSUME NEW h \in History, NEW T, \A x \in T \cap Times : h[x] = 0
  PROVE  SumOf(h, T) = 0
BY SumTrim, SumIs, TotalEmpty

-----------------------------------------------------------------------------
\* Types.  No history runs ahead of the clock.

NothingAhead ==
  \A t \in Times : t > clock => /\ granted[t] = 0
                                /\ tries[t] = 0
                                /\ passes[t] = 0
                                /\ unheard[t] = 0
                                /\ refusal[t] = 0

LEMMA SecondOf ==
  ASSUME NEW v \in Times
  PROVE  v \div Second \in Seconds
BY RatesAssumption DEF Times, Seconds

LEMMA IncrType ==
  ASSUME NEW k \in Counter
  PROVE  Incr(k) \in Nat \ {0}
BY DEF Incr, Counter

LEMMA BurstType ==
  ASSUME NEW k \in Counter, clock \in Times, k.ends <= clock + Window
  PROVE  /\ IncrBurst(k) \in Counter
         /\ IncrBurst(k).ends <= clock + Window
BY IncrType, RatesAssumption DEF IncrBurst, Counter, Times

LEMMA CountedType ==
  ASSUME NEW h \in History, clock \in Times
  PROVE  /\ Counted(h) \in History
         /\ \A t \in Times : t # clock => Counted(h)[t] = h[t]
BY DEF Counted, History

LEMMA IncrGlobalType ==
  ASSUME NEW k \in Counter, clock \in Times
  PROVE  /\ IncrGlobal(k) \in Counter
         /\ IncrGlobal(k).ends <= clock + 2 * Second
BY IncrType, RatesAssumption DEF IncrGlobal, Counter, Times

LEMMA GlobalType ==
  ASSUME NEW g \in [Seconds -> Counter], NEW bound, \A x \in Seconds : g[x].ends <= bound,
         NEW s \in Seconds, NEW k \in Counter, k.ends <= bound
  PROVE  /\ [g EXCEPT ![s] = k] \in [Seconds -> Counter]
         /\ \A x \in Seconds : [g EXCEPT ![s] = k][x].ends <= bound
<1> HIDE DEF Counter
<1> QED OBVIOUS

TypesAndTimes == RatesTypeOK /\ NothingAhead

LEMMA TypesStep ==
  ASSUME TypesAndTimes, [RatesNext]_rateVars
  PROVE  TypesAndTimes'
<1> USE RatesAssumption
<1> USE DEF TypesAndTimes, RatesTypeOK, NothingAhead, globalVars, burstVars, RateFault
<1>0. /\ clock \in Int /\ clock \in Times /\ \A t \in Times : t \in Int
      /\ granted \in History /\ tries \in History /\ passes \in History /\ refusal \in History
      /\ late \in History /\ unchecked \in History /\ unheard \in History
  <2>1. /\ granted \in History /\ tries \in History /\ passes \in History /\ refusal \in History
        /\ late \in History /\ unchecked \in History /\ unheard \in History
    BY DEF History
  <2>2. \A t \in Times : t \in Int
    BY DEF Times
  <2>3. clock \in Times
    OBVIOUS
  <2> QED BY <2>1, <2>2, <2>3
<1>1. ASSUME NEW q \in Waiting, NameKey(q)
      PROVE  TypesAndTimes'
  BY <1>0, <1>1 DEF NameKey
<1>2. ASSUME NEW q \in Waiting, CheckGlobal(q)
      PROVE  TypesAndTimes'
  <2> DEFINE s == named[q] \div Second
             k == IncrGlobal(global[s])
  <2>1. s \in Seconds
    BY <1>2, SecondOf DEF CheckGlobal
  <2>2. k \in Counter /\ k.ends <= clock + 2 * Second
    BY <1>0, <2>1, IncrGlobalType
  <2>3. global' = [global EXCEPT ![s] = k] /\ named' = [named EXCEPT ![q] = NotNamed]
    BY <1>2 DEF CheckGlobal
  <2>4. UNCHANGED <<clock, late, burstVars, rateFaults, evictions>>
    BY <1>2 DEF CheckGlobal
  <2>5. granted' \in History /\ \A t \in Times : t > clock => granted'[t] = 0
    BY <1>0, <1>2, CountedType DEF CheckGlobal
  <2> HIDE DEF s, k
  <2>6. global' \in [Seconds -> Counter] /\ \A x \in Seconds : global'[x].ends <= clock + 2 * Second
    BY <2>1, <2>2, <2>3, GlobalType
  <2> QED BY <1>0, <2>3, <2>4, <2>5, <2>6 DEF History
<1>3. ASSUME NEW q \in Waiting, ResendGlobal(q) \/ GlobalFails(q)
      PROVE  TypesAndTimes'
  <2>1. /\ UNCHANGED <<clock, global, granted, burstVars, evictions>>
        /\ rateFaults' \in 0..MaxRateFaults /\ rateFaults' = rateFaults + 1
    BY <1>3 DEF ResendGlobal, GlobalFails
  <2>2. named' \in {named, [named EXCEPT ![q] = NotNamed]}
    BY <1>3 DEF ResendGlobal, GlobalFails
  <2>3. named[q] \in Times /\ clock - named[q] \in 0..MaxTardy
    BY <1>3 DEF ResendGlobal, GlobalFails
  <2>4. late' \in {late, [late EXCEPT ![named[q]] = @ + 1]}
    BY <1>3 DEF ResendGlobal, GlobalFails
  <2>5. late' \in History /\ \A t \in Times : late'[t] > 0 => clock - t \in 0..MaxTardy
    BY <1>0, <2>3, <2>4 DEF History
  <2>6. /\ named' \in [Waiting -> Times \cup {NotNamed}]
        /\ \A p \in Waiting : named'[p] # NotNamed => clock - named'[p] \in 0..MaxTardy
    BY <2>2
  <2> QED BY <1>0, <2>1, <2>5, <2>6 DEF History
<1>4. ASSUME NEW v \in Times, RunLateGlobal(v)
      PROVE  TypesAndTimes'
  <2> DEFINE s == v \div Second
             k == IncrGlobal(global[s])
  <2>1. s \in Seconds
    BY SecondOf
  <2>2. k \in Counter /\ k.ends <= clock + 2 * Second
    BY <1>0, <2>1, IncrGlobalType
  <2>3. global' = [global EXCEPT ![s] = k] /\ late' = [late EXCEPT ![v] = @ - 1] /\ late[v] > 0
    BY <1>4 DEF RunLateGlobal
  <2>4. UNCHANGED <<clock, named, granted, burstVars, rateFaults, evictions>>
    BY <1>4 DEF RunLateGlobal
  <2>5. late' \in History /\ \A t \in Times : late'[t] > 0 => clock - t \in 0..MaxTardy
    BY <1>0, <2>3 DEF History
  <2> HIDE DEF s, k
  <2>6. global' \in [Seconds -> Counter] /\ \A x \in Seconds : global'[x].ends <= clock + 2 * Second
    BY <2>1, <2>2, <2>3, GlobalType
  <2> QED BY <1>0, <2>4, <2>5, <2>6 DEF History
<1>5. ASSUME NEW limit \in Bursts, CheckTenant(limit)
      PROVE  TypesAndTimes'
  <2>1. UNCHANGED <<clock, globalVars, lateBurst, unchecked, unheard, rateFaults, evictions>>
    BY <1>5 DEF CheckTenant
  <2>2. burst' \in Counter /\ burst'.ends <= clock + Window
    BY <1>5, BurstType DEF CheckTenant
  <2>3. tries' \in History /\ \A t \in Times : t > clock => tries'[t] = 0
    BY <1>0, <1>5, CountedType DEF CheckTenant
  <2>4. passes' \in History /\ \A t \in Times : t > clock => passes'[t] = 0
    BY <1>0, <1>5, CountedType DEF CheckTenant
  <2>5. refusal' \in History /\ \A t \in Times : t > clock => refusal'[t] = 0
    <3>1. Least(refusal[clock], limit) \in Nat
      BY <1>0 DEF Least, History
    <3> QED BY <1>0, <1>5, <3>1 DEF CheckTenant, History
  <2> QED BY <1>0, <2>1, <2>2, <2>3, <2>4, <2>5 DEF History
<1>6. ASSUME ResendBurst \/ TenantFails \/ ByToken
      PROVE  TypesAndTimes'
  <2>1. /\ UNCHANGED <<clock, globalVars, burst, tries, passes, unheard, refusal, evictions>>
        /\ rateFaults' \in 0..MaxRateFaults /\ rateFaults' \in {rateFaults, rateFaults + 1}
        /\ lateBurst' \in {lateBurst, lateBurst + 1}
    BY <1>6 DEF ResendBurst, TenantFails, ByToken
  <2>2. unchecked' \in History
    BY <1>0, <1>6, CountedType DEF ResendBurst, TenantFails, ByToken
  <2> QED BY <1>0, <2>1, <2>2 DEF History
<1>7. ASSUME RunBurstCopy
      PROVE  TypesAndTimes'
  <2>1. /\ UNCHANGED <<clock, globalVars, tries, passes, unchecked, refusal, rateFaults, evictions>>
        /\ lateBurst' = lateBurst - 1 /\ lateBurst > 0
    BY <1>7 DEF RunBurstCopy
  <2>2. burst' \in Counter /\ burst'.ends <= clock + Window
    BY <1>7, BurstType DEF RunBurstCopy
  <2>3. unheard' \in History /\ \A t \in Times : t > clock => unheard'[t] = 0
    BY <1>0, <1>7, CountedType DEF RunBurstCopy
  <2> QED BY <1>0, <2>1, <2>2, <2>3 DEF History
<1>8. ASSUME EvictCounter
      PROVE  TypesAndTimes'
  <2>1. /\ UNCHANGED <<clock, named, late, granted, lateBurst, tries, passes, unchecked, unheard, refusal>>
        /\ rateFaults' \in 0..MaxRateFaults /\ evictions' \in 0..rateFaults'
    BY <1>8 DEF EvictCounter
  <2>2. [n |-> 0, ends |-> 0] \in Counter
    BY DEF Counter
  <2>3. burst' \in Counter /\ burst'.ends <= clock + Window
    <3>1. burst' = burst \/ burst' = [n |-> 0, ends |-> 0]
      BY <1>8 DEF EvictCounter
    <3>2. burst \in Counter /\ burst.ends <= clock + Window
      OBVIOUS
    <3>3. clock \in Nat /\ Window \in Nat
      BY DEF Times
    <3> QED BY ONLY <2>2, <3>1, <3>2, <3>3
  <2>4. global' \in [Seconds -> Counter] /\ \A x \in Seconds : global'[x].ends <= clock + 2 * Second
    <3>1. 0 <= clock + 2 * Second /\ [n |-> 0, ends |-> 0].ends <= clock + 2 * Second
      BY <1>0 DEF Times
    <3>2. CASE UNCHANGED global
      BY <3>2
    <3>3. CASE \E s \in Seconds : global' = [global EXCEPT ![s] = [n |-> 0, ends |-> 0]]
      BY <2>2, <3>1, <3>3, GlobalType
    <3> QED BY <1>8, <3>2, <3>3 DEF EvictCounter
  <2> QED BY <1>0, <2>1, <2>3, <2>4
<1>9. ASSUME RatesTick
      PROVE  TypesAndTimes'
  <2>1. UNCHANGED <<globalVars, burstVars, rateFaults, evictions>>
    BY <1>9 DEF RatesTick
  <2>2. clock' = clock + 1 /\ clock' \in Times
    BY <1>0, <1>9 DEF RatesTick, Times
  <2>3. /\ burst.ends <= clock' + Window
        /\ \A s \in Seconds : global[s].ends <= clock' + 2 * Second
    BY <1>0, <2>2 DEF Counter
  <2>4. \A q \in Waiting : named[q] # NotNamed => clock' - named[q] \in 0..MaxTardy
    <3> SUFFICES ASSUME NEW q \in Waiting, named[q] # NotNamed
                 PROVE  clock' - named[q] \in 0..MaxTardy
      OBVIOUS
    <3>1. named[q] \in Int /\ clock - named[q] \in 0..MaxTardy /\ clock - named[q] < MaxTardy
      BY <1>0, <1>9 DEF RatesTick
    <3> QED BY <1>0, <2>2, <3>1
  <2>5. \A t \in Times : late[t] > 0 => clock' - t \in 0..MaxTardy
    <3> SUFFICES ASSUME NEW t \in Times, late[t] > 0
                 PROVE  clock' - t \in 0..MaxTardy
      OBVIOUS
    <3>1. t \in Int /\ clock - t \in 0..MaxTardy /\ clock - t < MaxTardy
      BY <1>0, <1>9 DEF RatesTick
    <3> QED BY <1>0, <2>2, <3>1
  <2> QED BY <1>0, <2>1, <2>2, <2>3, <2>4, <2>5
<1>10. CASE UNCHANGED rateVars
  BY <1>10 DEF rateVars
<1> QED
  BY <1>1, <1>2, <1>3, <1>4, <1>5, <1>6, <1>7, <1>8, <1>9, <1>10 DEF RatesNext

LEMMA TypesCorrect == RatesSpec => []TypesAndTimes
<1>1. RatesInit => TypesAndTimes
  BY RatesAssumption DEF RatesInit, TypesAndTimes, RatesTypeOK, NothingAhead, Times, Counter
<1> QED BY <1>1, TypesStep, PTL DEF RatesSpec

\* No key outlives its lifetime, whatever expires, fails or is evicted.
THEOREM RatesTypeCorrect == RatesSpec => []RatesTypeOK
<1>1. TypesAndTimes => RatesTypeOK
  BY DEF TypesAndTimes
<1> QED BY <1>1, TypesCorrect, PTL

-----------------------------------------------------------------------------
\* The window of the tenant.

Live == burst.ends > clock
Begun == Live => burst.n > 0

LEMMA BurstStep ==
  ASSUME RatesTypeOK, Begun, burst' = IncrBurst(burst), UNCHANGED clock
  PROVE  /\ Live'
         /\ Live  => burst'.n = burst.n + 1 /\ burst'.ends = burst.ends
         /\ ~Live => burst'.n = 1 /\ burst'.ends = clock + Window
<1>1. clock \in Nat /\ burst.n \in Nat /\ burst.ends \in Nat /\ Window > 0 /\ Window \in Nat
  BY RatesAssumption DEF RatesTypeOK, Counter, Times
<1>2. CASE Live
  <2>1. burst' = [n |-> burst.n + 1, ends |-> burst.ends]
    BY <1>1, <1>2 DEF IncrBurst, Incr, Live, Begun
  <2> QED BY <1>2, <2>1 DEF Live
<1>3. CASE ~Live
  <2>1. burst' = [n |-> 1, ends |-> clock + Window]
    BY <1>1, <1>3 DEF IncrBurst, Incr, Live
  <2> QED BY <1>1, <1>3, <2>1 DEF Live
<1> QED BY <1>2, <1>3

TypesAndBegun == TypesAndTimes /\ Begun

LEMMA BegunStep ==
  ASSUME TypesAndBegun, [RatesNext]_rateVars
  PROVE  TypesAndBegun'
<1>1. TypesAndTimes'
  BY TypesStep DEF TypesAndBegun
<1>2. /\ RatesTypeOK /\ Begun
      /\ clock \in Nat /\ burst.n \in Nat /\ burst.ends \in Nat
  BY DEF TypesAndBegun, TypesAndTimes, RatesTypeOK, Counter, Times
<1>3. CASE burst' = IncrBurst(burst) /\ UNCHANGED clock
  BY <1>1, <1>2, <1>3, BurstStep DEF Begun, TypesAndBegun
<1>4. CASE burst' = burst /\ clock' \in {clock, clock + 1}
  BY <1>1, <1>2, <1>4 DEF Begun, Live, TypesAndBegun
<1>5. CASE burst' = [n |-> 0, ends |-> 0] /\ UNCHANGED clock
  BY <1>1, <1>2, <1>5 DEF Begun, Live, TypesAndBegun
<1>6. \/ burst' = IncrBurst(burst) /\ UNCHANGED clock
      \/ burst' = burst /\ clock' \in {clock, clock + 1}
      \/ burst' = [n |-> 0, ends |-> 0] /\ UNCHANGED clock
  BY DEF RatesNext, rateVars, globalVars, burstVars, NameKey, CheckGlobal, ResendGlobal,
         GlobalFails, RunLateGlobal, CheckTenant, ResendBurst, TenantFails, RunBurstCopy,
         ByToken, EvictCounter, RatesTick
<1> QED BY <1>3, <1>4, <1>5, <1>6

LEMMA BegunCorrect == RatesSpec => []TypesAndBegun
<1>1. RatesInit => TypesAndBegun
  BY RatesAssumption DEF RatesInit, TypesAndBegun, TypesAndTimes, RatesTypeOK, NothingAhead,
                         Times, Counter, Begun, Live
<1> QED BY <1>1, BegunStep, PTL DEF RatesSpec

LEMMA RanType ==
  ASSUME TypesAndBegun
  PROVE  Ran \in History
BY DEF TypesAndBegun, TypesAndTimes, RatesTypeOK, Ran, History

\* A run is a request's or a copy's.
LEMMA RanCounted ==
  ASSUME TypesAndBegun, UNCHANGED clock,
         \/ tries' = Counted(tries) /\ UNCHANGED unheard
         \/ unheard' = Counted(unheard) /\ UNCHANGED tries
  PROVE  Ran' = Counted(Ran)
<1>1. /\ clock \in Times /\ tries \in [Times -> Nat] /\ unheard \in [Times -> Nat]
  BY DEF TypesAndBegun, TypesAndTimes, RatesTypeOK
<1> DEFINE R == [t \in Times |-> tries[t] + unheard[t]]
           C == [R EXCEPT ![clock] = @ + 1]
<1>2. Ran' = [t \in Times |-> tries'[t] + unheard'[t]]
  BY DEF Ran
<1>3. ASSUME NEW t \in Times
      PROVE  tries'[t] + unheard'[t] = C[t]
  <2>1. CASE tries' = Counted(tries) /\ UNCHANGED unheard
    <3>1. tries'[t] = IF t = clock THEN tries[t] + 1 ELSE tries[t]
      BY <1>1, <2>1 DEF Counted
    <3> QED BY <1>1, <2>1, <3>1
  <2>2. CASE unheard' = Counted(unheard) /\ UNCHANGED tries
    <3>1. unheard'[t] = IF t = clock THEN unheard[t] + 1 ELSE unheard[t]
      BY <1>1, <2>2 DEF Counted
    <3> QED BY <1>1, <2>2, <3>1
  <2> QED BY <2>1, <2>2
<1>4. C = [t \in Times |-> C[t]]
  OBVIOUS
<1>5. Counted(Ran) = C
  BY DEF Ran, Counted
<1> HIDE DEF C
<1> QED BY <1>2, <1>3, <1>4, <1>5

\* The counter counts runs of its window.
CountsRuns ==
  Live => \A a \in Int : a + Window <= burst.ends => SumOf(Ran, a..MaxClock) >= burst.n

CauseInv == TypesAndBegun /\ CountsRuns /\ RefusedForCause

\* Another run is in every sum that reaches the present.
LEMMA RunsStep ==
  ASSUME TypesAndBegun, CountsRuns, burst' = IncrBurst(burst), UNCHANGED clock,
         Ran' = Counted(Ran)
  PROVE  CountsRuns'
<1>1. /\ Ran \in History /\ clock \in Times /\ clock \in Nat /\ RatesTypeOK /\ Begun
      /\ burst.n \in Nat /\ burst.ends \in Nat /\ burst.ends <= clock + Window
      /\ MaxClock \in Nat /\ clock <= MaxClock /\ Window \in Nat
  <2>1. TypesAndTimes /\ RatesTypeOK /\ Begun
    BY DEF TypesAndBegun, TypesAndTimes
  <2>2. Ran \in History /\ clock \in Times
    BY <2>1, RanType DEF RatesTypeOK
  <2>3. burst.n \in Nat /\ burst.ends \in Nat /\ burst.ends <= clock + Window
    BY <2>1 DEF RatesTypeOK, Counter
  <2>4. MaxClock \in Nat /\ Window \in Nat /\ clock \in Nat /\ clock <= MaxClock
    BY <2>2, RatesAssumption DEF Times
  <2> QED BY <2>1, <2>2, <2>3, <2>4
<1>2. SUFFICES ASSUME NEW a \in Int, a + Window <= burst'.ends
               PROVE  SumOf(Ran', a..MaxClock) >= burst'.n
  BY DEF CountsRuns
<1>3. /\ Live  => burst'.n = burst.n + 1 /\ burst'.ends = burst.ends
      /\ ~Live => burst'.n = 1 /\ burst'.ends = clock + Window
  BY <1>1, BurstStep
<1>4. clock \in a..MaxClock
  <2>1. a <= clock
    BY <1>1, <1>2, <1>3
  <2> QED BY <1>1, <2>1
<1>5. /\ SumOf(Ran', a..MaxClock) = SumOf(Ran, a..MaxClock) + 1
      /\ SumOf(Ran, a..MaxClock) \in Nat
  BY <1>1, <1>4, SumCounted, SumType DEF Counted
<1>6. CASE Live
  BY <1>1, <1>2, <1>3, <1>5, <1>6 DEF CountsRuns
<1>7. CASE ~Live
  BY <1>3, <1>5, <1>7
<1> QED BY <1>6, <1>7

\* What was refused before, for cause, stays so.
LEMMA CauseKept ==
  ASSUME TypesAndBegun, RefusedForCause, UNCHANGED refusal,
         \/ UNCHANGED Ran
         \/ Ran' = Counted(Ran)
  PROVE  RefusedForCause'
<1>1. Ran \in History /\ clock \in Times /\ refusal \in History
  BY RanType DEF TypesAndBegun, TypesAndTimes, RatesTypeOK, History
<1>2. SUFFICES ASSUME NEW t \in Times, refusal[t] # 0
               PROVE  SumOf(Ran', (t - Window + 1)..t) > refusal[t]
  BY DEF RefusedForCause
<1>3. SumOf(Ran, (t - Window + 1)..t) > refusal[t] /\ refusal[t] \in Nat
  BY <1>1, <1>2 DEF RefusedForCause, History
<1>4. CASE UNCHANGED Ran
  BY <1>3, <1>4
<1>5. CASE Ran' = Counted(Ran)
  <2>1. /\ SumOf(Ran, (t - Window + 1)..t) \in Nat /\ SumOf(Ran', (t - Window + 1)..t) \in Nat
        /\ SumOf(Ran', (t - Window + 1)..t) >= SumOf(Ran, (t - Window + 1)..t)
    BY <1>1, <1>5, SumGrows DEF Counted
  <2> QED BY <1>3, <2>1
<1> QED BY <1>4, <1>5

\* A request that is refused comes after more than its limit, in the last window.
LEMMA CauseRefused ==
  ASSUME CauseInv, NEW limit \in Bursts, CheckTenant(limit), ~Within(burst'.n, limit)
  PROVE  RefusedForCause'
<1>1. /\ Ran \in History /\ refusal \in History /\ passes \in History
      /\ clock \in Times /\ clock \in Nat /\ clock <= MaxClock
      /\ TypesAndBegun /\ RatesTypeOK /\ Begun /\ NothingAhead
      /\ MaxClock \in Nat /\ Window \in Nat /\ Window > 0 /\ limit \in Nat
  <2>1. TypesAndBegun /\ Begun /\ TypesAndTimes /\ RatesTypeOK /\ NothingAhead
    BY DEF CauseInv, TypesAndBegun, TypesAndTimes
  <2>2. Ran \in History /\ refusal \in History /\ passes \in History /\ clock \in Times
    BY <2>1, RanType DEF RatesTypeOK, History
  <2>3. MaxClock \in Nat /\ Window \in Nat /\ Window > 0 /\ limit \in Nat
    BY RatesAssumption
  <2>4. clock \in Nat /\ clock <= MaxClock
    BY <2>2, <2>3 DEF Times
  <2> QED BY <2>1, <2>2, <2>3, <2>4
<1>2. /\ burst' = IncrBurst(burst) /\ Ran' = Counted(Ran)
      /\ UNCHANGED clock
      /\ refusal' = [refusal EXCEPT ![clock] = Least(@, limit)]
  BY <1>1, RanCounted DEF CheckTenant
<1>3. burst' \in Counter /\ TypesAndTimes'
  <2>1. [RatesNext]_rateVars
    BY DEF RatesNext
  <2> QED BY <1>1, <2>1, BegunStep DEF TypesAndBegun, TypesAndTimes, RatesTypeOK
<1>4. CountsRuns' /\ Live'
  BY <1>1, <1>2, RunsStep, BurstStep DEF CauseInv
<1>5. SumOf(Ran', (clock - Window + 1)..clock) >= burst'.n
  <2> DEFINE a == clock - Window + 1
  <2>1. a \in Int /\ a + Window <= burst'.ends
    BY <1>1, <1>2, <1>3, <1>4 DEF Live, Counter
  <2>2. SumOf(Ran', a..MaxClock) >= burst'.n
    BY <1>4, <2>1 DEF CountsRuns
  <2>3. \A x \in ((a..MaxClock) \ (a..clock)) \cap Times : Ran'[x] = 0
    <3>1. \A x \in Times : x > clock => Ran'[x] = 0
      BY <1>2, <1>3 DEF TypesAndTimes, NothingAhead, Ran
    <3> QED BY <1>1, <2>1, <3>1 DEF Times
  <2>4. a..clock \in SUBSET (a..MaxClock)
    BY <1>1
  <2>5. Ran' \in History
    BY <1>1, <1>2, CountedType
  <2>6. SumOf(Ran', a..MaxClock) = SumOf(Ran', a..clock)
    BY <2>3, <2>4, <2>5, SumTrim
  <2> QED BY <2>2, <2>6
<1>6. SUFFICES ASSUME NEW t \in Times, refusal'[t] # 0
               PROVE  SumOf(Ran', (t - Window + 1)..t) > refusal'[t]
  BY DEF RefusedForCause
<1>7. CASE t = clock
  <2>1. refusal'[t] <= limit /\ refusal'[t] \in Nat
    <3>1. refusal'[t] = Least(refusal[t], limit) /\ refusal[t] \in Nat
      BY <1>1, <1>2, <1>7 DEF History
    <3> QED BY <1>1, <3>1 DEF Least
  <2>2. burst'.n \in Nat /\ burst'.n > limit
    BY <1>1, <1>3 DEF Within, Counter
  <2>3. SumOf(Ran', (clock - Window + 1)..clock) \in Nat
    BY <1>1, <1>2, SumType, CountedType
  <2> QED BY <1>1, <1>5, <1>7, <2>1, <2>2, <2>3
<1>8. CASE t # clock
  <2>1. refusal'[t] = refusal[t] /\ refusal[t] \in Nat
    BY <1>1, <1>2, <1>8 DEF History
  <2>2. SumOf(Ran, (t - Window + 1)..t) > refusal[t]
    BY <1>6, <2>1 DEF CauseInv, RefusedForCause
  <2>3. /\ SumOf(Ran', (t - Window + 1)..t) >= SumOf(Ran, (t - Window + 1)..t)
        /\ SumOf(Ran', (t - Window + 1)..t) \in Nat /\ SumOf(Ran, (t - Window + 1)..t) \in Nat
    BY <1>1, <1>2, SumGrows DEF Counted
  <2> QED BY <2>1, <2>2, <2>3
<1> QED BY <1>7, <1>8

LEMMA CauseStep ==
  ASSUME CauseInv, [RatesNext]_rateVars
  PROVE  CauseInv'
<1>1. TypesAndBegun /\ TypesAndBegun' /\ CountsRuns /\ RefusedForCause
  BY BegunStep DEF CauseInv
<1>2. clock \in Nat /\ burst.ends \in Nat
  BY <1>1 DEF TypesAndBegun, TypesAndTimes, RatesTypeOK, Counter, Times
<1>3. ASSUME NEW limit \in Bursts, CheckTenant(limit)
      PROVE  CauseInv'
  <2>1. burst' = IncrBurst(burst) /\ Ran' = Counted(Ran) /\ UNCHANGED clock
    BY <1>1, <1>3, RanCounted DEF CheckTenant
  <2>2. CountsRuns'
    BY <1>1, <2>1, RunsStep
  <2>3. CASE Within(burst'.n, limit)
    <3>1. RefusedForCause'
      BY <1>1, <1>3, <2>1, <2>3, CauseKept DEF CheckTenant
    <3> QED BY <1>1, <2>2, <3>1 DEF CauseInv
  <2>4. CASE ~Within(burst'.n, limit)
    <3>1. RefusedForCause'
      BY <1>3, <2>4, CauseRefused
    <3> QED BY <1>1, <2>2, <3>1 DEF CauseInv
  <2> QED BY <2>3, <2>4
<1>4. CASE RunBurstCopy
  <2>1. burst' = IncrBurst(burst) /\ Ran' = Counted(Ran) /\ UNCHANGED <<clock, refusal>>
    BY <1>1, <1>4, RanCounted DEF RunBurstCopy
  <2>2. CountsRuns' /\ RefusedForCause'
    BY <1>1, <2>1, RunsStep, CauseKept
  <2> QED BY <1>1, <2>2 DEF CauseInv
<1>5. CASE UNCHANGED <<tries, unheard, refusal>> /\ burst' \in {burst, [n |-> 0, ends |-> 0]}
           /\ clock' \in {clock, clock + 1}
  <2>0. UNCHANGED Ran
    BY <1>5 DEF Ran
  <2>1. RefusedForCause'
    BY <1>1, <1>5, <2>0, CauseKept
  <2>2. Live' => Live /\ UNCHANGED burst
    BY <1>2, <1>5 DEF Live
  <2>3. CountsRuns'
    BY <1>1, <2>0, <2>2 DEF CountsRuns
  <2> QED BY <1>1, <2>1, <2>3 DEF CauseInv
<1>6. \/ \E limit \in Bursts : CheckTenant(limit)
      \/ RunBurstCopy
      \/ UNCHANGED <<tries, unheard, refusal>> /\ burst' \in {burst, [n |-> 0, ends |-> 0]}
         /\ clock' \in {clock, clock + 1}
  BY DEF RatesNext, rateVars, globalVars, burstVars, NameKey, CheckGlobal, ResendGlobal,
         GlobalFails, RunLateGlobal, ResendBurst, TenantFails, ByToken, EvictCounter, RatesTick
<1> QED BY <1>3, <1>4, <1>5, <1>6

\* A tenant that insists is not kept out: who is refused, is refused for what ran in the
\* last window, once for each time a request of the tenant was sent to Redis, however
\* many came before it, and whatever was evicted or failed.
THEOREM CauseCorrect == RatesSpec => []RefusedForCause
<1>1. RatesInit => CauseInv
  <2>1. ASSUME RatesInit PROVE TypesAndBegun
    BY <2>1, RatesAssumption DEF RatesInit, TypesAndBegun, TypesAndTimes, RatesTypeOK,
                                 NothingAhead, Times, Counter, Begun, Live
  <2>2. ASSUME RatesInit PROVE ~Live /\ RefusedForCause
    BY <2>2 DEF RatesInit, Live, RefusedForCause
  <2> QED BY <2>1, <2>2 DEF CauseInv, CountsRuns
<1>2. CauseInv => RefusedForCause
  BY DEF CauseInv
<1> QED BY <1>1, <1>2, CauseStep, PTL DEF RatesSpec

-----------------------------------------------------------------------------
\* How many get through.

Top == Max(Bursts)

LEMMA TopBurst ==
  /\ Top \in Nat \ {0}
  /\ \A limit \in Bursts : limit <= Top
<1> DEFINE Above(b) == {x \in Bursts : x > b}
           P == {Above(b) : b \in Bursts}
<1>1. \A b \in Bursts : b \in Nat \ {0}
  BY RatesAssumption
<1>2. PICK T \in P : \A U \in P : U \subseteq T => U = T
  <2>1. P \in SUBSET SUBSET Bursts /\ P # {} /\ IsFiniteSet(Bursts)
    BY RatesAssumption
  <2> HIDE DEF P
  <2> QED BY <2>1, Smallest
<1>3. PICK b \in Bursts : T = Above(b)
  OBVIOUS
<1>4. \A x \in Bursts : b >= x
  <2> SUFFICES ASSUME NEW x \in Bursts, ~(b >= x) PROVE FALSE
    OBVIOUS
  <2>1. x \in Nat /\ b \in Nat /\ x > b
    BY <1>1
  <2>2. ASSUME NEW y \in Above(x) PROVE y \in T
    <3>1. y \in Bursts /\ y \in Nat /\ y > x
      BY <1>1
    <3> QED BY <1>3, <2>1, <3>1
  <2>3. x \in T /\ x \notin Above(x)
    BY <1>3, <2>1
  <2> QED BY <1>2, <2>2, <2>3
<1>5. Top \in Bursts /\ \A x \in Bursts : Top >= x
  BY <1>4 DEF Top, Max
<1> QED BY <1>1, <1>5

\* What evictions may add.
LEMMA More ==
  ASSUME NEW m \in Nat, NEW e \in Nat
  PROVE  /\ m * e \in Nat
         /\ m * (e + 1) = m * e + m
         /\ m * (2 + e) = m * e + 2 * m
OBVIOUS

Passed(t) == SumOf(passes, t..(t + Window - 1))
Open(t, length) == t <= clock /\ clock < t + length
Charged == IF burst.n <= Top THEN burst.n ELSE Top

\* A window of the tenant that began in the last Window ticks comes after at most
\* the end of another, a request short, and what evictions added; in one that began
\* earlier its first request is no longer among those ticks.
PassedOpen ==
  \A t \in Times : Open(t, Window) =>
    Passed(t) <= IF ~Live THEN Top * evictions + Top - 1
                 ELSE IF t + Window <= burst.ends THEN Top * evictions + Top - 1 + Charged
                 ELSE Charged - 1
PassedEver == \A t \in Times : Passed(t) <= Top * evictions + 2 * Top - 1

TenantInv == TypesAndBegun /\ PassedOpen /\ PassedEver

LEMMA TenantFacts ==
  ASSUME TypesAndBegun
  PROVE  /\ clock \in Nat /\ clock \in Times /\ burst.n \in Nat /\ burst.ends \in Nat
         /\ evictions \in Nat /\ passes \in History /\ granted \in History
         /\ Window \in Nat /\ Window > 0 /\ Top \in Nat /\ Top > 0
         /\ burst.ends <= clock + Window /\ Times \subseteq Nat
         /\ \A t \in Times : Passed(t) \in Nat
         /\ Charged \in 0..Top /\ (Live => Charged > 0)
         /\ Top * evictions \in Nat
<1>1. /\ clock \in Nat /\ clock \in Times /\ burst.n \in Nat /\ burst.ends \in Nat
      /\ evictions \in Nat /\ passes \in History /\ granted \in History
      /\ Window \in Nat /\ Window > 0 /\ Times \subseteq Nat /\ burst.ends <= clock + Window
  <2>1. /\ clock \in Times /\ burst \in Counter /\ burst.ends <= clock + Window
        /\ evictions \in 0..rateFaults /\ rateFaults \in 0..MaxRateFaults
        /\ passes \in History /\ granted \in History
    BY DEF TypesAndBegun, TypesAndTimes, RatesTypeOK, History
  <2>2. Window \in Nat /\ Window > 0 /\ Times \subseteq Nat /\ MaxRateFaults \in Nat
    BY RatesAssumption DEF Times
  <2> QED BY <2>1, <2>2 DEF Counter
<1>2. Top \in Nat /\ Top > 0
  BY TopBurst
<1>3. Charged \in 0..Top /\ (Live => Charged > 0)
  BY <1>1, <1>2 DEF Charged, TypesAndBegun, Begun
<1>4. \A t \in Times : Passed(t) \in Nat
  BY <1>1, SumType DEF Passed
<1>5. Top * evictions \in Nat
  BY <1>1, <1>2, More
<1> QED BY <1>1, <1>2, <1>3, <1>4, <1>5

\* The bound of the open windows is within that of all.
OpenBounded ==
  \A t \in Times : Open(t, Window) => Passed(t) <= Top * evictions + 2 * Top - 1

LEMMA OpenIsEver == TypesAndBegun /\ PassedOpen => OpenBounded
BY TenantFacts DEF PassedOpen, OpenBounded

\* A request of the tenant, let through or not, or a copy.
LEMMA TenantRequest ==
  ASSUME TenantInv, TypesAndBegun', burst' = IncrBurst(burst), UNCHANGED <<clock, evictions>>,
         \/ UNCHANGED passes
         \/ passes' = Counted(passes) /\ burst'.n <= Top
  PROVE  PassedOpen' /\ PassedEver'
<1>1. TypesAndBegun /\ PassedOpen /\ PassedEver /\ RatesTypeOK /\ Begun
  BY DEF TenantInv, TypesAndBegun, TypesAndTimes
<1>2. /\ Live'
      /\ Live  => burst'.n = burst.n + 1 /\ burst'.ends = burst.ends
      /\ ~Live => burst'.n = 1 /\ burst'.ends = clock + Window
  BY <1>1, BurstStep
<1>3. ASSUME NEW t \in Times
      PROVE  \/ Passed(t)' = Passed(t)
             \/ Passed(t)' = Passed(t) + 1 /\ burst'.n <= Top /\ Open(t, Window)
  <2>1. CASE UNCHANGED passes
    BY <2>1 DEF Passed
  <2>2. CASE passes' = Counted(passes) /\ burst'.n <= Top
    <3>0. passes \in History /\ clock \in Times /\ passes' = [passes EXCEPT ![clock] = @ + 1]
      BY <1>1, <2>2, TenantFacts DEF Counted
    <3>1. Passed(t)' = Passed(t) + (IF clock \in t..(t + Window - 1) THEN 1 ELSE 0)
      BY <3>0, SumCounted DEF Passed
    <3>2. clock \in t..(t + Window - 1) <=> Open(t, Window)
      BY <1>1, TenantFacts DEF Open
    <3>3. Passed(t) \in Nat
      BY <1>1, TenantFacts
    <3> QED BY <2>2, <3>1, <3>2, <3>3
  <2> QED BY <2>1, <2>2
<1>4. /\ clock \in Nat /\ burst.n \in Nat /\ burst.ends \in Nat /\ Window \in Nat /\ Top \in Nat
      /\ Top > 0 /\ Times \subseteq Nat /\ \A t \in Times : Passed(t) \in Nat
      /\ Top * evictions \in Nat /\ burst.ends <= clock + Window /\ Window > 0
  BY <1>1, TenantFacts
<1>5. PassedOpen'
  <2> SUFFICES ASSUME NEW t \in Times, Open(t, Window)
               PROVE  Passed(t)' <= IF t + Window <= burst'.ends
                                    THEN Top * evictions + Top - 1 + Charged'
                                    ELSE Charged' - 1
    BY <1>2 DEF PassedOpen, Open
  <2> DEFINE k == Top * evictions
  <2>1. Passed(t) <= IF ~Live THEN k + Top - 1
                     ELSE IF t + Window <= burst.ends THEN k + Top - 1 + Charged
                     ELSE Charged - 1
    BY <1>1 DEF PassedOpen
  <2>2. CASE Live
    <3>1. burst'.n = burst.n + 1 /\ burst'.ends = burst.ends
      BY <1>2, <2>2
    <3>2. Charged' >= Charged /\ (burst'.n <= Top => Charged' = Charged + 1) /\ Charged' \in Nat
          /\ Charged \in Nat
      BY <1>4, <3>1 DEF Charged
    <3> HIDE DEF k
    <3> QED BY <1>3, <1>4, <2>1, <2>2, <3>1, <3>2 DEF k
  <2>3. CASE ~Live
    <3>1. burst'.n = 1 /\ burst'.ends = clock + Window /\ t + Window <= burst'.ends
      BY <1>2, <1>4, <2>3 DEF Open
    <3>2. Charged' = 1
      BY <1>4, <3>1 DEF Charged
    <3> HIDE DEF k
    <3> QED BY <1>3, <1>4, <2>1, <2>3, <3>1, <3>2 DEF k
  <2> QED BY <2>2, <2>3
<1>6. PassedEver'
  <2> SUFFICES ASSUME NEW t \in Times
               PROVE  Passed(t)' <= Top * evictions + 2 * Top - 1
    BY DEF PassedEver
  <2>1. CASE Open(t, Window)'
    <3>1. OpenBounded'
      BY <1>5, OpenIsEver, PTL
    <3>2. Open(t, Window)' => Passed(t)' <= Top * evictions + 2 * Top - 1
      BY <3>1 DEF OpenBounded
    <3> QED BY <2>1, <3>2
  <2>2. CASE ~Open(t, Window)'
    BY <1>1, <1>3, <2>2 DEF Open, PassedEver
  <2> QED BY <2>1, <2>2
<1> QED BY <1>5, <1>6

LEMMA TenantEvicted ==
  ASSUME TenantInv, TypesAndBegun', burst' \in {burst, [n |-> 0, ends |-> 0]},
         evictions' = evictions + 1, UNCHANGED <<clock, passes>>
  PROVE  PassedOpen' /\ PassedEver'
<1>1. TypesAndBegun /\ PassedOpen /\ PassedEver
  BY DEF TenantInv
<1>2. /\ clock \in Nat /\ burst.n \in Nat /\ burst.ends \in Nat /\ evictions \in Nat
      /\ Top \in Nat /\ Top > 0 /\ \A t \in Times : Passed(t) \in Nat
      /\ Charged \in 0..Top /\ Top * evictions \in Nat
  BY <1>1, TenantFacts
<1>3. Top * evictions' = Top * evictions + Top
  BY <1>2, More
<1>4. \A t \in Times : Passed(t)' = Passed(t) /\ (Open(t, Window)' <=> Open(t, Window))
  BY DEF Passed, Open
<1>5. Live' => Live /\ UNCHANGED burst
  BY <1>2 DEF Live
<1>6. PassedEver'
  BY <1>1, <1>2, <1>3, <1>4 DEF PassedEver
<1>7. PassedOpen'
  <2> SUFFICES ASSUME NEW t \in Times, Open(t, Window)
               PROVE  Passed(t) <= IF ~Live' THEN Top * evictions + 2 * Top - 1
                                   ELSE IF t + Window <= burst'.ends
                                   THEN Top * evictions + 2 * Top - 1 + Charged'
                                   ELSE Charged' - 1
    BY <1>2, <1>3, <1>4 DEF PassedOpen
  <2>1. CASE ~Live'
    BY <1>1, <2>1 DEF PassedEver
  <2>2. CASE Live'
    <3>1. Live /\ UNCHANGED burst /\ Charged' = Charged
      BY <1>5, <2>2 DEF Charged
    <3>2. Passed(t) <= IF t + Window <= burst.ends THEN Top * evictions + Top - 1 + Charged
                       ELSE Charged - 1
      BY <1>1, <3>1 DEF PassedOpen
    <3> QED BY <1>2, <2>2, <3>1, <3>2
  <2> QED BY <2>1, <2>2
<1> QED BY <1>6, <1>7

LEMMA TenantTick ==
  ASSUME TenantInv, TypesAndBegun', clock' = clock + 1, UNCHANGED <<burst, passes, evictions>>
  PROVE  PassedOpen' /\ PassedEver'
<1>1. TypesAndBegun /\ PassedOpen /\ PassedEver /\ NothingAhead
  BY DEF TenantInv, TypesAndBegun, TypesAndTimes
<1>2. /\ clock \in Nat /\ burst.n \in Nat /\ burst.ends \in Nat /\ evictions \in Nat
      /\ Top \in Nat /\ Top > 0 /\ \A t \in Times : Passed(t) \in Nat
      /\ Charged \in 0..Top /\ (Live => Charged > 0) /\ Top * evictions \in Nat
      /\ Window \in Nat /\ Window > 0 /\ Times \subseteq Nat
      /\ burst.ends <= clock + Window /\ passes \in History
  BY <1>1, TenantFacts
<1>3. \A t \in Times : Passed(t)' = Passed(t)
  BY DEF Passed
<1>4. PassedEver'
  BY <1>1, <1>3 DEF PassedEver
<1>5. Charged' = Charged
  BY DEF Charged
<1>6. PassedOpen'
  <2> SUFFICES ASSUME NEW t \in Times, Open(t, Window)'
               PROVE  Passed(t) <= IF ~Live' THEN Top * evictions + Top - 1
                                   ELSE IF t + Window <= burst.ends
                                   THEN Top * evictions + Top - 1 + Charged
                                   ELSE Charged - 1
    BY <1>3, <1>5 DEF PassedOpen
  <2>1. CASE t = clock + 1
    <3>1. \A x \in (t..(t + Window - 1)) \cap Times : passes[x] = 0
      <4> SUFFICES ASSUME NEW x \in Times, x >= t PROVE passes[x] = 0
        BY <1>2
      <4>1. x > clock
        BY <1>2, <2>1
      <4> QED BY <1>1, <4>1 DEF NothingAhead
    <3>2. Passed(t) = 0
      BY <1>2, <3>1, SumZero DEF Passed
    <3>3. Live' => Live
      BY <1>2 DEF Live
    <3> QED BY <1>2, <3>2, <3>3
  <2>2. CASE t # clock + 1
    <3>1. Open(t, Window) /\ t \in Nat
      BY <1>2, <2>2 DEF Open
    <3>2. Passed(t) <= IF ~Live THEN Top * evictions + Top - 1
                       ELSE IF t + Window <= burst.ends THEN Top * evictions + Top - 1 + Charged
                       ELSE Charged - 1
      BY <1>1, <3>1 DEF PassedOpen
    <3>3. CASE Live /\ ~Live'
      <4>1. ~(t + Window <= burst.ends)
        BY <1>2, <3>1, <3>3 DEF Live, Open
      <4> QED BY <1>2, <3>2, <3>3, <4>1
    <3>4. CASE Live <=> Live'
      BY <3>2, <3>4
    <3>5. Live' => Live
      BY <1>2 DEF Live
    <3> QED BY <3>3, <3>4, <3>5
  <2> QED BY <2>1, <2>2
<1> QED BY <1>4, <1>6

LEMMA TenantStep ==
  ASSUME TenantInv, [RatesNext]_rateVars
  PROVE  TenantInv'
<1>1. TypesAndBegun'
  BY BegunStep DEF TenantInv
<1>2. ASSUME NEW limit \in Bursts, CheckTenant(limit)
      PROVE  TenantInv'
  <2>1. burst' = IncrBurst(burst) /\ UNCHANGED <<clock, evictions>>
    BY <1>2 DEF CheckTenant
  <2>2. UNCHANGED passes \/ (passes' = Counted(passes) /\ burst'.n <= limit)
    BY <1>2 DEF CheckTenant, Within
  <2>3. limit <= Top /\ limit \in Nat /\ Top \in Nat /\ burst'.n \in Nat
    BY <1>1, TopBurst, RatesAssumption DEF TypesAndBegun, TypesAndTimes, RatesTypeOK, Counter
  <2>4. UNCHANGED passes \/ (passes' = Counted(passes) /\ burst'.n <= Top)
    BY <2>2, <2>3
  <2> QED BY <1>1, <2>1, <2>4, TenantRequest DEF TenantInv
<1>3. CASE RunBurstCopy
  <2>1. UNCHANGED <<clock, evictions, passes>> /\ burst' = IncrBurst(burst)
    BY <1>3 DEF RunBurstCopy
  <2> QED BY <1>1, <2>1, TenantRequest DEF TenantInv
<1>4. CASE EvictCounter
  <2>1. /\ burst' \in {burst, [n |-> 0, ends |-> 0]}
        /\ evictions' = evictions + 1 /\ UNCHANGED <<clock, passes>>
    BY <1>4 DEF EvictCounter
  <2> QED BY <1>1, <2>1, TenantEvicted DEF TenantInv
<1>5. CASE RatesTick
  <2>1. clock' = clock + 1 /\ UNCHANGED <<burst, passes, evictions>>
    BY <1>5 DEF RatesTick, burstVars
  <2> QED BY <1>1, <2>1, TenantTick DEF TenantInv
<1>6. CASE UNCHANGED <<clock, burst, passes, evictions>>
  BY <1>1, <1>6 DEF TenantInv, PassedOpen, PassedEver, Passed, Open, Live, Charged
<1>7. \/ \E limit \in Bursts : CheckTenant(limit)
      \/ RunBurstCopy \/ EvictCounter \/ RatesTick
      \/ UNCHANGED <<clock, burst, passes, evictions>>
  BY DEF RatesNext, rateVars, globalVars, burstVars, NameKey, CheckGlobal, ResendGlobal,
         GlobalFails, RunLateGlobal, ResendBurst, TenantFails, ByToken
<1> QED BY <1>2, <1>3, <1>4, <1>5, <1>6, <1>7

LEMMA NothingYet ==
  ASSUME RatesInit
  PROVE  /\ TypesAndBegun /\ ~Live
         /\ \A t \in Times : \A length : SumOf(passes, t..(t + length - 1)) = 0
         /\ \A t \in Times : \A length : SumOf(granted, t..(t + length - 1)) = 0
<1>1. TypesAndBegun /\ ~Live
  BY RatesAssumption DEF RatesInit, TypesAndBegun, TypesAndTimes, RatesTypeOK,
                         NothingAhead, Times, Counter, Begun, Live
<1>2. /\ passes \in History /\ granted \in History
      /\ \A x \in Times : passes[x] = 0 /\ granted[x] = 0
  BY DEF RatesInit, History
<1> QED BY <1>1, <1>2, SumZero

\* The sum of two histories.
LEMMA SumThrough ==
  ASSUME passes \in History, unchecked \in History, NEW T
  PROVE  SumOf(Through, T) = SumOf(passes, T) + SumOf(unchecked, T)
<1> DEFINE U == T \cap Times
           Apart(u) == Total(Through, u) # Total(passes, u) + Total(unchecked, u)
           P == {u \in SUBSET U : Apart(u)}
<1>1. IsFiniteSet(U)
  BY SumFinite
<1>2. \A x \in U : /\ passes[x] \in Int /\ unchecked[x] \in Int
                   /\ Through[x] = passes[x] + unchecked[x]
  BY DEF History, Through
<1>3. SUFFICES ASSUME P # {} PROVE FALSE
  BY SumIs
<1>4. PICK u \in P : \A v \in P : v \subseteq u => v = u
  <2> HIDE DEF P
  <2>1. P \in SUBSET SUBSET U
    BY DEF P
  <2> QED BY <1>1, <1>3, <2>1, Smallest
<1>5. IsFiniteSet(u) /\ u # {}
  <2> HIDE DEF U
  <2>1. u \in SUBSET U /\ Apart(u)
    BY <1>4
  <2>2. u # {}
    BY <2>1, TotalEmpty
  <2> QED BY <1>1, <2>1, <2>2, FS_Subset
<1> DEFINE f == First(u)
<1>6. f \in u /\ f \in U
  BY <1>5, FirstIn
<1>7. /\ Total(Through, u) = Through[f] + Total(Through, u \ {f})
      /\ Total(passes, u) = passes[f] + Total(passes, u \ {f})
      /\ Total(unchecked, u) = unchecked[f] + Total(unchecked, u \ {f})
  BY <1>5, TotalFirst
<1>8. IsFiniteSet(u \ {f}) /\ ~Apart(u \ {f})
  BY <1>4, <1>5, <1>6, FS_Subset
<1>9. Total(passes, u \ {f}) \in Int /\ Total(unchecked, u \ {f}) \in Int
  BY <1>2, <1>8, TotalType
<1> HIDE DEF f, U
<1>10. ~Apart(u)
  BY <1>2, <1>6, <1>7, <1>8, <1>9
<1> QED BY <1>4, <1>10

\* In any time as long as a window, wherever it starts, of a tenant get through less than
\* twice its largest limit, that limit once more for each eviction, and besides these
\* only what was never checked: the requests that failed open and those by a URL token.
THEOREM TenantCorrect == RatesSpec => []TenantBounded
<1>1. RatesInit => TenantInv
  <2> SUFFICES ASSUME RatesInit PROVE TenantInv
    OBVIOUS
  <2>1. /\ TypesAndBegun /\ ~Live /\ \A t \in Times : Passed(t) = 0
    BY NothingYet DEF Passed
  <2>2. Top \in Nat /\ Top > 0 /\ Top * evictions \in Nat
    BY <2>1, TenantFacts
  <2> QED BY <2>1, <2>2 DEF TenantInv, PassedOpen, PassedEver
<1>2. TenantInv => TenantBounded
  <2> SUFFICES ASSUME TenantInv, NEW t \in Times
               PROVE  SumOf(Through, t..(t + Window - 1))
                        <= Top * (2 + evictions) - 1 + SumOf(unchecked, t..(t + Window - 1))
    BY DEF TenantBounded, Top
  <2> DEFINE free == SumOf(unchecked, t..(t + Window - 1))
  <2>1. evictions \in Nat /\ Top \in Nat /\ passes \in History /\ Passed(t) \in Nat
    BY TenantFacts DEF TenantInv
  <2>2. Top * (2 + evictions) = Top * evictions + 2 * Top /\ Top * evictions \in Nat
    BY <2>1, More
  <2>3. Passed(t) <= Top * evictions + 2 * Top - 1
    BY DEF TenantInv, PassedEver
  <2>4. unchecked \in History
    BY DEF TenantInv, TypesAndBegun, TypesAndTimes, RatesTypeOK, History
  <2>5. SumOf(Through, t..(t + Window - 1)) = Passed(t) + free /\ free \in Nat
    BY <2>1, <2>4, SumThrough, SumType DEF Passed
  <2> HIDE DEF free
  <2>6. Passed(t) + free <= Top * (2 + evictions) - 1 + free
    BY <2>1, <2>2, <2>3, <2>5
  <2> QED BY <2>5, <2>6 DEF free
<1> QED BY <1>1, <1>2, TenantStep, PTL DEF RatesSpec

-----------------------------------------------------------------------------
\* What the system lets through.

LEMMA DivMonotone ==
  ASSUME NEW d \in Nat \ {0}, NEW x \in Nat, NEW y \in Nat, x <= y
  PROVE  x \div d <= y \div d
<1> DEFINE p == x \div d
           q == y \div d
<1>1. p \in Nat /\ q \in Nat /\ d * p <= x /\ y < d * q + d
  OBVIOUS
<1> HIDE DEF p, q
<1>2. SUFFICES ASSUME p >= q + 1 PROVE FALSE
  BY <1>1 DEF p, q
<1>3. d * p >= d * (q + 1) /\ d * (q + 1) = d * q + d
  BY <1>1, <1>2
<1> QED BY <1>1, <1>3

\* Two instants less than c + 1 multiples of d apart are in at most c + 2 of them.
LEMMA DivApart ==
  ASSUME NEW d \in Nat \ {0}, NEW x \in Nat, NEW y \in Nat, NEW z \in Nat,
         z + 1 >= d, y <= x + z
  PROVE  y \div d <= x \div d + (z - 1) \div d + 1
<1> DEFINE p == x \div d
           q == y \div d
           c == (z - 1) \div d
<1>1. p \in Nat /\ q \in Nat /\ d * q <= y /\ x + 1 <= d * p + d
  OBVIOUS
<1>2. c \in Int /\ z <= d * c + d
  OBVIOUS
<1> HIDE DEF p, q, c
<1>3. SUFFICES ASSUME q >= p + c + 2 PROVE FALSE
  BY <1>1, <1>2 DEF p, q, c
<1>4. d * q >= d * (p + c + 2)
  BY <1>1, <1>2, <1>3
<1>5. d * (p + c + 2) = d * p + d * c + 2 * d
  BY <1>1, <1>2
<1>6. d * p \in Int /\ d * c \in Int
  BY <1>1, <1>2
<1> QED BY <1>1, <1>2, <1>4, <1>5, <1>6

LEMMA TotalAdd ==
  ASSUME NEW h, NEW U, NEW s, IsFiniteSet(U), \A x \in U \cup {s} : h[x] \in Int
  PROVE  /\ Total(h, U \ {s}) \in Int
         /\ Total(h, U \cup {s}) = Total(h, U \ {s}) + h[s]
<1>1. IsFiniteSet(U \ {s}) /\ IsFiniteSet(U \cup {s})
  BY FS_AddElement, FS_RemoveElement
<1>2. Total(h, U \ {s}) \in Int
  BY <1>1, TotalType
<1>3. Total(h, U \cup {s}) = h[s] + Total(h, (U \cup {s}) \ {s})
  BY <1>1, TotalRemove
<1>4. (U \cup {s}) \ {s} = U \ {s}
  OBVIOUS
<1>5. Total(h, (U \cup {s}) \ {s}) = Total(h, U \ {s})
  BY <1>4
<1>6. h[s] \in Int
  OBVIOUS
<1> QED BY <1>2, <1>3, <1>5, <1>6

\* Two sums that differ in one term.
LEMMA TotalReplace ==
  ASSUME NEW V, NEW g, NEW h, NEW s \in V, NEW U \in SUBSET V, IsFiniteSet(U),
         \A x \in V : g[x] \in Int /\ h[x] \in Int,
         \A x \in V \ {s} : g[x] = h[x]
  PROVE  /\ Total(h, U \ {s}) \in Int
         /\ Total(g, U \cup {s}) = Total(h, U \ {s}) + g[s]
         /\ s \in U => Total(h, U) = Total(h, U \ {s}) + h[s]
         /\ s \notin U => Total(h, U) = Total(h, U \ {s})
<1>1. IsFiniteSet(U \ {s})
  BY FS_RemoveElement
<1>2. /\ \A x \in U \cup {s} : g[x] \in Int
      /\ \A x \in U \cup {s} : h[x] \in Int
      /\ \A x \in U \ {s} : g[x] = h[x]
  OBVIOUS
<1>3. Total(g, U \ {s}) = Total(h, U \ {s})
  BY <1>1, <1>2, TotalSame
<1>4. /\ Total(h, U \ {s}) \in Int
      /\ Total(g, U \cup {s}) = Total(g, U \ {s}) + g[s]
  BY <1>2, TotalAdd
<1>5. s \in U => Total(h, U) = h[s] + Total(h, U \ {s})
  BY <1>2, TotalRemove
<1>6. ASSUME s \notin U PROVE Total(h, U) = Total(h, U \ {s})
  <2>1. U \ {s} = U
    BY <1>6
  <2> QED BY <2>1
<1>7. h[s] \in Int
  OBVIOUS
<1> QED BY <1>3, <1>4, <1>5, <1>6, <1>7

Granted(t) == SumOf(granted, t..(t + Second - 1))

\* The keys incremented at t or later, and what each of them has granted at most.
Used(t) == {s \in Seconds : t + 2 * Second <= global[s].ends}
Spent == [s \in Seconds |-> IF global[s].n <= GlobalRPS THEN global[s].n ELSE GlobalRPS]

\* A key was last incremented soon after a tick of its second.
Nearby ==
  \A s \in Seconds : global[s].ends > 0 =>
    \E v \in Times : /\ v \div Second = s
                     /\ v + 2 * Second <= global[s].ends
                     /\ global[s].ends <= v + MaxTardy + 2 * Second

KeysInSight == (Second + MaxTardy - 2) \div Second + 2

GrantedOpen ==
  \A t \in Times : Open(t, Second) =>
    Granted(t) <= GlobalRPS * evictions + Total(Spent, Used(t))
GrantedEver ==
  \A t \in Times : Granted(t) <= GlobalRPS * evictions + GlobalRPS * KeysInSight

GlobalInv == TypesAndBegun /\ Nearby /\ GrantedOpen /\ GrantedEver

LEMMA GlobalFacts ==
  ASSUME TypesAndBegun
  PROVE  /\ clock \in Nat /\ clock \in Times /\ evictions \in Nat /\ granted \in History
         /\ Second \in Nat \ {0} /\ GlobalRPS \in Nat /\ MaxTardy \in Nat /\ Times \subseteq Nat
         /\ Seconds \subseteq Nat /\ IsFiniteSet(Seconds)
         /\ \A s \in Seconds : /\ global[s].n \in Nat /\ global[s].ends \in Nat
                               /\ global[s].ends <= clock + 2 * Second
                               /\ Spent[s] \in 0..GlobalRPS
         /\ \A t \in Times : /\ Granted(t) \in Nat
                             /\ IsFiniteSet(Used(t))
                             /\ Total(Spent, Used(t)) \in Nat
         /\ GlobalRPS * evictions \in Nat
         /\ KeysInSight \in Nat
         /\ GlobalRPS * KeysInSight \in Nat
<1>1. /\ clock \in Nat /\ clock \in Times /\ evictions \in Nat /\ granted \in History
      /\ Second \in Nat \ {0} /\ GlobalRPS \in Nat /\ MaxTardy \in Nat /\ Times \subseteq Nat
  <2>1. clock \in Times /\ granted \in History /\ evictions \in 0..rateFaults /\ rateFaults \in Nat
    BY RatesAssumption DEF TypesAndBegun, TypesAndTimes, RatesTypeOK, History
  <2>2. Second \in Nat \ {0} /\ GlobalRPS \in Nat /\ MaxTardy \in Nat /\ Times \subseteq Nat
    BY RatesAssumption DEF Times
  <2> QED BY <2>1, <2>2
<1>2. \A s \in Seconds : /\ global[s].n \in Nat /\ global[s].ends \in Nat
                         /\ global[s].ends <= clock + 2 * Second
  BY DEF TypesAndBegun, TypesAndTimes, RatesTypeOK, Counter
<1>3. Seconds \subseteq Nat /\ IsFiniteSet(Seconds)
  <2>1. MaxClock \div Second \in Int
    BY RatesAssumption
  <2> QED BY <2>1, FS_Interval DEF Seconds
<1>4. \A s \in Seconds : Spent[s] \in 0..GlobalRPS
  BY <1>1, <1>2 DEF Spent
<1>5. ASSUME NEW t \in Times
      PROVE  Granted(t) \in Nat /\ IsFiniteSet(Used(t)) /\ Total(Spent, Used(t)) \in Nat
  <2>1. Granted(t) \in Nat
    BY <1>1, SumType DEF Granted
  <2>2. Used(t) \in SUBSET Seconds /\ IsFiniteSet(Used(t))
    BY <1>3, FS_Subset DEF Used
  <2>3. \A s \in Used(t) : Spent[s] \in 0..GlobalRPS
    BY <1>4, <2>2
  <2> QED BY <1>1, <2>1, <2>2, <2>3, TotalBounded
<1>6. GlobalRPS * evictions \in Nat
  BY <1>1, More
<1>7. KeysInSight \in Nat
  <2> DEFINE z == Second + MaxTardy - 2
             c == z \div Second
  <2>1. c \in Int /\ z < Second * c + Second
    BY <1>1
  <2>2. Second * (c + 1) > -1
    BY <1>1, <2>1
  <2> HIDE DEF c
  <2>3. c + 1 >= 0
    <3> SUFFICES ASSUME c + 1 <= -1 PROVE FALSE
      BY <2>1
    <3>1. Second * (c + 1) <= Second * (-1)
      BY <1>1, <2>1
    <3> QED BY <1>1, <2>1, <2>2, <3>1
  <2> QED BY <2>1, <2>3 DEF KeysInSight, c
<1>8. GlobalRPS * KeysInSight \in Nat
  BY <1>1, <1>7, More
<1> QED BY <1>1, <1>2, <1>3, <1>4, <1>5, <1>6, <1>7, <1>8

\* The keys in use for the requests of a second are few.
LEMMA FewKeys ==
  ASSUME TypesAndBegun, Nearby, NEW t \in Times, Open(t, Second)
  PROVE  Cardinality(Used(t)) <= KeysInSight
<1> DEFINE lo == IF t >= MaxTardy THEN t - MaxTardy ELSE 0
           hi == t + Second - 1
           a == lo \div Second
           b == hi \div Second
<1>1. /\ Second \in Nat \ {0} /\ MaxTardy \in Nat /\ t \in Nat /\ Times \subseteq Nat
      /\ clock \in Nat /\ Seconds \subseteq Nat /\ KeysInSight \in Nat
      /\ \A s \in Seconds : global[s].ends \in Nat /\ global[s].ends <= clock + 2 * Second
  BY GlobalFacts
<1>2. lo \in Nat /\ hi \in Nat /\ hi <= lo + (Second + MaxTardy - 1)
  BY <1>1
<1>3. a \in Int /\ b \in Int
  BY <1>1, <1>2
<1>4. ASSUME NEW s \in Used(t)
      PROVE  s \in a..b
  <2>1. s \in Seconds /\ t + 2 * Second <= global[s].ends
    BY DEF Used
  <2>2. PICK v \in Times : /\ v \div Second = s
                           /\ v + 2 * Second <= global[s].ends
                           /\ global[s].ends <= v + MaxTardy + 2 * Second
    <3>1. global[s].ends > 0
      BY <1>1, <2>1
    <3> QED BY <2>1, <3>1 DEF Nearby
  <2>3. v \in Nat /\ lo <= v /\ v <= hi
    <3>1. v \in Nat /\ clock < t + Second /\ global[s].ends \in Nat
          /\ global[s].ends <= clock + 2 * Second
      BY <1>1, <2>1 DEF Open
    <3>2. v <= t + Second - 1
      BY <1>1, <2>2, <3>1
    <3>3. t <= v + MaxTardy
      BY <1>1, <2>1, <2>2, <3>1
    <3> QED BY <1>1, <3>1, <3>2, <3>3
  <2>4. a <= v \div Second /\ v \div Second <= b
    <3>1. lo \in Nat /\ hi \in Nat /\ v \in Nat /\ lo <= v /\ v <= hi
      BY <1>1, <1>2, <2>3
    <3> HIDE DEF lo, hi
    <3>2. lo \div Second <= v \div Second
      BY <1>1, <3>1, DivMonotone
    <3>3. v \div Second <= hi \div Second
      BY <1>1, <3>1, DivMonotone
    <3> QED BY <3>2, <3>3
  <2> HIDE DEF lo, hi, a, b
  <2>5. s \in Int
    <3>1. Seconds \subseteq Nat
      BY <1>1
    <3> QED BY <2>1, <3>1
  <2> QED BY <1>3, <2>2, <2>4, <2>5
<1>5. b <= a + (Second + MaxTardy - 2) \div Second + 1
  <2> DEFINE z == Second + MaxTardy - 1
  <2>1. z \in Nat /\ z + 1 >= Second /\ hi <= lo + z /\ z - 1 = Second + MaxTardy - 2
    BY <1>1, <1>2
  <2>2. hi \div Second <= lo \div Second + (z - 1) \div Second + 1
    <3>1. Second \in Nat \ {0}
      BY <1>1
    <3> HIDE DEF lo, hi, z
    <3> QED BY <1>2, <2>1, <3>1, DivApart
  <2> QED BY <2>1, <2>2
<1> HIDE DEF a, b
<1>6. IsFiniteSet(a..b) /\ Cardinality(a..b) = IF a > b THEN 0 ELSE b - a + 1
  BY <1>3, FS_Interval
<1>7. Cardinality(Used(t)) <= Cardinality(a..b) /\ Cardinality(Used(t)) \in Nat
  BY <1>4, <1>6, FS_Subset, FS_CardinalityType
<1>8. (Second + MaxTardy - 2) \div Second \in Int
  BY <1>1
<1> QED BY <1>1, <1>3, <1>5, <1>6, <1>7, <1>8 DEF KeysInSight

\* A key after an INCR, with a grant or without.
LEMMA GlobalIncr ==
  ASSUME GlobalInv, TypesAndBegun', NEW v \in Times, clock - v \in 0..MaxTardy,
         global' = [global EXCEPT ![v \div Second] =
                      [n |-> Incr(global[v \div Second]), ends |-> clock + 2 * Second]],
         UNCHANGED <<clock, evictions>>,
         \/ UNCHANGED granted
         \/ /\ granted' = Counted(granted)
            /\ Incr(global[v \div Second]) <= GlobalRPS
  PROVE  Nearby' /\ GrantedOpen'
<1> DEFINE s == v \div Second
<1>1. TypesAndBegun /\ Nearby /\ GrantedOpen /\ s \in Seconds
  BY SecondOf DEF GlobalInv
<1> HIDE DEF s
<1>2. /\ clock \in Nat /\ clock \in Times /\ granted \in History
      /\ Second \in Nat \ {0} /\ GlobalRPS \in Nat /\ MaxTardy \in Nat /\ Times \subseteq Nat
      /\ global[s].n \in Nat /\ global[s].ends \in Nat
      /\ \A x \in Seconds : Spent[x] \in 0..GlobalRPS
      /\ GlobalRPS * evictions \in Nat
  BY <1>1, GlobalFacts
<1>3. \A t \in Times : /\ Granted(t) \in Nat
                       /\ IsFiniteSet(Used(t))
                       /\ Total(Spent, Used(t)) \in Nat
  BY <1>1, GlobalFacts
<1>4. /\ global'[s] = [n |-> Incr(global[s]), ends |-> clock + 2 * Second]
      /\ \A x \in Seconds \ {s} : global'[x] = global[x]
  BY <1>1 DEF TypesAndBegun, TypesAndTimes, RatesTypeOK, s
<1>5. Nearby'
  <2> SUFFICES ASSUME NEW x \in Seconds, global'[x].ends > 0
               PROVE  \E u \in Times : /\ u \div Second = x
                                       /\ u + 2 * Second <= global'[x].ends
                                       /\ global'[x].ends <= u + MaxTardy + 2 * Second
    BY DEF Nearby
  <2>1. CASE x = s
    <3>1. global'[x].ends = clock + 2 * Second /\ v <= clock /\ clock <= v + MaxTardy
      BY <1>2, <1>4, <2>1
    <3>2. v + 2 * Second <= global'[x].ends /\ global'[x].ends <= v + MaxTardy + 2 * Second
      BY <1>2, <3>1
    <3> QED BY <2>1, <3>2 DEF s
  <2>2. CASE x # s
    BY <1>1, <1>4, <2>2 DEF Nearby
  <2> QED BY <2>1, <2>2
<1>6. Incr(global[s]) \in Nat
  BY <1>2 DEF Incr
<1>7. GrantedOpen'
  <2> SUFFICES ASSUME NEW t \in Times, Open(t, Second)
               PROVE  Granted(t)' <= GlobalRPS * evictions + Total(Spent', Used(t)')
    BY DEF GrantedOpen, Open
  <2> DEFINE U == Used(t)
             rest == Total(Spent, U \ {s})
  <2>1. Used(t)' = U \cup {s}
    <3>1. t <= clock /\ t \in Nat
      BY <1>2 DEF Open
    <3>2. t + 2 * Second <= global'[s].ends
      BY <1>2, <1>4, <3>1
    <3>3. \A x \in Seconds : x # s => (t + 2 * Second <= global'[x].ends <=> t + 2 * Second <= global[x].ends)
      BY <1>4
    <3> QED BY <1>1, <3>2, <3>3 DEF Used
  <2>2. /\ \A x \in Seconds : Spent'[x] \in Int /\ Spent[x] \in Int
        /\ \A x \in Seconds \ {s} : Spent'[x] = Spent[x]
        /\ Spent'[s] = IF Incr(global[s]) <= GlobalRPS THEN Incr(global[s]) ELSE GlobalRPS
    <3>1. \A x \in Seconds : global'[x].n \in Nat
      BY <1>2, <1>4, <1>6, <1>1, GlobalFacts
    <3>2. \A x \in Seconds \ {s} : global'[x].n = global[x].n
      BY <1>4
    <3>3. global'[s].n = Incr(global[s])
      BY <1>4
    <3>4. \A x \in Seconds : Spent'[x] \in Int
      BY <1>2, <3>1 DEF Spent
    <3> QED BY <1>1, <1>2, <3>2, <3>3, <3>4 DEF Spent
  <2>3. U \subseteq Seconds /\ IsFiniteSet(U)
    BY <1>3 DEF Used
  <2>4. /\ rest \in Int
        /\ Total(Spent', U \cup {s}) = rest + Spent'[s]
        /\ s \in U => Total(Spent, U) = rest + Spent[s]
        /\ s \notin U => Total(Spent, U) = rest
    <3>1. \A x \in U \cup {s} : Spent'[x] \in Int /\ Spent[x] \in Int
      BY <1>1, <2>2, <2>3
    <3>2. \A x \in U \ {s} : Spent'[x] = Spent[x]
      BY <2>2, <2>3
    <3>3. /\ Total(Spent, U \ {s}) \in Int
          /\ Total(Spent', U \cup {s}) = Total(Spent, U \ {s}) + Spent'[s]
          /\ s \in U => Total(Spent, U) = Total(Spent, U \ {s}) + Spent[s]
          /\ s \notin U => Total(Spent, U) = Total(Spent, U \ {s})
      BY <1>1, <2>2, <2>3, TotalReplace
    <3> QED BY <3>3
  <2>5. /\ Spent'[s] \in Nat
        /\ Spent'[s] >= IF s \in U THEN Spent[s] ELSE 0
        /\ Incr(global[s]) <= GlobalRPS => Spent'[s] >= 1 + (IF s \in U THEN Spent[s] ELSE 0)
    <3>1. CASE s \in U
      <4>0. t + 2 * Second <= global[s].ends /\ t \in Nat /\ clock < t + Second
        BY <1>2, <3>1 DEF Used, Open
      <4>1. global[s].ends > clock
        BY <1>2, <4>0
      <4>2. Incr(global[s]) = global[s].n + 1
        BY <4>1 DEF Incr
      <4>3. Spent[s] = IF global[s].n <= GlobalRPS THEN global[s].n ELSE GlobalRPS
        BY <1>1 DEF Spent
      <4> QED BY <1>2, <2>2, <3>1, <4>2, <4>3
    <3>2. CASE s \notin U
      <4>1. Incr(global[s]) >= 1
        BY <1>2 DEF Incr
      <4> QED BY <1>2, <1>6, <2>2, <3>2, <4>1
    <3> QED BY <3>1, <3>2
  <2>6. \/ Granted(t)' = Granted(t)
        \/ Granted(t)' = Granted(t) + 1 /\ Incr(global[s]) <= GlobalRPS
    <3>1. CASE UNCHANGED granted
      BY <3>1 DEF Granted
    <3>2. CASE granted' = Counted(granted) /\ Incr(global[s]) <= GlobalRPS
      <4>1. granted' = [granted EXCEPT ![clock] = @ + 1]
        BY <3>2 DEF Counted
      <4>2. clock \in t..(t + Second - 1)
        BY <1>2 DEF Open
      <4>3. granted \in History /\ clock \in Times
        BY <1>2
      <4>4. SumOf([granted EXCEPT ![clock] = @ + 1], t..(t + Second - 1))
              = SumOf(granted, t..(t + Second - 1)) + 1
        BY <4>2, <4>3, SumOneMore
      <4>5. Granted(t)' = Granted(t) + 1
        BY <4>1, <4>4 DEF Granted
      <4> QED BY <3>2, <4>5
    <3> QED BY <3>1, <3>2 DEF s
  <2>7. Granted(t) <= GlobalRPS * evictions + Total(Spent, U)
    BY <1>1 DEF GrantedOpen
  <2>8. Spent[s] \in Int
    BY <1>1, <2>2
  <2> HIDE DEF U, rest
  <2> QED BY <1>2, <1>3, <2>1, <2>4, <2>5, <2>6, <2>7, <2>8
<1> QED BY <1>5, <1>7

\* An eviction takes away a key, and what it granted with it.
LEMMA GlobalEvicted ==
  ASSUME GlobalInv, TypesAndBegun', NEW s \in Seconds,
         global' = [global EXCEPT ![s] = [n |-> 0, ends |-> 0]],
         evictions' = evictions + 1, UNCHANGED <<clock, granted>>
  PROVE  Nearby' /\ GrantedOpen'
<1>1. TypesAndBegun /\ Nearby /\ GrantedOpen
  BY DEF GlobalInv
<1>2. /\ clock \in Nat /\ Second \in Nat \ {0} /\ GlobalRPS \in Nat /\ Times \subseteq Nat
      /\ evictions \in Nat /\ \A x \in Seconds : Spent[x] \in 0..GlobalRPS
      /\ GlobalRPS * evictions \in Nat
  BY <1>1, GlobalFacts
<1>3. \A t \in Times : /\ Granted(t) \in Nat
                       /\ IsFiniteSet(Used(t))
                       /\ Total(Spent, Used(t)) \in Nat
  BY <1>1, GlobalFacts
<1>4. /\ global'[s] = [n |-> 0, ends |-> 0]
      /\ \A x \in Seconds \ {s} : global'[x] = global[x]
  BY <1>1 DEF TypesAndBegun, TypesAndTimes, RatesTypeOK
<1>5. Nearby'
  BY <1>1, <1>4 DEF Nearby
<1>6. GlobalRPS * evictions' = GlobalRPS * evictions + GlobalRPS
  BY <1>2, More
<1>7. GrantedOpen'
  <2> SUFFICES ASSUME NEW t \in Times, Open(t, Second)
               PROVE  Granted(t) <= GlobalRPS * evictions + GlobalRPS + Total(Spent', Used(t)')
    BY <1>6 DEF GrantedOpen, Open, Granted
  <2> DEFINE U == Used(t)
  <2>1. Used(t)' = U \ {s}
    <3>1. ~ (t + 2 * Second <= global'[s].ends)
      BY <1>2, <1>4
    <3>2. \A x \in Seconds : x # s => (t + 2 * Second <= global'[x].ends <=> t + 2 * Second <= global[x].ends)
      BY <1>4
    <3> QED BY <3>1, <3>2 DEF Used
  <2>2. IsFiniteSet(U) /\ IsFiniteSet(U \ {s}) /\ U \subseteq Seconds
    BY <1>3, FS_Subset DEF Used
  <2>3. \A x \in U \ {s} : Spent'[x] = Spent[x]
    BY <1>4, <2>2 DEF Spent
  <2>4. Total(Spent', U \ {s}) = Total(Spent, U \ {s})
    BY <2>2, <2>3, TotalSame
  <2>5. \A x \in U : Spent[x] \in Int
    BY <1>2, <2>2
  <2>6. Total(Spent, U \ {s}) \in Int
    BY <2>2, <2>5, TotalType
  <2>7. Total(Spent, U) <= Total(Spent, U \ {s}) + GlobalRPS
    <3>1. CASE s \in U
      <4>1. Total(Spent, U) = Spent[s] + Total(Spent, U \ {s})
        BY <2>2, <2>5, <3>1, TotalRemove
      <4>2. Spent[s] \in 0..GlobalRPS
        BY <1>2
      <4> QED BY <1>2, <2>6, <4>1, <4>2
    <3>2. CASE s \notin U
      <4>1. U \ {s} = U
        BY <3>2
      <4>2. Total(Spent, U \ {s}) = Total(Spent, U)
        BY <4>1
      <4> QED BY <1>2, <2>6, <4>2
    <3> QED BY <3>1, <3>2
  <2>8. Granted(t) <= GlobalRPS * evictions + Total(Spent, U)
    BY <1>1 DEF GrantedOpen
  <2>9. Total(Spent', Used(t)') = Total(Spent, U \ {s})
    BY <2>1, <2>4
  <2> HIDE DEF U
  <2> QED BY <1>2, <1>3, <2>6, <2>7, <2>8, <2>9 DEF U
<1> QED BY <1>5, <1>7

LEMMA GlobalTick ==
  ASSUME GlobalInv, TypesAndBegun', clock' = clock + 1, UNCHANGED <<global, granted, evictions>>
  PROVE  Nearby' /\ GrantedOpen'
<1>1. TypesAndBegun /\ Nearby /\ GrantedOpen /\ NothingAhead
  BY DEF GlobalInv, TypesAndBegun, TypesAndTimes
<1>2. /\ clock \in Nat /\ Second \in Nat \ {0} /\ Times \subseteq Nat /\ granted \in History
      /\ GlobalRPS * evictions \in Nat
      /\ \A t \in Times : Granted(t) \in Nat /\ Total(Spent, Used(t)) \in Nat
  BY <1>1, GlobalFacts
<1>3. Nearby'
  BY <1>1 DEF Nearby
<1>4. Spent' = Spent /\ \A t \in Times : Used(t)' = Used(t) /\ Granted(t)' = Granted(t)
  BY DEF Spent, Used, Granted
<1>5. GrantedOpen'
  <2> SUFFICES ASSUME NEW t \in Times, Open(t, Second)'
               PROVE  Granted(t) <= GlobalRPS * evictions + Total(Spent, Used(t))
    BY <1>4 DEF GrantedOpen
  <2>1. CASE t = clock + 1
    <3>1. \A x \in (t..(t + Second - 1)) \cap Times : granted[x] = 0
      <4> SUFFICES ASSUME NEW x \in Times, x >= t PROVE granted[x] = 0
        BY <1>2
      <4>1. x > clock
        BY <1>2, <2>1
      <4> QED BY <1>1, <4>1 DEF NothingAhead
    <3>2. Granted(t) = 0
      BY <1>2, <3>1, SumZero DEF Granted
    <3> QED BY <1>2, <3>2
  <2>2. CASE t # clock + 1
    <3>1. Open(t, Second)
      BY <1>2, <2>2 DEF Open
    <3> QED BY <1>1, <3>1 DEF GrantedOpen
  <2> QED BY <2>1, <2>2
<1> QED BY <1>3, <1>5

\* The bound of the open seconds is within that of all.
SecondsBounded ==
  \A t \in Times : Open(t, Second) =>
    Granted(t) <= GlobalRPS * evictions + GlobalRPS * KeysInSight

LEMMA SecondsInSight == TypesAndBegun /\ Nearby /\ GrantedOpen => SecondsBounded
<1> SUFFICES ASSUME TypesAndBegun, Nearby, GrantedOpen, NEW t \in Times, Open(t, Second)
             PROVE  Granted(t) <= GlobalRPS * evictions + GlobalRPS * KeysInSight
  BY DEF SecondsBounded
<1> DEFINE c == Cardinality(Used(t))
<1>1. /\ GlobalRPS \in Nat /\ KeysInSight \in Nat /\ IsFiniteSet(Used(t))
      /\ Granted(t) \in Nat /\ GlobalRPS * evictions \in Nat
  BY GlobalFacts
<1>2. \A s \in Used(t) : Spent[s] \in 0..GlobalRPS
  BY GlobalFacts DEF Used
<1>3. Total(Spent, Used(t)) \in Nat /\ Total(Spent, Used(t)) <= GlobalRPS * c
  BY <1>1, <1>2, TotalBounded
<1>4. c \in Nat /\ c <= KeysInSight
  BY <1>1, FewKeys, FS_CardinalityType
<1> HIDE DEF c
<1>5. GlobalRPS * c <= GlobalRPS * KeysInSight
  BY <1>1, <1>4
<1>6. GlobalRPS * c \in Nat /\ GlobalRPS * KeysInSight \in Nat
  BY <1>1, <1>4
<1>7. Granted(t) <= GlobalRPS * evictions + Total(Spent, Used(t))
  BY DEF GrantedOpen
<1> QED BY <1>1, <1>3, <1>5, <1>6, <1>7

\* The seconds that are over keep what they granted.
LEMMA GrantedKept ==
  ASSUME TypesAndBegun, TypesAndBegun', GrantedEver, (Nearby /\ GrantedOpen)',
         evictions' \in {evictions, evictions + 1}, clock' \in {clock, clock + 1},
         \/ UNCHANGED granted
         \/ granted' = Counted(granted) /\ UNCHANGED clock
  PROVE  GrantedEver'
<1>1. SecondsBounded'
  BY SecondsInSight, PTL
<1>2. /\ clock \in Nat /\ clock \in Times /\ granted \in History /\ Times \subseteq Nat
      /\ Second \in Nat \ {0} /\ GlobalRPS \in Nat /\ evictions \in Nat
      /\ GlobalRPS * evictions \in Nat /\ GlobalRPS * KeysInSight \in Nat
      /\ \A t \in Times : Granted(t) \in Nat
  BY GlobalFacts
<1>3. GlobalRPS * evictions' \in Nat /\ GlobalRPS * evictions' >= GlobalRPS * evictions
  <2> DEFINE a == GlobalRPS * evictions
             b == GlobalRPS * evictions'
  <2>1. a \in Nat
    BY <1>2
  <2>2. b = a \/ b = a + GlobalRPS
    <3>1. CASE evictions' = evictions
      BY <3>1
    <3>2. CASE evictions' = evictions + 1
      BY <1>2, <3>2, More
    <3> QED BY <3>1, <3>2
  <2> HIDE DEF a, b
  <2>3. b \in Nat /\ b >= a
    BY <1>2, <2>1, <2>2
  <2> QED BY <2>3 DEF a, b
<1>4. SUFFICES ASSUME NEW t \in Times
               PROVE  Granted(t)' <= GlobalRPS * evictions' + GlobalRPS * KeysInSight
  BY DEF GrantedEver
<1>5. CASE Open(t, Second)'
  BY <1>1, <1>5 DEF SecondsBounded
<1>6. CASE ~Open(t, Second)'
  <2>1. Granted(t)' = Granted(t)
    <3>1. CASE UNCHANGED granted
      BY <3>1 DEF Granted
    <3>2. CASE granted' = Counted(granted) /\ UNCHANGED clock
      <4>1. clock \notin t..(t + Second - 1)
        BY <1>2, <1>6, <3>2 DEF Open
      <4>2. granted' = [granted EXCEPT ![clock] = @ + 1]
        BY <3>2 DEF Counted
      <4>3. granted \in History /\ clock \in Times
        BY <1>2
      <4>4. SumOf([granted EXCEPT ![clock] = @ + 1], t..(t + Second - 1))
              = SumOf(granted, t..(t + Second - 1))
        BY <4>1, <4>3, SumNoMore
      <4> QED BY <4>2, <4>4 DEF Granted
    <3> QED BY <3>1, <3>2
  <2>2. Granted(t) <= GlobalRPS * evictions + GlobalRPS * KeysInSight
    BY DEF GrantedEver
  <2> QED BY <1>2, <1>3, <2>1, <2>2
<1> QED BY <1>5, <1>6

LEMMA GlobalStep ==
  ASSUME GlobalInv, [RatesNext]_rateVars
  PROVE  GlobalInv'
<1>1. TypesAndBegun /\ TypesAndBegun' /\ Nearby /\ GrantedOpen /\ GrantedEver
  BY BegunStep DEF GlobalInv
<1>2. ASSUME NEW q \in Waiting, CheckGlobal(q)
      PROVE  GlobalInv'
  <2>1. named[q] \in Times /\ clock - named[q] \in 0..MaxTardy
    BY <1>1, <1>2 DEF CheckGlobal, TypesAndBegun, TypesAndTimes, RatesTypeOK
  <2> DEFINE v == named[q]
  <2>2. /\ global' = [global EXCEPT ![v \div Second] =
                        [n |-> Incr(global[v \div Second]), ends |-> clock + 2 * Second]]
        /\ UNCHANGED <<clock, evictions>>
        /\ \/ UNCHANGED granted
           \/ /\ granted' = Counted(granted)
              /\ Incr(global[v \div Second]) <= GlobalRPS
    BY <1>2 DEF CheckGlobal, IncrGlobal, Within
  <2> HIDE DEF v
  <2>3. Nearby' /\ GrantedOpen'
    BY <1>1, <2>1, <2>2, GlobalIncr DEF v
  <2> QED BY <1>1, <2>2, <2>3, GrantedKept DEF GlobalInv
<1>3. ASSUME NEW v \in Times, RunLateGlobal(v)
      PROVE  GlobalInv'
  <2>1. clock - v \in 0..MaxTardy
    BY <1>1, <1>3 DEF RunLateGlobal, TypesAndBegun, TypesAndTimes, RatesTypeOK
  <2>2. /\ global' = [global EXCEPT ![v \div Second] =
                        [n |-> Incr(global[v \div Second]), ends |-> clock + 2 * Second]]
        /\ UNCHANGED <<clock, evictions, granted>>
    BY <1>3 DEF RunLateGlobal, IncrGlobal
  <2>3. Nearby' /\ GrantedOpen'
    BY <1>1, <2>1, <2>2, GlobalIncr
  <2> QED BY <1>1, <2>2, <2>3, GrantedKept DEF GlobalInv
<1>4. CASE EvictCounter
  <2>1. evictions' = evictions + 1 /\ UNCHANGED <<clock, granted>>
    BY <1>4 DEF EvictCounter
  <2>2. CASE UNCHANGED global
    <3>1. /\ GlobalRPS * evictions' = GlobalRPS * evictions + GlobalRPS
          /\ GlobalRPS * evictions \in Nat /\ GlobalRPS \in Nat
          /\ \A t \in Times : Granted(t) \in Nat /\ Total(Spent, Used(t)) \in Nat
      BY <1>1, <2>1, GlobalFacts, More
    <3>2. Spent' = Spent /\ \A t \in Times : Used(t)' = Used(t) /\ Granted(t)' = Granted(t)
      BY <2>1, <2>2 DEF Spent, Used, Granted
    <3>3. Nearby' /\ GrantedOpen'
      BY <1>1, <2>1, <2>2, <3>1, <3>2 DEF Nearby, GrantedOpen, Open
    <3> QED BY <1>1, <2>1, <3>3, GrantedKept DEF GlobalInv
  <2>3. CASE \E s \in Seconds : global' = [global EXCEPT ![s] = [n |-> 0, ends |-> 0]]
    <3>1. Nearby' /\ GrantedOpen'
      BY <1>1, <2>1, <2>3, GlobalEvicted
    <3> QED BY <1>1, <2>1, <3>1, GrantedKept DEF GlobalInv
  <2> QED BY <1>4, <2>2, <2>3 DEF EvictCounter
<1>5. CASE RatesTick
  <2>1. clock' = clock + 1 /\ UNCHANGED <<global, granted, evictions>>
    BY <1>5 DEF RatesTick, globalVars
  <2>2. Nearby' /\ GrantedOpen'
    BY <1>1, <2>1, GlobalTick
  <2> QED BY <1>1, <2>1, <2>2, GrantedKept DEF GlobalInv
<1>6. CASE UNCHANGED <<clock, global, granted, evictions>>
  BY <1>1, <1>6 DEF GlobalInv, Nearby, GrantedOpen, GrantedEver, Open, Granted, Used, Spent
<1>7. \/ \E q \in Waiting : CheckGlobal(q)
      \/ \E v \in Times : RunLateGlobal(v)
      \/ EvictCounter \/ RatesTick
      \/ UNCHANGED <<clock, global, granted, evictions>>
  BY DEF RatesNext, rateVars, globalVars, NameKey, ResendGlobal, GlobalFails, CheckTenant,
         ResendBurst, TenantFails, RunBurstCopy, ByToken
<1> QED BY <1>2, <1>3, <1>4, <1>5, <1>6, <1>7

\* In any second, wherever it starts, the system lets through its limit once for each
\* key a request may have named by then, and once more for each eviction.
THEOREM GlobalCorrect == RatesSpec => []GlobalBounded
<1>1. RatesInit => GlobalInv
  <2> SUFFICES ASSUME RatesInit PROVE GlobalInv
    OBVIOUS
  <2>1. TypesAndBegun /\ \A t \in Times : Granted(t) = 0
    BY NothingYet DEF Granted
  <2>2. /\ GlobalRPS * evictions \in Nat /\ GlobalRPS * KeysInSight \in Nat
        /\ \A t \in Times : Total(Spent, Used(t)) \in Nat
    BY <2>1, GlobalFacts
  <2>3. Nearby
    BY DEF RatesInit, Nearby
  <2> QED BY <2>1, <2>2, <2>3 DEF GlobalInv, GrantedOpen, GrantedEver
<1>2. GlobalInv => GlobalBounded
  <2> SUFFICES ASSUME GlobalInv, NEW t \in Times
               PROVE  Granted(t) <= GlobalRPS * (KeysInSight + evictions)
    BY DEF GlobalBounded, Granted, KeysInSight
  <2>1. evictions \in Nat /\ GlobalRPS \in Nat /\ KeysInSight \in Nat
    BY GlobalFacts DEF GlobalInv
  <2>2. GlobalRPS * (KeysInSight + evictions) = GlobalRPS * evictions + GlobalRPS * KeysInSight
    BY <2>1
  <2>3. Granted(t) <= GlobalRPS * evictions + GlobalRPS * KeysInSight
    BY DEF GlobalInv, GrantedEver
  <2> QED BY <2>2, <2>3
<1> QED BY <1>1, <1>2, GlobalStep, PTL DEF RatesSpec
=============================================================================
