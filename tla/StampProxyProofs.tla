-------------------------- MODULE StampProxyProofs --------------------------
(***************************************************************************)
(* Theorems about StampProxy, for any set of requests, any bundles and any *)
(* faults.                                                                 *)
(***************************************************************************)
EXTENDS StampProxy, TLAPS, FiniteSetTheorems

-----------------------------------------------------------------------------
\* Every variable keeps its type under every operation of the proxy, of the
\* administrator and of Redis, and across crashes of the backend.
THEOREM TypeCorrect == Spec => []TypeOK
<1> USE ConstantsAssumption DEF TypeOK, Columns, Statuses, Answers, Places
<1>1. Init => TypeOK
  BY DEF Init
<1>2. ASSUME TypeOK, [Next]_vars
      PROVE  TypeOK'
  <2> USE <1>2 DEF postgres, redis, reads, copies, history, Goto, Fault
  <2>1. ASSUME NEW r \in Requests, Arrive(r)
        PROVE  TypeOK'
    BY <2>1 DEF Arrive
  <2>2. ASSUME NEW r \in Requests, Check(r)
        PROVE  TypeOK'
    <3>1. CASE CheckQuotaRow(r) \/ QuotaLookupFails(r)
      BY <3>1 DEF CheckQuotaRow, QuotaLookupFails
    <3>2. CASE GetContracted(r)
      BY <3>2 DEF GetContracted
    <3>3. CASE GetTotalContracted(r)
      BY <3>3 DEF GetTotalContracted
    <3>4. CASE GetConsumed(r)
      BY <3>4 DEF GetConsumed
    <3>5. CASE GetTotalConsumption(r)
      BY <3>5 DEF GetTotalConsumption
    <3>6. CASE SeedBundleConsumed(r) \/ ResendSeed(r)
      BY <3>6 DEF SeedBundleConsumed, ResendSeed, SetNX
    <3>7. CASE Refuse(r) \/ Admit(r)
      BY <3>7 DEF Refuse, Admit
    <3> QED
      BY <2>2, <3>1, <3>2, <3>3, <3>4, <3>5, <3>6, <3>7 DEF Check
  <2>3. ASSUME NEW r \in Requests, Serve(r)
        PROVE  TypeOK'
    <3>1. CASE NoUpstream(r)
      BY <3>1 DEF NoUpstream
    <3>2. ASSUME NEW status \in {"success", "error"}, Send(r, status)
          PROVE  TypeOK'
      BY <3>2 DEF Send, AnswerOf
    <3>3. CASE Return(r)
      BY <3>3 DEF Return, AnswerOf
    <3> QED
      BY <2>3, <3>1, <3>2, <3>3 DEF Serve
  <2>4. ASSUME NEW r \in Requests, RecordUsage(r)
        PROVE  TypeOK'
    <3>1. CASE InsertEvent(r)
      BY <3>1 DEF InsertEvent
    <3>2. CASE UpsertMonthlyAggregate(r)
      BY <3>2 DEF UpsertMonthlyAggregate, Charge
    <3>3. CASE IncrBundleConsumed(r) \/ ResendIncr(r)
      BY <3>3 DEF IncrBundleConsumed, ResendIncr, Incr
    <3> QED
      BY <2>4, <3>1, <3>2, <3>3 DEF RecordUsage
  <2>5. ASSUME NEW r \in Requests, SetBundleContracted(r) \/ RunSeedCopy(r)
        PROVE  TypeOK'
    BY <2>5 DEF SetBundleContracted, RunSeedCopy, SetNX
  <2>6. CASE AdminStep
    <3>1. CASE UpdateQuota
      BY <3>1 DEF UpdateQuota
    <3>2. ASSUME NEW b \in Bundles, NEW amount \in Amounts, AddBundle(b, amount)
          PROVE  TypeOK'
      BY <3>2 DEF AddBundle
    <3>3. ASSUME NEW b \in Bundles, InvalidateBundleContracted(b)
          PROVE  TypeOK'
      BY <3>3 DEF InvalidateBundleContracted, Announce
    <3> QED
      BY <2>6, <3>1, <3>2, <3>3 DEF AdminStep
  <2>7. CASE RunIncrCopy \/ ExpireContracted \/ EvictConsumed
    BY <2>7 DEF RunIncrCopy, Incr, ExpireContracted, EvictConsumed, Announce
  <2>8. CASE Crash
    BY <2>8 DEF Crash, Running
  <2>9. CASE UNCHANGED vars
    BY <2>9 DEF vars
  <2> QED
    BY <2>1, <2>2, <2>3, <2>4, <2>5, <2>6, <2>7, <2>8, <2>9 DEF Next, RequestStep
<1> QED
  BY <1>1, <1>2, PTL DEF Spec

-----------------------------------------------------------------------------
\* What a request has at each place of its life: an outcome exactly from the
\* moment recordUsage owns it, and none before the check and the upstream call.
Early == {"idle", "quota", "contracted", "sumContracted", "consumed", "sumConsumed",
          "seed", "decide", "send"}

\* The places at which a request has no consumed total yet.
Unread == {"idle", "quota", "contracted", "sumContracted", "consumed", "sumConsumed"}

Stages ==
  \A r \in Requests :
    /\ pc[r] \in Early => outcome[r] = "none" /\ rec[r] = "none" /\ answer[r] = "none"
    /\ outcome[r] \in Statuses <=> rec[r] # "none"
    /\ pc[r] = "record" => outcome[r] \in {"success", "error"} /\ answer[r] = "none"
    /\ seedCopies[r] > 0 => pc[r] \notin Unread

LEMMA StagesCorrect == Spec => []Stages
<1>1. Init => Stages
  BY DEF Init, Stages, Statuses, Early, Unread
<1>2. ASSUME TypeOK, Stages, [Next]_vars
      PROVE  Stages'
  <2> USE <1>2 DEF TypeOK, Stages, Early, Unread, Statuses, postgres, redis, reads, copies,
                   history, Goto
  <2>1. ASSUME NEW r \in Requests, Arrive(r)
        PROVE  Stages'
    BY <2>1 DEF Arrive
  <2>2. ASSUME NEW r \in Requests, Check(r)
        PROVE  Stages'
    <3>1. CASE CheckQuotaRow(r) \/ QuotaLookupFails(r)
      BY <3>1 DEF CheckQuotaRow, QuotaLookupFails
    <3>2. CASE GetContracted(r) \/ GetTotalContracted(r)
      BY <3>2 DEF GetContracted, GetTotalContracted
    <3>3. CASE GetConsumed(r) \/ GetTotalConsumption(r) \/ SeedBundleConsumed(r) \/ ResendSeed(r)
      BY <3>3 DEF GetConsumed, GetTotalConsumption, SeedBundleConsumed, ResendSeed
    <3>4. CASE Refuse(r) \/ Admit(r)
      BY <3>4 DEF Refuse, Admit
    <3> QED
      BY <2>2, <3>1, <3>2, <3>3, <3>4 DEF Check
  <2>3. ASSUME NEW r \in Requests, Serve(r)
        PROVE  Stages'
    <3>1. CASE NoUpstream(r)
      BY <3>1 DEF NoUpstream
    <3>2. ASSUME NEW status \in {"success", "error"}, Send(r, status)
          PROVE  Stages'
      BY <3>2 DEF Send
    <3>3. CASE Return(r)
      BY <3>3 DEF Return
    <3> QED
      BY <2>3, <3>1, <3>2, <3>3 DEF Serve
  <2>4. ASSUME NEW r \in Requests, RecordUsage(r)
        PROVE  Stages'
    <3>1. CASE InsertEvent(r)
      BY <3>1 DEF InsertEvent
    <3>2. CASE UpsertMonthlyAggregate(r)
      BY <3>2 DEF UpsertMonthlyAggregate
    <3>3. CASE IncrBundleConsumed(r) \/ ResendIncr(r)
      BY <3>3 DEF IncrBundleConsumed, ResendIncr
    <3> QED
      BY <2>4, <3>1, <3>2, <3>3 DEF RecordUsage
  <2>5. ASSUME NEW r \in Requests, SetBundleContracted(r) \/ RunSeedCopy(r)
        PROVE  Stages'
    BY <2>5 DEF SetBundleContracted, RunSeedCopy
  <2>6. CASE AdminStep
    BY <2>6 DEF AdminStep, UpdateQuota, AddBundle, InvalidateBundleContracted
  <2>7. CASE RunIncrCopy \/ ExpireContracted \/ EvictConsumed
    BY <2>7 DEF RunIncrCopy, ExpireContracted, EvictConsumed
  <2>8. CASE Crash
    BY <2>8 DEF Crash, Running
  <2>9. CASE UNCHANGED vars
    BY <2>9 DEF vars
  <2> QED
    BY <2>1, <2>2, <2>3, <2>4, <2>5, <2>6, <2>7, <2>8, <2>9 DEF Next, RequestStep
<1> QED
  BY <1>1, <1>2, TypeCorrect, PTL DEF Spec

-----------------------------------------------------------------------------
\* The books move only when a request not yet booked is charged.

Ledgers == <<agg, Booked, With("success"), With("error"), With("rejected")>>

Books(r) ==
  /\ r \in Requests \ Booked
  /\ outcome[r] \in Statuses
  /\ outcome' = outcome /\ answer' = answer
  /\ agg' = Charge(outcome[r])
  /\ Booked' = Booked \cup {r}
  /\ \A status \in Statuses :
       With(status)' = IF status = outcome[r] THEN With(status) \cup {r} ELSE With(status)

LEMMA BooksStep ==
  ASSUME TypeOK, Stages, [Next]_vars
  PROVE  UNCHANGED Ledgers \/ \E r \in Requests : Books(r)
<1> DEFINE Same == UNCHANGED Ledgers
<1> USE DEF TypeOK, Stages, Early, Unread, Statuses, Ledgers, Booked, With, postgres, redis,
            reads, copies, history, Goto
<1>1. ASSUME NEW r \in Requests, Arrive(r) \/ Check(r)
      PROVE  Same
  <2>1. UNCHANGED agg /\ Booked' = Booked
    BY <1>1 DEF Arrive, Check, CheckQuotaRow, QuotaLookupFails, GetContracted,
                GetTotalContracted, GetConsumed, GetTotalConsumption,
                SeedBundleConsumed, ResendSeed, Refuse, Admit
  <2>2. \A q \in Booked : outcome'[q] = outcome[q]
    BY <1>1 DEF Arrive, Check, CheckQuotaRow, QuotaLookupFails, GetContracted,
                GetTotalContracted, GetConsumed, GetTotalConsumption,
                SeedBundleConsumed, ResendSeed, Refuse, Admit
  <2> QED
    BY <2>1, <2>2
<1>2. ASSUME NEW r \in Requests, Serve(r)
      PROVE  Same
  <2>1. UNCHANGED agg /\ Booked' = Booked
    BY <1>2 DEF Serve, NoUpstream, Send, Return
  <2>2. \A q \in Booked : outcome'[q] = outcome[q]
    BY <1>2 DEF Serve, NoUpstream, Send, Return
  <2> QED
    BY <2>1, <2>2
<1>3. ASSUME NEW r \in Requests,
             \/ InsertEvent(r) \/ IncrBundleConsumed(r) \/ ResendIncr(r)
             \/ SetBundleContracted(r) \/ RunSeedCopy(r)
      PROVE  Same
  BY <1>3 DEF InsertEvent, IncrBundleConsumed, ResendIncr, SetBundleContracted, RunSeedCopy
<1>4. ASSUME NEW r \in Requests, UpsertMonthlyAggregate(r)
      PROVE  Same \/ Books(r)
  <2>1. CASE agg' = agg
    BY <1>4, <2>1 DEF UpsertMonthlyAggregate, Charge, Columns
  <2>2. CASE agg' # agg
    <3>1. /\ r \in Requests \ Booked
          /\ outcome[r] \in Statuses
          /\ outcome' = outcome /\ answer' = answer
          /\ agg' = Charge(outcome[r])
      BY <1>4, <2>2 DEF UpsertMonthlyAggregate
    <3>2. Booked' = Booked \cup {r}
      BY <1>4, <2>2 DEF UpsertMonthlyAggregate
    <3> QED
      BY <3>1, <3>2 DEF Books
  <2> QED
    BY <2>1, <2>2
<1>5. CASE AdminStep
  BY <1>5 DEF AdminStep, UpdateQuota, AddBundle, InvalidateBundleContracted
<1>6. CASE RunIncrCopy \/ ExpireContracted \/ EvictConsumed
  BY <1>6 DEF RunIncrCopy, ExpireContracted, EvictConsumed
<1>7. CASE Crash
  BY <1>7 DEF Crash
<1>8. CASE UNCHANGED vars
  BY <1>8 DEF vars
<1> QED
  BY <1>1, <1>2, <1>3, <1>4, <1>5, <1>6, <1>7, <1>8 DEF Next, RequestStep, RecordUsage

LEMMA SetsFinite ==
  /\ IsFiniteSet(Booked) /\ IsFiniteSet(Pending) /\ IsFiniteSet(Settled)
  /\ IsFiniteSet(InFlight) /\ IsFiniteSet(Cleared)
  /\ \A status : IsFiniteSet(With(status))
BY FiniteRequests, FS_Subset DEF Booked, Pending, Settled, InFlight, Cleared, With

\* The monthly aggregates count each recorded request once, in the column of its
\* own status, whatever fails: recordUsage's upsert runs at most once for a request.
THEOREM LedgerCorrect == Spec => []LedgerExact
<1> USE DEF Columns, Statuses
<1>1. Init => LedgerExact
  <2> SUFFICES ASSUME Init
               PROVE  LedgerExact
    OBVIOUS
  <2>1. Booked = {} /\ \A status : With(status) = {}
    BY DEF Init, Booked, With
  <2>2. /\ agg["total"] = InitialConsumed /\ agg["success"] = InitialConsumed
        /\ agg["error"] = 0 /\ agg["rejected"] = 0
    BY DEF Init
  <2> QED
    BY <2>1, <2>2, FS_EmptySet, ConstantsAssumption DEF LedgerExact
<1>2. ASSUME TypeOK, Stages, LedgerExact, [Next]_vars
      PROVE  LedgerExact'
  <2>1. CASE UNCHANGED Ledgers
    BY <1>2, <2>1 DEF LedgerExact, Ledgers
  <2>2. ASSUME NEW r \in Requests, Books(r)
        PROVE  LedgerExact'
    <3>1. Cardinality(Booked') = Cardinality(Booked) + 1
      BY <2>2, SetsFinite, FS_AddElement DEF Books
    <3>2. ASSUME NEW status \in Statuses
          PROVE  Cardinality(With(status)') =
                   Cardinality(With(status)) + (IF status = outcome[r] THEN 1 ELSE 0)
      <4>1. r \notin With(status)
        BY <2>2 DEF Books, With
      <4>2. IsFiniteSet(With(status))
        BY SetsFinite
      <4>3. Cardinality(With(status)) \in Nat
        BY <4>2, FS_CardinalityType
      <4> QED
        BY <2>2, <4>1, <4>2, <4>3, FS_AddElement DEF Books
    <3>3. \A status : Cardinality(With(status)) \in Nat
      BY SetsFinite, FS_CardinalityType
    <3>4. Cardinality(Booked) \in Nat
      BY SetsFinite, FS_CardinalityType
    <3>5. /\ agg' = Charge(outcome[r])
          /\ outcome[r] \in Statuses
      BY <2>2 DEF Books
    <3>6. agg'["total"] = InitialConsumed + Cardinality(Booked')
      BY <1>2, <3>1, <3>4, <3>5, ConstantsAssumption DEF TypeOK, LedgerExact, Charge
    <3>7. agg'["success"] = InitialConsumed + Cardinality(With("success")')
      BY <1>2, <3>2, <3>3, <3>5, ConstantsAssumption DEF TypeOK, LedgerExact, Charge
    <3>8. /\ agg'["error"] = Cardinality(With("error")')
          /\ agg'["rejected"] = Cardinality(With("rejected")')
      BY <1>2, <3>2, <3>3, <3>5 DEF TypeOK, LedgerExact, Charge
    <3> QED
      BY <3>6, <3>7, <3>8 DEF LedgerExact
  <2> QED
    BY <1>2, <2>1, <2>2, BooksStep
<1> QED
  BY <1>1, <1>2, TypeCorrect, StagesCorrect, PTL DEF Spec

-----------------------------------------------------------------------------
\* Each step of the proxy is a step of BagLedger, or changes nothing it speaks of:
\* the promise about outcomes, answers and books holds under every fault.
THEOREM Refinement == Spec => ImplementsBagLedger
<1> USE DEF Ledger!Entries, Ledger!Bookable, Columns, Statuses
<1>1. Init => Ledger!Init
  BY DEF Init, Ledger!Init, Booked
<1>2. ASSUME TypeOK, Stages, [Next]_vars
      PROVE  [Ledger!Next]_(Ledger!ledgerVars)
  <2> DEFINE Same == UNCHANGED Ledger!ledgerVars
  <2> USE <1>2 DEF Ledger!ledgerVars, Ledgers
  <2>1. ASSUME NEW r \in Requests, Books(r)
        PROVE  Ledger!Next
    <3>1. Ledger!Book(r)
      BY <2>1 DEF Books, Charge, Ledger!Book
    <3> QED
      BY <3>1 DEF Ledger!Next
  <2>2. CASE UNCHANGED Ledgers
    <3> USE DEF TypeOK, Stages, Early, Unread, Answers, Goto
    <3>1. ASSUME NEW r \in Requests, NEW o \in Statuses \cup {"unserved"},
                 NEW w \in Ledger!Wording(o), outcome[r] = "none",
                 outcome' = [outcome EXCEPT ![r] = o],
                 answer' = [answer EXCEPT ![r] = w]
          PROVE  Ledger!Next
      <4>1. Ledger!Conclude(r, o)
        BY <2>2, <3>1 DEF Ledger!Conclude, Ledger!Tell
      <4> QED
        BY <4>1 DEF Ledger!Next
    <3>2. ASSUME NEW r \in Requests, Arrive(r)
          PROVE  Same
      BY <2>2, <3>2 DEF Arrive
    <3>3. ASSUME NEW r \in Requests, Check(r)
          PROVE  Ledger!Next \/ Same
      <4>1. CASE QuotaLookupFails(r)
        <5>1. "internal" \in Ledger!Wording("unserved")
          BY DEF Ledger!Wording
        <5> QED
          BY <3>1, <4>1, <5>1 DEF QuotaLookupFails
      <4>2. CASE Refuse(r)
        <5>1. "quota_exceeded" \in Ledger!Wording("rejected")
          BY DEF Ledger!Wording
        <5> QED
          BY <3>1, <4>2, <5>1 DEF Refuse
      <4>3. CASE ~QuotaLookupFails(r) /\ ~Refuse(r)
        BY <2>2, <3>3, <4>3 DEF Check, CheckQuotaRow, GetContracted, GetTotalContracted,
                                GetConsumed, GetTotalConsumption, SeedBundleConsumed, ResendSeed,
                                Admit
      <4> QED
        BY <4>1, <4>2, <4>3
    <3>4. ASSUME NEW r \in Requests, Serve(r)
          PROVE  Ledger!Next \/ Same
      <4>1. CASE NoUpstream(r)
        <5>1. "unavailable" \in Ledger!Wording("unserved")
          BY DEF Ledger!Wording
        <5> QED
          BY <3>1, <4>1, <5>1 DEF NoUpstream
      <4>2. ASSUME NEW status \in {"success", "error"}, Send(r, status)
            PROVE  Ledger!Next
        <5>1. AnswerOf(status) \in Ledger!Wording(status)
          BY DEF AnswerOf, Ledger!Wording
        <5>2. outcome[r] = "none" /\ outcome' = [outcome EXCEPT ![r] = status]
          BY <4>2 DEF Send
        <5>3. CASE UsageRecordAsync
          BY <3>1, <4>2, <5>1, <5>2, <5>3 DEF Send
        <5>4. CASE ~UsageRecordAsync
          <6>1. Ledger!Conclude(r, status)
            BY <2>2, <4>2, <5>2, <5>4 DEF Send, Ledger!Conclude
          <6> QED
            BY <6>1 DEF Ledger!Next
        <5> QED
          BY <5>3, <5>4
      <4>3. CASE Return(r)
        <5>1. AnswerOf(outcome[r]) \in Ledger!Wording(outcome[r])
          BY <4>3 DEF Return, AnswerOf, Ledger!Wording
        <5>2. Ledger!Inform(r)
          BY <2>2, <4>3, <5>1 DEF Return, Ledger!Inform, Ledger!Tell
        <5> QED
          BY <5>2 DEF Ledger!Next
      <4> QED
        BY <3>4, <4>1, <4>2, <4>3 DEF Serve
    <3>5. ASSUME NEW r \in Requests, RecordUsage(r) \/ SetBundleContracted(r) \/ RunSeedCopy(r)
          PROVE  Same
      BY <2>2, <3>5 DEF RecordUsage, InsertEvent, UpsertMonthlyAggregate, IncrBundleConsumed,
                        ResendIncr, SetBundleContracted, RunSeedCopy
    <3>6. CASE AdminStep
      BY <2>2, <3>6 DEF AdminStep, UpdateQuota, AddBundle, InvalidateBundleContracted
    <3>7. CASE RunIncrCopy \/ ExpireContracted \/ EvictConsumed \/ Crash
      BY <2>2, <3>7 DEF RunIncrCopy, ExpireContracted, EvictConsumed, Crash
    <3>8. CASE UNCHANGED vars
      BY <2>2, <3>8 DEF vars
    <3> QED
      BY <3>2, <3>3, <3>4, <3>5, <3>6, <3>7, <3>8 DEF Next, RequestStep
  <2> QED
    BY <2>1, <2>2, BooksStep
<1> QED
  BY <1>1, <1>2, TypeCorrect, StagesCorrect, PTL DEF Spec, ImplementsBagLedger, Ledger!Spec

-----------------------------------------------------------------------------
\* The bag: how far the cached counter and the refusals may run ahead of Postgres
\* under every fault, and how far a bag may be overdrawn when the reads of the
\* check do not fail.

\* A total a request or the cache holds was the contracted total once, and the
\* contracted total only grows.
PastTotals ==
  /\ cContracted # Miss => cContracted <= contracted
  /\ \A r \in Requests : /\ setC[r] # Miss => setC[r] <= contracted
                         /\ seenContracted[r] <= contracted

LEMMA PastTotalsCorrect == Spec => []PastTotals
<1> USE ConstantsAssumption
<1>1. Init => PastTotals
  BY DEF Init, PastTotals
<1>2. ASSUME TypeOK, PastTotals, [Next]_vars
      PROVE  PastTotals'
  <2> USE <1>2 DEF TypeOK, PastTotals, postgres, redis, reads, copies, history, Goto, Fault
  <2>1. ASSUME NEW r \in Requests, GetContracted(r) \/ GetTotalContracted(r)
        PROVE  PastTotals'
    BY <2>1 DEF GetContracted, GetTotalContracted
  <2>2. ASSUME NEW r \in Requests, SetBundleContracted(r) \/ RunSeedCopy(r)
        PROVE  PastTotals'
    BY <2>2 DEF SetBundleContracted, RunSeedCopy
  <2>3. ASSUME NEW b \in Bundles, NEW amount \in Amounts, AddBundle(b, amount)
        PROVE  PastTotals'
    <3>1. contracted' >= contracted
      BY <2>3 DEF AddBundle
    <3> QED
      BY <2>3, <3>1 DEF AddBundle
  <2>4. ASSUME NEW b \in Bundles, InvalidateBundleContracted(b)
        PROVE  PastTotals'
    BY <2>4 DEF InvalidateBundleContracted
  <2>5. CASE RunIncrCopy \/ ExpireContracted \/ EvictConsumed \/ Crash \/ UpdateQuota
    BY <2>5 DEF RunIncrCopy, ExpireContracted, EvictConsumed, Crash, UpdateQuota
  <2>6. ASSUME NEW r \in Requests, Arrive(r) \/ Serve(r) \/ RecordUsage(r)
        PROVE  PastTotals'
    BY <2>6 DEF Arrive, Serve, NoUpstream, Send, Return, RecordUsage, InsertEvent,
                UpsertMonthlyAggregate, IncrBundleConsumed, ResendIncr
  <2>7. ASSUME NEW r \in Requests, Check(r)
        PROVE  PastTotals'
    BY <2>1, <2>7 DEF Check, CheckQuotaRow, QuotaLookupFails, GetConsumed,
                      GetTotalConsumption, SeedBundleConsumed, ResendSeed, Refuse, Admit
  <2>8. CASE UNCHANGED vars
    BY <2>8 DEF vars
  <2> QED
    BY <2>2, <2>3, <2>4, <2>5, <2>6, <2>7, <2>8 DEF Next, RequestStep, AdminStep
<1> QED
  BY <1>1, <1>2, TypeCorrect, PTL DEF Spec

-----------------------------------------------------------------------------
\* The server never holds more requests than MaxInFlight: only Arrive adds one.
InFlightBounded == Cardinality(InFlight) <= MaxInFlight

LEMMA InFlightStep ==
  ASSUME TypeOK, Stages, [Next]_vars
  PROVE  \/ InFlight' \subseteq InFlight
         \/ \E r \in Requests : /\ Arrive(r)
                                /\ InFlight' = InFlight \cup {r}
<1> USE DEF TypeOK, Stages, Early, Unread, Statuses, InFlight, Running, Recording,
            postgres, redis, reads, copies, history, Goto
<1>1. ASSUME NEW r \in Requests, Arrive(r)
      PROVE  InFlight' = InFlight \cup {r}
  BY <1>1 DEF Arrive
<1>2. ASSUME NEW r \in Requests, Check(r)
      PROVE  InFlight' \subseteq InFlight
  BY <1>2 DEF Check, CheckQuotaRow, QuotaLookupFails, GetContracted, GetTotalContracted,
              GetConsumed, GetTotalConsumption, SeedBundleConsumed, ResendSeed, Refuse, Admit
<1>3. ASSUME NEW r \in Requests, Serve(r)
      PROVE  InFlight' \subseteq InFlight
  BY <1>3 DEF Serve, NoUpstream, Send, Return
<1>4. ASSUME NEW r \in Requests, RecordUsage(r) \/ SetBundleContracted(r) \/ RunSeedCopy(r)
      PROVE  InFlight' \subseteq InFlight
  BY <1>4 DEF RecordUsage, InsertEvent, UpsertMonthlyAggregate, IncrBundleConsumed,
              ResendIncr, SetBundleContracted, RunSeedCopy
<1>5. CASE AdminStep
  BY <1>5 DEF AdminStep, UpdateQuota, AddBundle, InvalidateBundleContracted
<1>6. CASE RunIncrCopy \/ ExpireContracted \/ EvictConsumed \/ Crash
  BY <1>6 DEF RunIncrCopy, ExpireContracted, EvictConsumed, Crash
<1>7. CASE UNCHANGED vars
  BY <1>7 DEF vars
<1> QED
  BY <1>1, <1>2, <1>3, <1>4, <1>5, <1>6, <1>7 DEF Next, RequestStep

LEMMA InFlightCorrect == Spec => []InFlightBounded
<1>1. Init => InFlightBounded
  <2>1. Init => InFlight = {}
    BY DEF Init, InFlight, Running, Recording
  <2> QED
    BY <2>1, FS_EmptySet, ConstantsAssumption DEF InFlightBounded
<1>2. ASSUME TypeOK, Stages, InFlightBounded, [Next]_vars
      PROVE  InFlightBounded'
  <2> USE ConstantsAssumption
  <2>1. IsFiniteSet(InFlight) /\ Cardinality(InFlight) \in Nat
    BY SetsFinite, FS_CardinalityType
  <2>2. CASE InFlight' \subseteq InFlight
    <3>1. Cardinality(InFlight') <= Cardinality(InFlight) /\ Cardinality(InFlight') \in Nat
      BY <2>1, <2>2, FS_Subset, FS_CardinalityType
    <3> QED
      BY <1>2, <2>1, <3>1 DEF InFlightBounded
  <2>3. ASSUME NEW r \in Requests, Arrive(r), InFlight' = InFlight \cup {r}
        PROVE  InFlightBounded'
    <3> DEFINE more == InFlight \cup {r}
    <3>0. IsFiniteSet(more) /\ (Cardinality(more) = Cardinality(InFlight)
                                   \/ Cardinality(more) = Cardinality(InFlight) + 1)
      BY <2>1, FS_AddElement, Zenon
    <3>1. IsFiniteSet(more) /\ Cardinality(more) <= Cardinality(InFlight) + 1
      BY <2>1, <3>0
    <3>2. Cardinality(more) \in Nat
      BY <3>1, FS_CardinalityType
    <3>3. Cardinality(InFlight) < MaxInFlight
      BY <2>3 DEF Arrive
    <3>4. InFlight' = more
      BY <2>3
    <3> HIDE DEF more
    <3>5. Cardinality(more) <= MaxInFlight
      BY <2>1, <3>1, <3>2, <3>3
    <3> QED
      BY <3>4, <3>5 DEF InFlightBounded
  <2> QED
    BY <1>2, <2>2, <2>3, InFlightStep
<1> QED
  BY <1>1, <1>2, TypeCorrect, StagesCorrect, PTL DEF Spec

-----------------------------------------------------------------------------
\* How far the counter is ahead: the INCRs still to come, of which there are at
\* most MaxInFlight, plus what Postgres knows, never outgrow the total.  A seed, on
\* its way or sent a second time, carries that bound; a request that read the
\* counter carries it with the INCRs that were run and not waited for.
Slack == agg["total"] + MaxInFlight - 1

LeadInv ==
  /\ CounterLeadBounded
  /\ unheard <= allUnheard
  /\ \A r \in Requests :
       /\ pc[r] = "seed" \/ seedCopies[r] > 0 =>
            seenConsumed[r] + Cardinality(Pending) <= Slack
       /\ pc[r] = "decide" => seenConsumed[r] <= Slack + allUnheard

LEMMA PendingStep ==
  ASSUME TypeOK, Stages, [Next]_vars
  PROVE  \/ UNCHANGED agg /\ Pending' \subseteq Pending
         \/ \E r \in Requests : /\ agg' = Charge(outcome[r])
                                /\ Pending' \subseteq Pending \cup {r}
<1> USE DEF TypeOK, Stages, Early, Unread, Statuses, Pending, postgres, redis, reads, copies,
            history, Goto
<1>1. ASSUME NEW r \in Requests, Arrive(r) \/ Check(r)
      PROVE  UNCHANGED agg /\ Pending' \subseteq Pending
  BY <1>1 DEF Arrive, Check, CheckQuotaRow, QuotaLookupFails, GetContracted,
              GetTotalContracted, GetConsumed, GetTotalConsumption, SeedBundleConsumed,
              ResendSeed, Refuse, Admit
<1>2. ASSUME NEW r \in Requests, Serve(r)
      PROVE  UNCHANGED agg /\ Pending' \subseteq Pending
  BY <1>2 DEF Serve, NoUpstream, Send, Return
<1>3. ASSUME NEW r \in Requests,
             \/ InsertEvent(r) \/ IncrBundleConsumed(r) \/ ResendIncr(r)
             \/ SetBundleContracted(r) \/ RunSeedCopy(r)
      PROVE  UNCHANGED agg /\ Pending' \subseteq Pending
  BY <1>3 DEF InsertEvent, IncrBundleConsumed, ResendIncr, SetBundleContracted, RunSeedCopy
<1>4. ASSUME NEW r \in Requests, UpsertMonthlyAggregate(r)
      PROVE  \/ UNCHANGED agg /\ Pending' \subseteq Pending
             \/ /\ agg' = Charge(outcome[r])
                /\ Pending' \subseteq Pending \cup {r}
  BY <1>4 DEF UpsertMonthlyAggregate
<1>5. CASE AdminStep
  BY <1>5 DEF AdminStep, UpdateQuota, AddBundle, InvalidateBundleContracted
<1>6. CASE RunIncrCopy \/ ExpireContracted \/ EvictConsumed \/ Crash
  BY <1>6 DEF RunIncrCopy, ExpireContracted, EvictConsumed, Crash
<1>7. CASE UNCHANGED vars
  BY <1>7 DEF vars
<1> QED
  BY <1>1, <1>2, <1>3, <1>4, <1>5, <1>6, <1>7 DEF Next, RequestStep, RecordUsage

\* An INCR becomes due only with the upsert that moved the total.
LEMMA SlackKept ==
  ASSUME TypeOK, Stages, [Next]_vars
  PROVE  /\ Cardinality(Pending) \in Nat /\ Cardinality(Pending') \in Nat
         /\ agg'["total"] \in Nat
         /\ agg'["total"] >= agg["total"]
         /\ agg'["total"] - Cardinality(Pending') >= agg["total"] - Cardinality(Pending)
<1>1. IsFiniteSet(Pending) /\ Cardinality(Pending) \in Nat
  BY SetsFinite, FS_CardinalityType
<1>2. agg["total"] \in Nat
  BY DEF TypeOK, Columns
<1>3. CASE UNCHANGED agg /\ Pending' \subseteq Pending
  <2>1. Cardinality(Pending') <= Cardinality(Pending) /\ Cardinality(Pending') \in Nat
    BY <1>1, <1>3, FS_Subset, FS_CardinalityType
  <2> QED
    BY <1>1, <1>2, <1>3, <2>1
<1>4. ASSUME NEW r \in Requests, agg' = Charge(outcome[r]), Pending' \subseteq Pending \cup {r}
      PROVE  /\ Cardinality(Pending') \in Nat
             /\ agg'["total"] = agg["total"] + 1
             /\ Cardinality(Pending') <= Cardinality(Pending) + 1
  <2>1. /\ IsFiniteSet(Pending \cup {r})
        /\ Cardinality(Pending \cup {r}) \in Nat
        /\ Cardinality(Pending \cup {r}) <= Cardinality(Pending) + 1
    BY <1>1, FS_AddElement, FS_CardinalityType
  <2>2. /\ Cardinality(Pending') <= Cardinality(Pending \cup {r})
        /\ Cardinality(Pending') \in Nat
    BY <1>4, <2>1, FS_Subset, FS_CardinalityType
  <2>3. agg'["total"] = agg["total"] + 1
    BY <1>4 DEF Charge, Columns
  <2> QED
    BY <1>1, <2>1, <2>2, <2>3
<1>5. CASE \E r \in Requests : agg' = Charge(outcome[r]) /\ Pending' \subseteq Pending \cup {r}
  BY <1>1, <1>2, <1>4, <1>5
<1> QED
  BY <1>3, <1>5, <1>1, PendingStep

LEMMA LeadCorrect == Spec => []LeadInv
<1> USE ConstantsAssumption
<1>1. Init => LeadInv
  BY DEF Init, LeadInv, CounterLeadBounded
<1>2. ASSUME TypeOK, TypeOK', Stages, LedgerExact, InFlightBounded, LeadInv, [Next]_vars
      PROVE  LeadInv'
  <2> DEFINE due == Cardinality(Pending)
             total == agg["total"]
  <2>1. /\ due \in Nat /\ due' \in Nat /\ total \in Nat /\ total' \in Nat
        /\ total' >= total /\ total' - due' >= total - due
    BY <1>2, SlackKept DEF TypeOK, Columns
  <2>2. due <= total
    <3>1. Pending \subseteq Booked
      BY DEF Pending, Booked
    <3>2. due <= Cardinality(Booked) /\ Cardinality(Booked) \in Nat
      BY <3>1, SetsFinite, FS_Subset, FS_CardinalityType
    <3> QED
      BY <1>2, <2>1, <3>2 DEF LedgerExact
  <2>3. \A r \in Requests : pc[r] = "sumConsumed" => due <= MaxInFlight - 1
    <3> SUFFICES ASSUME NEW r \in Requests, pc[r] = "sumConsumed"
                 PROVE  due <= MaxInFlight - 1
      OBVIOUS
    <3>1. r \notin Pending /\ Pending \cup {r} \subseteq InFlight
      BY <1>2 DEF Pending, InFlight, Running, Recording, Stages, Early
    <3>2. Cardinality(Pending \cup {r}) = due + 1
      BY <3>1, SetsFinite, FS_AddElement
    <3>3. Cardinality(Pending \cup {r}) <= Cardinality(InFlight) /\ Cardinality(InFlight) \in Nat
      BY <3>1, SetsFinite, FS_Subset, FS_CardinalityType
    <3> QED
      BY <1>2, <2>1, <3>2, <3>3 DEF InFlightBounded
  <2> HIDE DEF due, total
  <2> USE <1>2, <2>1 DEF LeadInv, CounterLeadBounded, Slack, TypeOK, postgres, redis, reads,
                         copies, history, Goto, Fault
  <2>4. ASSUME \/ cConsumed' = cConsumed /\ unheard' = unheard
               \/ cConsumed' = Miss /\ unheard' \in {0, unheard},
               UNCHANGED allUnheard,
               \A r \in Requests : /\ pc'[r] \in {"seed", "decide"} => pc'[r] = pc[r]
                                   /\ seenConsumed'[r] = seenConsumed[r]
                                   /\ seedCopies'[r] > 0 => seedCopies[r] > 0 \/ pc[r] = "seed"
        PROVE  LeadInv'
    BY <2>4 DEF due, total
  <2>5. ASSUME NEW r \in Requests, GetConsumed(r)
        PROVE  LeadInv'
    BY <2>5 DEF GetConsumed, Stages, Unread, due, total
  <2>6. ASSUME NEW r \in Requests, GetTotalConsumption(r)
        PROVE  LeadInv'
    BY <2>3, <2>6 DEF GetTotalConsumption, Stages, Unread, due, total
  <2>7. ASSUME NEW r \in Requests, SeedBundleConsumed(r) \/ RunSeedCopy(r)
        PROVE  LeadInv'
    BY <2>7 DEF SeedBundleConsumed, RunSeedCopy, SetNX, due, total
  <2>8. ASSUME NEW r \in Requests, IncrBundleConsumed(r)
        PROVE  LeadInv'
    <3>1. r \in Pending /\ Pending' = Pending \ {r}
      BY <2>8 DEF IncrBundleConsumed, Pending
    <3>2. due' = due - 1
      BY <3>1, SetsFinite, FS_RemoveElement DEF due
    <3> QED
      BY <2>2, <2>8, <3>2 DEF IncrBundleConsumed, Incr, due, total
  <2>9. ASSUME NEW r \in Requests,
               \/ Arrive(r) \/ CheckQuotaRow(r) \/ QuotaLookupFails(r) \/ GetContracted(r)
               \/ GetTotalContracted(r) \/ Refuse(r) \/ Admit(r) \/ Serve(r)
               \/ InsertEvent(r) \/ UpsertMonthlyAggregate(r) \/ SetBundleContracted(r)
               \/ ResendSeed(r) \/ ResendIncr(r)
        PROVE  LeadInv'
    BY <2>4, <2>9 DEF Arrive, CheckQuotaRow, QuotaLookupFails, GetContracted,
                      GetTotalContracted, Refuse, Admit, Serve, NoUpstream, Send, Return,
                      InsertEvent, UpsertMonthlyAggregate, SetBundleContracted,
                      ResendSeed, ResendIncr
  <2>10. CASE AdminStep \/ ExpireContracted \/ EvictConsumed
    BY <2>4, <2>10 DEF AdminStep, UpdateQuota, AddBundle, InvalidateBundleContracted,
                       ExpireContracted, EvictConsumed
  <2>11. CASE Crash
    BY <2>4, <2>11 DEF Crash
  <2>12. CASE UNCHANGED vars
    BY <2>4, <2>12 DEF vars
  <2>13. CASE RunIncrCopy
    BY <2>2, <2>13 DEF RunIncrCopy, Incr, due, total
  <2> QED
    BY <2>5, <2>6, <2>7, <2>8, <2>9, <2>10, <2>11, <2>12, <2>13
       DEF Next, RequestStep, Check, RecordUsage
<1> QED
  BY <1>1, <1>2, TypeCorrect, StagesCorrect, LedgerCorrect, InFlightCorrect, PTL DEF Spec

\* The cached counter is ahead of Postgres by no more than the other requests in
\* flight (IncrBundleConsumed, SeedBundleConsumed) and the INCRs the Redis client
\* sent again or gave up, across evictions, failed writes and restarts.
THEOREM CounterLead == Spec => []CounterLeadBounded
BY LeadCorrect, PTL DEF LeadInv

\* A refusal (Exhausted, Refuse) names a bag that was contracted and whose stamps
\* are used up but for the last MaxInFlight - 1, and one for each INCR that Redis ran
\* and no goroutine waited for, whatever failed before it.
THEOREM RefusalCorrect == Spec => []RefusalJustified
<1> USE ConstantsAssumption
<1>1. Init => RefusalJustified
  BY DEF Init, RefusalJustified
<1>2. ASSUME TypeOK, TypeOK', Stages, PastTotals, PastTotals', LeadInv, RefusalJustified,
             [Next]_vars
      PROVE  RefusalJustified'
  <2>1. agg'["total"] >= agg["total"] /\ agg["total"] \in Nat /\ agg'["total"] \in Nat
    BY <1>2, SlackKept DEF TypeOK, Columns
  <2> USE <1>2, <2>1 DEF TypeOK, RefusalJustified, PastTotals, postgres, redis, reads, copies,
                         history, Goto
  <2>2. ASSUME NEW r \in Requests, Refuse(r)
        PROVE  RefusalJustified'
    <3>1. /\ 0 < seenContracted[r] /\ seenContracted[r] <= seenConsumed[r]
          /\ seenConsumed[r] <= agg["total"] + MaxInFlight - 1 + allUnheard
      BY <2>2 DEF Refuse, Exhausted, LeadInv, Slack
    <3> QED
      BY <2>2, <3>1 DEF Refuse
  <2>3. ASSUME allUnheard' >= allUnheard,
               \A r \in Requests : outcome'[r] = "rejected" =>
                 outcome[r] = "rejected" /\ seenContracted'[r] = seenContracted[r]
        PROVE  RefusalJustified'
    BY <2>3
  <2>4. ASSUME NEW r \in Requests, Arrive(r) \/ Check(r)
        PROVE  RefusalJustified'
    BY <2>2, <2>3, <2>4
       DEF Stages, Early, Arrive, Check, CheckQuotaRow, QuotaLookupFails, GetContracted,
           GetTotalContracted, GetConsumed, GetTotalConsumption, SeedBundleConsumed, ResendSeed,
           Admit
  <2>5. ASSUME NEW r \in Requests, Serve(r)
        PROVE  RefusalJustified'
    BY <2>3, <2>5 DEF Serve, NoUpstream, Send, Return
  <2>6. ASSUME NEW r \in Requests, RecordUsage(r) \/ SetBundleContracted(r) \/ RunSeedCopy(r)
        PROVE  RefusalJustified'
    BY <2>3, <2>6 DEF RecordUsage, InsertEvent, UpsertMonthlyAggregate, IncrBundleConsumed,
                      ResendIncr, SetBundleContracted, RunSeedCopy
  <2>7. CASE AdminStep
    BY <2>3, <2>7 DEF AdminStep, UpdateQuota, AddBundle, InvalidateBundleContracted
  <2>8. CASE RunIncrCopy \/ ExpireContracted \/ EvictConsumed \/ Crash
    BY <2>3, <2>8 DEF RunIncrCopy, ExpireContracted, EvictConsumed, Crash
  <2>9. CASE UNCHANGED vars
    BY <2>3, <2>9 DEF vars
  <2> QED
    BY <2>4, <2>5, <2>6, <2>7, <2>8, <2>9 DEF Next, RequestStep
<1> QED
  BY <1>1, <1>2, TypeCorrect, StagesCorrect, PastTotalsCorrect, LeadCorrect, PTL DEF Spec

-----------------------------------------------------------------------------
\* What the cache holds, and what a SET on its way carries, was read after the last
\* total that was announced.
Fresh ==
  /\ announced <= contracted
  /\ cContracted # Miss => cContracted >= announced
  /\ \A r \in Requests : setC[r] # Miss => setC[r] >= announced

LEMMA FreshCorrect == Spec => []Fresh
<1> USE ConstantsAssumption
<1>1. Init => Fresh
  BY DEF Init, Fresh
<1>2. ASSUME TypeOK, Fresh, [Next]_vars
      PROVE  Fresh'
  <2> USE <1>2 DEF TypeOK, Fresh, postgres, redis, reads, copies, history, Goto, Fault
  <2>1. ASSUME NEW r \in Requests, GetContracted(r) \/ GetTotalContracted(r)
        PROVE  Fresh'
    BY <2>1 DEF GetContracted, GetTotalContracted
  <2>2. ASSUME NEW r \in Requests, SetBundleContracted(r) \/ RunSeedCopy(r)
        PROVE  Fresh'
    BY <2>2 DEF SetBundleContracted, RunSeedCopy
  <2>3. ASSUME NEW b \in Bundles, NEW amount \in Amounts, AddBundle(b, amount)
        PROVE  Fresh'
    <3>1. contracted' >= contracted
      BY <2>3 DEF AddBundle
    <3> QED
      BY <2>3, <3>1 DEF AddBundle
  <2>4. ASSUME cContracted' = Miss, UNCHANGED <<contracted, setC>>, Announce
        PROVE  Fresh'
    BY <2>4 DEF Announce
  <2>5. ASSUME NEW b \in Bundles, InvalidateBundleContracted(b)
        PROVE  Fresh'
    BY <2>4, <2>5 DEF InvalidateBundleContracted
  <2>6. CASE ExpireContracted
    BY <2>4, <2>6 DEF ExpireContracted
  <2>7. CASE RunIncrCopy \/ EvictConsumed \/ Crash \/ UpdateQuota
    BY <2>7 DEF RunIncrCopy, EvictConsumed, Crash, UpdateQuota
  <2>8. ASSUME NEW r \in Requests, Arrive(r) \/ Serve(r) \/ RecordUsage(r)
        PROVE  Fresh'
    BY <2>8 DEF Arrive, Serve, NoUpstream, Send, Return, RecordUsage, InsertEvent,
                UpsertMonthlyAggregate, IncrBundleConsumed, ResendIncr
  <2>9. ASSUME NEW r \in Requests, Check(r)
        PROVE  Fresh'
    BY <2>1, <2>9 DEF Check, CheckQuotaRow, QuotaLookupFails, GetConsumed,
                      GetTotalConsumption, SeedBundleConsumed, ResendSeed, Refuse, Admit
  <2>10. CASE UNCHANGED vars
    BY <2>10 DEF vars
  <2> QED
    BY <2>2, <2>3, <2>5, <2>6, <2>7, <2>8, <2>9, <2>10 DEF Next, RequestStep, AdminStep
<1> QED
  BY <1>1, <1>2, TypeCorrect, PTL DEF Spec

\* A purchase that was made known is seen by every request that reads the contracted
\* total after it (getCachedContracted against AddBundle's invalidation).
THEOREM PurchaseCorrect == Spec => PurchaseSeen
<1> DEFINE Reading(r) == pc[r] \in {"contracted", "sumContracted"} /\ pc'[r] = "consumed"
           Enough(r) == seenContracted'[r] = 0 \/ seenContracted'[r] >= announced
<1>1. ASSUME TypeOK, Fresh, [Next]_vars
      PROVE  [\A r \in Requests : Reading(r) => Enough(r)]_vars
  <2> USE <1>1 DEF TypeOK, Fresh, postgres, redis, reads, copies, history, Goto
  <2>1. ASSUME NEW r \in Requests, Check(r)
        PROVE  \A q \in Requests : Reading(q) => GetContracted(r) \/ GetTotalContracted(r)
    BY <2>1 DEF Check, CheckQuotaRow, QuotaLookupFails, GetConsumed, GetTotalConsumption,
                SeedBundleConsumed, ResendSeed, Refuse, Admit
  <2>2. ASSUME NEW r \in Requests, GetContracted(r) \/ GetTotalContracted(r)
        PROVE  \A q \in Requests : Reading(q) => Enough(q)
    BY <2>2 DEF GetContracted, GetTotalContracted
  <2>3. ASSUME NEW r \in Requests,
               \/ Arrive(r) \/ Serve(r) \/ RecordUsage(r)
               \/ SetBundleContracted(r) \/ RunSeedCopy(r)
        PROVE  \A q \in Requests : ~Reading(q)
    BY <2>3 DEF Arrive, Serve, NoUpstream, Send, Return, RecordUsage, InsertEvent,
                UpsertMonthlyAggregate, IncrBundleConsumed, ResendIncr,
                SetBundleContracted, RunSeedCopy
  <2>4. CASE AdminStep
    BY <2>4 DEF AdminStep, UpdateQuota, AddBundle, InvalidateBundleContracted
  <2>5. CASE RunIncrCopy \/ ExpireContracted \/ EvictConsumed \/ Crash
    BY <2>5 DEF RunIncrCopy, ExpireContracted, EvictConsumed, Crash
  <2> QED
    BY <2>1, <2>2, <2>3, <2>4, <2>5 DEF Next, RequestStep
<1> QED
  BY <1>1, TypeCorrect, FreshCorrect, PTL DEF Spec, PurchaseSeen

-----------------------------------------------------------------------------
\* The check does its work when the tenant has a quota row and a bag, the reads of
\* the check do not fail, and Redis does not drop the counter.  Recordings and
\* invalidations may fail, and the backend may crash.
Benign == /\ FaultKinds \cap {"check", "evict"} = {}
          /\ InitialQuotaRow
          /\ InitialContracted > 0

\* The total a request compares with is that of a bag, never the 0 of a failure.
BagInv ==
  /\ quotaRow /\ contracted > 0
  /\ cContracted # Miss => cContracted > 0
  /\ \A r \in Requests :
       /\ setC[r] # Miss => setC[r] > 0
       /\ pc[r] \in {"consumed", "sumConsumed", "seed", "decide"} => seenContracted[r] > 0

LEMMA BagCorrect == ASSUME Benign PROVE Spec => []BagInv
<1> USE ConstantsAssumption DEF Benign
<1>1. Init => BagInv
  BY DEF Init, BagInv
<1>2. ASSUME TypeOK, BagInv, [Next]_vars
      PROVE  BagInv'
  <2> USE <1>2 DEF TypeOK, BagInv, postgres, redis, reads, copies, history, Goto, Fault
  <2>1. ASSUME NEW r \in Requests, Arrive(r) \/ Check(r)
        PROVE  BagInv'
    <3>1. CASE GetContracted(r)
      BY <3>1 DEF GetContracted
    <3>2. CASE GetTotalContracted(r)
      BY <3>2 DEF GetTotalContracted
    <3> QED
      BY <2>1, <3>1, <3>2 DEF Arrive, Check, CheckQuotaRow, QuotaLookupFails, GetConsumed,
                              GetTotalConsumption, SeedBundleConsumed, ResendSeed, Refuse, Admit
  <2>2. ASSUME quotaRow', contracted' = contracted,
               cContracted' = cContracted \/ cContracted' = Miss,
               \A r \in Requests :
                 /\ setC'[r] = setC[r] \/ setC'[r] = Miss
                 /\ seenContracted'[r] = seenContracted[r]
                 /\ pc'[r] \in {"consumed", "sumConsumed", "seed", "decide"} => pc'[r] = pc[r]
        PROVE  BagInv'
    BY <2>2
  <2>3. ASSUME NEW r \in Requests, SetBundleContracted(r) \/ RunSeedCopy(r)
        PROVE  BagInv'
    BY <2>3 DEF SetBundleContracted, RunSeedCopy
  <2>4. ASSUME NEW b \in Bundles, NEW amount \in Amounts, AddBundle(b, amount)
        PROVE  BagInv'
    <3>1. contracted' > 0
      BY <2>4 DEF AddBundle
    <3> QED
      BY <2>4, <3>1 DEF AddBundle
  <2>5. ASSUME NEW b \in Bundles, InvalidateBundleContracted(b)
        PROVE  BagInv'
    BY <2>5 DEF InvalidateBundleContracted
  <2>6. ASSUME NEW r \in Requests, Serve(r)
        PROVE  BagInv'
    <3>1. CASE NoUpstream(r)
      BY <2>2, <3>1 DEF NoUpstream
    <3>2. ASSUME NEW status \in {"success", "error"}, Send(r, status)
          PROVE  BagInv'
      <4>1. pc' = [pc EXCEPT ![r] = "done"] \/ pc' = [pc EXCEPT ![r] = "record"]
        BY <3>2 DEF Send
      <4> QED
        BY <2>2, <3>2, <4>1 DEF Send
    <3>3. CASE Return(r)
      BY <2>2, <3>3 DEF Return
    <3> QED
      BY <2>6, <3>1, <3>2, <3>3 DEF Serve
  <2>7. ASSUME NEW r \in Requests, RecordUsage(r)
        PROVE  BagInv'
    BY <2>2, <2>7 DEF RecordUsage, InsertEvent, UpsertMonthlyAggregate, IncrBundleConsumed,
                      ResendIncr
  <2>8. CASE UpdateQuota \/ RunIncrCopy \/ ExpireContracted \/ EvictConsumed
    BY <2>2, <2>8 DEF UpdateQuota, RunIncrCopy, ExpireContracted, EvictConsumed
  <2>9. CASE Crash
    BY <2>2, <2>9 DEF Crash
  <2>10. CASE UNCHANGED vars
    BY <2>2, <2>10 DEF vars
  <2> QED
    BY <2>1, <2>3, <2>4, <2>5, <2>6, <2>7, <2>8, <2>9, <2>10 DEF Next, RequestStep, AdminStep
<1> QED
  BY <1>1, <1>2, TypeCorrect, PTL DEF Spec

-----------------------------------------------------------------------------
\* The counter covers every recording that came to its end.  It can be seeded only
\* while nobody has passed the check, so a seed never lands on an increment.
CoverInv ==
  /\ cConsumed # Miss => cConsumed >= InitialConsumed + Cardinality(Settled)
  /\ cConsumed = Miss => incrCopies = 0
  /\ \A r \in Requests :
       /\ cConsumed = Miss => rec[r] = "none" /\ pc[r] \notin {"decide", "send", "record"}
       /\ pc[r] = "seed" \/ seedCopies[r] > 0 => seenConsumed[r] >= InitialConsumed

LEMMA CoverCorrect == ASSUME Benign PROVE Spec => []CoverInv
<1> USE ConstantsAssumption DEF Benign
<1>1. Init => CoverInv
  BY DEF Init, CoverInv
<1>2. ASSUME TypeOK, Stages, LedgerExact, BagInv, CoverInv, [Next]_vars
      PROVE  CoverInv'
  <2>1. /\ IsFiniteSet(Settled) /\ Cardinality(Settled) \in Nat
        /\ IsFiniteSet(Booked) /\ Cardinality(Booked) \in Nat
    BY SetsFinite, FS_CardinalityType
  <2>2. agg["total"] >= InitialConsumed
    BY <1>2, <2>1 DEF LedgerExact
  <2>3. cConsumed = Miss => Cardinality(Settled) = 0
    <3>1. cConsumed = Miss => Settled = {}
      BY <1>2 DEF CoverInv, Settled
    <3> QED
      BY <3>1, FS_EmptySet
  <2>11. ASSUME NEW r \in Requests
         PROVE  /\ Cardinality(Settled \cup {r}) <= Cardinality(Settled) + 1
                /\ IsFiniteSet(Settled \cup {r}) /\ Cardinality(Settled \cup {r}) \in Nat
    <3>1. IsFiniteSet(Settled \cup {r}) /\ Cardinality(Settled \cup {r}) =
                                           IF r \in Settled THEN Cardinality(Settled)
                                                            ELSE Cardinality(Settled) + 1
      BY <2>1, FS_AddElement
    <3> QED
      BY <2>1, <3>1
  <2> USE <1>2, <2>1 DEF TypeOK, CoverInv, postgres, redis, reads, copies, history, Goto, Fault
  <2>4. ASSUME NEW r \in Requests, Check(r)
        PROVE  CoverInv'
    <3>1. ASSUME Settled' = Settled PROVE CoverInv'
      <4>1. CASE CheckQuotaRow(r) \/ QuotaLookupFails(r)
        BY <3>1, <4>1 DEF BagInv, CheckQuotaRow, QuotaLookupFails
      <4>2. CASE GetContracted(r) \/ GetTotalContracted(r)
        BY <3>1, <4>2 DEF GetContracted, GetTotalContracted
      <4>3. CASE GetConsumed(r)
        BY <3>1, <4>3 DEF GetConsumed, Stages, Unread
      <4>4. CASE GetTotalConsumption(r)
        BY <2>2, <3>1, <4>4 DEF GetTotalConsumption, Stages, Unread
      <4>5. CASE SeedBundleConsumed(r) \/ ResendSeed(r)
        BY <2>3, <3>1, <4>5 DEF SeedBundleConsumed, ResendSeed, SetNX
      <4>6. CASE Refuse(r) \/ Admit(r)
        BY <3>1, <4>6 DEF Refuse, Admit
      <4> QED
        BY <2>4, <4>1, <4>2, <4>3, <4>4, <4>5, <4>6 DEF Check
    <3>2. CASE Refuse(r)
      <4>1. Settled' \subseteq Settled
        BY <3>2 DEF Refuse, Settled
      <4>2. Cardinality(Settled') <= Cardinality(Settled) /\ Cardinality(Settled') \in Nat
        BY <4>1, FS_Subset, FS_CardinalityType
      <4> QED
        BY <3>2, <4>2 DEF Refuse
    <3>3. CASE ~Refuse(r)
      BY <2>4, <3>1, <3>3 DEF Settled, Check, CheckQuotaRow, QuotaLookupFails, GetContracted,
                 GetTotalContracted, GetConsumed, GetTotalConsumption, SeedBundleConsumed,
                 ResendSeed, Admit
    <3> QED
      BY <3>2, <3>3
  <2>12. ASSUME NEW r \in Requests, RunSeedCopy(r)
         PROVE  CoverInv'
    <3>1. Settled' = Settled
      BY <2>12 DEF RunSeedCopy, Settled
    <3> QED
      BY <2>3, <2>12, <3>1 DEF RunSeedCopy, SetNX
  <2>13. CASE RunIncrCopy
    <3>1. Settled' = Settled /\ cConsumed # Miss
      BY <2>13 DEF RunIncrCopy, Settled
    <3> QED
      BY <2>13, <3>1 DEF RunIncrCopy, Incr
  <2>5. ASSUME NEW r \in Requests, IncrBundleConsumed(r)
        PROVE  CoverInv'
    <3>1. Settled' \subseteq Settled \cup {r} /\ cConsumed # Miss
      BY <2>5 DEF IncrBundleConsumed, Settled
    <3>2. CASE cConsumed' = cConsumed
      <4>1. Settled' = Settled
        BY <2>5, <3>1, <3>2 DEF IncrBundleConsumed, Incr, Settled
      <4> QED
        BY <2>5, <3>1, <3>2, <4>1 DEF IncrBundleConsumed, Incr
    <3>3. CASE cConsumed' = cConsumed + 1
      <4>1. /\ Cardinality(Settled \cup {r}) <= Cardinality(Settled) + 1
            /\ IsFiniteSet(Settled \cup {r}) /\ Cardinality(Settled \cup {r}) \in Nat
        BY <2>11
      <4>2. Cardinality(Settled') <= Cardinality(Settled \cup {r}) /\ Cardinality(Settled') \in Nat
        BY <3>1, <4>1, FS_Subset, FS_CardinalityType
      <4> QED
        BY <2>5, <3>1, <3>3, <4>1, <4>2 DEF IncrBundleConsumed, Incr
    <3> QED
      BY <2>5, <3>1, <3>2, <3>3 DEF IncrBundleConsumed, Incr
  <2>6. ASSUME cConsumed' = cConsumed, Settled' \subseteq Settled, UNCHANGED copies,
               \A r \in Requests :
                 /\ rec[r] = "none" /\ rec'[r] # "none" => pc[r] \in {"send", "decide"}
                 /\ pc'[r] \in {"decide", "send", "record"} =>
                      pc[r] \in {"decide", "send", "record"}
                 /\ pc'[r] = "seed" => pc[r] = "seed"
                 /\ seenConsumed'[r] = seenConsumed[r]
        PROVE  CoverInv'
    <3>1. Cardinality(Settled') <= Cardinality(Settled) /\ Cardinality(Settled') \in Nat
      BY <2>6, FS_Subset, FS_CardinalityType
    <3> QED
      BY <2>6, <3>1
  <2>7. ASSUME NEW r \in Requests,
               \/ Arrive(r) \/ Serve(r) \/ InsertEvent(r) \/ UpsertMonthlyAggregate(r)
               \/ SetBundleContracted(r)
        PROVE  CoverInv'
    BY <2>6, <2>7 DEF Settled, Arrive, Serve, NoUpstream, Send, Return, InsertEvent,
                      UpsertMonthlyAggregate, SetBundleContracted
  <2>8. CASE AdminStep \/ ExpireContracted \/ EvictConsumed
    BY <2>6, <2>8 DEF Settled, AdminStep, UpdateQuota, AddBundle, InvalidateBundleContracted,
                      ExpireContracted, EvictConsumed
  <2>9. CASE Crash
    BY <2>6, <2>9 DEF Settled, Crash
  <2>10. CASE UNCHANGED vars
    BY <2>6, <2>10 DEF Settled, vars
  <2>14. ASSUME NEW r \in Requests, ResendIncr(r)
         PROVE  CoverInv'
    <3>1. Settled' = Settled /\ cConsumed # Miss
      BY <2>14 DEF ResendIncr, Settled
    <3> QED
      BY <2>14, <3>1 DEF ResendIncr
  <2> QED
    BY <2>4, <2>5, <2>7, <2>8, <2>9, <2>10, <2>12, <2>13, <2>14 DEF Next, RequestStep, RecordUsage
<1> QED
  BY <1>1, <1>2, TypeCorrect, StagesCorrect, LedgerCorrect, BagCorrect, PTL DEF Spec

\* What a request reads as consumed is no less than what was recorded to the end
\* when it read (getOrSeedConsumed against recordUsage and a concurrent seed).
THEOREM SettledSeen == ASSUME Benign PROVE Spec => SettledIsSeen
<1> DEFINE Reading(r) == pc[r] \in {"consumed", "sumConsumed"} /\ pc'[r] \in {"seed", "decide"}
           Enough(r) == seenConsumed'[r] >= InitialConsumed + Cardinality(Settled)
<1>1. ASSUME TypeOK, LedgerExact, CoverInv, [Next]_vars
      PROVE  [\A r \in Requests : Reading(r) => Enough(r)]_vars
  <2>1. /\ Cardinality(Settled) \in Nat /\ Cardinality(Booked) \in Nat
        /\ Cardinality(Settled) <= Cardinality(Booked)
    <3>1. Settled \subseteq Booked
      BY DEF Settled, Booked
    <3> QED
      BY <3>1, SetsFinite, FS_CardinalityType, FS_Subset
  <2>2. agg["total"] >= InitialConsumed + Cardinality(Settled)
    BY <1>1, <2>1, ConstantsAssumption DEF LedgerExact
  <2> USE <1>1 DEF TypeOK, postgres, redis, reads, copies, history, Goto
  <2>3. ASSUME NEW r \in Requests, Check(r)
        PROVE  \A q \in Requests : Reading(q) => GetConsumed(r) \/ GetTotalConsumption(r)
    BY <2>3 DEF Check, CheckQuotaRow, QuotaLookupFails, GetContracted, GetTotalContracted,
                SeedBundleConsumed, ResendSeed, Refuse, Admit
  <2>4. ASSUME NEW r \in Requests, GetConsumed(r)
        PROVE  \A q \in Requests : Reading(q) => Enough(q)
    BY <2>4 DEF GetConsumed, CoverInv
  <2>5. ASSUME NEW r \in Requests, GetTotalConsumption(r), Benign
        PROVE  \A q \in Requests : Reading(q) => Enough(q)
    BY <2>2, <2>5 DEF GetTotalConsumption, Benign, Fault
  <2>6. ASSUME NEW r \in Requests,
               Arrive(r) \/ Serve(r) \/ RecordUsage(r) \/ SetBundleContracted(r) \/ RunSeedCopy(r)
        PROVE  \A q \in Requests : ~Reading(q)
    BY <2>6 DEF Arrive, Serve, NoUpstream, Send, Return, RecordUsage, InsertEvent,
                UpsertMonthlyAggregate, IncrBundleConsumed, ResendIncr,
                SetBundleContracted, RunSeedCopy
  <2>7. CASE AdminStep
    BY <2>7 DEF AdminStep, UpdateQuota, AddBundle, InvalidateBundleContracted
  <2>8. CASE RunIncrCopy \/ ExpireContracted \/ EvictConsumed \/ Crash
    BY <2>8 DEF RunIncrCopy, ExpireContracted, EvictConsumed, Crash
  <2> QED
    BY <2>3, <2>4, <2>5, <2>6, <2>7, <2>8, Benign DEF Next, RequestStep
<1> QED
  BY <1>1, TypeCorrect, LedgerCorrect, CoverCorrect, PTL DEF Spec, SettledIsSeen

-----------------------------------------------------------------------------
\* A bag is overdrawn by fewer stamps than the server holds requests at once, plus
\* those whose recording failed or died in a crash (Process between Exhausted and
\* IncrBundleConsumed): whoever is past the check is settled or still held, so a
\* request that reads fewer stamps than contracted joins MaxInFlight at most.
THEOREM Overshoot == ASSUME Benign PROVE Spec => []OvershootBounded
<1> USE ConstantsAssumption DEF Benign
<1>1. Init => OvershootBounded
  <2>1. Init => Cleared = {}
    BY DEF Init, Cleared
  <2> QED
    BY <2>1 DEF OvershootBounded
<1>2. ASSUME TypeOK, TypeOK', Stages, Stages', LedgerExact, PastTotals, InFlightBounded,
             InFlightBounded', BagInv, CoverInv, OvershootBounded, [Next]_vars
      PROVE  OvershootBounded'
  <2>1. IsFiniteSet(Cleared) /\ Cardinality(Cleared) \in Nat
    BY SetsFinite, FS_CardinalityType
  <2>2. ASSUME Cleared' \subseteq Cleared, contracted' >= contracted
        PROVE  OvershootBounded'
    <3>1. Cardinality(Cleared') <= Cardinality(Cleared) /\ Cardinality(Cleared') \in Nat
      BY <2>1, <2>2, FS_Subset, FS_CardinalityType
    <3>2. Cleared' # {} => Cleared # {}
      BY <2>2
    <3> QED
      BY <1>2, <2>1, <2>2, <3>1, <3>2 DEF OvershootBounded, TypeOK
  <2>3. ASSUME InitialConsumed + Cardinality(Settled) < contracted,
               Settled' = Settled, contracted' = contracted
        PROVE  OvershootBounded'
    <3>1. /\ IsFiniteSet(Settled) /\ Cardinality(Settled) \in Nat
          /\ IsFiniteSet(InFlight') /\ Cardinality(InFlight') \in Nat
          /\ IsFiniteSet(Cleared') /\ Cardinality(Cleared') \in Nat
      <4>1. InFlight' \subseteq Requests /\ Cleared' \subseteq Requests
        BY DEF InFlight, Cleared
      <4> QED
        BY <4>1, SetsFinite, FiniteRequests, FS_Subset, FS_CardinalityType
    <3>2. Cleared' \subseteq Settled \cup InFlight'
      <4>1. Cleared' \subseteq Settled' \cup InFlight'
        BY <1>2 DEF TypeOK, Stages, Early, Unread, Statuses, Cleared, Settled, InFlight, Running,
                    Recording
      <4> QED
        BY <2>3, <4>1
    <3>3. /\ IsFiniteSet(Settled \cup InFlight') /\ Cardinality(Settled \cup InFlight') \in Nat
          /\ Cardinality(Settled \cup InFlight') <= Cardinality(Settled) + Cardinality(InFlight')
      <4>1. /\ IsFiniteSet(Settled \cup InFlight')
            /\ Cardinality(Settled \cup InFlight') =
                 Cardinality(Settled) + Cardinality(InFlight') - Cardinality(Settled \cap InFlight')
        BY <3>1, FS_Union
      <4>2. Cardinality(Settled \cap InFlight') \in Nat
        BY <3>1, FS_Intersection, FS_CardinalityType
      <4>3. Cardinality(Settled \cup InFlight') \in Nat
        BY <4>1, FS_CardinalityType
      <4> QED
        BY <3>1, <4>1, <4>2, <4>3
    <3>4. Cardinality(Cleared') <= Cardinality(Settled \cup InFlight')
      BY <3>2, <3>3, FS_Subset
    <3> QED
      BY <1>2, <2>3, <3>1, <3>3, <3>4 DEF OvershootBounded, InFlightBounded, TypeOK
  <2> USE <1>2 DEF TypeOK, postgres, redis, reads, copies, history, Goto, Fault
  <2>4. ASSUME NEW r \in Requests, GetConsumed(r) \/ GetTotalConsumption(r)
        PROVE  OvershootBounded'
    <3>1. Settled' = Settled /\ contracted' = contracted
      BY <2>4 DEF GetConsumed, GetTotalConsumption, Settled
    <3>2. CASE Cleared' \subseteq Cleared
      BY <2>2, <3>1, <3>2
    <3>3. CASE ~(Cleared' \subseteq Cleared)
      <4>1. seenConsumed'[r] < seenContracted[r] /\ pc'[r] \in {"seed", "decide"}
        BY <2>4, <3>3 DEF GetConsumed, GetTotalConsumption, Cleared
      <4>2. seenContracted[r] <= contracted
        BY DEF PastTotals
      <4>3. /\ Cardinality(Settled) \in Nat /\ Cardinality(Booked) \in Nat
            /\ Cardinality(Settled) <= Cardinality(Booked)
        <5>1. Settled \subseteq Booked
          BY DEF Settled, Booked
        <5> QED
          BY <5>1, SetsFinite, FS_CardinalityType, FS_Subset
      <4>4. seenConsumed'[r] >= InitialConsumed + Cardinality(Settled)
        <5>1. CASE GetConsumed(r)
          BY <4>1, <5>1 DEF GetConsumed, CoverInv
        <5>2. CASE GetTotalConsumption(r)
          BY <4>3, <5>2 DEF GetTotalConsumption, LedgerExact
        <5> QED
          BY <2>4, <5>1, <5>2
      <4>5. InitialConsumed + Cardinality(Settled) < contracted
        BY <4>1, <4>2, <4>3, <4>4
      <4> QED
        BY <2>3, <3>1, <4>5
    <3> QED
      BY <3>2, <3>3
  <2>5. ASSUME NEW r \in Requests, Check(r)
        PROVE  OvershootBounded'
    <3>1. CASE CheckQuotaRow(r) \/ QuotaLookupFails(r)
      <4>1. ~QuotaLookupFails(r)
        BY DEF QuotaLookupFails
      <4>2. pc' = [pc EXCEPT ![r] = "contracted"]
        BY <3>1, <4>1 DEF BagInv, CheckQuotaRow
      <4>3. Cleared' \subseteq Cleared /\ contracted' = contracted
        BY <3>1, <4>1, <4>2 DEF CheckQuotaRow, Cleared
      <4> QED
        BY <2>2, <4>3
    <3>2. CASE GetContracted(r) \/ GetTotalContracted(r)
      BY <2>2, <3>2 DEF GetContracted, GetTotalContracted, Cleared
    <3>3. CASE SeedBundleConsumed(r) \/ ResendSeed(r)
      BY <2>2, <3>3 DEF SeedBundleConsumed, ResendSeed, Cleared
    <3>4. CASE Refuse(r)
      BY <2>2, <3>4 DEF Refuse, Exhausted, Cleared
    <3>5. CASE Admit(r)
      BY <2>2, <3>5 DEF Admit, Exhausted, Cleared, BagInv
    <3> QED
      BY <2>4, <2>5, <3>1, <3>2, <3>3, <3>4, <3>5 DEF Check
  <2>6. ASSUME NEW r \in Requests, Arrive(r)
        PROVE  OvershootBounded'
    BY <2>2, <2>6 DEF Arrive, Cleared
  <2>7. ASSUME NEW r \in Requests, Serve(r)
        PROVE  OvershootBounded'
    <3>1. CASE NoUpstream(r) \/ Return(r)
      BY <2>2, <3>1 DEF NoUpstream, Return, Cleared
    <3>2. ASSUME NEW status \in {"success", "error"}, Send(r, status)
          PROVE  OvershootBounded'
      <4>1. Cleared' \subseteq Cleared
        BY <3>2 DEF Send, Cleared, Stages, Early
      <4>2. contracted' = contracted
        BY <3>2 DEF Send
      <4> QED
        BY <2>2, <4>1, <4>2
    <3> QED
      BY <2>7, <3>1, <3>2 DEF Serve
  <2>8. ASSUME NEW r \in Requests, RecordUsage(r) \/ SetBundleContracted(r) \/ RunSeedCopy(r)
        PROVE  OvershootBounded'
    BY <2>2, <2>8 DEF RecordUsage, InsertEvent, UpsertMonthlyAggregate, IncrBundleConsumed,
                      ResendIncr, SetBundleContracted, RunSeedCopy, Cleared
  <2>9. CASE AdminStep
    BY <2>2, <2>9 DEF AdminStep, UpdateQuota, AddBundle, InvalidateBundleContracted, Cleared
  <2>10. CASE RunIncrCopy \/ ExpireContracted \/ EvictConsumed
    BY <2>2, <2>10 DEF RunIncrCopy, ExpireContracted, EvictConsumed, Cleared
  <2>11. CASE Crash
    BY <2>2, <2>11 DEF Crash, Cleared, Running
  <2>12. CASE UNCHANGED vars
    BY <2>2, <2>12 DEF vars, Cleared
  <2> QED
    BY <2>5, <2>6, <2>7, <2>8, <2>9, <2>10, <2>11, <2>12 DEF Next, RequestStep
<1> QED
  BY <1>1, <1>2, TypeCorrect, StagesCorrect, LedgerCorrect, PastTotalsCorrect, InFlightCorrect,
     BagCorrect, CoverCorrect, PTL DEF Spec
=============================================================================
