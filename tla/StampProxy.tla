----------------------------- MODULE StampProxy -----------------------------
(***************************************************************************)
(* One tenant's stamps: service.Process checks the tenant's bag of stamps, *)
(* calls the upstream TSA and records the use.  A request is a goroutine   *)
(* of the HTTP server; recordUsage and the writes of the contracted total  *)
(* are goroutines it leaves behind.  Every call to Redis or to Postgres is *)
(* a step, so all of them interleave.                                      *)
(*                                                                         *)
(* Abstracted: the tenants are independent (every key and row carries the  *)
(* tenant's id), the months of monthly_usage_aggregates are summed, and    *)
(* tenant:quota is not a variable: Process uses only whether the row       *)
(* exists, a row is never removed while its tenant lives, and the cached   *)
(* copy only spares the SELECT.  The choice of upstream is UpstreamConfig. *)
(*                                                                         *)
(* The Redis client sends a command again when its answer times out or the *)
(* connection breaks, and Redis may run the first copy as well, even after *)
(* the second was answered.  For a SET, a SETNX or a DEL a copy is the     *)
(* same write once more; each INCR adds one.  A crash takes with it what   *)
(* the goroutines had not sent, and not the copies.                        *)
(***************************************************************************)
EXTENDS Integers, FiniteSets

CONSTANTS Requests,           \* the requests that may reach the proxy
          Bundles,            \* the bundles an administrator may still add
          Amounts,            \* the amounts of a bundle
          InitialContracted,  \* SUM(amount) of quota_bundles at the start
          InitialConsumed,    \* SUM(total_requests) at the start
          InitialQuotaRow,    \* tenant_quotas holds a row for the tenant
          MaxInFlight,        \* requests the server holds at once (a bound)
          UsageRecordAsync,   \* cfg.Proxy.UsageRecordAsync
          FaultKinds,         \* the faults that may happen
          MaxFaults,          \* and how many of them (a bound)
          Miss                \* redis.Nil

\* "check": a read or a cache fill of the check fails; "record": a write of
\* recordUsage fails; "invalidate": the DEL after AddBundle fails; "evict":
\* Redis drops the counter (allkeys-lru); "crash": the backend restarts;
\* "resend": the Redis client sends a write again (client.go, MaxRetries).
AllFaults == {"check", "record", "invalidate", "evict", "crash", "resend"}

ASSUME ConstantsAssumption ==
  /\ InitialContracted \in Nat
  /\ InitialConsumed \in Nat
  /\ Amounts \subseteq Nat \ {0}
  /\ InitialQuotaRow \in BOOLEAN
  /\ MaxInFlight \in Nat \ {0}
  /\ UsageRecordAsync \in BOOLEAN
  /\ FaultKinds \subseteq AllFaults
  /\ MaxFaults \in Nat
  /\ Miss \notin Nat

ASSUME FiniteRequests == IsFiniteSet(Requests)

VARIABLES
  quotaRow,       \* the row of tenant_quotas exists
  contracted,     \* SUM(amount) of quota_bundles
  agg,            \* monthly_usage_aggregates, summed over the months
  events,         \* requests with a row in usage_events
  cContracted,    \* tenant:bundle:contracted, or Miss
  cConsumed,      \* tenant:bundle:consumed, or Miss
  pc,             \* where each request is in Process
  seenContracted, \* Process: contracted
  seenConsumed,   \* Process: consumed
  outcome,        \* Process: usageStatus
  answer,         \* what the client was told
  rec,            \* where each request's recordUsage is
  setC,           \* value a SetBundleContracted goroutine still has to write
  inv,            \* where each bundle's AddBundle is
  faults,         \* faults so far
  seedCopies,     \* SETNXs of each request Redis may still run a second time
  incrCopies,     \* INCRs Redis may still run that no goroutine waits for
  unheard,        \* those it ran since it created the counter (history)
  allUnheard,     \* and in all (history)
  announced       \* the contracted total that was last made known (history)

vars == <<quotaRow, contracted, agg, events, cContracted, cConsumed, pc,
          seenContracted, seenConsumed, outcome, answer, rec, setC, inv, faults,
          seedCopies, incrCopies, unheard, allUnheard, announced>>

postgres == <<quotaRow, contracted, agg, events>>
redis    == <<cContracted, cConsumed>>
reads    == <<seenContracted, seenConsumed>>
copies   == <<seedCopies, incrCopies>>
history  == <<unheard, allUnheard, announced>>

Statuses == {"success", "error", "rejected"}
Columns  == Statuses \cup {"total"}
Answers  == {"none", "stamp", "quota_exceeded", "unavailable", "internal"}

\* A request's goroutine is alive, in Process or in recordUsage.
Running(r)   == pc[r] \notin {"idle", "done", "dead"}
Recording(r) == rec[r] \in {"event", "upsert", "incr"}
InFlight     == {r \in Requests : Running(r) \/ Recording(r)}

Fault(kind) == /\ kind \in FaultKinds
               /\ faults < MaxFaults
               /\ faults' = faults + 1

Init ==
  /\ quotaRow = InitialQuotaRow
  /\ contracted = InitialContracted
  /\ agg = [c \in Columns |-> IF c \in {"total", "success"} THEN InitialConsumed ELSE 0]
  /\ events = {}
  /\ cContracted = Miss
  /\ cConsumed = Miss
  /\ pc = [r \in Requests |-> "idle"]
  /\ seenContracted = [r \in Requests |-> 0]
  /\ seenConsumed = [r \in Requests |-> 0]
  /\ outcome = [r \in Requests |-> "none"]
  /\ answer = [r \in Requests |-> "none"]
  /\ rec = [r \in Requests |-> "none"]
  /\ setC = [r \in Requests |-> Miss]
  /\ inv = [b \in Bundles |-> "none"]
  /\ faults = 0
  /\ seedCopies = [r \in Requests |-> 0]
  /\ incrCopies = 0
  /\ unheard = 0
  /\ allUnheard = 0
  /\ announced = InitialContracted

-----------------------------------------------------------------------------
\* Process: the check of the bag.

Goto(r, place) == pc' = [pc EXCEPT ![r] = place]

\* Handle validated the request and calls Process.
Arrive(r) ==
  /\ pc[r] = "idle"
  /\ Cardinality(InFlight) < MaxInFlight
  /\ Goto(r, "quota")
  /\ UNCHANGED <<postgres, redis, reads, outcome, answer, rec, setC, inv, faults,
                 copies, history>>

\* Without a row of tenant_quotas there is no check at all.
CheckQuotaRow(r) ==
  /\ pc[r] = "quota"
  /\ Goto(r, IF quotaRow THEN "contracted" ELSE "send")
  /\ UNCHANGED <<postgres, redis, reads, outcome, answer, rec, setC, inv, faults,
                 copies, history>>

QuotaLookupFails(r) ==
  /\ pc[r] = "quota"
  /\ Fault("check")
  /\ Goto(r, "done")
  /\ outcome' = [outcome EXCEPT ![r] = "unserved"]
  /\ answer' = [answer EXCEPT ![r] = "internal"]
  /\ UNCHANGED <<postgres, redis, reads, rec, setC, inv, copies, history>>

\* getCachedContracted: GET, then SELECT SUM(amount) and a goroutine that
\* writes the key.  A failing SELECT leaves the total at 0.
GetContracted(r) ==
  /\ pc[r] = "contracted"
  /\ \/ /\ cContracted # Miss
        /\ seenContracted' = [seenContracted EXCEPT ![r] = cContracted]
        /\ Goto(r, "consumed")
        /\ UNCHANGED faults
     \/ /\ IF cContracted = Miss THEN UNCHANGED faults ELSE Fault("check")
        /\ Goto(r, "sumContracted")
        /\ UNCHANGED seenContracted
  /\ UNCHANGED <<postgres, redis, seenConsumed, outcome, answer, rec, setC, inv,
                 copies, history>>

GetTotalContracted(r) ==
  /\ pc[r] = "sumContracted"
  /\ \/ /\ seenContracted' = [seenContracted EXCEPT ![r] = contracted]
        /\ setC' = [setC EXCEPT ![r] = contracted]
        /\ UNCHANGED faults
     \/ /\ Fault("check")
        /\ seenContracted' = [seenContracted EXCEPT ![r] = 0]
        /\ UNCHANGED setC
  /\ Goto(r, "consumed")
  /\ UNCHANGED <<postgres, redis, seenConsumed, outcome, answer, rec, inv, copies, history>>

SetBundleContracted(r) ==
  /\ setC[r] # Miss
  /\ \/ /\ cContracted' = setC[r]
        /\ setC' = [setC EXCEPT ![r] = Miss]
        /\ UNCHANGED faults
     \/ /\ Fault("check")
        /\ setC' = [setC EXCEPT ![r] = Miss]
        /\ UNCHANGED cContracted
     \/ Fault("resend") /\ cContracted' = setC[r] /\ UNCHANGED setC
  /\ UNCHANGED <<postgres, cConsumed, pc, reads, outcome, answer, rec, inv,
                 copies, history>>

\* getOrSeedConsumed: GET, then SELECT SUM(total_requests) and SETNX.
GetConsumed(r) ==
  /\ pc[r] = "consumed"
  /\ \/ /\ cConsumed # Miss
        /\ seenConsumed' = [seenConsumed EXCEPT ![r] = cConsumed]
        /\ Goto(r, "decide")
        /\ UNCHANGED faults
     \/ /\ IF cConsumed = Miss THEN UNCHANGED faults ELSE Fault("check")
        /\ Goto(r, "sumConsumed")
        /\ UNCHANGED seenConsumed
  /\ UNCHANGED <<postgres, redis, seenContracted, outcome, answer, rec, setC, inv,
                 copies, history>>

GetTotalConsumption(r) ==
  /\ pc[r] = "sumConsumed"
  /\ \/ /\ seenConsumed' = [seenConsumed EXCEPT ![r] = agg["total"]]
        /\ Goto(r, "seed")
        /\ UNCHANGED faults
     \/ /\ Fault("check")
        /\ seenConsumed' = [seenConsumed EXCEPT ![r] = 0]
        /\ Goto(r, "decide")
  /\ UNCHANGED <<postgres, redis, seenContracted, outcome, answer, rec, setC, inv,
                 copies, history>>

\* Mutant: SET for SETNX.
SetBundleConsumed(r) ==
  /\ pc[r] = "seed"
  /\ cConsumed' = seenConsumed[r]
  /\ Goto(r, "decide")
  /\ UNCHANGED <<postgres, cContracted, reads, outcome, answer, rec, setC, inv, faults,
                 copies, history>>

SetNX(v) == cConsumed' = IF cConsumed = Miss THEN v ELSE cConsumed

\* A SETNX the client gave up may still be run.
SeedBundleConsumed(r) ==
  /\ pc[r] = "seed"
  /\ \/ /\ SetNX(seenConsumed[r])
        /\ UNCHANGED <<faults, seedCopies>>
     \/ /\ Fault("check")
        /\ seedCopies' \in {seedCopies, [seedCopies EXCEPT ![r] = @ + 1]}
        /\ UNCHANGED cConsumed
  /\ Goto(r, "decide")
  /\ UNCHANGED <<postgres, cContracted, reads, outcome, answer, rec, setC, inv,
                 incrCopies, history>>

\* The SETNX gets no answer and is sent again.
ResendSeed(r) ==
  /\ pc[r] = "seed"
  /\ Fault("resend")
  /\ seedCopies' = [seedCopies EXCEPT ![r] = @ + 1]
  /\ UNCHANGED <<postgres, redis, pc, reads, outcome, answer, rec, setC, inv,
                 incrCopies, history>>

RunSeedCopy(r) ==
  /\ seedCopies[r] > 0
  /\ SetNX(seenConsumed[r])
  /\ seedCopies' = [seedCopies EXCEPT ![r] = @ - 1]
  /\ UNCHANGED <<postgres, cContracted, pc, reads, outcome, answer, rec, setC, inv, faults,
                 incrCopies, history>>

Exhausted(r) == seenConsumed[r] >= seenContracted[r] /\ seenContracted[r] > 0

\* The refusal is recorded by a goroutine whatever UsageRecordAsync says.
Refuse(r) ==
  /\ pc[r] = "decide"
  /\ Exhausted(r)
  /\ Goto(r, "done")
  /\ outcome' = [outcome EXCEPT ![r] = "rejected"]
  /\ answer' = [answer EXCEPT ![r] = "quota_exceeded"]
  /\ rec' = [rec EXCEPT ![r] = "event"]
  /\ UNCHANGED <<postgres, redis, reads, setC, inv, faults, copies, history>>

Admit(r) ==
  /\ pc[r] = "decide"
  /\ ~Exhausted(r)
  /\ Goto(r, "send")
  /\ UNCHANGED <<postgres, redis, reads, outcome, answer, rec, setC, inv, faults,
                 copies, history>>

-----------------------------------------------------------------------------
\* Process: the upstream call and the answer.

\* No default upstream in Postgres and none in the .env.
NoUpstream(r) ==
  /\ pc[r] = "send"
  /\ Goto(r, "done")
  /\ outcome' = [outcome EXCEPT ![r] = "unserved"]
  /\ answer' = [answer EXCEPT ![r] = "unavailable"]
  /\ UNCHANGED <<postgres, redis, reads, rec, setC, inv, faults, copies, history>>

AnswerOf(status) == IF status = "success" THEN "stamp" ELSE "unavailable"

\* upstream.Send returned.  Anything below 500 is a success, a network error or
\* a 5xx an error; recordUsage starts, and in async mode the client is answered.
Send(r, status) ==
  /\ pc[r] = "send"
  /\ outcome' = [outcome EXCEPT ![r] = status]
  /\ rec' = [rec EXCEPT ![r] = "event"]
  /\ IF UsageRecordAsync
       THEN /\ Goto(r, "done")
            /\ answer' = [answer EXCEPT ![r] = AnswerOf(status)]
       ELSE /\ Goto(r, "record")
            /\ UNCHANGED answer
  /\ UNCHANGED <<postgres, redis, reads, setC, inv, faults, copies, history>>

\* Mutant: Process waits for the counter, which a failed recording never reaches.
ReturnWhenCounted(r) ==
  /\ pc[r] = "record"
  /\ rec[r] = "done"
  /\ Goto(r, "done")
  /\ answer' = [answer EXCEPT ![r] = AnswerOf(outcome[r])]
  /\ UNCHANGED <<postgres, redis, reads, outcome, rec, setC, inv, faults, copies, history>>

\* In sync mode the answer waits for recordUsage to return.
Return(r) ==
  /\ pc[r] = "record"
  /\ ~Recording(r)
  /\ Goto(r, "done")
  /\ answer' = [answer EXCEPT ![r] = AnswerOf(outcome[r])]
  /\ UNCHANGED <<postgres, redis, reads, outcome, rec, setC, inv, faults, copies, history>>

-----------------------------------------------------------------------------
\* recordUsage.

\* A failing INSERT is logged and the recording goes on.
InsertEvent(r) ==
  /\ rec[r] = "event"
  /\ \/ events' = events \cup {r} /\ UNCHANGED faults
     \/ Fault("record") /\ UNCHANGED events
  /\ rec' = [rec EXCEPT ![r] = "upsert"]
  /\ UNCHANGED <<quotaRow, contracted, agg, redis, pc, reads, outcome, answer, setC, inv,
                 copies, history>>

\* Mutant: a rejected request is not added to the total.
ChargeServedOnly(status) ==
  [c \in Columns |-> IF c = status \/ (c = "total" /\ status # "rejected")
                     THEN agg[c] + 1 ELSE agg[c]]

\* One row of one month: one more request, in the column of its status.
Charge(status) == [c \in Columns |-> IF c \in {"total", status} THEN agg[c] + 1 ELSE agg[c]]

\* Mutant: the counter is incremented after a failed UPSERT too.
UpsertThenAlwaysIncr(r) ==
  /\ rec[r] = "upsert"
  /\ \/ agg' = Charge(outcome[r]) /\ UNCHANGED faults
     \/ Fault("record") /\ UNCHANGED agg
  /\ rec' = [rec EXCEPT ![r] = "incr"]
  /\ UNCHANGED <<quotaRow, contracted, events, redis, pc, reads, outcome, answer, setC, inv,
                 copies, history>>

\* An UPSERT that reports an error ends the recording, and the counter is not
\* touched; the row may have been written all the same (the answer was lost).
UpsertMonthlyAggregate(r) ==
  /\ rec[r] = "upsert"
  /\ \/ /\ agg' = Charge(outcome[r])
        /\ rec' = [rec EXCEPT ![r] = "incr"]
        /\ UNCHANGED faults
     \/ /\ Fault("record")
        /\ \/ rec' = [rec EXCEPT ![r] = "lost"] /\ UNCHANGED agg
           \/ rec' = [rec EXCEPT ![r] = "uncounted"] /\ agg' = Charge(outcome[r])
  /\ UNCHANGED <<quotaRow, contracted, events, redis, pc, reads, outcome, answer, setC, inv,
                 copies, history>>

\* Mutant: DECR for INCR.
DecrBundleConsumed(r) ==
  /\ rec[r] = "incr"
  /\ cConsumed' = (IF cConsumed = Miss THEN 0 ELSE cConsumed) - 1
  /\ rec' = [rec EXCEPT ![r] = "done"]
  /\ UNCHANGED <<postgres, cContracted, pc, reads, outcome, answer, setC, inv, faults,
                 copies, history>>

\* INCR creates a missing key at 0 and leaves it at 1.
Incr == cConsumed' = (IF cConsumed = Miss THEN 0 ELSE cConsumed) + 1

\* An INCR the client gave up may still be run.
IncrBundleConsumed(r) ==
  /\ rec[r] = "incr"
  /\ \/ /\ Incr
        /\ rec' = [rec EXCEPT ![r] = "done"]
        /\ UNCHANGED <<faults, incrCopies>>
     \/ /\ Fault("record")
        /\ rec' = [rec EXCEPT ![r] = "uncounted"]
        /\ incrCopies' \in {incrCopies, incrCopies + 1}
        /\ UNCHANGED cConsumed
  /\ UNCHANGED <<postgres, cContracted, pc, reads, outcome, answer, setC, inv,
                 seedCopies, history>>

\* The INCR gets no answer and is sent again.
ResendIncr(r) ==
  /\ rec[r] = "incr"
  /\ Fault("resend")
  /\ incrCopies' = incrCopies + 1
  /\ UNCHANGED <<postgres, redis, pc, reads, outcome, answer, rec, setC, inv,
                 seedCopies, history>>

\* Redis runs an INCR whose client is gone, before or after the one it answers.
RunIncrCopy ==
  /\ incrCopies > 0
  /\ Incr
  /\ incrCopies' = incrCopies - 1
  /\ unheard' = unheard + 1
  /\ allUnheard' = allUnheard + 1
  /\ UNCHANGED <<postgres, cContracted, pc, reads, outcome, answer, rec, setC, inv, faults,
                 seedCopies, announced>>

-----------------------------------------------------------------------------
\* The administrator, Redis and the process itself.

\* QuotasHandler.Update: the only writer of tenant_quotas.
UpdateQuota ==
  /\ ~quotaRow
  /\ quotaRow' = TRUE
  /\ UNCHANGED <<contracted, agg, events, redis, pc, reads, outcome, answer, rec, setC, inv, faults,
                 copies, history>>

\* QuotasHandler.AddBundle: the row, and a goroutine that deletes the cached total.
AddBundle(b, amount) ==
  /\ inv[b] = "none"
  /\ contracted' = contracted + amount
  /\ inv' = [inv EXCEPT ![b] = "pending"]
  /\ UNCHANGED <<quotaRow, agg, events, redis, pc, reads, outcome, answer, rec, setC, faults,
                 copies, history>>

\* The key is gone, and no SET on its way carries less than the contracted total.
Announce == announced' = IF \E r \in Requests : setC[r] # Miss /\ setC[r] < contracted
                         THEN announced ELSE contracted

\* Mutant: AddBundle deletes the counter too.
InvalidateBothTotals(b) ==
  /\ inv[b] = "pending"
  /\ cContracted' = Miss /\ cConsumed' = Miss
  /\ inv' = [inv EXCEPT ![b] = "done"]
  /\ Announce
  /\ UNCHANGED <<postgres, pc, reads, outcome, answer, rec, setC, faults,
                 copies, unheard, allUnheard>>

\* Mutant: AddBundle deletes the key of the consumption.
InvalidateWrongKey(b) ==
  /\ inv[b] = "pending"
  /\ cConsumed' = Miss
  /\ inv' = [inv EXCEPT ![b] = "done"]
  /\ Announce
  /\ UNCHANGED <<postgres, cContracted, pc, reads, outcome, answer, rec, setC, faults,
                 copies, unheard, allUnheard>>

InvalidateBundleContracted(b) ==
  /\ inv[b] = "pending"
  /\ \/ /\ cContracted' = Miss
        /\ Announce
        /\ \/ inv' = [inv EXCEPT ![b] = "done"] /\ UNCHANGED faults
           \/ Fault("resend") /\ UNCHANGED inv
     \/ /\ Fault("invalidate")
        /\ inv' = [inv EXCEPT ![b] = "done"]
        /\ UNCHANGED <<cContracted, announced>>
  /\ UNCHANGED <<postgres, cConsumed, pc, reads, outcome, answer, rec, setC,
                 copies, unheard, allUnheard>>

\* Mutant: the key of the contracted total has no TTL.
ContractedForever == FALSE /\ UNCHANGED vars

\* The key of the contracted total lives five minutes.
ExpireContracted ==
  /\ cContracted # Miss
  /\ cContracted' = Miss
  /\ Announce
  /\ UNCHANGED <<postgres, cConsumed, pc, reads, outcome, answer, rec, setC, inv, faults,
                 copies, unheard, allUnheard>>

\* The counter has no TTL, but Redis evicts any key when its memory is full.
EvictConsumed ==
  /\ cConsumed # Miss
  /\ Fault("evict")
  /\ cConsumed' = Miss
  /\ unheard' = 0
  /\ UNCHANGED <<postgres, cContracted, pc, reads, outcome, answer, rec, setC, inv,
                 copies, allUnheard, announced>>

\* Mutant: a restart resumes the recording from the upsert.
CrashAndReplay ==
  /\ Fault("crash")
  /\ pc' = [r \in Requests |-> IF Running(r) THEN "dead" ELSE pc[r]]
  /\ rec' = [r \in Requests |-> IF rec[r] = "incr" THEN "upsert" ELSE rec[r]]
  /\ setC' = [r \in Requests |-> Miss]
  /\ inv' = [b \in Bundles |-> IF inv[b] = "pending" THEN "done" ELSE inv[b]]
  /\ UNCHANGED <<postgres, redis, reads, outcome, answer, copies, history>>

\* The backend dies with every goroutine it runs; both stores survive.
Crash ==
  /\ Fault("crash")
  /\ pc' = [r \in Requests |-> IF Running(r) THEN "dead" ELSE pc[r]]
  /\ rec' = [r \in Requests |-> IF rec[r] \in {"event", "upsert"} THEN "lost"
                                ELSE IF rec[r] = "incr" THEN "uncounted" ELSE rec[r]]
  /\ setC' = [r \in Requests |-> Miss]
  /\ inv' = [b \in Bundles |-> IF inv[b] = "pending" THEN "done" ELSE inv[b]]
  /\ UNCHANGED <<postgres, redis, reads, outcome, answer, copies, history>>

-----------------------------------------------------------------------------
Check(r) == \/ CheckQuotaRow(r) \/ QuotaLookupFails(r)
            \/ GetContracted(r) \/ GetTotalContracted(r)
            \/ GetConsumed(r) \/ GetTotalConsumption(r)
            \/ SeedBundleConsumed(r) \/ ResendSeed(r)
            \/ Refuse(r) \/ Admit(r)

Serve(r) == \/ NoUpstream(r)
            \/ \E status \in {"success", "error"} : Send(r, status)
            \/ Return(r)

RecordUsage(r) == \/ InsertEvent(r) \/ UpsertMonthlyAggregate(r)
                  \/ IncrBundleConsumed(r) \/ ResendIncr(r)

RequestStep(r) == \/ Arrive(r) \/ Check(r) \/ Serve(r) \/ RecordUsage(r)
                  \/ SetBundleContracted(r) \/ RunSeedCopy(r)

AdminStep == \/ UpdateQuota
             \/ \E b \in Bundles : \/ \E amount \in Amounts : AddBundle(b, amount)
                                   \/ InvalidateBundleContracted(b)

Next == \/ \E r \in Requests : RequestStep(r)
        \/ AdminStep
        \/ RunIncrCopy \/ ExpireContracted \/ EvictConsumed \/ Crash

Spec == Init /\ [][Next]_vars

\* The Go scheduler runs every goroutine that can run, and Redis expires keys.
\* Requests, administrators and faults owe nothing.
Fairness ==
  /\ \A r \in Requests : /\ WF_vars(Check(r)) /\ WF_vars(Serve(r))
                         /\ WF_vars(RecordUsage(r)) /\ WF_vars(SetBundleContracted(r))
  /\ \A b \in Bundles : WF_vars(InvalidateBundleContracted(b))
  /\ WF_vars(ExpireContracted)

FairSpec == Spec /\ Fairness

-----------------------------------------------------------------------------
\* What the proxy promises.

Booked  == {r \in Requests : rec[r] \in {"incr", "uncounted", "done"}}
Pending == {r \in Requests : rec[r] = "incr"}
Settled == {r \in Requests : rec[r] = "done"}
With(status) == {r \in Booked : outcome[r] = status}

Places == {"idle", "quota", "contracted", "sumContracted", "consumed", "sumConsumed",
           "seed", "decide", "send", "record", "done", "dead"}

TypeOK ==
  /\ quotaRow \in BOOLEAN
  /\ contracted \in Nat
  /\ agg \in [Columns -> Nat]
  /\ events \subseteq Requests
  /\ cContracted \in Nat \cup {Miss}
  /\ cConsumed \in Nat \cup {Miss}
  /\ pc \in [Requests -> Places]
  /\ seenContracted \in [Requests -> Nat]
  /\ seenConsumed \in [Requests -> Nat]
  /\ outcome \in [Requests -> Statuses \cup {"none", "unserved"}]
  /\ answer \in [Requests -> Answers]
  /\ rec \in [Requests -> {"none", "event", "upsert", "incr", "done", "lost", "uncounted"}]
  /\ setC \in [Requests -> Nat \cup {Miss}]
  /\ inv \in [Bundles -> {"none", "pending", "done"}]
  /\ faults \in Nat
  /\ seedCopies \in [Requests -> Nat]
  /\ incrCopies \in Nat
  /\ unheard \in Nat
  /\ allUnheard \in Nat
  /\ announced \in Nat

\* The monthly aggregates are exact under every interleaving and fault: they grew
\* by one for each request whose upsert took place, in the column of that
\* request's own status, and the total is the sum of the columns
\* (UpsertMonthlyAggregate is the only writer, once for each recordUsage).
LedgerExact ==
  /\ agg["total"] = InitialConsumed + Cardinality(Booked)
  /\ agg["success"] = InitialConsumed + Cardinality(With("success"))
  /\ agg["error"] = Cardinality(With("error"))
  /\ agg["rejected"] = Cardinality(With("rejected"))

\* The proxy keeps the promise of BagLedger: one outcome for a request, a client
\* told nothing else, and one booking at most, whatever crashes or fails.
Ledger == INSTANCE BagLedger WITH OpeningBalance <- InitialConsumed, told <- answer,
                                  booked <- Booked, ledger <- agg
ImplementsBagLedger == Ledger!Spec

\* The cached counter may run ahead of Postgres for two reasons, a seed read after
\* an upsert whose INCR is still to come and an INCR the Redis client sent again;
\* its lead is less than the requests the server holds plus the INCRs nobody
\* waited for that Redis ran since it created the key.  The seeds' leads never add
\* up, over any sequence of evictions, failures and restarts; the copies' leads do,
\* until the counter is dropped, as the key has no TTL.
CounterLeadBounded ==
  cConsumed # Miss =>
    cConsumed + Cardinality(Pending) <= agg["total"] + MaxInFlight - 1 + unheard

\* A refusal may come too early because of that lead, and then within the last
\* MaxInFlight - 1 stamps of the bag the request saw, a bag that was contracted,
\* plus one stamp for each INCR that was run and not waited for.
RefusalJustified ==
  \A r \in Requests : outcome[r] = "rejected" =>
    /\ 0 < seenContracted[r] /\ seenContracted[r] <= contracted
    /\ seenContracted[r] <= agg["total"] + MaxInFlight - 1 + allUnheard

\* Once the DEL after AddBundle has run (or the key expired) with no older total on
\* its way to Redis, no request compares its consumption with less than the total
\* of that moment: it reads that one or a later one, or 0 when its SELECT fails,
\* whichever goroutines write the key in whatever order (service.go:350).
PurchaseSeen ==
  [][\A r \in Requests : pc[r] \in {"contracted", "sumContracted"} /\ pc'[r] = "consumed"
        => seenContracted'[r] = 0 \/ seenContracted'[r] >= announced]_vars

\* Requests past the check, or about to pass it, whose charge is not lost.
Cleared ==
  {r \in Requests :
     /\ \/ pc[r] \in {"seed", "decide"} /\ seenConsumed[r] < seenContracted[r]
        \/ pc[r] = "send"
        \/ outcome[r] \in {"success", "error"}
     /\ rec[r] \notin {"lost", "uncounted"}}

\* The check reads and the charge comes later, so a bag is overdrawn; with a quota
\* row, a bag, and a check whose reads do not fail, by fewer stamps than the server
\* holds requests at once, plus those whose recording failed or died in a crash.
OvershootBounded ==
  Cleared # {} => InitialConsumed + Cardinality(Cleared) <= contracted + MaxInFlight - 1

\* What a request reads as consumed is never less than what had been recorded to
\* the end (upsert and INCR) when it read it: the counter is never seeded over, or
\* behind, an increment.
SettledIsSeen ==
  [][\A r \in Requests : pc[r] \in {"consumed", "sumConsumed"} /\ pc'[r] \in {"seed", "decide"}
        => seenConsumed'[r] >= InitialConsumed + Cardinality(Settled)]_vars

\* With no crash, each request the upstream answered, or the quota refused, comes
\* to the end of recordUsage and its client is answered: no order of goroutines
\* leaves one waiting.
EveryOutcomeRecorded ==
  \A r \in Requests : pc[r] = "quota" ~>
     /\ pc[r] = "done" /\ answer[r] # "none"
     /\ outcome[r] \in Statuses => rec[r] \in {"done", "lost", "uncounted"}

\* A late goroutine may write a total read before AddBundle over its invalidation,
\* and the invalidation itself may fail; the key's TTL still brings the cached
\* total to the contracted one for good.
ContractedHeals == <>[](cContracted \in {Miss, contracted})

\* service.go:99: "Si consumido >= contratado -> rechaza (sin excepciones)".
NoAdmissionOnceConsumed ==
  [][\A r \in Requests : pc[r] = "decide" /\ pc'[r] = "send"
        => ~(contracted > 0 /\ agg["total"] >= contracted)]_vars

\* service.go:315-318: better that the cache lags than that it "quede adelantado y
\* bloquee sellos que si deberian emitirse".
CounterNeverAhead == cConsumed # Miss => cConsumed <= agg["total"]

\* cache.go:240-244: a key that INCR created at 1 "se autocorrige en el siguiente
\* ciclo de lectura": once a request has read the counter with no other request
\* around, the counter no longer lags behind Postgres.
ReadCorrectsCounter ==
  [][\A r \in Requests : pc[r] = "consumed" /\ pc'[r] = "decide" /\ InFlight = {r}
        => cConsumed' >= agg["total"]]_vars
=============================================================================
