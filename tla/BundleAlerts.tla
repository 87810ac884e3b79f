---------------------------- MODULE BundleAlerts ----------------------------
(***************************************************************************)
(* The alerts of one tenant's bundles: each recorded request may start a   *)
(* goroutine checkBundleAlerts, which a key of Redis lets run once a       *)
(* minute.  It spreads the consumption over the bundles, first in first    *)
(* out, and mails whoever must know that a bundle reached its threshold,   *)
(* once for a bundle and a threshold if nothing goes wrong.                *)
(*                                                                         *)
(* Abstracted: the letter is the pair of its bundle and its threshold; the *)
(* addresses are one fact, whether there are any.                          *)
(***************************************************************************)
EXTENDS Integers, Sequences, FiniteSets

CONSTANTS Checks,       \* goroutines of checkBundleAlerts at once (a bound)
          Amounts,      \* amounts of a bundle
          Thresholds,   \* alert_threshold_percent
          Off,          \* its NULL
          MaxBundles,   \* bundles the tenant buys (a bound)
          MaxConsumed,  \* consumption beyond which the rest is not counted
          MaxUpdates,   \* changes of a threshold (a bound)
          FaultKinds, MaxFaults

\* "redis": an answer about the throttle is lost; "query": a SELECT fails; "mail": the
\* call to the mail service reports an error; "record": the INSERT in the log
\* fails; "crash": the backend restarts.
AllFaults == {"redis", "query", "mail", "record", "crash"}

ASSUME ConstantsAssumption ==
  /\ IsFiniteSet(Checks)
  /\ Amounts \subseteq Nat \ {0}
  /\ Thresholds \subseteq 1..99
  /\ Off \notin Thresholds
  /\ MaxBundles \in Nat /\ MaxConsumed \in Nat /\ MaxUpdates \in Nat
  /\ FaultKinds \subseteq AllFaults
  /\ MaxFaults \in Nat

\* Consumption is counted up to MaxConsumed: beyond the sum of the bundles it
\* changes no bundle's share.
ASSUME Saturation == \A a \in Amounts : MaxBundles * a <= MaxConsumed

VARIABLES
  bundles,    \* quota_bundles in the order of contracted_at
  consumed,   \* SUM(total_requests) of monthly_usage_aggregates
  recipients, \* the tenant has a contact or alert address
  log,        \* bundle_notification_log: pairs <<bundle, threshold>>
  copies,     \* letters the mail service delivered, for each pair
  throttle,   \* notify:check:<tenant> is set
  place,      \* where each check is
  total,      \* GetBundlesForAlertCheck: totalConsumed
  due,        \* the letters a check has still to see to
  updates,    \* changes of a threshold so far
  faults      \* faults so far

vars == <<bundles, consumed, recipients, log, copies, throttle, place, total, due,
          updates, faults>>

postgres == <<bundles, consumed, recipients, log>>

Numbers == 1..MaxBundles
Letters == Numbers \X Thresholds

Fault(kind) == /\ kind \in FaultKinds
               /\ faults < MaxFaults
               /\ faults' = faults + 1

Init ==
  /\ bundles = << >>
  /\ consumed = 0
  /\ recipients \in BOOLEAN
  /\ log = {}
  /\ copies = [l \in Letters |-> 0]
  /\ throttle = FALSE
  /\ place = [c \in Checks |-> "idle"]
  /\ total = [c \in Checks |-> 0]
  /\ due = [c \in Checks |-> {}]
  /\ updates = 0
  /\ faults = 0

-----------------------------------------------------------------------------
\* First in, first out.

Least(a, b) == IF a <= b THEN a ELSE b

\* What is left of the consumption before each of the amounts.
Remaining(amounts, all) ==
  LET left[i \in DOMAIN amounts] ==
        IF i = 1 THEN all ELSE left[i - 1] - Least(left[i - 1], amounts[i - 1])
  IN  left

\* Mutant: what a bundle takes is not subtracted from the rest.
FifoNoCarry(amounts, all) == [i \in DOMAIN amounts |-> Least(all, amounts[i])]

\* The share of each amount: the loop of both queries.
Fifo(amounts, all) ==
  [i \in DOMAIN amounts |-> Least(Remaining(amounts, all)[i], amounts[i])]

Bought == 1..Len(bundles)

Watched(i) == bundles[i].threshold # Off

\* Mutant: ORDER BY contracted_at DESC.
NewestFirst(all) ==
  LET mirror(i) == Len(bundles) + 1 - i
      amounts   == [i \in Bought |->
                      IF Watched(mirror(i)) THEN bundles[mirror(i)].amount ELSE 0]
  IN  [i \in Bought |-> Fifo(amounts, all)[mirror(i)]]

\* WHERE alert_threshold_percent IS NOT NULL ORDER BY contracted_at ASC: a bundle
\* that the query leaves out takes nothing from what remains.
WatchedShares(all) ==
  Fifo([i \in Bought |-> IF Watched(i) THEN bundles[i].amount ELSE 0], all)

\* The percentage is an integer division.
Reached(amount, share, threshold) == (share * 100) \div amount >= threshold

\* The letters about the bundles whose share has reached their threshold.
DueNow(all) ==
  {<<i, bundles[i].threshold>> :
     i \in {j \in Bought :
              /\ Watched(j)
              /\ Reached(bundles[j].amount, WatchedShares(all)[j], bundles[j].threshold)}}

-----------------------------------------------------------------------------
\* The life of a check.

Goto(c, p) == place' = [place EXCEPT ![c] = p]

\* The loop takes the bundles in their order.
First(letters) == CHOOSE l \in letters : \A k \in letters : l[1] <= k[1]

\* The next bundle of the loop, or the end of the check.
NextBundle(c) == /\ due' = [due EXCEPT ![c] = @ \ {First(@)}]
                 /\ Goto(c, IF due'[c] = {} THEN "idle" ELSE "look")

\* recordUsage charged a request and started a check.
Stamp(c) ==
  /\ place[c] = "idle"
  /\ consumed' = Least(consumed + 1, MaxConsumed)
  /\ Goto(c, "throttle")
  /\ UNCHANGED <<bundles, recipients, log, copies, throttle, total, due, updates, faults>>

\* SET NX with 60 seconds.  An error lets the check run; a SET NX that was executed
\* but not heard of, and is sent again by the client of Redis (client.go), finds the
\* key and ends it.
TryAcquireThrottle(c) ==
  /\ place[c] = "throttle"
  /\ \/ throttle' = TRUE /\ Goto(c, IF throttle THEN "idle" ELSE "recipients") /\ UNCHANGED faults
     \/ Fault("redis") /\ throttle' \in {throttle, TRUE} /\ Goto(c, "recipients")
     \/ Fault("redis") /\ throttle' = TRUE /\ Goto(c, "idle")
  /\ UNCHANGED <<postgres, copies, total, due, updates>>

\* Mutant: the key has no TTL.
ThrottleForever == FALSE /\ UNCHANGED vars

ExpireThrottle ==
  /\ throttle
  /\ throttle' = FALSE
  /\ UNCHANGED <<postgres, copies, place, total, due, updates, faults>>

\* The tenant, its contact_email and its alert_emails.
Recipients(c) ==
  /\ place[c] = "recipients"
  /\ \/ Goto(c, IF recipients THEN "total" ELSE "idle") /\ UNCHANGED faults
     \/ Fault("query") /\ Goto(c, "idle")
  /\ UNCHANGED <<postgres, copies, throttle, total, due, updates>>

\* GetBundlesForAlertCheck reads the consumption, and then the bundles; its local
\* total is gone when it returns.
ReadTotal(c) ==
  /\ place[c] = "total"
  /\ \/ total' = [total EXCEPT ![c] = consumed] /\ Goto(c, "bundles") /\ UNCHANGED faults
     \/ Fault("query") /\ Goto(c, "idle") /\ UNCHANGED total
  /\ UNCHANGED <<postgres, copies, throttle, due, updates>>

ReadBundles(c) ==
  /\ place[c] = "bundles"
  /\ \/ /\ due' = [due EXCEPT ![c] = DueNow(total[c])]
        /\ Goto(c, IF due'[c] = {} THEN "idle" ELSE "look")
        /\ UNCHANGED faults
     \/ Fault("query") /\ Goto(c, "idle") /\ UNCHANGED due
  /\ total' = [total EXCEPT ![c] = 0]
  /\ UNCHANGED <<postgres, copies, throttle, updates>>

\* Mutant: the log is not asked.
SendAnyway(c) ==
  /\ place[c] = "look"
  /\ Goto(c, "send")
  /\ UNCHANGED <<postgres, copies, throttle, total, due, updates, faults>>

BundleAlreadyNotified(c) ==
  /\ place[c] = "look"
  /\ \/ First(due[c]) \in log /\ NextBundle(c) /\ UNCHANGED faults
     \/ Fault("query") /\ NextBundle(c)
     \/ First(due[c]) \notin log /\ Goto(c, "send") /\ UNCHANGED <<due, faults>>
  /\ UNCHANGED <<postgres, copies, throttle, total, updates>>

\* Mutant: a letter that failed is recorded as well.
SendOrRecord(c) ==
  /\ place[c] = "send"
  /\ \/ copies' = [copies EXCEPT ![First(due[c])] = @ + 1] /\ UNCHANGED faults
     \/ Fault("mail") /\ UNCHANGED copies
  /\ Goto(c, "record")
  /\ UNCHANGED <<postgres, throttle, total, due, updates>>

\* A call that reports an error may have delivered the letter all the same.
SendBundleAlert(c) ==
  /\ place[c] = "send"
  /\ \/ /\ copies' = [copies EXCEPT ![First(due[c])] = @ + 1]
        /\ Goto(c, "record")
        /\ UNCHANGED <<due, faults>>
     \/ /\ Fault("mail")
        /\ copies' \in {copies, [copies EXCEPT ![First(due[c])] = @ + 1]}
        /\ NextBundle(c)
  /\ UNCHANGED <<postgres, throttle, total, updates>>

\* Mutant: break for continue.
RecordAndStop(c) ==
  /\ place[c] = "record"
  /\ log' = log \cup {First(due[c])}
  /\ Goto(c, "idle")
  /\ UNCHANGED <<bundles, consumed, recipients, copies, throttle, total, due, updates, faults>>

\* ON CONFLICT DO NOTHING.
RecordBundleNotification(c) ==
  /\ place[c] = "record"
  /\ \/ log' = log \cup {First(due[c])} /\ UNCHANGED faults
     \/ Fault("record") /\ UNCHANGED log
  /\ NextBundle(c)
  /\ UNCHANGED <<bundles, consumed, recipients, copies, throttle, total, updates>>

-----------------------------------------------------------------------------
\* The administrator and the process.

AddBundle(amount, threshold) ==
  /\ Len(bundles) < MaxBundles
  /\ bundles' = Append(bundles, [amount |-> amount, threshold |-> threshold])
  /\ UNCHANGED <<consumed, recipients, log, copies, throttle, place, total, due, updates, faults>>

UpdateBundleAlertThreshold(i, threshold) ==
  /\ updates < MaxUpdates
  /\ bundles[i].threshold # threshold
  /\ bundles' = [bundles EXCEPT ![i].threshold = threshold]
  /\ updates' = updates + 1
  /\ UNCHANGED <<consumed, recipients, log, copies, throttle, place, total, due, faults>>

\* Someone gets an address, or the last one is removed.
ChangeRecipients ==
  /\ updates < MaxUpdates
  /\ recipients' = ~recipients
  /\ updates' = updates + 1
  /\ UNCHANGED <<bundles, consumed, log, copies, throttle, place, total, due, faults>>

Crash ==
  /\ Fault("crash")
  /\ place' = [c \in Checks |-> "idle"]
  /\ due' = [c \in Checks |-> {}]
  /\ total' = [c \in Checks |-> 0]
  /\ UNCHANGED <<postgres, copies, throttle, updates>>

-----------------------------------------------------------------------------
Step(c) == \/ TryAcquireThrottle(c) \/ Recipients(c) \/ ReadTotal(c) \/ ReadBundles(c)
           \/ BundleAlreadyNotified(c) \/ SendBundleAlert(c) \/ RecordBundleNotification(c)

AdminStep == \/ \E amount \in Amounts, threshold \in Thresholds \cup {Off} :
                  \/ AddBundle(amount, threshold)
                  \/ \E i \in Bought : UpdateBundleAlertThreshold(i, threshold)
             \/ ChangeRecipients

Next == \/ \E c \in Checks : Stamp(c) \/ Step(c)
        \/ AdminStep
        \/ ExpireThrottle \/ Crash

Spec == Init /\ [][Next]_vars

\* Goroutines run and keys expire.  Requests keep coming: a tenant that stops is
\* not checked again, and the retries of the code count on the next request.
Fairness == /\ \A c \in Checks : WF_vars(Stamp(c)) /\ WF_vars(Step(c))
            /\ WF_vars(ExpireThrottle)

FairSpec == Spec /\ Fairness

-----------------------------------------------------------------------------
Places == {"idle", "throttle", "recipients", "total", "bundles", "look", "send", "record"}

TypeOK ==
  /\ bundles \in Seq([amount : Amounts, threshold : Thresholds \cup {Off}])
  /\ Len(bundles) <= MaxBundles
  /\ consumed \in 0..MaxConsumed
  /\ recipients \in BOOLEAN
  /\ log \subseteq Letters
  /\ copies \in [Letters -> Nat]
  /\ throttle \in BOOLEAN
  /\ place \in [Checks -> Places]
  /\ total \in [Checks -> 0..MaxConsumed]
  /\ due \in [Checks -> SUBSET Letters]
  /\ \A c \in Checks : place[c] \in {"look", "send", "record"} <=> due[c] # {}
  /\ updates \in 0..MaxUpdates
  /\ faults \in 0..MaxFaults

\* What GetBundlesWithConsumption, the report, shows of each bundle.
Report(all) == Fifo([i \in Bought |-> bundles[i].amount], all)

\* The sum of the amounts of the first bundles, for each number of them.
Before ==
  LET sum[n \in 0..Len(bundles)] == IF n = 0 THEN 0 ELSE sum[n - 1] + bundles[n].amount
  IN  sum

\* The loop of the report is first in, first out: a bundle is touched when those
\* bought before it are used up, and no stamp is counted twice or dropped while a
\* bundle has room (remaining in GetBundlesWithConsumption).
ReportIsFifo ==
  \A i \in Bought :
    Report(consumed)[i] = IF consumed <= Before[i - 1] THEN 0
                          ELSE Least(bundles[i].amount, consumed - Before[i - 1])

\* The alert check skips the bundles without a threshold before it spreads the
\* consumption, so it may count too much for a bundle, and never too little: no
\* bundle the report shows past its threshold is left out.  This is of the bundles it
\* shows finished too, which quotas.go:167 says are not looked at ("Solo bolsas no
\* completamente consumidas"): the query and its loop leave none of them out.
NoneOverlooked ==
  \A i \in Bought :
    /\ Watched(i)
    /\ Reached(bundles[i].amount, Report(consumed)[i], bundles[i].threshold)
    => <<i, bundles[i].threshold>> \in DueNow(consumed)

\* A row of the log stands for a letter that was sent: a letter that failed is
\* tried again.
LoggedWasSent == \A l \in log : copies[l] > 0

\* The log and the throttle are read before the letter is sent, and the log is
\* written after it; overlapping checks, failures and crashes repeat a letter, by
\* no more than a check each time.
CopiesBounded == \A l \in Letters : copies[l] <= Cardinality(Checks) * (faults + 1)

\* A bundle past its threshold is alerted in the end, for good, unless its
\* threshold is changed or nobody is left to be told.  So is one that is finished
\* already, against quotas.go:167, or that no check saw between its threshold and its
\* end.
Asked(i, t) == i \in Bought /\ bundles[i].threshold = t

AlertedEventually ==
  \A i \in Numbers, t \in Thresholds :
    Asked(i, t) /\ Reached(bundles[i].amount, Report(consumed)[i], t)
      ~> <<i, t>> \in log \/ ~Asked(i, t) \/ ~recipients

\* service.go:44 of the notification service says the letter tells the stamps "consumidos
\* de esta bolsa (FIFO)": a letter goes out only for a bundle that the report shows
\* at its threshold.
LetterAgreesWithReport ==
  [][\A i \in Numbers, t \in Thresholds : copies'[<<i, t>>] # copies[<<i, t>>] =>
       Reached(bundles[i].amount, Report(consumed)[i], t)]_vars
=============================================================================
