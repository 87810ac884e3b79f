------------------------------ MODULE RateLimits ------------------------------
(***************************************************************************)
(* The two limits of the public endpoints, counters in Redis: one for the  *)
(* whole system, whose key is named after the second of the backend's      *)
(* clock (rl:global), and one per tenant, whose window starts with the     *)
(* first request after the last one expired (rl:burst).                    *)
(*                                                                         *)
(* The client of Redis sends a pipeline or a script again when it hears no *)
(* answer (MaxRetries): the copy that was not heard may run too, before    *)
(* the one that is or after it, and also when all went unheard and the     *)
(* request goes on unchecked (fail-open).                                  *)
(*                                                                         *)
(* Simplifications.  A request is checked against one of the two: neither  *)
(* reads the other's key.  One tenant.  INCR and EXPIRE are one step: in   *)
(* the script because they are, in the pipeline because a key left without *)
(* a lifetime is not named again.  The limit of a tenant is that of the    *)
(* credential, whose cached copy may differ from request to request.       *)
(* Requests to /ts/{urlToken} pass the global limit and are never checked  *)
(* against the tenant's: ByToken.                                          *)
(***************************************************************************)
EXTENDS Integers, FiniteSets, FiniteSetsExt

CONSTANTS GlobalRPS,     \* RateLimit.GlobalRPS
          Bursts,        \* the limits the tenant's requests come with
          Second,        \* ticks in a second
          Window,        \* ticks in the window of a tenant
          MaxTardy,      \* ticks from the naming of a global key to its last INCR
          Waiting,       \* requests between the two at once (a bound)
          MaxClock,      \* ticks in all (a bound)
          MaxTries,      \* requests in a tick (a bound)
          MaxRateFaults, \* answers of Redis lost, and evictions (a bound)
          NotNamed

ASSUME RatesAssumption ==
  /\ GlobalRPS \in Nat
  /\ Bursts \subseteq Nat \ {0} /\ Bursts # {} /\ IsFiniteSet(Bursts)
  /\ Second \in Nat \ {0}
  /\ Window \in Nat \ {0}
  /\ MaxTardy \in Nat
  /\ MaxClock \in Nat
  /\ MaxTries \in Nat
  /\ MaxRateFaults \in Nat
  /\ NotNamed \notin 0..MaxClock

Times   == 0..MaxClock
Seconds == 0..(MaxClock \div Second)
\* A counter, and the first tick at which its key is gone.
Counter == [n : Nat, ends : Nat]

VARIABLES
  clock,
  global,      \* the keys of the seconds
  named,       \* when a request named its global key, or NotNamed
  late,        \* unheard copies of pipelines, by when their key was named
  burst,       \* the key of the tenant
  lateBurst,   \* unheard copies of the script
  rateFaults,
  evictions,
  granted,     \* history: how many the global limit let through, per tick
  tries,       \* history: how many the tenant's limit answered
  passes,      \* history: how many of these it let through
  unchecked,   \* history: how many of the tenant's went on without its word
  unheard,     \* history: how many copies of the script ran for nobody
  refusal      \* history: the least limit it refused a request for, or 0

globalVars == <<global, named, late, granted>>
burstVars  == <<burst, lateBurst, tries, passes, unchecked, unheard, refusal>>
rateVars   == <<clock, rateFaults, evictions, globalVars, burstVars>>

RateFault == rateFaults < MaxRateFaults /\ rateFaults' = rateFaults + 1

\* INCR: a key that has expired, or was never set, counts from 1.
Incr(k) == IF k.ends > clock THEN k.n + 1 ELSE 1

\* Mutant: one too many.
WithinOrNext(n, limit) == n <= limit + 1

Within(n, limit) == n <= limit

Counted(h) == [h EXCEPT ![clock] = @ + 1]

-----------------------------------------------------------------------------
RatesInit ==
  /\ clock = 0
  /\ global = [s \in Seconds |-> [n |-> 0, ends |-> 0]]
  /\ named = [q \in Waiting |-> NotNamed]
  /\ late = [t \in Times |-> 0]
  /\ burst = [n |-> 0, ends |-> 0]
  /\ lateBurst = 0
  /\ rateFaults = 0
  /\ evictions = 0
  /\ granted = [t \in Times |-> 0]
  /\ tries = [t \in Times |-> 0]
  /\ passes = [t \in Times |-> 0]
  /\ unchecked = [t \in Times |-> 0]
  /\ unheard = [t \in Times |-> 0]
  /\ refusal = [t \in Times |-> 0]

\* time.Now().Unix().
NameKey(q) ==
  /\ named[q] = NotNamed
  /\ named' = [named EXCEPT ![q] = clock]
  /\ UNCHANGED <<clock, global, late, granted, burstVars, rateFaults, evictions>>

\* The pipeline: INCR, and EXPIRE of two seconds.
IncrGlobal(k) == [n |-> Incr(k), ends |-> clock + 2 * Second]

\* The rest of CheckGlobal.
CheckGlobal(q) ==
  LET s == named[q] \div Second
      k == IncrGlobal(global[s])
  IN  /\ named[q] # NotNamed
      /\ k.n <= MaxTries
      /\ global' = [global EXCEPT ![s] = k]
      /\ named' = [named EXCEPT ![q] = NotNamed]
      /\ granted' = IF Within(k.n, GlobalRPS) THEN Counted(granted) ELSE granted
      /\ UNCHANGED <<clock, late, burstVars, rateFaults, evictions>>

\* The client sends the pipeline again.
ResendGlobal(q) ==
  /\ named[q] # NotNamed
  /\ RateFault
  /\ late' = [late EXCEPT ![named[q]] = @ + 1]
  /\ UNCHANGED <<clock, global, named, granted, burstVars, evictions>>

\* Fail-open: the request goes on uncounted by the history, whether or not the
\* pipeline arrives.
GlobalFails(q) ==
  /\ named[q] # NotNamed
  /\ RateFault
  /\ \/ UNCHANGED late
     \/ late' = [late EXCEPT ![named[q]] = @ + 1]
  /\ named' = [named EXCEPT ![q] = NotNamed]
  /\ UNCHANGED <<clock, global, granted, burstVars, evictions>>

\* A copy nobody waits for.
RunLateGlobal(t) ==
  LET s == t \div Second
      k == IncrGlobal(global[s])
  IN  /\ late[t] > 0
      /\ late' = [late EXCEPT ![t] = @ - 1]
      /\ global' = [global EXCEPT ![s] = k]
      /\ UNCHANGED <<clock, named, granted, burstVars, rateFaults, evictions>>

\* Mutant: every request renews the lifetime of the key.
IncrAndRenew(k) == [n |-> Incr(k), ends |-> clock + Window]

\* Mutant: a lifetime of two windows.
IncrForLong(k) ==
  [n |-> Incr(k), ends |-> IF Incr(k) = 1 THEN clock + 2 * Window ELSE k.ends]

\* The script: EXPIRE with the first only.
IncrBurst(k) ==
  [n |-> Incr(k), ends |-> IF Incr(k) = 1 THEN clock + Window ELSE k.ends]

Least(old, new) == IF old = 0 \/ new < old THEN new ELSE old

\* A credential without a limit, or with one of 0 or less, has the limit of 60,
\* one of Bursts.
CheckTenant(limit) ==
  /\ tries[clock] + unchecked[clock] < MaxTries
  /\ burst' = IncrBurst(burst)
  /\ tries' = Counted(tries)
  /\ IF Within(burst'.n, limit)
     THEN passes' = Counted(passes) /\ UNCHANGED refusal
     ELSE refusal' = [refusal EXCEPT ![clock] = Least(@, limit)] /\ UNCHANGED passes
  /\ UNCHANGED <<clock, globalVars, lateBurst, unchecked, unheard, rateFaults, evictions>>

\* The client sends the script of a request again.
ResendBurst ==
  /\ RateFault
  /\ lateBurst' = lateBurst + 1
  /\ UNCHANGED <<clock, globalVars, burst, tries, passes, unchecked, unheard, refusal, evictions>>

\* Fail-open, as above.
TenantFails ==
  /\ tries[clock] + unchecked[clock] < MaxTries
  /\ RateFault
  /\ unchecked' = Counted(unchecked)
  /\ lateBurst' \in {lateBurst, lateBurst + 1}
  /\ UNCHANGED <<clock, globalVars, burst, tries, passes, unheard, refusal, evictions>>

\* A copy nobody waits for.
RunBurstCopy ==
  /\ lateBurst > 0
  /\ lateBurst' = lateBurst - 1
  /\ burst' = IncrBurst(burst)
  /\ unheard' = Counted(unheard)
  /\ UNCHANGED <<clock, globalVars, tries, passes, unchecked, refusal, rateFaults, evictions>>

\* HandleByToken: the route has no PerTenant.
ByToken ==
  /\ tries[clock] + unchecked[clock] < MaxTries
  /\ unchecked' = Counted(unchecked)
  /\ UNCHANGED <<clock, globalVars, burst, lateBurst, tries, passes, unheard, refusal,
                 rateFaults, evictions>>

\* maxmemory-policy allkeys-lru.
EvictCounter ==
  /\ RateFault
  /\ evictions' = evictions + 1
  /\ \/ burst' = [n |-> 0, ends |-> 0] /\ UNCHANGED global
     \/ \E s \in Seconds :
          /\ global' = [global EXCEPT ![s] = [n |-> 0, ends |-> 0]]
          /\ UNCHANGED burst
  /\ UNCHANGED <<clock, named, late, granted, lateBurst, tries, passes, unchecked, unheard, refusal>>

RatesTick ==
  /\ clock < MaxClock
  /\ \A q \in Waiting : named[q] # NotNamed => clock - named[q] < MaxTardy
  /\ \A t \in Times : late[t] > 0 => clock - t < MaxTardy
  /\ clock' = clock + 1
  /\ UNCHANGED <<globalVars, burstVars, rateFaults, evictions>>

RatesNext ==
  \/ \E q \in Waiting : NameKey(q) \/ CheckGlobal(q) \/ ResendGlobal(q) \/ GlobalFails(q)
  \/ \E t \in Times : RunLateGlobal(t)
  \/ \E limit \in Bursts : CheckTenant(limit)
  \/ ResendBurst \/ TenantFails \/ RunBurstCopy
  \/ ByToken
  \/ EvictCounter
  \/ RatesTick

RatesSpec == RatesInit /\ [][RatesNext]_rateVars

-----------------------------------------------------------------------------
SumOf(h, T) == MapThenSumSet(LAMBDA t : h[t], T \cap Times)

\* The kinds of the state; no key outlives its lifetime.
RatesTypeOK ==
  /\ clock \in Times
  /\ global \in [Seconds -> Counter]
  /\ \A s \in Seconds : global[s].ends <= clock + 2 * Second
  /\ named \in [Waiting -> Times \cup {NotNamed}]
  /\ \A q \in Waiting : named[q] # NotNamed => clock - named[q] \in 0..MaxTardy
  /\ \A t \in Times : late[t] > 0 => clock - t \in 0..MaxTardy
  /\ burst \in Counter
  /\ burst.ends <= clock + Window
  /\ lateBurst \in Nat
  /\ rateFaults \in 0..MaxRateFaults
  /\ evictions \in 0..rateFaults
  /\ {late, granted, tries, passes, unchecked, unheard, refusal} \subseteq [Times -> Nat]

\* The window of a second does not slide, though middleware/ratelimit.go:27 says so
\* ("Usa una ventana deslizante de 1 segundo en Redis").  In any second, wherever it
\* starts, the limit lets through its number once for each second whose key the
\* requests may have named, and once more for each key that Redis evicts; two of
\* these at least, and more when requests are slow.
\* (It is enough to look from a tick that let somebody through.)
GlobalBounded ==
  \A t \in {s \in Times : granted[s] # 0} :
    SumOf(granted, t..(t + Second - 1))
      <= GlobalRPS * ((Second + MaxTardy - 2) \div Second + 2 + evictions)

\* The tenant's requests that went on, and the runs of its script.
Through == [t \in Times |-> passes[t] + unchecked[t]]
Ran     == [t \in Times |-> tries[t] + unheard[t]]

\* In any time as long as a window, wherever it starts, of a tenant get through
\* less than twice its limit, and besides these only the requests the limit said
\* nothing of: those during which Redis failed and those by a URL token, however
\* many.  Less than twice because a window that ends in that time began before it,
\* with a request or a copy.  (And the limit once more for each eviction.)
TenantBounded ==
  \A t \in {s \in Times : Through[s] # 0} :
    SumOf(Through, t..(t + Window - 1))
      <= Max(Bursts) * (2 + evictions) - 1 + SumOf(unchecked, t..(t + Window - 1))

\* Nobody is refused but for what ran in the last window: what was asked, refused
\* or not, before that is forgotten, however long the tenant insists.  A request
\* counts as often as the client of Redis sent its script.
RefusedForCause ==
  \A t \in Times :
    refusal[t] # 0 => SumOf(Ran, (t - Window + 1)..t) > refusal[t]
=============================================================================
