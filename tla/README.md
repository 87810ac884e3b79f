# TSA Proxy: specifications

TSA Proxy sells time stamps (RFC 3161): a tenant buys bundles of stamps, its
programs send requests to the proxy, and the proxy checks the tenant's bag,
calls an upstream TSA and records the use in Postgres, with Redis in front of
everything that is read for each stamp. This directory holds TLA+ models of that
program (`src/backend`, Go), the TLC runs that check them on small instances and
the theorems about them that TLAPS proves for every instance.

`PROJECT.json` is the index: components, runs, the source lines each definition
stands for, the faulty variant ("Mutant" in the modules) that each property
rejects, and the hazards.

## 1. The system

The backend is one process. Each HTTP request is a goroutine; many of them leave
goroutines behind (`go func`) that outlive the answer. Postgres is the truth,
Redis a cache with `allkeys-lru` and counters that exist nowhere else. Nothing is
done in a transaction except `SetDefault` of the upstreams and `SetRole` and
`SetTenantScope` of the users, so any other statement is visible before the next one runs.

| Component | State | Operations | Hard about it | What makes it correct |
|---|---|---|---|---|
| Stamp processing, `service/proxy` | the request's own progress; `tenant:bundle:contracted`, `tenant:bundle:consumed` | `Process`, `recordUsage`, `getCachedContracted`, `getOrSeedConsumed` | check, call and charge are three steps; recordings outlive the answer and die in a restart; counters seeded, incremented and evicted concurrently | the books are exact; a refusal and an overdraft are bounded; every outcome is recorded |
| Bundles and quotas, `repository/postgres/quotas.go`, `handler/admin/quotas.go` | `quota_bundles`, `tenant_quotas`, `monthly_usage_aggregates` | `Update`, `AddBundle`, `UpdateBundleAlert`, `UpsertMonthlyAggregate`, the sums and the FIFO reports | stale totals after a purchase; two spellings of the same FIFO | a purchase takes effect; the reports add up |
| Bundle alerts, `checkBundleAlerts`, `service/notification` | `bundle_notification_log`, `throttle:notify:check:*` | throttle, read, look in the log, send, record | overlapping checks, mail calls that fail or time out, restarts between letter and row | nobody is forgotten, letters are not repeated without end |
| Request authentication, `middleware/auth.go`, `basicauth.go`, `tsp.go`, `HandleByToken` | `cred:hash:*`, `cred:token:*`, `basicauth:user:*` | look up, fill, refuse | a fill that lands after an invalidation; entries with no invalidation; status copied into entries | a revoked credential or suspended tenant is refused within a known time |
| Credentials, basic auth, tenants (services) | `api_credentials`, `basic_auth_credentials`, `tenants` | create, rotate, revoke, suspend, reactivate, delete | rotate is revoke and then create; deletes cascade | a tenant keeps a working key; nothing works after its end |
| IP allowlist, no-auth access | `tenant_ip_allowlist`, `noauth_access`, `tenant:ip:*` | `Create`, `Update`, `Delete`, `Enable`, `Disable`; `Check`, `FindTenantByIP` | a deletion that invalidates nothing; a fill that overtakes a DEL; empty list and failed read both admit; `/ts/{urlToken}` asks no list | a verdict is at most an entry's life old; without a credential nobody enters by an address that was not listed |
| Rate limits, `ratelimit.go` | `rl:global:<second>`, `rl:burst:<tenant>` | count, expire | edges of fixed windows; keys named early and counted late; eviction; fail-open; scripts sent twice; `/ts/{urlToken}` asks no tenant's limit | of the requests a limit is asked about, at most a known number in any interval; nobody refused for what is over |
| Admin sessions, `service/auth` | `mfa:*`, `totp_setup:*`, `totp_pending:*`, `refresh:*`, access tokens in browsers | `Login`, `VerifyTOTP`, `SetupTOTP`, `CompleteTOTPSetup`, `EnableTOTP`, `Refresh`, `Logout` | single-use tokens read and deleted in two steps; enrolments that overlap; roles copied into tokens | one session for one token; a second factor that stands; a right that ends in known time |
| Platform users, `handler/admin/users.go` | `admin_users`, `admin_user_roles`, `admin_user_tenant_scope` | `Create`, `Update`, `Delete`, reset | a guard that counts before the change; three writes without a transaction; cascades that empty a scope | a superadmin remains; edits end in what one request asked; a viewer sees its tenant only |
| Upstream configuration and client | `tsa_upstreams`, `upstream:default` | `CreateUpstream`, `UpdateUpstream`, `DeleteUpstream`, `SetDefault`; `Send` with retries | rows written back whole after an earlier read; stale default; retries after a lost answer; a 4xx that is an answer like another | credentials go to the host they were entered for; the default is recent; posts are counted |
| Jobs | partitions of `usage_events` and `proxy_requests` | `runScheduler`, `EnsureNextMonth`, `dropOldPartitions` | a window of five minutes against a tick of an hour; months of unequal length | a report of the last year is complete |
| Audit, geolocation, metrics, secrets, configuration, logging, panel, deployment | tables only appended to, or none | - | - | not modelled: no decision of the program reads them, or they are pure |

How they interact: for `/ts`, `/tsp` and the API the router runs the global limit,
authentication, the list of addresses and the tenant's limit, and then the handlers of
`TimestampHandler`, which call `Process`. For `/ts/{urlToken}` it runs the global limit only,
and `HandleByToken`, which looks the token up itself and calls `Process`: no address is checked
there and no tenant's limit. `Process` calls Redis,
Postgres and the upstream client, and starts `recordUsage`, which charges the
month, increments the counter and starts `checkBundleAlerts`. The admin handlers
write Postgres and delete the cache keys that the stamp path reads, mostly from
goroutines. All coupling is through the two stores.

The client of Redis (`repository/redis/client.go:20`, `MaxRetries`, 3 unless configured) sends a
command again when no answer comes, and Redis may then run both copies. A second SET, SETNX or DEL
writes what the first one wrote; a second INCR counts again. `StampProxy` has all of these copies,
`RateLimits` those of its INCRs, `BundleAlerts` that of its SETNX. The other modules take every SET
to be done within their bound on its delay, its copies included, and a DEL that is repeated later
only removes an entry sooner.

## 2. Modules

| Module | What it is |
|---|---|
| `BagLedger` | Abstract: what the proxy promises about the books of one tenant. One outcome for a request, a client told nothing else, a booking at most once. |
| `StampProxy` | One tenant's stamps, statement by statement: the check of the bag, the upstream call, the answer, `recordUsage`, purchases, expiry, eviction, restart. |
| `StampProxyProofs` | Proofs: types, places of a request, the books, the refinement of `BagLedger`; the counter's lead, justified refusals, settled stamps are seen, the bounded overdraft. |
| `BundleAlerts` | One tenant's alerts: the throttle, the FIFO spread, the log, the letters. |
| `BundleAlertsProofs` | Proofs: types, the FIFO loop, nobody overlooked, a logged letter was sent, the bound on copies. |
| `CredentialCache` | Who may stamp: three cached lookups against revocations, suspensions and deletions, with time. |
| `CredentialCacheProofs` | Proofs: types, what an entry's word is worth, late admissions and refusals, what a revocation leaves. |
| `Upstreams` | The upstream TSAs: edits that read and write back whole rows, the cached default, a stamp's posts and retries. |
| `UpstreamsProofs` | Proofs: types, credentials stay home, the default's age, the count of posts. |
| `Allowlist` | The addresses of a tenant, their copy in Redis, the check of a request, the access by address alone. |
| `RateLimits` | The counter of each second and the tenant's window. |
| `GatesProofs` | Proofs about `Allowlist`: types, how old a verdict is, who enters without a credential; and about `RateLimits`: types, the three bounds on what is let through and refused. |
| `AdminSessions` | Login in two stages, enrolment, refresh, access tokens, and what administrators change meanwhile. |
| `AdminSessionsProofs` | Proofs: types, how long an access goes on, single use, the second factor. |
| `AdminUsers` | The users of the panel, their roles and scopes, statement by statement, several requests at once. |
| `AdminUsersProofs` | Proofs: types, the last superadmin, one word per user, the viewer's tenants. |
| `Retention` | Partitions, the scheduler that makes and drops them, the report of a period. |
| `RetentionProofs` | Proofs: types, the report is complete, for any calendar. |
| `MCStampProxy`, `MCBundleAlerts` | The instances TLC checks of the two modules that have their name. |
| `MCPanel` | The instances of `AdminSessions`, `AdminUsers` and `Retention`. |
| `MCService` | The instances of `CredentialCache`, `Upstreams`, `Allowlist` and `RateLimits`. |
| `MCCredentialCache` | The instance of `CredentialCache` for its counterexample. |

The modules share no variables. `StampProxy` starts where a lookup of
`CredentialCache`, an `Allowlist` check and both rate limits admit its request; its
`NoUpstream`, `Send` and `Return` are what `Upstreams` takes apart; `BundleAlerts`
starts at the end of a recording; `AdminSessions` says who may call the handlers
of `AdminUsers`. None reads what another one writes but the consumption, which
`BundleAlerts` lets grow freely, and the tenants, which each module deletes at will.
`MCPanel` and `MCService` check several modules in one run: their variable
`part` says which of them a behaviour is of, and the others stay in their initial
state. So the run checks each module on its own, and no product of their states.

### StampProxy

A request has two program counters: `pc` for `Process` and `rec` for its
`recordUsage`, which overlap when `UsageRecordAsync` is set and for a refusal
always. A third goroutine, the write of the contracted total into Redis, is
`setC[r]`, the value it still carries. Each action is one statement sent to a store, with
the Go code up to the next one:

| Code | Actions |
|---|---|
| `Process` 100-118 | `CheckQuotaRow`, `QuotaLookupFails` |
| `getCachedContracted` | `GetContracted`, `GetTotalContracted`, `SetBundleContracted` |
| `getOrSeedConsumed` | `GetConsumed`, `GetTotalConsumption`, `SeedBundleConsumed` |
| `Process` 125-132 | `Refuse`, `Admit` |
| `Process` 135-230 | `NoUpstream`, `Send`, `Return` |
| `recordUsage` | `InsertEvent`, `UpsertMonthlyAggregate`, `IncrBundleConsumed` |
| the client of Redis, sending again | `ResendSeed`, `RunSeedCopy`, `ResendIncr`, `RunIncrCopy`; a branch of `SetBundleContracted` and of `InvalidateBundleContracted` |
| `QuotasHandler` | `UpdateQuota`, `AddBundle`, `InvalidateBundleContracted` |
| Redis, the process | `ExpireContracted`, `EvictConsumed`, `Crash` |

A statement that can fail has a failing branch that spends one of `MaxFaults`
faults of a kind in `FaultKinds`; what the code does with the error is in the
branch. An UPSERT that reports an error may have been applied. `Crash` ends every
goroutine and keeps both stores: `Server.Shutdown` waits for handlers, never for
the goroutines they left, so an orderly restart loses recordings as a crash does.

`incrCopies` counts the INCRs that were sent and that no goroutine waits for; each may run
at any later time, also after a crash of the backend or as the only one of a call that was given
up. `unheard` and `allUnheard` count how many of them did, since the key was created and in all.
`announced` is the contracted total of the last moment at which the key was gone and no
older total on its way to it.

Abstracted: tenants are independent; the months of an aggregate are summed, as both
sums in the code do; the cached quota row is dropped, since `Process` asks only
whether the row exists and a row is never removed; `throttledUpdateLastUsed`
touches no state that anything here reads. The backend is taken with its Redis
client, as `main.go` always builds it.

### BundleAlerts

`place[c]` is where a check is in `checkBundleAlerts`, `due[c]` the letters its loop has still to
treat, which it takes in the order of the bundles (`First`). `Fifo` is the loop of both queries; the
one of the check is given the amount 0 for a bundle that its WHERE leaves out, since such a bundle
takes nothing from what remains. `Stamp` is a charge of `recordUsage` together with the start of a
check; the throttle, the reads, the look in the log, the letter and its row are actions. `consumed`
is capped at `MaxConsumed`, at least the sum of the bundles (assumption `Saturation`), beyond which
no bundle's share changes. `LoggedWasSent` takes the notifier as configured: without a key
`recordUsage` starts no check.

### CredentialCache

A lookup `q` presents a key and a secret (`ask[q]`) and moves through `pc[q]`.
`held[q]` is the row it has read and will write into Redis, in the request itself
(`auth.go`) or in a goroutine after the decision (the others).

| Code | Actions |
|---|---|
| `GetCredential`, `GetCredentialByToken`, `GetBasicAuth` and the decision on a hit | `Get` |
| `auth.go` 91-118, 120-149 | `FindByHash`, `SetCredential` |
| `HandleByToken` 151-180 | `FindByURLToken`, `SetInBackground` |
| `basicauth.go` 103-139, `tsp.go` 131-162 | `FindByUsername`, `SetInBackground` |
| a SELECT that fails | `SelectFails` |
| credential and basic auth services | `Create`, `Revoke`, `Invalidate` |
| tenant service | `Suspend`, `Reactivate`, `Delete` |
| Redis, time, the process | `Evict`, `Tick`, `Crash` |

`Rotate` is a `Revoke` that a `Create` may follow, or not, as its second statement
may fail. `basicauth.go` and `tsp.go` have the same lookup over the same key and are one path
here. A password is represented by the tenant it was made for: a
username is UNIQUE and passes on only when its tenant is deleted and the rows
cascade. `expires_at` is in every query and no code writes it. The key
`tenant:status:*`, all that `Suspend` and `Reactivate` delete for a lookup's sake,
is read nowhere, so it is not in the model. An UPDATE that Postgres applies and
reports as failed, after which no DEL is sent, is a `Revoke` whose DEL fails.

Time is counted in ticks. An entry is dropped by the tick after its age reaches `Life`
of its path, and `Tick` waits for a write that is `MaxDelay` old: that a `SET`
follows its `SELECT` within a known time is an assumption on the deployment, as a
goroutine could in principle sleep for hours. `since` tells how
long ago each right to stamp came or went, capped at `Horizon`, which
`HorizonAssumption` keeps above every bound a property mentions; `raced`
remembers the keys whose DEL ran while a lookup was about to write.

### Upstreams

| Code | Actions |
|---|---|
| `config.go` `CreateUpstream`, `SetDefault` | `CreateUpstream`, `SetDefault` |
| `config.go` `UpdateUpstream`, `DeleteUpstream`: the read, and the `Update` of the whole row | `UpdateUpstream`, `DeleteUpstream`, and later `WriteBack` |
| the DEL of `upstream:default` | `InvalidateDefaultUpstream` |
| `Process` 135-171 | `GetDefaultUpstream`, `SelectDefault`, `UseEnvironment`, `SetDefaultUpstream` |
| `Client.Send` | `Send`, `ClientGone`, `EndStamp` |
| time, the process | `UpstreamsTick`, `UpstreamsCrash` |

A username or a password is represented by the host it was entered for: the question
asked of them is where they go. An attempt ends in a stamp, is denied with another status below
500, is answered with a status of 500 or more, is lost after the authority issued the stamp, or
never got there. Only the last two are tried again: `doRequest` takes any status for an answer, so
the branch of `Send` for a 4xx is never reached, and a denial is sold like a stamp
(`upstream_sold`). `posts[q].served` counts the stamps issued.

### Allowlist

A request is at `check` (Redis), `load` (Postgres) or `put` (the SET), and ends as
`passed`, `refused`, or `open`: let through because the list could not be read. A CIDR
is the set of its addresses. `unlisted`, `listedFor` and `unknown` tell how long
ago Postgres last said something else of an address. A request by a URL token is outside.

### RateLimits

`NameKey` and `CheckGlobal` are the two halves of `CheckGlobal`: the name of the key is the second
at which it was computed, and INCR runs up to `MaxTardy` ticks later, any number of them.
`CheckTenant` is the script of `rl:burst`. `ResendGlobal` and `ResendBurst` are the client sending
again; `RunLateGlobal` and `RunBurstCopy` the copies nobody waits for, which may run before or after
the one that is answered. `GlobalFails` and `TenantFails` let a request through that got no answer,
and its script may run all the same. `ByToken` is a request of the tenant to `/ts/{urlToken}`. The
histories count, per tick, who was let through with the limit's word (`granted`, `passes`) and
without it (`unchecked`), what was asked (`tries`), and the copies that ran for nobody (`unheard`).

### AdminSessions

A request `q` carries what it has read so far (`conn[q]`): after `hash` a login writes
its token, `find` and `pending` are reads, at `code` the code is compared, `write` is the
step that ends it. `ticket` is the token of either kind that leads from the password to
the second factor, `access` the tokens browsers hold, with the role they name.
`since` tells how long ago a user could last do what a role allows, `enrolled` how
long ago a second factor was last missing.

### AdminUsers

A handler `h` is at `count` (the guard's second read), `write` (the row of the user),
`role` or `scope`. `keptRoles` and `keptScope` are the rows another transaction has
committed since: `SetRole` and `SetTenantScope` delete and insert in one
transaction, and under READ COMMITTED the DELETE may miss a row committed while it waits, so
those rows may survive. `word[u]` is the last request that wrote `u` undisturbed, and
`marred` names the users that no single request wrote; both are histories.

### Retention

A day is a step. `backend` says whether the process is up and whether the minute of its
start lets the hourly ticker meet the five minutes of the cleanup ("aligned").
`tended` has the months in which, up to the 25th, a start or the job made the next
partition.

## 3. Runs

| Run | Instance | What it shows |
|---|---|---|
| `stamp_faults` | 3 requests, 2 at once, a bag of 2, no quota row at first, all faults, at most 2 of them | `TypeOK`, `LedgerExact`, `CounterLeadBounded`, `RefusalJustified`, `ImplementsBagLedger` |
| `stamp_bound` | 3 requests, 2 at once, a bag of 1 and a purchase of 1; recordings and invalidations fail, the process restarts, at most 2 faults | `OvershootBounded`, `SettledIsSeen`, `PurchaseSeen` |
| `stamp_live` | 2 requests, synchronous mode, a purchase, one fault of any kind but a restart; fairness | `EveryOutcomeRecorded`, `ContractedHeals` |
| `stamp_no_exceptions` | no fault | violated: `NoAdmissionOnceConsumed` |
| `stamp_ahead` | no fault | violated: `CounterNeverAhead` |
| `stamp_evicted` | one eviction | violated: `ReadCorrectsCounter` |
| `bundle_alerts` | 2 checks, 2 bundles of 2 stamps, one change of threshold or addresses, one fault of any kind; fairness | `TypeOK`, `ReportIsFifo`, `NoneOverlooked`, `LoggedWasSent`, `CopiesBounded`, `AlertedEventually` |
| `bundle_alert_early` | 1 check, 2 bundles, no fault | violated: `LetterAgreesWithReport` |
| `credential_revoked` | 1 lookup, no fault | violated: `RevokedIsOut` |
| `panel` | sessions: one user, 2 requests, 2 tickets, 2 secrets, one change, one lost DEL; users: 2 accounts, 2 tenants, 2 handlers, 3 requests, one failing statement; retention: five months of 2 or 3 days, a year of 2 months, 2 starts, 2 events, one failing DDL | `SessionsTypeOK`, `AccessRecent`, `TicketOpensOnce`, `SecondFactorStands`; `UsersTypeOK`, `OneWord`, `ViewerConfined`, `SuperadminLeft`; `RetentionTypeOK`, `ReportComplete` |
| `service` | credentials: 2 lookups at once, one API credential or one username, 2 tenants, 3 changes, one fault of any kind; upstreams: 2 rows, 2 hosts, 2 editors, one stamp with a retry, 3 edits, one fault; addresses: 2, a range in another, one request, 2 edits, one fault; rates: a limit of 1, bursts of 1 and 2, seconds and windows of 2 ticks, 2 requests waiting, 4 ticks, one fault or eviction | `TypeOK`, `AdmissionRecent`, `RefusalRecent`, `RevokedOnlyByRace`; `UpstreamsTypeOK`, `CredentialsStayHome`, `DefaultRecent`, `SendsCounted`; `AllowlistTypeOK`, `VerdictRecent`; `RatesTypeOK`, `GlobalBounded`, `TenantBounded`, `RefusedForCause` |
| `upstream_sold` | upstreams as in `service`, no fault | violated: `SoldWasServed` |

Bounds. Every conflict in `StampProxy` is between a request and a recording of another, so two at
once meet all of them; the third request comes after or between them and meets what they left. Two
faults are enough for a fault in the repair of a fault. A bag of one stamp is full at once, which is
where refusal and admission differ; the bag of two of `stamp_faults` is refused with a stamp left
when the counter leads. `stamp_bound` leaves the commands that are sent again out, to stay small: a
second INCR lowers what is admitted, and the theorems of section 4 include it. In `BundleAlerts` two
checks overlap, two bundles show what one leaves for the next, and with bundles of 2 the threshold
of 50 is reached, missed and passed. In `CredentialCache` (the parts `keys` and `names` of
`service`: a revocation of the one says nothing about the other) two lookups fill against each other and
against a DEL; three changes are a creation, a deletion and the creation for the next tenant, or a
creation, a revocation and one thing more; lives of 0 and 1 ticks with a delay of 1 and a `Horizon`
of 3 let an entry reach its end, and let a right be older than every bound. The requests (and
bundles) are symmetric, and symmetry is used only in the runs without a liveness property. Deadlock
is not checked: a run ends when its requests are served.

In `panel`, two handlers overlap on one user or on two superadmins, and a third request edits what
they left, or deletes a tenant between their writes; both the guard's race and the skipped guard
occur. Two requests use a ticket or enrol at once, with tokens of which one kind outlives a tick.
The calendar has a month shorter than the one before it, so that `AddDate` skips one, and with two
months to a year its five months outlast the year of retention and the partitions of the first
migration. In `service`, a lifetime and a lag of one tick let a copy be older than its entry and a
SET overtake a DEL, also when the same caller comes again; 2 editors write back over each other; a
second of 2 ticks lets a window start inside it, and 4 ticks are two seconds and an edge. The invariants and action properties of all
passing runs are also proved for every value (section 4), so the bounds matter only to the faulty
variants and to liveness.

`MCPanel` and `MCService` use one value for things of several modules (a handler and a request, a
tenant and a secret): the modules never compare them, and one symmetry
serves all. `Symmetric` permutes only values that no property and no
definition tells apart.

Fairness. `FairSpec` of `StampProxy` makes each request's `Check`, `Serve`,
`RecordUsage` and cache write weakly fair, the invalidation after a purchase too
(the Go scheduler runs each runnable goroutine, and every store call returns, with a
result or an error), and the key's expiry (Redis' TTL). No arrival, purchase or
fault is fair. `BundleAlerts` adds that requests keep coming (`Stamp`): the code
retries a letter only when a later request starts a check, so an alert for a
tenant that stops is not promised.

### Where the code and its comments part

The first six are counterexamples of a run; the others show in the models and are in no run,
since the property that does hold names the exception.

1. `service.go:99` says a used-up bag refuses "sin excepciones". Check and charge are
   separate, so concurrent requests pass (`stamp_no_exceptions`). What holds is
   `OvershootBounded`: fewer stamps too many than requests at once.
2. `service.go:315-318` prefers a counter that lags to one that is ahead. A seed
   between another's UPSERT and INCR puts it ahead for good (`stamp_ahead`). What
   holds is `CounterLeadBounded`: however often it happens, the seeds put it ahead by fewer than the
   requests at once. Beyond that it runs ahead by one for each INCR the Redis client sent
   again and Redis ran twice; these add up as long as the key lives, and it has no TTL.
3. `cache.go:240-244` says a counter that INCR created at 1 corrects itself at the
   next read. A read takes any value it finds (`stamp_evicted`).
4. `notification/service.go:44` speaks of the stamps consumed of this bundle, FIFO.
   The alert's query leaves out bundles without a threshold before it spreads the
   consumption, so a letter can concern a bundle that the report shows untouched
   (`bundle_alert_early`). What holds is `NoneOverlooked`: it errs on the early side only.
5. `credential/service.go:131` announces the invalidation of the cache. Revoke and
   Rotate delete the key's entry and never the URL token's (`credential_revoked`).
   What holds is `AdmissionRecent`: the token admits for one lifetime of its entry, five
   minutes, and one write at most.
6. `upstream/client.go:143` means not to try a 4xx again and returns an error for it. The branch is
   never reached: a 4xx is an answer, `service.go:185-190` sells everything below 500, and the
   tenant is charged for a stamp nobody issued (`upstream_sold`). What holds is `SendsCounted`,
   which says nothing of what is sold.
7. `quotas.go:167` says the alert check takes "Solo bolsas no completamente consumidas". Neither its
   WHERE nor its loop leaves a finished bundle out. `NoneOverlooked` and `AlertedEventually`
   include the finished ones, and hold because of that: with the filter the comment speaks of, a bundle that
   goes from below its threshold to its end between two checks would never be announced.
8. `middleware/ratelimit.go:27` speaks of a sliding window of a second. It is fixed:
   twice the limit passes across an edge. What holds is `GlobalBounded`.
9. `users.go:394` says the guard keeps the platform from being left without an active superadmin.
   Two requests that both count before either writes leave none.
   `SuperadminLeft` says that nothing else does, but a guard whose own read failed.
10. `admin_users.go:294` says `SetRole` replaces the role of a user by one only. Two that overlap
    leave both. `OneWord` is about the users on which no requests overlapped;
    `SetTenantScope` does the same with two tenants.
11. `main.go:204` says the cleanup is daily. The ticker keeps the minute of the start, and the
    cleanup wants one of the first five of 03:00 UTC: never, unless the backend started in the first
    five minutes of an hour. `Retention` has both kinds of start (`aligned`).
12. `cleanup.go:101` says `EnsureNextMonth` makes sure of the next month's partition.
    `AddDate(0, 1, 0)` on the last days of a long month skips a short one; its partition is then
    made by the job of the 25th, before them, or not at all.

Less than a contradiction, but met on the way and kept in the models:

- A viewer whose scope is empty sees every tenant (`scope.go:43-45`), though
  `users.go:362-364` means a viewer to have exactly one. It comes about when its tenant is deleted
  (`ON DELETE CASCADE`, migration 010:18), or when `Update` stops after the role.
  `ViewerConfined` names both exceptions.
- `config.go:230-235` clears a row's credentials when its host changes. A row without
  credentials uses those of the `.env` (`service.go:395-414`), which then
  go to the new host; `CredentialsStayHome` is about those stored in the row.
- `reports.go:49-86` (`DailyUsage`) asks for the period up to the last second of its last
  day, and applies no scope of tenants.
- `guardLastSuperadmin` lets a request pass when `FindByID`, or `GetRoles` in it, fails.
- `Delete` of an address range does not delete the cached list, and a range that was
  deleted cannot be created again (a soft delete under a UNIQUE key).

## 4. Theorems

All are of the form `Spec => []P` (or an action property) for any sets of requests, bundles,
credentials, tenants, users, upstreams and addresses, any amounts, lifetimes and numbers of faults.
Those about `StampProxy`, for any `MaxInFlight`, assume `ConstantsAssumption` of `StampProxy`, and
`FiniteRequests` where requests are counted.

`StampProxyProofs`
- `TypeCorrect`, `TypeOK`.
- `StagesCorrect`: where a request is determines what it has been told and
  whether it is being recorded (the strengthening all others rest on).
- `LedgerCorrect`, `LedgerExact`: an UPSERT adds a request to `Booked` that was not
  there, and no other step changes either side; lemma `BooksStep` counts it with
  the cardinality theorems for finite sets.
- `Refinement`, `ImplementsBagLedger`: each step maps to `Conclude`, `Inform`, `Book` or a
  stutter under `told <- answer`, `booked <- Booked`, `ledger <- agg`.
- `CounterLead`, `CounterLeadBounded`. The invariant also bounds what a request
  that is about to seed has read, and it rests on two facts: requests in flight
  never exceed `MaxInFlight`, and a pending increment belongs to a request in
  flight other than the seeder, so that a seed plus the pending increments stays within the bound.
  What Redis ran of INCRs nobody heard is added on both sides, and forgotten with the key.
- `RefusalCorrect`, `RefusalJustified`, from the lead, the monotony of both
  totals, and the fact that no cached or carried total exceeds the contracted one.
- `PurchaseCorrect`, `PurchaseSeen`, from `FreshCorrect`: neither the key nor a SET on its way holds
  less than the total last announced. Without `announced` this could not be said: a total read
  before `AddBundle` may be written after its DEL, and then it stands until the key expires.
- `SettledSeen`, `SettledIsSeen`, and `Overshoot`, `OvershootBounded`, under `Benign`: the
  reads of the check do not fail, the counter is not evicted, a quota row and a bag are
  there from the start. Without any of these the code admits without a bound by design
  (it fails open), so the condition is the code's own. The invariant keeps
  `counter >= InitialConsumed + settled` and counts the cleared requests that
  are not settled among those in flight.

`CredentialCacheProofs`, which assumes `ConstantsAssumption` and `NoneAssumption` of
`CredentialCache` (`HorizonAssumption` is not needed: it only keeps the cap of `since`
from making the bounds hold of themselves)
- `TypeCorrect`, `TypeOK`.
- `FreshCorrect`: what an entry, or a row a lookup holds, says of each
  right is what Postgres says, or that right changed no longer ago than the entry's
  age, plus `MaxDelay` once it is in Redis. This is the strengthening the next two rest on. A
  change makes the right recent; a tick ages both sides alike; a write resets the
  entry's age and pays for it with `MaxDelay`; a DEL, lost or late, plays no part.
- `Admission`, `AdmissionRecent`, and `Refusal`, `RefusalRecent`: a decision follows the
  entry or the row, and an entry's age is at most its `Life`.
- `Revocation`, `RevokedOnlyByRace`: inductive as it stands, once it is said of
  lookups that hold an entry as well as of the entries.

`UpstreamsProofs`, which assumes `UpstreamsAssumption`
- `UpstreamsTypeCorrect`, `UpstreamsTypeOK`.
- `CredentialsCorrect`, `CredentialsStayHome`. The row an edit holds has to be at home too, since
  it is written back over whatever is there by then.
- `DefaultCorrect`, `DefaultRecent`. Each place a copy goes through adds what it may wait
  there: a goroutine, Redis, a request.
- `SendsCorrect`, `SendsCounted`, from a count of posts for each place, and the fact that
  a request's copy never changes its retries. It bounds what the authority is asked for and what
  it issues; that what is sold was issued is false (`upstream_sold`).

`GatesProofs`, which assumes `AllowlistAssumption` and `CallerAssumption` of `Allowlist`, and
`RatesAssumption` of `RateLimits`
- `AllowlistTypeCorrect`, `AllowlistTypeOK`.
- `VerdictCorrect`, `VerdictRecent`, and `NoauthCorrect`, `NoauthRecent` (in no run: it is
  the age of one read). What a list in Redis or in a request's hands says of an address, Postgres
  said no longer ago than the list is old, plus `MaxWait` once it is in Redis. DELs play no part.
- `RatesTypeCorrect`, `RatesTypeOK`.
- `CauseCorrect`, `RefusedForCause`: the counter of the tenant's live key is no more than the
  runs of the script since that key began, and a refusal is counted by it. A run is a request's or a
  copy's, so a request whose script was sent twice may cost the tenant two places.
- `TenantCorrect`, `TenantBounded`. A window that is still open is weighed by whether it began
  before the present key (then at most a limit less one request from the key before, whose first
  request is out of the window, and what this key has charged) or under it (what this key has
  charged, less its first request). An eviction lets a second key start and adds a limit; a window
  that is over keeps what it had. The requests without the limit's word are counted as they are, on
  both sides: there is no bound on them, as the code has none.
- `GlobalCorrect`, `GlobalBounded`. What a second has let through is at most the sum of what the
  keys counted that a request could name within it, and there are
  `(Second + MaxTardy - 2) \div Second + 2` of these, for any delay between the name and the
  INCR: a key counted in a second outlives that second, so it never starts again within it. A copy
  only makes a key count faster.
- The properties are sums over sets of ticks; lemmas `TotalFirst` to `TotalReplace` and `SumIs` to
  `SumZero` say what such a sum does when an element is taken out, changed or added.

`BundleAlertsProofs`, which assumes `ConstantsAssumption` of `BundleAlerts` (`Saturation` is not
needed: it keeps the cap of `consumed` from hiding a share)
- `AlertsTypeCorrect`, `TypeOK`.
- `ReportCorrect`, `ReportIsFifo`, by induction over the bundles: what the loop has left
  before a bundle is what the bundles before it did not use up.
- `NoneOverlookedCorrect`, `NoneOverlooked`, by a second induction: a list with smaller
  amounts leaves at least as much before each bundle, and the percentage is monotone in the share.
- `LoggedCorrect`, `LoggedWasSent`, and `CopiesCorrect`, `CopiesBounded`, from one
  invariant: before its row is written, a letter has no more copies than one for each check and each
  fault, and one for each check about to write the row; afterwards only the checks that
  had already asked the log may add one. It is what makes the bound inductive: the copies alone do
  not say how many more are on their way.

Induction over numbers and finite sets is done with sets instead of predicates: `Smallest`
(a set of subsets of a finite set has a smallest) in `GatesProofs` and, from the same
fact of the library, `LeastNumber` and `Climb` in `BundleAlertsProofs`; `RecursiveExists`
shows from it that a recursive function is defined.

`AdminSessionsProofs`, which assumes `SessionsAssumption`
- `SessionsTypeCorrect`, `SessionsTypeOK`.
- `AccessCorrect`, `AccessRecent`: a role in a request was the user's no longer ago than
  the request is old, and one in a token no longer ago than that and the token's age.
- `TicketCorrect`, `TicketOpensOnce`: a ticket that has opened a session and is in nobody
  else's hands is gone, and no request holds it.
- `SecondFactorCorrect`, `SecondFactorStands`: what a login may do for want of a second
  factor, it may as long as its request and its ticket last.

`AdminUsersProofs`, which assumes `UsersAssumption` (a finite set of accounts, for the count)
- `UsersTypeCorrect`, `UsersTypeOK`; with it, that no scope, nor any row a transaction may
  still keep, names a deleted tenant.
- `SuperadminCorrect`, `SuperadminLeft`. A handler past its guard that may still take a
  superadmin away leaves another. The count of more than one gives it that, by the
  cardinality of a singleton, and the loss of the other one is what `overtaken` notes.
- `WordCorrect`, `OneWord`, and `ViewerCorrect`, `ViewerConfined`, from one invariant: a
  handler that writes alone is the only one at work on its user, keeps nobody's rows, and
  its role stands while it writes the tenant; one that does not write alone has
  marred the user.

`RetentionProofs`, which assumes `RetentionAssumption` (months of any length, as long as
each has the job's day)
- `RetentionTypeCorrect`, `RetentionTypeOK`.
- `ReportCorrect`, `ReportComplete`. A month seen to in time has its partition until it
  is a year old, and so have its rows; the cutoff never goes back, which is shown for
  `AddDate` over any calendar.

Only model-checked: liveness (`EveryOutcomeRecorded`, `ContractedHeals`,
`AlertedEventually`), which needs fairness and ENABLED. The violated properties of section 3
are counterexamples, which TLC finds.

## 5. Not modelled, and what is left

Not modelled: encryption, geolocation, metrics, logging, the audit log and the panel's
pages (no state, or none that a decision reads); the parsing of headers and
forms; `ValidateURL` and the other pure checks of an input; the queries of the
reports other than the period of `DailyUsage`, which change nothing; `deleteOldRows`; the
early return of `Process` when the `.env` names no upstream; the loss of Redis' own
last second of writes after a crash of Redis, which returns the counter to a smaller
value, as an eviction does. Six hazards have no property, for the reasons given in
`PROJECT.json`: a tenant with bundles and no quota row, a rotation whose second half fails, `SetDefault` with an id that no row
has, on all of which the code promises nothing; and the overlap of two `SetRole`, the cleanup that
never runs and the partition that is not made, where it promises what it does not keep (10 to 12
of section 3: the models take these steps, and the properties that hold leave them out).

Left, in this order: `StampProxy` over `Upstreams`, its `Send` and `Return` refined by the posts of
a stamp; a lookup of `CredentialCache` that is followed by a check of `Allowlist`, as one request.
