# A TLA+ verification project for hook-tracker

hook-tracker accepts events over an API, stores them, fans each event out to the
endpoints that subscribe to it, and delivers every one of these *deliveries* over HTTP
with retries. It runs as four kinds of Node.js processes (API, worker, scheduler,
dashboard) around PostgreSQL, RabbitMQ and Redis. This directory holds TLA+ modules
translated from that code, the TLC configurations that check them on small instances,
and proofs that TLAPS checks for every value of the constants.

Paths below are relative to the repository; `backend/src/` is left out where it is clear.

## 1. Inventory

### 1.1 The path of a delivery

| Component | State | Operations | Talks to |
|---|---|---|---|
| Publish and replay API (`api/services/publish-service.js`, `delivery-service.js`) | rows of `webhook_events`, `deliveries`; the rows a call is about to insert or queue | `publishEvent`, `replay`, `bulkReplay` | inserts in one transaction, then one awaited publish per PENDING row |
| Message topology (`shared/queue/topology.js`, `publisher.js`) | `webhook.delivery`, `webhook.retry.*`, `webhook.throttle.10s`, `webhook.dlq` | publish with confirm, consume, ack, nack, TTL expiry | dead-letter exchange routes expired messages back |
| Worker (`worker/worker.js`, `worker/handle-delivery.js`) | one call of `handleDelivery` per prefetch slot | find, skip, token, mark IN_FLIGHT, send, three outcomes, disable, dead letter, announce; ack or requeue | database, bucket in Redis, receiver, broker |
| Retry policy (`shared/retry.js`) | none | `classifyFailure`, `selectRetryLevel`, `applyJitter` | called by the worker |
| Stuck sweeper (`jobs/stuck-sweeper.js`) | the batch a pass has read | read, claim, publish, release | conditional updates of `deliveries`, publishes |
| Retention (`jobs/retention.js`) | the batch it is about to delete | select, delete with cascade | database |
| Endpoint administration (`api/services/endpoint-service.js`) | `endpoints.status`, `consecutiveFailures` | enable, disable, remove, (create, update, rotate) | database |
| Broker connection (`shared/queue/connection.js`) | connection and channel of a process | connect with backoff, close | does not reopen a closed connection |

What is hard there: a delivery's state is split between a row and a message, and no
transaction spans both. Every await is a place where the process may die, the call may
reject, or another process may change what was read. The broker redelivers, so every
step may run twice. The correctness claims of `README.md` and `docs/architecture.md`
are: nothing that was accepted is lost; attempts are at most six, one row each; a
terminal status is final; a permanent failure is dead-lettered; the circuit breaker
announces a disable once; a row abandoned IN_FLIGHT is recovered.

### 1.2 Around it

| Component | State | What makes it correct | What is hard |
|---|---|---|---|
| Publish route (`api/app.js`, `api/routes/publish.js`, `api/middleware/`) | one call's position in the chain of middleware; the count of results | every refusal leaves as little behind as if the call had not been made | every middleware awaits Redis or Postgres, and any of them may reject; the client may hang up before its answer |
| Idempotency (`api/middleware/idempotency.js`) | reserved / stored response per key | one execution per key; a failed call frees it | the write of the response failing, the reservation expiring under a slow call, a response that is never finished |
| Rate limiter (`api/middleware/rate-limit.js`) | sliding windows per key and per project | at most the limit in any window | a refused call is counted until its rollback |
| Event types (`shared/event-types.js`) | none | a pattern covers what it says | segments, trailing `*` |
| Target guard, HTTP client (`shared/ssrf.js`, `shared/http-client.js`) | none | no request to a blocked address | a name with several addresses, or other ones later; addresses embedded in IPv6 |
| Token bucket (`shared/token-bucket.js`) | tokens and timestamp per endpoint, in Redis | never more than capacity + rate·t sends | the clock is read before the command, which may run late, twice or after a later one; the rate is edited |
| Secret rotation and signing (`worker/signing.js`, `shared/hmac.js`) | current and previous secret | both sign during the grace period the API promised | the row is read before the rotation, verified after it |
| Endpoint administration, projects, API keys (`api/services/`) | rows, roles | a project keeps an owner; a stored URL was vetted | read, then write, with another call between |
| Sessions (`api/services/auth-service.js`, `api/routes/auth.js`) | refresh token rows, the cookie | a token rotates once; reuse ends the family | two refreshes with one token, an answer that is lost, a sign-out that fails, a refresh over the rate limit |
| Dashboard session (`dashboard/src/stores/auth.js`, `realtime.js`, `lib/api.js`, router) | access token, the shared refresh, the socket | a session is not lost by using it | REST calls, socket and page start all refresh |
| Realtime (`shared/realtime.js`, `api/realtime/socket.js`) | rooms, per-second counters | members only, capped | membership and token outlived by an open socket |
| Alerts (`shared/alerts.js`, `jobs/alert-watch.js`) | suppression keys | one alert per window, none missed | raised through the dependencies that fail |
| Job scheduler, shutdown, connection (`jobs/schedule.js`, `shared/lifecycle.js`, `shared/queue/connection.js`) | running passes, timers, the shutdown in progress | passes do not overlap; nothing in use is closed; the process ends | a pass longer than its interval, a close that hangs, a second signal |
| Pagination (`api/services/keyset.js`) | none | pages neither repeat nor omit | ties, rows that arrive in between |
| Dashboard screens (`dashboard/src/stores/`, `views/`, `components/`, `composables/`) | lists, forms, dialogs, sequence numbers | what is shown is what the URL names | answers out of order, realtime in between, other owners |

`PROJECT.json` lists all components with their status and, under `hazards`, the places
where this code is hard to test, each with the property that watches it.

## 2. Plan

Done: the delivery pipeline (`Retry` to `DeliveryPipeline`, `DeliveryLifecycle`), the publish
route, sessions, administration, the token bucket, process life with alerts, and the
dashboard's screens, with the theorems of section 5. Every invariant that a passing run checks
is stated by a theorem.

Next, in this order:

1. *Composition*: `Processes` with `Worker`, so that a drain that runs out of time hands
   its messages back to the queue of the pipeline instead of ending its units of work.
2. *The rest of the dashboard*: the settings sections that keep one field, the screens of
   events, the statistics of deliveries.

## 3. The model

A step of the model is the code between two awaits, so a value read before an await may
be stale when it is used. Each group below has shared state of its own; where one group
touches another, its effect is an action marked as external there.

The pipeline:

| Module | Source | Correspondence |
|---|---|---|
| `Retry` | `shared/retry.js`; `isSuccess`, `retryAfterSeconds`, `nextRetryLevel` of `handle-delivery.js` | one operator per function. A value that may be `undefined` is an empty or one-element sequence. Jitter draws are sixteenths of `random()`'s range |
| `TargetGuard` | `shared/ssrf.js` | addresses as four bytes or as the parts of an IPv6 text before and after its `::`; filling the gap, classification and the refusals of `resolveSafeTarget` |
| `RetryLadder` | the end of `handleDelivery`, `shared/http-client.js`, `pinnedDispatcher` | one delivery walking the ladder with real statuses, headers and delays, to targets that resolve to any addresses |
| `DeliveryState` | `prisma/schema.prisma`, `shared/delivery-status.js`, `shared/queue/` | tables as functions from id to row (`ABSENT` before the insert, `DELETED` after retention); queues as sets of messages, since neither prefetch nor requeue nor TTL keeps an order the code relies on; the retry and throttle queues are one set, `parked` |
| `Ingest` | `publishEvent`, `replay`, `bulkReplay`, `sendTest` | `PublishEvent`/`Replay` read, `CommitRows`/`CommitRejected` are the transaction, `PublishRow` one awaited publish, `Respond` the answer, `PublishFails` a publish that rejects or an API that dies |
| `Worker` | `worker.js`, `handle-delivery.js` | one action per stretch between awaits; `pc` is the next await. `Catch` is the consumer's catch with its single requeue |
| `StuckSweeper` | `stuck-sweeper.js` | `ReadStuck`, `Claim`, `Recover`, `RecoverFails`, `Release`, `SweeperCrash` |
| `Housekeeping` | `retention.js`, `endpoint-service.js` | two queries of a retention batch with the schema's cascade; enable, disable, remove with the schema's restrict |
| `DeliveryLifecycle` | the statuses and what the docs promise of them | the abstract specification |
| `DeliveryPipeline` | all of it | composition, fairness, properties, refinement mapping |

The API, the processes and the dashboard:

| Module | Source | Correspondence |
|---|---|---|
| `EventTypes` | `shared/event-types.js`; `eventTypePattern` of `schemas/dashboard.js` | a type is a sequence of tokens, the dot among them. What a pattern covers is defined a second time, on its words, for comparison |
| `PublishRoute` | `app.js`, `routes/publish.js`, the middleware, `publish-service.js`, `shared/errors.js`, the publish counter | `call[c].at` is the await a call is in; `Step` is the order of the route. Throwing goes through `Throw`, the error handler, and `finish` counts the answer. `RejectedAwait` and `Die` are the failures, and a client that hangs up is a disjunct of `finish`: its response emits no 'finish', so neither the count nor the release runs |
| `Sessions` | `auth-service.js`, `routes/auth.js`, `socket.js`; the dashboard's `auth.js`, `realtime.js`, `api.js`, `landing.js`, router, `AppShell.vue` | session *n* is the pair of tokens issued together. A refresh is `Refresh`, `usableToken`, `rotate`, `issue`, then `refreshed` or `refused`, or `limited` (429) before any of it; three callers may start one: a REST call (through `refreshOnce`), the socket, the start of a page. A sign-out is `signOut` in the page, `logout` in the service, then `loggedOut` or, in error, `logoutFails`. A socket is checked (`handshake`), joins or is closed at once (`connection`), and ends with its token (`expirySocket`) |
| `Administration` | `project-service.js`, `api-key-service.js`, `endpoint-service.js` and their routes; `signing.js`, `hmac.js`, the receiver's verification | a call is authorised, reads, is guarded and writes in steps of its own. An attempt reads the row, is granted a token or not, signs and is verified with the secret the receiver holds. Secrets are numbers, cryptography is equality. An attempt keeps the promises that were made before it read its row |
| `TokenBucket` | `token-bucket.js`; the rate of `handle-delivery.js` and `endpoint-service.js` | `readRate` reads the row, `ask` reads the clock and sends, `script` is TAKE_TOKEN with the rate and time it was sent with, whose answer may be lost and the command repeated; `fail` is a command that never ran. A token is `Minute` units |
| `Alerts` | `alerts.js`, `alert-watch.js` | a dispatcher walks the probes, the dead-letter queue, the fan-out, the claim and the post |
| `Processes` | `server.js`, `worker.js`, `scheduler.js`, `schedule.js`, `lifecycle.js`, `connection.js` | one process of any kind from its start (`createQueueConnection`, `assertTopology`) to its exit code, composed with `Alerts`; the flag of a job, the passes that a stop waits for and the passes that run are three variables: the alert watch is one of its jobs, another process is a second dispatcher |
| `SequencedRequest`, `Keyset` | `use-sequenced-request.js`, `keyset.js` | the gate with its followers; order, cursor and page. `NewestFirst` is the order the database sorts by, stated as what a sorted sequence of the rows is |
| `DeliveryList`, `DeliveryDetail` | the deliveries store, view, panel, bulk replay, URL filters, and the API they call | answers are computed when the server serves the request and applied later, in any order. A row changes its status by `attempting` (a worker's mark, or a skip: no event) and `attempted` (an outcome with its event). `calls` keep what they counted when they were sent |
| `EndpointForm`, `EndpointPage` | `EndpointFormDialog.vue`, `EndpointsView.vue`, `EndpointRow.vue`, dialogs, the endpoints store | the form's fields and patch, with `trim()` on a text with white space around it; rows, actions, confirmations, secret reveal; `otherOwner` edits any field through the API |
| `ManagedList` | `use-managed-list.js`, `ApiKeysSection.vue`, `MembersSection.vue` | the settings tables |
| `Dashboard` | router, `AppShell.vue` | one screen at a time, the project in the URL may change under it; instances of the four screens |

Abstractions, and why they lose nothing the properties see:

- *Time.* In the pipeline, `overdue` on a row stands for the sweeper's cutoff having passed
  it. `Age` sets it when nothing carries the row any more; with the failure `backlog` also
  when a message has waited too long. Leaving IN_FLIGHT through a retry clears it, because
  `nextAttemptAt` moves into the future. Retention may choose any stored event. Elsewhere a
  clock counts ticks (windows, reservations, grace periods, buckets, the force-exit timer),
  or an expiry is an action (tokens, suppression windows).
- *The receiver's answer* is a choice; *the bucket's answer* is one in the pipeline and in
  `Administration`, and is computed in `TokenBucket`.
- *Workers.* A handler is one prefetch slot. A crash takes one slot; a process that dies
  with several is several crashes in a row, in any order.
- *Confirms.* A rejected await of a handler or a sweeper may have taken effect:
  `HandlerError` is enabled before and after the effect, `RecoverFails` has both cases.
- *The budget of the realtime bridge* (`createThrottle`) may be spent at any time, so any
  event may be missing.
- *History variables.* `holder` (`PublishRoute`), `wins`, `overlap`, `signedOut`, `lost`
  (`Sessions`), `raced`, `crowded`, `promises` (`Administration`), `interval`
  (`TokenBucket`), `sent` (`Alerts`), `crossed`, `told`, `missed`, `base` (`DeliveryList`) and
  `theirs` (`EndpointPage`) record what happened for the properties; no guard of the code's
  actions reads them. `base` is the rows that match the list's view since it was read, `told`
  what the page was told of a row that has not changed since: a commit that changes a status
  (`Became`) takes the row out of both. `missed` is the rows the last reload dropped although
  the page had been told of them. `interval` begins at any tick; `theirs` is the other owner's value of each field.
- *Bounds*, all named constants: `MaxFaults`, `MaxSweeps`, `MaxEnables`, `MaxSessions`,
  `MaxCalls`, `MaxTime`, `MaxBucketTime`, `MaxNow`, `MaxOutages`, `MaxWire`, `MaxEdits`;
  `MsgIds` bounds the copies of one (delivery, attempt) message alive together, and no publish
  of the passing runs finds all of them in use; `HasRoom` keeps an API call from planning more
  rows than there are ids.

### Environment and failures

In the pipeline `Environment` says which operator actions (`replay`, `admin`, `retention`,
`throttle`) and failures (`worker_crash`, `connection_loss`, `handler_error`, `sweeper_crash`,
`sweep_publish_error`, `api_failure`, `backlog`) occur. Each run chooses the ones its question
is about; the theorems hold for every choice they do not exclude. In the publish route a
command to Redis or Postgres may be rejected at every stage after the key was read, the
publish after the commit among them, the process may die, and at any call the client may have
hung up before the answer. In sessions an answer of the server may be lost after it took
effect, a call of the service may fail, a sign-out too, and a refresh may be over the rate
limit at any time. A command of the token bucket waits at most `MaxLate` before it runs or is
rejected, with `MaxLate` and a minute within the five of the key's TTL; all workers read one
clock, and Redis keeps the key until the TTL is over. In the processes the dependencies go
down and come back, a connection is refused or lost, a pass throws, a signal comes at any time
and more than once, and a start fails at the confirm channel or at the topology. A post of an
alert ends within its window, as with the default settings: the configuration sets
`ALERT_TIMEOUT_MS` no maximum. In the dashboard any request may fail, and another caller of
the API may store a description with white space around it; a URL cannot be, since the API
parses it.

### Fairness

- *Pipeline*: weak fairness of every process that has started something (handler, API call,
  sweep, retention batch), of the broker's delivery and expiry, and of the passing of time:
  Node.js's event loop runs every callback that is ready, the broker offers queued messages
  to an idle consumer, and `setInterval` fires. The token bucket refills, so it cannot refuse
  one message for ever: `TakeToken(h, TRUE)` has strong fairness, because the handler leaves
  and returns to it with every parking.
- *Processes*: timers fire, awaited steps of the close return or the force-exit timer runs
  on, a message in hand ends (its request has a timeout), the alert watch's pass takes its
  steps. Nothing is assumed of API requests, of the other jobs' passes or of outages ending.
- *Sessions*: access tokens expire, and the socket's expiry timer fires.

Nothing is assumed of callers, operators, users or failures.

## 4. Runs

`tlc -workers 2 -config <cfg> <module>`.

| Run | Shows | Instance |
|---|---|---|
| `endpoint` | of one endpoint: an owner remains, stored URLs are guarded, promised secrets verify; grants keep to capacity and gain in every interval; a retry waits in the shortest queue that satisfies both the ladder and `Retry-After`, its expiration stays in the jitter band under the TTL, the ladder is exhausted after exactly `MAX_ATTEMPTS`, the guard refuses exactly the special-purpose blocks and a request goes to a vetted address | 2 users, 4 calls, 3 ticks, grace 2; 2 workers, rates 1 and 2, a minute of 2 ticks, TTL 4, commands 2 ticks late or sent twice, 5 ticks; three real delays, three attempts, statuses, headers and addresses on both sides of every comparison |
| `failures` | `TypeOK`, `AuditTrail` under every kind of failure, with retention | 1 delivery, 2 handlers, 2 attempts, any 2 failures, 1 sweep |
| `chain` | failure-free: one carrier per delivery, dead letters, the circuit breaker's disable and its single announcement, and refinement of `DeliveryLifecycle` | 2 deliveries (the second may be a replay), 2 handlers, operator, throttling, retention, threshold 1 |
| `liveness` | `NoLostDelivery`, and `Settles`: an accepted delivery reaches a final status | 1 delivery, one failure (worker or sweeper crash, refused sweeper publish, backlog), throttling without limit |
| `recovery` | `AbandonedIsRecovered`, `ClaimIsHonoured` | 1 delivery, 3 failures, 2 sweeps |
| `publish_route` | one event per idempotency key, 202 names it, limits in every window, reservations end with their calls unless these are interrupted | 3 calls, 2 API keys, 2 idempotency keys, windows and lifetimes of 2 ticks, limits 1 and 2, 1 failure |
| `sessions` | one rotation per token, no session refused by using it, sign-out, the socket's token; the socket of a removed member leaves its room | 2 REST calls beside the socket and the page's start, 2 sessions, 1 failure |
| `processes` | overlap, closing in order, one alert per window; shutdown ends, a busy worker that lost its connection ends, a broker outage is raised | each of the three kinds, 2 slots, 2 jobs, 2 dispatchers, 1 outage |
| `dashboard` | the deliveries screen shows what its URL names, pages without holes, realtime events noticed (`DeliveriesSpec`) | 2 projects, 3 deliveries, pages of 1, 3 requests under way |
| `dashboard_screens` | the other three screens show what their URL names, edits keep others' changes (`OtherScreensSpec`) | 2 projects, 3 deliveries, 2 endpoints, 3 URLs, 2 members or keys, 3 requests under way |
| `give_up`, `list_corrupted` | disagreements of the code with a comment, section 6 | the fewest failures that show the first; the instance of `dashboard` |

The run `endpoint` checks three machines that share no state, each by itself (`MCEndpoint` has
a variable that says which one moves): the administration, the bucket and the ladder.

Why the bounds are enough: two attempts have a first, a last and a retry between them; two
handlers make every race between copies of one message, the threshold race and the redelivery
to another worker; two failures make a crash in the recovery of a crash. In `recovery` an
abandoned row costs two handler errors, so a third failure makes the first sweep's publish
fail and the second pass has to succeed. The `chain` run needs a second delivery for two
failures of one endpoint and for a replay beside its original. Three calls of the route make
one that holds a reservation, one that meets it and one that finds what is left; with a
project limit of two the third is the one over it. Two sessions make a rotation and the use of
the token it replaced. Two users and four calls make an owner add the second one, and both
remove each other; three ticks pass a grace period of two. In the bucket five ticks fill it,
let a late command set it back and its key expire (a key lives for four), and two workers are
a command on time and a late one. Pages of one row over three deliveries give a first, a
middle and a last page, and two rows of one instant on both sides of a boundary. The dashboard
has two runs because a page of the browser shows one screen at a time: each starts on its own.
The first filters by FAILED_PERMANENTLY, which a row does not leave again; a filter whose rows
come and go is in the theorems of section 5. Between them the passing runs fire every action
of their specifications. Deadlock is checked where the system never stops (`Quiet` is the step
of a pipeline with nothing left to do); the publish route, the sessions and the dashboard stop
when their bounded calls are used up.

Symmetry is used on handlers (and on deliveries in `chain`), on calls and API keys, on
projects and endpoints, in runs without liveness.

## 5. Proofs

`tlapm <module>.tla` for the eight modules below. The assumptions are the named ones of the
modules, and TLC evaluates each of them in a run:

- `RetryAssumption`: the schedule ascends, and the cross-field rule of
  `shared/env-schema.js` bounds `MAX_ATTEMPTS`. `DelayAssumption`: a tenth of a delay is
  whole, since the schedule's delays are whole minutes.
- `HeadersAssumption`, `TargetsAssumption`: what headers and names can be: whole seconds,
  well-formed address texts (Node's resolver answers no others), without zone identifiers.
- `StateAssumption`: positive limits, non-empty sets of endpoints and events, finitely many
  handlers, known environment.
- `PublishAssumption`, `CallsAssumption`, `TypesAssumption`: the project's limit is not below a
  key's, as `env-schema.js` demands; finitely many calls, told apart from what an empty or
  reserved key holds; types and patterns are what the two schemas let through.
- `SessionsAssumption`, `AdministrationAssumption`, `ProcessesAssumption`: natural numbers; the
  drain's share is less than the grace period; the alert watch is one of the jobs, and jobs
  are not slots.
- `TokenBucketAssumption`: positive rates and a positive minute; a command waits so long at
  most that a key outlives it by the minute that fills a bucket.
- `DashboardAssumption`: the form of an endpoint is told from none and from a new one's.
  `ListAssumption`: the ids of deliveries are ordered, as strings of one column are (they
  stand as naturals), and finitely many; a page has room for a row.

`DeliveryPipelineProofs`:

- `TypeCorrect`: `Spec => []TypeOK`. Not only types: a handler has a message exactly
  while busy, and no attempt below 1 is ever published, which `messageFor` would throw on.
- `AuditTrailHolds`: `Spec => []AuditTrail`, for every environment. `AuditTrail` is not
  inductive: an attempt number travels through queues, handlers and the sweeper's batch
  before the attempt is recorded, and the outcome is decided one step before it is
  committed. `AuditInv` adds that every message, handler and sweeper row *continues* the
  trail (its attempt is 1 or follows a recorded one) and that a handler about to commit a
  final status holds the answer that justifies it. The argument is monotonicity
  (`TrailGrows`): until retention deletes a delivery, its set of recorded attempts only
  grows, so whatever continued the trail still does, however late or repeated
  (`ContinuesStable`). `LadderEnd` ties the last attempt to the retry operators.
- `NothingLost`: if none of `handler_error`, `connection_loss` and `api_failure` occurs,
  `Spec => []NoLostDelivery`. `NoLostDelivery` is not inductive: it counts an IN_FLIGHT row
  as pursued, because the sweeper looks for it, but a sweeper may claim the row and die.
  `PursuitInv` is stronger: every open delivery is *kept* by a message, a handler or an API
  call, so that with these failures none depends on the sweeper; handlers keep their
  channel, and a call has something to publish only after its commit. Each of the three
  excluded failures alone leads to a lost delivery (section 6), so the hypothesis cannot be
  weakened.

`ChainProofs`, on what no failure, or only some failures, may break:

- `AnnouncedOnce`: `Spec => []DisableAnnouncedOnce`, for every environment. It is not
  inductive: an endpoint that is still ACTIVE can be disabled, and announced, once more.
  `AnnounceInv` counts that disable as `Unspent`; the conditional update spends it, and only
  `enable` grants another. `LiveInv` is needed with it: whatever a message, handler, sweeper
  or call refers to was inserted, so that a handler's endpoint does not change under it.
- `Threshold` (`ThresholdDisables`) and `DeadLettered` (`FailedIsDeadLettered`): both are
  inductive given `LiveInv`, unless a handler throws or dies between its transaction and the
  steps after it; the dead letter needs its channel as well. The hypotheses name just these
  failures, and section 6 shows that they matter.
- `OneCarrier` (`SingleCarrier`), without failures. The count alone is not inductive.
  `ChainInv` says that every delivery has one *keeper*, nobody, one message, one handler or
  one API call, and that the row agrees with the attempt its keeper is to make: waiting, being
  made, or made and not yet scheduled again. Nothing is ever overdue, so the sweeper rests.
- `Implements`: without failures, `Spec => Lifecycle`, the refinement of `DeliveryLifecycle`
  under the mapping of `DeliveryPipeline` (the stage of a delivery from its row, what was
  tried from its attempts). `LifeStep` shows every step to be an accept, an attempt, a mark or a
  purge of some delivery, or a stutter; that an attempt is the next one, and that a final
  status is left by no step, is `ChainInv`.

`RetryLadderProofs`:

- `LeastWait`, `JitterStaysInBand`, `FullLadder`: for every ascending schedule, `Retry-After`
  and draw of the jitter. `selectRetryLevel` is compared with the least delay that is enough
  and not behind the ladder.
- `GuardIsExact`, `ConnectionIsVetted`: the guard's comparisons agree with the special-purpose
  blocks as prefixes of bits, for every IPv4 text and every IPv6 text, whichever way it is
  abbreviated (`JoinedGroups`) and with embedded addresses; the connection goes to an address
  of the checked answer, whatever the name resolves to later.

`PublishRouteProofs`:

- `AcceptedBacked`, from `BackedInv`: what a key of the store holds, and what a call is about
  to answer, is the event of a call with that key.
- `ReservationHeld`: `HolderInv` says that the store holds the reservation of a running
  holder, or its response once stored, and that a key has one running holder. With it a
  reservation names the call that made it (`holder`), which is running or was interrupted.
- `OneEvent`: `OneEventPerKey` is not inductive, since a later call may already be past its
  reservation. `EventInv` adds that while an event is younger than the key's lifetime
  and its caller was told of it, the store answers with it and nobody else holds the key.
- `Limiter`: `SlidingLimit` speaks of windows that the sorted sets no longer hold.
  `WindowInv` relates them: every admitted call that is young enough to count has its entry
  in each window it is counted against, and no refused call has one, so that the count which
  admits a call bounds every window that ends with it.
- `FanOut` (`FanOutFollowsSubscriptions`, which no run checks): `patternMatches` on tokens against `Covers` on words, for names of any length
  (`MatchIsCover`). A valid type alternates words and dots (`TypeIsName`), so that agreeing on
  the words is agreeing on every position.

`SessionsProofs`:

- `OneWinnerHolds`: `TokenInv` says that a token some refresh has won is revoked; the
  conditional update of `rotate` takes live ones only, and no step makes a token live twice.
- `LossHasCauseHolds`, `SignedOutStaysOutHolds`: neither is inductive, since the server
  rotates before the browser holds the new cookie. `CookieInv` says that while no two calls
  that change the cookie were in flight together and nothing failed, the only refresh in
  flight carries the cookie and the server honours it, or is about to answer with its
  successor, and with no call in flight the cookie is honoured, which a 429 leaves as it is;
  after a sign-out that was answered any refresh in flight carries no token and will be refused.
- `SocketFollowsTokenHolds`, from `PageInv`; `SessionsTyped` for the types.

`AdministrationProofs`:

- `RateIsKeptHolds`: `BucketInv` bounds the tokens granted *and left* in an interval by what
  was held, or the capacity, and the gain over the time the script has been shown: forward to
  the last time it was given (`mark`), and again over whatever later commands were behind it
  (`setBack`). Two facts bound one refill (`RefillBounds`): elapsed time gains at most at the
  highest rate asked with, and a key that expired has been idle long enough to fill. That the
  key outlives a late command is `TokenBucketAssumption`, and needed there.
- `StoredUrlsAreGuardedHolds`: `UrlInv` carries the guard's verdict through the calls: what
  a call has seen, and what it is about to write, was let through.
- `OwnerRemainsHolds`: "there is an owner" is not inductive, because a removal may already
  be past its count. `OwnerInv` asks for an owner who is the target of no removal in flight,
  until two removals have raced.
- `PromisedSecretVerifiesHolds`: `SecretInv` follows the secrets from the rotation that
  replaces them, through the row, to the attempt that read it: until rotations crowd each
  other, the row of an attempt carries as its previous secret whatever was promised, and not
  yet over, when the row was read. An earlier form of the property, which compared the
  instants of promise and read, fails when a row is read and a secret rotated in one tick,
  with the read first; the proof failed there. The property now names the promises made before
  the read.

`ProcessesProofs`:

- `NoOverlapHolds`: the timer sees the flag, not the pass. `WorkInv` says that the jobs whose
  flag is set are those the runner waits for and those that have a pass running, one each.
- `ClosedIsUnusedHolds`: `ShutdownInv` adds the close. It ties the step of the close to what
  is already stopped: after the first step no work starts, after the second none is running
  (or a worker's drain is over), and the connection is closed in the third.
- `OneAlertPerWindowHolds`: `AlertInv` says that a dispatcher about to post holds the
  window alone and nothing was sent in it.

`DashboardProofs`, with an invariant for each of the four screens (`ListInv`, `DetailInv`,
`EndpointInv`, `TableInv`):

- `Shown`: `ShownIsOfRoute` is not inductive, since the answer that is about to be shown was
  asked for earlier, perhaps under another URL. The screens share `GateInv`: a request is
  current for the gate exactly when it is the last run of its own (the code keeps two
  counters, `seq` and `ownSeq`), so that the run which may write is the one that lowers
  `loading`. Each screen adds that a current request asks for what the URL names; a change of
  the URL claims the gate in the same step. The endpoints' rows need no quiet moment: they are
  of the URL's project even while loading, but for the strays.
- `EditsAreOwn`: `FormInv` says that a submitted form stays open until its one call is
  answered, and that the call carries touched fields of the form's own endpoint. `Form` is
  what makes `buildPatch` safe: a field not counted as touched is as it was when the form was
  opened, through typing, chips that are added from a draft (`DraftFollows`) or removed. Such
  a field is in the patch only when trimming it changes it (`Sent`), so a form writes the
  fields it touched and the padded ones, and no others (`Own`).
- `NoHoles`, `Noticed`: `PageInv`, in four parts. `PageTypes` says that a line on screen keeps
  the id and the creation time of its row, whatever happens to its status, and that the cursor
  is the end of the list. `CallsInv` says who may be under way: one current load, and then the
  list is loading; one page, which goes on where the list ends if it is current and was asked
  for between loads. `AnswersInv` says what an answer on its way must hold: a current load has
  read every row the page was told of, unless it is counted or on screen, and what its answer
  then drops is `missed`; a page has read every row of `base`. `ScreenInv` is the two
  properties with the rows at or below the cursor named. An answer is right by `ListAnswers`:
  one page of a sorted set leaves no row out, which needs that a finite set of rows can be
  sorted (`SortExists`, by a least counterexample and `SortInserts`), and `PagesJoin` puts one
  page after another. The order is total only because of the tie-break (`NewerTotal`). The
  proof corrected the property: an earlier form asked for the rows that matched when the list
  was read, and match now. It is not inductive, and it is false of the code, see section 6.

Only model-checked: liveness (`Settles`, `AbandonedIsRecovered`, `ClaimIsHonoured`,
`SignalledExits`, `LossEndsBusyWorker`, `BrokerOutageRaised`, `RemovalTakesEffect`), which is
out of the prover's reach.

## 6. Where the code and its documentation disagree

Two have a run whose counterexample is a trace of the code's own steps.

- `give_up`: a message that fails twice is acked whatever its row says. `worker.js:73`
  says the row "is left IN_FLIGHT for the stuck sweeper"; an error before the mark leaves
  it PENDING or RETRYING, one after the commit of a retry leaves it RETRYING, and the
  sweeper selects IN_FLIGHT only.
- `list_corrupted`: `use-sequenced-request.js:49` says that a newer run of the owner
  invalidates a follower's request, since "a page appended after a reload has replaced the
  list would corrupt it". `loadMore` (`stores/deliveries.js:93`) may be called while a load
  is in flight; it then carries that load's number and the old list's cursor, and its page is
  appended to the new list.

What the pipeline's properties leave out, because the code does not give it:

- *A final status may be overwritten.* `delivery-status.js:14` calls terminal statuses
  finished "for good". The updates in `handle-delivery.js` do not name the status they
  expect, so with two copies of a message (a crash between publish and ack is enough) the
  slower handler overwrites the final status of the faster.
- *An attempt past the last.* `README.md:86` promises at most six; the sweeper publishes
  `attemptCount + 1` without a comparison with `MAX_ATTEMPTS`.
- *A row without a message.* `README.md:24`, "Nothing is lost"; an API call that cannot
  publish leaves a committed PENDING row that no job looks for.
- `NoLostDelivery` fails with `connection_loss`: the broker requeues the message of a
  handler that runs on; when the requeued copy has finished the delivery, the handler
  commits RETRYING over the final status and cannot publish the retry.
- `FailedIsDeadLettered` fails with `worker_crash`: a worker that dies between the commit
  of `FAILED_PERMANENTLY` and the dead letter (`handle-delivery.js:223`) leaves a message
  whose redelivery is dropped because the row is terminal.
- `ThresholdDisables` fails with `worker_crash` between the increment and the conditional
  update (`handle-delivery.js:212`); the next permanent failure repairs it.
- With `backlog`, the sweeper's claim may match a row whose attempt was recorded, and that
  was marked IN_FLIGHT again for the next one, after the pass read it, since the predicate
  holds the status only (`stuck-sweeper.js:43`); the attempt it publishes repeats one
  already made. `AuditTrail` survives this.
- A 2xx whose body breaks off is an error of the request and is retried.

The exceptions the other properties name are reachable, and each is a gap in the code:

- *A client that hangs up before its answer*: `idempotency.js:51` says that "a failed request
  releases it on the way out", where the way out is the response's 'finish'
  (`idempotency.js:53`). Node emits none on a response whose connection was closed before it
  was ended: a call that fails then keeps its key reserved until it expires, without any fault
  of Redis or death of the process, and the client's retries are answered 409 for that long.
  `Interrupted` names that case (`closed`) for `ReservedIsHeld`.
- *`missed`*: `stores/deliveries.js:65` says of an id counted before a reload that the reload
  settles it: "it is either on screen now or it is not the operator's to see". The server may
  read the list before the delivery comes to match the filter, and tell the page of it before
  the answer arrives; the id is counted already, so the event changes nothing
  (`applyRealtime`), and the answer, which lacks the row, takes it out of the count
  (`settlePending`). A row on screen is dropped by a reload in the same way. `ToldIsNoticed`
  excuses these two, and nothing else.
- *A padded description*: the form says "Only the fields you edit are sent"
  (`EndpointFormDialog.vue:488`). It compares its trimmed text with the stored one, and the API
  stores descriptions as they are given (`schemas/dashboard.js:53`,
  `endpoint-service.js:82`): one that another client stored with white space around it is in
  every patch although nobody touched it, and overwrites what another owner made of it
  meanwhile. `EditTouchesOnlyItsFields` excludes such fields.
- *`raced`*: two owners removed at the same time are both counted before either is deleted
  (`project-service.js:129`), and the project is left without an owner.
- *`overlap`*: `lib/api.js:54` shares one refresh among REST calls, but the socket
  (`realtime.js:58`) and the page's start (`auth.js:121`) refresh on their own; two refreshes
  with one token end the family. A refresh in flight at a sign-out brings a cookie back. The
  page drops its session on any error of a refresh (`stores/auth.js:73`): on a lost answer,
  and on a 429 of the limiter in front of `/auth/refresh` (`routes/auth.js:38`), which counts
  everybody behind one address together. The cookie stays, and the next start of the page
  signs in again. `LossHasCause` is about the service's refusals and the cookie that is left.
- *A sign-out that fails* (`stores/auth.js:108`) clears the page in its `finally`, but cookie and
  token stay alive: the next start of the page signs the user in again. `signOut` of
  `AppShell.vue:128` does not go on to the sign-in form then either.
- *Late commands of the token bucket* (`token-bucket.js:32`, `:44`): the time a command
  carries was read before it was sent and is stored unconditionally. One that arrives after a
  later one sets the bucket back, and the time between the two is granted again. `RateIsKept`
  counts it as `setBack`.
- *`crowded`*: a second rotation within the grace period drops the first secret although the
  API promised it until a later instant.
- *`crossed`*: the case of `list_corrupted`.
- *Redis failing in the publish route*: `idempotency.js:45` takes the response for stored
  before the write succeeds, so a rejected write leaves the key reserved for its lifetime
  and so does a rejected release; the release deletes the key without looking whose it is.
- *A connection that closes while a process is idle* (`connection.js:96`) is not reopened;
  readiness and the alert watch keep failing until someone restarts the process.
- *A Redis outage is never alerted*, since the claim needs Redis (`alerts.js:27`), although
  `docs/architecture.md:230` and `CHANGELOG.md:102` list it. A claim is kept when its post
  fails, so that alert is lost for the window.

In the dashboard the model also shows: a list filtered by RETRYING may leave out a delivery
that is RETRYING in every answer but one (the attempt in between marks it IN_FLIGHT,
`handle-delivery.js:304`, while the page it belongs on is read), so no row is promised but those
that match all along; an older load's answer overwrites a realtime patch; a
replay's late answer is shown on the delivery opened since; an endpoint created before a
switch of projects is added to the list of the new one; two rotations that overlap lose one of
the two secrets; a confirmation dialog of the settings stays open when the project changes. And
reading beside it: `BulkReplayControl.vue:52` tests `matched > cappedAt`, which the API never
answers; `DeliveryDetailPanel.vue:22` describes another rule for replays than
`delivery-service.js:132`; `delivery.created` is subscribed to and never emitted.

## 7. Not modelled

- The cryptography of signatures, tokens and passwords: libraries. Equality of secrets stands
  for it.
- Reports: the statistics of deliveries and their chart, metrics collection and exposition.
  They read and keep nothing.
- Lists and forms that add no interleaving: the screens of events (a keyset list without
  realtime), sign-in and registration forms, the project's name and alert sections.
- Data and wording: the OpenAPI document, request schemas beyond accepted or refused, queue
  names, log lines, templates beyond which control is offered when.
- The counting of the sign-in limiter by address and account (`api/auth-rate-limit.js`, over
  the repository's own sliding window, which `PublishRoute` models): a refresh may be refused
  at any time. `lastUsedAt`, on which nothing decides; clocks that disagree between machines;
  a command of the publish route to Redis that takes effect although it is reported as
  rejected.
