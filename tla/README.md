# TLA+ verification of the Empyrean V2 backend

This project models the concurrent and failure-prone parts of the backend,
checks them with TLC on small instances and proves the most important safety
properties with TLAPS for every instance. `PROJECT.json` lists the components,
the runs, the hazards, the theorems, and for every definition the source lines
it stands for.

    tlc -workers 2 -config MqttSession.cfg MCMqttSession   # one run
    tlapm AuthTokensProofs.tla                             # one proof module

## 1. The system

Sensor nodes publish readings over MQTT. The web process runs an MQTT client
with three threads; it validates messages and hands readings to Celery through
Redis. Celery workers store readings in PostgreSQL, Celery beat starts the
threshold check, aggregation, clean-up and forecasting. The Quart API serves
readings, alerts, settings and accounts; alerts reach users over MQTT and
WebSockets. State lives in PostgreSQL (READ COMMITTED), in Redis (broker,
caches, breaker) and in process memory (queues, limiter, readiness).

| Component | State it keeps | Operations | Hard behaviour | Model |
|---|---|---|---|---|
| MQTT session (`mqtt/client.py`) | pending SUBSCRIBEs, grants, ready flag, retry flag | paho callbacks, worker's re-subscribe | callbacks and worker interleave, SUBACK reordering, reconnects | `MqttSession` |
| MQTT ingestion (`mqtt/client.py`) | bounded queue, per-node limiter, drop counters | `_on_message`, `_enqueue`, worker, `stop()` | three threads, full queue, Celery down, draining stop | `MqttIngest` |
| Reading task (`tasks/process_reading.py`, `celery_app.py`) | queue, rows, breaker window, `readings:latest` | deliver, insert, retry, acknowledge, invalidate | redelivery, ambiguous commit, worker death, open circuit, stale cache | `Readings` |
| Node registry (`api/nodes.py`) | nodes row | register, update, clear cache | commit and invalidation are two steps | `Readings` (activation only) |
| Threshold alerts (`tasks/alerts.py`, `api/alerts.py`) | alert rows, deferred notifications | `check_thresholds`, acknowledge | overlapping runs, row locks, crash between commit and publish | `Alerts`, `AlertBoard` |
| Settings (`api/admin.py`) | settings rows, audit log | PATCH | validate-then-lock, missing rows, deadlock | `Settings` |
| Accounts (`api/auth.py`, `api/jwt.py`, `api/profile.py`) | refresh tokens, reset tokens, user cache | register, login, refresh, logout, change, delete, reset | rotation races, reuse response, one-time links, stale cache | `AuthTokens` |
| Alert publisher (`mqtt/publisher.py`) | failed-message deque, batches in hand | `publish_alert`, retry batch | bounded queue with a batch out, interrupted retry, worker death | `AlertPublisher` |
| WebSockets (`api/ws/`) | connection set, captured loop | handshake, re-authenticate, broadcast, close | broadcast from another thread, stopped loops, revoked tokens | `Sockets` |
| Delivery of alerts (both of the above and the MQTT client) | topic `air/alerts`, the worker's queue | receive, drop, handle, stop, start | composition; full queue, client that stops | `AlertDelivery` |
| Forecast (`tasks/forecast.py`, `api/forecast.py`) | model key, forecast keys | retrain, fit on demand, answer | two keys read apart, stale model stored late, damaged blobs | `Forecast` |
| Aggregation and retention (`tasks/aggregation.py`) | hourly buckets, rows | hourly run, purge | overlapping runs, late readings, purge in between | `History` |
| Token clean-ups (`tasks/aggregation.py`) | token rows | two DELETEs | rows vanish under requests that have read them | `AuthTokens` |
| Export and rate limiter (`api/export.py`, `api/rate_limit.py`) | counter, cooldown key, semaphore, generators | admit, queue, stream, cut off, close | clients that leave, suspended generators, Redis outage | `Export` |
| Validator, AQI, fuzzy engine (`mqtt/validator.py`, `tasks/aqi.py`, `fuzzy/`) | none | pure functions | band edges, gaps, missing values | `AirQuality` |
| Device configuration push (`mqtt/config.py`) | none | publish after an update | unordered, may fail | not modelled (section 6) |
| Configuration, factory, mailer, scripts | none of their own | start-up | - | not modelled |

What makes each part correct is listed with its model in section 3. Components
interact through the Celery queue (ingestion to reading task), the database
(readings to alerts, settings to alerts), Redis (breaker, caches) and the
MQTT publisher (alerts to users).

## 2. Plan

Order: the paths on which data, alerts or sessions can be lost come first.

1. `MqttSession`, `MqttIngest` (done): from the broker to Celery.
2. `Alerts` refining the abstract `AlertBoard`, and `Settings` (done).
3. `AuthTokens`, `Readings` (done).
4. `AlertPublisher` and `Sockets`, composed in `AlertDelivery` (done).
5. `History`, `Forecast`, `Export`, `AirQuality` (done).
6. Proofs of the safety properties of `MqttSession`, `Settings`, `AuthTokens`,
   `Alerts` with its refinement, `MqttIngest`, `Readings`, `Forecast`, `Export`,
   `AlertDelivery` and `AirQuality` (done, section 4).
7. A module for the node registry with the configuration push, should the push
   ever promise an order or a delivery.

Composition: `AlertDelivery` joins publisher, topic, MQTT client and sockets,
because the hand-overs are where an alert can be lost. `Readings.Dispatch` is the
successful `delay` of `MqttIngest.Dispatch`, `Alerts.Publish` is the call that
`AlertPublisher` starts from, `History.Store` is the commit of `Readings.Insert`,
and the thresholds of `Alerts` are the pair whose order `Settings` guarantees;
these modules are kept apart because each pair shares a single hand-over and a
joint model would only multiply state spaces.

## 3. Modules, runs and results

Each module keeps the names of the source where it can. Definitions with a
suffix after an underscore (`MayClaim_Unlocked`) are faulty variants: what a
plausible bug would make of the definition; `PROJECT.json` pairs each property
with one that breaks it.

### MqttSession - readiness of the MQTT client
`pending_subs`, `granted_topics`, `ready` and `subscribe_failed` are
variables; the broker's side is a record of what it granted on this connection.
paho callbacks are single actions (they run on one thread); the worker's
re-subscribe loop is split at every point where a callback can run, so the
packet id of a retried SUBSCRIBE may be stored after its SUBACK was handled.

Run `session` (two faults, packet ids reused): `ReadyMeansSubscribed`,
`NoTopicAbandoned`, `EventuallySubscribed`. Two faults suffice
for a denial and a lost connection in the same behaviour, in either order.
Fairness: the paho loop and the worker run, and the retry interval passes.

### MqttIngest - from the broker to Celery
Loop thread, worker and the caller of `stop()`, each with a step per blocking
point. Messages carry only what routing tells apart. The limiter's dictionary is
the sequence of its keys by time: `Remember` moves a node to the end (`Others` is
the rest) and evicts from the front.

Run `ingest`: every delivered message is in one place or lost and counted
(`MessagesConserved`), the worker survives failing
handlers (`QueueServed`) and `stop()` returns (`StopTerminates`). A queue of one slot makes overflow and the
race of worker and drain happen with few messages.
Fairness: each thread is scheduled; every wait in the code has a timeout.

### Readings - the reading task, the breaker and the latest snapshot
The broker is the number of waiting messages per payload and retry count. A
worker goes through load, insert, cache, retry, record, acknowledge; it may die
anywhere (the message returns) or be killed by the hard time limit (it does
not). An OperationalError in COMMIT may or may not have stored the row. The
breaker's rolling window is the number of failures in it. Readers of
`/readings/latest` query and fill the cache in two steps; node updates commit
and clear it in two steps. Any Redis command may fail.

Run `readings`: `TimedStoredOnce`, `NothingVanishes`, `EveryReadingSettles`,
`CircuitRecovers`, `LatestCatchesUp`. One payload is enough for the delivery
properties because redelivery and retries create several copies of it, for two
workers at once; one retry, one death and a threshold of two reach the open
circuit, the refused retry and the exhausted retry.
Fairness: workers run; entries of Redis age.
Payloads without a device time get a new time at every run and are stored again
on redelivery; the property is stated for readings with a device time.

### Alerts and AlertBoard - threshold alerts
A run of `check_thresholds` reads settings and readings, upserts node by node
under row locks that last until its commit, and publishes afterwards. Several
runs overlap, a run may crash at any step, users acknowledge in two steps.
`AlertBoard` says what an operator sees: an alert opens, only becomes more
severe while open, and closes by acknowledgement. An `alert_id` is modelled as the
node and the position among its rows (`AlertId`).

Run `alerts`: `OneOpenAlertPerNode`, `NotifiedAfterCommit`,
`NotifiedAtMostOnce`, the refinement `BoardSpec`, and `BreachStaysVisible` (a
lasting breach ends up in an open critical alert although users acknowledge).
Two runs, two users and one crash are the smallest instance in which a retry
overlaps with another run. Run `alerts_two_nodes`: the runs take the rows of
two nodes in one order, so some run can always go on (`SomeRunProgresses`).
Fairness: started runs and requests go on. A crash is never forced.

### Settings - PATCH /admin/settings
Pre-check on a snapshot, SELECT ... FOR UPDATE row by row in any order,
re-validation, upserts in field order, audit entries, commit; PostgreSQL aborts
a deadlocked transaction.

Run `settings` (seeded database, three patches): `PairOrdered`, `AuditChain`,
`EveryPatchAnswered`. Three patches let two of them race while a third commits
in between. Fairness: requests go on; the deadlock detector acts.

### AuthTokens - sessions, reset links and the user cache
One account. Request slots run registration, login, refresh, logout, password
change, deactivation, reset and authenticated requests, with a step per await.
Multi-row statements fix their rows when they start and lock them one by one;
changes become visible on commit. `root` records which login a token descends
from. The two clean-up tasks delete rows that no request has locked; a request
that has read such a row finds nothing to update, and fails or skips it.

Run `auth`: `OneLivePerLogin`, `DeadChainStaysDead`, `ResetIsOneTime`,
`DeactivationTakesEffect`. Two requests suffice for every pairwise race; three
tokens allow a rotation, its replay and another login; two reset links allow
one to supersede the other. `MaxIssued` = 3 bounds the rows of both tables
together: three tokens, two tokens and a link, or a token and two links, and any
of them may be deleted and its slot stays used. The proofs cover every number. Fairness:
a cached row expires.
The model also contains the case that a login or rotation in flight commits a
token after a password change selected the tokens to revoke. The code gives no
guarantee there, and no property claims one.

### AirQuality - what a reading's numbers become
The bounds of the validator, both breakpoint tables, interpolation and
truncation, the membership functions, the 27 rules and the weighted average, in
integers: concentrations in tenths, memberships in thousandths, scores in
hundredths. The sums of the engine's loops are written out over the rule table
(`OverRules`), with zero for a rule that does not fire. The state is the last
sample and its row; a step changes one field, so a property can compare two
neighbouring samples.

Run `air_quality`: `CategoryFitsIndex` (index and category agree, with the one
exception of a value in the gap of the PM10 table), `AqiMonotone`,
`EverySampleScored` (the three terms of each variable always sum to one, so some
rule fires), `PollutionRaisesScore` (between the landmarks, the PM2.5 levels at
which one term holds alone, the score never falls) and `ScoreDipsAreSmall` (on a
ramp it may, by less than nine points: the average shifts to a worse consequent
whose rule is still weak). The sets of `MCAirQuality` hold every
breakpoint with its neighbours, the middle of every ramp, values outside the
tables and values that the validator drops. Nothing runs concurrently here and
no fairness is assumed.

### History - roll-ups and retention
Time advances in half hours. `hourly_aggregate` is four steps (earliest row,
watermark, upsert, commit), because each SQL statement has a snapshot of its own
and the upserted buckets become visible on commit. Two executions overlap, one
may fail at any statement; readings are parsed and stored in two steps and may
carry a time stamp `Lag` hours off; purges read a retention that an administrator
may change.

Run `history`: `RollUpsConverge` (the buckets of complete hours that were not
purged end up equal to their rows) and `RetentionHolds` (once the clock stands
still, no hour beyond the horizon keeps rows, a late reading's included, or a
bucket that an aggregation wrote back after the purge). `Lag` = 1 stands for the
24 hours that `_parse_time` accepts and the aggregation looks back, and for a day
of retention: the code uses the same 24 hours three times, and the model shows
that they fit. Two readings let a late reading fall into an hour that is rolled
up, at the edge of the look-back, and purged. In five hours the horizon of the
longest retention, three hours back, reaches hour 1: hour 0 with its rows and its
bucket lies beyond it, and the hours after it are the ones that converge.
Fairness: beat starts both tasks again and again, and what was started is run.
The clock need not advance.

### Forecast - model and forecast keys
A request reads the model key, then the forecast key of that model's version,
then may load points, fit, store the model and store the forecast, a step per
Redis command or query; the retraining task does the same without a request.
Keys expire, one value may be damaged, Redis may be down for a while, and a
blob of the code before `trained_at` may be there at the start. A damaged model
may be no JSON object at all (`Junk`), or an object without usable coefficients,
with or without its stamp (`Broken`). The API takes a version from any object;
only `_get_model` tests whether it is a model.

Run `forecast`: `AnswerMatchesModel` (a response holds the forecast of the model
that the request found or fitted, and after a damaged blob at least one of the
version that the blob named) and `ModelCatchesUp` (when the readings stop changing,
the key ends up without a model or with one of all of them). The second tolerates
that a stalled request overwrites a newer model until the next retraining; that,
and the answers a damaged blob leads to, differ from what the code's comments say
(section 5). Two requests and a
trainer are the smallest instance in which a request stores a stale model after a
retraining while another one answers from it. Stamps are only compared, so four
are enough for the three processes and the key: `ForecastConstants` asks for one
more than the requests and the key can hold, the finite counterpart of a clock
that never shows the same `trained_at` twice. Fairness: the retraining is
started by beat and goes on, an outage ends.

### Export - limiter, cooldown, semaphore and stream
`Arrive` and `NextMinute` are the limiter's counter, `Claim` the `SET NX` of the
cooldown, `Acquire` the semaphore's queue, `Row`, `CutOff`, `Exhausted` and
`QueryFails` the two nested generators. When the outer one stops early the inner
one is an orphan that keeps its permit until the event loop finalises it.

Run `export` (two requests of one account, one of another, one permit):
`OneExportPerCooldown`, `CompleteOrMarked`, `ExportsEnd`. One permit makes every
leak fatal; two rows give a stream a beginning, a middle and an end; one fault is
a Redis outage or a failing query. Fairness: the event loop runs what is ready
and a connected client reads its rows. The second half is an assumption about
clients, not something the code enforces (section 5).

### AlertPublisher, Sockets and AlertDelivery - from publish_alert to the browser
`AlertPublisher` is one worker process: threads that publish, the bounded deque,
batches taken from it, retries that succeed, fail or raise, and the death of the
process. Celery's soft time limit is an exception raised wherever the thread is.
It is modelled at every point of a retry: while the batch is taken or just after
(`TakeInterrupted`), with a message in hand (`Interrupted`), between two messages
(`InterruptedBetween`) and in the `finally` clause (`UnwindInterrupted`). A first
publish that raises, for this or another reason, is `PublishRaises`. `MaxFaults`
bounds the deaths and those interruptions that cost a message.

`Sockets` is the API's WebSocket side: handshake, registration with the capture
of the running loop, the re-authentication interval, broadcasts in two steps (the
locked copy, the scheduling), sends, dead sockets and restarts of the loop; access
tokens may be revoked and expire, and the blocklist fails open. `AlertDelivery`
adds the topic and the API's MQTT client: its loop thread puts an alert on the
worker's bounded queue or drops it when that is full, which may be the readings'
doing; the worker, or the drain of `stop()`, broadcasts it; a stopped client
loses what is queued, and a new one can be started.

Run `delivery`:

- `LostOnlyByPolicy`: an alert that failed once disappears unsent only if its
  retries were used up, if it was pushed out of a deque that is full afterwards, if
  the worker died, or if the thread that had taken that very message was
  interrupted at that step; `AtRisk` names these messages for every place a thread
  can be in. Nothing else may be lost by an interruption, by a raising retry or by
  two threads that publish and retry at once. The code's comments promise more
  (section 5).
- `OpenSocketsReachable`: an open socket is registered and the captured loop is its
  own, at every interleaving of connects, restarts and failed broadcasts.
- `AlertReachesSocket`: an alert on the worker's queue reaches every socket that
  stays open, unless the client is stopped. An alert that is still on the topic
  need not arrive: a full queue drops it.
- `DeadAccountLosesSocket`: when the account or its tokens are gone for good, so is
  the socket in the end.

Publisher and sockets share nothing but the topic, which the publisher never
reads, so the run starts from two kinds of initial states (`MCInit`). In one, the
user cannot connect, and four alerts go through a deque and batches of two with two
faults: the deque overflows while a batch is out and is put back, and a thread is
interrupted before or after another one or the worker has met a fault. In the
other a user connects while two alerts are published without faults, so that the
watched one stands in front of or behind another in a queue of two. One socket
next to `Ghost`, which stands for the sockets of stopped loops, is enough because
sockets do not affect each other except through the captured loop.
Fairness: the worker thread and the event loop run, timers and tokens expire.
Nothing is assumed of callers, of the broker connection, of the loop thread or of
clients, so nothing is claimed about an alert that waits in the deque or on the
topic.

## 4. Proofs

All proofs hold for arbitrary constants under the ASSUMEs of the modules, which
the runs evaluate.

- `MqttSessionProofs`: `TypeOK`, `ReadyMeansSubscribed`, `NoTopicAbandoned`.
  The invariant adds where the worker's retry loop is and that
  every registered or in-flight SUBSCRIBE belongs to the current session, so
  that a packet id stored late cannot hide a topic.
- `SettingsProofs`: `TypeOK`, `PairOrdered` (assuming both threshold rows exist
  at the start), `AuditChain`. The invariant says that a transaction past its
  locks holds the rows it read, that the values it read are still the committed
  ones, and that its merged pair is ordered.
- `AuthTokensProofs`: `TypeOK`, `OneLivePerLogin`, `ResetIsOneTime`,
  `DeadChainStaysDead`. The invariant says that row locks are exclusive, that a
  claimed token is still live and locked by the request that claimed it (hence
  minting replaces rather than adds), that a redeemed link is unused and locked,
  that only existing rows are locked, and that roots are issued tokens.
  Commits touch only rows the request holds or can lock, and the clean-ups only
  rows nobody holds, so no request loses what it relies on (lemmas `Frame` and
  `CleanupStep`).
- `AlertsProofs`: `TypeOK`, `OneOpenAlertPerNode`, `NotifiedAfterCommit`,
  `NotifiedAtMostOnce`, `SomeRunProgresses` and the refinement `BoardSpec`. The
  properties alone are not inductive: a commit inserts or upgrades rows on the
  word of an upsert that ran earlier. `WritesStand` says that what a run wrote
  would still be decided the same way (an insert finds no open row, an upgrade a
  less severe one), which the row locks justify: they are exclusive, and both
  other upserts and acknowledgements wait for them. `OutboxFresh` says that what
  is about to be published is committed, unpublished and in one outbox. For
  `SomeRunProgresses`, a run locks in node order (`LockOrder`): if all runs waited,
  the last of the rows they wait for would be held by a run that waits for a later
  one.
  The refinement has a lemma per action that touches rows (`Commit`, the write
  of an acknowledgement); all others are stutters of the board.
  About `AlertDelivery`: `PublisherTypeOK`, `SocketsTypeOK`,
  `OpenSocketsReachable` and `LostOnlyByPolicy`. The last one compares the
  alerts held before and after a step, so its proof is about where the messages
  of the deque and the batches go: lemmas on `Enqueue`, `Requeue` and taking from
  the front say which messages each keeps, and one lemma per action says that an
  alert that is in none of the places afterwards is excused (`Excused`): exhausted,
  pushed out of a full deque, with its worker, or at risk in a thread that this
  very step interrupts. `PublisherTypeOK` bounds the deque and every batch and says
  that a thread holds messages only inside the retry; `DeliveryInv` joins it to the
  sockets and the worker's queue (`DeliveryTypeOK`), because the theorems are about
  the composition.
  `OpenSocketsReachable` is inductive with the types; the step that matters is the
  forgetting of a failed loop, which must not meet a loop that `connect` has just
  captured.
- `MqttIngestProofs`: `TypeOK`, `MessagesConserved` and `LimiterBounded`. The invariant adds that a thread holds a message exactly
  while it handles one and that the broker's undelivered messages are nowhere
  in the pipeline. Counting is cardinality: every step either moves one message
  from one place to another or is one of the two that lose and count it.
- `ReadingsProofs`: `TypeOK`, `TimedStoredOnce`, `NothingVanishes`. That a reading
  is in the system is not inductive, because a task about to acknowledge still
  counts as one. `Carried` counts only messages and tasks that have still to
  store the reading or to retry (`load`, `insert`, `retry`), and `PayloadOK` says
  that a dispatched reading is carried, stored or reported: every way out of those
  places (lemma `AdvanceInv`) stores, republishes or reports. A duplicate key must be the
  reading's own row: `TimeOK` says that a task about to insert has the device's
  time, or a time that no row, device or other task has. Every task step,
  including a worker's death, is an instance of one relation, `Advance`.
  About `AirQuality`, for any values a sensor may report: `CategoryFitsIndex`,
  `AqiMonotone`, `EverySampleScored` and `PollutionRaisesScore`. The invariant
  (`AirInv`) says that the row was built from the last sample; the rest is about
  the operators. `BandTable` states what both breakpoint tables have in common
  (bands ascend, and a value just above a band has at least that band's last index),
  and `IndexInBand` and `IndexMonotone` follow for every such table. For the
  engine, `TempPartition`, `HumPartition` and `PmPartition` say that the terms of a
  variable add up to one, so `SomeRuleFires`; a sum over the rule table is compared
  row by row (`SumCompares`, `SumScales`), which puts the weighted average on
  the scale of the consequents. At a landmark one rule per row fires, with the
  strength of the weather (`LandmarkRows`), and its consequent is never better at a
  higher level (`ConsequentWorsens`).
- `ForecastProofs`: `TypeOK`, `AnswerMatchesModel`. The invariant says that a stamp
  identifies one model among those held by the key, the requests and the forecast
  keys (`OneModelPerStamp`), that a readable forecast under the stamp of a held
  blob was made by a model of that stamp (`CacheKeyed`), and where a request may
  hold a damaged blob (`RequestOK`). A blob that lost its stamp leads to `Legacy`,
  so the forecasts under `Legacy` have to be part of it although no model is held.
- `ExportProofs`: `TypeOK`, `OneExportPerCooldown`, `CompleteOrMarked`, and the
  accounting of permits: the semaphore's waiters are exactly the queued requests,
  each once, and free permits plus streams and orphans make up `MaxStreams`. A
  claim that is not in Redis has let nothing through, and a response is undecided until its
  stream stops.

That a finite set of numbers has a greatest and a least element (nodes in
`FiniteExtremes`, times in `FiniteMaximum`) is proved without induction over data:
finite sets are well-founded under strict inclusion, a fact of the library, and
the element with the fewest others above it is the greatest.

What the proofs assume of the constants, beyond types: `Payloads`, `Workers`,
`Nodes`, `Requests` and `Msgs` are finite; requests and retrainings of
`Forecast` are different processes; `Stamps` is large enough that a
fresh one always exists; the coefficients of a damaged model (`Bad`) are no version
of the readings; `Watched` is an alert; `Runs` of `Alerts` is not empty; marker values such as `None` are not
values of the sets they mark. The row and key ids are unbounded in the proofs.

The inductive invariants were checked with TLC on the instances of the runs
before they were proved. Every safety property of the runs is proved except
`ScoreDipsAreSmall`, and so are the type invariants of all modules but `History`,
whose own can be checked by naming it in a configuration, and `AirQuality`, whose
type is part of `AirInv`.

Only model-checked:

- every liveness property (`EventuallySubscribed`, `QueueServed`,
  `StopTerminates`, `BreachStaysVisible`, `EveryPatchAnswered`,
  `DeactivationTakesEffect`, `EveryReadingSettles`, `CircuitRecovers`,
  `LatestCatchesUp`, `RollUpsConverge`, `RetentionHolds`, `ModelCatchesUp`,
  `ExportsEnd`, `AlertReachesSocket`, `DeadAccountLosesSocket`), because TLAPS does
  not support fairness;
- `ScoreDipsAreSmall` of `AirQuality`: on a ramp the score is a quotient of two
  sums of products of memberships, and how far it dips is a question about the
  extrema of that quotient over all weathers, which linear arithmetic and the
  monotonicity lemmas do not answer. The run enumerates both ends and
  the middle of every ramp.

## 5. Known divergences

Eight configurations state what the repository says of the program and end in a
counterexample. They are not among the runs of `PROJECT.json`, whose properties
all hold; each reproduces its case with one command.

| Command (`tlc -config`) | Statement in the repository | What the code does |
|---|---|---|
| `MqttIngestStop.cfg MCMqttIngest` (`NoReadingLostByStop`) | "Drains the worker queue before exiting to ensure no pending readings are lost" (`src/mqtt/client.py:690`) | the drain ends on its deadline, its budget or a queue that is empty for 0.1 s, messages arrive until `loop_stop()`, and the worker is not joined: readings can remain |
| `ReadingsOlder.cfg MCReadings` (`NoOlderSnapshot`) | "/readings/latest never serves a snapshot older than this just-persisted reading" (`src/tasks/process_reading.py:253`) | a read-through in flight stores its old snapshot after the key was dropped; it is served for up to 60 s |
| `AlertsAck.cfg MCAlerts` (`AckIsFinal`) | "acknowledging an already-acknowledged alert is a no-op" (`src/docs/api.md:45`) | the test and the update are two steps, so the second of two concurrent requests overwrites user and time |
| `SettingsUnseeded.cfg MCSettings` (`PairOrdered`) | "concurrent patches can't commit an inverted pair" (`src/docs/FIXED_BUGS.md:51`) | `FOR UPDATE` cannot lock rows that do not exist, so before seeding they can |
| `ForecastOlder.cfg MCForecast` (`NoOlderModel`) | "a retrain never needs to race a slow in-flight request — stale writes land under the old version key" (`src/tasks/forecast.py:231`) | true of the forecast, not of the model: a request that fitted older readings before the retraining stores its model after it (`src/tasks/forecast.py:293`) over the newer one, which is gone until the next retraining |
| `ForecastCorrupt.cfg MCForecast` (`CorruptedRecomputed`) | "a corrupted blob (L45) all fall through to recomputation" (`src/api/forecast.py:83`) | only a blob that is no JSON object does; an object with damaged coefficients still leads to a cached forecast, and one without its stamp to the one under `legacy`, possibly of a model replaced long ago |
| `AlertsInterrupted.cfg AlertPublisher` (`InterruptedRetryKeeps`) | "re-enqueues anything not published so an interrupted retry cannot lose messages" (`src/mqtt/publisher.py:13`), "a mid-retry exception (e.g. Celery SoftTimeLimitExceeded) can never lose the outstanding batch" (`src/mqtt/publisher.py:131`) | an exception while the batch is taken or before the `try`, with a message popped, or in the `finally` clause loses up to a batch |
| `SettingsAudit.cfg MCSettings` (`AuditChainAllKeys`) | "so an audit trail can record the change (old -> new)" (`src/api/admin.py:336`) | two first patches of `alert_email`, which is never seeded, both record no old value |

Four more were met while modelling and are plain in the code:

- The timeout of an export is tested only when a row arrives
  (`src/api/export.py:208`). A client that stops reading without closing keeps its
  generator suspended, and with it a permit and a pooled connection, for as long
  as it likes, although the docstring says the timeout is there "to prevent
  slow-client DoS" (`src/api/export.py:195`). `ExportsEnd` therefore assumes that
  connected clients read.
- `publish_alert` "never raises to the caller" (`src/mqtt/publisher.py:198`), but
  nothing catches an exception of `client.publish` (`src/mqtt/publisher.py:228`).
  The alert is then not queued, and the loop that publishes a run's notifications
  (`src/tasks/alerts.py:345`) ends with the rest unpublished. The model has the case
  (`PublishRaises`); in `Alerts` it is a crash between two publications.
- The docstring at `src/tasks/process_reading.py:263` says that a failed task's
  message is redelivered. It is acknowledged (`src/celery_app.py:285`), and
  `Readings` follows the settings.
- An update of a node's interval alone pushes `enabled=true`
  (`src/api/nodes.py:184`), also to a node that is deactivated, and a registration
  that reactivates a node pushes nothing.

## 6. Abstractions and limits

Payload contents, passwords, formats, wording and metrics are left out. Clock
values appear as "may have passed" or as ageing actions. Counters are bounded
by the constants named in the modules. PostgreSQL is modelled by the row locks,
statement snapshots and deadlock aborts that the code relies on, Redis by
atomic commands that may fail, Celery by the delivery options set in
`celery_app.py`; these parts are marked external in the map. The row locks that a
clean-up takes while it waits are not modelled: it acts when all its rows are
free.

Some properties say less than their names may suggest. In `MqttIngest` a message
whose handler raises counts as handled, as it does for the code. `StopTerminates`
needs that only finitely many messages arrive: the branch of the drain that
catches an exception skips the test of the deadline. `DeactivationTakesEffect` and
`LatestCatchesUp` rest on the expiry of the cached value; the explicit
invalidations are in the models, but losing one would only make the wait longer,
which neither property measures. `AlertDelivery` leaves out that the worker's
last broadcast may overlap with one of the drain, and `AlertPublisher` an
interruption inside `_queue_failed_message`, whose loss is the one of
`PublishRaises` or of a full deque.

Not modelled: the configuration push to devices (fire and forget, without order
or delivery to state a property about); the anonymisation of accounts that were
deactivated long ago (one UPDATE of columns no model keeps); anomaly detection
(one aggregate query over the node's last day, no state); GET
/readings/history and GET /alerts (one query each); node metadata and the
`nodes:all` cache; the health endpoint; the counter of token reuse; TLS, start-up
configuration, application factory, mailer, metrics, migrations and the operator
scripts (no protocol state of their own). A notification that is lost because a
worker dies between the commit of an alert and its publication is accepted by the
design; `Alerts` contains the case and no property forbids it.
