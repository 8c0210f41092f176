------------------------------ MODULE Readings ------------------------------
(***************************************************************************)
(* One node's readings from the Celery queue to GET /readings/latest        *)
(* (tasks/process_reading.py, celery_app.py, api/readings.py, api/nodes.py).*)
(* Delivery is at least once: a message is acknowledged when its task ends  *)
(* (task_acks_late) and returns to the queue when the worker process dies.  *)
(* An OperationalError publishes a retry through the circuit breaker's      *)
(* gate.  The rows of sensor_readings have the primary key (time, node_id); *)
(* the snapshot that the API serves is cached under readings:latest.        *)
(* A reading is abstracted to its time; the breaker's window to the number  *)
(* of failures that are not older than the window.                          *)
(***************************************************************************)
EXTENDS Naturals, FiniteSets, FiniteSetsExt

CONSTANTS
  Payloads,    \* readings that the MQTT client dispatches
  Timed,       \* those with a device time that stays inside the accepted window
  DeviceTime,  \* timed payload -> its time
  Workers,     \* Celery worker processes
  Readers,     \* concurrent GET /readings/latest
  Admins,      \* concurrent node registrations and updates
  MaxRetries,  \* max_retries of _TASK_AUTORETRY
  MaxFailures, \* _MAX_FAILED_ATTEMPTS
  MaxCrashes,  \* worker processes that die (a bound)
  Faulty,      \* whether PostgreSQL and Redis commands may fail
  None

ASSUME ReadingsConstants ==
  /\ IsFiniteSet(Payloads) /\ IsFiniteSet(Workers)
  /\ Timed \subseteq Payloads
  /\ DeviceTime \in [Timed -> Nat \ {0}]
  /\ MaxRetries \in Nat /\ MaxFailures \in Nat \ {0} /\ MaxCrashes \in Nat
  /\ Faulty \in BOOLEAN
  /\ None \notin Payloads \cup Nat

VARIABLES
  dispatched, \* payloads whose dispatch has ended, with or without success
  queue,      \* payload -> retry count -> messages waiting in the broker
  reported,   \* payloads that were given up with a log entry
  rows,       \* sensor_readings: the payload stored and its time
  node,       \* the row of nodes: "absent", "active" or "inactive"
  failures,   \* failed attempts inside the breaker's window
  latest,     \* readings:latest: None, or the newest time (0: no reading)
  pc,         \* worker -> where its task is
  job,        \* worker -> payload it processes
  tries,      \* worker -> retry count of its message
  time,       \* worker -> time of the reading it has built
  seen,       \* reader -> snapshot it has read and not yet cached
  owed,       \* admin -> an update is committed, the cache not yet cleared
  crashes     \* worker deaths so far

broker == <<dispatched, queue, reported>>
task   == <<pc, job, tries, time>>
api    == <<seen, owed>>
vars   == <<dispatched, queue, reported, rows, node, failures, latest,
            pc, job, tries, time, seen, owed, crashes>>

Places == {"idle", "load", "insert", "cache", "retry", "record", "ack"}
Times  == {x.time : x \in rows}

TypeOK ==
  /\ dispatched \subseteq Payloads
  /\ queue \in [Payloads -> [0..MaxRetries -> Nat]]
  /\ reported \subseteq dispatched
  /\ rows \subseteq [payload : Payloads, time : Nat]
  /\ \A x, y \in rows : x.time = y.time => x = y
  /\ node \in {"absent", "active", "inactive"}
  /\ failures \in Nat
  /\ latest \in Nat \cup {None}
  /\ pc \in [Workers -> Places]
  /\ job \in [Workers -> Payloads \cup {None}]
  /\ tries \in [Workers -> 0..MaxRetries]
  /\ time \in [Workers -> Nat]
  /\ seen \in [Readers -> Nat \cup {None}]
  /\ owed \in [Admins -> BOOLEAN]
  /\ crashes \in 0..MaxCrashes

Init ==
  /\ dispatched = {}
  /\ queue = [p \in Payloads |-> [k \in 0..MaxRetries |-> 0]]
  /\ reported = {}
  /\ rows = {}
  /\ node \in {"absent", "active", "inactive"}
  /\ failures = 0
  /\ latest = None
  /\ pc = [w \in Workers |-> "idle"]
  /\ job = [w \in Workers |-> None]
  /\ tries = [w \in Workers |-> 0]
  /\ time = [w \in Workers |-> 0]
  /\ seen = [r \in Readers |-> None]
  /\ owed = [a \in Admins |-> FALSE]
  /\ crashes = 0

Put(p, k) == queue' = [queue EXCEPT ![p][k] = @ + 1]

\* The two outcomes of a best-effort Redis command.
Outcomes(new, old) == IF Faulty THEN {new, old} ELSE {new}

\* The key readings:latest is deleted.
DropLatest == latest' \in Outcomes(None, latest)

\* What the query of GET /readings/latest returns.
Newest == IF node = "active" THEN Max(Times \cup {0}) ELSE 0

\* _circuit_for_task after pruning.
Open == failures >= MaxFailures

-----------------------------------------------------------------------------
(* Faulty variants of definitions below.                                    *)

\* The message is acknowledged when the task starts (acks_late dropped).
Redelivered_Early(p, k) == queue' = queue

\* The time is always taken from the server's clock.
TimesOf_Server(p) == {1 + Max(Times \cup {time[w] : w \in Workers}
                                \cup {DeviceTime[q] : q \in Timed} \cup {0})}

\* The gate records what it refuses, so that checks feed the breaker.
DispatchRefused_Records ==
  /\ Open
  /\ failures' = IF failures > MaxFailures THEN failures ELSE failures + 1
  /\ UNCHANGED <<broker, rows, node, latest, task, api, crashes>>

\* SET instead of SETEX: the snapshot has no time to live.
LatestExpires_Never == FALSE /\ UNCHANGED vars

\* A task that was rejected or has failed is not acknowledged.
Ack_Forgotten(w) ==
  /\ pc[w] = "ack"
  /\ pc' = [pc EXCEPT ![w] = "idle"]
  /\ job' = [job EXCEPT ![w] = None]
  /\ time' = [time EXCEPT ![w] = 0]
  /\ tries' = [tries EXCEPT ![w] = 0]
  /\ queue' = [queue EXCEPT ![job[w]][tries[w]] = 1]
  /\ UNCHANGED <<dispatched, reported, rows, node, failures, latest, api,
                 crashes>>

-----------------------------------------------------------------------------
(* Dispatch by the MQTT client: task.delay through CircuitBreakerTask.      *)

Dispatch(p) ==
  /\ p \notin dispatched
  /\ ~Open \/ Faulty  \* a Redis error in the check lets the task through
  /\ dispatched' = dispatched \cup {p}
  /\ Put(p, 0)
  /\ UNCHANGED <<reported, rows, node, failures, latest, task, api, crashes>>

\* The circuit is open: delay raises, the client waits and tries again, with
\* this reading or with another one.
DispatchRefused ==
  /\ Open
  /\ UNCHANGED vars

DispatchGivesUp(p) ==
  /\ p \notin dispatched
  /\ Open \/ Faulty
  /\ dispatched' = dispatched \cup {p}
  /\ reported' = reported \cup {p}
  /\ UNCHANGED <<queue, rows, node, failures, latest, task, api, crashes>>

\* Failures leave the rolling window one after the other.
FailureAgesOut ==
  /\ failures > 0
  /\ failures' = failures - 1
  /\ UNCHANGED <<broker, rows, node, latest, task, api, crashes>>

\* reset_circuit_breaker, by an operator.
ResetCircuit ==
  /\ failures > 0
  /\ failures' = 0
  /\ UNCHANGED <<broker, rows, node, latest, task, api, crashes>>

-----------------------------------------------------------------------------
(* process_reading.                                                         *)

Goto(w, place) == pc' = [pc EXCEPT ![w] = place]
Report(w) == reported' = reported \cup {job[w]}

Take(w, p, k) ==
  /\ pc[w] = "idle"
  /\ queue[p][k] > 0
  /\ queue' = [queue EXCEPT ![p][k] = @ - 1]
  /\ Goto(w, "load")
  /\ job' = [job EXCEPT ![w] = p]
  /\ tries' = [tries EXCEPT ![w] = k]
  /\ UNCHANGED <<dispatched, reported, rows, node, failures, latest, time,
                 api, crashes>>

\* _parse_time: the device's time, or a time of the server, which no other
\* reading has.
TimesOf(p) ==
  IF p \in Timed THEN {DeviceTime[p]}
  ELSE {1 + Max(Times \cup {time[w] : w \in Workers}
                  \cup {DeviceTime[q] : q \in Timed} \cup {0})}

\* session.get(Node), then _build_reading.
Load(w) ==
  /\ pc[w] = "load"
  /\ node = "active"
  /\ \E t \in TimesOf(job[w]) : time' = [time EXCEPT ![w] = t]
  /\ Goto(w, "insert")
  /\ UNCHANGED <<broker, rows, node, failures, latest, job, tries, api,
                 crashes>>

\* Unknown or inactive node: the reading is dropped.
LoadDrops(w) ==
  /\ pc[w] = "load"
  /\ node # "active"
  /\ Report(w)
  /\ Goto(w, "ack")
  /\ UNCHANGED <<dispatched, queue, rows, node, failures, latest, job, tries,
                 time, api, crashes>>

Row(w) == [payload |-> job[w], time |-> time[w]]

Insert(w) ==
  /\ pc[w] = "insert"
  /\ time[w] \notin Times
  /\ rows' = rows \cup {Row(w)}
  /\ Goto(w, "cache")
  /\ UNCHANGED <<broker, node, failures, latest, job, tries, time, api,
                 crashes>>

\* sensor_readings_pkey is violated: a redelivery, nothing is left to do.
InsertDuplicate(w) ==
  /\ pc[w] = "insert"
  /\ time[w] \in Times
  /\ Goto(w, "ack")
  /\ UNCHANGED <<broker, rows, node, failures, latest, job, tries, time, api,
                 crashes>>

\* OperationalError in a statement, or in a COMMIT that the server may have
\* executed: autoretry_for catches it.
DatabaseError(w) ==
  /\ Faulty
  /\ pc[w] \in {"load", "insert"}
  /\ \/ rows' = rows
     \/ pc[w] = "insert" /\ time[w] \notin Times /\ rows' = rows \cup {Row(w)}
  /\ Goto(w, "retry")
  /\ UNCHANGED <<broker, node, failures, latest, job, tries, time, api,
                 crashes>>

\* Any other exception, SoftTimeLimitExceeded for example: FAILURE.
TaskFails(w) ==
  /\ Faulty
  /\ pc[w] \in {"load", "insert", "cache"}
  /\ Report(w)
  /\ Goto(w, "record")
  /\ UNCHANGED <<dispatched, queue, rows, node, failures, latest, job, tries,
                 time, api, crashes>>

\* _write_latest_cache.
CacheWrite(w) ==
  /\ pc[w] = "cache"
  /\ DropLatest
  /\ Goto(w, "ack")
  /\ UNCHANGED <<broker, rows, node, failures, job, tries, time, api, crashes>>

\* Task.retry publishes a copy of the message with a higher retry count.
RetryPublish(w) ==
  /\ pc[w] = "retry"
  /\ tries[w] < MaxRetries
  /\ ~Open \/ Faulty
  /\ Put(job[w], tries[w] + 1)
  /\ Goto(w, "record")
  /\ UNCHANGED <<dispatched, reported, rows, node, failures, latest, job,
                 tries, time, api, crashes>>

\* The gate refuses the retry: Celery rejects the message, which the Redis
\* transport deletes; the outcome REJECTED is not recorded.
RetryRefused(w) ==
  /\ pc[w] = "retry"
  /\ tries[w] < MaxRetries
  /\ Open
  /\ Report(w)
  /\ Goto(w, "ack")
  /\ UNCHANGED <<dispatched, queue, rows, node, failures, latest, job, tries,
                 time, api, crashes>>

RetriesExhausted(w) ==
  /\ pc[w] = "retry"
  /\ tries[w] = MaxRetries
  /\ Report(w)
  /\ Goto(w, "record")
  /\ UNCHANGED <<dispatched, queue, rows, node, failures, latest, job, tries,
                 time, api, crashes>>

\* on_task_postrun after FAILURE or RETRY.
Record(w) ==
  /\ pc[w] = "record"
  /\ failures' \in Outcomes(failures + 1, failures)
  /\ Goto(w, "ack")
  /\ UNCHANGED <<broker, rows, node, latest, job, tries, time, api, crashes>>

\* The worker has nothing in hand any more.
Leave(w) ==
  /\ Goto(w, "idle")
  /\ job' = [job EXCEPT ![w] = None]
  /\ tries' = [tries EXCEPT ![w] = 0]
  /\ time' = [time EXCEPT ![w] = 0]

Ack(w) ==
  /\ pc[w] = "ack"
  /\ Leave(w)
  /\ UNCHANGED <<broker, rows, node, failures, latest, api, crashes>>

\* task_reject_on_worker_lost: the message of a dead worker is requeued.
Redelivered(p, k) == Put(p, k)

WorkerLost(w) ==
  /\ pc[w] # "idle"
  /\ crashes < MaxCrashes
  /\ crashes' = crashes + 1
  /\ Redelivered(job[w], tries[w])
  /\ Leave(w)
  /\ UNCHANGED <<dispatched, reported, rows, node, failures, latest, api>>

\* task_time_limit: the task is killed and its message acknowledged.
HardTimeLimit(w) ==
  /\ Faulty
  /\ pc[w] \notin {"idle", "ack"}
  /\ Report(w)
  /\ Leave(w)
  /\ UNCHANGED <<dispatched, queue, rows, node, failures, latest, api, crashes>>

-----------------------------------------------------------------------------
(* GET /readings/latest and the node registry.                              *)

\* A miss, or a GET that failed: the query runs.
ReadThrough(r) ==
  /\ seen[r] = None
  /\ latest = None \/ Faulty
  /\ seen' = [seen EXCEPT ![r] = Newest]
  /\ UNCHANGED <<broker, rows, node, failures, latest, task, owed, crashes>>

\* SETEX with what the query returned.
Fill(r) ==
  /\ seen[r] # None
  /\ latest' \in Outcomes(seen[r], latest)
  /\ seen' = [seen EXCEPT ![r] = None]
  /\ UNCHANGED <<broker, rows, node, failures, task, owed, crashes>>

LatestExpires ==
  /\ latest # None
  /\ latest' = None
  /\ UNCHANGED <<broker, rows, node, failures, task, api, crashes>>

\* register_node and update_node commit first and clear the cache later.
RegisterNode(a) ==
  /\ ~owed[a]
  /\ node # "active"
  /\ node' = "active"
  /\ owed' = [owed EXCEPT ![a] = TRUE]
  /\ UNCHANGED <<broker, rows, failures, latest, task, seen, crashes>>

UpdateNode(a) ==
  /\ ~owed[a]
  /\ node # "absent"
  /\ node' \in {"active", "inactive"}
  /\ owed' = [owed EXCEPT ![a] = TRUE]
  /\ UNCHANGED <<broker, rows, failures, latest, task, seen, crashes>>

ClearCache(a) ==
  /\ owed[a]
  /\ DropLatest
  /\ owed' = [owed EXCEPT ![a] = FALSE]
  /\ UNCHANGED <<broker, rows, node, failures, task, seen, crashes>>

-----------------------------------------------------------------------------
\* What a running worker process does by itself.
WorkerStep(w) ==
  \/ \E p \in Payloads, k \in 0..MaxRetries : Take(w, p, k)
  \/ Load(w) \/ LoadDrops(w) \/ Insert(w) \/ InsertDuplicate(w)
  \/ DatabaseError(w) \/ TaskFails(w) \/ CacheWrite(w)
  \/ RetryPublish(w) \/ RetryRefused(w) \/ RetriesExhausted(w)
  \/ Record(w) \/ Ack(w)

Next ==
  \/ \E p \in Payloads : Dispatch(p) \/ DispatchGivesUp(p)
  \/ \E w \in Workers : WorkerStep(w) \/ WorkerLost(w) \/ HardTimeLimit(w)
  \/ \E r \in Readers : ReadThrough(r) \/ Fill(r)
  \/ \E a \in Admins : RegisterNode(a) \/ UpdateNode(a) \/ ClearCache(a)
  \/ DispatchRefused \/ FailureAgesOut \/ ResetCircuit \/ LatestExpires

Spec == Init /\ [][Next]_vars

\* Worker processes run, and time passes for Redis.
FairSpec ==
  /\ Spec
  /\ \A w \in Workers : WF_vars(WorkerStep(w))
  /\ WF_vars(FailureAgesOut)
  /\ WF_vars(LatestExpires)

-----------------------------------------------------------------------------
InSystem(p) == \/ \E k \in 0..MaxRetries : queue[p][k] > 0
               \/ \E w \in Workers : job[w] = p

Stored(p) == \/ \E x \in rows : x.payload = p
             \/ p \in Timed /\ DeviceTime[p] \in Times

\* Redelivery is idempotent for a reading with a device time: however often
\* its message is delivered, retried after a COMMIT of unknown outcome or
\* processed by two workers at once, it is one row (process_reading).
TimedStoredOnce ==
  \A x, y \in rows : x.payload = y.payload /\ x.payload \in Timed => x = y

\* A reading never vanishes: once dispatched it is in the queue or in the
\* hands of a worker, or it is stored, or it was given up with a log entry,
\* wherever workers die and retries are refused (task_acks_late).
NothingVanishes ==
  \A p \in dispatched : InSystem(p) \/ Stored(p) \/ p \in reported

\* Every dispatched reading is eventually stored or given up: retries,
\* redeliveries and the breaker never leave it cycling.
EveryReadingSettles ==
  \A p \in Payloads : p \in dispatched ~> ~InSystem(p)

\* An open circuit closes by itself: what it refuses does not keep it open
\* (_circuit_for_task only prunes and counts).
CircuitRecovers == Open ~> ~Open

\* While the node stays registered, the cached snapshot ends up to be the
\* newest reading or nothing at all, although invalidations fail, workers die
\* before theirs and slow readers store old snapshots.
LatestCatchesUp ==
  <>[](node = "active") => <>[](latest \in {None, Newest})

\* Once the task that stored a reading has dropped the global key, the cache
\* holds no snapshot that is older (comment L-28 in _write_latest_cache).
NoOlderSnapshot ==
  node = "active" /\ latest # None /\ (\A w \in Workers : pc[w] # "cache")
    /\ (\A a \in Admins : ~owed[a])
    => latest >= Newest
=============================================================================
