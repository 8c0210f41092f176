---------------------------- MODULE MqttIngest -----------------------------
(***************************************************************************)
(* The ingestion pipeline of mqtt/client.py.  Three threads share one      *)
(* bounded queue: paho's loop (_on_message, _enqueue), the worker          *)
(* (_run_worker) and the thread that calls stop(), which drains the queue  *)
(* itself while the worker may still be busy.  Each blocking point of a    *)
(* thread (a put, a get, a dispatch attempt) is a step of its own.         *)
(***************************************************************************)
EXTENDS Integers, Sequences, FiniteSets, SequencesExt

CONSTANTS
  Msgs,                   \* messages, records of the set Message below
  Nodes,                  \* node ids
  NoMsg,                  \* "holds no message"
  QUEUE_MAX,              \* _QUEUE_MAX
  ENQUEUE_MAX_ATTEMPTS,   \* _ENQUEUE_MAX_ATTEMPTS
  DISPATCH_MAX_ATTEMPTS,  \* _DISPATCH_MAX_ATTEMPTS
  NODE_LAST_SEEN_MAX,     \* _NODE_LAST_SEEN_MAX
  NODE_LAST_SEEN_PRUNE_TO \* _NODE_LAST_SEEN_PRUNE_TO

\* What the pipeline tells apart in a message.  form: "oversized",
\* "undecodable", "badtopic" (unknown topic or illegal node id), "bad" (JSON
\* or schema invalid), "ok".  stale: the device time is old backlog (M101).
Message == [id : Nat, node : Nodes, kind : {"reading", "status", "alert"},
            form : {"oversized", "undecodable", "badtopic", "bad", "ok"},
            stale : BOOLEAN]

ASSUME IngestConstants ==
  /\ Msgs \subseteq Message
  /\ IsFiniteSet(Msgs)
  /\ NoMsg \notin Msgs
  /\ QUEUE_MAX \in Nat \ {0}
  /\ ENQUEUE_MAX_ATTEMPTS \in Nat \ {0}
  /\ DISPATCH_MAX_ATTEMPTS \in Nat \ {0}
  /\ NODE_LAST_SEEN_PRUNE_TO \in Nat \ {0}
  /\ NODE_LAST_SEEN_MAX \in Nat
  /\ NODE_LAST_SEEN_PRUNE_TO <= NODE_LAST_SEEN_MAX

Worker  == "worker"
Stopper == "stopper"
Threads == {Worker, Stopper}

VARIABLES
  undelivered,     \* messages the broker has still to deliver
  last_seen,       \* keys of _node_last_seen, least recently seen first
  recent,          \* how many of them were seen less than the interval ago
  putting,         \* message the loop thread is trying to enqueue
  put_attempt,     \* failed put() attempts for it
  queue,           \* self._queue
  held,            \* thread -> message it took from the queue
  attempt,         \* thread -> failed delay() attempts for it
  wpc,             \* worker: "check" the stop event, "get", "handle", "exit"
  phase,           \* stop(): "running", "drain", "handle", "disconnect", "stopped"
  drained,         \* drained_count
  dropped_readings,\* _dropped_readings_count
  queue_overflow,  \* _queue_overflow_count
  dispatched,      \* readings handed to Celery
  settled          \* messages finished otherwise: returned from by _on_message,
                   \* rejected by validation, broadcast, last_seen touched,
                   \* discarded by the drain, or ended by a logged exception

loopvars == <<last_seen, recent, putting, put_attempt>>
outcomes == <<dispatched, settled>>
vars == <<undelivered, last_seen, recent, putting, put_attempt, queue, held, attempt,
          wpc, phase, drained, dropped_readings, queue_overflow, dispatched, settled>>

TypeOK ==
  /\ undelivered \subseteq Msgs
  /\ last_seen \in Seq(Nodes)
  /\ recent \in 0..Len(last_seen)
  /\ putting \in Msgs \cup {NoMsg}
  /\ put_attempt \in 0..(ENQUEUE_MAX_ATTEMPTS - 1)
  /\ queue \in Seq(Msgs)
  /\ Len(queue) <= QUEUE_MAX
  /\ held \in [Threads -> Msgs \cup {NoMsg}]
  /\ attempt \in [Threads -> 0..(DISPATCH_MAX_ATTEMPTS - 1)]
  /\ wpc \in {"check", "get", "handle", "exit"}
  /\ phase \in {"running", "drain", "handle", "disconnect", "stopped"}
  /\ drained \in Nat
  /\ dropped_readings \in Nat
  /\ queue_overflow \in Nat
  /\ dispatched \subseteq Msgs
  /\ settled \subseteq Msgs

Init ==
  /\ undelivered = Msgs
  /\ last_seen = <<>> /\ recent = 0
  /\ putting = NoMsg /\ put_attempt = 0
  /\ queue = <<>>
  /\ held = [t \in Threads |-> NoMsg]
  /\ attempt = [t \in Threads |-> 0]
  /\ wpc = "check"
  /\ phase = "running"
  /\ drained = 0
  /\ dropped_readings = 0 /\ queue_overflow = 0
  /\ dispatched = {} /\ settled = {}

-----------------------------------------------------------------------------
(* Faulty variants of definitions below.                                    *)

\* A full queue drops the message without counting it (M37).
EnqueueTimeout_Uncounted ==
  /\ putting # NoMsg
  /\ Len(queue) = QUEUE_MAX
  /\ IF put_attempt + 1 < ENQUEUE_MAX_ATTEMPTS
     THEN /\ put_attempt' = put_attempt + 1
          /\ UNCHANGED putting
     ELSE /\ putting' = NoMsg
          /\ put_attempt' = 0
  /\ UNCHANGED <<undelivered, last_seen, recent, queue, held, attempt, wpc, phase,
                 drained, dropped_readings, queue_overflow, outcomes>>

\* put() without a timeout: the loop thread waits for ever.
EnqueueTimeout_Blocks ==
  /\ putting # NoMsg
  /\ Len(queue) = QUEUE_MAX
  /\ UNCHANGED vars

\* An exception in a handler ends the worker's loop.
WorkerAfterHandle_Dies(raised) == IF raised THEN "exit" ELSE "check"

-----------------------------------------------------------------------------
(* paho loop thread: _on_message and _enqueue                               *)

\* The node was seen less than _NODE_MSG_MIN_INTERVAL_S ago.
RecentlySeen(n) == \E i \in (Len(last_seen) - recent + 1)..Len(last_seen) : last_seen[i] = n

\* The other nodes of the table, which has one entry per node.
Others(n) ==
  LET at == {i \in DOMAIN last_seen : last_seen[i] = n}
  IN IF at = {} THEN last_seen ELSE RemoveAt(last_seen, CHOOSE i \in at : TRUE)

\* _node_last_seen[n] = now, evicting oldest-first once over the cap (M102).
Remember(n) ==
  LET s == Append(Others(n), n)
  IN IF Len(s) > NODE_LAST_SEEN_MAX
     THEN SubSeq(s, Len(s) - NODE_LAST_SEEN_PRUNE_TO + 1, Len(s))
     ELSE s

\* The early returns of _on_message that do not involve the limiter.
Malformed(m) == \/ m.form \in {"oversized", "undecodable"}
                \/ m.kind # "alert" /\ m.form = "badtopic"

\* _on_message returns before the limiter is asked.
OnMessageMalformed(m) ==
  /\ Malformed(m)
  /\ settled' = settled \cup {m}
  /\ UNCHANGED <<loopvars, dispatched>>

\* An air/alerts message is not rate limited.
OnMessageAlert(m) ==
  /\ ~Malformed(m) /\ m.kind = "alert"
  /\ putting' = m
  /\ UNCHANGED <<last_seen, recent, put_attempt, outcomes>>

\* _node_rate_limited is False: the node is recorded, the message enqueued.
OnMessageAdmitted(m) ==
  /\ ~Malformed(m) /\ m.kind # "alert"
  /\ ~RecentlySeen(m.node)
  /\ last_seen' = Remember(m.node)
  /\ recent' = IF recent + 1 > Len(last_seen') THEN Len(last_seen') ELSE recent + 1
  /\ putting' = m
  /\ UNCHANGED <<put_attempt, outcomes>>

\* _node_rate_limited is True: only replayed backlog passes (M39, M101).
OnMessageLimited(m) ==
  /\ ~Malformed(m) /\ m.kind # "alert"
  /\ RecentlySeen(m.node)
  /\ IF m.stale
     THEN putting' = m /\ UNCHANGED settled
     ELSE settled' = settled \cup {m} /\ UNCHANGED putting
  /\ UNCHANGED <<last_seen, recent, put_attempt, dispatched>>

\* The loop thread calls _on_message for the next message from the broker.
OnMessage(m) ==
  /\ phase # "stopped"
  /\ putting = NoMsg
  /\ m \in undelivered
  /\ undelivered' = undelivered \ {m}
  /\ \/ OnMessageMalformed(m)
     \/ OnMessageAlert(m)
     \/ OnMessageAdmitted(m)
     \/ OnMessageLimited(m)
  /\ UNCHANGED <<queue, held, attempt, wpc, phase, drained, dropped_readings,
                 queue_overflow>>

\* _queue.put succeeds.
EnqueuePut ==
  /\ putting # NoMsg
  /\ Len(queue) < QUEUE_MAX
  /\ queue' = Append(queue, putting)
  /\ putting' = NoMsg
  /\ put_attempt' = 0
  /\ UNCHANGED <<undelivered, last_seen, recent, held, attempt, wpc, phase, drained,
                 dropped_readings, queue_overflow, outcomes>>

\* _queue.put raises Full; the last attempt drops the message and counts it.
EnqueueTimeout ==
  /\ putting # NoMsg
  /\ Len(queue) = QUEUE_MAX
  /\ IF put_attempt + 1 < ENQUEUE_MAX_ATTEMPTS
     THEN /\ put_attempt' = put_attempt + 1
          /\ UNCHANGED <<putting, queue_overflow>>
     ELSE /\ putting' = NoMsg
          /\ put_attempt' = 0
          /\ queue_overflow' = queue_overflow + 1
  /\ UNCHANGED <<undelivered, last_seen, recent, queue, held, attempt, wpc, phase,
                 drained, dropped_readings, outcomes>>

\* The oldest of the recently seen nodes ages past the interval.
IntervalElapses ==
  /\ recent > 0
  /\ recent' = recent - 1
  /\ UNCHANGED <<undelivered, last_seen, putting, put_attempt, queue, held, attempt, wpc,
                 phase, drained, dropped_readings, queue_overflow, outcomes>>

-----------------------------------------------------------------------------
(* Worker thread and stop(): taking messages from the queue                 *)

RestAfterGet == Tail(queue)

\* "while not self._stop_event.is_set()"; stop() sets the event first.
WorkerCheck ==
  /\ wpc = "check"
  /\ wpc' = IF phase = "running" THEN "get" ELSE "exit"
  /\ UNCHANGED <<undelivered, loopvars, queue, held, attempt, phase, drained,
                 dropped_readings, queue_overflow, outcomes>>

WorkerGet ==
  /\ wpc = "get"
  /\ queue # <<>>
  /\ held' = [held EXCEPT ![Worker] = Head(queue)]
  /\ queue' = Tail(queue)
  /\ wpc' = "handle"
  /\ UNCHANGED <<undelivered, loopvars, attempt, phase, drained, dropped_readings,
                 queue_overflow, outcomes>>

\* get() timed out on an empty queue.
WorkerEmpty ==
  /\ wpc = "get"
  /\ queue = <<>>
  /\ wpc' = "check"
  /\ UNCHANGED <<undelivered, loopvars, queue, held, attempt, phase, drained,
                 dropped_readings, queue_overflow, outcomes>>

\* stop(): the stop event is set and the drain begins.
Stop ==
  /\ phase = "running"
  /\ phase' = "drain"
  /\ UNCHANGED <<undelivered, loopvars, queue, held, attempt, wpc, drained,
                 dropped_readings, queue_overflow, outcomes>>

\* The drain takes a message; a status message is thrown away, after which
\* the 5 s deadline may end the drain.
DrainGet ==
  /\ phase = "drain"
  /\ drained < 2 * QUEUE_MAX
  /\ queue # <<>>
  /\ queue' = RestAfterGet
  /\ IF Head(queue).kind = "status"
     THEN /\ settled' = settled \cup {Head(queue)}
          /\ phase' \in {"drain", "disconnect"}
          /\ UNCHANGED held
     ELSE /\ held' = [held EXCEPT ![Stopper] = Head(queue)]
          /\ phase' = "handle"
          /\ UNCHANGED settled
  /\ UNCHANGED <<undelivered, loopvars, attempt, wpc, drained, dropped_readings,
                 queue_overflow, dispatched>>

\* get() found the queue empty, or the drain budget is used up.
DrainEnds ==
  /\ phase = "drain"
  /\ queue = <<>> \/ drained >= 2 * QUEUE_MAX
  /\ phase' = "disconnect"
  /\ UNCHANGED <<undelivered, loopvars, queue, held, attempt, wpc, drained,
                 dropped_readings, queue_overflow, outcomes>>

\* disconnect() and loop_stop(), which joins the loop thread once it is out
\* of _on_message.  The worker is not joined.
StopDone ==
  /\ phase = "disconnect"
  /\ putting = NoMsg
  /\ phase' = "stopped"
  /\ UNCHANGED <<undelivered, loopvars, queue, held, attempt, wpc, drained,
                 dropped_readings, queue_overflow, outcomes>>

-----------------------------------------------------------------------------
(* Handling a message, in the worker or in the drain                        *)

Handling(t) == IF t = Worker THEN wpc = "handle" ELSE phase = "handle"

WorkerAfterHandle(raised) == "check"

\* The thread is done with its message.  In the drain a message handled
\* without an exception counts, and the deadline may then have passed.
Release(t, raised) ==
  /\ held' = [held EXCEPT ![t] = NoMsg]
  /\ attempt' = [attempt EXCEPT ![t] = 0]
  /\ IF t = Worker
     THEN /\ wpc' = WorkerAfterHandle(raised)
          /\ UNCHANGED <<phase, drained>>
     ELSE /\ phase' \in IF raised THEN {"drain"} ELSE {"drain", "disconnect"}
          /\ drained' = IF raised THEN drained ELSE drained + 1
          /\ UNCHANGED wpc
  /\ UNCHANGED <<undelivered, loopvars, queue, queue_overflow>>

\* _handle_alert, _handle_status, or a reading that fails validation.
Handle(t) ==
  /\ Handling(t)
  /\ held[t].kind # "reading" \/ held[t].form = "bad"
  /\ settled' = settled \cup {held[t]}
  /\ Release(t, FALSE)
  /\ UNCHANGED <<dropped_readings, dispatched>>

\* A handler raises (a failing lazy import); _handle_status never does.
HandleRaises(t) ==
  /\ Handling(t)
  /\ held[t].kind # "status" /\ held[t].form # "bad" /\ attempt[t] = 0
  /\ settled' = settled \cup {held[t]}
  /\ Release(t, TRUE)
  /\ UNCHANGED <<dropped_readings, dispatched>>

\* _dispatch_reading: delay() succeeds.
Dispatch(t) ==
  /\ Handling(t)
  /\ held[t].kind = "reading" /\ held[t].form # "bad"
  /\ dispatched' = dispatched \cup {held[t]}
  /\ Release(t, FALSE)
  /\ UNCHANGED <<dropped_readings, settled>>

\* delay() raises: retry, or give up and count the dropped reading.
DispatchFails(t) ==
  /\ Handling(t)
  /\ held[t].kind = "reading" /\ held[t].form # "bad"
  /\ IF attempt[t] + 1 < DISPATCH_MAX_ATTEMPTS
     THEN /\ attempt' = [attempt EXCEPT ![t] = @ + 1]
          /\ UNCHANGED <<undelivered, loopvars, queue, held, wpc, phase, drained,
                         dropped_readings, queue_overflow>>
     ELSE /\ dropped_readings' = dropped_readings + 1
          /\ Release(t, FALSE)
  /\ UNCHANGED <<dispatched, settled>>

-----------------------------------------------------------------------------
LoopStep == EnqueuePut \/ EnqueueTimeout

HandleStep(t) == Handle(t) \/ HandleRaises(t) \/ Dispatch(t) \/ DispatchFails(t)

WorkerStep == WorkerCheck \/ WorkerGet \/ WorkerEmpty \/ HandleStep(Worker)

StopStep == DrainGet \/ DrainEnds \/ StopDone \/ HandleStep(Stopper)

\* The process ends after stop(); nothing further is modelled.
Terminated == phase = "stopped" /\ wpc = "exit" /\ UNCHANGED vars

Next ==
  \/ \E m \in Msgs : OnMessage(m)
  \/ LoopStep
  \/ IntervalElapses
  \/ WorkerStep
  \/ Stop
  \/ StopStep
  \/ Terminated

Spec == Init /\ [][Next]_vars

\* The three threads run until they end; that messages arrive, that stop()
\* is called and that time passes is not assumed.
FairSpec == Spec /\ WF_vars(LoopStep) /\ WF_vars(WorkerStep) /\ WF_vars(StopStep)

-----------------------------------------------------------------------------
(* Properties                                                               *)

Delivered == Msgs \ undelivered
InQueue   == {queue[i] : i \in DOMAIN queue}
InHand    == ({putting} \cup {held[t] : t \in Threads}) \ {NoMsg}
Finished  == dispatched \cup settled

\* Whatever the broker delivered is still in the pipeline, has an outcome, or
\* is counted: the two counters /admin/health reports add up to exactly the
\* messages that vanished (#04, M37), with the worker and the drain running
\* side by side.
LossIsCounted ==
  dropped_readings + queue_overflow =
    Cardinality(Delivered \ (InQueue \cup InHand \cup Finished))

\* No message is in two places: the worker and the drain never both handle
\* the same message, and none is handled while it is still queued.
OnePlaceOnly ==
  /\ IsInjective(queue)
  /\ InQueue \cap (InHand \cup Finished) = {}
  /\ InHand \cap Finished = {}
  /\ held[Worker] # NoMsg => held[Worker] # held[Stopper]
  /\ putting # NoMsg => \A t \in Threads : putting # held[t]

\* Conservation: every message that the broker delivered is in one place, or is
\* in none and counted, whichever of the three threads handled it.
MessagesConserved == OnePlaceOnly /\ LossIsCounted

\* The limiter's table stays within its cap however many node ids appear
\* (M102), and holds one entry per node.
LimiterBounded ==
  /\ Len(last_seen) <= NODE_LAST_SEEN_MAX
  /\ IsInjective(last_seen)

\* Until stop() is called every queued message leaves the pipeline: the
\* worker survives handler exceptions and Celery outages.
QueueServed ==
  \A m \in Msgs : (m \in InQueue) ~> (m \notin InQueue \cup InHand \/ phase # "running")

\* stop() returns and the worker exits, even with Celery down and the loop
\* thread blocked on a full queue.
StopTerminates == (phase = "drain") ~> (phase = "stopped" /\ wpc = "exit")

\* "Drains the worker queue before exiting to ensure no pending readings are
\* lost" (docstring of stop()): once stopped, no valid reading is left behind
\* in the queue or in the hands of the unjoined worker.
NoReadingLostByStop ==
  phase = "stopped" =>
    \A m \in InQueue \cup InHand : m.kind # "reading" \/ m.form = "bad"
=============================================================================
