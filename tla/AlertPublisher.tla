--------------------------- MODULE AlertPublisher ---------------------------
(***************************************************************************)
(* publish_alert (mqtt/publisher.py) in one worker process: the threads that *)
(* call it, the paho client they share, and the bounded deque of failed      *)
(* messages that is retried, a batch at a time, after a publish succeeds.    *)
(* A message of the deque is an alert and the retries it has had.  Whether   *)
(* the client exists, is connected and takes a message is up to the network  *)
(* at that moment, so every publish may fail.  Celery's soft time limit is   *)
(* raised wherever the thread happens to be: the actions named Interrupted   *)
(* are the places where that makes a difference.                             *)
(***************************************************************************)
EXTENDS Integers, Sequences, SequencesExt

CONSTANTS
  Alerts,      \* alerts to publish
  Callers,     \* threads that call publish_alert
  MaxQueue,    \* _MAX_FAILED_QUEUE_SIZE
  BatchSize,   \* _RETRY_BATCH_SIZE
  MaxAttempts, \* _MAX_RETRY_ATTEMPTS
  MaxFaults    \* interruptions that cost a message, and worker deaths (a bound)

ASSUME PublisherConstants ==
  /\ MaxQueue \in Nat \ {0} /\ BatchSize \in Nat \ {0}
  /\ MaxAttempts \in Nat /\ MaxFaults \in Nat

VARIABLES
  fresh,     \* alerts that were not yet handed to publish_alert
  queue,     \* _failed_queue
  batch,     \* caller -> messages it has taken from the queue
  step,      \* caller -> where it is
  topic,     \* alerts accepted by the broker that the API has not read
  faults     \* faults so far, MaxFaults if none is to come

publisher == <<fresh, queue, batch, step, topic, faults>>

PublisherInit ==
  /\ fresh \in SUBSET Alerts
  /\ queue = <<>>
  /\ batch = [c \in Callers |-> <<>>]
  /\ step = [c \in Callers |-> "idle"]
  /\ topic = {}
  /\ faults \in 0..MaxFaults

-----------------------------------------------------------------------------
(* The deque                                                                 *)

\* Appending to a full deque drops its oldest message, be it logged
\* (_queue_failed_message) or not (append with maxlen).
Enqueue(q, m) == Append(IF Len(q) >= MaxQueue THEN Tail(q) ELSE q, m)

\* extendleft(reversed(b)) on a full deque pushes messages out at the right.
Requeue(b, q) == SubSeq(b \o q, 1, IF Len(b \o q) < MaxQueue THEN Len(b \o q) ELSE MaxQueue)

BatchLen == IF Len(queue) < BatchSize THEN Len(queue) ELSE BatchSize

-----------------------------------------------------------------------------
(* publish_alert, up to the end of its locked section                        *)

\* No client, no connection, or an error code from paho: the alert is queued.
PublishFails(c, a) ==
  /\ step[c] = "idle" /\ a \in fresh
  /\ fresh' = fresh \ {a}
  /\ queue' = Enqueue(queue, [alert |-> a, tries |-> 0])
  /\ UNCHANGED <<batch, step, topic, faults>>

PublishSucceeds(c, a) ==
  /\ step[c] = "idle" /\ a \in fresh
  /\ fresh' = fresh \ {a}
  /\ topic' = topic \cup {a}
  /\ step' = [step EXCEPT ![c] = IF queue = <<>> THEN "idle" ELSE "retry"]
  /\ UNCHANGED <<queue, batch, faults>>

\* client.publish raises, or the soft time limit does, before or after paho took
\* the message: nothing catches it, so the alert is not queued and the caller
\* gives up the notifications it has left.
PublishRaises(c, a) ==
  /\ step[c] = "idle" /\ a \in fresh
  /\ fresh' = fresh \ {a}
  /\ topic' \in {topic, topic \cup {a}}
  /\ UNCHANGED <<queue, batch, step, faults>>

-----------------------------------------------------------------------------
(* _retry_failed_messages, outside the lock                                  *)

Fault == faults < MaxFaults /\ faults' = faults + 1

TakeBatch(c) ==
  /\ step[c] = "retry"
  /\ batch' = [batch EXCEPT ![c] = SubSeq(queue, 1, BatchLen)]
  /\ queue' = SubSeq(queue, BatchLen + 1, Len(queue))
  /\ step' = [step EXCEPT ![c] = IF queue = <<>> THEN "idle" ELSE "batch"]
  /\ UNCHANGED <<fresh, topic, faults>>

\* Interrupted while it takes the batch, or after that but before the try
\* statement: what it has taken is forgotten.
TakeInterrupted(c) ==
  /\ step[c] = "retry"
  /\ \E n \in 1..BatchLen : queue' = SubSeq(queue, n + 1, Len(queue))
  /\ step' = [step EXCEPT ![c] = "idle"]
  /\ Fault
  /\ UNCHANGED <<fresh, batch, topic>>

\* The message at the head is popped; the last one ends the loop.
Pop(c, after) ==
  /\ step[c] = "batch"
  /\ batch' = [batch EXCEPT ![c] = Tail(@)]
  /\ step' = [step EXCEPT ![c] = IF Tail(batch[c]) = <<>> THEN "idle" ELSE after]

InHand(c) == Head(batch[c])
Failed(c) == Enqueue(queue, [InHand(c) EXCEPT !.tries = @ + 1])

DropExhausted(c) ==
  /\ Pop(c, "batch")
  /\ InHand(c).tries >= MaxAttempts
  /\ UNCHANGED <<fresh, queue, topic, faults>>

RetrySucceeds(c) ==
  /\ Pop(c, "batch")
  /\ InHand(c).tries < MaxAttempts
  /\ topic' = topic \cup {InHand(c).alert}
  /\ UNCHANGED <<fresh, queue, faults>>

RetryFails(c) ==
  /\ Pop(c, "batch")
  /\ InHand(c).tries < MaxAttempts
  /\ queue' = Failed(c)
  /\ UNCHANGED <<fresh, topic, faults>>

\* client.publish raises, before or after paho took the message.
RetryRaises(c) ==
  /\ Pop(c, "unwind")
  /\ InHand(c).tries < MaxAttempts
  /\ queue' = Failed(c)
  /\ topic' \in {topic, topic \cup {InHand(c).alert}}
  /\ UNCHANGED <<fresh, faults>>

\* Interrupted with a message in hand, sent or not: it is in no batch and no queue.
Interrupted(c) ==
  /\ Pop(c, "unwind")
  /\ \/ UNCHANGED topic
     \/ InHand(c).tries < MaxAttempts /\ topic' = topic \cup {InHand(c).alert}
  /\ Fault
  /\ UNCHANGED <<fresh, queue>>

InterruptedBetween(c) ==
  /\ step[c] = "batch"
  /\ step' = [step EXCEPT ![c] = "unwind"]
  /\ UNCHANGED <<fresh, queue, batch, topic, faults>>

\* As Unwind, without the finally clause.
Unwind_Forgets(c) ==
  /\ step[c] = "unwind"
  /\ batch' = [batch EXCEPT ![c] = <<>>]
  /\ step' = [step EXCEPT ![c] = "idle"]
  /\ UNCHANGED <<fresh, queue, topic, faults>>

\* The finally clause puts the rest of the batch back in front.
Unwind(c) ==
  /\ step[c] = "unwind"
  /\ queue' = Requeue(batch[c], queue)
  /\ batch' = [batch EXCEPT ![c] = <<>>]
  /\ step' = [step EXCEPT ![c] = "idle"]
  /\ UNCHANGED <<fresh, topic, faults>>

\* Interrupted in the finally clause, at the lock.
UnwindInterrupted(c) ==
  /\ step[c] = "unwind"
  /\ batch' = [batch EXCEPT ![c] = <<>>]
  /\ step' = [step EXCEPT ![c] = "idle"]
  /\ Fault
  /\ UNCHANGED <<fresh, queue, topic>>

-----------------------------------------------------------------------------
\* A worker that dies takes its queue with it (M40).
WorkerDies ==
  /\ Fault
  /\ queue' = <<>>
  /\ batch' = [c \in Callers |-> <<>>]
  /\ step' = [c \in Callers |-> "idle"]
  /\ UNCHANGED <<fresh, topic>>

PublisherNext ==
  \/ WorkerDies
  \/ \E c \in Callers :
       \/ \E a \in Alerts : PublishFails(c, a) \/ PublishSucceeds(c, a) \/ PublishRaises(c, a)
       \/ TakeBatch(c) \/ TakeInterrupted(c)
       \/ DropExhausted(c) \/ RetrySucceeds(c) \/ RetryFails(c) \/ RetryRaises(c)
       \/ Interrupted(c) \/ InterruptedBetween(c)
       \/ Unwind(c) \/ UnwindInterrupted(c)

PublisherSpec == PublisherInit /\ [][PublisherNext]_publisher

-----------------------------------------------------------------------------
Message == [alert : Alerts, tries : Nat]

\* The deque and every batch are within their bounds, and a caller holds messages
\* only inside _retry_failed_messages.
PublisherTypeOK ==
  /\ fresh \subseteq Alerts /\ topic \subseteq Alerts
  /\ queue \in Seq(Message) /\ Len(queue) <= MaxQueue
  /\ batch \in [Callers -> Seq(Message)]
  /\ step \in [Callers -> {"idle", "retry", "batch", "unwind"}]
  /\ faults \in Nat
  /\ \A c \in Callers : /\ Len(batch[c]) <= BatchSize /\ Len(batch[c]) <= MaxQueue
                        /\ batch[c] = <<>> <=> step[c] \in {"idle", "retry"}

MessagesHeld == ToSet(queue) \cup UNION {ToSet(batch[c]) : c \in Callers}

\* Alerts the process still owes the broker.
Held == {m.alert : m \in MessagesHeld}

\* What an interruption of caller c can cost: the batch it is taking, the message
\* in its hand, or the batch it was about to put back.
AtRisk(c) ==
  CASE step[c] = "retry" -> ToSet(SubSeq(queue, 1, BatchLen))
    [] step[c] = "batch" -> {InHand(c)}
    [] step[c] = "unwind" -> ToSet(batch[c])
    [] OTHER -> {}

Exhausted(m) ==
  \E c \in Callers : step[c] = "batch" /\ m = InHand(c) /\ m.tries >= MaxAttempts

\* Out of a deque that is full afterwards; never out of a batch that is put back.
PushedOut(m) == m \in ToSet(queue) /\ Len(queue') = MaxQueue

LostToInterruption(m) ==
  faults' > faults /\ \E c \in Callers : step'[c] # step[c] /\ m \in AtRisk(c)

\* An alert that failed once leaves the process unsent only after its retries are
\* used up, when the deque overflows, when its worker dies (M40), or when an
\* interruption hits just the thread that has it in hand (which the comments
\* exclude, see InterruptedRetryKeeps).  Threads that publish while another
\* retries, retries that raise and batches that are put back lose nothing else.
LostOnlyByPolicy ==
  [][\A m \in MessagesHeld :
       \/ m.alert \in Held' \cup topic'
       \/ Exhausted(m) \/ PushedOut(m) \/ LostToInterruption(m) \/ WorkerDies]_publisher

-----------------------------------------------------------------------------
(* What the repository says and the code does not do                         *)

\* "re-enqueues anything not published so an interrupted retry cannot lose
\* messages" and "a mid-retry exception (e.g. Celery SoftTimeLimitExceeded) can
\* never lose the outstanding batch" (M100): only the death of the process loses
\* a message that has retries left.
InterruptedRetryKeeps ==
  [][faults' > faults /\ ~WorkerDies =>
       \A m \in MessagesHeld : m.tries < MaxAttempts => m.alert \in Held' \cup topic']_publisher
=============================================================================
