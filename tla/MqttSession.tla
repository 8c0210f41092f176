---------------------------- MODULE MqttSession ----------------------------
(***************************************************************************)
(* Subscription and readiness state of the ingestion client                *)
(* (mqtt/client.py, class MQTTClient).  Two threads share it: paho's       *)
(* network loop, which runs the _on_connect / _on_subscribe /              *)
(* _on_disconnect callbacks one at a time, and the worker thread, whose    *)
(* tick (_maybe_retry_subscribes) re-issues failed subscriptions.  A       *)
(* callback is one step: all the worker writes of its state is an entry of *)
(* _pending_subs.  The worker's retry is several steps, because a SUBACK   *)
(* can be handled between subscribe() returning a packet id and the line   *)
(* that records it.                                                        *)
(***************************************************************************)
EXTENDS Naturals, FiniteSets

CONSTANTS Mids,       \* packet ids paho can hand out (65535 in paho)
          NoTopic,    \* "no entry under this packet id"
          MaxFaults   \* bound: broker faults and lost races in one behaviour

Reading == "reading"
Status  == "status"
Alerts  == "alerts"
Topics  == {Reading, Status, Alerts}
Required == {Reading, Status}

ASSUME SessionConstants == /\ NoTopic \notin Topics
                           /\ NoTopic \notin Mids
                           /\ MaxFaults \in Nat

VARIABLES
  link,              \* "down", "connecting" (TCP up, no CONNACK), "up", "lost"
  inflight,          \* packet id -> topic of a SUBSCRIBE the broker will answer
  session_grants,    \* history: topics the broker granted on this connection
  pending_subs,      \* _pending_subs: packet id -> topic awaiting its SUBACK
  granted_topics,    \* _granted_topics
  ready,             \* _ready
  subscribe_failed,  \* _subscribe_failed
  throttled,         \* now < _next_subscribe_retry
  wpc,               \* worker: "tick", "loop" (next topic), "store" (has a mid)
  wtopic,            \* position of the worker in the tuple of topics
  wmid,              \* packet id subscribe() returned to the worker
  faults             \* faults so far, bounded by MaxFaults

broker == <<link, inflight, session_grants>>
client == <<pending_subs, granted_topics, ready, subscribe_failed>>
worker == <<throttled, wpc, wtopic, wmid>>
vars   == <<link, inflight, session_grants, pending_subs, granted_topics,
            ready, subscribe_failed, throttled, wpc, wtopic, wmid, faults>>

TypeOK ==
  /\ link \in {"down", "connecting", "up", "lost"}
  /\ inflight \in [Mids -> Topics \cup {NoTopic}]
  /\ session_grants \subseteq Topics
  /\ pending_subs \in [Mids -> Topics \cup {NoTopic}]
  /\ granted_topics \subseteq Topics
  /\ ready \in BOOLEAN
  /\ subscribe_failed \in BOOLEAN
  /\ throttled \in BOOLEAN
  /\ wpc \in {"tick", "loop", "store"}
  /\ wtopic \in 1..4
  /\ wpc # "tick" => wtopic \in 1..3
  /\ wmid \in Mids \cup {NoTopic}
  /\ wpc = "store" <=> wmid # NoTopic
  /\ faults \in 0..MaxFaults

-----------------------------------------------------------------------------
\* The order in which both _on_connect and the retry visit the topics.
TopicOrder == <<Reading, Status, Alerts>>

NoSubs == [m \in Mids |-> NoTopic]

\* A packet id is free when no SUBSCRIBE carrying it is outstanding and
\* nobody remembers it.
FreeMids == {m \in Mids : /\ inflight[m] = NoTopic
                          /\ pending_subs[m] = NoTopic
                          /\ m # wmid}

\* Distinct packet ids for the three subscribe() calls of _on_connect.
Allocations == {a \in [Topics -> FreeMids] :
                  \A s, t \in Topics : s # t => a[s] # a[t]}

Fault == /\ faults < MaxFaults
         /\ faults' = faults + 1

Init ==
  /\ link = "down"
  /\ inflight = NoSubs
  /\ session_grants = {}
  /\ pending_subs = NoSubs
  /\ granted_topics = {}
  /\ ready = FALSE
  /\ subscribe_failed = FALSE
  /\ throttled = FALSE
  /\ wpc = "tick"
  /\ wtopic = 4
  /\ wmid = NoTopic
  /\ faults = 0

-----------------------------------------------------------------------------
(* Faulty variants: each restates one definition below with a plausible bug *)
(* of the code it models; the properties must tell them apart.              *)

\* Readiness by number of SUBACKs instead of by topic (M36).
ReadyWith_Counting(g) == Cardinality(g) >= 2

\* The retry flag is dropped before the alerts topic is granted.
AllGranted_RequiredOnly(g) == Required \subseteq g

\* The worker stops retrying as soon as the client is ready.
RetryDue_UntilReady == subscribe_failed /\ ~throttled /\ ~ready

-----------------------------------------------------------------------------
(* paho's network loop                                                      *)

\* loop_start()/reconnect(): the TCP connection is made, CONNECT is sent.
Connect ==
  /\ link = "down"
  /\ link' = "connecting"
  /\ session_grants' = {}
  /\ UNCHANGED <<inflight, client, worker, faults>>

\* The connection breaks; answers still in flight are never delivered.
ConnectionLost ==
  /\ link \in {"connecting", "up"}
  /\ Fault
  /\ link' = "lost"
  /\ inflight' = NoSubs
  /\ UNCHANGED <<session_grants, client, worker>>

\* _on_connect with rc # 0 returns at once; paho closes the socket and then
\* reports a disconnect.
OnConnectRefused ==
  /\ link = "connecting"
  /\ Fault
  /\ link' = "lost"
  /\ inflight' = NoSubs
  /\ UNCHANGED <<session_grants, client, worker>>

\* _on_connect with rc = 0: subscribe to the three topics, record the packet
\* ids of the calls that succeeded, flag the ones that failed.
OnConnect(failing) ==
  LET alloc == CHOOSE a \in Allocations : TRUE
      asked == Topics \ failing
      Register(f) == [m \in Mids |->
                        IF \E t \in asked : alloc[t] = m
                        THEN CHOOSE t \in asked : alloc[t] = m
                        ELSE f[m]]
  IN /\ link = "connecting"
     /\ Allocations # {}
     /\ IF failing = {} THEN UNCHANGED faults ELSE Fault
     /\ link' = "up"
     /\ inflight' = Register(inflight)
     /\ pending_subs' = Register(pending_subs)
     /\ subscribe_failed' = (failing # {})
     /\ UNCHANGED <<session_grants, granted_topics, ready, worker>>

\* {reading, status} <= _granted_topics
ReadyWith(g) == Required \subseteq g

\* {reading, status, alerts} <= _granted_topics
AllGranted(g) == Topics \subseteq g

\* _on_subscribe for a packet id that is not registered: ignored.
OnSubscribeUnknown(m) ==
  /\ link = "up"
  /\ inflight[m] # NoTopic
  /\ pending_subs[m] = NoTopic
  /\ Fault
  /\ inflight' = [inflight EXCEPT ![m] = NoTopic]
  /\ session_grants' = session_grants \cup {inflight[m]}
  /\ UNCHANGED <<link, client, worker>>

\* _on_subscribe with granted QoS >= 0x80 (or no QoS at all): flag the topic
\* for the worker tick (L69).
OnSubscribeDenied(m) ==
  /\ link = "up"
  /\ inflight[m] # NoTopic
  /\ pending_subs[m] # NoTopic
  /\ Fault
  /\ inflight' = [inflight EXCEPT ![m] = NoTopic]
  /\ pending_subs' = [pending_subs EXCEPT ![m] = NoTopic]
  /\ subscribe_failed' = TRUE
  /\ UNCHANGED <<link, session_grants, granted_topics, ready, worker>>

\* _on_subscribe with the subscription granted.
OnSubscribeGranted(m) ==
  LET g == granted_topics \cup {pending_subs[m]}
  IN /\ link = "up"
     /\ inflight[m] # NoTopic
     /\ pending_subs[m] # NoTopic
     /\ inflight' = [inflight EXCEPT ![m] = NoTopic]
     /\ session_grants' = session_grants \cup {inflight[m]}
     /\ pending_subs' = [pending_subs EXCEPT ![m] = NoTopic]
     /\ granted_topics' = g
     /\ subscribe_failed' = (subscribe_failed /\ ~AllGranted(g))
     /\ ready' = (ready \/ ReadyWith(g))
     /\ UNCHANGED <<link, worker, faults>>

\* _on_disconnect: forget everything about the lost connection.
OnDisconnect ==
  /\ link = "lost"
  /\ link' = "down"
  /\ ready' = FALSE
  /\ granted_topics' = {}
  /\ pending_subs' = NoSubs
  /\ subscribe_failed' = FALSE
  /\ UNCHANGED <<inflight, session_grants, worker, faults>>

-----------------------------------------------------------------------------
(* The worker tick, _maybe_retry_subscribes                                 *)

\* _subscribe_failed and the throttle interval is over.
RetryDue == subscribe_failed /\ ~throttled

\* Early return: nothing failed, or the last attempt is too recent.
RetryIdle ==
  /\ wpc = "tick"
  /\ ~RetryDue
  /\ UNCHANGED vars

\* Arm the throttle; go through the topics only while is_connected().
RetryBegin ==
  /\ wpc = "tick"
  /\ RetryDue
  /\ throttled' = TRUE
  /\ IF link \in {"up", "lost"}
     THEN wpc' = "loop" /\ wtopic' = 1
     ELSE UNCHANGED <<wpc, wtopic>>
  /\ UNCHANGED <<broker, client, wmid, faults>>

\* The loop moves on to the next topic, or the tick ends.
Advance ==
  /\ wtopic' = wtopic + 1
  /\ wpc' = IF wtopic = 3 THEN "tick" ELSE "loop"

\* "if topic in self._granted_topics: continue"
RetrySkip ==
  /\ wpc = "loop"
  /\ TopicOrder[wtopic] \in granted_topics
  /\ Advance
  /\ UNCHANGED <<broker, client, throttled, wmid, faults>>

\* subscribe() fails: always without a socket, otherwise a fault.
RetrySubscribeFails ==
  /\ wpc = "loop"
  /\ TopicOrder[wtopic] \notin granted_topics
  /\ IF link = "down" THEN UNCHANGED faults ELSE Fault
  /\ Advance
  /\ UNCHANGED <<broker, client, throttled, wmid>>

\* subscribe() succeeds: the packet is queued.  On a connection that is
\* already lost it is thrown away when paho reconnects.
RetrySubscribe ==
  /\ wpc = "loop"
  /\ TopicOrder[wtopic] \notin granted_topics
  /\ link # "down"
  /\ \E m \in FreeMids :
       /\ m = CHOOSE n \in FreeMids : TRUE
       /\ wmid' = m
       /\ inflight' = IF link = "lost" THEN inflight
                      ELSE [inflight EXCEPT ![m] = TopicOrder[wtopic]]
  /\ wpc' = "store"
  /\ UNCHANGED <<link, session_grants, client, throttled, wtopic, faults>>

\* self._pending_subs[mid] = topic
RetryStore ==
  /\ wpc = "store"
  /\ pending_subs' = [pending_subs EXCEPT ![wmid] = TopicOrder[wtopic]]
  /\ wmid' = NoTopic
  /\ Advance
  /\ UNCHANGED <<broker, granted_topics, ready, subscribe_failed, throttled,
                 faults>>

\* _SUBSCRIBE_RETRY_INTERVAL_S has passed.
RetryIntervalElapses ==
  /\ throttled
  /\ throttled' = FALSE
  /\ UNCHANGED <<broker, client, wpc, wtopic, wmid, faults>>

-----------------------------------------------------------------------------
LoopStep ==
  \/ Connect
  \/ \E failing \in SUBSET Topics : OnConnect(failing)
  \/ \E m \in Mids : OnSubscribeGranted(m)
  \/ OnDisconnect

FaultStep ==
  \/ ConnectionLost
  \/ OnConnectRefused
  \/ \E m \in Mids : OnSubscribeUnknown(m) \/ OnSubscribeDenied(m)

WorkerStep ==
  \/ RetryBegin
  \/ RetrySkip
  \/ RetrySubscribeFails
  \/ RetrySubscribe
  \/ RetryStore

Next == LoopStep \/ FaultStep \/ WorkerStep \/ RetryIdle \/ RetryIntervalElapses

Spec == Init /\ [][Next]_vars

\* paho's loop thread and the worker thread keep running, and time passes.
Fairness == /\ WF_vars(LoopStep)
            /\ WF_vars(WorkerStep)
            /\ WF_vars(RetryIntervalElapses)

FairSpec == Spec /\ Fairness

-----------------------------------------------------------------------------
(* Properties                                                               *)

\* A grant is only ever recorded for a topic the broker really granted on
\* this connection, so a late or re-used packet id cannot credit a topic.
GrantsAreReal == granted_topics \subseteq session_grants

\* The client reports ready only while the broker has granted both required
\* topics on the connection it is still using: whatever the order of the
\* SUBACKs (M36), a retry in flight across a reconnect, or a lost connection
\* (M88), no grant and no readiness is left over from another session.
ReadyMeansSubscribed ==
  /\ GrantsAreReal
  /\ ready => /\ link \in {"up", "lost"}
              /\ Required \subseteq session_grants

\* No topic is silently abandoned: on an established connection every topic
\* that is not granted has a registered SUBACK still to come, or the retry
\* flag is up (L69).  Without it the client would stay connected and deaf.
NoTopicAbandoned ==
  link = "up" =>
    \A t \in Topics \ granted_topics :
       \/ subscribe_failed
       \/ \E m \in Mids : pending_subs[m] = t /\ inflight[m] = t

\* Once the broker stops failing, the client becomes ready with all three
\* topics subscribed and stays so.
EventuallySubscribed == <>[](ready /\ granted_topics = Topics)
=============================================================================
