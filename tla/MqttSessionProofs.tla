------------------------- MODULE MqttSessionProofs -------------------------
(***************************************************************************)
(* Proofs about MqttSession, for any set of packet ids and any number of   *)
(* faults.  None of the safety properties is inductive by itself: that a   *)
(* grant is real depends on a packet id meaning the same topic to the      *)
(* broker and to _pending_subs, which depends in turn on the id the worker *)
(* holds between subscribe() and its store not being handed out again.     *)
(***************************************************************************)
EXTENDS MqttSession, TLAPS

\* Readiness follows the granted set, which is empty without a connection.
GrantState ==
  /\ ready => Required \subseteq granted_topics
  /\ granted_topics # {} => link \in {"up", "lost"}

\* Client and broker agree on the topic behind a packet id.
MidsAgree ==
  \A m \in Mids : inflight[m] # NoTopic /\ pending_subs[m] # NoTopic
                    => inflight[m] = pending_subs[m]

\* The id the worker is about to store is nobody else's.
WorkerMid ==
  wpc = "store" => /\ pending_subs[wmid] = NoTopic
                   /\ inflight[wmid] \in {NoTopic, TopicOrder[wtopic]}

SessionInv == /\ TypeOK
              /\ GrantState
              /\ MidsAgree
              /\ WorkerMid
              /\ GrantsAreReal
              /\ NoTopicAbandoned

-----------------------------------------------------------------------------
\* The three topics are different and none is the missing-entry marker.
LEMMA TopicsDistinct ==
  /\ Reading \in Topics /\ Status \in Topics /\ Alerts \in Topics
  /\ Required \subseteq Topics
  /\ \A i \in 1..3 : TopicOrder[i] \in Topics
  BY DEF Topics, Reading, Status, Alerts, Required, TopicOrder

\* A client that has not connected yet satisfies the invariant.
LEMMA InitInv == Init => SessionInv
  <1> SUFFICES ASSUME Init PROVE SessionInv
    OBVIOUS
  <1> USE SessionConstants DEF Init, SessionConstants
  <1>1. TypeOK
    <2>1. NoSubs \in [Mids -> Topics \cup {NoTopic}]
      BY DEF NoSubs
    <2>2. faults \in 0..MaxFaults /\ wtopic \in 1..4
      OBVIOUS
    <2> QED BY <2>1, <2>2 DEF TypeOK
  <1>2. GrantState /\ GrantsAreReal /\ NoTopicAbandoned /\ WorkerMid
    BY DEF GrantState, GrantsAreReal, NoTopicAbandoned, WorkerMid
  <1>3. MidsAgree
    BY DEF MidsAgree, NoSubs
  <1> QED BY <1>1, <1>2, <1>3 DEF SessionInv

\* What _on_connect registers: the ids it takes were free, and each topic it
\* asked for is registered on both sides under its own id.
LEMMA ConnectRegisters ==
  ASSUME SessionInv, NEW failing \in SUBSET Topics, OnConnect(failing)
  PROVE  /\ inflight' \in [Mids -> Topics \cup {NoTopic}]
         /\ pending_subs' \in [Mids -> Topics \cup {NoTopic}]
         /\ \A m \in Mids : \/ inflight'[m] = inflight[m] /\ pending_subs'[m] = pending_subs[m]
                            \/ /\ inflight'[m] = pending_subs'[m]
                               /\ m # wmid
         /\ \A t \in Topics \ failing :
              \E m \in Mids : inflight'[m] = t /\ pending_subs'[m] = t
  <1> DEFINE alloc == CHOOSE a \in Allocations : TRUE
             asked == Topics \ failing
             Pick(m) == CHOOSE t \in asked : alloc[t] = m
             Register(f) == [m \in Mids |->
                               IF \E t \in asked : alloc[t] = m
                               THEN Pick(m) ELSE f[m]]
  <1>1. /\ inflight' = Register(inflight)
        /\ pending_subs' = Register(pending_subs)
    BY DEF OnConnect
  <1>2. alloc \in Allocations
    BY DEF OnConnect
  <1>3. /\ alloc \in [Topics -> FreeMids]
        /\ \A s, t \in Topics : s # t => alloc[s] # alloc[t]
    BY <1>2 DEF Allocations
  <1>4. \A m \in FreeMids : m \in Mids /\ m # wmid
    BY DEF FreeMids
  <1> HIDE DEF alloc
  <1>5. ASSUME NEW m \in Mids, \E t \in asked : alloc[t] = m
        PROVE  Pick(m) \in asked /\ alloc[Pick(m)] = m
    BY <1>5
  <1>6. ASSUME NEW t \in asked
        PROVE  /\ alloc[t] \in Mids
               /\ Pick(alloc[t]) = t
    <2>1. alloc[t] \in Mids
      BY <1>3, <1>4
    <2>2. Pick(alloc[t]) \in asked /\ alloc[Pick(alloc[t])] = alloc[t]
      BY <2>1, <1>5
    <2> QED BY <2>1, <2>2, <1>3
  <1> HIDE DEF Pick
  <1>7. /\ inflight' \in [Mids -> Topics \cup {NoTopic}]
        /\ pending_subs' \in [Mids -> Topics \cup {NoTopic}]
    BY <1>1, <1>5 DEF SessionInv, TypeOK
  <1>8. \A m \in Mids : \/ inflight'[m] = inflight[m] /\ pending_subs'[m] = pending_subs[m]
                        \/ inflight'[m] = pending_subs'[m] /\ m # wmid
    <2> TAKE m \in Mids
    <2>1. CASE \E t \in asked : alloc[t] = m
      BY <2>1, <1>1, <1>3, <1>4
    <2>2. CASE ~ \E t \in asked : alloc[t] = m
      BY <2>2, <1>1
    <2> QED BY <2>1, <2>2
  <1>9. ASSUME NEW t \in Topics \ failing
        PROVE  \E m \in Mids : inflight'[m] = t /\ pending_subs'[m] = t
    <2>1. inflight'[alloc[t]] = t /\ pending_subs'[alloc[t]] = t
      BY <1>1, <1>6
    <2> QED BY <2>1, <1>6
  <1> QED BY <1>7, <1>8, <1>9

-----------------------------------------------------------------------------
\* Every callback, worker step and broker fault keeps the invariant.
LEMMA NextInv == SessionInv /\ [Next]_vars => SessionInv'
  <1> SUFFICES ASSUME SessionInv, [Next]_vars PROVE SessionInv'
    OBVIOUS
  <1> USE SessionConstants, TopicsDistinct DEF SessionConstants
  <1>1. CASE Connect
    BY <1>1 DEF Connect, client, worker, SessionInv, TypeOK, GrantState, MidsAgree,
                WorkerMid, GrantsAreReal, NoTopicAbandoned
  <1>2. CASE ConnectionLost \/ OnConnectRefused
    BY <1>2 DEF ConnectionLost, OnConnectRefused, Fault, client, worker, NoSubs,
                SessionInv, TypeOK, GrantState, MidsAgree, WorkerMid, GrantsAreReal,
                NoTopicAbandoned
  <1>3. ASSUME NEW failing \in SUBSET Topics, OnConnect(failing) PROVE SessionInv'
    <2>1. /\ link = "connecting" /\ link' = "up"
          /\ subscribe_failed' = (failing # {})
          /\ faults' \in 0..MaxFaults
          /\ UNCHANGED <<session_grants, granted_topics, ready, throttled, wpc, wtopic, wmid>>
      BY <1>3 DEF OnConnect, Fault, worker, SessionInv, TypeOK
    <2>2. TypeOK'
      BY <1>3, <2>1, ConnectRegisters DEF SessionInv, TypeOK
    <2>3. GrantState' /\ GrantsAreReal'
      BY <2>1 DEF SessionInv, GrantState, GrantsAreReal
    <2>4. MidsAgree'
      BY <1>3, ConnectRegisters DEF SessionInv, MidsAgree
    <2>5. WorkerMid'
      BY <1>3, <2>1, ConnectRegisters DEF SessionInv, WorkerMid, TypeOK
    <2>6. NoTopicAbandoned'
      BY <1>3, <2>1, ConnectRegisters DEF NoTopicAbandoned
    <2> QED BY <2>2, <2>3, <2>4, <2>5, <2>6 DEF SessionInv
  <1>4. ASSUME NEW m \in Mids, OnSubscribeUnknown(m) PROVE SessionInv'
    BY <1>4 DEF OnSubscribeUnknown, Fault, client, worker,
                SessionInv, TypeOK, GrantState, MidsAgree, WorkerMid, GrantsAreReal,
                NoTopicAbandoned
  <1>5. ASSUME NEW m \in Mids, OnSubscribeDenied(m) PROVE SessionInv'
    BY <1>5 DEF OnSubscribeDenied, Fault, worker,
                SessionInv, TypeOK, GrantState, MidsAgree, WorkerMid, GrantsAreReal,
                NoTopicAbandoned
  <1>6. ASSUME NEW m \in Mids, OnSubscribeGranted(m) PROVE SessionInv'
    <2> DEFINE t == pending_subs[m]
    <2>1. t \in Topics /\ inflight[m] = t
      BY <1>6 DEF OnSubscribeGranted, SessionInv, TypeOK, MidsAgree
    <2>2. TypeOK'
      BY <1>6, <2>1 DEF OnSubscribeGranted, worker, SessionInv, TypeOK
    <2>3. GrantState'
      BY <1>6, <2>1 DEF OnSubscribeGranted, ReadyWith, SessionInv, GrantState
    <2>4. MidsAgree' /\ WorkerMid' /\ GrantsAreReal'
      BY <1>6, <2>1 DEF OnSubscribeGranted, worker, SessionInv, TypeOK, MidsAgree,
                        WorkerMid, GrantsAreReal
    <2>5. NoTopicAbandoned'
      BY <1>6, <2>1 DEF OnSubscribeGranted, AllGranted, SessionInv, TypeOK,
                        NoTopicAbandoned
    <2> QED BY <2>2, <2>3, <2>4, <2>5 DEF SessionInv
  <1>7. CASE OnDisconnect
    BY <1>7 DEF OnDisconnect, worker, NoSubs, SessionInv, TypeOK, GrantState, MidsAgree,
                WorkerMid, GrantsAreReal, NoTopicAbandoned
  <1>8. CASE RetryIdle
    BY <1>8 DEF RetryIdle, vars, SessionInv, TypeOK, GrantState, MidsAgree,
                WorkerMid, GrantsAreReal, NoTopicAbandoned
  <1>9. CASE RetryBegin \/ RetryIntervalElapses
    <2>1. /\ UNCHANGED <<link, inflight, session_grants, pending_subs, granted_topics,
                         ready, subscribe_failed, wmid, faults>>
          /\ throttled' \in BOOLEAN
          /\ \/ UNCHANGED <<wpc, wtopic>>
             \/ wpc = "tick" /\ wpc' = "loop" /\ wtopic' = 1
      BY <1>9 DEF RetryBegin, RetryIntervalElapses, broker, client
    <2>2. TypeOK'
      BY <2>1 DEF SessionInv, TypeOK
    <2> QED
      BY <2>1, <2>2 DEF SessionInv, GrantState, MidsAgree, WorkerMid, GrantsAreReal,
                        NoTopicAbandoned
  <1>10. CASE RetrySkip \/ RetrySubscribeFails
    BY <1>10 DEF RetrySkip, RetrySubscribeFails, Advance, Fault, broker, client,
                SessionInv, TypeOK, GrantState, MidsAgree,
                WorkerMid, GrantsAreReal, NoTopicAbandoned
  <1>11. CASE RetrySubscribe
    <2>1. PICK m \in FreeMids :
            /\ wmid' = m
            /\ inflight' = IF link = "lost" THEN inflight
                           ELSE [inflight EXCEPT ![m] = TopicOrder[wtopic]]
      BY <1>11 DEF RetrySubscribe
    <2>2. m \in Mids /\ inflight[m] = NoTopic /\ pending_subs[m] = NoTopic
      BY <2>1 DEF FreeMids
    <2>3. /\ wpc = "loop" /\ wpc' = "store"
          /\ UNCHANGED <<link, session_grants, pending_subs, granted_topics, ready,
                         subscribe_failed, throttled, wtopic, faults>>
      BY <1>11 DEF RetrySubscribe, client
    <2>4. TypeOK'
      BY <2>1, <2>2, <2>3 DEF SessionInv, TypeOK
    <2>5. GrantState' /\ MidsAgree' /\ WorkerMid' /\ GrantsAreReal'
      BY <2>1, <2>2, <2>3 DEF SessionInv, TypeOK, GrantState, MidsAgree, WorkerMid,
                              GrantsAreReal
    <2>6. NoTopicAbandoned'
      BY <2>1, <2>2, <2>3 DEF SessionInv, TypeOK, NoTopicAbandoned
    <2> QED BY <2>4, <2>5, <2>6 DEF SessionInv
  <1>12. CASE RetryStore
    <2>1. wmid \in Mids /\ wtopic \in 1..3 /\ pending_subs[wmid] = NoTopic
      BY <1>12 DEF RetryStore, SessionInv, TypeOK, WorkerMid
    <2>2. TypeOK'
      BY <1>12, <2>1 DEF RetryStore, Advance, broker, SessionInv, TypeOK
    <2>3. GrantState' /\ MidsAgree' /\ WorkerMid' /\ GrantsAreReal'
      BY <1>12, <2>1 DEF RetryStore, Advance, broker, SessionInv, TypeOK, GrantState,
                         MidsAgree, WorkerMid, GrantsAreReal
    <2>4. NoTopicAbandoned'
      BY <1>12, <2>1 DEF RetryStore, broker, SessionInv, TypeOK, NoTopicAbandoned
    <2> QED BY <2>2, <2>3, <2>4 DEF SessionInv
  <1>13. CASE UNCHANGED vars
    BY <1>13 DEF vars, SessionInv, TypeOK, GrantState, MidsAgree,
                WorkerMid, GrantsAreReal, NoTopicAbandoned
  <1> QED
    BY <1>1, <1>2, <1>3, <1>4, <1>5, <1>6, <1>7, <1>8, <1>9, <1>10, <1>11, <1>12, <1>13
       DEF Next, LoopStep, FaultStep, WorkerStep

\* The inductive invariant of the session holds in every reachable state.
THEOREM SessionInvariant == Spec => []SessionInv
  BY InitInv, NextInv, PTL DEF Spec

\* Type correctness of the session state.
THEOREM SessionTypeOK == Spec => []TypeOK
  <1>1. SessionInv => TypeOK
    BY DEF SessionInv
  <1> QED BY <1>1, SessionInvariant, PTL

\* _granted_topics never credits a topic the broker did not grant on the current
\* connection, and _ready is True only on a connection whose broker granted both
\* required topics, for every order of callbacks, retries and disconnects.
THEOREM ReadySafe == Spec => []ReadyMeansSubscribed
  <1>1. SessionInv => ReadyMeansSubscribed
    BY DEF SessionInv, GrantState, GrantsAreReal, ReadyMeansSubscribed, Required
  <1> QED BY <1>1, SessionInvariant, PTL

\* On an established connection a topic without a grant is either awaiting a
\* registered SUBACK or flagged for the worker's retry.
THEOREM TopicsNotAbandoned == Spec => []NoTopicAbandoned
  <1>1. SessionInv => NoTopicAbandoned
    BY DEF SessionInv
  <1> QED BY <1>1, SessionInvariant, PTL
=============================================================================
