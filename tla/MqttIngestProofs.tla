-------------------------- MODULE MqttIngestProofs --------------------------
(***************************************************************************)
(* Proofs about MqttIngest, for any set of messages, any queue and retry    *)
(* limits and any cap of the limiter's table.  A message moves through the  *)
(* pipeline and is in one place at a time, so taking it out of its place    *)
(* without giving it another loses exactly one message; the two places of   *)
(* the code that do so are the two that count.                              *)
(***************************************************************************)
EXTENDS MqttIngest, FiniteSetTheorems, SequenceTheorems, TLAPS

\* A thread holds a message exactly while it handles one.
HeldWhileHandling ==
  \A t \in Threads : held[t] # NoMsg <=> Handling(t)

InPipeline == InQueue \cup InHand \cup Finished

\* What the broker has still to deliver is nowhere in the pipeline.
UndeliveredOutside == undelivered \cap InPipeline = {}

IngestInv ==
  /\ TypeOK
  /\ HeldWhileHandling
  /\ UndeliveredOutside
  /\ OnePlaceOnly
  /\ LossIsCounted
  /\ LimiterBounded

\* The messages that vanished.
Lost == Delivered \ InPipeline

Elements(q) == {q[i] : i \in DOMAIN q}

-----------------------------------------------------------------------------
(* Sequences                                                                *)

\* put: a message that is not queued yet joins the queue once.
LEMMA AppendFacts ==
  ASSUME NEW S, NEW q \in Seq(S), NEW m \in S
  PROVE  /\ Append(q, m) \in Seq(S)
         /\ Len(Append(q, m)) = Len(q) + 1
         /\ Elements(Append(q, m)) = Elements(q) \cup {m}
         /\ IsInjective(q) /\ m \notin Elements(q) => IsInjective(Append(q, m))
<1> DEFINE new == Append(q, m)
<1>1. /\ new \in Seq(S) /\ Len(new) = Len(q) + 1
      /\ \A i \in 1..Len(q) : new[i] = q[i]
      /\ new[Len(q) + 1] = m
  BY AppendProperties
<1>2. /\ DOMAIN q = 1..Len(q) /\ Len(q) \in Nat
      /\ DOMAIN new = 1..(Len(q) + 1)
  BY <1>1, LenProperties
<1> HIDE DEF new
<1>3. Elements(new) = Elements(q) \cup {m}
  <2>1. Elements(new) \subseteq Elements(q) \cup {m}
    <3> SUFFICES ASSUME NEW i \in DOMAIN new PROVE new[i] \in Elements(q) \cup {m}
      BY DEF Elements
    <3> QED BY <1>1, <1>2 DEF Elements
  <2>2. Elements(q) \cup {m} \subseteq Elements(new)
    BY <1>1, <1>2 DEF Elements
  <2> QED BY <2>1, <2>2
<1>4. IsInjective(q) /\ m \notin Elements(q) => IsInjective(new)
  BY <1>1, <1>2 DEF IsInjective, Elements
<1> QED BY <1>1, <1>3, <1>4 DEF new

\* get: the first message leaves a queue without duplicates.
LEMMA TailFacts ==
  ASSUME NEW S, NEW q \in Seq(S), q # <<>>
  PROVE  /\ Head(q) \in S /\ Head(q) \in Elements(q)
         /\ Tail(q) \in Seq(S) /\ Len(Tail(q)) = Len(q) - 1
         /\ Elements(q) = Elements(Tail(q)) \cup {Head(q)}
         /\ IsInjective(q) => IsInjective(Tail(q)) /\ Head(q) \notin Elements(Tail(q))
<1> DEFINE h == Head(q)
           rest == Tail(q)
<1>1. /\ h \in S /\ rest \in Seq(S) /\ Len(rest) = Len(q) - 1
      /\ \A i \in 1..Len(rest) : rest[i] = q[i + 1]
  BY HeadTailProperties
<1>2. /\ DOMAIN q = 1..Len(q) /\ Len(q) \in Nat \ {0}
      /\ DOMAIN rest = 1..(Len(q) - 1)
  BY <1>1, LenProperties, EmptySeq
<1>3. h = q[1]
  OBVIOUS
<1> HIDE DEF h, rest
<1>4. Elements(q) = Elements(rest) \cup {h}
  <2>1. ASSUME NEW i \in DOMAIN q PROVE q[i] \in Elements(rest) \cup {h}
    <3>1. CASE i = 1
      BY <1>3, <3>1
    <3>2. CASE i # 1
      <4>1. i - 1 \in DOMAIN rest /\ rest[i - 1] = q[i]
        BY <1>1, <1>2, <3>2
      <4> QED BY <4>1 DEF Elements
    <3> QED BY <3>1, <3>2
  <2>2. ASSUME NEW i \in DOMAIN rest PROVE rest[i] \in Elements(q)
    BY <1>1, <1>2 DEF Elements
  <2>3. h \in Elements(q)
    BY <1>2, <1>3 DEF Elements
  <2> QED BY <2>1, <2>2, <2>3 DEF Elements
<1>5. ASSUME IsInjective(q) PROVE IsInjective(rest) /\ h \notin Elements(rest)
  <2>1. \A i \in DOMAIN rest : i + 1 \in DOMAIN q /\ i + 1 # 1 /\ rest[i] = q[i + 1]
    BY <1>1, <1>2
  <2>2. 1 \in DOMAIN q
    BY <1>2
  <2>3. \A i \in DOMAIN rest : rest[i] # h
    BY <1>3, <1>5, <2>1, <2>2 DEF IsInjective
  <2>4. \A i, j \in DOMAIN rest : rest[i] = rest[j] => i + 1 = j + 1
    BY <1>5, <2>1 DEF IsInjective
  <2>5. \A i, j \in DOMAIN rest : i + 1 = j + 1 => i = j
    BY <1>2
  <2> QED BY <2>3, <2>4, <2>5 DEF IsInjective, Elements
<1> QED BY <1>1, <1>4, <1>5 DEF h, rest

\* Taking one entry out of the limiter's table.
LEMMA RemoveAtFacts ==
  ASSUME NEW S, NEW q \in Seq(S), NEW k \in DOMAIN q
  PROVE  /\ RemoveAt(q, k) \in Seq(S)
         /\ Len(RemoveAt(q, k)) = Len(q) - 1
         /\ \A i \in 1..(Len(q) - 1) :
              RemoveAt(q, k)[i] = IF i < k THEN q[i] ELSE q[i + 1]
<1> DEFINE l == SubSeq(q, 1, k - 1)
           r == SubSeq(q, k + 1, Len(q))
<1>1. /\ DOMAIN q = 1..Len(q) /\ Len(q) \in Nat /\ k \in 1..Len(q)
      /\ \A i \in 1..Len(q) : q[i] \in S
  BY LenProperties, ElementOfSeq
<1>2. l \in Seq(S) /\ Len(l) = k - 1 /\ \A i \in 1..(k - 1) : l[i] = q[i]
  <2>1. /\ l \in Seq(S)
        /\ Len(l) = IF 1 <= k - 1 THEN k - 1 - 1 + 1 ELSE 0
        /\ \A i \in 1..(k - 1 - 1 + 1) : l[i] = q[1 + i - 1]
    BY <1>1, SubSeqProperties
  <2> HIDE DEF l
  <2> QED BY <1>1, <2>1
<1>3. r \in Seq(S) /\ Len(r) = Len(q) - k /\ \A i \in 1..(Len(q) - k) : r[i] = q[k + i]
  <2>1. /\ r \in Seq(S)
        /\ Len(r) = IF k + 1 <= Len(q) THEN Len(q) - (k + 1) + 1 ELSE 0
        /\ \A i \in 1..(Len(q) - (k + 1) + 1) : r[i] = q[k + 1 + i - 1]
    BY <1>1, SubSeqProperties
  <2> HIDE DEF r
  <2>2. /\ Len(q) - (k + 1) + 1 = Len(q) - k
        /\ ~(k + 1 <= Len(q)) => Len(q) - k = 0
        /\ \A i \in 1..(Len(q) - k) : k + 1 + i - 1 = k + i
    BY <1>1
  <2> QED BY <2>1, <2>2
<1> HIDE DEF l, r
<1>4. /\ l \o r \in Seq(S) /\ Len(l \o r) = Len(l) + Len(r)
      /\ \A i \in 1..(Len(l) + Len(r)) : (l \o r)[i] = IF i <= Len(l) THEN l[i] ELSE r[i - Len(l)]
  BY <1>2, <1>3, ConcatProperties
<1>5. RemoveAt(q, k) = l \o r
  BY DEF RemoveAt, l, r
<1>6. ASSUME NEW i \in 1..(Len(q) - 1)
      PROVE  (l \o r)[i] = IF i < k THEN q[i] ELSE q[i + 1]
  <2>1. CASE i < k
    BY <1>1, <1>2, <1>3, <1>4, <2>1
  <2>2. CASE i >= k
    <3>1. /\ i - (k - 1) \in 1..(Len(q) - k) /\ k + (i - (k - 1)) = i + 1
          /\ i \in 1..(k - 1 + (Len(q) - k)) /\ ~(i <= k - 1) /\ ~(i < k)
      BY <1>1, <2>2
    <3>2. (l \o r)[i] = r[i - (k - 1)]
      BY <1>2, <1>3, <1>4, <3>1
    <3>3. r[i - (k - 1)] = q[i + 1]
      BY <1>3, <3>1
    <3> QED BY <3>1, <3>2, <3>3
  <2>3. i < k \/ i >= k
    BY <1>1
  <2> QED BY <2>1, <2>2, <2>3
<1>7. (k - 1) + (Len(q) - k) = Len(q) - 1
  BY <1>1
<1>8. Len(l \o r) = Len(q) - 1
  BY <1>2, <1>3, <1>4, <1>7
<1> QED BY <1>4, <1>5, <1>6, <1>8

-----------------------------------------------------------------------------
(* The limiter's table                                                      *)

\* The table without the node: nothing else changes.
LEMMA OthersFacts ==
  ASSUME NEW n \in Nodes, last_seen \in Seq(Nodes), IsInjective(last_seen)
  PROVE  /\ Others(n) \in Seq(Nodes)
         /\ Len(Others(n)) <= Len(last_seen)
         /\ IsInjective(Others(n))
         /\ n \notin Elements(Others(n))
<1> DEFINE at == {i \in DOMAIN last_seen : last_seen[i] = n}
           k == CHOOSE i \in at : TRUE
<1>1. Len(last_seen) \in Nat /\ DOMAIN last_seen = 1..Len(last_seen)
  BY LenProperties
<1>2. CASE at = {}
  <2>1. Others(n) = last_seen
    BY <1>2 DEF Others
  <2>2. n \notin Elements(last_seen)
    BY <1>2 DEF Elements
  <2> QED BY <1>1, <2>1, <2>2
<1>3. CASE at # {}
  <2>1. k \in at
    BY <1>3
  <2>2. Others(n) = RemoveAt(last_seen, k)
    BY <1>3 DEF Others
  <2>3. k \in DOMAIN last_seen /\ last_seen[k] = n
    BY <2>1
  <2> HIDE DEF k, at
  <2> DEFINE rest == RemoveAt(last_seen, k)
  <2>4. /\ rest \in Seq(Nodes) /\ Len(rest) = Len(last_seen) - 1
        /\ \A i \in 1..(Len(last_seen) - 1) :
             rest[i] = IF i < k THEN last_seen[i] ELSE last_seen[i + 1]
    BY <2>3, RemoveAtFacts
  <2> HIDE DEF rest
  <2>5. DOMAIN rest = 1..(Len(last_seen) - 1)
    BY <2>4, LenProperties
  <2> DEFINE old(i) == IF i < k THEN i ELSE i + 1
  <2>6. \A i \in DOMAIN rest : /\ old(i) \in DOMAIN last_seen /\ old(i) # k
                               /\ rest[i] = last_seen[old(i)]
    BY <1>1, <2>3, <2>4, <2>5
  <2>7. \A i, j \in DOMAIN rest : old(i) = old(j) => i = j
    BY <1>1, <2>3, <2>5
  <2> HIDE DEF old
  <2>8. IsInjective(rest)
    BY <2>6, <2>7 DEF IsInjective
  <2>9. n \notin Elements(rest)
    BY <2>3, <2>6 DEF IsInjective, Elements
  <2> QED BY <1>1, <2>2, <2>4, <2>8, <2>9 DEF rest
<1> QED BY <1>2, <1>3

\* The newest part of a table is a table.
LEMMA SuffixFacts ==
  ASSUME NEW S, NEW q \in Seq(S), NEW p \in 1..Len(q), IsInjective(q)
  PROVE  LET new == SubSeq(q, Len(q) - p + 1, Len(q)) IN
         new \in Seq(S) /\ Len(new) = p /\ IsInjective(new)
<1> DEFINE m == Len(q) - p + 1
           new == SubSeq(q, m, Len(q))
<1>1. /\ Len(q) \in Nat /\ DOMAIN q = 1..Len(q) /\ \A i \in 1..Len(q) : q[i] \in S
      /\ p \in Nat
  BY LenProperties, ElementOfSeq
<1>2. /\ m \in 1..Len(q) /\ Len(q) - m + 1 = p
      /\ \A i \in 1..p : m + i - 1 \in DOMAIN q
  BY <1>1
<1> HIDE DEF m
<1>3. /\ new \in Seq(S) /\ Len(new) = p
      /\ \A i \in 1..p : new[i] = q[m + i - 1]
  <2>1. \A i \in m..Len(q) : q[i] \in S
    BY <1>1, <1>2
  <2>2. /\ new \in Seq(S)
        /\ Len(new) = IF m <= Len(q) THEN Len(q) - m + 1 ELSE 0
        /\ \A i \in 1..(Len(q) - m + 1) : new[i] = q[m + i - 1]
    BY <1>1, <1>2, <2>1, SubSeqProperties
  <2> HIDE DEF new
  <2>3. m <= Len(q)
    BY <1>1, <1>2
  <2> QED BY <1>2, <2>2, <2>3
<1> HIDE DEF new
<1>4. DOMAIN new = 1..p
  BY <1>3, LenProperties
<1>5. \A i, j \in 1..p : m + i - 1 = m + j - 1 => i = j
  BY <1>1, <1>2
<1>6. IsInjective(new)
  BY <1>2, <1>3, <1>4, <1>5 DEF IsInjective
<1> QED BY <1>3, <1>6 DEF new, m

\* Recording a node keeps the table within its cap, one entry per node.
LEMMA RememberFacts ==
  ASSUME NEW n \in Nodes, last_seen \in Seq(Nodes), LimiterBounded
  PROVE  /\ Remember(n) \in Seq(Nodes)
         /\ Len(Remember(n)) <= NODE_LAST_SEEN_MAX
         /\ IsInjective(Remember(n))
<1> DEFINE s == Append(Others(n), n)
<1>1. s \in Seq(Nodes) /\ IsInjective(s)
  BY OthersFacts, AppendFacts DEF LimiterBounded
<1>2. Len(s) \in Nat
  BY <1>1, LenProperties
<1> HIDE DEF s
<1>3. CASE Len(s) > NODE_LAST_SEEN_MAX
  <2> DEFINE new == SubSeq(s, Len(s) - NODE_LAST_SEEN_PRUNE_TO + 1, Len(s))
  <2>1. NODE_LAST_SEEN_PRUNE_TO \in 1..Len(s)
    BY <1>2, <1>3, IngestConstants
  <2>2. new \in Seq(Nodes) /\ Len(new) = NODE_LAST_SEEN_PRUNE_TO /\ IsInjective(new)
    BY <1>1, <2>1, SuffixFacts
  <2>3. Remember(n) = new
    BY <1>3 DEF Remember, s
  <2> QED BY <2>2, <2>3, IngestConstants
<1>4. CASE ~(Len(s) > NODE_LAST_SEEN_MAX)
  <2>1. Remember(n) = s
    BY <1>4 DEF Remember, s
  <2> QED BY <1>1, <1>2, <1>4, <2>1, IngestConstants
<1> QED BY <1>3, <1>4

-----------------------------------------------------------------------------
(* Places                                                                   *)

\* The hands that can hold a message: the loop thread's and two more.
LEMMA HandFacts ==
  ASSUME TypeOK
  PROVE  /\ InHand = {putting, held[Worker], held[Stopper]} \ {NoMsg}
         /\ InQueue = Elements(queue)
         /\ InQueue \subseteq Msgs /\ InHand \subseteq Msgs /\ Finished \subseteq Msgs
         /\ NoMsg \notin Msgs
         /\ Delivered \subseteq Msgs /\ IsFiniteSet(Lost)
<1>1. InHand = {putting, held[Worker], held[Stopper]} \ {NoMsg}
  BY DEF InHand, Threads
<1>2. InQueue = Elements(queue)
  BY DEF InQueue, Elements
<1>3. InQueue \subseteq Msgs
  <2>1. \A i \in DOMAIN queue : queue[i] \in Msgs
    BY LenProperties, ElementOfSeq DEF TypeOK
  <2> QED BY <2>1 DEF InQueue
<1>4. InHand \subseteq Msgs /\ Finished \subseteq Msgs
  BY <1>1 DEF TypeOK, Threads, Finished
<1>5. IsFiniteSet(Lost)
  <2>1. Lost \in SUBSET Msgs
    BY DEF Lost, Delivered
  <2> QED BY <2>1, IngestConstants, FS_Subset
<1> QED BY <1>1, <1>2, <1>3, <1>4, <1>5, IngestConstants DEF Delivered

\* OnePlaceOnly with the hands spelled out.
Apart ==
  /\ IsInjective(queue)
  /\ InQueue \cap Finished = {}
  /\ putting # NoMsg => /\ putting \notin InQueue \cup Finished
                        /\ putting # held[Worker] /\ putting # held[Stopper]
  /\ held[Worker] # NoMsg => /\ held[Worker] \notin InQueue \cup Finished
                             /\ held[Worker] # held[Stopper]
  /\ held[Stopper] # NoMsg => held[Stopper] \notin InQueue \cup Finished

LEMMA ApartIsOnePlace == TypeOK => (OnePlaceOnly <=> Apart)
<1> SUFFICES ASSUME TypeOK PROVE OnePlaceOnly <=> Apart
  OBVIOUS
<1>1. InHand = {putting, held[Worker], held[Stopper]} \ {NoMsg}
  BY HandFacts
<1>2. (\A t \in Threads : putting # held[t]) <=> putting # held[Worker] /\ putting # held[Stopper]
  BY DEF Threads
<1> QED BY <1>1, <1>2 DEF OnePlaceOnly, Apart

\* The same about the state after a step.
LEMMA PlacesNext ==
  /\ InHand' = {putting', held'[Worker], held'[Stopper]} \ {NoMsg}
  /\ InQueue' = Elements(queue')
  /\ Apart' => OnePlaceOnly'
<1>1. InHand' = {putting', held'[Worker], held'[Stopper]} \ {NoMsg}
  BY DEF InHand, Threads
<1>2. InQueue' = Elements(queue')
  BY DEF InQueue, Elements
<1>3. putting' # held'[Worker] /\ putting' # held'[Stopper] => \A t \in Threads : putting' # held'[t]
  BY DEF Threads
<1> QED BY <1>1, <1>2, <1>3 DEF OnePlaceOnly, Apart

\* A step that leaves every message delivered so far in some place, or gives
\* a new one a place, loses none.
LEMMA LossKept ==
  ASSUME IngestInv, Lost' = Lost, UNCHANGED <<dropped_readings, queue_overflow>>
  PROVE  LossIsCounted'
BY DEF IngestInv, LossIsCounted, Lost, InPipeline

\* A step that drops one message and counts it keeps the books balanced.
LEMMA LossGrows ==
  ASSUME IngestInv, NEW m, m \notin Lost, Lost' = Lost \cup {m},
         dropped_readings' + queue_overflow' = dropped_readings + queue_overflow + 1
  PROVE  LossIsCounted'
<1>1. IsFiniteSet(Lost)
  BY HandFacts DEF IngestInv
<1>2. Cardinality(Lost') = Cardinality(Lost) + 1
  BY <1>1, FS_AddElement
<1> QED BY <1>2 DEF IngestInv, LossIsCounted, Lost, InPipeline

\* Steps that move no message: time, the threads' own control, a retry.
LEMMA QuietStep ==
  ASSUME IngestInv, TypeOK', HeldWhileHandling', LimiterBounded',
         UNCHANGED <<undelivered, putting, queue, held, dropped_readings,
                     queue_overflow, dispatched, settled>>
  PROVE  IngestInv'
<1>1. UndeliveredOutside' /\ OnePlaceOnly'
  BY DEF IngestInv, UndeliveredOutside, OnePlaceOnly, InPipeline, InQueue, InHand, Finished
<1>2. Lost' = Lost
  BY DEF Lost, Delivered, InPipeline, InQueue, InHand, Finished
<1> QED BY <1>1, <1>2, LossKept DEF IngestInv

-----------------------------------------------------------------------------
(* The loop thread                                                          *)

\* _on_message settles the message or hands it to _enqueue.
LEMMA OnMessageInv ==
  ASSUME IngestInv, NEW m \in Msgs, OnMessage(m)
  PROVE  IngestInv'
<1>0. /\ TypeOK /\ HeldWhileHandling /\ UndeliveredOutside /\ Apart /\ LimiterBounded
  BY ApartIsOnePlace DEF IngestInv
<1>1. /\ putting = NoMsg /\ m \in undelivered /\ undelivered' = undelivered \ {m}
      /\ UNCHANGED <<queue, held, attempt, wpc, phase, drained, dropped_readings,
                     queue_overflow>>
      /\ UNCHANGED <<put_attempt, dispatched>>
  BY DEF OnMessage, OnMessageMalformed, OnMessageAlert, OnMessageAdmitted, OnMessageLimited,
         loopvars, outcomes
<1>2. \/ settled' = settled \cup {m} /\ putting' = putting
      \/ settled' = settled /\ putting' = m
  BY DEF OnMessage, OnMessageMalformed, OnMessageAlert, OnMessageAdmitted, OnMessageLimited,
         loopvars, outcomes
<1>3. /\ last_seen' \in Seq(Nodes) /\ recent' \in 0..Len(last_seen')
      /\ LimiterBounded'
  <2>1. CASE UNCHANGED <<last_seen, recent>>
    BY <1>0, <2>1 DEF TypeOK, LimiterBounded
  <2>2. CASE OnMessageAdmitted(m)
    <3>1. m.node \in Nodes
      BY IngestConstants DEF Message
    <3>2. /\ last_seen' = Remember(m.node)
          /\ recent' = IF recent + 1 > Len(last_seen') THEN Len(last_seen') ELSE recent + 1
      BY <2>2 DEF OnMessageAdmitted
    <3>3. /\ last_seen' \in Seq(Nodes) /\ LimiterBounded' /\ Len(last_seen') \in Nat
      BY <1>0, <3>1, <3>2, RememberFacts, LenProperties DEF TypeOK, LimiterBounded
    <3>4. recent \in Nat
      BY <1>0, LenProperties DEF TypeOK
    <3> QED BY <3>2, <3>3, <3>4
  <2> QED BY <2>1, <2>2 DEF OnMessage, OnMessageMalformed, OnMessageAlert, OnMessageLimited,
                            loopvars
<1>4. TypeOK'
  BY <1>0, <1>1, <1>2, <1>3 DEF TypeOK
<1>5. HeldWhileHandling'
  BY <1>0, <1>1 DEF HeldWhileHandling, Handling
<1>6. /\ InQueue' = InQueue /\ InQueue = Elements(queue)
      /\ InHand = {held[Worker], held[Stopper]} \ {NoMsg}
      /\ \/ InHand' = InHand /\ Finished' = Finished \cup {m}
         \/ InHand' = InHand \cup {m} /\ Finished' = Finished
      /\ m # NoMsg
  BY <1>0, <1>1, <1>2, HandFacts, PlacesNext DEF Finished
<1>7. m \notin InPipeline
  BY <1>0, <1>1 DEF UndeliveredOutside
<1>8. UndeliveredOutside'
  BY <1>0, <1>1, <1>6 DEF UndeliveredOutside, InPipeline
<1>9. OnePlaceOnly'
  <2>1. Apart'
    BY <1>0, <1>1, <1>2, <1>6, <1>7 DEF Apart, InPipeline, Finished
  <2> QED BY <2>1, PlacesNext
<1>10. Lost' = Lost
  BY <1>0, <1>1, <1>6, <1>7 DEF Lost, Delivered, InPipeline, TypeOK
<1> QED BY <1>1, <1>3, <1>4, <1>5, <1>8, <1>9, <1>10, LossKept DEF IngestInv

\* put() moves the message from the loop thread's hand to the queue.
LEMMA EnqueuePutInv ==
  ASSUME IngestInv, EnqueuePut
  PROVE  IngestInv'
<1>0. /\ TypeOK /\ HeldWhileHandling /\ UndeliveredOutside /\ Apart /\ LimiterBounded
  BY ApartIsOnePlace DEF IngestInv
<1> DEFINE m == putting
<1>1. /\ m \in Msgs /\ m # NoMsg /\ Len(queue) < QUEUE_MAX
      /\ queue' = Append(queue, m) /\ putting' = NoMsg /\ put_attempt' = 0
      /\ UNCHANGED <<undelivered, last_seen, recent, held, attempt, wpc, phase, drained,
                     dropped_readings, queue_overflow, dispatched, settled>>
  BY <1>0 DEF EnqueuePut, TypeOK, outcomes
<1>2. /\ queue \in Seq(Msgs) /\ Len(queue) \in Nat /\ m \notin Elements(queue) /\ IsInjective(queue)
  BY <1>0, <1>1, HandFacts, LenProperties DEF TypeOK, Apart
<1>3. /\ queue' \in Seq(Msgs) /\ Len(queue') = Len(queue) + 1
      /\ Elements(queue') = Elements(queue) \cup {m} /\ IsInjective(queue')
  BY <1>1, <1>2, AppendFacts
<1>4. TypeOK'
  BY <1>0, <1>1, <1>2, <1>3, IngestConstants DEF TypeOK
<1>5. HeldWhileHandling'
  BY <1>0, <1>1 DEF HeldWhileHandling, Handling
<1>6. /\ InQueue' = InQueue \cup {m} /\ Finished' = Finished
      /\ InHand = {m, held[Worker], held[Stopper]} \ {NoMsg}
      /\ InHand' = {held[Worker], held[Stopper]} \ {NoMsg}
  BY <1>0, <1>1, <1>3, HandFacts, PlacesNext DEF Finished
<1>7. InPipeline' = InPipeline
  BY <1>1, <1>6 DEF InPipeline
<1>8. OnePlaceOnly'
  <2>1. Apart'
    BY <1>0, <1>1, <1>3, <1>6 DEF Apart
  <2> QED BY <2>1, PlacesNext
<1>9. Lost' = Lost /\ UndeliveredOutside'
  BY <1>0, <1>1, <1>7 DEF Lost, Delivered, UndeliveredOutside
<1>10. LimiterBounded'
  BY <1>0, <1>1 DEF LimiterBounded
<1> QED BY <1>1, <1>4, <1>5, <1>8, <1>9, <1>10, LossKept DEF IngestInv

\* A full queue: another attempt, or the drop that _queue_overflow_count
\* counts.
LEMMA EnqueueTimeoutInv ==
  ASSUME IngestInv, EnqueueTimeout
  PROVE  IngestInv'
<1>0. /\ TypeOK /\ HeldWhileHandling /\ UndeliveredOutside /\ Apart /\ LimiterBounded
      /\ put_attempt \in Nat /\ queue_overflow \in Nat /\ dropped_readings \in Nat
  BY ApartIsOnePlace DEF IngestInv, TypeOK
<1> DEFINE m == putting
<1>1. /\ m \in Msgs /\ m # NoMsg
      /\ UNCHANGED <<undelivered, last_seen, recent, queue, held, attempt, wpc, phase,
                     drained, dropped_readings, dispatched, settled>>
  BY <1>0 DEF EnqueueTimeout, TypeOK, outcomes
<1>2. HeldWhileHandling' /\ LimiterBounded'
  BY <1>0, <1>1 DEF HeldWhileHandling, Handling, LimiterBounded
<1>3. CASE put_attempt + 1 < ENQUEUE_MAX_ATTEMPTS
  <2>1. put_attempt' = put_attempt + 1 /\ UNCHANGED <<putting, queue_overflow>>
    BY <1>3 DEF EnqueueTimeout
  <2>2. TypeOK'
    BY <1>0, <1>1, <1>3, <2>1, IngestConstants DEF TypeOK
  <2> QED BY <1>1, <1>2, <2>1, <2>2, QuietStep
<1>4. CASE ~(put_attempt + 1 < ENQUEUE_MAX_ATTEMPTS)
  <2>1. putting' = NoMsg /\ put_attempt' = 0 /\ queue_overflow' = queue_overflow + 1
    BY <1>4 DEF EnqueueTimeout
  <2>2. TypeOK'
    BY <1>0, <1>1, <2>1, IngestConstants DEF TypeOK
  <2>3. /\ InQueue' = InQueue /\ Finished' = Finished
        /\ InHand = {m, held[Worker], held[Stopper]} \ {NoMsg}
        /\ InHand' = {held[Worker], held[Stopper]} \ {NoMsg}
    BY <1>0, <1>1, <2>1, HandFacts, PlacesNext DEF Finished
  <2>4. m \notin InQueue /\ m \notin Finished /\ m # held[Worker] /\ m # held[Stopper]
    BY <1>0, <1>1 DEF Apart
  <2>5. InPipeline' = InPipeline \ {m} /\ m \in InPipeline
    BY <1>1, <2>3, <2>4 DEF InPipeline
  <2>6. m \in Delivered
    BY <1>0, <1>1, <2>5 DEF UndeliveredOutside, Delivered
  <2>7. Lost' = Lost \cup {m} /\ m \notin Lost /\ UndeliveredOutside'
    BY <1>0, <1>1, <2>5, <2>6 DEF Lost, Delivered, UndeliveredOutside
  <2>8. OnePlaceOnly'
    <3>1. Apart'
      BY <1>0, <1>1, <2>1, <2>3 DEF Apart
    <3> QED BY <3>1, PlacesNext
  <2>9. dropped_readings' + queue_overflow' = dropped_readings + queue_overflow + 1
    BY <1>0, <1>1, <2>1
  <2>10. LossIsCounted'
    BY <2>7, <2>9, LossGrows
  <2> QED BY <1>2, <2>2, <2>7, <2>8, <2>10 DEF IngestInv
<1> QED BY <1>3, <1>4

-----------------------------------------------------------------------------
(* The worker and the drain                                                 *)

\* The two threads and who of them is handling.
LEMMA ThreadFacts ==
  /\ Threads = {Worker, Stopper} /\ Worker # Stopper
  /\ Handling(Worker) <=> wpc = "handle"
  /\ Handling(Stopper) <=> phase = "handle"
  /\ Handling(Worker)' <=> wpc' = "handle"
  /\ Handling(Stopper)' <=> phase' = "handle"
BY DEF Threads, Worker, Stopper, Handling

\* Control steps of the worker and of stop().
LEMMA ControlInv ==
  ASSUME IngestInv,
         WorkerCheck \/ WorkerEmpty \/ Stop \/ DrainEnds \/ StopDone
  PROVE  IngestInv'
<1>0. TypeOK /\ HeldWhileHandling /\ LimiterBounded
  BY DEF IngestInv
<1>1. /\ UNCHANGED <<undelivered, loopvars, queue, held, attempt, drained,
                     dropped_readings, queue_overflow, outcomes>>
      /\ \/ wpc # "handle" /\ wpc' \in {"check", "get", "exit"} /\ phase' = phase
         \/ phase # "handle" /\ phase' \in {"drain", "disconnect", "stopped"} /\ wpc' = wpc
  BY DEF WorkerCheck, WorkerEmpty, Stop, DrainEnds, StopDone
<1>2. UNCHANGED <<undelivered, last_seen, recent, putting, put_attempt, queue, held, attempt,
                  drained, dropped_readings, queue_overflow, dispatched, settled>>
  BY <1>1 DEF loopvars, outcomes
<1>3. TypeOK'
  BY <1>0, <1>1, <1>2 DEF TypeOK
<1>4. HeldWhileHandling'
  BY <1>0, <1>1, <1>2, ThreadFacts DEF HeldWhileHandling
<1>5. LimiterBounded'
  BY <1>0, <1>2 DEF LimiterBounded
<1> QED BY <1>2, <1>3, <1>4, <1>5, QuietStep

\* A thread that holds nothing takes the head of the queue into its hand.
LEMMA TakeInv ==
  ASSUME IngestInv, queue # <<>>, queue' = Tail(queue),
         NEW t \in Threads, held[t] = NoMsg, held' = [held EXCEPT ![t] = Head(queue)],
         TypeOK', HeldWhileHandling',
         UNCHANGED <<undelivered, loopvars, dropped_readings, queue_overflow, outcomes>>
  PROVE  IngestInv'
<1>0. /\ TypeOK /\ UndeliveredOutside /\ Apart /\ LimiterBounded
      /\ queue \in Seq(Msgs) /\ held \in [Threads -> Msgs \cup {NoMsg}]
      /\ UNCHANGED <<putting, last_seen, dispatched, settled>>
  BY ApartIsOnePlace DEF IngestInv, TypeOK, loopvars, outcomes
<1> DEFINE m == Head(queue)
<1>1. /\ m \in Msgs /\ m # NoMsg /\ m \notin Elements(queue')
      /\ Elements(queue) = Elements(queue') \cup {m} /\ IsInjective(queue')
  BY <1>0, TailFacts, IngestConstants DEF Apart
<1> HIDE DEF m
<1>2. /\ InQueue = InQueue' \cup {m} /\ m \notin InQueue' /\ Finished' = Finished
      /\ InHand = {putting, held[Worker], held[Stopper]} \ {NoMsg}
      /\ InHand' = {putting, held'[Worker], held'[Stopper]} \ {NoMsg}
      /\ m \in InQueue
  BY <1>0, <1>1, HandFacts, PlacesNext DEF Finished
<1>3. m \notin Finished /\ m # putting /\ m # held[Worker] /\ m # held[Stopper]
  BY <1>0, <1>1, <1>2 DEF Apart
<1>4. \/ /\ held[Worker] = NoMsg /\ held'[Worker] = m
         /\ held'[Stopper] = held[Stopper]
      \/ /\ held[Stopper] = NoMsg /\ held'[Stopper] = m
         /\ held'[Worker] = held[Worker]
  BY <1>0, ThreadFacts DEF m
<1>5. InHand' = InHand \cup {m}
  BY <1>1, <1>2, <1>4
<1>6. InPipeline' = InPipeline
  BY <1>2, <1>5 DEF InPipeline
<1>7. OnePlaceOnly'
  <2>1. Apart'
    BY <1>0, <1>1, <1>2, <1>3, <1>4 DEF Apart
  <2> QED BY <2>1, PlacesNext
<1>8. Lost' = Lost /\ UndeliveredOutside' /\ LimiterBounded'
  BY <1>0, <1>6 DEF Lost, Delivered, UndeliveredOutside, LimiterBounded
<1> QED BY <1>7, <1>8, LossKept DEF IngestInv

\* The worker's get().
LEMMA WorkerGetInv ==
  ASSUME IngestInv, WorkerGet
  PROVE  IngestInv'
<1>0. TypeOK /\ HeldWhileHandling
  BY DEF IngestInv
<1>1. /\ wpc = "get" /\ wpc' = "handle" /\ queue # <<>> /\ queue' = Tail(queue)
      /\ held' = [held EXCEPT ![Worker] = Head(queue)]
      /\ UNCHANGED <<undelivered, loopvars, attempt, phase, drained, dropped_readings,
                     queue_overflow, outcomes>>
  BY DEF WorkerGet
<1>2. Head(queue) \in Msgs /\ Tail(queue) \in Seq(Msgs) /\ Len(Tail(queue)) <= QUEUE_MAX
  <2>1. /\ Head(queue) \in Msgs /\ Tail(queue) \in Seq(Msgs) /\ Len(Tail(queue)) = Len(queue) - 1
        /\ Len(queue) \in Nat /\ Len(queue) <= QUEUE_MAX
    BY <1>0, <1>1, TailFacts, LenProperties DEF TypeOK
  <2> QED BY <2>1, IngestConstants
<1>3. TypeOK'
  BY <1>0, <1>1, <1>2, ThreadFacts DEF TypeOK, loopvars, outcomes
<1>4. held[Worker] = NoMsg
  BY <1>0, <1>1, ThreadFacts DEF HeldWhileHandling
<1>5. HeldWhileHandling'
  BY <1>0, <1>1, <1>2, ThreadFacts, IngestConstants DEF HeldWhileHandling, TypeOK
<1> QED BY <1>1, <1>3, <1>4, <1>5, ThreadFacts, TakeInv

\* The drain's get(): as the worker's, except that a status message is
\* thrown away.
LEMMA DrainGetInv ==
  ASSUME IngestInv, DrainGet
  PROVE  IngestInv'
<1>0. /\ TypeOK /\ HeldWhileHandling /\ UndeliveredOutside /\ Apart /\ LimiterBounded
      /\ queue \in Seq(Msgs)
  BY ApartIsOnePlace DEF IngestInv, TypeOK
<1> DEFINE m == Head(queue)
<1>1. /\ phase = "drain" /\ queue # <<>> /\ queue' = Tail(queue)
      /\ UNCHANGED <<undelivered, loopvars, attempt, wpc, drained, dropped_readings,
                     queue_overflow, dispatched>>
  BY DEF DrainGet, RestAfterGet
<1>2. /\ m \in Msgs /\ m # NoMsg /\ m \notin Elements(queue')
      /\ Elements(queue) = Elements(queue') \cup {m} /\ IsInjective(queue')
      /\ queue' \in Seq(Msgs) /\ Len(queue') <= QUEUE_MAX
  <2>1. /\ m \in Msgs /\ m \notin Elements(queue')
        /\ Elements(queue) = Elements(queue') \cup {m} /\ IsInjective(queue')
        /\ queue' \in Seq(Msgs) /\ Len(queue') = Len(queue) - 1
        /\ Len(queue) \in Nat /\ Len(queue) <= QUEUE_MAX
    BY <1>0, <1>1, TailFacts, LenProperties DEF Apart, TypeOK
  <2> QED BY <2>1, IngestConstants
<1>3. held[Stopper] = NoMsg
  BY <1>0, <1>1, ThreadFacts DEF HeldWhileHandling
<1>4. CASE m.kind # "status"
  <2>1. /\ held' = [held EXCEPT ![Stopper] = m] /\ phase' = "handle" /\ UNCHANGED settled
    BY <1>4 DEF DrainGet
  <2>2. TypeOK'
    BY <1>0, <1>1, <1>2, <2>1, ThreadFacts DEF TypeOK, loopvars
  <2>3. HeldWhileHandling'
    BY <1>0, <1>1, <1>2, <2>1, ThreadFacts DEF HeldWhileHandling, TypeOK
  <2>4. UNCHANGED outcomes
    BY <1>1, <2>1 DEF outcomes
  <2> QED BY <1>1, <1>3, <2>1, <2>2, <2>3, <2>4, ThreadFacts, TakeInv
<1>5. CASE m.kind = "status"
  <2> HIDE DEF m
  <2>1. /\ settled' = settled \cup {m} /\ phase' \in {"drain", "disconnect"} /\ UNCHANGED held
    BY <1>5 DEF DrainGet, m
  <2>2. TypeOK'
    BY <1>0, <1>1, <1>2, <2>1 DEF TypeOK, loopvars
  <2>3. HeldWhileHandling'
    BY <1>0, <1>1, <2>1, ThreadFacts DEF HeldWhileHandling
  <2>4. /\ InQueue = InQueue' \cup {m} /\ m \notin InQueue' /\ m \in InQueue
        /\ Finished' = Finished \cup {m} /\ InHand' = InHand
        /\ InHand = {putting, held[Worker], held[Stopper]} \ {NoMsg}
    BY <1>0, <1>1, <1>2, <2>1, HandFacts, PlacesNext DEF Finished, loopvars
  <2>5. InPipeline' = InPipeline
    BY <2>4 DEF InPipeline
  <2>6. OnePlaceOnly'
    <3>1. Apart'
      BY <1>0, <1>1, <1>2, <2>1, <2>4 DEF Apart, loopvars
    <3> QED BY <3>1, PlacesNext
  <2>7. Lost' = Lost /\ UndeliveredOutside' /\ LimiterBounded'
    BY <1>0, <1>1, <2>5 DEF Lost, Delivered, UndeliveredOutside, LimiterBounded, loopvars
  <2> QED BY <1>1, <2>2, <2>3, <2>6, <2>7, LossKept DEF IngestInv
<1> QED BY <1>4, <1>5

\* A thread that is done with its message: its hand is empty, every other
\* place is as it was.
LEMMA ReleaseFacts ==
  ASSUME IngestInv, NEW t \in Threads, NEW raised \in BOOLEAN,
         Handling(t), Release(t, raised),
         dispatched' \in SUBSET Msgs, settled' \in SUBSET Msgs, dropped_readings' \in Nat
  PROVE  /\ TypeOK' /\ HeldWhileHandling' /\ LimiterBounded'
         /\ UNCHANGED <<undelivered, putting, queue, queue_overflow>>
         /\ InQueue' = InQueue
         /\ held[t] \in InHand /\ InHand' = InHand \ {held[t]}
         /\ held[t] \in Msgs /\ held[t] \notin InQueue /\ held[t] \notin Finished
         /\ Finished' \subseteq Finished \cup {held[t]} => OnePlaceOnly'
<1>0. /\ TypeOK /\ HeldWhileHandling /\ UndeliveredOutside /\ Apart /\ LimiterBounded
      /\ held \in [Threads -> Msgs \cup {NoMsg}]
      /\ attempt \in [Threads -> 0..(DISPATCH_MAX_ATTEMPTS - 1)]
      /\ drained \in Nat
  BY ApartIsOnePlace DEF IngestInv, TypeOK
<1>1. /\ held' = [held EXCEPT ![t] = NoMsg]
      /\ attempt' = [attempt EXCEPT ![t] = 0]
      /\ UNCHANGED <<undelivered, last_seen, recent, putting, put_attempt, queue, queue_overflow>>
  BY DEF Release, loopvars
<1>2. \/ t = Worker /\ wpc' = "check" /\ UNCHANGED <<phase, drained>>
      \/ t = Stopper /\ phase' \in {"drain", "disconnect"} /\ wpc' = wpc /\ drained' \in Nat
  <2>1. CASE t = Worker
    BY <2>1 DEF Release, WorkerAfterHandle
  <2>2. CASE t = Stopper
    BY <1>0, <2>2, ThreadFacts DEF Release
  <2> QED BY <2>1, <2>2, ThreadFacts
<1>3. TypeOK'
  <2>1. attempt' \in [Threads -> 0..(DISPATCH_MAX_ATTEMPTS - 1)]
    BY <1>0, <1>1, IngestConstants
  <2>2. held' \in [Threads -> Msgs \cup {NoMsg}]
    BY <1>0, <1>1
  <2>3. /\ wpc' \in {"check", "get", "handle", "exit"} /\ drained' \in Nat
        /\ phase' \in {"running", "drain", "handle", "disconnect", "stopped"}
    BY <1>0, <1>2 DEF TypeOK
  <2> QED BY <1>0, <1>1, <2>1, <2>2, <2>3 DEF TypeOK
<1>4. HeldWhileHandling'
  BY <1>0, <1>1, <1>2, ThreadFacts DEF HeldWhileHandling
<1>5. LimiterBounded'
  BY <1>0, <1>1 DEF LimiterBounded
<1> DEFINE m == held[t]
<1>6. m # NoMsg /\ m \in Msgs
  BY <1>0 DEF HeldWhileHandling
<1>7. \/ t = Worker /\ held'[Worker] = NoMsg /\ held'[Stopper] = held[Stopper]
      \/ t = Stopper /\ held'[Stopper] = NoMsg /\ held'[Worker] = held[Worker]
  BY <1>0, <1>1, ThreadFacts
<1>8. /\ InQueue' = InQueue /\ InQueue = Elements(queue)
      /\ InHand = {putting, held[Worker], held[Stopper]} \ {NoMsg}
      /\ InHand' = {putting, held'[Worker], held'[Stopper]} \ {NoMsg}
  BY <1>0, <1>1, HandFacts, PlacesNext
<1>9. /\ m \notin InQueue /\ m \notin Finished
      /\ m # putting
      /\ t = Worker => m # held[Stopper]
      /\ t = Stopper => m # held[Worker]
  BY <1>0, <1>6, ThreadFacts DEF Apart
<1>10. m \in InHand /\ InHand' = InHand \ {m}
  BY <1>1, <1>6, <1>7, <1>8, <1>9
<1>11. ASSUME Finished' \subseteq Finished \cup {m} PROVE OnePlaceOnly'
  <2>1. Apart'
    BY <1>0, <1>1, <1>6, <1>7, <1>8, <1>9, <1>11 DEF Apart
  <2> QED BY <2>1, PlacesNext
<1> QED BY <1>1, <1>3, <1>4, <1>5, <1>6, <1>8, <1>9, <1>10, <1>11

\* The message leaves the thread's hand with an outcome.
LEMMA HandedOver ==
  ASSUME IngestInv, NEW t \in Threads, NEW raised \in BOOLEAN,
         Handling(t), Release(t, raised),
         dispatched' \in SUBSET Msgs, settled' \in SUBSET Msgs,
         Finished' = Finished \cup {held[t]}, UNCHANGED dropped_readings
  PROVE  IngestInv'
<1>0. dropped_readings' \in Nat
  BY DEF IngestInv, TypeOK
<1> DEFINE m == held[t]
<1>1. /\ TypeOK' /\ HeldWhileHandling' /\ LimiterBounded' /\ OnePlaceOnly'
      /\ UNCHANGED <<undelivered, putting, queue, queue_overflow>>
      /\ InQueue' = InQueue /\ m \in InHand /\ InHand' = InHand \ {m}
  BY <1>0, ReleaseFacts
<1> HIDE DEF m
<1>2. Finished' = Finished \cup {m}
  BY DEF m
<1>3. InPipeline' = InPipeline
  BY <1>1, <1>2 DEF InPipeline
<1>4. Lost' = Lost /\ UndeliveredOutside'
  BY <1>1, <1>3 DEF IngestInv, Lost, Delivered, UndeliveredOutside
<1> QED BY <1>1, <1>4, LossKept DEF IngestInv

\* _handle_alert, _handle_status, a rejected reading, a raised exception and
\* a successful delay(): the message has its outcome.
LEMMA HandleInv ==
  ASSUME IngestInv, NEW t \in Threads, Handle(t) \/ HandleRaises(t) \/ Dispatch(t)
  PROVE  IngestInv'
<1>1. dispatched \in SUBSET Msgs /\ settled \in SUBSET Msgs
  BY DEF IngestInv, TypeOK
<1>2. Handling(t) => held[t] \in Msgs
  BY DEF IngestInv, TypeOK, HeldWhileHandling
<1>3. CASE Handle(t)
  <2>1. /\ Handling(t) /\ Release(t, FALSE) /\ settled' = settled \cup {held[t]}
        /\ UNCHANGED <<dropped_readings, dispatched>>
    BY <1>3 DEF Handle
  <2>2. Finished' = Finished \cup {held[t]}
    BY <2>1 DEF Finished
  <2> QED BY <1>1, <1>2, <2>1, <2>2, HandedOver
<1>4. CASE HandleRaises(t)
  <2>1. /\ Handling(t) /\ Release(t, TRUE) /\ settled' = settled \cup {held[t]}
        /\ UNCHANGED <<dropped_readings, dispatched>>
    BY <1>4 DEF HandleRaises
  <2>2. Finished' = Finished \cup {held[t]}
    BY <2>1 DEF Finished
  <2> QED BY <1>1, <1>2, <2>1, <2>2, HandedOver
<1>5. CASE Dispatch(t)
  <2>1. /\ Handling(t) /\ Release(t, FALSE) /\ dispatched' = dispatched \cup {held[t]}
        /\ UNCHANGED <<dropped_readings, settled>>
    BY <1>5 DEF Dispatch
  <2>2. Finished' = Finished \cup {held[t]}
    BY <2>1 DEF Finished
  <2> QED BY <1>1, <1>2, <2>1, <2>2, HandedOver
<1> QED BY <1>3, <1>4, <1>5

\* delay() raises: another attempt, or the drop that
\* _dropped_readings_count counts.
LEMMA DispatchFailsInv ==
  ASSUME IngestInv, NEW t \in Threads, DispatchFails(t)
  PROVE  IngestInv'
<1>0. /\ TypeOK /\ HeldWhileHandling /\ UndeliveredOutside /\ LimiterBounded
      /\ dropped_readings \in Nat /\ queue_overflow \in Nat
      /\ attempt \in [Threads -> 0..(DISPATCH_MAX_ATTEMPTS - 1)]
  BY DEF IngestInv, TypeOK
<1>1. Handling(t) /\ UNCHANGED <<dispatched, settled>>
  BY DEF DispatchFails
<1>2. CASE attempt[t] + 1 < DISPATCH_MAX_ATTEMPTS
  <2>1. /\ attempt' = [attempt EXCEPT ![t] = @ + 1]
        /\ UNCHANGED <<undelivered, last_seen, recent, putting, put_attempt, queue, held, wpc,
                       phase, drained, dropped_readings, queue_overflow>>
    BY <1>2 DEF DispatchFails, loopvars
  <2>2. attempt' \in [Threads -> 0..(DISPATCH_MAX_ATTEMPTS - 1)]
    BY <1>0, <1>2, <2>1, IngestConstants
  <2>3. TypeOK'
    BY <1>0, <1>1, <2>1, <2>2 DEF TypeOK
  <2>4. HeldWhileHandling' /\ LimiterBounded'
    BY <1>0, <2>1 DEF HeldWhileHandling, Handling, LimiterBounded
  <2> QED BY <1>1, <2>1, <2>3, <2>4, QuietStep
<1>3. CASE ~(attempt[t] + 1 < DISPATCH_MAX_ATTEMPTS)
  <2> DEFINE m == held[t]
  <2>1. Release(t, FALSE) /\ dropped_readings' = dropped_readings + 1
    BY <1>3 DEF DispatchFails
  <2>2. dispatched' \in SUBSET Msgs /\ settled' \in SUBSET Msgs /\ dropped_readings' \in Nat
    BY <1>0, <1>1, <2>1 DEF TypeOK
  <2>3. Finished' = Finished
    BY <1>1 DEF Finished
  <2>4. /\ TypeOK' /\ HeldWhileHandling' /\ LimiterBounded' /\ OnePlaceOnly'
        /\ UNCHANGED <<undelivered, putting, queue, queue_overflow>>
        /\ InQueue' = InQueue /\ m \in InHand /\ InHand' = InHand \ {m}
        /\ m \in Msgs /\ m \notin InQueue /\ m \notin Finished
    BY <1>1, <2>1, <2>2, <2>3, ReleaseFacts
  <2> HIDE DEF m
  <2>5. InPipeline' = InPipeline \ {m} /\ m \in InPipeline
    BY <2>3, <2>4 DEF InPipeline
  <2>6. m \in Delivered
    BY <1>0, <2>4, <2>5 DEF UndeliveredOutside, Delivered
  <2>7. Lost' = Lost \cup {m} /\ m \notin Lost /\ UndeliveredOutside'
    BY <1>0, <2>4, <2>5, <2>6 DEF Lost, Delivered, UndeliveredOutside
  <2>8. dropped_readings' + queue_overflow' = dropped_readings + queue_overflow + 1
    BY <1>0, <2>1, <2>4
  <2>9. LossIsCounted'
    BY <2>7, <2>8, LossGrows
  <2> QED BY <2>4, <2>7, <2>9 DEF IngestInv
<1> QED BY <1>2, <1>3

\* The limiter forgets a node it saw long enough ago.
LEMMA IntervalInv ==
  ASSUME IngestInv, IntervalElapses
  PROVE  IngestInv'
<1>0. TypeOK /\ HeldWhileHandling /\ LimiterBounded /\ Len(last_seen) \in Nat
  BY LenProperties DEF IngestInv, TypeOK
<1>1. /\ recent > 0 /\ recent' = recent - 1
      /\ UNCHANGED <<undelivered, last_seen, putting, put_attempt, queue, held, attempt, wpc,
                     phase, drained, dropped_readings, queue_overflow, dispatched, settled>>
  BY DEF IntervalElapses, outcomes
<1>2. recent' \in 0..Len(last_seen')
  BY <1>0, <1>1 DEF TypeOK
<1>3. TypeOK'
  BY <1>0, <1>1, <1>2 DEF TypeOK
<1>4. HeldWhileHandling' /\ LimiterBounded'
  BY <1>0, <1>1 DEF HeldWhileHandling, Handling, LimiterBounded
<1> QED BY <1>1, <1>3, <1>4, QuietStep

-----------------------------------------------------------------------------
(* The pipeline                                                             *)

\* Nothing has been delivered when start() runs.
LEMMA InitInv == Init => IngestInv
<1> SUFFICES ASSUME Init PROVE IngestInv
  OBVIOUS
<1>1. <<>> \in Seq(Nodes) /\ <<>> \in Seq(Msgs) /\ Len(<<>>) = 0 /\ DOMAIN <<>> = {}
  BY EmptySeq
<1>2. TypeOK
  BY <1>1, IngestConstants DEF Init, TypeOK
<1>3. HeldWhileHandling
  BY ThreadFacts DEF Init, HeldWhileHandling
<1>4. InQueue = {} /\ InHand = {} /\ Finished = {} /\ Delivered = {}
  BY <1>1 DEF Init, InQueue, InHand, Finished, Delivered
<1>5. UndeliveredOutside
  BY <1>4 DEF UndeliveredOutside, InPipeline
<1>6. IsInjective(<<>>)
  BY <1>1 DEF IsInjective
<1>7. OnePlaceOnly
  BY <1>4, <1>6, ThreadFacts DEF Init, OnePlaceOnly
<1>8. LossIsCounted
  BY <1>4, FS_EmptySet DEF Init, LossIsCounted
<1>9. LimiterBounded
  BY <1>1, <1>6, IngestConstants DEF Init, LimiterBounded
<1> QED BY <1>2, <1>3, <1>5, <1>7, <1>8, <1>9 DEF IngestInv

\* Every step of the three threads keeps the invariant.
LEMMA NextInv == IngestInv /\ [Next]_vars => IngestInv'
<1> SUFFICES ASSUME IngestInv, [Next]_vars PROVE IngestInv'
  OBVIOUS
<1>1. CASE \E m \in Msgs : OnMessage(m)
  BY <1>1, OnMessageInv
<1>2. CASE LoopStep
  BY <1>2, EnqueuePutInv, EnqueueTimeoutInv DEF LoopStep
<1>3. CASE IntervalElapses
  BY <1>3, IntervalInv
<1>4. CASE \E t \in Threads : HandleStep(t)
  BY <1>4, HandleInv, DispatchFailsInv DEF HandleStep
<1>5. CASE WorkerCheck \/ WorkerEmpty \/ Stop \/ DrainEnds \/ StopDone
  BY <1>5, ControlInv
<1>6. CASE WorkerGet \/ DrainGet
  BY <1>6, WorkerGetInv, DrainGetInv
<1>7. CASE UNCHANGED vars
  <2>1. TypeOK' /\ HeldWhileHandling' /\ LimiterBounded'
    BY <1>7 DEF vars, IngestInv, TypeOK, HeldWhileHandling, Handling, LimiterBounded
  <2> QED BY <1>7, <2>1, QuietStep DEF vars
<1>8. Worker \in Threads /\ Stopper \in Threads
  BY ThreadFacts
<1> QED BY <1>1, <1>2, <1>3, <1>4, <1>5, <1>6, <1>7, <1>8
        DEF Next, WorkerStep, StopStep, Terminated

\* The invariant of the ingestion pipeline.
THEOREM IngestInvariant == Spec => []IngestInv
<1> QED BY InitInv, NextInv, PTL DEF Spec

\* The pipeline's variables keep their types: the queue never holds more than
\* _QUEUE_MAX messages and no retry counter passes its limit.
THEOREM IngestTypeCorrect == Spec => []TypeOK
<1>1. IngestInv => TypeOK
  BY DEF IngestInv
<1> QED BY <1>1, IngestInvariant, PTL

\* The worker and the drain never handle the same message, none is handled while
\* it is still queued or already finished, and the two counters of /admin/health
\* add up to exactly the messages that vanished, whatever the number of messages
\* and the limits.
THEOREM MessagesAreConserved == Spec => []MessagesConserved
<1>1. IngestInv => MessagesConserved
  BY DEF IngestInv, MessagesConserved
<1> QED BY <1>1, IngestInvariant, PTL

\* The limiter's table never outgrows its cap (M102).
THEOREM LimiterStaysBounded == Spec => []LimiterBounded
<1>1. IngestInv => LimiterBounded
  BY DEF IngestInv
<1> QED BY <1>1, IngestInvariant, PTL
=============================================================================
