--------------------------- MODULE ReadingsProofs ---------------------------
(***************************************************************************)
(* Proofs about Readings, for any number of payloads, worker processes,     *)
(* retries and crashes.  What keeps a reading is its message in the queue   *)
(* or a task that has still to store it; a task gives that up only once the *)
(* reading is stored, published again or reported.  That a duplicate key is *)
(* the reading's own row rests on its time: a device time is the same at    *)
(* every delivery, and a server time is nobody else's.                      *)
(* Then, about AirQuality, for any values a sensor reports: the derived     *)
(* columns of a reading.  The bands of the index meet without a step down,  *)
(* the terms of a fuzzy variable add up to one, and the score is a weighted *)
(* average of outputs that rise with the level of pollution.                *)
(***************************************************************************)
EXTENDS Readings, AirQuality, FiniteSetTheorems, WellFoundedInduction, TLAPS

\* Places of a task that has still to store its reading, or to retry.
Unsettled == {"load", "insert", "retry"}

\* A message or an unsettled task keeps the reading.
Carried(p) == \/ \E k \in 0..MaxRetries : queue[p][k] > 0
              \/ \E w \in Workers : job[w] = p /\ pc[w] \in Unsettled

\* Only dispatched readings have messages, and none of them is lost.
PayloadOK(p) ==
  /\ (\E k \in 0..MaxRetries : queue[p][k] > 0) => p \in dispatched
  /\ p \in dispatched => Carried(p) \/ Stored(p) \/ p \in reported

\* The time of a reading that is about to be inserted.
TimeOK(w) ==
  IF job[w] \in Timed THEN time[w] = DeviceTime[job[w]]
  ELSE /\ time[w] \notin Times
       /\ \A q \in Timed : DeviceTime[q] # time[w]
       /\ \A v \in Workers \ {w} : pc[v] = "insert" => time[v] # time[w]

TaskOK(w) ==
  /\ pc[w] = "idle" <=> job[w] = None
  /\ job[w] # None => job[w] \in dispatched
  /\ pc[w] = "insert" => TimeOK(w)

\* A timed reading is stored under its device time.
RowsOK ==
  /\ IsFiniteSet(rows)
  /\ \A x \in rows : x.payload \in Timed => x.time = DeviceTime[x.payload]

ReadingsInv ==
  /\ TypeOK
  /\ RowsOK
  /\ \A w \in Workers : TaskOK(w)
  /\ \A p \in Payloads : PayloadOK(p)

-----------------------------------------------------------------------------
(* Finite sets of times                                                     *)

\* A finite set of times has a latest one: take an element with the fewest
\* above it.
LEMMA FiniteMaximum ==
  ASSUME NEW S, IsFiniteSet(S), S \subseteq Nat, S # {}
  PROVE  Max(S) \in S /\ Max(S) \in Nat /\ \A m \in S : m < 1 + Max(S)
<1> DEFINE Above(n) == {m \in S : m > n}
           R == StrictSubsetOrdering(S)
           T == {Above(n) : n \in S}
<1>1. IsWellFoundedOn(R, SUBSET S)
  BY FS_StrictSubsetOrderingWellFounded, FS_FiniteSubsetsOfFinite
<1>2. ASSUME NEW A, NEW B, A \subseteq B, B \subseteq S, NEW m \in B, m \notin A
      PROVE  <<A, B>> \in R
  BY <1>2 DEF StrictSubsetOrdering
<1> HIDE DEF R
<1>3. PICK x \in T : \A y \in T : <<y, x>> \notin R
  <2>1. T \subseteq SUBSET S /\ T # {}
    OBVIOUS
  <2> QED BY <1>1, <2>1, WFMin
<1>4. PICK n \in S : x = Above(n)
  BY <1>3
<1>5. ASSUME NEW m \in S, m > n PROVE FALSE
  <2>1. m \in Nat /\ n \in Nat /\ \A k \in S : k \in Nat
    OBVIOUS
  <2>2. (\A k \in S : k > m => k > n) /\ ~(m > m)
    BY <1>5, <2>1
  <2>3. /\ Above(m) \subseteq Above(n) /\ Above(n) \subseteq S
        /\ m \in Above(n) /\ m \notin Above(m)
    BY <1>5, <2>2
  <2>4. <<Above(m), Above(n)>> \in R
    BY <2>3, <1>2
  <2> QED BY <1>3, <1>4, <2>4
<1>6. \A m \in S : n >= m
  BY <1>5
<1>7. Max(S) \in S /\ \A m \in S : Max(S) >= m
  <2> HIDE DEF T, Above
  <2> QED BY <1>6 DEF Max
<1> DEFINE max == Max(S)
<1> HIDE DEF max
<1>8. max \in S /\ \A m \in S : max >= m
  BY <1>7 DEF max
<1>9. max \in Nat /\ \A m \in S : m < 1 + max
  BY <1>8
<1> QED BY <1>7, <1>9 DEF max

\* The values of a function on a finite set.
LEMMA FiniteImage ==
  ASSUME NEW S, NEW T, IsFiniteSet(S), NEW f \in [S -> T]
  PROVE  IsFiniteSet({f[x] : x \in S})
<1> DEFINE V == {f[x] : x \in S}
<1>1. f \in Surjection(S, V)
  BY DEF Surjection
<1> HIDE DEF V
<1>2. IsFiniteSet(V)
  BY <1>1, FS_Surjection
<1> QED BY <1>2 DEF V

\* The newest stored time, and a time of the server: later than every time
\* that is stored, being inserted, or a device's.
LEMMA TimeFacts ==
  ASSUME ReadingsInv
  PROVE  /\ IsFiniteSet(Times) /\ Times \subseteq Nat
         /\ Newest \in Nat
         /\ \A p \in Payloads : \A t \in TimesOf(p) :
              /\ t \in Nat
              /\ p \in Timed => t = DeviceTime[p]
              /\ p \notin Timed => /\ \A s \in Times : s < t
                                   /\ \A w \in Workers : time[w] < t
                                   /\ \A q \in Timed : DeviceTime[q] < t
<1>1. /\ rows \subseteq [payload : Payloads, time : Nat] /\ IsFiniteSet(rows)
      /\ time \in [Workers -> Nat]
  BY DEF ReadingsInv, TypeOK, RowsOK
<1>2. IsFiniteSet(Times) /\ Times \subseteq Nat
  <2> DEFINE f == [x \in rows |-> x.time]
  <2>1. f \in [rows -> Nat]
    BY <1>1
  <2>2. \A x \in rows : f[x] = x.time
    OBVIOUS
  <2> HIDE DEF f
  <2>3. IsFiniteSet({f[x] : x \in rows})
    BY <1>1, <2>1, FiniteImage
  <2>4. {f[x] : x \in rows} = Times
    BY <2>2 DEF Times
  <2> QED BY <1>1, <2>3, <2>4 DEF Times
<1>3. IsFiniteSet({0}) /\ IsFiniteSet(Times \cup {0})
  BY <1>2, FS_Singleton, FS_Union
<1>4. Newest \in Nat
  <2>1. Times \cup {0} \subseteq Nat /\ Times \cup {0} # {}
    BY <1>2
  <2>2. Max(Times \cup {0}) \in Times \cup {0}
    BY <1>3, <2>1, FiniteMaximum
  <2> QED BY <2>1, <2>2 DEF Newest
<1> DEFINE building == {time[w] : w \in Workers}
           device == {DeviceTime[q] : q \in Timed}
           S == Times \cup building \cup device \cup {0}
<1>5. IsFiniteSet(S) /\ S \subseteq Nat /\ S # {}
  <2>1. IsFiniteSet(building) /\ building \subseteq Nat
    <3>1. IsFiniteSet(Workers)
      BY ReadingsConstants
    <3>2. IsFiniteSet({time[w] : w \in Workers})
      BY <1>1, <3>1, FiniteImage
    <3> QED BY <1>1, <3>2
  <2>2. IsFiniteSet(device) /\ device \subseteq Nat
    <3>1. DeviceTime \in [Timed -> Nat \ {0}]
      BY ReadingsConstants
    <3>2. IsFiniteSet(Timed)
      BY ReadingsConstants, FS_Subset
    <3>3. IsFiniteSet({DeviceTime[q] : q \in Timed})
      BY <3>1, <3>2, FiniteImage
    <3> QED BY <3>1, <3>3
  <2> HIDE DEF building, device
  <2>3. IsFiniteSet(Times \cup building) /\ IsFiniteSet(Times \cup building \cup device)
    BY <1>2, <2>1, <2>2, FS_Union
  <2>4. IsFiniteSet(S)
    BY <1>3, <2>3, FS_Union
  <2> QED BY <1>2, <2>1, <2>2, <2>4
<1>6. Max(S) \in Nat /\ \A m \in S : m < 1 + Max(S)
  BY <1>5, FiniteMaximum
<1>7. ASSUME NEW p \in Payloads, NEW t \in TimesOf(p)
      PROVE  /\ t \in Nat
             /\ p \in Timed => t = DeviceTime[p]
             /\ p \notin Timed => /\ \A s \in Times : s < t
                                  /\ \A w \in Workers : time[w] < t
                                  /\ \A q \in Timed : DeviceTime[q] < t
  <2>1. CASE p \in Timed
    <3>1. TimesOf(p) = {DeviceTime[p]} /\ DeviceTime[p] \in Nat
      BY <2>1, ReadingsConstants DEF TimesOf
    <3> QED BY <2>1, <3>1
  <2>2. CASE p \notin Timed
    <3>1. t = 1 + Max(S)
      BY <2>2 DEF TimesOf
    <3>2. /\ \A s \in Times : s \in S
          /\ \A w \in Workers : time[w] \in S
          /\ \A q \in Timed : DeviceTime[q] \in S
      OBVIOUS
    <3> HIDE DEF S
    <3> QED BY <1>6, <2>2, <3>1, <3>2
  <2> QED BY <2>1, <2>2
<1> QED BY <1>2, <1>4, <1>7

-----------------------------------------------------------------------------
(* One message, one row, one task                                           *)

\* The part of the state that keeps no reading.
RestOK ==
  /\ node \in {"absent", "active", "inactive"}
  /\ failures \in Nat
  /\ latest \in Nat \cup {None}
  /\ seen \in [Readers -> Nat \cup {None}]
  /\ owed \in [Admins -> BOOLEAN]
  /\ crashes \in 0..MaxCrashes

\* Publishing a message of p.
LEMMA PutFacts ==
  ASSUME queue \in [Payloads -> [0..MaxRetries -> Nat]],
         NEW p \in Payloads, NEW k \in 0..MaxRetries, Put(p, k)
  PROVE  /\ queue' \in [Payloads -> [0..MaxRetries -> Nat]]
         /\ queue'[p][k] > 0
         /\ \A q \in Payloads, j \in 0..MaxRetries :
              /\ queue[q][j] > 0 => queue'[q][j] > 0
              /\ queue'[q][j] > 0 => queue[q][j] > 0 \/ q = p
<1> DEFINE n == queue[p][k] + 1
<1>1. n \in Nat /\ n > 0 /\ queue[p] \in [0..MaxRetries -> Nat]
  <2>1. queue[p] \in [0..MaxRetries -> Nat]
    OBVIOUS
  <2>2. queue[p][k] \in Nat
    BY <2>1
  <2> QED BY <2>1, <2>2
<1>2. queue' = [queue EXCEPT ![p] = [queue[p] EXCEPT ![k] = n]]
  BY DEF Put
<1> HIDE DEF n
<1>3. queue' \in [Payloads -> [0..MaxRetries -> Nat]]
  BY <1>1, <1>2
<1>4. \A q \in Payloads, j \in 0..MaxRetries :
        queue'[q][j] = IF q = p /\ j = k THEN n ELSE queue[q][j]
  BY <1>1, <1>2
<1> QED BY <1>1, <1>3, <1>4

\* The row of a task that may insert it.
LEMMA RowFacts ==
  ASSUME ReadingsInv, NEW w \in Workers, pc[w] = "insert", time[w] \notin Times,
         rows' = rows \cup {Row(w)}
  PROVE  /\ rows' \subseteq [payload : Payloads, time : Nat]
         /\ \A x, y \in rows' : x.time = y.time => x = y
         /\ RowsOK' /\ Times' = Times \cup {time[w]}
         /\ \A p : p = job[w] => Stored(p)'
<1>1. /\ rows \subseteq [payload : Payloads, time : Nat] /\ IsFiniteSet(rows)
      /\ \A x, y \in rows : x.time = y.time => x = y
      /\ \A x \in rows : x.payload \in Timed => x.time = DeviceTime[x.payload]
      /\ TaskOK(w) /\ job[w] \in Payloads \cup {None} /\ time[w] \in Nat
  BY DEF ReadingsInv, TypeOK, RowsOK
<1>2. job[w] \in Payloads
  BY <1>1 DEF TaskOK
<1> DEFINE new == Row(w)
<1>3. new \in [payload : Payloads, time : Nat] /\ new.payload = job[w] /\ new.time = time[w]
  BY <1>1, <1>2 DEF Row
<1>4. job[w] \in Timed => time[w] = DeviceTime[job[w]]
  BY <1>1 DEF TaskOK, TimeOK
<1>5. rows' = rows \cup {new}
  OBVIOUS
<1> HIDE DEF new
<1>6. IsFiniteSet(rows')
  BY <1>1, <1>5, FS_AddElement
<1>7. \A x \in rows : x.time # time[w]
  BY DEF Times
<1>8. \A x, y \in rows' : x.time = y.time => x = y
  BY <1>1, <1>3, <1>5, <1>7
<1>9. RowsOK'
  BY <1>1, <1>3, <1>4, <1>5, <1>6 DEF RowsOK
<1>10. Times' = Times \cup {time[w]}
  BY <1>3, <1>5 DEF Times
<1>11. \A p : p = job[w] => Stored(p)'
  BY <1>3, <1>5 DEF Stored
<1> QED BY <1>1, <1>3, <1>5, <1>8, <1>9, <1>10, <1>11

\* What is stored stays stored.
LEMMA StoredGrows ==
  ASSUME rows \subseteq rows', NEW p, Stored(p)
  PROVE  Stored(p)'
BY DEF Stored, Times

\* The invariant from its parts; all but the messages and tasks as they were.
LEMMA QuietStep ==
  ASSUME ReadingsInv, RestOK',
         UNCHANGED <<dispatched, queue, reported, rows, pc, job, tries, time>>
  PROVE  ReadingsInv'
<1>1. TypeOK'
  BY DEF ReadingsInv, TypeOK, RestOK
<1>2. RowsOK' /\ Times' = Times
  BY DEF ReadingsInv, RowsOK, Times
<1>3. \A w \in Workers : TaskOK(w)'
  BY <1>2 DEF ReadingsInv, TaskOK, TimeOK
<1>4. \A p \in Payloads : PayloadOK(p)'
  BY <1>2 DEF ReadingsInv, PayloadOK, Carried, Stored
<1> QED BY <1>1, <1>2, <1>3, <1>4 DEF ReadingsInv

\* A task passes on: it may store its reading, publish a message of it and
\* report it, and it leaves no unsettled place without one of these.
Advance(w, x) ==
  /\ pc[w] # "idle"
  /\ x \in {"cache", "retry", "record", "ack", "idle"}
  /\ pc' = [pc EXCEPT ![w] = x]
  /\ IF x = "idle"
     THEN /\ job' = [job EXCEPT ![w] = None]
          /\ tries' = [tries EXCEPT ![w] = 0]
          /\ time' = [time EXCEPT ![w] = 0]
     ELSE UNCHANGED <<job, tries, time>>
  /\ \/ rows' = rows
     \/ pc[w] = "insert" /\ time[w] \notin Times /\ rows' = rows \cup {Row(w)}
  /\ \/ queue' = queue
     \/ \E k \in 0..MaxRetries : Put(job[w], k)
  /\ reported' = reported \/ reported' = reported \cup {job[w]}
  /\ dispatched' = dispatched
  /\ pc[w] \in Unsettled /\ x # "retry" =>
       \/ \E k \in 0..MaxRetries : Put(job[w], k)
       \/ job[w] \in reported'
       \/ \E p \in Payloads : p = job[w] /\ Stored(p)'

\* Such a step loses no reading and confuses no times.
LEMMA AdvanceInv ==
  ASSUME ReadingsInv, RestOK', NEW w \in Workers, NEW x, Advance(w, x)
  PROVE  ReadingsInv'
<1>0. /\ TypeOK /\ RowsOK
      /\ \A v \in Workers : TaskOK(v)
      /\ \A q \in Payloads : PayloadOK(q)
      /\ queue \in [Payloads -> [0..MaxRetries -> Nat]]
      /\ pc \in [Workers -> Places] /\ job \in [Workers -> Payloads \cup {None}]
      /\ tries \in [Workers -> 0..MaxRetries] /\ time \in [Workers -> Nat]
      /\ reported \subseteq dispatched /\ dispatched \subseteq Payloads
      /\ 0 \in 0..MaxRetries
  BY ReadingsConstants DEF ReadingsInv, TypeOK
<1>1. PICK p \in Payloads : p = job[w] /\ p \in dispatched /\ p # None
  BY <1>0 DEF Advance, TaskOK
<1>2. /\ queue' \in [Payloads -> [0..MaxRetries -> Nat]]
      /\ \A q \in Payloads, j \in 0..MaxRetries :
           /\ queue[q][j] > 0 => queue'[q][j] > 0
           /\ queue'[q][j] > 0 => queue[q][j] > 0 \/ q = p
      /\ (\E k \in 0..MaxRetries : Put(p, k)) => \E k \in 0..MaxRetries : queue'[p][k] > 0
  <2>1. CASE queue' = queue /\ ~(\E k \in 0..MaxRetries : Put(p, k))
    BY <1>0, <2>1
  <2>2. CASE \E k \in 0..MaxRetries : Put(p, k)
    BY <1>0, <1>1, <2>2, PutFacts
  <2> QED BY <1>1, <2>1, <2>2 DEF Advance
<1>3. /\ rows' \subseteq [payload : Payloads, time : Nat]
      /\ \A y, z \in rows' : y.time = z.time => y = z
      /\ RowsOK' /\ rows \subseteq rows'
      /\ \/ Times' = Times
         \/ pc[w] = "insert" /\ Times' = Times \cup {time[w]}
  <2>1. CASE rows' = rows
    BY <1>0, <2>1 DEF TypeOK, RowsOK, Times
  <2>2. CASE pc[w] = "insert" /\ time[w] \notin Times /\ rows' = rows \cup {Row(w)}
    BY <2>2, RowFacts
  <2> QED BY <2>1, <2>2 DEF Advance
<1>4. /\ reported \subseteq reported' /\ reported' \subseteq dispatched'
      /\ dispatched' = dispatched
  BY <1>0, <1>1 DEF Advance
<1>5. /\ pc' \in [Workers -> Places] /\ job' \in [Workers -> Payloads \cup {None}]
      /\ tries' \in [Workers -> 0..MaxRetries] /\ time' \in [Workers -> Nat]
  <2>1. pc' \in [Workers -> Places]
    BY <1>0 DEF Advance, Places
  <2>2. CASE x = "idle"
    <3>1. /\ job' = [job EXCEPT ![w] = None] /\ tries' = [tries EXCEPT ![w] = 0]
          /\ time' = [time EXCEPT ![w] = 0]
      BY <2>2 DEF Advance
    <3> QED BY <1>0, <2>1, <3>1
  <2>3. CASE x # "idle"
    BY <1>0, <2>1, <2>3 DEF Advance
  <2> QED BY <2>2, <2>3
<1>6. /\ x # "insert" /\ pc'[w] = x /\ (x = "idle" <=> job'[w] = None)
      /\ job'[w] # None => job'[w] = p
      /\ \A v \in Workers : v # w => /\ pc'[v] = pc[v] /\ job'[v] = job[v] /\ time'[v] = time[v]
  BY <1>0, <1>1 DEF Advance
<1>7. ASSUME NEW v \in Workers PROVE TaskOK(v)'
  <2>1. CASE v = w
    BY <1>1, <1>4, <1>6, <2>1 DEF TaskOK
  <2>2. CASE v # w
    <3>1. /\ pc'[v] = pc[v] /\ job'[v] = job[v] /\ time'[v] = time[v]
          /\ TaskOK(v) /\ TaskOK(w)
      BY <1>0, <1>6, <2>2
    <3>2. ASSUME pc'[v] = "insert" PROVE TimeOK(v)'
      <4>1. TimeOK(v)
        BY <3>1, <3>2 DEF TaskOK
      <4>2. CASE job[v] \in Timed
        BY <3>1, <4>1, <4>2 DEF TimeOK
      <4>3. CASE job[v] \notin Timed
        <5>1. /\ time[v] \notin Times
              /\ \A q \in Timed : DeviceTime[q] # time[v]
              /\ \A u \in Workers \ {v} : pc[u] = "insert" => time[u] # time[v]
          BY <4>1, <4>3 DEF TimeOK
        <5>2. time'[v] \notin Times'
          BY <1>3, <2>2, <3>1, <5>1
        <5>3. \A u \in Workers \ {v} : pc'[u] = "insert" => time'[u] # time'[v]
          <6> SUFFICES ASSUME NEW u \in Workers \ {v}, pc'[u] = "insert"
                       PROVE  time'[u] # time'[v]
            OBVIOUS
          <6>1. u # w
            BY <1>6
          <6> QED BY <1>6, <3>1, <5>1, <6>1
        <5>4. job'[v] \notin Timed /\ \A q \in Timed : DeviceTime[q] # time'[v]
          BY <3>1, <4>3, <5>1
        <5> QED BY <5>2, <5>3, <5>4 DEF TimeOK
      <4> QED BY <4>2, <4>3
    <3> QED BY <1>4, <3>1, <3>2 DEF TaskOK
  <2> QED BY <2>1, <2>2
<1>8. ASSUME NEW q \in Payloads PROVE PayloadOK(q)'
  <2>1. (\E k \in 0..MaxRetries : queue'[q][k] > 0) => q \in dispatched'
    BY <1>0, <1>1, <1>2, <1>4 DEF PayloadOK
  <2>2. ASSUME q \in dispatched PROVE Carried(q)' \/ Stored(q)' \/ q \in reported'
    <3>1. CASE Stored(q) \/ q \in reported
      BY <1>3, <1>4, <3>1, StoredGrows
    <3>2. CASE \E k \in 0..MaxRetries : queue[q][k] > 0
      BY <1>2, <3>2 DEF Carried
    <3>3. CASE \E v \in Workers : v # w /\ job[v] = q /\ pc[v] \in Unsettled
      BY <1>6, <3>3 DEF Carried
    <3>4. CASE q = p /\ pc[w] \in Unsettled
      <4>1. CASE x = "retry"
        <5>1. job'[w] = q /\ pc'[w] \in Unsettled
          BY <1>6, <3>4, <4>1 DEF Unsettled
        <5> QED BY <5>1 DEF Carried
      <4>2. CASE x # "retry"
        <5>1. \/ \E k \in 0..MaxRetries : Put(p, k)
              \/ p \in reported'
              \/ Stored(p)'
          BY <1>1, <3>4, <4>2 DEF Advance
        <5> QED BY <1>2, <3>4, <5>1 DEF Carried
      <4> QED BY <4>1, <4>2
    <3>5. p = job[w]
      BY <1>1
    <3>6. Carried(q) \/ Stored(q) \/ q \in reported
      BY <1>0, <2>2 DEF PayloadOK
    <3> QED BY <3>1, <3>2, <3>3, <3>4, <3>5, <3>6 DEF Carried
  <2> QED BY <1>4, <2>1, <2>2 DEF PayloadOK
<1>9. TypeOK'
  BY <1>0, <1>2, <1>3, <1>4, <1>5 DEF TypeOK, RestOK
<1> QED BY <1>3, <1>7, <1>8, <1>9 DEF ReadingsInv

-----------------------------------------------------------------------------
(* process_reading                                                          *)

\* A worker takes a message: the task keeps what the message kept.
LEMMA TakeInv ==
  ASSUME ReadingsInv, NEW w \in Workers, NEW p \in Payloads, NEW k \in 0..MaxRetries,
         Take(w, p, k)
  PROVE  ReadingsInv'
<1>0. /\ TypeOK /\ RowsOK
      /\ \A v \in Workers : TaskOK(v)
      /\ \A q \in Payloads : PayloadOK(q)
      /\ queue \in [Payloads -> [0..MaxRetries -> Nat]]
      /\ pc \in [Workers -> Places] /\ job \in [Workers -> Payloads \cup {None}]
      /\ tries \in [Workers -> 0..MaxRetries]
      /\ None \notin Payloads
  BY ReadingsConstants DEF ReadingsInv, TypeOK
<1>1. /\ pc[w] = "idle" /\ queue[p][k] > 0
      /\ queue' = [queue EXCEPT ![p][k] = @ - 1]
      /\ pc' = [pc EXCEPT ![w] = "load"]
      /\ job' = [job EXCEPT ![w] = p]
      /\ tries' = [tries EXCEPT ![w] = k]
      /\ UNCHANGED <<dispatched, reported, rows, node, failures, latest, time, seen, owed, crashes>>
  BY DEF Take, Goto, api
<1>2. /\ queue' \in [Payloads -> [0..MaxRetries -> Nat]]
      /\ \A q \in Payloads, j \in 0..MaxRetries :
           /\ queue'[q][j] > 0 => queue[q][j] > 0
           /\ queue[q][j] > 0 /\ q # p => queue'[q][j] > 0
  <2> DEFINE n == queue[p][k] - 1
  <2>1. queue[p] \in [0..MaxRetries -> Nat]
    BY <1>0
  <2>2. queue[p][k] \in Nat
    BY <2>1
  <2>3. n \in Nat
    BY <1>1, <2>2
  <2>4. queue' = [queue EXCEPT ![p] = [queue[p] EXCEPT ![k] = n]]
    BY <1>1
  <2> HIDE DEF n
  <2>5. queue' \in [Payloads -> [0..MaxRetries -> Nat]]
    BY <1>0, <2>1, <2>3, <2>4
  <2>6. \A q \in Payloads, j \in 0..MaxRetries :
          queue'[q][j] = IF q = p /\ j = k THEN n ELSE queue[q][j]
    BY <1>0, <2>1, <2>4
  <2> QED BY <1>1, <2>5, <2>6
<1>3. p \in dispatched
  BY <1>0, <1>1 DEF PayloadOK
<1>4. /\ pc' \in [Workers -> Places] /\ job' \in [Workers -> Payloads \cup {None}]
      /\ tries' \in [Workers -> 0..MaxRetries]
      /\ pc'[w] = "load" /\ job'[w] = p
      /\ \A v \in Workers : v # w => pc'[v] = pc[v] /\ job'[v] = job[v]
  BY <1>0, <1>1 DEF Places
<1>5. RowsOK' /\ Times' = Times
  BY <1>0, <1>1 DEF RowsOK, Times
<1>6. ASSUME NEW v \in Workers PROVE TaskOK(v)'
  <2>1. CASE v = w
    BY <1>0, <1>1, <1>3, <1>4, <2>1 DEF TaskOK
  <2>2. CASE v # w
    <3>1. /\ pc'[v] = pc[v] /\ job'[v] = job[v] /\ time' = time /\ TaskOK(v)
      BY <1>0, <1>1, <1>4, <2>2
    <3>2. \A u \in Workers : pc'[u] = "insert" => pc[u] = "insert"
      BY <1>4
    <3>3. TimeOK(v) => TimeOK(v)'
      BY <1>5, <3>1, <3>2 DEF TimeOK
    <3> QED BY <1>1, <3>1, <3>3 DEF TaskOK
  <2> QED BY <2>1, <2>2
<1>7. ASSUME NEW q \in Payloads PROVE PayloadOK(q)'
  <2>1. CASE q = p
    <3>1. Carried(q)'
      BY <1>4, <2>1 DEF Carried, Unsettled
    <3> QED BY <1>1, <1>3, <2>1, <3>1 DEF PayloadOK
  <2>2. CASE q # p
    <3>1. Carried(q) => Carried(q)'
      <4>1. CASE \E j \in 0..MaxRetries : queue[q][j] > 0
        BY <1>2, <2>2, <4>1 DEF Carried
      <4>2. CASE \E v \in Workers : job[v] = q /\ pc[v] \in Unsettled
        <5>1. PICK v \in Workers : job[v] = q /\ pc[v] \in Unsettled
          BY <4>2
        <5>2. v # w
          BY <1>1, <5>1 DEF Unsettled
        <5> QED BY <1>4, <5>1, <5>2 DEF Carried
      <4> QED BY <4>1, <4>2 DEF Carried
    <3>2. Stored(q) => Stored(q)'
      BY <1>1, StoredGrows
    <3> QED BY <1>0, <1>1, <1>2, <3>1, <3>2 DEF PayloadOK
  <2> QED BY <2>1, <2>2
<1>8. TypeOK'
  BY <1>0, <1>1, <1>2, <1>4 DEF TypeOK
<1> QED BY <1>5, <1>6, <1>7, <1>8 DEF ReadingsInv

\* The task builds its reading: the time is the device's, or nobody else's.
LEMMA LoadInv ==
  ASSUME ReadingsInv, NEW w \in Workers, Load(w)
  PROVE  ReadingsInv'
<1>0. /\ TypeOK /\ RowsOK
      /\ \A v \in Workers : TaskOK(v)
      /\ \A q \in Payloads : PayloadOK(q)
      /\ pc \in [Workers -> Places] /\ job \in [Workers -> Payloads \cup {None}]
      /\ time \in [Workers -> Nat]
  BY DEF ReadingsInv, TypeOK
<1>1. /\ pc[w] = "load"
      /\ pc' = [pc EXCEPT ![w] = "insert"]
      /\ UNCHANGED <<dispatched, queue, reported, rows, node, failures, latest, job, tries,
                     seen, owed, crashes>>
  BY DEF Load, Goto, broker, api
<1>2. PICK t \in TimesOf(job[w]) : time' = [time EXCEPT ![w] = t]
  BY DEF Load
<1>3. job[w] \in Payloads /\ job[w] # None /\ job[w] \in dispatched
  BY <1>0, <1>1 DEF TaskOK
<1>4. /\ t \in Nat
      /\ job[w] \in Timed => t = DeviceTime[job[w]]
      /\ job[w] \notin Timed => /\ \A s \in Times : s < t
                                /\ \A v \in Workers : time[v] < t
                                /\ \A q \in Timed : DeviceTime[q] < t
  BY <1>3, TimeFacts
<1>5. /\ pc' \in [Workers -> Places] /\ time' \in [Workers -> Nat]
      /\ pc'[w] = "insert" /\ time'[w] = t
      /\ \A v \in Workers : v # w => pc'[v] = pc[v] /\ time'[v] = time[v]
  BY <1>0, <1>1, <1>2, <1>4 DEF Places
<1>6. RowsOK' /\ Times' = Times
  BY <1>0, <1>1 DEF RowsOK, Times
<1>7. Times \subseteq Nat /\ \A q \in Timed : DeviceTime[q] \in Nat
  BY TimeFacts, ReadingsConstants
<1>8. TimeOK(w)'
  <2>1. CASE job[w] \in Timed
    BY <1>1, <1>4, <1>5, <2>1 DEF TimeOK
  <2>2. CASE job[w] \notin Timed
    <3>1. /\ t \notin Times /\ \A q \in Timed : DeviceTime[q] # t
          /\ \A v \in Workers : time[v] # t
      BY <1>0, <1>4, <1>7, <2>2
    <3>2. \A v \in Workers \ {w} : time'[v] # time'[w]
      BY <1>5, <3>1
    <3> QED BY <1>1, <1>5, <1>6, <2>2, <3>1, <3>2 DEF TimeOK
  <2> QED BY <2>1, <2>2
<1>9. ASSUME NEW v \in Workers PROVE TaskOK(v)'
  <2>1. CASE v = w
    BY <1>1, <1>3, <1>5, <1>8, <2>1 DEF TaskOK
  <2>2. CASE v # w
    <3>1. pc'[v] = pc[v] /\ job'[v] = job[v] /\ time'[v] = time[v] /\ TaskOK(v)
      BY <1>0, <1>1, <1>5, <2>2
    <3>2. ASSUME pc[v] = "insert" PROVE TimeOK(v)'
      <4>1. TimeOK(v)
        BY <3>1, <3>2 DEF TaskOK
      <4>2. CASE job[v] \in Timed
        BY <3>1, <4>1, <4>2 DEF TimeOK
      <4>3. CASE job[v] \notin Timed
        <5>1. /\ time'[v] \notin Times' /\ \A q \in Timed : DeviceTime[q] # time'[v]
              /\ \A u \in Workers \ {v} : pc[u] = "insert" => time[u] # time[v]
          BY <1>6, <3>1, <4>1, <4>3 DEF TimeOK
        <5>2. time'[w] # time'[v]
          <6>1. CASE job[w] \in Timed
            BY <1>4, <1>5, <5>1, <6>1
          <6>2. CASE job[w] \notin Timed
            BY <1>0, <1>4, <1>5, <3>1, <6>2
          <6> QED BY <6>1, <6>2
        <5>3. ASSUME NEW u \in Workers \ {v}, pc'[u] = "insert" PROVE time'[u] # time'[v]
          BY <1>5, <3>1, <5>1, <5>2, <5>3
        <5>4. job'[v] \notin Timed
          BY <3>1, <4>3
        <5> QED BY <5>1, <5>3, <5>4 DEF TimeOK
      <4> QED BY <4>2, <4>3
    <3> QED BY <1>1, <3>1, <3>2 DEF TaskOK
  <2> QED BY <2>1, <2>2
<1>10. ASSUME NEW q \in Payloads PROVE PayloadOK(q)'
  <2>1. Carried(q) => Carried(q)'
    <3> SUFFICES ASSUME NEW v \in Workers, job[v] = q, pc[v] \in Unsettled
                 PROVE  job'[v] = q /\ pc'[v] \in Unsettled
      BY <1>1 DEF Carried
    <3> QED BY <1>1, <1>5 DEF Unsettled
  <2>2. Stored(q) => Stored(q)'
    BY <1>1, StoredGrows
  <2> QED BY <1>0, <1>1, <2>1, <2>2 DEF PayloadOK
<1>11. TypeOK'
  BY <1>0, <1>1, <1>5 DEF TypeOK
<1> QED BY <1>6, <1>9, <1>10, <1>11 DEF ReadingsInv

\* What a task does once its reading is built, or has been dropped.
LEMMA TaskInv ==
  ASSUME ReadingsInv, NEW w \in Workers,
         \/ LoadDrops(w) \/ Insert(w) \/ InsertDuplicate(w) \/ DatabaseError(w)
         \/ TaskFails(w) \/ CacheWrite(w) \/ RetryPublish(w) \/ RetryRefused(w)
         \/ RetriesExhausted(w) \/ Record(w) \/ Ack(w) \/ WorkerLost(w) \/ HardTimeLimit(w)
  PROVE  ReadingsInv'
<1>0. /\ RestOK /\ failures \in Nat /\ crashes \in 0..MaxCrashes /\ MaxCrashes \in Nat
      /\ latest \in Nat \cup {None} /\ TaskOK(w) /\ tries[w] \in 0..MaxRetries
      /\ MaxRetries \in Nat /\ job[w] \in Payloads \cup {None}
  BY ReadingsConstants DEF ReadingsInv, TypeOK, RestOK
<1>1. RestOK'
  <2>1. UNCHANGED <<node, seen, owed>>
    BY DEF LoadDrops, Insert, InsertDuplicate, DatabaseError, TaskFails, CacheWrite,
           RetryPublish, RetryRefused, RetriesExhausted, Record, Ack, WorkerLost,
           HardTimeLimit, api
  <2>2. failures' = failures \/ failures' = failures + 1
    BY DEF LoadDrops, Insert, InsertDuplicate, DatabaseError, TaskFails, CacheWrite,
           RetryPublish, RetryRefused, RetriesExhausted, Record, Ack, WorkerLost,
           HardTimeLimit, Outcomes
  <2>3. latest' = latest \/ latest' = None
    BY DEF LoadDrops, Insert, InsertDuplicate, DatabaseError, TaskFails, CacheWrite,
           RetryPublish, RetryRefused, RetriesExhausted, Record, Ack, WorkerLost,
           HardTimeLimit, Outcomes, DropLatest
  <2>4. crashes' = crashes \/ (crashes < MaxCrashes /\ crashes' = crashes + 1)
    BY DEF LoadDrops, Insert, InsertDuplicate, DatabaseError, TaskFails, CacheWrite,
           RetryPublish, RetryRefused, RetriesExhausted, Record, Ack, WorkerLost,
           HardTimeLimit
  <2>5. failures' \in Nat /\ crashes' \in 0..MaxCrashes
    BY <1>0, <2>2, <2>4
  <2> QED BY <1>0, <2>1, <2>3, <2>5 DEF RestOK
<1>2. \E x : Advance(w, x)
  <2>1. CASE LoadDrops(w)
    <3>1. Advance(w, "ack")
      BY <2>1 DEF LoadDrops, Advance, Goto, Report
    <3> QED BY <3>1
  <2>2. CASE Insert(w)
    <3>1. \E p \in Payloads : p = job[w] /\ Stored(p)'
      BY <1>0, <2>2, RowFacts DEF Insert, TaskOK
    <3>2. Advance(w, "cache")
      BY <2>2, <3>1 DEF Insert, Advance, Goto, broker
    <3> QED BY <3>2
  <2>3. CASE InsertDuplicate(w)
    <3>1. pc[w] = "insert" /\ time[w] \in Times /\ rows' = rows
      BY <2>3 DEF InsertDuplicate
    <3>2. job[w] \in Timed /\ DeviceTime[job[w]] \in Times /\ job[w] \in Payloads
      BY <1>0, <3>1 DEF TaskOK, TimeOK
    <3>3. \E p \in Payloads : p = job[w] /\ Stored(p)'
      BY <3>1, <3>2 DEF Stored, Times
    <3>4. Advance(w, "ack")
      BY <2>3, <3>3 DEF InsertDuplicate, Advance, Goto, broker
    <3> QED BY <3>4
  <2>4. CASE DatabaseError(w)
    <3>1. Advance(w, "retry")
      BY <2>4 DEF DatabaseError, Advance, Goto, broker
    <3> QED BY <3>1
  <2>5. CASE TaskFails(w)
    <3>1. Advance(w, "record")
      BY <2>5 DEF TaskFails, Advance, Goto, Report
    <3> QED BY <3>1
  <2>6. CASE CacheWrite(w)
    <3>1. Advance(w, "ack")
      BY <2>6 DEF CacheWrite, Advance, Goto, broker, Unsettled
    <3> QED BY <3>1
  <2>7. CASE RetryPublish(w)
    <3>1. tries[w] + 1 \in 0..MaxRetries /\ Put(job[w], tries[w] + 1)
      BY <1>0, <2>7 DEF RetryPublish
    <3>2. Advance(w, "record")
      BY <2>7, <3>1 DEF RetryPublish, Advance, Goto
    <3> QED BY <3>2
  <2>8. CASE RetryRefused(w)
    <3>1. Advance(w, "ack")
      BY <2>8 DEF RetryRefused, Advance, Goto, Report
    <3> QED BY <3>1
  <2>9. CASE RetriesExhausted(w)
    <3>1. Advance(w, "record")
      BY <2>9 DEF RetriesExhausted, Advance, Goto, Report
    <3> QED BY <3>1
  <2>10. CASE Record(w)
    <3>1. Advance(w, "ack")
      BY <2>10 DEF Record, Advance, Goto, broker, Unsettled
    <3> QED BY <3>1
  <2>11. CASE Ack(w)
    <3>1. Advance(w, "idle")
      BY <2>11 DEF Ack, Advance, Goto, Leave, broker, Unsettled
    <3> QED BY <3>1
  <2>12. CASE WorkerLost(w)
    <3>1. Advance(w, "idle")
      BY <1>0, <2>12 DEF WorkerLost, Redelivered, Advance, Goto, Leave
    <3> QED BY <3>1
  <2>13. CASE HardTimeLimit(w)
    <3>1. Advance(w, "idle")
      BY <2>13 DEF HardTimeLimit, Advance, Goto, Leave, Report
    <3> QED BY <3>1
  <2> QED BY <2>1, <2>2, <2>3, <2>4, <2>5, <2>6, <2>7, <2>8, <2>9, <2>10, <2>11, <2>12, <2>13
<1> QED BY <1>1, <1>2, AdvanceInv

-----------------------------------------------------------------------------
(* Dispatch by the MQTT client, and what only changes the rest              *)

\* A dispatch publishes the reading's message, or it reports the reading.
LEMMA DispatchInv ==
  ASSUME ReadingsInv, NEW p \in Payloads, Dispatch(p) \/ DispatchGivesUp(p)
  PROVE  ReadingsInv'
<1>0. /\ TypeOK /\ RowsOK
      /\ \A w \in Workers : TaskOK(w)
      /\ \A q \in Payloads : PayloadOK(q)
      /\ queue \in [Payloads -> [0..MaxRetries -> Nat]]
      /\ reported \subseteq dispatched /\ dispatched \subseteq Payloads
      /\ 0 \in 0..MaxRetries
  BY ReadingsConstants DEF ReadingsInv, TypeOK
<1>1. /\ dispatched' = dispatched \cup {p}
      /\ \/ Put(p, 0) /\ reported' = reported
         \/ queue' = queue /\ reported' = reported \cup {p}
      /\ UNCHANGED <<rows, node, failures, latest, pc, job, tries, time, seen, owed, crashes>>
  BY DEF Dispatch, DispatchGivesUp, task, api
<1>2. /\ queue' \in [Payloads -> [0..MaxRetries -> Nat]]
      /\ \A q \in Payloads, j \in 0..MaxRetries :
           /\ queue[q][j] > 0 => queue'[q][j] > 0
           /\ queue'[q][j] > 0 => queue[q][j] > 0 \/ q = p
      /\ (\E j \in 0..MaxRetries : queue'[p][j] > 0) \/ p \in reported'
  <2>1. CASE Put(p, 0)
    BY <1>0, <2>1, PutFacts
  <2>2. CASE queue' = queue /\ reported' = reported \cup {p}
    BY <1>0, <2>2
  <2> QED BY <1>1, <2>1, <2>2
<1>3. RowsOK' /\ Times' = Times
  BY <1>0, <1>1 DEF RowsOK, Times
<1>4. \A w \in Workers : TaskOK(w)'
  BY <1>0, <1>1, <1>3 DEF TaskOK, TimeOK
<1>5. ASSUME NEW q \in Payloads PROVE PayloadOK(q)'
  <2>1. (\E k \in 0..MaxRetries : queue'[q][k] > 0) => q \in dispatched'
    BY <1>0, <1>1, <1>2 DEF PayloadOK
  <2>2. CASE q = p
    BY <1>2, <2>1, <2>2 DEF PayloadOK, Carried
  <2>3. CASE q # p
    <3>1. Carried(q) => Carried(q)'
      BY <1>1, <1>2 DEF Carried
    <3>2. Stored(q) => Stored(q)'
      BY <1>1, StoredGrows
    <3>3. q \in reported => q \in reported'
      BY <1>1
    <3>4. q \in dispatched' => q \in dispatched
      BY <1>1, <2>3
    <3> QED BY <1>0, <2>1, <3>1, <3>2, <3>3, <3>4 DEF PayloadOK
  <2> QED BY <2>2, <2>3
<1>6. TypeOK'
  BY <1>0, <1>1, <1>2 DEF TypeOK
<1> QED BY <1>3, <1>4, <1>5, <1>6 DEF ReadingsInv

\* The breaker's window, the snapshot's cache and the node registry.
LEMMA RestInv ==
  ASSUME ReadingsInv,
         \/ DispatchRefused \/ FailureAgesOut \/ ResetCircuit \/ LatestExpires
         \/ \E r \in Readers : ReadThrough(r) \/ Fill(r)
         \/ \E a \in Admins : RegisterNode(a) \/ UpdateNode(a) \/ ClearCache(a)
         \/ UNCHANGED vars
  PROVE  ReadingsInv'
<1>0. RestOK /\ failures \in Nat /\ Newest \in Nat
  BY TimeFacts DEF ReadingsInv, TypeOK, RestOK
<1>1. UNCHANGED <<dispatched, queue, reported, rows, pc, job, tries, time, crashes>>
  BY DEF DispatchRefused, FailureAgesOut, ResetCircuit, LatestExpires, ReadThrough, Fill,
         RegisterNode, UpdateNode, ClearCache, vars, broker, task
<1>2. RestOK'
  <2>1. CASE DispatchRefused \/ UNCHANGED vars
    BY <1>0, <2>1 DEF DispatchRefused, vars, RestOK
  <2>2. CASE FailureAgesOut \/ ResetCircuit
    <3>1. /\ failures > 0 /\ (failures' = failures - 1 \/ failures' = 0)
          /\ UNCHANGED <<node, latest, seen, owed, crashes>>
      BY <2>2 DEF FailureAgesOut, ResetCircuit, api
    <3>2. failures' \in Nat
      BY <1>0, <3>1
    <3> QED BY <1>0, <3>1, <3>2 DEF RestOK
  <2>3. CASE LatestExpires
    BY <1>0, <2>3 DEF LatestExpires, RestOK, api
  <2>4. CASE \E r \in Readers : ReadThrough(r)
    BY <1>0, <2>4 DEF ReadThrough, RestOK
  <2>5. CASE \E r \in Readers : Fill(r)
    <3>1. PICK r \in Readers : Fill(r)
      BY <2>5
    <3>2. /\ seen[r] # None /\ (latest' = seen[r] \/ latest' = latest)
          /\ seen' = [seen EXCEPT ![r] = None]
          /\ UNCHANGED <<node, failures, owed, crashes>>
      BY <3>1 DEF Fill, Outcomes
    <3> QED BY <1>0, <3>2 DEF RestOK
  <2>6. CASE \E a \in Admins : RegisterNode(a) \/ UpdateNode(a) \/ ClearCache(a)
    BY <1>0, <2>6 DEF RegisterNode, UpdateNode, ClearCache, DropLatest, Outcomes, RestOK
  <2> QED BY <2>1, <2>2, <2>3, <2>4, <2>5, <2>6
<1> QED BY <1>1, <1>2, QuietStep

-----------------------------------------------------------------------------
(* The invariant                                                            *)

\* Before the first dispatch there is no message, no row and no task.
LEMMA InitInv == Init => ReadingsInv
<1> SUFFICES ASSUME Init PROVE ReadingsInv
  OBVIOUS
<1>1. 0 \in 0..MaxRetries /\ 0 \in 0..MaxCrashes /\ MaxRetries \in Nat
  BY ReadingsConstants
<1>2. TypeOK
  BY <1>1 DEF Init, TypeOK, Places
<1>3. RowsOK
  BY FS_EmptySet DEF Init, RowsOK
<1>4. \A w \in Workers : TaskOK(w)
  BY DEF Init, TaskOK
<1>5. ASSUME NEW p \in Payloads PROVE PayloadOK(p)
  <2>1. \A k \in 0..MaxRetries : queue[p][k] = 0
    BY DEF Init
  <2>2. ~(\E k \in 0..MaxRetries : queue[p][k] > 0)
    BY <2>1
  <2> QED BY <2>2 DEF Init, PayloadOK
<1> QED BY <1>2, <1>3, <1>4, <1>5 DEF ReadingsInv

\* Every step of dispatcher, workers, readers, administrators and time.
LEMMA NextInv == ReadingsInv /\ [Next]_vars => ReadingsInv'
<1> SUFFICES ASSUME ReadingsInv, [Next]_vars PROVE ReadingsInv'
  OBVIOUS
<1>1. CASE \E p \in Payloads : Dispatch(p) \/ DispatchGivesUp(p)
  BY <1>1, DispatchInv
<1>2. ASSUME NEW w \in Workers, WorkerStep(w) \/ WorkerLost(w) \/ HardTimeLimit(w)
      PROVE  ReadingsInv'
  <2>1. CASE \E p \in Payloads, k \in 0..MaxRetries : Take(w, p, k)
    BY <2>1, TakeInv
  <2>2. CASE Load(w)
    BY <2>2, LoadInv
  <2>3. CASE \/ LoadDrops(w) \/ Insert(w) \/ InsertDuplicate(w) \/ DatabaseError(w)
             \/ TaskFails(w) \/ CacheWrite(w) \/ RetryPublish(w) \/ RetryRefused(w)
             \/ RetriesExhausted(w) \/ Record(w) \/ Ack(w) \/ WorkerLost(w) \/ HardTimeLimit(w)
    BY <2>3, TaskInv
  <2> QED BY <1>2, <2>1, <2>2, <2>3 DEF WorkerStep
<1>3. CASE \/ DispatchRefused \/ FailureAgesOut \/ ResetCircuit \/ LatestExpires
           \/ \E r \in Readers : ReadThrough(r) \/ Fill(r)
           \/ \E a \in Admins : RegisterNode(a) \/ UpdateNode(a) \/ ClearCache(a)
           \/ UNCHANGED vars
  BY <1>3, RestInv
<1> QED BY <1>1, <1>2, <1>3 DEF Next

\* The whole inductive invariant of the reading task.
THEOREM ReadingsInvariant == Spec => []ReadingsInv
<1>1. Init => ReadingsInv
  BY InitInv
<1>2. ReadingsInv /\ [Next]_vars => ReadingsInv'
  BY NextInv
<1> QED BY <1>1, <1>2, PTL DEF Spec

\* Queue, rows, cache and tasks keep their types; (time, node_id) stays a key.
THEOREM ReadingsTypeCorrect == Spec => []TypeOK
<1>1. ReadingsInv => TypeOK
  BY DEF ReadingsInv
<1> QED BY <1>1, ReadingsInvariant, PTL

\* However often the message of a reading with a device time is delivered,
\* by process deaths and retries, sensor_readings holds it once.
THEOREM TimedReadingsOnce == Spec => []TimedStoredOnce
<1>1. ReadingsInv => TimedStoredOnce
  BY DEF ReadingsInv, TypeOK, RowsOK, TimedStoredOnce
<1> QED BY <1>1, ReadingsInvariant, PTL

\* A dispatched reading is queued, with a worker, stored or reported, with
\* any number of payloads, workers, retries and deaths.
THEOREM ReadingsNeverVanish == Spec => []NothingVanishes
<1>1. ReadingsInv => NothingVanishes
  <2> SUFFICES ASSUME ReadingsInv, NEW p \in dispatched
               PROVE  InSystem(p) \/ Stored(p) \/ p \in reported
    BY DEF NothingVanishes
  <2>1. PayloadOK(p)
    BY DEF ReadingsInv, TypeOK
  <2>2. Carried(p) => InSystem(p)
    BY DEF Carried, InSystem
  <2> QED BY <2>1, <2>2 DEF PayloadOK
<1> QED BY <1>1, ReadingsInvariant, PTL

-----------------------------------------------------------------------------
(* The air quality index                                                    *)

\* Clamping brings a value to the nearer end of a range, or leaves it.
LEMMA ClampFacts ==
  ASSUME NEW x \in Int, NEW lo \in Int, NEW hi \in Int, lo <= hi
  PROVE  Clamp(x, lo, hi) = IF x < lo THEN lo ELSE IF x > hi THEN hi ELSE x
<1> DEFINE m == Min({hi, x})
<1>1. m \in Int /\ m = IF x > hi THEN hi ELSE x
  BY DEF Min
<1> HIDE DEF m
<1>2. Max({lo, m}) = IF m < lo THEN lo ELSE m
  BY <1>1 DEF Max
<1>3. Clamp(x, lo, hi) = Max({lo, m})
  BY DEF Clamp, m
<1> QED BY <1>1, <1>2, <1>3

\* Rounding down keeps the order of two values.
LEMMA DivMonotone ==
  ASSUME NEW a \in Int, NEW b \in Int, NEW n \in Nat \ {0}, a <= b
  PROVE  a \div n <= b \div n /\ a \div n \in Int /\ b \div n \in Int
OBVIOUS

LEMMA TimesMonotone ==
  ASSUME NEW a \in Int, NEW b \in Int, NEW k \in Nat, a <= b
  PROVE  k * a <= k * b /\ k * a \in Int /\ k * b \in Int
OBVIOUS

\* Rounding down keeps the order of two values of a band.
LEMMA InterpolateMonotone ==
  ASSUME NEW band, \A k \in 1..4 : band[k] \in Int, band[1] < band[2], band[3] <= band[4],
         NEW c \in Int, NEW d \in Int, c <= d
  PROVE  /\ Interpolate(c, band) \in Int /\ Interpolate(d, band) \in Int
         /\ Interpolate(c, band) <= Interpolate(d, band)
<1> DEFINE k == band[4] - band[3]
           n == band[2] - band[1]
           x == c - band[1]
           y == d - band[1]
<1>1. /\ k \in Nat /\ n \in Nat \ {0} /\ band[3] \in Int
      /\ x \in Int /\ y \in Int /\ x <= y
  OBVIOUS
<1>2. /\ Interpolate(c, band) = (k * x) \div n + band[3]
      /\ Interpolate(d, band) = (k * y) \div n + band[3]
  BY DEF Interpolate
<1> HIDE DEF k, n, x, y
<1> DEFINE p == k * x
           q == k * y
<1>3. p \in Int /\ q \in Int /\ p <= q
  BY <1>1, TimesMonotone
<1>4. Interpolate(c, band) = p \div n + band[3] /\ Interpolate(d, band) = q \div n + band[3]
  BY <1>2
<1> HIDE DEF p, q
<1>5. p \div n <= q \div n /\ p \div n \in Int /\ q \div n \in Int
  BY <1>1, <1>3, DivMonotone
<1> QED BY <1>1, <1>4, <1>5

\* The indices of the seven bands, the same for both pollutants.
IndexLow  == <<0, 51, 101, 151, 201, 301, 401>>
IndexHigh == <<50, 100, 150, 200, 300, 400, 500>>

\* What the two tables have in common: the bands ascend, reach their highest
\* index at the upper breakpoint, and lie at most one below their lowest index
\* just above the previous band.
BandTable(bands) ==
  /\ DOMAIN bands = 1..7 /\ Len(bands) = 7
  /\ \A i, k \in 1..7 : k <= 4 => bands[i][k] \in Int
  /\ \A i \in 1..7 : /\ bands[i][1] < bands[i][2] /\ bands[i][3] <= bands[i][4]
                     /\ Interpolate(bands[i][2], bands[i]) = IndexHigh[i]
  /\ Interpolate(0, bands[1]) = 0 /\ 0 <= bands[1][2]
  /\ \A i \in 2..7 : /\ bands[i - 1][2] < bands[i][2]
                     /\ IndexLow[i] - 1 <= Interpolate(bands[i - 1][2] + 1, bands[i])

LEMMA Pm25Table == BandTable(Pm25Bands)
BY DEF BandTable, Pm25Bands, Interpolate, IndexLow, IndexHigh

LEMMA Pm10Table == BandTable(Pm10Bands)
BY DEF BandTable, Pm10Bands, Interpolate, IndexLow, IndexHigh

\* The band of a concentration is the first that holds it.
LEMMA SubindexFacts ==
  ASSUME NEW bands, BandTable(bands), NEW c \in 0..bands[7][2]
  PROVE  LET i == Subindex(c, bands)
         IN  /\ i \in 1..7 /\ c <= bands[i][2]
             /\ \A j \in 1..7 : j < i => bands[j][2] < c
<1> DEFINE fits == {j \in DOMAIN bands : c <= bands[j][2]}
           i == Min(fits)
<1>1. /\ DOMAIN bands = 1..7 /\ c \in Int
      /\ \A j \in 1..7 : bands[j][2] \in Int
  BY DEF BandTable
<1>2. fits \subseteq 1..7 /\ 7 \in fits
  BY <1>1
<1>3. Subindex(c, bands) = i
  BY <1>2 DEF Subindex
<1>4. \A j \in 1..7 : j \notin fits => bands[j][2] < c
  BY <1>1
<1>5. \A j \in fits : c <= bands[j][2]
  OBVIOUS
<1> HIDE DEF fits
<1>6. \E first \in fits : \A j \in fits : first <= j
  <2>1. \E k \in 1..7 : k \in fits /\ \A j \in 1..7 : j < k => j \notin fits
    <3>1. CASE 1 \in fits \/ 2 \in fits \/ 3 \in fits
      BY <3>1
    <3>2. CASE 1 \notin fits /\ 2 \notin fits /\ 3 \notin fits
      BY <1>2, <3>2
    <3> QED BY <3>1, <3>2
  <2>2. PICK k \in 1..7 : k \in fits /\ \A j \in 1..7 : j < k => j \notin fits
    BY <2>1
  <2>3. ASSUME NEW j \in fits PROVE k <= j
    BY <1>2, <2>2
  <2> QED BY <2>2, <2>3
<1>7. i \in fits /\ \A j \in fits : i <= j
  BY <1>6 DEF Min
<1> HIDE DEF i
<1>8. \A j \in 1..7 : j < i => j \notin fits
  BY <1>2, <1>7
<1> QED BY <1>2, <1>3, <1>4, <1>5, <1>7, <1>8

\* The index of a value stays in its band, or is the last one below it.
LEMMA IndexInBand ==
  ASSUME NEW bands, BandTable(bands), NEW c \in 0..bands[7][2]
  PROVE  LET i == Subindex(c, bands)
             v == Interpolate(c, bands[i])
         IN  /\ i \in 1..7 /\ v \in 0..500
             /\ IndexLow[i] - 1 <= v /\ v <= IndexHigh[i]
<1> DEFINE i == Subindex(c, bands)
<1>1. /\ i \in 1..7 /\ c <= bands[i][2]
      /\ \A j \in 1..7 : j < i => bands[j][2] < c
  BY SubindexFacts
<1>2. c \in Int /\ 0 <= c /\ \A j \in 1..7 : bands[j][2] \in Int
  BY DEF BandTable
<1> HIDE DEF i
<1> DEFINE band == bands[i]
           v == Interpolate(c, band)
<1>3. /\ \A k \in 1..4 : band[k] \in Int
      /\ band[1] < band[2] /\ band[3] <= band[4]
      /\ Interpolate(band[2], band) = IndexHigh[i]
  BY <1>1 DEF BandTable
<1>4. v \in Int /\ v <= Interpolate(band[2], band)
  BY <1>1, <1>2, <1>3, InterpolateMonotone
<1>5. IndexLow[i] - 1 <= v /\ (i = 1 => 0 <= v)
  <2>1. CASE i = 1
    <3>1. Interpolate(0, band) = 0
      BY <2>1 DEF BandTable
    <3>2. Interpolate(0, band) <= v
      BY <1>2, <1>3, InterpolateMonotone
    <3>3. 0 <= v
      BY <3>1, <3>2
    <3>4. IndexLow[i] = 0
      BY <2>1 DEF IndexLow
    <3> HIDE DEF v
    <3> QED BY <1>4, <3>3, <3>4
  <2>2. CASE i # 1
    <3> DEFINE below == bands[i - 1][2] + 1
    <3>1. i \in 2..7 /\ i - 1 \in 1..7 /\ i - 1 < i
      BY <1>1, <2>2
    <3>2. below \in Int /\ below <= c
      BY <1>1, <1>2, <3>1
    <3>3. IndexLow[i] - 1 <= Interpolate(below, band)
      BY <3>1 DEF BandTable
    <3> HIDE DEF below
    <3>4. Interpolate(below, band) <= v /\ Interpolate(below, band) \in Int
      BY <1>2, <1>3, <3>2, InterpolateMonotone
    <3>5. IndexLow[i] \in Int
      BY <1>1 DEF IndexLow
    <3> HIDE DEF v
    <3> QED BY <1>4, <2>2, <3>3, <3>4, <3>5
  <2> QED BY <2>1, <2>2
<1> HIDE DEF v
<1>6. IndexHigh[i] \in 50..500 /\ (i # 1 => IndexLow[i] \in 51..401)
  BY <1>1 DEF IndexHigh, IndexLow
<1>7. v \in 0..500 /\ v <= IndexHigh[i]
  BY <1>3, <1>4, <1>5, <1>6
<1> QED BY <1>1, <1>5, <1>7 DEF i, v

\* A dirtier value never has a lower index, in one band or across bands.
LEMMA IndexMonotone ==
  ASSUME NEW bands, BandTable(bands),
         NEW c \in 0..bands[7][2], NEW d \in 0..bands[7][2], c <= d
  PROVE  Interpolate(c, bands[Subindex(c, bands)]) <= Interpolate(d, bands[Subindex(d, bands)])
<1> DEFINE i == Subindex(c, bands)
           j == Subindex(d, bands)
           v == Interpolate(c, bands[i])
           w == Interpolate(d, bands[j])
<1>1. /\ i \in 1..7 /\ c <= bands[i][2] /\ \A k \in 1..7 : k < i => bands[k][2] < c
      /\ j \in 1..7 /\ d <= bands[j][2] /\ \A k \in 1..7 : k < j => bands[k][2] < d
  BY SubindexFacts
<1>2. /\ v \in 0..500 /\ v <= IndexHigh[i]
      /\ w \in 0..500 /\ IndexLow[j] - 1 <= w
  BY IndexInBand
<1>3. c \in Int /\ d \in Int /\ \A k \in 1..7 : bands[k][2] \in Int
  BY DEF BandTable
<1> HIDE DEF i, j
<1>4. i <= j
  <2> SUFFICES ASSUME j < i PROVE FALSE
    BY <1>1
  <2>1. bands[j][2] < c
    BY <1>1
  <2> QED BY <1>1, <1>3, <2>1
<1>5. CASE i = j
  <2> DEFINE band == bands[i]
  <2>1. /\ \A k \in 1..4 : band[k] \in Int
        /\ band[1] < band[2] /\ band[3] <= band[4]
    BY <1>1 DEF BandTable
  <2> HIDE DEF band
  <2>2. Interpolate(c, band) <= Interpolate(d, band)
    BY <1>3, <2>1, InterpolateMonotone
  <2> QED BY <1>5, <2>2 DEF band, i, j
<1>6. CASE i < j
  <2>1. IndexHigh[i] <= IndexLow[j] - 1 /\ IndexHigh[i] \in Int /\ IndexLow[j] \in Int
    BY <1>1, <1>6 DEF IndexHigh, IndexLow
  <2> HIDE DEF v, w
  <2>2. v <= w
    BY <1>2, <2>1
  <2> QED BY <2>2 DEF v, w, i, j
<1> QED BY <1>1, <1>4, <1>5, <1>6

\* compute_aqi clamps, so any number has an index, and one that fits its
\* category.
LEMMA AqiForFits ==
  ASSUME NEW bands, BandTable(bands), NEW x \in Int
  PROVE  LET index == AqiFor(x, bands)
         IN  /\ index[1] \in 0..500
             /\ index[2] \in {CategoryOfIndex(index[1]), CategoryOfIndex(index[1] + 1)}
<1> DEFINE c == Clamp(x, 0, bands[7][2])
           i == Subindex(c, bands)
           v == Interpolate(c, bands[i])
<1>1. bands[7][2] \in Nat /\ Len(bands) = 7
  BY DEF BandTable
<1>2. c \in 0..bands[7][2]
  BY <1>1, ClampFacts
<1>3. AqiFor(x, bands) = <<v, CATEGORIES[i]>>
  BY <1>1 DEF AqiFor
<1> HIDE DEF c
<1>4. i \in 1..7 /\ v \in 0..500 /\ IndexLow[i] - 1 <= v /\ v <= IndexHigh[i]
  BY <1>2, IndexInBand
<1> HIDE DEF i, v
<1>5. CATEGORIES[i] \in {CategoryOfIndex(v), CategoryOfIndex(v + 1)}
  BY <1>4 DEF IndexLow, IndexHigh, CATEGORIES, CategoryOfIndex
<1> QED BY <1>3, <1>4, <1>5

\* A higher concentration never has a lower index.
LEMMA AqiForMonotone ==
  ASSUME NEW bands, BandTable(bands), NEW x \in Int, NEW y \in Int, x <= y
  PROVE  AqiFor(x, bands)[1] <= AqiFor(y, bands)[1]
<1> DEFINE c == Clamp(x, 0, bands[7][2])
           d == Clamp(y, 0, bands[7][2])
<1>1. bands[7][2] \in Nat /\ Len(bands) = 7
  BY DEF BandTable
<1>2. c \in 0..bands[7][2] /\ d \in 0..bands[7][2] /\ c <= d
  BY <1>1, ClampFacts
<1>3. /\ AqiFor(x, bands)[1] = Interpolate(c, bands[Subindex(c, bands)])
      /\ AqiFor(y, bands)[1] = Interpolate(d, bands[Subindex(d, bands)])
  BY <1>1 DEF AqiFor
<1> HIDE DEF c, d
<1> QED BY <1>2, <1>3, IndexMonotone

\* The row is what process_reading built from the last sample.
AirInv == sample \in Sample /\ row = BuildReading(sample)

\* A field of a sample is a number or missing.
LEMMA SampleFacts ==
  ASSUME NEW s \in Sample
  PROVE  /\ s.temp \in Int \cup {Missing} /\ s.hum \in Int \cup {Missing}
         /\ s.pm25 \in Int \cup {Missing} /\ s.pm10 \in Int \cup {Missing}
         /\ Missing \notin Int
BY AirConstants DEF Sample

\* A reading replaces the row together with the sample.
LEMMA MeasureKeeps ==
  ASSUME AirInv, NEW field, NEW values, Measure(field, values),
         \A v \in values \cup {Missing} : [sample EXCEPT ![field] = v] \in Sample
  PROVE  AirInv'
<1>1. PICK v \in values \cup {Missing} : /\ sample' = [sample EXCEPT ![field] = v]
                                         /\ row' = BuildReading([sample EXCEPT ![field] = v])
  BY DEF Measure
<1>2. sample' \in Sample /\ row' = BuildReading(sample')
  BY <1>1
<1> QED BY <1>2 DEF AirInv

LEMMA SampleTaken ==
  ASSUME AirInv, [NextSample]_air
  PROVE  AirInv'
<1>0. sample \in Sample
  BY DEF AirInv
<1>1. CASE UNCHANGED air
  BY <1>1 DEF AirInv, air
<1>2. CASE Measure("temp", Temps)
  <2>1. \A v \in Temps \cup {Missing} : [sample EXCEPT !["temp"] = v] \in Sample
    BY <1>0 DEF Sample
  <2> QED BY <1>2, <2>1, MeasureKeeps
<1>3. CASE Measure("hum", Hums)
  <2>1. \A v \in Hums \cup {Missing} : [sample EXCEPT !["hum"] = v] \in Sample
    BY <1>0 DEF Sample
  <2> QED BY <1>3, <2>1, MeasureKeeps
<1>4. CASE Measure("pm25", Pm25s)
  <2>1. \A v \in Pm25s \cup {Missing} : [sample EXCEPT !["pm25"] = v] \in Sample
    BY <1>0 DEF Sample
  <2> QED BY <1>4, <2>1, MeasureKeeps
<1>5. CASE Measure("pm10", Pm10s)
  <2>1. \A v \in Pm10s \cup {Missing} : [sample EXCEPT !["pm10"] = v] \in Sample
    BY <1>0 DEF Sample
  <2> QED BY <1>5, <2>1, MeasureKeeps
<1> QED BY <1>1, <1>2, <1>3, <1>4, <1>5 DEF NextSample

\* The row is always the one built from the last sample.
LEMMA AirInvariant == SampleSpec => []AirInv
<1>1. FirstSample => AirInv
  BY DEF FirstSample, AirInv
<1>2. AirInv /\ [NextSample]_air => AirInv'
  BY SampleTaken
<1> QED BY <1>1, <1>2, PTL DEF SampleSpec

\* Which of the two indices is shown.
LEMMA ShownIndex ==
  ASSUME NEW s \in Sample
  PROVE  LET index == ComputeAqi(s.pm25, s.pm10)
             fine   == AqiFor(s.pm25, Pm25Bands)
             coarse == AqiFor(s.pm10, Pm10Bands)
         IN  /\ index[1] = Missing => s.pm25 = Missing /\ s.pm10 = Missing
             /\ index[1] # Missing =>
                  \/ s.pm25 \in Int /\ index = fine
                  \/ s.pm10 \in Int /\ index = coarse
             /\ s.pm25 \in Int => index[1] \in Int /\ index[1] >= fine[1]
             /\ s.pm10 \in Int => index[1] \in Int /\ index[1] >= coarse[1]
<1> DEFINE index == ComputeAqi(s.pm25, s.pm10)
           fine   == AqiFor(s.pm25, Pm25Bands)
           coarse == AqiFor(s.pm10, Pm10Bands)
<1>1. /\ s.pm25 \in Int \cup {Missing} /\ s.pm10 \in Int \cup {Missing} /\ Missing \notin Int
  BY SampleFacts
<1>2. /\ s.pm25 \in Int => fine[1] \in Int
      /\ s.pm10 \in Int => coarse[1] \in Int
  <2>1. ASSUME s.pm25 \in Int PROVE fine[1] \in 0..500
    BY <2>1, AqiForFits, Pm25Table
  <2>2. ASSUME s.pm10 \in Int PROVE coarse[1] \in 0..500
    BY <2>2, AqiForFits, Pm10Table
  <2> HIDE DEF fine, coarse
  <2> QED BY <2>1, <2>2
<1>3. index = IF s.pm25 = Missing
              THEN IF s.pm10 = Missing THEN <<Missing, Missing>> ELSE coarse
              ELSE IF s.pm10 = Missing THEN fine
              ELSE IF coarse[1] > fine[1] THEN coarse ELSE fine
  BY DEF ComputeAqi
<1> HIDE DEF index, fine, coarse
<1>4. CASE s.pm25 = Missing /\ s.pm10 = Missing
  BY <1>1, <1>3, <1>4 DEF index, fine, coarse
<1>5. CASE s.pm25 = Missing /\ s.pm10 # Missing
  BY <1>1, <1>2, <1>3, <1>5 DEF index, fine, coarse
<1>6. CASE s.pm25 # Missing /\ s.pm10 = Missing
  BY <1>1, <1>2, <1>3, <1>6 DEF index, fine, coarse
<1>7. CASE s.pm25 # Missing /\ s.pm10 # Missing
  BY <1>1, <1>2, <1>3, <1>7 DEF index, fine, coarse
<1> QED BY <1>4, <1>5, <1>6, <1>7

\* Whatever samples the node sends, an index is in 0..500 and the category shown
\* with it is its own or the next one.
THEOREM CategoryMatchesIndex == SampleSpec => []CategoryFitsIndex
<1>1. AirInv => CategoryFitsIndex
  <2> SUFFICES ASSUME AirInv, row.aqi # Missing
               PROVE  /\ row.aqi \in 0..500
                      /\ row.category \in {CategoryOfIndex(row.aqi), CategoryOfIndex(row.aqi + 1)}
    BY DEF CategoryFitsIndex
  <2> DEFINE index == ComputeAqi(sample.pm25, sample.pm10)
  <2>1. sample \in Sample /\ row.aqi = index[1] /\ row.category = index[2]
    BY DEF AirInv, BuildReading
  <2>2. \/ sample.pm25 \in Int /\ index = AqiFor(sample.pm25, Pm25Bands)
        \/ sample.pm10 \in Int /\ index = AqiFor(sample.pm10, Pm10Bands)
    BY <2>1, ShownIndex
  <2>3. /\ index[1] \in 0..500
        /\ index[2] \in {CategoryOfIndex(index[1]), CategoryOfIndex(index[1] + 1)}
    <3>1. CASE sample.pm25 \in Int /\ index = AqiFor(sample.pm25, Pm25Bands)
      BY <3>1, AqiForFits, Pm25Table
    <3>2. CASE sample.pm10 \in Int /\ index = AqiFor(sample.pm10, Pm10Bands)
      BY <3>2, AqiForFits, Pm10Table
    <3> QED BY <2>2, <3>1, <3>2
  <2> QED BY <2>1, <2>3
<1> QED BY <1>1, AirInvariant, PTL

\* Of two consecutive samples the dirtier one never has the lower index.
THEOREM DirtierNeverLower == SampleSpec => AqiMonotone
<1>1. AirInv /\ AirInv' /\ [NextSample]_air
      => [ NotBelow(sample'.pm25, sample.pm25) /\ NotBelow(sample'.pm10, sample.pm10)
           => NotBelow(row'.aqi, row.aqi) ]_air
  <2> SUFFICES ASSUME AirInv, AirInv',
                      NotBelow(sample'.pm25, sample.pm25), NotBelow(sample'.pm10, sample.pm10)
               PROVE  NotBelow(row'.aqi, row.aqi)
    OBVIOUS
  <2>1. PICK s \in Sample : s = sample
    BY DEF AirInv
  <2>2. PICK t \in Sample : t = sample'
    BY DEF AirInv
  <2> DEFINE before == ComputeAqi(s.pm25, s.pm10)
             after  == ComputeAqi(t.pm25, t.pm10)
             lower  == before[1]
             upper  == after[1]
  <2>3. row.aqi = lower /\ row'.aqi = upper
    BY <2>1, <2>2 DEF AirInv, BuildReading
  <2>4. /\ s.pm25 \in Int => t.pm25 \in Int /\ s.pm25 <= t.pm25
        /\ s.pm10 \in Int => t.pm10 \in Int /\ s.pm10 <= t.pm10
        /\ Missing \notin Int
    BY <2>1, <2>2, SampleFacts DEF NotBelow
  <2>5. CASE s.pm25 \in Int /\ before = AqiFor(s.pm25, Pm25Bands)
    <3> DEFINE bound == AqiFor(t.pm25, Pm25Bands)[1]
    <3>1. lower \in 0..500 /\ bound \in 0..500 /\ lower <= bound
      BY <2>4, <2>5, AqiForMonotone, AqiForFits, Pm25Table
    <3>2. upper \in Int /\ upper >= bound
      BY <2>4, <2>5, ShownIndex
    <3> HIDE DEF bound, lower, upper
    <3>3. lower <= upper
      BY <3>1, <3>2
    <3>4. row'.aqi # Missing /\ row'.aqi >= row.aqi
      BY <2>3, <2>4, <3>2, <3>3
    <3> QED BY <3>4 DEF NotBelow
  <2>6. CASE s.pm10 \in Int /\ before = AqiFor(s.pm10, Pm10Bands)
    <3> DEFINE bound == AqiFor(t.pm10, Pm10Bands)[1]
    <3>1. lower \in 0..500 /\ bound \in 0..500 /\ lower <= bound
      BY <2>4, <2>6, AqiForMonotone, AqiForFits, Pm10Table
    <3>2. upper \in Int /\ upper >= bound
      BY <2>4, <2>6, ShownIndex
    <3> HIDE DEF bound, lower, upper
    <3>3. lower <= upper
      BY <3>1, <3>2
    <3>4. row'.aqi # Missing /\ row'.aqi >= row.aqi
      BY <2>3, <2>4, <3>2, <3>3
    <3> QED BY <3>4 DEF NotBelow
  <2>7. CASE lower = Missing
    BY <2>3, <2>7 DEF NotBelow
  <2> QED BY <2>5, <2>6, <2>7, ShownIndex
<1> QED BY <1>1, AirInvariant, PTL DEF SampleSpec, AqiMonotone

-----------------------------------------------------------------------------
(* The fuzzy engine                                                         *)

\* A trapezoid on each side of its corners.
LEMMA TrapFacts ==
  ASSUME NEW x \in Int, NEW a \in Int, NEW b \in Int, NEW c \in Int, NEW d \in Int,
         a <= b, b <= c, c <= d
  PROVE  /\ b <= x /\ x <= c => Trap(x, a, b, c, d) = One
         /\ x < b /\ a = b => Trap(x, a, b, c, d) = One
         /\ x <= a /\ a < b => Trap(x, a, b, c, d) = 0
         /\ a < x /\ x < b => Trap(x, a, b, c, d) = (One * (x - a)) \div (b - a)
         /\ c < x /\ c = d => Trap(x, a, b, c, d) = One
         /\ d <= x /\ c < d => Trap(x, a, b, c, d) = 0
         /\ c < x /\ x < d => Trap(x, a, b, c, d) = (One * (d - x)) \div (d - c)
<1> DEFINE up == (One * (x - a)) \div (b - a)
           down == (One * (d - x)) \div (d - c)
<1>1. Trap(x, a, b, c, d) =
  CASE b <= x /\ x <= c         -> One
    [] x < b /\ a = b           -> One
    [] x < b /\ a # b /\ x <= a -> 0
    [] x < b /\ a # b /\ x > a  -> up
    [] x > c /\ c = d           -> One
    [] x > c /\ c # d /\ x >= d -> 0
    [] x > c /\ c # d /\ x < d  -> down
  BY DEF Trap
<1> HIDE DEF up, down
<1>2. b <= x /\ x <= c => Trap(x, a, b, c, d) = One
  BY <1>1
<1>3. x < b => Trap(x, a, b, c, d) = IF a = b THEN One ELSE IF x <= a THEN 0 ELSE up
  BY <1>1
<1>4. c < x => Trap(x, a, b, c, d) = IF c = d THEN One ELSE IF x >= d THEN 0 ELSE down
  BY <1>1
<1> QED BY <1>2, <1>3, <1>4 DEF up, down

\* Neighbouring trapezoids meet: the memberships of a variable add up to One.
LEMMA TempPartition ==
  ASSUME NEW temp \in Int
  PROVE  LET t == TempTerms(temp)
         IN  /\ t.low \in 0..One /\ t.medium \in 0..One /\ t.high \in 0..One
             /\ t.low + t.medium + t.high = One
<1> DEFINE x == Clamp(temp, 0, 50)
<1>1. x \in 0..50
  <2>1. x = IF temp < 0 THEN 0 ELSE IF temp > 50 THEN 50 ELSE temp
    BY ClampFacts
  <2> QED BY <2>1
<1>2. TempTerms(temp) = [low    |-> Trap(x, 0, 0, 15, 35),
                         medium |-> Trap(x, 15, 35, 40, 50),
                         high   |-> Trap(x, 40, 50, 50, 50)]
  BY DEF TempTerms
<1> HIDE DEF x
<1>3. Trap(x, 0, 0, 15, 35) = IF x <= 15 THEN One
                              ELSE IF x >= 35 THEN 0 ELSE (One * (35 - x)) \div (35 - 15)
  BY <1>1, TrapFacts
<1>4. Trap(x, 15, 35, 40, 50) = IF x <= 15 \/ x >= 50 THEN 0
                                ELSE IF x < 35 THEN (One * (x - 15)) \div (35 - 15)
                                ELSE IF x <= 40 THEN One ELSE (One * (50 - x)) \div (50 - 40)
  BY <1>1, TrapFacts
<1>5. Trap(x, 40, 50, 50, 50) = IF x <= 40 THEN 0
                                ELSE IF x >= 50 THEN One ELSE (One * (x - 40)) \div (50 - 40)
  BY <1>1, TrapFacts
<1>6. CASE x <= 15
  BY <1>1, <1>2, <1>3, <1>4, <1>5, <1>6 DEF One
<1>7. CASE 15 < x /\ x < 35
  BY <1>1, <1>2, <1>3, <1>4, <1>5, <1>7 DEF One
<1>8. CASE 35 <= x /\ x <= 40
  BY <1>1, <1>2, <1>3, <1>4, <1>5, <1>8 DEF One
<1>9. CASE 40 < x /\ x < 50
  BY <1>1, <1>2, <1>3, <1>4, <1>5, <1>9 DEF One
<1>10. CASE 50 <= x
  BY <1>1, <1>2, <1>3, <1>4, <1>5, <1>10 DEF One
<1> QED BY <1>1, <1>6, <1>7, <1>8, <1>9, <1>10

LEMMA HumPartition ==
  ASSUME NEW hum \in Int
  PROVE  LET h == HumTerms(hum)
         IN  /\ h.dry \in 0..One /\ h.humid \in 0..One /\ h.wet \in 0..One
             /\ h.dry + h.humid + h.wet = One
<1> DEFINE x == Clamp(hum, 0, 100)
<1>1. x \in 0..100
  <2>1. x = IF hum < 0 THEN 0 ELSE IF hum > 100 THEN 100 ELSE hum
    BY ClampFacts
  <2> QED BY <2>1
<1>2. HumTerms(hum) = [dry   |-> Trap(x, 0, 0, 30, 70),
                       humid |-> Trap(x, 30, 70, 80, 100),
                       wet   |-> Trap(x, 80, 100, 100, 100)]
  BY DEF HumTerms
<1> HIDE DEF x
<1>3. Trap(x, 0, 0, 30, 70) = IF x <= 30 THEN One
                              ELSE IF x >= 70 THEN 0 ELSE (One * (70 - x)) \div (70 - 30)
  BY <1>1, TrapFacts
<1>4. Trap(x, 30, 70, 80, 100) = IF x <= 30 \/ x >= 100 THEN 0
                                 ELSE IF x < 70 THEN (One * (x - 30)) \div (70 - 30)
                                 ELSE IF x <= 80 THEN One ELSE (One * (100 - x)) \div (100 - 80)
  BY <1>1, TrapFacts
<1>5. Trap(x, 80, 100, 100, 100) = IF x <= 80 THEN 0
                                   ELSE IF x >= 100 THEN One ELSE (One * (x - 80)) \div (100 - 80)
  BY <1>1, TrapFacts
<1>6. CASE x <= 30
  BY <1>1, <1>2, <1>3, <1>4, <1>5, <1>6 DEF One
<1>7. CASE 30 < x /\ x < 70
  BY <1>1, <1>2, <1>3, <1>4, <1>5, <1>7 DEF One
<1>8. CASE 70 <= x /\ x <= 80
  BY <1>1, <1>2, <1>3, <1>4, <1>5, <1>8 DEF One
<1>9. CASE 80 < x /\ x < 100
  BY <1>1, <1>2, <1>3, <1>4, <1>5, <1>9 DEF One
<1>10. CASE 100 <= x
  BY <1>1, <1>2, <1>3, <1>4, <1>5, <1>10 DEF One
<1> QED BY <1>1, <1>6, <1>7, <1>8, <1>9, <1>10

LEMMA PmPartition ==
  ASSUME NEW pm \in Int
  PROVE  LET p == PmTerms(pm)
         IN  /\ p.low \in 0..One /\ p.medium \in 0..One /\ p.high \in 0..One
             /\ p.low + p.medium + p.high = One
<1> DEFINE x == Clamp(pm, 0, 5000)
<1>1. x \in 0..5000
  <2>1. x = IF pm < 0 THEN 0 ELSE IF pm > 5000 THEN 5000 ELSE pm
    BY ClampFacts
  <2> HIDE DEF x
  <2> QED BY <2>1
<1>2. PmTerms(pm) = [low    |-> Trap(x, 0, 0, 500, 1000),
                     medium |-> Trap(x, 500, 1000, 2000, 3000),
                     high   |-> Trap(x, 2000, 3000, 5000, 5000)]
  BY DEF PmTerms
<1> HIDE DEF x
<1>3. Trap(x, 0, 0, 500, 1000) = IF x <= 500 THEN One
                                 ELSE IF x >= 1000 THEN 0 ELSE (One * (1000 - x)) \div (1000 - 500)
  BY <1>1, TrapFacts
<1>4. Trap(x, 500, 1000, 2000, 3000) = IF x <= 500 \/ x >= 3000 THEN 0
                                       ELSE IF x < 1000 THEN (One * (x - 500)) \div (1000 - 500)
                                       ELSE IF x <= 2000 THEN One
                                       ELSE (One * (3000 - x)) \div (3000 - 2000)
  BY <1>1, TrapFacts
<1>5. Trap(x, 2000, 3000, 5000, 5000) = IF x <= 2000 THEN 0
                                        ELSE IF x >= 3000 THEN One
                                        ELSE (One * (x - 2000)) \div (3000 - 2000)
  BY <1>1, TrapFacts
<1>6. CASE x <= 500
  BY <1>1, <1>2, <1>3, <1>4, <1>5, <1>6 DEF One
<1>7. CASE 500 < x /\ x < 1000
  <2>1. /\ (One * (1000 - x)) \div (1000 - 500) = 2 * (1000 - x)
        /\ (One * (x - 500)) \div (1000 - 500) = 2 * (x - 500)
    BY <1>1 DEF One
  <2>2. PmTerms(pm) = [low |-> 2 * (1000 - x), medium |-> 2 * (x - 500), high |-> 0]
    BY <1>1, <1>2, <1>3, <1>4, <1>5, <1>7, <2>1
  <2> QED BY <1>1, <1>7, <2>2 DEF One
<1>8. CASE 1000 <= x /\ x <= 2000
  BY <1>1, <1>2, <1>3, <1>4, <1>5, <1>8 DEF One
<1>9. CASE 2000 < x /\ x < 3000
  <2>1. /\ (One * (3000 - x)) \div (3000 - 2000) = 3000 - x
        /\ (One * (x - 2000)) \div (3000 - 2000) = x - 2000
    BY <1>1 DEF One
  <2>2. PmTerms(pm) = [low |-> 0, medium |-> 3000 - x, high |-> x - 2000]
    BY <1>1, <1>2, <1>3, <1>4, <1>5, <1>9, <2>1
  <2> QED BY <1>1, <1>9, <2>2 DEF One
<1>10. CASE 3000 <= x
  BY <1>1, <1>2, <1>3, <1>4, <1>5, <1>10 DEF One
<1> QED BY <1>1, <1>6, <1>7, <1>8, <1>9, <1>10

\* The strength of a rule is positive if its three memberships are.
LEMMA LeastOfThree ==
  ASSUME NEW a \in 0..One, NEW b \in 0..One, NEW c \in 0..One
  PROVE  /\ Min({a, b, c}) \in 0..One
         /\ a > 0 /\ b > 0 /\ c > 0 => Min({a, b, c}) > 0
         /\ c = 0 => Min({a, b, c}) = 0
<1>1. /\ Min({a, b, c}) \in {a, b, c}
      /\ \A x \in {a, b, c} : Min({a, b, c}) <= x
  <2>1. \E m \in {a, b, c} : \A x \in {a, b, c} : m <= x
    BY DEF One
  <2> QED BY <2>1 DEF Min
<1> DEFINE m == Min({a, b, c})
<1> HIDE DEF m
<1>2. m \in {a, b, c} /\ m <= a /\ m <= b /\ m <= c
  BY <1>1 DEF m
<1>3. /\ m \in 0..One
      /\ a > 0 /\ b > 0 /\ c > 0 => m > 0
      /\ c = 0 => m = 0
  BY <1>2 DEF One
<1> QED BY <1>3 DEF m

\* Of memberships that add up to One, one is positive.
LEMMA OneOfThree ==
  ASSUME NEW a \in 0..One, NEW b \in 0..One, NEW c \in 0..One, a + b + c = One
  PROVE  a > 0 \/ b > 0 \/ c > 0
BY DEF One

\* Every rule has a strength, and for every sample some rule fires.
LEMMA SomeRuleFires ==
  ASSUME NEW temp \in Int, NEW hum \in Int, NEW pm \in Int
  PROVE  LET alpha == Strength(temp, hum, pm)
         IN  alpha \in [Rules -> 0..One] /\ Fired(alpha) # {}
<1> DEFINE mt == TempTerms(temp)
           mh == HumTerms(hum)
           mp == PmTerms(pm)
           alpha == Strength(temp, hum, pm)
<1>1. alpha = [r \in Rules |-> Min({mt[r[1]], mh[r[2]], mp[r[3]]})]
  BY DEF Strength
<1>2. /\ \A x \in {"low", "medium", "high"} : mt[x] \in 0..One /\ mp[x] \in 0..One
      /\ \A x \in {"dry", "humid", "wet"} : mh[x] \in 0..One
  BY TempPartition, HumPartition, PmPartition
<1>3. /\ \E x \in {"low", "medium", "high"} : mt[x] > 0
      /\ \E x \in {"low", "medium", "high"} : mp[x] > 0
      /\ \E x \in {"dry", "humid", "wet"} : mh[x] > 0
  <2>1. /\ mt["low"] + mt["medium"] + mt["high"] = One
        /\ mh["dry"] + mh["humid"] + mh["wet"] = One
        /\ mp["low"] + mp["medium"] + mp["high"] = One
    BY TempPartition, HumPartition, PmPartition
  <2> HIDE DEF mt, mh, mp
  <2>2. mt["low"] > 0 \/ mt["medium"] > 0 \/ mt["high"] > 0
    BY <1>2, <2>1, OneOfThree
  <2>3. mp["low"] > 0 \/ mp["medium"] > 0 \/ mp["high"] > 0
    BY <1>2, <2>1, OneOfThree
  <2>4. mh["dry"] > 0 \/ mh["humid"] > 0 \/ mh["wet"] > 0
    BY <1>2, <2>1, OneOfThree
  <2> QED BY <2>2, <2>3, <2>4
<1> HIDE DEF mt, mh, mp, alpha
<1>4. ASSUME NEW r \in Rules PROVE Min({mt[r[1]], mh[r[2]], mp[r[3]]}) \in 0..One
  <2>1. mt[r[1]] \in 0..One /\ mh[r[2]] \in 0..One /\ mp[r[3]] \in 0..One
    BY <1>2 DEF Rules
  <2> QED BY <2>1, LeastOfThree
<1>5. alpha \in [Rules -> 0..One]
  BY <1>1, <1>4
<1>6. PICK t \in {"low", "medium", "high"}, h \in {"dry", "humid", "wet"},
           p \in {"low", "medium", "high"} : mt[t] > 0 /\ mh[h] > 0 /\ mp[p] > 0
  BY <1>3
<1>7. <<t, h, p>> \in Rules /\ alpha[<<t, h, p>>] = Min({mt[t], mh[h], mp[p]})
  BY <1>1 DEF Rules
<1>8. Min({mt[t], mh[h], mp[p]}) > 0
  BY <1>2, <1>6, LeastOfThree
<1>9. <<t, h, p>> \in Fired(alpha)
  BY <1>7, <1>8 DEF Fired
<1> QED BY <1>5, <1>9 DEF alpha

\* The sum over the rules, row by row of the table.
RuleRow(v, t, h) == v[<<t, h, "low">>] + v[<<t, h, "medium">>] + v[<<t, h, "high">>]
RuleBlock(v, t) == RuleRow(v, t, "dry") + RuleRow(v, t, "humid") + RuleRow(v, t, "wet")

TempLevels == {"low", "medium", "high"}
HumLevels == {"dry", "humid", "wet"}

\* The sum is that of the blocks of the three temperature terms.
LEMMA OverRulesByBlock ==
  ASSUME NEW v
  PROVE  OverRules(v) = RuleBlock(v, "low") + RuleBlock(v, "medium") + RuleBlock(v, "high")
BY DEF OverRules, RuleBlock, RuleRow

\* Sums of numbers are numbers.
LEMMA RowTyped ==
  ASSUME NEW v \in [Rules -> Int], NEW t \in TempLevels, NEW h \in HumLevels
  PROVE  /\ v[<<t, h, "low">>] \in Int /\ v[<<t, h, "medium">>] \in Int
         /\ v[<<t, h, "high">>] \in Int /\ RuleRow(v, t, h) \in Int
<1>1. <<t, h, "low">> \in Rules /\ <<t, h, "medium">> \in Rules /\ <<t, h, "high">> \in Rules
  BY DEF Rules, TempLevels, HumLevels
<1>2. /\ v[<<t, h, "low">>] \in Int /\ v[<<t, h, "medium">>] \in Int
      /\ v[<<t, h, "high">>] \in Int
  BY <1>1
<1> QED BY <1>2 DEF RuleRow

LEMMA BlockTyped ==
  ASSUME NEW v \in [Rules -> Int], NEW t \in TempLevels
  PROVE  RuleBlock(v, t) \in Int
<1>1. \A h \in {"dry", "humid", "wet"} : RuleRow(v, t, h) \in Int
  BY RowTyped DEF HumLevels
<1> QED BY <1>1 DEF RuleBlock

LEMMA SumTyped ==
  ASSUME NEW v \in [Rules -> Int]
  PROVE  OverRules(v) \in Int
<1>1. \A t \in {"low", "medium", "high"} : RuleBlock(v, t) \in Int
  BY BlockTyped DEF TempLevels
<1> QED BY <1>1, OverRulesByBlock

\* Sums compare as their rows do.
LEMMA SumCompares ==
  ASSUME NEW v \in [Rules -> Int], NEW w \in [Rules -> Int],
         \A t \in TempLevels : \A h \in HumLevels : RuleRow(v, t, h) <= RuleRow(w, t, h)
  PROVE  OverRules(v) <= OverRules(w)
<1>1. ASSUME NEW t \in TempLevels PROVE RuleBlock(v, t) <= RuleBlock(w, t)
  <2>1. /\ RuleRow(v, t, "dry") <= RuleRow(w, t, "dry")
        /\ RuleRow(v, t, "humid") <= RuleRow(w, t, "humid")
        /\ RuleRow(v, t, "wet") <= RuleRow(w, t, "wet")
    BY DEF HumLevels
  <2>2. /\ RuleRow(v, t, "dry") \in Int /\ RuleRow(w, t, "dry") \in Int
        /\ RuleRow(v, t, "humid") \in Int /\ RuleRow(w, t, "humid") \in Int
        /\ RuleRow(v, t, "wet") \in Int /\ RuleRow(w, t, "wet") \in Int
    BY RowTyped DEF HumLevels
  <2> QED BY <2>1, <2>2 DEF RuleBlock
<1>2. /\ RuleBlock(v, "low") \in Int /\ RuleBlock(w, "low") \in Int
      /\ RuleBlock(v, "medium") \in Int /\ RuleBlock(w, "medium") \in Int
      /\ RuleBlock(v, "high") \in Int /\ RuleBlock(w, "high") \in Int
  BY BlockTyped DEF TempLevels
<1>3. /\ RuleBlock(v, "low") <= RuleBlock(w, "low")
      /\ RuleBlock(v, "medium") <= RuleBlock(w, "medium")
      /\ RuleBlock(v, "high") <= RuleBlock(w, "high")
  BY <1>1 DEF TempLevels
<1> QED BY <1>2, <1>3, OverRulesByBlock

\* The upper end of what a rule infers.
Scale == 100 * One

Scaled(v, w) == \A r \in Rules : w[r] = Scale * v[r]

\* Scaling every rule scales the sum.
LEMMA SumScales ==
  ASSUME NEW v \in [Rules -> Int], NEW w \in [Rules -> Int], Scaled(v, w)
  PROVE  OverRules(w) = Scale * OverRules(v)
<1>1. ASSUME NEW t \in TempLevels, NEW h \in HumLevels
      PROVE  RuleRow(w, t, h) = Scale * RuleRow(v, t, h)
  <2>1. <<t, h, "low">> \in Rules /\ <<t, h, "medium">> \in Rules /\ <<t, h, "high">> \in Rules
    BY DEF Rules, TempLevels, HumLevels
  <2>2. /\ w[<<t, h, "low">>] = Scale * v[<<t, h, "low">>]
        /\ w[<<t, h, "medium">>] = Scale * v[<<t, h, "medium">>]
        /\ w[<<t, h, "high">>] = Scale * v[<<t, h, "high">>]
    BY <2>1 DEF Scaled
  <2>3. /\ v[<<t, h, "low">>] \in Int /\ v[<<t, h, "medium">>] \in Int
        /\ v[<<t, h, "high">>] \in Int
    BY <2>1
  <2> QED BY <2>2, <2>3 DEF RuleRow, Scale, One
<1>2. ASSUME NEW t \in TempLevels PROVE RuleBlock(w, t) = Scale * RuleBlock(v, t)
  <2>1. /\ RuleRow(w, t, "dry") = Scale * RuleRow(v, t, "dry")
        /\ RuleRow(w, t, "humid") = Scale * RuleRow(v, t, "humid")
        /\ RuleRow(w, t, "wet") = Scale * RuleRow(v, t, "wet")
    BY <1>1 DEF HumLevels
  <2>2. /\ RuleRow(v, t, "dry") \in Int /\ RuleRow(v, t, "humid") \in Int
        /\ RuleRow(v, t, "wet") \in Int
    <3>1. "dry" \in HumLevels /\ "humid" \in HumLevels /\ "wet" \in HumLevels
      BY DEF HumLevels
    <3> QED BY <3>1, RowTyped
  <2> QED BY <2>1, <2>2 DEF RuleBlock, Scale, One
<1>3. /\ RuleBlock(w, "low") = Scale * RuleBlock(v, "low")
      /\ RuleBlock(w, "medium") = Scale * RuleBlock(v, "medium")
      /\ RuleBlock(w, "high") = Scale * RuleBlock(v, "high")
  BY <1>2 DEF TempLevels
<1>4. /\ RuleBlock(v, "low") \in Int /\ RuleBlock(v, "medium") \in Int
      /\ RuleBlock(v, "high") \in Int
  BY BlockTyped DEF TempLevels
<1> QED BY <1>3, <1>4, OverRulesByBlock DEF Scale, One

\* No rule outweighs the sum.
LEMMA SumCovers ==
  ASSUME NEW w \in [Rules -> Nat], NEW r \in Rules
  PROVE  w[r] <= OverRules(w)
<1>1. PICK t \in TempLevels, h \in HumLevels, p \in {"low", "medium", "high"} : r = <<t, h, p>>
  BY DEF Rules, TempLevels, HumLevels
<1>2. ASSUME NEW u \in TempLevels, NEW g \in HumLevels
      PROVE  /\ RuleRow(w, u, g) \in Nat
             /\ \A q \in {"low", "medium", "high"} : w[<<u, g, q>>] <= RuleRow(w, u, g)
  <2>1. \A q \in {"low", "medium", "high"} : w[<<u, g, q>>] \in Nat
    BY DEF Rules, TempLevels, HumLevels
  <2> QED BY <2>1 DEF RuleRow
<1>3. ASSUME NEW u \in TempLevels
      PROVE  /\ RuleBlock(w, u) \in Nat
             /\ \A g \in HumLevels : RuleRow(w, u, g) <= RuleBlock(w, u)
  <2>1. \A g \in {"dry", "humid", "wet"} : RuleRow(w, u, g) \in Nat
    BY <1>2 DEF HumLevels
  <2> QED BY <2>1 DEF RuleBlock, HumLevels
<1>4. \A u \in {"low", "medium", "high"} : RuleBlock(w, u) \in Nat
  BY <1>3 DEF TempLevels
<1>5. OverRules(w) \in Nat /\ \A u \in TempLevels : RuleBlock(w, u) <= OverRules(w)
  BY <1>4, OverRulesByBlock DEF TempLevels
<1>6. /\ w[<<t, h, p>>] <= RuleRow(w, t, h) /\ RuleRow(w, t, h) <= RuleBlock(w, t)
      /\ RuleBlock(w, t) <= OverRules(w)
      /\ w[<<t, h, p>>] \in Nat /\ RuleRow(w, t, h) \in Nat /\ RuleBlock(w, t) \in Nat
  BY <1>1, <1>2, <1>3, <1>5
<1> DEFINE a == w[<<t, h, p>>]
           b == RuleRow(w, t, h)
           c == RuleBlock(w, t)
           d == OverRules(w)
<1>7. a <= b /\ b <= c /\ c <= d /\ a \in Nat /\ b \in Nat /\ c \in Nat /\ d \in Nat
  BY <1>5, <1>6
<1> HIDE DEF a, b, c, d
<1>8. a <= d
  BY <1>7
<1> QED BY <1>1, <1>8 DEF a, d

\* The five ramps.
LEMMA ConsequentFacts ==
  ASSUME NEW t \in TempLevels, NEW h \in HumLevels, NEW p \in {"low", "medium", "high"}
  PROVE  Consequent(t, h, p) \in {Good, Moderate, USG, Unhealthy, VeryUnhealthy}
BY DEF Consequent

\* What a rule of strength a infers.
LEMMA InverseValues ==
  ASSUME NEW a \in 0..One
  PROVE  /\ Inverse_(a, Good) = 40 * a /\ Inverse_(a, Moderate) = 30000 + 30 * a
         /\ Inverse_(a, USG) = 50000 + 25 * a /\ Inverse_(a, Unhealthy) = 65000 + 25 * a
         /\ Inverse_(a, VeryUnhealthy) = 85000 + 15 * a
BY DEF Inverse_, One, Good, Moderate, USG, Unhealthy, VeryUnhealthy

\* It is on the scale of the score.
LEMMA InverseBounds ==
  ASSUME NEW a \in 0..One, NEW t \in TempLevels, NEW h \in HumLevels,
         NEW p \in {"low", "medium", "high"}
  PROVE  Inverse_(a, Consequent(t, h, p)) \in 0..Scale
<1> DEFINE z == Inverse_(a, Consequent(t, h, p))
<1>1. /\ Inverse_(a, Good) = 40 * a /\ Inverse_(a, Moderate) = 30000 + 30 * a
      /\ Inverse_(a, USG) = 50000 + 25 * a /\ Inverse_(a, Unhealthy) = 65000 + 25 * a
      /\ Inverse_(a, VeryUnhealthy) = 85000 + 15 * a
  BY InverseValues
<1>2. a \in Int /\ 0 <= a /\ a <= 1000
  BY DEF One
<1>3. Consequent(t, h, p) \in {Good, Moderate, USG, Unhealthy, VeryUnhealthy}
  BY ConsequentFacts
<1>4. \/ z = 40 * a \/ z = 30000 + 30 * a \/ z = 50000 + 25 * a
      \/ z = 65000 + 25 * a \/ z = 85000 + 15 * a
  BY <1>1, <1>3
<1> HIDE DEF z
<1>5. z \in Int /\ 0 <= z /\ z <= 100 * 1000
  BY <1>2, <1>4, SMT
<1>6. z <= Scale /\ Scale \in Int
  BY <1>5, SMT DEF Scale, One
<1>7. z \in 0..Scale
  BY <1>5, <1>6, SMT
<1> QED BY <1>7 DEF z

\* A worse pollution level never infers less, whatever the weather.
LEMMA ConsequentWorsens ==
  ASSUME NEW a \in 0..One, NEW t \in TempLevels, NEW h \in HumLevels
  PROVE  /\ Inverse_(a, Consequent(t, h, "low")) <= Inverse_(a, Consequent(t, h, "medium"))
         /\ Inverse_(a, Consequent(t, h, "medium")) <= Inverse_(a, Consequent(t, h, "high"))
<1> DEFINE bad == h = "dry" \/ t = "high"
<1>1. Consequent(t, h, "low") = IF bad THEN Moderate ELSE Good
  BY DEF Consequent
<1>2. Consequent(t, h, "medium") = IF bad THEN USG ELSE Moderate
  BY DEF Consequent
<1>3. Consequent(t, h, "high") = IF h = "dry" /\ t = "high" THEN VeryUnhealthy ELSE Unhealthy
  BY DEF Consequent
<1>4. /\ Inverse_(a, Good) = 40 * a /\ Inverse_(a, Moderate) = 30000 + 30 * a
      /\ Inverse_(a, USG) = 50000 + 25 * a /\ Inverse_(a, Unhealthy) = 65000 + 25 * a
      /\ Inverse_(a, VeryUnhealthy) = 85000 + 15 * a
  BY InverseValues
<1>0. a \in Int /\ 0 <= a /\ a <= 1000
  BY DEF One
<1> HIDE DEF bad
<1>5. Inverse_(a, Consequent(t, h, "low")) <= Inverse_(a, Consequent(t, h, "medium"))
  BY <1>0, <1>1, <1>2, <1>4
<1>6. Inverse_(a, Consequent(t, h, "medium")) <= Inverse_(a, Consequent(t, h, "high"))
  BY <1>0, <1>2, <1>3, <1>4
<1> QED BY <1>5, <1>6

Moments(alpha) ==
  [r \in Rules |-> alpha[r] * Inverse_(alpha[r], Consequent(r[1], r[2], r[3]))]

\* What a rule adds to the average is at most its strength times the scale.
LEMMA MomentFacts ==
  ASSUME NEW alpha \in [Rules -> 0..One]
  PROVE  /\ Moments(alpha) \in [Rules -> Nat]
         /\ \A r \in Rules : Moments(alpha)[r] <= Scale * alpha[r]
<1> SUFFICES ASSUME NEW r \in Rules
             PROVE  /\ Moments(alpha)[r] \in Nat
                    /\ Moments(alpha)[r] <= Scale * alpha[r]
  BY DEF Moments
<1> DEFINE a == alpha[r]
           z == Inverse_(a, Consequent(r[1], r[2], r[3]))
<1>1. a \in 0..One /\ a \in Nat
  BY DEF One
<1>2. r[1] \in TempLevels /\ r[2] \in HumLevels /\ r[3] \in {"low", "medium", "high"}
  BY DEF Rules, TempLevels, HumLevels
<1>3. z \in 0..Scale
  BY <1>1, <1>2, InverseBounds
<1>4. Moments(alpha)[r] = a * z
  BY DEF Moments
<1> HIDE DEF a, z
<1>5. a * 0 <= a * z /\ a * z <= a * Scale /\ a * z \in Int
  <2>0. Scale \in Int
    BY DEF Scale, One
  <2>1. z \in Int /\ 0 <= z /\ z <= Scale /\ Scale \in Int
    BY <1>3, <2>0
  <2>2. a * 0 <= a * z /\ a * z \in Int
    BY <1>1, <2>1, TimesMonotone
  <2>3. a * z <= a * Scale
    BY <1>1, <2>1, TimesMonotone
  <2> QED BY <2>2, <2>3
<1>6. a * z \in Nat /\ a * z <= Scale * a
  <2> DEFINE y == a * z
  <2>1. y \in Int /\ 0 <= y /\ y <= Scale * a
    <3>1. a * Scale = Scale * a /\ a * 0 = 0
      BY <1>1 DEF Scale, One
    <3> QED BY <1>5, <3>1
  <2> HIDE DEF y
  <2>2. y \in Nat
    BY <2>1
  <2> QED BY <2>1, <2>2 DEF y
<1> QED BY <1>4, <1>6 DEF a

\* The average of weights m over strengths n, rounded to a hundredth of a point.
Rounded(m, n) == (m + 5 * n) \div (10 * n)

OnScale(m, n) == m <= Scale * n

ScoreRange == 0..10000

\* Dividing by the sum of the strengths stays on the scale.
LEMMA RoundedInRange ==
  ASSUME NEW m \in Nat, NEW n \in Nat \ {0}, OnScale(m, n)
  PROVE  Rounded(m, n) \in ScoreRange
<1> DEFINE q == (m + 5 * n) \div (10 * n)
<1>1. m <= 100000 * n
  BY DEF OnScale, Scale, One
<1>2. q \in ScoreRange
  BY <1>1 DEF ScoreRange
<1>3. Rounded(m, n) = q
  BY DEF Rounded
<1> HIDE DEF q
<1> QED BY <1>2, <1>3

\* Rounding keeps the order of two sums of the same strengths.
LEMMA RoundedMonotone ==
  ASSUME NEW l \in Nat, NEW m \in Nat, NEW n \in Nat \ {0}, l <= m
  PROVE  Rounded(l, n) <= Rounded(m, n)
<1> DEFINE a == l + 5 * n
           b == m + 5 * n
           k == 10 * n
<1>1. a \in Int /\ b \in Int /\ k \in Nat \ {0} /\ a <= b
  OBVIOUS
<1> HIDE DEF a, b, k
<1>2. a \div k <= b \div k
  BY <1>1, DivMonotone
<1> QED BY <1>2 DEF a, b, k, Rounded

\* Memberships are numbers.
LEMMA MembershipsTyped ==
  ASSUME NEW alpha \in [Rules -> 0..One]
  PROVE  alpha \in [Rules -> Nat] /\ alpha \in [Rules -> Int]
<1>1. \A r \in Rules : alpha[r] \in 0..One
  OBVIOUS
<1>2. \A r \in Rules : alpha[r] \in Nat
  BY <1>1 DEF One
<1> QED BY <1>2

\* The two sums of the average, when some rule fires.
LEMMA AverageParts ==
  ASSUME NEW alpha \in [Rules -> 0..One], Fired(alpha) # {}
  PROVE  LET m == OverRules(Moments(alpha))
             n == OverRules(alpha)
         IN  /\ m \in Nat /\ n \in Nat \ {0} /\ OnScale(m, n)
             /\ WeightedAverage(alpha) = Rounded(m, n)
<1> DEFINE v == Moments(alpha)
           m == OverRules(v)
           n == OverRules(alpha)
<1>1. /\ v \in [Rules -> Nat] /\ \A r \in Rules : v[r] <= Scale * alpha[r]
  BY MomentFacts
<1>2. alpha \in [Rules -> Nat] /\ alpha \in [Rules -> Int] /\ v \in [Rules -> Int]
  <2> HIDE DEF v
  <2> QED BY <1>1, MembershipsTyped
<1>3. WeightedAverage(alpha) = IF n = 0 THEN 2000 ELSE Rounded(m, n)
  BY DEF WeightedAverage, Moments, Rounded
<1> HIDE DEF v
<1>4. n \in Int /\ m \in Int
  BY <1>2, SumTyped
<1>5. PICK r \in Rules : alpha[r] > 0
  BY DEF Fired
<1>6. alpha[r] <= n /\ alpha[r] \in Nat /\ v[r] <= m /\ v[r] \in Nat
  BY <1>1, <1>2, SumCovers
<1>7. m <= Scale * n
  <2> DEFINE w == [k \in Rules |-> Scale * alpha[k]]
  <2>1. w \in [Rules -> Int] /\ Scaled(alpha, w)
    BY <1>2 DEF Scaled, Scale, One
  <2> HIDE DEF w
  <2>2. OverRules(w) = Scale * n
    BY <1>2, <2>1, SumScales
  <2>3. ASSUME NEW t \in TempLevels, NEW h \in HumLevels
        PROVE  RuleRow(v, t, h) <= RuleRow(w, t, h)
    <3>1. /\ <<t, h, "low">> \in Rules /\ <<t, h, "medium">> \in Rules
          /\ <<t, h, "high">> \in Rules
      BY DEF Rules, TempLevels, HumLevels
    <3>2. /\ v[<<t, h, "low">>] <= w[<<t, h, "low">>]
          /\ v[<<t, h, "medium">>] <= w[<<t, h, "medium">>]
          /\ v[<<t, h, "high">>] <= w[<<t, h, "high">>]
      BY <1>1, <2>1, <3>1 DEF Scaled
    <3>3. /\ v[<<t, h, "low">>] \in Int /\ w[<<t, h, "low">>] \in Int
          /\ v[<<t, h, "medium">>] \in Int /\ w[<<t, h, "medium">>] \in Int
          /\ v[<<t, h, "high">>] \in Int /\ w[<<t, h, "high">>] \in Int
      BY <1>2, <2>1, <3>1
    <3> QED BY <3>2, <3>3 DEF RuleRow
  <2>4. m <= OverRules(w)
    BY <1>2, <2>1, <2>3, SumCompares
  <2> QED BY <2>2, <2>4
<1> HIDE DEF m, n
<1>8. m \in Nat /\ n \in Nat \ {0}
  BY <1>4, <1>5, <1>6
<1> QED BY <1>3, <1>7, <1>8 DEF m, n, v, OnScale

\* The score of a sample is on the scale.
LEMMA ScoreInRange ==
  ASSUME NEW alpha \in [Rules -> 0..One], Fired(alpha) # {}
  PROVE  WeightedAverage(alpha) \in ScoreRange /\ WeightedAverage(alpha) \in Int
<1> DEFINE m == OverRules(Moments(alpha))
           n == OverRules(alpha)
<1>1. /\ m \in Nat /\ n \in Nat \ {0} /\ OnScale(m, n)
      /\ WeightedAverage(alpha) = Rounded(m, n)
  BY AverageParts
<1>2. Rounded(m, n) \in ScoreRange
  BY <1>1, RoundedInRange
<1>3. ScoreRange \subseteq Int
  BY DEF ScoreRange
<1> QED BY <1>1, <1>2, <1>3

\* Whatever samples the node sends, the terms of each variable add up to one,
\* some rule fires and the score is in 0..100.
THEOREM EverySampleIsScored == SampleSpec => []EverySampleScored
<1>1. AirInv => EverySampleScored
  <2> SUFFICES ASSUME AirInv PROVE EverySampleScored
    OBVIOUS
  <2> DEFINE temp  == Default(sample.temp, 25)
             hum   == Default(sample.hum, 0)
             pm    == Default(sample.pm25, 0)
             alpha == Strength(temp, hum, pm)
  <2>1. temp \in Int /\ hum \in Int /\ pm \in Int
    BY SampleFacts DEF AirInv, Default
  <2>2. row.fuzzy_score = WeightedAverage(alpha)
    BY DEF AirInv, BuildReading, Infer
  <2> HIDE DEF temp, hum, pm
  <2>3. /\ TempTerms(temp).low + TempTerms(temp).medium + TempTerms(temp).high = One
        /\ HumTerms(hum).dry + HumTerms(hum).humid + HumTerms(hum).wet = One
        /\ PmTerms(pm).low + PmTerms(pm).medium + PmTerms(pm).high = One
    BY <2>1, TempPartition, HumPartition, PmPartition
  <2>4. alpha \in [Rules -> 0..One] /\ Fired(alpha) # {}
    BY <2>1, SomeRuleFires
  <2> HIDE DEF alpha
  <2>5. row.fuzzy_score \in ScoreRange
    BY <2>2, <2>4, ScoreInRange
  <2> QED BY <2>3, <2>4, <2>5 DEF EverySampleScored, ScoreRange, temp, hum, pm, alpha
<1> QED BY <1>1, AirInvariant, PTL

\* The one pollution level of a landmark.
LevelOf(pm) == IF pm <= 500 THEN "low" ELSE IF pm <= 2000 THEN "medium" ELSE "high"

\* That level holds fully and the other two not at all.
LEMMA LandmarkTerms ==
  ASSUME NEW pm \in Landmarks, NEW p \in {"low", "medium", "high"}
  PROVE  PmTerms(pm)[p] = IF p = LevelOf(pm) THEN One ELSE 0
<1>1. pm \in Int /\ pm \in {100, 500, 1000, 2000, 3000, 5000}
  BY DEF Landmarks
<1>2. Clamp(pm, 0, 5000) = pm
  <2>1. Clamp(pm, 0, 5000) = IF pm < 0 THEN 0 ELSE IF pm > 5000 THEN 5000 ELSE pm
    BY <1>1, ClampFacts
  <2> QED BY <1>1, <2>1
<1>3. PmTerms(pm) = [low    |-> Trap(pm, 0, 0, 500, 1000),
                     medium |-> Trap(pm, 500, 1000, 2000, 3000),
                     high   |-> Trap(pm, 2000, 3000, 5000, 5000)]
  BY <1>2 DEF PmTerms
<1>4. /\ Trap(pm, 0, 0, 500, 1000) = IF pm <= 500 THEN One ELSE 0
      /\ Trap(pm, 500, 1000, 2000, 3000) = IF pm \in {1000, 2000} THEN One ELSE 0
      /\ Trap(pm, 2000, 3000, 5000, 5000) = IF pm >= 3000 THEN One ELSE 0
  <2>1. Trap(pm, 0, 0, 500, 1000) = IF pm <= 500 THEN One ELSE 0
    BY <1>1, TrapFacts
  <2>2. Trap(pm, 500, 1000, 2000, 3000) = IF pm \in {1000, 2000} THEN One ELSE 0
    <3>1. Trap(pm, 500, 1000, 2000, 3000)
            = IF pm <= 500 \/ pm >= 3000 THEN 0
              ELSE IF pm < 1000 THEN (One * (pm - 500)) \div (1000 - 500)
              ELSE IF pm <= 2000 THEN One
              ELSE (One * (3000 - pm)) \div (3000 - 2000)
      BY <1>1, TrapFacts
    <3> QED BY <1>1, <3>1
  <2>3. Trap(pm, 2000, 3000, 5000, 5000) = IF pm >= 3000 THEN One ELSE 0
    BY <1>1, TrapFacts
  <2> QED BY <2>1, <2>2, <2>3
<1>5. /\ PmTerms(pm)["low"] = IF pm <= 500 THEN One ELSE 0
      /\ PmTerms(pm)["medium"] = IF pm \in {1000, 2000} THEN One ELSE 0
      /\ PmTerms(pm)["high"] = IF pm >= 3000 THEN One ELSE 0
  BY <1>3, <1>4
<1> QED BY <1>1, <1>5 DEF LevelOf

\* The strength of the rules of a row of the table at a landmark.
Weather(temp, hum, t, h) == Min({TempTerms(temp)[t], HumTerms(hum)[h], One})

\* At a landmark one rule of each row fires, with the strength of the weather.
LEMMA LandmarkRows ==
  ASSUME NEW temp \in Int, NEW hum \in Int, NEW pm \in Landmarks,
         NEW t \in TempLevels, NEW h \in HumLevels
  PROVE  LET alpha == Strength(temp, hum, pm)
             s     == Weather(temp, hum, t, h)
         IN  /\ s \in 0..One
             /\ RuleRow(alpha, t, h) = s
             /\ RuleRow(Moments(alpha), t, h) = s * Inverse_(s, Consequent(t, h, LevelOf(pm)))
<1> DEFINE alpha == Strength(temp, hum, pm)
           s     == Weather(temp, hum, t, h)
           a     == TempTerms(temp)[t]
           b     == HumTerms(hum)[h]
<1>1. a \in 0..One /\ b \in 0..One /\ 0 \in 0..One /\ One \in 0..One
  <2>1. /\ \A x \in {"low", "medium", "high"} : TempTerms(temp)[x] \in 0..One
        /\ \A x \in {"dry", "humid", "wet"} : HumTerms(hum)[x] \in 0..One
    BY TempPartition, HumPartition
  <2>2. a \in 0..One /\ b \in 0..One
    BY <2>1 DEF TempLevels, HumLevels
  <2> HIDE DEF a, b
  <2> QED BY <2>2 DEF One
<1>2. ASSUME NEW p \in {"low", "medium", "high"}
      PROVE  /\ <<t, h, p>> \in Rules
             /\ alpha[<<t, h, p>>] = Min({a, b, PmTerms(pm)[p]})
             /\ Moments(alpha)[<<t, h, p>>]
                  = alpha[<<t, h, p>>] * Inverse_(alpha[<<t, h, p>>], Consequent(t, h, p))
  <2>1. <<t, h, p>> \in Rules
    BY DEF Rules, TempLevels, HumLevels
  <2> QED BY <2>1 DEF Strength, Moments
<1>3. s = Min({a, b, One})
  BY DEF Weather
<1> HIDE DEF alpha, s, a, b
<1>4. s \in 0..One
  BY <1>1, <1>3, LeastOfThree
<1>5. ASSUME NEW p \in {"low", "medium", "high"}
      PROVE  alpha[<<t, h, p>>] = IF p = LevelOf(pm) THEN s ELSE 0
  <2>1. Min({a, b, 0}) = 0
    BY <1>1, LeastOfThree
  <2>2. PmTerms(pm)[p] = IF p = LevelOf(pm) THEN One ELSE 0
    BY LandmarkTerms
  <2> QED BY <1>2, <1>3, <2>1, <2>2
<1> DEFINE z(p) == Inverse_(s, Consequent(t, h, p))
<1>6. ASSUME NEW p \in {"low", "medium", "high"}
      PROVE  Moments(alpha)[<<t, h, p>>] = IF p = LevelOf(pm) THEN s * z(p) ELSE 0
  <2>1. Inverse_(0, Consequent(t, h, p)) \in 0..Scale
    BY <1>1, InverseBounds
  <2> DEFINE y == Inverse_(0, Consequent(t, h, p))
  <2>2. y \in Int
    BY <2>1
  <2>3. CASE p = LevelOf(pm)
    BY <1>2, <1>5, <2>3
  <2>4. CASE p # LevelOf(pm)
    <3>1. Moments(alpha)[<<t, h, p>>] = 0 * y
      BY <1>2, <1>5, <2>4
    <3> HIDE DEF y
    <3> QED BY <2>2, <2>4, <3>1
  <2> QED BY <2>3, <2>4
<1>7. ASSUME NEW p \in {"low", "medium", "high"}
      PROVE  z(p) \in Int /\ s * z(p) \in Int
  <2>1. z(p) \in 0..Scale
    BY <1>4, InverseBounds
  <2> HIDE DEF z
  <2>2. z(p) \in Int /\ s \in Int
    BY <1>4, <2>1
  <2> QED BY <2>2
<1> DEFINE y(p) == s * z(p)
<1>8. ASSUME NEW p \in {"low", "medium", "high"}
      PROVE  Moments(alpha)[<<t, h, p>>] = (IF p = LevelOf(pm) THEN y(p) ELSE 0) /\ y(p) \in Int
  BY <1>6, <1>7
<1>9. LevelOf(pm) \in {"low", "medium", "high"}
  BY DEF LevelOf
<1> HIDE DEF y, z
<1>10. RuleRow(alpha, t, h) = s
  <2>1. s \in Int
    BY <1>4
  <2> QED BY <1>5, <1>9, <2>1 DEF RuleRow
<1>11. RuleRow(Moments(alpha), t, h) = y(LevelOf(pm))
  BY <1>8, <1>9 DEF RuleRow
<1> QED BY <1>4, <1>10, <1>11 DEF alpha, s, y, z

\* A landmark with more pollution is never scored lower.
LEMMA LandmarkScores ==
  ASSUME NEW temp \in Int, NEW hum \in Int, NEW less \in Landmarks, NEW more \in Landmarks,
         less < more
  PROVE  Infer(temp, hum, less) <= Infer(temp, hum, more)
<1> DEFINE alpha == Strength(temp, hum, less)
           beta  == Strength(temp, hum, more)
           l     == OverRules(Moments(alpha))
           m     == OverRules(Moments(beta))
           n     == OverRules(alpha)
<1>1. less \in Int /\ more \in Int
  BY DEF Landmarks
<1>2. /\ alpha \in [Rules -> 0..One] /\ Fired(alpha) # {}
      /\ beta \in [Rules -> 0..One] /\ Fired(beta) # {}
  BY <1>1, SomeRuleFires
<1>3. ASSUME NEW t \in TempLevels, NEW h \in HumLevels
      PROVE  /\ RuleRow(alpha, t, h) = RuleRow(beta, t, h)
             /\ RuleRow(alpha, t, h) \in Int
             /\ RuleRow(Moments(alpha), t, h) <= RuleRow(Moments(beta), t, h)
  <2> DEFINE s == Weather(temp, hum, t, h)
             z(p) == Inverse_(s, Consequent(t, h, p))
             x    == z(LevelOf(less))
             y    == z(LevelOf(more))
  <2>1. /\ s \in 0..One /\ RuleRow(alpha, t, h) = s /\ RuleRow(beta, t, h) = s
        /\ RuleRow(Moments(alpha), t, h) = s * x /\ RuleRow(Moments(beta), t, h) = s * y
    BY LandmarkRows
  <2>2. z("low") <= z("medium") /\ z("medium") <= z("high")
    BY <2>1, ConsequentWorsens
  <2>3. z("low") \in 0..Scale /\ z("medium") \in 0..Scale /\ z("high") \in 0..Scale
    BY <2>1, InverseBounds
  <2> HIDE DEF alpha, beta, s, z
  <2>4. z("low") \in Int /\ z("medium") \in Int /\ z("high") \in Int /\ s \in Nat
    BY <2>1, <2>3 DEF One
  <2>5. \/ LevelOf(less) = LevelOf(more)
        \/ LevelOf(less) = "low" /\ LevelOf(more) = "medium"
        \/ LevelOf(less) = "low" /\ LevelOf(more) = "high"
        \/ LevelOf(less) = "medium" /\ LevelOf(more) = "high"
    BY <1>1 DEF LevelOf
  <2>6. LevelOf(less) \in {"low", "medium", "high"} /\ LevelOf(more) \in {"low", "medium", "high"}
    BY DEF LevelOf
  <2>7. x \in Int /\ y \in Int /\ x <= y
    BY <2>2, <2>4, <2>5, <2>6
  <2> HIDE DEF x, y
  <2>8. s * x <= s * y
    BY <2>4, <2>7, TimesMonotone
  <2> QED BY <2>1, <2>4, <2>8
<1>4. /\ l \in Nat /\ n \in Nat \ {0}
      /\ WeightedAverage(alpha) = Rounded(l, n)
      /\ m \in Nat
      /\ WeightedAverage(beta) = Rounded(m, OverRules(beta))
  <2> HIDE DEF alpha, beta
  <2> QED BY <1>2, AverageParts
<1>5. Infer(temp, hum, less) = WeightedAverage(alpha) /\ Infer(temp, hum, more) = WeightedAverage(beta)
  BY DEF Infer
<1> HIDE DEF alpha, beta
<1>6. alpha \in [Rules -> Int] /\ beta \in [Rules -> Int]
  BY <1>2, MembershipsTyped
<1>7. Moments(alpha) \in [Rules -> Int] /\ Moments(beta) \in [Rules -> Int]
  <2>1. Moments(alpha) \in [Rules -> Nat] /\ Moments(beta) \in [Rules -> Nat]
    BY <1>2, MomentFacts
  <2> QED BY <2>1
<1>8. l <= m
  BY <1>3, <1>7, SumCompares
<1>9. OverRules(beta) = n
  <2>1. ASSUME NEW t \in TempLevels, NEW h \in HumLevels
        PROVE  RuleRow(alpha, t, h) <= RuleRow(beta, t, h) /\ RuleRow(beta, t, h) <= RuleRow(alpha, t, h)
    BY <1>3
  <2>2. OverRules(alpha) <= OverRules(beta) /\ OverRules(beta) <= OverRules(alpha)
    BY <1>6, <2>1, SumCompares
  <2>3. OverRules(alpha) \in Int /\ OverRules(beta) \in Int
    BY <1>6, SumTyped
  <2> QED BY <2>2, <2>3
<1> HIDE DEF l, m, n
<1>10. Rounded(l, n) <= Rounded(m, n)
  BY <1>4, <1>8, RoundedMonotone
<1> QED BY <1>4, <1>5, <1>9, <1>10

\* Of two consecutive samples of one weather whose PM2.5 levels are landmarks,
\* the dirtier one is never scored lower.
THEOREM PollutionNeverLowersScore == SampleSpec => PollutionRaisesScore
<1>1. AirInv /\ AirInv' /\ [NextSample]_air
      => [ MorePm25 /\ {sample.pm25, sample'.pm25} \subseteq Landmarks
           => row'.fuzzy_score >= row.fuzzy_score ]_air
  <2> SUFFICES ASSUME AirInv, AirInv', MorePm25, {sample.pm25, sample'.pm25} \subseteq Landmarks
               PROVE  row'.fuzzy_score >= row.fuzzy_score
    OBVIOUS
  <2>1. PICK s \in Sample : s = sample
    BY DEF AirInv
  <2>2. PICK t \in Sample : t = sample'
    BY DEF AirInv
  <2> DEFINE temp == Default(s.temp, 25)
             hum  == Default(s.hum, 0)
  <2>3. /\ s.pm25 \in Landmarks /\ t.pm25 \in Landmarks /\ s.pm25 < t.pm25
        /\ t.temp = s.temp /\ t.hum = s.hum
        /\ s.pm25 # Missing /\ t.pm25 # Missing
    <3>1. /\ s.pm25 \in Landmarks /\ t.pm25 \in Landmarks /\ t.pm25 > s.pm25
          /\ t.temp = s.temp /\ t.hum = s.hum
          /\ s.pm25 # Missing /\ t.pm25 # Missing
      BY <2>1, <2>2 DEF MorePm25
    <3>2. s.pm25 \in Int /\ t.pm25 \in Int
      BY <3>1 DEF Landmarks
    <3> QED BY <3>1, <3>2
  <2>4. /\ row.fuzzy_score = Infer(temp, hum, s.pm25)
        /\ row'.fuzzy_score = Infer(temp, hum, t.pm25)
    BY <2>1, <2>2, <2>3 DEF AirInv, BuildReading, Default
  <2>5. temp \in Int /\ hum \in Int
    BY SampleFacts DEF Default
  <2> HIDE DEF temp, hum
  <2>6. Infer(temp, hum, s.pm25) <= Infer(temp, hum, t.pm25)
    BY <2>3, <2>5, LandmarkScores
  <2>7. ASSUME NEW u \in Landmarks PROVE Infer(temp, hum, u) \in Int
    <3>1. u \in Int
      BY DEF Landmarks
    <3>2. /\ Strength(temp, hum, u) \in [Rules -> 0..One]
          /\ Fired(Strength(temp, hum, u)) # {}
      BY <2>5, <3>1, SomeRuleFires
    <3> QED BY <3>2, ScoreInRange DEF Infer
  <2>8. Infer(temp, hum, s.pm25) \in Int /\ Infer(temp, hum, t.pm25) \in Int
    BY <2>3, <2>7
  <2> QED BY <2>4, <2>6, <2>8
<1> QED BY <1>1, AirInvariant, PTL DEF SampleSpec, PollutionRaisesScore
=============================================================================
