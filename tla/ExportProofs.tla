---------------------------- MODULE ExportProofs ----------------------------
(***************************************************************************)
(* Proofs about Export, for any requests, accounts, rate limit, number of   *)
(* streams and rows.  The waiters of the semaphore are exactly the queued   *)
(* requests and the permits that are out are exactly those of streams and   *)
(* orphans, so every exit of a stream gives back the permit it took.        *)
(***************************************************************************)
EXTENDS Export, FiniteSetTheorems, SequenceTheorems, TLAPS

Elements(q) == {q[i] : i \in DOMAIN q}

\* Requests that wait for a permit, and requests that hold one.
Queued  == {e \in Exports : pc[e] = "queued"}
Holding == {e \in Exports : pc[e] \in {"streaming", "orphan"}}

\* The semaphore's waiters are the queued requests, each once.
WaitersAreQueued == IsInjective(waiting) /\ Elements(waiting) = Queued

\* A permit is free or held by a stream or an orphan, never lost or doubled.
PermitsAccounted == IsFiniteSet(Holding) /\ permits + Cardinality(Holding) = MaxStreams

\* Without a cooldown key the account has used up none of its claim.
ClaimedOnce == \A u \in Users : granted[u] \in {0, 1} /\ (u \notin claimed => granted[u] = 0)

\* A response is undecided until its stream has stopped.
OpenUntilStopped ==
  \A e \in Exports : pc[e] \in {"idle", "cooldown", "queued", "streaming"} => outcome[e] = "open"

ExportInv ==
  /\ TypeOK
  /\ WaitersAreQueued
  /\ PermitsAccounted
  /\ ClaimedOnce
  /\ OpenUntilStopped
  /\ CompleteOrMarked

-----------------------------------------------------------------------------
(* Sequences                                                                *)

\* A request that does not wait yet joins the waiters once.
LEMMA AppendFacts ==
  ASSUME NEW S, NEW q \in Seq(S), NEW m \in S
  PROVE  /\ Append(q, m) \in Seq(S)
         /\ Len(Append(q, m)) = Len(q) + 1
         /\ Elements(Append(q, m)) = Elements(q) \cup {m}
         /\ IsInjective(q) /\ m \notin Elements(q) => IsInjective(Append(q, m))
<1> DEFINE new == Append(q, m)
<1>1. /\ new \in Seq(S) /\ Len(new) = Len(q) + 1
      /\ \A i \in 1..Len(q) : new[i] = q[i]
      /\ new[Len(q) + 1] = m
  BY AppendProperties
<1>2. /\ DOMAIN q = 1..Len(q) /\ Len(q) \in Nat
      /\ DOMAIN new = 1..(Len(q) + 1)
  BY <1>1, LenProperties
<1> HIDE DEF new
<1>3. Elements(new) = Elements(q) \cup {m}
  <2>1. Elements(new) \subseteq Elements(q) \cup {m}
    <3> SUFFICES ASSUME NEW i \in DOMAIN new PROVE new[i] \in Elements(q) \cup {m}
      BY DEF Elements
    <3> QED BY <1>1, <1>2 DEF Elements
  <2>2. Elements(q) \cup {m} \subseteq Elements(new)
    BY <1>1, <1>2 DEF Elements
  <2> QED BY <2>1, <2>2
<1>4. IsInjective(q) /\ m \notin Elements(q) => IsInjective(new)
  BY <1>1, <1>2 DEF IsInjective, Elements
<1> QED BY <1>1, <1>3, <1>4 DEF new

\* The first waiter leaves.
LEMMA TailFacts ==
  ASSUME NEW S, NEW q \in Seq(S), q # <<>>
  PROVE  /\ Head(q) \in S /\ Head(q) \in Elements(q)
         /\ Tail(q) \in Seq(S) /\ Len(Tail(q)) = Len(q) - 1
         /\ Elements(q) = Elements(Tail(q)) \cup {Head(q)}
         /\ IsInjective(q) => IsInjective(Tail(q)) /\ Head(q) \notin Elements(Tail(q))
<1> DEFINE h == Head(q)
           rest == Tail(q)
<1>1. /\ h \in S /\ rest \in Seq(S) /\ Len(rest) = Len(q) - 1
      /\ \A i \in 1..Len(rest) : rest[i] = q[i + 1]
  BY HeadTailProperties
<1>2. /\ DOMAIN q = 1..Len(q) /\ Len(q) \in Nat \ {0}
      /\ DOMAIN rest = 1..(Len(q) - 1)
  BY <1>1, LenProperties, EmptySeq
<1>3. h = q[1]
  OBVIOUS
<1> HIDE DEF h, rest
<1>4. Elements(q) = Elements(rest) \cup {h}
  <2>1. ASSUME NEW i \in DOMAIN q PROVE q[i] \in Elements(rest) \cup {h}
    <3>1. CASE i = 1
      BY <1>3, <3>1
    <3>2. CASE i # 1
      <4>1. i - 1 \in DOMAIN rest /\ rest[i - 1] = q[i]
        BY <1>1, <1>2, <3>2
      <4> QED BY <4>1 DEF Elements
    <3> QED BY <3>1, <3>2
  <2>2. ASSUME NEW i \in DOMAIN rest PROVE rest[i] \in Elements(q)
    BY <1>1, <1>2 DEF Elements
  <2>3. h \in Elements(q)
    BY <1>2, <1>3 DEF Elements
  <2> QED BY <2>1, <2>2, <2>3 DEF Elements
<1>5. ASSUME IsInjective(q) PROVE IsInjective(rest) /\ h \notin Elements(rest)
  <2>1. \A i \in DOMAIN rest : i + 1 \in DOMAIN q /\ i + 1 # 1 /\ rest[i] = q[i + 1]
    BY <1>1, <1>2
  <2>2. 1 \in DOMAIN q
    BY <1>2
  <2>3. \A i \in DOMAIN rest : rest[i] # h
    BY <1>3, <1>5, <2>1, <2>2 DEF IsInjective
  <2>4. \A i, j \in DOMAIN rest : rest[i] = rest[j] => i + 1 = j + 1
    BY <1>5, <2>1 DEF IsInjective
  <2>5. \A i, j \in DOMAIN rest : i + 1 = j + 1 => i = j
    BY <1>2
  <2> QED BY <2>3, <2>4, <2>5 DEF IsInjective, Elements
<1> QED BY <1>1, <1>4, <1>5 DEF h, rest

\* Taking one entry out of a sequence.
LEMMA RemoveAtFacts ==
  ASSUME NEW S, NEW q \in Seq(S), NEW k \in DOMAIN q
  PROVE  /\ RemoveAt(q, k) \in Seq(S)
         /\ Len(RemoveAt(q, k)) = Len(q) - 1
         /\ \A i \in 1..(Len(q) - 1) :
              RemoveAt(q, k)[i] = IF i < k THEN q[i] ELSE q[i + 1]
<1> DEFINE l == SubSeq(q, 1, k - 1)
           r == SubSeq(q, k + 1, Len(q))
<1>1. /\ DOMAIN q = 1..Len(q) /\ Len(q) \in Nat /\ k \in 1..Len(q)
      /\ \A i \in 1..Len(q) : q[i] \in S
  BY LenProperties, ElementOfSeq
<1>2. l \in Seq(S) /\ Len(l) = k - 1 /\ \A i \in 1..(k - 1) : l[i] = q[i]
  <2>1. /\ l \in Seq(S)
        /\ Len(l) = IF 1 <= k - 1 THEN k - 1 - 1 + 1 ELSE 0
        /\ \A i \in 1..(k - 1 - 1 + 1) : l[i] = q[1 + i - 1]
    BY <1>1, SubSeqProperties
  <2> HIDE DEF l
  <2> QED BY <1>1, <2>1
<1>3. r \in Seq(S) /\ Len(r) = Len(q) - k /\ \A i \in 1..(Len(q) - k) : r[i] = q[k + i]
  <2>1. /\ r \in Seq(S)
        /\ Len(r) = IF k + 1 <= Len(q) THEN Len(q) - (k + 1) + 1 ELSE 0
        /\ \A i \in 1..(Len(q) - (k + 1) + 1) : r[i] = q[k + 1 + i - 1]
    BY <1>1, SubSeqProperties
  <2> HIDE DEF r
  <2>2. /\ Len(q) - (k + 1) + 1 = Len(q) - k
        /\ ~(k + 1 <= Len(q)) => Len(q) - k = 0
        /\ \A i \in 1..(Len(q) - k) : k + 1 + i - 1 = k + i
    BY <1>1
  <2> QED BY <2>1, <2>2
<1> HIDE DEF l, r
<1>4. /\ l \o r \in Seq(S) /\ Len(l \o r) = Len(l) + Len(r)
      /\ \A i \in 1..(Len(l) + Len(r)) : (l \o r)[i] = IF i <= Len(l) THEN l[i] ELSE r[i - Len(l)]
  BY <1>2, <1>3, ConcatProperties
<1>5. RemoveAt(q, k) = l \o r
  BY DEF RemoveAt, l, r
<1>6. ASSUME NEW i \in 1..(Len(q) - 1)
      PROVE  (l \o r)[i] = IF i < k THEN q[i] ELSE q[i + 1]
  <2>1. CASE i < k
    BY <1>1, <1>2, <1>3, <1>4, <2>1
  <2>2. CASE i >= k
    <3>1. /\ i - (k - 1) \in 1..(Len(q) - k) /\ k + (i - (k - 1)) = i + 1
          /\ i \in 1..(k - 1 + (Len(q) - k)) /\ ~(i <= k - 1) /\ ~(i < k)
      BY <1>1, <2>2
    <3>2. (l \o r)[i] = r[i - (k - 1)]
      BY <1>2, <1>3, <1>4, <3>1
    <3>3. r[i - (k - 1)] = q[i + 1]
      BY <1>3, <3>1
    <3> QED BY <3>1, <3>2, <3>3
  <2>3. i < k \/ i >= k
    BY <1>1
  <2> QED BY <2>1, <2>2, <2>3
<1>7. (k - 1) + (Len(q) - k) = Len(q) - 1
  BY <1>1
<1>8. Len(l \o r) = Len(q) - 1
  BY <1>2, <1>3, <1>4, <1>7
<1> QED BY <1>4, <1>5, <1>6, <1>8


\* A waiter that gives up leaves the others as they were.
LEMMA LeaveFacts ==
  ASSUME NEW S, NEW q \in Seq(S), IsInjective(q), NEW k \in DOMAIN q
  PROVE  /\ RemoveAt(q, k) \in Seq(S)
         /\ IsInjective(RemoveAt(q, k))
         /\ Elements(RemoveAt(q, k)) = Elements(q) \ {q[k]}
<1> DEFINE rest == RemoveAt(q, k)
           old(i) == IF i < k THEN i ELSE i + 1
           new(i) == IF i < k THEN i ELSE i - 1
<1>1. /\ rest \in Seq(S) /\ Len(rest) = Len(q) - 1
      /\ \A i \in 1..(Len(q) - 1) : rest[i] = IF i < k THEN q[i] ELSE q[i + 1]
  BY RemoveAtFacts
<1> HIDE DEF rest
<1>2. /\ DOMAIN q = 1..Len(q) /\ Len(q) \in Nat /\ k \in 1..Len(q)
      /\ DOMAIN rest = 1..(Len(q) - 1)
  BY <1>1, LenProperties
<1>3. \A i \in DOMAIN rest : old(i) \in DOMAIN q /\ old(i) # k /\ rest[i] = q[old(i)]
  BY <1>1, <1>2
<1>4. \A i, j \in DOMAIN rest : old(i) = old(j) => i = j
  BY <1>2
<1>5. \A i \in DOMAIN q : i # k => new(i) \in DOMAIN rest /\ old(new(i)) = i
  BY <1>2
<1> HIDE DEF old, new
<1>6. IsInjective(rest)
  BY <1>3, <1>4 DEF IsInjective
<1>7. Elements(rest) \subseteq Elements(q) \ {q[k]}
  BY <1>2, <1>3 DEF Elements, IsInjective
<1>8. Elements(q) \ {q[k]} \subseteq Elements(rest)
  <2> SUFFICES ASSUME NEW i \in DOMAIN q, q[i] # q[k] PROVE q[i] \in Elements(rest)
    BY DEF Elements
  <2>1. new(i) \in DOMAIN rest /\ rest[new(i)] = q[i]
    BY <1>3, <1>5
  <2> QED BY <2>1 DEF Elements
<1> QED BY <1>1, <1>6, <1>7, <1>8 DEF rest

-----------------------------------------------------------------------------
(* One request moves                                                        *)

Steps    == {"idle", "cooldown", "queued", "streaming", "orphan", "ended"}
Outcomes == {"open", "refused", "complete", "truncated", "broken", "gone"}

\* A step of request e that leaves it at step x, with outcome o and n rows
\* sent, and respects what the responses promise.
Moves(e, x, o, n) ==
  /\ x \in Steps /\ o \in Outcomes /\ n \in 0..Rows
  /\ x \in {"idle", "cooldown", "queued", "streaming"} => o = "open"
  /\ o = "complete" => n = Rows
  /\ o = "truncated" => n < Rows
  /\ pc' = [pc EXCEPT ![e] = x]
  /\ outcome' = [outcome EXCEPT ![e] = o]
  /\ sent' = [sent EXCEPT ![e] = n]

\* Such a step keeps every response marked as promised.
LEMMA RequestMoves ==
  ASSUME ExportInv, NEW e \in Exports, NEW x, NEW o, NEW n, Moves(e, x, o, n)
  PROVE  /\ pc' \in [Exports -> Steps]
         /\ outcome' \in [Exports -> Outcomes]
         /\ sent' \in [Exports -> 0..Rows]
         /\ OpenUntilStopped' /\ CompleteOrMarked'
         /\ x = "queued" => Queued' = Queued \cup {e}
         /\ x # "queued" => Queued' = Queued \ {e}
         /\ x # "queued" /\ e \notin Queued => Queued' = Queued
         /\ x \in {"streaming", "orphan"} => Holding' = Holding \cup {e}
         /\ x \notin {"streaming", "orphan"} => Holding' = Holding \ {e}
         /\ x \notin {"streaming", "orphan"} /\ e \notin Holding => Holding' = Holding
<1>1. /\ pc \in [Exports -> Steps]
      /\ outcome \in [Exports -> Outcomes]
      /\ sent \in [Exports -> 0..Rows]
      /\ OpenUntilStopped /\ CompleteOrMarked
  BY DEF ExportInv, TypeOK, Steps, Outcomes
<1>2. /\ pc' \in [Exports -> Steps]
      /\ outcome' \in [Exports -> Outcomes]
      /\ sent' \in [Exports -> 0..Rows]
  BY <1>1 DEF Moves
<1>3. \A f \in Exports : /\ pc'[f] = IF f = e THEN x ELSE pc[f]
                         /\ outcome'[f] = IF f = e THEN o ELSE outcome[f]
                         /\ sent'[f] = IF f = e THEN n ELSE sent[f]
  BY <1>1 DEF Moves
<1>4. OpenUntilStopped'
  BY <1>1, <1>3 DEF OpenUntilStopped, Moves
<1>5. CompleteOrMarked'
  BY <1>1, <1>3 DEF CompleteOrMarked, Moves
<1>6. Queued' = IF x = "queued" THEN Queued \cup {e} ELSE Queued \ {e}
  BY <1>3 DEF Queued
<1>7. Holding' = IF x \in {"streaming", "orphan"} THEN Holding \cup {e} ELSE Holding \ {e}
  BY <1>3 DEF Holding
<1>8. /\ e \notin Queued => Queued \ {e} = Queued
      /\ e \notin Holding => Holding \ {e} = Holding
  OBVIOUS
<1> QED BY <1>2, <1>4, <1>5, <1>6, <1>7, <1>8

\* A request that gets a permit holds one more of them.
LEMMA PermitTaken ==
  ASSUME ExportInv, NEW e, e \notin Holding, Holding' = Holding \cup {e},
         permits > 0, permits' = permits - 1
  PROVE  PermitsAccounted' /\ permits' \in 0..MaxStreams
<1>1. /\ IsFiniteSet(Holding) /\ permits + Cardinality(Holding) = MaxStreams
      /\ permits \in 0..MaxStreams /\ MaxStreams \in Nat
  BY ExportConstants DEF ExportInv, TypeOK, PermitsAccounted
<1>2. /\ IsFiniteSet(Holding') /\ Cardinality(Holding') = Cardinality(Holding) + 1
      /\ Cardinality(Holding) \in Nat
  BY <1>1, FS_AddElement, FS_CardinalityType
<1> QED BY <1>1, <1>2 DEF PermitsAccounted

\* A stream that ends gives its permit back.
LEMMA PermitGivenBack ==
  ASSUME ExportInv, NEW e \in Holding, Holding' = Holding \ {e}, permits' = permits + 1
  PROVE  PermitsAccounted' /\ permits' \in 0..MaxStreams
<1>1. /\ IsFiniteSet(Holding) /\ permits + Cardinality(Holding) = MaxStreams
      /\ permits \in 0..MaxStreams /\ MaxStreams \in Nat
  BY ExportConstants DEF ExportInv, TypeOK, PermitsAccounted
<1>2. /\ IsFiniteSet(Holding') /\ Cardinality(Holding') = Cardinality(Holding) - 1
      /\ Cardinality(Holding) \in Nat /\ Cardinality(Holding') \in Nat
  BY <1>1, FS_RemoveElement, FS_CardinalityType
<1> QED BY <1>1, <1>2 DEF PermitsAccounted

\* Steps that touch no permit.
LEMMA PermitsKept ==
  ASSUME ExportInv, Holding' = Holding, permits' = permits
  PROVE  PermitsAccounted' /\ permits' \in 0..MaxStreams
BY DEF ExportInv, TypeOK, PermitsAccounted

\* Steps that touch no waiter.
LEMMA WaitersKept ==
  ASSUME ExportInv, Queued' = Queued, waiting' = waiting
  PROVE  WaitersAreQueued' /\ waiting' \in Seq(Exports)
BY DEF ExportInv, TypeOK, WaitersAreQueued, Elements

\* Steps that move no request: the clock, Redis, an expiring cooldown.
LEMMA QuietStep ==
  ASSUME ExportInv, TypeOK', ClaimedOnce',
         UNCHANGED <<pc, waiting, permits, sent, outcome>>
  PROVE  ExportInv'
<1>1. Queued' = Queued /\ Holding' = Holding
  BY DEF Queued, Holding
<1>2. OpenUntilStopped' /\ CompleteOrMarked'
  BY DEF ExportInv, OpenUntilStopped, CompleteOrMarked
<1> QED BY <1>1, <1>2, PermitsKept, WaitersKept DEF ExportInv

-----------------------------------------------------------------------------
(* The steps                                                                *)

\* The minute, and Redis going and coming back.
LEMMA EnvironmentInv ==
  ASSUME ExportInv, NextMinute \/ Outage \/ Recover
  PROVE  ExportInv'
<1>0. TypeOK /\ ClaimedOnce /\ MaxFaults \in Nat /\ Limit \in Nat
  BY ExportConstants DEF ExportInv
<1>1. UNCHANGED <<claimed, granted, pc, waiting, permits, late, sent, outcome>>
  BY DEF NextMinute, Outage, Recover, stream
<1>2. hits' \in 0..Limit /\ up' \in BOOLEAN /\ faults' \in 0..MaxFaults
  <2>1. /\ hits' \in {0, hits}
        /\ faults' = faults \/ (faults < MaxFaults /\ faults' = faults + 1)
    BY DEF NextMinute, Outage, Recover, redis
  <2>2. hits \in 0..Limit /\ faults \in 0..MaxFaults /\ 0 \in 0..Limit
    BY <1>0 DEF TypeOK
  <2>3. hits' \in 0..Limit /\ faults' \in 0..MaxFaults
    BY <1>0, <2>1, <2>2
  <2>4. up' = up \/ up' = TRUE \/ up' = FALSE
    BY DEF NextMinute, Outage, Recover
  <2>5. up' \in BOOLEAN
    BY <1>0, <2>4 DEF TypeOK
  <2> QED BY <2>3, <2>5
<1>3. TypeOK'
  BY <1>0, <1>1, <1>2 DEF TypeOK
<1>4. ClaimedOnce'
  BY <1>0, <1>1 DEF ClaimedOnce
<1> QED BY <1>1, <1>3, <1>4, QuietStep

\* The key expires; a later request claims afresh.
LEMMA CooldownExpiresInv ==
  ASSUME ExportInv, NEW u \in Users, CooldownExpires(u)
  PROVE  ExportInv'
<1>0. TypeOK /\ ClaimedOnce /\ granted \in [Users -> Nat]
  BY DEF ExportInv, TypeOK
<1>1. /\ claimed' = claimed \ {u} /\ granted' = [granted EXCEPT ![u] = 0]
      /\ UNCHANGED <<hits, up, faults, pc, waiting, permits, late, sent, outcome>>
  BY DEF CooldownExpires, redis, stream
<1>2. TypeOK'
  BY <1>0, <1>1 DEF TypeOK
<1>3. ClaimedOnce'
  BY <1>0, <1>1 DEF ClaimedOnce
<1> QED BY <1>1, <1>2, <1>3, QuietStep

\* The clock of _csv_chunks.
LEMMA OvertimeInv ==
  ASSUME ExportInv, NEW e \in Exports, Overtime(e)
  PROVE  ExportInv'
<1>0. TypeOK /\ ClaimedOnce
  BY DEF ExportInv
<1>1. /\ late' = [late EXCEPT ![e] = TRUE]
      /\ UNCHANGED <<hits, up, faults, claimed, granted, pc, waiting, permits, sent, outcome>>
  BY DEF Overtime, redis
<1>2. TypeOK'
  BY <1>0, <1>1 DEF TypeOK
<1>3. ClaimedOnce'
  BY <1>0, <1>1 DEF ClaimedOnce
<1> QED BY <1>1, <1>2, <1>3, QuietStep

\* A request that neither waits nor holds a permit, before and after.
LEMMA OutsideInv ==
  ASSUME ExportInv, NEW e \in Exports,
         Arrive(e) \/ Reject(e) \/ (Claim(e) /\ up /\ Owner[e] \in claimed) \/ Again(e)
  PROVE  ExportInv'
<1>0. /\ TypeOK /\ ClaimedOnce
      /\ outcome \in [Exports -> Outcomes] /\ sent \in [Exports -> 0..Rows]
      /\ OpenUntilStopped /\ CompleteOrMarked
  BY DEF ExportInv, TypeOK, Outcomes
<1>1. /\ pc[e] \in {"idle", "cooldown", "ended"}
      /\ UNCHANGED <<up, faults, claimed, granted, waiting, permits>>
      /\ hits' \in 0..Limit /\ late' \in [Exports -> BOOLEAN]
  <2>1. hits' \in 0..Limit
    BY <1>0, ExportConstants DEF TypeOK, Arrive, Reject, Claim, Again, redis
  <2>2. late' \in [Exports -> BOOLEAN]
    BY <1>0 DEF TypeOK, Arrive, Reject, Claim, Again, stream
  <2> QED BY <2>1, <2>2 DEF Arrive, Reject, Claim, Again, redis, stream
<1>2. /\ pc' \in [Exports -> Steps] /\ outcome' \in [Exports -> Outcomes]
      /\ sent' \in [Exports -> 0..Rows]
      /\ OpenUntilStopped' /\ CompleteOrMarked' /\ Queued' = Queued /\ Holding' = Holding
  <2>1. e \notin Queued /\ e \notin Holding
    BY <1>1 DEF Queued, Holding
  <2>2. CASE Again(e)
    <3>1. /\ pc' = [pc EXCEPT ![e] = "idle"] /\ outcome' = [outcome EXCEPT ![e] = "open"]
          /\ sent' = [sent EXCEPT ![e] = 0]
      BY <2>2 DEF Again, Goto, Outcome
    <3>2. Moves(e, "idle", "open", 0)
      BY <3>1, ExportConstants DEF Moves, Steps, Outcomes
    <3> QED BY <2>1, <3>2, RequestMoves
  <2>3. CASE ~Again(e)
    <3>1. /\ sent' = [sent EXCEPT ![e] = sent[e]] /\ sent[e] \in 0..Rows
          /\ \/ pc' = [pc EXCEPT ![e] = "ended"] /\ outcome' = [outcome EXCEPT ![e] = "refused"]
             \/ /\ pc' = [pc EXCEPT ![e] = "cooldown"]
                /\ pc[e] = "idle" /\ outcome' = outcome
      <4>1. sent' = sent
        BY <2>3 DEF Arrive, Reject, Claim, stream
      <4>2. \/ pc' = [pc EXCEPT ![e] = "ended"] /\ outcome' = [outcome EXCEPT ![e] = "refused"]
            \/ /\ pc' = [pc EXCEPT ![e] = "cooldown"]
               /\ pc[e] = "idle" /\ outcome' = outcome
        BY <2>3 DEF Arrive, Reject, Claim, End, Goto, Outcome
      <4> QED BY <1>0, <4>1, <4>2
    <3>2. CASE pc' = [pc EXCEPT ![e] = "ended"] /\ outcome' = [outcome EXCEPT ![e] = "refused"]
      <4>1. Moves(e, "ended", "refused", sent[e])
        BY <3>1, <3>2 DEF Moves, Steps, Outcomes
      <4> QED BY <2>1, <4>1, RequestMoves
    <3>3. CASE pc' = [pc EXCEPT ![e] = "cooldown"] /\ pc[e] = "idle" /\ outcome' = outcome
      <4>1. outcome' = [outcome EXCEPT ![e] = "open"]
        BY <1>0, <3>3 DEF OpenUntilStopped
      <4>2. Moves(e, "cooldown", "open", sent[e])
        BY <3>1, <3>3, <4>1 DEF Moves, Steps, Outcomes
      <4> QED BY <2>1, <4>2, RequestMoves
    <3> QED BY <3>1, <3>2, <3>3
  <2> QED BY <2>2, <2>3
<1>3. PermitsAccounted' /\ WaitersAreQueued' /\ waiting' \in Seq(Exports)
  BY <1>1, <1>2, PermitsKept, WaitersKept
<1>4. TypeOK'
  BY <1>0, <1>1, <1>2 DEF TypeOK, Steps, Outcomes
<1>5. ClaimedOnce'
  BY <1>0, <1>1 DEF ClaimedOnce
<1> QED BY <1>2, <1>3, <1>4, <1>5 DEF ExportInv

\* SET NX succeeds, or Redis is down: the request joins the waiters.
LEMMA ClaimInv ==
  ASSUME ExportInv, NEW e \in Exports, Claim(e), ~(up /\ Owner[e] \in claimed)
  PROVE  ExportInv'
<1>0. /\ TypeOK /\ ClaimedOnce /\ WaitersAreQueued /\ OpenUntilStopped
      /\ granted \in [Users -> Nat] /\ claimed \subseteq Users
      /\ outcome \in [Exports -> Outcomes] /\ sent \in [Exports -> 0..Rows]
  BY DEF ExportInv, TypeOK, Outcomes
<1>1. /\ pc[e] = "cooldown" /\ pc' = [pc EXCEPT ![e] = "queued"]
      /\ waiting' = Append(waiting, e)
      /\ claimed' = IF up THEN claimed \cup {Owner[e]} ELSE claimed
      /\ granted' = IF up THEN [granted EXCEPT ![Owner[e]] = @ + 1] ELSE granted
      /\ UNCHANGED <<hits, up, faults, permits, late, sent, outcome>>
  BY DEF Claim, Goto, redis
<1>2. Owner[e] \in Users
  BY ExportConstants
<1>3. /\ pc' \in [Exports -> Steps] /\ OpenUntilStopped' /\ CompleteOrMarked'
      /\ Queued' = Queued \cup {e} /\ Holding' = Holding
  <2>1. e \notin Holding
    BY <1>1 DEF Holding
  <2>2. outcome' = [outcome EXCEPT ![e] = "open"]
    BY <1>0, <1>1 DEF OpenUntilStopped
  <2>3. sent' = [sent EXCEPT ![e] = sent[e]] /\ sent[e] \in 0..Rows
    BY <1>0, <1>1
  <2>4. Moves(e, "queued", "open", sent[e])
    BY <1>1, <2>2, <2>3 DEF Moves, Steps, Outcomes
  <2> QED BY <2>1, <2>4, RequestMoves
<1>4. WaitersAreQueued' /\ waiting' \in Seq(Exports)
  <2>1. e \notin Elements(waiting) /\ waiting \in Seq(Exports) /\ IsInjective(waiting)
    BY <1>0, <1>1 DEF WaitersAreQueued, Queued, TypeOK
  <2>2. /\ waiting' \in Seq(Exports) /\ IsInjective(waiting')
        /\ Elements(waiting') = Elements(waiting) \cup {e}
    BY <1>1, <2>1, AppendFacts
  <2> QED BY <1>0, <1>3, <2>2 DEF WaitersAreQueued, Elements
<1>5. PermitsAccounted'
  BY <1>1, <1>3, PermitsKept
<1>6. ClaimedOnce' /\ claimed' \subseteq Users /\ granted' \in [Users -> Nat]
  <2>1. CASE ~up
    BY <1>0, <1>1, <2>1 DEF ClaimedOnce
  <2>2. CASE up
    <3>1. granted[Owner[e]] = 0
      BY <1>0, <1>2, <2>2 DEF ClaimedOnce
    <3>2. \A u \in Users : granted'[u] = IF u = Owner[e] THEN 1 ELSE granted[u]
      BY <1>0, <1>1, <1>2, <2>2, <3>1
    <3> QED BY <1>0, <1>1, <1>2, <2>2, <3>2 DEF ClaimedOnce
  <2> QED BY <2>1, <2>2
<1>7. TypeOK'
  BY <1>0, <1>1, <1>3, <1>4, <1>6 DEF TypeOK, Steps, Outcomes
<1> QED BY <1>3, <1>4, <1>5, <1>6, <1>7 DEF ExportInv

\* The first waiter gets a permit.
LEMMA AcquireInv ==
  ASSUME ExportInv, NEW e \in Exports, Acquire(e)
  PROVE  ExportInv'
<1>0. /\ TypeOK /\ ClaimedOnce /\ WaitersAreQueued /\ OpenUntilStopped
      /\ outcome \in [Exports -> Outcomes] /\ sent \in [Exports -> 0..Rows]
      /\ waiting \in Seq(Exports)
  BY DEF ExportInv, TypeOK, Outcomes
<1>1. /\ waiting # <<>> /\ Head(waiting) = e /\ permits > 0
      /\ pc' = [pc EXCEPT ![e] = "streaming"]
      /\ waiting' = Tail(waiting) /\ permits' = permits - 1
      /\ UNCHANGED <<hits, up, faults, claimed, granted, late, sent, outcome>>
  BY DEF Acquire, Goto, redis
<1>2. /\ e \in Elements(waiting) /\ waiting' \in Seq(Exports) /\ IsInjective(waiting')
      /\ Elements(waiting) = Elements(waiting') \cup {e} /\ e \notin Elements(waiting')
  BY <1>0, <1>1, TailFacts DEF WaitersAreQueued
<1>3. pc[e] = "queued" /\ e \in Queued /\ e \notin Holding
  BY <1>0, <1>2 DEF WaitersAreQueued, Queued, Holding
<1>4. /\ pc' \in [Exports -> Steps] /\ OpenUntilStopped' /\ CompleteOrMarked'
      /\ Queued' = Queued \ {e} /\ Holding' = Holding \cup {e}
  <2>1. outcome' = [outcome EXCEPT ![e] = "open"]
    BY <1>0, <1>1, <1>3 DEF OpenUntilStopped
  <2>2. sent' = [sent EXCEPT ![e] = sent[e]] /\ sent[e] \in 0..Rows
    BY <1>0, <1>1
  <2>3. Moves(e, "streaming", "open", sent[e])
    BY <1>1, <2>1, <2>2 DEF Moves, Steps, Outcomes
  <2> QED BY <2>3, RequestMoves
<1>5. WaitersAreQueued'
  BY <1>0, <1>2, <1>4 DEF WaitersAreQueued, Elements
<1>6. PermitsAccounted' /\ permits' \in 0..MaxStreams
  BY <1>1, <1>3, <1>4, PermitTaken
<1>7. TypeOK'
  BY <1>0, <1>1, <1>2, <1>4, <1>6 DEF TypeOK, Steps, Outcomes
<1>8. ClaimedOnce'
  BY <1>0, <1>1 DEF ClaimedOnce
<1> QED BY <1>4, <1>5, <1>6, <1>7, <1>8 DEF ExportInv

\* A row is sent, or the timeout puts the sentinel and leaves _stream_rows
\* suspended with its permit.
LEMMA RowInv ==
  ASSUME ExportInv, NEW e \in Exports, Row(e)
  PROVE  ExportInv'
<1>0. /\ TypeOK /\ ClaimedOnce /\ OpenUntilStopped
      /\ outcome \in [Exports -> Outcomes] /\ sent \in [Exports -> 0..Rows]
      /\ pc \in [Exports -> Steps] /\ Rows \in Nat
  BY ExportConstants DEF ExportInv, TypeOK, Steps, Outcomes
<1>1. /\ pc[e] = "streaming" /\ sent[e] < Rows
      /\ UNCHANGED <<hits, up, faults, claimed, granted, waiting, permits, late>>
  BY DEF Row, redis
<1>2. e \in Holding /\ e \notin Queued /\ outcome[e] = "open" /\ sent[e] \in 0..Rows
  BY <1>0, <1>1 DEF Holding, Queued, OpenUntilStopped
<1>3. Moves(e, "orphan", "truncated", sent[e]) \/ Moves(e, "streaming", "open", sent[e] + 1)
  <2>1. CASE late[e]
    <3>1. /\ pc' = [pc EXCEPT ![e] = "orphan"] /\ outcome' = [outcome EXCEPT ![e] = "truncated"]
          /\ sent' = sent
      BY <2>1 DEF Row, CutOff, Goto, Outcome
    <3>2. sent' = [sent EXCEPT ![e] = sent[e]]
      BY <1>0, <3>1
    <3>3. Moves(e, "orphan", "truncated", sent[e])
      BY <1>1, <1>2, <3>1, <3>2 DEF Moves, Steps, Outcomes
    <3> QED BY <3>3
  <2>2. CASE ~late[e]
    <3>1. sent' = [sent EXCEPT ![e] = @ + 1] /\ UNCHANGED <<pc, outcome>>
      BY <2>2 DEF Row
    <3>2. /\ pc' = [pc EXCEPT ![e] = "streaming"] /\ outcome' = [outcome EXCEPT ![e] = "open"]
          /\ sent' = [sent EXCEPT ![e] = sent[e] + 1]
      BY <1>0, <1>1, <1>2, <3>1
    <3>3. sent[e] + 1 \in 0..Rows
      BY <1>0, <1>1, <1>2
    <3>4. Moves(e, "streaming", "open", sent[e] + 1)
      BY <3>2, <3>3 DEF Moves, Steps, Outcomes
    <3> QED BY <3>4
  <2> QED BY <2>1, <2>2
<1>4. /\ pc' \in [Exports -> Steps] /\ outcome' \in [Exports -> Outcomes]
      /\ sent' \in [Exports -> 0..Rows] /\ OpenUntilStopped' /\ CompleteOrMarked'
      /\ Queued' = Queued /\ Holding' = Holding
  <2>1. Holding \cup {e} = Holding
    BY <1>2
  <2>2. CASE Moves(e, "orphan", "truncated", sent[e])
    BY <1>2, <2>1, <2>2, RequestMoves
  <2>3. CASE Moves(e, "streaming", "open", sent[e] + 1)
    BY <1>2, <2>1, <2>3, RequestMoves
  <2> QED BY <1>3, <2>2, <2>3
<1>5. PermitsAccounted' /\ WaitersAreQueued'
  BY <1>1, <1>4, PermitsKept, WaitersKept
<1>6. TypeOK'
  BY <1>0, <1>1, <1>4 DEF TypeOK, Steps, Outcomes
<1>7. ClaimedOnce'
  BY <1>0, <1>1 DEF ClaimedOnce
<1> QED BY <1>4, <1>5, <1>6, <1>7 DEF ExportInv

\* _stream_rows returns, fails, is cancelled or is finalised: its permit goes
\* back to the semaphore.
LEMMA StreamEndsInv ==
  ASSUME ExportInv, NEW e \in Exports, NEW o, e \in Holding,
         Moves(e, "ended", o, sent[e]), permits' = permits + 1,
         faults' \in 0..MaxFaults,
         UNCHANGED <<hits, up, claimed, granted, waiting, late>>
  PROVE  ExportInv'
<1>0. TypeOK /\ ClaimedOnce
  BY DEF ExportInv
<1>1. e \notin Queued
  BY DEF Queued, Holding
<1>2. /\ pc' \in [Exports -> Steps] /\ outcome' \in [Exports -> Outcomes]
      /\ sent' \in [Exports -> 0..Rows] /\ OpenUntilStopped' /\ CompleteOrMarked'
      /\ Queued' = Queued /\ Holding' = Holding \ {e}
  BY <1>1, RequestMoves
<1>3. PermitsAccounted' /\ permits' \in 0..MaxStreams
  BY <1>2, PermitGivenBack
<1>4. WaitersAreQueued'
  BY <1>2, WaitersKept
<1>5. TypeOK'
  BY <1>0, <1>2, <1>3 DEF TypeOK, Steps, Outcomes
<1>6. ClaimedOnce'
  BY <1>0 DEF ClaimedOnce
<1> QED BY <1>2, <1>3, <1>4, <1>5, <1>6 DEF ExportInv

\* The ways a stream ends.
LEMMA EndInv ==
  ASSUME ExportInv, NEW e \in Exports,
         \/ Exhausted(e) \/ QueryFails(e) \/ Finalize(e)
         \/ Disconnect(e) /\ pc[e] = "streaming" /\ End(e, "gone")
  PROVE  ExportInv'
<1>0. /\ outcome \in [Exports -> Outcomes] /\ sent \in [Exports -> 0..Rows]
      /\ CompleteOrMarked /\ sent[e] \in 0..Rows /\ faults \in 0..MaxFaults /\ MaxFaults \in Nat
      /\ outcome[e] \in Outcomes /\ permits \in 0..MaxStreams
  BY ExportConstants DEF ExportInv, TypeOK, Outcomes
<1>1. "ended" \in Steps /\ {"complete", "broken", "gone"} \subseteq Outcomes
  BY DEF Steps, Outcomes
<1>2. CASE Exhausted(e)
  <2>1. /\ pc[e] = "streaming" /\ sent[e] = Rows /\ permits' = permits + 1
        /\ pc' = [pc EXCEPT ![e] = "ended"] /\ outcome' = [outcome EXCEPT ![e] = "complete"]
        /\ UNCHANGED <<hits, up, faults, claimed, granted, waiting, late, sent>>
    BY <1>2 DEF Exhausted, End, Goto, Outcome, redis
  <2>2. sent' = [sent EXCEPT ![e] = sent[e]]
    BY <1>0, <2>1
  <2>3. Moves(e, "ended", "complete", sent[e]) /\ e \in Holding
    BY <1>0, <1>1, <2>1, <2>2 DEF Moves, Holding
  <2> QED BY <1>0, <2>1, <2>3, StreamEndsInv
<1>3. CASE QueryFails(e)
  <2>1. /\ pc[e] = "streaming" /\ permits' = permits + 1
        /\ faults < MaxFaults /\ faults' = faults + 1
        /\ pc' = [pc EXCEPT ![e] = "ended"] /\ outcome' = [outcome EXCEPT ![e] = "broken"]
        /\ UNCHANGED <<hits, up, claimed, granted, waiting, late, sent>>
    BY <1>3 DEF QueryFails, End, Goto, Outcome
  <2>2. sent' = [sent EXCEPT ![e] = sent[e]] /\ faults' \in 0..MaxFaults
    BY <1>0, <2>1
  <2>3. Moves(e, "ended", "broken", sent[e]) /\ e \in Holding
    BY <1>0, <1>1, <2>1, <2>2 DEF Moves, Holding
  <2> QED BY <2>1, <2>2, <2>3, StreamEndsInv
<1>4. CASE Finalize(e)
  <2>1. /\ pc[e] = "orphan" /\ permits' = permits + 1
        /\ pc' = [pc EXCEPT ![e] = "ended"]
        /\ UNCHANGED <<hits, up, faults, claimed, granted, waiting, late, sent, outcome>>
    BY <1>4 DEF Finalize, Goto, redis
  <2>2. sent' = [sent EXCEPT ![e] = sent[e]] /\ outcome' = [outcome EXCEPT ![e] = outcome[e]]
    BY <1>0, <2>1
  <2>3. Moves(e, "ended", outcome[e], sent[e]) /\ e \in Holding
    BY <1>0, <1>1, <2>1, <2>2 DEF Moves, Holding, CompleteOrMarked
  <2> QED BY <1>0, <2>1, <2>3, StreamEndsInv
<1>5. CASE Disconnect(e) /\ pc[e] = "streaming" /\ End(e, "gone")
  <2>1. /\ pc' = [pc EXCEPT ![e] = "ended"] /\ outcome' = [outcome EXCEPT ![e] = "gone"]
        /\ UNCHANGED <<hits, up, faults, claimed, granted, late, sent>>
    BY <1>5 DEF Disconnect, End, Goto, Outcome, redis
  <2>2. pc'[e] = "ended"
    BY <2>1 DEF ExportInv, TypeOK
  <2>3. permits' = permits + 1 /\ waiting' = waiting
    BY <1>5, <2>2 DEF Disconnect, Goto, ExportInv, TypeOK
  <2>4. sent' = [sent EXCEPT ![e] = sent[e]]
    BY <1>0, <2>1
  <2>5. Moves(e, "ended", "gone", sent[e]) /\ e \in Holding
    BY <1>0, <1>1, <1>5, <2>1, <2>4 DEF Moves, Holding
  <2> QED BY <1>0, <2>1, <2>3, <2>5, StreamEndsInv
<1> QED BY <1>2, <1>3, <1>4, <1>5

\* A waiter is cancelled, or a stream is closed at a yield of _csv_chunks and
\* becomes an orphan.
LEMMA DisconnectInv ==
  ASSUME ExportInv, NEW e \in Exports, Disconnect(e)
  PROVE  ExportInv'
<1>0. /\ TypeOK /\ ClaimedOnce /\ WaitersAreQueued /\ waiting \in Seq(Exports)
      /\ outcome \in [Exports -> Outcomes] /\ sent \in [Exports -> 0..Rows]
      /\ sent[e] \in 0..Rows
  BY DEF ExportInv, TypeOK, Outcomes
<1>1. UNCHANGED <<hits, up, faults, claimed, granted, late, sent>>
  BY DEF Disconnect, redis
<1>2. sent' = [sent EXCEPT ![e] = sent[e]]
  BY <1>0, <1>1
<1>3. ClaimedOnce'
  BY <1>0, <1>1 DEF ClaimedOnce
<1>4. CASE pc[e] = "queued"
  <2>1. /\ pc' = [pc EXCEPT ![e] = "ended"] /\ outcome' = [outcome EXCEPT ![e] = "gone"]
        /\ permits' = permits
    BY <1>4 DEF Disconnect, End, Goto, Outcome
  <2>2. PICK i \in DOMAIN waiting : waiting[i] = e /\ waiting' = RemoveAt(waiting, i)
    BY <1>4 DEF Disconnect
  <2>3. Moves(e, "ended", "gone", sent[e]) /\ e \notin Holding
    BY <1>0, <1>2, <1>4, <2>1 DEF Moves, Holding, Steps, Outcomes
  <2>4. /\ pc' \in [Exports -> Steps] /\ outcome' \in [Exports -> Outcomes]
        /\ sent' \in [Exports -> 0..Rows] /\ OpenUntilStopped' /\ CompleteOrMarked'
        /\ Queued' = Queued \ {e} /\ Holding' = Holding
    BY <2>3, RequestMoves
  <2>5. /\ waiting' \in Seq(Exports) /\ IsInjective(waiting')
        /\ Elements(waiting') = Elements(waiting) \ {e}
    BY <1>0, <2>2, LeaveFacts DEF WaitersAreQueued
  <2>6. WaitersAreQueued'
    BY <1>0, <2>4, <2>5 DEF WaitersAreQueued, Elements
  <2>7. PermitsAccounted'
    BY <2>1, <2>4, PermitsKept
  <2>8. TypeOK'
    BY <1>0, <1>1, <2>1, <2>4, <2>5 DEF TypeOK, Steps, Outcomes
  <2> QED BY <1>3, <2>4, <2>6, <2>7, <2>8 DEF ExportInv
<1>5. CASE pc[e] = "streaming" /\ End(e, "gone")
  BY <1>5, EndInv
<1>6. CASE pc[e] = "streaming" /\ ~End(e, "gone")
  <2>1. /\ pc' = [pc EXCEPT ![e] = "orphan"] /\ outcome' = [outcome EXCEPT ![e] = "gone"]
        /\ UNCHANGED <<waiting, permits>>
    BY <1>6 DEF Disconnect, Goto, Outcome
  <2>2. Moves(e, "orphan", "gone", sent[e]) /\ e \in Holding /\ e \notin Queued
    BY <1>0, <1>2, <1>6, <2>1 DEF Moves, Holding, Queued, Steps, Outcomes
  <2>3. Holding \cup {e} = Holding
    BY <2>2
  <2>4. /\ pc' \in [Exports -> Steps] /\ outcome' \in [Exports -> Outcomes]
        /\ sent' \in [Exports -> 0..Rows] /\ OpenUntilStopped' /\ CompleteOrMarked'
        /\ Queued' = Queued /\ Holding' = Holding
    BY <2>2, <2>3, RequestMoves
  <2>5. PermitsAccounted' /\ WaitersAreQueued'
    BY <2>1, <2>4, PermitsKept, WaitersKept
  <2>6. TypeOK'
    BY <1>0, <1>1, <2>1, <2>4 DEF TypeOK, Steps, Outcomes
  <2> QED BY <1>3, <2>4, <2>5, <2>6 DEF ExportInv
<1> QED BY <1>4, <1>5, <1>6 DEF Disconnect

-----------------------------------------------------------------------------
(* The system                                                               *)

\* No request has been made.
LEMMA InitInv == Init => ExportInv
<1> SUFFICES ASSUME Init PROVE ExportInv
  OBVIOUS
<1>1. <<>> \in Seq(Exports) /\ DOMAIN <<>> = {}
  BY EmptySeq
<1>2. TypeOK
  BY <1>1, ExportConstants DEF Init, TypeOK
<1>3. Queued = {} /\ Holding = {}
  BY DEF Init, Queued, Holding
<1>4. WaitersAreQueued
  BY <1>1, <1>3 DEF Init, WaitersAreQueued, IsInjective, Elements
<1>5. PermitsAccounted
  BY <1>3, FS_EmptySet, ExportConstants DEF Init, PermitsAccounted
<1>6. ClaimedOnce /\ OpenUntilStopped /\ CompleteOrMarked
  BY DEF Init, ClaimedOnce, OpenUntilStopped, CompleteOrMarked
<1> QED BY <1>2, <1>4, <1>5, <1>6 DEF ExportInv

\* Every step of the limiter, of export() and of its generators keeps it.
LEMMA NextInv == ExportInv /\ [Next]_vars => ExportInv'
<1> SUFFICES ASSUME ExportInv, [Next]_vars PROVE ExportInv'
  OBVIOUS
<1>1. CASE NextMinute \/ Outage \/ Recover
  BY <1>1, EnvironmentInv
<1>2. CASE \E u \in Users : CooldownExpires(u)
  BY <1>2, CooldownExpiresInv
<1>3. ASSUME NEW e \in Exports,
             \/ Arrive(e) \/ Reject(e) \/ Claim(e)
             \/ Stream(e) \/ Overtime(e) \/ QueryFails(e) \/ Disconnect(e) \/ Again(e)
      PROVE  ExportInv'
  BY <1>3, OutsideInv, ClaimInv, AcquireInv, RowInv, EndInv, OvertimeInv, DisconnectInv
     DEF Stream
<1>4. CASE UNCHANGED vars
  <2>1. TypeOK' /\ ClaimedOnce'
    BY <1>4 DEF vars, ExportInv, TypeOK, ClaimedOnce
  <2> QED BY <1>4, <2>1, QuietStep DEF vars
<1> QED BY <1>1, <1>2, <1>3, <1>4 DEF Next

\* The invariant of the export endpoint.
THEOREM ExportInvariant == Spec => []ExportInv
<1> QED BY InitInv, NextInv, PTL DEF Spec

\* The variables keep their types; in particular the semaphore never has more
\* than MAX_CONCURRENT_EXPORTS permits, nor fewer than none.
THEOREM ExportTypeCorrect == Spec => []TypeOK
<1>1. ExportInv => TypeOK
  BY DEF ExportInv
<1> QED BY <1>1, ExportInvariant, PTL

\* Redis lets one export of an account through per cooldown, however many
\* requests race for it and whatever becomes of their streams (H18).
THEOREM OneClaimPerCooldown == Spec => []OneExportPerCooldown
<1>1. ExportInv => OneExportPerCooldown
  BY DEF ExportInv, ClaimedOnce, OneExportPerCooldown
<1> QED BY <1>1, ExportInvariant, PTL

\* A response that ends like a complete one holds every row, and one that
\* carries the sentinel does not (M83).
THEOREM ResponsesAreMarked == Spec => []CompleteOrMarked
<1>1. ExportInv => CompleteOrMarked
  BY DEF ExportInv
<1> QED BY <1>1, ExportInvariant, PTL

\* However a stream ends, timed out, failed, cancelled or left by its client,
\* the semaphore gets back exactly the permit the stream took.
THEOREM NoPermitLost == Spec => []PermitsAccounted
<1>1. ExportInv => PermitsAccounted
  BY DEF ExportInv
<1> QED BY <1>1, ExportInvariant, PTL
=============================================================================
