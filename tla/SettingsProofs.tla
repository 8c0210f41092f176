--------------------------- MODULE SettingsProofs ---------------------------
(***************************************************************************)
(* Proofs about Settings, for any number of requests, any patches and any   *)
(* values.  Two facts carry them.  Row locks are exclusive, and a request   *)
(* in its write phase holds every row its FOR UPDATE statement found, which *)
(* includes every seeded key it patches.  So what the request read under    *)
(* the locks (the old values, the merged pair) is still true when it        *)
(* commits.  The threshold pair needs both its rows to exist from the start *)
(* (Pair \subseteq Seeded): a missing row cannot be locked.                 *)
(***************************************************************************)
EXTENDS Settings, TLAPS

\* Two transactions never hold the same row.
Exclusive == \A r, q \in Reqs : r # q => held[r] \cap held[q] = {}

\* Rows are never deleted.
SeededRowsStay == \A k \in Seeded : rows[k] # Absent

\* From the lock phase on, the statement found every seeded row it asked for.
SeenSeeded ==
  \A r \in Reqs : pc[r] \in {"lock", "write"} =>
    (DOMAIN patch[r] \cup Pair) \cap Seeded \subseteq seen[r]

\* A writing request has its rows locked and its reads are still current.
WriterCurrent ==
  \A r \in Reqs : pc[r] = "write" =>
    /\ seen[r] \subseteq held[r]
    /\ \A k \in DOMAIN patch[r] \cap Seeded : old[r][k] = rows[k]
    /\ Pair \subseteq Seeded => Ordered(patch[r], rows)

PairSafe == Pair \subseteq Seeded => PairOrdered

SettingsInv == /\ TypeOK
               /\ Exclusive
               /\ SeededRowsStay
               /\ SeenSeeded
               /\ WriterCurrent
               /\ PairSafe
               /\ AuditChain

-----------------------------------------------------------------------------
\* What a validated body is.
LEMMA BodyFacts ==
  ASSUME NEW p \in Bodies
  PROVE  /\ DOMAIN p \subseteq Keys
         /\ \A k \in DOMAIN p : p[k] \in Values /\ p[k] # Absent
BY SettingsConstants DEF Bodies

\* The empty body is a body, and so is a patch without nulls.
LEMMA BodyIntro ==
  /\ NoPatch \in Bodies
  /\ \A p \in Patches : ~HasNull(p) => p \in Bodies
<1>1. NoPatch \in Bodies
  <2>1. NoPatch \in [{} -> Values]
    BY DEF NoPatch
  <2> QED BY <2>1 DEF Bodies
<1>2. ASSUME NEW p \in Patches, ~HasNull(p) PROVE p \in Bodies
  <2>1. PICK d \in SUBSET Keys : p \in [d -> Values \cup {Null}]
    BY SettingsConstants
  <2>2. p \in [d -> Values]
    BY <1>2, <2>1 DEF HasNull
  <2> QED BY <2>2 DEF Bodies
<1> QED BY <1>1, <1>2

\* The initial state: the seed script has run, no request is under way.
LEMMA InitInv == Init => SettingsInv
<1> SUFFICES ASSUME Init PROVE SettingsInv
  OBVIOUS
<1>1. TypeOK
  <2>1. patch \in [Reqs -> Bodies]
    BY BodyIntro DEF Init
  <2>2. audit \in [Keys -> Seq(Entry)]
    BY DEF Init
  <2> QED BY <2>1, <2>2, SettingsConstants DEF Init, TypeOK, Unknown
<1>2. Exclusive /\ SeenSeeded /\ WriterCurrent
  BY DEF Init, Exclusive, SeenSeeded, WriterCurrent
<1>3. SeededRowsStay
  BY SettingsConstants DEF Init, SeededRowsStay
<1>4. PairSafe
  BY SettingsConstants DEF Init, PairSafe, PairOrdered, Effective, Pair, Keys
<1>5. AuditChain
  BY SettingsConstants DEF Init, AuditChain, ChainOf, Before
<1> QED BY <1>1, <1>2, <1>3, <1>4, <1>5 DEF SettingsInv

\* Steps that leave the tables alone and only move one request, without
\* entering its write phase, keep what the others have read current.
LEMMA QuietStep ==
  ASSUME SettingsInv, UNCHANGED <<rows, audit>>, TypeOK',
         NEW r \in Reqs, pc'[r] \notin {"lock", "write"},
         held'[r] = {},
         \A q \in Reqs \ {r} : /\ pc'[q] = pc[q] /\ patch'[q] = patch[q]
                               /\ seen'[q] = seen[q] /\ held'[q] = held[q]
                               /\ old'[q] = old[q]
  PROVE  SettingsInv'
<1> USE DEF SettingsInv
<1>1. Exclusive'
  BY DEF Exclusive
<1>2. SeenSeeded'
  BY DEF SeenSeeded
<1>3. WriterCurrent'
  BY DEF WriterCurrent, Ordered, Merged
<1>4. SeededRowsStay' /\ PairSafe' /\ AuditChain'
  BY DEF SeededRowsStay, PairSafe, PairOrdered, Effective, AuditChain, ChainOf, Before
<1> QED BY <1>1, <1>2, <1>3, <1>4

\* Every step keeps the invariant.
LEMMA NextInv == SettingsInv /\ [Next]_vars => SettingsInv'
<1> SUFFICES ASSUME SettingsInv, [Next]_vars PROVE SettingsInv'
  OBVIOUS
<1>0. /\ TypeOK /\ Exclusive /\ SeededRowsStay /\ SeenSeeded
      /\ WriterCurrent /\ PairSafe /\ AuditChain
  BY DEF SettingsInv
<1>b. \A r \in Reqs : /\ DOMAIN patch[r] \subseteq Keys
                      /\ \A k \in DOMAIN patch[r] : patch[r][k] \in Values
                                                    /\ patch[r][k] # Absent
  BY <1>0, BodyFacts DEF TypeOK
<1>1. ASSUME NEW r \in Reqs, NEW p \in Patches, Receive(r, p) PROVE SettingsInv'
  <2>1. TypeOK'
    <3>1. patch' \in [Reqs -> Bodies]
      BY <1>0, <1>1, BodyIntro DEF TypeOK, Receive
    <3> QED BY <1>0, <1>1, <3>1 DEF TypeOK, Receive, Finish, tx
  <2>2. /\ pc'[r] \notin {"lock", "write"}
        /\ \A q \in Reqs \ {r} : pc'[q] = pc[q] /\ patch'[q] = patch[q]
        /\ UNCHANGED <<rows, audit, seen, held, old>>
    BY <1>0, <1>1 DEF TypeOK, Receive, Finish, tx
  <2>3. Exclusive' /\ SeenSeeded'
    BY <1>0, <2>2 DEF Exclusive, SeenSeeded
  <2>4. WriterCurrent'
    BY <1>0, <2>2 DEF WriterCurrent, Ordered, Merged
  <2>5. SeededRowsStay' /\ PairSafe' /\ AuditChain'
    BY <1>0, <2>2 DEF SeededRowsStay, PairSafe, PairOrdered, Effective, AuditChain, ChainOf, Before
  <2> QED BY <2>1, <2>3, <2>4, <2>5 DEF SettingsInv
<1>2. ASSUME NEW r \in Reqs, PreCheck(r) PROVE SettingsInv'
  <2>1. TypeOK'
    BY <1>0, <1>2 DEF TypeOK, PreCheck, Finish, tx
  <2>2. /\ pc'[r] \notin {"lock", "write"}
        /\ \A q \in Reqs \ {r} : pc'[q] = pc[q]
        /\ UNCHANGED <<rows, audit, patch, seen, held, old>>
    BY <1>0, <1>2 DEF TypeOK, PreCheck, Finish, tx
  <2>3. Exclusive' /\ SeenSeeded'
    BY <1>0, <2>2 DEF Exclusive, SeenSeeded
  <2>4. WriterCurrent'
    BY <1>0, <2>2 DEF WriterCurrent, Ordered, Merged
  <2>5. SeededRowsStay' /\ PairSafe' /\ AuditChain'
    BY <1>0, <2>2 DEF SeededRowsStay, PairSafe, PairOrdered, Effective, AuditChain, ChainOf, Before
  <2> QED BY <2>1, <2>3, <2>4, <2>5 DEF SettingsInv
<1>3. ASSUME NEW r \in Reqs, SelectForUpdate(r) PROVE SettingsInv'
  <2>1. TypeOK'
    BY <1>0, <1>3, <1>b DEF TypeOK, SelectForUpdate, Pair, Keys
  <2>2. SeenSeeded'
    BY <1>0, <1>3 DEF TypeOK, SelectForUpdate, SeenSeeded, SeededRowsStay
  <2>3. WriterCurrent'
    BY <1>0, <1>3 DEF TypeOK, SelectForUpdate, WriterCurrent, Ordered, Merged
  <2>4. Exclusive' /\ SeededRowsStay' /\ PairSafe' /\ AuditChain'
    BY <1>0, <1>3 DEF SelectForUpdate, Exclusive, SeededRowsStay, PairSafe, PairOrdered,
                      Effective, AuditChain, ChainOf, Before
  <2> QED BY <2>1, <2>2, <2>3, <2>4 DEF SettingsInv
<1>4. ASSUME NEW r \in Reqs, NEW k \in Keys, LockRow(r, k) PROVE SettingsInv'
  <2>1. TypeOK'
    BY <1>0, <1>4 DEF TypeOK, LockRow
  <2>2. Exclusive'
    BY <1>0, <1>4 DEF TypeOK, LockRow, MayLock, Exclusive
  <2>3. WriterCurrent'
    BY <1>0, <1>4 DEF TypeOK, LockRow, WriterCurrent, Ordered, Merged
  <2>4. SeenSeeded' /\ SeededRowsStay' /\ PairSafe' /\ AuditChain'
    BY <1>0, <1>4 DEF LockRow, SeenSeeded, SeededRowsStay, PairSafe, PairOrdered,
                      Effective, AuditChain, ChainOf, Before
  <2> QED BY <2>1, <2>2, <2>3, <2>4 DEF SettingsInv
<1>5. ASSUME NEW r \in Reqs, Revalidate(r) PROVE SettingsInv'
  <2>1. TypeOK'
    BY <1>0, <1>5, <1>b DEF TypeOK, Revalidate, Locked
  <2>2. WriterCurrent'
    <3>1. (DOMAIN patch[r] \cup Pair) \cap Seeded \subseteq seen[r]
      BY <1>0, <1>5 DEF SeenSeeded, Revalidate
    <3>2. ASSUME Pair \subseteq Seeded PROVE Ordered(patch[r], rows)
      BY <1>5, <3>1, <3>2 DEF Revalidate, Recheck, Ordered, Merged, Locked, Pair, Keys
    <3>3. \A k \in DOMAIN patch[r] \cap Seeded : old'[r][k] = rows[k]
      BY <1>0, <1>5, <1>b, <3>1 DEF TypeOK, Revalidate, Locked
    <3>4. /\ seen[r] \subseteq held[r]
          /\ \A q \in Reqs \ {r} : pc'[q] = pc[q] /\ old'[q] = old[q]
          /\ UNCHANGED <<rows, patch, seen, held>>
      BY <1>0, <1>5 DEF TypeOK, Revalidate
    <3> QED BY <1>0, <3>2, <3>3, <3>4 DEF WriterCurrent, Ordered, Merged
  <2>3. SeenSeeded'
    BY <1>0, <1>5 DEF TypeOK, Revalidate, SeenSeeded
  <2>4. Exclusive' /\ SeededRowsStay' /\ PairSafe' /\ AuditChain'
    BY <1>0, <1>5 DEF Revalidate, Exclusive, SeededRowsStay, PairSafe, PairOrdered,
                      Effective, AuditChain, ChainOf, Before
  <2> QED BY <2>1, <2>2, <2>3, <2>4 DEF SettingsInv
<1>6. ASSUME NEW r \in Reqs,
             \/ RevalidateFails(r) \/ DeadlockAbort(r) \/ DbError(r)
      PROVE  SettingsInv'
  <2>1. TypeOK'
    <3>1. /\ Rollback(r) /\ (Finish(r, "rejected") \/ Finish(r, "error"))
          /\ UNCHANGED <<rows, audit, patch>>
      BY <1>6 DEF RevalidateFails, DeadlockAbort, DbError
    <3>2. Unknown \in [Keys -> Values \cup {Absent}]
      BY DEF Unknown
    <3>3. /\ pc' \in [Reqs -> {"idle", "precheck", "select", "lock", "write", "done"}]
          /\ answer' \in [Reqs -> {"none", "ok", "rejected", "error"}]
      BY <1>0, <3>1 DEF TypeOK, Finish
    <3> QED BY <1>0, <3>1, <3>2, <3>3 DEF TypeOK, Rollback
  <2>2. /\ pc'[r] = "done" /\ held'[r] = {}
        /\ \A q \in Reqs \ {r} : pc'[q] = pc[q] /\ seen'[q] = seen[q]
                                 /\ held'[q] = held[q] /\ old'[q] = old[q]
        /\ UNCHANGED <<rows, audit, patch>>
    BY <1>0, <1>6 DEF TypeOK, RevalidateFails, DeadlockAbort, DbError, Rollback, Finish
  <2> QED BY <2>1, <2>2, QuietStep
<1>7. ASSUME NEW r \in Reqs, NEW k \in Keys, Upsert(r, k) PROVE SettingsInv'
  <2>1. TypeOK'
    BY <1>0, <1>7 DEF TypeOK, Upsert
  <2>2. Exclusive'
    BY <1>0, <1>7 DEF TypeOK, Upsert, MayLock, Exclusive
  <2>3. WriterCurrent'
    BY <1>0, <1>7 DEF TypeOK, Upsert, WriterCurrent, Ordered, Merged
  <2>4. SeenSeeded' /\ SeededRowsStay' /\ PairSafe' /\ AuditChain'
    BY <1>0, <1>7 DEF Upsert, SeenSeeded, SeededRowsStay, PairSafe, PairOrdered,
                      Effective, AuditChain, ChainOf, Before
  <2> QED BY <2>1, <2>2, <2>3, <2>4 DEF SettingsInv
<1>8. ASSUME NEW r \in Reqs, Commit(r) PROVE SettingsInv'
  <2>0. /\ pc[r] = "write"
        /\ rows' = [k \in Keys |-> IF k \in DOMAIN patch[r] THEN patch[r][k] ELSE rows[k]]
        /\ audit' = [k \in Keys |->
             IF k \in DOMAIN patch[r]
             THEN Append(audit[k], [old |-> old[r][k], new |-> patch[r][k]])
             ELSE audit[k]]
        /\ patch' = patch
        /\ pc'[r] = "done" /\ held'[r] = {}
        /\ \A q \in Reqs \ {r} : pc'[q] = pc[q] /\ seen'[q] = seen[q]
                                 /\ held'[q] = held[q] /\ old'[q] = old[q]
    BY <1>0, <1>8 DEF TypeOK, Commit, Rollback, Finish
  <2>1. TypeOK'
    <3>1. rows' \in [Keys -> Values \cup {Absent}]
      BY <1>0, <1>b, <2>0 DEF TypeOK
    <3>2. audit' \in [Keys -> Seq(Entry)]
      <4> SUFFICES ASSUME NEW k \in Keys, k \in DOMAIN patch[r]
                   PROVE  Append(audit[k], [old |-> old[r][k], new |-> patch[r][k]]) \in Seq(Entry)
        BY <1>0, <2>0 DEF TypeOK
      <4>1. [old |-> old[r][k], new |-> patch[r][k]] \in Entry
        BY <1>0, <1>b DEF TypeOK, Entry
      <4>2. audit[k] \in Seq(Entry)
        BY <1>0 DEF TypeOK
      <4> QED BY <4>1, <4>2
    <3> QED BY <1>0, <1>8, <3>1, <3>2 DEF TypeOK, Commit, Rollback, Finish, Unknown
  <2>2. DOMAIN patch[r] \cap Seeded \subseteq held[r] /\ Pair \cap Seeded \subseteq held[r]
    BY <1>0, <2>0 DEF SeenSeeded, WriterCurrent
  <2>3. Exclusive'
    BY <1>0, <2>0 DEF Exclusive
  <2>4. SeenSeeded'
    BY <1>0, <2>0 DEF SeenSeeded
  <2>5. WriterCurrent'
    <3> SUFFICES ASSUME NEW q \in Reqs, pc'[q] = "write"
                 PROVE  /\ seen'[q] \subseteq held'[q]
                        /\ \A k \in DOMAIN patch[q] \cap Seeded : old'[q][k] = rows'[k]
                        /\ Pair \subseteq Seeded => Ordered(patch[q], rows)'
      BY <2>0 DEF WriterCurrent
    <3>1. q # r /\ pc[q] = "write"
      BY <2>0
    <3>2. /\ DOMAIN patch[q] \cap Seeded \subseteq held[q]
          /\ Pair \cap Seeded \subseteq held[q]
          /\ seen[q] \subseteq held[q]
      BY <1>0, <3>1 DEF SeenSeeded, WriterCurrent
    <3>3. held[q] \cap held[r] = {}
      BY <1>0, <3>1 DEF Exclusive
    <3>4. \A k \in DOMAIN patch[q] \cap Seeded : old'[q][k] = rows'[k]
      <4> SUFFICES ASSUME NEW k \in DOMAIN patch[q] \cap Seeded PROVE old'[q][k] = rows'[k]
        OBVIOUS
      <4>1. k \in Keys /\ k \notin DOMAIN patch[r]
        BY <1>b, <2>2, <3>2, <3>3
      <4>2. rows'[k] = rows[k] /\ old[q][k] = rows[k]
        BY <1>0, <2>0, <3>1, <4>1 DEF WriterCurrent
      <4> QED BY <2>0, <3>1, <4>2
    <3>5. ~(Pair \subseteq Seeded)
      BY <2>2, <3>2, <3>3 DEF Pair
    <3> QED BY <2>0, <3>1, <3>2, <3>4, <3>5
  <2>6. SeededRowsStay'
    BY <1>0, <1>b, <2>0, SettingsConstants DEF SeededRowsStay
  <2>7. PairSafe'
    <3> SUFFICES ASSUME Pair \subseteq Seeded PROVE PairOrdered'
      BY DEF PairSafe
    <3>1. Ordered(patch[r], rows)
      BY <1>0, <2>0 DEF WriterCurrent
    <3> QED BY <1>b, <2>0, <3>1 DEF PairOrdered, Effective, Ordered, Merged, Keys
  <2>8. AuditChain'
    <3> SUFFICES ASSUME NEW k \in Seeded PROVE ChainOf(k)'
      BY DEF AuditChain
    <3>0. k \in Keys /\ ChainOf(k)
      BY <1>0, SettingsConstants DEF AuditChain
    <3>1. CASE k \notin DOMAIN patch[r]
      BY <2>0, <3>0, <3>1 DEF ChainOf, Before
    <3>2. CASE k \in DOMAIN patch[r]
      <4> DEFINE e == [old |-> old[r][k], new |-> patch[r][k]]
      <4>1. e.old = rows[k] /\ e.new = rows'[k]
        BY <1>0, <2>0, <3>0, <3>2 DEF WriterCurrent
      <4>2. audit'[k] = Append(audit[k], e)
        BY <2>0, <3>0, <3>2
      <4>3. audit[k] \in Seq(Entry) /\ e \in Entry
        BY <1>0, <1>b, <3>0, <3>2 DEF TypeOK, Entry
      <4> HIDE DEF e
      <4>4. /\ Len(audit'[k]) = Len(audit[k]) + 1
            /\ DOMAIN audit'[k] = 1 .. (Len(audit[k]) + 1)
            /\ DOMAIN audit[k] = 1 .. Len(audit[k])
            /\ Len(audit[k]) \in Nat
            /\ \A i \in 1 .. Len(audit[k]) : audit'[k][i] = audit[k][i]
            /\ audit'[k][Len(audit[k]) + 1] = e
        BY <4>2, <4>3
      <4>n. PICK n \in Nat : n = Len(audit[k])
        BY <4>4
      <4>5. \A i \in 1 .. n + 1 : Before(k, i)' = Before(k, i)
        BY <4>4, <4>n DEF Before
      <4>6. \A i \in 1 .. n : audit'[k][i].old = Before(k, i)
        BY <3>0, <4>4, <4>n DEF ChainOf
      <4>7. audit'[k][n + 1].old = Before(k, n + 1)
        BY <3>0, <4>1, <4>4, <4>n DEF ChainOf
      <4>8. rows'[k] = Before(k, n + 2)'
        BY <4>1, <4>4, <4>n DEF Before
      <4> QED BY <4>4, <4>n, <4>5, <4>6, <4>7, <4>8 DEF ChainOf
    <3> QED BY <3>1, <3>2
  <2> QED BY <2>1, <2>3, <2>4, <2>5, <2>6, <2>7, <2>8 DEF SettingsInv
<1>9. CASE UNCHANGED vars
  BY <1>0, <1>9 DEF vars, SettingsInv, TypeOK, Exclusive, SeededRowsStay, SeenSeeded,
     WriterCurrent, PairSafe, PairOrdered, Effective, AuditChain, ChainOf, Before, Ordered, Merged
<1> QED
  BY <1>1, <1>2, <1>3, <1>4, <1>5, <1>6, <1>7, <1>8, <1>9 DEF Next, ReqStep

-----------------------------------------------------------------------------
\* The invariant holds in every reachable state.
THEOREM SettingsInvariant == Spec => []SettingsInv
BY InitInv, NextInv, PTL DEF Spec

\* Every variable keeps its type: no null, empty or partial value of a PATCH
\* is ever stored in system_settings or audit_logs.
THEOREM SettingsTypeOK == Spec => []TypeOK
<1>1. SettingsInv => TypeOK
  BY DEF SettingsInv
<1> QED BY <1>1, SettingsInvariant, PTL

\* With both threshold rows seeded, any number of concurrent PATCH requests
\* keeps the warning threshold below the critical one (L54).
THEOREM ThresholdsOrdered ==
  ASSUME Pair \subseteq Seeded
  PROVE  Spec => []PairOrdered
<1>1. SettingsInv => PairOrdered
  BY DEF SettingsInv, PairSafe
<1> QED BY <1>1, SettingsInvariant, PTL

\* Whatever rows exist, the audit trail of every seeded key is a chain from
\* its seed value to its current value (M13).
THEOREM AuditTrailSound == Spec => []AuditChain
<1>1. SettingsInv => AuditChain
  BY DEF SettingsInv
<1> QED BY <1>1, SettingsInvariant, PTL
=============================================================================
