------------------------------ MODULE Settings ------------------------------
(***************************************************************************)
(* PATCH /admin/settings (api/admin.py): concurrent requests change rows of *)
(* system_settings and append to audit_logs, PostgreSQL at READ COMMITTED.  *)
(* A request checks the patch against a snapshot read in another session,   *)
(* then opens the write transaction: SELECT ... FOR UPDATE on the touched   *)
(* keys and the threshold pair, the same check again, one upsert and one    *)
(* audit entry per key, commit.  The statement locks only rows that existed *)
(* when it started, one after the other and in no fixed order (the query    *)
(* has no ORDER BY), so two requests can also deadlock; PostgreSQL then     *)
(* aborts one of them.                                                      *)
(***************************************************************************)
EXTENDS Naturals, Sequences, FiniteSets

CONSTANTS
  Reqs,      \* concurrent PATCH requests, one patch each
  Patches,   \* bodies: functions from a subset of Keys to Values or Null
  Values,    \* values a setting can take (for the mail address: stand-ins)
  Null,      \* explicit JSON null
  Absent,    \* no row for this key
  Default,   \* Keys -> value of the configuration
  Seeded,    \* keys scripts/seed.py inserted
  SeedValue  \* Keys -> value it inserts

Warning  == "aqi_warning_threshold"
Critical == "aqi_critical_threshold"
Email    == "alert_email"
Pair == {Warning, Critical}
Keys == {Warning, Critical, Email}

\* The order of the fields of AdminSettingsUpdate, hence of model_dump().
FieldOrder == <<Warning, Critical, Email>>

ASSUME SettingsConstants ==
  /\ Values \subseteq Nat
  /\ Null \notin Values /\ Absent \notin Values
  /\ \A p \in Patches : \E d \in SUBSET Keys : p \in [d -> Values \cup {Null}]
  /\ Default \in [Keys -> Values] /\ Default[Warning] < Default[Critical]
  /\ Seeded \subseteq Keys
  /\ SeedValue \in [Keys -> Values] /\ SeedValue[Warning] < SeedValue[Critical]

VARIABLES
  rows,    \* key -> committed value of its row, or Absent
  audit,   \* key -> its committed audit entries, oldest first
  pc,      \* request -> "idle", "precheck", "select", "lock", "write", "done"
  patch,   \* request -> its validated body
  seen,    \* request -> rows its FOR UPDATE statement found
  held,    \* request -> keys whose row its transaction has locked or written
  old,     \* request -> key -> old_value for the audit entry
  written, \* request -> keys upserted so far
  answer   \* request -> "none", "ok", "rejected" (422), "error" (500)

tx   == <<seen, held, old, written>>
vars == <<rows, audit, pc, patch, seen, held, old, written, answer>>

NoPatch == [k \in {} |-> Absent]
Unknown == [k \in Keys |-> Absent]
Bodies == UNION {[d -> Values] : d \in SUBSET Keys}
Entry == [old : Values \cup {Absent}, new : Values]

TypeOK ==
  /\ rows \in [Keys -> Values \cup {Absent}]
  /\ audit \in [Keys -> Seq(Entry)]
  /\ pc \in [Reqs -> {"idle", "precheck", "select", "lock", "write", "done"}]
  /\ patch \in [Reqs -> Bodies]
  /\ seen \in [Reqs -> SUBSET Keys]
  /\ held \in [Reqs -> SUBSET Keys]
  /\ old \in [Reqs -> [Keys -> Values \cup {Absent}]]
  /\ written \in [Reqs -> SUBSET Keys]
  /\ answer \in [Reqs -> {"none", "ok", "rejected", "error"}]

Init ==
  /\ rows = [k \in Keys |-> IF k \in Seeded THEN SeedValue[k] ELSE Absent]
  /\ audit = [k \in Keys |-> <<>>]
  /\ pc = [r \in Reqs |-> "idle"]
  /\ patch = [r \in Reqs |-> NoPatch]
  /\ seen = [r \in Reqs |-> {}]
  /\ held = [r \in Reqs |-> {}]
  /\ old = [r \in Reqs |-> Unknown]
  /\ written = [r \in Reqs |-> {}]
  /\ answer = [r \in Reqs |-> "none"]

-----------------------------------------------------------------------------
(* Faulty variants of definitions below.                                    *)

\* Only the snapshot of the other session is validated (L54).
Recheck_Skipped(r) == TRUE

\* A plain SELECT: nobody waits for a row.
MayLock_NoWait(r, k) == TRUE

\* The early 422 return leaves the transaction open.
Rollback_Forgotten(r) == UNCHANGED <<seen, held, old, written>>

-----------------------------------------------------------------------------
\* _merged_int: the patch, else the row, else the configuration.
Merged(p, row, k) ==
  IF k \in DOMAIN p THEN p[k]
  ELSE IF row[k] # Absent THEN row[k]
  ELSE Default[k]

Ordered(p, row) == Merged(p, row, Warning) < Merged(p, row, Critical)

HasNull(p) == \E k \in DOMAIN p : p[k] = Null

\* AdminSettingsUpdate._thresholds_ordered: only when both are supplied.
PatchOrdered(p) ==
  (/\ Pair \subseteq DOMAIN p
   /\ \A k \in Pair : p[k] # Null) => p[Warning] < p[Critical]

Finish(r, status) ==
  /\ pc' = [pc EXCEPT ![r] = "done"]
  /\ answer' = [answer EXCEPT ![r] = status]

\* The transaction ends without effect and its locks are released.
Rollback(r) ==
  /\ seen' = [seen EXCEPT ![r] = {}]
  /\ held' = [held EXCEPT ![r] = {}]
  /\ old' = [old EXCEPT ![r] = Unknown]
  /\ written' = [written EXCEPT ![r] = {}]

\* Schema validation, the empty patch and the null check.
Receive(r, p) ==
  /\ pc[r] = "idle"
  /\ IF ~PatchOrdered(p)
     THEN Finish(r, "rejected") /\ UNCHANGED patch
     ELSE IF DOMAIN p = {}
     THEN Finish(r, "ok") /\ UNCHANGED patch
     ELSE IF HasNull(p)
     THEN Finish(r, "rejected") /\ UNCHANGED patch
     ELSE /\ pc' = [pc EXCEPT ![r] = "precheck"]
          /\ patch' = [patch EXCEPT ![r] = p]
          /\ UNCHANGED answer
  /\ UNCHANGED <<rows, audit, tx>>

\* The merged pair as _load_settings sees it in a session of its own.
PreCheck(r) ==
  /\ pc[r] = "precheck"
  /\ IF Ordered(patch[r], rows)
     THEN pc' = [pc EXCEPT ![r] = "select"] /\ UNCHANGED answer
     ELSE Finish(r, "rejected")
  /\ UNCHANGED <<rows, audit, patch, tx>>

\* The FOR UPDATE statement takes its snapshot: it will lock the rows of the
\* patched keys and of the pair that exist now.
SelectForUpdate(r) ==
  /\ pc[r] = "select"
  /\ seen' = [seen EXCEPT ![r] =
               {k \in DOMAIN patch[r] \cup Pair : rows[k] # Absent}]
  /\ pc' = [pc EXCEPT ![r] = "lock"]
  /\ UNCHANGED <<rows, audit, patch, held, old, written, answer>>

\* A row another transaction has locked or written is waited for.
MayLock(r, k) == \A q \in Reqs \ {r} : k \notin held[q]

LockRow(r, k) ==
  /\ pc[r] = "lock"
  /\ k \in seen[r] \ held[r]
  /\ MayLock(r, k)
  /\ held' = [held EXCEPT ![r] = @ \cup {k}]
  /\ UNCHANGED <<rows, audit, pc, patch, seen, old, written, answer>>

\* locked_settings: the newest committed values of the rows it locked.
Locked(r) == [k \in Keys |-> IF k \in seen[r] THEN rows[k] ELSE Absent]

\* The merged pair, validated again inside the transaction (L54).
Recheck(r) == Ordered(patch[r], Locked(r))

Revalidate(r) ==
  /\ pc[r] = "lock"
  /\ seen[r] \subseteq held[r]
  /\ Recheck(r)
  /\ pc' = [pc EXCEPT ![r] = "write"]
  /\ old' = [old EXCEPT ![r] = [k \in Keys |-> IF k \in DOMAIN patch[r]
                                               THEN Locked(r)[k] ELSE Absent]]
  /\ UNCHANGED <<rows, audit, patch, seen, held, written, answer>>

RevalidateFails(r) ==
  /\ pc[r] = "lock"
  /\ seen[r] \subseteq held[r]
  /\ ~Recheck(r)
  /\ Rollback(r)
  /\ Finish(r, "rejected")
  /\ UNCHANGED <<rows, audit, patch>>

\* Keys are upserted in field order.
NextKey(r, k) ==
  /\ k \in DOMAIN patch[r] \ written[r]
  /\ \E i \in DOMAIN FieldOrder :
       /\ FieldOrder[i] = k
       /\ \A j \in 1..(i - 1) : FieldOrder[j] \notin DOMAIN patch[r] \ written[r]

\* INSERT ... ON CONFLICT DO UPDATE; it waits for an uncommitted insert or
\* update of the same key.  The audit entry is added to the session.
Upsert(r, k) ==
  /\ pc[r] = "write"
  /\ NextKey(r, k)
  /\ MayLock(r, k)
  /\ held' = [held EXCEPT ![r] = @ \cup {k}]
  /\ written' = [written EXCEPT ![r] = @ \cup {k}]
  /\ UNCHANGED <<rows, audit, pc, patch, seen, old, answer>>

\* Rows and audit entries become visible together.
Commit(r) ==
  /\ pc[r] = "write"
  /\ written[r] = DOMAIN patch[r]
  /\ rows' = [k \in Keys |-> IF k \in DOMAIN patch[r] THEN patch[r][k] ELSE rows[k]]
  /\ audit' = [k \in Keys |->
                IF k \in DOMAIN patch[r]
                THEN Append(audit[k], [old |-> old[r][k], new |-> patch[r][k]])
                ELSE audit[k]]
  /\ Rollback(r)   \* nothing is left to undo; the locks go
  /\ Finish(r, "ok")
  /\ UNCHANGED patch

\* r waits for a row that a member of S holds.
WaitsIn(r, S) ==
  \/ /\ pc[r] = "lock"
     /\ ~ seen[r] \subseteq held[r]
     /\ \A k \in seen[r] \ held[r] : \E q \in S \ {r} : k \in held[q]
  \/ /\ pc[r] = "write"
     /\ \E k \in Keys : NextKey(r, k) /\ \E q \in S \ {r} : k \in held[q]

\* PostgreSQL finds a cycle of waiting transactions and aborts one.
DeadlockAbort(r) ==
  /\ \E S \in SUBSET Reqs : r \in S /\ \A q \in S : WaitsIn(q, S)
  /\ Rollback(r)
  /\ Finish(r, "error")
  /\ UNCHANGED <<rows, audit, patch>>

\* The database goes away or the request is cancelled.
DbError(r) ==
  /\ pc[r] \in {"precheck", "select", "lock", "write"}
  /\ Rollback(r)
  /\ Finish(r, "error")
  /\ UNCHANGED <<rows, audit, patch>>

-----------------------------------------------------------------------------
ReqStep(r) ==
  \/ \E p \in Patches : Receive(r, p)
  \/ PreCheck(r)
  \/ SelectForUpdate(r)
  \/ \E k \in Keys : LockRow(r, k)
  \/ Revalidate(r)
  \/ RevalidateFails(r)
  \/ \E k \in Keys : Upsert(r, k)
  \/ Commit(r)

Next == \E r \in Reqs : ReqStep(r) \/ DeadlockAbort(r) \/ DbError(r)

Spec == Init /\ [][Next]_vars

\* The event loop runs every request on; PostgreSQL resolves deadlocks.
FairSpec == Spec /\ \A r \in Reqs : WF_vars(ReqStep(r)) /\ WF_vars(DeadlockAbort(r))

-----------------------------------------------------------------------------
(* Properties                                                               *)

\* What GET /admin/settings and check_thresholds use for a key.
Effective(k) == IF rows[k] = Absent THEN Default[k] ELSE rows[k]

\* Concurrent patches, each of one side of the pair, never leave a warning
\* threshold that is not below the critical one (L54).
PairOrdered == Effective(Warning) < Effective(Critical)

\* The value before the i-th audit entry of a key.
Before(k, i) ==
  IF i = 1 THEN IF k \in Seeded THEN SeedValue[k] ELSE Absent
  ELSE audit[k][i - 1].new

\* The audit entries of a key tell its whole history: each starts from the
\* value the one before left, and the last one leaves the current value.
ChainOf(k) ==
  /\ \A i \in DOMAIN audit[k] : audit[k][i].old = Before(k, i)
  /\ rows[k] = Before(k, Len(audit[k]) + 1)

\* Concurrent patches of a seeded key: no change is missing from the audit
\* trail and none is recorded with a stale old_value (M13).
AuditChain == \A k \in Seeded : ChainOf(k)

\* "read the current DB value for every key we're about to touch so an audit
\* trail can record the change (old -> new)" (api/admin.py, M13): the same
\* for every key, the ones without a row included.
AuditChainAllKeys == \A k \in Keys : ChainOf(k)

\* Every request is answered: waiting for row locks never lasts forever.
EveryPatchAnswered == \A r \in Reqs : pc[r] # "idle" ~> pc[r] = "done"
=============================================================================
