------------------------------- MODULE Alerts -------------------------------
(***************************************************************************)
(* Threshold alerts: the beat task check_thresholds (tasks/alerts.py),     *)
(* which several Celery workers may run at the same time, and the          *)
(* acknowledge endpoint (api/alerts.py).  Both write the alerts table,     *)
(* PostgreSQL at READ COMMITTED, whose partial unique index allows one     *)
(* unacknowledged row per node.  A run is one transaction: it reads the    *)
(* settings and the latest fresh AQI of every node, upserts node by node   *)
(* in node_id order, commits, and only then notifies.                      *)
(***************************************************************************)
EXTENDS Naturals, Sequences, FiniteSets

CONSTANTS
  Nodes,       \* active nodes, numbers so that ORDER BY node_id means <
  Runs,        \* concurrent executions of check_thresholds
  Users,       \* concurrent acknowledge requests
  None,        \* no severity / no user
  NoData,      \* the node has no fresh reading with an AQI
  Aqis,        \* AQI values that occur
  WARNING,     \* warning threshold in force
  CRITICAL,    \* critical threshold in force
  MaxAcks,     \* bound: acknowledge requests in a behaviour
  MaxCrashes   \* bound: aborted runs in a behaviour

Severities == {"warning", "critical"}

\* A statement of an open transaction: a new row, or an upgrade of the open one.
Write == [insert : BOOLEAN, severity : Severities]

\* An alert_id: a node and the position among its rows.
AlertId == Nodes \X (Nat \ {0})

ASSUME AlertConstants ==
  /\ Nodes \subseteq Nat /\ IsFiniteSet(Nodes) /\ Aqis \subseteq Nat
  /\ Runs # {}
  /\ WARNING \in Nat /\ CRITICAL \in Nat
  /\ None \notin Severities /\ None \notin Users
  /\ None \notin Write /\ None \notin AlertId
  /\ NoData \notin Aqis
  /\ MaxAcks \in Nat /\ MaxCrashes \in Nat

VARIABLES
  latest,          \* node -> AQI of its latest fresh reading, or NoData
  alerts_enabled,  \* the master toggle in system_settings
  alerts,          \* node -> rows of the alerts table, oldest first
  rpc,             \* run -> "idle", "upsert", "publish"
  todo,            \* run -> node -> severity its snapshot calls for, or None
  writes,          \* run -> node -> what it wrote and has not committed
  locked,          \* run -> nodes whose open row its transaction has locked
  outbox,          \* run -> notifications to send after the commit
  notified,        \* <<node, row, severity>> published on air/alerts
  sends,           \* number of publish_alert calls
  apc,             \* request -> "idle", "write"
  aid,             \* request -> <<node, row>> it loaded
  acks, crashes    \* used up bounds

runvars == <<rpc, todo, writes, locked, outbox>>
ackvars == <<apc, aid, acks>>
vars == <<latest, alerts_enabled, alerts, rpc, todo, writes, locked, outbox,
          notified, sends, apc, aid, acks, crashes>>

Row == [severity : Severities, acknowledged_by : Users \cup {None}]
Note == Nodes \X (Nat \ {0}) \X Severities

TypeOK ==
  /\ latest \in [Nodes -> Aqis \cup {NoData}]
  /\ alerts_enabled \in BOOLEAN
  /\ alerts \in [Nodes -> Seq(Row)]
  /\ rpc \in [Runs -> {"idle", "upsert", "publish"}]
  /\ todo \in [Runs -> [Nodes -> Severities \cup {None}]]
  /\ writes \in [Runs -> [Nodes -> Write \cup {None}]]
  /\ locked \in [Runs -> SUBSET Nodes]
  /\ outbox \in [Runs -> SUBSET Note]
  /\ notified \subseteq Note
  /\ sends \in Nat
  /\ apc \in [Users -> {"idle", "write"}]
  /\ aid \in [Users -> AlertId \cup {None}]
  /\ \A u \in Users : apc[u] = "write" => /\ aid[u] # None
                                          /\ aid[u][2] \in DOMAIN alerts[aid[u][1]]
  /\ acks \in 0..MaxAcks
  /\ crashes \in 0..MaxCrashes

-----------------------------------------------------------------------------
Rank(s) == CASE s = "critical" -> 2 [] s = "warning" -> 1 [] OTHER -> 0

\* The node's unacknowledged row is its newest one, if any.
IsOpen(row) == row.acknowledged_by = None
HasOpen(n) == alerts[n] # <<>> /\ IsOpen(alerts[n][Len(alerts[n])])
OpenSeverity(n) == IF HasOpen(n) THEN alerts[n][Len(alerts[n])].severity ELSE None

Nothing == [n \in Nodes |-> None]

LockFree(n) == \A r \in Runs : n \notin locked[r]

Init ==
  /\ latest = [n \in Nodes |-> NoData]
  /\ alerts_enabled = TRUE
  /\ alerts = [n \in Nodes |-> <<>>]
  /\ rpc = [r \in Runs |-> "idle"]
  /\ todo = [r \in Runs |-> Nothing]
  /\ writes = [r \in Runs |-> Nothing]
  /\ locked = [r \in Runs |-> {}]
  /\ outbox = [r \in Runs |-> {}]
  /\ notified = {} /\ sends = 0
  /\ apc = [u \in Users |-> "idle"]
  /\ aid = [u \in Users |-> None]
  /\ acks = 0 /\ crashes = 0

-----------------------------------------------------------------------------
(* Faulty variants of definitions below.                                    *)

\* Check-then-insert: two transactions do not wait for each other.
MayUpsert_NoLock(r, n) == TRUE

\* The upsert replaces an open row of equal severity as well.
Outranks_OrEqual(s, t) == Rank(s) >= Rank(t)

\* Any new breach overwrites the open row.
Outranks_Always(s, t) == TRUE

\* The notification is sent when the row is written, before the commit.
Upsert_PublishesEarly(r, n) ==
  LET s == todo[r][n]
      hit == ~HasOpen(n) \/ Rank(s) > Rank(OpenSeverity(n))
  IN /\ rpc[r] = "upsert"
     /\ s # None
     /\ \A k \in Nodes : k < n => todo[r][k] = None
     /\ \A q \in Runs \ {r} : n \notin locked[q]
     /\ todo' = [todo EXCEPT ![r][n] = None]
     /\ locked' = [locked EXCEPT ![r] = @ \cup {n}]
     /\ writes' = [writes EXCEPT ![r][n] =
                    IF hit THEN [insert |-> ~HasOpen(n), severity |-> s] ELSE None]
     /\ IF hit THEN /\ sends' = sends + 1
                    /\ notified' = notified \cup
                         {<<n, Len(alerts[n]) + (IF HasOpen(n) THEN 0 ELSE 1), s>>}
               ELSE UNCHANGED <<sends, notified>>
     /\ UNCHANGED <<latest, alerts_enabled, alerts, rpc, outbox,
                    ackvars, crashes>>

\* An open warning suppresses a later critical (M-4).
Outranks_Never(s, t) == FALSE

\* The runs visit the nodes in the order the rows happen to come back.
Turn_AnyOrder(r, n) == TRUE

-----------------------------------------------------------------------------
(* Environment                                                              *)

\* A reading arrives for the node, or its last one leaves the 10 minute
\* window (or the node is deactivated).
ReadingChanges(n) ==
  /\ \E v \in Aqis \cup {NoData} : v # latest[n] /\ latest' = [latest EXCEPT ![n] = v]
  /\ UNCHANGED <<alerts_enabled, alerts, runvars, notified, sends, ackvars,
                 crashes>>

ToggleAlerts ==
  /\ alerts_enabled' = ~alerts_enabled
  /\ UNCHANGED <<latest, alerts, runvars, notified, sends, ackvars, crashes>>

-----------------------------------------------------------------------------
(* check_thresholds                                                         *)

\* Which severity the latest fresh AQI of a node calls for.
SeverityOf(n) ==
  IF latest[n] = NoData THEN None
  ELSE IF latest[n] >= CRITICAL THEN "critical"
  ELSE IF latest[n] >= WARNING THEN "warning"
  ELSE None

\* The toggle is off: return at once.
RunDisabled(r) ==
  /\ rpc[r] = "idle"
  /\ ~alerts_enabled
  /\ UNCHANGED vars

\* Settings and the grouped latest-reading query.
RunBegin(r) ==
  /\ rpc[r] = "idle"
  /\ alerts_enabled
  /\ rpc' = [rpc EXCEPT ![r] = "upsert"]
  /\ todo' = [todo EXCEPT ![r] = [n \in Nodes |-> SeverityOf(n)]]
  /\ UNCHANGED <<latest, alerts_enabled, alerts, writes, locked, outbox, notified,
                 sends, ackvars, crashes>>

\* Rows come back ordered by node_id.
Turn(r, n) == \A k \in Nodes : k < n => todo[r][k] = None

\* ON CONFLICT waits for a transaction that wrote or locked the node's row.
MayUpsert(r, n) == \A q \in Runs \ {r} : n \notin locked[q]

\* The WHERE of the DO UPDATE: the new severity strictly outranks the old.
Outranks(s, t) == Rank(s) > Rank(t)

\* _upsert_alert: insert, upgrade or suppress; the row is locked in any case.
Upsert(r, n) ==
  LET s == todo[r][n]
      hit == ~HasOpen(n) \/ Outranks(s, OpenSeverity(n))
  IN /\ rpc[r] = "upsert"
     /\ s # None
     /\ Turn(r, n)
     /\ MayUpsert(r, n)
     /\ todo' = [todo EXCEPT ![r][n] = None]
     /\ locked' = [locked EXCEPT ![r] = @ \cup {n}]
     /\ writes' = [writes EXCEPT ![r][n] =
                    IF hit THEN [insert |-> ~HasOpen(n), severity |-> s] ELSE None]
     /\ UNCHANGED <<latest, alerts_enabled, alerts, rpc, outbox, notified, sends, ackvars, crashes>>

\* One node's rows after the transaction of run r.
Written(r, n) ==
  LET rows == alerts[n]
      w    == writes[r][n]
  IN IF w = None THEN rows
     ELSE IF w.insert THEN Append(rows, [severity |-> w.severity, acknowledged_by |-> None])
     ELSE [rows EXCEPT ![Len(rows)].severity = w.severity]

\* The with-block of get_sync_db ends: commit, then the deferred lists.
Commit(r) ==
  LET hits == {n \in Nodes : writes[r][n] # None}
      note(n) == <<n, Len(Written(r, n)), writes[r][n].severity>>
  IN /\ rpc[r] = "upsert"
     /\ todo[r] = Nothing
     /\ alerts' = [n \in Nodes |-> Written(r, n)]
     /\ outbox' = [outbox EXCEPT ![r] = {note(n) : n \in hits}]
     /\ writes' = [writes EXCEPT ![r] = Nothing]
     /\ locked' = [locked EXCEPT ![r] = {}]
     /\ rpc' = [rpc EXCEPT ![r] = "publish"]
     /\ UNCHANGED <<latest, alerts_enabled, todo, notified, sends, ackvars, crashes>>

\* publish_alert for the next deferred notification, in node order.
Publish(r, m) ==
  /\ rpc[r] = "publish"
  /\ m \in outbox[r]
  /\ \A k \in outbox[r] : m[1] <= k[1]
  /\ notified' = notified \cup {m}
  /\ sends' = sends + 1
  /\ outbox' = [outbox EXCEPT ![r] = @ \ {m}]
  /\ UNCHANGED <<latest, alerts_enabled, alerts, rpc, todo, writes, locked, ackvars, crashes>>

\* All published.  The mail batch and the heartbeat stamp that follow are
\* fail-soft and write nothing that is modelled here.
RunEnd(r) ==
  /\ rpc[r] = "publish"
  /\ outbox[r] = {}
  /\ rpc' = [rpc EXCEPT ![r] = "idle"]
  /\ UNCHANGED <<latest, alerts_enabled, alerts, todo, writes, locked, outbox, notified,
                 sends, ackvars, crashes>>

\* The worker dies, hits the time limit or loses the database: the
\* transaction rolls back, unsent notifications are gone, the task is
\* retried or the next beat starts over.
Crash(r) ==
  /\ rpc[r] # "idle"
  /\ crashes < MaxCrashes
  /\ crashes' = crashes + 1
  /\ rpc' = [rpc EXCEPT ![r] = "idle"]
  /\ todo' = [todo EXCEPT ![r] = Nothing]
  /\ writes' = [writes EXCEPT ![r] = Nothing]
  /\ locked' = [locked EXCEPT ![r] = {}]
  /\ outbox' = [outbox EXCEPT ![r] = {}]
  /\ UNCHANGED <<latest, alerts_enabled, alerts, notified, sends, ackvars>>

-----------------------------------------------------------------------------
(* acknowledge_alert                                                        *)

\* session.get finds the row; an acknowledged one is returned unchanged.
AckRead(u, n, i) ==
  /\ apc[u] = "idle"
  /\ acks < MaxAcks
  /\ i \in DOMAIN alerts[n]
  /\ acks' = acks + 1
  /\ IF IsOpen(alerts[n][i])
     THEN apc' = [apc EXCEPT ![u] = "write"] /\ aid' = [aid EXCEPT ![u] = <<n, i>>]
     ELSE UNCHANGED <<apc, aid>>
  /\ UNCHANGED <<latest, alerts_enabled, alerts, runvars, notified, sends, crashes>>

\* UPDATE ... WHERE alert_id and commit.  The update waits for a run that
\* holds the open row, then applies to whatever version it left.
AckWrite(u) ==
  LET n == aid[u][1]
      i == aid[u][2]
  IN /\ apc[u] = "write"
     /\ IsOpen(alerts[n][i]) => LockFree(n)
     /\ alerts' = [alerts EXCEPT ![n][i].acknowledged_by = u]
     /\ apc' = [apc EXCEPT ![u] = "idle"]
     /\ aid' = [aid EXCEPT ![u] = None]
     /\ UNCHANGED <<latest, alerts_enabled, runvars, notified, sends, acks, crashes>>

-----------------------------------------------------------------------------
RunStep(r) ==
  \/ RunDisabled(r)
  \/ RunBegin(r)
  \/ \E n \in Nodes : Upsert(r, n)
  \/ Commit(r)
  \/ \E m \in outbox[r] : Publish(r, m)
  \/ RunEnd(r)

AckStep(u) == AckWrite(u)

Next ==
  \/ \E n \in Nodes : ReadingChanges(n)
  \/ ToggleAlerts
  \/ \E r \in Runs : RunStep(r) \/ Crash(r)
  \/ \E u \in Users : AckStep(u) \/ \E n \in Nodes : \E i \in DOMAIN alerts[n] : AckRead(u, n, i)

Spec == Init /\ [][Next]_vars

\* Beat keeps dispatching the task and workers keep executing it; a request
\* that has loaded the alert finishes.
FairSpec == /\ Spec
            /\ \A r \in Runs : WF_vars(RunStep(r))
            /\ \A u \in Users : WF_vars(AckStep(u))

-----------------------------------------------------------------------------
(* Properties                                                               *)

\* At most one unacknowledged alert per node, and it is the newest one, with
\* any number of runs and acknowledgements interleaved (M-4).
OneOpenAlertPerNode ==
  \A n \in Nodes : \A i \in DOMAIN alerts[n] :
    IsOpen(alerts[n][i]) => i = Len(alerts[n])

\* Every notification is about a committed row that is at least as severe: a
\* run that rolls back after its upserts has told nobody.
NotifiedAfterCommit ==
  \A m \in notified : /\ m[2] \in DOMAIN alerts[m[1]]
                      /\ Rank(alerts[m[1]][m[2]].severity) >= Rank(m[3])

\* A row is announced at most once per severity, however often the task is
\* retried or runs twice at the same time.
NotifiedAtMostOnce == sends = Cardinality(notified)

\* A run waits when the row of its next node is held by another run.
Blocked(r) == /\ rpc[r] = "upsert"
              /\ todo[r] # Nothing
              /\ \A n \in Nodes : todo[r][n] # None /\ Turn(r, n) => ~MayUpsert(r, n)

\* The runs never all wait for each other's row locks: each takes them in
\* node_id order.
SomeRunProgresses == \E r \in Runs : ~Blocked(r)

\* While a node stays above the critical threshold, acknowledgements,
\* crashes and stale snapshots only interrupt its open critical alert.
BreachStaysVisible ==
  \A n \in Nodes :
    <>[](alerts_enabled /\ latest[n] # NoData /\ latest[n] >= CRITICAL) =>
      <>[](OpenSeverity(n) = "critical")

\* What an operator sees of a node's alerts (module AlertBoard).
Board == INSTANCE AlertBoard WITH open <- [n \in Nodes |-> OpenSeverity(n)]
BoardSpec == Board!Spec

\* "acknowledging an already-acknowledged alert is a no-op" (docs/api.md):
\* who acknowledged an alert never changes afterwards.
AckIsFinal ==
  [][\A n \in Nodes : \A i \in DOMAIN alerts[n] :
       alerts[n][i].acknowledged_by # None =>
         alerts'[n][i].acknowledged_by = alerts[n][i].acknowledged_by]_vars
=============================================================================
