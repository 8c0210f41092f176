---------------------------- MODULE AlertsProofs ----------------------------
(***************************************************************************)
(* Proofs about Alerts, for any nodes, runs, users, thresholds and bounds.  *)
(* What a run decided about a node when it executed the upsert is still     *)
(* true when it commits, because it holds the lock on the node's row from   *)
(* then on: another run waits in ON CONFLICT, an acknowledgement waits in   *)
(* its UPDATE.  From that follow the single open row, the fresh             *)
(* notifications, and that every step is one an operator may see on the     *)
(* AlertBoard.  Then, about AlertDelivery, for any alerts, sockets and      *)
(* bounds: where a published alert can be (queue, hand, cast, a socket) and *)
(* the only places at which it may be given up.                             *)
(***************************************************************************)
EXTENDS Alerts, AlertDelivery, FiniteSetTheorems, SequenceTheorems, WellFoundedInduction, TLAPS

\* Two transactions never hold the row of the same node.
LocksExclusive == \A r, q \in Runs : r # q => locked[r] \cap locked[q] = {}

\* Only a run in its transaction has reads, writes and locks, and only a
\* committed one has notifications to send.
RunShape ==
  \A r \in Runs :
    /\ rpc[r] # "upsert" => /\ locked[r] = {}
                            /\ \A n \in Nodes : writes[r][n] = None /\ todo[r][n] = None
    /\ rpc[r] # "publish" => outbox[r] = {}

\* What run r wrote about node n would still be decided the same way.
WriteStands(r, n) ==
  /\ n \in locked[r]
  /\ writes[r][n].insert <=> ~HasOpen(n)
  /\ HasOpen(n) => Rank(writes[r][n].severity) > Rank(OpenSeverity(n))

WritesStand == \A r \in Runs : \A n \in Nodes : writes[r][n] # None => WriteStands(r, n)

\* A run locks the rows in node order.
LockOrder ==
  \A r \in Runs : \A k \in locked[r], n \in Nodes : todo[r][n] # None => k < n

\* The note is about a committed row that is at least as severe.
Recorded(m) == /\ m[2] \in DOMAIN alerts[m[1]]
               /\ Rank(alerts[m[1]][m[2]].severity) >= Rank(m[3])

\* What is about to be sent is committed, was not sent before, and is about
\* to be sent by one run only.
OutboxFresh ==
  \A r \in Runs : \A m \in outbox[r] :
    /\ Recorded(m)
    /\ m \notin notified
    /\ \A q \in Runs \ {r} : m \notin outbox[q]

SendsCounted == IsFiniteSet(notified) /\ NotifiedAtMostOnce

AlertsInv ==
  /\ TypeOK
  /\ LocksExclusive
  /\ RunShape
  /\ WritesStand
  /\ LockOrder
  /\ OneOpenAlertPerNode
  /\ NotifiedAfterCommit
  /\ OutboxFresh
  /\ SendsCounted

-----------------------------------------------------------------------------
\* The order of the severities.
LEMMA RankFacts ==
  /\ Rank("critical") = 2 /\ Rank("warning") = 1 /\ Rank(None) = 0
  /\ \A s \in Severities \cup {None} : Rank(s) \in Nat
  /\ \A s \in Severities : Rank(s) >= 1
BY AlertConstants DEF Rank, Severities

\* The rows of a node.
LEMMA RowFacts ==
  ASSUME TypeOK, NEW n \in Nodes
  PROVE  /\ alerts[n] \in Seq(Row) /\ Len(alerts[n]) \in Nat
         /\ DOMAIN alerts[n] = 1..Len(alerts[n])
         /\ \A i \in DOMAIN alerts[n] : /\ alerts[n][i] \in Row
                                       /\ Rank(alerts[n][i].severity) \in Nat
         /\ HasOpen(n) <=> /\ Len(alerts[n]) > 0
                           /\ IsOpen(alerts[n][Len(alerts[n])])
         /\ HasOpen(n) => OpenSeverity(n) = alerts[n][Len(alerts[n])].severity
         /\ ~HasOpen(n) => OpenSeverity(n) = None
<1>1. alerts[n] \in Seq(Row)
  BY DEF TypeOK
<1>2. Len(alerts[n]) \in Nat /\ DOMAIN alerts[n] = 1..Len(alerts[n])
  BY <1>1, LenProperties
<1>3. ASSUME NEW i \in DOMAIN alerts[n] PROVE alerts[n][i] \in Row
  BY <1>1, <1>2, <1>3, ElementOfSeq
<1>4. \A i \in DOMAIN alerts[n] : Rank(alerts[n][i].severity) \in Nat
  BY <1>3, RankFacts DEF Row
<1>5. alerts[n] = <<>> <=> Len(alerts[n]) = 0
  BY <1>1, EmptySeq
<1> QED BY <1>1, <1>2, <1>3, <1>4, <1>5 DEF HasOpen, OpenSeverity

\* The initial state: an empty table and no run under way.
LEMMA InitInv == Init => AlertsInv
<1> SUFFICES ASSUME Init PROVE AlertsInv
  OBVIOUS
<1> USE AlertConstants DEF Init, Nothing
<1>1. TypeOK
  <2>1. acks \in 0..MaxAcks /\ crashes \in 0..MaxCrashes
    OBVIOUS
  <2>2. alerts \in [Nodes -> Seq(Row)]
    BY EmptySeq
  <2>3. \A u \in Users : apc[u] # "write"
    OBVIOUS
  <2> QED BY <2>1, <2>2, <2>3 DEF TypeOK
<1>2. LocksExclusive /\ RunShape /\ WritesStand /\ LockOrder /\ OutboxFresh
  BY DEF LocksExclusive, RunShape, WritesStand, LockOrder, OutboxFresh
<1>3. OneOpenAlertPerNode
  BY EmptySeq DEF OneOpenAlertPerNode
<1>4. NotifiedAfterCommit
  BY DEF NotifiedAfterCommit
<1>5. SendsCounted
  BY FS_EmptySet DEF SendsCounted, NotifiedAtMostOnce
<1> QED BY <1>1, <1>2, <1>3, <1>4, <1>5 DEF AlertsInv

\* Readings, the settings and the first half of an acknowledgement touch
\* neither the table nor a run.
LEMMA QuietStep ==
  ASSUME AlertsInv, TypeOK', UNCHANGED <<alerts, runvars, notified, sends>>
  PROVE  AlertsInv'
<1> USE DEF AlertsInv, runvars
<1>1. LocksExclusive' /\ RunShape' /\ LockOrder'
  BY DEF LocksExclusive, RunShape, LockOrder
<1>2. WritesStand'
  BY DEF WritesStand, WriteStands, HasOpen, OpenSeverity
<1>3. OneOpenAlertPerNode' /\ NotifiedAfterCommit'
  BY DEF OneOpenAlertPerNode, NotifiedAfterCommit
<1>4. OutboxFresh' /\ SendsCounted'
  BY DEF OutboxFresh, Recorded, SendsCounted, NotifiedAtMostOnce
<1> QED BY <1>1, <1>2, <1>3, <1>4

\* One node's rows when run r commits: they grow or keep their length, keep
\* who acknowledged them, never become less severe, and what r wrote is the
\* open row.
LEMMA WrittenFacts ==
  ASSUME AlertsInv, NEW r \in Runs, NEW n \in Nodes
  PROVE  LET w == writes[r][n] IN
         /\ Written(r, n) \in Seq(Row)
         /\ Len(Written(r, n)) = IF w # None /\ w.insert
                                 THEN Len(alerts[n]) + 1 ELSE Len(alerts[n])
         /\ \A i \in DOMAIN alerts[n] :
              /\ Written(r, n)[i].acknowledged_by = alerts[n][i].acknowledged_by
              /\ Rank(Written(r, n)[i].severity) >= Rank(alerts[n][i].severity)
         /\ w = None => Written(r, n) = alerts[n]
         /\ w # None => LET last == Len(Written(r, n)) IN
              /\ w \in Write
              /\ last \in Nat \ {0}
              /\ IsOpen(Written(r, n)[last])
              /\ Written(r, n)[last].severity = w.severity
              /\ last \in DOMAIN alerts[n] =>
                   Rank(w.severity) > Rank(alerts[n][last].severity)
<1> DEFINE w == writes[r][n]
           rows == alerts[n]
<1>1. /\ TypeOK
      /\ w # None => WriteStands(r, n)
      /\ w \in Write \cup {None}
  BY DEF AlertsInv, WritesStand, TypeOK
<1>2. /\ rows \in Seq(Row) /\ Len(rows) \in Nat
      /\ DOMAIN rows = 1..Len(rows)
      /\ \A i \in DOMAIN rows : rows[i] \in Row /\ Rank(rows[i].severity) \in Nat
  BY <1>1, RowFacts
<1>3. CASE w = None
  <2>1. Written(r, n) = rows
    BY <1>3 DEF Written
  <2> QED BY <2>1, <1>2, <1>3
<1>4. CASE w # None /\ w.insert
  <2> DEFINE new == [severity |-> w.severity, acknowledged_by |-> None]
  <2>1. Written(r, n) = Append(rows, new)
    BY <1>4 DEF Written
  <2>2. new \in Row /\ w \in Write
    BY <1>1, <1>4 DEF Row, Write
  <2> HIDE DEF new
  <2>3. /\ Append(rows, new) \in Seq(Row)
        /\ Len(Append(rows, new)) = Len(rows) + 1
        /\ \A i \in 1..Len(rows) : Append(rows, new)[i] = rows[i]
        /\ Append(rows, new)[Len(rows) + 1] = new
    BY <1>2, <2>2, AppendProperties
  <2>4. new.severity = w.severity /\ IsOpen(new)
    BY DEF new, IsOpen
  <2> QED BY <2>1, <2>2, <2>3, <2>4, <1>2, <1>4
<1>5. CASE w # None /\ ~w.insert
  <2> DEFINE k == Len(rows)
             new == [rows[k] EXCEPT !.severity = w.severity]
  <2>1. w \in Write
    BY <1>1, <1>5
  <2>2. HasOpen(n) /\ Rank(w.severity) > Rank(OpenSeverity(n))
    BY <1>1, <1>5 DEF WriteStands
  <2>3. /\ k > 0 /\ IsOpen(rows[k]) /\ k \in 1..k
        /\ OpenSeverity(n) = rows[k].severity /\ rows[k] \in Row
    BY <1>1, <1>2, <2>2, RowFacts
  <2>4. Written(r, n) = [rows EXCEPT ![k] = new]
    BY <1>5 DEF Written
  <2>5. /\ new \in Row /\ new.severity = w.severity
        /\ new.acknowledged_by = rows[k].acknowledged_by /\ IsOpen(new)
    BY <2>1, <2>3 DEF Row, Write, IsOpen
  <2> HIDE DEF new
  <2>6. /\ Written(r, n) \in Seq(Row)
        /\ Len(Written(r, n)) = k
        /\ \A i \in 1..k : Written(r, n)[i] = IF i = k THEN new ELSE rows[i]
    BY <1>2, <2>3, <2>4, <2>5, ExceptSeq
  <2>7. \A i \in 1..k : Rank(rows[i].severity) \in Nat /\ Rank(w.severity) \in Nat
    BY <1>2, <2>1, RankFacts DEF Write
  <2>8. ASSUME NEW i \in DOMAIN rows
        PROVE  /\ Written(r, n)[i].acknowledged_by = rows[i].acknowledged_by
               /\ Rank(Written(r, n)[i].severity) >= Rank(rows[i].severity)
    BY <1>2, <2>2, <2>3, <2>5, <2>6, <2>7
  <2> QED BY <1>2, <1>5, <2>1, <2>2, <2>3, <2>5, <2>6, <2>8
<1> QED BY <1>3, <1>4, <1>5

-----------------------------------------------------------------------------
(* The steps of check_thresholds                                            *)

\* A run takes its snapshot: it has no locks, writes or notifications yet.
LEMMA BeginInv ==
  ASSUME AlertsInv, NEW r \in Runs, RunBegin(r)
  PROVE  AlertsInv'
<1> USE DEF RunBegin, ackvars
<1>1. TypeOK /\ RunShape /\ LockOrder /\ WritesStand
  BY DEF AlertsInv
<1>2. /\ todo' \in [Runs -> [Nodes -> Severities \cup {None}]]
      /\ rpc' \in [Runs -> {"idle", "upsert", "publish"}]
  BY <1>1 DEF TypeOK, SeverityOf, Severities
<1>3. TypeOK'
  BY <1>1, <1>2 DEF TypeOK
<1>4. locked[r] = {} /\ rpc[r] = "idle" /\ rpc'[r] = "upsert"
  BY <1>1 DEF RunShape, TypeOK
<1>5. \A q \in Runs \ {r} : rpc'[q] = rpc[q] /\ todo'[q] = todo[q]
  BY <1>1 DEF TypeOK
<1>6. RunShape'
  BY <1>1, <1>4, <1>5 DEF RunShape
<1>7. LockOrder'
  BY <1>1, <1>4, <1>5 DEF LockOrder
<1>8. LocksExclusive' /\ WritesStand' /\ OneOpenAlertPerNode' /\ NotifiedAfterCommit'
  BY DEF AlertsInv, LocksExclusive, WritesStand, WriteStands, HasOpen, OpenSeverity,
         OneOpenAlertPerNode, NotifiedAfterCommit
<1>9. OutboxFresh' /\ SendsCounted'
  BY DEF AlertsInv, OutboxFresh, Recorded, SendsCounted, NotifiedAtMostOnce
<1> QED BY <1>3, <1>6, <1>7, <1>8, <1>9 DEF AlertsInv

\* The upsert takes the lock of a row nobody holds, and every row the run
\* has still to visit comes later in the order.
LEMMA UpsertInv ==
  ASSUME AlertsInv, NEW r \in Runs, NEW n \in Nodes, Upsert(r, n)
  PROVE  AlertsInv'
<1> DEFINE s == todo[r][n]
           hit == ~HasOpen(n) \/ Outranks(s, OpenSeverity(n))
<1>0. /\ TypeOK /\ LocksExclusive /\ RunShape /\ LockOrder /\ WritesStand
      /\ Nodes \subseteq Nat
  BY AlertConstants DEF AlertsInv
<1>1. /\ rpc[r] = "upsert" /\ s \in Severities
      /\ Turn(r, n) /\ MayUpsert(r, n)
      /\ todo' = [todo EXCEPT ![r][n] = None]
      /\ locked' = [locked EXCEPT ![r] = @ \cup {n}]
      /\ UNCHANGED <<latest, alerts_enabled, alerts, rpc, outbox, notified, sends, ackvars, crashes>>
  BY <1>0 DEF Upsert, TypeOK
<1>2. writes' = [writes EXCEPT ![r][n] =
                   IF hit THEN [insert |-> ~HasOpen(n), severity |-> s] ELSE None]
  BY DEF Upsert
<1>3. [insert |-> ~HasOpen(n), severity |-> s] \in Write
  BY <1>1 DEF Write
<1>4. TypeOK'
  <2>1. writes' \in [Runs -> [Nodes -> Write \cup {None}]]
    BY <1>0, <1>2, <1>3 DEF TypeOK
  <2>2. /\ todo' \in [Runs -> [Nodes -> Severities \cup {None}]]
        /\ locked' \in [Runs -> SUBSET Nodes]
    BY <1>0, <1>1 DEF TypeOK
  <2> QED BY <1>0, <1>1, <2>1, <2>2 DEF TypeOK, ackvars
<1>5. /\ locked'[r] = locked[r] \cup {n}
      /\ \A q \in Runs \ {r} : /\ locked'[q] = locked[q] /\ todo'[q] = todo[q]
                              /\ writes'[q] = writes[q]
      /\ \A m \in Nodes : todo'[r][m] # None => todo[r][m] # None /\ m # n
      /\ \A m \in Nodes \ {n} : writes'[r][m] = writes[r][m]
  BY <1>0, <1>1, <1>2 DEF TypeOK
<1>6. LocksExclusive'
  BY <1>0, <1>1, <1>5 DEF LocksExclusive, MayUpsert
<1>7. RunShape'
  BY <1>0, <1>1, <1>5 DEF RunShape
<1>8. LockOrder'
  <2> SUFFICES ASSUME NEW q \in Runs, NEW k \in locked'[q], NEW m \in Nodes,
                      todo'[q][m] # None
               PROVE  k < m
    BY DEF LockOrder
  <2>1. CASE q = r /\ k = n
    BY <2>1, <1>0, <1>1, <1>5 DEF Turn
  <2>2. CASE ~(q = r /\ k = n)
    BY <2>2, <1>0, <1>5 DEF LockOrder
  <2> QED BY <2>1, <2>2
<1>9. WritesStand'
  <2> SUFFICES ASSUME NEW q \in Runs, NEW m \in Nodes, writes'[q][m] # None
               PROVE  WriteStands(q, m)'
    BY DEF WritesStand
  <2>0. /\ HasOpen(m)' <=> HasOpen(m)
        /\ OpenSeverity(m)' = OpenSeverity(m)
    BY <1>1 DEF HasOpen, OpenSeverity
  <2>1. CASE q = r /\ m = n
    <3>1. hit /\ writes'[r][n] = [insert |-> ~HasOpen(n), severity |-> s]
      BY <2>1, <1>0, <1>2 DEF TypeOK
    <3>2. writes'[r][n].severity = s /\ (writes'[r][n].insert <=> ~HasOpen(n))
      <4>1. ASSUME NEW b \in BOOLEAN, NEW w, w = [insert |-> b, severity |-> s]
            PROVE  w.severity = s /\ (w.insert <=> b)
        BY <4>1
      <4>2. (~HasOpen(n)) \in BOOLEAN
        OBVIOUS
      <4> QED BY <3>1, <4>1, <4>2
    <3>3. HasOpen(n) => Rank(s) > Rank(OpenSeverity(n))
      BY <3>1 DEF Outranks
    <3> QED BY <2>0, <2>1, <3>2, <3>3, <1>5 DEF WriteStands
  <2>2. CASE ~(q = r /\ m = n)
    <3>1. writes'[q][m] = writes[q][m] /\ locked[q] \subseteq locked'[q]
      BY <2>2, <1>5
    <3>2. WriteStands(q, m)
      BY <3>1, <1>0 DEF WritesStand
    <3> QED BY <2>0, <3>1, <3>2 DEF WriteStands
  <2> QED BY <2>1, <2>2
<1>10. OneOpenAlertPerNode' /\ NotifiedAfterCommit'
  BY <1>1 DEF AlertsInv, OneOpenAlertPerNode, NotifiedAfterCommit
<1>11. OutboxFresh' /\ SendsCounted'
  BY <1>1 DEF AlertsInv, OutboxFresh, Recorded, SendsCounted, NotifiedAtMostOnce
<1> QED BY <1>4, <1>6, <1>7, <1>8, <1>9, <1>10, <1>11 DEF AlertsInv

\* A run that dies gives up its locks and everything it has not committed.
LEMMA CrashInv ==
  ASSUME AlertsInv, NEW r \in Runs, Crash(r)
  PROVE  AlertsInv'
<1> USE DEF Crash, ackvars
<1>0. TypeOK /\ LocksExclusive /\ RunShape /\ LockOrder /\ WritesStand /\ OutboxFresh
  BY DEF AlertsInv
<1>1. TypeOK'
  <2>1. crashes' \in 0..MaxCrashes
    BY <1>0, AlertConstants DEF TypeOK
  <2>2. Nothing \in [Nodes -> Severities \cup {None}] /\ Nothing \in [Nodes -> Write \cup {None}]
    BY DEF Nothing
  <2> QED BY <1>0, <2>1, <2>2 DEF TypeOK
<1>2. /\ rpc'[r] = "idle" /\ locked'[r] = {} /\ outbox'[r] = {}
      /\ \A n \in Nodes : todo'[r][n] = None /\ writes'[r][n] = None
      /\ \A q \in Runs \ {r} : /\ rpc'[q] = rpc[q] /\ locked'[q] = locked[q]
                              /\ todo'[q] = todo[q] /\ writes'[q] = writes[q]
                              /\ outbox'[q] = outbox[q]
  BY <1>0 DEF TypeOK, Nothing
<1>3. LocksExclusive' /\ LockOrder'
  BY <1>0, <1>2 DEF LocksExclusive, LockOrder
<1>4. RunShape'
  BY <1>0, <1>2 DEF RunShape
<1>5. WritesStand'
  BY <1>0, <1>2 DEF WritesStand, WriteStands, HasOpen, OpenSeverity
<1>6. OutboxFresh'
  BY <1>0, <1>2 DEF OutboxFresh, Recorded
<1>7. OneOpenAlertPerNode' /\ NotifiedAfterCommit' /\ SendsCounted'
  BY DEF AlertsInv, OneOpenAlertPerNode, NotifiedAfterCommit, SendsCounted, NotifiedAtMostOnce
<1> QED BY <1>1, <1>3, <1>4, <1>5, <1>6, <1>7 DEF AlertsInv

\* A run that has sent everything ends.
LEMMA EndInv ==
  ASSUME AlertsInv, NEW r \in Runs, RunEnd(r)
  PROVE  AlertsInv'
<1> USE DEF RunEnd, ackvars
<1>0. TypeOK /\ RunShape
  BY DEF AlertsInv
<1>1. TypeOK'
  BY <1>0 DEF TypeOK
<1>2. RunShape'
  BY <1>0 DEF RunShape, TypeOK
<1>3. LocksExclusive' /\ LockOrder' /\ OneOpenAlertPerNode' /\ NotifiedAfterCommit'
  BY DEF AlertsInv, LocksExclusive, LockOrder, OneOpenAlertPerNode, NotifiedAfterCommit
<1>4. WritesStand' /\ OutboxFresh' /\ SendsCounted'
  BY DEF AlertsInv, WritesStand, WriteStands, HasOpen, OpenSeverity, OutboxFresh, Recorded,
         SendsCounted, NotifiedAtMostOnce
<1> QED BY <1>1, <1>2, <1>3, <1>4 DEF AlertsInv

\* Committing loses no record of a notification: rows stay and their
\* severities only rise.
LEMMA CommitKeepsRecords ==
  ASSUME AlertsInv, NEW r \in Runs, Commit(r), NEW m \in Note, Recorded(m)
  PROVE  Recorded(m)'
<1> DEFINE n == m[1]
           i == m[2]
<1>1. n \in Nodes /\ m[3] \in Severities
  BY DEF Note
<1>2. alerts'[n] = Written(r, n)
  BY <1>1 DEF Commit
<1>3. /\ i \in DOMAIN alerts[n] /\ DOMAIN alerts[n] = 1..Len(alerts[n])
      /\ Rank(alerts[n][i].severity) >= Rank(m[3])
      /\ Rank(alerts[n][i].severity) \in Nat /\ Rank(m[3]) \in Nat
      /\ Len(alerts[n]) \in Nat
  BY <1>1, RowFacts, RankFacts DEF Recorded, AlertsInv
<1>4. /\ Written(r, n) \in Seq(Row)
      /\ Len(Written(r, n)) >= Len(alerts[n])
      /\ Rank(Written(r, n)[i].severity) >= Rank(alerts[n][i].severity)
  BY <1>1, <1>3, WrittenFacts
<1>5. i \in DOMAIN Written(r, n)
  BY <1>3, <1>4, LenProperties
<1>6. Rank(Written(r, n)[i].severity) \in Nat
  <2>1. Written(r, n)[i] \in Row
    BY <1>4, <1>5, LenProperties, ElementOfSeq
  <2> QED BY <2>1, RankFacts DEF Row
<1> QED BY <1>2, <1>3, <1>4, <1>5, <1>6 DEF Recorded

\* The notes of a commit: one for each node written, about its open row, and
\* none of them was recorded before.
LEMMA CommitNotes ==
  ASSUME AlertsInv, NEW r \in Runs, Commit(r), NEW m \in outbox'[r]
  PROVE  /\ m \in Note
         /\ ~Recorded(m)
         /\ Recorded(m)'
<1>1. outbox'[r] = {<<n, Len(Written(r, n)), writes[r][n].severity>> :
                      n \in {k \in Nodes : writes[r][k] # None}}
  BY DEF Commit, AlertsInv, TypeOK
<1>2. PICK n \in Nodes : /\ writes[r][n] # None
                         /\ m = <<n, Len(Written(r, n)), writes[r][n].severity>>
  BY <1>1
<1> DEFINE w == writes[r][n]
           last == Len(Written(r, n))
<1>3. /\ w \in Write /\ last \in Nat \ {0}
      /\ Written(r, n) \in Seq(Row)
      /\ Written(r, n)[last].severity = w.severity
      /\ last \in DOMAIN alerts[n] => Rank(w.severity) > Rank(alerts[n][last].severity)
  BY <1>2, WrittenFacts
<1>4. w.severity \in Severities /\ Rank(w.severity) \in Nat
  BY <1>3, RankFacts DEF Write
<1>5. m \in Note
  BY <1>2, <1>3, <1>4 DEF Note
<1>6. ~Recorded(m)
  <2>1. last \in DOMAIN alerts[n] => Rank(alerts[n][last].severity) \in Nat
    BY RowFacts DEF AlertsInv
  <2> QED BY <1>2, <1>3, <1>4, <2>1 DEF Recorded
<1>7. Recorded(m)'
  <2>1. alerts'[n] = Written(r, n)
    BY DEF Commit
  <2>2. last \in DOMAIN Written(r, n)
    BY <1>3, LenProperties
  <2> QED BY <1>2, <1>3, <1>4, <2>1, <2>2 DEF Recorded
<1> QED BY <1>5, <1>6, <1>7

\* The commit makes the writes of a run visible and frees its rows.
LEMMA CommitInv ==
  ASSUME AlertsInv, NEW r \in Runs, Commit(r)
  PROVE  AlertsInv'
<1>0. /\ TypeOK /\ LocksExclusive /\ RunShape /\ LockOrder /\ WritesStand
      /\ OneOpenAlertPerNode /\ NotifiedAfterCommit /\ OutboxFresh
  BY DEF AlertsInv
<1>1. /\ rpc[r] = "upsert" /\ todo[r] = Nothing
      /\ alerts' = [n \in Nodes |-> Written(r, n)]
      /\ writes' = [writes EXCEPT ![r] = Nothing]
      /\ locked' = [locked EXCEPT ![r] = {}]
      /\ rpc' = [rpc EXCEPT ![r] = "publish"]
      /\ UNCHANGED <<latest, alerts_enabled, todo, notified, sends, ackvars, crashes>>
  BY DEF Commit
<1>2. /\ rpc'[r] = "publish" /\ locked'[r] = {}
      /\ \A n \in Nodes : writes'[r][n] = None /\ todo'[r][n] = None
      /\ \A q \in Runs \ {r} : /\ rpc'[q] = rpc[q] /\ locked'[q] = locked[q]
                              /\ writes'[q] = writes[q] /\ outbox'[q] = outbox[q]
  BY <1>0, <1>1 DEF TypeOK, Nothing, Commit
<1>3. \A n \in Nodes : /\ alerts'[n] = Written(r, n)
                       /\ Written(r, n) \in Seq(Row)
                       /\ Len(Written(r, n)) >= Len(alerts[n])
                       /\ DOMAIN alerts[n] \subseteq DOMAIN alerts'[n]
  <2> TAKE n \in Nodes
  <2>1. alerts'[n] = Written(r, n)
    BY <1>1
  <2>2. /\ Written(r, n) \in Seq(Row) /\ Len(Written(r, n)) >= Len(alerts[n])
        /\ Len(alerts[n]) \in Nat /\ DOMAIN alerts[n] = 1..Len(alerts[n])
    BY <1>0, WrittenFacts, RowFacts
  <2>3. DOMAIN Written(r, n) = 1..Len(Written(r, n)) /\ Len(Written(r, n)) \in Nat
    BY <2>2, LenProperties
  <2> QED BY <2>1, <2>2, <2>3
<1>4. TypeOK'
  <2>1. alerts' \in [Nodes -> Seq(Row)]
    BY <1>1, <1>3
  <2>2. outbox' \in [Runs -> SUBSET Note]
    <3>1. outbox'[r] \subseteq Note
      BY CommitNotes
    <3> QED BY <1>0, <3>1 DEF TypeOK, Commit
  <2>3. /\ writes' \in [Runs -> [Nodes -> Write \cup {None}]]
        /\ locked' \in [Runs -> SUBSET Nodes]
        /\ rpc' \in [Runs -> {"idle", "upsert", "publish"}]
    BY <1>0, <1>1 DEF TypeOK, Nothing
  <2>4. \A u \in Users : apc'[u] = "write" => /\ aid'[u] # None
                                            /\ aid'[u][2] \in DOMAIN alerts'[aid'[u][1]]
    <3> SUFFICES ASSUME NEW u \in Users, apc[u] = "write"
                 PROVE  aid[u] # None /\ aid[u][2] \in DOMAIN alerts'[aid[u][1]]
      BY <1>1 DEF ackvars
    <3>1. aid[u] \in AlertId /\ aid[u][2] \in DOMAIN alerts[aid[u][1]]
      BY <1>0 DEF TypeOK
    <3>2. aid[u][1] \in Nodes
      BY <3>1 DEF AlertId
    <3> QED BY <1>0, <1>3, <3>1, <3>2 DEF TypeOK
  <2> QED BY <1>0, <1>1, <2>1, <2>2, <2>3, <2>4 DEF TypeOK, ackvars
<1>5. LocksExclusive' /\ LockOrder'
  BY <1>0, <1>1, <1>2 DEF LocksExclusive, LockOrder
<1>6. RunShape'
  BY <1>0, <1>1, <1>2 DEF RunShape
<1>7. WritesStand'
  <2> SUFFICES ASSUME NEW q \in Runs, NEW n \in Nodes, writes'[q][n] # None
               PROVE  WriteStands(q, n)'
    BY DEF WritesStand
  <2>1. q # r /\ writes[q][n] # None /\ WriteStands(q, n)
    BY <1>0, <1>2 DEF WritesStand
  <2>2. n \in locked[q] /\ n \notin locked[r]
    BY <1>0, <2>1 DEF WriteStands, LocksExclusive
  <2>3. writes[r][n] = None
    BY <1>0, <2>2 DEF WritesStand, WriteStands
  <2>4. alerts'[n] = alerts[n]
    BY <1>3, <2>3, WrittenFacts
  <2>5. (HasOpen(n)' <=> HasOpen(n)) /\ OpenSeverity(n)' = OpenSeverity(n)
    BY <2>4 DEF HasOpen, OpenSeverity
  <2> QED BY <1>2, <2>1, <2>5 DEF WriteStands
<1>8. OneOpenAlertPerNode'
  <2> SUFFICES ASSUME NEW n \in Nodes, NEW i \in DOMAIN Written(r, n), IsOpen(Written(r, n)[i])
               PROVE  i = Len(Written(r, n))
    BY <1>3 DEF OneOpenAlertPerNode
  <2> DEFINE w == writes[r][n]
             k == Len(alerts[n])
  <2>1. /\ k \in Nat /\ DOMAIN alerts[n] = 1..k
        /\ i \in 1..Len(Written(r, n)) /\ Len(Written(r, n)) \in Nat
        /\ Len(Written(r, n)) = IF w # None /\ w.insert THEN k + 1 ELSE k
    BY <1>0, <1>3, WrittenFacts, RowFacts, LenProperties
  <2>2. ASSUME i \in DOMAIN alerts[n] PROVE i = k /\ HasOpen(n)
    <3>1. IsOpen(alerts[n][i])
      BY <2>2, WrittenFacts DEF IsOpen
    <3> QED BY <3>1, <1>0, <2>1, <2>2, RowFacts DEF OneOpenAlertPerNode
  <2>3. w # None => (w.insert <=> ~HasOpen(n))
    BY <1>0 DEF WritesStand, WriteStands
  <2> QED BY <2>1, <2>2, <2>3
<1>9. NotifiedAfterCommit'
  <2> SUFFICES ASSUME NEW m \in notified PROVE Recorded(m)'
    BY <1>1 DEF NotifiedAfterCommit, Recorded
  <2>1. m \in Note /\ Recorded(m)
    BY <1>0 DEF TypeOK, NotifiedAfterCommit, Recorded
  <2> QED BY <2>1, CommitKeepsRecords
<1>10. OutboxFresh'
  <2> SUFFICES ASSUME NEW q \in Runs, NEW m \in outbox'[q]
               PROVE  /\ Recorded(m)' /\ m \notin notified
                      /\ \A p \in Runs \ {q} : m \notin outbox'[p]
    BY <1>1 DEF OutboxFresh
  <2>1. ASSUME NEW p \in Runs \ {r}, NEW k \in outbox'[p]
        PROVE  k \in Note /\ k \in outbox[p] /\ Recorded(k)
    BY <1>0, <1>2, <2>1 DEF TypeOK, OutboxFresh
  <2>2. CASE q = r
    <3>1. ~Recorded(m) /\ Recorded(m)'
      BY <2>2, CommitNotes
    <3>2. m \notin notified
      BY <1>0, <3>1 DEF NotifiedAfterCommit, Recorded
    <3> QED BY <2>1, <2>2, <3>1, <3>2
  <2>3. CASE q # r
    <3>1. m \in Note /\ m \in outbox[q] /\ Recorded(m)
      BY <2>1, <2>3
    <3>2. Recorded(m)' /\ m \notin notified
      BY <1>0, <3>1, CommitKeepsRecords DEF OutboxFresh
    <3>3. m \notin outbox'[r]
      BY <3>1, CommitNotes
    <3>4. \A p \in Runs \ {q, r} : m \notin outbox'[p]
      BY <1>0, <1>2, <3>1 DEF OutboxFresh
    <3> QED BY <3>2, <3>3, <3>4
  <2> QED BY <2>2, <2>3
<1>11. SendsCounted'
  BY <1>1 DEF AlertsInv, SendsCounted, NotifiedAtMostOnce
<1> QED BY <1>4, <1>5, <1>6, <1>7, <1>8, <1>9, <1>10, <1>11 DEF AlertsInv

\* Publishing one note: it is new to the channel, so it adds one to both
\* counts.
LEMMA PublishInv ==
  ASSUME AlertsInv, NEW r \in Runs, NEW m \in outbox[r], Publish(r, m)
  PROVE  AlertsInv'
<1> USE DEF Publish, ackvars
<1>0. /\ TypeOK /\ RunShape /\ NotifiedAfterCommit /\ OutboxFresh /\ SendsCounted
  BY DEF AlertsInv
<1>1. m \in Note /\ Recorded(m) /\ m \notin notified
  BY <1>0 DEF TypeOK, OutboxFresh
<1>2. /\ outbox'[r] = outbox[r] \ {m}
      /\ \A q \in Runs \ {r} : outbox'[q] = outbox[q]
  BY <1>0 DEF TypeOK
<1>3. TypeOK'
  BY <1>0, <1>1 DEF TypeOK
<1>4. RunShape'
  BY <1>0, <1>2 DEF RunShape
<1>5. NotifiedAfterCommit'
  BY <1>0, <1>1 DEF NotifiedAfterCommit, Recorded
<1>6. OutboxFresh'
  <2> SUFFICES ASSUME NEW q \in Runs, NEW k \in outbox'[q]
               PROVE  /\ Recorded(k)' /\ k \notin notified'
                      /\ \A p \in Runs \ {q} : k \notin outbox'[p]
    BY DEF OutboxFresh
  <2>1. k \in outbox[q] /\ k # m
    BY <1>0, <1>2 DEF OutboxFresh
  <2>2. Recorded(k) /\ k \notin notified /\ \A p \in Runs \ {q} : k \notin outbox[p]
    BY <1>0, <2>1 DEF OutboxFresh
  <2> QED BY <1>2, <2>1, <2>2 DEF Recorded
<1>7. SendsCounted'
  BY <1>0, <1>1, FS_AddElement DEF SendsCounted, NotifiedAtMostOnce
<1>8. LocksExclusive' /\ LockOrder' /\ WritesStand' /\ OneOpenAlertPerNode'
  BY DEF AlertsInv, LocksExclusive, LockOrder, WritesStand, WriteStands, HasOpen,
         OpenSeverity, OneOpenAlertPerNode
<1> QED BY <1>3, <1>4, <1>5, <1>6, <1>7, <1>8 DEF AlertsInv

-----------------------------------------------------------------------------
(* acknowledge_alert                                                        *)

\* What an acknowledgement leaves of the rows of its node.
LEMMA AckFacts ==
  ASSUME TypeOK, NEW u \in Users, AckWrite(u)
  PROVE  LET n == aid[u][1]
             i == aid[u][2]
         IN /\ n \in Nodes /\ i \in DOMAIN alerts[n]
            /\ alerts' \in [Nodes -> Seq(Row)]
            /\ Len(alerts'[n]) = Len(alerts[n]) /\ DOMAIN alerts'[n] = DOMAIN alerts[n]
            /\ alerts'[n][i].acknowledged_by = u
            /\ alerts'[n][i].severity = alerts[n][i].severity
            /\ \A j \in DOMAIN alerts[n] : j # i => alerts'[n][j] = alerts[n][j]
            /\ \A m \in Nodes \ {n} : alerts'[m] = alerts[m]
<1> DEFINE n == aid[u][1]
           i == aid[u][2]
           row == [alerts[n][i] EXCEPT !.acknowledged_by = u]
<1>1. aid[u] \in AlertId /\ i \in DOMAIN alerts[n]
  BY DEF TypeOK, AckWrite
<1>2. n \in Nodes
  BY <1>1 DEF AlertId
<1>3. /\ alerts[n] \in Seq(Row) /\ DOMAIN alerts[n] = 1..Len(alerts[n])
      /\ alerts[n][i] \in Row
  BY <1>1, <1>2, RowFacts
<1>4. /\ row \in Row /\ row.acknowledged_by = u
      /\ row.severity = alerts[n][i].severity
  BY <1>3 DEF Row
<1>5. alerts' = [alerts EXCEPT ![n] = [alerts[n] EXCEPT ![i] = row]]
  BY DEF AckWrite
<1> HIDE DEF row
<1> DEFINE rows == [alerts[n] EXCEPT ![i] = row]
<1>6. /\ rows \in Seq(Row) /\ Len(rows) = Len(alerts[n])
      /\ \A j \in 1..Len(alerts[n]) : rows[j] = IF j = i THEN row ELSE alerts[n][j]
  BY <1>1, <1>3, <1>4, ExceptSeq
<1>7. DOMAIN rows = DOMAIN alerts[n]
  BY <1>3, <1>6, LenProperties
<1> HIDE DEF rows
<1>8. /\ alerts' \in [Nodes -> Seq(Row)] /\ alerts'[n] = rows
      /\ \A m \in Nodes \ {n} : alerts'[m] = alerts[m]
  BY <1>2, <1>5, <1>6 DEF TypeOK, rows
<1> QED BY <1>1, <1>2, <1>3, <1>4, <1>6, <1>7, <1>8

\* Acknowledging a row that is not open, or a row of another node, leaves
\* what is open for a node alone.
LEMMA AckKeepsOpen ==
  ASSUME TypeOK, NEW u \in Users, AckWrite(u), NEW m \in Nodes,
         m = aid[u][1] => ~IsOpen(alerts[m][aid[u][2]])
  PROVE  (HasOpen(m)' <=> HasOpen(m)) /\ OpenSeverity(m)' = OpenSeverity(m)
<1> DEFINE n == aid[u][1]
           i == aid[u][2]
           k == Len(alerts[m])
<1>0. u # None
  BY AlertConstants
<1>1. CASE m # n
  BY <1>1, AckFacts DEF HasOpen, OpenSeverity
<1>2. CASE m = n
  <2>1. /\ i \in DOMAIN alerts[m] /\ alerts' \in [Nodes -> Seq(Row)]
        /\ Len(alerts'[m]) = k /\ DOMAIN alerts'[m] = DOMAIN alerts[m]
        /\ alerts'[m][i].acknowledged_by = u
        /\ alerts'[m][i].severity = alerts[m][i].severity
        /\ \A j \in DOMAIN alerts[m] : j # i => alerts'[m][j] = alerts[m][j]
    BY <1>2, AckFacts
  <2>2. ~IsOpen(alerts[m][i]) /\ ~IsOpen(alerts'[m][i])
    BY <1>0, <1>2, <2>1 DEF IsOpen
  <2>3. /\ DOMAIN alerts[m] = 1..k /\ k \in Nat
        /\ alerts[m] \in Seq(Row) /\ alerts'[m] \in Seq(Row)
    BY <2>1, RowFacts
  <2>4. alerts'[m] = <<>> <=> alerts[m] = <<>>
    BY <2>1, <2>3, EmptySeq
  <2>5. alerts[m] # <<>> => k \in DOMAIN alerts[m]
    BY <2>3, EmptySeq
  <2>6. alerts[m] # <<>> => /\ IsOpen(alerts'[m][k]) <=> IsOpen(alerts[m][k])
                            /\ alerts'[m][k].severity = alerts[m][k].severity
    <3>1. CASE k = i
      BY <2>1, <2>2, <3>1
    <3>2. CASE k # i
      BY <2>1, <2>5, <3>2
    <3> QED BY <3>1, <3>2
  <2>7. HasOpen(m)' <=> HasOpen(m)
    BY <2>1, <2>4, <2>6 DEF HasOpen
  <2> QED BY <2>1, <2>4, <2>6, <2>7 DEF OpenSeverity, HasOpen
<1> QED BY <1>1, <1>2

\* Acknowledging the open row leaves the node without one.
LEMMA AckCloses ==
  ASSUME AlertsInv, NEW u \in Users, AckWrite(u), NEW m \in Nodes, m = aid[u][1],
         IsOpen(alerts[m][aid[u][2]])
  PROVE  OpenSeverity(m) # None /\ OpenSeverity(m)' = None
<1> DEFINE i == aid[u][2]
<1>0. TypeOK /\ OneOpenAlertPerNode /\ u # None /\ None \notin Severities
  BY AlertConstants DEF AlertsInv
<1>1. /\ i \in DOMAIN alerts[m] /\ Len(alerts'[m]) = Len(alerts[m])
      /\ alerts'[m][i].acknowledged_by = u
  BY <1>0, AckFacts
<1>2. i = Len(alerts[m])
  BY <1>0, <1>1 DEF OneOpenAlertPerNode
<1>3. OpenSeverity(m) # None
  BY <1>0, <1>1, <1>2, RowFacts DEF Row
<1>4. ~HasOpen(m)'
  BY <1>0, <1>1, <1>2 DEF HasOpen, IsOpen
<1> QED BY <1>3, <1>4 DEF OpenSeverity

\* An acknowledgement changes an open row only while no run holds it, so no
\* run's decision is overtaken.
LEMMA AckWriteInv ==
  ASSUME AlertsInv, NEW u \in Users, AckWrite(u)
  PROVE  AlertsInv'
<1> DEFINE n == aid[u][1]
           i == aid[u][2]
<1>0. /\ TypeOK /\ RunShape /\ WritesStand /\ OneOpenAlertPerNode
      /\ NotifiedAfterCommit /\ OutboxFresh
      /\ u # None
  BY AlertConstants DEF AlertsInv
<1>1. /\ IsOpen(alerts[n][i]) => LockFree(n)
      /\ apc' = [apc EXCEPT ![u] = "idle"]
      /\ aid' = [aid EXCEPT ![u] = None]
      /\ UNCHANGED <<latest, alerts_enabled, runvars, notified, sends, acks, crashes>>
  BY DEF AckWrite
<1>2. /\ n \in Nodes /\ i \in DOMAIN alerts[n]
      /\ alerts' \in [Nodes -> Seq(Row)]
      /\ Len(alerts'[n]) = Len(alerts[n]) /\ DOMAIN alerts'[n] = DOMAIN alerts[n]
      /\ alerts'[n][i].acknowledged_by = u
      /\ alerts'[n][i].severity = alerts[n][i].severity
      /\ \A j \in DOMAIN alerts[n] : j # i => alerts'[n][j] = alerts[n][j]
      /\ \A m \in Nodes \ {n} : alerts'[m] = alerts[m]
  BY <1>0, AckFacts
<1>3. \A m \in Nodes : /\ DOMAIN alerts'[m] = DOMAIN alerts[m]
                       /\ \A j \in DOMAIN alerts[m] : alerts'[m][j].severity = alerts[m][j].severity
  BY <1>2
<1>4. TypeOK'
  <2>1. \A q \in Users : apc'[q] = "write" => /\ aid'[q] # None
                                            /\ aid'[q][2] \in DOMAIN alerts'[aid'[q][1]]
    <3> SUFFICES ASSUME NEW q \in Users, apc'[q] = "write"
                 PROVE  aid'[q] # None /\ aid'[q][2] \in DOMAIN alerts'[aid'[q][1]]
      OBVIOUS
    <3>1. q # u /\ apc[q] = "write" /\ aid'[q] = aid[q]
      BY <1>0, <1>1 DEF TypeOK
    <3>2. aid[q] \in AlertId /\ aid[q] # None /\ aid[q][2] \in DOMAIN alerts[aid[q][1]]
      BY <1>0, <3>1 DEF TypeOK
    <3>3. aid[q][1] \in Nodes
      BY <3>2 DEF AlertId
    <3> QED BY <1>3, <3>1, <3>2, <3>3
  <2>2. /\ apc' \in [Users -> {"idle", "write"}]
        /\ aid' \in [Users -> AlertId \cup {None}]
    BY <1>0, <1>1 DEF TypeOK
  <2> QED BY <1>0, <1>1, <1>2, <2>1, <2>2 DEF TypeOK, runvars
<1>5. WritesStand'
  <2> SUFFICES ASSUME NEW q \in Runs, NEW m \in Nodes, writes[q][m] # None
               PROVE  WriteStands(q, m)'
    BY <1>1 DEF WritesStand, runvars
  <2>1. WriteStands(q, m) /\ m \in locked[q]
    BY <1>0 DEF WritesStand, WriteStands
  <2>2. m = n => ~IsOpen(alerts[m][i])
    BY <1>1, <2>1 DEF LockFree
  <2>3. (HasOpen(m)' <=> HasOpen(m)) /\ OpenSeverity(m)' = OpenSeverity(m)
    BY <1>0, <2>2, AckKeepsOpen
  <2> QED BY <1>1, <2>1, <2>3 DEF WriteStands, runvars
<1>6. OneOpenAlertPerNode'
  <2> SUFFICES ASSUME NEW m \in Nodes, NEW j \in DOMAIN alerts'[m], IsOpen(alerts'[m][j])
               PROVE  j = Len(alerts'[m])
    BY DEF OneOpenAlertPerNode
  <2>1. CASE m # n
    BY <1>0, <1>2, <2>1 DEF OneOpenAlertPerNode
  <2>2. CASE m = n
    <3>1. j # i
      BY <1>0, <1>2, <2>2 DEF IsOpen
    <3> QED BY <1>0, <1>2, <2>2, <3>1 DEF OneOpenAlertPerNode
  <2> QED BY <2>1, <2>2
<1>7. ASSUME NEW m \in Note, Recorded(m) PROVE Recorded(m)'
  <2>1. m[1] \in Nodes
    BY DEF Note
  <2> QED BY <1>3, <1>7, <2>1 DEF Recorded
<1>8. NotifiedAfterCommit'
  <2>1. \A m \in notified : m \in Note /\ Recorded(m)
    BY <1>0 DEF TypeOK, NotifiedAfterCommit, Recorded
  <2> QED BY <1>1, <1>7, <2>1 DEF NotifiedAfterCommit, Recorded
<1>9. OutboxFresh'
  <2>1. \A q \in Runs : \A m \in outbox[q] : m \in Note
    BY <1>0 DEF TypeOK
  <2> QED BY <1>0, <1>1, <1>7, <2>1 DEF OutboxFresh, runvars
<1>10. LocksExclusive' /\ RunShape' /\ LockOrder' /\ SendsCounted'
  BY <1>1 DEF AlertsInv, LocksExclusive, RunShape, LockOrder, SendsCounted,
              NotifiedAtMostOnce, runvars
<1> QED BY <1>4, <1>5, <1>6, <1>8, <1>9, <1>10 DEF AlertsInv

\* Every step keeps the invariant.
LEMMA NextInv == AlertsInv /\ [Next]_vars => AlertsInv'
<1> SUFFICES ASSUME AlertsInv, [Next]_vars PROVE AlertsInv'
  OBVIOUS
<1>0. TypeOK
  BY DEF AlertsInv
<1>1. ASSUME NEW n \in Nodes, ReadingChanges(n) PROVE AlertsInv'
  <2>1. TypeOK'
    BY <1>0, <1>1 DEF TypeOK, ReadingChanges, runvars, ackvars
  <2> QED BY <1>1, <2>1, QuietStep DEF ReadingChanges
<1>2. ASSUME ToggleAlerts PROVE AlertsInv'
  <2>1. TypeOK'
    BY <1>0, <1>2 DEF TypeOK, ToggleAlerts, runvars, ackvars
  <2> QED BY <1>2, <2>1, QuietStep DEF ToggleAlerts
<1>3. ASSUME UNCHANGED vars PROVE AlertsInv'
  <2>1. TypeOK'
    BY <1>0, <1>3 DEF TypeOK, vars
  <2> QED BY <1>3, <2>1, QuietStep DEF vars, runvars
<1>4. ASSUME NEW r \in Runs, RunStep(r) PROVE AlertsInv'
  BY <1>3, <1>4, BeginInv, UpsertInv, CommitInv, PublishInv, EndInv DEF RunStep, RunDisabled
<1>5. ASSUME NEW u \in Users, NEW n \in Nodes, NEW i \in DOMAIN alerts[n], AckRead(u, n, i)
      PROVE  AlertsInv'
  <2>1. TypeOK'
    <3>1. i \in Nat \ {0} /\ <<n, i>> \in AlertId /\ <<n, i>> # None
      BY <1>0, RowFacts, AlertConstants DEF AlertId
    <3>2. acks' \in 0..MaxAcks
      BY <1>0, <1>5, AlertConstants DEF TypeOK, AckRead
    <3>3. /\ apc' \in [Users -> {"idle", "write"}]
          /\ aid' \in [Users -> AlertId \cup {None}]
          /\ \A q \in Users : apc'[q] = "write" => /\ aid'[q] # None
                                              /\ aid'[q][2] \in DOMAIN alerts[aid'[q][1]]
      <4>1. CASE UNCHANGED <<apc, aid>>
        BY <1>0, <4>1 DEF TypeOK
      <4>2. CASE /\ apc' = [apc EXCEPT ![u] = "write"]
                 /\ aid' = [aid EXCEPT ![u] = <<n, i>>]
        <5>1. /\ apc' \in [Users -> {"idle", "write"}]
              /\ aid' \in [Users -> AlertId \cup {None}]
          BY <1>0, <3>1, <4>2 DEF TypeOK
        <5>2. aid'[u] = <<n, i>> /\ i \in DOMAIN alerts[n]
          BY <1>0, <4>2 DEF TypeOK
        <5>3. \A q \in Users \ {u} : apc'[q] = apc[q] /\ aid'[q] = aid[q]
          BY <1>0, <4>2 DEF TypeOK
        <5>4. ASSUME NEW q \in Users, apc'[q] = "write"
              PROVE  aid'[q] # None /\ aid'[q][2] \in DOMAIN alerts[aid'[q][1]]
          <6>1. CASE q = u
            BY <3>1, <5>2, <6>1
          <6>2. CASE q # u
            BY <1>0, <5>3, <5>4, <6>2 DEF TypeOK
          <6> QED BY <6>1, <6>2
        <5> QED BY <5>1, <5>4
      <4> QED BY <1>5, <4>1, <4>2 DEF AckRead
    <3> QED BY <1>0, <1>5, <3>2, <3>3 DEF TypeOK, AckRead, runvars
  <2> QED BY <1>5, <2>1, QuietStep DEF AckRead
<1> QED BY <1>1, <1>2, <1>3, <1>4, <1>5, CrashInv, AckWriteInv DEF Next, AckStep

-----------------------------------------------------------------------------
\* For any number of overlapping runs and acknowledgements, every decision a
\* run has taken under its row locks still stands.
THEOREM AlertsInvariant == Spec => []AlertsInv
  BY InitInv, NextInv, PTL DEF Spec

\* Every variable keeps its type.
THEOREM AlertsTypeCorrect == Spec => []TypeOK
<1>1. AlertsInv => TypeOK
  BY DEF AlertsInv
<1> QED BY <1>1, AlertsInvariant, PTL

\* The partial unique index of the alerts table and the lock taken by ON
\* CONFLICT leave one open alert per node, the newest (M-4).
THEOREM OneOpenAlert == Spec => []OneOpenAlertPerNode
<1>1. AlertsInv => OneOpenAlertPerNode
  BY DEF AlertsInv
<1> QED BY <1>1, AlertsInvariant, PTL

\* check_thresholds tells nobody of a row that is not committed.
THEOREM NotificationsFollowCommit == Spec => []NotifiedAfterCommit
<1>1. AlertsInv => NotifiedAfterCommit
  BY DEF AlertsInv
<1> QED BY <1>1, AlertsInvariant, PTL

\* However often the task is retried or runs twice at the same time, a row
\* is announced once per severity.
THEOREM NoRepeatedNotification == Spec => []NotifiedAtMostOnce
<1>1. AlertsInv => NotifiedAtMostOnce
  BY DEF AlertsInv, SendsCounted
<1> QED BY <1>1, AlertsInvariant, PTL

-----------------------------------------------------------------------------
(* What an operator sees                                                    *)

\* The two modules order severities alike.
LEMMA LevelFacts ==
  /\ Board!Level("critical") = 2 /\ Board!Level("warning") = 1 /\ Board!Level(None) = 0
  /\ \A s \in Severities : Board!Level(s) = Rank(s)
BY AlertConstants, RankFacts DEF Board!Level, Severities

\* A commit is a Raise of the board: it opens or escalates.
LEMMA CommitRaises ==
  ASSUME AlertsInv, NEW r \in Runs, Commit(r)
  PROVE  Board!Raise
<1> DEFINE seen == [n \in Nodes |-> OpenSeverity(n)]
<1>0. TypeOK /\ WritesStand
  BY DEF AlertsInv
<1>1. ASSUME NEW n \in Nodes
      PROVE  /\ OpenSeverity(n)' \in {None, "warning", "critical"}
             /\ \/ OpenSeverity(n)' = OpenSeverity(n)
                \/ Board!Level(OpenSeverity(n)') > Board!Level(OpenSeverity(n))
  <2> DEFINE w == writes[r][n]
             last == Len(Written(r, n))
  <2>1. alerts'[n] = Written(r, n)
    BY DEF Commit
  <2>2. CASE w = None
    <3>1. OpenSeverity(n)' = OpenSeverity(n)
      BY <2>1, <2>2, WrittenFacts DEF OpenSeverity, HasOpen
    <3>2. OpenSeverity(n) \in Severities \cup {None}
      BY <1>0, RowFacts DEF Row
    <3> QED BY <3>1, <3>2 DEF Severities
  <2>3. CASE w # None
    <3>1. /\ w \in Write /\ last \in Nat \ {0} /\ Written(r, n) \in Seq(Row)
          /\ IsOpen(Written(r, n)[last]) /\ Written(r, n)[last].severity = w.severity
      BY <2>3, WrittenFacts
    <3>2. Written(r, n) # <<>>
      BY <3>1, EmptySeq
    <3>3. OpenSeverity(n)' = w.severity
      BY <2>1, <3>1, <3>2 DEF OpenSeverity, HasOpen
    <3>4. w.severity \in Severities
      BY <3>1 DEF Write
    <3>5. CASE HasOpen(n)
      <4>1. Rank(w.severity) > Rank(OpenSeverity(n))
        BY <1>0, <2>3, <3>5 DEF WritesStand, WriteStands
      <4>2. OpenSeverity(n) \in Severities
        BY <1>0, <3>5, RowFacts DEF Row
      <4> QED BY <3>3, <3>4, <4>1, <4>2, LevelFacts DEF Severities
    <3>6. CASE ~HasOpen(n)
      <4>1. OpenSeverity(n) = None
        BY <3>6 DEF OpenSeverity
      <4> QED BY <3>3, <3>4, <4>1, LevelFacts DEF Severities
    <3> QED BY <3>5, <3>6
  <2> QED BY <2>2, <2>3
<1> QED BY <1>1 DEF Board!Raise

\* Every step is a step of the board or invisible to an operator.
LEMMA BoardStep ==
  ASSUME AlertsInv, [Next]_vars
  PROVE  [Board!Next]_([n \in Nodes |-> OpenSeverity(n)])
<1>0. TypeOK
  BY DEF AlertsInv
<1>1. CASE UNCHANGED alerts
  <2>1. \A n \in Nodes : OpenSeverity(n)' = OpenSeverity(n)
    BY <1>1 DEF OpenSeverity, HasOpen
  <2> QED BY <2>1
<1>2. ASSUME NEW r \in Runs, Commit(r)
      PROVE  [Board!Next]_([n \in Nodes |-> OpenSeverity(n)])
  BY <1>2, CommitRaises DEF Board!Next
<1>3. ASSUME NEW u \in Users, AckWrite(u)
      PROVE  [Board!Next]_([n \in Nodes |-> OpenSeverity(n)])
  <2>1. PICK n \in Nodes : n = aid[u][1]
    BY <1>0, <1>3, AckFacts
  <2>2. \A m \in Nodes \ {n} : OpenSeverity(m)' = OpenSeverity(m)
    BY <1>0, <1>3, <2>1, AckKeepsOpen
  <2>3. CASE IsOpen(alerts[n][aid[u][2]])
    <3>1. OpenSeverity(n) # None /\ OpenSeverity(n)' = None
      BY <1>3, <2>1, <2>3, AckCloses
    <3>2. \A m \in Nodes : OpenSeverity(m)' = IF m = n THEN None ELSE OpenSeverity(m)
      BY <2>2, <3>1
    <3>3. [m \in Nodes |-> OpenSeverity(m)]'
            = [m \in Nodes |-> IF m = n THEN None ELSE OpenSeverity(m)]
      BY <3>2
    <3>4. [m \in Nodes |-> IF m = n THEN None ELSE OpenSeverity(m)]
            = [[m \in Nodes |-> OpenSeverity(m)] EXCEPT ![n] = None]
      OBVIOUS
    <3>5. Board!Acknowledge(n)
      BY <3>1, <3>3, <3>4 DEF Board!Acknowledge
    <3> QED BY <3>5 DEF Board!Next
  <2>4. CASE ~IsOpen(alerts[n][aid[u][2]])
    <3>1. OpenSeverity(n)' = OpenSeverity(n)
      BY <1>0, <1>3, <2>1, <2>4, AckKeepsOpen
    <3> QED BY <2>2, <3>1
  <2> QED BY <2>3, <2>4
<1>4. ASSUME Next PROVE UNCHANGED alerts \/ (\E r \in Runs : Commit(r))
                                        \/ (\E u \in Users : AckWrite(u))
  BY <1>4 DEF Next, RunStep, AckStep, ReadingChanges, ToggleAlerts, RunDisabled, RunBegin,
              Upsert, Publish, RunEnd, Crash, AckRead, vars
<1> QED BY <1>1, <1>2, <1>3, <1>4 DEF vars

\* The alert system is an AlertBoard: whatever the interleaving of runs,
\* crashes and acknowledgements, an open alert only escalates until it is
\* acknowledged.
THEOREM AlertsImplementBoard == Spec => BoardSpec
<1>1. Init => Board!Init
  BY EmptySeq DEF Init, Board!Init, OpenSeverity, HasOpen
<1>2. AlertsInv /\ [Next]_vars => [Board!Next]_([n \in Nodes |-> OpenSeverity(n)])
  BY BoardStep
<1> QED BY <1>1, <1>2, AlertsInvariant, PTL DEF Spec, BoardSpec, Board!Spec

-----------------------------------------------------------------------------
(* Row locks                                                                *)

\* A finite set of numbers has a smallest and a largest element.
LEMMA FiniteExtremes ==
  ASSUME NEW S, IsFiniteSet(S), S \subseteq Nat, S # {}
  PROVE  /\ \E n \in S : \A m \in S : n <= m
         /\ \E n \in S : \A m \in S : m <= n
<1> DEFINE Below(n) == {m \in S : m < n}
           Above(n) == {m \in S : m > n}
           R == StrictSubsetOrdering(S)
<1>1. IsWellFoundedOn(R, SUBSET S)
  BY FS_StrictSubsetOrderingWellFounded, FS_FiniteSubsetsOfFinite
<1>5. ASSUME NEW A, NEW B, A \subseteq B, B \subseteq S, NEW m \in B, m \notin A
      PROVE  <<A, B>> \in R
  BY <1>5 DEF StrictSubsetOrdering
<1> HIDE DEF R
<1>2. \E n \in S : \A m \in S : n <= m
  <2> DEFINE T == {Below(n) : n \in S}
  <2>1. T \subseteq SUBSET S /\ T # {}
    OBVIOUS
  <2>2. PICK x \in T : \A y \in T : <<y, x>> \notin R
    BY <1>1, <2>1, WFMin
  <2>3. PICK n \in S : x = Below(n)
    BY <2>2
  <2>4. ASSUME NEW m \in S, m < n PROVE FALSE
    <3>0. m \in Nat /\ n \in Nat /\ \A k \in S : k \in Nat
      OBVIOUS
    <3>1. /\ Below(m) \subseteq Below(n) /\ Below(n) \subseteq S
          /\ m \in Below(n) /\ m \notin Below(m)
      <4>1. (\A k \in S : k < m => k < n) /\ ~(m < m)
        BY <2>4, <3>0
      <4> QED BY <2>4, <4>1
    <3>2. <<Below(m), Below(n)>> \in R
      BY <3>1, <1>5
    <3> QED BY <2>2, <2>3, <3>2
  <2> QED BY <2>4
<1>3. \E n \in S : \A m \in S : m <= n
  <2> DEFINE T == {Above(n) : n \in S}
  <2>1. T \subseteq SUBSET S /\ T # {}
    OBVIOUS
  <2>2. PICK x \in T : \A y \in T : <<y, x>> \notin R
    BY <1>1, <2>1, WFMin
  <2>3. PICK n \in S : x = Above(n)
    BY <2>2
  <2>4. ASSUME NEW m \in S, m > n PROVE FALSE
    <3>0. m \in Nat /\ n \in Nat /\ \A k \in S : k \in Nat
      OBVIOUS
    <3>1. /\ Above(m) \subseteq Above(n) /\ Above(n) \subseteq S
          /\ m \in Above(n) /\ m \notin Above(m)
      <4>1. (\A k \in S : k > m => k > n) /\ ~(m > m)
        BY <2>4, <3>0
      <4> QED BY <2>4, <4>1
    <3>2. <<Above(m), Above(n)>> \in R
      BY <3>1, <1>5
    <3> QED BY <2>2, <2>3, <3>2
  <2> QED BY <2>4
<1> QED BY <1>2, <1>3

\* Runs cannot wait in a circle: of the rows they wait for, the last one is
\* held by a run that waits for a later one still.
LEMMA NoCircularWait == AlertsInv => SomeRunProgresses
<1> SUFFICES ASSUME AlertsInv, \A r \in Runs : Blocked(r) PROVE FALSE
  BY DEF SomeRunProgresses
<1> DEFINE Waits(r, n) == todo[r][n] # None /\ Turn(r, n)
           Wanted == {n \in Nodes : \E r \in Runs : Waits(r, n)}
<1>0. /\ TypeOK /\ LockOrder
      /\ Nodes \subseteq Nat /\ IsFiniteSet(Nodes) /\ Runs # {}
  BY AlertConstants DEF AlertsInv
<1>1. ASSUME NEW r \in Runs PROVE \E n \in Nodes : Waits(r, n)
  <2> DEFINE left == {n \in Nodes : todo[r][n] # None}
  <2>1. todo[r] # Nothing /\ todo[r] \in [Nodes -> Severities \cup {None}]
    BY <1>0 DEF Blocked, TypeOK
  <2>2. left # {}
    BY <2>1 DEF Nothing
  <2>3. IsFiniteSet(left) /\ left \subseteq Nat
    BY <1>0, FS_Subset
  <2>4. PICK n \in left : \A m \in left : n <= m
    BY <2>2, <2>3, FiniteExtremes
  <2>5. Turn(r, n)
    BY <1>0, <2>4 DEF Turn
  <2> QED BY <2>4, <2>5
<1>2. IsFiniteSet(Wanted) /\ Wanted \subseteq Nat /\ Wanted # {}
  <2>1. Wanted \in SUBSET Nodes
    OBVIOUS
  <2> QED BY <1>0, <1>1, <2>1, FS_Subset
<1>3. PICK n \in Wanted : \A m \in Wanted : m <= n
  BY <1>2, FiniteExtremes
<1>4. PICK r \in Runs : Waits(r, n)
  BY <1>3
<1>5. PICK q \in Runs : n \in locked[q]
  BY <1>3, <1>4 DEF Blocked, MayUpsert
<1>6. PICK m \in Nodes : Waits(q, m)
  BY <1>1
<1>7. m \in Wanted /\ n < m
  BY <1>0, <1>5, <1>6 DEF LockOrder
<1> QED BY <1>0, <1>2, <1>3, <1>7

\* The FOR ... ORDER BY node_id of check_thresholds: overlapping runs never
\* deadlock on the rows they upsert.
THEOREM RunsDoNotDeadlock == Spec => []SomeRunProgresses
  BY NoCircularWait, AlertsInvariant, PTL
-----------------------------------------------------------------------------
(* The publisher's queue                                                    *)

\* What happened to message m in a step of the process: it is still held or its
\* alert is, or the policy let it go.
Excused(m) ==
  \/ \E n \in MessagesHeld' : n.alert = m.alert
  \/ m.alert \in topic'
  \/ Exhausted(m) \/ PushedOut(m) \/ LostToInterruption(m) \/ WorkerDies

\* A message joins the deque at the right.
LEMMA JoinFacts ==
  ASSUME NEW S, NEW q \in Seq(S), NEW m \in S
  PROVE  /\ Append(q, m) \in Seq(S)
         /\ Len(Append(q, m)) = Len(q) + 1
         /\ ToSet(Append(q, m)) = ToSet(q) \cup {m}
<1> DEFINE new == Append(q, m)
<1>1. /\ new \in Seq(S) /\ Len(new) = Len(q) + 1
      /\ \A i \in 1..Len(q) : new[i] = q[i]
      /\ new[Len(q) + 1] = m
  BY AppendProperties
<1>2. DOMAIN q = 1..Len(q) /\ Len(q) \in Nat /\ DOMAIN new = 1..(Len(q) + 1)
  BY <1>1, LenProperties
<1> HIDE DEF new
<1>3. ToSet(new) \subseteq ToSet(q) \cup {m}
  <2> SUFFICES ASSUME NEW i \in DOMAIN new PROVE new[i] \in ToSet(q) \cup {m}
    BY DEF ToSet
  <2> QED BY <1>1, <1>2 DEF ToSet
<1>4. ToSet(q) \cup {m} \subseteq ToSet(new)
  BY <1>1, <1>2 DEF ToSet
<1> QED BY <1>1, <1>3, <1>4 DEF new

\* The message at the head leaves.
LEMMA PopFacts ==
  ASSUME NEW S, NEW q \in Seq(S), q # <<>>
  PROVE  /\ Head(q) \in S
         /\ Tail(q) \in Seq(S) /\ Len(Tail(q)) = Len(q) - 1
         /\ ToSet(q) = ToSet(Tail(q)) \cup {Head(q)}
<1> DEFINE h == Head(q)
           rest == Tail(q)
<1>1. /\ h \in S /\ rest \in Seq(S) /\ Len(rest) = Len(q) - 1
      /\ \A i \in 1..Len(rest) : rest[i] = q[i + 1]
  BY HeadTailProperties
<1>2. /\ DOMAIN q = 1..Len(q) /\ Len(q) \in Nat \ {0}
      /\ DOMAIN rest = 1..(Len(q) - 1)
  BY <1>1, LenProperties, EmptySeq
<1>3. h = q[1]
  OBVIOUS
<1> HIDE DEF h, rest
<1>4. ASSUME NEW i \in DOMAIN q PROVE q[i] \in ToSet(rest) \cup {h}
  <2>1. CASE i = 1
    BY <1>3, <2>1
  <2>2. CASE i # 1
    <3>1. i - 1 \in DOMAIN rest /\ rest[i - 1] = q[i]
      BY <1>1, <1>2, <2>2
    <3> QED BY <3>1 DEF ToSet
  <2> QED BY <2>1, <2>2
<1>5. ASSUME NEW i \in DOMAIN rest PROVE rest[i] \in ToSet(q)
  BY <1>1, <1>2 DEF ToSet
<1>6. h \in ToSet(q)
  BY <1>2, <1>3 DEF ToSet
<1>7. ToSet(q) = ToSet(rest) \cup {h}
  BY <1>4, <1>5, <1>6 DEF ToSet
<1> QED BY <1>1, <1>7 DEF h, rest

\* A deque cut in two loses nothing.
LEMMA CutFacts ==
  ASSUME NEW S, NEW q \in Seq(S), NEW n \in 0..Len(q)
  PROVE  LET left  == SubSeq(q, 1, n)
             right == SubSeq(q, n + 1, Len(q))
         IN  /\ left \in Seq(S) /\ right \in Seq(S)
             /\ Len(left) = n /\ Len(right) = Len(q) - n
             /\ \A i \in 1..n : left[i] = q[i]
             /\ ToSet(q) \subseteq ToSet(left) \cup ToSet(right)
<1> DEFINE left  == SubSeq(q, 1, n)
           right == SubSeq(q, n + 1, Len(q))
<1>1. Len(q) \in Nat /\ DOMAIN q = 1..Len(q) /\ \A i \in 1..Len(q) : q[i] \in S
  BY LenProperties, ElementOfSeq
<1>2. left \in Seq(S) /\ Len(left) = n /\ \A i \in 1..n : left[i] = q[i]
  <2>1. \A i \in 1..n : q[i] \in S
    BY <1>1
  <2>2. /\ left \in Seq(S) /\ Len(left) = IF 1 <= n THEN n - 1 + 1 ELSE 0
        /\ \A i \in 1..(n - 1 + 1) : left[i] = q[1 + i - 1]
    BY <1>1, <2>1, SubSeqProperties
  <2> HIDE DEF left
  <2> QED BY <1>1, <2>2
<1>3. /\ right \in Seq(S) /\ Len(right) = Len(q) - n
      /\ \A i \in 1..(Len(q) - n) : right[i] = q[n + i]
  <2>1. \A i \in (n + 1)..Len(q) : q[i] \in S
    BY <1>1
  <2>2. /\ right \in Seq(S)
        /\ Len(right) = IF n + 1 <= Len(q) THEN Len(q) - (n + 1) + 1 ELSE 0
        /\ \A i \in 1..(Len(q) - (n + 1) + 1) : right[i] = q[(n + 1) + i - 1]
    BY <1>1, <2>1, SubSeqProperties
  <2> HIDE DEF right
  <2>3. Len(right) = Len(q) - n
    <3>1. CASE n + 1 <= Len(q)
      BY <1>1, <2>2, <3>1
    <3>2. CASE ~(n + 1 <= Len(q))
      <4>1. n \in Nat /\ Len(q) \in Nat /\ n <= Len(q) /\ ~(n + 1 <= Len(q))
        BY <1>1, <3>2
      <4>2. Len(right) = 0
        BY <2>2, <3>2
      <4>3. Len(q) - n = 0
        BY <4>1
      <4> QED BY <4>2, <4>3
    <3> QED BY <3>1, <3>2
  <2>4. ASSUME NEW i \in 1..(Len(q) - n) PROVE right[i] = q[n + i]
    <3>1. i \in 1..(Len(q) - (n + 1) + 1) /\ (n + 1) + i - 1 = n + i
      BY <1>1
    <3>2. right[i] = q[(n + 1) + i - 1]
      BY <2>2, <3>1
    <3> QED BY <3>1, <3>2
  <2> QED BY <2>2, <2>3, <2>4
<1>4. DOMAIN left = 1..n /\ DOMAIN right = 1..(Len(q) - n)
  BY <1>2, <1>3, LenProperties
<1> HIDE DEF left, right
<1>5. ASSUME NEW i \in 1..Len(q) PROVE q[i] \in ToSet(left) \cup ToSet(right)
  <2>1. CASE i <= n
    <3>1. i \in DOMAIN left /\ left[i] = q[i]
      BY <1>1, <1>2, <1>4, <2>1
    <3> QED BY <3>1 DEF ToSet
  <2>2. CASE i > n
    <3>1. i - n \in DOMAIN right /\ right[i - n] = q[i]
      BY <1>1, <1>3, <1>4, <2>2
    <3> QED BY <3>1 DEF ToSet
  <2> QED BY <1>1, <2>1, <2>2
<1>6. ToSet(q) \subseteq ToSet(left) \cup ToSet(right)
  BY <1>1, <1>5 DEF ToSet
<1> QED BY <1>2, <1>3, <1>6 DEF left, right

\* Queueing keeps the deque within its bound, and drops a message only when it
\* leaves the deque full.
LEMMA EnqueueFacts ==
  ASSUME NEW q \in Seq(Message), Len(q) <= MaxQueue, NEW m \in Message
  PROVE  /\ Enqueue(q, m) \in Seq(Message)
         /\ Len(Enqueue(q, m)) <= MaxQueue
         /\ m \in ToSet(Enqueue(q, m))
         /\ \/ ToSet(q) \subseteq ToSet(Enqueue(q, m))
            \/ Len(Enqueue(q, m)) = MaxQueue
<1>1. Len(q) \in Nat /\ MaxQueue \in Nat \ {0}
  BY LenProperties, PublisherConstants
<1>2. CASE Len(q) >= MaxQueue
  <2> DEFINE rest == Tail(q)
  <2>1. q # <<>>
    BY <1>1, <1>2, EmptySeq
  <2>2. rest \in Seq(Message) /\ Len(rest) = Len(q) - 1
    BY <2>1, PopFacts
  <2>3. Enqueue(q, m) = Append(rest, m)
    BY <1>2 DEF Enqueue
  <2> HIDE DEF rest
  <2>4. /\ Append(rest, m) \in Seq(Message)
        /\ Len(Append(rest, m)) = Len(rest) + 1
        /\ ToSet(Append(rest, m)) = ToSet(rest) \cup {m}
    BY <2>2, JoinFacts
  <2>5. Len(Append(rest, m)) = MaxQueue
    <3>1. Len(q) = MaxQueue
      BY <1>1, <1>2
    <3> QED BY <1>1, <2>2, <2>4, <3>1
  <2> QED BY <1>1, <2>3, <2>4, <2>5
<1>3. CASE ~(Len(q) >= MaxQueue)
  <2>1. /\ Append(q, m) \in Seq(Message)
        /\ Len(Append(q, m)) = Len(q) + 1
        /\ ToSet(Append(q, m)) = ToSet(q) \cup {m}
    BY JoinFacts
  <2>2. Enqueue(q, m) = Append(q, m)
    BY <1>3 DEF Enqueue
  <2> QED BY <1>1, <1>3, <2>1, <2>2
<1> QED BY <1>2, <1>3

\* So does putting a batch back in front, and all of the batch stays.
LEMMA RequeueFacts ==
  ASSUME NEW b \in Seq(Message), Len(b) <= MaxQueue, NEW q \in Seq(Message)
  PROVE  /\ Requeue(b, q) \in Seq(Message)
         /\ Len(Requeue(b, q)) <= MaxQueue
         /\ ToSet(b) \subseteq ToSet(Requeue(b, q))
         /\ ToSet(q) \subseteq ToSet(Requeue(b, q)) \/ Len(Requeue(b, q)) = MaxQueue
<1> DEFINE all == b \o q
<1>1. /\ all \in Seq(Message) /\ Len(all) = Len(b) + Len(q)
      /\ \A i \in 1..(Len(b) + Len(q)) :
           all[i] = IF i <= Len(b) THEN b[i] ELSE q[i - Len(b)]
  BY ConcatProperties
<1>2. /\ Len(b) \in Nat /\ DOMAIN b = 1..Len(b)
      /\ Len(q) \in Nat /\ DOMAIN q = 1..Len(q)
      /\ Len(all) \in Nat /\ DOMAIN all = 1..Len(all)
      /\ MaxQueue \in Nat \ {0}
  BY <1>1, LenProperties, PublisherConstants
<1>3. Requeue(b, q) = SubSeq(all, 1, IF Len(all) < MaxQueue THEN Len(all) ELSE MaxQueue)
  BY DEF Requeue
<1> HIDE DEF all
<1>4. CASE Len(all) < MaxQueue
  <2>1. Requeue(b, q) = all
    BY <1>1, <1>3, <1>4, SubSeqFull
  <2>2. ASSUME NEW i \in 1..Len(b) PROVE b[i] \in ToSet(all)
    <3>1. i \in DOMAIN all /\ all[i] = b[i]
      BY <1>1, <1>2
    <3> QED BY <3>1 DEF ToSet
  <2>3. ASSUME NEW i \in 1..Len(q) PROVE q[i] \in ToSet(all)
    <3>1. /\ i + Len(b) \in 1..(Len(b) + Len(q)) /\ ~(i + Len(b) <= Len(b))
          /\ (i + Len(b)) - Len(b) = i
      BY <1>2
    <3>2. i + Len(b) \in DOMAIN all /\ all[i + Len(b)] = q[i]
      BY <1>1, <1>2, <3>1
    <3> QED BY <3>2 DEF ToSet
  <2>4. ToSet(b) \cup ToSet(q) \subseteq ToSet(all)
    BY <1>2, <2>2, <2>3 DEF ToSet
  <2> QED BY <1>1, <1>2, <1>4, <2>1, <2>4
<1>5. CASE ~(Len(all) < MaxQueue)
  <2> DEFINE kept == SubSeq(all, 1, MaxQueue)
  <2>1. MaxQueue \in 0..Len(all)
    BY <1>2, <1>5
  <2>2. /\ kept \in Seq(Message) /\ Len(kept) = MaxQueue
        /\ \A i \in 1..MaxQueue : kept[i] = all[i]
    BY <1>1, <2>1, CutFacts
  <2>3. Requeue(b, q) = kept
    BY <1>3, <1>5
  <2>4. DOMAIN kept = 1..MaxQueue
    BY <2>2, LenProperties
  <2> HIDE DEF kept
  <2>5. ASSUME NEW i \in 1..Len(b) PROVE b[i] \in ToSet(kept)
    <3>1. i \in 1..MaxQueue /\ i \in 1..(Len(b) + Len(q)) /\ i <= Len(b)
      BY <1>2
    <3>2. kept[i] = all[i] /\ all[i] = b[i]
      BY <1>1, <2>2, <3>1
    <3> QED BY <2>4, <3>1, <3>2 DEF ToSet
  <2>6. ToSet(b) \subseteq ToSet(kept)
    BY <1>2, <2>5 DEF ToSet
  <2> QED BY <1>2, <2>2, <2>3, <2>6
<1> QED BY <1>4, <1>5

\* Messages are held in the deque or in the hands of a caller.
LEMMA HeldIsPlaced ==
  ASSUME NEW m
  PROVE  m \in MessagesHeld <=> m \in ToSet(queue) \/ \E c \in Callers : m \in ToSet(batch[c])
BY DEF MessagesHeld

LEMMA EmptyHolds == ToSet(<<>>) = {}
BY DEF ToSet

LEMMA PlacedNext ==
  ASSUME NEW m
  PROVE  m \in MessagesHeld' <=> m \in ToSet(queue') \/ \E c \in Callers : m \in ToSet(batch'[c])
BY DEF MessagesHeld

LEMMA KeptIsExcused ==
  ASSUME NEW m, m \in MessagesHeld'
  PROVE  Excused(m)
BY DEF Excused

\* The deque drops messages only when it is full afterwards.
LEMMA QueueExcused ==
  ASSUME NEW m \in ToSet(queue), ToSet(queue) \subseteq ToSet(queue') \/ Len(queue') = MaxQueue
  PROVE  Excused(m)
<1>1. CASE m \in ToSet(queue')
  BY <1>1, PlacedNext, KeptIsExcused
<1>2. CASE Len(queue') = MaxQueue
  BY <1>2 DEF Excused, PushedOut
<1> QED BY <1>1, <1>2

\* What an interruption takes is what its caller had at risk.
LEMMA RiskExcused ==
  ASSUME faults \in Nat, Fault, NEW c \in Callers, step'[c] # step[c], NEW m \in AtRisk(c)
  PROVE  Excused(m)
BY DEF Fault, Excused, LostToInterruption

\* A message that left a batch left it at the head.
LEMMA PopKeeps ==
  ASSUME PublisherTypeOK, NEW c \in Callers, NEW after \in {"batch", "unwind"},
         Pop(c, after)
  PROVE  /\ InHand(c) \in Message
         /\ batch' \in [Callers -> Seq(Message)]
         /\ step' \in [Callers -> {"idle", "retry", "batch", "unwind"}]
         /\ \A d \in Callers : /\ Len(batch'[d]) <= BatchSize /\ Len(batch'[d]) <= MaxQueue
                               /\ batch'[d] = <<>> <=> step'[d] \in {"idle", "retry"}
         /\ \A d \in Callers : \A m \in ToSet(batch[d]) : m \in ToSet(batch'[d]) \/ m = InHand(c)
<1> DEFINE rest == Tail(batch[c])
<1>0. /\ batch \in [Callers -> Seq(Message)]
      /\ step \in [Callers -> {"idle", "retry", "batch", "unwind"}]
      /\ \A d \in Callers : /\ Len(batch[d]) <= BatchSize /\ Len(batch[d]) <= MaxQueue
                            /\ batch[d] = <<>> <=> step[d] \in {"idle", "retry"}
      /\ BatchSize \in Nat /\ MaxQueue \in Nat
  BY PublisherConstants DEF PublisherTypeOK
<1>1. /\ step[c] = "batch"
      /\ batch' = [batch EXCEPT ![c] = rest]
      /\ step' = [step EXCEPT ![c] = IF rest = <<>> THEN "idle" ELSE after]
  BY <1>0 DEF Pop
<1>2. batch[c] \in Seq(Message) /\ batch[c] # <<>>
  BY <1>0, <1>1
<1>3. /\ InHand(c) \in Message /\ rest \in Seq(Message)
      /\ Len(rest) = Len(batch[c]) - 1 /\ Len(batch[c]) \in Nat
      /\ ToSet(batch[c]) = ToSet(rest) \cup {InHand(c)}
  BY <1>2, PopFacts, LenProperties DEF InHand
<1> HIDE DEF rest
<1>4. \A d \in Callers : /\ batch'[d] = IF d = c THEN rest ELSE batch[d]
                         /\ step'[d] = IF d = c THEN IF rest = <<>> THEN "idle" ELSE after
                                       ELSE step[d]
  BY <1>0, <1>1
<1>5. batch' \in [Callers -> Seq(Message)]
  BY <1>0, <1>1, <1>3
<1>6. step' \in [Callers -> {"idle", "retry", "batch", "unwind"}]
  BY <1>0, <1>1
<1>7. \A d \in Callers : /\ Len(batch'[d]) <= BatchSize /\ Len(batch'[d]) <= MaxQueue
                         /\ batch'[d] = <<>> <=> step'[d] \in {"idle", "retry"}
  <2>1. Len(rest) <= BatchSize /\ Len(rest) <= MaxQueue
    BY <1>0, <1>3
  <2> QED BY <1>0, <1>4, <2>1
<1>8. \A d \in Callers : \A m \in ToSet(batch[d]) : m \in ToSet(batch'[d]) \/ m = InHand(c)
  BY <1>3, <1>4
<1> QED BY <1>3, <1>5, <1>6, <1>7, <1>8

\* publish_alert queues an alert that was not sent.
LEMMA PublishFailsKeeps ==
  ASSUME PublisherTypeOK, NEW c \in Callers, NEW a \in Alerts, PublishFails(c, a)
  PROVE  PublisherTypeOK' /\ \A m \in MessagesHeld : Excused(m)
<1> DEFINE new == [alert |-> a, tries |-> 0]
<1>1. new \in Message
  BY DEF Message
<1>2. queue' = Enqueue(queue, new) /\ batch' = batch /\ queue \in Seq(Message)
  BY DEF PublishFails, PublisherTypeOK
<1> HIDE DEF new
<1>3. /\ queue' \in Seq(Message) /\ Len(queue') <= MaxQueue
      /\ ToSet(queue) \subseteq ToSet(queue') \/ Len(queue') = MaxQueue
  BY <1>1, <1>2, EnqueueFacts DEF PublisherTypeOK
<1>4. PublisherTypeOK'
  BY <1>3 DEF PublisherTypeOK, PublishFails
<1>5. ASSUME NEW m \in MessagesHeld PROVE Excused(m)
  <2>1. CASE m \in ToSet(queue)
    BY <1>3, <2>1, QueueExcused
  <2>2. CASE m \notin ToSet(queue)
    <3>1. m \in MessagesHeld'
      BY <1>2, <2>2, HeldIsPlaced, PlacedNext
    <3> QED BY <3>1, KeptIsExcused
  <2> QED BY <2>1, <2>2
<1> QED BY <1>4, <1>5

\* publish_alert sends an alert and begins a retry if the deque is not empty.
LEMMA PublishSucceedsKeeps ==
  ASSUME PublisherTypeOK, NEW c \in Callers, NEW a \in Alerts, PublishSucceeds(c, a)
  PROVE  PublisherTypeOK' /\ \A m \in MessagesHeld : Excused(m)
<1>1. /\ queue' = queue /\ batch' = batch /\ faults' = faults
      /\ step[c] = "idle" /\ step \in [Callers -> {"idle", "retry", "batch", "unwind"}]
      /\ fresh' = fresh \ {a} /\ topic' = topic \cup {a}
      /\ \E next \in {"idle", "retry"} : step' = [step EXCEPT ![c] = next]
  BY DEF PublishSucceeds, PublisherTypeOK
<1>2. /\ step' \in [Callers -> {"idle", "retry", "batch", "unwind"}]
      /\ \A d \in Callers : step'[d] \in {"idle", "retry"} <=> step[d] \in {"idle", "retry"}
  BY <1>1
<1>3. PublisherTypeOK'
  BY <1>1, <1>2 DEF PublisherTypeOK
<1>4. \A m \in MessagesHeld : m \in MessagesHeld'
  BY <1>1, HeldIsPlaced, PlacedNext
<1> QED BY <1>3, <1>4, KeptIsExcused

\* Whether the alert was sent or not, an error that escapes changes nothing else.
LEMMA PublishRaisesKeeps ==
  ASSUME PublisherTypeOK, NEW c \in Callers, NEW a \in Alerts, PublishRaises(c, a)
  PROVE  PublisherTypeOK' /\ \A m \in MessagesHeld : Excused(m)
<1>1. /\ UNCHANGED <<queue, batch, step, faults>>
      /\ fresh' = fresh \ {a} /\ topic' \subseteq topic \cup {a}
  BY DEF PublishRaises
<1>2. PublisherTypeOK'
  BY <1>1 DEF PublisherTypeOK
<1>3. \A m \in MessagesHeld : m \in MessagesHeld'
  BY <1>1, HeldIsPlaced, PlacedNext
<1> QED BY <1>2, <1>3, KeptIsExcused

\* A retry takes a batch off the left end of the deque.
LEMMA TakeBatchKeeps ==
  ASSUME PublisherTypeOK, NEW c \in Callers, TakeBatch(c)
  PROVE  PublisherTypeOK' /\ \A m \in MessagesHeld : Excused(m)
<1> DEFINE left  == SubSeq(queue, 1, BatchLen)
           right == SubSeq(queue, BatchLen + 1, Len(queue))
           next  == IF queue = <<>> THEN "idle" ELSE "batch"
<1>0. /\ queue \in Seq(Message) /\ Len(queue) <= MaxQueue
      /\ batch \in [Callers -> Seq(Message)]
      /\ step \in [Callers -> {"idle", "retry", "batch", "unwind"}]
      /\ \A d \in Callers : /\ Len(batch[d]) <= BatchSize /\ Len(batch[d]) <= MaxQueue
                            /\ batch[d] = <<>> <=> step[d] \in {"idle", "retry"}
  BY DEF PublisherTypeOK
<1>1. /\ step[c] = "retry"
      /\ batch' = [batch EXCEPT ![c] = left] /\ queue' = right
      /\ step' = [step EXCEPT ![c] = next]
      /\ UNCHANGED <<fresh, topic, faults>>
  BY DEF TakeBatch
<1>2. /\ Len(queue) \in Nat /\ BatchSize \in Nat \ {0} /\ MaxQueue \in Nat
      /\ queue = <<>> <=> Len(queue) = 0
  BY <1>0, LenProperties, EmptySeq, PublisherConstants
<1>3. BatchLen \in 0..Len(queue) /\ (BatchLen = 0 <=> Len(queue) = 0) /\ BatchLen <= BatchSize
  BY <1>2 DEF BatchLen
<1>4. /\ left \in Seq(Message) /\ right \in Seq(Message)
      /\ Len(left) = BatchLen /\ Len(right) = Len(queue) - BatchLen
      /\ ToSet(queue) \subseteq ToSet(left) \cup ToSet(right)
  BY <1>0, <1>3, CutFacts
<1>5. left = <<>> <=> next = "idle"
  BY <1>2, <1>3, <1>4, EmptySeq
<1>6. next \in {"idle", "batch"}
  OBVIOUS
<1> HIDE DEF left, right, next
<1>7. \A d \in Callers : /\ batch'[d] = IF d = c THEN left ELSE batch[d]
                         /\ step'[d] = IF d = c THEN next ELSE step[d]
  BY <1>0, <1>1
<1>8. PublisherTypeOK'
  <2>1. batch' \in [Callers -> Seq(Message)]
    BY <1>0, <1>1, <1>4
  <2>2. step' \in [Callers -> {"idle", "retry", "batch", "unwind"}]
    BY <1>0, <1>1, <1>6
  <2>3. \A d \in Callers : /\ Len(batch'[d]) <= BatchSize /\ Len(batch'[d]) <= MaxQueue
                           /\ batch'[d] = <<>> <=> step'[d] \in {"idle", "retry"}
    <3>1. Len(left) <= BatchSize /\ Len(left) <= MaxQueue
      BY <1>0, <1>2, <1>3, <1>4
    <3> QED BY <1>0, <1>5, <1>6, <1>7, <3>1
  <2>4. queue' \in Seq(Message) /\ Len(queue') <= MaxQueue
    BY <1>0, <1>1, <1>2, <1>3, <1>4
  <2> QED BY <1>1, <2>1, <2>2, <2>3, <2>4 DEF PublisherTypeOK
<1>9. ASSUME NEW m \in MessagesHeld PROVE m \in MessagesHeld'
  <2>1. batch[c] = <<>>
    BY <1>0, <1>1
  <2>2. CASE m \in ToSet(queue)
    BY <1>1, <1>4, <1>7, <2>2, PlacedNext
  <2>3. ASSUME NEW d \in Callers, m \in ToSet(batch[d]) PROVE m \in MessagesHeld'
    <3>1. d # c
      BY <2>1, <2>3, EmptyHolds
    <3> QED BY <1>7, <2>3, <3>1, PlacedNext
  <2> QED BY <2>2, <2>3, HeldIsPlaced
<1> QED BY <1>8, <1>9, KeptIsExcused

\* An interruption there costs messages of the batch only.
LEMMA TakeInterruptedKeeps ==
  ASSUME PublisherTypeOK, NEW c \in Callers, TakeInterrupted(c)
  PROVE  PublisherTypeOK' /\ \A m \in MessagesHeld : Excused(m)
<1>0. /\ queue \in Seq(Message) /\ Len(queue) <= MaxQueue /\ faults \in Nat
      /\ step \in [Callers -> {"idle", "retry", "batch", "unwind"}]
  BY DEF PublisherTypeOK
<1>1. /\ step[c] = "retry" /\ step' = [step EXCEPT ![c] = "idle"] /\ Fault
      /\ UNCHANGED <<fresh, batch, topic>>
  BY DEF TakeInterrupted
<1>2. PICK n \in 1..BatchLen : queue' = SubSeq(queue, n + 1, Len(queue))
  BY DEF TakeInterrupted
<1>3. /\ Len(queue) \in Nat /\ BatchSize \in Nat /\ MaxQueue \in Nat
  BY <1>0, LenProperties, PublisherConstants
<1>4. BatchLen \in 0..Len(queue) /\ n \in 0..Len(queue) /\ n <= BatchLen
  BY <1>2, <1>3 DEF BatchLen
<1> DEFINE left  == SubSeq(queue, 1, n)
           taken == SubSeq(queue, 1, BatchLen)
<1>5. /\ left \in Seq(Message) /\ Len(left) = n /\ \A i \in 1..n : left[i] = queue[i]
      /\ queue' \in Seq(Message) /\ Len(queue') = Len(queue) - n
      /\ ToSet(queue) \subseteq ToSet(left) \cup ToSet(queue')
  BY <1>0, <1>2, <1>4, CutFacts
<1>6. /\ taken \in Seq(Message) /\ Len(taken) = BatchLen
      /\ \A i \in 1..BatchLen : taken[i] = queue[i]
  BY <1>0, <1>4, CutFacts
<1>7. AtRisk(c) = ToSet(taken)
  BY <1>1 DEF AtRisk
<1> HIDE DEF left, taken
<1>8. DOMAIN left = 1..n /\ DOMAIN taken = 1..BatchLen
  BY <1>5, <1>6, LenProperties
<1>9. ToSet(left) \subseteq AtRisk(c)
  <2> SUFFICES ASSUME NEW i \in DOMAIN left PROVE left[i] \in AtRisk(c)
    BY DEF ToSet
  <2>1. i \in 1..n /\ i \in 1..BatchLen
    BY <1>4, <1>8
  <2>2. left[i] = taken[i]
    BY <1>5, <1>6, <2>1
  <2> QED BY <1>7, <1>8, <2>1, <2>2 DEF ToSet
<1>10. PublisherTypeOK'
  <2>1. Len(queue') <= MaxQueue
    BY <1>0, <1>3, <1>4, <1>5
  <2>2. /\ step' \in [Callers -> {"idle", "retry", "batch", "unwind"}]
        /\ \A d \in Callers : step'[d] \in {"idle", "retry"} <=> step[d] \in {"idle", "retry"}
    BY <1>0, <1>1
  <2>3. faults' \in Nat
    BY <1>0, <1>1 DEF Fault
  <2> QED BY <1>1, <1>5, <2>1, <2>2, <2>3 DEF PublisherTypeOK
<1>11. ASSUME NEW m \in MessagesHeld PROVE Excused(m)
  <2>1. CASE m \in ToSet(left)
    <3>1. step'[c] # step[c]
      BY <1>0, <1>1
    <3> QED BY <1>0, <1>1, <1>9, <2>1, <3>1, RiskExcused
  <2>2. CASE m \notin ToSet(left)
    <3>1. m \in MessagesHeld'
      BY <1>1, <1>5, <2>2, HeldIsPlaced, PlacedNext
    <3> QED BY <3>1, KeptIsExcused
  <2> QED BY <2>1, <2>2
<1> QED BY <1>10, <1>11

\* A popped message is dropped for its retries, sent, queued again or, at an
\* interruption, forgotten.
LEMMA RetryKeeps ==
  ASSUME PublisherTypeOK, NEW c \in Callers,
         \/ DropExhausted(c) \/ RetrySucceeds(c) \/ RetryFails(c)
         \/ RetryRaises(c) \/ Interrupted(c)
  PROVE  PublisherTypeOK' /\ \A m \in MessagesHeld : Excused(m)
<1> DEFINE again == [InHand(c) EXCEPT !.tries = @ + 1]
<1>0. \E after \in {"batch", "unwind"} : Pop(c, after)
  BY DEF DropExhausted, RetrySucceeds, RetryFails, RetryRaises, Interrupted
<1>1. /\ InHand(c) \in Message
      /\ batch' \in [Callers -> Seq(Message)]
      /\ step' \in [Callers -> {"idle", "retry", "batch", "unwind"}]
      /\ \A d \in Callers : /\ Len(batch'[d]) <= BatchSize /\ Len(batch'[d]) <= MaxQueue
                            /\ batch'[d] = <<>> <=> step'[d] \in {"idle", "retry"}
      /\ \A d \in Callers : \A m \in ToSet(batch[d]) : m \in ToSet(batch'[d]) \/ m = InHand(c)
  BY <1>0, PopKeeps
<1>2. again \in Message /\ again.alert = InHand(c).alert
  BY <1>1 DEF Message
<1>3. Failed(c) = Enqueue(queue, again)
  BY DEF Failed
<1> HIDE DEF again
<1>4. /\ queue \in Seq(Message) /\ Len(queue) <= MaxQueue
      /\ fresh \subseteq Alerts /\ topic \subseteq Alerts /\ faults \in Nat
      /\ step \in [Callers -> {"idle", "retry", "batch", "unwind"}]
  BY DEF PublisherTypeOK
<1>5. /\ Failed(c) \in Seq(Message) /\ Len(Failed(c)) <= MaxQueue
      /\ again \in ToSet(Failed(c))
      /\ ToSet(queue) \subseteq ToSet(Failed(c)) \/ Len(Failed(c)) = MaxQueue
  BY <1>2, <1>3, <1>4, EnqueueFacts
<1>6. /\ fresh' = fresh /\ (queue' = queue \/ queue' = Failed(c))
      /\ topic' \in {topic, topic \cup {InHand(c).alert}}
      /\ faults' \in {faults, faults + 1}
  BY DEF DropExhausted, RetrySucceeds, RetryFails, RetryRaises, Interrupted, Fault
<1>7. PublisherTypeOK'
  <2>1. InHand(c).alert \in Alerts
    BY <1>1 DEF Message
  <2>2. topic' \subseteq Alerts /\ faults' \in Nat /\ fresh' \subseteq Alerts
    BY <1>4, <1>6, <2>1
  <2>3. queue' \in Seq(Message) /\ Len(queue') <= MaxQueue
    BY <1>4, <1>5, <1>6
  <2> QED BY <1>1, <2>2, <2>3 DEF PublisherTypeOK
<1>8. Excused(InHand(c))
  <2>1. CASE DropExhausted(c)
    BY <2>1 DEF DropExhausted, Pop, Excused, Exhausted
  <2>2. CASE RetrySucceeds(c)
    BY <2>2 DEF RetrySucceeds, Excused
  <2>3. CASE RetryFails(c) \/ RetryRaises(c)
    <3>1. again \in MessagesHeld'
      BY <1>5, <2>3, PlacedNext DEF RetryFails, RetryRaises
    <3> QED BY <1>2, <3>1 DEF Excused
  <2>4. CASE Interrupted(c)
    <3>1. /\ step[c] = "batch" /\ Fault
          /\ \E next \in {"idle", "unwind"} : step' = [step EXCEPT ![c] = next]
      BY <2>4 DEF Interrupted, Pop
    <3>2. step'[c] # step[c]
      BY <1>4, <3>1
    <3>3. InHand(c) \in AtRisk(c)
      BY <3>1 DEF AtRisk
    <3> QED BY <1>4, <3>1, <3>2, <3>3, RiskExcused
  <2> QED BY <2>1, <2>2, <2>3, <2>4
<1>9. ASSUME NEW m \in MessagesHeld PROVE Excused(m)
  <2>1. CASE m \in ToSet(queue)
    BY <1>5, <1>6, <2>1, QueueExcused
  <2>2. ASSUME NEW d \in Callers, m \in ToSet(batch[d]) PROVE Excused(m)
    <3>1. CASE m = InHand(c)
      BY <1>8, <3>1
    <3>2. CASE m \in ToSet(batch'[d])
      BY <3>2, PlacedNext, KeptIsExcused
    <3> QED BY <1>1, <2>2, <3>1, <3>2
  <2> QED BY <2>1, <2>2, HeldIsPlaced
<1> QED BY <1>7, <1>9

\* Interrupted between two messages, the retry has all its messages in the batch.
LEMMA BetweenKeeps ==
  ASSUME PublisherTypeOK, NEW c \in Callers, InterruptedBetween(c)
  PROVE  PublisherTypeOK' /\ \A m \in MessagesHeld : Excused(m)
<1>1. /\ step[c] = "batch" /\ step' = [step EXCEPT ![c] = "unwind"]
      /\ UNCHANGED <<fresh, queue, batch, topic, faults>>
      /\ step \in [Callers -> {"idle", "retry", "batch", "unwind"}]
  BY DEF InterruptedBetween, PublisherTypeOK
<1>2. /\ step' \in [Callers -> {"idle", "retry", "batch", "unwind"}]
      /\ \A d \in Callers : step'[d] \in {"idle", "retry"} <=> step[d] \in {"idle", "retry"}
  BY <1>1
<1>3. PublisherTypeOK'
  BY <1>1, <1>2 DEF PublisherTypeOK
<1>4. \A m \in MessagesHeld : m \in MessagesHeld'
  BY <1>1, HeldIsPlaced, PlacedNext
<1> QED BY <1>3, <1>4, KeptIsExcused

\* The finally clause of a retry returns the rest of its batch, unless it is
\* interrupted itself.
LEMMA UnwindKeeps ==
  ASSUME PublisherTypeOK, NEW c \in Callers, Unwind(c) \/ UnwindInterrupted(c)
  PROVE  PublisherTypeOK' /\ \A m \in MessagesHeld : Excused(m)
<1>0. /\ queue \in Seq(Message) /\ Len(queue) <= MaxQueue /\ faults \in Nat
      /\ batch \in [Callers -> Seq(Message)]
      /\ step \in [Callers -> {"idle", "retry", "batch", "unwind"}]
      /\ \A d \in Callers : /\ Len(batch[d]) <= BatchSize /\ Len(batch[d]) <= MaxQueue
                            /\ batch[d] = <<>> <=> step[d] \in {"idle", "retry"}
  BY DEF PublisherTypeOK
<1>1. /\ step[c] = "unwind"
      /\ batch' = [batch EXCEPT ![c] = <<>>]
      /\ step' = [step EXCEPT ![c] = "idle"]
      /\ UNCHANGED <<fresh, topic>>
      /\ \/ queue' = Requeue(batch[c], queue) /\ faults' = faults
         \/ queue' = queue /\ Fault
  BY DEF Unwind, UnwindInterrupted
<1>2. /\ Requeue(batch[c], queue) \in Seq(Message) /\ Len(Requeue(batch[c], queue)) <= MaxQueue
      /\ ToSet(batch[c]) \subseteq ToSet(Requeue(batch[c], queue))
      /\ \/ ToSet(queue) \subseteq ToSet(Requeue(batch[c], queue))
         \/ Len(Requeue(batch[c], queue)) = MaxQueue
  BY <1>0, RequeueFacts
<1>3. \A d \in Callers : /\ batch'[d] = IF d = c THEN <<>> ELSE batch[d]
                         /\ step'[d] = IF d = c THEN "idle" ELSE step[d]
  BY <1>0, <1>1
<1>4. PublisherTypeOK'
  <2>1. <<>> \in Seq(Message) /\ Len(<<>>) = 0 /\ BatchSize \in Nat /\ MaxQueue \in Nat
    BY EmptySeq, PublisherConstants
  <2>2. batch' \in [Callers -> Seq(Message)]
    BY <1>0, <1>1, <2>1
  <2>3. step' \in [Callers -> {"idle", "retry", "batch", "unwind"}]
    BY <1>0, <1>1
  <2>4. \A d \in Callers : /\ Len(batch'[d]) <= BatchSize /\ Len(batch'[d]) <= MaxQueue
                           /\ batch'[d] = <<>> <=> step'[d] \in {"idle", "retry"}
    BY <1>0, <1>3, <2>1
  <2>5. queue' \in Seq(Message) /\ Len(queue') <= MaxQueue
    BY <1>0, <1>1, <1>2
  <2>6. faults' \in Nat
    BY <1>0, <1>1 DEF Fault
  <2> QED BY <1>1, <2>2, <2>3, <2>4, <2>5, <2>6 DEF PublisherTypeOK
<1>5. ASSUME NEW m \in MessagesHeld PROVE Excused(m)
  <2>1. CASE m \in ToSet(queue)
    BY <1>1, <1>2, <2>1, QueueExcused
  <2>2. CASE m \in ToSet(batch[c])
    <3>1. CASE queue' = Requeue(batch[c], queue)
      BY <1>2, <2>2, <3>1, PlacedNext, KeptIsExcused
    <3>2. CASE Fault
      <4>1. AtRisk(c) = ToSet(batch[c])
        BY <1>1 DEF AtRisk
      <4>2. step'[c] # step[c]
        BY <1>0, <1>1
      <4> QED BY <1>0, <2>2, <3>2, <4>1, <4>2, RiskExcused
    <3> QED BY <1>1, <3>1, <3>2
  <2>3. ASSUME NEW d \in Callers, d # c, m \in ToSet(batch[d]) PROVE Excused(m)
    BY <1>3, <2>3, PlacedNext, KeptIsExcused
  <2> QED BY <2>1, <2>2, <2>3, HeldIsPlaced
<1> QED BY <1>4, <1>5

\* A worker that dies loses what it holds, which counts as a fault.
LEMMA WorkerDiesKeeps ==
  ASSUME PublisherTypeOK, WorkerDies
  PROVE  PublisherTypeOK' /\ \A m \in MessagesHeld : Excused(m)
<1>1. /\ queue' = <<>> /\ batch' = [c \in Callers |-> <<>>]
      /\ step' = [c \in Callers |-> "idle"]
      /\ faults' = faults + 1 /\ faults \in Nat
      /\ UNCHANGED <<fresh, topic>>
  BY DEF WorkerDies, Fault, PublisherTypeOK
<1>2. <<>> \in Seq(Message) /\ Len(<<>>) = 0 /\ MaxQueue \in Nat /\ BatchSize \in Nat
  BY EmptySeq, PublisherConstants
<1>3. PublisherTypeOK'
  <2>1. queue' \in Seq(Message) /\ Len(queue') <= MaxQueue
    BY <1>1, <1>2
  <2>2. batch' \in [Callers -> Seq(Message)]
    BY <1>1, <1>2
  <2>3. /\ step' \in [Callers -> {"idle", "retry", "batch", "unwind"}]
        /\ \A c \in Callers : /\ Len(batch'[c]) <= BatchSize /\ Len(batch'[c]) <= MaxQueue
                              /\ batch'[c] = <<>> <=> step'[c] \in {"idle", "retry"}
    BY <1>1, <1>2
  <2>4. faults' \in Nat /\ fresh' = fresh /\ topic' = topic
    BY <1>1
  <2> QED BY <2>1, <2>2, <2>3, <2>4 DEF PublisherTypeOK
<1> QED BY <1>3 DEF Excused

LEMMA PublisherStep ==
  ASSUME PublisherTypeOK, PublisherNext
  PROVE  PublisherTypeOK' /\ \A m \in MessagesHeld : Excused(m)
<1>1. CASE WorkerDies
  BY <1>1, WorkerDiesKeeps
<1>2. ASSUME NEW c \in Callers, NEW a \in Alerts,
             PublishFails(c, a) \/ PublishSucceeds(c, a) \/ PublishRaises(c, a)
      PROVE  PublisherTypeOK' /\ \A m \in MessagesHeld : Excused(m)
  BY <1>2, PublishFailsKeeps, PublishSucceedsKeeps, PublishRaisesKeeps
<1>3. ASSUME NEW c \in Callers, TakeBatch(c) \/ TakeInterrupted(c) \/ InterruptedBetween(c)
      PROVE  PublisherTypeOK' /\ \A m \in MessagesHeld : Excused(m)
  BY <1>3, TakeBatchKeeps, TakeInterruptedKeeps, BetweenKeeps
<1>4. ASSUME NEW c \in Callers,
             \/ DropExhausted(c) \/ RetrySucceeds(c) \/ RetryFails(c)
             \/ RetryRaises(c) \/ Interrupted(c)
      PROVE  PublisherTypeOK' /\ \A m \in MessagesHeld : Excused(m)
  BY <1>4, RetryKeeps
<1>5. ASSUME NEW c \in Callers, Unwind(c) \/ UnwindInterrupted(c)
      PROVE  PublisherTypeOK' /\ \A m \in MessagesHeld : Excused(m)
  BY <1>5, UnwindKeeps
<1> QED BY <1>1, <1>2, <1>3, <1>4, <1>5 DEF PublisherNext

\* The MQTT client and the sockets take nothing out of the process.
LEMMA OutsideStep ==
  ASSUME PublisherTypeOK, queue' = queue, batch' = batch, step' = step,
         fresh' = fresh, faults' = faults, topic' \subseteq topic
  PROVE  PublisherTypeOK' /\ \A m \in MessagesHeld : Excused(m)
<1>1. PublisherTypeOK'
  BY DEF PublisherTypeOK
<1>2. \A m \in MessagesHeld : m \in MessagesHeld'
  BY HeldIsPlaced, PlacedNext
<1> QED BY <1>1, <1>2, KeptIsExcused

-----------------------------------------------------------------------------
(* The sockets                                                              *)

SocketsInv == SocketsTypeOK /\ OpenSocketsReachable

\* A handler that ends unregisters its socket and aims nothing at it any more.
LEMMA LeaveKeeps ==
  ASSUME SocketsInv, NEW s \in Clients, Leave(s)
  PROVE  SocketsInv'
<1>1. /\ sock' = [sock EXCEPT ![s] = "closed"]
      /\ window' = [window EXCEPT ![s] = 0]
      /\ conns' = conns \ {s}
      /\ access' = access /\ loop' = loop
  BY DEF Leave
<1>2. cast' \in Cast \cup {NoCast}
  <2>1. CASE cast = NoCast
    BY <2>1 DEF Leave
  <2>2. CASE cast # NoCast
    <3>1. cast \in Cast
      BY <2>2 DEF SocketsInv, SocketsTypeOK
    <3>2. cast' = [cast EXCEPT !.to = @ \ {s}]
      BY <2>2 DEF Leave
    <3> QED BY <3>1, <3>2 DEF Cast
  <2> QED BY <2>1, <2>2
<1>3. sending' \subseteq Sending
  <2> SUFFICES ASSUME NEW x \in sending PROVE [x EXCEPT !.to = @ \ {s}] \in Sending
    BY DEF Leave
  <2>1. x \in Sending
    BY DEF SocketsInv, SocketsTypeOK
  <2> QED BY <2>1 DEF Sending
<1>4. SocketsTypeOK'
  <2>1. 0 \in 0..Full
    BY SocketConstants
  <2> QED BY <1>1, <1>2, <1>3, <2>1 DEF SocketsInv, SocketsTypeOK
<1>5. \A c \in Clients : sock'[c] = IF c = s THEN "closed" ELSE sock[c]
  BY <1>1 DEF SocketsInv, SocketsTypeOK
<1>6. OpenSocketsReachable'
  <2>1. conns' \subseteq Clients \cup {Ghost}
    BY <1>4 DEF SocketsTypeOK
  <2>2. ASSUME NEW c \in Clients, sock'[c] = "open" PROVE c \in conns' /\ loop' = "live"
    BY <1>1, <1>5, <2>2 DEF SocketsInv, OpenSocketsReachable
  <2>3. ASSUME NEW c \in conns' \ {Ghost} PROVE sock'[c] \in {"open", "broken"}
    BY <1>1, <1>5, <2>1, <2>3 DEF SocketsInv, OpenSocketsReachable, Handled
  <2> QED BY <2>2, <2>3 DEF OpenSocketsReachable, Handled
<1> QED BY <1>4, <1>6 DEF SocketsInv

\* The handler of a socket up to its end.
LEMMA HandlerKeeps ==
  ASSUME SocketsInv, NEW s \in Clients, Handler(s)
  PROVE  SocketsInv'
<1>0. /\ SocketsTypeOK /\ OpenSocketsReachable
      /\ sock \in [Clients -> {"closed", "checked", "open", "broken"}]
      /\ window \in [Clients -> 0..Full] /\ conns \subseteq Clients \cup {Ghost}
      /\ Full \in Nat \ {0} /\ Ghost \notin Clients
  BY SocketConstants DEF SocketsInv, SocketsTypeOK
<1>1. CASE Authenticate(s)
  <2>1. /\ sock[s] = "closed" /\ sock' = [sock EXCEPT ![s] = "checked"]
        /\ UNCHANGED <<access, window, conns, loop, cast, sending>>
    BY <1>1 DEF Authenticate
  <2>2. SocketsTypeOK'
    BY <1>0, <2>1 DEF SocketsTypeOK
  <2>3. OpenSocketsReachable'
    BY <1>0, <2>1 DEF OpenSocketsReachable, Handled
  <2> QED BY <2>2, <2>3 DEF SocketsInv
<1>2. CASE Register(s)
  <2>1. /\ sock' = [sock EXCEPT ![s] = "open"]
        /\ window' = [window EXCEPT ![s] = Full]
        /\ loop' = "live" /\ conns' = conns \cup {s}
        /\ UNCHANGED <<access, cast, sending>>
    BY <1>2 DEF Register, Captured
  <2>2. SocketsTypeOK'
    BY <1>0, <2>1 DEF SocketsTypeOK
  <2>3. OpenSocketsReachable'
    BY <1>0, <2>1 DEF OpenSocketsReachable, Handled
  <2> QED BY <2>2, <2>3 DEF SocketsInv
<1>3. CASE Frame(s) \/ Elapse(s)
  <2>1. /\ \E left \in 0..Full : window' = [window EXCEPT ![s] = left]
        /\ UNCHANGED <<access, sock, conns, loop, cast, sending>>
    BY <1>0, <1>3 DEF Frame, WindowAfter, Elapse
  <2>2. SocketsTypeOK'
    BY <1>0, <2>1 DEF SocketsTypeOK
  <2>3. OpenSocketsReachable'
    BY <1>0, <2>1 DEF OpenSocketsReachable, Handled
  <2> QED BY <2>2, <2>3 DEF SocketsInv
<1>4. CASE Expire(s) \/ PeerEnds(s)
  BY <1>4, LeaveKeeps DEF Expire, PeerEnds
<1>5. CASE Break(s)
  <2>1. /\ sock[s] = "open" /\ sock' = [sock EXCEPT ![s] = "broken"]
        /\ UNCHANGED <<access, window, conns, loop, cast, sending>>
    BY <1>5 DEF Break
  <2>2. SocketsTypeOK'
    BY <1>0, <2>1 DEF SocketsTypeOK
  <2>3. OpenSocketsReachable'
    BY <1>0, <2>1 DEF OpenSocketsReachable, Handled
  <2> QED BY <2>2, <2>3 DEF SocketsInv
<1> QED BY <1>1, <1>2, <1>3, <1>4, <1>5 DEF Handler

\* broadcast() copies what is registered and schedules a send for the copy; a
\* loop that cannot take it is forgotten, which is never the loop of an open
\* socket.
LEMMA BroadcastKeeps ==
  ASSUME SocketsInv,
         (\E msg \in BOOLEAN : Broadcast(msg)) \/ Schedule \/ ScheduleStale
  PROVE  SocketsInv'
<1>0. SocketsTypeOK /\ OpenSocketsReachable
  BY DEF SocketsInv
<1>1. /\ access' = access /\ sock' = sock /\ window' = window /\ conns' = conns
      /\ loop' \in {loop, LoopAfterError("stale")}
  BY DEF Broadcast, Schedule, ScheduleStale
<1>2. cast' \in Cast \cup {NoCast}
  <2>1. CASE Schedule \/ ScheduleStale
    BY <2>1 DEF Schedule, ScheduleStale
  <2>2. ASSUME NEW msg \in BOOLEAN, Broadcast(msg) PROVE cast' \in Cast \cup {NoCast}
    <3>1. CASE conns = {} \/ loop = "none"
      BY <2>2, <3>1 DEF Broadcast
    <3>2. CASE ~(conns = {} \/ loop = "none")
      <4>1. cast' = [msg |-> msg, to |-> conns, on |-> loop]
        BY <2>2, <3>2 DEF Broadcast
      <4> QED BY <1>0, <3>2, <4>1 DEF SocketsTypeOK, Cast
    <3> QED BY <3>1, <3>2
  <2> QED BY <2>1, <2>2
<1>3. sending' \subseteq Sending
  <2>1. CASE Schedule
    <3>1. cast \in Cast
      BY <1>0, <2>1 DEF SocketsTypeOK, Schedule
    <3> QED BY <1>0, <2>1, <3>1 DEF SocketsTypeOK, Schedule, Cast, Sending
  <2>2. CASE ~Schedule
    BY <1>0, <2>2 DEF Broadcast, ScheduleStale, SocketsTypeOK
  <2> QED BY <2>1, <2>2
<1>4. loop' \in {"none", "live", "stale"} /\ (loop = "live" => loop' = "live")
  BY <1>0, <1>1 DEF LoopAfterError, SocketsTypeOK
<1>5. SocketsTypeOK'
  BY <1>0, <1>1, <1>2, <1>3, <1>4 DEF SocketsTypeOK
<1>6. OpenSocketsReachable'
  BY <1>0, <1>1, <1>4 DEF OpenSocketsReachable, Handled
<1> QED BY <1>5, <1>6 DEF SocketsInv

\* A send drops the sockets that did not take it, and no other.
LEMMA SendAllKeeps ==
  ASSUME SocketsInv, NEW x \in sending, SendAll(x)
  PROVE  SocketsInv'
<1>0. SocketsTypeOK /\ OpenSocketsReachable /\ Ghost \notin Clients
  BY SocketConstants DEF SocketsInv
<1>1. /\ sending' \subseteq sending /\ conns' \subseteq conns
      /\ \A s \in conns : s # Ghost /\ sock[s] = "open" => s \in conns'
      /\ UNCHANGED <<access, sock, window, loop, cast>>
  BY DEF SendAll
<1>2. SocketsTypeOK'
  BY <1>0, <1>1 DEF SocketsTypeOK
<1>3. OpenSocketsReachable'
  BY <1>0, <1>1 DEF OpenSocketsReachable, Handled
<1> QED BY <1>2, <1>3 DEF SocketsInv

\* A restart leaves no socket open.
LEMMA RestartKeeps ==
  ASSUME SocketsInv, Restart
  PROVE  SocketsInv'
<1>0. SocketsTypeOK /\ Full \in Nat
  BY SocketConstants DEF SocketsInv
<1>1. /\ sock' = [s \in Clients |-> "closed"] /\ window' = [s \in Clients |-> 0]
      /\ conns' \subseteq {Ghost} /\ loop' \in {"stale", loop}
      /\ sending' = {} /\ access' = access
  BY DEF Restart
<1>2. cast' \in Cast \cup {NoCast}
  <2>1. CASE cast = NoCast
    BY <2>1 DEF Restart
  <2>2. CASE cast # NoCast
    <3>1. cast \in Cast /\ cast' = [cast EXCEPT !.on = "stale"]
      BY <1>0, <2>2 DEF SocketsTypeOK, Restart
    <3> QED BY <3>1 DEF Cast
  <2> QED BY <2>1, <2>2
<1>3. SocketsTypeOK'
  <2>1. window' \in [Clients -> 0..Full]
    BY <1>0, <1>1
  <2>2. sock' \in [Clients -> {"closed", "checked", "open", "broken"}]
    BY <1>1
  <2>3. /\ access' \in {"good", "revoked", "none"} /\ loop' \in {"none", "live", "stale"}
        /\ conns' \subseteq Clients \cup {Ghost} /\ sending' \subseteq Sending
    BY <1>0, <1>1 DEF SocketsTypeOK
  <2> QED BY <1>2, <2>1, <2>2, <2>3 DEF SocketsTypeOK
<1>4. OpenSocketsReachable'
  BY <1>1 DEF OpenSocketsReachable, Handled
<1> QED BY <1>3, <1>4 DEF SocketsInv

LEMMA SocketsStep ==
  ASSUME SocketsInv, SocketsNext
  PROVE  SocketsInv'
<1>1. ASSUME NEW s \in Clients, Handler(s) PROVE SocketsInv'
  BY <1>1, HandlerKeeps
<1>2. CASE Schedule \/ ScheduleStale
  BY <1>2, BroadcastKeeps
<1>3. CASE Revoke \/ TokenExpires \/ Deactivate
  <2>1. /\ access' \in {"revoked", "none"}
        /\ UNCHANGED <<sock, window, conns, loop, cast, sending>>
    BY <1>3 DEF Revoke, TokenExpires, Deactivate
  <2>2. SocketsTypeOK' /\ OpenSocketsReachable'
    BY <2>1 DEF SocketsInv, SocketsTypeOK, OpenSocketsReachable, Handled
  <2> QED BY <2>2 DEF SocketsInv
<1>4. CASE Restart
  BY <1>4, RestartKeeps
<1> QED BY <1>1, <1>2, <1>3, <1>4 DEF SocketsNext

-----------------------------------------------------------------------------
(* The delivery                                                             *)

DeliveryInv ==
  /\ PublisherTypeOK
  /\ SocketsInv
  /\ DeliveryTypeOK

LEMMA DeliveryStart == DeliveryInit => DeliveryInv
<1> SUFFICES ASSUME DeliveryInit PROVE DeliveryInv
  OBVIOUS
<1>1. PublisherTypeOK
  <2>1. <<>> \in Seq(Message) /\ Len(<<>>) = 0 /\ MaxQueue \in Nat /\ BatchSize \in Nat
    BY EmptySeq, PublisherConstants
  <2>2. queue \in Seq(Message) /\ Len(queue) <= MaxQueue
    BY <2>1 DEF DeliveryInit, PublisherInit
  <2>3. /\ batch \in [Callers -> Seq(Message)]
        /\ step \in [Callers -> {"idle", "retry", "batch", "unwind"}]
        /\ \A c \in Callers : /\ Len(batch[c]) <= BatchSize /\ Len(batch[c]) <= MaxQueue
                              /\ batch[c] = <<>> <=> step[c] \in {"idle", "retry"}
    BY <2>1 DEF DeliveryInit, PublisherInit
  <2>4. fresh \subseteq Alerts /\ topic \subseteq Alerts /\ faults \in Nat
    BY DEF DeliveryInit, PublisherInit
  <2> QED BY <2>2, <2>3, <2>4 DEF PublisherTypeOK
<1>2. SocketsInv
  <2>1. window \in [Clients -> 0..Full]
    BY SocketConstants DEF DeliveryInit, SocketsInit
  <2>2. SocketsTypeOK
    BY <2>1 DEF DeliveryInit, SocketsInit, SocketsTypeOK
  <2>3. OpenSocketsReachable
    BY DEF DeliveryInit, SocketsInit, OpenSocketsReachable
  <2> QED BY <2>2, <2>3 DEF SocketsInv
<1>3. DeliveryTypeOK
  BY EmptySeq, DeliveryConstants DEF DeliveryInit, DeliveryTypeOK
<1> QED BY <1>1, <1>2, <1>3 DEF DeliveryInv

\* The worker's queue of the MQTT client.
LEMMA InboxKeeps ==
  ASSUME DeliveryTypeOK,
         \/ \E a \in Alerts : Receive(a) \/ DropAlert(a)
         \/ HandleAlert \/ StopBegins \/ StopEnds \/ ClientStarts
  PROVE  DeliveryTypeOK'
<1>0. /\ inbox \in Seq(Alerts) /\ Len(inbox) \in Nat /\ Len(inbox) <= InboxSize
      /\ client \in {"running", "stopping", "stopped"} /\ InboxSize \in Nat
  BY LenProperties, DeliveryConstants DEF DeliveryTypeOK
<1>1. shown' = shown /\ client' \in {"running", "stopping", "stopped"}
  BY <1>0 DEF Receive, DropAlert, HandleAlert, StopBegins, StopEnds, ClientStarts, OfClient
<1>2. inbox' \in Seq(Alerts) /\ Len(inbox') <= InboxSize
  <2>1. ASSUME NEW a \in Alerts, Receive(a) PROVE inbox' \in Seq(Alerts) /\ Len(inbox') <= InboxSize
    <3>1. inbox' = Append(inbox, a) /\ Len(inbox) < InboxSize
      BY <2>1 DEF Receive
    <3>2. Append(inbox, a) \in Seq(Alerts) /\ Len(Append(inbox, a)) = Len(inbox) + 1
      BY <1>0, JoinFacts
    <3> QED BY <1>0, <3>1, <3>2
  <2>2. CASE HandleAlert
    <3>1. inbox # <<>> /\ inbox' = Tail(inbox)
      BY <2>2 DEF HandleAlert
    <3>2. Tail(inbox) \in Seq(Alerts) /\ Len(Tail(inbox)) = Len(inbox) - 1
      BY <1>0, <3>1, PopFacts
    <3> QED BY <1>0, <3>1, <3>2
  <2>3. CASE StopEnds
    <3>1. inbox' = <<>> /\ <<>> \in Seq(Alerts) /\ Len(<<>>) = 0
      BY <2>3, EmptySeq DEF StopEnds
    <3> QED BY <1>0, <3>1
  <2>4. CASE UNCHANGED inbox
    BY <1>0, <2>4
  <2> QED BY <2>1, <2>2, <2>3, <2>4 DEF DropAlert, StopBegins, ClientStarts
<1> QED BY <1>1, <1>2 DEF DeliveryTypeOK

\* A step of the delivery keeps the invariant, and what it loses is excused.
LEMMA DeliveryStep ==
  ASSUME DeliveryInv, [DeliveryNext]_delivery
  PROVE  DeliveryInv' /\ \A m \in MessagesHeld : Excused(m)
<1>0. PublisherTypeOK /\ SocketsInv /\ DeliveryTypeOK
  BY DEF DeliveryInv
<1>1. CASE PublisherNext /\ UNCHANGED <<sockets, inbox, client, shown>>
  <2>1. PublisherTypeOK' /\ \A m \in MessagesHeld : Excused(m)
    BY <1>0, <1>1, PublisherStep
  <2>2. SocketsInv'
    BY <1>0, <1>1 DEF SocketsInv, SocketsTypeOK, OpenSocketsReachable, Handled, sockets
  <2>3. DeliveryTypeOK'
    BY <1>0, <1>1 DEF DeliveryTypeOK
  <2> QED BY <2>1, <2>2, <2>3 DEF DeliveryInv
<1>2. CASE OfSockets(SocketsNext)
  <2>1. SocketsInv' /\ DeliveryTypeOK'
    BY <1>0, <1>2, SocketsStep DEF OfSockets, DeliveryTypeOK
  <2>2. PublisherTypeOK' /\ \A m \in MessagesHeld : Excused(m)
    BY <1>0, <1>2, OutsideStep DEF OfSockets, publisher
  <2> QED BY <2>1, <2>2 DEF DeliveryInv
<1>3. CASE \/ \E a \in Alerts : Receive(a) \/ DropAlert(a)
           \/ HandleAlert \/ StopBegins \/ StopEnds \/ ClientStarts
  <2>1. /\ topic' \subseteq topic
        /\ UNCHANGED <<fresh, queue, batch, step, faults>>
    BY <1>3 DEF Receive, DropAlert, HandleAlert, StopBegins, StopEnds, ClientStarts,
                OfClient, publisher
  <2>2. UNCHANGED sockets \/ \E msg \in BOOLEAN : Broadcast(msg)
    BY <1>3 DEF Receive, DropAlert, HandleAlert, StopBegins, StopEnds, ClientStarts, OfClient,
                sockets
  <2>3. SocketsInv'
    <3>1. CASE UNCHANGED sockets
      BY <1>0, <3>1 DEF SocketsInv, SocketsTypeOK, OpenSocketsReachable, Handled, sockets
    <3>2. CASE \E msg \in BOOLEAN : Broadcast(msg)
      BY <1>0, <3>2, BroadcastKeeps
    <3> QED BY <2>2, <3>1, <3>2
  <2>4. PublisherTypeOK' /\ \A m \in MessagesHeld : Excused(m)
    BY <1>0, <2>1, OutsideStep
  <2>5. DeliveryTypeOK'
    BY <1>0, <1>3, InboxKeeps
  <2> QED BY <2>3, <2>4, <2>5 DEF DeliveryInv
<1>4. ASSUME NEW x \in sending, Deliver(x)
      PROVE  DeliveryInv' /\ \A m \in MessagesHeld : Excused(m)
  <2>1. SocketsInv'
    BY <1>0, <1>4, SendAllKeeps DEF Deliver
  <2>2. DeliveryTypeOK'
    <3>1. x \in Sending
      BY <1>0 DEF SocketsInv, SocketsTypeOK
    <3> QED BY <1>0, <1>4, <3>1 DEF Deliver, Sending, DeliveryTypeOK
  <2>3. PublisherTypeOK' /\ \A m \in MessagesHeld : Excused(m)
    BY <1>0, <1>4, OutsideStep DEF Deliver, publisher
  <2> QED BY <2>1, <2>2, <2>3 DEF DeliveryInv
<1>5. CASE UNCHANGED delivery
  <2>1. PublisherTypeOK' /\ \A m \in MessagesHeld : Excused(m)
    BY <1>0, <1>5, OutsideStep DEF delivery, publisher
  <2>2. SocketsInv' /\ DeliveryTypeOK'
    BY <1>0, <1>5 DEF SocketsInv, SocketsTypeOK, OpenSocketsReachable, Handled, DeliveryTypeOK,
                      delivery, sockets
  <2> QED BY <2>1, <2>2 DEF DeliveryInv
<1> QED BY <1>1, <1>2, <1>3, <1>4, <1>5 DEF DeliveryNext

LEMMA DeliveryInvariant == DeliverySpec => []DeliveryInv
<1>1. DeliveryInv /\ [DeliveryNext]_delivery => DeliveryInv'
  BY DeliveryStep
<1> QED BY <1>1, DeliveryStart, PTL DEF DeliverySpec

\* The deque of publish_alert and the batches taken from it never exceed their
\* bounds, and a caller holds messages exactly while it retries.
THEOREM PublisherTypeCorrect == DeliverySpec => []PublisherTypeOK
<1>1. DeliveryInv => PublisherTypeOK
  BY DEF DeliveryInv
<1> QED BY <1>1, DeliveryInvariant, PTL

\* The connection manager and the handlers keep the types of their state.
THEOREM SocketsTypeCorrect == DeliverySpec => []SocketsTypeOK
<1>1. DeliveryInv => SocketsTypeOK
  BY DEF DeliveryInv, SocketsInv
<1> QED BY <1>1, DeliveryInvariant, PTL

\* However connects, restarts, broadcasts and failed sends interleave, a
\* connected client is registered under the loop that broadcast() uses, and a
\* handler that ended left nothing behind.
THEOREM OpenSocketsStayReachable == DeliverySpec => []OpenSocketsReachable
<1>1. DeliveryInv => OpenSocketsReachable
  BY DEF DeliveryInv, SocketsInv
<1> QED BY <1>1, DeliveryInvariant, PTL

\* Whatever callers and batch sizes there are, an alert that failed once leaves the
\* process unsent only when its retries are used up, when it stood in a deque that
\* is full afterwards, when the worker dies, or in the interruption of the very
\* thread that has it in hand: publishing while another thread retries, retries
\* that raise, and putting a batch back lose nothing else.
THEOREM AlertsLostOnlyByPolicy == DeliverySpec => LostOnlyByPolicy
<1>1. DeliveryInv /\ [DeliveryNext]_delivery
      => [\A m \in MessagesHeld :
            \/ m.alert \in Held' \cup topic'
            \/ Exhausted(m) \/ PushedOut(m) \/ LostToInterruption(m) \/ WorkerDies]_publisher
  <2> SUFFICES ASSUME DeliveryInv, [DeliveryNext]_delivery, NEW m \in MessagesHeld
               PROVE  \/ m.alert \in Held' \cup topic'
                      \/ Exhausted(m) \/ PushedOut(m) \/ LostToInterruption(m) \/ WorkerDies
    OBVIOUS
  <2>1. Excused(m)
    BY DeliveryStep
  <2>2. (\E n \in MessagesHeld' : n.alert = m.alert) => m.alert \in Held'
    BY DEF Held
  <2> QED BY <2>1, <2>2 DEF Excused
<1> QED BY <1>1, DeliveryInvariant, PTL DEF DeliverySpec, LostOnlyByPolicy
=============================================================================
