------------------------------ MODULE History ------------------------------
(***************************************************************************)
(* Hourly roll-ups and retention of one node's readings                     *)
(* (tasks/aggregation.py), next to the task that inserts the readings.      *)
(* Time advances in half hours, `tick`; a reading belongs to the hour of its *)
(* time stamp, which may lie up to Lag hours before or after the server's   *)
(* clock.  Executions of hourly_aggregate overlap when beat's message is    *)
(* redelivered or a retry is late.  Each execution is one READ COMMITTED    *)
(* transaction: a statement sees the rows committed when it starts, its     *)
(* buckets become visible when the transaction commits.  Of a bucket only   *)
(* reading_count is kept: every other column is computed from the same rows.*)
(* A half hour passes only over executions that began in the half hour      *)
(* before: task_time_limit (ten minutes) ends all others.                   *)
(***************************************************************************)
EXTENDS Integers, FiniteSets, FiniteSetsExt

CONSTANTS
  Jobs,        \* executions of hourly_aggregate at one time
  Lag,         \* hours: accepted clock skew, look-back, and one day of retention
  Retentions,  \* values data_retention_days may have when a purge reads it
  MaxHour,     \* hours of the model (a bound)
  MaxReadings, \* readings inserted (a bound)
  MaxFaults,   \* executions that fail or die (a bound)
  None

ASSUME HistoryConstants ==
  /\ Lag \in Nat \ {0} /\ MaxHour \in Nat /\ MaxReadings \in Nat /\ MaxFaults \in Nat
  /\ Retentions \subseteq Nat /\ IsFiniteSet(Retentions) /\ Retentions # {}
  /\ None \notin Int

Hours == 0..MaxHour

VARIABLES
  tick,     \* half hours since the start
  rows,     \* hour -> committed sensor_readings
  arriving, \* hour of a reading whose row is not yet committed, or None
  late,     \* whether that reading was parsed in the previous half hour
  buckets,  \* hour -> reading_count of hourly_agg, or None
  cut,      \* last hour a purge has touched (history)
  pc,       \* execution -> statement it is about to run
  end,      \* execution -> exclusive upper bound of its window
  start,    \* execution -> lower bound, first of the rows, then of the window
  counts,   \* execution -> hour -> the roll-ups its upsert has computed
  old,      \* executions that began in the previous half hour
  faults    \* executions that failed

data == <<rows, arriving, late>>
run  == <<pc, end, start, counts, old, faults>>
vars == <<tick, rows, arriving, late, buckets, cut,
          pc, end, start, counts, old, faults>>

Now == tick \div 2

Total == MapThenSumSet(LAMBDA h : rows[h], Hours)

\* What a grouped SELECT over an hour's rows returns: no row, no group.
RollUp(h) == IF rows[h] = 0 THEN None ELSE rows[h]

TypeOK ==
  /\ tick \in 0..(2 * MaxHour + 1)
  /\ rows \in [Hours -> 0..MaxReadings]
  /\ arriving \in Hours \cup {None} /\ late \in BOOLEAN
  /\ buckets \in [Hours -> 1..MaxReadings \cup {None}]
  /\ cut \in Int
  /\ pc \in [Jobs -> {"idle", "earliest", "watermark", "upsert", "commit"}]
  /\ end \in [Jobs -> Hours]
  /\ start \in [Jobs -> Int]
  /\ counts \in [Jobs -> [Hours -> 1..MaxReadings \cup {None}]]
  /\ old \subseteq Jobs
  /\ faults \in 0..MaxFaults

Init ==
  /\ tick = 0
  /\ rows = [h \in Hours |-> 0]
  /\ arriving = None /\ late = FALSE
  /\ buckets = [h \in Hours |-> None]
  /\ cut = -1
  /\ pc = [j \in Jobs |-> "idle"]
  /\ end = [j \in Jobs |-> 0]
  /\ start = [j \in Jobs |-> 0]
  /\ counts = [j \in Jobs |-> [h \in Hours |-> None]]
  /\ old = {}
  /\ faults = 0

-----------------------------------------------------------------------------
(* The clock, and process_reading.                                           *)

Running == {j \in Jobs : pc[j] # "idle"}

Tick ==
  /\ tick < 2 * MaxHour + 1
  /\ Running \cap old = {}
  /\ ~late
  /\ tick' = tick + 1
  /\ old' = Running
  /\ late' = (arriving # None)
  /\ UNCHANGED <<rows, arriving, buckets, cut, pc, end, start, counts, faults>>

\* _parse_time: a time stamp outside the accepted window becomes the server's.
Accepted(h) == IF h \in (Now - Lag)..(Now + Lag) THEN h ELSE Now

Parse(h) ==
  /\ arriving = None
  /\ Total < MaxReadings
  /\ arriving' = Accepted(h)
  /\ UNCHANGED <<tick, rows, late, buckets, cut, run>>

Store ==
  /\ arriving # None
  /\ rows' = [rows EXCEPT ![arriving] = @ + 1]
  /\ arriving' = None /\ late' = FALSE
  /\ UNCHANGED <<tick, buckets, cut, run>>

-----------------------------------------------------------------------------
(* hourly_aggregate                                                          *)

\* Beat or a redelivery starts an execution, which truncates the clock.
Begin(j) ==
  /\ pc[j] = "idle"
  /\ pc' = [pc EXCEPT ![j] = "earliest"]
  /\ end' = [end EXCEPT ![j] = Now]
  /\ UNCHANGED <<tick, data, buckets, cut, start, counts, old, faults>>

\* The execution ends: its local values are forgotten.
Finish(j) ==
  /\ pc' = [pc EXCEPT ![j] = "idle"]
  /\ end' = [end EXCEPT ![j] = 0]
  /\ start' = [start EXCEPT ![j] = 0]
  /\ counts' = [counts EXCEPT ![j] = [h \in Hours |-> None]]
  /\ old' = old \ {j}

Stored(j) == {h \in Hours : h < end[j] /\ rows[h] > 0}

\* SELECT MIN(hour); no rows before the boundary, nothing to do.
ReadEarliest(j) ==
  /\ pc[j] = "earliest"
  /\ IF Stored(j) = {}
     THEN Finish(j)
     ELSE /\ pc' = [pc EXCEPT ![j] = "watermark"]
          /\ start' = [start EXCEPT ![j] = Min(Stored(j))]
          /\ UNCHANGED <<end, counts, old>>
  /\ UNCHANGED <<tick, data, buckets, cut, faults>>

Present == {h \in Hours : buckets[h] # None}

Watermark == Max(Present)

\* As WindowStart, resuming at the watermark without looking back.
WindowStart_NoLookBack(earliest) ==
  IF Present = {} THEN earliest ELSE Max({earliest, Watermark})

\* SELECT MAX(bucket), less the look-back.
WindowStart(earliest) ==
  IF Present = {} THEN earliest ELSE Max({earliest, Watermark - Lag})

ReadWatermark(j) ==
  /\ pc[j] = "watermark"
  /\ LET s == WindowStart(start[j])
     IN  IF s >= end[j]
         THEN Finish(j)
         ELSE /\ pc' = [pc EXCEPT ![j] = "upsert"]
              /\ start' = [start EXCEPT ![j] = s]
              /\ UNCHANGED <<end, counts, old>>
  /\ UNCHANGED <<tick, data, buckets, cut, faults>>

\* INSERT ... SELECT: the groups are computed from the statement's snapshot.
Upsert(j) ==
  /\ pc[j] = "upsert"
  /\ pc' = [pc EXCEPT ![j] = "commit"]
  /\ counts' = [counts EXCEPT ![j] =
       [h \in Hours |-> IF h \in start[j]..(end[j] - 1) THEN RollUp(h) ELSE None]]
  /\ UNCHANGED <<tick, data, buckets, cut, end, start, old, faults>>

\* ON CONFLICT DO UPDATE overwrites a bucket with what this execution counted.
Commit(j) ==
  /\ pc[j] = "commit"
  /\ buckets' = [h \in Hours |-> IF counts[j][h] = None THEN buckets[h] ELSE counts[j][h]]
  /\ Finish(j)
  /\ UNCHANGED <<tick, data, cut, faults>>

\* A database error or a dying worker rolls back; the task is run again later.
Abort(j) ==
  /\ pc[j] # "idle"
  /\ faults < MaxFaults
  /\ faults' = faults + 1
  /\ Finish(j)
  /\ UNCHANGED <<tick, data, buckets, cut>>

-----------------------------------------------------------------------------
(* data_retention_cleanup                                                    *)

\* The oldest hour that may keep rows; its own rows are partly too old.
Horizon(days) == Now - days * Lag

\* As PurgedBuckets, when only sensor_readings was purged (before L48).
PurgedBuckets_None(horizon) == buckets

PurgedBuckets(horizon) == [h \in Hours |-> IF h <= horizon THEN None ELSE buckets[h]]

\* One transaction deletes the rows and buckets older than the setting it reads,
\* which an administrator may have changed since the last purge; zero is
\* refused.  The purge runs at some minute of the hour, so any part of the rows
\* of the hour at the horizon is too old, and so is its bucket, which is stamped
\* with the start of the hour.
Cleanup(days) ==
  /\ days > 0
  /\ Horizon(days) >= 0
  /\ \E kept \in 0..rows[Horizon(days)] :
       rows' = [h \in Hours |-> IF h < Horizon(days) THEN 0
                                ELSE IF h = Horizon(days) THEN kept ELSE rows[h]]
  /\ buckets' = PurgedBuckets(Horizon(days))
  /\ cut' = Max({cut, Horizon(days)})
  /\ UNCHANGED <<tick, arriving, late, run>>

-----------------------------------------------------------------------------
Aggregate(j) ==
  \/ ReadEarliest(j) \/ ReadWatermark(j) \/ Upsert(j) \/ Commit(j)

Next ==
  \/ Tick
  \/ \E h \in Hours : Parse(h)
  \/ Store
  \/ \E j \in Jobs : Begin(j) \/ Aggregate(j) \/ Abort(j)
  \/ \E d \in Retentions : Cleanup(d)

Spec == Init /\ [][Next]_vars

\* Beat keeps starting both jobs, the pool keeps running what was started, and
\* readings in flight are stored.  The clock need not advance, and no particular
\* execution is favoured.
FairSpec ==
  /\ Spec
  /\ WF_vars(Store)
  /\ WF_vars(\E d \in Retentions : Cleanup(d))
  /\ WF_vars(\E j \in Jobs : Begin(j) \/ Aggregate(j))

-----------------------------------------------------------------------------
\* Once no readings arrive, the roll-up of every complete hour that was not
\* purged equals its readings for good: late readings land inside the look-back
\* (L71) and the bucket that an overlapping execution overwrote with older
\* counts is computed again (M46, M-7).
RollUpsConverge ==
  <>[](\A h \in Hours : cut < h /\ h < Now => buckets[h] = RollUp(h))

\* Once the clock stands still, nothing older than the retention is left for good:
\* neither the rows of an hour beyond the horizon, a late reading's included, nor
\* the bucket that an execution which read them before the purge writes
\* afterwards (L48).
RetentionHolds ==
  LET horizon == Horizon(Max(Retentions))
  IN  <>[](\A h \in Hours : h < horizon => rows[h] = 0 /\ buckets[h] = None)
=============================================================================
