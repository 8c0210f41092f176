------------------------------ MODULE Forecast ------------------------------
(***************************************************************************)
(* The forecast of one node (tasks/forecast.py, api/forecast.py): the        *)
(* regression model under forecast:model:{node}, the forecasts under         *)
(* celery:forecast:{node}:{trained_at}, the retraining task and the requests *)
(* that read both keys and fit a model themselves when they find none.       *)
(*                                                                           *)
(* A model is the stamp it was trained at and the version of the readings it *)
(* was fitted to; the coefficients and the sixty points follow from these.   *)
(* A damaged blob may still be a JSON object: the API takes its version from *)
(* it, and only _get_model finds out that it is no model.                    *)
(* Stamps are compared for equality only, so a stamp that neither key nor    *)
(* request leads to any more may be used again; what is still cached under   *)
(* it can no longer be told from an expired entry.                           *)
(***************************************************************************)
EXTENDS Integers, FiniteSets

CONSTANTS
  Requests,   \* concurrent GET /forecast
  Trainers,   \* concurrent executions of retrain_model
  Stamps,     \* trained_at stamps
  Legacy,     \* version of a blob without trained_at
  None, Junk, \* an absent key, and a blob of the wrong shape
  Bad,        \* what a damaged JSON object has for coefficients
  Empty,      \* the answer without points
  MaxData,    \* versions of the training data (a bound)
  MaxFaults   \* outages and corrupted blobs (a bound)

ASSUME ForecastConstants ==
  /\ MaxData \in Nat /\ MaxFaults \in Nat
  /\ IsFiniteSet(Requests) /\ Requests \cap Trainers = {}
  /\ IsFiniteSet(Stamps) /\ Cardinality(Stamps) > Cardinality(Requests) + 1
  /\ Legacy \notin Stamps /\ Bad \notin Nat
  /\ {None, Junk, Empty} \cap [stamp : Stamps \cup {Legacy}, data : Nat \cup {Bad}] = {}

VARIABLES
  data,    \* version of the readings; 0 is fewer than _MIN_TRAIN_SAMPLES
  model,   \* value of the model key
  cache,   \* version -> value of the forecast key
  up,      \* whether Redis answers
  faults,  \* outages and corruptions so far
  pc,      \* request or trainer -> its next step
  points,  \* request or trainer -> version of the readings it has loaded
  got,     \* request -> the blob it read the version from, or its model
  answer   \* request -> the forecast in its response

store == <<model, cache>>
vars == <<data, model, cache, up, faults, pc, points, got, answer>>

Procs    == Requests \cup Trainers
Versions == Stamps \cup {Legacy}
Models   == [stamp : Versions, data : 0..MaxData]
Broken   == [stamp : Versions, data : {Bad}]
Blobs    == Models \cup Broken

TypeOK ==
  /\ data \in 0..MaxData
  /\ model \in Blobs \cup {None, Junk}
  /\ cache \in [Versions -> Models \cup {None, Junk}]
  /\ up \in BOOLEAN /\ faults \in 0..MaxFaults
  /\ pc \in [Procs -> {"idle", "model", "cached", "get", "train", "store", "save", "done"}]
  /\ points \in [Procs -> 0..MaxData]
  /\ got \in [Requests -> Blobs \cup {None}]
  /\ answer \in [Requests -> Models \cup {None, Empty}]

\* An upgraded deployment may still hold a blob of the code before trained_at.
Init ==
  /\ data = 0
  /\ model \in {None, [stamp |-> Legacy, data |-> 0]}
  /\ cache = [v \in Versions |-> None]
  /\ up = TRUE /\ faults = 0
  /\ pc = [p \in Procs |-> "idle"]
  /\ points = [p \in Procs |-> 0]
  /\ got = [r \in Requests |-> None]
  /\ answer = [r \in Requests |-> None]

-----------------------------------------------------------------------------
(* Versions and keys                                                         *)

\* As model_version, when every forecast had the same key (before M50).
model_version_One(m) == Legacy

\* model_version and forecast_cache_key
model_version(m) == m.stamp

\* Versions that the model key or a request still leads to.
Live == {model_version(b) : b \in ({model} \cup {got[r] : r \in Requests}) \cap Blobs}

\* _fit_model stamps a new model with the time at which it was fitted.
FitModel(version) ==
  [stamp |-> CHOOSE s \in Stamps : s \notin Live, data |-> version]

\* A forecast that nothing leads to is left to its TTL: nobody can tell.  A blob
\* that loses its stamp leads to Legacy.
Reachable == [v \in Versions |-> IF v \in Live' \cup {Legacy} THEN cache[v] ELSE None]

\* A value that passes _valid_model, or _valid_cached_points.
Readable(value) == up /\ value \in Models

Goto(p, step) == pc' = [pc EXCEPT ![p] = step]

-----------------------------------------------------------------------------
(* GET /forecast                                                             *)

Ask(r) ==
  /\ pc[r] = "idle"
  /\ Goto(r, "model")
  /\ UNCHANGED <<data, store, up, faults, points, got, answer>>

\* The API reads the model key to learn which forecast key is current.  Any JSON
\* object will do: its coefficients are not looked at.
ReadModel(r) ==
  /\ pc[r] = "model"
  /\ IF up /\ model \in Blobs
     THEN /\ Goto(r, "cached")
          /\ got' = [got EXCEPT ![r] = model]
     ELSE /\ Goto(r, "get")
          /\ UNCHANGED got
  /\ UNCHANGED <<data, store, up, faults, points, answer>>

\* A hit is served; at an absent or malformed entry (L45) the request forgets the
\* blob and has the forecast generated.
ReadCached(r) ==
  /\ pc[r] = "cached"
  /\ LET cached == cache[model_version(got[r])]
     IN  IF Readable(cached)
         THEN /\ Goto(r, "done")
              /\ answer' = [answer EXCEPT ![r] = cached]
              /\ UNCHANGED got
         ELSE /\ Goto(r, "get")
              /\ got' = [got EXCEPT ![r] = None]
              /\ UNCHANGED answer
  /\ UNCHANGED <<data, model, up, faults, points>>
  /\ cache' = Reachable

\* generate_forecast, on a thread of its own: _get_model
GetModel(r) ==
  /\ pc[r] = "get"
  /\ IF Readable(model)
     THEN /\ Goto(r, "save")
          /\ got' = [got EXCEPT ![r] = model]
     ELSE /\ Goto(r, "train")
          /\ UNCHANGED got
  /\ UNCHANGED <<data, model, up, faults, points, answer>>
  /\ cache' = Reachable

\* _training_points; too few of them, and there is nothing to predict.
LoadPoints(r) ==
  /\ pc[r] = "train"
  /\ IF data = 0
     THEN /\ Goto(r, "done")
          /\ answer' = [answer EXCEPT ![r] = Empty]
          /\ UNCHANGED points
     ELSE /\ Goto(r, "store")
          /\ points' = [points EXCEPT ![r] = data]
          /\ UNCHANGED answer
  /\ UNCHANGED <<data, store, up, faults, got>>

\* _fit_model and _cache_model, which replaces whatever the key holds by now.
StoreModel(r) ==
  /\ pc[r] = "store"
  /\ LET m == FitModel(points[r])
     IN  /\ got' = [got EXCEPT ![r] = m]
         /\ model' = IF up THEN m ELSE model
  /\ cache' = Reachable
  /\ Goto(r, "save")
  /\ points' = [points EXCEPT ![r] = 0]
  /\ UNCHANGED <<data, up, faults, answer>>

\* The predictions are cached under the version of their model, and returned.
SaveForecast(r) ==
  /\ pc[r] = "save"
  /\ Goto(r, "done")
  /\ cache' = IF up THEN [cache EXCEPT ![model_version(got[r])] = got[r]] ELSE cache
  /\ answer' = [answer EXCEPT ![r] = got[r]]
  /\ UNCHANGED <<data, model, up, faults, points, got>>

Respond(r) ==
  /\ pc[r] = "done"
  /\ Goto(r, "idle")
  /\ got' = [got EXCEPT ![r] = None]
  /\ answer' = [answer EXCEPT ![r] = None]
  /\ UNCHANGED <<data, model, up, faults, points>>
  /\ cache' = Reachable

-----------------------------------------------------------------------------
(* retrain_model                                                             *)

\* One query loads every node's points; a node with too few is skipped.
LoadTraining(t) ==
  /\ pc[t] = "idle"
  /\ data > 0
  /\ Goto(t, "store")
  /\ points' = [points EXCEPT ![t] = data]
  /\ UNCHANGED <<data, store, up, faults, got, answer>>

\* As StoreTrained, leaving a model that is already cached alone.
StoreTrained_IfAbsent(t) ==
  /\ pc[t] = "store"
  /\ LET m == FitModel(points[t])
     IN  model' = IF up /\ model = None THEN m ELSE model
  /\ Goto(t, "idle")
  /\ points' = [points EXCEPT ![t] = 0]
  /\ UNCHANGED <<data, up, faults, got, answer>>
  /\ cache' = Reachable

StoreTrained(t) ==
  /\ pc[t] = "store"
  /\ LET m == FitModel(points[t])
     IN  model' = IF up THEN m ELSE model
  /\ Goto(t, "idle")
  /\ points' = [points EXCEPT ![t] = 0]
  /\ UNCHANGED <<data, up, faults, got, answer>>
  /\ cache' = Reachable

-----------------------------------------------------------------------------
(* New readings, and Redis                                                   *)

Record ==
  /\ data < MaxData
  /\ data' = data + 1
  /\ UNCHANGED <<store, up, faults, pc, points, got, answer>>

ExpireModel ==
  /\ model # None
  /\ model' = None
  /\ UNCHANGED <<data, up, faults, pc, points, got, answer>>
  /\ cache' = Reachable

ExpireForecast(v) ==
  /\ cache[v] # None
  /\ cache' = [cache EXCEPT ![v] = None]
  /\ UNCHANGED <<data, model, up, faults, pc, points, got, answer>>

Fault ==
  /\ faults < MaxFaults
  /\ faults' = faults + 1
  /\ UNCHANGED <<data, pc, points, answer>>

\* What a model's blob may turn into: no JSON object, or one without usable
\* coefficients, with or without its stamp.  (A blob that is still a valid model
\* is beyond every test of the code, and a stamp that no key or request has leads
\* nowhere.)
Damaged == {Junk} \cup [stamp : Live \cup {Legacy}, data : {Bad}]

Corrupt ==
  /\ Fault
  /\ \/ model # None /\ model' \in Damaged /\ UNCHANGED got /\ cache' = Reachable
     \/ \E v \in Versions : /\ cache[v] # None
                            /\ cache' = [cache EXCEPT ![v] = Junk]
                            /\ UNCHANGED <<model, got>>
  /\ UNCHANGED up

Outage == up /\ Fault /\ up' = FALSE /\ UNCHANGED <<store, got>>

Recover ==
  /\ ~up
  /\ up' = TRUE
  /\ UNCHANGED <<data, store, faults, pc, points, got, answer>>

-----------------------------------------------------------------------------
Forecasting(r) ==
  \/ Ask(r) \/ ReadModel(r) \/ ReadCached(r) \/ GetModel(r)
  \/ LoadPoints(r) \/ StoreModel(r) \/ SaveForecast(r) \/ Respond(r)

Retraining(t) == LoadTraining(t) \/ StoreTrained(t)

Next ==
  \/ \E r \in Requests : Forecasting(r)
  \/ \E t \in Trainers : Retraining(t)
  \/ Record \/ Corrupt \/ Outage \/ Recover
  \/ ExpireModel
  \/ \E v \in Versions : ExpireForecast(v)

Spec == Init /\ [][Next]_vars

\* Beat runs retrain_model every hour and Redis comes back.  Nothing is assumed
\* of the requests: one may stall at any step and write much later.
FairSpec ==
  /\ Spec
  /\ WF_vars(Recover)
  /\ \A t \in Trainers : WF_vars(Retraining(t))

-----------------------------------------------------------------------------
\* The forecast in a response was made by the model that the request found
\* current, or fitted itself, while it ran, never by one that a retraining had
\* replaced before (M50).  If what the request found was a damaged blob, the
\* forecast is at least one of the version the blob named.
AnswerMatchesModel ==
  \A r \in Requests : answer[r] \in Models =>
    /\ answer[r].stamp = got[r].stamp
    /\ got[r] \in Models => answer[r] = got[r]

\* Once there are readings and they stop changing, the model key holds either
\* nothing or a model of all of them.  A request that stalled before its
\* _cache_model does overwrite a newer model, which the code's comments exclude
\* (NoOlderModel), but only until the next retraining; a damaged model is replaced.
ModelCatchesUp ==
  <>[](data > 0 => model = None \/ (model # Junk /\ model.data = data))

-----------------------------------------------------------------------------
(* What the repository says and the code does not do                         *)

\* "a retrain never needs to race a slow in-flight request - stale writes land
\* under the old version key" (retrain_model, M50): the model of newer readings is
\* not replaced by one of older readings.
NoOlderModel ==
  [][{model, model'} \subseteq Models => model'.data >= model.data]_vars

\* "a corrupted blob (L45) all fall through to recomputation" (forecast): a response
\* never holds the forecast that a damaged model blob has led to.
CorruptedRecomputed ==
  \A r \in Requests : answer[r] \in Models => got[r] \in Models
=============================================================================
