--------------------------- MODULE ForecastProofs ---------------------------
(***************************************************************************)
(* Proofs about Forecast, for any requests, retrainings and versions of the *)
(* readings.  A stamp identifies one model among all that the two kinds of   *)
(* keys and the requests hold, and the forecast key of a version holds what  *)
(* a model of that stamp made: an entry found under the version of the model *)
(* that a request has read is that model's forecast, and one found under the *)
(* version of a damaged blob is of the model with that stamp.                *)
(***************************************************************************)
EXTENDS Forecast, FiniteSetTheorems, TLAPS

\* The blobs, damaged ones included, that the model key and the requests hold.
Holders == ({model} \cup {got[r] : r \in Requests}) \cap Blobs

\* The models among them, and those whose forecasts are cached.
Known == (Holders \cup {cache[v] : v \in Versions}) \cap Models

\* A stamp tells the models apart.
OneModelPerStamp == \A m, n \in Known : m.stamp = n.stamp => m = n

\* A forecast lies under the version of its model, and only where a held blob, or
\* one that lost its stamp, leads.
CacheKeyed ==
  \A v \in Versions : cache[v] \in Models =>
    cache[v].stamp = v /\ v \in Live \cup {Legacy}

\* A request works with a blob where it needs one, with none before it has read
\* the key, and answers at its end.
RequestOK(r) ==
  /\ pc[r] = "cached" => got[r] \in Blobs
  /\ pc[r] = "save" => got[r] \in Models
  /\ pc[r] \in {"idle", "model"} => got[r] = None
  /\ answer[r] \in Models =>
       /\ pc[r] = "done" /\ got[r] \in Blobs
       /\ answer[r].stamp = got[r].stamp
       /\ got[r] \in Models => answer[r] = got[r]

ForecastInv ==
  /\ TypeOK
  /\ OneModelPerStamp
  /\ CacheKeyed
  /\ \A r \in Requests : RequestOK(r)

-----------------------------------------------------------------------------
(* Models, stamps and keys                                                  *)

\* What is no blob, and what a damaged one is not.
LEMMA NoModels ==
  /\ None \notin Blobs /\ Junk \notin Blobs /\ Empty \notin Blobs
  /\ Models \subseteq Blobs /\ Broken \subseteq Blobs /\ Models \cap Broken = {}
  /\ \A b \in Blobs : b.stamp \in Versions
  /\ Live = {b.stamp : b \in Holders} /\ Live \subseteq Versions
<1>1. Blobs \subseteq [stamp : Stamps \cup {Legacy}, data : Nat \cup {Bad}]
  BY DEF Blobs, Models, Broken, Versions
<1>2. None \notin Blobs /\ Junk \notin Blobs /\ Empty \notin Blobs
  BY <1>1, ForecastConstants
<1>3. Models \subseteq Blobs /\ Broken \subseteq Blobs
  BY DEF Blobs
<1>4. \A b \in Blobs : b.stamp \in Versions
  BY <1>1 DEF Versions
<1>5. Models \cap Broken = {}
  <2>1. \A m \in Models : m.data \in Nat
    BY DEF Models
  <2>2. \A m \in Broken : m.data = Bad
    BY DEF Broken
  <2> QED BY <2>1, <2>2, ForecastConstants
<1>6. Live = {b.stamp : b \in Holders}
  BY DEF Live, Holders, model_version
<1> QED BY <1>2, <1>3, <1>4, <1>5, <1>6 DEF Holders

\* The model key and the requests hold fewer blobs than there are stamps, so
\* _fit_model finds one that none of them has.
LEMMA FreshStamp ==
  ASSUME NEW version \in 0..MaxData
  PROVE  FitModel(version) \in Models /\ FitModel(version).stamp \notin Live \cup {Legacy}
<1> DEFINE S == {r \in Requests : got[r] \in Blobs}
           T == {got[r].stamp : r \in S}
           f == [r \in S |-> got[r].stamp]
<1>1. IsFiniteSet(S) /\ Cardinality(S) <= Cardinality(Requests) /\ Cardinality(S) \in Nat
  <2>1. S \in SUBSET Requests
    OBVIOUS
  <2>2. IsFiniteSet(S) /\ Cardinality(S) <= Cardinality(Requests)
    BY <2>1, ForecastConstants, FS_Subset
  <2> QED BY <2>2, FS_CardinalityType
<1>2. IsFiniteSet(T) /\ Cardinality(T) <= Cardinality(S)
  <2>1. f \in Surjection(S, T)
    BY DEF Surjection
  <2> HIDE DEF S, T, f
  <2> QED BY <1>1, <2>1, FS_Surjection
<1>3. Live \subseteq T \cup {model.stamp}
  <2> SUFFICES ASSUME NEW m \in Holders PROVE m.stamp \in T \cup {model.stamp}
    BY NoModels
  <2>1. m = model \/ \E r \in S : m = got[r]
    BY DEF Holders
  <2> QED BY <2>1
<1> HIDE DEF S, T
<1>4. IsFiniteSet(T \cup {model.stamp}) /\ Cardinality(T \cup {model.stamp}) <= Cardinality(Requests) + 1
  <2>1. /\ IsFiniteSet(T \cup {model.stamp})
        /\ Cardinality(T \cup {model.stamp}) = IF model.stamp \in T THEN Cardinality(T) ELSE Cardinality(T) + 1
        /\ Cardinality(T) \in Nat /\ Cardinality(Requests) \in Nat
    BY <1>2, FS_AddElement, FS_CardinalityType, ForecastConstants
  <2> QED BY <1>1, <1>2, <2>1
<1>5. ~(Stamps \subseteq Live)
  <2> SUFFICES ASSUME Stamps \subseteq Live PROVE FALSE
    OBVIOUS
  <2>1. Stamps \in SUBSET (T \cup {model.stamp})
    BY <1>3
  <2>2. Cardinality(Stamps) <= Cardinality(T \cup {model.stamp})
    BY <1>4, <2>1, FS_Subset
  <2>3. /\ Cardinality(T \cup {model.stamp}) \in Nat /\ Cardinality(Stamps) \in Nat
        /\ Cardinality(Requests) \in Nat
    BY <1>4, FS_CardinalityType, ForecastConstants
  <2> QED BY <1>4, <2>2, <2>3, ForecastConstants
<1> DEFINE s == CHOOSE x \in Stamps : x \notin Live
<1>6. s \in Stamps /\ s \notin Live
  BY <1>5
<1>7. FitModel(version) = [stamp |-> s, data |-> version]
  BY DEF FitModel
<1> HIDE DEF s
<1> QED BY <1>6, <1>7, ForecastConstants DEF Models, Versions

\* Once the unreachable forecasts are gone, the rest lie where they lay.
LEMMA ReachableFacts ==
  ASSUME TypeOK, CacheKeyed, cache' = Reachable
  PROVE  /\ cache' \in [Versions -> Models \cup {None, Junk}]
         /\ CacheKeyed'
         /\ {cache'[v] : v \in Versions} \cap Models \subseteq Known
<1>1. cache \in [Versions -> Models \cup {None, Junk}]
  BY DEF TypeOK
<1>2. cache' = [v \in Versions |-> IF v \in Live' \cup {Legacy} THEN cache[v] ELSE None]
  BY DEF Reachable
<1>3. \A v \in Versions : cache'[v] \in Models => cache'[v] = cache[v] /\ v \in Live' \cup {Legacy}
  BY <1>2, NoModels
<1>4. CacheKeyed'
  BY <1>3 DEF CacheKeyed
<1>5. {cache'[v] : v \in Versions} \cap Models \subseteq Known
  BY <1>3 DEF Known
<1> QED BY <1>1, <1>2, <1>4, <1>5

\* Blobs are dropped, damaged, or replaced by others that are held already.
LEMMA HoldersKept ==
  ASSUME ForecastInv, Holders' \cap Models \subseteq Known, cache' = Reachable
  PROVE  OneModelPerStamp' /\ CacheKeyed'
<1>1. TypeOK /\ OneModelPerStamp /\ CacheKeyed
  BY DEF ForecastInv
<1>2. CacheKeyed' /\ {cache'[v] : v \in Versions} \cap Models \subseteq Known
  BY <1>1, ReachableFacts
<1>3. Known' \subseteq Known
  BY <1>2 DEF Known
<1> QED BY <1>1, <1>2, <1>3 DEF OneModelPerStamp

\* A newly fitted model comes with a stamp of its own.
LEMMA HoldersGrow ==
  ASSUME ForecastInv, NEW new \in Models, new.stamp \notin Live \cup {Legacy},
         Holders' \cap Models \subseteq Known \cup {new}, cache' = Reachable
  PROVE  OneModelPerStamp' /\ CacheKeyed'
<1>1. TypeOK /\ OneModelPerStamp /\ CacheKeyed
  BY DEF ForecastInv
<1>2. CacheKeyed' /\ {cache'[v] : v \in Versions} \cap Models \subseteq Known
  BY <1>1, ReachableFacts
<1>3. Known' \subseteq Known \cup {new}
  BY <1>2 DEF Known
<1>4. ASSUME NEW m \in Known PROVE m.stamp # new.stamp
  <2>1. CASE m \in Holders
    BY <2>1, NoModels
  <2>2. CASE m \notin Holders
    <3>1. m \in Models /\ \E v \in Versions : m = cache[v]
      BY <2>2 DEF Known
    <3> QED BY <1>1, <3>1 DEF CacheKeyed
  <2> QED BY <2>1, <2>2
<1>5. OneModelPerStamp'
  BY <1>1, <1>3, <1>4 DEF OneModelPerStamp
<1> QED BY <1>2, <1>5

\* The held blobs stay; an entry expires, is corrupted, or is written by the
\* holder of its version.
LEMMA EntryWritten ==
  ASSUME ForecastInv, Holders' = Holders, NEW v \in Versions, NEW x,
         x \in {None, Junk} \/ (x \in Holders \cap Models /\ x.stamp = v),
         cache' = [cache EXCEPT ![v] = x]
  PROVE  /\ cache' \in [Versions -> Models \cup {None, Junk}]
         /\ OneModelPerStamp' /\ CacheKeyed'
<1>1. OneModelPerStamp /\ CacheKeyed /\ cache \in [Versions -> Models \cup {None, Junk}]
  BY DEF ForecastInv, TypeOK
<1>2. x \in Models \cup {None, Junk}
  OBVIOUS
<1>3. cache' \in [Versions -> Models \cup {None, Junk}]
  BY <1>1, <1>2
<1>4. \A w \in Versions : cache'[w] = IF w = v THEN x ELSE cache[w]
  BY <1>1
<1>5. x \in Models => x \in Holders /\ x.stamp = v /\ v \in Live
  BY NoModels
<1>6. Live' = Live
  BY NoModels, (Live = {b.stamp : b \in Holders})' DEF Live, Holders, model_version
<1>7. CacheKeyed'
  BY <1>1, <1>4, <1>5, <1>6 DEF CacheKeyed
<1>8. Known' \subseteq Known
  <2> SUFFICES ASSUME NEW m \in Known' PROVE m \in Known
    OBVIOUS
  <2>1. m \in Models /\ (m \in Holders \/ \E w \in Versions : m = cache'[w])
    BY DEF Known
  <2> QED BY <1>4, <1>5, <2>1 DEF Known
<1>9. OneModelPerStamp'
  BY <1>1, <1>8 DEF OneModelPerStamp
<1> QED BY <1>3, <1>7, <1>9

\* Both keys and the held blobs stay as they are.
LEMMA KeysSame ==
  ASSUME ForecastInv, Holders' = Holders, cache' = cache
  PROVE  OneModelPerStamp' /\ CacheKeyed'
<1>1. OneModelPerStamp /\ CacheKeyed
  BY DEF ForecastInv
<1>2. Known' = Known
  BY DEF Known
<1>3. Live' = {b.stamp : b \in Holders'} /\ Live = {b.stamp : b \in Holders}
  BY DEF Live, Holders, model_version
<1> QED BY <1>1, <1>2, <1>3 DEF OneModelPerStamp, CacheKeyed

-----------------------------------------------------------------------------
(* One process moves                                                        *)

Steps == {"idle", "model", "cached", "get", "train", "store", "save", "done"}

\* A step of request r that leaves it at step x, with blob g and answer a.
Moves(r, x, g, a) ==
  /\ x \in Steps /\ g \in Blobs \cup {None} /\ a \in Models \cup {None, Empty}
  /\ x = "cached" => g \in Blobs
  /\ x = "save" => g \in Models
  /\ x \in {"idle", "model"} => g = None
  /\ a \in Models => /\ x = "done" /\ g \in Blobs /\ a.stamp = g.stamp
                     /\ g \in Models => a = g
  /\ pc' = [pc EXCEPT ![r] = x]
  /\ got' = [got EXCEPT ![r] = g]
  /\ answer' = [answer EXCEPT ![r] = a]

\* What the invariant says of the request holds after it, and it brings in no
\* other blob than g.
LEMMA RequestMoves ==
  ASSUME ForecastInv, NEW r \in Requests, NEW x, NEW g, NEW a, Moves(r, x, g, a)
  PROVE  /\ pc' \in [Procs -> Steps]
         /\ got' \in [Requests -> Blobs \cup {None}]
         /\ answer' \in [Requests -> Models \cup {None, Empty}]
         /\ \A q \in Requests : RequestOK(q)'
         /\ Holders' \subseteq Holders \cup ({model', g} \cap Blobs)
<1>1. /\ pc \in [Procs -> Steps]
      /\ got \in [Requests -> Blobs \cup {None}]
      /\ answer \in [Requests -> Models \cup {None, Empty}]
      /\ \A q \in Requests : RequestOK(q)
      /\ Requests \subseteq Procs
  BY DEF ForecastInv, TypeOK, Steps, Procs
<1>2. /\ pc' \in [Procs -> Steps]
      /\ got' \in [Requests -> Blobs \cup {None}]
      /\ answer' \in [Requests -> Models \cup {None, Empty}]
  BY <1>1 DEF Moves
<1>3. \A q \in Requests : /\ pc'[q] = IF q = r THEN x ELSE pc[q]
                          /\ got'[q] = IF q = r THEN g ELSE got[q]
                          /\ answer'[q] = IF q = r THEN a ELSE answer[q]
  BY <1>1 DEF Moves
<1>4. ASSUME NEW q \in Requests PROVE RequestOK(q)'
  <2>1. CASE q = r
    BY <1>3, <2>1 DEF Moves, RequestOK
  <2>2. CASE q # r
    BY <1>1, <1>3, <2>2 DEF RequestOK
  <2> QED BY <2>1, <2>2
<1>5. Holders' \subseteq Holders \cup ({model', g} \cap Blobs)
  <2> SUFFICES ASSUME NEW m \in Holders' PROVE m \in Holders \cup ({model', g} \cap Blobs)
    OBVIOUS
  <2>1. m \in Blobs /\ (m = model' \/ \E q \in Requests : m = got'[q])
    BY DEF Holders
  <2> QED BY <1>3, <2>1 DEF Holders
<1> QED BY <1>2, <1>4, <1>5

\* Steps of a trainer or of the environment leave the requests alone.
LEMMA RequestsKept ==
  ASSUME ForecastInv, \A q \in Requests : pc'[q] = pc[q], UNCHANGED <<got, answer>>
  PROVE  /\ \A q \in Requests : RequestOK(q)'
         /\ Holders' \subseteq Holders \cup ({model'} \cap Blobs)
         /\ model' = model => Holders' = Holders
BY DEF ForecastInv, RequestOK, Holders

-----------------------------------------------------------------------------
(* GET /forecast                                                            *)

\* Steps that fit no model and leave both keys alone: the request moves on.
LEMMA ReadInv ==
  ASSUME ForecastInv, NEW r \in Requests, Ask(r) \/ ReadModel(r) \/ LoadPoints(r)
  PROVE  ForecastInv'
<1>0. /\ TypeOK /\ RequestOK(r)
      /\ got \in [Requests -> Blobs \cup {None}]
      /\ answer \in [Requests -> Models \cup {None, Empty}]
      /\ data \in 0..MaxData
  BY DEF ForecastInv, TypeOK
<1>1. UNCHANGED <<data, model, cache, up, faults>>
  BY DEF Ask, ReadModel, LoadPoints, store
<1>2. points' \in [Procs -> 0..MaxData]
  BY <1>0 DEF TypeOK, Ask, ReadModel, LoadPoints
<1>3. \E x, g, a : Moves(r, x, g, a) /\ g \in {got[r], model} /\ (g # got[r] => got[r] = None)
  <2>1. CASE Ask(r)
    <3>1. Moves(r, "model", got[r], answer[r])
      BY <1>0, <2>1 DEF Ask, Goto, Moves, Steps, RequestOK
    <3> QED BY <3>1
  <2>2. CASE ReadModel(r)
    <3>1. pc[r] = "model" /\ got[r] = None /\ answer[r] \notin Models /\ answer' = answer
      BY <1>0, <2>2 DEF ReadModel, RequestOK
    <3>2. CASE up /\ model \in Blobs
      <4>1. pc' = [pc EXCEPT ![r] = "cached"] /\ got' = [got EXCEPT ![r] = model]
        BY <2>2, <3>2 DEF ReadModel, Goto
      <4>2. Moves(r, "cached", model, answer[r])
        BY <1>0, <3>1, <3>2, <4>1 DEF Moves, Steps
      <4> QED BY <3>1, <4>2
    <3>3. CASE ~(up /\ model \in Blobs)
      <4>1. Moves(r, "get", got[r], answer[r])
        BY <1>0, <2>2, <3>1, <3>3 DEF ReadModel, Goto, Moves, Steps
      <4> QED BY <4>1
    <3> QED BY <3>2, <3>3
  <2>3. CASE LoadPoints(r)
    <3>1. pc[r] = "train" /\ answer[r] \notin Models /\ got' = got
      BY <1>0, <2>3 DEF LoadPoints, RequestOK
    <3>2. CASE data = 0
      <4>1. Moves(r, "done", got[r], Empty)
        BY <1>0, <2>3, <3>1, <3>2, NoModels DEF LoadPoints, Goto, Moves, Steps
      <4> QED BY <4>1
    <3>3. CASE data # 0
      <4>1. Moves(r, "store", got[r], answer[r])
        BY <1>0, <2>3, <3>1, <3>3 DEF LoadPoints, Goto, Moves, Steps
      <4> QED BY <4>1
    <3> QED BY <3>2, <3>3
  <2> QED BY <2>1, <2>2, <2>3
<1>4. PICK x, g, a : Moves(r, x, g, a) /\ g \in {got[r], model} /\ (g # got[r] => got[r] = None)
  BY <1>3
<1>5. /\ pc' \in [Procs -> Steps]
      /\ got' \in [Requests -> Blobs \cup {None}]
      /\ answer' \in [Requests -> Models \cup {None, Empty}]
      /\ \A q \in Requests : RequestOK(q)'
      /\ Holders' \subseteq Holders \cup ({model', g} \cap Blobs)
  BY <1>4, RequestMoves
<1>6. Holders' = Holders
  <2>1. Holders' \subseteq Holders
    BY <1>1, <1>4, <1>5 DEF Holders
  <2>2. \A q \in Requests : got'[q] = IF q = r THEN g ELSE got[q]
    BY <1>0, <1>4 DEF Moves
  <2>3. Holders \subseteq Holders'
    <3> SUFFICES ASSUME NEW m \in Holders PROVE m \in Holders'
      OBVIOUS
    <3>1. m \in Blobs /\ (m = model' \/ \E q \in Requests : m = got[q])
      BY <1>1 DEF Holders
    <3>2. CASE m = model'
      BY <3>1, <3>2 DEF Holders
    <3>3. CASE \E q \in Requests : m = got[q]
      <4>1. PICK q \in Requests : m = got[q]
        BY <3>3
      <4>2. m = got'[q]
        BY <1>4, <2>2, <3>1, <4>1, NoModels
      <4> QED BY <3>1, <4>2 DEF Holders
    <3> QED BY <3>1, <3>2, <3>3
  <2> QED BY <2>1, <2>3
<1>7. OneModelPerStamp' /\ CacheKeyed'
  BY <1>1, <1>6, KeysSame
<1>8. TypeOK'
  BY <1>0, <1>1, <1>2, <1>5 DEF TypeOK, Steps
<1> QED BY <1>5, <1>7, <1>8 DEF ForecastInv

\* A readable entry under the version of the blob is of the model of that stamp,
\* so of the blob itself when that is a model.
LEMMA CachedAnswer ==
  ASSUME ForecastInv, NEW r \in Requests, got[r] \in Blobs,
         cache[model_version(got[r])] \in Models
  PROVE  LET c == cache[model_version(got[r])]
         IN  c.stamp = got[r].stamp /\ (got[r] \in Models => c = got[r])
<1> DEFINE v == got[r].stamp
<1>1. v \in Versions /\ cache[v] \in Models /\ OneModelPerStamp /\ CacheKeyed
  BY NoModels DEF ForecastInv, model_version
<1>2. cache[v].stamp = v /\ cache[v] \in Known
  BY <1>1 DEF CacheKeyed, Known
<1>3. got[r] \in Models => got[r] \in Known
  BY DEF Holders, Known
<1>4. got[r] \in Models => cache[v] = got[r]
  BY <1>1, <1>2, <1>3 DEF OneModelPerStamp
<1> QED BY <1>2, <1>4 DEF model_version

\* The lookup of the cached forecast, _get_model on the forecasting thread, and
\* the end of the request: blobs are only dropped or exchanged for the one under
\* the key.
LEMMA DropInv ==
  ASSUME ForecastInv, NEW r \in Requests, ReadCached(r) \/ GetModel(r) \/ Respond(r)
  PROVE  ForecastInv'
<1>0. /\ TypeOK /\ RequestOK(r)
      /\ got \in [Requests -> Blobs \cup {None}]
      /\ answer \in [Requests -> Models \cup {None, Empty}]
  BY DEF ForecastInv, TypeOK
<1>1. UNCHANGED <<data, model, up, faults, points>> /\ cache' = Reachable
  BY DEF ReadCached, GetModel, Respond
<1>2. \E x, g, a : Moves(r, x, g, a) /\ g \in {got[r], model, None}
  <2>1. CASE ReadCached(r)
    <3> DEFINE cached == cache[model_version(got[r])]
    <3>1. /\ pc[r] = "cached" /\ got[r] \in Blobs /\ answer[r] \notin Models
      BY <1>0, <2>1 DEF ReadCached, RequestOK
    <3>2. CASE Readable(cached)
      <4>1. cached \in Models
        BY <3>2 DEF Readable
      <4>2. cached.stamp = got[r].stamp /\ (got[r] \in Models => cached = got[r])
        BY <3>1, <4>1, CachedAnswer
      <4>3. /\ pc' = [pc EXCEPT ![r] = "done"] /\ answer' = [answer EXCEPT ![r] = cached]
            /\ got' = got
        BY <2>1, <3>2 DEF ReadCached, Goto
      <4> HIDE DEF cached
      <4>4. Moves(r, "done", got[r], cached)
        BY <1>0, <3>1, <4>1, <4>2, <4>3 DEF Moves, Steps
      <4> QED BY <4>4
    <3>3. CASE ~Readable(cached)
      <4>1. /\ pc' = [pc EXCEPT ![r] = "get"] /\ answer' = answer
            /\ got' = [got EXCEPT ![r] = None]
        BY <2>1, <3>3 DEF ReadCached, Goto
      <4>2. Moves(r, "get", None, answer[r])
        BY <1>0, <3>1, <4>1 DEF Moves, Steps
      <4> QED BY <4>2
    <3> QED BY <3>2, <3>3
  <2>2. CASE GetModel(r)
    <3>1. pc[r] = "get" /\ answer[r] \notin Models /\ answer' = answer
      BY <1>0, <2>2 DEF GetModel, RequestOK
    <3>2. CASE Readable(model)
      <4>1. model \in Models /\ model \in Blobs
        BY <3>2, NoModels DEF Readable
      <4>2. pc' = [pc EXCEPT ![r] = "save"] /\ got' = [got EXCEPT ![r] = model]
        BY <2>2, <3>2 DEF GetModel, Goto
      <4>3. Moves(r, "save", model, answer[r])
        BY <1>0, <3>1, <4>1, <4>2 DEF Moves, Steps
      <4> QED BY <4>3
    <3>3. CASE ~Readable(model)
      <4>1. Moves(r, "train", got[r], answer[r])
        BY <1>0, <2>2, <3>1, <3>3 DEF GetModel, Goto, Moves, Steps
      <4> QED BY <4>1
    <3> QED BY <3>2, <3>3
  <2>3. CASE Respond(r)
    <3>1. Moves(r, "idle", None, None)
      BY <2>3, NoModels DEF Respond, Goto, Moves, Steps
    <3> QED BY <3>1
  <2> QED BY <2>1, <2>2, <2>3
<1>3. PICK x, g, a : Moves(r, x, g, a) /\ g \in {got[r], model, None}
  BY <1>2
<1>4. /\ pc' \in [Procs -> Steps]
      /\ got' \in [Requests -> Blobs \cup {None}]
      /\ answer' \in [Requests -> Models \cup {None, Empty}]
      /\ \A q \in Requests : RequestOK(q)'
      /\ Holders' \subseteq Holders \cup ({model', g} \cap Blobs)
  BY <1>3, RequestMoves
<1>5. Holders' \cap Models \subseteq Known
  <2>1. Holders' \subseteq Holders
    BY <1>1, <1>3, <1>4, NoModels DEF Holders
  <2> QED BY <2>1 DEF Known
<1>6. OneModelPerStamp' /\ CacheKeyed'
  BY <1>1, <1>5, HoldersKept
<1>7. cache' \in [Versions -> Models \cup {None, Junk}]
  BY <1>0, <1>1, ReachableFacts DEF ForecastInv
<1>8. TypeOK'
  BY <1>0, <1>1, <1>4, <1>7 DEF TypeOK, Steps
<1> QED BY <1>4, <1>6, <1>8 DEF ForecastInv

\* The request fits a model of its own and puts it under the key.
LEMMA StoreModelInv ==
  ASSUME ForecastInv, NEW r \in Requests, StoreModel(r)
  PROVE  ForecastInv'
<1>0. /\ TypeOK /\ RequestOK(r)
      /\ got \in [Requests -> Blobs \cup {None}]
      /\ answer \in [Requests -> Models \cup {None, Empty}]
      /\ points \in [Procs -> 0..MaxData] /\ points[r] \in 0..MaxData
      /\ 0 \in 0..MaxData
  BY ForecastConstants DEF ForecastInv, TypeOK, Procs
<1> DEFINE m == FitModel(points[r])
<1>1. m \in Models /\ m.stamp \notin Live \cup {Legacy} /\ m \in Blobs
  BY <1>0, FreshStamp, NoModels
<1>2. /\ pc[r] = "store" /\ pc' = [pc EXCEPT ![r] = "save"]
      /\ got' = [got EXCEPT ![r] = m] /\ model' = (IF up THEN m ELSE model)
      /\ cache' = Reachable /\ points' = [points EXCEPT ![r] = 0]
      /\ UNCHANGED <<data, up, faults, answer>>
  BY DEF StoreModel, Goto
<1> HIDE DEF m
<1>3. Moves(r, "save", m, answer[r])
  BY <1>0, <1>1, <1>2 DEF Moves, Steps, RequestOK
<1>4. /\ pc' \in [Procs -> Steps]
      /\ got' \in [Requests -> Blobs \cup {None}]
      /\ answer' \in [Requests -> Models \cup {None, Empty}]
      /\ \A q \in Requests : RequestOK(q)'
      /\ Holders' \subseteq Holders \cup ({model', m} \cap Blobs)
  BY <1>3, RequestMoves
<1>5. Holders' \cap Models \subseteq Known \cup {m}
  BY <1>2, <1>4 DEF Holders, Known
<1>6. OneModelPerStamp' /\ CacheKeyed'
  BY <1>1, <1>2, <1>5, HoldersGrow
<1>7. cache' \in [Versions -> Models \cup {None, Junk}]
  BY <1>0, <1>2, ReachableFacts DEF ForecastInv
<1>8. TypeOK'
  BY <1>0, <1>1, <1>2, <1>4, <1>7 DEF TypeOK, Steps
<1> QED BY <1>4, <1>6, <1>8 DEF ForecastInv

\* The predictions go under the version of the model that made them.
LEMMA SaveForecastInv ==
  ASSUME ForecastInv, NEW r \in Requests, SaveForecast(r)
  PROVE  ForecastInv'
<1>0. /\ TypeOK /\ RequestOK(r) /\ OneModelPerStamp /\ CacheKeyed
      /\ got \in [Requests -> Blobs \cup {None}]
  BY DEF ForecastInv, TypeOK
<1> DEFINE m == got[r]
<1>1. /\ pc[r] = "save" /\ pc' = [pc EXCEPT ![r] = "done"]
      /\ cache' = (IF up THEN [cache EXCEPT ![m.stamp] = m] ELSE cache)
      /\ answer' = [answer EXCEPT ![r] = m]
      /\ UNCHANGED <<data, model, up, faults, points, got>>
  BY DEF SaveForecast, Goto, model_version
<1>2. m \in Models /\ m \in Blobs /\ m \in Holders /\ m.stamp \in Versions
  BY <1>0, <1>1, NoModels DEF RequestOK, Holders
<1>3. got' = [got EXCEPT ![r] = m]
  BY <1>0, <1>1
<1>4. Holders' = Holders
  BY <1>1 DEF Holders
<1> HIDE DEF m
<1>5. Moves(r, "done", m, m)
  BY <1>1, <1>2, <1>3 DEF Moves, Steps
<1>6. /\ pc' \in [Procs -> Steps]
      /\ answer' \in [Requests -> Models \cup {None, Empty}]
      /\ \A q \in Requests : RequestOK(q)'
  BY <1>5, RequestMoves
<1>7. /\ cache' \in [Versions -> Models \cup {None, Junk}]
      /\ OneModelPerStamp' /\ CacheKeyed'
  <2>1. CASE up
    BY <1>1, <1>2, <1>4, <2>1, EntryWritten
  <2>2. CASE ~up
    BY <1>0, <1>1, <1>4, <2>2, KeysSame DEF TypeOK
  <2> QED BY <2>1, <2>2
<1>8. TypeOK'
  BY <1>0, <1>1, <1>6, <1>7 DEF TypeOK, Steps
<1> QED BY <1>6, <1>7, <1>8 DEF ForecastInv

-----------------------------------------------------------------------------
(* retrain_model and the environment                                        *)

\* A trainer loads the points, or replaces the model under the key.
LEMMA RetrainingInv ==
  ASSUME ForecastInv, NEW t \in Trainers, Retraining(t)
  PROVE  ForecastInv'
<1>0. /\ TypeOK /\ OneModelPerStamp /\ CacheKeyed
      /\ pc \in [Procs -> Steps] /\ t \in Procs /\ t \notin Requests
      /\ points \in [Procs -> 0..MaxData] /\ points[t] \in 0..MaxData
      /\ 0 \in 0..MaxData /\ data \in 0..MaxData
  BY ForecastConstants DEF ForecastInv, TypeOK, Procs, Steps
<1>1. /\ \E x \in Steps : pc' = [pc EXCEPT ![t] = x]
      /\ UNCHANGED <<data, up, faults, got, answer>>
      /\ \E n \in 0..MaxData : points' = [points EXCEPT ![t] = n]
  BY <1>0 DEF Retraining, LoadTraining, StoreTrained, Goto, Steps
<1>2. pc' \in [Procs -> Steps] /\ \A q \in Requests : pc'[q] = pc[q]
  BY <1>0, <1>1 DEF Procs
<1>3. points' \in [Procs -> 0..MaxData]
  BY <1>0, <1>1
<1>4. /\ \A q \in Requests : RequestOK(q)'
      /\ Holders' \subseteq Holders \cup ({model'} \cap Blobs)
      /\ model' = model => Holders' = Holders
  BY <1>1, <1>2, RequestsKept
<1>5. /\ model' \in Blobs \cup {None, Junk}
      /\ cache' \in [Versions -> Models \cup {None, Junk}]
      /\ OneModelPerStamp' /\ CacheKeyed'
  <2>1. CASE LoadTraining(t)
    <3>1. UNCHANGED <<model, cache>>
      BY <2>1 DEF LoadTraining, store
    <3> QED BY <1>0, <1>4, <3>1, KeysSame DEF TypeOK
  <2>2. CASE StoreTrained(t)
    <3> DEFINE m == FitModel(points[t])
    <3>1. m \in Models /\ m.stamp \notin Live \cup {Legacy} /\ m \in Blobs
      BY <1>0, FreshStamp, NoModels
    <3>2. model' = (IF up THEN m ELSE model) /\ cache' = Reachable
      BY <2>2 DEF StoreTrained
    <3> HIDE DEF m
    <3>3. Holders' \cap Models \subseteq Known \cup {m}
      BY <1>4, <3>2 DEF Holders, Known
    <3>4. OneModelPerStamp' /\ CacheKeyed'
      BY <3>1, <3>2, <3>3, HoldersGrow
    <3>5. cache' \in [Versions -> Models \cup {None, Junk}]
      BY <1>0, <3>2, ReachableFacts
    <3> QED BY <1>0, <3>1, <3>2, <3>4, <3>5 DEF TypeOK
  <2> QED BY <2>1, <2>2 DEF Retraining
<1>6. TypeOK'
  BY <1>0, <1>1, <1>2, <1>3, <1>5 DEF TypeOK, Steps
<1> QED BY <1>4, <1>5, <1>6 DEF ForecastInv

\* New readings, expiring keys, outages and corrupted blobs.
LEMMA EnvironmentInv ==
  ASSUME ForecastInv,
         \/ Record \/ Corrupt \/ Outage \/ Recover \/ ExpireModel
         \/ \E v \in Versions : ExpireForecast(v)
  PROVE  ForecastInv'
<1>0. /\ TypeOK /\ OneModelPerStamp /\ CacheKeyed
      /\ data \in 0..MaxData /\ faults \in 0..MaxFaults /\ MaxData \in Nat /\ MaxFaults \in Nat
  BY ForecastConstants DEF ForecastInv, TypeOK
<1>1. UNCHANGED <<pc, points, got, answer>>
  BY DEF Record, Corrupt, Outage, Recover, ExpireModel, ExpireForecast, Fault
<1>2. /\ \A q \in Requests : RequestOK(q)'
      /\ Holders' \subseteq Holders \cup ({model'} \cap Blobs)
      /\ model' = model => Holders' = Holders
  BY <1>1, RequestsKept
<1>3. data' \in 0..MaxData /\ faults' \in 0..MaxFaults
  <2>1. /\ data' = data \/ (data < MaxData /\ data' = data + 1)
        /\ faults' = faults \/ (faults < MaxFaults /\ faults' = faults + 1)
    BY DEF Record, Corrupt, Outage, Recover, ExpireModel, ExpireForecast, Fault
  <2> QED BY <1>0, <2>1
<1>4. up' \in BOOLEAN
  <2>1. up' = up \/ up' = TRUE \/ up' = FALSE
    BY DEF Record, Corrupt, Outage, Recover, ExpireModel, ExpireForecast
  <2> QED BY <1>0, <2>1 DEF TypeOK
<1>5. /\ model' \in Blobs \cup {None, Junk}
      /\ cache' \in [Versions -> Models \cup {None, Junk}]
      /\ OneModelPerStamp' /\ CacheKeyed'
  <2>1. CASE UNCHANGED <<model, cache>>
    BY <1>0, <1>2, <2>1, KeysSame DEF TypeOK
  <2>2. CASE model' \in {None, Junk} \cup Broken /\ cache' = Reachable
    <3>1. Holders' \cap Models \subseteq Known
      BY <1>2, <2>2, NoModels DEF Known
    <3>2. OneModelPerStamp' /\ CacheKeyed'
      BY <2>2, <3>1, HoldersKept
    <3> QED BY <1>0, <2>2, <3>2, ReachableFacts, NoModels
  <2>3. CASE \E v \in Versions, x \in {None, Junk} : model' = model /\ cache' = [cache EXCEPT ![v] = x]
    <3>1. PICK v \in Versions, x \in {None, Junk} : model' = model /\ cache' = [cache EXCEPT ![v] = x]
      BY <2>3
    <3>2. /\ cache' \in [Versions -> Models \cup {None, Junk}]
          /\ OneModelPerStamp' /\ CacheKeyed'
      BY <1>2, <3>1, EntryWritten
    <3> QED BY <1>0, <3>1, <3>2 DEF TypeOK
  <2>4. \/ UNCHANGED <<model, cache>>
        \/ model' \in {None, Junk} \cup Broken /\ cache' = Reachable
        \/ \E v \in Versions, x \in {None, Junk} : model' = model /\ cache' = [cache EXCEPT ![v] = x]
    <3>1. CASE Record \/ Outage \/ Recover
      BY <3>1 DEF Record, Outage, Recover, store
    <3>2. CASE Corrupt
      <4>1. Damaged \subseteq {Junk} \cup Broken
        BY NoModels DEF Damaged, Broken, Versions
      <4> QED BY <3>2, <4>1 DEF Corrupt
    <3>3. CASE ExpireModel
      BY <3>3 DEF ExpireModel
    <3>4. CASE \E v \in Versions : ExpireForecast(v)
      BY <3>4 DEF ExpireForecast
    <3> QED BY <3>1, <3>2, <3>3, <3>4
  <2> QED BY <2>1, <2>2, <2>3, <2>4
<1>6. TypeOK'
  BY <1>0, <1>1, <1>3, <1>4, <1>5 DEF TypeOK
<1> QED BY <1>2, <1>5, <1>6 DEF ForecastInv

-----------------------------------------------------------------------------
(* The system                                                               *)

\* No forecast is cached yet.
LEMMA InitInv == Init => ForecastInv
<1> SUFFICES ASSUME Init PROVE ForecastInv
  OBVIOUS
<1>1. 0 \in 0..MaxData /\ 0 \in 0..MaxFaults
  BY ForecastConstants
<1>2. [stamp |-> Legacy, data |-> 0] \in Models
  BY <1>1 DEF Models, Versions
<1>3. TypeOK
  BY <1>1, <1>2, NoModels DEF Init, TypeOK
<1>4. \A m \in Known : m = model
  BY NoModels DEF Init, Holders, Known
<1>5. OneModelPerStamp
  BY <1>4 DEF OneModelPerStamp
<1>6. CacheKeyed
  BY NoModels DEF Init, CacheKeyed
<1>7. \A r \in Requests : RequestOK(r)
  BY NoModels DEF Init, RequestOK, Procs
<1> QED BY <1>3, <1>5, <1>6, <1>7 DEF ForecastInv

\* Every step of the requests, the trainers and the environment keeps it.
LEMMA NextInv == ForecastInv /\ [Next]_vars => ForecastInv'
<1> SUFFICES ASSUME ForecastInv, [Next]_vars PROVE ForecastInv'
  OBVIOUS
<1>1. CASE \E r \in Requests : Forecasting(r)
  BY <1>1, ReadInv, DropInv, StoreModelInv, SaveForecastInv DEF Forecasting
<1>2. CASE \E t \in Trainers : Retraining(t)
  BY <1>2, RetrainingInv
<1>3. CASE \/ Record \/ Corrupt \/ Outage \/ Recover \/ ExpireModel
           \/ \E v \in Versions : ExpireForecast(v)
  BY <1>3, EnvironmentInv
<1>4. CASE UNCHANGED vars
  <2>1. Holders' = Holders /\ TypeOK' /\ \A r \in Requests : RequestOK(r)'
    BY <1>4 DEF vars, Holders, ForecastInv, TypeOK, RequestOK
  <2> QED BY <1>4, <2>1, KeysSame DEF vars, ForecastInv
<1> QED BY <1>1, <1>2, <1>3, <1>4 DEF Next

\* The invariant of the forecast's two kinds of keys: a stamp is of one model, and
\* a readable forecast lies under the stamp of the model that made it.
THEOREM ForecastInvariant == Spec => []ForecastInv
<1> QED BY InitInv, NextInv, PTL DEF Spec

\* The variables keep their types: the model key holds a model, a damaged blob or
\* nothing, a forecast key a forecast, a value of the wrong shape or nothing.
THEOREM ForecastTypeCorrect == Spec => []TypeOK
<1>1. ForecastInv => TypeOK
  BY DEF ForecastInv
<1> QED BY <1>1, ForecastInvariant, PTL

\* A response holds the forecast of the model its request found current or
\* fitted itself, however requests, retrainings and expiries interleave (M50);
\* where it found a damaged blob, that of the version the blob named.
THEOREM AnswersMatchModels == Spec => []AnswerMatchesModel
<1>1. ForecastInv => AnswerMatchesModel
  BY DEF ForecastInv, RequestOK, AnswerMatchesModel
<1> QED BY <1>1, ForecastInvariant, PTL
=============================================================================
