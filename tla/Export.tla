------------------------------- MODULE Export -------------------------------
(***************************************************************************)
(* GET /export (api/export.py) behind the request limiter (api/rate_limit.py)*)
(* for clients of one address: the fixed-minute counter, the per-user        *)
(* cooldown key, the semaphore that caps the streams, and the two nested     *)
(* generators of a stream.  _stream_rows holds the semaphore and a pooled    *)
(* connection; _csv_chunks turns rows into chunks and watches the clock.     *)
(*                                                                           *)
(* When _csv_chunks stops while _stream_rows is suspended, nothing closes    *)
(* the inner generator at that point: the interpreter hands it to the event  *)
(* loop, which finalises it later.  Until then it is an orphan that still    *)
(* holds its permit.                                                         *)
(***************************************************************************)
EXTENDS Integers, Sequences, FiniteSets, SequencesExt

CONSTANTS
  Exports,    \* requests
  Users,      \* accounts
  Owner,      \* request -> account it is authenticated as
  Limit,      \* requests per minute of the limiter
  MaxStreams, \* MAX_CONCURRENT_EXPORTS
  Rows,       \* rows of the selected range
  MaxFaults   \* Redis outages and failed queries (a bound)

ASSUME ExportConstants ==
  /\ Limit \in Nat \ {0} /\ MaxStreams \in Nat \ {0} /\ Rows \in Nat
  /\ MaxFaults \in Nat
  /\ Owner \in [Exports -> Users]

VARIABLES
  hits,     \* value of the limiter's key for this minute, up to Limit
  up,       \* whether Redis answers
  faults,   \* faults so far
  claimed,  \* users whose cooldown key exists
  granted,  \* user -> exports let through on the present claim (history)
  pc,       \* request -> its next step
  waiting,  \* requests queued on the semaphore, in order
  permits,  \* free permits of the semaphore
  late,     \* request -> EXPORT_TIMEOUT_SECONDS have passed since its start
  sent,     \* request -> rows written to the response
  outcome   \* request -> how its response ended

redis   == <<hits, up, faults>>
stream  == <<waiting, permits, late, sent>>
vars == <<hits, up, faults, claimed, granted,
          pc, waiting, permits, late, sent, outcome>>

TypeOK ==
  /\ hits \in 0..Limit
  /\ up \in BOOLEAN /\ faults \in 0..MaxFaults
  /\ claimed \subseteq Users /\ granted \in [Users -> Nat]
  /\ pc \in [Exports -> {"idle", "cooldown", "queued", "streaming", "orphan", "ended"}]
  /\ waiting \in Seq(Exports)
  /\ permits \in 0..MaxStreams
  /\ late \in [Exports -> BOOLEAN]
  /\ sent \in [Exports -> 0..Rows]
  /\ outcome \in [Exports -> {"open", "refused", "complete", "truncated", "broken", "gone"}]

Init ==
  /\ hits = 0
  /\ up = TRUE /\ faults = 0
  /\ claimed = {} /\ granted = [u \in Users |-> 0]
  /\ pc = [e \in Exports |-> "idle"]
  /\ waiting = <<>> /\ permits = MaxStreams
  /\ late = [e \in Exports |-> FALSE]
  /\ sent = [e \in Exports |-> 0]
  /\ outcome = [e \in Exports |-> "open"]

Goto(e, step) == pc' = [pc EXCEPT ![e] = step]
Outcome(e, o) == outcome' = [outcome EXCEPT ![e] = o]
End(e, o)     == Goto(e, "ended") /\ Outcome(e, o)

-----------------------------------------------------------------------------
(* The limiter                                                               *)

\* rate_limit: one script counts the request in the bucket of the minute and
\* yields the count (beyond Limit all counts are alike); without Redis the
\* request passes uncounted.
Arrive(e) ==
  /\ pc[e] = "idle"
  /\ IF up /\ hits = Limit
     THEN End(e, "refused") /\ UNCHANGED hits
     ELSE /\ Goto(e, "cooldown")
          /\ hits' = IF up THEN hits + 1 ELSE hits
          /\ UNCHANGED outcome
  /\ UNCHANGED <<up, faults, claimed, granted, stream>>

\* The next minute has a bucket of its own.
NextMinute ==
  /\ hits > 0
  /\ hits' = 0
  /\ UNCHANGED <<up, faults, claimed, granted, pc, stream, outcome>>

-----------------------------------------------------------------------------
(* export(): validation, cooldown, and the response                          *)

\* Bad credentials or parameters are answered before anything is claimed.
Reject(e) ==
  /\ pc[e] = "cooldown"
  /\ End(e, "refused")
  /\ UNCHANGED <<redis, claimed, granted, stream>>

\* As Claim, with a SET that lacks NX.
Claim_Always(e) ==
  /\ pc[e] = "cooldown"
  /\ claimed' = IF up THEN claimed \cup {Owner[e]} ELSE claimed
  /\ granted' = IF up THEN [granted EXCEPT ![Owner[e]] = @ + 1] ELSE granted
  /\ Goto(e, "queued")
  /\ waiting' = Append(waiting, e)
  /\ UNCHANGED <<redis, permits, late, sent, outcome>>

\* _check_export_cooldown: SET NX claims the user's slot, or the request is
\* refused; without Redis it goes on.  The body is then iterated: the clock of
\* _csv_chunks starts and _stream_rows asks for a permit.
Claim(e) ==
  /\ pc[e] = "cooldown"
  /\ IF up /\ Owner[e] \in claimed
     THEN End(e, "refused") /\ UNCHANGED <<claimed, granted, waiting>>
     ELSE /\ Goto(e, "queued")
          /\ waiting' = Append(waiting, e)
          /\ claimed' = IF up THEN claimed \cup {Owner[e]} ELSE claimed
          /\ granted' = IF up THEN [granted EXCEPT ![Owner[e]] = @ + 1] ELSE granted
          /\ UNCHANGED outcome
  /\ UNCHANGED <<redis, permits, late, sent>>

CooldownExpires(u) ==
  /\ u \in claimed
  /\ claimed' = claimed \ {u}
  /\ granted' = [granted EXCEPT ![u] = 0]
  /\ UNCHANGED <<redis, pc, stream, outcome>>

-----------------------------------------------------------------------------
(* The stream                                                                *)

\* asyncio.Semaphore serves its waiters in order.
Acquire(e) ==
  /\ waiting # <<>> /\ Head(waiting) = e
  /\ permits > 0
  /\ Goto(e, "streaming")
  /\ waiting' = Tail(waiting)
  /\ permits' = permits - 1
  /\ UNCHANGED <<redis, claimed, granted, late, sent, outcome>>

\* The timeout includes the time spent waiting for the permit.
Overtime(e) ==
  /\ pc[e] \in {"queued", "streaming"}
  /\ ~late[e]
  /\ late' = [late EXCEPT ![e] = TRUE]
  /\ UNCHANGED <<redis, claimed, granted, pc, waiting, permits, sent, outcome>>

\* As CutOff, returning without the sentinel (before M83).
CutOff_Silent(e) == Goto(e, "orphan") /\ Outcome(e, "complete")

\* The sentinel row ends the body and leaves _stream_rows suspended.
CutOff(e) == Goto(e, "orphan") /\ Outcome(e, "truncated")

\* A row arrives and the client takes what is yielded.  The clock is looked at
\* here and nowhere else.
Row(e) ==
  /\ pc[e] = "streaming"
  /\ sent[e] < Rows
  /\ IF late[e]
     THEN CutOff(e) /\ UNCHANGED sent
     ELSE sent' = [sent EXCEPT ![e] = @ + 1] /\ UNCHANGED <<pc, outcome>>
  /\ UNCHANGED <<redis, claimed, granted, waiting, permits, late>>

\* The cursor is exhausted: both generators return.
Exhausted(e) ==
  /\ pc[e] = "streaming"
  /\ sent[e] = Rows
  /\ End(e, "complete")
  /\ permits' = permits + 1
  /\ UNCHANGED <<redis, claimed, granted, waiting, late, sent>>

\* The query fails inside _stream_rows; the response is cut without its end.
QueryFails(e) ==
  /\ pc[e] = "streaming"
  /\ faults < MaxFaults
  /\ faults' = faults + 1
  /\ End(e, "broken")
  /\ permits' = permits + 1
  /\ UNCHANGED <<hits, up, claimed, granted, waiting, late, sent>>

\* The client goes away.  A waiter is cancelled; a stream is cancelled inside
\* _stream_rows, which unwinds, or closed at a yield of _csv_chunks.
Disconnect(e) ==
  /\ \/ /\ pc[e] = "queued"
        /\ End(e, "gone")
        /\ \E i \in DOMAIN waiting : waiting[i] = e /\ waiting' = RemoveAt(waiting, i)
        /\ UNCHANGED permits
     \/ /\ pc[e] = "streaming"
        /\ End(e, "gone")
        /\ permits' = permits + 1
        /\ UNCHANGED waiting
     \/ /\ pc[e] = "streaming"
        /\ Goto(e, "orphan") /\ Outcome(e, "gone")
        /\ UNCHANGED <<waiting, permits>>
  /\ UNCHANGED <<redis, claimed, granted, late, sent>>

\* As Finalize, if the permit were not released by the generator's exit.
Finalize_KeepsPermit(e) ==
  /\ pc[e] = "orphan"
  /\ Goto(e, "ended")
  /\ UNCHANGED <<redis, claimed, granted, stream, outcome>>

\* The loop runs the orphan's aclose(): cursor, session and permit go.
Finalize(e) ==
  /\ pc[e] = "orphan"
  /\ Goto(e, "ended")
  /\ permits' = permits + 1
  /\ UNCHANGED <<redis, claimed, granted, waiting, late, sent, outcome>>

\* A later request of the same client.
Again(e) ==
  /\ pc[e] = "ended"
  /\ Goto(e, "idle")
  /\ Outcome(e, "open")
  /\ late' = [late EXCEPT ![e] = FALSE]
  /\ sent' = [sent EXCEPT ![e] = 0]
  /\ UNCHANGED <<redis, claimed, granted, waiting, permits>>

-----------------------------------------------------------------------------
Outage ==
  /\ up /\ faults < MaxFaults
  /\ up' = FALSE /\ faults' = faults + 1
  /\ UNCHANGED <<hits, claimed, granted, pc, stream, outcome>>

Recover ==
  /\ ~up
  /\ up' = TRUE
  /\ UNCHANGED <<hits, faults, claimed, granted, pc, stream, outcome>>

Stream(e) == Acquire(e) \/ Row(e) \/ Exhausted(e) \/ Finalize(e)

Next ==
  \/ NextMinute \/ Outage \/ Recover
  \/ \E u \in Users : CooldownExpires(u)
  \/ \E e \in Exports :
       \/ Arrive(e) \/ Reject(e) \/ Claim(e)
       \/ Stream(e) \/ Overtime(e) \/ QueryFails(e) \/ Disconnect(e) \/ Again(e)

Spec == Init /\ [][Next]_vars

\* The event loop runs what is ready, and a connected client reads its rows.
FairSpec == Spec /\ \A e \in Exports : WF_vars(Stream(e))

-----------------------------------------------------------------------------
\* However the requests of one account race, and whatever becomes of their
\* streams, Redis lets one of them through per cooldown (H18).
OneExportPerCooldown == \A u \in Users : granted[u] <= 1

\* A response ends without the sentinel and without being cut off exactly when
\* it holds every row (M83).
CompleteOrMarked ==
  \A e \in Exports :
    /\ outcome[e] = "complete" => sent[e] = Rows
    /\ outcome[e] = "truncated" => sent[e] < Rows

\* An export that waits for a permit ends: permits come back from streams that
\* finish, fail, time out or lose their client, orphans included.
ExportsEnd == \A e \in Exports : pc[e] = "queued" ~> pc[e] = "ended"
=============================================================================
