---------------------------- MODULE MCMqttIngest ---------------------------
(* Model-checking instances of MqttIngest.                                  *)
EXTENDS MqttIngest, TLC

CONSTANTS a, b

Msg(i, n, k, f, s) == [id |-> i, node |-> n, kind |-> k, form |-> f, stale |-> s]

\* Messages for a queue of one and a limiter table of one: a reading and a
\* heartbeat of different nodes, an alert, a replayed reading that fails
\* validation, and an oversized payload.  Between them they take every early
\* return of _on_message, overflow the queue and compete in the drain.
MCMsgs == {Msg(1, a, "reading", "ok", FALSE),
           Msg(2, b, "status", "ok", FALSE),
           Msg(3, a, "alert", "ok", FALSE),
           Msg(4, a, "reading", "bad", TRUE),
           Msg(5, b, "reading", "oversized", FALSE)}

\* Two good readings and an alert suffice to leave one behind.
MCStopMsgs == {Msg(1, a, "reading", "ok", FALSE),
               Msg(2, b, "reading", "ok", FALSE),
               Msg(3, a, "alert", "ok", FALSE)}

MCNodes == {a, b}
=============================================================================
