--------------------------- MODULE MCMqttSession ---------------------------
(* Model-checking instance of MqttSession.                                  *)
EXTENDS MqttSession

\* At most three ids are remembered or in flight across a reconnect, three
\* are needed by _on_connect, and each lost race can leak one.
MCMids == 1..6
=============================================================================
