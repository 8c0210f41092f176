----------------------------- MODULE AlertBoard -----------------------------
(***************************************************************************)
(* What the alert system promises an operator: each node shows at most one *)
(* open alert; without an acknowledgement its severity only goes up; an    *)
(* acknowledgement closes the alert of one node and touches no other.      *)
(***************************************************************************)
EXTENDS Naturals

CONSTANTS Nodes, None

VARIABLE open  \* node -> severity of its open alert, or None

Level(s) == CASE s = "critical" -> 2 [] s = "warning" -> 1 [] OTHER -> 0

Init == open = [n \in Nodes |-> None]

\* A committed run opens or escalates the alerts of some nodes.
Raise == /\ open' \in [Nodes -> {None, "warning", "critical"}]
         /\ \A n \in Nodes : open'[n] = open[n] \/ Level(open'[n]) > Level(open[n])

\* An operator closes one node's alert.
Acknowledge(n) == /\ open[n] # None
                  /\ open' = [open EXCEPT ![n] = None]

Next == Raise \/ \E n \in Nodes : Acknowledge(n)

Spec == Init /\ [][Next]_open
=============================================================================
