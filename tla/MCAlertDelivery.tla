-------------------------- MODULE MCAlertDelivery --------------------------
(***************************************************************************)
(* Model-checking instance of AlertDelivery.  The publisher and the sockets  *)
(* share nothing but the topic, which the publisher never reads, so the      *)
(* instance starts from two kinds of states that keep the product small:     *)
(* every alert and every fault with a user who cannot connect, and a few     *)
(* alerts without faults with one who can.                                   *)
(***************************************************************************)
EXTENDS AlertDelivery

CONSTANT Few  \* the alerts that are published while the user connects

MCInit ==
  /\ DeliveryInit
  /\ \/ access = "none" /\ fresh = Alerts /\ faults = 0
     \/ access = "good" /\ fresh = Few /\ faults = MaxFaults

MCSpec == MCInit /\ [][DeliveryNext]_delivery /\ DeliveryFairness
=============================================================================
