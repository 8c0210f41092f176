--------------------------- MODULE AlertDelivery ---------------------------
(***************************************************************************)
(* From publish_alert to the browser: the worker's publisher, the broker's   *)
(* topic air/alerts, the MQTT client of the API (mqtt/client.py) with the     *)
(* bounded queue between its loop thread and its worker, and the WebSocket    *)
(* clients.  The queue also holds readings and status messages (MqttIngest);  *)
(* here they only make it full.                                              *)
(***************************************************************************)
EXTENDS AlertPublisher, Sockets

CONSTANTS
  Watched,  \* the alert whose delivery is recorded
  InboxSize \* the most alerts in the worker's queue

ASSUME DeliveryConstants == Watched \in Alerts /\ InboxSize \in Nat

VARIABLES
  inbox,  \* the alerts in the worker's queue
  client, \* the MQTT client: "running", "stopping" (in stop()) or "stopped"
  shown   \* sockets that were sent Watched since they connected

delivery == <<publisher, sockets, inbox, client, shown>>

DeliveryInit ==
  /\ PublisherInit
  /\ SocketsInit
  /\ inbox = <<>> /\ client = "running" /\ shown = {}

-----------------------------------------------------------------------------
(* The MQTT client                                                           *)

\* The loop thread takes an alert from the topic, until stop() ends its loop.
Receive(a) ==
  /\ client # "stopped"
  /\ a \in topic
  /\ topic' = topic \ {a}
  /\ Len(inbox) < InboxSize
  /\ inbox' = Append(inbox, a)
  /\ UNCHANGED <<fresh, queue, batch, step, faults, sockets, client, shown>>

\* The queue is full at every attempt, if need be with readings.
DropAlert(a) ==
  /\ client # "stopped"
  /\ a \in topic
  /\ topic' = topic \ {a}
  /\ UNCHANGED <<fresh, queue, batch, step, faults, sockets, inbox, client, shown>>

\* The worker, or the drain of stop(), calls broadcast().  Of the alert only
\* whether it is the watched one matters from here on.
HandleAlert ==
  /\ client # "stopped"
  /\ inbox # <<>>
  /\ inbox' = Tail(inbox)
  /\ Broadcast(Head(inbox) = Watched)
  /\ UNCHANGED <<publisher, client, shown>>

OfClient(from, to) ==
  /\ client = from
  /\ client' = to
  /\ UNCHANGED <<publisher, sockets, shown>>

StopBegins == OfClient("running", "stopping") /\ UNCHANGED inbox

\* The drain has ended on its deadline, its budget or an empty queue; what it left
\* or what came later is lost.  The broker keeps the topic for the next client.
StopEnds == OfClient("stopping", "stopped") /\ inbox' = <<>>

ClientStarts == OfClient("stopped", "running") /\ UNCHANGED inbox

-----------------------------------------------------------------------------
(* The event loop                                                            *)

Deliver(x) ==
  /\ SendAll(x)
  /\ shown' = IF x.msg
              THEN shown \cup {s \in x.to \ {Ghost} : sock[s] = "open"}
              ELSE shown
  /\ UNCHANGED <<publisher, inbox, client>>

\* A step of the sockets alone.
OfSockets(A) ==
  /\ A
  /\ shown' = {s \in shown : sock'[s] # "closed"}
  /\ UNCHANGED <<publisher, inbox, client>>

DeliveryNext ==
  \/ PublisherNext /\ UNCHANGED <<sockets, inbox, client, shown>>
  \/ OfSockets(SocketsNext)
  \/ \E a \in Alerts : Receive(a) \/ DropAlert(a)
  \/ HandleAlert
  \/ StopBegins \/ StopEnds \/ ClientStarts
  \/ \E x \in sending : Deliver(x)

DeliverySpec == DeliveryInit /\ [][DeliveryNext]_delivery

\* The worker thread and the event loop run, and timers expire.  Nothing is
\* assumed of the callers, the broker connection, the loop thread or the clients.
DeliveryFairness ==
  /\ WF_delivery(HandleAlert)
  /\ WF_delivery(\E x \in sending : Deliver(x))
  /\ WF_delivery(OfSockets(Schedule \/ ScheduleStale))
  /\ WF_delivery(OfSockets(TokenExpires))
  /\ \A s \in Clients : WF_delivery(OfSockets(Register(s) \/ Elapse(s) \/ Expire(s)))

FairDelivery == DeliverySpec /\ DeliveryFairness

-----------------------------------------------------------------------------
\* The worker's queue is within its bound.
DeliveryTypeOK ==
  /\ inbox \in Seq(Alerts) /\ Len(inbox) <= InboxSize
  /\ client \in {"running", "stopping", "stopped"}
  /\ shown \subseteq Clients

\* An alert that the loop thread has put on the worker's queue reaches every socket
\* that is open and stays open, unless the client is stopped, although connecting,
\* restarts of the loop and broadcasts to a stopped loop race for the captured
\* loop (M74).  An alert that finds the queue full is lost.
AlertReachesSocket ==
  \A s \in Clients :
    (Watched \in ToSet(inbox) /\ client = "running" /\ sock[s] = "open")
      ~> (s \in shown \/ sock[s] # "open" \/ client # "running")
=============================================================================
