------------------------------ MODULE Sockets ------------------------------
(***************************************************************************)
(* The WebSocket side of alerts: the handlers of /ws/alerts                  *)
(* (api/ws/routes.py) and the ConnectionManager (api/ws/manager.py), whose    *)
(* broadcast() is called by the MQTT worker thread and schedules its sends     *)
(* on the event loop it captured when a client connected.  All sockets       *)
(* belong to one login of one account (api/jwt.py).                          *)
(*                                                                           *)
(* The server may be restarted inside the process: the loop stops and a new  *)
(* one runs.  The captured loop is then "stale"; a socket of an old loop     *)
(* whose handler did not get to run its finally clause stays registered, and *)
(* Ghost stands for all of those.                                            *)
(***************************************************************************)
EXTENDS Naturals

CONSTANTS
  Clients, \* sockets
  Ghost,   \* registered sockets of stopped loops
  Full,    \* the re-authentication interval, in ticks of the model
  NoCast   \* no broadcast in progress

ASSUME SocketConstants == Ghost \notin Clients /\ Full \in Nat \ {0}

VARIABLES
  access,  \* "good": the client can get access tokens; "revoked": it has one
           \* that is revoked but did not expire; "none": no token, or no account
  sock,    \* socket -> "closed", "checked", "open", or "broken" (sends fail)
  window,  \* socket -> what remains of its re-authentication interval
  conns,   \* _connections
  loop,    \* _loop: "none", "live" or "stale"
  cast,    \* the broadcast between its locked section and its scheduling
  sending  \* _send_all coroutines scheduled on the live loop

sockets == <<access, sock, window, conns, loop, cast, sending>>

SocketsInit ==
  /\ access \in {"good", "none"}
  /\ sock = [s \in Clients |-> "closed"]
  /\ window = [s \in Clients |-> 0]
  /\ conns = {}
  /\ loop = "none"
  /\ cast = NoCast
  /\ sending = {}

Handled(s) == sock[s] \in {"open", "broken"}

-----------------------------------------------------------------------------
(* alerts_ws                                                                 *)

\* Whether some token of the client passes decode_access_token, the blocklist and
\* the test of the account.  The blocklist fails open: a revoked token passes if
\* Redis was down when it was revoked, or is down now.
MayPass == access # "none"

\* All of that is checked before the socket is accepted.
Authenticate(s) ==
  /\ sock[s] = "closed"
  /\ MayPass
  /\ sock' = [sock EXCEPT ![s] = "checked"]
  /\ UNCHANGED <<access, window, conns, loop, cast, sending>>

\* As Captured, keeping the first loop for good.
Captured_First == IF loop = "none" THEN "live" ELSE loop

\* connect() captures the running loop unless the captured one still runs.
Captured == IF loop = "live" THEN loop ELSE "live"

Register(s) ==
  /\ sock[s] = "checked"
  /\ sock' = [sock EXCEPT ![s] = "open"]
  /\ window' = [window EXCEPT ![s] = Full]
  /\ loop' = Captured
  /\ conns' = conns \cup {s}
  /\ UNCHANGED <<access, cast, sending>>

\* As WindowAfter, restarting the interval on every frame (before M93).
WindowAfter_AnyFrame(s, reauth) == Full

\* Only a frame that re-authenticates restarts the interval.
WindowAfter(s, reauth) == IF reauth THEN Full ELSE window[s]

\* A frame arrives within the interval; it may hold a good token.
Frame(s) ==
  /\ sock[s] = "open"
  /\ window[s] > 0
  /\ \E reauth \in {FALSE, MayPass} :
       window' = [window EXCEPT ![s] = WindowAfter(s, reauth)]
  /\ UNCHANGED <<access, sock, conns, loop, cast, sending>>

Elapse(s) ==
  /\ Handled(s)
  /\ window[s] > 0
  /\ window' = [window EXCEPT ![s] = @ - 1]
  /\ UNCHANGED <<access, sock, conns, loop, cast, sending>>

\* The handler ends; sends still aimed at the socket will fail.
Leave(s) ==
  /\ sock' = [sock EXCEPT ![s] = "closed"]
  /\ window' = [window EXCEPT ![s] = 0]
  /\ conns' = conns \ {s}
  /\ cast' = IF cast = NoCast THEN cast ELSE [cast EXCEPT !.to = @ \ {s}]
  /\ sending' = {[x EXCEPT !.to = @ \ {s}] : x \in sending}
  /\ UNCHANGED <<access, loop>>

\* The interval has passed: close code 4401.
Expire(s) == Handled(s) /\ window[s] = 0 /\ Leave(s)

\* The peer closes, sends too much, or sends a revoked token.
PeerEnds(s) == Handled(s) /\ Leave(s)

\* The connection dies without a close; only a send would notice.
Break(s) ==
  /\ sock[s] = "open"
  /\ sock' = [sock EXCEPT ![s] = "broken"]
  /\ UNCHANGED <<access, window, conns, loop, cast, sending>>

-----------------------------------------------------------------------------
(* broadcast                                                                 *)

\* The locked section copies the connections and the loop.
Broadcast(msg) ==
  /\ cast = NoCast
  /\ cast' = IF conns = {} \/ loop = "none" THEN NoCast
             ELSE [msg |-> msg, to |-> conns, on |-> loop]
  /\ UNCHANGED <<access, sock, window, conns, loop, sending>>

Schedule ==
  /\ cast # NoCast /\ cast.on = "live"
  /\ sending' = sending \cup {[msg |-> cast.msg, to |-> cast.to]}
  /\ cast' = NoCast
  /\ UNCHANGED <<access, sock, window, conns, loop>>

\* As LoopAfterError, without comparing the loops.
LoopAfterError_Resets(on) == "none"

\* A loop that failed is forgotten unless connect() has replaced it (M74).
LoopAfterError(on) == IF loop = on THEN "none" ELSE loop

\* A closed loop raises RuntimeError; one that is only stopped accepts the call
\* and never runs it.
ScheduleStale ==
  /\ cast # NoCast /\ cast.on = "stale"
  /\ loop' \in {LoopAfterError(cast.on), loop}
  /\ cast' = NoCast
  /\ UNCHANGED <<access, sock, window, conns, sending>>

\* _send_all: sockets whose send fails are removed.
SendAll(x) ==
  /\ x \in sending
  /\ sending' = sending \ {x}
  /\ conns' = conns \ {s \in x.to : s = Ghost \/ sock[s] # "open"}
  /\ UNCHANGED <<access, sock, window, loop, cast>>

-----------------------------------------------------------------------------
\* Logout or a password change: the refresh tokens are dead, the access token is
\* put on the blocklist if Redis is up.
Revoke ==
  /\ access = "good"
  /\ access' = "revoked"
  /\ UNCHANGED <<sock, window, conns, loop, cast, sending>>

\* JWT_ACCESS_TOKEN_EXPIRY_MINUTES after it was issued.
TokenExpires ==
  /\ access = "revoked"
  /\ access' = "none"
  /\ UNCHANGED <<sock, window, conns, loop, cast, sending>>

Deactivate ==
  /\ access # "none"
  /\ access' = "none"
  /\ UNCHANGED <<sock, window, conns, loop, cast, sending>>

\* The loop stops with everything it runs and another one takes its place.
Restart ==
  /\ sock' = [s \in Clients |-> "closed"]
  /\ window' = [s \in Clients |-> 0]
  /\ conns' \in IF conns = {} THEN {{}} ELSE {{}, {Ghost}}
  /\ loop' = IF loop = "live" THEN "stale" ELSE loop
  /\ cast' = IF cast = NoCast THEN cast ELSE [cast EXCEPT !.on = "stale"]
  /\ sending' = {}
  /\ UNCHANGED access

Handler(s) ==
  \/ Authenticate(s) \/ Register(s) \/ Frame(s) \/ Elapse(s)
  \/ Expire(s) \/ PeerEnds(s) \/ Break(s)

SocketsNext ==
  \/ \E s \in Clients : Handler(s)
  \/ Schedule \/ ScheduleStale
  \/ Revoke \/ TokenExpires \/ Deactivate \/ Restart

-----------------------------------------------------------------------------
Cast == [msg : BOOLEAN, to : SUBSET (Clients \cup {Ghost}), on : {"live", "stale"}]
Sending == [msg : BOOLEAN, to : SUBSET (Clients \cup {Ghost})]

SocketsTypeOK ==
  /\ access \in {"good", "revoked", "none"}
  /\ sock \in [Clients -> {"closed", "checked", "open", "broken"}]
  /\ window \in [Clients -> 0..Full]
  /\ conns \subseteq Clients \cup {Ghost}
  /\ loop \in {"none", "live", "stale"}
  /\ cast \in Cast \cup {NoCast}
  /\ sending \subseteq Sending

\* A client that is connected can be reached: it is registered, the loop that
\* broadcast() will use is the one its handler runs on, and whatever is
\* registered or being sent to is a running handler or a leftover of a stopped
\* loop (connect, disconnect, broadcast and _send_all, each under its own lock).
OpenSocketsReachable ==
  /\ \A s \in Clients : sock[s] = "open" => s \in conns /\ loop = "live"
  /\ \A s \in conns \ {Ghost} : Handled(s)

\* A client whose account is deactivated or whose tokens are revoked loses its
\* sockets for good, whatever it sends, even when its handshake was authenticated
\* before and although the blocklist fails open (H33, M93, M94).
DeadAccountLosesSocket ==
  <>[](access # "good" => \A s \in Clients : s \notin conns /\ sock[s] = "closed")
=============================================================================
