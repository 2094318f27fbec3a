------------------------- MODULE WebSocketServer --------------------------
(***************************************************************************)
(* The WebSocket connections of app/api/websocket_server.py and the        *)
(* endpoints of app/api/server.py that serve them.  Everything runs on one *)
(* event loop: what lies between two awaits is one action.  The tasks are  *)
(* the endpoint and the heartbeat of each connection, and the one that     *)
(* broadcasts the health metrics.  All clients have one address.           *)
(*                                                                         *)
(* A message that cannot be sent is queued under the connection's queue    *)
(* lock; drain_queue() holds that lock while it sends.                     *)
(***************************************************************************)
EXTENDS Naturals, FiniteSets

CONSTANTS NConns,       \* connections attempted, numbered as they come
          MaxPerIp      \* max_connections_per_ip

Conns == 1 .. NConns

ASSUME WsAssumption == NConns \in Nat /\ MaxPerIp \in Nat \ {0}

VARIABLES
  endpoint,     \* where the endpoint's task is
  peer,         \* is the client still there?
  linked,       \* do both states of the websocket say CONNECTED?
  closed,       \* _closed
  closing,      \* connections whose close() is under way
  pinging,      \* connections whose heartbeat task runs
  registered,   \* the manager's _connections, and _connections_by_ip
  toTell,       \* connections the broadcast under way has yet to send to
  hung,         \* broadcast task waits for the queue lock of a connection
  attempts,     \* a client has been counted while another was being accepted
  down          \* the server shuts down

wsVars == <<endpoint, peer, linked, closed, closing, pinging, registered, toTell, hung,
            attempts, down>>

WsInit ==
  /\ endpoint = [c \in Conns |-> "idle"]
  /\ peer = [c \in Conns |-> TRUE]
  /\ linked = [c \in Conns |-> FALSE]
  /\ closed = [c \in Conns |-> FALSE]
  /\ closing = {}
  /\ pinging = {}
  /\ registered = {}
  /\ toTell = {}
  /\ hung = FALSE
  /\ attempts = "apart"
  /\ down = FALSE

IsConnected(c) == ~closed[c] /\ linked[c]

\* The endpoint is in drain_queue(), in a send that failed and wants the lock again.
Stuck(c) == endpoint[c] = "stuck"

Pending == {c \in Conns : endpoint[c] = "counted"}
WsGoesTo(c, place) == endpoint' = [endpoint EXCEPT ![c] = place]

-----------------------------------------------------------------------------
(* WebSocketManager.connect *)

\* Variant of WsCount: one connection too many is let in.
WsCountLoose(c) ==
  /\ endpoint[c] = "idle"
  /\ c > 1 => endpoint[c - 1] # "idle"
  /\ ~down
  /\ WsGoesTo(c, IF Cardinality(registered) > MaxPerIp THEN "refused" ELSE "counted")
  /\ attempts' = IF Pending = {} THEN attempts ELSE "overlapped"
  /\ UNCHANGED <<peer, linked, closed, closing, pinging, registered, toTell, hung, down>>

\* The connections of the address are counted with the manager's lock.
WsCount(c) ==
  /\ endpoint[c] = "idle"
  /\ c > 1 => endpoint[c - 1] # "idle"
  /\ ~down
  /\ WsGoesTo(c, IF Cardinality(registered) >= MaxPerIp THEN "refused" ELSE "counted")
  /\ attempts' = IF Pending = {} THEN attempts ELSE "overlapped"
  /\ UNCHANGED <<peer, linked, closed, closing, pinging, registered, toTell, hung, down>>

\* accept() has returned: the connection is registered and its heartbeat started.
WsRegister(c) ==
  /\ endpoint[c] = "counted"
  /\ linked' = [linked EXCEPT ![c] = TRUE]
  /\ registered' = registered \cup {c}
  /\ pinging' = pinging \cup {c}
  /\ WsGoesTo(c, "greeting")
  /\ UNCHANGED <<peer, closed, closing, toTell, hung, attempts, down>>

\* accept() fails, when the client has gone meanwhile.
WsAcceptFails(c) ==
  /\ endpoint[c] = "counted"
  /\ ~peer[c]
  /\ WsGoesTo(c, "ended")
  /\ UNCHANGED <<peer, linked, closed, closing, pinging, registered, toTell, hung, attempts,
                 down>>

-----------------------------------------------------------------------------
(* The endpoint *)

\* A send that fails may leave the websocket's states as they are, or not if the client
\* has gone.
SendFails(c) == \/ UNCHANGED linked
                \/ ~peer[c] /\ linked' = [linked EXCEPT ![c] = FALSE]

\* The initial state and the settings are sent.  With nothing queued there is nothing to
\* drain.
WsGreets(c) ==
  /\ endpoint[c] = "greeting"
  /\ \/ IsConnected(c) /\ WsGoesTo(c, "serving") /\ UNCHANGED linked
     \/ WsGoesTo(c, "draining") /\ SendFails(c)
  /\ UNCHANGED <<peer, closed, closing, pinging, registered, toTell, hung, attempts, down>>

\* drain_queue() sends what was queued.  A send that fails waits for the lock that
\* drain_queue() itself holds.
WsDrains(c) ==
  /\ endpoint[c] = "draining"
  /\ \/ WsGoesTo(c, "serving") /\ UNCHANGED linked
     \/ IsConnected(c) /\ WsGoesTo(c, "stuck") /\ SendFails(c)
  /\ UNCHANGED <<peer, closed, closing, pinging, registered, toTell, hung, attempts, down>>

\* The client has gone: receive_json() raises WebSocketDisconnect.
WsReceivesDisconnect(c) ==
  /\ endpoint[c] = "serving"
  /\ ~peer[c]
  /\ linked' = [linked EXCEPT ![c] = FALSE]
  /\ WsGoesTo(c, "leaving")
  /\ UNCHANGED <<peer, closed, closing, pinging, registered, toTell, hung, attempts, down>>

\* The loop condition, or no pong for heartbeat_timeout.
WsLeaves(c) ==
  /\ endpoint[c] = "serving"
  /\ ~IsConnected(c) \/ ~peer[c]
  /\ WsGoesTo(c, "leaving")
  /\ UNCHANGED <<peer, linked, closed, closing, pinging, registered, toTell, hung, attempts,
                 down>>

-----------------------------------------------------------------------------
(* WebSocketConnection.close, by whichever task comes first *)

\* Variant of WsEndpointCloses: the endpoint returns without closing.
WsEndpointReturns(c) ==
  /\ endpoint[c] = "leaving"
  /\ WsGoesTo(c, "ended")
  /\ UNCHANGED <<peer, linked, closed, closing, pinging, registered, toTell, hung, attempts,
                 down>>

\* Variant of CloseBegins: the heartbeat is not cancelled.
CloseBeginsBeating(c) ==
  /\ closed' = [closed EXCEPT ![c] = TRUE]
  /\ closing' = closing \cup {c}
  /\ UNCHANGED pinging

\* close(): marked, and the heartbeat is cancelled.
CloseBegins(c) ==
  /\ closed' = [closed EXCEPT ![c] = TRUE]
  /\ closing' = closing \cup {c}
  /\ pinging' = pinging \ {c}

\* The finally block of the endpoint.
WsEndpointCloses(c) ==
  /\ endpoint[c] = "leaving"
  /\ IF closed[c] THEN UNCHANGED <<closed, closing, pinging>> ELSE CloseBegins(c)
  /\ WsGoesTo(c, "ended")
  /\ UNCHANGED <<peer, linked, registered, toTell, hung, attempts, down>>

\* _on_disconnect has the manager's lock, and the websocket is closed.
WsCloseEnds(c) ==
  /\ c \in closing
  /\ closing' = closing \ {c}
  /\ registered' = registered \ {c}
  /\ linked' = [linked EXCEPT ![c] = FALSE]
  /\ UNCHANGED <<endpoint, peer, closed, pinging, toTell, hung, attempts, down>>

WsShutdown ==
  /\ ~down
  /\ down' = TRUE
  /\ UNCHANGED <<endpoint, peer, linked, closed, closing, pinging, registered, toTell, hung,
                 attempts>>

\* disconnect_all()
WsDisconnect(c) ==
  /\ down
  /\ c \in registered /\ ~closed[c]
  /\ CloseBegins(c)
  /\ UNCHANGED <<endpoint, peer, linked, registered, toTell, hung, attempts, down>>

-----------------------------------------------------------------------------
(* The heartbeat task of a connection, each time its interval is over *)

\* A connection that is no longer connected is left to its endpoint.
WsHeartEnds(c) ==
  /\ c \in pinging
  /\ ~IsConnected(c)
  /\ pinging' = pinging \ {c}
  /\ UNCHANGED <<endpoint, peer, linked, closed, closing, registered, toTell, hung, attempts,
                 down>>

\* No pong for heartbeat_timeout: the client has gone, or the endpoint does not read.
WsHeartCloses(c) ==
  /\ c \in pinging
  /\ IsConnected(c)
  /\ ~peer[c] \/ Stuck(c)
  /\ CloseBegins(c)
  /\ UNCHANGED <<endpoint, peer, linked, registered, toTell, hung, attempts, down>>

\* The ping fails: its task waits for the queue lock, for ever if drain_queue() has it.
WsPingFails(c) ==
  /\ c \in pinging
  /\ IsConnected(c) /\ ~peer[c]
  /\ SendFails(c)
  /\ pinging' = IF Stuck(c) THEN pinging \ {c} ELSE pinging
  /\ UNCHANGED <<endpoint, peer, closed, closing, registered, toTell, hung, attempts, down>>

-----------------------------------------------------------------------------
(* _broadcast_health_metrics, every five seconds *)

WsBroadcast ==
  /\ toTell = {} /\ ~hung /\ ~down
  /\ registered # {}
  /\ toTell' = registered
  /\ UNCHANGED <<endpoint, peer, linked, closed, closing, pinging, registered, hung, attempts,
                 down>>

\* Variant of WsTells: a connection that is down is passed over, but not left behind.
WsTellsConnected(c) ==
  /\ c \in toTell /\ ~hung
  /\ IF IsConnected(c)
     THEN toTell' = toTell \ {c} /\ (UNCHANGED linked \/ SendFails(c))
     ELSE UNCHANGED <<toTell, linked>>
  /\ UNCHANGED <<endpoint, peer, closed, closing, pinging, registered, hung, attempts, down>>

\* The message is sent; or it is queued, if the connection is down or the send fails.
WsTells(c) ==
  /\ c \in toTell /\ ~hung
  /\ \/ IsConnected(c) /\ UNCHANGED <<linked, hung>>
     \/ /\ IF IsConnected(c) THEN SendFails(c) ELSE UNCHANGED linked
        /\ hung' = Stuck(c)
  /\ toTell' = toTell \ {c}
  /\ UNCHANGED <<endpoint, peer, closed, closing, pinging, registered, attempts, down>>

WsPeerGoes(c) ==
  /\ peer[c] /\ endpoint[c] \notin {"idle", "refused"}
  /\ peer' = [peer EXCEPT ![c] = FALSE]
  /\ UNCHANGED <<endpoint, linked, closed, closing, pinging, registered, toTell, hung, attempts,
                 down>>

-----------------------------------------------------------------------------
WsEndpointStep(c) ==
  \/ WsRegister(c) \/ WsAcceptFails(c) \/ WsGreets(c) \/ WsDrains(c)
  \/ WsReceivesDisconnect(c) \/ WsLeaves(c) \/ WsEndpointCloses(c)
WsHeartStep(c) == WsHeartEnds(c) \/ WsHeartCloses(c) \/ WsPingFails(c)

WsNext ==
  \/ \E c \in Conns :
       \/ WsCount(c) \/ WsEndpointStep(c) \/ WsHeartStep(c) \/ WsCloseEnds(c)
       \/ WsDisconnect(c) \/ WsTells(c) \/ WsPeerGoes(c)
  \/ WsBroadcast
  \/ WsShutdown

WsSpec == WsInit /\ [][WsNext]_wsVars

\* The event loop runs every task that is ready, and timers fire.  Nothing makes a client
\* go away, and the server need not shut down.
WsFairness ==
  /\ \A c \in Conns : /\ WF_wsVars(WsEndpointStep(c))
                      /\ WF_wsVars(WsHeartStep(c))
                      /\ WF_wsVars(WsCloseEnds(c))
                      /\ WF_wsVars(WsTells(c))
  /\ WF_wsVars(WsBroadcast)

WsFairSpec == WsSpec /\ WsFairness

-----------------------------------------------------------------------------
(* Properties *)

\* Types of the connections' state; a connection that was closed has no heartbeat.
WsTypeOK ==
  /\ endpoint \in [Conns -> {"idle", "counted", "refused", "greeting", "draining", "stuck",
                             "serving", "leaving", "ended"}]
  /\ peer \in [Conns -> BOOLEAN]
  /\ linked \in [Conns -> BOOLEAN]
  /\ closed \in [Conns -> BOOLEAN]
  /\ closing \subseteq Conns
  /\ pinging \subseteq {c \in Conns : ~closed[c]}
  /\ registered \subseteq Conns
  /\ toTell \subseteq Conns
  /\ hung \in BOOLEAN
  /\ attempts \in {"apart", "overlapped"}
  /\ down \in BOOLEAN

\* If no client was counted while another was being accepted, the limit per address holds.
LimitHolds == attempts = "apart" => Cardinality(registered \cup Pending) <= MaxPerIp

\* What the manager has registered is a connection some task will still close: its
\* endpoint, its heartbeat, or a close() under way; or its endpoint is stuck.
RegisteredIsWatched ==
  \A c \in registered : \/ endpoint[c] \in {"greeting", "draining", "serving", "leaving"}
                        \/ c \in closing
                        \/ Stuck(c)

\* A client that goes away is unregistered, unless its endpoint is stuck in drain_queue().
GoneLeaves ==
  \A c \in Conns : []<>(peer[c] \/ c \notin registered \/ Stuck(c))

\* A broadcast gets to its end, unless some endpoint is stuck in drain_queue(): one
\* connection may then keep the health metrics from all.
BroadcastEnds == []<>(toTell = {} \/ \E c \in Conns : Stuck(c))

\* The connections keep to the limit, and none is registered that nobody will close.
WsInv == WsTypeOK /\ LimitHolds /\ RegisteredIsWatched
=============================================================================
