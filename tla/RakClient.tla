------------------------------- MODULE RakClient -------------------------------
(***************************************************************************)
(* The life of one raknet Client: binding (direct or through a SOCKS5      *)
(* relay), the offline handshake with its retries, the timers of its       *)
(* NetworkSession, and every way it ends.                                  *)
(*                                                                         *)
(* Handlers are synchronous and call one another through emitters, so each *)
(* is an operator from the state of the process to the state after it, and *)
(* an action applies the handlers one event runs in the order it runs them.*)
(* Only an await, a timer and an incoming datagram begin a new action.     *)
(*                                                                         *)
(* Time is abstracted: a timer that is armed may fire at any moment.  The  *)
(* reliability layer is reduced to whether some frame set is unacked.      *)
(***************************************************************************)
EXTENDS Naturals

CONSTANTS
  Proxies,       \* whether options.proxy is given: the cases considered
  EarlyClose,    \* the user may close before the socket is bound
  MaxRetransmit, \* options.maxRetransmit, 3 by default
  MaxRequests    \* bound: ConnectionRequests sent in a behaviour

ASSUME FlagAssumption == Proxies \subseteq BOOLEAN /\ EarlyClose \in BOOLEAN
ASSUME BoundAssumption == MaxRetransmit \in Nat \ {0} /\ MaxRequests \in Nat

VARIABLES
  c,     \* the Client and its NetworkSession
  silent \* nothing from the server arrives any more

vars == <<c, silent>>

SessionTimers == {"keepalive", "retransmit", "ack"}

Init ==
  /\ \E proxy \in Proxies :
     c = [proxy |-> proxy,
          \* Client: the progress of bindPromise, the native handles in use
          init |-> "none", handles |-> {}, closed |-> FALSE,
          \* the promises of connect() and ping()
          connect |-> "idle", ping |-> "idle",
          \* the timeouts that are armed, and the two handles the code tests
          timers |-> {"keepalive"}, retransmitTimer |-> FALSE, ackTimer |-> FALSE,
          \* NetworkSession; the attempts of offlineRetry, 0 when it is null
          status |-> "Disconnected", send |-> "unset", retry |-> 0,
          unacked |-> FALSE, listening |-> {"constructor"},
          \* history: requests on the wire, what the user was told and did
          asked |-> {}, requests |-> 0, accepted |-> 0, told |-> {}, left |-> FALSE]
  /\ silent = FALSE

-------------------------------------------------------------------------------
(* Client.close and the listeners on the session *)

Released_NotTheSocket(x) == IF x.proxy THEN {} ELSE x.handles
Released(x) == IF x.init \in {"binding", "bound"} THEN {} ELSE x.handles

Close_AllTimers(x) ==
  IF x.closed THEN x
  ELSE [x EXCEPT !.closed = TRUE, !.status = "Disconnected", !.send = "noop",
                 !.timers = {}, !.listening = {}, !.handles = Released(x)]
Close(x) ==
  IF x.closed THEN x
  ELSE [x EXCEPT !.closed = TRUE, !.status = "Disconnected", !.send = "noop",
                 !.timers = @ \ SessionTimers, !.listening = {},
                 !.handles = Released(x)]

Tell(x, event) ==
  IF "constructor" \in x.listening THEN [x EXCEPT !.told = @ \cup {event}] ELSE x

\* cleanup() of connect(), then resolve or reject
Settle_TimerKept(x, outcome) ==
  [x EXCEPT !.connect = IF @ = "waiting" THEN outcome ELSE @,
            !.listening = @ \ {"connect"}]
Settle(x, outcome) ==
  [x EXCEPT !.connect = IF @ = "waiting" THEN outcome ELSE @,
            !.listening = @ \ {"connect"}, !.timers = @ \ {"connect"}]

EmitConnect(x) ==
  IF "connect" \in x.listening THEN Settle(Tell(x, "connect"), "resolved")
  ELSE Tell(x, "connect")

EmitDisconnect_NotClosed(x) == Tell(x, "disconnect")
EmitDisconnect(x) ==
  IF "constructor" \in x.listening THEN Close(Tell(x, "disconnect")) ELSE x

\* The emitter goes on through the listeners it started with: connect()'s
\* onError runs although close() has removed it.
EmitError(x) ==
  IF x.listening \cap {"constructor", "connect"} = {} THEN x
  ELSE LET y == Close(Tell(x, "error")) IN
       IF "connect" \in x.listening THEN Settle(y, "rejected") ELSE y

-------------------------------------------------------------------------------
(* NetworkSession *)

Fire(x, timer) == [x EXCEPT !.timers = @ \ {timer}]

\* The handle is not cleared when the timeout fires, only by clearOfflineRetry
\* and onAck.
ArmIfNone(x) ==
  IF x.retransmitTimer THEN x
  ELSE [x EXCEPT !.retransmitTimer = TRUE, !.timers = @ \cup {"retransmit"}]

Rearm(x) == [x EXCEPT !.retransmitTimer = TRUE, !.timers = @ \cup {"retransmit"}]
Disarm(x) == [x EXCEPT !.retransmitTimer = FALSE, !.timers = @ \ {"retransmit"}]

SendOfflineWithRetry(x, request) ==
  ArmIfNone([x EXCEPT !.retry = 1,
                      !.asked = IF "udp" \in x.handles THEN @ \cup {request} ELSE @])

ClearOfflineRetry(x) == Disarm([x EXCEPT !.retry = 0])

\* frameAndSend with Priority.High; flush returns early while send is unset.
FrameAndSend(x) ==
  IF x.send = "unset" THEN x ELSE ArmIfNone([x EXCEPT !.unacked = TRUE])

StartKeepalive(x) == [x EXCEPT !.timers = @ \cup {"keepalive"}]

GivesUp(x) == x.retry >= MaxRetransmit

\* "stale": nothing was received for staleTimeout.  "due": the retry interval
\* of the pending offline request is over.
Tick(x, stale, due) ==
  IF x.status = "Disconnected" \/ x.send = "unset" THEN x
  ELSE IF stale /\ x.status = "Connected"
       THEN EmitDisconnect([x EXCEPT !.status = "Disconnected"])
  ELSE IF due /\ x.retry > 0
       THEN IF GivesUp(x)
            THEN EmitError([x EXCEPT !.retry = 0, !.status = "Disconnected"])
            ELSE Rearm([x EXCEPT !.retry = @ + 1])
  ELSE IF x.unacked THEN Rearm(x) ELSE x

KeepaliveTick(stale, due) ==
  /\ "keepalive" \in c.timers
  /\ c' = StartKeepalive(Tick(Fire(c, "keepalive"), stale, due))
  /\ UNCHANGED silent

RetransmitTick(stale, due) ==
  /\ "retransmit" \in c.timers
  /\ c' = Tick(Fire(c, "retransmit"), stale, due)
  /\ UNCHANGED silent

AckTick(stale, due) ==
  /\ "ack" \in c.timers
  /\ c' = Tick([Fire(c, "ack") EXCEPT !.ackTimer = FALSE], stale, due)
  /\ UNCHANGED silent

-------------------------------------------------------------------------------
(* Binding *)

EnsureBound(x) == IF x.init = "none" THEN [x EXCEPT !.init = "lookup"] ELSE x

Goto(stage, handles) == [c EXCEPT !.init = stage, !.handles = handles]

\* a failure before the socket is assigned: what createSocks5Relay holds is
\* released there, then the catch of ensureBound closes the client
AfterFailure_KeepsTcp(handles) == handles \ {"udp"}
AfterFailure(handles) == {}

InitFails == c' = Close(Goto("failed", AfterFailure(c.handles)))

Lookup ==
  /\ c.init = "lookup"
  /\ \/ c.proxy /\ c' = Goto("connecting", {"tcp"})
     \/ /\ ~c.proxy
        /\ \E stage \in {"binding", "bound"} :
             c' = [Goto(stage, {"udp"}) EXCEPT !.send = "real"]
     \/ InitFails
  /\ UNCHANGED silent

Listening ==
  /\ c.init = "binding" /\ "udp" \in c.handles
  /\ c' = Goto("bound", c.handles)
  /\ UNCHANGED silent

\* createSocks5Relay: tcpConnect, authenticate, udpAssociate, bind
ProxyStep ==
  /\ \/ /\ c.init = "connecting"
        /\ c' = Goto("authenticating", {"tcp"})
     \/ /\ c.init = "authenticating" /\ "tcp" \in c.handles
        /\ c' = Goto("associating", {"tcp"})
     \/ /\ c.init = "associating" /\ "tcp" \in c.handles
        /\ c' = Goto("relaying", {"tcp", "udp"})
     \/ /\ c.init = "relaying"
        /\ c' = [Goto("bound", c.handles) EXCEPT !.send = "real"]
  /\ UNCHANGED silent

ProxyFails ==
  /\ c.init \in {"connecting", "authenticating", "associating", "relaying"}
  /\ c.init \in {"authenticating", "associating"} => "tcp" \in c.handles
  /\ InitFails
  /\ UNCHANGED silent

\* The listener for "close" is there once the relay is bound; before that
\* the end of the connection goes unnoticed.
ProxyHangsUp ==
  /\ "tcp" \in c.handles /\ c.init # "connecting"
  /\ c' = [c EXCEPT !.handles = IF c.init = "bound" THEN {} ELSE @ \ {"tcp"}]
  /\ silent' = (silent \/ c.init = "bound")

-------------------------------------------------------------------------------
(* The user *)

Connect ==
  /\ c.connect = "idle"
  /\ c' = EnsureBound([c EXCEPT !.connect = "binding"])
  /\ UNCHANGED silent

\* connect() after its await
ConnectGoesOn ==
  /\ c.connect = "binding"
  /\ \/ /\ c.init = "bound"
        /\ c' = SendOfflineWithRetry(
                  [c EXCEPT !.connect = "waiting", !.timers = @ \cup {"connect"},
                            !.listening = @ \cup {"connect"}], "request1")
     \/ /\ c.init = "failed"
        /\ c' = [c EXCEPT !.connect = "rejected"]
  /\ UNCHANGED silent

ConnectTimeout ==
  /\ "connect" \in c.timers
  /\ c' = Close([Settle(Fire(c, "connect"), "rejected") EXCEPT !.status = "Disconnected"])
  /\ UNCHANGED silent

Ping ==
  /\ c.ping = "idle"
  /\ c' = EnsureBound([c EXCEPT !.ping = "binding"])
  /\ UNCHANGED silent

\* ping() after its await; the send throws when the socket is closed, but a
\* relay that is gone swallows it.
PingGoesOn ==
  /\ c.ping = "binding"
  /\ \/ /\ c.init = "bound" /\ c.handles # {}
        /\ c' = [c EXCEPT !.ping = "waiting", !.listening = @ \cup {"ping"},
                          !.asked = @ \cup {"ping"}]
     \/ /\ c.init = "bound" /\ c.handles = {}
        /\ c' = [c EXCEPT !.ping = IF c.closed THEN "rejected" ELSE "waiting",
                          !.listening = @ \cup {"ping"}]
     \/ /\ c.init = "failed"
        /\ c' = [c EXCEPT !.ping = "rejected"]
  /\ UNCHANGED silent

MayLeave == EarlyClose \/ c.init \in {"bound", "failed"}

UserCloses ==
  /\ MayLeave /\ ~c.closed
  /\ c' = Close([c EXCEPT !.left = TRUE])
  /\ UNCHANGED silent

UserDisconnects ==
  /\ MayLeave /\ ~c.left
  /\ c' = [FrameAndSend(c) EXCEPT !.left = TRUE, !.timers = @ \cup {"disconnect"}]
  /\ UNCHANGED silent

DisconnectTimer ==
  /\ "disconnect" \in c.timers
  /\ c' = [Close(Fire(c, "disconnect")) EXCEPT !.told = @ \cup {"disconnect"}]
  /\ UNCHANGED silent

-------------------------------------------------------------------------------
(* Datagrams from the server.  A reply may come late and more than once. *)

Hears == c.init = "bound" /\ "udp" \in c.handles /\ ~silent

Pong ==
  /\ Hears /\ "ping" \in c.asked
  /\ LET x == ClearOfflineRetry(c) IN
     c' = IF "ping" \in x.listening
          THEN [x EXCEPT !.ping = "answered", !.listening = @ \ {"ping"}] ELSE x
  /\ UNCHANGED silent

Reply1 ==
  /\ Hears /\ "request1" \in c.asked
  /\ c' = SendOfflineWithRetry(ClearOfflineRetry(c), "request2")
  /\ UNCHANGED silent

Reply2 ==
  /\ Hears /\ "request2" \in c.asked /\ c.requests < MaxRequests
  /\ c' = FrameAndSend([ClearOfflineRetry(c) EXCEPT !.status = "Connecting",
                                                    !.requests = @ + 1])
  /\ UNCHANGED silent

AlreadyConnected ==
  /\ Hears /\ c.asked \cap {"request1", "request2"} # {}
  /\ c' = EmitDisconnect([ClearOfflineRetry(c) EXCEPT !.status = "Disconnected"])
  /\ UNCHANGED silent

IncompatibleProtocolVersion ==
  /\ Hears /\ "request1" \in c.asked
  /\ c' = EmitError([ClearOfflineRetry(c) EXCEPT !.status = "Disconnected"])
  /\ UNCHANGED silent

\* the end of onFrameSet, after its frames were handled
ArmAck(x) ==
  IF x.ackTimer THEN x
  ELSE [x EXCEPT !.ackTimer = TRUE, !.timers = @ \cup {"ack"}]

\* Each ConnectionRequest is answered once: it comes through the ordered layer.
ConnectionRequestAccepted ==
  /\ Hears /\ c.accepted < c.requests
  /\ c' = ArmAck(EmitConnect([FrameAndSend(c) EXCEPT !.status = "Connected",
                                                     !.accepted = @ + 1]))
  /\ UNCHANGED silent

DisconnectionNotification ==
  /\ Hears /\ c.requests > 0
  /\ c' = ArmAck(EmitDisconnect([c EXCEPT !.status = "Disconnected"]))
  /\ UNCHANGED silent

GamePacket ==
  /\ Hears /\ c.accepted > 0
  /\ c' = ArmAck(c)
  /\ UNCHANGED silent

\* onAck, when it leaves nothing unacked
AckForAll ==
  /\ Hears /\ c.unacked
  /\ c' = Disarm([c EXCEPT !.unacked = FALSE])
  /\ UNCHANGED silent

ServerGoesSilent == ~silent /\ silent' = TRUE /\ UNCHANGED c

-------------------------------------------------------------------------------
Next ==
  \/ \E stale, due \in BOOLEAN :
       KeepaliveTick(stale, due) \/ RetransmitTick(stale, due) \/ AckTick(stale, due)
  \/ Lookup \/ Listening \/ ProxyStep \/ ProxyFails \/ ProxyHangsUp
  \/ Connect \/ ConnectGoesOn \/ ConnectTimeout \/ Ping \/ PingGoesOn
  \/ UserCloses \/ UserDisconnects \/ DisconnectTimer
  \/ Pong \/ Reply1 \/ Reply2 \/ AlreadyConnected \/ IncompatibleProtocolVersion
  \/ ConnectionRequestAccepted \/ DisconnectionNotification \/ GamePacket
  \/ AckForAll \/ ServerGoesSilent

Spec == Init /\ [][Next]_vars

\* The session's timers fire, each retry interval passes, and once the server
\* is silent staleTimeout does too.
TimerFairness ==
  /\ WF_vars(\E stale \in BOOLEAN : (silent => stale) /\ KeepaliveTick(stale, TRUE))
  /\ WF_vars(\E stale \in BOOLEAN : (silent => stale) /\ RetransmitTick(stale, TRUE))
  /\ WF_vars(DisconnectTimer)

\* DNS answers, sockets bind, promises continue, the timeout of connect() fires.
FairSpec ==
  /\ Spec /\ TimerFairness
  /\ WF_vars(Lookup) /\ WF_vars(Listening) /\ WF_vars(ConnectGoesOn)
  /\ WF_vars(ConnectTimeout)

\* options.timeout is the user's: here it is longer than the behaviour.
PatientSpec ==
  /\ Spec /\ TimerFairness
  /\ WF_vars(Lookup) /\ WF_vars(Listening) /\ WF_vars(ConnectGoesOn)

-------------------------------------------------------------------------------
(* Properties *)

\* A client that was closed, by anything, a bindPromise that failed and a
\* connect() that was rejected leave no TCP or UDP handle of theirs open.
SocketReleased ==
  c.closed \/ c.init = "failed" \/ c.connect = "rejected" => c.handles = {}

\* After close() nothing brings the client back: no late datagram and no timer
\* changes the status, opens a handle or reports a connection.
ClosedForGood ==
  [][c.closed => /\ c'.closed /\ c'.status = "Disconnected"
                 /\ c'.handles \subseteq c.handles
                 /\ "connect" \in c'.told => "connect" \in c.told]_vars

\* An established connection that ends without the user having asked for it is
\* reported to the user, whichever timer or datagram ended it.
LossReported ==
  "connect" \in c.told /\ c.status = "Disconnected" /\ ~c.left =>
    c.closed /\ c.told \cap {"disconnect", "error"} # {}

\* connect() settles.  (Without a proxy, and not closed before it is bound.)
ConnectSettles ==
  (~c.proxy /\ c.connect \in {"binding", "waiting"}) ~> c.connect \in {"resolved", "rejected"}

\* A connected client whose server falls silent closes in the end.
DeadPeerNoticed == (silent /\ c.status = "Connected") ~> c.closed

\* A closed client has no keepalive timer.
KeepaliveReleased == c.closed => "keepalive" \notin c.timers

\* An offline request that is never answered is given up after its retries,
\* however long the timeout of connect().
ExhaustionSurfaces == (silent /\ c.retry > 0) ~> (c.retry = 0 \/ c.closed)
===============================================================================
