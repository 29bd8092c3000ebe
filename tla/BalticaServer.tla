---------------------------- MODULE BalticaServer ----------------------------
(***************************************************************************)
(* The server process: raknet Server with its table of connections, the    *)
(* handshake as a server session sees it, baltica Server with its table of *)
(* players and, when bridged, the Bridge and its BridgePlayers on top.     *)
(*                                                                         *)
(* Both tables are keyed by address:port, and so is the bridge's.  The     *)
(* events run through four emitters, all synchronous; an action does what  *)
(* all the listeners of its event do.                                      *)
(*                                                                         *)
(* What clients send is an input: a datagram that a raknet client can have *)
(* sent.  What comes through the reliable layer comes in order and once.   *)
(* raknet Server looks a datagram up once; receive() then hands on all the *)
(* payloads it completes, whatever the first of them do to the connection, *)
(* and the users' listeners run in between.                                *)
(*                                                                         *)
(* An error that a listener throws ends the process, but for those inside  *)
(* a packet's handler, which logs them and goes on: modelled for a kick.   *)
(* (In Bridge.disconnect it only keeps its tables and those of the server  *)
(* from being cleared, after the event.)                                   *)
(***************************************************************************)
EXTENDS Naturals, Sequences, FiniteSets

CONSTANTS
  Key,            \* address:port of the clients
  MaxConnections, \* options.maxConnections
  Bridges,        \* whether a Bridge is started on the server: the cases
                  \* considered
  MaxRequests,    \* bound: ConnectionRequests in a behaviour.  A connection has
                  \* a second when the network duplicates an OpenConnectionReply2
  Bound           \* bound: connections accepted in a behaviour

ASSUME FlagAssumption == Bridges \subseteq BOOLEAN
ASSUME BoundAssumption == MaxConnections \in Nat /\ MaxRequests \in Nat /\ Bound \in Nat

VARIABLES
  bridged,     \* whether a Bridge was started on the server
  connections, \* raknet Server: the Connection of a key, 0 for none
  conn,        \* the Connections that were ever made, with their sessions
  players,     \* baltica Server: the Player of a key, 0 for none
  player,      \* the Players that were ever made, with their BridgePlayers
  clients,     \* Bridge: the BridgePlayer of a key, 0 for none
  gone,        \* keys from which nothing comes any more
  receiving,   \* the Connection whose receive() is running, 0 for none
  late,        \* history: Connections of which an event came after they had
               \* been taken off the table
  cut          \* history: Connections whose "disconnect" a listener cut short

vars == <<bridged, connections, conn, players, player, clients, gone, receiving, late, cut>>

Init ==
  /\ bridged \in Bridges
  /\ connections = [k \in Key |-> 0] /\ conn = <<>>
  /\ players = [k \in Key |-> 0] /\ player = <<>>
  /\ clients = [k \in Key |-> 0]
  /\ gone = {} /\ receiving = 0 /\ late = {} /\ cut = {}

-------------------------------------------------------------------------------
(* Listeners *)

\* Map.delete: by key, whatever is there
Deleted(table, keys) == [k \in Key |-> IF k \in keys THEN 0 ELSE table[k]]

KeysOf(ps) == {conn[player[p].conn].key : p \in ps}

\* baltica Server.onDisconnect takes the player off the table and reports it.
OnDisconnect_StaysListed(ps) == players
OnDisconnect(ps) == Deleted(players, KeysOf(ps))

Reports(n, p, ps) == IF p \in ps /\ n < 2 THEN n + 1 ELSE n

\* Bridge.disconnect reports the player too, sends the client of the backend a
\* packet and calls the server's onDisconnect.
BridgeDisconnect_NotReported(p, bs) == player[p].left
BridgeDisconnect(p, bs) == player[p].left \/ p \in bs

\* onDisconnect for the players ps, then Bridge.disconnect for bs.  A listener
\* touches the player it was registered for and deletes by its key, so those of
\* several players may run in any order.
Reported(made, ps, bs) ==
  [p \in DOMAIN made |-> [made[p] EXCEPT !.reports = Reports(Reports(@, p, ps), p, bs),
                                        !.left = BridgeDisconnect(p, bs)]]

Leave(made, ps, bs) ==
  /\ player' = Reported(made, ps, bs)
  /\ players' = OnDisconnect(ps \cup bs)
  /\ clients' = Deleted(clients, KeysOf(bs))

\* "disconnect" of Connections: raknet Server takes them off its table, by key,
\* then come the listeners of baltica Server and, of the players whose handshake
\* registered them, of the BridgePlayers.
EmitDisconnect_Kept(ids) == connections
EmitDisconnect(ids) == Deleted(connections, {conn[id].key : id \in ids})

\* Connection.disconnect writes the status as a number, 3.
Status_Two == "Disconnecting"
Status == "Disconnected"

Listed(id) == connections[conn[id].key] = id

Ended(ids) ==
  /\ conn' = [id \in DOMAIN conn |->
                IF id \in ids THEN [conn[id] EXCEPT !.status = Status] ELSE conn[id]]
  /\ connections' = EmitDisconnect(ids)
  /\ late' = late \cup {id \in ids : ~Listed(id)}

Drop(made, ids) ==
  LET ps == {p \in DOMAIN made : made[p].conn \in ids} IN
  /\ Ended(ids)
  /\ Leave(made, ps, {p \in ps : made[p].hooked})
  /\ UNCHANGED cut

-------------------------------------------------------------------------------
(* Datagrams *)

Open == {k \in Key : connections[k] # 0}

\* A datagram of the key of a listed connection goes to its session.
Hears(id) == receiving = 0 /\ Listed(id) /\ conn[id].key \notin gone

\* NetworkSession.receive of a frame set.  The payloads it completes come one by
\* one, without another look at the table.
Receive(id) ==
  /\ Hears(id)
  /\ receiving' = id
  /\ UNCHANGED <<connections, conn, players, player, clients, bridged, gone, late, cut>>

ReceiveEnds ==
  /\ receiving # 0
  /\ receiving' = 0
  /\ UNCHANGED <<connections, conn, players, player, clients, bridged, gone, late, cut>>

Full_OneMore == Cardinality(Open) > MaxConnections
Full == Cardinality(Open) >= MaxConnections

\* raknet Server.handleMessage: a new connection, whose session is not told
\* that it is connecting.
OpenConnectionRequest2_New(k) ==
  /\ receiving = 0 /\ k \notin gone /\ connections[k] = 0 /\ ~Full
  /\ Len(conn) < Bound
  /\ conn' = Append(conn, [key |-> k, status |-> "Disconnected", requests |-> 0, nics |-> 0])
  /\ connections' = [connections EXCEPT ![k] = Len(conn) + 1]
  /\ UNCHANGED <<players, player, clients, bridged, gone, receiving, late, cut>>

\* NetworkSession.handleServerOffline: the request was duplicated, or the
\* client was restarted on the same port.
OpenConnectionRequest2_Again(id) ==
  /\ Hears(id)
  /\ conn' = [conn EXCEPT ![id].status = "Connecting"]
  /\ UNCHANGED <<connections, players, player, clients, bridged, gone, receiving, late, cut>>

Requests == UNION {{id} \X (1..conn[id].requests) : id \in 1..Len(conn)}

\* A client sends a ConnectionRequest for each OpenConnectionReply2 it gets.
\* (That of a restarted client begins at sequence 0 again and is dropped as a
\* duplicate.)  The answer changes nothing but the output of the session.
ConnectionRequest(id) ==
  /\ receiving = id /\ Cardinality(Requests) < MaxRequests
  /\ conn' = [conn EXCEPT ![id].requests = @ + 1]
  /\ UNCHANGED <<connections, players, player, clients, bridged, gone, receiving, late, cut>>

\* A client sends one for each ConnectionRequestAccepted it gets.  "connect" of
\* the Connection: baltica Server tells the player it has under the same key,
\* lists a new one and the Bridge lists its BridgePlayer, also when a payload
\* before it has ended the connection.
NewIncomingConnection(id) ==
  LET new == Len(player) + 1 IN
  /\ receiving = id /\ conn[id].nics < conn[id].requests
  /\ conn' = [conn EXCEPT ![id].status = "Connected", ![id].nics = @ + 1]
  /\ player' = Append(player, [conn |-> id, isDisconnected |-> FALSE, reports |-> 0,
                               hooked |-> FALSE, inTime |-> FALSE, backend |-> "none",
                               left |-> FALSE])
  /\ players' = [players EXCEPT ![conn[id].key] = new]
  /\ clients' = [clients EXCEPT ![conn[id].key] = IF bridged THEN new ELSE @]
  /\ late' = late \cup {x \in {id} : ~Listed(x)}
  /\ UNCHANGED <<connections, bridged, gone, receiving, cut>>

DisconnectionNotification(id) ==
  /\ receiving = id /\ conn[id].requests > 0
  /\ Drop(player, {id})
  /\ UNCHANGED <<bridged, gone, receiving>>

\* NetworkSession.tick.  The timers of a session are never cleared: they run on
\* when its connection is off the table.
StaleTimeout(id) ==
  /\ receiving = 0 /\ conn[id].status = "Connected"
  /\ Drop(player, {id})
  /\ UNCHANGED <<bridged, gone, receiving>>

\* A peer that never had a connection and vanishes is one that sends nothing.
PeerGone(k) ==
  /\ receiving = 0 /\ k \notin gone /\ \E id \in 1..Len(conn) : conn[id].key = k
  /\ gone' = gone \cup {k}
  /\ UNCHANGED <<connections, conn, players, player, clients, bridged, receiving, late, cut>>

-------------------------------------------------------------------------------
(* Players and the bridge *)

\* Player.disconnect, by a user, in a listener or not, or by a checksum that does
\* not match.  isDisconnected is set here only: a connection that has ended in
\* another way ends once more.
PlayerDisconnect(p) ==
  /\ ~player[p].isDisconnected
  /\ Drop([player EXCEPT ![p].isDisconnected = TRUE], {player[p].conn})
  /\ UNCHANGED <<bridged, gone, receiving>>

\* The same in a packet's listener, when a listener of "disconnect" throws:
\* those after it do not run, and handlePacket goes on.
PlayerDisconnectThrows(p) ==
  LET id == player[p].conn
      ps == {q \in 1..Len(player) : player[q].conn = id} IN
  /\ receiving = id /\ ~player[p].isDisconnected
  /\ Ended({id})
  /\ \E last \in 0..Len(player) :
       LET told == {q \in ps : q <= last}
           bs == {q \in told : player[q].hooked} IN
         /\ player' = Reported([player EXCEPT ![p].isDisconnected = TRUE], told, bs)
         /\ players' \in {players, OnDisconnect(told)}
         /\ clients' \in {clients, Deleted(clients, KeysOf(bs))}
  /\ cut' = cut \cup {id}
  /\ UNCHANGED <<bridged, gone, receiving>>

\* raknet Server.stop: every connection is dropped.  The table is empty then,
\* and clearing it changes nothing.
Stop ==
  /\ gone # Key
  /\ Drop(player, {id \in 1..Len(conn) : Listed(id)})
  /\ gone' = Key
  /\ UNCHANGED <<bridged, receiving>>

\* BridgePlayer.onHandshake: hook up and start the client of the backend,
\* without a look at what the connection has become.
ClientToServerHandshake(p) ==
  /\ bridged /\ receiving = player[p].conn /\ ~player[p].hooked
  /\ player' = [player EXCEPT ![p].hooked = TRUE, ![p].backend = "connecting",
                              ![p].inTime = conn[player[p].conn].status # "Disconnected"]
  /\ UNCHANGED <<connections, conn, players, clients, bridged, gone, receiving, late, cut>>

\* PlayStatus LoginSuccess: packets are routed from now on.
BackendLogin(p) ==
  /\ receiving = 0 /\ player[p].backend = "connecting"
  /\ player' = [player EXCEPT ![p].backend = "routing"]
  /\ UNCHANGED <<connections, conn, players, clients, bridged, gone, receiving, late, cut>>

\* A DisconnectPacket of either side, or the end of the raknet client.
BackendDisconnect(p) ==
  /\ player[p].backend \in {"connecting", "routing"}
  /\ \E after \in {player[p].backend, "closed"} :
       Leave([player EXCEPT ![p].backend = after], {}, {p})
  /\ UNCHANGED <<connections, conn, bridged, gone, receiving, late, cut>>

-------------------------------------------------------------------------------
Next ==
  \/ \E k \in Key : OpenConnectionRequest2_New(k) \/ PeerGone(k)
  \/ \E id \in 1..Len(conn) :
       \/ OpenConnectionRequest2_Again(id) \/ Receive(id) \/ ConnectionRequest(id)
       \/ NewIncomingConnection(id) \/ DisconnectionNotification(id)
       \/ StaleTimeout(id)
  \/ \E p \in 1..Len(player) :
       \/ PlayerDisconnect(p) \/ PlayerDisconnectThrows(p) \/ ClientToServerHandshake(p)
       \/ BackendLogin(p) \/ BackendDisconnect(p)
  \/ ReceiveEnds \/ Stop

Spec == Init /\ [][Next]_vars

\* The keepalive timer of a session runs tick(), and when nothing comes any
\* more lastReceivedAt grows old.  The event loop has no timer wait for ever
\* behind datagrams, and a datagram has an end.
Fairness ==
  /\ \A id \in 1..Bound :
       SF_vars(id \in 1..Len(conn) /\ conn[id].key \in gone /\ StaleTimeout(id))
  /\ WF_vars(ReceiveEnds)

FairSpec == Spec /\ Fairness

-------------------------------------------------------------------------------
(* Properties *)

Table(S) == [Key -> S]

\* The types of the tables, and what their entries name.
TypeOK ==
  /\ connections \in Table(0..Len(conn))
  /\ conn \in Seq([key : Key, status : {"Disconnected", "Connecting", "Connected"},
                   requests : Nat, nics : Nat])
  /\ players \in Table(0..Len(player)) /\ clients \in Table(0..Len(player))
  /\ player \in Seq([conn : 1..Len(conn), isDisconnected : BOOLEAN, reports : 0..2,
                     hooked : BOOLEAN, inTime : BOOLEAN, left : BOOLEAN,
                     backend : {"none", "connecting", "routing", "closed"}])
  /\ gone \subseteq Key /\ bridged \in BOOLEAN /\ receiving \in 0..Len(conn)
  /\ late \subseteq 1..Len(conn) /\ cut \subseteq 1..Len(conn)

\* The server never has more connections than maxConnections, and no key has
\* the connection of another, whatever is deleted late.
CapacityRespected ==
  /\ Cardinality(Open) <= MaxConnections
  /\ \A k \in Open : conn[connections[k]].key = k

\* Deleting is by key: what comes late from one connection of a key may hit the
\* next one, and what is cut short leaves the players of the key behind.
Astray(k) == \E id \in late \cup cut : conn[id].key = k

\* The two tables keep step through connects, restarts, kicks and timeouts, as
\* long as no connection of the key had an event after it was taken off the
\* table (a kick of a player that left, or a payload behind the one that ended
\* it) and none was cut short: each player of the server is on the connection
\* that raknet has for the key, and a connection that completed its handshake
\* has its player.  (Under a bridge the end of the backend takes a player off
\* the server's table while its connection goes on.)  A connection that was
\* taken off the table is Disconnected: its timers are never cleared, so only
\* its status keeps it from sending.
TablesInStep ==
  \A k \in Key : ~Astray(k) =>
    /\ players[k] # 0 => connections[k] = player[players[k]].conn
    /\ ~bridged /\ connections[k] # 0 /\ conn[connections[k]].nics > 0 => players[k] # 0
    /\ \A id \in 1..Len(conn) :
         conn[id].key = k => Listed(id) \/ conn[id].status = "Disconnected"

\* The "disconnect" event of the server reports every player whose connection
\* has ended, unless a listener cut it short, and none twice or while its
\* connection goes on, unless its connection had an event after it had ended.
\* (Under a bridge it fires again, from Bridge.disconnect.)
LeavesOnce ==
  ~bridged => \A p \in 1..Len(player) :
    LET id == player[p].conn
        ended == conn[id].status = "Disconnected" IN
    /\ ended /\ id \notin cut => player[p].reports > 0
    /\ id \notin late \cup cut => player[p].reports = IF ended THEN 1 ELSE 0

\* A connected session whose peer has gone is dropped in the end, also one that
\* is off the table, and the place of its key is free again.
SilentPeerDropped ==
  \A id \in 1..Bound :
    (id \in 1..Len(conn) /\ conn[id].status = "Connected" /\ conn[id].key \in gone)
      ~> (id \in 1..Len(conn) /\ conn[id].status = "Disconnected" /\ ~Listed(id))

\* A player that finished the handshake on a connection that was still there is
\* reported by the bridge when the connection ends, unless a listener cut that
\* short.  (On one that had ended before, in the same receive(), it never is by
\* the end of the connection: the listeners come too late.)
HookedLeaveReported ==
  \A p \in 1..Len(player) :
    LET id == player[p].conn IN
    player[p].inTime /\ id \notin cut /\ conn[id].status = "Disconnected" => player[p].left
===============================================================================
