----------------------------- MODULE BridgeRouting -----------------------------
(***************************************************************************)
(* One BridgePlayer: the player of the server on one side, the client of   *)
(* the backend on the other, and the packets that are routed between them. *)
(*                                                                         *)
(* Each end hands over what its peer sent in order and once                *)
(* (OrderedChannel), batch by batch: onEncapsulated unpacks a batch and    *)
(* calls handlePacket for each packet of it.  Nothing else runs in the     *)
(* process while it does, so a step here is one packet, and while a batch  *)
(* is under way only what a listener of the user calls happens besides.    *)
(* The packets are those that can be deserialized, and those of a type     *)
(* nobody knows.                                                           *)
(*                                                                         *)
(* How the client logs in is the business of Login, and the tables of the  *)
(* Bridge that of BalticaServer.                                           *)
(***************************************************************************)
EXTENDS Naturals, Sequences, SequencesExt, FiniteSetsExt

CONSTANTS
  Kinds,      \* what each side sends
  MaxPackets  \* bound: packets each side sends

Side == {"player", "backend"}

ASSUME KindAssumption ==
  /\ Kinds \in [Side -> SUBSET {"login", "status", "game", "disconnect", "unknown"}]
  /\ Kinds["player"] \cap {"login", "status"} = {}
ASSUME BoundAssumption == MaxPackets \in [Side -> Nat]

VARIABLES
  player,    \* its connection
  client,    \* the client of the backend
  listening, \* whether the listener for one PlayStatus is still to be called
  routing,   \* whether handlePacket of both ends is routePacket
  sent,      \* what each side has sent: the packets and where a batch ends
  handled,   \* how many of them were handled
  running,   \* the side whose batch is under way, "none"
  out,       \* of each side, which packets were sent on to the other
  told,      \* whether the bridge sent the backend a DisconnectPacket
  since,     \* history: the player's packets handled before they were routed
  cancelled, \* history: the packets that a listener cancelled
  threw,     \* history: the packets of which a listener threw
  missed     \* history: the player's packets, and 0 for its leaving, that the
             \* bridge's own listener was not called for

vars == <<player, client, listening, routing, sent, handled, running, out, told,
          since, cancelled, threw, missed>>

ends == <<player, client>>
login == <<listening, routing, since>>
verdicts == <<cancelled, threw, missed>>

Init ==
  /\ player = "here" /\ client = "none"
  /\ listening = FALSE /\ routing = FALSE /\ since = 0
  /\ sent = [d \in Side |-> <<>>] /\ handled = [d \in Side |-> 0]
  /\ running = "none"
  /\ out = [d \in Side |-> <<>>]
  /\ told = "no"
  /\ cancelled = [d \in Side |-> {}] /\ threw = [d \in Side |-> {}]
  /\ missed = {}

-------------------------------------------------------------------------------
(* The two ends *)

Idle == running = "none"

\* Bridge.disconnect tells the backend.  What the client sends before raknet
\* has connected, the backend gets before it knows the connection, or never.
BridgeDisconnect ==
  told' = CASE client = "connected" -> "yes"
            [] client = "connecting" /\ told = "no" -> "perhaps"
            [] OTHER -> told

\* BridgePlayer.onHandshake, also when the connection of the player ended
\* earlier in the same receive(): its own listeners come too late then.
OnHandshake ==
  /\ Idle /\ client = "none"
  /\ client' = "connecting" /\ listening' = TRUE
  /\ missed' = IF player = "here" THEN missed ELSE missed \cup {0}
  /\ UNCHANGED <<player, routing, since, sent, handled, running, out, told,
                 cancelled, threw>>

ClientConnects ==
  /\ Idle /\ client = "connecting"
  /\ client' = "connected"
  /\ UNCHANGED <<player, login, sent, handled, running, out, told, verdicts>>

\* "disconnect" of the client's raknet, which is closed by then.
ClientEnds ==
  /\ client \in {"connecting", "connected"}
  /\ client' = "ended"
  /\ UNCHANGED <<player, login, sent, handled, running, out, told, verdicts>>

\* An event of which a listener of the user throws that was added before the
\* bridge's own: emit stops there.
NotCalled(event) == told' = told /\ missed' = missed \cup {event}

\* "disconnect" of the player's connection; before onHandshake nobody listens.
HearsThePlayerLeave_Routed == routing
HearsThePlayerLeave == client # "none"

\* Its peer ends it, or the user does, in a listener of a packet if he likes.
PlayerLeaves ==
  /\ player = "here"
  /\ player' = "gone"
  /\ \/ /\ IF HearsThePlayerLeave THEN BridgeDisconnect ELSE told' = told
        /\ UNCHANGED missed
     \/ NotCalled(0)
  /\ UNCHANGED <<client, login, sent, handled, running, out, cancelled, threw>>

Open(d) == IF d = "player" THEN player = "here" ELSE client = "connected"

\* Either side sends a batch.  What the player sends before the handshake does
\* not concern the bridge.  What it sent behind that may come when its
\* connection has ended, in the payloads of one receive().
Batch(d, n) ==
  {[i \in 1..n |-> [kind |-> k[i], last |-> i = n]] : k \in [1..n -> Kinds[d]]}

Sends(d) ==
  /\ Idle /\ IF d = "player" THEN client # "none" ELSE client = "connected"
  /\ \E n \in 1..(MaxPackets[d] - Len(sent[d])) :
       \E b \in Batch(d, n) : sent' = [sent EXCEPT ![d] = @ \o b]
  /\ UNCHANGED <<ends, login, handled, running, out, told, verdicts>>

-------------------------------------------------------------------------------
(* onEncapsulated *)

Current(d) == handled[d] + 1

\* The ends of the batches of d that were not handled to the end.
BatchEnds(d) == {i \in Current(d)..Len(sent[d]) : sent[d][i].last}

\* A client that is closed has no listeners for what arrives, but a batch it has
\* begun it handles to the end; the connection of a player that is gone also
\* hands over what else the same receive() holds.
Turn(d) ==
  /\ running = d \/ (Idle /\ (d = "player" \/ client = "connected"))
  /\ BatchEnds(d) # {}

GoesOn(d) ==
  /\ handled' = [handled EXCEPT ![d] = @ + 1]
  /\ running' = IF sent[d][Current(d)].last THEN "none" ELSE d

\* Client.onEncapsulated catches an error for each packet, that of Player
\* around its loop.
Abandoned_OnlyThePacket(d) == Current(d)
Abandoned(d) == IF d = "player" THEN Min(BatchEnds(d)) ELSE Current(d)

BreaksOff(d) ==
  /\ handled' = [handled EXCEPT ![d] = Abandoned(d)]
  /\ running' = IF sent[d][Abandoned(d)].last THEN "none" ELSE d

\* handlePacket is looked up for each packet: when a packet replaces it, the
\* rest of its batch is routed.
Routed_FromTheNextBatch(d) == routing /\ (d = "backend" => Idle \/ out[d] # <<>>)
Routed(d) == routing

\* The listener for a PlayStatus is called once, whatever the status is.
OnPlayStatus(k) == listening /\ k = "login"

\* The bridge's own listener for a DisconnectPacket, of an end or of the routed
\* ones, added in onHandshake: behind those the user added when the bridge
\* announced the player, which may throw.
OwnListener(k) == IF k = "disconnect" THEN BridgeDisconnect ELSE told' = told

\* The own handlers of the two ends; they reach nobody on the other side.  The
\* client closes on a DisconnectPacket unless a listener of the bridge's
\* "disconnect" threw before.
HandlePacket(d) ==
  LET k == sent[d][Current(d)].kind IN
  /\ Turn(d) /\ ~Routed(d)
  /\ GoesOn(d)
  /\ IF k \in {"login", "status"}
       THEN /\ listening' = FALSE
            /\ routing' = (routing \/ OnPlayStatus(k))
            /\ since' = IF OnPlayStatus(k) THEN handled["player"] ELSE since
       ELSE UNCHANGED login
  /\ OwnListener(k)
  /\ client' \in (IF k = "disconnect" /\ d = "backend" THEN {"ended", client} ELSE {client})
  /\ UNCHANGED <<player, sent, out, verdicts>>

\* Player.handlePacket catches what a listener throws, of "packet" or of the
\* packet's own event.
HandleThrows ==
  /\ Turn("player") /\ ~routing
  /\ sent["player"][Current("player")].kind = "disconnect"
  /\ GoesOn("player")
  /\ NotCalled(Current("player"))
  /\ UNCHANGED <<ends, login, sent, out, cancelled, threw>>

Forwarded(d) ==
  IF Open(IF d = "player" THEN "backend" ELSE "player")
    THEN [out EXCEPT ![d] = Append(@, Current(d))] ELSE out

\* routePacket when no listener cancels, the packet modified or as it came.
RoutePacket(d) ==
  /\ Turn(d) /\ Routed(d)
  /\ OwnListener(sent[d][Current(d)].kind)
  /\ out' = Forwarded(d)
  /\ GoesOn(d)
  /\ UNCHANGED <<ends, login, sent, verdicts>>

\* Nobody can listen for a packet of an unknown type.
Heard(d) == sent[d][Current(d)].kind # "unknown"

RouteCancelled(d) ==
  /\ Turn(d) /\ Routed(d) /\ Heard(d)
  /\ OwnListener(sent[d][Current(d)].kind)
  /\ cancelled' = [cancelled EXCEPT ![d] = @ \cup {Current(d)}]
  /\ GoesOn(d)
  /\ UNCHANGED <<ends, login, sent, out, threw, missed>>

\* A listener throws, before the bridge's own or after it, or what it put in the
\* place of the packet cannot be serialized.
RouteThrows(d) ==
  /\ Turn(d) /\ Routed(d) /\ Heard(d)
  /\ \/ OwnListener(sent[d][Current(d)].kind) /\ UNCHANGED missed
     \/ d = "player" /\ NotCalled(Current(d))
     \/ d = "backend" /\ UNCHANGED <<told, missed>>
  /\ threw' = [threw EXCEPT ![d] = @ \cup {Current(d)}]
  /\ BreaksOff(d)
  /\ UNCHANGED <<ends, login, sent, out, cancelled>>

Next ==
  \/ OnHandshake \/ ClientConnects \/ ClientEnds \/ PlayerLeaves \/ HandleThrows
  \/ \E d \in Side :
       \/ Sends(d) \/ HandlePacket(d) \/ RoutePacket(d)
       \/ RouteCancelled(d) \/ RouteThrows(d)

Spec == Init /\ [][Next]_vars

-------------------------------------------------------------------------------
(* Properties *)

\* q holds S in ascending order, or the least of it.
Ascending(q) == \A i, j \in DOMAIN q : i < j => q[i] < q[j]
Lists(q, S) == Ascending(q) /\ Range(q) = S
Begins(q, S) ==
  /\ Ascending(q) /\ Range(q) \subseteq S
  /\ \A n \in S \ Range(q) : \A m \in Range(q) : m < n

\* The first PlayStatus of the backend comes before its packet i and says
\* LoginSuccess.
LoggedIn(i) ==
  \E f \in 1..(i - 1) :
    /\ sent["backend"][f].kind = "login"
    /\ \A g \in 1..(f - 1) : sent["backend"][g].kind \notin {"login", "status"}

BehindLogin == {i \in 1..handled["backend"] : LoggedIn(i)}

\* What the backend sends behind the LoginSuccess reaches the player: all of
\* it, also what is in the same batch, in the order in which it was sent, but
\* for the packets of which a listener cancelled or threw; and nothing the
\* backend sent before.
PassedToPlayer == BehindLogin \ (cancelled["backend"] \cup threw["backend"])

BackendPassedOn ==
  IF player = "here" THEN Lists(out["backend"], PassedToPlayer)
  ELSE Begins(out["backend"], PassedToPlayer)

\* Packet i of the player is in the batch of packet j, or behind it.
SameBatch(j, i) == \A k \in j..(i - 1) : ~sent["player"][k].last

\* Behind a packet whose listener threw, in the same batch.
Unreached ==
  {i \in 1..handled["player"] : \E j \in threw["player"] : j < i /\ SameBatch(j, i)}

\* What the player sends reaches the backend from the LoginSuccess on, in
\* order, but for what a listener cancelled and, since the error of a listener
\* ends the loop, that packet and those behind it in its batch.
PassedToBackend ==
  ((since + 1)..handled["player"]) \ (cancelled["player"] \cup threw["player"] \cup Unreached)

PlayerPassedOn ==
  IF client = "connected" /\ routing THEN Lists(out["player"], PassedToBackend)
  ELSE Begins(out["player"], PassedToBackend)

\* A backend that was not told has a player that is still there and that said
\* nothing of leaving, also when a listener behind the bridge's own cancelled
\* the DisconnectPacket or threw, or the connection ended in a listener: the
\* client of the backend has no other way to end when its player leaves.  The
\* listeners of the user that come before the bridge's own, and those it adds
\* too late, are what can keep it from that.
BackendTold ==
  client = "connected" /\ told = "no" =>
    /\ player = "here" \/ 0 \in missed
    /\ \A i \in 1..handled["player"] :
         sent["player"][i].kind = "disconnect" => i \in Unreached \cup missed
===============================================================================
