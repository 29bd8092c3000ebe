-------------------------------- MODULE Login --------------------------------
(***************************************************************************)
(* The Bedrock login between baltica's Client and a Player of baltica's    *)
(* Server, over one raknet connection: how connect() goes through          *)
(* authentication, dialling and login, how both ends switch encryption on, *)
(* and every way the client ends.                                          *)
(*                                                                         *)
(* raknet delivers each direction in order and exactly once (this is what  *)
(* RakReliability implements), so a direction is a queue.  A cipher is     *)
(* reduced to what its checksum depends on: the number of packets that     *)
(* went through it.  A packet sealed under another number, or not at all,  *)
(* is not readable.  The secret is that of the client's key and the one     *)
(* handleLogin takes from the login, in the end a name.  Compression is    *)
(* left out: each packet says how it is compressed.                        *)
(***************************************************************************)
EXTENDS Integers, Sequences, SequencesExt

CONSTANT
  MaxGames \* bound: packets the users of either side send

ASSUME BoundAssumption == MaxGames \in Nat

VARIABLES
  client, player, \* the two ends
  link,           \* the raknet client: "down", "open" or "closed"
  up, down,       \* packets on their way to the player and to the client
  games           \* packets sent by the users

vars == <<client, player, link, up, down, games>>

\* "send" and "recv" are the counters of an end's PacketEncryptor.
Off == -1

Init ==
  /\ \E offline, stopPastLogin \in BOOLEAN : client =
              [offline |-> offline, stopPastLogin |-> stopPastLogin,
               connect |-> "idle", signed |-> "nothing",
               signing |-> FALSE, accessToken |-> <<>>, loginToken |-> "none",
               send |-> Off, recv |-> Off, isDisconnected |-> FALSE,
               listening |-> FALSE, greeted |-> FALSE, closing |-> "no",
               reports |-> 0,
               \* history of the user: close(), leaving before connect()
               \* waits, sending before the handshake is answered; and that
               \* raknet ended between its connect() and the waiting, that a
               \* listener of the user threw
               userClosed |-> FALSE, leftEarly |-> FALSE, sentEarly |-> FALSE,
               endedEarly |-> FALSE, threw |-> FALSE]
  /\ player = [login |-> "none", identityPublicKey |-> "none", send |-> Off, recv |-> Off,
               isDisconnected |-> FALSE, spawning |-> 0, threw |-> FALSE]
  /\ link = "down" /\ up = <<>> /\ down = <<>> /\ games = 0

-------------------------------------------------------------------------------
(* PacketEncryptor *)

Next1(counter) == IF counter = Off THEN Off ELSE counter + 1

Packet(body, counter) == [body |-> body, counter |-> counter]

\* send: nothing once the end is disconnected
Sealed(x, body) == IF x.isDisconnected THEN <<>> ELSE <<Packet(body, x.send)>>
Counted(x) == [x EXCEPT !.send = IF x.isDisconnected THEN @ ELSE Next1(@)]

\* sendUncompressed goes round the encryptor and the check.
Plain(body) == <<Packet(body, Off)>>

Readable(x, m) == m.counter = x.recv
Opened(x) == [x EXCEPT !.recv = Next1(@)]

\* enableEncryption: new counters for both directions
Encrypting(x) == [x EXCEPT !.send = 0, !.recv = 0]

-------------------------------------------------------------------------------
(* How a client ends *)

Reports_Unguarded(x) == TRUE
Reports(x) == ~x.isDisconnected

Marked(x) == [x EXCEPT !.isDisconnected = TRUE, !.reports = IF @ < 2 THEN @ + 1 ELSE @]

\* "disconnect" of the Client, which rejects a connect() that waits for it
EmitDisconnect_Unheard(x) == Marked(x)
EmitDisconnect(x) ==
  [Marked(x) EXCEPT !.connect = IF @ = "waiting" THEN "rejected" ELSE @]

\* A listener of the user comes before that of connect() and throws.
Threw(x) == [x EXCEPT !.threw = TRUE]
EmitThrows(x) == Threw(Marked(x))

\* raknet's "disconnect" and "error", and a DisconnectPacket: close() then
\* finds isDisconnected set and only closes raknet.
Ended(x) == IF Reports(x) THEN EmitDisconnect(x) ELSE x

\* disconnect(): raknet is told after 50 ms, and closes 150 ms later.
Disconnecting(x) ==
  IF x.isDisconnected THEN x ELSE [EmitDisconnect(x) EXCEPT !.closing = "50 ms"]

\* While it dials as well: its connect() then finds out by the timeout.  A
\* DisconnectionNotification may be behind ConnectionRequestAccepted in one
\* receive(), which ends before the promise of its connect() is awaited.
RaknetFails ==
  /\ link = "open" \/ (link = "down" /\ client.connect = "dialling")
  /\ client' = [Ended(client) EXCEPT
                  !.connect = IF @ = "dialling" THEN "timing out" ELSE @,
                  !.endedEarly = (client.connect = "dialled")]
  /\ link' = "closed"
  /\ UNCHANGED <<player, up, down, games>>

Leaving(x) ==
  [x EXCEPT !.leftEarly = x.connect \in {"authenticating", "dialling", "dialled"}]

UserDisconnects ==
  /\ client.connect # "idle" /\ ~client.isDisconnected
  /\ client' \in {Disconnecting(Leaving(client)), EmitThrows(Leaving(client))}
  /\ UNCHANGED <<player, link, up, down, games>>

\* No timer comes between raknet's connect() and what awaits it.
After50ms ==
  /\ client.closing = "50 ms" /\ client.connect # "dialled"
  /\ client' = [client EXCEPT !.closing = "150 ms", !.listening = FALSE]
  /\ UNCHANGED <<player, link, up, down, games>>

After150ms ==
  /\ client.closing = "150 ms" /\ client.connect # "dialled"
  /\ client' = Ended([client EXCEPT !.closing = "no"])
  /\ link' = "closed"
  /\ UNCHANGED <<player, up, down, games>>

UserCloses ==
  /\ client.connect # "idle" /\ ~client.isDisconnected
  /\ client' = [Leaving(client) EXCEPT !.isDisconnected = TRUE, !.listening = FALSE,
                                       !.userClosed = TRUE,
                                       !.endedEarly = (client.connect = "dialled")]
  /\ link' = "closed"
  /\ UNCHANGED <<player, up, down, games>>

-------------------------------------------------------------------------------
(* connect() *)

Connect ==
  /\ client.connect = "idle"
  /\ client' = [client EXCEPT !.connect = "authenticating", !.listening = TRUE]
  /\ UNCHANGED <<player, link, up, down, games>>

\* authenticateOffline awaits the chains; on "login" of Auth, applyAuthResult
\* is started and not awaited.
Authenticated_NotAwaited(x) == [x EXCEPT !.connect = "dialling", !.signing = TRUE]
Authenticated(x) ==
  IF x.offline THEN [x EXCEPT !.connect = "dialling", !.signed = "both"]
  ELSE [x EXCEPT !.connect = "dialling", !.signing = TRUE]

\* What goes into the login, as the keys that the certificates and the token
\* name.  The chain Auth got for the client's key ends with that key, and there
\* is no token with an xboxToken.
Tokens(x) ==
  IF x.offline THEN {[chain |-> <<>>, token |-> "client"]}
  ELSE [chain : {<<"client">>, <<"service", "client">>}, token : {"none", "client"}]

Authenticate ==
  /\ client.connect = "authenticating"
  /\ \/ \E t \in Tokens(client) :
          client' = [Authenticated(client) EXCEPT !.accessToken = t.chain, !.loginToken = t.token]
     \/ ~client.offline /\ client' = [client EXCEPT !.connect = "rejected"]
  /\ UNCHANGED <<player, link, up, down, games>>

\* applyAuthResult after each of its awaits
ChainSigned ==
  /\ client.signing
  /\ client' = IF client.signed = "nothing" THEN [client EXCEPT !.signed = "identity"]
               ELSE [client EXCEPT !.signed = "both", !.signing = FALSE]
  /\ UNCHANGED <<player, link, up, down, games>>

\* raknet connects.  One that was closed before dials all the same, but hears no
\* packets.
Dial ==
  /\ client.connect = "dialling"
  /\ client' = [client EXCEPT !.connect = "dialled"]
  /\ link' = IF link = "down" THEN "open" ELSE link
  /\ UNCHANGED <<player, up, down, games>>

\* What awaits it: requestNetworkSettings, which a raknet closed in between
\* does not send, and only then connect() listens for "disconnect".
BeginWaiting ==
  /\ client.connect = "dialled"
  /\ client' = [client EXCEPT !.connect = "waiting"]
  /\ up' = IF client.endedEarly THEN up ELSE up \o Plain("RequestNetworkSettings")
  /\ UNCHANGED <<player, link, down, games>>

\* The timeout of raknet's connect() rejects without an "error" event.
DialFails ==
  /\ client.connect \in {"dialling", "timing out"}
  /\ \E event \in BOOLEAN :
       client' = [(IF event THEN Ended(client) ELSE client) EXCEPT !.connect = "rejected"]
  /\ link' = "closed"
  /\ UNCHANGED <<player, up, down, games>>

-------------------------------------------------------------------------------
(* The client receives *)

\* The next packet, opened, if the client still has listeners for it.
ClientGets(body) ==
  /\ link = "open" /\ down # <<>> /\ Head(down).body = body
  /\ Readable(client, Head(down)) /\ client.listening
  /\ down' = Tail(down)

\* createLoginPacket: what was signed by then
LoginBody(x) ==
  CASE x.signed = "both" -> "Login"
    [] x.signed = "identity" -> "LoginWithoutUser"
    [] x.signed = "nothing" -> "LoginWithoutChains"

OnNetworkSettings ==
  /\ ClientGets("NetworkSettings")
  /\ client' = Counted(Opened(client))
  /\ up' = up \o Sealed(client, LoginBody(client))
  /\ UNCHANGED <<player, link, games>>

\* The keys are derived and encryption is on before the answer is sent.
AnswerCounter_Stale(x) == x.send
AnswerCounter(x) == 0

OnServerHandshake ==
  /\ ClientGets("ServerToClientHandshake") /\ ~client.greeted
  /\ client' = Counted([Encrypting(client) EXCEPT !.greeted = TRUE])
  /\ up' = up \o Sealed([client EXCEPT !.send = AnswerCounter(client)],
                        "ClientToServerHandshake")
  /\ UNCHANGED <<player, link, games>>

\* Each packet of the login sequence is answered by one send, StartGame by two.
\* A client that is to stop past the login does not listen for them.
OnLoginSequence ==
  /\ ~client.stopPastLogin
  /\ \E body \in {"ResourcePacksInfo", "ResourcePackStack"} : ClientGets(body)
  /\ client' = Counted(Opened(client))
  /\ up' = up \o Sealed(client, "Answer")
  /\ UNCHANGED <<player, link, games>>

OnStartGame ==
  /\ ~client.stopPastLogin /\ ClientGets("StartGame")
  /\ client' = Counted(Counted(Opened(client)))
  /\ up' = up \o Sealed(client, "Answer") \o Sealed(Counted(client), "Answer")
  /\ UNCHANGED <<player, link, games>>

\* PlayStatus PlayerSpawn, the end of the login sequence
OnPlayerSpawn ==
  /\ ~client.stopPastLogin /\ ClientGets("PlayerSpawn")
  /\ client' = [Counted(Opened(client)) EXCEPT
                  !.connect = IF @ = "waiting" THEN "resolved" ELSE @]
  /\ up' = up \o Sealed(client, "Answer")
  /\ UNCHANGED <<player, link, games>>

OnDisconnectPacket ==
  /\ ClientGets("Disconnect")
  /\ client' = Ended(Opened(client))
  /\ link' = "closed"
  /\ UNCHANGED <<player, up, games>>

SpawnSequence == <<"ResourcePacksInfo", "ResourcePackStack", "StartGame", "PlayerSpawn">>

Unheard(x) == {"PlayStatus", "Game"} \cup IF x.stopPastLogin THEN Range(SpawnSequence) ELSE {}

\* a packet without a listener
OnOther ==
  /\ link = "open" /\ down # <<>> /\ Readable(client, Head(down))
  /\ client.listening => Head(down).body \in Unheard(client)
  /\ client' = Opened(client)
  /\ down' = Tail(down)
  /\ UNCHANGED <<player, link, up, games>>

\* A listener of the user that was added before connect() throws for a packet,
\* or for an event that the handler of the packet emits: handlePacket catches it
\* and the rest is not done.
ListenerThrows ==
  /\ link = "open" /\ down # <<>> /\ Readable(client, Head(down)) /\ client.listening
  /\ Head(down).body \notin Unheard(client)
  /\ down' = Tail(down)
  /\ \/ client' = Threw(Opened(client)) /\ UNCHANGED up
     \/ /\ Head(down).body = "Disconnect" /\ Reports(client)
        /\ client' = EmitThrows(Opened(client)) /\ UNCHANGED up
     \/ /\ Head(down).body = "PlayerSpawn" /\ ~client.stopPastLogin
        /\ client' = Threw(Counted(Opened(client)))
        /\ up' = up \o Sealed(client, "Answer")
  /\ UNCHANGED <<player, link, games>>

\* Without an encryptor an unreadable packet is dropped; with one its checksum
\* does not match and the client disconnects.
OnUnreadable ==
  /\ link = "open" /\ down # <<>> /\ ~Readable(client, Head(down))
  /\ client' = IF client.recv = Off THEN client ELSE Disconnecting(Opened(client))
  /\ down' = Tail(down)
  /\ UNCHANGED <<player, link, up, games>>

-------------------------------------------------------------------------------
(* The player receives *)

PlayerGets(body) ==
  /\ ~player.isDisconnected /\ up # <<>> /\ Head(up).body = body
  /\ Readable(player, Head(up))
  /\ up' = Tail(up)

OnRequestNetworkSettings ==
  /\ PlayerGets("RequestNetworkSettings")
  /\ player' = Opened(player)
  /\ down' = down \o Plain("NetworkSettings")
  /\ UNCHANGED <<client, link, games>>

\* The chain of a login: the client's own certificate, which offline names its
\* key and online that of the service, then those of Auth.
LoginBodies == {"Login", "LoginWithoutUser", "LoginWithoutChains"}

IdentityChain(body) ==
  CASE body = "LoginWithoutChains" -> <<>>
    [] client.offline -> <<"client">>
    [] OTHER -> <<"service">>

\* handleLogin: the last certificate counts, and the token when there is none.
IdentityPublicKey_First(chain, token) == IF chain = <<>> THEN token ELSE Head(chain)
IdentityPublicKey(chain, token) == IF chain = <<>> THEN token ELSE Last(chain)

\* (What authentication gave the client stays what it was when it was sent.)
OnLogin ==
  \E body \in LoginBodies :
    /\ PlayerGets(body)
    /\ player' = [Opened(player) EXCEPT
                    !.login = "importing",
                    !.identityPublicKey = IdentityPublicKey(
                       IdentityChain(body) \o client.accessToken, client.loginToken)]
    /\ UNCHANGED <<client, link, down, games>>

\* handleLogin after each of its awaits; the last step sends the handshake in
\* the clear and then switches encryption on.
LoginAwaits ==
  /\ player.login \in {"importing", "importing key"}
  /\ player' = [player EXCEPT !.login = IF @ = "importing" THEN "importing key" ELSE "signing"]
  /\ UNCHANGED <<client, link, up, down, games>>

LoginSigned ==
  /\ player.login = "signing"
  /\ player' = [Encrypting(player) EXCEPT !.login = "done"]
  /\ down' = down \o Sealed(player, "ServerToClientHandshake")
  /\ UNCHANGED <<client, link, up, games>>

OnClientHandshake ==
  /\ PlayerGets("ClientToServerHandshake")
  /\ player' = [Counted(Opened(player)) EXCEPT !.spawning = 1]
  /\ down' = down \o Sealed(player, "PlayStatus")
  /\ UNCHANGED <<client, link, games>>

Handled == LoginBodies \cup {"RequestNetworkSettings", "ClientToServerHandshake"}

\* A listener for "packet" comes before the player's own and throws.
ListenerThrowsUp ==
  /\ \E body \in Handled : PlayerGets(body)
  /\ player' = Threw(Opened(player))
  /\ UNCHANGED <<client, link, down, games>>

\* what the user of the server listens for
OnOtherUp ==
  /\ \E body \in {"Answer", "Game"} : PlayerGets(body)
  /\ player' = Opened(player)
  /\ UNCHANGED <<client, link, down, games>>

OnUnreadableUp ==
  /\ ~player.isDisconnected /\ up # <<>> /\ ~Readable(player, Head(up))
  /\ player' = IF player.recv = Off THEN player
               ELSE [Opened(player) EXCEPT !.isDisconnected = TRUE]
  /\ up' = Tail(up)
  /\ UNCHANGED <<client, link, down, games>>

-------------------------------------------------------------------------------
(* The users of the two ends *)

\* Its player comes with raknet's NewIncomingConnection, when the client waits.
ServerUserSends(body) ==
  /\ link # "down" /\ client.connect # "dialled" /\ games < MaxGames
  /\ player' = Counted(player)
  /\ down' = down \o Sealed(player, body)
  /\ games' = games + 1
  /\ UNCHANGED <<client, link, up>>

ServerUserSpawns ==
  /\ player.spawning \in DOMAIN SpawnSequence
  /\ player' = [Counted(player) EXCEPT !.spawning = @ + 1]
  /\ down' = down \o Sealed(player, SpawnSequence[player.spawning])
  /\ UNCHANGED <<client, link, up, games>>

ClientUserSends ==
  /\ link = "open" /\ games < MaxGames
  /\ client' = [Counted(client) EXCEPT !.sentEarly =
                  @ \/ (~client.greeted /\ ~client.isDisconnected)]
  /\ up' = up \o Sealed(client, "Game")
  /\ games' = games + 1
  /\ UNCHANGED <<player, link, down>>

-------------------------------------------------------------------------------
ClientReceives ==
  \/ OnNetworkSettings \/ OnServerHandshake
  \/ OnLoginSequence \/ OnStartGame \/ OnPlayerSpawn
  \/ OnDisconnectPacket \/ OnOther \/ OnUnreadable

PlayerReceives ==
  \/ OnRequestNetworkSettings \/ OnLogin \/ OnClientHandshake
  \/ OnOtherUp \/ OnUnreadableUp

Next ==
  \/ Connect \/ Authenticate \/ ChainSigned \/ Dial \/ BeginWaiting \/ DialFails
  \/ ClientReceives \/ PlayerReceives \/ LoginAwaits \/ LoginSigned
  \/ \E body \in {"Game", "Disconnect"} : ServerUserSends(body)
  \/ ServerUserSpawns \/ ClientUserSends \/ ListenerThrows \/ ListenerThrowsUp
  \/ RaknetFails \/ UserDisconnects \/ After50ms \/ After150ms \/ UserCloses

Spec == Init /\ [][Next]_vars

\* raknet delivers while the connection is up and notices when it is not, the
\* promises of both ends settle, and the user of the server spawns its players.
FairSpec ==
  /\ Spec
  /\ WF_vars(Authenticate) /\ WF_vars(Dial \/ DialFails) /\ WF_vars(BeginWaiting)
  /\ WF_vars(ClientReceives) /\ WF_vars(PlayerReceives)
  /\ WF_vars(LoginAwaits) /\ WF_vars(LoginSigned) /\ WF_vars(ServerUserSpawns)
  /\ WF_vars(RaknetFails /\ player.isDisconnected)

-------------------------------------------------------------------------------
(* Properties *)

Counter == Nat \cup {Off}

Bodies == {"RequestNetworkSettings", "NetworkSettings", "ServerToClientHandshake", "ClientToServerHandshake", "PlayStatus",
           "ResourcePacksInfo", "ResourcePackStack", "StartGame", "PlayerSpawn",
           "Answer", "Disconnect", "Game"} \cup LoginBodies

Clients == [offline : BOOLEAN, stopPastLogin : BOOLEAN,
            connect : {"idle", "authenticating", "dialling", "timing out", "dialled",
                       "waiting", "resolved", "rejected"},
            signed : {"nothing", "identity", "both"}, signing : BOOLEAN,
            accessToken : Seq({"client", "service"}), loginToken : {"none", "client"},
            send : Counter, recv : Counter,
            isDisconnected : BOOLEAN, listening : BOOLEAN, greeted : BOOLEAN,
            closing : {"no", "50 ms", "150 ms"}, reports : 0..1,
            userClosed : BOOLEAN, leftEarly : BOOLEAN, sentEarly : BOOLEAN,
            endedEarly : BOOLEAN, threw : BOOLEAN]
Players == [login : {"none", "importing", "importing key", "signing", "done"},
            identityPublicKey : {"none", "client", "service"},
            send : Counter, recv : Counter, isDisconnected : BOOLEAN,
            spawning : 0..5, threw : BOOLEAN]
Packets == [body : Bodies, counter : Counter]

\* The types of the fields of the two ends and of the packets.
TypeOK ==
  /\ client \in Clients /\ player \in Players
  /\ link \in {"down", "open", "closed"}
  /\ up \in Seq(Packets) /\ down \in Seq(Packets)
  /\ games \in 0..MaxGames

\* The two ends switch encryption on at the same place of each direction and
\* count alike: the next packet is always readable, whatever the users send
\* while handleLogin is between two of its awaits.  A client without its
\* listeners no longer answers the handshake and no longer counts, and a
\* client's packet must not come between its login and its handshake.
InStep == ~client.sentEarly /\ ~client.threw =>
  /\ up # <<>> /\ ~player.isDisconnected => Readable(player, Head(up))
  /\ down # <<>> /\ link = "open" /\ client.listening => Readable(client, Head(down))

\* A login packet is never sent before the chains it carries are signed, if
\* authentication is offline.  (Online nothing waits for them.)
LoginIsComplete ==
  client.offline => \A i \in 1..Len(up) : up[i].body \notin LoginBodies \ {"Login"}

\* The two ends derive the keys from the same secret: whatever of its chains
\* the client has signed when it sends the login, and online its own
\* certificate names another key, the player takes the key of the client.
SecretsAgree == player.login # "none" => player.identityPublicKey = "client"

Abandoned ==
  client.userClosed \/ client.leftEarly \/ client.threw \/ player.threw

\* connect() of a client that is to stop past the login waits until it ends.
StaysPastLogin ==
  client.stopPastLogin /\ client.connect = "waiting" /\ ~client.isDisconnected

\* connect() settles, unless the user closes the client or disconnects it
\* before connect() has begun to wait, or raknet ends in between its own
\* connect() and that: whatever else ends the client rejects the promise.  It
\* does so even when a packet that the user sent too early has put the two ends
\* out of step, or when the login was sent before its chains were signed.  With
\* stopPastLogin it does not settle before the client ends.
ConnectSettles ==
  (client.connect \notin {"idle", "resolved", "rejected"})
    ~> \/ client.connect \in {"resolved", "rejected"}
       \/ Abandoned \/ client.endedEarly \/ StaysPastLogin

\* A client that ended has released its own listeners.
ListenersReleased ==
  client.isDisconnected /\ client.closing # "50 ms" => ~client.listening
===============================================================================
