----------------------------- MODULE LoginProofs -----------------------------
(***************************************************************************)
(* The login of a Client and a Player, for any number of packets of their  *)
(* users: what it carries, whose key the secret is made with, and that the *)
(* two ends stay in step.                                                  *)
(***************************************************************************)
EXTENDS Login, TLAPS

\* What authentication gave, and what is signed of it offline.
Known(x) ==
  /\ [chain |-> x.accessToken, token |-> x.loginToken] \in Tokens(x)
  /\ x.offline => x.signed = "both"

\* A client that ends reports it once.
Quiet(x) == ~x.isDisconnected => x.reports = 0

Connecting(x) ==
  x.connect \in {"dialling", "timing out", "dialled", "waiting", "resolved"}

ChainsInv ==
  /\ TypeOK
  /\ Quiet(client)
  /\ Connecting(client) \/ link = "open" \/ up # <<>> => Known(client)
  /\ LoginIsComplete
  /\ SecretsAgree

-------------------------------------------------------------------------------
(* The two ends in step *)

\* The packets that hand the login on from one end to the other, one at a time.
Requests == {"RequestNetworkSettings"} \cup LoginBodies
Replies == {"NetworkSettings", "ServerToClientHandshake"}
\* Those that the client's answer to the handshake comes before.
Welcomes == {"PlayStatus", "ResourcePacksInfo", "ResourcePackStack", "StartGame", "PlayerSpawn"}

Holds(q, bodies) == \E i \in DOMAIN q : q[i].body \in bodies
Single(q, bodies) ==
  \A i, j \in DOMAIN q : q[i].body \in bodies /\ q[j].body \in bodies => i = j

\* Packets in the clear, and packets sealed one after the other from "first" on.
Clear(q) == \A i \in DOMAIN q : q[i].counter = Off
Counting(q, first) == \A i \in DOMAIN q : q[i].counter = first + i - 1

\* A client c and a player p on a link l, with u on its way up and d down.
\* (Until connect() waits nothing of the login is sent; until raknet's has
\* connected there is no link.)
Undialled(c) ==
  c.connect \in {"idle", "authenticating", "dialling", "timing out", "dialled"}
Unlinked(c) == Undialled(c) /\ c.connect # "dialled"
HandlesLogin(p) == p.login \in {"importing", "importing key", "signing"}

\* Each end counts from the handshake on: the player from the one it sends, the
\* client from the one it gets.
Encrypted(c, p) ==
  /\ p.login = "done" <=> p.send # Off
  /\ p.login = "done" <=> p.recv # Off
  /\ c.greeted <=> c.send # Off
  /\ c.greeted <=> c.recv # Off
  /\ c.greeted => p.login = "done"

\* The login is at one place: as a request on its way up, as a reply on its way
\* down, or with handleLogin.  Until the client has the handshake it sends
\* requests and nothing else.
OneAtATime(c, p, u, d) ==
  /\ Undialled(c) => u = <<>> /\ p.login = "none" /\ ~Holds(d, Replies)
  /\ Holds(u, Requests) =>
       Len(u) = 1 /\ p.login = "none" /\ ~c.greeted /\ ~Holds(d, Replies)
  /\ Holds(d, Replies) => u = <<>> /\ ~c.greeted
  /\ Single(d, Replies)
  /\ Holds(d, {"NetworkSettings"}) => p.login = "none"
  /\ Holds(d, {"ServerToClientHandshake"}) => p.login = "done"
  /\ HandlesLogin(p) => u = <<>> /\ ~Holds(d, Replies)
  /\ ~c.greeted /\ u # <<>> => Holds(u, Requests)

\* What follows the client's answer to the handshake.
Greeted(c, p, u, d) ==
  \/ c.connect = "resolved" \/ Holds(u, {"ClientToServerHandshake"})
  \/ p.spawning > 0 \/ Holds(d, Welcomes)
  => c.greeted

UpInStep(c, p, u) ==
  /\ c.greeted => Counting(u, p.recv) /\ c.send = p.recv + Len(u)
  /\ ~c.greeted => Clear(u) /\ p.recv \in {Off, 0}

\* The packets behind the handshake at "k", while the client has not read it
BehindHandshake(d, k, sent) ==
  /\ d[k].body = "ServerToClientHandshake"
  /\ \A i \in DOMAIN d : d[i].counter = IF i <= k THEN Off ELSE i - k - 1
  /\ sent = Len(d) - k

DownInStep(c, p, d) ==
  /\ c.greeted => Counting(d, c.recv) /\ p.send = c.recv + Len(d)
  /\ p.login # "done" => Clear(d)
  /\ ~c.greeted /\ p.login = "done" => \E k \in DOMAIN d : BehindHandshake(d, k, p.send)

StepOK(c, p, l, u, d) ==
  /\ ~p.isDisconnected
  /\ l = "down" => u = <<>> /\ d = <<>> /\ p.login = "none"
  /\ Unlinked(c) => l # "open"
  /\ c.connect = "dialled" => l # "down"
  /\ Encrypted(c, p) /\ OneAtATime(c, p, u, d) /\ Greeted(c, p, u, d)
  /\ UpInStep(c, p, u)
  /\ l = "open" /\ c.listening => DownInStep(c, p, d)

\* No user of the client got between it and the login.
Straight(x) == ~x.sentEarly /\ ~x.threw

LoginInv ==
  ChainsInv /\ (Straight(client) => StepOK(client, player, link, up, down))

-------------------------------------------------------------------------------
(* The operators of the model *)

LEMMA CounterMoves == \A c \in Counter : Next1(c) \in Counter /\ (Next1(c) = Off <=> c = Off)
BY DEF Counter, Next1, Off

\* What an action leaves of a client: what authentication gave it, where its
\* ciphers are, and the rest of what the invariant speaks of.
SameChains(x, y) ==
  /\ y.offline = x.offline /\ y.signed = x.signed
  /\ y.accessToken = x.accessToken /\ y.loginToken = x.loginToken
SameLife(x, y) ==
  /\ y.connect = x.connect /\ y.listening = x.listening
  /\ y.isDisconnected = x.isDisconnected /\ (Straight(y) <=> Straight(x))

LEMMA CountedClient ==
  ASSUME NEW x \in Clients, NEW y, y = Counted(x)
  PROVE  /\ y \in Clients /\ (Quiet(x) => Quiet(y)) /\ SameChains(x, y) /\ SameLife(x, y)
         /\ y.greeted = x.greeted /\ y.recv = x.recv
         /\ x.isDisconnected => y.send = x.send
         /\ ~x.isDisconnected => y.send = Next1(x.send)
         /\ y.send = Off <=> x.send = Off
BY CounterMoves DEF Counted, Clients, SameChains, SameLife, Straight, Quiet

LEMMA OpenedClient ==
  ASSUME NEW x \in Clients, NEW y, y = Opened(x)
  PROVE  /\ y \in Clients /\ (Quiet(x) => Quiet(y)) /\ SameChains(x, y) /\ SameLife(x, y)
         /\ y.greeted = x.greeted /\ y.send = x.send
         /\ y.recv = Next1(x.recv) /\ (y.recv = Off <=> x.recv = Off)
BY CounterMoves DEF Opened, Clients, SameChains, SameLife, Straight, Quiet

LEMMA GreetedClient ==
  ASSUME NEW x \in Clients, NEW y, y = [Encrypting(x) EXCEPT !.greeted = TRUE]
  PROVE  /\ y \in Clients /\ (Quiet(x) => Quiet(y)) /\ SameChains(x, y) /\ SameLife(x, y)
         /\ y.greeted /\ y.send = 0 /\ y.recv = 0
BY DEF Encrypting, Clients, SameChains, SameLife, Straight, Quiet, Counter

LEMMA MarkedClient ==
  ASSUME NEW x \in Clients, Quiet(x), ~x.isDisconnected, NEW y, y = Marked(x)
  PROVE  /\ y \in Clients /\ y.isDisconnected /\ SameChains(x, y)
         /\ y.greeted = x.greeted /\ y.send = x.send /\ y.recv = x.recv
         /\ y.listening = x.listening /\ y.connect = x.connect
         /\ Straight(y) <=> Straight(x)
<1>1. x.reports = 0 /\ 0 + 1 = 1 /\ 0 < 2 /\ 1 \in 0..1
  BY DEF Quiet
<1>2. y = [x EXCEPT !.isDisconnected = TRUE, !.reports = 1]
  BY <1>1 DEF Marked
<1> QED
  BY <1>1, <1>2 DEF Clients, SameChains, Straight

LEMMA EndedClient ==
  ASSUME NEW x \in Clients, Quiet(x), NEW y, y = Ended(x) \/ y = Disconnecting(x)
  PROVE  /\ y \in Clients /\ Quiet(y) /\ SameChains(x, y) /\ y.isDisconnected
         /\ y.greeted = x.greeted /\ y.send = x.send /\ y.recv = x.recv
         /\ y.listening = x.listening /\ (Straight(y) <=> Straight(x))
         /\ y.connect \in {x.connect, "rejected"}
<1>1. CASE x.isDisconnected
  BY <1>1 DEF Ended, Disconnecting, Reports, Clients, SameChains
<1>2. CASE ~x.isDisconnected
  <2> DEFINE m == Marked(x)
             c == IF m.connect = "waiting" THEN "rejected" ELSE m.connect
             e == [m EXCEPT !.connect = c]
  <2>1. EmitDisconnect(x) = e
    BY DEF EmitDisconnect
  <2>2. /\ m \in Clients /\ m.isDisconnected /\ SameChains(x, m)
        /\ m.greeted = x.greeted /\ m.send = x.send /\ m.recv = x.recv
        /\ m.listening = x.listening /\ m.connect = x.connect
        /\ Straight(m) <=> Straight(x)
    BY <1>2, MarkedClient
  <2> HIDE DEF m
  <2>3. /\ c \in {"idle", "authenticating", "dialling", "timing out", "dialled",
                  "waiting", "resolved", "rejected"}
        /\ c \in {x.connect, "rejected"}
    BY <2>2 DEF Clients
  <2> HIDE DEF c
  <2>4. /\ e \in Clients /\ SameChains(x, e) /\ e.isDisconnected
        /\ e.greeted = x.greeted /\ e.send = x.send /\ e.recv = x.recv
        /\ e.listening = x.listening /\ e.connect = c
        /\ Straight(e) <=> Straight(x)
    BY <2>2, <2>3 DEF Clients, SameChains, Straight
  <2> HIDE DEF e
  <2>5. y = e \/ y = [e EXCEPT !.closing = "50 ms"]
    BY <1>2, <2>1 DEF Ended, Disconnecting, Reports
  <2>6. CASE y = e
    BY <2>3, <2>4, <2>6 DEF Quiet
  <2>7. CASE y = [e EXCEPT !.closing = "50 ms"]
    <3>1. y \in Clients /\ SameChains(x, y) /\ (Straight(y) <=> Straight(x))
      BY <2>4, <2>7 DEF Clients, SameChains, Straight
    <3>2. /\ y.isDisconnected /\ y.greeted = x.greeted /\ y.send = x.send
          /\ y.recv = x.recv /\ y.listening = x.listening /\ y.connect = c
      BY <2>4, <2>7 DEF Clients
    <3> QED
      BY <2>3, <3>1, <3>2 DEF Quiet
  <2> QED
    BY <2>5, <2>6, <2>7
<1> QED
  BY <1>1, <1>2

\* A listener of the user throws when the client reports its end, or before.
LEMMA ThrewClient ==
  ASSUME NEW x \in Clients, Quiet(x), NEW y,
         y = Threw(x) \/ (~x.isDisconnected /\ y = EmitThrows(x))
  PROVE  /\ y \in Clients /\ Quiet(y) /\ SameChains(x, y) /\ ~Straight(y)
         /\ y.greeted = x.greeted /\ y.send = x.send /\ y.recv = x.recv
         /\ y.listening = x.listening /\ y.connect = x.connect
<1>1. CASE y = Threw(x)
  BY <1>1 DEF Threw, Clients, SameChains, Quiet, Straight
<1>2. CASE ~x.isDisconnected /\ y = EmitThrows(x)
  <2> DEFINE m == Marked(x)
  <2>1. /\ m \in Clients /\ m.isDisconnected /\ SameChains(x, m)
        /\ m.greeted = x.greeted /\ m.send = x.send /\ m.recv = x.recv
        /\ m.listening = x.listening /\ m.connect = x.connect
    BY <1>2, MarkedClient
  <2>2. y = [m EXCEPT !.threw = TRUE]
    BY <1>2 DEF EmitThrows, Threw
  <2> HIDE DEF m
  <2> QED
    BY <2>1, <2>2 DEF Clients, SameChains, Quiet, Straight
<1> QED
  BY <1>1, <1>2

LEMMA CountedPlayer ==
  ASSUME NEW x \in Players, NEW y, y = Counted(x)
  PROVE  /\ y \in Players /\ y.login = x.login /\ y.recv = x.recv
         /\ y.identityPublicKey = x.identityPublicKey
         /\ y.isDisconnected = x.isDisconnected /\ y.spawning = x.spawning
         /\ x.isDisconnected => y.send = x.send
         /\ ~x.isDisconnected => y.send = Next1(x.send)
BY CounterMoves DEF Counted, Players

LEMMA OpenedPlayer ==
  ASSUME NEW x \in Players, NEW y, y = Opened(x)
  PROVE  /\ y \in Players /\ y.login = x.login /\ y.send = x.send
         /\ y.identityPublicKey = x.identityPublicKey
         /\ y.isDisconnected = x.isDisconnected /\ y.spawning = x.spawning
         /\ y.recv = Next1(x.recv) /\ (y.recv = Off <=> x.recv = Off)
BY CounterMoves DEF Opened, Players

-------------------------------------------------------------------------------
(* Queues *)

LEMMA Appended ==
  ASSUME NEW M, NEW q \in Seq(M), NEW m \in M, NEW r, r = q \o <<m>>
  PROVE  /\ r \in Seq(M) /\ Len(r) = Len(q) + 1 /\ DOMAIN r = 1..(Len(q) + 1)
         /\ \A i \in DOMAIN q : r[i] = q[i]
         /\ r[Len(q) + 1] = m
OBVIOUS

LEMMA Taken ==
  ASSUME NEW M, NEW q \in Seq(M), q # <<>>, NEW r, r = Tail(q)
  PROVE  /\ r \in Seq(M) /\ Len(r) = Len(q) - 1 /\ DOMAIN r = 1..(Len(q) - 1)
         /\ \A i \in DOMAIN r : i + 1 \in DOMAIN q /\ r[i] = q[i + 1]
         /\ Head(q) = q[1] /\ 1 \in DOMAIN q /\ Head(q) \in M
OBVIOUS

LEMMA PacketTyped ==
  \A body \in Bodies, c \in Counter : Packet(body, c) \in Packets
BY DEF Packet, Packets

\* A disconnected end sends nothing.
LEMMA SealedTyped ==
  ASSUME NEW x \in Clients, NEW body \in Bodies
  PROVE  Sealed(x, body) \in Seq(Packets)
<1>1. Packet(body, x.send) \in Packets
  BY PacketTyped DEF Clients
<1> DEFINE m == Packet(body, x.send)
<1> HIDE DEF m
<1>2. <<>> \in Seq(Packets) /\ (m \in Packets => <<m>> \in Seq(Packets))
  OBVIOUS
<1> QED
  BY <1>1, <1>2 DEF Sealed, m

LEMMA SealedClient ==
  ASSUME NEW x \in Clients, NEW body \in Bodies, NEW q \in Seq(Packets)
  PROVE  /\ x.isDisconnected => q \o Sealed(x, body) = q
         /\ ~x.isDisconnected => q \o Sealed(x, body) = q \o <<Packet(body, x.send)>>
         /\ Packet(body, x.send) \in Packets
         /\ q \o Sealed(x, body) \in Seq(Packets)
<1>1. Packet(body, x.send) \in Packets
  BY PacketTyped DEF Clients
<1> QED
  BY <1>1 DEF Sealed

LEMMA SealedPlayer ==
  ASSUME NEW x \in Players, NEW body \in Bodies, NEW q \in Seq(Packets)
  PROVE  /\ x.isDisconnected => q \o Sealed(x, body) = q
         /\ ~x.isDisconnected => q \o Sealed(x, body) = q \o <<Packet(body, x.send)>>
         /\ Packet(body, x.send) \in Packets
         /\ q \o Sealed(x, body) \in Seq(Packets)
<1>1. Packet(body, x.send) \in Packets
  BY PacketTyped DEF Players
<1> QED
  BY <1>1 DEF Sealed

-------------------------------------------------------------------------------
(* What the login carries *)

\* Packets that a client sends once it knows what to log in with.
Complete(x, q) ==
  /\ q \in Seq(Packets)
  /\ q # <<>> => Known(x)
  /\ x.offline => \A i \in 1..Len(q) : q[i].body \notin LoginBodies \ {"Login"}

LEMMA UpComplete ==
  ASSUME ChainsInv
  PROVE  /\ Complete(client, up)
         /\ up # <<>> => Complete(client, Tail(up))
<1>1. Complete(client, up)
  BY DEF ChainsInv, Complete, LoginIsComplete, TypeOK
<1>2. ASSUME up # <<>> PROVE Complete(client, Tail(up))
  BY <1>1, <1>2, Taken DEF Complete
<1> QED
  BY <1>1, <1>2

LEMMA SendComplete ==
  ASSUME NEW x \in Clients, NEW q, Complete(x, q), Known(x), NEW body \in Bodies,
         x.offline => body \notin LoginBodies \ {"Login"}, NEW c \in Counter
  PROVE  /\ Complete(x, q \o <<Packet(body, c)>>)
         /\ \A y \in Clients : Complete(x, q \o Sealed(y, body))
<1>1. ASSUME NEW d \in Counter PROVE Complete(x, q \o <<Packet(body, d)>>)
  <2> DEFINE m == Packet(body, d)
             r == q \o <<m>>
  <2>1. m \in Packets /\ m.body = body
    BY PacketTyped DEF Packet
  <2> HIDE DEF m
  <2>2. /\ r \in Seq(Packets) /\ Len(r) = Len(q) + 1 /\ Len(q) \in Nat
        /\ \A i \in 1..Len(q) : r[i] = q[i]
        /\ r[Len(q) + 1] = m
    BY <2>1, Appended DEF Complete
  <2> HIDE DEF r
  <2>3. \A i \in 1..Len(r) : i \in 1..Len(q) \/ i = Len(q) + 1
    BY <2>2
  <2>4. Complete(x, r)
    BY <2>1, <2>2, <2>3 DEF Complete
  <2> QED
    BY <2>4 DEF r, m
<1>2. ASSUME NEW y \in Clients PROVE Complete(x, q \o Sealed(y, body))
  <2>1. y.send \in Counter /\ q \in Seq(Packets)
    BY DEF Clients, Complete
  <2> QED
    BY <1>1, <2>1, SealedClient
<1> QED
  BY <1>1, <1>2

LEMMA KnownStays ==
  ASSUME NEW x, NEW y, SameChains(x, y)
  PROVE  /\ Known(y) <=> Known(x)
         /\ \A q : Complete(y, q) <=> Complete(x, q)
<1>1. Known(y) <=> Known(x)
  BY DEF Known, Tokens, SameChains
<1> QED
  BY <1>1 DEF Complete, SameChains

LEMMA ChainsStay ==
  ASSUME ChainsInv, client' \in Clients, Quiet(client'), SameChains(client, client'),
         Connecting(client') \/ link' = "open" => Known(client),
         player' \in Players,
         player'.login # "none" => player'.identityPublicKey = "client",
         link' \in {"down", "open", "closed"}, games' \in 0..MaxGames,
         Complete(client, up'), down' \in Seq(Packets)
  PROVE  ChainsInv'
<1>1. Known(client') <=> Known(client)
  BY KnownStays
<1>2. Complete(client', up')
  BY KnownStays
<1> QED
  BY <1>1, <1>2 DEF ChainsInv, Complete, TypeOK, LoginIsComplete, SecretsAgree, Quiet, Known,
     Tokens, SameChains

\* The actions that neither send nor receive.
SameCipher(x, y) == y.greeted = x.greeted /\ y.send = x.send /\ y.recv = x.recv

Calm ==
  /\ client' \in Clients /\ Quiet(client') /\ SameCipher(client, client')
  /\ Straight(client') => Straight(client)
  /\ client'.listening => client.listening \/ Unlinked(client)
  /\ Undialled(client') => Undialled(client)
  /\ Unlinked(client') => Unlinked(client)
  /\ client'.connect \in {"dialled", "resolved"} => client'.connect = client.connect
  /\ link' \in {link, "closed"}
  /\ UNCHANGED <<player, up, down, games>>

Ends ==
  /\ SameChains(client, client')
  /\ client'.connect \in {client.connect, "rejected"} \/ client.connect = "dialling"

LEMMA LeavingTyped ==
  ASSUME NEW x \in Clients
  PROVE  /\ Leaving(x) \in Clients /\ SameChains(x, Leaving(x)) /\ SameLife(x, Leaving(x))
         /\ SameCipher(x, Leaving(x)) /\ (Quiet(x) => Quiet(Leaving(x)))
<1> DEFINE b == x.connect \in {"authenticating", "dialling", "dialled"}
<1>1. b \in BOOLEAN /\ Leaving(x) = [x EXCEPT !.leftEarly = b]
  BY DEF Leaving
<1> HIDE DEF b
<1> QED
  BY <1>1 DEF Clients, SameChains, SameLife, Straight, SameCipher, Quiet

LEMMA EndingEffect ==
  ASSUME TypeOK, Quiet(client),
         RaknetFails \/ UserDisconnects \/ After50ms \/ After150ms \/ UserCloses
  PROVE  Calm /\ Ends
<1>1. client \in Clients
  BY DEF TypeOK
<1>2. CASE RaknetFails
  <2> DEFINE x == Ended(client)
             c == IF x.connect = "dialling" THEN "timing out" ELSE x.connect
             early == client.connect = "dialled"
  <2>1. client' = [x EXCEPT !.connect = c, !.endedEarly = early]
        /\ link' = "closed" /\ UNCHANGED <<player, up, down, games>>
    BY <1>2 DEF RaknetFails
  <2>2. /\ x \in Clients /\ Quiet(x) /\ SameChains(client, x) /\ SameCipher(client, x)
        /\ x.listening = client.listening /\ (Straight(x) <=> Straight(client))
        /\ x.connect \in {client.connect, "rejected"}
    BY <1>1, EndedClient DEF SameCipher
  <2> HIDE DEF x
  <2>3. /\ c \in {"idle", "authenticating", "dialling", "timing out", "dialled",
                  "waiting", "resolved", "rejected"}
        /\ c = x.connect \/ (x.connect = "dialling" /\ c = "timing out")
        /\ early \in BOOLEAN
    BY <2>2 DEF Clients
  <2> HIDE DEF c, early
  <2>4. /\ client' \in Clients /\ Quiet(client') /\ SameChains(x, client')
        /\ SameCipher(x, client') /\ client'.listening = x.listening
        /\ client'.connect = c /\ (Straight(client') <=> Straight(x))
    BY <2>1, <2>2, <2>3 DEF Clients, Quiet, SameChains, SameCipher, Straight
  <2>5. Ends
    BY <2>2, <2>3, <2>4 DEF Ends, SameChains
  <2> QED
    BY <2>1, <2>2, <2>3, <2>4, <2>5 DEF Calm, SameCipher, Undialled, Unlinked
<1>3. CASE UserDisconnects
  <2> DEFINE l == Leaving(client)
  <2>1. /\ l \in Clients /\ SameChains(client, l) /\ SameLife(client, l)
        /\ SameCipher(client, l) /\ Quiet(l)
    BY <1>1, LeavingTyped
  <2>2. client' \in {Disconnecting(l), EmitThrows(l)} /\ ~client.isDisconnected
        /\ UNCHANGED <<player, link, up, down, games>>
    BY <1>3 DEF UserDisconnects
  <2> HIDE DEF l
  <2>3. CASE client' = Disconnecting(l)
    BY <2>1, <2>2, <2>3, EndedClient DEF Calm, Ends, SameCipher, SameChains, SameLife, Undialled,
       Unlinked
  <2>4. CASE client' = EmitThrows(l)
    <3>1. ~l.isDisconnected
      BY <2>1, <2>2 DEF SameLife
    <3> QED
      BY <2>1, <2>2, <2>4, <3>1, ThrewClient DEF Calm, Ends, SameCipher, SameChains, SameLife,
         Undialled, Unlinked
  <2> QED
    BY <2>2, <2>3, <2>4
<1>4. CASE After50ms
  <2>1. client' = [client EXCEPT !.closing = "150 ms", !.listening = FALSE]
        /\ UNCHANGED <<player, link, up, down, games>>
    BY <1>4 DEF After50ms
  <2>2. client' \in Clients /\ Quiet(client') /\ SameCipher(client, client')
        /\ SameChains(client, client') /\ (Straight(client') <=> Straight(client))
        /\ client'.connect = client.connect /\ ~client'.listening
    BY <1>1, <2>1 DEF Clients, Quiet, SameCipher, SameChains, Straight
  <2> QED
    BY <1>1, <2>1, <2>2 DEF Calm, Ends, Undialled, Unlinked
<1>5. CASE After150ms
  <2> DEFINE x == [client EXCEPT !.closing = "no"]
  <2>1. /\ x \in Clients /\ SameChains(client, x) /\ SameLife(client, x)
        /\ SameCipher(client, x) /\ Quiet(x)
    BY <1>1 DEF Clients, Quiet, SameCipher, SameChains, SameLife, Straight
  <2>2. client' = Ended(x) /\ link' = "closed" /\ UNCHANGED <<player, up, down, games>>
    BY <1>5 DEF After150ms
  <2> HIDE DEF x
  <2> QED
    BY <2>1, <2>2, EndedClient DEF Calm, Ends, SameCipher, SameChains, SameLife, Undialled,
       Unlinked
<1>6. CASE UserCloses
  <2> DEFINE l == Leaving(client)
             early == client.connect = "dialled"
  <2>1. /\ l \in Clients /\ SameChains(client, l) /\ SameLife(client, l)
        /\ SameCipher(client, l) /\ early \in BOOLEAN
    BY <1>1, LeavingTyped
  <2>2. /\ client' = [l EXCEPT !.isDisconnected = TRUE, !.listening = FALSE,
                               !.userClosed = TRUE, !.endedEarly = early]
        /\ link' = "closed" /\ UNCHANGED <<player, up, down, games>>
    BY <1>6 DEF UserCloses
  <2> HIDE DEF l, early
  <2>3. client' \in Clients /\ Quiet(client') /\ SameCipher(l, client')
        /\ SameChains(l, client')
    BY <2>1, <2>2 DEF Clients, Quiet, SameCipher, SameChains
  <2>4. client'.connect = l.connect /\ (Straight(client') <=> Straight(l))
        /\ ~client'.listening
    BY <2>1, <2>2 DEF Clients, Straight
  <2> QED
    BY <2>1, <2>2, <2>3, <2>4 DEF Calm, Ends, SameCipher, SameChains, SameLife, Undialled, Unlinked
<1> QED
  BY <1>2, <1>3, <1>4, <1>5, <1>6

LEMMA EndingKeepsChains ==
  ASSUME ChainsInv,
         RaknetFails \/ UserDisconnects \/ After50ms \/ After150ms \/ UserCloses
  PROVE  ChainsInv'
<1>1. TypeOK /\ Quiet(client) /\ SecretsAgree
  BY DEF ChainsInv
<1>2. Calm /\ Ends
  BY <1>1, EndingEffect
<1>3. Complete(client, up')
  BY <1>2, UpComplete DEF Calm
<1> QED
  BY <1>1, <1>2, <1>3, ChainsStay DEF ChainsInv, TypeOK, Calm, Ends, SecretsAgree, Connecting

LEMMA TokensTyped ==
  ASSUME NEW x, NEW t \in Tokens(x)
  PROVE  t.chain \in Seq({"client", "service"}) /\ t.token \in {"none", "client"}
<1>1. /\ <<>> \in Seq({"client", "service"}) /\ <<"client">> \in Seq({"client", "service"})
      /\ <<"service", "client">> \in Seq({"client", "service"})
  OBVIOUS
<1>2. CASE x.offline
  <2>1. t = [chain |-> <<>>, token |-> "client"]
    BY <1>2 DEF Tokens
  <2> QED
    BY <1>1, <2>1
<1>3. CASE ~x.offline
  <2> DEFINE chains == {<<"client">>, <<"service", "client">>}
  <2>1. t \in [chain : chains, token : {"none", "client"}]
    BY <1>3 DEF Tokens
  <2>2. chains \subseteq Seq({"client", "service"})
    BY <1>1
  <2> HIDE DEF chains
  <2> QED
    BY <2>1, <2>2
<1> QED
  BY <1>2, <1>3

\* authenticating and dialling
LEMMA ConnectingEffect ==
  ASSUME TypeOK, Quiet(client), Connect \/ Authenticate \/ ChainSigned \/ DialFails
  PROVE  Calm
<1>1. client \in Clients
  BY DEF TypeOK
<1>2. CASE Connect
  <2>1. client' = [client EXCEPT !.connect = "authenticating", !.listening = TRUE]
        /\ client.connect = "idle" /\ UNCHANGED <<player, link, up, down, games>>
    BY <1>2 DEF Connect
  <2>2. client' \in Clients /\ Quiet(client') /\ SameCipher(client, client')
        /\ client'.connect = "authenticating" /\ (Straight(client') <=> Straight(client))
    BY <1>1, <2>1 DEF Clients, Quiet, SameCipher, Straight
  <2> QED
    BY <2>1, <2>2 DEF Calm, Undialled, Unlinked
<1>3. CASE Authenticate
  <2>1. /\ client.connect = "authenticating" /\ UNCHANGED <<player, link, up, down, games>>
    BY <1>3 DEF Authenticate
  <2>2. CASE client' = [client EXCEPT !.connect = "rejected"]
    <3>1. client' \in Clients /\ Quiet(client') /\ SameCipher(client, client')
          /\ client'.connect = "rejected" /\ (Straight(client') <=> Straight(client))
          /\ client'.listening = client.listening
      BY <1>1, <2>2 DEF Clients, Quiet, SameCipher, Straight
    <3> QED
      BY <2>1, <3>1 DEF Calm, Undialled, Unlinked
  <2>3. CASE \E t \in Tokens(client) :
          client' = [Authenticated(client) EXCEPT !.accessToken = t.chain, !.loginToken = t.token]
    <3>1. PICK t \in Tokens(client) :
          client' = [Authenticated(client) EXCEPT !.accessToken = t.chain, !.loginToken = t.token]
      BY <2>3
    <3>2. t.chain \in Seq({"client", "service"}) /\ t.token \in {"none", "client"}
      BY TokensTyped
    <3>3. PICK s \in {"nothing", "identity", "both"}, b \in BOOLEAN :
            Authenticated(client) = [client EXCEPT !.connect = "dialling", !.signed = s,
                                                   !.signing = b]
      BY <1>1 DEF Authenticated, Clients
    <3> DEFINE a == Authenticated(client)
    <3>4. a \in Clients /\ Quiet(a) /\ SameCipher(client, a) /\ a.connect = "dialling"
          /\ (Straight(a) <=> Straight(client)) /\ a.listening = client.listening
      BY <1>1, <3>3 DEF Clients, Quiet, SameCipher, Straight
    <3>5. client' = [a EXCEPT !.accessToken = t.chain, !.loginToken = t.token]
      BY <3>1
    <3> HIDE DEF a
    <3>6. client' \in Clients /\ Quiet(client') /\ SameCipher(a, client')
          /\ client'.connect = a.connect /\ (Straight(client') <=> Straight(a))
          /\ client'.listening = a.listening
      BY <3>2, <3>4, <3>5 DEF Clients, Quiet, SameCipher, Straight
    <3>7. client' \in Clients /\ Quiet(client') /\ SameCipher(client, client')
          /\ client'.connect = "dialling" /\ (Straight(client') <=> Straight(client))
          /\ client'.listening = client.listening
      BY <3>4, <3>6 DEF SameCipher
    <3> QED
      BY <2>1, <3>7 DEF Calm, Undialled, Unlinked
  <2> QED
    BY <1>3, <2>2, <2>3 DEF Authenticate
<1>4. CASE ChainSigned
  <2>1. \/ client' = [client EXCEPT !.signed = "identity"]
        \/ client' = [client EXCEPT !.signed = "both", !.signing = FALSE]
    BY <1>4 DEF ChainSigned
  <2>2. client' \in Clients /\ Quiet(client') /\ SameCipher(client, client')
        /\ client'.connect = client.connect /\ (Straight(client') <=> Straight(client))
        /\ client'.listening = client.listening
    BY <1>1, <2>1 DEF Clients, Quiet, SameCipher, Straight
  <2> QED
    BY <1>4, <2>2 DEF ChainSigned, Calm, Undialled, Unlinked
<1>5. CASE DialFails
  <2>1. PICK x \in {Ended(client), client} : client' = [x EXCEPT !.connect = "rejected"]
    BY <1>5 DEF DialFails
  <2>2. x \in Clients /\ Quiet(x) /\ SameCipher(client, x) /\ (Straight(x) <=> Straight(client))
        /\ x.listening = client.listening
    BY <1>1, EndedClient DEF SameCipher
  <2>3. client' \in Clients /\ Quiet(client') /\ SameCipher(x, client')
        /\ client'.connect = "rejected" /\ (Straight(client') <=> Straight(x))
        /\ client'.listening = x.listening
    BY <2>1, <2>2 DEF Clients, Quiet, SameCipher, Straight
  <2> QED
    BY <1>5, <2>2, <2>3 DEF DialFails, Calm, Undialled, Unlinked, SameCipher
<1> QED
  BY <1>2, <1>3, <1>4, <1>5

LEMMA ConnectingKeepsChains ==
  ASSUME ChainsInv, Connect \/ Authenticate \/ ChainSigned \/ DialFails
  PROVE  ChainsInv'
<1>1. TypeOK /\ Quiet(client) /\ SecretsAgree /\ client \in Clients
  BY DEF ChainsInv, TypeOK
<1>2. Calm /\ Complete(client, up)
  BY <1>1, ConnectingEffect, UpComplete
<1>3. CASE SameChains(client, client') /\
           (Connecting(client') => Known(client))
  BY <1>1, <1>2, <1>3, ChainsStay DEF ChainsInv, TypeOK, Calm, SecretsAgree
<1>4. CASE client'.offline = client.offline
           /\ (Connecting(client') \/ Known(client) => Known(client'))
  <2>1. Complete(client', up') /\ (link' = "open" => Known(client'))
    BY <1>2, <1>4 DEF Calm, Complete, ChainsInv
  <2> QED
    BY <1>1, <1>2, <1>4, <2>1 DEF ChainsInv, TypeOK, Calm, SecretsAgree, Complete, LoginIsComplete
<1>5. ASSUME Connect \/ DialFails \/ client' = [client EXCEPT !.connect = "rejected"]
      PROVE  /\ SameChains(client, client')
             /\ ~Connecting(client')
  <2>1. PICK x \in {Ended(client), client} :
          \/ client' = [x EXCEPT !.connect = "rejected"]
          \/ client' = [x EXCEPT !.connect = "authenticating", !.listening = TRUE]
    BY <1>5 DEF Connect, DialFails
  <2>2. x \in Clients /\ SameChains(client, x)
    BY <1>1, EndedClient DEF SameChains
  <2> QED
    BY <2>1, <2>2 DEF SameChains, Clients, Connecting
<1>6. CASE Authenticate
  <2>1. CASE \E t \in Tokens(client) :
          client' = [Authenticated(client) EXCEPT !.accessToken = t.chain, !.loginToken = t.token]
    <3>1. PICK t \in Tokens(client) :
          client' = [Authenticated(client) EXCEPT !.accessToken = t.chain, !.loginToken = t.token]
      BY <2>1
    <3>2. PICK x \in Clients : /\ client' = [x EXCEPT !.accessToken = t.chain,
                                                     !.loginToken = t.token]
                               /\ x.offline = client.offline /\ (x.offline => x.signed = "both")
      <4> DEFINE x == Authenticated(client)
      <4>1. /\ x \in Clients /\ x.offline = client.offline
            /\ x.offline => x.signed = "both"
        BY <1>1 DEF Authenticated, Clients
      <4>2. client' = [x EXCEPT !.accessToken = t.chain, !.loginToken = t.token]
        BY <3>1
      <4> HIDE DEF x
      <4> QED
        BY <4>1, <4>2
    <3>3. /\ client'.accessToken = t.chain /\ client'.loginToken = t.token
          /\ client'.offline = client.offline /\ client'.signed = x.signed
      BY <3>2 DEF Clients
    <3>4. t = [chain |-> t.chain, token |-> t.token] /\ Tokens(client') = Tokens(client)
      BY <3>3 DEF Tokens
    <3>5. Known(client')
      BY <3>2, <3>3, <3>4 DEF Known
    <3> QED
      BY <1>4, <3>3, <3>5
  <2> QED
    BY <1>3, <1>5, <1>6, <2>1 DEF Authenticate
<1>7. CASE ChainSigned
  <2>1. /\ client'.connect = client.connect /\ client'.offline = client.offline
        /\ client'.accessToken = client.accessToken /\ client'.loginToken = client.loginToken
        /\ client.signed = "both" => client'.signed = "both"
    BY <1>1, <1>7 DEF ChainSigned, Clients
  <2>2. Known(client) => Known(client')
    BY <2>1 DEF Known, Tokens
  <2> QED
    BY <1>4, <2>1, <2>2 DEF ChainsInv, Connecting
<1> QED
  BY <1>3, <1>5, <1>6, <1>7

LEMMA SpawnBodies ==
  ASSUME NEW i \in DOMAIN SpawnSequence
  PROVE  i \in 1..4 /\ i + 1 \in 0..5 /\ SpawnSequence[i] \in Bodies \cap Welcomes
<1>1. DOMAIN SpawnSequence = 1..4 /\ i \in {1, 2, 3, 4}
  BY DEF SpawnSequence
<1> QED
  BY <1>1 DEF SpawnSequence, Bodies, Welcomes

\* The actions of raknet's connect() and of the users
LEMMA SendingKeepsChains ==
  ASSUME ChainsInv, NEW body \in {"Game", "Disconnect"},
         \/ Dial \/ BeginWaiting
         \/ ServerUserSpawns \/ ServerUserSends(body) \/ ClientUserSends
  PROVE  ChainsInv'
<1>1. TypeOK /\ Quiet(client) /\ SecretsAgree /\ client \in Clients /\ player \in Players
      /\ up \in Seq(Packets) /\ down \in Seq(Packets) /\ link \in {"down", "open", "closed"}
      /\ games \in 0..MaxGames
      /\ (player.login # "none" => player.identityPublicKey = "client")
  BY DEF ChainsInv, TypeOK, SecretsAgree
<1>2. Complete(client, up)
  BY UpComplete
<1>3. CASE Dial \/ BeginWaiting
  <2>1. Known(client)
    BY <1>3 DEF Dial, BeginWaiting, ChainsInv, Connecting
  <2>2. client' \in Clients /\ SameChains(client, client') /\ Quiet(client')
    BY <1>1, <1>3 DEF Dial, BeginWaiting, Clients, SameChains, Quiet
  <2>3. up' \in {up, up \o <<Packet("RequestNetworkSettings", Off)>>}
    BY <1>3 DEF Dial, BeginWaiting, Plain
  <2>4. Complete(client, up')
    BY <1>1, <1>2, <2>1, <2>3, SendComplete DEF Bodies, LoginBodies, Counter
  <2>5. UNCHANGED <<player, down, games>> /\ link' \in {"down", "open", "closed"}
    BY <1>1, <1>3 DEF Dial, BeginWaiting
  <2> QED
    BY <1>1, <2>1, <2>2, <2>4, <2>5, ChainsStay
<1>4. CASE ServerUserSpawns
  <2> DEFINE s == player.spawning + 1
             x == Counted(player)
  <2>1. s \in 0..5 /\ SpawnSequence[player.spawning] \in Bodies
    BY <1>4, SpawnBodies DEF ServerUserSpawns
  <2>2. x \in Players /\ x.spawning = player.spawning /\ x.login = player.login
        /\ x.identityPublicKey = player.identityPublicKey
    BY <1>1, CountedPlayer
  <2>3. player' = [x EXCEPT !.spawning = @ + 1]
        /\ down' = down \o Sealed(player, SpawnSequence[player.spawning])
        /\ UNCHANGED <<client, link, up, games>>
    BY <1>4 DEF ServerUserSpawns
  <2>4. player' = [x EXCEPT !.spawning = s] /\ down' \in Seq(Packets)
    BY <1>1, <2>1, <2>2, <2>3, SealedPlayer
  <2> HIDE DEF s, x
  <2>5. player' \in Players /\ player'.login = x.login
        /\ player'.identityPublicKey = x.identityPublicKey
    BY <2>1, <2>2, <2>4 DEF Players
  <2> QED
    BY <1>1, <1>2, <2>2, <2>3, <2>4, <2>5, ChainsStay DEF ChainsInv, SameChains
<1>5. CASE ServerUserSends(body)
  <2>1. body \in Bodies /\ games' \in 0..MaxGames
    BY <1>1, <1>5, BoundAssumption DEF ServerUserSends, Bodies
  <2>2. player' \in Players /\ player'.login = player.login
        /\ player'.identityPublicKey = player.identityPublicKey
    BY <1>1, <1>5, CountedPlayer DEF ServerUserSends
  <2>3. down' \in Seq(Packets) /\ UNCHANGED <<client, link, up>>
    BY <1>1, <1>5, <2>1, SealedPlayer DEF ServerUserSends
  <2> QED
    BY <1>1, <1>2, <2>1, <2>2, <2>3, ChainsStay DEF ChainsInv, SameChains
<1>6. CASE ClientUserSends
  <2> DEFINE x == Counted(client)
             early == x.sentEarly \/ (~client.greeted /\ ~client.isDisconnected)
  <2>1. x \in Clients /\ Quiet(x) /\ SameChains(client, x) /\ x.connect = client.connect
    BY <1>1, CountedClient DEF SameLife
  <2>2. client' = [x EXCEPT !.sentEarly = early] /\ early \in BOOLEAN
    BY <1>1, <1>6, <2>1 DEF ClientUserSends, Clients
  <2> HIDE DEF x, early
  <2>3. client' \in Clients /\ Quiet(client') /\ SameChains(x, client')
        /\ client'.connect = x.connect
    BY <2>1, <2>2 DEF Clients, Quiet, SameChains
  <2>4. Known(client) /\ games' \in 0..MaxGames /\ UNCHANGED <<player, link, down>>
    BY <1>1, <1>6, BoundAssumption DEF ClientUserSends, ChainsInv, Connecting
  <2>5. Complete(client, up')
    BY <1>1, <1>2, <1>6, <2>4, SendComplete DEF ClientUserSends, Bodies, LoginBodies, Counter
  <2> QED
    BY <1>1, <2>1, <2>3, <2>4, <2>5, ChainsStay DEF SameChains
<1> QED
  BY <1>3, <1>4, <1>5, <1>6

\* What the client does when it gets a packet.
Received ==
  /\ link = "open" /\ down # <<>> /\ down' = Tail(down)
  /\ client' \in Clients /\ Quiet(client') /\ SameChains(client, client')
  /\ client'.listening = client.listening /\ (Straight(client') => Straight(client))
  /\ UNCHANGED <<player, games>>

LEMMA AnswerEffect ==
  ASSUME TypeOK, Quiet(client), OnNetworkSettings \/ OnLoginSequence \/ OnPlayerSpawn
  PROVE  /\ Received /\ UNCHANGED link
         /\ client'.greeted = client.greeted /\ client'.isDisconnected = client.isDisconnected
         /\ client'.recv = Next1(client.recv)
         /\ client'.send = IF client.isDisconnected THEN client.send ELSE Next1(client.send)
         /\ client'.connect \in {client.connect, "resolved"}
         /\ client'.connect = client.connect \/ (OnPlayerSpawn /\ client.connect = "waiting")
<1> DEFINE x == Opened(client)
           y == Counted(x)
<1>1. client \in Clients
  BY DEF TypeOK
<1>2. /\ x \in Clients /\ Quiet(x) /\ SameChains(client, x) /\ SameLife(client, x)
      /\ x.greeted = client.greeted /\ x.send = client.send /\ x.recv = Next1(client.recv)
  BY <1>1, OpenedClient
<1>3. /\ y \in Clients /\ Quiet(y) /\ SameChains(x, y) /\ SameLife(x, y)
      /\ y.greeted = x.greeted /\ y.recv = x.recv
      /\ x.isDisconnected => y.send = x.send
      /\ ~x.isDisconnected => y.send = Next1(x.send)
  <2> HIDE DEF x
  <2> QED
    BY <1>2, CountedClient
<1>4. \/ client' = y
      \/ client' = [y EXCEPT !.connect = IF @ = "waiting" THEN "resolved" ELSE @] /\ OnPlayerSpawn
  BY DEF OnNetworkSettings, OnLoginSequence, OnPlayerSpawn
<1>5. link = "open" /\ down # <<>> /\ down' = Tail(down) /\ UNCHANGED <<player, link, games>>
  BY DEF OnNetworkSettings, OnLoginSequence, OnPlayerSpawn, ClientGets
<1> HIDE DEF x, y
<1>6. CASE client' = y
  BY <1>2, <1>3, <1>5, <1>6 DEF Received, SameChains, SameLife
<1>7. CASE client' # y
  <2> DEFINE c == IF y.connect = "waiting" THEN "resolved" ELSE y.connect
  <2>1. client' = [y EXCEPT !.connect = c] /\ OnPlayerSpawn
    BY <1>4, <1>7
  <2>2. /\ c \in {"idle", "authenticating", "dialling", "timing out", "dialled",
                  "waiting", "resolved", "rejected"}
        /\ c = y.connect \/ (c = "resolved" /\ y.connect = "waiting")
    BY <1>3 DEF Clients
  <2> HIDE DEF c
  <2>3. /\ client' \in Clients /\ Quiet(client') /\ SameChains(y, client')
        /\ client'.greeted = y.greeted /\ client'.isDisconnected = y.isDisconnected
        /\ client'.recv = y.recv /\ client'.send = y.send /\ client'.connect = c
        /\ client'.listening = y.listening /\ (Straight(client') <=> Straight(y))
    BY <1>3, <2>1, <2>2 DEF Clients, Quiet, SameChains, Straight
  <2> QED
    BY <1>2, <1>3, <1>5, <2>1, <2>2, <2>3 DEF Received, SameChains, SameLife
<1> QED
  BY <1>6, <1>7

LEMMA StartGameEffect ==
  ASSUME TypeOK, Quiet(client), OnStartGame
  PROVE  /\ Received /\ UNCHANGED link /\ SameLife(client, client')
         /\ client'.greeted = client.greeted /\ client'.recv = Next1(client.recv)
         /\ client'.send = IF client.isDisconnected THEN client.send
                           ELSE Next1(Next1(client.send))
<1> DEFINE x == Opened(client)
           y == Counted(x)
<1>1. client \in Clients
  BY DEF TypeOK
<1>2. /\ x \in Clients /\ Quiet(x) /\ SameChains(client, x) /\ SameLife(client, x)
      /\ x.greeted = client.greeted /\ x.send = client.send /\ x.recv = Next1(client.recv)
  BY <1>1, OpenedClient
<1>3. /\ y \in Clients /\ Quiet(y) /\ SameChains(x, y) /\ SameLife(x, y)
      /\ y.greeted = x.greeted /\ y.recv = x.recv
      /\ x.isDisconnected => y.send = x.send
      /\ ~x.isDisconnected => y.send = Next1(x.send)
  <2> HIDE DEF x
  <2> QED
    BY <1>2, CountedClient
<1>4. client' = Counted(y) /\ link = "open" /\ down # <<>> /\ down' = Tail(down)
      /\ UNCHANGED <<player, link, games>>
  BY DEF OnStartGame, ClientGets
<1> HIDE DEF x, y
<1>5. /\ client' \in Clients /\ Quiet(client') /\ SameChains(y, client')
      /\ SameLife(y, client') /\ client'.greeted = y.greeted /\ client'.recv = y.recv
      /\ y.isDisconnected => client'.send = y.send
      /\ ~y.isDisconnected => client'.send = Next1(y.send)
  BY <1>3, <1>4, CountedClient
<1> QED
  BY <1>2, <1>3, <1>4, <1>5 DEF Received, SameChains, SameLife

\* The answer goes out under the new counter.
LEMMA HandshakeEffect ==
  ASSUME TypeOK, Quiet(client), OnServerHandshake
  PROVE  /\ Received /\ UNCHANGED link /\ SameLife(client, client')
         /\ ~client.greeted /\ client'.greeted /\ client'.recv = 0
         /\ client'.send = IF client.isDisconnected THEN 0 ELSE 1
         /\ up' = IF client.isDisconnected THEN up
                  ELSE up \o <<Packet("ClientToServerHandshake", 0)>>
<1> DEFINE x == [Encrypting(client) EXCEPT !.greeted = TRUE]
           y == [client EXCEPT !.send = AnswerCounter(client)]
<1>1. client \in Clients /\ up \in Seq(Packets)
  BY DEF TypeOK
<1>2. /\ x \in Clients /\ Quiet(x) /\ SameChains(client, x) /\ SameLife(client, x)
      /\ x.greeted /\ x.send = 0 /\ x.recv = 0
  BY <1>1, GreetedClient
<1>3. client' = Counted(x) /\ link = "open" /\ down # <<>> /\ down' = Tail(down)
      /\ ~client.greeted /\ up' = up \o Sealed(y, "ClientToServerHandshake")
      /\ UNCHANGED <<player, link, games>>
  BY DEF OnServerHandshake, ClientGets
<1>4. y \in Clients /\ y.send = 0 /\ y.isDisconnected = client.isDisconnected
  BY <1>1 DEF Clients, Counter, AnswerCounter
<1>5. Next1(0) = 1 /\ "ClientToServerHandshake" \in Bodies
  BY DEF Next1, Off, Bodies
<1> HIDE DEF x, y
<1>6. /\ client' \in Clients /\ Quiet(client') /\ SameChains(x, client')
      /\ SameLife(x, client') /\ client'.greeted = x.greeted /\ client'.recv = x.recv
      /\ x.isDisconnected => client'.send = x.send
      /\ ~x.isDisconnected => client'.send = Next1(x.send)
  BY <1>2, <1>3, CountedClient
<1>7. up' = IF client.isDisconnected THEN up
            ELSE up \o <<Packet("ClientToServerHandshake", 0)>>
  BY <1>1, <1>3, <1>4, <1>5, SealedClient
<1> QED
  BY <1>2, <1>3, <1>5, <1>6, <1>7 DEF Received, SameChains, SameLife

\* A packet that is not answered.
LEMMA UnansweredEffect ==
  ASSUME TypeOK, Quiet(client), OnDisconnectPacket \/ OnOther \/ OnUnreadable
  PROVE  /\ Received /\ UNCHANGED up /\ link' \in {link, "closed"}
         /\ client'.greeted = client.greeted /\ client'.send = client.send
         /\ client'.recv = Off <=> client.recv = Off
         /\ client'.connect \in {client.connect, "rejected"}
         /\ OnOther => client'.recv = Next1(client.recv)
<1> DEFINE x == Opened(client)
<1>1. client \in Clients
  BY DEF TypeOK
<1>2. /\ x \in Clients /\ Quiet(x) /\ SameChains(client, x) /\ SameLife(client, x)
      /\ x.greeted = client.greeted /\ x.send = client.send /\ x.recv = Next1(client.recv)
      /\ x.recv = Off <=> client.recv = Off
  BY <1>1, OpenedClient
<1>3. client' \in {client, x, Ended(x), Disconnecting(x)} /\ (OnOther => client' = x)
  BY DEF OnDisconnectPacket, OnOther, OnUnreadable
<1>4. link = "open" /\ down # <<>> /\ down' = Tail(down) /\ link' \in {link, "closed"}
      /\ UNCHANGED <<player, up, games>>
  BY DEF OnDisconnectPacket, OnOther, OnUnreadable, ClientGets
<1> HIDE DEF x
<1> QED
  BY <1>1, <1>2, <1>3, <1>4, EndedClient DEF Received, SameChains, SameLife

LEMMA ThrowEffect ==
  ASSUME TypeOK, Quiet(client), ListenerThrows
  PROVE  /\ Received /\ UNCHANGED link /\ ~Straight(client')
         /\ up' \in {up, up \o Sealed(client, "Answer")}
<1> DEFINE x == Opened(client)
           y == Counted(x)
<1>1. client \in Clients
  BY DEF TypeOK
<1>2. /\ link = "open" /\ down # <<>> /\ down' = Tail(down)
      /\ UNCHANGED <<player, link, games>>
      /\ up' \in {up, up \o Sealed(client, "Answer")}
      /\ client' \in {Threw(x), Threw(y)} \/ (~client.isDisconnected /\ client' = EmitThrows(x))
  BY DEF ListenerThrows, Reports
<1>3. /\ x \in Clients /\ Quiet(x) /\ SameChains(client, x) /\ SameLife(client, x)
  BY <1>1, OpenedClient
<1> HIDE DEF x
<1>4. /\ y \in Clients /\ Quiet(y) /\ SameChains(x, y) /\ SameLife(x, y)
  BY <1>3, CountedClient
<1> HIDE DEF y
<1>5. PICK z \in {x, y} : client' = Threw(z) \/ (~z.isDisconnected /\ client' = EmitThrows(z))
  BY <1>2, <1>3 DEF SameLife
<1>6. /\ z \in Clients /\ Quiet(z) /\ SameChains(client, z) /\ z.listening = client.listening
  BY <1>3, <1>4 DEF SameChains, SameLife
<1>7. /\ client' \in Clients /\ Quiet(client') /\ SameChains(z, client')
      /\ ~Straight(client') /\ client'.listening = z.listening
  BY <1>5, <1>6, ThrewClient
<1> QED
  BY <1>2, <1>6, <1>7 DEF Received, SameChains

LEMMA ClientReceivesKeepsChains ==
  ASSUME ChainsInv, ClientReceives \/ ListenerThrows
  PROVE  ChainsInv'
<1>1. /\ TypeOK /\ Quiet(client) /\ SecretsAgree /\ client \in Clients /\ player \in Players
      /\ up \in Seq(Packets) /\ down \in Seq(Packets)
      /\ link \in {"down", "open", "closed"} /\ games \in 0..MaxGames
  BY DEF ChainsInv, TypeOK
<1>2. /\ Complete(client, up) /\ (link = "open" => Known(client))
      /\ down # <<>> => Tail(down) \in Seq(Packets)
  BY <1>1, UpComplete, Taken DEF ChainsInv
<1>3. ASSUME Received, Complete(client, up'), link' \in {link, "closed"} PROVE ChainsInv'
  BY <1>1, <1>2, <1>3, ChainsStay DEF Received, SecretsAgree
<1>4. CASE OnNetworkSettings
  <2>1. Received /\ UNCHANGED link
    BY <1>1, <1>4, AnswerEffect
  <2>2. LoginBody(client) \in Bodies
        /\ (client.offline => LoginBody(client) \notin LoginBodies \ {"Login"})
    BY <1>1, <1>2, <2>1 DEF LoginBody, Clients, Bodies, LoginBodies, Received, Known
  <2>3. Complete(client, up')
    BY <1>1, <1>2, <1>4, <2>1, <2>2, SendComplete DEF OnNetworkSettings, Received, Counter
  <2> QED
    BY <1>3, <2>1, <2>3
<1>5. CASE OnLoginSequence \/ OnPlayerSpawn
  <2>1. Received /\ UNCHANGED link
    BY <1>1, <1>5, AnswerEffect
  <2>2. up' = up \o Sealed(client, "Answer")
    BY <1>5 DEF OnLoginSequence, OnPlayerSpawn
  <2>3. Complete(client, up')
    BY <1>1, <1>2, <2>1, <2>2, SendComplete DEF Received, Bodies, LoginBodies, Counter
  <2> QED
    BY <1>3, <2>1, <2>3
<1>6. CASE OnStartGame
  <2> DEFINE q == up \o Sealed(client, "Answer")
  <2>1. Received /\ UNCHANGED link
    BY <1>1, <1>6, StartGameEffect
  <2>2. "Answer" \in Bodies /\ "Answer" \notin LoginBodies /\ Counted(client) \in Clients
        /\ Off \in Counter
    BY <1>1, CountedClient DEF Bodies, LoginBodies, Counter
  <2>3. Complete(client, q)
    BY <1>1, <1>2, <2>1, <2>2, SendComplete DEF Received
  <2>4. up' = q \o Sealed(Counted(client), "Answer")
    <3>1. Sealed(client, "Answer") \in Seq(Packets)
          /\ Sealed(Counted(client), "Answer") \in Seq(Packets)
      BY <1>1, <2>2, SealedTyped
    <3> QED
      BY <1>1, <1>6, <3>1 DEF OnStartGame
  <2> HIDE DEF q
  <2>5. Complete(client, up')
    BY <1>1, <1>2, <2>1, <2>2, <2>3, <2>4, SendComplete DEF Received
  <2> QED
    BY <1>3, <2>1, <2>5
<1>7. CASE OnServerHandshake
  <2>1. Received /\ UNCHANGED link
        /\ up' = IF client.isDisconnected THEN up
                 ELSE up \o <<Packet("ClientToServerHandshake", 0)>>
    BY <1>1, <1>7, HandshakeEffect
  <2>2. Complete(client, up')
    BY <1>1, <1>2, <2>1, SendComplete DEF Received, Bodies, LoginBodies, Counter
  <2> QED
    BY <1>3, <2>1, <2>2
<1>8. CASE OnDisconnectPacket \/ OnOther \/ OnUnreadable
  <2>1. Received /\ UNCHANGED up /\ link' \in {link, "closed"}
    BY <1>1, <1>8, UnansweredEffect
  <2> QED
    BY <1>2, <1>3, <2>1
<1>9. CASE ListenerThrows
  <2>1. Received /\ UNCHANGED link /\ up' \in {up, up \o Sealed(client, "Answer")}
    BY <1>1, <1>9, ThrowEffect
  <2>2. Complete(client, up')
    BY <1>1, <1>2, <2>1, SendComplete DEF Received, Bodies, LoginBodies, Counter
  <2> QED
    BY <1>3, <2>1, <2>2
<1> QED
  BY <1>4, <1>5, <1>6, <1>7, <1>8, <1>9 DEF ClientReceives

LEMMA LastOfJoined ==
  ASSUME NEW S, NEW c \in Seq(S), NEW a \in Seq(S), a # <<>>
  PROVE  c \o a # <<>> /\ Last(c \o a) = Last(a)
<1> DEFINE r == c \o a
<1>1. Len(a) \in Nat \ {0} /\ Len(c) \in Nat /\ r \in Seq(S) /\ Len(r) = Len(c) + Len(a)
  OBVIOUS
<1>2. r[Len(c) + Len(a)] = a[Len(a)]
  BY <1>1
<1> HIDE DEF r
<1>3. r # <<>> /\ Last(r) = Last(a)
  BY <1>1, <1>2 DEF Last
<1> QED
  BY <1>3 DEF r

\* Whatever of the chains the login carries, the key is the client's.
LEMMA KeyOfLogin ==
  ASSUME NEW x, Known(x), NEW body \in LoginBodies, x = client,
         client.offline => body \notin LoginBodies \ {"Login"}
  PROVE  IdentityPublicKey(IdentityChain(body) \o x.accessToken, x.loginToken) = "client"
<1> DEFINE t == [chain |-> x.accessToken, token |-> x.loginToken]
<1>1. CASE x.offline
  <2>1. x.accessToken = <<>> /\ IdentityChain(body) = <<"client">>
    BY <1>1 DEF Known, Tokens, IdentityChain, LoginBodies
  <2>2. <<"client">> \o <<>> = <<"client">> /\ Last(<<"client">>) = "client"
    BY DEF Last
  <2> QED
    BY <2>1, <2>2 DEF IdentityPublicKey
<1>2. CASE ~x.offline
  <2>1. t \in [chain : {<<"client">>, <<"service", "client">>}, token : {"none", "client"}]
    BY <1>2 DEF Known, Tokens
  <2>2. x.accessToken \in {<<"client">>, <<"service", "client">>}
    BY <2>1
  <2>3. IdentityChain(body) \in {<<>>, <<"service">>}
    BY <1>2 DEF IdentityChain
  <2>4. /\ <<>> \in Seq({"client", "service"}) /\ <<"service">> \in Seq({"client", "service"})
        /\ <<"client">> \in Seq({"client", "service"}) /\ <<"client">> # <<>>
        /\ <<"service", "client">> \in Seq({"client", "service"})
        /\ <<"service", "client">> # <<>>
    OBVIOUS
  <2>5. Last(<<"client">>) = "client" /\ Last(<<"service", "client">>) = "client"
    BY DEF Last
  <2> DEFINE c == IdentityChain(body)
             a == x.accessToken
  <2>6. c \in Seq({"client", "service"}) /\ a \in Seq({"client", "service"}) /\ a # <<>>
        /\ Last(a) = "client"
    BY <2>2, <2>3, <2>4, <2>5
  <2> HIDE DEF c, a
  <2>7. c \o a # <<>> /\ Last(c \o a) = "client"
    BY <2>6, LastOfJoined
  <2> QED
    BY <2>7 DEF IdentityPublicKey, c, a
<1> QED
  BY <1>1, <1>2

\* What the player does when it gets a packet.
Taking ==
  /\ ~player.isDisconnected /\ up # <<>> /\ Readable(player, Head(up)) /\ up' = Tail(up)
  /\ player' \in Players /\ player'.isDisconnected = player.isDisconnected
  /\ UNCHANGED <<client, link, games>>

LEMMA OnLoginEffect ==
  ASSUME ChainsInv, OnLogin
  PROVE  /\ Taking /\ UNCHANGED down /\ Head(up).body \in LoginBodies
         /\ player'.login = "importing" /\ player'.identityPublicKey = "client"
         /\ player'.send = player.send /\ player'.recv = Next1(player.recv)
         /\ player'.spawning = player.spawning
<1> DEFINE x == Opened(player)
<1>1. player \in Players /\ up \in Seq(Packets)
  BY DEF ChainsInv, TypeOK
<1>2. /\ x \in Players /\ x.login = player.login /\ x.send = player.send
      /\ x.isDisconnected = player.isDisconnected /\ x.spawning = player.spawning
      /\ x.recv = Next1(player.recv)
  BY <1>1, OpenedPlayer
<1>3. PICK body \in LoginBodies :
        /\ PlayerGets(body)
        /\ player' = [x EXCEPT !.login = "importing",
                      !.identityPublicKey = IdentityPublicKey(
                         IdentityChain(body) \o client.accessToken, client.loginToken)]
        /\ UNCHANGED <<client, link, down, games>>
  BY DEF OnLogin
<1>4. /\ ~player.isDisconnected /\ up # <<>> /\ Head(up).body = body
      /\ Readable(player, Head(up)) /\ up' = Tail(up)
  BY <1>3 DEF PlayerGets
<1>5. Known(client) /\ (client.offline => body \notin LoginBodies \ {"Login"})
  <2>1. Head(up) = up[1] /\ 1 \in 1..Len(up)
    BY <1>1, <1>4
  <2> QED
    BY <1>4, <2>1 DEF ChainsInv, LoginIsComplete
<1>6. IdentityPublicKey(IdentityChain(body) \o client.accessToken, client.loginToken) = "client"
  BY <1>5, KeyOfLogin
<1> HIDE DEF x
<1>7. player' = [x EXCEPT !.login = "importing", !.identityPublicKey = "client"]
  BY <1>3, <1>6
<1>8. /\ player' \in Players /\ player'.login = "importing"
      /\ player'.identityPublicKey = "client" /\ player'.send = x.send
      /\ player'.recv = x.recv /\ player'.isDisconnected = x.isDisconnected
      /\ player'.spawning = x.spawning
  BY <1>2, <1>7 DEF Players
<1> QED
  BY <1>2, <1>3, <1>4, <1>8 DEF Taking

\* between and after the awaits of handleLogin
LEMMA HandleLoginEffect ==
  ASSUME TypeOK, LoginAwaits \/ LoginSigned
  PROVE  /\ HandlesLogin(player) /\ player' \in Players /\ player'.spawning = player.spawning
         /\ player'.identityPublicKey = player.identityPublicKey
         /\ player'.isDisconnected = player.isDisconnected
         /\ UNCHANGED <<client, link, up, games>>
         /\ LoginAwaits => /\ HandlesLogin(player') /\ player'.send = player.send
                           /\ player'.recv = player.recv /\ UNCHANGED down
         /\ LoginSigned => /\ player'.login = "done" /\ player'.send = 0 /\ player'.recv = 0
                           /\ down' = down \o Sealed(player, "ServerToClientHandshake")
<1>1. player \in Players
  BY DEF TypeOK
<1>2. CASE LoginAwaits
  <2> DEFINE l == IF player.login = "importing" THEN "importing key" ELSE "signing"
  <2>1. /\ player' = [player EXCEPT !.login = l]
        /\ player.login \in {"importing", "importing key"}
        /\ UNCHANGED <<client, link, up, down, games>>
    BY <1>2 DEF LoginAwaits
  <2>2. l \in {"importing key", "signing"}
    OBVIOUS
  <2> HIDE DEF l
  <2>3. ~LoginSigned
    BY <2>1 DEF LoginSigned
  <2> QED
    BY <1>1, <2>1, <2>2, <2>3 DEF Players, HandlesLogin
<1>3. CASE LoginSigned
  <2> DEFINE x == Encrypting(player)
  <2>1. /\ x \in Players /\ x.send = 0 /\ x.recv = 0 /\ x.spawning = player.spawning
        /\ x.identityPublicKey = player.identityPublicKey
        /\ x.isDisconnected = player.isDisconnected
    BY <1>1 DEF Encrypting, Players, Counter
  <2>2. /\ player.login = "signing" /\ player' = [x EXCEPT !.login = "done"]
        /\ down' = down \o Sealed(player, "ServerToClientHandshake")
        /\ UNCHANGED <<client, link, up, games>>
    BY <1>3 DEF LoginSigned
  <2> HIDE DEF x
  <2>3. ~LoginAwaits
    BY <2>2 DEF LoginAwaits
  <2> QED
    BY <2>1, <2>2, <2>3 DEF Players, HandlesLogin
<1> QED
  BY <1>2, <1>3

LEMMA WelcomeEffect ==
  ASSUME TypeOK, OnClientHandshake
  PROVE  /\ Taking /\ Head(up).body = "ClientToServerHandshake"
         /\ player'.login = player.login
         /\ player'.identityPublicKey = player.identityPublicKey
         /\ player'.send = Next1(player.send) /\ player'.recv = Next1(player.recv)
         /\ down' = down \o <<Packet("PlayStatus", player.send)>> /\ down' \in Seq(Packets)
<1> DEFINE x == Opened(player)
           y == Counted(x)
<1>1. player \in Players /\ down \in Seq(Packets)
  BY DEF TypeOK
<1>2. /\ ~player.isDisconnected /\ up # <<>> /\ Head(up).body = "ClientToServerHandshake"
      /\ Readable(player, Head(up)) /\ up' = Tail(up) /\ player' = [y EXCEPT !.spawning = 1]
      /\ down' = down \o Sealed(player, "PlayStatus")
      /\ UNCHANGED <<client, link, games>>
  BY DEF OnClientHandshake, PlayerGets
<1>3. /\ x \in Players /\ x.login = player.login /\ x.send = player.send
      /\ x.identityPublicKey = player.identityPublicKey
      /\ x.isDisconnected = player.isDisconnected /\ x.recv = Next1(player.recv)
  BY <1>1, OpenedPlayer
<1> HIDE DEF x
<1>4. /\ y \in Players /\ y.login = x.login /\ y.send = Next1(x.send)
      /\ y.identityPublicKey = x.identityPublicKey
      /\ y.isDisconnected = x.isDisconnected /\ y.recv = x.recv
  BY <1>2, <1>3, CountedPlayer
<1> HIDE DEF y
<1>5. /\ player' \in Players /\ player'.login = y.login /\ player'.send = y.send
      /\ player'.identityPublicKey = y.identityPublicKey
      /\ player'.isDisconnected = y.isDisconnected /\ player'.recv = y.recv
  <2>1. 1 \in 0..5
    OBVIOUS
  <2> QED
    BY <1>2, <1>4, <2>1 DEF Players
<1>6. down' = down \o <<Packet("PlayStatus", player.send)>> /\ down' \in Seq(Packets)
  BY <1>1, <1>2, SealedPlayer DEF Bodies
<1> QED
  BY <1>2, <1>3, <1>4, <1>5, <1>6 DEF Taking

LEMMA ThrowUpEffect ==
  ASSUME TypeOK, ListenerThrowsUp
  PROVE  /\ Taking /\ UNCHANGED down /\ player'.login = player.login
         /\ player'.identityPublicKey = player.identityPublicKey
         /\ player'.send = player.send /\ player'.recv = Next1(player.recv)
         /\ player'.spawning = player.spawning
<1> DEFINE x == Opened(player)
<1>1. player \in Players
  BY DEF TypeOK
<1>2. /\ ~player.isDisconnected /\ up # <<>> /\ Readable(player, Head(up)) /\ up' = Tail(up)
      /\ player' = [x EXCEPT !.threw = TRUE] /\ UNCHANGED <<client, link, down, games>>
  BY DEF ListenerThrowsUp, PlayerGets, Threw
<1>3. /\ x \in Players /\ x.login = player.login /\ x.send = player.send
      /\ x.identityPublicKey = player.identityPublicKey
      /\ x.isDisconnected = player.isDisconnected /\ x.recv = Next1(player.recv)
      /\ x.spawning = player.spawning
  BY <1>1, OpenedPlayer
<1> HIDE DEF x
<1>4. /\ player' \in Players /\ player'.login = x.login /\ player'.send = x.send
      /\ player'.identityPublicKey = x.identityPublicKey
      /\ player'.isDisconnected = x.isDisconnected /\ player'.recv = x.recv
      /\ player'.spawning = x.spawning
  BY <1>2, <1>3 DEF Players
<1> QED
  BY <1>2, <1>3, <1>4 DEF Taking

LEMMA PlayerKeepsChains ==
  ASSUME ChainsInv, PlayerReceives \/ ListenerThrowsUp \/ LoginAwaits \/ LoginSigned
  PROVE  ChainsInv'
<1>1. /\ TypeOK /\ Quiet(client) /\ SecretsAgree /\ client \in Clients /\ player \in Players
      /\ up \in Seq(Packets) /\ down \in Seq(Packets)
      /\ link \in {"down", "open", "closed"} /\ games \in 0..MaxGames
      /\ Complete(client, up) /\ (up # <<>> => Complete(client, Tail(up)))
  BY UpComplete DEF ChainsInv, TypeOK
<1>2. ASSUME player' \in Players, down' \in Seq(Packets), UNCHANGED <<client, link, games>>,
             player'.login # "none" => player'.identityPublicKey = "client",
             up' = up \/ (up' = Tail(up) /\ up # <<>>)
      PROVE  ChainsInv'
  BY <1>1, <1>2, ChainsStay DEF ChainsInv, SameChains
<1>3. CASE OnLogin
  BY <1>1, <1>2, <1>3, OnLoginEffect DEF Taking
<1>4. CASE LoginAwaits \/ LoginSigned
  <2>1. down' \in Seq(Packets) /\ player.login # "none"
    BY <1>1, <1>4, HandleLoginEffect, SealedPlayer DEF Bodies, HandlesLogin
  <2> QED
    BY <1>1, <1>2, <1>4, <2>1, HandleLoginEffect DEF SecretsAgree
<1>5. CASE OnClientHandshake
  BY <1>1, <1>2, <1>5, WelcomeEffect DEF Taking, SecretsAgree
<1>6. CASE OnRequestNetworkSettings \/ OnOtherUp
  <2>1. /\ player' = Opened(player) /\ up # <<>> /\ up' = Tail(up)
        /\ UNCHANGED <<client, link, games>>
        /\ down' = down \o <<Packet("NetworkSettings", Off)>> \/ down' = down
    BY <1>6 DEF OnRequestNetworkSettings, OnOtherUp, PlayerGets, Plain
  <2>2. down' \in Seq(Packets)
    BY <1>1, <2>1, PacketTyped, Appended DEF Bodies, Counter
  <2> QED
    BY <1>1, <1>2, <2>1, <2>2, OpenedPlayer DEF SecretsAgree
<1>7. CASE OnUnreadableUp
  <2> DEFINE x == Opened(player)
  <2>1. /\ player' \in {player, [x EXCEPT !.isDisconnected = TRUE]} /\ up # <<>>
        /\ up' = Tail(up) /\ UNCHANGED <<client, link, down, games>>
    BY <1>7 DEF OnUnreadableUp
  <2>2. /\ x \in Players /\ x.login = player.login
        /\ x.identityPublicKey = player.identityPublicKey
    BY <1>1, OpenedPlayer
  <2> HIDE DEF x
  <2>3. /\ player' \in Players /\ player'.login = player.login
        /\ player'.identityPublicKey = player.identityPublicKey
    BY <1>1, <2>1, <2>2 DEF Players
  <2> QED
    BY <1>1, <1>2, <2>1, <2>3 DEF SecretsAgree
<1>8. CASE ListenerThrowsUp
  BY <1>1, <1>2, <1>8, ThrowUpEffect DEF Taking, SecretsAgree
<1> QED
  BY <1>3, <1>4, <1>5, <1>6, <1>7, <1>8 DEF PlayerReceives

LEMMA InitChains == Init => ChainsInv
<1> SUFFICES ASSUME Init
             PROVE  ChainsInv
  OBVIOUS
<1>1. client \in Clients /\ client.reports = 0 /\ client.connect = "idle"
  BY DEF Init, Clients, Counter
<1>2. player \in Players /\ player.login = "none"
  BY DEF Init, Players, Counter
<1>3. up = <<>> /\ down = <<>> /\ link = "down" /\ games \in 0..MaxGames
      /\ <<>> \in Seq(Packets) /\ Len(<<>>) = 0
  BY BoundAssumption DEF Init
<1> QED
  BY <1>1, <1>2, <1>3 DEF ChainsInv, TypeOK, Quiet, LoginIsComplete, SecretsAgree, Connecting

LEMMA ChainsStep == ChainsInv /\ [Next]_vars => ChainsInv'
<1> SUFFICES ASSUME ChainsInv, [Next]_vars
             PROVE  ChainsInv'
  OBVIOUS
<1>1. CASE UNCHANGED vars
  BY <1>1 DEF vars, ChainsInv, TypeOK, Quiet, LoginIsComplete, SecretsAgree, Known, Tokens,
     Connecting
<1>2. CASE Next
  BY <1>2, EndingKeepsChains, ConnectingKeepsChains, SendingKeepsChains,
     ClientReceivesKeepsChains, PlayerKeepsChains DEF Next
<1> QED
  BY <1>1, <1>2

LEMMA ChainsAlways == Spec => []ChainsInv
BY InitChains, ChainsStep, PTL DEF Spec

-------------------------------------------------------------------------------
(* A queue that grows at its end and shrinks at its head *)

LEMMA QueueAppended ==
  ASSUME NEW q \in Seq(Packets), NEW m \in Packets, NEW r, r = q \o <<m>>
  PROVE  /\ r \in Seq(Packets) /\ Len(r) = Len(q) + 1 /\ Len(q) \in Nat /\ r # <<>>
         /\ \A B : Holds(r, B) <=> Holds(q, B) \/ m.body \in B
         /\ \A B : Single(q, B) /\ (m.body \in B => ~Holds(q, B)) => Single(r, B)
         /\ Clear(r) <=> Clear(q) /\ m.counter = Off
         /\ \A n : Counting(q, n) /\ m.counter = n + Len(q) => Counting(r, n)
         /\ q = <<>> => Len(r) = 1
<1>1. /\ r \in Seq(Packets) /\ Len(r) = Len(q) + 1 /\ Len(q) \in Nat
      /\ DOMAIN q = 1..Len(q) /\ DOMAIN r = 1..(Len(q) + 1)
      /\ \A i \in DOMAIN q : r[i] = q[i]
      /\ r[Len(q) + 1] = m
  BY Appended
<1>2. DOMAIN r = DOMAIN q \cup {Len(q) + 1} /\ r # <<>> /\ (q = <<>> => Len(r) = 1)
  BY <1>1
<1>3. ASSUME NEW B PROVE Holds(r, B) <=> Holds(q, B) \/ m.body \in B
  BY <1>1, <1>2 DEF Holds
<1>4. ASSUME NEW B, Single(q, B), m.body \in B => ~Holds(q, B) PROVE Single(r, B)
  BY <1>1, <1>2, <1>4 DEF Single, Holds
<1>5. Clear(r) <=> Clear(q) /\ m.counter = Off
  BY <1>1, <1>2 DEF Clear
<1>6. ASSUME NEW n, Counting(q, n), m.counter = n + Len(q) PROVE Counting(r, n)
  <2>1. Len(q) + 1 - 1 = Len(q)
    BY <1>1
  <2> QED
    BY <1>1, <1>2, <1>6, <2>1 DEF Counting
<1> QED
  BY <1>1, <1>2, <1>3, <1>4, <1>5, <1>6

LEMMA QueueTaken ==
  ASSUME NEW q \in Seq(Packets), q # <<>>, NEW r, r = Tail(q)
  PROVE  /\ r \in Seq(Packets) /\ Len(r) = Len(q) - 1 /\ Len(q) \in Nat \ {0}
         /\ \A B : Holds(q, B) <=> Holds(r, B) \/ Head(q).body \in B
         /\ \A B : Single(q, B) => Single(r, B) /\ ~(Holds(r, B) /\ Head(q).body \in B)
         /\ Clear(q) => Clear(r) /\ Head(q).counter = Off
         /\ \A n \in Int : Counting(q, n) => Counting(r, n + 1) /\ Head(q).counter = n
         /\ Len(q) = 1 => r = <<>>
<1>1. /\ r \in Seq(Packets) /\ Len(r) = Len(q) - 1 /\ Len(q) \in Nat \ {0}
      /\ DOMAIN q = 1..Len(q) /\ DOMAIN r = 1..(Len(q) - 1)
      /\ \A i \in DOMAIN r : i + 1 \in DOMAIN q /\ r[i] = q[i + 1]
      /\ Head(q) = q[1] /\ 1 \in DOMAIN q
  BY Taken
<1>2. (Len(q) = 1 => r = <<>>) /\ \A i \in DOMAIN q : i = 1 \/ (i - 1 \in DOMAIN r /\ r[i - 1] = q[i])
  BY <1>1
<1>3. ASSUME NEW B PROVE Holds(q, B) <=> Holds(r, B) \/ Head(q).body \in B
  BY <1>1, <1>2 DEF Holds
<1>4. ASSUME NEW B, Single(q, B)
      PROVE  Single(r, B) /\ ~(Holds(r, B) /\ Head(q).body \in B)
  <2>1. Single(r, B)
    <3>1. ASSUME NEW i \in DOMAIN r, NEW j \in DOMAIN r, r[i].body \in B, r[j].body \in B
          PROVE  i = j
      <4>1. i + 1 = j + 1
        BY <1>1, <1>4, <3>1 DEF Single
      <4> QED
        BY <1>1, <4>1
    <3> QED
      BY <3>1 DEF Single
  <2>2. ~(Holds(r, B) /\ Head(q).body \in B)
    <3>1. \A i \in DOMAIN r : i + 1 # 1
      BY <1>1
    <3> QED
      BY <1>1, <1>4, <3>1 DEF Single, Holds
  <2> QED
    BY <2>1, <2>2
<1>5. Clear(q) => Clear(r) /\ Head(q).counter = Off
  BY <1>1 DEF Clear
<1>6. ASSUME NEW n \in Int, Counting(q, n) PROVE Counting(r, n + 1) /\ Head(q).counter = n
  <2>1. Head(q).counter = n
    BY <1>1, <1>6 DEF Counting
  <2>2. ASSUME NEW i \in DOMAIN r PROVE r[i].counter = n + 1 + i - 1
    BY <1>1, <1>6, <2>2 DEF Counting
  <2> QED
    BY <2>1, <2>2 DEF Counting
<1> QED
  BY <1>1, <1>2, <1>3, <1>4, <1>5, <1>6

LEMMA BehindTaken ==
  ASSUME NEW d \in Seq(Packets), d # <<>>, NEW k \in DOMAIN d, NEW sent,
         BehindHandshake(d, k, sent), NEW r, r = Tail(d)
  PROVE  /\ Head(d).counter = Off
         /\ k = 1 => Counting(r, 0) /\ sent = Len(r)
         /\ k # 1 => \E j \in DOMAIN r : BehindHandshake(r, j, sent)
         /\ Head(d).body # "ServerToClientHandshake" => k # 1
<1>1. /\ r \in Seq(Packets) /\ Len(r) = Len(d) - 1 /\ Len(d) \in Nat
      /\ DOMAIN d = 1..Len(d) /\ DOMAIN r = 1..(Len(d) - 1)
      /\ \A i \in DOMAIN r : i + 1 \in DOMAIN d /\ r[i] = d[i + 1]
      /\ Head(d) = d[1] /\ 1 \in DOMAIN d /\ k \in 1..Len(d)
  BY Taken
<1>2. /\ d[k].body = "ServerToClientHandshake" /\ sent = Len(d) - k
      /\ \A i \in DOMAIN d : d[i].counter = IF i <= k THEN Off ELSE i - k - 1
  BY DEF BehindHandshake
<1>3. Head(d).counter = Off /\ (Head(d).body # "ServerToClientHandshake" => k # 1)
  BY <1>1, <1>2
<1>4. ASSUME k = 1 PROVE Counting(r, 0) /\ sent = Len(r)
  BY <1>1, <1>2, <1>4 DEF Counting
<1>5. ASSUME k # 1 PROVE k - 1 \in DOMAIN r /\ BehindHandshake(r, k - 1, sent)
  <2>1. /\ k - 1 \in DOMAIN r /\ k - 1 + 1 = k /\ r[k - 1] = d[k]
        /\ sent = Len(r) - (k - 1)
    BY <1>1, <1>2, <1>5
  <2>2. ASSUME NEW i \in DOMAIN r
        PROVE  r[i].counter = IF i <= k - 1 THEN Off ELSE i - (k - 1) - 1
    BY <1>1, <1>2, <2>2
  <2> QED
    BY <1>2, <2>1, <2>2 DEF BehindHandshake
<1> QED
  BY <1>3, <1>4, <1>5

LEMMA BehindAppended ==
  ASSUME NEW d \in Seq(Packets), NEW m \in Packets, NEW r, r = d \o <<m>>
  PROVE  /\ \A sent \in Nat, k \in DOMAIN d :
              BehindHandshake(d, k, sent) /\ m.counter = sent
                => k \in DOMAIN r /\ BehindHandshake(r, k, sent + 1)
         /\ Clear(d) /\ m.counter = Off /\ m.body = "ServerToClientHandshake"
              => \E k \in DOMAIN r : BehindHandshake(r, k, 0)
<1>1. /\ r \in Seq(Packets) /\ Len(r) = Len(d) + 1 /\ Len(d) \in Nat
      /\ DOMAIN d = 1..Len(d) /\ DOMAIN r = 1..(Len(d) + 1)
      /\ \A i \in DOMAIN d : r[i] = d[i]
      /\ r[Len(d) + 1] = m
  BY Appended
<1>2. ASSUME NEW sent \in Nat, NEW k \in DOMAIN d, BehindHandshake(d, k, sent),
             m.counter = sent
      PROVE  k \in DOMAIN r /\ BehindHandshake(r, k, sent + 1)
  <2>1. /\ d[k].body = "ServerToClientHandshake" /\ sent = Len(d) - k
        /\ \A i \in DOMAIN d : d[i].counter = IF i <= k THEN Off ELSE i - k - 1
    BY <1>2 DEF BehindHandshake
  <2>2. k \in DOMAIN r /\ r[k] = d[k] /\ sent + 1 = Len(r) - k
    BY <1>1, <2>1
  <2>3. ASSUME NEW i \in DOMAIN r
        PROVE  r[i].counter = IF i <= k THEN Off ELSE i - k - 1
    <3>1. CASE i \in DOMAIN d
      BY <1>1, <2>1, <3>1
    <3>2. CASE i = Len(d) + 1
      BY <1>1, <1>2, <2>1, <3>2
    <3> QED
      BY <1>1, <3>1, <3>2
  <2> QED
    BY <2>1, <2>2, <2>3 DEF BehindHandshake
<1>3. ASSUME Clear(d), m.counter = Off, m.body = "ServerToClientHandshake"
      PROVE  \E k \in DOMAIN r : BehindHandshake(r, k, 0)
  <2>1. \A i \in DOMAIN r : r[i].counter = Off /\ i <= Len(r)
    BY <1>1, <1>3 DEF Clear
  <2>2. Len(r) \in DOMAIN r /\ r[Len(r)] = m /\ 0 = Len(r) - Len(r)
    BY <1>1
  <2>3. BehindHandshake(r, Len(r), 0)
    BY <1>3, <2>1, <2>2 DEF BehindHandshake
  <2> QED
    BY <2>2, <2>3
<1> QED
  BY <1>2, <1>3

-------------------------------------------------------------------------------
(* What the client takes and sends *)

LEMMA CounterNumbers ==
  /\ \A n \in Counter : n \in Int /\ (n # Off => n \in Nat /\ Next1(n) = n + 1)
  /\ Next1(Off) = Off /\ 0 # Off /\ Off \in Int
BY DEF Counter, Next1, Off

LEMMA InOrder ==
  ASSUME NEW c \in Clients, NEW p \in Players, NEW l, NEW u \in Seq(Packets),
         NEW d \in Seq(Packets), StepOK(c, p, l, u, d)
  PROVE  /\ u # <<>> => Head(u).counter = p.recv
         /\ d # <<>> /\ l = "open" /\ c.listening => Head(d).counter = c.recv
<1>1. /\ c.recv \in Counter /\ p.recv \in Counter
  BY DEF Clients, Players
<1>2. ASSUME u # <<>> PROVE Head(u).counter = p.recv
  <2>1. CASE c.greeted
    BY <1>1, <1>2, <2>1, QueueTaken, CounterNumbers DEF StepOK, UpInStep
  <2>2. CASE ~c.greeted
    <3>1. p.login = "none" /\ p.recv = Off
      BY <1>2, <2>2 DEF StepOK, OneAtATime, Encrypted
    <3> QED
      BY <1>2, <2>2, <3>1, QueueTaken DEF StepOK, UpInStep
  <2> QED
    BY <2>1, <2>2
<1>3. ASSUME d # <<>>, l = "open", c.listening PROVE Head(d).counter = c.recv
  <2>1. DownInStep(c, p, d)
    BY <1>3 DEF StepOK
  <2>2. CASE c.greeted
    BY <1>1, <1>3, <2>1, <2>2, QueueTaken, CounterNumbers DEF DownInStep
  <2>3. CASE ~c.greeted /\ p.login # "done"
    BY <1>3, <2>1, <2>3, QueueTaken DEF StepOK, DownInStep, Encrypted
  <2>4. CASE ~c.greeted /\ p.login = "done"
    <3>1. PICK k \in DOMAIN d : BehindHandshake(d, k, p.send)
      BY <2>1, <2>4 DEF DownInStep
    <3> QED
      BY <1>3, <2>4, <3>1, BehindTaken DEF StepOK, Encrypted
  <2> QED
    BY <2>2, <2>3, <2>4
<1> QED
  BY <1>2, <1>3

\* Taking a packet that is not the handshake, and ending, or listening no more
LEMMA ClientTakes ==
  ASSUME NEW c \in Clients, NEW p \in Players, NEW l, NEW u \in Seq(Packets),
         NEW d \in Seq(Packets), StepOK(c, p, l, u, d), d # <<>>, NEW x, NEW l2,
         l = "open", l2 \in {l, "closed"}, x.connect \in {c.connect, "rejected"},
         x.greeted = c.greeted, x.send = c.send, x.recv = Off <=> c.recv = Off,
         l2 = "open" /\ x.listening =>
           c.listening /\ x.recv = Next1(c.recv) /\ Head(d).body # "ServerToClientHandshake"
  PROVE  StepOK(x, p, l2, u, Tail(d))
<1> DEFINE r == Tail(d)
<1>1. /\ r \in Seq(Packets) /\ Len(r) = Len(d) - 1 /\ Len(d) \in Nat \ {0}
      /\ \A B : Holds(r, B) => Holds(d, B)
      /\ \A B : Single(d, B) => Single(r, B)
      /\ Clear(d) => Clear(r)
      /\ \A n \in Int : Counting(d, n) => Counting(r, n + 1)
  BY QueueTaken
<1>2. \A k \in DOMAIN d : BehindHandshake(d, k, p.send)
        /\ Head(d).body # "ServerToClientHandshake"
        => \E j \in DOMAIN r : BehindHandshake(r, j, p.send)
  BY BehindTaken
<1> HIDE DEF r
<1>3. Encrypted(x, p) /\ UpInStep(x, p, u) /\ (Undialled(x) => Undialled(c))
      /\ (Unlinked(x) => Unlinked(c)) /\ l2 # "down"
  BY DEF StepOK, Encrypted, UpInStep, Undialled, Unlinked
<1>4. OneAtATime(x, p, u, r)
  BY <1>1, <1>3 DEF StepOK, OneAtATime
<1>5. Greeted(x, p, u, r)
  BY <1>1 DEF StepOK, Greeted
<1>6. ASSUME l2 = "open", x.listening PROVE DownInStep(x, p, r)
  <2>1. DownInStep(c, p, d) /\ x.recv = Next1(c.recv) /\ c.recv \in Counter
    BY <1>6 DEF StepOK, Clients
  <2>2. CASE c.greeted
    <3>1. c.recv \in Nat /\ x.recv = c.recv + 1
      BY <2>1, <2>2, CounterNumbers DEF StepOK, Encrypted
    <3>2. Counting(d, c.recv) /\ p.send = c.recv + Len(d) /\ p.login = "done"
      BY <2>1, <2>2 DEF StepOK, DownInStep, Encrypted
    <3>3. Counting(r, x.recv) /\ p.send = x.recv + Len(r)
      BY <1>1, <3>1, <3>2
    <3> QED
      BY <2>2, <3>2, <3>3 DEF DownInStep
  <2>3. CASE ~c.greeted
    BY <1>1, <1>2, <1>6, <2>1, <2>3 DEF DownInStep
  <2> QED
    BY <2>2, <2>3
<1>7. StepOK(x, p, l2, u, r)
  BY <1>1, <1>3, <1>4, <1>5, <1>6 DEF StepOK
<1> QED
  BY <1>7 DEF r

\* The handshake: what is behind it is counted from 0 on.
LEMMA ClientIsGreeted ==
  ASSUME NEW c \in Clients, NEW p \in Players, NEW l, NEW u \in Seq(Packets),
         NEW d \in Seq(Packets), StepOK(c, p, l, u, d), d # <<>>, NEW x,
         l = "open", c.listening, Head(d).body = "ServerToClientHandshake",
         x.connect = c.connect, x.greeted, x.send = 0, x.recv = 0
  PROVE  StepOK(x, p, l, u, Tail(d)) /\ u = <<>> /\ ~c.greeted
<1> DEFINE r == Tail(d)
<1>1. /\ r \in Seq(Packets) /\ Len(r) = Len(d) - 1 /\ Len(d) \in Nat \ {0}
      /\ Holds(d, Replies) /\ Holds(d, {"ServerToClientHandshake"})
      /\ ~Holds(r, Replies) /\ Single(r, Replies)
      /\ \A B : Holds(r, B) => Holds(d, B)
      /\ ~Holds(r, {"NetworkSettings"}) /\ ~Holds(r, {"ServerToClientHandshake"})
  <2>1. /\ r \in Seq(Packets) /\ Len(r) = Len(d) - 1 /\ Len(d) \in Nat \ {0}
        /\ Holds(d, Replies) /\ Holds(d, {"ServerToClientHandshake"})
        /\ \A B : Holds(r, B) => Holds(d, B)
    <3>1. \A B : Head(d).body \in B => Holds(d, B)
      BY QueueTaken
    <3>2. Head(d).body \in Replies /\ Head(d).body \in {"ServerToClientHandshake"}
      BY DEF Replies
    <3> QED
      BY <3>1, <3>2, QueueTaken
  <2>2. ~Holds(r, Replies) /\ Single(r, Replies)
    BY QueueTaken DEF Replies, StepOK, OneAtATime
  <2>3. Holds(r, {"NetworkSettings"}) \/ Holds(r, {"ServerToClientHandshake"}) => Holds(r, Replies)
    BY DEF Holds, Replies
  <2> QED
    BY <2>1, <2>2, <2>3
<1>2. /\ u = <<>> /\ ~c.greeted /\ p.login = "done" /\ p.recv = 0
  BY <1>1, CounterNumbers DEF StepOK, OneAtATime, UpInStep, Encrypted
<1>3. DownInStep(x, p, r)
  <2>1. PICK k \in DOMAIN d : BehindHandshake(d, k, p.send)
    BY <1>2 DEF StepOK, DownInStep
  <2>2. k = 1
    <3>1. Head(d) = d[1] /\ 1 \in DOMAIN d /\ d[k].body = "ServerToClientHandshake"
      BY <2>1 DEF BehindHandshake
    <3> QED
      BY <3>1 DEF StepOK, OneAtATime, Single, Replies
  <2>3. Counting(r, 0) /\ p.send = Len(r)
    BY <2>1, <2>2, BehindTaken
  <2> QED
    BY <1>1, <1>2, <2>3 DEF DownInStep
<1> HIDE DEF r
<1>4. Encrypted(x, p) /\ ~Undialled(x) /\ ~Unlinked(x) /\ x.connect # "dialled"
  BY <1>2, CounterNumbers DEF StepOK, OneAtATime, Encrypted, Undialled, Unlinked
<1>5. OneAtATime(x, p, u, r) /\ Greeted(x, p, u, r) /\ UpInStep(x, p, u)
  <2>1. ~Holds(u, Requests) /\ Counting(u, 0) /\ Len(u) = 0
    BY <1>2 DEF Holds, Counting
  <2> QED
    BY <1>1, <1>2, <1>4, <2>1 DEF OneAtATime, Greeted, UpInStep, HandlesLogin
<1>6. StepOK(x, p, l, u, r)
  BY <1>3, <1>4, <1>5 DEF StepOK
<1> QED
  BY <1>2, <1>6 DEF r

\* A client that has answered the handshake sends under the next number.
LEMMA ClientSends ==
  ASSUME NEW c \in Clients, NEW p \in Players, NEW l, NEW u \in Seq(Packets),
         NEW d \in Seq(Packets), StepOK(c, p, l, u, d), c.greeted,
         NEW body \in Bodies \ Requests, NEW x,
         x.send = Next1(c.send), x.recv = c.recv, x.greeted = c.greeted,
         x.connect \in {c.connect, "resolved"}, x.listening = c.listening
  PROVE  StepOK(x, p, l, u \o <<Packet(body, c.send)>>, d)
<1> DEFINE m == Packet(body, c.send)
           r == u \o <<m>>
<1>1. m \in Packets /\ m.body = body /\ m.counter = c.send /\ c.send \in Counter
  BY PacketTyped DEF Packet, Clients
<1> HIDE DEF m
<1>2. /\ r \in Seq(Packets) /\ Len(r) = Len(u) + 1 /\ Len(u) \in Nat
      /\ Holds(r, Requests) <=> Holds(u, Requests)
      /\ \A n : Counting(u, n) /\ m.counter = n + Len(u) => Counting(r, n)
  BY <1>1, QueueAppended
<1>3. c.send \in Nat /\ x.send = c.send + 1 /\ p.login = "done" /\ p.recv \in Nat
  BY <1>1, CounterNumbers DEF StepOK, Encrypted, Players
<1> HIDE DEF r
<1>4. Encrypted(x, p) /\ UpInStep(x, p, r)
  <2>1. Counting(u, p.recv) /\ c.send = p.recv + Len(u)
    BY DEF StepOK, UpInStep
  <2>2. Counting(r, p.recv)
    BY <1>1, <1>2, <2>1
  <2>3. x.send = p.recv + Len(r) /\ x.send # Off
    <3> DEFINE s == c.send
               n == Len(u)
               v == p.recv
    <3>1. s \in Nat /\ n \in Nat /\ v \in Nat /\ x.send = s + 1 /\ Len(r) = n + 1 /\ s = v + n
      BY <1>2, <1>3, <2>1
    <3> HIDE DEF s, n, v
    <3>2. x.send = v + (n + 1) /\ x.send # -1
      BY <3>1
    <3> QED
      BY <3>1, <3>2 DEF v, Off
  <2> QED
    BY <1>3, <2>2, <2>3 DEF StepOK, Encrypted, UpInStep
<1>5. /\ ~Undialled(c) /\ ~Undialled(x) /\ ~Holds(d, Replies) /\ ~Holds(r, Requests)
      /\ ~Unlinked(x) /\ x.connect # "dialled"
  BY <1>2, <1>3 DEF StepOK, Encrypted, OneAtATime, Undialled, Unlinked
<1>6. OneAtATime(x, p, r, d) /\ Greeted(x, p, r, d)
  BY <1>3, <1>5 DEF StepOK, OneAtATime, Greeted, HandlesLogin
<1>7. StepOK(x, p, l, r, d)
  BY <1>3, <1>4, <1>5, <1>6 DEF StepOK, DownInStep
<1> QED
  BY <1>7 DEF r, m

\* Before that it sends the two requests, each when nothing else is under way.
LEMMA ClientRequests ==
  ASSUME NEW c \in Clients, NEW p \in Players, NEW l, NEW d \in Seq(Packets), NEW l2,
         StepOK(c, p, l, <<>>, d), ~c.greeted, p.login = "none", ~Holds(d, Replies),
         NEW body \in Requests, NEW x, x.send = c.send, x.recv = c.recv,
         x.greeted = c.greeted, ~Undialled(x), x.connect \in {c.connect, "waiting"},
         l2 # "down",
         l2 = "open" /\ x.listening => (l = "open" /\ c.listening) \/ l = "down"
  PROVE  StepOK(x, p, l2, <<Packet(body, c.send)>>, d)
<1> DEFINE m == Packet(body, c.send)
           r == <<m>>
<1>1. c.send = Off /\ p.recv = Off
  BY DEF StepOK, Encrypted
<1>2. m.body = body /\ m.counter = Off
  BY <1>1 DEF Packet
<1> HIDE DEF m
<1>3. DOMAIN r = {1} /\ r[1] = m /\ Len(r) = 1 /\ r # <<>>
  OBVIOUS
<1> HIDE DEF r
<1>4. Clear(r) /\ Holds(r, Requests) /\ ~Holds(r, {"ClientToServerHandshake"})
  BY <1>2, <1>3 DEF Clear, Holds, Requests, LoginBodies
<1>5. Encrypted(x, p) /\ UpInStep(x, p, r)
  BY <1>1, <1>4 DEF StepOK, Encrypted, UpInStep
<1>6. OneAtATime(x, p, r, d) /\ Greeted(x, p, r, d)
  BY <1>3, <1>4 DEF StepOK, OneAtATime, Greeted, HandlesLogin
<1>7. Clear(d) \/ ~(l2 = "open" /\ x.listening)
  BY DEF StepOK, DownInStep, Clear
<1>8. ~Unlinked(x) /\ x.connect # "dialled"
  BY DEF Undialled, Unlinked
<1>9. StepOK(x, p, l2, r, d)
  BY <1>5, <1>6, <1>7, <1>8 DEF StepOK, DownInStep
<1> QED
  BY <1>9 DEF r, m

-------------------------------------------------------------------------------
(* What the player takes and sends *)

LEMMA PlayerTakes ==
  ASSUME NEW c \in Clients, NEW p \in Players, NEW l, NEW u \in Seq(Packets),
         NEW d \in Seq(Packets), StepOK(c, p, l, u, d), u # <<>>, NEW y,
         ~y.isDisconnected, y.send = p.send, y.recv = Next1(p.recv),
         y.login = p.login \/ (Head(u).body \in Requests /\ y.login = "importing"),
         y.spawning > 0 => p.spawning > 0 \/ Head(u).body = "ClientToServerHandshake"
  PROVE  /\ StepOK(c, y, l, Tail(u), d)
         /\ Head(u).body = "ClientToServerHandshake" => c.greeted
         /\ Head(u).body \in Requests =>
              Tail(u) = <<>> /\ p.login = "none" /\ ~c.greeted /\ ~Holds(d, Replies)
              /\ ~Undialled(c) /\ l # "down"
<1> DEFINE r == Tail(u)
           m == Head(u)
<1>1. /\ r \in Seq(Packets) /\ Len(r) = Len(u) - 1 /\ Len(u) \in Nat \ {0}
      /\ \A B : Holds(u, B) <=> Holds(r, B) \/ m.body \in B
      /\ Clear(u) => Clear(r)
      /\ \A n \in Int : Counting(u, n) => Counting(r, n + 1)
      /\ Len(u) = 1 => r = <<>>
  BY QueueTaken
<1> HIDE DEF r, m
<1>2. ~Undialled(c) /\ l # "down" /\ ~Holds(d, Replies) /\ ~HandlesLogin(p)
      /\ p.recv \in Counter
  BY DEF StepOK, OneAtATime, Players
<1>3. m.body = "ClientToServerHandshake" => c.greeted
  <2>1. m.body = "ClientToServerHandshake" => Holds(u, {"ClientToServerHandshake"})
    BY <1>1
  <2> QED
    BY <2>1 DEF StepOK, Greeted
<1>4. Holds(u, Requests) => /\ r = <<>> /\ p.login = "none" /\ p.recv = Off /\ ~c.greeted
                            /\ y.recv = Off
  BY <1>1, CounterNumbers DEF StepOK, OneAtATime, Encrypted
<1>5. ~Holds(u, Requests) =>
        c.greeted /\ p.login = "done" /\ y.login = p.login /\ p.recv \in Nat
        /\ y.recv = p.recv + 1 /\ ~Holds(r, Requests)
  BY <1>1, <1>2, CounterNumbers DEF StepOK, OneAtATime, Encrypted, m
<1>6. Encrypted(c, y)
  <2>1. CASE Holds(u, Requests)
    <3>1. y.login # "done" /\ y.send = Off
      BY <1>4, <2>1 DEF StepOK, Encrypted
    <3> QED
      BY <1>4, <2>1, <3>1 DEF StepOK, Encrypted
  <2>2. CASE ~Holds(u, Requests)
    <3>1. y.recv # Off
      BY <1>5, <2>2 DEF Off
    <3> QED
      BY <1>5, <2>2, <3>1 DEF StepOK, Encrypted
  <2> QED
    BY <2>1, <2>2
<1>7. OneAtATime(c, y, r, d)
  <2>1. ~Holds(r, Requests)
    BY <1>4, <1>5 DEF Holds
  <2>2. ~Holds(d, {"NetworkSettings"}) /\ ~Holds(d, {"ServerToClientHandshake"})
    BY <1>2 DEF Holds, Replies
  <2>3. CASE Holds(u, Requests)
    BY <1>2, <1>4, <2>1, <2>2, <2>3 DEF StepOK, OneAtATime
  <2>4. CASE ~Holds(u, Requests)
    BY <1>2, <1>5, <2>1, <2>2, <2>4 DEF StepOK, OneAtATime, HandlesLogin
  <2> QED
    BY <2>3, <2>4
<1>8. Greeted(c, y, r, d)
  BY <1>1, <1>3 DEF StepOK, Greeted, m
<1>9. UpInStep(c, y, r)
  <2>1. CASE Holds(u, Requests)
    BY <1>1, <1>4, <2>1 DEF StepOK, UpInStep
  <2>2. CASE ~Holds(u, Requests)
    <3>1. Counting(u, p.recv) /\ c.send = p.recv + Len(u)
      BY <1>5, <2>2 DEF StepOK, UpInStep
    <3>2. Counting(r, y.recv) /\ c.send = y.recv + Len(r)
      BY <1>1, <1>5, <2>2, <3>1
    <3> QED
      BY <1>5, <2>2, <3>2 DEF UpInStep
  <2> QED
    BY <2>1, <2>2
<1>10. DownInStep(c, p, d) => DownInStep(c, y, d)
  BY <1>4, <1>5 DEF DownInStep, m
<1>11. StepOK(c, y, l, r, d)
  BY <1>2, <1>6, <1>7, <1>8, <1>9, <1>10 DEF StepOK
<1>12. m.body \in Requests => Holds(u, Requests)
  BY <1>1
<1> QED
  BY <1>2, <1>3, <1>4, <1>11, <1>12 DEF r, m

\* Everything but the replies of the login.
LEMMA PlayerSends ==
  ASSUME NEW c \in Clients, NEW p \in Players, NEW l, NEW u \in Seq(Packets),
         NEW d \in Seq(Packets), StepOK(c, p, l, u, d), l # "down" \/ p.login # "none",
         NEW body \in Bodies \ Replies, body \in Welcomes => c.greeted, NEW y,
         ~y.isDisconnected, y.send = Next1(p.send), y.recv = p.recv, y.login = p.login,
         y.spawning > 0 => p.spawning > 0 \/ c.greeted
  PROVE  StepOK(c, y, l, u, d \o <<Packet(body, p.send)>>)
<1> DEFINE m == Packet(body, p.send)
           r == d \o <<m>>
<1>1. m \in Packets /\ m.body = body /\ m.counter = p.send /\ p.send \in Counter
  BY PacketTyped DEF Packet, Players
<1> HIDE DEF m
<1>2. /\ r \in Seq(Packets) /\ Len(r) = Len(d) + 1 /\ Len(d) \in Nat
      /\ \A B : Holds(r, B) <=> Holds(d, B) \/ m.body \in B
      /\ \A B : Single(d, B) /\ (m.body \in B => ~Holds(d, B)) => Single(r, B)
      /\ Clear(r) <=> Clear(d) /\ m.counter = Off
      /\ \A n : Counting(d, n) /\ m.counter = n + Len(d) => Counting(r, n)
  BY <1>1, QueueAppended
<1>3. \A sent \in Nat, k \in DOMAIN d :
        BehindHandshake(d, k, sent) /\ m.counter = sent
          => k \in DOMAIN r /\ BehindHandshake(r, k, sent + 1)
  BY <1>1, BehindAppended
<1> HIDE DEF r
<1>4. /\ Holds(r, Replies) <=> Holds(d, Replies)
      /\ Holds(r, {"NetworkSettings"}) <=> Holds(d, {"NetworkSettings"})
      /\ Holds(r, {"ServerToClientHandshake"}) <=> Holds(d, {"ServerToClientHandshake"})
      /\ Single(d, Replies) => Single(r, Replies)
      /\ Holds(r, Welcomes) => Holds(d, Welcomes) \/ c.greeted
  BY <1>1, <1>2 DEF Replies
<1>5. Encrypted(c, y) /\ UpInStep(c, y, u) /\ OneAtATime(c, y, u, r) /\ Greeted(c, y, u, r)
  <2>1. Encrypted(c, y) /\ UpInStep(c, y, u)
    BY <1>1, CounterMoves DEF StepOK, Encrypted, UpInStep
  <2>2. OneAtATime(c, y, u, r)
    BY <1>4 DEF StepOK, OneAtATime, HandlesLogin
  <2>3. Greeted(c, y, u, r)
    BY <1>4 DEF StepOK, Greeted
  <2> QED
    BY <2>1, <2>2, <2>3
<1>6. ASSUME DownInStep(c, p, d) PROVE DownInStep(c, y, r)
  <2>1. CASE p.login # "done"
    BY <1>1, <1>2, <1>6, <2>1 DEF StepOK, Encrypted, DownInStep
  <2>2. CASE p.login = "done"
    <3>1. p.send \in Nat /\ y.send = p.send + 1
      BY <1>1, <2>2, CounterNumbers DEF StepOK, Encrypted
    <3>2. CASE c.greeted
      <4>1. Counting(d, c.recv) /\ p.send = c.recv + Len(d) /\ c.recv \in Int
        BY <1>6, <3>2, CounterNumbers DEF DownInStep, Clients
      <4>2. Counting(r, c.recv)
        BY <1>1, <1>2, <4>1
      <4>3. y.send = c.recv + Len(r)
        <5> DEFINE s == p.send
                   n == Len(d)
                   v == c.recv
        <5>1. /\ s \in Nat /\ n \in Nat /\ v \in Int /\ y.send = s + 1 /\ Len(r) = n + 1
              /\ s = v + n
          BY <1>2, <3>1, <4>1
        <5> HIDE DEF s, n, v
        <5>2. y.send = v + (n + 1)
          BY <5>1
        <5> QED
          BY <5>1, <5>2 DEF v
      <4> QED
        BY <2>2, <3>2, <4>2, <4>3 DEF DownInStep
    <3>3. CASE ~c.greeted
      BY <1>1, <1>3, <1>6, <2>2, <3>1, <3>3 DEF DownInStep
    <3> QED
      BY <3>2, <3>3
  <2> QED
    BY <2>1, <2>2
<1>7. StepOK(c, y, l, u, r)
  BY <1>5, <1>6 DEF StepOK
<1> QED
  BY <1>7 DEF r, m

LEMMA PlayerAnswersRequest ==
  ASSUME NEW c \in Clients, NEW p \in Players, NEW l, NEW d \in Seq(Packets),
         StepOK(c, p, l, <<>>, d), l # "down", ~Undialled(c), ~c.greeted,
         p.login = "none", ~Holds(d, Replies)
  PROVE  StepOK(c, p, l, <<>>, d \o <<Packet("NetworkSettings", Off)>>)
<1> DEFINE m == Packet("NetworkSettings", Off)
           r == d \o <<m>>
<1>1. m \in Packets /\ m.body = "NetworkSettings" /\ m.counter = Off
  BY PacketTyped DEF Packet, Bodies, Counter
<1> HIDE DEF m
<1>2. /\ r \in Seq(Packets)
      /\ \A B : Holds(r, B) <=> Holds(d, B) \/ m.body \in B
      /\ \A B : Single(d, B) /\ (m.body \in B => ~Holds(d, B)) => Single(r, B)
      /\ Clear(r) <=> Clear(d) /\ m.counter = Off
  BY <1>1, QueueAppended
<1> HIDE DEF r
<1>3. /\ ~Holds(r, {"ServerToClientHandshake"}) /\ (Holds(r, Welcomes) => Holds(d, Welcomes))
      /\ Single(r, Replies) /\ ~Holds(<<>>, Requests)
  <2>1. ~Holds(d, {"ServerToClientHandshake"})
    BY DEF Holds, Replies
  <2>2. "NetworkSettings" \notin Welcomes /\ ~Holds(<<>>, Requests)
    BY DEF Welcomes, Holds
  <2>3. Single(r, Replies)
    BY <1>2 DEF StepOK, OneAtATime
  <2> QED
    BY <1>1, <1>2, <2>1, <2>2, <2>3
<1>4. OneAtATime(c, p, <<>>, r) /\ Greeted(c, p, <<>>, r)
  BY <1>3 DEF StepOK, OneAtATime, Greeted, HandlesLogin
<1>5. DownInStep(c, p, d) => DownInStep(c, p, r)
  BY <1>1, <1>2 DEF DownInStep
<1>6. StepOK(c, p, l, <<>>, r)
  BY <1>4, <1>5 DEF StepOK
<1> QED
  BY <1>6 DEF r, m

\* handleLogin sends the handshake in the clear and counts from 0 on.
LEMMA HandshakeSent ==
  ASSUME NEW c \in Clients, NEW p \in Players, NEW l, NEW u \in Seq(Packets),
         NEW d \in Seq(Packets), StepOK(c, p, l, u, d), HandlesLogin(p), NEW y,
         ~y.isDisconnected, y.send = 0, y.recv = 0, y.login = "done",
         y.spawning = p.spawning
  PROVE  StepOK(c, y, l, u, d \o <<Packet("ServerToClientHandshake", p.send)>>)
<1> DEFINE m == Packet("ServerToClientHandshake", p.send)
           r == d \o <<m>>
<1>1. /\ p.login # "done" /\ p.login # "none" /\ p.send = Off /\ u = <<>> /\ ~c.greeted
      /\ ~Holds(d, Replies) /\ ~Undialled(c) /\ l # "down"
  BY DEF StepOK, Encrypted, OneAtATime, HandlesLogin
<1>2. m \in Packets /\ m.body = "ServerToClientHandshake" /\ m.counter = Off
  BY <1>1, PacketTyped DEF Packet, Bodies, Counter
<1> HIDE DEF m
<1>3. /\ r \in Seq(Packets)
      /\ \A B : Holds(r, B) <=> Holds(d, B) \/ m.body \in B
      /\ \A B : Single(d, B) /\ (m.body \in B => ~Holds(d, B)) => Single(r, B)
  BY <1>2, QueueAppended
<1>4. Clear(d) => \E k \in DOMAIN r : BehindHandshake(r, k, 0)
  BY <1>2, BehindAppended
<1> HIDE DEF r
<1>5. /\ ~Holds(r, {"NetworkSettings"}) /\ (Holds(r, Welcomes) => Holds(d, Welcomes))
      /\ Single(r, Replies) /\ ~Holds(u, Requests) /\ Clear(u)
  <2>1. ~Holds(d, {"NetworkSettings"})
    BY <1>1 DEF Holds, Replies
  <2>2. "ServerToClientHandshake" \notin Welcomes /\ ~Holds(<<>>, Requests) /\ Clear(<<>>)
    BY DEF Welcomes, Holds, Clear
  <2>3. Single(r, Replies)
    BY <1>1, <1>3 DEF StepOK, OneAtATime
  <2> QED
    BY <1>1, <1>2, <1>3, <2>1, <2>2, <2>3
<1>6. Encrypted(c, y) /\ UpInStep(c, y, u)
  BY <1>1, <1>5, CounterNumbers DEF StepOK, Encrypted, UpInStep
<1>7. OneAtATime(c, y, u, r) /\ Greeted(c, y, u, r)
  BY <1>1, <1>5 DEF StepOK, OneAtATime, Greeted, HandlesLogin
<1>8. DownInStep(c, p, d) => DownInStep(c, y, r)
  BY <1>1, <1>4 DEF DownInStep
<1>9. StepOK(c, y, l, u, r)
  BY <1>1, <1>6, <1>7, <1>8 DEF StepOK
<1> QED
  BY <1>9 DEF r, m

LEMMA HandleLoginAwaits ==
  ASSUME NEW c, NEW p, NEW l, NEW u, NEW d, StepOK(c, p, l, u, d), HandlesLogin(p), NEW y,
         HandlesLogin(y), ~y.isDisconnected, y.send = p.send, y.recv = p.recv,
         y.spawning = p.spawning
  PROVE  StepOK(c, y, l, u, d)
BY DEF StepOK, Encrypted, OneAtATime, Greeted, UpInStep, DownInStep, HandlesLogin

-------------------------------------------------------------------------------
(* Every action keeps the two ends in step *)

\* A client of whose cipher nothing changes
LEMMA ClientStays ==
  ASSUME NEW c, NEW p, NEW l, NEW u, NEW d, StepOK(c, p, l, u, d), NEW x,
         SameCipher(c, x), x.listening = c.listening,
         x.connect = c.connect \/ (c.greeted /\ x.connect = "resolved")
  PROVE  StepOK(x, p, l, u, d)
BY DEF SameCipher, StepOK, Encrypted, OneAtATime, Greeted, UpInStep, DownInStep, Undialled,
   Unlinked

LEMMA CalmInStep ==
  ASSUME StepOK(client, player, link, up, down), Calm
  PROVE  StepOK(client', player', link', up', down')
<1>1. /\ SameCipher(client, client') /\ (Undialled(client') => Undialled(client))
      /\ Unlinked(client') => Unlinked(client)
      /\ client'.connect \in {"dialled", "resolved"} => client'.connect = client.connect
      /\ link' \in {link, "closed"} /\ UNCHANGED <<player, up, down>>
      /\ client'.listening => client.listening \/ Unlinked(client)
  BY DEF Calm
<1>2. Encrypted(client', player) /\ UpInStep(client', player, up)
  BY <1>1 DEF SameCipher, StepOK, Encrypted, UpInStep
<1>3. OneAtATime(client', player, up, down) /\ Greeted(client', player, up, down)
  BY <1>1 DEF SameCipher, StepOK, OneAtATime, Greeted
<1>4. link' = "open" /\ client'.listening => DownInStep(client', player, down)
  BY <1>1 DEF SameCipher, StepOK, DownInStep
<1> QED
  BY <1>1, <1>2, <1>3, <1>4 DEF StepOK

LEMMA DialInStep ==
  ASSUME TypeOK, StepOK(client, player, link, up, down), Dial
  PROVE  StepOK(client', player', link', up', down')
<1>1. client \in Clients /\ link \in {"down", "open", "closed"}
  BY DEF TypeOK
<1>2. /\ client.connect = "dialling" /\ client' = [client EXCEPT !.connect = "dialled"]
      /\ link' = (IF link = "down" THEN "open" ELSE link) /\ UNCHANGED <<player, up, down>>
  BY DEF Dial
<1>3. Undialled(client) /\ Unlinked(client)
  BY <1>2 DEF Undialled, Unlinked
<1>4. /\ up = <<>> /\ player.login = "none" /\ link # "open" /\ ~client.greeted
      /\ link = "down" => down = <<>>
  BY <1>3 DEF StepOK, OneAtATime, Encrypted
<1>5. /\ client'.connect = "dialled" /\ SameCipher(client, client')
      /\ client'.listening = client.listening
  BY <1>1, <1>2 DEF Clients, SameCipher
<1>6. /\ link' # "down" /\ (link' = "open" => down = <<>>)
  BY <1>1, <1>2, <1>4
<1>7. Encrypted(client', player) /\ UpInStep(client', player, up)
  BY <1>5 DEF SameCipher, StepOK, Encrypted, UpInStep
<1>8. OneAtATime(client', player, up, down) /\ Greeted(client', player, up, down)
  BY <1>3, <1>5 DEF SameCipher, StepOK, OneAtATime, Greeted
<1>9. link' = "open" => DownInStep(client', player, down)
  BY <1>4, <1>5, <1>6 DEF SameCipher, DownInStep, Clear
<1> QED
  BY <1>2, <1>5, <1>6, <1>7, <1>8, <1>9 DEF StepOK, Unlinked

\* The first request, when there was none before
LEMMA BeginWaitingInStep ==
  ASSUME TypeOK, StepOK(client, player, link, up, down), BeginWaiting
  PROVE  StepOK(client', player', link', up', down')
<1>1. client \in Clients /\ player \in Players /\ down \in Seq(Packets)
  BY DEF TypeOK
<1>2. /\ client.connect = "dialled" /\ client' = [client EXCEPT !.connect = "waiting"]
      /\ up' \in {up, up \o <<Packet("RequestNetworkSettings", Off)>>}
      /\ UNCHANGED <<player, link, down>>
  BY DEF BeginWaiting, Plain
<1>3. /\ up = <<>> /\ player.login = "none" /\ ~Holds(down, Replies) /\ link # "down"
      /\ ~client.greeted /\ client.send = Off
  BY <1>2 DEF StepOK, OneAtATime, Encrypted, Undialled
<1>4. /\ client'.connect = "waiting" /\ ~Undialled(client') /\ client'.send = client.send
      /\ client'.recv = client.recv /\ client'.greeted = client.greeted
      /\ client'.listening = client.listening
  BY <1>1, <1>2 DEF Clients, Undialled
<1>5. StepOK(client, player, link, <<>>, down)
  BY <1>3
<1>6. CASE up' = up
  <2>1. Encrypted(client', player) /\ UpInStep(client', player, <<>>)
    BY <1>4, <1>5 DEF StepOK, Encrypted, UpInStep
  <2>2. OneAtATime(client', player, <<>>, down) /\ Greeted(client', player, <<>>, down)
    BY <1>4, <1>5 DEF StepOK, OneAtATime, Greeted
  <2>3. link = "open" /\ client'.listening => DownInStep(client', player, down)
    BY <1>4, <1>5 DEF StepOK, DownInStep
  <2> QED
    BY <1>2, <1>3, <1>4, <1>5, <1>6, <2>1, <2>2, <2>3 DEF StepOK, Unlinked
<1>7. CASE up' = up \o <<Packet("RequestNetworkSettings", Off)>>
  <2>1. up' = <<Packet("RequestNetworkSettings", client.send)>>
        /\ "RequestNetworkSettings" \in Requests
    BY <1>3, <1>7 DEF Requests
  <2> QED
    BY <1>1, <1>2, <1>3, <1>4, <1>5, <2>1, ClientRequests
<1> QED
  BY <1>2, <1>6, <1>7

\* The answers of the login sequence
LEMMA AnswerInStep ==
  ASSUME TypeOK, Quiet(client), StepOK(client, player, link, up, down),
         OnLoginSequence \/ OnPlayerSpawn
  PROVE  StepOK(client', player', link', up', down')
<1> DEFINE x == Opened(client)
           d == Tail(down)
<1>1. client \in Clients /\ player \in Players /\ up \in Seq(Packets) /\ down \in Seq(Packets)
  BY DEF TypeOK
<1>2. /\ link = "open" /\ down # <<>> /\ client.listening /\ down' = d
      /\ Head(down).body \in {"ResourcePacksInfo", "ResourcePackStack", "PlayerSpawn"}
      /\ up' = up \o Sealed(client, "Answer") /\ UNCHANGED <<player, link>>
  BY DEF OnLoginSequence, OnPlayerSpawn, ClientGets
<1>3. client.greeted
  <2>1. Holds(down, Welcomes)
    BY <1>1, <1>2, QueueTaken DEF Welcomes
  <2> QED
    BY <2>1 DEF StepOK, Greeted
<1>4. /\ x \in Clients /\ SameLife(client, x) /\ x.greeted = client.greeted
      /\ x.send = client.send /\ x.recv = Next1(client.recv)
      /\ x.recv = Off <=> client.recv = Off
  BY <1>1, OpenedClient
<1>5. d \in Seq(Packets)
  BY <1>1, <1>2, QueueTaken
<1>6. /\ client'.greeted = client.greeted /\ client'.recv = Next1(client.recv)
      /\ client'.send = IF client.isDisconnected THEN client.send ELSE Next1(client.send)
      /\ client'.connect \in {client.connect, "resolved"}
      /\ client'.listening = client.listening
  BY AnswerEffect DEF Received
<1> HIDE DEF x
<1>7. StepOK(x, player, link, up, d)
  BY <1>1, <1>2, <1>4, ClientTakes DEF SameLife
<1> HIDE DEF d
<1>8. CASE client.isDisconnected
  <2>1. up' = up
    BY <1>1, <1>2, <1>8, SealedClient DEF Bodies
  <2>2. StepOK(client', player, link, up, d)
    BY <1>3, <1>4, <1>6, <1>7, <1>8, ClientStays DEF SameCipher, SameLife
  <2> QED
    BY <1>2, <2>1, <2>2
<1>9. CASE ~client.isDisconnected
  <2>1. up' = up \o <<Packet("Answer", x.send)>> /\ "Answer" \in Bodies \ Requests
    BY <1>1, <1>2, <1>4, <1>9, SealedClient DEF Bodies, Requests, LoginBodies
  <2>2. StepOK(client', player, link, up \o <<Packet("Answer", x.send)>>, d)
    BY <1>1, <1>3, <1>4, <1>5, <1>6, <1>7, <1>9, <2>1, ClientSends DEF SameLife
  <2> QED
    BY <1>2, <2>1, <2>2
<1> QED
  BY <1>8, <1>9

LEMMA StartGameInStep ==
  ASSUME TypeOK, Quiet(client), StepOK(client, player, link, up, down), OnStartGame
  PROVE  StepOK(client', player', link', up', down')
<1> DEFINE x == Opened(client)
           y == Counted(x)
           z == Counted(client)
           d == Tail(down)
           q == up \o <<Packet("Answer", client.send)>>
<1>1. client \in Clients /\ player \in Players /\ up \in Seq(Packets) /\ down \in Seq(Packets)
  BY DEF TypeOK
<1>2. /\ link = "open" /\ down # <<>> /\ client.listening /\ down' = d
      /\ Head(down).body = "StartGame" /\ client' = Counted(y)
      /\ up' = up \o Sealed(client, "Answer") \o Sealed(z, "Answer")
      /\ UNCHANGED <<player, link>>
  BY DEF OnStartGame, ClientGets
<1>3. client.greeted /\ "Answer" \in Bodies \ Requests /\ "Answer" \in Bodies
  <2>1. Holds(down, Welcomes)
    BY <1>1, <1>2, QueueTaken DEF Welcomes
  <2> QED
    BY <2>1 DEF StepOK, Greeted, Bodies, Requests, LoginBodies
<1>4. /\ x \in Clients /\ SameLife(client, x) /\ x.greeted = client.greeted
      /\ x.send = client.send /\ x.recv = Next1(client.recv)
      /\ x.recv = Off <=> client.recv = Off
  BY <1>1, OpenedClient
<1>5. d \in Seq(Packets)
  BY <1>1, <1>2, QueueTaken
<1>6. /\ z \in Clients /\ z.isDisconnected = client.isDisconnected
      /\ ~client.isDisconnected => z.send = Next1(client.send)
  BY <1>1, CountedClient DEF SameLife
<1> HIDE DEF x, z
<1>7. /\ y \in Clients /\ SameLife(x, y) /\ y.greeted = x.greeted /\ y.recv = x.recv
      /\ x.isDisconnected => y.send = x.send
      /\ ~x.isDisconnected => y.send = Next1(x.send)
  BY <1>4, CountedClient
<1> HIDE DEF y
<1>8. /\ client' \in Clients /\ SameLife(y, client') /\ client'.greeted = y.greeted
      /\ client'.recv = y.recv
      /\ y.isDisconnected => client'.send = y.send
      /\ ~y.isDisconnected => client'.send = Next1(y.send)
  BY <1>2, <1>7, CountedClient
<1>9. StepOK(x, player, link, up, d)
  BY <1>1, <1>2, <1>4, ClientTakes DEF SameLife
<1> HIDE DEF d
<1>10. CASE client.isDisconnected
  <2>1. up' = up
    BY <1>1, <1>2, <1>3, <1>6, <1>10 DEF Sealed
  <2>2. StepOK(client', player, link, up, d)
    BY <1>4, <1>7, <1>8, <1>9, <1>10, ClientStays DEF SameCipher, SameLife
  <2> QED
    BY <1>2, <2>1, <2>2
<1>11. CASE ~client.isDisconnected
  <2>1. q \in Seq(Packets) /\ up \o Sealed(client, "Answer") = q
    BY <1>1, <1>3, <1>11, SealedClient
  <2>2. up' = q \o <<Packet("Answer", y.send)>>
    <3>1. Sealed(z, "Answer") = <<Packet("Answer", y.send)>> /\ Sealed(z, "Answer") \in Seq(Packets)
          /\ Sealed(client, "Answer") \in Seq(Packets)
      BY <1>1, <1>3, <1>4, <1>6, <1>7, <1>11, SealedTyped DEF Sealed, SameLife
    <3> HIDE DEF q
    <3> QED
      BY <1>1, <1>2, <2>1, <3>1
  <2>3. StepOK(y, player, link, q, d)
    <3>1. q = up \o <<Packet("Answer", x.send)>>
      BY <1>4
    <3> HIDE DEF q
    <3> QED
      BY <1>1, <1>3, <1>4, <1>5, <1>7, <1>9, <1>11, <3>1, ClientSends DEF SameLife
  <2> HIDE DEF q
  <2>4. StepOK(client', player, link, q \o <<Packet("Answer", y.send)>>, d)
    BY <1>1, <1>3, <1>4, <1>5, <1>7, <1>8, <1>11, <2>1, <2>3, ClientSends DEF SameLife
  <2> QED
    BY <1>2, <2>2, <2>4
<1> QED
  BY <1>10, <1>11

\* The login itself, as an answer to the network settings
LEMMA LoginInStep ==
  ASSUME TypeOK, Quiet(client), StepOK(client, player, link, up, down), OnNetworkSettings
  PROVE  StepOK(client', player', link', up', down')
<1> DEFINE x == Opened(client)
           d == Tail(down)
           b == LoginBody(client)
<1>1. client \in Clients /\ player \in Players /\ up \in Seq(Packets) /\ down \in Seq(Packets)
  BY DEF TypeOK
<1>2. /\ link = "open" /\ down # <<>> /\ client.listening /\ down' = d
      /\ Head(down).body = "NetworkSettings" /\ UNCHANGED <<player, link>>
      /\ up' = up \o Sealed(client, b)
  BY DEF OnNetworkSettings, ClientGets
<1>3. /\ up = <<>> /\ player.login = "none" /\ ~client.greeted /\ ~Undialled(client)
      /\ d \in Seq(Packets) /\ ~Holds(d, Replies) /\ client.send = Off
  <2>1. "NetworkSettings" \in {"NetworkSettings"} /\ "NetworkSettings" \in Replies
    BY DEF Replies
  <2>2. Holds(down, {"NetworkSettings"}) /\ Holds(down, Replies) /\ d \in Seq(Packets)
    BY <1>1, <1>2, <2>1, QueueTaken
  <2>3. ~Holds(d, Replies)
    <3>1. Single(down, Replies) /\ Head(down).body \in Replies
      BY <1>2, <2>1 DEF StepOK, OneAtATime
    <3> QED
      BY <1>1, <1>2, <3>1, QueueTaken
  <2> HIDE DEF d
  <2> QED
    BY <2>2, <2>3 DEF StepOK, OneAtATime, Encrypted
<1>4. /\ x \in Clients /\ SameLife(client, x) /\ x.greeted = client.greeted
      /\ x.send = client.send /\ x.recv = Next1(client.recv)
      /\ x.recv = Off <=> client.recv = Off
  BY <1>1, OpenedClient
<1>5. /\ client'.greeted = client.greeted /\ client'.recv = Next1(client.recv)
      /\ client'.send = IF client.isDisconnected THEN client.send ELSE Next1(client.send)
      /\ client'.connect = client.connect /\ client'.listening = client.listening
  <2>1. ~OnPlayerSpawn
    BY <1>2 DEF OnPlayerSpawn, ClientGets
  <2> QED
    BY <2>1, AnswerEffect DEF Received
<1>6. b \in Requests /\ b \in Bodies
  BY <1>1 DEF LoginBody, Clients, Requests, LoginBodies, Bodies
<1> HIDE DEF x, b
<1>7. StepOK(x, player, link, up, d)
  BY <1>1, <1>2, <1>4, ClientTakes DEF SameLife
<1> HIDE DEF d
<1>8. CASE client.isDisconnected
  <2>1. up' = up
    BY <1>1, <1>2, <1>6, <1>8, SealedClient
  <2>2. StepOK(client', player, link, up, d)
    BY <1>4, <1>5, <1>7, <1>8, ClientStays DEF SameCipher, SameLife
  <2> QED
    BY <1>2, <2>1, <2>2
<1>9. CASE ~client.isDisconnected
  <2>1. up' = up \o <<Packet(b, client.send)>>
    BY <1>1, <1>2, <1>6, <1>9, SealedClient
  <2>2. up' = <<Packet(b, x.send)>>
    BY <1>3, <1>4, <2>1
  <2>3. client'.send = x.send
    BY <1>3, <1>4, <1>5, <1>9, CounterNumbers
  <2>4. StepOK(x, player, link, <<>>, d)
    BY <1>3, <1>7
  <2>5. ~Undialled(client') /\ link # "down"
    BY <1>2, <1>3, <1>5 DEF Undialled
  <2>6. StepOK(client', player, link, <<Packet(b, x.send)>>, d)
    BY <1>1, <1>2, <1>3, <1>4, <1>5, <1>6, <2>3, <2>4, <2>5, ClientRequests DEF SameLife
  <2> QED
    BY <1>2, <2>2, <2>6
<1> QED
  BY <1>8, <1>9

LEMMA HandshakeInStep ==
  ASSUME TypeOK, Quiet(client), StepOK(client, player, link, up, down), OnServerHandshake
  PROVE  StepOK(client', player', link', up', down')
<1> DEFINE x == [Encrypting(client) EXCEPT !.greeted = TRUE]
           d == Tail(down)
<1>1. client \in Clients /\ player \in Players /\ up \in Seq(Packets) /\ down \in Seq(Packets)
  BY DEF TypeOK
<1>2. /\ link = "open" /\ down # <<>> /\ client.listening /\ down' = d
      /\ Head(down).body = "ServerToClientHandshake" /\ UNCHANGED <<player, link>>
  BY HandshakeEffect DEF OnServerHandshake, ClientGets
<1>3. /\ SameLife(client, client') /\ client'.greeted /\ client'.recv = 0
      /\ client'.send = IF client.isDisconnected THEN 0 ELSE 1
      /\ up' = IF client.isDisconnected THEN up
               ELSE up \o <<Packet("ClientToServerHandshake", 0)>>
  BY HandshakeEffect
<1>4. x \in Clients /\ SameLife(client, x) /\ x.greeted /\ x.send = 0 /\ x.recv = 0
  BY <1>1, GreetedClient
<1>5. d \in Seq(Packets)
  BY <1>1, <1>2, QueueTaken
<1> HIDE DEF x
<1>6. StepOK(x, player, link, up, d)
  BY <1>1, <1>2, <1>4, ClientIsGreeted DEF SameLife
<1> HIDE DEF d
<1>7. client'.greeted = x.greeted
  BY <1>1, <1>4, HandshakeEffect DEF Received, Clients
<1>8. CASE client.isDisconnected
  <2>1. SameCipher(x, client') /\ client'.listening = x.listening /\ client'.connect = x.connect
    BY <1>3, <1>4, <1>8, <1>7 DEF SameCipher, SameLife
  <2>2. StepOK(client', player, link, up, d)
    BY <1>6, <2>1, ClientStays
  <2> QED
    BY <1>2, <1>3, <1>8, <2>2
<1>9. CASE ~client.isDisconnected
  <2>1. Next1(0) = 1 /\ "ClientToServerHandshake" \in Bodies \ Requests
    BY DEF Next1, Off, Bodies, Requests, LoginBodies
  <2>2. /\ client'.greeted = x.greeted
        /\ up' = up \o <<Packet("ClientToServerHandshake", x.send)>>
        /\ client'.send = Next1(x.send) /\ client'.recv = x.recv
        /\ client'.connect \in {x.connect, "resolved"} /\ client'.listening = x.listening
    BY <1>3, <1>4, <1>9, <1>7, <2>1 DEF SameLife
  <2>3. StepOK(client', player, link, up \o <<Packet("ClientToServerHandshake", x.send)>>, d)
    BY <1>1, <1>4, <1>5, <1>6, <2>1, <2>2, ClientSends
  <2> QED
    BY <1>2, <2>2, <2>3
<1> QED
  BY <1>8, <1>9

LEMMA HandshakeIsHeard == \A x : "ServerToClientHandshake" \notin Unheard(x)
<1>1. "ServerToClientHandshake" \notin Range(SpawnSequence)
  <2>1. ASSUME NEW i \in DOMAIN SpawnSequence
        PROVE  SpawnSequence[i] # "ServerToClientHandshake"
    BY SpawnBodies DEF Welcomes
  <2> QED
    BY <2>1 DEF Range
<1> QED
  BY <1>1 DEF Unheard

LEMMA UnansweredInStep ==
  ASSUME TypeOK, Quiet(client), StepOK(client, player, link, up, down),
         OnDisconnectPacket \/ OnOther \/ OnUnreadable
  PROVE  StepOK(client', player', link', up', down')
<1>1. client \in Clients /\ player \in Players /\ up \in Seq(Packets) /\ down \in Seq(Packets)
  BY DEF TypeOK
<1>2. /\ link = "open" /\ down # <<>> /\ down' = Tail(down)
      /\ client'.listening = client.listening /\ UNCHANGED <<player, up>>
      /\ link' \in {link, "closed"}
      /\ client'.greeted = client.greeted /\ client'.send = client.send
      /\ client'.recv = Off <=> client.recv = Off
      /\ client'.connect \in {client.connect, "rejected"}
      /\ OnOther => client'.recv = Next1(client.recv)
  BY UnansweredEffect DEF Received
<1>3. ASSUME link' = "open", client'.listening
      PROVE  /\ client.listening /\ client'.recv = Next1(client.recv)
             /\ Head(down).body # "ServerToClientHandshake"
  <2>1. Readable(client, Head(down))
    <3>1. link = "open" /\ down # <<>> /\ client.listening
      BY <1>2, <1>3
    <3>2. Head(down).counter = client.recv
      BY <1>1, <3>1, InOrder
    <3> QED
      BY <3>2 DEF Readable
  <2>2. OnOther
    BY <1>3, <2>1 DEF OnDisconnectPacket, OnUnreadable
  <2> QED
    BY <1>2, <1>3, <2>2, HandshakeIsHeard DEF OnOther
<1>4. StepOK(client', player, link', up, Tail(down))
  BY <1>1, <1>2, <1>3, ClientTakes
<1> QED
  BY <1>2, <1>4

LEMMA PlayerInStep ==
  ASSUME ChainsInv, StepOK(client, player, link, up, down), PlayerReceives \/ ListenerThrowsUp
  PROVE  StepOK(client', player', link', up', down')
<1> DEFINE x == Opened(player)
<1>1. client \in Clients /\ player \in Players /\ up \in Seq(Packets) /\ down \in Seq(Packets)
  BY DEF ChainsInv, TypeOK
<1>2. /\ x \in Players /\ x.login = player.login /\ x.send = player.send
      /\ x.isDisconnected = player.isDisconnected /\ x.spawning = player.spawning
      /\ x.recv = Next1(player.recv)
  BY <1>1, OpenedPlayer
<1>3. ~player.isDisconnected
  BY DEF StepOK
<1>4. CASE OnRequestNetworkSettings
  <2>1. /\ up # <<>> /\ Head(up).body = "RequestNetworkSettings" /\ up' = Tail(up)
        /\ player' = x /\ down' = down \o <<Packet("NetworkSettings", Off)>>
        /\ UNCHANGED <<client, link>>
    BY <1>4 DEF OnRequestNetworkSettings, PlayerGets, Plain
  <2> HIDE DEF x
  <2>2. Head(up).body \in Requests
    BY <2>1 DEF Requests
  <2>3. StepOK(client, x, link, Tail(up), down)
        /\ Tail(up) = <<>> /\ x.login = "none" /\ ~client.greeted /\ ~Holds(down, Replies)
        /\ ~Undialled(client) /\ link # "down"
    BY <1>1, <1>2, <1>3, <2>1, <2>2, PlayerTakes
  <2>4. StepOK(client, x, link, <<>>, down \o <<Packet("NetworkSettings", Off)>>)
    BY <1>1, <1>2, <2>3, PlayerAnswersRequest
  <2> QED
    BY <2>1, <2>3, <2>4
<1>5. CASE OnLogin
  <2>1. /\ up # <<>> /\ Head(up).body \in Requests /\ up' = Tail(up)
        /\ player'.login = "importing" /\ player'.send = player.send
        /\ player'.recv = Next1(player.recv) /\ player'.spawning = player.spawning
        /\ ~player'.isDisconnected /\ UNCHANGED <<client, link, down>>
    BY <1>3, <1>5, OnLoginEffect DEF Taking, Requests
  <2>2. StepOK(client, player', link, Tail(up), down)
    BY <1>1, <2>1, PlayerTakes
  <2> QED
    BY <2>1, <2>2
<1>6. CASE OnOtherUp
  <2>1. up # <<>> /\ up' = Tail(up) /\ player' = x /\ UNCHANGED <<client, link, down>>
    BY <1>6 DEF OnOtherUp, PlayerGets
  <2> HIDE DEF x
  <2>2. StepOK(client, x, link, Tail(up), down)
    BY <1>1, <1>2, <1>3, <2>1, PlayerTakes
  <2> QED
    BY <2>1, <2>2
<1>7. CASE OnClientHandshake
  <2>1. /\ up # <<>> /\ Head(up).body = "ClientToServerHandshake" /\ up' = Tail(up)
        /\ player'.login = player.login /\ player'.send = Next1(player.send)
        /\ player'.recv = Next1(player.recv) /\ ~player'.isDisconnected
        /\ down' = down \o <<Packet("PlayStatus", player.send)>>
        /\ UNCHANGED <<client, link>>
    BY <1>1, <1>3, <1>7, WelcomeEffect DEF Taking, ChainsInv
  <2> HIDE DEF x
  <2>2. StepOK(client, x, link, Tail(up), down) /\ client.greeted
    BY <1>1, <1>2, <1>3, <2>1, PlayerTakes
  <2>3. "PlayStatus" \in Bodies \ Replies /\ link # "down" /\ Tail(up) \in Seq(Packets)
    BY <1>1, <2>1, QueueTaken DEF Bodies, Replies, StepOK
  <2>4. StepOK(client, player', link, Tail(up), down \o <<Packet("PlayStatus", x.send)>>)
    BY <1>1, <1>2, <2>1, <2>2, <2>3, PlayerSends
  <2> QED
    BY <1>2, <2>1, <2>4
<1>8. CASE OnUnreadableUp
  BY <1>1, <1>8, InOrder DEF OnUnreadableUp, Readable
<1>9. CASE ListenerThrowsUp
  <2>1. /\ up # <<>> /\ up' = Tail(up) /\ player'.login = player.login
        /\ player'.send = player.send /\ player'.recv = Next1(player.recv)
        /\ player'.spawning = player.spawning /\ ~player'.isDisconnected
        /\ UNCHANGED <<client, link, down>>
    BY <1>1, <1>3, <1>9, ThrowUpEffect DEF Taking, ChainsInv
  <2>2. StepOK(client, player', link, Tail(up), down)
    BY <1>1, <2>1, PlayerTakes
  <2> QED
    BY <2>1, <2>2
<1> QED
  BY <1>4, <1>5, <1>6, <1>7, <1>8, <1>9 DEF PlayerReceives

LEMMA HandleLoginInStep ==
  ASSUME TypeOK, StepOK(client, player, link, up, down), LoginAwaits \/ LoginSigned
  PROVE  StepOK(client', player', link', up', down')
<1>1. client \in Clients /\ player \in Players /\ up \in Seq(Packets) /\ down \in Seq(Packets)
      /\ ~player.isDisconnected
  BY DEF TypeOK, StepOK
<1>2. /\ HandlesLogin(player) /\ player'.spawning = player.spawning
      /\ ~player'.isDisconnected /\ UNCHANGED <<client, link, up>>
  BY <1>1, HandleLoginEffect
<1>3. CASE LoginAwaits
  <2>1. /\ HandlesLogin(player') /\ player'.send = player.send
        /\ player'.recv = player.recv /\ UNCHANGED down
    BY <1>3, HandleLoginEffect
  <2>2. StepOK(client, player', link, up, down)
    BY <1>2, <2>1, HandleLoginAwaits
  <2> QED
    BY <1>2, <2>1, <2>2
<1>4. CASE LoginSigned
  <2>1. /\ player'.login = "done" /\ player'.send = 0 /\ player'.recv = 0
        /\ down' = down \o Sealed(player, "ServerToClientHandshake")
    BY <1>4, HandleLoginEffect
  <2>2. down' = down \o <<Packet("ServerToClientHandshake", player.send)>>
    BY <1>1, <2>1, SealedPlayer DEF Bodies
  <2>3. StepOK(client, player', link, up, down \o <<Packet("ServerToClientHandshake", player.send)>>)
    BY <1>1, <1>2, <2>1, HandshakeSent
  <2> QED
    BY <1>2, <2>2, <2>3
<1> QED
  BY <1>3, <1>4

LEMMA ServerUserInStep ==
  ASSUME TypeOK, StepOK(client, player, link, up, down), NEW body \in {"Game", "Disconnect"},
         ServerUserSends(body) \/ ServerUserSpawns
  PROVE  StepOK(client', player', link', up', down')
<1> DEFINE y == Counted(player)
<1>1. client \in Clients /\ player \in Players /\ up \in Seq(Packets) /\ down \in Seq(Packets)
      /\ ~player.isDisconnected
  BY DEF TypeOK, StepOK
<1>2. /\ y \in Players /\ y.login = player.login /\ y.recv = player.recv
      /\ ~y.isDisconnected /\ y.spawning = player.spawning /\ y.send = Next1(player.send)
  BY <1>1, CountedPlayer
<1>3. CASE ServerUserSends(body)
  <2>1. /\ link # "down" /\ player' = y /\ UNCHANGED <<client, link, up>>
        /\ down' = down \o Sealed(player, body)
        /\ body \in Bodies \ Replies /\ body \notin Welcomes
    BY <1>3 DEF ServerUserSends, Bodies, Replies, Welcomes
  <2> HIDE DEF y
  <2>2. down' = down \o <<Packet(body, player.send)>>
    BY <1>1, <2>1, SealedPlayer
  <2>3. StepOK(client, y, link, up, down \o <<Packet(body, player.send)>>)
    BY <1>1, <1>2, <2>1, PlayerSends
  <2> QED
    BY <2>1, <2>2, <2>3
<1>4. CASE ServerUserSpawns
  <2> DEFINE b == SpawnSequence[player.spawning]
             s == player.spawning + 1
  <2>1. player.spawning \in 1..4 /\ s \in 0..5 /\ b \in Bodies \cap Welcomes
    BY <1>4, SpawnBodies DEF ServerUserSpawns
  <2>2. /\ player' = [y EXCEPT !.spawning = s]
        /\ down' = down \o Sealed(player, b) /\ UNCHANGED <<client, link, up>>
    <3>1. player' = [y EXCEPT !.spawning = @ + 1]
          /\ down' = down \o Sealed(player, b) /\ UNCHANGED <<client, link, up>>
      BY <1>4 DEF ServerUserSpawns
    <3> HIDE DEF y
    <3> QED
      BY <1>2, <3>1
  <2> HIDE DEF y, b, s
  <2>3. /\ player'.login = y.login /\ player'.recv = y.recv /\ player'.send = y.send
        /\ ~player'.isDisconnected
    BY <1>2, <2>1, <2>2 DEF Players
  <2>4. b \in Bodies \ Replies
    BY <2>1 DEF Welcomes, Replies
  <2>5. player.spawning > 0 /\ client.greeted /\ player.login # "none"
    <3>1. player.spawning > 0
      BY <2>1
    <3> QED
      BY <3>1 DEF StepOK, Greeted, Encrypted
  <2>6. down' = down \o <<Packet(b, player.send)>>
    BY <1>1, <2>2, <2>4, SealedPlayer
  <2>7. StepOK(client, player', link, up, down \o <<Packet(b, player.send)>>)
    BY <1>1, <1>2, <2>3, <2>4, <2>5, PlayerSends
  <2> QED
    BY <2>2, <2>6, <2>7
<1> QED
  BY <1>3, <1>4

\* A packet of the client's user comes after the handshake, or it is the early one.
LEMMA ClientUserInStep ==
  ASSUME TypeOK, StepOK(client, player, link, up, down), ClientUserSends,
         Straight(client')
  PROVE  StepOK(client', player', link', up', down')
<1> DEFINE x == Counted(client)
           early == x.sentEarly \/ (~client.greeted /\ ~client.isDisconnected)
<1>1. client \in Clients /\ player \in Players /\ up \in Seq(Packets) /\ down \in Seq(Packets)
  BY DEF TypeOK
<1>2. /\ x \in Clients /\ SameLife(client, x) /\ x.greeted = client.greeted
      /\ x.recv = client.recv
      /\ client.isDisconnected => x.send = client.send
      /\ ~client.isDisconnected => x.send = Next1(client.send)
  BY <1>1, CountedClient
<1>3. client' = [x EXCEPT !.sentEarly = early] /\ early \in BOOLEAN
      /\ up' = up \o Sealed(client, "Game") /\ UNCHANGED <<player, link, down>>
  BY <1>1, <1>2 DEF ClientUserSends, Clients
<1>4. early => ~Straight(client')
  <2> HIDE DEF early, x
  <2> QED
    BY <1>2, <1>3 DEF Clients, Straight
<1>5. ~client.isDisconnected => client.greeted
  BY <1>4
<1> HIDE DEF x, early
<1>6. /\ client'.connect = client.connect /\ client'.greeted = client.greeted
      /\ client'.recv = client.recv /\ client'.send = x.send
      /\ client'.listening = client.listening
  BY <1>2, <1>3 DEF Clients, SameLife
<1>7. CASE client.isDisconnected
  <2>1. up' = up
    BY <1>1, <1>3, <1>7, SealedClient DEF Bodies
  <2>2. StepOK(client', player, link, up, down)
    BY <1>2, <1>6, <1>7, ClientStays DEF SameCipher
  <2> QED
    BY <1>3, <2>1, <2>2
<1>8. CASE ~client.isDisconnected
  <2>1. "Game" \in Bodies \ Requests
    BY DEF Bodies, Requests, LoginBodies
  <2>2. up' = up \o <<Packet("Game", client.send)>>
    BY <1>1, <1>3, <1>8, <2>1, SealedClient
  <2>3. StepOK(client', player, link, up \o <<Packet("Game", client.send)>>, down)
    BY <1>1, <1>2, <1>5, <1>6, <1>8, <2>1, ClientSends
  <2> QED
    BY <1>3, <2>2, <2>3
<1> QED
  BY <1>7, <1>8

\* Neither a packet that was sent early nor an error is forgotten.
LEMMA StraightBefore ==
  ASSUME ChainsInv, Next, Straight(client')
  PROVE  Straight(client) /\ ~ListenerThrows
<1>1. TypeOK /\ Quiet(client) /\ client \in Clients
  BY DEF ChainsInv, TypeOK
<1>2. CASE ClientUserSends
  <2> DEFINE x == Counted(client)
             early == x.sentEarly \/ (~client.greeted /\ ~client.isDisconnected)
  <2>1. x \in Clients /\ (Straight(x) <=> Straight(client))
    BY <1>1, CountedClient DEF SameLife
  <2>2. client' = [x EXCEPT !.sentEarly = early] /\ (early \/ ~x.sentEarly)
        /\ UNCHANGED down
    BY <1>2, <2>1 DEF ClientUserSends, Clients
  <2> HIDE DEF x, early
  <2>3. Straight(client)
    BY <2>1, <2>2 DEF Clients, Straight
  <2>4. ~ListenerThrows
    BY <1>1, ThrowEffect
  <2> QED
    BY <2>3, <2>4
<1>3. CASE ListenerThrows
  BY <1>1, <1>3, ThrowEffect
<1>4. CASE Calm
  BY <1>1, <1>4, ThrowEffect DEF Calm
<1>5. CASE Dial \/ BeginWaiting
  <2>1. Straight(client)
    BY <1>1, <1>5 DEF Dial, BeginWaiting, Clients, Straight
  <2> QED
    BY <1>1, <2>1, ThrowEffect
<1>6. CASE ClientReceives
  <2>1. Received
    BY <1>1, <1>6, AnswerEffect, StartGameEffect, HandshakeEffect, UnansweredEffect
       DEF ClientReceives
  <2> QED
    BY <1>1, <2>1, ThrowEffect DEF Received
<1>7. CASE PlayerReceives \/ ListenerThrowsUp \/ LoginAwaits \/ LoginSigned \/ ServerUserSpawns
           \/ \E body \in {"Game", "Disconnect"} : ServerUserSends(body)
  <2>1. UNCHANGED client
    BY <1>7 DEF PlayerReceives, OnRequestNetworkSettings, OnLogin, OnClientHandshake, OnOtherUp,
       OnUnreadableUp, ListenerThrowsUp, LoginAwaits, LoginSigned, ServerUserSpawns,
       ServerUserSends
  <2>2. Straight(client)
    BY <2>1
  <2> QED
    BY <1>1, <2>2, ThrowEffect
<1> QED
  BY <1>1, <1>2, <1>3, <1>4, <1>5, <1>6, <1>7, ConnectingEffect, EndingEffect DEF Next

LEMMA LoginAlways == Spec => []LoginInv
<1>1. Init => LoginInv
  <2> SUFFICES ASSUME Init, ChainsInv
               PROVE  StepOK(client, player, link, up, down)
    BY InitChains DEF LoginInv
  <2>1. /\ client.connect = "idle" /\ ~client.greeted /\ ~client.listening
        /\ client.send = Off /\ client.recv = Off
        /\ player.login = "none" /\ player.send = Off /\ player.recv = Off
        /\ ~player.isDisconnected /\ ~(player.spawning > 0)
        /\ link = "down" /\ up = <<>> /\ down = <<>>
    BY DEF Init
  <2>2. \A B : ~Holds(<<>>, B) /\ Single(<<>>, B)
    BY DEF Holds, Single
  <2>3. Clear(<<>>)
    BY DEF Clear
  <2>4. Encrypted(client, player) /\ UpInStep(client, player, up)
    BY <2>1, <2>3 DEF Encrypted, UpInStep
  <2>5. OneAtATime(client, player, up, down) /\ Greeted(client, player, up, down)
    BY <2>1, <2>2 DEF OneAtATime, Greeted, HandlesLogin, Undialled
  <2> QED
    BY <2>1, <2>4, <2>5 DEF StepOK
<1>2. LoginInv /\ [Next]_vars => LoginInv'
  <2> SUFFICES ASSUME LoginInv, [Next]_vars
               PROVE  LoginInv'
    OBVIOUS
  <2>1. ChainsInv /\ ChainsInv' /\ TypeOK /\ Quiet(client)
    BY ChainsStep DEF LoginInv, ChainsInv
  <2>2. ASSUME Straight(client') PROVE StepOK(client', player', link', up', down')
    <3>1. CASE UNCHANGED vars
      <4>1. Straight(client)
        BY <2>2, <3>1 DEF vars, Straight
      <4> QED
        BY <3>1, <4>1 DEF vars, LoginInv
    <3>2. CASE Next
      <4>1. StepOK(client, player, link, up, down) /\ ~ListenerThrows
        BY <2>1, <2>2, <3>2, StraightBefore DEF LoginInv
      <4>2. CASE ClientReceives
        BY <2>1, <4>1, <4>2, LoginInStep, HandshakeInStep, AnswerInStep, StartGameInStep,
           UnansweredInStep DEF ClientReceives
      <4>3. CASE ClientUserSends
        BY <2>1, <2>2, <4>1, <4>3, ClientUserInStep
      <4> QED
        BY <2>1, <3>2, <4>1, <4>2, <4>3, CalmInStep, ConnectingEffect, EndingEffect, DialInStep,
           BeginWaitingInStep, PlayerInStep, HandleLoginInStep, ServerUserInStep DEF Next
    <3> QED
      BY <3>1, <3>2
  <2> QED
    BY <2>1, <2>2 DEF LoginInv
<1> QED
  BY <1>1, <1>2, PTL DEF Spec

-------------------------------------------------------------------------------
(* The theorems *)

\* The ends, the link and the queues keep their types, and a client never
\* reports its end twice.
THEOREM LoginTyped == Spec => []TypeOK
<1>1. ChainsInv => TypeOK
  BY DEF ChainsInv
<1> QED
  BY <1>1, ChainsAlways, PTL

\* Offline, no login packet is on its way without the chains it needs: connect()
\* awaits them before it dials (Client.authenticateOffline).
THEOREM OfflineLoginWhole == Spec => []LoginIsComplete
<1>1. ChainsInv => LoginIsComplete
  BY DEF ChainsInv
<1> QED
  BY <1>1, ChainsAlways, PTL

\* Whatever part of its chains the client had signed when it sent the login, the
\* key handleLogin derives the secret with is the client's own.
THEOREM KeysOfBothEnds == Spec => []SecretsAgree
<1>1. ChainsInv => SecretsAgree
  BY DEF ChainsInv
<1> QED
  BY <1>1, ChainsAlways, PTL

\* As long as the client's user sends nothing before the handshake is answered and
\* none of its listeners throws, the next packet of either direction is sealed
\* under the number its reader has come to.
THEOREM CountersInStep == Spec => []InStep
<1>1. LoginInv => InStep
  <2> SUFFICES ASSUME LoginInv, ~client.sentEarly, ~client.threw
               PROVE  /\ up # <<>> => Readable(player, Head(up))
                      /\ down # <<>> /\ link = "open" /\ client.listening
                           => Readable(client, Head(down))
    BY DEF InStep
  <2>1. StepOK(client, player, link, up, down) /\ client \in Clients /\ player \in Players
        /\ up \in Seq(Packets) /\ down \in Seq(Packets)
    BY DEF LoginInv, ChainsInv, TypeOK, Straight
  <2> QED
    BY <2>1, InOrder DEF Readable
<1> QED
  BY <1>1, LoginAlways, PTL
===============================================================================
