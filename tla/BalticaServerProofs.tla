------------------------- MODULE BalticaServerProofs -------------------------
(***************************************************************************)
(* The tables of the server stay in step, within the limit, and each leave *)
(* is reported as it should be: for any set of addresses, every limit, any *)
(* number of connections and with or without a bridge.                     *)
(*                                                                         *)
(* An event of a connection deletes by key whatever the three tables have  *)
(* there.  That this is not another's entry rests on two facts, which      *)
(* hold of a key until one of its connections has an event late or is cut  *)
(* short: a connection ends while it is listed, and a player that is       *)
(* listed is on the connection that is listed under the same key, also     *)
(* under a bridge, which may take players off but never connections.       *)
(***************************************************************************)
EXTENDS BalticaServer, FiniteSetTheorems, TLAPS

Connection == [key : Key, status : {"Disconnected", "Connecting", "Connected"},
               requests : Nat, nics : Nat]
PlayerOn(n) == [conn : 1..n, isDisconnected : BOOLEAN, reports : 0..2,
                hooked : BOOLEAN, inTime : BOOLEAN, left : BOOLEAN,
                backend : {"none", "connecting", "routing", "closed"}]

\* What is listed under a key is of that key.
Keyed ==
  \A k \in Key :
    /\ connections[k] # 0 => conn[connections[k]].key = k
    /\ players[k] # 0 => conn[player[players[k]].conn].key = k

PlayersOnListed ==
  \A k \in Key : ~Astray(k) =>
    (players[k] # 0 => connections[k] = player[players[k]].conn)

Welcomed ==
  ~bridged => \A k \in Key : ~Astray(k) =>
    (connections[k] # 0 /\ conn[connections[k]].nics > 0 => players[k] # 0)

UnlistedDisconnected ==
  \A id \in 1..Len(conn) :
    Listed(id) \/ conn[id].status = "Disconnected" \/ Astray(conn[id].key)

\* The connection of a player is off the table once it has ended.
EndedUnlisted ==
  \A p \in 1..Len(player) :
    conn[player[p].conn].status = "Disconnected" => ~Listed(player[p].conn)

\* Without a bridge there are no backends, and only a hooked player has one.
BackendsOfBridge ==
  \A p \in 1..Len(player) :
    /\ player[p].hooked => bridged
    /\ player[p].inTime => player[p].hooked
    /\ player[p].backend # "none" => player[p].hooked

Room == IsFiniteSet(Open) /\ Cardinality(Open) <= MaxConnections

ServerInv ==
  /\ TypeOK /\ Keyed /\ PlayersOnListed /\ Welcomed /\ UnlistedDisconnected
  /\ EndedUnlisted /\ BackendsOfBridge /\ Room /\ LeavesOnce /\ HookedLeaveReported

-------------------------------------------------------------------------------
(* Lemmas *)

\* The bounds, as arithmetic needs them.
LEMMA Limits == MaxConnections \in Nat /\ MaxRequests \in Nat /\ Bound \in Nat
BY BoundAssumption

\* What the types say of single entries.
LEMMA Entries ==
  ASSUME TypeOK
  PROVE  /\ Len(conn) \in Nat /\ DOMAIN conn = 1..Len(conn)
         /\ Len(player) \in Nat /\ DOMAIN player = 1..Len(player)
         /\ \A id \in 1..Len(conn) : conn[id] \in Connection /\ conn[id].key \in Key
         /\ \A p \in 1..Len(player) : player[p] \in PlayerOn(Len(conn))
         /\ \A k \in Key : connections[k] \in 0..Len(conn) /\ players[k] \in 0..Len(player)
<1>1. /\ conn \in Seq(Connection) /\ player \in Seq(PlayerOn(Len(conn)))
      /\ connections \in [Key -> 0..Len(conn)] /\ players \in [Key -> 0..Len(player)]
  BY DEF TypeOK, Connection, PlayerOn, Table
<1>2. \A id \in 1..Len(conn) : conn[id] \in Connection
  BY <1>1
<1>3. \A id \in 1..Len(conn) : conn[id].key \in Key
  BY <1>2 DEF Connection
<1> QED
  BY <1>1, <1>2, <1>3

\* A function on 1..n is a sequence.
LEMMA FunctionIsSeq ==
  ASSUME NEW S, NEW n \in Nat, NEW f \in [1..n -> S]
  PROVE  f \in Seq(S) /\ Len(f) = n
OBVIOUS

\* Empty tables satisfy the invariant.
LEMMA ServerInitially == Init => ServerInv
<1> SUFFICES ASSUME Init
             PROVE  ServerInv
  OBVIOUS
<1>1. /\ bridged \in BOOLEAN /\ connections = [k \in Key |-> 0] /\ conn = <<>>
      /\ players = [k \in Key |-> 0] /\ player = <<>> /\ clients = [k \in Key |-> 0] /\ gone = {}
      /\ receiving = 0 /\ late = {} /\ cut = {}
  BY FlagAssumption DEF Init
<1>2. TypeOK
  BY <1>1 DEF TypeOK, Table
<1>3. Open = {}
  BY <1>1 DEF Open
<1>4. Room
  BY <1>3, FS_EmptySet, Limits DEF Room
<1>5. Keyed /\ PlayersOnListed
  BY <1>1 DEF Keyed, PlayersOnListed
<1>6. Welcomed
  BY <1>1 DEF Welcomed
<1>7. Len(conn) = 0 /\ Len(player) = 0
  BY <1>1
<1> QED
  BY <1>2, <1>4, <1>5, <1>6, <1>7
  DEF ServerInv, UnlistedDisconnected, EndedUnlisted, BackendsOfBridge, LeavesOnce, HookedLeaveReported

(***************************************************************************)
(* The end of connections                                                  *)
(***************************************************************************)

\* Players differ in nothing that the end of a connection looks at.
Alike(made) ==
  /\ made \in [1..Len(player) -> PlayerOn(Len(conn))]
  /\ \A p \in 1..Len(player) :
       /\ made[p].conn = player[p].conn /\ made[p].hooked = player[p].hooked
       /\ made[p].inTime = player[p].inTime /\ made[p].backend = player[p].backend
       /\ made[p].reports = player[p].reports /\ made[p].left = player[p].left

\* The players whose connection ends.
Ending(ids) == {p \in 1..Len(player) : player[p].conn \in ids}

HookedOf(made, told) == {p \in told : made[p].hooked}

\* What the reports do to the entry of each player.
LEMMA ReportedEntries ==
  ASSUME TypeOK, NEW made, Alike(made), NEW told \in SUBSET (1..Len(player)),
         player' = Reported(made, told, HookedOf(made, told))
  PROVE  /\ player' \in Seq(PlayerOn(Len(conn))) /\ Len(player') = Len(player)
         /\ \A p \in 1..Len(player) :
              /\ player'[p].conn = player[p].conn /\ player'[p].hooked = player[p].hooked
              /\ player'[p].inTime = player[p].inTime
              /\ player'[p].backend = player[p].backend
              /\ player'[p].left = (player[p].left \/ (p \in told /\ player[p].hooked))
              /\ ~player[p].hooked =>
                   player'[p].reports = Reports(player[p].reports, p, told)
<1> DEFINE n == Len(conn)
           m == Len(player)
           hs == HookedOf(made, told)
<1>1. /\ n \in Nat /\ m \in Nat /\ DOMAIN made = 1..m
      /\ \A p \in 1..m : made[p] \in PlayerOn(n)
      /\ \A p \in 1..m : player[p] \in PlayerOn(n)
  BY Entries DEF Alike
<1>2. player' = [p \in 1..m |->
         [made[p] EXCEPT !.reports = Reports(Reports(@, p, told), p, hs),
                         !.left = BridgeDisconnect(p, hs)]]
  BY <1>1 DEF Reported
<1>3. ASSUME NEW p \in 1..m
      PROVE  /\ Reports(Reports(made[p].reports, p, told), p, hs) \in 0..2
             /\ BridgeDisconnect(p, hs) \in BOOLEAN
  <2>1. made[p].reports \in 0..2 /\ player[p].left \in BOOLEAN
    BY <1>1 DEF PlayerOn
  <2>2. \A x \in 0..2 : \A S : Reports(x, p, S) \in 0..2
    BY DEF Reports
  <2> QED
    BY <2>1, <2>2 DEF BridgeDisconnect
<1> HIDE DEF hs
<1>4. ASSUME NEW p \in 1..m
      PROVE  /\ player'[p] \in PlayerOn(n)
             /\ player'[p].conn = made[p].conn /\ player'[p].hooked = made[p].hooked
             /\ player'[p].inTime = made[p].inTime /\ player'[p].backend = made[p].backend
             /\ player'[p].left = BridgeDisconnect(p, hs)
             /\ player'[p].reports = Reports(Reports(made[p].reports, p, told), p, hs)
  <2>1. player'[p] = [made[p] EXCEPT !.reports = Reports(Reports(@, p, told), p, hs),
                                     !.left = BridgeDisconnect(p, hs)]
    BY <1>2
  <2>2. made[p] \in PlayerOn(n)
    BY <1>1
  <2> QED
    BY <1>3, <2>1, <2>2 DEF PlayerOn
<1>5. ASSUME NEW p \in 1..m
      PROVE  /\ player'[p].left = (player[p].left \/ (p \in told /\ player[p].hooked))
             /\ ~player[p].hooked =>
                  player'[p].reports = Reports(player[p].reports, p, told)
  <2>1. p \in hs <=> p \in told /\ player[p].hooked
    BY DEF Alike, HookedOf, hs
  <2>2. ~player[p].hooked => player'[p].reports = Reports(made[p].reports, p, told)
    BY <1>4, <2>1 DEF Reports
  <2>3. player'[p].left = (player[p].left \/ p \in hs)
    BY <1>4 DEF BridgeDisconnect
  <2>4. made[p].reports = player[p].reports
    BY DEF Alike
  <2> QED
    BY <2>1, <2>2, <2>3, <2>4
<1>6. player' \in [1..m -> PlayerOn(n)]
  BY <1>2, <1>4
<1>7. player' \in Seq(PlayerOn(n)) /\ Len(player') = m
  <2> HIDE DEF n, m
  <2> QED
    BY <1>1, <1>6, FunctionIsSeq
<1> QED
  BY <1>4, <1>5, <1>7 DEF Alike

\* What Ended does to the entry of each connection and key.
LEMMA EndedEntries ==
  ASSUME TypeOK, NEW ids \in SUBSET (1..Len(conn)), Ended(ids)
  PROVE  /\ conn' \in Seq(Connection) /\ Len(conn') = Len(conn)
         /\ connections' \in [Key -> 0..Len(conn)]
         /\ \A id \in 1..Len(conn) :
              /\ conn'[id].key = conn[id].key /\ conn'[id].nics = conn[id].nics
              /\ conn'[id].status = IF id \in ids THEN "Disconnected" ELSE conn[id].status
         /\ \A k \in Key :
              connections'[k] = IF \E id \in ids : conn[id].key = k THEN 0 ELSE connections[k]
         /\ late' \subseteq 1..Len(conn) /\ late \subseteq late'
         /\ \A id \in ids : Listed(id) \/ id \in late'
<1> DEFINE n == Len(conn)
           D == {conn[id].key : id \in ids}
<1>1. /\ n \in Nat /\ DOMAIN conn = 1..n
      /\ \A id \in 1..n : conn[id] \in Connection
  BY Entries
<1>2. connections \in [Key -> 0..n] /\ late \subseteq 1..n
  BY DEF TypeOK, Table
<1>3. /\ conn' = [id \in 1..n |->
                   IF id \in ids THEN [conn[id] EXCEPT !.status = Status] ELSE conn[id]]
      /\ connections' = Deleted(connections, D)
      /\ late' = late \cup {id \in ids : ~Listed(id)}
  BY <1>1 DEF Ended, EmitDisconnect
<1>4. \A id \in 1..n :
        /\ conn'[id] \in Connection
        /\ conn'[id].key = conn[id].key /\ conn'[id].nics = conn[id].nics
        /\ conn'[id].status = IF id \in ids THEN "Disconnected" ELSE conn[id].status
  BY <1>1, <1>3 DEF Connection, Status
<1>5. conn' \in [1..n -> Connection]
  BY <1>3, <1>4
<1>6. conn' \in Seq(Connection) /\ Len(conn') = n
  <2> HIDE DEF n
  <2> QED
    BY <1>1, <1>5, FunctionIsSeq
<1>7. /\ connections' \in [Key -> 0..n]
      /\ \A k \in Key : connections'[k] = IF k \in D THEN 0 ELSE connections[k]
  <2> HIDE DEF D, n
  <2> QED
    BY <1>1, <1>2, <1>3 DEF Deleted
<1> QED
  BY <1>2, <1>3, <1>4, <1>6, <1>7

\* Connections end: the players told are reported, the others are on connections
\* whose events were cut short.  Of a key without late or cut events, what ends
\* was listed, so the entries that go are its own.
LEMMA EndPreserves ==
  ASSUME ServerInv, NEW ids \in SUBSET (1..Len(conn)), Ended(ids),
         NEW made, Alike(made), NEW told \in SUBSET Ending(ids),
         player' = Reported(made, told, HookedOf(made, told)),
         cut \subseteq cut', cut' \subseteq 1..Len(conn),
         \A p \in Ending(ids) : p \in told \/ player[p].conn \in cut',
         players' \in [Key -> 0..Len(player)], clients' \in [Key -> 0..Len(player)],
         \A k \in Key : players'[k] = 0 \/ players'[k] = players[k],
         \A k \in Key : ~Astray(k)' =>
           players'[k] = IF \E p \in Ending(ids) : conn[player[p].conn].key = k
                           THEN 0 ELSE players[k],
         bridged' = bridged, gone' \subseteq Key, receiving' = receiving
  PROVE  ServerInv'
<1> DEFINE n == Len(conn)
           m == Len(player)
           ps == Ending(ids)
<1>1. TypeOK
  BY DEF ServerInv
<1>2. /\ n \in Nat /\ m \in Nat
      /\ \A id \in 1..n : conn[id].key \in Key
      /\ \A p \in 1..m : player[p].conn \in 1..n /\ player[p].reports \in 0..2
      /\ \A k \in Key : connections[k] \in 0..n /\ players[k] \in 0..m
  BY <1>1, Entries DEF PlayerOn
<1>3. /\ conn' \in Seq(Connection) /\ Len(conn') = n /\ connections' \in [Key -> 0..n]
      /\ \A id \in 1..n :
           /\ conn'[id].key = conn[id].key /\ conn'[id].nics = conn[id].nics
           /\ conn'[id].status = IF id \in ids THEN "Disconnected" ELSE conn[id].status
      /\ \A k \in Key :
           connections'[k] = IF \E id \in ids : conn[id].key = k THEN 0 ELSE connections[k]
      /\ late' \subseteq 1..n /\ late \subseteq late'
      /\ \A id \in ids : Listed(id) \/ id \in late'
  BY <1>1, EndedEntries
<1>4. /\ player' \in Seq(PlayerOn(n)) /\ Len(player') = m
      /\ \A p \in 1..m :
           /\ player'[p].conn = player[p].conn /\ player'[p].hooked = player[p].hooked
           /\ player'[p].inTime = player[p].inTime /\ player'[p].backend = player[p].backend
           /\ player'[p].left = (player[p].left \/ (p \in told /\ player[p].hooked))
           /\ ~player[p].hooked => player'[p].reports = Reports(player[p].reports, p, told)
  <2>1. told \in SUBSET (1..m)
    BY DEF Ending
  <2> QED
    BY <1>1, <2>1, ReportedEntries
<1>5. TypeOK'
  BY <1>1, <1>3, <1>4 DEF TypeOK, Table, Connection, PlayerOn
<1>6. \A p \in 1..m : p \in ps <=> player[p].conn \in ids
  BY DEF Ending
<1>7. told \subseteq ps /\ ps \subseteq 1..m
  BY DEF Ending
<1>8. \A k \in Key : ~Astray(k)' =>
        /\ ~Astray(k)
        /\ \A id \in ids : conn[id].key = k => connections[k] = id
        /\ players'[k] = IF \E p \in ps : conn[player[p].conn].key = k THEN 0 ELSE players[k]
  <2> SUFFICES ASSUME NEW k \in Key, ~Astray(k)'
               PROVE  /\ ~Astray(k)
                      /\ \A id \in ids : conn[id].key = k => connections[k] = id
    OBVIOUS
  <2>1. late \subseteq 1..n /\ cut \subseteq 1..n
    BY <1>1 DEF TypeOK
  <2>2. \A id \in late' \cup cut' : conn'[id].key # k
    BY DEF Astray
  <2>3. ~Astray(k)
    BY <1>3, <2>1, <2>2 DEF Astray
  <2>4. \A id \in ids : conn[id].key = k => Listed(id)
    BY <1>3, <2>2
  <2> QED
    BY <2>3, <2>4 DEF Listed
<1> HIDE DEF ps
<1>9. \A id \in 1..n :
        /\ connections'[conn'[id].key] = id => connections[conn[id].key] = id /\ id \notin ids
        /\ connections'[conn'[id].key] = id
             \/ connections[conn[id].key] # id \/ \E x \in ids : conn[x].key = conn[id].key
  <2> TAKE id \in 1..n
  <2> DEFINE k == conn[id].key
  <2>1. k \in Key /\ conn'[id].key = k
    BY <1>2, <1>3
  <2>2. id \in ids => conn[id].key = k
    OBVIOUS
  <2> HIDE DEF k
  <2>3. connections'[k] = IF \E x \in ids : conn[x].key = k THEN 0 ELSE connections[k]
    BY <1>3, <2>1
  <2>4. id # 0
    BY <1>2
  <2>5. CASE \E x \in ids : conn[x].key = k
    BY <2>1, <2>3, <2>4, <2>5 DEF k
  <2>6. CASE ~\E x \in ids : conn[x].key = k
    BY <2>1, <2>2, <2>3, <2>6 DEF k
  <2> QED
    BY <2>5, <2>6
<1>10. Keyed'
  <2> SUFFICES ASSUME NEW k \in Key
               PROVE  /\ connections'[k] # 0 => conn'[connections'[k]].key = k
                      /\ players'[k] # 0 => conn'[player'[players'[k]].conn].key = k
    BY DEF Keyed
  <2>1. ASSUME connections'[k] # 0
        PROVE  conn'[connections'[k]].key = k
    <3>1. connections'[k] = connections[k] /\ connections[k] \in 1..n
      BY <1>2, <1>3, <2>1
    <3> QED
      BY <1>3, <3>1 DEF ServerInv, Keyed
  <2>2. ASSUME players'[k] # 0
        PROVE  conn'[player'[players'[k]].conn].key = k
    <3>1. players'[k] = players[k] /\ players[k] \in 1..m
      BY <1>2, <2>2
    <3>2. player'[players[k]].conn = player[players[k]].conn /\ player[players[k]].conn \in 1..n
      BY <1>2, <1>4, <3>1
    <3> QED
      BY <1>3, <3>1, <3>2 DEF ServerInv, Keyed
  <2> QED
    BY <2>1, <2>2
<1>11. PlayersOnListed'
  <2> SUFFICES ASSUME NEW k \in Key, ~Astray(k)', players'[k] # 0
               PROVE  connections'[k] = player'[players'[k]].conn
    BY DEF PlayersOnListed
  <2> DEFINE p == players[k]
  <2>1. players'[k] = p /\ p \in 1..m
    BY <1>2
  <2>2. connections[k] = player[p].conn /\ player[p].conn \in 1..n
    BY <1>2, <1>8, <2>1 DEF ServerInv, PlayersOnListed
  <2>3. conn[player[p].conn].key = k
    BY <2>1 DEF ServerInv, Keyed
  <2>4. p \notin ps
    BY <1>8, <2>1, <2>3
  <2>5. \A id \in ids : conn[id].key # k
    BY <1>6, <1>8, <2>1, <2>2, <2>4
  <2> HIDE DEF p
  <2>6. connections'[k] = connections[k]
    BY <1>3, <2>5
  <2> QED
    BY <1>4, <2>1, <2>2, <2>6
<1>12. Welcomed'
  <2> SUFFICES ASSUME ~bridged, NEW k \in Key, ~Astray(k)', connections'[k] # 0,
                      conn'[connections'[k]].nics > 0
               PROVE  players'[k] # 0
    BY DEF Welcomed
  <2>1. connections'[k] = connections[k] /\ connections[k] \in 1..n
    BY <1>2, <1>3
  <2>2. conn[connections[k]].nics > 0
    BY <1>3, <2>1
  <2>3. players[k] # 0
    BY <1>8, <2>1, <2>2 DEF ServerInv, Welcomed
  <2>4. \A p \in ps : conn[player[p].conn].key # k
    <3> SUFFICES ASSUME NEW p \in ps, conn[player[p].conn].key = k
                 PROVE  FALSE
      OBVIOUS
    <3>1. player[p].conn \in ids
      BY DEF ps, Ending
    <3>2. connections'[k] = 0
      BY <1>3, <3>1
    <3> QED
      BY <2>1, <3>2
  <2> QED
    BY <1>8, <2>3, <2>4
<1>13. UnlistedDisconnected'
  <2> SUFFICES ASSUME NEW id \in 1..n,
                      \A x \in late' \cup cut' : conn'[x].key # conn'[id].key,
                      conn'[id].status # "Disconnected"
               PROVE  connections'[conn'[id].key] = id
    BY <1>3 DEF UnlistedDisconnected, Listed, Astray
  <2> DEFINE k == conn[id].key
  <2>1. k \in Key /\ conn'[id].key = k /\ id \notin ids /\ conn[id].status # "Disconnected"
    BY <1>2, <1>3
  <2>2. \A x \in late' \cup cut' : conn'[x].key # k
    BY <2>1
  <2> HIDE DEF k
  <2>3. ~Astray(k) /\ \A x \in ids : conn[x].key = k => connections[k] = x
    <3>1. \A y \in Key : (\A x \in late' \cup cut' : conn'[x].key # y) =>
            ~Astray(y) /\ \A x \in ids : conn[x].key = y => connections[y] = x
      BY <1>8 DEF Astray
    <3> QED
      BY <2>1, <2>2, <3>1
  <2>4. connections[k] = id
    <3>1. Listed(id) \/ conn[id].status = "Disconnected" \/ Astray(conn[id].key)
      BY DEF ServerInv, UnlistedDisconnected
    <3> QED
      BY <2>1, <2>3, <3>1 DEF k, Listed
  <2>5. ~\E x \in ids : conn[x].key = k
    BY <2>1, <2>3, <2>4
  <2> QED
    BY <1>3, <2>1, <2>4, <2>5
<1>14. EndedUnlisted'
  <2> SUFFICES ASSUME NEW p \in 1..m, conn'[player'[p].conn].status = "Disconnected",
                      connections'[conn'[player'[p].conn].key] = player'[p].conn
               PROVE  FALSE
    BY <1>4 DEF EndedUnlisted, Listed
  <2> DEFINE id == player[p].conn
  <2>1. id \in 1..n /\ player'[p].conn = id
    BY <1>2, <1>4
  <2> HIDE DEF id
  <2>2. connections[conn[id].key] = id /\ id \notin ids
    BY <1>9, <2>1
  <2>3. conn[id].status = "Disconnected"
    BY <1>3, <2>1, <2>2
  <2> QED
    BY <2>1, <2>2, <2>3 DEF id, ServerInv, EndedUnlisted, Listed
<1>15. BackendsOfBridge'
  BY <1>4 DEF ServerInv, BackendsOfBridge
<1>16. Room'
  <2>1. Open' \subseteq Open
    BY <1>3 DEF Open
  <2>2. IsFiniteSet(Open) /\ Cardinality(Open) <= MaxConnections
    BY DEF ServerInv, Room
  <2>3. IsFiniteSet(Open') /\ Cardinality(Open') <= Cardinality(Open)
    BY <2>1, <2>2, FS_Subset
  <2>4. Cardinality(Open) \in Nat /\ Cardinality(Open') \in Nat
    BY <2>2, <2>3, FS_CardinalityType
  <2> QED
    BY <2>2, <2>3, <2>4, Limits DEF Room
<1>17. LeavesOnce'
  <2> SUFFICES ASSUME ~bridged, NEW p \in 1..m
               PROVE  LET id == player'[p].conn
                          ended == conn'[id].status = "Disconnected" IN
                      /\ ended /\ id \notin cut' => player'[p].reports > 0
                      /\ id \notin late' \cup cut' =>
                           player'[p].reports = IF ended THEN 1 ELSE 0
    BY <1>4 DEF LeavesOnce
  <2> DEFINE id == player[p].conn
             r == player[p].reports
  <2>1. ~player[p].hooked
    BY DEF ServerInv, BackendsOfBridge
  <2>2. id \in 1..n /\ player'[p].conn = id /\ r \in 0..2 /\ player'[p].reports = Reports(r, p, told)
    BY <1>2, <1>4, <2>1
  <2>3. /\ conn[id].status = "Disconnected" /\ id \notin cut => r > 0
        /\ id \notin late \cup cut => r = IF conn[id].status = "Disconnected" THEN 1 ELSE 0
    BY DEF ServerInv, LeavesOnce
  <2>4. conn[id].status = "Disconnected" => ~Listed(id)
    BY DEF ServerInv, EndedUnlisted
  <2>5. /\ conn'[id].status = IF id \in ids THEN "Disconnected" ELSE conn[id].status
        /\ id \in ids => Listed(id) \/ id \in late'
        /\ p \in ps <=> id \in ids
        /\ p \in ps => p \in told \/ id \in cut'
    BY <1>3, <1>6, <2>2 DEF ps
  <2>6. /\ p \in told => p \in ps
        /\ id \in late => id \in late'
        /\ id \in cut => id \in cut'
    BY <1>3, <1>7
  <2>7. Reports(r, p, told) = IF p \in told /\ r < 2 THEN r + 1 ELSE r
    BY DEF Reports
  <2> HIDE DEF id, r
  <2>8. CASE id \in ids
    <3>1. id \notin cut' => p \in told
      BY <2>5, <2>8
    <3>2. id \notin late' \cup cut' => r = 0
      BY <2>3, <2>4, <2>5, <2>6, <2>8
    <3> QED
      BY <2>2, <2>5, <2>7, <2>8, <3>1, <3>2
  <2>9. CASE id \notin ids
    <3>1. player'[p].reports = r /\ conn'[id].status = conn[id].status
      BY <2>2, <2>5, <2>6, <2>7, <2>9
    <3> QED
      BY <2>2, <2>3, <2>6, <3>1
  <2> QED
    BY <2>8, <2>9
<1>18. HookedLeaveReported'
  <2> SUFFICES ASSUME NEW p \in 1..m, player'[p].inTime, player'[p].conn \notin cut',
                      conn'[player'[p].conn].status = "Disconnected"
               PROVE  player'[p].left
    BY <1>4 DEF HookedLeaveReported
  <2> DEFINE id == player[p].conn
  <2>1. /\ id \in 1..n /\ player'[p].conn = id /\ player[p].inTime /\ player[p].hooked
        /\ id \notin cut' /\ id \notin cut
    BY <1>2, <1>4 DEF ServerInv, BackendsOfBridge
  <2>2. player'[p].left = (player[p].left \/ p \in told)
    BY <1>4, <2>1
  <2>3. CASE id \in ids
    BY <1>6, <2>1, <2>2, <2>3 DEF ps
  <2>4. CASE id \notin ids
    <3>1. conn[id].status = "Disconnected"
      BY <1>3, <2>1, <2>4
    <3> QED
      BY <2>1, <2>2, <3>1 DEF ServerInv, HookedLeaveReported
  <2> QED
    BY <2>3, <2>4
<1> QED
  BY <1>5, <1>10, <1>11, <1>12, <1>13, <1>14, <1>15, <1>16, <1>17, <1>18 DEF ServerInv

\* Deleting by key what is of players keeps a table a table.
LEMMA DeletedEntries ==
  ASSUME NEW m \in Nat, NEW table \in [Key -> 0..m], NEW K
  PROVE  /\ Deleted(table, K) \in [Key -> 0..m]
         /\ \A k \in Key : Deleted(table, K)[k] = IF k \in K THEN 0 ELSE table[k]
BY DEF Deleted

\* All the listeners run.
LEMMA DropPreserves ==
  ASSUME ServerInv, NEW made, Alike(made), NEW ids \in SUBSET (1..Len(conn)), Drop(made, ids),
         bridged' = bridged, gone' \subseteq Key, receiving' = receiving
  PROVE  ServerInv'
<1> DEFINE m == Len(player)
           ps == Ending(ids)
           hs == HookedOf(made, ps)
<1>1. TypeOK
  BY DEF ServerInv
<1>2. /\ m \in Nat /\ DOMAIN made = 1..m
      /\ players \in [Key -> 0..m] /\ clients \in [Key -> 0..m] /\ cut \subseteq 1..Len(conn)
  BY <1>1, Entries DEF Alike, TypeOK, Table
<1>3. ps = {p \in DOMAIN made : made[p].conn \in ids}
  BY <1>2 DEF Alike, Ending
<1>4. Ended(ids) /\ Leave(made, ps, hs) /\ cut' = cut
  BY <1>3 DEF Drop, HookedOf
<1>5. hs \subseteq ps
  BY DEF HookedOf
<1>6. /\ player' = Reported(made, ps, hs)
      /\ players' = Deleted(players, KeysOf(ps)) /\ clients' = Deleted(clients, KeysOf(hs))
  <2>1. ps \cup hs = ps
    BY <1>5
  <2> QED
    BY <1>4, <2>1 DEF Leave, OnDisconnect
<1>7. /\ players' \in [Key -> 0..m] /\ clients' \in [Key -> 0..m]
      /\ \A k \in Key : players'[k] = IF k \in KeysOf(ps) THEN 0 ELSE players[k]
  <2> DEFINE K == KeysOf(ps)
             H == KeysOf(hs)
  <2>1. players' = Deleted(players, K) /\ clients' = Deleted(clients, H)
    BY <1>6
  <2> HIDE DEF K, H, m
  <2>2. /\ players' \in [Key -> 0..m] /\ clients' \in [Key -> 0..m]
        /\ \A k \in Key : players'[k] = IF k \in K THEN 0 ELSE players[k]
    BY <1>2, <2>1, DeletedEntries
  <2> QED
    BY <2>2 DEF K
<1>8. \A k \in Key : k \in KeysOf(ps) <=> \E p \in ps : conn[player[p].conn].key = k
  BY DEF KeysOf
<1> HIDE DEF ps, m
<1>9. \A k \in Key : players'[k] = IF \E p \in ps : conn[player[p].conn].key = k
                                     THEN 0 ELSE players[k]
  BY <1>7, <1>8
<1> QED
  BY <1>2, <1>4, <1>6, <1>7, <1>9, EndPreserves DEF ps, m

(***************************************************************************)
(* The other actions                                                       *)
(***************************************************************************)

\* A new connection is under a key that nothing was listed under.
LEMMA OpenConnectionRequest2NewPreserves ==
  ASSUME ServerInv, NEW k \in Key, OpenConnectionRequest2_New(k)
  PROVE  ServerInv'
<1> DEFINE n == Len(conn)
           new == [key |-> k, status |-> "Disconnected", requests |-> 0, nics |-> 0]
<1>1. TypeOK
  BY DEF ServerInv
<1>2. /\ connections[k] = 0 /\ ~Full
      /\ conn' = Append(conn, new) /\ connections' = [connections EXCEPT ![k] = n + 1]
      /\ UNCHANGED <<players, player, clients, bridged, gone, receiving, late, cut>>
  BY DEF OpenConnectionRequest2_New
<1>3. /\ n \in Nat /\ Len(player) \in Nat
      /\ \A id \in 1..n : conn[id] \in Connection /\ conn[id].key \in Key
      /\ \A p \in 1..Len(player) : player[p].conn \in 1..n
      /\ \A x \in Key : connections[x] \in 0..n /\ players[x] \in 0..Len(player)
      /\ late \subseteq 1..n /\ cut \subseteq 1..n
  BY <1>1, Entries DEF PlayerOn, TypeOK
<1>4. new \in Connection
  BY DEF Connection
<1>5. conn \in Seq(Connection) /\ connections \in [Key -> 0..n]
  BY <1>1 DEF TypeOK, Connection, Table
<1>6. /\ conn' \in Seq(Connection) /\ Len(conn') = n + 1
      /\ \A id \in 1..n : conn'[id] = conn[id]
      /\ conn'[n + 1] = new
  BY <1>2, <1>4, <1>5
<1>7. /\ connections' \in [Key -> 0..(n + 1)]
      /\ \A x \in Key : connections'[x] = IF x = k THEN n + 1 ELSE connections[x]
  BY <1>2, <1>3, <1>5
<1>8. TypeOK'
  <2>1. player \in Seq(PlayerOn(n)) /\ PlayerOn(n) \subseteq PlayerOn(n + 1)
    BY <1>1, <1>3 DEF TypeOK, PlayerOn
  <2>2. player' \in Seq(PlayerOn(n + 1))
    BY <1>2, <2>1
  <2>3. receiving \in 0..n /\ gone \subseteq Key /\ bridged \in BOOLEAN
    BY <1>1 DEF TypeOK
  <2>4. /\ receiving' \in 0..(n + 1)
        /\ late' \subseteq 1..(n + 1) /\ cut' \subseteq 1..(n + 1)
    BY <1>2, <1>3, <2>3
  <2> QED
    BY <1>1, <1>2, <1>6, <1>7, <2>2, <2>3, <2>4 DEF TypeOK, Table, Connection, PlayerOn
<1>9. \A id \in 1..n : connections'[conn'[id].key] = id <=> connections[conn[id].key] = id
  BY <1>2, <1>3, <1>6, <1>7
<1>10. \A x : (\A id \in late' \cup cut' : conn'[id].key # x) <=> ~Astray(x)
  BY <1>2, <1>3, <1>6 DEF Astray
<1>11. Keyed'
  BY <1>2, <1>3, <1>6, <1>7 DEF ServerInv, Keyed
<1>12. PlayersOnListed'
  <2> SUFFICES ASSUME NEW x \in Key, ~Astray(x)', players[x] # 0
               PROVE  connections'[x] = player[players[x]].conn
    BY <1>2 DEF PlayersOnListed
  <2>1. ~Astray(x)
    BY <1>10 DEF Astray
  <2>2. connections[x] = player[players[x]].conn /\ connections[x] # 0
    BY <1>3, <2>1 DEF ServerInv, PlayersOnListed
  <2> QED
    BY <1>2, <1>7, <2>2
<1>13. Welcomed'
  <2> SUFFICES ASSUME ~bridged, NEW x \in Key, ~Astray(x)', connections'[x] # 0,
                      conn'[connections'[x]].nics > 0
               PROVE  players[x] # 0
    BY <1>2 DEF Welcomed
  <2>1. x # k
    BY <1>6, <1>7
  <2>2. connections'[x] = connections[x] /\ connections[x] \in 1..n
    BY <1>3, <1>7, <2>1
  <2>3. ~Astray(x)
    BY <1>10 DEF Astray
  <2> QED
    BY <1>6, <2>2, <2>3 DEF ServerInv, Welcomed
<1>14. UnlistedDisconnected'
  <2> SUFFICES ASSUME NEW id \in 1..(n + 1),
                      \A x \in late' \cup cut' : conn'[x].key # conn'[id].key
               PROVE  connections'[conn'[id].key] = id \/ conn'[id].status = "Disconnected"
    BY <1>6 DEF UnlistedDisconnected, Listed, Astray
  <2>1. CASE id \in 1..n
    BY <1>6, <1>9, <1>10, <2>1 DEF ServerInv, UnlistedDisconnected, Listed
  <2>2. CASE id = n + 1
    BY <1>6, <2>2
  <2> QED
    BY <1>3, <2>1, <2>2
<1>15. EndedUnlisted'
  BY <1>2, <1>3, <1>6, <1>9 DEF ServerInv, EndedUnlisted, Listed
<1>16. BackendsOfBridge'
  BY <1>2 DEF ServerInv, BackendsOfBridge
<1>17. Room'
  <2>1. Open' = Open \cup {k}
    BY <1>3, <1>7 DEF Open
  <2>2. k \notin Open
    BY <1>2 DEF Open
  <2>3. IsFiniteSet(Open) /\ Cardinality(Open) \in Nat
    BY FS_CardinalityType DEF ServerInv, Room
  <2>4. Cardinality(Open) < MaxConnections
    BY <1>2, <2>3, Limits DEF Full
  <2>5. IsFiniteSet(Open') /\ Cardinality(Open') = Cardinality(Open) + 1
    BY <2>1, <2>2, <2>3, FS_AddElement
  <2> QED
    BY <2>3, <2>4, <2>5, Limits DEF Room
<1>18. LeavesOnce' /\ HookedLeaveReported'
  BY <1>2, <1>3, <1>6 DEF ServerInv, LeavesOnce, HookedLeaveReported
<1> QED
  BY <1>8, <1>11, <1>12, <1>13, <1>14, <1>15, <1>16, <1>17, <1>18 DEF ServerInv

\* The handshake moves its own fields of the connection only, and makes only one
\* that is listed Connecting.
LEMMA HandshakePreserves ==
  ASSUME ServerInv, NEW id \in 1..Len(conn), NEW after \in Connection,
         after.key = conn[id].key, after.nics = conn[id].nics,
         after.status = conn[id].status \/ (Listed(id) /\ after.status = "Connecting"),
         conn' = [conn EXCEPT ![id] = after],
         UNCHANGED <<connections, players, player, clients, bridged, gone, receiving, late, cut>>
  PROVE  ServerInv'
<1>1. TypeOK
  BY DEF ServerInv
<1>2. /\ Len(conn) \in Nat
      /\ \A x \in 1..Len(conn) : conn[x] \in Connection
      /\ \A p \in 1..Len(player) : player[p].conn \in 1..Len(conn)
      /\ \A k \in Key : connections[k] \in 0..Len(conn) /\ players[k] \in 0..Len(player)
      /\ late \subseteq 1..Len(conn) /\ cut \subseteq 1..Len(conn)
  BY <1>1, Entries DEF PlayerOn, TypeOK
<1>3. conn \in Seq(Connection)
  BY <1>1 DEF TypeOK, Connection
<1>4. /\ conn' \in Seq(Connection) /\ Len(conn') = Len(conn)
      /\ \A x \in 1..Len(conn) :
           /\ conn'[x].key = conn[x].key /\ conn'[x].nics = conn[x].nics
           /\ conn'[x].status = conn[x].status
                \/ (Listed(x) /\ conn'[x].status = "Connecting")
  BY <1>2, <1>3
<1>5. TypeOK'
  BY <1>1, <1>4 DEF TypeOK, Connection
<1>6. \A x : (\A y \in late \cup cut : conn'[y].key # x) <=> ~Astray(x)
  BY <1>2, <1>4 DEF Astray
<1>7. Keyed' /\ Room'
  BY <1>2, <1>4 DEF ServerInv, Keyed, Room, Open
<1>8. PlayersOnListed' /\ Welcomed'
  <2>1. \A x \in Key : (\A y \in late' \cup cut' : conn'[y].key # x) =>
          (players[x] # 0 => connections[x] = player[players[x]].conn)
    BY <1>6 DEF ServerInv, PlayersOnListed
  <2>2. ~bridged => \A x \in Key : (\A y \in late' \cup cut' : conn'[y].key # x) =>
          (connections[x] # 0 /\ conn'[connections[x]].nics > 0 => players[x] # 0)
    BY <1>2, <1>4, <1>6 DEF ServerInv, Welcomed
  <2> QED
    BY <2>1, <2>2 DEF PlayersOnListed, Welcomed, Astray
<1>9. UnlistedDisconnected'
  <2> SUFFICES ASSUME NEW x \in 1..Len(conn),
                      \A y \in late' \cup cut' : conn'[y].key # conn'[x].key
               PROVE  connections[conn'[x].key] = x \/ conn'[x].status = "Disconnected"
    BY <1>4 DEF UnlistedDisconnected, Listed, Astray
  <2>1. ~Astray(conn[x].key)
    BY <1>4, <1>6
  <2> QED
    BY <1>4, <2>1 DEF ServerInv, UnlistedDisconnected, Listed
<1>10. EndedUnlisted'
  BY <1>2, <1>4 DEF ServerInv, EndedUnlisted, Listed
<1>11. BackendsOfBridge'
  BY DEF ServerInv, BackendsOfBridge
<1>12. \A p \in 1..Len(player) :
         conn'[player[p].conn].status = "Disconnected"
           <=> conn[player[p].conn].status = "Disconnected"
  BY <1>2, <1>4 DEF ServerInv, EndedUnlisted
<1>13. LeavesOnce' /\ HookedLeaveReported'
  BY <1>12 DEF ServerInv, LeavesOnce, HookedLeaveReported
<1> QED
  BY <1>5, <1>7, <1>8, <1>9, <1>10, <1>11, <1>13 DEF ServerInv

\* The player that "connect" makes is listed on the connection that is listed,
\* or the event comes late.
LEMMA NewIncomingConnectionPreserves ==
  ASSUME ServerInv, NEW id \in 1..Len(conn), NewIncomingConnection(id)
  PROVE  ServerInv'
<1> DEFINE n == Len(conn)
           m == Len(player)
           key == conn[id].key
           after == [conn[id] EXCEPT !.status = "Connected", !.nics = @ + 1]
           new == [conn |-> id, isDisconnected |-> FALSE, reports |-> 0,
                   hooked |-> FALSE, inTime |-> FALSE, backend |-> "none", left |-> FALSE]
<1>1. TypeOK
  BY DEF ServerInv
<1>2. /\ conn' = [conn EXCEPT ![id] = after] /\ player' = Append(player, new)
      /\ players' = [players EXCEPT ![key] = m + 1]
      /\ clients' = [clients EXCEPT ![key] = IF bridged THEN m + 1 ELSE @]
      /\ late' = late \cup {x \in {id} : ~Listed(x)}
      /\ UNCHANGED <<connections, bridged, gone, receiving, cut>>
  BY DEF NewIncomingConnection
<1>3. /\ n \in Nat /\ m \in Nat
      /\ \A x \in 1..n : conn[x] \in Connection /\ conn[x].key \in Key
      /\ \A p \in 1..m : player[p] \in PlayerOn(n) /\ player[p].conn \in 1..n
      /\ \A k \in Key : connections[k] \in 0..n /\ players[k] \in 0..m
      /\ late \subseteq 1..n /\ cut \subseteq 1..n
  BY <1>1, Entries DEF PlayerOn, TypeOK
<1>4. /\ conn \in Seq(Connection) /\ player \in Seq(PlayerOn(n))
      /\ players \in [Key -> 0..m] /\ clients \in [Key -> 0..m]
  BY <1>1 DEF TypeOK, Connection, PlayerOn, Table
<1>5. /\ after \in Connection /\ after.key = key
      /\ after.status = "Connected"
  <2>1. conn[id] \in Connection
    BY <1>3
  <2>2. conn[id].nics \in Nat /\ conn[id].nics + 1 \in Nat
    BY <2>1 DEF Connection
  <2> QED
    BY <2>1, <2>2 DEF Connection
<1> HIDE DEF after
<1>6. /\ conn' \in Seq(Connection) /\ Len(conn') = n /\ conn'[id] = after
      /\ \A x \in 1..n : conn'[x].key = conn[x].key /\ (x # id => conn'[x] = conn[x])
  BY <1>2, <1>3, <1>4, <1>5
<1>7. new \in PlayerOn(n)
  BY <1>3 DEF PlayerOn
<1>8. /\ player' \in Seq(PlayerOn(n)) /\ Len(player') = m + 1 /\ player'[m + 1] = new
      /\ \A p \in 1..m : player'[p] = player[p]
  BY <1>2, <1>4, <1>7
<1>9. /\ players' \in [Key -> 0..(m + 1)] /\ clients' \in [Key -> 0..(m + 1)]
      /\ \A k \in Key : players'[k] = IF k = key THEN m + 1 ELSE players[k]
  BY <1>2, <1>3, <1>4
<1>10. /\ late' \subseteq 1..n /\ late \subseteq late' /\ cut' = cut
       /\ connections[key] = id \/ id \in late'
  BY <1>2, <1>3 DEF Listed
<1>11. TypeOK'
  BY <1>1, <1>2, <1>6, <1>8, <1>9, <1>10 DEF TypeOK, Table, Connection, PlayerOn
<1>12. \A k : (\A x \in late' \cup cut' : conn'[x].key # k) =>
         ~Astray(k) /\ (k = key => connections[key] = id)
  BY <1>3, <1>6, <1>10 DEF Astray
<1>13. Keyed' /\ Room'
  <2>1. Room'
    BY <1>2 DEF ServerInv, Room, Open
  <2>2. \A k \in Key : connections[k] # 0 => conn'[connections[k]].key = k
    BY <1>3, <1>6 DEF ServerInv, Keyed
  <2>3. ASSUME NEW k \in Key, players'[k] # 0
        PROVE  conn'[player'[players'[k]].conn].key = k
    <3>1. CASE k = key
      BY <1>6, <1>8, <1>9, <3>1
    <3>2. CASE k # key
      <4>1. players'[k] = players[k] /\ players[k] \in 1..m
        BY <1>3, <1>9, <2>3, <3>2
      <4>2. player'[players[k]] = player[players[k]] /\ player[players[k]].conn \in 1..n
        BY <1>3, <1>8, <4>1
      <4> QED
        BY <1>6, <4>1, <4>2 DEF ServerInv, Keyed
    <3> QED
      BY <3>1, <3>2
  <2> QED
    BY <1>2, <2>1, <2>2, <2>3 DEF Keyed
<1>14. PlayersOnListed'
  <2> SUFFICES ASSUME NEW k \in Key, \A x \in late' \cup cut' : conn'[x].key # k,
                      players'[k] # 0
               PROVE  connections[k] = player'[players'[k]].conn
    BY <1>2 DEF PlayersOnListed, Astray
  <2>0. ~Astray(k) /\ (k = key => connections[key] = id)
    BY <1>12
  <2>1. CASE k = key
    BY <1>8, <1>9, <2>0, <2>1
  <2>2. CASE k # key
    <3>1. players'[k] = players[k] /\ players[k] \in 1..m
      BY <1>3, <1>9, <2>2
    <3> QED
      BY <1>8, <2>0, <3>1 DEF ServerInv, PlayersOnListed
  <2> QED
    BY <2>1, <2>2
<1>15. Welcomed'
  <2> SUFFICES ASSUME ~bridged, NEW k \in Key, \A x \in late' \cup cut' : conn'[x].key # k,
                      connections[k] # 0, conn'[connections[k]].nics > 0
               PROVE  players'[k] # 0
    BY <1>2 DEF Welcomed, Astray
  <2>1. CASE k = key
    BY <1>3, <1>9, <2>1
  <2>2. CASE k # key
    <3>1. connections[k] \in 1..n /\ conn[connections[k]].key = k
      BY <1>3 DEF ServerInv, Keyed
    <3>2. conn'[connections[k]] = conn[connections[k]]
      BY <1>6, <2>2, <3>1
    <3>3. ~Astray(k)
      BY <1>12
    <3> QED
      BY <1>9, <2>2, <3>2, <3>3 DEF ServerInv, Welcomed
  <2> QED
    BY <2>1, <2>2
<1>16. UnlistedDisconnected'
  <2> SUFFICES ASSUME NEW x \in 1..n,
                      \A y \in late' \cup cut' : conn'[y].key # conn'[x].key
               PROVE  connections[conn'[x].key] = x \/ conn'[x].status = "Disconnected"
    BY <1>2, <1>6 DEF UnlistedDisconnected, Listed, Astray
  <2>1. conn'[x].key = conn[x].key /\ ~Astray(conn[x].key)
    BY <1>6, <1>12
  <2>2. CASE x = id
    BY <1>6, <1>10, <2>2
  <2>3. CASE x # id
    BY <1>6, <2>1, <2>3 DEF ServerInv, UnlistedDisconnected, Listed
  <2> QED
    BY <2>2, <2>3
<1>17. \A p \in 1..(m + 1) : p \in 1..m \/ p = m + 1
  BY <1>3
<1>18. \A p \in 1..(m + 1) :
         \/ player'[p].conn = id /\ conn'[id].status = "Connected"
         \/ /\ p \in 1..m /\ player'[p] = player[p]
            /\ player[p].conn \in 1..n /\ conn'[player[p].conn] = conn[player[p].conn]
  <2> TAKE p \in 1..(m + 1)
  <2>1. CASE p \in 1..m
    <3>1. player'[p] = player[p] /\ player[p].conn \in 1..n
      BY <1>3, <1>8, <2>1
    <3>2. player[p].conn # id => conn'[player[p].conn] = conn[player[p].conn]
      BY <1>6, <3>1
    <3> HIDE DEF new, m
    <3> QED
      BY <1>5, <1>6, <2>1, <3>1, <3>2
  <2>2. CASE p = m + 1
    <3>1. player'[p].conn = id
      BY <1>8, <2>2
    <3> QED
      BY <1>5, <1>6, <3>1
  <2> QED
    BY <1>17, <2>1, <2>2
<1>19. EndedUnlisted'
  BY <1>2, <1>8, <1>18 DEF ServerInv, EndedUnlisted, Listed
<1>20. BackendsOfBridge'
  BY <1>2, <1>8, <1>17 DEF ServerInv, BackendsOfBridge
<1>21. LeavesOnce'
  <2> SUFFICES ASSUME ~bridged, NEW p \in 1..(m + 1)
               PROVE  LET x == player'[p].conn
                          ended == conn'[x].status = "Disconnected" IN
                      /\ ended /\ x \notin cut' => player'[p].reports > 0
                      /\ x \notin late' \cup cut' =>
                           player'[p].reports = IF ended THEN 1 ELSE 0
    BY <1>2, <1>8 DEF LeavesOnce
  <2>1. CASE p \in 1..m /\ player[p].conn # id
    <3>1. player'[p] = player[p] /\ conn'[player[p].conn] = conn[player[p].conn]
      BY <1>3, <1>6, <1>8, <2>1
    <3> QED
      BY <1>10, <2>1, <3>1 DEF ServerInv, LeavesOnce
  <2>2. CASE p \in 1..m /\ player[p].conn = id
    <3>1. player'[p] = player[p] /\ conn'[id].status = "Connected"
      BY <1>5, <1>6, <1>8, <2>2
    <3>2. ASSUME id \notin late' \cup cut'
          PROVE  player[p].reports = 0
      <4>1. connections[key] = id /\ id \notin late \cup cut
        BY <1>10, <3>2
      <4>2. conn[id].status # "Disconnected"
        BY <2>2, <4>1 DEF ServerInv, EndedUnlisted, Listed
      <4> QED
        BY <2>2, <4>1, <4>2 DEF ServerInv, LeavesOnce
    <3> QED
      BY <2>2, <3>1, <3>2
  <2>3. CASE p = m + 1
    BY <1>5, <1>6, <1>8, <2>3
  <2> QED
    BY <1>17, <2>1, <2>2, <2>3
<1>22. HookedLeaveReported'
  <2> SUFFICES ASSUME NEW p \in 1..(m + 1), player'[p].inTime, player'[p].conn \notin cut,
                      conn'[player'[p].conn].status = "Disconnected"
               PROVE  player'[p].left
    BY <1>2, <1>8 DEF HookedLeaveReported
  <2> QED
    BY <1>18 DEF ServerInv, HookedLeaveReported
<1> QED
  BY <1>11, <1>13, <1>14, <1>15, <1>16, <1>19, <1>20, <1>21, <1>22 DEF ServerInv

\* The bridge, which there is, hooks a player up or takes it off the tables: the
\* tables of the server may lose the player, raknet's loses nothing.
LEMMA BridgePreserves ==
  ASSUME ServerInv, bridged, NEW p \in 1..Len(player), NEW after \in PlayerOn(Len(conn)),
         after.conn = player[p].conn,
         after.inTime /\ after.conn \notin cut /\ conn[after.conn].status = "Disconnected"
           => after.left,
         after.inTime => after.hooked, after.backend # "none" => after.hooked,
         player' = [player EXCEPT ![p] = after],
         NEW K, players' = Deleted(players, K), NEW H, clients' = Deleted(clients, H),
         UNCHANGED <<connections, conn, bridged, gone, receiving, late, cut>>
  PROVE  ServerInv'
<1>1. TypeOK
  BY DEF ServerInv
<1>2. /\ Len(player) \in Nat
      /\ \A k \in Key : connections[k] \in 0..Len(conn) /\ players[k] \in 0..Len(player)
  BY <1>1, Entries
<1>3. /\ player \in Seq(PlayerOn(Len(conn)))
      /\ players \in [Key -> 0..Len(player)] /\ clients \in [Key -> 0..Len(player)]
  BY <1>1 DEF TypeOK, PlayerOn, Table
<1>4. /\ player' \in Seq(PlayerOn(Len(conn))) /\ Len(player') = Len(player)
      /\ player'[p] = after /\ \A q \in 1..Len(player) : q # p => player'[q] = player[q]
      /\ \A q \in 1..Len(player) : player'[q].conn = player[q].conn
  BY <1>3
<1>5. /\ players' \in [Key -> 0..Len(player)] /\ clients' \in [Key -> 0..Len(player)]
      /\ \A k \in Key : players'[k] # 0 => players'[k] = players[k]
  BY <1>2, <1>3 DEF Deleted
<1>6. TypeOK'
  BY <1>1, <1>4, <1>5 DEF TypeOK, PlayerOn, Table
<1>7. Room' /\ UnlistedDisconnected' /\ Welcomed' /\ LeavesOnce'
  BY DEF ServerInv, Room, Open, UnlistedDisconnected, Listed, Welcomed, LeavesOnce, Astray
<1>8. \A k \in Key : players'[k] # 0 =>
        /\ players'[k] = players[k] /\ player'[players[k]].conn = player[players[k]].conn
  BY <1>2, <1>4, <1>5
<1>9. Keyed' /\ PlayersOnListed'
  BY <1>8 DEF ServerInv, Keyed, PlayersOnListed, Astray
<1>10. EndedUnlisted'
  BY <1>4 DEF ServerInv, EndedUnlisted, Listed
<1>11. BackendsOfBridge'
  BY <1>4 DEF ServerInv, BackendsOfBridge
<1>12. HookedLeaveReported'
  BY <1>4 DEF ServerInv, HookedLeaveReported
<1> QED
  BY <1>6, <1>7, <1>9, <1>10, <1>11, <1>12 DEF ServerInv

\* What happens to no entry of the tables changes nothing.
LEMMA ServerStutters ==
  ASSUME ServerInv, gone' \subseteq Key, receiving' \in 0..Len(conn),
         UNCHANGED <<connections, conn, players, player, clients, bridged, late, cut>>
  PROVE  ServerInv'
BY DEF ServerInv, TypeOK, Keyed, PlayersOnListed, Welcomed, UnlistedDisconnected, EndedUnlisted,
       BackendsOfBridge, Room, Open, LeavesOnce, HookedLeaveReported, Listed, Astray

(***************************************************************************)
(* Every step                                                              *)
(***************************************************************************)

\* A kick marks the player and leaves what the end of a connection looks at.
LEMMA KickedAlike ==
  ASSUME TypeOK, NEW p \in 1..Len(player)
  PROVE  Alike([player EXCEPT ![p].isDisconnected = TRUE])
<1> DEFINE made == [player EXCEPT ![p].isDisconnected = TRUE]
<1>1. \A q \in 1..Len(player) : player[q] \in PlayerOn(Len(conn))
  BY Entries
<1>2. player \in [1..Len(player) -> PlayerOn(Len(conn))]
  <2>1. player \in Seq(PlayerOn(Len(conn)))
    BY DEF TypeOK, PlayerOn
  <2> QED
    BY <2>1
<1>3. [player[p] EXCEPT !.isDisconnected = TRUE] \in PlayerOn(Len(conn))
  BY <1>1 DEF PlayerOn
<1>4. made \in [1..Len(player) -> PlayerOn(Len(conn))]
  BY <1>2, <1>3
<1>5. \A q \in 1..Len(player) :
        /\ made[q].conn = player[q].conn /\ made[q].hooked = player[q].hooked
        /\ made[q].inTime = player[q].inTime /\ made[q].backend = player[q].backend
        /\ made[q].reports = player[q].reports /\ made[q].left = player[q].left
  BY <1>1, <1>2 DEF PlayerOn
<1> QED
  BY <1>4, <1>5 DEF Alike

\* A kick that a listener cuts short takes nothing of another key off.
LEMMA PlayerDisconnectThrowsPreserves ==
  ASSUME ServerInv, NEW p \in 1..Len(player), PlayerDisconnectThrows(p)
  PROVE  ServerInv'
<1> DEFINE n == Len(conn)
           m == Len(player)
           made == [player EXCEPT ![p].isDisconnected = TRUE]
           id == player[p].conn
           ids == {id}
           ps == {q \in 1..m : player[q].conn = id}
           toldTo(last) == {q \in ps : q <= last}
           bsOf(last) == {q \in toldTo(last) : player[q].hooked}
<1>1. TypeOK
  BY DEF ServerInv
<1>2. /\ n \in Nat /\ m \in Nat /\ \A q \in 1..m : player[q].conn \in 1..n
      /\ players \in [Key -> 0..m] /\ clients \in [Key -> 0..m] /\ cut \subseteq 1..n
      /\ gone \subseteq Key
  BY <1>1, Entries DEF PlayerOn, TypeOK, Table
<1>3. \E last \in 0..m :
        /\ player' = Reported(made, toldTo(last), bsOf(last))
        /\ players' \in {players, OnDisconnect(toldTo(last))}
        /\ clients' \in {clients, Deleted(clients, KeysOf(bsOf(last)))}
  BY Zenon DEF PlayerDisconnectThrows
<1>reach. PICK last \in 0..m :
        /\ player' = Reported(made, toldTo(last), bsOf(last))
        /\ players' \in {players, OnDisconnect(toldTo(last))}
        /\ clients' \in {clients, Deleted(clients, KeysOf(bsOf(last)))}
  BY <1>3
<1>4. Ended(ids) /\ cut' = cut \cup {id} /\ UNCHANGED <<bridged, gone, receiving>>
  BY DEF PlayerDisconnectThrows
<1> DEFINE told == toldTo(last)
           bs == bsOf(last)
<1>5. told \subseteq ps /\ ps = Ending(ids)
  BY DEF Ending
<1>6. Alike(made)
  BY <1>1, KickedAlike
<1>7. bs = HookedOf(made, told)
  <2>1. \A q \in told : made[q].hooked = player[q].hooked
    BY <1>5, <1>6 DEF Alike
  <2> HIDE DEF told, made
  <2>2. bs = {q \in told : player[q].hooked}
    BY DEF told
  <2> QED
    BY <2>1, <2>2 DEF HookedOf
<1> DEFINE K == KeysOf(told)
           H == KeysOf(bs)
<1>8. /\ player' = Reported(made, told, HookedOf(made, told))
      /\ players' = players \/ players' = Deleted(players, K)
      /\ clients' = clients \/ clients' = Deleted(clients, H)
  BY <1>reach, <1>7 DEF OnDisconnect
<1>9. \A k \in K : k = conn[id].key
  BY DEF KeysOf
<1>10. id \in 1..n /\ id \in cut'
  BY <1>2, <1>4
<1>11. \A q \in ps : player[q].conn \in cut'
  BY <1>10
<1> HIDE DEF told, bs, K, H, made, ps, m
<1>12. /\ players' \in [Key -> 0..m] /\ clients' \in [Key -> 0..m]
       /\ \A k \in Key : players'[k] = 0 \/ players'[k] = players[k]
       /\ \A k \in Key : k # conn[id].key => players'[k] = players[k]
  <2> DEFINE keyOf == conn[id].key
  <2>0. \A k \in K : k = keyOf
    BY <1>9
  <2> HIDE DEF keyOf
  <2>1. /\ Deleted(players, K) \in [Key -> 0..m]
        /\ \A k \in Key : Deleted(players, K)[k] = IF k \in K THEN 0 ELSE players[k]
    <3>1. Deleted(players, K) = [k \in Key |-> IF k \in K THEN 0 ELSE players[k]]
      BY DEF Deleted
    <3>2. \A k \in Key : players[k] \in 0..m
      BY <1>2
    <3> QED
      BY <1>2, <3>1, <3>2
  <2>2. Deleted(clients, H) \in [Key -> 0..m]
    BY <1>2, DeletedEntries
  <2>3. \A k \in Key : players'[k] = players[k] \/ (players'[k] = 0 /\ k = keyOf)
    BY <1>8, <2>0, <2>1
  <2>4. players' \in [Key -> 0..m] /\ clients' \in [Key -> 0..m]
    BY <1>2, <1>8, <2>1, <2>2
  <2> QED
    BY <2>3, <2>4 DEF keyOf
<1>13. conn'[id].key = conn[id].key
  BY <1>1, <1>4, <1>10, EndedEntries
<1>14. \A k \in Key : ~Astray(k)' => k # conn[id].key
  BY <1>10, <1>13 DEF Astray
<1>15. \A q \in ps : conn[player[q].conn].key = conn[id].key
  BY DEF ps
<1>16. \A k \in Key : ~Astray(k)' =>
         players'[k] = IF \E q \in ps : conn[player[q].conn].key = k THEN 0 ELSE players[k]
  BY <1>12, <1>14, <1>15
<1>17. /\ ids \in SUBSET (1..n) /\ told \in SUBSET Ending(ids) /\ cut \subseteq cut'
       /\ cut' \subseteq 1..n /\ gone' \subseteq Key /\ bridged' = bridged
       /\ receiving' = receiving /\ \A q \in Ending(ids) : q \in told \/ player[q].conn \in cut'
  BY <1>2, <1>4, <1>5, <1>10, <1>11
<1>18. Ending(ids) = ps
  BY <1>5
<1> HIDE DEF id, ids
<1> QED
  BY <1>4, <1>6, <1>8, <1>12, <1>16, <1>17, <1>18, EndPreserves DEF m

\* Each action of the server preserves the invariant.
LEMMA ServerStep == ServerInv /\ [Next]_vars => ServerInv'
<1> SUFFICES ASSUME ServerInv, [Next]_vars
             PROVE  ServerInv'
  OBVIOUS
<1>1. TypeOK
  BY DEF ServerInv
<1>2. /\ gone \subseteq Key /\ receiving \in 0..Len(conn) /\ Len(conn) \in Nat
      /\ \A id \in 1..Len(conn) : conn[id] \in Connection /\ conn[id].key \in Key
      /\ \A p \in 1..Len(player) : player[p] \in PlayerOn(Len(conn))
  BY <1>1, Entries DEF TypeOK
<1>3. Alike(player)
  <2>1. player \in Seq(PlayerOn(Len(conn)))
    BY <1>1 DEF TypeOK, PlayerOn
  <2> QED
    BY <2>1 DEF Alike
<1>4. ASSUME NEW k \in Key, OpenConnectionRequest2_New(k)
      PROVE  ServerInv'
  BY <1>4, OpenConnectionRequest2NewPreserves
<1>5. ASSUME NEW k \in Key, PeerGone(k)
      PROVE  ServerInv'
  BY <1>2, <1>5, ServerStutters DEF PeerGone
<1>6. ASSUME NEW id \in 1..Len(conn), OpenConnectionRequest2_Again(id)
      PROVE  ServerInv'
  <2> DEFINE after == [conn[id] EXCEPT !.status = "Connecting"]
  <2>1. /\ after \in Connection /\ after.key = conn[id].key /\ after.nics = conn[id].nics
        /\ after.status = "Connecting"
    BY <1>2 DEF Connection
  <2>2. /\ Listed(id) /\ conn' = [conn EXCEPT ![id] = after]
        /\ UNCHANGED <<connections, players, player, clients, bridged, gone, receiving, late, cut>>
    BY <1>6 DEF OpenConnectionRequest2_Again, Hears
  <2> HIDE DEF after
  <2> QED
    BY <2>1, <2>2, HandshakePreserves
<1>7. ASSUME NEW id \in 1..Len(conn), ConnectionRequest(id)
      PROVE  ServerInv'
  <2> DEFINE after == [conn[id] EXCEPT !.requests = @ + 1]
  <2>1. conn[id].requests \in Nat /\ conn[id].requests + 1 \in Nat
    BY <1>2 DEF Connection
  <2>2. /\ after \in Connection /\ after.key = conn[id].key /\ after.nics = conn[id].nics
        /\ after.status = conn[id].status
    BY <1>2, <2>1 DEF Connection
  <2>3. /\ conn' = [conn EXCEPT ![id] = after]
        /\ UNCHANGED <<connections, players, player, clients, bridged, gone, receiving, late, cut>>
    BY <1>7 DEF ConnectionRequest
  <2> HIDE DEF after
  <2> QED
    BY <2>2, <2>3, HandshakePreserves
<1>8. ASSUME NEW id \in 1..Len(conn), NewIncomingConnection(id)
      PROVE  ServerInv'
  BY <1>8, NewIncomingConnectionPreserves
<1>9. ASSUME NEW id \in 1..Len(conn), DisconnectionNotification(id) \/ StaleTimeout(id)
      PROVE  ServerInv'
  <2> DEFINE ids == {id}
  <2>1. /\ ids \in SUBSET (1..Len(conn)) /\ Drop(player, ids)
        /\ UNCHANGED <<bridged, gone, receiving>>
    BY <1>9 DEF DisconnectionNotification, StaleTimeout
  <2> HIDE DEF ids
  <2> QED
    BY <1>2, <1>3, <2>1, DropPreserves
<1>10. ASSUME NEW p \in 1..Len(player), PlayerDisconnect(p)
       PROVE  ServerInv'
  <2> DEFINE made == [player EXCEPT ![p].isDisconnected = TRUE]
             ids == {player[p].conn}
  <2>1. Drop(made, ids) /\ UNCHANGED <<bridged, gone, receiving>>
    BY <1>10 DEF PlayerDisconnect
  <2>2. ids \in SUBSET (1..Len(conn))
    BY <1>2 DEF PlayerOn
  <2>3. Alike(made)
    BY <1>1, KickedAlike
  <2> HIDE DEF made, ids
  <2> QED
    BY <1>2, <2>1, <2>2, <2>3, DropPreserves
<1>11. ASSUME NEW p \in 1..Len(player), PlayerDisconnectThrows(p)
       PROVE  ServerInv'
  BY <1>11, PlayerDisconnectThrowsPreserves
<1>12. ASSUME NEW p \in 1..Len(player), ClientToServerHandshake(p)
       PROVE  ServerInv'
  <2> DEFINE open == conn[player[p].conn].status # "Disconnected"
             after == [player[p] EXCEPT !.hooked = TRUE, !.backend = "connecting",
                                        !.inTime = open]
  <2>1. /\ bridged /\ player' = [player EXCEPT ![p] = after]
        /\ UNCHANGED <<connections, conn, players, clients, bridged, gone, receiving, late, cut>>
    BY <1>12 DEF ClientToServerHandshake
  <2>2. open \in BOOLEAN
    OBVIOUS
  <2>3. /\ after \in PlayerOn(Len(conn)) /\ after.conn = player[p].conn /\ after.hooked
        /\ after.inTime = open
    BY <1>2, <2>2 DEF PlayerOn
  <2>4. players' = Deleted(players, {}) /\ clients' = Deleted(clients, {})
    BY <1>1, <2>1 DEF TypeOK, Table, Deleted
  <2> HIDE DEF after
  <2> QED
    BY <2>1, <2>3, <2>4, BridgePreserves
<1>13. ASSUME NEW p \in 1..Len(player), BackendLogin(p)
       PROVE  ServerInv'
  <2> DEFINE after == [player[p] EXCEPT !.backend = "routing"]
  <2>1. /\ player[p].backend = "connecting" /\ player' = [player EXCEPT ![p] = after]
        /\ UNCHANGED <<connections, conn, players, clients, bridged, gone, receiving, late, cut>>
    BY <1>13 DEF BackendLogin
  <2>2. player[p].hooked /\ bridged
    BY <2>1 DEF ServerInv, BackendsOfBridge
  <2>3. /\ after \in PlayerOn(Len(conn)) /\ after.conn = player[p].conn /\ after.hooked
        /\ after.inTime = player[p].inTime /\ after.left = player[p].left
    BY <1>2, <2>2 DEF PlayerOn
  <2>4. after.inTime /\ after.conn \notin cut /\ conn[after.conn].status = "Disconnected"
          => after.left
    BY <2>3 DEF ServerInv, HookedLeaveReported
  <2>5. players' = Deleted(players, {}) /\ clients' = Deleted(clients, {})
    BY <1>1, <2>1 DEF TypeOK, Table, Deleted
  <2> HIDE DEF after
  <2> QED
    BY <2>1, <2>2, <2>3, <2>4, <2>5, BridgePreserves
<1>14. ASSUME NEW p \in 1..Len(player), BackendDisconnect(p)
       PROVE  ServerInv'
  <2>1. PICK state \in {player[p].backend, "closed"} :
          Leave([player EXCEPT ![p].backend = state], {}, {p})
    BY <1>14 DEF BackendDisconnect
  <2>2. /\ player[p].backend \in {"connecting", "routing"}
        /\ UNCHANGED <<connections, conn, bridged, gone, receiving, late, cut>>
    BY <1>14 DEF BackendDisconnect
  <2>3. player[p].hooked /\ bridged
    BY <2>2 DEF ServerInv, BackendsOfBridge
  <2> DEFINE r == Reports(Reports(player[p].reports, p, {}), p, {p})
             after == [player[p] EXCEPT !.backend = state, !.reports = r, !.left = TRUE]
             changed == [player EXCEPT ![p].backend = state]
  <2>4. /\ player \in [1..Len(player) -> PlayerOn(Len(conn))] /\ player \in Seq(PlayerOn(Len(conn)))
    BY <1>1, <1>3 DEF Alike, TypeOK, PlayerOn
  <2>5. r \in 0..2
    <3>1. player[p].reports \in 0..2
      BY <1>2 DEF PlayerOn
    <3> QED
      BY <3>1 DEF Reports
  <2>6. state \in {"connecting", "routing", "closed"}
    BY <2>1, <2>2
  <2>7. /\ after \in PlayerOn(Len(conn)) /\ after.conn = player[p].conn /\ after.hooked
        /\ after.left
    BY <1>2, <2>3, <2>5, <2>6 DEF PlayerOn
  <2>8. /\ player' = [q \in 1..Len(player) |->
             [changed[q] EXCEPT !.reports = Reports(Reports(@, q, {}), q, {p}),
                                !.left = BridgeDisconnect(q, {p})]]
        /\ players' = Deleted(players, KeysOf({} \cup {p}))
        /\ clients' = Deleted(clients, KeysOf({p}))
    BY <2>1, <2>4 DEF Leave, Reported, OnDisconnect
  <2>9. player'[p] = after
    <3>1. changed[p] = [player[p] EXCEPT !.backend = state]
      BY <2>4
    <3>2. player'[p] = [changed[p] EXCEPT !.reports = r, !.left = TRUE]
      BY <2>8, <3>1, <2>4, <1>2 DEF BridgeDisconnect, PlayerOn
    <3> QED
      BY <1>2, <3>1, <3>2 DEF PlayerOn
  <2>10. ASSUME NEW q \in 1..Len(player), q # p
         PROVE  player'[q] = player[q]
    <3>1. changed[q] = player[q]
      BY <2>4, <2>10
    <3>2. /\ Reports(Reports(player[q].reports, q, {}), q, {p}) = player[q].reports
          /\ BridgeDisconnect(q, {p}) = player[q].left
      BY <1>2, <2>10 DEF Reports, BridgeDisconnect, PlayerOn
    <3> QED
      BY <1>2, <2>8, <3>1, <3>2 DEF PlayerOn
  <2>11. player' = [player EXCEPT ![p] = after]
    BY <2>4, <2>8, <2>9, <2>10
  <2> HIDE DEF after
  <2> QED
    BY <2>2, <2>3, <2>7, <2>8, <2>11, BridgePreserves
<1>15. ASSUME Stop
       PROVE  ServerInv'
  <2> DEFINE ids == {id \in 1..Len(conn) : Listed(id)}
  <2>1. Drop(player, ids) /\ gone' = Key /\ UNCHANGED <<bridged, receiving>>
    BY <1>15 DEF Stop
  <2>2. ids \in SUBSET (1..Len(conn))
    OBVIOUS
  <2> HIDE DEF ids
  <2> QED
    BY <1>3, <2>1, <2>2, DropPreserves
<1>16. ASSUME (\E id \in 1..Len(conn) : Receive(id)) \/ ReceiveEnds \/ UNCHANGED vars
       PROVE  ServerInv'
  <2>1. /\ receiving' \in 0..Len(conn) /\ gone' \subseteq Key
        /\ UNCHANGED <<connections, conn, players, player, clients, bridged, late, cut>>
    BY <1>2, <1>16 DEF Receive, ReceiveEnds, vars
  <2> QED
    BY <2>1, ServerStutters
<1> QED
  BY <1>4, <1>5, <1>6, <1>7, <1>8, <1>9, <1>10, <1>11, <1>12, <1>13, <1>14, <1>15, <1>16
  DEF Next

-------------------------------------------------------------------------------
(* raknet Server, baltica Server and Bridge *)

\* What the tables hold under a key is of that key, and as long as no event of it
\* came late or was cut short it is of the connection that is listed: the
\* strengthening on which the theorems below rest.
THEOREM ServerInvariant == Spec => []ServerInv
<1> QED
  BY ServerInitially, ServerStep, PTL DEF Spec

\* The tables and their entries always have their types: no handler leaves a key
\* with a connection or a player that was never made.
THEOREM ServerTypeCorrect == Spec => []TypeOK
<1>1. ServerInv => TypeOK
  BY DEF ServerInv
<1> QED
  BY <1>1, ServerInvariant, PTL

\* However handshakes are duplicated and connections end, and whatever is deleted
\* late, the raknet server never has more than maxConnections of them, nor one
\* under another's key.
THEOREM WithinCapacity == Spec => []CapacityRespected
<1>1. ServerInv => CapacityRespected
  BY DEF ServerInv, Room, Keyed, CapacityRespected, Open
<1> QED
  BY <1>1, ServerInvariant, PTL

\* Under every key of which no connection had an event after it was taken off the
\* table and none was cut short, the player table of the baltica server keeps
\* step with the connections of the raknet server, and what is off the table is
\* Disconnected: handshakes, kicks, timeouts and stop() of other keys never
\* reach it.
THEOREM TablesStayInStep == Spec => []TablesInStep
<1>1. ServerInv => TablesInStep
  BY DEF ServerInv, PlayersOnListed, Welcomed, UnlistedDisconnected, TablesInStep
<1> QED
  BY <1>1, ServerInvariant, PTL

\* Without a bridge the server fires "disconnect" for each player whose connection
\* has ended, late kicks or not, if no listener cut the event short; and once,
\* and for none that is there, if nothing came late.
THEOREM EachLeavesOnce == Spec => []LeavesOnce
<1>1. ServerInv => LeavesOnce
  BY DEF ServerInv
<1> QED
  BY <1>1, ServerInvariant, PTL

\* The bridge reports each player that it hooked up on a connection that had not
\* ended, when that connection ends, whichever event ended it and whoever is
\* listed under its key by then, if no listener cut the event short.
THEOREM HookedLeavesAreReported == Spec => []HookedLeaveReported
<1>1. ServerInv => HookedLeaveReported
  BY DEF ServerInv
<1> QED
  BY <1>1, ServerInvariant, PTL
==============================================================================
