-------------------------- MODULE BridgeRoutingProofs --------------------------
(***************************************************************************)
(* What a BridgePlayer sends on, for any number of packets in batches of   *)
(* any length, and that it tells the backend when its player leaves.       *)
(*                                                                         *)
(* The invariant says where routing begins (behind the first PlayStatus of *)
(* the backend, if that is LoginSuccess), and that a batch whose loop a    *)
(* listener ended is behind: no packet handled later is one of it.         *)
(***************************************************************************)
EXTENDS BridgeRouting, WellFoundedInduction, TLAPS

Message == [kind : {"login", "status", "game", "disconnect", "unknown"}, last : BOOLEAN]

BridgeTypes ==
  /\ player \in {"here", "gone"} /\ client \in {"none", "connecting", "connected", "ended"}
  /\ listening \in BOOLEAN /\ routing \in BOOLEAN /\ since \in Nat
  /\ told \in {"no", "perhaps", "yes"}
  /\ sent \in [Side -> Seq(Message)]
  /\ \A i \in DOMAIN sent["player"] : sent["player"][i].kind \notin {"login", "status"}
  /\ handled \in [Side -> Nat] /\ out \in [Side -> Seq(Nat)]
  /\ cancelled \in [Side -> SUBSET Nat] /\ threw \in [Side -> SUBSET Nat]
  /\ missed \in SUBSET Nat

\* Nothing is passed on, cancelled or thrown for before it is handled, and
\* nothing is passed on before it is routed.
Progress ==
  /\ since <= handled["player"]
  /\ \A d \in Side :
       /\ handled[d] <= Len(sent[d])
       /\ Range(out[d]) \cup cancelled[d] \cup threw[d] \subseteq 1..handled[d]
       /\ ~routing => out[d] = <<>>

\* An end sends the bridge nothing before the bridge has it.
ClientComes ==
  /\ client = "none" => sent["player"] = <<>> /\ ~listening
  /\ client \in {"none", "connecting"} => sent["backend"] = <<>>

\* The packets of the backend among the first n are no PlayStatus.
NoStatus(s, n) == \A i \in 1..n : s[i].kind \notin {"login", "status"}
LoginBefore(s, i) == \E f \in 1..(i - 1) : s[f].kind = "login" /\ NoStatus(s, f - 1)

\* The listener for a PlayStatus waits for the first, and that decides.
FirstStatus ==
  /\ routing <=> LoginBefore(sent["backend"], handled["backend"] + 1)
  /\ listening => NoStatus(sent["backend"], handled["backend"])
  /\ NoStatus(sent["backend"], handled["backend"]) => listening \/ client = "none"

\* A batch of s, of which n packets are handled, is over when a listener threw
\* in it, t being the packets that one threw for.
LoopEnded(s, n, t) == \A j \in t : \E k \in j..n : s[k].last

\* The batch of packet c goes up to packet e.
EndsBatch(s, c, e) == c <= e /\ s[e].last /\ \A k \in c..(e - 1) : ~s[k].last

\* Packets of a batch behind one for which a listener threw
Left(s, n, t) == {i \in 1..n : \E j \in t : j < i /\ \A k \in j..(i - 1) : ~s[k].last}

\* A backend that is there, or will be, knows when its player is not.
Told ==
  client \in {"connecting", "connected"} /\ told = "no" =>
    /\ player = "here" \/ 0 \in missed
    /\ \A i \in 1..handled["player"] :
         sent["player"][i].kind = "disconnect" => i \in Unreached \cup missed

\* The bridge's own listener is called for packet c, of kind k, or not.
Learns(k, c) == (OwnListener(k) /\ UNCHANGED missed) \/ NotCalled(c)

BridgeInv ==
  /\ BridgeTypes /\ Progress /\ ClientComes /\ FirstStatus
  /\ LoopEnded(sent["player"], handled["player"], threw["player"])
  /\ Told /\ BackendPassedOn /\ PlayerPassedOn

-------------------------------------------------------------------------------
(* Lists *)

LEMMA Least ==
  ASSUME NEW T, T \subseteq Nat, T # {}
  PROVE  \E m \in T : \A k \in T : m <= k
<1> DEFINE R == OpToRel(<, Nat)
<1>1. IsWellFoundedOn(R, Nat)
  BY NatLessThanWellFounded
<1>2. \A x, y \in Nat : y < x => <<y, x>> \in R
  BY DEF OpToRel
<1> HIDE DEF R
<1>3. PICK x \in T : \A y \in T : ~ (<<y, x>> \in R)
  BY <1>1, WFMin
<1>4. ASSUME NEW y \in T
      PROVE  x <= y
  <2>1. x \in Nat /\ y \in Nat
    OBVIOUS
  <2>2. ~(y < x)
    BY <1>2, <1>3, <2>1
  <2> QED
    BY <2>1, <2>2
<1> QED
  BY <1>4

LEMMA MinOfNumbers ==
  ASSUME NEW T, T \subseteq Nat, T # {}
  PROVE  Min(T) \in T /\ \A k \in T : Min(T) <= k
<1>1. \E m \in T : \A k \in T : m <= k
  BY Least
<1> QED
  BY <1>1 DEF Min

PassedOn(all, q, S) == IF all THEN Lists(q, S) ELSE Begins(q, S)

LEMMA NothingPassedOn ==
  /\ \A S : PassedOn(FALSE, <<>>, S)
  /\ \A all \in BOOLEAN : PassedOn(all, <<>>, {})
BY DEF PassedOn, Lists, Begins, Ascending, Range

LEMMA LessPassedOn ==
  ASSUME NEW all \in BOOLEAN, NEW q, NEW S, PassedOn(all, q, S)
  PROVE  PassedOn(FALSE, q, S)
BY DEF PassedOn, Lists, Begins

\* The next packet is passed on, or it comes too late.
LEMMA OnePassedOn ==
  ASSUME NEW all \in BOOLEAN, NEW q \in Seq(Nat), NEW S, NEW n \in Nat,
         Range(q) \subseteq 1..n, PassedOn(all, q, S)
  PROVE  PassedOn(all, IF all THEN Append(q, n + 1) ELSE q, S \cup {n + 1})
<1>1. CASE all
  <2> DEFINE r == Append(q, n + 1)
  <2>1. /\ DOMAIN r = 1..(Len(q) + 1) /\ DOMAIN q = 1..Len(q) /\ Len(q) \in Nat
        /\ \A i \in DOMAIN q : r[i] = q[i]
        /\ r[Len(q) + 1] = n + 1
    OBVIOUS
  <2> HIDE DEF r
  <2>2. \A i \in DOMAIN q : q[i] \in Nat /\ q[i] <= n
    BY DEF Range
  <2>3. Ascending(q) /\ Range(q) = S
    BY <1>1 DEF PassedOn, Lists
  <2>4. Ascending(r)
    <3> SUFFICES ASSUME NEW i \in DOMAIN r, NEW j \in DOMAIN r, i < j
                 PROVE  r[i] < r[j]
      BY DEF Ascending
    <3>1. i \in DOMAIN q
      BY <2>1
    <3>2. CASE j \in DOMAIN q
      BY <2>1, <2>3, <3>1, <3>2 DEF Ascending
    <3>3. CASE j = Len(q) + 1
      <4>1. r[i] = q[i] /\ r[j] = n + 1
        BY <2>1, <3>1, <3>3
      <4>2. q[i] \in Nat /\ q[i] <= n
        BY <2>2, <3>1
      <4> QED
        BY <4>1, <4>2
    <3> QED
      BY <2>1, <3>2, <3>3
  <2>5. Range(r) = S \cup {n + 1}
    <3>1. DOMAIN r = DOMAIN q \cup {Len(q) + 1}
      BY <2>1
    <3> QED
      BY <2>1, <2>3, <3>1 DEF Range
  <2> QED
    BY <1>1, <2>4, <2>5 DEF PassedOn, Lists, r
<1>2. CASE ~all
  <2>1. /\ Ascending(q) /\ Range(q) \subseteq S
        /\ \A i \in S \ Range(q) : \A m \in Range(q) : m < i
    BY <1>2 DEF PassedOn, Begins
  <2>2. \A m \in Range(q) : m < n + 1
    OBVIOUS
  <2>3. Begins(q, S \cup {n + 1})
    BY <2>1, <2>2 DEF Begins
  <2> QED
    BY <1>2, <2>3 DEF PassedOn
<1> QED
  BY <1>1, <1>2

-------------------------------------------------------------------------------
(* Batches *)

\* s goes on as r does.
Grows(s, r) == Len(s) <= Len(r) /\ \A i \in 1..Len(s) : r[i] = s[i]

LEMMA BatchSent ==
  ASSUME NEW s \in Seq(Message), NEW d \in Side, NEW n \in Nat, NEW b \in Batch(d, n)
  PROVE  /\ s \o b \in Seq(Message) /\ Grows(s, s \o b)
         /\ \A i \in DOMAIN (s \o b) : i \in DOMAIN s \/ (s \o b)[i].kind \in Kinds[d]
<1>1. PICK k \in [1..n -> Kinds[d]] : b = [i \in 1..n |-> [kind |-> k[i], last |-> i = n]]
  BY DEF Batch
<1>2. \A i \in 1..n : b[i] \in Message /\ b[i].kind \in Kinds[d]
  BY <1>1, KindAssumption DEF Message
<1>3. b = [i \in 1..n |-> b[i]]
  BY <1>1
<1>4. b \in Seq(Message) /\ Len(b) = n /\ DOMAIN b = 1..n
  BY <1>2, <1>3
<1> DEFINE r == s \o b
<1>5. /\ r \in Seq(Message) /\ Len(r) = Len(s) + n /\ DOMAIN r = 1..(Len(s) + n)
      /\ \A i \in 1..Len(s) : r[i] = s[i]
      /\ \A i \in DOMAIN r : i \in DOMAIN s \/ (i - Len(s) \in 1..n /\ r[i] = b[i - Len(s)])
  BY <1>4
<1> HIDE DEF r
<1>6. Grows(s, r)
  BY <1>5 DEF Grows
<1>7. \A i \in DOMAIN r : i \in DOMAIN s \/ r[i].kind \in Kinds[d]
  BY <1>2, <1>5
<1> QED
  BY <1>5, <1>6, <1>7 DEF r

\* What was handled is not touched by what is sent then.
LEMMA HandledStays ==
  ASSUME NEW s \in Seq(Message), NEW r \in Seq(Message), Grows(s, r), NEW n \in Nat,
         n <= Len(s)
  PROVE  /\ NoStatus(r, n) <=> NoStatus(s, n)
         /\ \A i \in 1..(n + 1) : LoginBefore(r, i) <=> LoginBefore(s, i)
         /\ \A t \in SUBSET (1..n) :
              /\ LoopEnded(s, n, t) => LoopEnded(r, n, t)
              /\ Left(r, n, t) = Left(s, n, t)
<1>1. \A i \in 1..n : r[i] = s[i]
  BY DEF Grows
<1>2. \A m \in 0..n : NoStatus(r, m) <=> NoStatus(s, m)
  BY <1>1 DEF NoStatus
<1>3. ASSUME NEW i \in 1..(n + 1) PROVE LoginBefore(r, i) <=> LoginBefore(s, i)
  <2>1. \A f \in 1..(i - 1) : f \in 1..n /\ f - 1 \in 0..n
    OBVIOUS
  <2> QED
    BY <1>1, <1>2, <2>1 DEF LoginBefore
<1>4. ASSUME NEW t \in SUBSET (1..n)
      PROVE  (LoopEnded(s, n, t) => LoopEnded(r, n, t)) /\ Left(r, n, t) = Left(s, n, t)
  <2>1. \A j \in t : \A k \in j..n : k \in 1..n
    OBVIOUS
  <2>2. \A i \in 1..n, j \in t : \A k \in j..(i - 1) : k \in 1..n
    OBVIOUS
  <2> QED
    BY <1>1, <2>1, <2>2 DEF LoopEnded, Left
<1> QED
  BY <1>2, <1>3, <1>4

\* The next packet is not in a batch that was left.
LEMMA NextIsReached ==
  ASSUME NEW s \in Seq(Message), NEW n \in Nat, NEW t \in SUBSET (1..n), LoopEnded(s, n, t)
  PROVE  LoopEnded(s, n + 1, t) /\ Left(s, n + 1, t) = Left(s, n, t)
<1>1. LoopEnded(s, n + 1, t)
  <2>1. \A j \in t : \A k \in j..n : k \in j..(n + 1)
    OBVIOUS
  <2> QED
    BY <2>1 DEF LoopEnded
<1>2. n + 1 \notin Left(s, n + 1, t)
  <2>1. n + 1 - 1 = n
    OBVIOUS
  <2> QED
    BY <2>1 DEF LoopEnded, Left
<1>3. 1..(n + 1) = (1..n) \cup {n + 1}
  OBVIOUS
<1> QED
  BY <1>1, <1>2, <1>3 DEF Left

\* A listener throws for packet c, the next one, and its batch goes up to e.
Leaves(s, n, t, c, e, u) ==
  /\ s \in Seq(Message) /\ n \in Nat /\ t \in SUBSET (1..n) /\ LoopEnded(s, n, t)
  /\ c = n + 1 /\ e \in Nat /\ EndsBatch(s, c, e)
  /\ u = t \cup {c}

\* The rest of that batch is left.
LEMMA RestIsLeft ==
  ASSUME NEW s, NEW n, NEW t, NEW c, NEW e, NEW u, Leaves(s, n, t, c, e, u)
  PROVE  LoopEnded(s, e, u) /\ Left(s, e, u) = Left(s, n, t) \cup ((c + 1)..e)
<1>1. /\ s \in Seq(Message) /\ n \in Nat /\ t \in SUBSET (1..n) /\ LoopEnded(s, n, t)
      /\ c = n + 1 /\ e \in Nat /\ u = t \cup {n + 1}
  BY DEF Leaves
<1>2. n + 1 <= e /\ s[e].last /\ \A k \in (n + 1)..(e - 1) : ~s[k].last
  BY DEF Leaves, EndsBatch
<1>3. LoopEnded(s, e, u)
  <2> SUFFICES ASSUME NEW j \in u
               PROVE  \E k \in j..e : s[k].last
    BY <1>1 DEF LoopEnded
  <2>1. CASE j \in t
    <3>1. PICK k \in j..n : s[k].last
      BY <1>1, <2>1 DEF LoopEnded
    <3> QED
      BY <1>1, <1>2, <3>1
  <2>2. CASE j = n + 1
    <3>1. e \in j..e
      BY <1>1, <1>2, <2>2
    <3> QED
      BY <1>1, <1>2, <3>1
  <2> QED
    BY <1>1, <2>1, <2>2
<1>4. ASSUME NEW i \in 1..e
      PROVE  i \in Left(s, e, u) <=> i \in Left(s, n, t) \cup ((n + 2)..e)
  <2>1. CASE i <= n
    <3>1. i \in 1..n /\ i \notin (n + 2)..e /\ ~(n + 1 < i)
      BY <1>1, <2>1
    <3> QED
      BY <1>1, <3>1 DEF Left
  <2>2. CASE i = n + 1
    <3>1. i - 1 = n /\ ~(n + 1 < i) /\ i \notin 1..n /\ i \notin (n + 2)..e
      BY <1>1, <2>2
    <3>2. \A j \in t : ~(\A k \in j..(i - 1) : ~s[k].last)
      BY <1>1, <3>1 DEF LoopEnded
    <3> QED
      BY <1>1, <3>1, <3>2 DEF Left
  <2>3. CASE i > n + 1
    <3>1. i \in (n + 2)..e /\ n + 1 < i /\ \A k \in (n + 1)..(i - 1) : k \in (n + 1)..(e - 1)
      BY <1>1, <2>3
    <3> QED
      BY <1>1, <1>2, <3>1 DEF Left
  <2> QED
    BY <1>1, <2>1, <2>2, <2>3
<1>5. Left(s, e, u) \subseteq 1..e /\ Left(s, n, t) \subseteq 1..e /\ (n + 2)..e \subseteq 1..e
  BY <1>1, <1>2 DEF Left
<1> DEFINE x == Left(s, e, u)
           y == Left(s, n, t)
           z == (n + 2)..e
           w == 1..e
<1>6. x \subseteq w /\ y \subseteq w /\ z \subseteq w /\ \A i \in w : i \in x <=> i \in y \cup z
  BY <1>1, <1>4, <1>5
<1> HIDE DEF x, y, z, w
<1>7. x = y \cup z
  BY <1>1, <1>6
<1>8. c = n + 1 /\ c + 1 = n + 2
  BY <1>1
<1> QED
  BY <1>3, <1>7, <1>8 DEF x, y, z

\* The first PlayStatus is the next packet, or came before.
LEMMA NextStatus ==
  ASSUME NEW s, NEW n \in Nat, NEW c, c = n + 1
  PROVE  /\ LoginBefore(s, c + 1) <=> LoginBefore(s, c) \/ (s[c].kind = "login" /\ NoStatus(s, n))
         /\ NoStatus(s, c) <=> NoStatus(s, n) /\ s[c].kind \notin {"login", "status"}
         /\ LoginBefore(s, c) => ~NoStatus(s, n)
<1>1. 1..c = (1..n) \cup {c} /\ c - 1 = n /\ c + 1 - 1 = c
  OBVIOUS
<1>2. NoStatus(s, c) <=> NoStatus(s, n) /\ s[c].kind \notin {"login", "status"}
  BY <1>1 DEF NoStatus
<1>3. LoginBefore(s, c + 1) <=> LoginBefore(s, c) \/ (s[c].kind = "login" /\ NoStatus(s, n))
  <2> HIDE DEF NoStatus
  <2>1. LoginBefore(s, c + 1) <=> \E f \in 1..c : s[f].kind = "login" /\ NoStatus(s, f - 1)
    BY <1>1 DEF LoginBefore
  <2>2. LoginBefore(s, c) <=> \E f \in 1..n : s[f].kind = "login" /\ NoStatus(s, f - 1)
    BY <1>1 DEF LoginBefore
  <2> QED
    BY <1>1, <2>1, <2>2
<1>4. LoginBefore(s, c) => ~NoStatus(s, n)
  BY <1>1 DEF LoginBefore, NoStatus
<1> QED
  BY <1>2, <1>3, <1>4

-------------------------------------------------------------------------------
(* What the actions do *)

\* The state as the invariant speaks of it
LEMMA BridgeReads ==
  ASSUME BridgeInv
  PROVE  /\ sent["player"] \in Seq(Message) /\ sent["backend"] \in Seq(Message)
         /\ handled["player"] \in Nat /\ handled["backend"] \in Nat
         /\ handled["player"] <= Len(sent["player"])
         /\ handled["backend"] <= Len(sent["backend"])
         /\ out["player"] \in Seq(Nat) /\ out["backend"] \in Seq(Nat)
         /\ Range(out["player"]) \subseteq 1..handled["player"]
         /\ Range(out["backend"]) \subseteq 1..handled["backend"]
         /\ cancelled["player"] \in SUBSET (1..handled["player"])
         /\ cancelled["backend"] \in SUBSET (1..handled["backend"])
         /\ threw["player"] \in SUBSET (1..handled["player"])
         /\ threw["backend"] \in SUBSET (1..handled["backend"])
<1>1. "player" \in Side /\ "backend" \in Side
  BY DEF Side
<1> QED
  BY <1>1 DEF BridgeInv, BridgeTypes, Progress

\* The two sets of what is to be passed on
Behind(s, n) == {i \in 1..n : LoginBefore(s, i)}

LEMMA PassedSets ==
  /\ PassedToPlayer = Behind(sent["backend"], handled["backend"])
                        \ (cancelled["backend"] \cup threw["backend"])
  /\ PassedToPlayer' = Behind(sent'["backend"], handled'["backend"])
                         \ (cancelled'["backend"] \cup threw'["backend"])
  /\ Unreached = Left(sent["player"], handled["player"], threw["player"])
  /\ Unreached' = Left(sent'["player"], handled'["player"], threw'["player"])
  /\ PassedToBackend = ((since + 1)..handled["player"])
       \ (cancelled["player"] \cup threw["player"]
            \cup Left(sent["player"], handled["player"], threw["player"]))
  /\ PassedToBackend' = ((since' + 1)..handled'["player"])
       \ (cancelled'["player"] \cup threw'["player"]
            \cup Left(sent'["player"], handled'["player"], threw'["player"]))
  /\ BackendPassedOn <=> PassedOn(player = "here", out["backend"], PassedToPlayer)
  /\ BackendPassedOn' <=> PassedOn(player' = "here", out'["backend"], PassedToPlayer')
  /\ PlayerPassedOn
       <=> PassedOn(client = "connected" /\ routing, out["player"], PassedToBackend)
  /\ PlayerPassedOn'
       <=> PassedOn(client' = "connected" /\ routing', out'["player"], PassedToBackend')
<1>1. \A i : LoggedIn(i) <=> LoginBefore(sent["backend"], i)
  BY DEF LoggedIn, LoginBefore, NoStatus
<1>2. \A i : LoggedIn(i)' <=> LoginBefore(sent'["backend"], i)
  BY DEF LoggedIn, LoginBefore, NoStatus
<1>3. /\ Unreached = Left(sent["player"], handled["player"], threw["player"])
      /\ Unreached' = Left(sent'["player"], handled'["player"], threw'["player"])
  BY DEF Unreached, SameBatch, Left
<1>4. /\ BehindLogin = Behind(sent["backend"], handled["backend"])
      /\ BehindLogin' = Behind(sent'["backend"], handled'["backend"])
  BY <1>1, <1>2 DEF BehindLogin, Behind
<1> QED
  BY <1>3, <1>4 DEF PassedToPlayer, PassedToBackend, BackendPassedOn, PlayerPassedOn, PassedOn

\* Bridge.disconnect, and the listener of the bridge for a DisconnectPacket
LEMMA Tells ==
  ASSUME told \in {"no", "perhaps", "yes"}, missed \in SUBSET Nat
  PROVE  /\ BridgeDisconnect => /\ told' \in {"no", "perhaps", "yes"}
                                /\ told' = "no" => told = "no"
                                /\ client \in {"connecting", "connected"} => told' # "no"
         /\ \A k : OwnListener(k) =>
              /\ told' \in {"no", "perhaps", "yes"} /\ (told' = "no" => told = "no")
              /\ k = "disconnect" /\ client \in {"connecting", "connected"} => told' # "no"
         /\ \A k : \A c \in Nat : Learns(k, c) =>
              /\ told' \in {"no", "perhaps", "yes"} /\ (told' = "no" => told = "no")
              /\ missed' \in SUBSET Nat /\ missed \subseteq missed'
              /\ k = "disconnect" /\ client \in {"connecting", "connected"} =>
                   told' # "no" \/ c \in missed'
<1>1. BridgeDisconnect => /\ told' \in {"no", "perhaps", "yes"}
                          /\ told' = "no" => told = "no"
                          /\ client \in {"connecting", "connected"} => told' # "no"
  BY DEF BridgeDisconnect
<1>2. \A k : OwnListener(k) =>
        /\ told' \in {"no", "perhaps", "yes"} /\ (told' = "no" => told = "no")
        /\ k = "disconnect" /\ client \in {"connecting", "connected"} => told' # "no"
  BY <1>1 DEF OwnListener
<1>3. ASSUME NEW c \in Nat, NotCalled(c)
      PROVE  told' = told /\ missed' \in SUBSET Nat /\ missed \subseteq missed' /\ c \in missed'
  BY <1>3 DEF NotCalled
<1> QED
  BY <1>1, <1>2, <1>3 DEF Learns

LEMMA TurnOf ==
  ASSUME BridgeInv, NEW d \in Side, Turn(d)
  PROVE  /\ Current(d) = handled[d] + 1 /\ Current(d) \in 1..Len(sent[d])
         /\ Min(BatchEnds(d)) \in Current(d)..Len(sent[d])
         /\ EndsBatch(sent[d], Current(d), Min(BatchEnds(d)))
<1> DEFINE n == handled[d]
           m == Len(sent[d])
           e == Min(BatchEnds(d))
<1>1. n \in Nat /\ m \in Nat
  BY BridgeReads DEF Side
<1>2. BatchEnds(d) = {i \in (n + 1)..m : sent[d][i].last} /\ BatchEnds(d) # {}
  BY DEF BatchEnds, Current, Turn
<1>3. e \in BatchEnds(d) /\ \A k \in BatchEnds(d) : e <= k
  <2>1. BatchEnds(d) \subseteq Nat
    BY <1>1, <1>2
  <2> QED
    BY <1>2, <2>1, MinOfNumbers
<1> HIDE DEF e
<1>4. e \in (n + 1)..m /\ sent[d][e].last /\ n + 1 \in 1..m
  BY <1>1, <1>2, <1>3
<1>5. \A k \in (n + 1)..(e - 1) : ~sent[d][k].last
  <2> SUFFICES ASSUME NEW k \in (n + 1)..(e - 1), sent[d][k].last
               PROVE  FALSE
    OBVIOUS
  <2>1. k \in (n + 1)..m /\ ~(e <= k)
    BY <1>1, <1>4
  <2> QED
    BY <1>2, <1>3, <2>1
<1> QED
  BY <1>4, <1>5 DEF Current, EndsBatch, e

\* A packet of the player is handled, and those up to e left when one threw.
LEMMA PlayerHandled ==
  ASSUME BridgeInv, NEW c, NEW e \in Nat, c = handled["player"] + 1,
         c <= e, e <= Len(sent["player"]), handled' = [handled EXCEPT !["player"] = e],
         UNCHANGED <<player, client, listening, routing, since, sent>>,
         out' \in [Side -> Seq(Nat)], out'["backend"] = out["backend"],
         Range(out'["player"]) \subseteq 1..e, ~routing => out' = out,
         cancelled' \in [Side -> SUBSET Nat], cancelled'["backend"] = cancelled["backend"],
         cancelled'["player"] \subseteq 1..e,
         threw' \in [Side -> SUBSET Nat], threw'["backend"] = threw["backend"],
         \/ threw'["player"] = threw["player"] /\ e = c
         \/ threw'["player"] = threw["player"] \cup {c} /\ EndsBatch(sent["player"], c, e),
         Learns(sent["player"][c].kind, c), PlayerPassedOn'
  PROVE  BridgeInv'
<1> DEFINE s == sent["player"]
           n == handled["player"]
           t == threw["player"]
           u == threw'["player"]
<1>1. /\ s \in Seq(Message) /\ n \in Nat /\ n <= Len(s) /\ t \in SUBSET (1..n)
      /\ LoopEnded(s, n, t) /\ handled'["player"] = e /\ handled'["backend"] = handled["backend"]
      /\ handled' \in [Side -> Nat]
  BY BridgeReads DEF BridgeInv, BridgeTypes, Side
<1>2. u \subseteq 1..e /\ LoopEnded(s, e, u)
      /\ ((Left(s, e, u) = Left(s, n, t) /\ e = c)
            \/ Left(s, e, u) = Left(s, n, t) \cup ((c + 1)..e))
  <2> HIDE DEF s, n, t, u
  <2>1. CASE u = t /\ e = c
    BY <1>1, <2>1, NextIsReached DEF n
  <2>2. CASE u = t \cup {c} /\ EndsBatch(s, c, e)
    <3>1. c = n + 1 /\ n + 1 <= e /\ n \in Nat
      BY <1>1 DEF n
    <3>2. u \subseteq 1..e
      <4>1. \A j \in t : j \in 1..e
        BY <1>1, <3>1
      <4> QED
        BY <2>2, <3>1, <4>1
    <3>3. s \in Seq(Message) /\ t \in SUBSET (1..n) /\ LoopEnded(s, n, t) /\ EndsBatch(s, c, e)
      BY <1>1, <2>2
    <3>4. LoopEnded(s, e, u) /\ Left(s, e, u) = Left(s, n, t) \cup ((c + 1)..e)
      <4>1. Leaves(s, n, t, c, e, u)
        BY <2>2, <3>1, <3>3 DEF Leaves
      <4> QED
        BY <4>1, RestIsLeft
    <3> QED
      BY <2>2, <3>2, <3>4
  <2> QED
    BY <2>1, <2>2 DEF s, n, t, u
<1>3. /\ told' \in {"no", "perhaps", "yes"} /\ (told' = "no" => told = "no")
      /\ missed' \in SUBSET Nat /\ missed \subseteq missed'
      /\ s[c].kind = "disconnect" /\ client \in {"connecting", "connected"} =>
           told' # "no" \/ c \in missed'
  <2>1. c \in Nat /\ told \in {"no", "perhaps", "yes"} /\ missed \in SUBSET Nat
    BY <1>1 DEF BridgeInv, BridgeTypes
  <2> QED
    BY <2>1, Tells
<1>4. BridgeTypes'
  BY <1>1, <1>3 DEF BridgeInv, BridgeTypes
<1>5. Progress'
  <2>1. since' <= handled'["player"]
    BY <1>1 DEF BridgeInv, Progress, BridgeTypes
  <2>2. /\ handled'["player"] <= Len(sent'["player"])
        /\ Range(out'["player"]) \cup cancelled'["player"] \cup threw'["player"]
             \subseteq 1..handled'["player"]
    BY <1>1, <1>2
  <2> QED
    BY <1>1, <2>1, <2>2 DEF BridgeInv, Progress, Side
<1>6. ClientComes' /\ FirstStatus' /\ LoopEnded(sent["player"], handled["player"], threw["player"])'
  BY <1>1, <1>2 DEF BridgeInv, ClientComes, FirstStatus, LoopEnded
<1>7. Told'
  <2> SUFFICES ASSUME client \in {"connecting", "connected"}, told' = "no",
                      NEW i \in 1..e, s[i].kind = "disconnect"
               PROVE  i \in Left(s, e, u) \cup missed'
    <3>1. told' = "no" /\ client \in {"connecting", "connected"} =>
            player = "here" \/ 0 \in missed'
      BY <1>3 DEF BridgeInv, Told
    <3> QED
      BY <1>1, <3>1, PassedSets DEF Told
  <2>1. i = c => i \in missed'
    BY <1>3
  <2>2. i \in 1..n => i \in Left(s, n, t) \cup missed'
    BY <1>3, PassedSets DEF BridgeInv, Told
  <2>3. i = c \/ i \in 1..n \/ i \in (c + 1)..e
    BY <1>1
  <2>4. e = c => i \notin (c + 1)..e
    BY <1>1
  <2> QED
    BY <1>2, <2>1, <2>2, <2>3, <2>4
<1>8. BackendPassedOn'
  <2>1. PassedToPlayer' = PassedToPlayer
    BY <1>1, PassedSets
  <2> QED
    BY <2>1, PassedSets DEF BridgeInv
<1> QED
  BY <1>4, <1>5, <1>6, <1>7, <1>8 DEF BridgeInv

\* A packet of the backend is handled.
LEMMA BackendHandled ==
  ASSUME BridgeInv, NEW c, c = handled["backend"] + 1, c <= Len(sent["backend"]),
         handled' = [handled EXCEPT !["backend"] = c], UNCHANGED <<player, sent>>,
         client' \in {client, "ended"}, listening' \in BOOLEAN, routing' \in BOOLEAN,
         since' \in Nat, since' <= handled["player"],
         out' \in [Side -> Seq(Nat)], out'["player"] = out["player"],
         Range(out'["backend"]) \subseteq 1..c, ~routing' => ~routing /\ out' = out,
         cancelled' \in [Side -> SUBSET Nat], cancelled'["player"] = cancelled["player"],
         cancelled'["backend"] \subseteq 1..c,
         threw' \in [Side -> SUBSET Nat], threw'["player"] = threw["player"],
         threw'["backend"] \subseteq 1..c,
         NEW k, OwnListener(k) \/ told' = told, missed' = missed,
         FirstStatus', BackendPassedOn', PlayerPassedOn'
  PROVE  BridgeInv'
<1>1. /\ handled'["player"] = handled["player"] /\ handled'["backend"] = c
      /\ handled["backend"] \in Nat /\ handled' \in [Side -> Nat]
  BY BridgeReads DEF BridgeInv, BridgeTypes, Side
<1>2. told' \in {"no", "perhaps", "yes"} /\ (told' = "no" => told = "no")
  BY Tells DEF BridgeInv, BridgeTypes
<1>3. client \notin {"none", "connecting"}
  <2>1. sent["backend"] # <<>>
    BY <1>1
  <2> QED
    BY <2>1 DEF BridgeInv, ClientComes
<1>4. BridgeTypes'
  BY <1>1, <1>2 DEF BridgeInv, BridgeTypes
<1>5. Progress'
  <2>1. \A d \in Side : d = "player" \/ d = "backend"
    BY DEF Side
  <2>2. /\ handled'["player"] <= Len(sent'["player"])
        /\ Range(out'["player"]) \cup cancelled'["player"] \cup threw'["player"]
             \subseteq 1..handled'["player"]
        /\ ~routing' => out'["player"] = <<>> /\ out'["backend"] = <<>>
    <3>1. "player" \in Side /\ "backend" \in Side
      BY DEF Side
    <3> QED
      BY <1>1, <3>1 DEF BridgeInv, Progress
  <2> QED
    BY <1>1, <2>1, <2>2 DEF Progress
<1>6. ClientComes' /\ LoopEnded(sent["player"], handled["player"], threw["player"])'
  BY <1>1, <1>3 DEF BridgeInv, ClientComes, LoopEnded
<1>7. Told'
  BY <1>1, <1>2, PassedSets DEF BridgeInv, Told
<1> QED
  BY <1>4, <1>5, <1>6, <1>7 DEF BridgeInv

-------------------------------------------------------------------------------
(* The invariant is inductive *)

LEMMA BridgeInitially == Init => BridgeInv
<1> SUFFICES ASSUME Init
             PROVE  BridgeInv
  OBVIOUS
<1>1. \A d \in Side : /\ sent[d] = <<>> /\ handled[d] = 0 /\ out[d] = <<>>
                      /\ cancelled[d] = {} /\ threw[d] = {}
  BY DEF Init
<1>2. "player" \in Side /\ "backend" \in Side
  BY DEF Side
<1>3. BridgeTypes
  <2>1. <<>> \in Seq(Message) /\ <<>> \in Seq(Nat) /\ DOMAIN <<>> = {}
    OBVIOUS
  <2> QED
    BY <1>1, <1>2, <2>1 DEF Init, BridgeTypes
<1>4. Range(<<>>) = {} /\ Len(<<>>) = 0
  BY DEF Range
<1>5. Progress
  BY <1>1, <1>2, <1>4 DEF Init, Progress
<1>6. ClientComes /\ FirstStatus
  BY <1>1, <1>2 DEF Init, ClientComes, FirstStatus, NoStatus, LoginBefore
<1>7. LoopEnded(sent["player"], handled["player"], threw["player"]) /\ Told
  BY <1>1, <1>2 DEF Init, LoopEnded, Told
<1>8. BackendPassedOn /\ PlayerPassedOn
  <2>1. PassedToPlayer = {}
    BY <1>1, <1>2, PassedSets DEF Behind
  <2> QED
    BY <1>1, <1>2, <2>1, NothingPassedOn, PassedSets DEF Init
<1> QED
  BY <1>3, <1>5, <1>6, <1>7, <1>8 DEF BridgeInv

\* The two ends come and go.
LEMMA EndsPreserve ==
  ASSUME BridgeInv, OnHandshake \/ ClientConnects \/ ClientEnds \/ PlayerLeaves
  PROVE  BridgeInv'
<1>1. /\ UNCHANGED <<routing, since, sent, handled, out, cancelled, threw>>
      /\ player' \in {player, "gone"} /\ listening' \in BOOLEAN
      /\ client' \in {"none", "connecting", "connected", "ended"}
      /\ told' \in {"no", "perhaps", "yes"} /\ (told' = "no" => told = "no")
      /\ client = "connected" \/ client' # "connected" \/ client = "connecting"
      /\ missed' \in SUBSET Nat /\ missed \subseteq missed'
  <2>1. CASE OnHandshake
    BY <2>1 DEF OnHandshake, BridgeInv, BridgeTypes
  <2>2. CASE ClientConnects \/ ClientEnds
    BY <2>2 DEF ClientConnects, ClientEnds, login, verdicts, BridgeInv, BridgeTypes
  <2>3. CASE PlayerLeaves
    <3>1. \/ BridgeDisconnect /\ missed' = missed
          \/ told' = told /\ missed' = missed
          \/ told' = told /\ missed' = missed \cup {0}
      BY <2>3 DEF PlayerLeaves, NotCalled
    <3>2. told' \in {"no", "perhaps", "yes"} /\ (told' = "no" => told = "no")
      <4>1. told \in {"no", "perhaps", "yes"} /\ missed \in SUBSET Nat
        BY DEF BridgeInv, BridgeTypes
      <4>2. BridgeDisconnect => told' \in {"no", "perhaps", "yes"} /\ (told' = "no" => told = "no")
        BY <4>1, Tells
      <4> QED
        BY <3>1, <4>1, <4>2
    <3>3. missed' \in SUBSET Nat /\ missed \subseteq missed'
      <4>1. missed \in SUBSET Nat /\ missed \cup {0} \in SUBSET Nat
        BY DEF BridgeInv, BridgeTypes
      <4>2. missed' = missed \/ missed' = missed \cup {0}
        BY <3>1
      <4> QED
        BY <4>1, <4>2
    <3> QED
      BY <2>3, <3>2, <3>3 DEF PlayerLeaves, login, BridgeInv, BridgeTypes
  <2> QED
    BY <2>1, <2>2, <2>3
<1>2. BridgeTypes' /\ Progress'
      /\ LoopEnded(sent["player"], handled["player"], threw["player"])'
  <2>1. player' \in {"here", "gone"}
    BY <1>1 DEF BridgeInv, BridgeTypes
  <2> QED
    BY <1>1, <2>1 DEF BridgeInv, BridgeTypes, Progress, LoopEnded
<1>3. client \in {"none", "connecting"} =>
        handled["backend"] = 0 /\ NoStatus(sent["backend"], handled["backend"]) /\ ~routing
  <2> SUFFICES ASSUME client \in {"none", "connecting"}
               PROVE  handled["backend"] = 0 /\ NoStatus(sent["backend"], handled["backend"])
                      /\ ~routing
    OBVIOUS
  <2>1. handled["backend"] = 0
    BY BridgeReads DEF BridgeInv, ClientComes
  <2>2. NoStatus(sent["backend"], 0) /\ ~LoginBefore(sent["backend"], 0 + 1)
    BY DEF NoStatus, LoginBefore
  <2> QED
    BY <2>1, <2>2 DEF BridgeInv, FirstStatus
<1>4. ClientComes' /\ FirstStatus'
  <2>1. CASE OnHandshake
    <3>1. client = "none" /\ client' = "connecting" /\ listening'
      BY <2>1 DEF OnHandshake
    <3> QED
      BY <1>1, <1>3, <3>1 DEF BridgeInv, ClientComes, FirstStatus
  <2>2. CASE ClientConnects \/ ClientEnds \/ PlayerLeaves
    <3>1. /\ listening' = listening /\ (client' = "none" => client = "none")
          /\ client' = "connecting" => client = "connecting"
          /\ client = "none" => client' = "none"
      BY <2>2 DEF ClientConnects, ClientEnds, PlayerLeaves, login
    <3> QED
      BY <1>1, <3>1 DEF BridgeInv, ClientComes, FirstStatus
  <2> QED
    BY <2>1, <2>2
<1>5. Told'
  <2>1. Unreached' = Unreached
    BY <1>1, PassedSets
  <2>2. CASE OnHandshake
    <3>1. (player' = "here" \/ 0 \in missed') /\ sent["player"] = <<>>
      BY <2>2 DEF OnHandshake, BridgeInv, BridgeTypes, ClientComes
    <3>2. handled["player"] = 0
      BY <3>1, BridgeReads
    <3> QED
      BY <1>1, <3>1, <3>2 DEF Told
  <2>3. CASE ClientConnects \/ ClientEnds
    <3>1. player' = player /\ (client' \in {"connecting", "connected"} => client = "connecting")
      BY <2>3 DEF ClientConnects, ClientEnds
    <3> QED
      BY <1>1, <2>1, <3>1 DEF BridgeInv, Told
  <2>4. CASE PlayerLeaves
    <3>1. /\ client' = client
          /\ \/ client \in {"connecting", "connected"} => told' # "no"
             \/ told' = told /\ 0 \in missed'
      BY <2>4, Tells DEF PlayerLeaves, HearsThePlayerLeave, NotCalled, BridgeInv, BridgeTypes
    <3> QED
      BY <1>1, <2>1, <3>1 DEF BridgeInv, Told
  <2> QED
    BY <2>2, <2>3, <2>4
<1>6. BackendPassedOn'
  <2>1. PassedToPlayer' = PassedToPlayer
    BY <1>1, PassedSets
  <2>2. PassedOn(player = "here", out["backend"], PassedToPlayer)
    BY PassedSets DEF BridgeInv
  <2>3. CASE player' = player
    BY <1>1, <2>1, <2>2, <2>3, PassedSets
  <2>4. CASE player' = "gone"
    <3>1. PassedOn(FALSE, out["backend"], PassedToPlayer)
      BY <2>2, LessPassedOn
    <3>2. (player' = "here") = FALSE
      BY <2>4
    <3> QED
      BY <1>1, <2>1, <3>1, <3>2, PassedSets
  <2> QED
    BY <1>1, <2>3, <2>4
<1>7. PlayerPassedOn'
  <2> DEFINE all == client = "connected" /\ routing
             then == client' = "connected" /\ routing'
  <2>1. PassedToBackend' = PassedToBackend
    BY <1>1, PassedSets
  <2>2. PassedOn(all, out["player"], PassedToBackend)
    BY PassedSets DEF BridgeInv
  <2>3. then => all
    BY <1>1, <1>3
  <2>4. (then <=> all) \/ ~then
    BY <2>3
  <2>5. PassedOn(FALSE, out["player"], PassedToBackend)
    BY <2>2, LessPassedOn
  <2>6. PassedOn(then, out["player"], PassedToBackend)
    BY <2>2, <2>4, <2>5 DEF PassedOn
  <2> QED
    BY <1>1, <2>1, <2>6, PassedSets
<1> QED
  BY <1>2, <1>4, <1>5, <1>6, <1>7 DEF BridgeInv

LEMMA SendsPreserves ==
  ASSUME BridgeInv, NEW d \in Side, Sends(d)
  PROVE  BridgeInv'
<1> DEFINE s == sent["player"]
           b == sent["backend"]
           r == sent'["player"]
           q == sent'["backend"]
<1>1. /\ UNCHANGED <<player, client, listening, routing, since, handled, out, told,
                     cancelled, threw, missed>>
      /\ client # "none" /\ (d = "backend" => client = "connected")
      /\ "player" \in Side /\ "backend" \in Side
  BY DEF Sends, Open, login, ends, verdicts, Side
<1>2. PICK n \in Nat : \E batch \in Batch(d, n) : sent' = [sent EXCEPT ![d] = @ \o batch]
  <2>1. PICK m \in 1..(MaxPackets[d] - Len(sent[d])) :
          \E x \in Batch(d, m) : sent' = [sent EXCEPT ![d] = @ \o x]
    BY DEF Sends
  <2>2. MaxPackets[d] - Len(sent[d]) \in Int
    BY BridgeReads, BoundAssumption DEF Side
  <2>3. m \in Nat
    BY <2>1, <2>2
  <2> QED
    BY <2>1, <2>3
<1>3. /\ sent' \in [Side -> Seq(Message)] /\ Grows(s, r) /\ Grows(b, q)
      /\ r \in Seq(Message) /\ q \in Seq(Message) /\ (d # "backend" => q = b)
      /\ \A i \in DOMAIN r : r[i].kind \notin {"login", "status"}
  <2>1. PICK batch \in Batch(d, n) : sent' = [sent EXCEPT ![d] = @ \o batch]
    BY <1>2
  <2> DEFINE x == sent[d] \o batch
  <2>2. sent \in [Side -> Seq(Message)] /\ \A y \in Seq(Message) : Grows(y, y)
    BY DEF BridgeInv, BridgeTypes, Grows
  <2>3. /\ x \in Seq(Message) /\ Grows(sent[d], x)
        /\ \A i \in DOMAIN x : i \in DOMAIN sent[d] \/ x[i].kind \in Kinds[d]
    BY <2>2, BatchSent
  <2>4. sent' = [sent EXCEPT ![d] = x]
    BY <2>1
  <2> HIDE DEF x
  <2>5. /\ sent' \in [Side -> Seq(Message)] /\ sent'[d] = x
        /\ \A y \in Side : y # d => sent'[y] = sent[y]
    BY <2>2, <2>3, <2>4
  <2>6. \A i \in DOMAIN r : r[i].kind \notin {"login", "status"}
    <3>1. \A i \in DOMAIN s : s[i].kind \notin {"login", "status"}
      BY DEF BridgeInv, BridgeTypes
    <3>2. CASE d = "player"
      <4>1. \A i \in DOMAIN s : x[i] = s[i]
        BY <1>1, <2>2, <2>3, <3>2 DEF Grows
      <4> QED
        BY <2>3, <2>5, <3>1, <3>2, <4>1, KindAssumption
    <3>3. CASE d # "player"
      BY <1>1, <2>5, <3>1, <3>3
    <3> QED
      BY <3>2, <3>3
  <2> QED
    BY <1>1, <2>2, <2>3, <2>5, <2>6
<1>4. /\ s \in Seq(Message) /\ b \in Seq(Message)
      /\ handled["player"] \in Nat /\ handled["backend"] \in Nat
      /\ handled["player"] <= Len(s) /\ handled["backend"] <= Len(b)
      /\ threw["player"] \in SUBSET (1..handled["player"])
      /\ Len(s) <= Len(r) /\ Len(b) <= Len(q)
  BY <1>3, BridgeReads DEF Grows
<1>5. /\ NoStatus(q, handled["backend"]) <=> NoStatus(b, handled["backend"])
      /\ \A i \in 1..(handled["backend"] + 1) : LoginBefore(q, i) <=> LoginBefore(b, i)
  BY <1>3, <1>4, HandledStays
<1>6. /\ LoopEnded(s, handled["player"], threw["player"])
           => LoopEnded(r, handled["player"], threw["player"])
      /\ Left(r, handled["player"], threw["player"]) = Left(s, handled["player"], threw["player"])
  BY <1>3, <1>4, HandledStays
<1>7. BridgeTypes'
  BY <1>1, <1>3 DEF BridgeInv, BridgeTypes
<1>8. Progress'
  <2>1. \A y \in Side : y = "player" \/ y = "backend"
    BY DEF Side
  <2>2. handled["player"] <= Len(r) /\ handled["backend"] <= Len(q)
    <3> HIDE DEF s, b, r, q
    <3>1. Len(s) \in Nat /\ Len(b) \in Nat /\ Len(r) \in Nat /\ Len(q) \in Nat
      BY <1>3, <1>4
    <3> QED
      BY <1>4, <3>1
  <2> QED
    BY <1>1, <2>1, <2>2 DEF BridgeInv, Progress
<1>9. ClientComes'
  <2>1. client = "connecting" => q = b
    BY <1>1, <1>3
  <2> QED
    BY <1>1, <2>1 DEF BridgeInv, ClientComes
<1>10. FirstStatus' /\ LoopEnded(sent["player"], handled["player"], threw["player"])'
  <2>1. handled["backend"] + 1 \in 1..(handled["backend"] + 1)
    BY <1>4
  <2> QED
    BY <1>1, <1>5, <1>6, <2>1 DEF BridgeInv, FirstStatus, LoopEnded
<1>11. Told'
  <2>1. Unreached' = Unreached
    BY <1>1, <1>6, PassedSets
  <2>2. \A i \in 1..handled["player"] : r[i] = s[i]
    BY <1>3, <1>4 DEF Grows
  <2> QED
    BY <1>1, <2>1, <2>2 DEF BridgeInv, Told
<1>12. BackendPassedOn'
  <2>1. Behind(q, handled["backend"]) = Behind(b, handled["backend"])
    BY <1>4, <1>5 DEF Behind
  <2> QED
    BY <1>1, <2>1, PassedSets DEF BridgeInv
<1>13. PlayerPassedOn'
  BY <1>1, <1>6, PassedSets DEF BridgeInv
<1> QED
  BY <1>7, <1>8, <1>9, <1>10, <1>11, <1>12, <1>13 DEF BridgeInv

\* own handlers and routePacket on the side of the player
LEMMA PlayerSidePreserves ==
  ASSUME BridgeInv,
         HandlePacket("player") \/ HandleThrows \/ RoutePacket("player")
           \/ RouteCancelled("player") \/ RouteThrows("player")
  PROVE  BridgeInv'
<1> DEFINE s == sent["player"]
           n == handled["player"]
           t == threw["player"]
           c == n + 1
           e == Min(BatchEnds("player"))
           kind == s[c].kind
           left == Left(s, n, t)
<1>1. /\ s \in Seq(Message) /\ n \in Nat /\ c \in Nat /\ since <= n /\ since \in Nat
      /\ out["player"] \in Seq(Nat) /\ Range(out["player"]) \subseteq 1..n
      /\ cancelled["player"] \in SUBSET (1..n) /\ t \in SUBSET (1..n) /\ LoopEnded(s, n, t)
      /\ left \subseteq 1..n
  <2>1. since <= n /\ since \in Nat
    BY DEF BridgeInv, BridgeTypes, Progress
  <2>2. LoopEnded(s, n, t)
    BY DEF BridgeInv
  <2>3. left \subseteq 1..n
    BY DEF Left
  <2>4. n \in Nat /\ c \in Nat
    BY BridgeReads
  <2> HIDE DEF c, left
  <2> QED
    BY <2>1, <2>2, <2>3, <2>4, BridgeReads
<1>2. /\ sent \in [Side -> Seq(Message)] /\ handled \in [Side -> Nat]
      /\ out \in [Side -> Seq(Nat)] /\ cancelled \in [Side -> SUBSET Nat]
      /\ threw \in [Side -> SUBSET Nat] /\ "player" \in Side /\ "backend" \in Side
  BY DEF BridgeInv, BridgeTypes, Side
<1>3. Turn("player") /\ UNCHANGED <<player, sent>> /\ Learns(kind, c)
  BY DEF HandlePacket, HandleThrows, RoutePacket, RouteCancelled, RouteThrows, Learns, verdicts,
     ends, Current
<1>4. c \in 1..Len(s) /\ e \in c..Len(s) /\ EndsBatch(s, c, e)
  BY <1>2, <1>3, TurnOf DEF Current
<1>5. kind \notin {"login", "status"}
  BY <1>4 DEF BridgeInv, BridgeTypes
<1>6. /\ Left(s, c, t) = left /\ LoopEnded(s, c, t)
      /\ Left(s, e, t \cup {c}) = left \cup ((c + 1)..e)
  <2> HIDE DEF s, n, t, e
  <2>1. Left(s, n + 1, t) = Left(s, n, t) /\ LoopEnded(s, n + 1, t)
    BY <1>1, NextIsReached
  <2>2. e \in Nat
    <3>1. Len(s) \in Nat
      BY <1>1
    <3> QED
      BY <1>1, <1>4, <3>1
  <2>3. Left(s, e, t \cup {c}) = Left(s, n, t) \cup ((c + 1)..e)
    <3> DEFINE u == t \cup {c}
    <3>1. Leaves(s, n, t, c, e, u)
      BY <1>1, <1>4, <2>2 DEF Leaves
    <3> HIDE DEF c, u
    <3>2. Left(s, e, u) = Left(s, n, t) \cup ((c + 1)..e)
      BY <3>1, RestIsLeft
    <3> QED
      BY <3>2 DEF u
  <2> QED
    BY <2>1, <2>3
<1> DEFINE S == ((since + 1)..n) \ (cancelled["player"] \cup t \cup left)
           all == client = "connected" /\ routing
<1>7. PassedOn(all, out["player"], S)
  BY PassedSets DEF BridgeInv
<1>8. PassedOn(TRUE, out["player"], S) \/ ~all
  BY <1>7
<1> HIDE DEF s, n, t, kind, left, S, all
<1>9. e \in Nat /\ c <= e /\ e <= Len(s) /\ c <= Len(s) /\ Len(s) \in Nat
  <2>1. Len(s) \in Nat
    BY <1>1
  <2> HIDE DEF c, e
  <2> QED
    BY <1>1, <1>4, <2>1
<1> HIDE DEF e
\* one packet, and none is left
<1>10. ASSUME handled' = [handled EXCEPT !["player"] = c], threw' = threw,
              UNCHANGED <<client, listening, routing, since>>,
              NEW q, out' = [out EXCEPT !["player"] = q], q \in Seq(Nat),
              Range(q) \subseteq 1..c, ~routing => q = out["player"],
              NEW x, x \in SUBSET (1..c), cancelled' = [cancelled EXCEPT !["player"] = x],
              PassedOn(all, q, ((since + 1)..c) \ (x \cup t \cup left))
       PROVE  BridgeInv'
  <2>1. /\ out' \in [Side -> Seq(Nat)] /\ out'["player"] = q /\ out'["backend"] = out["backend"]
        /\ ~routing => out' = out
    BY <1>2, <1>10
  <2>2. /\ cancelled' \in [Side -> SUBSET Nat] /\ cancelled'["player"] = x
        /\ cancelled'["backend"] = cancelled["backend"] /\ handled'["player"] = c
    BY <1>1, <1>2, <1>10
  <2>3. PlayerPassedOn'
    <3>1. PassedToBackend' = ((since + 1)..c) \ (x \cup t \cup left)
      BY <1>3, <1>6, <1>10, <2>2, PassedSets DEF s, t
    <3> HIDE DEF c
    <3> QED
      BY <1>10, <2>1, <3>1, PassedSets DEF all
  <2>4. c = handled["player"] + 1 /\ c <= Len(sent["player"])
        /\ Learns(sent["player"][c].kind, c)
    BY <1>3, <1>9 DEF n, s, kind
  <2> HIDE DEF c
  <2>5. c <= c
    BY <1>1
  <2> QED
    BY <1>1, <1>2, <1>3, <1>10, <2>1, <2>2, <2>3, <2>4, <2>5, PlayerHandled DEF s, n, t
<1>11. CASE HandlePacket("player") \/ HandleThrows
  <2>1. /\ ~routing /\ handled' = [handled EXCEPT !["player"] = c]
        /\ UNCHANGED <<client, listening, routing, since, out, cancelled, threw>>
    <3>1. CASE HandlePacket("player")
      BY <1>2, <1>5, <3>1 DEF HandlePacket, Routed, GoesOn, Current, login, verdicts, kind, s, n
    <3>2. CASE HandleThrows
      BY <1>2, <3>2 DEF HandleThrows, GoesOn, Current, ends, login, n
    <3> QED
      BY <1>11, <3>1, <3>2
  <2>2. out["player"] = <<>> /\ out' = [out EXCEPT !["player"] = out["player"]]
        /\ cancelled' = [cancelled EXCEPT !["player"] = cancelled["player"]]
        /\ Range(out["player"]) \subseteq 1..c /\ cancelled["player"] \in SUBSET (1..c)
    BY <1>1, <1>2, <2>1 DEF BridgeInv, Progress
  <2>3. all = FALSE
    BY <2>1 DEF all
  <2>4. PassedOn(all, out["player"],
                 ((since + 1)..c) \ (cancelled["player"] \cup t \cup left))
    BY <2>2, <2>3, NothingPassedOn
  <2> HIDE DEF c
  <2> QED
    BY <1>1, <1>10, <2>1, <2>2, <2>4
<1>12. CASE RoutePacket("player")
  <2> DEFINE q == IF all THEN Append(out["player"], c) ELSE out["player"]
  <2>1. /\ routing /\ handled' = [handled EXCEPT !["player"] = c]
        /\ out' = (IF client = "connected"
                     THEN [out EXCEPT !["player"] = Append(@, c)] ELSE out)
        /\ UNCHANGED <<client, listening, routing, since, cancelled, threw>>
    BY <1>2, <1>12 DEF RoutePacket, Routed, Forwarded, Open, GoesOn, Current, ends, login,
       verdicts, n
  <2>2. all <=> client = "connected"
    BY <2>1 DEF all
  <2>3. all \in BOOLEAN
    BY <1>2 DEF all, BridgeInv, BridgeTypes
  <2> HIDE DEF c
  <2>4. out' = [out EXCEPT !["player"] = q] /\ q \in Seq(Nat)
        /\ cancelled' = [cancelled EXCEPT !["player"] = cancelled["player"]]
    <3>1. CASE all
      BY <1>1, <1>2, <2>1, <2>2, <3>1
    <3>2. CASE ~all
      BY <1>1, <1>2, <2>1, <2>2, <3>2
    <3> QED
      BY <3>1, <3>2
  <2>5. Range(q) \subseteq 1..c /\ cancelled["player"] \in SUBSET (1..c)
    <3>1. Range(out["player"]) \subseteq 1..c /\ cancelled["player"] \in SUBSET (1..c)
      BY <1>1 DEF c
    <3>2. Range(Append(out["player"], c)) \subseteq Range(out["player"]) \cup {c} /\ c \in 1..c
      BY <1>1 DEF Range, c
    <3> QED
      BY <3>1, <3>2
  <2>6. S \cup {c} = ((since + 1)..c) \ (cancelled["player"] \cup t \cup left)
    <3>1. c \notin cancelled["player"] \cup t \cup left
      BY <1>1 DEF c
    <3>2. (since + 1)..c = ((since + 1)..n) \cup {c}
      BY <1>1 DEF c
    <3> QED
      BY <3>1, <3>2 DEF S
  <2>7. PassedOn(all, q, S \cup {c})
    BY <1>1, <1>7, <2>3, OnePassedOn DEF c
  <2> HIDE DEF q
  <2>8. PassedOn(all, q, ((since + 1)..c) \ (cancelled["player"] \cup t \cup left))
    BY <2>6, <2>7
  <2>9. threw' = threw /\ UNCHANGED <<client, listening, routing, since>>
        /\ (~routing => q = out["player"])
    BY <2>1
  <2> QED
    BY <1>10, <2>1, <2>4, <2>5, <2>8, <2>9
<1>13. CASE RouteCancelled("player")
  <2> DEFINE x == cancelled["player"] \cup {c}
  <2>1. /\ handled' = [handled EXCEPT !["player"] = c]
        /\ cancelled' = [cancelled EXCEPT !["player"] = x]
        /\ UNCHANGED <<client, listening, routing, since, out, threw>>
    BY <1>2, <1>13 DEF RouteCancelled, GoesOn, Current, ends, login, n
  <2>2. /\ out' = [out EXCEPT !["player"] = out["player"]]
        /\ Range(out["player"]) \subseteq 1..c /\ x \in SUBSET (1..c)
    BY <1>1, <1>2, <2>1
  <2>3. S = ((since + 1)..c) \ (x \cup t \cup left)
    <3>1. (since + 1)..c = ((since + 1)..n) \cup {c} /\ c \notin (since + 1)..n
      BY <1>1
    <3> QED
      BY <3>1 DEF S
  <2> HIDE DEF c, x
  <2> QED
    BY <1>1, <1>7, <1>10, <2>1, <2>2, <2>3
<1>14. CASE RouteThrows("player")
  <2>1. /\ handled' = [handled EXCEPT !["player"] = e]
        /\ threw' = [threw EXCEPT !["player"] = t \cup {c}]
        /\ UNCHANGED <<client, listening, routing, since, out, cancelled>>
    BY <1>2, <1>14 DEF RouteThrows, BreaksOff, Abandoned, Current, ends, login, n, e, t
  <2>2. /\ threw' \in [Side -> SUBSET Nat] /\ threw'["player"] = t \cup {c}
        /\ threw'["backend"] = threw["backend"] /\ handled'["player"] = e
        /\ Range(out["player"]) \subseteq 1..e /\ cancelled["player"] \subseteq 1..e
    <3>1. \A i \in 1..n : i \in 1..e
      BY <1>1, <1>9
    <3> QED
      BY <1>1, <1>2, <2>1, <3>1
  <2>3. S = ((since + 1)..e) \ (cancelled["player"] \cup (t \cup {c}) \cup (left \cup ((c + 1)..e)))
    <3>1. (since + 1)..e = ((since + 1)..n) \cup {c} \cup ((c + 1)..e)
      BY <1>1, <1>9
    <3>2. \A i \in (since + 1)..n : i # c /\ i \notin (c + 1)..e
      BY <1>1
    <3> HIDE DEF c
    <3> QED
      BY <3>1, <3>2 DEF S
  <2>4. PlayerPassedOn'
    <3>1. PassedToBackend' = S
      BY <1>3, <1>6, <2>1, <2>2, <2>3, PassedSets DEF s
    <3> QED
      BY <1>7, <2>1, <3>1, PassedSets DEF all
  <2>5. c = handled["player"] + 1 /\ Learns(sent["player"][c].kind, c)
    BY <1>3 DEF n, s, kind
  <2> HIDE DEF c
  <2> QED
    BY <1>1, <1>2, <1>3, <1>4, <1>9, <2>1, <2>2, <2>4, <2>5, PlayerHandled DEF s, t
<1> QED
  BY <1>11, <1>12, <1>13, <1>14

\* own handlers and routePacket on the side of the backend
LEMMA BackendSidePreserves ==
  ASSUME BridgeInv,
         HandlePacket("backend") \/ RoutePacket("backend") \/ RouteCancelled("backend")
           \/ RouteThrows("backend")
  PROVE  BridgeInv'
<1> DEFINE b == sent["backend"]
           n == handled["backend"]
           c == n + 1
           kind == b[c].kind
           x == cancelled["backend"]
           t == threw["backend"]
           here == player = "here"
           S == Behind(b, n) \ (x \cup t)
<1>1. /\ b \in Seq(Message) /\ n \in Nat /\ c \in Nat /\ since <= handled["player"]
      /\ since \in Nat /\ handled["player"] \in Nat
      /\ out["backend"] \in Seq(Nat) /\ Range(out["backend"]) \subseteq 1..n
      /\ x \in SUBSET (1..n) /\ t \in SUBSET (1..n) /\ here \in BOOLEAN
  BY BridgeReads DEF BridgeInv, BridgeTypes, Progress
<1>2. /\ sent \in [Side -> Seq(Message)] /\ handled \in [Side -> Nat]
      /\ out \in [Side -> Seq(Nat)] /\ cancelled \in [Side -> SUBSET Nat]
      /\ threw \in [Side -> SUBSET Nat] /\ "player" \in Side /\ "backend" \in Side
  BY DEF BridgeInv, BridgeTypes, Side
<1>3. Turn("backend") /\ UNCHANGED <<player, sent, missed>> /\ (OwnListener(kind) \/ told' = told)
  BY DEF HandlePacket, RoutePacket, RouteCancelled, RouteThrows, verdicts, ends, Current
<1>4. handled' = [handled EXCEPT !["backend"] = c]
  BY <1>2 DEF HandlePacket, RoutePacket, RouteCancelled, RouteThrows, GoesOn, BreaksOff, Abandoned,
     Current
<1>5. c \in 1..Len(b)
  BY <1>2, <1>3, TurnOf DEF Current
<1>6. client # "none"
  <2>1. b # <<>>
    BY <1>5
  <2> QED
    BY <2>1 DEF BridgeInv, ClientComes
<1>7. /\ routing <=> LoginBefore(b, c)
      /\ listening <=> NoStatus(b, n)
  BY <1>6 DEF BridgeInv, FirstStatus
<1>8. /\ LoginBefore(b, c + 1) <=> LoginBefore(b, c) \/ (kind = "login" /\ NoStatus(b, n))
      /\ NoStatus(b, c) <=> NoStatus(b, n) /\ kind \notin {"login", "status"}
      /\ LoginBefore(b, c) => ~NoStatus(b, n)
  <2>1. c = n + 1
    OBVIOUS
  <2> HIDE DEF b, n, c
  <2> QED
    BY <1>1, <2>1, NextStatus DEF kind
<1>9. /\ routing => Behind(b, c) = Behind(b, n) \cup {c}
      /\ ~routing => Behind(b, c) = Behind(b, n)
      /\ c \notin Behind(b, n)
  <2>1. 1..c = (1..n) \cup {c} /\ c \notin 1..n
    BY <1>1
  <2> HIDE DEF b, n, c
  <2> QED
    BY <1>7, <2>1 DEF Behind
<1>10. PassedOn(here, out["backend"], S)
  BY PassedSets DEF BridgeInv
<1>11. /\ handled'["backend"] = c /\ handled'["player"] = handled["player"]
       /\ c = handled["backend"] + 1 /\ c <= Len(sent["backend"]) /\ c \notin x \cup t
       /\ missed' = missed /\ (OwnListener(kind) \/ told' = told)
  BY <1>1, <1>2, <1>3, <1>4, <1>5
<1>12. 1..n \subseteq 1..c /\ c \in 1..c
  BY <1>1
<1>13. PassedToPlayer' = Behind(b, c) \ (cancelled'["backend"] \cup threw'["backend"])
  BY <1>3, <1>11, PassedSets
<1> HIDE DEF b, n, c, kind, x, t, here, S
<1>14. ASSUME routing, UNCHANGED <<client, listening, routing, since>>,
              NEW q \in Seq(Nat), out' = [out EXCEPT !["backend"] = q], Range(q) \subseteq 1..c,
              NEW y \in SUBSET (1..c), cancelled' = [cancelled EXCEPT !["backend"] = y],
              NEW z \in SUBSET (1..c), threw' = [threw EXCEPT !["backend"] = z],
              PassedOn(here, q, (Behind(b, n) \cup {c}) \ (y \cup z))
       PROVE  BridgeInv'
  <2>1. /\ out' \in [Side -> Seq(Nat)] /\ out'["backend"] = q /\ out'["player"] = out["player"]
    BY <1>2, <1>14
  <2>2. /\ cancelled' \in [Side -> SUBSET Nat] /\ threw' \in [Side -> SUBSET Nat]
        /\ cancelled'["backend"] = y /\ cancelled'["player"] = cancelled["player"]
        /\ threw'["backend"] = z /\ threw'["player"] = threw["player"]
    <3>1. 1..c \subseteq Nat
      OBVIOUS
    <3> QED
      BY <1>2, <1>14, <3>1
  <2>3. FirstStatus'
    <3>1. LoginBefore(b, c + 1) /\ ~NoStatus(b, c) /\ ~listening
      BY <1>7, <1>8, <1>14
    <3> QED
      BY <1>3, <1>11, <1>14, <3>1 DEF FirstStatus, b
  <2>4. BackendPassedOn'
    BY <1>3, <1>9, <1>13, <1>14, <2>1, <2>2, PassedSets DEF here
  <2>5. PlayerPassedOn'
    <3>1. PassedToBackend' = PassedToBackend
      BY <1>3, <1>11, <1>14, <2>2, PassedSets
    <3> QED
      BY <1>14, <2>1, <3>1, PassedSets DEF BridgeInv
  <2>6. listening' \in BOOLEAN /\ routing' \in BOOLEAN
    BY <1>14 DEF BridgeInv, BridgeTypes
  <2> QED
    BY <1>1, <1>3, <1>4, <1>11, <1>14, <2>1, <2>2, <2>3, <2>4, <2>5, <2>6, BackendHandled
<1>15. CASE HandlePacket("backend")
  <2>1. /\ ~routing /\ UNCHANGED <<out, cancelled, threw>> /\ client' \in {client, "ended"}
        /\ IF kind \in {"login", "status"}
             THEN /\ listening' = FALSE
                  /\ routing' = (routing \/ (listening /\ kind = "login"))
                  /\ since' = IF listening /\ kind = "login" THEN handled["player"] ELSE since
             ELSE UNCHANGED <<listening, routing, since>>
    BY <1>15 DEF HandlePacket, Routed, Current, OnPlayStatus, login, verdicts, kind, b, n, c
  <2>2. /\ listening' \in BOOLEAN /\ routing' \in BOOLEAN /\ since' \in Nat
        /\ since' <= handled["player"]
        /\ routing' => since' = handled["player"]
    <3>1. listening \in BOOLEAN /\ routing \in BOOLEAN
      BY DEF BridgeInv, BridgeTypes
    <3>2. CASE kind \in {"login", "status"}
      <4>1. /\ listening' = FALSE /\ routing' = (listening /\ kind = "login")
            /\ since' = IF listening /\ kind = "login" THEN handled["player"] ELSE since
        BY <2>1, <3>2
      <4>2. \/ routing' = TRUE /\ since' = handled["player"]
            \/ routing' = FALSE /\ since' = since
        BY <4>1
      <4>3. since' \in Nat /\ since' <= handled["player"]
        BY <1>1, <4>2
      <4> QED
        BY <4>1, <4>2, <4>3
    <3>3. CASE kind \notin {"login", "status"}
      BY <1>1, <2>1, <3>1, <3>3
    <3> QED
      BY <3>2, <3>3
  <2>3. routing' <=> LoginBefore(b, c + 1)
    BY <1>7, <1>8, <2>1, <2>2
  <2>4. listening' <=> NoStatus(b, c)
    BY <1>7, <1>8, <2>1, <2>2
  <2>5. FirstStatus'
    BY <1>3, <1>11, <2>3, <2>4 DEF FirstStatus, b
  <2>6. out["player"] = <<>> /\ out["backend"] = <<>>
    BY <1>2, <2>1 DEF BridgeInv, Progress
  <2>7. BackendPassedOn'
    <3>1. PassedToPlayer' = S
      BY <1>9, <1>13, <2>1 DEF S, x, t
    <3> QED
      BY <1>3, <1>10, <2>1, <3>1, PassedSets DEF here
  <2>8. PlayerPassedOn'
    <3>1. CASE routing'
      <4>1. PassedToBackend' = {}
        <5>1. (since' + 1)..handled'["player"] = {}
          BY <1>1, <1>11, <2>2, <3>1
        <5> QED
          BY <5>1, PassedSets
      <4>2. (client' = "connected" /\ routing') \in BOOLEAN
        OBVIOUS
      <4> QED
        BY <2>1, <2>6, <4>1, <4>2, NothingPassedOn, PassedSets
    <3>2. CASE ~routing'
      <4>1. (client' = "connected" /\ routing') = FALSE
        BY <3>2
      <4> QED
        BY <2>1, <2>6, <4>1, NothingPassedOn, PassedSets
    <3> QED
      BY <3>1, <3>2
  <2>9. /\ out' \in [Side -> Seq(Nat)] /\ cancelled' \in [Side -> SUBSET Nat]
        /\ threw' \in [Side -> SUBSET Nat]
        /\ Range(out'["backend"]) \subseteq 1..c /\ cancelled'["backend"] \subseteq 1..c
        /\ threw'["backend"] \subseteq 1..c
        /\ out'["player"] = out["player"] /\ cancelled'["player"] = cancelled["player"]
        /\ threw'["player"] = threw["player"]
        /\ (~routing' => ~routing /\ out' = out)
    BY <1>1, <1>2, <1>12, <2>1 DEF x, t
  <2> QED
    BY <1>1, <1>3, <1>4, <1>11, <2>1, <2>2, <2>5, <2>7, <2>8, <2>9, BackendHandled
<1>16. CASE RoutePacket("backend")
  <2> DEFINE q == IF here THEN Append(out["backend"], c) ELSE out["backend"]
  <2>1. /\ routing /\ UNCHANGED <<client, listening, routing, since, cancelled, threw>>
        /\ out' = (IF player = "here" THEN [out EXCEPT !["backend"] = Append(@, c)] ELSE out)
    BY <1>2, <1>16 DEF RoutePacket, Routed, Forwarded, Open, Current, ends, login, verdicts, c, n
  <2>2. /\ out' = [out EXCEPT !["backend"] = q] /\ q \in Seq(Nat)
        /\ cancelled' = [cancelled EXCEPT !["backend"] = x]
        /\ threw' = [threw EXCEPT !["backend"] = t]
    <3>1. CASE here
      BY <1>1, <1>2, <2>1, <3>1 DEF here, x, t
    <3>2. CASE ~here
      BY <1>1, <1>2, <2>1, <3>2 DEF here, x, t
    <3> QED
      BY <3>1, <3>2
  <2>3. Range(q) \subseteq 1..c /\ x \in SUBSET (1..c) /\ t \in SUBSET (1..c)
    <3>1. Range(Append(out["backend"], c)) \subseteq Range(out["backend"]) \cup {c}
      BY <1>1 DEF Range
    <3> QED
      BY <1>1, <1>12, <3>1
  <2>4. S \cup {c} = (Behind(b, n) \cup {c}) \ (x \cup t)
    BY <1>11 DEF S
  <2>5. PassedOn(here, q, S \cup {c})
    BY <1>1, <1>10, OnePassedOn DEF c
  <2> HIDE DEF q
  <2>6. PassedOn(here, q, (Behind(b, n) \cup {c}) \ (x \cup t))
    BY <2>4, <2>5
  <2>7. UNCHANGED <<client, listening, routing, since>>
    BY <2>1
  <2> QED
    BY <1>14, <2>1, <2>2, <2>3, <2>6, <2>7
<1>17. CASE RouteCancelled("backend")
  <2> DEFINE y == x \cup {c}
  <2>1. /\ routing /\ UNCHANGED <<client, listening, routing, since, out, threw>>
        /\ cancelled' = [cancelled EXCEPT !["backend"] = y]
    BY <1>2, <1>17 DEF RouteCancelled, Routed, Current, ends, login, c, n, x
  <2>2. /\ out' = [out EXCEPT !["backend"] = out["backend"]]
        /\ threw' = [threw EXCEPT !["backend"] = t]
        /\ Range(out["backend"]) \subseteq 1..c /\ y \in SUBSET (1..c) /\ t \in SUBSET (1..c)
    BY <1>1, <1>2, <1>12, <2>1 DEF t
  <2>3. S = (Behind(b, n) \cup {c}) \ (y \cup t)
    BY <1>9 DEF S
  <2> HIDE DEF y
  <2> QED
    BY <1>1, <1>10, <1>14, <2>1, <2>2, <2>3
<1>18. CASE RouteThrows("backend")
  <2> DEFINE z == t \cup {c}
  <2>1. /\ routing /\ UNCHANGED <<client, listening, routing, since, out, cancelled>>
        /\ threw' = [threw EXCEPT !["backend"] = z]
    BY <1>2, <1>18 DEF RouteThrows, Routed, Current, ends, login, c, n, t
  <2>2. /\ out' = [out EXCEPT !["backend"] = out["backend"]]
        /\ cancelled' = [cancelled EXCEPT !["backend"] = x]
        /\ Range(out["backend"]) \subseteq 1..c /\ z \in SUBSET (1..c) /\ x \in SUBSET (1..c)
    BY <1>1, <1>2, <1>12, <2>1 DEF x
  <2>3. S = (Behind(b, n) \cup {c}) \ (x \cup z)
    BY <1>9 DEF S
  <2> HIDE DEF z
  <2> QED
    BY <1>1, <1>10, <1>14, <2>1, <2>2, <2>3
<1> QED
  BY <1>15, <1>16, <1>17, <1>18

LEMMA BridgeAlways == Spec => []BridgeInv
<1>1. Init => BridgeInv
  BY BridgeInitially
<1>2. BridgeInv /\ [Next]_vars => BridgeInv'
  <2> SUFFICES ASSUME BridgeInv, [Next]_vars
               PROVE  BridgeInv'
    OBVIOUS
  <2>1. CASE OnHandshake \/ ClientConnects \/ ClientEnds \/ PlayerLeaves
    BY <2>1, EndsPreserve
  <2>2. ASSUME NEW d \in Side, Sends(d)
        PROVE  BridgeInv'
    BY <2>2, SendsPreserves
  <2>3. ASSUME NEW d \in Side,
               HandlePacket(d) \/ RoutePacket(d) \/ RouteCancelled(d) \/ RouteThrows(d)
        PROVE  BridgeInv'
    <3>1. CASE d = "player"
      BY <2>3, <3>1, PlayerSidePreserves
    <3>2. CASE d = "backend"
      BY <2>3, <3>2, BackendSidePreserves
    <3> QED
      BY <3>1, <3>2 DEF Side
  <2>4. CASE UNCHANGED vars
    <3>1. UNCHANGED <<player, client, listening, routing, since, sent, handled, out, told,
                      cancelled, threw, missed>>
      BY <2>4 DEF vars
    <3> QED
      BY <3>1, PassedSets DEF BridgeInv, BridgeTypes, Progress, ClientComes, FirstStatus, LoopEnded,
         Told
  <2>5. CASE HandleThrows
    BY <2>5, PlayerSidePreserves
  <2> QED
    BY <2>1, <2>2, <2>3, <2>4, <2>5 DEF Next
<1> QED
  BY <1>1, <1>2, PTL DEF Spec

-------------------------------------------------------------------------------
(* The theorems *)

\* What the backend sends behind LoginSuccess reaches the player whole and in
\* order, and nothing before it does: handlePacket is looked up for each packet
\* of a batch, so the rest of the batch of the PlayStatus is routed too.
THEOREM BackendReachesPlayer == Spec => []BackendPassedOn
<1>1. BridgeInv => BackendPassedOn
  BY DEF BridgeInv
<1> QED
  BY <1>1, BridgeAlways, PTL

\* What the player sends from then on reaches the backend in order, without what
\* a listener cancelled and without the rest of a batch in which one threw, where
\* the loop of Player.onEncapsulated ends.
THEOREM PlayerReachesBackend == Spec => []PlayerPassedOn
<1>1. BridgeInv => PlayerPassedOn
  BY DEF BridgeInv
<1> QED
  BY <1>1, BridgeAlways, PTL

\* While its player is gone, or has said that it leaves, a backend was told:
\* Bridge.disconnect is called for both, and while the client connects what it
\* sends is at least on its way.  Only a listener of the user that throws before
\* the bridge's own is called, or a player that is gone before the bridge
\* listens, keeps it from that.
THEOREM BackendHearsOfLeaving == Spec => []BackendTold
<1>1. BridgeInv => BackendTold
  BY DEF BridgeInv, Told, BackendTold
<1> QED
  BY <1>1, BridgeAlways, PTL
===============================================================================
