---------------------------- MODULE RakClientProofs ----------------------------
(***************************************************************************)
(* A raknet client that is not closed before its socket is bound leaves    *)
(* nothing open, stays closed and reports its losses: with and without a   *)
(* proxy, for any number of retries and requests.                          *)
(*                                                                         *)
(* Any event can end the client, and each of the properties is about what  *)
(* the events after the end find.  The invariant says what a closed client *)
(* no longer has (a handle the network could reach it through), where a    *)
(* client that can be closed stands (its socket is bound, or never will    *)
(* be), and that a connection that was reported has no timeout of          *)
(* connect() left, the one end of a client that tells nobody.              *)
(***************************************************************************)
EXTENDS RakClient, TLAPS

Stage == {"none", "lookup", "connecting", "authenticating", "associating", "relaying",
          "binding", "bound", "failed"}
Settling == {"idle", "binding", "waiting", "resolved", "rejected"}
Answering == {"idle", "binding", "waiting", "answered", "rejected"}
Timer == SessionTimers \cup {"connect", "disconnect"}
Listener == {"constructor", "connect", "ping"}
Request == {"ping", "request1", "request2"}
Event == {"connect", "disconnect", "error"}

Client ==
  [proxy : BOOLEAN, init : Stage, handles : SUBSET {"tcp", "udp"}, closed : BOOLEAN,
   connect : Settling, ping : Answering, timers : SUBSET Timer,
   retransmitTimer : BOOLEAN, ackTimer : BOOLEAN,
   status : {"Disconnected", "Connecting", "Connected"},
   send : {"unset", "real", "noop"}, retry : Nat, unacked : BOOLEAN,
   listening : SUBSET Listener, asked : SUBSET Request,
   requests : Nat, accepted : Nat, told : SUBSET Event, left : BOOLEAN]

\* What is over leaves nothing behind.
Ended(x) ==
  /\ x.closed => /\ x.status = "Disconnected" /\ x.handles = {}
                 /\ x.init \in {"binding", "bound", "failed"}
  /\ x.init = "failed" => x.closed
  /\ x.connect = "rejected" => x.closed
  /\ ~x.closed => "constructor" \in x.listening

\* How far a client is that can send, or that its user may leave.
Bound(x) ==
  /\ x.send # "unset" => x.init \in {"binding", "bound", "failed"}
  /\ x.left => x.init \in {"bound", "failed"}
  /\ "disconnect" \in x.timers => x.left
  /\ x.connect \in {"waiting", "resolved"} => x.init = "bound"
  /\ x.connect = "waiting" => x.closed \/ "connect" \in x.listening

\* What connect() waits for, and what it has asked for.
Asking(x) ==
  /\ "connect" \in x.timers => x.connect = "waiting"
  /\ x.connect \in {"idle", "binding"} =>
       x.asked \subseteq {"ping"} /\ x.requests = 0
  /\ x.accepted <= x.requests
  /\ "connect" \in x.told => x.connect \in {"resolved", "rejected"}

Reported(x) ==
  "connect" \in x.told /\ x.status = "Disconnected" /\ ~x.left =>
    x.closed /\ x.told \cap {"disconnect", "error"} # {}

Sound(x) == x \in Client /\ Ended(x) /\ Bound(x) /\ Asking(x) /\ Reported(x)

ClientInv == Sound(c)

\* What ClosedForGood asks of a step.
StaysClosed(x, y) ==
  x.closed => /\ y.closed /\ y.status = "Disconnected" /\ y.handles \subseteq x.handles
              /\ "connect" \in y.told => "connect" \in x.told

\* y differs from x in nothing Sound or StaysClosed looks at.
Same(x, y) ==
  /\ y \in Client
  /\ y.init = x.init /\ y.handles = x.handles /\ y.closed = x.closed
  /\ y.connect = x.connect /\ y.status = x.status /\ y.send = x.send
  /\ y.told = x.told /\ y.left = x.left
  /\ y.asked \ {"ping"} = x.asked \ {"ping"}
  /\ y.requests = x.requests /\ y.accepted = x.accepted
  /\ "connect" \in y.timers <=> "connect" \in x.timers
  /\ "disconnect" \in y.timers <=> "disconnect" \in x.timers
  /\ "constructor" \in y.listening <=> "constructor" \in x.listening
  /\ "connect" \in y.listening <=> "connect" \in x.listening

-------------------------------------------------------------------------------
(* Handlers *)

\* From a sound client to a sound client, and from a closed one to a closed one.
Goes(x, y) == Sound(x) => Sound(y) /\ StaysClosed(x, y)

LEMMA SameGoes ==
  ASSUME NEW x, NEW y, Same(x, y)
  PROVE  Goes(x, y)
BY DEF Same, Goes, Sound, Ended, Bound, Asking, Reported, StaysClosed

LEMMA GoesOn ==
  ASSUME NEW x, NEW y, NEW z, Goes(x, y), Goes(y, z)
  PROVE  Goes(x, z)
BY DEF Goes, StaysClosed

LEMMA SameOfSame ==
  ASSUME NEW x, NEW y, NEW z, Same(x, y), Same(y, z)
  PROVE  Same(x, z)
BY DEF Same

\* The timers and the retries of the session.
LEMMA TimersSame ==
  ASSUME NEW x \in Client
  PROVE  /\ \A timer \in SessionTimers : Same(x, Fire(x, timer))
         /\ Same(x, ArmIfNone(x)) /\ Same(x, Rearm(x)) /\ Same(x, Disarm(x))
         /\ Same(x, ClearOfflineRetry(x)) /\ Same(x, FrameAndSend(x))
         /\ Same(x, StartKeepalive(x)) /\ Same(x, ArmAck(x))
<1>1. \A timer \in SessionTimers : Same(x, Fire(x, timer))
  BY DEF Same, Fire, Client, SessionTimers
<1>2. ASSUME NEW y \in Client
      PROVE  Same(y, Rearm(y)) /\ Same(y, Disarm(y)) /\ Same(y, ArmIfNone(y))
  <2>1. "retransmit" \in Timer
    BY DEF Timer, SessionTimers
  <2>2. Same(y, Rearm(y))
    BY <2>1 DEF Same, Rearm, Client
  <2>3. Same(y, Disarm(y))
    BY DEF Same, Disarm, Client
  <2>4. Same(y, ArmIfNone(y))
    BY <2>2 DEF Same, ArmIfNone, Rearm
  <2> QED
    BY <2>2, <2>3, <2>4
<1>3. Same(x, ClearOfflineRetry(x))
  <2> DEFINE y == [x EXCEPT !.retry = 0]
  <2>1. Same(x, y)
    BY DEF Same, Client
  <2>2. y \in Client /\ ClearOfflineRetry(x) = Disarm(y)
    BY <2>1 DEF Same, ClearOfflineRetry
  <2> HIDE DEF y
  <2> QED
    BY <1>2, <2>1, <2>2, SameOfSame
<1>4. Same(x, FrameAndSend(x))
  <2> DEFINE y == [x EXCEPT !.unacked = TRUE]
  <2>1. Same(x, y) /\ Same(x, x)
    BY DEF Same, Client
  <2>2. y \in Client /\ FrameAndSend(x) \in {x, ArmIfNone(y)}
    BY <2>1 DEF Same, FrameAndSend
  <2> HIDE DEF y
  <2> QED
    BY <1>2, <2>1, <2>2, SameOfSame
<1>5. ASSUME NEW y \in Client, NEW timer \in SessionTimers
      PROVE  Same(y, [y EXCEPT !.timers = @ \cup {timer}])
  <2>1. timer \in Timer /\ timer # "connect" /\ timer # "disconnect"
    BY DEF Timer, SessionTimers
  <2> QED
    BY <2>1 DEF Same, Client
<1>6. "keepalive" \in SessionTimers /\ "ack" \in SessionTimers
  BY DEF SessionTimers
<1>7. Same(x, StartKeepalive(x))
  BY <1>5, <1>6 DEF StartKeepalive
<1>8. Same(x, ArmAck(x))
  <2> DEFINE y == [x EXCEPT !.ackTimer = TRUE]
  <2>1. Same(x, y) /\ Same(x, x)
    BY DEF Same, Client
  <2>2. y \in Client /\ y.timers = x.timers
    BY DEF Client
  <2>3. ArmAck(x) \in {x, [y EXCEPT !.timers = @ \cup {"ack"}]}
    BY <2>2 DEF ArmAck
  <2> HIDE DEF y
  <2>4. Same(y, [y EXCEPT !.timers = @ \cup {"ack"}])
    BY <1>5, <1>6, <2>2
  <2> QED
    BY <2>1, <2>3, <2>4, SameOfSame
<1> QED
  BY <1>1, <1>2, <1>3, <1>4, <1>7, <1>8

\* What close() does, once.
LEMMA CloseDoes ==
  ASSUME NEW x \in Client, ~x.closed
  PROVE  LET y == Close(x) IN
         /\ y \in Client /\ y.closed /\ y.status = "Disconnected" /\ y.send = "noop"
         /\ y.handles = Released(x) /\ y.listening = {}
         /\ y.init = x.init /\ y.connect = x.connect /\ y.told = x.told /\ y.left = x.left
         /\ y.asked = x.asked /\ y.requests = x.requests /\ y.accepted = x.accepted
         /\ ("connect" \in y.timers) <=> ("connect" \in x.timers)
         /\ ("disconnect" \in y.timers) <=> ("disconnect" \in x.timers)
<1> DEFINE y == Close(x)
<1>1. Released(x) \in SUBSET {"tcp", "udp"}
  BY DEF Released, Client
<1>2. x.timers \ SessionTimers \in SUBSET Timer /\ {} \in SUBSET Listener
  BY DEF Client
<1>3. y = [x EXCEPT !.closed = TRUE, !.status = "Disconnected", !.send = "noop",
                    !.timers = x.timers \ SessionTimers, !.listening = {},
                    !.handles = Released(x)]
  BY DEF Close
<1>4. y \in Client
  <2> PICK T \in SUBSET Timer, L \in SUBSET Listener, H \in SUBSET {"tcp", "udp"} :
        T = x.timers \ SessionTimers /\ L = {} /\ H = Released(x)
    BY <1>1, <1>2
  <2>1. y = [x EXCEPT !.closed = TRUE, !.status = "Disconnected", !.send = "noop",
                      !.timers = T, !.listening = L, !.handles = H]
    BY <1>3
  <2> HIDE DEF y
  <2> QED
    BY <2>1 DEF Client
<1>5. y.timers = x.timers \ SessionTimers
  BY <1>3 DEF Client
<1>6. /\ y.closed /\ y.status = "Disconnected" /\ y.send = "noop"
      /\ y.handles = Released(x) /\ y.listening = {}
      /\ y.init = x.init /\ y.connect = x.connect /\ y.told = x.told /\ y.left = x.left
      /\ y.asked = x.asked /\ y.requests = x.requests /\ y.accepted = x.accepted
  BY <1>3 DEF Client
<1> QED
  BY <1>4, <1>5, <1>6 DEF SessionTimers

\* close() of a client whose socket is bound, or never will be.  It tells
\* nobody: whoever calls it has told the user, or been asked by the user.
LEMMA CloseIsSound ==
  ASSUME NEW x \in Client, x.closed => Sound(x), Bound(x), Asking(x),
         x.init \in {"binding", "bound"} \/ (x.init = "failed" /\ x.handles = {}),
         "connect" \in x.told /\ ~x.left => x.told \cap {"disconnect", "error"} # {}
  PROVE  Sound(Close(x)) /\ Close(x).closed
<1>1. CASE x.closed
  BY <1>1 DEF Close
<1>2. CASE ~x.closed
  <2> DEFINE y == Close(x)
  <2>1. /\ y \in Client /\ y.closed /\ y.status = "Disconnected" /\ y.send = "noop"
        /\ y.handles = Released(x) /\ y.listening = {}
        /\ y.init = x.init /\ y.connect = x.connect /\ y.told = x.told /\ y.left = x.left
        /\ y.asked = x.asked /\ y.requests = x.requests /\ y.accepted = x.accepted
        /\ ("connect" \in y.timers) <=> ("connect" \in x.timers)
        /\ ("disconnect" \in y.timers) <=> ("disconnect" \in x.timers)
    BY <1>2, CloseDoes
  <2>2. y.handles = {}
    BY <2>1 DEF Released
  <2> HIDE DEF y
  <2>3. Ended(y)
    BY <2>1, <2>2 DEF Ended
  <2>4. Bound(y) /\ Asking(y)
    BY <2>1 DEF Bound, Asking
  <2>5. Reported(y)
    BY <2>1 DEF Reported
  <2> QED
    BY <2>1, <2>3, <2>4, <2>5 DEF Sound, y
<1> QED
  BY <1>1, <1>2

\* The user is told, and nothing else changes.
LEMMA TellDoes ==
  ASSUME NEW x \in Client, NEW event \in Event
  PROVE  LET y == Tell(x, event) IN
         /\ y \in Client
         /\ y.told = IF "constructor" \in x.listening THEN x.told \cup {event} ELSE x.told
         /\ y.init = x.init /\ y.handles = x.handles /\ y.closed = x.closed
         /\ y.connect = x.connect /\ y.status = x.status /\ y.send = x.send
         /\ y.left = x.left /\ y.asked = x.asked /\ y.requests = x.requests
         /\ y.accepted = x.accepted /\ y.timers = x.timers /\ y.listening = x.listening
BY DEF Tell, Client

\* connect() is settled, and its timeout and its listeners are gone.
LEMMA SettleDoes ==
  ASSUME NEW x \in Client, NEW outcome \in {"resolved", "rejected"}
  PROVE  LET y == Settle(x, outcome) IN
         /\ y \in Client
         /\ y.connect = IF x.connect = "waiting" THEN outcome ELSE x.connect
         /\ y.timers = x.timers \ {"connect"} /\ y.listening = x.listening \ {"connect"}
         /\ y.init = x.init /\ y.handles = x.handles /\ y.closed = x.closed
         /\ y.told = x.told /\ y.status = x.status /\ y.send = x.send
         /\ y.left = x.left /\ y.asked = x.asked /\ y.requests = x.requests
         /\ y.accepted = x.accepted
<1> DEFINE y == Settle(x, outcome)
           result == IF x.connect = "waiting" THEN outcome ELSE x.connect
<1>1. result \in Settling
  BY DEF Client, Settling
<1>2. y = [x EXCEPT !.connect = result, !.listening = x.listening \ {"connect"},
                    !.timers = x.timers \ {"connect"}]
  BY DEF Settle, Client
<1> HIDE DEF result
<1>3. y \in Client
  <2> PICK T \in SUBSET Timer, L \in SUBSET Listener :
        T = x.timers \ {"connect"} /\ L = x.listening \ {"connect"}
    BY DEF Client
  <2>1. y = [x EXCEPT !.connect = result, !.listening = L, !.timers = T]
    BY <1>2
  <2> HIDE DEF y
  <2> QED
    BY <1>1, <2>1 DEF Client
<1>4. /\ y.connect = result /\ y.timers = x.timers \ {"connect"}
      /\ y.listening = x.listening \ {"connect"}
      /\ y.init = x.init /\ y.handles = x.handles /\ y.closed = x.closed
      /\ y.told = x.told /\ y.status = x.status /\ y.send = x.send
      /\ y.left = x.left /\ y.asked = x.asked /\ y.requests = x.requests
      /\ y.accepted = x.accepted
  BY <1>2 DEF Client
<1> QED
  BY <1>3, <1>4 DEF result

\* The status is set to Disconnected and the user told: not sound, unless
\* close() follows or the client is closed.
Down(x) == [x EXCEPT !.status = "Disconnected"]

LEMMA TellDown ==
  ASSUME NEW x, Sound(x), NEW event \in {"disconnect", "error"}
  PROVE  LET y == Tell(Down(x), event) IN
         /\ Down(x) \in Client /\ Down(x).listening = x.listening
         /\ y \in Client /\ Bound(y) /\ Asking(y)
         /\ y.closed = x.closed /\ y.init = x.init /\ y.handles = x.handles
         /\ y.listening = x.listening
         /\ "connect" \in y.told <=> "connect" \in x.told
         /\ x.closed => Sound(y) /\ Same(x, Down(x))
         /\ ~x.closed => event \in y.told
<1> DEFINE w == Down(x)
           y == Tell(w, event)
<1>1. x \in Client /\ Ended(x) /\ Bound(x) /\ Asking(x) /\ Reported(x)
  BY DEF Sound
<1>2. /\ w \in Client /\ w.status = "Disconnected"
      /\ w.init = x.init /\ w.handles = x.handles /\ w.closed = x.closed
      /\ w.connect = x.connect /\ w.send = x.send /\ w.told = x.told /\ w.left = x.left
      /\ w.asked = x.asked /\ w.requests = x.requests /\ w.accepted = x.accepted
      /\ w.timers = x.timers /\ w.listening = x.listening
  BY <1>1 DEF Down, Client
<1>3. event \in Event
  BY DEF Event
<1>4. /\ y \in Client
      /\ y.told = IF "constructor" \in x.listening THEN x.told \cup {event} ELSE x.told
      /\ y.init = x.init /\ y.handles = x.handles /\ y.closed = x.closed
      /\ y.connect = x.connect /\ y.status = "Disconnected" /\ y.send = x.send
      /\ y.left = x.left /\ y.asked = x.asked /\ y.requests = x.requests
      /\ y.accepted = x.accepted /\ y.timers = x.timers /\ y.listening = x.listening
  <2> HIDE DEF w
  <2> QED
    BY <1>2, <1>3, TellDoes
<1>5. x.closed => Same(x, w)
  BY <1>1, <1>2 DEF Same, Ended
<1> HIDE DEF w, y
<1>6. "connect" \in y.told <=> "connect" \in x.told
  BY <1>4
<1>7. Bound(y) /\ Asking(y)
  BY <1>1, <1>4, <1>6 DEF Bound, Asking
<1>8. x.closed => Sound(y)
  BY <1>1, <1>4, <1>6, <1>7 DEF Sound, Ended, Reported
<1>9. ~x.closed => event \in y.told
  BY <1>1, <1>4 DEF Ended
<1> QED
  BY <1>2, <1>4, <1>5, <1>6, <1>7, <1>8, <1>9 DEF w, y

\* A client that may be closed: its socket is being bound or bound.
Closable(x) == x.init \in {"binding", "bound"} \/ x.closed

\* close() after the user was told of the end.
LEMMA CloseDown ==
  ASSUME NEW x, Sound(x), Closable(x), NEW event \in {"disconnect", "error"}
  PROVE  LET y == Close(Tell(Down(x), event)) IN
         Sound(y) /\ y.closed /\ StaysClosed(x, y)
<1> DEFINE t == Tell(Down(x), event)
           y == Close(t)
<1>1. /\ t \in Client /\ Bound(t) /\ Asking(t)
      /\ t.closed = x.closed /\ t.init = x.init /\ t.handles = x.handles
      /\ "connect" \in t.told <=> "connect" \in x.told
      /\ x.closed => Sound(t)
      /\ ~x.closed => event \in t.told
  BY TellDown
<1>2. Ended(x)
  BY DEF Sound
<1> HIDE DEF t
<1>3. t.init \in {"binding", "bound"} \/ (t.init = "failed" /\ t.handles = {})
  BY <1>1, <1>2 DEF Closable, Ended
<1>4. "connect" \in t.told /\ ~t.left => t.told \cap {"disconnect", "error"} # {}
  BY <1>1 DEF Sound, Reported, Ended
<1>5. Sound(y) /\ y.closed
  BY <1>1, <1>3, <1>4, CloseIsSound
<1>6. x.closed => y = t
  BY <1>1 DEF Close
<1>7. StaysClosed(x, y)
  BY <1>1, <1>2, <1>5, <1>6 DEF StaysClosed, Sound, Ended
<1> QED
  BY <1>5, <1>7 DEF t

LEMMA EmitDisconnectGoes ==
  ASSUME NEW x, Sound(x), Closable(x)
  PROVE  Goes(x, EmitDisconnect(Down(x)))
<1>1. Down(x).listening = x.listening /\ (x.closed => Same(x, Down(x)))
  BY TellDown
<1>2. CASE "constructor" \in x.listening
  <2>1. EmitDisconnect(Down(x)) = Close(Tell(Down(x), "disconnect"))
    BY <1>1, <1>2 DEF EmitDisconnect
  <2> QED
    BY <2>1, CloseDown DEF Goes
<1>3. CASE "constructor" \notin x.listening
  <2>1. EmitDisconnect(Down(x)) = Down(x)
    BY <1>1, <1>3 DEF EmitDisconnect
  <2>2. x.closed
    BY <1>3 DEF Sound, Ended
  <2> QED
    BY <1>1, <2>1, <2>2, SameGoes
<1> QED
  BY <1>2, <1>3

\* A closed client whose connect() is rejected stays sound.
LEMMA RejectedIsSound ==
  ASSUME NEW x, Sound(x), x.closed
  PROVE  LET y == Settle(x, "rejected") IN
         Sound(y) /\ y.closed /\ StaysClosed(x, y)
<1> DEFINE y == Settle(x, "rejected")
<1>1. x \in Client
  BY DEF Sound
<1>2. /\ y \in Client
      /\ y.connect = IF x.connect = "waiting" THEN "rejected" ELSE x.connect
      /\ y.timers = x.timers \ {"connect"} /\ y.listening = x.listening \ {"connect"}
      /\ y.init = x.init /\ y.handles = x.handles /\ y.closed = x.closed
      /\ y.told = x.told /\ y.status = x.status /\ y.send = x.send
      /\ y.left = x.left /\ y.asked = x.asked /\ y.requests = x.requests
      /\ y.accepted = x.accepted
  BY <1>1, SettleDoes
<1> HIDE DEF y
<1>3. Ended(y) /\ Bound(y)
  BY <1>2 DEF Sound, Ended, Bound
<1>4. Asking(y) /\ Reported(y)
  BY <1>2 DEF Sound, Asking, Reported
<1>5. StaysClosed(x, y)
  BY <1>2 DEF Sound, Ended, StaysClosed
<1> QED
  BY <1>2, <1>3, <1>4, <1>5 DEF Sound, y

LEMMA EmitErrorGoes ==
  ASSUME NEW x, Sound(x), Closable(x)
  PROVE  Goes(x, EmitError(Down(x)))
<1>1. Down(x).listening = x.listening /\ (x.closed => Same(x, Down(x)))
  BY TellDown
<1> DEFINE y == Close(Tell(Down(x), "error"))
<1>2. Sound(y) /\ y.closed /\ StaysClosed(x, y)
  BY CloseDown
<1>3. CASE x.listening \cap {"constructor", "connect"} = {}
  <2>1. EmitError(Down(x)) = Down(x)
    BY <1>1, <1>3 DEF EmitError
  <2>2. x.closed
    BY <1>3 DEF Sound, Ended
  <2> QED
    BY <1>1, <2>1, <2>2, SameGoes
<1>4. CASE x.listening \cap {"constructor", "connect"} # {}
  <2>1. EmitError(Down(x)) \in {y, Settle(y, "rejected")}
    BY <1>1, <1>4 DEF EmitError
  <2> HIDE DEF y
  <2>2. Sound(Settle(y, "rejected")) /\ StaysClosed(y, Settle(y, "rejected"))
    BY <1>2, RejectedIsSound
  <2>3. Goes(x, y) /\ Goes(y, Settle(y, "rejected"))
    BY <1>2, <2>2 DEF Goes
  <2> QED
    BY <2>1, <2>3, GoesOn
<1> QED
  BY <1>3, <1>4

\* tick() of the session, whatever it finds.
LEMMA TickGoes ==
  ASSUME NEW x, NEW stale \in BOOLEAN, NEW due \in BOOLEAN
  PROVE  Goes(x, Tick(x, stale, due))
<1> SUFFICES ASSUME Sound(x)
             PROVE  Goes(x, Tick(x, stale, due))
  BY DEF Goes
<1>1. x \in Client /\ Ended(x) /\ Bound(x)
  BY DEF Sound
<1>2. Goes(x, x) /\ Goes(x, Rearm(x))
  BY <1>1, TimersSame, SameGoes DEF Goes, StaysClosed, Sound, Ended
<1>3. CASE x.status = "Disconnected" \/ x.send = "unset"
  BY <1>2, <1>3 DEF Tick
<1>4. CASE ~(x.status = "Disconnected" \/ x.send = "unset")
  <2>1. Closable(x)
    BY <1>1, <1>4 DEF Closable, Bound, Ended
  <2> DEFINE quiet == [x EXCEPT !.retry = 0]
             again == [x EXCEPT !.retry = @ + 1]
  <2>2. /\ Same(x, quiet) /\ Same(x, again) /\ again \in Client
        /\ Closable(quiet) /\ Sound(quiet)
    <3>1. Same(x, quiet) /\ Same(x, again) /\ again \in Client
      BY <1>1 DEF Same, Client
    <3> HIDE DEF quiet, again
    <3>2. Sound(quiet)
      BY <3>1, SameGoes DEF Goes
    <3> QED
      BY <2>1, <3>1, <3>2 DEF Same, Closable
  <2>3. [x EXCEPT !.retry = 0, !.status = "Disconnected"] = Down(quiet)
    BY DEF Down
  <2>4. Tick(x, stale, due) \in {EmitDisconnect(Down(x)), EmitError(Down(quiet)),
                                 Rearm(again), Rearm(x), x}
    BY <1>4, <2>3 DEF Tick, Down
  <2> HIDE DEF quiet, again
  <2>5. Goes(x, EmitDisconnect(Down(x)))
    BY <2>1, EmitDisconnectGoes
  <2>6. Goes(x, EmitError(Down(quiet)))
    BY <2>2, EmitErrorGoes, SameGoes, GoesOn
  <2>7. Goes(x, Rearm(again))
    BY <2>2, TimersSame, SameGoes, GoesOn
  <2> QED
    BY <1>2, <2>4, <2>5, <2>6, <2>7
<1> QED
  BY <1>3, <1>4

-------------------------------------------------------------------------------
(* Binding *)

\* A client that is not bound yet is not closed, left or connecting.
Unbound(x) == x.init \in Stage \ {"bound", "failed"}

\* y is further in binding than x.
Opened(x, y) ==
  /\ y \in Client /\ y.init \in Stage \ {"failed"}
  /\ y.send # "unset" => y.init \in {"binding", "bound"}
  /\ y.closed = x.closed /\ y.connect = x.connect /\ y.status = x.status
  /\ y.told = x.told /\ y.left = x.left /\ y.asked = x.asked
  /\ y.requests = x.requests /\ y.accepted = x.accepted
  /\ y.timers = x.timers /\ y.listening = x.listening

LEMMA OpenedGoes ==
  ASSUME NEW x, NEW y, Sound(x), Unbound(x), ~x.closed, Opened(x, y)
  PROVE  Goes(x, y)
<1>1. ~x.left /\ x.connect \notin {"waiting", "resolved", "rejected"}
  BY DEF Sound, Bound, Ended, Unbound
<1>2. Ended(y)
  BY <1>1 DEF Opened, Sound, Ended
<1>3. Bound(y) /\ Asking(y) /\ Reported(y)
  BY <1>1 DEF Opened, Sound, Bound, Asking, Reported
<1> QED
  BY <1>2, <1>3 DEF Goes, Sound, Opened, StaysClosed

LEMMA GotoDoes ==
  ASSUME ClientInv, NEW stage \in Stage, NEW handles \in SUBSET {"tcp", "udp"}
  PROVE  LET y == Goto(stage, handles) IN
         /\ y \in Client /\ y.init = stage /\ y.handles = handles /\ y.send = c.send
         /\ y.closed = c.closed /\ y.connect = c.connect /\ y.status = c.status
         /\ y.told = c.told /\ y.left = c.left /\ y.asked = c.asked
         /\ y.requests = c.requests /\ y.accepted = c.accepted
         /\ y.timers = c.timers /\ y.listening = c.listening
BY DEF Goto, Client, ClientInv, Sound

\* A step to a stage of binding, where the function to send may become known.
LEMMA GotoGoes ==
  ASSUME ClientInv, Unbound(c), ~c.closed, NEW stage \in Stage \ {"failed"},
         NEW handles \in SUBSET {"tcp", "udp"}
  PROVE  /\ c.send = "unset" \/ stage \in {"binding", "bound"} => Goes(c, Goto(stage, handles))
         /\ stage \in {"binding", "bound"} =>
              Goes(c, [Goto(stage, handles) EXCEPT !.send = "real"])
<1> DEFINE y == Goto(stage, handles)
           z == [y EXCEPT !.send = "real"]
<1>1. /\ y \in Client /\ y.init = stage /\ y.send = c.send
      /\ y.closed = c.closed /\ y.connect = c.connect /\ y.status = c.status
      /\ y.told = c.told /\ y.left = c.left /\ y.asked = c.asked
      /\ y.requests = c.requests /\ y.accepted = c.accepted
      /\ y.timers = c.timers /\ y.listening = c.listening
  BY GotoDoes
<1>2. Sound(c)
  BY DEF ClientInv
<1> HIDE DEF y
<1>3. ASSUME c.send = "unset" \/ stage \in {"binding", "bound"}
      PROVE  Goes(c, y)
  <2>1. Opened(c, y)
    BY <1>1, <1>3 DEF Opened
  <2> QED
    BY <1>2, <2>1, OpenedGoes
<1>4. ASSUME stage \in {"binding", "bound"}
      PROVE  Goes(c, z)
  <2>1. /\ z \in Client /\ z.init = stage
        /\ z.closed = c.closed /\ z.connect = c.connect /\ z.status = c.status
        /\ z.told = c.told /\ z.left = c.left /\ z.asked = c.asked
        /\ z.requests = c.requests /\ z.accepted = c.accepted
        /\ z.timers = c.timers /\ z.listening = c.listening
    BY <1>1 DEF Client
  <2> HIDE DEF z
  <2>2. Opened(c, z)
    BY <1>4, <2>1 DEF Opened
  <2> QED
    BY <1>2, <2>2, OpenedGoes
<1> QED
  BY <1>3, <1>4 DEF y, z

\* A failure to bind releases what was opened and closes the client.
LEMMA InitFailsGoes ==
  ASSUME ClientInv, Unbound(c), ~c.closed, InitFails
  PROVE  Goes(c, c')
<1> DEFINE y == Goto("failed", {})
<1>1. "failed" \in Stage /\ {} \in SUBSET {"tcp", "udp"}
  BY DEF Stage
<1>2. /\ y \in Client /\ y.init = "failed" /\ y.handles = {} /\ y.send = c.send
      /\ y.closed = c.closed /\ y.connect = c.connect /\ y.status = c.status
      /\ y.told = c.told /\ y.left = c.left /\ y.asked = c.asked
      /\ y.requests = c.requests /\ y.accepted = c.accepted
      /\ y.timers = c.timers /\ y.listening = c.listening
  BY <1>1, GotoDoes
<1>3. c' = Close(y)
  BY DEF InitFails, AfterFailure
<1> HIDE DEF y
<1>4. Ended(c) /\ Bound(c) /\ Asking(c)
  BY DEF ClientInv, Sound
<1>5. ~c.left /\ c.connect \notin {"waiting", "resolved", "rejected"}
  BY <1>4 DEF Unbound, Bound, Ended
<1>6. "connect" \notin y.told
  BY <1>2, <1>4, <1>5 DEF Asking
<1>7. Bound(y) /\ Asking(y)
  BY <1>2, <1>4, <1>5 DEF Bound, Asking
<1>8. Sound(Close(y)) /\ Close(y).closed
  BY <1>2, <1>6, <1>7, CloseIsSound
<1> QED
  BY <1>3, <1>8 DEF Goes, StaysClosed

\* A handle that goes takes no part in what is sound.
LEMMA FewerHandles ==
  ASSUME ClientInv, ~c.closed, NEW handles \in SUBSET {"tcp", "udp"}
  PROVE  Goes(c, [c EXCEPT !.handles = handles])
<1> DEFINE y == [c EXCEPT !.handles = handles]
<1>1. /\ y \in Client /\ y.init = c.init /\ y.send = c.send
      /\ y.closed = c.closed /\ y.connect = c.connect /\ y.status = c.status
      /\ y.told = c.told /\ y.left = c.left /\ y.asked = c.asked
      /\ y.requests = c.requests /\ y.accepted = c.accepted
      /\ y.timers = c.timers /\ y.listening = c.listening
  BY DEF Client, ClientInv, Sound
<1> HIDE DEF y
<1>2. Ended(y)
  BY <1>1 DEF ClientInv, Sound, Ended
<1>3. Bound(y) /\ Asking(y) /\ Reported(y)
  BY <1>1 DEF ClientInv, Sound, Bound, Asking, Reported
<1>4. Goes(c, y)
  BY <1>1, <1>2, <1>3 DEF Goes, Sound, StaysClosed
<1> QED
  BY <1>4 DEF y

LEMMA BindingGoes ==
  ASSUME ClientInv, Lookup \/ Listening \/ ProxyStep \/ ProxyFails \/ ProxyHangsUp
  PROVE  Goes(c, c')
<1>1. c \in Client /\ Ended(c) /\ Bound(c)
  BY DEF ClientInv, Sound
<1>2. c.handles # {} => ~c.closed
  BY <1>1 DEF Ended
<1>3. ASSUME c.init \in {"lookup", "connecting", "authenticating", "associating", "relaying"}
      PROVE  Unbound(c) /\ ~c.closed /\ c.send = "unset"
  BY <1>1, <1>3 DEF Unbound, Stage, Ended, Bound
<1>4. /\ {"connecting", "authenticating", "associating", "relaying", "binding", "bound"}
           \subseteq Stage \ {"failed"}
      /\ {"tcp"} \in SUBSET {"tcp", "udp"} /\ {"udp"} \in SUBSET {"tcp", "udp"}
      /\ c.handles \in SUBSET {"tcp", "udp"}
  BY <1>1 DEF Stage, Client
<1>5. CASE Lookup
  <2>1. Unbound(c) /\ ~c.closed /\ c.send = "unset"
    BY <1>3, <1>5 DEF Lookup
  <2>2. CASE c' = Goto("connecting", {"tcp"})
    BY <1>4, <2>1, <2>2, GotoGoes
  <2>3. CASE \E stage \in {"binding", "bound"} :
               c' = [Goto(stage, {"udp"}) EXCEPT !.send = "real"]
    <3>1. PICK stage \in {"binding", "bound"} :
            c' = [Goto(stage, {"udp"}) EXCEPT !.send = "real"]
      BY <2>3
    <3>2. stage \in Stage \ {"failed"}
      BY <1>4
    <3> QED
      BY <1>4, <2>1, <3>1, <3>2, GotoGoes
  <2>4. CASE InitFails
    BY <2>1, <2>4, InitFailsGoes
  <2> QED
    BY <1>5, <2>2, <2>3, <2>4 DEF Lookup
<1>6. CASE Listening
  <2>1. Unbound(c) /\ ~c.closed
    BY <1>2, <1>6 DEF Listening, Unbound, Stage
  <2> QED
    BY <1>4, <1>6, <2>1, GotoGoes DEF Listening
<1>7. CASE ProxyStep
  <2>1. c.init \in {"connecting", "authenticating", "associating", "relaying"}
    BY <1>7 DEF ProxyStep
  <2>2. {"tcp", "udp"} \in SUBSET {"tcp", "udp"}
    OBVIOUS
  <2>3. Unbound(c) /\ ~c.closed /\ c.send = "unset"
    BY <1>3, <2>1
  <2>4. \A stage \in Stage \ {"failed"}, handles \in SUBSET {"tcp", "udp"} :
          /\ Goes(c, Goto(stage, handles))
          /\ stage = "bound" => Goes(c, [Goto(stage, handles) EXCEPT !.send = "real"])
    BY <2>3, GotoGoes
  <2>5. CASE c' \in {Goto("authenticating", {"tcp"}), Goto("associating", {"tcp"}),
                     Goto("relaying", {"tcp", "udp"})}
    BY <1>4, <2>2, <2>4, <2>5
  <2>6. CASE c' = [Goto("bound", c.handles) EXCEPT !.send = "real"]
    BY <1>4, <2>4, <2>6
  <2> QED
    BY <1>7, <2>5, <2>6 DEF ProxyStep
<1>8. CASE ProxyFails
  BY <1>3, <1>8, InitFailsGoes DEF ProxyFails
<1>9. CASE ProxyHangsUp
  <2>1. PICK handles \in SUBSET {"tcp", "udp"} : c' = [c EXCEPT !.handles = handles]
    BY <1>4, <1>9 DEF ProxyHangsUp
  <2>2. ~c.closed
    BY <1>2, <1>9 DEF ProxyHangsUp
  <2> QED
    BY <2>1, <2>2, FewerHandles
<1> QED
  BY <1>5, <1>6, <1>7, <1>8, <1>9

-------------------------------------------------------------------------------
(* Timers *)

LEMMA TimersGo ==
  ASSUME ClientInv, NEW stale \in BOOLEAN, NEW due \in BOOLEAN,
         KeepaliveTick(stale, due) \/ RetransmitTick(stale, due) \/ AckTick(stale, due)
  PROVE  Goes(c, c')
<1>1. c \in Client /\ Sound(c)
  BY DEF ClientInv, Sound
<1>2. /\ "keepalive" \in SessionTimers /\ "retransmit" \in SessionTimers
      /\ "ack" \in SessionTimers
  BY DEF SessionTimers
<1>3. ASSUME NEW y, Same(c, y)
      PROVE  Goes(c, Tick(y, stale, due))
  BY <1>3, SameGoes, TickGoes, GoesOn
<1>4. CASE KeepaliveTick(stale, due)
  <2> DEFINE y == Tick(Fire(c, "keepalive"), stale, due)
  <2>1. Goes(c, y)
    BY <1>1, <1>2, <1>3, TimersSame
  <2>2. y \in Client
    BY <1>1, <2>1 DEF Goes, Sound
  <2>3. Goes(y, StartKeepalive(y))
    BY <2>2, TimersSame, SameGoes
  <2>4. c' = StartKeepalive(y)
    BY <1>4 DEF KeepaliveTick
  <2> HIDE DEF y
  <2> QED
    BY <2>1, <2>3, <2>4, GoesOn
<1>5. CASE RetransmitTick(stale, due)
  BY <1>1, <1>2, <1>3, <1>5, TimersSame DEF RetransmitTick
<1>6. CASE AckTick(stale, due)
  <2> DEFINE x == Fire(c, "ack")
             y == [x EXCEPT !.ackTimer = FALSE]
  <2>1. Same(c, x)
    BY <1>1, <1>2, TimersSame
  <2>2. x \in Client
    BY <2>1 DEF Same
  <2> HIDE DEF x
  <2>3. Same(x, y)
    BY <2>2 DEF Same, Client
  <2>4. c' = Tick(y, stale, due)
    BY <1>6 DEF AckTick, x
  <2> HIDE DEF y
  <2> QED
    BY <1>3, <2>1, <2>3, <2>4, SameOfSame
<1> QED
  BY <1>4, <1>5, <1>6

-------------------------------------------------------------------------------
(* The user *)

\* connect() and ping() up to their await: binding may begin.
LEMMA BeginsGoes ==
  ASSUME ClientInv, Connect \/ Ping
  PROVE  Goes(c, c')
<1>1. c \in Client /\ Ended(c) /\ Bound(c) /\ Asking(c) /\ Reported(c)
  BY DEF ClientInv, Sound
<1>2. ASSUME NEW x \in Client, x.connect = c.connect \/ (c.connect = "idle" /\ x.connect = "binding"),
             x.init = c.init, x.handles = c.handles, x.closed = c.closed,
             x.status = c.status, x.send = c.send, x.told = c.told, x.left = c.left,
             x.asked = c.asked, x.requests = c.requests, x.accepted = c.accepted,
             x.timers = c.timers, x.listening = c.listening
      PROVE  Goes(c, EnsureBound(x))
  <2>1. Sound(x) /\ StaysClosed(c, x)
    <3>1. Ended(x) /\ Bound(x)
      BY <1>1, <1>2 DEF Ended, Bound
    <3>2. Asking(x) /\ Reported(x)
      BY <1>1, <1>2 DEF Asking, Reported
    <3> QED
      BY <1>1, <1>2, <3>1, <3>2 DEF Sound, Ended, StaysClosed
  <2>2. CASE x.init # "none"
    BY <2>1, <2>2 DEF EnsureBound, Goes
  <2>3. CASE x.init = "none"
    <3> DEFINE y == EnsureBound(x)
    <3>1. /\ y \in Client /\ y.init = "lookup" /\ y.handles = x.handles
          /\ y.send = x.send /\ y.closed = x.closed /\ y.connect = x.connect
          /\ y.status = x.status /\ y.told = x.told /\ y.left = x.left
          /\ y.asked = x.asked /\ y.requests = x.requests /\ y.accepted = x.accepted
          /\ y.timers = x.timers /\ y.listening = x.listening
      BY <1>2, <2>3 DEF EnsureBound, Client, Stage
    <3>2. Unbound(x) /\ ~x.closed /\ x.send = "unset"
      BY <2>1, <2>3 DEF Unbound, Stage, Sound, Ended, Bound
    <3> HIDE DEF y
    <3>3. Opened(x, y)
      BY <3>1, <3>2 DEF Opened, Stage
    <3>4. Goes(x, y)
      BY <2>1, <3>2, <3>3, OpenedGoes
    <3>5. Goes(c, x)
      BY <2>1 DEF Goes
    <3> QED
      BY <3>4, <3>5, GoesOn DEF y
  <2> QED
    BY <2>2, <2>3
<1>3. CASE Connect
  <2> DEFINE x == [c EXCEPT !.connect = "binding"]
  <2>1. /\ x \in Client /\ x.connect = "binding"
        /\ x.init = c.init /\ x.handles = c.handles /\ x.closed = c.closed
        /\ x.status = c.status /\ x.send = c.send /\ x.told = c.told /\ x.left = c.left
        /\ x.asked = c.asked /\ x.requests = c.requests /\ x.accepted = c.accepted
        /\ x.timers = c.timers /\ x.listening = c.listening
    BY <1>1 DEF Client, Settling
  <2>2. c.connect = "idle" /\ c' = EnsureBound(x)
    BY <1>3 DEF Connect
  <2> HIDE DEF x
  <2> QED
    BY <1>2, <2>1, <2>2
<1>4. CASE Ping
  <2> DEFINE x == [c EXCEPT !.ping = "binding"]
  <2>1. /\ x \in Client /\ x.connect = c.connect
        /\ x.init = c.init /\ x.handles = c.handles /\ x.closed = c.closed
        /\ x.status = c.status /\ x.send = c.send /\ x.told = c.told /\ x.left = c.left
        /\ x.asked = c.asked /\ x.requests = c.requests /\ x.accepted = c.accepted
        /\ x.timers = c.timers /\ x.listening = c.listening
    BY <1>1 DEF Client, Answering
  <2>2. c' = EnsureBound(x)
    BY <1>4 DEF Ping
  <2> HIDE DEF x
  <2> QED
    BY <1>2, <2>1, <2>2
<1> QED
  BY <1>3, <1>4

\* connect() after its await: it asks the server, or the client is closed.
LEMMA ConnectGoesOnGoes ==
  ASSUME ClientInv, ConnectGoesOn
  PROVE  Goes(c, c')
<1>1. c \in Client /\ Ended(c) /\ Bound(c) /\ Asking(c) /\ Reported(c)
  BY DEF ClientInv, Sound
<1>2. c.connect = "binding" /\ "connect" \notin c.told /\ "connect" \notin c.timers
  BY <1>1 DEF ConnectGoesOn, Asking
<1>3. CASE c.init = "bound"
  <2> DEFINE x == [c EXCEPT !.connect = "waiting", !.timers = @ \cup {"connect"},
                            !.listening = @ \cup {"connect"}]
             y == [x EXCEPT !.retry = 1,
                     !.asked = IF "udp" \in x.handles THEN @ \cup {"request1"} ELSE @]
  <2>1. c' = ArmIfNone(y)
    BY <1>3 DEF ConnectGoesOn, SendOfflineWithRetry
  <2>2. /\ x \in Client /\ x.connect = "waiting"
        /\ x.timers = c.timers \cup {"connect"}
        /\ x.listening = c.listening \cup {"connect"}
        /\ x.init = c.init /\ x.handles = c.handles /\ x.closed = c.closed
        /\ x.status = c.status /\ x.send = c.send /\ x.told = c.told /\ x.left = c.left
        /\ x.asked = c.asked /\ x.requests = c.requests /\ x.accepted = c.accepted
    <3>1. PICK T \in SUBSET Timer, L \in SUBSET Listener :
            T = c.timers \cup {"connect"} /\ L = c.listening \cup {"connect"}
      BY <1>1 DEF Client, Timer, Listener
    <3>2. x = [c EXCEPT !.connect = "waiting", !.timers = T, !.listening = L]
      BY <3>1
    <3> HIDE DEF x
    <3> QED
      BY <1>1, <3>1, <3>2 DEF Client, Settling
  <2> HIDE DEF x
  <2>3. /\ y \in Client /\ y.connect = "waiting"
        /\ y.timers = x.timers /\ y.listening = x.listening
        /\ y.init = x.init /\ y.handles = x.handles /\ y.closed = x.closed
        /\ y.status = x.status /\ y.send = x.send /\ y.told = x.told /\ y.left = x.left
        /\ y.requests = x.requests /\ y.accepted = x.accepted
    <3>1. PICK A \in SUBSET Request :
            A = IF "udp" \in x.handles THEN x.asked \cup {"request1"} ELSE x.asked
      BY <2>2 DEF Client, Request
    <3>2. y = [x EXCEPT !.retry = 1, !.asked = A]
      BY <2>2, <3>1 DEF Client
    <3> HIDE DEF y
    <3> QED
      BY <2>2, <3>1, <3>2 DEF Client
  <2> HIDE DEF y
  <2>4. Ended(y) /\ Bound(y)
    BY <1>1, <1>2, <1>3, <2>2, <2>3 DEF Ended, Bound
  <2>5. Asking(y) /\ Reported(y)
    BY <1>1, <1>2, <2>2, <2>3 DEF Asking, Reported
  <2>6. Goes(c, y)
    BY <1>1, <2>2, <2>3, <2>4, <2>5 DEF Goes, Sound, Ended, StaysClosed
  <2>7. Goes(y, ArmIfNone(y))
    BY <2>3, TimersSame, SameGoes
  <2> QED
    BY <2>1, <2>6, <2>7, GoesOn
<1>4. CASE c.init = "failed"
  <2> DEFINE y == [c EXCEPT !.connect = "rejected"]
  <2>1. c' = y /\ c.closed
    BY <1>1, <1>4 DEF ConnectGoesOn, Ended
  <2>2. /\ y \in Client /\ y.connect = "rejected"
        /\ y.timers = c.timers /\ y.listening = c.listening
        /\ y.init = c.init /\ y.handles = c.handles /\ y.closed = c.closed
        /\ y.status = c.status /\ y.send = c.send /\ y.told = c.told /\ y.left = c.left
        /\ y.asked = c.asked /\ y.requests = c.requests /\ y.accepted = c.accepted
    BY <1>1 DEF Client, Settling
  <2> HIDE DEF y
  <2>3. Ended(y) /\ Bound(y)
    BY <1>1, <2>1, <2>2 DEF Ended, Bound
  <2>4. Asking(y) /\ Reported(y)
    BY <1>1, <1>2, <2>2 DEF Asking, Reported
  <2> QED
    BY <1>1, <2>1, <2>2, <2>3, <2>4 DEF Goes, Sound, Ended, StaysClosed
<1> QED
  BY <1>3, <1>4 DEF ConnectGoesOn

LEMMA PingGoesOnGoes ==
  ASSUME ClientInv, PingGoesOn
  PROVE  Goes(c, c')
<1>1. c \in Client
  BY DEF ClientInv, Sound
<1>2. PICK A \in SUBSET Request, L \in SUBSET Listener, p \in Answering :
        /\ A \in {c.asked, c.asked \cup {"ping"}}
        /\ L \in {c.listening, c.listening \cup {"ping"}}
        /\ c' = [c EXCEPT !.ping = p, !.listening = L, !.asked = A]
  <2>1. /\ c.asked \in SUBSET Request /\ c.asked \cup {"ping"} \in SUBSET Request
        /\ c.listening \in SUBSET Listener /\ c.listening \cup {"ping"} \in SUBSET Listener
        /\ {"waiting", "rejected"} \subseteq Answering
    BY <1>1 DEF Client, Request, Listener, Answering
  <2>2. CASE c.init = "bound" /\ c.handles # {}
    <3>1. c' = [c EXCEPT !.ping = "waiting", !.listening = c.listening \cup {"ping"},
                         !.asked = c.asked \cup {"ping"}]
      BY <1>1, <2>2 DEF PingGoesOn, Client
    <3> QED
      BY <2>1, <3>1
  <2>3. CASE c.init = "bound" /\ c.handles = {}
    <3>1. PICK p \in Answering : p = IF c.closed THEN "rejected" ELSE "waiting"
      BY <2>1
    <3>2. c' = [c EXCEPT !.ping = p, !.listening = c.listening \cup {"ping"},
                         !.asked = c.asked]
      BY <1>1, <2>3, <3>1 DEF PingGoesOn, Client
    <3> QED
      BY <2>1, <3>2
  <2>4. CASE c.init = "failed"
    <3>1. c' = [c EXCEPT !.ping = "rejected", !.listening = c.listening,
                         !.asked = c.asked]
      BY <1>1, <2>4 DEF PingGoesOn, Client
    <3> QED
      BY <2>1, <3>1
  <2> QED
    BY <2>2, <2>3, <2>4 DEF PingGoesOn
<1>3. Same(c, c')
  BY <1>1, <1>2 DEF Same, Client
<1> QED
  BY <1>3, SameGoes

\* The timeout of connect() closes the client, and only its promise tells.
LEMMA ConnectTimeoutGoes ==
  ASSUME ClientInv, ConnectTimeout
  PROVE  Goes(c, c')
<1>1. c \in Client /\ Ended(c) /\ Bound(c) /\ Asking(c) /\ Reported(c)
  BY DEF ClientInv, Sound
<1>2. c.connect = "waiting" /\ "connect" \notin c.told /\ c.init = "bound"
  BY <1>1 DEF ConnectTimeout, Asking, Bound
<1> DEFINE x == Fire(c, "connect")
           y == Settle(x, "rejected")
           z == [y EXCEPT !.status = "Disconnected"]
<1>3. /\ x \in Client /\ x.timers = c.timers \ {"connect"} /\ x.listening = c.listening
      /\ x.init = c.init /\ x.handles = c.handles /\ x.closed = c.closed
      /\ x.connect = c.connect /\ x.status = c.status /\ x.send = c.send
      /\ x.told = c.told /\ x.left = c.left /\ x.asked = c.asked
      /\ x.requests = c.requests /\ x.accepted = c.accepted
  BY <1>1 DEF Fire, Client
<1> HIDE DEF x
<1>4. /\ y \in Client /\ y.connect = "rejected"
      /\ y.timers = x.timers \ {"connect"} /\ y.listening = x.listening \ {"connect"}
      /\ y.init = x.init /\ y.handles = x.handles /\ y.closed = x.closed
      /\ y.told = x.told /\ y.status = x.status /\ y.send = x.send
      /\ y.left = x.left /\ y.asked = x.asked /\ y.requests = x.requests
      /\ y.accepted = x.accepted
  BY <1>2, <1>3, SettleDoes
<1> HIDE DEF y
<1>5. /\ z \in Client /\ z.connect = "rejected" /\ z.status = "Disconnected"
      /\ z.timers = y.timers /\ z.listening = y.listening
      /\ z.init = y.init /\ z.handles = y.handles /\ z.closed = y.closed
      /\ z.told = y.told /\ z.send = y.send /\ z.left = y.left /\ z.asked = y.asked
      /\ z.requests = y.requests /\ z.accepted = y.accepted
  BY <1>4 DEF Client
<1> HIDE DEF z
<1>6. Bound(z) /\ Asking(z)
  BY <1>1, <1>2, <1>3, <1>4, <1>5 DEF Bound, Asking
<1>7. z.closed => Sound(z)
  <2> SUFFICES ASSUME z.closed
               PROVE  Ended(z) /\ Reported(z)
    BY <1>5, <1>6 DEF Sound
  <2> QED
    BY <1>1, <1>2, <1>3, <1>4, <1>5 DEF Ended, Reported
<1>8. "connect" \notin z.told /\ z.init = "bound"
  BY <1>2, <1>3, <1>4, <1>5
<1>9. Sound(Close(z)) /\ Close(z).closed
  BY <1>5, <1>6, <1>7, <1>8, CloseIsSound
<1>10. z.closed => Close(z) = z
  BY DEF Close
<1>11. StaysClosed(c, Close(z))
  BY <1>1, <1>3, <1>4, <1>5, <1>9, <1>10 DEF StaysClosed, Sound, Ended
<1>12. c' = Close(z)
  BY DEF ConnectTimeout, x, y, z
<1> QED
  BY <1>9, <1>11, <1>12 DEF Goes

\* The user leaves: with close(), or with disconnect(), which closes later.
LEMMA UserClosesGoes ==
  ASSUME ~EarlyClose, ClientInv, UserCloses
  PROVE  Goes(c, c')
<1>1. c \in Client /\ Ended(c) /\ Bound(c) /\ Asking(c) /\ Reported(c)
  BY DEF ClientInv, Sound
<1>2. ~c.closed /\ c.init = "bound"
  BY <1>1 DEF UserCloses, MayLeave, Ended
<1> DEFINE y == [c EXCEPT !.left = TRUE]
<1>3. /\ y \in Client /\ y.left /\ y.timers = c.timers /\ y.listening = c.listening
      /\ y.init = c.init /\ y.handles = c.handles /\ y.closed = c.closed
      /\ y.connect = c.connect /\ y.status = c.status /\ y.send = c.send
      /\ y.told = c.told /\ y.asked = c.asked
      /\ y.requests = c.requests /\ y.accepted = c.accepted
  BY <1>1 DEF Client
<1> HIDE DEF y
<1>4. Bound(y) /\ Asking(y)
  BY <1>1, <1>2, <1>3 DEF Bound, Asking
<1>5. Sound(Close(y))
  BY <1>2, <1>3, <1>4, CloseIsSound
<1>6. c' = Close(y)
  BY DEF UserCloses, y
<1> QED
  BY <1>2, <1>5, <1>6 DEF Goes, StaysClosed

LEMMA UserDisconnectsGoes ==
  ASSUME ~EarlyClose, ClientInv, UserDisconnects
  PROVE  Goes(c, c')
<1>1. c \in Client /\ Sound(c)
  BY DEF ClientInv, Sound
<1> DEFINE x == FrameAndSend(c)
           y == [x EXCEPT !.left = TRUE, !.timers = @ \cup {"disconnect"}]
<1>2. Same(c, x) /\ Goes(c, x)
  BY <1>1, TimersSame, SameGoes
<1> HIDE DEF x
<1>3. x \in Client /\ Ended(x) /\ Bound(x) /\ Asking(x) /\ Reported(x)
  BY <1>1, <1>2 DEF Goes, Sound
<1>4. x.init \in {"bound", "failed"}
  BY <1>2 DEF UserDisconnects, MayLeave, Same
<1>5. /\ y \in Client /\ y.left /\ y.timers = x.timers \cup {"disconnect"}
      /\ y.listening = x.listening
      /\ y.init = x.init /\ y.handles = x.handles /\ y.closed = x.closed
      /\ y.connect = x.connect /\ y.status = x.status /\ y.send = x.send
      /\ y.told = x.told /\ y.asked = x.asked
      /\ y.requests = x.requests /\ y.accepted = x.accepted
  <2>1. PICK T \in SUBSET Timer : T = x.timers \cup {"disconnect"}
    BY <1>3 DEF Client, Timer
  <2>2. y = [x EXCEPT !.left = TRUE, !.timers = T]
    BY <1>3, <2>1 DEF Client
  <2> HIDE DEF y
  <2> QED
    BY <1>3, <2>1, <2>2 DEF Client
<1>6. c' = y
  BY DEF UserDisconnects, x
<1> HIDE DEF y
<1>7. Ended(y) /\ Bound(y)
  BY <1>3, <1>4, <1>5 DEF Ended, Bound
<1>8. Asking(y) /\ Reported(y)
  BY <1>3, <1>5 DEF Asking, Reported
<1>9. Goes(x, y)
  BY <1>3, <1>5, <1>7, <1>8 DEF Goes, Sound, Ended, StaysClosed
<1> QED
  BY <1>2, <1>6, <1>9, GoesOn

LEMMA DisconnectTimerGoes ==
  ASSUME ClientInv, DisconnectTimer
  PROVE  Goes(c, c')
<1>1. c \in Client /\ Ended(c) /\ Bound(c) /\ Asking(c) /\ Reported(c)
  BY DEF ClientInv, Sound
<1>2. c.left /\ c.init \in {"bound", "failed"}
  BY <1>1 DEF DisconnectTimer, Bound
<1> DEFINE x == Fire(c, "disconnect")
           y == Close(x)
           z == [y EXCEPT !.told = @ \cup {"disconnect"}]
<1>3. /\ x \in Client /\ x.timers = c.timers \ {"disconnect"} /\ x.listening = c.listening
      /\ x.init = c.init /\ x.handles = c.handles /\ x.closed = c.closed
      /\ x.connect = c.connect /\ x.status = c.status /\ x.send = c.send
      /\ x.told = c.told /\ x.left = c.left /\ x.asked = c.asked
      /\ x.requests = c.requests /\ x.accepted = c.accepted
  BY <1>1 DEF Fire, Client
<1> HIDE DEF x
<1>4. Sound(x) /\ StaysClosed(c, x)
  <2>1. Ended(x) /\ Bound(x)
    BY <1>1, <1>3 DEF Ended, Bound
  <2>2. Asking(x) /\ Reported(x)
    BY <1>1, <1>3 DEF Asking, Reported
  <2> QED
    BY <1>1, <1>3, <2>1, <2>2 DEF Sound, Ended, StaysClosed
<1>5. Sound(y) /\ y.closed
  <2>1. x.init = "bound" \/ (x.init = "failed" /\ x.handles = {})
    BY <1>1, <1>2, <1>3 DEF Ended
  <2>2. Bound(x) /\ Asking(x)
    BY <1>4 DEF Sound
  <2> QED
    BY <1>2, <1>3, <1>4, <2>1, <2>2, CloseIsSound
<1>6. c.closed => y = x
  BY <1>3 DEF Close
<1>7. c' = z
  BY DEF DisconnectTimer, x
<1> HIDE DEF y
<1>8. y \in Client
  BY <1>5 DEF Sound
<1>9. /\ z \in Client /\ z.told = y.told \cup {"disconnect"}
      /\ z.timers = y.timers /\ z.listening = y.listening
      /\ z.init = y.init /\ z.handles = y.handles /\ z.closed = y.closed
      /\ z.connect = y.connect /\ z.status = y.status /\ z.send = y.send
      /\ z.left = y.left /\ z.asked = y.asked
      /\ z.requests = y.requests /\ z.accepted = y.accepted
  <2>1. PICK T \in SUBSET Event : T = y.told \cup {"disconnect"}
    BY <1>8 DEF Client, Event
  <2>2. z = [y EXCEPT !.told = T]
    BY <1>8, <2>1 DEF Client
  <2> HIDE DEF z
  <2> QED
    BY <1>8, <2>1, <2>2 DEF Client
<1> HIDE DEF z
<1>10. Ended(z) /\ Bound(z)
  BY <1>5, <1>9 DEF Sound, Ended, Bound
<1>11. Asking(z) /\ Reported(z)
  BY <1>5, <1>9 DEF Sound, Asking, Reported
<1>12. StaysClosed(c, z)
  BY <1>1, <1>3, <1>5, <1>6, <1>9 DEF Sound, Ended, StaysClosed
<1> QED
  BY <1>7, <1>9, <1>10, <1>11, <1>12 DEF Goes, Sound

-------------------------------------------------------------------------------
(* Datagrams *)

\* Only a client that is open hears one.
LEMMA HearsOpen ==
  ASSUME ClientInv, Hears
  PROVE  /\ c \in Client /\ Sound(c) /\ ~c.closed /\ c.init = "bound"
         /\ "constructor" \in c.listening
BY DEF ClientInv, Sound, Ended, Hears

\* Datagrams that change nothing but a timer or the promise of ping().
LEMMA QuietGoes ==
  ASSUME ClientInv, Pong \/ GamePacket \/ AckForAll
  PROVE  Goes(c, c')
<1>1. c \in Client
  BY DEF ClientInv, Sound
<1>2. CASE Pong
  <2> DEFINE x == ClearOfflineRetry(c)
             y == [x EXCEPT !.ping = "answered", !.listening = @ \ {"ping"}]
  <2>1. Same(c, x)
    BY <1>1, TimersSame
  <2>2. c' \in {x, y}
    BY <1>2 DEF Pong
  <2>3. x \in Client
    BY <2>1 DEF Same
  <2> HIDE DEF x
  <2>4. Same(x, y)
    BY <2>3 DEF Same, Client, Answering
  <2> HIDE DEF y
  <2>5. Same(c, y)
    BY <2>1, <2>4, SameOfSame
  <2> QED
    BY <2>1, <2>2, <2>5, SameGoes
<1>3. CASE GamePacket
  BY <1>1, <1>3, TimersSame, SameGoes DEF GamePacket
<1>4. CASE AckForAll
  <2> DEFINE x == [c EXCEPT !.unacked = FALSE]
  <2>1. Same(c, x)
    BY <1>1 DEF Same, Client
  <2>2. x \in Client /\ c' = Disarm(x)
    BY <1>4, <2>1 DEF AckForAll, Same
  <2> HIDE DEF x
  <2>3. Same(x, Disarm(x))
    BY <2>2, TimersSame
  <2> QED
    BY <2>1, <2>2, <2>3, SameOfSame, SameGoes
<1> QED
  BY <1>2, <1>3, <1>4

\* The replies of the offline handshake go on with it.
LEMMA RepliesGo ==
  ASSUME ClientInv, Reply1 \/ Reply2
  PROVE  Goes(c, c')
<1>1. /\ c \in Client /\ Sound(c) /\ ~c.closed /\ c.init = "bound"
      /\ "constructor" \in c.listening
  BY HearsOpen DEF Reply1, Reply2
<1> DEFINE x == ClearOfflineRetry(c)
<1>2. Same(c, x) /\ Goes(c, x)
  BY <1>1, TimersSame, SameGoes
<1>3. x \in Client /\ Ended(x) /\ Bound(x) /\ Asking(x) /\ Reported(x)
  BY <1>1, <1>2 DEF Goes, Sound
<1>4. c.connect \notin {"idle", "binding"}
  BY <1>1 DEF Reply1, Reply2, Sound, Asking
<1>5. x.connect \notin {"idle", "binding"} /\ ~x.closed /\ x.init = "bound"
  BY <1>1, <1>2, <1>4 DEF Same
<1>6. CASE Reply1
  <2> DEFINE y == [x EXCEPT !.retry = 1,
                     !.asked = IF "udp" \in x.handles THEN @ \cup {"request2"} ELSE @]
  <2>1. c' = ArmIfNone(y)
    BY <1>6 DEF Reply1, SendOfflineWithRetry
  <2> HIDE DEF x
  <2>2. /\ y \in Client /\ y.connect = x.connect
        /\ y.timers = x.timers /\ y.listening = x.listening
        /\ y.init = x.init /\ y.handles = x.handles /\ y.closed = x.closed
        /\ y.status = x.status /\ y.send = x.send /\ y.told = x.told /\ y.left = x.left
        /\ y.requests = x.requests /\ y.accepted = x.accepted
    <3>1. PICK A \in SUBSET Request :
            A = IF "udp" \in x.handles THEN x.asked \cup {"request2"} ELSE x.asked
      BY <1>3 DEF Client, Request
    <3>2. y = [x EXCEPT !.retry = 1, !.asked = A]
      BY <1>3, <3>1 DEF Client
    <3> HIDE DEF y
    <3> QED
      BY <1>3, <3>1, <3>2 DEF Client
  <2> HIDE DEF y
  <2>3. Ended(y) /\ Bound(y)
    BY <1>3, <2>2 DEF Ended, Bound
  <2>4. Asking(y) /\ Reported(y)
    BY <1>3, <1>5, <2>2 DEF Asking, Reported
  <2>5. Goes(x, y)
    BY <1>5, <2>2, <2>3, <2>4 DEF Goes, Sound, StaysClosed
  <2>6. Goes(y, ArmIfNone(y))
    BY <2>2, TimersSame, SameGoes
  <2> QED
    BY <1>2, <2>1, <2>5, <2>6, GoesOn
<1>7. CASE Reply2
  <2> DEFINE y == [x EXCEPT !.status = "Connecting", !.requests = @ + 1]
  <2>1. c' = FrameAndSend(y)
    BY <1>7 DEF Reply2
  <2> HIDE DEF x
  <2>2. /\ y \in Client /\ y.connect = x.connect /\ y.status = "Connecting"
        /\ y.timers = x.timers /\ y.listening = x.listening
        /\ y.init = x.init /\ y.handles = x.handles /\ y.closed = x.closed
        /\ y.send = x.send /\ y.told = x.told /\ y.left = x.left
        /\ y.asked = x.asked /\ y.requests = x.requests + 1 /\ y.accepted = x.accepted
    <3>1. PICK n \in Nat : n = x.requests + 1
      BY <1>3 DEF Client
    <3>2. y = [x EXCEPT !.status = "Connecting", !.requests = n]
      BY <3>1
    <3> HIDE DEF y
    <3> QED
      BY <1>3, <3>1, <3>2 DEF Client
  <2>3. x.requests \in Nat /\ x.accepted \in Nat
    BY <1>3 DEF Client
  <2> HIDE DEF y
  <2>4. Ended(y) /\ Bound(y)
    BY <1>3, <1>5, <2>2 DEF Ended, Bound
  <2>5. Asking(y) /\ Reported(y)
    BY <1>3, <1>5, <2>2, <2>3 DEF Asking, Reported
  <2>6. Goes(x, y)
    BY <1>5, <2>2, <2>4, <2>5 DEF Goes, Sound, StaysClosed
  <2>7. Goes(y, FrameAndSend(y))
    BY <2>2, TimersSame, SameGoes
  <2> QED
    BY <1>2, <2>1, <2>6, <2>7, GoesOn
<1> QED
  BY <1>6, <1>7

\* The replies that end the client.
LEMMA RefusalsGo ==
  ASSUME ClientInv,
         AlreadyConnected \/ IncompatibleProtocolVersion \/ DisconnectionNotification
  PROVE  Goes(c, c')
<1>1. /\ c \in Client /\ Sound(c) /\ ~c.closed /\ c.init = "bound"
      /\ "constructor" \in c.listening
  BY HearsOpen DEF AlreadyConnected, IncompatibleProtocolVersion, DisconnectionNotification
<1> DEFINE x == ClearOfflineRetry(c)
<1>2. Same(c, x) /\ Goes(c, x)
  BY <1>1, TimersSame, SameGoes
<1>3. Sound(x) /\ Closable(x) /\ Closable(c)
  BY <1>1, <1>2 DEF Goes, Same, Closable
<1>4. CASE AlreadyConnected
  <2>1. c' = EmitDisconnect(Down(x))
    BY <1>4 DEF AlreadyConnected, Down
  <2> HIDE DEF x
  <2> QED
    BY <1>2, <1>3, <2>1, EmitDisconnectGoes, GoesOn
<1>5. CASE IncompatibleProtocolVersion
  <2>1. c' = EmitError(Down(x))
    BY <1>5 DEF IncompatibleProtocolVersion, Down
  <2> HIDE DEF x
  <2> QED
    BY <1>2, <1>3, <2>1, EmitErrorGoes, GoesOn
<1>6. CASE DisconnectionNotification
  <2> DEFINE y == EmitDisconnect(Down(c))
  <2>1. c' = ArmAck(y)
    BY <1>6 DEF DisconnectionNotification, Down
  <2>2. Goes(c, y)
    BY <1>1, <1>3, EmitDisconnectGoes
  <2> HIDE DEF y
  <2>3. Goes(y, ArmAck(y))
    BY <1>1, <2>2, TimersSame, SameGoes DEF Goes, Sound
  <2> QED
    BY <2>1, <2>2, <2>3, GoesOn
<1> QED
  BY <1>4, <1>5, <1>6

\* The connection: connect() has been called, so its promise is settled now or
\* was before, and its timeout is gone.
LEMMA AcceptedGoes ==
  ASSUME ClientInv, ConnectionRequestAccepted
  PROVE  Goes(c, c')
<1>1. /\ c \in Client /\ Sound(c) /\ ~c.closed /\ c.init = "bound"
      /\ "constructor" \in c.listening
  BY HearsOpen DEF ConnectionRequestAccepted
<1> DEFINE w == FrameAndSend(c)
           x == [w EXCEPT !.status = "Connected", !.accepted = @ + 1]
           t == Tell(x, "connect")
           y == EmitConnect(x)
<1>2. Same(c, w) /\ Goes(c, w)
  BY <1>1, TimersSame, SameGoes
<1> HIDE DEF w
<1>3. w \in Client /\ Ended(w) /\ Bound(w) /\ Asking(w)
  BY <1>1, <1>2 DEF Goes, Sound
<1>4. /\ ~w.closed /\ w.init = "bound" /\ "constructor" \in w.listening
      /\ w.accepted < w.requests
  BY <1>1, <1>2 DEF Same, ConnectionRequestAccepted
<1>5. w.connect \in {"waiting", "resolved"}
  <2>1. w.requests \in Nat /\ w.accepted \in Nat /\ w.connect \in Settling
    BY <1>3 DEF Client
  <2> QED
    BY <1>3, <1>4, <2>1 DEF Asking, Ended, Settling
<1>6. /\ x \in Client /\ x.status = "Connected" /\ x.accepted = w.accepted + 1
      /\ x.timers = w.timers /\ x.listening = w.listening
      /\ x.init = w.init /\ x.handles = w.handles /\ x.closed = w.closed
      /\ x.connect = w.connect /\ x.send = w.send /\ x.told = w.told
      /\ x.left = w.left /\ x.asked = w.asked /\ x.requests = w.requests
  <2>1. PICK n \in Nat : n = w.accepted + 1
    BY <1>3 DEF Client
  <2>2. x = [w EXCEPT !.status = "Connected", !.accepted = n]
    BY <2>1
  <2> HIDE DEF x
  <2> QED
    BY <1>3, <2>1, <2>2 DEF Client
<1> HIDE DEF x
<1>7. "connect" \in Event
  BY DEF Event
<1>8. /\ t \in Client /\ t.told = x.told \cup {"connect"}
      /\ t.init = x.init /\ t.handles = x.handles /\ t.closed = x.closed
      /\ t.connect = x.connect /\ t.status = x.status /\ t.send = x.send
      /\ t.left = x.left /\ t.asked = x.asked /\ t.requests = x.requests
      /\ t.accepted = x.accepted /\ t.timers = x.timers /\ t.listening = x.listening
  BY <1>4, <1>6, <1>7, TellDoes
<1>9. y = IF "connect" \in x.listening THEN Settle(t, "resolved") ELSE t
  BY DEF EmitConnect
<1> HIDE DEF t, y
<1>10. /\ y \in Client /\ y.connect = "resolved" /\ y.told = t.told
       /\ "connect" \notin y.timers
       /\ "disconnect" \in y.timers <=> "disconnect" \in t.timers
       /\ "constructor" \in y.listening
       /\ y.init = t.init /\ y.handles = t.handles /\ y.closed = t.closed
       /\ y.status = t.status /\ y.send = t.send
       /\ y.left = t.left /\ y.asked = t.asked /\ y.requests = t.requests
       /\ y.accepted = t.accepted
  <2>1. CASE "connect" \in x.listening
    <3>1. y = Settle(t, "resolved")
      BY <1>9, <2>1
    <3>2. /\ y \in Client
          /\ y.connect = IF t.connect = "waiting" THEN "resolved" ELSE t.connect
          /\ y.timers = t.timers \ {"connect"} /\ y.listening = t.listening \ {"connect"}
          /\ y.init = t.init /\ y.handles = t.handles /\ y.closed = t.closed
          /\ y.told = t.told /\ y.status = t.status /\ y.send = t.send
          /\ y.left = t.left /\ y.asked = t.asked /\ y.requests = t.requests
          /\ y.accepted = t.accepted
      BY <1>8, <3>1, SettleDoes
    <3> QED
      BY <1>4, <1>5, <1>6, <1>8, <3>2
  <2>2. CASE "connect" \notin x.listening
    <3>1. y = t
      BY <1>9, <2>2
    <3>2. t.connect = "resolved" /\ "connect" \notin t.timers
      BY <1>3, <1>4, <1>5, <1>6, <1>8, <2>2 DEF Bound, Asking
    <3> QED
      BY <1>4, <1>6, <1>8, <3>1, <3>2
  <2> QED
    BY <2>1, <2>2
<1>11. Ended(y) /\ Bound(y)
  BY <1>3, <1>4, <1>6, <1>8, <1>10 DEF Ended, Bound
<1>12. Asking(y) /\ Reported(y)
  <2>1. w.requests \in Nat /\ w.accepted \in Nat
    BY <1>3 DEF Client
  <2>2. y.accepted <= y.requests
    BY <1>4, <1>6, <1>8, <1>10, <2>1
  <2> QED
    BY <1>3, <1>6, <1>8, <1>10, <2>2 DEF Asking, Reported
<1>13. Goes(c, y)
  BY <1>1, <1>10, <1>11, <1>12 DEF Goes, Sound, StaysClosed
<1>14. Goes(y, ArmAck(y))
  BY <1>10, TimersSame, SameGoes
<1>15. c' = ArmAck(y)
  BY DEF ConnectionRequestAccepted, w, x, y
<1> QED
  BY <1>13, <1>14, <1>15, GoesOn

-------------------------------------------------------------------------------
(* The specification *)

LEMMA InitIsSound == Init => ClientInv
<1> SUFFICES ASSUME Init
             PROVE  ClientInv
  OBVIOUS
<1>1. /\ c \in Client /\ c.init = "none" /\ c.handles = {} /\ ~c.closed
      /\ c.connect = "idle" /\ c.timers = {"keepalive"} /\ c.status = "Disconnected"
      /\ c.send = "unset" /\ c.listening = {"constructor"} /\ c.asked = {}
      /\ c.requests = 0 /\ c.accepted = 0 /\ c.told = {} /\ c.left = FALSE
  BY FlagAssumption
  DEF Init, Client, Stage, Settling, Answering, Timer, SessionTimers, Listener,
      Request, Event
<1>2. Ended(c) /\ Bound(c)
  BY <1>1 DEF Ended, Bound
<1>3. Asking(c) /\ Reported(c)
  BY <1>1 DEF Asking, Reported
<1> QED
  BY <1>1, <1>2, <1>3 DEF ClientInv, Sound

\* Every step keeps a sound client sound and a closed one closed.
LEMMA StepGoes ==
  ASSUME ~EarlyClose, ClientInv, [Next]_vars
  PROVE  ClientInv' /\ StaysClosed(c, c')
<1>1. ASSUME Goes(c, c')
      PROVE  ClientInv' /\ StaysClosed(c, c')
  <2>1. Sound(c') /\ StaysClosed(c, c')
    BY <1>1 DEF Goes, ClientInv
  <2>2. Sound(c') => ClientInv'
    BY DEF ClientInv, Sound, Ended, Bound, Asking, Reported
  <2> QED
    BY <2>1, <2>2
<1>2. CASE \E stale, due \in BOOLEAN :
             KeepaliveTick(stale, due) \/ RetransmitTick(stale, due) \/ AckTick(stale, due)
  BY <1>1, <1>2, TimersGo
<1>3. CASE Lookup \/ Listening \/ ProxyStep \/ ProxyFails \/ ProxyHangsUp
  BY <1>1, <1>3, BindingGoes
<1>4. CASE Connect \/ Ping
  BY <1>1, <1>4, BeginsGoes
<1>5. CASE ConnectGoesOn
  BY <1>1, <1>5, ConnectGoesOnGoes
<1>6. CASE ConnectTimeout
  BY <1>1, <1>6, ConnectTimeoutGoes
<1>7. CASE PingGoesOn
  BY <1>1, <1>7, PingGoesOnGoes
<1>8. CASE UserCloses
  BY <1>1, <1>8, UserClosesGoes
<1>9. CASE UserDisconnects
  BY <1>1, <1>9, UserDisconnectsGoes
<1>10. CASE DisconnectTimer
  BY <1>1, <1>10, DisconnectTimerGoes
<1>11. CASE Pong \/ GamePacket \/ AckForAll
  BY <1>1, <1>11, QuietGoes
<1>12. CASE Reply1 \/ Reply2
  BY <1>1, <1>12, RepliesGo
<1>13. CASE AlreadyConnected \/ IncompatibleProtocolVersion \/ DisconnectionNotification
  BY <1>1, <1>13, RefusalsGo
<1>14. CASE ConnectionRequestAccepted
  BY <1>1, <1>14, AcceptedGoes
<1>15. CASE ServerGoesSilent \/ UNCHANGED vars
  <2>1. c' = c
    BY <1>15 DEF ServerGoesSilent, vars
  <2>2. Goes(c, c)
    BY DEF Goes, Sound, Ended, StaysClosed
  <2> QED
    BY <1>1, <2>1, <2>2
<1> QED
  BY <1>2, <1>3, <1>4, <1>5, <1>6, <1>7, <1>8, <1>9, <1>10, <1>11, <1>12, <1>13,
     <1>14, <1>15 DEF Next

LEMMA AlwaysSound == ~EarlyClose => (Spec => []ClientInv)
<1>1. SUFFICES ASSUME ~EarlyClose
               PROVE  Spec => []ClientInv
  OBVIOUS
<1>2. Init => ClientInv
  BY InitIsSound
<1>3. ClientInv /\ [Next]_vars => ClientInv'
  BY <1>1, StepGoes
<1> QED
  BY <1>2, <1>3, PTL DEF Spec

-------------------------------------------------------------------------------
(* The theorems *)

\* A client that was closed, by anything, a bindPromise that failed and a
\* connect() that was rejected leave no TCP or UDP handle of theirs open, unless
\* the user closes before the socket is bound: then the code leaves one.
THEOREM EndReleasesTheSocket == ~EarlyClose => (Spec => []SocketReleased)
<1>1. ClientInv => SocketReleased
  BY DEF ClientInv, Sound, Ended, SocketReleased
<1>2. SUFFICES ASSUME ~EarlyClose
               PROVE  Spec => []SocketReleased
  OBVIOUS
<1>3. Spec => []ClientInv
  BY <1>2, AlwaysSound
<1> QED
  BY <1>1, <1>3, PTL

\* An established connection that ends without the user having asked for it is
\* reported to the user, whichever timer or datagram ended it.
THEOREM LossIsReported == ~EarlyClose => (Spec => []LossReported)
<1>1. ClientInv => LossReported
  BY DEF ClientInv, Sound, Reported, LossReported
<1>2. SUFFICES ASSUME ~EarlyClose
               PROVE  Spec => []LossReported
  OBVIOUS
<1>3. Spec => []ClientInv
  BY <1>2, AlwaysSound
<1> QED
  BY <1>1, <1>3, PTL

\* After close() no late datagram and no timer changes the status, opens a
\* handle or reports a connection.
THEOREM NothingReopens == ~EarlyClose => (Spec => ClosedForGood)
<1>1. SUFFICES ASSUME ~EarlyClose
               PROVE  Spec => ClosedForGood
  OBVIOUS
<1> DEFINE stays == c.closed => /\ c'.closed /\ c'.status = "Disconnected"
                                /\ c'.handles \subseteq c.handles
                                /\ "connect" \in c'.told => "connect" \in c.told
<1>2. ClientInv /\ [Next]_vars => [stays]_vars
  BY <1>1, StepGoes DEF StaysClosed
<1>3. Spec => []ClientInv
  BY <1>1, AlwaysSound
<1> QED
  BY <1>2, <1>3, PTL DEF Spec, ClosedForGood
===============================================================================
