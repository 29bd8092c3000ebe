---------------------------- MODULE OrderedChannel ----------------------------
(***************************************************************************)
(* What a RakNet session promises the layers above it (the clients, the    *)
(* players and the bridge of packages/baltica): the payloads handed to     *)
(* frameAndSend at one end come out of the "encapsulated" event at the     *)
(* other end, each of them once, none invented and in the order in which   *)
(* they were sent.  How datagrams, frames, fragments, acknowledgements and *)
(* retransmissions achieve it is the business of RakReliability.           *)
(***************************************************************************)
EXTENDS Naturals, Sequences

CONSTANT Payload

VARIABLES sent, delivered

vars == <<sent, delivered>>

Init == sent = <<>> /\ delivered = <<>>

Send(p) ==
  /\ sent' = Append(sent, p)
  /\ UNCHANGED delivered

\* One network event may let several payloads through: those that waited
\* behind a gap are handed over in the same handler as the one that fills it.
Deliver(n) ==
  /\ n > Len(delivered)
  /\ delivered' = SubSeq(sent, 1, n)
  /\ UNCHANGED sent

Next ==
  \/ \E p \in Payload : Send(p)
  \/ \E n \in 1..Len(sent) : Deliver(n)

Spec == Init /\ [][Next]_vars
===============================================================================
