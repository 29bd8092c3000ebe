------------------------------- MODULE Datagrams -------------------------------
(***************************************************************************)
(* The bytes of a session in both directions: the frame sets it packs and, *)
(* for any set of them that the peer has received or misses, the           *)
(* acknowledgement the peer writes and the session reads.                  *)
(***************************************************************************)
EXTENDS FramePacking, Acknowledgement, FiniteSets

vars == <<packingVars, codecVars>>

Init == PackingInit /\ CodecInit

\* An Ack or a Nack of the peer for some of the frame sets on the wire.
PeerAcknowledges ==
  \E S \in SUBSET (0..(outputSequence - 1)) : Serialize(SetToSortSeq(S, <))

\* Nothing else runs in a process while one of its loops does.
Next ==
  \/ PackingNext /\ phase = "idle" /\ UNCHANGED codecVars
  \/ PeerAcknowledges /\ queue = <<>> /\ phase = "idle" /\ UNCHANGED packingVars
  \/ CodecStep /\ UNCHANGED packingVars

Spec == Init /\ [][Next]_vars
===============================================================================
