------------------------- MODULE RakReliabilityProofs -------------------------
(***************************************************************************)
(* Proofs about RakReliability, for every set of payloads, every size of   *)
(* the windows and every bound: the types, the inductive invariant behind  *)
(* in-order exactly-once delivery, and the refinement of OrderedChannel.   *)
(***************************************************************************)
EXTENDS RakReliability, TLAPS

\* The part of the assumption on the bounds that the proofs need.
LEMMA Bounds ==
  MaxFrames \in Nat /\ SplitIdSpace \in Nat \ {0} /\ MaxCompounds \in Nat
    /\ MaxCompounds <= SplitIdSpace
  BY BoundAssumption

Datagram == [sequence : Nat, frames : Seq(Frame)]

(***************************************************************************)
(* Maps                                                                    *)
(***************************************************************************)

\* Setting a key of a map of the receiver keeps its type.
LEMMA MapSetType ==
  ASSUME NEW S, NEW f, IsMap(f, S), NEW k \in Nat, NEW v \in S
  PROVE  /\ IsMap(MapSet(f, k, v), S)
         /\ DOMAIN MapSet(f, k, v) = DOMAIN f \cup {k}
         /\ MapSet(f, k, v)[k] = v
         /\ \A x \in DOMAIN f : x # k => MapSet(f, k, v)[x] = f[x]
  BY DEF IsMap, MapSet

\* Deleting keys of a map keeps its type and its other entries.
LEMMA RestrictType ==
  ASSUME NEW S, NEW f, IsMap(f, S), NEW D
  PROVE  /\ IsMap(Restrict(f, DOMAIN f \ D), S)
         /\ DOMAIN Restrict(f, DOMAIN f \ D) = DOMAIN f \ D
         /\ \A x \in DOMAIN f \ D : Restrict(f, DOMAIN f \ D)[x] = f[x]
  BY DEF IsMap, Restrict

(***************************************************************************)
(* What Send builds                                                        *)
(***************************************************************************)

\* A payload is cut into as many frames as it has chunks.
LEMMA FramesType ==
  ASSUME NEW p \in Payload, NEW order \in Nat, NEW reliable \in Nat, NEW id \in Nat
  PROVE  /\ Frames(p, order, reliable, id) \in Seq(Frame)
         /\ Len(Frames(p, order, reliable, id)) = Len(p)
         /\ Len(p) \in Nat \ {0}
<1>1. p \in Seq(Chunks) /\ Len(p) \in Nat \ {0}
  BY PayloadAssumption
<1>2. \A i \in 1..Len(p) : Frames(p, order, reliable, id)[i] \in Frame
  <2> SUFFICES ASSUME NEW i \in 1..Len(p)
               PROVE  Frames(p, order, reliable, id)[i] \in Frame
    OBVIOUS
  <2>1. p[i] \in Chunks
    BY <1>1
  <2>2. <<p[i]>> \in Seq(Chunks) \ {<<>>} /\ p \in Seq(Chunks) \ {<<>>}
    BY <1>1, <2>1, PayloadAssumption
  <2>3. reliable + (i - 1) \in Nat /\ i - 1 \in Nat
    BY <1>1
  <2> QED
    BY <1>1, <2>2, <2>3 DEF Frames, Frame
<1> QED
  BY <1>1, <1>2 DEF Frames

\* flush sends and keeps the batches it is given.
LEMMA FlushInto ==
  ASSUME TypeOK, NEW G, IsMap(outputBackup, G), NEW batches \in Seq(G)
  PROVE  /\ IsMap(Backup(batches), G)
         /\ Flushed(batches) \subseteq [sequence : Nat, frames : G]
         /\ outputSequence + Len(batches) \in Nat
         /\ \A s \in DOMAIN Backup(batches) : s < outputSequence + Len(batches)
<1>1. \A i \in 1..Len(batches) : batches[i] \in G /\ outputSequence + (i - 1) \in Nat
  BY DEF TypeOK
<1>2. IsMap(Backup(batches), G)
  <2>1. DOMAIN Backup(batches) \subseteq Nat
    BY <1>1 DEF Backup, TypeOK, IsMap
  <2>2. ASSUME NEW s \in DOMAIN Backup(batches)
        PROVE  Backup(batches)[s] \in G
    <3>1. CASE s < outputSequence
      BY <1>1, <3>1 DEF Backup, TypeOK, IsMap
    <3>2. CASE ~(s < outputSequence)
      <4>1. PICK i \in 1..Len(batches) : s = outputSequence + (i - 1)
        BY <3>2 DEF Backup, TypeOK
      <4> QED
        BY <1>1, <3>2, <4>1 DEF Backup, TypeOK
    <3> QED
      BY <3>1, <3>2
  <2> QED
    BY <2>1, <2>2 DEF IsMap
<1>3. Flushed(batches) \subseteq [sequence : Nat, frames : G]
  BY <1>1 DEF Flushed, FrameSet
<1>4. ASSUME NEW s \in DOMAIN Backup(batches)
      PROVE  s < outputSequence + Len(batches)
  BY <1>1 DEF Backup, TypeOK, IsMap
<1> QED
  BY <1>2, <1>3, <1>4 DEF TypeOK

\* What queueFrame leaves waiting and what it flushes before are the frames
\* that waited and the new ones.
LEMMA BatchesInto ==
  ASSUME NEW F, outputFrames \in Seq(F), NEW frames \in Seq(F), frames # <<>>,
         NEW fits \in BOOLEAN, NEW high \in BOOLEAN
  PROVE  /\ Rest(frames, fits) \in Seq(F)
         /\ Batches(frames, fits) \o (IF high THEN <<Rest(frames, fits)>> ELSE <<>>)
              \in Seq(Seq(F))
<1>1. frames[1] \in F /\ frames[Len(frames)] \in F
  OBVIOUS
<1>2. Rest(frames, fits) \in Seq(F)
  BY <1>1 DEF Rest
<1>3. Pending \in Seq(Seq(F))
  BY DEF Pending
<1>4. [i \in 1..(Len(frames) - 1) |-> <<frames[i]>>] \in Seq(Seq(F))
  <2>1. \A i \in 1..(Len(frames) - 1) : <<frames[i]>> \in Seq(F)
    OBVIOUS
  <2> QED
    BY <2>1
<1>5. Batches(frames, fits) \in Seq(Seq(F))
  BY <1>3, <1>4 DEF Batches
<1> QED
  BY <1>2, <1>5

(***************************************************************************)
(* The types                                                               *)
(***************************************************************************)

\* Two fresh sessions have well-typed fields.
LEMMA InitType == Init => TypeOK
  BY Bounds DEF Init, TypeOK, IsMap

\* frameAndSend keeps the types, with Priority.High and without, split or not.
LEMMA SendType ==
  ASSUME TypeOK, NEW p \in Payload, NEW fits \in BOOLEAN, NEW high \in BOOLEAN,
         Send(p, fits, high)
  PROVE  TypeOK'
<1> DEFINE id == SplitId(outputSplitIndex)
           frames == Frames(p, outputOrderIndex, outputReliableIndex, id)
           rest == Rest(frames, fits)
           batches == Batches(frames, fits) \o (IF high THEN <<rest>> ELSE <<>>)
<1>1. id \in Nat
  BY Bounds DEF SplitId, TypeOK
<1>2. /\ frames \in Seq(Frame) /\ frames # <<>>
      /\ Len(p) \in Nat \ {0}
  BY <1>1, FramesType DEF TypeOK
<1>3. rest \in Seq(Frame) /\ batches \in Seq(Seq(Frame))
  BY <1>2, BatchesInto DEF TypeOK
<1>4. /\ outputOrderIndex' \in Nat /\ outputReliableIndex' \in 0..MaxFrames
      /\ outputSplitIndex' \in 0..MaxCompounds /\ splitOwner' \in Seq(Nat)
      /\ sent' \in Seq(Payload)
  <2>1. /\ outputReliableIndex + Len(p) <= MaxFrames
        /\ Len(p) > 1 => outputSplitIndex < MaxCompounds
        /\ outputOrderIndex' = outputOrderIndex + 1
        /\ outputReliableIndex' = outputReliableIndex + Len(p)
        /\ IF Len(p) > 1
           THEN /\ outputSplitIndex' = outputSplitIndex + 1
                /\ splitOwner' = Append(splitOwner, outputOrderIndex)
           ELSE UNCHANGED <<outputSplitIndex, splitOwner>>
        /\ sent' = Append(sent, p)
    BY DEF Send, ReliableIndicesUsed
  <2>2. /\ outputOrderIndex \in Nat /\ outputReliableIndex \in 0..MaxFrames
        /\ outputSplitIndex \in 0..MaxCompounds /\ splitOwner \in Seq(Nat)
        /\ sent \in Seq(Payload)
    BY DEF TypeOK
  <2> HIDE DEF frames, rest, batches, id
  <2>3. sent' \in Seq(Payload)
    BY <2>1, <2>2
  <2>4. splitOwner' \in Seq(Nat) /\ outputSplitIndex' \in 0..MaxCompounds
    <3>1. CASE Len(p) > 1
      <4>1. /\ splitOwner' = Append(splitOwner, outputOrderIndex)
            /\ outputSplitIndex' = outputSplitIndex + 1
            /\ outputSplitIndex < MaxCompounds
        BY <2>1, <3>1, Zenon
      <4>2. splitOwner' \in Seq(Nat)
        BY <2>2, <4>1
      <4> QED
        BY <2>2, <4>1, <4>2, Bounds
    <3>2. CASE ~(Len(p) > 1)
      BY <2>1, <2>2, <3>2
    <3> QED
      BY <3>1, <3>2
  <2> QED
    BY <1>2, <2>1, <2>2, <2>3, <2>4, Bounds
<1>5. outputFrames' \in Seq(Frame)
  BY <1>3 DEF Send
<1>6. /\ IsMap(outputBackup', Seq(Frame)) /\ outputSequence' \in Nat
      /\ \A s \in DOMAIN outputBackup' : s < outputSequence'
      /\ toReceiver' \subseteq Datagram
  <2>1. /\ outputSequence' = outputSequence + Len(batches)
        /\ outputBackup' = Backup(batches)
        /\ toReceiver' = toReceiver \cup Flushed(batches)
    BY DEF Send, Flush
  <2> HIDE DEF batches
  <2> QED
    BY <1>3, <2>1, FlushInto DEF TypeOK, Datagram
<1> QED
  BY <1>4, <1>5, <1>6
  DEF TypeOK, Send, receiverVars, windowVars, reliableVars, orderVars, Datagram

\* The retransmitting half of tick keeps the types.
LEMMA SenderTickType ==
  ASSUME TypeOK, NEW due \in SUBSET DOMAIN outputBackup, SenderTick(due)
  PROVE  TypeOK'
<1>1. Pending \in Seq(Seq(Frame))
  BY DEF Pending, TypeOK
<1>2. {FrameSet(s, outputBackup[s]) : s \in due} \subseteq Datagram
  BY DEF TypeOK, IsMap, FrameSet, Datagram
<1>3. /\ outputSequence' = outputSequence + Len(Pending)
      /\ outputBackup' = Backup(Pending)
      /\ toReceiver' \subseteq Datagram
  BY <1>1, <1>2, FlushInto DEF SenderTick, Flush, TypeOK, Datagram
<1>4. /\ IsMap(outputBackup', Seq(Frame)) /\ outputSequence' \in Nat
      /\ \A s \in DOMAIN outputBackup' : s < outputSequence'
  BY <1>1, <1>3, FlushInto DEF TypeOK
<1> QED
  BY <1>3, <1>4
  DEF TypeOK, SenderTick, receiverVars, windowVars, reliableVars, orderVars, Datagram

\* onAck keeps the types: it only deletes from outputBackup.
LEMMA OnAckType ==
  ASSUME TypeOK, NEW m \in toSender, OnAck(m)
  PROVE  TypeOK'
<1>1. /\ IsMap(outputBackup', Seq(Frame))
      /\ \A s \in DOMAIN outputBackup' : s < outputSequence'
  BY RestrictType DEF OnAck, TypeOK
<1> QED
  BY <1>1 DEF TypeOK, OnAck, receiverVars, windowVars, reliableVars, orderVars

\* onNack keeps the types: what it resends comes from outputBackup.
LEMMA OnNackType ==
  ASSUME TypeOK, NEW m \in toSender, OnNack(m)
  PROVE  TypeOK'
<1>1. toReceiver' \subseteq Datagram
  BY DEF OnNack, TypeOK, IsMap, FrameSet, Datagram
<1> QED
  BY <1>1
  DEF TypeOK, OnNack, senderVars, receiverVars, windowVars, reliableVars, orderVars, Datagram

\* onFrameSet, up to its loop over the frames, keeps the types.
LEMMA OnFrameSetType ==
  ASSUME TypeOK, NEW m \in toReceiver, OnFrameSet(m)
  PROVE  TypeOK'
<1>1. m.sequence \in Nat /\ m.frames \in Seq(Frame)
  BY DEF TypeOK
<1>2. Gap(m.sequence) \subseteq Nat
  BY <1>1 DEF Gap, TypeOK
<1> QED
  BY <1>1, <1>2 DEF TypeOK, OnFrameSet, senderVars, reliableVars, orderVars

\* handleOrdered keeps the types of the cursor, of the queue and of what is
\* delivered.
LEMMA HandleOrderedType ==
  ASSUME TypeOK, NEW order \in Nat, NEW payload \in Seq(Chunks),
         HandleOrdered(order, payload)
  PROVE  /\ inputOrderIndex' \in Nat
         /\ IsMap(inputOrderingQueue', Seq(Chunks))
         /\ delivered' \in Seq(Seq(Chunks))
<1>1. CASE InTurn(order)
  <2>1. PICK next \in (inputOrderIndex + 1)..MaxFrames :
          /\ DrainsUpTo(next)
          /\ inputOrderIndex' = next
          /\ inputOrderingQueue' =
               Restrict(inputOrderingQueue, DOMAIN inputOrderingQueue \ Drained(next))
          /\ delivered' = Append(delivered, payload) \o
               [i \in 1..(next - inputOrderIndex - 1) |->
                  inputOrderingQueue[inputOrderIndex + i]]
    BY <1>1 DEF HandleOrdered
  <2>2. next \in Nat /\ next - inputOrderIndex - 1 \in Nat
    BY Bounds DEF TypeOK
  <2>3. \A i \in 1..(next - inputOrderIndex - 1) :
          inputOrderingQueue[inputOrderIndex + i] \in Seq(Chunks)
    <3> SUFFICES ASSUME NEW i \in 1..(next - inputOrderIndex - 1)
                 PROVE  inputOrderingQueue[inputOrderIndex + i] \in Seq(Chunks)
      OBVIOUS
    <3>1. inputOrderIndex + i \in (inputOrderIndex + 1)..(next - 1)
      BY <2>2 DEF TypeOK
    <3>2. inputOrderIndex + i \in DOMAIN inputOrderingQueue
      BY <2>1, <3>1 DEF DrainsUpTo
    <3> QED
      BY <3>2 DEF TypeOK, IsMap
  <2>4. [i \in 1..(next - inputOrderIndex - 1) |->
           inputOrderingQueue[inputOrderIndex + i]] \in Seq(Seq(Chunks))
    BY <2>2, <2>3
  <2>5. delivered' \in Seq(Seq(Chunks))
    BY <2>1, <2>4 DEF TypeOK
  <2> QED
    BY <2>1, <2>2, <2>5, RestrictType DEF TypeOK
<1>2. CASE ~InTurn(order)
  <2>1. CASE order > inputOrderIndex
    <3>1. /\ inputOrderingQueue' = MapSet(inputOrderingQueue, order, payload)
          /\ UNCHANGED <<inputOrderIndex, delivered>>
      BY <1>2, <2>1 DEF HandleOrdered, TypeOK
    <3> QED
      BY <3>1, MapSetType DEF TypeOK
  <2>2. CASE ~(order > inputOrderIndex)
    BY <1>2, <2>2 DEF HandleOrdered, TypeOK, orderVars
  <2> QED
    BY <2>1, <2>2
<1> QED
  BY <1>1, <1>2

\* A fragment joins the fragments that arrived under its split id.
LEMMA FragmentsType ==
  ASSUME TypeOK, NEW f \in Frame
  PROVE  /\ IsMap(Fragments(f), Frame)
         /\ Fragments(f)[f.splitFrameIndex] = f
         /\ \A i \in DOMAIN Fragments(f) \ {f.splitFrameIndex} :
              /\ f.splitId \in DOMAIN fragmentsQueue
              /\ i \in DOMAIN fragmentsQueue[f.splitId]
              /\ Fragments(f)[i] = fragmentsQueue[f.splitId][i]
<1> DEFINE before == IF f.splitId \in DOMAIN fragmentsQueue
                     THEN fragmentsQueue[f.splitId] ELSE [i \in {} |-> f]
<1>1. IsMap(before, Frame)
  BY DEF TypeOK, IsMap
<1>2. f.splitFrameIndex \in Nat
  BY DEF Frame
<1>3. Fragments(f) = MapSet(before, f.splitFrameIndex, f)
  BY DEF Fragments
<1>4. /\ f.splitId \notin DOMAIN fragmentsQueue => DOMAIN before = {}
      /\ f.splitId \in DOMAIN fragmentsQueue => before = fragmentsQueue[f.splitId]
  OBVIOUS
<1> HIDE DEF before
<1>5. /\ IsMap(Fragments(f), Frame)
      /\ DOMAIN Fragments(f) = DOMAIN before \cup {f.splitFrameIndex}
      /\ Fragments(f)[f.splitFrameIndex] = f
      /\ \A i \in DOMAIN before : i # f.splitFrameIndex => Fragments(f)[i] = before[i]
  <2>1. /\ IsMap(MapSet(before, f.splitFrameIndex, f), Frame)
        /\ DOMAIN MapSet(before, f.splitFrameIndex, f) = DOMAIN before \cup {f.splitFrameIndex}
        /\ MapSet(before, f.splitFrameIndex, f)[f.splitFrameIndex] = f
        /\ \A i \in DOMAIN before : i # f.splitFrameIndex =>
             MapSet(before, f.splitFrameIndex, f)[i] = before[i]
    BY <1>1, <1>2 DEF IsMap, MapSet
  <2> QED
    BY <1>3, <2>1
<1>6. \A i \in DOMAIN Fragments(f) \ {f.splitFrameIndex} : i \in DOMAIN before
  BY <1>5
<1>7. CASE f.splitId \in DOMAIN fragmentsQueue
  BY <1>4, <1>5, <1>6, <1>7
<1>8. CASE f.splitId \notin DOMAIN fragmentsQueue
  BY <1>4, <1>5, <1>6, <1>8
<1> QED
  BY <1>7, <1>8

\* handleSplit keeps the types, whichever of its three ends it comes to.
LEMMA HandleSplitType ==
  ASSUME TypeOK, NEW f \in Frame, HandleSplit(f)
  PROVE  /\ DOMAIN fragmentsQueue' \subseteq Nat
         /\ \A id \in DOMAIN fragmentsQueue' : IsMap(fragmentsQueue'[id], Frame)
         /\ inputOrderIndex' \in Nat
         /\ IsMap(inputOrderingQueue', Seq(Chunks))
         /\ delivered' \in Seq(Seq(Chunks))
<1> DEFINE entry == Fragments(f)
           whole == \A i \in 0..(f.splitSize - 1) : i \in DOMAIN entry
           dropped == Restrict(fragmentsQueue, DOMAIN fragmentsQueue \ {f.splitId})
<1>1. IsMap(entry, Frame)
  BY FragmentsType
<1>2. f.splitId \in Nat /\ f.splitSize \in Nat /\ f.orderedFrameIndex \in Nat
  BY DEF Frame
<1>3. /\ DOMAIN dropped \subseteq Nat
      /\ \A id \in DOMAIN dropped : IsMap(dropped[id], Frame)
  BY DEF TypeOK, Restrict
<1>4. CASE ~Complete(entry, f)
  <2>1. fragmentsQueue' = MapSet(fragmentsQueue, f.splitId, entry) /\ UNCHANGED orderVars
    BY <1>4 DEF HandleSplit
  <2> HIDE DEF entry
  <2> QED
    BY <1>1, <1>2, <2>1 DEF TypeOK, MapSet, orderVars
<1>5. CASE Complete(entry, f) /\ ~whole
  <2>1. fragmentsQueue' = dropped /\ UNCHANGED orderVars
    BY <1>5 DEF HandleSplit
  <2> QED
    BY <1>3, <2>1 DEF TypeOK, orderVars
<1>6. CASE Complete(entry, f) /\ whole
  <2> DEFINE payload == [i \in 1..f.splitSize |-> entry[i - 1].payload[1]]
  <2>1. fragmentsQueue' = dropped /\ HandleOrdered(f.orderedFrameIndex, payload)
    BY <1>6 DEF HandleSplit
  <2>2. \A i \in 1..f.splitSize : entry[i - 1].payload[1] \in Chunks
    <3> SUFFICES ASSUME NEW i \in 1..f.splitSize
                 PROVE  entry[i - 1].payload[1] \in Chunks
      OBVIOUS
    <3>1. i - 1 \in 0..(f.splitSize - 1)
      BY <1>2
    <3>2. entry[i - 1] \in Frame
      BY <1>1, <1>6, <3>1 DEF IsMap
    <3>3. entry[i - 1].payload \in Seq(Chunks) \ {<<>>}
      BY <3>2 DEF Frame
    <3> QED
      BY <3>3
  <2>3. payload \in Seq(Chunks)
    BY <1>2, <2>2
  <2> QED
    BY <1>2, <1>3, <2>1, <2>3, HandleOrderedType
<1> QED
  BY <1>4, <1>5, <1>6

\* handleFrame keeps the types.
LEMMA HandleFrameType ==
  ASSUME TypeOK, HandleFrame
  PROVE  TypeOK'
<1> DEFINE f == Head(unhandled)
<1>1. f \in Frame /\ unhandled' \in Seq(Frame)
  BY DEF HandleFrame, Idle, TypeOK
<1>2. /\ f.reliableFrameIndex \in Nat /\ f.orderedFrameIndex \in Nat
      /\ f.payload \in Seq(Chunks)
  BY <1>1 DEF Frame
<1>3. /\ receivedReliableFrameIndices' \subseteq Nat
      /\ highestReliableIndex' \in Nat \cup {-1}
  BY <1>2 DEF HandleFrame, TypeOK, MaxOf, reliableVars
<1>4. /\ DOMAIN fragmentsQueue' \subseteq Nat
      /\ \A id \in DOMAIN fragmentsQueue' : IsMap(fragmentsQueue'[id], Frame)
      /\ inputOrderIndex' \in Nat
      /\ IsMap(inputOrderingQueue', Seq(Chunks))
      /\ delivered' \in Seq(Seq(Chunks))
  <2>1. CASE f.reliableFrameIndex \in receivedReliableFrameIndices
    BY <2>1 DEF HandleFrame, TypeOK, orderVars
  <2>2. CASE f.reliableFrameIndex \notin receivedReliableFrameIndices /\ f.splitSize > 0
    <3>1. HandleSplit(f)
      BY <2>2 DEF HandleFrame
    <3> QED
      BY <1>1, <3>1, HandleSplitType
  <2>3. CASE f.reliableFrameIndex \notin receivedReliableFrameIndices /\ ~(f.splitSize > 0)
    <3>1. HandleOrdered(f.orderedFrameIndex, f.payload) /\ UNCHANGED fragmentsQueue
      BY <2>3 DEF HandleFrame
    <3> QED
      BY <1>2, <3>1, HandleOrderedType DEF TypeOK
  <2> QED
    BY <2>1, <2>2, <2>3
<1> QED
  BY <1>1, <1>3, <1>4 DEF HandleFrame, TypeOK, senderVars, windowVars

\* The cleaning and acknowledging half of tick keeps the types.
LEMMA ReceiverTickType ==
  ASSUME TypeOK, NEW cleanup \in BOOLEAN, NEW expired \in SUBSET DOMAIN fragmentsQueue,
         ReceiverTick(cleanup, expired)
  PROVE  TypeOK'
<1>1. \A S, start : Window(S, start) \subseteq S
  BY DEF Window
<1>2. /\ receivedFrameSequences' \subseteq Nat
      /\ receivedReliableFrameIndices' \subseteq Nat
  BY <1>1 DEF ReceiverTick, TypeOK
<1>3. toSender' \subseteq [type : {"ack", "nack"}, sequences : SUBSET Nat]
  <2> DEFINE lost == IF cleanup THEN Window(lostFrameSequences, lastInputSequence - ReceiveWindow)
                     ELSE lostFrameSequences
  <2>1. lost \subseteq Nat /\ Acks \subseteq Nat
    BY <1>1 DEF TypeOK, Acks
  <2>2. /\ AckPacket("ack", Acks) \in [type : {"ack", "nack"}, sequences : SUBSET Nat]
        /\ AckPacket("nack", lost) \in [type : {"ack", "nack"}, sequences : SUBSET Nat]
    BY <2>1 DEF AckPacket
  <2>3. toSender' = toSender
          \cup (IF Acks # {} THEN {AckPacket("ack", Acks)} ELSE {})
          \cup (IF lost # {} THEN {AckPacket("nack", lost)} ELSE {})
    BY DEF ReceiverTick
  <2> HIDE DEF lost
  <2> QED
    BY <2>2, <2>3 DEF TypeOK
<1>4. /\ DOMAIN fragmentsQueue' \subseteq Nat
      /\ \A id \in DOMAIN fragmentsQueue' : IsMap(fragmentsQueue'[id], Frame)
  BY DEF ReceiverTick, TypeOK, Restrict
<1> QED
  BY <1>2, <1>3, <1>4 DEF ReceiverTick, TypeOK, orderVars, senderVars

\* Every step of the system keeps the types.
LEMMA StepType == TypeOK /\ [Next]_vars => TypeOK'
<1> SUFFICES ASSUME TypeOK, [Next]_vars
             PROVE  TypeOK'
  OBVIOUS
<1>1. ASSUME NEW p \in Payload, NEW fits \in BOOLEAN, NEW high \in BOOLEAN,
             Send(p, fits, high)
      PROVE  TypeOK'
  BY <1>1, SendType
<1>2. ASSUME NEW due \in SUBSET DOMAIN outputBackup, SenderTick(due)
      PROVE  TypeOK'
  BY <1>2, SenderTickType
<1>3. ASSUME NEW m \in toSender, OnAck(m) \/ OnNack(m)
      PROVE  TypeOK'
  BY <1>3, OnAckType, OnNackType
<1>4. ASSUME NEW m \in toReceiver, OnFrameSet(m) \/ LoseFrameSet(m)
      PROVE  TypeOK'
  <2>1. CASE LoseFrameSet(m)
    BY <2>1
    DEF LoseFrameSet, TypeOK, senderVars, receiverVars, windowVars, reliableVars, orderVars
  <2> QED
    BY <1>4, <2>1, OnFrameSetType
<1>5. CASE HandleFrame
  BY <1>5, HandleFrameType
<1>6. ASSUME NEW cleanup \in BOOLEAN, NEW expired \in SUBSET DOMAIN fragmentsQueue,
             ReceiverTick(cleanup, expired)
      PROVE  TypeOK'
  BY <1>6, ReceiverTickType
<1>7. CASE UNCHANGED vars
  BY <1>7 DEF TypeOK, vars, senderVars, receiverVars, windowVars, reliableVars, orderVars
<1> QED
  BY <1>1, <1>2, <1>3, <1>4, <1>5, <1>6, <1>7 DEF Next

\* Every field of the two sessions and every datagram keeps its type, and the
\* indices stay within the bounds of the wire format.
THEOREM TypeCorrect == Spec => []TypeOK
<1>1. Init => TypeOK
  BY InitType
<1>2. TypeOK /\ [Next]_vars => TypeOK'
  BY StepType
<1> QED
  BY <1>1, <1>2, PTL DEF Spec

(***************************************************************************)
(* The inductive invariant                                                 *)
(*                                                                         *)
(* Delivery in order is not inductive by itself: what is delivered next    *)
(* comes out of a frame, which comes out of a datagram, a backup entry or  *)
(* the fragments.  So the invariant says that every frame, wherever it is, *)
(* carries what was sent under its order index, and that fragments under   *)
(* one split id belong to one payload.                                     *)
(***************************************************************************)

GoodFrame == {f \in Frame : FrameOK(f)}

Numbering ==
  outputOrderIndex = Len(sent) /\ outputSplitIndex = Len(splitOwner)

SenderGood ==
  outputFrames \in Seq(GoodFrame) /\ IsMap(outputBackup, Seq(GoodFrame))

WireGood == toReceiver \subseteq [sequence : Nat, frames : Seq(GoodFrame)]

FragmentGood(f, id, i) ==
  f \in GoodFrame /\ f.splitSize > 0 /\ f.splitId = id /\ f.splitFrameIndex = i

FragmentsGood ==
  \A id \in DOMAIN fragmentsQueue : \A i \in DOMAIN fragmentsQueue[id] :
    FragmentGood(fragmentsQueue[id][i], id, i)

QueueGood ==
  \A o \in DOMAIN inputOrderingQueue :
    /\ inputOrderIndex < o /\ o < Len(sent)
    /\ inputOrderingQueue[o] = sent[o + 1]

IInv ==
  /\ TypeOK /\ Numbering
  /\ SenderGood /\ WireGood /\ unhandled \in Seq(GoodFrame)
  /\ FragmentsGood /\ QueueGood /\ InOrderExactlyOnce

\* Two fresh sessions satisfy the inductive invariant.
LEMMA InitIInv == Init => IInv
<1> SUFFICES ASSUME Init
             PROVE  IInv
  OBVIOUS
<1>1. TypeOK
  BY InitType
<1>2. Numbering /\ WireGood /\ FragmentsGood /\ QueueGood /\ InOrderExactlyOnce
  BY DEF Init, Numbering, WireGood, FragmentsGood, QueueGood, InOrderExactlyOnce
<1>3. SenderGood /\ unhandled \in Seq(GoodFrame)
  BY DEF Init, SenderGood, IsMap
<1> QED
  BY <1>1, <1>2, <1>3 DEF IInv

\* As long as nothing is sent, a good frame stays good.
LEMMA GoodStays ==
  ASSUME UNCHANGED <<sent, splitOwner>>
  PROVE  GoodFrame' = GoodFrame
  BY DEF GoodFrame, FrameOK

\* A frame stays good when something is sent: histories only grow.
LEMMA GoodGrows ==
  ASSUME TypeOK, NEW p \in Payload, sent' = Append(sent, p),
         splitOwner' = splitOwner \/ splitOwner' = Append(splitOwner, outputOrderIndex)
  PROVE  GoodFrame \subseteq GoodFrame'
<1> SUFFICES ASSUME NEW f \in Frame, FrameOK(f)
             PROVE  FrameOK(f)'
  BY DEF GoodFrame
<1>1. f.orderedFrameIndex \in Nat /\ f.splitId \in Nat
  BY DEF Frame
<1>2. sent \in Seq(Payload) /\ splitOwner \in Seq(Nat) /\ outputOrderIndex \in Nat
  BY DEF TypeOK
<1>3. f.orderedFrameIndex < Len(sent)
  BY DEF FrameOK
<1>4. /\ f.orderedFrameIndex < Len(sent')
      /\ sent'[f.orderedFrameIndex + 1] = sent[f.orderedFrameIndex + 1]
  BY <1>1, <1>2, <1>3
<1>5. ASSUME f.splitId < Len(splitOwner)
      PROVE  /\ f.splitId < Len(splitOwner')
             /\ splitOwner'[f.splitId + 1] = splitOwner[f.splitId + 1]
  <2>1. CASE splitOwner' = splitOwner
    BY <1>5, <2>1
  <2>2. CASE splitOwner' = Append(splitOwner, outputOrderIndex)
    BY <1>1, <1>2, <1>5, <2>2
  <2> QED
    BY <2>1, <2>2
<1>6. CASE f.splitSize = 0
  BY <1>4, <1>6 DEF FrameOK
<1>7. CASE f.splitSize # 0
  BY <1>4, <1>5, <1>7 DEF FrameOK
<1> QED
  BY <1>6, <1>7

\* Split ids below the width of the field are not folded.
LEMMA SplitIdExact ==
  ASSUME NEW i \in Nat, i < SplitIdSpace
  PROVE  SplitId(i) = i
  BY Bounds DEF SplitId

\* The frames Send makes are good once it has recorded what it sends.
LEMMA NewFramesGood ==
  ASSUME TypeOK, Numbering, NEW p \in Payload, NEW fits \in BOOLEAN,
         NEW high \in BOOLEAN, Send(p, fits, high)
  PROVE  Frames(p, outputOrderIndex, outputReliableIndex, SplitId(outputSplitIndex))
           \in Seq(GoodFrame')
<1> DEFINE id == SplitId(outputSplitIndex)
           frames == Frames(p, outputOrderIndex, outputReliableIndex, id)
<1>1. id \in Nat
  BY Bounds DEF SplitId, TypeOK
<1>2. frames \in Seq(Frame) /\ Len(frames) = Len(p) /\ Len(p) \in Nat \ {0}
  BY <1>1, FramesType DEF TypeOK
<1>3. /\ sent' = Append(sent, p)
      /\ Len(p) > 1 => /\ splitOwner' = Append(splitOwner, outputOrderIndex)
                       /\ outputSplitIndex < MaxCompounds
  BY DEF Send
<1>4. /\ outputOrderIndex = Len(sent) /\ outputSplitIndex = Len(splitOwner)
      /\ sent \in Seq(Payload) /\ splitOwner \in Seq(Nat)
      /\ outputOrderIndex \in Nat /\ outputSplitIndex \in Nat
  BY Bounds DEF Numbering, TypeOK
<1>5. outputOrderIndex < Len(sent') /\ sent'[outputOrderIndex + 1] = p
  BY <1>3, <1>4
<1>6. ASSUME Len(p) > 1
      PROVE  /\ id = outputSplitIndex /\ id < Len(splitOwner')
             /\ splitOwner'[id + 1] = outputOrderIndex
  <2>1. id = outputSplitIndex
    BY <1>3, <1>4, <1>6, Bounds, SplitIdExact
  <2>2. splitOwner' = Append(splitOwner, outputOrderIndex)
    BY <1>3, <1>6
  <2> HIDE DEF id
  <2> QED
    BY <1>4, <2>1, <2>2
<1>7. ASSUME NEW k \in 1..Len(frames)
      PROVE  frames[k] \in GoodFrame'
  <2> PICK f : f = frames[k]
    OBVIOUS
  <2>1. f \in Frame
    BY <1>2
  <2>2. /\ f.orderedFrameIndex = outputOrderIndex
        /\ f.payload = IF Len(p) = 1 THEN p ELSE <<p[k]>>
        /\ f.splitSize = IF Len(p) = 1 THEN 0 ELSE Len(p)
        /\ f.splitId = IF Len(p) = 1 THEN 0 ELSE id
        /\ f.splitFrameIndex = k - 1
        /\ k \in 1..Len(p)
    BY <1>2 DEF Frames
  <2>3. FrameOK(f)'
    <3> HIDE DEF frames, id
    <3> SUFFICES
          /\ f.orderedFrameIndex < Len(sent')
          /\ LET q == sent'[f.orderedFrameIndex + 1] IN
             IF f.splitSize = 0
             THEN f.payload = q
             ELSE /\ f.splitSize = Len(q) /\ f.splitFrameIndex < Len(q)
                  /\ f.payload = <<q[f.splitFrameIndex + 1]>>
                  /\ f.splitId < Len(splitOwner')
                  /\ splitOwner'[f.splitId + 1] = f.orderedFrameIndex
      BY DEF FrameOK
    <3>1. CASE Len(p) = 1
      BY <1>5, <2>2, <3>1
    <3>2. CASE Len(p) # 1
      <4>1. Len(p) > 1 /\ k \in Nat /\ k - 1 < Len(p) /\ (k - 1) + 1 = k
        BY <1>2, <2>2, <3>2
      <4> QED
        BY <1>2, <1>5, <1>6, <2>2, <3>2, <4>1
    <3> QED
      BY <3>1, <3>2
  <2> QED
    BY <2>1, <2>3 DEF GoodFrame
<1> QED
  BY <1>2, <1>7

(***************************************************************************)
(* Each step keeps the invariant                                           *)
(***************************************************************************)

\* frameAndSend preserves the inductive invariant.
LEMMA SendIInv ==
  ASSUME IInv, NEW p \in Payload, NEW fits \in BOOLEAN, NEW high \in BOOLEAN,
         Send(p, fits, high)
  PROVE  IInv'
<1> DEFINE frames == Frames(p, outputOrderIndex, outputReliableIndex,
                            SplitId(outputSplitIndex))
           rest == Rest(frames, fits)
           batches == Batches(frames, fits) \o (IF high THEN <<rest>> ELSE <<>>)
<1>1. TypeOK /\ Numbering
  BY DEF IInv
<1>2. /\ sent' = Append(sent, p) /\ outputOrderIndex' = outputOrderIndex + 1
      /\ \/ UNCHANGED <<splitOwner, outputSplitIndex>>
         \/ /\ splitOwner' = Append(splitOwner, outputOrderIndex)
            /\ outputSplitIndex' = outputSplitIndex + 1
      /\ outputFrames' = IF high THEN <<>> ELSE rest
      /\ outputBackup' = Backup(batches)
      /\ toReceiver' = toReceiver \cup Flushed(batches)
      /\ UNCHANGED <<unhandled, fragmentsQueue, orderVars>>
  BY DEF Send, Flush, receiverVars
<1>3. GoodFrame \subseteq GoodFrame'
  BY <1>1, <1>2, GoodGrows
<1>4. frames \in Seq(GoodFrame') /\ frames # <<>>
  <2>1. frames \in Seq(GoodFrame')
    BY <1>1, NewFramesGood
  <2>2. SplitId(outputSplitIndex) \in Nat
    BY <1>1, Bounds DEF SplitId, TypeOK
  <2>3. Len(frames) \in Nat \ {0}
    BY <1>1, <2>2, FramesType DEF TypeOK
  <2> QED
    BY <2>1, <2>3
<1>5. outputFrames \in Seq(GoodFrame') /\ IsMap(outputBackup, Seq(GoodFrame'))
  BY <1>3 DEF IInv, SenderGood, IsMap
<1>6. rest \in Seq(GoodFrame') /\ batches \in Seq(Seq(GoodFrame'))
  <2> HIDE DEF frames
  <2> QED
    BY <1>4, <1>5, BatchesInto
<1>7. /\ IsMap(Backup(batches), Seq(GoodFrame'))
      /\ Flushed(batches) \subseteq [sequence : Nat, frames : Seq(GoodFrame')]
  <2> HIDE DEF batches
  <2> QED
    BY <1>1, <1>5, <1>6, FlushInto
<1>8. SenderGood'
  <2> HIDE DEF batches, rest
  <2> QED
    BY <1>2, <1>6, <1>7 DEF SenderGood
<1>9. WireGood'
  <2>1. [sequence : Nat, frames : Seq(GoodFrame)] \subseteq
          [sequence : Nat, frames : Seq(GoodFrame')]
    BY <1>3
  <2> HIDE DEF batches
  <2> QED
    BY <1>2, <1>7, <2>1 DEF WireGood, IInv
<1>10. unhandled' \in Seq(GoodFrame')
  BY <1>2, <1>3 DEF IInv
<1>11. FragmentsGood'
  BY <1>2, <1>3 DEF IInv, FragmentsGood, FragmentGood
<1>12. Numbering'
  <2>1. /\ sent \in Seq(Payload) /\ splitOwner \in Seq(Nat)
        /\ outputOrderIndex \in Nat
    BY <1>1 DEF TypeOK
  <2> QED
    BY <1>1, <1>2, <2>1 DEF Numbering
<1>13. QueueGood' /\ InOrderExactlyOnce'
  <2>1. sent \in Seq(Payload) /\ delivered \in Seq(Seq(Chunks))
    BY <1>1 DEF TypeOK
  <2>2. /\ Len(sent') = Len(sent) + 1
        /\ \A k \in 1..Len(sent) : sent'[k] = sent[k]
    BY <1>2, <2>1
  <2>3. QueueGood'
    <3>1. DOMAIN inputOrderingQueue \subseteq Nat
      BY <1>1 DEF TypeOK, IsMap
    <3>2. ASSUME NEW o \in DOMAIN inputOrderingQueue
          PROVE  /\ inputOrderIndex < o /\ o < Len(sent')
                 /\ inputOrderingQueue[o] = sent'[o + 1]
      <4>1. /\ inputOrderIndex < o /\ o < Len(sent)
            /\ inputOrderingQueue[o] = sent[o + 1] /\ o \in Nat
        BY <3>1 DEF IInv, QueueGood
      <4>2. o + 1 \in 1..Len(sent) /\ o < Len(sent) + 1
        BY <2>1, <4>1
      <4> QED
        BY <2>2, <4>1, <4>2
    <3> QED
      BY <1>2, <3>2 DEF QueueGood, orderVars
  <2>4. InOrderExactlyOnce'
    <3>1. /\ Len(delivered) = inputOrderIndex /\ Len(delivered) <= Len(sent)
          /\ \A k \in 1..Len(delivered) : delivered[k] = sent[k]
      BY DEF IInv, InOrderExactlyOnce
    <3>2. Len(delivered) \in Nat /\ Len(sent) \in Nat
      BY <2>1
    <3>3. /\ Len(delivered) <= Len(sent')
          /\ \A k \in 1..Len(delivered) : k \in 1..Len(sent)
      BY <2>2, <3>1, <3>2
    <3> QED
      BY <1>2, <2>2, <3>1, <3>3 DEF InOrderExactlyOnce, orderVars
  <2> QED
    BY <2>3, <2>4
<1>14. TypeOK'
  BY <1>1, SendType
<1> QED
  BY <1>8, <1>9, <1>10, <1>11, <1>12, <1>13, <1>14 DEF IInv

\* The steps that send nothing new and hand nothing over: they leave histories,
\* fragments and ordering queue alone and at most copy frames around.
LEMMA CopyIInv ==
  ASSUME IInv, TypeOK', UNCHANGED <<sent, splitOwner, orderVars, fragmentsQueue>>,
         UNCHANGED <<outputOrderIndex, outputSplitIndex>>,
         outputFrames' \in Seq(GoodFrame), IsMap(outputBackup', Seq(GoodFrame)),
         toReceiver' \subseteq [sequence : Nat, frames : Seq(GoodFrame)],
         unhandled' \in Seq(GoodFrame)
  PROVE  IInv'
<1>1. GoodFrame' = GoodFrame
  BY GoodStays
<1>2. SenderGood' /\ WireGood' /\ unhandled' \in Seq(GoodFrame')
  BY <1>1 DEF SenderGood, WireGood
<1>3. FragmentsGood' /\ QueueGood' /\ InOrderExactlyOnce' /\ Numbering'
  BY <1>1 DEF IInv, FragmentsGood, FragmentGood, QueueGood, InOrderExactlyOnce,
              Numbering, orderVars
<1> QED
  BY <1>2, <1>3 DEF IInv

\* Retransmission preserves the inductive invariant.
LEMMA SenderTickIInv ==
  ASSUME IInv, NEW due \in SUBSET DOMAIN outputBackup, SenderTick(due)
  PROVE  IInv'
<1>1. TypeOK /\ SenderGood /\ WireGood
  BY DEF IInv
<1>2. TypeOK'
  BY <1>1, SenderTickType
<1>3. Pending \in Seq(Seq(GoodFrame))
  BY <1>1 DEF Pending, SenderGood
<1>4. {FrameSet(s, outputBackup[s]) : s \in due}
        \subseteq [sequence : Nat, frames : Seq(GoodFrame)]
  BY <1>1 DEF SenderGood, IsMap, FrameSet
<1>5. /\ IsMap(Backup(Pending), Seq(GoodFrame))
      /\ Flushed(Pending) \subseteq [sequence : Nat, frames : Seq(GoodFrame)]
  BY <1>1, <1>3, FlushInto DEF SenderGood
<1>6. /\ outputFrames' = <<>> /\ outputBackup' = Backup(Pending)
      /\ toReceiver' = toReceiver \cup Flushed(Pending)
           \cup {FrameSet(s, outputBackup[s]) : s \in due}
      /\ UNCHANGED <<sent, splitOwner, orderVars, fragmentsQueue, unhandled,
                     outputOrderIndex, outputSplitIndex>>
  BY DEF SenderTick, Flush, receiverVars
<1>7. toReceiver' \subseteq [sequence : Nat, frames : Seq(GoodFrame)]
  BY <1>1, <1>4, <1>5, <1>6 DEF WireGood
<1>8. outputFrames' \in Seq(GoodFrame) /\ unhandled' \in Seq(GoodFrame)
  BY <1>6 DEF IInv
<1> QED
  BY <1>2, <1>5, <1>6, <1>7, <1>8, CopyIInv

\* onAck preserves the inductive invariant.
LEMMA OnAckIInv ==
  ASSUME IInv, NEW m \in toSender, OnAck(m)
  PROVE  IInv'
<1>1. TypeOK /\ SenderGood /\ WireGood /\ unhandled \in Seq(GoodFrame)
  BY DEF IInv
<1>2. TypeOK'
  BY <1>1, OnAckType
<1>3. IsMap(outputBackup', Seq(GoodFrame))
  BY <1>1, RestrictType DEF OnAck, SenderGood
<1>4. UNCHANGED <<sent, splitOwner, orderVars, fragmentsQueue, unhandled, outputFrames,
                  toReceiver, outputOrderIndex, outputSplitIndex>>
  BY DEF OnAck, receiverVars
<1> QED
  BY <1>1, <1>2, <1>3, <1>4, CopyIInv DEF SenderGood, WireGood

\* onNack preserves the inductive invariant.
LEMMA OnNackIInv ==
  ASSUME IInv, NEW m \in toSender, OnNack(m)
  PROVE  IInv'
<1>1. TypeOK /\ SenderGood /\ WireGood /\ unhandled \in Seq(GoodFrame)
  BY DEF IInv
<1>2. TypeOK'
  BY <1>1, OnNackType
<1>3. toReceiver' \subseteq [sequence : Nat, frames : Seq(GoodFrame)]
  BY <1>1 DEF OnNack, SenderGood, WireGood, IsMap, FrameSet
<1>4. UNCHANGED <<sent, splitOwner, orderVars, fragmentsQueue, unhandled, outputFrames,
                  outputBackup, outputOrderIndex, outputSplitIndex>>
  BY DEF OnNack, receiverVars, senderVars
<1> QED
  BY <1>1, <1>2, <1>3, <1>4, CopyIInv DEF SenderGood

\* onFrameSet, up to its loop, preserves the inductive invariant.
LEMMA OnFrameSetIInv ==
  ASSUME IInv, NEW m \in toReceiver, OnFrameSet(m)
  PROVE  IInv'
<1>1. TypeOK /\ SenderGood /\ WireGood
  BY DEF IInv
<1>2. TypeOK'
  BY <1>1, OnFrameSetType
<1>3. unhandled' \in Seq(GoodFrame)
  BY <1>1 DEF OnFrameSet, WireGood
<1>4. UNCHANGED <<sent, splitOwner, orderVars, fragmentsQueue, toReceiver, outputFrames,
                  outputBackup, outputOrderIndex, outputSplitIndex>>
  BY DEF OnFrameSet, senderVars
<1> QED
  BY <1>1, <1>2, <1>3, <1>4, CopyIInv DEF SenderGood, WireGood

\* Losing a datagram only makes the set of datagrams in flight smaller.
LEMMA LoseIInv ==
  ASSUME IInv, NEW m, LoseFrameSet(m)
  PROVE  IInv'
<1>1. TypeOK /\ SenderGood /\ WireGood /\ unhandled \in Seq(GoodFrame)
  BY DEF IInv
<1>2. /\ UNCHANGED <<senderVars, receiverVars>>
      /\ toReceiver' \subseteq toReceiver /\ UNCHANGED toSender
  BY DEF LoseFrameSet
<1>3. TypeOK'
  BY <1>1, <1>2
  DEF TypeOK, senderVars, receiverVars, windowVars, reliableVars, orderVars
<1>4. UNCHANGED <<sent, splitOwner, orderVars, fragmentsQueue, unhandled, outputFrames,
                  outputBackup, outputOrderIndex, outputSplitIndex>>
  BY <1>2 DEF senderVars, receiverVars
<1>5. toReceiver' \subseteq [sequence : Nat, frames : Seq(GoodFrame)]
  BY <1>1, <1>2 DEF WireGood
<1> QED
  BY <1>1, <1>3, <1>4, <1>5, CopyIInv DEF SenderGood

\* The receiver's tick preserves the inductive invariant, whatever its windows
\* forget and whichever fragments expire.
LEMMA ReceiverTickIInv ==
  ASSUME IInv, NEW cleanup \in BOOLEAN, NEW expired \in SUBSET DOMAIN fragmentsQueue,
         ReceiverTick(cleanup, expired)
  PROVE  IInv'
<1>1. TypeOK /\ SenderGood /\ WireGood /\ unhandled \in Seq(GoodFrame)
  BY DEF IInv
<1>2. TypeOK'
  BY <1>1, ReceiverTickType
<1>3. /\ UNCHANGED <<sent, splitOwner, orderVars, unhandled, outputFrames, outputBackup,
                     toReceiver, outputOrderIndex, outputSplitIndex>>
      /\ fragmentsQueue' = Restrict(fragmentsQueue, DOMAIN fragmentsQueue \ expired)
  BY DEF ReceiverTick, senderVars
<1>4. GoodFrame' = GoodFrame
  BY <1>3, GoodStays
<1>5. FragmentsGood'
  BY <1>3, <1>4 DEF IInv, FragmentsGood, FragmentGood, Restrict
<1>6. SenderGood' /\ WireGood' /\ unhandled' \in Seq(GoodFrame')
  BY <1>1, <1>3, <1>4 DEF SenderGood, WireGood
<1>7. QueueGood' /\ InOrderExactlyOnce' /\ Numbering'
  BY <1>3 DEF IInv, QueueGood, InOrderExactlyOnce, Numbering, orderVars
<1> QED
  BY <1>2, <1>5, <1>6, <1>7 DEF IInv

\* handleOrdered hands over what was sent, in the order in which it was sent.
LEMMA HandleOrderedGood ==
  ASSUME TypeOK, QueueGood, InOrderExactlyOnce, UNCHANGED sent,
         NEW order \in Nat, NEW payload, order < Len(sent),
         payload = sent[order + 1], HandleOrdered(order, payload)
  PROVE  QueueGood' /\ InOrderExactlyOnce'
<1>1. /\ inputOrderIndex \in Nat /\ IsMap(inputOrderingQueue, Seq(Chunks))
      /\ sent \in Seq(Payload) /\ delivered \in Seq(Seq(Chunks))
      /\ Len(sent) \in Nat
      /\ payload \in Seq(Chunks)
  <2>1. sent \in Seq(Payload) /\ Len(sent) \in Nat
    BY DEF TypeOK
  <2>2. sent[order + 1] \in Payload
    BY <2>1
  <2> QED
    BY <2>1, <2>2, PayloadAssumption DEF TypeOK
<1>2. CASE InTurn(order)
  <2>1. PICK next \in (inputOrderIndex + 1)..MaxFrames :
          /\ DrainsUpTo(next)
          /\ inputOrderIndex' = next
          /\ inputOrderingQueue' =
               Restrict(inputOrderingQueue, DOMAIN inputOrderingQueue \ Drained(next))
          /\ delivered' = Append(delivered, payload) \o
               [i \in 1..(next - inputOrderIndex - 1) |->
                  inputOrderingQueue[inputOrderIndex + i]]
    BY <1>2 DEF HandleOrdered
  <2> DEFINE n == next - inputOrderIndex - 1
             drained == [i \in 1..n |-> inputOrderingQueue[inputOrderIndex + i]]
  <2>2. next \in Nat /\ n \in Nat /\ next = inputOrderIndex + 1 + n
    BY <1>1, Bounds
  <2>3. ASSUME NEW i \in 1..n
        PROVE  /\ inputOrderIndex + i \in DOMAIN inputOrderingQueue
               /\ drained[i] = sent[inputOrderIndex + i + 1]
               /\ drained[i] \in Seq(Chunks)
               /\ inputOrderIndex + i < Len(sent)
    <3>1. inputOrderIndex + i \in (inputOrderIndex + 1)..(next - 1)
      BY <1>1, <2>2
    <3>2. inputOrderIndex + i \in DOMAIN inputOrderingQueue
      BY <2>1, <3>1 DEF DrainsUpTo
    <3> QED
      BY <1>1, <3>2 DEF QueueGood, IsMap
  <2>4. drained \in Seq(Seq(Chunks)) /\ Len(drained) = n
    <3>1. \A i \in 1..n : drained[i] \in Seq(Chunks)
      BY <2>3
    <3> QED
      BY <2>2, <3>1
  <2>5. order = inputOrderIndex /\ Len(delivered) = inputOrderIndex
    BY <1>2 DEF InTurn, InOrderExactlyOnce
  <2>6. /\ Len(delivered') = next
        /\ \A k \in 1..inputOrderIndex : delivered'[k] = delivered[k]
        /\ delivered'[inputOrderIndex + 1] = payload
        /\ \A i \in 1..n : delivered'[inputOrderIndex + 1 + i] = drained[i]
    <3>1. delivered' = Append(delivered, payload) \o drained
      BY <2>1
    <3> HIDE DEF drained, n
    <3>2. /\ Append(delivered, payload) \in Seq(Seq(Chunks))
          /\ Len(Append(delivered, payload)) = inputOrderIndex + 1
          /\ \A k \in 1..inputOrderIndex : Append(delivered, payload)[k] = delivered[k]
          /\ Append(delivered, payload)[inputOrderIndex + 1] = payload
      BY <1>1, <2>5
    <3> DEFINE before == Append(delivered, payload)
    <3> HIDE DEF before
    <3>3. before \in Seq(Seq(Chunks)) /\ Len(before) = inputOrderIndex + 1
      BY <3>2 DEF before
    <3>4. /\ Len(delivered') = inputOrderIndex + 1 + n
          /\ \A k \in 1..(inputOrderIndex + 1) : delivered'[k] = before[k]
          /\ \A i \in 1..n : delivered'[inputOrderIndex + 1 + i] = drained[i]
      <4>1. delivered' = before \o drained
        BY <3>1 DEF before
      <4>2. /\ Len(before \o drained) = Len(before) + Len(drained)
            /\ \A k \in 1..Len(before) : (before \o drained)[k] = before[k]
            /\ \A i \in 1..Len(drained) : (before \o drained)[Len(before) + i] = drained[i]
        <5>1. before \in Seq(Seq(Chunks)) /\ drained \in Seq(Seq(Chunks))
          BY <2>4, <3>3
        <5> QED
          BY <5>1
      <4> QED
        BY <2>4, <3>3, <4>1, <4>2
    <3>5. /\ inputOrderIndex + 1 \in 1..(inputOrderIndex + 1)
          /\ \A k \in 1..inputOrderIndex : k \in 1..(inputOrderIndex + 1)
      BY <1>1
    <3> QED
      BY <2>2, <3>2, <3>4, <3>5 DEF before
  <2>7. next <= Len(sent)
    <3> HIDE DEF n, drained
    <3>1. CASE n = 0
      BY <1>1, <2>2, <2>5, <3>1
    <3>2. CASE n > 0
      <4>1. n \in 1..n
        BY <2>2, <3>2
      <4>2. inputOrderIndex + n < Len(sent)
        BY <2>3, <4>1
      <4> QED
        BY <1>1, <2>2, <4>2
    <3>3. n = 0 \/ n > 0
      BY <2>2
    <3> QED
      BY <3>1, <3>2, <3>3
  <2>8. ASSUME NEW k \in 1..next
        PROVE  delivered'[k] = sent[k]
    <3>1. CASE k \in 1..inputOrderIndex
      BY <2>5, <2>6, <3>1 DEF InOrderExactlyOnce
    <3>2. CASE k = inputOrderIndex + 1
      BY <2>5, <2>6, <3>2
    <3>3. CASE k > inputOrderIndex + 1
      <4>1. k - (inputOrderIndex + 1) \in 1..n
        BY <1>1, <2>2, <3>3
      <4>2. PICK i \in 1..n : k = inputOrderIndex + 1 + i
        BY <1>1, <4>1
      <4>3. inputOrderIndex + i + 1 = k
        BY <1>1, <2>2, <4>2
      <4> QED
        BY <2>3, <2>6, <4>2, <4>3
    <3> QED
      BY <1>1, <2>2, <3>1, <3>2, <3>3
  <2>9. InOrderExactlyOnce'
    BY <2>1, <2>6, <2>7, <2>8 DEF InOrderExactlyOnce
  <2>10. QueueGood'
    <3> SUFFICES ASSUME NEW o \in DOMAIN inputOrderingQueue'
                 PROVE  /\ next < o /\ o < Len(sent)
                        /\ inputOrderingQueue'[o] = sent[o + 1]
      BY <2>1 DEF QueueGood
    <3>1. /\ o \in DOMAIN inputOrderingQueue /\ o \notin Drained(next)
          /\ inputOrderingQueue'[o] = inputOrderingQueue[o]
      BY <2>1 DEF Restrict
    <3>2. o \in Nat /\ inputOrderIndex < o /\ o # next
      BY <1>1, <2>1, <3>1 DEF QueueGood, IsMap, DrainsUpTo
    <3>3. next < o
      BY <1>1, <2>2, <3>1, <3>2 DEF Drained
    <3> QED
      BY <3>1, <3>3 DEF QueueGood
  <2> QED
    BY <2>9, <2>10
<1>3. CASE ~InTurn(order) /\ order > inputOrderIndex
  <2>1. /\ inputOrderingQueue' = MapSet(inputOrderingQueue, order, payload)
        /\ UNCHANGED <<inputOrderIndex, delivered>>
    BY <1>1, <1>3 DEF HandleOrdered
  <2>2. QueueGood'
    BY <1>1, <1>3, <2>1 DEF QueueGood, MapSet
  <2> QED
    BY <2>1, <2>2 DEF InOrderExactlyOnce
<1>4. CASE ~InTurn(order) /\ ~(order > inputOrderIndex)
  <2>1. UNCHANGED orderVars
    BY <1>1, <1>4 DEF HandleOrdered
  <2> QED
    BY <2>1 DEF QueueGood, InOrderExactlyOnce, orderVars
<1> QED
  BY <1>2, <1>3, <1>4

\* handleSplit puts together only fragments of one payload, each at its place.
LEMMA HandleSplitGood ==
  ASSUME IInv, NEW f \in GoodFrame, f.splitSize > 0, HandleSplit(f),
         UNCHANGED <<sent, splitOwner>>
  PROVE  FragmentsGood' /\ QueueGood' /\ InOrderExactlyOnce'
<1> DEFINE entry == Fragments(f)
           whole == \A i \in 0..(f.splitSize - 1) : i \in DOMAIN entry
           dropped == Restrict(fragmentsQueue, DOMAIN fragmentsQueue \ {f.splitId})
<1>1. /\ TypeOK /\ FragmentsGood /\ QueueGood /\ InOrderExactlyOnce
      /\ f \in Frame /\ FrameOK(f)
  BY DEF IInv, GoodFrame
<1>2. GoodFrame' = GoodFrame
  BY GoodStays
<1>3. \A i \in DOMAIN entry : FragmentGood(entry[i], f.splitId, i)
  <2>1. FragmentGood(f, f.splitId, f.splitFrameIndex)
    BY DEF FragmentGood
  <2>2. /\ entry[f.splitFrameIndex] = f
        /\ \A i \in DOMAIN entry \ {f.splitFrameIndex} :
             /\ f.splitId \in DOMAIN fragmentsQueue
             /\ i \in DOMAIN fragmentsQueue[f.splitId]
             /\ entry[i] = fragmentsQueue[f.splitId][i]
    BY <1>1, FragmentsType
  <2> HIDE DEF entry
  <2>3. ASSUME NEW i \in DOMAIN entry \ {f.splitFrameIndex}
        PROVE  FragmentGood(entry[i], f.splitId, i)
    BY <1>1, <2>2 DEF FragmentsGood
  <2> QED
    BY <2>1, <2>2, <2>3
<1>4. ASSUME fragmentsQueue' = dropped
      PROVE  FragmentsGood'
  <2>1. \A id \in DOMAIN fragmentsQueue' :
          id \in DOMAIN fragmentsQueue /\ fragmentsQueue'[id] = fragmentsQueue[id]
    BY <1>4 DEF Restrict
  <2> QED
    BY <1>1, <1>2, <2>1 DEF FragmentsGood, FragmentGood
<1>5. CASE ~Complete(entry, f)
  <2>1. fragmentsQueue' = MapSet(fragmentsQueue, f.splitId, entry) /\ UNCHANGED orderVars
    BY <1>5 DEF HandleSplit
  <2>2. FragmentsGood'
    <3> HIDE DEF entry
    <3>1. ASSUME NEW id \in DOMAIN fragmentsQueue', NEW i \in DOMAIN fragmentsQueue'[id]
          PROVE  FragmentGood(fragmentsQueue'[id][i], id, i)
      BY <1>1, <1>3, <2>1 DEF MapSet, FragmentsGood
    <3> QED
      BY <1>2, <3>1 DEF FragmentsGood, FragmentGood
  <2> QED
    BY <1>1, <2>1, <2>2 DEF QueueGood, InOrderExactlyOnce, orderVars
<1>6. CASE Complete(entry, f) /\ ~whole
  <2>1. fragmentsQueue' = dropped /\ UNCHANGED orderVars
    BY <1>6 DEF HandleSplit
  <2> QED
    BY <1>1, <1>4, <2>1 DEF QueueGood, InOrderExactlyOnce, orderVars
<1>7. CASE Complete(entry, f) /\ whole
  <2> DEFINE payload == [i \in 1..f.splitSize |-> entry[i - 1].payload[1]]
             p == sent[f.orderedFrameIndex + 1]
  <2>1. fragmentsQueue' = dropped /\ HandleOrdered(f.orderedFrameIndex, payload)
    BY <1>7 DEF HandleSplit
  <2>2. FragmentsGood'
    BY <1>4, <2>1
  <2>3. /\ f.orderedFrameIndex \in Nat /\ f.splitSize \in Nat /\ f.splitId \in Nat
        /\ f.orderedFrameIndex < Len(sent)
        /\ f.splitSize = Len(p)
        /\ splitOwner[f.splitId + 1] = f.orderedFrameIndex
    BY <1>1 DEF Frame, FrameOK
  <2>4. p \in Seq(Chunks)
    <3>1. sent \in Seq(Payload)
      BY <1>1 DEF TypeOK
    <3>2. p \in Payload
      BY <2>3, <3>1
    <3> QED
      BY <3>2, PayloadAssumption
  <2>5. ASSUME NEW i \in 1..f.splitSize
        PROVE  entry[i - 1].payload[1] = p[i]
    <3>1. i - 1 \in 0..(f.splitSize - 1) /\ (i - 1) + 1 = i
      BY <2>3
    <3>2. FragmentGood(entry[i - 1], f.splitId, i - 1)
      BY <1>3, <1>7, <3>1
    <3> PICK g : g = entry[i - 1]
      OBVIOUS
    <3>3. /\ FrameOK(g) /\ g.splitSize # 0 /\ g.splitId = f.splitId
          /\ g.splitFrameIndex = i - 1
      BY <3>2 DEF FragmentGood, GoodFrame
    <3>4. g.orderedFrameIndex = f.orderedFrameIndex
      BY <2>3, <3>3 DEF FrameOK
    <3>5. g.payload = <<p[i]>>
      BY <3>1, <3>3, <3>4 DEF FrameOK
    <3> QED
      BY <3>5
  <2>6. payload = p
    <3> HIDE DEF entry, p
    <3>1. p = [i \in 1..Len(p) |-> p[i]]
      BY <2>4
    <3> QED
      BY <2>3, <2>5, <3>1
  <2> HIDE DEF payload
  <2> QED
    BY <1>1, <2>1, <2>2, <2>3, <2>6, HandleOrderedGood
<1> QED
  BY <1>5, <1>6, <1>7

\* handleFrame preserves the inductive invariant: by the cases of a duplicate,
\* a fragment and a whole payload.
LEMMA HandleFrameIInv ==
  ASSUME IInv, HandleFrame
  PROVE  IInv'
<1> DEFINE f == Head(unhandled)
<1>1. TypeOK /\ SenderGood /\ WireGood /\ unhandled \in Seq(GoodFrame)
  BY DEF IInv
<1>2. TypeOK'
  BY <1>1, HandleFrameType
<1>3. UNCHANGED <<sent, splitOwner, outputFrames, outputBackup, toReceiver,
                  outputOrderIndex, outputSplitIndex>>
  BY DEF HandleFrame, senderVars
<1>4. GoodFrame' = GoodFrame
  BY <1>3, GoodStays
<1>5. f \in GoodFrame /\ unhandled' \in Seq(GoodFrame)
  BY <1>1 DEF HandleFrame, Idle
<1>6. SenderGood' /\ WireGood' /\ unhandled' \in Seq(GoodFrame') /\ Numbering'
  BY <1>1, <1>3, <1>4, <1>5 DEF SenderGood, WireGood, Numbering, IInv
<1>7. FragmentsGood' /\ QueueGood' /\ InOrderExactlyOnce'
  <2>1. CASE f.reliableFrameIndex \in receivedReliableFrameIndices
    <3>1. UNCHANGED <<fragmentsQueue, orderVars>>
      BY <2>1 DEF HandleFrame
    <3> QED
      BY <1>3, <1>4, <3>1
      DEF IInv, FragmentsGood, FragmentGood, QueueGood, InOrderExactlyOnce, orderVars
  <2>2. CASE f.reliableFrameIndex \notin receivedReliableFrameIndices /\ f.splitSize > 0
    <3>1. HandleSplit(f)
      BY <2>2 DEF HandleFrame
    <3> HIDE DEF f
    <3> QED
      BY <1>3, <1>5, <2>2, <3>1, HandleSplitGood
  <2>3. CASE f.reliableFrameIndex \notin receivedReliableFrameIndices /\ ~(f.splitSize > 0)
    <3>1. HandleOrdered(f.orderedFrameIndex, f.payload) /\ UNCHANGED fragmentsQueue
      BY <2>3 DEF HandleFrame
    <3> HIDE DEF f
    <3>2. /\ f.orderedFrameIndex \in Nat /\ f.splitSize = 0
          /\ f.orderedFrameIndex < Len(sent)
          /\ f.payload = sent[f.orderedFrameIndex + 1]
      BY <1>5, <2>3 DEF GoodFrame, Frame, FrameOK
    <3>3. QueueGood' /\ InOrderExactlyOnce'
      BY <1>1, <1>3, <3>1, <3>2, HandleOrderedGood DEF IInv
    <3> QED
      BY <1>4, <3>1, <3>3 DEF IInv, FragmentsGood, FragmentGood
  <2> QED
    BY <2>1, <2>2, <2>3
<1> QED
  BY <1>2, <1>6, <1>7 DEF IInv

\* Every step of the system preserves the inductive invariant.
LEMMA StepIInv == IInv /\ [Next]_vars => IInv'
<1> SUFFICES ASSUME IInv, [Next]_vars
             PROVE  IInv'
  OBVIOUS
<1>1. ASSUME NEW p \in Payload, NEW fits \in BOOLEAN, NEW high \in BOOLEAN,
             Send(p, fits, high)
      PROVE  IInv'
  BY <1>1, SendIInv
<1>2. ASSUME NEW due \in SUBSET DOMAIN outputBackup, SenderTick(due)
      PROVE  IInv'
  BY <1>2, SenderTickIInv
<1>3. ASSUME NEW m \in toSender, OnAck(m) \/ OnNack(m)
      PROVE  IInv'
  BY <1>3, OnAckIInv, OnNackIInv
<1>4. ASSUME NEW m \in toReceiver, OnFrameSet(m) \/ LoseFrameSet(m)
      PROVE  IInv'
  BY <1>4, OnFrameSetIInv, LoseIInv
<1>5. CASE HandleFrame
  BY <1>5, HandleFrameIInv
<1>6. ASSUME NEW cleanup \in BOOLEAN, NEW expired \in SUBSET DOMAIN fragmentsQueue,
             ReceiverTick(cleanup, expired)
      PROVE  IInv'
  BY <1>6, ReceiverTickIInv
<1>7. CASE UNCHANGED vars
  <2>1. TypeOK'
    BY <1>7, StepType DEF IInv
  <2>2. /\ UNCHANGED <<sent, splitOwner, orderVars, fragmentsQueue>>
        /\ UNCHANGED <<outputOrderIndex, outputSplitIndex>>
        /\ UNCHANGED <<outputFrames, outputBackup, toReceiver, unhandled>>
    BY <1>7 DEF vars, senderVars, receiverVars
  <2> QED
    BY <2>1, <2>2, CopyIInv DEF IInv, SenderGood, WireGood
<1> QED
  BY <1>1, <1>2, <1>3, <1>4, <1>5, <1>6, <1>7 DEF Next

\* The inductive invariant holds in every behaviour.
LEMMA Inductive == Spec => []IInv
<1>1. Init => IInv
  BY InitIInv
<1>2. IInv /\ [Next]_vars => IInv'
  BY StepIInv
<1> QED
  BY <1>1, <1>2, PTL DEF Spec

(***************************************************************************)
(* What follows from it                                                    *)
(***************************************************************************)

\* What comes out of the session is what went in, in order, each payload once,
\* for every payload, window and bound: whatever is lost, duplicated or
\* reordered, retransmitted, cleaned up or expired.
THEOREM DeliveryInOrder == Spec => []InOrderExactlyOnce
<1>1. IInv => InOrderExactlyOnce
  BY DEF IInv
<1> QED
  BY <1>1, Inductive, PTL

\* The drain loop of handleOrdered leaves nothing behind the cursor.
THEOREM QueueStaysAhead == Spec => []QueueAheadOfCursor
<1>1. IInv => QueueAheadOfCursor
  BY DEF IInv, QueueGood, QueueAheadOfCursor
<1> QED
  BY <1>1, Inductive, PTL

\* Every frame, wherever it is, carries what was sent under its indices.
THEOREM FramesStayTrue == Spec => []FramesCarryWhatWasSent
<1>1. ASSUME NEW fs \in Seq(GoodFrame)
      PROVE  AllOK(fs)
  BY DEF AllOK, GoodFrame
<1>2. IInv => FramesCarryWhatWasSent
  <2> SUFFICES ASSUME IInv
               PROVE  FramesCarryWhatWasSent
    OBVIOUS
  <2>1. AllOK(outputFrames) /\ AllOK(unhandled)
    BY <1>1 DEF IInv, SenderGood
  <2>2. \A s \in DOMAIN outputBackup : AllOK(outputBackup[s])
    BY <1>1 DEF IInv, SenderGood, IsMap
  <2>3. \A m \in toReceiver : AllOK(m.frames)
    BY <1>1 DEF IInv, WireGood
  <2>4. \A o \in DOMAIN inputOrderingQueue :
          o < Len(sent) /\ inputOrderingQueue[o] = sent[o + 1]
    BY DEF IInv, QueueGood
  <2>5. \A id \in DOMAIN fragmentsQueue : \A i \in DOMAIN fragmentsQueue[id] :
          LET f == fragmentsQueue[id][i] IN
          FrameOK(f) /\ f.splitSize > 0 /\ f.splitId = id /\ f.splitFrameIndex = i
    BY DEF IInv, FragmentsGood, FragmentGood, GoodFrame
  <2> QED
    BY <2>1, <2>2, <2>3, <2>4, <2>5 DEF FramesCarryWhatWasSent
<1> QED
  BY <1>2, Inductive, PTL

\* The step of handleOrdered that fills a gap is a delivery of the abstract
\* channel; every other step of the receiver, of tick, of Ack and Nack and of
\* the network is invisible to the users of the session.
THEOREM Refinement == Spec => ImplementsOrderedChannel
<1>1. Init => OC!Init
  BY DEF Init, OC!Init
<1>2. IInv /\ IInv' /\ [Next]_vars => [OC!Next]_(OC!vars)
  <2> SUFFICES ASSUME IInv, IInv', [Next]_vars
               PROVE  [OC!Next]_(OC!vars)
    OBVIOUS
  <2>1. ASSUME NEW p \in Payload, NEW fits \in BOOLEAN, NEW high \in BOOLEAN,
               Send(p, fits, high)
        PROVE  OC!Send(p)
    BY <2>1 DEF Send, OC!Send, receiverVars, orderVars
  <2>2. ASSUME HandleFrame
        PROVE  [\E n \in 1..Len(sent) : OC!Deliver(n)]_(OC!vars)
    <3>1. UNCHANGED sent
      BY <2>2 DEF HandleFrame, senderVars
    <3>2. CASE UNCHANGED delivered
      BY <3>1, <3>2 DEF OC!vars
    <3>3. CASE delivered' # delivered
      <4> DEFINE n == Len(delivered')
      <4>1. /\ delivered \in Seq(Seq(Chunks)) /\ delivered' \in Seq(Seq(Chunks))
            /\ sent \in Seq(Payload) /\ inputOrderIndex \in Nat
        BY DEF IInv, TypeOK
      <4>2. /\ n <= Len(sent) /\ \A k \in 1..n : delivered'[k] = sent[k]
            /\ n = inputOrderIndex' /\ Len(delivered) = inputOrderIndex
        BY <3>1 DEF IInv, InOrderExactlyOnce
      <4>3. inputOrderIndex' > inputOrderIndex
        <5>1. ASSUME NEW order, NEW payload, HandleOrdered(order, payload)
              PROVE  inputOrderIndex' > inputOrderIndex
          <6>1. CASE InTurn(order)
            <7>1. PICK next \in (inputOrderIndex + 1)..MaxFrames : inputOrderIndex' = next
              BY <5>1, <6>1 DEF HandleOrdered
            <7> QED
              BY <4>1, <7>1, Bounds
          <6>2. CASE ~InTurn(order)
            BY <3>3, <5>1, <6>2 DEF HandleOrdered, orderVars
          <6> QED
            BY <6>1, <6>2
        <5>2. ASSUME NEW f, HandleSplit(f)
              PROVE  inputOrderIndex' > inputOrderIndex
          BY <3>3, <5>1, <5>2 DEF HandleSplit, orderVars
        <5> QED
          BY <2>2, <3>3, <5>1, <5>2 DEF HandleFrame, orderVars
      <4>4. delivered' = SubSeq(sent, 1, n)
        BY <4>1, <4>2
      <4>5. n \in 1..Len(sent) /\ n > Len(delivered)
        BY <4>1, <4>2, <4>3
      <4> QED
        BY <3>1, <4>4, <4>5 DEF OC!Deliver
    <3> QED
      BY <3>2, <3>3
  <2>3. ASSUME \/ \E due \in SUBSET DOMAIN outputBackup : SenderTick(due)
               \/ \E m : OnAck(m) \/ OnNack(m) \/ OnFrameSet(m) \/ LoseFrameSet(m)
               \/ \E cleanup, expired : ReceiverTick(cleanup, expired)
               \/ UNCHANGED vars
        PROVE  UNCHANGED OC!vars
    BY <2>3
    DEF SenderTick, OnAck, OnNack, OnFrameSet, LoseFrameSet, ReceiverTick,
        vars, senderVars, receiverVars, orderVars, OC!vars
  <2> QED
    BY <2>1, <2>2, <2>3 DEF Next, OC!Next
<1> QED
  BY <1>1, <1>2, Inductive, PTL DEF Spec, ImplementsOrderedChannel, OC!Spec
===============================================================================
