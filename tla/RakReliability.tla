---------------------------- MODULE RakReliability ----------------------------
(***************************************************************************)
(* The reliability layer of packages/raknet (NetworkSession): one direction *)
(* of traffic between two sessions whose status is Connected.  Everything  *)
(* this repository sends goes through frameAndSend, that is with           *)
(* reliability ReliableOrdered on order channel 0, so this is the only     *)
(* combination modelled.                                                   *)
(*                                                                         *)
(* The sender half is the output state of one session, the receiver half   *)
(* the input state of the other.  A session's tick() serves both halves;   *)
(* SenderTick is what it does to the output state, ReceiverTick what it    *)
(* does to the input state.  The network is UDP: a datagram may be lost,   *)
(* duplicated, delayed and reordered, never altered.                       *)
(*                                                                         *)
(* Time is abstracted: which outputBackup entries are older than           *)
(* retransmitInterval, whether the 5 s cleanup is due and which partial    *)
(* compounds are older than FRAGMENT_TIMEOUT are nondeterministic.         *)
(*                                                                         *)
(* onFrameSet handles all the frames of a datagram before anything else    *)
(* runs in the process.  The loop is one step per frame (HandleFrame): the *)
(* frames still to be handled are in "unhandled", and while there are any  *)
(* nothing else happens.  The steps of the sender and of the network read  *)
(* and write nothing HandleFrame does, so leaving them to before or after  *)
(* the loop excludes no behaviour.                                         *)
(***************************************************************************)
EXTENDS Integers, Sequences, FiniteSets, Functions

CONSTANTS
  Payload,         \* what the user sends: a nonempty sequence of chunks, one
                   \* chunk for every mtu - 36 bytes or part of it
  ReceiveWindow,   \* RECEIVE_WINDOW, 2048 in the code
  ReliableWindow,  \* RELIABLE_WINDOW, 4096 in the code
  SplitIdSpace,    \* number of split ids, 2^16 in the code
  FragmentsExpire, \* whether partial compounds may reach FRAGMENT_TIMEOUT
  FramesGetLost,   \* whether frame sets are lost; where only safety is asked,
                   \* not delivering a datagram is as good as losing it, and
                   \* so it is for Acks and Nacks, which nothing waits for
  MaxFrames,       \* bound: frames the sender numbers in a behaviour
  MaxCompounds     \* bound: split payloads the sender sends in a behaviour

Chunks == UNION {{p[i] : i \in 1..Len(p)} : p \in Payload}

ASSUME PayloadAssumption == \A p \in Payload : p \in Seq(Chunks) /\ p # <<>>
ASSUME WindowAssumption == ReceiveWindow \in Nat /\ ReliableWindow \in Nat
ASSUME FlagAssumption == FragmentsExpire \in BOOLEAN /\ FramesGetLost \in BOOLEAN

\* Sequence numbers and reliable indices are 24 bits wide on the wire and
\* split ids 16 bits: the bounds keep a behaviour below the first reuse.
ASSUME BoundAssumption ==
  /\ MaxFrames \in Nat /\ MaxFrames <= 2^24
  /\ SplitIdSpace \in Nat \ {0}
  /\ MaxCompounds \in Nat /\ MaxCompounds <= SplitIdSpace

VARIABLES
  \* the sending session
  outputOrderIndex, outputReliableIndex, outputSplitIndex, outputSequence,
  outputFrames, outputBackup,
  \* the receiving session
  receivedFrameSequences, lostFrameSequences, pendingAcks, lastInputSequence,
  unhandled, fragmentsQueue, inputOrderIndex, inputOrderingQueue,
  receivedReliableFrameIndices, highestReliableIndex,
  \* datagrams in flight
  toReceiver, toSender,
  \* history: what was sent, what came out, and whose compound a split id is
  sent, delivered, splitOwner

senderVars == <<outputOrderIndex, outputReliableIndex, outputSplitIndex,
                outputSequence, outputFrames, outputBackup, sent, splitOwner>>
windowVars == <<receivedFrameSequences, lostFrameSequences, pendingAcks,
                lastInputSequence>>
reliableVars == <<receivedReliableFrameIndices, highestReliableIndex>>
orderVars == <<inputOrderIndex, inputOrderingQueue, delivered>>
receiverVars == <<windowVars, unhandled, fragmentsQueue, reliableVars, orderVars>>
vars == <<senderVars, receiverVars, toReceiver, toSender>>

MapSet(f, k, v) == [x \in DOMAIN f \cup {k} |-> IF x = k THEN v ELSE f[x]]

-------------------------------------------------------------------------------
(* Frames and datagrams *)

FrameSet(seq, frames) == [sequence |-> seq, frames |-> frames]
AckPacket(type, seqs) == [type |-> type, sequences |-> seqs]

\* sendSplit: the id of the next compound.
SplitId_NotAdvanced(index) == 0
SplitId(index) == index % SplitIdSpace

\* sendFrame / sendSplit: a frame, or each fragment of one, takes an index.
ReliableIndicesUsed_FrameToo(p) == IF Len(p) > 1 THEN Len(p) + 1 ELSE 1
ReliableIndicesUsed(p) == Len(p)

\* sendFrame / sendSplit: a payload of more than one chunk is cut into
\* fragments that share the order index and the split id.
Frames(p, order, reliable, splitId) ==
  [i \in 1..Len(p) |->
     [reliableFrameIndex |-> reliable + (i - 1),
      orderedFrameIndex  |-> order,
      payload            |-> IF Len(p) = 1 THEN p ELSE <<p[i]>>,
      splitSize          |-> IF Len(p) = 1 THEN 0 ELSE Len(p),
      splitId            |-> IF Len(p) = 1 THEN 0 ELSE splitId,
      splitFrameIndex    |-> i - 1]]

-------------------------------------------------------------------------------
Init ==
  /\ outputOrderIndex = 0 /\ outputReliableIndex = 0
  /\ outputSplitIndex = 0 /\ outputSequence = 0
  /\ outputFrames = <<>> /\ outputBackup = [s \in {} |-> <<>>]
  /\ receivedFrameSequences = {} /\ lostFrameSequences = {}
  /\ pendingAcks = {} /\ lastInputSequence = -1
  /\ unhandled = <<>> /\ fragmentsQueue = [id \in {} |-> <<>>]
  /\ inputOrderIndex = 0 /\ inputOrderingQueue = [o \in {} |-> <<>>]
  /\ receivedReliableFrameIndices = {} /\ highestReliableIndex = -1
  /\ toReceiver = {} /\ toSender = {}
  /\ sent = <<>> /\ delivered = <<>> /\ splitOwner = <<>>

-------------------------------------------------------------------------------
(* The sending session *)

\* flush, for several batches in a row: each becomes a frame set under the
\* next sequence number, is kept in outputBackup and goes on the wire.
Backup_NotKept(batches) == outputBackup
Backup(batches) ==
  [s \in DOMAIN outputBackup \cup
         {outputSequence + (i - 1) : i \in 1..Len(batches)} |->
     IF s < outputSequence THEN outputBackup[s]
     ELSE batches[s - outputSequence + 1]]

Flush(batches) ==
  /\ outputSequence' = outputSequence + Len(batches)
  /\ outputBackup' = Backup(batches)

Flushed(batches) ==
  {FrameSet(outputSequence + (i - 1), batches[i]) : i \in 1..Len(batches)}

Pending == IF outputFrames = <<>> THEN <<>> ELSE <<outputFrames>>

\* queueFrame: only a payload of one chunk can fit beside the frames that
\* wait; a fragment that is not the last fills a datagram, so each frame that
\* follows one flushes it first.
Batches(frames, fits) ==
  IF fits THEN <<>>
  ELSE Pending \o [i \in 1..(Len(frames) - 1) |-> <<frames[i]>>]
Rest(frames, fits) ==
  IF fits THEN Append(outputFrames, frames[1]) ELSE <<frames[Len(frames)]>>

\* frameAndSend -> sendFrame (-> sendSplit) -> queueFrame.  "fits" says whether
\* the frame still fits in the datagram being filled, "high" is Priority.High.
Send(p, fits, high) ==
  LET frames == Frames(p, outputOrderIndex, outputReliableIndex,
                       SplitId(outputSplitIndex))
      rest == Rest(frames, fits)
      batches == Batches(frames, fits) \o (IF high THEN <<rest>> ELSE <<>>)
  IN
  /\ fits => Len(p) = 1
  /\ outputReliableIndex + Len(p) <= MaxFrames
  /\ Len(p) > 1 => outputSplitIndex < MaxCompounds
  /\ outputOrderIndex' = outputOrderIndex + 1
  /\ outputReliableIndex' = outputReliableIndex + ReliableIndicesUsed(p)
  /\ IF Len(p) > 1
     THEN /\ outputSplitIndex' = outputSplitIndex + 1
          /\ splitOwner' = Append(splitOwner, outputOrderIndex)
     ELSE UNCHANGED <<outputSplitIndex, splitOwner>>
  /\ outputFrames' = IF high THEN <<>> ELSE rest
  /\ Flush(batches)
  /\ toReceiver' = toReceiver \cup Flushed(batches)
  /\ sent' = Append(sent, p)
  /\ UNCHANGED <<receiverVars, toSender>>

\* tick: retransmit the backup entries that are due, then flush.
SenderTick(due) ==
  /\ outputFrames' = <<>>
  /\ Flush(Pending)
  /\ toReceiver' = toReceiver \cup Flushed(Pending)
                     \cup {FrameSet(s, outputBackup[s]) : s \in due}
  /\ UNCHANGED <<outputOrderIndex, outputReliableIndex, outputSplitIndex, sent,
                 splitOwner, receiverVars, toSender>>

Acked_UpTo(m) == {s \in DOMAIN outputBackup : \E t \in m.sequences : s <= t}
Acked(m) == m.sequences

OnAck(m) ==
  /\ m.type = "ack"
  /\ outputBackup' = Restrict(outputBackup, DOMAIN outputBackup \ Acked(m))
  /\ UNCHANGED <<outputOrderIndex, outputReliableIndex, outputSplitIndex,
                 outputSequence, outputFrames, sent, splitOwner,
                 receiverVars, toReceiver, toSender>>

OnNack(m) ==
  /\ m.type = "nack"
  /\ toReceiver' = toReceiver \cup
       {FrameSet(s, outputBackup[s]) : s \in m.sequences \cap DOMAIN outputBackup}
  /\ UNCHANGED <<senderVars, receiverVars, toSender>>

-------------------------------------------------------------------------------
(* The receiving session *)

Idle == unhandled = <<>>

Gap_OffByOne(seq) == (lastInputSequence + 1)..seq
Gap(seq) == {i \in (lastInputSequence + 1)..(seq - 1) : i \notin receivedFrameSequences}

OnFrameSet(m) ==
  /\ m.sequence \notin receivedFrameSequences
  /\ receivedFrameSequences' = receivedFrameSequences \cup {m.sequence}
  /\ pendingAcks' = pendingAcks \cup {m.sequence}
  /\ IF m.sequence > lastInputSequence
     THEN /\ lostFrameSequences' = (lostFrameSequences \ {m.sequence}) \cup Gap(m.sequence)
          /\ lastInputSequence' = m.sequence
     ELSE /\ lostFrameSequences' = lostFrameSequences \ {m.sequence}
          /\ UNCHANGED lastInputSequence
  /\ unhandled' = m.frames
  /\ UNCHANGED <<fragmentsQueue, reliableVars, orderVars, senderVars,
                 toReceiver, toSender>>

\* handleOrdered: deliver in turn, park what is ahead, drop what is behind.
InTurn_OrLater(order) == order >= inputOrderIndex
InTurn(order) == order = inputOrderIndex

\* The drain loop takes everything up to the first gap out of the queue.
DrainsUpTo(next) ==
  /\ \A o \in (inputOrderIndex + 1)..(next - 1) : o \in DOMAIN inputOrderingQueue
  /\ next \notin DOMAIN inputOrderingQueue

Drained_AllButLast(next) == (inputOrderIndex + 1)..(next - 2)
Drained(next) == (inputOrderIndex + 1)..(next - 1)

HandleOrdered(order, payload) ==
  \/ /\ InTurn(order)
     /\ \E next \in (inputOrderIndex + 1)..MaxFrames :
          /\ DrainsUpTo(next)
          /\ inputOrderIndex' = next
          /\ inputOrderingQueue' =
               Restrict(inputOrderingQueue, DOMAIN inputOrderingQueue \ Drained(next))
          /\ delivered' = Append(delivered, payload) \o
               [i \in 1..(next - inputOrderIndex - 1) |->
                  inputOrderingQueue[inputOrderIndex + i]]
  \/ /\ ~InTurn(order) /\ order > inputOrderIndex
     /\ inputOrderingQueue' = MapSet(inputOrderingQueue, order, payload)
     /\ UNCHANGED <<inputOrderIndex, delivered>>
  \/ /\ ~InTurn(order) /\ order < inputOrderIndex
     /\ UNCHANGED orderVars

\* handleSplit: add the fragment; when their number reaches splitSize,
\* reassemble if all the indices are there, else drop the compound.
Fragments(f) ==
  MapSet(IF f.splitId \in DOMAIN fragmentsQueue
         THEN fragmentsQueue[f.splitId] ELSE [i \in {} |-> f],
         f.splitFrameIndex, f)

Complete(entry, f) == Cardinality(DOMAIN entry) = f.splitSize

HandleSplit(f) ==
  LET entry == Fragments(f)
      whole == \A i \in 0..(f.splitSize - 1) : i \in DOMAIN entry
      dropped == Restrict(fragmentsQueue, DOMAIN fragmentsQueue \ {f.splitId})
  IN
  \/ /\ ~Complete(entry, f)
     /\ fragmentsQueue' = MapSet(fragmentsQueue, f.splitId, entry)
     /\ UNCHANGED orderVars
  \/ /\ Complete(entry, f) /\ ~whole
     /\ fragmentsQueue' = dropped
     /\ UNCHANGED orderVars
  \/ /\ Complete(entry, f) /\ whole
     /\ fragmentsQueue' = dropped
     /\ HandleOrdered(f.orderedFrameIndex,
                      [i \in 1..f.splitSize |-> entry[i - 1].payload[1]])

MaxOf(a, b) == IF a > b THEN a ELSE b

HandleFrame ==
  /\ ~Idle
  /\ unhandled' = Tail(unhandled)
  /\ LET f == Head(unhandled) IN
     IF f.reliableFrameIndex \in receivedReliableFrameIndices
     THEN UNCHANGED <<reliableVars, fragmentsQueue, orderVars>>
     ELSE /\ receivedReliableFrameIndices' =
               receivedReliableFrameIndices \cup {f.reliableFrameIndex}
          /\ highestReliableIndex' = MaxOf(highestReliableIndex, f.reliableFrameIndex)
          /\ IF f.splitSize > 0
             THEN HandleSplit(f)
             ELSE /\ HandleOrdered(f.orderedFrameIndex, f.payload)
                  /\ UNCHANGED fragmentsQueue
  /\ UNCHANGED <<windowVars, senderVars, toReceiver, toSender>>

\* tick: the cleanup of the windows and of the fragments that are too old, if
\* it is due, then an Ack and a Nack for what has been gathered.
Window(S, start) == IF start > 0 THEN {s \in S : s >= start} ELSE S

Acks_ClearedBefore == {}
Acks == pendingAcks

ReceiverTick(cleanup, expired) ==
  LET received == IF cleanup THEN Window(receivedFrameSequences, lastInputSequence - ReceiveWindow)
                  ELSE receivedFrameSequences
      lost == IF cleanup THEN Window(lostFrameSequences, lastInputSequence - ReceiveWindow)
              ELSE lostFrameSequences
      reliable == IF cleanup THEN Window(receivedReliableFrameIndices,
                                         highestReliableIndex - ReliableWindow)
                  ELSE receivedReliableFrameIndices
  IN
  /\ expired # {} => cleanup /\ FragmentsExpire
  /\ receivedFrameSequences' = received
  /\ receivedReliableFrameIndices' = reliable
  /\ fragmentsQueue' = Restrict(fragmentsQueue, DOMAIN fragmentsQueue \ expired)
  /\ toSender' = toSender
       \cup (IF Acks # {} THEN {AckPacket("ack", Acks)} ELSE {})
       \cup (IF lost # {} THEN {AckPacket("nack", lost)} ELSE {})
  /\ pendingAcks' = {} /\ lostFrameSequences' = {}
  /\ UNCHANGED <<lastInputSequence, highestReliableIndex, unhandled, orderVars,
                 senderVars, toReceiver>>

-------------------------------------------------------------------------------
(* The network *)

LoseFrameSet(m) ==
  /\ FramesGetLost
  /\ toReceiver' = toReceiver \ {m}
  /\ UNCHANGED <<senderVars, receiverVars, toSender>>

-------------------------------------------------------------------------------
Next ==
  \/ HandleFrame
  \/ /\ Idle
     /\ \/ \E p \in Payload, fits, high \in BOOLEAN : Send(p, fits, high)
        \/ \E due \in SUBSET DOMAIN outputBackup : SenderTick(due)
        \/ \E m \in toSender : OnAck(m)
        \/ \E m \in toSender : OnNack(m)
        \/ \E m \in toReceiver : OnFrameSet(m)
        \/ \E cleanup \in BOOLEAN, expired \in SUBSET DOMAIN fragmentsQueue :
             ReceiverTick(cleanup, expired)
        \/ \E m \in toReceiver : LoseFrameSet(m)

Spec == Init /\ [][Next]_vars

\* What the code's timers and a network that is not dead justify: the
\* keepalive timer runs tick() again and again, each backup entry grows old
\* enough to be retransmitted, a datagram sent again and again arrives once.
Fairness ==
  /\ WF_vars(HandleFrame)
  /\ WF_vars(Idle /\ \E cleanup \in BOOLEAN, expired \in SUBSET DOMAIN fragmentsQueue :
                       ReceiverTick(cleanup, expired))
  /\ WF_vars(Idle /\ Pending # <<>>
             /\ \E due \in SUBSET DOMAIN outputBackup : SenderTick(due))
  /\ \A s \in 0..(MaxFrames - 1) :
       /\ SF_vars(Idle /\ \E due \in SUBSET DOMAIN outputBackup :
                            s \in due /\ SenderTick(due))
       /\ SF_vars(Idle /\ \E m \in toReceiver : m.sequence = s /\ OnFrameSet(m))

FairSpec == Spec /\ Fairness

-------------------------------------------------------------------------------
(* Properties *)

Frame == [reliableFrameIndex : Nat, orderedFrameIndex : Nat,
          payload : Seq(Chunks) \ {<<>>}, splitSize : Nat, splitId : Nat, splitFrameIndex : Nat]

\* f is a map from some naturals to elements of S
IsMap(f, S) == DOMAIN f \subseteq Nat /\ \A x \in DOMAIN f : f[x] \in S

\* The types of the fields of the two NetworkSessions and of the datagrams.
TypeOK ==
  /\ outputOrderIndex \in Nat /\ outputReliableIndex \in 0..MaxFrames
  /\ outputSplitIndex \in 0..MaxCompounds /\ outputSequence \in Nat
  /\ outputFrames \in Seq(Frame) /\ IsMap(outputBackup, Seq(Frame))
  /\ \A s \in DOMAIN outputBackup : s < outputSequence
  /\ receivedFrameSequences \subseteq Nat /\ lostFrameSequences \subseteq Nat
  /\ pendingAcks \subseteq Nat /\ lastInputSequence \in Nat \cup {-1}
  /\ unhandled \in Seq(Frame)
  /\ DOMAIN fragmentsQueue \subseteq Nat
  /\ \A id \in DOMAIN fragmentsQueue : IsMap(fragmentsQueue[id], Frame)
  /\ inputOrderIndex \in Nat /\ IsMap(inputOrderingQueue, Seq(Chunks))
  /\ receivedReliableFrameIndices \subseteq Nat
  /\ highestReliableIndex \in Nat \cup {-1}
  /\ toReceiver \subseteq [sequence : Nat, frames : Seq(Frame)]
  /\ toSender \subseteq [type : {"ack", "nack"}, sequences : SUBSET Nat]
  /\ sent \in Seq(Payload) /\ delivered \in Seq(Seq(Chunks))
  /\ splitOwner \in Seq(Nat)

\* What comes out of "encapsulated" is, message by message, what went into
\* frameAndSend: nothing skipped, repeated, reordered, mixed up out of the
\* fragments of two payloads or delivered before it is whole, whatever the
\* network does, and however early the windows forget what was received.
InOrderExactlyOnce ==
  /\ Len(delivered) = inputOrderIndex
  /\ Len(delivered) <= Len(sent)
  /\ \A k \in 1..Len(delivered) : delivered[k] = sent[k]

\* Every frame that is anywhere in the system carries the piece of the sent
\* payload that its order index and its fragment index name, and fragments that
\* meet under one split id are fragments of one payload.
FrameOK(f) ==
  /\ f.orderedFrameIndex < Len(sent)
  /\ LET p == sent[f.orderedFrameIndex + 1] IN
     IF f.splitSize = 0
     THEN f.payload = p
     ELSE /\ f.splitSize = Len(p) /\ f.splitFrameIndex < Len(p)
          /\ f.payload = <<p[f.splitFrameIndex + 1]>>
          /\ f.splitId < Len(splitOwner)
          /\ splitOwner[f.splitId + 1] = f.orderedFrameIndex

AllOK(frames) == \A k \in 1..Len(frames) : FrameOK(frames[k])

FramesCarryWhatWasSent ==
  /\ AllOK(outputFrames) /\ AllOK(unhandled)
  /\ \A s \in DOMAIN outputBackup : AllOK(outputBackup[s])
  /\ \A m \in toReceiver : AllOK(m.frames)
  /\ \A id \in DOMAIN fragmentsQueue : \A i \in DOMAIN fragmentsQueue[id] :
       LET f == fragmentsQueue[id][i] IN
       FrameOK(f) /\ f.splitSize > 0 /\ f.splitId = id /\ f.splitFrameIndex = i
  /\ \A o \in DOMAIN inputOrderingQueue :
       o < Len(sent) /\ inputOrderingQueue[o] = sent[o + 1]

\* The ordering queue holds only what is still ahead of the cursor: the drain
\* loop of handleOrdered leaves nothing behind, neither a deliverable payload
\* that waits for ever nor one that was already delivered.
QueueAheadOfCursor ==
  \A o \in DOMAIN inputOrderingQueue : inputOrderIndex < o

\* A Nack never asks for a frame set that has arrived, nor for one that no gap
\* has shown to be missing.
LostAreMissing ==
  \A s \in lostFrameSequences :
    s \notin receivedFrameSequences /\ s < lastInputSequence

\* As long as partial compounds do not expire, each piece of each payload that
\* is neither delivered nor parked in the ordering queue is somewhere it can
\* still come from: waiting for a flush, in a backup entry the receiver would
\* still accept, in the datagram being handled, or among the fragments.  So
\* an Ack never makes the sender forget what the receiver has not processed,
\* and neither duplicate check swallows what is still needed.
Piece(f, order, i) == f.orderedFrameIndex = order /\ f.splitFrameIndex = i

Recoverable(order, i) ==
  \/ \E f \in Range(outputFrames) : Piece(f, order, i)
  \/ \E s \in DOMAIN outputBackup \ receivedFrameSequences :
       \E f \in Range(outputBackup[s]) :
         /\ Piece(f, order, i)
         /\ f.reliableFrameIndex \notin receivedReliableFrameIndices
  \/ \E f \in Range(unhandled) :
       /\ Piece(f, order, i)
       /\ f.reliableFrameIndex \notin receivedReliableFrameIndices
  \/ \E id \in DOMAIN fragmentsQueue :
       \E f \in Range(fragmentsQueue[id]) : Piece(f, order, i)

NothingLost ==
  \A order \in inputOrderIndex..(Len(sent) - 1) :
    order \notin DOMAIN inputOrderingQueue =>
      \A i \in 0..(Len(sent[order + 1]) - 1) : Recoverable(order, i)

\* The session is an ordered channel: each step of the protocol is a send, a
\* delivery of the next payloads in order, or invisible.
OC == INSTANCE OrderedChannel
        WITH Payload <- Payload, sent <- sent, delivered <- delivered
ImplementsOrderedChannel == OC!Spec

\* Every payload sent is delivered in the end.
EverySentDelivered ==
  \A k \in 1..MaxFrames : (Len(sent) >= k) ~> (Len(delivered) >= k)

\* If the Acks that are sent are received in the end, the sender forgets
\* everything again and again, and stops retransmitting.
AcksArrive == SF_vars(Idle /\ \E m \in toSender : OnAck(m))
BackupDrains == AcksArrive => []<>(DOMAIN outputBackup = {})
===============================================================================
