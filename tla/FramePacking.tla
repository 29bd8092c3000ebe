----------------------------- MODULE FramePacking -----------------------------
(***************************************************************************)
(* How frameAndSend fills datagrams, in bytes: sendFrame and sendSplit cut *)
(* a payload, queueFrame gathers frames until the next would not fit,      *)
(* flush sends them.  RakReliability leaves the bytes out and lets a frame *)
(* fit or not as it likes; this module has the budget, one queueFrame per  *)
(* step, and is shown to do what RakReliability's sender may do.           *)
(*                                                                         *)
(* A payload is the number of its bytes, a chunk of it likewise.           *)
(***************************************************************************)
EXTENDS Integers, Sequences, SequencesExt

CONSTANTS
  Mtu,          \* of the session, after the handshake
  Size,         \* the payloads the user sends, in bytes
  MaxFrames,    \* bound: frames the sender numbers in a behaviour
  MaxCompounds  \* bound: split payloads the sender sends in a behaviour

HeaderSize == 36   \* MTU_HEADER_SIZE
MaxSize == Mtu - HeaderSize

\* Nothing in the code keeps an mtu from being so small that no byte of payload
\* fits, or so large that the length field, 16 bits that count bits, overflows.
ASSUME MtuAssumption == Mtu \in Nat /\ MaxSize > 0 /\ 8 * MaxSize < 2^16
ASSUME SizeAssumption == Size \subseteq Nat
ASSUME PackingBoundAssumption == MaxFrames \in Nat /\ MaxCompounds \in Nat

VARIABLES
  outputOrderIndex, outputReliableIndex, outputSplitIndex, outputSequence,
  outputFrames, outputBackup,
  outputBytes,  \* what queueFrame adds up over outputFrames
  queue, high,  \* frames of the payload still to be queued, and its priority
  wire,         \* the frame sets sent
  bytes,        \* the length of each
  sent,         \* history: the payloads
  splitOwner,   \* history: whose compound a split id is
  before        \* history: what others saw before the payload being queued

packingVars == <<outputOrderIndex, outputReliableIndex, outputSplitIndex,
                 outputSequence, outputFrames, outputBackup, outputBytes, queue,
                 high, wire, bytes, sent, splitOwner, before>>

-------------------------------------------------------------------------------
(* Payloads and frames *)

\* sendSplit: ceil(byteLength / maxSize) chunks, all but the last full.
SplitSize_Floor(n) == IF n <= MaxSize THEN 1 ELSE n \div MaxSize
SplitSize(n) == IF n <= MaxSize THEN 1 ELSE (n + MaxSize - 1) \div MaxSize

SmallerOf(a, b) == IF a < b THEN a ELSE b
Chunk(n, i) == SmallerOf(MaxSize, n - (i - 1) * MaxSize)
ChunksOf(n) == [i \in 1..SplitSize(n) |-> Chunk(n, i)]

Frames(n) ==
  LET split == n > MaxSize IN
  [i \in 1..SplitSize(n) |->
     [reliableFrameIndex |-> outputReliableIndex + (i - 1),
      orderedFrameIndex  |-> outputOrderIndex,
      payload            |-> <<Chunk(n, i)>>,
      splitSize          |-> IF split THEN SplitSize(n) ELSE 0,
      splitId            |-> IF split THEN outputSplitIndex ELSE 0,
      splitFrameIndex    |-> i - 1]]

\* Frame.getByteLength of a ReliableOrdered frame
ByteLength_OfWhole(f) == 3 + f.payload[1] + 3 + 4
ByteLength(f) == 3 + f.payload[1] + 3 + 4 + (IF f.splitSize > 0 THEN 10 ELSE 0)

\* Frame.write: flags, length in bits, reliable index, order index and channel;
\* of a fragment also the number of fragments, the split id and its place.
Written(f) ==
  1 + 2 + 3 + (3 + 1) + (IF f.splitSize > 0 THEN 4 + 2 + 4 ELSE 0) + f.payload[1]

\* FrameSet.serialize: the id and the sequence number
DatagramHeader == 1 + 3

-------------------------------------------------------------------------------
PackingInit ==
  /\ outputOrderIndex = 0 /\ outputReliableIndex = 0
  /\ outputSplitIndex = 0 /\ outputSequence = 0
  /\ outputFrames = <<>> /\ outputBackup = [s \in {} |-> <<>>]
  /\ outputBytes = 0 /\ queue = <<>> /\ high = FALSE
  /\ wire = {} /\ bytes = <<>> /\ sent = <<>> /\ splitOwner = <<>>
  /\ before = [order |-> 0, reliable |-> 0, split |-> 0, sequence |-> 0,
               frames |-> <<>>, backup |-> [s \in {} |-> <<>>], wire |-> {},
               sent |-> <<>>, splitOwner |-> <<>>]

\* sendFrame and sendSplit, up to the first queueFrame
SendFrame(n, urgent) ==
  /\ queue = <<>>
  /\ outputReliableIndex + SplitSize(n) <= MaxFrames
  /\ n > MaxSize => outputSplitIndex < MaxCompounds
  /\ queue' = Frames(n) /\ high' = urgent
  /\ outputOrderIndex' = outputOrderIndex + 1
  /\ outputReliableIndex' = outputReliableIndex + SplitSize(n)
  /\ outputSplitIndex' = IF n > MaxSize THEN outputSplitIndex + 1 ELSE outputSplitIndex
  /\ sent' = Append(sent, n)
  /\ splitOwner' = IF n > MaxSize THEN Append(splitOwner, outputOrderIndex) ELSE splitOwner
  /\ before' = [order |-> outputOrderIndex, reliable |-> outputReliableIndex,
                split |-> outputSplitIndex, sequence |-> outputSequence,
                frames |-> outputFrames, backup |-> outputBackup, wire |-> wire,
                sent |-> sent, splitOwner |-> splitOwner]
  /\ UNCHANGED <<outputSequence, outputFrames, outputBackup, outputBytes, wire, bytes>>

\* flush, for several batches in a row; each with its length
Flush(batches, lengths) ==
  LET at(i) == outputSequence + (i - 1) IN
  /\ outputSequence' = outputSequence + Len(batches)
  /\ outputBackup' = [s \in DOMAIN outputBackup \cup {at(i) : i \in 1..Len(batches)} |->
                        IF s < outputSequence THEN outputBackup[s]
                        ELSE batches[s - outputSequence + 1]]
  /\ wire' = wire \cup {[sequence |-> at(i), frames |-> batches[i]] : i \in 1..Len(batches)}
  /\ bytes' = bytes \o lengths

\* flush returns at once when nothing waits
Waiting_EvenNothing(of) == <<of>>
Waiting(of) == IF outputFrames = <<>> THEN <<>> ELSE <<of>>

Full_OwnLengthOnly(f) == DatagramHeader + ByteLength(f) > Mtu - HeaderSize
Full(f) == DatagramHeader + outputBytes + ByteLength(f) > Mtu - HeaderSize

QueueFrame ==
  /\ queue # <<>>
  /\ LET f == Head(queue)
         first == IF Full(f) THEN Waiting(outputFrames) ELSE <<>>
         firstBytes == IF Full(f) THEN Waiting(DatagramHeader + outputBytes) ELSE <<>>
         frames == IF Full(f) THEN <<f>> ELSE Append(outputFrames, f)
         length == IF Full(f) THEN ByteLength(f) ELSE outputBytes + ByteLength(f)
     IN
     IF high
     THEN /\ Flush(Append(first, frames), Append(firstBytes, DatagramHeader + length))
          /\ outputFrames' = <<>> /\ outputBytes' = 0
     ELSE /\ Flush(first, firstBytes)
          /\ outputFrames' = frames /\ outputBytes' = length
  /\ queue' = Tail(queue)
  /\ UNCHANGED <<outputOrderIndex, outputReliableIndex, outputSplitIndex, high, sent,
                 splitOwner, before>>

\* tick: its last line
TickFlushes ==
  /\ queue = <<>>
  /\ Flush(Waiting(outputFrames), Waiting(DatagramHeader + outputBytes))
  /\ outputFrames' = <<>> /\ outputBytes' = 0
  /\ UNCHANGED <<outputOrderIndex, outputReliableIndex, outputSplitIndex, queue, high,
                 sent, splitOwner, before>>

PackingNext ==
  \/ \E n \in Size, urgent \in BOOLEAN : SendFrame(n, urgent)
  \/ QueueFrame
  \/ TickFlushes

PackingSpec == PackingInit /\ [][PackingNext]_packingVars

-------------------------------------------------------------------------------
(* Properties *)

Sums(s) == LET sum[i \in 0..Len(s)] == IF i = 0 THEN 0 ELSE sum[i - 1] + s[i] IN sum
Total(s) == Sums(s)[Len(s)]
Lengths(frames) == [i \in DOMAIN frames |-> Written(frames[i])]

\* The fields of the session, and that the lengths it reckons with are those of
\* what it writes.
PackingTypeOK ==
  /\ outputOrderIndex = Len(sent) /\ outputReliableIndex \in 0..MaxFrames
  /\ outputSplitIndex \in 0..MaxCompounds /\ outputSequence = Len(bytes)
  /\ outputBytes = Total(Lengths(outputFrames))
  /\ \A d \in wire : bytes[d.sequence + 1] = DatagramHeader + Total(Lengths(d.frames))
  /\ DOMAIN outputBackup = 0..(outputSequence - 1)
  /\ high \in BOOLEAN /\ sent \in Seq(Size)

\* No datagram is longer than the mtu that the handshake tried out, however
\* frames of different lengths, fragments and priorities follow each other.
DatagramFits == \A i \in DOMAIN bytes : bytes[i] <= Mtu

\* Every byte of every payload is in exactly one frame that is sent, waiting or
\* still to be queued.
OwnBytes(order, f) == IF f.orderedFrameIndex = order THEN f.payload[1] ELSE 0
FramesOf(order, frames) == Total([i \in DOMAIN frames |-> OwnBytes(order, frames[i])])
Flushed(order) ==
  Total([s \in 1..outputSequence |-> FramesOf(order, outputBackup[s - 1])])

BytesConserved ==
  \A k \in 1..Len(sent) :
    sent[k] = FramesOf(k - 1, queue) + FramesOf(k - 1, outputFrames) + Flushed(k - 1)

\* Seen from outside a payload is queued in one step, and each such step is one
\* of the sending session of RakReliability.  Its receiver never gets anything.
Seen(now, then) == IF queue = <<>> THEN now ELSE then

R == INSTANCE RakReliability WITH
  Payload <- {ChunksOf(n) : n \in Size}, ReceiveWindow <- 0, ReliableWindow <- 0,
  SplitIdSpace <- MaxCompounds + 1, FragmentsExpire <- FALSE, FramesGetLost <- FALSE,
  MaxFrames <- MaxFrames, MaxCompounds <- MaxCompounds,
  outputOrderIndex <- Seen(outputOrderIndex, before.order),
  outputReliableIndex <- Seen(outputReliableIndex, before.reliable),
  outputSplitIndex <- Seen(outputSplitIndex, before.split),
  outputSequence <- Seen(outputSequence, before.sequence),
  outputFrames <- Seen(outputFrames, before.frames),
  outputBackup <- Seen(outputBackup, before.backup),
  receivedFrameSequences <- {}, lostFrameSequences <- {}, pendingAcks <- {},
  lastInputSequence <- -1, unhandled <- <<>>, fragmentsQueue <- [s \in {} |-> <<>>],
  inputOrderIndex <- 0, inputOrderingQueue <- [s \in {} |-> <<>>],
  receivedReliableFrameIndices <- {}, highestReliableIndex <- -1,
  toReceiver <- Seen(wire, before.wire), toSender <- {},
  sent <- [k \in 1..Len(Seen(sent, before.sent)) |-> ChunksOf(Seen(sent, before.sent)[k])],
  delivered <- <<>>,
  splitOwner <- Seen(splitOwner, before.splitOwner)

ImplementsReliability == R!Spec
===============================================================================
