--------------------------- MODULE RakRecoveryProofs ---------------------------
(***************************************************************************)
(* Nothing that was sent is lost between the two sessions, for every       *)
(* payload, window and bound: as long as partial compounds do not expire,  *)
(* each piece can still reach the receiver until it has.                   *)
(*                                                                         *)
(* NothingLost is not inductive.  An Ack makes the sender forget a frame   *)
(* set, and the windows of the receiver may have forgotten by then that it *)
(* came.  So the invariant follows what the code has no field for: that a  *)
(* frame set whose number the receiver ever accepted holds nothing that is *)
(* still needed, and that no two frames share a reliable index.            *)
(***************************************************************************)
EXTENDS RakReliabilityProofs, FiniteSetTheorems

\* The piece has arrived: its payload was delivered or is parked, or it waits
\* among the fragments.
Settled(order, i) ==
  \/ order < inputOrderIndex
  \/ order \in DOMAIN inputOrderingQueue
  \/ \E id \in DOMAIN fragmentsQueue : \E j \in DOMAIN fragmentsQueue[id] :
       Piece(fragmentsQueue[id][j], order, i)

Done(f) == Settled(f.orderedFrameIndex, f.splitFrameIndex)

\* The frames of the two sessions and of the network.
Held ==
  Range(outputFrames) \cup Range(unhandled)
    \cup UNION {Range(outputBackup[s]) : s \in DOMAIN outputBackup}
Wire == UNION {Range(m.frames) : m \in toReceiver}

\* The frame sets that were received and acknowledged or will be.
Accepted ==
  receivedFrameSequences \cup pendingAcks
    \cup UNION {m.sequences : m \in {a \in toSender : a.type = "ack"}}

SequencesSent ==
  /\ \A s \in Accepted : s < outputSequence
  /\ \A m \in toReceiver :
       /\ m.sequence < outputSequence
       /\ m.sequence \in DOMAIN outputBackup => m.frames = outputBackup[m.sequence]

IndicesApart ==
  /\ receivedReliableFrameIndices \subseteq 0..(outputReliableIndex - 1)
  /\ \A f \in Held \cup Wire : f.reliableFrameIndex \in 0..(outputReliableIndex - 1)
  /\ \A f, g \in Held \cup Wire :
       f.reliableFrameIndex = g.reliableFrameIndex =>
         f.orderedFrameIndex = g.orderedFrameIndex /\ f.splitFrameIndex = g.splitFrameIndex

ReceivedDone ==
  \A f \in Held \cup Wire : f.reliableFrameIndex \in receivedReliableFrameIndices => Done(f)

AcceptedDone ==
  \A s \in Accepted \cap DOMAIN outputBackup : \A f \in Range(outputBackup[s]) :
    Done(f) \/ f \in Range(unhandled)

EachPieceSomewhere ==
  \A order \in 0..(Len(sent) - 1) : \A i \in 0..(Len(sent[order + 1]) - 1) :
    Settled(order, i) \/ \E f \in Held : Piece(f, order, i)

RecoveryInv ==
  SequencesSent /\ IndicesApart /\ ReceivedDone /\ AcceptedDone /\ EachPieceSomewhere

-------------------------------------------------------------------------------
(* Where frames are *)

\* The members of a sequence are of its type, and those of the rest of it are
\* all but the first.
LEMMA Members ==
  ASSUME NEW S, NEW s \in Seq(S)
  PROVE  /\ \A x : x \in Range(s) <=> \E k \in 1..Len(s) : x = s[k]
         /\ Range(s) \subseteq S
BY DEF Range

LEMMA MembersOfTail ==
  ASSUME NEW S, NEW s \in Seq(S), s # <<>>
  PROVE  \A x : x \in Range(s) <=> x = Head(s) \/ x \in Range(Tail(s))
<1>1. /\ Len(s) \in Nat /\ Len(s) > 0 /\ Head(s) = s[1] /\ Tail(s) \in Seq(S)
      /\ Len(Tail(s)) = Len(s) - 1 /\ \A k \in 1..(Len(s) - 1) : Tail(s)[k] = s[k + 1]
  OBVIOUS
<1>2. /\ \A x : x \in Range(s) <=> \E k \in 1..Len(s) : x = s[k]
      /\ \A x : x \in Range(Tail(s)) <=> \E k \in 1..(Len(s) - 1) : x = Tail(s)[k]
  <2> DEFINE t == Tail(s)
  <2>1. t \in Seq(S) /\ Len(t) = Len(s) - 1
    BY <1>1
  <2> HIDE DEF t
  <2>2. \A x : x \in Range(t) <=> \E k \in 1..Len(t) : x = t[k]
    BY <2>1, Members
  <2> QED
    BY <2>1, <2>2, Members DEF t
<1>3. \A k \in 2..Len(s) : k - 1 \in 1..(Len(s) - 1) /\ s[k] = Tail(s)[k - 1]
  BY <1>1
<1>4. ASSUME NEW x \in Range(s), x # s[1]
      PROVE  x \in Range(Tail(s))
  <2>1. PICK k \in 1..Len(s) : x = s[k]
    BY <1>2
  <2>2. k \in 2..Len(s)
    BY <1>1, <1>4, <2>1
  <2> QED
    BY <1>2, <1>3, <2>1, <2>2
<1>5. ASSUME NEW x, x = s[1] \/ x \in Range(Tail(s))
      PROVE  x \in Range(s)
  BY <1>1, <1>2, <1>5
<1> QED
  BY <1>1, <1>4, <1>5

\* Where a frame is that the sessions or the network hold.
LEMMA Whereabouts ==
  \A x : /\ x \in Held <=> \/ x \in Range(outputFrames)
                           \/ \E s \in DOMAIN outputBackup : x \in Range(outputBackup[s])
                           \/ x \in Range(unhandled)
         /\ x \in Wire <=> \E m \in toReceiver : x \in Range(m.frames)
BY DEF Held, Wire

\* All of them are good.
LEMMA HeldGood ==
  ASSUME IInv
  PROVE  \A g \in Held \cup Wire :
           g \in GoodFrame /\ g \in Frame /\ g.orderedFrameIndex \in Nat
             /\ g.reliableFrameIndex \in Nat
<1>1. /\ outputFrames \in Seq(GoodFrame) /\ unhandled \in Seq(GoodFrame)
      /\ \A s \in DOMAIN outputBackup : outputBackup[s] \in Seq(GoodFrame)
      /\ \A m \in toReceiver : m.frames \in Seq(GoodFrame)
  BY DEF IInv, SenderGood, IsMap, WireGood
<1>2. \A g \in Held \cup Wire : g \in GoodFrame
  BY <1>1, Members, Whereabouts
<1> QED
  BY <1>2 DEF GoodFrame, Frame

-------------------------------------------------------------------------------
(* The receiver *)

\* A payload that is handed to handleOrdered was delivered, is delivered or
\* parked, and nothing that was parked is dropped undelivered.
LEMMA HandleOrderedSettles ==
  ASSUME TypeOK, NEW order \in Nat, NEW payload, HandleOrdered(order, payload)
  PROVE  /\ order < inputOrderIndex' \/ order \in DOMAIN inputOrderingQueue'
         /\ \A o \in Nat : o < inputOrderIndex \/ o \in DOMAIN inputOrderingQueue =>
              o < inputOrderIndex' \/ o \in DOMAIN inputOrderingQueue'
<1>1. inputOrderIndex \in Nat /\ DOMAIN inputOrderingQueue \subseteq Nat /\ MaxFrames \in Nat
  BY Bounds DEF TypeOK, IsMap
<1>2. CASE InTurn(order)
  <2>1. PICK next \in (inputOrderIndex + 1)..MaxFrames :
          /\ inputOrderIndex' = next
          /\ inputOrderingQueue' =
               Restrict(inputOrderingQueue, DOMAIN inputOrderingQueue \ Drained(next))
    BY <1>2 DEF HandleOrdered
  <2>2. DOMAIN inputOrderingQueue' = DOMAIN inputOrderingQueue \ Drained(next)
    BY <2>1 DEF Restrict
  <2>3. \A o \in Drained(next) : o < next
    BY <1>1, <2>1 DEF Drained
  <2>4. next \in Nat /\ inputOrderIndex < next /\ order = inputOrderIndex
    BY <1>1, <1>2, <2>1 DEF InTurn
  <2>5. \A o \in DOMAIN inputOrderingQueue : o < next \/ o \in DOMAIN inputOrderingQueue'
    BY <2>2, <2>3
  <2> QED
    BY <1>1, <2>1, <2>4, <2>5
<1>3. CASE ~InTurn(order) /\ order > inputOrderIndex
  <2>1. /\ inputOrderIndex' = inputOrderIndex
        /\ inputOrderingQueue' = MapSet(inputOrderingQueue, order, payload)
    BY <1>1, <1>3 DEF HandleOrdered
  <2>2. DOMAIN inputOrderingQueue' = DOMAIN inputOrderingQueue \cup {order}
    BY <2>1 DEF MapSet
  <2> QED
    BY <2>1, <2>2
<1>4. CASE ~InTurn(order) /\ order < inputOrderIndex
  BY <1>1, <1>4 DEF HandleOrdered, orderVars
<1> QED
  BY <1>1, <1>2, <1>3, <1>4 DEF InTurn

\* When handleOrdered settles a payload, what was settled stays so if the
\* fragments that go are that payload's.
LEMMA SettledByOrder ==
  ASSUME TypeOK, NEW order \in Nat, NEW payload, HandleOrdered(order, payload),
         \A id \in DOMAIN fragmentsQueue : \A j \in DOMAIN fragmentsQueue[id] :
           \/ fragmentsQueue[id][j].orderedFrameIndex = order
           \/ id \in DOMAIN fragmentsQueue' /\ fragmentsQueue'[id] = fragmentsQueue[id]
  PROVE  /\ \A i : Settled(order, i)'
         /\ \A o \in Nat : \A i : Settled(o, i) => Settled(o, i)'
<1>1. /\ order < inputOrderIndex' \/ order \in DOMAIN inputOrderingQueue'
      /\ \A o \in Nat : o < inputOrderIndex \/ o \in DOMAIN inputOrderingQueue =>
           o < inputOrderIndex' \/ o \in DOMAIN inputOrderingQueue'
  BY HandleOrderedSettles
<1>2. \A i : Settled(order, i)'
  BY <1>1 DEF Settled
<1>3. ASSUME NEW o \in Nat, NEW i, Settled(o, i)
      PROVE  Settled(o, i)'
  <2>1. CASE o < inputOrderIndex \/ o \in DOMAIN inputOrderingQueue
    BY <1>1, <2>1 DEF Settled
  <2>2. CASE \E id \in DOMAIN fragmentsQueue : \E j \in DOMAIN fragmentsQueue[id] :
               Piece(fragmentsQueue[id][j], o, i)
    <3>0. PICK id \in DOMAIN fragmentsQueue :
            \E j \in DOMAIN fragmentsQueue[id] : Piece(fragmentsQueue[id][j], o, i)
      BY <2>2
    <3>1. PICK j \in DOMAIN fragmentsQueue[id] : Piece(fragmentsQueue[id][j], o, i)
      BY <3>0
    <3>2. CASE fragmentsQueue[id][j].orderedFrameIndex = order
      BY <1>2, <3>1, <3>2 DEF Piece
    <3>3. CASE id \in DOMAIN fragmentsQueue' /\ fragmentsQueue'[id] = fragmentsQueue[id]
      BY <3>1, <3>3 DEF Settled, Piece
    <3> QED
      BY <3>2, <3>3
  <2> QED
    BY <1>3, <2>1, <2>2 DEF Settled
<1> QED
  BY <1>2, <1>3

\* The fragments that a fragment joins are of its payload, each at its place.
LEMMA EntryGood ==
  ASSUME IInv, NEW f \in GoodFrame, f.splitSize > 0
  PROVE  /\ Fragments(f)[f.splitFrameIndex] = f /\ f.splitFrameIndex \in DOMAIN Fragments(f)
         /\ f.splitId \in DOMAIN fragmentsQueue =>
              DOMAIN fragmentsQueue[f.splitId] \subseteq DOMAIN Fragments(f)
         /\ \A i \in DOMAIN Fragments(f) :
              /\ i \in 0..(f.splitSize - 1)
              /\ Fragments(f)[i].orderedFrameIndex = f.orderedFrameIndex
              /\ Fragments(f)[i].splitFrameIndex = i
              /\ i # f.splitFrameIndex =>
                   /\ f.splitId \in DOMAIN fragmentsQueue
                   /\ i \in DOMAIN fragmentsQueue[f.splitId]
                   /\ Fragments(f)[i] = fragmentsQueue[f.splitId][i]
<1> DEFINE entry == Fragments(f)
<1>1. /\ TypeOK /\ FragmentsGood /\ f \in Frame /\ FrameOK(f)
  BY DEF IInv, GoodFrame
<1>2. /\ entry[f.splitFrameIndex] = f
      /\ \A i \in DOMAIN entry \ {f.splitFrameIndex} :
           /\ f.splitId \in DOMAIN fragmentsQueue
           /\ i \in DOMAIN fragmentsQueue[f.splitId]
           /\ entry[i] = fragmentsQueue[f.splitId][i]
  BY <1>1, FragmentsType
<1>3. /\ f.splitFrameIndex \in DOMAIN entry
      /\ f.splitId \in DOMAIN fragmentsQueue =>
           DOMAIN fragmentsQueue[f.splitId] \subseteq DOMAIN entry
  BY DEF Fragments, MapSet
<1> HIDE DEF entry
<1>4. ASSUME NEW i \in DOMAIN entry
      PROVE  FragmentGood(entry[i], f.splitId, i)
  <2>1. CASE i = f.splitFrameIndex
    BY <1>2, <2>1 DEF FragmentGood
  <2>2. CASE i # f.splitFrameIndex
    BY <1>1, <1>2, <2>2 DEF FragmentsGood
  <2> QED
    BY <2>1, <2>2
<1>5. ASSUME NEW i \in DOMAIN entry
      PROVE  /\ i \in 0..(f.splitSize - 1)
             /\ entry[i].orderedFrameIndex = f.orderedFrameIndex
             /\ entry[i].splitFrameIndex = i
  <2> PICK g : g = entry[i]
    OBVIOUS
  <2>1. /\ g \in Frame /\ FrameOK(g) /\ g.splitSize > 0 /\ g.splitId = f.splitId
        /\ g.splitFrameIndex = i
    BY <1>4 DEF FragmentGood, GoodFrame
  <2>2. i \in Nat /\ f.splitSize \in Nat /\ g.splitSize \in Nat
    BY <1>1, <2>1 DEF Frame
  <2>3. g.orderedFrameIndex = f.orderedFrameIndex
    BY <1>1, <2>1, <2>2 DEF FrameOK
  <2>4. g.splitSize = f.splitSize /\ g.splitFrameIndex < g.splitSize
    BY <1>1, <2>1, <2>2, <2>3 DEF FrameOK
  <2> QED
    BY <2>1, <2>2, <2>3, <2>4
<1> QED
  BY <1>2, <1>3, <1>5 DEF entry

\* As many fragments as the payload has are all of them: handleSplit never
\* drops a compound.
LEMMA CompleteIsWhole ==
  ASSUME IInv, NEW f \in GoodFrame, f.splitSize > 0, Complete(Fragments(f), f)
  PROVE  \A i \in 0..(f.splitSize - 1) : i \in DOMAIN Fragments(f)
<1> DEFINE all == 0..(f.splitSize - 1)
           some == DOMAIN Fragments(f)
<1>1. f.splitSize \in Nat
  BY DEF GoodFrame, Frame
<1>2. some \subseteq all
  BY EntryGood
<1>3. IsFiniteSet(all) /\ Cardinality(all) = f.splitSize
  <2> DEFINE n == f.splitSize
  <2>1. n \in Nat /\ n - 1 \in Int /\ n > 0
    BY <1>1
  <2> HIDE DEF n
  <2>2. IsFiniteSet(0..(n - 1)) /\ Cardinality(0..(n - 1)) = n
    BY <2>1, FS_Interval
  <2> QED
    BY <2>2 DEF n
<1>4. Cardinality(some) = f.splitSize
  BY DEF Complete
<1> HIDE DEF all, some
<1>5. all = some
  BY <1>2, <1>3, <1>4, FS_Subset
<1> QED
  BY <1>5 DEF all, some

\* What a frame brings is settled once it is handled, and what was settled
\* stays so: handleSplit.
LEMMA HandleSplitSettles ==
  ASSUME IInv, NEW f \in GoodFrame, f.splitSize > 0, HandleSplit(f)
  PROVE  Done(f)' /\ \A o \in Nat : \A i : Settled(o, i) => Settled(o, i)'
<1> DEFINE entry == Fragments(f)
           dropped == Restrict(fragmentsQueue, DOMAIN fragmentsQueue \ {f.splitId})
<1>1. /\ TypeOK /\ FragmentsGood /\ f \in Frame /\ f.orderedFrameIndex \in Nat
  BY DEF IInv, GoodFrame, Frame
<1>2. /\ entry[f.splitFrameIndex] = f /\ f.splitFrameIndex \in DOMAIN entry
      /\ f.splitId \in DOMAIN fragmentsQueue =>
           DOMAIN fragmentsQueue[f.splitId] \subseteq DOMAIN entry
      /\ \A i \in DOMAIN entry :
           /\ entry[i].orderedFrameIndex = f.orderedFrameIndex
           /\ entry[i].splitFrameIndex = i
           /\ i # f.splitFrameIndex => entry[i] = fragmentsQueue[f.splitId][i]
  BY EntryGood
<1>3. Complete(entry, f) => \A i \in 0..(f.splitSize - 1) : i \in DOMAIN entry
  BY CompleteIsWhole
<1>4. ASSUME f.splitId \in DOMAIN fragmentsQueue, NEW j \in DOMAIN fragmentsQueue[f.splitId]
      PROVE  /\ fragmentsQueue[f.splitId][j].orderedFrameIndex = f.orderedFrameIndex
             /\ fragmentsQueue[f.splitId][j].splitFrameIndex = j
  <2> PICK g : g = fragmentsQueue[f.splitId][j]
    OBVIOUS
  <2>1. /\ FrameOK(g) /\ g.splitSize > 0 /\ g.splitId = f.splitId /\ g.splitFrameIndex = j
        /\ g \in Frame
    BY <1>1, <1>4 DEF FragmentsGood, FragmentGood, GoodFrame
  <2>2. g.splitSize # 0 /\ f.splitSize # 0
    BY <1>1, <2>1 DEF Frame
  <2>3. g.orderedFrameIndex = f.orderedFrameIndex
    BY <2>1, <2>2 DEF FrameOK, GoodFrame
  <2> QED
    BY <2>1, <2>3
<1> HIDE DEF entry
<1>5. CASE ~Complete(entry, f)
  <2>1. fragmentsQueue' = MapSet(fragmentsQueue, f.splitId, entry) /\ UNCHANGED orderVars
    BY <1>5 DEF HandleSplit, entry
  <2>2. /\ f.splitId \in DOMAIN fragmentsQueue' /\ fragmentsQueue'[f.splitId] = entry
        /\ \A id \in DOMAIN fragmentsQueue :
             /\ id \in DOMAIN fragmentsQueue'
             /\ id # f.splitId => fragmentsQueue'[id] = fragmentsQueue[id]
    BY <2>1 DEF MapSet
  <2>3. Done(f)'
    BY <1>2, <2>2 DEF Done, Settled, Piece
  <2>4. ASSUME NEW o \in Nat, NEW i, Settled(o, i)
        PROVE  Settled(o, i)'
    <3>1. CASE o < inputOrderIndex \/ o \in DOMAIN inputOrderingQueue
      BY <2>1, <3>1 DEF Settled, orderVars
    <3>2. CASE \E id \in DOMAIN fragmentsQueue : \E j \in DOMAIN fragmentsQueue[id] :
                 Piece(fragmentsQueue[id][j], o, i)
      <4>1. PICK id \in DOMAIN fragmentsQueue :
              \E j \in DOMAIN fragmentsQueue[id] : Piece(fragmentsQueue[id][j], o, i)
        BY <3>2
      <4>2. PICK j \in DOMAIN fragmentsQueue[id] : Piece(fragmentsQueue[id][j], o, i)
        BY <4>1
      <4>3. CASE id # f.splitId
        BY <2>2, <4>2, <4>3 DEF Settled
      <4>4. CASE id = f.splitId
        <5>1. j \in DOMAIN entry
          BY <1>2, <4>4
        <5>2. Piece(entry[j], o, i)
          BY <1>2, <1>4, <4>2, <4>4, <5>1 DEF Piece
        <5> QED
          BY <2>2, <5>1, <5>2 DEF Settled
      <4> QED
        BY <4>3, <4>4
    <3> QED
      BY <2>4, <3>1, <3>2 DEF Settled
  <2> QED
    BY <2>3, <2>4
<1>6. CASE Complete(entry, f)
  <2>1. PICK payload : /\ fragmentsQueue' = dropped
                       /\ HandleOrdered(f.orderedFrameIndex, payload)
    BY <1>3, <1>6 DEF HandleSplit, entry
  <2>2. ASSUME NEW id \in DOMAIN fragmentsQueue, NEW j \in DOMAIN fragmentsQueue[id]
        PROVE  \/ fragmentsQueue[id][j].orderedFrameIndex = f.orderedFrameIndex
               \/ id \in DOMAIN fragmentsQueue' /\ fragmentsQueue'[id] = fragmentsQueue[id]
    BY <1>4, <2>1 DEF Restrict
  <2>3. /\ \A i : Settled(f.orderedFrameIndex, i)'
        /\ \A o \in Nat : \A i : Settled(o, i) => Settled(o, i)'
    <3> DEFINE order == f.orderedFrameIndex
    <3>1. order \in Nat /\ HandleOrdered(order, payload)
      BY <1>1, <2>1
    <3>2. \A id \in DOMAIN fragmentsQueue : \A j \in DOMAIN fragmentsQueue[id] :
            \/ fragmentsQueue[id][j].orderedFrameIndex = order
            \/ id \in DOMAIN fragmentsQueue' /\ fragmentsQueue'[id] = fragmentsQueue[id]
      BY <2>2
    <3> HIDE DEF order
    <3>3. /\ \A i : Settled(order, i)'
          /\ \A o \in Nat : \A i : Settled(o, i) => Settled(o, i)'
      BY <1>1, <3>1, <3>2, SettledByOrder
    <3> QED
      BY <3>3 DEF order
  <2> QED
    BY <2>3 DEF Done
<1> QED
  BY <1>5, <1>6

\* The same of handleFrame: whatever the frame is, it is settled behind it.
LEMMA HandleFrameSettles ==
  ASSUME IInv, HandleFrame, NEW f, f = Head(unhandled),
         f.reliableFrameIndex \in receivedReliableFrameIndices => Done(f)
  PROVE  Done(f)' /\ \A o \in Nat : \A i : Settled(o, i) => Settled(o, i)'
<1>1. TypeOK /\ unhandled \in Seq(GoodFrame)
  BY DEF IInv
<1>2. f \in GoodFrame /\ f \in Frame /\ f.orderedFrameIndex \in Nat
  BY <1>1 DEF HandleFrame, Idle, GoodFrame, Frame
<1>3. CASE f.reliableFrameIndex \in receivedReliableFrameIndices
  <2>1. UNCHANGED <<fragmentsQueue, orderVars>>
    BY <1>3 DEF HandleFrame
  <2> QED
    BY <1>3, <2>1 DEF Done, Settled, orderVars
<1>4. CASE f.reliableFrameIndex \notin receivedReliableFrameIndices /\ f.splitSize > 0
  <2>1. HandleSplit(f)
    BY <1>4 DEF HandleFrame
  <2> QED
    BY <1>2, <1>4, <2>1, HandleSplitSettles
<1>5. CASE f.reliableFrameIndex \notin receivedReliableFrameIndices /\ ~(f.splitSize > 0)
  <2>1. HandleOrdered(f.orderedFrameIndex, f.payload) /\ fragmentsQueue' = fragmentsQueue
    BY <1>5 DEF HandleFrame
  <2> DEFINE order == f.orderedFrameIndex
             payload == f.payload
  <2>2. order \in Nat /\ HandleOrdered(order, payload)
    BY <1>2, <2>1
  <2> HIDE DEF order, payload
  <2>3. /\ \A i : Settled(order, i)'
        /\ \A o \in Nat : \A i : Settled(o, i) => Settled(o, i)'
    BY <1>1, <2>1, <2>2, SettledByOrder
  <2> QED
    BY <2>3 DEF Done, order
<1> QED
  BY <1>3, <1>4, <1>5

\* handleFrame preserves the invariant: what leaves the datagram is settled.
LEMMA HandleFrameRecovery ==
  ASSUME IInv, RecoveryInv, HandleFrame
  PROVE  RecoveryInv'
<1>1. PICK f : f = Head(unhandled)
  OBVIOUS
<1>2. /\ TypeOK /\ unhandled \in Seq(GoodFrame) /\ unhandled # <<>>
      /\ unhandled' = Tail(unhandled)
      /\ UNCHANGED <<windowVars, senderVars, toReceiver, toSender>>
  BY DEF IInv, HandleFrame, Idle
<1>3. \A x : x \in Range(unhandled) <=> x = f \/ x \in Range(unhandled')
  BY <1>1, <1>2, MembersOfTail
<1>4. Held = {f} \cup Held' /\ Wire' = Wire
  <2>1. UNCHANGED <<outputFrames, outputBackup, toReceiver>>
    BY <1>2 DEF senderVars
  <2>2. \A x : x \in Held' <=> \/ x \in Range(outputFrames)
                               \/ \E s \in DOMAIN outputBackup : x \in Range(outputBackup[s])
                               \/ x \in Range(unhandled')
    BY <2>1 DEF Held
  <2>3. \A x : x \in Held <=> x = f \/ x \in Held'
    BY <1>3, <2>2, Whereabouts
  <2> QED
    BY <2>1, <2>3 DEF Wire
<1>5. f \in Held /\ f.orderedFrameIndex \in Nat
  BY <1>4, HeldGood
<1>6. Done(f)' /\ \A o \in Nat : \A i : Settled(o, i) => Settled(o, i)'
  BY <1>1, <1>5, HandleFrameSettles DEF RecoveryInv, ReceivedDone
<1>7. \A g \in Held \cup Wire : g.orderedFrameIndex \in Nat
  BY HeldGood
<1>8. ASSUME NEW g \in Held \cup Wire, Done(g)
      PROVE  Done(g)'
  BY <1>6, <1>7, <1>8 DEF Done
<1>9. receivedReliableFrameIndices' \in
        {receivedReliableFrameIndices,
         receivedReliableFrameIndices \cup {f.reliableFrameIndex}}
  BY <1>1 DEF HandleFrame, reliableVars
<1>10. SequencesSent'
  BY <1>2 DEF RecoveryInv, SequencesSent, Accepted, windowVars, senderVars
<1>11. IndicesApart'
  BY <1>2, <1>4, <1>5, <1>9 DEF RecoveryInv, IndicesApart, senderVars
<1>12. ReceivedDone'
  <2> SUFFICES ASSUME NEW g \in Held' \cup Wire',
                      g.reliableFrameIndex \in receivedReliableFrameIndices'
               PROVE  Done(g)'
    BY DEF ReceivedDone
  <2>1. g \in Held \cup Wire
    BY <1>4
  <2>2. CASE g.reliableFrameIndex \in receivedReliableFrameIndices
    BY <1>8, <2>1, <2>2 DEF RecoveryInv, ReceivedDone
  <2>3. CASE g.reliableFrameIndex = f.reliableFrameIndex
    <3>1. /\ g.orderedFrameIndex = f.orderedFrameIndex
          /\ g.splitFrameIndex = f.splitFrameIndex
      BY <1>5, <2>1, <2>3 DEF RecoveryInv, IndicesApart
    <3> QED
      BY <1>6, <3>1 DEF Done
  <2> QED
    BY <1>9, <2>2, <2>3
<1>13. AcceptedDone'
  <2> SUFFICES ASSUME NEW s \in Accepted \cap DOMAIN outputBackup,
                      NEW g \in Range(outputBackup[s])
               PROVE  Done(g)' \/ g \in Range(unhandled')
    BY <1>2 DEF AcceptedDone, Accepted, windowVars, senderVars
  <2>1. g \in Held \cup Wire
    BY DEF Held
  <2>2. Done(g) \/ g \in Range(unhandled)
    BY DEF RecoveryInv, AcceptedDone
  <2> QED
    BY <1>3, <1>6, <1>8, <2>1, <2>2
<1>14. EachPieceSomewhere'
  <2> SUFFICES ASSUME NEW order \in 0..(Len(sent) - 1), NEW i \in 0..(Len(sent[order + 1]) - 1)
               PROVE  Settled(order, i)' \/ \E g \in Held' : Piece(g, order, i)
    BY <1>2 DEF EachPieceSomewhere, senderVars, Piece
  <2>1. order \in Nat
    OBVIOUS
  <2>2. Settled(order, i) \/ \E g \in Held : Piece(g, order, i)
    BY DEF RecoveryInv, EachPieceSomewhere
  <2>3. Piece(f, order, i) => Settled(order, i)'
    BY <1>6 DEF Done, Piece
  <2> QED
    BY <1>4, <1>6, <2>1, <2>2, <2>3
<1> QED
  BY <1>10, <1>11, <1>12, <1>13, <1>14 DEF RecoveryInv

-------------------------------------------------------------------------------
(* The steps that make no frames *)

\* What is settled stays so while the order queue and the fragments do.
LEMMA SettledStays ==
  ASSUME UNCHANGED orderVars, DOMAIN fragmentsQueue' = DOMAIN fragmentsQueue,
         \A id \in DOMAIN fragmentsQueue : fragmentsQueue'[id] = fragmentsQueue[id]
  PROVE  \A o, i : Settled(o, i)' <=> Settled(o, i)
BY DEF Settled, orderVars

\* A step preserves the invariant that only moves frames, and drops none that
\* is not settled.
LEMMA MovedOnly ==
  ASSUME RecoveryInv, \A o, i : Settled(o, i)' <=> Settled(o, i),
         UNCHANGED <<sent, outputReliableIndex>>,
         receivedReliableFrameIndices' \subseteq receivedReliableFrameIndices,
         Held' \cup Wire' \subseteq Held \cup Wire,
         \A x \in Held : x \in Held' \/ Done(x),
         SequencesSent', AcceptedDone'
  PROVE  RecoveryInv'
<1>1. \A x : Done(x)' <=> Done(x)
  BY DEF Done
<1>2. IndicesApart'
  BY DEF RecoveryInv, IndicesApart
<1>3. ReceivedDone'
  BY <1>1 DEF RecoveryInv, ReceivedDone
<1>4. EachPieceSomewhere'
  <2> SUFFICES ASSUME NEW order \in 0..(Len(sent) - 1), NEW i \in 0..(Len(sent[order + 1]) - 1)
               PROVE  Settled(order, i)' \/ \E g \in Held' : Piece(g, order, i)
    BY DEF EachPieceSomewhere, Piece
  <2>1. CASE Settled(order, i)
    BY <2>1
  <2>2. CASE ~Settled(order, i)
    <3>1. PICK g \in Held : Piece(g, order, i)
      BY <2>2 DEF RecoveryInv, EachPieceSomewhere
    <3>2. ~Done(g)
      BY <2>2, <3>1 DEF Done, Piece
    <3> QED
      BY <3>1, <3>2
  <2> QED
    BY <2>1, <2>2
<1> QED
  BY <1>2, <1>3, <1>4 DEF RecoveryInv

\* onAck: what the receiver acknowledges holds nothing that is still needed.
LEMMA OnAckRecovery ==
  ASSUME IInv, RecoveryInv, Idle, NEW m \in toSender, OnAck(m)
  PROVE  RecoveryInv'
<1>1. /\ DOMAIN outputBackup' = DOMAIN outputBackup \ m.sequences
      /\ \A s \in DOMAIN outputBackup' : outputBackup'[s] = outputBackup[s]
      /\ m.type = "ack"
  BY DEF OnAck, Acked, Restrict
<1>2. /\ UNCHANGED <<outputFrames, outputReliableIndex, outputSequence, sent,
                     toReceiver, toSender, orderVars, fragmentsQueue, windowVars, unhandled>>
      /\ receivedReliableFrameIndices' = receivedReliableFrameIndices
  BY DEF OnAck, receiverVars, reliableVars
<1>3. Accepted' = Accepted /\ m.sequences \subseteq Accepted
  BY <1>1, <1>2 DEF Accepted, windowVars
<1>4. \A x : x \in Held' <=> \/ x \in Range(outputFrames)
                             \/ \E s \in DOMAIN outputBackup' : x \in Range(outputBackup[s])
                             \/ x \in Range(unhandled)
  BY <1>1, <1>2 DEF Held
<1>5. Held' \cup Wire' \subseteq Held \cup Wire
  BY <1>1, <1>2, <1>4, Whereabouts DEF Wire
<1>6. Range(unhandled) = {}
  BY DEF Idle, Range
<1>7. ASSUME NEW x \in Held, x \notin Held'
      PROVE  Done(x)
  <2>1. PICK s \in DOMAIN outputBackup : x \in Range(outputBackup[s])
    BY <1>4, <1>7, Whereabouts
  <2>2. s \in Accepted
    BY <1>1, <1>3, <1>4, <1>7, <2>1
  <2> QED
    BY <1>6, <2>1, <2>2 DEF RecoveryInv, AcceptedDone
<1>8. SequencesSent'
  BY <1>1, <1>2, <1>3 DEF RecoveryInv, SequencesSent
<1>9. \A o, i : Settled(o, i)' <=> Settled(o, i)
  BY <1>2, SettledStays
<1>10. AcceptedDone'
  BY <1>1, <1>2, <1>3, <1>9 DEF RecoveryInv, AcceptedDone, Done
<1> QED
  BY <1>2, <1>5, <1>7, <1>8, <1>9, <1>10, MovedOnly

\* onNack: it sends again what the backup holds.
LEMMA OnNackRecovery ==
  ASSUME IInv, RecoveryInv, NEW m \in toSender, OnNack(m)
  PROVE  RecoveryInv'
<1>1. /\ UNCHANGED <<outputFrames, outputReliableIndex, outputSequence, outputBackup, sent,
                     toSender, orderVars, fragmentsQueue, windowVars, unhandled>>
      /\ receivedReliableFrameIndices' = receivedReliableFrameIndices
      /\ toReceiver' = toReceiver \cup
           {FrameSet(s, outputBackup[s]) : s \in m.sequences \cap DOMAIN outputBackup}
  BY DEF OnNack, receiverVars, reliableVars, senderVars
<1>2. Accepted' = Accepted /\ Held' = Held
  BY <1>1 DEF Accepted, windowVars, Held
<1>3. \A d \in toReceiver' :
        \/ d \in toReceiver
        \/ /\ d.sequence \in DOMAIN outputBackup
           /\ d.frames = outputBackup[d.sequence]
  BY <1>1 DEF FrameSet
<1>4. Wire' \subseteq Held \cup Wire
  BY <1>3 DEF Wire, Held
<1>5. SequencesSent'
  <2>1. \A s \in DOMAIN outputBackup : s < outputSequence
    BY DEF IInv, TypeOK
  <2> QED
    BY <1>1, <1>2, <1>3, <2>1 DEF RecoveryInv, SequencesSent
<1>6. \A o, i : Settled(o, i)' <=> Settled(o, i)
  BY <1>1, SettledStays
<1>7. AcceptedDone'
  BY <1>1, <1>2, <1>6 DEF RecoveryInv, AcceptedDone, Done
<1> QED
  BY <1>1, <1>2, <1>4, <1>5, <1>6, <1>7, MovedOnly

\* onFrameSet: the frames of the set it accepts are the ones to be handled.
LEMMA OnFrameSetRecovery ==
  ASSUME IInv, RecoveryInv, Idle, NEW m \in toReceiver, OnFrameSet(m)
  PROVE  RecoveryInv'
<1>1. /\ UNCHANGED <<outputFrames, outputReliableIndex, outputSequence, outputBackup, sent,
                     toReceiver, toSender, orderVars, fragmentsQueue>>
      /\ receivedReliableFrameIndices' = receivedReliableFrameIndices
      /\ unhandled' = m.frames
  BY DEF OnFrameSet, reliableVars, senderVars
<1>2. Accepted' = Accepted \cup {m.sequence}
  BY <1>1 DEF OnFrameSet, Accepted
<1>3. Range(unhandled) = {}
  BY DEF Idle, Range
<1>4. \A x : x \in Held' <=> \/ x \in Range(outputFrames)
                             \/ \E s \in DOMAIN outputBackup : x \in Range(outputBackup[s])
                             \/ x \in Range(m.frames)
  BY <1>1 DEF Held
<1>5. Held' \cup Wire' \subseteq Held \cup Wire
  BY <1>1, <1>4, Whereabouts DEF Wire
<1>6. \A x \in Held : x \in Held'
  BY <1>3, <1>4, Whereabouts
<1>7. SequencesSent'
  BY <1>1, <1>2 DEF RecoveryInv, SequencesSent
<1>8. \A o, i : Settled(o, i)' <=> Settled(o, i)
  BY <1>1, SettledStays
<1>9. AcceptedDone'
  <2> SUFFICES ASSUME NEW s \in Accepted' \cap DOMAIN outputBackup,
                      NEW x \in Range(outputBackup[s])
               PROVE  Done(x)' \/ x \in Range(unhandled')
    BY <1>1 DEF AcceptedDone
  <2>1. CASE s \in Accepted
    BY <1>3, <1>8, <2>1 DEF RecoveryInv, AcceptedDone, Done
  <2>2. CASE s = m.sequence
    BY <1>1, <2>2 DEF RecoveryInv, SequencesSent
  <2> QED
    BY <1>2, <2>1, <2>2
<1> QED
  BY <1>1, <1>5, <1>6, <1>7, <1>8, <1>9, MovedOnly

\* The network: what it loses the sessions still hold.
LEMMA LoseRecovery ==
  ASSUME RecoveryInv, NEW m, LoseFrameSet(m)
  PROVE  RecoveryInv'
<1>1. /\ UNCHANGED <<outputFrames, outputReliableIndex, outputSequence, outputBackup, sent,
                     toSender, orderVars, fragmentsQueue, windowVars, unhandled>>
      /\ receivedReliableFrameIndices' = receivedReliableFrameIndices
      /\ toReceiver' \subseteq toReceiver
  BY DEF LoseFrameSet, receiverVars, reliableVars, senderVars
<1>2. Accepted' = Accepted /\ Held' = Held /\ Wire' \subseteq Wire
  BY <1>1 DEF Accepted, windowVars, Held, Wire
<1>3. SequencesSent'
  BY <1>1, <1>2 DEF RecoveryInv, SequencesSent
<1>4. \A o, i : Settled(o, i)' <=> Settled(o, i)
  BY <1>1, SettledStays
<1>5. AcceptedDone'
  BY <1>1, <1>2, <1>4 DEF RecoveryInv, AcceptedDone, Done
<1> QED
  BY <1>1, <1>2, <1>3, <1>4, <1>5, MovedOnly

\* tick of the receiver: the windows forget, and what was to be acknowledged
\* is.  Here it matters that no compound expires.
LEMMA ReceiverTickRecovery ==
  ASSUME IInv, RecoveryInv, ~FragmentsExpire, NEW cleanup \in BOOLEAN,
         NEW expired \in SUBSET DOMAIN fragmentsQueue, ReceiverTick(cleanup, expired)
  PROVE  RecoveryInv'
<1>1. \A S, start : Window(S, start) \subseteq S
  BY DEF Window
<1>2. /\ UNCHANGED <<outputFrames, outputReliableIndex, outputSequence, outputBackup, sent,
                     toReceiver, orderVars, unhandled>>
      /\ receivedReliableFrameIndices' \subseteq receivedReliableFrameIndices
      /\ receivedFrameSequences' \subseteq receivedFrameSequences
      /\ pendingAcks' = {}
  BY <1>1 DEF ReceiverTick, senderVars
<1>3. /\ DOMAIN fragmentsQueue' = DOMAIN fragmentsQueue
      /\ \A id \in DOMAIN fragmentsQueue : fragmentsQueue'[id] = fragmentsQueue[id]
  BY DEF ReceiverTick, Restrict
<1>4. Accepted' \subseteq Accepted
  <2>1. \A a \in toSender' : a \in toSender \/ a.type = "nack" \/ a.sequences = pendingAcks
    BY DEF ReceiverTick, AckPacket, Acks
  <2>2. \A x \in Accepted' : \/ x \in receivedFrameSequences'
                             \/ \E a \in toSender' : a.type = "ack" /\ x \in a.sequences
    BY <1>2 DEF Accepted
  <2> QED
    BY <1>2, <2>1, <2>2 DEF Accepted
<1>5. Held' = Held /\ Wire' = Wire
  BY <1>2 DEF Held, Wire
<1>6. SequencesSent'
  BY <1>2, <1>4 DEF RecoveryInv, SequencesSent
<1>7. \A o, i : Settled(o, i)' <=> Settled(o, i)
  BY <1>2, <1>3, SettledStays
<1>8. AcceptedDone'
  BY <1>2, <1>4, <1>7 DEF RecoveryInv, AcceptedDone, Done
<1> QED
  BY <1>2, <1>5, <1>6, <1>7, <1>8, MovedOnly

-------------------------------------------------------------------------------
(* The steps that flush *)

\* flush adds its batches to the backup under new numbers.
LEMMA FlushBackup ==
  ASSUME TypeOK, NEW B \in Seq(Seq(Frame)), Flush(B)
  PROVE  /\ \A s \in DOMAIN outputBackup :
              s \in DOMAIN outputBackup' /\ outputBackup'[s] = outputBackup[s]
         /\ \A s \in DOMAIN outputBackup' : s < outputSequence => s \in DOMAIN outputBackup
         /\ \A i \in 1..Len(B) : /\ outputSequence + (i - 1) \in DOMAIN outputBackup'
                                 /\ outputBackup'[outputSequence + (i - 1)] = B[i]
         /\ \A s \in DOMAIN outputBackup' : s \notin DOMAIN outputBackup =>
              \E i \in 1..Len(B) : outputBackup'[s] = B[i]
         /\ outputSequence \in Nat /\ outputSequence' = outputSequence + Len(B)
<1>1. /\ outputSequence \in Nat /\ Len(B) \in Nat
      /\ \A s \in DOMAIN outputBackup : s \in Nat /\ s < outputSequence
  BY DEF TypeOK, IsMap
<1>2. /\ outputBackup' = Backup(B) /\ outputSequence' = outputSequence + Len(B)
  BY DEF Flush
<1>3. DOMAIN outputBackup' =
        DOMAIN outputBackup \cup {outputSequence + (i - 1) : i \in 1..Len(B)}
  BY <1>2 DEF Backup
<1>4. ASSUME NEW s \in DOMAIN outputBackup
      PROVE  s \in DOMAIN outputBackup' /\ outputBackup'[s] = outputBackup[s]
  BY <1>1, <1>2, <1>3 DEF Backup
<1>5. ASSUME NEW i \in 1..Len(B)
      PROVE  /\ outputSequence + (i - 1) \in DOMAIN outputBackup'
             /\ outputBackup'[outputSequence + (i - 1)] = B[i]
             /\ ~(outputSequence + (i - 1) < outputSequence)
  <2>1. PICK s : s = outputSequence + (i - 1)
    OBVIOUS
  <2>2. s \in DOMAIN outputBackup' /\ ~(s < outputSequence) /\ s - outputSequence + 1 = i
    BY <1>1, <1>3, <2>1
  <2>3. s \in DOMAIN outputBackup \cup {outputSequence + (k - 1) : k \in 1..Len(B)}
    BY <1>3, <2>2
  <2>4. outputBackup'[s] = B[s - outputSequence + 1]
    BY <1>2, <2>2, <2>3 DEF Backup
  <2> QED
    BY <2>1, <2>2, <2>4
<1>6. \A s \in DOMAIN outputBackup' : s \notin DOMAIN outputBackup =>
        \E i \in 1..Len(B) : s = outputSequence + (i - 1)
  BY <1>3
<1> QED
  BY <1>1, <1>2, <1>4, <1>5, <1>6

\* A step that flushes batches and sends again what is due keeps the frames it
\* held, apart from those that waited, and adds those of the batches.
LEMMA FlushRecovery ==
  ASSUME IInv, RecoveryInv, NEW B \in Seq(Seq(Frame)), Flush(B),
         NEW due \in SUBSET DOMAIN outputBackup,
         toReceiver' = toReceiver \cup Flushed(B)
                         \cup {FrameSet(s, outputBackup[s]) : s \in due},
         UNCHANGED <<windowVars, unhandled, toSender>>
  PROVE  /\ \A x : x \in Held' <=>
              \/ x \in Range(outputFrames')
              \/ \E s \in DOMAIN outputBackup : x \in Range(outputBackup[s])
              \/ x \in Range(unhandled)
              \/ \E i \in 1..Len(B) : x \in Range(B[i])
         /\ Wire' \subseteq Wire \cup Held'
         /\ SequencesSent'
         /\ \A s \in Accepted' \cap DOMAIN outputBackup' :
              /\ s \in Accepted \cap DOMAIN outputBackup
              /\ outputBackup'[s] = outputBackup[s]
<1>1. TypeOK /\ \A s \in DOMAIN outputBackup : s < outputSequence
  BY DEF IInv, TypeOK
<1>2. /\ \A s \in DOMAIN outputBackup :
           s \in DOMAIN outputBackup' /\ outputBackup'[s] = outputBackup[s]
      /\ \A s \in DOMAIN outputBackup' : s < outputSequence => s \in DOMAIN outputBackup
      /\ \A i \in 1..Len(B) : /\ outputSequence + (i - 1) \in DOMAIN outputBackup'
                              /\ outputBackup'[outputSequence + (i - 1)] = B[i]
      /\ \A s \in DOMAIN outputBackup' : s \notin DOMAIN outputBackup =>
           \E i \in 1..Len(B) : outputBackup'[s] = B[i]
      /\ outputSequence \in Nat /\ outputSequence' = outputSequence + Len(B)
  BY <1>1, FlushBackup
<1>3. \A x : x \in Held' <=>
        \/ x \in Range(outputFrames')
        \/ \E s \in DOMAIN outputBackup : x \in Range(outputBackup[s])
        \/ x \in Range(unhandled)
        \/ \E i \in 1..Len(B) : x \in Range(B[i])
  <2>1. \A x : x \in Held' <=>
          \/ x \in Range(outputFrames')
          \/ \E s \in DOMAIN outputBackup' : x \in Range(outputBackup'[s])
          \/ x \in Range(unhandled)
    BY DEF Held
  <2>2. ASSUME NEW x, NEW s \in DOMAIN outputBackup', x \in Range(outputBackup'[s])
        PROVE  \/ \E t \in DOMAIN outputBackup : x \in Range(outputBackup[t])
               \/ \E i \in 1..Len(B) : x \in Range(B[i])
    BY <1>2, <2>2
  <2>3. \A x : (\E t \in DOMAIN outputBackup : x \in Range(outputBackup[t])) =>
          \E s \in DOMAIN outputBackup' : x \in Range(outputBackup'[s])
    BY <1>2
  <2>4. \A x : (\E i \in 1..Len(B) : x \in Range(B[i])) =>
          \E s \in DOMAIN outputBackup' : x \in Range(outputBackup'[s])
    BY <1>2
  <2> QED
    BY <2>1, <2>2, <2>3, <2>4
<1>4. \A d \in toReceiver' :
        \/ d \in toReceiver
        \/ \E i \in 1..Len(B) : d.sequence = outputSequence + (i - 1) /\ d.frames = B[i]
        \/ d.sequence \in DOMAIN outputBackup /\ d.frames = outputBackup[d.sequence]
  BY DEF Flushed, FrameSet
<1>5. Wire' \subseteq Wire \cup Held'
  <2> SUFFICES ASSUME NEW d \in toReceiver', NEW x \in Range(d.frames)
               PROVE  x \in Wire \/ x \in Held'
    BY DEF Wire
  <2> QED
    BY <1>3, <1>4 DEF Wire
<1>6. Accepted' = Accepted /\ \A s \in Accepted : s < outputSequence
  BY DEF Accepted, windowVars, RecoveryInv, SequencesSent
<1>7. Len(B) \in Nat
  OBVIOUS
<1>8. Accepted \subseteq Nat
  BY <1>1 DEF Accepted, TypeOK
<1>9. \A s \in Accepted : s < outputSequence'
  BY <1>2, <1>6, <1>7, <1>8
<1>10. ASSUME NEW d \in toReceiver'
       PROVE  /\ d.sequence < outputSequence'
              /\ d.sequence \in DOMAIN outputBackup' => d.frames = outputBackup'[d.sequence]
  <2>1. CASE d \in toReceiver
    <3>1. /\ d.sequence \in Nat /\ d.sequence < outputSequence
          /\ d.sequence \in DOMAIN outputBackup => d.frames = outputBackup[d.sequence]
      BY <1>1, <2>1 DEF TypeOK, RecoveryInv, SequencesSent
    <3> QED
      BY <1>2, <1>7, <3>1
  <2>2. CASE \E i \in 1..Len(B) : d.sequence = outputSequence + (i - 1) /\ d.frames = B[i]
    BY <1>2, <1>7, <2>2
  <2>3. CASE d.sequence \in DOMAIN outputBackup /\ d.frames = outputBackup[d.sequence]
    <3>1. d.sequence \in Nat /\ d.sequence < outputSequence
      BY <1>1, <2>3 DEF TypeOK, IsMap
    <3> QED
      BY <1>2, <1>7, <2>3, <3>1
  <2> QED
    BY <1>4, <2>1, <2>2, <2>3
<1>11. SequencesSent'
  BY <1>6, <1>9, <1>10 DEF SequencesSent
<1> QED
  BY <1>2, <1>3, <1>5, <1>6, <1>11

\* tick of the sender: the frames that waited go into the backup.
LEMMA SenderTickRecovery ==
  ASSUME IInv, RecoveryInv, NEW due \in SUBSET DOMAIN outputBackup, SenderTick(due)
  PROVE  RecoveryInv'
<1>1. /\ Pending \in Seq(Seq(Frame))
      /\ \A x : (\E i \in 1..Len(Pending) : x \in Range(Pending[i])) <=> x \in Range(outputFrames)
  BY DEF IInv, TypeOK, Pending, Range
<1>2. /\ Flush(Pending) /\ outputFrames' = <<>>
      /\ toReceiver' = toReceiver \cup Flushed(Pending)
                         \cup {FrameSet(s, outputBackup[s]) : s \in due}
      /\ UNCHANGED <<windowVars, unhandled, toSender, orderVars, fragmentsQueue, sent,
                     outputReliableIndex>>
      /\ receivedReliableFrameIndices' = receivedReliableFrameIndices
  BY DEF SenderTick, receiverVars, reliableVars
<1>3. PICK B \in Seq(Seq(Frame)) : B = Pending
  BY <1>1
<1>4. /\ Flush(B)
      /\ toReceiver' = toReceiver \cup Flushed(B)
                         \cup {FrameSet(s, outputBackup[s]) : s \in due}
      /\ \A x : (\E i \in 1..Len(B) : x \in Range(B[i])) <=> x \in Range(outputFrames)
  BY <1>1, <1>2, <1>3
<1>5. /\ \A x : x \in Held' <=>
           \/ x \in Range(outputFrames')
           \/ \E s \in DOMAIN outputBackup : x \in Range(outputBackup[s])
           \/ x \in Range(unhandled)
           \/ \E i \in 1..Len(B) : x \in Range(B[i])
      /\ Wire' \subseteq Wire \cup Held'
      /\ SequencesSent'
      /\ \A s \in Accepted' \cap DOMAIN outputBackup' :
           /\ s \in Accepted \cap DOMAIN outputBackup
           /\ outputBackup'[s] = outputBackup[s]
  BY <1>2, <1>4, FlushRecovery
<1>6. Range(outputFrames') = {}
  BY <1>2 DEF Range
<1>7. Held' = Held
  BY <1>4, <1>5, <1>6, Whereabouts
<1>8. \A o, i : Settled(o, i)' <=> Settled(o, i)
  BY <1>2, SettledStays
<1>9. AcceptedDone'
  BY <1>2, <1>5, <1>8 DEF RecoveryInv, AcceptedDone, Done
<1> QED
  BY <1>2, <1>5, <1>7, <1>8, <1>9, MovedOnly

\* The members of two sequences in a row, and of one of one element.
LEMMA MembersOfConcat ==
  ASSUME NEW S, NEW s \in Seq(S), NEW t \in Seq(S)
  PROVE  /\ s \o t \in Seq(S)
         /\ \A x : x \in Range(s \o t) <=> x \in Range(s) \/ x \in Range(t)
<1> DEFINE u == s \o t
<1>1. /\ u \in Seq(S) /\ Len(s) \in Nat /\ Len(t) \in Nat /\ Len(u) = Len(s) + Len(t)
      /\ \A k \in 1..Len(s) : u[k] = s[k]
      /\ \A k \in 1..Len(t) : u[Len(s) + k] = t[k]
  OBVIOUS
<1> HIDE DEF u
<1>2. /\ \A x : x \in Range(u) <=> \E k \in 1..Len(u) : x = u[k]
      /\ \A x : x \in Range(s) <=> \E k \in 1..Len(s) : x = s[k]
      /\ \A x : x \in Range(t) <=> \E k \in 1..Len(t) : x = t[k]
  BY <1>1, Members
<1>3. ASSUME NEW k \in 1..Len(u)
      PROVE  u[k] \in Range(s) \/ u[k] \in Range(t)
  <2>1. CASE k \in 1..Len(s)
    BY <1>1, <1>2, <2>1
  <2>2. CASE k \notin 1..Len(s)
    <3>1. k - Len(s) \in 1..Len(t) /\ k = Len(s) + (k - Len(s))
      BY <1>1, <2>2
    <3> QED
      BY <1>1, <1>2, <3>1
  <2> QED
    BY <2>1, <2>2
<1>4. /\ \A k \in 1..Len(s) : k \in 1..Len(u)
      /\ \A k \in 1..Len(t) : Len(s) + k \in 1..Len(u)
  BY <1>1
<1>5. ASSUME NEW x \in Range(u)
      PROVE  x \in Range(s) \/ x \in Range(t)
  BY <1>2, <1>3
<1>6. \A x \in Range(s) : x \in Range(u)
  BY <1>1, <1>2, <1>4
<1>7. \A x \in Range(t) : x \in Range(u)
  BY <1>1, <1>2, <1>4
<1> QED
  BY <1>1, <1>5, <1>6, <1>7 DEF u

LEMMA MembersOfOne ==
  ASSUME NEW y
  PROVE  \A x : x \in Range(<<y>>) <=> x = y
BY DEF Range

\* What queueFrame makes of the frames that wait and the new ones: batches to
\* flush and frames left to wait, which Priority.High flushes too.
Queued(frames, C, rest) ==
  \/ /\ Len(frames) = 1 /\ C = <<>>
     /\ rest = Append(outputFrames, frames[1])
  \/ /\ C = Pending \o [i \in 1..(Len(frames) - 1) |-> <<frames[i]>>]
     /\ rest = <<frames[Len(frames)]>>
Urged(C, rest, B, left) ==
  \/ left = rest /\ B = C
  \/ left = <<>> /\ B = C \o <<rest>>

\* The batches and what is left hold the frames that waited and the new ones.
SameFrames(frames, B, left) ==
  \A x : x \in Range(left) \/ (\E b \in Range(B) : x \in Range(b))
         <=> x \in Range(outputFrames) \/ x \in Range(frames)

\* What queueFrame flushes and leaves waiting are the frames that waited and
\* the new ones, none left out.
LEMMA BatchesHold ==
  ASSUME NEW F, outputFrames \in Seq(F), NEW frames \in Seq(F), frames # <<>>,
         NEW C \in Seq(Seq(F)), NEW rest \in Seq(F), NEW left, NEW B,
         Queued(frames, C, rest), Urged(C, rest, B, left)
  PROVE  SameFrames(frames, B, left)
<1>1. PICK n : n = Len(frames)
  OBVIOUS
<1>2. n \in Nat /\ n - 1 \in Nat /\ \A i \in 1..n : frames[i] \in F
  BY <1>1
<1>3. PICK singles : singles = [i \in 1..(n - 1) |-> <<frames[i]>>]
  OBVIOUS
<1>4. /\ singles \in Seq(Seq(F)) /\ Len(singles) = n - 1
      /\ \A i \in 1..(n - 1) : singles[i] = <<frames[i]>>
  <2>1. \A i \in 1..(n - 1) : <<frames[i]>> \in Seq(F)
    BY <1>2
  <2> QED
    BY <1>2, <1>3, <2>1
<1>5. Range(<<>>) = {}
  BY DEF Range
<1>6. /\ Pending \in Seq(Seq(F))
      /\ \A x : (\E b \in Range(Pending) : x \in Range(b)) <=> x \in Range(outputFrames)
  <2>1. CASE outputFrames = <<>>
    BY <1>5, <2>1 DEF Pending
  <2>2. CASE outputFrames # <<>>
    <3>1. Pending = <<outputFrames>>
      BY <2>2 DEF Pending
    <3> QED
      BY <3>1, MembersOfOne
  <2> QED
    BY <2>1, <2>2
<1>7. \A x : x \in Range(frames) <=> x = frames[n] \/ \E k \in 1..(n - 1) : x = frames[k]
  <2>1. \A x : x \in Range(frames) <=> \E k \in 1..n : x = frames[k]
    BY <1>1, Members
  <2>2. 1..n = 1..(n - 1) \cup {n}
    BY <1>2
  <2> QED
    BY <2>1, <2>2
<1>8. \A x : (\E b \in Range(singles) : x \in Range(b)) <=> \E k \in 1..(n - 1) : x = frames[k]
  <2>1. \A b : b \in Range(singles) <=> \E k \in 1..(n - 1) : b = singles[k]
    BY <1>4, Members
  <2>2. \A k \in 1..(n - 1) : \A x : x \in Range(singles[k]) <=> x = frames[k]
    BY <1>4, MembersOfOne
  <2>3. ASSUME NEW x, NEW b \in Range(singles), x \in Range(b)
        PROVE  \E k \in 1..(n - 1) : x = frames[k]
    <3>1. PICK k \in 1..(n - 1) : b = singles[k]
      BY <2>1
    <3> QED
      BY <2>2, <2>3, <3>1
  <2>4. ASSUME NEW k \in 1..(n - 1)
        PROVE  singles[k] \in Range(singles) /\ frames[k] \in Range(singles[k])
    BY <2>1, <2>2
  <2> QED
    BY <2>3, <2>4
<1>9. \A x : (\E b \in Range(C) : x \in Range(b)) \/ x \in Range(rest)
               <=> x \in Range(outputFrames) \/ x \in Range(frames)
  <2>1. CASE n = 1 /\ C = <<>> /\ rest = Append(outputFrames, frames[1])
    <3>0. frames[1] \in F /\ <<frames[1]>> \in Seq(F)
      BY <1>2, <2>1
    <3>1. PICK one : one = <<frames[1]>> /\ one \in Seq(F)
      BY <3>0
    <3>2. /\ rest = outputFrames \o one
          /\ \A x : x \in Range(one) <=> x = frames[1]
      BY <1>2, <2>1, <3>1, MembersOfOne
    <3>3. \A x : x \in Range(rest) <=> x \in Range(outputFrames) \/ x = frames[1]
      BY <3>2, MembersOfConcat
    <3>4. \A x : x \in Range(frames) <=> x = frames[1]
      BY <1>7, <2>1
    <3> QED
      BY <1>5, <2>1, <3>3, <3>4
  <2>2. CASE C = Pending \o singles /\ rest = <<frames[n]>>
    <3>1. \A x : x \in Range(rest) <=> x = frames[n]
      BY <2>2, MembersOfOne
    <3>2. \A b : b \in Range(C) <=> b \in Range(Pending) \/ b \in Range(singles)
      BY <1>4, <1>6, <2>2, MembersOfConcat
    <3> QED
      BY <1>6, <1>7, <1>8, <3>1, <3>2
  <2> QED
    BY <1>1, <1>3, <2>1, <2>2 DEF Queued
<1>10. CASE left = rest /\ B = C
  BY <1>9, <1>10 DEF SameFrames
<1>11. CASE left = <<>> /\ B = C \o <<rest>>
  <2>0. <<rest>> \in Seq(Seq(F))
    OBVIOUS
  <2>1. PICK one : one = <<rest>> /\ one \in Seq(Seq(F))
    BY <2>0
  <2>2. \A b : b \in Range(one) <=> b = rest
    BY <2>1, MembersOfOne
  <2>3. \A b : b \in Range(B) <=> b \in Range(C) \/ b = rest
    BY <1>11, <2>1, <2>2, MembersOfConcat
  <2> QED
    BY <1>5, <1>9, <1>11, <2>3 DEF SameFrames
<1> QED
  BY <1>10, <1>11 DEF Urged

\* frameAndSend: each piece of the new payload is in a frame of its own, under
\* a reliable index no frame had.
LEMMA SendRecovery ==
  ASSUME IInv, RecoveryInv, NEW p \in Payload, NEW fits \in BOOLEAN, NEW high \in BOOLEAN,
         Send(p, fits, high)
  PROVE  RecoveryInv'
<1>1. TypeOK /\ Numbering /\ outputReliableIndex \in Nat /\ SplitId(outputSplitIndex) \in Nat
  BY Bounds DEF IInv, TypeOK, SplitId
<1>2. PICK frames : frames = Frames(p, outputOrderIndex, outputReliableIndex,
                                    SplitId(outputSplitIndex))
  OBVIOUS
<1>3. /\ frames \in Seq(Frame) /\ Len(frames) = Len(p) /\ Len(p) \in Nat \ {0}
      /\ \A i \in 1..Len(p) :
           /\ frames[i].reliableFrameIndex = outputReliableIndex + (i - 1)
           /\ frames[i].orderedFrameIndex = outputOrderIndex
           /\ frames[i].splitFrameIndex = i - 1
  <2>1. frames \in Seq(Frame) /\ Len(frames) = Len(p) /\ Len(p) \in Nat \ {0}
    BY <1>1, <1>2, FramesType DEF TypeOK
  <2> QED
    BY <1>2, <2>1 DEF Frames
<1>4. PICK C, rest, left, B :
        /\ C = Batches(frames, fits) /\ rest = Rest(frames, fits)
        /\ left = IF high THEN <<>> ELSE rest
        /\ B = C \o (IF high THEN <<rest>> ELSE <<>>)
  OBVIOUS
<1>5. outputFrames \in Seq(Frame) /\ frames # <<>> /\ (fits => Len(frames) = 1)
  BY <1>1, <1>3 DEF TypeOK, Send
<1>6. C \in Seq(Seq(Frame)) /\ rest \in Seq(Frame) /\ B \in Seq(Seq(Frame))
  <2>1. rest \in Seq(Frame) /\ B \in Seq(Seq(Frame))
    BY <1>3, <1>4, <1>5, BatchesInto
  <2>2. \A i \in 1..(Len(frames) - 1) : <<frames[i]>> \in Seq(Frame)
    BY <1>3
  <2>3. [i \in 1..(Len(frames) - 1) |-> <<frames[i]>>] \in Seq(Seq(Frame))
    BY <1>3, <2>2
  <2>4. C \in Seq(Seq(Frame))
    BY <1>4, <1>5, <2>3 DEF Batches, Pending
  <2> QED
    BY <2>1, <2>4
<1>7. \A x : x \in Range(left) \/ (\E i \in 1..Len(B) : x \in Range(B[i]))
             <=> x \in Range(outputFrames) \/ x \in Range(frames)
  <2>1. Queued(frames, C, rest)
    BY <1>4, <1>5 DEF Batches, Rest, Queued
  <2>2. Urged(C, rest, B, left)
    BY <1>4, <1>6 DEF Urged
  <2>3. SameFrames(frames, B, left)
    BY <1>3, <1>5, <1>6, <2>1, <2>2, BatchesHold
  <2>4. \A b : b \in Range(B) <=> \E i \in 1..Len(B) : b = B[i]
    BY <1>6, Members
  <2> QED
    BY <2>3, <2>4 DEF SameFrames
<1>8. /\ Flush(B) /\ outputFrames' = left
      /\ toReceiver' = toReceiver \cup Flushed(B)
      /\ sent' = Append(sent, p) /\ outputReliableIndex' = outputReliableIndex + Len(p)
      /\ UNCHANGED <<windowVars, unhandled, toSender, orderVars, fragmentsQueue>>
      /\ receivedReliableFrameIndices' = receivedReliableFrameIndices
  BY <1>2, <1>4 DEF Send, ReliableIndicesUsed, receiverVars, reliableVars
<1>9. /\ \A x : x \in Held' <=>
           \/ x \in Range(outputFrames')
           \/ \E s \in DOMAIN outputBackup : x \in Range(outputBackup[s])
           \/ x \in Range(unhandled)
           \/ \E i \in 1..Len(B) : x \in Range(B[i])
      /\ Wire' \subseteq Wire \cup Held'
      /\ SequencesSent'
      /\ \A s \in Accepted' \cap DOMAIN outputBackup' :
           /\ s \in Accepted \cap DOMAIN outputBackup
           /\ outputBackup'[s] = outputBackup[s]
  <2> DEFINE due == {}
  <2>1. /\ due \in SUBSET DOMAIN outputBackup
        /\ toReceiver' = toReceiver \cup Flushed(B)
                           \cup {FrameSet(s, outputBackup[s]) : s \in due}
    BY <1>8
  <2> HIDE DEF due
  <2> QED
    BY <1>6, <1>8, <2>1, FlushRecovery
<1>10. \A x : x \in Held' <=> x \in Held \/ x \in Range(frames)
  BY <1>7, <1>8, <1>9, Whereabouts
<1>11. Held' \cup Wire' \subseteq Held \cup Wire \cup Range(frames)
  BY <1>9, <1>10
<1>12. \A x \in Range(frames) : \E k \in 1..Len(p) : x = frames[k]
  BY <1>3, Members
<1>13. \A o, i : Settled(o, i)' <=> Settled(o, i)
  BY <1>8, SettledStays
<1>14. \A g \in Held \cup Wire :
         g.reliableFrameIndex \in Nat /\ g.reliableFrameIndex < outputReliableIndex
  BY <1>1 DEF RecoveryInv, IndicesApart
<1>15. \A g \in Range(frames) :
         /\ g.reliableFrameIndex \in Nat /\ g.reliableFrameIndex >= outputReliableIndex
         /\ g.reliableFrameIndex < outputReliableIndex'
         /\ g.orderedFrameIndex = outputOrderIndex
         /\ g.splitFrameIndex = g.reliableFrameIndex - outputReliableIndex
  <2> SUFFICES ASSUME NEW k \in 1..Len(p), NEW g, g = frames[k]
               PROVE  /\ g.reliableFrameIndex \in Nat
                      /\ g.reliableFrameIndex >= outputReliableIndex
                      /\ g.reliableFrameIndex < outputReliableIndex'
                      /\ g.orderedFrameIndex = outputOrderIndex
                      /\ g.splitFrameIndex = g.reliableFrameIndex - outputReliableIndex
    BY <1>12
  <2> QED
    BY <1>1, <1>3, <1>8
<1>16. IndicesApart'
  <2>1. receivedReliableFrameIndices' \subseteq 0..(outputReliableIndex' - 1)
    BY <1>1, <1>3, <1>8 DEF RecoveryInv, IndicesApart
  <2>2. \A f \in Held' \cup Wire' : f.reliableFrameIndex \in 0..(outputReliableIndex' - 1)
    BY <1>1, <1>3, <1>8, <1>11, <1>14, <1>15
  <2>3. ASSUME NEW f \in Held' \cup Wire', NEW g \in Held' \cup Wire',
               f.reliableFrameIndex = g.reliableFrameIndex
        PROVE  f.orderedFrameIndex = g.orderedFrameIndex /\ f.splitFrameIndex = g.splitFrameIndex
    <3>1. CASE f \in Range(frames) /\ g \in Range(frames)
      BY <1>15, <2>3, <3>1
    <3>2. CASE f \in Held \cup Wire /\ g \in Held \cup Wire
      BY <2>3, <3>2 DEF RecoveryInv, IndicesApart
    <3>3. ~(f \in Range(frames) /\ g \in Held \cup Wire)
      BY <1>1, <1>14, <1>15, <2>3
    <3>4. ~(g \in Range(frames) /\ f \in Held \cup Wire)
      BY <1>1, <1>14, <1>15, <2>3
    <3> QED
      BY <1>11, <3>1, <3>2, <3>3, <3>4
  <2> QED
    BY <2>1, <2>2, <2>3 DEF IndicesApart
<1>17. ReceivedDone'
  <2> SUFFICES ASSUME NEW f \in Held' \cup Wire',
                      f.reliableFrameIndex \in receivedReliableFrameIndices
               PROVE  Done(f)'
    BY <1>8 DEF ReceivedDone
  <2>1. f.reliableFrameIndex \in 0..(outputReliableIndex - 1)
    BY DEF RecoveryInv, IndicesApart
  <2>2. f \in Held \cup Wire
    BY <1>1, <1>11, <1>15, <2>1
  <2> QED
    BY <1>13, <2>2 DEF RecoveryInv, ReceivedDone, Done
<1>18. AcceptedDone'
  BY <1>8, <1>9, <1>13 DEF RecoveryInv, AcceptedDone, Done
<1>19. EachPieceSomewhere'
  <2>1. /\ sent \in Seq(Payload) /\ Len(sent) \in Nat /\ outputOrderIndex = Len(sent)
        /\ Len(sent') = Len(sent) + 1 /\ sent'[Len(sent) + 1] = p
        /\ \A k \in 1..Len(sent) : sent'[k] = sent[k]
    BY <1>1, <1>8 DEF TypeOK, Numbering
  <2> SUFFICES ASSUME NEW order \in 0..(Len(sent') - 1), NEW i \in 0..(Len(sent'[order + 1]) - 1)
               PROVE  Settled(order, i)' \/ \E g \in Held' : Piece(g, order, i)
    BY DEF EachPieceSomewhere, Piece
  <2>2. CASE order < Len(sent)
    <3>1. order \in 0..(Len(sent) - 1) /\ order + 1 \in 1..Len(sent)
      BY <2>1, <2>2
    <3>2. i \in 0..(Len(sent[order + 1]) - 1)
      BY <2>1, <3>1
    <3>3. Settled(order, i) \/ \E g \in Held : Piece(g, order, i)
      BY <3>1, <3>2 DEF RecoveryInv, EachPieceSomewhere
    <3> QED
      BY <1>10, <1>13, <3>3
  <2>3. CASE ~(order < Len(sent))
    <3>1. order = Len(sent)
      BY <2>1, <2>3
    <3>2. i \in 0..(Len(p) - 1)
      BY <2>1, <3>1
    <3>3. i + 1 \in 1..Len(p) /\ i + 1 - 1 = i
      BY <1>3, <3>2
    <3>4. frames[i + 1] \in Range(frames)
      BY <1>3, <3>3, Members
    <3>5. Piece(frames[i + 1], order, i)
      BY <1>3, <2>1, <3>1, <3>3 DEF Piece
    <3> QED
      BY <1>10, <3>4, <3>5
  <2> QED
    BY <2>2, <2>3
<1> QED
  BY <1>9, <1>16, <1>17, <1>18, <1>19 DEF RecoveryInv

-------------------------------------------------------------------------------
(* Every behaviour *)

\* Two fresh sessions have sent nothing.
LEMMA InitRecovery == Init => RecoveryInv
<1> SUFFICES ASSUME Init
             PROVE  RecoveryInv
  OBVIOUS
<1>1. /\ Range(outputFrames) = {} /\ Range(unhandled) = {}
      /\ DOMAIN outputBackup = {} /\ toReceiver = {}
  BY DEF Init, Range
<1>2. Held = {} /\ Wire = {}
  BY <1>1, Whereabouts
<1>3. Accepted = {}
  BY DEF Init, Accepted
<1>4. SequencesSent /\ AcceptedDone
  BY <1>1, <1>3 DEF SequencesSent, AcceptedDone
<1>5. IndicesApart /\ ReceivedDone
  BY <1>2 DEF Init, IndicesApart, ReceivedDone
<1>6. EachPieceSomewhere
  BY DEF Init, EachPieceSomewhere
<1> QED
  BY <1>4, <1>5, <1>6 DEF RecoveryInv

\* While compounds do not expire, every step preserves the invariant.
LEMMA StepRecovery ==
  ~FragmentsExpire => (IInv /\ RecoveryInv /\ [Next]_vars => RecoveryInv')
<1> SUFFICES ASSUME ~FragmentsExpire, IInv, RecoveryInv, [Next]_vars
             PROVE  RecoveryInv'
  OBVIOUS
<1>1. ASSUME NEW p \in Payload, NEW fits \in BOOLEAN, NEW high \in BOOLEAN,
             Send(p, fits, high)
      PROVE  RecoveryInv'
  BY <1>1, SendRecovery
<1>2. ASSUME NEW due \in SUBSET DOMAIN outputBackup, SenderTick(due)
      PROVE  RecoveryInv'
  BY <1>2, SenderTickRecovery
<1>3. ASSUME Idle, NEW m \in toSender, OnAck(m) \/ OnNack(m)
      PROVE  RecoveryInv'
  BY <1>3, OnAckRecovery, OnNackRecovery
<1>4. ASSUME Idle, NEW m \in toReceiver, OnFrameSet(m) \/ LoseFrameSet(m)
      PROVE  RecoveryInv'
  BY <1>4, OnFrameSetRecovery, LoseRecovery
<1>5. CASE HandleFrame
  BY <1>5, HandleFrameRecovery
<1>6. ASSUME NEW cleanup \in BOOLEAN, NEW expired \in SUBSET DOMAIN fragmentsQueue,
             ReceiverTick(cleanup, expired)
      PROVE  RecoveryInv'
  BY <1>6, ReceiverTickRecovery
<1>7. CASE UNCHANGED vars
  BY <1>7 DEF vars, senderVars, receiverVars, windowVars, reliableVars, orderVars,
     RecoveryInv, SequencesSent, Accepted, IndicesApart, Held, Wire, ReceivedDone,
     Done, Settled, AcceptedDone, EachPieceSomewhere, Piece
<1> QED
  BY <1>1, <1>2, <1>3, <1>4, <1>5, <1>6, <1>7 DEF Next

\* What is neither delivered nor parked can still come: neither of the two
\* duplicate checks stands in its way.
LEMMA InvNothingLost == IInv /\ RecoveryInv => NothingLost
<1> SUFFICES ASSUME IInv, RecoveryInv,
                    NEW order \in inputOrderIndex..(Len(sent) - 1),
                    order \notin DOMAIN inputOrderingQueue,
                    NEW i \in 0..(Len(sent[order + 1]) - 1)
             PROVE  Recoverable(order, i)
  BY DEF NothingLost
<1>1. inputOrderIndex \in Nat
  BY DEF IInv, TypeOK
<1>2. order \in 0..(Len(sent) - 1) /\ ~(order < inputOrderIndex)
  BY <1>1
<1>3. CASE Settled(order, i)
  BY <1>2, <1>3 DEF Settled, Recoverable, Range
<1>4. CASE ~Settled(order, i)
  <2>1. PICK f \in Held : Piece(f, order, i)
    BY <1>2, <1>4 DEF RecoveryInv, EachPieceSomewhere
  <2>2. ~Done(f)
    BY <1>4, <2>1 DEF Done, Piece
  <2>3. f.reliableFrameIndex \notin receivedReliableFrameIndices
    BY <2>2 DEF RecoveryInv, ReceivedDone
  <2>4. CASE f \in Range(outputFrames) \/ f \in Range(unhandled)
    BY <2>1, <2>3, <2>4 DEF Recoverable
  <2>5. CASE \E s \in DOMAIN outputBackup : f \in Range(outputBackup[s])
    <3>1. PICK s \in DOMAIN outputBackup : f \in Range(outputBackup[s])
      BY <2>5
    <3>2. CASE s \in receivedFrameSequences
      <4>1. f \in Range(unhandled)
        BY <2>2, <3>1, <3>2 DEF RecoveryInv, AcceptedDone, Accepted
      <4> QED
        BY <2>4, <4>1
    <3>3. CASE s \notin receivedFrameSequences
      BY <2>1, <2>3, <3>1, <3>3 DEF Recoverable
    <3> QED
      BY <3>2, <3>3
  <2> QED
    BY <2>4, <2>5, Whereabouts
<1> QED
  BY <1>3, <1>4

\* As long as partial compounds do not expire, each piece of what was sent and
\* has not come out can still reach the receiver: no Ack makes the sender
\* forget what is still needed, and the windows swallow none of it.
THEOREM NothingIsLost == ~FragmentsExpire => (Spec => []NothingLost)
<1> SUFFICES ASSUME ~FragmentsExpire
             PROVE  Spec => []NothingLost
  OBVIOUS
<1>1. Init => IInv /\ RecoveryInv
  BY InitIInv, InitRecovery
<1>2. IInv /\ RecoveryInv /\ [Next]_vars => IInv' /\ RecoveryInv'
  BY StepIInv, StepRecovery
<1>3. IInv /\ RecoveryInv => NothingLost
  BY InvNothingLost
<1> QED
  BY <1>1, <1>2, <1>3, PTL DEF Spec

\* A step leaves in lostFrameSequences only what is missing.
LEMMA StepLost == TypeOK /\ LostAreMissing /\ [Next]_vars => LostAreMissing'
<1> SUFFICES ASSUME TypeOK, LostAreMissing, [Next]_vars
             PROVE  LostAreMissing'
  OBVIOUS
<1>1. CASE UNCHANGED windowVars
  BY <1>1 DEF LostAreMissing, windowVars
<1>2. ASSUME NEW m \in toReceiver, OnFrameSet(m)
      PROVE  LostAreMissing'
  <2>1. m.sequence \in Int /\ lastInputSequence \in Int /\ lostFrameSequences \subseteq Int
    BY DEF TypeOK
  <2>2. receivedFrameSequences' = receivedFrameSequences \cup {m.sequence}
    BY <1>2 DEF OnFrameSet
  <2>3. CASE m.sequence > lastInputSequence
    <3>1. /\ lastInputSequence' = m.sequence
          /\ \A s \in lostFrameSequences' :
               (s \in lostFrameSequences /\ s # m.sequence) \/ s \in Gap(m.sequence)
      BY <1>2, <2>3 DEF OnFrameSet
    <3>2. ASSUME NEW s \in lostFrameSequences, s # m.sequence
          PROVE  s \notin receivedFrameSequences' /\ s < m.sequence
      BY <2>1, <2>2, <2>3, <3>2 DEF LostAreMissing
    <3>3. ASSUME NEW s \in Gap(m.sequence)
          PROVE  s \notin receivedFrameSequences' /\ s < m.sequence
      BY <2>1, <2>2 DEF Gap
    <3> QED
      BY <3>1, <3>2, <3>3 DEF LostAreMissing
  <2>4. CASE ~(m.sequence > lastInputSequence)
    BY <1>2, <2>1, <2>2, <2>4 DEF OnFrameSet, LostAreMissing
  <2> QED
    BY <2>3, <2>4
<1>3. ASSUME NEW cleanup, NEW expired, ReceiverTick(cleanup, expired)
      PROVE  LostAreMissing'
  BY <1>3 DEF ReceiverTick, LostAreMissing
<1> QED
  BY <1>1, <1>2, <1>3
  DEF Next, Send, SenderTick, OnAck, OnNack, HandleFrame, LoseFrameSet, vars, receiverVars

\* A Nack never asks for a frame set that has arrived, nor for one that no gap
\* has shown to be missing.
THEOREM LostReallyMissing == Spec => []LostAreMissing
<1>1. Init => TypeOK /\ LostAreMissing
  BY InitType DEF Init, LostAreMissing
<1>2. TypeOK /\ LostAreMissing /\ [Next]_vars => TypeOK' /\ LostAreMissing'
  BY StepType, StepLost
<1> QED
  BY <1>1, <1>2, PTL DEF Spec
================================================================================
