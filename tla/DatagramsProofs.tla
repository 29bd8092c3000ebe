---------------------------- MODULE DatagramsProofs ----------------------------
(***************************************************************************)
(* What a session puts into a datagram, and what it reads of the           *)
(* acknowledgements of its peer.                                           *)
(*                                                                         *)
(* The budget of queueFrame is Mtu - 36, but it is not what bounds a       *)
(* datagram: a frame that does not fit is put into the next one without    *)
(* another look.  What bounds it is that one full frame with its headers   *)
(* fits into the 36 bytes that were put aside.  The invariant says it of   *)
(* the frames that wait to be flushed and of those still to be queued.     *)
(*                                                                         *)
(* The bytes of a payload are followed into its chunks, its frames, and    *)
(* with them through the queue and the list that waits into the backup.    *)
(* Sums are what a recursive function adds up; that it exists, and what it *)
(* is for a concatenation, is shown by induction, for which the set of the *)
(* numbers below which it holds is looked at.                              *)
(*                                                                         *)
(* Seen from outside each payload is cut, batched and numbered in one step *)
(* of the sending session of RakReliability.  The invariant says how far   *)
(* the queue is through the frames of that step: the frame sets flushed    *)
(* since the payload was sent, and what waits, are what waited before and  *)
(* the frames that are gone, each fragment but the last alone.             *)
(*                                                                         *)
(* What one end acknowledges is what the other end reads, for every sorted *)
(* list of sequence numbers: while writing, the records and the run being  *)
(* gathered cover just the numbers looked at so far; while reading, the    *)
(* records cover just what was serialized, and what is unfolded is what    *)
(* the records read so far cover.                                          *)
(***************************************************************************)
EXTENDS Datagrams, WellFoundedInduction, TLAPS

-------------------------------------------------------------------------------
(* FRAME SETS *)

Frame == [reliableFrameIndex : Int, orderedFrameIndex : Int, payload : [1..1 -> Int],
          splitSize : Int, splitId : Int, splitFrameIndex : Int]

Counters ==
  /\ outputReliableIndex \in Int /\ outputOrderIndex \in Int /\ outputSplitIndex \in Int
  /\ queue \in Seq(Frame)

\* A chunk is never longer than what a datagram has room for.
QueueFits == \A i \in DOMAIN queue : queue[i].payload[1] <= MaxSize

\* What waits could be flushed as it is.
WaitingFits == outputBytes \in Int /\ DatagramHeader + outputBytes <= Mtu

PackingInv == Counters /\ QueueFits /\ WaitingFits /\ bytes \in Seq(Int) /\ DatagramFits

-------------------------------------------------------------------------------
(* Lemmas *)

LEMMA BudgetIsPositive == Mtu \in Nat /\ MaxSize \in Nat /\ MaxSize > 0 /\ MaxSize = Mtu - 36
BY MtuAssumption DEF MaxSize, HeaderSize

\* sendSplit makes frames that are no longer than a datagram has room for.
LEMMA FramesFit ==
  ASSUME NEW n \in Nat, Counters
  PROVE  Frames(n) \in Seq(Frame) /\ \A i \in DOMAIN Frames(n) : Frames(n)[i].payload[1] <= MaxSize
<1>1. SplitSize(n) \in Nat
  <2>1. CASE n <= MaxSize
    BY <2>1 DEF SplitSize
  <2>2. CASE n > MaxSize
    <3> DEFINE x == n + MaxSize - 1
               q == x \div MaxSize
    <3>1. x \in Nat /\ MaxSize \in Nat /\ MaxSize > 0
      BY BudgetIsPositive
    <3> HIDE DEF x
    <3>2. q \in Nat
      BY <3>1, SMTT(30)
    <3> QED
      BY <2>2, <3>2, BudgetIsPositive DEF SplitSize, x
  <2> QED
    BY <2>1, <2>2, BudgetIsPositive
<1>2. \A i \in 1..SplitSize(n) : Chunk(n, i) \in Int /\ Chunk(n, i) <= MaxSize
  <2> TAKE i \in 1..SplitSize(n)
  <2> DEFINE c == n - (i - 1) * MaxSize
  <2>1. c \in Int
    BY BudgetIsPositive, <1>1
  <2> HIDE DEF c
  <2>2. SmallerOf(MaxSize, c) \in Int /\ SmallerOf(MaxSize, c) <= MaxSize
    BY <2>1, BudgetIsPositive DEF SmallerOf
  <2> QED
    BY <2>2 DEF Chunk, c
<1>3. \A i \in 1..SplitSize(n) : Frames(n)[i] \in Frame /\ Frames(n)[i].payload[1] <= MaxSize
  <2> TAKE i \in 1..SplitSize(n)
  <2>1. <<Chunk(n, i)>> \in [1..1 -> Int] /\ <<Chunk(n, i)>>[1] <= MaxSize
    BY <1>2
  <2> QED
    BY <1>1, <2>1 DEF Frames, Frame, Counters
<1>4. Frames(n) = [i \in 1..SplitSize(n) |-> Frames(n)[i]]
  BY DEF Frames
<1> HIDE DEF Frames
<1> QED
  BY <1>1, <1>3, <1>4

\* A frame alone fits into a datagram, and one that is not Full fits behind
\* what waits.
LEMMA FrameFits ==
  ASSUME NEW f \in Frame, f.payload[1] <= MaxSize, WaitingFits
  PROVE  /\ ByteLength(f) \in Int /\ DatagramHeader + ByteLength(f) <= Mtu
         /\ ~Full(f) => DatagramHeader + (outputBytes + ByteLength(f)) <= Mtu
<1>1. f.payload[1] \in Int /\ f.splitSize \in Int
  BY DEF Frame
<1>2. ByteLength(f) \in Int /\ ByteLength(f) <= MaxSize + 20
  BY <1>1, BudgetIsPositive DEF ByteLength
<1>3. outputBytes \in Int
  BY DEF WaitingFits
<1> QED
  BY <1>2, <1>3, BudgetIsPositive DEF Full, DatagramHeader, HeaderSize

-------------------------------------------------------------------------------
(* The invariant is inductive *)

LEMMA PackingInitially == PackingInit => PackingInv
BY BudgetIsPositive DEF PackingInit, PackingInv, Counters, QueueFits, WaitingFits, DatagramFits,
   DatagramHeader

\* Datagrams that fit, sent after those that fit
LEMMA LengthsAdded ==
  ASSUME bytes \in Seq(Int), DatagramFits, NEW lengths \in Seq(Int),
         \A i \in DOMAIN lengths : lengths[i] <= Mtu,
         bytes' = bytes \o lengths
  PROVE  bytes' \in Seq(Int) /\ DatagramFits'
<1>1. bytes' \in Seq(Int) /\ DOMAIN bytes' = 1..(Len(bytes) + Len(lengths))
  OBVIOUS
<1>2. ASSUME NEW i \in DOMAIN bytes'
      PROVE  bytes'[i] <= Mtu
  <2>1. CASE i <= Len(bytes)
    BY <1>1, <2>1 DEF DatagramFits
  <2>2. CASE i > Len(bytes)
    <3>1. i - Len(bytes) \in DOMAIN lengths /\ bytes'[i] = lengths[i - Len(bytes)]
      BY <1>1, <2>2
    <3> QED
      BY <3>1
  <2> QED
    BY <1>1, <2>1, <2>2
<1> QED
  BY <1>1, <1>2 DEF DatagramFits

\* sendFrame and sendSplit
LEMMA SendFramePreserves ==
  ASSUME PackingInv, NEW n \in Size, NEW urgent \in BOOLEAN, SendFrame(n, urgent)
  PROVE  PackingInv'
<1>1. n \in Nat /\ Counters
  BY SizeAssumption DEF PackingInv
<1>2. SplitSize(n) \in Int
  <2>1. Frames(n) \in Seq(Frame) /\ DOMAIN Frames(n) = 1..SplitSize(n)
    BY <1>1, FramesFit DEF Frames
  <2> QED
    BY <1>1, BudgetIsPositive DEF SplitSize
<1>3. Counters' /\ QueueFits'
  <2>1. queue' \in Seq(Frame) /\ QueueFits'
    BY <1>1, FramesFit DEF SendFrame, QueueFits
  <2> QED
    BY <1>1, <1>2, <2>1 DEF SendFrame, Counters
<1> QED
  BY <1>3 DEF SendFrame, PackingInv, WaitingFits, DatagramFits

\* A frame is put behind what waits, or what waits is flushed before it.
LEMMA QueueFramePreserves ==
  ASSUME PackingInv, QueueFrame
  PROVE  PackingInv'
<1> DEFINE f == Head(queue)
           firstBytes == IF Full(f) THEN Waiting(DatagramHeader + outputBytes) ELSE <<>>
           length == IF Full(f) THEN ByteLength(f) ELSE outputBytes + ByteLength(f)
<1>1. queue \in Seq(Frame) /\ queue # <<>> /\ QueueFits /\ WaitingFits /\ bytes \in Seq(Int) /\ DatagramFits
  BY DEF PackingInv, Counters, QueueFrame
<1>2. f \in Frame /\ f.payload[1] <= MaxSize
  BY <1>1 DEF QueueFits
<1>3. Counters' /\ QueueFits'
  <2>1. queue' = Tail(queue) /\ UNCHANGED <<outputOrderIndex, outputReliableIndex, outputSplitIndex>>
    BY DEF QueueFrame
  <2>2. /\ queue' \in Seq(Frame)
        /\ \A i \in DOMAIN queue' : i + 1 \in DOMAIN queue /\ queue'[i] = queue[i + 1]
    BY <1>1, <2>1
  <2>3. QueueFits'
    BY <1>1, <2>2 DEF QueueFits
  <2> QED
    BY <2>1, <2>2, <2>3 DEF PackingInv, Counters
<1>4. length \in Int /\ DatagramHeader + length <= Mtu
  BY <1>1, <1>2, FrameFits DEF WaitingFits
<1>5. firstBytes \in Seq(Int) /\ \A i \in DOMAIN firstBytes : firstBytes[i] <= Mtu
  BY <1>1 DEF Waiting, WaitingFits, DatagramHeader
<1>6. \/ /\ bytes' = bytes \o Append(firstBytes, DatagramHeader + length)
         /\ outputBytes' = 0
      \/ bytes' = bytes \o firstBytes /\ outputBytes' = length
  BY DEF QueueFrame, Flush
<1> HIDE DEF firstBytes, length
<1>7. WaitingFits'
  BY <1>4, <1>6, BudgetIsPositive DEF WaitingFits, DatagramHeader
<1>8. CASE bytes' = bytes \o firstBytes
  <2>1. bytes' \in Seq(Int) /\ DatagramFits'
    BY <1>1, <1>5, <1>8, LengthsAdded
  <2> QED
    BY <1>3, <1>7, <2>1 DEF PackingInv
<1>9. CASE bytes' = bytes \o Append(firstBytes, DatagramHeader + length)
  <2> DEFINE lengths == Append(firstBytes, DatagramHeader + length)
  <2>1. lengths \in Seq(Int) /\ \A i \in DOMAIN lengths : lengths[i] <= Mtu
    BY <1>4, <1>5 DEF DatagramHeader
  <2> HIDE DEF lengths
  <2>2. bytes' = bytes \o lengths
    BY <1>9 DEF lengths
  <2>3. bytes' \in Seq(Int) /\ DatagramFits'
    BY <1>1, <2>1, <2>2, LengthsAdded
  <2> QED
    BY <1>3, <1>7, <2>3 DEF PackingInv
<1> QED
  BY <1>6, <1>8, <1>9

\* The flush of tick
LEMMA TickFlushesPreserves ==
  ASSUME PackingInv, TickFlushes
  PROVE  PackingInv'
<1> DEFINE lengths == Waiting(DatagramHeader + outputBytes)
<1>1. bytes' = bytes \o lengths /\ outputBytes' = 0 /\ queue' = queue
      /\ UNCHANGED <<outputOrderIndex, outputReliableIndex, outputSplitIndex>>
  BY DEF TickFlushes, Flush
<1>2. lengths \in Seq(Int) /\ \A i \in DOMAIN lengths : lengths[i] <= Mtu
  BY DEF PackingInv, WaitingFits, Waiting, DatagramHeader
<1> HIDE DEF lengths
<1>3. bytes' \in Seq(Int) /\ DatagramFits'
  BY <1>1, <1>2, LengthsAdded DEF PackingInv
<1>4. Counters' /\ QueueFits'
  BY <1>1 DEF PackingInv, Counters, QueueFits
<1>5. WaitingFits'
  BY <1>1, BudgetIsPositive DEF WaitingFits, DatagramHeader
<1> QED
  BY <1>3, <1>4, <1>5 DEF PackingInv

-------------------------------------------------------------------------------
\* NetworkSession.queueFrame: no datagram is longer than the mtu, whatever
\* payloads are sent in whatever order and priority.
THEOREM DatagramsFit == PackingSpec => []DatagramFits
<1>1. PackingInit => PackingInv
  BY PackingInitially
<1>2. PackingInv /\ [PackingNext]_packingVars => PackingInv'
  <2> SUFFICES ASSUME PackingInv, [PackingNext]_packingVars
               PROVE  PackingInv'
    OBVIOUS
  <2>1. CASE UNCHANGED packingVars
    BY <2>1 DEF packingVars, PackingInv, Counters, QueueFits, WaitingFits, DatagramFits
  <2> QED
    BY <2>1, SendFramePreserves, QueueFramePreserves, TickFlushesPreserves DEF PackingNext
<1>3. PackingInv => DatagramFits
  BY DEF PackingInv
<1> QED
  BY <1>1, <1>2, <1>3, PTL DEF PackingSpec

-------------------------------------------------------------------------------
(* Induction and sums *)

\* What holds of 0 and goes from each number to the next holds of all.
LEMMA Induct ==
  ASSUME NEW S, 0 \in S, \A n \in Nat : n \in S => n + 1 \in S
  PROVE  Nat \subseteq S
<1> DEFINE T == Nat \ S
           Below == OpToRel(<, Nat)
<1> SUFFICES ASSUME T # {}
             PROVE  FALSE
  OBVIOUS
<1>1. IsWellFoundedOn(Below, Nat)
  BY NatLessThanWellFounded
<1>2. \A x, y \in Nat : y < x => <<y, x>> \in Below
  BY DEF OpToRel
<1>3. T \subseteq Nat
  OBVIOUS
<1>4. PICK m \in T : \A k \in T : ~(<<k, m>> \in Below)
  <2> HIDE DEF Below, T
  <2> QED
    BY <1>1, <1>3, WFMin
<1>5. m # 0 /\ m \in Nat
  OBVIOUS
<1>6. m - 1 \in Nat /\ m - 1 < m /\ m = (m - 1) + 1
  BY <1>5
<1>7. m - 1 \in S
  <2> HIDE DEF Below
  <2> QED
    BY <1>2, <1>4, <1>5, <1>6
<1> QED
  BY <1>5, <1>6, <1>7

\* f sums up the first n of s.
SumsUp(f, s, n) == f = [i \in 0..n |-> IF i = 0 THEN 0 ELSE f[i - 1] + s[i]]

LEMMA SumsExist == \A s : \A n \in Nat : \E f : SumsUp(f, s, n)
<1> SUFFICES ASSUME NEW s
             PROVE  \A n \in Nat : \E f : SumsUp(f, s, n)
  OBVIOUS
<1> DEFINE S == {n \in Nat : \E f : SumsUp(f, s, n)}
<1>1. 0 \in S
  <2> DEFINE f == [i \in 0..0 |-> 0]
  <2>1. SumsUp(f, s, 0)
    <3>1. \A i \in 0..0 : i = 0
      OBVIOUS
    <3> QED
      BY <3>1 DEF SumsUp
  <2> QED
    BY <2>1
<1>2. ASSUME NEW n \in Nat, n \in S
      PROVE  n + 1 \in S
  <2>1. PICK f : SumsUp(f, s, n)
    BY <1>2
  <2> DEFINE g == [i \in 0..(n + 1) |-> IF i = n + 1 THEN f[n] + s[n + 1] ELSE f[i]]
             h == [i \in 0..(n + 1) |-> IF i = 0 THEN 0 ELSE g[i - 1] + s[i]]
  <2>2. ASSUME NEW i \in 0..(n + 1)
        PROVE  g[i] = h[i]
    <3>1. CASE i = n + 1
      <4>1. i # 0 /\ i - 1 = n /\ n \in 0..(n + 1) /\ n # n + 1
        BY <3>1
      <4> QED
        BY <3>1, <4>1
    <3>2. CASE i = 0
      <4>1. 0 # n + 1 /\ 0 \in 0..n /\ f[0] = 0
        BY <2>1 DEF SumsUp
      <4> QED
        BY <3>2, <4>1
    <3>3. CASE i \in 1..n
      <4>1. i # 0 /\ i # n + 1 /\ i - 1 \in 0..(n + 1) /\ i - 1 # n + 1 /\ i \in 0..n
        BY <3>3
      <4>2. f[i] = f[i - 1] + s[i]
        BY <2>1, <4>1 DEF SumsUp
      <4> QED
        BY <4>1, <4>2
    <3> QED
      BY <3>1, <3>2, <3>3
  <2>3. g = h
    <3>1. g = [i \in 0..(n + 1) |-> g[i]] /\ h = [i \in 0..(n + 1) |-> h[i]]
      OBVIOUS
    <3> HIDE DEF g, h
    <3> QED
      BY <2>2, <3>1
  <2>4. SumsUp(g, s, n + 1)
    BY <2>3 DEF SumsUp
  <2> HIDE DEF g
  <2> QED
    BY <2>4
<1> HIDE DEF S
<1>3. Nat \subseteq S
  BY <1>1, <1>2, Induct
<1> QED
  BY <1>3 DEF S

LEMMA SumsOf ==
  ASSUME NEW s \in Seq(Int)
  PROVE  Sums(s)[0] = 0 /\ \A i \in 1..Len(s) : Sums(s)[i] = Sums(s)[i - 1] + s[i]
<1>1. Len(s) \in Nat
  OBVIOUS
<1>2. \E f : SumsUp(f, s, Len(s))
  BY <1>1, SumsExist
<1>3. Sums(s) = CHOOSE f : SumsUp(f, s, Len(s))
  BY DEF Sums, SumsUp
<1>4. SumsUp(Sums(s), s, Len(s))
  BY <1>2, <1>3
<1> DEFINE f == Sums(s)
           n == Len(s)
<1> HIDE DEF f, n
<1>5. f = [i \in 0..n |-> IF i = 0 THEN 0 ELSE f[i - 1] + s[i]]
  BY <1>4 DEF SumsUp, f, n
<1>6. 0 \in 0..n /\ \A i \in 1..n : i \in 0..n /\ i # 0
  BY <1>1 DEF n
<1> QED
  BY <1>5, <1>6 DEF f, n

\* Whatever adds up as the sums do is the sums.
LEMMA TotalIs ==
  ASSUME NEW s \in Seq(Int), NEW g, g[0] = 0,
         \A i \in 1..Len(s) : g[i] = g[i - 1] + s[i]
  PROVE  Total(s) = g[Len(s)] /\ Total(s) \in Int
<1> DEFINE f == Sums(s)
           n == Len(s)
           S == {i \in Nat : i <= n => f[i] = g[i] /\ f[i] \in Int}
<1>1. f[0] = 0 /\ \A i \in 1..n : f[i] = f[i - 1] + s[i]
  BY SumsOf
<1>2. n \in Nat /\ \A i \in 1..n : s[i] \in Int
  OBVIOUS
<1> HIDE DEF f, n
<1>3. 0 \in S
  BY <1>1
<1>4. ASSUME NEW i \in Nat, i \in S
      PROVE  i + 1 \in S
  <2> SUFFICES ASSUME i + 1 <= n
               PROVE  f[i + 1] = g[i + 1] /\ f[i + 1] \in Int
    OBVIOUS
  <2>1. i + 1 \in 1..n /\ (i + 1) - 1 = i /\ i <= n
    BY <1>2
  <2>2. f[i + 1] = f[i] + s[i + 1] /\ g[i + 1] = g[i] + s[i + 1]
    BY <1>1, <2>1 DEF n
  <2>3. f[i] = g[i] /\ f[i] \in Int /\ s[i + 1] \in Int
    BY <1>2, <1>4, <2>1
  <2> QED
    BY <2>2, <2>3
<1> HIDE DEF S
<1>5. Nat \subseteq S
  BY <1>3, <1>4, Induct
<1>6. f[n] = g[n] /\ f[n] \in Int
  BY <1>2, <1>5 DEF S
<1> QED
  BY <1>6 DEF Total, f, n

LEMMA SumsAreNumbers ==
  ASSUME NEW s \in Seq(Int), NEW i \in 0..Len(s)
  PROVE  Sums(s)[i] \in Int
<1> DEFINE f == Sums(s)
           n == Len(s)
           S == {k \in Nat : k <= n => f[k] \in Int}
<1>1. f[0] = 0 /\ \A k \in 1..n : f[k] = f[k - 1] + s[k]
  BY SumsOf
<1>2. n \in Nat /\ \A k \in 1..n : s[k] \in Int
  OBVIOUS
<1> HIDE DEF f, n
<1>3. 0 \in S
  BY <1>1
<1>4. ASSUME NEW k \in Nat, k \in S
      PROVE  k + 1 \in S
  <2> SUFFICES ASSUME k + 1 <= n
               PROVE  f[k + 1] \in Int
    OBVIOUS
  <2>1. k + 1 \in 1..n /\ (k + 1) - 1 = k /\ k <= n
    BY <1>2
  <2> QED
    BY <1>1, <1>2, <1>4, <2>1
<1> HIDE DEF S
<1>5. Nat \subseteq S
  BY <1>3, <1>4, Induct
<1>6. i \in Nat /\ i <= n
  BY <1>2 DEF n
<1> QED
  BY <1>5, <1>6 DEF S, f

LEMMA TotalOfBoth ==
  ASSUME NEW s \in Seq(Int), NEW r \in Seq(Int)
  PROVE  Total(s \o r) = Total(s) + Total(r) /\ Total(s) \in Int
<1> DEFINE m == Len(s)
           n == Len(r)
           f == Sums(s)
           h == Sums(r)
           q == s \o r
           g == [i \in 0..(m + n) |-> IF i <= m THEN f[i] ELSE f[m] + h[i - m]]
<1>1. /\ m \in Nat /\ n \in Nat /\ q \in Seq(Int) /\ Len(q) = m + n
      /\ \A i \in 1..m : q[i] = s[i]
      /\ \A i \in (m + 1)..(m + n) : q[i] = r[i - m] /\ i - m \in 1..n
  OBVIOUS
<1>2. f[0] = 0 /\ \A i \in 1..m : f[i] = f[i - 1] + s[i]
  BY SumsOf
<1>3. h[0] = 0 /\ \A i \in 1..n : h[i] = h[i - 1] + r[i]
  BY SumsOf
<1>4. \A i \in 0..m : f[i] \in Int
  BY SumsAreNumbers
<1>5. \A i \in 0..n : h[i] \in Int
  BY SumsAreNumbers
<1>6. (\A i \in 1..m : s[i] \in Int) /\ (\A i \in 1..n : r[i] \in Int)
  OBVIOUS
<1> HIDE DEF m, n, f, h, q
<1>7. g[0] = 0
  BY <1>1, <1>2
<1>8. ASSUME NEW i \in 1..(m + n)
      PROVE  g[i] = g[i - 1] + q[i]
  <2>0. i \in 0..(m + n) /\ i - 1 \in 0..(m + n)
    BY <1>1
  <2>1. CASE i <= m
    <3>1. i \in 1..m /\ i - 1 <= m
      BY <1>1, <2>1
    <3> QED
      BY <1>1, <1>2, <2>0, <2>1, <3>1
  <2>2. CASE i = m + 1
    <3>1. g[i] = f[m] + h[1] /\ g[i - 1] = f[m]
      BY <1>1, <2>0, <2>2
    <3>2. i \in (m + 1)..(m + n) /\ i - m = 1 /\ 1 \in 1..n /\ 1 - 1 = 0
      BY <1>1, <2>2
    <3>3. q[i] = r[1]
      BY <1>1, <3>2
    <3>4. h[1] = h[0] + r[1] /\ r[1] \in Int
      BY <1>3, <1>6, <3>2
    <3>5. h[1] = r[1]
      BY <1>3, <3>4
    <3> QED
      BY <3>1, <3>3, <3>5
  <2>3. CASE i > m + 1
    <3>1. g[i] = f[m] + h[i - m] /\ g[i - 1] = f[m] + h[(i - 1) - m]
      BY <1>1, <2>0, <2>3
    <3>2. /\ i \in (m + 1)..(m + n) /\ i - m \in 1..n /\ (i - 1) - m = (i - m) - 1
          /\ (i - m) - 1 \in 0..n /\ m \in 0..m
      BY <1>1, <2>3
    <3>3. q[i] = r[i - m]
      BY <1>1, <3>2
    <3>4. h[i - m] = h[(i - m) - 1] + r[i - m]
      BY <1>3, <3>2
    <3>5. f[m] \in Int /\ h[(i - m) - 1] \in Int /\ r[i - m] \in Int
      BY <1>4, <1>5, <1>6, <3>2
    <3>6. g[i - 1] = f[m] + h[(i - m) - 1]
      BY <3>1, <3>2
    <3> HIDE DEF g
    <3>7. \A a, b, c \in Int : a + (b + c) = (a + b) + c
      OBVIOUS
    <3> QED
      BY <3>1, <3>3, <3>4, <3>5, <3>6, <3>7
  <2> QED
    BY <1>1, <2>1, <2>2, <2>3
<1>9. g[m + n] = f[m] + h[n]
  <2>1. CASE n = 0
    <3>1. m + n = m /\ m \in 0..(m + n) /\ m \in 0..m
      BY <1>1, <2>1
    <3> QED
      BY <1>3, <1>4, <2>1, <3>1
  <2>2. CASE n > 0
    <3>1. ~(m + n <= m) /\ m + n \in 0..(m + n) /\ (m + n) - m = n
      BY <1>1, <2>2
    <3> QED
      BY <3>1
  <2> QED
    BY <1>1, <2>1, <2>2
<1> HIDE DEF g
<1>10. Total(q) = g[m + n]
  BY <1>1, <1>7, <1>8, TotalIs
<1>11. Total(s) = f[m] /\ Total(r) = h[n]
  BY DEF Total, f, h, m, n
<1>12. f[m] \in Int
  BY <1>1, <1>4
<1> QED
  BY <1>9, <1>10, <1>11, <1>12 DEF q

LEMMA TotalOfZeros ==
  ASSUME NEW s \in Seq(Int), \A i \in DOMAIN s : s[i] = 0
  PROVE  Total(s) = 0
<1> DEFINE g == [i \in 0..Len(s) |-> 0]
<1>1. Len(s) \in Nat /\ DOMAIN s = 1..Len(s)
  OBVIOUS
<1>2. g[0] = 0 /\ g[Len(s)] = 0 /\ \A i \in 1..Len(s) : g[i] = g[i - 1] + s[i]
  BY <1>1
<1> HIDE DEF g
<1> QED
  BY <1>2, TotalIs

LEMMA TotalOfOne ==
  ASSUME NEW x \in Int
  PROVE  Total(<<x>>) = x
<1> DEFINE g == [i \in 0..1 |-> IF i = 0 THEN 0 ELSE x]
           s == <<x>>
<1>1. s \in Seq(Int) /\ Len(s) = 1 /\ s[1] = x /\ 1..1 = {1}
  OBVIOUS
<1>2. g[0] = 0 /\ g[1] = x /\ \A i \in 1..1 : g[i] = g[i - 1] + s[i]
  OBVIOUS
<1> HIDE DEF g, s
<1>3. Total(s) = g[1]
  BY <1>1, <1>2, TotalIs
<1> QED
  BY <1>2, <1>3 DEF s

-------------------------------------------------------------------------------
(* sendSplit *)

\* sendSplit: as many chunks as it takes, and each but the last full
LEMMA Ceiling ==
  ASSUME NEW n \in Nat
  PROVE  LET q == SplitSize(n) IN
         /\ q \in Nat \ {0} /\ (q - 1) * MaxSize <= n /\ n <= q * MaxSize
<1>1. CASE n <= MaxSize
  BY <1>1, BudgetIsPositive DEF SplitSize
<1>2. CASE n > MaxSize
  <2> DEFINE x == n + MaxSize - 1
             q == x \div MaxSize
  <2>1. x \in Nat /\ MaxSize \in Nat /\ MaxSize > 0 /\ x >= MaxSize
    BY <1>2, BudgetIsPositive
  <2>2. q \in Nat /\ q * MaxSize <= x /\ x < q * MaxSize + MaxSize
    <3> HIDE DEF x
    <3>1. \A a, b \in Nat : b > 0 => (a \div b) \in Nat /\ (a \div b) * b <= a /\ a < (a \div b) * b + b
      BY SMTT(30)
    <3> QED
      BY <2>1, <3>1
  <2>7. SplitSize(n) = q
    BY <1>2, <2>1 DEF SplitSize
  <2> HIDE DEF q
  <2>3. q # 0
    BY <1>2, <2>1, <2>2
  <2>4. (q - 1) * MaxSize = q * MaxSize - MaxSize
    BY <2>1, <2>2, SMTT(30)
  <2>5. q * MaxSize \in Nat
    BY <2>1, <2>2
  <2>6. (q - 1) * MaxSize <= n /\ n <= q * MaxSize
    BY <2>1, <2>2, <2>4, <2>5
  <2> QED
    BY <2>2, <2>3, <2>6, <2>7
<1> QED
  BY <1>1, <1>2, BudgetIsPositive

LEMMA Multiples ==
  ASSUME NEW m \in Nat, NEW a \in Nat, NEW b \in Nat
  PROVE  /\ a * m \in Nat /\ (a + 1) * m = a * m + m /\ (a <= b => a * m <= b * m)
<1>1. a * m \in Nat /\ (a + 1) * m = a * m + m
  BY SMTT(30)
<1>2. ASSUME a <= b PROVE a * m <= b * m
  <2> DEFINE c == b - a
  <2>1. c \in Nat /\ b = a + c
    BY <1>2
  <2> HIDE DEF c
  <2>2. (a + c) * m = a * m + c * m /\ c * m \in Nat
    BY <2>1, SMTT(30)
  <2> QED
    BY <1>1, <2>1, <2>2
<1> QED
  BY <1>1, <1>2

\* The chunks of a payload are all of it.
LEMMA ChunksAreWhole ==
  ASSUME NEW n \in Nat
  PROVE  ChunksOf(n) \in Seq(Int) /\ Total(ChunksOf(n)) = n
<1> DEFINE q == SplitSize(n)
           s == ChunksOf(n)
           g == [i \in 0..q |-> SmallerOf(n, i * MaxSize)]
<1>1. q \in Nat \ {0} /\ (q - 1) * MaxSize <= n /\ n <= q * MaxSize
  BY Ceiling
<1>2. MaxSize \in Nat
  BY BudgetIsPositive
<1>3. s = [i \in 1..q |-> Chunk(n, i)]
  BY DEF ChunksOf
<1> HIDE DEF q, s
<1>4. ASSUME NEW i \in 1..q
      PROVE  /\ Chunk(n, i) \in Int
             /\ SmallerOf(n, i * MaxSize) = SmallerOf(n, (i - 1) * MaxSize) + Chunk(n, i)
  <2> DEFINE a == (i - 1) * MaxSize
             b == i * MaxSize
  <2>1. i - 1 \in Nat /\ q - 1 \in Nat /\ i - 1 <= q - 1 /\ (i - 1) + 1 = i
    BY <1>1
  <2>2. a \in Nat /\ a <= (q - 1) * MaxSize /\ b = a + MaxSize /\ (q - 1) * MaxSize \in Nat
    BY <1>2, <2>1, Multiples
  <2>3. a <= n
    <3> HIDE DEF a, b
    <3> QED
      BY <1>1, <2>2
  <2>4. Chunk(n, i) = SmallerOf(MaxSize, n - a)
    BY DEF Chunk
  <2> HIDE DEF a, b
  <2>5. /\ SmallerOf(MaxSize, n - a) \in Int
        /\ SmallerOf(n, b) = SmallerOf(n, a) + SmallerOf(MaxSize, n - a)
    BY <1>2, <2>2, <2>3 DEF SmallerOf
  <2> QED
    BY <2>4, <2>5 DEF a, b
<1>5. s \in Seq(Int) /\ Len(s) = q /\ \A i \in 1..q : s[i] = Chunk(n, i)
  BY <1>1, <1>3, <1>4
<1>6. g[0] = 0
  <2>1. 0 \in 0..q /\ 0 * MaxSize = 0
    BY <1>1, <1>2
  <2> QED
    BY <2>1 DEF SmallerOf
<1>7. g[q] = n
  <2>1. q \in 0..q /\ q * MaxSize \in Nat
    BY <1>1, <1>2, Multiples
  <2> QED
    BY <1>1, <2>1 DEF SmallerOf
<1>8. \A i \in 1..q : g[i] = g[i - 1] + s[i]
  <2>1. \A i \in 1..q : i \in 0..q /\ i - 1 \in 0..q
    BY <1>1
  <2> QED
    BY <1>4, <1>5, <2>1
<1> HIDE DEF g
<1> QED
  BY <1>5, <1>6, <1>7, <1>8, TotalIs DEF s

-------------------------------------------------------------------------------
(* The bytes of frames *)

\* Adding up what g says of the elements
Adds(g, s) == Total([i \in DOMAIN s |-> g[s[i]]])

LEMMA AddsOfBoth ==
  ASSUME NEW D, NEW g \in [D -> Int], NEW s \in Seq(D), NEW r \in Seq(D)
  PROVE  Adds(g, s \o r) = Adds(g, s) + Adds(g, r) /\ Adds(g, s) \in Int
<1> DEFINE x == [i \in DOMAIN s |-> g[s[i]]]
           y == [i \in DOMAIN r |-> g[r[i]]]
           z == [i \in DOMAIN (s \o r) |-> g[(s \o r)[i]]]
<1>1. Len(s) \in Nat /\ Len(r) \in Nat /\ DOMAIN s = 1..Len(s) /\ DOMAIN r = 1..Len(r)
  OBVIOUS
<1>2. /\ DOMAIN (s \o r) = 1..(Len(s) + Len(r))
      /\ \A i \in 1..Len(s) : (s \o r)[i] = s[i]
      /\ \A i \in (Len(s) + 1)..(Len(s) + Len(r)) :
           (s \o r)[i] = r[i - Len(s)] /\ i - Len(s) \in 1..Len(r)
  OBVIOUS
<1>3. x \in Seq(Int) /\ Len(x) = Len(s) /\ \A i \in 1..Len(s) : x[i] = g[s[i]]
  <2>1. x = [i \in 1..Len(s) |-> g[s[i]]] /\ \A i \in 1..Len(s) : g[s[i]] \in Int
    BY <1>1
  <2> HIDE DEF x
  <2> QED
    BY <1>1, <2>1
<1>4. y \in Seq(Int) /\ Len(y) = Len(r) /\ \A i \in 1..Len(r) : y[i] = g[r[i]]
  <2>1. y = [i \in 1..Len(r) |-> g[r[i]]] /\ \A i \in 1..Len(r) : g[r[i]] \in Int
    BY <1>1
  <2> HIDE DEF y
  <2> QED
    BY <1>1, <2>1
<1> DEFINE m == Len(s)
           n == Len(r)
           w == x \o y
           v == s \o r
<1>5. \A i \in 1..(m + n) : w[i] = g[v[i]]
  <2> HIDE DEF x, y
  <2>1. \A i \in 1..m : w[i] = x[i]
    BY <1>3, <1>4
  <2>2. \A i \in (m + 1)..(m + n) : w[i] = y[i - m]
    BY <1>3, <1>4
  <2> HIDE DEF m, n, w, v
  <2> TAKE i \in 1..(m + n)
  <2>3. CASE i <= m
    <3>1. i \in 1..m
      BY <1>1, <2>3 DEF m, n
    <3> QED
      BY <1>2, <1>3, <2>1, <3>1 DEF m, v
  <2>4. CASE i > m
    <3>1. i \in (m + 1)..(m + n)
      BY <1>1, <2>4 DEF m, n
    <3>2. i - m \in 1..n /\ v[i] = r[i - m]
      BY <1>2, <3>1 DEF m, n, v
    <3>3. w[i] = y[i - m] /\ y[i - m] = g[r[i - m]]
      BY <1>4, <2>2, <3>1, <3>2 DEF n
    <3> QED
      BY <3>2, <3>3
  <2>5. i <= m \/ i > m
    BY <1>1 DEF m, n
  <2> QED
    BY <2>3, <2>4, <2>5
<1>6. x \o y = z
  <2>1. z = [i \in 1..(m + n) |-> g[v[i]]]
    BY <1>2
  <2> HIDE DEF x, y, z, v
  <2>2. w = [i \in 1..(m + n) |-> w[i]]
    <3>1. w \in Seq(Int) /\ Len(w) = m + n
      <4>1. /\ x \in Seq(Int) /\ y \in Seq(Int) /\ Len(x) = m /\ Len(y) = n
            /\ m \in Nat /\ n \in Nat
        BY <1>1, <1>3, <1>4
      <4>2. ASSUME NEW a \in Seq(Int), NEW b \in Seq(Int)
            PROVE  a \o b \in Seq(Int) /\ Len(a \o b) = Len(a) + Len(b)
        OBVIOUS
      <4> QED
        BY <4>1, <4>2
    <3>2. DOMAIN w = 1..(m + n) /\ w = [i \in DOMAIN w |-> w[i]]
      <4> HIDE DEF m, n, w
      <4> QED
        BY <3>1
    <3> QED
      BY <3>2
  <2> HIDE DEF m, n, w
  <2>3. w = z
    BY <1>5, <2>1, <2>2
  <2> QED
    BY <2>3 DEF w
<1> HIDE DEF x, y, z
<1>7. Total(x \o y) = Total(x) + Total(y) /\ Total(x) \in Int
  BY <1>3, <1>4, TotalOfBoth
<1>8. Total(z) = Total(x) + Total(y) /\ Total(x) \in Int
  BY <1>6, <1>7
<1> QED
  BY <1>8 DEF Adds, x, y, z

LEMMA AddsOfOne ==
  ASSUME NEW D, NEW g \in [D -> Int], NEW e \in D
  PROVE  Adds(g, <<e>>) = g[e] /\ Adds(g, <<>>) = 0 /\ <<e>> \in Seq(D) /\ <<>> \in Seq(D)
<1>1. Total(<<g[e]>>) = g[e]
  BY TotalOfOne
<1>2. Total(<<>>) = 0
  <2>1. <<>> \in Seq(Int) /\ DOMAIN <<>> = {}
    OBVIOUS
  <2> QED
    BY <2>1, TotalOfZeros
<1>3. [i \in DOMAIN <<e>> |-> g[<<e>>[i]]] = <<g[e]>>
  OBVIOUS
<1>4. [i \in DOMAIN <<>> |-> g[<<>>[i]]] = <<>>
  OBVIOUS
<1>5. Adds(g, <<e>>) = g[e] /\ Adds(g, <<>>) = 0
  BY <1>1, <1>2, <1>3, <1>4 DEF Adds
<1> QED
  BY <1>5

\* What each frame has of a payload, and its length
Of(k) == [f \in Frame |-> OwnBytes(k, f)]
Long == [f \in Frame |-> Written(f)]

LEMMA OfFrames ==
  /\ Long \in [Frame -> Int] /\ \A k : Of(k) \in [Frame -> Int]
  /\ \A q \in Seq(Frame) : Total(Lengths(q)) = Adds(Long, q)
  /\ \A k : \A q \in Seq(Frame) : FramesOf(k, q) = Adds(Of(k), q)
<1>1. \A f \in Frame : Written(f) \in Int
  BY DEF Frame, Written
<1>2. \A k : \A f \in Frame : OwnBytes(k, f) \in Int
  BY DEF Frame, OwnBytes
<1>3. ASSUME NEW q \in Seq(Frame), NEW k
      PROVE  Total(Lengths(q)) = Adds(Long, q) /\ FramesOf(k, q) = Adds(Of(k), q)
  <2>1. \A i \in DOMAIN q : q[i] \in Frame
    OBVIOUS
  <2>2. [i \in DOMAIN q |-> Written(q[i])] = [i \in DOMAIN q |-> Long[q[i]]]
    BY <2>1 DEF Long
  <2>3. [i \in DOMAIN q |-> OwnBytes(k, q[i])] = [i \in DOMAIN q |-> Of(k)[q[i]]]
    BY <2>1 DEF Of
  <2> QED
    BY <2>2, <2>3 DEF Lengths, FramesOf, Adds
<1> QED
  BY <1>1, <1>2, <1>3 DEF Of, Long

LEMMA FramesOfBoth ==
  ASSUME NEW q \in Seq(Frame), NEW r \in Seq(Frame)
  PROVE  /\ Total(Lengths(q)) \in Int
         /\ Total(Lengths(q \o r)) = Total(Lengths(q)) + Total(Lengths(r))
         /\ \A k : FramesOf(k, q) \in Int /\ FramesOf(k, q \o r) = FramesOf(k, q) + FramesOf(k, r)
<1>1. q \o r \in Seq(Frame)
  OBVIOUS
<1>2. Adds(Long, q \o r) = Adds(Long, q) + Adds(Long, r) /\ Adds(Long, q) \in Int
  BY OfFrames, AddsOfBoth
<1>3. \A k : Adds(Of(k), q \o r) = Adds(Of(k), q) + Adds(Of(k), r) /\ Adds(Of(k), q) \in Int
  BY OfFrames, AddsOfBoth
<1> QED
  BY <1>1, <1>2, <1>3, OfFrames

LEMMA FramesOfOne ==
  ASSUME NEW f \in Frame
  PROVE  /\ Total(Lengths(<<f>>)) = Written(f) /\ Total(Lengths(<<>>)) = 0
         /\ \A k : FramesOf(k, <<f>>) = OwnBytes(k, f) /\ FramesOf(k, <<>>) = 0
<1>1. <<f>> \in Seq(Frame) /\ <<>> \in Seq(Frame)
  OBVIOUS
<1>2. Adds(Long, <<f>>) = Long[f] /\ Adds(Long, <<>>) = 0
  BY OfFrames, AddsOfOne
<1>3. \A k : Adds(Of(k), <<f>>) = Of(k)[f] /\ Adds(Of(k), <<>>) = 0
  BY OfFrames, AddsOfOne
<1> QED
  BY <1>1, <1>2, <1>3, OfFrames DEF Of, Long

-------------------------------------------------------------------------------
(* What is flushed *)

\* Frames of the first n payloads
FrameList(q, n) == q \in Seq(Frame) /\ \A i \in DOMAIN q : q[i].orderedFrameIndex < n

\* What was flushed
Stored ==
  /\ outputSequence \in Nat /\ outputSequence = Len(bytes) /\ bytes \in Seq(Int)
  /\ DOMAIN outputBackup = 0..(outputSequence - 1)
  /\ \A s \in 0..(outputSequence - 1) : FrameList(outputBackup[s], Len(sent))
  /\ \A d \in wire :
       /\ d.sequence \in 0..(outputSequence - 1) /\ d.frames \in Seq(Frame)
       /\ bytes[d.sequence + 1] = DatagramHeader + Total(Lengths(d.frames))

Backup == [s \in 1..outputSequence |-> outputBackup[s - 1]]
OfBatch(k) == [q \in Seq(Frame) |-> FramesOf(k, q)]

\* Batches with their lengths
Measured(batches, lengths) ==
  /\ batches \in Seq(Seq(Frame)) /\ \A i \in DOMAIN batches : FrameList(batches[i], Len(sent))
  /\ lengths \in Seq(Int) /\ Len(lengths) = Len(batches)
  /\ \A i \in DOMAIN batches : lengths[i] = DatagramHeader + Total(Lengths(batches[i]))

LEMMA OfBatches == \A k : OfBatch(k) \in [Seq(Frame) -> Int]
BY FramesOfBoth DEF OfBatch

LEMMA StoredBackup ==
  /\ Stored => Backup \in Seq(Seq(Frame)) /\ \A k : Flushed(k) = Adds(OfBatch(k), Backup)
  /\ Stored' => Backup' \in Seq(Seq(Frame)) /\ \A k : Flushed(k)' = Adds(OfBatch(k), Backup')
<1>1. ASSUME NEW n \in Nat, NEW f, \A s \in 0..(n - 1) : f[s] \in Seq(Frame)
      PROVE  LET b == [s \in 1..n |-> f[s - 1]] IN
             /\ b \in Seq(Seq(Frame))
             /\ \A k : Total([s \in 1..n |-> FramesOf(k, f[s - 1])]) = Adds(OfBatch(k), b)
  <2> DEFINE b == [s \in 1..n |-> f[s - 1]]
  <2>1. \A s \in 1..n : s - 1 \in 0..(n - 1)
    OBVIOUS
  <2>2. b \in Seq(Seq(Frame)) /\ DOMAIN b = 1..n
        /\ \A s \in 1..n : b[s] = f[s - 1] /\ b[s] \in Seq(Frame)
    BY <1>1, <2>1
  <2> HIDE DEF b
  <2>3. ASSUME NEW k
        PROVE  Total([s \in 1..n |-> FramesOf(k, f[s - 1])]) = Adds(OfBatch(k), b)
    <3>1. [s \in 1..n |-> FramesOf(k, f[s - 1])] = [s \in DOMAIN b |-> OfBatch(k)[b[s]]]
      BY <2>2 DEF OfBatch
    <3> QED
      BY <3>1 DEF Adds
  <2> QED
    BY <2>2, <2>3 DEF b
<1>2. ASSUME Stored
      PROVE  Backup \in Seq(Seq(Frame)) /\ \A k : Flushed(k) = Adds(OfBatch(k), Backup)
  <2>1. outputSequence \in Nat /\ \A s \in 0..(outputSequence - 1) : outputBackup[s] \in Seq(Frame)
    BY <1>2 DEF Stored, FrameList
  <2> QED
    BY <1>1, <2>1 DEF Backup, Flushed
<1>3. ASSUME Stored'
      PROVE  Backup' \in Seq(Seq(Frame)) /\ \A k : Flushed(k)' = Adds(OfBatch(k), Backup')
  <2>1. /\ outputSequence' \in Nat
        /\ \A s \in 0..(outputSequence' - 1) : outputBackup'[s] \in Seq(Frame)
    BY <1>3 DEF Stored, FrameList
  <2> QED
    BY <1>1, <2>1 DEF Backup, Flushed
<1> QED
  BY <1>2, <1>3

\* What flush does to what was flushed
LEMMA FlushStores ==
  ASSUME Stored, NEW batches, NEW lengths, Measured(batches, lengths), Flush(batches, lengths),
         sent' = sent
  PROVE  Stored' /\ Backup' = Backup \o batches
<1> DEFINE n == outputSequence
           m == Len(batches)
           at(i) == n + (i - 1)
           new == [s \in DOMAIN outputBackup \cup {at(i) : i \in 1..m} |->
                     IF s < n THEN outputBackup[s] ELSE batches[s - n + 1]]
<1>1. /\ n \in Nat /\ m \in Nat /\ batches \in Seq(Seq(Frame)) /\ DOMAIN batches = 1..m
      /\ n = Len(bytes) /\ bytes \in Seq(Int) /\ lengths \in Seq(Int) /\ Len(lengths) = m
      /\ DOMAIN outputBackup = 0..(n - 1)
  BY DEF Stored, Measured
<1>2. /\ outputSequence' = n + m /\ outputBackup' = new /\ bytes' = bytes \o lengths
      /\ wire' = wire \cup {[sequence |-> at(i), frames |-> batches[i]] : i \in 1..m}
  BY DEF Flush
<1>3. /\ bytes' \in Seq(Int) /\ Len(bytes') = n + m
      /\ \A i \in 1..n : bytes'[i] = bytes[i]
      /\ \A i \in 1..m : bytes'[n + i] = lengths[i]
  <2>1. ASSUME NEW a \in Seq(Int), NEW b \in Seq(Int)
        PROVE  /\ a \o b \in Seq(Int) /\ Len(a \o b) = Len(a) + Len(b)
               /\ \A i \in 1..Len(a) : (a \o b)[i] = a[i]
               /\ \A i \in 1..Len(b) : (a \o b)[Len(a) + i] = b[i]
    OBVIOUS
  <2> HIDE DEF n, m
  <2> QED
    BY <1>1, <1>2, <2>1
<1>4. /\ DOMAIN new = 0..(n + m - 1)
      /\ \A s \in 0..(n - 1) : new[s] = outputBackup[s]
      /\ \A i \in 1..m : new[n + (i - 1)] = batches[i]
  <2>1. DOMAIN outputBackup \cup {at(i) : i \in 1..m} = 0..(n + m - 1)
    <3>1. ASSUME NEW s \in 0..(n + m - 1), s \notin 0..(n - 1)
          PROVE  s \in {at(i) : i \in 1..m}
      <4>1. s - n + 1 \in 1..m /\ s = at(s - n + 1)
        BY <1>1, <3>1
      <4> QED
        BY <4>1
    <3>2. \A i \in 1..m : at(i) \in 0..(n + m - 1)
      BY <1>1
    <3>3. \A s \in 0..(n - 1) : s \in 0..(n + m - 1)
      BY <1>1
    <3> QED
      BY <1>1, <3>1, <3>2, <3>3
  <2>2. \A s \in 0..(n - 1) : s \in 0..(n + m - 1) /\ s < n
    BY <1>1
  <2>3. \A i \in 1..m : /\ n + (i - 1) \in 0..(n + m - 1) /\ ~(n + (i - 1) < n)
                        /\ n + (i - 1) - n + 1 = i
    BY <1>1
  <2>4. new = [s \in 0..(n + m - 1) |-> IF s < n THEN outputBackup[s] ELSE batches[s - n + 1]]
    BY <2>1
  <2> HIDE DEF new, n, m
  <2>5. DOMAIN new = 0..(n + m - 1)
    BY <2>4
  <2>6. \A s \in 0..(n - 1) : new[s] = outputBackup[s]
    BY <2>2, <2>4
  <2>7. ASSUME NEW i \in 1..m
        PROVE  new[n + (i - 1)] = batches[i]
    <3> DEFINE s == n + (i - 1)
    <3>1. s \in 0..(n + m - 1) /\ ~(s < n) /\ s - n + 1 = i
      BY <1>1
    <3> HIDE DEF s
    <3>2. new[s] = batches[i]
      BY <2>4, <3>1
    <3> QED
      BY <3>2 DEF s
  <2> QED
    BY <2>5, <2>6, <2>7
<1> HIDE DEF new
<1>5. \A s \in 0..(n + m - 1) :
        \/ s \in 0..(n - 1) /\ new[s] = outputBackup[s]
        \/ s - n + 1 \in 1..m /\ new[s] = batches[s - n + 1]
  <2> TAKE s \in 0..(n + m - 1)
  <2>1. CASE s < n
    BY <1>1, <1>4, <2>1
  <2>2. CASE ~(s < n)
    <3>1. s - n + 1 \in 1..m /\ n + ((s - n + 1) - 1) = s
      BY <1>1, <2>2
    <3> QED
      BY <1>4, <3>1
  <2> QED
    BY <2>1, <2>2
<1>6. \A s \in 0..(outputSequence' - 1) : FrameList(outputBackup'[s], Len(sent'))
  <2>1. \A s \in 0..(n - 1) : FrameList(outputBackup[s], Len(sent))
    BY DEF Stored
  <2>2. \A i \in 1..m : FrameList(batches[i], Len(sent))
    BY <1>1 DEF Measured
  <2>3. outputSequence' - 1 = n + m - 1 /\ outputBackup' = new /\ sent' = sent
    BY <1>1, <1>2
  <2> HIDE DEF n, m
  <2>4. \A s \in 0..(n + m - 1) : FrameList(new[s], Len(sent))
    BY <1>5, <2>1, <2>2
  <2> QED
    BY <2>3, <2>4
<1>7. ASSUME NEW d \in wire'
      PROVE  /\ d.sequence \in 0..(n + m - 1) /\ d.frames \in Seq(Frame)
             /\ bytes'[d.sequence + 1] = DatagramHeader + Total(Lengths(d.frames))
  <2>1. CASE d \in wire
    <3>1. /\ d.sequence \in 0..(n - 1) /\ d.frames \in Seq(Frame)
          /\ bytes[d.sequence + 1] = DatagramHeader + Total(Lengths(d.frames))
      BY <2>1 DEF Stored
    <3>2. d.sequence + 1 \in 1..n /\ d.sequence \in 0..(n + m - 1)
      BY <1>1, <3>1
    <3> QED
      BY <1>3, <3>1, <3>2
  <2>2. CASE d \notin wire
    <3>1. PICK i \in 1..m : d = [sequence |-> at(i), frames |-> batches[i]]
      BY <1>2, <2>2
    <3>2. d.sequence = n + (i - 1) /\ d.frames = batches[i] /\ batches[i] \in Seq(Frame)
      BY <1>1, <3>1
    <3>3. d.sequence \in 0..(n + m - 1) /\ d.sequence + 1 = n + i
      BY <1>1, <3>2
    <3>4. lengths[i] = DatagramHeader + Total(Lengths(batches[i]))
      BY <1>1 DEF Measured
    <3> QED
      BY <1>3, <3>2, <3>3, <3>4
  <2> QED
    BY <2>1, <2>2
<1>8. Stored'
  <2>1. /\ outputSequence' \in Nat /\ outputSequence' = Len(bytes') /\ bytes' \in Seq(Int)
        /\ outputSequence' - 1 = n + m - 1
    BY <1>1, <1>2, <1>3
  <2>2. DOMAIN outputBackup' = 0..(outputSequence' - 1)
    BY <1>2, <1>4, <2>1
  <2> QED
    BY <1>6, <1>7, <2>1, <2>2 DEF Stored
<1>9. Backup' = Backup \o batches
  <2> DEFINE b == Backup
             c == Backup'
  <2>1. b \in Seq(Seq(Frame)) /\ c \in Seq(Seq(Frame))
    BY <1>8, StoredBackup
  <2>2. /\ Len(b) = n /\ DOMAIN b = 1..n /\ \A s \in 1..n : b[s] = outputBackup[s - 1]
        /\ c = [s \in 1..(n + m) |-> new[s - 1]]
    BY <1>1, <1>2 DEF Backup
  <2> HIDE DEF b, c
  <2>3. ASSUME NEW s \in 1..(n + m)
        PROVE  new[s - 1] = (b \o batches)[s]
    <3>1. CASE s <= n
      <4>1. s - 1 \in 0..(n - 1) /\ s \in 1..n
        BY <1>1, <3>1
      <4>2. (b \o batches)[s] = b[s]
        BY <1>1, <2>1, <2>2, <4>1
      <4> QED
        BY <1>4, <2>2, <4>1, <4>2
    <3>2. CASE ~(s <= n)
      <4>1. s - n \in 1..m /\ n + ((s - n) - 1) = s - 1
        BY <1>1, <3>2
      <4>2. (b \o batches)[s] = batches[s - n]
        BY <1>1, <2>1, <2>2, <3>2
      <4> QED
        BY <1>4, <4>1, <4>2
    <3> QED
      BY <3>1, <3>2
  <2>4. DOMAIN (b \o batches) = 1..(n + m) /\ b \o batches \in Seq(Seq(Frame))
    <3>1. ASSUME NEW a \in Seq(Seq(Frame)), NEW e \in Seq(Seq(Frame))
          PROVE  a \o e \in Seq(Seq(Frame)) /\ DOMAIN (a \o e) = 1..(Len(a) + Len(e))
      OBVIOUS
    <3> QED
      BY <1>1, <2>1, <2>2, <3>1
  <2>5. b \o batches = [s \in 1..(n + m) |-> (b \o batches)[s]]
    <3> DEFINE w == b \o batches
    <3>1. w \in Seq(Seq(Frame)) /\ DOMAIN w = 1..(n + m)
      BY <2>4
    <3> HIDE DEF w
    <3>2. w = [s \in DOMAIN w |-> w[s]]
      BY <3>1
    <3> QED
      BY <3>1, <3>2 DEF w
  <2>6. c = b \o batches
    BY <2>2, <2>3, <2>5
  <2> QED
    BY <2>6 DEF b, c
<1> QED
  BY <1>8, <1>9

-------------------------------------------------------------------------------
(* Where the bytes are *)

\* The invariant: every field says of the others what the code takes for granted,
\* and no frame, wherever it is, is of a payload that is not sent yet.
Accounts ==
  /\ PackingInv /\ PackingTypeOK /\ Stored /\ BytesConserved
  /\ FrameList(queue, Len(sent)) /\ FrameList(outputFrames, Len(sent))

\* What queueFrame adds up for a frame is what Frame.write writes.
LEMMA WrittenLength == \A f \in Frame : ByteLength(f) = Written(f) /\ Written(f) \in Int
BY DEF Frame, ByteLength, Written

LEMMA EmptyList ==
  /\ \A n : FrameList(<<>>, n)
  /\ Total(Lengths(<<>>)) = 0 /\ \A k : FramesOf(k, <<>>) = 0
  /\ \A k : Adds(OfBatch(k), <<>>) = 0
<1>1. <<>> \in Seq(Int) /\ DOMAIN <<>> = {} /\ <<>> \in Seq(Frame)
  OBVIOUS
<1>2. Total(<<>>) = 0
  BY <1>1, TotalOfZeros
<1>3. Lengths(<<>>) = <<>>
  BY DEF Lengths
<1>4. \A k : FramesOf(k, <<>>) = Total(<<>>)
  <2>1. \A k : [i \in DOMAIN <<>> |-> OwnBytes(k, <<>>[i])] = <<>>
    OBVIOUS
  <2> QED
    BY <2>1 DEF FramesOf
<1>5. \A k : Adds(OfBatch(k), <<>>) = Total(<<>>)
  <2>1. \A k : [i \in DOMAIN <<>> |-> OfBatch(k)[<<>>[i]]] = <<>>
    OBVIOUS
  <2> QED
    BY <2>1 DEF Adds
<1> QED
  BY <1>1, <1>2, <1>3, <1>4, <1>5 DEF FrameList

\* What waits is at most one batch, and its frames are those of it.
LEMMA WaitingMeasured ==
  ASSUME Accounts, NEW first, NEW firstBytes,
         \/ first = <<>> /\ firstBytes = <<>>
         \/ first = <<outputFrames>> /\ firstBytes = <<DatagramHeader + outputBytes>>
  PROVE  /\ Measured(first, firstBytes)
         /\ \A k : Adds(OfBatch(k), first) = IF first = <<>> THEN 0 ELSE FramesOf(k, outputFrames)
<1>1. /\ outputFrames \in Seq(Frame) /\ FrameList(outputFrames, Len(sent))
      /\ outputBytes = Total(Lengths(outputFrames)) /\ outputBytes \in Int
  BY DEF Accounts, FrameList, PackingTypeOK, PackingInv, WaitingFits
<1>2. CASE first = <<>> /\ firstBytes = <<>>
  BY <1>2, EmptyList DEF Measured
<1>3. CASE first = <<outputFrames>> /\ firstBytes = <<DatagramHeader + outputBytes>>
  <2>1. first \in Seq(Seq(Frame)) /\ DOMAIN first = {1} /\ first[1] = outputFrames /\ Len(first) = 1
    BY <1>1, <1>3
  <2>2. /\ firstBytes \in Seq(Int) /\ Len(firstBytes) = 1
        /\ firstBytes[1] = DatagramHeader + outputBytes
    BY <1>1, <1>3 DEF DatagramHeader
  <2>3. Measured(first, firstBytes)
    BY <1>1, <2>1, <2>2 DEF Measured
  <2>4. ASSUME NEW k
        PROVE  Adds(OfBatch(k), first) = FramesOf(k, outputFrames)
    <3>1. OfBatch(k) \in [Seq(Frame) -> Int] /\ OfBatch(k)[outputFrames] = FramesOf(k, outputFrames)
      BY <1>1, OfBatches DEF OfBatch
    <3> QED
      BY <1>1, <1>3, <3>1, AddsOfOne
  <2>5. first # <<>>
    BY <1>3
  <2> QED
    BY <2>3, <2>4, <2>5
<1> QED
  BY <1>2, <1>3

\* One batch more
LEMMA BatchAdded ==
  ASSUME NEW first, NEW firstBytes, Measured(first, firstBytes), NEW frames,
         FrameList(frames, Len(sent)), NEW length, length = Total(Lengths(frames))
  PROVE  /\ Measured(Append(first, frames), Append(firstBytes, DatagramHeader + length))
         /\ \A k : Adds(OfBatch(k), Append(first, frames))
                     = Adds(OfBatch(k), first) + FramesOf(k, frames)
<1> DEFINE b == Append(first, frames)
           l == Append(firstBytes, DatagramHeader + length)
           n == Len(first)
<1>1. frames \in Seq(Frame) /\ length \in Int
  BY FramesOfBoth DEF FrameList
<1>2. /\ first \in Seq(Seq(Frame)) /\ firstBytes \in Seq(Int) /\ Len(firstBytes) = n
      /\ \A i \in DOMAIN first : FrameList(first[i], Len(sent))
      /\ \A i \in DOMAIN first : firstBytes[i] = DatagramHeader + Total(Lengths(first[i]))
  BY DEF Measured
<1>3. n \in Nat /\ DOMAIN first = 1..n
  BY <1>2
<1>4. /\ b \in Seq(Seq(Frame)) /\ Len(b) = n + 1 /\ DOMAIN b = 1..(n + 1)
      /\ \A i \in 1..n : b[i] = first[i]
      /\ b[n + 1] = frames
  BY <1>1, <1>2
<1>5. /\ l \in Seq(Int) /\ Len(l) = n + 1
      /\ \A i \in 1..n : l[i] = firstBytes[i]
      /\ l[n + 1] = DatagramHeader + length
  BY <1>1, <1>2 DEF DatagramHeader
<1> HIDE DEF b, l, n
<1>6. \A i \in 1..(n + 1) : i \in 1..n \/ i = n + 1
  BY <1>3
<1>7. Measured(b, l)
  BY <1>2, <1>3, <1>4, <1>5, <1>6 DEF Measured
<1>8. ASSUME NEW k
      PROVE  Adds(OfBatch(k), b) = Adds(OfBatch(k), first) + FramesOf(k, frames)
  <2>1. OfBatch(k) \in [Seq(Frame) -> Int] /\ OfBatch(k)[frames] = FramesOf(k, frames)
    BY <1>1, OfBatches DEF OfBatch
  <2>2. <<frames>> \in Seq(Seq(Frame)) /\ Adds(OfBatch(k), <<frames>>) = FramesOf(k, frames)
    BY <1>1, <2>1, AddsOfOne
  <2>3. b = first \o <<frames>>
    <3>1. ASSUME NEW a \in Seq(Seq(Frame)), NEW e \in Seq(Frame)
          PROVE  Append(a, e) = a \o <<e>>
      OBVIOUS
    <3> QED
      BY <1>1, <1>2, <3>1 DEF b
  <2>4. Adds(OfBatch(k), first \o <<frames>>)
          = Adds(OfBatch(k), first) + Adds(OfBatch(k), <<frames>>)
    BY <1>2, <2>1, <2>2, AddsOfBoth
  <2> QED
    BY <2>2, <2>3, <2>4
<1> QED
  BY <1>7, <1>8 DEF b, l

-------------------------------------------------------------------------------
(* Every step keeps the accounts *)

\* No frame is of a payload that is sent later.
LEMMA NoneOfLater ==
  ASSUME NEW n \in Nat
  PROVE  /\ \A q : FrameList(q, n) => FramesOf(n, q) = 0 /\ FrameList(q, n + 1)
         /\ Stored /\ Len(sent) = n => Flushed(n) = 0
<1>1. ASSUME NEW q, FrameList(q, n)
      PROVE  FramesOf(n, q) = 0 /\ FrameList(q, n + 1)
  <2>1. q \in Seq(Frame) /\ \A i \in DOMAIN q : q[i] \in Frame /\ q[i].orderedFrameIndex < n
    BY <1>1 DEF FrameList
  <2> DEFINE x == [i \in DOMAIN q |-> OwnBytes(n, q[i])]
  <2>2. \A i \in DOMAIN q : OwnBytes(n, q[i]) = 0
    BY <2>1 DEF OwnBytes, Frame
  <2>3. x \in Seq(Int) /\ DOMAIN x = DOMAIN q /\ \A i \in DOMAIN x : x[i] = 0
    <3>1. DOMAIN q = 1..Len(q) /\ Len(q) \in Nat
      BY <2>1
    <3>2. x = [i \in 1..Len(q) |-> 0]
      BY <2>2, <3>1
    <3> HIDE DEF x
    <3> QED
      BY <3>1, <3>2
  <2> HIDE DEF x
  <2>4. Total(x) = 0
    BY <2>3, TotalOfZeros
  <2>5. \A i \in DOMAIN q : q[i].orderedFrameIndex < n + 1
    BY <2>1 DEF Frame
  <2> QED
    BY <2>1, <2>4, <2>5 DEF FramesOf, FrameList, x
<1>2. ASSUME Stored, Len(sent) = n
      PROVE  Flushed(n) = 0
  <2> DEFINE x == [s \in 1..outputSequence |-> FramesOf(n, outputBackup[s - 1])]
  <2>1. outputSequence \in Nat
    BY <1>2 DEF Stored
  <2>2. \A s \in 1..outputSequence : FramesOf(n, outputBackup[s - 1]) = 0
    <3>1. \A s \in 1..outputSequence : s - 1 \in 0..(outputSequence - 1)
      BY <2>1
    <3> QED
      BY <1>1, <1>2, <3>1 DEF Stored
  <2>3. x = [s \in 1..outputSequence |-> 0]
    BY <2>2
  <2> HIDE DEF x
  <2>4. x \in Seq(Int) /\ \A s \in DOMAIN x : x[s] = 0
    BY <2>1, <2>3
  <2>5. Total(x) = 0
    BY <2>4, TotalOfZeros
  <2> QED
    BY <2>5 DEF Flushed, x
<1> QED
  BY <1>1, <1>2

\* A payload is cut into frames of its own that have all its bytes.
LEMMA FramesAreWhole ==
  ASSUME NEW n \in Nat, Counters
  PROVE  /\ FramesOf(outputOrderIndex, Frames(n)) = n
         /\ \A k : k # outputOrderIndex => FramesOf(k, Frames(n)) = 0
         /\ \A i \in DOMAIN Frames(n) : Frames(n)[i].orderedFrameIndex = outputOrderIndex
<1>1. /\ Frames(n) \in Seq(Frame) /\ DOMAIN Frames(n) = 1..SplitSize(n)
      /\ \A i \in 1..SplitSize(n) : /\ Frames(n)[i].orderedFrameIndex = outputOrderIndex
                                    /\ Frames(n)[i].payload[1] = Chunk(n, i)
  BY FramesFit DEF Frames
<1>2. SplitSize(n) \in Nat
  BY Ceiling
<1> DEFINE q == Frames(n)
           o == outputOrderIndex
<1> HIDE DEF q
<1>3. FramesOf(o, q) = n
  <2>1. [i \in DOMAIN q |-> OwnBytes(o, q[i])] = ChunksOf(n)
    BY <1>1 DEF OwnBytes, ChunksOf, q
  <2> QED
    BY <2>1, ChunksAreWhole DEF FramesOf
<1>4. ASSUME NEW k, k # o
      PROVE  FramesOf(k, q) = 0
  <2> DEFINE x == [i \in DOMAIN q |-> OwnBytes(k, q[i])]
  <2>1. x = [i \in 1..SplitSize(n) |-> 0]
    BY <1>1, <1>4 DEF OwnBytes, q
  <2> HIDE DEF x
  <2>2. x \in Seq(Int) /\ \A i \in DOMAIN x : x[i] = 0
    BY <1>2, <2>1
  <2>3. Total(x) = 0
    BY <2>2, TotalOfZeros
  <2> QED
    BY <2>3 DEF FramesOf, x
<1> QED
  BY <1>1, <1>3, <1>4 DEF q

LEMMA FlushAccounts ==
  ASSUME Stored, NEW batches, NEW lengths, Measured(batches, lengths), Flush(batches, lengths),
         sent' = sent
  PROVE  /\ Stored'
         /\ \A k : /\ Flushed(k) \in Int /\ Adds(OfBatch(k), batches) \in Int
                   /\ Flushed(k)' = Flushed(k) + Adds(OfBatch(k), batches)
<1>1. Stored' /\ Backup' = Backup \o batches
  BY FlushStores
<1>2. Backup \in Seq(Seq(Frame)) /\ batches \in Seq(Seq(Frame))
  BY StoredBackup DEF Measured
<1>3. ASSUME NEW k
      PROVE  /\ Flushed(k) \in Int /\ Adds(OfBatch(k), batches) \in Int
             /\ Flushed(k)' = Flushed(k) + Adds(OfBatch(k), batches)
  <2>1. Flushed(k) = Adds(OfBatch(k), Backup) /\ Flushed(k)' = Adds(OfBatch(k), Backup')
    BY <1>1, StoredBackup
  <2>2. OfBatch(k) \in [Seq(Frame) -> Int]
    BY OfBatches
  <2>3. /\ Adds(OfBatch(k), Backup \o batches)
             = Adds(OfBatch(k), Backup) + Adds(OfBatch(k), batches)
        /\ Adds(OfBatch(k), Backup) \in Int
    BY <1>2, <2>2, AddsOfBoth
  <2>4. Adds(OfBatch(k), batches) \in Int
    BY <1>2, <2>2, AddsOfBoth
  <2> QED
    BY <1>1, <2>1, <2>3, <2>4
<1> QED
  BY <1>1, <1>3

LEMMA PackingTypes ==
  ASSUME PackingTypeOK, Stored', UNCHANGED <<outputOrderIndex, outputReliableIndex, outputSplitIndex,
           high, sent>>, outputBytes' = Total(Lengths(outputFrames'))
  PROVE  PackingTypeOK'
BY DEF PackingTypeOK, Stored

\* Frames go from the queue to those that wait, and from there into the backup.
LEMMA QueueFrameKeeps ==
  ASSUME Accounts, QueueFrame
  PROVE  Accounts'
<1> DEFINE f == Head(queue)
           first == IF Full(f) THEN Waiting(outputFrames) ELSE <<>>
           firstBytes == IF Full(f) THEN Waiting(DatagramHeader + outputBytes) ELSE <<>>
           frames == IF Full(f) THEN <<f>> ELSE Append(outputFrames, f)
           length == IF Full(f) THEN ByteLength(f) ELSE outputBytes + ByteLength(f)
           rest == Tail(queue)
           n == Len(sent)
<1>1. queue \in Seq(Frame) /\ queue # <<>> /\ outputFrames \in Seq(Frame)
      /\ \A i \in DOMAIN queue : queue[i].orderedFrameIndex < n
  BY DEF Accounts, QueueFrame, FrameList
<1>2. /\ f \in Frame /\ f = queue[1] /\ 1 \in DOMAIN queue /\ rest \in Seq(Frame)
      /\ \A i \in DOMAIN rest : rest[i] = queue[i + 1] /\ i + 1 \in DOMAIN queue
      /\ queue = <<f>> \o rest
  BY <1>1
<1>3. /\ queue' = rest
      /\ UNCHANGED <<outputOrderIndex, outputReliableIndex, outputSplitIndex, high, sent, before>>
      /\ \/ /\ Flush(Append(first, frames), Append(firstBytes, DatagramHeader + length))
            /\ outputFrames' = <<>> /\ outputBytes' = 0
         \/ /\ Flush(first, firstBytes)
            /\ outputFrames' = frames /\ outputBytes' = length
  BY DEF QueueFrame
<1>4. /\ \/ first = <<>> /\ firstBytes = <<>>
         \/ first = <<outputFrames>> /\ firstBytes = <<DatagramHeader + outputBytes>>
      /\ Full(f) /\ outputFrames # <<>> => first # <<>>
      /\ ~Full(f) \/ outputFrames = <<>> => first = <<>>
  <2>1. CASE Full(f) /\ outputFrames # <<>>
    BY <2>1 DEF Waiting
  <2>2. CASE ~(Full(f) /\ outputFrames # <<>>)
    <3>1. first = <<>> /\ firstBytes = <<>>
      BY <2>2 DEF Waiting
    <3> HIDE DEF first, firstBytes
    <3> QED
      BY <2>2, <3>1
  <2> QED
    BY <2>1, <2>2
<1>41. /\ Full(f) => frames = <<f>> /\ length = ByteLength(f)
       /\ ~Full(f) => frames = outputFrames \o <<f>> /\ length = outputBytes + ByteLength(f)
  <2>1. ASSUME NEW a \in Seq(Frame), NEW e \in Frame
        PROVE  Append(a, e) = a \o <<e>>
    OBVIOUS
  <2>2. Append(outputFrames, f) = outputFrames \o <<f>>
    BY <1>1, <1>2, <2>1
  <2> HIDE DEF f
  <2> QED
    BY <2>2
<1> HIDE DEF f, first, firstBytes, frames, length, rest
<1>5. FrameList(rest, n) /\ FrameList(<<f>>, n)
  <2>1. f.orderedFrameIndex < n
    BY <1>1, <1>2
  <2>2. <<f>> \in Seq(Frame) /\ \A i \in DOMAIN <<f>> : <<f>>[i] = f
    BY <1>2
  <2>3. FrameList(<<f>>, n)
    BY <2>1, <2>2 DEF FrameList
  <2>4. \A i \in DOMAIN rest : rest[i].orderedFrameIndex < n
    BY <1>1, <1>2
  <2> QED
    BY <1>2, <2>3, <2>4 DEF FrameList
<1>6. /\ FrameList(frames, n) /\ length = Total(Lengths(frames))
      /\ \A k : FramesOf(k, frames) = (IF Full(f) THEN 0 ELSE FramesOf(k, outputFrames)) + OwnBytes(k, f)
      /\ \A k : OwnBytes(k, f) \in Int /\ FramesOf(k, outputFrames) \in Int
      /\ \A k : FramesOf(k, queue) = OwnBytes(k, f) + FramesOf(k, rest) /\ FramesOf(k, rest) \in Int
  <2>1. <<f>> \in Seq(Frame) /\ ByteLength(f) = Written(f) /\ Written(f) \in Int
    BY <1>2, WrittenLength
  <2>2. Total(Lengths(<<f>>)) = Written(f) /\ \A k : FramesOf(k, <<f>>) = OwnBytes(k, f)
    BY <1>2, FramesOfOne
  <2>9. \A k : OwnBytes(k, f) \in Int
    BY <1>2 DEF OwnBytes, Frame
  <2>10. /\ Total(Lengths(outputFrames \o <<f>>)) = Total(Lengths(outputFrames)) + Total(Lengths(<<f>>))
         /\ \A k : /\ FramesOf(k, outputFrames) \in Int
                   /\ FramesOf(k, outputFrames \o <<f>>) = FramesOf(k, outputFrames) + FramesOf(k, <<f>>)
    BY <1>1, <2>1, FramesOfBoth
  <2>3. /\ Total(Lengths(outputFrames \o <<f>>)) = Total(Lengths(outputFrames)) + Written(f)
        /\ \A k : FramesOf(k, outputFrames \o <<f>>) = FramesOf(k, outputFrames) + OwnBytes(k, f)
        /\ \A k : OwnBytes(k, f) \in Int /\ FramesOf(k, outputFrames) \in Int
    <3>1. \A k : FramesOf(k, outputFrames \o <<f>>) = FramesOf(k, outputFrames) + OwnBytes(k, f)
      <4> TAKE k
      <4>1. FramesOf(k, outputFrames \o <<f>>) = FramesOf(k, outputFrames) + FramesOf(k, <<f>>)
        BY <2>10
      <4>2. FramesOf(k, <<f>>) = OwnBytes(k, f)
        BY <2>2
      <4> QED
        BY <4>1, <4>2
    <3>2. Total(Lengths(outputFrames \o <<f>>)) = Total(Lengths(outputFrames)) + Written(f)
      BY <2>2, <2>10
    <3> QED
      BY <2>9, <2>10, <3>1, <3>2
  <2>4. \A k : FramesOf(k, queue) = OwnBytes(k, f) + FramesOf(k, rest) /\ FramesOf(k, rest) \in Int
    <3> DEFINE one == <<f>>
    <3>1. one \in Seq(Frame) /\ rest \in Seq(Frame) /\ queue = one \o rest
      BY <1>2, <2>1
    <3>2. \A k : FramesOf(k, one) = OwnBytes(k, f)
      BY <2>2
    <3> HIDE DEF one
    <3>3. \A k : FramesOf(k, one \o rest) = FramesOf(k, one) + FramesOf(k, rest)
      BY <3>1, FramesOfBoth
    <3>4. \A k : FramesOf(k, rest) \in Int
      BY <3>1, FramesOfBoth
    <3> TAKE k
    <3>5. FramesOf(k, queue) = FramesOf(k, one) + FramesOf(k, rest)
      BY <3>1, <3>3
    <3> QED
      BY <3>2, <3>4, <3>5
  <2>5. outputBytes = Total(Lengths(outputFrames)) /\ FrameList(outputFrames, n)
    BY DEF Accounts, PackingTypeOK
  <2>6. FrameList(outputFrames \o <<f>>, n)
    <3>1. ASSUME NEW a \in Seq(Frame), NEW e \in Frame
          PROVE  /\ a \o <<e>> \in Seq(Frame)
                 /\ \A i \in DOMAIN (a \o <<e>>) : \/ i \in DOMAIN a /\ (a \o <<e>>)[i] = a[i]
                                                   \/ (a \o <<e>>)[i] = e
      OBVIOUS
    <3> QED
      BY <1>1, <1>2, <2>5, <3>1 DEF FrameList
  <2>7. CASE Full(f)
    BY <1>41, <1>5, <2>1, <2>2, <2>3, <2>4, <2>7
  <2>8. CASE ~Full(f)
    BY <1>41, <2>1, <2>3, <2>4, <2>5, <2>6, <2>8
  <2> QED
    BY <2>7, <2>8
<1>7. /\ Measured(first, firstBytes)
      /\ \A k : Adds(OfBatch(k), first) = IF first = <<>> THEN 0 ELSE FramesOf(k, outputFrames)
  BY <1>4, WaitingMeasured
<1>8. /\ \A k : Adds(OfBatch(k), first) + FramesOf(k, frames) = FramesOf(k, outputFrames) + OwnBytes(k, f)
      /\ \A k : Adds(OfBatch(k), first) \in Int /\ FramesOf(k, frames) \in Int
  <2>1. outputFrames = <<>> => \A k : FramesOf(k, outputFrames) = 0
    BY EmptyList
  <2>2. CASE Full(f)
    BY <1>4, <1>6, <1>7, <2>1, <2>2
  <2>3. CASE ~Full(f)
    BY <1>4, <1>6, <1>7, <2>3
  <2> QED
    BY <2>2, <2>3
<1>9. Stored
  BY DEF Accounts
<1>10. PackingInv'
  BY QueueFramePreserves DEF Accounts
<1>11. ASSUME Stored', FrameList(outputFrames', n), outputBytes' = Total(Lengths(outputFrames')),
              \A k : /\ Flushed(k) \in Int /\ Flushed(k)' \in Int /\ FramesOf(k, outputFrames') \in Int
                     /\ FramesOf(k, outputFrames') + Flushed(k)'
                          = FramesOf(k, outputFrames) + OwnBytes(k, f) + Flushed(k)
       PROVE  Accounts'
  <2>1. PackingTypeOK'
    BY <1>3, <1>11, PackingTypes DEF Accounts
  <2>2. BytesConserved'
    <3> SUFFICES ASSUME NEW k \in 1..n
                 PROVE  sent[k] = FramesOf(k - 1, rest) + FramesOf(k - 1, outputFrames') + Flushed(k - 1)'
      BY <1>3 DEF BytesConserved, Flushed
    <3>1. sent[k] = FramesOf(k - 1, queue) + FramesOf(k - 1, outputFrames) + Flushed(k - 1)
      BY DEF Accounts, BytesConserved
    <3>2. FramesOf(k - 1, queue) = OwnBytes(k - 1, f) + FramesOf(k - 1, rest)
          /\ FramesOf(k - 1, rest) \in Int
      BY <1>6
    <3>3. /\ Flushed(k - 1) \in Int /\ Flushed(k - 1)' \in Int /\ FramesOf(k - 1, outputFrames') \in Int
          /\ FramesOf(k - 1, outputFrames') + Flushed(k - 1)'
               = FramesOf(k - 1, outputFrames) + OwnBytes(k - 1, f) + Flushed(k - 1)
      BY <1>11
    <3>4. FramesOf(k - 1, outputFrames) \in Int /\ OwnBytes(k - 1, f) \in Int
      BY <1>6
    <3> DEFINE o == OwnBytes(k - 1, f)
               q == FramesOf(k - 1, queue)
               r == FramesOf(k - 1, rest)
               w == FramesOf(k - 1, outputFrames)
               x == FramesOf(k - 1, outputFrames')
               d == Flushed(k - 1)
               y == Flushed(k - 1)'
    <3>5. /\ sent[k] = q + w + d /\ q = o + r /\ x + y = w + o + d
          /\ o \in Int /\ r \in Int /\ w \in Int /\ x \in Int /\ d \in Int /\ y \in Int
      BY <3>1, <3>2, <3>3, <3>4
    <3> HIDE DEF o, q, r, w, x, d, y
    <3>6. sent[k] = r + x + y
      BY <3>5
    <3> QED
      BY <3>6 DEF r, x, y
  <2> QED
    BY <1>3, <1>5, <1>10, <1>11, <2>1, <2>2 DEF Accounts
<1>12. CASE /\ Flush(Append(first, frames), Append(firstBytes, DatagramHeader + length))
            /\ outputFrames' = <<>> /\ outputBytes' = 0
  <2> DEFINE b == Append(first, frames)
             l == Append(firstBytes, DatagramHeader + length)
  <2>1. Measured(b, l) /\ \A k : Adds(OfBatch(k), b) = Adds(OfBatch(k), first) + FramesOf(k, frames)
    BY <1>6, <1>7, BatchAdded
  <2>2. Flush(b, l)
    BY <1>12
  <2> HIDE DEF b, l
  <2>3. /\ Stored'
        /\ \A k : /\ Flushed(k) \in Int /\ Adds(OfBatch(k), b) \in Int
                  /\ Flushed(k)' = Flushed(k) + Adds(OfBatch(k), b)
    BY <1>3, <1>9, <2>1, <2>2, FlushAccounts
  <2>4. \A k : FramesOf(k, outputFrames') = 0
    BY <1>12, EmptyList
  <2>5. FrameList(outputFrames', n) /\ outputBytes' = Total(Lengths(outputFrames'))
    BY <1>12, EmptyList
  <2>6. ASSUME NEW k
        PROVE  /\ Flushed(k) \in Int /\ Flushed(k)' \in Int /\ FramesOf(k, outputFrames') \in Int
               /\ FramesOf(k, outputFrames') + Flushed(k)'
                    = FramesOf(k, outputFrames) + OwnBytes(k, f) + Flushed(k)
    BY <1>6, <1>8, <2>1, <2>3, <2>4
  <2> QED
    BY <1>11, <2>3, <2>5, <2>6
<1>13. CASE Flush(first, firstBytes) /\ outputFrames' = frames /\ outputBytes' = length
  <2>1. /\ Stored'
        /\ \A k : /\ Flushed(k) \in Int /\ Adds(OfBatch(k), first) \in Int
                  /\ Flushed(k)' = Flushed(k) + Adds(OfBatch(k), first)
    BY <1>3, <1>7, <1>9, <1>13, FlushAccounts
  <2>2. ASSUME NEW k
        PROVE  /\ Flushed(k) \in Int /\ Flushed(k)' \in Int /\ FramesOf(k, outputFrames') \in Int
               /\ FramesOf(k, outputFrames') + Flushed(k)'
                    = FramesOf(k, outputFrames) + OwnBytes(k, f) + Flushed(k)
    BY <1>6, <1>8, <1>13, <2>1
  <2> QED
    BY <1>6, <1>11, <1>13, <2>1, <2>2
<1> QED
  BY <1>3, <1>12, <1>13

\* sendFrame puts the whole payload into the queue, and nothing of it is elsewhere.
LEMMA SendFrameKeeps ==
  ASSUME Accounts, NEW n \in Size, NEW urgent \in BOOLEAN, SendFrame(n, urgent)
  PROVE  Accounts'
<1> DEFINE o == Len(sent)
           new == Frames(n)
<1>1. n \in Nat /\ Counters /\ outputOrderIndex = o /\ o \in Nat /\ sent \in Seq(Size)
  BY SizeAssumption DEF Accounts, PackingInv, PackingTypeOK
<1>2. /\ queue = <<>> /\ queue' = new /\ sent' = Append(sent, n)
      /\ outputOrderIndex' = outputOrderIndex + 1
      /\ UNCHANGED <<outputSequence, outputFrames, outputBackup, outputBytes, wire, bytes>>
  BY DEF SendFrame
<1>3. /\ sent' \in Seq(Size) /\ Len(sent') = o + 1 /\ sent'[o + 1] = n
      /\ \A k \in 1..o : sent'[k] = sent[k]
  BY <1>1, <1>2
<1>4. /\ new \in Seq(Frame) /\ FramesOf(o, new) = n /\ \A k : k # o => FramesOf(k, new) = 0
      /\ \A i \in DOMAIN new : new[i].orderedFrameIndex = o
  BY <1>1, FramesFit, FramesAreWhole
<1> HIDE DEF new, o
<1>5. \A q : FrameList(q, o) => FramesOf(o, q) = 0 /\ FrameList(q, o + 1)
  BY <1>1, NoneOfLater
<1>6. FrameList(outputFrames, o) /\ Stored
  BY DEF Accounts, o
<1>7. Flushed(o) = 0
  BY <1>1, <1>6, NoneOfLater DEF o
<1>8. Stored'
  <2>1. /\ outputSequence \in Nat /\ outputSequence = Len(bytes) /\ bytes \in Seq(Int)
        /\ DOMAIN outputBackup = 0..(outputSequence - 1)
        /\ \A s \in 0..(outputSequence - 1) : FrameList(outputBackup[s], o)
        /\ \A d \in wire :
             /\ d.sequence \in 0..(outputSequence - 1) /\ d.frames \in Seq(Frame)
             /\ bytes[d.sequence + 1] = DatagramHeader + Total(Lengths(d.frames))
    BY <1>6 DEF Stored, o
  <2>2. \A s \in 0..(outputSequence - 1) : FrameList(outputBackup[s], o + 1)
    BY <1>5, <2>1
  <2> QED
    BY <1>2, <1>3, <2>1, <2>2 DEF Stored
<1>9. FrameList(queue', o + 1) /\ FrameList(outputFrames', o + 1)
  <2>1. FrameList(outputFrames, o + 1)
    BY <1>5, <1>6
  <2>2. \A i \in DOMAIN new : new[i].orderedFrameIndex < o + 1
    BY <1>1, <1>4
  <2>3. FrameList(new, o + 1)
    BY <1>4, <2>2 DEF FrameList
  <2> QED
    BY <1>2, <2>1, <2>3
<1>10. SplitSize(n) \in Nat
  BY <1>1, Ceiling
<1>11. PackingTypeOK'
  <2>1. outputReliableIndex' \in 0..MaxFrames
    <3>1. outputReliableIndex \in 0..MaxFrames /\ MaxFrames \in Nat
      BY PackingBoundAssumption DEF Accounts, PackingTypeOK
    <3>2. /\ outputReliableIndex' = outputReliableIndex + SplitSize(n)
          /\ outputReliableIndex + SplitSize(n) <= MaxFrames
      BY DEF SendFrame
    <3> QED
      BY <1>10, <3>1, <3>2
  <2>2. outputSplitIndex' \in 0..MaxCompounds
    <3>1. outputSplitIndex \in 0..MaxCompounds /\ MaxCompounds \in Nat
      BY PackingBoundAssumption DEF Accounts, PackingTypeOK
    <3>2. CASE n > MaxSize
      BY <3>1, <3>2 DEF SendFrame
    <3>3. CASE ~(n > MaxSize)
      BY <3>1, <3>3 DEF SendFrame
    <3> QED
      BY <3>2, <3>3
  <2>3. high' \in BOOLEAN
    BY DEF SendFrame
  <2>4. /\ outputSequence = Len(bytes) /\ outputBytes = Total(Lengths(outputFrames))
        /\ \A d \in wire : bytes[d.sequence + 1] = DatagramHeader + Total(Lengths(d.frames))
        /\ DOMAIN outputBackup = 0..(outputSequence - 1)
    BY DEF Accounts, PackingTypeOK
  <2> QED
    BY <1>1, <1>2, <1>3, <2>1, <2>2, <2>3, <2>4 DEF PackingTypeOK
<1>12. BytesConserved'
  <2>1. \A k : Flushed(k)' = Flushed(k)
    BY <1>2 DEF Flushed
  <2>2. \A k : FramesOf(k, queue) = 0
    BY <1>2, EmptyList
  <2>3. \A k \in 1..o : sent[k] = FramesOf(k - 1, queue) + FramesOf(k - 1, outputFrames) + Flushed(k - 1)
    BY DEF Accounts, BytesConserved, o
  <2>4. ASSUME NEW k \in 1..(o + 1)
        PROVE  sent'[k] = FramesOf(k - 1, new) + FramesOf(k - 1, outputFrames) + Flushed(k - 1)
    <3>1. CASE k = o + 1
      <4>1. k - 1 = o
        BY <1>1, <3>1
      <4>2. FramesOf(o, outputFrames) = 0
        BY <1>5, <1>6
      <4> QED
        BY <1>1, <1>3, <1>4, <1>7, <3>1, <4>1, <4>2
    <3>2. CASE k # o + 1
      <4>1. k \in 1..o /\ k - 1 # o
        BY <1>1, <3>2
      <4> QED
        BY <1>3, <1>4, <2>2, <2>3, <4>1
    <3> QED
      BY <3>1, <3>2
  <2> QED
    BY <1>2, <1>3, <2>1, <2>4 DEF BytesConserved
<1>13. PackingInv'
  BY SendFramePreserves DEF Accounts
<1> QED
  BY <1>3, <1>8, <1>9, <1>11, <1>12, <1>13 DEF Accounts

\* The flush of a tick only moves what waits into the backup.
LEMMA TickFlushesKeeps ==
  ASSUME Accounts, TickFlushes
  PROVE  Accounts'
<1> DEFINE b == Waiting(outputFrames)
           l == Waiting(DatagramHeader + outputBytes)
<1>1. /\ \/ b = <<>> /\ l = <<>>
         \/ b = <<outputFrames>> /\ l = <<DatagramHeader + outputBytes>>
      /\ b = <<>> => outputFrames = <<>>
  BY DEF Waiting
<1>2. /\ Flush(b, l) /\ outputFrames' = <<>> /\ outputBytes' = 0
      /\ UNCHANGED <<outputOrderIndex, outputReliableIndex, outputSplitIndex, queue, high,
                     sent, before>>
  BY DEF TickFlushes
<1> HIDE DEF b, l
<1>3. /\ Measured(b, l)
      /\ \A k : Adds(OfBatch(k), b) = IF b = <<>> THEN 0 ELSE FramesOf(k, outputFrames)
  BY <1>1, WaitingMeasured
<1>4. \A k : Adds(OfBatch(k), b) = FramesOf(k, outputFrames)
  <2>1. \A k : FramesOf(k, <<>>) = 0
    BY EmptyList
  <2>2. CASE b = <<>>
    BY <1>1, <1>3, <2>1, <2>2
  <2>3. CASE b # <<>>
    BY <1>3, <2>3
  <2> QED
    BY <2>2, <2>3
<1>5. /\ Stored'
      /\ \A k : /\ Flushed(k) \in Int /\ Adds(OfBatch(k), b) \in Int
                /\ Flushed(k)' = Flushed(k) + Adds(OfBatch(k), b)
  BY <1>2, <1>3, FlushAccounts DEF Accounts
<1>6. /\ FrameList(outputFrames', Len(sent)) /\ outputBytes' = Total(Lengths(outputFrames'))
      /\ \A k : FramesOf(k, outputFrames') = 0
  BY <1>2, EmptyList
<1>7. PackingTypeOK'
  BY <1>2, <1>5, <1>6, PackingTypes DEF Accounts
<1>8. BytesConserved'
  <2>1. queue \in Seq(Frame) /\ \A k : FramesOf(k, queue) \in Int
    BY FramesOfBoth DEF Accounts, FrameList
  <2> SUFFICES ASSUME NEW k \in 1..Len(sent)
               PROVE  sent[k] = FramesOf(k - 1, queue) + FramesOf(k - 1, outputFrames') + Flushed(k - 1)'
    BY <1>2 DEF BytesConserved, Flushed
  <2>2. sent[k] = FramesOf(k - 1, queue) + FramesOf(k - 1, outputFrames) + Flushed(k - 1)
    BY DEF Accounts, BytesConserved
  <2>3. /\ Flushed(k - 1) \in Int /\ FramesOf(k - 1, outputFrames) \in Int
        /\ Flushed(k - 1)' = Flushed(k - 1) + FramesOf(k - 1, outputFrames)
        /\ FramesOf(k - 1, outputFrames') = 0 /\ FramesOf(k - 1, queue) \in Int
    BY <1>4, <1>5, <1>6, <2>1
  <2> QED
    BY <2>2, <2>3
<1>9. PackingInv'
  BY TickFlushesPreserves DEF Accounts
<1> QED
  BY <1>2, <1>5, <1>6, <1>7, <1>8, <1>9 DEF Accounts

LEMMA AccountsInitially == PackingInit => Accounts
<1> SUFFICES ASSUME PackingInit
             PROVE  Accounts
  OBVIOUS
<1>1. /\ FrameList(<<>>, 0) /\ Total(Lengths(<<>>)) = 0
  BY EmptyList
<1>2. /\ <<>> \in Seq(Int) /\ <<>> \in Seq(Size) /\ Len(<<>>) = 0 /\ 1..0 = {} /\ 0..(0 - 1) = {}
      /\ DOMAIN [s \in {} |-> <<>>] = {}
  OBVIOUS
<1>3. Stored
  BY <1>2 DEF PackingInit, Stored
<1>4. PackingTypeOK
  <2>1. 0 \in 0..MaxFrames /\ 0 \in 0..MaxCompounds
    BY PackingBoundAssumption
  <2>2. outputOrderIndex = Len(sent) /\ outputSequence = Len(bytes) /\ sent \in Seq(Size)
    BY <1>2 DEF PackingInit
  <2>3. DOMAIN outputBackup = 0..(outputSequence - 1)
    BY <1>2 DEF PackingInit
  <2>4. /\ outputReliableIndex = 0 /\ outputSplitIndex = 0 /\ high = FALSE /\ wire = {}
        /\ outputBytes = Total(Lengths(outputFrames))
    BY <1>1 DEF PackingInit
  <2> QED
    BY <2>1, <2>2, <2>3, <2>4 DEF PackingTypeOK
<1>5. BytesConserved
  BY <1>2 DEF PackingInit, BytesConserved
<1> QED
  BY <1>1, <1>2, <1>3, <1>4, <1>5, PackingInitially DEF PackingInit, Accounts

\* The invariant holds of every behaviour, whatever is sent and flushed.
LEMMA AccountsAlways == PackingSpec => []Accounts
<1>1. Accounts /\ [PackingNext]_packingVars => Accounts'
  <2> SUFFICES ASSUME Accounts, [PackingNext]_packingVars
               PROVE  Accounts'
    OBVIOUS
  <2>1. CASE UNCHANGED packingVars
    BY <2>1 DEF packingVars, Accounts, PackingInv, Counters, QueueFits, WaitingFits, DatagramFits,
         PackingTypeOK, Stored, BytesConserved, Flushed
  <2> QED
    BY <2>1, SendFrameKeeps, QueueFrameKeeps, TickFlushesKeeps DEF PackingNext
<1> QED
  BY <1>1, AccountsInitially, PTL DEF PackingSpec

-------------------------------------------------------------------------------
(* sendFrame, queueFrame and flush *)

\* The lengths that queueFrame adds up are those of the bytes that are written,
\* and each frame set is kept in the backup under its sequence number.
THEOREM PackingTyped == PackingSpec => []PackingTypeOK
<1>1. Accounts => PackingTypeOK
  BY DEF Accounts
<1> QED
  BY <1>1, AccountsAlways, PTL

\* Every byte of every payload is in exactly one frame, queued, waiting or
\* flushed, for every mtu and payloads of every length.
THEOREM NoByteIsLost == PackingSpec => []BytesConserved
<1>1. Accounts => BytesConserved
  BY DEF Accounts
<1> QED
  BY <1>1, AccountsAlways, PTL

\* A session that also exchanges acknowledgements packs its frames as one that
\* does not, so that the theorems about frame sets hold of it.
THEOREM SessionPacks == Spec => PackingSpec
<1>1. Init => PackingInit
  BY DEF Init
<1>2. [Next]_vars => [PackingNext]_packingVars
  BY DEF Next, PeerAcknowledges, vars
<1> QED
  BY <1>1, <1>2, PTL DEF Spec, PackingSpec

-------------------------------------------------------------------------------
(* PAYLOADS SENT AT ONCE *)


\* Frame sets of a frame each, and one of what waits, if anything does
Singles(F, k) == [i \in 1..k |-> <<F[i]>>]
Pends(frames) == IF frames = <<>> THEN <<>> ELSE <<frames>>

\* What a function constructor makes
IsFunction(f) == f = [x \in DOMAIN f |-> f[x]]

\* x is what was flushed since b.
FlushedSince(b, sequence, backup, frameSets, x) ==
  /\ x \in Seq(Seq(Frame)) /\ b.sequence \in Nat
  /\ DOMAIN b.backup = 0..(b.sequence - 1)
  /\ sequence = b.sequence + Len(x)
  /\ DOMAIN backup = 0..(sequence - 1) /\ IsFunction(backup)
  /\ \A s \in 0..(b.sequence - 1) : backup[s] = b.backup[s]
  /\ \A i \in 1..Len(x) : backup[b.sequence + (i - 1)] = x[i]
  /\ frameSets = b.wire \cup
       {[sequence |-> b.sequence + (i - 1), frames |-> x[i]] : i \in 1..Len(x)}

Ahead(x) == FlushedSince(before, outputSequence, outputBackup, wire, x)

\* What Send queues in one step
Whole(n) == R!Frames(ChunksOf(n), before.order, before.reliable, R!SplitId(before.split))

\* The frame sets that flush what waited before, and then k frames of n
Alone(n, k) == Pends(before.frames) \o Singles(Whole(n), k)

\* The payload in the queue is n, and Send may send it.
Sending(n) ==
  /\ n \in Size /\ sent = Append(before.sent, n) /\ before.sent \in Seq(Size)
  /\ before.order \in Nat /\ outputOrderIndex = before.order + 1
  /\ before.reliable \in Nat /\ outputReliableIndex = before.reliable + SplitSize(n)
  /\ outputReliableIndex <= MaxFrames
  /\ before.split \in Nat
  /\ n > MaxSize => before.split < MaxCompounds
  /\ outputSplitIndex = IF n > MaxSize THEN before.split + 1 ELSE before.split
  /\ splitOwner = IF n > MaxSize THEN Append(before.splitOwner, before.order)
                  ELSE before.splitOwner
  /\ before.frames \in Seq(Frame)

\* j of its frames are queued: a fragment but the last is alone in its frame set.
Queued(n, j) ==
  /\ j \in 0..(SplitSize(n) - 1) /\ Len(queue) = SplitSize(n) - j
  /\ \A i \in 1..Len(queue) : queue[i] = Whole(n)[i + j]
  /\ j = 0 => Ahead(<<>>) /\ outputFrames = before.frames
  /\ j > 0 /\ high =>
       outputFrames = <<>> /\ Ahead(Alone(n, j))
  /\ j > 0 /\ ~high =>
       outputFrames = <<Whole(n)[j]>> /\ Ahead(Alone(n, j - 1))

\* What every step keeps, whatever is queued
Lasting ==
  /\ IsFunction(outputBackup) /\ outputBytes >= 0
  /\ \A i \in DOMAIN queue : queue[i].payload[1] >= 0

\* A payload is queued from its first frame to its last, and nothing else meanwhile.
SendInv ==
  /\ Accounts /\ Lasting
  /\ queue # <<>> => \E n, j : Sending(n) /\ Queued(n, j)

-------------------------------------------------------------------------------
(* The frames of a payload *)

\* Each chunk but the last is full.
LEMMA ChunkValues ==
  ASSUME NEW n \in Nat, NEW i \in 1..SplitSize(n)
  PROVE  Chunk(n, i) \in Nat /\ (i < SplitSize(n) => Chunk(n, i) = MaxSize)
<1> DEFINE q == SplitSize(n)
           a == (i - 1) * MaxSize
<1>1. q \in Nat \ {0} /\ (q - 1) * MaxSize <= n /\ n <= q * MaxSize
  BY Ceiling
<1>2. MaxSize \in Nat
  BY BudgetIsPositive
<1>3. i - 1 \in Nat /\ q - 1 \in Nat /\ i - 1 <= q - 1 /\ i = (i - 1) + 1 /\ i \in Nat
  BY <1>1
<1>4. a \in Nat /\ a <= (q - 1) * MaxSize /\ (q - 1) * MaxSize \in Nat /\ i * MaxSize = a + MaxSize
  BY <1>2, <1>3, Multiples
<1>5. i < q => i <= q - 1 /\ i * MaxSize <= (q - 1) * MaxSize
  <2>1. i < q => i <= q - 1
    BY <1>1
  <2>2. i <= q - 1 => i * MaxSize <= (q - 1) * MaxSize
    BY <1>2, <1>3, Multiples
  <2> QED
    BY <2>1, <2>2
<1>6. Chunk(n, i) = SmallerOf(MaxSize, n - a)
  BY DEF Chunk
<1> DEFINE b == (q - 1) * MaxSize
           c == i * MaxSize
<1>7. a \in Nat /\ b \in Nat /\ a <= b /\ b <= n /\ c = a + MaxSize /\ (i < q => c <= b)
  BY <1>1, <1>4, <1>5
<1> HIDE DEF a, b, c, q
<1>8. SmallerOf(MaxSize, n - a) \in Nat /\ (i < q => SmallerOf(MaxSize, n - a) = MaxSize)
  BY <1>2, <1>7 DEF SmallerOf
<1> QED
  BY <1>6, <1>8 DEF q

\* There is always a chunk, and more than one just for what is split.
LEMMA ManyChunks ==
  ASSUME NEW n \in Nat
  PROVE  /\ SplitSize(n) \in Nat \ {0} /\ (n > MaxSize <=> SplitSize(n) > 1)
         /\ ChunksOf(n) = [i \in 1..SplitSize(n) |-> Chunk(n, i)]
         /\ Len(ChunksOf(n)) = SplitSize(n) /\ ChunksOf(n) \in Seq(Int)
         /\ SplitSize(n) = 1 => ChunksOf(n) = <<Chunk(n, 1)>>
<1> DEFINE q == SplitSize(n)
<1>1. q \in Nat \ {0} /\ n <= q * MaxSize
  BY Ceiling
<1>2. MaxSize \in Nat
  BY BudgetIsPositive
<1>3. ~(n > MaxSize) => q = 1
  BY <1>2 DEF SplitSize
<1>4. ChunksOf(n) = [i \in 1..q |-> Chunk(n, i)]
  BY DEF ChunksOf
<1> HIDE DEF q
<1>5. n > MaxSize => q > 1
  <2>1. q = 1 => q * MaxSize = MaxSize
    BY <1>2
  <2> QED
    BY <1>1, <1>2, <2>1
<1>6. \A i \in 1..q : Chunk(n, i) \in Nat
  BY ChunkValues DEF q
<1>7. ChunksOf(n) \in Seq(Int) /\ Len(ChunksOf(n)) = q
  BY <1>1, <1>4, <1>6
<1>8. q = 1 => ChunksOf(n) = <<Chunk(n, 1)>>
  BY <1>4
<1> QED
  BY <1>1, <1>3, <1>4, <1>5, <1>7, <1>8 DEF q

\* The frames of Send are those of sendFrame and sendSplit.
LEMMA WholeIs ==
  ASSUME NEW n \in Nat, NEW o, NEW r, NEW s \in Nat, n > MaxSize => s < MaxCompounds,
         NEW i \in 1..SplitSize(n)
  PROVE  R!Frames(ChunksOf(n), o, r, R!SplitId(s))[i] =
           [reliableFrameIndex |-> r + (i - 1),
            orderedFrameIndex  |-> o,
            payload            |-> <<Chunk(n, i)>>,
            splitSize          |-> IF n > MaxSize THEN SplitSize(n) ELSE 0,
            splitId            |-> IF n > MaxSize THEN s ELSE 0,
            splitFrameIndex    |-> i - 1]
<1> DEFINE p == ChunksOf(n)
           q == SplitSize(n)
           t == R!SplitId(s)
<1>1. /\ q \in Nat \ {0} /\ (n > MaxSize <=> q > 1) /\ p = [k \in 1..q |-> Chunk(n, k)]
      /\ Len(p) = q /\ (q = 1 => p = <<Chunk(n, 1)>>)
  BY ManyChunks
<1>2. n > MaxSize => t = s
  <2> DEFINE m == MaxCompounds + 1
  <2>1. m \in Nat \ {0} /\ (n > MaxSize => s < m)
    BY PackingBoundAssumption
  <2> HIDE DEF m
  <2>2. s < m => s % m = s
    BY <2>1
  <2> QED
    BY <2>1, <2>2 DEF R!SplitId, m
<1> HIDE DEF p, q, t
<1>3. R!Frames(p, o, r, t)[i] =
        [reliableFrameIndex |-> r + (i - 1),
         orderedFrameIndex  |-> o,
         payload            |-> IF q = 1 THEN p ELSE <<p[i]>>,
         splitSize          |-> IF q = 1 THEN 0 ELSE q,
         splitId            |-> IF q = 1 THEN 0 ELSE t,
         splitFrameIndex    |-> i - 1]
  BY <1>1 DEF R!Frames, q
<1>4. p[i] = Chunk(n, i) /\ (q = 1 => i = 1)
  BY <1>1 DEF q
<1>5. CASE n > MaxSize
  <2>1. ~(q = 1)
    BY <1>1, <1>5
  <2> QED
    BY <1>2, <1>3, <1>4, <1>5, <2>1 DEF p, q, t
<1>6. CASE ~(n > MaxSize)
  <2>1. q = 1
    BY <1>1, <1>6
  <2>2. p = <<Chunk(n, i)>>
    BY <1>1, <1>4, <2>1
  <2> QED
    BY <1>3, <1>6, <2>1, <2>2 DEF p, q, t
<1> QED
  BY <1>5, <1>6

\* While n is sent, its frames are frames, and all but the last are full.
LEMMA WholeTyped ==
  ASSUME NEW n, Sending(n)
  PROVE  /\ n \in Nat /\ SplitSize(n) \in Nat \ {0}
         /\ Whole(n) \in Seq(Frame) /\ Len(Whole(n)) = SplitSize(n)
         /\ \A i \in 1..SplitSize(n) :
              /\ Whole(n)[i].payload[1] \in Nat
              /\ i < SplitSize(n) => Whole(n)[i].payload[1] = MaxSize /\ Whole(n)[i].splitSize > 0
<1> DEFINE F == Whole(n)
           q == SplitSize(n)
<1>1. /\ n \in Nat /\ before.order \in Nat /\ before.reliable \in Nat /\ before.split \in Nat
      /\ n > MaxSize => before.split < MaxCompounds
  BY SizeAssumption DEF Sending
<1>2. q \in Nat \ {0} /\ (n > MaxSize <=> q > 1) /\ Len(ChunksOf(n)) = q
  BY <1>1, ManyChunks
<1>3. DOMAIN F = 1..q /\ F = [i \in 1..q |-> F[i]]
  BY <1>2 DEF Whole, R!Frames
<1>4. ASSUME NEW i \in 1..q
      PROVE  /\ F[i] \in Frame /\ F[i].payload[1] = Chunk(n, i)
             /\ F[i].splitSize = IF n > MaxSize THEN q ELSE 0
  <2> DEFINE g == [reliableFrameIndex |-> before.reliable + (i - 1),
                   orderedFrameIndex  |-> before.order,
                   payload            |-> <<Chunk(n, i)>>,
                   splitSize          |-> IF n > MaxSize THEN q ELSE 0,
                   splitId            |-> IF n > MaxSize THEN before.split ELSE 0,
                   splitFrameIndex    |-> i - 1]
  <2>1. F[i] = g
    <3>1. \A o, r : R!Frames(ChunksOf(n), o, r, R!SplitId(before.split))[i] =
                      [reliableFrameIndex |-> r + (i - 1),
                       orderedFrameIndex  |-> o,
                       payload            |-> <<Chunk(n, i)>>,
                       splitSize          |-> IF n > MaxSize THEN q ELSE 0,
                       splitId            |-> IF n > MaxSize THEN before.split ELSE 0,
                       splitFrameIndex    |-> i - 1]
      BY <1>1, WholeIs
    <3> QED
      BY <3>1 DEF Whole
  <2>2. Chunk(n, i) \in Nat
    BY <1>1, ChunkValues
  <2>3. <<Chunk(n, i)>> \in [1..1 -> Int]
    BY <2>2
  <2>4. g \in Frame /\ g.payload[1] = Chunk(n, i) /\ g.splitSize = IF n > MaxSize THEN q ELSE 0
    BY <1>1, <1>2, <2>3 DEF Frame
  <2> QED
    BY <2>1, <2>4
<1>5. \A i \in 1..q : Chunk(n, i) \in Nat /\ (i < q => Chunk(n, i) = MaxSize)
  BY <1>1, ChunkValues
<1> HIDE DEF F, q
<1>6. F \in Seq(Frame) /\ Len(F) = q
  BY <1>2, <1>3, <1>4
<1>7. ASSUME NEW i \in 1..q, i < q
      PROVE  F[i].payload[1] = MaxSize /\ F[i].splitSize > 0
  <2>1. q > 1
    BY <1>2, <1>7
  <2> QED
    BY <1>2, <1>4, <1>5, <1>7, <2>1
<1> QED
  BY <1>1, <1>2, <1>4, <1>5, <1>6, <1>7 DEF F, q

\* A fragment but the last is put into a datagram of its own.
LEMMA FullChunk ==
  ASSUME NEW f \in Frame, f.payload[1] = MaxSize, f.splitSize > 0, outputBytes \in Nat
  PROVE  Full(f)
<1>1. ByteLength(f) = MaxSize + 20
  BY BudgetIsPositive DEF ByteLength, Frame
<1> QED
  BY <1>1, BudgetIsPositive DEF Full, DatagramHeader, HeaderSize

-------------------------------------------------------------------------------
(* What is flushed meanwhile *)

\* Frame sets flushed one after the other
LEMMA AheadOfBoth ==
  ASSUME NEW x, Ahead(x), NEW y \in Seq(Seq(Frame)), NEW lengths, Flush(y, lengths),
         before' = before
  PROVE  Ahead(x \o y)'
<1> DEFINE b == before.sequence
           n == outputSequence
           m == Len(y)
           k == Len(x)
           z == x \o y
<1>1. /\ x \in Seq(Seq(Frame)) /\ b \in Nat /\ n = b + k /\ k \in Nat /\ m \in Nat
      /\ DOMAIN before.backup = 0..(b - 1)
      /\ DOMAIN outputBackup = 0..(n - 1)
      /\ \A s \in 0..(b - 1) : outputBackup[s] = before.backup[s]
      /\ \A i \in 1..k : outputBackup[b + (i - 1)] = x[i]
      /\ wire = before.wire \cup {[sequence |-> b + (i - 1), frames |-> x[i]] : i \in 1..k}
  BY DEF Ahead, FlushedSince
<1>2. /\ z \in Seq(Seq(Frame)) /\ Len(z) = k + m
      /\ \A i \in 1..k : z[i] = x[i]
      /\ \A i \in 1..m : z[k + i] = y[i]
  <2>1. ASSUME NEW u \in Seq(Seq(Frame)), NEW v \in Seq(Seq(Frame))
        PROVE  /\ u \o v \in Seq(Seq(Frame)) /\ Len(u \o v) = Len(u) + Len(v)
               /\ \A i \in 1..Len(u) : (u \o v)[i] = u[i]
               /\ \A i \in 1..Len(v) : (u \o v)[Len(u) + i] = v[i]
    OBVIOUS
  <2> QED
    BY <1>1, <2>1
<1>3. /\ outputSequence' = n + m
      /\ outputBackup' = [s \in 0..(n - 1) \cup {n + (i - 1) : i \in 1..m} |->
                            IF s < n THEN outputBackup[s] ELSE y[s - n + 1]]
      /\ wire' = wire \cup {[sequence |-> n + (i - 1), frames |-> y[i]] : i \in 1..m}
  BY <1>1 DEF Flush
<1> HIDE DEF z, b, n, m, k
<1>4. 0..(n - 1) \cup {n + (i - 1) : i \in 1..m} = 0..(n + m - 1)
  <2>1. ASSUME NEW s \in 0..(n + m - 1), s \notin 0..(n - 1)
        PROVE  s \in {n + (i - 1) : i \in 1..m}
    <3>1. s - n + 1 \in 1..m /\ s = n + ((s - n + 1) - 1)
      BY <1>1, <2>1
    <3> QED
      BY <3>1
  <2>2. \A i \in 1..m : n + (i - 1) \in 0..(n + m - 1)
    BY <1>1
  <2>3. \A s \in 0..(n - 1) : s \in 0..(n + m - 1)
    BY <1>1
  <2> QED
    BY <2>1, <2>2, <2>3
<1>5. outputBackup' = [s \in 0..(n + m - 1) |-> IF s < n THEN outputBackup[s] ELSE y[s - n + 1]]
  BY <1>3, <1>4
<1>6. \A s \in 0..(b - 1) : outputBackup'[s] = before.backup[s]
  <2>1. \A s \in 0..(b - 1) : s \in 0..(n + m - 1) /\ s < n
    BY <1>1
  <2> QED
    BY <1>1, <1>5, <2>1
<1>7. ASSUME NEW i \in 1..(k + m)
      PROVE  outputBackup'[b + (i - 1)] = z[i]
  <2> DEFINE s == b + (i - 1)
  <2>1. CASE i <= k
    <3>1. i \in 1..k /\ s \in 0..(n + m - 1) /\ s < n
      BY <1>1, <2>1
    <3>2. outputBackup[s] = x[i]
      BY <1>1, <3>1
    <3> HIDE DEF s
    <3>3. outputBackup'[s] = x[i]
      BY <1>5, <3>1, <3>2
    <3> QED
      BY <1>2, <3>1, <3>3 DEF s
  <2>2. CASE ~(i <= k)
    <3>1. i - k \in 1..m /\ i = k + (i - k) /\ s \in 0..(n + m - 1) /\ ~(s < n) /\ s - n + 1 = i - k
      BY <1>1, <2>2
    <3> HIDE DEF s
    <3>2. outputBackup'[s] = y[i - k]
      BY <1>5, <3>1
    <3>3. z[k + (i - k)] = y[i - k]
      BY <1>2, <3>1
    <3> QED
      BY <3>1, <3>2, <3>3 DEF s
  <2> QED
    BY <2>1, <2>2
<1>8. wire' = before.wire \cup {[sequence |-> b + (i - 1), frames |-> z[i]] : i \in 1..(k + m)}
  <2> DEFINE X == {[sequence |-> b + (i - 1), frames |-> x[i]] : i \in 1..k}
             Y == {[sequence |-> n + (i - 1), frames |-> y[i]] : i \in 1..m}
             Z == {[sequence |-> b + (i - 1), frames |-> z[i]] : i \in 1..(k + m)}
  <2>1. ASSUME NEW i \in 1..k
        PROVE  [sequence |-> b + (i - 1), frames |-> x[i]] \in Z
    <3>1. i \in 1..(k + m) /\ z[i] = x[i]
      BY <1>1, <1>2
    <3> QED
      BY <3>1
  <2>2. ASSUME NEW i \in 1..m
        PROVE  [sequence |-> n + (i - 1), frames |-> y[i]] \in Z
    <3>1. k + i \in 1..(k + m) /\ z[k + i] = y[i] /\ n + (i - 1) = b + ((k + i) - 1)
      BY <1>1, <1>2
    <3> QED
      BY <3>1
  <2>3. ASSUME NEW i \in 1..(k + m)
        PROVE  [sequence |-> b + (i - 1), frames |-> z[i]] \in X \cup Y
    <3>1. CASE i <= k
      <4>1. i \in 1..k /\ z[i] = x[i]
        BY <1>1, <1>2, <3>1
      <4> QED
        BY <4>1
    <3>2. CASE ~(i <= k)
      <4>1. i - k \in 1..m /\ k + (i - k) = i /\ b + (i - 1) = n + ((i - k) - 1)
        BY <1>1, <3>2
      <4>2. z[i] = y[i - k]
        BY <1>2, <4>1
      <4> QED
        BY <4>1, <4>2
    <3> QED
      BY <3>1, <3>2
  <2>4. X \cup Y = Z
    BY <2>1, <2>2, <2>3
  <2> HIDE DEF X, Y, Z
  <2>5. wire = before.wire \cup X /\ wire' = wire \cup Y
    BY <1>1, <1>3 DEF X, Y
  <2>6. wire' = before.wire \cup Z
    BY <2>4, <2>5
  <2> QED
    BY <2>6 DEF Z
<1>9. /\ outputSequence' = b + Len(z) /\ outputSequence' - 1 = n + m - 1
      /\ DOMAIN outputBackup' = 0..(outputSequence' - 1) /\ IsFunction(outputBackup')
  <2>1. outputSequence' = b + Len(z) /\ outputSequence' - 1 = n + m - 1
    BY <1>1, <1>2, <1>3
  <2>2. DOMAIN outputBackup' = 0..(n + m - 1) /\ IsFunction(outputBackup')
    BY <1>5 DEF IsFunction
  <2> QED
    BY <2>1, <2>2
<1> QED
  BY <1>1, <1>2, <1>6, <1>7, <1>8, <1>9 DEF Ahead, FlushedSince, b, z, n, m, k

\* One more frame in a frame set of its own
LEMMA AloneGrows ==
  ASSUME NEW n, Sending(n), NEW k \in 0..SplitSize(n)
  PROVE  /\ Alone(n, k) \in Seq(Seq(Frame))
         /\ Alone(n, 0) = Pends(before.frames)
         /\ k < SplitSize(n) => /\ <<<<Whole(n)[k + 1]>>>> \in Seq(Seq(Frame))
                                /\ Alone(n, k + 1) = Alone(n, k) \o <<<<Whole(n)[k + 1]>>>>
<1> DEFINE F == Whole(n)
           P == Pends(before.frames)
           q == SplitSize(n)
<1>1. F \in Seq(Frame) /\ Len(F) = q /\ q \in Nat \ {0} /\ k \in Nat
  BY WholeTyped
<1>2. P \in Seq(Seq(Frame))
  BY DEF Sending, Pends
<1> HIDE DEF F, P, q
<1>3. ASSUME NEW i \in 0..q
      PROVE  /\ Singles(F, i) \in Seq(Seq(Frame)) /\ Len(Singles(F, i)) = i
             /\ \A l \in 1..i : Singles(F, i)[l] = <<F[l]>>
  <2>1. \A l \in 1..i : <<F[l]>> \in Seq(Frame)
    BY <1>1
  <2>2. i \in Nat /\ Singles(F, i) = [l \in 1..i |-> <<F[l]>>]
    BY <1>1 DEF Singles
  <2> QED
    BY <2>1, <2>2
<1>4. P \o Singles(F, k) \in Seq(Seq(Frame))
  <2>1. k \in 0..q
    BY DEF q
  <2>2. Singles(F, k) \in Seq(Seq(Frame))
    BY <1>3, <2>1
  <2>3. ASSUME NEW a \in Seq(Seq(Frame)), NEW b \in Seq(Seq(Frame))
        PROVE  a \o b \in Seq(Seq(Frame))
    OBVIOUS
  <2> QED
    BY <1>2, <2>2, <2>3
<1>5. P \o Singles(F, 0) = P
  <2>1. Singles(F, 0) = <<>>
    BY DEF Singles
  <2>2. ASSUME NEW a \in Seq(Seq(Frame))
        PROVE  a \o <<>> = a
    OBVIOUS
  <2> QED
    BY <1>2, <2>1, <2>2
<1>6. ASSUME k < q
      PROVE  /\ <<<<F[k + 1]>>>> \in Seq(Seq(Frame))
             /\ P \o Singles(F, k + 1) = (P \o Singles(F, k)) \o <<<<F[k + 1]>>>>
  <2> DEFINE e == <<F[k + 1]>>
  <2>1. e \in Seq(Frame) /\ k \in 0..q /\ k + 1 \in 0..q
    BY <1>1, <1>6 DEF q
  <2> HIDE DEF e
  <2>2. Singles(F, k + 1) = Singles(F, k) \o <<e>>
    <3> DEFINE a == Singles(F, k)
               b == Singles(F, k + 1)
    <3>1. /\ a \in Seq(Seq(Frame)) /\ Len(a) = k /\ b \in Seq(Seq(Frame)) /\ Len(b) = k + 1
          /\ \A l \in 1..k : a[l] = <<F[l]>>
          /\ \A l \in 1..(k + 1) : b[l] = <<F[l]>>
      BY <1>3, <2>1
    <3> HIDE DEF a, b
    <3>2. k + 1 \in 1..(k + 1) /\ \A l \in 1..k : l \in 1..(k + 1)
      BY <1>1
    <3>3. b[k + 1] = e /\ \A l \in 1..k : b[l] = a[l]
      BY <3>1, <3>2 DEF e
    <3> QED
      BY <1>1, <2>1, <3>1, <3>3 DEF a, b
  <2>3. Singles(F, k) \in Seq(Seq(Frame)) /\ <<e>> \in Seq(Seq(Frame))
    BY <1>3, <2>1
  <2>4. ASSUME NEW a \in Seq(Seq(Frame)), NEW b \in Seq(Seq(Frame)), NEW c \in Seq(Seq(Frame))
        PROVE  a \o (b \o c) = (a \o b) \o c
    OBVIOUS
  <2> DEFINE a == Singles(F, k)
             c == <<e>>
  <2>5. c \in Seq(Seq(Frame))
    BY <2>3
  <2>6. a \in Seq(Seq(Frame)) /\ Singles(F, k + 1) = a \o c
    BY <2>2, <2>3
  <2> HIDE DEF a, c
  <2>7. P \o (a \o c) = (P \o a) \o c
    BY <1>2, <2>4, <2>5, <2>6
  <2>8. P \o Singles(F, k + 1) = (P \o a) \o c
    BY <2>6, <2>7
  <2> QED
    BY <2>5, <2>8 DEF a, c, e
<1> QED
  BY <1>4, <1>5, <1>6 DEF Alone, F, P, q

\* What queueFrame flushes, and what waits after it
LEMMA QueueFrameFlushes ==
  ASSUME Accounts, QueueFrame
  PROVE  \E first, rest, lengths :
           /\ first \in Seq(Seq(Frame)) /\ rest \in Seq(Frame)
           /\ Full(Head(queue)) => first = Pends(outputFrames) /\ rest = <<Head(queue)>>
           /\ ~Full(Head(queue)) => first = <<>> /\ rest = Append(outputFrames, Head(queue))
           /\ high => Flush(first \o <<rest>>, lengths) /\ outputFrames' = <<>>
           /\ ~high => Flush(first, lengths) /\ outputFrames' = rest
<1> DEFINE f == Head(queue)
           first == IF Full(f) THEN Waiting(outputFrames) ELSE <<>>
           firstBytes == IF Full(f) THEN Waiting(DatagramHeader + outputBytes) ELSE <<>>
           rest == IF Full(f) THEN <<f>> ELSE Append(outputFrames, f)
           length == IF Full(f) THEN ByteLength(f) ELSE outputBytes + ByteLength(f)
           more == Append(firstBytes, DatagramHeader + length)
<1>1. queue \in Seq(Frame) /\ queue # <<>> /\ outputFrames \in Seq(Frame) /\ high \in BOOLEAN
  BY DEF Accounts, QueueFrame, FrameList, PackingTypeOK
<1>2. f \in Frame
  BY <1>1
<1>3. /\ high => Flush(Append(first, rest), more) /\ outputFrames' = <<>>
      /\ ~high => Flush(first, firstBytes) /\ outputFrames' = rest
  BY DEF QueueFrame
<1>4. Waiting(outputFrames) = Pends(outputFrames) /\ Pends(outputFrames) \in Seq(Seq(Frame))
  BY <1>1 DEF Waiting, Pends
<1> HIDE DEF f
<1>5. /\ Full(f) => first = Pends(outputFrames) /\ rest = <<f>>
      /\ ~Full(f) => first = <<>> /\ rest = Append(outputFrames, f)
      /\ first \in Seq(Seq(Frame)) /\ rest \in Seq(Frame)
  <2>1. CASE Full(f)
    <3>1. first = Pends(outputFrames) /\ rest = <<f>>
      BY <1>4, <2>1
    <3> HIDE DEF first, rest
    <3> QED
      BY <1>2, <1>4, <2>1, <3>1
  <2>2. CASE ~Full(f)
    <3>1. first = <<>> /\ rest = Append(outputFrames, f)
      BY <2>2
    <3> HIDE DEF first, rest
    <3> QED
      BY <1>1, <1>2, <2>2, <3>1
  <2> QED
    BY <2>1, <2>2
<1> HIDE DEF first, rest, firstBytes, length, more
<1>6. Append(first, rest) = first \o <<rest>>
  <2>1. ASSUME NEW a \in Seq(Seq(Frame)), NEW e \in Seq(Frame)
        PROVE  Append(a, e) = a \o <<e>>
    OBVIOUS
  <2> QED
    BY <1>5, <2>1
<1>7. CASE high
  BY <1>3, <1>5, <1>6, <1>7 DEF f
<1>8. CASE ~high
  BY <1>3, <1>5, <1>8 DEF f
<1> QED
  BY <1>7, <1>8

\* While a payload is queued, what is flushed and what waits are its frames
\* that are gone, and what waited before.
LEMMA Caught ==
  ASSUME Accounts, NEW n, NEW j, Sending(n), Queued(n, j)
  PROVE  \E x : Ahead(x) /\ x \o Pends(outputFrames) = Alone(n, j)
<1>1. j \in 0..SplitSize(n) /\ j \in 0..(SplitSize(n) - 1) /\ SplitSize(n) \in Nat
  BY WholeTyped DEF Queued
<1>2. high \in BOOLEAN
  BY DEF Accounts, PackingTypeOK
<1>3. ASSUME NEW a \in Seq(Seq(Frame))
      PROVE  <<>> \o a = a /\ a \o <<>> = a
  OBVIOUS
<1>4. CASE j = 0
  <2>1. Ahead(<<>>) /\ outputFrames = before.frames
    BY <1>4 DEF Queued
  <2>2. Pends(outputFrames) = Alone(n, j) /\ Alone(n, j) \in Seq(Seq(Frame))
    BY <1>1, <1>4, <2>1, AloneGrows
  <2>3. <<>> \o Alone(n, j) = Alone(n, j)
    BY <1>3, <2>2
  <2> QED
    BY <2>1, <2>2, <2>3
<1>5. CASE j # 0 /\ high
  <2>1. Ahead(Alone(n, j)) /\ outputFrames = <<>>
    BY <1>1, <1>5 DEF Queued
  <2>2. Alone(n, j) \o Pends(outputFrames) = Alone(n, j)
    <3>1. Alone(n, j) \in Seq(Seq(Frame))
      BY <1>1, AloneGrows
    <3>2. Pends(outputFrames) = <<>>
      BY <2>1 DEF Pends
    <3> QED
      BY <1>3, <3>1, <3>2
  <2> QED
    BY <2>1, <2>2
<1>6. CASE j # 0 /\ ~high
  <2>1. Ahead(Alone(n, j - 1)) /\ outputFrames = <<Whole(n)[j]>>
    BY <1>1, <1>6 DEF Queued
  <2>2. j - 1 \in 0..SplitSize(n) /\ j - 1 < SplitSize(n) /\ (j - 1) + 1 = j
    BY <1>1, <1>6
  <2>3. Alone(n, (j - 1) + 1) = Alone(n, j - 1) \o <<<<Whole(n)[(j - 1) + 1]>>>>
    BY <2>2, AloneGrows
  <2>4. Pends(outputFrames) = <<<<Whole(n)[j]>>>>
    BY <2>1 DEF Pends
  <2> QED
    BY <2>1, <2>2, <2>3, <2>4
<1> QED
  BY <1>2, <1>4, <1>5, <1>6

-------------------------------------------------------------------------------
(* Steps while a payload is queued *)

\* sendFrame begins a payload, none of whose frames is gone.
LEMMA SendFrameStarts ==
  ASSUME SendInv, NEW n \in Size, NEW urgent \in BOOLEAN, SendFrame(n, urgent)
  PROVE  SendInv' /\ queue = <<>> /\ queue' # <<>>
<1> DEFINE q == SplitSize(n)
           o == outputOrderIndex
           r == outputReliableIndex
           t == outputSplitIndex
<1>1. n \in Nat /\ Counters /\ sent \in Seq(Size) /\ o \in Nat /\ r \in Nat /\ t \in Nat
  BY SizeAssumption, PackingBoundAssumption DEF SendInv, Accounts, PackingInv, PackingTypeOK
<1>2. /\ queue = <<>> /\ queue' = Frames(n) /\ sent' = Append(sent, n)
      /\ outputOrderIndex' = o + 1 /\ outputReliableIndex' = r + q
      /\ r + q <= MaxFrames
      /\ n > MaxSize => t < MaxCompounds
  BY DEF SendFrame
<1>3. /\ before'.order = o /\ before'.reliable = r /\ before'.split = t
      /\ before'.sequence = outputSequence /\ before'.frames = outputFrames
      /\ before'.backup = outputBackup /\ before'.wire = wire
      /\ before'.sent = sent /\ before'.splitOwner = splitOwner
      /\ UNCHANGED <<outputSequence, outputFrames, outputBackup, outputBytes, wire, bytes>>
  BY DEF SendFrame
<1>4. q \in Nat \ {0} /\ queue' \in Seq(Frame) /\ Len(queue') = q /\ DOMAIN queue' = 1..q
  <2>1. q \in Nat \ {0}
    BY <1>1, ManyChunks
  <2>2. queue' \in Seq(Frame) /\ DOMAIN queue' = 1..q
    BY <1>1, <1>2, FramesFit DEF Frames
  <2> HIDE DEF q
  <2> QED
    BY <2>1, <2>2
<1>5. \A i \in 1..q : queue'[i].payload[1] >= 0 /\ queue'[i] = Whole(n)'[i]
  <2> TAKE i \in 1..q
  <2> DEFINE g == [reliableFrameIndex |-> r + (i - 1),
                   orderedFrameIndex  |-> o,
                   payload            |-> <<Chunk(n, i)>>,
                   splitSize          |-> IF n > MaxSize THEN q ELSE 0,
                   splitId            |-> IF n > MaxSize THEN t ELSE 0,
                   splitFrameIndex    |-> i - 1]
  <2>1. queue'[i] = g
    BY <1>2 DEF Frames
  <2>2. R!Frames(ChunksOf(n), o, r, R!SplitId(t))[i] = g
    <3> HIDE DEF o, r, t
    <3>1. n > MaxSize => t < MaxCompounds
      BY <1>2
    <3> QED
      BY <1>1, <3>1, WholeIs DEF q
  <2>3. Whole(n)' = R!Frames(ChunksOf(n), o, r, R!SplitId(t))
    <3> HIDE DEF o, r, t
    <3> QED
      BY <1>3 DEF Whole
  <2>4. Chunk(n, i) >= 0
    BY <1>1, ChunkValues
  <2> QED
    BY <2>1, <2>2, <2>3, <2>4
<1>6. Accounts'
  BY SendFrameKeeps DEF SendInv
<1>7. Lasting'
  BY <1>3, <1>4, <1>5 DEF SendInv, Lasting
<1>8. Sending(n)'
  <2>1. outputFrames \in Seq(Frame)
    BY DEF SendInv, Accounts, FrameList
  <2>2. /\ outputSplitIndex' = IF n > MaxSize THEN t + 1 ELSE t
        /\ splitOwner' = IF n > MaxSize THEN Append(splitOwner, o) ELSE splitOwner
    BY DEF SendFrame
  <2> HIDE DEF o, r, t, q
  <2> QED
    BY <1>1, <1>2, <1>3, <2>1, <2>2 DEF Sending, q
<1>9. Queued(n, 0)'
  <2>1. /\ outputSequence \in Nat /\ DOMAIN outputBackup = 0..(outputSequence - 1)
        /\ IsFunction(outputBackup)
    BY DEF SendInv, Accounts, Stored, Lasting
  <2>2. <<>> \in Seq(Seq(Frame)) /\ Len(<<>>) = 0 /\ 1..0 = {} /\ outputSequence = outputSequence + 0
    BY <2>1
  <2>3. Ahead(<<>>)'
    BY <1>3, <2>1, <2>2 DEF Ahead, FlushedSince
  <2>4. \A i \in 1..q : i + 0 = i
    BY <1>4
  <2>5. 0 \in 0..(q - 1) /\ q - 0 = q
    BY <1>4
  <2> HIDE DEF q
  <2> QED
    BY <1>3, <1>4, <1>5, <2>3, <2>4, <2>5 DEF Queued, q
<1>10. queue' # <<>>
  BY <1>4
<1> QED
  BY <1>2, <1>6, <1>7, <1>8, <1>9, <1>10 DEF SendInv

\* The steps of queueFrame keep what lasts.
LEMMA QueueFrameLasts ==
  ASSUME SendInv, QueueFrame
  PROVE  Accounts' /\ Lasting'
<1>1. queue \in Seq(Frame) /\ queue # <<>> /\ outputBytes \in Int /\ outputBytes >= 0
  BY DEF SendInv, Accounts, Lasting, FrameList, QueueFrame, PackingInv, WaitingFits
<1>2. \A i \in DOMAIN queue : queue[i].payload[1] >= 0
  BY DEF SendInv, Lasting
<1>3. Head(queue) = queue[1] /\ queue[1] \in Frame /\ 1 \in DOMAIN queue
      /\ \A i \in DOMAIN Tail(queue) : Tail(queue)[i] = queue[i + 1] /\ i + 1 \in DOMAIN queue
  BY <1>1
<1>4. ByteLength(Head(queue)) \in Int /\ ByteLength(Head(queue)) >= 0
  <2> DEFINE f == Head(queue)
  <2>1. f \in Frame /\ f.payload[1] >= 0
    BY <1>2, <1>3
  <2> HIDE DEF f
  <2>2. f.payload[1] \in Int
    BY <2>1 DEF Frame
  <2> QED
    BY <2>1, <2>2 DEF ByteLength, f
<1>5. queue' = Tail(queue)
  BY DEF QueueFrame
<1>6. outputBytes' >= 0
  <2>1. outputBytes' \in {0, ByteLength(Head(queue)), outputBytes + ByteLength(Head(queue))}
    BY DEF QueueFrame
  <2> QED
    BY <1>1, <1>4, <2>1
<1>7. IsFunction(outputBackup')
  BY DEF QueueFrame, Flush, IsFunction
<1>8. Accounts'
  BY QueueFrameKeeps DEF SendInv
<1>9. \A i \in DOMAIN queue' : queue'[i].payload[1] >= 0
  BY <1>2, <1>3, <1>5
<1> QED
  BY <1>6, <1>7, <1>8, <1>9 DEF Lasting

\* What the payload in the queue was made of stays.
LEMMA SendingLasts ==
  ASSUME NEW n, Sending(n), QueueFrame
  PROVE  /\ Sending(n)' /\ before' = before /\ high' = high
         /\ Whole(n)' = Whole(n) /\ \A k : Alone(n, k)' = Alone(n, k)
<1>1. UNCHANGED <<outputOrderIndex, outputReliableIndex, outputSplitIndex, high, sent,
                  splitOwner, before>>
  BY DEF QueueFrame
<1> QED
  BY <1>1 DEF Sending, Whole, Alone

\* The next frame of the payload, and what is left of the queue
LEMMA NextOfQueue ==
  ASSUME SendInv, QueueFrame, NEW n, NEW j, Sending(n), Queued(n, j)
  PROVE  /\ j \in 0..(SplitSize(n) - 1) /\ SplitSize(n) \in Nat
         /\ Head(queue) = Whole(n)[j + 1] /\ Head(queue) \in Frame
         /\ queue' \in Seq(Frame) /\ Len(queue') = SplitSize(n) - (j + 1)
         /\ \A i \in 1..Len(queue') : queue'[i] = Whole(n)[i + (j + 1)]
<1> DEFINE F == Whole(n)
           m == SplitSize(n)
<1>1. queue \in Seq(Frame) /\ queue # <<>> /\ queue' = Tail(queue)
  BY DEF SendInv, Accounts, FrameList, QueueFrame
<1>2. /\ j \in 0..(m - 1) /\ Len(queue) = m - j /\ m \in Nat
      /\ \A i \in 1..Len(queue) : queue[i] = F[i + j]
  BY WholeTyped DEF Queued
<1> HIDE DEF F, m
<1>3. /\ Head(queue) = queue[1] /\ queue[1] \in Frame /\ 1 \in 1..Len(queue)
      /\ queue' \in Seq(Frame) /\ Len(queue') = Len(queue) - 1
      /\ \A i \in 1..Len(queue') : queue'[i] = queue[i + 1]
  BY <1>1
<1>4. 1 + j = j + 1 /\ Len(queue') = m - (j + 1)
  BY <1>2, <1>3
<1>5. \A i \in 1..Len(queue') : i + 1 \in 1..Len(queue) /\ (i + 1) + j = i + (j + 1)
  BY <1>2, <1>4
<1>6. \A i \in 1..Len(queue') : queue'[i] = F[i + (j + 1)]
  BY <1>2, <1>3, <1>5
<1> QED
  BY <1>2, <1>3, <1>4, <1>6 DEF F, m

\* After a fragment that is not the last one more frame is gone.
LEMMA QueueFrameGoesOn ==
  ASSUME SendInv, QueueFrame, NEW n, NEW j, Sending(n), Queued(n, j), j + 1 < SplitSize(n)
  PROVE  Sending(n)' /\ Queued(n, j + 1)' /\ queue' # <<>>
<1> DEFINE f == Head(queue)
           m == SplitSize(n)
<1>1. /\ j \in 0..(m - 1) /\ m \in Nat /\ f = Whole(n)[j + 1] /\ f \in Frame
      /\ queue' \in Seq(Frame) /\ Len(queue') = m - (j + 1)
      /\ \A i \in 1..Len(queue') : queue'[i] = Whole(n)[i + (j + 1)]
  BY NextOfQueue
<1>2. /\ Sending(n)' /\ before' = before /\ high' = high
      /\ Whole(n)' = Whole(n) /\ \A k : Alone(n, k)' = Alone(n, k)
  BY SendingLasts
<1> HIDE DEF f
<1>3. Full(f)
  <2>1. j + 1 \in 1..m
    BY <1>1
  <2>2. f.payload[1] = MaxSize /\ f.splitSize > 0
    BY <1>1, <2>1, WholeTyped
  <2>3. outputBytes \in Nat
    BY DEF SendInv, Accounts, Lasting, PackingInv, WaitingFits
  <2> QED
    BY <1>1, <2>2, <2>3, FullChunk
<1>4. PICK first, rest, lengths :
        /\ first = Pends(outputFrames) /\ rest = <<f>>
        /\ first \in Seq(Seq(Frame)) /\ rest \in Seq(Frame)
        /\ high => Flush(first \o <<rest>>, lengths) /\ outputFrames' = <<>>
        /\ ~high => Flush(first, lengths) /\ outputFrames' = rest
  BY <1>3, QueueFrameFlushes DEF SendInv, f
<1>5. PICK x : Ahead(x) /\ x \o first = Alone(n, j)
  BY <1>4, Caught DEF SendInv
<1>6. j \in 0..m /\ j < m /\ j + 1 > 0 /\ (j + 1) - 1 = j /\ j + 1 \in 0..(m - 1)
  BY <1>1
<1>7. /\ <<rest>> \in Seq(Seq(Frame))
      /\ Alone(n, j + 1) = Alone(n, j) \o <<rest>> /\ Alone(n, j) \in Seq(Seq(Frame))
  BY <1>1, <1>4, <1>6, AloneGrows
<1>8. x \in Seq(Seq(Frame))
  BY <1>5 DEF Ahead, FlushedSince
<1>9. ASSUME high
      PROVE  outputFrames' = <<>> /\ Ahead(Alone(n, j + 1))'
  <2> DEFINE y == first \o <<rest>>
  <2>1. y \in Seq(Seq(Frame)) /\ x \o y = (x \o first) \o <<rest>>
    <3>1. ASSUME NEW a \in Seq(Seq(Frame)), NEW b \in Seq(Seq(Frame)), NEW c \in Seq(Seq(Frame))
          PROVE  b \o c \in Seq(Seq(Frame)) /\ a \o (b \o c) = (a \o b) \o c
      OBVIOUS
    <3> DEFINE c == <<rest>>
    <3>2. c \in Seq(Seq(Frame))
      BY <1>7
    <3> HIDE DEF c
    <3>3. first \o c \in Seq(Seq(Frame)) /\ x \o (first \o c) = (x \o first) \o c
      BY <1>4, <1>8, <3>1, <3>2
    <3> QED
      BY <3>3 DEF c
  <2>2. Flush(y, lengths)
    BY <1>4, <1>9
  <2>3. x \o y = Alone(n, j + 1)
    BY <1>5, <1>7, <2>1
  <2> HIDE DEF y
  <2>4. Ahead(x \o y)'
    BY <1>2, <1>5, <2>1, <2>2, AheadOfBoth
  <2>5. Ahead(Alone(n, j + 1))'
    BY <1>2, <2>3, <2>4 DEF Ahead
  <2> QED
    BY <1>4, <1>9, <2>5
<1>10. ASSUME ~high
       PROVE  outputFrames' = <<Whole(n)[j + 1]>> /\ Ahead(Alone(n, j))'
  <2>1. Ahead(x \o first)'
    BY <1>2, <1>4, <1>5, <1>10, AheadOfBoth
  <2>2. Ahead(Alone(n, j))'
    BY <1>2, <1>5, <2>1 DEF Ahead
  <2> QED
    BY <1>1, <1>4, <1>10, <2>2
<1>11. Queued(n, j + 1)'
  <2>1. Alone(n, j + 1)' = Alone(n, j + 1) /\ Alone(n, (j + 1) - 1)' = Alone(n, j)
    BY <1>2, <1>6
  <2>2. high => outputFrames' = <<>> /\ Ahead(Alone(n, j + 1))'
    BY <1>9
  <2>3. ~high => outputFrames' = <<Whole(n)'[j + 1]>> /\ Ahead(Alone(n, (j + 1) - 1))'
    BY <1>2, <1>6, <1>10
  <2>4. /\ j + 1 \in 0..(SplitSize(n) - 1) /\ Len(queue') = SplitSize(n) - (j + 1) /\ ~(j + 1 = 0)
        /\ \A i \in 1..Len(queue') : queue'[i] = Whole(n)'[i + (j + 1)]
    BY <1>1, <1>2, <1>6
  <2> QED
    BY <1>2, <2>2, <2>3, <2>4 DEF Queued
<1>12. queue' # <<>>
  BY <1>1
<1> QED
  BY <1>2, <1>11, <1>12

\* With its last frame the payload is queued as Send does it.
LEMMA QueueFrameEnds ==
  ASSUME SendInv, QueueFrame, NEW n, NEW j, Sending(n), Queued(n, j), j + 1 = SplitSize(n)
  PROVE  /\ queue' = <<>>
         /\ \E fits \in BOOLEAN : \E first, rest :
              /\ fits => SplitSize(n) = 1
              /\ fits => first = <<>> /\ rest = Append(before.frames, Whole(n)[1])
              /\ ~fits => first = Alone(n, SplitSize(n) - 1) /\ rest = <<Whole(n)[SplitSize(n)]>>
              /\ first \in Seq(Seq(Frame))
              /\ high => outputFrames' = <<>> /\ Ahead(first \o <<rest>>)'
              /\ ~high => outputFrames' = rest /\ Ahead(first)'
<1> DEFINE f == Head(queue)
           m == SplitSize(n)
<1>1. /\ j \in 0..(m - 1) /\ m \in Nat /\ f = Whole(n)[j + 1] /\ f \in Frame
      /\ queue' \in Seq(Frame) /\ Len(queue') = m - (j + 1)
  BY NextOfQueue
<1>2. before' = before
  BY SendingLasts
<1>3. j = m - 1 /\ j \in 0..m /\ f = Whole(n)[m] /\ queue' = <<>>
  <2>1. j = m - 1 /\ j \in 0..m /\ Len(queue') = 0 /\ j + 1 = m
    BY <1>1
  <2> QED
    BY <1>1, <2>1
<1> HIDE DEF f
<1>4. PICK first, rest, lengths :
        /\ first \in Seq(Seq(Frame)) /\ rest \in Seq(Frame)
        /\ Full(f) => first = Pends(outputFrames) /\ rest = <<f>>
        /\ ~Full(f) => first = <<>> /\ rest = Append(outputFrames, f)
        /\ high => Flush(first \o <<rest>>, lengths) /\ outputFrames' = <<>>
        /\ ~high => Flush(first, lengths) /\ outputFrames' = rest
  BY QueueFrameFlushes DEF SendInv, f
<1>5. <<rest>> \in Seq(Seq(Frame)) /\ high \in BOOLEAN
  <2>1. high \in BOOLEAN
    BY DEF SendInv, Accounts, PackingTypeOK
  <2> QED
    BY <1>4, <2>1
<1>6. ASSUME NEW x, Ahead(x), NEW y, y = x \o first
      PROVE  /\ high => outputFrames' = <<>> /\ Ahead(y \o <<rest>>)'
             /\ ~high => outputFrames' = rest /\ Ahead(y)'
             /\ y \in Seq(Seq(Frame))
  <2>1. x \in Seq(Seq(Frame))
    BY <1>6 DEF Ahead, FlushedSince
  <2> DEFINE c == <<rest>>
  <2>2. c \in Seq(Seq(Frame))
    BY <1>5
  <2> HIDE DEF c
  <2>3. ASSUME NEW a \in Seq(Seq(Frame)), NEW b \in Seq(Seq(Frame)), NEW d \in Seq(Seq(Frame))
        PROVE  b \o d \in Seq(Seq(Frame)) /\ a \o (b \o d) = (a \o b) \o d
    OBVIOUS
  <2>4. first \o c \in Seq(Seq(Frame)) /\ x \o (first \o c) = y \o c /\ y \in Seq(Seq(Frame))
    BY <1>4, <1>6, <2>1, <2>2, <2>3
  <2>5. ASSUME high
        PROVE  outputFrames' = <<>> /\ Ahead(y \o c)'
    <3> DEFINE z == first \o c
    <3>1. z \in Seq(Seq(Frame)) /\ Flush(z, lengths) /\ x \o z = y \o c
      BY <1>4, <2>4, <2>5 DEF c
    <3> HIDE DEF z
    <3>2. Ahead(x \o z)'
      BY <1>2, <1>6, <3>1, AheadOfBoth
    <3> QED
      BY <1>4, <2>5, <3>1, <3>2 DEF Ahead
  <2>6. ASSUME ~high
        PROVE  outputFrames' = rest /\ Ahead(y)'
    <3>1. Ahead(x \o first)'
      BY <1>2, <1>4, <1>6, <2>6, AheadOfBoth
    <3> QED
      BY <1>4, <1>6, <2>6, <3>1 DEF Ahead
  <2> QED
    BY <2>4, <2>5, <2>6 DEF c
<1>7. CASE Full(f)
  <2>1. PICK x : Ahead(x) /\ x \o Pends(outputFrames) = Alone(n, j)
    BY Caught DEF SendInv
  <2> PICK y : y = Alone(n, m - 1)
    OBVIOUS
  <2>2. y = x \o first /\ rest = <<Whole(n)[m]>>
    BY <1>3, <1>4, <1>7, <2>1
  <2>3. /\ high => outputFrames' = <<>> /\ Ahead(y \o <<rest>>)'
        /\ ~high => outputFrames' = rest /\ Ahead(y)'
        /\ y \in Seq(Seq(Frame))
    BY <1>6, <2>1, <2>2
  <2> HIDE DEF m
  <2>4. FALSE \in BOOLEAN
    OBVIOUS
  <2> QED
    BY <1>3, <2>2, <2>3, <2>4 DEF m
<1>8. CASE ~Full(f) /\ m = 1
  <2>1. j = 0 /\ Ahead(<<>>) /\ outputFrames = before.frames
    <3>1. j = 0
      BY <1>1, <1>8
    <3> QED
      BY <3>1 DEF Queued
  <2>2. first = <<>> /\ rest = Append(before.frames, Whole(n)[1])
    BY <1>3, <1>4, <1>8, <2>1
  <2>3. <<>> = <<>> \o first
    BY <2>2
  <2>4. /\ high => outputFrames' = <<>> /\ Ahead(first \o <<rest>>)'
        /\ ~high => outputFrames' = rest /\ Ahead(first)'
    BY <1>6, <2>1, <2>2, <2>3
  <2> QED
    BY <1>3, <1>4, <1>8, <2>2, <2>4
<1>9. CASE ~Full(f) /\ m # 1
  <2>1. j > 0
    BY <1>1, <1>3, <1>9
  <2>2. high
    <3> SUFFICES ASSUME ~high
                 PROVE  FALSE
      BY <1>5
    <3> DEFINE g == Whole(n)[j]
    <3>1. outputFrames = <<g>>
      BY <2>1 DEF Queued
    <3>2. /\ Whole(n) \in Seq(Frame) /\ Len(Whole(n)) = m /\ j \in 1..m /\ j < m
          /\ g.payload[1] = MaxSize /\ g.splitSize > 0
      BY <1>1, <1>3, <2>1, WholeTyped
    <3>3. g \in Frame
      BY <3>2
    <3>4. outputBytes = Total(Lengths(outputFrames))
      BY DEF SendInv, Accounts, PackingTypeOK
    <3> HIDE DEF g
    <3>5. outputBytes = ByteLength(g)
      BY <3>1, <3>3, <3>4, FramesOfOne, WrittenLength
    <3>6. ByteLength(g) = MaxSize + 20
      BY <3>2, <3>3, BudgetIsPositive DEF ByteLength, Frame
    <3>7. ByteLength(f) \in Int /\ ByteLength(f) >= 0
      <4>1. f.payload[1] \in Nat
        <5>1. m \in 1..m
          BY <1>1
        <5> QED
          BY <1>3, <5>1, WholeTyped
      <4>2. f \in Frame
        BY <1>1
      <4>3. f.splitSize \in Int
        BY <4>2 DEF Frame
      <4> QED
        BY <4>1, <4>3 DEF ByteLength
    <3> QED
      BY <1>9, <3>5, <3>6, <3>7, BudgetIsPositive DEF Full, DatagramHeader, HeaderSize
  <2>3. outputFrames = <<>> /\ Ahead(Alone(n, j))
    BY <2>1, <2>2 DEF Queued
  <2> PICK y : y = Alone(n, m - 1)
    OBVIOUS
  <2>4. first = <<>> /\ rest = <<Whole(n)[m]>>
    <3>1. ASSUME NEW e \in Frame
          PROVE  Append(<<>>, e) = <<e>>
      OBVIOUS
    <3> QED
      BY <1>1, <1>3, <1>4, <1>9, <2>3, <3>1
  <2>5. Ahead(y) /\ y \in Seq(Seq(Frame))
    <3>1. Ahead(y)
      BY <1>3, <2>3
    <3> QED
      BY <3>1 DEF Ahead, FlushedSince
  <2>6. y = y \o first
    BY <2>4, <2>5
  <2>7. high => outputFrames' = <<>> /\ Ahead(y \o <<rest>>)'
    BY <1>6, <2>5, <2>6
  <2> HIDE DEF m
  <2>8. FALSE \in BOOLEAN
    OBVIOUS
  <2> QED
    BY <1>3, <2>2, <2>4, <2>5, <2>7, <2>8 DEF m
<1> QED
  BY <1>7, <1>8, <1>9

\* Frame sets flushed since a payload was sent are what Send flushes.
LEMMA FlushedAtOnce ==
  ASSUME NEW x, Ahead(x)', queue # <<>>, queue' = <<>>, before' = before
  PROVE  R!Flush(x) /\ wire' = before.wire \cup R!Flushed(x)
<1> DEFINE b == before.sequence
           k == Len(x)
           n == outputSequence'
<1>1. /\ x \in Seq(Seq(Frame)) /\ b \in Nat /\ k \in Nat /\ n = b + k
      /\ DOMAIN before.backup = 0..(b - 1)
      /\ DOMAIN outputBackup' = 0..(n - 1)
      /\ outputBackup' = [s \in DOMAIN outputBackup' |-> outputBackup'[s]]
      /\ \A s \in 0..(b - 1) : outputBackup'[s] = before.backup[s]
      /\ \A i \in 1..k : outputBackup'[b + (i - 1)] = x[i]
      /\ wire' = before.wire \cup {[sequence |-> b + (i - 1), frames |-> x[i]] : i \in 1..k}
  BY DEF Ahead, FlushedSince, IsFunction
<1>2. /\ R!Backup(x) = [s \in DOMAIN before.backup \cup {b + (i - 1) : i \in 1..k} |->
                          IF s < b THEN before.backup[s] ELSE x[s - b + 1]]
      /\ R!Flushed(x) = {[sequence |-> b + (i - 1), frames |-> x[i]] : i \in 1..k}
  BY DEF R!Backup, R!Flushed, R!FrameSet, Seen
<1>3. R!Flush(x) <=> outputSequence' = b + k /\ outputBackup' = R!Backup(x)
  BY DEF R!Flush, Seen
<1> HIDE DEF b, k, n
<1>4. DOMAIN before.backup \cup {b + (i - 1) : i \in 1..k} = 0..(n - 1)
  <2>1. ASSUME NEW s \in 0..(n - 1), s \notin 0..(b - 1)
        PROVE  s \in {b + (i - 1) : i \in 1..k}
    <3>1. s - b + 1 \in 1..k /\ s = b + ((s - b + 1) - 1)
      BY <1>1, <2>1
    <3> QED
      BY <3>1
  <2>2. \A i \in 1..k : b + (i - 1) \in 0..(n - 1)
    BY <1>1
  <2>3. \A s \in 0..(b - 1) : s \in 0..(n - 1)
    BY <1>1
  <2> QED
    BY <1>1, <2>1, <2>2, <2>3
<1>5. ASSUME NEW s \in 0..(n - 1)
      PROVE  outputBackup'[s] = IF s < b THEN before.backup[s] ELSE x[s - b + 1]
  <2>1. CASE s < b
    <3>1. s \in 0..(b - 1)
      BY <1>1, <2>1
    <3> QED
      BY <1>1, <2>1, <3>1
  <2>2. CASE ~(s < b)
    <3>1. s - b + 1 \in 1..k /\ b + ((s - b + 1) - 1) = s
      BY <1>1, <2>2
    <3> QED
      BY <1>1, <2>2, <3>1
  <2> QED
    BY <2>1, <2>2
<1>6. outputBackup' = R!Backup(x)
  BY <1>1, <1>2, <1>4, <1>5
<1>7. outputSequence' = b + k
  BY <1>1 DEF n
<1> QED
  BY <1>1, <1>2, <1>3, <1>6, <1>7

-------------------------------------------------------------------------------
(* The refinement *)

\* What RakReliability sees of the session
LEMMA SeenBetween ==
  /\ queue = <<>> => R!Pending = Waiting(outputFrames)
  /\ queue # <<>> => R!Pending = Pends(before.frames)
BY DEF R!Pending, Waiting, Pends, Seen

\* The payloads that were sent, as chunks
LEMMA PayloadsAppended ==
  ASSUME NEW s \in Seq(Size), NEW n \in Size
  PROVE  [k \in 1..Len(Append(s, n)) |-> ChunksOf(Append(s, n)[k])]
           = Append([k \in 1..Len(s) |-> ChunksOf(s[k])], ChunksOf(n))
<1> DEFINE l == Len(s)
           t == Append(s, n)
           p == ChunksOf(n)
           c == [k \in 1..l |-> ChunksOf(s[k])]
           d == [k \in 1..(l + 1) |-> ChunksOf(t[k])]
<1>1. /\ l \in Nat /\ Len(t) = l + 1 /\ t[l + 1] = n
      /\ \A k \in 1..l : t[k] = s[k] /\ s[k] \in Size
  OBVIOUS
<1>2. \A k \in Size : ChunksOf(k) \in Seq(Int)
  <2>1. \A k \in Size : k \in Nat
    BY SizeAssumption
  <2> QED
    BY <2>1, ManyChunks
<1>3. p \in Seq(Int)
  BY <1>2
<1> HIDE DEF l, t, p
<1>4. c \in Seq(Seq(Int)) /\ Len(c) = l /\ \A k \in 1..l : c[k] = ChunksOf(s[k])
  BY <1>1, <1>2
<1>5. /\ d = [k \in 1..(l + 1) |-> d[k]] /\ d[l + 1] = p
      /\ \A k \in 1..l : d[k] = ChunksOf(s[k])
  <2>1. l + 1 \in 1..(l + 1) /\ \A k \in 1..l : k \in 1..(l + 1)
    BY <1>1
  <2>2. \A k \in 1..(l + 1) : d[k] = ChunksOf(t[k])
    OBVIOUS
  <2> HIDE DEF d
  <2>3. d[l + 1] = p /\ \A k \in 1..l : d[k] = ChunksOf(s[k])
    BY <1>1, <2>1, <2>2 DEF p
  <2> QED
    BY <2>3 DEF d
<1> HIDE DEF c, d
<1> DEFINE e == Append(c, p)
<1>6. e \in Seq(Seq(Int)) /\ Len(e) = l + 1 /\ e[l + 1] = p /\ \A k \in 1..l : e[k] = c[k]
  <2>1. ASSUME NEW a \in Seq(Seq(Int)), NEW b \in Seq(Int)
        PROVE  /\ Append(a, b) \in Seq(Seq(Int)) /\ Len(Append(a, b)) = Len(a) + 1
               /\ Append(a, b)[Len(a) + 1] = b
               /\ \A k \in 1..Len(a) : Append(a, b)[k] = a[k]
    OBVIOUS
  <2> QED
    BY <1>3, <1>4, <2>1
<1> HIDE DEF e
<1>7. e = [k \in 1..(l + 1) |-> e[k]]
  BY <1>6
<1>8. ASSUME NEW k \in 1..(l + 1)
      PROVE  d[k] = e[k]
  <2>1. k \in 1..l \/ k = l + 1
    BY <1>1
  <2> QED
    BY <1>4, <1>5, <1>6, <2>1
<1>9. d = e
  BY <1>5, <1>7, <1>8
<1> QED
  BY <1>1, <1>9 DEF c, d, e, l, t, p

\* The step in which the last frame of a payload is queued is a Send of all.
LEMMA EndsAsSend ==
  ASSUME SendInv, QueueFrame, NEW n, NEW j, Sending(n), Queued(n, j), j + 1 = SplitSize(n)
  PROVE  \E fits \in BOOLEAN : R!Send(ChunksOf(n), fits, high)
<1> DEFINE p == ChunksOf(n)
           m == SplitSize(n)
<1>1. PICK fits \in BOOLEAN : \E first, rest :
        /\ fits => m = 1
        /\ fits => first = <<>> /\ rest = Append(before.frames, Whole(n)[1])
        /\ ~fits => first = Alone(n, m - 1) /\ rest = <<Whole(n)[m]>>
        /\ first \in Seq(Seq(Frame))
        /\ high => outputFrames' = <<>> /\ Ahead(first \o <<rest>>)'
        /\ ~high => outputFrames' = rest /\ Ahead(first)'
  BY QueueFrameEnds
<1>2. PICK first, rest :
        /\ fits => m = 1
        /\ fits => first = <<>> /\ rest = Append(before.frames, Whole(n)[1])
        /\ ~fits => first = Alone(n, m - 1) /\ rest = <<Whole(n)[m]>>
        /\ first \in Seq(Seq(Frame))
        /\ high => outputFrames' = <<>> /\ Ahead(first \o <<rest>>)'
        /\ ~high => outputFrames' = rest /\ Ahead(first)'
  BY <1>1
<1>3. /\ queue # <<>> /\ queue' = <<>> /\ before' = before
      /\ UNCHANGED <<outputOrderIndex, outputReliableIndex, outputSplitIndex, sent, splitOwner>>
      /\ high \in BOOLEAN
  <2>1. queue' = <<>>
    BY QueueFrameEnds
  <2> QED
    BY <2>1 DEF QueueFrame, SendInv, Accounts, PackingTypeOK
<1>4. /\ n \in Nat /\ m \in Nat \ {0} /\ (n > MaxSize <=> m > 1) /\ Len(p) = m
      /\ Len(Whole(n)) = m
  <2>1. n \in Nat /\ Len(Whole(n)) = m
    BY WholeTyped
  <2> QED
    BY <2>1, ManyChunks
<1> DEFINE F == Whole(n)
<1>5. R!Batches(F, fits) = first /\ R!Rest(F, fits) = rest
  <2>1. CASE fits
    <3>1. first = <<>> /\ rest = Append(before.frames, F[1])
      BY <1>2, <2>1
    <3> HIDE DEF F
    <3> QED
      BY <1>3, <2>1, <3>1 DEF R!Batches, R!Rest, Seen
  <2>2. CASE ~fits
    <3>1. first = Alone(n, m - 1) /\ rest = <<F[m]>>
      BY <1>2, <2>2
    <3>2. first = Pends(before.frames) \o [i \in 1..(m - 1) |-> <<F[i]>>]
      BY <3>1 DEF Alone, Singles
    <3> HIDE DEF F, m
    <3>3. R!Pending = Pends(before.frames)
      BY <1>3, SeenBetween
    <3> QED
      BY <1>4, <2>2, <3>1, <3>2, <3>3 DEF R!Batches, R!Rest, F
  <2> QED
    BY <2>1, <2>2
<1>6. PICK batches : batches = first \o (IF high THEN <<rest>> ELSE <<>>)
  OBVIOUS
<1>7. Ahead(batches)' /\ outputFrames' = IF high THEN <<>> ELSE rest
  <2>1. CASE high
    <3>1. batches = first \o <<rest>>
      BY <1>6, <2>1
    <3> QED
      BY <1>2, <2>1, <3>1
  <2>2. CASE ~high
    <3>1. ASSUME NEW a \in Seq(Seq(Frame))
          PROVE  a \o <<>> = a
      OBVIOUS
    <3>2. batches = first
      BY <1>2, <1>6, <2>2, <3>1
    <3> QED
      BY <1>2, <2>2, <3>2
  <2> QED
    BY <2>1, <2>2
<1>8. R!Flush(batches) /\ wire' = before.wire \cup R!Flushed(batches)
  BY <1>3, <1>7, FlushedAtOnce
<1>9. /\ before.reliable + m <= MaxFrames
      /\ m > 1 => before.split < MaxCompounds
      /\ outputOrderIndex' = before.order + 1 /\ outputReliableIndex' = before.reliable + m
      /\ IF m > 1 THEN /\ outputSplitIndex' = before.split + 1
                       /\ splitOwner' = Append(before.splitOwner, before.order)
         ELSE outputSplitIndex' = before.split /\ splitOwner' = before.splitOwner
      /\ sent' = Append(before.sent, n) /\ before.sent \in Seq(Size)
  BY <1>3, <1>4 DEF Sending
<1>10. [k \in 1..Len(sent') |-> ChunksOf(sent'[k])]
         = Append([k \in 1..Len(before.sent) |-> ChunksOf(before.sent[k])], p)
  BY <1>9, PayloadsAppended DEF Sending
<1>11. /\ R!Frames(p, before.order, before.reliable, R!SplitId(before.split)) = F
       /\ R!ReliableIndicesUsed(p) = Len(p)
  BY DEF Whole, R!ReliableIndicesUsed
<1> HIDE DEF p, m, F
<1>12. /\ R!Flush(R!Batches(F, fits) \o (IF high THEN <<R!Rest(F, fits)>> ELSE <<>>))
       /\ wire' = before.wire \cup
            R!Flushed(R!Batches(F, fits) \o (IF high THEN <<R!Rest(F, fits)>> ELSE <<>>))
       /\ outputFrames' = IF high THEN <<>> ELSE R!Rest(F, fits)
  BY <1>5, <1>6, <1>7, <1>8
<1>13. R!Send(p, fits, high)
  BY <1>2, <1>3, <1>4, <1>9, <1>10, <1>11, <1>12
  DEF R!Send, Seen, R!receiverVars, R!windowVars, R!reliableVars, R!orderVars
<1> QED
  BY <1>13 DEF p

\* At first nothing is queued.
LEMMA SendInvInitially == PackingInit => SendInv
<1> SUFFICES ASSUME PackingInit
             PROVE  SendInv
  OBVIOUS
<1>1. Accounts
  BY AccountsInitially
<1>2. DOMAIN <<>> = {} /\ [s \in {} |-> <<>>] = [s \in {} |-> [r \in {} |-> <<>>][s]]
  OBVIOUS
<1>3. Lasting
  BY <1>2 DEF PackingInit, Lasting, IsFunction
<1> QED
  BY <1>1, <1>3 DEF PackingInit, SendInv

\* The tick of the session is that of RakReliability that resends nothing.
LEMMA TickFlushesSeen ==
  ASSUME SendInv, TickFlushes
  PROVE  SendInv' /\ R!SenderTick({})
<1>1. queue = <<>> /\ queue' = <<>>
  BY DEF TickFlushes
<1>2. Accounts'
  BY TickFlushesKeeps DEF SendInv
<1>3. Lasting'
  BY <1>1 DEF TickFlushes, Flush, SendInv, Lasting, IsFunction
<1>4. R!SenderTick({})
  <2> DEFINE b == Waiting(outputFrames)
  <2>1. R!Pending = b
    BY <1>1, SeenBetween
  <2>2. /\ outputSequence' = outputSequence + Len(b)
        /\ outputBackup' =
             [s \in DOMAIN outputBackup \cup {outputSequence + (i - 1) : i \in 1..Len(b)} |->
                IF s < outputSequence THEN outputBackup[s] ELSE b[s - outputSequence + 1]]
        /\ wire' = wire \cup
             {[sequence |-> outputSequence + (i - 1), frames |-> b[i]] : i \in 1..Len(b)}
        /\ outputFrames' = <<>>
        /\ UNCHANGED <<outputOrderIndex, outputReliableIndex, outputSplitIndex, sent, splitOwner>>
    BY DEF TickFlushes, Flush
  <2> HIDE DEF b
  <2>3. R!Flush(R!Pending)
    BY <1>1, <2>1, <2>2 DEF R!Flush, R!Backup, Seen
  <2>4. wire' = wire \cup R!Flushed(R!Pending) \cup {R!FrameSet(s, outputBackup[s]) : s \in {}}
    <3>1. R!Flushed(R!Pending) =
            {[sequence |-> outputSequence + (i - 1), frames |-> b[i]] : i \in 1..Len(b)}
      BY <1>1, <2>1 DEF R!Flushed, R!FrameSet, Seen
    <3> QED
      BY <2>2, <3>1
  <2> QED
    BY <1>1, <2>2, <2>3, <2>4
    DEF R!SenderTick, Seen, R!receiverVars, R!windowVars, R!reliableVars, R!orderVars
<1> QED
  BY <1>1, <1>2, <1>3, <1>4 DEF SendInv

\* Every step keeps the invariant, and is one of the sending session or none.
LEMMA PackingStepSeen ==
  ASSUME SendInv, [PackingNext]_packingVars
  PROVE  SendInv' /\ [R!Next]_(R!vars)
<1>1. CASE UNCHANGED packingVars
  <2>1. SendInv'
    <3>1. Accounts'
      BY <1>1 DEF packingVars, SendInv, Accounts, PackingInv, Counters, QueueFits, WaitingFits,
           DatagramFits, PackingTypeOK, Stored, BytesConserved, Flushed
    <3>2. Lasting'
      BY <1>1 DEF packingVars, SendInv, Lasting, IsFunction
    <3>3. ASSUME NEW n, NEW j, Sending(n), Queued(n, j)
          PROVE  Sending(n)' /\ Queued(n, j)'
      <4>1. Sending(n)' /\ Whole(n)' = Whole(n)
        BY <1>1, <3>3 DEF packingVars, Sending, Whole
      <4>2. \A x : Ahead(x)' <=> Ahead(x)
        BY <1>1 DEF packingVars, Ahead
      <4>3. \A k : Alone(n, k)' = Alone(n, k)
        BY <1>1, <4>1 DEF packingVars, Alone
      <4>4. Ahead(Alone(n, j))' = Ahead(Alone(n, j)) /\ Ahead(Alone(n, j - 1))' = Ahead(Alone(n, j - 1))
        BY <1>1, <4>3 DEF packingVars, Ahead
      <4> QED
        BY <1>1, <3>3, <4>1, <4>2, <4>3, <4>4 DEF packingVars, Queued
    <3> QED
      BY <1>1, <3>1, <3>2, <3>3 DEF packingVars, SendInv
  <2>2. UNCHANGED R!vars
    BY <1>1 DEF packingVars, R!vars, R!senderVars, R!receiverVars, R!windowVars, R!reliableVars,
         R!orderVars, Seen
  <2> QED
    BY <2>1, <2>2
<1>2. ASSUME NEW n \in Size, NEW urgent \in BOOLEAN, SendFrame(n, urgent)
      PROVE  SendInv' /\ UNCHANGED R!vars
  <2>1. SendInv' /\ queue = <<>> /\ queue' # <<>>
    BY <1>2, SendFrameStarts
  <2>2. /\ before'.order = outputOrderIndex /\ before'.reliable = outputReliableIndex
        /\ before'.split = outputSplitIndex /\ before'.sequence = outputSequence
        /\ before'.frames = outputFrames /\ before'.backup = outputBackup
        /\ before'.wire = wire /\ before'.sent = sent /\ before'.splitOwner = splitOwner
    BY <1>2 DEF SendFrame
  <2> QED
    BY <2>1, <2>2 DEF R!vars, R!senderVars, R!receiverVars, R!windowVars, R!reliableVars,
         R!orderVars, Seen
<1>3. ASSUME QueueFrame
      PROVE  SendInv' /\ [R!Next]_(R!vars)
  <2>1. Accounts' /\ Lasting' /\ queue # <<>> /\ before' = before
    BY <1>3, QueueFrameLasts DEF QueueFrame
  <2>2. PICK n, j : Sending(n) /\ Queued(n, j)
    BY <2>1 DEF SendInv
  <2>3. j + 1 < SplitSize(n) \/ j + 1 = SplitSize(n)
    <3>1. j \in 0..(SplitSize(n) - 1) /\ SplitSize(n) \in Nat
      BY <1>3, <2>2, NextOfQueue
    <3> QED
      BY <3>1
  <2>4. CASE j + 1 < SplitSize(n)
    <3>1. Sending(n)' /\ Queued(n, j + 1)' /\ queue' # <<>>
      BY <1>3, <2>2, <2>4, QueueFrameGoesOn
    <3>2. SendInv'
      BY <2>1, <3>1 DEF SendInv
    <3>3. UNCHANGED R!vars
      BY <2>1, <3>1 DEF R!vars, R!senderVars, R!receiverVars, R!windowVars, R!reliableVars,
           R!orderVars, Seen
    <3> QED
      BY <3>2, <3>3
  <2>5. CASE j + 1 = SplitSize(n)
    <3>1. \E fits \in BOOLEAN : R!Send(ChunksOf(n), fits, high)
      BY <1>3, <2>2, <2>5, EndsAsSend
    <3>2. queue' = <<>>
      BY <1>3, <2>2, <2>5, QueueFrameEnds
    <3>3. n \in Size /\ high \in BOOLEAN
      BY <2>2 DEF Sending, SendInv, Accounts, PackingTypeOK
    <3>4. R!Next
      BY <3>1, <3>3 DEF R!Next, R!Idle
    <3> QED
      BY <2>1, <3>2, <3>4 DEF SendInv
  <2> QED
    BY <2>3, <2>4, <2>5
<1>4. ASSUME TickFlushes
      PROVE  SendInv' /\ R!Next
  <2>1. SendInv' /\ R!SenderTick({})
    BY <1>4, TickFlushesSeen
  <2> QED
    BY <2>1 DEF R!Next, R!Idle
<1> QED
  BY <1>1, <1>2, <1>3, <1>4 DEF PackingNext

\* Seen from outside, filling datagrams byte by byte is what the sending session
\* of RakReliability does, for every mtu, payloads of every size and priority:
\* each payload is cut, batched and numbered in one step, whatever waits.
THEOREM PackingRefines == PackingSpec => ImplementsReliability
<1>1. PackingInit => R!Init
  <2> SUFFICES ASSUME PackingInit
               PROVE  R!Init
    OBVIOUS
  <2>1. [k \in 1..Len(<<>>) |-> ChunksOf(<<>>[k])] = <<>>
    OBVIOUS
  <2> QED
    BY <2>1 DEF PackingInit, R!Init, Seen
<1>2. SendInv /\ [PackingNext]_packingVars => SendInv' /\ [R!Next]_(R!vars)
  BY PackingStepSeen
<1> QED
  BY <1>1, <1>2, SendInvInitially, PTL DEF PackingSpec, ImplementsReliability, R!Spec

\* The same of a session that also exchanges acknowledgements.
THEOREM SessionRefines == Spec => ImplementsReliability
BY SessionPacks, PackingRefines, PTL

-------------------------------------------------------------------------------
(* ACKNOWLEDGEMENTS *)

Phases == {"idle", "write", "read", "done"}
Records == [single : BOOLEAN, first : Nat, final : Nat]

\* x is in one of the first n records.
CoveredBy(x, n) ==
  \E k \in DOMAIN records : k <= n /\ x \in records[k].first..records[k].final

CodecTypes ==
  /\ phase \in Phases
  /\ sequences \in Seq(Nat) /\ Increasing(sequences)
  /\ cursor \in Nat \ {0} /\ start \in Nat /\ last \in Nat
  /\ records \in Seq(Records) /\ unfolded \in Seq(Nat)

RecordsWellFormed ==
  \A k \in DOMAIN records :
    /\ records[k].first <= records[k].final
    /\ records[k].single => records[k].first = records[k].final

Writing == phase = "write" =>
  /\ cursor \in 2..(Len(sequences) + 1)
  /\ last = sequences[cursor - 1] /\ start <= last /\ unfolded = <<>>
  /\ \A k \in DOMAIN records : records[k].final + 1 < start
  /\ \A x \in Nat :
       (CoveredBy(x, Len(records)) \/ x \in start..last)
         <=> \E i \in DOMAIN sequences : i < cursor /\ sequences[i] = x

Reading == phase = "read" =>
  /\ cursor <= Len(records) + 1
  /\ \A x \in Nat : CoveredBy(x, Len(records)) <=> x \in Members(sequences)
  /\ \A x \in Nat : CoveredBy(x, cursor - 1) <=> x \in Members(unfolded)

CodecInv ==
  CodecTypes /\ RecordsWellFormed /\ RecordsApart /\ Writing /\ Reading /\ RoundTrip

-------------------------------------------------------------------------------
(* Lemmas about the sequences *)

\* The numbers of a record are those from its first to its last.
LEMMA NumbersOfRecord ==
  ASSUME NEW r \in Records, r.first <= r.final, r.single => r.first = r.final
  PROVE  /\ Numbers(r) \in Seq(Nat)
         /\ \A x \in Nat : x \in Members(Numbers(r)) <=> x \in r.first..r.final
<1>1. CASE r.single
  <2>1. Numbers(r) = <<r.first>>
    BY <1>1 DEF Numbers
  <2> QED
    BY <1>1, <2>1 DEF Members, Records
<1>2. CASE ~r.single
  <2> DEFINE n == r.final - r.first + 1
  <2>1. n \in Nat /\ r.first \in Nat /\ r.final \in Nat
    BY DEF Records
  <2>2. Numbers(r) = [k \in 1..n |-> r.first + k - 1]
    BY <1>2 DEF Numbers
  <2> HIDE DEF n
  <2>3. /\ Numbers(r) \in Seq(Nat) /\ DOMAIN Numbers(r) = 1..n
        /\ \A k \in 1..n : Numbers(r)[k] = r.first + k - 1
    BY <2>1, <2>2
  <2>4. ASSUME NEW x \in Nat, r.first <= x, x <= r.final
        PROVE  x \in Members(Numbers(r))
    <3>1. /\ x - r.first + 1 \in 1..n
          /\ r.first + (x - r.first + 1) - 1 = x
      BY <2>1, <2>4 DEF n
    <3>2. Numbers(r)[x - r.first + 1] = x
      BY <2>3, <3>1
    <3> QED
      BY <2>3, <3>1, <3>2 DEF Members
  <2>5. ASSUME NEW x \in Nat, x \in Members(Numbers(r))
        PROVE  r.first <= x /\ x <= r.final
    <3>1. PICK k \in 1..n : x = r.first + k - 1
      BY <2>3, <2>5 DEF Members
    <3> QED
      BY <2>1, <3>1 DEF n
  <2> QED
    BY <2>3, <2>4, <2>5
<1> QED
  BY <1>1, <1>2

\* The last number of a record is a number.
LEMMA FinalOfRecord ==
  ASSUME NEW rs \in Seq(Records), NEW k \in DOMAIN rs
  PROVE  rs[k].final \in Nat
<1>1. rs[k] \in Records
  OBVIOUS
<1> QED
  BY <1>1 DEF Records

\* What is in a concatenation is in one of its parts.
LEMMA MembersOfBoth ==
  ASSUME NEW s \in Seq(Nat), NEW t \in Seq(Nat)
  PROVE  s \o t \in Seq(Nat) /\ Members(s \o t) = Members(s) \cup Members(t)
<1>1. /\ s \o t \in Seq(Nat) /\ DOMAIN (s \o t) = 1..(Len(s) + Len(t))
      /\ \A i \in 1..Len(s) : (s \o t)[i] = s[i]
      /\ \A i \in 1..Len(t) : (s \o t)[Len(s) + i] = t[i]
  OBVIOUS
<1>2. ASSUME NEW i \in DOMAIN (s \o t)
      PROVE  (s \o t)[i] \in Members(s) \cup Members(t)
  <2>1. CASE i <= Len(s)
    BY <1>1, <2>1 DEF Members
  <2>2. CASE i > Len(s)
    <3>1. i - Len(s) \in 1..Len(t) /\ Len(s) + (i - Len(s)) = i
      BY <1>1, <2>2
    <3>2. (s \o t)[i] = t[i - Len(s)]
      BY <1>1, <3>1
    <3> QED
      BY <3>1, <3>2 DEF Members
  <2> QED
    BY <1>1, <2>1, <2>2
<1>3. ASSUME NEW i \in DOMAIN s
      PROVE  s[i] \in Members(s \o t)
  <2>1. i \in DOMAIN (s \o t) /\ (s \o t)[i] = s[i]
    BY <1>1
  <2> QED
    BY <2>1 DEF Members
<1>4. ASSUME NEW i \in DOMAIN t
      PROVE  t[i] \in Members(s \o t)
  <2>1. Len(s) + i \in DOMAIN (s \o t) /\ (s \o t)[Len(s) + i] = t[i]
    BY <1>1
  <2> QED
    BY <2>1 DEF Members
<1> QED
  BY <1>1, <1>2, <1>3, <1>4 DEF Members

\* Reading one record more covers what that record names more.
LEMMA CoveredByOneMore ==
  ASSUME records \in Seq(Records), NEW n \in Nat, n + 1 <= Len(records), NEW x \in Nat
  PROVE  CoveredBy(x, n + 1) <=>
           CoveredBy(x, n) \/ x \in records[n + 1].first..records[n + 1].final
BY DEF CoveredBy

-------------------------------------------------------------------------------
(* The invariant is inductive *)

LEMMA CodecInitially == CodecInit => CodecInv
BY DEF CodecInit, CodecInv, CodecTypes, RecordsWellFormed, RecordsApart, Writing, Reading,
       RoundTrip, Increasing, Phases

\* A packet for a list: the loop begins with its first number, or has nothing
\* to do.
LEMMA SerializePreserves ==
  ASSUME CodecInv, NEW seqs \in Sorted, Serialize(seqs)
  PROVE  CodecInv'
<1>1. seqs \in Seq(Nat) /\ Increasing(seqs)
  BY DEF Sorted
<1>2. CodecTypes' /\ RecordsWellFormed' /\ RecordsApart' /\ RoundTrip'
  BY <1>1 DEF Serialize, CodecTypes, RecordsWellFormed, RecordsApart, RoundTrip,
              Increasing, Phases
<1>3. Writing'
  <2>1. CASE seqs = <<>>
    BY <2>1 DEF Serialize, Writing
  <2>2. CASE seqs # <<>>
    BY <1>1, <2>2 DEF Serialize, Writing, CoveredBy
  <2> QED
    BY <2>1, <2>2
<1>4. Reading'
  BY <1>1 DEF Serialize, Reading, CoveredBy, Members
<1> QED
  BY <1>2, <1>3, <1>4 DEF CodecInv

\* Facts of a new record at the end of the list
LEMMA RecordAppended ==
  ASSUME CodecInv, phase = "write", records' = Append(records, Record)
  PROVE  /\ Record \in Records /\ records' \in Seq(Records)
         /\ RecordsWellFormed' /\ RecordsApart'
         /\ \A k \in DOMAIN records' : records'[k].final <= last
         /\ \A x \in Nat : (\E k \in DOMAIN records' :
                              x \in records'[k].first..records'[k].final)
              <=> CoveredBy(x, Len(records)) \/ x \in start..last
<1>1. start \in Nat /\ last \in Nat /\ start <= last /\ records \in Seq(Records)
  BY DEF CodecInv, CodecTypes, Writing
<1>2. /\ Record \in Records /\ Record.first = start /\ Record.final = last
      /\ Record.single => start = last
  BY <1>1 DEF Record, Records
<1>3. /\ records' \in Seq(Records) /\ DOMAIN records' = 1..(Len(records) + 1)
      /\ DOMAIN records = 1..Len(records) /\ Len(records) \in Nat
      /\ \A k \in DOMAIN records : records'[k] = records[k]
      /\ records'[Len(records) + 1] = Record
      /\ Len(records') = Len(records) + 1
  BY <1>1, <1>2
<1>4. \A k \in DOMAIN records : records[k].final \in Nat /\ records[k].final + 1 < start
  <2>1. \A k \in DOMAIN records : records[k] \in Records
    BY <1>1, <1>3
  <2>2. \A k \in DOMAIN records : records[k].final + 1 < start
    BY DEF CodecInv, Writing
  <2> QED
    BY <2>1, <2>2 DEF Records
<1>5. RecordsWellFormed'
  BY <1>1, <1>2, <1>3 DEF RecordsWellFormed, CodecInv
<1>6. RecordsApart'
  BY <1>2, <1>3, <1>4 DEF RecordsApart, CodecInv
<1>7. \A k \in DOMAIN records' : records'[k].final <= last
  BY <1>1, <1>2, <1>3, <1>4
<1>8. \A x \in Nat : (\E k \in DOMAIN records' :
                        x \in records'[k].first..records'[k].final)
        <=> CoveredBy(x, Len(records)) \/ x \in start..last
  BY <1>2, <1>3 DEF CoveredBy
<1> QED
  BY <1>2, <1>3, <1>5, <1>6, <1>7, <1>8

\* A pass of the writing loop
LEMMA WriteNextPreserves ==
  ASSUME CodecInv, WriteNext
  PROVE  CodecInv'
<1> DEFINE current == sequences[cursor]
<1>1. /\ phase = "write" /\ phase' = "write" /\ cursor <= Len(sequences)
      /\ cursor' = cursor + 1 /\ sequences' = sequences /\ unfolded' = unfolded
  BY DEF WriteNext
<1>2. /\ sequences \in Seq(Nat) /\ Increasing(sequences) /\ records \in Seq(Records)
      /\ cursor \in 2..Len(sequences) /\ Len(sequences) \in Nat
      /\ start \in Nat /\ last \in Nat /\ start <= last
      /\ last = sequences[cursor - 1] /\ unfolded = <<>>
      /\ \A k \in DOMAIN records : records[k].final + 1 < start
  BY <1>1 DEF CodecInv, CodecTypes, Writing
<1>3. /\ current \in Nat /\ last < current
      /\ \A x \in Nat : (\E i \in DOMAIN sequences : i < cursor + 1 /\ sequences[i] = x)
           <=> (\E i \in DOMAIN sequences : i < cursor /\ sequences[i] = x) \/ x = current
  BY <1>2 DEF Increasing
<1>4. \A x \in Nat : (CoveredBy(x, Len(records)) \/ x \in start..last)
        <=> \E i \in DOMAIN sequences : i < cursor /\ sequences[i] = x
  BY <1>1 DEF CodecInv, Writing
<1> HIDE DEF current
<1>5. CASE Continues(current) /\ last' = current /\ UNCHANGED <<start, records>>
  <2>1. current = last + 1
    BY <1>2, <1>3, <1>5 DEF Continues
  <2>2. CodecTypes' /\ RecordsWellFormed' /\ RecordsApart'
    BY <1>1, <1>2, <1>3, <1>5 DEF CodecInv, CodecTypes, RecordsWellFormed, RecordsApart, Increasing
  <2>3. \A x \in Nat : CoveredBy(x, Len(records))' <=> CoveredBy(x, Len(records))
    BY <1>5 DEF CoveredBy
  <2>4. \A x \in Nat : x \in start..current <=> x \in start..last \/ x = current
    BY <1>2, <2>1
  <2>5. /\ cursor' \in 2..(Len(sequences') + 1) /\ last' = sequences'[cursor' - 1]
        /\ start' <= last' /\ unfolded' = <<>>
    <3>1. current \in Nat /\ last < current
      BY <1>3
    <3>2. cursor' \in 2..(Len(sequences') + 1) /\ cursor' - 1 = cursor
      BY <1>1, <1>2
    <3>3. last' = sequences'[cursor' - 1]
      BY <1>1, <1>5, <3>2 DEF current
    <3>4. start' <= last'
      BY <1>2, <1>5, <3>1
    <3> QED
      BY <1>1, <1>2, <3>2, <3>3, <3>4
  <2>6. \A k \in DOMAIN records' : records'[k].final + 1 < start'
    BY <1>2, <1>5
  <2>7. \A x \in Nat : (CoveredBy(x, Len(records))' \/ x \in start'..last')
          <=> \E i \in DOMAIN sequences : i < cursor + 1 /\ sequences[i] = x
    BY <1>3, <1>4, <1>5, <2>3, <2>4
  <2>8. Writing'
    BY <1>1, <2>5, <2>6, <2>7 DEF Writing
  <2> QED
    BY <1>1, <2>2, <2>8 DEF CodecInv, Reading, RoundTrip
<1>6. CASE ~Continues(current) /\ records' = Append(records, Record)
           /\ start' = current /\ last' = current
  <2>1. last + 1 < current
    <3>1. current \in Nat /\ last \in Nat /\ last < current
      BY <1>2, <1>3
    <3>2. current - last # 1
      BY <1>6 DEF Continues
    <3> QED
      BY <3>1, <3>2
  <2>2. /\ records' \in Seq(Records) /\ RecordsWellFormed' /\ RecordsApart'
        /\ \A k \in DOMAIN records' : records'[k].final <= last
        /\ \A x \in Nat : (\E k \in DOMAIN records' :
                             x \in records'[k].first..records'[k].final)
             <=> CoveredBy(x, Len(records)) \/ x \in start..last
    BY <1>1, <1>6, RecordAppended
  <2>3. CodecTypes'
    BY <1>1, <1>2, <1>3, <1>6, <2>2 DEF CodecInv, CodecTypes, Increasing
  <2>4. \A x \in Nat : CoveredBy(x, Len(records))'
          <=> CoveredBy(x, Len(records)) \/ x \in start..last
    BY <2>2 DEF CoveredBy
  <2>5. \A k \in DOMAIN records' : records'[k].final + 1 < start'
    <3> TAKE k \in DOMAIN records'
    <3>1. records'[k].final \in Nat
      BY <2>2, FinalOfRecord
    <3>2. records'[k].final <= last
      BY <2>2
    <3>3. last \in Nat /\ current \in Nat /\ start' = current
      BY <1>2, <1>3, <1>6
    <3> QED
      BY <2>1, <3>1, <3>2, <3>3
  <2>6. /\ cursor' \in 2..(Len(sequences') + 1) /\ last' = sequences'[cursor' - 1]
        /\ start' <= last' /\ unfolded' = <<>>
    <3>1. current \in Nat
      BY <1>3
    <3>2. cursor' \in 2..(Len(sequences') + 1) /\ cursor' - 1 = cursor
      BY <1>1, <1>2
    <3>3. last' = sequences'[cursor' - 1]
      BY <1>1, <1>6, <3>2 DEF current
    <3> QED
      BY <1>1, <1>2, <1>6, <3>1, <3>2, <3>3
  <2>7. \A x \in Nat : (CoveredBy(x, Len(records))' \/ x \in start'..last')
          <=> \E i \in DOMAIN sequences : i < cursor + 1 /\ sequences[i] = x
    BY <1>3, <1>4, <1>6, <2>4
  <2>8. Writing'
    BY <1>1, <2>5, <2>6, <2>7 DEF Writing
  <2> QED
    BY <1>1, <2>2, <2>3, <2>8 DEF CodecInv, Reading, RoundTrip
<1> QED
  BY <1>5, <1>6 DEF WriteNext, current

\* The last run is written, and the other end begins to read.
LEMMA WriteLastPreserves ==
  ASSUME CodecInv, WriteLast
  PROVE  CodecInv'
<1>1. /\ phase = "write" /\ phase' = "read" /\ cursor' = 1 /\ cursor > Len(sequences)
      /\ records' = Append(records, Record)
      /\ sequences' = sequences /\ unfolded' = unfolded /\ start' = start /\ last' = last
  BY DEF WriteLast
<1>2. /\ records' \in Seq(Records) /\ RecordsWellFormed' /\ RecordsApart'
      /\ \A x \in Nat : (\E k \in DOMAIN records' :
                           x \in records'[k].first..records'[k].final)
           <=> CoveredBy(x, Len(records)) \/ x \in start..last
  BY <1>1, RecordAppended
<1>3. CodecTypes'
  BY <1>1, <1>2 DEF CodecInv, CodecTypes, Increasing, Phases
<1>4. \A x \in Nat : CoveredBy(x, Len(records))'
        <=> CoveredBy(x, Len(records)) \/ x \in start..last
  BY <1>2 DEF CoveredBy
<1>5. \A x \in Nat : (CoveredBy(x, Len(records)) \/ x \in start..last)
        <=> x \in Members(sequences)
  BY <1>1 DEF CodecInv, CodecTypes, Writing, Members
<1>6. Reading'
  <2>1. unfolded' = <<>> /\ Members(unfolded') = {}
    BY <1>1 DEF CodecInv, Writing, Members
  <2>2. \A x \in Nat : ~CoveredBy(x, cursor - 1)'
    BY <1>1, <1>2 DEF CoveredBy
  <2>3. Members(sequences)' = Members(sequences)
    BY <1>1
  <2>4. cursor' <= Len(records') + 1
    BY <1>1, <1>2
  <2> QED
    BY <1>4, <1>5, <2>1, <2>2, <2>3, <2>4 DEF Reading
<1> QED
  BY <1>1, <1>2, <1>3, <1>6 DEF CodecInv, Writing, RoundTrip

\* A record is unfolded.
LEMMA ReadNextPreserves ==
  ASSUME CodecInv, ReadNext
  PROVE  CodecInv'
<1> DEFINE r == records[cursor]
<1>1. /\ phase = "read" /\ phase' = "read" /\ cursor <= Len(records)
      /\ unfolded' = unfolded \o Numbers(r) /\ cursor' = cursor + 1
      /\ sequences' = sequences /\ start' = start /\ last' = last /\ records' = records
  BY DEF ReadNext
<1>2. /\ records \in Seq(Records) /\ unfolded \in Seq(Nat) /\ cursor \in 1..Len(records)
      /\ Len(records) \in Nat
  BY <1>1 DEF CodecInv, CodecTypes
<1>3. r \in Records /\ r.first <= r.final /\ (r.single => r.first = r.final)
  BY <1>2 DEF CodecInv, RecordsWellFormed
<1>4. /\ Numbers(r) \in Seq(Nat)
      /\ \A x \in Nat : x \in Members(Numbers(r)) <=> x \in r.first..r.final
  BY <1>3, NumbersOfRecord
<1>5. unfolded' \in Seq(Nat) /\ Members(unfolded') = Members(unfolded) \cup Members(Numbers(r))
  BY <1>1, <1>2, <1>4, MembersOfBoth
<1>6. \A x \in Nat : CoveredBy(x, cursor) <=> (CoveredBy(x, cursor - 1) \/ x \in r.first..r.final)
  <2>1. cursor - 1 \in Nat /\ (cursor - 1) + 1 = cursor
    BY <1>2
  <2> QED
    BY <1>2, <2>1, CoveredByOneMore
<1>7. \A x \in Nat : CoveredBy(x, cursor - 1) <=> x \in Members(unfolded)
  BY <1>1 DEF CodecInv, Reading
<1>8. \A x \in Nat : CoveredBy(x, cursor - 1)' <=> x \in Members(unfolded')
  <2>1. cursor' - 1 = cursor
    BY <1>1, <1>2
  <2>2. \A x \in Nat : CoveredBy(x, cursor - 1)' <=> CoveredBy(x, cursor)
    BY <1>1, <2>1 DEF CoveredBy
  <2> QED
    BY <1>4, <1>5, <1>6, <1>7, <2>2
<1>9. \A x \in Nat : CoveredBy(x, Len(records))' <=> x \in Members(sequences')
  BY <1>1 DEF CodecInv, Reading, CoveredBy
<1>10. CodecTypes' /\ RecordsWellFormed' /\ RecordsApart'
  BY <1>1, <1>2, <1>5 DEF CodecInv, CodecTypes, RecordsWellFormed, RecordsApart, Increasing
<1>11. cursor' <= Len(records') + 1
  BY <1>1, <1>2
<1>12. Reading'
  BY <1>8, <1>9, <1>11 DEF Reading
<1> QED
  BY <1>1, <1>10, <1>12 DEF CodecInv, Writing, RoundTrip

\* All the records are read: what was unfolded is what they cover.
LEMMA ReadEndsPreserves ==
  ASSUME CodecInv, ReadEnds
  PROVE  CodecInv'
<1>1. /\ phase = "read" /\ phase' = "done" /\ cursor > Len(records)
      /\ UNCHANGED <<sequences, cursor, start, last, records, unfolded>>
  BY DEF ReadEnds
<1>2. records \in Seq(Records) /\ cursor \in Nat /\ sequences \in Seq(Nat) /\ unfolded \in Seq(Nat)
  BY DEF CodecInv, CodecTypes
<1>3. cursor - 1 = Len(records)
  BY <1>1, <1>2 DEF CodecInv, Reading
<1>4. \A x \in Nat : x \in Members(sequences) <=> x \in Members(unfolded)
  BY <1>1, <1>3 DEF CodecInv, Reading
<1>5. Members(sequences) \subseteq Nat /\ Members(unfolded) \subseteq Nat
  BY <1>2 DEF Members
<1>6. RoundTrip'
  BY <1>1, <1>4, <1>5 DEF RoundTrip
<1>7. CodecTypes' /\ RecordsWellFormed' /\ RecordsApart'
  BY <1>1 DEF CodecInv, CodecTypes, RecordsWellFormed, RecordsApart, Increasing, Phases
<1> QED
  BY <1>1, <1>6, <1>7 DEF CodecInv, Writing, Reading

\* What changes no variable changes no part of the invariant.
LEMMA CodecStutters ==
  ASSUME CodecInv, UNCHANGED codecVars
  PROVE  CodecInv'
<1>1. UNCHANGED <<phase, sequences, cursor, start, last, records, unfolded>>
  BY DEF codecVars
<1>2. CodecTypes' /\ RecordsWellFormed' /\ RecordsApart'
  BY <1>1 DEF CodecInv, CodecTypes, RecordsWellFormed, RecordsApart, Increasing
<1>3. \A x \in Nat : /\ CoveredBy(x, Len(records))' <=> CoveredBy(x, Len(records))
                     /\ CoveredBy(x, cursor - 1)' <=> CoveredBy(x, cursor - 1)
  BY <1>1 DEF CoveredBy
<1>4. Writing'
  BY <1>1, <1>3 DEF CodecInv, Writing
<1>5. Reading' /\ RoundTrip'
  BY <1>1, <1>3 DEF CodecInv, Reading, RoundTrip
<1> QED
  BY <1>2, <1>4, <1>5 DEF CodecInv

\* The invariant holds of every list that is serialized.
THEOREM CodecInvariant == CodecSpec => []CodecInv
<1>1. CodecInit => CodecInv
  BY CodecInitially
<1>2. CodecInv /\ [CodecNext]_codecVars => CodecInv'
  BY SerializePreserves, WriteNextPreserves, WriteLastPreserves, ReadNextPreserves,
     ReadEndsPreserves, CodecStutters DEF CodecNext, CodecStep
<1> QED
  BY <1>1, <1>2, PTL DEF CodecSpec

-------------------------------------------------------------------------------
(* Acknowledgement.serialize and deserialize *)

\* The peer reads exactly the sequence numbers that were acknowledged, or asked
\* for, for every sorted list of them.
THEOREM AcknowledgementsArriveWhole == CodecSpec => []RoundTrip
<1>1. CodecInv => RoundTrip
  BY DEF CodecInv
<1> QED
  BY <1>1, CodecInvariant, PTL

\* The ranges that are written are as few as can be, for every sorted list.
THEOREM RangesStayApart == CodecSpec => []RecordsApart
<1>1. CodecInv => RecordsApart
  BY DEF CodecInv
<1> QED
  BY <1>1, CodecInvariant, PTL
===============================================================================
