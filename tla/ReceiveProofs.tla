--------------------------- MODULE ReceiveProofs ---------------------------
(***************************************************************************)
(* The application's receiving side, the ring in shared memory that        *)
(* samples take between two processes, and what the application's scripts  *)
(* are built on, each part for every value of its constants:               *)
(*                                                                         *)
(*   UdpStream    losses are counted and the receive ring delivers         *)
(*   AppSession   the connection believed in is there                      *)
(*   AudioBuffer  no sample is played twice                                *)
(*   HistoryRing  playback gives what was asked for                        *)
(*   SharedMem    the ring between two processes                           *)
(*   Reactive     what is computed and told is what holds                  *)
(*   RuleBox      the rules answer alike by every way they are asked       *)
(*                                                                         *)
(* One inductive invariant for each, kept by one case for each action.     *)
(***************************************************************************)
EXTENDS UdpStream, AppSession, AudioBuffer, HistoryRing, RuleBox, SharedMem, ModularArithmetic,
        FiniteSetTheorems, SequenceTheorems, TLAPS

----------------------------------------------------------------------------
(* UdpStream: losses are counted, and the receive ring delivers.           *)

Packets == [seq : 0..MaxPackets-1, frames : Seq(Int)]

StreamTypes ==
  /\ packetsSent \in 0..MaxPackets /\ framesGone \in Int
  /\ inFlight \subseteq Packets
  /\ \A p \in inFlight : p.seq < packetsSent /\ p.frames # <<>>
  /\ seen \subseteq 0..packetsSent-1 /\ framesDropped \in Nat
  /\ seen = {} => lastSequence = NoSequence
  /\ seen # {} => lastSequence \in seen /\ first \in seen

LossInv == StreamTypes /\ LossNeverHidden

LEMMA SequenceFits ==
  /\ SeqMod \in Nat \ {0} /\ MaxPackets \in Nat
  /\ \A n \in 0..MaxPackets : n % SeqMod = n
<1>1. SeqMod \in Nat \ {0} /\ MaxPackets \in Nat /\ MaxPackets < SeqMod
  BY UdpAssumption
<1>2. ASSUME NEW n \in 0..MaxPackets PROVE n % SeqMod = n
  <2>1. n \in 0..SeqMod-1
    BY <1>1, <1>2
  <2> QED BY <1>1, <2>1, ModSmall
<1> QED BY <1>1, <1>2

LEMMA MissingFinite ==
  ASSUME StreamTypes
  PROVE  IsFiniteSet(Missing) /\ Cardinality(Missing) \in Nat
<1>1. IsFiniteSet(0..packetsSent)
  BY FS_Interval DEF StreamTypes
<1>2. Missing \subseteq 0..packetsSent
  BY DEF Missing
<1> QED BY <1>1, <1>2, FS_Subset, FS_CardinalityType

\* Twin and network: what is missing of what came stays the same.
LEMMA NothingCame ==
  ASSUME StreamTypes, UNCHANGED <<seen, first>>, packetsSent' \in Nat, packetsSent' >= packetsSent
  PROVE  Missing' = Missing
<1>1. Missing = {s \in Nat : s \notin seen /\ first < s /\ \E later \in seen : s < later}
  BY DEF Missing, StreamTypes
<1>2. Missing' = {s \in Nat : s \notin seen /\ first < s /\ \E later \in seen : s < later}
  BY DEF Missing, StreamTypes
<1> QED BY <1>1, <1>2

\* A packet comes: what is newly missing lies between the last one and this one.
LEMMA GapCovers ==
  ASSUME StreamTypes, LossNeverHidden, NEW p \in inFlight, Receive(p)
  PROVE  LossNeverHidden' /\ framesDropped' \in Nat
<1>1. /\ p.seq \in 0..packetsSent-1 /\ p.seq \in 0..MaxPackets /\ Len(p.frames) \in Nat /\ Len(p.frames) >= 1
      /\ packetsSent \in Nat
  <2>1. p.seq \in 0..MaxPackets-1 /\ p.seq < packetsSent /\ p.frames \in Seq(Int) /\ p.frames # <<>>
    BY DEF StreamTypes, Packets
  <2>2. Len(p.frames) \in Nat /\ Len(p.frames) >= 1
    BY <2>1, EmptySeq, LenProperties
  <2> QED BY <2>1, <2>2, SequenceFits DEF StreamTypes
<1>2. /\ framesDropped' = framesDropped + GapOf(p) /\ seen' = seen \cup {p.seq} /\ packetsSent' = packetsSent
      /\ first' = IF seen = {} THEN p.seq ELSE first
  BY DEF Receive
<1>3. CASE seen = {}
  <2>1. Missing' = {}
    BY <1>1, <1>2, <1>3 DEF Missing
  <2>2. GapOf(p) = 0
    BY <1>3 DEF GapOf, StreamTypes
  <2> QED BY <1>2, <2>1, <2>2, FS_EmptySet DEF StreamTypes, LossNeverHidden
<1>4. CASE seen # {}
  <2>1. lastSequence \in seen /\ lastSequence \in 0..packetsSent-1 /\ first' = first /\ first \in 0..packetsSent-1
    BY <1>2, <1>4 DEF StreamTypes
  <2>2. Expected = lastSequence + 1 /\ lastSequence # NoSequence
    <3>1. lastSequence + 1 \in 0..MaxPackets
      BY <1>1, <2>1, SequenceFits DEF StreamTypes
    <3> QED BY <2>1, <3>1, SequenceFits DEF Expected, NoSequence
  <2>3. Missing' \subseteq Missing \cup (lastSequence + 1 .. p.seq - 1)
    BY <1>1, <1>2, <2>1 DEF Missing
  <2>4. /\ IsFiniteSet(lastSequence + 1 .. p.seq - 1)
        /\ Cardinality(lastSequence + 1 .. p.seq - 1)
             = IF lastSequence + 1 > p.seq - 1 THEN 0 ELSE p.seq - 1 - (lastSequence + 1) + 1
    <3>1. lastSequence + 1 \in Int /\ p.seq - 1 \in Int
      BY <1>1, <2>1
    <3> QED BY <3>1, FS_Interval
  <2>5. Cardinality(lastSequence + 1 .. p.seq - 1) <= GapOf(p) /\ GapOf(p) \in Nat
    <3>1. CASE p.seq > Expected
      <4> DEFINE d == p.seq - Expected
                 k == Len(p.frames)
      <4>1. GapOf(p) = d * k
        BY <2>2, <3>1 DEF GapOf
      <4>2. d \in Nat /\ k \in Nat /\ k >= 1 /\ Cardinality(lastSequence + 1 .. p.seq - 1) = d
        BY <1>1, <2>1, <2>2, <2>4, <3>1
      <4> HIDE DEF d, k
      <4>3. d * k >= d /\ d * k \in Nat
        BY <4>2
      <4> QED BY <4>1, <4>2, <4>3
    <3>2. CASE ~(p.seq > Expected)
      BY <1>1, <2>1, <2>2, <2>4, <3>2 DEF GapOf
    <3> QED BY <3>1, <3>2
  <2>6. Cardinality(Missing') <= Cardinality(Missing) + GapOf(p) /\ Cardinality(Missing') \in Nat
    <3> DEFINE T == lastSequence + 1 .. p.seq - 1
    <3>1. IsFiniteSet(T) /\ IsFiniteSet(Missing) /\ Cardinality(T) \in Nat /\ Cardinality(Missing) \in Nat
      BY <2>4, MissingFinite, FS_CardinalityType
    <3> HIDE DEF T
    <3>2. /\ IsFiniteSet(Missing \cup T)
          /\ Cardinality(Missing \cup T) = Cardinality(Missing) + Cardinality(T) - Cardinality(Missing \cap T)
      BY <3>1, FS_Union
    <3>3. IsFiniteSet(Missing \cap T) /\ Cardinality(Missing \cap T) \in Nat
      BY <3>1, FS_Intersection, FS_CardinalityType
    <3>4. Missing' \subseteq Missing \cup T
      BY <2>3 DEF T
    <3>5. Cardinality(Missing') <= Cardinality(Missing \cup T) /\ Cardinality(Missing') \in Nat
      BY <3>2, <3>4, FS_Subset, FS_CardinalityType
    <3>6. Cardinality(T) <= GapOf(p)
      BY <2>5 DEF T
    <3>7. GapOf(p) \in Nat
      BY <2>5
    <3> QED BY <3>1, <3>2, <3>3, <3>5, <3>6, <3>7
  <2>7. framesDropped \in Nat /\ Cardinality(Missing) \in Nat /\ GapOf(p) \in Nat
    BY <2>5, MissingFinite DEF StreamTypes
  <2>8. framesDropped' >= Cardinality(Missing')
    BY <1>2, <2>6, <2>7 DEF LossNeverHidden
  <2> QED BY <1>2, <2>7, <2>8 DEF LossNeverHidden
<1> QED BY <1>3, <1>4

LEMMA LossStarts == ASSUME UdpInit PROVE LossInv
<1>1. StreamTypes
  BY SequenceFits DEF UdpInit, StreamTypes
<1>2. Missing = {}
  BY DEF UdpInit, Missing
<1> QED BY <1>1, <1>2, FS_EmptySet DEF UdpInit, LossInv, LossNeverHidden

LEMMA LossKept == ASSUME LossInv, [UdpNext]_udpVars PROVE LossInv'
<1> USE DEF udpVars, udpHistory, rxVars, counters
<1>0. StreamTypes /\ LossNeverHidden
  BY DEF LossInv
<1>1. ASSUME UNCHANGED <<packetsSent, inFlight, lastSequence, seen, first, framesDropped>>,
             framesGone' \in Int
      PROVE  LossInv'
  <2>1. Missing' = Missing
    BY <1>1 DEF Missing
  <2> QED BY <1>0, <1>1, <2>1 DEF LossInv, StreamTypes, LossNeverHidden
<1>2. ASSUME NEW k \in PacketSizes, WriteBatch(k) PROVE LossInv'
  <2>1. /\ packetsSent' = packetsSent + 1 /\ packetsSent \in Nat /\ packetsSent < MaxPackets
        /\ packetsSent' \in 0..MaxPackets /\ packetsSent \in 0..MaxPackets-1
        /\ UNCHANGED <<lastSequence, seen, first, framesDropped>>
    BY <1>0, <1>2, SequenceFits DEF WriteBatch, StreamTypes
  <2>2. k \in Nat \ {0} /\ framesGone' = framesGone + k
    BY <1>2, UdpAssumption DEF WriteBatch
  <2> DEFINE q == [seq |-> packetsSent % SeqMod, frames |-> FramesAfter(framesGone, k)]
  <2>3. q.frames \in Seq(Int) /\ q.frames # <<>>
    <3>1. framesGone \in Int /\ \A i \in 1..k : framesGone + i \in Int
      BY <1>0 DEF StreamTypes
    <3>2. q.frames = [i \in 1..k |-> framesGone + i]
      BY DEF FramesAfter
    <3> HIDE DEF q
    <3>3. q.frames \in Seq(Int) /\ Len(q.frames) = k
      BY <2>2, <3>1, <3>2
    <3> QED BY <2>2, <3>3
  <2>4. q.seq = packetsSent
    BY <2>1, SequenceFits
  <2>5. q \in Packets /\ inFlight' = inFlight \cup {q}
    BY <1>2, <2>1, <2>3, <2>4 DEF Packets, WriteBatch
  <2> HIDE DEF q
  <2>6. Missing' = Missing
    BY <1>0, <2>1, NothingCame
  <2>7. framesGone' \in Int
    BY <1>0, <2>2 DEF StreamTypes
  <2>8. \A p \in inFlight' : p \in Packets /\ p.seq < packetsSent' /\ p.frames # <<>>
    <3>1. \A p \in inFlight : p \in Packets /\ p.seq < packetsSent /\ p.seq \in Int /\ p.frames # <<>>
      BY <1>0 DEF StreamTypes, Packets
    <3> QED BY <2>1, <2>3, <2>4, <2>5, <3>1
  <2>9. seen' \subseteq 0..packetsSent'-1
    BY <1>0, <2>1 DEF StreamTypes
  <2> QED BY <1>0, <2>1, <2>6, <2>7, <2>8, <2>9 DEF LossInv, StreamTypes, LossNeverHidden
<1>3. ASSUME NEW k \in PacketSizes, WriteBatchFails(k) PROVE LossInv'
  <2>1. k \in Nat
    BY UdpAssumption
  <2> QED BY <1>0, <1>1, <1>3, <2>1 DEF WriteBatchFails, StreamTypes
<1>4. ASSUME NEW p \in inFlight, Lose(p) PROVE LossInv'
  <2>1. inFlight' \subseteq inFlight /\ UNCHANGED <<packetsSent, framesGone, lastSequence, seen, first, framesDropped>>
    BY <1>4 DEF Lose
  <2>2. Missing' = Missing
    BY <2>1 DEF Missing
  <2> QED BY <1>0, <2>1, <2>2 DEF LossInv, StreamTypes, LossNeverHidden
<1>5. ASSUME NEW p \in inFlight, Receive(p) PROVE LossInv'
  <2>1. LossNeverHidden' /\ framesDropped' \in Nat
    BY <1>0, <1>5, GapCovers
  <2>2. p.seq \in 0..packetsSent-1
    BY <1>0 DEF StreamTypes, Packets
  <2>3. /\ inFlight' \subseteq inFlight /\ UNCHANGED <<packetsSent, framesGone>> /\ seen' = seen \cup {p.seq}
        /\ first' = (IF seen = {} THEN p.seq ELSE first) /\ lastSequence' = p.seq
    BY <1>5 DEF Receive
  <2> QED BY <1>0, <2>1, <2>2, <2>3 DEF LossInv, StreamTypes
<1>6. CASE StoreFrame \/ ReadFrame \/ HandOver
  BY <1>0, <1>1, <1>6 DEF StoreFrame, ReadFrame, HandOver, StreamTypes
<1>7. CASE UNCHANGED udpVars
  BY <1>0, <1>1, <1>7 DEF StreamTypes
<1> QED BY <1>2, <1>3, <1>4, <1>5, <1>6, <1>7 DEF UdpNext, Network

\* What the ring holds, element by element: the frames owed are those in the batch, then those
\* in the ring.
RingTypes ==
  /\ filling \in Seq(Int) /\ batch \in Seq(Int) /\ owed \in Seq(Int)
  /\ rxRing \in [0..RxCapacity-1 -> Int]
  /\ rxWrite \in 0..RxCapacity-1 /\ rxRead \in 0..RxCapacity-1
OwedInv ==
  /\ Len(owed) = Len(batch) + RxFill
  /\ \A i \in 1..Len(batch) : owed[i] = batch[i]
  /\ \A i \in 1..RxFill : owed[Len(batch) + i] = rxRing[(rxRead + i - 1) % RxCapacity]

StreamInv == LossInv /\ RingTypes /\ OwedInv

LEMMA RingStarts == ASSUME UdpInit PROVE RingTypes /\ OwedInv
<1>1. RxCapacity \in Nat \ {0}
  BY UdpAssumption
<1>2. RxFill = 0
  BY <1>1, ModApart DEF UdpInit, RxFill
<1>3. RingTypes
  BY <1>1 DEF UdpInit, RingTypes
<1> QED BY <1>2, <1>3 DEF UdpInit, OwedInv

\* The slots from the read position on, as many as are filled, and the free one after them.
LEMMA FilledSlots ==
  ASSUME RingTypes
  PROVE  /\ RxFill \in 0..RxCapacity-1
         /\ (rxRead + (RxFill + 1) - 1) % RxCapacity = rxWrite
         /\ \A i \in 1..RxFill : /\ (rxRead + i - 1) % RxCapacity \in 0..RxCapacity-1
                                 /\ (rxRead + i - 1) % RxCapacity # rxWrite
<1>1. RxCapacity \in Nat \ {0} /\ rxWrite \in 0..RxCapacity-1 /\ rxRead \in 0..RxCapacity-1
  BY UdpAssumption DEF RingTypes
<1>2. RxFill = IF rxWrite >= rxRead THEN rxWrite - rxRead ELSE rxWrite - rxRead + RxCapacity
  BY <1>1, ModApart DEF RxFill
<1>3. RxFill \in 0..RxCapacity-1
  BY <1>1, <1>2
<1>4. \A k \in 0..RxCapacity-1 :
        /\ (rxRead + k) % RxCapacity = IF rxRead + k < RxCapacity THEN rxRead + k ELSE rxRead + k - RxCapacity
        /\ (rxRead + k) % RxCapacity \in 0..RxCapacity-1
  BY <1>1, ModWrap
<1>5. (rxRead + (RxFill + 1) - 1) % RxCapacity = rxWrite
  <2>1. rxRead + (RxFill + 1) - 1 = rxRead + RxFill
    BY <1>1, <1>3
  <2> QED BY <1>1, <1>2, <1>3, <1>4, <2>1
<1>6. ASSUME NEW i \in 1..RxFill
      PROVE  (rxRead + i - 1) % RxCapacity \in 0..RxCapacity-1 /\ (rxRead + i - 1) % RxCapacity # rxWrite
  <2>1. rxRead + i - 1 = rxRead + (i - 1) /\ i - 1 \in 0..RxCapacity-1 /\ i - 1 < RxFill
    BY <1>1, <1>3, <1>6
  <2> QED BY <1>1, <1>2, <1>4, <2>1
<1> QED BY <1>3, <1>5, <1>6

\* A frame is stored: it is the last one owed, in a slot that held none of those before it.
LEMMA StoreKeeps == ASSUME RingTypes, OwedInv, StoreFrame PROVE RingTypes' /\ OwedInv'
<1> DEFINE next == (rxWrite + 1) % RxCapacity
<1>1. RxCapacity \in Nat \ {0} /\ rxWrite \in 0..RxCapacity-1 /\ rxRead \in 0..RxCapacity-1
  BY UdpAssumption DEF RingTypes
<1>2. filling # <<>> /\ filling \in Seq(Int) /\ Head(filling) \in Int /\ filling' = Tail(filling)
      /\ filling' \in Seq(Int)
  BY HeadTailProperties DEF StoreFrame, RingTypes
<1>3. UNCHANGED <<rxRead, batch>>
  BY DEF StoreFrame
<1>4. next \in 0..RxCapacity-1 /\ next = IF rxWrite = RxCapacity - 1 THEN 0 ELSE rxWrite + 1
  BY <1>1, ModNext
<1>5. CASE next = rxRead
  <2>1. UNCHANGED <<rxRing, rxWrite, owed>>
    BY <1>5 DEF StoreFrame
  <2>2. RxFill' = RxFill
    BY <1>3, <2>1 DEF RxFill
  <2>3. RingTypes'
    BY <1>2, <1>3, <2>1 DEF RingTypes
  <2> QED BY <1>3, <2>1, <2>2, <2>3 DEF OwedInv
<1>6. CASE next # rxRead
  <2>1. /\ rxRing' = [rxRing EXCEPT ![rxWrite] = Head(filling)] /\ rxWrite' = next
        /\ owed' = Append(owed, Head(filling))
    BY <1>6 DEF StoreFrame
  <2>2. rxRing' \in [0..RxCapacity-1 -> Int] /\ rxRing'[rxWrite] = Head(filling)
        /\ \A p \in 0..RxCapacity-1 : p # rxWrite => rxRing'[p] = rxRing[p]
    BY <1>1, <1>2, <2>1 DEF RingTypes
  <2>3. /\ owed \in Seq(Int) /\ owed' \in Seq(Int) /\ Len(owed') = Len(owed) + 1 /\ Len(owed) \in Nat
        /\ owed'[Len(owed) + 1] = Head(filling) /\ \A i \in 1..Len(owed) : owed'[i] = owed[i]
    BY <1>2, <2>1, AppendProperties, LenProperties DEF RingTypes
  <2>4. RxFill' = RxFill + 1
    <3>1. RxFill = IF rxWrite >= rxRead THEN rxWrite - rxRead ELSE rxWrite - rxRead + RxCapacity
      BY <1>1, ModApart DEF RxFill
    <3>2. (next - rxRead) % RxCapacity = IF next >= rxRead THEN next - rxRead ELSE next - rxRead + RxCapacity
      BY <1>1, <1>4, ModApart
    <3>3. RxFill' = (next - rxRead) % RxCapacity
      BY <1>3, <2>1 DEF RxFill
    <3> HIDE DEF next
    <3> QED BY <1>1, <1>4, <1>6, <3>1, <3>2, <3>3
  <2>5. /\ RxFill \in 0..RxCapacity-1 /\ (rxRead + (RxFill + 1) - 1) % RxCapacity = rxWrite
        /\ \A i \in 1..RxFill : /\ (rxRead + i - 1) % RxCapacity \in 0..RxCapacity-1
                                /\ (rxRead + i - 1) % RxCapacity # rxWrite
    BY FilledSlots
  <2>6. Len(batch) \in Nat /\ Len(owed) = Len(batch) + RxFill
    BY LenProperties DEF RingTypes, OwedInv
  <2>7. RingTypes'
    <3> HIDE DEF next
    <3> QED BY <1>1, <1>2, <1>3, <1>4, <2>1, <2>2, <2>3 DEF RingTypes
  <2>8. Len(owed') = Len(batch') + RxFill'
    BY <1>3, <2>3, <2>4, <2>5, <2>6
  <2>9. ASSUME NEW i \in 1..Len(batch') PROVE owed'[i] = batch'[i]
    <3>1. i \in 1..Len(batch) /\ i \in 1..Len(owed)
      BY <1>3, <2>5, <2>6
    <3>2. owed[i] = batch[i]
      BY <3>1 DEF OwedInv
    <3> QED BY <1>3, <2>3, <3>1, <3>2
  <2>10. ASSUME NEW i \in 1..RxFill'
         PROVE  owed'[Len(batch') + i] = rxRing'[(rxRead' + i - 1) % RxCapacity]
    <3>1. CASE i = RxFill + 1
      <4>1. (rxRead' + i - 1) % RxCapacity = rxWrite
        BY <1>3, <2>5, <3>1
      <4>2. Len(batch') + i = Len(owed) + 1
        BY <1>3, <2>5, <2>6, <3>1
      <4> QED BY <2>2, <2>3, <4>1, <4>2
    <3>2. CASE i # RxFill + 1
      <4>1. i \in 1..RxFill /\ Len(batch) + i \in 1..Len(owed)
        BY <2>4, <2>5, <2>6, <3>2
      <4> DEFINE q == (rxRead + i - 1) % RxCapacity
      <4>2. q \in 0..RxCapacity-1 /\ q # rxWrite
        BY <2>5, <4>1
      <4>3. owed[Len(batch) + i] = rxRing[q]
        BY <4>1 DEF OwedInv
      <4>4. (rxRead' + i - 1) % RxCapacity = q /\ Len(batch') = Len(batch)
        BY <1>3
      <4> HIDE DEF q
      <4> QED BY <2>2, <2>3, <4>1, <4>2, <4>3, <4>4
    <3> QED BY <3>1, <3>2
  <2> QED BY <2>7, <2>8, <2>9, <2>10 DEF OwedInv
<1> QED BY <1>5, <1>6

\* A frame is read: the first one of the ring becomes the last one of the batch.
LEMMA ReadKeeps == ASSUME RingTypes, OwedInv, ReadFrame PROVE RingTypes' /\ OwedInv'
<1>1. RxCapacity \in Nat \ {0} /\ rxWrite \in 0..RxCapacity-1 /\ rxRead \in 0..RxCapacity-1
  BY UdpAssumption DEF RingTypes
<1>2. /\ rxRead # rxWrite /\ batch' = Append(batch, rxRing[rxRead]) /\ rxRead' = (rxRead + 1) % RxCapacity
      /\ UNCHANGED <<filling, rxRing, rxWrite, owed>>
  BY DEF ReadFrame, rxVars
<1>3. rxRead' \in 0..RxCapacity-1 /\ rxRead' = IF rxRead = RxCapacity - 1 THEN 0 ELSE rxRead + 1
  BY <1>1, <1>2, ModNext
<1>4. rxRing[rxRead] \in Int /\ batch \in Seq(Int) /\ Len(batch) \in Nat /\ owed \in Seq(Int) /\ Len(owed) \in Nat
  BY LenProperties DEF RingTypes
<1>5. /\ batch' \in Seq(Int) /\ Len(batch') = Len(batch) + 1
      /\ batch'[Len(batch) + 1] = rxRing[rxRead] /\ \A i \in 1..Len(batch) : batch'[i] = batch[i]
  BY <1>2, <1>4, AppendProperties
<1>6. RingTypes'
  BY <1>2, <1>3, <1>5 DEF RingTypes
<1>7. RxFill \in 1..RxCapacity-1 /\ RxFill' = RxFill - 1
  <2>1. RxFill = IF rxWrite >= rxRead THEN rxWrite - rxRead ELSE rxWrite - rxRead + RxCapacity
    BY <1>1, ModApart DEF RxFill
  <2>2. RxFill' = IF rxWrite >= rxRead' THEN rxWrite - rxRead' ELSE rxWrite - rxRead' + RxCapacity
    <3>1. (rxWrite - rxRead') % RxCapacity = IF rxWrite >= rxRead' THEN rxWrite - rxRead' ELSE rxWrite - rxRead' + RxCapacity
      BY <1>1, <1>3, ModApart
    <3> QED BY <1>2, <3>1 DEF RxFill
  <2> QED BY <1>1, <1>2, <1>3, <2>1, <2>2
<1>8. Len(owed) = Len(batch) + RxFill
  BY DEF OwedInv
<1>9. ASSUME NEW i \in 1..Len(batch') PROVE owed'[i] = batch'[i]
  <2>1. CASE i = Len(batch) + 1
    <3>1. owed[Len(batch) + 1] = rxRing[(rxRead + 1 - 1) % RxCapacity]
      BY <1>7 DEF OwedInv
    <3>2. (rxRead + 1 - 1) % RxCapacity = rxRead
      BY <1>1, ModSmall
    <3> QED BY <1>2, <1>5, <2>1, <3>1, <3>2
  <2>2. CASE i # Len(batch) + 1
    <3>1. i \in 1..Len(batch)
      BY <1>4, <1>5, <2>2
    <3> QED BY <1>2, <1>5, <3>1 DEF OwedInv
  <2> QED BY <2>1, <2>2
<1>10. ASSUME NEW i \in 1..RxFill'
       PROVE  owed'[Len(batch') + i] = rxRing'[(rxRead' + i - 1) % RxCapacity]
  <2>1. i + 1 \in 1..RxFill /\ i \in 1..RxCapacity-1
    BY <1>1, <1>7, <1>10
  <2>2. owed[Len(batch) + (i + 1)] = rxRing[(rxRead + (i + 1) - 1) % RxCapacity]
    BY <2>1 DEF OwedInv
  <2>3. (rxRead + (i + 1) - 1) % RxCapacity = (rxRead' + i - 1) % RxCapacity
    <3>1. \A k \in 0..RxCapacity-1 :
            /\ (rxRead + k) % RxCapacity = IF rxRead + k < RxCapacity THEN rxRead + k ELSE rxRead + k - RxCapacity
            /\ (rxRead' + k) % RxCapacity = IF rxRead' + k < RxCapacity THEN rxRead' + k ELSE rxRead' + k - RxCapacity
      BY <1>1, <1>3, ModWrap
    <3>2. rxRead + (i + 1) - 1 = rxRead + i /\ rxRead' + i - 1 = rxRead' + (i - 1) /\ i - 1 \in 0..RxCapacity-1
      BY <1>1, <1>3, <2>1
    <3> QED BY <1>1, <1>3, <2>1, <3>1, <3>2
  <2>4. Len(batch') + i = Len(batch) + (i + 1)
    BY <1>4, <1>5, <2>1
  <2> QED BY <1>2, <2>2, <2>3, <2>4
<1>11. Len(owed') = Len(batch') + RxFill'
  BY <1>2, <1>4, <1>5, <1>7, <1>8
<1> QED BY <1>6, <1>9, <1>10, <1>11 DEF OwedInv

\* The batch is handed over: what is owed begins with what is in the ring.
LEMMA HandOverKeeps == ASSUME RingTypes, OwedInv, HandOver PROVE RingTypes' /\ OwedInv'
<1>1. /\ owed' = SubSeq(owed, Len(batch) + 1, Len(owed)) /\ batch' = <<>>
      /\ UNCHANGED <<filling, rxRing, rxWrite, rxRead>>
  BY DEF HandOver, rxVars
<1>2. /\ owed \in Seq(Int) /\ Len(owed) \in Nat /\ Len(batch) \in Nat /\ Len(owed) = Len(batch) + RxFill
      /\ RxFill \in Nat
  BY FilledSlots, LenProperties DEF RingTypes, OwedInv
<1>3. /\ owed' \in Seq(Int) /\ Len(owed') = RxFill
      /\ \A i \in 1..RxFill : owed'[i] = owed[Len(batch) + i]
  <2>1. Len(batch) + 1 \in 1..Len(owed)+1 /\ Len(owed) \in Len(batch)..Len(owed)
    BY <1>2
  <2>2. /\ owed' \in Seq(Int)
        /\ Len(owed') = IF Len(batch) + 1 <= Len(owed) THEN Len(owed) - (Len(batch) + 1) + 1 ELSE 0
        /\ \A i \in 1..Len(owed)-(Len(batch)+1)+1 : owed'[i] = owed[Len(batch) + 1 + i - 1]
    BY <1>1, <1>2, <2>1, SubSeqProperties
  <2>3. \A i \in Int : Len(batch) + 1 + i - 1 = Len(batch) + i
    BY <1>2
  <2>4. (IF Len(batch) + 1 <= Len(owed) THEN Len(owed) - (Len(batch) + 1) + 1 ELSE 0) = RxFill
        /\ Len(owed) - (Len(batch) + 1) + 1 = RxFill
    BY <1>2
  <2>5. ASSUME NEW i \in 1..RxFill PROVE owed'[i] = owed[Len(batch) + i]
    <3>1. i \in 1..Len(owed)-(Len(batch)+1)+1 /\ i \in Int
      BY <1>2, <2>4
    <3>2. owed'[i] = owed[Len(batch) + 1 + i - 1]
      BY <2>2, <3>1
    <3> QED BY <2>3, <3>1, <3>2
  <2> QED BY <2>2, <2>4, <2>5
<1>4. RxFill' = RxFill
  BY <1>1 DEF RxFill
<1>5. RingTypes'
  BY <1>1, <1>3 DEF RingTypes
<1>6. Len(batch') = 0
  BY <1>1
<1>7. Len(owed') = Len(batch') + RxFill'
  BY <1>2, <1>3, <1>4, <1>6
<1>8. ASSUME NEW i \in 1..RxFill'
      PROVE  owed'[Len(batch') + i] = rxRing'[(rxRead' + i - 1) % RxCapacity]
  <2>1. i \in 1..RxFill /\ Len(batch') + i = i
    BY <1>2, <1>4, <1>6
  <2> QED BY <1>1, <1>3, <2>1 DEF OwedInv
<1> QED BY <1>5, <1>6, <1>7, <1>8 DEF OwedInv

LEMMA RingKept == ASSUME StreamTypes, RingTypes, OwedInv, [UdpNext]_udpVars PROVE RingTypes' /\ OwedInv'
<1> USE DEF udpVars, rxVars
<1>1. ASSUME UNCHANGED <<rxVars, batch, owed>>, filling' \in Seq(Int) PROVE RingTypes' /\ OwedInv'
  <2>1. RxFill' = RxFill
    BY <1>1 DEF RxFill
  <2> QED BY <1>1, <2>1 DEF RingTypes, OwedInv
<1>2. ASSUME NEW k \in PacketSizes, WriteBatch(k) \/ WriteBatchFails(k) PROVE RingTypes' /\ OwedInv'
  BY <1>1, <1>2 DEF WriteBatch, WriteBatchFails, RingTypes
<1>3. ASSUME NEW p \in inFlight, Lose(p) PROVE RingTypes' /\ OwedInv'
  BY <1>1, <1>3 DEF Lose, RingTypes
<1>4. ASSUME NEW p \in inFlight, Receive(p) PROVE RingTypes' /\ OwedInv'
  <2>1. filling' \in Seq(Int)
    BY <1>4 DEF Receive, StreamTypes, Packets
  <2> QED BY <1>1, <1>4, <2>1 DEF Receive
<1>5. CASE UNCHANGED udpVars
  BY <1>1, <1>5 DEF RingTypes
<1> QED BY <1>2, <1>3, <1>4, <1>5, StoreKeeps, ReadKeeps, HandOverKeeps DEF UdpNext, Network

LEMMA OwedDelivered == ASSUME RingTypes, OwedInv PROVE RingDelivers
<1>1. /\ RxFill \in Nat /\ Len(batch) \in Nat /\ Len(owed) = Len(batch) + RxFill
      /\ batch \in Seq(Int) /\ owed \in Seq(Int)
  BY FilledSlots, LenProperties, UdpAssumption DEF RingTypes, OwedInv
<1>2. \A i \in 1..RxFill : rxRing[(rxRead + i - 1) % RxCapacity] \in Int
  BY FilledSlots DEF RingTypes
<1>3. RxContent \in Seq(Int) /\ Len(RxContent) = RxFill
      /\ \A i \in 1..RxFill : RxContent[i] = rxRing[(rxRead + i - 1) % RxCapacity]
  <2> DEFINE e(i) == rxRing[(rxRead + i - 1) % RxCapacity]
  <2>1. RxContent = [i \in 1..RxFill |-> e(i)] /\ \A i \in 1..RxFill : e(i) \in Int
    BY <1>2 DEF RxContent
  <2> HIDE DEF e
  <2>2. RxContent \in Seq(Int) /\ Len(RxContent) = RxFill /\ \A i \in 1..RxFill : RxContent[i] = e(i)
    BY <1>1, <2>1
  <2> QED BY <2>2 DEF e
<1>4. /\ batch \o RxContent \in Seq(Int) /\ Len(batch \o RxContent) = Len(owed)
      /\ \A i \in 1..Len(owed) : (batch \o RxContent)[i] = IF i <= Len(batch) THEN batch[i] ELSE RxContent[i - Len(batch)]
  BY <1>1, <1>3, ConcatProperties
<1>5. ASSUME NEW i \in 1..Len(owed) PROVE (batch \o RxContent)[i] = owed[i]
  <2>1. CASE i <= Len(batch)
    BY <1>1, <1>4, <2>1 DEF OwedInv
  <2>2. CASE i > Len(batch)
    <3>1. i - Len(batch) \in 1..RxFill /\ Len(batch) + (i - Len(batch)) = i
      BY <1>1, <2>2
    <3>2. owed[Len(batch) + (i - Len(batch))] = RxContent[i - Len(batch)]
      BY <1>3, <3>1 DEF OwedInv
    <3> QED BY <1>1, <1>4, <2>2, <3>1, <3>2
  <2>3. i <= Len(batch) \/ i > Len(batch)
    BY <1>1
  <2> QED BY <2>1, <2>2, <2>3
<1> QED BY <1>1, <1>4, <1>5, SeqEqual DEF RingDelivers

\* The types of the data plane, what the gaps have been charged for, and where each frame that is
\* owed is: inductive, for every modulus, ring, batch and packet size and any number of losses,
\* repeats and failed sends (UDPStreamClient.cpp receiveLoop(), TwinConn.cpp pollFrames()).
THEOREM StreamInvariant == UdpSpec => []StreamInv
<1>1. UdpInit => StreamInv
  BY LossStarts, RingStarts DEF StreamInv
<1>2. StreamInv /\ [UdpNext]_udpVars => StreamInv'
  BY LossKept, RingKept DEF StreamInv, LossInv
<1> QED BY <1>1, <1>2, PTL DEF UdpSpec

\* No packet is lost without frames counted as dropped, and the ring between the receive thread and
\* the DSP thread delivers what was stored, in order (UDPStreamClient.cpp, TwinConn.cpp).
THEOREM StreamAlwaysAccounted == UdpSpec => []StreamAccounted
<1>1. StreamInv => StreamAccounted
  BY OwedDelivered DEF StreamInv, LossInv, StreamAccounted
<1> QED BY <1>1, StreamInvariant, PTL

----------------------------------------------------------------------------
(* AppSession: the connection the program believes in.                     *)

SessionTypes ==
  /\ ui \in {"init", "frame", "control", "stream", "version", "receive", "incompatible", "quit", "gone"}
  /\ tornBy \in [Threads -> {"out", "stop", "join", "close"}]
  /\ shutdownPosted \in BOOLEAN /\ twinConnected \in BOOLEAN /\ overlapped \in BOOLEAN
  /\ connected \in BOOLEAN /\ receiving \in BOOLEAN /\ stopRequested \in BOOLEAN
  /\ control \in {"none", "open", "closed"} /\ stream \in {"none", "open", "closed"}
  /\ dspThread \in {"none", "running", "ended"}

\* The DSP thread is there while receiving says so; who tears down has joined it before closing.
JoinInv ==
  /\ receiving <=> dspThread # "none"
  /\ tornBy["ui"] # "out" => ui \in {"incompatible", "gone"}
  /\ ui = "gone" => tornBy["command"] = "out"
  /\ ui = "gone" /\ tornBy["ui"] \in {"close", "out"} => ~receiving

\* Nothing tears the connection down, or is going to.
Undisturbed == ~shutdownPosted /\ tornBy["command"] = "out"

\* What connecting and disconnecting are in the middle of, if they have not overlapped.
PhaseInv ==
  ~overlapped =>
    /\ Undisturbed /\ ui \in {"init", "frame", "control", "stream"} =>
         /\ twinConnected = connected /\ receiving = connected
         /\ connected => control = "open" /\ stream = "open" /\ dspThread = "running" /\ ~stopRequested
    /\ ui \in {"control", "stream"} => ~connected /\ Undisturbed
    /\ ui = "stream" => control = "open"
    /\ ui \in {"version", "receive"} =>
         /\ Undisturbed /\ connected /\ control = "open" /\ stream = "open"
         /\ receiving => dspThread = "running" /\ ~stopRequested
         /\ twinConnected => receiving
    /\ ui = "incompatible" =>
         /\ Undisturbed /\ (tornBy["ui"] = "close" => ~receiving)
         /\ tornBy["ui"] = "out" => ~receiving /\ ~connected
    /\ ~Undisturbed => ~twinConnected /\ ui \in {"frame", "quit"}
    /\ tornBy["command"] = "close" => ~receiving

ConnectionInv == SessionTypes /\ JoinInv /\ PhaseInv

LEMMA SessionStarts == ASSUME SessionInit PROVE ConnectionInv
BY DEF SessionInit, NotTorn, Threads, ConnectionInv, SessionTypes, JoinInv, PhaseInv, Undisturbed

LEMMA SessionTypesKept == ASSUME SessionTypes, [SessionNext]_sessionVars PROVE SessionTypes'
<1> USE DEF sessionVars, flags, sockets
<1>1. CASE Startup
  BY <1>1 DEF Startup, SessionTypes
<1>2. CASE Connect
  BY <1>2 DEF Connect, SessionTypes
<1>3. CASE ConnectControl
  BY <1>3 DEF ConnectControl, SessionTypes
<1>4. CASE ConnectStream
  BY <1>4 DEF ConnectStream, SessionTypes
<1>5. CASE CheckVersion
  BY <1>5 DEF CheckVersion, SessionTypes
<1>6. CASE Incompatible
  BY <1>6 DEF Incompatible, SessionTypes
<1>7. CASE StartReceiving
  BY <1>7 DEF StartReceiving, SessionTypes
<1>8. CASE Disconnect
  BY <1>8 DEF Disconnect, SessionTypes
<1>9. CASE TakeShutdown
  <2>1. tornBy' \in [Threads -> {"out", "stop", "join", "close"}]
    BY <1>9 DEF TakeShutdown, SessionTypes
  <2>2. shutdownPosted' \in BOOLEAN /\ UNCHANGED <<ui, twinConnected, flags, sockets, dspThread, overlapped>>
    BY <1>9 DEF TakeShutdown
  <2> QED BY <2>1, <2>2 DEF SessionTypes
<1>10. CASE LoopEnds
  BY <1>10 DEF LoopEnds, SessionTypes
<1>11. CASE Leave
  BY <1>11 DEF Leave, SessionTypes
<1>12. CASE Shutdown
  BY <1>12 DEF Shutdown, SessionTypes
<1>13. CASE Destroy
  BY <1>13 DEF Destroy, SessionTypes
<1>14. ASSUME NEW t \in Threads, AskStop(t) PROVE SessionTypes'
  <2>1. stopRequested' \in BOOLEAN
    BY <1>14 DEF AskStop, SessionTypes
  <2>2. tornBy' \in [Threads -> {"out", "stop", "join", "close"}]
    BY <1>14 DEF AskStop, SessionTypes
  <2> QED BY <1>14, <2>1, <2>2 DEF AskStop, SessionTypes
<1>15. ASSUME NEW t \in Threads, Join(t) PROVE SessionTypes'
  BY <1>15 DEF Join, SessionTypes
<1>16. ASSUME NEW t \in Threads, Close(t) PROVE SessionTypes'
  BY <1>16 DEF Close, SessionTypes
<1>17. CASE UNCHANGED sessionVars
  BY <1>17 DEF SessionTypes
<1> QED BY <1>1, <1>2, <1>3, <1>4, <1>5, <1>6, <1>7, <1>8, <1>9, <1>10, <1>11, <1>12, <1>13, <1>14,
           <1>15, <1>16, <1>17 DEF SessionNext

LEMMA JoinKept == ASSUME SessionTypes, JoinInv, [SessionNext]_sessionVars PROVE JoinInv'
<1> USE DEF sessionVars, flags, sockets, Threads
<1>1. CASE Startup \/ Connect \/ ConnectControl \/ ConnectStream
  BY <1>1 DEF Startup, Connect, ConnectControl, ConnectStream, SessionTypes, JoinInv
<1>2. CASE CheckVersion \/ Incompatible
  BY <1>2 DEF CheckVersion, Incompatible, SessionTypes, JoinInv
<1>3. CASE StartReceiving
  BY <1>3 DEF StartReceiving, SessionTypes, JoinInv
<1>4. CASE Disconnect \/ TakeShutdown \/ LoopEnds \/ Leave
  BY <1>4 DEF Disconnect, TakeShutdown, LoopEnds, Leave, SessionTypes, JoinInv
<1>5. CASE Shutdown \/ Destroy
  BY <1>5 DEF Shutdown, Destroy, SessionTypes, JoinInv
<1>6. ASSUME NEW t \in Threads, AskStop(t) PROVE JoinInv'
  BY <1>6 DEF AskStop, SessionTypes, JoinInv
<1>7. ASSUME NEW t \in Threads, Join(t) PROVE JoinInv'
  BY <1>7 DEF Join, SessionTypes, JoinInv
<1>8. ASSUME NEW t \in Threads, Close(t) PROVE JoinInv'
  BY <1>8 DEF Close, SessionTypes, JoinInv
<1>9. CASE UNCHANGED sessionVars
  BY <1>9 DEF JoinInv
<1> QED BY <1>1, <1>2, <1>3, <1>4, <1>5, <1>6, <1>7, <1>8, <1>9 DEF SessionNext

LEMMA PhaseKept == ASSUME SessionTypes, JoinInv, PhaseInv, [SessionNext]_sessionVars PROVE PhaseInv'
<1> USE DEF sessionVars, flags, sockets, Threads
<1>1. CASE Startup
  BY <1>1 DEF Startup, SessionTypes, JoinInv, PhaseInv, Undisturbed
<1>2. CASE Connect
  BY <1>2 DEF Connect, SessionTypes, JoinInv, PhaseInv, Undisturbed
<1>3. CASE ConnectControl
  BY <1>3 DEF ConnectControl, SessionTypes, JoinInv, PhaseInv, Undisturbed
<1>4. CASE ConnectStream
  BY <1>4 DEF ConnectStream, SessionTypes, JoinInv, PhaseInv, Undisturbed
<1>5. CASE CheckVersion
  BY <1>5 DEF CheckVersion, SessionTypes, JoinInv, PhaseInv, Undisturbed
<1>6. CASE Incompatible
  BY <1>6 DEF Incompatible, SessionTypes, JoinInv, PhaseInv, Undisturbed
<1>7. CASE StartReceiving
  BY <1>7 DEF StartReceiving, SessionTypes, JoinInv, PhaseInv, Undisturbed
<1>8. CASE Disconnect
  BY <1>8 DEF Disconnect, SessionTypes, JoinInv, PhaseInv, Undisturbed
<1>9. CASE TakeShutdown
  BY <1>9 DEF TakeShutdown, SessionTypes, JoinInv, PhaseInv, Undisturbed
<1>10. CASE LoopEnds
  BY <1>10 DEF LoopEnds, SessionTypes, JoinInv, PhaseInv, Undisturbed
<1>11. CASE Leave
  BY <1>11 DEF Leave, SessionTypes, JoinInv, PhaseInv, Undisturbed
<1>12. CASE Shutdown
  BY <1>12 DEF Shutdown, SessionTypes, JoinInv, PhaseInv, Undisturbed
<1>13. CASE Destroy
  BY <1>13 DEF Destroy, SessionTypes, JoinInv, PhaseInv, Undisturbed
<1>14. ASSUME NEW t \in Threads, AskStop(t) PROVE PhaseInv'
  BY <1>14 DEF AskStop, SessionTypes, JoinInv, PhaseInv, Undisturbed
<1>15. ASSUME NEW t \in Threads, Join(t) PROVE PhaseInv'
  BY <1>15 DEF Join, SessionTypes, JoinInv, PhaseInv, Undisturbed
<1>16. ASSUME NEW t \in Threads, Close(t) PROVE PhaseInv'
  BY <1>16 DEF Close, SessionTypes, JoinInv, PhaseInv, Undisturbed
<1>17. CASE UNCHANGED sessionVars
  BY <1>17 DEF PhaseInv, Undisturbed
<1> QED BY <1>1, <1>2, <1>3, <1>4, <1>5, <1>6, <1>7, <1>8, <1>9, <1>10, <1>11, <1>12, <1>13, <1>14,
           <1>15, <1>16, <1>17 DEF SessionNext

\* Where connecting and tearing down are, by the flags and sockets they leave behind, whichever
\* thread runs them (GUIEngine.cpp's connect and shutdown commands, TwinConn.cpp).
THEOREM ConnectionInvariant == SessionSpec => []ConnectionInv
<1>1. SessionInit => ConnectionInv
  BY SessionStarts
<1>2. ConnectionInv /\ [SessionNext]_sessionVars => ConnectionInv'
  BY SessionTypesKept, JoinKept, PhaseKept DEF ConnectionInv
<1> QED BY <1>1, <1>2, PTL DEF SessionSpec

\* A connection the UI believes in is up, and no DSP thread is left over by a shutdown
\* (TwinConn.cpp shutdown(), run by the UI thread, the command thread and the destructor).
THEOREM ConnectionIsThere == SessionSpec => []SessionSound
<1>1. ConnectionInv => SessionSound
  BY DEF ConnectionInv, SessionTypes, JoinInv, PhaseInv, Undisturbed, SessionSound, ConnectedMeansUp, NoLostReceiver
<1> QED BY <1>1, ConnectionInvariant, PTL

----------------------------------------------------------------------------
(* AudioBuffer: no sample is played twice.                                 *)

Positions == 0..AudioCapacity-1
Storing == {"storeDirect", "storeSkip", "storeExtra", "storeStretch"}
Playing == {"playDirect", "playSkip"}

AudioTypes ==
  /\ slot \in [Positions -> {"fresh", "played"}]
  /\ writePos \in Positions /\ readPos \in Positions
  /\ writer \in [at : {"idle", "full", "advance", "store", "check", "end"}, w : Positions, r : Positions]
  /\ reader \in [at : {"idle", "enter", "entered", "empty", "choose", "chosen", "stretch", "measured",
                       "stretchFrom", "skip", "direct", "catchUp", "caught", "extra"} \cup Playing \cup Storing,
                 r : Positions, left : Int]
  /\ clearer \in [at : {"idle", "loaded", "stored"}, w : Positions]
  /\ loose \in BOOLEAN

\* What is between a position and the write position has not been played.
FreshIn(s, w, r) ==
  \A p \in Positions : (p - r) % AudioCapacity < (w - r) % AudioCapacity => s[p] = "fresh"
FreshFrom(r) == FreshIn(slot, writePos, r)

\* While no interleaving of PlaysOnce's has happened: whatever position the callback or clear() is
\* about to store or to play from, what follows it is fresh; and what the callback has found in the
\* ring is there.
FreshInv ==
  /\ writer.at \in {"full", "advance", "store"} => writer.w = writePos
  /\ ~replayed
  /\ ~loose =>
       /\ reader.at \notin Storing => FreshFrom(readPos) /\ (clearer.at = "loaded" => FreshFrom(clearer.w))
       /\ reader.at \in Playing \cup {"storeStretch"} => FreshFrom(reader.r)
       /\ reader.at \in Storing \ {"storeStretch"} => FreshFrom(NextPos(reader.r))
       /\ reader.at \in {"caught", "measured"} => reader.r = readPos
       /\ reader.at = "extra" => readPos # writePos
       /\ reader.at = "stretchFrom" => reader.left >= 2 /\ reader.left <= Available

AudioInv == AudioTypes /\ FreshInv

\* Positions on the ring, next to one another, apart and some steps on.
LEMMA RingNext ==
  ASSUME NEW p \in Positions
  PROVE  NextPos(p) = (IF p = AudioCapacity - 1 THEN 0 ELSE p + 1) /\ NextPos(p) \in Positions
<1>1. AudioCapacity \in Nat \ {0} /\ p \in 0 .. AudioCapacity - 1
  BY AudioAssumption DEF Positions
<1> QED BY <1>1, ModNext DEF NextPos, Positions

LEMMA RingApart ==
  ASSUME NEW a \in Positions, NEW b \in Positions
  PROVE  (a - b) % AudioCapacity = IF a >= b THEN a - b ELSE a - b + AudioCapacity
<1>1. AudioCapacity \in Nat \ {0} /\ a \in 0 .. AudioCapacity - 1 /\ b \in 0 .. AudioCapacity - 1
  BY AudioAssumption DEF Positions
<1> QED BY <1>1, ModApart

LEMMA RingAdd ==
  ASSUME NEW a \in Positions, NEW k \in Positions
  PROVE  /\ (a + k) % AudioCapacity = IF a + k < AudioCapacity THEN a + k ELSE a + k - AudioCapacity
         /\ (a + k) % AudioCapacity \in Positions
<1>1. AudioCapacity \in Nat \ {0} /\ a \in 0 .. AudioCapacity - 1 /\ k \in 0 .. AudioCapacity - 1
  BY AudioAssumption DEF Positions
<1> QED BY <1>1, ModWrap DEF Positions

\* A sample stored at the write position is fresh too.
LEMMA FreshStored ==
  ASSUME NEW s \in [Positions -> {"fresh", "played"}], NEW w \in Positions, NEW r \in Positions,
         FreshIn(s, w, r)
  PROVE  FreshIn([s EXCEPT ![w] = "fresh"], NextPos(w), r)
<1> DEFINE v == NextPos(w)
<1>1. AudioCapacity \in Nat \ {0} /\ v \in Positions /\ v = IF w = AudioCapacity - 1 THEN 0 ELSE w + 1
  BY AudioAssumption, RingNext
<1> HIDE DEF v
<1>2. ASSUME NEW p \in Positions, (p - r) % AudioCapacity < (v - r) % AudioCapacity
      PROVE  [s EXCEPT ![w] = "fresh"][p] = "fresh"
  <2>1. /\ (p - r) % AudioCapacity = IF p >= r THEN p - r ELSE p - r + AudioCapacity
        /\ (w - r) % AudioCapacity = IF w >= r THEN w - r ELSE w - r + AudioCapacity
        /\ (v - r) % AudioCapacity = IF v >= r THEN v - r ELSE v - r + AudioCapacity
    BY <1>1, RingApart
  <2>2. p = w \/ (p - r) % AudioCapacity < (w - r) % AudioCapacity
    BY <1>1, <1>2, <2>1 DEF Positions
  <2> QED BY <2>2 DEF FreshIn
<1> QED BY <1>2 DEF FreshIn, v

\* The first of what is fresh may be played or left out: the rest is fresh.
LEMMA FreshBeyond ==
  ASSUME NEW s \in [Positions -> {"fresh", "played"}], NEW w \in Positions, NEW r \in Positions,
         FreshIn(s, w, r), r # w
  PROVE  s[r] = "fresh" /\ FreshIn(s, w, NextPos(r)) /\ FreshIn([s EXCEPT ![r] = "played"], w, NextPos(r))
<1> DEFINE n == NextPos(r)
<1>1. AudioCapacity \in Nat \ {0} /\ n \in Positions /\ n = IF r = AudioCapacity - 1 THEN 0 ELSE r + 1
  BY AudioAssumption, RingNext
<1> HIDE DEF n
<1>2. /\ (r - r) % AudioCapacity = IF r >= r THEN r - r ELSE r - r + AudioCapacity
      /\ (w - r) % AudioCapacity = IF w >= r THEN w - r ELSE w - r + AudioCapacity
  BY RingApart
<1>3. (r - r) % AudioCapacity < (w - r) % AudioCapacity
  BY <1>1, <1>2 DEF Positions
<1>4. s[r] = "fresh"
  BY <1>3 DEF FreshIn
<1>5. ASSUME NEW p \in Positions, (p - n) % AudioCapacity < (w - n) % AudioCapacity
      PROVE  s[p] = "fresh" /\ [s EXCEPT ![r] = "played"][p] = "fresh"
  <2>1. /\ (p - r) % AudioCapacity = IF p >= r THEN p - r ELSE p - r + AudioCapacity
        /\ (p - n) % AudioCapacity = IF p >= n THEN p - n ELSE p - n + AudioCapacity
        /\ (w - n) % AudioCapacity = IF w >= n THEN w - n ELSE w - n + AudioCapacity
    BY <1>1, RingApart
  <2>2. p # r /\ (p - r) % AudioCapacity < (w - r) % AudioCapacity
    BY <1>1, <1>2, <1>5, <2>1 DEF Positions
  <2> QED BY <2>2 DEF FreshIn
<1> QED BY <1>4, <1>5 DEF FreshIn, n

\* Nothing lies between a position and itself.
LEMMA FreshNone ==
  ASSUME NEW s \in [Positions -> {"fresh", "played"}], NEW w \in Positions
  PROVE  FreshIn(s, w, w)
<1>1. AudioCapacity \in Nat \ {0}
  BY AudioAssumption
<1>2. (w - w) % AudioCapacity = IF w >= w THEN w - w ELSE w - w + AudioCapacity
  BY RingApart
<1>3. ASSUME NEW p \in Positions PROVE ~(p - w) % AudioCapacity < (w - w) % AudioCapacity
  <2>1. (p - w) % AudioCapacity = IF p >= w THEN p - w ELSE p - w + AudioCapacity
    BY RingApart
  <2> QED BY <1>1, <1>2, <2>1 DEF Positions
<1> QED BY <1>3 DEF FreshIn

\* A stretch plays the first k of what there is, and leaves some.
Passed(r, k) == {(r + i) % AudioCapacity : i \in 0..k-1}
LEMMA FreshStretched ==
  ASSUME NEW s \in [Positions -> {"fresh", "played"}], NEW w \in Positions, NEW r \in Positions,
         FreshIn(s, w, r), NEW found \in Int, found >= 2, found <= (w - r) % AudioCapacity,
         NEW k \in Consumed(found)
  PROVE  /\ \A p \in Passed(r, k) : s[p] = "fresh"
         /\ (r + k) % AudioCapacity \in Positions
         /\ FreshIn([p \in DOMAIN s |-> IF p \in Passed(r, k) THEN "played" ELSE s[p]], w, (r + k) % AudioCapacity)
<1> DEFINE n == (r + k) % AudioCapacity
           avail == (w - r) % AudioCapacity
<1>1. AudioCapacity \in Nat \ {0} /\ CallbackSize \in Nat \ {0}
  BY AudioAssumption
<1>2. avail = (IF w >= r THEN w - r ELSE w - r + AudioCapacity) /\ avail >= found
  BY RingApart
<1> HIDE DEF avail
<1>3. avail \in Positions /\ k \in Nat /\ k <= avail - 1 /\ k \in Positions
  <2>1. k \in Nat /\ k <= found - 1
    BY <1>1 DEF Consumed
  <2>2. avail \in Positions
    BY <1>1, <1>2 DEF Positions
  <2> QED BY <1>1, <1>2, <2>1, <2>2 DEF Positions
<1>4. n = (IF r + k < AudioCapacity THEN r + k ELSE r + k - AudioCapacity) /\ n \in Positions
  BY <1>3, RingAdd
<1> HIDE DEF n
<1>5. (w - n) % AudioCapacity = IF w >= n THEN w - n ELSE w - n + AudioCapacity
  BY <1>4, RingApart
<1>6. ASSUME NEW i \in 0..k-1
      PROVE  /\ s[(r + i) % AudioCapacity] = "fresh"
             /\ ~(((r + i) % AudioCapacity) - n) % AudioCapacity < (w - n) % AudioCapacity
  <2> DEFINE p == (r + i) % AudioCapacity
  <2>1. i \in Positions
    BY <1>1, <1>3, <1>6 DEF Positions
  <2>2. p = (IF r + i < AudioCapacity THEN r + i ELSE r + i - AudioCapacity) /\ p \in Positions
    BY <2>1, RingAdd
  <2> HIDE DEF p
  <2>3. /\ (p - r) % AudioCapacity = IF p >= r THEN p - r ELSE p - r + AudioCapacity
        /\ (p - n) % AudioCapacity = IF p >= n THEN p - n ELSE p - n + AudioCapacity
    BY <1>4, <2>2, RingApart
  <2>4. (p - r) % AudioCapacity < avail
    BY <1>1, <1>2, <1>3, <1>6, <2>1, <2>2, <2>3 DEF Positions
  <2>5. s[p] = "fresh"
    BY <2>2, <2>4 DEF FreshIn, avail
  <2>6. ~(p - n) % AudioCapacity < (w - n) % AudioCapacity
    BY <1>1, <1>2, <1>3, <1>4, <1>5, <1>6, <2>1, <2>2, <2>3 DEF Positions
  <2> QED BY <2>5, <2>6 DEF p
<1>7. ASSUME NEW p \in Positions, (p - n) % AudioCapacity < (w - n) % AudioCapacity
      PROVE  p \notin Passed(r, k) /\ s[p] = "fresh"
  <2>1. p \notin Passed(r, k)
    BY <1>6, <1>7 DEF Passed
  <2>2. /\ (p - r) % AudioCapacity = IF p >= r THEN p - r ELSE p - r + AudioCapacity
        /\ (p - n) % AudioCapacity = IF p >= n THEN p - n ELSE p - n + AudioCapacity
    BY <1>4, RingApart
  <2>3. (p - r) % AudioCapacity < avail
    <3>1. p \in Positions /\ r \in Positions /\ w \in Positions
      OBVIOUS
    <3>2. avail = IF w >= r THEN w - r ELSE w - r + AudioCapacity
      BY <1>2
    <3>3. k \in Nat /\ k <= avail - 1 /\ avail \in Int
      BY <1>3 DEF Positions
    <3> HIDE DEF Consumed
    <3>4. CASE w >= r
      BY <1>1, <1>4, <1>5, <1>7, <2>2, <3>1, <3>2, <3>3, <3>4 DEF Positions
    <3>5. CASE w < r
      BY <1>1, <1>4, <1>5, <1>7, <2>2, <3>1, <3>2, <3>3, <3>5 DEF Positions
    <3> QED BY <3>1, <3>4, <3>5 DEF Positions
  <2> QED BY <2>1, <2>3 DEF FreshIn, avail
<1>8. FreshIn([p \in DOMAIN s |-> IF p \in Passed(r, k) THEN "played" ELSE s[p]], w, n)
  BY <1>7 DEF FreshIn
<1> QED BY <1>4, <1>6, <1>8 DEF n, Passed

\* Less of what is fresh is fresh, and more of the ring is found once a sample has been stored.
LEMMA FoundStored ==
  ASSUME NEW w \in Positions, NEW r \in Positions, NextPos(w) # r
  PROVE  (NextPos(w) - r) % AudioCapacity = ((w - r) % AudioCapacity) + 1
<1> DEFINE v == NextPos(w)
<1>1. AudioCapacity \in Nat \ {0} /\ v \in Positions /\ v = (IF w = AudioCapacity - 1 THEN 0 ELSE w + 1) /\ v # r
  BY AudioAssumption, RingNext
<1> HIDE DEF v
<1>2. /\ (w - r) % AudioCapacity = IF w >= r THEN w - r ELSE w - r + AudioCapacity
      /\ (v - r) % AudioCapacity = IF v >= r THEN v - r ELSE v - r + AudioCapacity
  BY <1>1, RingApart
<1> QED BY <1>1, <1>2 DEF Positions, v

\* What is found in the ring is a number, and nothing only when the positions meet.
LEMMA FoundSome ==
  ASSUME NEW w \in Positions, NEW r \in Positions
  PROVE  (w - r) % AudioCapacity \in Nat /\ ((w - r) % AudioCapacity = 0 <=> w = r)
<1>1. AudioCapacity \in Nat \ {0}
  BY AudioAssumption
<1> QED BY <1>1, RingApart DEF Positions

LEMMA AudioStarts == ASSUME AudioInit PROVE AudioInv
<1>1. AudioCapacity \in Nat \ {0} /\ 0 \in Positions
  BY AudioAssumption DEF Positions
<1>2. AudioTypes
  <2>1. slot \in [Positions -> {"fresh", "played"}]
    BY DEF AudioInit, Positions
  <2>2. /\ writer \in [at : {"idle"}, w : Positions, r : Positions]
        /\ reader \in [at : {"idle"}, r : Positions, left : Int]
        /\ clearer \in [at : {"idle"}, w : Positions]
    BY <1>1 DEF AudioInit, Idle, Resting
  <2> QED BY <1>1, <2>1, <2>2 DEF AudioInit, AudioTypes
<1>3. FreshFrom(readPos)
  BY <1>1, <1>2, FreshNone DEF AudioInit, AudioTypes, FreshFrom
<1> QED BY <1>2, <1>3 DEF AudioInit, AudioInv, FreshInv, Idle, Resting, Storing, Playing

\* The slots stay slots, whether or not they are still followed.
LEMMA FollowedSlots ==
  ASSUME NEW s \in [Positions -> {"fresh", "played"}], NEW b \in BOOLEAN
  PROVE  Followed(s, b) \in [Positions -> {"fresh", "played"}] /\ (~b => Followed(s, b) = s)
BY DEF Followed

\* What write() does to its own record, the ring and the slots.
LEMMA WriteTypes == ASSUME AudioTypes, Write PROVE AudioTypes'
<1> USE DEF audioHistory
<1>0. AudioCapacity \in Nat \ {0} /\ 0 \in Positions
  BY AudioAssumption DEF Positions
<1>1. CASE LoadForWrite
  <2>1. writer' \in [at : {"full", "store"}, w : Positions, r : Positions]
    BY <1>0, <1>1 DEF LoadForWrite, AudioTypes
  <2> QED BY <1>1, <2>1 DEF LoadForWrite, AudioTypes
<1>2. CASE DropOrOverwrite
  <2>1. writer' \in [at : {"idle", "advance"}, w : Positions, r : Positions]
    BY <1>0, <1>2 DEF DropOrOverwrite, AudioTypes, Idle
  <2> QED BY <1>2, <2>1 DEF DropOrOverwrite, AudioTypes
<1>3. CASE AdvanceReader
  <2>1. slot' \in [Positions -> {"fresh", "played"}] /\ loose' \in BOOLEAN
    BY <1>3, FollowedSlots DEF AdvanceReader, Loosens, AudioTypes
  <2>2. readPos' \in Positions /\ writer' \in [at : {"store"}, w : Positions, r : Positions]
    BY <1>0, <1>3, RingNext DEF AdvanceReader, AudioTypes
  <2> QED BY <1>3, <2>1, <2>2 DEF AdvanceReader, AudioTypes
<1>4. CASE StoreSample
  <2>1. loose' \in BOOLEAN /\ [slot EXCEPT ![writer.w] = "fresh"] \in [Positions -> {"fresh", "played"}]
    BY <1>4 DEF StoreSample, AudioTypes
  <2>2. slot' \in [Positions -> {"fresh", "played"}]
    BY <1>4, <2>1, FollowedSlots DEF StoreSample
  <2>3. writePos' \in Positions /\ writer' \in [at : {"check"}, w : Positions, r : Positions]
    BY <1>0, <1>4, RingNext DEF StoreSample, AudioTypes, Idle
  <2> QED BY <1>4, <2>1, <2>2, <2>3 DEF StoreSample, AudioTypes
<1>5. CASE CheckFill
  <2>1. writer' \in [at : {"end", "idle"}, w : Positions, r : Positions]
    BY <1>0, <1>5 DEF CheckFill, Idle
  <2> QED BY <1>5, <2>1 DEF CheckFill, AudioTypes
<1>6. CASE EndBuffering
  <2>1. writer' \in [at : {"idle"}, w : Positions, r : Positions]
    BY <1>0, <1>6 DEF EndBuffering, Idle
  <2> QED BY <1>6, <2>1 DEF EndBuffering, AudioTypes
<1> QED BY <1>1, <1>2, <1>3, <1>4, <1>5, <1>6 DEF Write

\* A store of readPos by read() or clear().
LEMMA MoveTypes ==
  ASSUME AudioTypes, NEW r \in Positions, NEW b \in BOOLEAN, MoveReadPos(r, b)
  PROVE  /\ readPos' = r /\ loose' = (loose \/ b) /\ loose' \in BOOLEAN /\ replayed' = replayed
         /\ slot' \in [Positions -> {"fresh", "played"}] /\ (~loose' => slot' = slot)
BY FollowedSlots DEF MoveReadPos, Strand, Loosens, AudioTypes

\* The fill level decides between three ways of reading.
LEMMA ChosenWay ==
  ASSUME ChooseWay
  PROVE  /\ \E a \in {"stretch", "skip", "direct"} : reader' = [reader EXCEPT !.at = a, !.r = 0]
         /\ reader.at = "chosen"
         /\ UNCHANGED <<playing, slot, writePos, readPos, isBuffering, writer, clearer, loose, replayed, stranded>>
<1>1. Way \in {"stretch", "skip", "direct"}
  BY DEF Way
<1> QED BY <1>1 DEF ChooseWay, audioHistory

\* read() between its loads.
LEMMA LookTypes ==
  ASSUME AudioTypes, Callback \/ LoadReadPos \/ Entered \/ ChooseWay \/ CatchUp \/ Measure \/ CallbackEnds
  PROVE  AudioTypes'
<1> USE DEF audioHistory
<1>0. AudioCapacity \in Nat \ {0} /\ 0 \in Positions
  BY AudioAssumption DEF Positions
<1>1. CASE Callback
  <2>1. reader' \in [at : {"enter"}, r : Positions, left : Int]
    BY <1>0, <1>1, AudioAssumption DEF Callback
  <2> QED BY <1>1, <2>1 DEF Callback, AudioTypes
<1>2. CASE LoadReadPos
  <2>1. reader' = [at |-> Loading[reader.at], r |-> readPos, left |-> reader.left]
    BY <1>2 DEF LoadReadPos, AudioTypes
  <2>2. Loading[reader.at] \in {"entered", "chosen", "playDirect", "playSkip", "caught", "storeExtra", "measured"}
    BY <1>2 DEF LoadReadPos, Loading
  <2>3. readPos \in Positions /\ reader.left \in Int
    BY DEF AudioTypes
  <2>4. reader' \in [at : {"entered", "chosen", "playDirect", "playSkip", "caught", "storeExtra", "measured"},
                     r : Positions, left : Int]
    BY <2>1, <2>2, <2>3
  <2> QED BY <1>2, <2>4 DEF LoadReadPos, AudioTypes, Playing, Storing
<1>3. CASE Entered
  <2>1. reader' \in [at : {"empty", "choose"}, r : Positions, left : Int]
    BY <1>0, <1>3 DEF Entered, AudioTypes
  <2> QED BY <1>3, <2>1 DEF Entered, AudioTypes
<1>4. CASE ChooseWay
  <2>1. PICK a \in {"stretch", "skip", "direct"} : reader' = [reader EXCEPT !.at = a, !.r = 0]
    BY <1>4, ChosenWay
  <2>2. reader' \in [at : {"stretch", "skip", "direct"}, r : Positions, left : Int]
    BY <1>0, <2>1 DEF AudioTypes
  <2> QED BY <1>4, <2>2, ChosenWay DEF AudioTypes
<1>5. CASE CatchUp
  <2>1. reader' \in [at : {"extra", "skip"}, r : Positions, left : Int]
    BY <1>0, <1>5 DEF CatchUp, AudioTypes
  <2> QED BY <1>5, <2>1 DEF CatchUp, AudioTypes
<1>6. CASE Measure
  <2>1. Found \in Int
    BY FoundSome DEF Found, AudioTypes
  <2>2. reader' \in [at : {"stretchFrom", "idle"}, r : Positions, left : Int]
    BY <1>0, <1>6, <2>1 DEF Measure, Resting
  <2> QED BY <1>6, <2>2 DEF Measure, AudioTypes
<1>7. CASE CallbackEnds
  <2>1. reader' \in [at : {"idle"}, r : Positions, left : Int]
    BY <1>0, <1>7 DEF CallbackEnds, Resting
  <2> QED BY <1>7, <2>1 DEF CallbackEnds, AudioTypes
<1> QED BY <1>1, <1>2, <1>3, <1>4, <1>5, <1>6, <1>7

\* read() where it plays, stores a position or starves.
LEMMA ReadTypes ==
  ASSUME AudioTypes, Starve \/ PlayOne \/ StoreReadPos \/ Stretch \/ StoreStretch
  PROVE  AudioTypes'
<1> USE DEF audioHistory
<1>0. AudioCapacity \in Nat \ {0} /\ 0 \in Positions /\ (clearer.at = "loaded") \in BOOLEAN
  BY AudioAssumption DEF Positions
<1>1. CASE Starve
  <2>1. reader' \in [at : {"idle"}, r : Positions, left : Int]
    BY <1>0, <1>1 DEF Starve, Resting
  <2> QED BY <1>1, <2>1 DEF Starve, BeginBuffering, Strand, AudioTypes
<1>2. CASE PlayOne
  <2>1. PICK a \in {"skip", "direct", "storeSkip", "storeDirect"}, q \in Positions :
          reader' = [at |-> a, r |-> q, left |-> reader.left - 1]
    <3>1. CASE reader.r = writePos
      BY <1>0, <1>2, <3>1 DEF PlayOne, AudioTypes
    <3>2. CASE reader.r # writePos
      BY <1>2, <3>2 DEF PlayOne, AudioTypes
    <3> QED BY <3>1, <3>2
  <2>2. reader.left - 1 \in Int
    BY DEF AudioTypes
  <2>3. reader' \in [at : {"skip", "direct", "storeSkip", "storeDirect"}, r : Positions, left : Int]
    BY <2>1, <2>2
  <2>4. slot' \in [Positions -> {"fresh", "played"}]
    BY <1>2 DEF PlayOne, AudioTypes
  <2> QED BY <1>2, <2>3, <2>4 DEF PlayOne, AudioTypes, Storing
<1>3. CASE StoreReadPos
  <2>1. NextPos(reader.r) \in Positions /\ MoveReadPos(NextPos(reader.r), clearer.at = "loaded")
    BY <1>3, RingNext DEF StoreReadPos, AudioTypes
  <2>2. readPos' \in Positions /\ loose' \in BOOLEAN /\ slot' \in [Positions -> {"fresh", "played"}]
    BY <1>0, <2>1, MoveTypes
  <2>3. reader' \in [at : {"skip", "direct", "catchUp"}, r : Positions, left : Int]
    BY <1>0, <1>3 DEF StoreReadPos, AudioTypes
  <2> QED BY <1>3, <2>2, <2>3 DEF StoreReadPos, AudioTypes
<1>4. CASE Stretch
  <2>1. PICK k \in Consumed(reader.left) :
          /\ slot' = [p \in DOMAIN slot |->
                        IF p \in {(readPos + i) % AudioCapacity : i \in 0..k-1} THEN "played" ELSE slot[p]]
          /\ reader' = [at |-> "storeStretch", r |-> (readPos + k) % AudioCapacity, left |-> 0]
    BY <1>4 DEF Stretch
  <2>2. (readPos + k) % AudioCapacity \in Positions
    <3>1. readPos \in Int /\ reader.left \in Int /\ CallbackSize \in Int
      BY AudioAssumption DEF AudioTypes, Positions
    <3>2. readPos + k \in Int
      BY <3>1 DEF Consumed
    <3> QED BY <1>0, <3>2, DivMod DEF Positions
  <2>3. slot' \in [Positions -> {"fresh", "played"}]
    BY <2>1 DEF AudioTypes
  <2>4. reader' \in [at : {"storeStretch"}, r : Positions, left : Int]
    BY <2>1, <2>2
  <2> QED BY <1>4, <2>3, <2>4 DEF Stretch, AudioTypes, Storing
<1>5. CASE StoreStretch
  <2>1. reader.r \in Positions /\ MoveReadPos(reader.r, clearer.at = "loaded")
    BY <1>5 DEF StoreStretch, AudioTypes
  <2>2. readPos' \in Positions /\ loose' \in BOOLEAN /\ slot' \in [Positions -> {"fresh", "played"}]
    BY <1>0, <2>1, MoveTypes
  <2>3. reader' \in [at : {"idle"}, r : Positions, left : Int]
    BY <1>0, <1>5 DEF StoreStretch, Resting
  <2> QED BY <1>5, <2>2, <2>3 DEF StoreStretch, AudioTypes
<1> QED BY <1>1, <1>2, <1>3, <1>4, <1>5

\* The UI thread.
LEMMA ClearTypes ==
  ASSUME AudioTypes, StartAudio \/ StopAudio \/ ClearLoads \/ Clear \/ ClearBuffers
  PROVE  AudioTypes'
<1> USE DEF audioHistory
<1>0. 0 \in Positions
  BY AudioAssumption DEF Positions
<1>1. CASE StartAudio \/ StopAudio
  BY <1>1 DEF StartAudio, StopAudio, AudioTypes
<1>2. CASE ClearLoads
  <2>1. clearer' \in [at : {"loaded"}, w : Positions]
    BY <1>2 DEF ClearLoads, AudioTypes
  <2> QED BY <1>2, <2>1 DEF ClearLoads, AudioTypes
<1>3. CASE Clear
  <2> DEFINE b == reader.at \in {"caught", "extra", "measured", "stretchFrom"}
  <2>1. clearer.w \in Positions /\ MoveReadPos(clearer.w, b) /\ b \in BOOLEAN
    BY <1>3 DEF Clear, AudioTypes
  <2> HIDE DEF b
  <2>2. readPos' \in Positions /\ loose' \in BOOLEAN /\ slot' \in [Positions -> {"fresh", "played"}]
    BY <2>1, MoveTypes
  <2>3. clearer' \in [at : {"stored"}, w : Positions]
    BY <1>0, <1>3 DEF Clear
  <2> QED BY <1>3, <2>2, <2>3 DEF Clear, AudioTypes
<1>4. CASE ClearBuffers
  <2>1. clearer' \in [at : {"idle"}, w : Positions]
    BY <1>0, <1>4 DEF ClearBuffers
  <2> QED BY <1>4, <2>1 DEF ClearBuffers, BeginBuffering, Strand, AudioTypes
<1> QED BY <1>1, <1>2, <1>3, <1>4

LEMMA AudioTypesKept == ASSUME AudioTypes, [AudioNext]_audioVars PROVE AudioTypes'
<1>1. CASE UNCHANGED audioVars
  BY <1>1 DEF audioVars, AudioTypes
<1>2. CASE Write
  BY <1>2, WriteTypes
<1>3. CASE Callback \/ LoadReadPos \/ Entered \/ ChooseWay \/ CatchUp \/ Measure \/ CallbackEnds
  BY <1>3, LookTypes
<1>4. CASE Starve \/ PlayOne \/ StoreReadPos \/ Stretch \/ StoreStretch
  BY <1>4, ReadTypes
<1>5. CASE StartAudio \/ StopAudio \/ ClearLoads \/ Clear \/ ClearBuffers
  BY <1>5, ClearTypes
<1>6. CASE AudioNext
  BY <1>2, <1>3, <1>4, <1>5, <1>6 DEF AudioNext, Read
<1> QED BY <1>1, <1>6

\* write() adds a sample at the end, and moves readPos only in one of the interleavings.
LEMMA FreshWritten == ASSUME AudioTypes, FreshInv, Write PROVE FreshInv'
<1> USE DEF audioHistory
<1>1. CASE LoadForWrite
  BY <1>1 DEF LoadForWrite, AudioTypes, FreshInv, FreshFrom, Available
<1>2. CASE DropOrOverwrite
  BY <1>2 DEF DropOrOverwrite, AudioTypes, FreshInv, FreshFrom, Available, Idle
<1>3. CASE AdvanceReader
  <2>1. loose' = TRUE /\ writer'.w = writer.w /\ writer.at = "advance"
        /\ UNCHANGED <<writePos, replayed>>
    BY <1>3 DEF AdvanceReader, Loosens, AudioTypes
  <2> QED BY <2>1 DEF FreshInv
<1>4. CASE StoreSample
  <2>1. writer.w = writePos /\ writer'.at = "check" /\ UNCHANGED <<readPos, reader, clearer, replayed>>
    BY <1>4 DEF StoreSample, FreshInv, AudioTypes, Idle
  <2>2. writePos' = NextPos(writePos) /\ loose' = (loose \/ NextPos(writePos) = readPos)
        /\ slot' = Followed([slot EXCEPT ![writePos] = "fresh"], loose')
    BY <1>4, <2>1 DEF StoreSample
  <2>3. ASSUME ~loose'
        PROVE  /\ ~loose /\ Available' = Available + 1 /\ readPos # writePos'
               /\ \A r \in Positions : FreshIn(slot, writePos, r) => FreshIn(slot', writePos', r)
    <3>1. ~loose /\ NextPos(writePos) # readPos /\ slot' = [slot EXCEPT ![writePos] = "fresh"]
      BY <2>2, <2>3 DEF Followed
    <3>2. Available' = Available + 1 /\ readPos # writePos'
      BY <2>1, <2>2, <3>1, FoundStored DEF Available, AudioTypes
    <3>3. ASSUME NEW r \in Positions, FreshIn(slot, writePos, r) PROVE FreshIn(slot', writePos', r)
      <4>1. FreshIn([slot EXCEPT ![writePos] = "fresh"], NextPos(writePos), r)
        BY <3>3, FreshStored DEF AudioTypes
      <4> QED BY <2>2, <3>1, <4>1
    <3> QED BY <3>1, <3>2, <3>3
  <2>4. /\ readPos \in Positions /\ reader.r \in Positions /\ NextPos(reader.r) \in Positions
        /\ clearer.w \in Positions /\ reader.left \in Int /\ Available \in Int
    BY RingNext, FoundSome DEF AudioTypes, Available
  <2>5. ASSUME ~loose', reader.at = "stretchFrom" PROVE reader.left >= 2 /\ reader.left <= Available'
    <3>1. ~loose /\ Available' = Available + 1
      BY <2>3, <2>5
    <3> QED BY <2>4, <2>5, <3>1 DEF FreshInv
  <2> QED BY <2>1, <2>3, <2>4, <2>5 DEF FreshInv, FreshFrom
<1>5. CASE CheckFill
  <2>1. writer'.at \in {"end", "idle"}
        /\ UNCHANGED <<slot, writePos, readPos, reader, clearer, loose, replayed>>
    BY <1>5 DEF CheckFill, Idle
  <2> QED BY <2>1 DEF FreshInv, FreshFrom, Available
<1>6. CASE EndBuffering
  <2>1. writer'.at = "idle"
        /\ UNCHANGED <<slot, writePos, readPos, reader, clearer, loose, replayed>>
    BY <1>6 DEF EndBuffering, Idle
  <2> QED BY <2>1 DEF FreshInv, FreshFrom, Available
<1> QED BY <1>1, <1>2, <1>3, <1>4, <1>5, <1>6 DEF Write

\* What read() loads is good when it is loaded.
LEMMA FreshLooked ==
  ASSUME AudioTypes, FreshInv,
         Callback \/ LoadReadPos \/ Entered \/ ChooseWay \/ CatchUp \/ Measure \/ CallbackEnds
  PROVE  FreshInv'
<1> USE DEF audioHistory
<1>0. UNCHANGED <<slot, writePos, readPos, writer, clearer, loose, replayed>>
  BY ChosenWay DEF Callback, LoadReadPos, Entered, CatchUp, Measure, CallbackEnds
<1>1. CASE Callback
  <2>1. reader'.at = "enter" /\ reader.at = "idle"
    BY <1>1 DEF Callback, Resting, AudioTypes
  <2> QED BY <1>0, <2>1 DEF FreshInv, FreshFrom, Storing, Playing
<1>6. CASE Entered
  <2>1. reader'.at \in {"empty", "choose"} /\ reader.at = "entered"
    BY <1>6 DEF Entered, AudioTypes
  <2> QED BY <1>0, <2>1 DEF FreshInv, FreshFrom, Storing, Playing
<1>7. CASE CallbackEnds
  <2>1. reader'.at = "idle" /\ reader.at \notin Storing
    BY <1>7 DEF CallbackEnds, Resting, AudioTypes, Storing
  <2> QED BY <1>0, <2>1 DEF FreshInv, FreshFrom, Storing, Playing
<1>5. CASE ChooseWay
  <2>1. PICK a \in {"stretch", "skip", "direct"} : reader' = [reader EXCEPT !.at = a, !.r = 0]
    BY <1>5, ChosenWay
  <2>2. reader'.at \in {"stretch", "skip", "direct"} /\ reader.at \notin Storing
    BY <1>5, <2>1, ChosenWay DEF AudioTypes, Storing
  <2> QED BY <1>0, <2>2 DEF FreshInv, FreshFrom, Storing, Playing
<1>2. CASE LoadReadPos
  <2>1. reader' = [at |-> Loading[reader.at], r |-> readPos, left |-> reader.left] /\ reader.at \in DOMAIN Loading
    BY <1>2 DEF LoadReadPos, AudioTypes
  <2>2. CASE reader.at = "extra"
    <3>1. reader'.at = "storeExtra" /\ reader'.r = readPos
      BY <2>1, <2>2 DEF Loading
    <3>2. ~loose => FreshIn(slot, writePos, readPos) /\ readPos # writePos
      BY <2>2 DEF FreshInv, FreshFrom, Storing
    <3>3. ~loose => FreshIn(slot, writePos, NextPos(readPos))
      BY <3>2, FreshBeyond DEF AudioTypes
    <3> QED BY <1>0, <3>1, <3>3 DEF FreshInv, FreshFrom, Storing, Playing
  <2>3. CASE reader.at # "extra"
    <3>1. /\ reader'.at \in {"entered", "chosen", "playDirect", "playSkip", "caught", "measured"}
          /\ reader'.r = readPos /\ reader.at \notin Storing
      BY <2>1, <2>3 DEF Loading, Storing
    <3> QED BY <1>0, <3>1 DEF FreshInv, FreshFrom, Storing, Playing
  <2> QED BY <2>2, <2>3
<1>3. CASE CatchUp
  <2>1. reader.at = "caught" /\ reader'.at = (IF Found > 0 THEN "extra" ELSE "skip")
    BY <1>3 DEF CatchUp, AudioTypes
  <2>2. Found > 0 => reader.r # writePos
    BY FoundSome DEF Found, AudioTypes
  <2> QED BY <1>0, <2>1, <2>2 DEF FreshInv, FreshFrom, Storing, Playing
<1>4. CASE Measure
  <2>1. reader.at = "measured" /\ reader' = (IF Found < 2 THEN Resting ELSE [at |-> "stretchFrom", r |-> 0, left |-> Found])
    BY <1>4 DEF Measure
  <2>2. Found \in Int
    BY FoundSome DEF Found, AudioTypes
  <2>3. ~loose => Found = Available
    BY <2>1 DEF FreshInv, Found, Available
  <2>4. CASE Found < 2
    BY <1>0, <2>1, <2>4 DEF FreshInv, FreshFrom, Storing, Playing, Resting
  <2>5. CASE ~(Found < 2)
    <3>1. reader'.at = "stretchFrom" /\ reader'.left = Found /\ Found >= 2
      BY <2>1, <2>2, <2>5
    <3>2. Available' = Available
      BY <1>0 DEF Available
    <3> QED BY <1>0, <2>1, <2>2, <2>3, <3>1, <3>2 DEF FreshInv, FreshFrom, Storing, Playing
  <2> QED BY <2>4, <2>5
<1> QED BY <1>1, <1>2, <1>3, <1>4, <1>5, <1>6, <1>7

\* What read() plays is fresh, and so is what follows the position it then stores.
LEMMA FreshRead ==
  ASSUME AudioTypes, FreshInv, Starve \/ PlayOne \/ StoreReadPos \/ Stretch \/ StoreStretch
  PROVE  FreshInv'
<1> USE DEF audioHistory
<1>0. (clearer.at = "loaded") \in BOOLEAN
  OBVIOUS
<1>1. CASE Starve
  <2>1. reader.at = "empty" /\ reader'.at = "idle"
        /\ UNCHANGED <<slot, writePos, readPos, writer, clearer, loose, replayed>>
    BY <1>1 DEF Starve, BeginBuffering, Strand, Resting
  <2> QED BY <2>1 DEF FreshInv, FreshFrom, Storing, Playing
<1>2. CASE PlayOne
  <2>1. CASE reader.r = writePos
    <3>1. reader.at \in Playing /\ reader'.at \in {"skip", "direct"}
          /\ UNCHANGED <<slot, writePos, readPos, writer, clearer, loose, replayed>>
      BY <1>2, <2>1 DEF PlayOne, AudioTypes, Playing
    <3> QED BY <3>1 DEF FreshInv, FreshFrom, Storing, Playing
  <2>2. CASE reader.r # writePos
    <3>1. /\ reader'.at \in {"storeSkip", "storeDirect"} /\ reader'.r = reader.r /\ reader.at \in Playing
          /\ slot' = [slot EXCEPT ![reader.r] = "played"]
          /\ replayed' = (replayed \/ (~loose /\ slot[reader.r] = "played"))
          /\ UNCHANGED <<writer, writePos, loose>>
      BY <1>2, <2>2 DEF PlayOne, AudioTypes, Playing
    <3>2. ~replayed /\ (~loose => FreshIn(slot, writePos, reader.r))
      BY <3>1 DEF FreshInv, FreshFrom
    <3>3. ~loose => slot[reader.r] = "fresh" /\ FreshIn(slot', writePos, NextPos(reader.r))
      BY <2>2, <3>1, <3>2, FreshBeyond DEF AudioTypes
    <3>4. ~replayed'
      BY <3>1, <3>2, <3>3
    <3> QED BY <3>1, <3>3, <3>4 DEF FreshInv, FreshFrom, Storing, Playing
  <2> QED BY <2>1, <2>2
<1>3. CASE StoreReadPos
  <2>1. /\ NextPos(reader.r) \in Positions /\ MoveReadPos(NextPos(reader.r), clearer.at = "loaded")
        /\ reader.at \in {"storeDirect", "storeSkip", "storeExtra"} /\ reader'.at \in {"direct", "skip", "catchUp"}
        /\ UNCHANGED <<writePos, writer, clearer>>
    BY <1>3, RingNext DEF StoreReadPos, AudioTypes
  <2>2. /\ readPos' = NextPos(reader.r) /\ loose' = (loose \/ clearer.at = "loaded") /\ replayed' = replayed
        /\ ~loose' => slot' = slot
    BY <1>0, <2>1, MoveTypes
  <2>3. ~loose' => FreshFrom(readPos)' /\ clearer'.at # "loaded"
    BY <2>1, <2>2 DEF FreshInv, FreshFrom, Storing
  <2> QED BY <2>1, <2>2, <2>3 DEF FreshInv, Storing, Playing
<1>4. CASE Stretch
  <2>1. PICK k \in Consumed(reader.left) :
          /\ slot' = [p \in DOMAIN slot |-> IF p \in Passed(readPos, k) THEN "played" ELSE slot[p]]
          /\ replayed' = (replayed \/ (~loose /\ \E p \in Passed(readPos, k) : slot[p] = "played"))
          /\ reader' = [at |-> "storeStretch", r |-> (readPos + k) % AudioCapacity, left |-> 0]
    BY <1>4 DEF Stretch, Passed
  <2>2. reader.at = "stretchFrom" /\ UNCHANGED <<writePos, writer, loose>>
    BY <1>4 DEF Stretch
  <2>3. ASSUME ~loose
        PROVE  /\ \A p \in Passed(readPos, k) : slot[p] = "fresh"
               /\ FreshIn(slot', writePos, (readPos + k) % AudioCapacity)
    <3>1. FreshIn(slot, writePos, readPos) /\ reader.left >= 2 /\ reader.left <= (writePos - readPos) % AudioCapacity
      BY <2>2, <2>3 DEF FreshInv, FreshFrom, Storing, Available
    <3>2. slot \in [Positions -> {"fresh", "played"}] /\ writePos \in Positions /\ readPos \in Positions
          /\ reader.left \in Int
      BY DEF AudioTypes
    <3> QED BY <2>1, <3>1, <3>2, FreshStretched
  <2>4. ~replayed'
    BY <2>1, <2>3 DEF FreshInv
  <2> QED BY <2>1, <2>2, <2>3, <2>4 DEF FreshInv, FreshFrom, Storing, Playing
<1>5. CASE StoreStretch
  <2>1. /\ reader.r \in Positions /\ MoveReadPos(reader.r, clearer.at = "loaded")
        /\ reader.at = "storeStretch" /\ reader'.at = "idle" /\ UNCHANGED <<writePos, writer, clearer>>
    BY <1>5 DEF StoreStretch, AudioTypes, Resting
  <2>2. /\ readPos' = reader.r /\ loose' = (loose \/ clearer.at = "loaded") /\ replayed' = replayed
        /\ ~loose' => slot' = slot
    BY <1>0, <2>1, MoveTypes
  <2>3. ~loose' => FreshFrom(readPos)' /\ clearer'.at # "loaded"
    BY <2>1, <2>2 DEF FreshInv, FreshFrom, Storing
  <2> QED BY <2>1, <2>2, <2>3 DEF FreshInv, Storing, Playing
<1> QED BY <1>1, <1>2, <1>3, <1>4, <1>5

\* clear() stores a position from which all is fresh.
LEMMA FreshCleared ==
  ASSUME AudioTypes, FreshInv, StartAudio \/ StopAudio \/ ClearLoads \/ Clear \/ ClearBuffers
  PROVE  FreshInv'
<1> USE DEF audioHistory
<1>1. CASE StartAudio \/ StopAudio
  BY <1>1 DEF StartAudio, StopAudio, FreshInv, FreshFrom, Available
<1>2. CASE ClearLoads
  <2>1. clearer'.w = writePos /\ UNCHANGED <<slot, writePos, readPos, writer, reader, loose, replayed>>
    BY <1>2 DEF ClearLoads
  <2>2. FreshIn(slot, writePos, writePos)
    BY FreshNone DEF AudioTypes
  <2> QED BY <2>1, <2>2 DEF FreshInv, FreshFrom, Available
<1>3. CASE Clear
  <2> DEFINE b == reader.at \in {"caught", "extra", "measured", "stretchFrom"}
  <2>1. /\ clearer.w \in Positions /\ MoveReadPos(clearer.w, b) /\ b \in BOOLEAN
        /\ clearer.at = "loaded" /\ clearer'.at = "stored" /\ UNCHANGED <<writePos, writer, reader>>
    BY <1>3 DEF Clear, AudioTypes
  <2>2. /\ readPos' = clearer.w /\ loose' = (loose \/ b) /\ replayed' = replayed
        /\ ~loose' => slot' = slot
    <3> HIDE DEF b
    <3> QED BY <2>1, MoveTypes
  <2>3. ~loose' => ~loose /\ ~b
    BY <2>2
  <2>4. ~loose' => (reader.at \notin Storing => FreshFrom(readPos)')
    BY <2>1, <2>2, <2>3 DEF FreshInv, FreshFrom
  <2> QED BY <2>1, <2>2, <2>3, <2>4 DEF FreshInv, FreshFrom, Storing, Playing
<1>4. CASE ClearBuffers
  <2>1. clearer'.at = "idle" /\ UNCHANGED <<slot, writePos, readPos, writer, reader, loose, replayed>>
    BY <1>4 DEF ClearBuffers, BeginBuffering, Strand
  <2> QED BY <2>1 DEF FreshInv, FreshFrom, Available
<1> QED BY <1>1, <1>2, <1>3, <1>4

LEMMA FreshKept == ASSUME AudioTypes, FreshInv, [AudioNext]_audioVars PROVE FreshInv'
<1>1. CASE UNCHANGED audioVars
  BY <1>1 DEF audioVars, FreshInv, FreshFrom, Available
<1>2. CASE Write
  BY <1>2, FreshWritten
<1>3. CASE Callback \/ LoadReadPos \/ Entered \/ ChooseWay \/ CatchUp \/ Measure \/ CallbackEnds
  BY <1>3, FreshLooked
<1>4. CASE Starve \/ PlayOne \/ StoreReadPos \/ Stretch \/ StoreStretch
  BY <1>4, FreshRead
<1>5. CASE StartAudio \/ StopAudio \/ ClearLoads \/ Clear \/ ClearBuffers
  BY <1>5, FreshCleared
<1>6. CASE AudioNext
  BY <1>2, <1>3, <1>4, <1>5, <1>6 DEF AudioNext, Read
<1> QED BY <1>1, <1>6

\* The positions stay on the ring; and but for the interleavings PlaysOnce names, every slot is fresh from
\* the read position, or the one about to be stored or played from, to the write position: for every
\* capacity, mark and callback size.
THEOREM AudioInvariant == AudioSpec => []AudioInv
<1>1. AudioInit => AudioInv
  BY AudioStarts
<1>2. AudioInv /\ [AudioNext]_audioVars => AudioInv'
  BY AudioTypesKept, FreshKept DEF AudioInv
<1> QED BY <1>1, <1>2, PTL DEF AudioSpec

\* No sample is played twice but after one of the four interleavings PlaysOnce names
\* (RateAdaptiveBuffer.hpp read(), write() and clear() on three threads).
THEOREM SamplesPlayedOnce == AudioSpec => []PlaysOnce
<1>1. AudioInv => PlaysOnce
  BY DEF AudioInv, FreshInv, PlaysOnce
<1> QED BY <1>1, AudioInvariant, PTL

----------------------------------------------------------------------------
(* HistoryRing: listening to the past.                                     *)

HistoryTypes ==
  /\ historyRing \in [0..HistoryCapacity-1 -> Nat]
  /\ historyWrite \in Nat /\ playbackRead \in Int /\ playbackActive \in BOOLEAN
  /\ dsp \in [at : {"idle", "advance", "choose", "demodulate"}, w : Nat]
  /\ uiCall \in [at : {"idle", "reset", "resetRead", "seek"}, w : Nat, offset : Nat]
  /\ frames \in Nat /\ retunedAt \in Nat /\ raced \in BOOLEAN

\* The frames recorded since the latest reset, and which of them the ring still holds.
SinceRetune == frames - retunedAt
RingHolds ==
  \A p \in Nat : p < SinceRetune /\ p >= SinceRetune - HistoryCapacity
                   => historyRing[SlotOf(p)] = retunedAt + p + 1

\* Unless a call has come between a load and its use: where the write position is, what the
\* ring holds, and that playback is not yet overtaken by the recording.
PositionInv ==
  ~raced =>
    /\ SinceRetune = historyWrite + (IF dsp.at = "advance" THEN 1 ELSE 0)
    /\ dsp.at = "advance" => dsp.w = historyWrite
    /\ dsp.at = "choose" => dsp.w = historyWrite - 1
    /\ playbackActive =>
         /\ uiCall.at \notin {"reset", "resetRead"}
         /\ playbackRead >= 0
         /\ playbackRead >= (IF dsp.at = "choose" THEN historyWrite - 1 ELSE historyWrite)
                              - (HistoryCapacity - 1)
    /\ uiCall.at = "seek" => uiCall.offset <= uiCall.w /\ uiCall.offset <= HistoryCapacity - 1
    /\ RingHolds
    /\ PlaybackIsRight

HistoryInv == HistoryTypes /\ PositionInv

LEMMA HistoryStarts == ASSUME HistoryInit PROVE HistoryInv
<1>1. HistoryTypes
  <2>1. historyRing \in [0..HistoryCapacity-1 -> Nat]
    BY DEF HistoryInit
  <2>2. /\ dsp \in [at : {"idle", "advance", "choose", "demodulate"}, w : Nat]
        /\ uiCall \in [at : {"idle", "reset", "resetRead", "seek"}, w : Nat, offset : Nat]
    BY DEF HistoryInit
  <2>3. playbackActive \in BOOLEAN /\ raced \in BOOLEAN
    BY DEF HistoryInit
  <2>4. historyWrite \in Nat /\ playbackRead \in Int /\ frames \in Nat /\ retunedAt \in Nat
    BY DEF HistoryInit
  <2> QED BY <2>1, <2>2, <2>3, <2>4 DEF HistoryTypes
<1>2. PositionInv
  BY HistoryAssumption DEF HistoryInit, PositionInv, RingHolds, SinceRetune, PlaybackIsRight
<1> QED BY <1>1, <1>2 DEF HistoryInv

\* The positions within one length of the ring have slots of their own.
LEMMA HistorySlots ==
  ASSUME NEW p \in Nat, NEW n \in Nat, p < n, p >= n + 1 - HistoryCapacity
  PROVE  SlotOf(p) # SlotOf(n) /\ SlotOf(p) \in 0..HistoryCapacity-1 /\ SlotOf(n) \in 0..HistoryCapacity-1
<1>1. HistoryCapacity \in Nat \ {0} /\ p \in Int /\ n \in Int /\ n - p < HistoryCapacity
  BY HistoryAssumption
<1>2. p % HistoryCapacity # n % HistoryCapacity
  BY <1>1, ModDistinct
<1> QED BY <1>1, <1>2, DivMod DEF SlotOf

LEMMA SlotInRing == \A p \in Nat : SlotOf(p) \in 0..HistoryCapacity-1
<1> TAKE p \in Nat
<1>1. p \in Int /\ HistoryCapacity \in Nat \ {0}
  BY HistoryAssumption
<1> QED BY <1>1, DivMod DEF SlotOf

LEMMA HistoryTypesKept == ASSUME HistoryTypes, [HistoryNext]_historyVars PROVE HistoryTypes'
<1> USE HistoryAssumption DEF historyVars
<1>1. CASE Record
  <2>1. frames' \in Nat /\ historyRing' = [historyRing EXCEPT ![SlotOf(historyWrite)] = frames']
    BY <1>1 DEF Record, HistoryTypes
  <2>2. historyRing' \in [0..HistoryCapacity-1 -> Nat]
    BY <2>1 DEF HistoryTypes
  <2> QED BY <1>1, <2>1, <2>2 DEF Record, HistoryTypes
<1>2. CASE Advance
  BY <1>2 DEF Advance, HistoryTypes
<1>3. CASE Choose
  <2>1. playbackRead' \in Int
    BY <1>3 DEF Choose, HistoryTypes
  <2>3. playbackActive' \in BOOLEAN
    <3>1. playbackActive' = playbackActive \/ playbackActive' = FALSE
      BY <1>3 DEF Choose
    <3> QED BY <3>1 DEF HistoryTypes
  <2>2. dsp' \in [at : {"idle", "advance", "choose", "demodulate"}, w : Nat]
    BY <1>3 DEF Choose, HistoryTypes
  <2> QED BY <1>3, <2>1, <2>2, <2>3 DEF Choose, HistoryTypes
<1>4. CASE Demodulate
  BY <1>4 DEF Demodulate, HistoryTypes
<1>5. CASE Retune
  BY <1>5 DEF Retune, HistoryTypes
<1>6. CASE ResetWrite
  BY <1>6 DEF ResetWrite, HistoryTypes
<1>7. CASE ResetRead
  BY <1>7 DEF ResetRead, HistoryTypes
<1>8. ASSUME NEW offset \in 1..HistoryCapacity, Seek(offset) PROVE HistoryTypes'
  BY <1>8 DEF Seek, HistoryTypes, Recorded, Smaller
<1>9. CASE SeekDone
  BY <1>9 DEF SeekDone, HistoryTypes
<1>10. CASE Stop
  BY <1>10 DEF Stop, HistoryTypes
<1>11. CASE UNCHANGED historyVars
  BY <1>11 DEF HistoryTypes
<1> QED BY <1>1, <1>2, <1>3, <1>4, <1>5, <1>6, <1>7, <1>8, <1>9, <1>10, <1>11 DEF HistoryNext

LEMMA PositionKept == ASSUME HistoryTypes, PositionInv, [HistoryNext]_historyVars PROVE PositionInv'
<1> USE HistoryAssumption DEF historyVars
<1>1. CASE Record
  <2>1. RingHolds' \/ raced
    <3> SUFFICES ASSUME ~raced PROVE RingHolds'
      OBVIOUS
    <3>1. /\ historyWrite = SinceRetune /\ SinceRetune' = SinceRetune + 1 /\ retunedAt' = retunedAt
          /\ historyRing' = [historyRing EXCEPT ![SlotOf(historyWrite)] = frames + 1]
          /\ historyWrite \in Nat /\ frames = retunedAt + historyWrite
      BY <1>1 DEF Record, PositionInv, SinceRetune, HistoryTypes
    <3> SUFFICES ASSUME NEW p \in Nat, p < historyWrite + 1, p >= historyWrite + 1 - HistoryCapacity
                 PROVE  historyRing'[SlotOf(p)] = retunedAt + p + 1
      BY <3>1 DEF RingHolds
    <3>2. CASE p = historyWrite
      BY <3>1, <3>2, SlotInRing DEF HistoryTypes
    <3>3. CASE p < historyWrite
      <4>1. historyRing'[SlotOf(p)] = historyRing[SlotOf(p)]
        BY <3>1, <3>3, HistorySlots DEF HistoryTypes
      <4>2. historyRing[SlotOf(p)] = retunedAt + p + 1
        BY <3>1, <3>3 DEF PositionInv, RingHolds
      <4> QED BY <4>1, <4>2
    <3> QED BY <3>1, <3>2, <3>3
  <2>2. SinceRetune' = SinceRetune + 1
    BY <1>1 DEF Record, SinceRetune, HistoryTypes
  <2>3. ~raced => PlaybackIsRight'
    BY <1>1 DEF Record, PositionInv, PlaybackIsRight
  <2> HIDE DEF RingHolds
  <2> QED BY <1>1, <2>1, <2>2, <2>3 DEF Record, PositionInv, HistoryTypes
<1>2. CASE Advance
  <2>1. (RingHolds => RingHolds') /\ (PlaybackIsRight => PlaybackIsRight') /\ SinceRetune' = SinceRetune
    BY <1>2 DEF Advance, RingHolds, PlaybackIsRight, SinceRetune
  <2>2. SinceRetune \in Int
    BY DEF SinceRetune, HistoryTypes
  <2>3. /\ dsp.at = "advance" /\ dsp'.at = "choose" /\ dsp'.w = dsp.w /\ historyWrite' = dsp.w + 1
        /\ UNCHANGED <<playbackRead, playbackActive, uiCall, raced>>
    BY <1>2 DEF Advance, HistoryTypes
  <2> QED BY <2>1, <2>2, <2>3 DEF PositionInv, HistoryTypes
<1>3. CASE Choose
  <2>1. CASE playbackActive /\ playbackRead < dsp.w
    <3>1. ~raced => historyRing[SlotOf(playbackRead)] = retunedAt + playbackRead + 1
      <4>1. ASSUME ~raced
            PROVE  /\ playbackRead \in Nat /\ playbackRead < SinceRetune
                   /\ playbackRead >= SinceRetune - HistoryCapacity /\ RingHolds
        BY <1>3, <2>1, <4>1 DEF Choose, PositionInv, HistoryTypes
      <4> QED BY <4>1 DEF RingHolds
    <3>2. ~raced => PlaybackIsRight'
      BY <1>3, <2>1, <3>1 DEF Choose, PlaybackIsRight, HistoryTypes
    <3>3. RingHolds' = RingHolds /\ SinceRetune' = SinceRetune
      BY <1>3 DEF Choose, RingHolds, SinceRetune
    <3> QED BY <1>3, <2>1, <3>2, <3>3 DEF Choose, PositionInv, HistoryTypes
  <2>2. CASE ~(playbackActive /\ playbackRead < dsp.w)
    BY <1>3, <2>2 DEF Choose, PositionInv, HistoryTypes, RingHolds, PlaybackIsRight, SinceRetune
  <2> QED BY <2>1, <2>2
<1>4. CASE Demodulate
  BY <1>4 DEF Demodulate, PositionInv, HistoryTypes, RingHolds, PlaybackIsRight, SinceRetune
<1>5. CASE Retune
  BY <1>5 DEF Retune, PositionInv, HistoryTypes, RingHolds, PlaybackIsRight, SinceRetune
<1>6. CASE ResetWrite
  <2>1. SinceRetune' = 0
    BY <1>6 DEF ResetWrite, SinceRetune, HistoryTypes
  <2>2. RingHolds'
    BY <2>1 DEF RingHolds
  <2>3. ~raced' => ~raced /\ dsp.at \notin {"advance", "choose"}
    BY <1>6 DEF ResetWrite
  <2>4. ~raced' => PlaybackIsRight' /\ ~playbackActive
    BY <1>6, <2>3 DEF ResetWrite, PositionInv, PlaybackIsRight
  <2>5. uiCall'.at = "resetRead" /\ historyWrite' = 0 /\ UNCHANGED <<dsp, playbackActive>>
    BY <1>6 DEF ResetWrite, HistoryTypes
  <2> QED BY <2>1, <2>2, <2>3, <2>4, <2>5 DEF PositionInv
<1>7. CASE ResetRead
  BY <1>7 DEF ResetRead, PositionInv, HistoryTypes, RingHolds, PlaybackIsRight, SinceRetune
<1>8. ASSUME NEW offset \in 1..HistoryCapacity, Seek(offset) PROVE PositionInv'
  BY <1>8 DEF Seek, PositionInv, HistoryTypes, RingHolds, PlaybackIsRight, SinceRetune, Recorded, Smaller
<1>9. CASE SeekDone
  <2>1. RingHolds' = RingHolds /\ SinceRetune' = SinceRetune
    BY <1>9 DEF SeekDone, RingHolds, SinceRetune
  <2>2. ~raced' => ~raced /\ historyWrite = uiCall.w
    BY <1>9 DEF SeekDone
  <2>3. ~raced' => PlaybackIsRight'
    BY <1>9, <2>2 DEF SeekDone, PositionInv, PlaybackIsRight
  <2>4. /\ uiCall.at = "seek" /\ uiCall'.at = "idle" /\ playbackRead' = uiCall.w - uiCall.offset
        /\ UNCHANGED <<historyWrite, dsp>>
    BY <1>9 DEF SeekDone
  <2> QED BY <2>1, <2>2, <2>3, <2>4 DEF PositionInv, HistoryTypes
<1>10. CASE Stop
  BY <1>10 DEF Stop, PositionInv, HistoryTypes, RingHolds, PlaybackIsRight, SinceRetune
<1>11. CASE UNCHANGED historyVars
  BY <1>11 DEF PositionInv, RingHolds, PlaybackIsRight, SinceRetune
<1> QED BY <1>1, <1>2, <1>3, <1>4, <1>5, <1>6, <1>7, <1>8, <1>9, <1>10, <1>11 DEF HistoryNext

\* The frames the history ring holds, by position, between the loads and stores of the DSP thread
\* and those of the UI thread: for every capacity and decimation, any number of frames and retunes.
THEOREM HistoryInvariant == HistorySpec => []HistoryInv
<1>1. HistoryInit => HistoryInv
  BY HistoryStarts
<1>2. HistoryInv /\ [HistoryNext]_historyVars => HistoryInv'
  BY HistoryTypesKept, PositionKept DEF HistoryInv
<1> QED BY <1>1, <1>2, PTL DEF HistorySpec

\* Playback gives the sample asked for as long as no call comes between a load of the write position
\* and its use (DSPEngine.cpp processIQFrame(), seekPlayback() and resetPassbandHistory()).
THEOREM PlaybackAlwaysRight == HistorySpec => []PlaybackIsRight
<1>1. HistoryInv => PlaybackIsRight
  BY DEF HistoryInv, PositionInv, HistoryTypes, PlaybackIsRight
<1> QED BY <1>1, HistoryInvariant, PTL

----------------------------------------------------------------------------
(* SharedMem: positions and frames under restarts of the producer.         *)

HeaderFields == {"valid", "writePos", "readPos"}
ShmFrame == Int \X Int
ShmObject == [valid : BOOLEAN, sized : BOOLEAN, writePos : Nat, readPos : Nat,
              frames : [0..ShmCapacity-1 -> ShmFrame], owner : Nat, dirty : BOOLEAN]
Producers == [at : {"down", "size", "zero", "clean", "ready", "stored"}, object : 0..MaxStarts,
              toZero : SUBSET HeaderFields, wPos : Nat]
Consumers == [at : {"down", "ready", "batch", "loaded", "copied", "clearing"}, object : 0..MaxStarts,
              wanted : Int, got : Int, wPos : Nat, rPos : Nat, frame : ShmFrame]

ShmTypes ==
  /\ shmName \in 0..MaxStarts /\ starts \in 0..MaxStarts /\ torn \in BOOLEAN
  /\ objects \in [1..MaxStarts -> ShmObject]
  /\ producer \in Producers /\ (producer.at # "down" => producer.object # 0)
  /\ consumer \in Consumers /\ (consumer.at # "down" => consumer.object # 0)

\* Every frame between the positions is the one its owner wrote there.
RingRight(object) ==
  /\ object.readPos <= object.writePos /\ object.writePos <= object.readPos + ShmCapacity
  /\ \A p \in Nat : object.readPos <= p /\ p < object.writePos =>
       object.frames[p % ShmCapacity] = <<object.owner, p>>

RingsInv == ~torn => \A o \in 1..MaxStarts : ~objects[o].dirty => RingRight(objects[o])

\* What a producer has reset so far, and the frame it has stored.
ProducerInv ==
  ~torn =>
    /\ producer.at = "zero" =>
         /\ producer.toZero = HeaderFields \/ Mapped.dirty
         /\ "writePos" \notin producer.toZero => Mapped.writePos = 0
         /\ "readPos" \notin producer.toZero => Mapped.readPos = 0
    /\ producer.at \in {"clean", "ready", "stored"} => ~Mapped.dirty
    /\ producer.at = "clean" => Mapped.writePos = Mapped.readPos
    /\ producer.at = "stored" =>
         /\ producer.wPos = Mapped.writePos /\ Mapped.writePos < Mapped.readPos + ShmCapacity
         /\ Mapped.frames[Mapped.writePos % ShmCapacity] = <<Mapped.owner, Mapped.writePos>>

\* What a consumer has loaded is still so.
ConsumerInv ==
  ~torn =>
    /\ consumer.at \in {"loaded", "copied", "clearing"} => ~Seen.dirty
    /\ consumer.at \in {"loaded", "copied"} => consumer.rPos = Seen.readPos /\ consumer.rPos < Seen.writePos
    /\ consumer.at = "copied" => consumer.frame = <<Seen.owner, consumer.rPos>>
    /\ consumer.at = "clearing" => Seen.readPos <= consumer.wPos /\ consumer.wPos <= Seen.writePos

ShmInv == ShmTypes /\ RingsInv /\ ProducerInv /\ ConsumerInv

LEMMA ShmConstants ==
  /\ ShmCapacity \in Nat \ {0} /\ MaxStarts \in Nat \ {0} /\ BatchMax \in Nat \ {0}
  /\ NoFrame \in ShmFrame /\ \A a, b \in Int : <<a, b>> \in ShmFrame
BY SharedMemAssumption DEF NoFrame, ShmFrame

LEMMA ProducerMaps ==
  ASSUME ShmInv, producer.at # "down"
  PROVE  producer.object \in 1..MaxStarts /\ Mapped \in ShmObject
BY ShmConstants DEF ShmInv, ShmTypes, Producers, Mapped

LEMMA ConsumerSees ==
  ASSUME ShmInv, consumer.at # "down"
  PROVE  consumer.object \in 1..MaxStarts /\ Seen \in ShmObject
BY ShmConstants DEF ShmInv, ShmTypes, Consumers, Seen

\* One object changes.
LEMMA OneObject ==
  ASSUME NEW f \in [1..MaxStarts -> ShmObject], NEW o \in 1..MaxStarts, NEW x \in ShmObject,
         NEW g, g = [f EXCEPT ![o] = x]
  PROVE  /\ g \in [1..MaxStarts -> ShmObject] /\ g[o] = x
         /\ \A k \in 1..MaxStarts : k # o => g[k] = f[k]
OBVIOUS

LEMMA SetSized ==
  ASSUME NEW x \in ShmObject, NEW y, y = [x EXCEPT !.sized = TRUE]
  PROVE  /\ y \in ShmObject /\ y.writePos = x.writePos /\ y.readPos = x.readPos /\ y.frames = x.frames
         /\ y.owner = x.owner /\ y.dirty = x.dirty
BY DEF ShmObject

LEMMA SetWritePos ==
  ASSUME NEW x \in ShmObject, NEW n \in Nat, NEW y, y = [x EXCEPT !.writePos = n]
  PROVE  /\ y \in ShmObject /\ y.writePos = n /\ y.readPos = x.readPos /\ y.frames = x.frames
         /\ y.owner = x.owner /\ y.dirty = x.dirty
BY DEF ShmObject

LEMMA SetReadPos ==
  ASSUME NEW x \in ShmObject, NEW n \in Nat, NEW y, y = [x EXCEPT !.readPos = n]
  PROVE  /\ y \in ShmObject /\ y.writePos = x.writePos /\ y.readPos = n /\ y.frames = x.frames
         /\ y.owner = x.owner /\ y.dirty = x.dirty
BY DEF ShmObject

LEMMA SetFrames ==
  ASSUME NEW x \in ShmObject, NEW f \in [0..ShmCapacity-1 -> ShmFrame], NEW y, y = [x EXCEPT !.frames = f]
  PROVE  /\ y \in ShmObject /\ y.writePos = x.writePos /\ y.readPos = x.readPos /\ y.frames = f
         /\ y.owner = x.owner /\ y.dirty = x.dirty
BY DEF ShmObject

LEMMA HeaderWritten ==
  ASSUME NEW w \in ShmObject, NEW n
  PROVE  [w EXCEPT !.valid = TRUE, !.owner = n, !.dirty = FALSE] =
           [valid |-> TRUE, sized |-> w.sized, writePos |-> w.writePos, readPos |-> w.readPos,
            frames |-> w.frames, owner |-> n, dirty |-> FALSE]
<1>1. PICK y : y = [w EXCEPT !.valid = TRUE, !.owner = n, !.dirty = FALSE]
  OBVIOUS
<1>2. y = [valid |-> TRUE, sized |-> w.sized, writePos |-> w.writePos, readPos |-> w.readPos,
           frames |-> w.frames, owner |-> n, dirty |-> FALSE]
  BY <1>1 DEF ShmObject
<1> QED  BY <1>1, <1>2

LEMMA FieldZeroed ==
  ASSUME NEW w \in ShmObject
  PROVE  /\ [w EXCEPT !.dirty = TRUE, !.valid = FALSE] =
              [valid |-> FALSE, sized |-> w.sized, writePos |-> w.writePos, readPos |-> w.readPos,
               frames |-> w.frames, owner |-> w.owner, dirty |-> TRUE]
         /\ [w EXCEPT !.dirty = TRUE, !.writePos = 0] =
              [valid |-> w.valid, sized |-> w.sized, writePos |-> 0, readPos |-> w.readPos,
               frames |-> w.frames, owner |-> w.owner, dirty |-> TRUE]
         /\ [w EXCEPT !.dirty = TRUE, !.readPos = 0] =
              [valid |-> w.valid, sized |-> w.sized, writePos |-> w.writePos, readPos |-> 0,
               frames |-> w.frames, owner |-> w.owner, dirty |-> TRUE]
<1>1. [w EXCEPT !.dirty = TRUE, !.valid = FALSE] =
              [valid |-> FALSE, sized |-> w.sized, writePos |-> w.writePos, readPos |-> w.readPos,
               frames |-> w.frames, owner |-> w.owner, dirty |-> TRUE]
  <2>1. PICK y : y = [w EXCEPT !.dirty = TRUE, !.valid = FALSE]
    OBVIOUS
  <2>2. y = [valid |-> FALSE, sized |-> w.sized, writePos |-> w.writePos, readPos |-> w.readPos,
               frames |-> w.frames, owner |-> w.owner, dirty |-> TRUE]
    BY <2>1 DEF ShmObject
  <2> QED  BY <2>1, <2>2
<1>2. [w EXCEPT !.dirty = TRUE, !.writePos = 0] =
              [valid |-> w.valid, sized |-> w.sized, writePos |-> 0, readPos |-> w.readPos,
               frames |-> w.frames, owner |-> w.owner, dirty |-> TRUE]
  <2>1. PICK y : y = [w EXCEPT !.dirty = TRUE, !.writePos = 0]
    OBVIOUS
  <2>2. y = [valid |-> w.valid, sized |-> w.sized, writePos |-> 0, readPos |-> w.readPos,
               frames |-> w.frames, owner |-> w.owner, dirty |-> TRUE]
    BY <2>1 DEF ShmObject
  <2> QED  BY <2>1, <2>2
<1>3. [w EXCEPT !.dirty = TRUE, !.readPos = 0] =
              [valid |-> w.valid, sized |-> w.sized, writePos |-> w.writePos, readPos |-> 0,
               frames |-> w.frames, owner |-> w.owner, dirty |-> TRUE]
  <2>1. PICK y : y = [w EXCEPT !.dirty = TRUE, !.readPos = 0]
    OBVIOUS
  <2>2. y = [valid |-> w.valid, sized |-> w.sized, writePos |-> w.writePos, readPos |-> 0,
               frames |-> w.frames, owner |-> w.owner, dirty |-> TRUE]
    BY <2>1 DEF ShmObject
  <2> QED  BY <2>1, <2>2
<1> QED  BY <1>1, <1>2, <1>3

LEMMA ShmStarts == ShmInit => ShmInv
<1> SUFFICES ASSUME ShmInit PROVE ShmInv
  OBVIOUS
<1>1. NewObject \in ShmObject /\ NewObject.readPos = 0 /\ NewObject.writePos = 0
  <2>1. [s \in 0..ShmCapacity-1 |-> NoFrame] \in [0..ShmCapacity-1 -> ShmFrame]
    BY ShmConstants
  <2> QED  BY <2>1 DEF NewObject, ShmObject
<1>2. objects \in [1..MaxStarts -> ShmObject] /\ \A o \in 1..MaxStarts : objects[o] = NewObject
  BY <1>1 DEF ShmInit
<1>3. ShmTypes
  <2>1. producer \in Producers /\ producer.at = "down"
    BY ShmConstants DEF ShmInit, ProducerDown, Producers
  <2>2. consumer \in Consumers /\ consumer.at = "down"
    BY ShmConstants DEF ShmInit, ConsumerDown, Consumers
  <2>3. shmName \in 0..MaxStarts /\ starts \in 0..MaxStarts
    BY ShmConstants DEF ShmInit
  <2>4. torn \in BOOLEAN
    BY DEF ShmInit
  <2> QED  BY <1>2, <2>1, <2>2, <2>3, <2>4 DEF ShmTypes
<1>4. RingRight(NewObject)
  BY <1>1, ShmConstants DEF RingRight
<1>5. RingsInv
  BY <1>2, <1>4 DEF RingsInv
<1>6. ProducerInv /\ ConsumerInv
  BY DEF ShmInit, ProducerDown, ConsumerDown, ProducerInv, ConsumerInv
<1> QED  BY <1>3, <1>5, <1>6 DEF ShmInv

\* While the objects stay, only who moves has something to keep.
LEMMA ConsumerAlone ==
  ASSUME ShmInv, UNCHANGED <<objects, producer>>, torn => torn'
  PROVE  RingsInv' /\ ProducerInv'
<1>1. RingsInv'  BY DEF ShmInv, RingsInv
<1>2. ProducerInv'  BY DEF ShmInv, ProducerInv, Mapped
<1> QED  BY <1>1, <1>2

LEMMA ProducerAlone ==
  ASSUME ShmInv, UNCHANGED <<objects, consumer>>, torn => torn'
  PROVE  RingsInv' /\ ConsumerInv'
<1>1. RingsInv'  BY DEF ShmInv, RingsInv
<1>2. ConsumerInv'  BY DEF ShmInv, ConsumerInv, Seen
<1> QED  BY <1>1, <1>2

LEMMA CreateObjectKept == ASSUME ShmInv, CreateObject PROVE ShmInv'
<1>1. PICK o \in 1..MaxStarts : shmName' = o /\ producer' = [at |-> "size", object |-> o, toZero |-> {}, wPos |-> 0]
  <2> DEFINE p == IF shmName = 0 THEN starts + 1 ELSE shmName
  <2>1. p \in 1..MaxStarts
    BY ShmConstants DEF ShmInv, ShmTypes, CreateObject
  <2>2. shmName' = p /\ producer' = [at |-> "size", object |-> p, toZero |-> {}, wPos |-> 0]
    BY DEF CreateObject, ProducerDown
  <2> QED  BY <2>1, <2>2
<1>2. ShmTypes'
  <2>1. producer' \in Producers /\ (producer'.at # "down" => producer'.object # 0)
    BY <1>1 DEF Producers
  <2>2. shmName' \in 0..MaxStarts /\ starts' \in 0..MaxStarts
    BY <1>1, ShmConstants DEF ShmInv, ShmTypes, CreateObject
  <2> QED  BY <2>1, <2>2 DEF ShmInv, ShmTypes, CreateObject
<1>3. RingsInv' /\ ConsumerInv'
  BY ProducerAlone DEF CreateObject
<1>4. ProducerInv'
  BY <1>1 DEF ProducerInv
<1> QED  BY <1>2, <1>3, <1>4 DEF ShmInv

LEMMA SizeAndMapKept == ASSUME ShmInv, SizeAndMap PROVE ShmInv'
<1> DEFINE o == producer.object
           x == [objects[o] EXCEPT !.sized = TRUE]
<1>1. o \in 1..MaxStarts /\ Mapped = objects[o] /\ objects[o] \in ShmObject
      /\ objects \in [1..MaxStarts -> ShmObject]
  BY ProducerMaps DEF SizeAndMap, Mapped, ShmInv, ShmTypes
<1>2. /\ x \in ShmObject /\ x.writePos = objects[o].writePos /\ x.readPos = objects[o].readPos
      /\ x.frames = objects[o].frames /\ x.owner = objects[o].owner /\ x.dirty = objects[o].dirty
  BY <1>1, SetSized
<1>3. objects' = [objects EXCEPT ![o] = x]
  BY <1>1 DEF SizeAndMap
<1> HIDE DEF x
<1>4. /\ objects' \in [1..MaxStarts -> ShmObject] /\ objects'[o] = x
      /\ \A k \in 1..MaxStarts : k # o => objects'[k] = objects[k]
  BY <1>1, <1>2, <1>3, OneObject
<1>5. producer' = [at |-> "zero", object |-> o, toZero |-> HeaderFields, wPos |-> producer.wPos]
  BY DEF SizeAndMap, HeaderFields, ShmInv, ShmTypes, Producers
<1>6. ShmTypes'
  <2>1. producer' \in Producers /\ producer'.object # 0
    BY <1>1, <1>5 DEF Producers, ShmInv, ShmTypes
  <2> QED  BY <1>4, <2>1 DEF ShmInv, ShmTypes, SizeAndMap
<1>7. UNCHANGED <<torn, consumer>>
  BY DEF SizeAndMap
<1>8. \A k \in 1..MaxStarts : /\ objects'[k].dirty = objects[k].dirty
                              /\ objects'[k].writePos = objects[k].writePos
                              /\ objects'[k].readPos = objects[k].readPos
                              /\ objects'[k].frames = objects[k].frames
                              /\ objects'[k].owner = objects[k].owner
  BY <1>2, <1>4
<1>9. RingsInv'
  BY <1>7, <1>8 DEF ShmInv, RingsInv, RingRight
<1>10. ProducerInv'
  BY <1>5 DEF ProducerInv, HeaderFields
<1>11. ConsumerInv'
  <2> SUFFICES ASSUME ~torn, consumer.at \in {"loaded", "copied", "clearing"} PROVE ConsumerInv'
    BY <1>7 DEF ConsumerInv
  <2>1. consumer.object \in 1..MaxStarts
    BY ConsumerSees
  <2> QED  BY <1>7, <1>8, <2>1 DEF ShmInv, ConsumerInv, Seen
<1> QED  BY <1>6, <1>9, <1>10, <1>11 DEF ShmInv

LEMMA ZeroFieldKept ==
  ASSUME ShmInv, NEW field \in HeaderFields, ZeroField(field)
  PROVE  ShmInv'
<1> DEFINE o == producer.object
           b == IF field = "valid" THEN FALSE ELSE objects[o].valid
           n == IF field = "writePos" THEN 0 ELSE objects[o].writePos
           m == IF field = "readPos" THEN 0 ELSE objects[o].readPos
           x == [valid |-> b, sized |-> objects[o].sized, writePos |-> n, readPos |-> m,
                 frames |-> objects[o].frames, owner |-> objects[o].owner, dirty |-> TRUE]
<1>1. o \in 1..MaxStarts /\ Mapped = objects[o] /\ objects[o] \in ShmObject
      /\ objects \in [1..MaxStarts -> ShmObject]
  BY ProducerMaps DEF ZeroField, Mapped, ShmInv, ShmTypes
<1>2. b \in BOOLEAN /\ n \in Nat /\ m \in Nat
  <2>1. objects[o].valid \in BOOLEAN  BY <1>1 DEF ShmObject
  <2> QED  BY <1>1, <2>1 DEF ShmObject
<1>3. objects' = [objects EXCEPT ![o] = x]
  <2>1. CASE field = "valid"
    <3>1. objects' = [objects EXCEPT ![o] = [objects[o] EXCEPT !.dirty = TRUE, !.valid = FALSE]]
      BY <1>1, <2>1 DEF ZeroField
    <3>2. [objects[o] EXCEPT !.dirty = TRUE, !.valid = FALSE] = x
      BY <1>1, <2>1, FieldZeroed, Zenon
    <3> QED  BY <3>1, <3>2
  <2>2. CASE field = "writePos"
    <3>1. objects' = [objects EXCEPT ![o] = [objects[o] EXCEPT !.dirty = TRUE, !.writePos = 0]]
      BY <1>1, <2>2 DEF ZeroField
    <3>2. [objects[o] EXCEPT !.dirty = TRUE, !.writePos = 0] = x
      BY <1>1, <2>2, FieldZeroed, Zenon
    <3> QED  BY <3>1, <3>2
  <2>3. CASE field = "readPos"
    <3>1. objects' = [objects EXCEPT ![o] = [objects[o] EXCEPT !.dirty = TRUE, !.readPos = 0]]
      BY <1>1, <2>3 DEF ZeroField
    <3>2. [objects[o] EXCEPT !.dirty = TRUE, !.readPos = 0] = x
      BY <1>1, <2>3, FieldZeroed, Zenon
    <3> QED  BY <3>1, <3>2
  <2> QED  BY <2>1, <2>2, <2>3 DEF HeaderFields
<1> HIDE DEF b, n, m
<1>4. x \in ShmObject /\ x.writePos = n /\ x.readPos = m /\ x.dirty = TRUE
  <2>1. objects[o].sized \in BOOLEAN /\ objects[o].owner \in Nat
        /\ objects[o].frames \in [0..ShmCapacity-1 -> ShmFrame]
    BY <1>1 DEF ShmObject
  <2> QED  BY <1>2, <2>1 DEF ShmObject
<1> HIDE DEF x
<1>5. /\ objects' \in [1..MaxStarts -> ShmObject] /\ objects'[o] = x
      /\ \A k \in 1..MaxStarts : k # o => objects'[k] = objects[k]
  BY <1>1, <1>3, <1>4, OneObject
<1>6. producer' = [at |-> "zero", object |-> o, toZero |-> producer.toZero \ {field}, wPos |-> producer.wPos]
  BY DEF ZeroField, ShmInv, ShmTypes, Producers
<1>7. consumer' = consumer /\ (~torn' => ~torn /\ ~ReadingIt)
  BY DEF ZeroField
<1>8. torn' \in BOOLEAN
  BY DEF ZeroField, ShmInv, ShmTypes
<1>9. ShmTypes'
  <2>1. producer' \in Producers /\ producer'.object # 0
    BY <1>1, <1>6 DEF Producers, ShmInv, ShmTypes
  <2> QED  BY <1>5, <1>8, <2>1 DEF ShmInv, ShmTypes, ZeroField
<1>10. RingsInv'
  BY <1>4, <1>5, <1>7 DEF ShmInv, RingsInv, RingRight
<1>11. ProducerInv'
  <2> SUFFICES ASSUME ~torn
               PROVE  /\ Mapped'.dirty
                      /\ "writePos" \notin producer'.toZero => Mapped'.writePos = 0
                      /\ "readPos" \notin producer'.toZero => Mapped'.readPos = 0
    BY <1>6, <1>7 DEF ProducerInv
  <2>1. Mapped' = x  BY <1>5, <1>6 DEF Mapped
  <2>2. producer.at = "zero"  BY DEF ZeroField
  <2>3. /\ "writePos" \notin producer.toZero => objects[o].writePos = 0
        /\ "readPos" \notin producer.toZero => objects[o].readPos = 0
    BY <1>1, <2>2 DEF ShmInv, ProducerInv
  <2>4. producer'.toZero = producer.toZero \ {field}  BY <1>6
  <2> QED  BY <1>4, <2>1, <2>3, <2>4 DEF n, m
<1>12. ConsumerInv'
  <2> SUFFICES ASSUME ~torn, ~ReadingIt, consumer.at \in {"loaded", "copied", "clearing"} PROVE ConsumerInv'
    BY <1>7 DEF ConsumerInv
  <2>1. consumer.object \in 1..MaxStarts /\ consumer.object # o
    BY ConsumerSees DEF ReadingIt
  <2>2. Seen' = Seen
    BY <1>5, <1>7, <2>1 DEF Seen
  <2> QED  BY <1>7, <2>2 DEF ShmInv, ConsumerInv
<1> QED  BY <1>9, <1>10, <1>11, <1>12 DEF ShmInv

LEMMA WriteHeaderKept == ASSUME ShmInv, WriteHeader PROVE ShmInv'
<1> DEFINE o == producer.object
           x == [valid |-> TRUE, sized |-> objects[o].sized, writePos |-> objects[o].writePos,
                 readPos |-> objects[o].readPos, frames |-> objects[o].frames, owner |-> starts,
                 dirty |-> FALSE]
<1>1. o \in 1..MaxStarts /\ Mapped = objects[o] /\ objects[o] \in ShmObject
      /\ objects \in [1..MaxStarts -> ShmObject] /\ starts \in Nat
  BY ProducerMaps DEF WriteHeader, Mapped, ShmInv, ShmTypes
<1>2. /\ x \in ShmObject /\ x.writePos = objects[o].writePos /\ x.readPos = objects[o].readPos
      /\ x.owner = starts /\ x.dirty = FALSE
  <2>1. objects[o].sized \in BOOLEAN /\ objects[o].writePos \in Nat /\ objects[o].readPos \in Nat
        /\ objects[o].frames \in [0..ShmCapacity-1 -> ShmFrame]
    BY <1>1 DEF ShmObject
  <2> QED  BY <1>1, <2>1 DEF ShmObject
<1>3. objects' = [objects EXCEPT ![o] = x]
  <2>1. objects' = [objects EXCEPT ![o] = [objects[o] EXCEPT !.valid = TRUE, !.owner = starts, !.dirty = FALSE]]
    BY <1>1 DEF WriteHeader
  <2>2. [objects[o] EXCEPT !.valid = TRUE, !.owner = starts, !.dirty = FALSE] = x
    BY <1>1, HeaderWritten, Zenon
  <2> QED  BY <2>1, <2>2
<1> HIDE DEF x
<1>4. /\ objects' \in [1..MaxStarts -> ShmObject] /\ objects'[o] = x
      /\ \A k \in 1..MaxStarts : k # o => objects'[k] = objects[k]
  BY <1>1, <1>2, <1>3, OneObject
<1>5. producer' = [at |-> "clean", object |-> o, toZero |-> {}, wPos |-> producer.wPos]
  BY DEF WriteHeader, ShmInv, ShmTypes, Producers
<1>6. ShmTypes'
  <2>1. producer' \in Producers /\ producer'.object # 0
    BY <1>1, <1>5 DEF Producers, ShmInv, ShmTypes
  <2> QED  BY <1>4, <2>1 DEF ShmInv, ShmTypes, WriteHeader
<1>7. UNCHANGED <<torn, consumer>> /\ producer.at = "zero" /\ producer.toZero = {}
  BY DEF WriteHeader
<1>8. ~torn => x.writePos = 0 /\ x.readPos = 0 /\ objects[o].dirty
  BY <1>1, <1>2, <1>7 DEF ShmInv, ProducerInv, HeaderFields
<1>9. RingsInv'
  <2>1. ~torn => RingRight(x)
    BY <1>8, ShmConstants DEF RingRight
  <2> QED  BY <1>4, <1>7, <2>1 DEF ShmInv, RingsInv
<1>10. ProducerInv'
  BY <1>2, <1>4, <1>5, <1>7, <1>8 DEF ProducerInv, Mapped
<1>11. ConsumerInv'
  <2> SUFFICES ASSUME ~torn, consumer.at \in {"loaded", "copied", "clearing"} PROVE ConsumerInv'
    BY <1>7 DEF ConsumerInv
  <2>1. consumer.object \in 1..MaxStarts /\ ~Seen.dirty
    BY ConsumerSees DEF ShmInv, ConsumerInv
  <2>2. Seen' = Seen
    BY <1>4, <1>7, <1>8, <2>1 DEF Seen
  <2> QED  BY <1>7, <2>2 DEF ShmInv, ConsumerInv
<1> QED  BY <1>6, <1>9, <1>10, <1>11 DEF ShmInv

LEMMA ClearFramesKept == ASSUME ShmInv, ClearFrames PROVE ShmInv'
<1> DEFINE o == producer.object
           x == [objects[o] EXCEPT !.frames = NewObject.frames]
<1>1. o \in 1..MaxStarts /\ Mapped = objects[o] /\ objects[o] \in ShmObject
      /\ objects \in [1..MaxStarts -> ShmObject]
  BY ProducerMaps DEF ClearFrames, Mapped, ShmInv, ShmTypes
<1>2. /\ x \in ShmObject /\ x.writePos = objects[o].writePos /\ x.readPos = objects[o].readPos
      /\ x.owner = objects[o].owner /\ x.dirty = objects[o].dirty
  <2>1. NewObject.frames \in [0..ShmCapacity-1 -> ShmFrame]
    BY ShmConstants DEF NewObject
  <2> QED  BY <1>1, <2>1, SetFrames
<1>3. objects' = [objects EXCEPT ![o] = x]
  BY <1>1 DEF ClearFrames
<1> HIDE DEF x
<1>4. /\ objects' \in [1..MaxStarts -> ShmObject] /\ objects'[o] = x
      /\ \A k \in 1..MaxStarts : k # o => objects'[k] = objects[k]
  BY <1>1, <1>2, <1>3, OneObject
<1>5. producer' = [at |-> "ready", object |-> o, toZero |-> producer.toZero, wPos |-> producer.wPos]
  BY DEF ClearFrames, ShmInv, ShmTypes, Producers
<1>6. ShmTypes'
  <2>1. producer' \in Producers /\ producer'.object # 0
    BY <1>1, <1>5 DEF Producers, ShmInv, ShmTypes
  <2> QED  BY <1>4, <2>1 DEF ShmInv, ShmTypes, ClearFrames
<1>7. UNCHANGED <<torn, consumer>> /\ producer.at = "clean"
  BY DEF ClearFrames
<1>8. ~torn => ~x.dirty /\ x.writePos = x.readPos
  BY <1>1, <1>2, <1>7 DEF ShmInv, ProducerInv
<1>9. RingsInv'
  <2>1. x.writePos \in Nat /\ x.readPos \in Nat
    BY <1>2 DEF ShmObject
  <2>2. ~torn => RingRight(x)
    BY <1>8, <2>1, ShmConstants DEF RingRight
  <2> QED  BY <1>4, <1>7, <2>2 DEF ShmInv, RingsInv
<1>10. ProducerInv'
  BY <1>4, <1>5, <1>7, <1>8 DEF ProducerInv, Mapped
<1>11. ConsumerInv'
  <2> SUFFICES ASSUME ~torn, consumer.at \in {"loaded", "copied", "clearing"} PROVE ConsumerInv'
    BY <1>7 DEF ConsumerInv
  <2>1. consumer.object \in 1..MaxStarts
    BY ConsumerSees
  <2>2. Seen'.writePos = Seen.writePos /\ Seen'.readPos = Seen.readPos /\ Seen'.owner = Seen.owner
        /\ Seen'.dirty = Seen.dirty
    BY <1>2, <1>4, <1>7, <2>1 DEF Seen
  <2> QED  BY <1>7, <2>2 DEF ShmInv, ConsumerInv
<1> QED  BY <1>6, <1>9, <1>10, <1>11 DEF ShmInv

LEMMA CloseProducerKept == ASSUME ShmInv, CloseProducer PROVE ShmInv'
<1>1. producer' = [at |-> "down", object |-> 0, toZero |-> {}, wPos |-> 0]
  BY DEF CloseProducer, ProducerDown
<1>2. ShmTypes'
  <2>1. producer' \in Producers /\ producer'.at = "down"
    BY <1>1, ShmConstants DEF Producers
  <2> QED  BY <2>1, ShmConstants DEF ShmInv, ShmTypes, CloseProducer
<1>3. RingsInv' /\ ConsumerInv'
  BY ProducerAlone DEF CloseProducer
<1>4. ProducerInv'
  BY <1>1 DEF ProducerInv
<1> QED  BY <1>2, <1>3, <1>4 DEF ShmInv

LEMMA ProducerDiesKept == ASSUME ShmInv, ProducerDies PROVE ShmInv'
<1>1. producer' = [at |-> "down", object |-> 0, toZero |-> {}, wPos |-> 0]
  BY DEF ProducerDies, ProducerDown
<1>2. ShmTypes'
  <2>1. producer' \in Producers /\ producer'.at = "down"
    BY <1>1, ShmConstants DEF Producers
  <2> QED  BY <2>1, ShmConstants DEF ShmInv, ShmTypes, ProducerDies
<1>3. RingsInv' /\ ConsumerInv'
  BY ProducerAlone DEF ProducerDies
<1>4. ProducerInv'
  BY <1>1 DEF ProducerInv
<1> QED  BY <1>2, <1>3, <1>4 DEF ShmInv

LEMMA StoreFrameShmKept == ASSUME ShmInv, StoreFrameShm PROVE ShmInv'
<1> DEFINE o == producer.object
           w == objects[o].writePos
           new == <<objects[o].owner, w>>
           f == [objects[o].frames EXCEPT ![w % ShmCapacity] = new]
           x == [objects[o] EXCEPT !.frames = f]
<1>1. o \in 1..MaxStarts /\ Mapped = objects[o] /\ objects[o] \in ShmObject
      /\ objects \in [1..MaxStarts -> ShmObject]
  BY ProducerMaps DEF StoreFrameShm, Mapped, ShmInv, ShmTypes
<1>2. /\ w \in Nat /\ objects[o].readPos \in Nat /\ objects[o].owner \in Nat
      /\ objects[o].frames \in [0..ShmCapacity-1 -> ShmFrame]
  BY <1>1 DEF ShmObject
<1>3. w % ShmCapacity \in 0..ShmCapacity-1 /\ new \in ShmFrame
  BY <1>2, ShmConstants
<1>4. f \in [0..ShmCapacity-1 -> ShmFrame] /\ f[w % ShmCapacity] = new
      /\ \A s \in 0..ShmCapacity-1 : s # w % ShmCapacity => f[s] = objects[o].frames[s]
  BY <1>2, <1>3
<1>5. objects' = [objects EXCEPT ![o] = x]
  BY <1>1 DEF StoreFrameShm
<1> HIDE DEF f
<1>6. /\ x \in ShmObject /\ x.writePos = w /\ x.readPos = objects[o].readPos
      /\ x.frames = f /\ x.owner = objects[o].owner /\ x.dirty = objects[o].dirty
  BY <1>1, <1>4, SetFrames
<1> HIDE DEF x
<1>7. /\ objects' \in [1..MaxStarts -> ShmObject] /\ objects'[o] = x
      /\ \A k \in 1..MaxStarts : k # o => objects'[k] = objects[k]
  BY <1>1, <1>5, <1>6, OneObject
<1>8. producer' = [at |-> "stored", object |-> o, toZero |-> producer.toZero, wPos |-> w]
  BY <1>1 DEF StoreFrameShm, ShmInv, ShmTypes, Producers
<1>9. ShmTypes'
  <2>1. producer' \in Producers /\ producer'.object # 0
    BY <1>1, <1>2, <1>8 DEF Producers, ShmInv, ShmTypes
  <2> QED  BY <1>7, <2>1 DEF ShmInv, ShmTypes, StoreFrameShm
<1>10. UNCHANGED <<torn, consumer>> /\ producer.at = "ready"
  BY DEF StoreFrameShm
<1>11. w < objects[o].readPos + ShmCapacity \/ w < objects[o].readPos
  BY <1>1, <1>2, ShmConstants DEF StoreFrameShm, Full
<1>12. ~torn => ~objects[o].dirty /\ RingRight(objects[o])
  BY <1>1, <1>10 DEF ShmInv, ProducerInv, RingsInv
<1>13. ASSUME ~torn
       PROVE  RingRight(x)
  <2>1. RingRight(objects[o])
    BY <1>12, <1>13
  <2>2. w < objects[o].readPos + ShmCapacity /\ objects[o].readPos <= w
    BY <1>2, <1>11, <2>1, ShmConstants DEF RingRight
  <2>3. ASSUME NEW p \in Nat, objects[o].readPos <= p, p < w
        PROVE  f[p % ShmCapacity] = <<objects[o].owner, p>>
    <3>1. p % ShmCapacity # w % ShmCapacity
      <4>1. w - p < ShmCapacity
        BY <1>2, <2>2, <2>3, ShmConstants
      <4>2. w \in Int /\ p \in Int /\ ShmCapacity \in Nat \ {0}
        BY <1>2, ShmConstants
      <4> HIDE DEF w
      <4> QED  BY <2>3, <4>1, <4>2, ModDistinct, Zenon
    <3>2. p % ShmCapacity \in 0..ShmCapacity-1
      BY <2>3, ShmConstants
    <3>3. objects[o].frames[p % ShmCapacity] = <<objects[o].owner, p>>
      BY <2>1, <2>3 DEF RingRight
    <3> QED  BY <1>4, <3>1, <3>2, <3>3
  <2>4. w <= objects[o].readPos + ShmCapacity
    BY <1>2, <2>2, ShmConstants
  <2> HIDE DEF w
  <2> QED  BY <1>6, <2>2, <2>3, <2>4 DEF RingRight
<1>14. RingsInv'
  BY <1>7, <1>10, <1>13 DEF ShmInv, RingsInv
<1>15. ProducerInv'
  <2> SUFFICES ASSUME ~torn
               PROVE  /\ ~x.dirty /\ producer'.wPos = x.writePos /\ x.writePos < x.readPos + ShmCapacity
                      /\ x.frames[x.writePos % ShmCapacity] = <<x.owner, x.writePos>>
    BY <1>7, <1>8, <1>10 DEF ProducerInv, Mapped
  <2>1. x.writePos < x.readPos + ShmCapacity
    BY <1>2, <1>6, <1>11, <1>12, ShmConstants DEF RingRight
  <2>2. x.frames[x.writePos % ShmCapacity] = <<x.owner, x.writePos>>
    BY <1>4, <1>6
  <2> QED  BY <1>6, <1>8, <1>12, <2>1, <2>2
<1>16. ConsumerInv'
  <2> SUFFICES ASSUME ~torn, consumer.at \in {"loaded", "copied", "clearing"} PROVE ConsumerInv'
    BY <1>10 DEF ConsumerInv
  <2>1. consumer.object \in 1..MaxStarts
    BY ConsumerSees
  <2>2. Seen'.writePos = Seen.writePos /\ Seen'.readPos = Seen.readPos /\ Seen'.owner = Seen.owner
        /\ Seen'.dirty = Seen.dirty
    BY <1>6, <1>7, <1>10, <2>1 DEF Seen
  <2> QED  BY <1>10, <2>2 DEF ShmInv, ConsumerInv
<1> QED  BY <1>9, <1>14, <1>15, <1>16 DEF ShmInv

LEMMA StoreWritePosKept == ASSUME ShmInv, StoreWritePos PROVE ShmInv'
<1> DEFINE o == producer.object
           w == producer.wPos
           x == [objects[o] EXCEPT !.writePos = w + 1]
<1>1. o \in 1..MaxStarts /\ Mapped = objects[o] /\ objects[o] \in ShmObject
      /\ objects \in [1..MaxStarts -> ShmObject] /\ w \in Nat /\ w + 1 \in Nat
  BY ProducerMaps DEF StoreWritePos, Mapped, ShmInv, ShmTypes, Producers
<1>2. /\ x \in ShmObject /\ x.writePos = w + 1 /\ x.readPos = objects[o].readPos
      /\ x.frames = objects[o].frames /\ x.owner = objects[o].owner /\ x.dirty = objects[o].dirty
  BY <1>1, SetWritePos
<1>3. objects' = [objects EXCEPT ![o] = x]
  BY <1>1 DEF StoreWritePos
<1> HIDE DEF x
<1>4. /\ objects' \in [1..MaxStarts -> ShmObject] /\ objects'[o] = x
      /\ \A k \in 1..MaxStarts : k # o => objects'[k] = objects[k]
  BY <1>1, <1>2, <1>3, OneObject
<1>5. producer' = [at |-> "ready", object |-> o, toZero |-> producer.toZero, wPos |-> w]
  BY DEF StoreWritePos, ShmInv, ShmTypes, Producers
<1>6. ShmTypes'
  <2>1. producer' \in Producers /\ producer'.object # 0
    BY <1>1, <1>5 DEF Producers, ShmInv, ShmTypes
  <2> QED  BY <1>4, <2>1 DEF ShmInv, ShmTypes, StoreWritePos
<1>7. UNCHANGED <<torn, consumer>> /\ producer.at = "stored"
  BY DEF StoreWritePos
<1>8. ~torn => /\ ~objects[o].dirty /\ RingRight(objects[o]) /\ objects[o].writePos = w
               /\ w < objects[o].readPos + ShmCapacity
               /\ objects[o].frames[w % ShmCapacity] = <<objects[o].owner, w>>
  BY <1>1, <1>7 DEF ShmInv, ProducerInv, RingsInv
<1>9. objects[o].readPos \in Nat
  BY <1>1 DEF ShmObject
<1> HIDE DEF w
<1>10. ASSUME ~torn
       PROVE  RingRight(x)
  <2>1. x.readPos <= x.writePos /\ x.writePos <= x.readPos + ShmCapacity
    BY <1>1, <1>2, <1>8, <1>9, <1>10, ShmConstants DEF RingRight
  <2>2. ASSUME NEW p \in Nat, x.readPos <= p, p < x.writePos
        PROVE  x.frames[p % ShmCapacity] = <<x.owner, p>>
    <3>1. CASE p = w
      BY <1>2, <1>8, <1>10, <3>1
    <3>2. CASE p # w
      BY <1>1, <1>2, <1>8, <1>10, <2>2, <3>2 DEF RingRight
    <3> QED  BY <3>1, <3>2
  <2> QED  BY <2>1, <2>2 DEF RingRight
<1>11. RingsInv'
  BY <1>4, <1>7, <1>10 DEF ShmInv, RingsInv
<1>12. ProducerInv'
  BY <1>2, <1>4, <1>5, <1>7, <1>8 DEF ProducerInv, Mapped
<1>13. ConsumerInv'
  <2> SUFFICES ASSUME ~torn, consumer.at \in {"loaded", "copied", "clearing"} PROVE ConsumerInv'
    BY <1>7 DEF ConsumerInv
  <2>1. consumer.object \in 1..MaxStarts /\ Seen \in ShmObject
    BY ConsumerSees
  <2>2. /\ Seen.writePos <= Seen'.writePos /\ Seen'.readPos = Seen.readPos /\ Seen'.owner = Seen.owner
        /\ Seen'.dirty = Seen.dirty /\ Seen.writePos \in Nat /\ Seen'.writePos \in Nat /\ Seen.readPos \in Nat
    <3>1. CASE consumer.object = o
      BY <1>1, <1>2, <1>4, <1>7, <1>8, <2>1, <3>1 DEF Seen, ShmObject
    <3>2. CASE consumer.object # o
      <4>1. Seen' = Seen  BY <1>4, <1>7, <2>1, <3>2 DEF Seen
      <4> QED  BY <2>1, <4>1 DEF ShmObject
    <3> QED  BY <3>1, <3>2
  <2>3. consumer.wPos \in Nat /\ consumer.rPos \in Nat
    BY DEF ShmInv, ShmTypes, Consumers
  <2> QED  BY <1>7, <2>2, <2>3 DEF ShmInv, ConsumerInv
<1> QED  BY <1>6, <1>11, <1>12, <1>13 DEF ShmInv

LEMMA ReadBatchKept == ASSUME ShmInv, NEW n \in 1..BatchMax, ReadBatch(n) PROVE ShmInv'
<1>1. consumer' = [at |-> "batch", object |-> consumer.object, wanted |-> n, got |-> 0,
                  wPos |-> consumer.wPos, rPos |-> consumer.rPos, frame |-> consumer.frame]
  BY ShmConstants DEF ReadBatch, ShmInv, ShmTypes, Consumers
<1>2. ShmTypes'
  <2>1. consumer' \in Consumers /\ consumer'.object # 0
    BY <1>1, ShmConstants DEF ReadBatch, ShmInv, ShmTypes, Consumers
  <2>2. torn' \in BOOLEAN
    BY DEF ReadBatch, ShmInv, ShmTypes
  <2> QED  BY <2>1, <2>2 DEF ShmInv, ShmTypes, ReadBatch
<1>3. RingsInv' /\ ProducerInv'
  BY ConsumerAlone DEF ReadBatch
<1>4. ConsumerInv'
  BY <1>1 DEF ConsumerInv
<1> QED  BY <1>2, <1>3, <1>4 DEF ShmInv

LEMMA EndBatchKept == ASSUME ShmInv, EndBatch PROVE ShmInv'
<1>1. consumer' = [at |-> "ready", object |-> consumer.object, wanted |-> 0, got |-> 0,
                  wPos |-> consumer.wPos, rPos |-> consumer.rPos, frame |-> consumer.frame]
  BY DEF EndBatch, ShmInv, ShmTypes, Consumers
<1>2. ShmTypes'
  <2>1. consumer' \in Consumers /\ consumer'.object # 0
    BY <1>1 DEF EndBatch, ShmInv, ShmTypes, Consumers
  <2>2. torn' \in BOOLEAN
    BY DEF EndBatch, ShmInv, ShmTypes
  <2> QED  BY <2>1, <2>2 DEF ShmInv, ShmTypes, EndBatch
<1>3. RingsInv' /\ ProducerInv'
  BY ConsumerAlone DEF EndBatch
<1>4. ConsumerInv'
  BY <1>1 DEF ConsumerInv
<1> QED  BY <1>2, <1>3, <1>4 DEF ShmInv

LEMMA LoadPositionsKept == ASSUME ShmInv, LoadPositions PROVE ShmInv'
<1>1. consumer' = [at |-> "loaded", object |-> consumer.object, wanted |-> consumer.wanted, got |-> consumer.got,
                  wPos |-> Seen.writePos, rPos |-> Seen.readPos, frame |-> consumer.frame]
  BY DEF LoadPositions, ShmInv, ShmTypes, Consumers
<1>2. consumer.object # 0 /\ Seen.writePos \in Nat /\ Seen.readPos \in Nat
  BY ConsumerSees DEF LoadPositions, ShmObject, ShmInv, ShmTypes
<1>3. consumer.object \in 1..MaxStarts /\ Seen.writePos \in Nat /\ Seen.readPos \in Nat /\ consumer.rPos \in Nat
  BY ConsumerSees DEF LoadPositions, ShmObject, ShmInv, ShmTypes, Consumers
<1>4. ShmTypes'
  <2>1. consumer' \in Consumers /\ consumer'.object # 0
    BY <1>1, <1>2 DEF LoadPositions, ShmInv, ShmTypes, Consumers
  <2>2. torn' \in BOOLEAN
    BY DEF LoadPositions, ShmInv, ShmTypes
  <2> QED  BY <2>1, <2>2 DEF ShmInv, ShmTypes, LoadPositions
<1>5. RingsInv' /\ ProducerInv'
  BY ConsumerAlone DEF LoadPositions
<1>6. ConsumerInv'
  <2> SUFFICES ASSUME ~torn' PROVE ConsumerInv'
    BY DEF ConsumerInv
  <2>1. Seen' = Seen /\ ~Seen.dirty /\ Seen.readPos < Seen.writePos
    BY <1>1 DEF LoadPositions, Seen
  <2> QED  BY <1>1, <2>1 DEF ConsumerInv
<1> QED  BY <1>4, <1>5, <1>6 DEF ShmInv

LEMMA CopyFrameKept == ASSUME ShmInv, CopyFrame PROVE ShmInv'
<1>1. consumer' = [at |-> "copied", object |-> consumer.object, wanted |-> consumer.wanted, got |-> consumer.got,
                  wPos |-> consumer.wPos, rPos |-> consumer.rPos, frame |-> Seen.frames[consumer.rPos % ShmCapacity]]
  BY DEF CopyFrame, ShmInv, ShmTypes, Consumers
<1>2. consumer.object # 0 /\ Seen.frames[consumer.rPos % ShmCapacity] \in ShmFrame
  <2>1. Seen \in ShmObject /\ consumer.rPos \in Nat /\ consumer.object # 0
    BY ConsumerSees DEF CopyFrame, ShmInv, ShmTypes, Consumers
  <2>2. consumer.rPos % ShmCapacity \in 0..ShmCapacity-1
    BY <2>1, ShmConstants
  <2> QED  BY <2>1, <2>2 DEF ShmObject
<1>3. consumer.object \in 1..MaxStarts /\ Seen.writePos \in Nat /\ Seen.readPos \in Nat /\ consumer.rPos \in Nat
  BY ConsumerSees DEF CopyFrame, ShmObject, ShmInv, ShmTypes, Consumers
<1>4. ShmTypes'
  <2>1. consumer' \in Consumers /\ consumer'.object # 0
    BY <1>1, <1>2 DEF CopyFrame, ShmInv, ShmTypes, Consumers
  <2>2. torn' \in BOOLEAN
    BY DEF CopyFrame, ShmInv, ShmTypes
  <2> QED  BY <2>1, <2>2 DEF ShmInv, ShmTypes, CopyFrame
<1>5. RingsInv' /\ ProducerInv'
  BY ConsumerAlone DEF CopyFrame
<1>6. ConsumerInv'
  <2> SUFFICES ASSUME ~torn PROVE ConsumerInv'
    BY DEF CopyFrame, ConsumerInv
  <2>1. /\ Seen' = Seen /\ ~Seen.dirty /\ consumer.rPos = Seen.readPos /\ consumer.rPos < Seen.writePos
    BY <1>1 DEF CopyFrame, Seen, ShmInv, ConsumerInv
  <2>2. RingRight(Seen)
    BY <1>3, <2>1 DEF ShmInv, RingsInv, Seen
  <2>3. Seen.frames[consumer.rPos % ShmCapacity] = <<Seen.owner, consumer.rPos>>
    BY <1>3, <2>1, <2>2 DEF RingRight
  <2> QED  BY <1>1, <2>1, <2>3 DEF ConsumerInv
<1> QED  BY <1>4, <1>5, <1>6 DEF ShmInv

LEMMA LoadForClearKept == ASSUME ShmInv, LoadForClear PROVE ShmInv'
<1>1. consumer' = [at |-> "clearing", object |-> consumer.object, wanted |-> consumer.wanted, got |-> consumer.got,
                  wPos |-> Seen.writePos, rPos |-> consumer.rPos, frame |-> consumer.frame]
  BY DEF LoadForClear, ShmInv, ShmTypes, Consumers
<1>2. consumer.object # 0 /\ Seen.writePos \in Nat /\ Seen.readPos \in Nat
  BY ConsumerSees DEF LoadForClear, ShmObject, ShmInv, ShmTypes
<1>3. consumer.object \in 1..MaxStarts /\ Seen.writePos \in Nat /\ Seen.readPos \in Nat /\ consumer.rPos \in Nat
  BY ConsumerSees DEF LoadForClear, ShmObject, ShmInv, ShmTypes, Consumers
<1>4. ShmTypes'
  <2>1. consumer' \in Consumers /\ consumer'.object # 0
    BY <1>1, <1>2 DEF LoadForClear, ShmInv, ShmTypes, Consumers
  <2>2. torn' \in BOOLEAN
    BY DEF LoadForClear, ShmInv, ShmTypes
  <2> QED  BY <2>1, <2>2 DEF ShmInv, ShmTypes, LoadForClear
<1>5. RingsInv' /\ ProducerInv'
  BY ConsumerAlone DEF LoadForClear
<1>6. ConsumerInv'
  <2> SUFFICES ASSUME ~torn' PROVE ConsumerInv'
    BY DEF ConsumerInv
  <2>1. Seen' = Seen /\ ~Seen.dirty /\ ~torn
    BY <1>1 DEF LoadForClear, Seen
  <2>2. Seen.readPos <= Seen.writePos
    BY <1>3, <2>1 DEF ShmInv, RingsInv, RingRight, Seen
  <2>3. Seen.writePos <= Seen.writePos
    BY <1>3
  <2> QED  BY <1>1, <2>1, <2>2, <2>3 DEF ConsumerInv
<1> QED  BY <1>4, <1>5, <1>6 DEF ShmInv

LEMMA OpenObjectKept == ASSUME ShmInv, OpenObject PROVE ShmInv'
<1>1. consumer' = [at |-> "ready", object |-> shmName, wanted |-> 0, got |-> 0, wPos |-> 0, rPos |-> 0,
                  frame |-> NoFrame]
  BY DEF OpenObject, ConsumerDown
<1>2. ShmTypes'
  <2>1. consumer' \in Consumers /\ consumer'.object # 0
    BY <1>1, ShmConstants DEF OpenObject, ShmInv, ShmTypes, Consumers
  <2> QED  BY <2>1 DEF ShmInv, ShmTypes, OpenObject
<1>3. RingsInv' /\ ProducerInv'
  BY ConsumerAlone DEF OpenObject
<1>4. ConsumerInv'
  BY <1>1 DEF ConsumerInv
<1> QED  BY <1>2, <1>3, <1>4 DEF ShmInv

LEMMA CloseConsumerKept == ASSUME ShmInv, CloseConsumer PROVE ShmInv'
<1>1. consumer' = [at |-> "down", object |-> 0, wanted |-> 0, got |-> 0, wPos |-> 0, rPos |-> 0,
                  frame |-> NoFrame]
  BY DEF CloseConsumer, ConsumerDown
<1>2. ShmTypes'
  <2>1. consumer' \in Consumers /\ consumer'.at = "down"
    BY <1>1, ShmConstants DEF CloseConsumer, ShmInv, ShmTypes, Consumers
  <2> QED  BY <2>1 DEF ShmInv, ShmTypes, CloseConsumer
<1>3. RingsInv' /\ ProducerInv'
  BY ConsumerAlone DEF CloseConsumer
<1>4. ConsumerInv'
  BY <1>1 DEF ConsumerInv
<1> QED  BY <1>2, <1>3, <1>4 DEF ShmInv

LEMMA ConsumerDiesKept == ASSUME ShmInv, ConsumerDies PROVE ShmInv'
<1>1. consumer' = [at |-> "down", object |-> 0, wanted |-> 0, got |-> 0, wPos |-> 0, rPos |-> 0,
                  frame |-> NoFrame]
  BY DEF ConsumerDies, ConsumerDown
<1>2. ShmTypes'
  <2>1. consumer' \in Consumers /\ consumer'.at = "down"
    BY <1>1, ShmConstants DEF ConsumerDies, ShmInv, ShmTypes, Consumers
  <2> QED  BY <2>1 DEF ShmInv, ShmTypes, ConsumerDies
<1>3. RingsInv' /\ ProducerInv'
  BY ConsumerAlone DEF ConsumerDies
<1>4. ConsumerInv'
  BY <1>1 DEF ConsumerInv
<1> QED  BY <1>2, <1>3, <1>4 DEF ShmInv

LEMMA StoreReadPosShmKept == ASSUME ShmInv, StoreReadPosShm PROVE ShmInv'
<1> DEFINE o == consumer.object
           r == consumer.rPos + 1
           x == [objects[o] EXCEPT !.readPos = r]
<1>1. o \in 1..MaxStarts /\ Seen = objects[o] /\ objects[o] \in ShmObject
      /\ objects \in [1..MaxStarts -> ShmObject] /\ r \in Nat
  BY ConsumerSees DEF StoreReadPosShm, Seen, ShmInv, ShmTypes, Consumers
<1>2. /\ x \in ShmObject /\ x.writePos = objects[o].writePos /\ x.readPos = r
      /\ x.frames = objects[o].frames /\ x.owner = objects[o].owner /\ x.dirty = objects[o].dirty
  BY <1>1, SetReadPos
<1>3. objects' = [objects EXCEPT ![o] = x]
  BY <1>1 DEF StoreReadPosShm
<1> HIDE DEF x
<1>4. /\ objects' \in [1..MaxStarts -> ShmObject] /\ objects'[o] = x
      /\ \A k \in 1..MaxStarts : k # o => objects'[k] = objects[k]
  BY <1>1, <1>2, <1>3, OneObject
<1>5. consumer' = [at |-> "batch", object |-> consumer.object, wanted |-> consumer.wanted - 1, got |-> consumer.got + 1,
                  wPos |-> consumer.wPos, rPos |-> consumer.rPos, frame |-> consumer.frame]
  BY DEF StoreReadPosShm, ShmInv, ShmTypes, Consumers
<1>6. ShmTypes'
  <2>1. consumer' \in Consumers /\ consumer'.object # 0
    BY <1>1, <1>5 DEF ShmInv, ShmTypes, Consumers
  <2> QED  BY <1>4, <2>1 DEF ShmInv, ShmTypes, StoreReadPosShm
<1>7. UNCHANGED <<torn, producer>> /\ consumer.at = "copied"
  BY DEF StoreReadPosShm
<1>8. ~torn => ~objects[o].dirty /\ RingRight(objects[o]) /\ objects[o].readPos <= r /\ r <= objects[o].writePos
  <2>1. objects[o].readPos \in Nat /\ objects[o].writePos \in Nat /\ consumer.rPos \in Nat
    BY <1>1 DEF ShmObject, ShmInv, ShmTypes, Consumers
  <2>2. ~torn => ~Seen.dirty /\ Seen.readPos <= r /\ r <= Seen.writePos
    BY <1>1, <1>7, <2>1 DEF ShmInv, ConsumerInv
  <2> QED  BY <1>1, <2>2 DEF ShmInv, RingsInv
<1>9. objects[o].readPos \in Nat /\ objects[o].writePos \in Nat
  BY <1>1 DEF ShmObject
<1> HIDE DEF r
<1>10. ASSUME ~torn
       PROVE  RingRight(x)
  <2>1. x.readPos <= x.writePos /\ x.writePos <= x.readPos + ShmCapacity
    BY <1>1, <1>2, <1>8, <1>9, <1>10, ShmConstants DEF RingRight
  <2>2. ASSUME NEW p \in Nat, x.readPos <= p, p < x.writePos
        PROVE  x.frames[p % ShmCapacity] = <<x.owner, p>>
    <3>1. objects[o].readPos <= p /\ p < objects[o].writePos
      BY <1>1, <1>2, <1>8, <1>9, <1>10, <2>2
    <3> QED  BY <1>2, <1>8, <1>10, <3>1 DEF RingRight
  <2> QED  BY <2>1, <2>2 DEF RingRight
<1>11. RingsInv'
  BY <1>4, <1>7, <1>10 DEF ShmInv, RingsInv
<1>12. ProducerInv'
  <2> SUFFICES ASSUME ~torn, producer.at \in {"zero", "clean", "ready", "stored"} PROVE ProducerInv'
    BY <1>7 DEF ProducerInv
  <2>1. producer.object \in 1..MaxStarts
    BY ProducerMaps
  <2>2. CASE producer.object # o
    <3>1. Mapped' = Mapped
      BY <1>4, <1>7, <2>1, <2>2 DEF Mapped
    <3> QED  BY <1>7, <3>1 DEF ShmInv, ProducerInv
  <2>3. CASE producer.object = o
    <3>1. /\ Mapped = objects[o] /\ Mapped' = x
      BY <1>1, <1>4, <1>7, <2>3 DEF Mapped
    <3>2. ~x.dirty /\ ~objects[o].dirty
      BY <1>2, <1>8
    <3>3. producer.at = "zero" => producer.toZero = HeaderFields
      BY <3>1, <3>2 DEF ShmInv, ProducerInv
    <3>4. producer.at = "clean" => x.writePos = x.readPos
      BY <1>1, <1>2, <1>8, <1>9, <3>1 DEF ShmInv, ProducerInv
    <3>5. producer.at = "stored" =>
            /\ producer.wPos = x.writePos /\ x.writePos < x.readPos + ShmCapacity
            /\ x.frames[x.writePos % ShmCapacity] = <<x.owner, x.writePos>>
      <4> SUFFICES ASSUME producer.at = "stored"
                   PROVE  /\ producer.wPos = x.writePos /\ x.writePos < x.readPos + ShmCapacity
                          /\ x.frames[x.writePos % ShmCapacity] = <<x.owner, x.writePos>>
        OBVIOUS
      <4>1. /\ producer.wPos = objects[o].writePos
            /\ objects[o].writePos < objects[o].readPos + ShmCapacity
            /\ objects[o].frames[objects[o].writePos % ShmCapacity] = <<objects[o].owner, objects[o].writePos>>
        BY <3>1 DEF ShmInv, ProducerInv
      <4>2. objects[o].writePos < r + ShmCapacity
        BY <1>1, <1>8, <1>9, <4>1, ShmConstants
      <4> QED  BY <1>2, <4>1, <4>2
    <3> QED  BY <1>7, <3>1, <3>2, <3>3, <3>4, <3>5 DEF ProducerInv, HeaderFields
  <2> QED  BY <2>2, <2>3
<1>13. ConsumerInv'
  BY <1>5 DEF ConsumerInv
<1> QED  BY <1>6, <1>11, <1>12, <1>13 DEF ShmInv

LEMMA StoreClearKept == ASSUME ShmInv, StoreClear PROVE ShmInv'
<1> DEFINE o == consumer.object
           r == consumer.wPos
           x == [objects[o] EXCEPT !.readPos = r]
<1>1. o \in 1..MaxStarts /\ Seen = objects[o] /\ objects[o] \in ShmObject
      /\ objects \in [1..MaxStarts -> ShmObject] /\ r \in Nat
  BY ConsumerSees DEF StoreClear, Seen, ShmInv, ShmTypes, Consumers
<1>2. /\ x \in ShmObject /\ x.writePos = objects[o].writePos /\ x.readPos = r
      /\ x.frames = objects[o].frames /\ x.owner = objects[o].owner /\ x.dirty = objects[o].dirty
  BY <1>1, SetReadPos
<1>3. objects' = [objects EXCEPT ![o] = x]
  BY <1>1 DEF StoreClear
<1> HIDE DEF x
<1>4. /\ objects' \in [1..MaxStarts -> ShmObject] /\ objects'[o] = x
      /\ \A k \in 1..MaxStarts : k # o => objects'[k] = objects[k]
  BY <1>1, <1>2, <1>3, OneObject
<1>5. consumer' = [at |-> "ready", object |-> consumer.object, wanted |-> consumer.wanted, got |-> consumer.got,
                  wPos |-> consumer.wPos, rPos |-> consumer.rPos, frame |-> consumer.frame]
  BY DEF StoreClear, ShmInv, ShmTypes, Consumers
<1>6. ShmTypes'
  <2>1. consumer' \in Consumers /\ consumer'.object # 0
    BY <1>1, <1>5 DEF ShmInv, ShmTypes, Consumers
  <2> QED  BY <1>4, <2>1 DEF ShmInv, ShmTypes, StoreClear
<1>7. UNCHANGED <<torn, producer>> /\ consumer.at = "clearing"
  BY DEF StoreClear
<1>8. ~torn => ~objects[o].dirty /\ RingRight(objects[o]) /\ objects[o].readPos <= r /\ r <= objects[o].writePos
  <2>1. objects[o].readPos \in Nat /\ objects[o].writePos \in Nat /\ consumer.rPos \in Nat
    BY <1>1 DEF ShmObject, ShmInv, ShmTypes, Consumers
  <2>2. ~torn => ~Seen.dirty /\ Seen.readPos <= r /\ r <= Seen.writePos
    BY <1>1, <1>7, <2>1 DEF ShmInv, ConsumerInv
  <2> QED  BY <1>1, <2>2 DEF ShmInv, RingsInv
<1>9. objects[o].readPos \in Nat /\ objects[o].writePos \in Nat
  BY <1>1 DEF ShmObject
<1> HIDE DEF r
<1>10. ASSUME ~torn
       PROVE  RingRight(x)
  <2>1. x.readPos <= x.writePos /\ x.writePos <= x.readPos + ShmCapacity
    BY <1>1, <1>2, <1>8, <1>9, <1>10, ShmConstants DEF RingRight
  <2>2. ASSUME NEW p \in Nat, x.readPos <= p, p < x.writePos
        PROVE  x.frames[p % ShmCapacity] = <<x.owner, p>>
    <3>1. objects[o].readPos <= p /\ p < objects[o].writePos
      BY <1>1, <1>2, <1>8, <1>9, <1>10, <2>2
    <3> QED  BY <1>2, <1>8, <1>10, <3>1 DEF RingRight
  <2> QED  BY <2>1, <2>2 DEF RingRight
<1>11. RingsInv'
  BY <1>4, <1>7, <1>10 DEF ShmInv, RingsInv
<1>12. ProducerInv'
  <2> SUFFICES ASSUME ~torn, producer.at \in {"zero", "clean", "ready", "stored"} PROVE ProducerInv'
    BY <1>7 DEF ProducerInv
  <2>1. producer.object \in 1..MaxStarts
    BY ProducerMaps
  <2>2. CASE producer.object # o
    <3>1. Mapped' = Mapped
      BY <1>4, <1>7, <2>1, <2>2 DEF Mapped
    <3> QED  BY <1>7, <3>1 DEF ShmInv, ProducerInv
  <2>3. CASE producer.object = o
    <3>1. /\ Mapped = objects[o] /\ Mapped' = x
      BY <1>1, <1>4, <1>7, <2>3 DEF Mapped
    <3>2. ~x.dirty /\ ~objects[o].dirty
      BY <1>2, <1>8
    <3>3. producer.at = "zero" => producer.toZero = HeaderFields
      BY <3>1, <3>2 DEF ShmInv, ProducerInv
    <3>4. producer.at = "clean" => x.writePos = x.readPos
      BY <1>1, <1>2, <1>8, <1>9, <3>1 DEF ShmInv, ProducerInv
    <3>5. producer.at = "stored" =>
            /\ producer.wPos = x.writePos /\ x.writePos < x.readPos + ShmCapacity
            /\ x.frames[x.writePos % ShmCapacity] = <<x.owner, x.writePos>>
      <4> SUFFICES ASSUME producer.at = "stored"
                   PROVE  /\ producer.wPos = x.writePos /\ x.writePos < x.readPos + ShmCapacity
                          /\ x.frames[x.writePos % ShmCapacity] = <<x.owner, x.writePos>>
        OBVIOUS
      <4>1. /\ producer.wPos = objects[o].writePos
            /\ objects[o].writePos < objects[o].readPos + ShmCapacity
            /\ objects[o].frames[objects[o].writePos % ShmCapacity] = <<objects[o].owner, objects[o].writePos>>
        BY <3>1 DEF ShmInv, ProducerInv
      <4>2. objects[o].writePos < r + ShmCapacity
        BY <1>1, <1>8, <1>9, <4>1, ShmConstants
      <4> QED  BY <1>2, <4>1, <4>2
    <3> QED  BY <1>7, <3>1, <3>2, <3>3, <3>4, <3>5 DEF ProducerInv, HeaderFields
  <2> QED  BY <2>2, <2>3
<1>13. ConsumerInv'
  BY <1>5 DEF ConsumerInv
<1> QED  BY <1>6, <1>11, <1>12, <1>13 DEF ShmInv

LEMMA ShmKept == ShmInv /\ [ShmNext]_shmVars => ShmInv'
<1> SUFFICES ASSUME ShmInv, [ShmNext]_shmVars PROVE ShmInv'
  OBVIOUS
<1>1. CASE UNCHANGED shmVars
  BY <1>1, ConsumerAlone, ProducerAlone DEF shmVars, ShmInv, ShmTypes
<1>2. CASE ShmNext
  BY <1>2, CreateObjectKept, SizeAndMapKept, ZeroFieldKept, WriteHeaderKept, ClearFramesKept,
     CloseProducerKept, StoreFrameShmKept, StoreWritePosKept, OpenObjectKept, ReadBatchKept,
     LoadPositionsKept, EndBatchKept, CopyFrameKept, StoreReadPosShmKept, LoadForClearKept,
     StoreClearKept, CloseConsumerKept, ProducerDiesKept, ConsumerDiesKept DEF ShmNext, HeaderFields
<1> QED  BY <1>1, <1>2

\* The inductive invariant of the shared-memory ring: every frame between the positions is its present
\* owner's, and what producer and consumer have loaded of the header still holds.
THEOREM ShmInvariant == ShmSpec => []ShmInv
<1> QED  BY ShmStarts, ShmKept, PTL DEF ShmSpec

\* For every capacity and any number of starts, writes and deaths: unless a reset falls into a call of
\* the consumer, what it reads is the frame written there, and the positions stay a ring's
\* (SharedMemTransport.cpp, write() and readBatch()).
THEOREM ShmAlwaysInSync == ShmSpec => []ShmInSync
<1>1. ShmInv => ShmInSync
  <2> SUFFICES ASSUME ShmInv, ~torn PROVE ShmInSync
    BY DEF ShmInSync
  <2>1. consumer.at = "copied" => consumer.frame = <<Seen.owner, consumer.rPos>>
    BY DEF ShmInv, ConsumerInv
  <2>2. ASSUME NEW o \in DOMAIN objects, ~objects[o].dirty
        PROVE  objects[o].writePos - objects[o].readPos \in 0..ShmCapacity
    <3>1. o \in 1..MaxStarts /\ objects[o] \in ShmObject
      BY <2>2 DEF ShmInv, ShmTypes
    <3>2. RingRight(objects[o])
      BY <2>2, <3>1 DEF ShmInv, RingsInv
    <3> QED  BY <3>1, <3>2, ShmConstants DEF RingRight, ShmObject
  <2> QED  BY <2>1, <2>2 DEF ShmInSync
<1> QED  BY <1>1, ShmInvariant, PTL
----------------------------------------------------------------------------
(* Reactive: what computing anew gives.                                    *)

\* One step of a computed value's function, with the rest answered by f and what is read by answer(n).
Step(point, f, answers) ==
  CASE point.op = "get" -> f[point.on[answers[point.from]]]
    [] point.op = "return" -> point.value
    [] OTHER -> Nothing

Solves(f, answers) ==
  /\ f \in [Pure -> Known] /\ answers \in [Nodes -> Known]
  /\ \A point \in Pure : f[point] = Step(point, f, answers)

\* What is read when the values are v and the computed values' functions give f.
Answered(v, f) == [n \in Nodes |-> IF n \in Observables THEN v[n] ELSE f[Bodies[n]]]

LEMMA PurePoints ==
  ASSUME NEW point \in Pure
  PROVE  /\ point.op \in {"get", "return", "fail"} /\ Rank[point] \in Nat
         /\ point.op = "get" => /\ point.from \in Nodes /\ point.on \in [Known -> Pure]
                                /\ \A v \in Known : Rank[point.on[v]] < Rank[point]
                                /\ point.from \in Computeds => Rank[Bodies[point.from]] < Rank[point]
         /\ point.op = "return" => point.value \in Known
<1>1. /\ point.op \in {"get", "return", "fail"} /\ GoesOnIn(point, Pure) /\ Rank \in [Pure -> Nat]
      /\ point.op = "get" => /\ \A v \in Known : Rank[point.on[v]] < Rank[point]
                             /\ point.from \in Computeds => Rank[Bodies[point.from]] < Rank[point]
  BY ReactiveAssumption DEF ReactiveAssumption
<1> QED BY <1>1 DEF GoesOnIn

LEMMA ReactiveConstants ==
  /\ Observables \cap Computeds = {} /\ Nodes \cap Watches = {} /\ Nodes = Observables \cup Computeds
  /\ FirstValue \in Known /\ Nothing \in Known /\ Values \subseteq Known
  /\ \A c \in Computeds : Bodies[c] \in Pure
  /\ \A r \in Readers : Bodies[r] \in Points
  /\ Readers = Computeds \cup Watches
BY ReactiveAssumption DEF ReactiveAssumption, Nodes, Readers

LEMMA AnsweredKnown ==
  ASSUME NEW v \in [Observables -> Known], NEW f \in [Pure -> Known]
  PROVE  Answered(v, f) \in [Nodes -> Known]
BY ReactiveConstants DEF Answered

LEMMA StepKnown ==
  ASSUME NEW f \in [Pure -> Known], NEW a \in [Nodes -> Known], NEW point \in Pure
  PROVE  Step(point, f, a) \in Known
BY PurePoints, ReactiveConstants DEF Step

\* A step looks only at points that come later.
LEMMA StepLater ==
  ASSUME NEW v \in [Observables -> Known], NEW f \in [Pure -> Known], NEW g \in [Pure -> Known], NEW point \in Pure,
         \A q \in Pure : Rank[q] < Rank[point] => f[q] = g[q]
  PROVE  Step(point, f, Answered(v, f)) = Step(point, g, Answered(v, g))
<1>1. CASE point.op = "get"
  <2>1. /\ point.from \in Nodes /\ point.on \in [Known -> Pure] /\ \A u \in Known : Rank[point.on[u]] < Rank[point]
        /\ point.from \in Computeds => Rank[Bodies[point.from]] < Rank[point]
    BY <1>1, PurePoints
  <2>2. Answered(v, f)[point.from] = Answered(v, g)[point.from]
    BY <2>1, ReactiveConstants DEF Answered
  <2>3. Answered(v, f)[point.from] \in Known
    BY <2>1, AnsweredKnown
  <2> QED BY <1>1, <2>1, <2>2, <2>3 DEF Step
<1> QED BY <1>1 DEF Step

\* There is a function that is what its steps give.
LEMMA ResultExists ==
  ASSUME NEW v \in [Observables -> Known]
  PROVE  \E f \in [Pure -> Known] : \A point \in Pure : f[point] = Step(point, f, Answered(v, f))
<1> DEFINE Up(f, k) == \A p \in Pure : Rank[p] < k => f[p] = Step(p, f, Answered(v, f))
           S == {k \in Nat : \E f \in [Pure -> Known] : Up(f, k)}
           U == {k \in Nat : \A f, g \in [Pure -> Known] : Up(f, k) /\ Up(g, k) =>
                                \A p \in Pure : Rank[p] < k => f[p] = g[p]}
<1>0. \A p \in Pure : Rank[p] \in Nat
  BY PurePoints
<1>1. 0 \in S
  <2>1. [p \in Pure |-> Nothing] \in [Pure -> Known]
    BY ReactiveConstants
  <2>2. \A p \in Pure : ~(Rank[p] < 0)
    BY <1>0
  <2>3. \E f \in [Pure -> Known] : Up(f, 0)
    BY <2>1, <2>2
  <2> QED BY <2>3
<1>2. ASSUME NEW k \in S PROVE k + 1 \in S
  <2>1. PICK f \in [Pure -> Known] : Up(f, k)
    OBVIOUS
  <2> DEFINE g == [p \in Pure |-> Step(p, f, Answered(v, f))]
  <2>2. g \in [Pure -> Known]
    BY StepKnown, AnsweredKnown
  <2>3. \A p \in Pure : Rank[p] < k => f[p] = g[p]
    BY <2>1
  <2>4. ASSUME NEW p \in Pure, Rank[p] < k + 1 PROVE g[p] = Step(p, g, Answered(v, g))
    <3>1. \A q \in Pure : Rank[q] < Rank[p] => f[q] = g[q]
      BY <1>0, <2>3, <2>4
    <3> HIDE DEF g
    <3>2. Step(p, f, Answered(v, f)) = Step(p, g, Answered(v, g))
      BY <2>2, <3>1, StepLater
    <3> QED BY <3>2 DEF g
  <2>5. Up(g, k + 1)
    BY <2>4
  <2> HIDE DEF g, Up
  <2> QED BY <2>2, <2>5
<1>3. S = Nat
  <2>1. S \subseteq Nat
    OBVIOUS
  <2> HIDE DEF S
  <2> QED BY <1>1, <1>2, <2>1, AllNumbers, Zenon
<1>4. 0 \in U
  BY <1>0
<1>5. ASSUME NEW k \in U PROVE k + 1 \in U
  <2> SUFFICES ASSUME NEW f \in [Pure -> Known], NEW g \in [Pure -> Known], Up(f, k + 1), Up(g, k + 1),
                      NEW p \in Pure, Rank[p] < k + 1
               PROVE  f[p] = g[p]
    OBVIOUS
  <2>1. Up(f, k) /\ Up(g, k)
    BY <1>0
  <2>2. \A q \in Pure : Rank[q] < k => f[q] = g[q]
    BY <2>1
  <2>3. \A q \in Pure : Rank[q] < Rank[p] => f[q] = g[q]
    BY <1>0, <2>2
  <2>4. Step(p, f, Answered(v, f)) = Step(p, g, Answered(v, g))
    BY <2>3, StepLater
  <2> QED BY <2>4
<1>6. U = Nat
  <2>1. U \subseteq Nat
    OBVIOUS
  <2> HIDE DEF U
  <2> QED BY <1>4, <1>5, <2>1, AllNumbers, Zenon
<1> DEFINE h(k) == CHOOSE f \in [Pure -> Known] : Up(f, k)
           F == [p \in Pure |-> h(Rank[p] + 1)[p]]
<1>7. \A k \in Nat : h(k) \in [Pure -> Known] /\ Up(h(k), k)
  <2> SUFFICES ASSUME NEW k \in Nat PROVE h(k) \in [Pure -> Known] /\ Up(h(k), k)
    OBVIOUS
  <2>1. k \in S
    BY <1>3
  <2>2. \E f \in [Pure -> Known] : Up(f, k)
    BY <2>1
  <2> HIDE DEF Up
  <2> QED BY <2>2
<1>8. \A k \in Nat : \A f, g \in [Pure -> Known] : Up(f, k) /\ Up(g, k) => \A p \in Pure : Rank[p] < k => f[p] = g[p]
  <2>1. \A k \in Nat : k \in U
    BY <1>6
  <2> HIDE DEF Up
  <2> QED BY <2>1
<1> HIDE DEF S, U, h
<1>9. F \in [Pure -> Known]
  BY <1>0, <1>7
<1>10. ASSUME NEW p \in Pure, NEW q \in Pure, Rank[q] < Rank[p] + 1
       PROVE  F[q] = h(Rank[p] + 1)[q]
  <2>1. Rank[p] + 1 \in Nat /\ Rank[q] + 1 \in Nat /\ Rank[q] < Rank[q] + 1
    BY <1>0
  <2>2. Up(h(Rank[p] + 1), Rank[q] + 1)
    <3>1. Up(h(Rank[p] + 1), Rank[p] + 1)
      BY <1>7, <2>1
    <3> QED BY <1>0, <1>10, <3>1
  <2>3. Up(h(Rank[q] + 1), Rank[q] + 1)
    BY <1>7, <2>1
  <2> HIDE DEF Up
  <2>4. h(Rank[q] + 1)[q] = h(Rank[p] + 1)[q]
    BY <1>7, <1>8, <2>1, <2>2, <2>3
  <2> QED BY <2>4
<1>11. ASSUME NEW p \in Pure PROVE F[p] = Step(p, F, Answered(v, F))
  <2> DEFINE g == h(Rank[p] + 1)
  <2>1. /\ Rank[p] \in Nat /\ Rank[p] + 1 \in Nat /\ Rank[p] < Rank[p] + 1
        /\ \A q \in Pure : Rank[q] < Rank[p] => Rank[q] < Rank[p] + 1
    BY <1>0
  <2>2. g \in [Pure -> Known] /\ g[p] = Step(p, g, Answered(v, g))
    BY <1>7, <2>1
  <2>3. F[p] = g[p] /\ \A q \in Pure : Rank[q] < Rank[p] => F[q] = g[q]
    BY <1>10, <2>1
  <2> HIDE DEF g, F
  <2>4. Step(p, F, Answered(v, F)) = Step(p, g, Answered(v, g))
    BY <1>9, <2>2, <2>3, StepLater
  <2> QED BY <2>2, <2>3, <2>4
<1> HIDE DEF F
<1> QED BY <1>9, <1>11

\* Result is that function.
LEMMA ResultSolves ==
  ASSUME cells.value \in [Observables -> Known]
  PROVE  Solves(Result, [n \in Nodes |-> Fresh(n)])
<1> DEFINE v == cells.value
           Def(f) == [point \in Pure |->
                        CASE point.op = "get" -> f[point.on[IF point.from \in Observables THEN v[point.from]
                                                            ELSE f[Bodies[point.from]]]]
                          [] point.op = "return" -> point.value
                          [] OTHER -> Nothing]
<1>1. PICK f \in [Pure -> Known] : \A point \in Pure : f[point] = Step(point, f, Answered(v, f))
  BY ResultExists
<1>2. ASSUME NEW g \in [Pure -> Known], NEW point \in Pure PROVE Def(g)[point] = Step(point, g, Answered(v, g))
  BY PurePoints DEF Step, Answered
<1>3. f = Def(f)
  <2>1. f = [point \in Pure |-> f[point]]
    OBVIOUS
  <2>2. \A point \in Pure : f[point] = Def(f)[point]
    BY <1>1, <1>2
  <2>3. Def(f) = [point \in Pure |-> Def(f)[point]]
    OBVIOUS
  <2> HIDE DEF Def
  <2> QED BY <2>1, <2>2, <2>3
<1>4. Result = CHOOSE g : g = Def(g)
  BY Zenon DEF Result
<1>5. Result = Def(Result)
  <2> HIDE DEF Def
  <2> QED BY <1>3, <1>4
<1> DEFINE S == {k \in Nat : \A p \in Pure : Rank[p] < k => Result[p] = f[p]}
<1>6. 0 \in S
  BY PurePoints
<1>7. ASSUME NEW k \in S PROVE k + 1 \in S
  <2> SUFFICES ASSUME NEW p \in Pure, Rank[p] < k + 1 PROVE Result[p] = f[p]
    OBVIOUS
  <2>1. \A q \in Pure : Rank[q] < Rank[p] => Result[q] = f[q]
    BY PurePoints
  <2>2. Result[p] = Def(Result)[p]
    BY <1>5
  <2> HIDE DEF S
  <2>3. Def(Result)[p] = Def(f)[p]
    <3>1. CASE p.op = "get"
      <4>1. /\ p.from \in Nodes /\ p.on \in [Known -> Pure] /\ \A u \in Known : Rank[p.on[u]] < Rank[p]
            /\ p.from \in Computeds => Rank[Bodies[p.from]] < Rank[p]
        BY <3>1, PurePoints
      <4>2. p.from \in Computeds => Bodies[p.from] \in Pure
        BY ReactiveConstants
      <4> DEFINE u == IF p.from \in Observables THEN v[p.from] ELSE f[Bodies[p.from]]
      <4>3. u = IF p.from \in Observables THEN v[p.from] ELSE Result[Bodies[p.from]]
        BY <2>1, <4>1, <4>2, ReactiveConstants
      <4>4. u \in Known
        BY <4>1, <4>2, ReactiveConstants
      <4>5. Def(Result)[p] = Result[p.on[u]]
        BY <3>1, <4>3, Zenon
      <4>6. Def(f)[p] = f[p.on[u]]
        BY <3>1, Zenon
      <4> HIDE DEF u
      <4>7. p.on[u] \in Pure /\ Rank[p.on[u]] < Rank[p]
        BY <4>1, <4>4
      <4> QED BY <2>1, <4>5, <4>6, <4>7
    <3>2. CASE p.op # "get"
      BY <3>2
    <3> QED BY <3>1, <3>2
  <2> QED BY <1>3, <2>2, <2>3
<1>8. S = Nat
  <2>1. S \subseteq Nat
    OBVIOUS
  <2> HIDE DEF S
  <2> QED BY <1>6, <1>7, <2>1, AllNumbers, Zenon
<1>9. \A p \in Pure : Result[p] = f[p]
  <2> SUFFICES ASSUME NEW p \in Pure PROVE Result[p] = f[p]
    OBVIOUS
  <2>1. Rank[p] + 1 \in Nat /\ Rank[p] < Rank[p] + 1
    BY PurePoints
  <2>2. Rank[p] + 1 \in S
    BY <1>8, <2>1
  <2> QED BY <2>1, <2>2
<1>10. Result = f
  <2>1. Result = [p \in Pure |-> Result[p]]
    BY <1>5, Zenon
  <2>2. f = [p \in Pure |-> f[p]]
    OBVIOUS
  <2> QED BY <1>9, <2>1, <2>2, Zenon
<1>11. [n \in Nodes |-> Fresh(n)] = Answered(v, f)
  BY <1>10, Zenon DEF Fresh, Answered
<1> HIDE DEF v
<1>12. Answered(v, f) \in [Nodes -> Known]
  BY AnsweredKnown DEF v
<1> QED BY <1>1, <1>10, <1>11, <1>12 DEF Solves

----------------------------------------------------------------------------
(* Reactive: the inductive invariant.                                      *)

BodyCalls == [kind : {"body"}, who : Readers, rest : Points, tracked : BOOLEAN]
MarkCalls == [kind : {"mark"}, of : Nodes, among : SUBSET Readers, done : SUBSET Readers]
FlushCalls == [kind : {"flush"}, todo : SUBSET Watches]
Calls == BodyCalls \cup MarkCalls \cup FlushCalls

CellTypes ==
  [value : [Observables -> Known], cached : [Computeds -> Known], dirty : SUBSET Computeds,
   dependents : [Nodes -> SUBSET Readers], dependencies : [Readers -> SUBSET Nodes]]

ReactiveTypes ==
  /\ cells \in CellTypes
  /\ watchers \in [live : SUBSET Watches, running : SUBSET Watches, disposed : SUBSET Watches, depth : Nat,
                   pending : SUBSET Watches]
  /\ calls \in Seq(Calls)
  /\ noted \in [saw : [Watches -> SUBSET (Nodes \X Known)], missed : SUBSET Watches]

\* Both sides of a dependency agree, and what a computed value reads has less to do.
Linked(k) ==
  /\ \A n \in Nodes, r \in Readers : r \in k.dependents[n] <=> n \in k.dependencies[r]
  /\ \A c \in Computeds : \A n \in k.dependencies[c] : n \in Computeds => Rank[Bodies[n]] < Rank[Bodies[c]]

IsBody(x) == x.kind = "body"
Computes(x) == x.kind = "body" /\ x.who \in Computeds

\* Computed values are computed on top of the stack, each for the body below it; a body runs once at a time.
Stacked(s, dirty, running) ==
  /\ \A i \in DOMAIN s : Computes(s[i]) =>
       s[i].rest \in Pure /\ s[i].tracked /\ Rank[s[i].rest] <= Rank[Bodies[s[i].who]] /\ s[i].who \in dirty
  /\ \A i \in DOMAIN s : s[i].kind = "flush" => i = Len(s)
  /\ \A i, j \in DOMAIN s :
       i < j /\ Computes(s[j]) => Computes(s[i]) /\ Rank[Bodies[s[i].who]] < Rank[Bodies[s[j].who]]
  /\ \A i \in DOMAIN s :
       i > 1 /\ IsBody(s[i - 1]) /\ IsBody(s[i]) =>
         Computes(s[i - 1]) /\ s[i].rest.op = "get" /\ s[i].rest.from = s[i - 1].who
  /\ \A i, j \in DOMAIN s : IsBody(s[i]) /\ IsBody(s[j]) /\ s[i].who = s[j].who => i = j
  /\ \A w \in Watches : w \in running <=> \E i \in DOMAIN s : IsBody(s[i]) /\ s[i].who = w

\* A loop over dependents has still to come to d; a batch, to w.
Owes(x, k, d) == x.kind = "mark" /\ d \in (x.among \ x.done) \cap k.dependents[x.of]
Owed(s, k, d) == \E i \in DOMAIN s : Owes(s[i], k, d)
ToDo(s, w) == \E i \in DOMAIN s : s[i].kind = "flush" /\ w \in s[i].todo

AnswerIn(k, n) == IF n \in Observables THEN k.value[n] ELSE k.cached[n]

\* Whatever the rest of the values, the function of c gives what its point p gives, or the value v.
Solutions == {s \in [Pure -> Known] \X [Nodes -> Known] : Solves(s[1], s[2])}
Agrees(k, c, a) == \A n \in k.dependencies[c] \ k.dirty : a[n] = AnswerIn(k, n)
Reaches(k, c, p) == \A s \in Solutions : Agrees(k, c, s[2]) => s[1][Bodies[c]] = s[1][p]
Gives(k, c, v) == \A s \in Solutions : Agrees(k, c, s[2]) => s[1][Bodies[c]] = v

\* A computed value that is not dirty is what its dependencies give, or a loop has still to come to it.
Current(s, k, c) == Owed(s, k, c) \/ (k.dependencies[c] \cap k.dirty = {} /\ Gives(k, c, k.cached[c]))

\* A body depends on what it has read, and perhaps on what it is about to read.
Awaited(x) == IF x.rest.op = "get" /\ x.tracked THEN {x.rest.from} ELSE {}
ReadBy(saw, w) == {note[1] : note \in saw[w]}
Accounted(x, awaited, k, saw) ==
  IF x.who \in Computeds THEN k.dependencies[x.who] \cap k.dirty \subseteq awaited /\ Reaches(k, x.who, x.rest)
  ELSE k.dependencies[x.who] \subseteq ReadBy(saw, x.who) \cup awaited
Progress(s, k, saw) ==
  \A i \in DOMAIN s :
    IsBody(s[i]) => Accounted(s[i], IF i = 1 \/ IsBody(s[i - 1]) THEN Awaited(s[i]) ELSE {}, k, saw)

\* What a watch has noticed holds.
Holds(k, noticed) == \A note \in noticed : note[1] \notin k.dirty /\ AnswerIn(k, note[1]) = note[2]

\* What holds for one watch.
Told1(s, k, ws, nt, w) ==
  /\ ReadBy(nt.saw, w) \subseteq k.dependencies[w]
  /\ w \notin ws.running => k.dependencies[w] \subseteq ReadBy(nt.saw, w)
  /\ w \in ws.pending \cup nt.missed \/ Owed(s, k, w) \/ ToDo(s, w) \/ Holds(k, nt.saw[w])

WatchesTold(s, k, ws, nt) ==
  /\ ws.live \cap ws.disposed = {} /\ (ws.depth = 0 => ws.pending = {})
  /\ \A w \in Watches \ ws.disposed : Told1(s, k, ws, nt, w)

ReactiveInv ==
  /\ ReactiveTypes /\ Linked(cells) /\ Stacked(calls, cells.dirty, watchers.running)
  /\ \A c \in Computeds \ cells.dirty : Current(calls, cells, c)
  /\ Progress(calls, cells, noted.saw) /\ WatchesTold(calls, cells, watchers, noted)

----------------------------------------------------------------------------
(* Reactive: what is pushed and popped.                                    *)

LEMMA PushedCalls ==
  ASSUME NEW s \in Seq(Calls), NEW x \in Calls
  PROVE  /\ <<x>> \o s \in Seq(Calls) /\ <<x>> \o s # <<>>
         /\ Len(s) \in Nat /\ Len(<<x>> \o s) = Len(s) + 1
         /\ DOMAIN s = 1..Len(s) /\ DOMAIN (<<x>> \o s) = 1..Len(s) + 1
         /\ (<<x>> \o s)[1] = x /\ \A i \in 2..Len(s) + 1 : (<<x>> \o s)[i] = s[i - 1]
         /\ s = <<>> <=> Len(s) = 0
<1> DEFINE t == <<x>> \o s
<1>1. Len(s) \in Nat /\ DOMAIN s = 1..Len(s) /\ <<x>> \in Seq(Calls) /\ Len(<<x>>) = 1 /\ <<x>>[1] = x
  OBVIOUS
<1>2. t \in Seq(Calls) /\ Len(t) = Len(s) + 1
  BY <1>1
<1>3. DOMAIN t = 1..Len(s) + 1
  BY <1>1, <1>2
<1>4. t[1] = x
  BY <1>1
<1>5. \A i \in 2..Len(s) + 1 : t[i] = s[i - 1]
  BY <1>1
<1>6. s = <<>> <=> Len(s) = 0
  OBVIOUS
<1>7. t # <<>>
  BY <1>1, <1>2
<1> QED BY <1>1, <1>2, <1>3, <1>4, <1>5, <1>6, <1>7

LEMMA PoppedCalls ==
  ASSUME NEW s \in Seq(Calls), s # <<>>
  PROVE  /\ Tail(s) \in Seq(Calls) /\ Len(Tail(s)) = Len(s) - 1 /\ Len(s) \in Nat \ {0}
         /\ DOMAIN s = 1..Len(s) /\ DOMAIN Tail(s) = 1..Len(s) - 1
         /\ \A i \in 1..Len(s) - 1 : Tail(s)[i] = s[i + 1]
         /\ Head(s) = s[1] /\ s[1] \in Calls
         /\ Tail(s) = <<>> <=> Len(s) = 1
<1>1. Len(s) \in Nat \ {0} /\ DOMAIN s = 1..Len(s) /\ Head(s) = s[1]
  OBVIOUS
<1>2. s[1] \in Calls
  BY <1>1
<1>3. Tail(s) \in Seq(Calls) /\ Len(Tail(s)) = Len(s) - 1
  BY <1>1
<1>4. DOMAIN Tail(s) = 1..Len(s) - 1
  BY <1>1, <1>3
<1>5. \A i \in 1..Len(s) - 1 : Tail(s)[i] = s[i + 1]
  BY <1>1
<1>6. Tail(s) = <<>> <=> Len(s) = 1
  <2>1. \A t \in Seq(Calls) : t = <<>> <=> Len(t) = 0
    OBVIOUS
  <2> DEFINE t == Tail(s)
             n == Len(s)
  <2>2. t \in Seq(Calls) /\ Len(t) = n - 1 /\ n \in Nat
    BY <1>1, <1>3
  <2> HIDE DEF t, n
  <2>3. t = <<>> <=> n = 1
    BY <2>1, <2>2
  <2> QED BY <2>3 DEF t, n
<1> QED BY <1>1, <1>2, <1>3, <1>4, <1>5, <1>6

LEMMA PushSome ==
  ASSUME NEW s \in Seq(Calls), NEW x \in Calls, NEW P
  PROVE  (\E i \in DOMAIN (<<x>> \o s) : (<<x>> \o s)[i] \in P) <=> (x \in P \/ \E i \in DOMAIN s : s[i] \in P)
<1> DEFINE t == <<x>> \o s
<1>1. /\ Len(s) \in Nat /\ DOMAIN s = 1..Len(s) /\ DOMAIN t = 1..Len(s) + 1 /\ t[1] = x
      /\ \A i \in 2..Len(s) + 1 : t[i] = s[i - 1]
  BY PushedCalls
<1> HIDE DEF t
<1>2. ASSUME NEW i \in DOMAIN t, t[i] \in P PROVE x \in P \/ \E j \in DOMAIN s : s[j] \in P
  <2>1. CASE i = 1
    BY <1>1, <1>2, <2>1
  <2>2. CASE i # 1
    <3>1. i - 1 \in DOMAIN s /\ t[i] = s[i - 1]
      BY <1>1, <2>2
    <3> QED BY <1>2, <3>1
  <2> QED BY <2>1, <2>2
<1>3. ASSUME NEW j \in DOMAIN s, s[j] \in P PROVE \E i \in DOMAIN t : t[i] \in P
  <2>1. j + 1 \in DOMAIN t /\ t[j + 1] = s[j]
    BY <1>1
  <2> QED BY <1>3, <2>1
<1>4. 1 \in DOMAIN t
  BY <1>1
<1> QED BY <1>1, <1>2, <1>3, <1>4 DEF t

LEMMA OwedPush ==
  ASSUME NEW s \in Seq(Calls), NEW x \in Calls, NEW k, NEW d
  PROVE  Owed(<<x>> \o s, k, d) <=> (Owes(x, k, d) \/ Owed(s, k, d))
<1> DEFINE P == {y \in Calls : Owes(y, k, d)}
           t == <<x>> \o s
<1>1. (\E i \in DOMAIN t : t[i] \in P) <=> (x \in P \/ \E i \in DOMAIN s : s[i] \in P)
  BY PushSome
<1>2. (\A i \in DOMAIN s : s[i] \in Calls) /\ (\A i \in DOMAIN t : t[i] \in Calls)
  <2>1. t \in Seq(Calls)
    BY PushedCalls
  <2> QED BY <2>1
<1> HIDE DEF t
<1> QED BY <1>1, <1>2 DEF Owed, t

LEMMA ToDoPush ==
  ASSUME NEW s \in Seq(Calls), NEW x \in Calls, NEW w
  PROVE  ToDo(<<x>> \o s, w) <=> ((x.kind = "flush" /\ w \in x.todo) \/ ToDo(s, w))
<1> DEFINE P == {y \in Calls : y.kind = "flush" /\ w \in y.todo}
           t == <<x>> \o s
<1>1. (\E i \in DOMAIN t : t[i] \in P) <=> (x \in P \/ \E i \in DOMAIN s : s[i] \in P)
  BY PushSome
<1>2. (\A i \in DOMAIN s : s[i] \in Calls) /\ (\A i \in DOMAIN t : t[i] \in Calls)
  <2>1. t \in Seq(Calls)
    BY PushedCalls
  <2> QED BY <2>1
<1> HIDE DEF t
<1> QED BY <1>1, <1>2 DEF ToDo, t

LEMMA TopAndTail ==
  ASSUME NEW s \in Seq(Calls), s # <<>>
  PROVE  s = <<Head(s)>> \o Tail(s) /\ Head(s) \in Calls /\ Tail(s) \in Seq(Calls)
OBVIOUS

LEMMA OwedTop ==
  ASSUME NEW s \in Seq(Calls), s # <<>>, NEW k, NEW d
  PROVE  Owed(s, k, d) <=> (Owes(Head(s), k, d) \/ Owed(Tail(s), k, d))
<1>1. s = <<Head(s)>> \o Tail(s) /\ Head(s) \in Calls /\ Tail(s) \in Seq(Calls)
  BY TopAndTail
<1> QED BY <1>1, OwedPush, Zenon

LEMMA ToDoTop ==
  ASSUME NEW s \in Seq(Calls), s # <<>>, NEW w
  PROVE  ToDo(s, w) <=> ((Head(s).kind = "flush" /\ w \in Head(s).todo) \/ ToDo(Tail(s), w))
<1>1. s = <<Head(s)>> \o Tail(s) /\ Head(s) \in Calls /\ Tail(s) \in Seq(Calls)
  BY TopAndTail
<1> QED BY <1>1, ToDoPush, Zenon

\* What may be pushed.
Fits(x, s, dirty, running) ==
  /\ x.kind = "mark" => s = <<>> \/ ~Computes(s[1])
  /\ x.kind = "flush" => s = <<>>
  /\ IsBody(x) /\ x.who \in Watches => (s = <<>> \/ ~IsBody(s[1])) /\ x.who \notin running
  /\ Computes(x) =>
       /\ x.rest \in Pure /\ x.tracked /\ Rank[x.rest] <= Rank[Bodies[x.who]] /\ x.who \in dirty
       /\ s # <<>> /\ IsBody(s[1]) =>
            /\ s[1].rest.op = "get" /\ s[1].rest.from = x.who
            /\ Computes(s[1]) => Rank[Bodies[x.who]] < Rank[Bodies[s[1].who]]

Top(x) == IF IsBody(x) /\ x.who \in Watches THEN {x.who} ELSE {}

LEMMA CallKinds ==
  ASSUME NEW x \in Calls
  PROVE  /\ x.kind \in {"body", "mark", "flush"}
         /\ IsBody(x) => x \in BodyCalls /\ x.who \in Readers /\ x.rest \in Points /\ x.tracked \in BOOLEAN
         /\ x.kind = "mark" => x \in MarkCalls /\ x.of \in Nodes /\ x.among \subseteq Readers /\ x.done \subseteq Readers
         /\ x.kind = "flush" => x \in FlushCalls /\ x.todo \subseteq Watches
BY DEF Calls, BodyCalls, MarkCalls, FlushCalls, IsBody

LEMMA StackedPush ==
  ASSUME NEW s \in Seq(Calls), NEW x \in Calls, NEW dirty, NEW running, NEW dirty2,
         Stacked(s, dirty, running), dirty \subseteq dirty2, Fits(x, s, dirty2, running)
  PROVE  Stacked(<<x>> \o s, dirty2, running \cup Top(x))
<1> DEFINE t == <<x>> \o s
<1>1. /\ Len(s) \in Nat /\ DOMAIN s = 1..Len(s) /\ DOMAIN t = 1..Len(s) + 1 /\ t[1] = x /\ Len(t) = Len(s) + 1
      /\ \A i \in 2..Len(s) + 1 : t[i] = s[i - 1] /\ i - 1 \in DOMAIN s
      /\ \A i \in DOMAIN t : i = 1 \/ i \in 2..Len(s) + 1
      /\ s = <<>> <=> Len(s) = 0
  BY PushedCalls
<1>2. \A i \in DOMAIN s : s[i] \in Calls
  OBVIOUS
<1>3. Readers = Computeds \cup Watches /\ Computeds \cap Watches = {}
  BY ReactiveConstants
<1>4. \A i \in DOMAIN s : IsBody(s[i]) => s[i].who \in Readers
  BY <1>2, CallKinds
<1>5. IsBody(x) => x.who \in Readers
  BY CallKinds
<1> HIDE DEF t
<1>6. \A i \in DOMAIN t : Computes(t[i]) =>
        t[i].rest \in Pure /\ t[i].tracked /\ Rank[t[i].rest] <= Rank[Bodies[t[i].who]] /\ t[i].who \in dirty2
  BY <1>1 DEF Stacked, Fits
<1>7. \A i \in DOMAIN t : t[i].kind = "flush" => i = Len(t)
  BY <1>1 DEF Stacked, Fits
<1>r. \A c \in Computeds : Rank[Bodies[c]] \in Nat
  BY ReactiveConstants, PurePoints
<1>8. ASSUME NEW i \in DOMAIN s, Computes(s[i])
      PROVE  Computes(x) /\ Rank[Bodies[x.who]] < Rank[Bodies[s[i].who]]
  <2>1. Computes(s[1]) /\ 1 \in DOMAIN s /\ s # <<>>
        /\ (i # 1 => Rank[Bodies[s[1].who]] < Rank[Bodies[s[i].who]])
    <3>1. 1 \in DOMAIN s /\ s # <<>> /\ (i # 1 => 1 < i)
      BY <1>1
    <3> QED BY <1>8, <3>1 DEF Stacked
  <2>2. Computes(x)
    BY <1>3, <1>5, <2>1, CallKinds DEF Fits, Computes, IsBody
  <2>3. Rank[Bodies[x.who]] < Rank[Bodies[s[1].who]]
    BY <2>1, <2>2 DEF Fits, Computes, IsBody
  <2>4. Rank[Bodies[x.who]] \in Nat /\ Rank[Bodies[s[1].who]] \in Nat /\ Rank[Bodies[s[i].who]] \in Nat
    BY <1>8, <1>r, <2>1, <2>2 DEF Computes
  <2> QED BY <2>1, <2>2, <2>3, <2>4
<1>9. ASSUME NEW i \in DOMAIN t, NEW j \in DOMAIN t, i < j, Computes(t[j])
      PROVE  Computes(t[i]) /\ Rank[Bodies[t[i].who]] < Rank[Bodies[t[j].who]]
  <2>1. j \in 2..Len(s) + 1 /\ t[j] = s[j - 1] /\ j - 1 \in DOMAIN s
    BY <1>1, <1>9
  <2>2. CASE i = 1
    BY <1>1, <1>8, <1>9, <2>1, <2>2
  <2>3. CASE i # 1
    <3>1. t[i] = s[i - 1] /\ i - 1 \in DOMAIN s /\ i - 1 < j - 1
      BY <1>1, <1>9, <2>3
    <3> QED BY <1>9, <2>1, <3>1 DEF Stacked
  <2> QED BY <2>2, <2>3
<1>10. ASSUME NEW i \in DOMAIN t, i > 1, IsBody(t[i - 1]), IsBody(t[i])
       PROVE  Computes(t[i - 1]) /\ t[i].rest.op = "get" /\ t[i].rest.from = t[i - 1].who
  <2>1. t[i] = s[i - 1] /\ i - 1 \in DOMAIN s /\ i \in 2..Len(s) + 1
    BY <1>1, <1>10
  <2>2. CASE i = 2
    <3>1. t[2] = s[1] /\ t[1] = x /\ s # <<>> /\ t[i - 1] = x /\ t[i] = s[1]
      BY <1>1, <2>1, <2>2
    <3>2. Computes(x)
      BY <1>3, <1>5, <1>10, <3>1 DEF Fits, Computes, IsBody
    <3> QED BY <1>10, <3>1, <3>2 DEF Fits
  <2>3. CASE i # 2
    <3>1. t[i - 1] = s[i - 2] /\ i - 2 \in DOMAIN s /\ i - 1 > 1 /\ (i - 1) - 1 = i - 2
      BY <1>1, <2>1, <2>3
    <3> QED BY <1>10, <2>1, <3>1 DEF Stacked
  <2> QED BY <2>2, <2>3
<1>11. ASSUME NEW j \in DOMAIN s, IsBody(s[j]), IsBody(x) PROVE s[j].who # x.who
  <2>1. CASE x.who \in Watches
    BY <1>11, <2>1 DEF Stacked, Fits
  <2>2. CASE x.who \in Computeds
    <3> SUFFICES ASSUME s[j].who = x.who PROVE FALSE
      OBVIOUS
    <3>1. Computes(s[j])
      BY <1>11, <2>2 DEF Computes, IsBody
    <3> QED BY <1>8, <1>r, <2>2, <3>1
  <2> QED BY <1>3, <1>5, <1>11, <2>1, <2>2
<1>12. ASSUME NEW i \in DOMAIN t, NEW j \in DOMAIN t, IsBody(t[i]), IsBody(t[j]), t[i].who = t[j].who
       PROVE  i = j
  <2>1. CASE i = 1 /\ j # 1
    BY <1>1, <1>11, <1>12, <2>1
  <2>2. CASE i # 1 /\ j = 1
    BY <1>1, <1>11, <1>12, <2>2
  <2>3. CASE i # 1 /\ j # 1
    <3>1. /\ t[i] = s[i - 1] /\ i - 1 \in DOMAIN s /\ t[j] = s[j - 1] /\ j - 1 \in DOMAIN s
          /\ i - 1 = j - 1 => i = j
      BY <1>1, <2>3
    <3> QED BY <1>12, <3>1 DEF Stacked
  <2> QED BY <2>1, <2>2, <2>3
<1>13. ASSUME NEW w \in Watches
       PROVE  w \in running \cup Top(x) <=> \E i \in DOMAIN t : IsBody(t[i]) /\ t[i].who = w
  <2>1. w \in running <=> \E i \in DOMAIN s : IsBody(s[i]) /\ s[i].who = w
    BY DEF Stacked
  <2>2. ASSUME NEW i \in DOMAIN s, IsBody(s[i]), s[i].who = w PROVE \E j \in DOMAIN t : IsBody(t[j]) /\ t[j].who = w
    <3>1. i + 1 \in DOMAIN t /\ t[i + 1] = s[i]
      BY <1>1
    <3> QED BY <2>2, <3>1
  <2>3. ASSUME NEW j \in DOMAIN t, IsBody(t[j]), t[j].who = w
        PROVE  (IsBody(x) /\ x.who = w) \/ \E i \in DOMAIN s : IsBody(s[i]) /\ s[i].who = w
    BY <1>1, <2>3
  <2>4. 1 \in DOMAIN t
    BY <1>1
  <2> QED BY <1>1, <2>1, <2>2, <2>3, <2>4 DEF Top
<1> QED BY <1>6, <1>7, <1>9, <1>10, <1>12, <1>13, Zenon DEF Stacked, t

LEMMA StackedPop ==
  ASSUME NEW s \in Seq(Calls), s # <<>>, NEW dirty, NEW running, Stacked(s, dirty, running)
  PROVE  /\ Stacked(Tail(s), IF Computes(s[1]) THEN dirty \ {s[1].who} ELSE dirty, running \ Top(s[1]))
         /\ IsBody(s[1]) /\ s[1].who \in Watches => Tail(s) = <<>> \/ ~IsBody(Tail(s)[1])
         /\ Computes(s[1]) /\ Tail(s) # <<>> /\ IsBody(Tail(s)[1]) =>
              /\ Tail(s)[1].rest.op = "get" /\ Tail(s)[1].rest.from = s[1].who
              /\ Computes(Tail(s)[1]) => Rank[Bodies[s[1].who]] < Rank[Bodies[Tail(s)[1].who]]
         /\ s[1].kind = "flush" => Tail(s) = <<>>
         /\ ~Computes(s[1]) => \A i \in DOMAIN s : ~Computes(s[i])
<1> DEFINE t == Tail(s)
           dirty2 == IF Computes(s[1]) THEN dirty \ {s[1].who} ELSE dirty
           running2 == running \ Top(s[1])
<1>1. /\ Len(t) = Len(s) - 1 /\ Len(s) \in Nat \ {0}
      /\ DOMAIN s = 1..Len(s) /\ DOMAIN t = 1..Len(s) - 1
      /\ \A i \in DOMAIN t : t[i] = s[i + 1] /\ i + 1 \in DOMAIN s /\ i + 1 > 1
      /\ t = <<>> <=> Len(s) = 1
  BY PoppedCalls
<1>2. 1 \in DOMAIN s
  BY <1>1
<1> HIDE DEF t
<1>3. \A i \in DOMAIN s : i > 1 /\ IsBody(s[i]) /\ IsBody(s[1]) => s[i].who # s[1].who
  BY <1>2 DEF Stacked
<1>4. \A i \in DOMAIN t : Computes(t[i]) =>
        t[i].rest \in Pure /\ t[i].tracked /\ Rank[t[i].rest] <= Rank[Bodies[t[i].who]] /\ t[i].who \in dirty2
  <2> SUFFICES ASSUME NEW i \in DOMAIN t, Computes(t[i])
               PROVE  t[i].rest \in Pure /\ t[i].tracked /\ Rank[t[i].rest] <= Rank[Bodies[t[i].who]]
                      /\ t[i].who \in dirty2
    OBVIOUS
  <2>1. t[i] = s[i + 1] /\ i + 1 \in DOMAIN s /\ i + 1 > 1
    BY <1>1
  <2> QED BY <1>3, <2>1 DEF Stacked, Computes, IsBody
<1>5. \A i \in DOMAIN t : t[i].kind = "flush" => i = Len(t)
  <2> SUFFICES ASSUME NEW i \in DOMAIN t, t[i].kind = "flush" PROVE i = Len(t)
    OBVIOUS
  <2>1. t[i] = s[i + 1] /\ i + 1 \in DOMAIN s
    BY <1>1
  <2>2. i + 1 = Len(s)
    BY <2>1 DEF Stacked
  <2> QED BY <1>1, <2>2
<1>6. ASSUME NEW i \in DOMAIN t, NEW j \in DOMAIN t, i < j, Computes(t[j])
      PROVE  Computes(t[i]) /\ Rank[Bodies[t[i].who]] < Rank[Bodies[t[j].who]]
  <2>1. t[i] = s[i + 1] /\ t[j] = s[j + 1] /\ i + 1 \in DOMAIN s /\ j + 1 \in DOMAIN s /\ i + 1 < j + 1
    BY <1>1, <1>6
  <2> QED BY <1>6, <2>1 DEF Stacked
<1>7. ASSUME NEW i \in DOMAIN t, i > 1, IsBody(t[i - 1]), IsBody(t[i])
      PROVE  Computes(t[i - 1]) /\ t[i].rest.op = "get" /\ t[i].rest.from = t[i - 1].who
  <2>1. t[i] = s[i + 1] /\ t[i - 1] = s[(i + 1) - 1] /\ i + 1 \in DOMAIN s /\ i + 1 > 1
    BY <1>1, <1>7
  <2> QED BY <1>7, <2>1 DEF Stacked
<1>8. ASSUME NEW i \in DOMAIN t, NEW j \in DOMAIN t, IsBody(t[i]), IsBody(t[j]), t[i].who = t[j].who
      PROVE  i = j
  <2>1. t[i] = s[i + 1] /\ t[j] = s[j + 1] /\ i + 1 \in DOMAIN s /\ j + 1 \in DOMAIN s /\ (i + 1 = j + 1 => i = j)
    BY <1>1
  <2> QED BY <1>8, <2>1 DEF Stacked
<1>9. ASSUME NEW w \in Watches
      PROVE  w \in running2 <=> \E i \in DOMAIN t : IsBody(t[i]) /\ t[i].who = w
  <2>1. w \in running <=> \E i \in DOMAIN s : IsBody(s[i]) /\ s[i].who = w
    BY DEF Stacked
  <2>2. w \in Top(s[1]) <=> IsBody(s[1]) /\ s[1].who = w
    BY DEF Top
  <2>3. ASSUME NEW i \in DOMAIN t, IsBody(t[i]), t[i].who = w
        PROVE  ~(IsBody(s[1]) /\ s[1].who = w) /\ \E j \in DOMAIN s : IsBody(s[j]) /\ s[j].who = w
    <3>1. t[i] = s[i + 1] /\ i + 1 \in DOMAIN s /\ i + 1 > 1
      BY <1>1
    <3> QED BY <1>3, <2>3, <3>1
  <2>4. ASSUME NEW j \in DOMAIN s, IsBody(s[j]), s[j].who = w, j # 1
        PROVE  \E i \in DOMAIN t : IsBody(t[i]) /\ t[i].who = w
    <3>1. j - 1 \in DOMAIN t /\ t[j - 1] = s[j]
      BY <1>1, <2>4
    <3> QED BY <2>4, <3>1
  <2> QED BY <2>1, <2>2, <2>3, <2>4
<1>10. Stacked(t, dirty2, running2)
  <2> HIDE DEF dirty2, running2
  <2> QED BY <1>4, <1>5, <1>6, <1>7, <1>8, <1>9, Zenon DEF Stacked
<1>11. ASSUME t # <<>> PROVE t[1] = s[2] /\ 2 \in DOMAIN s /\ 2 > 1 /\ 2 - 1 = 1 /\ 1 < 2
  BY <1>1, <1>11
<1>12. Computeds \cap Watches = {}
  BY ReactiveConstants
<1>13. IsBody(s[1]) /\ s[1].who \in Watches => t = <<>> \/ ~IsBody(t[1])
  BY <1>11, <1>12 DEF Stacked, Computes
<1>14. Computes(s[1]) /\ t # <<>> /\ IsBody(t[1]) =>
              /\ t[1].rest.op = "get" /\ t[1].rest.from = s[1].who
              /\ Computes(t[1]) => Rank[Bodies[s[1].who]] < Rank[Bodies[t[1].who]]
  BY <1>2, <1>11 DEF Stacked, Computes, IsBody
<1>15. s[1].kind = "flush" => t = <<>>
  BY <1>1, <1>2 DEF Stacked
<1>16. ~Computes(s[1]) => \A i \in DOMAIN s : ~Computes(s[i])
  <2> SUFFICES ASSUME NEW i \in DOMAIN s, Computes(s[i]), i # 1 PROVE Computes(s[1])
    OBVIOUS
  <2>1. 1 < i
    BY <1>1
  <2> QED BY <1>2, <2>1 DEF Stacked
<1> QED BY <1>10, <1>13, <1>14, <1>15, <1>16 DEF t

\* A body that goes on is accounted for as before, when the cells and the notes become others.
Keeps(x, k, saw, k2, saw2) == \A awaited : Accounted(x, awaited, k, saw) => Accounted(x, awaited, k2, saw2)

LEMMA WatchKeeps ==
  ASSUME NEW x \in Calls, IsBody(x), x.who \in Watches, NEW k, NEW k2, NEW saw, NEW saw2,
         k2.dependencies[x.who] = k.dependencies[x.who], saw2[x.who] = saw[x.who]
  PROVE  Keeps(x, k, saw, k2, saw2)
BY ReactiveConstants DEF Keeps, Accounted, ReadBy

LEMMA AgreesKept ==
  ASSUME NEW k, NEW k2, NEW c, NEW a,
         k2.dependencies[c] = k.dependencies[c], k2.dirty \subseteq k.dirty,
         \A n \in k.dependencies[c] \ k.dirty : AnswerIn(k2, n) = AnswerIn(k, n),
         Agrees(k2, c, a)
  PROVE  Agrees(k, c, a)
BY DEF Agrees

LEMMA ComputedKeeps ==
  ASSUME NEW x, x.who \in Computeds, NEW k, NEW k2, NEW saw, NEW saw2,
         k2.dependencies[x.who] = k.dependencies[x.who], k2.dirty \subseteq k.dirty,
         \A n \in k.dependencies[x.who] \ k.dirty : AnswerIn(k2, n) = AnswerIn(k, n)
  PROVE  Keeps(x, k, saw, k2, saw2)
<1> DEFINE c == x.who
<1>1. \A a : Agrees(k2, c, a) => Agrees(k, c, a)
  BY AgreesKept
<1>2. Reaches(k, c, x.rest) => Reaches(k2, c, x.rest)
  BY <1>1 DEF Reaches
<1> QED BY <1>2 DEF Keeps, Accounted

LEMMA ProgressPop ==
  ASSUME NEW s \in Seq(Calls), s # <<>>, NEW k, NEW k2, NEW saw, NEW saw2, Progress(s, k, saw),
         \A i \in DOMAIN s : i > 1 /\ IsBody(s[i]) => Keeps(s[i], k, saw, k2, saw2)
  PROVE  /\ Progress(Tail(s), k2, saw2)
         /\ ~IsBody(s[1]) /\ Tail(s) # <<>> /\ IsBody(Tail(s)[1]) => Accounted(Tail(s)[1], {}, k2, saw2)
<1> DEFINE t == Tail(s)
           Mine(i) == IF i = 1 \/ IsBody(s[i - 1]) THEN Awaited(s[i]) ELSE {}
<1>1. /\ Len(s) \in Nat \ {0} /\ DOMAIN s = 1..Len(s) /\ DOMAIN t = 1..Len(s) - 1
      /\ \A i \in DOMAIN t : t[i] = s[i + 1] /\ i + 1 \in DOMAIN s /\ i + 1 > 1 /\ (i + 1) - 1 = i
      /\ t = <<>> <=> Len(s) = 1
  BY PoppedCalls
<1> HIDE DEF t
<1>2. \A i \in DOMAIN s : IsBody(s[i]) => Accounted(s[i], Mine(i), k, saw)
  BY DEF Progress
<1> HIDE DEF Mine
<1>3. \A i \in DOMAIN s : i > 1 /\ IsBody(s[i]) => Accounted(s[i], Mine(i), k2, saw2)
  BY <1>2 DEF Keeps
<1>4. ASSUME NEW i \in DOMAIN t, IsBody(t[i])
      PROVE  Accounted(t[i], IF i = 1 \/ IsBody(t[i - 1]) THEN Awaited(t[i]) ELSE {}, k2, saw2)
  <2>1. t[i] = s[i + 1] /\ i + 1 \in DOMAIN s /\ i + 1 > 1 /\ i + 1 # 1 /\ (i + 1) - 1 = i
    BY <1>1
  <2>2. Accounted(t[i], Mine(i + 1), k2, saw2)
    BY <1>3, <1>4, <2>1
  <2>3. Mine(i + 1) = IF IsBody(s[i]) THEN Awaited(t[i]) ELSE {}
    BY <2>1 DEF Mine
  <2>4. CASE i = 1
    BY <2>2, <2>3, <2>4 DEF Accounted
  <2>5. CASE i # 1
    <3>1. t[i - 1] = s[i]
      <4>1. i - 1 \in DOMAIN t /\ (i - 1) + 1 = i
        BY <1>1, <2>5
      <4> QED BY <1>1, <4>1
    <3> QED BY <2>2, <2>3, <2>5, <3>1
  <2> QED BY <2>4, <2>5
<1>5. ASSUME ~IsBody(s[1]), t # <<>>, IsBody(t[1]) PROVE Accounted(t[1], {}, k2, saw2)
  <2>1. t[1] = s[2] /\ 2 \in DOMAIN s /\ 2 > 1 /\ 2 # 1 /\ 2 - 1 = 1
    BY <1>1, <1>5
  <2>2. Accounted(t[1], Mine(2), k2, saw2)
    BY <1>3, <1>5, <2>1
  <2> QED BY <1>5, <2>1, <2>2 DEF Mine
<1> QED BY <1>4, <1>5 DEF Progress, t

LEMMA ProgressPush ==
  ASSUME NEW s \in Seq(Calls), NEW x \in Calls, NEW k, NEW k2, NEW saw, NEW saw2, Progress(s, k, saw),
         \A i \in DOMAIN s : i > 1 /\ IsBody(s[i]) => Keeps(s[i], k, saw, k2, saw2),
         s # <<>> /\ IsBody(s[1]) => Accounted(s[1], IF IsBody(x) THEN Awaited(s[1]) ELSE {}, k2, saw2),
         IsBody(x) => Accounted(x, Awaited(x), k2, saw2)
  PROVE  Progress(<<x>> \o s, k2, saw2)
<1> DEFINE t == <<x>> \o s
           Mine(i) == IF i = 1 \/ IsBody(s[i - 1]) THEN Awaited(s[i]) ELSE {}
<1>1. /\ Len(s) \in Nat /\ DOMAIN s = 1..Len(s) /\ DOMAIN t = 1..Len(s) + 1 /\ t[1] = x
      /\ \A i \in 2..Len(s) + 1 : t[i] = s[i - 1] /\ i - 1 \in DOMAIN s
      /\ \A i \in DOMAIN t : i = 1 \/ i \in 2..Len(s) + 1
      /\ s = <<>> <=> Len(s) = 0
  BY PushedCalls
<1> HIDE DEF t
<1>2. \A i \in DOMAIN s : IsBody(s[i]) => Accounted(s[i], Mine(i), k, saw)
  BY DEF Progress
<1> HIDE DEF Mine
<1>3. \A i \in DOMAIN s : i > 1 /\ IsBody(s[i]) => Accounted(s[i], Mine(i), k2, saw2)
  BY <1>2 DEF Keeps
<1>4. ASSUME NEW i \in DOMAIN t, IsBody(t[i])
      PROVE  Accounted(t[i], IF i = 1 \/ IsBody(t[i - 1]) THEN Awaited(t[i]) ELSE {}, k2, saw2)
  <2>1. CASE i = 1
    BY <1>1, <1>4, <2>1
  <2>2. CASE i = 2
    <3>1. t[i] = s[1] /\ t[i - 1] = x /\ s # <<>> /\ i # 1
      BY <1>1, <2>2
    <3> QED BY <1>4, <3>1
  <2>3. CASE i # 1 /\ i # 2
    <3>1. /\ t[i] = s[i - 1] /\ i - 1 \in DOMAIN s /\ i - 1 > 1 /\ i - 1 # 1
          /\ t[i - 1] = s[(i - 1) - 1]
      <4>1. i \in 2..Len(s) + 1 /\ i - 1 \in 2..Len(s) + 1 /\ i - 1 > 1
        BY <1>1, <2>3
      <4> QED BY <1>1, <4>1
    <3>2. Accounted(t[i], Mine(i - 1), k2, saw2)
      BY <1>3, <1>4, <3>1
    <3> QED BY <2>3, <3>1, <3>2 DEF Mine
  <2> QED BY <2>1, <2>2, <2>3
<1> QED BY <1>4 DEF Progress, t

LEMMA ProgressBecomes ==
  ASSUME NEW s \in Seq(Calls), s # <<>>, NEW x \in Calls, NEW k, NEW k2, NEW saw, NEW saw2, Progress(s, k, saw),
         \A i \in DOMAIN s : i > 1 /\ IsBody(s[i]) => Keeps(s[i], k, saw, k2, saw2),
         IsBody(x) <=> IsBody(s[1]), IsBody(x) => Accounted(x, Awaited(x), k2, saw2)
  PROVE  Progress(<<x>> \o Tail(s), k2, saw2)
<1> DEFINE t == Tail(s)
           u == <<x>> \o t
           Mine(i) == IF i = 1 \/ IsBody(s[i - 1]) THEN Awaited(s[i]) ELSE {}
<1>1. /\ Len(s) \in Nat \ {0} /\ DOMAIN s = 1..Len(s) /\ DOMAIN t = 1..Len(s) - 1 /\ t \in Seq(Calls)
      /\ Len(t) = Len(s) - 1 /\ \A i \in DOMAIN t : t[i] = s[i + 1]
  BY PoppedCalls
<1>2. /\ DOMAIN u = 1..Len(t) + 1 /\ u[1] = x /\ \A i \in 2..Len(t) + 1 : u[i] = t[i - 1]
  BY <1>1, PushedCalls
<1> HIDE DEF t, u
<1>3. DOMAIN u = DOMAIN s /\ \A i \in DOMAIN s : i > 1 => u[i] = s[i]
  <2> SUFFICES ASSUME NEW i \in 1..Len(s), i > 1 PROVE u[i] = s[i]
    BY <1>1, <1>2
  <2>1. i \in 2..Len(t) + 1 /\ i - 1 \in DOMAIN t /\ (i - 1) + 1 = i
    BY <1>1
  <2> QED BY <1>1, <1>2, <2>1
<1>4. \A i \in DOMAIN s : IsBody(s[i]) => Accounted(s[i], Mine(i), k, saw)
  BY DEF Progress
<1> HIDE DEF Mine
<1>5. \A i \in DOMAIN s : i > 1 /\ IsBody(s[i]) => Accounted(s[i], Mine(i), k2, saw2)
  BY <1>4 DEF Keeps
<1>6. ASSUME NEW i \in DOMAIN u, IsBody(u[i])
      PROVE  Accounted(u[i], IF i = 1 \/ IsBody(u[i - 1]) THEN Awaited(u[i]) ELSE {}, k2, saw2)
  <2>1. CASE i = 1
    BY <1>2, <1>6, <2>1
  <2>2. CASE i # 1
    <3>1. i \in DOMAIN s /\ i > 1 /\ u[i] = s[i]
      BY <1>1, <1>3, <2>2
    <3>2. IsBody(u[i - 1]) <=> IsBody(s[i - 1])
      <4>1. CASE i = 2
        BY <1>2, <4>1
      <4>2. CASE i # 2
        <5>1. i - 1 \in DOMAIN s /\ i - 1 > 1
          BY <1>1, <3>1, <4>2
        <5> QED BY <1>3, <5>1
      <4> QED BY <4>1, <4>2
    <3>3. Accounted(u[i], Mine(i), k2, saw2)
      BY <1>5, <1>6, <3>1
    <3> QED BY <2>2, <3>1, <3>2, <3>3 DEF Mine
  <2> QED BY <2>1, <2>2
<1> QED BY <1>6 DEF Progress, u, t

----------------------------------------------------------------------------
(* Reactive: what changes of the cells, and what each leaves current.      *)

LEMMA CellFields ==
  ASSUME NEW k \in CellTypes
  PROVE  /\ k.value \in [Observables -> Known] /\ k.cached \in [Computeds -> Known] /\ k.dirty \subseteq Computeds
         /\ k.dependents \in [Nodes -> SUBSET Readers] /\ k.dependencies \in [Readers -> SUBSET Nodes]
BY DEF CellTypes

LEMMA AnswersKnown ==
  ASSUME NEW k \in CellTypes, NEW n \in Nodes
  PROVE  AnswerIn(k, n) \in Known
BY CellFields, ReactiveConstants DEF AnswerIn

Linking(k, r, n) == [k EXCEPT !.dependents[n] = @ \cup {r}, !.dependencies[r] = @ \cup {n}]
Unlinking(k, r) ==
  [k EXCEPT !.dependents = [n \in Nodes |-> IF n \in k.dependencies[r] THEN @[n] \ {r} ELSE @[n]],
            !.dependencies[r] = {}]
UnlinkingFirst(k, r) ==
  [k EXCEPT !.dependencies[r] = {},
            !.dependents = [n \in Nodes |-> @[n] \ (IF n \in k.dependencies[r] THEN {r} ELSE {})]]

LEMMA Registers ==
  ASSUME NEW k \in CellTypes, Linked(k), NEW r \in Readers, NEW n \in Nodes, NEW k2,
         r \in Computeds /\ n \in Computeds => Rank[Bodies[n]] < Rank[Bodies[r]], k2 = Linking(k, r, n)
  PROVE  /\ k2 \in CellTypes /\ Linked(k2)
         /\ k2.value = k.value /\ k2.cached = k.cached /\ k2.dirty = k.dirty
         /\ \A m \in Nodes : k2.dependents[m] = k.dependents[m] \cup (IF m = n THEN {r} ELSE {})
         /\ \A q \in Readers : k2.dependencies[q] = k.dependencies[q] \cup (IF q = r THEN {n} ELSE {})
<1>1. /\ k2.value = k.value /\ k2.cached = k.cached /\ k2.dirty = k.dirty
      /\ k2.dependents = [k.dependents EXCEPT ![n] = @ \cup {r}]
      /\ k2.dependencies = [k.dependencies EXCEPT ![r] = @ \cup {n}]
  BY DEF CellTypes, Linking
<1>2. k2 \in CellTypes
  BY DEF CellTypes, Linking
<1>3. \A m \in Nodes : k2.dependents[m] = k.dependents[m] \cup (IF m = n THEN {r} ELSE {})
  BY <1>1, CellFields
<1>4. \A q \in Readers : k2.dependencies[q] = k.dependencies[q] \cup (IF q = r THEN {n} ELSE {})
  BY <1>1, CellFields
<1>5. \A m \in Nodes, q \in Readers : q \in k2.dependents[m] <=> m \in k2.dependencies[q]
  BY <1>3, <1>4 DEF Linked
<1>6. \A c \in Computeds : \A m \in k2.dependencies[c] : m \in Computeds => Rank[Bodies[m]] < Rank[Bodies[c]]
  BY <1>4, ReactiveConstants DEF Linked
<1> QED BY <1>1, <1>2, <1>3, <1>4, <1>5, <1>6 DEF Linked

LEMMA Forgets ==
  ASSUME NEW k \in CellTypes, Linked(k), NEW r \in Readers, NEW k2,
         k2 = Unlinking(k, r) \/ k2 = UnlinkingFirst(k, r)
  PROVE  /\ k2 \in CellTypes /\ Linked(k2)
         /\ k2.value = k.value /\ k2.cached = k.cached /\ k2.dirty = k.dirty
         /\ \A m \in Nodes : k2.dependents[m] = k.dependents[m] \ {r}
         /\ \A q \in Readers : k2.dependencies[q] = IF q = r THEN {} ELSE k.dependencies[q]
<1>1. /\ k2.value = k.value /\ k2.cached = k.cached /\ k2.dirty = k.dirty
      /\ k2.dependencies = [k.dependencies EXCEPT ![r] = {}]
      /\ \/ k2.dependents = [n \in Nodes |-> IF n \in k.dependencies[r] THEN k.dependents[n] \ {r} ELSE k.dependents[n]]
         \/ k2.dependents = [n \in Nodes |-> k.dependents[n] \ (IF n \in k.dependencies[r] THEN {r} ELSE {})]
      /\ k2 = [value |-> k2.value, cached |-> k2.cached, dirty |-> k2.dirty, dependents |-> k2.dependents,
               dependencies |-> k2.dependencies]
  BY DEF CellTypes, Unlinking, UnlinkingFirst
<1>2. \A m \in Nodes : k2.dependents[m] = k.dependents[m] \ {r}
  BY <1>1, CellFields DEF Linked
<1>3. \A q \in Readers : k2.dependencies[q] = IF q = r THEN {} ELSE k.dependencies[q]
  BY <1>1, CellFields
<1>4. k2.dependents \in [Nodes -> SUBSET Readers] /\ k2.dependencies \in [Readers -> SUBSET Nodes]
  <2>1. DOMAIN k2.dependents = Nodes /\ k2.dependents = [n \in Nodes |-> k2.dependents[n]]
    BY <1>1
  <2> QED BY <1>1, <1>2, <2>1, CellFields
<1>5. k2 \in CellTypes
  BY <1>1, <1>4, CellFields DEF CellTypes
<1>6. \A m \in Nodes, q \in Readers : q \in k2.dependents[m] <=> m \in k2.dependencies[q]
  BY <1>2, <1>3 DEF Linked
<1>7. \A c \in Computeds : \A m \in k2.dependencies[c] : m \in Computeds => Rank[Bodies[m]] < Rank[Bodies[c]]
  BY <1>3, ReactiveConstants DEF Linked
<1> QED BY <1>1, <1>2, <1>3, <1>5, <1>6, <1>7 DEF Linked

LEMMA OwedStays ==
  ASSUME NEW s \in Seq(Calls), NEW k, NEW k2, NEW d, Owed(s, k, d),
         \A n \in Nodes : d \in k.dependents[n] => d \in k2.dependents[n]
  PROVE  Owed(s, k2, d)
<1>1. PICK i \in DOMAIN s : Owes(s[i], k, d)
  BY DEF Owed
<1>2. s[i] \in Calls
  OBVIOUS
<1>3. s[i].kind = "mark" /\ d \in s[i].among \ s[i].done /\ d \in k.dependents[s[i].of]
  BY <1>1 DEF Owes
<1>4. s[i].of \in Nodes
  BY <1>2, <1>3, CallKinds
<1>5. Owes(s[i], k2, d)
  BY <1>3, <1>4 DEF Owes
<1> QED BY <1>5 DEF Owed

LEMMA CurrentStays ==
  ASSUME NEW s, NEW s2, NEW k, NEW k2, NEW c, Current(s, k, c), Owed(s, k, c) => Owed(s2, k2, c),
         \/ Owed(s2, k2, c)
         \/ /\ k2.dependencies[c] = k.dependencies[c] /\ k2.cached[c] = k.cached[c]
            /\ k.dependencies[c] \cap k2.dirty \subseteq k.dirty
            /\ \A n \in k.dependencies[c] : n \in k.dirty \/ AnswerIn(k2, n) = AnswerIn(k, n)
  PROVE  Current(s2, k2, c)
<1> SUFFICES ASSUME ~Owed(s2, k2, c) PROVE Current(s2, k2, c)
  BY DEF Current
<1>1. k.dependencies[c] \cap k.dirty = {} /\ Gives(k, c, k.cached[c])
  BY DEF Current
<1>2. k2.dependencies[c] \cap k2.dirty = {}
  BY <1>1
<1>3. \A a : Agrees(k2, c, a) => Agrees(k, c, a)
  BY <1>1, <1>2 DEF Agrees
<1>4. Gives(k2, c, k2.cached[c])
  BY <1>1, <1>3 DEF Gives
<1> QED BY <1>2, <1>4 DEF Current

LEMMA HoldsStays ==
  ASSUME NEW k, NEW k2, NEW noticed, Holds(k, noticed),
         \A note \in noticed : note[1] \in k.dirty \/ (note[1] \notin k2.dirty /\ AnswerIn(k2, note[1]) = AnswerIn(k, note[1]))
  PROVE  Holds(k2, noticed)
BY DEF Holds

LEMMA Told1Stays ==
  ASSUME NEW s, NEW s2, NEW k, NEW k2, NEW ws, NEW ws2, NEW nt, NEW nt2, NEW w, Told1(s, k, ws, nt, w),
         nt2.saw[w] = nt.saw[w], k2.dependencies[w] = k.dependencies[w],
         w \notin ws2.running => w \notin ws.running \/ k.dependencies[w] \subseteq ReadBy(nt.saw, w),
         w \in ws.pending \cup nt.missed \/ Owed(s, k, w) \/ ToDo(s, w) =>
           w \in ws2.pending \cup nt2.missed \/ Owed(s2, k2, w) \/ ToDo(s2, w),
         \/ w \in ws2.pending \cup nt2.missed \/ Owed(s2, k2, w) \/ ToDo(s2, w)
         \/ \A n \in k.dependencies[w] : n \in k.dirty \/ (n \notin k2.dirty /\ AnswerIn(k2, n) = AnswerIn(k, n))
  PROVE  Told1(s2, k2, ws2, nt2, w)
<1>1. ReadBy(nt2.saw, w) = ReadBy(nt.saw, w)
  BY DEF ReadBy
<1>2. ReadBy(nt2.saw, w) \subseteq k2.dependencies[w]
  BY <1>1 DEF Told1
<1>3. w \notin ws2.running => k2.dependencies[w] \subseteq ReadBy(nt2.saw, w)
  BY <1>1 DEF Told1
<1>4. \A note \in nt.saw[w] : note[1] \in k.dependencies[w]
  BY DEF Told1, ReadBy
<1>5. CASE w \in ws2.pending \cup nt2.missed \/ Owed(s2, k2, w) \/ ToDo(s2, w)
  BY <1>2, <1>3, <1>5 DEF Told1
<1>6. CASE ~(w \in ws2.pending \cup nt2.missed \/ Owed(s2, k2, w) \/ ToDo(s2, w))
  <2>1. Holds(k, nt.saw[w])
    BY <1>6 DEF Told1
  <2>2. Holds(k2, nt2.saw[w])
    BY <1>4, <1>6, <2>1, HoldsStays
  <2> QED BY <1>2, <1>3, <2>2 DEF Told1
<1> QED BY <1>5, <1>6

----------------------------------------------------------------------------
(* Reactive: each action keeps the invariant.                              *)

LEMMA OnTop ==
  ASSUME ReactiveInv, calls # <<>>
  PROVE  /\ cells \in CellTypes /\ calls \in Seq(Calls)
         /\ Inner = calls[1] /\ Inner \in Calls /\ Tail(calls) \in Seq(Calls) /\ 1 \in DOMAIN calls
         /\ calls = <<Inner>> \o Tail(calls)
<1>1. cells \in CellTypes /\ calls \in Seq(Calls)
  BY DEF ReactiveInv, ReactiveTypes
<1> QED BY <1>1, PoppedCalls, TopAndTail DEF Inner

LEMMA TopBody ==
  ASSUME ReactiveInv, Running("body")
  PROVE  /\ calls # <<>> /\ IsBody(Inner) /\ Inner.who \in Readers /\ Inner.rest \in Points /\ Inner.tracked \in BOOLEAN
         /\ GoesOnIn(Inner.rest, Points) /\ Accounted(Inner, Awaited(Inner), cells, noted.saw)
         /\ \A i \in DOMAIN calls : i > 1 /\ IsBody(calls[i]) => calls[i].who # Inner.who
         /\ Inner.who \in Watches => Inner.who \in watchers.running
         /\ Inner.who \in Computeds =>
              /\ Computes(Inner) /\ Inner.rest \in Pure /\ Inner.tracked /\ Inner.who \in cells.dirty
              /\ Rank[Inner.rest] <= Rank[Bodies[Inner.who]]
<1>1. calls # <<>> /\ IsBody(Inner) /\ Inner = calls[1] /\ Inner \in Calls /\ 1 \in DOMAIN calls
  BY OnTop DEF Running, IsBody
<1>2. Inner.who \in Readers /\ Inner.rest \in Points /\ Inner.tracked \in BOOLEAN
  BY <1>1, CallKinds
<1>3. GoesOnIn(Inner.rest, Points)
  BY <1>2, ReactiveAssumption DEF ReactiveAssumption
<1>4. Stacked(calls, cells.dirty, watchers.running) /\ Progress(calls, cells, noted.saw)
  BY DEF ReactiveInv
<1>5. Accounted(Inner, Awaited(Inner), cells, noted.saw)
  BY <1>1, <1>4 DEF Progress
<1>6. \A i \in DOMAIN calls : i > 1 /\ IsBody(calls[i]) => calls[i].who # Inner.who
  BY <1>1, <1>4 DEF Stacked
<1>7. Inner.who \in Watches => Inner.who \in watchers.running
  BY <1>1, <1>4 DEF Stacked
<1>8. Inner.who \in Computeds =>
        /\ Computes(Inner) /\ Inner.rest \in Pure /\ Inner.tracked /\ Inner.who \in cells.dirty
        /\ Rank[Inner.rest] <= Rank[Bodies[Inner.who]]
  BY <1>1, <1>4 DEF Stacked, Computes, IsBody
<1> QED BY <1>1, <1>2, <1>3, <1>5, <1>6, <1>7, <1>8

LEMMA BeginsCall ==
  ASSUME NEW r \in Readers
  PROVE  Begins(r) \in Calls /\ IsBody(Begins(r)) /\ Begins(r).who = r /\ Begins(r).rest = Bodies[r]
         /\ Begins(r).tracked /\ Begins(r).kind = "body"
BY ReactiveConstants DEF Begins, Calls, BodyCalls, IsBody

\* What a body that reads n registers.
LEMMA RegisteredCells ==
  ASSUME ReactiveInv, Running("body"), Inner.rest.op = "get", NEW n, n = Inner.rest.from
  PROVE  LET k2 == Registered(n)
             r == Inner.who
         IN /\ n \in Nodes /\ k2 \in CellTypes /\ Linked(k2)
            /\ k2.value = cells.value /\ k2.cached = cells.cached /\ k2.dirty = cells.dirty
            /\ \A m \in Nodes : k2.dependents[m] =
                 cells.dependents[m] \cup (IF m = n /\ Inner.tracked THEN {r} ELSE {})
            /\ \A q \in Readers : k2.dependencies[q] =
                 cells.dependencies[q] \cup (IF q = r /\ Inner.tracked THEN {n} ELSE {})
            /\ r \in Computeds /\ n \in Computeds => Rank[Bodies[n]] < Rank[Bodies[r]]
<1> DEFINE k2 == Registered(n)
           r == Inner.who
<1>1. n \in Nodes /\ r \in Readers
  BY TopBody DEF GoesOnIn
<1>2. ASSUME r \in Computeds, n \in Computeds PROVE Rank[Bodies[n]] < Rank[Bodies[r]]
  <2>1. Inner.rest \in Pure /\ Rank[Inner.rest] <= Rank[Bodies[r]]
    BY <1>2, TopBody
  <2>2. Rank[Bodies[n]] < Rank[Inner.rest] /\ Rank[Inner.rest] \in Nat
    BY <1>2, <2>1, PurePoints
  <2>3. Rank[Bodies[n]] \in Nat /\ Rank[Bodies[r]] \in Nat
    BY <1>2, ReactiveConstants, PurePoints
  <2> QED BY <2>1, <2>2, <2>3
<1>3. cells \in CellTypes /\ Linked(cells)
  BY DEF ReactiveInv, ReactiveTypes
<1>4. CASE Inner.tracked
  <2>1. k2 = Linking(cells, r, n)
    BY <1>4 DEF Registered, Linking
  <2> HIDE DEF k2, r
  <2>2. /\ k2 \in CellTypes /\ Linked(k2)
        /\ k2.value = cells.value /\ k2.cached = cells.cached /\ k2.dirty = cells.dirty
        /\ \A m \in Nodes : k2.dependents[m] = cells.dependents[m] \cup (IF m = n THEN {r} ELSE {})
        /\ \A q \in Readers : k2.dependencies[q] = cells.dependencies[q] \cup (IF q = r THEN {n} ELSE {})
    BY <1>1, <1>2, <1>3, <2>1, Registers
  <2> QED BY <1>1, <1>2, <1>4, <2>2 DEF k2, r
<1>5. CASE ~Inner.tracked
  <2>1. k2 = cells
    BY <1>5 DEF Registered
  <2> QED BY <1>1, <1>2, <1>3, <1>5, <2>1
<1> QED BY <1>4, <1>5, TopBody

LEMMA GetFirstKept ==
  ASSUME ReactiveInv, Get, Inner.rest.from \in cells.dirty
  PROVE  ReactiveInv'
<1> DEFINE n == Inner.rest.from
           r == Inner.who
           k == cells
           k2 == cells'
           told == Registered(n)
           x == Begins(n)
<1>1. /\ Running("body") /\ Inner.rest.op = "get" /\ calls' = <<x>> \o calls /\ UNCHANGED <<noted, watchers>>
      /\ k2 = UnlinkingFirst(told, n)
  BY DEF Get, Body, UnlinkingFirst
<1>2. /\ calls # <<>> /\ IsBody(Inner) /\ r \in Readers /\ Accounted(Inner, Awaited(Inner), k, noted.saw)
      /\ \A i \in DOMAIN calls : i > 1 /\ IsBody(calls[i]) => calls[i].who # r
      /\ r \in Watches => r \in watchers.running
      /\ r \in Computeds => Inner.tracked /\ r \in k.dirty
      /\ Inner = calls[1] /\ calls \in Seq(Calls) /\ k \in CellTypes /\ Inner \in Calls
  BY <1>1, TopBody, OnTop
<1>3. n \in Computeds /\ n \in k.dirty /\ n \in Readers /\ n \in Nodes /\ n \notin Watches
  BY <1>2, CellFields, ReactiveConstants
<1>4. /\ told \in CellTypes /\ Linked(told)
      /\ told.value = k.value /\ told.cached = k.cached /\ told.dirty = k.dirty
      /\ \A m \in Nodes : told.dependents[m] = k.dependents[m] \cup (IF m = n /\ Inner.tracked THEN {r} ELSE {})
      /\ \A q \in Readers : told.dependencies[q] = k.dependencies[q] \cup (IF q = r /\ Inner.tracked THEN {n} ELSE {})
      /\ r \in Computeds => Rank[Bodies[n]] < Rank[Bodies[r]]
  BY <1>1, <1>3, RegisteredCells
<1> HIDE DEF told
<1>5. /\ k2 \in CellTypes /\ Linked(k2)
      /\ k2.value = k.value /\ k2.cached = k.cached /\ k2.dirty = k.dirty
      /\ \A m \in Nodes : k2.dependents[m] = (k.dependents[m] \cup (IF m = n /\ Inner.tracked THEN {r} ELSE {})) \ {n}
      /\ \A q \in Readers : k2.dependencies[q] =
           IF q = n THEN {} ELSE k.dependencies[q] \cup (IF q = r /\ Inner.tracked THEN {n} ELSE {})
  <2>1. /\ k2 \in CellTypes /\ Linked(k2)
        /\ k2.value = told.value /\ k2.cached = told.cached /\ k2.dirty = told.dirty
        /\ \A m \in Nodes : k2.dependents[m] = told.dependents[m] \ {n}
        /\ \A q \in Readers : k2.dependencies[q] = IF q = n THEN {} ELSE told.dependencies[q]
    BY <1>1, <1>3, <1>4, Forgets
  <2> QED BY <1>4, <2>1
<1>d. \A q \in Readers : q # n /\ q # r => k2.dependencies[q] = k.dependencies[q]
  <2> SUFFICES ASSUME NEW q \in Readers, q # n, q # r PROVE k2.dependencies[q] = k.dependencies[q]
    OBVIOUS
  <2>1. k2.dependencies[q] = k.dependencies[q] \cup {}
    BY <1>5, Zenon
  <2> QED BY <2>1
<1>6. x \in Calls /\ IsBody(x) /\ x.who = n /\ x.rest = Bodies[n] /\ x.tracked /\ x.kind = "body"
  BY <1>3, BeginsCall
<1> HIDE DEF x, k, k2
<1>7. r # n
  <2>1. r \in Computeds => Rank[Bodies[r]] \in Nat
    BY ReactiveConstants, PurePoints
  <2> QED BY <1>2, <1>3, <1>4, <2>1, ReactiveConstants
<1>8. \A m : AnswerIn(k2, m) = AnswerIn(k, m)
  BY <1>5 DEF AnswerIn
<1>9. Stacked(calls', k2.dirty, watchers.running)
  <2>1. Fits(x, calls, k.dirty, watchers.running)
    <3>1. Bodies[n] \in Pure /\ Rank[Bodies[n]] \in Nat
      BY <1>3, ReactiveConstants, PurePoints
    <3>2. Computes(Inner) => r \in Computeds
      BY DEF Computes
    <3> QED BY <1>1, <1>2, <1>3, <1>4, <1>6, <3>1, <3>2 DEF Fits, Computes, IsBody
  <2>2. Top(x) = {}
    BY <1>3, <1>6 DEF Top
  <2>3. Stacked(calls, k.dirty, watchers.running)
    BY DEF ReactiveInv, k
  <2>4. Stacked(<<x>> \o calls, k.dirty, watchers.running \cup Top(x))
    BY <1>2, <1>6, <2>1, <2>3, StackedPush
  <2>5. watchers.running \cup {} = watchers.running
    OBVIOUS
  <2> QED BY <1>1, <1>5, <2>2, <2>4, <2>5
<1>10. ASSUME NEW i \in DOMAIN calls, i > 1, IsBody(calls[i])
       PROVE  calls[i].who # r /\ calls[i].who # n /\ calls[i] \in Calls /\ calls[i].who \in Readers
  <2>1. calls[i] \in Calls
    BY <1>2
  <2>2. /\ DOMAIN calls' = 1..Len(calls) + 1 /\ DOMAIN calls = 1..Len(calls) /\ Len(calls) \in Nat
        /\ calls'[1] = x /\ \A j \in 2..Len(calls) + 1 : calls'[j] = calls[j - 1]
    BY <1>1, <1>2, <1>6, PushedCalls
  <2>3. i + 1 \in DOMAIN calls' /\ 1 \in DOMAIN calls' /\ calls'[i + 1] = calls[i] /\ i + 1 # 1
    BY <2>2
  <2>4. calls[i].who # n
    BY <1>6, <1>9, <1>10, <2>2, <2>3 DEF Stacked
  <2> QED BY <1>2, <1>10, <2>1, <2>4, CallKinds
<1>11. Progress(calls', k2, noted.saw)
  <2>1. \A i \in DOMAIN calls : i > 1 /\ IsBody(calls[i]) => Keeps(calls[i], k, noted.saw, k2, noted.saw)
    <3> SUFFICES ASSUME NEW i \in DOMAIN calls, i > 1, IsBody(calls[i]) PROVE Keeps(calls[i], k, noted.saw, k2, noted.saw)
      OBVIOUS
    <3>1. k2.dependencies[calls[i].who] = k.dependencies[calls[i].who]
      BY <1>d, <1>10
    <3>2. CASE calls[i].who \in Watches
      BY <1>10, <3>1, <3>2, WatchKeeps
    <3>3. CASE calls[i].who \in Computeds
      BY <1>5, <1>8, <3>1, <3>3, ComputedKeeps
    <3> QED BY <1>10, <3>2, <3>3, ReactiveConstants
  <2>2. Accounted(Inner, Awaited(Inner), k2, noted.saw)
    <3>1. Accounted(Inner, Awaited(Inner), k, noted.saw)
      BY <1>2 DEF k
    <3>2. Inner.tracked => Awaited(Inner) = {n}
      BY <1>1 DEF Awaited
    <3>3. k2.dependencies[r] = k.dependencies[r] \cup (IF Inner.tracked THEN {n} ELSE {})
      BY <1>2, <1>5, <1>7
    <3>4. CASE r \in Computeds
      <4>1. k2.dependencies[r] \cap k2.dirty \subseteq Awaited(Inner)
        BY <1>2, <1>5, <3>1, <3>2, <3>3, <3>4 DEF Accounted
      <4>2. \A a : Agrees(k2, r, a) => Agrees(k, r, a)
        BY <1>3, <1>5, <1>8, <3>3 DEF Agrees
      <4>3. Reaches(k2, r, Inner.rest)
        BY <3>1, <3>4, <4>2 DEF Accounted, Reaches
      <4> QED BY <3>4, <4>1, <4>3 DEF Accounted
    <3>5. CASE r \notin Computeds
      BY <3>1, <3>2, <3>3, <3>5 DEF Accounted
    <3> QED BY <3>4, <3>5
  <2>3. Accounted(x, Awaited(x), k2, noted.saw)
    <3>1. k2.dependencies[n] = {}
      BY <1>3, <1>5
    <3> QED BY <1>3, <1>6, <3>1 DEF Accounted, Reaches
  <2>4. Progress(calls, k, noted.saw)
    BY DEF ReactiveInv, k
  <2>5. calls[1] = Inner
    BY <1>2
  <2>6. Progress(<<x>> \o calls, k2, noted.saw)
    BY <1>2, <1>6, <2>1, <2>2, <2>3, <2>4, <2>5, ProgressPush
  <2> QED BY <1>1, <2>6
<1>12. ASSUME NEW d \in Readers, d # n, Owed(calls, k, d) PROVE Owed(calls', k2, d)
  <2>1. \A m \in Nodes : d \in k.dependents[m] => d \in k2.dependents[m]
    BY <1>5, <1>12
  <2>2. Owed(calls, k2, d)
    BY <1>2, <1>12, <2>1, OwedStays
  <2> QED BY <1>1, <1>2, <1>6, <2>2, OwedPush
<1>13. ASSUME NEW c \in Computeds \ k2.dirty PROVE Current(calls', k2, c)
  <2>1. c # n /\ c # r /\ c \in Readers
    BY <1>2, <1>3, <1>5, <1>13, ReactiveConstants DEF k
  <2>2. Current(calls, k, c)
    BY <1>5, <1>13 DEF ReactiveInv, k
  <2>3. k2.dependencies[c] = k.dependencies[c]
    BY <1>5, <2>1
  <2> QED BY <1>5, <1>8, <1>12, <2>1, <2>2, <2>3, CurrentStays
<1>14. ASSUME NEW w \in Watches \ watchers.disposed PROVE Told1(calls', k2, watchers, noted, w)
  <2>1. Told1(calls, k, watchers, noted, w) /\ w # n /\ w \in Readers
    BY <1>3, ReactiveConstants DEF ReactiveInv, WatchesTold, k
  <2>2. ToDo(calls, w) => ToDo(calls', w)
    BY <1>1, <1>2, <1>6, ToDoPush
  <2>3. Owed(calls, k, w) => Owed(calls', k2, w)
    BY <1>12, <2>1
  <2>4. CASE w # r
    <3>1. k2.dependencies[w] = k.dependencies[w]
      BY <1>d, <2>1, <2>4
    <3> QED BY <1>5, <1>8, <2>1, <2>2, <2>3, <3>1, Told1Stays
  <2>5. CASE w = r
    <3>1. k.dependencies[w] \subseteq k2.dependencies[w]
      BY <1>5, <2>1
    <3>2. Holds(k, noted.saw[w]) => Holds(k2, noted.saw[w])
      BY <1>5, <1>8 DEF Holds
    <3> QED BY <1>2, <2>1, <2>2, <2>3, <2>5, <3>1, <3>2 DEF Told1
  <2> QED BY <2>4, <2>5
<1>15. ReactiveTypes'
  <2>1. calls' \in Seq(Calls)
    BY <1>1, <1>2, <1>6, PushedCalls
  <2> QED BY <1>1, <1>5, <2>1 DEF ReactiveInv, ReactiveTypes, k2
<1> QED BY <1>1, <1>5, <1>9, <1>11, <1>13, <1>14, <1>15 DEF ReactiveInv, WatchesTold, k2

\* A call on top that goes on.
LEMMA BecomesStacked ==
  ASSUME ReactiveInv, calls # <<>>, NEW y \in Calls, y.kind = Inner.kind,
         IsBody(y) => y.who = Inner.who,
         Computes(y) => y.rest \in Pure /\ y.tracked /\ Rank[y.rest] <= Rank[Bodies[y.who]]
  PROVE  /\ <<y>> \o Tail(calls) \in Seq(Calls)
         /\ Stacked(<<y>> \o Tail(calls), cells.dirty, watchers.running)
         /\ IsBody(y) => \A k, d : Owed(<<y>> \o Tail(calls), k, d) <=> Owed(calls, k, d)
         /\ y.kind # "flush" => \A w : ToDo(<<y>> \o Tail(calls), w) <=> ToDo(calls, w)
         /\ ~IsBody(y) => watchers.running \cup Top(y) = watchers.running
         /\ ~Computes(y) => \A i \in DOMAIN calls : ~Computes(calls[i])
<1> DEFINE t == Tail(calls)
           dirty == IF Computes(Inner) THEN cells.dirty \ {Inner.who} ELSE cells.dirty
           running == watchers.running \ Top(Inner)
<1>1. /\ cells \in CellTypes /\ calls \in Seq(Calls) /\ Inner = calls[1] /\ Inner \in Calls /\ t \in Seq(Calls)
      /\ Inner = Head(calls)
  BY OnTop DEF Inner
<1>2. Stacked(calls, cells.dirty, watchers.running)
  BY DEF ReactiveInv
<1>3. /\ Stacked(t, dirty, running)
      /\ IsBody(Inner) /\ Inner.who \in Watches => t = <<>> \/ ~IsBody(t[1])
      /\ Computes(Inner) /\ t # <<>> /\ IsBody(t[1]) =>
              /\ t[1].rest.op = "get" /\ t[1].rest.from = Inner.who
              /\ Computes(t[1]) => Rank[Bodies[Inner.who]] < Rank[Bodies[t[1].who]]
      /\ Inner.kind = "flush" => t = <<>>
      /\ ~Computes(Inner) => \A i \in DOMAIN calls : ~Computes(calls[i])
  BY <1>1, <1>2, StackedPop
<1>4. /\ IsBody(y) <=> IsBody(Inner)
      /\ Computes(y) <=> Computes(Inner)
      /\ Top(y) = Top(Inner)
  BY DEF IsBody, Computes, Top
<1>5. ASSUME ~Computes(Inner), t # <<>> PROVE ~Computes(t[1])
  <2>1. t[1] = calls[2] /\ 2 \in DOMAIN calls
    <3>1. /\ Len(calls) \in Nat \ {0} /\ DOMAIN calls = 1..Len(calls) /\ (t = <<>> <=> Len(calls) = 1)
          /\ \A i \in 1..Len(calls) - 1 : t[i] = calls[i + 1]
      BY <1>1, PoppedCalls
    <3> HIDE DEF t
    <3>2. 1 \in 1..Len(calls) - 1 /\ 2 \in 1..Len(calls) /\ 1 + 1 = 2
      BY <1>5, <3>1
    <3> QED BY <3>1, <3>2
  <2> QED BY <1>3, <1>5, <2>1
<1>6. Computes(Inner) => Inner.who \in cells.dirty
  BY <1>1, <1>2, OnTop DEF Stacked
<1>7. Top(Inner) \subseteq watchers.running
  BY <1>1, <1>2, OnTop DEF Stacked, Top
<1> HIDE DEF t
<1>8. Fits(y, t, cells.dirty, running)
  BY <1>3, <1>4, <1>5, <1>6 DEF Fits, Computes, IsBody, Top
<1>9. Stacked(<<y>> \o t, cells.dirty, running \cup Top(y))
  BY <1>1, <1>3, <1>8, StackedPush
<1>10. running \cup Top(y) = watchers.running
  BY <1>4, <1>7
<1>11. Stacked(<<y>> \o t, cells.dirty, watchers.running)
  BY <1>9, <1>10
<1>12. <<y>> \o t \in Seq(Calls)
  BY <1>1, PushedCalls
<1>13. ASSUME IsBody(y), NEW k, NEW d PROVE Owed(<<y>> \o t, k, d) <=> Owed(calls, k, d)
  <2>1. ~Owes(y, k, d) /\ ~Owes(Inner, k, d)
    BY <1>4, <1>13 DEF Owes, IsBody
  <2>2. Owed(calls, k, d) <=> (Owes(Inner, k, d) \/ Owed(t, k, d))
    BY <1>1, OwedTop DEF t
  <2>3. Owed(<<y>> \o t, k, d) <=> (Owes(y, k, d) \/ Owed(t, k, d))
    BY <1>1, OwedPush
  <2> QED BY <2>1, <2>2, <2>3
<1>14. ASSUME y.kind # "flush", NEW w PROVE ToDo(<<y>> \o t, w) <=> ToDo(calls, w)
  <2>1. ToDo(calls, w) <=> ((Inner.kind = "flush" /\ w \in Inner.todo) \/ ToDo(t, w))
    BY <1>1, ToDoTop DEF t
  <2>2. ToDo(<<y>> \o t, w) <=> ((y.kind = "flush" /\ w \in y.todo) \/ ToDo(t, w))
    BY <1>1, ToDoPush
  <2> QED BY <1>14, <2>1, <2>2
<1>15. ~IsBody(y) => watchers.running \cup Top(y) = watchers.running
  BY DEF Top
<1> QED BY <1>3, <1>4, <1>11, <1>12, <1>13, <1>14, <1>15 DEF t

LEMMA GetReadKept ==
  ASSUME ReactiveInv, Get, Inner.rest.from \notin cells.dirty
  PROVE  ReactiveInv'
<1> DEFINE n == Inner.rest.from
           r == Inner.who
           k == cells
           k2 == cells'
           v == AnswerIn(k, n)
           y == GoesOn(Inner.rest.on[v])
           t == Tail(calls)
           saw == noted.saw
           saw2 == noted'.saw
<1>1. /\ Running("body") /\ Inner.rest.op = "get" /\ calls' = <<y>> \o t /\ k2 = Registered(n) /\ UNCHANGED watchers
      /\ noted' = IF Inner.tracked /\ r \in Watches THEN [noted EXCEPT !.saw[r] = @ \cup {<<n, v>>}] ELSE noted
  BY DEF Get, Body, AnswerIn, Answer, Becomes
<1>2. /\ calls # <<>> /\ IsBody(Inner) /\ r \in Readers /\ Accounted(Inner, Awaited(Inner), k, saw)
      /\ \A i \in DOMAIN calls : i > 1 /\ IsBody(calls[i]) => calls[i].who # r
      /\ r \in Watches => r \in watchers.running
      /\ r \in Computeds => /\ Inner.tracked /\ r \in k.dirty /\ Inner.rest \in Pure /\ Computes(Inner)
                            /\ Rank[Inner.rest] <= Rank[Bodies[r]]
      /\ Inner = calls[1] /\ calls \in Seq(Calls) /\ k \in CellTypes /\ Inner \in Calls /\ GoesOnIn(Inner.rest, Points)
  BY <1>1, TopBody, OnTop
<1>3. /\ n \in Nodes /\ k2 \in CellTypes /\ Linked(k2)
      /\ k2.value = k.value /\ k2.cached = k.cached /\ k2.dirty = k.dirty
      /\ \A m \in Nodes : k2.dependents[m] = k.dependents[m] \cup (IF m = n /\ Inner.tracked THEN {r} ELSE {})
      /\ \A q \in Readers : k2.dependencies[q] = k.dependencies[q] \cup (IF q = r /\ Inner.tracked THEN {n} ELSE {})
  BY <1>1, RegisteredCells
<1>4. v \in Known
  BY <1>2, <1>3, AnswersKnown
<1> HIDE DEF v
<1>5. /\ y \in Calls /\ IsBody(y) /\ y.who = r /\ y.tracked = Inner.tracked /\ y.rest = Inner.rest.on[v]
      /\ y.kind = Inner.kind
  <2>1. Inner.rest.on[v] \in Points
    BY <1>1, <1>2, <1>4 DEF GoesOnIn
  <2>2. Inner \in BodyCalls
    BY <1>2, CallKinds
  <2> QED BY <2>1, <2>2 DEF GoesOn, BodyCalls, Calls, IsBody
<1>6. r \in Computeds => y.rest \in Pure /\ Rank[y.rest] <= Rank[Bodies[r]] /\ Rank[y.rest] < Rank[Inner.rest]
  <2> SUFFICES ASSUME r \in Computeds
               PROVE  y.rest \in Pure /\ Rank[y.rest] <= Rank[Bodies[r]] /\ Rank[y.rest] < Rank[Inner.rest]
    OBVIOUS
  <2>1. Inner.rest \in Pure /\ Rank[Inner.rest] \in Nat /\ Rank[Inner.rest] <= Rank[Bodies[r]]
    BY <1>2, PurePoints
  <2>2. y.rest \in Pure /\ Rank[y.rest] < Rank[Inner.rest]
    BY <1>1, <1>4, <1>5, <2>1, PurePoints
  <2>3. Rank[y.rest] \in Nat /\ Rank[Bodies[r]] \in Nat
    BY <2>2, PurePoints, ReactiveConstants
  <2> QED BY <2>1, <2>2, <2>3
<1> HIDE DEF y
<1>7. /\ <<y>> \o t \in Seq(Calls) /\ Stacked(<<y>> \o t, cells.dirty, watchers.running)
      /\ \A k0, d : Owed(<<y>> \o t, k0, d) <=> Owed(calls, k0, d)
      /\ \A w : ToDo(<<y>> \o t, w) <=> ToDo(calls, w)
  <2>1. Computes(y) => y.rest \in Pure /\ y.tracked /\ Rank[y.rest] <= Rank[Bodies[y.who]]
    BY <1>2, <1>5, <1>6 DEF Computes
  <2>2. y.kind # "flush"
    BY <1>5 DEF IsBody
  <2> QED BY <1>2, <1>5, <2>1, <2>2, BecomesStacked
<1>8. /\ saw2 \in [Watches -> SUBSET (Nodes \X Known)] /\ noted'.missed = noted.missed
      /\ \A w \in Watches : saw2[w] = saw[w] \cup (IF w = r /\ Inner.tracked THEN {<<n, v>>} ELSE {})
      /\ noted' \in [saw : [Watches -> SUBSET (Nodes \X Known)], missed : SUBSET Watches]
  <2>1. noted \in [saw : [Watches -> SUBSET (Nodes \X Known)], missed : SUBSET Watches]
    BY DEF ReactiveInv, ReactiveTypes
  <2>2. <<n, v>> \in Nodes \X Known
    BY <1>3, <1>4
  <2>3. CASE Inner.tracked /\ r \in Watches
    BY <1>1, <2>1, <2>2, <2>3
  <2>4. CASE ~(Inner.tracked /\ r \in Watches)
    <3>1. noted' = noted
      BY <1>1, <2>4
    <3>2. \A w \in Watches : ~(w = r /\ Inner.tracked)
      BY <2>4
    <3> QED BY <2>1, <3>1, <3>2
  <2> QED BY <2>3, <2>4
<1> HIDE DEF k, k2, saw, saw2
<1>d. \A q \in Readers : q # r => k2.dependencies[q] = k.dependencies[q]
  <2> SUFFICES ASSUME NEW q \in Readers, q # r PROVE k2.dependencies[q] = k.dependencies[q]
    OBVIOUS
  <2>1. k2.dependencies[q] = k.dependencies[q] \cup {}
    BY <1>3, Zenon
  <2> QED BY <2>1
<1>s. \A q \in Watches : q # r => saw2[q] = saw[q]
  <2> SUFFICES ASSUME NEW q \in Watches, q # r PROVE saw2[q] = saw[q]
    OBVIOUS
  <2>1. saw2[q] = saw[q] \cup {}
    BY <1>8, Zenon
  <2> QED BY <2>1
<1>m. ASSUME r \in Watches, Inner.tracked PROVE ReadBy(saw2, r) = ReadBy(saw, r) \cup {n}
  <2> DEFINE A == saw[r]
             B == saw2[r]
             note0 == <<n, v>>
  <2>1. B = A \cup {note0} /\ note0[1] = n
    BY <1>8, <1>m
  <2> HIDE DEF A, B, note0
  <2>2. {note[1] : note \in B} = {note[1] : note \in A} \cup {n}
    BY <2>1
  <2> QED BY <2>2 DEF ReadBy, A, B
<1>9. \A m : AnswerIn(k2, m) = AnswerIn(k, m)
  BY <1>3 DEF AnswerIn
<1>10. n \notin k.dirty
  BY DEF k
<1>11. Accounted(y, Awaited(y), k2, saw2)
  <2>1. Accounted(Inner, Awaited(Inner), k, saw)
    BY <1>2
  <2>2. Awaited(Inner) = IF Inner.tracked THEN {n} ELSE {}
    BY <1>1 DEF Awaited
  <2>3. k2.dependencies[r] = k.dependencies[r] \cup (IF Inner.tracked THEN {n} ELSE {})
    BY <1>2, <1>3
  <2>4. CASE r \in Computeds
    <3>1. Inner.tracked /\ Inner.rest \in Pure
      BY <1>2, <2>4
    <3>2. k2.dependencies[r] \cap k2.dirty = {}
      BY <1>3, <1>10, <2>1, <2>2, <2>3, <2>4, <3>1 DEF Accounted
    <3>3. ASSUME NEW s \in Solutions, Agrees(k2, r, s[2]) PROVE s[1][Bodies[r]] = s[1][y.rest]
      <4>1. Agrees(k, r, s[2]) /\ s[2][n] = v
        BY <1>3, <1>9, <1>10, <2>3, <3>1, <3>3 DEF Agrees, v
      <4>2. s[1][Bodies[r]] = s[1][Inner.rest]
        BY <2>1, <2>4, <4>1 DEF Accounted, Reaches
      <4>3. s[1][Inner.rest] = Step(Inner.rest, s[1], s[2])
        BY <3>1 DEF Solutions, Solves
      <4>4. Step(Inner.rest, s[1], s[2]) = s[1][Inner.rest.on[s[2][n]]]
        BY <1>1, Zenon DEF Step
      <4> QED BY <1>5, <4>1, <4>2, <4>3, <4>4
    <3> QED BY <1>5, <2>4, <3>2, <3>3 DEF Accounted, Reaches
  <2>5. CASE r \notin Computeds
    <3>1. r \in Watches
      BY <1>2, <2>5, ReactiveConstants
    <3>2. saw2[r] = saw[r] \cup (IF Inner.tracked THEN {<<n, v>>} ELSE {})
      BY <1>8, <3>1
    <3>3. CASE Inner.tracked
      <4>1. k.dependencies[r] \subseteq ReadBy(saw, r) \cup {n}
        BY <2>1, <2>2, <2>5, <3>3 DEF Accounted
      <4>2. ReadBy(saw2, r) = ReadBy(saw, r) \cup {n}
        BY <1>m, <3>1, <3>3
      <4> QED BY <1>5, <2>3, <2>5, <3>3, <4>1, <4>2 DEF Accounted
    <3>4. CASE ~Inner.tracked
      <4>1. k.dependencies[r] \subseteq ReadBy(saw, r)
        BY <2>1, <2>2, <2>5, <3>4 DEF Accounted
      <4>2. saw2[r] = saw[r]
        BY <3>2, <3>4
      <4> QED BY <1>5, <2>3, <2>5, <3>4, <4>1, <4>2 DEF Accounted, ReadBy
    <3> QED BY <3>3, <3>4
  <2> QED BY <2>4, <2>5
<1>12. Progress(calls', k2, saw2)
  <2>1. \A i \in DOMAIN calls : i > 1 /\ IsBody(calls[i]) => Keeps(calls[i], k, saw, k2, saw2)
    <3> SUFFICES ASSUME NEW i \in DOMAIN calls, i > 1, IsBody(calls[i]) PROVE Keeps(calls[i], k, saw, k2, saw2)
      OBVIOUS
    <3>0. calls[i] \in Calls /\ calls[i].who \in Readers /\ calls[i].who # r
      <4>1. calls[i] \in Calls
        BY <1>2
      <4> QED BY <1>2, <4>1, CallKinds
    <3>1. k2.dependencies[calls[i].who] = k.dependencies[calls[i].who]
      BY <1>d, <3>0
    <3>2. CASE calls[i].who \in Watches
      BY <1>s, <3>0, <3>1, <3>2, WatchKeeps
    <3>3. CASE calls[i].who \in Computeds
      BY <1>3, <1>9, <3>1, <3>3, ComputedKeeps
    <3> QED BY <3>0, <3>2, <3>3, ReactiveConstants
  <2>2. Progress(calls, k, saw)
    BY DEF ReactiveInv, k, saw
  <2>3. Progress(<<y>> \o t, k2, saw2)
    <3>1. IsBody(y) <=> IsBody(calls[1])
      BY <1>2, <1>5
    <3> QED BY <1>2, <1>5, <1>11, <2>1, <2>2, <3>1, ProgressBecomes
  <2> QED BY <1>1, <2>3
<1>13. ASSUME NEW d, Owed(calls, k, d) PROVE Owed(calls', k2, d)
  <2>1. \A m \in Nodes : d \in k.dependents[m] => d \in k2.dependents[m]
    BY <1>3
  <2>2. Owed(calls, k2, d)
    BY <1>2, <1>13, <2>1, OwedStays
  <2> QED BY <1>1, <1>7, <2>2
<1>14. ASSUME NEW c \in Computeds \ k2.dirty PROVE Current(calls', k2, c)
  <2>1. c # r /\ c \in Readers
    BY <1>2, <1>3, <1>14, ReactiveConstants DEF k
  <2>2. Current(calls, k, c)
    BY <1>3, <1>14 DEF ReactiveInv, k
  <2>3. k2.dependencies[c] = k.dependencies[c]
    BY <1>d, <2>1
  <2> QED BY <1>3, <1>9, <1>13, <2>2, <2>3, CurrentStays
<1>15. ASSUME NEW w \in Watches \ watchers.disposed PROVE Told1(calls', k2, watchers, noted', w)
  <2>1. Told1(calls, k, watchers, noted, w) /\ w \in Readers
    BY ReactiveConstants DEF ReactiveInv, WatchesTold, k
  <2>2. ToDo(calls, w) => ToDo(calls', w)
    BY <1>1, <1>7
  <2>4. CASE w # r
    <3>1. k2.dependencies[w] = k.dependencies[w] /\ noted'.saw[w] = noted.saw[w]
      BY <1>d, <1>s, <2>1, <2>4 DEF saw, saw2
    <3> QED BY <1>3, <1>8, <1>9, <1>13, <2>1, <2>2, <3>1, Told1Stays
  <2>5. CASE w = r
    <3>1. k2.dependencies[w] = k.dependencies[w] \cup (IF Inner.tracked THEN {n} ELSE {})
      BY <1>3, <2>1, <2>5
    <3>2. saw2[w] = saw[w] \cup (IF Inner.tracked THEN {<<n, v>>} ELSE {})
      BY <1>8, <2>5
    <3>3. ReadBy(saw2, w) = ReadBy(saw, w) \cup (IF Inner.tracked THEN {n} ELSE {})
      <4>1. CASE Inner.tracked
        BY <1>m, <2>5, <4>1
      <4>2. CASE ~Inner.tracked
        <5>1. saw2[w] = saw[w]
          BY <3>2, <4>2
        <5> QED BY <4>2, <5>1 DEF ReadBy
      <4> QED BY <4>1, <4>2
    <3>4. ReadBy(saw2, w) \subseteq k2.dependencies[w]
      BY <2>1, <3>1, <3>3 DEF Told1, saw
    <3>5. Holds(k, saw[w]) => Holds(k2, saw2[w])
      BY <1>3, <1>9, <1>10, <3>2 DEF Holds, v
    <3> QED BY <1>2, <1>8, <1>13, <2>1, <2>2, <2>5, <3>4, <3>5 DEF Told1, saw, saw2
  <2> QED BY <2>4, <2>5
<1>16. ReactiveTypes'
  BY <1>1, <1>3, <1>7, <1>8 DEF ReactiveInv, ReactiveTypes, k2
<1>17. Stacked(calls', k2.dirty, watchers.running)
  BY <1>1, <1>3, <1>7 DEF k
<1> QED BY <1>1, <1>3, <1>12, <1>14, <1>15, <1>16, <1>17 DEF ReactiveInv, WatchesTold, k2, saw2

LEMMA GetKept ==
  ASSUME ReactiveInv, Get
  PROVE  ReactiveInv'
BY GetFirstKept, GetReadKept, Zenon

\* What the invariant says of any stack, cells, watchers and notes.
WatcherTypes ==
  [live : SUBSET Watches, running : SUBSET Watches, disposed : SUBSET Watches, depth : Nat, pending : SUBSET Watches]
NoteTypes == [saw : [Watches -> SUBSET (Nodes \X Known)], missed : SUBSET Watches]
Good(s, k, ws, nt) ==
  /\ s \in Seq(Calls) /\ k \in CellTypes /\ ws \in WatcherTypes /\ nt \in NoteTypes
  /\ Linked(k) /\ Stacked(s, k.dirty, ws.running)
  /\ \A c \in Computeds \ k.dirty : Current(s, k, c)
  /\ Progress(s, k, nt.saw) /\ WatchesTold(s, k, ws, nt)

LEMMA GoodNow ==
  ReactiveInv <=> Good(calls, cells, watchers, noted)
BY DEF ReactiveInv, ReactiveTypes, Good, WatcherTypes, NoteTypes

LEMMA GoodNext ==
  ReactiveInv' <=> Good(calls', cells', watchers', noted')
BY DEF ReactiveInv, ReactiveTypes, Good, WatcherTypes, NoteTypes

\* The same, if one computed value need not be current.
GoodBut(s, k, ws, nt, n) ==
  /\ s \in Seq(Calls) /\ k \in CellTypes /\ ws \in WatcherTypes /\ nt \in NoteTypes
  /\ Linked(k) /\ Stacked(s, k.dirty, ws.running)
  /\ \A c \in Computeds \ k.dirty : c # n => Current(s, k, c)
  /\ Progress(s, k, nt.saw) /\ WatchesTold(s, k, ws, nt)

\* One node changes: an observable has another value or a computed value becomes dirty.
Changes(k, k2, n) ==
  /\ k2 \in CellTypes /\ k2.dependents = k.dependents /\ k2.dependencies = k.dependencies /\ k2.cached = k.cached
  /\ k.dirty \subseteq k2.dirty /\ k2.dirty \subseteq k.dirty \cup {n} /\ (n \in Computeds => n \in k2.dirty)
  /\ \A m \in Nodes : m # n => AnswerIn(k2, m) = AnswerIn(k, m)

\* What is on top neither computes nor waits for what it reads.
AtRest(s, k, saw) == s # <<>> => ~Computes(s[1]) /\ (IsBody(s[1]) => Accounted(s[1], {}, k, saw))

LoopOver(k, n) == [kind |-> "mark", of |-> n, among |-> k.dependents[n], done |-> {}]

\* A loop over the dependents of what changes begins.
LEMMA Spreads ==
  ASSUME NEW s, NEW k, NEW k2, NEW ws, NEW nt, NEW n \in Nodes,
         GoodBut(s, k, ws, nt, n), Changes(k, k2, n), AtRest(s, k, nt.saw)
  PROVE  Good(<<LoopOver(k, n)>> \o s, k2, ws, nt)
<1> DEFINE x == LoopOver(k, n)
<1>a. x = [kind |-> "mark", of |-> n, among |-> k.dependents[n], done |-> {}]
  BY DEF LoopOver
<1> HIDE DEF x
<1>b. /\ s \in Seq(Calls) /\ k \in CellTypes /\ ws \in WatcherTypes /\ nt \in NoteTypes
      /\ Linked(k) /\ Stacked(s, k.dirty, ws.running)
      /\ \A c \in Computeds \ k.dirty : c # n => Current(s, k, c)
      /\ Progress(s, k, nt.saw) /\ WatchesTold(s, k, ws, nt)
  BY DEF GoodBut
<1>c. /\ k2 \in CellTypes /\ k2.dependents = k.dependents /\ k2.dependencies = k.dependencies /\ k2.cached = k.cached
      /\ k.dirty \subseteq k2.dirty /\ k2.dirty \subseteq k.dirty \cup {n} /\ (n \in Computeds => n \in k2.dirty)
      /\ \A m \in Nodes : m # n => AnswerIn(k2, m) = AnswerIn(k, m)
  BY DEF Changes
<1>e. s # <<>> => ~Computes(s[1]) /\ (IsBody(s[1]) => Accounted(s[1], {}, k, nt.saw))
  BY DEF AtRest
<1> USE <1>b, <1>c, <1>e
<1>1. x \in Calls /\ x.kind = "mark" /\ ~IsBody(x)
  <2>1. k.dependents[n] \in SUBSET Readers
    BY CellFields
  <2> QED BY <1>a, <2>1 DEF Calls, MarkCalls, IsBody
<1>2. <<x>> \o s \in Seq(Calls)
  BY <1>1, PushedCalls
<1>3. Linked(k2)
  BY DEF Linked
<1>4. ASSUME NEW i \in DOMAIN s PROVE ~Computes(s[i])
  <2>1. Len(s) \in Nat /\ DOMAIN s = 1..Len(s) /\ s # <<>>
    BY <1>4
  <2>2. 1 \in DOMAIN s /\ (i = 1 \/ 1 < i)
    BY <2>1
  <2> QED BY <2>1, <2>2 DEF Stacked
<1>5. Stacked(<<x>> \o s, k2.dirty, ws.running)
  <2>1. Fits(x, s, k2.dirty, ws.running)
    BY <1>1 DEF Fits, Computes, IsBody
  <2>2. Stacked(<<x>> \o s, k2.dirty, ws.running \cup Top(x))
    BY <1>1, <2>1, StackedPush
  <2>3. ws.running \cup Top(x) = ws.running
    BY <1>1 DEF Top
  <2> QED BY <2>2, <2>3
<1>6. Progress(<<x>> \o s, k2, nt.saw)
  <2>1. ASSUME NEW i \in DOMAIN s, IsBody(s[i]) PROVE Keeps(s[i], k, nt.saw, k2, nt.saw)
    <3>1. s[i] \in Calls
      OBVIOUS
    <3>2. s[i].who \in Watches
      BY <1>4, <2>1, <3>1, CallKinds, ReactiveConstants DEF Computes, IsBody
    <3> QED BY <2>1, <3>1, <3>2, WatchKeeps
  <2>2. ASSUME s # <<>>, IsBody(s[1]) PROVE Accounted(s[1], {}, k2, nt.saw)
    <3>1. 1 \in DOMAIN s
      BY <2>2
    <3>2. Accounted(s[1], {}, k, nt.saw)
      BY <2>2
    <3> QED BY <2>1, <2>2, <3>1, <3>2 DEF Keeps
  <2> QED BY <1>1, <2>1, <2>2, ProgressPush
<1>7. ASSUME NEW d \in Readers PROVE /\ Owed(<<x>> \o s, k2, d) <=> (Owes(x, k2, d) \/ Owed(s, k2, d))
                                     /\ Owed(s, k, d) => Owed(s, k2, d)
                                     /\ n \in k.dependencies[d] => Owes(x, k2, d)
  <2>1. Owed(<<x>> \o s, k2, d) <=> (Owes(x, k2, d) \/ Owed(s, k2, d))
    BY <1>1, OwedPush
  <2>2. Owed(s, k, d) => Owed(s, k2, d)
    BY DEF Owed, Owes
  <2>3. n \in k.dependencies[d] => Owes(x, k2, d)
    BY <1>a DEF Linked, Owes
  <2> QED BY <2>1, <2>2, <2>3
<1>8. ASSUME NEW c \in Computeds \ k2.dirty PROVE Current(<<x>> \o s, k2, c)
  <2>1. c # n /\ c \notin k.dirty /\ c \in Readers
    BY <1>8, ReactiveConstants
  <2>2. Current(s, k, c)
    BY <2>1
  <2>3. CASE n \in k.dependencies[c]
    BY <1>7, <2>1, <2>3 DEF Current
  <2>4. CASE n \notin k.dependencies[c]
    <3>1. k.dependencies[c] \cap k2.dirty \subseteq k.dirty
      BY <2>4
    <3>2. \A m \in k.dependencies[c] : m \in k.dirty \/ AnswerIn(k2, m) = AnswerIn(k, m)
      BY <2>1, <2>4, CellFields
    <3> QED BY <1>7, <2>1, <2>2, <3>1, <3>2, CurrentStays
  <2> QED BY <2>3, <2>4
<1>9. ASSUME NEW w \in Watches \ ws.disposed PROVE Told1(<<x>> \o s, k2, ws, nt, w)
  <2>1. w \in Readers /\ Told1(s, k, ws, nt, w)
    BY ReactiveConstants DEF WatchesTold
  <2>2. ToDo(s, w) => ToDo(<<x>> \o s, w)
    BY <1>1, ToDoPush
  <2>3. k2.dependencies[w] = k.dependencies[w]
    OBVIOUS
  <2>4. \/ Owed(<<x>> \o s, k2, w)
        \/ \A m \in k.dependencies[w] : m \in k.dirty \/ (m \notin k2.dirty /\ AnswerIn(k2, m) = AnswerIn(k, m))
    BY <1>7, <2>1, CellFields
  <2> QED BY <1>7, <2>1, <2>2, <2>3, <2>4, Told1Stays
<1>10. WatchesTold(<<x>> \o s, k2, ws, nt)
  BY <1>9 DEF WatchesTold
<1> QED BY <1>2, <1>3, <1>5, <1>6, <1>8, <1>10 DEF Good, x

\* A function of a watch goes on, at a step that reads nothing.
LEMMA GoneOn ==
  ASSUME ReactiveInv, Running("body"), Inner.rest.op \notin {"get", "return", "fail"}, NEW y \in Calls,
         y.kind = "body", y.who = Inner.who
  PROVE  /\ Good(<<y>> \o Tail(calls), cells, watchers, noted)
         /\ ~Computes(y) /\ IsBody(y) /\ Accounted(y, {}, cells, noted.saw) /\ Inner.who \in Watches
<1> DEFINE s == <<y>> \o Tail(calls)
<1>1. /\ calls # <<>> /\ IsBody(Inner) /\ Inner.who \in Readers /\ Accounted(Inner, Awaited(Inner), cells, noted.saw)
      /\ Inner.who \in Computeds => Inner.rest \in Pure
      /\ Inner = calls[1] /\ calls \in Seq(Calls) /\ Inner.kind = "body"
  BY TopBody, OnTop DEF IsBody
<1>2. Inner.who \in Watches /\ Inner.who \notin Computeds
  BY <1>1, ReactiveConstants, PurePoints
<1>3. ~Computes(y) /\ IsBody(y)
  BY <1>2 DEF Computes, IsBody
<1>4. Accounted(y, {}, cells, noted.saw)
  <2>1. Awaited(Inner) = {}
    BY DEF Awaited
  <2> QED BY <1>1, <1>2, <2>1 DEF Accounted
<1>5. /\ s \in Seq(Calls) /\ Stacked(s, cells.dirty, watchers.running)
      /\ \A k, d : Owed(s, k, d) <=> Owed(calls, k, d)
      /\ \A w : ToDo(s, w) <=> ToDo(calls, w)
  BY <1>1, <1>3, BecomesStacked
<1>6. Good(calls, cells, watchers, noted)
  BY GoodNow
<1>7. Progress(s, cells, noted.saw)
  <2>1. \A i \in DOMAIN calls : i > 1 /\ IsBody(calls[i]) => Keeps(calls[i], cells, noted.saw, cells, noted.saw)
    BY DEF Keeps
  <2>2. Accounted(y, Awaited(y), cells, noted.saw)
    BY <1>2, <1>4 DEF Accounted
  <2> QED BY <1>1, <1>3, <1>6, <2>1, <2>2, ProgressBecomes DEF Good
<1> HIDE DEF s
<1>8. ASSUME NEW c \in Computeds \ cells.dirty PROVE Current(s, cells, c)
  BY <1>5, <1>6 DEF Good, Current
<1>9. ASSUME NEW w \in Watches \ watchers.disposed PROVE Told1(s, cells, watchers, noted, w)
  BY <1>5, <1>6 DEF Good, WatchesTold, Told1
<1>10. WatchesTold(s, cells, watchers, noted)
  BY <1>6, <1>9 DEF Good, WatchesTold
<1>11. Good(s, cells, watchers, noted)
  BY <1>5, <1>6, <1>7, <1>8, <1>10 DEF Good
<1> QED BY <1>2, <1>3, <1>4, <1>11 DEF s

LEMMA UntrackKept ==
  ASSUME ReactiveInv, Untrack
  PROVE  ReactiveInv'
<1> DEFINE y == [Inner EXCEPT !.rest = Inner.rest.then, !.tracked = FALSE]
<1>1. /\ Running("body") /\ Inner.rest.op = "untrack" /\ calls' = <<y>> \o Tail(calls)
      /\ UNCHANGED <<cells, watchers, noted>>
  BY DEF Untrack, Body, Becomes
<1>2. y \in Calls /\ y.kind = "body" /\ y.who = Inner.who
  <2>1. Inner \in BodyCalls /\ Inner.rest.then \in Points
    BY <1>1, TopBody, OnTop, CallKinds DEF GoesOnIn
  <2> QED BY <2>1 DEF BodyCalls, Calls
<1> HIDE DEF y
<1>3. Good(<<y>> \o Tail(calls), cells, watchers, noted)
  BY <1>1, <1>2, GoneOn
<1> QED BY <1>1, <1>3, GoodNext

\* A value that is stored.
LEMMA StoredCells ==
  ASSUME NEW k \in CellTypes, NEW o \in Observables, NEW v \in Known, NEW k2, k2 = [k EXCEPT !.value[o] = v]
  PROVE  Changes(k, k2, o) /\ o \in Nodes /\ o \notin Computeds /\ (k.value[o] = v => k2 = k)
<1>1. /\ k2 \in CellTypes /\ k2.dependents = k.dependents /\ k2.dependencies = k.dependencies
      /\ k2.cached = k.cached /\ k2.dirty = k.dirty /\ k2.value = [k.value EXCEPT ![o] = v]
  BY DEF CellTypes
<1>2. \A m \in Nodes : m # o => AnswerIn(k2, m) = AnswerIn(k, m)
  BY <1>1, CellFields DEF AnswerIn
<1>3. ASSUME k.value[o] = v PROVE k2 = k
  <2>1. k2.value = k.value
    BY <1>1, <1>3, CellFields
  <2> QED BY <1>1, <2>1 DEF CellTypes
<1>4. o \in Nodes /\ o \notin Computeds
  BY ReactiveConstants
<1> QED BY <1>1, <1>2, <1>3, <1>4 DEF Changes

LEMMA GoodNearly ==
  ASSUME NEW s, NEW k, NEW ws, NEW nt, Good(s, k, ws, nt), NEW n
  PROVE  GoodBut(s, k, ws, nt, n)
BY DEF Good, GoodBut

LEMMA SetKept ==
  ASSUME ReactiveInv, Set
  PROVE  ReactiveInv'
<1> DEFINE o == Inner.rest.to
           v == Inner.rest.value
           y == GoesOn(Inner.rest.then)
           s == <<y>> \o Tail(calls)
           x == LoopOver(cells, o)
           k2 == cells'
<1>1. /\ Running("body") /\ Inner.rest.op = "set" /\ UNCHANGED <<watchers, noted>>
      /\ k2 = [cells EXCEPT !.value[o] = v]
      /\ calls' = IF cells.value[o] = v THEN s ELSE <<x>> \o s
  BY DEF Set, Body, Becomes, Stored, Marks, LoopOver
<1>2. o \in Observables /\ v \in Known /\ Inner.rest.then \in Points /\ Inner \in BodyCalls
  BY <1>1, TopBody, OnTop, CallKinds DEF GoesOnIn
<1>3. y \in Calls /\ y.kind = "body" /\ y.who = Inner.who
  BY <1>2 DEF BodyCalls, Calls, GoesOn
<1> HIDE DEF y
<1>5. Good(s, cells, watchers, noted) /\ ~Computes(y) /\ IsBody(y) /\ Accounted(y, {}, cells, noted.saw)
  BY <1>1, <1>3, GoneOn
<1>6. AtRest(s, cells, noted.saw)
  <2>1. Tail(calls) \in Seq(Calls)
    BY <1>1, OnTop, TopBody
  <2>2. s[1] = y
    BY <1>3, <2>1, PushedCalls
  <2> QED BY <1>5, <2>2 DEF AtRest
<1>7. cells \in CellTypes
  BY <1>5 DEF Good
<1> HIDE DEF s, k2, o, x, v
<1>8. Changes(cells, k2, o) /\ o \in Nodes /\ (cells.value[o] = v => k2 = cells)
  BY <1>1, <1>2, <1>7, StoredCells
<1>9. Good(<<x>> \o s, k2, watchers, noted)
  BY <1>5, <1>6, <1>8, Spreads, GoodNearly DEF x
<1>10. Good(calls', cells', watchers', noted')
  BY <1>1, <1>5, <1>8, <1>9 DEF k2
<1> QED BY <1>10, GoodNext

LEMMA UserSetKept ==
  ASSUME ReactiveInv, NEW o \in Observables, NEW v \in Values, UserSet(o, v)
  PROVE  ReactiveInv'
<1> DEFINE x == LoopOver(cells, o)
           s == calls
<1>1. s = <<>> /\ UNCHANGED <<watchers, noted>> /\ cells' = [cells EXCEPT !.value[o] = v] /\ calls' = <<x>>
  BY DEF UserSet, Use, Stored, Marks, LoopOver
<1>2. v \in Known
  BY ReactiveConstants
<1> HIDE DEF x
<1>3. calls' = <<x>> \o s
  BY <1>1
<1> HIDE DEF s
<1>4. Good(s, cells, watchers, noted) /\ cells \in CellTypes
  BY GoodNow DEF Good, s
<1>5. Changes(cells, cells', o) /\ o \in Nodes
  BY <1>1, <1>2, <1>4, StoredCells
<1>6. AtRest(s, cells, noted.saw)
  BY <1>1 DEF AtRest
<1>7. Good(<<x>> \o s, cells', watchers, noted)
  BY <1>4, <1>5, <1>6, Spreads, GoodNearly DEF x
<1>8. Good(calls', cells', watchers', noted')
  BY <1>1, <1>3, <1>7
<1> QED BY <1>8, GoodNext

\* What a computed value's function answers is kept.
LEMMA ReturnComputedKept ==
  ASSUME ReactiveInv, Return, Inner.who \in Computeds
  PROVE  ReactiveInv'
<1> DEFINE c == Inner.who
           v == IF Inner.rest.op = "fail" THEN Nothing ELSE Inner.rest.value
           k == cells
           k2 == cells'
           t == Tail(calls)
           saw == noted.saw
<1>1. /\ Running("body") /\ Inner.rest.op \in {"return", "fail"} /\ UNCHANGED <<watchers, noted>>
      /\ calls' = t /\ k2 = [k EXCEPT !.dirty = @ \ {c}, !.cached[c] = v]
  BY DEF Return
<1>2. /\ calls # <<>> /\ IsBody(Inner) /\ Accounted(Inner, Awaited(Inner), k, saw)
      /\ Computes(Inner) /\ Inner.rest \in Pure /\ c \in k.dirty
      /\ \A i \in DOMAIN calls : i > 1 /\ IsBody(calls[i]) => calls[i].who # c
      /\ Inner = calls[1] /\ calls \in Seq(Calls) /\ k \in CellTypes /\ Inner \in Calls /\ t \in Seq(Calls)
      /\ Inner = Head(calls) /\ Inner.kind = "body"
  BY <1>1, TopBody, OnTop DEF IsBody, Inner
<1>3. c \in Computeds /\ c \in Nodes /\ c \in Readers /\ c \notin Watches /\ c \notin Observables /\ v \in Known
  BY <1>1, <1>2, PurePoints, ReactiveConstants
<1>4. Good(calls, k, watchers, noted)
  BY GoodNow
<1>5. /\ k2 \in CellTypes /\ k2.dirty = k.dirty \ {c} /\ k2.value = k.value
      /\ k2.dependents = k.dependents /\ k2.dependencies = k.dependencies
      /\ k2.cached = [k.cached EXCEPT ![c] = v]
  BY <1>1, <1>2, <1>3 DEF CellTypes
<1>6. k2.cached[c] = v /\ \A m \in Nodes : m # c => AnswerIn(k2, m) = AnswerIn(k, m)
  BY <1>3, <1>5, <1>2, CellFields, ReactiveConstants DEF AnswerIn
<1>7. \A s \in Solutions : s[1][Inner.rest] = v
  <2> SUFFICES ASSUME NEW s \in Solutions PROVE s[1][Inner.rest] = v
    OBVIOUS
  <2>1. s[1][Inner.rest] = Step(Inner.rest, s[1], s[2])
    BY <1>2 DEF Solutions, Solves
  <2> QED BY <1>1, <2>1 DEF Step
<1> HIDE DEF k2, k, v, c, t, saw
<1>8. Stacked(t, k2.dirty, watchers.running)
  <2>1. Stacked(calls, k.dirty, watchers.running)
    BY <1>4 DEF Good
  <2>2. Stacked(t, k.dirty \ {c}, watchers.running \ Top(Inner))
    BY <1>2, <2>1, StackedPop DEF t, c
  <2>3. watchers.running \ Top(Inner) = watchers.running
    BY <1>3 DEF Top, c
  <2> QED BY <1>5, <2>2, <2>3
<1>9. Progress(t, k2, saw)
  <2>1. ASSUME NEW i \in DOMAIN calls, i > 1, IsBody(calls[i]) PROVE Keeps(calls[i], k, saw, k2, saw)
    <3>1. calls[i] \in Calls /\ calls[i].who \in Readers /\ calls[i].who # c
      <4>1. calls[i] \in Calls
        BY <1>2
      <4> QED BY <1>2, <2>1, <4>1, CallKinds
    <3>2. k2.dependencies[calls[i].who] = k.dependencies[calls[i].who]
      BY <1>5
    <3>3. CASE calls[i].who \in Watches
      BY <2>1, <3>1, <3>2, <3>3, WatchKeeps
    <3>4. CASE calls[i].who \in Computeds
      <4>1. k2.dirty \subseteq k.dirty
        BY <1>5
      <4>2. \A n \in k.dependencies[calls[i].who] \ k.dirty : AnswerIn(k2, n) = AnswerIn(k, n)
        BY <1>2, <1>6, <3>1, CellFields
      <4> QED BY <3>2, <3>4, <4>1, <4>2, ComputedKeeps
    <3> QED BY <3>1, <3>3, <3>4, ReactiveConstants
  <2>2. Progress(calls, k, saw)
    BY <1>4 DEF Good, saw
  <2> QED BY <1>2, <2>1, <2>2, ProgressPop DEF t
<1>10. \A d : Owed(calls, k, d) => Owed(t, k2, d)
  <2> SUFFICES ASSUME NEW d, Owed(calls, k, d) PROVE Owed(t, k2, d)
    OBVIOUS
  <2>1. Owed(t, k, d)
    BY <1>2, OwedTop DEF Owes, t
  <2> QED BY <1>5, <2>1 DEF Owed, Owes
<1>11. \A w : ToDo(calls, w) => ToDo(t, w)
  <2> SUFFICES ASSUME NEW w, ToDo(calls, w) PROVE ToDo(t, w)
    OBVIOUS
  <2> QED BY <1>2, ToDoTop DEF t
<1>12. ASSUME NEW d \in Computeds \ k2.dirty PROVE Current(t, k2, d)
  <2>1. CASE d = c
    <3>1. Accounted(Inner, {}, k, saw)
      BY <1>1, <1>2 DEF Awaited
    <3>2. k.dependencies[c] \cap k.dirty = {} /\ Reaches(k, c, Inner.rest)
      BY <1>3, <3>1 DEF Accounted, c
    <3>3. c \notin k.dependencies[c]
      BY <1>2, <3>2
    <3>4. k2.dependencies[c] \cap k2.dirty = {}
      BY <1>5, <3>2
    <3>5. \A a : Agrees(k2, c, a) => Agrees(k, c, a)
      BY <1>2, <1>3, <1>5, <1>6, <3>2, <3>3, CellFields DEF Agrees
    <3>6. Gives(k2, c, k2.cached[c])
      BY <1>6, <1>7, <3>2, <3>5 DEF Reaches, Gives
    <3> QED BY <2>1, <3>4, <3>6 DEF Current
  <2>2. CASE d # c
    <3>1. d \notin k.dirty /\ d \in Readers
      BY <1>5, <1>12, <2>2, ReactiveConstants
    <3>2. Current(calls, k, d)
      BY <1>4, <3>1 DEF Good
    <3>3. k2.dependencies[d] = k.dependencies[d] /\ k2.cached[d] = k.cached[d]
      BY <1>2, <1>5, <2>2, CellFields
    <3>4. k.dependencies[d] \cap k2.dirty \subseteq k.dirty
      BY <1>5
    <3>5. \A n \in k.dependencies[d] : n \in k.dirty \/ AnswerIn(k2, n) = AnswerIn(k, n)
      BY <1>2, <1>6, <3>1, CellFields
    <3> QED BY <1>10, <3>2, <3>3, <3>4, <3>5, CurrentStays
  <2> QED BY <2>1, <2>2
<1>13. ASSUME NEW w \in Watches \ watchers.disposed PROVE Told1(t, k2, watchers, noted, w)
  <2>1. Told1(calls, k, watchers, noted, w) /\ w \in Readers
    BY <1>4, ReactiveConstants DEF Good, WatchesTold
  <2>2. k2.dependencies[w] = k.dependencies[w]
    BY <1>5
  <2>3. \A n \in k.dependencies[w] : n \in k.dirty \/ (n \notin k2.dirty /\ AnswerIn(k2, n) = AnswerIn(k, n))
    BY <1>2, <1>5, <1>6, <2>1, CellFields
  <2> QED BY <1>10, <1>11, <2>1, <2>2, <2>3, Told1Stays
<1>14. Linked(k2)
  BY <1>4, <1>5 DEF Good, Linked
<1>15. Good(t, k2, watchers, noted)
  BY <1>2, <1>4, <1>5, <1>8, <1>9, <1>12, <1>13, <1>14 DEF Good, WatchesTold, saw
<1> QED BY <1>1, <1>15, GoodNext DEF k2

\* What is on top returns and leaves the cells alone.
LEMMA Pops ==
  ASSUME ReactiveInv, calls # <<>>, ~Computes(Inner), UNCHANGED <<cells, noted>>, calls' = Tail(calls),
         watchers' = [watchers EXCEPT !.running = @ \ Top(Inner)],
         \A d : ~Owes(Inner, cells, d),
         \A w : ~(Inner.kind = "flush" /\ w \in Inner.todo),
         IsBody(Inner) => Accounted(Inner, {}, cells, noted.saw)
  PROVE  ReactiveInv'
<1> DEFINE k == cells
           t == Tail(calls)
           ws2 == watchers'
<1>1. /\ Inner = calls[1] /\ calls \in Seq(Calls) /\ k \in CellTypes /\ Inner \in Calls /\ t \in Seq(Calls)
      /\ Inner = Head(calls) /\ Readers = Computeds \cup Watches
  BY OnTop, ReactiveConstants DEF Inner
<1>2. Good(calls, k, watchers, noted)
  BY GoodNow
<1>3. /\ ws2 \in WatcherTypes /\ ws2.running = watchers.running \ Top(Inner)
      /\ ws2.live = watchers.live /\ ws2.disposed = watchers.disposed /\ ws2.pending = watchers.pending
      /\ ws2.depth = watchers.depth
  <2>1. watchers \in WatcherTypes
    BY <1>2 DEF Good
  <2> HIDE DEF t, k
  <2> QED BY <2>1 DEF WatcherTypes
<1> HIDE DEF k, t, ws2
<1>4. Stacked(t, k.dirty, ws2.running)
  <2>1. Stacked(calls, k.dirty, watchers.running)
    BY <1>2 DEF Good
  <2>2. Stacked(t, k.dirty, watchers.running \ Top(Inner))
    BY <1>1, <2>1, StackedPop DEF t
  <2> QED BY <1>3, <2>2
<1>5. Progress(t, k, noted.saw)
  <2>1. \A i \in DOMAIN calls : i > 1 /\ IsBody(calls[i]) => Keeps(calls[i], k, noted.saw, k, noted.saw)
    BY DEF Keeps
  <2>2. Progress(calls, k, noted.saw)
    BY <1>2 DEF Good
  <2> QED BY <1>1, <2>1, <2>2, ProgressPop DEF t
<1>6. \A d : Owed(calls, k, d) => Owed(t, k, d)
  BY <1>1, OwedTop DEF t, k
<1>7. \A w : ToDo(calls, w) => ToDo(t, w)
  BY <1>1, ToDoTop DEF t
<1>8. ASSUME NEW c \in Computeds \ k.dirty PROVE Current(t, k, c)
  <2>1. Current(calls, k, c)
    BY <1>2 DEF Good
  <2> QED BY <1>6, <2>1 DEF Current
<1>9. ASSUME NEW w \in Watches \ watchers.disposed PROVE Told1(t, k, ws2, noted, w)
  <2>1. Told1(calls, k, watchers, noted, w)
    BY <1>2 DEF Good, WatchesTold
  <2>2. ASSUME w \notin ws2.running PROVE w \notin watchers.running \/ k.dependencies[w] \subseteq ReadBy(noted.saw, w)
    <3>1. CASE w \in Top(Inner)
      <4>1. IsBody(Inner) /\ Inner.who = w /\ w \in Watches /\ w \notin Computeds
        BY <3>1, ReactiveConstants DEF Top
      <4>2. Accounted(Inner, {}, k, noted.saw)
        BY <4>1 DEF k
      <4> QED BY <4>1, <4>2 DEF Accounted
    <3>2. CASE w \notin Top(Inner)
      BY <1>3, <2>2, <3>2
    <3> QED BY <3>1, <3>2
  <2> QED BY <1>3, <1>6, <1>7, <2>1, <2>2 DEF Told1
<1>10. WatchesTold(t, k, ws2, noted)
  BY <1>2, <1>3, <1>9 DEF Good, WatchesTold
<1>11. Good(t, k, ws2, noted)
  BY <1>1, <1>2, <1>3, <1>4, <1>5, <1>8, <1>10 DEF Good
<1> QED BY <1>11, GoodNext DEF k, t, ws2

LEMMA ReturnWatchKept ==
  ASSUME ReactiveInv, Return, Inner.who \notin Computeds
  PROVE  ReactiveInv'
<1>1. /\ Running("body") /\ Inner.rest.op \in {"return", "fail"} /\ UNCHANGED <<cells, noted>>
      /\ calls' = Tail(calls) /\ watchers' = [watchers EXCEPT !.running = @ \ {Inner.who}]
  BY DEF Return
<1>2. /\ calls # <<>> /\ IsBody(Inner) /\ Inner.who \in Watches /\ Inner.kind = "body"
      /\ Accounted(Inner, Awaited(Inner), cells, noted.saw)
  BY <1>1, TopBody, ReactiveConstants DEF IsBody
<1>3. Top(Inner) = {Inner.who} /\ Awaited(Inner) = {} /\ ~Computes(Inner)
  BY <1>1, <1>2 DEF Top, Awaited, Computes
<1>4. \A d : ~Owes(Inner, cells, d)
  BY <1>2 DEF Owes
<1>5. \A w : ~(Inner.kind = "flush" /\ w \in Inner.todo)
  BY <1>2
<1> QED BY <1>1, <1>2, <1>3, <1>4, <1>5, Pops

LEMMA ReturnKept ==
  ASSUME ReactiveInv, Return
  PROVE  ReactiveInv'
BY ReturnComputedKept, ReturnWatchKept, Zenon

\* A loop that is done.
LEMMA LoopPops ==
  ASSUME ReactiveInv, calls # <<>>, Inner.kind \in {"mark", "flush"}, UNCHANGED <<cells, watchers, noted>>,
         calls' = Tail(calls),
         \A d : ~Owes(Inner, cells, d), \A w : ~(Inner.kind = "flush" /\ w \in Inner.todo)
  PROVE  ReactiveInv'
<1>1. ~IsBody(Inner) /\ ~Computes(Inner) /\ Top(Inner) = {}
  BY DEF IsBody, Computes, Top
<1>2. watchers' = [watchers EXCEPT !.running = @ \ Top(Inner)]
  <2>1. watchers \in WatcherTypes
    BY GoodNow DEF Good
  <2>2. watchers.running \ {} = watchers.running
    OBVIOUS
  <2>3. [watchers EXCEPT !.running = watchers.running] = watchers
    BY <2>1 DEF WatcherTypes
  <2> QED BY <1>1, <2>2, <2>3
<1> QED BY <1>1, <1>2, Pops

LEMMA EndMarkKept ==
  ASSUME ReactiveInv, EndMark, ~tables'.cut
  PROVE  ReactiveInv'
<1>1. /\ Running("mark") /\ cells.dependents[Inner.of] \cap Inner.among \subseteq Inner.done
      /\ calls' = Tail(calls) /\ UNCHANGED <<cells, watchers, noted>>
  BY DEF EndMark
<1>2. \A d : ~Owes(Inner, cells, d)
  BY <1>1 DEF Owes
<1> QED BY <1>1, <1>2, LoopPops DEF Running

LEMMA EndFlushKept ==
  ASSUME ReactiveInv, EndFlush
  PROVE  ReactiveInv'
<1>1. /\ Running("flush") /\ Inner.todo = {}
      /\ calls' = Tail(calls) /\ UNCHANGED <<cells, watchers, noted>>
  BY DEF EndFlush
<1>2. \A d : ~Owes(Inner, cells, d)
  BY <1>1 DEF Owes, Running
<1> QED BY <1>1, <1>2, LoopPops DEF Running

\* A loop that goes on to the next.
LEMMA LoopGoesOn ==
  ASSUME ReactiveInv, calls # <<>>, Inner.kind \in {"mark", "flush"}, NEW y \in Calls, y.kind = Inner.kind
  PROVE  LET s == <<y>> \o Tail(calls)
         IN /\ s \in Seq(Calls) /\ s # <<>> /\ s[1] = y /\ ~IsBody(y) /\ ~Computes(y)
            /\ Stacked(s, cells.dirty, watchers.running)
            /\ Progress(s, cells, noted.saw)
            /\ \A d : (Owes(Inner, cells, d) => Owes(y, cells, d)) =>
                        (Owed(calls, cells, d) => Owed(s, cells, d))
            /\ \A w : (Inner.kind = "flush" /\ w \in Inner.todo => w \in y.todo) => (ToDo(calls, w) => ToDo(s, w))
<1> DEFINE t == Tail(calls)
           s == <<y>> \o t
<1>1. /\ Inner = calls[1] /\ calls \in Seq(Calls) /\ Inner \in Calls /\ t \in Seq(Calls) /\ Inner = Head(calls)
  BY OnTop DEF Inner
<1>2. ~IsBody(y) /\ ~Computes(y) /\ ~IsBody(Inner)
  BY DEF IsBody, Computes
<1>3. s \in Seq(Calls) /\ Stacked(s, cells.dirty, watchers.running)
  BY <1>2, BecomesStacked
<1>4. s # <<>> /\ s[1] = y
  BY <1>1, PushedCalls
<1>5. Progress(s, cells, noted.saw)
  <2>1. \A i \in DOMAIN calls : i > 1 /\ IsBody(calls[i]) => Keeps(calls[i], cells, noted.saw, cells, noted.saw)
    BY DEF Keeps
  <2>2. Progress(calls, cells, noted.saw)
    BY GoodNow DEF Good
  <2>3. calls[1] = Inner
    BY <1>1
  <2> QED BY <1>1, <1>2, <2>1, <2>2, <2>3, ProgressBecomes
<1>6. ASSUME NEW d, Owes(Inner, cells, d) => Owes(y, cells, d), Owed(calls, cells, d) PROVE Owed(s, cells, d)
  <2>1. Owes(Inner, cells, d) \/ Owed(t, cells, d)
    BY <1>1, <1>6, OwedTop
  <2> QED BY <1>1, <1>6, <2>1, OwedPush
<1>7. ASSUME NEW w, Inner.kind = "flush" /\ w \in Inner.todo => w \in y.todo, ToDo(calls, w) PROVE ToDo(s, w)
  <2>1. (Inner.kind = "flush" /\ w \in Inner.todo) \/ ToDo(t, w)
    BY <1>1, <1>7, ToDoTop
  <2> QED BY <1>1, <1>7, <2>1, ToDoPush
<1> QED BY <1>2, <1>3, <1>4, <1>5, <1>6, <1>7

\* run() of a watch: it forgets what it depended on and has noticed, and begins.
LEMMA Runs ==
  ASSUME NEW s, NEW w \in Watches, w \notin watchers.running, ReactiveInv, s \in Seq(Calls), s # <<>>, ~IsBody(s[1]),
         Stacked(s, cells.dirty, watchers.running), Progress(s, cells, noted.saw),
         \A d : d # w /\ Owed(calls, cells, d) => Owed(s, cells, d),
         \A q : q # w /\ ToDo(calls, q) => ToDo(s, q),
         Run(w, s)
  PROVE  ReactiveInv'
<1>1. Good(calls, cells, watchers, noted)
  BY GoodNow
<1>2. ASSUME NEW c \in Computeds \ cells.dirty PROVE Current(s, cells, c)
  <2>1. c # w
    BY ReactiveConstants
  <2> QED BY <1>1, <2>1 DEF Good, Current
<1>3. ASSUME NEW q \in Watches \ watchers.disposed, q # w PROVE Told1(s, cells, watchers, noted, q)
  BY <1>1, <1>3 DEF Good, WatchesTold, Told1
<1>4. CASE w \in watchers.disposed
  <2>1. calls' = s /\ UNCHANGED <<cells, watchers, noted>>
    BY <1>4 DEF Run
  <2>2. WatchesTold(s, cells, watchers, noted)
    BY <1>1, <1>3, <1>4 DEF Good, WatchesTold
  <2>3. Good(s, cells, watchers, noted)
    BY <1>1, <1>2, <2>2 DEF Good
  <2> QED BY <2>1, <2>3, GoodNext
<1>5. CASE w \notin watchers.disposed
  <2> DEFINE x == Begins(w)
             k == cells
             k2 == cells'
             ws2 == watchers'
             saw2 == noted'.saw
  <2>1. /\ calls' = <<x>> \o s /\ k2 = Unlinking(k, w) /\ ws2 = [watchers EXCEPT !.running = @ \cup {w}]
        /\ noted' = [saw |-> [noted.saw EXCEPT ![w] = {}], missed |-> noted.missed \ {w}]
    BY <1>5 DEF Run, Forgotten, Unlinking
  <2>2. w \in Readers /\ w \notin Computeds /\ k \in CellTypes /\ Linked(k) /\ watchers \in WatcherTypes /\ noted \in NoteTypes
    BY <1>1, ReactiveConstants DEF Good
  <2>3. /\ k2 \in CellTypes /\ Linked(k2)
        /\ k2.value = k.value /\ k2.cached = k.cached /\ k2.dirty = k.dirty
        /\ \A m \in Nodes : k2.dependents[m] = k.dependents[m] \ {w}
        /\ \A q \in Readers : k2.dependencies[q] = IF q = w THEN {} ELSE k.dependencies[q]
    BY <2>1, <2>2, Forgets
  <2>4. /\ ws2 \in WatcherTypes /\ ws2.running = watchers.running \cup {w} /\ ws2.live = watchers.live
        /\ ws2.disposed = watchers.disposed /\ ws2.pending = watchers.pending /\ ws2.depth = watchers.depth
    BY <2>1, <2>2 DEF WatcherTypes
  <2>5. /\ noted' \in NoteTypes /\ saw2[w] = {} /\ noted'.missed = noted.missed \ {w}
        /\ \A q \in Watches : q # w => saw2[q] = noted.saw[q]
    BY <2>1, <2>2 DEF NoteTypes
  <2>6. /\ x \in Calls /\ IsBody(x) /\ x.who = w /\ x.rest = Bodies[w] /\ x.tracked /\ x.kind = "body"
        /\ ~Computes(x) /\ Top(x) = {w}
    BY <2>2, BeginsCall DEF Computes, Top
  <2> HIDE DEF x, k, k2, ws2, saw2
  <2>7. \A m : AnswerIn(k2, m) = AnswerIn(k, m)
    BY <2>3 DEF AnswerIn
  <2>8. <<x>> \o s \in Seq(Calls)
    BY <2>6, PushedCalls
  <2>9. Stacked(<<x>> \o s, k2.dirty, ws2.running)
    <3>1. Fits(x, s, k.dirty, watchers.running)
      BY <2>6 DEF Fits
    <3>2. Stacked(<<x>> \o s, k.dirty, watchers.running \cup Top(x))
      BY <2>6, <3>1, StackedPush DEF k
    <3> QED BY <2>3, <2>4, <2>6, <3>2
  <2>10. Progress(<<x>> \o s, k2, saw2)
    <3>1. ASSUME NEW i \in DOMAIN s, IsBody(s[i]) PROVE Keeps(s[i], k, noted.saw, k2, saw2)
      <4>1. s[i] \in Calls
        OBVIOUS
      <4>2. s[i].who \in Readers /\ s[i].who # w
        BY <3>1, <4>1, CallKinds DEF Stacked
      <4>3. k2.dependencies[s[i].who] = k.dependencies[s[i].who]
        BY <2>3, <4>2
      <4>4. CASE s[i].who \in Watches
        BY <2>5, <3>1, <4>1, <4>2, <4>3, <4>4, WatchKeeps
      <4>5. CASE s[i].who \in Computeds
        BY <2>3, <2>7, <4>3, <4>5, ComputedKeeps
      <4> QED BY <4>2, <4>4, <4>5, ReactiveConstants
    <3>2. Accounted(x, Awaited(x), k2, saw2)
      BY <2>2, <2>3, <2>6 DEF Accounted
    <3>3. Progress(s, k, noted.saw)
      BY DEF k
    <3> QED BY <2>6, <3>1, <3>2, <3>3, ProgressPush
  <2>11. ASSUME NEW d, d # w, Owed(s, k, d) PROVE Owed(<<x>> \o s, k2, d)
    <3>1. Owed(s, k2, d)
      BY <2>3, <2>11, OwedStays
    <3> QED BY <2>6, <3>1, OwedPush
  <2>12. ASSUME NEW c \in Computeds \ k2.dirty PROVE Current(<<x>> \o s, k2, c)
    <3>1. Current(s, k, c) /\ c # w /\ c \in Readers
      BY <1>2, <2>2, <2>3, <2>12, ReactiveConstants DEF k
    <3>2. k2.dependencies[c] = k.dependencies[c]
      BY <2>3, <3>1
    <3> QED BY <2>3, <2>7, <2>11, <3>1, <3>2, CurrentStays
  <2>13. ASSUME NEW q \in Watches \ watchers.disposed PROVE Told1(<<x>> \o s, k2, ws2, noted', q)
    <3>1. CASE q = w
      <4>1. ReadBy(saw2, w) = {}
        BY <2>5 DEF ReadBy
      <4>2. Holds(k2, saw2[w])
        BY <2>5 DEF Holds
      <4> QED BY <2>4, <3>1, <4>1, <4>2 DEF Told1, saw2
    <3>2. CASE q # w
      <4>1. Told1(s, k, watchers, noted, q) /\ q \in Readers
        BY <1>3, <3>2, ReactiveConstants DEF k
      <4>2. k2.dependencies[q] = k.dependencies[q] /\ noted'.saw[q] = noted.saw[q]
        BY <2>3, <2>5, <3>2, <4>1 DEF saw2
      <4>3. ToDo(s, q) => ToDo(<<x>> \o s, q)
        BY <2>6, ToDoPush
      <4>4. q \notin ws2.running => q \notin watchers.running
        BY <2>4
      <4>5. q \in watchers.pending \cup noted.missed => q \in ws2.pending \cup noted'.missed
        BY <2>4, <2>5, <3>2
      <4> QED BY <2>3, <2>7, <2>11, <3>2, <4>1, <4>2, <4>3, <4>4, <4>5, Told1Stays
    <3> QED BY <3>1, <3>2
  <2>14. WatchesTold(<<x>> \o s, k2, ws2, noted')
    BY <1>1, <2>4, <2>13 DEF Good, WatchesTold
  <2>15. Good(<<x>> \o s, k2, ws2, noted')
    BY <2>3, <2>4, <2>5, <2>8, <2>9, <2>10, <2>12, <2>14 DEF Good, saw2
  <2> QED BY <2>1, <2>15, GoodNext DEF k2, ws2
<1> QED BY <1>4, <1>5

LEMMA MarkKept ==
  ASSUME ReactiveInv, NEW d \in Readers, Mark(d)
  PROVE  ReactiveInv'
<1> DEFINE y == [Inner EXCEPT !.done = @ \cup {d}]
           s == <<y>> \o Tail(calls)
<1>1. /\ Running("mark")
      /\ IF d \in Watches THEN MarkWatch(d, s) ELSE MarkComputed(d, s)
  BY DEF Mark, Becomes
<1>2. calls # <<>> /\ Inner.kind = "mark" /\ Inner \in MarkCalls
  BY <1>1, OnTop, CallKinds DEF Running
<1>3. /\ y \in Calls /\ y.kind = "mark" /\ y.of = Inner.of /\ y.among = Inner.among /\ y.done = Inner.done \cup {d}
  BY <1>2 DEF MarkCalls, Calls
<1> HIDE DEF y
<1>4. /\ s \in Seq(Calls) /\ s # <<>> /\ s[1] = y /\ ~IsBody(y) /\ ~Computes(y)
      /\ Stacked(s, cells.dirty, watchers.running)
      /\ Progress(s, cells, noted.saw)
      /\ \A e : e # d => (Owed(calls, cells, e) => Owed(s, cells, e))
      /\ \A w : ToDo(calls, w) => ToDo(s, w)
  <2>1. \A e : e # d /\ Owes(Inner, cells, e) => Owes(y, cells, e)
    BY <1>3 DEF Owes
  <2> QED BY <1>2, <1>3, <2>1, LoopGoesOn
<1> HIDE DEF s
<1>5. Good(calls, cells, watchers, noted)
  BY GoodNow
<1>6. \A c \in Computeds \ cells.dirty : c # d => Current(s, cells, c)
  BY <1>4, <1>5 DEF Good, Current
<1>7. \A w \in Watches \ watchers.disposed : w # d => Told1(s, cells, watchers, noted, w)
  BY <1>4, <1>5 DEF Good, WatchesTold, Told1
<1>8. CASE d \in Computeds
  <2>1. d \notin Watches /\ MarkComputed(d, s)
    BY <1>1, <1>8, ReactiveConstants
  <2>2. WatchesTold(s, cells, watchers, noted)
    BY <1>5, <1>7, <2>1 DEF Good, WatchesTold
  <2>3. GoodBut(s, cells, watchers, noted, d)
    BY <1>4, <1>5, <1>6, <2>2 DEF Good, GoodBut
  <2>4. /\ cells' = [cells EXCEPT !.dirty = @ \cup {d}] /\ UNCHANGED <<watchers, noted>>
        /\ calls' = IF d \in cells.dirty THEN s ELSE <<LoopOver(cells, d)>> \o s
    BY <2>1 DEF MarkComputed, Marks, LoopOver
  <2>5. cells \in CellTypes
    BY <1>5 DEF Good
  <2>6. CASE d \in cells.dirty
    <3>1. cells' = cells
      <4>1. cells.dirty \cup {d} = cells.dirty
        BY <2>6
      <4> QED BY <2>4, <2>5, <4>1 DEF CellTypes
    <3>2. Good(s, cells, watchers, noted)
      BY <2>3, <2>6 DEF Good, GoodBut
    <3> QED BY <2>4, <2>6, <3>1, <3>2, GoodNext
  <2>7. CASE d \notin cells.dirty
    <3>1. Changes(cells, cells', d)
      <4>1. /\ cells' \in CellTypes /\ cells'.dependents = cells.dependents
            /\ cells'.dependencies = cells.dependencies /\ cells'.cached = cells.cached
            /\ cells'.value = cells.value /\ cells'.dirty = cells.dirty \cup {d}
        BY <1>8, <2>4, <2>5 DEF CellTypes
      <4>2. \A m : AnswerIn(cells', m) = AnswerIn(cells, m)
        BY <4>1 DEF AnswerIn
      <4> QED BY <4>1, <4>2 DEF Changes
    <3>2. AtRest(s, cells, noted.saw)
      BY <1>4 DEF AtRest
    <3>3. d \in Nodes
      BY <1>8, ReactiveConstants
    <3>4. Good(<<LoopOver(cells, d)>> \o s, cells', watchers, noted)
      BY <2>3, <3>1, <3>2, <3>3, Spreads
    <3> QED BY <2>4, <2>7, <3>4, GoodNext
  <2> QED BY <2>6, <2>7
<1>9. CASE d \in Watches
  <2>0. MarkWatch(d, s) /\ d \notin Computeds
    BY <1>1, <1>9, ReactiveConstants
  <2>c. \A c \in Computeds \ cells.dirty : Current(s, cells, c)
    BY <1>6, <2>0
  <2>t. watchers \in WatcherTypes /\ noted \in NoteTypes
    BY <1>5 DEF Good
  <2>1. CASE d \in watchers.running
    <3>1. calls' = s /\ noted' = [noted EXCEPT !.missed = @ \cup {d}] /\ UNCHANGED <<cells, watchers>>
      BY <2>0, <2>1 DEF MarkWatch
    <3>2. noted' \in NoteTypes /\ noted'.saw = noted.saw /\ noted'.missed = noted.missed \cup {d}
      BY <1>9, <2>t, <3>1 DEF NoteTypes
    <3>3. ASSUME NEW w \in Watches \ watchers.disposed PROVE Told1(s, cells, watchers, noted', w)
      <4>1. CASE w = d
        <5>1. Told1(calls, cells, watchers, noted, w)
          BY <1>5 DEF Good, WatchesTold
        <5> QED BY <3>2, <4>1, <5>1 DEF Told1, ReadBy
      <4>2. CASE w # d
        <5>1. Told1(s, cells, watchers, noted, w)
          BY <1>7, <4>2
        <5> QED BY <3>2, <5>1 DEF Told1, ReadBy
      <4> QED BY <4>1, <4>2
    <3>4. Good(s, cells, watchers, noted')
      BY <1>4, <1>5, <2>c, <3>2, <3>3 DEF Good, WatchesTold
    <3> QED BY <3>1, <3>4, GoodNext
  <2>2. CASE d \notin watchers.running /\ watchers.depth > 0
    <3>1. calls' = s /\ watchers' = [watchers EXCEPT !.pending = @ \cup {d}] /\ UNCHANGED <<cells, noted>>
      BY <2>0, <2>2 DEF MarkWatch
    <3> DEFINE ws2 == watchers'
    <3>2. /\ ws2 \in WatcherTypes /\ ws2.running = watchers.running /\ ws2.live = watchers.live
          /\ ws2.disposed = watchers.disposed /\ ws2.pending = watchers.pending \cup {d} /\ ws2.depth = watchers.depth
      BY <1>9, <2>t, <3>1 DEF WatcherTypes
    <3> HIDE DEF ws2
    <3>3. ASSUME NEW w \in Watches \ watchers.disposed PROVE Told1(s, cells, ws2, noted, w)
      <4>1. CASE w = d
        <5>1. Told1(calls, cells, watchers, noted, w)
          BY <1>5 DEF Good, WatchesTold
        <5> QED BY <3>2, <4>1, <5>1 DEF Told1
      <4>2. CASE w # d
        <5>1. Told1(s, cells, watchers, noted, w)
          BY <1>7, <4>2
        <5> QED BY <3>2, <5>1 DEF Told1
      <4> QED BY <4>1, <4>2
    <3>5. ws2.depth # 0
      BY <2>2, <3>2
    <3>4. Good(s, cells, ws2, noted)
      BY <1>4, <1>5, <2>c, <3>2, <3>3, <3>5 DEF Good, WatchesTold
    <3> QED BY <3>1, <3>4, GoodNext DEF ws2
  <2>3. CASE d \notin watchers.running /\ ~(watchers.depth > 0)
    <3>1. Run(d, s)
      BY <2>0, <2>3 DEF MarkWatch
    <3>2. ~IsBody(s[1])
      BY <1>4
    <3> QED BY <1>4, <1>9, <2>3, <3>1, <3>2, Runs
  <2> QED BY <2>1, <2>2, <2>3
<1> QED BY <1>8, <1>9, ReactiveConstants

LEMMA FlushKept ==
  ASSUME ReactiveInv, NEW w \in Watches, Flush(w)
  PROVE  ReactiveInv'
<1> DEFINE y == [Inner EXCEPT !.todo = @ \ {w}]
           s == <<y>> \o Tail(calls)
<1>1. Running("flush") /\ w \in Inner.todo /\ Run(w, s)
  BY DEF Flush, Becomes
<1>2. calls # <<>> /\ Inner.kind = "flush" /\ Inner \in FlushCalls /\ calls \in Seq(Calls) /\ Inner = calls[1]
  BY <1>1, OnTop, CallKinds DEF Running
<1>3. y \in Calls /\ y.kind = "flush" /\ y.todo = Inner.todo \ {w}
  BY <1>2 DEF FlushCalls, Calls
<1> HIDE DEF y
<1>4. /\ s \in Seq(Calls) /\ s # <<>> /\ s[1] = y /\ ~IsBody(y)
      /\ Stacked(s, cells.dirty, watchers.running)
      /\ Progress(s, cells, noted.saw)
      /\ \A d : Owed(calls, cells, d) => Owed(s, cells, d)
      /\ \A q : q # w => (ToDo(calls, q) => ToDo(s, q))
  <2>1. \A d : ~Owes(Inner, cells, d)
    BY <1>2 DEF Owes
  <2> QED BY <1>2, <1>3, <2>1, LoopGoesOn
<1>5. w \notin watchers.running
  <2>1. Stacked(calls, cells.dirty, watchers.running)
    BY GoodNow DEF Good
  <2>2. Len(calls) \in Nat \ {0} /\ DOMAIN calls = 1..Len(calls)
    BY <1>2, PoppedCalls
  <2>3. Len(calls) = 1
    BY <1>2, <2>1, <2>2 DEF Stacked
  <2>4. \A i \in DOMAIN calls : ~IsBody(calls[i])
    BY <1>2, <2>2, <2>3 DEF IsBody
  <2> QED BY <2>1, <2>4 DEF Stacked
<1> HIDE DEF s
<1>6. ~IsBody(s[1])
  BY <1>4
<1> QED BY <1>1, <1>4, <1>5, <1>6, Runs

\* Nothing runs and nothing is owed while the stack is empty.
LEMMA Quiet ==
  ASSUME ReactiveInv, calls = <<>>
  PROVE  /\ watchers.running = {} /\ (\A k, d : ~Owed(calls, k, d)) /\ \A w : ~ToDo(calls, w)
         /\ cells \in CellTypes /\ watchers \in WatcherTypes /\ noted \in NoteTypes /\ calls \in Seq(Calls)
         /\ Good(calls, cells, watchers, noted)
<1>1. Good(calls, cells, watchers, noted)
  BY GoodNow
<1>2. DOMAIN calls = {}
  OBVIOUS
<1>3. watchers.running \subseteq Watches /\ \A w \in Watches : w \notin watchers.running
  BY <1>1, <1>2 DEF Good, WatcherTypes, Stacked
<1> QED BY <1>1, <1>2, <1>3 DEF Owed, ToDo, Good

\* An empty stack has no more to account for, whatever the cells.
LEMMA EmptyStack ==
  ASSUME NEW k, NEW saw, NEW dirty
  PROVE  <<>> \in Seq(Calls) /\ Stacked(<<>>, dirty, {}) /\ Progress(<<>>, k, saw)
<1>1. DOMAIN <<>> = {} /\ <<>> \in Seq(Calls)
  OBVIOUS
<1> QED BY <1>1 DEF Stacked, Progress

LEMMA PushOne ==
  ASSUME NEW x \in Calls, NEW dirty, NEW running, NEW k, NEW saw,
         Fits(x, <<>>, dirty, {}), running = Top(x), IsBody(x) => Accounted(x, Awaited(x), k, saw)
  PROVE  /\ <<x>> \in Seq(Calls) /\ Stacked(<<x>>, dirty, running) /\ Progress(<<x>>, k, saw)
         /\ \A k0, d : Owed(<<x>>, k0, d) <=> Owes(x, k0, d)
         /\ \A w : ToDo(<<x>>, w) <=> (x.kind = "flush" /\ w \in x.todo)
<1>1. <<x>> \in Seq(Calls) /\ DOMAIN <<x>> = {1} /\ <<x>>[1] = x /\ Len(<<x>>) = 1
  OBVIOUS
<1> DEFINE s == <<x>>
<1> HIDE DEF s
<1>2. s \in Seq(Calls) /\ DOMAIN s = {1} /\ s[1] = x /\ Len(s) = 1
  BY <1>1 DEF s
<1>3. Progress(s, k, saw)
  BY <1>2 DEF Progress
<1>4. \A k0, d : Owed(s, k0, d) <=> Owes(x, k0, d)
  BY <1>2 DEF Owed
<1>5. \A w : ToDo(s, w) <=> (x.kind = "flush" /\ w \in x.todo)
  BY <1>2 DEF ToDo
<1>6. Stacked(s, dirty, running)
  <2>1. \A w \in Watches : w \in running <=> (IsBody(x) /\ x.who = w)
    BY DEF Top
  <2>2. \A i, j \in DOMAIN s : i = j /\ ~(i < j) /\ ~(i > 1) /\ s[i] = x /\ i = 1 /\ 1 \in DOMAIN s
    BY <1>2
  <2>3. Computes(x) => x.rest \in Pure /\ x.tracked /\ Rank[x.rest] <= Rank[Bodies[x.who]] /\ x.who \in dirty
    BY DEF Fits
  <2> QED BY <1>2, <2>1, <2>2, <2>3 DEF Stacked
<1> QED BY <1>2, <1>3, <1>4, <1>5, <1>6 DEF s

LEMMA UserGetKept ==
  ASSUME ReactiveInv, NEW c \in Computeds, UserGet(c)
  PROVE  ReactiveInv'
<1> DEFINE k == cells
           k2 == cells'
           x == Begins(c)
<1>1. /\ calls = <<>> /\ c \in k.dirty /\ k2 = Unlinking(k, c) /\ calls' = <<x>> /\ UNCHANGED <<watchers, noted>>
  BY DEF UserGet, Use, Forgotten, Unlinking
<1>2. /\ watchers.running = {} /\ (\A d : ~Owed(calls, k, d)) /\ (\A w : ~ToDo(calls, w))
      /\ k \in CellTypes /\ watchers \in WatcherTypes /\ noted \in NoteTypes /\ Good(calls, k, watchers, noted)
  BY <1>1, Quiet
<1>3. c \in Readers /\ c \notin Watches /\ Linked(k) /\ Bodies[c] \in Pure /\ Rank[Bodies[c]] \in Nat
  BY <1>2, ReactiveConstants, PurePoints DEF Good
<1>4. /\ k2 \in CellTypes /\ Linked(k2)
      /\ k2.value = k.value /\ k2.cached = k.cached /\ k2.dirty = k.dirty
      /\ \A q \in Readers : k2.dependencies[q] = IF q = c THEN {} ELSE k.dependencies[q]
  BY <1>1, <1>2, <1>3, Forgets
<1>5. /\ x \in Calls /\ IsBody(x) /\ x.who = c /\ x.rest = Bodies[c] /\ x.tracked /\ x.kind = "body" /\ Top(x) = {}
  BY <1>3, BeginsCall DEF Top
<1> HIDE DEF k, k2, x
<1>6. \A m : AnswerIn(k2, m) = AnswerIn(k, m)
  BY <1>4 DEF AnswerIn
<1>7. /\ <<x>> \in Seq(Calls) /\ Stacked(<<x>>, k2.dirty, {}) /\ Progress(<<x>>, k2, noted.saw)
  <2>1. Fits(x, <<>>, k2.dirty, {})
    BY <1>1, <1>3, <1>4, <1>5 DEF Fits
  <2>2. Accounted(x, Awaited(x), k2, noted.saw)
    BY <1>3, <1>4, <1>5 DEF Accounted, Reaches
  <2> QED BY <1>5, <2>1, <2>2, PushOne
<1>8. ASSUME NEW d \in Computeds \ k2.dirty PROVE Current(<<x>>, k2, d)
  <2>1. d # c /\ d \in Readers /\ d \notin k.dirty
    BY <1>1, <1>4, <1>8, ReactiveConstants
  <2>2. Current(calls, k, d) /\ k2.dependencies[d] = k.dependencies[d]
    BY <1>2, <1>4, <2>1 DEF Good
  <2> QED BY <1>2, <1>4, <1>6, <2>2, CurrentStays
<1>9. ASSUME NEW w \in Watches \ watchers.disposed PROVE Told1(<<x>>, k2, watchers, noted, w)
  <2>1. w # c /\ w \in Readers /\ Told1(calls, k, watchers, noted, w)
    BY <1>2, <1>3, ReactiveConstants DEF Good, WatchesTold
  <2>2. k2.dependencies[w] = k.dependencies[w]
    BY <1>4, <2>1
  <2> QED BY <1>2, <1>4, <1>6, <2>1, <2>2, Told1Stays
<1>10. Good(<<x>>, k2, watchers, noted)
  BY <1>2, <1>4, <1>7, <1>8, <1>9 DEF Good, WatchesTold
<1> QED BY <1>1, <1>10, GoodNext DEF k2

LEMMA WatchKept ==
  ASSUME ReactiveInv, NEW w \in Watches, Watch(w)
  PROVE  ReactiveInv'
<1> DEFINE k == cells
           ws2 == watchers'
           x == Begins(w)
<1>1. /\ calls = <<>> /\ w \notin watchers.live \cup watchers.disposed /\ calls' = <<x>> /\ UNCHANGED <<cells, noted>>
      /\ ws2 = [watchers EXCEPT !.live = @ \cup {w}, !.running = {w}]
  BY DEF Watch, Use
<1>2. /\ watchers.running = {} /\ (\A d : ~Owed(calls, k, d)) /\ (\A q : ~ToDo(calls, q))
      /\ k \in CellTypes /\ watchers \in WatcherTypes /\ noted \in NoteTypes /\ Good(calls, k, watchers, noted)
  BY <1>1, Quiet
<1>3. /\ ws2 \in WatcherTypes /\ ws2.live = watchers.live \cup {w} /\ ws2.running = {w}
      /\ ws2.disposed = watchers.disposed /\ ws2.pending = watchers.pending /\ ws2.depth = watchers.depth
  BY <1>1, <1>2 DEF WatcherTypes
<1>4. w \in Readers /\ w \notin Computeds
  BY ReactiveConstants
<1>5. x \in Calls /\ IsBody(x) /\ x.who = w /\ x.rest = Bodies[w] /\ x.kind = "body" /\ Top(x) = {w} /\ ~Computes(x)
  BY <1>4, BeginsCall DEF Top, Computes
<1> HIDE DEF k, ws2, x
<1>6. Told1(calls, k, watchers, noted, w)
  BY <1>1, <1>2 DEF Good, WatchesTold
<1>7. <<x>> \in Seq(Calls) /\ Stacked(<<x>>, k.dirty, ws2.running) /\ Progress(<<x>>, k, noted.saw)
  <2>1. Fits(x, <<>>, k.dirty, {})
    BY <1>5 DEF Fits
  <2>2. Accounted(x, Awaited(x), k, noted.saw)
    BY <1>2, <1>4, <1>5, <1>6 DEF Accounted, Told1
  <2> QED BY <1>3, <1>5, <2>1, <2>2, PushOne
<1>8. ASSUME NEW d \in Computeds \ k.dirty PROVE Current(<<x>>, k, d)
  BY <1>2 DEF Good, Current
<1>9. ASSUME NEW q \in Watches \ watchers.disposed PROVE Told1(<<x>>, k, ws2, noted, q)
  <2>1. Told1(calls, k, watchers, noted, q)
    BY <1>2 DEF Good, WatchesTold
  <2> QED BY <1>2, <1>3, <2>1 DEF Told1
<1>10. Good(<<x>>, k, ws2, noted)
  BY <1>1, <1>2, <1>3, <1>7, <1>8, <1>9 DEF Good, WatchesTold
<1> QED BY <1>1, <1>10, GoodNext DEF k, ws2

LEMMA DisposeKept ==
  ASSUME ReactiveInv, NEW w \in Watches, Dispose(w)
  PROVE  ReactiveInv'
<1> DEFINE k == cells
           k2 == cells'
           ws2 == watchers'
<1>1. /\ calls = <<>> /\ w \in watchers.live /\ k2 = Unlinking(k, w) /\ UNCHANGED <<calls, noted>>
      /\ ws2 = [watchers EXCEPT !.live = @ \ {w}, !.disposed = @ \cup {w}]
  BY DEF Dispose, Use, Forgotten, Unlinking
<1>2. /\ watchers.running = {} /\ (\A d : ~Owed(calls, k, d)) /\ (\A q : ~ToDo(calls, q))
      /\ k \in CellTypes /\ watchers \in WatcherTypes /\ noted \in NoteTypes /\ Good(calls, k, watchers, noted)
  BY <1>1, Quiet
<1>3. /\ ws2 \in WatcherTypes /\ ws2.live = watchers.live \ {w} /\ ws2.running = {}
      /\ ws2.disposed = watchers.disposed \cup {w} /\ ws2.pending = watchers.pending /\ ws2.depth = watchers.depth
  BY <1>1, <1>2 DEF WatcherTypes
<1>4. w \in Readers /\ w \notin Computeds /\ Linked(k)
  BY <1>2, ReactiveConstants DEF Good
<1>5. /\ k2 \in CellTypes /\ Linked(k2)
      /\ k2.value = k.value /\ k2.cached = k.cached /\ k2.dirty = k.dirty
      /\ \A q \in Readers : k2.dependencies[q] = IF q = w THEN {} ELSE k.dependencies[q]
  BY <1>1, <1>2, <1>4, Forgets
<1> HIDE DEF k, k2, ws2
<1>6. \A m : AnswerIn(k2, m) = AnswerIn(k, m)
  BY <1>5 DEF AnswerIn
<1>7. Stacked(calls, k2.dirty, ws2.running) /\ Progress(calls, k2, noted.saw)
  BY <1>1, <1>3, EmptyStack
<1>8. ASSUME NEW d \in Computeds \ k2.dirty PROVE Current(calls, k2, d)
  <2>1. d # w /\ d \in Readers /\ d \notin k.dirty
    BY <1>4, <1>5, <1>8, ReactiveConstants
  <2>2. Current(calls, k, d) /\ k2.dependencies[d] = k.dependencies[d]
    BY <1>2, <1>5, <2>1 DEF Good
  <2> QED BY <1>2, <1>5, <1>6, <2>2, CurrentStays
<1>9. ASSUME NEW q \in Watches \ ws2.disposed PROVE Told1(calls, k2, ws2, noted, q)
  <2>1. q # w /\ q \in Readers /\ Told1(calls, k, watchers, noted, q)
    BY <1>2, <1>3, ReactiveConstants DEF Good, WatchesTold
  <2>2. k2.dependencies[q] = k.dependencies[q]
    BY <1>5, <2>1
  <2> QED BY <1>2, <1>3, <1>5, <1>6, <2>1, <2>2, Told1Stays
<1>10. Good(calls, k2, ws2, noted)
  BY <1>2, <1>3, <1>5, <1>7, <1>8, <1>9 DEF Good, WatchesTold
<1> QED BY <1>1, <1>10, GoodNext DEF k2, ws2

LEMMA BatchBeginsKept ==
  ASSUME ReactiveInv, BatchBegins
  PROVE  ReactiveInv'
<1> DEFINE ws2 == watchers'
<1>1. /\ calls = <<>> /\ UNCHANGED <<calls, noted, cells>> /\ ws2 = [watchers EXCEPT !.depth = @ + 1]
  BY DEF BatchBegins, Use
<1>2. /\ watchers \in WatcherTypes /\ Good(calls, cells, watchers, noted)
  BY <1>1, Quiet
<1>3. /\ ws2 \in WatcherTypes /\ ws2.live = watchers.live /\ ws2.running = watchers.running
      /\ ws2.disposed = watchers.disposed /\ ws2.pending = watchers.pending /\ ws2.depth # 0
  BY <1>1, <1>2 DEF WatcherTypes
<1> HIDE DEF ws2
<1>4. Good(calls, cells, ws2, noted)
  BY <1>2, <1>3 DEF Good, WatchesTold, Told1
<1> QED BY <1>1, <1>4, GoodNext DEF ws2

LEMMA BatchEndsKept ==
  ASSUME ReactiveInv, BatchEnds
  PROVE  ReactiveInv'
<1> DEFINE ws2 == watchers'
           k == cells
           x == [kind |-> "flush", todo |-> watchers.pending]
<1>1. /\ calls = <<>> /\ UNCHANGED <<noted, cells>> /\ watchers.depth > 0
      /\ ws2 = [watchers EXCEPT !.depth = @ - 1, !.pending = IF watchers.depth = 1 THEN {} ELSE @]
      /\ calls' = IF watchers.depth = 1 THEN <<x>> ELSE <<>>
  BY DEF BatchEnds
<1>2. /\ watchers.running = {} /\ (\A d : ~Owed(calls, k, d)) /\ (\A q : ~ToDo(calls, q))
      /\ k \in CellTypes /\ watchers \in WatcherTypes /\ noted \in NoteTypes /\ Good(calls, k, watchers, noted)
  BY <1>1, Quiet
<1>3. /\ ws2 \in WatcherTypes /\ ws2.live = watchers.live /\ ws2.running = {}
      /\ ws2.disposed = watchers.disposed
      /\ ws2.pending = (IF watchers.depth = 1 THEN {} ELSE watchers.pending)
      /\ (watchers.depth # 1 => ws2.depth # 0)
  <2> DEFINE left == IF watchers.depth = 1 THEN {} ELSE watchers.pending
             depth == watchers.depth - 1
  <2>1. left \in SUBSET Watches /\ depth \in Nat /\ (watchers.depth # 1 => depth # 0)
    BY <1>1, <1>2 DEF WatcherTypes
  <2>2. ws2 = [watchers EXCEPT !.depth = depth, !.pending = left]
    BY <1>1
  <2> HIDE DEF left, depth, ws2, x, k
  <2>3. /\ ws2 \in WatcherTypes /\ ws2.live = watchers.live /\ ws2.running = watchers.running
        /\ ws2.disposed = watchers.disposed /\ ws2.pending = left /\ ws2.depth = depth
    BY <1>2, <2>1, <2>2 DEF WatcherTypes
  <2> QED BY <1>2, <2>1, <2>3 DEF left
<1>4. CASE watchers.depth # 1
  <2> HIDE DEF ws2, k
  <2>1. Good(calls, k, ws2, noted)
    BY <1>2, <1>3, <1>4 DEF Good, WatchesTold, Told1
  <2>2. calls' = calls
    BY <1>1, <1>4
  <2> QED BY <1>1, <2>1, <2>2, GoodNext DEF ws2, k
<1>5. CASE watchers.depth = 1
  <2>1. x \in Calls /\ x.kind = "flush" /\ x.todo = watchers.pending /\ ~IsBody(x) /\ ~Computes(x) /\ Top(x) = {}
    BY <1>2 DEF WatcherTypes, Calls, FlushCalls, IsBody, Computes, Top
  <2> HIDE DEF x, k, ws2
  <2>2. /\ <<x>> \in Seq(Calls) /\ Stacked(<<x>>, k.dirty, {}) /\ Progress(<<x>>, k, noted.saw)
        /\ \A w : ToDo(<<x>>, w) <=> (x.kind = "flush" /\ w \in x.todo)
    <3>1. Fits(x, <<>>, k.dirty, {})
      BY <2>1 DEF Fits
    <3> QED BY <2>1, <3>1, PushOne
  <2>3. ASSUME NEW d \in Computeds \ k.dirty PROVE Current(<<x>>, k, d)
    BY <1>2 DEF Good, Current
  <2>4. ASSUME NEW q \in Watches \ watchers.disposed PROVE Told1(<<x>>, k, ws2, noted, q)
    <3>1. Told1(calls, k, watchers, noted, q)
      BY <1>2 DEF Good, WatchesTold
    <3> QED BY <1>2, <1>3, <2>1, <2>2, <3>1 DEF Told1
  <2>5. ws2.pending = {}
    BY <1>3, <1>5
  <2>6. Good(<<x>>, k, ws2, noted)
    BY <1>2, <1>3, <2>2, <2>3, <2>4, <2>5 DEF Good, WatchesTold
  <2> QED BY <1>1, <1>5, <2>6, GoodNext DEF k, ws2
<1> QED BY <1>4, <1>5

----------------------------------------------------------------------------
(* Reactive: the theorems.                                                 *)

LEMMA ReactiveStart ==
  ASSUME ReactiveInit
  PROVE  ReactiveInv
<1>1. /\ cells = [value |-> [o \in Observables |-> FirstValue], cached |-> [c \in Computeds |-> Nothing],
                  dirty |-> Computeds, dependents |-> [n \in Nodes |-> {}], dependencies |-> [r \in Readers |-> {}]]
      /\ watchers = [live |-> {}, running |-> {}, disposed |-> {}, depth |-> 0, pending |-> {}]
      /\ calls = <<>> /\ noted = [saw |-> [w \in Watches |-> {}], missed |-> {}]
  BY DEF ReactiveInit
<1>2. cells \in CellTypes
  BY <1>1, ReactiveConstants DEF CellTypes
<1>3. watchers \in WatcherTypes /\ noted \in NoteTypes
  BY <1>1 DEF WatcherTypes, NoteTypes
<1>4. Linked(cells)
  <2>1. (\A n \in Nodes : cells.dependents[n] = {}) /\ (\A r \in Readers : cells.dependencies[r] = {})
        /\ Computeds \subseteq Readers
    BY <1>1, ReactiveConstants
  <2> QED BY <2>1 DEF Linked
<1>5. calls \in Seq(Calls) /\ Stacked(calls, cells.dirty, watchers.running) /\ Progress(calls, cells, noted.saw)
  BY <1>1, EmptyStack
<1>6. \A c \in Computeds \ cells.dirty : Current(calls, cells, c)
  BY <1>1
<1>7. WatchesTold(calls, cells, watchers, noted)
  <2>1. \A w \in Watches : cells.dependencies[w] = {} /\ noted.saw[w] = {}
    BY <1>1, ReactiveConstants
  <2>2. \A w \in Watches : ReadBy(noted.saw, w) = {}
    BY <2>1 DEF ReadBy
  <2>3. \A w \in Watches : Told1(calls, cells, watchers, noted, w)
    BY <2>1, <2>2 DEF Told1, Holds
  <2> QED BY <1>1, <2>3 DEF WatchesTold
<1> QED BY <1>2, <1>3, <1>4, <1>5, <1>6, <1>7, GoodNow DEF Good

LEMMA ReactiveKept ==
  ASSUME ReactiveInv, ~tables'.cut, [ReactiveNext]_reactiveVars
  PROVE  ReactiveInv'
<1>1. CASE Get
  BY <1>1, GetKept
<1>2. CASE Set
  BY <1>2, SetKept
<1>3. CASE Untrack
  BY <1>3, UntrackKept
<1>4. CASE Return
  BY <1>4, ReturnKept
<1>5. ASSUME NEW d \in Readers, Mark(d) PROVE ReactiveInv'
  BY <1>5, MarkKept
<1>6. CASE EndMark
  BY <1>6, EndMarkKept
<1>7. ASSUME NEW w \in Watches, Flush(w) PROVE ReactiveInv'
  BY <1>7, FlushKept
<1>8. CASE EndFlush
  BY <1>8, EndFlushKept
<1>9. ASSUME NEW o \in Observables, NEW v \in Values, UserSet(o, v) PROVE ReactiveInv'
  BY <1>9, UserSetKept
<1>10. ASSUME NEW c \in Computeds, UserGet(c) PROVE ReactiveInv'
  BY <1>10, UserGetKept
<1>11. ASSUME NEW w \in Watches, Watch(w) \/ Dispose(w) PROVE ReactiveInv'
  BY <1>11, WatchKept, DisposeKept
<1>12. CASE BatchBegins
  BY <1>12, BatchBeginsKept
<1>13. CASE BatchEnds
  BY <1>13, BatchEndsKept
<1>14. CASE UNCHANGED reactiveVars
  <2>1. UNCHANGED <<cells, watchers, calls, noted>>
    BY <1>14 DEF reactiveVars
  <2> QED BY <2>1, GoodNow, GoodNext
<1>15. ~NextFails
  BY DEF NextFails
<1> QED BY <1>1, <1>2, <1>3, <1>4, <1>5, <1>6, <1>7, <1>8, <1>9, <1>10, <1>11, <1>12, <1>13, <1>14, <1>15, Zenon DEF ReactiveNext

\* A loop that was cut short stays so.
TablesForm == tables = [moved |-> tables.moved, cut |-> tables.cut]

LEMMA TablesKept ==
  ASSUME TablesForm, [ReactiveNext]_reactiveVars
  PROVE  TablesForm' /\ (tables.cut => tables'.cut)
<1>1. CASE UNCHANGED tables
  BY <1>1 DEF TablesForm
<1>2. CASE Get
  <2>1. PICK n \in {Inner.rest.from} : tables' \in MayMove(n)
    BY <1>2 DEF Get
  <2>2. tables' \in {tables, [tables EXCEPT !.moved = @ \cup Over(n)]}
    BY <2>1 DEF MayMove
  <2> QED BY <2>2 DEF TablesForm
<1>3. CASE EndMark
  BY <1>3 DEF EndMark, TablesForm
<1>4. CASE NextFails
  BY <1>4 DEF NextFails, TablesForm
<1>5. CASE UNCHANGED reactiveVars
  BY <1>1, <1>5 DEF reactiveVars
<1>6. CASE Set \/ Untrack \/ Return \/ (\E d \in Readers : Mark(d)) \/ (\E w \in Watches : Flush(w)) \/ EndFlush
           \/ BatchEnds
  BY <1>1, <1>6 DEF Set, Untrack, Return, Mark, Flush, EndFlush, BatchEnds
<1>7. CASE (\E o \in Observables, v \in Values : UserSet(o, v)) \/ (\E c \in Computeds : UserGet(c))
           \/ (\E w \in Watches : Watch(w) \/ Dispose(w)) \/ BatchBegins
  BY <1>1, <1>7 DEF UserSet, UserGet, Watch, Dispose, BatchBegins, Use
<1> QED BY <1>2, <1>3, <1>4, <1>5, <1>6, <1>7 DEF ReactiveNext

\* The inductive invariant of Reactive.lua, as long as no loop over dependents was cut short: at every
\* point of nested calls and batches, also when tables have moved and loops come to a dependent again.
THEOREM ReactiveInvariant == ReactiveSpec => [](~tables.cut => ReactiveInv)
<1> DEFINE Inv == TablesForm /\ (~tables.cut => ReactiveInv)
<1>1. ReactiveInit => Inv
  <2> SUFFICES ASSUME ReactiveInit PROVE TablesForm /\ ReactiveInv
    OBVIOUS
  <2>1. TablesForm
    BY DEF ReactiveInit, TablesForm
  <2> QED BY <2>1, ReactiveStart
<1>2. Inv /\ [ReactiveNext]_reactiveVars => Inv'
  <2> SUFFICES ASSUME Inv, [ReactiveNext]_reactiveVars PROVE TablesForm' /\ (~tables'.cut => ReactiveInv')
    OBVIOUS
  <2>1. TablesForm' /\ (tables.cut => tables'.cut)
    BY TablesKept
  <2>2. ASSUME ~tables'.cut PROVE ReactiveInv'
    <3>1. ReactiveInv
      BY <2>1, <2>2
    <3> QED BY <2>2, <3>1, ReactiveKept
  <2> QED BY <2>1, <2>2
<1>3. Inv => (~tables.cut => ReactiveInv)
  OBVIOUS
<1> QED BY <1>1, <1>2, <1>3, PTL DEF ReactiveSpec

\* While no loop is under way, all that is clean is what computing it anew gives.
LEMMA CleanRight ==
  ASSUME ReactiveInv
  PROVE  CleanIsFresh
<1> SUFFICES ASSUME ~Marking PROVE \A c \in Computeds \ cells.dirty : cells.cached[c] = Fresh(c)
  BY DEF CleanIsFresh
<1> DEFINE fresh == [n \in Nodes |-> Fresh(n)]
           s == <<Result, fresh>>
           S == {k \in Nat : \A c \in Computeds \ cells.dirty : Rank[Bodies[c]] < k => cells.cached[c] = Fresh(c)}
<1>1. /\ cells \in CellTypes /\ Linked(cells) /\ \A c \in Computeds \ cells.dirty : Current(calls, cells, c)
  BY GoodNow DEF Good
<1>2. Solves(Result, fresh)
  BY <1>1, ResultSolves, CellFields
<1>3. s \in Solutions /\ s[1] = Result /\ s[2] = fresh
  BY <1>2 DEF Solutions, Solves
<1>4. \A d : ~Owed(calls, cells, d)
  BY DEF Marking, Owed, Owes
<1>5. ASSUME NEW c \in Computeds \ cells.dirty
      PROVE  /\ cells.dependencies[c] \subseteq Nodes /\ cells.dependencies[c] \cap cells.dirty = {}
             /\ Gives(cells, c, cells.cached[c]) /\ Rank[Bodies[c]] \in Nat /\ Bodies[c] \in Pure /\ c \in Nodes
             /\ \A n \in cells.dependencies[c] : n \in Computeds => Rank[Bodies[n]] < Rank[Bodies[c]]
             /\ Fresh(c) = Result[Bodies[c]]
  <2>1. Current(calls, cells, c) /\ c \in Readers /\ c \in Nodes /\ c \notin Observables /\ Bodies[c] \in Pure
    BY <1>1, ReactiveConstants
  <2>2. Rank[Bodies[c]] \in Nat
    BY <2>1, PurePoints
  <2> HIDE DEF s, fresh
  <2> QED BY <1>1, <1>4, <2>1, <2>2, CellFields DEF Current, Linked, Fresh
<1> HIDE DEF s
<1>6. 0 \in S
  BY <1>5
<1>7. ASSUME NEW k \in S PROVE k + 1 \in S
  <2> SUFFICES ASSUME NEW c \in Computeds \ cells.dirty, Rank[Bodies[c]] < k + 1 PROVE cells.cached[c] = Fresh(c)
    OBVIOUS
  <2>1. ASSUME NEW n \in cells.dependencies[c] \ cells.dirty PROVE fresh[n] = AnswerIn(cells, n)
    <3>1. n \in Nodes /\ fresh[n] = Fresh(n)
      BY <1>5
    <3>2. CASE n \in Observables
      BY <3>1, <3>2 DEF Fresh, AnswerIn
    <3>3. CASE n \notin Observables
      <4>1. n \in Computeds \ cells.dirty
        BY <2>1, <3>1, <3>3, ReactiveConstants
      <4>2. Rank[Bodies[n]] < Rank[Bodies[c]]
        BY <1>5, <4>1
      <4>3. Rank[Bodies[n]] \in Nat /\ Rank[Bodies[c]] \in Nat /\ k \in Nat
        BY <1>5, <4>1
      <4>4. Rank[Bodies[n]] < k
        BY <4>2, <4>3
      <4> QED BY <3>1, <3>3, <4>1, <4>4 DEF AnswerIn
    <3> QED BY <3>2, <3>3
  <2> HIDE DEF fresh
  <2>2. Agrees(cells, c, s[2])
    BY <1>3, <2>1 DEF Agrees
  <2>3. s[1][Bodies[c]] = cells.cached[c]
    BY <1>3, <1>5, <2>2 DEF Gives
  <2> QED BY <1>3, <1>5, <2>3
<1>8. S = Nat
  <2>1. S \subseteq Nat
    OBVIOUS
  <2> HIDE DEF S
  <2> QED BY <1>6, <1>7, <2>1, AllNumbers, Zenon
<1>9. ASSUME NEW c \in Computeds \ cells.dirty PROVE cells.cached[c] = Fresh(c)
  <2>1. Rank[Bodies[c]] \in Nat
    BY <1>5
  <2>2. Rank[Bodies[c]] + 1 \in S /\ Rank[Bodies[c]] < Rank[Bodies[c]] + 1
    BY <1>8, <2>1
  <2> QED BY <2>2
<1> QED BY <1>9

\* When all is quiet, what a watch that missed nothing has noticed holds.
LEMMA WatchesRight ==
  ASSUME ReactiveInv
  PROVE  WatchesSawLatest
<1> SUFFICES ASSUME calls = <<>>, watchers.depth = 0, NEW w \in watchers.live \ noted.missed
             PROVE  /\ \A note \in noted.saw[w] : note[2] = Fresh(note[1])
                    /\ {note[1] : note \in noted.saw[w]} = cells.dependencies[w]
  BY DEF WatchesSawLatest
<1>1. /\ watchers.running = {} /\ (\A d : ~Owed(calls, cells, d)) /\ (\A q : ~ToDo(calls, q))
      /\ cells \in CellTypes /\ watchers \in WatcherTypes /\ noted \in NoteTypes
      /\ Good(calls, cells, watchers, noted)
  BY Quiet
<1>2. w \in Watches /\ w \notin watchers.disposed /\ watchers.pending = {}
  BY <1>1 DEF Good, WatchesTold, WatcherTypes
<1>3. Told1(calls, cells, watchers, noted, w)
  BY <1>1, <1>2 DEF Good, WatchesTold
<1>4. Holds(cells, noted.saw[w])
  BY <1>1, <1>2, <1>3 DEF Told1
<1>5. \A c \in Computeds \ cells.dirty : cells.cached[c] = Fresh(c)
  <2>1. ~Marking
    BY DEF Marking
  <2> QED BY <2>1, CleanRight DEF CleanIsFresh
<1>6. ASSUME NEW note \in noted.saw[w] PROVE note[2] = Fresh(note[1])
  <2>1. note[1] \in Nodes /\ note[1] \notin cells.dirty /\ AnswerIn(cells, note[1]) = note[2]
    BY <1>1, <1>2, <1>4 DEF NoteTypes, Holds
  <2>2. CASE note[1] \in Observables
    BY <2>1, <2>2 DEF AnswerIn, Fresh
  <2>3. CASE note[1] \notin Observables
    <3>1. note[1] \in Computeds \ cells.dirty
      BY <2>1, <2>3, ReactiveConstants
    <3> QED BY <1>5, <2>1, <2>3, <3>1 DEF AnswerIn
  <2> QED BY <2>2, <2>3
<1>7. ReadBy(noted.saw, w) = cells.dependencies[w]
  BY <1>1, <1>3 DEF Told1
<1> QED BY <1>6, <1>7 DEF ReadBy

----------------------------------------------------------------------------
(* RuleBox: by whichever way it is asked, a rule box answers alike.        *)

\* What was read shows that the rule matches by its tags, or that it does not.
Witnessed(rule, on) ==
  \/ \A t \in rule.tags : t \in Active(box, TRUE) /\ Observed(t) \subseteq on
  \/ \E t \in rule.tags : t \notin Active(box, TRUE) /\ Observed(t) \subseteq on

BoxTypes ==
  /\ DOMAIN box = {"rules", "byKey", "tags", "last", "byHand", "locals", "context"}
  /\ DOMAIN box.byKey = Names /\ \A r \in box.rules : r.rule \in Given
  /\ \/ edit = Returned
     \/ DOMAIN edit = {"at", "new", "names"} /\ edit.at \in {"drop", "add"} /\ edit.new.rule \in Given
  /\ DOMAIN views = Viewed
  /\ \A n \in Viewed : DOMAIN views[n] = {"dirty", "answer", "on", "context"} /\ views[n].dirty \in BOOLEAN
  /\ resolved.valid \in BOOLEAN /\ resolved.heard \in BOOLEAN /\ resolved.emptied \in BOOLEAN
  /\ DOMAIN resolved = {"valid", "all", "heard", "emptied"}

\* Under each name are the rules that have it, but for those an edit has still to take out or to put in.
ListsInv ==
  /\ \A r, s \in box.rules : r.rule.id = s.rule.id => r = s
  /\ edit = Returned => \A n \in Names : box.byKey[n] = Listed(box.rules, n)
  /\ edit.at = "drop" =>
       \A n \in Names : box.byKey[n] = IF n \in edit.names THEN Listed(box.rules, n)
                                       ELSE Without(Listed(box.rules, n), edit.new.rule.id)
  /\ edit.at = "add" =>
       /\ edit.new \in box.rules /\ edit.names \subseteq DOMAIN edit.new.rule.apply
       /\ \A n \in Names : box.byKey[n] = IF n \in edit.names THEN Listed(box.rules, n) \ {edit.new}
                                          ELSE Listed(box.rules, n)
  /\ box.byHand \/ box.tags = box.last

ViewInv(n) ==
  ~views[n].dirty =>
    /\ views[n].answer = Lookup(n, TRUE, views[n].context)
    /\ \A r \in box.byKey[n] : Witnessed(r.rule, views[n].on)

\* While the names of a new rule are added, resolve() may not have heard of it.
ResolvedInv == edit.at # "add" /\ resolved.valid /\ ~resolved.emptied => resolved.all = Resolved(box)

BoxInv == BoxTypes /\ ListsInv /\ (\A n \in Viewed : ViewInv(n)) /\ ResolvedInv

----------------------------------------------------------------------------
\* What is found depends on which rules match, and on nothing else.
LEMMA BestOfMatching ==
  ASSUME NEW list, NEW n, NEW active, NEW context, NEW list2, NEW active2, NEW context2,
         \A r : (r \in Listed(list, n) /\ Matches(r.rule, active, context))
                  <=> (r \in Listed(list2, n) /\ Matches(r.rule, active2, context2))
  PROVE  Best(list, n, active, context) = Best(list2, n, active2, context2)
<1> DEFINE M == {r \in Listed(list, n) : Matches(r.rule, active, context)}
           M2 == {r \in Listed(list2, n) : Matches(r.rule, active2, context2)}
           Winner(m) == IF m = {} THEN NoValue
                        ELSE (CHOOSE r \in {r \in m : \A s \in m \ {r} : Before(r, s)} : TRUE).rule.apply[n]
<1>1. Best(list, n, active, context) = Winner(M) /\ Best(list2, n, active2, context2) = Winner(M2)
  BY DEF Best
<1>2. M = M2
  OBVIOUS
<1> HIDE DEF M, M2, Winner
<1> QED BY <1>1, <1>2, Zenon

\* A view whose rules and whose tags, as far as it read them, stay is as good as before.
LEMMA ViewStays ==
  ASSUME NEW n \in Viewed, ViewInv(n), NEW changed,
         box'.byKey[n] = box.byKey[n],
         \A t : (t \in box'.tags <=> t \in box.tags) \/ <<"global", t>> \in changed,
         \A t : (t \in box'.locals <=> t \in box.locals) \/ <<"local", t>> \in changed,
         views'[n].dirty \/ (~views[n].dirty /\ views[n].on \cap changed = {}),
         views'[n].answer = views[n].answer, views'[n].on = views[n].on, views'[n].context = views[n].context
  PROVE  ViewInv(n)'
<1> SUFFICES ASSUME ~views'[n].dirty
             PROVE  /\ views[n].answer = Lookup(n, TRUE, views[n].context)'
                    /\ \A r \in box.byKey[n] : Witnessed(r.rule, views[n].on)'
  BY DEF ViewInv
<1> DEFINE on == views[n].on
<1>1. /\ ~views[n].dirty /\ on \cap changed = {}
      /\ views[n].answer = Lookup(n, TRUE, views[n].context)
      /\ \A r \in box.byKey[n] : Witnessed(r.rule, on)
  BY DEF ViewInv
<1>2. \A t : Observed(t) \subseteq on =>
               Observed(t)' = Observed(t) /\ (t \in Active(box, TRUE)' <=> t \in Active(box, TRUE))
  <2> SUFFICES ASSUME NEW t, Observed(t) \subseteq on
               PROVE  Observed(t)' = Observed(t) /\ (t \in Active(box, TRUE)' <=> t \in Active(box, TRUE))
    OBVIOUS
  <2>1. t \in box'.locals <=> t \in box.locals
    BY <1>1 DEF Observed
  <2>2. t \notin box.locals => (t \in box'.tags <=> t \in box.tags)
    BY <1>1 DEF Observed
  <2> QED BY <2>1, <2>2 DEF Observed, Active
<1>3. \A r \in box.byKey[n] :
        Witnessed(r.rule, on)' /\ (r.rule.tags \subseteq Active(box, TRUE)' <=> r.rule.tags \subseteq Active(box, TRUE))
  <2> SUFFICES ASSUME NEW r \in box.byKey[n]
               PROVE  /\ Witnessed(r.rule, on)'
                      /\ r.rule.tags \subseteq Active(box, TRUE)' <=> r.rule.tags \subseteq Active(box, TRUE)
    OBVIOUS
  <2>1. CASE \A t \in r.rule.tags : t \in Active(box, TRUE) /\ Observed(t) \subseteq on
    BY <1>2, <2>1, Zenon DEF Witnessed
  <2>2. CASE \E t \in r.rule.tags : t \notin Active(box, TRUE) /\ Observed(t) \subseteq on
    BY <1>2, <2>2, Zenon DEF Witnessed
  <2> QED BY <1>1, <2>1, <2>2 DEF Witnessed
<1> DEFINE list == box.byKey[n]
           list2 == box'.byKey[n]
           active == Active(box, TRUE)
           active2 == Active(box, TRUE)'
           context == views[n].context
<1>4. \A r : (r \in Listed(list, n) /\ Matches(r.rule, active, context))
             <=> (r \in Listed(list2, n) /\ Matches(r.rule, active2, context))
  BY <1>3 DEF Listed, Matches
<1>5. Best(list, n, active, context) = Best(list2, n, active2, context)
  <2> HIDE DEF list, list2, active, active2, context
  <2> QED BY <1>4, BestOfMatching
<1>6. Lookup(n, TRUE, views[n].context)' = Lookup(n, TRUE, views[n].context)
  BY <1>5 DEF Lookup
<1> QED BY <1>1, <1>3, <1>6

----------------------------------------------------------------------------
\* _invalidateCache() leaves what resolve() answers fresh, or to be asked for.
LEMMA ResolvedTold ==
  ASSUME BoxTypes, resolved' = Invalidated(box')
  PROVE  /\ resolved'.valid \in BOOLEAN /\ resolved'.heard \in BOOLEAN /\ resolved'.emptied \in BOOLEAN
         /\ DOMAIN resolved' = {"valid", "all", "heard", "emptied"}
         /\ ResolvedInv'
<1>1. CASE resolved.heard
  <2>1. resolved' = [valid |-> TRUE, all |-> Resolved(box'), heard |-> TRUE, emptied |-> FALSE]
    BY <1>1 DEF Invalidated
  <2> QED BY <2>1 DEF ResolvedInv, Resolved
<1>2. CASE ~resolved.heard
  <2>1. resolved' = [resolved EXCEPT !.valid = FALSE, !.emptied = FALSE]
    BY <1>2 DEF Invalidated
  <2> QED BY <2>1 DEF BoxTypes, ResolvedInv
<1> QED BY <1>1, <1>2

\* A change of tags marks the views that read one of them.
LEMMA TouchedKept ==
  ASSUME BoxInv, NEW changed, views' = Touched(changed), box'.byKey = box.byKey,
         \A t : (t \in box'.tags <=> t \in box.tags) \/ <<"global", t>> \in changed,
         \A t : (t \in box'.locals <=> t \in box.locals) \/ <<"local", t>> \in changed
  PROVE  /\ \A n \in Viewed : ViewInv(n)'
         /\ DOMAIN views' = Viewed
         /\ \A n \in Viewed : DOMAIN views'[n] = {"dirty", "answer", "on", "context"} /\ views'[n].dirty \in BOOLEAN
<1>1. ASSUME NEW n \in Viewed
      PROVE  /\ ViewInv(n)' /\ DOMAIN views'[n] = {"dirty", "answer", "on", "context"} /\ views'[n].dirty \in BOOLEAN
  <2>1. /\ DOMAIN views[n] = {"dirty", "answer", "on", "context"} /\ views[n].dirty \in BOOLEAN
        /\ views'[n] = [views[n] EXCEPT !.dirty = @ \/ views[n].on \cap changed # {}]
    BY DEF Touched, BoxInv, BoxTypes
  <2>2. /\ views'[n].dirty <=> (views[n].dirty \/ views[n].on \cap changed # {})
        /\ views'[n].answer = views[n].answer /\ views'[n].on = views[n].on /\ views'[n].context = views[n].context
        /\ DOMAIN views'[n] = {"dirty", "answer", "on", "context"} /\ views'[n].dirty \in BOOLEAN
    BY <2>1
  <2>3. views'[n].dirty \/ (~views[n].dirty /\ views[n].on \cap changed = {})
    BY <2>2
  <2>4. ViewInv(n) /\ box'.byKey[n] = box.byKey[n]
    BY DEF BoxInv
  <2>5. ViewInv(n)'
    BY <2>2, <2>3, <2>4, ViewStays
  <2> QED BY <2>2, <2>5
<1>2. DOMAIN views' = Viewed
  BY DEF Touched
<1> QED BY <1>1, <1>2

\* Where neither tags nor rules change, nor views but to be marked, these stay good.
LEMMA OtherViewsStay ==
  ASSUME BoxInv, box'.tags = box.tags, box'.locals = box.locals,
         \A m \in Viewed : views'[m].dirty \/ (views'[m] = views[m] /\ box'.byKey[m] = box.byKey[m])
  PROVE  \A m \in Viewed : ViewInv(m)'
<1> SUFFICES ASSUME NEW m \in Viewed PROVE ViewInv(m)'
  OBVIOUS
<1>1. CASE views'[m].dirty
  BY <1>1 DEF ViewInv
<1>2. CASE ~views'[m].dirty
  <2>1. views'[m] = views[m] /\ box'.byKey[m] = box.byKey[m] /\ ~views[m].dirty
    BY <1>2
  <2>2. ViewInv(m) /\ views[m].on \cap {} = {}
    BY DEF BoxInv
  <2> QED BY <2>1, <2>2, ViewStays
<1> QED BY <1>1, <1>2

\* What a context reads for a rule shows whether it matches.
LEMMA AskedShows ==
  ASSUME NEW rule, NEW asked \in Asked(rule), NEW on, asked \subseteq on
  PROVE  Witnessed(rule, on)
<1> DEFINE active == rule.tags \cap Active(box, TRUE)
<1>1. CASE active = rule.tags
  <2>1. asked = LookedAt(rule.tags)
    BY <1>1 DEF Asked
  <2>2. \A t \in rule.tags : t \in Active(box, TRUE) /\ Observed(t) \subseteq on
    BY <1>1, <2>1 DEF LookedAt
  <2> QED BY <2>2 DEF Witnessed
<1>2. CASE active # rule.tags
  <2>1. PICK some \in SUBSET active, no \in rule.tags \ active : asked = LookedAt(some \cup {no})
    BY <1>2 DEF Asked
  <2>2. Observed(no) \subseteq asked
    BY <2>1 DEF LookedAt
  <2> QED BY <2>1, <2>2 DEF Witnessed
<1> QED BY <1>1, <1>2

LEMMA ViewKept == ASSUME BoxInv, NEW n \in Viewed, View(n) PROVE BoxInv'
<1>1. PICK on \in Dependencies(n) :
        views' = [views EXCEPT ![n] = [dirty |-> FALSE, answer |-> Lookup(n, TRUE, box.context), on |-> on,
                                       context |-> box.context]]
  BY DEF View
<1>2. UNCHANGED <<box, edit, resolved>>
  BY DEF View
<1>3. \A r \in box.byKey[n] : Witnessed(r.rule, on)
  <2> SUFFICES ASSUME NEW r \in box.byKey[n] PROVE Witnessed(r.rule, on)
    OBVIOUS
  <2>1. PICK choice : /\ \A s \in box.byKey[n] : choice[s] \in Asked(s.rule)
                      /\ on = UNION {choice[s] : s \in box.byKey[n]}
    BY <1>1 DEF Dependencies
  <2>2. choice[r] \in Asked(r.rule) /\ choice[r] \subseteq on
    BY <2>1
  <2> QED BY <2>2, AskedShows
<1>4. /\ views'[n].dirty = FALSE /\ views'[n].answer = Lookup(n, TRUE, box.context) /\ views'[n].on = on
      /\ views'[n].context = box.context /\ DOMAIN views'[n] = {"dirty", "answer", "on", "context"}
      /\ \A m \in Viewed \ {n} : views'[m] = views[m]
      /\ DOMAIN views' = Viewed
  BY <1>1 DEF BoxInv, BoxTypes
<1>5. \A m \in Viewed : ViewInv(m)'
  <2> SUFFICES ASSUME NEW m \in Viewed PROVE ViewInv(m)'
    OBVIOUS
  <2>1. CASE m = n
    BY <1>2, <1>3, <1>4, <2>1 DEF ViewInv, Lookup, Witnessed, Observed, Active
  <2>2. CASE m # n
    BY <1>2, <1>4, <2>2 DEF BoxInv, ViewInv, Lookup, Witnessed, Observed, Active
  <2> QED BY <2>1, <2>2
<1>6. BoxTypes'
  BY <1>2, <1>4 DEF BoxInv, BoxTypes
<1> QED BY <1>2, <1>5, <1>6 DEF BoxInv, ListsInv, ResolvedInv

LEMMA TagsKept ==
  ASSUME BoxInv,
         \/ AskResolve \/ OnPropertyChange \/ SetContext
         \/ \E t \in Tags : ToggleTag(t) \/ ToggleLocal(t)
         \/ \E set \in SUBSET Tags : SetActiveTags(set)
  PROVE  BoxInv'
<1>1. CASE AskResolve \/ OnPropertyChange
  <2>1. UNCHANGED <<box, edit, views>>
    BY <1>1 DEF AskResolve, OnPropertyChange
  <2>2. /\ resolved'.valid \in BOOLEAN /\ resolved'.heard \in BOOLEAN /\ resolved'.emptied \in BOOLEAN
        /\ DOMAIN resolved' = {"valid", "all", "heard", "emptied"}
        /\ ResolvedInv'
    BY <1>1, <2>1 DEF AskResolve, OnPropertyChange, BoxInv, BoxTypes, ResolvedInv
  <2>3. \A n \in Viewed : ViewInv(n)'
    BY <2>1 DEF BoxInv, ViewInv, Lookup, Witnessed, Observed, Active
  <2> QED BY <2>1, <2>2, <2>3 DEF BoxInv, BoxTypes, ListsInv
<1>2. CASE SetContext
  <2>1. /\ edit = Returned /\ UNCHANGED <<edit, views>> /\ resolved' = Invalidated(box')
        /\ box' = [box EXCEPT !.context = ~@]
    BY <1>2 DEF SetContext, Edit
  <2>2. /\ box'.rules = box.rules /\ box'.byKey = box.byKey /\ box'.tags = box.tags /\ box'.last = box.last
        /\ box'.byHand = box.byHand /\ box'.locals = box.locals /\ DOMAIN box' = DOMAIN box
    BY <2>1 DEF BoxInv, BoxTypes
  <2>3. \A n \in Viewed : ViewInv(n)'
    BY <2>1, <2>2, OtherViewsStay
  <2>4. BoxTypes' /\ ResolvedInv'
    BY <2>1, <2>2, ResolvedTold DEF BoxInv, BoxTypes
  <2> QED BY <2>1, <2>2, <2>3, <2>4 DEF BoxInv, ListsInv
<1>3. ASSUME NEW t \in Tags, ToggleTag(t) PROVE BoxInv'
  <2>1. /\ edit = Returned /\ edit' = edit /\ resolved' = Invalidated(box') /\ views' = Touched({<<"global", t>>})
        /\ box' = [box EXCEPT !.tags = IF t \in @ THEN @ \ {t} ELSE @ \cup {t}, !.byHand = TRUE]
    BY <1>3 DEF ToggleTag, Edit
  <2>2. /\ box'.rules = box.rules /\ box'.byKey = box.byKey /\ box'.last = box.last
        /\ box'.byHand = TRUE /\ box'.locals = box.locals /\ DOMAIN box' = DOMAIN box
        /\ box'.tags = IF t \in box.tags THEN box.tags \ {t} ELSE box.tags \cup {t}
    BY <2>1 DEF BoxInv, BoxTypes
  <2>3. \A u : (u \in box'.tags <=> u \in box.tags) \/ <<"global", u>> \in {<<"global", t>>}
    BY <2>2
  <2>4. /\ \A n \in Viewed : ViewInv(n)'
        /\ DOMAIN views' = Viewed
        /\ \A n \in Viewed : DOMAIN views'[n] = {"dirty", "answer", "on", "context"} /\ views'[n].dirty \in BOOLEAN
    BY <2>1, <2>2, <2>3, TouchedKept
  <2>5. BoxTypes' /\ ResolvedInv'
    BY <2>1, <2>2, <2>4, ResolvedTold DEF BoxInv, BoxTypes
  <2> QED BY <2>1, <2>2, <2>4, <2>5 DEF BoxInv, ListsInv
<1>4. ASSUME NEW t \in Tags, ToggleLocal(t) PROVE BoxInv'
  <2>1. /\ edit = Returned /\ UNCHANGED <<edit, resolved>> /\ views' = Touched({<<"local", t>>})
        /\ box' = [box EXCEPT !.locals = IF t \in @ THEN @ \ {t} ELSE @ \cup {t}]
    BY <1>4 DEF ToggleLocal, Edit
  <2>2. /\ box'.rules = box.rules /\ box'.byKey = box.byKey /\ box'.last = box.last /\ box'.context = box.context
        /\ box'.byHand = box.byHand /\ box'.tags = box.tags /\ DOMAIN box' = DOMAIN box
        /\ box'.locals = IF t \in box.locals THEN box.locals \ {t} ELSE box.locals \cup {t}
    BY <2>1 DEF BoxInv, BoxTypes
  <2>3. \A u : (u \in box'.locals <=> u \in box.locals) \/ <<"local", u>> \in {<<"local", t>>}
    BY <2>2
  <2>4. /\ \A n \in Viewed : ViewInv(n)'
        /\ DOMAIN views' = Viewed
        /\ \A n \in Viewed : DOMAIN views'[n] = {"dirty", "answer", "on", "context"} /\ views'[n].dirty \in BOOLEAN
    BY <2>1, <2>2, <2>3, TouchedKept
  <2>5. Resolved(box') = Resolved(box)
    BY <2>2 DEF Resolved, Active
  <2>6. BoxTypes' /\ ResolvedInv'
    BY <2>1, <2>2, <2>4, <2>5 DEF BoxInv, BoxTypes, ResolvedInv
  <2> QED BY <2>1, <2>2, <2>4, <2>6 DEF BoxInv, ListsInv
<1>5. ASSUME NEW set \in SUBSET Tags, SetActiveTags(set) PROVE BoxInv'
  <2> DEFINE changed == {"global"} \X ((set \ box.tags) \cup (box.tags \ set))
  <2>1. /\ edit = Returned /\ edit' = edit /\ resolved' = Invalidated(box') /\ views' = Touched(changed)
        /\ box' = [box EXCEPT !.tags = set, !.last = set, !.byHand = FALSE]
    BY <1>5 DEF SetActiveTags, Edit
  <2>2. /\ box'.rules = box.rules /\ box'.byKey = box.byKey /\ box'.last = set
        /\ box'.locals = box.locals /\ DOMAIN box' = DOMAIN box /\ box'.tags = set
    BY <2>1 DEF BoxInv, BoxTypes
  <2>3. \A u : (u \in box'.tags <=> u \in box.tags) \/ <<"global", u>> \in changed
    BY <2>2
  <2>4. /\ \A n \in Viewed : ViewInv(n)'
        /\ DOMAIN views' = Viewed
        /\ \A n \in Viewed : DOMAIN views'[n] = {"dirty", "answer", "on", "context"} /\ views'[n].dirty \in BOOLEAN
    <3> HIDE DEF changed
    <3> QED BY <2>1, <2>2, <2>3, TouchedKept
  <2>5. BoxTypes' /\ ResolvedInv'
    BY <2>1, <2>2, <2>4, ResolvedTold DEF BoxInv, BoxTypes
  <2> QED BY <2>1, <2>2, <2>4, <2>5 DEF BoxInv, ListsInv
<1> QED BY <1>1, <1>2, <1>3, <1>4, <1>5

\* rule() gives its name's property a new version at each step that changes what is listed under it.
LEMMA BumpedKept ==
  ASSUME BoxInv, NEW n, views' = Bumped(n), box'.tags = box.tags, box'.locals = box.locals,
         \A m \in Names \ {n} : box'.byKey[m] = box.byKey[m]
  PROVE  /\ \A m \in Viewed : ViewInv(m)'
         /\ DOMAIN views' = Viewed
         /\ \A m \in Viewed : DOMAIN views'[m] = {"dirty", "answer", "on", "context"} /\ views'[m].dirty \in BOOLEAN
<1>1. CASE n \in Viewed
  <2>1. /\ DOMAIN views' = Viewed /\ \A m \in Viewed \ {n} : views'[m] = views[m]
        /\ views'[n] = [views[n] EXCEPT !.dirty = TRUE]
    BY <1>1 DEF Bumped, BoxInv, BoxTypes
  <2>2. /\ DOMAIN views[n] = {"dirty", "answer", "on", "context"}
        /\ \A m \in Viewed : DOMAIN views[m] = {"dirty", "answer", "on", "context"} /\ views[m].dirty \in BOOLEAN
    BY <1>1 DEF BoxInv, BoxTypes
  <2>3. views'[n].dirty = TRUE /\ DOMAIN views'[n] = {"dirty", "answer", "on", "context"}
    BY <2>1, <2>2
  <2>4. \A m \in Viewed : views'[m].dirty \/ (views'[m] = views[m] /\ box'.byKey[m] = box.byKey[m])
    BY <2>1, <2>3, RuleBoxAssumption DEF RuleBoxAssumption
  <2>5. \A m \in Viewed : ViewInv(m)'
    BY <2>4, OtherViewsStay
  <2>6. \A m \in Viewed : DOMAIN views'[m] = {"dirty", "answer", "on", "context"} /\ views'[m].dirty \in BOOLEAN
    <3> SUFFICES ASSUME NEW m \in Viewed
                 PROVE  DOMAIN views'[m] = {"dirty", "answer", "on", "context"} /\ views'[m].dirty \in BOOLEAN
      OBVIOUS
    <3>1. CASE m = n
      BY <2>3, <3>1
    <3>2. CASE m # n
      BY <2>1, <2>2, <3>2
    <3> QED BY <3>1, <3>2
  <2> QED BY <2>1, <2>5, <2>6
<1>2. CASE n \notin Viewed
  <2>1. views' = views
    BY <1>2 DEF Bumped
  <2>2. \A m \in Viewed : views'[m] = views[m] /\ box'.byKey[m] = box.byKey[m]
    BY <1>2, <2>1, RuleBoxAssumption DEF RuleBoxAssumption
  <2>3. \A m \in Viewed : ViewInv(m)'
    BY <2>2, OtherViewsStay
  <2> QED BY <2>1, <2>3 DEF BoxInv, BoxTypes
<1> QED BY <1>1, <1>2

LEMMA RuleKept == ASSUME BoxInv, NEW d \in Definitions, Rule(d) PROVE BoxInv'
<1> DEFINE names == UNION {DOMAIN r.rule.apply : r \in Same(d.id)}
           new == [rule |-> d, order |-> Len(FirstRules) + edits']
<1>1. /\ edit = Returned /\ edit' = [at |-> "drop", new |-> new, names |-> names]
      /\ UNCHANGED <<box, views, resolved>>
  BY DEF Rule, Edit
<1>2. /\ edit'.at = "drop" /\ edit'.new.rule = d /\ edit'.names = names /\ edit' # Returned
      /\ DOMAIN edit' = {"at", "new", "names"}
  <2> HIDE DEF names
  <2> QED BY <1>1 DEF Returned
<1>3. \A n \in Names : box.byKey[n] = IF n \in names THEN Listed(box.rules, n)
                                      ELSE Without(Listed(box.rules, n), d.id)
  <2> SUFFICES ASSUME NEW n \in Names, n \notin names
               PROVE  Without(Listed(box.rules, n), d.id) = Listed(box.rules, n)
    BY <1>1 DEF BoxInv, ListsInv
  <2>1. \A r \in Listed(box.rules, n) : r.rule.id # d.id
    BY DEF Listed, Same
  <2> QED BY <2>1 DEF Without
<1>4. ListsInv'
  <2> HIDE DEF names, new
  <2> QED BY <1>1, <1>2, <1>3 DEF BoxInv, ListsInv
<1>5. BoxTypes'
  <2> HIDE DEF names, new
  <2> QED BY <1>1, <1>2 DEF BoxInv, BoxTypes, Given
<1>6. ResolvedInv'
  BY <1>1, <1>2 DEF BoxInv, ResolvedInv, Returned
<1>7. \A n \in Viewed : ViewInv(n)'
  BY <1>1, OtherViewsStay
<1> QED BY <1>4, <1>5, <1>6, <1>7 DEF BoxInv

LEMMA DropKept == ASSUME BoxInv, NEW n \in Names, DropName(n) PROVE BoxInv'
<1> DEFINE id == edit.new.rule.id
<1>1. /\ edit.at = "drop" /\ n \in edit.names /\ box' = [box EXCEPT !.byKey = Unlisted(n)]
      /\ edit' = [edit EXCEPT !.names = @ \ {n}] /\ views' = Bumped(n) /\ resolved' = Invalidated(box')
  BY DEF DropName
<1>2. DOMAIN edit = {"at", "new", "names"} /\ edit # Returned /\ edit.new.rule \in Given
  BY <1>1 DEF BoxInv, BoxTypes, Returned
<1>3. /\ edit'.at = "drop" /\ edit'.new = edit.new /\ edit'.names = edit.names \ {n}
      /\ DOMAIN edit' = {"at", "new", "names"} /\ edit' # Returned
  BY <1>1, <1>2 DEF Returned
<1>4. /\ box'.rules = box.rules /\ box'.tags = box.tags /\ box'.last = box.last /\ box'.byHand = box.byHand
      /\ box'.locals = box.locals /\ box'.context = box.context /\ box'.byKey = Unlisted(n)
      /\ DOMAIN box' = {"rules", "byKey", "tags", "last", "byHand", "locals", "context"}
  BY <1>1 DEF BoxInv, BoxTypes
<1>5. DOMAIN box'.byKey = Names /\ \A m \in Names \ {n} : box'.byKey[m] = box.byKey[m]
  BY <1>4 DEF BoxInv, BoxTypes, Unlisted
<1>6. box'.byKey[n] = Without(box.byKey[n], id)
  BY <1>4 DEF BoxInv, BoxTypes, Unlisted
<1>7. \A m \in Names : box'.byKey[m] = IF m \in edit'.names THEN Listed(box'.rules, m)
                                       ELSE Without(Listed(box'.rules, m), edit'.new.rule.id)
  BY <1>1, <1>3, <1>4, <1>5, <1>6 DEF BoxInv, ListsInv
<1>8. ListsInv'
  BY <1>3, <1>4, <1>7 DEF BoxInv, ListsInv
<1>9. /\ \A m \in Viewed : ViewInv(m)'
      /\ DOMAIN views' = Viewed
      /\ \A m \in Viewed : DOMAIN views'[m] = {"dirty", "answer", "on", "context"} /\ views'[m].dirty \in BOOLEAN
  BY <1>1, <1>4, <1>5, BumpedKept
<1>10. BoxTypes' /\ ResolvedInv'
  BY <1>1, <1>2, <1>3, <1>4, <1>5, <1>9, ResolvedTold DEF BoxInv, BoxTypes
<1> QED BY <1>8, <1>9, <1>10 DEF BoxInv

LEMMA ReplaceKept == ASSUME BoxInv, Replace PROVE BoxInv'
<1> DEFINE new == edit.new
           names == DOMAIN new.rule.apply
           rules == Without(box.rules, new.rule.id) \cup {new}
<1>1. /\ edit.at = "drop" /\ edit.names = {} /\ box' = [box EXCEPT !.rules = rules] /\ UNCHANGED views
      /\ edit' = IF names = {} THEN Returned ELSE [edit EXCEPT !.at = "add", !.names = names]
      /\ resolved' = [resolved EXCEPT !.emptied = names = {} /\ resolved.valid]
  BY DEF Replace
<1>2. DOMAIN edit = {"at", "new", "names"} /\ edit # Returned /\ new.rule \in Given
  BY <1>1 DEF BoxInv, BoxTypes, Returned
<1>3. /\ box'.rules = rules /\ box'.tags = box.tags /\ box'.last = box.last /\ box'.byHand = box.byHand
      /\ box'.locals = box.locals /\ box'.context = box.context /\ box'.byKey = box.byKey
      /\ DOMAIN box' = {"rules", "byKey", "tags", "last", "byHand", "locals", "context"}
  <2> HIDE DEF rules
  <2> QED BY <1>1 DEF BoxInv, BoxTypes
<1>4. \A n \in Names : box.byKey[n] = Without(Listed(box.rules, n), new.rule.id)
  BY <1>1 DEF BoxInv, ListsInv
<1>5. \A r, s \in rules : r.rule.id = s.rule.id => r = s
  BY DEF BoxInv, ListsInv, Without
<1>6. \A n \in Names : Listed(rules, n) = IF n \in names THEN box.byKey[n] \cup {new} ELSE box.byKey[n]
  BY <1>4 DEF Listed, Without
<1>7. \A n \in Names : new \notin box.byKey[n]
  BY <1>4 DEF Without
<1>8. ASSUME names = {} PROVE ListsInv'
  <2>1. edit' = Returned
    BY <1>1, <1>8
  <2>2. edit'.at = "idle"
    BY <2>1 DEF Returned
  <2>3. ListsInv'
    <3> HIDE DEF rules, names
    <3> QED BY <1>3, <1>5, <1>6, <1>8, <2>1, <2>2 DEF BoxInv, ListsInv
  <2> QED BY <2>3
<1>9. ASSUME names # {} PROVE ListsInv'
  <2>1. /\ edit'.at = "add" /\ edit'.names = names /\ edit'.new = new /\ DOMAIN edit' = {"at", "new", "names"}
        /\ edit' # Returned
    <3> HIDE DEF names
    <3> QED BY <1>1, <1>2, <1>9 DEF Returned
  <2>2. \A n \in Names : box.byKey[n] = IF n \in names THEN Listed(rules, n) \ {new} ELSE Listed(rules, n)
    <3> HIDE DEF rules, names, new
    <3> QED BY <1>6, <1>7
  <2>3. ListsInv'
    <3>1. new \in rules
      OBVIOUS
    <3> HIDE DEF rules
    <3> QED BY <1>3, <1>5, <2>1, <2>2, <3>1 DEF BoxInv, ListsInv
  <2> QED BY <2>3
<1>10. ListsInv'
  BY <1>8, <1>9
<1>11. BoxTypes'
  <2>1. \A r \in rules : r.rule \in Given
    BY <1>2 DEF BoxInv, BoxTypes, Without
  <2>2. \/ edit' = Returned
        \/ DOMAIN edit' = {"at", "new", "names"} /\ edit'.at \in {"drop", "add"} /\ edit'.new.rule \in Given
    <3> HIDE DEF names
    <3> QED BY <1>1, <1>2
  <2>3. /\ resolved'.valid \in BOOLEAN /\ resolved'.heard \in BOOLEAN /\ resolved'.emptied \in BOOLEAN
        /\ DOMAIN resolved' = {"valid", "all", "heard", "emptied"}
    <3> HIDE DEF names
    <3> QED BY <1>1 DEF BoxInv, BoxTypes
  <2> HIDE DEF rules
  <2> QED BY <1>1, <1>3, <2>1, <2>2, <2>3 DEF BoxInv, BoxTypes
<1>12. ResolvedInv'
  <2> HIDE DEF names
  <2>1. resolved'.valid = resolved.valid /\ resolved'.emptied = (names = {} /\ resolved.valid)
    BY <1>1 DEF BoxInv, BoxTypes
  <2>2. names # {} => edit'.at = "add"
    BY <1>1, <1>2
  <2> QED BY <2>1, <2>2 DEF ResolvedInv
<1>13. \A n \in Viewed : ViewInv(n)'
  BY <1>1, <1>3, OtherViewsStay
<1> QED BY <1>10, <1>11, <1>12, <1>13 DEF BoxInv

LEMMA AddKept == ASSUME BoxInv, NEW n \in Names, AddName(n) PROVE BoxInv'
<1> DEFINE new == edit.new
<1>1. /\ edit.at = "add" /\ n \in edit.names /\ box' = [box EXCEPT !.byKey[n] = @ \cup {new}]
      /\ edit' = IF edit.names = {n} THEN Returned ELSE [edit EXCEPT !.names = @ \ {n}]
      /\ views' = Bumped(n) /\ resolved' = Invalidated(box')
  BY DEF AddName
<1>2. DOMAIN edit = {"at", "new", "names"} /\ edit # Returned /\ new.rule \in Given
  BY <1>1 DEF BoxInv, BoxTypes, Returned
<1>3. /\ box'.rules = box.rules /\ box'.tags = box.tags /\ box'.last = box.last /\ box'.byHand = box.byHand
      /\ box'.locals = box.locals /\ box'.context = box.context
      /\ box'.byKey = [box.byKey EXCEPT ![n] = @ \cup {new}]
      /\ DOMAIN box' = {"rules", "byKey", "tags", "last", "byHand", "locals", "context"}
  BY <1>1 DEF BoxInv, BoxTypes
<1>4. /\ DOMAIN box'.byKey = Names /\ \A m \in Names \ {n} : box'.byKey[m] = box.byKey[m]
      /\ box'.byKey[n] = box.byKey[n] \cup {new}
  BY <1>3 DEF BoxInv, BoxTypes
<1>5. new \in Listed(box.rules, n)
  BY <1>1 DEF BoxInv, ListsInv, Listed
<1>6. box'.byKey[n] = Listed(box.rules, n)
  BY <1>1, <1>4, <1>5 DEF BoxInv, ListsInv
<1>7. \A m \in Names \ {n} : box'.byKey[m] = IF m \in edit.names THEN Listed(box.rules, m) \ {new}
                                            ELSE Listed(box.rules, m)
  BY <1>1, <1>4 DEF BoxInv, ListsInv
<1>8. ListsInv'
  <2>1. CASE edit.names = {n}
    <3>1. edit' = Returned
      BY <1>1, <2>1
    <3>2. edit'.at = "idle"
      BY <3>1 DEF Returned
    <3>3. \A m \in Names : box'.byKey[m] = Listed(box'.rules, m)
      BY <1>3, <1>6, <1>7, <2>1
    <3> QED BY <1>3, <3>2, <3>3 DEF BoxInv, ListsInv
  <2>2. CASE edit.names # {n}
    <3>1. edit'.at = "add" /\ edit'.names = edit.names \ {n} /\ edit'.new = new /\ edit' # Returned
      BY <1>1, <1>2, <2>2 DEF Returned
    <3>2. \A m \in Names : box'.byKey[m] = IF m \in edit'.names THEN Listed(box'.rules, m) \ {new}
                                           ELSE Listed(box'.rules, m)
      BY <1>3, <1>6, <1>7, <3>1
    <3>3. /\ edit'.new \in box'.rules /\ edit'.names \subseteq DOMAIN edit'.new.rule.apply
          /\ \A r, s \in box'.rules : r.rule.id = s.rule.id => r = s
          /\ box'.byHand \/ box'.tags = box'.last
      BY <1>1, <1>3, <3>1 DEF BoxInv, ListsInv
    <3>4. edit'.at # "drop" /\ edit' # Returned
      BY <3>1
    <3> QED BY <3>1, <3>2, <3>3, <3>4, Zenon DEF ListsInv
  <2> QED BY <2>1, <2>2
<1>9. /\ \A m \in Viewed : ViewInv(m)'
      /\ DOMAIN views' = Viewed
      /\ \A m \in Viewed : DOMAIN views'[m] = {"dirty", "answer", "on", "context"} /\ views'[m].dirty \in BOOLEAN
  BY <1>1, <1>3, <1>4, BumpedKept
<1>10. \/ edit' = Returned
       \/ DOMAIN edit' = {"at", "new", "names"} /\ edit'.at \in {"drop", "add"} /\ edit'.new.rule \in Given
  BY <1>1, <1>2
<1>11. BoxTypes' /\ ResolvedInv'
  BY <1>1, <1>3, <1>4, <1>9, <1>10, ResolvedTold DEF BoxInv, BoxTypes
<1> QED BY <1>8, <1>9, <1>11 DEF BoxInv

\* Every way of asking a rule box answers alike, at every step of a call of rule(): the inductive
\* invariant of SetBox.lua.
THEOREM BoxInvariant == BoxSpec => []BoxInv
<1>1. BoxInit => BoxInv
  <2> SUFFICES ASSUME BoxInit PROVE BoxInv
    OBVIOUS
  <2>1. /\ box.rules = FirstList /\ box.byKey = [n \in Names |-> Listed(FirstList, n)] /\ box.tags = box.last
        /\ DOMAIN box = {"rules", "byKey", "tags", "last", "byHand", "locals", "context"}
    BY DEF BoxInit
  <2>2. edit = Returned /\ edit.at = "idle"
    BY DEF BoxInit, Returned
  <2>3. \A r, s \in FirstList : r.rule.id = s.rule.id => r = s
    BY RuleBoxAssumption DEF RuleBoxAssumption, FirstList
  <2>4. ListsInv
    BY <2>1, <2>2, <2>3 DEF ListsInv
  <2>5. /\ DOMAIN views = Viewed
        /\ \A n \in Viewed : DOMAIN views[n] = {"dirty", "answer", "on", "context"} /\ views[n].dirty = TRUE
        /\ resolved.valid = FALSE /\ resolved.heard = FALSE /\ resolved.emptied = FALSE
        /\ DOMAIN resolved = {"valid", "all", "heard", "emptied"}
    BY DEF BoxInit
  <2>6. \A r \in FirstList : r.rule \in Given
    BY DEF FirstList, Given
  <2>7. BoxTypes
    BY <2>1, <2>2, <2>5, <2>6 DEF BoxTypes
  <2> QED BY <2>4, <2>5, <2>7 DEF BoxInv, ViewInv, ResolvedInv
<1>2. BoxInv /\ [BoxNext]_boxVars => BoxInv'
  <2> SUFFICES ASSUME BoxInv, [BoxNext]_boxVars PROVE BoxInv'
    OBVIOUS
  <2>1. CASE \E n \in Viewed : View(n)
    BY <2>1, ViewKept
  <2>2. CASE \E n \in Names : DropName(n) \/ AddName(n)
    BY <2>2, DropKept, AddKept
  <2>3. CASE \/ AskResolve \/ OnPropertyChange \/ SetContext
             \/ \E t \in Tags : ToggleTag(t) \/ ToggleLocal(t)
             \/ \E set \in SUBSET Tags : SetActiveTags(set)
    BY <2>3, TagsKept
  <2>4. CASE \E d \in Definitions : Rule(d)
    BY <2>4, RuleKept
  <2>5. CASE Replace
    BY <2>5, ReplaceKept
  <2>6. CASE UNCHANGED boxVars
    BY <2>6 DEF boxVars, BoxInv, BoxTypes, ListsInv, ViewInv, ResolvedInv, Lookup, Witnessed, Observed, Active
  <2> QED BY <2>1, <2>2, <2>3, <2>4, <2>5, <2>6 DEF BoxNext
<1> QED BY <1>1, <1>2, PTL DEF BoxSpec

\* A setting of the user comes before the other rules that have no tags.
LEMMA OverrideWins ==
  ASSUME BoxInv, edit = Returned, NEW r \in box.rules, NEW n \in Names, r.rule.id = "override",
         n \in DOMAIN r.rule.apply,
         \A s \in box.byKey[n] : Matches(s.rule, Active(box, TRUE), box.context) => s.rule.tags = {}
  PROVE  Lookup(n, TRUE, box.context) = r.rule.apply[n]
<1> DEFINE matching == {s \in Listed(box.byKey[n], n) : Matches(s.rule, Active(box, TRUE), box.context)}
           firstOf == {s \in matching : \A t \in matching \ {s} : Before(s, t)}
<1>1. box.byKey[n] = Listed(box.rules, n) /\ \A s, t \in box.rules : s.rule.id = t.rule.id => s = t
  BY DEF BoxInv, ListsInv
<1>2. \A s \in box.rules : s.rule \in Given
  BY DEF BoxInv, BoxTypes
<1>3. r.rule.tags = {} /\ ~r.rule.when /\ \A e \in Given : e.id # "override" => e.priority < r.rule.priority
  BY <1>2, RuleBoxAssumption DEF RuleBoxAssumption
<1>4. r \in matching
  BY <1>1, <1>3 DEF Listed, Matches
<1>5. \A s \in matching : s \in box.rules /\ s.rule.tags = {}
  BY <1>1 DEF Listed
<1>6. \A s \in matching \ {r} : s.rule.priority < r.rule.priority
  BY <1>1, <1>2, <1>3, <1>5
<1>7. \A s \in matching : s.rule.priority \in Int
  BY <1>2, <1>5, RuleBoxAssumption DEF RuleBoxAssumption
<1>8. Cardinality({}) = 0
  BY FS_EmptySet
<1> HIDE DEF matching
<1>9. r \in firstOf
  BY <1>3, <1>4, <1>5, <1>6, <1>7 DEF Before
<1>10. \A s \in firstOf : s = r
  <2> SUFFICES ASSUME NEW s \in matching, s # r, Before(s, r) PROVE FALSE
    BY <1>4
  <2>1. s.rule.tags = {} /\ r.rule.tags = {} /\ s.rule.priority < r.rule.priority
        /\ s.rule.priority \in Int /\ r.rule.priority \in Int
    BY <1>3, <1>4, <1>5, <1>6, <1>7
  <2> QED BY <1>8, <2>1 DEF Before
<1>11. (CHOOSE s \in firstOf : TRUE) = r
  <2> HIDE DEF firstOf
  <2> QED BY <1>9, <1>10
<1> QED BY <1>4, <1>11 DEF Lookup, Best, matching

LEMMA BoxIsRight == BoxInv => RuleBoxRight
<1> SUFFICES ASSUME BoxInv PROVE RuleBoxRight
  OBVIOUS
<1>1. ViewsFresh
  BY DEF BoxInv, BoxTypes, ViewInv, ViewsFresh
<1>2. AllFresh
  BY DEF BoxInv, ResolvedInv, AllFresh, Returned
<1>3. WaysAgree
  BY DEF BoxInv, ListsInv, WaysAgree
<1>4. OverridesRead
  BY OverrideWins DEF OverridesRead
<1> QED BY <1>1, <1>2, <1>3, <1>4 DEF RuleBoxRight

\* What Reactive.lua computes and tells is right, and so is what SetBox.lua answers.
THEOREM ModelAlwaysRight == ReactiveSpec /\ BoxSpec => []ModelRight
<1>1. (~tables.cut => ReactiveInv) => ReactiveRight
  BY CleanRight, WatchesRight DEF ReactiveRight
<1>2. BoxInv => RuleBoxRight
  BY BoxIsRight
<1>3. ReactiveRight /\ RuleBoxRight => ModelRight
  BY DEF ModelRight
<1> QED BY <1>1, <1>2, <1>3, ReactiveInvariant, BoxInvariant, PTL
=============================================================================
