-------------------------- MODULE RingBufferProofs --------------------------
(***************************************************************************)
(* The ring of RingBuffer.tla for every capacity, every width of size_t,   *)
(* every frame type and every length of a behaviour.                       *)
(***************************************************************************)
EXTENDS RingBuffer, ModularArithmetic, SequenceTheorems

----------------------------------------------------------------------------
(* SizeT arithmetic: a wrapped index still names the slot of the absolute  *)
(* position it stands for, and the unsigned difference of two indices is   *)
(* the true number of frames between them.                                 *)

\* The slot of a wrapped index is the slot of the position it stands for.
LEMMA SlotOfIndex ==
  ASSUME NEW x \in Nat, NEW i \in Nat
  PROVE  Slot(Advance(x % IndexMod, i)) = Slot(x + i)
<1>0. /\ IndexMod \in Nat \ {0} /\ Capacity \in Nat \ {0} /\ IndexMod % Capacity = 0
      /\ x \in Int /\ i \in Int /\ x + i \in Int
  BY CapacityAssumption
<1>1. Advance(x % IndexMod, i) = (x + i) % IndexMod
  BY <1>0, ModAdd, Zenon DEF Advance
<1>2. ((x + i) % IndexMod) % Capacity = (x + i) % Capacity
  BY <1>0, ModOfMod, Zenon
<1> QED BY <1>1, <1>2, Zenon DEF Slot

\* A slot number is an index of the array.
LEMMA SlotRange ==
  ASSUME NEW x \in Nat
  PROVE  Slot(x) \in 0 .. Capacity - 1
BY CapacityAssumption DEF Slot

\* Positions less than a capacity apart lie in different slots.
LEMMA SlotsApart ==
  ASSUME NEW x \in Nat, NEW y \in Nat, x # y, x - y < Capacity, y - x < Capacity
  PROVE  Slot(x) # Slot(y)
<1>0. Capacity \in Nat \ {0} /\ x \in Int /\ y \in Int
  BY CapacityAssumption
<1>1. CASE x < y
  BY <1>0, <1>1, ModDistinct, Zenon DEF Slot
<1>2. CASE y < x
  BY <1>0, <1>2, ModDistinct, Zenon DEF Slot
<1> QED BY <1>1, <1>2

\* An advanced index is a size_t.
LEMMA AdvanceRange ==
  ASSUME NEW x \in Int, NEW n \in Int
  PROVE  Advance(x, n) \in SizeT
BY CapacityAssumption DEF Advance, SizeT

\* Advancing the wrapped index of a position gives the wrapped index of the later one.
LEMMA IndexAfter ==
  ASSUME NEW x \in Nat, NEW n \in Nat
  PROVE  Advance(x % IndexMod, n) = (x + n) % IndexMod
<1>0. IndexMod \in Nat \ {0} /\ x \in Int /\ n \in Int
  BY CapacityAssumption
<1> QED BY <1>0, ModAdd, Zenon DEF Advance

\* The unsigned difference of the two published indices is the number of frames inside.
LEMMA Occupancy ==
  ASSUME RingTypeOK, IndexInv
  PROVE  Distance(writeIndex, readIndex) = Len(sent) - Len(taken)
<1>0. IndexMod \in Nat \ {0} /\ Len(sent) \in Nat /\ Len(taken) \in Nat
  BY CapacityAssumption DEF RingTypeOK
<1>1. Len(sent) - Len(taken) \in 0 .. IndexMod - 1
  BY <1>0, CapacityAssumption DEF IndexInv
<1>2. ((Len(sent) % IndexMod) - (Len(taken) % IndexMod)) % IndexMod
        = Len(sent) - Len(taken)
  BY <1>0, <1>1, ModDistance, Zenon
<1> QED BY <1>2, Zenon DEF Distance, IndexInv

----------------------------------------------------------------------------

\* An empty ring satisfies the invariant.
LEMMA RingInitially == RingInit => RingInv
<1> SUFFICES ASSUME RingInit PROVE RingInv
  OBVIOUS
<1>0. /\ <<>> \in Seq(Frame) /\ Len(<<>>) = 0
      /\ 0 \in SizeT /\ 0 % IndexMod = 0
  BY CapacityAssumption DEF SizeT
<1>1. RingTypeOK
  BY <1>0 DEF RingInit, RingTypeOK, IdleProducer, IdleConsumer, Idle, Copy
<1>2. IndexInv
  BY <1>0, CapacityAssumption DEF RingInit, IndexInv
<1>3. HistoryInv /\ SlotInv
  BY <1>0 DEF RingInit, HistoryInv, SlotInv
<1>4. ProducerInv /\ ConsumerInv
  BY DEF RingInit, ProducerInv, ConsumerInv, IdleProducer, IdleConsumer, Idle, Copy
<1> QED BY <1>1, <1>2, <1>3, <1>4 DEF RingInv

\* write() keeps only what fits beside the frames that are inside.
LEMMA WriteBeginStep ==
  ASSUME RingInv, NEW n \in 1 .. MaxBatch, WriteBegin(n)
  PROVE  RingInv'
<1> USE DEF RingInv
<1>1. PICK data \in [1 .. Least(n, FreeSlots) -> Frame] :
        producer' = [pc |-> Copy, at |-> writeIndex, data |-> data, copied |-> 0]
  BY DEF WriteBegin
<1>2. /\ UNCHANGED <<writeIndex, readIndex, buffer, consumer, sent, taken>>
      /\ Least(n, FreeSlots) # 0
  BY DEF WriteBegin, shared
<1>3. FreeSlots = Capacity - (Len(sent) - Len(taken)) /\ FreeSlots \in Nat
  BY Occupancy, CapacityAssumption DEF FreeSlots, IndexInv, RingTypeOK
<1>4. /\ Least(n, FreeSlots) \in Nat
      /\ Least(n, FreeSlots) <= FreeSlots
  BY <1>3, BoundAssumption DEF Least
<1>5. data \in Seq(Frame) /\ Len(data) = Least(n, FreeSlots)
  BY <1>4
<1>6. RingTypeOK'
  BY <1>1, <1>2, <1>5 DEF RingTypeOK
<1>7. ProducerInv'
  BY <1>1, <1>2, <1>3, <1>4, <1>5, CapacityAssumption DEF ProducerInv, RingTypeOK
<1>8. IndexInv' /\ HistoryInv' /\ SlotInv' /\ ConsumerInv'
  BY <1>2 DEF IndexInv, HistoryInv, SlotInv, ConsumerInv
<1> QED BY <1>6, <1>7, <1>8

\* A slot that write() fills is outside the published range and outside a read in progress.
LEMMA WriteSlotStep ==
  ASSUME RingInv, WriteSlot
  PROVE  RingInv'
<1> USE DEF RingInv
<1> DEFINE here == Len(sent) + producer.copied
<1>0. producer.pc = Copy /\ producer.copied < Len(producer.data)
  BY DEF WriteSlot
<1>1. /\ producer.pc = Copy
      /\ producer.copied < Len(producer.data)
      /\ producer' = [producer EXCEPT !.copied = producer.copied + 1]
      /\ UNCHANGED <<writeIndex, readIndex, consumer, sent, taken>>
      /\ buffer' = [buffer EXCEPT ![Slot(Advance(producer.at, producer.copied))]
                                       = producer.data[producer.copied + 1]]
  BY DEF WriteSlot
<1>2. Len(sent) \in Nat /\ Len(taken) \in Nat /\ producer.copied \in Nat
      /\ Len(producer.data) \in Nat /\ here \in Nat
  BY DEF RingTypeOK
<1>3. Slot(Advance(producer.at, producer.copied)) = Slot(here)
  BY <1>1, <1>2, SlotOfIndex DEF ProducerInv, IndexInv
<1>4. producer.data[producer.copied + 1] \in Frame
  BY <1>1, <1>2, ElementOfSeq DEF RingTypeOK
<1>5. Slot(here) \in 0 .. Capacity - 1
  BY <1>2, SlotRange
<1>6. RingTypeOK'
  <2>1. buffer' \in [0 .. Capacity - 1 -> Frame]
    BY <1>1, <1>3, <1>4, <1>5 DEF RingTypeOK
  <2>2. /\ producer' \in [pc : {Idle, Copy}, at : SizeT, data : Seq(Frame), copied : Nat]
        /\ producer'.copied <= Len(producer'.data)
    <3>1. /\ producer.pc \in {Idle, Copy} /\ producer.at \in SizeT
          /\ producer.data \in Seq(Frame) /\ producer.copied + 1 \in Nat
      BY <1>2 DEF RingTypeOK
    <3>2. producer' = [pc |-> producer.pc, at |-> producer.at, data |-> producer.data,
                       copied |-> producer.copied + 1]
      BY <1>1 DEF RingTypeOK
    <3>3. producer' \in [pc : {Idle, Copy}, at : SizeT, data : Seq(Frame), copied : Nat]
      BY <3>1, <3>2, Zenon
    <3>4. producer.copied + 1 <= Len(producer.data)
      BY <1>0, <1>2
    <3> QED BY <3>2, <3>3, <3>4
  <2> QED BY <1>1, <2>1, <2>2 DEF RingTypeOK
<1>7. \A k \in Nat : (k # here /\ k - here < Capacity /\ here - k < Capacity)
                       => buffer'[Slot(k)] = buffer[Slot(k)]
  BY <1>1, <1>2, <1>3, SlotsApart, SlotRange DEF RingTypeOK
<1>8. SlotInv'
  <2>1. ASSUME NEW k \in Len(taken) .. Len(sent) - 1
        PROVE  buffer'[Slot(k)] = sent[k + 1]
    <3>1. here < Len(taken) + Capacity
      BY <1>1, <1>2, CapacityAssumption DEF ProducerInv
    <3>2. k \in Nat /\ k # here /\ k - here < Capacity /\ here - k < Capacity
      BY <1>2, <3>1, CapacityAssumption
    <3>3. buffer'[Slot(k)] = buffer[Slot(k)]
      BY <1>7, <3>2, Zenon
    <3> QED BY <3>3 DEF SlotInv
  <2> QED BY <1>1, <2>1 DEF SlotInv
<1>9. ProducerInv'
  <2>1. /\ producer'.pc = Copy /\ producer'.at = producer.at
        /\ producer'.data = producer.data /\ producer'.copied = producer.copied + 1
    BY <1>1 DEF RingTypeOK
  <2>2. buffer'[Slot(here)] = producer.data[producer.copied + 1]
    BY <1>1, <1>3, <1>5 DEF RingTypeOK
  <2>3. ASSUME NEW k \in 0 .. producer.copied
        PROVE  buffer'[Slot(Len(sent) + k)] = producer.data[k + 1]
    <3>1. CASE k = producer.copied
      BY <2>2, <3>1
    <3>2. CASE k # producer.copied
      <4>0. Len(producer.data) <= Capacity
        BY <1>0, <1>2, CapacityAssumption DEF ProducerInv, IndexInv
      <4>1. Len(sent) + k \in Nat /\ Len(sent) + k # here
            /\ (Len(sent) + k) - here < Capacity /\ here - (Len(sent) + k) < Capacity
        BY <1>0, <1>2, <3>2, <4>0, CapacityAssumption
      <4>2. buffer'[Slot(Len(sent) + k)] = buffer[Slot(Len(sent) + k)]
        BY <1>7, <4>1
      <4>3. k \in 0 .. producer.copied - 1
        BY <1>2, <3>2
      <4> QED BY <1>1, <4>2, <4>3 DEF ProducerInv
    <3> QED BY <3>1, <3>2
  <2> QED BY <1>1, <1>2, <2>1, <2>3 DEF ProducerInv
<1>10. IndexInv' /\ HistoryInv' /\ ConsumerInv'
  BY <1>1 DEF IndexInv, HistoryInv, ConsumerInv
<1> QED BY <1>6, <1>8, <1>9, <1>10

\* Publishing writeIndex adds exactly the frames that were copied, each in its slot.
LEMMA WriteEndStep ==
  ASSUME RingInv, WriteEnd
  PROVE  RingInv'
<1> USE DEF RingInv
<1>1. /\ producer.pc = Copy /\ producer.copied = Len(producer.data)
      /\ writeIndex' = Advance(producer.at, Len(producer.data))
      /\ sent' = sent \o producer.data
      /\ producer' = IdleProducer
      /\ UNCHANGED <<readIndex, buffer, consumer, taken>>
  BY DEF WriteEnd
<1>2. /\ sent \in Seq(Frame) /\ producer.data \in Seq(Frame)
      /\ Len(sent) \in Nat /\ Len(taken) \in Nat /\ Len(producer.data) \in Nat
  BY DEF RingTypeOK
<1>3. /\ sent' \in Seq(Frame)
      /\ Len(sent') = Len(sent) + Len(producer.data)
      /\ \A k \in 1 .. Len(sent) + Len(producer.data) :
           sent'[k] = IF k <= Len(sent) THEN sent[k] ELSE producer.data[k - Len(sent)]
  BY <1>1, <1>2, ConcatProperties, Zenon
<1>4. producer.at = Len(sent) % IndexMod
  BY <1>1 DEF ProducerInv, IndexInv
<1>5. writeIndex' = Len(sent') % IndexMod
  BY <1>1, <1>2, <1>3, <1>4, IndexAfter, Zenon
<1>6. RingTypeOK'
  <2>1. writeIndex' \in SizeT
    BY <1>1, <1>2, AdvanceRange DEF RingTypeOK, SizeT
  <2>2. producer' \in [pc : {Idle, Copy}, at : SizeT, data : Seq(Frame), copied : Nat]
        /\ producer'.copied <= Len(producer'.data)
    BY <1>1, CapacityAssumption DEF IdleProducer, SizeT
  <2> QED BY <1>1, <1>3, <2>1, <2>2 DEF RingTypeOK
<1>7. IndexInv'
  BY <1>1, <1>2, <1>3, <1>5 DEF IndexInv, ProducerInv
<1>8. HistoryInv'
  <2>1. ASSUME NEW k \in 1 .. Len(taken) PROVE taken[k] = sent'[k]
    BY <1>2, <1>3 DEF HistoryInv, IndexInv
  <2> QED BY <1>1, <2>1 DEF HistoryInv
<1>9. SlotInv'
  <2>1. ASSUME NEW k \in Len(taken) .. Len(sent') - 1
        PROVE  buffer[Slot(k)] = sent'[k + 1]
    <3>1. CASE k < Len(sent)
      BY <1>2, <1>3, <3>1 DEF SlotInv
    <3>2. CASE k >= Len(sent)
      <4>1. k - Len(sent) \in 0 .. producer.copied - 1 /\ Len(sent) + (k - Len(sent)) = k
        BY <1>1, <1>2, <1>3, <3>2
      <4>2. buffer[Slot(k)] = producer.data[(k - Len(sent)) + 1]
        BY <1>1, <4>1 DEF ProducerInv
      <4> QED BY <1>2, <1>3, <3>2, <4>2
    <3> QED BY <1>2, <3>1, <3>2
  <2> QED BY <1>1, <2>1 DEF SlotInv
<1>10. ProducerInv'
  BY <1>1 DEF ProducerInv, IdleProducer, Idle, Copy
<1>11. ConsumerInv'
  <2>1. ASSUME consumer.pc = Copy, NEW k \in 1 .. Len(consumer.out)
        PROVE  consumer.out[k] = sent'[Len(taken) + k]
    <3>1. Len(taken) + k \in 1 .. Len(sent)
      BY <1>2, <2>1 DEF ConsumerInv, RingTypeOK
    <3>2. sent'[Len(taken) + k] = sent[Len(taken) + k]
      BY <1>2, <1>3, <3>1
    <3>3. consumer.out[k] = sent[Len(taken) + k]
      BY <2>1 DEF ConsumerInv
    <3> QED BY <3>2, <3>3
  <2> QED BY <1>1, <1>2, <1>3, <2>1 DEF ConsumerInv, RingTypeOK
<1> QED BY <1>6, <1>7, <1>8, <1>9, <1>10, <1>11

\* clear() empties the ring when no call is in progress.
LEMMA ClearStep ==
  ASSUME RingInv, Clear
  PROVE  RingInv'
<1> USE DEF RingInv
<1>1. /\ producer.pc = Idle /\ consumer.pc = Idle
      /\ readIndex' = writeIndex /\ taken' = sent
      /\ UNCHANGED <<writeIndex, buffer, producer, consumer, sent>>
  BY DEF Clear
<1>2. RingTypeOK'
  BY <1>1 DEF RingTypeOK
<1>3. IndexInv' /\ HistoryInv' /\ SlotInv'
  BY <1>1, CapacityAssumption, Len(sent) \in Nat DEF IndexInv, HistoryInv, SlotInv, RingTypeOK
<1>4. ProducerInv' /\ ConsumerInv'
  BY <1>1 DEF ProducerInv, ConsumerInv, Idle, Copy
<1> QED BY <1>2, <1>3, <1>4

\* read() takes on no more frames than are published.
LEMMA ReadBeginStep ==
  ASSUME RingInv, NEW n \in 1 .. MaxBatch, ReadBegin(n)
  PROVE  RingInv'
<1> USE DEF RingInv
<1> DEFINE toRead == Least(n, Distance(writeIndex, readIndex))
<1>1. /\ toRead # 0
      /\ consumer' = [pc |-> Copy, at |-> readIndex, toRead |-> toRead, out |-> <<>>]
      /\ UNCHANGED <<writeIndex, readIndex, buffer, producer, sent, taken>>
  BY DEF ReadBegin, shared
<1>2. Len(sent) \in Nat /\ Len(taken) \in Nat /\ Len(taken) <= Len(sent)
  BY DEF RingTypeOK, IndexInv
<1>3. toRead \in Nat /\ Len(taken) + toRead <= Len(sent)
  BY <1>2, Occupancy, BoundAssumption DEF Least
<1>4. <<>> \in Seq(Frame) /\ Len(<<>>) = 0
  OBVIOUS
<1> HIDE DEF toRead
<1>5. RingTypeOK'
  <2>1. consumer' \in [pc : {Idle, Copy}, at : SizeT, toRead : Nat, out : Seq(Frame)]
        /\ Len(consumer'.out) <= consumer'.toRead
    BY <1>1, <1>3, <1>4 DEF RingTypeOK
  <2> QED BY <1>1, <2>1 DEF RingTypeOK
<1>6. ConsumerInv'
  BY <1>1, <1>3, <1>4 DEF ConsumerInv
<1>7. IndexInv' /\ HistoryInv' /\ SlotInv' /\ ProducerInv'
  BY <1>1 DEF IndexInv, HistoryInv, SlotInv, ProducerInv
<1> QED BY <1>5, <1>6, <1>7

\* The slot read() copies holds the frame that was sent at its position.
LEMMA ReadSlotStep ==
  ASSUME RingInv, ReadSlot
  PROVE  RingInv'
<1> USE DEF RingInv
<1> DEFINE here == Len(taken) + Len(consumer.out)
           frame == buffer[Slot(Advance(consumer.at, Len(consumer.out)))]
<1>1. /\ consumer.pc = Copy /\ Len(consumer.out) < consumer.toRead
      /\ consumer' = [consumer EXCEPT !.out = Append(consumer.out, frame)]
      /\ UNCHANGED <<writeIndex, readIndex, buffer, producer, sent, taken>>
  BY DEF ReadSlot, shared
<1>2. /\ Len(taken) \in Nat /\ Len(sent) \in Nat /\ Len(consumer.out) \in Nat
      /\ consumer.out \in Seq(Frame) /\ consumer.toRead \in Nat /\ here \in Nat
  BY DEF RingTypeOK
<1>3. Slot(Advance(consumer.at, Len(consumer.out))) = Slot(here)
  BY <1>1, <1>2, SlotOfIndex DEF ConsumerInv, IndexInv
<1>4. here \in Len(taken) .. Len(sent) - 1
  BY <1>1, <1>2 DEF ConsumerInv
<1>5. frame = sent[here + 1]
  BY <1>3, <1>4 DEF SlotInv
<1>6. frame \in Frame
  BY <1>2, <1>4, <1>5, ElementOfSeq DEF RingTypeOK
<1> HIDE DEF frame
<1>7. consumer' = [pc |-> consumer.pc, at |-> consumer.at, toRead |-> consumer.toRead,
                   out |-> Append(consumer.out, frame)]
  BY <1>1 DEF RingTypeOK
<1>8. /\ Append(consumer.out, frame) \in Seq(Frame)
      /\ Len(Append(consumer.out, frame)) = Len(consumer.out) + 1
      /\ \A k \in 1 .. Len(consumer.out) : Append(consumer.out, frame)[k] = consumer.out[k]
      /\ Append(consumer.out, frame)[Len(consumer.out) + 1] = frame
  BY <1>2, <1>6, AppendProperties
<1>9. RingTypeOK'
  <2>1. consumer' \in [pc : {Idle, Copy}, at : SizeT, toRead : Nat, out : Seq(Frame)]
    BY <1>7, <1>8 DEF RingTypeOK
  <2>2. Len(consumer'.out) <= consumer'.toRead
    BY <1>1, <1>2, <1>7, <1>8
  <2> QED BY <1>1, <2>1, <2>2 DEF RingTypeOK
<1>10. ConsumerInv'
  <2>1. ASSUME NEW k \in 1 .. Len(consumer.out) + 1
        PROVE  Append(consumer.out, frame)[k] = sent[Len(taken) + k]
    <3>1. CASE k = Len(consumer.out) + 1
      BY <1>2, <1>5, <1>8, <3>1
    <3>2. CASE k # Len(consumer.out) + 1
      <4>1. k \in 1 .. Len(consumer.out)
        BY <1>2, <3>2
      <4> QED BY <1>1, <1>8, <4>1 DEF ConsumerInv
    <3> QED BY <3>1, <3>2
  <2> QED BY <1>1, <1>7, <1>8, <2>1 DEF ConsumerInv
<1>11. IndexInv' /\ HistoryInv' /\ SlotInv' /\ ProducerInv'
  BY <1>1 DEF IndexInv, HistoryInv, SlotInv, ProducerInv
<1> QED BY <1>9, <1>10, <1>11

\* Publishing readIndex releases exactly the frames that were returned.
LEMMA ReadEndStep ==
  ASSUME RingInv, ReadEnd
  PROVE  RingInv'
<1> USE DEF RingInv
<1>1. /\ consumer.pc = Copy /\ Len(consumer.out) = consumer.toRead
      /\ readIndex' = Advance(consumer.at, consumer.toRead)
      /\ taken' = taken \o consumer.out
      /\ consumer' = IdleConsumer
      /\ UNCHANGED <<writeIndex, buffer, producer, sent>>
  BY DEF ReadEnd
<1>2. /\ taken \in Seq(Frame) /\ consumer.out \in Seq(Frame)
      /\ Len(sent) \in Nat /\ Len(taken) \in Nat /\ Len(consumer.out) \in Nat
      /\ Len(producer.data) \in Nat
  BY DEF RingTypeOK
<1>3. /\ taken' \in Seq(Frame)
      /\ Len(taken') = Len(taken) + Len(consumer.out)
      /\ \A k \in 1 .. Len(taken) + Len(consumer.out) :
           taken'[k] = IF k <= Len(taken) THEN taken[k] ELSE consumer.out[k - Len(taken)]
  BY <1>1, <1>2, ConcatProperties, Zenon
<1>4. consumer.at = Len(taken) % IndexMod
  BY <1>1 DEF ConsumerInv, IndexInv
<1>5. readIndex' = Len(taken') % IndexMod
  BY <1>1, <1>2, <1>3, <1>4, IndexAfter, Zenon
<1>6. Len(taken') <= Len(sent)
  BY <1>1, <1>3 DEF ConsumerInv
<1>7. RingTypeOK'
  <2>1. readIndex' \in SizeT
    BY <1>1, <1>2, AdvanceRange DEF RingTypeOK, SizeT
  <2>2. consumer' \in [pc : {Idle, Copy}, at : SizeT, toRead : Nat, out : Seq(Frame)]
        /\ Len(consumer'.out) <= consumer'.toRead
    BY <1>1, CapacityAssumption DEF IdleConsumer, SizeT
  <2> QED BY <1>1, <1>3, <2>1, <2>2 DEF RingTypeOK
<1>8. IndexInv'
  <2>1. Len(sent) <= Len(taken') + Capacity
    BY <1>2, <1>3, CapacityAssumption DEF IndexInv
  <2> QED BY <1>1, <1>5, <1>6, <2>1 DEF IndexInv
<1>9. HistoryInv'
  <2>1. ASSUME NEW k \in 1 .. Len(taken') PROVE taken'[k] = sent[k]
    <3>1. CASE k <= Len(taken)
      BY <1>2, <1>3, <3>1 DEF HistoryInv
    <3>2. CASE k > Len(taken)
      <4>1. k - Len(taken) \in 1 .. Len(consumer.out) /\ Len(taken) + (k - Len(taken)) = k
        BY <1>2, <1>3, <3>2
      <4>2. consumer.out[k - Len(taken)] = sent[k]
        BY <1>1, <4>1 DEF ConsumerInv
      <4> QED BY <1>2, <1>3, <3>2, <4>2
    <3> QED BY <1>2, <3>1, <3>2
  <2> QED BY <1>1, <2>1 DEF HistoryInv
<1>10. SlotInv'
  BY <1>1, <1>2, <1>3 DEF SlotInv
<1>11. ProducerInv'
  BY <1>1, <1>2, <1>3, CapacityAssumption DEF ProducerInv, RingTypeOK
<1>12. ConsumerInv'
  BY <1>1 DEF ConsumerInv, IdleConsumer, Idle, Copy
<1> QED BY <1>7, <1>8, <1>9, <1>10, <1>11, <1>12

\* Every step of the producer and of the consumer preserves the invariant.
LEMMA RingStep == RingInv /\ [RingNext]_ringVars => RingInv'
<1> SUFFICES ASSUME RingInv, [RingNext]_ringVars PROVE RingInv'
  OBVIOUS
<1>1. ASSUME NEW n \in 1 .. MaxBatch, WriteBegin(n) PROVE RingInv'
  BY <1>1, WriteBeginStep
<1>2. CASE WriteSlot
  BY <1>2, WriteSlotStep
<1>3. CASE WriteEnd
  BY <1>3, WriteEndStep
<1>4. CASE Clear
  BY <1>4, ClearStep
<1>5. ASSUME NEW n \in 1 .. MaxBatch, ReadBegin(n) PROVE RingInv'
  BY <1>5, ReadBeginStep
<1>6. CASE ReadSlot
  BY <1>6, ReadSlotStep
<1>7. CASE ReadEnd
  BY <1>7, ReadEndStep
<1>8. CASE UNCHANGED ringVars
  BY <1>8 DEF ringVars, RingInv, RingTypeOK, IndexInv, HistoryInv, SlotInv, ProducerInv, ConsumerInv
<1> QED BY <1>1, <1>2, <1>3, <1>4, <1>5, <1>6, <1>7, <1>8 DEF RingNext, Producer, Consumer

----------------------------------------------------------------------------

\* The slots between the two published indices, and only they, hold the frames in flight,
\* in every reachable state of the ring.
THEOREM RingInvariant == RingSpec => []RingInv
<1>1. RingInit => RingInv
  BY RingInitially
<1>2. RingInv /\ [RingNext]_ringVars => RingInv'
  BY RingStep
<1> QED BY <1>1, <1>2, PTL DEF RingSpec

\* Every reachable state is well typed: the indices stay in the range of a size_t and the
\* copy loops never run past their counts.
THEOREM TypeCorrect == RingSpec => []RingTypeOK
<1>1. RingInv => RingTypeOK
  BY DEF RingInv
<1> QED BY <1>1, RingInvariant, PTL

\* No slot is written by one thread while the other still has to read it, for every
\* capacity and wherever the indices have wrapped.
THEOREM SlotExclusion == RingSpec => []NoSlotShared
<1>1. RingInv => NoSlotShared
  <2> SUFFICES ASSUME RingInv, producer.pc = Copy, consumer.pc = Copy,
                      NEW i \in producer.copied .. Len(producer.data) - 1,
                      NEW j \in Len(consumer.out) .. consumer.toRead - 1
               PROVE  Slot(Advance(producer.at, i)) # Slot(Advance(consumer.at, j))
    BY DEF NoSlotShared, BeingWritten, BeingRead
  <2> USE DEF RingInv
  <2>1. /\ Len(sent) \in Nat /\ Len(taken) \in Nat /\ i \in Nat /\ j \in Nat
        /\ i < Len(producer.data) /\ j < consumer.toRead /\ Len(producer.data) \in Nat
        /\ Len(sent) + Len(producer.data) <= Len(taken) + Capacity
        /\ Len(taken) + consumer.toRead <= Len(sent)
        /\ consumer.toRead \in Nat
    BY DEF RingTypeOK, ProducerInv, ConsumerInv
  <2>2. /\ Slot(Advance(producer.at, i)) = Slot(Len(sent) + i)
        /\ Slot(Advance(consumer.at, j)) = Slot(Len(taken) + j)
    BY <2>1, SlotOfIndex DEF ProducerInv, ConsumerInv, IndexInv
  <2> DEFINE s == Len(sent)  t == Len(taken)
  <2> HIDE DEF s, t
  <2>3. /\ s \in Nat /\ t \in Nat /\ s + i < t + Capacity /\ t + j < s
        /\ i \in Nat /\ j \in Nat /\ Capacity \in Nat
    BY <2>1, CapacityAssumption DEF s, t
  <2>4. /\ s + i \in Nat /\ t + j \in Nat /\ s + i # t + j
        /\ (s + i) - (t + j) < Capacity
        /\ (t + j) - (s + i) < Capacity
    BY <2>3
  <2> QED BY <2>2, <2>4, SlotsApart DEF s, t
<1> QED BY <1>1, RingInvariant, PTL

\* A sequence whose elements are the first ones of another is a prefix of it.
LEMMA PrefixByElements ==
  ASSUME NEW s \in Seq(Frame), NEW t \in Seq(Frame), Len(s) <= Len(t),
         \A k \in 1 .. Len(s) : s[k] = t[k]
  PROVE  IsPrefix(s, t)
<1>1. Len(s) \in Nat /\ Len(t) \in Nat
  OBVIOUS
<1>2. /\ \A k \in 1 .. Len(s) : s[k] \in Frame
      /\ \A k \in 1 .. Len(s) : t[k] \in Frame
  BY <1>1, ElementOfSeq
<1>3. /\ SubSeq(t, 1, Len(s)) \in Seq(Frame)
      /\ Len(SubSeq(t, 1, Len(s))) = Len(s)
      /\ \A k \in 1 .. Len(s) : SubSeq(t, 1, Len(s))[k] = t[k]
  BY <1>1, <1>2, SubSeqProperties
<1>4. SubSeq(t, 1, Len(s)) = s
  BY <1>3, SeqEqual
<1>5. SubSeq(s, 1, Len(s)) = s
  BY SubSeqFull
<1> QED BY <1>4, <1>5 DEF IsPrefix

\* The ring implements the bounded FIFO: its initial state is an empty queue, write()
\* takes effect when it publishes writeIndex, read() and clear() when they publish
\* readIndex, and every other step of the two threads is invisible.
THEOREM RingImplementsFifo == RingSpec => FifoSpec
<1>1. RingInit => Fifo!Init
  BY DEF RingInit, Fifo!Init
<1>2. RingInv /\ RingInv' /\ [RingNext]_ringVars => [Fifo!Next]_(Fifo!vars)
  <2> SUFFICES ASSUME RingInv, RingInv', [RingNext]_ringVars
               PROVE  Fifo!Next \/ UNCHANGED <<sent, taken>>
    BY DEF Fifo!vars
  <2>0. /\ sent \in Seq(Frame) /\ taken \in Seq(Frame)
        /\ sent' \in Seq(Frame) /\ taken' \in Seq(Frame)
    BY DEF RingInv, RingTypeOK
  <2>1. CASE WriteEnd
    <3>1. /\ sent' = sent \o producer.data /\ taken' = taken
          /\ producer.data \in Seq(Frame)
      BY <2>1 DEF WriteEnd, RingInv, RingTypeOK
    <3>2. /\ Len(sent) <= Len(sent')
          /\ \A k \in 1 .. Len(sent) : sent[k] = sent'[k]
      BY <2>0, <3>1, ConcatProperties
    <3>3. IsPrefix(sent, sent')
      BY <2>0, <3>2, PrefixByElements
    <3>4. Len(sent') - Len(taken) <= Capacity
      BY <2>0, <3>1, CapacityAssumption DEF RingInv, IndexInv
    <3> QED BY <2>0, <3>1, <3>3, <3>4 DEF Fifo!Next, Fifo!Put, Fifo!IsPrefix, IsPrefix
  <2>2. CASE ReadEnd \/ Clear
    <3>1. sent' = sent
      BY <2>2 DEF ReadEnd, Clear
    <3>2. IsPrefix(taken', sent)
      BY <2>0, <3>1, PrefixByElements DEF RingInv, HistoryInv, IndexInv
    <3>3. Len(taken) <= Len(taken')
      <4>1. CASE Clear
        BY <4>1, <2>0 DEF Clear, RingInv, IndexInv
      <4>2. CASE ReadEnd
        BY <4>2, <2>0, ConcatProperties DEF ReadEnd, RingInv, RingTypeOK
      <4> QED BY <2>2, <4>1, <4>2
    <3>4. \A k \in 1 .. Len(taken) : taken[k] = taken'[k]
      <4> SUFFICES ASSUME NEW k \in 1 .. Len(taken) PROVE taken[k] = taken'[k]
        OBVIOUS
      <4>1. k \in 1 .. Len(taken')
        BY <2>0, <3>3
      <4>2. taken[k] = sent[k] /\ taken'[k] = sent[k]
        BY <3>1, <4>1 DEF RingInv, HistoryInv
      <4> QED BY <4>2
    <3>5. IsPrefix(taken, taken')
      BY <2>0, <3>3, <3>4, PrefixByElements
    <3> QED BY <2>0, <3>1, <3>2, <3>5 DEF Fifo!Next, Fifo!Take, Fifo!IsPrefix, IsPrefix
  <2>3. CASE \E n \in 1 .. MaxBatch : WriteBegin(n) \/ ReadBegin(n)
    BY <2>3 DEF WriteBegin, ReadBegin
  <2>4. CASE WriteSlot \/ ReadSlot
    BY <2>4 DEF WriteSlot, ReadSlot
  <2>5. CASE UNCHANGED ringVars
    BY <2>5 DEF ringVars
  <2> QED BY <2>1, <2>2, <2>3, <2>4, <2>5 DEF RingNext, Producer, Consumer
<1> QED BY <1>1, <1>2, RingInvariant, PTL DEF RingSpec, FifoSpec, Fifo!Spec
=============================================================================
