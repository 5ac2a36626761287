----------------------------- MODULE RingBuffer -----------------------------
(***************************************************************************)
(* twin/src/RingBuffer.hpp: the single-producer single-consumer ring that  *)
(* carries IQ frames from the SignalGen session loop (producer) to the     *)
(* SamplePacer thread (consumer).                                          *)
(*                                                                         *)
(* The two threads interleave between the load of the other side's index,  *)
(* every slot copied, and the store that publishes the result.  The        *)
(* indices are never reduced to a slot number: they are size_t counters    *)
(* that wrap at IndexMod (2^32 or 2^64), so "w - r" and "(w + i) & mask"   *)
(* are modelled modulo IndexMod.                                           *)
(***************************************************************************)
EXTENDS SequencesExt, Integers

CONSTANTS Frame,      \* the values of T
          Capacity,   \* CAPACITY
          IndexMod,   \* the number of values of a size_t
          MaxBatch,   \* bound: largest count of one write() or read()
          MaxFrames   \* bound: frames accepted over a whole behaviour

\* static_assert((CAPACITY & (CAPACITY - 1)) == 0): a power of two divides 2^width.
\* The size_t must also tell an empty ring from a full one.
ASSUME CapacityAssumption == /\ Capacity \in Nat \ {0}
                             /\ IndexMod \in Nat
                             /\ IndexMod > Capacity
                             /\ IndexMod % Capacity = 0

ASSUME BoundAssumption == MaxBatch \in Nat /\ MaxFrames \in Nat

VARIABLES writeIndex, readIndex, buffer,
          producer,   \* local state of a write() call: w, data (the part that fits), i
          consumer,   \* local state of a read() call: r, toRead, outData so far
          sent,       \* history: the frames published by write()
          taken       \* history: the frames released by read() or clear()

shared == <<writeIndex, readIndex, buffer>>
ringVars == <<writeIndex, readIndex, buffer, producer, consumer, sent, taken>>

Idle == "idle"
Copy == "copy"

\* buffer[x & mask]
Slot(x) == x % Capacity

\* The unsigned difference w - r of two indices.
Distance(w, r) == (w - r) % IndexMod

\* The unsigned sum of an index and a count.
Advance(x, n) == (x + n) % IndexMod

Least(a, b) == IF a < b THEN a ELSE b

IdleProducer == [pc |-> Idle, at |-> 0, data |-> <<>>, copied |-> 0]
IdleConsumer == [pc |-> Idle, at |-> 0, toRead |-> 0, out |-> <<>>]

\* std::array<T, CAPACITY> is not initialised: the slots hold anything.
RingInit ==
  /\ writeIndex = 0
  /\ readIndex = 0
  /\ buffer \in [0 .. Capacity - 1 -> Frame]
  /\ producer = IdleProducer
  /\ consumer = IdleConsumer
  /\ sent = <<>>
  /\ taken = <<>>

----------------------------------------------------------------------------
(* The producer: write(data, count).                                       *)

\* A plausible slip: the free space computed as if one slot more were free.
FreeSlotsOffByOne == Capacity - Distance(writeIndex, readIndex) + 1

FreeSlots == Capacity - Distance(writeIndex, readIndex)

\* Load both indices and keep the part of the data that fits; with no room at all the
\* call returns 0 and changes nothing.
WriteBegin(count) ==
  /\ producer.pc = Idle
  /\ Len(sent) + count <= MaxFrames
  /\ LET toWrite == Least(count, FreeSlots) IN
       /\ toWrite # 0
       /\ \E data \in [1 .. toWrite -> Frame] :
            producer' = [pc |-> Copy, at |-> writeIndex, data |-> data, copied |-> 0]
  /\ UNCHANGED <<shared, consumer, sent, taken>>

\* buffer[(w + i) & mask] = data[i]
WriteSlot ==
  /\ producer.pc = Copy
  /\ producer.copied < Len(producer.data)
  /\ buffer' = [buffer EXCEPT ![Slot(Advance(producer.at, producer.copied))]
                                  = producer.data[producer.copied + 1]]
  /\ producer' = [producer EXCEPT !.copied = @ + 1]
  /\ UNCHANGED <<writeIndex, readIndex, consumer, sent, taken>>

\* A plausible slip: the indices are published before the last slot is copied.
WriteEndEarly ==
  /\ producer.pc = Copy
  /\ producer.copied + 1 >= Len(producer.data)
  /\ writeIndex' = Advance(producer.at, Len(producer.data))
  /\ sent' = sent \o producer.data
  /\ producer' = IdleProducer
  /\ UNCHANGED <<readIndex, buffer, consumer, taken>>

\* writeIndex.store(w + toWrite, release)
WriteEnd ==
  /\ producer.pc = Copy
  /\ producer.copied = Len(producer.data)
  /\ writeIndex' = Advance(producer.at, Len(producer.data))
  /\ sent' = sent \o producer.data
  /\ producer' = IdleProducer
  /\ UNCHANGED <<readIndex, buffer, consumer, taken>>

\* clear(), called by the producer's thread once the consumer's has been joined
\* (SignalGen.cpp:581-582, SamplePacer::stop): the frames in the ring are dropped.
Clear ==
  /\ producer.pc = Idle
  /\ consumer.pc = Idle
  /\ readIndex' = writeIndex
  /\ taken' = sent
  /\ UNCHANGED <<writeIndex, buffer, producer, consumer, sent>>

----------------------------------------------------------------------------
(* The consumer: read(outData, count).                                     *)

\* A plausible slip: the read index is released when the copy starts, not when it ends.
ReadBeginReleasesEarly(count) ==
  /\ consumer.pc = Idle
  /\ LET toRead == Least(count, Distance(writeIndex, readIndex)) IN
       /\ toRead # 0
       /\ consumer' = [pc |-> Copy, at |-> readIndex, toRead |-> toRead, out |-> <<>>]
       /\ readIndex' = Advance(readIndex, toRead)
  /\ UNCHANGED <<writeIndex, buffer, producer, sent, taken>>

\* Load both indices; with nothing available the call returns 0 and changes nothing.
ReadBegin(count) ==
  /\ consumer.pc = Idle
  /\ LET toRead == Least(count, Distance(writeIndex, readIndex)) IN
       /\ toRead # 0
       /\ consumer' = [pc |-> Copy, at |-> readIndex, toRead |-> toRead, out |-> <<>>]
  /\ UNCHANGED <<shared, producer, sent, taken>>

\* outData[i] = buffer[(r + i) & mask]
ReadSlot ==
  /\ consumer.pc = Copy
  /\ Len(consumer.out) < consumer.toRead
  /\ consumer' = [consumer EXCEPT
       !.out = Append(@, buffer[Slot(Advance(consumer.at, Len(consumer.out)))])]
  /\ UNCHANGED <<shared, producer, sent, taken>>

\* readIndex.store(r + toRead, release)
ReadEnd ==
  /\ consumer.pc = Copy
  /\ Len(consumer.out) = consumer.toRead
  /\ readIndex' = Advance(consumer.at, consumer.toRead)
  /\ taken' = taken \o consumer.out
  /\ consumer' = IdleConsumer
  /\ UNCHANGED <<writeIndex, buffer, producer, sent>>

----------------------------------------------------------------------------

Producer == (\E n \in 1 .. MaxBatch : WriteBegin(n)) \/ WriteSlot \/ WriteEnd \/ Clear
Consumer == (\E n \in 1 .. MaxBatch : ReadBegin(n)) \/ ReadSlot \/ ReadEnd

RingNext == Producer \/ Consumer

RingSpec == RingInit /\ [][RingNext]_ringVars

----------------------------------------------------------------------------
(* Properties.                                                             *)

SizeT == 0 .. IndexMod - 1

\* Types and the bounds of the call-local counters.
RingTypeOK ==
  /\ writeIndex \in SizeT
  /\ readIndex \in SizeT
  /\ buffer \in [0 .. Capacity - 1 -> Frame]
  /\ producer \in [pc : {Idle, Copy}, at : SizeT, data : Seq(Frame), copied : Nat]
  /\ producer.copied <= Len(producer.data)
  /\ consumer \in [pc : {Idle, Copy}, at : SizeT, toRead : Nat, out : Seq(Frame)]
  /\ Len(consumer.out) <= consumer.toRead
  /\ sent \in Seq(Frame)
  /\ taken \in Seq(Frame)

\* The slots a call in progress still has to touch.
BeingWritten == IF producer.pc = Copy
                THEN {Slot(Advance(producer.at, i)) :
                        i \in producer.copied .. Len(producer.data) - 1}
                ELSE {}
BeingRead == IF consumer.pc = Copy
             THEN {Slot(Advance(consumer.at, i)) :
                     i \in Len(consumer.out) .. consumer.toRead - 1}
             ELSE {}

\* The copy loops of write() and read() run with no lock: whatever the interleaving and
\* wherever the size_t indices have wrapped, no slot is written by one thread while the
\* other still has to read it (RingBuffer.hpp:31-33 against 50-52).
NoSlotShared == BeingWritten \cap BeingRead = {}

\* The ring behaves as a bounded FIFO: every frame read() returns is the next frame
\* write() accepted, and never more than CAPACITY frames are inside.
Fifo == INSTANCE FrameFifo
FifoSpec == Fifo!Spec

----------------------------------------------------------------------------
(* The inductive invariant behind the three properties: the indices are    *)
(* the history lengths modulo IndexMod, a slot between the two indices     *)
(* holds the frame sent at its position, and so does every slot and every  *)
(* frame that a call in progress has already copied.                       *)

IndexInv ==
  /\ writeIndex = Len(sent) % IndexMod
  /\ readIndex = Len(taken) % IndexMod
  /\ Len(taken) <= Len(sent)
  /\ Len(sent) <= Len(taken) + Capacity

HistoryInv == \A k \in 1 .. Len(taken) : taken[k] = sent[k]

SlotInv == \A k \in Len(taken) .. Len(sent) - 1 : buffer[Slot(k)] = sent[k + 1]

ProducerInv ==
  producer.pc = Copy =>
    /\ producer.at = writeIndex
    /\ Len(sent) + Len(producer.data) <= Len(taken) + Capacity
    /\ \A k \in 0 .. producer.copied - 1 :
         buffer[Slot(Len(sent) + k)] = producer.data[k + 1]

ConsumerInv ==
  consumer.pc = Copy =>
    /\ consumer.at = readIndex
    /\ Len(taken) + consumer.toRead <= Len(sent)
    /\ \A k \in 1 .. Len(consumer.out) : consumer.out[k] = sent[Len(taken) + k]

\* What every reachable state of the ring satisfies, and every step preserves: the slots
\* between the two published indices, and only they, hold the frames in flight.
RingInv == /\ RingTypeOK
           /\ IndexInv
           /\ HistoryInv
           /\ SlotInv
           /\ ProducerInv
           /\ ConsumerInv

=============================================================================
