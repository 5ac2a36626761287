----------------------------- MODULE SharedMem -----------------------------
(***************************************************************************)
(* SharedMemTransport.cpp: a ring of I/Q frames in a shared-memory object, *)
(* between a producer process, which creates the object and removes its    *)
(* name when it disconnects, and a consumer process, which opens it.       *)
(*                                                                         *)
(* Either process may die between two steps and start again.  A producer   *)
(* that died leaves the object and its name; the next one opens the same   *)
(* object and resets its header, whatever a consumer is doing with it.  A  *)
(* producer that disconnected leaves a connected consumer with an object   *)
(* that has no name.  Field widths never matter, except that the distance  *)
(* of the positions is unsigned.                                           *)
(***************************************************************************)
EXTENDS Integers

CONSTANTS ShmCapacity, \* config.capacity, the producer's
          BatchMax,    \* frames asked of readBatch()
          MaxStarts,   \* bound: connect() calls of the producer
          MaxWrites,   \* bound: frames a producer writes between two starts
          MaxDeaths    \* bound: deaths of a process

ASSUME SharedMemAssumption ==
  /\ {ShmCapacity, BatchMax, MaxStarts, MaxWrites} \subseteq Nat \ {0}
  /\ MaxDeaths \in Nat

VARIABLES
  shmName,  \* the object the name stands for, 0 for none
  objects,  \* the objects: header->magic valid, sized by ftruncate(), writePos, readPos, frames,
            \* with the history of who reset it last and whether a reset is under way
  producer, \* how far the producer is, its object, and the wPos it has loaded
  consumer, \* how far the consumer is, its object, frames still wanted, wPos, rPos, the copy
  starts,   \* history: connect() calls of the producer so far
  deaths,   \* counter for the bound
  torn      \* history: a reset fell into a read or a clear(), or one began during a reset

shmVars == <<shmName, objects, producer, consumer, starts, deaths, torn>>

NoFrame == <<0, 0>>
NewObject == [valid |-> FALSE, sized |-> FALSE, writePos |-> 0, readPos |-> 0,
              frames |-> [s \in 0..ShmCapacity-1 |-> NoFrame], owner |-> 0, dirty |-> FALSE]
ProducerDown == [at |-> "down", object |-> 0, toZero |-> {}, wPos |-> 0]
ConsumerDown == [at |-> "down", object |-> 0, wanted |-> 0, got |-> 0, wPos |-> 0, rPos |-> 0,
                 frame |-> NoFrame]

ShmInit ==
  /\ shmName = 0
  /\ objects = [o \in 1..MaxStarts |-> NewObject]
  /\ producer = ProducerDown /\ consumer = ConsumerDown
  /\ starts = 0 /\ deaths = 0 /\ torn = FALSE

Mapped == objects[producer.object]
Seen == objects[consumer.object]
ReadingIt == consumer.object = producer.object /\ consumer.at \in {"loaded", "copied", "clearing"}

----------------------------------------------------------------------------
(* connect() and disconnect() of the producer.                             *)

\* shm_open() with O_CREAT: the named object, or a new one.
CreateObject ==
  /\ producer.at = "down" /\ starts < MaxStarts
  /\ starts' = starts + 1
  /\ LET o == IF shmName = 0 THEN starts' ELSE shmName
     IN  /\ shmName' = o
         /\ producer' = [ProducerDown EXCEPT !.at = "size", !.object = o]
  /\ UNCHANGED <<objects, consumer, deaths, torn>>

\* ftruncate() and mmap().
SizeAndMap ==
  /\ producer.at = "size"
  /\ objects' = [objects EXCEPT ![producer.object].sized = TRUE]
  /\ producer' = [producer EXCEPT !.at = "zero", !.toZero = {"valid", "writePos", "readPos"}]
  /\ UNCHANGED <<shmName, consumer, starts, deaths, torn>>

\* memset() of the header, which a process that maps it sees field by field.
ZeroField(field) ==
  /\ producer.at = "zero" /\ field \in producer.toZero
  /\ objects' = [objects EXCEPT ![producer.object] =
                   CASE field = "valid"    -> [@ EXCEPT !.dirty = TRUE, !.valid = FALSE]
                     [] field = "writePos" -> [@ EXCEPT !.dirty = TRUE, !.writePos = 0]
                     [] field = "readPos"  -> [@ EXCEPT !.dirty = TRUE, !.readPos = 0]]
  /\ producer' = [producer EXCEPT !.toZero = @ \ {field}]
  /\ torn' = (torn \/ ReadingIt)
  /\ UNCHANGED <<shmName, consumer, starts, deaths>>

\* magic to frameSize: from here on a consumer accepts the header.
WriteHeader ==
  /\ producer.at = "zero" /\ producer.toZero = {}
  /\ objects' = [objects EXCEPT ![producer.object].valid = TRUE,
                                ![producer.object].owner = starts,
                                ![producer.object].dirty = FALSE]
  /\ producer' = [producer EXCEPT !.at = "clean"]
  /\ UNCHANGED <<shmName, consumer, starts, deaths, torn>>

ClearFrames ==
  /\ producer.at = "clean"
  /\ objects' = [objects EXCEPT ![producer.object].frames = NewObject.frames]
  /\ producer' = [producer EXCEPT !.at = "ready"]
  /\ UNCHANGED <<shmName, consumer, starts, deaths, torn>>

\* cleanup(), by disconnect() or on a failure of ftruncate() or mmap(): the name goes.
CloseProducer ==
  /\ producer.at \in {"size", "ready"}
  /\ producer' = ProducerDown
  /\ shmName' = 0
  /\ UNCHANGED <<objects, consumer, starts, deaths, torn>>

----------------------------------------------------------------------------
(* write() and writeBatch().                                               *)

\* A plausible slip: the frame at readPos is overwritten.
FullTooLate(object) == object.writePos - object.readPos \notin 0..ShmCapacity
\* wPos - rPos >= capacity, in uint64_t: a readPos past writePos counts as full.
Full(object) == object.writePos - object.readPos \notin 0..ShmCapacity-1

\* A frame that finds the ring full is refused, and with it the rest of its batch.
StoreFrameShm ==
  /\ producer.at = "ready" /\ Mapped.writePos < MaxWrites /\ ~Full(Mapped)
  /\ objects' = [objects EXCEPT ![producer.object].frames[Mapped.writePos % ShmCapacity] =
                   <<Mapped.owner, Mapped.writePos>>]
  /\ producer' = [producer EXCEPT !.at = "stored", !.wPos = Mapped.writePos]
  /\ UNCHANGED <<shmName, consumer, starts, deaths, torn>>

StoreWritePos ==
  /\ producer.at = "stored"
  /\ objects' = [objects EXCEPT ![producer.object].writePos = producer.wPos + 1]
  /\ producer' = [producer EXCEPT !.at = "ready"]
  /\ UNCHANGED <<shmName, consumer, starts, deaths, torn>>

----------------------------------------------------------------------------
(* The consumer.                                                           *)

\* connect(): a header that is not valid (yet) refuses it.
OpenObject ==
  /\ consumer.at = "down" /\ shmName # 0
  /\ objects[shmName].sized /\ objects[shmName].valid
  /\ consumer' = [ConsumerDown EXCEPT !.at = "ready", !.object = shmName]
  /\ UNCHANGED <<shmName, objects, producer, starts, deaths, torn>>

\* read() is readBatch() of one frame.
ReadBatch(n) ==
  /\ consumer.at = "ready"
  /\ consumer' = [consumer EXCEPT !.at = "batch", !.wanted = n, !.got = 0]
  /\ UNCHANGED <<shmName, objects, producer, starts, deaths, torn>>

\* The positions, and whether there is a frame.
LoadPositions ==
  /\ consumer.at = "batch" /\ consumer.wanted > 0
  /\ Seen.readPos < Seen.writePos
  /\ consumer' = [consumer EXCEPT !.at = "loaded", !.wPos = Seen.writePos, !.rPos = Seen.readPos]
  /\ torn' = (torn \/ Seen.dirty)
  /\ UNCHANGED <<shmName, objects, producer, starts, deaths>>

\* None: the batch ends with what it has, an empty one at its deadline.  Or it is complete.
EndBatch ==
  /\ consumer.at = "batch"
  /\ consumer.wanted = 0 \/ Seen.readPos >= Seen.writePos
  /\ consumer' = [consumer EXCEPT !.at = "ready", !.wanted = 0, !.got = 0]
  /\ UNCHANGED <<shmName, objects, producer, starts, deaths, torn>>

CopyFrame ==
  /\ consumer.at = "loaded"
  /\ consumer' = [consumer EXCEPT !.at = "copied",
                                  !.frame = Seen.frames[consumer.rPos % ShmCapacity]]
  /\ UNCHANGED <<shmName, objects, producer, starts, deaths, torn>>

StoreReadPosShm ==
  /\ consumer.at = "copied"
  /\ objects' = [objects EXCEPT ![consumer.object].readPos = consumer.rPos + 1]
  /\ consumer' = [consumer EXCEPT !.at = "batch", !.wanted = @ - 1, !.got = @ + 1]
  /\ UNCHANGED <<shmName, producer, starts, deaths, torn>>

\* clear().
LoadForClear ==
  /\ consumer.at = "ready"
  /\ consumer' = [consumer EXCEPT !.at = "clearing", !.wPos = Seen.writePos]
  /\ torn' = (torn \/ Seen.dirty)
  /\ UNCHANGED <<shmName, objects, producer, starts, deaths>>
StoreClear ==
  /\ consumer.at = "clearing"
  /\ objects' = [objects EXCEPT ![consumer.object].readPos = consumer.wPos]
  /\ consumer' = [consumer EXCEPT !.at = "ready"]
  /\ UNCHANGED <<shmName, producer, starts, deaths, torn>>

CloseConsumer ==
  /\ consumer.at = "ready"
  /\ consumer' = ConsumerDown
  /\ UNCHANGED <<shmName, objects, producer, starts, deaths, torn>>

----------------------------------------------------------------------------

\* A process dies: neither positions nor name change.
ProducerDies ==
  /\ producer.at # "down" /\ deaths < MaxDeaths
  /\ deaths' = deaths + 1
  /\ producer' = ProducerDown
  /\ UNCHANGED <<shmName, objects, consumer, starts, torn>>
ConsumerDies ==
  /\ consumer.at # "down" /\ deaths < MaxDeaths
  /\ deaths' = deaths + 1
  /\ consumer' = ConsumerDown
  /\ UNCHANGED <<shmName, objects, producer, starts, torn>>

ShmNext ==
  \/ CreateObject \/ SizeAndMap
  \/ \E field \in {"valid", "writePos", "readPos"} : ZeroField(field)
  \/ WriteHeader \/ ClearFrames \/ CloseProducer
  \/ StoreFrameShm \/ StoreWritePos
  \/ OpenObject \/ (\E n \in 1..BatchMax : ReadBatch(n))
  \/ LoadPositions \/ EndBatch \/ CopyFrame \/ StoreReadPosShm
  \/ LoadForClear \/ StoreClear \/ CloseConsumer
  \/ ProducerDies \/ ConsumerDies

ShmSpec == ShmInit /\ [][ShmNext]_shmVars

----------------------------------------------------------------------------

\* Unless a restarted producer resets the header in the middle of a consumer's call, every
\* frame read is the one written at its position by the ring's present owner, and the ring never
\* shows more frames than it holds or a reader ahead of the writer, a state neither side can
\* leave: full for write(), empty for read() (the positions both load, SharedMemTransport.cpp:180
\* and :221, and the memset of :88).
ShmInSync ==
  ~torn =>
    /\ consumer.at = "copied" => consumer.frame = <<Seen.owner, consumer.rPos>>
    /\ \A o \in DOMAIN objects :
         ~objects[o].dirty => objects[o].writePos - objects[o].readPos \in 0..ShmCapacity
=============================================================================
