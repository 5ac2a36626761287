----------------------------- MODULE UdpStream -----------------------------
(***************************************************************************)
(* The data plane: packets of IQ frames from the twin to the application.  *)
(*                                                                         *)
(*   the twin            UDPStreamTransport.cpp writeBatch(), called by    *)
(*                       the pacer with what it took from the frame ring   *)
(*   the network         loses, repeats and reorders packets               *)
(*   the receive thread  UDPStreamClient.cpp receiveLoop(): counts gaps    *)
(*                       and fills the receive ring frame by frame         *)
(*   the DSP thread      TwinConn.cpp pollFrames(): empties the ring into  *)
(*                       a batch and hands the batch to the callback       *)
(*                                                                         *)
(* A frame is its position in the stream of the twin.                      *)
(***************************************************************************)
EXTENDS Sequences, Integers, FiniteSets

CONSTANTS SeqMod,       \* sequence numbers are taken modulo this (2^32 in the code)
          PacketSizes,  \* frames in a packet (1 to 128 in the code)
          RxCapacity,   \* receiveBufferSize
          PollMax,      \* frames taken by one pollFrames() (2048 in the code)
          MaxPackets,   \* bound: packets given to sendto()
          MaxFailures,  \* bound: calls of sendto() that fail
          MaxRepeats    \* bound: packets the network repeats

ASSUME UdpAssumption ==
  /\ {SeqMod, RxCapacity, PollMax} \subseteq Nat \ {0}
  /\ PacketSizes \subseteq Nat \ {0}
  /\ MaxPackets \in Nat /\ MaxPackets < SeqMod

VARIABLES
  packetsSent,  \* UDPStreamTransport::packetsSentCount
  framesGone,   \* frames taken from the frame ring so far, sent or not
  sendFailures, \* counter for a bound
  inFlight,     \* the packets on the network
  repeats,      \* counter for a bound
  lastSequence, \* UDPStreamClient::lastSequence, None as long as firstFrame is set
  filling,      \* frames of the packet at hand not yet looked at by receiveLoop()
  rxRing, rxWrite, rxRead,  \* receiveBuffer, writePos, readPos
  framesReceived, framesDropped, bufferOverruns, \* the client's counters
  batch,        \* TwinConn::frameBuffer
  first, seen,  \* history: the first sequence number received, and all of them
  owed          \* history: frames put into the ring and not yet given to the callback

udpVars == <<packetsSent, framesGone, sendFailures, inFlight, repeats, lastSequence, filling,
             rxRing, rxWrite, rxRead, framesReceived, framesDropped, bufferOverruns, batch,
             first, seen, owed>>
udpHistory == <<first, seen>>
rxVars == <<rxRing, rxWrite, rxRead>>
counters == <<framesReceived, framesDropped, bufferOverruns>>

NoSequence == -1

UdpInit ==
  /\ packetsSent = 0 /\ framesGone = 0 /\ sendFailures = 0
  /\ inFlight = {} /\ repeats = 0
  /\ lastSequence = NoSequence /\ filling = <<>>
  /\ rxRing = [p \in 0..RxCapacity-1 |-> 0] /\ rxWrite = 0 /\ rxRead = 0
  /\ framesReceived = 0 /\ framesDropped = 0 /\ bufferOverruns = 0
  /\ batch = <<>>
  /\ first = NoSequence /\ seen = {} /\ owed = <<>>

----------------------------------------------------------------------------
(* The twin.                                                               *)

\* Frames n+1 to n+k of the stream.
FramesAfter(n, k) == [i \in 1..k |-> n + i]

\* writeBatch(): the header carries the number of packets sent before this one.
WriteBatch(k) ==
  /\ packetsSent < MaxPackets
  /\ inFlight' = inFlight \cup {[seq |-> packetsSent % SeqMod,
                                 frames |-> FramesAfter(framesGone, k)]}
  /\ packetsSent' = packetsSent + 1
  /\ framesGone' = framesGone + k
  /\ UNCHANGED <<sendFailures, repeats, lastSequence, filling, rxVars, counters, batch,
                 udpHistory, owed>>

\* sendto() fails: the frames are gone from the twin's ring, and no number is used up.
WriteBatchFails(k) ==
  /\ sendFailures < MaxFailures
  /\ framesGone' = framesGone + k
  /\ sendFailures' = sendFailures + 1
  /\ UNCHANGED <<packetsSent, inFlight, repeats, lastSequence, filling, rxVars, counters, batch,
                 udpHistory, owed>>

----------------------------------------------------------------------------
(* The network.                                                            *)

Lose(p) ==
  /\ inFlight' = inFlight \ {p}
  /\ UNCHANGED <<packetsSent, framesGone, sendFailures, repeats, lastSequence, filling, rxVars,
                 counters, batch, udpHistory, owed>>

----------------------------------------------------------------------------
(* The receive thread.                                                     *)

Expected == (lastSequence + 1) % SeqMod

\* A plausible slip: the very packet expected next is taken for one after a gap of one, and
\* a gap of one for none.
GapOfOld(p) ==
  IF lastSequence # NoSequence /\ p.seq > Expected + 1
  THEN (p.seq - Expected) * Len(p.frames) ELSE 0

\* What the gap before a packet adds to the count of dropped frames: the packets missing,
\* each taken to have been as long as this one.  A packet older than expected adds nothing.
GapOf(p) ==
  IF lastSequence # NoSequence /\ p.seq > Expected
  THEN (p.seq - Expected) * Len(p.frames) ELSE 0

\* receiveLoop() up to the loop over the frames.  Any packet on the network may come next,
\* and the network may keep a copy of it.
Receive(p) ==
  /\ filling = <<>>
  /\ framesDropped' = framesDropped + GapOf(p)
  /\ lastSequence' = p.seq
  /\ filling' = p.frames
  /\ seen' = seen \cup {p.seq}
  /\ first' = IF seen = {} THEN p.seq ELSE first
  /\ \/ inFlight' = inFlight \ {p} /\ UNCHANGED repeats
     \/ repeats < MaxRepeats /\ repeats' = repeats + 1 /\ UNCHANGED inFlight
  /\ UNCHANGED <<packetsSent, framesGone, sendFailures, rxVars, framesReceived, bufferOverruns,
                 batch, owed>>

\* One turn of that loop: the ring holds one frame less than its size.
StoreFrame ==
  /\ filling # <<>>
  /\ LET next == (rxWrite + 1) % RxCapacity
     IN IF next = rxRead
        THEN /\ bufferOverruns' = bufferOverruns + 1
             /\ UNCHANGED <<rxRing, rxWrite, framesReceived, owed>>
        ELSE /\ rxRing' = [rxRing EXCEPT ![rxWrite] = Head(filling)]
             /\ rxWrite' = next
             /\ framesReceived' = framesReceived + 1
             /\ owed' = Append(owed, Head(filling))
             /\ UNCHANGED bufferOverruns
  /\ filling' = Tail(filling)
  /\ UNCHANGED <<packetsSent, framesGone, sendFailures, inFlight, repeats, lastSequence, rxRead,
                 framesDropped, batch, udpHistory>>

----------------------------------------------------------------------------
(* The DSP thread.                                                         *)

\* read(), called by pollFrames() as long as there are frames and room in the batch.
ReadFrame ==
  /\ rxRead # rxWrite /\ Len(batch) < PollMax
  /\ batch' = Append(batch, rxRing[rxRead])
  /\ rxRead' = (rxRead + 1) % RxCapacity
  /\ UNCHANGED <<packetsSent, framesGone, sendFailures, inFlight, repeats, lastSequence, filling,
                 rxRing, rxWrite, counters, udpHistory, owed>>

\* The batch is complete: the callback runs over it, and the next one starts empty.
HandOver ==
  /\ batch # <<>>
  /\ rxRead = rxWrite \/ Len(batch) = PollMax
  /\ owed' = SubSeq(owed, Len(batch) + 1, Len(owed))
  /\ batch' = <<>>
  /\ UNCHANGED <<packetsSent, framesGone, sendFailures, inFlight, repeats, lastSequence, filling,
                 rxVars, counters, udpHistory>>

Network == \E p \in inFlight : Lose(p) \/ Receive(p)
UdpNext ==
  \/ \E k \in PacketSizes : WriteBatch(k) \/ WriteBatchFails(k)
  \/ Network
  \/ StoreFrame \/ ReadFrame \/ HandOver

UdpSpec == UdpInit /\ [][UdpNext]_udpVars

----------------------------------------------------------------------------

\* What available() returns, and the frames it stands for.
RxFill == (rxWrite - rxRead) % RxCapacity
RxContent == [i \in 1..RxFill |-> rxRing[(rxRead + i - 1) % RxCapacity]]

\* The packets newer than the first received and older than the newest that never came.
Missing == {s \in 0..packetsSent \ seen : first < s /\ \E later \in seen : s < later}

\* The statistics of the stream are honest however packets are lost, repeated and reordered:
\* each packet missing after the first that came is counted as at least one dropped frame
\* (UDPStreamClient.cpp's arithmetic with lastSequence, which a late packet moves back).
LossNeverHidden == framesDropped >= Cardinality(Missing)

\* The receive ring between the two threads neither invents, repeats, reorders nor forgets a
\* frame: what waits in the batch and what is in the ring are the frames counted as received
\* and not yet given to the callback, in the order of their arrival.
RingDelivers == batch \o RxContent = owed

\* Both, for the run.
StreamAccounted == LossNeverHidden /\ RingDelivers
=============================================================================
