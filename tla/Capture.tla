------------------------------ MODULE Capture ------------------------------
(***************************************************************************)
(* OSDCapture of the firmware: the DMA fills the two halves of a buffer in *)
(* turn and its interrupt wakes the pump thread through a binary           *)
(* semaphore; the pump makes one packet of each half.  The main thread     *)
(* starts and stops the stream and switches the projection.                *)
(*                                                                         *)
(* One processor: the interrupt comes between any two steps; the pump is   *)
(* cooperative, so the main thread moves only when the pump has nothing to *)
(* do, but may be interrupted between any two of its own assignments.      *)
(*                                                                         *)
(* captured counts the halves the DMA has completed; half number n is kept *)
(* in buffer n % 2.  packets are those made since the last START.  The     *)
(* phasor is counted in steps of 12 kHz at 384 kHz: Turn of them are one   *)
(* turn.                                                                   *)
(***************************************************************************)
EXTENDS Integers, Sequences

CONSTANTS
  SamplesPerHalf,  \* OSDCapture.hpp:12: 384
  Turn,            \* 384 kHz / 12 kHz
  MaxHalves,       \* bound on the halves captured
  MaxOrders        \* bound on the main thread's calls

ASSUME CaptureAssumption == /\ SamplesPerHalf \in Nat \ {0} /\ Turn \in Nat \ {0}
                            /\ MaxHalves \in Nat /\ MaxOrders \in Nat
\* A half is a whole number of the phasor's turns.
ASSUME WholeTurns == SamplesPerHalf % Turn = 0

VARIABLES
  stream,     \* streamingActive, currentSequence, fourPhaseMode, and the phasor's turn
  interrupt,  \* activeHalf and the semaphore dataReadySem
  captured,   \* halves the DMA has completed
  pump,       \* where the pump thread is, and the half it works on
  caller,     \* where the main thread is in start(), and how often it was called
  packets,    \* what the packets since the last START carry
  since,      \* captured when the last START began
  lagged      \* has the interrupt ever found the pump at work, or a half still waiting?

captureVars == <<stream, interrupt, captured, pump, caller, packets, since, lagged>>

CaptureInit ==
  /\ stream = [on |-> FALSE, sequence |-> 0, fourPhase |-> FALSE, turn |-> 0]
  /\ interrupt = [half |-> 0, token |-> 0]
  /\ captured = 0
  /\ pump = [at |-> "wait"]
  /\ caller = [at |-> "idle", orders |-> 0]
  /\ packets = <<>> /\ since = 0 /\ lagged = FALSE

----------------------------------------------------------------------------
\* onDMABufferComplete(): outside a stream the interrupt says nothing.  The half after this one is
\* being filled from now on, so a pump still at work on it reads a mixture.
DMABufferComplete ==
  /\ captured < MaxHalves
  /\ captured' = captured + 1
  /\ interrupt' = IF stream.on THEN [half |-> captured' % 2, token |-> 1] ELSE interrupt
  /\ pump' = IF pump.at = "process" THEN [pump EXCEPT !.torn = TRUE] ELSE pump
  /\ lagged' = (lagged \/ pump.at # "wait" \/ interrupt.token = 1)
  /\ UNCHANGED <<stream, caller, packets, since>>

\* k_sem_take() returns ...
TakeToken ==
  /\ pump.at = "wait" /\ interrupt.token = 1
  /\ pump' = [at |-> "awake"]
  /\ interrupt' = [interrupt EXCEPT !.token = 0]
  /\ UNCHANGED <<stream, captured, caller, packets, since, lagged>>

\* ... and the pump reads streamingActive and activeHalf.
TakeHalf ==
  /\ pump.at = "awake"
  /\ pump' = IF stream.on THEN [at |-> "process", torn |-> FALSE,
                                capture |-> IF captured % 2 = interrupt.half THEN captured ELSE captured - 1]
             ELSE [at |-> "wait"]
  /\ UNCHANGED <<stream, interrupt, captured, caller, packets, since, lagged>>

\* The phasor after a half: one step for each sample.
AdvancedPhasor(turn) == (turn + SamplesPerHalf) % Turn

\* processHalf(): the packet, with the next sequence number.  USBManager::submitBulkIn() copies it to
\* a buffer and frees the buffer.
ProcessHalf ==
  /\ pump.at = "process"
  /\ packets' = Append(packets, [sequence |-> stream.sequence, turn |-> stream.turn,
                                 capture |-> pump.capture, torn |-> pump.torn])
  /\ stream' = [stream EXCEPT !.sequence = @ + 1, !.turn = AdvancedPhasor(@)]
  /\ pump' = [at |-> "wait"]
  /\ UNCHANGED <<interrupt, captured, caller, since, lagged>>

----------------------------------------------------------------------------
\* A plausible slip: a pump that main() can preempt.
MainRunsBesidePump == TRUE

\* init() makes the pump a cooperative thread: the main thread has the processor only while the pump
\* waits for a half and none is there.
MainMayRun == pump.at = "wait" /\ interrupt.token = 0

Ordered == [caller EXCEPT !.orders = @ + 1]

\* start(), assignment by assignment.
StartNumbering ==
  /\ MainMayRun /\ caller.at = "idle" /\ caller.orders < MaxOrders
  /\ stream' = [stream EXCEPT !.sequence = 0]
  /\ caller' = [Ordered EXCEPT !.at = "numbered"]
  /\ packets' = <<>> /\ since' = captured
  /\ UNCHANGED <<interrupt, captured, pump, lagged>>

StartPhasor ==
  /\ MainMayRun /\ caller.at = "numbered"
  /\ stream' = [stream EXCEPT !.turn = 0]
  /\ caller' = [caller EXCEPT !.at = "rewound"]
  /\ UNCHANGED <<interrupt, captured, pump, packets, since, lagged>>

StartStreaming ==
  /\ MainMayRun /\ caller.at = "rewound"
  /\ stream' = [stream EXCEPT !.on = TRUE]
  /\ caller' = [caller EXCEPT !.at = "idle"]
  /\ UNCHANGED <<interrupt, captured, pump, packets, since, lagged>>

StopStreaming ==
  /\ MainMayRun /\ caller.at = "idle" /\ caller.orders < MaxOrders
  /\ stream' = [stream EXCEPT !.on = FALSE]
  /\ caller' = Ordered
  /\ UNCHANGED <<interrupt, captured, pump, packets, since, lagged>>

SetFourPhaseMode ==
  /\ MainMayRun /\ caller.at = "idle" /\ caller.orders < MaxOrders
  /\ stream' = [stream EXCEPT !.fourPhase = ~@]
  /\ caller' = Ordered
  /\ UNCHANGED <<interrupt, captured, pump, packets, since, lagged>>

CaptureNext ==
  \/ DMABufferComplete \/ TakeToken \/ TakeHalf \/ ProcessHalf
  \/ StartNumbering \/ StartPhasor \/ StartStreaming \/ StopStreaming \/ SetFourPhaseMode

CaptureSpec == CaptureInit /\ [][CaptureNext]_captureVars

----------------------------------------------------------------------------
\* Packets are numbered from nought without a gap since the START, even one in the middle of a stream.
Numbered == \A i \in 1..Len(packets) : packets[i].sequence = i - 1

\* No packet carries a half from before its START, and none is made once a STOP is through.
OfThisStream ==
  /\ \A i \in 1..Len(packets) : packets[i].capture > since
  /\ pump.at = "process" => stream.on

\* The phasor of each packet goes on where the one before left off, though START sets it back.
PhasorContinues ==
  \A i \in 1..Len(packets) - 1 : packets[i + 1].turn = (packets[i].turn + SamplesPerHalf) % Turn

\* Halves come in their order; and while the pump keeps up, whole, each once.
EachHalfOnce ==
  \A i \in 1..Len(packets) - 1 :
    /\ packets[i + 1].capture >= packets[i].capture
    /\ ~lagged => packets[i + 1].capture = packets[i].capture + 1 /\ ~packets[i].torn

CaptureRight == Numbered /\ OfThisStream /\ PhasorContinues /\ EachHalfOnce
=============================================================================
