---------------------------- MODULE TwinSession -----------------------------
(***************************************************************************)
(* A streaming session of the digital twin.  Three threads share one       *)
(* ControlHandler, one frame ring and one SamplePacer, all of them created *)
(* when a control client is accepted and destroyed when its session ends:  *)
(*                                                                         *)
(*   the session loop   SignalGen.cpp, runFunctionalMode()                 *)
(*   the pacer          SamplePacer.hpp, pacerLoop()                       *)
(*   the worker         ControlHandler.cpp, run()                          *)
(*                                                                         *)
(* The unit of data is one batch of the session loop (3840 frames, 10 ms), *)
(* which is also what the pacer takes from the ring per tick.  The ring is *)
(* the bounded FIFO of FrameFifo, which RingBuffer implements as long as   *)
(* clear() is never called while the pacer reads: the invariant            *)
(* NoOrphanThread keeps that side of the bargain.  The simulated signal,   *)
(* the statistics and the timing of ticks are left out.                    *)
(***************************************************************************)
EXTENDS Sequences, Integers

CONSTANTS RingCapacity,   \* RING_CAPACITY (65536 frames), in batches
          HighWatermark,  \* HIGH_WATERMARK (19200 frames), in batches
          Tick,           \* samplesPerTick, in batches
          SeqCap,         \* bound: batches are told apart up to this number
          MaxPending      \* bound: requests in flight on the control connection

ASSUME SessionAssumption ==
  /\ RingCapacity \in Nat /\ HighWatermark \in Nat /\ Tick \in Nat /\ SeqCap \in Nat
  /\ 0 < HighWatermark /\ HighWatermark <= RingCapacity /\ 0 < Tick /\ 0 < SeqCap
  /\ MaxPending \in Nat

VARIABLES
  loop,        \* where the session loop is
  outputSample,\* number of the next batch, from SignalGen's sample count
  timed,       \* the twin was started with --duration, --timeout or --single-session: one
               \* flag that allows what each of them does, so more than any one of them does
  ring,        \* frameRing: the batches written and not yet read
  pacer,       \* where the pacer thread is, "none" when there is no thread
  scratch,     \* readScratch: batches taken from the ring and not yet sent
  pacerRunning,\* SamplePacer::running
  stopRequested,\* SamplePacer::stopRequested
  worker,      \* where the worker thread is, "none" when there is no thread
  running, connected, streaming,   \* the flags of ControlHandler
  conn,        \* connFd: "none" (-1), "stalled" (-1, and errno still EAGAIN), "open",
               \* "eof" once the client has hung up, "lost" once it is gone without a word
  pending,     \* how many requests the kernel has received and the worker has not
  streamOpen,  \* the UDP transport of the session is connected
  \* History variables, none of which the code has.
  expect,      \* number of the next batch the network should see
  lost,        \* a batch of this stream found the ring full
  bypass       \* times this stream's loop left the wait for space because of a STOP

loopVars == <<loop, outputSample, timed>>
pacerVars == <<pacer, scratch>>
pacerFlags == <<pacerRunning, stopRequested>>
handlerVars == <<worker, running, connected, streaming>>
linkVars == <<conn, pending>>
ghosts == <<expect, lost, bypass>>
vars == <<loopVars, ring, pacerVars, pacerFlags, handlerVars, linkVars, streamOpen, ghosts>>

\* The requests that matter here: the flags of ControlHandler are all the others share.
Request == {"START", "STOP", "GBYE"}

\* The number of the batch k after batch n.
Following(n, k) == IF n + k < SeqCap THEN n + k ELSE SeqCap

\* From SignalGen.cpp:359, with the control port bound and nobody connected yet.
Init ==
  /\ loop = "accept" /\ outputSample = 0 /\ timed \in BOOLEAN
  /\ ring = <<>>
  /\ pacer = "none" /\ scratch = <<>>
  /\ pacerRunning = FALSE /\ stopRequested = FALSE
  /\ worker = "none" /\ running = FALSE /\ connected = FALSE /\ streaming = FALSE
  /\ conn = "none" /\ pending = 0
  /\ streamOpen = FALSE
  /\ expect = 0 /\ lost = FALSE /\ bypass = 0

----------------------------------------------------------------------------
(* The control client, the program's environment.                          *)

\* Only the worker looks at a request, so which one it is is chosen when it does.
ClientRequests ==
  /\ conn = "open" /\ pending < MaxPending
  /\ pending' = pending + 1
  /\ UNCHANGED <<loopVars, ring, pacerVars, pacerFlags, handlerVars, conn,
                 streamOpen, ghosts>>

ClientHangsUp ==
  /\ conn = "open"
  /\ conn' = "eof"
  /\ UNCHANGED <<loopVars, ring, pacerVars, pacerFlags, handlerVars, pending,
                 streamOpen, ghosts>>

\* The client's machine or the network goes down: no FIN and no RST ever arrive.
ClientVanishes ==
  /\ conn = "open"
  /\ conn' = "lost"
  /\ UNCHANGED <<loopVars, ring, pacerVars, pacerFlags, handlerVars, pending,
                 streamOpen, ghosts>>

Client == \/ ClientRequests \/ ClientHangsUp \/ ClientVanishes

----------------------------------------------------------------------------
(* The worker: ControlHandler::run().                                      *)

\* while (running)
WorkerChecks ==
  /\ worker = "check"
  /\ worker' = IF running THEN "receive" ELSE "exited"
  /\ UNCHANGED <<loopVars, ring, pacerVars, pacerFlags, running, connected, streaming,
                 linkVars, streamOpen, ghosts>>

\* Where an answer leaves the connection.  One to a client that has hung up may fail, one
\* to a client that does not read may time out, and the transport then closes the socket;
\* one to a client that is gone is never acknowledged, which the kernel reports in the end.
AfterReply(c) == CASE c = "open" -> {"open", "stalled"}
                   [] c = "eof"  -> {"eof", "none"}
                   [] c = "lost" -> {"eof"}

\* A request is received, handled and answered.
WorkerHandles(r) ==
  /\ worker = "receive" /\ pending > 0
  /\ streaming' = CASE r = "START" -> TRUE [] r = "STOP" -> FALSE [] OTHER -> streaming
  /\ connected' = (connected /\ r # "GBYE")
  /\ conn' \in AfterReply(conn)
  /\ pending' = IF conn' \in {"none", "stalled"} THEN 0 ELSE pending - 1
  /\ worker' = "check"
  /\ UNCHANGED <<loopVars, ring, pacerVars, pacerFlags, running, streamOpen, ghosts>>

\* No request within 100 ms; or the socket is closed already, and receiveMessage() returns
\* with the errno of the send that timed out, which reads as one more timeout.
WorkerTimesOut ==
  /\ worker = "receive" /\ conn \in {"open", "lost", "stalled"} /\ pending = 0
  /\ worker' = "check"
  /\ UNCHANGED <<loopVars, ring, pacerVars, pacerFlags, running, connected, streaming,
                 linkVars, streamOpen, ghosts>>

\* A plausible slip: the flag that ends the session is left set when the client vanishes.
WorkerForgetsClosed ==
  /\ worker = "receive" /\ conn \in {"none", "eof"} /\ pending = 0
  /\ conn' = "none"
  /\ streaming' = FALSE
  /\ worker' = "check"
  /\ UNCHANGED <<loopVars, ring, pacerVars, pacerFlags, running, connected, pending,
                 streamOpen, ghosts>>

\* The client has hung up, or the socket is already closed: the session is over.
WorkerSeesClosed ==
  /\ worker = "receive" /\ conn \in {"none", "eof"} /\ pending = 0
  /\ conn' = "none"
  /\ connected' = FALSE
  /\ streaming' = (streaming /\ ~connected)
  /\ worker' = "check"
  /\ UNCHANGED <<loopVars, ring, pacerVars, pacerFlags, running, pending,
                 streamOpen, ghosts>>

Worker == WorkerChecks \/ (\E r \in Request : WorkerHandles(r)) \/ WorkerTimesOut \/ WorkerSeesClosed

----------------------------------------------------------------------------
(* The pacer: SamplePacer::pacerLoop().                                    *)

\* while (!stopRequested), then sleep until the next deadline.
PacerTick ==
  /\ pacer = "tick"
  /\ pacer' = IF stopRequested THEN "exited" ELSE "read"
  /\ UNCHANGED <<loopVars, ring, scratch, pacerFlags, handlerVars, linkVars, streamOpen, ghosts>>

\* frameRing.read(): up to a tick's worth of batches, possibly none.
PacerRead ==
  /\ pacer = "read"
  /\ LET n == IF Len(ring) < Tick THEN Len(ring) ELSE Tick IN
       /\ scratch' = SubSeq(ring, 1, n)
       /\ ring' = SubSeq(ring, n + 1, Len(ring))
       /\ pacer' = IF n = 0 THEN "tick" ELSE "send"
  /\ UNCHANGED <<loopVars, pacerFlags, handlerVars, linkVars, streamOpen, ghosts>>

\* transport->writeBatch(), one batch of packets after the other.
PacerSend ==
  /\ pacer = "send"
  /\ expect' = Following(Head(scratch), 1)
  /\ scratch' = Tail(scratch)
  /\ pacer' = IF Len(scratch) = 1 THEN "tick" ELSE "send"
  /\ UNCHANGED <<loopVars, ring, pacerFlags, handlerVars, linkVars, streamOpen,
                 lost, bypass>>

Pacer == PacerTick \/ PacerRead \/ PacerSend

----------------------------------------------------------------------------
(* The session loop.                                                       *)

\* Enough early returns from the wait for space to overflow the ring: the count stops here.
BypassBound == RingCapacity - HighWatermark + 1

\* An empty ring, batches numbered from 0.
FreshStream ==
  /\ outputSample' = 0 /\ ring' = <<>>
  /\ expect' = 0 /\ lost' = FALSE /\ bypass' = 0

\* acceptClient(), then a new transport, handler, ring and pacer, and the worker's start.
\* (A client for whom the UDP transport cannot be set up is dropped: nothing changes.)
Accept ==
  /\ loop = "accept"
  /\ conn' = "open"
  /\ streamOpen' = TRUE
  /\ running' = TRUE /\ connected' = TRUE /\ worker' = "check"
  /\ loop' = "top"
  /\ UNCHANGED <<outputSample, timed, ring, pacerVars, pacerFlags, streaming, pending, ghosts>>

\* --timeout elapses with nobody connected.
AcceptGivesUp ==
  /\ loop = "accept" /\ timed
  /\ loop' = "exit"
  /\ UNCHANGED <<outputSample, timed, ring, pacerVars, pacerFlags, handlerVars, linkVars,
                 streamOpen, ghosts>>

\* while (isConnected()), and the breaks on --duration and --timeout.
LoopTop ==
  /\ loop = "top"
  /\ \/ /\ loop' = IF connected THEN "gate" ELSE "endPacer"
     \/ /\ timed /\ connected
        /\ loop' = "endPacer"
  /\ UNCHANGED <<outputSample, timed, ring, pacerVars, pacerFlags, handlerVars, linkVars,
                 streamOpen, ghosts>>

\* A plausible slip: a stop leaves the pacer to drain the ring by itself.
LoopGateNoStop ==
  /\ loop = "gate"
  /\ loop' = IF streaming THEN "space" ELSE "top"
  /\ UNCHANGED <<outputSample, timed, ring, pacerVars, pacerFlags, handlerVars, linkVars,
                 streamOpen, ghosts>>

\* if (!isStreaming()): stop a running pacer first, then idle for 10 ms.
LoopGate ==
  /\ loop = "gate"
  /\ IF streaming
     THEN /\ loop' = "space"
          /\ UNCHANGED <<outputSample, stopRequested>>
     ELSE IF pacerRunning
          THEN /\ stopRequested' = TRUE /\ loop' = "halt"
               /\ UNCHANGED outputSample
          ELSE /\ outputSample' = 0 /\ loop' = "top"
               /\ UNCHANGED stopRequested
  /\ UNCHANGED <<timed, ring, pacerVars, pacerRunning, handlerVars, linkVars,
                 streamOpen, ghosts>>

\* pacer.stop() joins the thread before it clears running.
JoinPacer(next) ==
  /\ pacer = "exited"
  /\ pacer' = "none" /\ pacerRunning' = FALSE
  /\ loop' = next

LoopHalt ==
  /\ loop = "halt"
  /\ JoinPacer("clear")
  /\ UNCHANGED <<outputSample, timed, ring, scratch, stopRequested, handlerVars, linkVars,
                 streamOpen, ghosts>>

\* A plausible slip: the frames of the stopped stream stay in the ring.
LoopClearForgetsRing ==
  /\ loop = "clear"
  /\ outputSample' = 0 /\ expect' = 0 /\ lost' = FALSE /\ bypass' = 0
  /\ loop' = "top"
  /\ UNCHANGED <<timed, ring, pacerVars, pacerFlags, handlerVars, linkVars, streamOpen>>

\* frameRing.clear(), and the batch counter restarts.
LoopClear ==
  /\ loop = "clear"
  /\ FreshStream
  /\ loop' = "top"
  /\ UNCHANGED <<timed, pacerVars, pacerFlags, handlerVars, linkVars, streamOpen>>

\* A plausible slip: the watermark is compared with the wrong bound.
LoopSpaceIgnoresWatermark ==
  /\ loop = "space"
  /\ loop' = "emit"
  /\ UNCHANGED <<outputSample, timed, ring, pacerVars, pacerFlags, handlerVars, linkVars,
                 streamOpen, ghosts>>

\* while (available() >= HIGH_WATERMARK) waitForSpace(), left early once streaming stops.
\* The wait returns every 5 ms, so a missed notification only delays it.
LoopSpace ==
  /\ loop = "space"
  /\ \/ Len(ring) < HighWatermark /\ UNCHANGED bypass
     \/ /\ Len(ring) >= HighWatermark /\ ~streaming
        /\ bypass' = IF bypass = BypassBound THEN bypass ELSE bypass + 1
  /\ loop' = "emit"
  /\ UNCHANGED <<outputSample, timed, ring, pacerVars, pacerFlags, handlerVars, linkVars,
                 streamOpen, expect, lost>>

\* A plausible slip: the ring accepts a batch when it is full.
LoopEmitUnbounded ==
  /\ loop = "emit"
  /\ ring' = Append(ring, outputSample)
  /\ outputSample' = Following(outputSample, 1)
  /\ loop' = "start"
  /\ UNCHANGED <<timed, pacerVars, pacerFlags, handlerVars, linkVars, streamOpen, ghosts>>

\* The batch is computed and written; what frameRing.write() refuses is dropped silently.
LoopEmit ==
  /\ loop = "emit"
  /\ IF Len(ring) < RingCapacity
     THEN /\ ring' = Append(ring, outputSample)
          /\ UNCHANGED lost
     ELSE /\ lost' = TRUE
          /\ UNCHANGED ring
  /\ outputSample' = Following(outputSample, 1)
  /\ loop' = "start"
  /\ UNCHANGED <<timed, pacerVars, pacerFlags, handlerVars, linkVars, streamOpen,
                 expect, bypass>>

\* A plausible slip: start() leaves the stop request of the previous run in place.
LoopStartStaleStop ==
  /\ loop = "start"
  /\ pacerRunning' = TRUE
  /\ pacer' = IF pacerRunning THEN pacer ELSE "tick"
  /\ loop' = "top"
  /\ UNCHANGED <<outputSample, timed, ring, scratch, stopRequested, handlerVars, linkVars,
                 streamOpen, ghosts>>

\* if (!pacer.isRunning()) pacer.start()
LoopStart ==
  /\ loop = "start"
  /\ IF pacerRunning
     THEN UNCHANGED <<pacer, pacerFlags>>
     ELSE pacer' = "tick" /\ pacerRunning' = TRUE /\ stopRequested' = FALSE
  /\ loop' = "top"
  /\ UNCHANGED <<outputSample, timed, ring, scratch, handlerVars, linkVars, streamOpen, ghosts>>

\* "Session ended": pacer.stop() ...
EndPacer ==
  /\ loop = "endPacer"
  /\ stopRequested' = (stopRequested \/ pacerRunning)
  /\ loop' = IF pacerRunning THEN "endJoin" ELSE "endWorker"
  /\ UNCHANGED <<outputSample, timed, ring, pacerVars, pacerRunning, handlerVars, linkVars,
                 streamOpen, ghosts>>

\* A plausible slip: the pacer is told to stop and never joined.
EndJoinSkipped ==
  /\ loop = "endJoin"
  /\ loop' = "endWorker" /\ pacerRunning' = FALSE
  /\ UNCHANGED <<outputSample, timed, ring, pacerVars, stopRequested, handlerVars, linkVars,
                 streamOpen, ghosts>>

EndJoin ==
  /\ loop = "endJoin"
  /\ JoinPacer("endWorker")
  /\ UNCHANGED <<outputSample, timed, ring, scratch, stopRequested, handlerVars, linkVars,
                 streamOpen, ghosts>>

\* ... controlHandler->stop() ...
EndWorker ==
  /\ loop = "endWorker"
  /\ running' = FALSE
  /\ loop' = "endWorkerJoin"
  /\ UNCHANGED <<outputSample, timed, ring, pacerVars, pacerFlags, worker, connected,
                 streaming, linkVars, streamOpen, ghosts>>

EndWorkerJoin ==
  /\ loop = "endWorkerJoin" /\ worker = "exited"
  /\ worker' = "none"
  /\ loop' = "close"
  /\ UNCHANGED <<outputSample, timed, ring, pacerVars, pacerFlags, running, connected,
                 streaming, linkVars, streamOpen, ghosts>>

\* ... stream->disconnect(), control->closeConnection(), and the next client, or the end of
\* a timed run.  The handler, the ring and the pacer are destroyed with their state.
EndClose ==
  /\ loop = "close"
  /\ streamOpen' = FALSE
  /\ conn' = "none" /\ pending' = 0
  /\ connected' = FALSE /\ streaming' = FALSE /\ stopRequested' = FALSE
  /\ FreshStream
  /\ loop' = IF timed THEN "exit" ELSE "accept"
  /\ UNCHANGED <<timed, pacerVars, pacerRunning, worker, running>>

\* The session loop with a client, and without one.
Session == \/ LoopTop \/ LoopGate \/ LoopHalt \/ LoopClear
           \/ LoopSpace \/ LoopEmit \/ LoopStart
           \/ EndPacer \/ EndJoin \/ EndWorker \/ EndWorkerJoin \/ EndClose

Waiting == Accept \/ AcceptGivesUp

----------------------------------------------------------------------------

Next == Client \/ Worker \/ Pacer \/ Waiting \/ Session

\* The three threads are scheduled by the operating system, and every wait in them has a
\* timeout or ends with another thread's exit; clients owe the twin nothing, not even to come.
Fairness == WF_vars(Worker) /\ WF_vars(Pacer) /\ WF_vars(Session)

Spec == Init /\ [][Next]_vars /\ Fairness

----------------------------------------------------------------------------
(* Properties.                                                             *)

Batch == 0 .. SeqCap

InFlight == scratch \o ring

\* Types, and the ring's capacity.
TypeOK ==
  /\ loop \in {"accept", "top", "gate", "halt", "clear", "space", "emit", "start", "endPacer",
               "endJoin", "endWorker", "endWorkerJoin", "close", "exit"}
  /\ outputSample \in 0 .. SeqCap /\ timed \in BOOLEAN
  /\ ring \in Seq(Batch) /\ Len(ring) <= RingCapacity
  /\ pacer \in {"none", "tick", "read", "send", "exited"}
  /\ scratch \in Seq(Batch) /\ Len(scratch) <= Tick
  /\ pacerRunning \in BOOLEAN /\ stopRequested \in BOOLEAN
  /\ worker \in {"none", "check", "receive", "exited"}
  /\ running \in BOOLEAN /\ connected \in BOOLEAN /\ streaming \in BOOLEAN
  /\ conn \in {"none", "stalled", "open", "eof", "lost"}
  /\ pending \in 0 .. MaxPending
  /\ streamOpen \in BOOLEAN
  /\ expect \in 0 .. SeqCap /\ lost \in BOOLEAN
  /\ bypass \in 0 .. BypassBound

\* What is in flight, in the pacer's hands and in the ring, is exactly the batches from the
\* next one the network expects to the last one computed, in order: nothing is skipped,
\* repeated or renumbered, unless the ring has overflowed in this stream.
StreamContiguous ==
  ~lost => /\ outputSample = Following(expect, Len(InFlight))
           /\ \A i \in 1 .. Len(InFlight) : InFlight[i] = Following(expect, i - 1)

\* The result of frameRing.write() is ignored (SignalGen.cpp:806).  The ring can overflow
\* only because the wait for space was left early for a STOP that a START overtook before
\* the loop looked, as many times as there are batches between watermark and capacity.
LossNeedsToggles == lost => bypass = BypassBound

\* The pacer uses the session's ring and transport, and the worker its handler and socket:
\* neither thread outlives them, and the ring is cleared only with no reader around.
NoOrphanThread ==
  /\ loop \in {"accept", "exit", "clear"} => pacer = "none"
  /\ loop \in {"accept", "exit"} => worker = "none"
  /\ pacer = "send" => streamOpen

\* A STOP is honoured: with streaming off, the pacer's thread ends (and with it the flow of
\* packets) unless streaming is switched on again.
StopSilences == ~streaming ~> (pacer = "none" \/ streaming)

\* A client that says GBYE, hangs up, or on whom an answer has found the connection broken
\* does not keep the twin: the session loop gets back to accepting, or exits.  So it does for
\* one that is gone without a word and has a request to be answered; gone with none ("lost",
\* see HalfOpenDetected), or not reading its answers ("stalled"), a client keeps the twin.
Leaving == ~connected \/ conn \in {"none", "eof"} \/ (conn = "lost" /\ pending > 0)

SessionEnds == Leaving ~> (loop \in {"accept", "exit"})

\* A client that is gone without a word is noticed: "Set keep-alive or timeout to detect
\* half-open connections" (TCPControlTransport.cpp:102).  It is not: every receiveRequest()
\* replaces that timeout by its own, whose expiry is taken for a quiet client.
HalfOpenDetected == (conn = "lost") ~> (conn # "lost")

\* While a client streams, packets keep flowing: the watermark wait, the ring and the pacer
\* never wait for one another for ever.
StreamFlows ==
  (loop = "space") ~> (pacer = "send" \/ ~streaming \/ ~connected \/ loop = "exit")
=============================================================================
