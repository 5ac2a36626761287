------------------------- MODULE TwinSessionProofs --------------------------
(***************************************************************************)
(* The streaming session of TwinSession.tla for every capacity, watermark  *)
(* and tick: no thread outlives what it uses, the stream has no gap until  *)
(* the ring overflows, and the ring overflows only after enough overtaken  *)
(* STOPs.                                                                  *)
(***************************************************************************)
EXTENDS TwinSession, TLAPS

\* Where the session loop can be with the pacer's thread alive.
PacerPlaces == {"top", "gate", "halt", "space", "emit", "start", "endPacer", "endJoin"}

\* Where nothing of a stream is left if there is no pacer: only the first batch after an idle
\* spell is in the ring before its pacer runs, and then the loop is at "start".
IdlePlaces == {"accept", "exit", "top", "gate", "space", "emit"}

\* The flags say where the threads are, and each place of the loop which of them there can be.
ThreadInv ==
  /\ pacerRunning <=> pacer # "none"
  /\ pacerRunning => loop \in PacerPlaces
  /\ loop \in {"halt", "endJoin"} => pacerRunning
  /\ loop \in {"accept", "exit", "close"} => worker = "none"
  /\ streamOpen <=> loop \notin {"accept", "exit"}

\* Each early end of the wait for space lets the ring grow by one batch above the watermark.
RoomInv ==
  /\ Len(ring) <= HighWatermark + bypass
  /\ loop = "emit" => Len(ring) < HighWatermark + bypass
  /\ lost => bypass = BypassBound

\* StreamContiguous, with the two sequences apart.
OrderInv ==
  ~lost => /\ outputSample = Following(expect, Len(scratch) + Len(ring))
           /\ \A i \in 1 .. Len(scratch) : scratch[i] = Following(expect, i - 1)
           /\ \A i \in 1 .. Len(ring) : ring[i] = Following(expect, Len(scratch) + i - 1)

\* Without a pacer a stream that has not begun is as good as new.
IdleInv ==
  ~pacerRunning /\ loop \in IdlePlaces => ring = <<>> /\ outputSample = 0 /\ expect = 0

\* The Boolean half of TypeOK.
FlagsOK ==
  /\ timed \in BOOLEAN /\ pacerRunning \in BOOLEAN /\ stopRequested \in BOOLEAN
  /\ running \in BOOLEAN /\ connected \in BOOLEAN /\ streaming \in BOOLEAN
  /\ streamOpen \in BOOLEAN /\ lost \in BOOLEAN

\* Where the threads and the connection are; on a closed socket nothing is left to receive.
PlacesOK ==
  /\ loop \in {"accept", "top", "gate", "halt", "clear", "space", "emit", "start", "endPacer",
               "endJoin", "endWorker", "endWorkerJoin", "close", "exit"}
  /\ pacer \in {"none", "tick", "read", "send", "exited"}
  /\ worker \in {"none", "check", "receive", "exited"}
  /\ conn \in {"none", "stalled", "open", "eof", "lost"}
  /\ pending \in 0 .. MaxPending
  /\ conn \in {"none", "stalled"} => pending = 0

\* The batches and their numbers; the pacer holds some exactly while it sends.
DataOK ==
  /\ outputSample \in 0 .. SeqCap /\ expect \in 0 .. SeqCap /\ bypass \in 0 .. BypassBound
  /\ ring \in Seq(Batch) /\ Len(ring) <= RingCapacity
  /\ scratch \in Seq(Batch) /\ Len(scratch) <= Tick
  /\ pacer = "send" <=> Len(scratch) > 0

\* The inductive invariant: the first three are TypeOK and two facts the types rest on.
SessionInv ==
  FlagsOK /\ PlacesOK /\ DataOK /\ ThreadInv /\ RoomInv /\ OrderInv /\ IdleInv

----------------------------------------------------------------------------
(* The sequences the threads pass on.                                      *)

\* What the pacer takes and what it leaves, for a first part of n batches.
LEMMA SplitSeq ==
  ASSUME NEW S, NEW s \in Seq(S), NEW n \in 0 .. Len(s)
  PROVE  /\ SubSeq(s, 1, n) \in Seq(S) /\ Len(SubSeq(s, 1, n)) = n
         /\ \A i \in 1 .. n : SubSeq(s, 1, n)[i] = s[i]
         /\ SubSeq(s, n + 1, Len(s)) \in Seq(S) /\ Len(SubSeq(s, n + 1, Len(s))) = Len(s) - n
         /\ \A i \in 1 .. Len(s) - n : SubSeq(s, n + 1, Len(s))[i] = s[n + i]
OBVIOUS

\* A sequence without its first element.
LEMMA TailSeq ==
  ASSUME NEW S, NEW s \in Seq(S), Len(s) > 0
  PROVE  /\ Tail(s) \in Seq(S) /\ Len(Tail(s)) = Len(s) - 1
         /\ Head(s) = s[1] /\ Head(s) \in S
         /\ \A i \in 1 .. Len(s) - 1 : Tail(s)[i] = s[i + 1]
OBVIOUS

\* A sequence with one more element.
LEMMA AppendSeq ==
  ASSUME NEW S, NEW s \in Seq(S), NEW x \in S
  PROVE  /\ Append(s, x) \in Seq(S) /\ Len(Append(s, x)) = Len(s) + 1
         /\ \A i \in 1 .. Len(s) : Append(s, x)[i] = s[i]
         /\ Append(s, x)[Len(s) + 1] = x
OBVIOUS

\* Counting batches k and then m on is counting k + m on, the cap included.
LEMMA FollowingAdds ==
  ASSUME NEW n \in Batch, NEW k \in Nat, NEW m \in Nat
  PROVE  /\ Following(n, 0) = n
         /\ Following(n, k) \in Batch
         /\ Following(Following(n, k), m) = Following(n, k + m)
BY SessionAssumption DEF Following, Batch

\* A read of the pacer moves the first n batches of the ring to scratch, which was empty.
LEMMA ReadSplits ==
  ASSUME DataOK, PacerRead
  PROVE  /\ Len(scratch) = 0
         /\ \E n \in 0 .. Len(ring) :
              /\ Len(scratch') = n /\ \A i \in 1 .. n : scratch'[i] = ring[i]
              /\ Len(ring') = Len(ring) - n
              /\ \A i \in 1 .. Len(ring) - n : ring'[i] = ring[n + i]
<1>1. ring \in Seq(Batch) /\ Len(ring) \in Nat /\ Len(scratch) = 0
  BY DEF PacerRead, DataOK
<1> DEFINE m == IF Len(ring) < Tick THEN Len(ring) ELSE Tick
<1>2. scratch' = SubSeq(ring, 1, m) /\ ring' = SubSeq(ring, m + 1, Len(ring))
  BY Zenon DEF PacerRead
<1>3. m \in 0 .. Len(ring)
  BY <1>1, SessionAssumption
<1> HIDE DEF m
<1>4. /\ Len(scratch') = m /\ \A i \in 1 .. m : scratch'[i] = ring[i]
      /\ Len(ring') = Len(ring) - m
      /\ \A i \in 1 .. Len(ring) - m : ring'[i] = ring[m + i]
  BY <1>1, <1>2, <1>3, SplitSeq
<1> QED BY <1>1, <1>3, <1>4

----------------------------------------------------------------------------
(* Each part of the invariant is preserved.                                *)

\* The flags stay flags, and the places of the threads places.
LEMMA FlagStep == FlagsOK /\ [Next]_vars => FlagsOK'
<1> SUFFICES ASSUME FlagsOK, [Next]_vars PROVE FlagsOK'
  OBVIOUS
<1>1. ASSUME ClientRequests PROVE FlagsOK'
  BY <1>1, Zenon DEF ClientRequests, FlagsOK, loopVars, pacerVars, pacerFlags, handlerVars, linkVars, ghosts
<1>2. ASSUME ClientHangsUp PROVE FlagsOK'
  BY <1>2, Zenon DEF ClientHangsUp, FlagsOK, loopVars, pacerVars, pacerFlags, handlerVars, linkVars, ghosts
<1>3. ASSUME ClientVanishes PROVE FlagsOK'
  BY <1>3, Zenon DEF ClientVanishes, FlagsOK, loopVars, pacerVars, pacerFlags, handlerVars, linkVars, ghosts
<1>4. ASSUME WorkerChecks PROVE FlagsOK'
  BY <1>4, Zenon DEF WorkerChecks, FlagsOK, loopVars, pacerVars, pacerFlags, handlerVars, linkVars, ghosts
<1>5. ASSUME NEW r \in Request, WorkerHandles(r) PROVE FlagsOK'
  BY <1>5, Zenon DEF WorkerHandles, FlagsOK, AfterReply, loopVars, pacerVars, pacerFlags, handlerVars, linkVars, ghosts
<1>6. ASSUME WorkerTimesOut PROVE FlagsOK'
  BY <1>6, Zenon DEF WorkerTimesOut, FlagsOK, loopVars, pacerVars, pacerFlags, handlerVars, linkVars, ghosts
<1>7. ASSUME WorkerSeesClosed PROVE FlagsOK'
  BY <1>7, Zenon DEF WorkerSeesClosed, FlagsOK, loopVars, pacerVars, pacerFlags, handlerVars, linkVars, ghosts
<1>8. ASSUME PacerTick PROVE FlagsOK'
  BY <1>8, Zenon DEF PacerTick, FlagsOK, loopVars, pacerVars, pacerFlags, handlerVars, linkVars, ghosts
<1>9. ASSUME PacerRead PROVE FlagsOK'
  BY <1>9, Zenon DEF PacerRead, FlagsOK, loopVars, pacerVars, pacerFlags, handlerVars, linkVars, ghosts
<1>10. ASSUME PacerSend PROVE FlagsOK'
  BY <1>10, Zenon DEF PacerSend, FlagsOK, loopVars, pacerVars, pacerFlags, handlerVars, linkVars, ghosts
<1>11. ASSUME Accept PROVE FlagsOK'
  BY <1>11, Zenon DEF Accept, FlagsOK, loopVars, pacerVars, pacerFlags, handlerVars, linkVars, ghosts
<1>12. ASSUME AcceptGivesUp PROVE FlagsOK'
  BY <1>12, Zenon DEF AcceptGivesUp, FlagsOK, loopVars, pacerVars, pacerFlags, handlerVars, linkVars, ghosts
<1>13. ASSUME LoopTop PROVE FlagsOK'
  BY <1>13, Zenon DEF LoopTop, FlagsOK, loopVars, pacerVars, pacerFlags, handlerVars, linkVars, ghosts
<1>14. ASSUME LoopGate PROVE FlagsOK'
  BY <1>14, Zenon DEF LoopGate, FlagsOK, loopVars, pacerVars, pacerFlags, handlerVars, linkVars, ghosts
<1>15. ASSUME LoopHalt PROVE FlagsOK'
  BY <1>15, Zenon DEF LoopHalt, FlagsOK, JoinPacer, loopVars, pacerVars, pacerFlags, handlerVars, linkVars, ghosts
<1>16. ASSUME LoopClear PROVE FlagsOK'
  BY <1>16, Zenon DEF LoopClear, FlagsOK, FreshStream, loopVars, pacerVars, pacerFlags, handlerVars, linkVars, ghosts
<1>17. ASSUME LoopSpace PROVE FlagsOK'
  BY <1>17, Zenon DEF LoopSpace, FlagsOK, loopVars, pacerVars, pacerFlags, handlerVars, linkVars, ghosts
<1>18. ASSUME LoopEmit PROVE FlagsOK'
  BY <1>18, Zenon DEF LoopEmit, FlagsOK, loopVars, pacerVars, pacerFlags, handlerVars, linkVars, ghosts
<1>19. ASSUME LoopStart PROVE FlagsOK'
  BY <1>19, Zenon DEF LoopStart, FlagsOK, loopVars, pacerVars, pacerFlags, handlerVars, linkVars, ghosts
<1>20. ASSUME EndPacer PROVE FlagsOK'
  BY <1>20, Zenon DEF EndPacer, FlagsOK, loopVars, pacerVars, pacerFlags, handlerVars, linkVars, ghosts
<1>21. ASSUME EndJoin PROVE FlagsOK'
  BY <1>21, Zenon DEF EndJoin, FlagsOK, JoinPacer, loopVars, pacerVars, pacerFlags, handlerVars, linkVars, ghosts
<1>22. ASSUME EndWorker PROVE FlagsOK'
  BY <1>22, Zenon DEF EndWorker, FlagsOK, loopVars, pacerVars, pacerFlags, handlerVars, linkVars, ghosts
<1>23. ASSUME EndWorkerJoin PROVE FlagsOK'
  BY <1>23, Zenon DEF EndWorkerJoin, FlagsOK, loopVars, pacerVars, pacerFlags, handlerVars, linkVars, ghosts
<1>24. ASSUME EndClose PROVE FlagsOK'
  BY <1>24, Zenon DEF EndClose, FlagsOK, FreshStream, loopVars, pacerVars, pacerFlags, handlerVars, linkVars, ghosts
<1>25. CASE UNCHANGED vars
  BY <1>25, Zenon DEF FlagsOK, vars, loopVars, pacerVars, pacerFlags, handlerVars, linkVars, ghosts
<1> QED BY <1>1, <1>2, <1>3, <1>4, <1>5, <1>6, <1>7, <1>8, <1>9, <1>10, <1>11, <1>12, <1>13, <1>14, <1>15, <1>16, <1>17, <1>18, <1>19, <1>20, <1>21, <1>22, <1>23, <1>24, <1>25 DEF Next, Client, Worker, Pacer, Waiting, Session

\* So do the places of the threads and the connection.
LEMMA PlaceStep == PlacesOK /\ [Next]_vars => PlacesOK'
<1> SUFFICES ASSUME PlacesOK, [Next]_vars PROVE PlacesOK'
  OBVIOUS
<1> USE SessionAssumption
<1>1. ASSUME ClientRequests PROVE PlacesOK'
  BY <1>1 DEF ClientRequests, PlacesOK, loopVars, pacerVars, pacerFlags, handlerVars, linkVars, ghosts
<1>2. ASSUME ClientHangsUp PROVE PlacesOK'
  BY <1>2 DEF ClientHangsUp, PlacesOK, loopVars, pacerVars, pacerFlags, handlerVars, linkVars, ghosts
<1>3. ASSUME ClientVanishes PROVE PlacesOK'
  BY <1>3 DEF ClientVanishes, PlacesOK, loopVars, pacerVars, pacerFlags, handlerVars, linkVars, ghosts
<1>4. ASSUME WorkerChecks PROVE PlacesOK'
  BY <1>4 DEF WorkerChecks, PlacesOK, loopVars, pacerVars, pacerFlags, handlerVars, linkVars, ghosts
<1>5. ASSUME NEW r \in Request, WorkerHandles(r) PROVE PlacesOK'
  BY <1>5 DEF WorkerHandles, PlacesOK, AfterReply, loopVars, pacerVars, pacerFlags, handlerVars, linkVars, ghosts
<1>6. ASSUME WorkerTimesOut PROVE PlacesOK'
  BY <1>6 DEF WorkerTimesOut, PlacesOK, loopVars, pacerVars, pacerFlags, handlerVars, linkVars, ghosts
<1>7. ASSUME WorkerSeesClosed PROVE PlacesOK'
  BY <1>7 DEF WorkerSeesClosed, PlacesOK, loopVars, pacerVars, pacerFlags, handlerVars, linkVars, ghosts
<1>8. ASSUME PacerTick PROVE PlacesOK'
  BY <1>8 DEF PacerTick, PlacesOK, loopVars, pacerVars, pacerFlags, handlerVars, linkVars, ghosts
<1>9. ASSUME PacerRead PROVE PlacesOK'
  BY <1>9 DEF PacerRead, PlacesOK, loopVars, pacerVars, pacerFlags, handlerVars, linkVars, ghosts
<1>10. ASSUME PacerSend PROVE PlacesOK'
  BY <1>10 DEF PacerSend, PlacesOK, loopVars, pacerVars, pacerFlags, handlerVars, linkVars, ghosts
<1>11. ASSUME Accept PROVE PlacesOK'
  BY <1>11 DEF Accept, PlacesOK, loopVars, pacerVars, pacerFlags, handlerVars, linkVars, ghosts
<1>12. ASSUME AcceptGivesUp PROVE PlacesOK'
  BY <1>12 DEF AcceptGivesUp, PlacesOK, loopVars, pacerVars, pacerFlags, handlerVars, linkVars, ghosts
<1>13. ASSUME LoopTop PROVE PlacesOK'
  BY <1>13 DEF LoopTop, PlacesOK, loopVars, pacerVars, pacerFlags, handlerVars, linkVars, ghosts
<1>14. ASSUME LoopGate PROVE PlacesOK'
  BY <1>14 DEF LoopGate, PlacesOK, loopVars, pacerVars, pacerFlags, handlerVars, linkVars, ghosts
<1>15. ASSUME LoopHalt PROVE PlacesOK'
  BY <1>15 DEF LoopHalt, PlacesOK, JoinPacer, loopVars, pacerVars, pacerFlags, handlerVars, linkVars, ghosts
<1>16. ASSUME LoopClear PROVE PlacesOK'
  BY <1>16 DEF LoopClear, PlacesOK, FreshStream, loopVars, pacerVars, pacerFlags, handlerVars, linkVars, ghosts
<1>17. ASSUME LoopSpace PROVE PlacesOK'
  BY <1>17 DEF LoopSpace, PlacesOK, loopVars, pacerVars, pacerFlags, handlerVars, linkVars, ghosts
<1>18. ASSUME LoopEmit PROVE PlacesOK'
  BY <1>18 DEF LoopEmit, PlacesOK, loopVars, pacerVars, pacerFlags, handlerVars, linkVars, ghosts
<1>19. ASSUME LoopStart PROVE PlacesOK'
  BY <1>19 DEF LoopStart, PlacesOK, loopVars, pacerVars, pacerFlags, handlerVars, linkVars, ghosts
<1>20. ASSUME EndPacer PROVE PlacesOK'
  BY <1>20 DEF EndPacer, PlacesOK, loopVars, pacerVars, pacerFlags, handlerVars, linkVars, ghosts
<1>21. ASSUME EndJoin PROVE PlacesOK'
  BY <1>21 DEF EndJoin, PlacesOK, JoinPacer, loopVars, pacerVars, pacerFlags, handlerVars, linkVars, ghosts
<1>22. ASSUME EndWorker PROVE PlacesOK'
  BY <1>22 DEF EndWorker, PlacesOK, loopVars, pacerVars, pacerFlags, handlerVars, linkVars, ghosts
<1>23. ASSUME EndWorkerJoin PROVE PlacesOK'
  BY <1>23 DEF EndWorkerJoin, PlacesOK, loopVars, pacerVars, pacerFlags, handlerVars, linkVars, ghosts
<1>24. ASSUME EndClose PROVE PlacesOK'
  BY <1>24 DEF EndClose, PlacesOK, FreshStream, loopVars, pacerVars, pacerFlags, handlerVars, linkVars, ghosts
<1>25. CASE UNCHANGED vars
  BY <1>25 DEF PlacesOK, vars, loopVars, pacerVars, pacerFlags, handlerVars, linkVars, ghosts
<1> QED BY <1>1, <1>2, <1>3, <1>4, <1>5, <1>6, <1>7, <1>8, <1>9, <1>10, <1>11, <1>12, <1>13, <1>14, <1>15, <1>16, <1>17, <1>18, <1>19, <1>20, <1>21, <1>22, <1>23, <1>24, <1>25 DEF Next, Client, Worker, Pacer, Waiting, Session

\* The numbers and the sequences.
LEMMA DataStep == DataOK /\ ThreadInv /\ [Next]_vars => DataOK'
<1> SUFFICES ASSUME DataOK, ThreadInv, [Next]_vars PROVE DataOK'
  OBVIOUS
<1> USE SessionAssumption
<1>1. ASSUME ClientRequests PROVE DataOK'
  BY <1>1 DEF ClientRequests, DataOK, loopVars, pacerVars, pacerFlags, handlerVars, linkVars, ghosts
<1>2. ASSUME ClientHangsUp PROVE DataOK'
  BY <1>2 DEF ClientHangsUp, DataOK, loopVars, pacerVars, pacerFlags, handlerVars, linkVars, ghosts
<1>3. ASSUME ClientVanishes PROVE DataOK'
  BY <1>3 DEF ClientVanishes, DataOK, loopVars, pacerVars, pacerFlags, handlerVars, linkVars, ghosts
<1>4. ASSUME WorkerChecks PROVE DataOK'
  BY <1>4 DEF WorkerChecks, DataOK, loopVars, pacerVars, pacerFlags, handlerVars, linkVars, ghosts
<1>5. ASSUME NEW r \in Request, WorkerHandles(r) PROVE DataOK'
  BY <1>5 DEF WorkerHandles, DataOK, AfterReply, loopVars, pacerVars, pacerFlags, handlerVars, linkVars, ghosts
<1>6. ASSUME WorkerTimesOut PROVE DataOK'
  BY <1>6 DEF WorkerTimesOut, DataOK, loopVars, pacerVars, pacerFlags, handlerVars, linkVars, ghosts
<1>7. ASSUME WorkerSeesClosed PROVE DataOK'
  BY <1>7 DEF WorkerSeesClosed, DataOK, loopVars, pacerVars, pacerFlags, handlerVars, linkVars, ghosts
<1>8. ASSUME PacerTick PROVE DataOK'
  BY <1>8 DEF PacerTick, DataOK, loopVars, pacerVars, pacerFlags, handlerVars, linkVars, ghosts
<1>9. ASSUME PacerRead PROVE DataOK'
  BY <1>9 DEF PacerRead, DataOK, loopVars, pacerVars, pacerFlags, handlerVars, linkVars, ghosts
<1>10. ASSUME PacerSend PROVE DataOK'
  <2>1. scratch' \in Seq(Batch) /\ Len(scratch') = Len(scratch) - 1 /\ Head(scratch) \in Batch
    BY <1>10, TailSeq DEF PacerSend, DataOK
  <2>2. expect' \in 0 .. SeqCap
    BY <1>10, <2>1, FollowingAdds DEF PacerSend, Batch
  <2> QED BY <1>10, <2>1, <2>2 DEF PacerSend, DataOK, loopVars, ghosts
<1>11. ASSUME Accept PROVE DataOK'
  BY <1>11 DEF Accept, DataOK, loopVars, pacerVars, pacerFlags, handlerVars, linkVars, ghosts
<1>12. ASSUME AcceptGivesUp PROVE DataOK'
  BY <1>12 DEF AcceptGivesUp, DataOK, loopVars, pacerVars, pacerFlags, handlerVars, linkVars, ghosts
<1>13. ASSUME LoopTop PROVE DataOK'
  BY <1>13 DEF LoopTop, DataOK, loopVars, pacerVars, pacerFlags, handlerVars, linkVars, ghosts
<1>14. ASSUME LoopGate PROVE DataOK'
  BY <1>14 DEF LoopGate, DataOK, loopVars, pacerVars, pacerFlags, handlerVars, linkVars, ghosts
<1>15. ASSUME LoopHalt PROVE DataOK'
  BY <1>15 DEF LoopHalt, DataOK, JoinPacer, loopVars, pacerVars, pacerFlags, handlerVars, linkVars, ghosts
<1>16. ASSUME LoopClear PROVE DataOK'
  <2>1. ring' \in Seq(Batch) /\ Len(ring') = 0
    BY <1>16 DEF LoopClear, FreshStream
  <2>2. 0 \in 0 .. SeqCap /\ 0 \in 0 .. BypassBound
    BY DEF BypassBound
  <2> QED BY <1>16, <2>1, <2>2 DEF LoopClear, FreshStream, DataOK, pacerVars
<1>17. ASSUME LoopSpace PROVE DataOK'
  <2>1. bypass' \in 0 .. BypassBound
    BY <1>17 DEF LoopSpace, DataOK, BypassBound
  <2> QED BY <1>17, <2>1 DEF LoopSpace, DataOK, pacerVars
<1>18. ASSUME LoopEmit PROVE DataOK'
  <2>1. outputSample \in Batch /\ outputSample' \in 0 .. SeqCap
    BY <1>18, FollowingAdds DEF LoopEmit, DataOK, Batch
  <2>2. ring' \in Seq(Batch) /\ Len(ring') <= RingCapacity
    <3>1. CASE Len(ring) < RingCapacity
      <4>1. ring' = Append(ring, outputSample) /\ ring \in Seq(Batch)
        BY <1>18, <3>1 DEF LoopEmit, DataOK
      <4> QED BY <3>1, <4>1, <2>1, AppendSeq
    <3>2. CASE ~(Len(ring) < RingCapacity)
      BY <1>18, <3>2 DEF LoopEmit, DataOK
    <3> QED BY <3>1, <3>2
  <2> QED BY <1>18, <2>1, <2>2 DEF LoopEmit, DataOK, pacerVars
<1>19. ASSUME LoopStart PROVE DataOK'
  <2>1. CASE pacerRunning
    BY <1>19, <2>1 DEF LoopStart, DataOK, ghosts
  <2>2. CASE ~pacerRunning
    BY <1>19, <2>2 DEF LoopStart, DataOK, ThreadInv, ghosts
  <2> QED BY <2>1, <2>2
<1>20. ASSUME EndPacer PROVE DataOK'
  BY <1>20 DEF EndPacer, DataOK, loopVars, pacerVars, pacerFlags, handlerVars, linkVars, ghosts
<1>21. ASSUME EndJoin PROVE DataOK'
  BY <1>21 DEF EndJoin, DataOK, JoinPacer, loopVars, pacerVars, pacerFlags, handlerVars, linkVars, ghosts
<1>22. ASSUME EndWorker PROVE DataOK'
  BY <1>22 DEF EndWorker, DataOK, loopVars, pacerVars, pacerFlags, handlerVars, linkVars, ghosts
<1>23. ASSUME EndWorkerJoin PROVE DataOK'
  BY <1>23 DEF EndWorkerJoin, DataOK, loopVars, pacerVars, pacerFlags, handlerVars, linkVars, ghosts
<1>24. ASSUME EndClose PROVE DataOK'
  <2>1. ring' \in Seq(Batch) /\ Len(ring') = 0
    BY <1>24 DEF EndClose, FreshStream
  <2>2. 0 \in 0 .. SeqCap /\ 0 \in 0 .. BypassBound
    BY DEF BypassBound
  <2> QED BY <1>24, <2>1, <2>2 DEF EndClose, FreshStream, DataOK, pacerVars
<1>25. CASE UNCHANGED vars
  BY <1>25 DEF DataOK, vars, loopVars, pacerVars, pacerFlags, handlerVars, linkVars, ghosts
<1> QED BY <1>1, <1>2, <1>3, <1>4, <1>5, <1>6, <1>7, <1>8, <1>9, <1>10, <1>11, <1>12, <1>13, <1>14, <1>15, <1>16, <1>17, <1>18, <1>19, <1>20, <1>21, <1>22, <1>23, <1>24, <1>25 DEF Next, Client, Worker, Pacer, Waiting, Session

\* Every step keeps the flags and the places of the threads in agreement.
LEMMA ThreadStep == ThreadInv /\ [Next]_vars => ThreadInv'
<1> SUFFICES ASSUME ThreadInv, [Next]_vars PROVE ThreadInv'
  OBVIOUS
<1>1. ASSUME ClientRequests PROVE ThreadInv'
  BY <1>1 DEF ClientRequests, ThreadInv, PacerPlaces, loopVars, pacerVars, pacerFlags, handlerVars, linkVars, ghosts
<1>2. ASSUME ClientHangsUp PROVE ThreadInv'
  BY <1>2 DEF ClientHangsUp, ThreadInv, PacerPlaces, loopVars, pacerVars, pacerFlags, handlerVars, linkVars, ghosts
<1>3. ASSUME ClientVanishes PROVE ThreadInv'
  BY <1>3 DEF ClientVanishes, ThreadInv, PacerPlaces, loopVars, pacerVars, pacerFlags, handlerVars, linkVars, ghosts
<1>4. ASSUME WorkerChecks PROVE ThreadInv'
  BY <1>4 DEF WorkerChecks, ThreadInv, PacerPlaces, loopVars, pacerVars, pacerFlags, handlerVars, linkVars, ghosts
<1>5. ASSUME NEW r \in Request, WorkerHandles(r) PROVE ThreadInv'
  BY <1>5 DEF WorkerHandles, ThreadInv, PacerPlaces, AfterReply, loopVars, pacerVars, pacerFlags, handlerVars, linkVars, ghosts
<1>6. ASSUME WorkerTimesOut PROVE ThreadInv'
  BY <1>6 DEF WorkerTimesOut, ThreadInv, PacerPlaces, loopVars, pacerVars, pacerFlags, handlerVars, linkVars, ghosts
<1>7. ASSUME WorkerSeesClosed PROVE ThreadInv'
  BY <1>7 DEF WorkerSeesClosed, ThreadInv, PacerPlaces, loopVars, pacerVars, pacerFlags, handlerVars, linkVars, ghosts
<1>8. ASSUME PacerTick PROVE ThreadInv'
  BY <1>8 DEF PacerTick, ThreadInv, PacerPlaces, loopVars, pacerVars, pacerFlags, handlerVars, linkVars, ghosts
<1>9. ASSUME PacerRead PROVE ThreadInv'
  BY <1>9 DEF PacerRead, ThreadInv, PacerPlaces, loopVars, pacerVars, pacerFlags, handlerVars, linkVars, ghosts
<1>10. ASSUME PacerSend PROVE ThreadInv'
  BY <1>10 DEF PacerSend, ThreadInv, PacerPlaces, loopVars, pacerVars, pacerFlags, handlerVars, linkVars, ghosts
<1>11. ASSUME Accept PROVE ThreadInv'
  BY <1>11 DEF Accept, ThreadInv, PacerPlaces, loopVars, pacerVars, pacerFlags, handlerVars, linkVars, ghosts
<1>12. ASSUME AcceptGivesUp PROVE ThreadInv'
  BY <1>12 DEF AcceptGivesUp, ThreadInv, PacerPlaces, loopVars, pacerVars, pacerFlags, handlerVars, linkVars, ghosts
<1>13. ASSUME LoopTop PROVE ThreadInv'
  BY <1>13 DEF LoopTop, ThreadInv, PacerPlaces, loopVars, pacerVars, pacerFlags, handlerVars, linkVars, ghosts
<1>14. ASSUME LoopGate PROVE ThreadInv'
  BY <1>14 DEF LoopGate, ThreadInv, PacerPlaces, loopVars, pacerVars, pacerFlags, handlerVars, linkVars, ghosts
<1>15. ASSUME LoopHalt PROVE ThreadInv'
  BY <1>15 DEF LoopHalt, ThreadInv, PacerPlaces, JoinPacer, loopVars, pacerVars, pacerFlags, handlerVars, linkVars, ghosts
<1>16. ASSUME LoopClear PROVE ThreadInv'
  BY <1>16 DEF LoopClear, ThreadInv, PacerPlaces, FreshStream, loopVars, pacerVars, pacerFlags, handlerVars, linkVars, ghosts
<1>17. ASSUME LoopSpace PROVE ThreadInv'
  BY <1>17 DEF LoopSpace, ThreadInv, PacerPlaces, loopVars, pacerVars, pacerFlags, handlerVars, linkVars, ghosts
<1>18. ASSUME LoopEmit PROVE ThreadInv'
  BY <1>18 DEF LoopEmit, ThreadInv, PacerPlaces, loopVars, pacerVars, pacerFlags, handlerVars, linkVars, ghosts
<1>19. ASSUME LoopStart PROVE ThreadInv'
  BY <1>19 DEF LoopStart, ThreadInv, PacerPlaces, loopVars, pacerVars, pacerFlags, handlerVars, linkVars, ghosts
<1>20. ASSUME EndPacer PROVE ThreadInv'
  BY <1>20 DEF EndPacer, ThreadInv, PacerPlaces, loopVars, pacerVars, pacerFlags, handlerVars, linkVars, ghosts
<1>21. ASSUME EndJoin PROVE ThreadInv'
  BY <1>21 DEF EndJoin, ThreadInv, PacerPlaces, JoinPacer, loopVars, pacerVars, pacerFlags, handlerVars, linkVars, ghosts
<1>22. ASSUME EndWorker PROVE ThreadInv'
  BY <1>22 DEF EndWorker, ThreadInv, PacerPlaces, loopVars, pacerVars, pacerFlags, handlerVars, linkVars, ghosts
<1>23. ASSUME EndWorkerJoin PROVE ThreadInv'
  BY <1>23 DEF EndWorkerJoin, ThreadInv, PacerPlaces, loopVars, pacerVars, pacerFlags, handlerVars, linkVars, ghosts
<1>24. ASSUME EndClose PROVE ThreadInv'
  BY <1>24 DEF EndClose, ThreadInv, PacerPlaces, FreshStream, loopVars, pacerVars, pacerFlags, handlerVars, linkVars, ghosts
<1>25. CASE UNCHANGED vars
  BY <1>25 DEF ThreadInv, PacerPlaces, vars, loopVars, pacerVars, pacerFlags, handlerVars, linkVars, ghosts
<1> QED BY <1>1, <1>2, <1>3, <1>4, <1>5, <1>6, <1>7, <1>8, <1>9, <1>10, <1>11, <1>12, <1>13, <1>14, <1>15, <1>16, <1>17, <1>18, <1>19, <1>20, <1>21, <1>22, <1>23, <1>24, <1>25 DEF Next, Client, Worker, Pacer, Waiting, Session

\* The loop never has more than one batch for each early end of the wait above the watermark.
LEMMA RoomStep == DataOK /\ RoomInv /\ [Next]_vars => RoomInv'
<1> SUFFICES ASSUME DataOK, RoomInv, [Next]_vars PROVE RoomInv'
  OBVIOUS
<1> USE SessionAssumption
<1>1. ASSUME ClientRequests PROVE RoomInv'
  BY <1>1 DEF ClientRequests, RoomInv, DataOK, BypassBound, loopVars, pacerVars, pacerFlags, handlerVars, linkVars, ghosts
<1>2. ASSUME ClientHangsUp PROVE RoomInv'
  BY <1>2 DEF ClientHangsUp, RoomInv, DataOK, BypassBound, loopVars, pacerVars, pacerFlags, handlerVars, linkVars, ghosts
<1>3. ASSUME ClientVanishes PROVE RoomInv'
  BY <1>3 DEF ClientVanishes, RoomInv, DataOK, BypassBound, loopVars, pacerVars, pacerFlags, handlerVars, linkVars, ghosts
<1>4. ASSUME WorkerChecks PROVE RoomInv'
  BY <1>4 DEF WorkerChecks, RoomInv, DataOK, BypassBound, loopVars, pacerVars, pacerFlags, handlerVars, linkVars, ghosts
<1>5. ASSUME NEW r \in Request, WorkerHandles(r) PROVE RoomInv'
  BY <1>5 DEF WorkerHandles, RoomInv, DataOK, BypassBound, AfterReply, loopVars, pacerVars, pacerFlags, handlerVars, linkVars, ghosts
<1>6. ASSUME WorkerTimesOut PROVE RoomInv'
  BY <1>6 DEF WorkerTimesOut, RoomInv, DataOK, BypassBound, loopVars, pacerVars, pacerFlags, handlerVars, linkVars, ghosts
<1>7. ASSUME WorkerSeesClosed PROVE RoomInv'
  BY <1>7 DEF WorkerSeesClosed, RoomInv, DataOK, BypassBound, loopVars, pacerVars, pacerFlags, handlerVars, linkVars, ghosts
<1>8. ASSUME PacerTick PROVE RoomInv'
  BY <1>8 DEF PacerTick, RoomInv, DataOK, BypassBound, loopVars, pacerVars, pacerFlags, handlerVars, linkVars, ghosts
<1>9. ASSUME PacerRead PROVE RoomInv'
  <2>0. PICK n \in 0 .. Len(ring) : Len(ring') = Len(ring) - n
    BY <1>9, ReadSplits
  <2>1. Len(ring') <= Len(ring) /\ Len(ring') \in Nat /\ Len(ring) \in Nat
    BY <2>0 DEF DataOK
  <2>2. bypass' = bypass /\ lost' = lost /\ loop' = loop /\ bypass \in Nat
    BY <1>9 DEF PacerRead, DataOK, BypassBound, loopVars, ghosts
  <2> QED BY <2>1, <2>2 DEF RoomInv, BypassBound
<1>10. ASSUME PacerSend PROVE RoomInv'
  BY <1>10 DEF PacerSend, RoomInv, DataOK, BypassBound, loopVars, pacerVars, pacerFlags, handlerVars, linkVars, ghosts
<1>11. ASSUME Accept PROVE RoomInv'
  BY <1>11 DEF Accept, RoomInv, DataOK, BypassBound, loopVars, pacerVars, pacerFlags, handlerVars, linkVars, ghosts
<1>12. ASSUME AcceptGivesUp PROVE RoomInv'
  BY <1>12 DEF AcceptGivesUp, RoomInv, DataOK, BypassBound, loopVars, pacerVars, pacerFlags, handlerVars, linkVars, ghosts
<1>13. ASSUME LoopTop PROVE RoomInv'
  BY <1>13 DEF LoopTop, RoomInv, DataOK, BypassBound, loopVars, pacerVars, pacerFlags, handlerVars, linkVars, ghosts
<1>14. ASSUME LoopGate PROVE RoomInv'
  BY <1>14 DEF LoopGate, RoomInv, DataOK, BypassBound, loopVars, pacerVars, pacerFlags, handlerVars, linkVars, ghosts
<1>15. ASSUME LoopHalt PROVE RoomInv'
  BY <1>15 DEF LoopHalt, RoomInv, DataOK, BypassBound, JoinPacer, loopVars, pacerVars, pacerFlags, handlerVars, linkVars, ghosts
<1>16. ASSUME LoopClear PROVE RoomInv'
  BY <1>16 DEF LoopClear, RoomInv, DataOK, BypassBound, FreshStream, loopVars, pacerVars, pacerFlags, handlerVars, linkVars, ghosts
<1>17. ASSUME LoopSpace PROVE RoomInv'
  BY <1>17 DEF LoopSpace, RoomInv, DataOK, BypassBound, loopVars, pacerVars, pacerFlags, handlerVars, linkVars, ghosts
<1>18. ASSUME LoopEmit PROVE RoomInv'
  BY <1>18 DEF LoopEmit, RoomInv, DataOK, BypassBound, loopVars, pacerVars, pacerFlags, handlerVars, linkVars, ghosts
<1>19. ASSUME LoopStart PROVE RoomInv'
  BY <1>19 DEF LoopStart, RoomInv, DataOK, BypassBound, loopVars, pacerVars, pacerFlags, handlerVars, linkVars, ghosts
<1>20. ASSUME EndPacer PROVE RoomInv'
  BY <1>20 DEF EndPacer, RoomInv, DataOK, BypassBound, loopVars, pacerVars, pacerFlags, handlerVars, linkVars, ghosts
<1>21. ASSUME EndJoin PROVE RoomInv'
  BY <1>21 DEF EndJoin, RoomInv, DataOK, BypassBound, JoinPacer, loopVars, pacerVars, pacerFlags, handlerVars, linkVars, ghosts
<1>22. ASSUME EndWorker PROVE RoomInv'
  BY <1>22 DEF EndWorker, RoomInv, DataOK, BypassBound, loopVars, pacerVars, pacerFlags, handlerVars, linkVars, ghosts
<1>23. ASSUME EndWorkerJoin PROVE RoomInv'
  BY <1>23 DEF EndWorkerJoin, RoomInv, DataOK, BypassBound, loopVars, pacerVars, pacerFlags, handlerVars, linkVars, ghosts
<1>24. ASSUME EndClose PROVE RoomInv'
  BY <1>24 DEF EndClose, RoomInv, DataOK, BypassBound, FreshStream, loopVars, pacerVars, pacerFlags, handlerVars, linkVars, ghosts
<1>25. CASE UNCHANGED vars
  BY <1>25 DEF RoomInv, DataOK, BypassBound, vars, loopVars, pacerVars, pacerFlags, handlerVars, linkVars, ghosts
<1> QED BY <1>1, <1>2, <1>3, <1>4, <1>5, <1>6, <1>7, <1>8, <1>9, <1>10, <1>11, <1>12, <1>13, <1>14, <1>15, <1>16, <1>17, <1>18, <1>19, <1>20, <1>21, <1>22, <1>23, <1>24, <1>25 DEF Next, Client, Worker, Pacer, Waiting, Session

\* With no pacer at work, an idle stream stays as good as new.
LEMMA IdleStep == ThreadInv /\ IdleInv /\ [Next]_vars => IdleInv'
<1> SUFFICES ASSUME ThreadInv, IdleInv, [Next]_vars PROVE IdleInv'
  OBVIOUS
<1>1. ASSUME ClientRequests PROVE IdleInv'
  BY <1>1 DEF ClientRequests, ThreadInv, IdleInv, IdlePlaces, PacerPlaces, loopVars, pacerVars, pacerFlags, handlerVars, linkVars, ghosts
<1>2. ASSUME ClientHangsUp PROVE IdleInv'
  BY <1>2 DEF ClientHangsUp, ThreadInv, IdleInv, IdlePlaces, PacerPlaces, loopVars, pacerVars, pacerFlags, handlerVars, linkVars, ghosts
<1>3. ASSUME ClientVanishes PROVE IdleInv'
  BY <1>3 DEF ClientVanishes, ThreadInv, IdleInv, IdlePlaces, PacerPlaces, loopVars, pacerVars, pacerFlags, handlerVars, linkVars, ghosts
<1>4. ASSUME WorkerChecks PROVE IdleInv'
  BY <1>4 DEF WorkerChecks, ThreadInv, IdleInv, IdlePlaces, PacerPlaces, loopVars, pacerVars, pacerFlags, handlerVars, linkVars, ghosts
<1>5. ASSUME NEW r \in Request, WorkerHandles(r) PROVE IdleInv'
  BY <1>5 DEF WorkerHandles, ThreadInv, IdleInv, IdlePlaces, PacerPlaces, AfterReply, loopVars, pacerVars, pacerFlags, handlerVars, linkVars, ghosts
<1>6. ASSUME WorkerTimesOut PROVE IdleInv'
  BY <1>6 DEF WorkerTimesOut, ThreadInv, IdleInv, IdlePlaces, PacerPlaces, loopVars, pacerVars, pacerFlags, handlerVars, linkVars, ghosts
<1>7. ASSUME WorkerSeesClosed PROVE IdleInv'
  BY <1>7 DEF WorkerSeesClosed, ThreadInv, IdleInv, IdlePlaces, PacerPlaces, loopVars, pacerVars, pacerFlags, handlerVars, linkVars, ghosts
<1>8. ASSUME PacerTick PROVE IdleInv'
  BY <1>8 DEF PacerTick, ThreadInv, IdleInv, IdlePlaces, PacerPlaces, loopVars, pacerVars, pacerFlags, handlerVars, linkVars, ghosts
<1>9. ASSUME PacerRead PROVE IdleInv'
  BY <1>9 DEF PacerRead, ThreadInv, IdleInv, IdlePlaces, PacerPlaces, loopVars, pacerVars, pacerFlags, handlerVars, linkVars, ghosts
<1>10. ASSUME PacerSend PROVE IdleInv'
  BY <1>10 DEF PacerSend, ThreadInv, IdleInv, IdlePlaces, PacerPlaces, loopVars, pacerVars, pacerFlags, handlerVars, linkVars, ghosts
<1>11. ASSUME Accept PROVE IdleInv'
  BY <1>11 DEF Accept, ThreadInv, IdleInv, IdlePlaces, PacerPlaces, loopVars, pacerVars, pacerFlags, handlerVars, linkVars, ghosts
<1>12. ASSUME AcceptGivesUp PROVE IdleInv'
  BY <1>12 DEF AcceptGivesUp, ThreadInv, IdleInv, IdlePlaces, PacerPlaces, loopVars, pacerVars, pacerFlags, handlerVars, linkVars, ghosts
<1>13. ASSUME LoopTop PROVE IdleInv'
  BY <1>13 DEF LoopTop, ThreadInv, IdleInv, IdlePlaces, PacerPlaces, loopVars, pacerVars, pacerFlags, handlerVars, linkVars, ghosts
<1>14. ASSUME LoopGate PROVE IdleInv'
  BY <1>14 DEF LoopGate, ThreadInv, IdleInv, IdlePlaces, PacerPlaces, loopVars, pacerVars, pacerFlags, handlerVars, linkVars, ghosts
<1>15. ASSUME LoopHalt PROVE IdleInv'
  BY <1>15 DEF LoopHalt, ThreadInv, IdleInv, IdlePlaces, PacerPlaces, JoinPacer, loopVars, pacerVars, pacerFlags, handlerVars, linkVars, ghosts
<1>16. ASSUME LoopClear PROVE IdleInv'
  BY <1>16 DEF LoopClear, ThreadInv, IdleInv, IdlePlaces, PacerPlaces, FreshStream, loopVars, pacerVars, pacerFlags, handlerVars, linkVars, ghosts
<1>17. ASSUME LoopSpace PROVE IdleInv'
  BY <1>17 DEF LoopSpace, ThreadInv, IdleInv, IdlePlaces, PacerPlaces, loopVars, pacerVars, pacerFlags, handlerVars, linkVars, ghosts
<1>18. ASSUME LoopEmit PROVE IdleInv'
  BY <1>18 DEF LoopEmit, ThreadInv, IdleInv, IdlePlaces, PacerPlaces, loopVars, pacerVars, pacerFlags, handlerVars, linkVars, ghosts
<1>19. ASSUME LoopStart PROVE IdleInv'
  BY <1>19 DEF LoopStart, ThreadInv, IdleInv, IdlePlaces, PacerPlaces, loopVars, pacerVars, pacerFlags, handlerVars, linkVars, ghosts
<1>20. ASSUME EndPacer PROVE IdleInv'
  BY <1>20 DEF EndPacer, ThreadInv, IdleInv, IdlePlaces, PacerPlaces, loopVars, pacerVars, pacerFlags, handlerVars, linkVars, ghosts
<1>21. ASSUME EndJoin PROVE IdleInv'
  BY <1>21 DEF EndJoin, ThreadInv, IdleInv, IdlePlaces, PacerPlaces, JoinPacer, loopVars, pacerVars, pacerFlags, handlerVars, linkVars, ghosts
<1>22. ASSUME EndWorker PROVE IdleInv'
  BY <1>22 DEF EndWorker, ThreadInv, IdleInv, IdlePlaces, PacerPlaces, loopVars, pacerVars, pacerFlags, handlerVars, linkVars, ghosts
<1>23. ASSUME EndWorkerJoin PROVE IdleInv'
  BY <1>23 DEF EndWorkerJoin, ThreadInv, IdleInv, IdlePlaces, PacerPlaces, loopVars, pacerVars, pacerFlags, handlerVars, linkVars, ghosts
<1>24. ASSUME EndClose PROVE IdleInv'
  BY <1>24 DEF EndClose, ThreadInv, IdleInv, IdlePlaces, PacerPlaces, FreshStream, loopVars, pacerVars, pacerFlags, handlerVars, linkVars, ghosts
<1>25. CASE UNCHANGED vars
  BY <1>25 DEF ThreadInv, IdleInv, IdlePlaces, PacerPlaces, vars, loopVars, pacerVars, pacerFlags, handlerVars, linkVars, ghosts
<1> QED BY <1>1, <1>2, <1>3, <1>4, <1>5, <1>6, <1>7, <1>8, <1>9, <1>10, <1>11, <1>12, <1>13, <1>14, <1>15, <1>16, <1>17, <1>18, <1>19, <1>20, <1>21, <1>22, <1>23, <1>24, <1>25 DEF Next, Client, Worker, Pacer, Waiting, Session

\* The batches in flight stay the ones the network expects next, in order.
LEMMA OrderStep == DataOK /\ ThreadInv /\ IdleInv /\ OrderInv /\ [Next]_vars => OrderInv'
<1> SUFFICES ASSUME DataOK, ThreadInv, IdleInv, OrderInv, [Next]_vars PROVE OrderInv'
  OBVIOUS
<1> USE SessionAssumption
<1>1. ASSUME ClientRequests PROVE OrderInv'
  BY <1>1 DEF ClientRequests, OrderInv, loopVars, pacerVars, pacerFlags, handlerVars, linkVars, ghosts
<1>2. ASSUME ClientHangsUp PROVE OrderInv'
  BY <1>2 DEF ClientHangsUp, OrderInv, loopVars, pacerVars, pacerFlags, handlerVars, linkVars, ghosts
<1>3. ASSUME ClientVanishes PROVE OrderInv'
  BY <1>3 DEF ClientVanishes, OrderInv, loopVars, pacerVars, pacerFlags, handlerVars, linkVars, ghosts
<1>4. ASSUME WorkerChecks PROVE OrderInv'
  BY <1>4 DEF WorkerChecks, OrderInv, loopVars, pacerVars, pacerFlags, handlerVars, linkVars, ghosts
<1>5. ASSUME NEW r \in Request, WorkerHandles(r) PROVE OrderInv'
  BY <1>5 DEF WorkerHandles, OrderInv, AfterReply, loopVars, pacerVars, pacerFlags, handlerVars, linkVars, ghosts
<1>6. ASSUME WorkerTimesOut PROVE OrderInv'
  BY <1>6 DEF WorkerTimesOut, OrderInv, loopVars, pacerVars, pacerFlags, handlerVars, linkVars, ghosts
<1>7. ASSUME WorkerSeesClosed PROVE OrderInv'
  BY <1>7 DEF WorkerSeesClosed, OrderInv, loopVars, pacerVars, pacerFlags, handlerVars, linkVars, ghosts
<1>8. ASSUME PacerTick PROVE OrderInv'
  BY <1>8 DEF PacerTick, OrderInv, loopVars, pacerVars, pacerFlags, handlerVars, linkVars, ghosts
<1>9. ASSUME PacerRead PROVE OrderInv'
  <2>1. Len(scratch) = 0
    BY <1>9, ReadSplits
  <2>2. PICK n \in 0 .. Len(ring) :
          /\ Len(scratch') = n /\ \A i \in 1 .. n : scratch'[i] = ring[i]
          /\ Len(ring') = Len(ring) - n
          /\ \A i \in 1 .. Len(ring) - n : ring'[i] = ring[n + i]
    BY <1>9, ReadSplits
  <2>3. Len(ring) \in Nat
    BY DEF DataOK
  <2> SUFFICES ASSUME ~lost PROVE OrderInv'
    BY <1>9 DEF PacerRead, OrderInv, ghosts
  <2>4. /\ outputSample = Following(expect, Len(ring))
        /\ \A i \in 1 .. Len(ring) : ring[i] = Following(expect, i - 1)
    BY <2>1, <2>3 DEF OrderInv
  <2>5. outputSample' = Following(expect', Len(scratch') + Len(ring'))
    <3>1. Len(scratch') + Len(ring') = Len(ring)
      BY <2>2, <2>3
    <3>2. outputSample' = outputSample /\ expect' = expect
      BY <1>9 DEF PacerRead, loopVars, ghosts
    <3> QED BY <2>4, <3>1, <3>2
  <2>6. \A i \in 1 .. Len(scratch') : scratch'[i] = Following(expect', i - 1)
    BY <1>9, <2>2, <2>3, <2>4 DEF PacerRead, ghosts
  <2>7. \A i \in 1 .. Len(ring') : ring'[i] = Following(expect', Len(scratch') + i - 1)
    BY <1>9, <2>2, <2>3, <2>4 DEF PacerRead, ghosts
  <2> QED BY <2>5, <2>6, <2>7 DEF OrderInv
<1>10. ASSUME PacerSend PROVE OrderInv'
  <2> SUFFICES ASSUME ~lost PROVE OrderInv'
    BY <1>10 DEF PacerSend, OrderInv
  <2>1. /\ Len(scratch) \in Nat /\ Len(scratch) > 0 /\ Len(ring) \in Nat
        /\ Len(scratch') = Len(scratch) - 1 /\ Head(scratch) = scratch[1]
        /\ \A i \in 1 .. Len(scratch) - 1 : scratch'[i] = scratch[i + 1]
    BY <1>10, TailSeq DEF PacerSend, DataOK
  <2>2. expect \in Batch
    BY DEF DataOK, Batch
  <2>3. expect' = Following(expect, 1)
    <3>1. scratch[1] = Following(expect, 0)
      BY <2>1 DEF OrderInv
    <3>2. Following(expect, 0) = expect
      BY <2>2, FollowingAdds
    <3> QED BY <1>10, <2>1, <3>1, <3>2 DEF PacerSend
  <2>4. \A k \in Nat : Following(expect', k) = Following(expect, k + 1)
    <3> TAKE k \in Nat
    <3>1. Following(Following(expect, 1), k) = Following(expect, 1 + k)
      BY <2>2, FollowingAdds
    <3> QED BY <2>3, <3>1
  <2>5. outputSample' = Following(expect', Len(scratch') + Len(ring'))
    <3>1. Len(scratch') + Len(ring) \in Nat /\ Len(scratch') + Len(ring) + 1 = Len(scratch) + Len(ring)
      BY <2>1
    <3>2. outputSample = Following(expect, Len(scratch) + Len(ring))
      BY DEF OrderInv
    <3>3. outputSample' = outputSample /\ ring' = ring
      BY <1>10 DEF PacerSend, loopVars
    <3> QED BY <2>4, <3>1, <3>2, <3>3
  <2>6. \A i \in 1 .. Len(scratch') : scratch'[i] = Following(expect', i - 1)
    <3> TAKE i \in 1 .. Len(scratch')
    <3>1. scratch'[i] = scratch[i + 1] /\ i + 1 \in 1 .. Len(scratch) /\ i - 1 \in Nat /\ (i - 1) + 1 = (i + 1) - 1
      BY <2>1
    <3>2. scratch[i + 1] = Following(expect, (i + 1) - 1)
      BY <3>1 DEF OrderInv
    <3> QED BY <2>4, <3>1, <3>2
  <2>7. \A i \in 1 .. Len(ring') : ring'[i] = Following(expect', Len(scratch') + i - 1)
    <3>1. ring' = ring
      BY <1>10 DEF PacerSend
    <3> TAKE i \in 1 .. Len(ring')
    <3>2. /\ i \in 1 .. Len(ring) /\ Len(scratch') + i - 1 \in Nat
          /\ (Len(scratch') + i - 1) + 1 = Len(scratch) + i - 1
      BY <2>1, <3>1
    <3>3. ring[i] = Following(expect, Len(scratch) + i - 1)
      BY <3>2 DEF OrderInv
    <3> QED BY <2>4, <3>1, <3>2, <3>3
  <2> QED BY <2>5, <2>6, <2>7 DEF OrderInv
<1>11. ASSUME Accept PROVE OrderInv'
  BY <1>11 DEF Accept, OrderInv, loopVars, pacerVars, pacerFlags, handlerVars, linkVars, ghosts
<1>12. ASSUME AcceptGivesUp PROVE OrderInv'
  BY <1>12 DEF AcceptGivesUp, OrderInv, loopVars, pacerVars, pacerFlags, handlerVars, linkVars, ghosts
<1>13. ASSUME LoopTop PROVE OrderInv'
  BY <1>13 DEF LoopTop, OrderInv, loopVars, pacerVars, pacerFlags, handlerVars, linkVars, ghosts
<1>14. ASSUME LoopGate PROVE OrderInv'
  <2>1. outputSample' = outputSample
    BY <1>14 DEF LoopGate, IdleInv, IdlePlaces
  <2> QED BY <1>14, <2>1 DEF LoopGate, OrderInv, pacerVars, ghosts
<1>15. ASSUME LoopHalt PROVE OrderInv'
  BY <1>15 DEF LoopHalt, OrderInv, JoinPacer, loopVars, pacerVars, pacerFlags, handlerVars, linkVars, ghosts
<1>16. ASSUME LoopClear PROVE OrderInv'
  <2>1. Len(scratch') = 0 /\ ring' = <<>> /\ outputSample' = 0 /\ expect' = 0
    BY <1>16 DEF LoopClear, FreshStream, DataOK, ThreadInv, PacerPlaces, pacerVars
  <2>2. Following(0, 0) = 0
    BY DEF Following
  <2> QED BY <2>1, <2>2 DEF OrderInv
<1>17. ASSUME LoopSpace PROVE OrderInv'
  BY <1>17 DEF LoopSpace, OrderInv, loopVars, pacerVars, pacerFlags, handlerVars, linkVars, ghosts
<1>18. ASSUME LoopEmit PROVE OrderInv'
  <2>1. CASE Len(ring) < RingCapacity
    <3> SUFFICES ASSUME ~lost PROVE OrderInv'
      BY <1>18, <2>1 DEF LoopEmit, OrderInv
    <3>1. /\ ring' = Append(ring, outputSample) /\ scratch' = scratch /\ expect' = expect
          /\ outputSample' = Following(outputSample, 1)
      BY <1>18, <2>1 DEF LoopEmit, pacerVars
    <3>2. /\ expect \in Batch /\ outputSample \in Batch /\ Len(scratch) \in Nat /\ Len(ring) \in Nat
          /\ ring \in Seq(Batch)
      BY DEF DataOK, Batch
    <3>3. /\ Len(ring') = Len(ring) + 1 /\ ring'[Len(ring) + 1] = outputSample
          /\ \A i \in 1 .. Len(ring) : ring'[i] = ring[i]
      BY <3>1, <3>2, AppendSeq
    <3>4. outputSample = Following(expect, Len(scratch) + Len(ring))
      BY DEF OrderInv
    <3>5. outputSample' = Following(expect', Len(scratch') + Len(ring'))
      <4>1. Following(Following(expect, Len(scratch) + Len(ring)), 1)
              = Following(expect, Len(scratch) + Len(ring) + 1)
        BY <3>2, FollowingAdds
      <4>2. Len(scratch') + Len(ring') = Len(scratch) + Len(ring) + 1
        BY <3>1, <3>2, <3>3
      <4> QED BY <3>1, <3>4, <4>1, <4>2
    <3>6. \A i \in 1 .. Len(ring') : ring'[i] = Following(expect', Len(scratch') + i - 1)
      <4> TAKE i \in 1 .. Len(ring')
      <4>1. CASE i = Len(ring) + 1
        <5>1. Len(scratch) + i - 1 = Len(scratch) + Len(ring)
          BY <3>2, <4>1
        <5> QED BY <3>1, <3>3, <3>4, <4>1, <5>1
      <4>2. CASE i # Len(ring) + 1
        <5>1. i \in 1 .. Len(ring)
          BY <3>2, <3>3, <4>2
        <5> QED BY <3>1, <3>3, <5>1 DEF OrderInv
      <4> QED BY <4>1, <4>2
    <3>7. \A i \in 1 .. Len(scratch') : scratch'[i] = Following(expect', i - 1)
      BY <3>1 DEF OrderInv
    <3> QED BY <3>5, <3>6, <3>7 DEF OrderInv
  <2>2. CASE ~(Len(ring) < RingCapacity)
    BY <1>18, <2>2 DEF LoopEmit, OrderInv
  <2> QED BY <2>1, <2>2
<1>19. ASSUME LoopStart PROVE OrderInv'
  BY <1>19 DEF LoopStart, OrderInv, loopVars, pacerVars, pacerFlags, handlerVars, linkVars, ghosts
<1>20. ASSUME EndPacer PROVE OrderInv'
  BY <1>20 DEF EndPacer, OrderInv, loopVars, pacerVars, pacerFlags, handlerVars, linkVars, ghosts
<1>21. ASSUME EndJoin PROVE OrderInv'
  BY <1>21 DEF EndJoin, OrderInv, JoinPacer, loopVars, pacerVars, pacerFlags, handlerVars, linkVars, ghosts
<1>22. ASSUME EndWorker PROVE OrderInv'
  BY <1>22 DEF EndWorker, OrderInv, loopVars, pacerVars, pacerFlags, handlerVars, linkVars, ghosts
<1>23. ASSUME EndWorkerJoin PROVE OrderInv'
  BY <1>23 DEF EndWorkerJoin, OrderInv, loopVars, pacerVars, pacerFlags, handlerVars, linkVars, ghosts
<1>24. ASSUME EndClose PROVE OrderInv'
  <2>1. Len(scratch') = 0 /\ ring' = <<>> /\ outputSample' = 0 /\ expect' = 0
    BY <1>24 DEF EndClose, FreshStream, DataOK, ThreadInv, PacerPlaces, pacerVars
  <2>2. Following(0, 0) = 0
    BY DEF Following
  <2> QED BY <2>1, <2>2 DEF OrderInv
<1>25. CASE UNCHANGED vars
  BY <1>25 DEF OrderInv, vars, loopVars, pacerVars, pacerFlags, handlerVars, linkVars, ghosts
<1> QED BY <1>1, <1>2, <1>3, <1>4, <1>5, <1>6, <1>7, <1>8, <1>9, <1>10, <1>11, <1>12, <1>13, <1>14, <1>15, <1>16, <1>17, <1>18, <1>19, <1>20, <1>21, <1>22, <1>23, <1>24, <1>25 DEF Next, Client, Worker, Pacer, Waiting, Session

----------------------------------------------------------------------------
(* The invariant, and what follows from it.                                *)

\* With nobody connected nothing is in flight.
LEMMA SessionInit == Init => SessionInv
<1> SUFFICES ASSUME Init PROVE SessionInv
  OBVIOUS
<1> USE SessionAssumption
<1>1. FlagsOK
  BY Zenon DEF Init, FlagsOK
<1>2. PlacesOK
  BY DEF Init, PlacesOK
<1>3. DataOK
  BY DEF Init, DataOK, BypassBound
<1>4. ThreadInv
  BY DEF Init, ThreadInv
<1>5. RoomInv
  BY DEF Init, RoomInv
<1>6. OrderInv
  <2>1. Following(0, 0) = 0
    BY DEF Following
  <2> QED BY <2>1 DEF Init, OrderInv
<1>7. IdleInv
  BY DEF Init, IdleInv
<1> QED BY <1>1, <1>2, <1>3, <1>4, <1>5, <1>6, <1>7 DEF SessionInv

\* The inductive invariant of the session, whose parts the theorems below use.
THEOREM SessionInvariant == Spec => []SessionInv
<1>1. SessionInv /\ [Next]_vars => SessionInv'
  <2> SUFFICES ASSUME SessionInv, [Next]_vars PROVE SessionInv'
    OBVIOUS
  <2>1. FlagsOK /\ PlacesOK /\ DataOK /\ ThreadInv /\ RoomInv /\ OrderInv /\ IdleInv
    BY DEF SessionInv
  <2>2. FlagsOK' /\ PlacesOK' /\ DataOK' /\ ThreadInv' /\ RoomInv' /\ OrderInv' /\ IdleInv'
    BY <2>1, FlagStep, PlaceStep, DataStep, ThreadStep, RoomStep, OrderStep, IdleStep
  <2> QED BY <2>2 DEF SessionInv
<1> QED BY SessionInit, <1>1, PTL DEF Spec

\* Types, and the ring and the pacer's buffer within their sizes.
THEOREM SessionTypeCorrect == Spec => []TypeOK
<1>1. SessionInv => TypeOK
  BY Zenon DEF SessionInv, TypeOK, FlagsOK, PlacesOK, DataOK
<1> QED BY SessionInvariant, <1>1, PTL

\* What is in flight is what the network expects next, in order (SamplePacer.hpp:145-179,
\* SignalGen.cpp:580-591), until a batch finds the ring full.
THEOREM NoGaps == Spec => []StreamContiguous
<1>1. SessionInv => StreamContiguous
  <2> SUFFICES ASSUME SessionInv, ~lost PROVE /\ outputSample = Following(expect, Len(InFlight))
                                              /\ \A i \in 1 .. Len(InFlight) : InFlight[i] = Following(expect, i - 1)
    BY DEF StreamContiguous
  <2>1. scratch \in Seq(Batch) /\ ring \in Seq(Batch)
    BY DEF SessionInv, DataOK
  <2>2. Len(InFlight) = Len(scratch) + Len(ring)
    BY <2>1 DEF InFlight
  <2>3. \A i \in 1 .. Len(InFlight) : InFlight[i] = IF i <= Len(scratch) THEN scratch[i] ELSE ring[i - Len(scratch)]
    BY <2>1 DEF InFlight
  <2>4. ASSUME NEW i \in 1 .. Len(InFlight) PROVE InFlight[i] = Following(expect, i - 1)
    <3>1. CASE i <= Len(scratch)
      BY <2>1, <2>3, <3>1 DEF SessionInv, OrderInv
    <3>2. CASE ~(i <= Len(scratch))
      <4>1. i - Len(scratch) \in 1 .. Len(ring) /\ Len(scratch) + (i - Len(scratch)) - 1 = i - 1
        BY <2>1, <2>2, <3>2
      <4>2. ring[i - Len(scratch)] = Following(expect, Len(scratch) + (i - Len(scratch)) - 1)
        BY <4>1 DEF SessionInv, OrderInv
      <4> QED BY <2>3, <3>2, <4>1, <4>2
    <3> QED BY <3>1, <3>2
  <2> QED BY <2>2, <2>4 DEF SessionInv, OrderInv
<1> QED BY SessionInvariant, <1>1, PTL

\* However large the ring and the watermark, a batch is refused only after as many overtaken
\* STOPs as there are batches between the two (SignalGen.cpp:616-622, 806).
THEOREM LossIsEarned == Spec => []LossNeedsToggles
<1>1. SessionInv => LossNeedsToggles
  BY DEF SessionInv, RoomInv, LossNeedsToggles
<1> QED BY SessionInvariant, <1>1, PTL

\* The pacer's and the worker's threads never outlive the session's objects
\* (SignalGen.cpp:861-876), and the ring is cleared with no reader.
THEOREM ThreadsReaped == Spec => []NoOrphanThread
<1>1. SessionInv => NoOrphanThread
  BY DEF SessionInv, PlacesOK, ThreadInv, PacerPlaces, NoOrphanThread
<1> QED BY SessionInvariant, <1>1, PTL
=============================================================================
