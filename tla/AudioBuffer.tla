---------------------------- MODULE AudioBuffer ----------------------------
(***************************************************************************)
(* The audio ring of the application (RateAdaptiveBuffer.hpp), between     *)
(*                                                                         *)
(*   the DSP thread      write(), one sample at a time, from               *)
(*                       DSPEngine::processIQFrame()                       *)
(*   the audio callback  read(), from AudioEngine::processAudio(), which   *)
(*                       stretches, skips or reads straight by fill level  *)
(*   the UI thread       clear(), from DSPEngine::seekPlayback()           *)
(*                                                                         *)
(* The three share writePos, readPos and isBuffering with no lock.  A step *)
(* loads one of them that another thread stores to, or stores one; a       *)
(* sample is copied in the step that loads or stores the position the copy *)
(* goes with.  A slot is fresh until it is played, which is all that is    *)
(* told apart of the samples; the statistics are left out, and so is       *)
(* writeBatch(), which nothing calls.                                      *)
(***************************************************************************)
EXTENDS Integers

CONSTANTS AudioCapacity, \* config.capacity
          LowMark,       \* capacity * lowThreshold: below this fill read() stretches
          HighMark,      \* capacity * highThreshold: above it read() skips and write() drops
          TargetMark,    \* capacity * targetFillRatio: at this fill buffering ends
          CallbackSize   \* samples asked for by one callback

ASSUME AudioAssumption ==
  /\ {AudioCapacity, LowMark, HighMark, TargetMark, CallbackSize} \subseteq Nat \ {0}
  /\ TargetMark <= HighMark /\ LowMark <= HighMark /\ HighMark < AudioCapacity - 1

VARIABLES
  playing,     \* AudioEngine::playing: the device calls back
  slot,        \* buffer: "fresh" or "played"
  writePos, readPos, isBuffering,
  writer,      \* how far write() is, and the positions it has loaded
  reader,      \* how far read() is, the position it has loaded, and the samples still to produce
               \* or, once a stretch has measured the ring, the fill it found
  clearer,     \* how far clear() is, and the write position it has loaded
  loose,       \* history: one of the four interleavings of PlaysOnce; from then on the slots are not
               \* followed
  replayed,    \* history: before that, a slot was played that was not fresh
  stranded     \* history: the ring was full and buffering by a step that wrote no sample

audioVars == <<playing, slot, writePos, readPos, isBuffering, writer, reader, clearer,
               loose, replayed, stranded>>
audioHistory == <<loose, replayed, stranded>>

NextPos(p) == (p + 1) % AudioCapacity

\* available(), with the positions as they are now.
Available == (writePos - readPos) % AudioCapacity

Followed(s, isLoose) == IF isLoose THEN [p \in DOMAIN s |-> "played"] ELSE s
Loosens(happens) == loose' = (loose \/ happens) /\ slot' = Followed(slot, loose')

Idle == [at |-> "idle", w |-> 0, r |-> 0]
Resting == [at |-> "idle", r |-> 0, left |-> 0]

\* GUIEngine::init() has configured the buffer; the scripts start the device.
AudioInit ==
  /\ playing = FALSE
  /\ slot = [p \in 0..AudioCapacity-1 |-> "played"]
  /\ writePos = 0 /\ readPos = 0 /\ isBuffering = TRUE
  /\ writer = Idle /\ reader = Resting
  /\ clearer = [at |-> "idle", w |-> 0]
  /\ loose = FALSE /\ replayed = FALSE /\ stranded = FALSE

----------------------------------------------------------------------------
(* write().                                                                *)

LoadForWrite ==
  /\ writer.at = "idle"
  /\ writer' = IF NextPos(writePos) = readPos THEN [at |-> "full", w |-> writePos, r |-> readPos]
               ELSE [at |-> "store", w |-> writePos, r |-> 0]
  /\ UNCHANGED <<playing, slot, writePos, readPos, isBuffering, reader, clearer, audioHistory>>

\* The buffer was full: shouldDrop() looks at the fill again.  A sample that is dropped does
\* not get to the end of buffering.
DropOrOverwrite ==
  /\ writer.at = "full"
  /\ writer' = IF Available > HighMark THEN Idle ELSE [writer EXCEPT !.at = "advance"]
  /\ UNCHANGED <<playing, slot, writePos, readPos, isBuffering, reader, clearer, audioHistory>>

\* "Overwrite oldest": from the position loaded before shouldDrop().
AdvanceReader ==
  /\ writer.at = "advance"
  /\ readPos' = NextPos(writer.r)
  /\ Loosens(TRUE)
  /\ writer' = [writer EXCEPT !.at = "store", !.r = 0]
  /\ UNCHANGED <<playing, writePos, isBuffering, reader, clearer, replayed, stranded>>

StoreSample ==
  /\ writer.at = "store"
  /\ loose' = (loose \/ NextPos(writer.w) = readPos)
  /\ slot' = Followed([slot EXCEPT ![writer.w] = "fresh"], loose')
  /\ writePos' = NextPos(writer.w)
  /\ writer' = [Idle EXCEPT !.at = "check"]
  /\ UNCHANGED <<playing, readPos, isBuffering, reader, clearer, replayed, stranded>>

\* Is it buffering, and is the target reached?  A plausible slip: the target is the size of the
\* ring, which no fill reaches.
CheckFillAtCapacity ==
  /\ writer.at = "check"
  /\ writer' = IF isBuffering /\ Available >= AudioCapacity THEN [Idle EXCEPT !.at = "end"] ELSE Idle
  /\ UNCHANGED <<playing, slot, writePos, readPos, isBuffering, reader, clearer, audioHistory>>

\* Is it buffering, and is the target reached?  Only write() ends buffering, so that what it loads
\* first still holds when it loads readPos.
CheckFill ==
  /\ writer.at = "check"
  /\ writer' = IF isBuffering /\ Available >= TargetMark THEN [Idle EXCEPT !.at = "end"] ELSE Idle
  /\ UNCHANGED <<playing, slot, writePos, readPos, isBuffering, reader, clearer, audioHistory>>

\* Then buffering ends, whoever has begun it anew since.
EndBuffering ==
  /\ writer.at = "end"
  /\ isBuffering' = FALSE
  /\ writer' = Idle
  /\ UNCHANGED <<playing, slot, writePos, readPos, reader, clearer, audioHistory>>

\* History: the ring is full and buffering by this step, which does not write a sample.
Strand(r, buffering) ==
  /\ stranded' = (stranded \/ (buffering /\ NextPos(writePos) = r))
  /\ UNCHANGED replayed

\* The store with which read() and clear() begin buffering, on whatever the ring is by then.
BeginBuffering == isBuffering' = TRUE /\ Strand(readPos, TRUE) /\ UNCHANGED loose

\* A store of readPos by the callback or clear(), who loaded what it is computed from before.
MoveReadPos(r, cuts) == readPos' = r /\ Strand(r, isBuffering) /\ Loosens(cuts)

----------------------------------------------------------------------------
(* read(), called by the audio device for CallbackSize samples.            *)

\* Silence while buffering.
Callback ==
  /\ playing /\ reader.at = "idle"
  /\ ~isBuffering
  /\ reader' = [at |-> "enter", r |-> 0, left |-> CallbackSize]
  /\ UNCHANGED <<playing, slot, writePos, readPos, isBuffering, writer, clearer, audioHistory>>

\* A load of readPos: the first half of available(), or of a turn of a loop.
Loading == [enter |-> "entered", choose |-> "chosen", direct |-> "playDirect", skip |-> "playSkip",
            catchUp |-> "caught", extra |-> "storeExtra", stretch |-> "measured"]
LoadReadPos ==
  /\ reader.at \in DOMAIN Loading
  /\ reader.at \in {"direct", "skip"} => reader.left > 0
  /\ reader' = [reader EXCEPT !.at = Loading[@], !.r = readPos]
  /\ UNCHANGED <<playing, slot, writePos, readPos, isBuffering, writer, clearer, audioHistory>>

\* The other half loads writePos.
Found == (writePos - reader.r) % AudioCapacity

\* With nothing to play it goes back to buffering; otherwise the fill level, asked for again, decides.
Entered ==
  /\ reader.at = "entered"
  /\ reader' = [reader EXCEPT !.at = IF Found = 0 THEN "empty" ELSE "choose", !.r = 0]
  /\ UNCHANGED <<playing, slot, writePos, readPos, isBuffering, writer, clearer, audioHistory>>
Starve ==
  /\ reader.at = "empty"
  /\ BeginBuffering
  /\ reader' = Resting
  /\ UNCHANGED <<playing, slot, writePos, readPos, writer, clearer>>
Way == CASE Found < LowMark -> "stretch" [] Found > HighMark -> "skip" [] OTHER -> "direct"
ChooseWay ==
  /\ reader.at = "chosen"
  /\ reader' = [reader EXCEPT !.at = Way, !.r = 0]
  /\ UNCHANGED <<playing, slot, writePos, readPos, isBuffering, writer, clearer, audioHistory>>

\* A turn of the loop of readDirect() or readWithSkip(), readPos loaded: the sample there, if there
\* is one, is played.  With none the rest of the callback is silent or not, as samples come.
PlayOne ==
  /\ reader.at \in {"playDirect", "playSkip"}
  /\ IF reader.r = writePos
     THEN /\ reader' = [reader EXCEPT !.at = IF @ = "playSkip" THEN "skip" ELSE "direct",
                                      !.r = 0, !.left = @ - 1]
          /\ UNCHANGED <<slot, replayed>>
     ELSE /\ slot' = [slot EXCEPT ![reader.r] = "played"]
          /\ replayed' = (replayed \/ (~loose /\ slot[reader.r] = "played"))
          /\ reader' = [reader EXCEPT !.at = IF @ = "playSkip" THEN "storeSkip" ELSE "storeDirect",
                                      !.left = @ - 1]
  /\ UNCHANGED <<playing, writePos, readPos, isBuffering, writer, clearer, loose, stranded>>

\* Now and then readWithSkip() goes on to leave out one more sample.
StoreReadPos ==
  /\ reader.at \in {"storeDirect", "storeSkip", "storeExtra"}
  /\ MoveReadPos(NextPos(reader.r), clearer.at = "loaded")
  /\ \/ reader' = [reader EXCEPT !.at = IF @ = "storeDirect" THEN "direct" ELSE "skip", !.r = 0]
     \/ reader.at = "storeSkip" /\ reader' = [reader EXCEPT !.at = "catchUp", !.r = 0]
  /\ UNCHANGED <<playing, writePos, isBuffering, writer, clearer>>

\* A plausible slip: the extra sample is left out whether there is one or not.
CatchUpBlindly ==
  /\ reader.at = "caught"
  /\ reader' = [reader EXCEPT !.at = "extra", !.r = 0]
  /\ UNCHANGED <<playing, slot, writePos, readPos, isBuffering, writer, clearer, audioHistory>>

\* If there is one: available(), then readPos is loaded again, then stored.
CatchUp ==
  /\ reader.at = "caught"
  /\ reader' = [reader EXCEPT !.at = IF Found > 0 THEN "extra" ELSE "skip", !.r = 0]
  /\ UNCHANGED <<playing, slot, writePos, readPos, isBuffering, writer, clearer, audioHistory>>

\* readWithStretch() measures the ring first; one sample is not enough.
Measure ==
  /\ reader.at = "measured"
  /\ reader' = IF Found < 2 THEN Resting ELSE [at |-> "stretchFrom", r |-> 0, left |-> Found]
  /\ UNCHANGED <<playing, slot, writePos, readPos, isBuffering, writer, clearer, audioHistory>>

\* The output is made of fewer samples than it is long, between the position loaded now and the fill
\* found before; the last one stays for the next call.
Consumed(avail) == {IF k < avail - 1 THEN k ELSE avail - 1 : k \in {CallbackSize - 1, CallbackSize}}
Stretch ==
  /\ reader.at = "stretchFrom"
  /\ \E k \in Consumed(reader.left) :
       LET passed == {(readPos + i) % AudioCapacity : i \in 0..k-1}
       IN /\ slot' = [p \in DOMAIN slot |-> IF p \in passed THEN "played" ELSE slot[p]]
          /\ replayed' = (replayed \/ (~loose /\ \E p \in passed : slot[p] = "played"))
          /\ reader' = [at |-> "storeStretch", r |-> (readPos + k) % AudioCapacity, left |-> 0]
  /\ UNCHANGED <<playing, writePos, readPos, isBuffering, writer, clearer, loose, stranded>>
StoreStretch ==
  /\ reader.at = "storeStretch"
  /\ MoveReadPos(reader.r, clearer.at = "loaded")
  /\ reader' = Resting
  /\ UNCHANGED <<playing, writePos, isBuffering, writer, clearer>>

CallbackEnds ==
  /\ reader.at \in {"direct", "skip"} /\ reader.left = 0
  /\ reader' = Resting
  /\ UNCHANGED <<playing, slot, writePos, readPos, isBuffering, writer, clearer, audioHistory>>

----------------------------------------------------------------------------
(* The UI thread.                                                          *)

\* AudioEngine::start() and stop(); stopping waits for a callback that is running.
StartAudio ==
  /\ ~playing
  /\ playing' = TRUE
  /\ UNCHANGED <<slot, writePos, readPos, isBuffering, writer, reader, clearer, audioHistory>>
StopAudio ==
  /\ playing /\ reader.at = "idle"
  /\ playing' = FALSE
  /\ UNCHANGED <<slot, writePos, readPos, isBuffering, writer, reader, clearer, audioHistory>>

\* clear(): what has not been played by the time it loads writePos is given up ...
ClearLoads ==
  /\ clearer.at = "idle"
  /\ clearer' = [at |-> "loaded", w |-> writePos]
  /\ UNCHANGED <<playing, slot, writePos, readPos, isBuffering, writer, reader, audioHistory>>
Clear ==
  /\ clearer.at = "loaded"
  /\ MoveReadPos(clearer.w, reader.at \in {"caught", "extra", "measured", "stretchFrom"})
  /\ clearer' = [at |-> "stored", w |-> 0]
  /\ UNCHANGED <<playing, writePos, isBuffering, writer, reader>>

\* ... and buffering begins again.
ClearBuffers ==
  /\ clearer.at = "stored"
  /\ BeginBuffering
  /\ clearer' = [at |-> "idle", w |-> 0]
  /\ UNCHANGED <<playing, slot, writePos, readPos, writer, reader>>

----------------------------------------------------------------------------

Write == LoadForWrite \/ DropOrOverwrite \/ AdvanceReader \/ StoreSample \/ CheckFill \/ EndBuffering
Read == \/ Callback \/ LoadReadPos \/ Entered \/ Starve \/ ChooseWay \/ PlayOne \/ StoreReadPos \/ CatchUp
        \/ Measure \/ Stretch \/ StoreStretch \/ CallbackEnds
AudioNext == Write \/ Read \/ StartAudio \/ StopAudio \/ ClearLoads \/ Clear \/ ClearBuffers

\* Samples keep coming.
AudioFairness == WF_audioVars(Write)

AudioSpec == AudioInit /\ [][AudioNext]_audioVars /\ AudioFairness

----------------------------------------------------------------------------

\* No sample is played twice, whatever the callback does while samples come and the UI thread
\* clears the ring, but for the interleavings the code leaves open: write() has moved readPos, to a
\* position older than its decision to (RateAdaptiveBuffer.hpp:107); a read() that clear() had
\* overtaken took readPos back after write() had loaded it, so that a sample overfills the ring
\* (:96-112); clear() fell between available() and the load of readPos that relies on it, so that
\* readPos passes writePos (:315-334, :389-391); or a read() stored readPos between the load and
\* the store of clear() itself, which takes it back (:291).
PlaysOnce == ~replayed

\* Buffering ends while samples come, as long as the ring is not full when it begins, nor made
\* full by a stale store of readPos (on a full ring write() drops every sample before it gets
\* to the end of buffering), and the user does not clear the ring again.
SilenceEndsUnlessStranded == isBuffering ~> (~isBuffering \/ clearer.at = "stored" \/ stranded)
=============================================================================
