---------------------------- MODULE TwinReceiver ----------------------------
(***************************************************************************)
(* What the twin's session loop makes of a batch, while the control worker *)
(* turns the receiver: two channels are mixed down at the frequency minus  *)
(* and plus an offset, by two threads of the pool; each is rotated by the  *)
(* offset and they are added, with the coherence veto in between.  CPLD    *)
(* model, AGC with attenuator and PGA, and the timers of CAL_STIM are here *)
(* too.                                                                    *)
(*                                                                         *)
(* Phases are counted in Circle-ths of a turn, frequencies in such steps   *)
(* per oversample.  A sample is its stream and its number; a veto that     *)
(* lets all pass is modelled, so its transforms cancel and the two windows *)
(* of its overlap add up to one.  Gains are in hundredths of a dB; the AGC *)
(* takes one peak a batch instead of one a sample.  Filters, noise, gain   *)
(* errors and their calibration, and the values that are mixed, are left   *)
(* out, and so is what a stimulus sounds like.                             *)
(***************************************************************************)
EXTENDS Integers, Sequences

CONSTANTS
  Circle,        \* phase steps of a turn
  Ratio,         \* OVERSAMPLE_RATIO
  Hop,           \* HOP_SIZE
  BatchSize,     \* nToProcess
  Edge, HalfSpan,\* CPLDModel's 15 MHz, and half the stream's span
  FirstVfo, FirstOsd,  \* --lo and --k
  Vfos, Osds,    \* what SET_VFO may ask for
  Errors,        \* peaks above or below the AGC's target, in dB
  HandStages,    \* sets of attenuator stages, by their dB, that SET_ATTEN may ask for
  HandCodes,     \* what SET_PGA_GAIN may ask for
  MaxLooped, MaxCommands  \* bounds

\* A batch is a number of whole hops, as the 10 ms of the default are; --lo and --k are what they are.
ASSUME ReceiverAssumption ==
  /\ {Circle, Ratio, Hop, BatchSize} \subseteq Nat \ {0} /\ BatchSize % Hop = 0
  /\ Vfos \cup Osds \cup Errors \cup {FirstVfo, FirstOsd, Edge} \subseteq Int
  /\ HalfSpan \in Nat

VARIABLES
  knobs,    \* the atomics of ControlHandler the loop reads, and the worker's place in a command
  cal,      \* calStimEnabled, and how many timers are pending
  loop,     \* what the loop is tuned to, its phases, and where it is
  octMode,  \* CPLDModel::octMode
  gains,    \* AGCManager's gains, the stages of the attenuator and the PGA's code
  veto,     \* history and overlapBuf of CoherenceVeto
  output    \* stream, outputSample, the last batch, pacer.isRunning(); batches so far

receiverVars == <<knobs, cal, loop, octMode, gains, veto, output>>

Stages == {3, 6, 12, 24}
Quiet == <<0, 0>>
SilentHistory == [n \in 0..Hop - 1 |-> Quiet]
NoOverlap == [n \in 0..2 * Hop - 1 |-> {}]
Rested == [history |-> SilentHistory, overlap |-> NoOverlap]

ReceiverInit ==
  /\ knobs = [vfo |-> FirstVfo, osd |-> FirstOsd, streaming |-> FALSE,
              at |-> "idle", next |-> 0, commands |-> 0]
  /\ cal = [on |-> FALSE, timers |-> 0]
  /\ loop = [at |-> "top", lo |-> FirstVfo, k |-> FirstOsd, phase |-> [ch \in 0..1 |-> 0], rotation |-> 0]
  /\ octMode = TRUE
  /\ gains = [mode |-> 0, wanted |-> 3000, applied |-> -100, stages |-> {}, pga |-> 5, byHand |-> TRUE]
  /\ veto = Rested
  /\ output = [stream |-> 1, sample |-> 0, last |-> <<>>, pacing |-> FALSE, batches |-> 0]

----------------------------------------------------------------------------
(* The worker, store by store.                                             *)

Command == knobs.at = "idle" /\ knobs.commands < MaxCommands
Counted == [knobs EXCEPT !.commands = @ + 1]
Goes(place, what) == [Counted EXCEPT !.at = place, !.next = what]
OnlyKnobs == UNCHANGED <<cal, loop, octMode, gains, veto, output>>

\* SET_VFO stores the frequency, then the offset.
StoreVfo(f, k) ==
  /\ Command
  /\ knobs' = [Goes("offset", k) EXCEPT !.vfo = f]
  /\ OnlyKnobs

StoreOffset ==
  /\ knobs.at = "offset"
  /\ knobs' = [knobs EXCEPT !.osd = knobs.next, !.at = "idle", !.next = 0]
  /\ OnlyKnobs

StartOrStop ==
  /\ Command
  /\ knobs' = [Counted EXCEPT !.streaming = ~@]
  /\ OnlyKnobs

\* SET_AGC_MODE.
SetAgc(mode) ==
  /\ Command
  /\ knobs' = Counted /\ gains' = [gains EXCEPT !.mode = mode]
  /\ UNCHANGED <<cal, loop, octMode, veto, output>>

\* SET_ATTEN stores one stage after the other.
SetStage(stage, set) == [gains EXCEPT !.stages = IF stage \in set THEN @ \cup {stage} ELSE @ \ {stage},
                                      !.byHand = TRUE]

SetSmallStages(set) ==
  /\ Command
  /\ knobs' = [Counted EXCEPT !.at = "stages", !.next = IF 24 \in set THEN 24 ELSE 0]
  /\ gains' = [gains EXCEPT !.stages = (@ \cap {24}) \cup (set \ {24}), !.byHand = TRUE]
  /\ UNCHANGED <<cal, loop, octMode, veto, output>>

SetLargeStage ==
  /\ knobs.at = "stages"
  /\ knobs' = [knobs EXCEPT !.at = "idle", !.next = 0]
  /\ gains' = SetStage(24, {knobs.next})
  /\ UNCHANGED <<cal, loop, octMode, veto, output>>

SetPga(code) ==
  /\ Command
  /\ knobs' = Counted /\ gains' = [gains EXCEPT !.pga = code, !.byHand = TRUE]
  /\ UNCHANGED <<cal, loop, octMode, veto, output>>

----------------------------------------------------------------------------
(* CAL_STIM: on, and a detached thread that sleeps and switches it off.    *)

\* A plausible slip: the timer is started first, and may be through by the time.
TimerThenStimulus ==
  \/ /\ Command
     /\ knobs' = Goes("stimulus", 0) /\ cal' = [cal EXCEPT !.timers = @ + 1]
  \/ /\ knobs.at = "stimulus"
     /\ knobs' = [knobs EXCEPT !.at = "idle"] /\ cal' = [cal EXCEPT !.on = TRUE]

StimulusThenTimer ==
  \/ /\ Command
     /\ knobs' = Goes("stimulus", 0) /\ cal' = [cal EXCEPT !.on = TRUE]
  \/ /\ knobs.at = "stimulus"
     /\ knobs' = [knobs EXCEPT !.at = "idle"] /\ cal' = [cal EXCEPT !.timers = @ + 1]

CalStim == StimulusThenTimer /\ UNCHANGED <<loop, octMode, gains, veto, output>>

\* Whichever call's timer it is.
TimerFires ==
  /\ cal.timers > 0
  /\ cal' = [on |-> FALSE, timers |-> cal.timers - 1]
  /\ UNCHANGED <<knobs, loop, octMode, gains, veto, output>>

----------------------------------------------------------------------------
(* The session loop.                                                       *)

Looped(place) == [loop EXCEPT !.at = place]

\* No stream is wanted.  The pacer runs if this stream had a batch.
Halt ==
  /\ loop.at = "top" /\ ~knobs.streaming
  /\ output' = [output EXCEPT !.sample = 0, !.last = <<>>, !.pacing = FALSE,
                              !.stream = IF output.pacing THEN @ + 1 ELSE @]
  /\ veto' = IF output.pacing THEN Rested ELSE veto
  /\ UNCHANGED <<knobs, cal, loop, octMode, gains>>

ReadVfo ==
  /\ loop.at = "top" /\ knobs.streaming /\ output.batches < MaxLooped
  /\ loop' = [at |-> "vfo", vfo |-> knobs.vfo, lo |-> loop.lo, k |-> loop.k,
               phase |-> loop.phase, rotation |-> loop.rotation]
  /\ UNCHANGED <<knobs, cal, octMode, gains, veto, output>>

\* updateWaterfallViewport(): in between nothing changes.
ModeAt(lo) == IF lo - HalfSpan > Edge THEN FALSE ELSE IF lo + HalfSpan < Edge THEN TRUE ELSE octMode

\* What has changed in frequency or offset takes effect in mixers and rotation at once.
ReadOffset ==
  /\ loop.at = "vfo"
  /\ loop' = [at |-> "mix", lo |-> loop.vfo, k |-> knobs.osd, todo |-> 0..1,
               phase |-> loop.phase, rotation |-> loop.rotation]
  /\ octMode' = IF loop.vfo # loop.lo \/ knobs.osd # loop.k THEN ModeAt(loop.vfo) ELSE octMode
  /\ UNCHANGED <<knobs, cal, gains, veto, output>>

\* processChannel() runs its oscillator through the batch.
Step(ch) == IF ch = 0 THEN loop.lo - loop.k ELSE loop.lo + loop.k

ProcessChannel(ch) ==
  /\ loop.at = "mix" /\ ch \in loop.todo
  /\ loop' = [loop EXCEPT !.phase[ch] = (@ + BatchSize * Ratio * Step(ch)) % Circle, !.todo = @ \ {ch}]
  /\ UNCHANGED <<knobs, cal, octMode, gains, veto, output>>

\* A plausible slip: one step of rotation an oversample, not a sample.
RotationOfOversamples == BatchSize * loop.k

\* The rotation turns by the offset's part of the sample rate, sample by sample.
RotationOfBatch == BatchSize * Ratio * loop.k

Recombine ==
  /\ loop.at = "mix" /\ loop.todo = {}
  /\ loop' = [at |-> "veto", lo |-> loop.lo, k |-> loop.k, phase |-> loop.phase,
               rotation |-> (loop.rotation + RotationOfBatch) % Circle]
  /\ UNCHANGED <<knobs, cal, octMode, gains, veto, output>>

\* processBatch(), hop by hop: a block is the hop before and this one; windowed before and after its
\* transforms, it is added to the overlap, whose first half is through.
SampleOf(n) == <<output.stream, output.sample + n>>
InBlock(h, n) == IF h = 0 /\ n < Hop THEN veto.history[n] ELSE SampleOf((h - 1) * Hop + n)
Windowed(h, overlap) == [n \in 0..2 * Hop - 1 |-> overlap[n] \cup {<<InBlock(h, n), n>>}]
Advanced(overlap) == [n \in 0..2 * Hop - 1 |-> IF n < Hop THEN overlap[n + Hop] ELSE {}]

\* The overlap before hop h.
Overlaps == LET before[h \in 0..BatchSize \div Hop] ==
                  IF h = 0 THEN veto.overlap ELSE Advanced(Windowed(h - 1, before[h - 1]))
            IN before

Vetoed == [s \in 0..BatchSize - 1 |-> Windowed(s \div Hop, Overlaps[s \div Hop])[s % Hop]]

\* A plausible slip: the history is not kept from batch to batch.
HistoryForgotten == SilentHistory

HistoryAfter == [n \in 0..Hop - 1 |-> SampleOf(BatchSize - Hop + n)]

ProcessBatch ==
  /\ loop.at = "veto"
  /\ veto' = [history |-> HistoryAfter, overlap |-> Overlaps[BatchSize \div Hop]]
  /\ output' = [output EXCEPT !.last = Vetoed]
  /\ loop' = Looped("agc")
  /\ UNCHANGED <<knobs, cal, octMode, gains>>

----------------------------------------------------------------------------
(* AGCManager::processReflex().                                            *)

InRange(gain) == IF gain < 0 THEN 0 ELSE IF gain > 6000 THEN 6000 ELSE gain

\* Down by half the error; up by a part of it that goes with the mode.
Reflex(error) ==
  InRange(gains.wanted - (IF error > 0 THEN 50 * error
                          ELSE CASE gains.mode = 1 -> 5 * error [] gains.mode = 2 -> error
                                 [] OTHER -> error \div 10))

\* setTotalAttenuation(): the largest stages first.
StagesFor(db) ==
  LET after24 == db - (IF db >= 24 THEN 24 ELSE 0)
      after12 == after24 - (IF after24 >= 12 THEN 12 ELSE 0)
      after6 == after12 - (IF after12 >= 6 THEN 6 ELSE 0)
  IN {stage \in Stages : CASE stage = 24 -> db >= 24 [] stage = 12 -> after24 >= 12
                           [] stage = 6 -> after12 >= 6 [] stage = 3 -> after6 >= 3}

\* A plausible slip: more gain, more attenuation.
AttenuationWith(gain) == LET db == 3 * (gain \div 300) IN IF db > 45 THEN 45 ELSE db

\* applyHardwareGain(): attenuation as far as the gain is below 45 dB, in steps of 3; what gain is above
\* that goes to the PGA, in steps of 4.
AttenuationFor(gain) == IF gain >= 4500 THEN 0 ELSE 3 * ((4500 - gain) \div 300)

PgaFor(gain) ==
  LET remaining == gain - 4500 + 100 * AttenuationFor(gain)
  IN IF remaining < 200 THEN 0 ELSE (remaining + 200) \div 400

\* Stages from the largest down, then the PGA, while the worker may set either.  From here on it is the
\* AGC's setting, unless the worker comes between or after.
FinishReflex(error) ==
  /\ loop.at = "agc"
  /\ LET gain == Reflex(error)
         far == gain - gains.applied > 20 \/ gains.applied - gain > 20
         apply == gains.mode # 0 /\ far
     IN /\ gains' = IF gains.mode = 0 THEN gains
                    ELSE IF ~apply THEN [gains EXCEPT !.wanted = gain]
                    ELSE [gains EXCEPT !.wanted = gain, !.applied = gain, !.byHand = FALSE,
                                       !.stages = (@ \cap {3, 6})
                                                  \cup (StagesFor(AttenuationFor(gain)) \ {3, 6})]
        /\ loop' = Looped(IF apply THEN "apply" ELSE "write")
  /\ UNCHANGED <<knobs, cal, octMode, veto, output>>

ApplyRest ==
  /\ loop.at = "apply"
  /\ gains' = [gains EXCEPT !.stages = (@ \ {3, 6}) \cup (StagesFor(AttenuationFor(gains.applied)) \cap {3, 6}),
                            !.pga = PgaFor(gains.applied)]
  /\ loop' = Looped("write")
  /\ UNCHANGED <<knobs, cal, octMode, veto, output>>

\* The batch is written, and the loop begins anew.
Finish ==
  /\ loop.at = "write"
  /\ output' = [output EXCEPT !.sample = @ + BatchSize, !.last = <<>>, !.pacing = TRUE, !.batches = @ + 1]
  /\ loop' = Looped("top")
  /\ UNCHANGED <<knobs, cal, octMode, gains, veto>>

ReceiverNext ==
  \/ (\E f \in Vfos, k \in Osds : StoreVfo(f, k)) \/ StoreOffset \/ StartOrStop
  \/ (\E mode \in 0..3 : SetAgc(mode)) \/ (\E set \in HandStages : SetSmallStages(set)) \/ SetLargeStage
  \/ (\E code \in HandCodes : SetPga(code)) \/ CalStim \/ TimerFires
  \/ Halt \/ ReadVfo \/ ReadOffset \/ (\E ch \in 0..1 : ProcessChannel(ch)) \/ Recombine \/ ProcessBatch
  \/ (\E error \in Errors : FinishReflex(error)) \/ ApplyRest \/ Finish

ReceiverSpec == ReceiverInit /\ [][ReceiverNext]_receiverVars

----------------------------------------------------------------------------
\* Both channels are turned by the same angle, whatever was tuned meanwhile: loop and rotation of one
\* together as much as those of the other, or their sum would fade.
ChannelsAgree ==
  loop.at = "top" => ((loop.phase[0] + loop.rotation) - (loop.phase[1] - loop.rotation)) % Circle = 0

\* The stream is through the veto whole: each sample once, a hop late, under both halves of the window,
\* from batch to batch; nothing of the stream before it comes first.
VetoWhole ==
  loop.at = "agc" =>
    \A s \in 0..BatchSize - 1 :
      LET n == output.sample + s - Hop
      IN IF n < 0 THEN \A part \in output.last[s] : part[1] = Quiet
         ELSE output.last[s] = {<<<<output.stream, n>>, s % Hop>>, <<<<output.stream, n>>, (s % Hop) + Hop>>}

\* The CPLD model is in the mode of the band the loop is tuned to, once the loop was tuned at all: it
\* begins in eight phases and hears only of changes, so a --lo above the edge is heard in the wrong mode.
AsBegun == <<loop.lo, loop.k>> = <<FirstVfo, FirstOsd>>
ModeOfBand == /\ loop.lo - HalfSpan > Edge => ~octMode \/ AsBegun
              /\ loop.lo + HalfSpan < Edge => octMode

\* A calibration stimulus ends: while it is on a timer will come.
StimulusEnds == cal.on => cal.timers > 0 \/ knobs.at = "stimulus"

\* Gain and attenuation together are what the AGC last asked for, to 3 dB, unless SET_ATTEN or
\* SET_PGA_GAIN came since it began to apply them.
Attenuation(set) == 3 * (IF 3 \in set THEN 1 ELSE 0) + 6 * (IF 6 \in set THEN 1 ELSE 0)
                    + 12 * (IF 12 \in set THEN 1 ELSE 0) + 24 * (IF 24 \in set THEN 1 ELSE 0)
GainAsWanted ==
  ~gains.byHand /\ loop.at # "apply" =>
    LET error == 100 * (4 * gains.pga - Attenuation(gains.stages)) - (gains.wanted - 4500)
    IN -320 < error /\ error < 320

\* All of these, of SignalGen's loop, CoherenceVeto, CPLDModel, AGCManager and ControlHandler.
TwinReceiverRight == ChannelsAgree /\ VetoWhole /\ ModeOfBand /\ StimulusEnds /\ GainAsWanted
=============================================================================
