------------------------------ MODULE Carriers ------------------------------
(***************************************************************************)
(* The signals that are sums of rotating phasors: ToneGenerator,           *)
(* AMGenerator and SSBGenerator, MorseGenerator's carrier, SweepGenerator, *)
(* and NoiseGenerator's table.  Each can be asked sample by sample, which      *)
(* computes the phase from the time, or for a batch, which rotates the     *)
(* phase of its first sample; the streaming thread does either, and its    *)
(* time starts again with every session.                                   *)
(*                                                                         *)
(* Phases are integers, Turn of them a turn, frequencies phases per        *)
(* sample; a sample is the phases of its components, amplitudes left out,  *)
(* and so are rounding and the renormalising that undoes it.  A sweep's    *)
(* time runs in half samples.                                              *)
(***************************************************************************)
EXTENDS Integers, SequencesExt

CONSTANTS Turn,          \* phases of a turn, a multiple of 4
          Waves,         \* the generators
          SweepDuration, \* sweepDuration_s_ in half samples
          NoiseTable,    \* length of noiseTable_
          MaxCount,      \* bound: samples of a batch
          LastSample     \* bound: samples of a session

ASSUME CarriersAssumption ==
  /\ Turn \in Nat \ {0} /\ Turn % 4 = 0
  /\ SweepDuration \in Nat \ {0} /\ SweepDuration % 2 = 0
  /\ NoiseTable \in Nat \ {0} /\ NoiseTable % 2 = 0
  /\ {MaxCount, LastSample} \subseteq Nat \ {0}

VARIABLES
  wave,     \* the generator
  noiseIdx, \* noiseIdx_
  sampleAt, \* the next sample of the session
  drawn,    \* history: samples asked for so far, over all sessions
  heard     \* the samples of the latest call or calls, and the first one's number

carrierVars == <<wave, noiseIdx, sampleAt, drawn, heard>>

Phase(p) == p % Turn

----------------------------------------------------------------------------
(* SweepGenerator, linear; h is a time in half samples.                    *)

\* The time within a sweep, which the second half of a back-and-forth runs backwards.
Progress(w, h) ==
  CASE w.again = "OneShot" -> IF h < SweepDuration THEN h ELSE SweepDuration
    [] w.again = "Repeat" -> h % SweepDuration
    [] w.again = "PingPong" ->
         LET e == h % (2 * SweepDuration) IN IF e > SweepDuration THEN 2 * SweepDuration - e ELSE e

\* frequencyAt(), times the duration.
FrequencyAt(w, h) == w.from * SweepDuration + (w.to - w.from) * Progress(w, h)

\* The integrals over h of a sweep up and of a sweep back, times twice the duration.
PhaseForDuration(w, h) == 2 * SweepDuration * w.from * h + (w.to - w.from) * h * h
PhaseForReverse(w, h) == 2 * SweepDuration * w.to * h - (w.to - w.from) * h * h

\* The sweeps completed are left out.
SweepPhaseOfCycle(w, h) == PhaseForDuration(w, Progress(w, h))

\* getPhase(): whole cycles and the one begun.
SweepPhase(w, h) ==
  LET once == PhaseForDuration(w, SweepDuration)
      cycle == IF w.again = "Repeat" THEN SweepDuration ELSE 2 * SweepDuration
      inCycle == h % cycle
  IN CASE w.again = "OneShot" -> PhaseForDuration(w, Progress(w, h))
       [] w.again = "Repeat" -> (h \div cycle) * once + PhaseForDuration(w, inCycle)
       [] w.again = "PingPong" /\ inCycle <= SweepDuration ->
            (h \div cycle) * 2 * once + PhaseForDuration(w, inCycle)
       [] OTHER -> (h \div cycle) * 2 * once + once + PhaseForReverse(w, inCycle - SweepDuration)

\* Nothing after a single sweep.
SweepIQ(w, t) ==
  IF w.again = "OneShot" /\ 2 * t > SweepDuration THEN <<>> ELSE <<SweepPhase(w, 2 * t)>>

----------------------------------------------------------------------------
(* getRfIQ().                                                              *)

ToneIQ(w, t) == [k \in DOMAIN w.tones |-> Phase(w.tones[k].freq * t + w.tones[k].phase)]

\* The carrier's phase and those of the tones of its envelope, as cosines.
AmIQ(w, t) == <<Phase(w.carrier * t)>> \o [k \in DOMAIN w.tones |-> Phase(w.tones[k].freq * t)]

\* A tone's audio, as a phasor, turns the carrier on, or, below it, its conjugate.
SsbIQ(w, t) ==
  [k \in DOMAIN w.tones |->
     LET audio == w.tones[k].freq * t IN Phase(w.carrier * t + (IF w.upper THEN audio ELSE -audio))]

\* A recording's sample, its quadrature as it is or, for the lower sideband, inverted.
RecordedIQ(w, t) == <<Phase(w.carrier * t), t, w.upper>>

\* Nothing with the key up.
KeyedIQ(w, t) == IF t \in w.down THEN <<Phase(w.carrier * t)>> ELSE <<>>

NoisePair(index) == <<index % NoiseTable, (index + 1) % NoiseTable>>

RfIQ(w, t, index) ==
  CASE w.kind = "tone" -> ToneIQ(w, t) [] w.kind = "am" -> AmIQ(w, t)
    [] w.kind = "ssb" -> SsbIQ(w, t)   [] w.kind = "sweep" -> SweepIQ(w, t)
    [] w.kind = "recorded" -> RecordedIQ(w, t) [] w.kind = "keyed" -> KeyedIQ(w, t)
    [] w.kind = "noise" -> NoisePair(index)

(* generateBatch(): the i-th sample from t0 on.                            *)

Rotated(freq, phase, t0, i) == Phase(Phase(freq * t0) + phase + i * Phase(freq))

ToneBatch(w, t0, i) == [k \in DOMAIN w.tones |-> Rotated(w.tones[k].freq, w.tones[k].phase, t0, i)]

\* The tones of the envelope are sines here.
AmBatch(w, t0, i) ==
  <<Rotated(w.carrier, 0, t0, i)>>
    \o [k \in DOMAIN w.tones |-> Rotated(w.tones[k].freq, -(Turn \div 4), t0, i)]

SsbBatch(w, t0, i) ==
  [k \in DOMAIN w.tones |->
     Rotated(w.carrier + (IF w.upper THEN w.tones[k].freq ELSE -w.tones[k].freq), 0, t0, i)]

RecordedBatch(w, t0, i) == <<Rotated(w.carrier, 0, t0, i), t0 + i, w.upper>>

\* The phase goes on while the key is up.
KeyedBatch(w, t0, i) == IF t0 + i \in w.down THEN <<Rotated(w.carrier, 0, t0, i)>> ELSE <<>>

BatchIQ(w, t0, i, index) ==
  CASE w.kind = "tone" -> ToneBatch(w, t0, i) [] w.kind = "am" -> AmBatch(w, t0, i)
    [] w.kind = "ssb" -> SsbBatch(w, t0, i)
    [] w.kind = "recorded" -> RecordedBatch(w, t0, i) [] w.kind = "keyed" -> KeyedBatch(w, t0, i)
    [] w.kind = "sweep" -> RfIQ(w, t0 + i, index) \* AntennaStimulus's: sample by sample
    [] w.kind = "noise" -> NoisePair(index + 2 * i)

----------------------------------------------------------------------------
CarrierInit ==
  /\ wave \in Waves
  /\ noiseIdx = 0 /\ sampleAt = 0 /\ drawn = 0
  /\ heard = [from |-> 0, batch |-> FALSE, iq |-> <<>>]

Emit(count, batch, sample(_)) ==
  /\ sampleAt + count <= LastSample
  /\ heard' = [from |-> sampleAt, batch |-> batch, iq |-> [i \in 1..count |-> sample(i - 1)]]
  /\ sampleAt' = sampleAt + count
  /\ drawn' = (drawn + count) % NoiseTable
  /\ noiseIdx' = IF wave.kind = "noise" THEN (noiseIdx + 2 * count) % NoiseTable ELSE noiseIdx
  /\ UNCHANGED wave

InBatch(count) == Emit(count, TRUE, LAMBDA i : BatchIQ(wave, sampleAt, i, noiseIdx))
OneByOne(count) == Emit(count, FALSE, LAMBDA i : RfIQ(wave, sampleAt + i, noiseIdx + 2 * i))

\* A session's time starts at 0; the noise goes on.
StartAgain ==
  /\ sampleAt' = 0 /\ heard' = [heard EXCEPT !.from = 0, !.iq = <<>>]
  /\ UNCHANGED <<wave, noiseIdx, drawn>>

CarrierNext ==
  \/ \E count \in 1..MaxCount : InBatch(count) \/ OneByOne(count)
  \/ StartAgain

----------------------------------------------------------------------------
\* What the envelope's tones in a batch lag behind those asked for one by one: a quarter of a turn.
Lag(k) == IF wave.kind = "am" /\ heard.batch /\ k > 1 THEN Turn \div 4 ELSE 0

\* A batch is the samples one by one, wherever it begins and whatever came before, but for the phase
\* of an AM signal's audio.
BatchesAgree ==
  wave.kind # "noise" =>
    \A i \in DOMAIN heard.iq :
      LET one == RfIQ(wave, heard.from + i - 1, 0) IN
      /\ Len(heard.iq[i]) = Len(one)
      /\ \A k \in DOMAIN one : IF wave.kind \in {"sweep", "recorded"} THEN heard.iq[i][k] = one[k]
                               ELSE Phase(heard.iq[i][k] + Lag(k) - one[k]) = 0

\* A sweep's phase grows from sample to sample by its frequency between them, in any cycle.
SweptContinuously ==
  wave.kind = "sweep" =>
    \A i \in 2..Len(heard.iq) :
      heard.iq[i] # <<>> =>
        heard.iq[i][1] - heard.iq[i - 1][1]
          = 4 * FrequencyAt(wave, 2 * (heard.from + i) - 3)

\* Noise takes up the table where it left it: I from the even entries, Q from the odd ones.
NoiseGoesOn ==
  wave.kind = "noise" =>
    \A i \in DOMAIN heard.iq :
      LET number == drawn - Len(heard.iq) + i - 1
      IN heard.iq[i] = <<(2 * number) % NoiseTable, ((2 * number) % NoiseTable) + 1>>

\* A phasor says the same signal however it is asked.
CarriersRight == BatchesAgree /\ SweptContinuously /\ NoiseGoesOn
=============================================================================
