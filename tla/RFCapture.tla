----------------------------- MODULE RFCapture -----------------------------
(***************************************************************************)
(* RFCapturePlayer.hpp, and StimulusLua.cpp's loadWavFile(): recordings,   *)
(* read from WAV files by two loaders and from raw files, and turned onto  *)
(* a carrier with a phasor that is rotated as long as the calls follow     *)
(* each other at one distance.                                             *)
(*                                                                         *)
(* A file is its chunks, a sample where in the file it is read ("zero"     *)
(* when the loader reads nothing for it).  Times are in samples and phases *)
(* integers; the tolerance of the comparison of times is left out.         *)
(***************************************************************************)
EXTENDS Integers, SequencesExt

CONSTANTS Chunks,    \* sequences of chunks after "WAVE", with their sizes
          Encodings, \* tag, bits and channels of a WAV file
          RawSizes,  \* sizes of raw files
          Frequency, \* centerFreqHz, in phases per sample
          FullTurn,  \* phases of a turn
          LastTime   \* bound: times asked for

ASSUME RFCaptureAssumption ==
  /\ Chunks \subseteq Seq([id : {"fmt", "data", "other"}, size : Nat])
  /\ \A chunks \in Chunks : chunks[1].id = "fmt" \* the encoding is read at fixed offsets
  /\ Encodings \subseteq [tag : Nat, bits : Nat, channels : Nat \ {0}]
  /\ \A e \in Encodings : e.bits >= 8 \* fewer and the loaders divide by zero
  /\ RawSizes \subseteq Nat /\ Frequency \in Nat /\ FullTurn \in Nat \ {0} /\ LastTime \in Nat

VARIABLES
  wav,    \* the file: chunks and encoding
  player, \* samplesI and samplesQ, swapIQ, loop
  phasor, \* lastTimeS, lastDeltaS, the phases of (lastCos, lastSin) and (cosD, sinD)
  asked   \* history: the time asked for last, whether it was so twice in a row, what was answered

captureVars == <<wav, player, phasor, asked>>

----------------------------------------------------------------------------
(* Loading.                                                                *)

\* Where a chunk begins: chunks are padded to an even length.
Begins(chunks, k) ==
  FoldLeft(LAMBDA at, chunk : at + 8 + chunk.size + (chunk.size % 2), 12, SubSeq(chunks, 1, k - 1))

\* Where the loaders look for the k-th: they do not know of the padding.
LooksAt(chunks, k) ==
  FoldLeft(LAMBDA at, chunk : at + 8 + chunk.size, 12, SubSeq(chunks, 1, k - 1))

\* The data chunk found, 0 if none is: past a chunk of odd length they read what is no chunk.
FindData(chunks) ==
  LET found == {k \in DOMAIN chunks : chunks[k].id = "data" /\ LooksAt(chunks, k) = Begins(chunks, k)}
  IN IF found = {} THEN 0 ELSE CHOOSE k \in found : \A l \in found : k <= l

\* The bytes a sample is read from: none in an encoding the loader does not know.
ReadWidth(e) ==
  CASE e.tag = 3 /\ e.bits = 32 -> 4
    [] e.tag = 1 /\ e.bits \in {8, 16, 24, 32} -> e.bits \div 8
    [] OTHER -> 0

\* loadWav(): I, Q from the second channel, the others skipped.
LoadWav(file) ==
  LET k == FindData(file.chunks)
      e == file.encoding
      bytes == e.bits \div 8
      width == ReadWidth(e)
      step == width + (IF e.channels > 1 THEN width + bytes * (e.channels - 2) ELSE 0)
      at(i) == LooksAt(file.chunks, k) + 8 + (i - 1) * step
      value(pos) == IF width = 0 THEN "zero" ELSE ToString(pos)
  IN IF k = 0 THEN <<>>
     ELSE [i \in 1..file.chunks[k].size \div (bytes * e.channels) |->
             [i |-> value(at(i)), q |-> IF e.channels > 1 THEN value(at(i) + width) ELSE "zero"]]

\* loadWavFile(): the first channel, the others skipped.
LoadWavFile(file) ==
  LET k == FindData(file.chunks)
      e == file.encoding
      bytes == e.bits \div 8
      step == ReadWidth(e) + bytes * (e.channels - 1)
  IN IF k = 0 THEN <<>>
     ELSE [i \in 1..(file.chunks[k].size \div bytes) \div e.channels |->
             IF ReadWidth(e) = 0 THEN "zero"
             ELSE ToString(LooksAt(file.chunks, k) + 8 + (i - 1) * step)]

\* loadFile(): pairs of samples of a width.
LoadRaw(size, width) ==
  [i \in 1..size \div (2 * width) |->
     [i |-> ToString((i - 1) * 2 * width), q |-> ToString((i - 1) * 2 * width + width)]]

----------------------------------------------------------------------------
(* Playing.                                                                *)

\* The frames (from 1) around a time, none outside a recording that does not loop.
FramesAround(t) ==
  LET size == Len(player.frames)
      at == IF player.loop THEN t % size ELSE t
  IN IF size = 0 \/ at \notin 0..size-1 THEN <<>> ELSE <<at + 1, ((at + 1) % size) + 1>>

Frame(k) ==
  LET frame == player.frames[k]
  IN IF player.swap THEN [i |-> frame.q, q |-> frame.i] ELSE frame

\* The distance is kept when the times no longer follow at it.
TurnedAnyway(t) ==
  LET sequential == phasor.last >= 0 /\ t > phasor.last
      measured == phasor.delta = 0 /\ phasor.last >= 0 /\ t > phasor.last
      delta == IF measured THEN t - phasor.last ELSE phasor.delta
      turn == IF measured THEN (Frequency * delta) % FullTurn ELSE phasor.turn
  IN [last |-> t, delta |-> delta, turn |-> turn,
      phase |-> (IF sequential THEN phasor.phase + turn ELSE Frequency * t) % FullTurn]

\* As far from the last time as that was from the one before: turn on; else compute the phase, and the
\* distance and its rotation if time went on.
Turned(t) ==
  LET sequential == phasor.last >= 0 /\ t = phasor.last + phasor.delta
      delta == IF sequential THEN phasor.delta ELSE 0
      measured == delta = 0 /\ phasor.last >= 0 /\ t > phasor.last
  IN [last |-> t,
      delta |-> IF measured THEN t - phasor.last ELSE delta,
      phase |-> (IF sequential THEN phasor.phase + phasor.turn ELSE Frequency * t) % FullTurn,
      turn |-> IF measured THEN (Frequency * (t - phasor.last)) % FullTurn ELSE phasor.turn]

Files == [chunks : Chunks, encoding : Encodings]

CaptureInit ==
  /\ wav \in Files
  /\ player = [frames |-> <<>>, swap |-> FALSE, loop |-> FALSE]
  /\ phasor = [last |-> -1, delta |-> 0, phase |-> 0, turn |-> 0]
  /\ asked = [is |-> FALSE, at |-> 0, twice |-> FALSE]

Load(swap, loop) ==
  /\ player.frames = <<>> /\ LoadWav(wav) # <<>>
  /\ player' = [frames |-> LoadWav(wav), swap |-> swap, loop |-> loop]
  /\ UNCHANGED <<wav, phasor, asked>>

\* getRfIQ(timeS): outside the recording the phasor stays.
AskIQ(t) ==
  /\ player.frames # <<>>
  /\ phasor' = IF FramesAround(t) = <<>> THEN phasor ELSE Turned(t)
  /\ asked' = [is |-> FramesAround(t) # <<>>, at |-> t, twice |-> phasor.last = t]
  /\ UNCHANGED <<wav, player>>

CaptureNext ==
  \/ \E swap \in BOOLEAN, loop \in BOOLEAN : Load(swap, loop)
  \/ \E t \in 0..LastTime : AskIQ(t)

----------------------------------------------------------------------------
\* Of a WAV file whose chunks before the data are of even length both loaders read all samples where
\* they are, the pairs of the one with the samples of the other, if it is in an encoding they know.
LoadedWhole ==
  LET e == wav.encoding
      bytes == e.bits \div 8
      k == SelectInSeq(wav.chunks, LAMBDA chunk : chunk.id = "data")
      begin == Begins(wav.chunks, k) + 8
      even == \A j \in 1..k-1 : wav.chunks[j].size % 2 = 0
  IN IF k = 0 \/ ~even THEN LoadWav(wav) = <<>> /\ LoadWavFile(wav) = <<>>
     ELSE LET frames == LoadWav(wav) IN
          /\ DOMAIN frames = 1..wav.chunks[k].size \div (bytes * e.channels)
          /\ [i \in DOMAIN frames |-> frames[i].i] = LoadWavFile(wav)
          /\ \A i \in DOMAIN frames :
               IF ReadWidth(e) = 0 THEN frames[i] = [i |-> "zero", q |-> "zero"]
               ELSE /\ frames[i].i = ToString(begin + (i - 1) * bytes * e.channels)
                    /\ e.channels > 1 =>
                         frames[i].q = ToString(begin + (i - 1) * bytes * e.channels + bytes)

\* A raw file's pairs are read one after the other and inside it.
RawInside ==
  player.frames # <<>> => \A size \in RawSizes, width \in {1, 2, 4, 8} :
    LET frames == LoadRaw(size, width) IN
    /\ 2 * width * Len(frames) \in size - 2 * width + 1..size
    /\ \A i \in DOMAIN frames : frames[i].i = ToString(2 * width * (i - 1))

\* Whatever times were asked for before, the phase is the time's, unless a time is asked for twice in a
\* row, and the frames are those around it.
PhaseIsTheTimes ==
  asked.is =>
    /\ asked.twice \/ phasor.phase = (Frequency * asked.at) % FullTurn
    /\ LET at == FramesAround(asked.at) IN
       /\ at # <<>> /\ ToSet(at) \subseteq DOMAIN player.frames
       /\ Frame(at[1]) \in {player.frames[at[1]],
                            [i |-> player.frames[at[1]].q, q |-> player.frames[at[1]].i]}

\* A recording is read from its file and put on its carrier.
RecordingRight == LoadedWhole /\ RawInside /\ PhaseIsTheTimes
=============================================================================
