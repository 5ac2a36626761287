------------------------------- MODULE River -------------------------------
(***************************************************************************)
(* The other way of the samples that Baseband makes audio of, to the river *)
(* of the application: the DSP thread keeps the last samples,              *)
(* the UI thread takes a spectrum of them, adds it as a row to             *)
(* RiverRenderer's ring, moves all rows when the receiver is tuned, and    *)
(* draws.  Each sample carries the frequency the twin was tuned to when it *)
(* was sent; a command takes its time to reach the twin.                   *)
(*                                                                         *)
(* The zeros the sample ring begins with count as samples up to nought.    *)
(*                                                                         *)
(* A cell of the river is what was heard at one frequency in one row;      *)
(* Empty is minDB.  Levels, colours and the average over rows (four tenths *)
(* of the row before stay in each, moved or not) are left out.             *)
(***************************************************************************)
EXTENDS Baseband

CONSTANTS
  FreqBins,     \* freqBins, and FFT_SIZE
  Depth,        \* historyDepth
  HzPerBin,     \* sampleRate / freqBins
  TuneSteps,    \* by how much the receiver is tuned, up or down
  Viewports,    \* records [min, max]: freqMinNorm and freqMaxNorm, in quarters, 4 added
  MaxRows, MaxRetuned, MaxHeard  \* bounds: rows, tunings, samples

ASSUME RiverAssumption ==
  /\ {FreqBins, Depth, HzPerBin} \subseteq Nat \ {0, 1} /\ FreqBins % 2 = 0
  /\ TuneSteps \subseteq Int
  /\ \A v \in Viewports : v.min \in Int /\ v.max \in Int /\ v.min < v.max

VARIABLES
  iq,   \* iqBuffer, iqBufferWritePos; how many samples there were
  taker,  \* the UI thread in computeSpectrum()
  tuner,   \* lastHwCenter, what was last sent, what the twin is tuned to; how often it was tuned
  river,   \* rows, topRow, textureData, textureDirty; rows so far
  picture    \* what was drawn last

riverVars == <<iq, taker, tuner, river, picture>>

Cols == 0..Depth - 1
Places == 0..FreqBins - 1
Empty == [row |-> 0]
Blank == [k \in Places |-> Empty]

RiverInit ==
  /\ iq = [ring |-> [k \in Places |-> [n |-> k + 1 - FreqBins, lo |-> 0]], pos |-> 0, count |-> 0]
  /\ taker = [at |-> "idle"]
  /\ tuner = [center |-> 0, sent |-> 0, lo |-> 0, count |-> 0, since |-> 0]
  /\ river = [rows |-> [r \in Cols |-> Blank], top |-> 0, added |-> 0, dirty |-> TRUE,
              texture |-> [f \in Places |-> [t \in Cols |-> Empty]]]
  /\ picture = [at |-> "nothing"]

----------------------------------------------------------------------------
\* processIQFrame(), which takes no lock.
Hear ==
  /\ iq.count < MaxHeard
  /\ iq' = [ring |-> [iq.ring EXCEPT ![iq.pos] = [n |-> iq.count + 1, lo |-> tuner.lo]],
               pos |-> (iq.pos + 1) % FreqBins, count |-> iq.count + 1]
  /\ taker' = IF taker.at = "copy" THEN [taker EXCEPT !.raced = TRUE] ELSE taker
  /\ UNCHANGED <<tuner, river, picture>>

\* computeSpectrum() copies the samples, the oldest first ...
BeginSpectrum ==
  /\ taker.at = "idle" /\ river.added < MaxRows
  /\ taker' = [at |-> "copy", from |-> iq.pos, got |-> <<>>, raced |-> FALSE]
  /\ picture' = [at |-> "nothing"]
  /\ UNCHANGED <<iq, tuner, river>>

CopySample ==
  /\ taker.at = "copy" /\ Len(taker.got) < FreqBins
  /\ taker' = [taker EXCEPT !.got = Append(@, iq.ring[(taker.from + Len(@)) % FreqBins])]
  /\ UNCHANGED <<iq, tuner, river, picture>>

\* ... and what it makes of them becomes the newest row.  Bins lie around the frequency the samples were
\* heard at; the row is late if that is not what was last sent to the twin.
Newest == taker.got[FreqBins].lo
RowOf(row) ==
  [k \in Places |-> [row |-> row, freq |-> Newest + (k - FreqBins \div 2) * HzPerBin, since |-> tuner.since,
                     late |-> \E s \in 1..FreqBins : taker.got[s].lo # tuner.sent]]

AddRow ==
  /\ taker.at = "copy" /\ Len(taker.got) = FreqBins
  /\ LET top == (river.top + 1) % Depth
     IN river' = [river EXCEPT !.rows[top] = RowOf(river.added + 1), !.top = top, !.added = @ + 1,
                               !.dirty = TRUE]
  /\ taker' = [at |-> "added", got |-> [s \in 1..FreqBins |-> taker.got[s].n], raced |-> taker.raced]
  /\ UNCHANGED <<iq, tuner, picture>>

----------------------------------------------------------------------------
\* horizontalShift(): what leaves the river at one end is gone, and nothing comes in at the other.
ShiftedRow(row, bins) == [k \in Places |-> IF k - bins \in Places THEN row[k - bins] ELSE Empty]

\* std::round(): halves away from nought.
AbsVal(x) == IF x < 0 THEN -x ELSE x
RoundedBins(delta) ==
  LET bins == (2 * AbsVal(delta) + HzPerBin) \div (2 * HzPerBin) IN IF delta < 0 THEN -bins ELSE bins

\* A plausible slip: the river moves with the receiver, not against it.
ShiftWith(delta) == RoundedBins(delta)

\* shiftFrequency(): the receiver moves up, the river down.
ShiftFor(delta) == -RoundedBins(delta)

\* The centre frequency is watched in Main.lua: a change of up to 1 Hz is taken note of and nothing else.
TuneBy(delta) ==
  /\ tuner.count < MaxRetuned /\ taker.at # "copy"
  /\ IF AbsVal(delta) <= 1
     THEN /\ tuner' = [tuner EXCEPT !.center = @ + delta, !.count = @ + 1]
          /\ UNCHANGED river
     ELSE /\ tuner' = [tuner EXCEPT !.center = @ + delta, !.count = @ + 1, !.sent = tuner.center + delta,
                                    !.since = tuner.count + 1]
          /\ river' = IF ShiftFor(delta) = 0 THEN river
                      ELSE [river EXCEPT !.rows = [r \in Cols |-> ShiftedRow(river.rows[r], ShiftFor(delta))],
                                         !.dirty = TRUE]
  /\ UNCHANGED <<iq, taker, picture>>

\* The command arrives.
TwinTunes ==
  /\ tuner.lo # tuner.sent
  /\ tuner' = [tuner EXCEPT !.lo = tuner.sent]
  /\ UNCHANGED <<iq, taker, river, picture>>

----------------------------------------------------------------------------
\* updateRiverTexture(): time runs to the right, NOW in the last column; the highest bin is on top.
ColumnRow(t) == (river.top - (Depth - 1 - t) + Depth) % Depth

TextureNow ==
  IF river.dirty THEN [f \in Places |-> [t \in Cols |-> river.rows[ColumnRow(t)][FreqBins - 1 - f]]]
  ELSE river.texture

\* What is drawn of a viewport, heights above the canvas's lower edge as parts of its span: a quarter of
\* the spectrum is Quarter parts.
Quarter == (FreqBins * (FreqBins - 1)) \div 2
Norm(quarters) == (quarters - 4) * Quarter
Within(norm) == IF norm < 0 THEN 0 ELSE IF norm > 4 * Quarter THEN 4 * Quarter ELSE norm

\* renderRiver(): the rows of the texture from 1 - vMax to 1 - vMin go to the canvas from vMax's height
\* down; this is the middle of bin k, or beyond what is drawn.
RiverHeight(k, v) ==
  LET low == Within(Norm(v.min))
      high == Within(Norm(v.max))
      source == (2 * (FreqBins - 1 - k) + 1) * (FreqBins - 1)
  IN [in |-> 4 * Quarter - high <= source /\ source <= 4 * Quarter - low,
      at |-> (high - Norm(v.min)) - (source - (4 * Quarter - high))]

\* renderLiveTrace(): the points of the bins from vMin to vMax.
TraceBins(v) ==
  LET first == (Within(Norm(v.min)) * (FreqBins - 1)) \div (4 * Quarter)
      last == (Within(Norm(v.max)) * (FreqBins - 1)) \div (4 * Quarter)
  IN first..(IF last <= first THEN first + 1 ELSE last)
TraceHeight(k, v) == k * 2 * FreqBins - Norm(v.min)

\* One frame on the screen; those that draw an unchanged river again are left out.
Draw(v) ==
  /\ taker.at # "copy" /\ (river.dirty \/ taker.at = "added")
  /\ river' = [river EXCEPT !.texture = TextureNow, !.dirty = FALSE]
  /\ picture' = IF Within(Norm(v.max)) <= Within(Norm(v.min)) THEN [at |-> "nothing"]
              ELSE [at |-> "screen", trace |-> [k \in TraceBins(v) |-> TraceHeight(k, v)],
                    river |-> [k \in Places |-> RiverHeight(k, v)]]
  /\ taker' = [at |-> "idle"]
  /\ UNCHANGED <<iq, tuner>>

RiverNext ==
  \/ Hear \/ BeginSpectrum \/ CopySample \/ AddRow \/ TwinTunes
  \/ (\E step \in TuneSteps : TuneBy(step) \/ TuneBy(-step))
  \/ (\E v \in Viewports : Draw(v))

RiverSpec == RiverInit /\ [][RiverNext]_riverVars

----------------------------------------------------------------------------
\* A spectrum is of consecutive samples, the newest last; where the DSP thread came past meanwhile, some are
\* too new by whole turns of the ring.
SamplesInOrder ==
  taker.at = "added" =>
    \A s \in 1..FreqBins - 1 :
      LET step == taker.got[s + 1] - taker.got[s]
      IN IF taker.raced THEN step % FreqBins = 1 ELSE step = 1

\* On the texture each row is in the column of its age, without gaps, and stands where it was heard, to
\* half a bin for each tuning since: unless it came while the twin was not yet where it had been sent.
ShownAt(f) == tuner.center + (FreqBins - 1 - f - FreqBins \div 2) * HzPerBin

RowsInPlace ==
  ~river.dirty =>
    \A t \in Cols, f \in Places :
      LET cell == river.texture[f][t]
      IN cell # Empty =>
           /\ cell.row = river.added - (Depth - 1 - t)
           /\ ~cell.late => 2 * AbsVal(cell.freq - ShownAt(f)) <= HzPerBin * (tuner.count - cell.since)
           /\ \A g \in f + 1..FreqBins - 1 :
                river.texture[g][t] # Empty => river.texture[g][t].freq = cell.freq - (g - f) * HzPerBin

\* River and trace show one bin at one height, to half a bin, and the trace has no bin that is not there.
TraceBesideRiver ==
  picture.at = "screen" =>
    \A k \in DOMAIN picture.trace :
      k \in Places /\ (picture.river[k].in => AbsVal(picture.river[k].at - picture.trace[k]) <= FreqBins - 1)

RiverRight == SamplesInOrder /\ RowsInPlace /\ TraceBesideRiver

\* What the application makes of samples, while it is tuned and turned: DSPEngine, BasebandFilter and
\* Demodulator to audio, DSPEngine and RiverRenderer to rows and a picture of them.
ReceptionRight == BasebandRight /\ RiverRight
=============================================================================
