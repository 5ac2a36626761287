------------------------------ MODULE Baseband ------------------------------
(***************************************************************************)
(* From raw samples to audio in the application: the decimation ring of    *)
(* DSPEngine, BasebandFilter with its crossfade, and the Demodulator, on   *)
(* the DSP thread; and the UI thread, which sets mode, passband and filter *)
(* while they run, without a lock.                                         *)
(*                                                                         *)
(* A sample is its number, 0 for silence before the first; coefficients    *)
(* are the settings they were designed for; an output is described by the  *)
(* coefficients blended in it and the samples they met.  The arithmetic,   *)
(* the notch (which nothing switches on) and the tap count (which nothing  *)
(* sets) are left out.                                                     *)
(***************************************************************************)
EXTENDS Integers, Sequences, TLC

CONSTANTS
  DecimBuf, DecimTaps, DecimFactor,  \* decimBufMask + 1, decimTaps, audioDecimationFactor
  Taps,                              \* bandpassTaps
  Fade,                              \* kCrossfadeSamples
  HilbertTaps,                       \* hilbertTaps
  Modes, Centers, Widths,            \* what the user asks for
  MaxAudio, MaxTurnings              \* bounds: audio samples, calls of the UI thread

ASSUME BasebandAssumption ==
  /\ {DecimBuf, DecimTaps, DecimFactor, Taps, Fade, HilbertTaps} \subseteq Nat \ {0}
  /\ DecimTaps <= DecimBuf

VARIABLES
  decim,   \* decimHistory, decimRingPos, decimPhase; the frames so far
  filter,  \* bandpassEnabled, Center, Width, CoeffsDirty, Coeffs
  line,    \* bandpassHistory, bandpassIndex
  old,     \* bandpassOld..., bandpassCrossfading, bandpassCrossfadePos
  demod,   \* mode, amDcInitialized, the Hilbert delay line; the sample the AM carrier was first taken from
  work,    \* how far the DSP thread is, the sample it works on, and the output it makes
  panel,   \* how far the UI thread is, and what is left of its call
  met,     \* of the past: the last samples the filter was given
  outputs, \* of the past: the last two outputs of the filter
  played,  \* of the past: the last output of the demodulator
  seen     \* of the past: which threads crossed where

basebandVars == <<decim, filter, line, old, demod, work, panel, met, outputs, played, seen>>

\* No coefficients: no setting has a width of nought.
None == [center |-> 0, width |-> 0]
Silent(taps) == [n \in 0..taps - 1 |-> 0]

Demodulators ==
  [mode : {"USB", "AM"}, ready : {FALSE}, from : {0}, history : {Silent(HilbertTaps)}, index : {0}]

\* Before the first sample the UI thread has set AM, or left everything as it was constructed.
BasebandInit ==
  /\ decim = [history |-> Silent(DecimBuf), pos |-> 0, phase |-> 0, frame |-> 0, window |-> <<>>]
  /\ demod \in Demodulators
  /\ filter = IF demod.mode = "AM"
              THEN [enabled |-> TRUE, center |-> 0, width |-> 10000, dirty |-> FALSE,
                    coeffs |-> [center |-> 0, width |-> 10000]]
              ELSE [enabled |-> TRUE, center |-> 700, width |-> 2400, dirty |-> TRUE, coeffs |-> None]
  /\ line = [history |-> Silent(Taps), index |-> 0]
  /\ old = [coeffs |-> None, history |-> <<>>, index |-> 0, fading |-> FALSE, pos |-> 0]
  /\ work = [at |-> "idle", sample |-> 0]
  /\ panel = [at |-> "idle", todo |-> <<>>, calls |-> 0]
  /\ met = Silent(Taps) /\ outputs = <<>>
  /\ played = [mode |-> "none"]
  /\ seen = [crossed |-> FALSE, overtaken |-> FALSE, abrupt |-> FALSE, wild |-> FALSE, stay |-> 0,
             modeCrossed |-> FALSE]

----------------------------------------------------------------------------
(* The DSP thread.                                                         *)

\* A plausible slip: the index wraps to taps, not to taps - 1.
WindowGapped(history, index, taps) == [n \in 0..taps - 1 |-> history[(index + taps + 1 - n) % taps]]

\* The samples the coefficients meet, the newest first: back from index, around the line.
Window(history, index, taps) == [n \in 0..taps - 1 |-> history[(index + taps - n) % taps]]

\* The frames the decimation filter's taps meet, after the position has moved on.
DecimWindow(history, pos) == [n \in 0..DecimTaps - 1 |-> history[(pos - 1 - n) % DecimBuf]]

\* The threads cross if the DSP thread moves while a fade is being set up.
Crossing == panel.at \in {"flag", "assign"}
Moves == seen' = [seen EXCEPT !.crossed = @ \/ Crossing]

Settings == [center |-> filter.center, width |-> filter.width]

\* process() first designs the coefficients of changed settings ...
CheckDirty(sample) ==
  IF filter.enabled /\ filter.dirty THEN [at |-> "design", sample |-> sample, design |-> Settings]
  ELSE [at |-> "filter", sample |-> sample]

\* One raw sample; every so many make one audio sample.
TakeFrame ==
  /\ work.at = "idle" /\ work.sample < MaxAudio
  /\ LET history == [decim.history EXCEPT ![decim.pos] = decim.frame + 1]
         pos == (decim.pos + 1) % DecimBuf
         full == decim.phase + 1 >= DecimFactor
     IN /\ decim' = [history |-> history, pos |-> pos, phase |-> IF full THEN 0 ELSE decim.phase + 1,
                     frame |-> decim.frame + 1,
                     window |-> IF full THEN DecimWindow(history, pos) ELSE <<>>]
        /\ work' = IF full THEN CheckDirty(work.sample + 1) ELSE work
  /\ played' = [mode |-> "none"]
  /\ Moves
  /\ UNCHANGED <<filter, line, old, demod, panel, met, outputs>>

\* ... which takes a while.
FinishDesign ==
  /\ work.at = "design"
  /\ filter' = [filter EXCEPT !.coeffs = work.design, !.dirty = FALSE]
  /\ work' = [at |-> "filter", sample |-> work.sample]
  /\ Moves
  /\ UNCHANGED <<decim, line, old, demod, panel, met, outputs, played>>

\* The sample enters the line and meets the coefficients: if there are none, what lies beyond them.
Filter ==
  /\ work.at = "filter"
  /\ IF filter.enabled
     THEN LET history == [line.history EXCEPT ![line.index] = work.sample]
          IN /\ line' = [line EXCEPT !.history = history]
             /\ work' = [at |-> "fade", sample |-> work.sample,
                         output |-> [to |-> filter.coeffs, from |-> filter.coeffs, part |-> Fade,
                                     window |-> Window(history, line.index, Taps), before |-> <<>>]]
             /\ met' = [n \in 0..Taps - 1 |-> IF n = 0 THEN work.sample ELSE met[n - 1]]
     ELSE work' = [work EXCEPT !.at = "demodulate"] /\ UNCHANGED <<line, met>>
  /\ seen' = [seen EXCEPT !.crossed = @ \/ Crossing,
                          !.wild = @ \/ (filter.enabled /\ filter.coeffs = None)]
  /\ UNCHANGED <<decim, filter, old, demod, panel, outputs, played>>

\* processOldBandpass(), and the blend.  Old coefficients without a line are read and written beyond
\* the vector's end.
OldOutput ==
  LET history == [old.history EXCEPT ![old.index] = work.sample]
  IN IF old.coeffs = None THEN [from |-> None, before |-> met, line |-> old.history, index |-> old.index]
     ELSE IF old.history = <<>> THEN [from |-> old.coeffs, before |-> <<>>, line |-> <<>>, index |-> old.index]
     ELSE [from |-> old.coeffs, before |-> Window(history, old.index, Taps), line |-> history,
           index |-> (old.index + 1) % Taps]

Leaves(output) ==
  /\ line' = [line EXCEPT !.index = (@ + 1) % Taps]
  /\ outputs' = IF Len(outputs) = 2 THEN <<outputs[2], output>> ELSE Append(outputs, output)
  /\ work' = [at |-> "demodulate", sample |-> work.sample]

Crossfade ==
  /\ work.at = "fade"
  /\ IF old.fading
     THEN LET o == OldOutput
              ends == old.pos + 1 >= Fade
              output == [work.output EXCEPT !.from = o.from, !.part = old.pos, !.before = o.before]
          IN /\ old' = [coeffs |-> IF ends THEN None ELSE old.coeffs, history |-> o.line, index |-> o.index,
                        fading |-> ~ends, pos |-> old.pos + 1]
             /\ seen' = [seen EXCEPT !.crossed = @ \/ Crossing,
                                     !.wild = @ \/ (old.coeffs # None /\ old.history = <<>>)]
             /\ IF ends THEN work' = [work EXCEPT !.at = "clear", !.output = output] /\ UNCHANGED <<line, outputs>>
                ELSE Leaves(output)
     ELSE Leaves(work.output) /\ UNCHANGED old /\ Moves
  /\ UNCHANGED <<decim, filter, demod, panel, met, played>>

\* At the end of a fade the old coefficients go first, then the old line.
ClearLine ==
  /\ work.at = "clear"
  /\ old' = [old EXCEPT !.history = <<>>]
  /\ Leaves(work.output)
  /\ Moves
  /\ UNCHANGED <<decim, filter, demod, panel, met, played>>

\* Demodulator::process(): the mode is looked at once ...
LookAtMode ==
  /\ work.at = "demodulate"
  /\ work' = [at |-> "mode", sample |-> work.sample, mode |-> demod.mode]
  /\ Moves
  /\ UNCHANGED <<decim, filter, line, old, demod, panel, met, outputs, played>>

\* ... then, in sideband modes, the delayed sample meets the Hilbert transform's; in AM the carrier is
\* tracked from the first sample on.
DelayedIndex == (demod.index + HilbertTaps - ((HilbertTaps - 1) \div 2)) % HilbertTaps

ProcessSample ==
  /\ work.at = "mode"
  /\ LET history == [demod.history EXCEPT ![demod.index] = work.sample]
         am == work.mode = "AM"
         from == IF am /\ ~demod.ready THEN work.sample ELSE demod.from
     IN /\ demod' = [demod EXCEPT !.history = history, !.index = (@ + 1) % HilbertTaps, !.from = from,
                                  !.ready = @ \/ am]
        /\ played' = [mode |-> work.mode, window |-> Window(history, demod.index, HilbertTaps),
                      delayed |-> history[DelayedIndex], from |-> from, sample |-> work.sample,
                      stay |-> seen.stay]
  /\ work' = [at |-> "idle", sample |-> work.sample]
  /\ Moves
  /\ UNCHANGED <<decim, filter, line, old, panel, met, outputs>>

----------------------------------------------------------------------------
(* The UI thread: a call is a sequence of settings, made one after the other. *)

\* setModeId(): the demodulator, then the passband of the mode.
Passband(mode) ==
  CASE mode = "LSB" -> <<-1500, 2400>> [] mode = "USB" -> <<1500, 2400>>
    [] mode = "CW" -> <<700, 500>> [] mode = "AM" -> <<0, 10000>>

ModeCall(mode) ==
  <<[set |-> "mode", to |-> mode], [set |-> "center", to |-> Passband(mode)[1]],
    [set |-> "width", to |-> Passband(mode)[2]], [set |-> "recompute"]>>

\* The bridge's own: each setter is followed by recompute(); setVfo() and setOSDOffset() end in it too.
Turnings ==
  {ModeCall(m) : m \in Modes}
    \cup {<<[set |-> "center", to |-> c], [set |-> "recompute"]>> : c \in Centers}
    \cup {<<[set |-> "width", to |-> w], [set |-> "recompute"]>> : w \in Widths}
    \cup {<<[set |-> "enabled", to |-> b]>> : b \in BOOLEAN}
    \cup {<<[set |-> "recompute"]>>}

Begin(call) ==
  /\ panel.at = "idle" /\ panel.calls < MaxTurnings
  /\ panel' = [at |-> "next", todo |-> call, calls |-> panel.calls + 1]
  /\ UNCHANGED <<decim, filter, line, old, demod, work, met, outputs, played, seen>>

Setting == Head(panel.todo)
Rest == [panel EXCEPT !.todo = Tail(@), !.at = IF Len(panel.todo) = 1 THEN "idle" ELSE "next"]
Turns(to) == panel' = [panel EXCEPT !.at = to]

\* Demodulator::setMode(), in two assignments.
SetMode ==
  /\ panel.at = "next" /\ Setting.set = "mode"
  /\ IF demod.mode = Setting.to THEN panel' = Rest /\ UNCHANGED <<demod, seen>>
     ELSE /\ demod' = [demod EXCEPT !.mode = Setting.to]
          /\ seen' = [seen EXCEPT !.stay = IF work.at \in {"idle", "mode"} THEN work.sample
                                           ELSE work.sample - 1,
                                  !.modeCrossed = @ \/ work.at = "mode"]
          /\ Turns("mode")
  /\ UNCHANGED <<decim, filter, line, old, work, met, outputs, played>>

ForgetCarrier ==
  /\ panel.at = "mode"
  /\ demod' = [demod EXCEPT !.ready = FALSE]
  /\ seen' = [seen EXCEPT !.modeCrossed = @ \/ work.at = "mode"]
  /\ panel' = Rest
  /\ UNCHANGED <<decim, filter, line, old, work, met, outputs, played>>

\* setBandpassCenter() and setBandpassWidth(): a change starts a fade from the present coefficients, if
\* they are in use.  A width is compared as it was asked for, and kept as at least 10 Hz.
BeginChange ==
  /\ panel.at = "next" /\ Setting.set \in {"center", "width"}
  /\ LET fades == filter.enabled /\ filter.coeffs # None
     IN IF filter[Setting.set] = Setting.to THEN panel' = Rest /\ UNCHANGED <<old, seen>>
        ELSE /\ old' = IF fades THEN [old EXCEPT !.coeffs = filter.coeffs, !.history = line.history,
                                                 !.index = line.index]
                       ELSE old
             /\ seen' = [seen EXCEPT !.crossed = @ \/ work.at # "idle", !.abrupt = @ \/ old.fading \/ ~fades]
             /\ Turns(IF fades THEN "flag" ELSE "assign")
  /\ UNCHANGED <<decim, filter, line, demod, work, met, outputs, played>>

\* A plausible slip: the position is left where the last fade ended.
StartFadeAtEnd ==
  /\ panel.at = "flag"
  /\ old' = [old EXCEPT !.fading = TRUE]
  /\ Turns("assign")
  /\ UNCHANGED <<decim, filter, line, demod, work, met, outputs, played, seen>>

StartFade ==
  /\ panel.at = "flag"
  /\ old' = [old EXCEPT !.pos = 0, !.fading = TRUE]
  /\ Turns("assign")
  /\ UNCHANGED <<decim, filter, line, demod, work, met, outputs, played, seen>>

Kept(set, value) == IF set = "width" /\ value < 10 THEN 10 ELSE value

Assign ==
  /\ panel.at = "assign"
  /\ filter' = [filter EXCEPT ![Setting.set] = Kept(Setting.set, Setting.to), !.dirty = TRUE]
  /\ seen' = [seen EXCEPT !.overtaken = @ \/ work.at = "design"]
  /\ panel' = Rest
  /\ UNCHANGED <<decim, line, old, demod, work, met, outputs, played>>

SetBandpassEnabled ==
  /\ panel.at = "next" /\ Setting.set = "enabled"
  /\ filter' = [filter EXCEPT !.enabled = Setting.to]
  /\ seen' = [seen EXCEPT !.crossed = @ \/ work.at = "filter"]
  /\ panel' = Rest
  /\ UNCHANGED <<decim, line, old, demod, work, met, outputs, played>>

\* recompute(): the UI thread designs the coefficients itself, unless the DSP thread has.
Recompute ==
  /\ panel.at = "next" /\ Setting.set = "recompute"
  /\ panel' = IF filter.dirty THEN [panel EXCEPT !.at = "design"] ELSE Rest
  /\ UNCHANGED <<decim, filter, line, old, demod, work, met, outputs, played, seen>>

Recomputed ==
  /\ panel.at = "design"
  /\ filter' = [filter EXCEPT !.coeffs = Settings, !.dirty = FALSE]
  /\ panel' = Rest
  /\ UNCHANGED <<decim, line, old, demod, work, met, outputs, played, seen>>

BasebandNext ==
  \/ TakeFrame \/ FinishDesign \/ Filter \/ Crossfade \/ ClearLine \/ LookAtMode \/ ProcessSample
  \/ (\E call \in Turnings : Begin(call))
  \/ SetMode \/ ForgetCarrier \/ BeginChange \/ StartFade \/ Assign \/ SetBandpassEnabled \/ Recompute \/ Recomputed

BasebandSpec == BasebandInit /\ [][BasebandNext]_basebandVars

----------------------------------------------------------------------------
\* Each window holds the last samples of its stage in order, a fade's old filter included; and the
\* delayed sample is the one under the middle of the Hilbert transform.
WindowsAligned ==
  /\ decim.window # <<>> =>
       \A n \in 0..DecimTaps - 1 : decim.window[n] = IF decim.frame > n THEN decim.frame - n ELSE 0
  /\ outputs # <<>> /\ work.at = "demodulate" =>
       LET output == outputs[Len(outputs)]
       IN output.window = met /\ (output.part < Fade /\ ~seen.crossed => output.before = met)
  /\ played.mode # "none" =>
       /\ \A n \in 0..HilbertTaps - 1 : played.window[n] = IF played.sample > n THEN played.sample - n ELSE 0
       /\ played.delayed = played.window[(HilbertTaps - 1) \div 2]

\* Coefficients not marked as due are those of the settings, unless a setting changed while the DSP
\* thread was designing.
CoefficientsCurrent ==
  ~seen.overtaken /\ ~filter.dirty => filter.coeffs = Settings

\* From one output to the next no filter gains or loses more than one step of the fade, unless a change
\* came during a fade, while the filter was off, or in the middle of a sample.
WeightOf(output, coeffs) ==
  (IF output.to = coeffs THEN output.part ELSE 0) + (IF output.from = coeffs THEN Fade - output.part ELSE 0)

FadesSmoothly ==
  Len(outputs) = 2 /\ ~seen.crossed /\ ~seen.abrupt /\ ~seen.overtaken =>
    \A coeffs \in {outputs[1].to, outputs[1].from, outputs[2].to, outputs[2].from} :
      WeightOf(outputs[2], coeffs) - WeightOf(outputs[1], coeffs) \in -1..1

\* There are coefficients whenever the filter works, and a line wherever old coefficients need it, unless
\* a fade was set up, or the filter switched, in the middle of a sample.
NothingReadBeyond == seen.wild => seen.crossed

\* In AM the carrier's estimate does not go back to an earlier stay in AM, unless the mode changed in the
\* middle of a sample.
CarrierOfThisStay == played.mode = "AM" /\ ~seen.modeCrossed => played.from > played.stay

BasebandRight ==
  /\ WindowsAligned /\ CoefficientsCurrent /\ FadesSmoothly /\ NothingReadBeyond /\ CarrierOfThisStay
=============================================================================
