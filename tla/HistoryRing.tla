---------------------------- MODULE HistoryRing ----------------------------
(***************************************************************************)
(* The "time machine" of DSPEngine.cpp: a ring of the last 64 seconds of   *)
(* raw samples, from which the user can listen to the past.                *)
(*                                                                         *)
(*   the DSP thread  processIQFrame(): records every frame, plays the      *)
(*                   frame or, in playback, one of the past, and makes an  *)
(*                   audio sample of every eighth                          *)
(*   the UI thread   setVfo(), seekPlayback(), stopPlayback()              *)
(*                                                                         *)
(* The positions are atomic but the threads share no lock: what one does   *)
(* between a load and a store of the other is a step.  audioBuffer.clear() *)
(* and write() are AudioBuffer's; filters and demodulation are left out.   *)
(***************************************************************************)
EXTENDS Integers

CONSTANTS HistoryCapacity, \* passbandHistoryCapacity
          Decimation,      \* audioDecimationFactor
          MaxFrames,       \* bound: frames processed
          MaxRetunes       \* bound: calls of setVfo() with a new frequency

ASSUME HistoryAssumption == {HistoryCapacity, Decimation, MaxFrames, MaxRetunes} \subseteq Nat \ {0}

VARIABLES
  historyRing,  \* passbandHistoryRing: which frame each slot holds
  historyWrite, \* passbandHistoryWritePos
  playbackRead, playbackActive, \* passbandPlaybackReadPos, playbackActive
  dsp,          \* how far processIQFrame() is, and the write position it has loaded
  decimPhase,   \* decimPhase
  uiCall,       \* how far the UI thread's call is, and the write position it has loaded
  frames,       \* history: frames received so far, a frame's name being its number
  retunedAt,    \* history: the last frame recorded before the latest reset
  retunes,      \* counter for the bound
  raced,        \* history: a call came between a load of the write position and its use
  played        \* history: the frame last played from the past, with the position asked for and
                \* retunedAt as it was

historyVars == <<historyRing, historyWrite, playbackRead, playbackActive, dsp, decimPhase, uiCall,
                 frames, retunedAt, retunes, raced, played>>

HistoryInit ==
  /\ historyRing = [s \in 0..HistoryCapacity-1 |-> 0]
  /\ historyWrite = 0 /\ playbackRead = 0 /\ playbackActive = FALSE
  /\ dsp = [at |-> "idle", w |-> 0] /\ decimPhase = 0
  /\ uiCall = [at |-> "idle", w |-> 0, offset |-> 0]
  /\ frames = 0 /\ retunedAt = 0 /\ retunes = 0
  /\ raced = FALSE /\ played = [frame |-> 0, position |-> 0, since |-> 0]

SlotOf(position) == position % HistoryCapacity

----------------------------------------------------------------------------
(* The DSP thread: one frame.                                              *)

\* The sample goes into the slot of the write position ...
Record ==
  /\ dsp.at = "idle" /\ frames < MaxFrames
  /\ frames' = frames + 1
  /\ historyRing' = [historyRing EXCEPT ![SlotOf(historyWrite)] = frames']
  /\ dsp' = [at |-> "advance", w |-> historyWrite]
  /\ UNCHANGED <<historyWrite, playbackRead, playbackActive, decimPhase, uiCall, retunedAt,
                 retunes, raced, played>>

\* ... which then moves on from where it was loaded: a reset in between is undone.
Advance ==
  /\ dsp.at = "advance"
  /\ historyWrite' = dsp.w + 1
  /\ dsp' = [dsp EXCEPT !.at = "choose"]
  /\ UNCHANGED <<historyRing, playbackRead, playbackActive, decimPhase, uiCall, frames, retunedAt,
                 retunes, raced, played>>

\* The live sample or one of the past.  Playback that has caught up ends.
Choose ==
  /\ dsp.at = "choose"
  /\ IF playbackActive /\ playbackRead < dsp.w
     THEN /\ played' = [frame |-> historyRing[SlotOf(playbackRead)], position |-> playbackRead,
                        since |-> retunedAt]
          /\ playbackRead' = playbackRead + 1
          /\ UNCHANGED playbackActive
     ELSE /\ playbackActive' = FALSE
          /\ UNCHANGED <<played, playbackRead>>
  /\ dsp' = [dsp EXCEPT !.at = "demodulate"]
  /\ UNCHANGED <<historyRing, historyWrite, decimPhase, uiCall, frames, retunedAt, retunes, raced>>

\* Gain, tuning and the delay line; every eighth sample goes to the audio buffer.
Demodulate ==
  /\ dsp.at = "demodulate"
  /\ decimPhase' = (decimPhase + 1) % Decimation
  /\ dsp' = [dsp EXCEPT !.at = "idle"]
  /\ UNCHANGED <<historyRing, historyWrite, playbackRead, playbackActive, uiCall, frames,
                 retunedAt, retunes, raced, played>>

----------------------------------------------------------------------------
(* The UI thread.                                                          *)

\* setVfo() with a new frequency: playback stops ...
Retune ==
  /\ uiCall.at = "idle" /\ retunes < MaxRetunes
  /\ retunes' = retunes + 1
  /\ playbackActive' = FALSE
  /\ uiCall' = [uiCall EXCEPT !.at = "reset"]
  /\ UNCHANGED <<historyRing, historyWrite, playbackRead, dsp, decimPhase, frames, retunedAt,
                 raced, played>>

\* ... and the history starts anew.
ResetWrite ==
  /\ uiCall.at = "reset"
  /\ historyWrite' = 0
  /\ retunedAt' = frames
  /\ raced' = (raced \/ dsp.at \in {"advance", "choose"})
  /\ uiCall' = [uiCall EXCEPT !.at = "resetRead"]
  /\ UNCHANGED <<historyRing, playbackRead, playbackActive, dsp, decimPhase, frames, retunes,
                 played>>
ResetRead ==
  /\ uiCall.at = "resetRead"
  /\ playbackRead' = 0
  /\ uiCall' = [uiCall EXCEPT !.at = "idle"]
  /\ UNCHANGED <<historyRing, historyWrite, playbackActive, dsp, decimPhase, frames, retunedAt,
                 retunes, raced, played>>

\* seekPlayback(): the offset is cut to what there is ...
Smaller(a, b) == IF a < b THEN a ELSE b
\* A plausible slip: one sample too many, whose slot the next frame takes.
RecordedAll == Smaller(historyWrite, HistoryCapacity)
Recorded == Smaller(historyWrite, HistoryCapacity - 1)
Seek(offset) ==
  /\ uiCall.at = "idle"
  /\ uiCall' = [at |-> "seek", w |-> historyWrite, offset |-> Smaller(offset, Recorded)]
  /\ UNCHANGED <<historyRing, historyWrite, playbackRead, playbackActive, dsp, decimPhase, frames,
                 retunedAt, retunes, raced, played>>

\* ... and playback begins there, by then perhaps some frames later.
SeekDone ==
  /\ uiCall.at = "seek"
  /\ playbackRead' = uiCall.w - uiCall.offset
  /\ playbackActive' = TRUE
  /\ raced' = (raced \/ historyWrite # uiCall.w)
  /\ uiCall' = [at |-> "idle", w |-> 0, offset |-> 0]
  /\ UNCHANGED <<historyRing, historyWrite, dsp, decimPhase, frames, retunedAt, retunes, played>>

\* stopPlayback(), also by a seek to the present.
Stop ==
  /\ uiCall.at = "idle" /\ playbackActive
  /\ playbackActive' = FALSE
  /\ UNCHANGED <<historyRing, historyWrite, playbackRead, dsp, decimPhase, uiCall, frames,
                 retunedAt, retunes, raced, played>>

HistoryNext ==
  \/ Record \/ Advance \/ Choose \/ Demodulate
  \/ Retune \/ ResetWrite \/ ResetRead
  \/ \E offset \in 1..HistoryCapacity : Seek(offset)
  \/ SeekDone \/ Stop

HistorySpec == HistoryInit /\ [][HistoryNext]_historyVars

----------------------------------------------------------------------------

\* Playback gives the sample asked for, recorded since the latest retune and not overwritten
\* since, as long as no reset falls into a frame and no frame into a seek
\* (DSPEngine.cpp's positions, loaded by one thread and stored by the other).
PlaybackIsRight ==
  ~raced /\ played.frame # 0 => played.frame = played.since + played.position + 1
=============================================================================
