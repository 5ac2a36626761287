------------------------------- MODULE Speech -------------------------------
(***************************************************************************)
(* TTSEngine.cpp: each voice synthesises its text when the first sample of *)
(* it is asked for.  espeak-ng hands the samples to a callback, which puts *)
(* them where one global pointer, g_sampleBuffer, points.  The voices of a *)
(* batch are asked on the threads of the pool.                             *)
(*                                                                         *)
(* A sample is its text and its number.  espeak-ng itself is external: it  *)
(* hands the callback each text's samples in turn.                         *)
(***************************************************************************)
EXTENDS Integers, SequencesExt

CONSTANTS Engines,     \* TTSEngine objects
          Sayings,     \* texts
          SpeechLength,\* samples of a text
          MaxSettings, \* bound: settings changed
          SpeechTimes  \* bound: times a sample is asked for

\* A text that is not empty has samples, and no engine is the null pointer.
ASSUME SpeechAssumption ==
  {SpeechLength, MaxSettings, SpeechTimes} \subseteq Nat /\ SpeechLength > 0 /\ "null" \notin Engines

VARIABLES
  engine,     \* per engine: text, needsSynthesize, samples, repeat
  speaking,   \* per engine: where its synthesizeInternal() is, and the samples handed over
  sampleBuffer, \* g_sampleBuffer: an engine, or "null"
  crossed,    \* history: two engines were in espeak-ng at once
  settings    \* counter for the bound

speechVars == <<engine, speaking, sampleBuffer, crossed, settings>>

NoText == "none"
NoSample == <<NoText, 0>>
Speech(text) == [k \in 1..SpeechLength |-> <<text, k>>]
Synthesising(e) == speaking[e].at # "idle"

SpeechInit ==
  /\ engine = [e \in Engines |-> [text |-> NoText, needs |-> TRUE, samples |-> <<>>, repeat |-> TRUE]]
  /\ speaking = [e \in Engines |-> [at |-> "idle", given |-> 0]]
  /\ sampleBuffer = "null" /\ crossed = FALSE /\ settings = 0

\* setText() and the other setters: what is changed is synthesised again.
SetVoice(e, text, repeat) ==
  /\ ~Synthesising(e) /\ settings < MaxSettings
  /\ engine' = [engine EXCEPT ![e].text = text, ![e].repeat = repeat,
                              ![e].needs = @ \/ text # engine[e].text]
  /\ settings' = settings + 1
  /\ UNCHANGED <<speaking, sampleBuffer, crossed>>

\* The text is marked as synthesised before it is.
BeginSynthesis(e) ==
  /\ ~Synthesising(e) /\ engine[e].needs
  /\ engine' = [engine EXCEPT ![e].needs = FALSE, ![e].samples = <<>>]
  /\ speaking' = IF engine[e].text = NoText THEN speaking
                 ELSE [speaking EXCEPT ![e] = [at |-> "setup", given |-> 0]]
  /\ crossed' = (crossed \/ \E other \in Engines \ {e} : Synthesising(other))
  /\ UNCHANGED <<sampleBuffer, settings>>

PointBuffer(e) ==
  /\ speaking[e].at = "setup"
  /\ sampleBuffer' = e /\ speaking' = [speaking EXCEPT ![e].at = "synth"]
  /\ UNCHANGED <<engine, crossed, settings>>

\* espeakCallback(): into whatever the pointer points at.
SpeechCallback(e) ==
  LET sample == Speech(engine[e].text)[speaking[e].given + 1] IN
  /\ speaking[e].at = "synth" /\ speaking[e].given < SpeechLength
  /\ engine' = IF sampleBuffer = "null" THEN engine
               ELSE [engine EXCEPT ![sampleBuffer].samples = Append(@, sample)]
  /\ speaking' = [speaking EXCEPT ![e].given = @ + 1]
  /\ UNCHANGED <<sampleBuffer, crossed, settings>>

EndSynthesis(e) ==
  /\ speaking[e].at = "synth" /\ speaking[e].given = SpeechLength
  /\ sampleBuffer' = "null" /\ speaking' = [speaking EXCEPT ![e] = [at |-> "idle", given |-> 0]]
  /\ UNCHANGED <<engine, crossed, settings>>

SpeechNext ==
  \E e \in Engines :
     \/ (\E text \in Sayings \cup {NoText}, repeat \in BOOLEAN : SetVoice(e, text, repeat))
     \/ BeginSynthesis(e) \/ PointBuffer(e) \/ SpeechCallback(e) \/ EndSynthesis(e)

SpeechSpec == SpeechInit /\ [][SpeechNext]_speechVars

----------------------------------------------------------------------------
\* What getSample(t) returns between two samples once there is nothing left to synthesise.
SpokenAt(e, t) ==
  LET v == engine[e]
      size == Len(v.samples)
      at == IF v.repeat THEN t % size ELSE t
  IN CASE size = 0 -> NoSample [] size > 0 /\ ~v.repeat /\ t >= size -> NoSample
       [] OTHER -> v.samples[at + 1]

\* NoSample without a text, past the end of one that does not repeat, and nowhere else: a voice says its
\* own text, whole, as long as no two voices are synthesised at once.
VoicesKeepApart ==
  \A e \in Engines :
    (~crossed /\ ~Synthesising(e) /\ ~engine[e].needs) =>
      /\ engine[e].samples = (IF engine[e].text = NoText THEN <<>> ELSE Speech(engine[e].text))
      /\ \A t \in 0..SpeechTimes :
           SpokenAt(e, t) = NoSample <=> (engine[e].text = NoText
                                        \/ (~engine[e].repeat /\ t >= SpeechLength))
=============================================================================
