----------------------------- MODULE MCStimulus -----------------------------
(***************************************************************************)
(* Signals, for TLC: the twin's mix, the script that sets it up, the       *)
(* generators, and the receiver that mixes them down; and what the         *)
(* application makes of the samples: audio, the spectrum and the river.    *)
(* They share no variable, so one run checks them one after the other: the *)
(* initial state says which moves, and the others start in one of their    *)
(* initial states and stay.                                                *)
(***************************************************************************)
EXTENDS StimulusScript, Keying, Carriers, SsbAudio, RFCapture, TwinReceiver,
        Spectrum, River

VARIABLE part

\* The twin's, and the application's.
twinVars == <<mixVars, scriptVars, morseVars, carrierVars, audioVars, captureVars, speechVars, receiverVars>>
appVars == <<basebandVars, fft, riverVars>>
others == <<receiverVars, appVars>>
vars == <<part, twinVars, appVars>>

MCCarrier == [g \in Generators |-> IF g = "g1" THEN 0 ELSE IF g = "g2" THEN 20 ELSE 1]

MCTexts == {<<>>, <<"E">>, <<"T", "A">>, <<"A", " ", "E">>, <<"E", " ", " ", "T", " ">>,
            <<"#", "E", "#">>}

\* Two tones, an AM and a single-sideband signal of each sideband, a recording, a keyed carrier, noise,
\* and sweeps up and down.
MCWaves ==
  {[kind |-> "tone", tones |-> <<[freq |-> 3, phase |-> 2], [freq |-> 7, phase |-> 0]>>],
   [kind |-> "am", carrier |-> 5, tones |-> <<[freq |-> 1], [freq |-> 2]>>],
   [kind |-> "recorded", carrier |-> 5, upper |-> FALSE],
   [kind |-> "keyed", carrier |-> 3, down |-> {1, 2, 5, 6, 9}],
   [kind |-> "noise"]}
  \cup [kind : {"ssb"}, carrier : {5}, upper : BOOLEAN, tones : {<<[freq |-> 1], [freq |-> 2]>>}]
  \cup [kind : {"sweep"}, from : {1}, to : {0, 4}, again : {"OneShot", "Repeat", "PingPong"}]

\* Files with a chunk of even and of odd length before the data, an odd number of bytes, and none.
MCChunks ==
  LET fmt == [id |-> "fmt", size |-> 16]
      other(n) == [id |-> "other", size |-> n]
      data(n) == [id |-> "data", size |-> n]
  IN {<<fmt, data(12)>>, <<fmt, other(2), data(13)>>, <<fmt, other(3), data(12)>>, <<fmt>>}

\* Every width, one to three channels, and one encoding the loaders do not know.
MCEncodings ==
  [tag : {1}, bits : {8, 16}, channels : {1, 2, 3}]
    \cup {[tag |-> 3, bits |-> 32, channels |-> 2], [tag |-> 3, bits |-> 64, channels |-> 1],
          [tag |-> 1, bits |-> 24, channels |-> 1]}

\* The whole spectrum, and one that ends below it.
MCViewports == {[min |-> 4, max |-> 8], [min |-> 1, max |-> 7]}

\* Six and twenty-four dB by hand; peaks well above and far below the target.
MCHandStages == {{6, 24}}
MCErrors == {-40, 20}

\* All of a part's initial choices if it is the one that moves, any one if not.
Starts(name, all) == IF part = name THEN all ELSE {CHOOSE x \in all : TRUE}

Init ==
  /\ part \in {"mix", "script", "morse", "carriers", "ssb", "capture", "speech",
              "receiver", "baseband", "spectrum", "river"}
  /\ morse \in Starts("morse", Keyers) /\ wave \in Starts("carriers", Waves)
  /\ recording \in Starts("ssb", Recordings) /\ wav \in Starts("capture", Files)
  /\ MixInit /\ ScriptInit /\ MorseInit /\ CarrierInit /\ SsbInit /\ CaptureInit /\ SpeechInit /\ ReceiverInit
  /\ demod \in Starts("baseband", Demodulators) /\ BasebandInit
  /\ fft \in Starts("spectrum", Transforms) /\ SpectrumInit /\ RiverInit

MixMoves == MixNext /\ UNCHANGED <<scriptVars, morseVars, carrierVars, audioVars, captureVars, speechVars, others>>
ScriptMoves == ScriptNext /\ UNCHANGED <<mixVars, morseVars, carrierVars, audioVars, captureVars, speechVars, others>>
MorseMoves == MorseNext /\ UNCHANGED <<mixVars, scriptVars, carrierVars, audioVars, captureVars, speechVars, others>>
CarrierMoves == CarrierNext /\ UNCHANGED <<mixVars, scriptVars, morseVars, audioVars, captureVars, speechVars, others>>
SsbMoves == SsbNext /\ UNCHANGED <<mixVars, scriptVars, morseVars, carrierVars, captureVars, speechVars, others>>
CaptureMoves == CaptureNext /\ UNCHANGED <<mixVars, scriptVars, morseVars, carrierVars, audioVars, speechVars, others>>
SpeechMoves == SpeechNext /\ UNCHANGED <<mixVars, scriptVars, morseVars, carrierVars, audioVars, captureVars, others>>

ReceiverMoves ==
  /\ ReceiverNext
  /\ UNCHANGED <<mixVars, scriptVars, morseVars, carrierVars, audioVars, captureVars, speechVars, appVars>>

BasebandMoves == BasebandNext /\ UNCHANGED <<twinVars, fft, riverVars>>
SpectrumMoves == SpectrumNext /\ UNCHANGED <<twinVars, basebandVars, riverVars>>
RiverMoves == RiverNext /\ UNCHANGED <<twinVars, basebandVars, fft>>

Next ==
  /\ UNCHANGED part
  /\ \/ part = "mix" /\ MixMoves
     \/ part = "script" /\ ScriptMoves
     \/ part = "morse" /\ MorseMoves
     \/ part = "carriers" /\ CarrierMoves
     \/ part = "ssb" /\ SsbMoves
     \/ part = "capture" /\ CaptureMoves
     \/ part = "speech" /\ SpeechMoves
     \/ part = "receiver" /\ ReceiverMoves
     \/ part = "baseband" /\ BasebandMoves
     \/ part = "spectrum" /\ SpectrumMoves
     \/ part = "river" /\ RiverMoves

Spec == Init /\ [][Next]_vars

----------------------------------------------------------------------------
\* The generators' signals are those asked for, in batches or one by one: MorseGenerator's keying, and
\* the phases of the tones, the AM and single-sideband signals, the sweeps and the noise; the transforms
\* of a recording, exactly; what is recorded is read whole, played at its times and put on its carrier:
\* SSBGenerator, RFCapturePlayer, the loaders of StimulusLua.  And DSPEngine's transform of what arrives
\* is the spectrum.
SignalsRight == KeyingRight /\ CarriersRight /\ AudioRight /\ RecordingRight /\ SpectrumRight
=============================================================================
