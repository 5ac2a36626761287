------------------------------ MODULE SsbAudio ------------------------------
(***************************************************************************)
(* SSBGenerator.cpp: what becomes of the samples of a recording.  They are *)
(* brought to 48 kHz, given a quadrature by an FFT, faded into their       *)
(* beginning if they repeat, and brought to 480 kHz, by an FFT twice as    *)
(* long and a polyphase filter.                                            *)
(*                                                                         *)
(* The transforms are computed, exactly: a complex number is a pair of     *)
(* residues of a prime in which -1 has no square root and one half has     *)
(* one, so that what holds of the eighth roots of unity holds of the       *)
(* pairs.  A filter's weights are left out: what it reads is not.          *)
(***************************************************************************)
EXTENDS Integers, SequencesExt, FiniteSetsExt

CONSTANTS Prime,      \* the modulus
          Half,       \* one half
          HalfRoot,   \* the cosine of an eighth of a turn
          Levels,     \* values of samples
          MaxSamples, \* bound: samples of a recording, at most 4
          Rates,      \* sample rates of recordings, for Stretch()
          FilterHalf, \* filterHalf
          FadeMax,    \* crossfadeSamples
          HilbertHalf \* half of HILBERT_TAPS

ASSUME SsbAudioAssumption ==
  /\ {Prime, Half, HalfRoot, FilterHalf, FadeMax, HilbertHalf} \subseteq Nat
  /\ (2 * Half) % Prime = 1 /\ (HalfRoot * HalfRoot) % Prime = Half
  /\ \A x \in 0..Prime-1 : (x * x + 1) % Prime # 0
  /\ MaxSamples \in 1..4 /\ Levels \subseteq 0..Prime-1 /\ Rates \subseteq Nat \ {0}

VARIABLES
  recording, \* the samples, their rate, and whether they repeat
  audio      \* how far they are, and the I and Q so far

audioVars == <<recording, audio>>

----------------------------------------------------------------------------
(* Complex numbers, and transforms of functions from 0..n-1.               *)

Plus(a, b) == <<(a[1] + b[1]) % Prime, (a[2] + b[2]) % Prime>>
Minus(a, b) == <<(a[1] - b[1]) % Prime, (a[2] - b[2]) % Prime>>
Times(a, b) == <<(a[1] * b[1] - a[2] * b[2]) % Prime, (a[1] * b[2] + a[2] * b[1]) % Prime>>
Scaled(s, a) == <<(s * a[1]) % Prime, (s * a[2]) % Prime>>
Zero == <<0, 0>>
Real(x) == <<x, 0>>

\* The eighth roots of unity, and the k-th power of an n-th one, conjugate for the forward transform.
Eighths == <<<<1, 0>>, <<HalfRoot, HalfRoot>>, <<0, 1>>, <<-HalfRoot, HalfRoot>>,
             <<-1, 0>>, <<-HalfRoot, -HalfRoot>>, <<0, -1>>, <<HalfRoot, -HalfRoot>>>>
Root(n, k, inverse) == Eighths[(((8 \div n) * (IF inverse THEN k ELSE -k)) % 8) + 1]

PowerBelow(n, j) == {b \in {1, 2, 4} : b < n /\ (j \div b) % 2 = 0}

\* The index whose bits are the next number's in reverse: the highest clear bit is set, those above cleared.
NextReversed(n, j) ==
  LET bit == CHOOSE b \in PowerBelow(n, j) : \A c \in PowerBelow(n, j) : c <= b IN (j % bit) + bit
Reversed(n) ==
  LET js == FoldLeft(LAMBDA seq, i : Append(seq, NextReversed(n, Last(seq))), <<0>>,
                     [i \in 1..n-1 |-> i])
  IN [i \in 0..n-1 |-> js[i + 1]]

\* One pass: pairs half a block apart.
Butterflies(x, len, inverse) ==
  [m \in DOMAIN x |->
     LET j == m % len
         half == len \div 2
         u == Root(len, j % half, inverse)
     IN IF j < half THEN Plus(x[m], Times(x[m + half], u))
                    ELSE Minus(x[m - half], Times(x[m], u))]

\* 1/n for a power of two.
OneOver(n) == CASE n = 1 -> 1 [] n = 2 -> Half [] n = 4 -> (Half * Half) % Prime
                [] n = 8 -> (Half * Half * Half) % Prime

\* fftInPlace, the same in all three functions: the swaps, the passes, the scale of the inverse.
FftInPlace(x, n, inverse) ==
  LET order == Reversed(n)
      y == FoldLeft(LAMBDA z, len : Butterflies(z, len, inverse), [i \in 0..n-1 |-> x[order[i]]],
                    SelectSeq(<<2, 4, 8>>, LAMBDA len : len <= n))
  IN IF inverse THEN [i \in 0..n-1 |-> Scaled(OneOver(n), y[i])] ELSE y

FftSize(len) == CHOOSE n \in {1, 2, 4} : len <= n /\ \A m \in {1, 2, 4} : len <= m => n <= m

\* A recording as a block of n, with silence after it or again from its beginning.
Padded(samples, n, again) ==
  [i \in 0..n-1 |-> IF i < Len(samples) THEN Real(samples[i + 1])
                    ELSE IF again THEN Real(samples[(i % Len(samples)) + 1]) ELSE Zero]

----------------------------------------------------------------------------
(* Twice as many samples: the spectrum at both ends of one twice as long.  *)

\* The Nyquist bin is both ends' and each has half of it.
WidenedSplit(spec, n) ==
  [k \in 0..2*n-1 |->
     CASE k < n \div 2 -> spec[k]
       [] k \in {n \div 2, 2 * n - (n \div 2)} -> Scaled(Half, spec[n \div 2])
       [] k > 2 * n - (n \div 2) -> spec[k - n]
       [] OTHER -> Zero]

\* The Nyquist bin stays at the positive end, whole.
Widened(spec, n) ==
  [k \in 0..2*n-1 |-> IF k <= n \div 2 THEN spec[k]
                      ELSE IF k > 2 * n - (n \div 2) THEN spec[k - n] ELSE Zero]

SpectrumOf(samples) ==
  LET n == FftSize(Len(samples)) IN FftInPlace(Padded(samples, n, FALSE), n, FALSE)

WideSplit(samples) ==
  LET n == FftSize(Len(samples)) IN FftInPlace(WidenedSplit(SpectrumOf(samples), n), 2 * n, TRUE)
Wide(samples) ==
  LET n == FftSize(Len(samples)) IN FftInPlace(Widened(SpectrumOf(samples), n), 2 * n, TRUE)

\* The real parts, of as many samples twice.
Stage1(wide, len) == [i \in 1..2*len |-> (2 * wide[i - 1][1]) % Prime]

\* upsampleBuffer()'s and resampleToInternalRate()'s.
Doubled(samples) == Stage1(WideSplit(samples), Len(samples))
DoubledInternal(samples) == Stage1(Wide(samples), Len(samples))

\* The samples (from 1) a polyphase filter reads around the i-th, 0 for silence.
Neighbours(i, size, again) ==
  [tap \in 1..2*FilterHalf+1 |->
     LET at == i - 1 + tap - 1 - FilterHalf
     IN IF at \in 0..size-1 THEN at + 1 ELSE IF again THEN (at % size) + 1 ELSE 0]

\* The samples out for one in: doubled first if at least twice the rate is missing, then as many
\* times as the nearest whole number says, unless nothing is missing.
Stretch(rate) ==
  LET doubled == 48000 >= 2 * rate
      step == IF doubled THEN 2 * rate ELSE rate
      more == IF 100 * 48000 > 101 * step THEN (2 * 48000 + step) \div (2 * step) ELSE 1
  IN IF rate = 48000 THEN 1 ELSE (IF doubled THEN 2 ELSE 1) * more

----------------------------------------------------------------------------
(* The quadrature.                                                         *)

\* The negative frequencies stay.
QuadratureWithNegatives(samples, again) ==
  LET n == FftSize(Len(samples))
      spec == FftInPlace(Padded(samples, n, again), n, FALSE)
  IN FftInPlace([k \in 0..n-1 |-> IF k \in 1..(n \div 2)-1 THEN Scaled(2, spec[k]) ELSE spec[k]], n, TRUE)

\* Twice the positive frequencies, none of the negative ones.
Quadrature(samples, again) ==
  LET n == FftSize(Len(samples))
      spec == FftInPlace(Padded(samples, n, again), n, FALSE)
  IN FftInPlace([k \in 0..n-1 |-> IF k \in 1..(n \div 2)-1 THEN Scaled(2, spec[k])
                                  ELSE IF k > n \div 2 THEN Zero ELSE spec[k]], n, TRUE)

PrecomputeHilbert(samples, again) ==
  LET analytic == Quadrature(samples, again) IN [i \in DOMAIN samples |-> analytic[i - 1][2]]

----------------------------------------------------------------------------
(* The end of a repeating recording fades into its first sample.           *)

FadeLength(size) == IF FadeMax < size \div 4 THEN FadeMax ELSE size \div 4

\* Of a recording of a size, which samples are as they were, which fade, and which are the first.
Faded(size) ==
  LET fade == FadeLength(size) IN
  [i \in 1..size |-> IF fade < 2 \/ i <= size - fade + 1 THEN "same"
                     ELSE IF i = size THEN "first" ELSE "fading"]

----------------------------------------------------------------------------
(* setAudioSamples().                                                      *)

Recordings ==
  [samples : UNION {[1..k -> Levels] : k \in 1..MaxSamples}, rate : {24000, 48000}, again : BOOLEAN]

SsbInit ==
  /\ recording \in Recordings
  /\ audio = [stage |-> "loaded", i |-> <<>>, q |-> <<>>]

\* At 48 kHz as it is, at 24 kHz doubled; of the other rates only Stretch() is modelled.
Resample ==
  /\ audio.stage = "loaded"
  /\ audio' = [audio EXCEPT !.stage = "internal",
                            !.i = IF recording.rate = 48000 THEN recording.samples
                                  ELSE DoubledInternal(recording.samples)]
  /\ UNCHANGED recording

Precompute ==
  /\ audio.stage = "internal" /\ Len(audio.i) <= 4
  /\ audio' = [audio EXCEPT !.stage = "quadrature", !.q = PrecomputeHilbert(audio.i, recording.again)]
  /\ UNCHANGED recording

\* Both channels through the same stage; one sample alone is beyond it (it has no Nyquist bin).
Upsample ==
  /\ audio.stage = "quadrature" /\ Len(audio.i) > 1
  /\ audio' = [stage |-> "upsampled", i |-> Doubled(audio.i), q |-> Doubled(audio.q)]
  /\ UNCHANGED recording

(* A voice has no samples ahead: its quadrature is a filter's.             *)

\* A voice saying one tone, four samples of it a turn; and the tone's sine.
Voice(t) == <<1, 0, -1, 0>>[(t % 4) + 1]
VoiceSine(t) == <<0, 1, 0, -1>>[(t % 4) + 1]

\* hilbertCoeffs, without the window; in thousandths of 2/pi.
HilbertCoeff(n) == IF n % 2 = 0 THEN 0 ELSE IF n > 0 THEN 1000 \div n ELSE -(1000 \div (-n))

\* hilbertFilter(): each coefficient with the sample that much later.
HilbertFilter(t) ==
  FoldSet(LAMBDA n, sum : sum + HilbertCoeff(n) * Voice(t + n), 0, -HilbertHalf..HilbertHalf)

Speak(t) ==
  /\ audio.stage \in {"loaded", "spoken"}
  /\ audio' = [stage |-> "spoken", i |-> <<t, Voice(t)>>, q |-> <<HilbertFilter(t)>>]
  /\ UNCHANGED recording

SsbNext == Resample \/ Precompute \/ Upsample \/ (\E t \in 0..3 : Speak(t))

----------------------------------------------------------------------------
(* getAudioIQ().                                                           *)

\* The samples (from 1) around a time, in whole samples; none outside what does not repeat.
AudioIndexes(t, size, again) ==
  LET at == IF again THEN t % size ELSE t IN
  IF at \notin 0..size-1 THEN <<>>
  ELSE <<at + 1, IF at + 1 < size THEN at + 2 ELSE IF again THEN 1 ELSE size>>

----------------------------------------------------------------------------
Dft(x, n) ==
  [k \in 0..n-1 |-> FoldSet(LAMBDA m, sum : Plus(sum, Times(x[m], Root(n, m * k, FALSE))),
                            Zero, 0..n-1)]

\* The transform is the discrete Fourier transform, and the inverse undoes it.
FftIsDft ==
  audio.stage = "internal" =>
    LET n == FftSize(Len(recording.samples))
        x == Padded(recording.samples, n, recording.again)
    IN /\ FftInPlace(x, n, FALSE) = Dft(x, n)
       /\ FftInPlace(FftInPlace(x, n, FALSE), n, TRUE) = x

\* Doubling keeps every sample and invents no imaginary part; without the split the samples are the
\* same, the imaginary part that is thrown away is not.
DoublingIsExact ==
  audio.stage = "internal" /\ Len(recording.samples) > 1 =>
    LET samples == recording.samples
        wide == WideSplit(samples)
    IN /\ \A i \in DOMAIN samples : Doubled(samples)[2 * i - 1] = samples[i]
       /\ \A m \in DOMAIN wide : wide[m][2] = 0
       /\ DoubledInternal(samples) = Doubled(samples)

\* The samples are the real part of a signal without negative frequencies, and stay so, the real part
\* with its quadrature, when both are doubled.
OneSideband ==
  /\ audio.stage = "quadrature" =>
       LET n == FftSize(Len(audio.i))
           analytic == Quadrature(audio.i, recording.again)
           spec == Dft(analytic, n)
       IN /\ \A i \in DOMAIN audio.i : analytic[i - 1] = <<audio.i[i], audio.q[i]>>
          /\ \A k \in (n \div 2)+1..n-1 : spec[k] = Zero
  /\ (audio.stage = "upsampled" /\ Len(audio.i) = 8 /\ recording.rate = 48000) =>
       LET spec == Dft([m \in 0..7 |-> <<audio.i[m + 1], audio.q[m + 1]>>], 8) IN
       \A k \in 5..7 : k # 6 => spec[k] = Zero

\* A recording plays at its own speed exactly at the rates that 48 kHz is a whole number of times of,
\* an even number unless it is one.
SpeedKept ==
  audio.stage = "internal" => \A rate \in Rates :
    rate * Stretch(rate) = 48000 <=> (rate = 48000 \/ 48000 % (2 * rate) = 0)

\* A filter reads inside its recording, however short, and in a row around the end of one that repeats;
\* the same for the interpolation, and the end that repeats is its beginning.
ReadsInside ==
  audio.stage = "internal" =>
    LET size == Len(recording.samples) IN
    /\ \A i \in 1..size :
         LET at == Neighbours(i, size, recording.again) IN
         /\ at[FilterHalf + 1] = i
         /\ \A tap \in DOMAIN at : at[tap] \in (IF recording.again THEN 1 ELSE 0)..size
         /\ \A tap \in 1..2*FilterHalf :
              at[tap] # 0 /\ at[tap + 1] # 0 => at[tap + 1] = (at[tap] % size) + 1
    /\ \A t \in -size..2*size :
         LET at == AudioIndexes(t, size, recording.again) IN
         /\ at = <<>> <=> ~recording.again /\ t \notin 0..size-1
         /\ ToSet(at) \subseteq 1..size
    /\ \A long \in 1..4*FadeMax+4 :
         LET fate == Faded(long) IN
         /\ fate[1] = "same"
         /\ long >= 8 /\ FadeMax >= 2 => fate[long] = "first"

Sign(x) == IF x > 0 THEN 1 ELSE IF x < 0 THEN -1 ELSE 0

\* SSBGenerator.hpp: Q is the Hilbert transform of I, so that I cos - Q sin is the upper sideband: a
\* cosine's quadrature is its sine.
VoiceQuadrature ==
  audio.stage = "spoken" => Sign(audio.q[1]) = VoiceSine(audio.i[1])

\* A recording's samples become a single sideband's.
AudioRight == FftIsDft /\ DoublingIsExact /\ OneSideband /\ SpeedKept /\ ReadsInside
=============================================================================
