------------------------------ MODULE Spectrum ------------------------------
(***************************************************************************)
(* DSPEngine::fftInPlace(), and the order computeSpectrum() puts its bins  *)
(* in.  The algorithm only adds, subtracts and multiplies by powers of a   *)
(* root of unity, so the model computes in the integers modulo a prime     *)
(* with a root of unity of the transform's size, where TLC can compute.    *)
(* The window, the magnitude in dB and the average are left out.           *)
(***************************************************************************)
EXTENDS Integers

CONSTANTS
  Points,     \* FFT_SIZE, a power of two
  Modulus, UnitRoot  \* UnitRoot stands for a turn by one Points-th backwards

\* The root's powers are Points different ones, half a turn is minus one.
ASSUME SpectrumAssumption ==
  /\ Points \in Nat \ {0} /\ Modulus \in Nat \ {0} /\ UnitRoot \in Nat
  /\ UnitRoot ^ Points % Modulus = 1 /\ UnitRoot ^ (Points \div 2) % Modulus = Modulus - 1

VARIABLE fft  \* what the transform is of, how far it is, and its values

Bins == 0..Points - 1
Frequencies == -(Points \div 2)..(Points \div 2) - 1

\* Two tones, a and b turns in Points samples, the second three times as strong.
RootTo(e) == UnitRoot ^ (e % Points)
Tones(a, b) == [n \in Bins |-> (RootTo(-n * a) + 3 * RootTo(-n * b)) % Modulus]

Transforms == {[at |-> "permute", a |-> a, b |-> b, x |-> Tones(a, b)] : a, b \in Frequencies}
SpectrumInit == fft \in Transforms

\* The counter that runs with i, its carry from the top bit down.
Carried[j \in Bins, bit \in 1..Points] ==
  IF (j \div bit) % 2 = 1 THEN Carried[j - bit, bit \div 2] ELSE j + bit
Partner[i \in Bins] == IF i = 0 THEN 0 ELSE Carried[Partner[i - 1], Points \div 2]

Permute ==
  /\ fft.at = "permute"
  /\ fft' = [at |-> "combine", a |-> fft.a, b |-> fft.b, len |-> 2, x |-> [i \in Bins |-> fft.x[Partner[i]]]]

\* A plausible slip: the angle's sign.
CombinedForwards(x, len) ==
  [k \in Bins |->
    LET half == len \div 2
        t(v) == RootTo(-(Points \div len) * (v % half)) * x[v]
    IN IF k % len < half THEN (x[k] + t(k + half)) % Modulus ELSE (x[k - half] - t(k)) % Modulus]

\* The butterflies of all blocks of len: the phase starts anew in each.
Combined(x, len) ==
  [k \in Bins |->
    LET half == len \div 2
        t(v) == RootTo((Points \div len) * (v % half)) * x[v]
    IN IF k % len < half THEN (x[k] + t(k + half)) % Modulus ELSE (x[k - half] - t(k)) % Modulus]

Combine ==
  /\ fft.at = "combine" /\ fft.len <= Points
  /\ fft' = [fft EXCEPT !.x = Combined(@, fft.len), !.len = 2 * @]

\* computeSpectrum(): the lower half of the frequencies comes first.
Order ==
  /\ fft.at = "combine" /\ fft.len > Points
  /\ fft' = [at |-> "done", a |-> fft.a, b |-> fft.b,
             shown |-> [bin \in Bins |-> fft.x[(bin + Points \div 2) % Points]]]

SpectrumNext == Permute \/ Combine \/ Order

----------------------------------------------------------------------------
\* Each tone shows in the bin of its frequency, as strong as it is, and nowhere else.
SpectrumRight ==
  fft.at = "done" =>
    \A bin \in Bins :
      LET Strength(f, s) == IF bin = f + Points \div 2 THEN s * Points ELSE 0
      IN fft.shown[bin] = (Strength(fft.a, 1) + Strength(fft.b, 3)) % Modulus
=============================================================================
