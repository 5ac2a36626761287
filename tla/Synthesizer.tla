---------------------------- MODULE Synthesizer ----------------------------
(***************************************************************************)
(* Si5351Driver of the firmware: the registers of the synthesizer for two  *)
(* local oscillators, and what the chip makes of them.  Frequencies are in *)
(* kHz; the fractional denominator is a constant, so that the products fit *)
(* TLC's integers.                                                         *)
(***************************************************************************)
EXTENDS Integers, Sequences

CONSTANTS
  RefClock,     \* refClockHz: 40000
  Denominator   \* c: 1048575 in the code

\* The denominator has the twenty bits of p3.
ASSUME SynthesizerAssumption ==
  RefClock \in Nat \ {0} /\ Denominator \in Nat \ {0} /\ Denominator < 1048576

\* Euclid's algorithm, on a pair of numbers.
Gcd[p \in Nat \X Nat] == IF p[2] = 0 THEN p[1] ELSE Gcd[<<p[2], p[1] % p[2]>>]

Clamped(x, low, high) == IF x < low THEN low ELSE IF x > high THEN high ELSE x

\* The eight parameter bytes of a PLL or a MultiSynth, most significant first, as the chip lays them out.
ParameterBytes(p1, p2, p3, mode) ==
  <<(p3 \div 256) % 256, p3 % 256,
    ((p1 \div 65536) % 4) + mode, (p1 \div 256) % 256, p1 % 256,
    16 * ((p3 \div 65536) % 16) + ((p2 \div 65536) % 16), (p2 \div 256) % 256, p2 % 256>>

\* configurePll(): F = RefClock * (a + b/c), with b/c in its lowest terms.
PllParameters(pll) ==
  LET a == pll \div RefClock
      b == ((pll % RefClock) * Denominator) \div RefClock
      shared == Gcd[<<b, Denominator>>]
      num == b \div shared
      den == Denominator \div shared
      eighths == (128 * num) \div den
  IN ParameterBytes(128 * a + eighths - 512, 128 * num - den * eighths, den, 0)

\* configureMultisynth() in integer mode; a divider out of the chip's range is refused.
DividerAllowed(div) == div >= 6 /\ div <= 1800
DividerParameters(div) == ParameterBytes(128 * div - 512, 0, 1, 64)

----------------------------------------------------------------------------
\* setVFOFrequency(): the two clocks lie an offset below and above the receiver's frequency, times the
\* phases of the detector; each PLL runs at an even multiple of its clock, near 700 MHz.
Phases(fourPhase) == IF fourPhase THEN 4 ELSE 8

ClockTargets(freq, offset, fourPhase) ==
  <<(IF freq >= offset THEN freq - offset ELSE 1) * Phases(fourPhase),
    (freq + offset) * Phases(fourPhase)>>

EvenDivider(target) == Clamped(2 * ((700000 \div target) \div 2), 6, 254)

\* The PLL's multiple fits the eighteen bits of p1, which configurePll() takes for granted.
PllFits(target) ==
  LET a == (target * EvenDivider(target)) \div RefClock IN 4 <= a /\ a <= 2051

\* What is written for one oscillator; if its PLL cannot be written its divider is left alone.
Registers(target) == [pll |-> PllParameters(target * EvenDivider(target)),
                      div |-> DividerParameters((target * EvenDivider(target)) \div target)]

----------------------------------------------------------------------------
\* The chip's reading of eight bytes: p1, p2 and p3, and the ratio a + b/c they stand for.
P1(bytes) == 65536 * (bytes[3] % 4) + 256 * bytes[4] + bytes[5]
P2(bytes) == 65536 * (bytes[6] % 16) + 256 * bytes[7] + bytes[8]
P3(bytes) == 65536 * (bytes[6] \div 16) + 256 * bytes[1] + bytes[2]

RatioWhole(bytes) == (P1(bytes) + 512) \div 128
RatioPart(bytes) == (P2(bytes) + P3(bytes) * ((P1(bytes) + 512) % 128)) \div 128

PllRuns(bytes) == RefClock * RatioWhole(bytes) + (RefClock * RatioPart(bytes)) \div P3(bytes)

\* The registers give the clock asked for, to the resolution of the fraction.
GivesClock(registers, target) ==
  LET div == RatioWhole(registers.div)
      error == target * div - PllRuns(registers.pll)
  IN /\ DividerAllowed(div) /\ RatioPart(registers.div) = 0
     /\ 0 <= error /\ error <= (RefClock \div Denominator) + 1
=============================================================================
