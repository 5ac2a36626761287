--------------------------- MODULE StimulusProofs ---------------------------
(***************************************************************************)
(* What becomes of signals, for every value of the constants: the twin's   *)
(* mix of what its script names, in parallel and while it changes; voices  *)
(* that say their own texts; its receiver, with its two channels, the      *)
(* coherence veto, the CPLD's mode and the AGC's gain; and the audio and   *)
(* the river that the application makes of the samples while it is tuned.  *)
(***************************************************************************)
EXTENDS TwinReceiver, StimulusScript, River, ModularArithmetic, WellFoundedInduction, FiniteSetTheorems, TLAPS

----------------------------------------------------------------------------
(* TwinReceiver: channels, veto, mode and gain.                            *)

LoopTypes ==
  loop \in [at : {"top", "veto", "agc", "apply", "write"},
            lo : Int, k : Int, phase : [0..1 -> Int], rotation : Int]
    \cup [at : {"vfo"}, vfo : Int, lo : Int, k : Int, phase : [0..1 -> Int], rotation : Int]
    \cup [at : {"mix"}, todo : SUBSET (0..1), lo : Int, k : Int, phase : [0..1 -> Int], rotation : Int]

KnobTypes ==
  /\ DOMAIN knobs = {"vfo", "osd", "streaming", "at", "next", "commands"}
  /\ knobs.vfo \in Int /\ knobs.osd \in Int /\ knobs.next \in Int

\* By what a channel's oscillator and the rotation have still to be turned in this batch.
Owed(ch) == IF loop.at = "mix" /\ ch \in loop.todo THEN BatchSize * Ratio * Step(ch) ELSE 0
Due == IF loop.at = "mix" THEN BatchSize * Ratio * loop.k ELSE 0

\* How far the channels are apart once the batch is mixed and rotated.
Apart == (loop.phase[0] + Owed(0)) - (loop.phase[1] + Owed(1)) + 2 * (loop.rotation + Due)

ReceiverInv == LoopTypes /\ KnobTypes /\ Apart % Circle = 0 /\ ModeOfBand

LEMMA Constants ==
  /\ Circle \in Nat \ {0} /\ BatchSize * Ratio \in Int /\ BatchSize * Ratio \in Nat
  /\ Vfos \subseteq Int /\ Osds \subseteq Int
  /\ FirstVfo \in Int /\ FirstOsd \in Int /\ HalfSpan \in Nat /\ Edge \in Int
BY ReceiverAssumption

\* Whole turns make no difference.
LEMMA WholeTurns ==
  ASSUME NEW c \in Nat \ {0}, NEW x \in Int, NEW y \in Int, NEW m \in Int, x % c = 0, y = x + c * m
  PROVE  y % c = 0
<1>1. PICK q \in Int, r \in 0..c - 1 : x = c * q + r /\ r = x % c
  BY Division
<1>2. y = c * (q + m) + 0
  BY <1>1
<1>3. q + m \in Int /\ 0 \in 0..c - 1
  OBVIOUS
<1> QED BY <1>2, <1>3, ModUnique, Zenon

LEMMA ModIsInt ==
  ASSUME NEW c \in Nat \ {0}, NEW x \in Int PROVE x % c \in Int
<1>1. x % c \in 0..c - 1
  BY DivMod
<1> QED BY <1>1

LEMMA Distribute ==
  ASSUME NEW d \in Int, NEW a \in Int, NEW b \in Int
  PROVE  d * (a - b) = d * a - d * b /\ d * (a + b) = d * a + d * b
OBVIOUS

----------------------------------------------------------------------------
\* The worker never leaves anything but numbers in the atomics.
LEMMA KnobTypesKept ==
  ASSUME KnobTypes, [ReceiverNext]_receiverVars PROVE KnobTypes'
<1>0. Vfos \subseteq Int /\ Osds \subseteq Int
  BY Constants
<1> USE DEF KnobTypes, Counted, Goes
<1>1. ASSUME NEW f \in Vfos, NEW k \in Osds, StoreVfo(f, k) PROVE KnobTypes'
  BY <1>0, <1>1 DEF StoreVfo
<1>2. CASE StoreOffset
  BY <1>2 DEF StoreOffset
<1>3. CASE StartOrStop
  BY <1>3 DEF StartOrStop
<1>4. ASSUME NEW mode \in 0..3, SetAgc(mode) PROVE KnobTypes'
  BY <1>4 DEF SetAgc
<1>5. ASSUME NEW set \in HandStages, SetSmallStages(set) PROVE KnobTypes'
  BY <1>5 DEF SetSmallStages
<1>6. CASE SetLargeStage
  BY <1>6 DEF SetLargeStage
<1>7. ASSUME NEW code \in HandCodes, SetPga(code) PROVE KnobTypes'
  BY <1>7 DEF SetPga
<1>8. CASE CalStim
  <2>1. CASE knobs' = Goes("stimulus", 0)
    BY <2>1
  <2>2. CASE knobs' = [knobs EXCEPT !.at = "idle"]
    BY <2>2
  <2> QED BY <1>8, <2>1, <2>2, Zenon DEF CalStim, StimulusThenTimer
<1>9. CASE knobs' = knobs
  BY <1>9
<1>10. QED
  BY <1>1, <1>2, <1>3, <1>4, <1>5, <1>6, <1>7, <1>8, <1>9
     DEF ReceiverNext, receiverVars, TimerFires, Halt, ReadVfo, ReadOffset, ProcessChannel, Recombine,
         ProcessBatch, FinishReflex, ApplyRest, Finish

\* What the loop's steps are, and that all others leave it alone.
LoopSteps ==
  \/ ReadVfo \/ ReadOffset \/ (\E ch \in 0..1 : ProcessChannel(ch)) \/ Recombine
  \/ loop.at \in {"veto", "agc", "apply", "write"} /\ \E place \in {"top", "agc", "apply", "write"} :
       loop' = Looped(place) /\ octMode' = octMode
  \/ loop' = loop /\ octMode' = octMode

LEMMA OtherSteps ==
  ASSUME [ReceiverNext]_receiverVars PROVE LoopSteps
<1>1. CASE ProcessBatch \/ (\E error \in Errors : FinishReflex(error)) \/ ApplyRest \/ Finish
  BY <1>1 DEF LoopSteps, ProcessBatch, FinishReflex, ApplyRest, Finish
<1>2. CASE \/ (\E f \in Vfos, k \in Osds : StoreVfo(f, k)) \/ StoreOffset \/ StartOrStop
           \/ (\E mode \in 0..3 : SetAgc(mode)) \/ (\E set \in HandStages : SetSmallStages(set))
           \/ SetLargeStage \/ (\E code \in HandCodes : SetPga(code)) \/ CalStim \/ TimerFires
           \/ Halt \/ UNCHANGED receiverVars
  BY <1>2 DEF LoopSteps, StoreVfo, StoreOffset, StartOrStop, SetAgc, SetSmallStages, SetLargeStage,
              SetPga, CalStim, TimerFires, Halt, receiverVars, OnlyKnobs
<1> QED BY <1>1, <1>2 DEF ReceiverNext, LoopSteps

LEMMA LoopTypesKept ==
  ASSUME LoopTypes, KnobTypes, LoopSteps PROVE LoopTypes'
<1>1. CASE ReadVfo
  BY <1>1 DEF ReadVfo, LoopTypes, KnobTypes
<1>2. CASE ReadOffset
  BY <1>2 DEF ReadOffset, LoopTypes, KnobTypes
<1>3. ASSUME NEW ch \in 0..1, ProcessChannel(ch) PROVE LoopTypes'
  <2>1. (loop.phase[ch] + BatchSize * Ratio * Step(ch)) % Circle \in Int
    <3>1. loop.phase[ch] \in Int /\ Step(ch) \in Int
      BY <1>3 DEF ProcessChannel, LoopTypes, Step
    <3>2. BatchSize * Ratio * Step(ch) \in Int
      BY <3>1, Constants
    <3>3. loop.phase[ch] + BatchSize * Ratio * Step(ch) \in Int
      BY <3>1, <3>2
    <3> QED BY <3>3, Constants, ModIsInt, Zenon
  <2> QED BY <1>3, <2>1 DEF ProcessChannel, LoopTypes
<1>4. CASE Recombine
  <2>1. (loop.rotation + RotationOfBatch) % Circle \in Int
    <3>1. loop.rotation \in Int /\ loop.k \in Int
      BY <1>4 DEF Recombine, LoopTypes
    <3>2. RotationOfBatch \in Int
      BY <3>1, Constants DEF RotationOfBatch
    <3>3. loop.rotation + RotationOfBatch \in Int
      BY <3>1, <3>2
    <3> QED BY <3>3, Constants, ModIsInt, Zenon
  <2> QED BY <1>4, <2>1 DEF Recombine, LoopTypes
<1>5. ASSUME loop.at \in {"veto", "agc", "apply", "write"}, NEW place \in {"top", "agc", "apply", "write"},
             loop' = Looped(place)
      PROVE  LoopTypes'
  BY <1>5 DEF Looped, LoopTypes
<1>6. CASE loop' = loop
  BY <1>6 DEF LoopTypes
<1> QED BY <1>1, <1>2, <1>3, <1>4, <1>5, <1>6 DEF LoopSteps

----------------------------------------------------------------------------
\* The channels stay as far apart, but for whole turns.
LEMMA ApartKept ==
  ASSUME LoopTypes, KnobTypes, LoopSteps, Apart % Circle = 0 PROVE Apart' % Circle = 0
<1> DEFINE d == BatchSize * Ratio
<1>0. d \in Int /\ Circle \in Nat \ {0}
  BY Constants
<1> HIDE DEF d
<1>a. loop.lo \in Int /\ loop.k \in Int /\ loop.phase[0] \in Int /\ loop.phase[1] \in Int
      /\ loop.rotation \in Int
  BY DEF LoopTypes
<1>b. d * (loop.lo - loop.k) \in Int /\ d * (loop.lo + loop.k) \in Int /\ d * loop.k \in Int
  BY <1>0, <1>a
<1>c. Step(0) = loop.lo - loop.k /\ Step(1) = loop.lo + loop.k
  BY DEF Step
<1>d. /\ Owed(0) = IF loop.at = "mix" /\ 0 \in loop.todo THEN d * (loop.lo - loop.k) ELSE 0
      /\ Owed(1) = IF loop.at = "mix" /\ 1 \in loop.todo THEN d * (loop.lo + loop.k) ELSE 0
      /\ Due = IF loop.at = "mix" THEN d * loop.k ELSE 0
  BY <1>c DEF Owed, Due, d
<1>e. Owed(0) \in Int /\ Owed(1) \in Int /\ Due \in Int
  BY <1>b, <1>d
<1>f. Apart \in Int
  BY <1>a, <1>e DEF Apart
<1>1. CASE ReadVfo
  <2>1. Apart' = Apart
    BY <1>1 DEF ReadVfo, LoopTypes, Apart, Owed, Due
  <2> QED BY <2>1
<1>2. CASE ReadOffset
  <2> DEFINE lo == loop.vfo
             k == knobs.osd
  <2>1. lo \in Int /\ k \in Int
    BY <1>2 DEF ReadOffset, LoopTypes, KnobTypes
  <2>2. /\ loop'.at = "mix" /\ loop'.todo = 0..1 /\ loop'.lo = lo /\ loop'.k = k
        /\ loop'.phase = loop.phase /\ loop'.rotation = loop.rotation
    BY <1>2 DEF ReadOffset
  <2> HIDE DEF lo, k
  <2>3. Owed(0)' = d * (lo - k) /\ Owed(1)' = d * (lo + k) /\ Due' = d * k
    BY <2>2 DEF Owed, Due, Step, d
  <2>4. d * (lo - k) = d * lo - d * k /\ d * (lo + k) = d * lo + d * k
        /\ d * lo \in Int /\ d * k \in Int
    BY <1>0, <2>1, Distribute
  <2>5. Apart' = (loop.phase[0] + Owed(0)') - (loop.phase[1] + Owed(1)') + 2 * (loop.rotation + Due')
    BY <2>2 DEF Apart
  <2>6. loop.at = "vfo"
    BY <1>2 DEF ReadOffset
  <2>7. Apart = loop.phase[0] - loop.phase[1] + 2 * loop.rotation
    BY <1>a, <1>d, <2>6 DEF Apart
  <2>8. Apart' = Apart
    BY <1>a, <2>3, <2>4, <2>5, <2>7
  <2> QED BY <2>8
<1>3. ASSUME NEW ch \in 0..1, ProcessChannel(ch) PROVE Apart' % Circle = 0
  <2> DEFINE x == loop.phase[ch] + Owed(ch)
  <2>1. /\ loop.at = "mix" /\ ch \in loop.todo
        /\ loop'.at = "mix" /\ loop'.todo = loop.todo \ {ch}
        /\ loop'.lo = loop.lo /\ loop'.k = loop.k /\ loop'.rotation = loop.rotation
    BY <1>3 DEF ProcessChannel, LoopTypes
  <2>2. loop'.phase = [loop.phase EXCEPT ![ch] = x % Circle]
    BY <1>3, <2>1 DEF ProcessChannel, LoopTypes, Owed
  <2>3. x \in Int
    BY <1>a, <1>e
  <2>4. PICK q \in Int, r \in 0..Circle - 1 : x = Circle * q + r /\ r = x % Circle
    BY <1>0, <2>3, Division
  <2> DEFINE turns == Circle * q
  <2>5. turns \in Int /\ -q \in Int /\ Circle * (-q) = -turns
    BY <1>0
  <2>6. x % Circle = x - turns
    BY <2>3, <2>4, <2>5
  <2>7. Due' = Due
    BY <2>1 DEF Due
  <2>8. Apart' = (loop'.phase[0] + Owed(0)') - (loop'.phase[1] + Owed(1)') + 2 * (loop'.rotation + Due')
    BY DEF Apart
  <2>9. CASE ch = 0
    <3>1. loop'.phase[0] = x % Circle /\ loop'.phase[1] = loop.phase[1]
      BY <2>2, <2>9 DEF LoopTypes
    <3>2. Owed(0)' = 0 /\ Owed(1)' = Owed(1) /\ x = loop.phase[0] + Owed(0)
      BY <2>1, <2>9 DEF Owed, Step
    <3> HIDE DEF x, turns
    <3>3. Apart' = Apart - turns
      BY <1>a, <1>e, <2>1, <2>5, <2>6, <2>7, <2>8, <3>1, <3>2 DEF Apart
    <3>4. Apart' \in Int /\ Apart' = Apart + Circle * (-q)
      BY <1>f, <2>5, <3>3
    <3> QED BY <1>0, <1>f, <2>5, <3>4, WholeTurns, Zenon
  <2>10. CASE ch = 1
    <3>1. loop'.phase[1] = x % Circle /\ loop'.phase[0] = loop.phase[0]
      BY <2>2, <2>10 DEF LoopTypes
    <3>2. Owed(1)' = 0 /\ Owed(0)' = Owed(0) /\ x = loop.phase[1] + Owed(1)
      BY <2>1, <2>10 DEF Owed, Step
    <3> HIDE DEF x, turns
    <3>3. Apart' = Apart + turns
      BY <1>a, <1>e, <2>1, <2>5, <2>6, <2>7, <2>8, <3>1, <3>2 DEF Apart
    <3>4. Apart' \in Int /\ Apart' = Apart + Circle * q
      BY <1>f, <2>5, <3>3 DEF turns
    <3> QED BY <1>0, <1>f, <3>4, WholeTurns, Zenon
  <2> QED BY <2>9, <2>10
<1>4. CASE Recombine
  <2> DEFINE x == loop.rotation + Due
  <2>1. /\ loop.at = "mix" /\ loop.todo = {} /\ loop'.at = "veto" /\ loop'.phase = loop.phase
    BY <1>4 DEF Recombine
  <2>2. loop'.rotation = x % Circle
    BY <1>4 DEF Recombine, RotationOfBatch, Due
  <2>3. x \in Int
    BY <1>a, <1>e
  <2>4. PICK q \in Int, r \in 0..Circle - 1 : x = Circle * q + r /\ r = x % Circle
    BY <1>0, <2>3, Division
  <2> DEFINE turns == Circle * q
  <2>5. turns \in Int /\ -2 * q \in Int /\ Circle * (-2 * q) = -2 * turns
    BY <1>0
  <2>6. x % Circle = x - turns
    BY <2>3, <2>4, <2>5
  <2>7. Owed(0) = 0 /\ Owed(1) = 0 /\ Owed(0)' = 0 /\ Owed(1)' = 0 /\ Due' = 0
    BY <2>1 DEF Owed, Due
  <2>8. Apart' = (loop'.phase[0] + Owed(0)') - (loop'.phase[1] + Owed(1)') + 2 * (loop'.rotation + Due')
    BY DEF Apart
  <2>9. x = loop.rotation + Due
    OBVIOUS
  <2> HIDE DEF x, turns
  <2>10. Apart' = Apart - 2 * turns
    BY <1>a, <1>e, <2>1, <2>2, <2>5, <2>6, <2>7, <2>8, <2>9 DEF Apart
  <2>11. Apart' \in Int /\ Apart' = Apart + Circle * (-2 * q)
    BY <1>f, <2>5, <2>10
  <2> QED BY <1>0, <1>f, <2>5, <2>11, WholeTurns, Zenon
<1>5. ASSUME loop.at \in {"veto", "agc", "apply", "write"}, NEW place \in {"top", "agc", "apply", "write"},
             loop' = Looped(place)
      PROVE  Apart' % Circle = 0
  <2>1. /\ loop'.at = place /\ loop'.phase = loop.phase /\ loop'.rotation = loop.rotation
    BY <1>5 DEF Looped, LoopTypes
  <2>2. Apart' = Apart
    BY <1>5, <2>1 DEF Apart, Owed, Due
  <2> QED BY <2>2
<1>6. CASE loop' = loop
  <2>1. Apart' = Apart
    BY <1>6 DEF Apart, Owed, Due, Step
  <2> QED BY <2>1
<1> QED BY <1>1, <1>2, <1>3, <1>4, <1>5, <1>6 DEF LoopSteps
----------------------------------------------------------------------------
\* The mode follows what the loop is tuned to; between the bands it stays.
LEMMA ModeKept ==
  ASSUME LoopTypes, KnobTypes, LoopSteps, ModeOfBand PROVE ModeOfBand'
<1>0. HalfSpan \in Nat /\ Edge \in Int /\ loop.lo \in Int
  BY Constants DEF LoopTypes
<1>1. CASE ReadOffset
  <2>1. loop'.lo = loop.vfo /\ loop.vfo \in Int
    BY <1>1 DEF ReadOffset, LoopTypes
  <2>2. CASE loop.vfo # loop.lo \/ knobs.osd # loop.k
    <3>1. octMode' = ModeAt(loop.vfo)
      BY <1>1, <2>2, Zenon DEF ReadOffset
    <3>2. CASE loop.vfo - HalfSpan > Edge
      <4>1. octMode' = FALSE
        BY <3>1, <3>2, Zenon DEF ModeAt
      <4>2. ~(loop.vfo + HalfSpan < Edge)
        BY <1>0, <2>1, <3>2
      <4> QED BY <2>1, <4>1, <4>2, Zenon DEF ModeOfBand
    <3>3. CASE ~(loop.vfo - HalfSpan > Edge) /\ loop.vfo + HalfSpan < Edge
      BY <2>1, <3>1, <3>3, Zenon DEF ModeAt, ModeOfBand
    <3>4. CASE ~(loop.vfo - HalfSpan > Edge) /\ ~(loop.vfo + HalfSpan < Edge)
      BY <2>1, <3>4, Zenon DEF ModeOfBand
    <3> QED BY <3>2, <3>3, <3>4, Zenon
  <2>3. CASE ~(loop.vfo # loop.lo \/ knobs.osd # loop.k)
    <3>1. loop'.lo = loop.lo /\ loop'.k = loop.k
      BY <1>1, <2>1, <2>3 DEF ReadOffset
    <3>2. octMode' = octMode
      BY <1>1, <2>3, Zenon DEF ReadOffset
    <3> QED BY <3>1, <3>2, Zenon DEF ModeOfBand, AsBegun
  <2> QED BY <2>2, <2>3, Zenon
<1>2. CASE ~ReadOffset
  <2>1. loop'.lo = loop.lo /\ loop'.k = loop.k
    <3>1. CASE ReadVfo
      BY <3>1 DEF ReadVfo
    <3>2. ASSUME NEW ch \in 0..1, ProcessChannel(ch) PROVE loop'.lo = loop.lo /\ loop'.k = loop.k
      BY <3>2 DEF ProcessChannel, LoopTypes
    <3>3. CASE Recombine
      BY <3>3 DEF Recombine
    <3>4. ASSUME loop.at \in {"veto", "agc", "apply", "write"},
                 NEW place \in {"top", "agc", "apply", "write"}, loop' = Looped(place)
          PROVE  loop'.lo = loop.lo /\ loop'.k = loop.k
      BY <3>4 DEF Looped, LoopTypes
    <3>5. CASE loop' = loop
      BY <3>5
    <3> QED BY <1>2, <3>1, <3>2, <3>3, <3>4, <3>5, Zenon DEF LoopSteps
  <2>2. octMode' = octMode
    BY <1>2, Zenon DEF LoopSteps, ReadVfo, ProcessChannel, Recombine
  <2> QED BY <2>1, <2>2, Zenon DEF ModeOfBand, AsBegun
<1> QED BY <1>1, <1>2, Zenon

LEMMA ReceiverBegins ==
  ASSUME ReceiverInit PROVE ReceiverInv
<1>1. KnobTypes
  BY Constants DEF ReceiverInit, KnobTypes
<1>2. LoopTypes
  BY Constants DEF ReceiverInit, LoopTypes
<1>3. Apart = 0
  BY DEF ReceiverInit, Apart, Owed, Due
<1>4. 0 % Circle = 0
  <2>1. 0 = Circle * 0 + 0 /\ 0 \in 0..Circle - 1
    BY Constants
  <2> QED BY <2>1, Constants, ModUnique
<1>5. octMode = TRUE /\ loop.lo = FirstVfo /\ loop.k = FirstOsd
  BY DEF ReceiverInit
<1>6. AsBegun
  BY <1>5 DEF AsBegun
<1>7. ModeOfBand
  BY <1>5, <1>6, Zenon DEF ModeOfBand
<1> QED BY <1>1, <1>2, <1>3, <1>4, <1>7 DEF ReceiverInv

\* The atomics of ControlHandler and the loop of SignalGen.cpp that reads them: the invariant holds of
\* every state.
THEOREM ReceiverInvariant == ReceiverSpec => []ReceiverInv
<1>1. ReceiverInit => ReceiverInv
  BY ReceiverBegins
<1>2. ReceiverInv /\ [ReceiverNext]_receiverVars => ReceiverInv'
  <2> SUFFICES ASSUME ReceiverInv, [ReceiverNext]_receiverVars PROVE ReceiverInv'
    OBVIOUS
  <2>1. LoopTypes /\ KnobTypes /\ Apart % Circle = 0 /\ ModeOfBand
    BY Zenon DEF ReceiverInv
  <2>2. LoopSteps
    BY OtherSteps, Zenon
  <2>3. KnobTypes'
    BY <2>1, KnobTypesKept, Zenon
  <2>4. LoopTypes'
    BY <2>1, <2>2, LoopTypesKept, Zenon
  <2>5. Apart' % Circle = 0
    BY <2>1, <2>2, ApartKept, Zenon
  <2>6. ModeOfBand'
    BY <2>1, <2>2, ModeKept, Zenon
  <2> QED BY <2>3, <2>4, <2>5, <2>6, Zenon DEF ReceiverInv
<1> QED BY <1>1, <1>2, PTL DEF ReceiverSpec

\* Whatever SET_VFO stores between the two reads of SignalGen's loop, and in whatever order the pool's
\* threads mix the channels, both are turned alike when a batch is done.
THEOREM ChannelsTurnedAlike == ReceiverSpec => []ChannelsAgree
<1>1. ReceiverInv => ChannelsAgree
  <2> SUFFICES ASSUME ReceiverInv, loop.at = "top"
               PROVE  ((loop.phase[0] + loop.rotation) - (loop.phase[1] - loop.rotation)) % Circle = 0
    BY DEF ChannelsAgree
  <2>1. loop.phase[0] \in Int /\ loop.phase[1] \in Int /\ loop.rotation \in Int
    BY DEF ReceiverInv, LoopTypes
  <2>2. Apart = (loop.phase[0] + 0) - (loop.phase[1] + 0) + 2 * (loop.rotation + 0)
    BY DEF Apart, Owed, Due
  <2>3. Apart = (loop.phase[0] + loop.rotation) - (loop.phase[1] - loop.rotation)
    BY <2>1, <2>2
  <2>4. Apart % Circle = 0
    BY Zenon DEF ReceiverInv
  <2> QED BY <2>3, <2>4
<1> QED BY <1>1, ReceiverInvariant, PTL

\* Wherever --lo begins, the CPLD model follows the frequency the loop is tuned to from the first change
\* on, and below the edge from the start.
THEOREM ModeFollowsBand == ReceiverSpec => []ModeOfBand
<1>1. ReceiverInv => ModeOfBand
  BY Zenon DEF ReceiverInv
<1> QED BY <1>1, ReceiverInvariant, PTL

----------------------------------------------------------------------------
\* The timers of CAL_STIM are counted, and only the worker's second step adds one.
StimulusInv == KnobTypes /\ cal.timers \in Nat /\ StimulusEnds

LEMMA StimulusKept ==
  ASSUME StimulusInv, [ReceiverNext]_receiverVars PROVE cal'.timers \in Nat /\ StimulusEnds'
<1>0. KnobTypes /\ cal.timers \in Nat /\ (cal.on => cal.timers > 0 \/ knobs.at = "stimulus")
  BY Zenon DEF StimulusInv, StimulusEnds
<1>1. CASE CalStim
  <2>1. CASE knobs' = Goes("stimulus", 0) /\ cal' = [cal EXCEPT !.on = TRUE]
    <3>1. knobs'.at = "stimulus"
      BY <1>0, <2>1 DEF KnobTypes, Goes, Counted
    <3>2. cal'.timers \in Nat
      BY <1>0, <2>1
    <3> QED BY <3>1, <3>2, Zenon DEF StimulusEnds
  <2>2. CASE cal' = [cal EXCEPT !.timers = @ + 1]
    <3>1. cal'.timers \in Nat /\ cal'.timers > 0
      BY <1>0, <2>2
    <3> QED BY <3>1, Zenon DEF StimulusEnds
  <2> QED BY <1>1, <2>1, <2>2, Zenon DEF CalStim, StimulusThenTimer
<1>2. CASE TimerFires
  <2>1. ~cal'.on /\ cal'.timers \in Nat
    BY <1>0, <1>2 DEF TimerFires
  <2> QED BY <2>1, Zenon DEF StimulusEnds
<1>3. CASE ~CalStim /\ ~TimerFires
  <2>1. cal' = cal
    BY <1>3, Zenon DEF ReceiverNext, receiverVars, StoreVfo, StoreOffset, StartOrStop, SetAgc,
       SetSmallStages, SetLargeStage, SetPga, OnlyKnobs, Halt, ReadVfo, ReadOffset, ProcessChannel,
       Recombine, ProcessBatch, FinishReflex, ApplyRest, Finish
  <2>2. knobs.at = "stimulus" => knobs' = knobs
    BY <1>3 DEF ReceiverNext, receiverVars, StoreVfo, StoreOffset, StartOrStop, SetAgc,
       SetSmallStages, SetLargeStage, SetPga, OnlyKnobs, Halt, ReadVfo, ReadOffset, ProcessChannel,
       Recombine, ProcessBatch, FinishReflex, ApplyRest, Finish, Command
  <2> QED BY <1>0, <2>1, <2>2, Zenon DEF StimulusEnds
<1> QED BY <1>1, <1>2, <1>3, Zenon

\* Whatever calls of CAL_STIM overlap and whichever timer fires first, a stimulus that is on has a timer
\* to come, or the worker is about to start it (ControlHandler.cpp's detached threads).
THEOREM StimulusAlwaysEnds == ReceiverSpec => []StimulusEnds
<1>1. ReceiverInit => StimulusInv
  <2> SUFFICES ASSUME ReceiverInit PROVE StimulusInv
    OBVIOUS
  <2>1. KnobTypes
    BY ReceiverBegins, Zenon DEF ReceiverInv
  <2>2. cal.timers \in Nat /\ ~cal.on
    BY DEF ReceiverInit
  <2> QED BY <2>1, <2>2, Zenon DEF StimulusInv, StimulusEnds
<1>2. StimulusInv /\ [ReceiverNext]_receiverVars => StimulusInv'
  BY StimulusKept, KnobTypesKept, Zenon DEF StimulusInv
<1>3. StimulusInv => StimulusEnds
  BY Zenon DEF StimulusInv
<1> QED BY <1>1, <1>2, <1>3, PTL DEF ReceiverSpec

----------------------------------------------------------------------------
\* What the veto has kept once n samples of the stream are through it: the last hop, and the half of
\* it that is still to come under the second half of the window.
Retained(stream, n) ==
  [history |-> [i \in 0..Hop - 1 |-> IF n = 0 THEN Quiet ELSE <<stream, n - Hop + i>>],
   overlap |-> [i \in 0..2 * Hop - 1 |-> IF n = 0 \/ i >= Hop THEN {}
                                         ELSE {<<<<stream, n - Hop + i>>, i + Hop>>}]]

Through == IF loop.at \in {"agc", "apply", "write"} THEN output.sample + BatchSize ELSE output.sample

VetoInv ==
  /\ DOMAIN output = {"stream", "sample", "last", "pacing", "batches"}
  /\ output.sample \in Nat /\ (output.sample = 0 \/ output.sample >= Hop)
  /\ ~output.pacing => output.sample = 0
  /\ veto = Retained(output.stream, Through)
  /\ VetoWhole

LEMMA Hops ==
  /\ Hop \in Nat \ {0} /\ BatchSize \in Nat \ {0} /\ BatchSize \div Hop \in Nat \ {0}
  /\ BatchSize = Hop * (BatchSize \div Hop)
  /\ BatchSize >= Hop
<1>1. Hop \in Nat \ {0} /\ BatchSize \in Nat \ {0} /\ BatchSize % Hop = 0
  BY ReceiverAssumption
<1> DEFINE q == BatchSize \div Hop
<1>2. BatchSize = Hop * q + 0 /\ q \in Int
  BY <1>1, DivMod
<1> HIDE DEF q
<1>3. q >= 1
  <2> SUFFICES ASSUME q <= 0 PROVE FALSE
    BY <1>2
  <2>1. Hop * (-q) >= 0 /\ Hop * (-q) = -(Hop * q)
    BY <1>1, <1>2
  <2> QED  BY <1>1, <1>2, <2>1
<1>4. Hop * (q - 1) >= 0 /\ Hop * (q - 1) = Hop * q - Hop
  BY <1>1, <1>2, <1>3
<1> QED BY <1>1, <1>2, <1>3, <1>4 DEF q

\* The overlap before hop h, without the recursion.
OverlapBefore(h) ==
  IF h = 0 THEN veto.overlap
  ELSE [i \in 0..2 * Hop - 1 |-> IF i < Hop THEN {<<SampleOf((h - 1) * Hop + i), i + Hop>>} ELSE {}]

LEMMA OverlapMoves ==
  ASSUME NEW n \in Nat, veto = Retained(output.stream, n), NEW h \in Nat \ {0}
  PROVE  Advanced(Windowed(h - 1, OverlapBefore(h - 1))) = OverlapBefore(h)
<1>0. Hop \in Nat \ {0}
  BY Hops
<1> DEFINE before == OverlapBefore(h - 1)
           shown == Windowed(h - 1, before)
<1>1. ASSUME NEW i \in 0..Hop - 1
      PROVE  shown[i + Hop] = {<<SampleOf((h - 1) * Hop + i), i + Hop>>}
  <2>1. i + Hop \in 0..2 * Hop - 1 /\ ~(i + Hop < Hop) /\ i + Hop >= Hop
    BY <1>0
  <2>2. shown[i + Hop] = before[i + Hop] \cup {<<InBlock(h - 1, i + Hop), i + Hop>>}
    BY <2>1, Zenon DEF Windowed
  <2>3. before[i + Hop] = {}
    <3>1. CASE h - 1 = 0
      <4>1. before = veto.overlap
        BY <3>1, Zenon DEF OverlapBefore
      <4>2. veto.overlap[i + Hop] = {}
        BY <2>1 DEF Retained
      <4> QED  BY <4>1, <4>2, Zenon
    <3>2. CASE h - 1 # 0
      <4>1. before = [j \in 0..2 * Hop - 1 |->
                         IF j < Hop THEN {<<SampleOf((h - 1 - 1) * Hop + j), j + Hop>>} ELSE {}]
        BY <3>2, Zenon DEF OverlapBefore
      <4> HIDE DEF before
      <4> QED  BY <2>1, <4>1, Zenon
    <3> QED  BY <3>1, <3>2, Zenon
  <2>4. InBlock(h - 1, i + Hop) = SampleOf((h - 1 - 1) * Hop + (i + Hop))
    BY <2>1, Zenon DEF InBlock
  <2>5. (h - 1 - 1) * Hop + (i + Hop) = (h - 1) * Hop + i
    <3>1. (h - 1 - 1) * Hop = (h - 1) * Hop - Hop /\ (h - 1) * Hop \in Int
      BY <1>0
    <3> QED  BY <1>0, <3>1
  <2> QED BY <2>2, <2>3, <2>4, <2>5, Zenon
<1>2. \A i \in 0..2 * Hop - 1 : i < Hop => i \in 0..Hop - 1
  BY <1>0
<1>3. Advanced(shown) = [i \in 0..2 * Hop - 1 |-> IF i < Hop THEN shown[i + Hop] ELSE {}]
  BY Zenon DEF Advanced
<1> HIDE DEF shown
<1>4. Advanced(shown) = [i \in 0..2 * Hop - 1 |->
                           IF i < Hop THEN {<<SampleOf((h - 1) * Hop + i), i + Hop>>} ELSE {}]
  BY <1>1, <1>2, <1>3, Zenon
<1>5. h # 0
  OBVIOUS
<1> QED BY <1>4, <1>5, Zenon DEF OverlapBefore, shown

\* The recursion gives the overlap before each hop.
LEMMA OverlapsAre ==
  ASSUME NEW n \in Nat, veto = Retained(output.stream, n)
  PROVE  \A h \in 0..BatchSize \div Hop : Overlaps[h] = OverlapBefore(h)
<1> DEFINE D == 0..BatchSize \div Hop
           G == [h \in D |-> OverlapBefore(h)]
           Def(f) == [h \in D |-> IF h = 0 THEN veto.overlap ELSE Advanced(Windowed(h - 1, f[h - 1]))]
<1>0. BatchSize \div Hop \in Nat
  BY Hops
<1>1. ASSUME NEW h \in D, h # 0 PROVE h - 1 \in D /\ h \in Nat \ {0} /\ h = (h - 1) + 1
  BY <1>0, <1>1
<1>2. G = Def(G)
  <2>1. ASSUME NEW h \in D, h # 0 PROVE OverlapBefore(h) = Advanced(Windowed(h - 1, G[h - 1]))
    <3>1. G[h - 1] = OverlapBefore(h - 1)
      BY <1>1, <2>1, Zenon
    <3> HIDE DEF G
    <3> QED BY <1>1, <2>1, <3>1, OverlapMoves, Zenon
  <2>2. OverlapBefore(0) = veto.overlap
    BY Zenon DEF OverlapBefore
  <2> QED BY <2>1, <2>2, Zenon
<1>3. Overlaps = CHOOSE f : f = Def(f)
  BY Zenon DEF Overlaps
<1>4. Overlaps = Def(Overlaps)
  <2> HIDE DEF G
  <2> QED BY <1>2, <1>3, Zenon
<1> DEFINE S == {h \in Nat : h \in D => Overlaps[h] = G[h]}
<1>5. 0 \in S
  <2>1. 0 \in D
    BY <1>0
  <2> QED  BY <2>1, <1>2, <1>4, Zenon
<1>6. ASSUME NEW h \in S PROVE h + 1 \in S
  <2>1. h + 1 \in Nat /\ h + 1 # 0 /\ (h + 1) - 1 = h
    BY <1>6
  <2>2. CASE h + 1 \in D
    <3>1. h \in D
      BY <1>0, <2>1, <2>2
    <3>2. Overlaps[h] = G[h]
      BY <1>6, <3>1, Zenon
    <3>3. Overlaps[h + 1] = Advanced(Windowed(h, Overlaps[h]))
      BY <1>4, <2>1, <2>2, Zenon
    <3>4. G[h + 1] = Advanced(Windowed(h, G[h]))
      BY <1>2, <2>1, <2>2, Zenon
    <3> QED  BY <2>1, <3>2, <3>3, <3>4, Zenon
  <2> QED BY <2>1, <2>2, Zenon
<1>7. S = Nat
  <2>1. S \subseteq Nat
    OBVIOUS
  <2> HIDE DEF S
  <2> QED  BY <1>5, <1>6, <2>1, AllNumbers, Zenon
<1>8. ASSUME NEW h \in D PROVE Overlaps[h] = OverlapBefore(h)
  <2>1. h \in Nat
    BY <1>0
  <2>2. h \in S
    BY <2>1, <1>7, Zenon
  <2> QED BY <2>2, Zenon
<1> QED BY <1>8, Zenon

\* What comes out at hop h, place j of a batch.
LEMMA OutOfVeto ==
  ASSUME NEW n \in Nat, veto = Retained(output.stream, n), n = output.sample, n = 0 \/ n >= Hop,
         NEW s \in 0..BatchSize - 1
  PROVE  LET number == n + s - Hop
         IN IF number < 0 THEN \A part \in Vetoed[s] : part[1] = Quiet
            ELSE Vetoed[s] = {<<<<output.stream, number>>, s % Hop>>,
                              <<<<output.stream, number>>, (s % Hop) + Hop>>}
<1> DEFINE h == s \div Hop
           j == s % Hop
           count == BatchSize \div Hop
           number == n + s - Hop
<1>0. Hop \in Nat \ {0} /\ BatchSize \in Nat \ {0} /\ count \in Nat \ {0} /\ BatchSize = Hop * count
  BY Hops
<1>1. s \in Int /\ s = Hop * h + j /\ h \in Int /\ j \in 0..Hop - 1
  <2>1. s \in Int
    BY <1>0
  <2> QED BY <1>0, <2>1, DivMod
<1>2. Vetoed[s] = Windowed(h, Overlaps[h])[j]
  BY Zenon DEF Vetoed
<1> HIDE DEF h, j, count
<1>3. h \in 0..count
  <2>1. h >= 0
    <3> SUFFICES ASSUME h <= -1 PROVE FALSE
      BY <1>1
    <3>1. Hop * (-1 - h) >= 0 /\ Hop * (-1 - h) = -Hop - Hop * h
      BY <1>0, <1>1
    <3> QED  BY <1>0, <1>1, <3>1
  <2>2. h <= count
    <3> SUFFICES ASSUME h >= count + 1 PROVE FALSE
      BY <1>0, <1>1
    <3>1. Hop * (h - count - 1) >= 0 /\ Hop * (h - count - 1) = Hop * h - Hop * count - Hop
      BY <1>0, <1>1
    <3> QED  BY <1>0, <1>1, <3>1
  <2> QED BY <1>0, <1>1, <2>1, <2>2
<1>4. Overlaps[h] = OverlapBefore(h)
  BY <1>3, OverlapsAre, Zenon DEF count
<1>5. j \in 0..2 * Hop - 1 /\ j < Hop /\ ~(j >= Hop) /\ j \in Int
  BY <1>0, <1>1
<1>6. Vetoed[s] = OverlapBefore(h)[j] \cup {<<InBlock(h, j), j>>}
  BY <1>2, <1>4, <1>5, Zenon DEF Windowed
<1>7. CASE h = 0
  <2>1. j = s
    BY <1>0, <1>1, <1>7
  <2>2. InBlock(h, j) = veto.history[j]
    BY <1>5, <1>7, Zenon DEF InBlock
  <2>3. OverlapBefore(h) = veto.overlap
    BY <1>7, Zenon DEF OverlapBefore
  <2>4. /\ veto.history = [i \in 0..Hop - 1 |-> IF n = 0 THEN Quiet ELSE <<output.stream, n - Hop + i>>]
        /\ veto.overlap = [i \in 0..2 * Hop - 1 |-> IF n = 0 \/ i >= Hop THEN {}
                                                    ELSE {<<<<output.stream, n - Hop + i>>, i + Hop>>}]
    BY Zenon DEF Retained
  <2>5. n - Hop + j = number
    BY <1>0, <2>1
  <2>6. CASE n = 0
    <3>1. Vetoed[s] = {<<Quiet, j>>}
      <4>1. veto.history[j] = Quiet
        BY <1>1, <2>4, <2>6, Zenon
      <4>2. veto.overlap[j] = {}
        BY <1>5, <2>4, <2>6, Zenon
      <4> QED  BY <1>6, <2>2, <2>3, <4>1, <4>2, Zenon
    <3>2. number < 0
      BY <1>0, <1>1, <2>1, <2>6
    <3> QED BY <3>1, <3>2
  <2>7. CASE n # 0
    <3>1. veto.history[j] = <<output.stream, number>>
      <4>1. veto.history[j] = <<output.stream, n - Hop + j>>
        BY <1>1, <2>4, <2>7, Zenon
      <4> QED  BY <4>1, <2>5, Zenon
    <3>2. veto.overlap[j] = {<<<<output.stream, number>>, j + Hop>>}
      BY <1>5, <2>4, <2>5, <2>7, Zenon
    <3>3. Vetoed[s] = {<<<<output.stream, number>>, j>>, <<<<output.stream, number>>, j + Hop>>}
      BY <1>6, <2>2, <2>3, <3>1, <3>2, Zenon
    <3>4. ~(number < 0)
      BY <1>0, <1>1, <2>7
    <3> QED BY <3>3, <3>4, Zenon DEF j
  <2> QED BY <2>6, <2>7, Zenon
<1>8. CASE h # 0
  <2>1. InBlock(h, j) = SampleOf((h - 1) * Hop + j)
    BY <1>8, Zenon DEF InBlock
  <2>2. OverlapBefore(h)[j] = {<<SampleOf((h - 1) * Hop + j), j + Hop>>}
    BY <1>5, <1>8, Zenon DEF OverlapBefore
  <2>3. output.sample + ((h - 1) * Hop + j) = number /\ ~(number < 0)
    <3>1. (h - 1) * Hop = Hop * h - Hop /\ Hop * (h - 1) >= 0 /\ Hop * (h - 1) = Hop * h - Hop
      BY <1>0, <1>3, <1>8
    <3>2. Hop * h \in Int
      BY <1>0, <1>1
    <3> QED  BY <1>0, <1>1, <3>1, <3>2
  <2>4. SampleOf((h - 1) * Hop + j) = <<output.stream, number>>
    BY <2>3, Zenon DEF SampleOf
  <2>5. Vetoed[s] = {<<<<output.stream, number>>, j>>, <<<<output.stream, number>>, j + Hop>>}
    BY <1>6, <2>1, <2>2, <2>4, Zenon
  <2> QED BY <2>3, <2>5, Zenon DEF j
<1> QED BY <1>7, <1>8, Zenon

\* A batch leaves its last hop.
LEMMA LeftInVeto ==
  ASSUME NEW n \in Nat, veto = Retained(output.stream, n), n = output.sample,
         veto' = [history |-> HistoryAfter, overlap |-> Overlaps[BatchSize \div Hop]],
         output'.stream = output.stream
  PROVE  veto' = Retained(output'.stream, n + BatchSize)
<1> DEFINE count == BatchSize \div Hop
<1>0. Hop \in Nat \ {0} /\ BatchSize \in Nat \ {0} /\ count \in Nat \ {0} /\ BatchSize = Hop * count
  BY Hops
<1>1. Overlaps[count] = OverlapBefore(count)
  <2>1. count \in 0..count
    BY <1>0
  <2> QED BY <2>1, OverlapsAre, Zenon
<1> HIDE DEF count
<1>2. OverlapBefore(count) =
        [i \in 0..2 * Hop - 1 |-> IF i < Hop THEN {<<SampleOf((count - 1) * Hop + i), i + Hop>>} ELSE {}]
  <2>1. count # 0
    BY <1>0
  <2> QED BY <2>1, Zenon DEF OverlapBefore
<1>3. \A i \in Int : SampleOf((count - 1) * Hop + i) = <<output.stream, (n + BatchSize) - Hop + i>>
  <2>1. (count - 1) * Hop = BatchSize - Hop
    BY <1>0
  <2>2. \A i \in Int : output.sample + ((BatchSize - Hop) + i) = (n + BatchSize) - Hop + i
    BY <1>0
  <2> QED BY <2>1, <2>2, Zenon DEF SampleOf
<1>4. \A i \in 0..Hop - 1 : SampleOf(BatchSize - Hop + i) = <<output.stream, (n + BatchSize) - Hop + i>>
  <2>1. \A i \in 0..Hop - 1 : output.sample + (BatchSize - Hop + i) = (n + BatchSize) - Hop + i
    BY <1>0
  <2> QED BY <2>1, Zenon DEF SampleOf
<1>5. n + BatchSize # 0
  BY <1>0
<1>6. HistoryAfter = [i \in 0..Hop - 1 |-> <<output.stream, (n + BatchSize) - Hop + i>>]
  BY <1>4, Zenon DEF HistoryAfter
<1>7. Overlaps[count] = [i \in 0..2 * Hop - 1 |-> IF i >= Hop THEN {}
                                    ELSE {<<<<output.stream, (n + BatchSize) - Hop + i>>, i + Hop>>}]
  <2>1. \A i \in 0..2 * Hop - 1 : i \in Int /\ (i < Hop <=> ~(i >= Hop))
    BY <1>0
  <2> QED BY <1>1, <1>2, <1>3, <2>1, Zenon
<1>8. veto' = [history |-> HistoryAfter, overlap |-> Overlaps[count]]
  BY Zenon DEF count
<1>9. HistoryAfter = [i \in 0..Hop - 1 |-> IF n + BatchSize = 0 THEN Quiet
                                            ELSE <<output'.stream, (n + BatchSize) - Hop + i>>]
  BY <1>5, <1>6, Zenon
<1>10. Overlaps[count] = [i \in 0..2 * Hop - 1 |-> IF n + BatchSize = 0 \/ i >= Hop THEN {}
                                     ELSE {<<<<output'.stream, (n + BatchSize) - Hop + i>>, i + Hop>>}]
  BY <1>5, <1>7, Zenon
<1>11. veto' = [history |-> [i \in 0..Hop - 1 |-> IF n + BatchSize = 0 THEN Quiet
                                                 ELSE <<output'.stream, (n + BatchSize) - Hop + i>>],
                overlap |-> [i \in 0..2 * Hop - 1 |-> IF n + BatchSize = 0 \/ i >= Hop THEN {}
                                     ELSE {<<<<output'.stream, (n + BatchSize) - Hop + i>>, i + Hop>>}]]
  BY <1>8, <1>9, <1>10, Zenon
<1> QED BY <1>11, Zenon DEF Retained, Quiet

\* Everything but the loop's own steps leaves the stream and the veto alone.
VetoSteps == Halt \/ ProcessBatch \/ Finish

LEMMA OtherVetoSteps ==
  ASSUME LoopTypes, [ReceiverNext]_receiverVars, ~VetoSteps
  PROVE  /\ veto' = veto /\ output' = output
         /\ loop'.at \in {"agc", "apply", "write"} <=> loop.at \in {"agc", "apply", "write"}
         /\ loop'.at = "agc" => loop.at = "agc"
<1>1. veto' = veto /\ output' = output
  BY Zenon DEF VetoSteps, ReceiverNext, receiverVars, StoreVfo, StoreOffset, StartOrStop, SetAgc,
     SetSmallStages, SetLargeStage, SetPga, OnlyKnobs, CalStim, TimerFires, ReadVfo, ReadOffset,
     ProcessChannel, Recombine, FinishReflex, ApplyRest
<1>2. CASE ReadVfo \/ ReadOffset \/ (\E ch \in 0..1 : ProcessChannel(ch)) \/ Recombine
  <2>1. CASE ReadVfo
    BY <1>1, <2>1 DEF ReadVfo
  <2>2. CASE ReadOffset
    BY <1>1, <2>2 DEF ReadOffset
  <2>3. ASSUME NEW ch \in 0..1, ProcessChannel(ch) PROVE loop.at = "mix" /\ loop'.at = "mix"
    BY <2>3 DEF LoopTypes, ProcessChannel
  <2>4. CASE Recombine
    BY <1>1, <2>4 DEF Recombine
  <2> QED BY <1>1, <1>2, <2>1, <2>2, <2>3, <2>4
<1>3. ASSUME NEW error \in Errors, FinishReflex(error)
      PROVE  loop.at = "agc" /\ loop'.at \in {"apply", "write"}
  <2>1. loop.at = "agc" /\ \E place \in {"apply", "write"} : loop' = Looped(place)
    BY <1>3 DEF FinishReflex
  <2> QED BY <2>1 DEF LoopTypes, Looped
<1>4. CASE ApplyRest
  BY <1>4 DEF LoopTypes, ApplyRest, Looped
<1>5. CASE loop' = loop
  BY <1>1, <1>5, Zenon
<1>6. loop' = loop \/ ReadVfo \/ ReadOffset \/ (\E ch \in 0..1 : ProcessChannel(ch)) \/ Recombine
      \/ (\E error \in Errors : FinishReflex(error)) \/ ApplyRest
  BY Zenon DEF VetoSteps, ReceiverNext, receiverVars, StoreVfo, StoreOffset, StartOrStop, SetAgc,
     SetSmallStages, SetLargeStage, SetPga, OnlyKnobs, CalStim, TimerFires
<1> QED BY <1>1, <1>2, <1>3, <1>4, <1>5, <1>6

LEMMA RestedIsKept == \A stream : Retained(stream, 0) = Rested
BY Zenon DEF Retained, Rested, SilentHistory, NoOverlap

LEMMA VetoKept ==
  ASSUME LoopTypes, VetoInv, [ReceiverNext]_receiverVars PROVE VetoInv'
<1>0. Hop \in Nat \ {0} /\ BatchSize \in Nat \ {0} /\ BatchSize >= Hop
  BY Hops
<1>a. /\ DOMAIN output = {"stream", "sample", "last", "pacing", "batches"}
      /\ output.sample \in Nat /\ (output.sample = 0 \/ output.sample >= Hop)
      /\ ~output.pacing => output.sample = 0
      /\ veto = Retained(output.stream, Through)
  BY Zenon DEF VetoInv
<1>1. CASE Halt
  <2>1. /\ loop' = loop /\ loop.at = "top"
    BY <1>1 DEF Halt
  <2>2. /\ DOMAIN output' = DOMAIN output /\ output'.sample = 0
        /\ ~output.pacing => output'.stream = output.stream
    BY <1>1, <1>a DEF Halt
  <2>3. Through = output.sample /\ Through' = 0
    BY <2>1, <2>2 DEF Through
  <2>4. veto' = Retained(output'.stream, 0)
    <3>1. CASE output.pacing
      BY <1>1, <3>1, RestedIsKept, Zenon DEF Halt
    <3>2. CASE ~output.pacing
      BY <1>1, <1>a, <2>2, <2>3, <3>2, Zenon DEF Halt
    <3> QED  BY <3>1, <3>2, Zenon
  <2>5. VetoWhole'
    BY <2>1 DEF VetoWhole
  <2>6. output'.sample \in Nat
    BY <2>2
  <2> QED BY <1>a, <2>2, <2>3, <2>4, <2>5, <2>6, Zenon DEF VetoInv
<1>2. CASE ProcessBatch
  <2>1. loop.at = "veto" /\ loop'.at = "agc"
    BY <1>2 DEF ProcessBatch, Looped, LoopTypes
  <2>2. /\ DOMAIN output' = DOMAIN output /\ output'.sample = output.sample /\ output'.stream = output.stream
        /\ output'.pacing = output.pacing /\ output'.last = Vetoed
    BY <1>2, <1>a DEF ProcessBatch
  <2>3. Through = output.sample /\ Through' = output.sample + BatchSize
    BY <2>1, <2>2 DEF Through
  <2>4. veto = Retained(output.stream, output.sample)
    BY <1>a, <2>3, Zenon
  <2>5. veto' = [history |-> HistoryAfter, overlap |-> Overlaps[BatchSize \div Hop]]
    BY <1>2, Zenon DEF ProcessBatch
  <2>6. veto' = Retained(output'.stream, output.sample + BatchSize)
    BY <1>a, <2>2, <2>4, <2>5, LeftInVeto, Zenon
  <2>7. VetoWhole'
    <3> SUFFICES ASSUME NEW s \in 0..BatchSize - 1
                 PROVE  LET number == output'.sample + s - Hop
                        IN IF number < 0 THEN \A part \in output'.last[s] : part[1] = Quiet
                           ELSE output'.last[s] = {<<<<output'.stream, number>>, s % Hop>>,
                                                   <<<<output'.stream, number>>, (s % Hop) + Hop>>}
      BY Zenon DEF VetoWhole, Quiet
    <3> QED BY <1>a, <2>2, <2>4, OutOfVeto, Zenon
  <2> QED BY <1>a, <2>2, <2>3, <2>6, <2>7, Zenon DEF VetoInv
<1>3. CASE Finish
  <2>1. loop.at = "write" /\ loop'.at = "top"
    BY <1>3 DEF Finish, Looped, LoopTypes
  <2>2. /\ DOMAIN output' = DOMAIN output /\ output'.sample = output.sample + BatchSize
        /\ output'.stream = output.stream /\ output'.pacing = TRUE
    BY <1>3, <1>a DEF Finish
  <2>3. Through' = output.sample + BatchSize /\ Through = output.sample + BatchSize
    BY <2>1, <2>2 DEF Through
  <2>4. veto' = veto
    BY <1>3 DEF Finish
  <2>5. VetoWhole'
    BY <2>1 DEF VetoWhole
  <2>6. output'.sample \in Nat /\ output'.sample >= Hop
    BY <1>0, <1>a, <2>2
  <2> QED BY <1>a, <2>2, <2>3, <2>4, <2>5, <2>6, Zenon DEF VetoInv
<1>4. CASE ~VetoSteps
  <2>1. /\ veto' = veto /\ output' = output
        /\ loop'.at \in {"agc", "apply", "write"} <=> loop.at \in {"agc", "apply", "write"}
        /\ loop'.at = "agc" => loop.at = "agc"
    BY <1>4, OtherVetoSteps, Zenon
  <2>2. Through' = Through
    BY <2>1, Zenon DEF Through
  <2>3. VetoWhole'
    BY <2>1, Zenon DEF VetoInv, VetoWhole, Quiet
  <2> QED BY <1>a, <2>1, <2>2, <2>3, Zenon DEF VetoInv
<1> QED BY <1>1, <1>2, <1>3, <1>4, Zenon DEF VetoSteps

LEMMA VetoStarts == ASSUME ReceiverInit PROVE VetoInv
<1>1. /\ DOMAIN output = {"stream", "sample", "last", "pacing", "batches"}
      /\ output.sample = 0 /\ loop.at = "top" /\ veto = Rested
  BY DEF ReceiverInit
<1>2. Through = 0 /\ VetoWhole
  BY <1>1 DEF Through, VetoWhole
<1>3. 0 \in Nat
  OBVIOUS
<1> QED BY <1>1, <1>2, <1>3, RestedIsKept, Zenon DEF VetoInv

----------------------------------------------------------------------------
\* The AGC's gains, from 0 to 60 dB.
GainRange == 0..6000

\* The attenuator and the PGA have what the AGC last applied, but for the small stages while it is at it.
GainInv ==
  /\ DOMAIN gains = {"mode", "wanted", "applied", "stages", "pga", "byHand"}
  /\ gains.wanted \in Int /\ gains.byHand \in BOOLEAN
  /\ ~gains.byHand =>
       /\ gains.applied \in GainRange
       /\ -20 <= gains.wanted - gains.applied /\ gains.wanted - gains.applied <= 20
       /\ loop.at = "apply" => gains.stages \ {3, 6} = StagesFor(AttenuationFor(gains.applied)) \ {3, 6}
       /\ loop.at # "apply" => /\ gains.stages = StagesFor(AttenuationFor(gains.applied))
                               /\ gains.pga = PgaFor(gains.applied)

LEMMA InGainRange == ASSUME NEW gain \in Int PROVE InRange(gain) \in GainRange
BY DEF InRange, GainRange

LEMMA ReflexInRange ==
  ASSUME gains.wanted \in Int, NEW error \in Errors PROVE Reflex(error) \in GainRange
<1>1. error \in Int
  BY ReceiverAssumption
<1> DEFINE down == IF error > 0 THEN 50 * error
                   ELSE CASE gains.mode = 1 -> 5 * error [] gains.mode = 2 -> error
                          [] OTHER -> error \div 10
<1>2. error \div 10 \in Int
  BY <1>1
<1>3. down \in Int
  BY <1>1, <1>2
<1>4. Reflex(error) = InRange(gains.wanted - down)
  BY DEF Reflex
<1> HIDE DEF down
<1>5. gains.wanted - down \in Int
  BY <1>3
<1> QED BY <1>4, <1>5, InGainRange, Zenon

\* The stages make up the attenuation they are chosen for.
LEMMA StagesMakeUp ==
  ASSUME NEW m \in 0..15 PROVE Attenuation(StagesFor(3 * m)) = 3 * m
<1> DEFINE db == 3 * m
           set == StagesFor(db)
           after24 == db - (IF db >= 24 THEN 24 ELSE 0)
           after12 == after24 - (IF after24 >= 12 THEN 12 ELSE 0)
           after6 == after12 - (IF after12 >= 6 THEN 6 ELSE 0)
<1>1. /\ 24 \in set <=> db >= 24
      /\ 12 \in set <=> after24 >= 12
      /\ 6 \in set <=> after12 >= 6
      /\ 3 \in set <=> after6 >= 3
  BY DEF StagesFor, Stages
<1> HIDE DEF set
<1>2. Attenuation(set) = (IF after6 >= 3 THEN 3 ELSE 0) + (IF after12 >= 6 THEN 6 ELSE 0)
                         + (IF after24 >= 12 THEN 12 ELSE 0) + (IF db >= 24 THEN 24 ELSE 0)
  BY <1>1 DEF Attenuation
<1>3. after6 = 0 \/ after6 = 3
  OBVIOUS
<1>4. Attenuation(set) = db
  BY <1>2, <1>3
<1> QED BY <1>4 DEF set

\* What is applied makes up the gain, to the half of a step of the PGA or one step of the attenuator.
LEMMA GainMadeUp ==
  ASSUME NEW gain \in GainRange
  PROVE  /\ PgaFor(gain) \in Int
         /\ Attenuation(StagesFor(AttenuationFor(gain))) \in Int
         /\ LET error == 100 * (4 * PgaFor(gain) - Attenuation(StagesFor(AttenuationFor(gain)))) - (gain - 4500)
            IN -300 < error /\ error < 300
<1>0. gain \in Int /\ 0 <= gain /\ gain <= 6000
  BY DEF GainRange
<1>1. CASE gain >= 4500
  <2>1. AttenuationFor(gain) = 0
    BY <1>0, <1>1 DEF AttenuationFor
  <2>2. Attenuation(StagesFor(AttenuationFor(gain))) = 0
    <3>1. Attenuation(StagesFor(3 * 0)) = 3 * 0
      BY StagesMakeUp
    <3> QED BY <2>1, <3>1
  <2>3. PgaFor(gain) = IF (gain - 4500) + 100 * 0 < 200 THEN 0 ELSE ((gain - 4500) + 100 * 0 + 200) \div 400
    BY <1>0, <2>1 DEF PgaFor
  <2> DEFINE x == (gain - 4500) + 100 * 0 + 200
  <2>4. x \in Int /\ x = gain - 4300
    BY <1>0
  <2> HIDE DEF x
  <2>5. x \div 400 \in Int /\ 400 * (x \div 400) <= x /\ x < 400 * (x \div 400) + 400
    BY <2>4
  <2>6. PgaFor(gain) = IF gain - 4500 < 200 THEN 0 ELSE x \div 400
    BY <1>0, <2>3 DEF x
  <2> QED BY <1>0, <1>1, <2>2, <2>4, <2>5, <2>6
<1>2. CASE gain < 4500
  <2> DEFINE q == (4500 - gain) \div 300
  <2>1. q \in 0..15 /\ 300 * q <= 4500 - gain /\ 4500 - gain < 300 * q + 300
    BY <1>0, <1>2
  <2>2. AttenuationFor(gain) = 3 * q
    <3>1. ~(gain >= 4500)
      BY <1>0, <1>2
    <3> QED BY <1>0, <3>1 DEF AttenuationFor, q
  <2> HIDE DEF q
  <2>3. Attenuation(StagesFor(AttenuationFor(gain))) = 3 * q
    BY <2>1, <2>2, StagesMakeUp
  <2>4. (gain - 4500) + 100 * AttenuationFor(gain) < 200
    BY <1>0, <2>1, <2>2
  <2>5. PgaFor(gain) = 0
    BY <2>4 DEF PgaFor
  <2> QED BY <1>0, <1>2, <2>1, <2>3, <2>5
<1> QED BY <1>0, <1>1, <1>2

LEMMA GainWithin == ASSUME GainInv PROVE GainAsWanted
<1> SUFFICES ASSUME ~gains.byHand, loop.at # "apply"
             PROVE  LET error == 100 * (4 * gains.pga - Attenuation(gains.stages)) - (gains.wanted - 4500)
                    IN -320 < error /\ error < 320
  BY DEF GainAsWanted
<1>1. /\ gains.applied \in GainRange /\ gains.wanted \in Int
      /\ -20 <= gains.wanted - gains.applied /\ gains.wanted - gains.applied <= 20
      /\ gains.stages = StagesFor(AttenuationFor(gains.applied)) /\ gains.pga = PgaFor(gains.applied)
  BY Zenon DEF GainInv
<1> DEFINE code == gains.pga
           db == Attenuation(gains.stages)
<1>2. /\ code \in Int /\ db \in Int
      /\ -300 < 100 * (4 * code - db) - (gains.applied - 4500)
      /\ 100 * (4 * code - db) - (gains.applied - 4500) < 300
  BY <1>1, GainMadeUp
<1> HIDE DEF code, db
<1>3. LET error == 100 * (4 * code - db) - (gains.wanted - 4500) IN -320 < error /\ error < 320
  <2> DEFINE wanted == gains.wanted
             applied == gains.applied
  <2>1. wanted \in Int /\ applied \in Int /\ -20 <= wanted - applied /\ wanted - applied <= 20
        /\ -300 < 100 * (4 * code - db) - (applied - 4500) /\ 100 * (4 * code - db) - (applied - 4500) < 300
    <3>1. applied \in Int
      <4>1. \A gain \in GainRange : gain \in Int
        BY DEF GainRange
      <4> QED BY <1>1, <4>1, Zenon
    <3>2. wanted \in Int /\ -20 <= wanted - applied /\ wanted - applied <= 20
      BY <1>1, Zenon
    <3> QED BY <1>2, <3>1, <3>2
  <2> HIDE DEF wanted, applied
  <2>2. LET error == 100 * (4 * code - db) - (wanted - 4500) IN -320 < error /\ error < 320
    BY <1>2, <2>1
  <2> QED BY <2>2 DEF wanted
<1> QED BY <1>3 DEF code, db

LEMMA GainKept ==
  ASSUME LoopTypes, GainInv, [ReceiverNext]_receiverVars PROVE GainInv'
<1>0. /\ DOMAIN gains = {"mode", "wanted", "applied", "stages", "pga", "byHand"}
      /\ gains.wanted \in Int /\ gains.byHand \in BOOLEAN
  BY Zenon DEF GainInv
<1>1. ASSUME DOMAIN gains' = DOMAIN gains, gains'.wanted = gains.wanted, gains'.byHand = TRUE PROVE GainInv'
  BY <1>0, <1>1, Zenon DEF GainInv
<1>2. ASSUME NEW set \in HandStages, SetSmallStages(set) PROVE GainInv'
  BY <1>0, <1>1, <1>2 DEF SetSmallStages
<1>3. CASE SetLargeStage
  BY <1>0, <1>1, <1>3 DEF SetLargeStage, SetStage
<1>4. ASSUME NEW code \in HandCodes, SetPga(code) PROVE GainInv'
  BY <1>0, <1>1, <1>4 DEF SetPga
<1>5. ASSUME NEW mode \in 0..3, SetAgc(mode) PROVE GainInv'
  <2>1. /\ DOMAIN gains' = DOMAIN gains /\ gains'.wanted = gains.wanted /\ gains'.byHand = gains.byHand
        /\ gains'.applied = gains.applied /\ gains'.stages = gains.stages /\ gains'.pga = gains.pga
        /\ loop' = loop
    BY <1>0, <1>5 DEF SetAgc
  <2> QED BY <2>1, Zenon DEF GainInv
<1>6. ASSUME NEW error \in Errors, FinishReflex(error) PROVE GainInv'
  <2> DEFINE gain == Reflex(error)
             set == StagesFor(AttenuationFor(gain))
  <2>1. gain \in GainRange
    BY <1>0, ReflexInRange
  <2>2. loop.at = "agc"
    BY <1>6 DEF FinishReflex
  <2> HIDE DEF gain
  <2>3. CASE gains.mode = 0
    <3>1. gains' = gains /\ loop'.at = "write"
      BY <1>6, <2>2, <2>3 DEF FinishReflex, Looped, LoopTypes
    <3> QED BY <2>2, <3>1, Zenon DEF GainInv
  <2>4. CASE gains.mode # 0 /\ ~(gain - gains.applied > 20 \/ gains.applied - gain > 20)
    <3>1. gains' = [gains EXCEPT !.wanted = gain] /\ loop' = Looped("write")
      BY <1>6, <2>4, Zenon DEF FinishReflex, gain
    <3>2. /\ DOMAIN gains' = DOMAIN gains /\ gains'.wanted = gain /\ gains'.byHand = gains.byHand
          /\ gains'.applied = gains.applied /\ gains'.stages = gains.stages /\ gains'.pga = gains.pga
      BY <1>0, <3>1
    <3>3. loop'.at # "apply" /\ loop.at # "apply"
      BY <2>2, <3>1 DEF Looped, LoopTypes
    <3>4. gains.applied \in GainRange => -20 <= gain - gains.applied /\ gain - gains.applied <= 20
      <4> DEFINE applied == gains.applied
      <4> SUFFICES ASSUME applied \in GainRange PROVE -20 <= gain - applied /\ gain - applied <= 20
        OBVIOUS
      <4> HIDE DEF applied
      <4>1. applied \in Int /\ gain \in Int
        BY <2>1 DEF GainRange
      <4>2. ~(gain - applied > 20) /\ ~(applied - gain > 20)
        BY <2>4 DEF applied
      <4> QED BY <4>1, <4>2
    <3>5. gain \in Int
      BY <2>1 DEF GainRange
    <3> QED BY <1>0, <3>2, <3>3, <3>4, <3>5, Zenon DEF GainInv
  <2>5. CASE gains.mode # 0 /\ (gain - gains.applied > 20 \/ gains.applied - gain > 20)
    <3>1. gains' = [gains EXCEPT !.wanted = gain, !.applied = gain, !.byHand = FALSE,
                                 !.stages = (@ \cap {3, 6}) \cup (set \ {3, 6})]
          /\ loop' = Looped("apply")
      BY <1>6, <2>5, Zenon DEF FinishReflex, gain
    <3> HIDE DEF set
    <3>2. /\ DOMAIN gains' = DOMAIN gains /\ gains'.wanted = gain /\ gains'.byHand = FALSE
          /\ gains'.applied = gain /\ gains'.stages = (gains.stages \cap {3, 6}) \cup (set \ {3, 6})
      BY <1>0, <3>1
    <3>3. loop'.at = "apply"
      BY <2>2, <3>1 DEF Looped, LoopTypes
    <3>4. ((gains.stages \cap {3, 6}) \cup (set \ {3, 6})) \ {3, 6} = set \ {3, 6}
      OBVIOUS
    <3>5. gain \in Int /\ -20 <= gain - gain /\ gain - gain <= 20
      BY <2>1 DEF GainRange
    <3> QED BY <1>0, <2>1, <3>2, <3>3, <3>4, <3>5, Zenon DEF GainInv, set
  <2> QED BY <2>3, <2>4, <2>5, Zenon
<1>7. CASE ApplyRest
  <2> DEFINE set == StagesFor(AttenuationFor(gains.applied))
  <2>1. gains' = [gains EXCEPT !.stages = (@ \ {3, 6}) \cup (set \cap {3, 6}), !.pga = PgaFor(gains.applied)]
        /\ loop.at = "apply" /\ loop' = Looped("write")
    BY <1>7, Zenon DEF ApplyRest
  <2> HIDE DEF set
  <2>2. /\ DOMAIN gains' = DOMAIN gains /\ gains'.wanted = gains.wanted /\ gains'.byHand = gains.byHand
        /\ gains'.applied = gains.applied /\ gains'.stages = (gains.stages \ {3, 6}) \cup (set \cap {3, 6})
        /\ gains'.pga = PgaFor(gains.applied)
    BY <1>0, <2>1
  <2>3. loop'.at = "write"
    BY <2>1 DEF Looped, LoopTypes
  <2>4. gains.stages \ {3, 6} = set \ {3, 6} => (gains.stages \ {3, 6}) \cup (set \cap {3, 6}) = set
    OBVIOUS
  <2>5. ~gains.byHand => gains.stages \ {3, 6} = set \ {3, 6}
    BY <2>1, Zenon DEF GainInv, set
  <2>6. "write" # "apply"
    OBVIOUS
  <2> QED BY <1>0, <2>2, <2>3, <2>4, <2>5, <2>6, Zenon DEF GainInv, set
<1>8. ASSUME gains' = gains, loop'.at = "apply" <=> loop.at = "apply" PROVE GainInv'
  BY <1>8, Zenon DEF GainInv
<1>9. CASE ReadVfo \/ ReadOffset \/ (\E ch \in 0..1 : ProcessChannel(ch)) \/ Recombine \/ ProcessBatch
           \/ Finish
  <2>1. CASE ReadVfo
    BY <1>8, <2>1 DEF ReadVfo
  <2>2. CASE ReadOffset
    BY <1>8, <2>2 DEF ReadOffset
  <2>3. ASSUME NEW ch \in 0..1, ProcessChannel(ch) PROVE GainInv'
    <3>1. loop.at = "mix" /\ loop'.at = "mix" /\ gains' = gains
      BY <2>3 DEF LoopTypes, ProcessChannel
    <3> QED BY <1>8, <3>1
  <2>4. CASE Recombine
    BY <1>8, <2>4 DEF Recombine
  <2>5. CASE ProcessBatch
    BY <1>8, <2>5 DEF ProcessBatch, Looped, LoopTypes
  <2>6. CASE Finish
    BY <1>8, <2>6 DEF Finish, Looped, LoopTypes
  <2> QED BY <1>9, <2>1, <2>2, <2>3, <2>4, <2>5, <2>6, Zenon
<1>10. CASE \/ (\E f \in Vfos, k \in Osds : StoreVfo(f, k)) \/ StoreOffset \/ StartOrStop
            \/ CalStim \/ TimerFires \/ Halt \/ UNCHANGED receiverVars
  <2>1. gains' = gains /\ loop' = loop
    BY <1>10, Zenon DEF StoreVfo, StoreOffset, StartOrStop, OnlyKnobs, CalStim, TimerFires, Halt, receiverVars
  <2> QED BY <1>8, <2>1, Zenon
<1> QED BY <1>2, <1>3, <1>4, <1>5, <1>6, <1>7, <1>9, <1>10, Zenon DEF ReceiverNext

LEMMA GainStarts == ASSUME ReceiverInit PROVE GainInv
<1>1. /\ DOMAIN gains = {"mode", "wanted", "applied", "stages", "pga", "byHand"}
      /\ gains.wanted \in Int /\ gains.byHand = TRUE
  BY DEF ReceiverInit
<1> QED BY <1>1, Zenon DEF GainInv

----------------------------------------------------------------------------
\* What veto, attenuator and PGA keep from batch to batch: the invariant of CoherenceVeto::processBatch() and
\* AGCManager::applyHardwareGain(), beside that of the channels.
THEOREM BatchInvariant == ReceiverSpec => [](VetoInv /\ GainInv)
<1>1. ReceiverInit => VetoInv /\ GainInv
  BY VetoStarts, GainStarts
<1>2. ReceiverInv /\ VetoInv /\ GainInv /\ [ReceiverNext]_receiverVars => VetoInv' /\ GainInv'
  BY VetoKept, GainKept, Zenon DEF ReceiverInv
<1> QED BY <1>1, <1>2, ReceiverInvariant, PTL DEF ReceiverSpec

\* For every batch of whole hops, every frequency and offset, and whatever the worker sets meanwhile: the
\* channels are turned alike, the stream is through the veto whole, the CPLD model is in the band's mode, a
\* stimulus ends, and the gain is what the AGC asked for (SignalGen.cpp's loop, CoherenceVeto, CPLDModel,
\* AGCManager, ControlHandler).
THEOREM ReceiverAlwaysRight == ReceiverSpec => []TwinReceiverRight
<1>1. VetoInv /\ GainInv => VetoWhole /\ GainAsWanted
  BY GainWithin, Zenon DEF VetoInv
<1>2. ChannelsAgree /\ ModeOfBand /\ StimulusEnds /\ VetoWhole /\ GainAsWanted => TwinReceiverRight
  BY Zenon DEF TwinReceiverRight
<1> QED BY <1>1, <1>2, BatchInvariant, ChannelsTurnedAlike, ModeFollowsBand, StimulusAlwaysEnds, PTL

----------------------------------------------------------------------------
(* StimulusMix: what is mixed is what is enabled.                          *)

Entries == {NoEntry} \cup [generator : made, enabled : BOOLEAN]

Mixers ==
  [at : {"idle", "frozen", "locking", "collected", "working", "done"},
   kind : {"none", "parallel", "single"}, centre : Int, items : Seq(Generators),
   pending : SUBSET Nat, current : SUBSET SUBSET made]

MixTypes ==
  /\ made \subseteq Generators /\ stimuli \in [Names -> Entries]
  /\ frozen \in BOOLEAN /\ snapshot \subseteq made
  /\ changer \in [inside : BOOLEAN, before : SUBSET made]
  /\ mixer \in Mixers
  /\ scratch \in Seq([Generators -> Int]) /\ out \in [Generators -> Int]
  /\ session \in [number : Nat, batches : Nat, paused : BOOLEAN]
  /\ touched \in [Generators -> Nat] /\ leftover \in BOOLEAN /\ changes \in Nat

\* What a batch is going to collect was enabled at one moment of it.
MomentInv ==
  /\ FrozenIsEnabled
  /\ mixer.at = "idle" => mixer.current = {}
  /\ mixer.at = "frozen" => snapshot \in mixer.current
  /\ mixer.at = "locking" => Enabled \in mixer.current

\* The items are the signals of a moment that are in the window, each once.
Covers(items, moment) ==
  /\ \A g \in Generators : g \in ToSet(items) <=> (g \in moment /\ InWindow(g, mixer.centre))
  /\ \A i, j \in DOMAIN items : items[i] = items[j] => i = j

CollectedInv ==
  mixer.at \in {"collected", "working", "done"} => \E moment \in mixer.current : Covers(mixer.items, moment)

\* What the i-th item has written.
Share(i) == [g \in Generators |-> IF i \notin mixer.pending /\ mixer.items[i] = g THEN 1 ELSE 0]

OutputInv ==
  /\ mixer.at \in {"frozen", "locking", "collected"} => out = Silence
  /\ mixer.at = "working" =>
       /\ Len(mixer.items) > 1 /\ Len(mixer.items) - 1 <= Len(scratch)
       /\ mixer.pending \subseteq 1..Len(mixer.items)
       /\ out = Share(1) /\ \A k \in 1..Len(mixer.items) - 1 : scratch[k] = Share(k + 1)
  /\ BatchIsCurrent

\* A generator that was removed is not mixed again.
Gone(g) ==
  /\ g \in made /\ g \notin Enabled
  /\ \A n \in Names : stimuli[n] = NoEntry \/ stimuli[n].generator # g
  /\ \A moment \in mixer.current : g \notin moment

FiltersInv ==
  /\ NothingCarriedOver
  /\ \A g \in Generators \ made : touched[g] = 0
  /\ session.paused => \A g \in Generators : touched[g] \in {0, session.number} \/ Gone(g)

MixInv == MixTypes /\ MomentInv /\ CollectedInv /\ OutputInv /\ FiltersInv

LEMMA MixConstants ==
  /\ IsFiniteSet(Generators) /\ Centres \subseteq Int
  /\ MaxChanges \in Nat /\ MaxBatches \in Nat /\ MaxSessions \in Nat /\ MixWorkers \in Nat
BY StimulusMixAssumption

\* A set's sequence has each of its elements once.
LEMMA SequenceOfSet ==
  ASSUME NEW S, IsFiniteSet(S)
  PROVE  /\ SetToSeq(S) \in Seq(S) /\ ToSet(SetToSeq(S)) = S
         /\ \A i, j \in DOMAIN SetToSeq(S) : SetToSeq(S)[i] = SetToSeq(S)[j] => i = j
<1> DEFINE n == Cardinality(S)
           f == SetToSeq(S)
<1>1. n \in Nat /\ ExistsBijection(1..n, S)
  BY FS_CardinalityType
<1>2. \E b \in [1..n -> S] : IsInjective(b)
  BY <1>1 DEF ExistsBijection, Bijection, Injection
<1>3. f \in [1..n -> S] /\ IsInjective(f)
  BY <1>2, Zenon DEF SetToSeq
<1>4. f \in Seq(S) /\ DOMAIN f = 1..n
  BY <1>1, <1>3
<1>5. \A i, j \in DOMAIN f : f[i] = f[j] => i = j
  BY <1>3, Zenon DEF IsInjective
<1>6. \A y \in S : \E i \in 1..n : f[i] = y
  <2> SUFFICES ASSUME NEW y \in S, \A i \in 1..n : f[i] # y PROVE FALSE
    OBVIOUS
  <2> DEFINE T == S \ {y}
  <2>1. IsFiniteSet(T) /\ Cardinality(T) = n - 1
    BY FS_RemoveElement
  <2>2. f \in [1..n -> T]
    BY <1>3
  <2>3. f \in Injection(1..n, T)
    BY <2>2, <1>3 DEF Injection
  <2> HIDE DEF T, f
  <2>4. Cardinality(1..n) <= Cardinality(T)
    BY <2>1, <2>3, FS_Injection, Zenon
  <2>5. Cardinality(1..n) = n
    BY <1>1, FS_Interval
  <2> QED BY <1>1, <2>1, <2>4, <2>5
<1>7. ToSet(f) = S
  BY <1>3, <1>4, <1>6 DEF ToSet
<1> QED BY <1>4, <1>5, <1>7

LEMMA EnabledAreMade == ASSUME MixTypes PROVE EnabledIn(stimuli) \subseteq made /\ Enabled \subseteq made
<1>1. \A n \in Names : stimuli[n].enabled => stimuli[n].generator \in made
  BY DEF MixTypes, Mixers, Entries, NoEntry
<1>2. EnabledIn(stimuli) \subseteq made
  BY <1>1 DEF EnabledIn
<1>3. changer.before \subseteq made
  BY DEF MixTypes, Mixers
<1> QED BY <1>2, <1>3 DEF Enabled

\* Nothing of a gone generator is enabled.
LEMMA GoneIsNotEnabled ==
  ASSUME NEW g, \A n \in Names : stimuli[n] = NoEntry \/ stimuli[n].generator # g
  PROVE  g \notin EnabledIn(stimuli)
BY DEF EnabledIn, NoEntry

----------------------------------------------------------------------------
(* The changes of the map.                                                 *)

\* A map has what it had, or what is made for it.
Carries(map) ==
  \A n \in Names :
    \/ map[n] = NoEntry
    \/ map[n].generator \in made' \ made
    \/ stimuli[n] # NoEntry /\ map[n].generator = stimuli[n].generator

LEMMA ChangeKept ==
  ASSUME MixInv, NEW map, Change(map), made' \subseteq Generators, made \subseteq made',
         map \in [Names -> {NoEntry} \cup [generator : made', enabled : BOOLEAN]], Carries(map)
  PROVE  MixInv'
<1> USE DEF Change, stateVars
<1>1. EnabledIn(stimuli) \subseteq made /\ Enabled = EnabledIn(stimuli) /\ Enabled' = Enabled
  BY EnabledAreMade DEF MixInv, Enabled, Unlocked
<1>2. MixTypes'
  <2>1. stimuli' \in [Names -> Entries'] /\ made' \subseteq Generators
    BY DEF Entries, NoEntry
  <2>2. changer' \in [inside : BOOLEAN, before : SUBSET made']
    BY <1>1
  <2>3. mixer' \in Mixers'
    <3>1. mixer \in Mixers
      BY DEF MixInv, MixTypes, Mixers
    <3>2. SUBSET made \subseteq SUBSET made'
      OBVIOUS
    <3> QED BY <3>1, <3>2 DEF Mixers
  <2>4. changes' \in Nat /\ snapshot' \subseteq made'
    BY DEF MixInv, MixTypes, Mixers
  <2> QED BY <2>1, <2>2, <2>3, <2>4 DEF MixInv, MixTypes, Mixers
<1>3. MomentInv'
  BY <1>1 DEF MixInv, MomentInv, FrozenIsEnabled
<1>4. CollectedInv'
  BY DEF MixInv, CollectedInv, Covers, InWindow
<1>5. OutputInv'
  BY DEF MixInv, OutputInv, Share, BatchIsCurrent, Silence, InWindow
<1>6. FiltersInv'
  <2>1. NothingCarriedOver' /\ \A g \in Generators \ made' : touched'[g] = 0
    BY DEF MixInv, FiltersInv, NothingCarriedOver
  <2>2. ASSUME NEW g \in Generators, Gone(g) PROVE Gone(g)'
    <3>1. g \in made' /\ g \notin Enabled'
      BY <1>1, <2>2 DEF Gone
    <3>2. \A moment \in mixer'.current : g \notin moment
      BY <2>2 DEF Gone
    <3>3. \A n \in Names : stimuli'[n] = NoEntry \/ stimuli'[n].generator # g
      BY <2>2 DEF Gone, Carries
    <3> QED BY <3>1, <3>2, <3>3 DEF Gone
  <2> QED BY <2>1, <2>2 DEF MixInv, FiltersInv
<1> QED BY <1>2, <1>3, <1>4, <1>5, <1>6 DEF MixInv

LEMMA AddStimulusKept == ASSUME MixInv, NEW n \in Names, AddStimulus(n) PROVE MixInv'
<1> PICK g \in Generators \ made :
      /\ made' = made \cup {g}
      /\ Change([stimuli EXCEPT ![n] = [generator |-> g, enabled |-> TRUE]])
  BY DEF AddStimulus
<1> DEFINE map == [stimuli EXCEPT ![n] = [generator |-> g, enabled |-> TRUE]]
<1>1. stimuli \in [Names -> Entries] /\ made \subseteq Generators
  BY DEF MixInv, MixTypes, Mixers
<1>2. map \in [Names -> {NoEntry} \cup [generator : made', enabled : BOOLEAN]]
  BY <1>1 DEF Entries
<1>3. Carries(map)
  BY <1>1 DEF Carries, Entries
<1> QED BY <1>1, <1>2, <1>3, ChangeKept

LEMMA RemoveKept == ASSUME MixInv, NEW n \in Names, RemoveStimulus(n) PROVE MixInv'
<1> DEFINE map == [stimuli EXCEPT ![n] = NoEntry]
<1>1. stimuli \in [Names -> Entries] /\ made \subseteq Generators /\ made' = made
  BY DEF MixInv, MixTypes, Mixers, RemoveStimulus
<1>2. map \in [Names -> {NoEntry} \cup [generator : made', enabled : BOOLEAN]] /\ Carries(map)
  BY <1>1 DEF Entries, Carries
<1> QED BY <1>1, <1>2, ChangeKept DEF RemoveStimulus

LEMMA ClearKept == ASSUME MixInv, ClearAll PROVE MixInv'
<1> DEFINE map == [m \in Names |-> NoEntry]
<1>1. map \in [Names -> {NoEntry} \cup [generator : made', enabled : BOOLEAN]] /\ Carries(map)
  BY DEF Carries
<1>2. made \subseteq Generators /\ made' = made
  BY DEF MixInv, MixTypes, Mixers, ClearAll
<1> QED BY <1>1, <1>2, ChangeKept DEF ClearAll

LEMMA SetEnabledKept ==
  ASSUME MixInv, NEW n \in Names, NEW on \in BOOLEAN, SetEnabled(n, on) PROVE MixInv'
<1> DEFINE map == [stimuli EXCEPT ![n].enabled = on]
<1>1. stimuli \in [Names -> Entries] /\ made \subseteq Generators /\ made' = made
  BY DEF MixInv, MixTypes, Mixers, SetEnabled
<1>2. stimuli[n] \in [generator : made, enabled : BOOLEAN] /\ stimuli[n] # NoEntry
  BY <1>1 DEF Entries, SetEnabled, Registered
<1>3. /\ map[n] \in [generator : made, enabled : BOOLEAN] /\ map[n].generator = stimuli[n].generator
      /\ \A m \in Names \ {n} : map[m] = stimuli[m]
  BY <1>1, <1>2
<1>4. map \in [Names -> {NoEntry} \cup [generator : made', enabled : BOOLEAN]]
  BY <1>1, <1>3 DEF Entries
<1>5. Carries(map)
  BY <1>1, <1>2, <1>3 DEF Entries, Carries
<1> QED BY <1>1, <1>4, <1>5, ChangeKept DEF SetEnabled

LEMMA SetAllEnabledKept ==
  ASSUME MixInv, NEW on \in BOOLEAN, SetAllEnabled(on) PROVE MixInv'
<1> DEFINE map == [n \in Names |-> [stimuli[n] EXCEPT !.enabled = on /\ n \in Registered]]
<1>1. stimuli \in [Names -> Entries] /\ made \subseteq Generators /\ made' = made
  BY DEF MixInv, MixTypes, Mixers, SetAllEnabled
<1>2. ASSUME NEW n \in Names
      PROVE  map[n] = NoEntry \/ (/\ map[n] \in [generator : made, enabled : BOOLEAN]
                                  /\ map[n].generator = stimuli[n].generator /\ stimuli[n] # NoEntry)
  <2>1. CASE stimuli[n] = NoEntry
    <3>1. (on /\ n \in Registered) = FALSE
      BY <2>1, Zenon DEF Registered
    <3>2. map[n] = [NoEntry EXCEPT !.enabled = FALSE]
      BY <2>1, <3>1, Zenon
    <3> QED BY <3>2 DEF NoEntry
  <2>2. CASE stimuli[n] # NoEntry
    BY <1>1, <2>2 DEF Entries
  <2> QED BY <2>1, <2>2
<1>3. map \in [Names -> {NoEntry} \cup [generator : made', enabled : BOOLEAN]]
  BY <1>1, <1>2
<1>4. Carries(map)
  BY <1>2 DEF Carries
<1> QED BY <1>1, <1>3, <1>4, ChangeKept DEF SetAllEnabled

LEMMA EndChangeKept == ASSUME MixInv, EndChange PROVE MixInv'
<1> USE DEF EndChange, stateVars
<1>1. EnabledIn(stimuli) \subseteq made /\ Enabled' = EnabledIn(stimuli)
  BY EnabledAreMade DEF MixInv, Enabled, EnabledIn
<1>2. /\ mixer'.at = mixer.at /\ mixer'.items = mixer.items /\ mixer'.centre = mixer.centre
      /\ mixer'.pending = mixer.pending /\ mixer.current \subseteq mixer'.current
      /\ mixer'.current \subseteq mixer.current \cup {EnabledIn(stimuli)}
      /\ mixer.at \in {"frozen", "locking"} => EnabledIn(stimuli) \in mixer'.current
      /\ mixer.at \notin {"frozen", "locking"} => mixer'.current = mixer.current
  BY DEF MixInv, MixTypes, Mixers
<1>3. MixTypes'
  <2>1. mixer' \in Mixers
    <3>1. mixer.current \cup {EnabledIn(stimuli)} \in SUBSET SUBSET made
      BY <1>1 DEF MixInv, MixTypes, Mixers
    <3>2. CASE mixer.at \in {"frozen", "locking"}
      BY <3>1, <3>2 DEF MixInv, MixTypes, Mixers
    <3>3. CASE mixer.at \notin {"frozen", "locking"}
      BY <3>3 DEF MixInv, MixTypes, Mixers
    <3> QED BY <3>2, <3>3
  <2> QED BY <2>1 DEF MixInv, MixTypes, Mixers, Entries
<1>4. MomentInv'
  BY <1>1, <1>2 DEF MixInv, MomentInv, FrozenIsEnabled
<1>5. CollectedInv'
  <2>1. \A moment : Covers(mixer.items, moment)' <=> Covers(mixer.items, moment)
    BY <1>2 DEF Covers, InWindow
  <2> QED BY <1>2, <2>1 DEF MixInv, CollectedInv, Covers, InWindow
<1>6. OutputInv'
  BY <1>2 DEF MixInv, OutputInv, Share, BatchIsCurrent, Silence, InWindow
<1>7. FiltersInv'
  <2>1. NothingCarriedOver' /\ \A g \in Generators \ made' : touched'[g] = 0
    BY DEF MixInv, FiltersInv, NothingCarriedOver
  <2>2. ASSUME NEW g \in Generators, Gone(g) PROVE Gone(g)'
    <3>1. g \notin EnabledIn(stimuli)
      BY <2>2, GoneIsNotEnabled DEF Gone
    <3> QED BY <1>1, <1>2, <2>2, <3>1 DEF Gone
  <2> QED BY <2>1, <2>2 DEF MixInv, FiltersInv
<1> QED BY <1>3, <1>4, <1>5, <1>6, <1>7 DEF MixInv

----------------------------------------------------------------------------
(* The streaming thread.                                                   *)

LEMMA FreezeKept == ASSUME MixInv, Freeze PROVE MixInv'
<1> USE DEF Freeze, stateVars
<1>1. EnabledIn(stimuli) \subseteq made /\ Enabled' = EnabledIn(stimuli)
  BY EnabledAreMade DEF MixInv, Enabled, EnabledIn, Unlocked
<1>2. MixTypes'
  BY <1>1 DEF MixInv, MixTypes, Mixers, Entries
<1>3. MomentInv' /\ CollectedInv' /\ OutputInv'
  BY <1>1 DEF MixInv, MomentInv, FrozenIsEnabled, CollectedInv, OutputInv, BatchIsCurrent
<1>4. \A g \in Generators : Gone(g) => Gone(g)'
  BY <1>1, GoneIsNotEnabled DEF Gone
<1>5. FiltersInv'
  BY <1>4 DEF MixInv, FiltersInv, NothingCarriedOver
<1> QED BY <1>2, <1>3, <1>5 DEF MixInv

LEMMA ResetAllKept == ASSUME MixInv, ResetAll PROVE MixInv'
<1> USE DEF ResetAll, changeVars
<1>1. Enabled = EnabledIn(stimuli) /\ Enabled' = Enabled /\ mixer.current = {}
  BY DEF MixInv, MomentInv, Enabled, EnabledIn, Unlocked
<1>2. MixTypes'
  BY DEF MixInv, MixTypes, Mixers, Entries
<1>3. MomentInv' /\ CollectedInv' /\ OutputInv'
  BY <1>1 DEF MixInv, MomentInv, FrozenIsEnabled, CollectedInv, OutputInv, BatchIsCurrent
<1>4. ASSUME NEW g \in Generators PROVE touched'[g] = 0 \/ Gone(g)'
  <2>1. CASE \E n \in Registered : stimuli[n].generator = g
    BY <2>1
  <2>2. CASE ~\E n \in Registered : stimuli[n].generator = g
    <3>1. \A n \in Names : stimuli[n] = NoEntry \/ stimuli[n].generator # g
      BY <2>2 DEF Registered
    <3>2. touched'[g] = touched[g]
      BY <2>2
    <3>3. CASE g \in made
      BY <1>1, <3>1, <3>3, GoneIsNotEnabled DEF Gone
    <3>4. CASE g \notin made
      BY <3>2, <3>4 DEF MixInv, FiltersInv
    <3> QED BY <3>3, <3>4
  <2> QED BY <2>1, <2>2
<1>5. \A g \in Generators \ made' : touched'[g] = 0
  BY DEF MixInv, FiltersInv
<1>6. FiltersInv'
  BY <1>4, <1>5 DEF MixInv, FiltersInv, NothingCarriedOver
<1> QED BY <1>2, <1>3, <1>6 DEF MixInv

LEMMA NextSessionKept == ASSUME MixInv, NextSession PROVE MixInv'
<1> USE DEF NextSession, changeVars
<1>1. MixTypes'
  <2>1. session' \in [number : Nat, batches : Nat, paused : BOOLEAN]
    <3>1. session \in [number : Nat, batches : Nat, paused : BOOLEAN]
      BY DEF MixInv, MixTypes
    <3> QED BY <3>1
  <2> QED BY <2>1 DEF MixInv, MixTypes, Mixers, Entries
<1>2. MomentInv' /\ CollectedInv' /\ OutputInv'
  BY DEF MixInv, MomentInv, FrozenIsEnabled, Enabled, EnabledIn, CollectedInv, OutputInv, BatchIsCurrent
<1>3. FiltersInv'
  BY DEF MixInv, FiltersInv, NothingCarriedOver
<1> QED BY <1>1, <1>2, <1>3 DEF MixInv

\* What the streaming thread does alone leaves what is gone gone, as long as it looks at no new moment.
LEMMA GoneStays ==
  ASSUME UNCHANGED changeVars, mixer'.current \subseteq mixer.current \cup {Enabled}
  PROVE  /\ Enabled' = Enabled /\ EnabledIn(stimuli)' = EnabledIn(stimuli)
         /\ \A g \in Generators : Gone(g) => Gone(g)'
BY DEF changeVars, Enabled, EnabledIn, Gone

LEMMA BeginBatchKept ==
  ASSUME MixInv, NEW kind \in {"parallel", "single"}, NEW centre \in Centres, BeginBatch(kind, centre)
  PROVE  MixInv'
<1> USE DEF BeginBatch
<1>1. Enabled \subseteq made /\ centre \in Int
  BY EnabledAreMade, MixConstants DEF MixInv
<1>2. /\ mixer' = [at |-> IF frozen THEN "frozen" ELSE "locking", kind |-> kind, centre |-> centre,
                   items |-> <<>>, pending |-> {}, current |-> {Enabled}]
      /\ mixer'.current = {Enabled}
  BY DEF MixerDown
<1>3. /\ Enabled' = Enabled /\ EnabledIn(stimuli)' = EnabledIn(stimuli)
      /\ \A g \in Generators : Gone(g) => Gone(g)'
  BY <1>2, GoneStays
<1>4. MixTypes'
  <2>1. out' \in [Generators -> Int]
    BY DEF Silence
  <2>2. mixer' \in Mixers
    <3> DEFINE at == IF frozen THEN "frozen" ELSE "locking"
               current == {Enabled}
    <3>1. /\ at \in {"idle", "frozen", "locking", "collected", "working", "done"}
          /\ kind \in {"none", "parallel", "single"}
      OBVIOUS
    <3>2. <<>> \in Seq(Generators) /\ current \in SUBSET SUBSET made /\ {} \in SUBSET Nat
      BY <1>1
    <3>3. mixer' = [at |-> at, kind |-> kind, centre |-> centre, items |-> <<>>, pending |-> {},
                    current |-> current]
      BY <1>2
    <3> HIDE DEF at, current
    <3>4. [at |-> at, kind |-> kind, centre |-> centre, items |-> <<>>, pending |-> {},
           current |-> current] \in Mixers
      BY <1>1, <3>1, <3>2, SMT DEF Mixers
    <3> QED BY <3>3, <3>4, Zenon
  <2>3. session' \in [number : Nat, batches : Nat, paused : BOOLEAN]
    <3>1. session \in [number : Nat, batches : Nat, paused : BOOLEAN]
      BY DEF MixInv, MixTypes, Mixers
    <3> QED BY <3>1
  <2> QED BY <2>1, <2>2, <2>3 DEF MixInv, MixTypes, Mixers, Entries, changeVars
<1>5. MomentInv'
  BY <1>2, <1>3 DEF MixInv, MomentInv, FrozenIsEnabled, changeVars
<1>6. CollectedInv' /\ OutputInv'
  BY <1>2 DEF CollectedInv, OutputInv, BatchIsCurrent, Silence
<1>7. FiltersInv'
  <2>1. session'.paused = session.paused /\ session'.number = session.number
    BY DEF MixInv, MixTypes, Mixers
  <2> QED BY <1>3, <2>1 DEF MixInv, FiltersInv, NothingCarriedOver, changeVars
<1> QED BY <1>4, <1>5, <1>6, <1>7 DEF MixInv

LEMMA CollectKept ==
  ASSUME MixInv, NEW from, CollectStim(from), from \in mixer.current,
         mixer.at \in {"frozen", "locking"}
  PROVE  MixInv'
<1> DEFINE S == {g \in from : InWindow(g, mixer.centre)}
<1>1. from \subseteq Generators
  BY DEF MixInv, MixTypes, Mixers
<1>2. IsFiniteSet(S)
  BY <1>1, MixConstants, FS_Subset
<1>3. /\ SetToSeq(S) \in Seq(S) /\ ToSet(SetToSeq(S)) = S
      /\ \A i, j \in DOMAIN SetToSeq(S) : SetToSeq(S)[i] = SetToSeq(S)[j] => i = j
  BY <1>2, SequenceOfSet
<1>4. /\ mixer'.at = "collected" /\ mixer'.items = SetToSeq(S) /\ mixer'.centre = mixer.centre
      /\ mixer'.current = mixer.current /\ mixer'.pending = mixer.pending
      /\ UNCHANGED <<changeVars, stateVars, scratch, out>>
  BY DEF CollectStim, MixInv, MixTypes, Mixers
<1>5. /\ Enabled' = Enabled /\ EnabledIn(stimuli)' = EnabledIn(stimuli)
      /\ \A g \in Generators : Gone(g) => Gone(g)'
  BY <1>4, GoneStays
<1>6. MixTypes'
  <2>1. SetToSeq(S) \in Seq(Generators)
    BY <1>1, <1>3
  <2> QED BY <1>4, <2>1 DEF MixInv, MixTypes, Mixers, Entries, changeVars, stateVars, CollectStim
<1>7. MomentInv'
  BY <1>4, <1>5 DEF MixInv, MomentInv, FrozenIsEnabled, changeVars
<1>8. CollectedInv'
  <2>1. Covers(SetToSeq(S), from)'
    BY <1>1, <1>3, <1>4 DEF Covers, InWindow
  <2> QED BY <1>4, <2>1 DEF CollectedInv
<1>9. OutputInv'
  BY <1>4 DEF MixInv, OutputInv, BatchIsCurrent, Silence
<1>10. FiltersInv'
  BY <1>4, <1>5 DEF MixInv, FiltersInv, NothingCarriedOver, changeVars, stateVars
<1> QED BY <1>6, <1>7, <1>8, <1>9, <1>10 DEF MixInv

\* Filters run are those of signals that were enabled.
LEMMA TouchKept ==
  ASSUME MixInv, NEW gs \in SUBSET Generators, Touch(gs), UNCHANGED <<changeVars, session>>,
         mixer'.current \subseteq mixer.current,
         \E moment \in mixer.current : gs \subseteq moment
  PROVE  FiltersInv' /\ touched' \in [Generators -> Nat] /\ leftover' \in BOOLEAN
<1>1. \A g \in Generators : Gone(g) => Gone(g)'
  BY GoneStays
<1>2. \A g \in gs : g \in made /\ ~Gone(g)
  BY DEF MixInv, MixTypes, Mixers, Gone
<1>3. \A g \in Generators : touched'[g] = IF g \in gs THEN session.number ELSE touched[g]
  BY DEF Touch
<1>4. session.number \in Nat /\ touched \in [Generators -> Nat]
  BY DEF MixInv, MixTypes, Mixers
<1>5. session.paused => \A g \in gs : touched[g] \in {0, session.number}
  BY <1>2 DEF MixInv, FiltersInv
<1>6. leftover' = FALSE
  BY <1>5, Zenon DEF MixInv, FiltersInv, NothingCarriedOver, Touch
<1>7. \A g \in Generators \ made' : touched'[g] = 0
  BY <1>2, <1>3 DEF MixInv, FiltersInv, changeVars
<1>8. session'.paused => \A g \in Generators : touched'[g] \in {0, session'.number} \/ Gone(g)'
  BY <1>1, <1>3 DEF MixInv, FiltersInv
<1> QED BY <1>3, <1>4, <1>6, <1>7, <1>8 DEF Touch, FiltersInv, NothingCarriedOver

LEMMA InTurnKept == ASSUME MixInv, InTurn PROVE MixInv'
<1> PICK moment \in mixer.current : Covers(mixer.items, moment)
  BY DEF MixInv, CollectedInv, InTurn
<1>1. /\ mixer'.at = "done" /\ mixer'.items = mixer.items /\ mixer'.centre = mixer.centre
      /\ mixer'.current = mixer.current /\ mixer.at = "collected"
      /\ UNCHANGED <<changeVars, scratch, session>>
  BY DEF InTurn, MixInv, MixTypes, Mixers
<1>2. ToSet(mixer.items) \subseteq Generators /\ ToSet(mixer.items) \subseteq moment
  <2>1. ToSet(mixer.items) \subseteq Generators
    BY DEF MixInv, MixTypes, Mixers, ToSet
  <2> QED BY <2>1 DEF Covers
<1>3. FiltersInv' /\ touched' \in [Generators -> Nat] /\ leftover' \in BOOLEAN
  <2>1. Touch(ToSet(mixer.items))
    BY DEF InTurn
  <2> QED BY <1>1, <1>2, <2>1, TouchKept, Zenon
<1>4. Enabled' = Enabled /\ EnabledIn(stimuli)' = EnabledIn(stimuli)
  BY <1>1, GoneStays
<1>5. out' = [g \in Generators |-> IF g \in moment /\ InWindow(g, mixer.centre) THEN 1 ELSE 0]
  <2>1. out = [g \in Generators |-> 0]
    BY <1>1 DEF MixInv, OutputInv, Silence
  <2>2. \A g \in Generators : out'[g] = IF g \in moment /\ InWindow(g, mixer.centre) THEN 1 ELSE 0
    BY <2>1 DEF InTurn, Covers
  <2> QED BY <2>2 DEF InTurn
<1>6. MixTypes'
  <2>1. mixer' \in Mixers
    <3>1. mixer \in Mixers
      BY DEF MixInv, MixTypes, Mixers
    <3>2. 1..Len(mixer.items) \subseteq Nat
      OBVIOUS
    <3> QED BY <3>1, <3>2 DEF Mixers, InTurn
  <2>2. out' \in [Generators -> Int]
    BY <1>5
  <2> QED BY <1>1, <1>3, <2>1, <2>2 DEF MixInv, MixTypes, Mixers, Entries, changeVars
<1>7. MomentInv'
  BY <1>1, <1>4 DEF MixInv, MomentInv, FrozenIsEnabled, changeVars
<1>8. CollectedInv'
  BY <1>1 DEF CollectedInv, Covers, InWindow
<1>9. OutputInv'
  BY <1>1, <1>5 DEF OutputInv, BatchIsCurrent, InWindow
<1> QED BY <1>3, <1>6, <1>7, <1>8, <1>9 DEF MixInv

LEMMA PrepareKept == ASSUME MixInv, PrepareScratch PROVE MixInv'
<1> DEFINE extra == Len(mixer.items) - 1
           size == IF extra > Len(scratch) THEN extra ELSE Len(scratch)
<1>1. /\ mixer'.at = "working" /\ mixer'.items = mixer.items /\ mixer'.centre = mixer.centre
      /\ mixer'.pending = 1..Len(mixer.items)
      /\ mixer'.current = mixer.current /\ mixer.at = "collected"
      /\ UNCHANGED <<changeVars, stateVars, out>>
  BY DEF PrepareScratch, MixInv, MixTypes, Mixers
<1>2. /\ Enabled' = Enabled /\ EnabledIn(stimuli)' = EnabledIn(stimuli)
      /\ \A g \in Generators : Gone(g) => Gone(g)'
  BY <1>1, GoneStays
<1>3. Len(mixer.items) \in Nat /\ Len(scratch) \in Nat /\ Len(mixer.items) > 1 /\ size \in Nat
  BY DEF MixInv, MixTypes, Mixers, PrepareScratch
<1>4. Silence \in [Generators -> Int]
  BY DEF Silence
<1>5. /\ scratch' \in Seq([Generators -> Int]) /\ Len(scratch') = size
      /\ \A k \in 1..extra : scratch'[k] = Silence
  <2>1. scratch' = [k \in 1..size |-> IF k <= extra THEN Silence ELSE scratch[k]]
    BY DEF PrepareScratch
  <2>2. \A k \in 1..size : k > extra => k \in 1..Len(scratch)
    BY <1>3
  <2>3. \A k \in 1..Len(scratch) : scratch[k] \in [Generators -> Int]
    BY DEF MixInv, MixTypes, Mixers
  <2>4. scratch' \in [1..size -> [Generators -> Int]]
    BY <1>4, <2>1, <2>2, <2>3
  <2>5. \A k \in 1..extra : k \in 1..size
    BY <1>3
  <2> HIDE DEF size
  <2> QED BY <1>3, <2>1, <2>4, <2>5
<1>6. MixTypes'
  <2>1. mixer' \in Mixers
    <3>1. mixer \in Mixers
      BY DEF MixInv, MixTypes, Mixers
    <3>2. 1..Len(mixer.items) \subseteq Nat
      OBVIOUS
    <3> QED BY <3>1, <3>2 DEF Mixers, PrepareScratch
  <2> QED BY <1>1, <1>5, <2>1 DEF MixInv, MixTypes, Mixers, Entries, changeVars, stateVars
<1>7. MomentInv'
  BY <1>1, <1>2 DEF MixInv, MomentInv, FrozenIsEnabled, changeVars
<1>8. CollectedInv'
  BY <1>1 DEF MixInv, CollectedInv, Covers, InWindow
<1>9. OutputInv'
  <2>1. \A i \in 1..Len(mixer.items) : Share(i)' = Silence
    BY <1>1 DEF Share, Silence
  <2>2. out' = Silence
    BY <1>1 DEF MixInv, OutputInv
  <2>3. extra <= size /\ 1 \in 1..Len(mixer.items)
    BY <1>3
  <2>4. \A k \in 1..extra : k + 1 \in 1..Len(mixer.items)
    BY <1>3
  <2>5. out' = Share(1)' /\ \A k \in 1..extra : scratch'[k] = Share(k + 1)'
    BY <1>5, <2>1, <2>2, <2>3, <2>4
  <2> HIDE DEF size
  <2> QED BY <1>1, <1>3, <1>5, <2>3, <2>5 DEF OutputInv, BatchIsCurrent
<1>10. FiltersInv'
  BY <1>1, <1>2 DEF MixInv, FiltersInv, NothingCarriedOver, changeVars, stateVars
<1> QED BY <1>6, <1>7, <1>8, <1>9, <1>10 DEF MixInv

LEMMA WorkItemKept == ASSUME MixInv, NEW i \in mixer.pending, WorkItem(i) PROVE MixInv'
<1> DEFINE g == mixer.items[i]
<1> PICK moment \in mixer.current : Covers(mixer.items, moment)
  BY DEF MixInv, CollectedInv, WorkItem
<1>1. /\ mixer'.at = "working" /\ mixer'.items = mixer.items /\ mixer'.centre = mixer.centre
      /\ mixer'.pending = mixer.pending \ {i}
      /\ mixer'.current = mixer.current /\ mixer.at = "working"
      /\ UNCHANGED <<changeVars, session>>
  BY DEF WorkItem, MixInv, MixTypes, Mixers
<1>2. /\ Len(mixer.items) \in Nat /\ Len(scratch) \in Nat /\ Len(mixer.items) > 1
      /\ Len(mixer.items) - 1 <= Len(scratch)
      /\ i \in 1..Len(mixer.items) /\ mixer.pending \subseteq 1..Len(mixer.items)
      /\ out = Share(1) /\ \A k \in 1..Len(mixer.items) - 1 : scratch[k] = Share(k + 1)
  <2>1. mixer.items \in Seq(Generators) /\ scratch \in Seq([Generators -> Int])
    BY DEF MixInv, MixTypes, Mixers
  <2>2. /\ Len(mixer.items) > 1 /\ Len(mixer.items) - 1 <= Len(scratch)
        /\ mixer.pending \subseteq 1..Len(mixer.items)
        /\ out = Share(1) /\ \A k \in 1..Len(mixer.items) - 1 : scratch[k] = Share(k + 1)
    BY <1>1 DEF MixInv, OutputInv
  <2>3. Len(mixer.items) \in Nat /\ Len(scratch) \in Nat
    BY <2>1
  <2> QED BY <2>2, <2>3
<1>3. g \in Generators /\ g \in ToSet(mixer.items)
  <2>1. mixer.items \in Seq(Generators)
    BY DEF MixInv, MixTypes, Mixers
  <2>2. i \in DOMAIN mixer.items /\ mixer.items[i] \in Generators
    BY <1>2, <2>1
  <2> QED BY <2>2 DEF ToSet
<1>4. FiltersInv' /\ touched' \in [Generators -> Nat] /\ leftover' \in BOOLEAN
  <2>1. Touch({g})
    BY DEF WorkItem
  <2>2. {g} \in SUBSET Generators /\ {g} \subseteq moment
    BY <1>3 DEF Covers
  <2> QED BY <1>1, <2>1, <2>2, TouchKept, Zenon
<1>5. Enabled' = Enabled /\ EnabledIn(stimuli)' = EnabledIn(stimuli)
  BY <1>1, GoneStays
<1>6. /\ \A j \in 1..Len(mixer.items) : j # i => Share(j)' = Share(j)
      /\ Share(i)' = [Share(i) EXCEPT ![g] = @ + 1]
  <2>1. \A j \in 1..Len(mixer.items) : j # i => Share(j)' = Share(j)
    BY <1>1 DEF Share
  <2>2. \A h \in Generators : Share(i)[h] = 0
    BY DEF Share
  <2>3. \A h \in Generators : Share(i)'[h] = IF h = g THEN 1 ELSE 0
    BY <1>1 DEF Share
  <2> DEFINE after == [Share(i) EXCEPT ![g] = @ + 1]
  <2>4. \A h \in Generators : after[h] = IF h = g THEN 1 ELSE 0
    BY <1>3, <2>2 DEF Share
  <2>5. DOMAIN Share(i)' = Generators /\ DOMAIN after = Generators
    BY DEF Share
  <2>6. Share(i)' = [h \in Generators |-> IF h = g THEN 1 ELSE 0]
    BY <1>1 DEF Share
  <2>7. after = [h \in Generators |-> IF h = g THEN 1 ELSE 0]
    BY <1>3, <2>4 DEF Share
  <2> QED BY <2>1, <2>6, <2>7
<1>7. \A j \in 1..Len(mixer.items) : Share(j) \in [Generators -> Int]
  BY DEF Share
<1>8. /\ out' = Share(1)' /\ out' \in [Generators -> Int]
      /\ scratch' \in Seq([Generators -> Int]) /\ Len(scratch') = Len(scratch)
      /\ \A k \in 1..Len(mixer.items) - 1 : scratch'[k] = Share(k + 1)'
  <2>1. CASE i = 1
    <3>1. out' = [out EXCEPT ![g] = @ + 1] /\ scratch' = scratch
      BY <2>1 DEF WorkItem
    <3>2. out' = Share(1)'
      BY <1>2, <1>6, <2>1, <3>1
    <3>3. out' \in [Generators -> Int]
      <4>1. out \in [Generators -> Int]
        BY DEF MixInv, MixTypes
      <4>2. out[g] \in Int
        BY <1>3, <4>1
      <4>3. out' = [out EXCEPT ![g] = out[g] + 1] /\ out[g] + 1 \in Int
        BY <3>1, <4>2
      <4> QED BY <1>3, <4>1, <4>3
    <3>4. \A k \in 1..Len(mixer.items) - 1 : k + 1 # i /\ k + 1 \in 1..Len(mixer.items)
      BY <1>2, <2>1
    <3>5. \A k \in 1..Len(mixer.items) - 1 : scratch'[k] = Share(k + 1)'
      BY <1>2, <1>6, <3>1, <3>4
    <3> QED BY <3>1, <3>2, <3>3, <3>5 DEF MixInv, MixTypes, Mixers
  <2>2. CASE i # 1
    <3>1. scratch' = [scratch EXCEPT ![i - 1][g] = @ + 1] /\ out' = out
      BY <2>2 DEF WorkItem
    <3>2. i - 1 \in 1..Len(scratch) /\ i - 1 \in 1..Len(mixer.items) - 1 /\ (i - 1) + 1 = i
          /\ 1 \in 1..Len(mixer.items)
      BY <1>2, <2>2
    <3>3. out' = Share(1)'
      BY <1>2, <1>6, <2>2, <3>1, <3>2
    <3>4. scratch \in Seq([Generators -> Int]) /\ out \in [Generators -> Int]
      BY DEF MixInv, MixTypes, Mixers
    <3>5. scratch[i - 1] = Share(i)
      BY <1>2, <3>2
    <3>6. [scratch[i - 1] EXCEPT ![g] = @ + 1] = Share(i)'
      BY <1>6, <3>5
    <3>7. scratch' = [scratch EXCEPT ![i - 1] = Share(i)']
      BY <3>1, <3>6
    <3>8. Share(i)' \in [Generators -> Int]
      BY <1>1 DEF Share
    <3>9. scratch' \in Seq([Generators -> Int]) /\ Len(scratch') = Len(scratch)
      BY <3>2, <3>4, <3>7, <3>8
    <3>10. \A k \in 1..Len(scratch) : scratch'[k] = IF k = i - 1 THEN Share(i)' ELSE scratch[k]
      BY <3>2, <3>4, <3>7
    <3>11. ASSUME NEW k \in 1..Len(mixer.items) - 1 PROVE scratch'[k] = Share(k + 1)'
      <4>1. CASE k = i - 1
        BY <1>2, <3>2, <3>10, <4>1
      <4>2. CASE k # i - 1
        <5>1. k + 1 # i /\ k + 1 \in 1..Len(mixer.items) /\ k \in 1..Len(scratch)
          BY <1>2, <4>2
        <5> QED BY <1>2, <1>6, <3>10, <4>2, <5>1
      <4> QED BY <4>1, <4>2
    <3> QED BY <3>1, <3>3, <3>4, <3>9, <3>11
  <2> QED BY <2>1, <2>2
<1>9. MixTypes'
  <2>1. mixer' \in Mixers
    <3>1. mixer \in Mixers
      BY DEF MixInv, MixTypes, Mixers
    <3>2. 1..Len(mixer.items) \subseteq Nat
      OBVIOUS
    <3> QED BY <3>1, <3>2 DEF Mixers, WorkItem
  <2> QED BY <1>1, <1>4, <1>8, <2>1 DEF MixInv, MixTypes, Mixers, Entries, changeVars
<1>10. MomentInv'
  BY <1>1, <1>5 DEF MixInv, MomentInv, FrozenIsEnabled, changeVars
<1>11. CollectedInv'
  BY <1>1 DEF CollectedInv, Covers, InWindow
<1>12. OutputInv'
  BY <1>1, <1>2, <1>8 DEF OutputInv, BatchIsCurrent
<1> QED BY <1>4, <1>9, <1>10, <1>11, <1>12 DEF MixInv

\* What the definition of the sums asks of a function.
SumsBuffers(f) ==
  f = [k \in 0..Len(mixer.items) - 1 |->
         IF k = 0 THEN out ELSE [g \in Generators |-> f[k - 1][g] + scratch[k][g]]]

\* The sums of the first so many buffers are a function of that kind, if there is one.
LEMMA AddedUnfolds == ASSUME NEW f, SumsBuffers(f) PROVE SumsBuffers(Added)
BY Zenon DEF Added, SumsBuffers

\* Once every item has run, the buffers hold each of them once.
LEMMA AddedIsCovered ==
  ASSUME MixInv, mixer.at = "working", mixer.pending = {},
         NEW moment, Covers(mixer.items, moment)
  PROVE  /\ Len(mixer.items) - 1 \in Nat
         /\ Added[Len(mixer.items) - 1] = [g \in Generators |-> IF g \in ToSet(mixer.items) THEN 1 ELSE 0]
<1> DEFINE n == Len(mixer.items) - 1
           sum(k) == [g \in Generators |-> IF \E i \in 1..k + 1 : mixer.items[i] = g THEN 1 ELSE 0]
           f == [k \in 0..n |-> sum(k)]
<1>1. /\ Len(mixer.items) \in Nat /\ n \in Nat /\ DOMAIN mixer.items = 1..n + 1
      /\ out = Share(1) /\ \A k \in 1..n : scratch[k] = Share(k + 1)
  BY DEF MixInv, MixTypes, Mixers, OutputInv
<1>2. \A i \in 1..n + 1 : Share(i) = [g \in Generators |-> IF mixer.items[i] = g THEN 1 ELSE 0]
  BY DEF Share
<1>3. f[0] = out
  BY <1>1, <1>2
<1>4. ASSUME NEW k \in 0..n, k # 0
      PROVE  f[k] = [g \in Generators |-> f[k - 1][g] + scratch[k][g]]
  <2>1. k \in 1..n /\ k - 1 \in 0..n /\ (k - 1) + 1 = k /\ k + 1 \in 1..n + 1
    BY <1>1, <1>4
  <2>2. ASSUME NEW g \in Generators
        PROVE  (IF \E i \in 1..k + 1 : mixer.items[i] = g THEN 1 ELSE 0) = f[k - 1][g] + scratch[k][g]
    <3>1. scratch[k][g] = IF mixer.items[k + 1] = g THEN 1 ELSE 0
      BY <1>1, <1>2, <2>1
    <3>2. f[k - 1][g] = IF \E i \in 1..k : mixer.items[i] = g THEN 1 ELSE 0
      BY <2>1
    <3>3. ~(mixer.items[k + 1] = g /\ \E i \in 1..k : mixer.items[i] = g)
      <4> SUFFICES ASSUME mixer.items[k + 1] = g, NEW i \in 1..k, mixer.items[i] = g PROVE FALSE
        OBVIOUS
      <4>1. i \in DOMAIN mixer.items /\ k + 1 \in DOMAIN mixer.items /\ i # k + 1
        BY <1>1, <2>1
      <4> QED BY <4>1 DEF Covers
    <3>4. (\E i \in 1..k + 1 : mixer.items[i] = g) <=> (mixer.items[k + 1] = g \/ \E i \in 1..k : mixer.items[i] = g)
      <4>1. \A i : i \in 1..k + 1 <=> (i \in 1..k \/ i = k + 1)
        BY <2>1
      <4> QED BY <4>1
    <3> HIDE DEF f
    <3> QED BY <3>1, <3>2, <3>3, <3>4
  <2>3. f[k] = sum(k)
    OBVIOUS
  <2> HIDE DEF f
  <2> QED BY <2>2, <2>3
<1>5. f = [k \in 0..n |-> IF k = 0 THEN out ELSE [g \in Generators |-> f[k - 1][g] + scratch[k][g]]]
  <2> DEFINE h == [k \in 0..n |-> IF k = 0 THEN out ELSE [g \in Generators |-> f[k - 1][g] + scratch[k][g]]]
  <2>1. \A k \in 0..n : f[k] = h[k]
    BY <1>3, <1>4
  <2> QED BY <2>1
<1> HIDE DEF f
<1>6. Added = [k \in 0..n |-> IF k = 0 THEN out ELSE [g \in Generators |-> Added[k - 1][g] + scratch[k][g]]]
  <2>1. SumsBuffers(f)
    BY <1>5 DEF SumsBuffers
  <2>2. SumsBuffers(Added)
    BY <2>1, AddedUnfolds, Zenon
  <2> QED BY <2>2 DEF SumsBuffers
<1>7. \A k \in 0..n : Added[k] = IF k = 0 THEN out ELSE [g \in Generators |-> Added[k - 1][g] + scratch[k][g]]
  BY <1>6
<1> DEFINE S == {k \in Nat : k <= n => Added[k] = sum(k)}
<1>8. 0 \in S
  <2>1. Added[0] = out
    <3>1. 0 \in 0..n
      BY <1>1
    <3> HIDE DEF n
    <3> QED BY <3>1, <1>7, Zenon
  <2>2. f[0] = sum(0)
    BY <1>1 DEF f
  <2>3. Added[0] = sum(0)
    BY <1>3, <2>1, <2>2
  <2> QED BY <2>3
<1>9. ASSUME NEW k \in S PROVE k + 1 \in S
  <2> SUFFICES ASSUME k + 1 <= n PROVE Added[k + 1] = sum(k + 1)
    OBVIOUS
  <2>1. k \in 0..n /\ k + 1 \in 0..n /\ (k + 1) - 1 = k /\ k + 1 # 0 /\ k <= n
    BY <1>1
  <2>2. Added[k] = f[k]
    BY <2>1 DEF f
  <2>3. Added[k + 1] = [g \in Generators |-> Added[k][g] + scratch[k + 1][g]]
    BY <1>7, <2>1
  <2>4. f[k + 1] = [g \in Generators |-> f[k][g] + scratch[k + 1][g]]
    BY <1>4, <2>1
  <2>5. f[k + 1] = sum(k + 1)
    BY <2>1 DEF f
  <2> QED BY <2>2, <2>3, <2>4, <2>5, Zenon
<1>10. S = Nat
  <2>1. S \subseteq Nat
    OBVIOUS
  <2> HIDE DEF S
  <2> QED BY <1>8, <1>9, <2>1, AllNumbers, Zenon
<1>11. Added[n] = sum(n)
  <2>1. n \in S
    BY <1>1, <1>10
  <2> QED BY <1>1, <2>1
<1>12. \A g \in Generators : g \in ToSet(mixer.items) <=> \E i \in 1..n + 1 : mixer.items[i] = g
  BY <1>1 DEF ToSet
<1> QED BY <1>1, <1>11, <1>12

LEMMA AddUpKept == ASSUME MixInv, AddUp PROVE MixInv'
<1> PICK moment \in mixer.current : Covers(mixer.items, moment)
  BY DEF MixInv, CollectedInv, AddUp
<1>1. /\ mixer'.at = "done" /\ mixer'.items = mixer.items /\ mixer'.centre = mixer.centre
      /\ mixer'.current = mixer.current /\ mixer.at = "working" /\ mixer.pending = {}
      /\ UNCHANGED <<changeVars, stateVars, scratch>>
  BY DEF AddUp, MixInv, MixTypes, Mixers
<1>2. /\ Enabled' = Enabled /\ EnabledIn(stimuli)' = EnabledIn(stimuli)
      /\ \A g \in Generators : Gone(g) => Gone(g)'
  BY <1>1, GoneStays
<1>3. out' = [g \in Generators |-> IF g \in ToSet(mixer.items) THEN 1 ELSE 0]
  BY <1>1, AddedIsCovered DEF AddUp
<1>4. out' = [g \in Generators |-> IF g \in moment /\ InWindow(g, mixer.centre) THEN 1 ELSE 0]
  BY <1>3 DEF Covers
<1>5. MixTypes'
  <2>1. mixer' \in Mixers
    <3>1. mixer \in Mixers
      BY DEF MixInv, MixTypes
    <3> QED BY <3>1 DEF Mixers, AddUp
  <2>2. out' \in [Generators -> Int]
    BY <1>4
  <2> QED BY <1>1, <2>1, <2>2 DEF MixInv, MixTypes, Mixers, Entries, changeVars, stateVars
<1>6. MomentInv'
  BY <1>1, <1>2 DEF MixInv, MomentInv, FrozenIsEnabled, changeVars
<1>7. CollectedInv'
  BY <1>1 DEF CollectedInv, Covers, InWindow
<1>8. OutputInv'
  BY <1>1, <1>4 DEF OutputInv, BatchIsCurrent, InWindow
<1>9. FiltersInv'
  BY <1>1, <1>2 DEF MixInv, FiltersInv, NothingCarriedOver, changeVars, stateVars
<1> QED BY <1>5, <1>6, <1>7, <1>8, <1>9 DEF MixInv

LEMMA HandOutKept == ASSUME MixInv, HandOut PROVE MixInv'
<1>1. /\ mixer' = MixerDown /\ mixer'.at = "idle" /\ mixer'.current = {}
      /\ UNCHANGED <<changeVars, stateVars, scratch, out>>
  BY DEF HandOut, MixerDown
<1>2. /\ Enabled' = Enabled /\ EnabledIn(stimuli)' = EnabledIn(stimuli)
      /\ \A g \in Generators : Gone(g) => Gone(g)'
  BY <1>1, GoneStays
<1>3. MixTypes'
  <2>1. mixer' \in Mixers
    BY <1>1 DEF Mixers, MixerDown
  <2> QED BY <1>1, <2>1 DEF MixInv, MixTypes, Mixers, Entries, changeVars, stateVars
<1>4. MomentInv' /\ CollectedInv' /\ OutputInv'
  BY <1>1, <1>2 DEF MixInv, MomentInv, FrozenIsEnabled, changeVars, CollectedInv, OutputInv, BatchIsCurrent
<1>5. FiltersInv'
  BY <1>1, <1>2 DEF MixInv, FiltersInv, NothingCarriedOver, changeVars, stateVars
<1> QED BY <1>3, <1>4, <1>5 DEF MixInv

LEMMA MixStarts == ASSUME MixInit PROVE MixInv
<1> USE DEF MixInit
<1>1. MixTypes
  <2>1. mixer \in Mixers
    BY DEF Mixers, MixerDown
  <2>2. stimuli \in [Names -> Entries] /\ out \in [Generators -> Int] /\ touched \in [Generators -> Nat]
    BY DEF Entries, Silence
  <2>3. made \subseteq Generators /\ snapshot \subseteq Generators /\ scratch \in Seq([Generators -> Int])
    OBVIOUS
  <2> HIDE DEF MixInit
  <2>4. /\ frozen \in BOOLEAN /\ leftover \in BOOLEAN /\ changer.inside = FALSE /\ changer.before = {}
        /\ session.number = 1 /\ session.batches = 0 /\ session.paused = FALSE
    BY DEF MixInit
  <2> QED BY <2>1, <2>2, <2>3, <2>4 DEF MixTypes, MixInit
<1>2. MomentInv /\ CollectedInv /\ OutputInv
  BY DEF MomentInv, FrozenIsEnabled, CollectedInv, OutputInv, BatchIsCurrent, MixerDown
<1>3. FiltersInv
  BY DEF FiltersInv, NothingCarriedOver
<1> QED BY <1>1, <1>2, <1>3 DEF MixInv

LEMMA MixKept == ASSUME MixInv, [MixNext]_mixVars PROVE MixInv'
<1>1. ASSUME NEW n \in Names, NEW on \in BOOLEAN, AddStimulus(n) \/ RemoveStimulus(n) \/ SetEnabled(n, on)
      PROVE  MixInv'
  BY <1>1, AddStimulusKept, RemoveKept, SetEnabledKept
<1>2. ASSUME ClearAll PROVE MixInv'
  BY <1>2, ClearKept
<1>3. ASSUME NEW on \in BOOLEAN, SetAllEnabled(on) PROVE MixInv'
  BY <1>3, SetAllEnabledKept
<1>4. ASSUME EndChange \/ Freeze \/ ResetAll \/ NextSession PROVE MixInv'
  BY <1>4, EndChangeKept, FreezeKept, ResetAllKept, NextSessionKept
<1>5. ASSUME NEW kind \in {"parallel", "single"}, NEW centre \in Centres, BeginBatch(kind, centre)
      PROVE  MixInv'
  BY <1>5, BeginBatchKept
<1>6. ASSUME CollectFrozen PROVE MixInv'
  <2>1. mixer.at = "frozen" /\ snapshot \in mixer.current /\ CollectStim(snapshot)
    BY <1>6 DEF CollectFrozen, MixInv, MomentInv
  <2> QED BY <2>1, CollectKept
<1>7. ASSUME CollectLocked PROVE MixInv'
  <2>1. mixer.at = "locking" /\ EnabledIn(stimuli) \in mixer.current /\ CollectStim(EnabledIn(stimuli))
    BY <1>7 DEF CollectLocked, MixInv, MomentInv, Enabled, Unlocked
  <2> QED BY <2>1, CollectKept
<1>8. ASSUME InTurn \/ PrepareScratch \/ AddUp \/ HandOut PROVE MixInv'
  BY <1>8, InTurnKept, PrepareKept, AddUpKept, HandOutKept
<1>9. ASSUME NEW i \in mixer.pending, WorkItem(i) PROVE MixInv'
  BY <1>9, WorkItemKept
<1>10. ASSUME UNCHANGED mixVars PROVE MixInv'
  <2> USE <1>10 DEF mixVars
  <2>1. MixTypes'
    BY DEF MixInv, MixTypes, Mixers, Entries
  <2>2. MomentInv'
    BY DEF MixInv, MomentInv, FrozenIsEnabled, Enabled, EnabledIn
  <2>3. CollectedInv'
    BY DEF MixInv, CollectedInv, Covers, InWindow
  <2>4. OutputInv'
    BY DEF MixInv, OutputInv, Share, BatchIsCurrent, InWindow
  <2>5. \A g : Gone(g)' <=> Gone(g)
    BY DEF Gone, Enabled, EnabledIn
  <2>6. FiltersInv'
    BY <2>5 DEF MixInv, FiltersInv, NothingCarriedOver
  <2> QED BY <2>1, <2>2, <2>3, <2>4, <2>6 DEF MixInv
<1> QED BY <1>1, <1>2, <1>3, <1>4, <1>5, <1>6, <1>7, <1>8, <1>9, <1>10, Zenon DEF MixNext

\* What the mix keeps: the frozen list and the moments a batch looked at, the items collected, the buffers, and
\* the filters of generators that are registered no more (StimulusManager.cpp).
THEOREM MixInvariant == MixSpec => []MixInv
<1>1. MixInit => MixInv
  BY MixStarts
<1>2. MixInv /\ [MixNext]_mixVars => MixInv'
  BY MixKept
<1> QED BY <1>1, <1>2, PTL DEF MixSpec

\* For every number of signals, threads, batches and sessions, whatever another thread adds, removes, enables or
\* disables between the steps of a batch: the batch is what was enabled at one moment of it, each signal in the
\* window once, and once the loop has paused no filter goes on from an earlier session.
THEOREM MixAlwaysRight == MixSpec => []MixRight
<1>1. MixInv => MixRight
  BY DEF MixInv, MomentInv, OutputInv, FiltersInv, MixRight
<1> QED BY <1>1, MixInvariant, PTL

----------------------------------------------------------------------------
(* StimulusScript: what the script names is what is streamed.              *)

Sources == {"keyed", "tones", "sweep", "noise", "samples", "voice"}
Signals == {Absent} \cup [source : Sources, loops : BOOLEAN, on : BOOLEAN]

ScriptTypes ==
  /\ setup \in {"script", "wav", "broadcast", "streaming"}
  /\ calls \in Seq(Calls) /\ signals \in [SignalNames -> Signals]
  /\ manager \in [from : {"none", "script's", "own"}, own : SUBSET {"wav-iq", "am-broadcast"}]

\* A name's latest call decides whether it is a signal.
Decides(i, n) == i \in DOMAIN calls /\ Sets(calls[i], n) /\ \A j \in DOMAIN calls : Sets(calls[j], n) => j <= i
Stands(n) ==
  \/ signals[n] = Absent /\ \A j \in DOMAIN calls : ~Sets(calls[j], n)
  \/ \E i \in Nat : Decides(i, n) /\ (signals[n] = Absent <=> calls[i].fn \in {"clear", "remove"})

Raised == \E i \in DOMAIN calls : Raises(calls[i])
Streamed == (IF manager.from = "script's" THEN {n \in SignalNames : signals[n].on} ELSE {}) \cup manager.own

ListInv ==
  /\ setup = "script" => (manager.from = "none" /\ manager.own = {} /\ ~Raised)
  /\ setup = "wav" => (manager.from # "own" /\ manager.own = {})
  /\ manager.from = "script's" => ~Raised
  /\ manager.from = "none" => ~listed.frozen
  /\ setup = "streaming" /\ manager.from # "none" => (listed.frozen /\ listed.names = Streamed)

ScriptInv == ScriptTypes /\ (\A n \in SignalNames : Stands(n)) /\ ListInv

\* What a signal that is no absent one is made of.
LEMMA SignalIsThere ==
  ASSUME NEW source \in Sources, NEW loops \in BOOLEAN
  PROVE  Signal(source, loops) \in Signals /\ Signal(source, loops) # Absent
BY DEF Signal, Signals, Sources, Absent

\* A call that does as it said makes its name a signal, or none; any other leaves it what it was.
Does(c, n) ==
  /\ signals'[n] \in Signals
  /\ Sets(c, n) => (signals'[n] = Absent <=> c.fn \in {"clear", "remove"})
  /\ ~Sets(c, n) => (signals'[n] = Absent <=> signals[n] = Absent)

LEMMA PlainDoes ==
  ASSUME ScriptTypes, NEW c \in Plain, RunCall(c), NEW n \in SignalNames PROVE Does(c, n)
<1>1. /\ c.fn \in {"addMorse", "addTone", "addSweep", "addNoise"} /\ c.name \in SignalNames /\ c.loop \in BOOLEAN
  <2> PICK f \in {"addMorse", "addTone", "addSweep", "addNoise"}, m \in SignalNames, l \in {TRUE, FALSE} :
        c = [fn |-> f, name |-> m, loop |-> l]
    BY DEF Plain
  <2>1. c.fn = f /\ c.name = m /\ c.loop = l
    OBVIOUS
  <2> QED BY <2>1
<1>2. PICK source \in Sources, loops \in BOOLEAN : signals' = [signals EXCEPT ![c.name] = Signal(source, loops)]
  <2>1. /\ c.fn = "addMorse" => signals' = [signals EXCEPT ![c.name] = Signal("keyed", c.loop)]
        /\ c.fn = "addTone" => signals' = [signals EXCEPT ![c.name] = Signal("tones", TRUE)]
        /\ c.fn = "addSweep" => signals' = [signals EXCEPT ![c.name] = Signal("sweep", c.loop)]
        /\ c.fn = "addNoise" => signals' = [signals EXCEPT ![c.name] = Signal("noise", TRUE)]
    BY <1>1 DEF RunCall, AddMorse, AddTone, AddSweep, AddNoise, Put
  <2> QED BY <1>1, <2>1 DEF Sources
<1>3. signals \in [SignalNames -> Signals]
  BY DEF ScriptTypes
<1>4. Sets(c, n) <=> c.name = n
  BY <1>1 DEF Sets
<1> QED BY <1>1, <1>2, <1>3, <1>4, SignalIsThere DEF Does

LEMMA AudioDoes ==
  ASSUME ScriptTypes, NEW c \in Audio, RunCall(c), NEW n \in SignalNames PROVE Does(c, n)
<1>1. /\ c.fn \in {"addSsb", "addAm"} /\ c.name \in SignalNames /\ c.loop \in BOOLEAN
      /\ c.tones \in BOOLEAN /\ c.voice \in BOOLEAN /\ c.file \in {"none", "loads", "fails"}
  <2> PICK f \in {"addSsb", "addAm"}, m \in SignalNames, t \in BOOLEAN, v \in BOOLEAN, w \in {"none", "loads", "fails"} :
        c = [fn |-> f, name |-> m, tones |-> t, voice |-> v, file |-> w, loop |-> TRUE]
    BY DEF Audio
  <2>1. c.fn = f /\ c.name = m /\ c.loop = TRUE /\ c.tones = t /\ c.voice = v /\ c.file = w
    OBVIOUS
  <2> QED BY <2>1
<1>2. CASE c.fn = "addSsb"
  <2>1. signals' = AddSsb(c)
    BY <1>2 DEF RunCall
  <2>2. \/ c.file = "fails" /\ ~c.tones /\ ~c.voice /\ signals' = signals
        \/ /\ c.tones \/ c.voice \/ c.file # "fails"
           /\ \E source \in Sources, loops \in BOOLEAN : signals' = [signals EXCEPT ![c.name] = Signal(source, loops)]
    BY <1>1, <2>1 DEF AddSsb, FromFile, Put, Sources
  <2> QED BY <1>1, <1>2, <2>2, SignalIsThere DEF Does, Sets, ScriptTypes
<1>3. CASE c.fn = "addAm"
  <2>1. signals' = AddAm(c)
    BY <1>3 DEF RunCall
  <2>2. \/ c.file = "fails" /\ ~c.tones /\ signals' = signals
        \/ /\ c.tones \/ c.file # "fails"
           /\ \E source \in Sources, loops \in BOOLEAN : signals' = [signals EXCEPT ![c.name] = Signal(source, loops)]
    BY <1>1, <2>1 DEF AddAm, FromFile, Put, Sources
  <2> QED BY <1>1, <1>3, <2>2, SignalIsThere DEF Does, Sets, ScriptTypes
<1> QED BY <1>1, <1>2, <1>3

LEMMA CaptureDoes ==
  ASSUME ScriptTypes, NEW c \in Capture, RunCall(c), NEW n \in SignalNames PROVE Does(c, n)
<1>1. c.fn = "addRFCapture" /\ c.name \in SignalNames /\ c.loop = TRUE
  <2> PICK m \in SignalNames, w \in {"pathless", "loads", "fails"} :
        c = [fn |-> "addRFCapture", name |-> m, file |-> w, loop |-> TRUE]
    BY DEF Capture
  <2>1. c.fn = "addRFCapture" /\ c.name = m /\ c.loop = TRUE
    OBVIOUS
  <2> QED BY <2>1
<1>2. signals' = IF c.file = "loads" THEN [signals EXCEPT ![c.name] = Signal("samples", c.loop)] ELSE signals
  BY <1>1 DEF RunCall, AddRFCapture, Put
<1>3. Sets(c, n) <=> (c.name = n /\ c.file = "loads")
  BY <1>1 DEF Sets
<1>4. "samples" \in Sources /\ c.loop \in BOOLEAN
  BY <1>1 DEF Sources
<1>5. Signal("samples", c.loop) \in Signals /\ Signal("samples", c.loop) # Absent
  BY <1>4, SignalIsThere
<1> QED BY <1>1, <1>2, <1>3, <1>5 DEF Does, ScriptTypes

LEMMA OtherDoes ==
  ASSUME ScriptTypes, NEW c \in Other, RunCall(c), NEW n \in SignalNames PROVE Does(c, n)
<1>1. c.fn \in {"remove", "disable", "enable", "clear"} /\ c.name \in SignalNames
  <2> PICK f \in {"remove", "disable", "enable", "clear", "raises"}, m \in SignalNames : c = [fn |-> f, name |-> m]
    BY DEF Other
  <2>1. c.fn = f /\ c.name = m
    OBVIOUS
  <2> QED BY <2>1 DEF RunCall, Raises
<1>2. signals' = RemoveAndSwitch(c)
  BY <1>1 DEF RunCall
<1>3. signals \in [SignalNames -> Signals]
  BY DEF ScriptTypes
<1>4. CASE c.fn = "remove"
  BY <1>1, <1>2, <1>3, <1>4 DEF RemoveAndSwitch, Does, Sets, Signals
<1>5. CASE c.fn = "clear"
  BY <1>1, <1>2, <1>3, <1>5 DEF RemoveAndSwitch, Does, Sets, Signals
<1>6. \A on \in BOOLEAN : \A m \in SignalNames :
        [signals[m] EXCEPT !.on = on] \in Signals \/ signals[m] = Absent
  BY <1>3 DEF Signals
<1>7. \A on \in BOOLEAN : \A m \in SignalNames :
        signals[m] # Absent => [signals[m] EXCEPT !.on = on] # Absent
  BY <1>3 DEF Signals, Sources, Absent
<1>8. [Absent EXCEPT !.on = FALSE] = Absent
  <2>1. \A v : [[source |-> "absent", loops |-> v, on |-> v] EXCEPT !.on = v]
              = [source |-> "absent", loops |-> v, on |-> v]
    OBVIOUS
  <2> QED BY <2>1, Zenon DEF Absent
<1>9. CASE c.fn = "enable"
  <2>1. signals' = [signals EXCEPT ![c.name].on = signals[c.name].on \/ signals[c.name] # Absent]
    BY <1>2, <1>9 DEF RemoveAndSwitch
  <2>2. signals[c.name] = Absent => (signals[c.name].on \/ signals[c.name] # Absent) = FALSE
    <3> SUFFICES ASSUME signals[c.name] = Absent PROVE ~(signals[c.name].on \/ signals[c.name] # Absent)
      BY Zenon
    <3>1. Absent.on = FALSE
      BY DEF Absent
    <3> QED BY <3>1
  <2>3. (signals[c.name].on \/ signals[c.name] # Absent) \in BOOLEAN
    BY Zenon
  <2> DEFINE on == signals[c.name].on \/ signals[c.name] # Absent
             to == [signals[c.name] EXCEPT !.on = on]
  <2> HIDE DEF on
  <2>4. signals' = [signals EXCEPT ![c.name] = to]
    BY <2>1 DEF on
  <2>5. to \in Signals /\ (to = Absent <=> signals[c.name] = Absent)
    <3>1. CASE signals[c.name] = Absent
      <4>1. on = FALSE
        BY <2>2, <3>1, Zenon DEF on
      <4> QED BY <1>8, <3>1, <4>1, Zenon DEF Signals
    <3>2. CASE signals[c.name] # Absent
      <4>1. on \in BOOLEAN
        BY <2>3 DEF on
      <4> QED BY <1>1, <1>6, <1>7, <3>2, <4>1
    <3> QED BY <3>1, <3>2
  <2> HIDE DEF to
  <2>6. ~Sets(c, n)
    BY <1>9 DEF Sets
  <2> QED BY <1>1, <1>3, <2>4, <2>5, <2>6 DEF Does
<1>10. CASE c.fn = "disable"
  <2> DEFINE to == [signals[c.name] EXCEPT !.on = FALSE]
  <2>1. signals' = [signals EXCEPT ![c.name] = to]
    BY <1>2, <1>10 DEF RemoveAndSwitch
  <2>2. to \in Signals /\ (to = Absent <=> signals[c.name] = Absent)
    <3>1. CASE signals[c.name] = Absent
      BY <1>8, <3>1, Zenon DEF Signals
    <3>2. CASE signals[c.name] # Absent
      BY <1>1, <1>6, <1>7, <3>2
    <3> QED BY <3>1, <3>2
  <2> HIDE DEF to
  <2>3. ~Sets(c, n)
    BY <1>10 DEF Sets
  <2> QED BY <1>1, <1>3, <2>1, <2>2, <2>3 DEF Does
<1> QED BY <1>1, <1>4, <1>5, <1>9, <1>10

\* The latest call that could do as it said decides, after one more call too.
LEMMA StandsAfter ==
  ASSUME ScriptTypes, NEW n \in SignalNames, Stands(n), NEW c \in Calls, calls' = Append(calls, c), Does(c, n)
  PROVE  Stands(n)'
<1> PICK k \in Nat : k = Len(calls) + 1
  BY DEF ScriptTypes
<1>1. /\ k \in Nat /\ DOMAIN calls = 1..k - 1 /\ DOMAIN calls' = 1..k /\ calls'[k] = c
      /\ \A j \in 1..k - 1 : calls'[j] = calls[j]
  BY DEF ScriptTypes
<1>2. \A j : j \in 1..k <=> (j \in 1..k - 1 \/ j = k)
  BY <1>1
<1>3. CASE Sets(c, n)
  <2>1. k \in DOMAIN calls' /\ Sets(calls'[k], n) /\ \A j \in DOMAIN calls' : Sets(calls'[j], n) => j <= k
    BY <1>1, <1>3
  <2>2. Decides(k, n)'
    BY <2>1 DEF Decides, Sets
  <2>3. signals'[n] = Absent <=> calls'[k].fn \in {"clear", "remove"}
    BY <1>1, <1>3 DEF Does
  <2> QED BY <1>1, <2>2, <2>3 DEF Stands
<1>4. CASE ~Sets(c, n)
  <2>1. CASE signals[n] = Absent /\ \A j \in DOMAIN calls : ~Sets(calls[j], n)
    <3>1. signals'[n] = Absent
      BY <1>4, <2>1 DEF Does
    <3>2. \A j \in DOMAIN calls' : ~Sets(calls'[j], n)
      BY <1>1, <1>2, <1>4, <2>1
    <3> QED BY <3>1, <3>2 DEF Stands, Sets
  <2>2. ASSUME NEW i \in Nat, Decides(i, n), signals[n] = Absent <=> calls[i].fn \in {"clear", "remove"}
        PROVE  Stands(n)'
    <3>1. i \in DOMAIN calls' /\ calls'[i] = calls[i] /\ Sets(calls'[i], n)
      BY <1>1, <2>2 DEF Decides
    <3>2. \A j \in DOMAIN calls' : Sets(calls'[j], n) => j <= i
      BY <1>1, <1>2, <1>4, <2>2 DEF Decides
    <3>3. Decides(i, n)'
      BY <3>1, <3>2 DEF Decides, Sets
    <3>4. signals'[n] = Absent <=> calls'[i].fn \in {"clear", "remove"}
      BY <1>4, <2>2, <3>1 DEF Does
    <3> QED BY <3>3, <3>4 DEF Stands
  <2> QED BY <2>1, <2>2 DEF Stands
<1> QED BY <1>3, <1>4

LEMMA RunCallKept == ASSUME ScriptInv, NEW c \in Calls, RunCall(c) PROVE ScriptInv'
<1>1. \A n \in SignalNames : Does(c, n)
  BY PlainDoes, AudioDoes, CaptureDoes, OtherDoes DEF ScriptInv, Calls
<1>2. calls' = Append(calls, c) /\ UNCHANGED <<setup, manager, listed>> /\ ~Raises(c) /\ setup = "script"
  BY DEF RunCall
<1>3. \A n \in SignalNames : Stands(n)'
  BY <1>1, <1>2, StandsAfter DEF ScriptInv
<1>4. \E f : signals' = [n \in SignalNames |-> f[n]]
  <2>1. signals = [n \in SignalNames |-> signals[n]]
    BY DEF ScriptInv, ScriptTypes
  <2>2. \A v, m : \E f : [signals EXCEPT ![m] = v] = [n \in SignalNames |-> f[n]]
    <3> TAKE v, m
    <3> DEFINE g == [n \in SignalNames |-> IF n = m THEN v ELSE signals[n]]
    <3>1. [signals EXCEPT ![m] = v] = [n \in SignalNames |-> g[n]]
      BY <2>1
    <3> QED BY <3>1
  <2>3. \/ \E v, m : signals' = [signals EXCEPT ![m] = v]
        \/ signals' = signals
        \/ signals' = [n \in SignalNames |-> Absent]
    <3> USE DEF RunCall, Put
    <3>1. CASE c.fn \in {"addMorse", "addTone", "addSweep", "addNoise"}
      BY <3>1 DEF AddMorse, AddTone, AddSweep, AddNoise
    <3>2. CASE c.fn = "addSsb"
      BY <3>2 DEF AddSsb, FromFile
    <3>3. CASE c.fn = "addAm"
      BY <3>3 DEF AddAm, FromFile
    <3>4. CASE c.fn = "addRFCapture"
      BY <3>4 DEF AddRFCapture
    <3>5. CASE c.fn \notin {"addMorse", "addTone", "addSweep", "addNoise", "addSsb", "addAm", "addRFCapture"}
      <4>1. signals' = RemoveAndSwitch(c)
        BY <3>5
      <4>2. \A w : [signals EXCEPT ![c.name].on = w] = [signals EXCEPT ![c.name] = [signals[c.name] EXCEPT !.on = w]]
        OBVIOUS
      <4> QED BY <4>1, <4>2 DEF RemoveAndSwitch
    <3> QED BY <3>1, <3>2, <3>3, <3>4, <3>5
  <2>4. \A h : [n \in SignalNames |-> Absent] = [n \in SignalNames |-> h] => TRUE
    OBVIOUS
  <2>5. CASE signals' = [n \in SignalNames |-> Absent]
    <3> DEFINE g == [n \in SignalNames |-> Absent]
    <3>1. signals' = [n \in SignalNames |-> g[n]]
      BY <2>5
    <3> QED BY <3>1
  <2> QED BY <2>1, <2>2, <2>3, <2>5
<1>5. signals' \in [SignalNames -> Signals]
  BY <1>1, <1>4 DEF Does
<1>6. ScriptTypes'
  BY <1>2, <1>5 DEF ScriptInv, ScriptTypes
<1>7. Raised' = Raised
  <2>1. DOMAIN calls = 1..Len(calls) /\ DOMAIN calls' = 1..Len(calls) + 1 /\ calls'[Len(calls) + 1] = c
        /\ Len(calls) \in Nat /\ \A j \in 1..Len(calls) : calls'[j] = calls[j]
    BY <1>2 DEF ScriptInv, ScriptTypes
  <2>2. \A j : j \in 1..Len(calls) + 1 <=> (j \in 1..Len(calls) \/ j = Len(calls) + 1)
    BY <2>1
  <2> QED BY <1>2, <2>1, <2>2 DEF Raised, Raises
<1>8. ListInv'
  BY <1>2, <1>7 DEF ScriptInv, ListInv
<1> QED BY <1>3, <1>6, <1>8 DEF ScriptInv

LEMMA ScriptFailsKept == ASSUME ScriptInv, NEW c \in Calls, ScriptFails(c) PROVE ScriptInv'
<1>1. /\ Raises(c) /\ calls' = Append(calls, c) /\ UNCHANGED <<signals, manager, listed>>
      /\ setup = "script" /\ setup' = "wav"
  BY DEF ScriptFails
<1>2. ASSUME NEW n \in SignalNames PROVE Does(c, n)
  <2>1. ~Sets(c, n)
    BY <1>1 DEF Raises, Sets
  <2> QED BY <1>1, <2>1 DEF Does, ScriptInv, ScriptTypes
<1>3. \A n \in SignalNames : Stands(n)'
  BY <1>1, <1>2, StandsAfter DEF ScriptInv
<1>4. ScriptTypes'
  BY <1>1 DEF ScriptInv, ScriptTypes
<1>5. manager.from = "none" /\ ~listed.frozen
  BY <1>1 DEF ScriptInv, ListInv
<1>6. manager.own = {}
  BY <1>1 DEF ScriptInv, ListInv
<1>7. ListInv'
  BY <1>1, <1>5, <1>6 DEF ListInv
<1> QED BY <1>3, <1>4, <1>7 DEF ScriptInv

\* The rest of the start-up leaves the calls and the signals.
LEMMA SetupKept ==
  ASSUME ScriptInv,
         ScriptEnds \/ NoScript \/ NoWav \/ AddBroadcast \/ (\E loads \in BOOLEAN : PlayWav(loads))
  PROVE  ScriptInv'
<1>1. UNCHANGED <<calls, signals>>
  BY DEF ScriptEnds, NoScript, NoWav, AddBroadcast, PlayWav
<1>2. \A n \in SignalNames : Stands(n)'
  BY <1>1 DEF ScriptInv, Stands, Decides, Sets
<1>3. Raised' = Raised
  BY <1>1 DEF Raised, Raises
<1>4. manager \in [from : {"none", "script's", "own"}, own : SUBSET {"wav-iq", "am-broadcast"}]
  BY DEF ScriptInv, ScriptTypes
<1>5. Mixed.frozen = TRUE /\ Mixed.names = Streamed'
  BY <1>1 DEF Mixed, Streamed
<1>6. ScriptTypes'
  BY <1>1, <1>4 DEF ScriptInv, ScriptTypes, ScriptEnds, NoScript, NoWav, AddBroadcast, PlayWav
<1>7. CASE ScriptEnds
  <2>1. manager'.from = "script's" /\ listed' = Mixed /\ setup = "script" /\ setup' = "wav" /\ manager'.own = manager.own
    BY <1>4, <1>7 DEF ScriptEnds
  <2>2. manager.own = {} /\ ~Raised
    BY <2>1 DEF ScriptInv, ListInv
  <2> QED BY <1>2, <1>3, <1>5, <1>6, <2>1, <2>2 DEF ScriptInv, ListInv
<1>8. CASE NoScript \/ NoWav
  BY <1>2, <1>3, <1>6, <1>8 DEF ScriptInv, ListInv, NoScript, NoWav
<1>9. CASE \E loads \in BOOLEAN : PlayWav(loads)
  BY <1>2, <1>3, <1>4, <1>6, <1>9 DEF ScriptInv, ListInv, PlayWav
<1>10. CASE AddBroadcast
  <2>1. CASE manager.from = "none"
    BY <1>2, <1>3, <1>6, <1>10, <2>1 DEF ScriptInv, ListInv, AddBroadcast
  <2>2. CASE manager.from # "none"
    <3>1. manager'.from = manager.from /\ listed' = Mixed /\ setup' = "streaming"
      BY <1>4, <1>10, <2>2 DEF AddBroadcast
    <3> QED BY <1>2, <1>3, <1>5, <1>6, <2>2, <3>1 DEF ScriptInv, ListInv
  <2> QED BY <2>1, <2>2
<1> QED BY <1>7, <1>8, <1>9, <1>10

LEMMA ScriptStarts == ASSUME ScriptInit PROVE ScriptInv
<1>1. ScriptTypes
  BY DEF ScriptInit, ScriptTypes, Signals
<1>2. \A n \in SignalNames : Stands(n)
  BY DEF ScriptInit, Stands
<1>3. ~Raised
  BY DEF ScriptInit, Raised
<1> QED BY <1>1, <1>2, <1>3 DEF ScriptInit, ScriptInv, ListInv, NotFrozen

\* The signals a script leaves are those of its latest calls, and the twin streams all of them, or none where
\* it failed, with those the command line adds (StimulusLua.cpp, runFunctionalMode()).
THEOREM ScriptInvariant == ScriptSpec => []ScriptInv
<1>1. ScriptInit => ScriptInv
  BY ScriptStarts
<1>2. ASSUME ScriptInv, [ScriptNext]_scriptVars PROVE ScriptInv'
  <2>1. ASSUME NEW c \in Calls, RunCall(c) \/ ScriptFails(c) PROVE ScriptInv'
    BY <1>2, <2>1, RunCallKept, ScriptFailsKept
  <2>2. ASSUME ScriptEnds \/ NoScript \/ NoWav \/ AddBroadcast \/ (\E loads \in BOOLEAN : PlayWav(loads))
        PROVE  ScriptInv'
    BY <1>2, <2>2, SetupKept
  <2>3. ASSUME UNCHANGED scriptVars PROVE ScriptInv'
    <3> USE <2>3 DEF scriptVars
    <3>1. ScriptTypes' /\ \A n \in SignalNames : Stands(n)'
      BY <1>2 DEF ScriptInv, ScriptTypes, Stands, Decides, Sets
    <3>2. Raised' = Raised /\ Streamed' = Streamed
      BY DEF Raised, Raises, Streamed
    <3>3. ListInv'
      BY <1>2, <3>2 DEF ScriptInv, ListInv
    <3> QED BY <3>1, <3>3 DEF ScriptInv
  <2> QED BY <1>2, <2>1, <2>2, <2>3, Zenon DEF ScriptNext
<1> QED BY <1>1, <1>2, PTL DEF ScriptSpec

\* What a name stands for, told from the latest call as ScriptRight has it.
LEMMA StandsIsLatest == ASSUME ScriptInv PROVE LatestCallStands
<1> SUFFICES ASSUME NEW n \in SignalNames
             PROVE  LET effective == {i \in DOMAIN calls : Sets(calls[i], n)}
                        last == CHOOSE i \in effective : \A j \in effective : j <= i
                    IN /\ signals[n].source # "none"
                       /\ signals[n] = Absent <=> (effective = {} \/ calls[last].fn \in {"clear", "remove"})
  BY Zenon DEF LatestCallStands
<1> DEFINE effective == {i \in DOMAIN calls : Sets(calls[i], n)}
           last == CHOOSE i \in effective : \A j \in effective : j <= i
<1>1. signals[n].source # "none"
  BY DEF ScriptInv, ScriptTypes, Signals, Sources, Absent
<1>2. CASE signals[n] = Absent /\ \A j \in DOMAIN calls : ~Sets(calls[j], n)
  BY <1>1, <1>2
<1>3. ASSUME NEW i \in Nat, Decides(i, n), signals[n] = Absent <=> calls[i].fn \in {"clear", "remove"}
      PROVE  signals[n] = Absent <=> (effective = {} \/ calls[last].fn \in {"clear", "remove"})
  <2>1. i \in effective /\ \A j \in effective : j <= i
    BY <1>3 DEF Decides
  <2>2. last \in effective /\ \A j \in effective : j <= last
    BY <2>1, Zenon
  <2>3. effective \subseteq Nat
    BY DEF ScriptInv, ScriptTypes
  <2> HIDE DEF effective, last
  <2>4. last = i
    BY <2>1, <2>2, <2>3
  <2> QED BY <1>3, <2>1, <2>4
<1>4. Stands(n)
  BY DEF ScriptInv
<1> QED BY <1>1, <1>2, <1>3, <1>4 DEF Stands

LEMMA ScriptIsRight == ASSUME ScriptInv PROVE ScriptRight
<1>1. LatestCallStands
  BY StandsIsLatest
<1>2. WholeScriptOrNone
  <2> SUFFICES ASSUME setup = "streaming" PROVE WholeScriptOrNone
    BY DEF WholeScriptOrNone
  <2>1. /\ manager.from \in {"none", "script's", "own"}
        /\ manager.from = "script's" => ~Raised
        /\ manager.from = "none" => ~listed.frozen
        /\ manager.from # "none" => listed.frozen /\ listed.names = Streamed
    BY DEF ScriptInv, ScriptTypes, ListInv
  <2> QED BY <2>1 DEF WholeScriptOrNone, Raised, Streamed
<1> QED BY <1>1, <1>2 DEF ScriptRight

----------------------------------------------------------------------------
(* Speech: voices say their own texts.                                     *)

Spoken == Sayings \cup {NoText}

SpeechTypes ==
  /\ engine \in [Engines -> [text : Spoken, needs : BOOLEAN, samples : Seq(Spoken \X Nat), repeat : BOOLEAN]]
  /\ speaking \in [Engines -> [at : {"idle", "setup", "synth"}, given : 0..SpeechLength]]
  /\ sampleBuffer \in Engines \cup {"null"} /\ crossed \in BOOLEAN /\ settings \in Nat

\* The samples of a text that were handed over.
Given(e) == [k \in 1..speaking[e].given |-> <<engine[e].text, k>>]

\* What one engine is about, as long as it is alone in espeak-ng.
VoiceInv(e) ==
  /\ speaking[e].at = "setup" => (engine[e].samples = <<>> /\ speaking[e].given = 0)
  /\ speaking[e].at = "synth" => (engine[e].samples = Given(e) /\ sampleBuffer = e)
  /\ Synthesising(e) => (~engine[e].needs /\ engine[e].text # NoText)
  /\ (~Synthesising(e) /\ ~engine[e].needs) =>
       engine[e].samples = IF engine[e].text = NoText THEN <<>> ELSE Speech(engine[e].text)

Alone == \A e, f \in Engines : Synthesising(e) /\ Synthesising(f) => e = f

SpeechInv == SpeechTypes /\ (~crossed => Alone /\ \A e \in Engines : VoiceInv(e))

LEMMA SpeechConstants == SpeechLength \in Nat /\ SpeechLength > 0 /\ SpeechTimes \in Nat /\ "null" \notin Engines
BY SpeechAssumption

LEMMA SpeechStarts == ASSUME SpeechInit PROVE SpeechInv
<1> USE SpeechConstants DEF SpeechInit
<1>1. SpeechTypes
  <2>1. [text |-> NoText, needs |-> TRUE, samples |-> <<>>, repeat |-> TRUE]
          \in [text : Spoken, needs : BOOLEAN, samples : Seq(Spoken \X Nat), repeat : BOOLEAN]
    BY DEF Spoken
  <2>2. speaking \in [Engines -> [at : {"idle", "setup", "synth"}, given : 0..SpeechLength]]
    OBVIOUS
  <2> QED BY <2>1, <2>2 DEF SpeechTypes
<1>2. Alone /\ \A e \in Engines : VoiceInv(e)
  BY DEF Alone, VoiceInv, Synthesising
<1> QED BY <1>1, <1>2 DEF SpeechInv

\* What is said of an engine stays so while it stays what it is, and where its callback points.
LEMMA VoiceStays ==
  ASSUME NEW e \in Engines, VoiceInv(e), engine'[e] = engine[e], speaking'[e] = speaking[e],
         speaking[e].at = "synth" => sampleBuffer' = sampleBuffer
  PROVE  VoiceInv(e)'
BY DEF VoiceInv, Synthesising, Given, Speech

LEMMA SetVoiceKept ==
  ASSUME SpeechInv, NEW e \in Engines, NEW text \in Sayings \cup {NoText}, NEW repeat \in BOOLEAN,
         SetVoice(e, text, repeat)
  PROVE  SpeechInv'
<1> DEFINE needs == engine[e].needs \/ text # engine[e].text
           after == [engine[e] EXCEPT !.text = text, !.repeat = repeat, !.needs = needs]
<1>1. engine[e] \in [text : Spoken, needs : BOOLEAN, samples : Seq(Spoken \X Nat), repeat : BOOLEAN]
      /\ engine \in [Engines -> [text : Spoken, needs : BOOLEAN, samples : Seq(Spoken \X Nat), repeat : BOOLEAN]]
  BY DEF SpeechInv, SpeechTypes
<1>2. engine' = [engine EXCEPT ![e] = after]
  BY <1>1 DEF SetVoice
<1>3. needs \in BOOLEAN
  BY Zenon
<1>4. needs = FALSE => (engine[e].needs = FALSE /\ text = engine[e].text)
  BY <1>1
<1> HIDE DEF needs
<1>5. /\ after \in [text : Spoken, needs : BOOLEAN, samples : Seq(Spoken \X Nat), repeat : BOOLEAN]
      /\ after.text = text /\ after.needs = needs /\ after.samples = engine[e].samples
  BY <1>1, <1>3 DEF Spoken
<1> HIDE DEF after
<1>6. /\ ~Synthesising(e) /\ UNCHANGED <<speaking, sampleBuffer, crossed>> /\ settings' \in Nat
      /\ engine'[e] = after /\ \A f \in Engines \ {e} : engine'[f] = engine[f]
  <2>1. ~Synthesising(e) /\ UNCHANGED <<speaking, sampleBuffer, crossed>> /\ settings' = settings + 1
    BY DEF SetVoice
  <2>2. settings' \in Nat
    BY <2>1 DEF SpeechInv, SpeechTypes
  <2> QED BY <1>1, <1>2, <2>1, <2>2
<1>7. SpeechTypes'
  BY <1>1, <1>2, <1>5, <1>6 DEF SpeechInv, SpeechTypes
<1>8. ASSUME ~crossed, NEW f \in Engines PROVE VoiceInv(f)'
  <2>1. CASE f = e
    <3>1. speaking'[e].at = speaking[e].at /\ speaking[e].at = "idle"
      BY <1>1, <1>6 DEF SpeechInv, SpeechTypes, Synthesising
    <3>2. ~engine'[e].needs =>
            engine'[e].samples = IF engine'[e].text = NoText THEN <<>> ELSE Speech(engine'[e].text)
      <4> SUFFICES ASSUME ~needs PROVE after.samples = IF after.text = NoText THEN <<>> ELSE Speech(after.text)
        BY <1>5, <1>6
      <4>1. needs = FALSE
        BY <1>3
      <4>2. ~engine[e].needs /\ after.text = engine[e].text
        BY <1>4, <1>5, <4>1
      <4>3. VoiceInv(e)
        BY <1>8 DEF SpeechInv
      <4> QED BY <1>5, <1>6, <4>2, <4>3 DEF VoiceInv
    <3> QED BY <2>1, <3>1, <3>2 DEF VoiceInv, Synthesising, Speech
  <2>2. CASE f # e
    BY <1>6, <1>8, <2>2, VoiceStays DEF SpeechInv
  <2> QED BY <2>1, <2>2
<1>9. Alone' <=> Alone
  BY <1>6 DEF Alone, Synthesising
<1> QED BY <1>6, <1>7, <1>8, <1>9 DEF SpeechInv

LEMMA BeginSynthesisKept == ASSUME SpeechInv, NEW e \in Engines, BeginSynthesis(e) PROVE SpeechInv'
<1> USE SpeechConstants
<1> DEFINE after == [engine[e] EXCEPT !.needs = FALSE, !.samples = <<>>]
<1>1. engine[e] \in [text : Spoken, needs : BOOLEAN, samples : Seq(Spoken \X Nat), repeat : BOOLEAN]
      /\ engine \in [Engines -> [text : Spoken, needs : BOOLEAN, samples : Seq(Spoken \X Nat), repeat : BOOLEAN]]
      /\ speaking \in [Engines -> [at : {"idle", "setup", "synth"}, given : 0..SpeechLength]]
  BY DEF SpeechInv, SpeechTypes
<1>2. engine' = [engine EXCEPT ![e] = after]
  BY <1>1 DEF BeginSynthesis
<1>3. /\ after \in [text : Spoken, needs : BOOLEAN, samples : Seq(Spoken \X Nat), repeat : BOOLEAN]
      /\ after.text = engine[e].text /\ after.needs = FALSE /\ after.samples = <<>>
  <2>1. <<>> \in Seq(Spoken \X Nat) /\ FALSE \in BOOLEAN
    OBVIOUS
  <2>2. after.text = engine[e].text /\ after.needs = FALSE /\ after.samples = <<>>
    BY <1>1
  <2> QED BY <1>1, <2>1, <2>2
<1> HIDE DEF after
<1>4. /\ ~Synthesising(e) /\ UNCHANGED <<sampleBuffer, settings>>
      /\ crossed' = (crossed \/ \E other \in Engines \ {e} : Synthesising(other))
      /\ engine'[e] = after /\ \A f \in Engines \ {e} : engine'[f] = engine[f]
  BY <1>1, <1>2 DEF BeginSynthesis
<1>5. \/ engine[e].text = NoText /\ speaking' = speaking
      \/ /\ engine[e].text # NoText
         /\ speaking' = [speaking EXCEPT ![e] = [at |-> "setup", given |-> 0]]
  BY DEF BeginSynthesis
<1>6. crossed' \in BOOLEAN
  BY <1>4, Zenon
<1>7. SpeechTypes'
  <2>1. engine' \in [Engines -> [text : Spoken, needs : BOOLEAN, samples : Seq(Spoken \X Nat), repeat : BOOLEAN]]
    BY <1>1, <1>2, <1>3
  <2>2. speaking' \in [Engines -> [at : {"idle", "setup", "synth"}, given : 0..SpeechLength]]
    <3>1. speaking \in [Engines -> [at : {"idle", "setup", "synth"}, given : 0..SpeechLength]]
      BY DEF SpeechInv, SpeechTypes
    <3>2. [at |-> "setup", given |-> 0] \in [at : {"idle", "setup", "synth"}, given : 0..SpeechLength]
      OBVIOUS
    <3> QED BY <1>5, <3>1, <3>2
  <2> QED BY <1>4, <1>6, <2>1, <2>2 DEF SpeechInv, SpeechTypes
<1>8. ASSUME ~crossed' PROVE Alone' /\ \A f \in Engines : VoiceInv(f)'
  <2>1. ~crossed /\ \A f \in Engines \ {e} : ~Synthesising(f)
    BY <1>4, <1>8
  <2>2. \A f \in Engines \ {e} : speaking'[f] = speaking[f]
    BY <1>1, <1>5
  <2>3. Alone'
    BY <2>1, <2>2 DEF Alone, Synthesising
  <2>4. ASSUME NEW f \in Engines \ {e} PROVE VoiceInv(f)'
    BY <1>4, <2>1, <2>2, VoiceStays DEF SpeechInv
  <2>5. VoiceInv(e)'
    <3>1. CASE engine[e].text = NoText
      BY <1>3, <1>4, <1>5, <3>1 DEF VoiceInv, Synthesising
    <3>2. CASE engine[e].text # NoText
      <4>1. speaking'[e].at = "setup" /\ speaking'[e].given = 0
        BY <1>1, <1>5, <3>2
      <4> QED BY <1>3, <1>4, <3>2, <4>1 DEF VoiceInv, Synthesising
    <3> QED BY <3>1, <3>2
  <2> QED BY <2>3, <2>4, <2>5
<1> QED BY <1>7, <1>8 DEF SpeechInv

LEMMA PointBufferKept == ASSUME SpeechInv, NEW e \in Engines, PointBuffer(e) PROVE SpeechInv'
<1> USE SpeechConstants
<1>1. speaking \in [Engines -> [at : {"idle", "setup", "synth"}, given : 0..SpeechLength]]
  BY DEF SpeechInv, SpeechTypes
<1>2. /\ speaking[e].at = "setup" /\ speaking'[e].at = "synth" /\ speaking'[e].given = speaking[e].given
      /\ sampleBuffer' = e /\ UNCHANGED <<engine, crossed, settings>>
      /\ \A f \in Engines \ {e} : speaking'[f] = speaking[f]
  BY <1>1 DEF PointBuffer
<1>3. SpeechTypes'
  BY <1>1, <1>2 DEF SpeechInv, SpeechTypes, PointBuffer
<1>4. ASSUME ~crossed PROVE Alone' /\ \A f \in Engines : VoiceInv(f)'
  <2>1. Alone' /\ \A f \in Engines \ {e} : ~Synthesising(f)
    BY <1>2, <1>4 DEF SpeechInv, Alone, Synthesising
  <2>2. ASSUME NEW f \in Engines \ {e} PROVE VoiceInv(f)'
    <3>1. speaking[f].at # "synth"
      BY <2>1 DEF Synthesising
    <3> QED BY <1>2, <1>4, <3>1, VoiceStays DEF SpeechInv
  <2>3. VoiceInv(e)'
    <3>1. VoiceInv(e)
      BY <1>4 DEF SpeechInv
    <3>2. Given(e)' = <<>>
      BY <1>2, <3>1 DEF VoiceInv, Given
    <3> QED BY <1>2, <3>1, <3>2 DEF VoiceInv, Synthesising
  <2> QED BY <2>1, <2>2, <2>3
<1> QED BY <1>2, <1>3, <1>4 DEF SpeechInv

LEMMA CallbackKept == ASSUME SpeechInv, NEW e \in Engines, SpeechCallback(e) PROVE SpeechInv'
<1> USE SpeechConstants
<1> DEFINE k == speaking[e].given + 1
           sample == Speech(engine[e].text)[k]
<1>1. /\ engine \in [Engines -> [text : Spoken, needs : BOOLEAN, samples : Seq(Spoken \X Nat), repeat : BOOLEAN]]
      /\ speaking \in [Engines -> [at : {"idle", "setup", "synth"}, given : 0..SpeechLength]]
      /\ sampleBuffer \in Engines \cup {"null"}
  BY DEF SpeechInv, SpeechTypes
<1>2. /\ speaking[e].at = "synth" /\ speaking[e].given < SpeechLength /\ k \in 1..SpeechLength
      /\ UNCHANGED <<sampleBuffer, crossed, settings>>
      /\ speaking' = [speaking EXCEPT ![e].given = k]
  BY <1>1 DEF SpeechCallback
<1>3. sample = <<engine[e].text, k>> /\ sample \in Spoken \X Nat
  <2>1. sample = <<engine[e].text, k>>
    BY <1>2 DEF Speech
  <2>2. engine[e].text \in Spoken /\ k \in Nat
    BY <1>1, <1>2
  <2> HIDE DEF sample, k
  <2> QED BY <2>1, <2>2
<1>4. \/ sampleBuffer = "null" /\ engine' = engine
      \/ /\ sampleBuffer \in Engines
         /\ engine' = [engine EXCEPT ![sampleBuffer].samples = Append(@, sample)]
  BY <1>1 DEF SpeechCallback
<1> HIDE DEF sample
<1>5. engine' \in [Engines -> [text : Spoken, needs : BOOLEAN, samples : Seq(Spoken \X Nat), repeat : BOOLEAN]]
  <2>1. ASSUME sampleBuffer \in Engines, engine' = [engine EXCEPT ![sampleBuffer].samples = Append(@, sample)]
        PROVE  engine' \in [Engines -> [text : Spoken, needs : BOOLEAN, samples : Seq(Spoken \X Nat), repeat : BOOLEAN]]
    <3>1. Append(engine[sampleBuffer].samples, sample) \in Seq(Spoken \X Nat)
      <4>1. engine[sampleBuffer].samples \in Seq(Spoken \X Nat)
        BY <1>1, <2>1
      <4> QED BY <1>3, <4>1
    <3> DEFINE longer == Append(engine[sampleBuffer].samples, sample)
               after == [engine[sampleBuffer] EXCEPT !.samples = longer]
    <3>2. engine' = [engine EXCEPT ![sampleBuffer] = after]
      BY <1>1, <2>1
    <3> HIDE DEF longer
    <3>3. after \in [text : Spoken, needs : BOOLEAN, samples : Seq(Spoken \X Nat), repeat : BOOLEAN]
      <4>1. engine[sampleBuffer] \in [text : Spoken, needs : BOOLEAN, samples : Seq(Spoken \X Nat), repeat : BOOLEAN]
        BY <1>1, <2>1
      <4>2. longer \in Seq(Spoken \X Nat)
        BY <3>1 DEF longer
      <4> QED BY <4>1, <4>2
    <3> HIDE DEF after
    <3> QED BY <1>1, <2>1, <3>2, <3>3
  <2> QED BY <1>1, <1>4, <2>1
<1>6. SpeechTypes'
  <2>1. speaking' \in [Engines -> [at : {"idle", "setup", "synth"}, given : 0..SpeechLength]]
    <3>1. speaking \in [Engines -> [at : {"idle", "setup", "synth"}, given : 0..SpeechLength]]
      BY DEF SpeechInv, SpeechTypes
    <3>2. k \in 0..SpeechLength
      BY <1>2
    <3> HIDE DEF k
    <3> QED BY <1>2, <3>1, <3>2
  <2> QED BY <1>2, <1>5, <2>1 DEF SpeechInv, SpeechTypes
<1>7. /\ speaking'[e].at = "synth" /\ speaking'[e].given = k
      /\ \A f \in Engines \ {e} : speaking'[f] = speaking[f]
  BY <1>1, <1>2
<1>8. ASSUME ~crossed PROVE Alone' /\ \A f \in Engines : VoiceInv(f)'
  <2>1. Alone'
    BY <1>2, <1>7, <1>8 DEF SpeechInv, Alone, Synthesising
  <2>2. sampleBuffer = e /\ VoiceInv(e) /\ engine[e].samples = Given(e)
    BY <1>2, <1>8 DEF SpeechInv, VoiceInv
  <2>3. engine' = [engine EXCEPT ![e].samples = Append(@, sample)]
    BY <1>4, <2>2
  <2>4. /\ engine'[e].samples = Append(engine[e].samples, sample) /\ engine'[e].text = engine[e].text
        /\ engine'[e].needs = engine[e].needs /\ \A f \in Engines \ {e} : engine'[f] = engine[f]
    BY <1>1, <2>3
  <2>5. ASSUME NEW f \in Engines \ {e} PROVE VoiceInv(f)'
    BY <1>2, <1>7, <1>8, <2>4, VoiceStays DEF SpeechInv
  <2>6. engine'[e].samples = Given(e)'
    <3>1. Given(e)' = [j \in 1..k |-> <<engine[e].text, j>>]
      BY <1>7, <2>4 DEF Given
    <3>2. engine[e].samples = [j \in 1..k - 1 |-> <<engine[e].text, j>>]
      <4>1. speaking[e].given = k - 1
        BY <1>1
      <4> QED BY <2>2, <4>1 DEF Given
    <3>3. Append([j \in 1..k - 1 |-> <<engine[e].text, j>>], <<engine[e].text, k>>)
            = [j \in 1..k |-> <<engine[e].text, j>>]
      <4>1. k \in Nat \ {0}
        BY <1>2
      <4> HIDE DEF k
      <4> QED BY <4>1
    <3> QED BY <1>3, <2>4, <3>1, <3>2, <3>3
  <2>7. VoiceInv(e)'
    BY <1>2, <1>7, <2>2, <2>4, <2>6 DEF VoiceInv, Synthesising
  <2> QED BY <2>1, <2>5, <2>7
<1> QED BY <1>2, <1>6, <1>8 DEF SpeechInv

LEMMA EndSynthesisKept == ASSUME SpeechInv, NEW e \in Engines, EndSynthesis(e) PROVE SpeechInv'
<1> USE SpeechConstants
<1>1. speaking \in [Engines -> [at : {"idle", "setup", "synth"}, given : 0..SpeechLength]]
  BY DEF SpeechInv, SpeechTypes
<1>2. /\ speaking[e].at = "synth" /\ speaking[e].given = SpeechLength /\ speaking'[e].at = "idle"
      /\ UNCHANGED <<engine, crossed, settings>> /\ sampleBuffer' = "null"
      /\ \A f \in Engines \ {e} : speaking'[f] = speaking[f]
  BY <1>1 DEF EndSynthesis
<1>3. SpeechTypes'
  BY <1>1, <1>2 DEF SpeechInv, SpeechTypes, EndSynthesis
<1>4. ASSUME ~crossed PROVE Alone' /\ \A f \in Engines : VoiceInv(f)'
  <2>1. Alone' /\ \A f \in Engines \ {e} : ~Synthesising(f)
    BY <1>2, <1>4 DEF SpeechInv, Alone, Synthesising
  <2>2. ASSUME NEW f \in Engines \ {e} PROVE VoiceInv(f)'
    <3>1. speaking[f].at # "synth"
      BY <2>1 DEF Synthesising
    <3> QED BY <1>2, <1>4, <3>1, VoiceStays DEF SpeechInv
  <2>3. VoiceInv(e)'
    <3>1. VoiceInv(e)
      BY <1>4 DEF SpeechInv
    <3>2. Given(e) = Speech(engine[e].text)
      BY <1>2 DEF Given, Speech
    <3> QED BY <1>2, <3>1, <3>2 DEF VoiceInv, Synthesising, Speech
  <2> QED BY <2>1, <2>2, <2>3
<1> QED BY <1>2, <1>3, <1>4 DEF SpeechInv

\* As long as no two voices are synthesised at once, espeakCallback() appends each text's samples to its own voice.
THEOREM SpeechInvariant == SpeechSpec => []SpeechInv
<1>1. SpeechInit => SpeechInv
  BY SpeechStarts
<1>2. ASSUME SpeechInv, [SpeechNext]_speechVars PROVE SpeechInv'
  <2>1. ASSUME NEW e \in Engines, NEW text \in Sayings \cup {NoText}, NEW repeat \in BOOLEAN,
               SetVoice(e, text, repeat)
        PROVE  SpeechInv'
    BY <1>2, <2>1, SetVoiceKept
  <2>2. ASSUME NEW e \in Engines, BeginSynthesis(e) \/ PointBuffer(e) \/ SpeechCallback(e) \/ EndSynthesis(e)
        PROVE  SpeechInv'
    BY <1>2, <2>2, BeginSynthesisKept, PointBufferKept, CallbackKept, EndSynthesisKept
  <2>3. ASSUME UNCHANGED speechVars PROVE SpeechInv'
    BY <1>2, <2>3 DEF speechVars, SpeechInv, SpeechTypes, Alone, Synthesising, VoiceInv, Given, Speech
  <2> QED BY <1>2, <2>1, <2>2, <2>3, Zenon DEF SpeechNext
<1> QED BY <1>1, <1>2, PTL DEF SpeechSpec

LEMMA VoicesAreApart == ASSUME SpeechInv PROVE VoicesKeepApart
<1> USE SpeechConstants
<1> SUFFICES ASSUME NEW e \in Engines, ~crossed, ~Synthesising(e), ~engine[e].needs
             PROVE  /\ engine[e].samples = (IF engine[e].text = NoText THEN <<>> ELSE Speech(engine[e].text))
                    /\ \A t \in 0..SpeechTimes :
                         SpokenAt(e, t) = NoSample <=> (engine[e].text = NoText
                                                    \/ (~engine[e].repeat /\ t >= SpeechLength))
  BY Zenon DEF VoicesKeepApart
<1>1. engine[e].samples = (IF engine[e].text = NoText THEN <<>> ELSE Speech(engine[e].text))
  BY DEF SpeechInv, VoiceInv
<1>2. ASSUME NEW t \in 0..SpeechTimes
      PROVE  SpokenAt(e, t) = NoSample <=> (engine[e].text = NoText \/ (~engine[e].repeat /\ t >= SpeechLength))
  <2>1. CASE engine[e].text = NoText
    BY <1>1, <2>1 DEF SpokenAt
  <2>2. CASE engine[e].text # NoText
    <3>1. engine[e].samples = Speech(engine[e].text) /\ Len(Speech(engine[e].text)) = SpeechLength
      BY <1>1, <2>2 DEF Speech
    <3>2. CASE ~engine[e].repeat /\ t >= SpeechLength
      BY <3>1, <3>2 DEF SpokenAt
    <3>3. CASE engine[e].repeat \/ t < SpeechLength
      <4> DEFINE at == IF engine[e].repeat THEN t % SpeechLength ELSE t
      <4>1. at \in 0..SpeechLength - 1
        BY <3>3
      <4>2. SpokenAt(e, t) = Speech(engine[e].text)[at + 1]
        BY <3>1, <3>3 DEF SpokenAt
      <4> HIDE DEF at
      <4>3. Speech(engine[e].text)[at + 1] = <<engine[e].text, at + 1>> /\ at + 1 # 0
        BY <4>1 DEF Speech
      <4>4. \A a, b : \A j \in Nat : <<a, j + 1>> # <<b, 0>>
        OBVIOUS
      <4>5. SpokenAt(e, t) # NoSample
        BY <4>1, <4>2, <4>3, <4>4 DEF NoSample
      <4>6. ~(~engine[e].repeat /\ t >= SpeechLength)
        BY <3>3
      <4> QED BY <2>2, <4>5, <4>6
    <3> QED BY <3>2, <3>3
  <2> QED BY <2>1, <2>2
<1> QED BY <1>1, <1>2

----------------------------------------------------------------------------
(* Baseband: rings.                                                        *)

\* Where a ring of size M with its next place at i keeps the n-th newest, and that it keeps m's values.
Slot(i, n, M) == IF n < i THEN i - 1 - n ELSE i - 1 - n + M
Holds(h, i, m, M) == \A n \in 0..M - 1 : h[Slot(i, n, M)] = m[n]

\* One more sample before those of m.
Newer(m, v, M) == [n \in 0..M - 1 |-> IF n = 0 THEN v ELSE m[n - 1]]

\* The last samples of so many, 0 before the first.
Latest(k, M) == [n \in 0..M - 1 |-> IF k > n THEN k - n ELSE 0]

LEMMA BasebandConstants ==
  /\ DecimBuf \in Nat \ {0} /\ DecimTaps \in Nat \ {0} /\ DecimFactor \in Nat \ {0}
  /\ Taps \in Nat \ {0} /\ Fade \in Nat \ {0} /\ HilbertTaps \in Nat \ {0} /\ DecimTaps <= DecimBuf
BY BasebandAssumption

\* The remainders that the code computes are the places.
LEMMA Slots ==
  ASSUME NEW M \in Nat \ {0}, NEW i \in 0..M - 1, NEW n \in 0..M - 1
  PROVE  /\ (i + 1) % M \in 0..M - 1 /\ Slot(i, n, M) \in 0..M - 1
         /\ (i - 1 - n) % M = Slot(i, n, M)
         /\ (i + M - n) % M = Slot((i + 1) % M, n, M)
         /\ n = 0 => Slot((i + 1) % M, n, M) = i
         /\ n > 0 => (Slot((i + 1) % M, n, M) = Slot(i, n - 1, M) /\ Slot(i, n - 1, M) # i)
<1>1. (i + 1) % M = (IF i = M - 1 THEN 0 ELSE i + 1) /\ (i + 1) % M \in 0..M - 1
  BY ModNext
<1>2. Slot(i, n, M) \in 0..M - 1
  BY DEF Slot
<1>3. (i - 1 - n) % M = Slot(i, n, M)
  <2>1. CASE n < i
    <3>1. i - 1 - n \in 0..M - 1
      BY <2>1
    <3> QED BY <2>1, <3>1, ModSmall DEF Slot
  <2>2. CASE n >= i
    <3> DEFINE r == i - 1 - n + M
    <3>1. r \in 0..M - 1 /\ M * (-1) + r = i - 1 - n /\ -1 \in Int
      BY <2>2
    <3>2. (M * (-1) + r) % M = r
      BY <3>1, ModUnique
    <3>3. Slot(i, n, M) = r
      BY <2>2 DEF Slot
    <3> HIDE DEF r
    <3> QED BY <3>1, <3>2, <3>3
  <2> QED BY <2>1, <2>2
<1>4. (i + M - n) % M = Slot((i + 1) % M, n, M)
  <2>1. CASE n <= i
    <3>1. i - n \in 0..M - 1 /\ M * 1 + (i - n) = i + M - n
      BY <2>1
    <3>2. (M * 1 + (i - n)) % M = i - n
      BY <3>1, ModUnique
    <3>3. Slot((i + 1) % M, n, M) = i - n
      BY <1>1, <2>1 DEF Slot
    <3> QED BY <3>1, <3>2, <3>3
  <2>2. CASE n > i
    <3>1. i + M - n \in 0..M - 1
      BY <2>2
    <3>2. (i + M - n) % M = i + M - n
      BY <3>1, ModSmall
    <3>3. Slot((i + 1) % M, n, M) = i + M - n
      BY <1>1, <2>2 DEF Slot
    <3> QED BY <3>2, <3>3
  <2> QED BY <2>1, <2>2
<1>5. n = 0 => Slot((i + 1) % M, n, M) = i
  BY <1>1 DEF Slot
<1>6. n > 0 => (Slot((i + 1) % M, n, M) = Slot(i, n - 1, M) /\ Slot(i, n - 1, M) # i)
  BY <1>1 DEF Slot
<1> QED BY <1>1, <1>2, <1>3, <1>4, <1>5, <1>6

\* A ring takes a sample: it then holds that and the ones before, and its window shows them in this order.
LEMMA RingTakes ==
  ASSUME NEW M \in Nat \ {0}, NEW i \in 0..M - 1, NEW h, DOMAIN h = 0..M - 1, NEW m, Holds(h, i, m, M), NEW v
  PROVE  /\ (i + 1) % M \in 0..M - 1 /\ DOMAIN [h EXCEPT ![i] = v] = 0..M - 1
         /\ Holds([h EXCEPT ![i] = v], (i + 1) % M, Newer(m, v, M), M)
         /\ Window([h EXCEPT ![i] = v], i, M) = Newer(m, v, M)
<1> DEFINE g == [h EXCEPT ![i] = v]
           k == (i + 1) % M
<1>1. DOMAIN g = 0..M - 1 /\ \A j \in 0..M - 1 : g[j] = IF j = i THEN v ELSE h[j]
  OBVIOUS
<1> HIDE DEF g
<1>2. k \in 0..M - 1
  <2>1. 0 \in 0..M - 1
    OBVIOUS
  <2> QED BY <2>1, Slots
<1> HIDE DEF k
<1>3. ASSUME NEW n \in 0..M - 1 PROVE g[Slot(k, n, M)] = Newer(m, v, M)[n] /\ (i + M - n) % M = Slot(k, n, M)
  <2>1. /\ (i + M - n) % M = Slot(k, n, M)
        /\ n = 0 => Slot(k, n, M) = i
        /\ n > 0 => (Slot(k, n, M) = Slot(i, n - 1, M) /\ Slot(i, n - 1, M) # i)
    BY Slots DEF k
  <2>2. CASE n = 0
    BY <1>1, <2>1, <2>2 DEF Newer
  <2>3. CASE n # 0
    <3>1. n - 1 \in 0..M - 1 /\ n > 0
      BY <2>3
    <3>2. Slot(i, n - 1, M) \in 0..M - 1
      BY <3>1, Slots
    <3>3. g[Slot(k, n, M)] = m[n - 1]
      BY <1>1, <2>1, <3>1, <3>2 DEF Holds
    <3> QED BY <2>1, <2>3, <3>3 DEF Newer
  <2> QED BY <2>1, <2>2, <2>3
<1>4. Holds(g, k, Newer(m, v, M), M)
  BY <1>3 DEF Holds
<1>5. Window(g, i, M) = Newer(m, v, M)
  BY <1>3 DEF Window, Newer
<1> QED BY <1>1, <1>2, <1>4, <1>5 DEF g, k

LEMMA LatestGrows == ASSUME NEW k \in Nat, NEW M \in Nat \ {0} PROVE Newer(Latest(k, M), k + 1, M) = Latest(k + 1, M)
<1>1. ASSUME NEW n \in 0..M - 1
      PROVE  (IF n = 0 THEN k + 1 ELSE Latest(k, M)[n - 1]) = IF k + 1 > n THEN k + 1 - n ELSE 0
  <2>1. CASE n = 0
    BY <2>1
  <2>2. CASE n # 0
    <3>1. n - 1 \in 0..M - 1
      BY <2>2
    <3>2. Latest(k, M)[n - 1] = IF k > n - 1 THEN k - (n - 1) ELSE 0
      BY <3>1 DEF Latest
    <3> QED BY <2>2, <3>2
  <2> QED BY <2>1, <2>2
<1> HIDE DEF Latest
<1>2. Newer(Latest(k, M), k + 1, M) = [n \in 0..M - 1 |-> IF k + 1 > n THEN k + 1 - n ELSE 0]
  BY <1>1 DEF Newer
<1> QED BY <1>2 DEF Latest

----------------------------------------------------------------------------
(* Baseband: windows, coefficients, fades and the carrier.                 *)

Working == work.at \in {"fade", "clear"}
LastOutput == outputs[Len(outputs)]
Done == IF work.at = "idle" THEN work.sample ELSE work.sample - 1

BasebandShape ==
  /\ decim.pos \in 0..DecimBuf - 1 /\ decim.frame \in Nat /\ DOMAIN decim.history = 0..DecimBuf - 1
  /\ DOMAIN filter = {"enabled", "center", "width", "dirty", "coeffs"}
  /\ DOMAIN line = {"history", "index"} /\ line.index \in 0..Taps - 1 /\ DOMAIN line.history = 0..Taps - 1
  /\ DOMAIN old = {"coeffs", "history", "index", "fading", "pos"}
  /\ DOMAIN demod = {"mode", "ready", "from", "history", "index"}
  /\ demod.index \in 0..HilbertTaps - 1 /\ DOMAIN demod.history = 0..HilbertTaps - 1 /\ demod.from \in Nat
  /\ work.at \in {"idle", "design", "filter", "fade", "clear", "demodulate", "mode"}
  /\ work.sample \in Nat /\ (work.at # "idle" => work.sample # 0)
  /\ work.at = "filter" => DOMAIN work = {"at", "sample"}
  /\ work.at = "fade" => /\ DOMAIN work = {"at", "sample", "output"}
                         /\ DOMAIN work.output = {"to", "from", "part", "window", "before"}
  /\ DOMAIN panel = {"at", "todo", "calls"}
  /\ DOMAIN met = 0..Taps - 1 /\ met = [n \in 0..Taps - 1 |-> met[n]]
  /\ Len(outputs) \in 0..2 /\ \E S : outputs \in Seq(S)
  /\ DOMAIN seen = {"crossed", "overtaken", "abrupt", "wild", "stay", "modeCrossed"} /\ seen.stay \in Int

RingsInv ==
  /\ Holds(decim.history, decim.pos, Latest(decim.frame, DecimBuf), DecimBuf)
  /\ IF Working THEN Window(line.history, line.index, Taps) = met
                     /\ Holds(line.history, (line.index + 1) % Taps, met, Taps)
     ELSE Holds(line.history, line.index, met, Taps)
  /\ Holds(demod.history, demod.index, Latest(Done, HilbertTaps), HilbertTaps)

\* A fade's old line lags by the sample that the new one was given first.
OldLine ==
  IF work.at = "fade" THEN \E m : Holds(old.history, old.index, m, Taps) /\ met = Newer(m, work.sample, Taps)
  ELSE Holds(old.history, old.index, met, Taps)

OutputsInv ==
  /\ Working => work.output.window = met
  /\ work.at = "fade" => work.output.part = Fade
  /\ work.at = "clear" /\ ~seen.crossed => (work.output.before = met /\ old.coeffs = None /\ ~old.fading)
  /\ outputs # <<>> /\ ~Working => (LastOutput.window = met /\ (LastOutput.part < Fade /\ ~seen.crossed => LastOutput.before = met))
  /\ old.coeffs # None /\ ~seen.crossed => DOMAIN old.history = 0..Taps - 1
  /\ (old.fading \/ panel.at = "flag") /\ ~seen.crossed =>
       old.coeffs # None /\ old.index \in 0..Taps - 1 /\ OldLine

SettingsInv ==
  /\ filter.width # 0 /\ (filter.coeffs = None => filter.dirty)
  /\ CoefficientsCurrent
  /\ work.at = "design" => (work.design # None /\ (~seen.overtaken => work.design = Settings))
  /\ panel.at \in {"flag", "assign"} => Setting.set \in {"center", "width"}
  /\ panel.at \in {"flag", "assign"} /\ ~seen.crossed => work.at = "idle"
  /\ work.at = "filter" /\ filter.enabled /\ ~seen.crossed => ~filter.dirty
  /\ Working /\ ~seen.crossed => ~filter.dirty
  /\ seen.overtaken => seen.crossed
  /\ seen.wild => seen.crossed

Smooth(a, b) ==
  \A coeffs \in {a.to, a.from, b.to, b.from} : WeightOf(b, coeffs) - WeightOf(a, coeffs) \in -1..1

\* The output before a fade is all of one filter's, or nearly; in a fade it is a step behind.
Settled(coeffs) == LastOutput.to = coeffs /\ LastOutput.part \in {Fade - 1, Fade}
Steps ==
  LastOutput.to = filter.coeffs /\ LastOutput.from = old.coeffs /\ LastOutput.part = old.pos - 1 /\ ~filter.dirty

FadesInv ==
  ~seen.crossed /\ ~seen.abrupt =>
    /\ panel.at = "flag" => ~old.fading
    /\ panel.at = "assign" => old.fading /\ old.pos = 0
    /\ old.fading => old.pos \in 0..Fade - 1
    /\ work.at = "fade" => work.output.to = filter.coeffs /\ work.output.from = filter.coeffs
    /\ work.at = "clear" => /\ ~old.fading /\ work.output.to = filter.coeffs /\ work.output.part = Fade - 1
                            /\ outputs # <<>> => Smooth(LastOutput, work.output)
    /\ outputs # <<>> =>
         /\ work.at # "clear" /\ ~old.fading /\ panel.at # "flag" => Settled(filter.coeffs) /\ ~filter.dirty
         /\ panel.at = "flag" => Settled(old.coeffs)
         /\ old.fading => IF old.pos = 0 THEN Settled(old.coeffs) ELSE Steps
    /\ Len(outputs) = 2 => Smooth(outputs[1], outputs[2])

CarrierInv ==
  ~seen.modeCrossed =>
    /\ seen.stay <= Done
    /\ demod.mode = "AM" /\ demod.ready => demod.from > seen.stay
    /\ demod.mode # "AM" /\ panel.at # "mode" => ~demod.ready
    /\ work.at = "mode" => work.mode = demod.mode

PlayedInv ==
  /\ decim.window # <<>> =>
       \A n \in 0..DecimTaps - 1 : decim.window[n] = IF decim.frame > n THEN decim.frame - n ELSE 0
  /\ played.mode # "none" =>
       /\ \A n \in 0..HilbertTaps - 1 : played.window[n] = IF played.sample > n THEN played.sample - n ELSE 0
       /\ played.delayed = played.window[(HilbertTaps - 1) \div 2]
  /\ CarrierOfThisStay

BasebandInv ==
  BasebandShape /\ RingsInv /\ OutputsInv /\ SettingsInv /\ FadesInv /\ CarrierInv /\ PlayedInv

----------------------------------------------------------------------------
(* What stays while its part of the state does.                            *)

LEMMA MovesSees ==
  ASSUME BasebandShape, Moves
  PROVE  /\ seen'.crossed <=> (seen.crossed \/ Crossing)
         /\ seen'.overtaken = seen.overtaken /\ seen'.abrupt = seen.abrupt /\ seen'.wild = seen.wild
         /\ seen'.stay = seen.stay /\ seen'.modeCrossed = seen.modeCrossed /\ DOMAIN seen' = DOMAIN seen
<1> DEFINE c == seen.crossed \/ Crossing
<1>1. seen' = [seen EXCEPT !.crossed = c]
  BY DEF Moves
<1>2. DOMAIN seen = {"crossed", "overtaken", "abrupt", "wild", "stay", "modeCrossed"}
  BY DEF BasebandShape
<1>3. c \in BOOLEAN
  BY Zenon
<1> HIDE DEF c
<1>4. seen'.crossed = c
  BY <1>1, <1>2
<1>5. seen'.crossed <=> c
  BY <1>3, <1>4
<1>6. /\ seen'.overtaken = seen.overtaken /\ seen'.abrupt = seen.abrupt /\ seen'.wild = seen.wild
      /\ seen'.stay = seen.stay /\ seen'.modeCrossed = seen.modeCrossed /\ DOMAIN seen' = DOMAIN seen
  BY <1>1, <1>2
<1> QED BY <1>5, <1>6 DEF c

\* Flags are not taken back.
Later ==
  /\ seen.crossed => seen'.crossed
  /\ seen.abrupt => seen'.abrupt
  /\ seen.modeCrossed => seen'.modeCrossed

LEMMA OutputsStay ==
  ASSUME OutputsInv, UNCHANGED <<old, met, outputs>>, Later, panel'.at = "flag" => panel.at = "flag",
         work' = work \/ (~Working /\ ~Working')
  PROVE  OutputsInv'
<1>1. /\ Working' <=> Working
      /\ work'.at = "fade" <=> work.at = "fade"
      /\ work'.at = "clear" <=> work.at = "clear"
  BY DEF Working
<1>2. Working => work' = work
  OBVIOUS
<1>3. LastOutput' = LastOutput
  BY DEF LastOutput
<1>4. OldLine => OldLine'
  BY <1>1, <1>2 DEF OldLine, Working, Holds
<1> QED BY <1>1, <1>2, <1>3, <1>4 DEF OutputsInv, Later, Working

LEMMA FadesStay ==
  ASSUME FadesInv, UNCHANGED <<old, outputs>>, filter'.coeffs = filter.coeffs,
         filter'.dirty = filter.dirty, Later,
         panel'.at = "flag" <=> panel.at = "flag", panel'.at = "assign" => panel.at = "assign",
         work' = work \/ (~Working /\ ~Working')
  PROVE  FadesInv'
<1>1. /\ work'.at = "fade" <=> work.at = "fade"
      /\ work'.at = "clear" <=> work.at = "clear"
  BY DEF Working
<1>2. (work'.at = "fade" \/ work'.at = "clear") => work' = work
  BY DEF Working
<1>3. /\ LastOutput' = LastOutput /\ (Steps' <=> Steps)
      /\ \A coeffs : Settled(coeffs)' <=> Settled(coeffs)
      /\ \A a, b : Smooth(a, b)' <=> Smooth(a, b)
  BY DEF LastOutput, Settled, Steps, Smooth, WeightOf
<1> QED BY <1>1, <1>2, <1>3 DEF FadesInv, Later

LEMMA RingsStay ==
  ASSUME RingsInv, UNCHANGED <<decim, line, met>>, demod'.history = demod.history, demod'.index = demod.index,
         Working' <=> Working, Done' = Done
  PROVE  RingsInv'
BY DEF RingsInv, Window, Holds, Latest

LEMMA CarrierStays ==
  ASSUME CarrierInv, demod'.mode = demod.mode, demod'.ready = demod.ready, demod'.from = demod.from,
         seen'.stay = seen.stay, Later, Done' = Done, panel.at = "mode" => panel'.at = "mode",
         work'.at = "mode" => (work.at = "mode" /\ work'.mode = work.mode)
  PROVE  CarrierInv'
BY DEF CarrierInv, Later

LEMMA PlayedStays == ASSUME PlayedInv, UNCHANGED <<decim, played>>, Later PROVE PlayedInv'
BY DEF PlayedInv, CarrierOfThisStay, Later

\* The UI thread's next setting, or the end of its call.
LEMMA RestOfCall == ASSUME BasebandShape PROVE Rest.at \in {"idle", "next"} /\ DOMAIN Rest = DOMAIN panel
BY DEF Rest, BasebandShape

----------------------------------------------------------------------------
(* The DSP thread.                                                         *)

LEMMA TakeFrameKept == ASSUME BasebandInv, TakeFrame PROVE BasebandInv'
<1> USE BasebandConstants
<1>1. BasebandShape /\ RingsInv /\ OutputsInv /\ SettingsInv /\ FadesInv /\ CarrierInv /\ PlayedInv
  BY DEF BasebandInv
<1>2. work.at = "idle" /\ Moves /\ UNCHANGED <<filter, line, old, demod, panel, met, outputs>>
      /\ played'.mode = "none"
  BY DEF TakeFrame
<1> DEFINE full == decim.phase + 1 >= DecimFactor
           history == [decim.history EXCEPT ![decim.pos] = decim.frame + 1]
           pos == (decim.pos + 1) % DecimBuf
<1>3. /\ decim'.history = history /\ decim'.pos = pos /\ decim'.frame = decim.frame + 1
      /\ decim'.window = IF full THEN DecimWindow(history, pos) ELSE <<>>
      /\ work' = IF full THEN CheckDirty(work.sample + 1) ELSE work
  BY DEF TakeFrame
<1>4. /\ seen'.crossed <=> (seen.crossed \/ Crossing)
      /\ seen'.overtaken = seen.overtaken /\ seen'.abrupt = seen.abrupt /\ seen'.wild = seen.wild
      /\ seen'.stay = seen.stay /\ seen'.modeCrossed = seen.modeCrossed /\ DOMAIN seen' = DOMAIN seen
  BY <1>1, <1>2, MovesSees
<1>5. Later
  BY <1>4 DEF Later
<1>6. /\ work'.at \in {"idle", "design", "filter"}
      /\ work'.at = "idle" => work' = work
      /\ work'.at # "idle" => work'.sample = work.sample + 1
      /\ work'.at = "filter" => DOMAIN work' = {"at", "sample"} /\ ~(filter.enabled /\ filter.dirty)
      /\ work'.at = "design" => work'.design = Settings
  BY <1>2, <1>3 DEF CheckDirty
<1>7. work.sample \in Nat /\ decim.frame \in Nat /\ decim.pos \in 0..DecimBuf - 1
      /\ DOMAIN decim.history = 0..DecimBuf - 1
  BY <1>1 DEF BasebandShape
<1>8. Done' = Done /\ ~Working /\ ~Working'
  BY <1>2, <1>6, <1>7 DEF Done, Working
<1>9. /\ pos \in 0..DecimBuf - 1 /\ DOMAIN history = 0..DecimBuf - 1
      /\ Holds(history, pos, Latest(decim.frame + 1, DecimBuf), DecimBuf)
  <2> DEFINE m == Latest(decim.frame, DecimBuf)
             v == decim.frame + 1
  <2>1. Holds(decim.history, decim.pos, m, DecimBuf)
    BY <1>1 DEF RingsInv
  <2>2. Newer(m, v, DecimBuf) = Latest(decim.frame + 1, DecimBuf)
    BY <1>7, LatestGrows
  <2> HIDE DEF m, v
  <2>3. /\ (decim.pos + 1) % DecimBuf \in 0..DecimBuf - 1
        /\ DOMAIN [decim.history EXCEPT ![decim.pos] = v] = 0..DecimBuf - 1
        /\ Holds([decim.history EXCEPT ![decim.pos] = v], (decim.pos + 1) % DecimBuf, Newer(m, v, DecimBuf), DecimBuf)
    BY <1>7, <2>1, RingTakes
  <2> QED BY <2>2, <2>3 DEF v
<1> HIDE DEF history, pos, full
<1>10. BasebandShape'
  <2>1. decim'.pos \in 0..DecimBuf - 1 /\ decim'.frame \in Nat /\ DOMAIN decim'.history = 0..DecimBuf - 1
    BY <1>3, <1>7, <1>9
  <2>2. /\ work'.at \in {"idle", "design", "filter", "fade", "clear", "demodulate", "mode"}
        /\ work'.sample \in Nat /\ (work'.at # "idle" => work'.sample # 0) /\ work'.at # "fade"
        /\ work'.at = "filter" => DOMAIN work' = {"at", "sample"}
    BY <1>6, <1>7
  <2> QED BY <1>1, <1>2, <1>4, <2>1, <2>2 DEF BasebandShape
<1>11. RingsInv'
  BY <1>1, <1>2, <1>3, <1>8, <1>9 DEF RingsInv, Window, Holds, Latest
<1>12. OutputsInv'
  BY <1>1, <1>2, <1>5, <1>8, OutputsStay
<1>13. SettingsInv'
  BY <1>1, <1>2, <1>4, <1>6, <1>8 DEF SettingsInv, CoefficientsCurrent, Settings, Crossing, None, Setting
<1>14. FadesInv'
  BY <1>1, <1>2, <1>5, <1>8, FadesStay
<1>15. CarrierInv'
  BY <1>1, <1>2, <1>4, <1>5, <1>6, <1>8, CarrierStays
<1>16. PlayedInv'
  <2>1. ASSUME decim'.window # <<>>, NEW n \in 0..DecimTaps - 1
        PROVE  decim'.window[n] = IF decim'.frame > n THEN decim'.frame - n ELSE 0
    <3>1. n \in 0..DecimBuf - 1
      OBVIOUS
    <3>2. decim'.window = DecimWindow(history, pos)
      BY <1>3, <2>1
    <3>3. decim'.window[n] = history[(pos - 1 - n) % DecimBuf]
      BY <3>2 DEF DecimWindow
    <3>4. (pos - 1 - n) % DecimBuf = Slot(pos, n, DecimBuf)
      BY <1>9, <3>1, Slots
    <3>5. history[Slot(pos, n, DecimBuf)] = Latest(decim.frame + 1, DecimBuf)[n]
      BY <1>9, <3>1 DEF Holds
    <3> QED BY <1>3, <3>1, <3>3, <3>4, <3>5 DEF Latest
  <2> QED BY <1>2, <2>1 DEF PlayedInv, CarrierOfThisStay
<1> QED BY <1>10, <1>11, <1>12, <1>13, <1>14, <1>15, <1>16 DEF BasebandInv

LEMMA FinishDesignKept == ASSUME BasebandInv, FinishDesign PROVE BasebandInv'
<1> USE BasebandConstants
<1>1. BasebandShape /\ RingsInv /\ OutputsInv /\ SettingsInv /\ FadesInv /\ CarrierInv /\ PlayedInv
  BY DEF BasebandInv
<1>2. /\ work.at = "design" /\ Moves /\ UNCHANGED <<decim, line, old, demod, panel, met, outputs, played>>
      /\ work'.at = "filter" /\ work'.sample = work.sample /\ DOMAIN work' = {"at", "sample"}
  BY DEF FinishDesign
<1>3. /\ filter'.coeffs = work.design /\ filter'.dirty = FALSE /\ filter'.enabled = filter.enabled
      /\ filter'.center = filter.center /\ filter'.width = filter.width /\ DOMAIN filter' = DOMAIN filter
  BY <1>1 DEF FinishDesign, BasebandShape
<1>4. /\ seen'.crossed <=> (seen.crossed \/ Crossing)
      /\ seen'.overtaken = seen.overtaken /\ seen'.abrupt = seen.abrupt /\ seen'.wild = seen.wild
      /\ seen'.stay = seen.stay /\ seen'.modeCrossed = seen.modeCrossed /\ DOMAIN seen' = DOMAIN seen
  BY <1>1, <1>2, MovesSees
<1>5. Later
  BY <1>4 DEF Later
<1>6. Done' = Done /\ ~Working /\ ~Working'
  BY <1>2 DEF Done, Working
<1>7. BasebandShape'
  BY <1>1, <1>2, <1>3, <1>4 DEF BasebandShape
<1>8. RingsInv'
  BY <1>1, <1>2, <1>6, RingsStay
<1>9. OutputsInv'
  BY <1>1, <1>2, <1>5, <1>6, OutputsStay
<1>10. SettingsInv'
  BY <1>1, <1>2, <1>3, <1>4, <1>6 DEF SettingsInv, CoefficientsCurrent, Settings, Crossing, Setting
<1>11. FadesInv'
  <2>1. CASE filter.dirty
    <3> SUFFICES ASSUME ~seen'.crossed, ~seen'.abrupt PROVE FadesInv'
      BY DEF FadesInv
    <3>1. /\ panel.at \notin {"flag", "assign"} /\ (old.fading => old.pos \in 0..Fade - 1)
          /\ outputs # <<>> => (old.fading /\ old.pos = 0 /\ Settled(old.coeffs))
          /\ Len(outputs) = 2 => Smooth(outputs[1], outputs[2])
      BY <1>1, <1>2, <1>4, <2>1 DEF FadesInv, Crossing, Steps
    <3>2. /\ \A coeffs : Settled(coeffs)' <=> Settled(coeffs)
          /\ \A a, b : Smooth(a, b)' <=> Smooth(a, b)
      BY <1>2 DEF LastOutput, Settled, Smooth, WeightOf
    <3> QED BY <1>2, <3>1, <3>2 DEF FadesInv
  <2>2. CASE ~filter.dirty
    <3> SUFFICES ASSUME ~seen'.crossed, ~seen'.abrupt PROVE FadesInv'
      BY DEF FadesInv
    <3>1. filter'.coeffs = filter.coeffs
      BY <1>1, <1>2, <1>3, <1>4, <2>2 DEF SettingsInv, CoefficientsCurrent
    <3>2. LastOutput' = LastOutput /\ (Steps => Steps') /\ (\A coeffs : Settled(coeffs)' <=> Settled(coeffs))
          /\ \A a, b : Smooth(a, b)' <=> Smooth(a, b)
      BY <1>2, <1>3, <3>1 DEF LastOutput, Settled, Steps, Smooth, WeightOf
    <3> QED BY <1>1, <1>2, <1>3, <1>4, <3>1, <3>2 DEF FadesInv
  <2> QED BY <2>1, <2>2
<1>12. CarrierInv'
  BY <1>1, <1>2, <1>4, <1>5, <1>6, CarrierStays
<1>13. PlayedInv'
  BY <1>1, <1>2, <1>5, PlayedStays
<1> QED BY <1>7, <1>8, <1>9, <1>10, <1>11, <1>12, <1>13 DEF BasebandInv

LEMMA FilterKept == ASSUME BasebandInv, Filter PROVE BasebandInv'
<1> USE BasebandConstants
<1>1. BasebandShape /\ RingsInv /\ OutputsInv /\ SettingsInv /\ FadesInv /\ CarrierInv /\ PlayedInv
  BY DEF BasebandInv
<1>2. work.at = "filter" /\ UNCHANGED <<decim, filter, old, demod, panel, outputs, played>> /\ ~Working
  BY DEF Filter, Working
<1>3. /\ seen'.crossed <=> (seen.crossed \/ Crossing)
      /\ seen'.wild <=> (seen.wild \/ (filter.enabled /\ filter.coeffs = None))
      /\ seen'.overtaken = seen.overtaken /\ seen'.abrupt = seen.abrupt
      /\ seen'.stay = seen.stay /\ seen'.modeCrossed = seen.modeCrossed /\ DOMAIN seen' = DOMAIN seen
  <2> DEFINE c == seen.crossed \/ Crossing
             w == seen.wild \/ (filter.enabled /\ filter.coeffs = None)
  <2>1. seen' = [seen EXCEPT !.crossed = c, !.wild = w]
    BY DEF Filter
  <2>2. DOMAIN seen = {"crossed", "overtaken", "abrupt", "wild", "stay", "modeCrossed"}
    BY <1>1 DEF BasebandShape
  <2>3. c \in BOOLEAN /\ w \in BOOLEAN
    BY Zenon
  <2> HIDE DEF c, w
  <2>4. seen'.crossed = c /\ seen'.wild = w
    BY <2>1, <2>2
  <2>5. (seen'.crossed <=> c) /\ (seen'.wild <=> w)
    BY <2>3, <2>4
  <2>6. /\ seen'.overtaken = seen.overtaken /\ seen'.abrupt = seen.abrupt
        /\ seen'.stay = seen.stay /\ seen'.modeCrossed = seen.modeCrossed /\ DOMAIN seen' = DOMAIN seen
    BY <2>1, <2>2
  <2> QED BY <2>5, <2>6 DEF c, w
<1>4. Later
  BY <1>3 DEF Later
<1>5. PlayedInv'
  BY <1>1, <1>2, <1>4, PlayedStays
<1>6. seen'.wild => seen'.crossed
  BY <1>1, <1>2, <1>3 DEF SettingsInv
<1>7. CASE filter.enabled
  <2> DEFINE history == [line.history EXCEPT ![line.index] = work.sample]
  <2>1. /\ line' = [line EXCEPT !.history = history]
        /\ work' = [at |-> "fade", sample |-> work.sample,
                    output |-> [to |-> filter.coeffs, from |-> filter.coeffs, part |-> Fade,
                                window |-> Window(history, line.index, Taps), before |-> <<>>]]
        /\ met' = Newer(met, work.sample, Taps)
    BY <1>7 DEF Filter, Newer
  <2>2. /\ line.index \in 0..Taps - 1 /\ DOMAIN line.history = 0..Taps - 1 /\ Holds(line.history, line.index, met, Taps)
        /\ DOMAIN line = {"history", "index"} /\ work.sample \in Nat \ {0}
    BY <1>1, <1>2 DEF BasebandShape, RingsInv
  <2>3. /\ (line.index + 1) % Taps \in 0..Taps - 1 /\ DOMAIN history = 0..Taps - 1
        /\ Holds(history, (line.index + 1) % Taps, met', Taps)
        /\ Window(history, line.index, Taps) = met'
    BY <2>1, <2>2, RingTakes
  <2> HIDE DEF history
  <2>4. line'.history = history /\ line'.index = line.index /\ DOMAIN line' = DOMAIN line
    BY <2>1, <2>2
  <2>5. /\ work'.at = "fade" /\ work'.sample = work.sample /\ DOMAIN work' = {"at", "sample", "output"}
        /\ DOMAIN work'.output = {"to", "from", "part", "window", "before"}
        /\ work'.output.to = filter.coeffs /\ work'.output.from = filter.coeffs /\ work'.output.part = Fade
        /\ work'.output.window = Window(history, line.index, Taps)
    BY <2>1
  <2>6. Done' = Done /\ Working'
    BY <1>2, <2>5 DEF Done, Working
  <2>7. BasebandShape'
    <3>1. DOMAIN met' = 0..Taps - 1 /\ met' = [n \in 0..Taps - 1 |-> met'[n]]
      BY <2>1 DEF Newer
    <3> QED BY <1>1, <1>2, <1>3, <2>2, <2>3, <2>4, <2>5, <3>1 DEF BasebandShape
  <2>8. RingsInv'
    BY <1>1, <1>2, <2>3, <2>4, <2>6 DEF RingsInv, Holds, Latest, Window
  <2>9. OutputsInv'
    <3>1. ASSUME old.fading \/ panel.at = "flag", ~seen'.crossed
          PROVE  old.coeffs # None /\ old.index \in 0..Taps - 1 /\ OldLine'
      <4>1. old.coeffs # None /\ old.index \in 0..Taps - 1 /\ Holds(old.history, old.index, met, Taps)
        BY <1>1, <1>2, <1>3, <3>1 DEF OutputsInv, OldLine
      <4>2. OldLine'
        BY <1>2, <2>1, <2>5, <4>1 DEF OldLine, Holds, Newer
      <4> QED BY <4>1, <4>2
    <3> QED BY <1>1, <1>2, <1>3, <2>3, <2>5, <2>6, <3>1 DEF OutputsInv
  <2>10. SettingsInv'
    BY <1>1, <1>2, <1>3, <1>6, <1>7, <2>5 DEF SettingsInv, CoefficientsCurrent, Settings, Crossing, Working, Setting
  <2>11. FadesInv'
    <3> SUFFICES ASSUME ~seen'.crossed, ~seen'.abrupt PROVE FadesInv'
      BY DEF FadesInv
    <3>1. /\ LastOutput' = LastOutput /\ (Steps' <=> Steps) /\ (\A coeffs : Settled(coeffs)' <=> Settled(coeffs))
          /\ \A a, b : Smooth(a, b)' <=> Smooth(a, b)
      BY <1>2 DEF LastOutput, Settled, Steps, Smooth, WeightOf
    <3> QED BY <1>1, <1>2, <1>3, <2>5, <3>1 DEF FadesInv
  <2>12. CarrierInv'
    BY <1>1, <1>2, <1>3, <1>4, <2>5, <2>6, CarrierStays
  <2> QED BY <1>5, <2>7, <2>8, <2>9, <2>10, <2>11, <2>12 DEF BasebandInv
<1>8. CASE ~filter.enabled
  <2>1. UNCHANGED <<line, met>> /\ work' = [work EXCEPT !.at = "demodulate"]
    BY <1>8 DEF Filter
  <2>2. work'.at = "demodulate" /\ work'.sample = work.sample
    BY <1>1, <1>2, <2>1 DEF BasebandShape
  <2>3. Done' = Done /\ ~Working'
    BY <1>2, <2>2 DEF Done, Working
  <2>4. BasebandShape'
    BY <1>1, <1>2, <1>3, <2>1, <2>2 DEF BasebandShape
  <2>5. RingsInv'
    BY <1>1, <1>2, <2>1, <2>3, RingsStay
  <2>6. OutputsInv'
    BY <1>1, <1>2, <1>4, <2>1, <2>3, OutputsStay
  <2>7. SettingsInv'
    BY <1>1, <1>2, <1>3, <1>6, <2>2 DEF SettingsInv, CoefficientsCurrent, Settings, Crossing, Working, Setting
  <2>8. FadesInv'
    BY <1>1, <1>2, <1>4, <2>3, FadesStay
  <2>9. CarrierInv'
    BY <1>1, <1>2, <1>3, <1>4, <2>2, <2>3, CarrierStays
  <2> QED BY <1>5, <2>4, <2>5, <2>6, <2>7, <2>8, <2>9 DEF BasebandInv
<1> QED BY <1>7, <1>8

\* An output that leaves the filter is the last one, after the one before it.
LEMMA Left ==
  ASSUME BasebandShape, NEW outcome, Leaves(outcome)
  PROVE  /\ line'.history = line.history /\ line'.index = (line.index + 1) % Taps /\ DOMAIN line' = DOMAIN line
         /\ line'.index \in 0..Taps - 1
         /\ LastOutput' = outcome /\ Len(outputs') \in 1..2 /\ outputs' # <<>> /\ \E S : outputs' \in Seq(S)
         /\ outputs # <<>> => (Len(outputs') = 2 /\ outputs'[1] = LastOutput /\ outputs'[2] = outcome)
         /\ outputs = <<>> => Len(outputs') = 1
         /\ work'.at = "demodulate" /\ work'.sample = work.sample
<1> USE BasebandConstants
<1>1. line.index \in 0..Taps - 1 /\ DOMAIN line = {"history", "index"} /\ Len(outputs) \in 0..2
  BY DEF BasebandShape
<1>2. /\ line'.history = line.history /\ line'.index = (line.index + 1) % Taps /\ DOMAIN line' = DOMAIN line
      /\ work'.at = "demodulate" /\ work'.sample = work.sample
  BY <1>1 DEF Leaves
<1>3. (line.index + 1) % Taps \in 0..Taps - 1
  BY <1>1, ModNext
<1> PICK S : outputs \in Seq(S)
  BY DEF BasebandShape
<1> DEFINE T == S \cup {outcome}
<1>4. outputs \in Seq(T) /\ outcome \in T
  OBVIOUS
<1>5. outputs' = IF Len(outputs) = 2 THEN <<outputs[2], outcome>> ELSE Append(outputs, outcome)
  BY DEF Leaves
<1> HIDE DEF T
<1>6. /\ outputs' \in Seq(T) /\ Len(outputs') \in 1..2 /\ outputs'[Len(outputs')] = outcome
      /\ Len(outputs) > 0 => (Len(outputs') = 2 /\ outputs'[1] = outputs[Len(outputs)] /\ outputs'[2] = outcome)
      /\ Len(outputs) = 0 => Len(outputs') = 1
  <2>1. CASE Len(outputs) = 2
    <3>1. outputs' = <<outputs[2], outcome>>
      BY <1>5, <2>1
    <3>2. outputs[2] \in T
      BY <1>4, <2>1
    <3> QED BY <1>4, <2>1, <3>1, <3>2
  <2>2. CASE Len(outputs) # 2
    <3>1. outputs' = Append(outputs, outcome) /\ (Len(outputs) = 0 \/ Len(outputs) = 1)
      BY <1>1, <1>5, <2>2
    <3> QED BY <1>4, <3>1
  <2> QED BY <2>1, <2>2
<1>7. (outputs # <<>> <=> Len(outputs) > 0) /\ outputs' # <<>>
  BY <1>1, <1>4, <1>6
<1> QED BY <1>1, <1>2, <1>3, <1>6, <1>7 DEF LastOutput

\* From all of a filter, or nearly, to all of it; and one step of a fade.
LEMMA SmoothFromSettled ==
  ASSUME NEW a, NEW b, NEW c, a.to = c, a.part \in {Fade - 1, Fade}, b.from = c,
         (b.part = Fade /\ b.to = c) \/ b.part = 0
  PROVE  Smooth(a, b)
<1> USE BasebandConstants
<1>1. ASSUME NEW coeffs PROVE WeightOf(b, coeffs) - WeightOf(a, coeffs) \in -1..1
  <2>1. WeightOf(b, coeffs) = IF coeffs = c THEN Fade ELSE 0
    BY DEF WeightOf
  <2>2. WeightOf(a, coeffs) = (IF c = coeffs THEN a.part ELSE 0) + (IF a.from = coeffs THEN Fade - a.part ELSE 0)
    BY DEF WeightOf
  <2> QED BY <2>1, <2>2
<1> QED BY <1>1 DEF Smooth

LEMMA SmoothStep ==
  ASSUME NEW a, NEW b, a.to = b.to, a.from = b.from, b.part \in Int, a.part = b.part - 1
  PROVE  Smooth(a, b)
<1> USE BasebandConstants
<1>1. ASSUME NEW coeffs PROVE WeightOf(b, coeffs) - WeightOf(a, coeffs) \in -1..1
  BY DEF WeightOf
<1> QED BY <1>1 DEF Smooth

LEMMA CrossfadeKept == ASSUME BasebandInv, Crossfade PROVE BasebandInv'
<1> USE BasebandConstants
<1>1. BasebandShape /\ RingsInv /\ OutputsInv /\ SettingsInv /\ FadesInv /\ CarrierInv /\ PlayedInv
  BY DEF BasebandInv
<1>2. work.at = "fade" /\ UNCHANGED <<decim, filter, demod, panel, met, played>> /\ Working
  BY DEF Crossfade, Working
<1>3. /\ work.output.window = met /\ work.output.part = Fade /\ line.index \in 0..Taps - 1
      /\ Holds(line.history, (line.index + 1) % Taps, met, Taps) /\ Window(line.history, line.index, Taps) = met
      /\ work.sample \in Nat \ {0}
  BY <1>1, <1>2 DEF OutputsInv, RingsInv, BasebandShape
<1>4. CASE ~old.fading
  <2>1. Leaves(work.output) /\ UNCHANGED old /\ Moves
    BY <1>4 DEF Crossfade
  <2>2. /\ seen'.crossed <=> (seen.crossed \/ Crossing)
        /\ seen'.overtaken = seen.overtaken /\ seen'.abrupt = seen.abrupt /\ seen'.wild = seen.wild
        /\ seen'.stay = seen.stay /\ seen'.modeCrossed = seen.modeCrossed /\ DOMAIN seen' = DOMAIN seen
    BY <1>1, <2>1, MovesSees
  <2>3. /\ line'.history = line.history /\ line'.index = (line.index + 1) % Taps /\ DOMAIN line' = DOMAIN line
        /\ line'.index \in 0..Taps - 1
        /\ LastOutput' = work.output /\ Len(outputs') \in 1..2 /\ outputs' # <<>> /\ \E S : outputs' \in Seq(S)
        /\ outputs # <<>> => (Len(outputs') = 2 /\ outputs'[1] = LastOutput /\ outputs'[2] = work.output)
        /\ outputs = <<>> => Len(outputs') = 1
        /\ work'.at = "demodulate" /\ work'.sample = work.sample
    BY <1>1, <2>1, Left
  <2>4. Later /\ Done' = Done /\ ~Working'
    BY <1>2, <2>2, <2>3 DEF Later, Done, Working
  <2>5. BasebandShape'
    BY <1>1, <1>2, <2>1, <2>2, <2>3 DEF BasebandShape
  <2>6. RingsInv'
    BY <1>1, <1>2, <1>3, <2>3, <2>4 DEF RingsInv, Holds, Latest
  <2>7. OutputsInv'
    <3>1. panel.at = "flag" => seen'.crossed
      BY <2>2 DEF Crossing
    <3>2. ~(Fade < Fade)
      OBVIOUS
    <3> QED BY <1>1, <1>2, <1>3, <1>4, <2>1, <2>2, <2>3, <2>4, <3>1, <3>2 DEF OutputsInv
  <2>8. SettingsInv'
    BY <1>1, <1>2, <2>2, <2>3, <2>4 DEF SettingsInv, CoefficientsCurrent, Settings, Crossing, Setting
  <2>9. FadesInv'
    <3> SUFFICES ASSUME ~seen'.crossed, ~seen'.abrupt PROVE FadesInv'
      BY DEF FadesInv
    <3>1. /\ work.output.to = filter.coeffs /\ work.output.from = filter.coeffs /\ ~filter.dirty
          /\ panel.at \notin {"flag", "assign"} /\ ~seen.crossed /\ ~seen.abrupt
          /\ outputs # <<>> => Settled(filter.coeffs)
      BY <1>1, <1>2, <1>4, <2>2 DEF FadesInv, SettingsInv, Crossing
    <3>2. Settled(filter.coeffs)'
      BY <1>2, <1>3, <2>3, <3>1 DEF Settled
    <3>3. ASSUME outputs # <<>> PROVE Smooth(outputs'[1], outputs'[2])
      <4>1. Smooth(LastOutput, work.output)
        BY <1>3, <3>1, <3>3, SmoothFromSettled DEF Settled
      <4> QED BY <2>3, <3>3, <4>1 DEF Smooth, WeightOf
    <3>4. Len(outputs') = 2 => Smooth(outputs'[1], outputs'[2])
      BY <2>3, <3>3
    <3> QED BY <1>2, <1>4, <2>1, <2>3, <3>1, <3>2, <3>4 DEF FadesInv
  <2>10. CarrierInv'
    BY <1>1, <1>2, <2>2, <2>3, <2>4, CarrierStays
  <2>11. PlayedInv'
    BY <1>1, <1>2, <2>4, PlayedStays
  <2> QED BY <2>5, <2>6, <2>7, <2>8, <2>9, <2>10, <2>11 DEF BasebandInv
<1>5. CASE old.fading
  <2> DEFINE o == OldOutput
             ends == old.pos + 1 >= Fade
             outcome == [work.output EXCEPT !.from = o.from, !.part = old.pos, !.before = o.before]
  <2>1. /\ old' = [coeffs |-> IF ends THEN None ELSE old.coeffs, history |-> o.line, index |-> o.index,
                   fading |-> ~ends, pos |-> old.pos + 1]
        /\ IF ends THEN work' = [work EXCEPT !.at = "clear", !.output = outcome] /\ UNCHANGED <<line, outputs>>
           ELSE Leaves(outcome)
    BY <1>5 DEF Crossfade
  <2>2. /\ seen'.crossed <=> (seen.crossed \/ Crossing)
        /\ seen'.wild <=> (seen.wild \/ (old.coeffs # None /\ old.history = <<>>))
        /\ seen'.overtaken = seen.overtaken /\ seen'.abrupt = seen.abrupt
        /\ seen'.stay = seen.stay /\ seen'.modeCrossed = seen.modeCrossed /\ DOMAIN seen' = DOMAIN seen
    <3> DEFINE c == seen.crossed \/ Crossing
               w == seen.wild \/ (old.coeffs # None /\ old.history = <<>>)
    <3>1. seen' = [seen EXCEPT !.crossed = c, !.wild = w]
      BY <1>5 DEF Crossfade
    <3>2. DOMAIN seen = {"crossed", "overtaken", "abrupt", "wild", "stay", "modeCrossed"}
      BY <1>1 DEF BasebandShape
    <3>3. c \in BOOLEAN /\ w \in BOOLEAN
      BY Zenon
    <3> HIDE DEF c, w
    <3>4. seen'.crossed = c /\ seen'.wild = w
      BY <3>1, <3>2
    <3>5. (seen'.crossed <=> c) /\ (seen'.wild <=> w)
      BY <3>3, <3>4
    <3>6. /\ seen'.overtaken = seen.overtaken /\ seen'.abrupt = seen.abrupt
          /\ seen'.stay = seen.stay /\ seen'.modeCrossed = seen.modeCrossed /\ DOMAIN seen' = DOMAIN seen
      BY <3>1, <3>2
    <3> QED BY <3>5, <3>6 DEF c, w
  <2>3. Later
    BY <2>2 DEF Later
  <2>4. ASSUME ~seen.crossed
        PROVE  /\ old.coeffs # None /\ old.history # <<>> /\ o.from = old.coeffs /\ o.before = met
               /\ DOMAIN o.line = 0..Taps - 1 /\ o.index \in 0..Taps - 1 /\ Holds(o.line, o.index, met, Taps)
    <3>1. old.coeffs # None /\ old.index \in 0..Taps - 1 /\ OldLine /\ DOMAIN old.history = 0..Taps - 1
      BY <1>1, <1>5, <2>4 DEF OutputsInv
    <3>2. PICK m : Holds(old.history, old.index, m, Taps) /\ met = Newer(m, work.sample, Taps)
      BY <1>2, <3>1 DEF OldLine
    <3> DEFINE history == [old.history EXCEPT ![old.index] = work.sample]
    <3>3. /\ (old.index + 1) % Taps \in 0..Taps - 1 /\ DOMAIN history = 0..Taps - 1
          /\ Holds(history, (old.index + 1) % Taps, met, Taps) /\ Window(history, old.index, Taps) = met
      BY <3>1, <3>2, RingTakes
    <3>4. old.history # <<>>
      <4>1. DOMAIN <<>> = {} /\ 0 \in 0..Taps - 1
        OBVIOUS
      <4> QED BY <3>1, <4>1
    <3>5. o = [from |-> old.coeffs, before |-> Window(history, old.index, Taps), line |-> history,
               index |-> (old.index + 1) % Taps]
      BY <3>1, <3>4 DEF OldOutput
    <3> HIDE DEF history
    <3> QED BY <3>1, <3>3, <3>4, <3>5
  <2>5. /\ outcome.to = work.output.to /\ outcome.from = o.from /\ outcome.part = old.pos
        /\ outcome.before = o.before /\ outcome.window = met
    BY <1>1, <1>2, <1>3 DEF BasebandShape
  <2> HIDE DEF o, outcome, ends
  <2>6. /\ old'.coeffs = IF ends THEN None ELSE old.coeffs
        /\ old'.history = o.line /\ old'.index = o.index /\ (old'.fading <=> ~ends) /\ old'.pos = old.pos + 1
        /\ DOMAIN old' = DOMAIN old
    BY <1>1, <2>1 DEF BasebandShape
  <2>7. seen'.wild => seen'.crossed
    BY <1>1, <2>2, <2>4 DEF SettingsInv
  <2>8. PlayedInv'
    BY <1>1, <1>2, <2>3, PlayedStays
  <2>9. panel.at \in {"flag", "assign"} => seen'.crossed
    BY <2>2 DEF Crossing
  <2>10. ASSUME ~seen.crossed, ~seen.abrupt
         PROVE  /\ work.output.to = filter.coeffs /\ ~filter.dirty /\ old.pos \in 0..Fade - 1
                /\ outputs # <<>> => Smooth(LastOutput, outcome)
    <3>1. /\ work.output.to = filter.coeffs /\ ~filter.dirty /\ old.pos \in 0..Fade - 1
          /\ outputs # <<>> => IF old.pos = 0 THEN Settled(old.coeffs) ELSE Steps
      BY <1>1, <1>2, <1>5, <2>10 DEF FadesInv, SettingsInv
    <3>2. outcome.from = old.coeffs
      BY <2>4, <2>5, <2>10
    <3>3. ASSUME outputs # <<>> PROVE Smooth(LastOutput, outcome)
      <4>1. CASE old.pos = 0
        BY <2>5, <3>1, <3>2, <3>3, <4>1, SmoothFromSettled DEF Settled
      <4>2. CASE old.pos # 0
        BY <2>5, <3>1, <3>2, <3>3, <4>2, SmoothStep DEF Steps
      <4> QED BY <4>1, <4>2
    <3> QED BY <3>1, <3>3
  <2>11. CASE ends
    <3>1. work' = [work EXCEPT !.at = "clear", !.output = outcome] /\ UNCHANGED <<line, outputs>>
      BY <2>1, <2>11
    <3>2. work'.at = "clear" /\ work'.output = outcome /\ work'.sample = work.sample
      BY <1>1, <1>2, <3>1 DEF BasebandShape
    <3>3. Done' = Done /\ Working'
      BY <1>2, <3>2 DEF Done, Working
    <3>4. BasebandShape'
      BY <1>1, <1>2, <2>2, <2>6, <3>1, <3>2 DEF BasebandShape
    <3>5. RingsInv'
      BY <1>1, <1>2, <3>1, <3>3, RingsStay
    <3>6. OutputsInv'
      BY <1>1, <1>2, <2>2, <2>4, <2>5, <2>6, <2>9, <2>11, <3>1, <3>2, <3>3 DEF OutputsInv
    <3>7. SettingsInv'
      BY <1>1, <1>2, <2>2, <2>7, <3>2, <3>3 DEF SettingsInv, CoefficientsCurrent, Settings, Crossing, Setting
    <3>8. FadesInv'
      <4> SUFFICES ASSUME ~seen'.crossed, ~seen'.abrupt PROVE FadesInv'
        BY DEF FadesInv
      <4>1. ~seen.crossed /\ ~seen.abrupt /\ panel.at \notin {"flag", "assign"}
        BY <2>2, <2>9
      <4>2. /\ outcome.to = filter.coeffs /\ outcome.part = Fade - 1
            /\ outputs # <<>> => Smooth(LastOutput, outcome)
        BY <2>5, <2>10, <2>11, <4>1 DEF ends
      <4>3. LastOutput' = LastOutput /\ \A a, b : Smooth(a, b)' <=> Smooth(a, b)
        BY <3>1 DEF LastOutput, Smooth, WeightOf
      <4>4. Len(outputs) = 2 => Smooth(outputs[1], outputs[2])
        BY <1>1, <4>1 DEF FadesInv
      <4> QED BY <1>2, <2>6, <2>11, <3>1, <3>2, <4>1, <4>2, <4>3, <4>4 DEF FadesInv
    <3>9. CarrierInv'
      BY <1>1, <1>2, <2>2, <2>3, <3>2, <3>3, CarrierStays
    <3> QED BY <2>8, <3>4, <3>5, <3>6, <3>7, <3>8, <3>9 DEF BasebandInv
  <2>12. CASE ~ends
    <3>1. Leaves(outcome)
      BY <2>1, <2>12
    <3>2. /\ line'.history = line.history /\ line'.index = (line.index + 1) % Taps /\ DOMAIN line' = DOMAIN line
          /\ line'.index \in 0..Taps - 1
          /\ LastOutput' = outcome /\ Len(outputs') \in 1..2 /\ outputs' # <<>> /\ \E S : outputs' \in Seq(S)
          /\ outputs # <<>> => (Len(outputs') = 2 /\ outputs'[1] = LastOutput /\ outputs'[2] = outcome)
          /\ outputs = <<>> => Len(outputs') = 1
          /\ work'.at = "demodulate" /\ work'.sample = work.sample
      BY <1>1, <3>1, Left
    <3>3. Done' = Done /\ ~Working'
      BY <1>2, <3>2 DEF Done, Working
    <3>4. BasebandShape'
      BY <1>1, <1>2, <2>2, <2>6, <3>2 DEF BasebandShape
    <3>5. RingsInv'
      BY <1>1, <1>2, <1>3, <3>2, <3>3 DEF RingsInv, Holds, Latest
    <3>6. OutputsInv'
      <4>1. ~seen'.crossed => (~seen.crossed /\ OldLine' /\ panel.at # "flag")
        BY <1>2, <2>2, <2>4, <2>6, <2>9, <3>2 DEF OldLine, Holds
      <4> QED BY <1>1, <1>2, <2>2, <2>4, <2>5, <2>6, <2>9, <2>12, <3>2, <3>3, <4>1 DEF OutputsInv
    <3>7. SettingsInv'
      BY <1>1, <1>2, <2>2, <2>7, <3>2, <3>3 DEF SettingsInv, CoefficientsCurrent, Settings, Crossing, Setting
    <3>8. FadesInv'
      <4> SUFFICES ASSUME ~seen'.crossed, ~seen'.abrupt PROVE FadesInv'
        BY DEF FadesInv
      <4>1. ~seen.crossed /\ ~seen.abrupt /\ panel.at \notin {"flag", "assign"}
        BY <2>2, <2>9
      <4>2. /\ outcome.to = filter.coeffs /\ outcome.from = old.coeffs /\ outcome.part = old.pos
            /\ ~filter.dirty /\ old.pos \in 0..Fade - 1 /\ old.pos + 1 < Fade
            /\ outputs # <<>> => Smooth(LastOutput, outcome)
        BY <2>4, <2>5, <2>10, <2>12, <4>1 DEF ends
      <4>3. Steps'
        BY <1>2, <2>6, <2>12, <3>2, <4>2 DEF Steps
      <4>4. Len(outputs') = 2 => Smooth(outputs'[1], outputs'[2])
        BY <3>2, <4>2
      <4> QED BY <1>2, <2>6, <2>12, <3>2, <4>1, <4>2, <4>3, <4>4 DEF FadesInv
    <3>9. CarrierInv'
      BY <1>1, <1>2, <2>2, <2>3, <3>2, <3>3, CarrierStays
    <3> QED BY <2>8, <3>4, <3>5, <3>6, <3>7, <3>8, <3>9 DEF BasebandInv
  <2> QED BY <2>11, <2>12
<1> QED BY <1>4, <1>5

LEMMA ClearLineKept == ASSUME BasebandInv, ClearLine PROVE BasebandInv'
<1> USE BasebandConstants
<1>1. BasebandShape /\ RingsInv /\ OutputsInv /\ SettingsInv /\ FadesInv /\ CarrierInv /\ PlayedInv
  BY DEF BasebandInv
<1>2. work.at = "clear" /\ UNCHANGED <<decim, filter, demod, panel, met, played>> /\ Working
      /\ Leaves(work.output) /\ Moves
  BY DEF ClearLine, Working
<1>3. /\ seen'.crossed <=> (seen.crossed \/ Crossing)
      /\ seen'.overtaken = seen.overtaken /\ seen'.abrupt = seen.abrupt /\ seen'.wild = seen.wild
      /\ seen'.stay = seen.stay /\ seen'.modeCrossed = seen.modeCrossed /\ DOMAIN seen' = DOMAIN seen
  BY <1>1, <1>2, MovesSees
<1>4. /\ line'.history = line.history /\ line'.index = (line.index + 1) % Taps /\ DOMAIN line' = DOMAIN line
      /\ line'.index \in 0..Taps - 1
      /\ LastOutput' = work.output /\ Len(outputs') \in 1..2 /\ outputs' # <<>> /\ \E S : outputs' \in Seq(S)
      /\ outputs # <<>> => (Len(outputs') = 2 /\ outputs'[1] = LastOutput /\ outputs'[2] = work.output)
      /\ outputs = <<>> => Len(outputs') = 1
      /\ work'.at = "demodulate" /\ work'.sample = work.sample
  BY <1>1, <1>2, Left
<1>5. /\ old'.coeffs = old.coeffs /\ old'.fading = old.fading /\ old'.index = old.index /\ old'.pos = old.pos
      /\ DOMAIN old' = DOMAIN old
  BY <1>1 DEF ClearLine, BasebandShape
<1>6. Later /\ Done' = Done /\ ~Working'
  BY <1>2, <1>3, <1>4 DEF Later, Done, Working
<1>7. panel.at \in {"flag", "assign"} => seen'.crossed
  BY <1>3 DEF Crossing
<1>8. BasebandShape'
  BY <1>1, <1>2, <1>3, <1>4, <1>5 DEF BasebandShape
<1>9. RingsInv'
  BY <1>1, <1>2, <1>4, <1>6 DEF RingsInv, Holds, Latest
<1>10. OutputsInv'
  BY <1>1, <1>2, <1>3, <1>4, <1>5, <1>6, <1>7 DEF OutputsInv
<1>11. SettingsInv'
  BY <1>1, <1>2, <1>3, <1>4, <1>6, <1>7 DEF SettingsInv, CoefficientsCurrent, Settings, Setting
<1>12. FadesInv'
  <2> SUFFICES ASSUME ~seen'.crossed, ~seen'.abrupt PROVE FadesInv'
    BY DEF FadesInv
  <2>1. /\ ~seen.crossed /\ ~seen.abrupt /\ panel.at \notin {"flag", "assign"} /\ ~filter.dirty
        /\ ~old.fading /\ work.output.to = filter.coeffs /\ work.output.part = Fade - 1
        /\ outputs # <<>> => Smooth(LastOutput, work.output)
    BY <1>1, <1>2, <1>3, <1>7 DEF FadesInv, SettingsInv
  <2>2. Settled(filter.coeffs)'
    BY <1>2, <1>4, <2>1 DEF Settled
  <2>3. Len(outputs') = 2 => Smooth(outputs'[1], outputs'[2])
    BY <1>4, <2>1
  <2> QED BY <1>2, <1>4, <1>5, <2>1, <2>2, <2>3 DEF FadesInv
<1>13. CarrierInv'
  BY <1>1, <1>2, <1>3, <1>4, <1>6, CarrierStays
<1>14. PlayedInv'
  BY <1>1, <1>2, <1>6, PlayedStays
<1> QED BY <1>8, <1>9, <1>10, <1>11, <1>12, <1>13, <1>14 DEF BasebandInv

LEMMA LookAtModeKept == ASSUME BasebandInv, LookAtMode PROVE BasebandInv'
<1> USE BasebandConstants
<1>1. BasebandShape /\ RingsInv /\ OutputsInv /\ SettingsInv /\ FadesInv /\ CarrierInv /\ PlayedInv
  BY DEF BasebandInv
<1>2. /\ work.at = "demodulate" /\ Moves
      /\ UNCHANGED <<decim, filter, line, old, demod, panel, met, outputs, played>>
      /\ work'.at = "mode" /\ work'.sample = work.sample /\ work'.mode = demod.mode
  BY DEF LookAtMode
<1>3. /\ seen'.crossed <=> (seen.crossed \/ Crossing)
      /\ seen'.overtaken = seen.overtaken /\ seen'.abrupt = seen.abrupt /\ seen'.wild = seen.wild
      /\ seen'.stay = seen.stay /\ seen'.modeCrossed = seen.modeCrossed /\ DOMAIN seen' = DOMAIN seen
  BY <1>1, <1>2, MovesSees
<1>4. Later /\ Done' = Done /\ ~Working /\ ~Working'
  BY <1>2, <1>3 DEF Later, Done, Working
<1>5. BasebandShape'
  BY <1>1, <1>2, <1>3 DEF BasebandShape
<1>6. RingsInv'
  BY <1>1, <1>2, <1>4, RingsStay
<1>7. OutputsInv'
  BY <1>1, <1>2, <1>4, OutputsStay
<1>8. SettingsInv'
  BY <1>1, <1>2, <1>3, <1>4 DEF SettingsInv, CoefficientsCurrent, Settings, Crossing, Setting
<1>9. FadesInv'
  BY <1>1, <1>2, <1>4, FadesStay
<1>10. CarrierInv'
  BY <1>1, <1>2, <1>3, <1>4 DEF CarrierInv
<1>11. PlayedInv'
  BY <1>1, <1>2, <1>4, PlayedStays
<1> QED BY <1>5, <1>6, <1>7, <1>8, <1>9, <1>10, <1>11 DEF BasebandInv

LEMMA ProcessSampleKept == ASSUME BasebandInv, ProcessSample PROVE BasebandInv'
<1> USE BasebandConstants
<1>1. BasebandShape /\ RingsInv /\ OutputsInv /\ SettingsInv /\ FadesInv /\ CarrierInv /\ PlayedInv
  BY DEF BasebandInv
<1> DEFINE history == [demod.history EXCEPT ![demod.index] = work.sample]
           am == work.mode = "AM"
           from == IF am /\ ~demod.ready THEN work.sample ELSE demod.from
           ready == demod.ready \/ am
<1>2. /\ work.at = "mode" /\ Moves /\ UNCHANGED <<decim, filter, line, old, panel, met, outputs>>
      /\ work'.at = "idle" /\ work'.sample = work.sample
      /\ demod' = [demod EXCEPT !.history = history, !.index = (@ + 1) % HilbertTaps, !.from = from, !.ready = ready]
      /\ played' = [mode |-> work.mode, window |-> Window(history, demod.index, HilbertTaps),
                    delayed |-> history[DelayedIndex], from |-> from, sample |-> work.sample,
                    stay |-> seen.stay]
  BY DEF ProcessSample
<1>3. /\ seen'.crossed <=> (seen.crossed \/ Crossing)
      /\ seen'.overtaken = seen.overtaken /\ seen'.abrupt = seen.abrupt /\ seen'.wild = seen.wild
      /\ seen'.stay = seen.stay /\ seen'.modeCrossed = seen.modeCrossed /\ DOMAIN seen' = DOMAIN seen
  BY <1>1, <1>2, MovesSees
<1>4. Later /\ Done' = work.sample /\ Done = work.sample - 1 /\ ~Working /\ ~Working' /\ work.sample \in Nat \ {0}
  BY <1>1, <1>2, <1>3 DEF Later, Done, Working, BasebandShape
<1>5. /\ demod.index \in 0..HilbertTaps - 1 /\ DOMAIN demod.history = 0..HilbertTaps - 1 /\ demod.from \in Nat
      /\ DOMAIN demod = {"mode", "ready", "from", "history", "index"}
      /\ Holds(demod.history, demod.index, Latest(Done, HilbertTaps), HilbertTaps)
  BY <1>1 DEF BasebandShape, RingsInv
<1>6. /\ (demod.index + 1) % HilbertTaps \in 0..HilbertTaps - 1 /\ DOMAIN history = 0..HilbertTaps - 1
      /\ Holds(history, (demod.index + 1) % HilbertTaps, Latest(work.sample, HilbertTaps), HilbertTaps)
      /\ Window(history, demod.index, HilbertTaps) = Latest(work.sample, HilbertTaps)
  <2>1. Newer(Latest(Done, HilbertTaps), work.sample, HilbertTaps) = Latest(work.sample, HilbertTaps)
    <3>1. Done \in Nat /\ Done + 1 = work.sample
      BY <1>4
    <3> QED BY <3>1, LatestGrows
  <2> DEFINE m == Latest(Done, HilbertTaps)
             v == work.sample
  <2> HIDE DEF m, v
  <2>2. /\ (demod.index + 1) % HilbertTaps \in 0..HilbertTaps - 1
        /\ DOMAIN [demod.history EXCEPT ![demod.index] = v] = 0..HilbertTaps - 1
        /\ Holds([demod.history EXCEPT ![demod.index] = v], (demod.index + 1) % HilbertTaps,
                 Newer(m, v, HilbertTaps), HilbertTaps)
        /\ Window([demod.history EXCEPT ![demod.index] = v], demod.index, HilbertTaps) = Newer(m, v, HilbertTaps)
    BY <1>5, RingTakes DEF m
  <2> QED BY <2>1, <2>2 DEF m, v
<1> HIDE DEF history, from, ready
<1>7. /\ demod'.mode = demod.mode /\ demod'.history = history /\ demod'.from = from /\ demod'.ready = ready
      /\ demod'.index = (demod.index + 1) % HilbertTaps /\ DOMAIN demod' = DOMAIN demod
  BY <1>2, <1>5
<1>8. from \in Nat
  BY <1>4, <1>5 DEF from
<1>9. BasebandShape'
  BY <1>1, <1>2, <1>3, <1>4, <1>5, <1>6, <1>7, <1>8 DEF BasebandShape
<1>10. RingsInv'
  BY <1>1, <1>2, <1>4, <1>6, <1>7 DEF RingsInv, Holds, Latest, Window
<1>11. OutputsInv'
  BY <1>1, <1>2, <1>4, OutputsStay
<1>12. SettingsInv'
  BY <1>1, <1>2, <1>3, <1>4 DEF SettingsInv, CoefficientsCurrent, Settings, Crossing, Setting
<1>13. FadesInv'
  BY <1>1, <1>2, <1>4, FadesStay
<1>14. ASSUME ~seen.modeCrossed
       PROVE  /\ seen.stay <= work.sample - 1 /\ work.mode = demod.mode
              /\ am => from > seen.stay
              /\ ready <=> (demod.ready \/ am)
              /\ demod.mode # "AM" /\ panel.at # "mode" => ~demod.ready
  <2>1. /\ seen.stay <= work.sample - 1 /\ work.mode = demod.mode
        /\ demod.mode = "AM" /\ demod.ready => demod.from > seen.stay
        /\ demod.mode # "AM" /\ panel.at # "mode" => ~demod.ready
    BY <1>1, <1>2, <1>4, <1>14 DEF CarrierInv
  <2>2. seen.stay \in Int
    BY <1>1 DEF BasebandShape
  <2>3. am => from > seen.stay
    BY <1>4, <2>1, <2>2 DEF from
  <2>4. ready <=> (demod.ready \/ am)
    BY Zenon DEF ready
  <2> QED BY <2>1, <2>3, <2>4
<1>15. CarrierInv'
  <2> SUFFICES ASSUME ~seen'.modeCrossed PROVE CarrierInv'
    BY DEF CarrierInv
  <2>1. seen.stay \in Int
    BY <1>1 DEF BasebandShape
  <2> QED BY <1>2, <1>3, <1>4, <1>7, <1>14, <2>1 DEF CarrierInv
<1>16. PlayedInv'
  <2>1. \A n \in 0..HilbertTaps - 1 :
          played'.window[n] = IF played'.sample > n THEN played'.sample - n ELSE 0
    BY <1>2, <1>6 DEF Latest
  <2>2. (HilbertTaps - 1) \div 2 \in 0..HilbertTaps - 1
    OBVIOUS
  <2>3. played'.delayed = played'.window[(HilbertTaps - 1) \div 2]
    BY <1>2, <2>2 DEF DelayedIndex, Window
  <2>4. played'.mode = "AM" /\ ~seen'.modeCrossed => played'.from > played'.stay
    BY <1>2, <1>3, <1>14
  <2> QED BY <1>1, <1>2, <2>1, <2>3, <2>4 DEF PlayedInv, CarrierOfThisStay
<1> QED BY <1>9, <1>10, <1>11, <1>12, <1>13, <1>15, <1>16 DEF BasebandInv

----------------------------------------------------------------------------
(* The UI thread.                                                          *)

LEMMA BeginKept == ASSUME BasebandInv, NEW call, Begin(call) PROVE BasebandInv'
<1>1. BasebandShape /\ RingsInv /\ OutputsInv /\ SettingsInv /\ FadesInv /\ CarrierInv /\ PlayedInv
  BY DEF BasebandInv
<1>2. /\ panel.at = "idle" /\ panel'.at = "next" /\ DOMAIN panel' = {"at", "todo", "calls"}
      /\ UNCHANGED <<decim, filter, line, old, demod, work, met, outputs, played, seen>>
  BY DEF Begin
<1>3. Later /\ Done' = Done /\ (Working' <=> Working)
  BY <1>2 DEF Later, Done, Working
<1>4. BasebandShape'
  BY <1>1, <1>2 DEF BasebandShape
<1>5. RingsInv'
  BY <1>1, <1>2, <1>3, RingsStay
<1>6. OutputsInv'
  BY <1>1, <1>2, <1>3, OutputsStay
<1>7. SettingsInv'
  BY <1>1, <1>2, <1>3 DEF SettingsInv, CoefficientsCurrent, Settings
<1>8. FadesInv'
  BY <1>1, <1>2, <1>3, FadesStay
<1>9. CarrierInv'
  BY <1>1, <1>2, <1>3, CarrierStays
<1>10. PlayedInv'
  BY <1>1, <1>2, <1>3, PlayedStays
<1> QED BY <1>4, <1>5, <1>6, <1>7, <1>8, <1>9, <1>10 DEF BasebandInv

LEMMA SetModeKept == ASSUME BasebandInv, SetMode \/ ForgetCarrier PROVE BasebandInv'
<1>1. BasebandShape /\ RingsInv /\ OutputsInv /\ SettingsInv /\ FadesInv /\ CarrierInv /\ PlayedInv
  BY DEF BasebandInv
<1>2. /\ panel.at \in {"next", "mode"} /\ UNCHANGED <<decim, filter, line, old, work, met, outputs, played>>
      /\ panel.at = "mode" => panel'.at \in {"idle", "next"}
      /\ panel'.at \in {"idle", "next", "mode"} /\ DOMAIN panel' = DOMAIN panel
  <2>1. panel' = Rest \/ panel' = [panel EXCEPT !.at = "mode"]
    BY DEF SetMode, ForgetCarrier, Turns
  <2>2. ForgetCarrier => panel' = Rest
    BY DEF ForgetCarrier
  <2>3. panel.at \in {"next", "mode"} /\ UNCHANGED <<decim, filter, line, old, work, met, outputs, played>>
        /\ (panel.at = "mode" => ForgetCarrier)
    BY DEF SetMode, ForgetCarrier
  <2> QED BY <1>1, <2>1, <2>2, <2>3, RestOfCall DEF BasebandShape
<1>3. /\ demod'.history = demod.history /\ demod'.index = demod.index /\ demod'.from = demod.from
      /\ DOMAIN demod' = DOMAIN demod
  BY <1>1 DEF SetMode, ForgetCarrier, BasebandShape
<1>4. /\ seen'.crossed = seen.crossed /\ seen'.overtaken = seen.overtaken /\ seen'.abrupt = seen.abrupt
      /\ seen'.wild = seen.wild /\ DOMAIN seen' = DOMAIN seen /\ seen'.stay \in Int
      /\ seen.modeCrossed => seen'.modeCrossed
  <2>1. \/ seen' = seen
        \/ /\ seen' = [seen EXCEPT !.stay = IF work.at \in {"idle", "mode"} THEN work.sample
                                           ELSE work.sample - 1,
                                  !.modeCrossed = @ \/ work.at = "mode"]
        \/ seen' = [seen EXCEPT !.modeCrossed = @ \/ work.at = "mode"]
    BY DEF SetMode, ForgetCarrier
  <2> DEFINE m == seen.modeCrossed \/ work.at = "mode"
  <2>2. m \in BOOLEAN
    BY Zenon
  <2>3. seen.modeCrossed => m
    OBVIOUS
  <2> HIDE DEF m
  <2>4. \/ seen' = seen
        \/ /\ seen' = [seen EXCEPT !.stay = IF work.at \in {"idle", "mode"} THEN work.sample
                                           ELSE work.sample - 1, !.modeCrossed = m]
        \/ seen' = [seen EXCEPT !.modeCrossed = m]
    BY <2>1 DEF m
  <2>5. /\ DOMAIN seen = {"crossed", "overtaken", "abrupt", "wild", "stay", "modeCrossed"} /\ seen.stay \in Int
        /\ work.sample \in Nat
    BY <1>1 DEF BasebandShape
  <2> DEFINE stay == IF work.at \in {"idle", "mode"} THEN work.sample ELSE work.sample - 1
  <2>6. stay \in Int
    BY <2>5
  <2> HIDE DEF stay
  <2>7. CASE seen' = seen
    BY <2>5, <2>7
  <2>8. CASE seen' = [seen EXCEPT !.modeCrossed = m]
    <3>1. seen'.modeCrossed = m
      BY <2>5, <2>8
    <3> QED BY <2>3, <2>5, <2>8, <3>1
  <2>9. CASE seen' = [seen EXCEPT !.stay = stay, !.modeCrossed = m]
    <3>1. seen'.modeCrossed = m /\ seen'.stay = stay
      BY <2>5, <2>9
    <3> QED BY <2>3, <2>5, <2>6, <2>9, <3>1
  <2> QED BY <2>4, <2>7, <2>8, <2>9 DEF stay
<1>5. Later /\ Done' = Done /\ (Working' <=> Working)
  BY <1>2, <1>4 DEF Later, Done, Working
<1>6. BasebandShape'
  BY <1>1, <1>2, <1>3, <1>4 DEF BasebandShape
<1>7. RingsInv'
  BY <1>1, <1>2, <1>3, <1>5, RingsStay
<1>8. OutputsInv'
  BY <1>1, <1>2, <1>5, OutputsStay
<1>9. SettingsInv'
  BY <1>1, <1>2, <1>4, <1>5 DEF SettingsInv, CoefficientsCurrent, Settings
<1>10. FadesInv'
  BY <1>1, <1>2, <1>5, FadesStay
<1>11. CarrierInv'
  <2> SUFFICES ASSUME ~seen'.modeCrossed PROVE CarrierInv'
    BY DEF CarrierInv
  <2>1. DOMAIN seen = {"crossed", "overtaken", "abrupt", "wild", "stay", "modeCrossed"}
        /\ DOMAIN demod = {"mode", "ready", "from", "history", "index"}
        /\ DOMAIN panel = {"at", "todo", "calls"} /\ work.sample \in Nat
    BY <1>1 DEF BasebandShape
  <2>2. ~seen.modeCrossed
    BY <1>4
  <2>3. /\ seen.stay <= Done
        /\ demod.mode = "AM" /\ demod.ready => demod.from > seen.stay
        /\ demod.mode # "AM" /\ panel.at # "mode" => ~demod.ready
        /\ work.at = "mode" => work.mode = demod.mode
    BY <1>1, <2>2 DEF CarrierInv
  <2>4. CASE SetMode /\ demod.mode = Setting.to
    <3>1. UNCHANGED <<demod, seen>> /\ panel'.at \in {"idle", "next"} /\ panel.at = "next"
      BY <1>1, <2>4, RestOfCall DEF SetMode
    <3> QED BY <1>2, <1>5, <2>3, <3>1 DEF CarrierInv
  <2>5. CASE SetMode /\ demod.mode # Setting.to
    <3>1. /\ demod'.mode = Setting.to /\ demod'.ready = demod.ready /\ panel'.at = "mode" /\ panel.at = "next"
          /\ seen' = [seen EXCEPT !.stay = IF work.at \in {"idle", "mode"} THEN work.sample ELSE work.sample - 1,
                                  !.modeCrossed = @ \/ work.at = "mode"]
      BY <2>1, <2>5 DEF SetMode, Turns
    <3>2. work.at # "mode"
      <4> DEFINE m == seen.modeCrossed \/ work.at = "mode"
      <4>1. work.at = "mode" => m
        OBVIOUS
      <4>2. m \in BOOLEAN
        BY Zenon
      <4> HIDE DEF m
      <4>3. seen' = [seen EXCEPT !.stay = IF work.at \in {"idle", "mode"} THEN work.sample ELSE work.sample - 1,
                                 !.modeCrossed = m]
        BY <3>1 DEF m
      <4>4. seen'.modeCrossed = m
        BY <2>1, <4>3
      <4> QED BY <4>1, <4>2, <4>4
    <3>3. seen'.stay = Done
      BY <2>1, <3>1, <3>2 DEF Done
    <3>4. Done \in Int
      BY <2>1 DEF Done
    <3>5. demod'.mode = "AM" => ~demod.ready
      BY <2>3, <2>5, <3>1
    <3> QED BY <1>2, <1>3, <1>5, <3>1, <3>2, <3>3, <3>4, <3>5 DEF CarrierInv
  <2>6. CASE ForgetCarrier
    <3>1. demod'.mode = demod.mode /\ demod'.ready = FALSE /\ seen'.stay = seen.stay
      BY <2>1, <2>6 DEF ForgetCarrier
    <3> QED BY <1>2, <1>3, <1>5, <2>3, <3>1 DEF CarrierInv
  <2> QED BY <2>4, <2>5, <2>6
<1>12. PlayedInv'
  BY <1>1, <1>2, <1>5, PlayedStays
<1> QED BY <1>6, <1>7, <1>8, <1>9, <1>10, <1>11, <1>12 DEF BasebandInv

LEMMA BeginChangeKept == ASSUME BasebandInv, BeginChange PROVE BasebandInv'
<1> USE BasebandConstants
<1>1. BasebandShape /\ RingsInv /\ OutputsInv /\ SettingsInv /\ FadesInv /\ CarrierInv /\ PlayedInv
  BY DEF BasebandInv
<1>2. /\ panel.at = "next" /\ Setting.set \in {"center", "width"}
      /\ UNCHANGED <<decim, filter, line, demod, work, met, outputs, played>>
  BY DEF BeginChange
<1>3. CASE filter[Setting.set] = Setting.to
  <2>1. panel' = Rest /\ UNCHANGED <<old, seen>>
    BY <1>3 DEF BeginChange
  <2>2. panel'.at \in {"idle", "next"} /\ DOMAIN panel' = DOMAIN panel
    BY <1>1, <2>1, RestOfCall
  <2>3. Later /\ Done' = Done /\ (Working' <=> Working)
    BY <1>2, <2>1 DEF Later, Done, Working
  <2>4. BasebandShape'
    BY <1>1, <1>2, <2>1, <2>2 DEF BasebandShape
  <2>5. RingsInv'
    BY <1>1, <1>2, <2>3, RingsStay
  <2>6. OutputsInv'
    BY <1>1, <1>2, <2>1, <2>2, <2>3, OutputsStay
  <2>7. SettingsInv'
    BY <1>1, <1>2, <2>1, <2>2, <2>3 DEF SettingsInv, CoefficientsCurrent, Settings
  <2>8. FadesInv'
    BY <1>1, <1>2, <2>1, <2>2, <2>3, FadesStay
  <2>9. CarrierInv'
    BY <1>1, <1>2, <2>1, <2>2, <2>3, CarrierStays
  <2>10. PlayedInv'
    BY <1>1, <1>2, <2>3, PlayedStays
  <2> QED BY <2>4, <2>5, <2>6, <2>7, <2>8, <2>9, <2>10 DEF BasebandInv
<1>4. CASE filter[Setting.set] # Setting.to
  <2> DEFINE fades == filter.enabled /\ filter.coeffs # None
  <2>1. /\ old' = IF fades THEN [old EXCEPT !.coeffs = filter.coeffs, !.history = line.history, !.index = line.index]
                  ELSE old
        /\ panel' = [panel EXCEPT !.at = IF fades THEN "flag" ELSE "assign"]
    BY <1>4 DEF BeginChange, Turns
  <2>2. /\ seen'.crossed <=> (seen.crossed \/ work.at # "idle")
        /\ seen'.abrupt <=> (seen.abrupt \/ old.fading \/ ~fades)
        /\ seen'.overtaken = seen.overtaken /\ seen'.wild = seen.wild
        /\ seen'.stay = seen.stay /\ seen'.modeCrossed = seen.modeCrossed /\ DOMAIN seen' = DOMAIN seen
    <3> DEFINE c == seen.crossed \/ work.at # "idle"
               a == seen.abrupt \/ old.fading \/ ~fades
    <3>1. seen' = [seen EXCEPT !.crossed = c, !.abrupt = a]
      BY <1>4 DEF BeginChange
    <3>2. DOMAIN seen = {"crossed", "overtaken", "abrupt", "wild", "stay", "modeCrossed"}
      BY <1>1 DEF BasebandShape
    <3>3. c \in BOOLEAN /\ a \in BOOLEAN
      BY Zenon
    <3> HIDE DEF c, a
    <3>4. seen'.crossed = c /\ seen'.abrupt = a
      BY <3>1, <3>2
    <3>5. (seen'.crossed <=> c) /\ (seen'.abrupt <=> a)
      BY <3>3, <3>4
    <3>6. /\ seen'.overtaken = seen.overtaken /\ seen'.wild = seen.wild
          /\ seen'.stay = seen.stay /\ seen'.modeCrossed = seen.modeCrossed /\ DOMAIN seen' = DOMAIN seen
      BY <3>1, <3>2
    <3> QED BY <3>5, <3>6 DEF c, a
  <2>3. /\ panel'.at = (IF fades THEN "flag" ELSE "assign") /\ DOMAIN panel' = DOMAIN panel
        /\ panel'.todo = panel.todo /\ DOMAIN old' = DOMAIN old /\ old'.fading = old.fading /\ old'.pos = old.pos
        /\ fades => old'.coeffs = filter.coeffs /\ old'.history = line.history /\ old'.index = line.index
        /\ ~fades => old' = old
    BY <1>1, <2>1 DEF BasebandShape
  <2>4. Setting' = Setting
    BY <2>3 DEF Setting
  <2>5. Later /\ Done' = Done /\ (Working' <=> Working)
    BY <1>2, <2>2 DEF Later, Done, Working
  <2>6. BasebandShape'
    BY <1>1, <1>2, <2>2, <2>3 DEF BasebandShape
  <2>7. RingsInv'
    BY <1>1, <1>2, <2>5, RingsStay
  <2>8. LastOutput' = LastOutput /\ (Working => work.at # "idle")
    BY <1>2 DEF LastOutput, Working
  <2> HIDE DEF fades
  <2>9. CASE fades
    <3>1. OutputsInv'
      <4>1. ~seen'.crossed => /\ work.at = "idle" /\ ~Working /\ Holds(line.history, line.index, met, Taps)
                              /\ line.index \in 0..Taps - 1 /\ DOMAIN line.history = 0..Taps - 1
        BY <1>1, <2>2, <2>8 DEF RingsInv, BasebandShape
      <4>2. filter.coeffs # None
        BY <2>9 DEF fades
      <4>3. ~seen'.crossed => OldLine'
        BY <1>2, <2>3, <2>9, <4>1 DEF OldLine, Holds
      <4> QED BY <1>1, <1>2, <2>2, <2>3, <2>5, <2>8, <2>9, <4>1, <4>2, <4>3 DEF OutputsInv, Working
    <3>2. SettingsInv'
      <4>1. ~seen'.crossed => work.at = "idle"
        BY <2>2
      <4> QED BY <1>1, <1>2, <2>2, <2>3, <2>4, <2>5, <4>1 DEF SettingsInv, CoefficientsCurrent, Settings, Working
    <3>3. FadesInv'
      <4> SUFFICES ASSUME ~seen'.crossed, ~seen'.abrupt PROVE FadesInv'
        BY DEF FadesInv
      <4>1. /\ ~seen.crossed /\ ~seen.abrupt /\ ~old.fading /\ work.at = "idle"
            /\ outputs # <<>> => Settled(filter.coeffs)
            /\ Len(outputs) = 2 => Smooth(outputs[1], outputs[2])
        BY <1>1, <1>2, <2>2 DEF FadesInv
      <4>2. /\ \A coeffs : Settled(coeffs)' <=> Settled(coeffs)
            /\ \A a, b : Smooth(a, b)' <=> Smooth(a, b)
        BY <1>2 DEF LastOutput, Settled, Smooth, WeightOf
      <4>3. outputs # <<>> => Settled(old'.coeffs)
        BY <2>3, <2>9, <4>1
      <4>4. outputs # <<>> => Settled(old.coeffs)'
        BY <4>3, <1>2 DEF Settled, LastOutput
      <4> QED BY <1>2, <2>3, <2>9, <4>1, <4>2, <4>4 DEF FadesInv
    <3>4. CarrierInv'
      BY <1>1, <1>2, <2>2, <2>5, CarrierStays
    <3>5. PlayedInv'
      BY <1>1, <1>2, <2>5, PlayedStays
    <3> QED BY <2>6, <2>7, <3>1, <3>2, <3>3, <3>4, <3>5 DEF BasebandInv
  <2>10. CASE ~fades
    <3>1. OutputsInv'
      BY <1>1, <1>2, <2>3, <2>5, <2>10, OutputsStay
    <3>2. SettingsInv'
      <4>1. ~seen'.crossed => work.at = "idle"
        BY <2>2
      <4> QED BY <1>1, <1>2, <2>2, <2>3, <2>4, <2>5, <4>1 DEF SettingsInv, CoefficientsCurrent, Settings, Working
    <3>3. FadesInv'
      BY <2>2, <2>10 DEF FadesInv
    <3>4. CarrierInv'
      BY <1>1, <1>2, <2>2, <2>5, CarrierStays
    <3>5. PlayedInv'
      BY <1>1, <1>2, <2>5, PlayedStays
    <3> QED BY <2>6, <2>7, <3>1, <3>2, <3>3, <3>4, <3>5 DEF BasebandInv
  <2> QED BY <2>9, <2>10
<1> QED BY <1>3, <1>4

LEMMA StartFadeKept == ASSUME BasebandInv, StartFade PROVE BasebandInv'
<1> USE BasebandConstants
<1>1. BasebandShape /\ RingsInv /\ OutputsInv /\ SettingsInv /\ FadesInv /\ CarrierInv /\ PlayedInv
  BY DEF BasebandInv
<1>2. /\ panel.at = "flag" /\ panel'.at = "assign" /\ panel'.todo = panel.todo /\ DOMAIN panel' = DOMAIN panel
      /\ UNCHANGED <<decim, filter, line, demod, work, met, outputs, played, seen>>
  BY <1>1 DEF StartFade, Turns, BasebandShape
<1>3. /\ old'.coeffs = old.coeffs /\ old'.history = old.history /\ old'.index = old.index
      /\ old'.fading = TRUE /\ old'.pos = 0 /\ DOMAIN old' = DOMAIN old
  BY <1>1 DEF StartFade, BasebandShape
<1>4. Later /\ Done' = Done /\ (Working' <=> Working) /\ Setting' = Setting
  BY <1>2 DEF Later, Done, Working, Setting
<1>5. ~seen.crossed => work.at = "idle" /\ ~Working
  BY <1>1, <1>2 DEF SettingsInv, Working
<1>6. BasebandShape'
  BY <1>1, <1>2, <1>3 DEF BasebandShape
<1>7. RingsInv'
  BY <1>1, <1>2, <1>4, RingsStay
<1>8. OutputsInv'
  <2>1. OldLine => OldLine'
    BY <1>2, <1>3 DEF OldLine, Holds, Newer
  <2>2. LastOutput' = LastOutput
    BY <1>2 DEF LastOutput
  <2> QED BY <1>1, <1>2, <1>3, <1>4, <1>5, <2>1, <2>2 DEF OutputsInv
<1>9. SettingsInv'
  BY <1>1, <1>2, <1>4 DEF SettingsInv, CoefficientsCurrent, Settings
<1>10. FadesInv'
  <2> SUFFICES ASSUME ~seen'.crossed, ~seen'.abrupt PROVE FadesInv'
    BY DEF FadesInv
  <2>1. /\ work.at = "idle"
        /\ outputs # <<>> => Settled(old.coeffs)
        /\ Len(outputs) = 2 => Smooth(outputs[1], outputs[2])
    BY <1>1, <1>2, <1>5 DEF FadesInv
  <2>2. (Settled(old.coeffs)' <=> Settled(old.coeffs)) /\ \A a, b : Smooth(a, b)' <=> Smooth(a, b)
    BY <1>2, <1>3 DEF LastOutput, Settled, Smooth, WeightOf
  <2>3. UNCHANGED <<work, outputs>> /\ old'.fading = TRUE /\ old'.pos = 0 /\ panel'.at = "assign"
    BY <1>2, <1>3
  <2>4. outputs # <<>> => Settled(old.coeffs)'
    BY <2>1, <2>2
  <2>5. old'.pos \in 0..Fade - 1
    BY <2>3
  <2>6. Len(outputs') = 2 => Smooth(outputs[1], outputs[2])'
    BY <2>1, <2>2, <2>3
  <2> QED BY <2>1, <2>3, <2>4, <2>5, <2>6 DEF FadesInv
<1>11. CarrierInv'
  BY <1>1, <1>2, <1>4, CarrierStays
<1>12. PlayedInv'
  BY <1>1, <1>2, <1>4, PlayedStays
<1> QED BY <1>6, <1>7, <1>8, <1>9, <1>10, <1>11, <1>12 DEF BasebandInv

LEMMA AssignKept == ASSUME BasebandInv, Assign PROVE BasebandInv'
<1> USE BasebandConstants
<1>1. BasebandShape /\ RingsInv /\ OutputsInv /\ SettingsInv /\ FadesInv /\ CarrierInv /\ PlayedInv
  BY DEF BasebandInv
<1>2. /\ panel.at = "assign" /\ panel' = Rest
      /\ UNCHANGED <<decim, line, old, demod, work, met, outputs, played>>
      /\ filter' = [filter EXCEPT ![Setting.set] = Kept(Setting.set, Setting.to), !.dirty = TRUE]
  BY DEF Assign
<1>3. panel'.at \in {"idle", "next"} /\ DOMAIN panel' = DOMAIN panel
  BY <1>1, <1>2, RestOfCall
<1>4. /\ DOMAIN filter' = DOMAIN filter /\ filter'.enabled = filter.enabled /\ filter'.coeffs = filter.coeffs
      /\ filter'.dirty = TRUE /\ filter'.width # 0
  <2>1. Setting.set \in {"center", "width"} /\ filter.width # 0
        /\ DOMAIN filter = {"enabled", "center", "width", "dirty", "coeffs"}
    BY <1>1, <1>2 DEF SettingsInv, BasebandShape
  <2>2. CASE Setting.set = "center"
    <3>1. filter' = [filter EXCEPT !.center = Kept(Setting.set, Setting.to), !.dirty = TRUE]
      BY <1>2, <2>2
    <3> QED BY <2>1, <3>1
  <2>3. CASE Setting.set = "width"
    <3>1. filter' = [filter EXCEPT !.width = Kept(Setting.set, Setting.to), !.dirty = TRUE]
      BY <1>2, <2>3
    <3>2. Kept(Setting.set, Setting.to) # 0
      BY <2>3 DEF Kept
    <3>3. filter'.width = Kept(Setting.set, Setting.to)
      BY <2>1, <3>1
    <3> QED BY <2>1, <3>1, <3>2, <3>3
  <2> QED BY <2>1, <2>2, <2>3
<1>5. /\ seen'.overtaken <=> (seen.overtaken \/ work.at = "design")
      /\ seen'.crossed = seen.crossed /\ seen'.abrupt = seen.abrupt /\ seen'.wild = seen.wild
      /\ seen'.stay = seen.stay /\ seen'.modeCrossed = seen.modeCrossed /\ DOMAIN seen' = DOMAIN seen
  <2> DEFINE o == seen.overtaken \/ work.at = "design"
  <2>1. seen' = [seen EXCEPT !.overtaken = o]
    BY DEF Assign
  <2>2. DOMAIN seen = {"crossed", "overtaken", "abrupt", "wild", "stay", "modeCrossed"}
    BY <1>1 DEF BasebandShape
  <2>3. o \in BOOLEAN
    BY Zenon
  <2> HIDE DEF o
  <2>4. seen'.overtaken = o
    BY <2>1, <2>2
  <2>5. seen'.overtaken <=> o
    BY <2>3, <2>4
  <2>6. /\ seen'.crossed = seen.crossed /\ seen'.abrupt = seen.abrupt /\ seen'.wild = seen.wild
        /\ seen'.stay = seen.stay /\ seen'.modeCrossed = seen.modeCrossed /\ DOMAIN seen' = DOMAIN seen
    BY <2>1, <2>2
  <2> QED BY <2>5, <2>6 DEF o
<1>6. Later /\ Done' = Done /\ (Working' <=> Working)
  BY <1>2, <1>5 DEF Later, Done, Working
<1>7. ~seen.crossed => work.at = "idle" /\ ~Working
  BY <1>1, <1>2 DEF SettingsInv, Working
<1>8. BasebandShape'
  BY <1>1, <1>2, <1>3, <1>4, <1>5 DEF BasebandShape
<1>9. RingsInv'
  BY <1>1, <1>2, <1>6, RingsStay
<1>10. OutputsInv'
  BY <1>1, <1>2, <1>3, <1>6, OutputsStay
<1>11. SettingsInv'
  BY <1>1, <1>2, <1>3, <1>4, <1>5, <1>6, <1>7 DEF SettingsInv, CoefficientsCurrent
<1>12. FadesInv'
  <2> SUFFICES ASSUME ~seen'.crossed, ~seen'.abrupt PROVE FadesInv'
    BY DEF FadesInv
  <2>1. /\ work.at = "idle" /\ old.fading /\ old.pos = 0 /\ old.pos \in 0..Fade - 1
        /\ outputs # <<>> => Settled(old.coeffs)
        /\ Len(outputs) = 2 => Smooth(outputs[1], outputs[2])
    BY <1>1, <1>2, <1>5, <1>7 DEF FadesInv
  <2>2. (Settled(old.coeffs)' <=> Settled(old.coeffs)) /\ \A a, b : Smooth(a, b)' <=> Smooth(a, b)
    BY <1>2 DEF LastOutput, Settled, Smooth, WeightOf
  <2>3. UNCHANGED <<old, work, outputs>> /\ panel'.at \notin {"flag", "assign"} /\ work.at = "idle"
    BY <1>2, <1>3, <2>1
  <2> QED BY <2>1, <2>2, <2>3 DEF FadesInv
<1>13. CarrierInv'
  BY <1>1, <1>2, <1>5, <1>6, CarrierStays
<1>14. PlayedInv'
  BY <1>1, <1>2, <1>6, PlayedStays
<1> QED BY <1>8, <1>9, <1>10, <1>11, <1>12, <1>13, <1>14 DEF BasebandInv

LEMMA SetBandpassEnabledKept == ASSUME BasebandInv, SetBandpassEnabled PROVE BasebandInv'
<1>1. BasebandShape /\ RingsInv /\ OutputsInv /\ SettingsInv /\ FadesInv /\ CarrierInv /\ PlayedInv
  BY DEF BasebandInv
<1>2. /\ panel.at = "next" /\ panel' = Rest
      /\ UNCHANGED <<decim, line, old, demod, work, met, outputs, played>>
      /\ filter' = [filter EXCEPT !.enabled = Setting.to]
  BY DEF SetBandpassEnabled
<1>3. panel'.at \in {"idle", "next"} /\ DOMAIN panel' = DOMAIN panel
  BY <1>1, <1>2, RestOfCall
<1>4. /\ DOMAIN filter' = DOMAIN filter /\ filter'.coeffs = filter.coeffs /\ filter'.dirty = filter.dirty
      /\ filter'.width = filter.width /\ filter'.center = filter.center
  BY <1>1, <1>2 DEF BasebandShape
<1>5. /\ seen'.crossed <=> (seen.crossed \/ work.at = "filter")
      /\ seen'.overtaken = seen.overtaken /\ seen'.abrupt = seen.abrupt /\ seen'.wild = seen.wild
      /\ seen'.stay = seen.stay /\ seen'.modeCrossed = seen.modeCrossed /\ DOMAIN seen' = DOMAIN seen
  <2> DEFINE c == seen.crossed \/ work.at = "filter"
  <2>1. seen' = [seen EXCEPT !.crossed = c]
    BY DEF SetBandpassEnabled
  <2>2. DOMAIN seen = {"crossed", "overtaken", "abrupt", "wild", "stay", "modeCrossed"}
    BY <1>1 DEF BasebandShape
  <2>3. c \in BOOLEAN
    BY Zenon
  <2> HIDE DEF c
  <2>4. seen'.crossed = c
    BY <2>1, <2>2
  <2>5. seen'.crossed <=> c
    BY <2>3, <2>4
  <2>6. /\ seen'.overtaken = seen.overtaken /\ seen'.abrupt = seen.abrupt /\ seen'.wild = seen.wild
        /\ seen'.stay = seen.stay /\ seen'.modeCrossed = seen.modeCrossed /\ DOMAIN seen' = DOMAIN seen
    BY <2>1, <2>2
  <2> QED BY <2>5, <2>6 DEF c
<1>6. Later /\ Done' = Done /\ (Working' <=> Working)
  BY <1>2, <1>5 DEF Later, Done, Working
<1>7. BasebandShape'
  BY <1>1, <1>2, <1>3, <1>4, <1>5 DEF BasebandShape
<1>8. RingsInv'
  BY <1>1, <1>2, <1>6, RingsStay
<1>9. OutputsInv'
  BY <1>1, <1>2, <1>3, <1>6, OutputsStay
<1>10. SettingsInv'
  BY <1>1, <1>2, <1>3, <1>4, <1>5, <1>6 DEF SettingsInv, CoefficientsCurrent, Settings
<1>11. FadesInv'
  BY <1>1, <1>2, <1>3, <1>4, <1>6, FadesStay
<1>12. CarrierInv'
  BY <1>1, <1>2, <1>5, <1>6, CarrierStays
<1>13. PlayedInv'
  BY <1>1, <1>2, <1>6, PlayedStays
<1> QED BY <1>7, <1>8, <1>9, <1>10, <1>11, <1>12, <1>13 DEF BasebandInv

LEMMA RecomputeKept == ASSUME BasebandInv, Recompute PROVE BasebandInv'
<1>1. BasebandShape /\ RingsInv /\ OutputsInv /\ SettingsInv /\ FadesInv /\ CarrierInv /\ PlayedInv
  BY DEF BasebandInv
<1>2. /\ panel.at = "next"
      /\ UNCHANGED <<decim, filter, line, old, demod, work, met, outputs, played, seen>>
      /\ panel' = IF filter.dirty THEN [panel EXCEPT !.at = "design"] ELSE Rest
  BY DEF Recompute
<1>3. panel'.at \in {"idle", "next", "design"} /\ DOMAIN panel' = DOMAIN panel
  BY <1>1, <1>2, RestOfCall DEF BasebandShape
<1>4. Later /\ Done' = Done /\ (Working' <=> Working)
  BY <1>2 DEF Later, Done, Working
<1>5. BasebandShape'
  BY <1>1, <1>2, <1>3 DEF BasebandShape
<1>6. RingsInv'
  BY <1>1, <1>2, <1>4, RingsStay
<1>7. OutputsInv'
  BY <1>1, <1>2, <1>3, <1>4, OutputsStay
<1>8. SettingsInv'
  BY <1>1, <1>2, <1>3, <1>4 DEF SettingsInv, CoefficientsCurrent, Settings
<1>9. FadesInv'
  BY <1>1, <1>2, <1>3, <1>4, FadesStay
<1>10. CarrierInv'
  BY <1>1, <1>2, <1>4, CarrierStays
<1>11. PlayedInv'
  BY <1>1, <1>2, <1>4, PlayedStays
<1> QED BY <1>5, <1>6, <1>7, <1>8, <1>9, <1>10, <1>11 DEF BasebandInv

LEMMA RecomputedKept == ASSUME BasebandInv, Recomputed PROVE BasebandInv'
<1>1. BasebandShape /\ RingsInv /\ OutputsInv /\ SettingsInv /\ FadesInv /\ CarrierInv /\ PlayedInv
  BY DEF BasebandInv
<1>2. /\ panel.at = "design" /\ panel' = Rest
      /\ UNCHANGED <<decim, line, old, demod, work, met, outputs, played, seen>>
  BY DEF Recomputed
<1>3. panel'.at \in {"idle", "next"} /\ DOMAIN panel' = DOMAIN panel
  BY <1>1, <1>2, RestOfCall
<1>4. /\ DOMAIN filter' = DOMAIN filter /\ filter'.coeffs = Settings /\ filter'.dirty = FALSE
      /\ filter'.width = filter.width /\ filter'.center = filter.center /\ filter'.enabled = filter.enabled
  BY <1>1 DEF Recomputed, BasebandShape
<1>5. Later /\ Done' = Done /\ (Working' <=> Working)
  BY <1>2 DEF Later, Done, Working
<1>6. Settings' = Settings /\ Settings # None
  BY <1>1, <1>4 DEF Settings, None, SettingsInv
<1>7. BasebandShape'
  BY <1>1, <1>2, <1>3, <1>4 DEF BasebandShape
<1>8. RingsInv'
  BY <1>1, <1>2, <1>5, RingsStay
<1>9. OutputsInv'
  BY <1>1, <1>2, <1>3, <1>5, OutputsStay
<1>10. SettingsInv'
  BY <1>1, <1>2, <1>3, <1>4, <1>5, <1>6 DEF SettingsInv, CoefficientsCurrent
<1>11. FadesInv'
  <2> SUFFICES ASSUME ~seen.crossed, ~seen.abrupt PROVE FadesInv'
    BY <1>2 DEF FadesInv
  <2>1. CASE filter.dirty
    <3>1. /\ ~Working /\ work.at # "fade" /\ work.at # "clear" /\ panel'.at # "flag" /\ panel'.at # "assign"
      BY <1>1, <1>3, <2>1 DEF SettingsInv, Working
    <3>2. /\ (old.fading => old.pos \in 0..Fade - 1)
          /\ outputs # <<>> => (old.fading /\ old.pos = 0 /\ Settled(old.coeffs))
          /\ Len(outputs) = 2 => Smooth(outputs[1], outputs[2])
      BY <1>1, <1>2, <2>1, <3>1 DEF FadesInv, Steps
    <3>3. /\ \A coeffs : Settled(coeffs)' <=> Settled(coeffs)
          /\ \A a, b : Smooth(a, b)' <=> Smooth(a, b)
      BY <1>2 DEF LastOutput, Settled, Smooth, WeightOf
    <3> QED BY <1>2, <3>1, <3>2, <3>3 DEF FadesInv
  <2>2. CASE ~filter.dirty
    <3>1. filter'.coeffs = filter.coeffs
      BY <1>1, <1>4, <2>2 DEF SettingsInv, CoefficientsCurrent
    <3>2. (filter'.dirty <=> filter.dirty) /\ work' = work /\ UNCHANGED <<old, outputs>>
      BY <1>2, <1>4, <2>2
    <3>3. LastOutput' = LastOutput /\ (Steps' <=> Steps) /\ (\A coeffs : Settled(coeffs)' <=> Settled(coeffs))
          /\ \A a, b : Smooth(a, b)' <=> Smooth(a, b)
      BY <3>1, <3>2 DEF LastOutput, Settled, Steps, Smooth, WeightOf
    <3> QED BY <1>1, <1>2, <1>3, <1>5, <3>1, <3>2, <3>3 DEF FadesInv, Later
  <2> QED BY <2>1, <2>2
<1>12. CarrierInv'
  BY <1>1, <1>2, <1>5, CarrierStays
<1>13. PlayedInv'
  BY <1>1, <1>2, <1>5, PlayedStays
<1> QED BY <1>7, <1>8, <1>9, <1>10, <1>11, <1>12, <1>13 DEF BasebandInv

----------------------------------------------------------------------------
(* The whole.                                                              *)

\* A ring of silence holds nothing but silence.
LEMMA SilentRing ==
  ASSUME NEW M \in Nat \ {0}
  PROVE  DOMAIN Silent(M) = 0..M - 1 /\ Holds(Silent(M), 0, Silent(M), M) /\ Holds(Silent(M), 0, Latest(0, M), M)
<1>1. ASSUME NEW n \in 0..M - 1 PROVE Slot(0, n, M) \in 0..M - 1
  BY <1>1 DEF Slot
<1>2. \A n \in 0..M - 1 : Silent(M)[n] = 0
  BY DEF Silent
<1>3. \A n \in 0..M - 1 : Latest(0, M)[n] = 0
  BY DEF Latest
<1>4. DOMAIN Silent(M) = 0..M - 1
  BY DEF Silent
<1> QED BY <1>1, <1>2, <1>3, <1>4 DEF Holds

LEMMA BasebandStarts == ASSUME BasebandInit PROVE BasebandInv
<1> USE BasebandConstants
<1>1. /\ decim.history = Silent(DecimBuf) /\ decim.pos = 0 /\ decim.frame = 0 /\ decim.window = <<>>
      /\ line.history = Silent(Taps) /\ line.index = 0 /\ DOMAIN line = {"history", "index"}
      /\ old.coeffs = None /\ old.fading = FALSE /\ DOMAIN old = {"coeffs", "history", "index", "fading", "pos"}
      /\ work.at = "idle" /\ work.sample = 0
      /\ panel.at = "idle" /\ DOMAIN panel = {"at", "todo", "calls"}
      /\ met = Silent(Taps) /\ outputs = <<>> /\ played.mode = "none"
  BY DEF BasebandInit
<1>2. /\ DOMAIN seen = {"crossed", "overtaken", "abrupt", "wild", "stay", "modeCrossed"}
      /\ seen.stay = 0 /\ seen.wild = FALSE /\ seen.overtaken = FALSE
  BY DEF BasebandInit
<1>3. /\ demod.ready = FALSE /\ demod.from = 0 /\ demod.history = Silent(HilbertTaps) /\ demod.index = 0
      /\ DOMAIN demod = {"mode", "ready", "from", "history", "index"}
  <2>1. demod \in Demodulators
    BY DEF BasebandInit
  <2>2. PICK m, h : h = Silent(HilbertTaps)
                    /\ demod = [mode |-> m, ready |-> FALSE, from |-> 0, history |-> h, index |-> 0]
    BY <2>1, Zenon DEF Demodulators
  <2> QED BY <2>2
<1>4. /\ DOMAIN filter = {"enabled", "center", "width", "dirty", "coeffs"} /\ filter.width # 0
      /\ filter.coeffs = None => filter.dirty
      /\ ~filter.dirty => filter.coeffs = Settings
  <2>1. CASE demod.mode = "AM"
    <3>1. /\ DOMAIN filter = {"enabled", "center", "width", "dirty", "coeffs"} /\ filter.width = 10000
          /\ filter.center = 0 /\ filter.coeffs = [center |-> 0, width |-> 10000]
      BY <2>1 DEF BasebandInit
    <3> QED BY <3>1 DEF Settings, None
  <2>2. CASE demod.mode # "AM"
    <3>1. /\ DOMAIN filter = {"enabled", "center", "width", "dirty", "coeffs"} /\ filter.width = 2400
          /\ filter.dirty = TRUE
      BY <2>2 DEF BasebandInit
    <3> QED BY <3>1
  <2> QED BY <2>1, <2>2
<1>5. DOMAIN Silent(DecimBuf) = 0..DecimBuf - 1 /\ Holds(Silent(DecimBuf), 0, Latest(0, DecimBuf), DecimBuf)
  BY SilentRing
<1>6. DOMAIN Silent(Taps) = 0..Taps - 1 /\ Holds(Silent(Taps), 0, Silent(Taps), Taps)
  BY SilentRing
<1>7. /\ DOMAIN Silent(HilbertTaps) = 0..HilbertTaps - 1
      /\ Holds(Silent(HilbertTaps), 0, Latest(0, HilbertTaps), HilbertTaps)
  BY SilentRing
<1>8. Silent(Taps) = [n \in 0..Taps - 1 |-> Silent(Taps)[n]]
  BY DEF Silent
<1>9. outputs \in Seq({}) /\ Len(outputs) = 0
  BY <1>1
<1>10. BasebandShape
  BY <1>1, <1>2, <1>3, <1>4, <1>5, <1>6, <1>7, <1>8, <1>9 DEF BasebandShape
<1>11. RingsInv
  BY <1>1, <1>3, <1>5, <1>6, <1>7 DEF RingsInv, Working, Done
<1>12. OutputsInv
  BY <1>1 DEF OutputsInv, Working
<1>13. SettingsInv
  BY <1>1, <1>2, <1>4 DEF SettingsInv, CoefficientsCurrent, Working
<1>14. FadesInv
  BY <1>1, <1>9 DEF FadesInv
<1>15. CarrierInv
  BY <1>1, <1>2, <1>3 DEF CarrierInv, Done
<1>16. PlayedInv
  BY <1>1 DEF PlayedInv, CarrierOfThisStay
<1> QED BY <1>10, <1>11, <1>12, <1>13, <1>14, <1>15, <1>16 DEF BasebandInv

LEMMA BasebandKept == ASSUME BasebandInv, [BasebandNext]_basebandVars PROVE BasebandInv'
<1>1. CASE BasebandNext
  <2>1. ASSUME NEW call \in Turnings, Begin(call) PROVE BasebandInv'
    BY <2>1, BeginKept
  <2> QED BY <1>1, <2>1, TakeFrameKept, FinishDesignKept, FilterKept, CrossfadeKept, ClearLineKept, LookAtModeKept,
             ProcessSampleKept, SetModeKept, BeginChangeKept, StartFadeKept, AssignKept, SetBandpassEnabledKept,
             RecomputeKept, RecomputedKept DEF BasebandNext
<1>2. CASE UNCHANGED basebandVars
  <2>1. UNCHANGED <<decim, filter, line, old, demod, work, panel, met, outputs, played, seen>>
    BY <1>2 DEF basebandVars
  <2>2. BasebandShape /\ RingsInv /\ OutputsInv /\ SettingsInv /\ FadesInv /\ CarrierInv /\ PlayedInv
    BY DEF BasebandInv
  <2>3. Later /\ Done' = Done /\ (Working' <=> Working)
    BY <2>1 DEF Later, Done, Working
  <2>4. BasebandShape' /\ SettingsInv'
    BY <2>1, <2>2 DEF BasebandShape, SettingsInv, CoefficientsCurrent, Settings, Setting, Working
  <2>5. RingsInv'
    BY <2>1, <2>2, <2>3, RingsStay
  <2>6. OutputsInv'
    BY <2>1, <2>2, <2>3, OutputsStay
  <2>7. FadesInv'
    BY <2>1, <2>2, <2>3, FadesStay
  <2>8. CarrierInv'
    BY <2>1, <2>2, <2>3, CarrierStays
  <2>9. PlayedInv'
    BY <2>1, <2>2, <2>3, PlayedStays
  <2> QED BY <2>4, <2>5, <2>6, <2>7, <2>8, <2>9 DEF BasebandInv
<1> QED BY <1>1, <1>2

\* What the way from raw samples to audio keeps, between any two steps of the DSP thread and the UI thread
\* (DSPEngine::processIQFrame(), BasebandFilter, Demodulator).
THEOREM BasebandInvariant == BasebandSpec => []BasebandInv
<1>1. BasebandInit => BasebandInv
  BY BasebandStarts
<1>2. BasebandInv /\ [BasebandNext]_basebandVars => BasebandInv'
  BY BasebandKept
<1> QED BY <1>1, <1>2, PTL DEF BasebandSpec

\* ... which says what a listener expects: every window in order, coefficients of the settings, fades a
\* step at a time, nothing read beyond a line's end, and a carrier of this stay.
LEMMA BasebandIsRight == ASSUME BasebandInv PROVE BasebandRight
<1>1. BasebandShape /\ RingsInv /\ OutputsInv /\ SettingsInv /\ FadesInv /\ CarrierInv /\ PlayedInv
  BY DEF BasebandInv
<1>2. WindowsAligned
  <2>1. outputs # <<>> /\ work.at = "demodulate" =>
          LastOutput.window = met /\ (LastOutput.part < Fade /\ ~seen.crossed => LastOutput.before = met)
    BY <1>1 DEF OutputsInv, Working
  <2> QED BY <1>1, <2>1 DEF WindowsAligned, PlayedInv, LastOutput
<1>3. CoefficientsCurrent /\ NothingReadBeyond /\ CarrierOfThisStay
  BY <1>1 DEF SettingsInv, PlayedInv, NothingReadBeyond
<1>4. FadesSmoothly
  BY <1>1 DEF FadesInv, FadesSmoothly, Smooth
<1> QED BY <1>2, <1>3, <1>4 DEF BasebandRight

\* For every length of the rings, the filters and the fade, whatever the UI thread sets in the middle of a sample:
\* windows hold the last samples of their stage in order, coefficients are those of the settings, and an output
\* changes by one step of a fade unless the threads crossed (DSPEngine.cpp, BasebandFilter.cpp, Demodulator.hpp).
THEOREM BasebandAlwaysRight == BasebandSpec => []BasebandRight
BY BasebandInvariant, BasebandIsRight, PTL

----------------------------------------------------------------------------
(* River: the samples.                                                     *)

Sample == [n : Int, lo : Int]

\* The ring holds the last samples, each at the place its number gives.
SamplesInv ==
  /\ iq.pos \in Places /\ iq.count \in Nat /\ iq.ring \in [Places -> Sample]
  /\ \E q \in Int : iq.count = FreqBins * q + iq.pos
  /\ \A k \in Places :
       iq.ring[k].n = IF k < iq.pos THEN iq.count - iq.pos + 1 + k ELSE iq.count - iq.pos + 1 + k - FreqBins

\* What has been copied is in order by whole turns, and exactly so if nothing came meanwhile.
TurnByTurn(got, from) == \A s \in 1..Len(got) : \E q \in Int : got[s].n = FreqBins * q + from + s

TakerInv ==
  /\ taker.at \in {"idle", "copy", "added"}
  /\ taker.at = "copy" =>
       /\ DOMAIN taker = {"at", "from", "got", "raced"} /\ taker.from \in Places /\ taker.got \in Seq(Sample)
       /\ taker.raced \in BOOLEAN
       /\ TurnByTurn(taker.got, taker.from)
       /\ ~taker.raced => taker.from = iq.pos
       /\ ~taker.raced => \A s \in 1..Len(taker.got) : taker.got[s].n = iq.count - FreqBins + s
  /\ SamplesInOrder

\* The command sent last is as far from the centre as what was not worth sending since.
TunerInv ==
  /\ DOMAIN tuner = {"center", "sent", "lo", "count", "since"} /\ tuner.center \in Int /\ tuner.sent \in Int
  /\ tuner.lo \in Int /\ tuner.count \in Nat /\ tuner.since \in Nat /\ tuner.since <= tuner.count
  /\ 2 * AbsVal(tuner.sent - tuner.center) <= HzPerBin * (tuner.count - tuner.since)

\* How many rows came after that of the ring's place r.
Age(r) == IF r <= river.top THEN river.top - r ELSE river.top - r + Depth

\* One cell of a row, where bin k stands now, and two cells of a row.
CellInv(cell, r, k) ==
  cell # Empty =>
    /\ cell.row = river.added - Age(r) /\ cell.freq \in Int /\ cell.since \in Nat
    /\ ~cell.late => 2 * AbsVal(cell.freq - (tuner.center + (k - FreqBins \div 2) * HzPerBin))
                     <= HzPerBin * (tuner.count - cell.since)
Stepped(row) ==
  \A k, m \in Places : row[k] # Empty /\ row[m] # Empty => row[m].freq = row[k].freq + (m - k) * HzPerBin

RowsInv ==
  /\ DOMAIN river = {"rows", "top", "added", "dirty", "texture"} /\ river.top \in Cols /\ river.added \in Nat
  /\ DOMAIN river.rows = Cols
  /\ \A r \in Cols : /\ \A k \in Places : CellInv(river.rows[r][k], r, k)
                     /\ Stepped(river.rows[r])

TextureInv ==
  ~river.dirty => \A f \in Places, t \in Cols : river.texture[f][t] = river.rows[ColumnRow(t)][FreqBins - 1 - f]

RiverInv == SamplesInv /\ TakerInv /\ TunerInv /\ RowsInv /\ TextureInv /\ TraceBesideRiver

LEMMA RiverConstants ==
  /\ FreqBins \in Nat /\ FreqBins >= 2 /\ FreqBins % 2 = 0 /\ Depth \in Nat /\ Depth >= 2
  /\ HzPerBin \in Nat /\ HzPerBin >= 2 /\ TuneSteps \subseteq Int
  /\ FreqBins \in Nat \ {0} /\ Depth \in Nat \ {0}
BY RiverAssumption

----------------------------------------------------------------------------
(* River: samples come, and are copied.                                    *)

LEMMA HearKept == ASSUME RiverInv, Hear PROVE RiverInv'
<1> USE RiverConstants
<1>1. SamplesInv /\ TakerInv /\ TunerInv /\ RowsInv /\ TextureInv /\ TraceBesideRiver
  BY DEF RiverInv
<1> DEFINE sample == [n |-> iq.count + 1, lo |-> tuner.lo]
<1>2. /\ iq'.ring = [iq.ring EXCEPT ![iq.pos] = sample] /\ iq'.pos = (iq.pos + 1) % FreqBins
      /\ iq'.count = iq.count + 1 /\ UNCHANGED <<tuner, river, picture>>
  BY DEF Hear
<1>3. iq.pos \in 0..FreqBins - 1 /\ iq.count \in Nat /\ iq.ring \in [Places -> Sample]
  BY <1>1 DEF SamplesInv, Places
<1>4. /\ (iq.pos + 1) % FreqBins = (IF iq.pos = FreqBins - 1 THEN 0 ELSE iq.pos + 1)
      /\ (iq.pos + 1) % FreqBins \in 0..FreqBins - 1
  BY <1>3, ModNext
<1>5. sample \in Sample /\ sample.n = iq.count + 1
  BY <1>1, <1>3 DEF Sample, TunerInv
<1> HIDE DEF sample
<1>6. SamplesInv'
  <2>1. iq'.pos \in Places /\ iq'.count \in Nat /\ iq'.ring \in [Places -> Sample]
    BY <1>2, <1>3, <1>4, <1>5 DEF Places
  <2>2. \E q \in Int : iq'.count = FreqBins * q + iq'.pos
    <3>1. PICK q \in Int : iq.count = FreqBins * q + iq.pos
      BY <1>1 DEF SamplesInv
    <3>2. CASE iq.pos = FreqBins - 1
      <4>1. q + 1 \in Int /\ FreqBins * (q + 1) = FreqBins * q + FreqBins
        OBVIOUS
      <4>2. iq'.count = FreqBins * (q + 1) + iq'.pos
        BY <1>2, <1>3, <1>4, <3>1, <3>2, <4>1
      <4> QED BY <4>1, <4>2
    <3>3. CASE iq.pos # FreqBins - 1
      <4>1. iq'.count = FreqBins * q + iq'.pos
        <5> DEFINE p == FreqBins * q
        <5>1. p \in Int /\ iq.count = p + iq.pos
          BY <3>1
        <5> HIDE DEF p
        <5>2. iq'.count = p + iq'.pos
          BY <1>2, <1>3, <1>4, <3>3, <5>1
        <5> QED BY <5>2 DEF p
      <4> QED BY <4>1
    <3> QED BY <3>2, <3>3
  <2>3. ASSUME NEW k \in Places
        PROVE  iq'.ring[k].n = IF k < iq'.pos THEN iq'.count - iq'.pos + 1 + k
                               ELSE iq'.count - iq'.pos + 1 + k - FreqBins
    <3>1. iq'.ring[k] = IF k = iq.pos THEN sample ELSE iq.ring[k]
      BY <1>2, <1>3
    <3>2. iq.ring[k].n = IF k < iq.pos THEN iq.count - iq.pos + 1 + k
                         ELSE iq.count - iq.pos + 1 + k - FreqBins
      BY <1>1 DEF SamplesInv
    <3>3. k \in 0..FreqBins - 1
      BY DEF Places
    <3> QED BY <1>2, <1>3, <1>4, <1>5, <3>1, <3>2, <3>3
  <2> QED BY <2>1, <2>2, <2>3 DEF SamplesInv
<1>7. TakerInv'
  <2>1. CASE taker.at = "copy"
    <3>1. /\ taker'.at = "copy" /\ taker'.from = taker.from /\ taker'.got = taker.got /\ taker'.raced = TRUE
          /\ DOMAIN taker' = DOMAIN taker
      BY <1>1, <2>1 DEF Hear, TakerInv
    <3> QED BY <1>1, <2>1, <3>1 DEF TakerInv, SamplesInOrder, TurnByTurn
  <2>2. CASE taker.at # "copy"
    <3>1. taker' = taker
      BY <2>2 DEF Hear
    <3> QED BY <1>1, <2>2, <3>1 DEF TakerInv, SamplesInOrder
  <2> QED BY <2>1, <2>2
<1>8. TunerInv' /\ TextureInv' /\ TraceBesideRiver'
  BY <1>1, <1>2 DEF TunerInv, TextureInv, ColumnRow, TraceBesideRiver
<1>9. RowsInv'
  BY <1>1, <1>2 DEF RowsInv, CellInv, Age, Stepped
<1> QED BY <1>6, <1>7, <1>8, <1>9 DEF RiverInv

LEMMA BeginSpectrumKept == ASSUME RiverInv, BeginSpectrum PROVE RiverInv'
<1>1. SamplesInv /\ TakerInv /\ TunerInv /\ RowsInv /\ TextureInv /\ TraceBesideRiver
  BY DEF RiverInv
<1>2. /\ taker' = [at |-> "copy", from |-> iq.pos, got |-> <<>>, raced |-> FALSE]
      /\ picture'.at = "nothing" /\ UNCHANGED <<iq, tuner, river>>
  BY DEF BeginSpectrum
<1>3. TakerInv'
  BY <1>1, <1>2 DEF TakerInv, SamplesInv, SamplesInOrder, TurnByTurn
<1>4. SamplesInv' /\ TunerInv' /\ TextureInv' /\ TraceBesideRiver'
  BY <1>1, <1>2 DEF SamplesInv, TunerInv, TextureInv, ColumnRow, TraceBesideRiver
<1>5. RowsInv'
  BY <1>1, <1>2 DEF RowsInv, CellInv, Age, Stepped
<1> QED BY <1>3, <1>4, <1>5 DEF RiverInv

LEMMA CopySampleKept == ASSUME RiverInv, CopySample PROVE RiverInv'
<1> USE RiverConstants
<1>1. SamplesInv /\ TakerInv /\ TunerInv /\ RowsInv /\ TextureInv /\ TraceBesideRiver
  BY DEF RiverInv
<1> DEFINE place == (taker.from + Len(taker.got)) % FreqBins
<1>2. /\ taker.at = "copy" /\ Len(taker.got) < FreqBins /\ UNCHANGED <<iq, tuner, river, picture>>
      /\ taker' = [taker EXCEPT !.got = Append(taker.got, iq.ring[place])]
  BY DEF CopySample
<1>3. /\ DOMAIN taker = {"at", "from", "got", "raced"} /\ taker.from \in Places /\ taker.got \in Seq(Sample)
      /\ taker.raced \in BOOLEAN /\ TurnByTurn(taker.got, taker.from)
      /\ ~taker.raced => taker.from = iq.pos
      /\ ~taker.raced => \A s \in 1..Len(taker.got) : taker.got[s].n = iq.count - FreqBins + s
  BY <1>1, <1>2 DEF TakerInv
<1> DEFINE len == Len(taker.got)
<1>4. len \in 0..FreqBins - 1 /\ taker.from \in 0..FreqBins - 1
  BY <1>2, <1>3 DEF Places
<1>5. /\ place = (IF taker.from + len < FreqBins THEN taker.from + len ELSE taker.from + len - FreqBins)
      /\ place \in 0..FreqBins - 1
  BY <1>4, ModWrap
<1>6. /\ iq.ring[place] \in Sample /\ iq.pos \in 0..FreqBins - 1 /\ iq.count \in Nat
      /\ iq.ring[place].n = IF place < iq.pos THEN iq.count - iq.pos + 1 + place
                            ELSE iq.count - iq.pos + 1 + place - FreqBins
  <2>1. place \in Places
    BY <1>5 DEF Places
  <2> HIDE DEF place
  <2> QED BY <1>1, <2>1 DEF SamplesInv, Places
<1> DEFINE sample == iq.ring[place]
<1> HIDE DEF place
<1>7. ASSUME NEW n \in Int, NEW f \in Int, NEW l \in Int, NEW p \in Int, NEW i \in Int, NEW c \in Int, NEW x \in Int,
             x = (IF f + l < FreqBins THEN f + l ELSE f + l - FreqBins),
             n = (IF x < i THEN c - i + 1 + x ELSE c - i + 1 + x - FreqBins), c = p + i, x >= 0, i < FreqBins
      PROVE  /\ n \in {p + f + (l + 1), p - FreqBins + f + (l + 1), p - 2 * FreqBins + f + (l + 1)}
             /\ f = i /\ l < FreqBins /\ l >= 0 => n = c - FreqBins + (l + 1)
  BY <1>7
<1>8. sample.n \in Int /\ taker.from \in Int /\ len \in Int /\ iq.pos \in Int /\ iq.count \in Int /\ place \in Int
      /\ place >= 0 /\ iq.pos < FreqBins
  <2>1. sample.n \in Int
    <3>1. sample \in Sample
      BY <1>6
    <3> HIDE DEF sample
    <3> QED BY <3>1 DEF Sample
  <2>2. taker.from \in Int /\ len \in Int /\ iq.pos \in Int /\ iq.count \in Int /\ iq.pos < FreqBins
    BY <1>4, <1>6
  <2>3. place \in Int /\ place >= 0
    BY <1>5
  <2> HIDE DEF sample, len
  <2> QED BY <2>1, <2>2, <2>3
<1> HIDE DEF sample, len
<1>9. PICK rounds \in Int : iq.count = FreqBins * rounds + iq.pos
  BY <1>1 DEF SamplesInv
<1>10. /\ sample.n \in {FreqBins * rounds + taker.from + (len + 1), FreqBins * rounds - FreqBins + taker.from + (len + 1),
                      FreqBins * rounds - 2 * FreqBins + taker.from + (len + 1)}
       /\ taker.from = iq.pos /\ len < FreqBins /\ len >= 0 => sample.n = iq.count - FreqBins + (len + 1)
  <2> DEFINE p == FreqBins * rounds
  <2>1. p \in Int /\ iq.count = p + iq.pos
    BY <1>9
  <2>2. /\ place = (IF taker.from + len < FreqBins THEN taker.from + len ELSE taker.from + len - FreqBins)
        /\ sample.n = (IF place < iq.pos THEN iq.count - iq.pos + 1 + place
                       ELSE iq.count - iq.pos + 1 + place - FreqBins)
    BY <1>5, <1>6 DEF sample, len
  <2> HIDE DEF p
  <2>3. /\ sample.n \in {p + taker.from + (len + 1), p - FreqBins + taker.from + (len + 1),
                         p - 2 * FreqBins + taker.from + (len + 1)}
        /\ taker.from = iq.pos /\ len < FreqBins /\ len >= 0 => sample.n = iq.count - FreqBins + (len + 1)
    BY <1>7, <1>8, <2>1, <2>2
  <2> QED BY <2>3 DEF p
<1>11. \E r \in Int : sample.n = FreqBins * r + taker.from + (len + 1)
  <2>1. /\ FreqBins * (rounds - 1) = FreqBins * rounds - FreqBins /\ FreqBins * (rounds - 2) = FreqBins * rounds - 2 * FreqBins
        /\ rounds - 1 \in Int /\ rounds - 2 \in Int
    OBVIOUS
  <2> QED BY <1>10, <2>1
<1>12. ~taker.raced => sample.n = iq.count - FreqBins + (len + 1)
  BY <1>3, <1>4, <1>10
<1> USE DEF len
<1> HIDE DEF sample
<1>13. /\ taker'.at = "copy" /\ taker'.from = taker.from /\ taker'.raced = taker.raced /\ DOMAIN taker' = DOMAIN taker
      /\ taker'.got = Append(taker.got, sample)
  BY <1>2, <1>3 DEF sample
<1>14. /\ taker'.got \in Seq(Sample) /\ Len(taker'.got) = len + 1
       /\ \A s \in 1..len + 1 : taker'.got[s] = IF s = len + 1 THEN sample ELSE taker.got[s]
  BY <1>3, <1>6, <1>13 DEF sample
<1>15. TakerInv'
  <2>1. TurnByTurn(taker'.got, taker.from)
    <3> SUFFICES ASSUME NEW s \in 1..len + 1
                 PROVE  \E q \in Int : taker'.got[s].n = FreqBins * q + taker.from + s
      BY <1>14 DEF TurnByTurn
    <3>1. CASE s = len + 1
      BY <1>14, <1>11, <3>1
    <3>2. CASE s # len + 1
      <4>1. s \in 1..Len(taker.got) /\ taker'.got[s] = taker.got[s]
        BY <1>4, <1>14, <3>2
      <4> QED BY <1>3, <4>1 DEF TurnByTurn
    <3> QED BY <3>1, <3>2
  <2>2. ASSUME ~taker.raced, NEW s \in 1..len + 1 PROVE taker'.got[s].n = iq.count - FreqBins + s
    <3>1. CASE s = len + 1
      BY <1>14, <1>12, <2>2, <3>1
    <3>2. CASE s # len + 1
      <4>1. s \in 1..Len(taker.got) /\ taker'.got[s] = taker.got[s]
        BY <1>4, <1>14, <3>2
      <4> QED BY <1>3, <2>2, <4>1
    <3> QED BY <3>1, <3>2
  <2>3. TurnByTurn(taker.got, taker.from)'
    BY <1>13, <2>1 DEF TurnByTurn
  <2> QED BY <1>2, <1>3, <1>13, <1>14, <2>2, <2>3 DEF TakerInv, SamplesInOrder
<1>16. SamplesInv' /\ TunerInv' /\ TextureInv' /\ TraceBesideRiver'
  BY <1>1, <1>2 DEF SamplesInv, TunerInv, TextureInv, ColumnRow, TraceBesideRiver
<1>17. RowsInv'
  BY <1>1, <1>2 DEF RowsInv, CellInv, Age, Stepped
<1> QED BY <1>15, <1>16, <1>17 DEF RiverInv

----------------------------------------------------------------------------
(* River: rows.                                                            *)

\* Where half the bins are, and the bins' distances from there.
Middle == FreqBins \div 2

LEMMA BinsApart ==
  /\ Middle \in Int
  /\ \A k, m \in Int : /\ (k - Middle) * HzPerBin \in Int /\ (m - k) * HzPerBin \in Int
                       /\ (m - Middle) * HzPerBin = (k - Middle) * HzPerBin + (m - k) * HzPerBin
<1> USE RiverConstants
<1>1. Middle \in Int
  BY DEF Middle
<1>2. ASSUME NEW k \in Int, NEW m \in Int, NEW h \in Int, NEW z \in Int
      PROVE  (k - h) * z \in Int /\ (m - k) * z \in Int /\ (m - h) * z = (k - h) * z + (m - k) * z
  OBVIOUS
<1> QED BY <1>1, <1>2

\* A new row is the youngest, and every other is older by one.
LEMMA AgeNext ==
  ASSUME river.top \in Cols, NEW top, top = (river.top + 1) % Depth, river'.top = top
  PROVE  /\ top \in Cols /\ Age(top)' = 0
         /\ \A r \in Cols : r # top => Age(r)' = Age(r) + 1
<1> USE RiverConstants
<1>1. river.top \in 0..Depth - 1
  BY DEF Cols
<1>2. top = (IF river.top = Depth - 1 THEN 0 ELSE river.top + 1) /\ top \in 0..Depth - 1
  BY <1>1, ModNext
<1>3. Age(top)' = 0
  BY <1>2 DEF Age
<1>4. ASSUME NEW r \in Cols, r # top PROVE Age(r)' = Age(r) + 1
  <2>1. r \in 0..Depth - 1
    BY DEF Cols
  <2>2. Age(r)' = IF r <= top THEN top - r ELSE top - r + Depth
    BY DEF Age
  <2>3. Age(r) = IF r <= river.top THEN river.top - r ELSE river.top - r + Depth
    BY DEF Age
  <2> QED BY <1>1, <1>2, <1>4, <2>1, <2>2, <2>3
<1> QED BY <1>2, <1>3, <1>4 DEF Cols

LEMMA AddRowKept == ASSUME RiverInv, AddRow PROVE RiverInv'
<1> USE RiverConstants
<1>1. SamplesInv /\ TakerInv /\ TunerInv /\ RowsInv /\ TextureInv /\ TraceBesideRiver
  BY DEF RiverInv
<1> PICK top : top = (river.top + 1) % Depth
  OBVIOUS
<1> PICK new : new = RowOf(river.added + 1)
  OBVIOUS
<1>2. /\ taker.at = "copy" /\ Len(taker.got) = FreqBins /\ UNCHANGED <<iq, tuner, picture>>
      /\ river' = [river EXCEPT !.rows[top] = new, !.top = top, !.added = @ + 1, !.dirty = TRUE]
      /\ taker' = [at |-> "added", got |-> [s \in 1..FreqBins |-> taker.got[s].n], raced |-> taker.raced]
  BY DEF AddRow
<1>3. /\ taker.got \in Seq(Sample) /\ TurnByTurn(taker.got, taker.from) /\ taker.from \in Int
      /\ ~taker.raced => \A s \in 1..FreqBins : taker.got[s].n = iq.count - FreqBins + s
      /\ \A s \in 1..FreqBins : taker.got[s] \in Sample
  BY <1>1, <1>2 DEF TakerInv, Places
<1>4. /\ DOMAIN river = {"rows", "top", "added", "dirty", "texture"} /\ river.top \in Cols /\ river.added \in Nat
      /\ DOMAIN river.rows = Cols
  BY <1>1 DEF RowsInv
<1>5. /\ river'.top = top /\ top \in Cols /\ Age(top)' = 0
      /\ \A r \in Cols : r # top => Age(r)' = Age(r) + 1
  <2>1. river'.top = top
    BY <1>2, <1>4
  <2> QED BY <1>4, <2>1, AgeNext
<1>6. /\ river'.added = river.added + 1 /\ river'.dirty = TRUE /\ DOMAIN river' = DOMAIN river
      /\ DOMAIN river'.rows = Cols
      /\ \A r \in Cols : river'.rows[r] = IF r = top THEN new ELSE river.rows[r]
  BY <1>2, <1>4, <1>5
<1>7. /\ DOMAIN tuner = {"center", "sent", "lo", "count", "since"} /\ tuner.center \in Int /\ tuner.sent \in Int
      /\ tuner.lo \in Int /\ tuner.count \in Nat /\ tuner.since \in Nat /\ tuner.since <= tuner.count
      /\ 2 * AbsVal(tuner.sent - tuner.center) <= HzPerBin * (tuner.count - tuner.since)
      /\ tuner' = tuner
  BY <1>1, <1>2 DEF TunerInv
<1> DEFINE late == \E s \in 1..FreqBins : taker.got[s].lo # tuner.sent
<1>8. ASSUME NEW k \in Places
      PROVE  new[k] = [row |-> river.added + 1, freq |-> Newest + (k - Middle) * HzPerBin, since |-> tuner.since,
                       late |-> late]
  BY <1>8 DEF RowOf, Middle
<1>9. late \in BOOLEAN /\ Newest \in Int /\ (~late => Newest = tuner.sent)
  <2>1. late \in BOOLEAN
    BY Zenon
  <2>2. FreqBins \in 1..FreqBins
    OBVIOUS
  <2>3. taker.got[FreqBins] \in Sample
    BY <1>3, <2>2
  <2>4. Newest \in Int
    BY <2>3 DEF Newest, Sample
  <2>5. ~late => Newest = tuner.sent
    BY <2>2 DEF Newest
  <2> HIDE DEF late
  <2> QED BY <2>1, <2>4, <2>5
<1> HIDE DEF late
<1>10. ASSUME NEW k \in Places
       PROVE  /\ new[k].row = river.added + 1 /\ new[k].freq = Newest + (k - Middle) * HzPerBin
              /\ new[k].since = tuner.since /\ new[k].late = late
  <2> DEFINE a == river.added + 1
             b == Newest + (k - Middle) * HzPerBin
             c == tuner.since
  <2>1. new[k] = [row |-> a, freq |-> b, since |-> c, late |-> late]
    BY <1>8
  <2> HIDE DEF a, b, c
  <2>2. new[k].row = a /\ new[k].freq = b /\ new[k].since = c /\ new[k].late = late
    BY <2>1
  <2> QED BY <2>2 DEF a, b, c
<1>11. ASSUME NEW k \in Places PROVE CellInv(new[k], top, k)'
  <2> DEFINE cell == new[k]
             x == (k - Middle) * HzPerBin
  <2>1. /\ cell.row = river.added + 1 /\ cell.freq = Newest + x /\ cell.since = tuner.since /\ cell.late = late
    BY <1>10
  <2>2. x \in Int
    <3>1. k \in Int
      BY DEF Places
    <3> QED BY <3>1, BinsApart
  <2>3. /\ tuner.sent \in Int /\ tuner.center \in Int /\ tuner.since \in Nat
    BY <1>7
  <2> HIDE DEF x
  <2>4. cell.row = river'.added - Age(top)' /\ cell.freq \in Int /\ cell.since \in Nat
    BY <1>4, <1>5, <1>6, <1>9, <2>1, <2>2, <2>3
  <2>5. ~late => cell.freq - (tuner.center + x) = tuner.sent - tuner.center
    BY <1>9, <2>1, <2>2, <2>3
  <2>6. ~cell.late => 2 * AbsVal(cell.freq - (tuner.center + x)) <= HzPerBin * (tuner.count - cell.since)
    BY <1>7, <1>9, <2>1, <2>5
  <2> HIDE DEF cell
  <2>7. CellInv(cell, top, k)'
    BY <1>7, <2>4, <2>6 DEF CellInv, x, Middle
  <2> QED BY <2>7 DEF cell
<1>12. Stepped(new)
  <2>1. ASSUME NEW k \in Places, NEW m \in Places PROVE new[m].freq = new[k].freq + (m - k) * HzPerBin
    <3>1. k \in Int /\ m \in Int
      BY DEF Places
    <3>2. /\ (k - Middle) * HzPerBin \in Int /\ (m - k) * HzPerBin \in Int
          /\ (m - Middle) * HzPerBin = (k - Middle) * HzPerBin + (m - k) * HzPerBin
      BY <3>1, BinsApart
    <3>3. new[m].freq = Newest + (m - Middle) * HzPerBin /\ new[k].freq = Newest + (k - Middle) * HzPerBin
      BY <1>10
    <3> QED BY <1>9, <3>2, <3>3
  <2> QED BY <2>1 DEF Stepped
<1>13. RowsInv'
  <2>1. ASSUME NEW r \in Cols, NEW k \in Places PROVE CellInv(river.rows[r][k], r, k)'
    <3>1. CASE r = top
      <4>1. river'.rows[r][k] = new[k]
        BY <1>6, <3>1
      <4> QED BY <1>11, <3>1, <4>1 DEF CellInv
    <3>2. CASE r # top
      <4>1. river'.rows[r][k] = river.rows[r][k] /\ Age(r)' = Age(r) + 1 /\ Age(r) \in Int
        <5>1. river'.rows[r] = river.rows[r] /\ Age(r)' = Age(r) + 1
          BY <1>5, <1>6, <3>2
        <5>2. Age(r) \in Int
          BY <1>4 DEF Age, Cols
        <5> QED BY <5>1, <5>2
      <4>2. CellInv(river.rows[r][k], r, k)
        BY <1>1 DEF RowsInv
      <4>3. river.added - Age(r) = river'.added - Age(r)'
        BY <1>4, <1>6, <4>1
      <4> QED BY <1>7, <4>1, <4>2, <4>3 DEF CellInv
    <3> QED BY <3>1, <3>2
  <2>2. ASSUME NEW r \in Cols PROVE Stepped(river.rows[r])'
    <3>1. river'.rows[r] = new \/ river'.rows[r] = river.rows[r]
      BY <1>6
    <3> QED BY <1>1, <1>12, <3>1 DEF Stepped, RowsInv
  <2>3. river'.added \in Nat
    BY <1>4, <1>6
  <2> QED BY <1>4, <1>5, <1>6, <2>1, <2>2, <2>3 DEF RowsInv
<1>14. TakerInv'
  <2> SUFFICES ASSUME NEW s \in 1..FreqBins - 1
               PROVE  LET step == taker'.got[s + 1] - taker'.got[s]
                      IN IF taker'.raced THEN step % FreqBins = 1 ELSE step = 1
    BY <1>2 DEF TakerInv, SamplesInOrder
  <2>1. s \in 1..FreqBins /\ s + 1 \in 1..FreqBins
    OBVIOUS
  <2>2. taker'.got[s] = taker.got[s].n /\ taker'.got[s + 1] = taker.got[s + 1].n /\ taker'.raced = taker.raced
    BY <1>2, <2>1
  <2>3. CASE ~taker.raced
    <3>1. taker.got[s].n = iq.count - FreqBins + s /\ taker.got[s + 1].n = iq.count - FreqBins + (s + 1)
      BY <1>3, <2>1, <2>3
    <3>2. iq.count \in Nat
      BY <1>1 DEF SamplesInv
    <3> QED BY <2>2, <2>3, <3>1, <3>2
  <2>4. CASE taker.raced
    <3>1. PICK p \in Int : taker.got[s].n = FreqBins * p + taker.from + s
      BY <1>2, <1>3, <2>1 DEF TurnByTurn
    <3>2. PICK q \in Int : taker.got[s + 1].n = FreqBins * q + taker.from + (s + 1)
      BY <1>2, <1>3, <2>1 DEF TurnByTurn
    <3>3. (FreqBins * q + taker.from + (s + 1)) - (FreqBins * p + taker.from + s) = FreqBins * (q - p) + 1
          /\ q - p \in Int
      <4>1. FreqBins * (q - p) = FreqBins * q - FreqBins * p /\ FreqBins * q \in Int /\ FreqBins * p \in Int
        OBVIOUS
      <4> DEFINE a == FreqBins * q
                 b == FreqBins * p
      <4>2. a \in Int /\ b \in Int /\ taker.from \in Int /\ FreqBins * (q - p) = a - b
        BY <1>3, <4>1
      <4> HIDE DEF a, b
      <4>3. (a + taker.from + (s + 1)) - (b + taker.from + s) = a - b + 1
        BY <4>2
      <4> QED BY <4>2, <4>3 DEF a, b
    <3>4. 1 \in 0..FreqBins - 1
      OBVIOUS
    <3>5. (FreqBins * (q - p) + 1) % FreqBins = 1
      BY <3>3, <3>4, ModUnique
    <3> QED BY <2>2, <2>4, <3>1, <3>2, <3>3, <3>5
  <2> QED BY <2>3, <2>4
<1>15. SamplesInv' /\ TunerInv' /\ TextureInv' /\ TraceBesideRiver'
  BY <1>1, <1>2, <1>6 DEF SamplesInv, TunerInv, TextureInv, TraceBesideRiver
<1> QED BY <1>13, <1>14, <1>15 DEF RiverInv

----------------------------------------------------------------------------
(* River: tuning and drawing.                                              *)

\* Rounding to whole bins is at most half a bin off.
LEMMA RoundingIsNear ==
  ASSUME NEW delta \in Int
  PROVE  RoundedBins(delta) \in Int /\ 2 * AbsVal(delta - RoundedBins(delta) * HzPerBin) <= HzPerBin
<1> USE RiverConstants
<1> DEFINE a == AbsVal(delta)
           d == 2 * HzPerBin
           b == (2 * a + HzPerBin) \div d
           r == (2 * a + HzPerBin) % d
<1>1. a \in Nat /\ (a = delta \/ a = -delta) /\ (delta < 0 => a = -delta) /\ (delta >= 0 => a = delta)
  BY DEF AbsVal
<1>2. d \in Nat \ {0} /\ 2 * a + HzPerBin \in Nat
  BY <1>1
<1>3. b \in Nat /\ r \in 0..d - 1 /\ 2 * a + HzPerBin = d * b + r
  <2> DEFINE n == 2 * a + HzPerBin
  <2>1. n \in Nat
    BY <1>2
  <2> HIDE DEF n, d
  <2>2. n \div d \in Nat /\ n % d \in 0..d - 1 /\ n = d * (n \div d) + (n % d)
    BY <1>2, <2>1, QuotientIsNatural
  <2> QED BY <2>2 DEF n
<1>4. d * b = 2 * (b * HzPerBin) /\ (-b) * HzPerBin = -(b * HzPerBin) /\ b * HzPerBin \in Int
  <2>1. \A x, y \in Int : (2 * y) * x = 2 * (x * y) /\ (-x) * y = -(x * y) /\ x * y \in Int
    OBVIOUS
  <2> HIDE DEF b
  <2> QED BY <1>3, <2>1 DEF d
<1>5. RoundedBins(delta) = IF delta < 0 THEN -b ELSE b
  BY DEF RoundedBins
<1> DEFINE p == b * HzPerBin
<1>6. p \in Int /\ 2 * a + HzPerBin = 2 * p + r /\ 0 <= r /\ r < 2 * HzPerBin /\ (-b) * HzPerBin = -p
  BY <1>3, <1>4
<1> HIDE DEF a, b, r, d, p
<1>7. 2 * AbsVal(delta - (IF delta < 0 THEN -p ELSE p)) <= HzPerBin
  BY <1>1, <1>3, <1>6 DEF AbsVal
<1>8. RoundedBins(delta) * HzPerBin = IF delta < 0 THEN -p ELSE p
  BY <1>5, <1>6 DEF p
<1> QED BY <1>3, <1>5, <1>7, <1>8

\* A tuning by delta, against which a cell has moved by so many bins to be at most half a bin off.
LEMMA CellMoves ==
  ASSUME TunerInv, NEW delta \in Int, NEW bins \in Int, 2 * AbsVal(delta - bins * HzPerBin) <= HzPerBin,
         tuner'.center = tuner.center + delta, tuner'.count = tuner.count + 1,
         river'.top = river.top, river'.added = river.added,
         NEW cell, NEW r, NEW k \in Int, CellInv(cell, r, k)
  PROVE  CellInv(cell, r, k - bins)'
<1> USE RiverConstants
<1>1. CASE cell = Empty
  BY <1>1 DEF CellInv
<1>2. CASE cell # Empty
  <2>1. tuner.center \in Int /\ tuner.count \in Nat
    BY DEF TunerInv
  <2>2. cell.row = river.added - Age(r) /\ cell.freq \in Int /\ cell.since \in Nat
    BY <1>2 DEF CellInv
  <2>3. Age(r)' = Age(r)
    BY DEF Age
  <2>4. ASSUME ~cell.late
        PROVE  2 * AbsVal(cell.freq - (tuner'.center + ((k - bins) - Middle) * HzPerBin))
               <= HzPerBin * (tuner'.count - cell.since)
    <3> DEFINE x == (k - Middle) * HzPerBin
               p == bins * HzPerBin
               c == tuner.count - cell.since
               w == HzPerBin * c
               f == cell.freq
               m == tuner.center
    <3>1. 2 * AbsVal(f - (m + x)) <= w
      BY <1>2, <2>4 DEF CellInv, Middle
    <3>2. x \in Int /\ ((k - bins) - Middle) * HzPerBin = x - p
      <4>1. Middle \in Int
        BY BinsApart
      <4>2. \A i, h, z \in Int : (i - h) * z \in Int
        OBVIOUS
      <4>3. \A i, j, h, z \in Int : ((i - j) - h) * z = (i - h) * z - j * z
        OBVIOUS
      <4> HIDE DEF c, w, f, m
      <4>4. k \in Int /\ bins \in Int /\ HzPerBin \in Int
        OBVIOUS
      <4>5. (k - Middle) * HzPerBin \in Int
        BY <4>1, <4>2, <4>4
      <4>6. ((k - bins) - Middle) * HzPerBin = (k - Middle) * HzPerBin - bins * HzPerBin
        BY <4>1, <4>3, <4>4
      <4> QED BY <4>5, <4>6
    <3>3. p \in Int /\ c \in Int /\ w \in Int /\ f \in Int /\ m \in Int
      <4>1. \A i, j \in Int : i * j \in Int
        OBVIOUS
      <4>2. c \in Int
        BY <2>1, <2>2
      <4> HIDE DEF c
      <4> QED BY <2>1, <2>2, <4>1, <4>2
    <3>4. HzPerBin * (tuner'.count - cell.since) = w + HzPerBin
      <4>1. \A i, z \in Int : z * (i + 1) = z * i + z
        OBVIOUS
      <4>2. tuner'.count - cell.since = c + 1
        BY <2>1, <2>2
      <4> HIDE DEF c
      <4> QED BY <3>3, <4>1, <4>2
    <3>5. 2 * AbsVal(delta - p) <= HzPerBin
      OBVIOUS
    <3> HIDE DEF x, p, c, w, f, m
    <3>6. 2 * AbsVal(f - ((m + delta) + (x - p))) <= w + HzPerBin
      BY <3>1, <3>2, <3>3, <3>5 DEF AbsVal
    <3>7. tuner'.center = m + delta
      BY DEF m
    <3> QED BY <3>2, <3>4, <3>6, <3>7 DEF f
  <2> QED BY <2>2, <2>3, <2>4 DEF CellInv, Middle
<1> QED BY <1>1, <1>2

LEMMA TuneByKept == ASSUME RiverInv, NEW delta \in Int, TuneBy(delta) PROVE RiverInv'
<1> USE RiverConstants
<1>1. SamplesInv /\ TakerInv /\ TunerInv /\ RowsInv /\ TextureInv /\ TraceBesideRiver
  BY DEF RiverInv
<1>2. taker.at # "copy" /\ UNCHANGED <<iq, taker, picture>>
  BY DEF TuneBy
<1>3. /\ DOMAIN tuner = {"center", "sent", "lo", "count", "since"} /\ tuner.center \in Int /\ tuner.sent \in Int
      /\ tuner.lo \in Int /\ tuner.count \in Nat /\ tuner.since \in Nat /\ tuner.since <= tuner.count
      /\ 2 * AbsVal(tuner.sent - tuner.center) <= HzPerBin * (tuner.count - tuner.since)
  BY <1>1 DEF TunerInv
<1>4. /\ DOMAIN river = {"rows", "top", "added", "dirty", "texture"} /\ river.top \in Cols /\ river.added \in Nat
      /\ DOMAIN river.rows = Cols
  BY <1>1 DEF RowsInv
<1>5. SamplesInv' /\ TakerInv' /\ TraceBesideRiver'
  BY <1>1, <1>2 DEF SamplesInv, TakerInv, SamplesInOrder, TurnByTurn, TraceBesideRiver
<1>6. CASE AbsVal(delta) <= 1
  <2>1. /\ tuner' = [tuner EXCEPT !.center = @ + delta, !.count = @ + 1] /\ river' = river
    BY <1>6 DEF TuneBy
  <2>2. /\ tuner'.center = tuner.center + delta /\ tuner'.count = tuner.count + 1 /\ tuner'.sent = tuner.sent
        /\ tuner'.since = tuner.since
        /\ DOMAIN tuner' = {"center", "sent", "lo", "count", "since"} /\ tuner'.center \in Int /\ tuner'.sent \in Int
        /\ tuner'.lo \in Int /\ tuner'.count \in Nat /\ tuner'.since \in Nat
    BY <1>3, <2>1
  <2>3. 2 * AbsVal(delta - 0 * HzPerBin) <= HzPerBin
    BY <1>6 DEF AbsVal
  <2>4. TunerInv'
    <3> DEFINE c == tuner.count - tuner.since
               w == HzPerBin * c
    <3>1. c \in Int /\ tuner'.count - tuner'.since = c + 1 /\ tuner.sent \in Int /\ tuner.center \in Int
      BY <1>3, <2>2
    <3>2. w \in Int /\ HzPerBin * (c + 1) = w + HzPerBin
      <4>1. \A i, z \in Int : z * (i + 1) = z * i + z /\ z * i \in Int
        OBVIOUS
      <4> HIDE DEF c
      <4> QED BY <3>1, <4>1
    <3>3. 2 * AbsVal(tuner.sent - tuner.center) <= w
      BY <1>3
    <3> HIDE DEF c, w
    <3>4. 2 * AbsVal(tuner.sent - (tuner.center + delta)) <= w + HzPerBin
      BY <1>6, <3>1, <3>2, <3>3 DEF AbsVal
    <3>5. tuner'.since <= tuner'.count
      BY <1>3, <2>2
    <3> QED BY <2>2, <3>1, <3>2, <3>4, <3>5 DEF TunerInv
  <2>5. RowsInv'
    <3>1. ASSUME NEW r \in Cols, NEW k \in Places PROVE CellInv(river.rows[r][k], r, k)'
      <4> PICK cell : cell = river.rows[r][k]
        OBVIOUS
      <4>1. CellInv(cell, r, k) /\ k \in Int
        BY <1>1 DEF RowsInv, Places
      <4>2. CellInv(cell, r, k - 0)'
        BY <1>1, <2>1, <2>2, <2>3, <4>1, CellMoves
      <4>3. k - 0 = k /\ river'.rows[r][k] = cell
        BY <2>1, <4>1
      <4> QED BY <4>2, <4>3 DEF CellInv
    <3>2. \A r \in Cols : Stepped(river.rows[r])'
      BY <1>1, <2>1 DEF RowsInv, Stepped
    <3> QED BY <1>4, <2>1, <3>1, <3>2 DEF RowsInv
  <2>6. TextureInv'
    BY <1>1, <2>1 DEF TextureInv, ColumnRow
  <2> QED BY <1>5, <2>4, <2>5, <2>6 DEF RiverInv
<1>7. CASE ~(AbsVal(delta) <= 1)
  <2> DEFINE bins == RoundedBins(delta)
  <2>1. /\ tuner' = [tuner EXCEPT !.center = @ + delta, !.count = @ + 1, !.sent = tuner.center + delta,
                                  !.since = tuner.count + 1]
        /\ river' = IF ShiftFor(delta) = 0 THEN river
                    ELSE [river EXCEPT !.rows = [r \in Cols |-> ShiftedRow(river.rows[r], ShiftFor(delta))],
                                       !.dirty = TRUE]
    BY <1>7 DEF TuneBy
  <2>2. bins \in Int /\ 2 * AbsVal(delta - bins * HzPerBin) <= HzPerBin /\ ShiftFor(delta) = -bins
    BY RoundingIsNear DEF ShiftFor
  <2> HIDE DEF bins
  <2>3. /\ tuner'.center = tuner.center + delta /\ tuner'.count = tuner.count + 1
        /\ tuner'.sent = tuner.center + delta /\ tuner'.since = tuner.count + 1
        /\ DOMAIN tuner' = {"center", "sent", "lo", "count", "since"} /\ tuner'.center \in Int /\ tuner'.sent \in Int
        /\ tuner'.lo \in Int /\ tuner'.count \in Nat /\ tuner'.since \in Nat
    BY <1>3, <2>1
  <2>4. TunerInv'
    <3>1. tuner'.sent - tuner'.center = 0 /\ tuner'.count - tuner'.since = 0 /\ tuner'.since <= tuner'.count
      BY <2>3
    <3>2. 2 * AbsVal(0) <= HzPerBin * 0
      BY DEF AbsVal
    <3> QED BY <2>3, <3>1, <3>2 DEF TunerInv
  <2>5. /\ river'.top = river.top /\ river'.added = river.added /\ DOMAIN river' = DOMAIN river
        /\ river'.texture = river.texture /\ DOMAIN river'.rows = Cols
        /\ river' = river \/ river'.dirty = TRUE
    BY <1>4, <2>1
  <2>6. ASSUME NEW r \in Cols, NEW k \in Places
        PROVE  river'.rows[r][k] = Empty \/ (k + bins \in Places /\ river'.rows[r][k] = river.rows[r][k + bins])
    <3>1. CASE ShiftFor(delta) = 0
      <4>1. k + bins = k
        BY <2>2, <3>1 DEF Places
      <4> QED BY <2>1, <3>1, <4>1
    <3>2. CASE ShiftFor(delta) # 0
      <4>1. river'.rows[r] = ShiftedRow(river.rows[r], -bins)
        BY <1>4, <2>1, <2>2, <3>2
      <4>2. k - (-bins) = k + bins
        BY <2>2 DEF Places
      <4> QED BY <4>1, <4>2 DEF ShiftedRow
    <3> QED BY <3>1, <3>2
  <2>7. RowsInv'
    <3>1. ASSUME NEW r \in Cols, NEW k \in Places PROVE CellInv(river.rows[r][k], r, k)'
      <4>1. CASE river'.rows[r][k] = Empty
        BY <4>1 DEF CellInv
      <4>2. CASE k + bins \in Places /\ river'.rows[r][k] = river.rows[r][k + bins]
        <5> PICK cell : cell = river.rows[r][k + bins]
          OBVIOUS
        <5> DEFINE j == k + bins
        <5>1. CellInv(cell, r, j) /\ j \in Int
          BY <1>1, <4>2 DEF RowsInv, Places
        <5>2. j - bins = k
          BY <2>2 DEF Places
        <5> HIDE DEF j
        <5>3. CellInv(cell, r, j - bins)'
          BY <1>1, <2>2, <2>3, <2>5, <5>1, CellMoves
        <5> QED BY <4>2, <5>2, <5>3 DEF CellInv
      <4> QED BY <2>6, <4>1, <4>2
    <3>2. ASSUME NEW r \in Cols, NEW k \in Places, NEW m \in Places,
                 river'.rows[r][k] # Empty, river'.rows[r][m] # Empty
          PROVE  river'.rows[r][m].freq = river'.rows[r][k].freq + (m - k) * HzPerBin
      <4>1. /\ k + bins \in Places /\ river'.rows[r][k] = river.rows[r][k + bins]
            /\ m + bins \in Places /\ river'.rows[r][m] = river.rows[r][m + bins]
        BY <2>6, <3>2
      <4>2. river.rows[r][m + bins].freq = river.rows[r][k + bins].freq + ((m + bins) - (k + bins)) * HzPerBin
        BY <1>1, <3>2, <4>1 DEF RowsInv, Stepped
      <4>3. (m + bins) - (k + bins) = m - k
        BY <2>2 DEF Places
      <4> QED BY <4>1, <4>2, <4>3
    <3>3. \A r \in Cols : Stepped(river.rows[r])'
      BY <3>2 DEF Stepped
    <3> QED BY <1>4, <2>5, <3>1, <3>3 DEF RowsInv
  <2>8. TextureInv'
    BY <1>1, <2>5 DEF TextureInv, ColumnRow
  <2> QED BY <1>5, <2>4, <2>7, <2>8 DEF RiverInv
<1> QED BY <1>6, <1>7

LEMMA TwinTunesKept == ASSUME RiverInv, TwinTunes PROVE RiverInv'
<1>1. SamplesInv /\ TakerInv /\ TunerInv /\ RowsInv /\ TextureInv /\ TraceBesideRiver
  BY DEF RiverInv
<1>2. /\ UNCHANGED <<iq, taker, river, picture>>
      /\ tuner'.lo = tuner.sent /\ tuner'.sent = tuner.sent /\ tuner'.center = tuner.center
      /\ tuner'.count = tuner.count /\ tuner'.since = tuner.since /\ DOMAIN tuner' = DOMAIN tuner
  BY <1>1 DEF TwinTunes, TunerInv
<1>3. SamplesInv' /\ TakerInv' /\ TunerInv' /\ TextureInv' /\ TraceBesideRiver'
  BY <1>1, <1>2 DEF SamplesInv, TakerInv, SamplesInOrder, TurnByTurn, TunerInv, TextureInv, ColumnRow, TraceBesideRiver
<1>4. RowsInv'
  BY <1>1, <1>2 DEF RowsInv, CellInv, Age, Stepped
<1> QED BY <1>3, <1>4 DEF RiverInv

\* What is drawn of a viewport lies within the spectrum, whose height is a whole number of parts.
LEMMA Heights ==
  ASSUME NEW v \in Viewports
  PROVE  /\ Quarter \in Nat \ {0} /\ 4 * Quarter = 2 * FreqBins * (FreqBins - 1)
         /\ Norm(v.min) \in Int /\ Within(Norm(v.min)) \in 0..4 * Quarter /\ Within(Norm(v.max)) \in 0..4 * Quarter
<1> USE RiverConstants
<1>1. PICK h \in Int : FreqBins = 2 * h
  <2> DEFINE i == FreqBins \div 2
             j == FreqBins % 2
  <2>1. FreqBins = 2 * i + j /\ i \in Int /\ j = 0
    OBVIOUS
  <2> HIDE DEF i, j
  <2>2. FreqBins = 2 * i
    BY <2>1
  <2> QED BY <2>1, <2>2
<1> DEFINE n == FreqBins - 1
           q == h * n
<1>2. h \in Nat \ {0} /\ n \in Nat \ {0}
  BY <1>1
<1>3. q \in Nat \ {0} /\ FreqBins * n = 2 * q + 0 /\ (2 * FreqBins) * n = 4 * q
  <2>1. \A x, y \in Nat \ {0} : x * y \in Nat \ {0} /\ (2 * x) * y = 2 * (x * y) /\ (2 * (2 * x)) * y = 4 * (x * y)
    OBVIOUS
  <2> HIDE DEF n
  <2>2. (2 * h) * n = 2 * q /\ (2 * (2 * h)) * n = 4 * q /\ q \in Nat \ {0}
    BY <1>2, <2>1
  <2> HIDE DEF q
  <2>3. FreqBins * n = 2 * q /\ (2 * FreqBins) * n = 4 * q
    BY <1>1, <2>2
  <2> QED BY <2>2, <2>3
<1>4. Quarter = q
  <2> HIDE DEF q
  <2>1. 2 \in Nat \ {0} /\ 0 \in 0..2 - 1 /\ q \in Nat
    BY <1>3
  <2>2. (2 * q + 0) \div 2 = q
    BY <2>1, QuotientIs
  <2> QED BY <1>3, <2>2 DEF Quarter
<1>5. Quarter \in Nat \ {0} /\ 4 * Quarter = 2 * FreqBins * (FreqBins - 1)
  BY <1>3, <1>4
<1> HIDE DEF q, n
<1>6. v.min \in Int /\ v.max \in Int
  BY RiverAssumption
<1>7. \A x \in Int : Norm(x) \in Int
  <2>1. \A y, z \in Int : y * z \in Int
    OBVIOUS
  <2> QED BY <1>5, <2>1 DEF Norm
<1>8. \A x \in Int : Within(x) \in 0..4 * Quarter
  BY <1>5 DEF Within
<1> QED BY <1>5, <1>6, <1>7, <1>8

\* The trace's bins are bins, if anything is drawn.
LEMMA TraceWithin ==
  ASSUME NEW v \in Viewports, Within(Norm(v.min)) < Within(Norm(v.max)), NEW k \in TraceBins(v)
  PROVE  k \in Places
<1> USE RiverConstants
<1> DEFINE low == Within(Norm(v.min))
           high == Within(Norm(v.max))
           n == FreqBins - 1
           d == 4 * Quarter
           first == (low * n) \div d
           last == (high * n) \div d
<1>1. low \in 0..d /\ high \in 0..d /\ low < high /\ n \in Nat \ {0} /\ d \in Nat \ {0}
  BY Heights
<1>2. first \in Nat /\ low * n = d * first + ((low * n) % d) /\ (low * n) % d \in 0..d - 1
      /\ last \in Nat /\ high * n = d * last + ((high * n) % d) /\ (high * n) % d \in 0..d - 1
  <2>1. \A x, y \in Nat : x * y \in Nat
    OBVIOUS
  <2>2. ASSUME NEW x \in Nat
        PROVE  x \div d \in Nat /\ x % d \in 0..d - 1 /\ x = d * (x \div d) + (x % d)
    <3> HIDE DEF d
    <3> QED BY <1>1, QuotientIsNatural
  <2> DEFINE x == low * n
             y == high * n
  <2>3. x \in Nat /\ y \in Nat
    <3> HIDE DEF low, high, n
    <3> QED BY <1>1, <2>1
  <2> HIDE DEF x, y, d
  <2>4. /\ x \div d \in Nat /\ x % d \in 0..d - 1 /\ x = d * (x \div d) + (x % d)
        /\ y \div d \in Nat /\ y % d \in 0..d - 1 /\ y = d * (y \div d) + (y % d)
    BY <2>2, <2>3
  <2> HIDE DEF low, high, n
  <2> QED BY <2>4, Zenon DEF x, y
<1>3. low * n <= (d - 1) * n /\ high * n <= d * n
  <2>1. \A x, y, z \in Nat : x <= y => x * z <= y * z
    OBVIOUS
  <2> HIDE DEF low, high, n, d
  <2> QED BY <1>1, <2>1
<1>4. first < n /\ last <= n
  <2>1. \A x, y, z \in Nat : /\ (x # 0 /\ z # 0 /\ x * y <= (x - 1) * z) => y < z
                             /\ (x # 0 /\ x * y <= x * z) => y <= z
    OBVIOUS
  <2> HIDE DEF low, high, n, d, first, last
  <2>2. d * first <= low * n /\ d * last <= high * n
    <3>2. \A x, y \in Nat : x * y \in Int
      OBVIOUS
    <3>3. d * first \in Int /\ d * last \in Int /\ low * n \in Int /\ high * n \in Int
      BY <1>1, <1>2, <3>2
    <3> DEFINE x == low * n
               y == high * n
               p == d * first
               q == d * last
               r == x % d
               z == y % d
    <3>1. x = p + r /\ y = q + z
      BY <1>2
    <3>4. r \in Int /\ r >= 0 /\ z \in Int /\ z >= 0
      <4>1. r \in 0..d - 1 /\ z \in 0..d - 1
        BY <1>2
      <4> HIDE DEF r, z
      <4> QED BY <1>1, <4>1
    <3>5. x \in Int /\ y \in Int /\ p \in Int /\ q \in Int
      BY <3>3
    <3> HIDE DEF x, y, p, q, r, z
    <3>6. p <= x /\ q <= y
      BY <3>1, <3>4, <3>5
    <3> QED BY <3>6 DEF x, y, p, q
  <2>3. d * first <= (d - 1) * n /\ d * last <= d * n
    <3>1. \A x, y, z \in Int : x <= y /\ y <= z => x <= z
      OBVIOUS
    <3>2. \A x, y \in Int : x * y \in Int
      OBVIOUS
    <3>3. /\ d * first \in Int /\ d * last \in Int /\ low * n \in Int /\ high * n \in Int
          /\ (d - 1) * n \in Int /\ d * n \in Int
      BY <1>1, <1>2, <3>2
    <3> QED BY <1>3, <2>2, <3>1, <3>3
  <2> QED BY <1>1, <1>2, <2>1, <2>3
<1>5. k \in first..(IF last <= first THEN first + 1 ELSE last)
  BY DEF TraceBins
<1> HIDE DEF low, high, first, last, d
<1> QED BY <1>2, <1>4, <1>5 DEF Places

\* River and trace differ in the height of bin k by as much as k is from the middle, twice.
LEMMA HeightsMeet ==
  ASSUME NEW v \in Viewports, NEW k \in Places
  PROVE  AbsVal(RiverHeight(k, v).at - TraceHeight(k, v)) <= FreqBins - 1
<1> USE RiverConstants
<1> DEFINE n == FreqBins - 1
           m == Norm(v.min)
           high == Within(Norm(v.max))
           d == 4 * Quarter
           source == (2 * (FreqBins - 1 - k) + 1) * (FreqBins - 1)
           t == k * 2 * FreqBins
<1>1. m \in Int /\ high \in Int /\ d \in Int /\ d = 2 * FreqBins * (FreqBins - 1) /\ k \in 0..FreqBins - 1
  BY Heights DEF Places
<1>2. d - source - t = n - 2 * k /\ source \in Int /\ t \in Int
  <2>1. \A f, i \in Int : /\ 2 * f * (f - 1) - (2 * (f - 1 - i) + 1) * (f - 1) - i * 2 * f = f - 1 - 2 * i
                          /\ (2 * (f - 1 - i) + 1) * (f - 1) \in Int /\ i * 2 * f \in Int
    OBVIOUS
  <2>2. FreqBins \in Int /\ k \in Int
    BY <1>1
  <2> QED BY <1>1, <2>1, <2>2
<1>3. RiverHeight(k, v).at = (high - m) - (source - (d - high)) /\ TraceHeight(k, v) = t - m
  BY DEF RiverHeight, TraceHeight
<1> HIDE DEF m, high, d, source, t
<1>4. RiverHeight(k, v).at - TraceHeight(k, v) = n - 2 * k
  BY <1>1, <1>2, <1>3
<1> QED BY <1>1, <1>4 DEF AbsVal

LEMMA DrawKept == ASSUME RiverInv, NEW v \in Viewports, Draw(v) PROVE RiverInv'
<1> USE RiverConstants
<1>1. SamplesInv /\ TakerInv /\ TunerInv /\ RowsInv /\ TextureInv /\ TraceBesideRiver
  BY DEF RiverInv
<1> DEFINE screen == [at |-> "screen", trace |-> [k \in TraceBins(v) |-> TraceHeight(k, v)],
                      river |-> [k \in Places |-> RiverHeight(k, v)]]
<1>2. /\ UNCHANGED <<iq, tuner>> /\ taker'.at = "idle"
      /\ river' = [river EXCEPT !.texture = TextureNow, !.dirty = FALSE]
      /\ picture' = IF Within(Norm(v.max)) <= Within(Norm(v.min)) THEN [at |-> "nothing"] ELSE screen
  BY DEF Draw
<1>3. /\ river'.rows = river.rows /\ river'.top = river.top /\ river'.added = river.added
      /\ river'.texture = TextureNow /\ river'.dirty = FALSE /\ DOMAIN river' = DOMAIN river
  BY <1>1, <1>2 DEF RowsInv
<1>4. SamplesInv' /\ TunerInv' /\ TakerInv'
  BY <1>1, <1>2 DEF SamplesInv, TunerInv, TakerInv, SamplesInOrder
<1>5. RowsInv'
  BY <1>1, <1>2, <1>3 DEF RowsInv, CellInv, Age, Stepped
<1>6. TextureInv'
  <2>1. ASSUME NEW f \in Places, NEW t \in Cols
        PROVE  TextureNow[f][t] = river.rows[ColumnRow(t)][FreqBins - 1 - f]
    BY <1>1 DEF TextureNow, TextureInv
  <2>2. \A t : ColumnRow(t)' = ColumnRow(t)
    BY <1>3 DEF ColumnRow
  <2> QED BY <1>3, <2>1, <2>2 DEF TextureInv
<1>7. TraceBesideRiver'
  <2> SUFFICES ASSUME picture'.at = "screen", NEW k \in DOMAIN picture'.trace
               PROVE  k \in Places /\ (picture'.river[k].in =>
                                         AbsVal(picture'.river[k].at - picture'.trace[k]) <= FreqBins - 1)
    BY DEF TraceBesideRiver
  <2>1. picture' = screen /\ Within(Norm(v.min)) < Within(Norm(v.max))
    BY <1>2, Heights
  <2>2. /\ k \in TraceBins(v) /\ picture'.trace[k] = TraceHeight(k, v)
        /\ \A j \in Places : picture'.river[j] = RiverHeight(j, v)
    BY <2>1
  <2>3. k \in Places
    BY <2>1, <2>2, TraceWithin
  <2>4. AbsVal(RiverHeight(k, v).at - TraceHeight(k, v)) <= FreqBins - 1
    BY <2>3, HeightsMeet
  <2> QED BY <2>2, <2>3, <2>4
<1> QED BY <1>4, <1>5, <1>6, <1>7 DEF RiverInv

LEMMA RiverStarts == ASSUME RiverInit PROVE RiverInv
<1> USE RiverConstants
<1>1. SamplesInv
  <2>1. iq = [ring |-> [k \in Places |-> [n |-> k + 1 - FreqBins, lo |-> 0]], pos |-> 0, count |-> 0]
    BY DEF RiverInit
  <2>2. ASSUME NEW k \in Places
        PROVE  [n |-> k + 1 - FreqBins, lo |-> 0] \in Sample
    BY DEF Places, Sample
  <2>3. iq.ring \in [Places -> Sample] /\ iq.pos \in Places /\ iq.count \in Nat
    <3> DEFINE ring == [k \in Places |-> [n |-> k + 1 - FreqBins, lo |-> 0]]
    <3>1. ring \in [Places -> Sample]
      BY <2>2
    <3>2. iq.ring = ring /\ iq.pos = 0 /\ iq.count = 0
      BY <2>1
    <3> HIDE DEF ring
    <3> QED BY <3>1, <3>2 DEF Places
  <2>4. iq.count = FreqBins * 0 + iq.pos /\ 0 \in Int
    BY <2>1
  <2>5. ASSUME NEW k \in Places
        PROVE  iq.ring[k].n = IF k < iq.pos THEN iq.count - iq.pos + 1 + k ELSE iq.count - iq.pos + 1 + k - FreqBins
    BY <2>1 DEF Places
  <2> QED BY <2>3, <2>4, <2>5 DEF SamplesInv
<1>2. TakerInv
  BY DEF RiverInit, TakerInv, SamplesInOrder
<1>3. TunerInv
  BY DEF RiverInit, TunerInv, AbsVal
<1>4. RowsInv
  <2>1. /\ DOMAIN river = {"rows", "top", "added", "dirty", "texture"} /\ river.top = 0 /\ river.added = 0
        /\ river.rows = [r \in Cols |-> Blank]
    BY DEF RiverInit
  <2>2. \A r \in Cols, k \in Places : river.rows[r][k] = Empty
    BY <2>1 DEF Blank
  <2> QED BY <2>1, <2>2 DEF RowsInv, CellInv, Stepped, Cols
<1>5. TextureInv
  BY DEF RiverInit, TextureInv
<1>6. TraceBesideRiver
  BY DEF RiverInit, TraceBesideRiver
<1> QED BY <1>1, <1>2, <1>3, <1>4, <1>5, <1>6 DEF RiverInv

LEMMA RiverKept == ASSUME RiverInv, [RiverNext]_riverVars PROVE RiverInv'
<1>1. CASE RiverNext
  <2>1. ASSUME NEW step \in TuneSteps, TuneBy(step) \/ TuneBy(-step) PROVE RiverInv'
    <3>1. step \in Int /\ -step \in Int
      BY RiverConstants
    <3> QED BY <2>1, <3>1, TuneByKept
  <2>2. ASSUME NEW v \in Viewports, Draw(v) PROVE RiverInv'
    BY <2>2, DrawKept
  <2> QED BY <1>1, <2>1, <2>2, HearKept, BeginSpectrumKept, CopySampleKept, AddRowKept, TwinTunesKept DEF RiverNext
<1>2. CASE UNCHANGED riverVars
  <2>1. SamplesInv /\ TakerInv /\ TunerInv /\ RowsInv /\ TextureInv /\ TraceBesideRiver
    BY DEF RiverInv
  <2>2. UNCHANGED <<iq, taker, tuner, river, picture>>
    BY <1>2 DEF riverVars
  <2>3. SamplesInv' /\ TakerInv' /\ TunerInv' /\ TextureInv' /\ TraceBesideRiver'
    BY <2>1, <2>2 DEF SamplesInv, TakerInv, SamplesInOrder, TurnByTurn, TunerInv, TextureInv, ColumnRow, TraceBesideRiver
  <2>4. RowsInv'
    BY <2>1, <2>2 DEF RowsInv, CellInv, Age, Stepped
  <2> QED BY <2>3, <2>4 DEF RiverInv
<1> QED BY <1>1, <1>2

\* What the river keeps: the rows in their ring, each cell at a frequency and an age, and the texture made of
\* them (RiverRenderer::addRow(), shiftFrequency(), updateRiverTexture()).
THEOREM RiverInvariant == RiverSpec => []RiverInv
<1>1. RiverInit => RiverInv
  BY RiverStarts
<1>2. RiverInv /\ [RiverNext]_riverVars => RiverInv'
  BY RiverKept
<1> QED BY <1>1, <1>2, PTL DEF RiverSpec

LEMMA RiverIsRight == ASSUME RiverInv PROVE RiverRight
<1> USE RiverConstants
<1>1. SamplesInv /\ TakerInv /\ TunerInv /\ RowsInv /\ TextureInv /\ TraceBesideRiver
  BY DEF RiverInv
<1>2. RowsInPlace
  <2> SUFFICES ASSUME ~river.dirty, NEW t \in Cols, NEW f \in Places, river.texture[f][t] # Empty
               PROVE  LET cell == river.texture[f][t]
                      IN /\ cell.row = river.added - (Depth - 1 - t)
                         /\ ~cell.late => 2 * AbsVal(cell.freq - ShownAt(f)) <= HzPerBin * (tuner.count - cell.since)
                         /\ \A g \in f + 1..FreqBins - 1 :
                              river.texture[g][t] # Empty => river.texture[g][t].freq = cell.freq - (g - f) * HzPerBin
    BY DEF RowsInPlace
  <2> DEFINE r == ColumnRow(t)
             a == Depth - 1 - t
             k == FreqBins - 1 - f
             cell == river.texture[f][t]
  <2>1. river.top \in 0..Depth - 1 /\ t \in 0..Depth - 1 /\ a \in 0..Depth - 1 /\ f \in 0..FreqBins - 1
        /\ k \in Places /\ k \in Int
    BY <1>1 DEF RowsInv, Cols, Places
  <2>2. r = (IF a <= river.top THEN river.top - a ELSE river.top - a + Depth) /\ r \in 0..Depth - 1
    <3>1. CASE a <= river.top
      <4> DEFINE x == river.top - a
      <4>1. x \in 0..Depth - 1 /\ x + Depth = Depth * 1 + x
        BY <2>1, <3>1
      <4>2. r = (x + Depth) % Depth
        BY DEF ColumnRow
      <4> HIDE DEF x, r
      <4>3. (Depth * 1 + x) % Depth = x
        BY <4>1, ModUnique
      <4>4. r = x
        BY <4>1, <4>2, <4>3
      <4> QED BY <3>1, <4>1, <4>4 DEF x
    <3>2. CASE a > river.top
      <4>1. river.top - a + Depth \in 0..Depth - 1
        BY <2>1, <3>2
      <4>2. (river.top - a + Depth) % Depth = river.top - a + Depth
        BY <4>1, ModSmall
      <4> QED BY <2>1, <3>2, <4>1, <4>2 DEF ColumnRow
    <3> QED BY <2>1, <3>1, <3>2
  <2>3. Age(r) = a /\ r \in Cols
    <3> HIDE DEF r, a
    <3> QED BY <2>1, <2>2 DEF Age, Cols
  <2>4. \A g \in Places : river.texture[g][t] = river.rows[r][FreqBins - 1 - g]
    BY <1>1 DEF TextureInv
  <2>5. cell = river.rows[r][k] /\ cell # Empty
    BY <2>4
  <2>6. CellInv(river.rows[r][k], r, k) /\ Stepped(river.rows[r])
    <3> HIDE DEF r, k
    <3> QED BY <1>1, <2>1, <2>3 DEF RowsInv
  <2>7. /\ cell.row = river.added - a
        /\ cell.freq \in Int
        /\ ~cell.late => 2 * AbsVal(cell.freq - ShownAt(f)) <= HzPerBin * (tuner.count - cell.since)
    <3>1. CellInv(cell, r, k)
      BY <2>5, <2>6
    <3> HIDE DEF cell, r
    <3> QED BY <2>3, <2>5, <3>1 DEF CellInv, ShownAt
  <2>8. ASSUME NEW g \in f + 1..FreqBins - 1, river.texture[g][t] # Empty
        PROVE  river.texture[g][t].freq = cell.freq - (g - f) * HzPerBin
    <3> DEFINE j == FreqBins - 1 - g
    <3>1. g \in Places /\ j \in Places /\ g \in Int /\ f \in Int /\ j - k = f - g
      BY <2>1 DEF Places
    <3>2. river.texture[g][t] = river.rows[r][j]
      BY <2>4, <3>1
    <3> HIDE DEF j, k, r
    <3>3. river.rows[r][j].freq = river.rows[r][k].freq + (j - k) * HzPerBin
      BY <2>1, <2>5, <2>6, <2>8, <3>1, <3>2 DEF Stepped
    <3>4. \A x, y, z, p \in Int : p + (y - x) * z = p - (x - y) * z
      OBVIOUS
    <3> HIDE DEF cell
    <3>5. cell.freq + (f - g) * HzPerBin = cell.freq - (g - f) * HzPerBin
      BY <2>7, <3>1, <3>4
    <3> QED BY <2>5, <3>1, <3>2, <3>3, <3>5
  <2> QED BY <2>7, <2>8
<1> QED BY <1>1, <1>2 DEF TakerInv, RiverRight

\* For every depth of the river, every number and width of bins and every tuning: the rows are the last ones in
\* order, each cell at its frequency to half a bin for each tuning since, and the trace beside it agrees
\* (RiverRenderer.cpp, and the sample ring of DSPEngine.cpp).
THEOREM RiverAlwaysRight == RiverSpec => []RiverRight
BY RiverInvariant, RiverIsRight, PTL

----------------------------------------------------------------------------
\* What TLC checks of the signals the twin mixes and of their reception, of every value of the constants.

\* The signals of script and command line, the mix of them and the voices among them (StimulusLua.cpp,
\* StimulusManager.cpp, TTSEngine.cpp).
THEOREM StimuliAlwaysRight == MixSpec /\ ScriptSpec /\ SpeechSpec => []StimuliRight
<1>1. MixRight /\ ScriptInv /\ SpeechInv => StimuliRight
  BY ScriptIsRight, VoicesAreApart DEF StimuliRight
<1> QED BY <1>1, MixAlwaysRight, ScriptInvariant, SpeechInvariant, PTL

\* Audio and river, while the receiver is tuned and turned (DSPEngine.cpp, BasebandFilter.cpp,
\* RiverRenderer.cpp).
THEOREM ReceptionAlwaysRight == BasebandSpec /\ RiverSpec => []ReceptionRight
<1>1. BasebandRight /\ RiverRight => ReceptionRight
  BY DEF ReceptionRight
<1> QED BY <1>1, BasebandAlwaysRight, RiverAlwaysRight, PTL
=============================================================================
