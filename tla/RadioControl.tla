---------------------------- MODULE RadioControl ----------------------------
(***************************************************************************)
(* The firmware's control plane: the main loop takes one request at a time *)
(* from the USB serial port and sets the CPLDs, the DSP, the front end,    *)
(* the synthesizer and the ADCs' gains; the AGC sets attenuation and gains *)
(* from the pump thread, which comes between any two of its steps.         *)
(*                                                                         *)
(* A request is a record; one that cannot be decoded, or is not known, is  *)
(* "other".  A write on the SPI or I2C bus may fail, which nothing reports *)
(* to the host: what the chip holds then is Unknown.  Ports are ready.     *)
(* The eight PGA channels are those of two devices, set one device after   *)
(* the other.  AGC gains are in thousandths of a dB.                       *)
(***************************************************************************)
EXTENDS Synthesizer, CpldLink

CONSTANTS
  Tunings,      \* records [freq, offset, span] in kHz
  Attens,       \* requested attenuations, dB
  PgaCodes,     \* requested PGA gains
  Peaks,        \* how far a peak is above the AGC's target, dB
  MaxReceived,  \* bound on requests
  MaxReflexes   \* bound on the AGC's turns

\* A VFO at its offset, or below it, asks for a clock of nought or of the fallback: setVFOFrequency()
\* divides by it. One below about 160 kHz wants a PLL under four times the reference (80 at eight phases).
ASSUME RadioAssumption ==
  /\ Attens \subseteq Int /\ PgaCodes \subseteq Int /\ Peaks \subseteq Int
  /\ \A t \in Tunings :
       /\ t.freq \in Nat /\ t.offset \in Nat /\ t.span \in Nat /\ t.freq > t.offset
       /\ \A fourPhase \in BOOLEAN, k \in 1..2 : PllFits(ClockTargets(t.freq, t.offset, fourPhase)[k])

VARIABLES
  handler,   \* what the main thread is doing, and for which request
  clockMode, \* the handler's currentFourPhaseMode, and the DSP's
  cplds,     \* DONE, how many phases they generate, the chip selects
  frontEnd,  \* attenuator pads, filter bank, high-pass bypass, and what GET_STATE reports of the first
  lo,        \* the registers of the two oscillators, by the clock they were set for, or Unknown
  gains,     \* PGA gain of each device, or Unknown
  agc,       \* AGCManager
  reply,     \* the last answer, and how many there were
  past       \* the mode of the last viewport on one side; interrupted setters; a mode sent to the CPLDs

radioVars == <<handler, clockMode, cplds, frontEnd, lo, gains, agc, reply, past>>

Manual == 3  \* AGCManager::Mode: FAST, MEDIUM, SLOW, MANUAL

\* What a write leaves that fails.
Unknown == -1

\* Configured CPLDs stay so when the controller starts again, and no reset clears their registers.
CpldsAtStart == [done : BOOLEAN, fourPhase : BOOLEAN, selected : {FALSE}]

\* After main()'s initialisation, with or without configured CPLDs.
RadioInit ==
  /\ handler = [at |-> "idle", received |-> 0, reflexes |-> 0]
  /\ clockMode = [handler |-> FALSE, dsp |-> FALSE]
  /\ cplds \in CpldsAtStart
  /\ frontEnd = [pads |-> {}, atten |-> 0, bpf |-> 0, bypass |-> FALSE]
  /\ lo = ClockTargets(14200, 12, FALSE)
  /\ gains = <<0, 0>>
  /\ agc = [mode |-> Manual, gain |-> 0, applied |-> -1000]
  /\ reply = [is |-> "none", count |-> 0]
  /\ past = [fourPhase |-> FALSE, padsCrossed |-> FALSE, gainsCrossed |-> FALSE, told |-> FALSE]

----------------------------------------------------------------------------
\* FrontEndDriver: the pads that make up an attenuation, the largest first.
Rounded(db) == 3 * (Clamped(db, 0, 45) \div 3)

PadsFor(db) ==
  LET with24 == IF Rounded(db) >= 24 THEN {24} ELSE {}
      with12 == IF Rounded(db) % 24 >= 12 THEN {12} ELSE {}
      with6  == IF Rounded(db) % 12 >= 6 THEN {6} ELSE {}
      with3  == IF Rounded(db) % 6 >= 3 THEN {3} ELSE {}
  IN with24 \cup with12 \cup with6 \cup with3

PadsValue(pads) == LET In(d) == IF d \in pads THEN d ELSE 0 IN In(3) + In(6) + In(12) + In(24)

\* selectFilterBand(): the first bank that holds the frequency, or the nearest.
BankFor(freq) ==
  CASE freq < 3400 -> 1
    [] freq >= 3400 /\ freq < 7500 -> 2
    [] freq >= 7500 /\ freq < 14500 -> 3
    [] OTHER -> 4

\* setPGAGain(): the code as a byte, limited to 42 dB.
PgaGain(code) == Clamped(code % 256, 0, 42)

----------------------------------------------------------------------------
\* process() reads whatever the port holds and decodes one request from its start.
Requests ==
  {[is |-> "SET_VFO", tuning |-> t] : t \in Tunings}
    \cup {[is |-> "SET_ATTEN", db |-> d] : d \in Attens}
    \cup {[is |-> "SET_PGA_GAIN", code |-> c] : c \in PgaCodes}
    \cup {[is |-> "SET_AGC_MODE", mode |-> m] : m \in {0, 1, Manual}}
    \cup {[is |-> "SET_BPF_SELECT", bank |-> 2]}
    \cup {[is |-> "SET_HPF_BYPASS", bypass |-> b] : b \in BOOLEAN}
    \cup {[is |-> "GET_STATE"], [is |-> "GET_VERSION"], [is |-> "LOAD_CPLD"], [is |-> "other"]}

Receive(request) ==
  /\ handler.at = "idle" /\ handler.received < MaxReceived
  /\ handler' = [at |-> request.is, request |-> request, received |-> handler.received + 1,
                 reflexes |-> handler.reflexes]
  /\ UNCHANGED <<clockMode, cplds, frontEnd, lo, gains, agc, reply, past>>

Idle == [at |-> "idle", received |-> handler.received, reflexes |-> handler.reflexes]
Goes(to) == handler' = [handler EXCEPT !.at = to]

\* sendSuccessResponse(), once the request is handled; some are done without.
Answer(what) == reply' = [is |-> what, count |-> reply.count + 1]
Succeed ==
  /\ handler.at = "succeed"
  /\ Answer("success") /\ handler' = Idle
  /\ UNCHANGED <<clockMode, cplds, frontEnd, lo, gains, agc, past>>

\* Nothing answers what is not understood.
Ignore ==
  /\ handler.at = "other"
  /\ handler' = Idle
  /\ UNCHANGED <<clockMode, cplds, frontEnd, lo, gains, agc, reply, past>>

\* sendVersionResponse(): the versions are constants.
GetVersion ==
  /\ handler.at = "GET_VERSION"
  /\ Answer([ready |-> cplds.done])
  /\ handler' = Idle
  /\ UNCHANGED <<clockMode, cplds, frontEnd, lo, gains, agc, past>>

\* sendStateResponse().
GetState ==
  /\ handler.at = "GET_STATE"
  /\ Answer([atten |-> frontEnd.atten, bpf |-> frontEnd.bpf, bypass |-> frontEnd.bypass,
             fourPhase |-> clockMode.handler, ready |-> cplds.done])
  /\ handler' = Idle
  /\ UNCHANGED <<clockMode, cplds, frontEnd, lo, gains, agc, past>>

----------------------------------------------------------------------------
\* A plausible slip: the viewport's edge on the boundary counts as above it.
ModeAtEdge(tuning, now) ==
  LET low == 2 * tuning.freq - tuning.span
      high == 2 * tuning.freq + tuning.span
  IN IF low >= 30000 THEN TRUE ELSE IF high < 30000 THEN FALSE ELSE now

\* updateClockModeHysteresis(): four phases once the whole viewport is above 15 MHz, eight once it is
\* below, and otherwise as before.
ModeFor(tuning, now) ==
  LET low == 2 * tuning.freq - tuning.span
      high == 2 * tuning.freq + tuning.span
  IN IF low > 30000 THEN TRUE ELSE IF high < 30000 THEN FALSE ELSE now

\* What the viewport says of the mode, for the record in past.
Edges(tuning) == {2 * tuning.freq - tuning.span, 2 * tuning.freq + tuning.span}
WhollyAbove(tuning) == \A edge \in Edges(tuning) : edge > 30000
WhollyBelow(tuning) == \A edge \in Edges(tuning) : edge < 30000

\* The CPLDs are written to together, which leaves both unselected unless the bus is not ready. They
\* take the write for a read of the register, by its first bit (the "broadcast" of CpldLink): whatever
\* is sent, they go on as they are.
SwitchCplds ==
  /\ handler.at = "SET_VFO"
  /\ LET mode == ModeFor(handler.request.tuning, clockMode.handler)
     IN IF mode = clockMode.handler THEN Goes("tune") /\ UNCHANGED <<clockMode, cplds, past>>
        ELSE /\ clockMode' = [clockMode EXCEPT !.handler = mode]
             /\ \/ UNCHANGED cplds /\ past' = [past EXCEPT !.told = FALSE]
                \/ \E sent \in BOOLEAN : /\ cplds' = [cplds EXCEPT !.selected = FALSE]
                                        /\ past' = [past EXCEPT !.told = sent /\ cplds.done]
             /\ Goes("switch dsp")
  /\ UNCHANGED <<frontEnd, lo, gains, agc, reply>>

SwitchDsp ==
  /\ handler.at = "switch dsp"
  /\ clockMode' = [clockMode EXCEPT !.dsp = clockMode.handler]
  /\ Goes("tune")
  /\ UNCHANGED <<cplds, frontEnd, lo, gains, agc, reply, past>>

\* selectFilterBand() and setVFOFrequency(), of which either oscillator's writes may fail.
Tune ==
  /\ handler.at = "tune"
  /\ LET tuning == handler.request.tuning
         targets == ClockTargets(tuning.freq, tuning.offset, clockMode.handler)
     IN /\ frontEnd' = [frontEnd EXCEPT !.bypass = tuning.freq < 1750, !.bpf = BankFor(tuning.freq)]
        /\ \E ok \in [1..2 -> BOOLEAN] : lo' = [k \in 1..2 |-> IF ok[k] THEN targets[k] ELSE Unknown]
        /\ past' = [past EXCEPT !.fourPhase = (@ \/ WhollyAbove(tuning)) /\ ~WhollyBelow(tuning)]
  /\ Goes("succeed")
  /\ UNCHANGED <<clockMode, cplds, gains, agc, reply>>

\* setAttenuation(), in two halves: the large pads, then the small ones and the record.
SetLargePads ==
  /\ handler.at = "SET_ATTEN"
  /\ frontEnd' = [frontEnd EXCEPT !.pads = (@ \cap {3, 6}) \cup (PadsFor(handler.request.db) \cap {12, 24})]
  /\ past' = [past EXCEPT !.padsCrossed = FALSE]
  /\ Goes("small pads")
  /\ UNCHANGED <<clockMode, cplds, lo, gains, agc, reply>>

\* A plausible slip: what is reported is what was asked for.
SetSmallPadsUnrounded ==
  /\ handler.at = "small pads"
  /\ frontEnd' = [frontEnd EXCEPT !.pads = (@ \cap {12, 24}) \cup (PadsFor(handler.request.db) \cap {3, 6}),
                                  !.atten = handler.request.db]
  /\ Goes("succeed")
  /\ UNCHANGED <<clockMode, cplds, lo, gains, agc, reply, past>>

SetSmallPads ==
  /\ handler.at = "small pads"
  /\ frontEnd' = [frontEnd EXCEPT !.pads = (@ \cap {12, 24}) \cup (PadsFor(handler.request.db) \cap {3, 6}),
                                  !.atten = Rounded(handler.request.db)]
  /\ Goes("succeed")
  /\ UNCHANGED <<clockMode, cplds, lo, gains, agc, reply, past>>

\* TLV320ADC5140::setPGAGain(), one device after the other: a failure does not keep it from the next,
\* and the request succeeds all the same.
SetGainOf(device) ==
  /\ handler.at = IF device = 1 THEN "SET_PGA_GAIN" ELSE "second gain"
  /\ \E gain \in {PgaGain(handler.request.code), Unknown} : gains' = [gains EXCEPT ![device] = gain]
  /\ past' = IF device = 1 THEN [past EXCEPT !.gainsCrossed = FALSE] ELSE past
  /\ Goes(IF device = 1 THEN "second gain" ELSE "succeed")
  /\ UNCHANGED <<clockMode, cplds, frontEnd, lo, agc, reply>>

SetFilters ==
  /\ handler.at \in {"SET_BPF_SELECT", "SET_HPF_BYPASS"}
  /\ frontEnd' = IF handler.at = "SET_BPF_SELECT" THEN [frontEnd EXCEPT !.bpf = handler.request.bank]
                 ELSE [frontEnd EXCEPT !.bypass = handler.request.bypass]
  /\ Goes("succeed")
  /\ UNCHANGED <<clockMode, cplds, lo, gains, agc, reply, past>>

SetAgcMode ==
  /\ handler.at = "SET_AGC_MODE"
  /\ agc' = [agc EXCEPT !.mode = handler.request.mode]
  /\ Goes("succeed")
  /\ UNCHANGED <<clockMode, cplds, frontEnd, lo, gains, reply, past>>

----------------------------------------------------------------------------
\* programBitstream(): a bus that is not ready changes nothing; then the CPLDs are reset, which takes
\* their configuration, with both selected.
ResetCplds ==
  /\ handler.at = "LOAD_CPLD"
  /\ \/ handler' = Idle /\ UNCHANGED <<cplds, past>>
     \/ /\ cplds' = [cplds EXCEPT !.done = FALSE, !.selected = TRUE]
        /\ past' = [past EXCEPT !.told = FALSE]
        /\ Goes("stream")
  /\ UNCHANGED <<clockMode, frontEnd, lo, gains, agc, reply>>

\* A failed transfer leaves at once; after a whole one the CPLDs may or may not take it. The control
\* register has no reset: how many phases they begin with is theirs.
StreamBitstream ==
  /\ handler.at = "stream"
  /\ \/ handler' = Idle /\ UNCHANGED cplds
     \/ \E done \in BOOLEAN, fourPhase \in BOOLEAN :
          /\ cplds' = [done |-> done, fourPhase |-> fourPhase, selected |-> FALSE]
          /\ IF done THEN Goes("validate") ELSE handler' = Idle
  /\ UNCHANGED <<clockMode, frontEnd, lo, gains, agc, reply, past>>

\* readBothSignatures(): no answer either if one of them is wrong.
ValidateSignatures ==
  /\ handler.at = "validate"
  /\ Goes("succeed") \/ handler' = Idle
  /\ UNCHANGED <<clockMode, cplds, frontEnd, lo, gains, agc, reply, past>>

----------------------------------------------------------------------------
\* processReflex() on a peak so many dB from the target.
Decay(mode) == IF mode = 0 THEN 50 ELSE IF mode = 1 THEN 10 ELSE 1

GainAfter(peak) ==
  Clamped(agc.gain - peak * (IF peak > 0 THEN 500 ELSE Decay(agc.mode)), 0, 60000)

\* setTotalGain(): how much of the gain becomes attenuation, and the rest.
AttenOf(gain) == Clamped(3 * (gain \div 3000), 0, 45)
PgaOf(gain) == Clamped((gain - 1000 * AttenOf(gain)) \div 1000, 0, 42)

\* Nothing happens below half a dB of change, and any of the gains' writes may fail.
Distance(a, b) == IF a > b THEN a - b ELSE b - a

Reflex(peak) ==
  /\ handler.reflexes < MaxReflexes
  /\ handler' = [handler EXCEPT !.reflexes = @ + 1]
  /\ agc.mode # Manual
  /\ LET gain == GainAfter(peak)
         applies == Distance(gain, agc.applied) > 500
     IN /\ agc' = [agc EXCEPT !.gain = gain, !.applied = IF applies THEN gain ELSE @]
        /\ IF applies
           THEN /\ frontEnd' = [frontEnd EXCEPT !.pads = PadsFor(AttenOf(gain)), !.atten = AttenOf(gain)]
                /\ \E ok \in [1..2 -> BOOLEAN] :
                     gains' = [d \in 1..2 |-> IF ok[d] THEN PgaGain(PgaOf(gain)) ELSE Unknown]
                /\ past' = [past EXCEPT !.padsCrossed = @ \/ handler.at = "small pads",
                                        !.gainsCrossed = @ \/ handler.at = "second gain"]
           ELSE UNCHANGED <<frontEnd, gains, past>>
  /\ UNCHANGED <<clockMode, cplds, lo, reply>>

RadioNext ==
  \/ \E request \in Requests : Receive(request)
  \/ \E device \in 1..2 : SetGainOf(device)
  \/ \E peak \in Peaks : Reflex(peak)
  \/ Succeed \/ Ignore \/ GetState \/ GetVersion \/ SwitchCplds \/ SwitchDsp \/ Tune
  \/ SetLargePads \/ SetSmallPads \/ SetFilters \/ SetAgcMode
  \/ ResetCplds \/ StreamBitstream \/ ValidateSignatures

RadioSpec == RadioInit /\ [][RadioNext]_radioVars

----------------------------------------------------------------------------
Quiet == handler.at \in {"idle", "succeed"}

\* Handler and DSP are in one mode, that of the last viewport wholly on one side of 15 MHz.
ModesAgree == Quiet => clockMode.handler = past.fourPhase /\ clockMode.dsp = clockMode.handler

\* The pads are the attenuation GET_STATE reports, and both ADCs have one gain, unless the AGC came in
\* the middle of a setter or a gain's write failed.
FrontEndAsReported ==
  Quiet => /\ ~past.padsCrossed => PadsValue(frontEnd.pads) = frontEnd.atten
           /\ ~past.gainsCrossed /\ Unknown \notin {gains[1], gains[2]} => gains[1] = gains[2]

\* After a tuning, the registers of an oscillator whose writes went through give it the clock that the
\* phases the DSP works with divide to the tuned frequency less or plus the offset, and the bank in front
\* passes it.
BankPasses(bank, freq) ==
  CASE bank = 1 -> freq < 3400 [] bank = 2 -> freq \in 3200..7500
    [] bank = 3 -> freq \in 7300..14500 [] bank = 4 -> freq >= 14300

TunedWhole ==
  handler.at = "succeed" /\ handler.request.is = "SET_VFO" =>
    LET tuning == handler.request.tuning
        divided == Phases(clockMode.dsp)
    IN /\ \A k \in 1..2 : lo[k] # Unknown =>
            /\ lo[k] = (IF k = 1 THEN tuning.freq - tuning.offset ELSE tuning.freq + tuning.offset) * divided
            /\ GivesClock(Registers(lo[k]), lo[k])
       /\ BankPasses(frontEnd.bpf, tuning.freq)

\* A load that fails may leave both CPLDs selected, but then they hold no configuration and take in no
\* register.
ChipsReleased == Quiet /\ cplds.selected => ~cplds.done

RadioRight == ModesAgree /\ FrontEndAsReported /\ TunedWhole /\ ChipsReleased

\* What a request or the AGC sets is set on all the chips but the CPLDs, where their writes go through;
\* and over the link the signature and a frozen count are read whole, reads and the firmware's
\* transactions changing no register: ControlHandler and its drivers, the CPLD's register interface.
ControlRight == RadioRight /\ CpldRight

\* A mode sent to configured CPLDs without failure is the one they generate (doc/CPLD.md: software
\* switches them to four phases above 15 MHz and to eight below): setClockMode() and top.sv.
CpldsFollow == Quiet /\ past.told => cplds.fourPhase = clockMode.handler
=============================================================================
