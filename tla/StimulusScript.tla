--------------------------- MODULE StimulusScript ---------------------------
(***************************************************************************)
(* StimulusLua.cpp and the start of runFunctionalMode(): a Lua script      *)
(* registers the signals at the antenna, a recording given on the command  *)
(* line and a broadcast carrier join them, and the list is frozen.         *)
(*                                                                         *)
(* A call is its function, the name, and what of its table decides the     *)
(* outcome: which source of audio it names and whether the file loads.     *)
(* Frequencies, levels and texts are left out.                             *)
(***************************************************************************)
EXTENDS StimulusMix, Speech

CONSTANTS SignalNames, \* names the script uses
          MaxCalls     \* bound: calls of the script

ASSUME StimulusScriptAssumption == MaxCalls \in Nat

VARIABLES
  setup,  \* "script", "wav", "broadcast", "streaming": how far the twin's start-up is
  calls,  \* the calls so far
  signals,\* StimulusLua's manager: what each name stands for
  manager,\* the twin's stimulusManager: "none", "script's" or "own", with the signals added in C++
  listed  \* frozen, and the names of the frozen list

scriptVars == <<setup, calls, signals, manager, listed>>

Absent == [source |-> "absent", loops |-> FALSE, on |-> FALSE]
Signal(source, loops) == [source |-> source, loops |-> loops, on |-> TRUE]
NotFrozen == [frozen |-> FALSE, names |-> {}]

Plain == {[fn |-> f, name |-> n, loop |-> l] :
            f \in {"addMorse", "addTone", "addSweep", "addNoise"}, n \in SignalNames, l \in {TRUE, FALSE}}
Audio == {[fn |-> f, name |-> n, tones |-> t, voice |-> v, file |-> w, loop |-> TRUE] :
            f \in {"addSsb", "addAm"}, n \in SignalNames, t \in BOOLEAN, v \in BOOLEAN,
            w \in {"none", "loads", "fails"}}
Capture == {[fn |-> "addRFCapture", name |-> n, file |-> w, loop |-> TRUE] :
              n \in SignalNames, w \in {"pathless", "loads", "fails"}}
Other == {[fn |-> f, name |-> n] : f \in {"remove", "disable", "enable", "clear", "raises"},
                                   n \in SignalNames}
Calls == Plain \cup Audio \cup Capture \cup Other

ScriptInit ==
  /\ setup = "script" /\ calls = <<>>
  /\ signals = [n \in SignalNames |-> Absent]
  /\ manager = [from |-> "none", own |-> {}] /\ listed = NotFrozen

----------------------------------------------------------------------------
(* The functions of the table "stimulus".                                  *)

Put(c, signal) == [signals EXCEPT ![c.name] = signal]

AddMorse(c) == Put(c, Signal("keyed", c.loop))
AddTone(c) == Put(c, Signal("tones", TRUE))
AddSweep(c) == Put(c, Signal("sweep", c.loop))
AddNoise(c) == Put(c, Signal("noise", TRUE))

\* The name is given a signal without a source.
FromFileRegardless(c) ==
  Put(c, Signal(IF c.file = "loads" THEN "samples" ELSE "none", c.loop))

\* A file that does not load leaves the name as it was.
FromFile(c) == IF c.file = "loads" THEN Put(c, Signal("samples", c.loop)) ELSE signals

\* Tones before a voice, a voice before a file, one tone without any.
AddSsb(c) ==
  CASE c.tones -> Put(c, Signal("tones", TRUE))
    [] ~c.tones /\ c.voice -> Put(c, Signal("voice", c.loop))
    [] ~c.tones /\ ~c.voice /\ c.file # "none" -> FromFile(c)
    [] OTHER -> Put(c, Signal("tones", TRUE))

\* The same without voices.
AddAm(c) ==
  CASE c.tones -> Put(c, Signal("tones", TRUE))
    [] ~c.tones /\ c.file # "none" -> FromFile(c)
    [] OTHER -> Put(c, Signal("tones", TRUE))

\* Without a path the call raises a Lua error (RunCall stops the script).
AddRFCapture(c) == IF c.file = "loads" THEN Put(c, Signal("samples", c.loop)) ELSE signals

RemoveAndSwitch(c) ==
  CASE c.fn = "remove" -> [signals EXCEPT ![c.name] = Absent]
    [] c.fn = "clear" -> [n \in SignalNames |-> Absent]
    [] c.fn = "enable" -> [signals EXCEPT ![c.name].on = @ \/ signals[c.name] # Absent]
    [] OTHER -> [signals EXCEPT ![c.name].on = FALSE]

----------------------------------------------------------------------------
(* loadScript() and what follows it.                                       *)

Raises(c) == c.fn = "raises" \/ (c.fn = "addRFCapture" /\ c.file = "pathless")

RunCall(c) ==
  /\ setup = "script" /\ Len(calls) < MaxCalls /\ ~Raises(c)
  /\ signals' = CASE c.fn = "addMorse" -> AddMorse(c) [] c.fn = "addTone" -> AddTone(c)
                  [] c.fn = "addSweep" -> AddSweep(c) [] c.fn = "addNoise" -> AddNoise(c)
                  [] c.fn = "addSsb" -> AddSsb(c) [] c.fn = "addAm" -> AddAm(c)
                  [] c.fn = "addRFCapture" -> AddRFCapture(c)
                  [] OTHER -> RemoveAndSwitch(c)
  /\ calls' = Append(calls, c)
  /\ UNCHANGED <<setup, manager, listed>>

\* An error anywhere in the script: the twin does without all of it.
ScriptFails(c) ==
  /\ setup = "script" /\ Len(calls) < MaxCalls /\ Raises(c)
  /\ setup' = "wav" /\ calls' = Append(calls, c)
  /\ UNCHANGED <<signals, manager, listed>>

Mixed == [frozen |-> TRUE,
          names |-> (IF manager'.from = "script's" THEN {n \in SignalNames : signals[n].on} ELSE {})
                    \cup manager'.own]

ScriptEnds ==
  /\ setup = "script"
  /\ setup' = "wav" /\ manager' = [manager EXCEPT !.from = "script's"] /\ listed' = Mixed
  /\ UNCHANGED <<calls, signals>>

\* --no-stimulus, or no such file.
NoScript ==
  /\ setup = "script" /\ calls = <<>>
  /\ setup' = "wav" /\ UNCHANGED <<calls, signals, manager, listed>>

\* --wav-iq: a manager of its own if the script gave none, even when the file does not load.
PlayWav(loads) ==
  /\ setup = "wav"
  /\ setup' = "broadcast"
  /\ manager' = [from |-> IF manager.from = "none" THEN "own" ELSE manager.from,
                 own |-> IF loads THEN {"wav-iq"} ELSE {}]
  /\ listed' = IF loads THEN Mixed ELSE listed
  /\ UNCHANGED <<calls, signals>>

NoWav == setup = "wav" /\ setup' = "broadcast" /\ UNCHANGED <<calls, signals, manager, listed>>

\* The broadcast carrier joins what there is; nothing is streamed where there is no manager.
AddBroadcast ==
  /\ setup = "broadcast"
  /\ setup' = "streaming"
  /\ manager' = IF manager.from = "none" THEN manager
                ELSE [manager EXCEPT !.own = @ \cup {"am-broadcast"}]
  /\ listed' = IF manager.from = "none" THEN listed ELSE Mixed
  /\ UNCHANGED <<calls, signals>>

ScriptNext ==
  \/ \E c \in Calls : RunCall(c) \/ ScriptFails(c)
  \/ ScriptEnds \/ NoScript
  \/ (\E loads \in BOOLEAN : PlayWav(loads)) \/ NoWav \/ AddBroadcast

ScriptSpec == ScriptInit /\ [][ScriptNext]_scriptVars

----------------------------------------------------------------------------
Sets(c, n) ==
  \/ c.fn = "clear"
  \/ c.fn = "remove" /\ c.name = n
  \/ c.fn \in {"addMorse", "addTone", "addSweep", "addNoise"} /\ c.name = n
  \/ c.fn = "addRFCapture" /\ c.name = n /\ c.file = "loads"
  \/ c.fn = "addAm" /\ c.name = n /\ (c.tones \/ c.file # "fails")
  \/ c.fn = "addSsb" /\ c.name = n /\ (c.tones \/ c.voice \/ c.file # "fails")

\* A name stands for what the latest call that could do as it said made of it, and a modulated
\* signal has its audio.
LatestCallStands ==
  \A n \in SignalNames :
    LET effective == {i \in DOMAIN calls : Sets(calls[i], n)}
        last == CHOOSE i \in effective : \A j \in effective : j <= i
    IN /\ signals[n].source # "none"
       /\ signals[n] = Absent <=> (effective = {} \/ calls[last].fn \in {"clear", "remove"})

\* The twin streams a whole script or none of it, and never the list of before the last addition.
WholeScriptOrNone ==
  setup = "streaming" =>
    /\ manager.from = "none" <=> ~listed.frozen
    /\ manager.from # "none" =>
         listed.names = manager.own \cup (IF \E i \in DOMAIN calls : Raises(calls[i]) THEN {}
                          ELSE IF manager.from = "own" THEN {}
                          ELSE {n \in SignalNames : signals[n].on})
    /\ (\E i \in DOMAIN calls : Raises(calls[i])) => manager.from # "script's"

\* What the script and the command line name is what is streamed.
ScriptRight == LatestCallStands /\ WholeScriptOrNone

\* What the script names is what is registered, what is registered is what is mixed, and a voice in it
\* says its own text: StimulusLua, StimulusManager and TTSEngine.
StimuliRight == MixRight /\ ScriptRight /\ VoicesKeepApart
=============================================================================
