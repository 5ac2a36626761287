----------------------------- MODULE Simulation -----------------------------
(***************************************************************************)
(* The analogue twin: Orchestrator.cpp runs the circuit simulator behind   *)
(* XyceWrapper.cpp and asks for a sample at every ADC period; main.cpp or  *)
(* a thread of its own runs it; ADCSampler.cpp makes frames of the node    *)
(* voltages at the times it is asked to.                                   *)
(*                                                                         *)
(* Time is counted in units of which an ADC period has several.  The       *)
(* simulator is external: a step gets some way towards its target, or      *)
(* fails and gets nowhere, and nothing goes past the netlist's final time. *)
(***************************************************************************)
EXTENDS Integers

CONSTANTS Period,     \* adcSamplePeriodS, SAMPLE_PERIOD_NS
          FinalTime,  \* the netlist's final time
          Durations,  \* durations asked of runFor(), in main()
          MaxRuns,    \* bound: runs begun
          MaxSamples  \* bound: calls of ADCSampler::sample()

ASSUME SimulationAssumption ==
  /\ {Period, FinalTime, MaxRuns, MaxSamples} \subseteq Nat \ {0}
  /\ Durations \subseteq Nat \ {0}

VARIABLES
  loaded,     \* XyceWrapper::initialized
  simTime,    \* the simulator's time
  simRunning, \* Orchestrator::running
  runner,     \* who is in runFor() ("main", "worker", "nobody"), how far, its target
  simOwner,   \* "free", "joining" in stop(), "terminated": std::terminate() has ended the program
  workerMade, \* workerThread.joinable()
  nextAdc,    \* nextADCSampleTimeS
  adcIndex,   \* adcSampleIndex
  sampler,    \* ADCSampler: nextSampleTimeNS, sequence, sampleCount, missedSamples, errorCount
  frame,      \* history: the latest frame, the simulator's time when it was made, the one before
  runsBegun,  \* counter for the bound
  stopLost    \* history: a stop() came before the run it was meant for had set running

simVars == <<loaded, simTime, simRunning, runner, simOwner, workerMade, nextAdc, adcIndex,
             sampler, frame, runsBegun, stopLost>>

NewSampler == [next |-> 0, sequence |-> 0, count |-> 0, missed |-> 0, errors |-> 0]
NoFrameYet == [time |-> -1, sequence |-> -1, at |-> 0, previous |-> -1]
Nobody == [by |-> "nobody", at |-> "idle", target |-> 0]
RunToCompletion == 1000 * FinalTime

SimInit ==
  /\ loaded = FALSE /\ simTime = 0
  /\ simRunning = FALSE /\ runner = Nobody /\ simOwner = "free" /\ workerMade = FALSE
  /\ nextAdc = 0 /\ adcIndex = 0
  /\ sampler = NewSampler /\ frame = NoFrameYet
  /\ runsBegun = 0 /\ stopLost = FALSE

OwnerFree == simOwner = "free" /\ runner.by # "main"

----------------------------------------------------------------------------
(* The orchestrator.                                                       *)

\* initialize(), never beside a run: one in use is finalized, and a netlist that cannot be loaded
\* leaves no simulator, whose time reads as zero, and the counts of the one before.
InitializeSim(ok) ==
  /\ OwnerFree /\ runner.by = "nobody"
  /\ loaded' = ok /\ simTime' = 0
  /\ nextAdc' = (IF ok THEN 0 ELSE nextAdc) /\ adcIndex' = (IF ok THEN 0 ELSE adcIndex)
  /\ UNCHANGED <<simRunning, runner, simOwner, workerMade, sampler, frame, runsBegun, stopLost>>

\* runFor() or runToCompletion() in the owner's thread, never beside the worker's, with or without
\* a simulator ...
Run(duration) ==
  /\ OwnerFree /\ runner.by = "nobody" /\ runsBegun < MaxRuns
  /\ runsBegun' = runsBegun + 1
  /\ runner' = [by |-> "main", at |-> "begin", target |-> duration]
  /\ UNCHANGED <<loaded, simTime, simRunning, simOwner, workerMade, nextAdc, adcIndex, sampler,
                 frame, stopLost>>
\* ... or start(): in another, whether or not the one before was joined.
StartSim ==
  /\ OwnerFree /\ runner.by = "nobody" /\ ~simRunning /\ ~workerMade /\ runsBegun < MaxRuns
  /\ runsBegun' = runsBegun + 1
  /\ runner' = [by |-> "worker", at |-> "begin", target |-> RunToCompletion]
  /\ workerMade' = TRUE
  /\ UNCHANGED <<loaded, simTime, simRunning, simOwner, nextAdc, adcIndex, sampler, frame, stopLost>>
\* A thread assigned over one that can be joined, ended or not yet running: the program ends.
StartTwice ==
  /\ OwnerFree /\ ~simRunning /\ workerMade
  /\ simOwner' = "terminated"
  /\ UNCHANGED <<loaded, simTime, simRunning, runner, workerMade, nextAdc, adcIndex, sampler, frame,
                 runsBegun, stopLost>>

\* stop(), by the owner or by the signal handler in the middle of main()'s run.
StopSim ==
  /\ simOwner = "free"
  /\ simRunning' = FALSE
  /\ simOwner' = IF workerMade THEN "joining" ELSE "free"
  /\ stopLost' = (stopLost \/ runner.at = "begin")
  /\ UNCHANGED <<loaded, simTime, runner, workerMade, nextAdc, adcIndex, sampler, frame, runsBegun>>
StopJoins ==
  /\ simOwner = "joining" /\ runner.by # "worker"
  /\ simOwner' = "free" /\ workerMade' = FALSE
  /\ UNCHANGED <<loaded, simTime, simRunning, runner, nextAdc, adcIndex, sampler, frame, runsBegun,
                 stopLost>>

\* runFor(): running is set, whatever a stop() has stored before.
BeginRun ==
  /\ runner.at = "begin"
  /\ simRunning' = TRUE
  /\ runner' = [runner EXCEPT !.at = "check", !.target = simTime + @]
  /\ UNCHANGED <<loaded, simTime, simOwner, workerMade, nextAdc, adcIndex, sampler, frame, runsBegun,
                 stopLost>>

\* The end: the target or a stop.  That the simulator has finished is not asked.
EndRun ==
  /\ runner.at = "check" /\ (~simRunning \/ simTime >= runner.target)
  /\ simRunning' = FALSE /\ runner' = Nobody
  /\ UNCHANGED <<loaded, simTime, simOwner, workerMade, nextAdc, adcIndex, sampler, frame, runsBegun,
                 stopLost>>

\* stepTo(): how far is the simulator's affair, a failure is ignored, and so is that there is none.
Smallest(a, b) == IF a < b THEN a ELSE b
StepTo(target) ==
  IF loaded /\ target > simTime
  THEN \E t \in simTime..Smallest(target, FinalTime) : simTime' = t
  ELSE UNCHANGED simTime
StepSim ==
  /\ runner.at = "check" /\ simRunning /\ simTime < runner.target
  /\ StepTo(runner.target)
  /\ runner' = [runner EXCEPT !.at = "adc"]
  /\ UNCHANGED <<loaded, simRunning, simOwner, workerMade, nextAdc, adcIndex, sampler, frame,
                 runsBegun, stopLost>>

\* Every ADC time passed, one callback each ...
\* A plausible slip: a sample at the very end of a step waits for the next step.
DueLater == simTime > nextAdc
Due == simTime >= nextAdc
AdcCallback ==
  /\ runner.at = "adc" /\ Due
  /\ nextAdc' = nextAdc + Period /\ adcIndex' = adcIndex + 1
  /\ UNCHANGED <<loaded, simTime, simRunning, runner, simOwner, workerMade, sampler, frame,
                 runsBegun, stopLost>>
\* ... before the next step.
StepDone ==
  /\ runner.at = "adc" /\ ~Due
  /\ runner' = [runner EXCEPT !.at = "check"]
  /\ UNCHANGED <<loaded, simTime, simRunning, simOwner, workerMade, nextAdc, adcIndex, sampler,
                 frame, runsBegun, stopLost>>

----------------------------------------------------------------------------
(* ADCSampler, called from between two steps.                              *)

Missed == LET behind == simTime - sampler.next
          IN  IF behind <= Period THEN 0 ELSE (behind - 1) \div Period
\* A plausible slip: the sequence number counts only the frames made.
CountFramesOnly(missed) == 1
CountPeriods(missed) == missed + 1
\* sample(): the periods that nobody asked for are counted, and the frame is marked if a node has
\* no voltage.
Sample(valid) ==
  /\ runner.at # "check" /\ loaded /\ sampler.count + sampler.missed < MaxSamples
  /\ simTime >= sampler.next
  /\ LET time == sampler.next + Missed * Period
     IN  /\ sampler' = [next     |-> time + Period,
                        sequence |-> sampler.sequence + CountPeriods(Missed),
                        count    |-> sampler.count + 1,
                        missed   |-> sampler.missed + Missed,
                        errors   |-> sampler.errors + (IF valid THEN 0 ELSE 1)]
         /\ frame' = [time |-> time, sequence |-> sampler'.sequence - 1, at |-> simTime,
                      previous |-> frame.time]
  /\ UNCHANGED <<loaded, simTime, simRunning, runner, simOwner, workerMade, nextAdc, adcIndex,
                 runsBegun, stopLost>>
ResetSampler ==
  /\ sampler # NewSampler
  /\ sampler' = NewSampler /\ frame' = NoFrameYet
  /\ UNCHANGED <<loaded, simTime, simRunning, runner, simOwner, workerMade, nextAdc, adcIndex,
                 runsBegun, stopLost>>

\* A signal handler's stop() holds up main()'s run.
RunMoves == simOwner = "free" \/ runner.by = "worker"
RunStep == RunMoves /\ (BeginRun \/ EndRun \/ StepSim \/ AdcCallback \/ StepDone)
SimStep ==
  \/ (\E ok \in BOOLEAN : InitializeSim(ok))
  \/ (\E d \in Durations \cup {RunToCompletion} : Run(d)) \/ StartSim \/ StartTwice
  \/ StopSim \/ StopJoins \/ RunStep
  \/ (\E valid \in BOOLEAN : Sample(valid)) \/ ResetSampler
SimNext == simOwner # "terminated" /\ SimStep

SimSpec == SimInit /\ [][SimNext]_simVars

----------------------------------------------------------------------------

\* With a simulator loaded, between two steps every ADC time up to its time has had its callback and
\* none after it, over any number of runs and loads; a frame carries the number of its period whether
\* or not the periods before were asked for, and is at most one period old; and a run goes on against
\* the owner's stop() only if that came before the run had set running, which then waits for 10^9
\* simulated seconds, past the netlist's end if need be (Orchestrator.cpp:13-78, ADCSampler.cpp:72-122).
SimulationSound ==
  /\ loaded /\ runner.at = "check" /\ adcIndex > 0 =>
       nextAdc = adcIndex * Period /\ nextAdc - simTime \in 1..Period
  /\ frame.sequence >= 0 =>
       /\ frame.time = frame.sequence * Period
       /\ frame.at - frame.time \in 0..Period /\ frame.time > frame.previous
  /\ sampler.sequence = sampler.count + sampler.missed
  /\ simOwner = "joining" /\ simRunning => stopLost
=============================================================================
