----------------------------- MODULE StimulusMix -----------------------------
(***************************************************************************)
(* StimulusManager.cpp: the named signals at the antenna.  Under a mutex   *)
(* they are added, removed and enabled; the streaming thread mixes one     *)
(* batch after another, from a frozen list without the mutex when there is *)
(* one and from the map under the mutex when there is not.                 *)
(*                                                                         *)
(* generateBatchParallel() hands every signal but the first a buffer of    *)
(* its own, kept from batch to batch, and adds the buffers up; that the    *)
(* pool runs each index once is ForkJoin's.  A batch's samples are one     *)
(* number per generator: how often it was added in.                        *)
(*                                                                         *)
(* The twin changes its signals only before it streams; that another       *)
(* thread may, at any time, is what StimulusManager.hpp promises.          *)
(***************************************************************************)
EXTENDS Integers, FiniteSets, SequencesExt

CONSTANTS Names,      \* names of signals
          Generators, \* generators made so far or to come
          Broadband,  \* those that isBroadband() says ignore the tuning
          Carrier,    \* carrierFrequency() of each
          Centres,    \* VFO frequencies
          HalfBand,   \* half of the simulated bandwidth
          MixWorkers, \* threads of the pool
          MaxChanges, \* bound: changes of the map
          MaxBatches, \* bound: batches of a session
          MaxSessions \* bound: sessions

ASSUME StimulusMixAssumption ==
  /\ IsFiniteSet(Generators) /\ Broadband \subseteq Generators
  /\ Carrier \in [Generators -> Int] /\ Centres \subseteq Int
  /\ {HalfBand, MixWorkers, MaxChanges, MaxBatches, MaxSessions} \subseteq Nat

VARIABLES
  stimuli,  \* stimuli: the generator a name stands for, and whether it is enabled
  made,     \* history: generators that were added
  frozen,   \* frozen
  snapshot, \* frozenStimuli
  changer,  \* a thread inside a change, which holds stimulusMutex, and what was enabled before
  mixer,    \* the streaming thread: how far its batch is, the items collected, those still to run,
            \* with the history of what was enabled at some moment of the batch
  scratch,  \* scratchBuffers
  out,      \* outIQ
  session,  \* sessions, batches of this one, whether the loop has paused (and reset) in it
  touched,  \* history: the session in which a generator's filters last ran, 0 once reset
  leftover, \* history: a batch ran filters an earlier session had left
  changes   \* counter for the bound

mixVars == <<stimuli, made, frozen, snapshot, changer, mixer, scratch, out, session, touched,
             leftover, changes>>

changeVars == <<stimuli, made, frozen, snapshot, changer, changes>>
stateVars == <<session, touched, leftover>>

NoEntry == [generator |-> "none", enabled |-> FALSE]
Silence == [g \in Generators |-> 0]
Registered == {n \in Names : stimuli[n] # NoEntry}
EnabledIn(map) == {map[n].generator : n \in {m \in Names : map[m].enabled}}
Enabled == IF changer.inside THEN changer.before ELSE EnabledIn(stimuli)
Unlocked == ~changer.inside
MixerDown == [at |-> "idle", kind |-> "none", centre |-> 0, items |-> <<>>, pending |-> {},
              current |-> {}]

MixInit ==
  /\ stimuli = [n \in Names |-> NoEntry] /\ made = {}
  /\ frozen = FALSE /\ snapshot = {}
  /\ changer = [inside |-> FALSE, before |-> {}]
  /\ mixer = MixerDown /\ scratch = <<>> /\ out = Silence
  /\ session = [number |-> 1, batches |-> 0, paused |-> FALSE]
  /\ touched = [g \in Generators |-> 0] /\ leftover = FALSE /\ changes = 0

----------------------------------------------------------------------------
(* Changes of the map, by any thread.                                      *)

\* The map changes under the mutex, and is found frozen, if it is, only then.
Change(map) ==
  /\ Unlocked /\ changes < MaxChanges
  /\ changer' = [inside |-> TRUE, before |-> EnabledIn(stimuli)]
  /\ stimuli' = map /\ changes' = changes + 1
  /\ UNCHANGED <<stateVars, frozen, snapshot, mixer, scratch, out>>

AddStimulus(n) ==
  \E g \in Generators \ made :
     /\ made' = made \cup {g}
     /\ Change([stimuli EXCEPT ![n] = [generator |-> g, enabled |-> TRUE]])

RemoveStimulus(n) == n \in Registered /\ Change([stimuli EXCEPT ![n] = NoEntry]) /\ UNCHANGED made

ClearAll == Change([n \in Names |-> NoEntry]) /\ UNCHANGED made

SetEnabled(n, on) ==
  n \in Registered /\ Change([stimuli EXCEPT ![n].enabled = on]) /\ UNCHANGED made

SetAllEnabled(on) ==
  /\ Change([n \in Names |-> [stimuli[n] EXCEPT !.enabled = on /\ n \in Registered]])
  /\ UNCHANGED made

\* What was frozen is so no longer; then the mutex is let go.
EndChange ==
  /\ changer.inside
  /\ frozen' = FALSE
  /\ changer' = [inside |-> FALSE, before |-> {}]
  /\ mixer' = IF mixer.at \in {"frozen", "locking"}
              THEN [mixer EXCEPT !.current = @ \cup {EnabledIn(stimuli)}] ELSE mixer
  /\ UNCHANGED <<stateVars, stimuli, made, snapshot, scratch, out, changes>>

----------------------------------------------------------------------------
(* The streaming thread.                                                   *)

Freeze ==
  /\ mixer.at = "idle" /\ Unlocked
  /\ snapshot' = EnabledIn(stimuli) /\ frozen' = TRUE
  /\ UNCHANGED <<stateVars, stimuli, made, changer, mixer, scratch, out, changes>>

\* A paused loop resets every signal, the disabled ones too.
ResetAll ==
  /\ mixer.at = "idle" /\ Unlocked
  /\ touched' = [g \in Generators |-> IF \E n \in Registered : stimuli[n].generator = g
                                      THEN 0 ELSE touched[g]]
  /\ session' = [session EXCEPT !.paused = TRUE]
  /\ UNCHANGED <<changeVars, mixer, scratch, out, leftover>>

\* The next client: its first START may come before the loop has paused once.
NextSession ==
  /\ mixer.at = "idle" /\ session.number < MaxSessions
  /\ session' = [number |-> session.number + 1, batches |-> 0, paused |-> FALSE]
  /\ UNCHANGED <<changeVars, mixer, scratch, out, touched, leftover>>

BeginBatch(kind, centre) ==
  /\ mixer.at = "idle" /\ session.batches < MaxBatches
  /\ mixer' = [MixerDown EXCEPT !.at = IF frozen THEN "frozen" ELSE "locking", !.kind = kind,
                                !.centre = centre, !.current = {Enabled}]
  /\ out' = Silence
  /\ session' = [session EXCEPT !.batches = @ + 1]
  /\ UNCHANGED <<changeVars, scratch, touched, leftover>>

\* Out of the window a carrier would alias.
InWindow(g, centre) ==
  g \in Broadband \/ (Carrier[g] - centre \in -HalfBand..HalfBand)

CollectStim(from) ==
  /\ mixer' = [mixer EXCEPT !.at = "collected",
                            !.items = SetToSeq({g \in from : InWindow(g, mixer.centre)})]
  /\ UNCHANGED <<changeVars, stateVars, scratch, out>>

CollectFrozen == mixer.at = "frozen" /\ CollectStim(snapshot)
CollectLocked == mixer.at = "locking" /\ Unlocked /\ CollectStim(EnabledIn(stimuli))

\* A generator runs: its filters go on from where they were.
Touch(gs) ==
  /\ touched' = [g \in Generators |-> IF g \in gs THEN session.number ELSE touched[g]]
  /\ leftover' = (leftover \/ (session.paused /\ \E g \in gs : touched[g] \notin {0, session.number}))

\* One item, one thread, or generateBatch() and the sample-by-sample calls: straight into outIQ.
InTurn ==
  /\ mixer.at = "collected"
  /\ Len(mixer.items) <= 1 \/ MixWorkers <= 1 \/ mixer.kind # "parallel"
  /\ out' = [g \in Generators |-> out[g] + IF g \in ToSet(mixer.items) THEN 1 ELSE 0]
  /\ Touch(ToSet(mixer.items))
  /\ mixer' = [mixer EXCEPT !.at = "done"]
  /\ UNCHANGED <<changeVars, scratch, session>>

\* The buffers that are there already are not cleared.
PrepareScratchDirty ==
  LET extra == Len(mixer.items) - 1 IN
  /\ mixer.at = "collected"
  /\ Len(mixer.items) > 1 /\ MixWorkers > 1 /\ mixer.kind = "parallel"
  /\ scratch' = [k \in 1..(IF extra > Len(scratch) THEN extra ELSE Len(scratch)) |->
                   IF k > Len(scratch) THEN Silence ELSE scratch[k]]
  /\ mixer' = [mixer EXCEPT !.at = "working", !.pending = 1..Len(mixer.items)]
  /\ UNCHANGED <<changeVars, stateVars, out>>

\* As many buffers as items but one, and those cleared; more than that stay as they were.
PrepareScratch ==
  LET extra == Len(mixer.items) - 1 IN
  /\ mixer.at = "collected"
  /\ Len(mixer.items) > 1 /\ MixWorkers > 1 /\ mixer.kind = "parallel"
  /\ scratch' = [k \in 1..(IF extra > Len(scratch) THEN extra ELSE Len(scratch)) |->
                   IF k <= extra THEN Silence ELSE scratch[k]]
  /\ mixer' = [mixer EXCEPT !.at = "working", !.pending = 1..Len(mixer.items)]
  /\ UNCHANGED <<changeVars, stateVars, out>>

\* The first item writes into outIQ, the others each into a buffer.
WorkItem(i) ==
  LET g == mixer.items[i] IN
  /\ mixer.at = "working" /\ i \in mixer.pending
  /\ IF i = 1 THEN out' = [out EXCEPT ![g] = @ + 1] /\ UNCHANGED scratch
              ELSE scratch' = [scratch EXCEPT ![i - 1][g] = @ + 1] /\ UNCHANGED out
  /\ Touch({g})
  /\ mixer' = [mixer EXCEPT !.pending = @ \ {i}]
  /\ UNCHANGED <<changeVars, session>>

\* The samples with the first so many buffers added.
Added[k \in 0..Len(mixer.items) - 1] ==
  IF k = 0 THEN out ELSE [g \in Generators |-> Added[k - 1][g] + scratch[k][g]]

AddUp ==
  /\ mixer.at = "working" /\ mixer.pending = {}
  /\ out' = Added[Len(mixer.items) - 1]
  /\ mixer' = [mixer EXCEPT !.at = "done"]
  /\ UNCHANGED <<changeVars, stateVars, scratch>>

HandOut ==
  /\ mixer.at = "done" /\ mixer' = MixerDown
  /\ UNCHANGED <<changeVars, stateVars, scratch, out>>

MixNext ==
  \/ \E n \in Names : AddStimulus(n) \/ RemoveStimulus(n) \/ (\E on \in BOOLEAN : SetEnabled(n, on))
  \/ ClearAll \/ (\E on \in BOOLEAN : SetAllEnabled(on)) \/ EndChange
  \/ Freeze \/ ResetAll \/ NextSession
  \/ \E kind \in {"parallel", "single"}, centre \in Centres : BeginBatch(kind, centre)
  \/ CollectFrozen \/ CollectLocked \/ InTurn \/ PrepareScratch
  \/ (\E i \in mixer.pending : WorkItem(i)) \/ AddUp \/ HandOut

MixSpec == MixInit /\ [][MixNext]_mixVars

----------------------------------------------------------------------------
\* A frozen list is the enabled signals: no change of them leaves it behind.
FrozenIsEnabled == frozen => snapshot = Enabled

\* A batch adds in once each the signals in the window that were enabled at one moment of it, none
\* that was removed or disabled before it and nothing an earlier batch left in a buffer.
BatchIsCurrent ==
  mixer.at = "done" =>
    \E moment \in mixer.current :
       out = [g \in Generators |-> IF g \in moment /\ InWindow(g, mixer.centre) THEN 1 ELSE 0]

\* Once the loop has paused in a session, no filter goes on from an earlier session.
NothingCarriedOver == ~leftover

\* StimulusManager's mix is what is enabled, whichever path a batch takes and whatever another
\* thread changes meanwhile.
MixRight == FrozenIsEnabled /\ BatchIsCurrent /\ NothingCarriedOver
=============================================================================
