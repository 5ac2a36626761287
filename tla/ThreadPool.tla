----------------------------- MODULE ThreadPool -----------------------------
(***************************************************************************)
(* The fork-join pool of the digital twin, twin/src/ThreadPool.hpp: one    *)
(* caller (SignalGen's session loop), and workers that each wait on a      *)
(* binary semaphore of their own, run the task left in their slot, and     *)
(* post a second binary semaphore.  A task holds a reference to the        *)
(* caller's func, so it must be neither run after parallelFor() has        *)
(* returned nor overwritten before it has run.                             *)
(***************************************************************************)
EXTENDS Integers

CONSTANTS NThreads,   \* workers; the constructor makes at least one
          MaxCount,   \* bound: the largest count of a call
          MaxCalls    \* bound: the number of calls

ASSUME PoolAssumption ==
  /\ NThreads \in Nat /\ NThreads >= 1
  /\ MaxCount \in Nat /\ MaxCalls \in Nat

VARIABLES
  caller,     \* where the caller is; "idle" outside parallelFor() and stop()
  count,      \* parallelFor's argument
  i,          \* the loop variable of the caller's current loop
  called,     \* calls of parallelFor so far, which identifies func
  task,       \* slot->task: the call it belongs to, 0 before the first; its index is w
  semStart, semDone, stopFlag,
  thread,     \* where each worker is
  runs        \* history: how often func has run for each index in this call

callerVars == <<caller, count, i, called>>
slotVars == <<task, semStart, semDone, stopFlag>>
poolVars == <<callerVars, slotVars, thread, runs>>

Workers == 1 .. NThreads
Index == 0 .. MaxCount

\* nWorkersToUse; parallelFor() gives worker w the index w.
Used == IF count - 1 < NThreads THEN count - 1 ELSE NThreads

PoolInit ==
  /\ caller = "idle" /\ count = 0 /\ i = 1 /\ called = 0
  /\ task = [w \in Workers |-> 0]
  /\ semStart = [w \in Workers |-> 0] /\ semDone = [w \in Workers |-> 0]
  /\ stopFlag = [w \in Workers |-> FALSE]
  /\ thread = [w \in Workers |-> "wait"]
  /\ runs = [k \in Index |-> 0]

\* func(k): counted, whatever k is.
RunFunc(k) == runs' = [runs EXCEPT ![k] = @ + 1]

----------------------------------------------------------------------------
(* The caller.                                                             *)

\* parallelFor(n, func) with work to do; with n <= 0 it returns at once.  With n = 1 no
\* worker is used.  The pool's only owner does not call it once it has called stop().
Call(n) ==
  /\ caller = "idle" /\ called < MaxCalls
  /\ count' = n /\ called' = called + 1
  /\ runs' = [k \in Index |-> 0]
  /\ i' = 1
  /\ caller' = IF n = 1 THEN "own" ELSE "assign"
  /\ UNCHANGED <<slotVars, thread>>

\* workers[i]->task = ...
Assign ==
  /\ caller = "assign"
  /\ task' = [task EXCEPT ![i] = called]
  /\ caller' = "release"
  /\ UNCHANGED <<count, i, called, semStart, semDone, stopFlag, thread, runs>>

\* A plausible slip: the count of workers forgets that the caller takes index 0.
ReleaseOneTooMany ==
  /\ caller = "release"
  /\ semStart' = [semStart EXCEPT ![i] = @ + 1]
  /\ i' = i + 1
  /\ caller' = IF i < NThreads /\ i <= Used THEN "assign" ELSE "own"
  /\ UNCHANGED <<count, called, task, semDone, stopFlag, thread, runs>>

\* workers[i]->semStart.release()
Release ==
  /\ caller = "release"
  /\ semStart' = [semStart EXCEPT ![i] = @ + 1]
  /\ i' = i + 1
  /\ caller' = IF i < Used THEN "assign" ELSE "own"
  /\ UNCHANGED <<count, called, task, semDone, stopFlag, thread, runs>>

\* func(0)
RunOwn ==
  /\ caller = "own"
  /\ RunFunc(0)
  /\ i' = Used + 1
  /\ caller' = "rest"
  /\ UNCHANGED <<count, called, slotVars, thread>>

\* for (i = nWorkersToUse + 1; i < count; ++i) func(i)
RunRest ==
  /\ caller = "rest"
  /\ IF i < count
     THEN /\ RunFunc(i)
          /\ i' = i + 1
          /\ UNCHANGED caller
     ELSE /\ i' = 1 /\ caller' = "join"
          /\ UNCHANGED runs
  /\ UNCHANGED <<count, called, slotVars, thread>>

\* A plausible slip: the last worker is not waited for.
JoinAllButOne ==
  /\ caller = "join"
  /\ IF i < Used
     THEN /\ semDone[i] > 0
          /\ semDone' = [semDone EXCEPT ![i] = @ - 1]
          /\ i' = i + 1
          /\ UNCHANGED caller
     ELSE /\ caller' = "idle" /\ i' = 1
          /\ UNCHANGED semDone
  /\ UNCHANGED <<count, called, task, semStart, stopFlag, thread, runs>>

\* workers[i]->semDone.acquire() for every worker used, then parallelFor() returns.
Join ==
  /\ caller = "join"
  /\ IF i <= Used
     THEN /\ semDone[i] > 0
          /\ semDone' = [semDone EXCEPT ![i] = @ - 1]
          /\ i' = i + 1
          /\ UNCHANGED caller
     ELSE /\ caller' = "idle" /\ i' = 1
          /\ UNCHANGED semDone
  /\ UNCHANGED <<count, called, task, semStart, stopFlag, thread, runs>>

\* stop(): a second call returns at once.
Stop ==
  /\ caller = "idle"
  /\ caller' = "flag" /\ i' = 1
  /\ UNCHANGED <<count, called, slotVars, thread, runs>>

StopFlag ==
  /\ caller = "flag"
  /\ stopFlag' = [stopFlag EXCEPT ![i] = TRUE]
  /\ caller' = "wake"
  /\ UNCHANGED <<count, i, called, task, semStart, semDone, thread, runs>>

StopWake ==
  /\ caller = "wake"
  /\ semStart' = [semStart EXCEPT ![i] = @ + 1]
  /\ IF i < NThreads THEN i' = i + 1 /\ caller' = "flag"
                     ELSE i' = 1 /\ caller' = "reap"
  /\ UNCHANGED <<count, called, task, semDone, stopFlag, thread, runs>>

\* slot->thread.join() for every worker; the slots are destroyed after the last.
StopReap ==
  /\ caller = "reap" /\ thread[i] = "exited"
  /\ IF i < NThreads THEN i' = i + 1 /\ UNCHANGED caller
                     ELSE caller' = "stopped" /\ UNCHANGED i
  /\ UNCHANGED <<count, called, slotVars, thread, runs>>

\* Inside parallelFor() and stop() the caller keeps going.
CallerStep == \/ Assign \/ Release \/ RunOwn \/ RunRest \/ Join
              \/ StopFlag \/ StopWake \/ StopReap

----------------------------------------------------------------------------
(* Worker w.                                                               *)

\* slot->semStart.acquire()
Wake(w) ==
  /\ thread[w] = "wait" /\ semStart[w] > 0
  /\ semStart' = [semStart EXCEPT ![w] = @ - 1]
  /\ thread' = [thread EXCEPT ![w] = "check"]
  /\ UNCHANGED <<callerVars, task, semDone, stopFlag, runs>>

\* A plausible slip: the flag is never looked at.
CheckNoFlag(w) ==
  /\ thread[w] = "check"
  /\ thread' = [thread EXCEPT ![w] = IF task[w] # 0 THEN "run" ELSE "done"]
  /\ UNCHANGED <<callerVars, slotVars, runs>>

\* if (slot->stopFlag) break; if (slot->task) ...
Check(w) ==
  /\ thread[w] = "check"
  /\ thread' = [thread EXCEPT ![w] = CASE stopFlag[w]  -> "exited"
                                       [] ~stopFlag[w] /\ task[w] # 0 -> "run"
                                       [] OTHER -> "done"]
  /\ UNCHANGED <<callerVars, slotVars, runs>>

\* slot->task()
RunTask(w) ==
  /\ thread[w] = "run"
  /\ RunFunc(w)
  /\ thread' = [thread EXCEPT ![w] = "done"]
  /\ UNCHANGED <<callerVars, slotVars>>

\* slot->semDone.release()
Done(w) ==
  /\ thread[w] = "done"
  /\ semDone' = [semDone EXCEPT ![w] = @ + 1]
  /\ thread' = [thread EXCEPT ![w] = "wait"]
  /\ UNCHANGED <<callerVars, task, semStart, stopFlag, runs>>

WorkerStep(w) == Wake(w) \/ Check(w) \/ RunTask(w) \/ Done(w)

PoolNext == \/ \E n \in 1 .. MaxCount : Call(n)
        \/ Stop
        \/ CallerStep
        \/ \E w \in Workers : WorkerStep(w)

\* Threads are scheduled by the operating system.  Nobody has to call.
PoolFairness == WF_poolVars(CallerStep) /\ \A w \in Workers : WF_poolVars(WorkerStep(w))

PoolSpec == PoolInit /\ [][PoolNext]_poolVars /\ PoolFairness

----------------------------------------------------------------------------
(* Properties.                                                             *)

InCall == caller \in {"assign", "release", "own", "rest", "join"}
Stopping == caller \in {"flag", "wake", "reap", "stopped"}

\* Types; in particular no binary semaphore is ever released twice, which is undefined.
PoolTypeOK ==
  /\ caller \in {"idle", "assign", "release", "own", "rest", "join",
                 "flag", "wake", "reap", "stopped"}
  /\ count \in 0 .. MaxCount
  /\ i \in Nat /\ i >= 1
  /\ called \in 0 .. MaxCalls
  /\ task \in [Workers -> 0 .. MaxCalls]
  /\ semStart \in [Workers -> 0 .. 1]
  /\ semDone \in [Workers -> 0 .. 1]
  /\ stopFlag \in [Workers -> BOOLEAN]
  /\ thread \in [Workers -> {"wait", "check", "run", "done", "exited"}]
  /\ runs \in [Index -> Nat]

\* The caller never writes a slot's task while its worker may still use the old one, and no
\* worker runs a task whose func belongs to a call that has returned (ThreadPool.hpp:63-80).
NoTaskRace ==
  /\ caller = "assign" => /\ thread[i] = "wait" /\ semStart[i] = 0 /\ semDone[i] = 0
  /\ \A w \in Workers : thread[w] = "run" => InCall /\ task[w] = called

\* parallelFor() implements its promise: every index exactly once before it returns.
Promise == INSTANCE ForkJoin WITH inside <- InCall
PromiseKept == Promise!Spec

\* parallelFor() and stop() return, whatever the order in which the workers are scheduled.
Returns == (caller # "idle") ~> (caller \in {"idle", "stopped"})

----------------------------------------------------------------------------
(* The inductive invariant.                                                *)

\* Worker w has been given the current call's index w and has not been joined yet.
Given(w) == \/ caller \in {"assign", "release"} /\ w < i
            \/ caller \in {"own", "rest"} /\ w <= Used
            \/ caller = "join" /\ i <= w /\ w <= Used

\* Such a worker has a task of this call, and its one token is in one of three places: in
\* semStart, in its own hands, or in semDone.  Its index has run once it is past "run".
WorkerInv(w) ==
  /\ Given(w) =>
       /\ task[w] = called /\ called >= 1
       /\ \/ /\ semStart[w] = 1 /\ semDone[w] = 0 /\ thread[w] = "wait" /\ runs[w] = 0
          \/ /\ semStart[w] = 0 /\ semDone[w] = 0
             /\ thread[w] \in {"check", "run"} /\ runs[w] = 0
          \/ /\ semStart[w] = 0 /\ semDone[w] = 0 /\ thread[w] = "done" /\ runs[w] = 1
          \/ /\ semStart[w] = 0 /\ semDone[w] = 1 /\ thread[w] = "wait" /\ runs[w] = 1
  /\ ~Given(w) /\ ~Stopping => semStart[w] = 0 /\ semDone[w] = 0 /\ thread[w] = "wait"

\* A worker told to stop has the flag before it has the token, and leaves no token behind.
StopInv(w) ==
  /\ ~Stopping => ~stopFlag[w]
  /\ Stopping =>
       /\ semDone[w] = 0
       /\ \/ /\ semStart[w] = 0 /\ thread[w] = "wait"
             /\ \/ caller = "flag" /\ i <= w
                \/ caller = "wake" /\ i <= w
          \/ stopFlag[w] /\ (caller \in {"flag", "wake"} => w < i)
             /\ \/ semStart[w] = 1 /\ thread[w] = "wait"
                \/ semStart[w] = 0 /\ thread[w] \in {"check", "exited"}
       /\ caller = "wake" /\ w = i => stopFlag[w]

\* Where the caller's loops stand, and which indices have run.
CallerInv ==
  /\ InCall => count >= 1
  /\ caller \in {"assign", "release"} => i <= Used
  /\ caller = "own" => i = Used + 1
  /\ caller = "release" => task[i] = called
  /\ caller = "rest" => Used < i /\ i <= count
  /\ caller = "join" => i <= Used + 1
  /\ caller \in {"flag", "wake", "reap"} => i <= NThreads
  /\ called = 0 => ~InCall

RunsInv ==
  InCall =>
    /\ runs[0] = (IF caller \in {"rest", "join"} THEN 1 ELSE 0)
    /\ \A k \in Index :
         /\ caller \in {"assign", "release"} /\ i <= k => runs[k] = 0
         /\ caller = "own" /\ Used < k => runs[k] = 0
         /\ caller = "rest" /\ Used < k => runs[k] = (IF k < i THEN 1 ELSE 0)
         /\ caller = "join" /\ (k < i \/ Used < k) /\ k < count => runs[k] = 1

PoolInv == /\ PoolTypeOK
           /\ \A w \in Workers : WorkerInv(w) /\ StopInv(w)
           /\ CallerInv
           /\ RunsInv
=============================================================================
