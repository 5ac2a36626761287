-------------------------- MODULE ThreadPoolProofs --------------------------
(***************************************************************************)
(* The fork-join pool of ThreadPool.tla for every number of workers, every *)
(* count and every number of calls.                                        *)
(***************************************************************************)
EXTENDS ThreadPool, TLAPS

\* The workers a call uses: none with count 1, never more than there are, and each of them
\* has an index below count.
LEMMA UsedRange ==
  ASSUME count \in Nat, count >= 1
  PROVE  Used \in 0 .. count - 1 /\ Used <= NThreads
BY PoolAssumption DEF Used

\* One value of a function replaced by another of the same kind.
LEMMA UpdateType ==
  ASSUME NEW S, NEW T, NEW f \in [S -> T], NEW x, NEW y \in T
  PROVE  [f EXCEPT ![x] = y] \in [S -> T]
OBVIOUS

\* A pool nobody has called satisfies the invariant.
LEMMA PoolInitially == PoolInit => PoolInv
<1> SUFFICES ASSUME PoolInit PROVE PoolInv
  OBVIOUS
<1> USE PoolAssumption DEF PoolInit
<1>1. PoolTypeOK
  BY DEF PoolTypeOK, Workers, Index
<1>2. \A w \in Workers : WorkerInv(w) /\ StopInv(w)
  BY DEF WorkerInv, StopInv, Given, Stopping
<1>3. CallerInv /\ RunsInv
  BY DEF CallerInv, RunsInv, InCall
<1> QED BY <1>1, <1>2, <1>3 DEF PoolInv

\* Every step of the caller and of a worker preserves the invariant.
LEMMA PoolStep == PoolInv /\ [PoolNext]_poolVars => PoolInv'
<1> SUFFICES ASSUME PoolInv, [PoolNext]_poolVars PROVE PoolInv'
  OBVIOUS
<1> USE PoolAssumption
<1>a. PoolTypeOK /\ CallerInv /\ RunsInv /\ \A w \in Workers : WorkerInv(w) /\ StopInv(w)
  BY DEF PoolInv
<1>1. ASSUME NEW n \in 1 .. MaxCount, Call(n) PROVE PoolInv'
  <2> USE <1>a, <1>1 DEF Call
  <2>u. InCall => Used \in 0 .. count - 1 /\ Used <= NThreads
    BY UsedRange DEF PoolTypeOK, CallerInv
  <2>1. PoolTypeOK'
    BY <2>u DEF PoolTypeOK, CallerInv, RunFunc, Workers, Index, slotVars, InCall
  <2>2. ASSUME NEW w \in Workers PROVE WorkerInv(w)' /\ StopInv(w)'
    BY <2>u DEF PoolTypeOK, CallerInv, RunsInv, WorkerInv, StopInv, Given, Stopping, InCall, Used, RunFunc, Workers, Index, slotVars
  <2>3. CallerInv'
    BY <2>u DEF PoolTypeOK, CallerInv, InCall, Used, slotVars, Workers
  <2>4. RunsInv'
    BY <2>u DEF PoolTypeOK, CallerInv, RunsInv, WorkerInv, Given, InCall, Used, RunFunc, Workers, Index, slotVars
  <2> QED BY <2>1, <2>2, <2>3, <2>4 DEF PoolInv
<1>2. ASSUME Assign PROVE PoolInv'
  <2> USE <1>a, <1>2 DEF Assign
  <2>u. InCall => Used \in 0 .. count - 1 /\ Used <= NThreads
    BY UsedRange DEF PoolTypeOK, CallerInv
  <2>1. PoolTypeOK'
    BY <2>u DEF PoolTypeOK, CallerInv, RunFunc, Workers, Index, slotVars, InCall
  <2>2. ASSUME NEW w \in Workers PROVE WorkerInv(w)' /\ StopInv(w)'
    BY <2>u DEF PoolTypeOK, CallerInv, RunsInv, WorkerInv, StopInv, Given, Stopping, InCall, Used, RunFunc, Workers, Index, slotVars
  <2>3. CallerInv'
    BY <2>u DEF PoolTypeOK, CallerInv, InCall, Used, slotVars, Workers
  <2>4. RunsInv'
    BY <2>u DEF PoolTypeOK, CallerInv, RunsInv, WorkerInv, Given, InCall, Used, RunFunc, Workers, Index, slotVars
  <2> QED BY <2>1, <2>2, <2>3, <2>4 DEF PoolInv
<1>3. ASSUME Release PROVE PoolInv'
  <2> USE <1>a, <1>3 DEF Release
  <2>u. InCall => Used \in 0 .. count - 1 /\ Used <= NThreads
    BY UsedRange DEF PoolTypeOK, CallerInv
  <2>s. i \in Workers /\ semStart[i] = 0
    BY <2>u DEF PoolTypeOK, CallerInv, WorkerInv, Given, Stopping, InCall, Workers
  <2>1. PoolTypeOK'
    BY <2>u, <2>s DEF PoolTypeOK, CallerInv, RunFunc, Workers, Index, slotVars, InCall
  <2>2. ASSUME NEW w \in Workers PROVE WorkerInv(w)' /\ StopInv(w)'
    BY <2>u, <2>s DEF PoolTypeOK, CallerInv, RunsInv, WorkerInv, StopInv, Given, Stopping, InCall, Used, RunFunc, Workers, Index, slotVars
  <2>3. CallerInv'
    BY <2>u DEF PoolTypeOK, CallerInv, InCall, Used, slotVars, Workers
  <2>4. RunsInv'
    BY <2>u DEF PoolTypeOK, CallerInv, RunsInv, WorkerInv, Given, InCall, Used, RunFunc, Workers, Index, slotVars
  <2> QED BY <2>1, <2>2, <2>3, <2>4 DEF PoolInv
<1>4. ASSUME RunOwn PROVE PoolInv'
  <2> USE <1>a, <1>4 DEF RunOwn
  <2>u. InCall => Used \in 0 .. count - 1 /\ Used <= NThreads
    BY UsedRange DEF PoolTypeOK, CallerInv
  <2>1. PoolTypeOK'
    BY <2>u DEF PoolTypeOK, CallerInv, RunFunc, Workers, Index, slotVars, InCall
  <2>2. ASSUME NEW w \in Workers PROVE WorkerInv(w)' /\ StopInv(w)'
    BY <2>u DEF PoolTypeOK, CallerInv, RunsInv, WorkerInv, StopInv, Given, Stopping, InCall, Used, RunFunc, Workers, Index, slotVars
  <2>3. CallerInv'
    BY <2>u DEF PoolTypeOK, CallerInv, InCall, Used, slotVars, Workers
  <2>4. RunsInv'
    BY <2>u DEF PoolTypeOK, CallerInv, RunsInv, WorkerInv, Given, InCall, Used, RunFunc, Workers, Index, slotVars
  <2> QED BY <2>1, <2>2, <2>3, <2>4 DEF PoolInv
<1>5. ASSUME RunRest PROVE PoolInv'
  <2> USE <1>a, <1>5 DEF RunRest
  <2>u. InCall => Used \in 0 .. count - 1 /\ Used <= NThreads
    BY UsedRange DEF PoolTypeOK, CallerInv
  <2>s. i < count => i \in Index /\ runs[i] = 0
    BY <2>u DEF PoolTypeOK, CallerInv, RunsInv, InCall, Index
  <2>1. PoolTypeOK'
    <3>1. CASE i < count
      BY <3>1, <2>s DEF PoolTypeOK, CallerInv, RunFunc, Workers, Index, slotVars, InCall
    <3>2. CASE ~(i < count)
      BY <3>2 DEF PoolTypeOK, CallerInv, RunFunc, Workers, Index, slotVars, InCall
    <3> QED BY <3>1, <3>2
  <2>2. ASSUME NEW w \in Workers PROVE WorkerInv(w)' /\ StopInv(w)'
    BY <2>u, <2>s DEF PoolTypeOK, CallerInv, RunsInv, WorkerInv, StopInv, Given, Stopping, InCall, Used, RunFunc, Workers, Index, slotVars
  <2>3. CallerInv'
    BY <2>u DEF PoolTypeOK, CallerInv, InCall, Used, slotVars, Workers
  <2>4. RunsInv'
    BY <2>u DEF PoolTypeOK, CallerInv, RunsInv, WorkerInv, Given, InCall, Used, RunFunc, Workers, Index, slotVars
  <2> QED BY <2>1, <2>2, <2>3, <2>4 DEF PoolInv
<1>6. ASSUME Join PROVE PoolInv'
  <2> USE <1>a, <1>6 DEF Join
  <2>u. InCall => Used \in 0 .. count - 1 /\ Used <= NThreads
    BY UsedRange DEF PoolTypeOK, CallerInv
  <2>s. i <= Used => i \in Workers /\ semDone[i] = 1 /\ thread[i] = "wait" /\ semStart[i] = 0
    BY <2>u DEF PoolTypeOK, WorkerInv, Given, Stopping, InCall, Workers
  <2>1. PoolTypeOK'
    <3>1. CASE i <= Used
      <4>1. semDone' = [semDone EXCEPT ![i] = 0]
        BY <3>1, <2>s DEF PoolTypeOK
      <4>2. semDone' \in [Workers -> 0 .. 1]
        <5>1. semDone \in [Workers -> 0 .. 1] /\ 0 \in 0 .. 1
          BY DEF PoolTypeOK
        <5> QED BY <4>1, <5>1, UpdateType, Zenon
      <4> QED BY <3>1, <4>2 DEF PoolTypeOK
    <3>2. CASE ~(i <= Used)
      BY <3>2 DEF PoolTypeOK, CallerInv, RunFunc, Workers, Index, slotVars, InCall
    <3> QED BY <3>1, <3>2
  <2>2. ASSUME NEW w \in Workers PROVE WorkerInv(w)' /\ StopInv(w)'
    <3>1. CASE i <= Used
      <4>1. semDone' = [semDone EXCEPT ![i] = 0]
        BY <3>1, <2>s DEF PoolTypeOK
      <4>2. CASE w = i
        BY <3>1, <4>1, <4>2, <2>s, <2>u DEF PoolTypeOK, CallerInv, WorkerInv, StopInv, Given, Stopping, InCall, Used, RunFunc, Workers, Index, slotVars
      <4>3. CASE w # i
        BY <3>1, <4>1, <4>3, <2>s, <2>u DEF PoolTypeOK, CallerInv, WorkerInv, StopInv, Given, Stopping, InCall, Used, RunFunc, Workers, Index, slotVars
      <4> QED BY <4>2, <4>3
    <3>2. CASE ~(i <= Used)
      BY <3>2, <2>u DEF PoolTypeOK, CallerInv, WorkerInv, StopInv, Given, Stopping, InCall, Used, RunFunc, Workers, Index, slotVars
    <3> QED BY <3>1, <3>2
  <2>3. CallerInv'
    BY <2>u DEF PoolTypeOK, CallerInv, InCall, Used, slotVars, Workers
  <2>4. RunsInv'
    BY <2>u DEF PoolTypeOK, CallerInv, RunsInv, WorkerInv, Given, InCall, Used, RunFunc, Workers, Index, slotVars
  <2> QED BY <2>1, <2>2, <2>3, <2>4 DEF PoolInv
<1>7. ASSUME Stop PROVE PoolInv'
  <2> USE <1>a, <1>7 DEF Stop
  <2>u. InCall => Used \in 0 .. count - 1 /\ Used <= NThreads
    BY UsedRange DEF PoolTypeOK, CallerInv
  <2>1. PoolTypeOK'
    BY <2>u DEF PoolTypeOK, CallerInv, RunFunc, Workers, Index, slotVars, InCall
  <2>2. ASSUME NEW w \in Workers PROVE WorkerInv(w)' /\ StopInv(w)'
    BY <2>u DEF PoolTypeOK, CallerInv, RunsInv, WorkerInv, StopInv, Given, Stopping, InCall, Used, RunFunc, Workers, Index, slotVars
  <2>3. CallerInv'
    BY <2>u DEF PoolTypeOK, CallerInv, InCall, Used, slotVars, Workers
  <2>4. RunsInv'
    BY <2>u DEF PoolTypeOK, CallerInv, RunsInv, WorkerInv, Given, InCall, Used, RunFunc, Workers, Index, slotVars
  <2> QED BY <2>1, <2>2, <2>3, <2>4 DEF PoolInv
<1>8. ASSUME StopFlag PROVE PoolInv'
  <2> USE <1>a, <1>8 DEF StopFlag
  <2>u. InCall => Used \in 0 .. count - 1 /\ Used <= NThreads
    BY UsedRange DEF PoolTypeOK, CallerInv
  <2>1. PoolTypeOK'
    BY <2>u DEF PoolTypeOK, CallerInv, RunFunc, Workers, Index, slotVars, InCall
  <2>2. ASSUME NEW w \in Workers PROVE WorkerInv(w)' /\ StopInv(w)'
    BY <2>u DEF PoolTypeOK, CallerInv, RunsInv, WorkerInv, StopInv, Given, Stopping, InCall, Used, RunFunc, Workers, Index, slotVars
  <2>3. CallerInv'
    BY <2>u DEF PoolTypeOK, CallerInv, InCall, Used, slotVars, Workers
  <2>4. RunsInv'
    BY <2>u DEF PoolTypeOK, CallerInv, RunsInv, WorkerInv, Given, InCall, Used, RunFunc, Workers, Index, slotVars
  <2> QED BY <2>1, <2>2, <2>3, <2>4 DEF PoolInv
<1>9. ASSUME StopWake PROVE PoolInv'
  <2> USE <1>a, <1>9 DEF StopWake
  <2>u. InCall => Used \in 0 .. count - 1 /\ Used <= NThreads
    BY UsedRange DEF PoolTypeOK, CallerInv
  <2>s. i \in Workers /\ semStart[i] = 0 /\ thread[i] = "wait"
    BY DEF PoolTypeOK, CallerInv, StopInv, Stopping, Workers
  <2>1. PoolTypeOK'
    BY <2>u, <2>s DEF PoolTypeOK, CallerInv, RunFunc, Workers, Index, slotVars, InCall
  <2>2. ASSUME NEW w \in Workers PROVE WorkerInv(w)' /\ StopInv(w)'
    BY <2>u, <2>s DEF PoolTypeOK, CallerInv, RunsInv, WorkerInv, StopInv, Given, Stopping, InCall, Used, RunFunc, Workers, Index, slotVars
  <2>3. CallerInv'
    BY <2>u DEF PoolTypeOK, CallerInv, InCall, Used, slotVars, Workers
  <2>4. RunsInv'
    BY <2>u DEF PoolTypeOK, CallerInv, RunsInv, WorkerInv, Given, InCall, Used, RunFunc, Workers, Index, slotVars
  <2> QED BY <2>1, <2>2, <2>3, <2>4 DEF PoolInv
<1>10. ASSUME StopReap PROVE PoolInv'
  <2> USE <1>a, <1>10 DEF StopReap
  <2>u. InCall => Used \in 0 .. count - 1 /\ Used <= NThreads
    BY UsedRange DEF PoolTypeOK, CallerInv
  <2>1. PoolTypeOK'
    BY <2>u DEF PoolTypeOK, CallerInv, RunFunc, Workers, Index, slotVars, InCall
  <2>2. ASSUME NEW w \in Workers PROVE WorkerInv(w)' /\ StopInv(w)'
    BY <2>u DEF PoolTypeOK, CallerInv, RunsInv, WorkerInv, StopInv, Given, Stopping, InCall, Used, RunFunc, Workers, Index, slotVars
  <2>3. CallerInv'
    BY <2>u DEF PoolTypeOK, CallerInv, InCall, Used, slotVars, Workers
  <2>4. RunsInv'
    BY <2>u DEF PoolTypeOK, CallerInv, RunsInv, WorkerInv, Given, InCall, Used, RunFunc, Workers, Index, slotVars
  <2> QED BY <2>1, <2>2, <2>3, <2>4 DEF PoolInv
<1>11. ASSUME NEW v \in Workers, Wake(v) PROVE PoolInv'
  <2> USE <1>a, <1>11 DEF Wake
  <2>u. InCall => Used \in 0 .. count - 1 /\ Used <= NThreads
    BY UsedRange DEF PoolTypeOK, CallerInv
  <2>1. PoolTypeOK'
    BY <2>u DEF PoolTypeOK, RunFunc, Workers, Index, callerVars, slotVars
  <2>2. ASSUME NEW w \in Workers PROVE WorkerInv(w)' /\ StopInv(w)'
    BY <2>u DEF PoolTypeOK, CallerInv, WorkerInv, StopInv, Given, Stopping, InCall, Used, RunFunc, Workers, Index, callerVars, slotVars
  <2>3. CallerInv'
    BY <2>u DEF PoolTypeOK, CallerInv, InCall, Used, callerVars, slotVars
  <2>4. RunsInv'
    BY <2>u DEF PoolTypeOK, CallerInv, RunsInv, WorkerInv, Given, InCall, Used, RunFunc, Workers, Index, callerVars, slotVars, Stopping
  <2> QED BY <2>1, <2>2, <2>3, <2>4 DEF PoolInv
<1>12. ASSUME NEW v \in Workers, Check(v) PROVE PoolInv'
  <2> USE <1>a, <1>12 DEF Check
  <2>u. InCall => Used \in 0 .. count - 1 /\ Used <= NThreads
    BY UsedRange DEF PoolTypeOK, CallerInv
  <2>1. PoolTypeOK'
    BY <2>u DEF PoolTypeOK, RunFunc, Workers, Index, callerVars, slotVars
  <2>2. ASSUME NEW w \in Workers PROVE WorkerInv(w)' /\ StopInv(w)'
    BY <2>u DEF PoolTypeOK, CallerInv, WorkerInv, StopInv, Given, Stopping, InCall, Used, RunFunc, Workers, Index, callerVars, slotVars
  <2>3. CallerInv'
    BY <2>u DEF PoolTypeOK, CallerInv, InCall, Used, callerVars, slotVars
  <2>4. RunsInv'
    BY <2>u DEF PoolTypeOK, CallerInv, RunsInv, WorkerInv, Given, InCall, Used, RunFunc, Workers, Index, callerVars, slotVars, Stopping
  <2> QED BY <2>1, <2>2, <2>3, <2>4 DEF PoolInv
<1>13. ASSUME NEW v \in Workers, RunTask(v) PROVE PoolInv'
  <2> USE <1>a, <1>13 DEF RunTask
  <2>u. InCall => Used \in 0 .. count - 1 /\ Used <= NThreads
    BY UsedRange DEF PoolTypeOK, CallerInv
  <2>g. ~Stopping /\ Given(v)
    BY DEF PoolTypeOK, WorkerInv, StopInv
  <2>c. InCall
    BY <2>g DEF Given, InCall
  <2>i. InCall /\ v <= Used
    BY <2>c, <2>g, <2>u DEF PoolTypeOK, CallerInv, Given, Workers
  <2>s. InCall /\ Given(v) /\ v \in Index /\ runs[v] = 0 /\ semStart[v] = 0 /\ semDone[v] = 0
    BY <2>g, <2>i, <2>u DEF PoolTypeOK, WorkerInv, Workers, Index
  <2>1. PoolTypeOK'
    BY <2>u, <2>s DEF PoolTypeOK, RunFunc, Workers, Index, callerVars, slotVars
  <2>2. ASSUME NEW w \in Workers PROVE WorkerInv(w)' /\ StopInv(w)'
    BY <2>u, <2>s DEF PoolTypeOK, CallerInv, WorkerInv, StopInv, Given, Stopping, InCall, Used, RunFunc, Workers, Index, callerVars, slotVars
  <2>3. CallerInv'
    BY <2>u DEF PoolTypeOK, CallerInv, InCall, Used, callerVars, slotVars
  <2>4. RunsInv'
    BY <2>u DEF PoolTypeOK, CallerInv, RunsInv, WorkerInv, Given, InCall, Used, RunFunc, Workers, Index, callerVars, slotVars, Stopping
  <2> QED BY <2>1, <2>2, <2>3, <2>4 DEF PoolInv
<1>14. ASSUME NEW v \in Workers, Done(v) PROVE PoolInv'
  <2> USE <1>a, <1>14 DEF Done
  <2>u. InCall => Used \in 0 .. count - 1 /\ Used <= NThreads
    BY UsedRange DEF PoolTypeOK, CallerInv
  <2>s. InCall /\ Given(v) /\ runs[v] = 1 /\ semStart[v] = 0 /\ semDone[v] = 0
    BY <2>u DEF PoolTypeOK, WorkerInv, StopInv, Given, Stopping, InCall, Workers
  <2>1. PoolTypeOK'
    BY <2>u, <2>s DEF PoolTypeOK, RunFunc, Workers, Index, callerVars, slotVars
  <2>2. ASSUME NEW w \in Workers PROVE WorkerInv(w)' /\ StopInv(w)'
    BY <2>u, <2>s DEF PoolTypeOK, CallerInv, WorkerInv, StopInv, Given, Stopping, InCall, Used, RunFunc, Workers, Index, callerVars, slotVars
  <2>3. CallerInv'
    BY <2>u DEF PoolTypeOK, CallerInv, InCall, Used, callerVars, slotVars
  <2>4. RunsInv'
    BY <2>u DEF PoolTypeOK, CallerInv, RunsInv, WorkerInv, Given, InCall, Used, RunFunc, Workers, Index, callerVars, slotVars, Stopping
  <2> QED BY <2>1, <2>2, <2>3, <2>4 DEF PoolInv
<1>15. CASE UNCHANGED poolVars
  BY <1>a, <1>15 DEF PoolInv, poolVars, callerVars, slotVars, PoolTypeOK, CallerInv, RunsInv, WorkerInv, StopInv,
     Given, Stopping, InCall, Used
<1> QED BY <1>1, <1>2, <1>3, <1>4, <1>5, <1>6, <1>7, <1>8, <1>9, <1>10, <1>11, <1>12, <1>13, <1>14, <1>15 DEF PoolNext, CallerStep, WorkerStep

\* The pool's invariant holds in every reachable state.
THEOREM PoolInvariant == PoolSpec => []PoolInv
<1> QED BY PoolInitially, PoolStep, PTL DEF PoolSpec

\* No binary semaphore of the pool is ever released while it is already available, and
\* every index handed out is one of the call's.
THEOREM PoolTypeCorrect == PoolSpec => []PoolTypeOK
<1>1. PoolInv => PoolTypeOK
  BY DEF PoolInv
<1> QED BY <1>1, PoolInvariant, PTL

\* No slot's task is overwritten while its worker may still use it, and no task outlives
\* the call whose func it refers to, with any number of workers.
THEOREM TaskExclusion == PoolSpec => []NoTaskRace
<1>1. PoolInv => NoTaskRace
  <2> SUFFICES ASSUME PoolInv PROVE NoTaskRace
    OBVIOUS
  <2> USE PoolAssumption
  <2>0. PoolTypeOK /\ CallerInv /\ \A w \in Workers : WorkerInv(w) /\ StopInv(w)
    BY DEF PoolInv
  <2>1. ASSUME caller = "assign"
        PROVE  thread[i] = "wait" /\ semStart[i] = 0 /\ semDone[i] = 0
    <3>1. Used <= NThreads /\ i \in Workers
      BY <2>0, <2>1, UsedRange DEF PoolTypeOK, CallerInv, InCall, Workers
    <3>2. ~Given(i) /\ ~Stopping
      BY <2>0, <2>1, <3>1 DEF Given, Stopping, PoolTypeOK, Workers
    <3> QED BY <2>0, <3>1, <3>2 DEF WorkerInv
  <2>2. ASSUME NEW w \in Workers, thread[w] = "run"
        PROVE  InCall /\ task[w] = called
    <3>1. ~Stopping
      BY <2>0, <2>2 DEF StopInv
    <3>2. Given(w)
      BY <2>0, <2>2, <3>1 DEF WorkerInv
    <3> QED BY <2>0, <3>2 DEF WorkerInv, Given, InCall
  <2> QED BY <2>1, <2>2 DEF NoTaskRace
<1> QED BY <1>1, PoolInvariant, PTL

\* parallelFor() runs func exactly once for every index below count before it returns, and
\* never after: every step of the pool is a step of ForkJoin or leaves its state alone.
THEOREM PoolKeepsPromise == PoolSpec => PromiseKept
<1>1. PoolInit => Promise!Init
  BY DEF PoolInit, Promise!Init, Promise!Index, Index, InCall
<1>2. PoolInv /\ [PoolNext]_poolVars => [Promise!Next]_<<called, InCall, count, runs>>
  <2> SUFFICES ASSUME PoolInv, [PoolNext]_poolVars
               PROVE  Promise!Next \/ UNCHANGED <<called, InCall, count, runs>>
    OBVIOUS
  <2> USE PoolAssumption
  <2>0. PoolTypeOK /\ CallerInv /\ RunsInv /\ \A w \in Workers : WorkerInv(w) /\ StopInv(w)
    BY DEF PoolInv
  <2>u. InCall => Used \in 0 .. count - 1 /\ Used <= NThreads
    BY <2>0, UsedRange DEF PoolTypeOK, CallerInv
  <2>k. ASSUME NEW k \in Index, InCall, InCall', k < count, runs[k] = 0, RunFunc(k),
               UNCHANGED <<called, count>>
        PROVE  Promise!Next
    <3>1. runs' = [runs EXCEPT ![k] = 1]
      BY <2>k DEF RunFunc
    <3>2. Promise!Run(k)
      BY <2>k, <3>1 DEF Promise!Run, InCall
    <3> QED BY <2>k, <3>2 DEF Promise!Next, Promise!Index, Index
  <2>1. ASSUME NEW n \in 1 .. MaxCount, Call(n)
        PROVE  Promise!Next
    <3>1. Promise!Call(n)
      BY <2>1 DEF Call, Promise!Call, Promise!Index, Index, InCall
    <3> QED BY <3>1 DEF Promise!Next
  <2>2. CASE RunOwn
    <3>1. 0 \in Index /\ 0 < count /\ runs[0] = 0 /\ InCall /\ InCall'
      BY <2>0, <2>2 DEF RunOwn, InCall, Index, PoolTypeOK, CallerInv, RunsInv
    <3> QED BY <2>2, <2>k, <3>1 DEF RunOwn
  <2>3. CASE RunRest
    <3>1. CASE i < count
      <4>1. i \in Index /\ runs[i] = 0 /\ InCall /\ InCall'
        BY <2>0, <2>3, <2>u, <3>1 DEF RunRest, InCall, Index, PoolTypeOK, CallerInv, RunsInv
      <4> QED BY <2>3, <2>k, <3>1, <4>1 DEF RunRest
    <3>2. CASE ~(i < count)
      BY <2>3, <3>2 DEF RunRest, InCall
    <3> QED BY <3>1, <3>2
  <2>4. CASE Join
    <3>1. CASE i <= Used
      BY <2>4, <3>1 DEF Join, InCall
    <3>2. CASE ~(i <= Used)
      <4>1. InCall /\ ~InCall' /\ UNCHANGED <<called, count, runs>>
        BY <2>4, <3>2 DEF Join, InCall
      <4>2. ASSUME NEW k \in Index, k < count PROVE runs[k] = 1
        <5>1. k < i \/ Used < k
          BY <2>0, <2>u, <3>2, <4>1 DEF PoolTypeOK, Index
        <5> QED BY <2>0, <2>4, <4>1, <4>2, <5>1 DEF RunsInv, Join
      <4>3. Promise!Return
        BY <4>1, <4>2 DEF Promise!Return, Promise!Index, Index
      <4> QED BY <4>3 DEF Promise!Next
    <3> QED BY <3>1, <3>2
  <2>5. CASE Assign \/ Release \/ Stop \/ StopFlag \/ StopWake \/ StopReap
    BY <2>5 DEF Assign, Release, Stop, StopFlag, StopWake, StopReap, InCall
  <2>6. ASSUME NEW w \in Workers, RunTask(w)
        PROVE  Promise!Next
    <3>1. Given(w) /\ ~Stopping /\ runs[w] = 0
      BY <2>0, <2>6 DEF RunTask, WorkerInv, StopInv
    <3>2. InCall
      BY <3>1 DEF Given, InCall
    <3>3. w \in Index /\ w < count
      BY <2>0, <2>u, <3>1, <3>2 DEF Given, PoolTypeOK, CallerInv, Index, Workers
    <3>4. InCall' /\ UNCHANGED <<called, count>> /\ RunFunc(w)
      BY <2>6, <3>2 DEF RunTask, InCall, callerVars
    <3> QED BY <2>k, <3>1, <3>2, <3>3, <3>4
  <2>7. ASSUME NEW w \in Workers, Wake(w) \/ Check(w) \/ Done(w)
        PROVE  UNCHANGED <<called, InCall, count, runs>>
    BY <2>7 DEF Wake, Check, Done, InCall, callerVars, slotVars
  <2>8. CASE UNCHANGED poolVars
    BY <2>8 DEF poolVars, callerVars, InCall
  <2> QED BY <2>1, <2>2, <2>3, <2>4, <2>5, <2>6, <2>7, <2>8 DEF PoolNext, CallerStep, WorkerStep
<1> QED BY <1>1, <1>2, PoolInvariant, PTL DEF PoolSpec, PromiseKept, Promise!Spec
=============================================================================
