------------------------------ MODULE ForkJoin ------------------------------
(***************************************************************************)
(* What ThreadPool::parallelFor(count, func) promises its caller: between  *)
(* the call and the return, func runs exactly once for every index below   *)
(* count, in any order, and never afterwards.                              *)
(***************************************************************************)
EXTENDS Integers

CONSTANTS MaxCount,   \* bound: the largest count of a call
          MaxCalls    \* bound: the number of calls

VARIABLES called,     \* calls of parallelFor so far
          inside,     \* the caller is inside parallelFor
          count,      \* the argument of the last call that had work to do
          runs        \* how often func has run for each index in this call

Index == 0 .. MaxCount

Init == /\ called = 0 /\ inside = FALSE /\ count = 0
        /\ runs = [k \in Index |-> 0]

Call(n) == /\ ~inside /\ called < MaxCalls
           /\ called' = called + 1
           /\ inside' = TRUE /\ count' = n
           /\ runs' = [k \in Index |-> 0]

\* Running an index twice, or one that is not below count, is not a step of this module.
Run(k) == /\ inside /\ k < count /\ runs[k] = 0
          /\ runs' = [runs EXCEPT ![k] = 1]
          /\ UNCHANGED <<called, inside, count>>

Return == /\ inside
          /\ \A k \in Index : k < count => runs[k] = 1
          /\ inside' = FALSE
          /\ UNCHANGED <<called, count, runs>>

Next == \/ \E n \in 1 .. MaxCount : Call(n)
        \/ \E k \in Index : Run(k)
        \/ Return

Spec == Init /\ [][Next]_<<called, inside, count, runs>>
=============================================================================
