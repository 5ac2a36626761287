------------------------------- MODULE MCTwin -------------------------------
(***************************************************************************)
(* The twin's threads, for TLC: a streaming session, the ring its frames   *)
(* go through slot by slot, and the pool its batches are computed on.      *)
(* They share no variable, so one run checks them one after the other: the *)
(* initial state says which moves, and the others start in one of their    *)
(* initial states and stay.                                                *)
(***************************************************************************)
EXTENDS RingBuffer, ThreadPool, TwinSession

CONSTANTS f1, f2

VARIABLE part

MCFrame == {f1, f2}

MCVars == <<part, ringVars, poolVars, vars>>

\* The uninitialised slots, and whether the twin is timed, are only told apart in their own part.
MCInit ==
  /\ part \in {"ring", "pool", "session"}
  /\ RingInit /\ PoolInit /\ Init
  /\ part # "ring" => \A s \in DOMAIN buffer : buffer[s] = f1
  /\ part # "session" => ~timed

OnlyPool == part = "pool" /\ UNCHANGED <<part, ringVars, vars>>
OnlySession == part = "session" /\ UNCHANGED <<part, ringVars, poolVars>>

MCNext ==
  \/ part = "ring" /\ RingNext /\ UNCHANGED <<part, poolVars, vars>>
  \/ PoolNext /\ OnlyPool
  \/ Next /\ OnlySession

\* The fairness of the pool and of the session: their threads are scheduled.
MCFairness ==
  /\ WF_MCVars(CallerStep /\ OnlyPool)
  /\ \A w \in Workers : WF_MCVars(WorkerStep(w) /\ OnlyPool)
  /\ WF_MCVars(Worker /\ OnlySession)
  /\ WF_MCVars(Pacer /\ OnlySession)
  /\ WF_MCVars(Session /\ OnlySession)

MCSpec == MCInit /\ [][MCNext]_MCVars /\ MCFairness
=============================================================================
