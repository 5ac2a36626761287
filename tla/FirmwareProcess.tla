-------------------------- MODULE FirmwareProcess --------------------------
(***************************************************************************)
(* zephyr/FirmwareProcess.cpp: the firmware stand-in as a child process.   *)
(*                                                                         *)
(*   the owner     start(), stop() and the destructor                      *)
(*   monitorThread waits for the child's end, reads its output, accepts    *)
(*                 its RPC connection                                      *)
(*   the child     exits by itself, on SIGTERM (perhaps) or on SIGKILL     *)
(*                                                                         *)
(* Both threads reap the child, whichever sees its end first, and both     *)
(* store running_.  Waits give up after a second: when, is left open.      *)
(* Output, its callback and exit codes are left out.                       *)
(***************************************************************************)
EXTENDS Integers

CONSTANT MaxForks \* bound: calls of start()

ASSUME FirmwareAssumption == MaxForks \in Nat \ {0}

VARIABLES
  running, stopAsked, \* running_, stopRequested_
  descriptors,        \* of: the pipes, rpc_server_fd_ with its path, rpc_client_fd_
  joinable,           \* monitorThread_.joinable()
  monitor,            \* how far the monitor thread is
  owner,              \* how far the owner's call is, and which call it is
  child,              \* "none", "running", "wants" (SIGTERM is pending), "zombie", "reaped"
  forks,              \* history: calls of start()
  fate                \* history: what has happened to the object

firmwareVars == <<running, stopAsked, descriptors, joinable, monitor, owner, child, forks,
                  fate>>

FirmwareInit ==
  /\ running = FALSE /\ stopAsked = FALSE
  /\ descriptors = {} /\ joinable = FALSE /\ monitor = "none"
  /\ owner = [at |-> "idle", call |-> "none"] /\ child = "none"
  /\ forks = 0
  /\ fate = [terminated |-> FALSE, strayKill |-> FALSE, leaked |-> FALSE, selfExit |-> FALSE,
             startFailed |-> FALSE, slow |-> 0, stopped |-> FALSE]

Alive == ~fate.terminated /\ owner.at # "destroyed"

----------------------------------------------------------------------------
(* The owner.                                                              *)

\* start() up to the fork: the socket, the pipes, the child.  What was still open is overwritten,
\* and what a later failure leaves open stays so.
Opened(rpc, pipes) == (IF rpc THEN {"server"} ELSE {}) \cup (IF pipes THEN {"pipes"} ELSE {})
Start(rpc, pipes, forked) ==
  /\ Alive /\ owner.at = "idle" /\ ~running /\ forks < MaxForks
  /\ forks' = forks + 1
  /\ stopAsked' = FALSE
  /\ descriptors' = (descriptors \ {"server"}) \cup Opened(rpc, pipes)
  /\ fate' = [fate EXCEPT !.leaked = @ \/ (descriptors \ {"client"} # {}),
                          !.startFailed = @ \/ ~forked, !.stopped = FALSE]
  /\ IF forked
     THEN /\ child' = "running" /\ running' = TRUE
          /\ owner' = [at |-> "monitor", call |-> "start"]
     ELSE UNCHANGED <<child, running, owner>>
  /\ UNCHANGED <<joinable, monitor>>

\* Assigning to a thread that has not been joined ends the program.
StartMonitor ==
  /\ Alive /\ owner.at = "monitor"
  /\ IF joinable THEN fate' = [fate EXCEPT !.terminated = TRUE] /\ UNCHANGED <<joinable, monitor>>
     ELSE joinable' = TRUE /\ monitor' = "loop" /\ UNCHANGED fate
  /\ owner' = [at |-> "idle", call |-> "none"]
  /\ UNCHANGED <<running, stopAsked, descriptors, child, forks>>

\* stop(), of a process that runs: after its end there is nothing stop() would do.
Stop(call) ==
  /\ Alive /\ owner.at = "idle" /\ running
  /\ stopAsked' = TRUE
  /\ owner' = [at |-> "term", call |-> call]
  /\ UNCHANGED <<running, descriptors, joinable, monitor, child, forks, fate>>

\* kill(): a child somebody has reaped meanwhile is another's process by now.
SignalTo(c, signal) ==
  CASE c = "running" -> IF signal = "kill" THEN "zombie" ELSE "wants"
    [] c = "wants"   -> IF signal = "kill" THEN "zombie" ELSE c
    [] OTHER         -> c
Kill(from, signal, to) ==
  /\ Alive /\ owner.at = from
  /\ child' = SignalTo(child, signal)
  /\ fate' = [fate EXCEPT !.strayKill = @ \/ (child = "reaped")]
  /\ owner' = [owner EXCEPT !.at = to]
  /\ UNCHANGED <<running, stopAsked, descriptors, joinable, monitor, forks>>
Terminate == Kill("term", "term", "wait")
ForceKill == Kill("kill", "kill", "waitAgain")

\* waitForExit(): the child is reaped here, or the monitor thread has seen its end.
Waiting == owner.at \in {"wait", "waitAgain"}
WaitForExit ==
  /\ Alive /\ Waiting
  /\ child = "zombie" \/ ~running
  /\ running' = FALSE
  /\ child' = IF running THEN "reaped" ELSE child
  /\ owner' = [owner EXCEPT !.at = "join"]
  /\ UNCHANGED <<stopAsked, descriptors, joinable, monitor, forks, fate>>
\* A plausible slip: no limit to the patience.
WaitOn == Alive /\ Waiting /\ running /\ UNCHANGED firmwareVars
WaitTimesOut ==
  /\ Alive /\ Waiting /\ running
  /\ owner' = [owner EXCEPT !.at = IF @ = "wait" THEN "kill" ELSE "join"]
  /\ fate' = [fate EXCEPT !.slow = IF owner.at = "wait" THEN 1 ELSE 2]
  /\ UNCHANGED <<running, stopAsked, descriptors, joinable, monitor, child, forks>>

\* A plausible slip: the thread is left to find out by itself.
LeaveThread ==
  /\ Alive /\ owner.at = "join"
  /\ owner' = [owner EXCEPT !.at = "close"]
  /\ UNCHANGED <<running, stopAsked, descriptors, joinable, monitor, child, forks, fate>>
Join ==
  /\ Alive /\ owner.at = "join" /\ monitor = "done"
  /\ joinable' = FALSE
  /\ owner' = [owner EXCEPT !.at = "close"]
  /\ UNCHANGED <<running, stopAsked, descriptors, monitor, child, forks, fate>>

Close ==
  /\ Alive /\ owner.at = "close"
  /\ descriptors' = {}
  /\ running' = FALSE
  /\ fate' = [fate EXCEPT !.stopped = TRUE]
  /\ owner' = [at |-> IF owner.call = "destroy" THEN "members" ELSE "idle", call |-> "none"]
  /\ UNCHANGED <<stopAsked, joinable, monitor, child, forks>>

\* The destructor's stop() returns at once when nothing runs (any more) ...
DestroyIdle ==
  /\ Alive /\ owner.at = "idle" /\ ~running
  /\ owner' = [at |-> "members", call |-> "destroy"]
  /\ UNCHANGED <<running, stopAsked, descriptors, joinable, monitor, child, forks, fate>>
\* ... and a thread that has not been joined ends the program.
DestroyMembers ==
  /\ Alive /\ owner.at = "members"
  /\ owner' = [at |-> "destroyed", call |-> "none"]
  /\ fate' = [fate EXCEPT !.terminated = joinable, !.leaked = @ \/ descriptors # {}]
  /\ UNCHANGED <<running, stopAsked, descriptors, joinable, monitor, child, forks>>

----------------------------------------------------------------------------
(* The monitor thread and the child.                                       *)

GoesOn == running /\ ~stopAsked

MonitorLoop ==
  /\ Alive /\ monitor = "loop"
  /\ monitor' = IF GoesOn THEN "waitpid" ELSE "done"
  /\ UNCHANGED <<running, stopAsked, descriptors, joinable, owner, child, forks, fate>>
MonitorReaps ==
  /\ Alive /\ monitor = "waitpid" /\ child = "zombie"
  /\ child' = "reaped" /\ monitor' = "reaped"
  /\ UNCHANGED <<running, stopAsked, descriptors, joinable, owner, forks, fate>>
MonitorStores ==
  /\ Alive /\ monitor = "reaped"
  /\ running' = FALSE /\ monitor' = "done"
  /\ UNCHANGED <<stopAsked, descriptors, joinable, owner, child, forks, fate>>
\* Output, and the firmware's connection when there is one to accept.
MonitorReads(connects) ==
  /\ Alive /\ monitor = "waitpid" /\ child # "zombie"
  /\ descriptors' = IF connects /\ "server" \in descriptors THEN descriptors \cup {"client"}
                    ELSE descriptors
  /\ monitor' = "loop"
  /\ UNCHANGED <<running, stopAsked, joinable, owner, child, forks, fate>>

ChildExits ==
  /\ child \in {"running", "wants"}
  /\ child' = "zombie"
  /\ fate' = [fate EXCEPT !.selfExit = @ \/ child = "running"]
  /\ UNCHANGED <<running, stopAsked, descriptors, joinable, monitor, owner, forks>>

OwnerStep ==
  \/ StartMonitor \/ Terminate \/ ForceKill \/ WaitForExit \/ WaitTimesOut
  \/ Join \/ Close \/ DestroyMembers
MonitorStep == MonitorLoop \/ MonitorReaps \/ MonitorStores \/ (\E c \in BOOLEAN : MonitorReads(c))

FirmwareNext ==
  \/ \E rpc, pipes, forked \in BOOLEAN : (forked => pipes) /\ Start(rpc, pipes, forked)
  \/ (\E call \in {"stop", "destroy"} : Stop(call)) \/ DestroyIdle
  \/ OwnerStep \/ MonitorStep \/ ChildExits

\* Calls go on by themselves, and so does the thread.
FirmwareSpec ==
  /\ FirmwareInit /\ [][FirmwareNext]_firmwareVars
  /\ WF_firmwareVars(OwnerStep) /\ WF_firmwareVars(MonitorStep)

----------------------------------------------------------------------------

\* What stop() has stopped leaves nothing: no thread, no descriptor, and no child unless it took
\* more than a second to die of SIGKILL.  The program is ended only if the firmware exited by
\* itself: then stop() finds running_ false and leaves the thread and the descriptors.  A signal
\* goes to a stranger only then, or when a child that was given a second uses it all up; a
\* descriptor is lost only then, or when a start() failed half way
\* (FirmwareProcess.cpp:97, :147 and :176, whose two threads both reap the child).
FirmwareReleased ==
  /\ fate.stopped /\ owner.at \in {"idle", "destroyed"} =>
       ~joinable /\ descriptors = {} /\ (child = "reaped" \/ fate.slow = 2)
  /\ fate.terminated => fate.selfExit
  /\ fate.strayKill => fate.selfExit \/ fate.slow > 0
  /\ fate.leaked => fate.selfExit \/ fate.startFailed

\* stop() returns, whatever the child does with its SIGTERM, and so does the destructor's: the
\* waits are bounded and the thread it joins sees stopRequested_ or the end of the child.
StopReturns == (Alive /\ owner.at = "term") ~> (~Alive \/ owner.at = "idle")
=============================================================================
