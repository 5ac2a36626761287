------------------------------ MODULE HostApp ------------------------------
(***************************************************************************)
(* host/HostApp.cpp with the receiving half of UDPStreamTransport.cpp:     *)
(* a client of the twin as a library.                                      *)
(*                                                                         *)
(*   the user          initialize(), startReceiving(), pollFrames(),       *)
(*                     resetStats(), a command, shutdown()                 *)
(*   HostApp's thread  receiveLoop(): pollFrames()                         *)
(*   the stream's      receiveLoop(): from the socket into the ring        *)
(*                                                                         *)
(* The ring's positions are atomic; loads and stores of one position by    *)
(* two threads are steps.  Frames are known by their numbers.  Commands    *)
(* are one at a time; a late answer stays on the connection.               *)
(***************************************************************************)
EXTENDS Integers, Sequences

CONSTANTS HostRing,     \* config.receiveBufferSize
          PollLimit,    \* pollFrames(100)
          MaxArrivals,  \* bound: frames that arrive
          MaxCommands,  \* bound: commands
          MaxLives      \* bound: calls of initialize()

ASSUME HostAssumption == {HostRing, PollLimit, MaxArrivals, MaxCommands, MaxLives} \subseteq Nat \ {0}

VARIABLES
  host,     \* connected_, control_ and stream_ open, receiving_, stopRequested_
  user,     \* how far the user's call is, and the writePos clear() has loaded
  poll,     \* pollFrames(): who runs it, how far it is, frames so far, the copy, readPos loaded
  ring,     \* receiveBuffer, writePos, readPos
  store,    \* the stream's thread has stored a frame but not writePos
  arrivals, \* history: the number of the latest frame that arrived
  seen,     \* history: the number of the latest frame handed to the callback, and whether a
            \* number came twice or backwards
  cleared,  \* history: a clear() raced with a read
  pending,  \* answers on the connection, by the command they answer
  command,  \* history: commands so far, the latest answered and what came, one timed out
  lives     \* counter for the bound

hostVars == <<host, user, poll, ring, store, arrivals, seen, cleared, pending, command, lives>>

Closed == [connected |-> FALSE, control |-> FALSE, stream |-> FALSE, receiving |-> FALSE,
           stopAsked |-> FALSE]
EmptyRing == [buffer |-> [s \in 0..HostRing-1 |-> 0], w |-> 0, r |-> 0]
NoPoll == [by |-> "nobody", at |-> "idle", count |-> 0, frame |-> 0, r |-> 0]

HostInit ==
  /\ host = Closed
  /\ user = [at |-> "idle", w |-> 0]
  /\ poll = NoPoll
  /\ ring = EmptyRing /\ store = FALSE
  /\ arrivals = 0 /\ seen = [latest |-> 0, again |-> FALSE] /\ cleared = FALSE
  /\ pending = <<>> /\ command = [sent |-> 0, answered |-> 0, got |-> 0, timedOut |-> FALSE]
  /\ lives = 0

NextSlot(p) == (p + 1) % HostRing
UserIdle == user.at = "idle" /\ poll.by # "user"
dataPlane == <<poll, ring, store, arrivals, seen, cleared>>
controlPlane == <<pending, command>>

----------------------------------------------------------------------------
(* The user's calls.                                                       *)

\* initialize(): without the control connection, or without the stream's port, nothing stays open.
Initialize(stream) ==
  /\ UserIdle /\ ~host.connected /\ lives < MaxLives
  /\ lives' = lives + 1
  /\ host' = [host EXCEPT !.connected = stream, !.stream = stream, !.control = stream]
  /\ ring' = EmptyRing /\ store' = FALSE
  /\ pending' = <<>> /\ command' = [command EXCEPT !.timedOut = FALSE, !.answered = 0]
  /\ UNCHANGED <<user, poll, arrivals, seen, cleared>>

StartReceivingHost ==
  /\ UserIdle /\ host.connected /\ ~host.receiving
  /\ host' = [host EXCEPT !.receiving = TRUE, !.stopAsked = FALSE]
  /\ poll' = [NoPoll EXCEPT !.by = "thread", !.at = "loop"]
  /\ UNCHANGED <<user, ring, store, arrivals, seen, cleared, controlPlane, lives>>

\* stopReceiving(), alone or at the beginning of shutdown(): asks, ...
AskThread(then) ==
  /\ UserIdle /\ host.receiving
  /\ host' = [host EXCEPT !.stopAsked = TRUE]
  /\ user' = [user EXCEPT !.at = then]
  /\ UNCHANGED <<dataPlane, controlPlane, lives>>
\* A plausible slip: the thread is left to find out by itself.
LeaveThreadBehind ==
  /\ user.at \in {"stop", "shutdown"}
  /\ host' = [host EXCEPT !.receiving = FALSE]
  /\ user' = [user EXCEPT !.at = IF @ = "shutdown" THEN "close" ELSE "idle"]
  /\ UNCHANGED <<dataPlane, controlPlane, lives>>
\* ... and joins.
JoinThread ==
  /\ user.at \in {"stop", "shutdown"} /\ poll.by = "nobody"
  /\ host' = [host EXCEPT !.receiving = FALSE]
  /\ user' = [user EXCEPT !.at = IF @ = "shutdown" THEN "close" ELSE "idle"]
  /\ UNCHANGED <<dataPlane, controlPlane, lives>>
\* shutdown() without a thread, and the rest of it: both transports are closed, and the stream's
\* own thread joined.
CloseTransports ==
  /\ user.at = "close" \/ (UserIdle /\ host.connected /\ ~host.receiving)
  /\ host' = Closed
  /\ user' = [user EXCEPT !.at = "idle"]
  /\ store' = FALSE
  /\ UNCHANGED <<poll, ring, arrivals, seen, cleared, controlPlane, lives>>

\* pollFrames() by the user, who has not started the thread.
PollBegins ==
  /\ UserIdle /\ host.connected /\ ~host.receiving
  /\ poll' = [NoPoll EXCEPT !.by = "user", !.at = "poll"]
  /\ UNCHANGED <<host, user, ring, store, arrivals, seen, cleared, controlPlane, lives>>

\* resetStats(): clear() loads writePos ...
ResetLoads ==
  /\ UserIdle /\ host.stream
  /\ user' = [at |-> "clear", w |-> ring.w]
  /\ cleared' = (cleared \/ (poll.by = "thread" /\ poll.at \in {"copied", "loaded"}))
  /\ UNCHANGED <<host, poll, ring, store, arrivals, seen, controlPlane, lives>>
\* ... and stores it, whatever HostApp's thread has read since.
ResetStores ==
  /\ user.at = "clear"
  /\ ring' = [ring EXCEPT !.r = user.w]
  /\ user' = [user EXCEPT !.at = "idle"]
  /\ UNCHANGED <<host, poll, store, arrivals, seen, cleared, controlPlane, lives>>

----------------------------------------------------------------------------
(* pollFrames().                                                           *)

\* receiveLoop(): another batch, or the end.
LoopAgain ==
  /\ poll.at = "loop"
  /\ poll' = IF host.stopAsked THEN NoPoll ELSE [poll EXCEPT !.at = "poll", !.count = 0]
  /\ UNCHANGED <<host, user, ring, store, arrivals, seen, cleared, controlPlane, lives>>
PollEnds ==
  /\ poll.at = "poll" /\ (ring.r = ring.w \/ poll.count = PollLimit)
  /\ poll' = IF poll.by = "thread" THEN [poll EXCEPT !.at = "loop"] ELSE NoPoll
  /\ UNCHANGED <<host, user, ring, store, arrivals, seen, cleared, controlPlane, lives>>
PollCopies ==
  /\ poll.at = "poll" /\ ring.r # ring.w /\ poll.count < PollLimit
  /\ poll' = [poll EXCEPT !.at = "copied", !.frame = ring.buffer[ring.r]]
  /\ cleared' = (cleared \/ user.at = "clear")
  /\ UNCHANGED <<host, user, ring, store, arrivals, seen, controlPlane, lives>>
\* readPos is loaded again for the store.
PollLoads ==
  /\ poll.at = "copied"
  /\ poll' = [poll EXCEPT !.at = "loaded", !.r = ring.r]
  /\ UNCHANGED <<host, user, ring, store, arrivals, seen, cleared, controlPlane, lives>>
\* The callback gets the frame.
PollStores ==
  /\ poll.at = "loaded"
  /\ ring' = [ring EXCEPT !.r = NextSlot(poll.r)]
  /\ poll' = [poll EXCEPT !.at = "poll", !.count = @ + 1]
  /\ seen' = [latest |-> poll.frame, again |-> seen.again \/ poll.frame <= seen.latest]
  /\ UNCHANGED <<host, user, store, arrivals, cleared, controlPlane, lives>>

----------------------------------------------------------------------------
(* The stream's thread.                                                    *)

RoomInRing == NextSlot(ring.w) # ring.r
Arrive ==
  /\ host.stream /\ ~store /\ arrivals < MaxArrivals
  /\ arrivals' = arrivals + 1
  /\ IF RoomInRing
     THEN ring' = [ring EXCEPT !.buffer[ring.w] = arrivals'] /\ store' = TRUE
     ELSE UNCHANGED <<ring, store>>
  /\ UNCHANGED <<host, user, poll, seen, cleared, controlPlane, lives>>
StoreWrite ==
  /\ store
  /\ ring' = [ring EXCEPT !.w = NextSlot(ring.w)] /\ store' = FALSE
  /\ UNCHANGED <<host, user, poll, arrivals, seen, cleared, controlPlane, lives>>

----------------------------------------------------------------------------
(* sendCommand().                                                          *)

\* The first answer on the connection, an answer late or lost, or an error that closes it while
\* connected_ stays true.
Command(outcome) ==
  /\ UserIdle /\ host.connected /\ host.control /\ command.sent < MaxCommands
  /\ LET n == command.sent + 1
         onWire == Append(pending, n)
     IN  CASE outcome = "answer"  -> /\ command' = [command EXCEPT !.sent = n, !.answered = n,
                                                                   !.got = Head(onWire)]
                                     /\ pending' = Tail(onWire) /\ UNCHANGED host
           [] outcome = "timeout" -> /\ command' = [command EXCEPT !.sent = n, !.timedOut = TRUE]
                                     /\ pending' = onWire /\ UNCHANGED host
           [] outcome = "closed"  -> /\ command' = [command EXCEPT !.sent = n]
                                     /\ host' = [host EXCEPT !.control = FALSE]
                                     /\ UNCHANGED pending
  /\ UNCHANGED <<user, dataPlane, lives>>

HostNext ==
  \/ (\E stream \in BOOLEAN : Initialize(stream)) \/ StartReceivingHost
  \/ (\E then \in {"stop", "shutdown"} : AskThread(then)) \/ JoinThread \/ CloseTransports
  \/ PollBegins \/ ResetLoads \/ ResetStores
  \/ LoopAgain \/ PollEnds \/ PollCopies \/ PollLoads \/ PollStores
  \/ Arrive \/ StoreWrite
  \/ \E outcome \in {"answer", "timeout", "closed"} : Command(outcome)

HostSpec == HostInit /\ [][HostNext]_hostVars

----------------------------------------------------------------------------

\* Without a resetStats() that falls into a read, the callback gets each frame at most once and in
\* order; what initialize() does not complete and what shutdown() has ended leaves no connection
\* and no thread; and a command's answer is its own until one has timed out
\* (HostApp.cpp:127-161, :17-90 and :180-193, UDPStreamTransport.cpp:155-163 and :194).
HostSound ==
  /\ ~cleared => ~seen.again
  /\ ~host.connected /\ user.at = "idle" => ~host.control /\ ~host.stream /\ poll.by = "nobody"
  /\ command.answered = command.sent /\ ~command.timedOut => command.got = command.answered
=============================================================================
