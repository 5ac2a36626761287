----------------------------- MODULE TcpFraming -----------------------------
(***************************************************************************)
(* TCPControlTransport.cpp under the worker loop of ControlHandler.cpp: a  *)
(* length, then that many bytes, on a stream that may stall anywhere.      *)
(*                                                                         *)
(* A request travels as its length, the first four bytes of its payload    *)
(* and the rest, so that a payload can be taken for a length.  What a      *)
(* failed receive means is decided by errno: EAGAIN is a timeout, after    *)
(* which the connection goes on, anything else its end.  A descriptor that *)
(* is closed already leaves errno as the call before has set it.           *)
(***************************************************************************)
EXTENDS Integers, Sequences

CONSTANT MaxMessages \* bound: requests sent

ASSUME TcpFramingAssumption == MaxMessages \in Nat \ {0}

VARIABLES
  sentRequests, \* history: requests the client has sent
  wire,         \* the bytes in flight, in order
  arrived,      \* how many chunks of wire have reached the twin
  connFd,       \* connFd >= 0
  again,        \* errno is EAGAIN
  worker,       \* how far the worker is, and the length it has read
  sessionUp,    \* ControlHandler::connected
  handled,      \* history: the requests handled
  sendTimedOut  \* history: the send of a response timed out

tcpVars == <<sentRequests, wire, arrived, connFd, again, worker, sessionUp, handled, sendTimedOut>>

Chunks(id) == <<<<"length", id>>, <<"head", id>>, <<"rest", id>>>>
NoLength == 0
GarbageLength == -1

TcpInit ==
  /\ sentRequests = 0 /\ wire = <<>> /\ arrived = 0
  /\ connFd = TRUE /\ again = FALSE
  /\ worker = [at |-> "receive", length |-> NoLength]
  /\ sessionUp = TRUE /\ handled = <<>> /\ sendTimedOut = FALSE

\* The client sends without waiting for answers it has given up, the network delivers in pieces.
ClientSends ==
  /\ sentRequests < MaxMessages
  /\ sentRequests' = sentRequests + 1
  /\ wire' = wire \o Chunks(sentRequests')
  /\ UNCHANGED <<arrived, connFd, again, worker, sessionUp, handled, sendTimedOut>>
Deliver ==
  /\ arrived < Len(wire)
  /\ \E n \in arrived + 1..Len(wire) : arrived' = n
  /\ UNCHANGED <<sentRequests, wire, connFd, again, worker, sessionUp, handled, sendTimedOut>>

\* recv(): what is taken off the wire.
Taken(n) == wire' = SubSeq(wire, n + 1, Len(wire)) /\ arrived' = arrived - n

----------------------------------------------------------------------------
(* receiveRequest() and run().                                             *)

\* What run() makes of a receive that gave no message.
Failed(timedOut) ==
  /\ worker' = [at |-> "receive", length |-> NoLength]
  /\ again' = timedOut
  /\ connFd' = (connFd /\ timedOut)
  /\ sessionUp' = (sessionUp /\ timedOut)
  /\ UNCHANGED <<sentRequests, handled, sendTimedOut>>

\* No descriptor: errno is the one of an earlier call.
NoDescriptor ==
  /\ worker.at = "receive" /\ ~connFd
  /\ Failed(again)
  /\ UNCHANGED <<wire, arrived>>

LengthTimesOut ==
  /\ worker.at = "receive" /\ connFd /\ arrived = 0
  /\ Failed(TRUE)
  /\ UNCHANGED <<wire, arrived>>

\* Four bytes, which need not be a length.
ReadLength ==
  /\ worker.at = "receive" /\ connFd /\ arrived > 0
  /\ Head(wire)[1] # "rest"
  /\ Taken(1)
  /\ worker' = [at |-> "payload",
                length |-> IF Head(wire)[1] = "length" THEN Head(wire)[2] ELSE GarbageLength]
  /\ again' = FALSE
  /\ UNCHANGED <<sentRequests, connFd, sessionUp, handled, sendTimedOut>>
\* Fewer than four.
ReadFragment ==
  /\ worker.at = "receive" /\ connFd /\ arrived > 0
  /\ Head(wire)[1] = "rest"
  /\ Taken(1)
  /\ Failed(FALSE)

\* MSG_WAITALL: all of it, ...
ReadPayload ==
  /\ worker.at = "payload" /\ worker.length # GarbageLength
  /\ arrived >= 2
  /\ Taken(2)
  /\ worker' = [worker EXCEPT !.at = "reply"]
  /\ handled' = Append(handled, worker.length)
  /\ UNCHANGED <<sentRequests, connFd, again, sessionUp, sendTimedOut>>
\* ... or not: only recv()'s -1 sets errno, so nothing at all in time is a timeout, a part is not.
\* A plausible slip: whatever is missing is a timeout.
AnyShortage(received) == TRUE
IsTimeout(received) == received = 0
PayloadFails ==
  /\ worker.at = "payload"
  /\ worker.length = GarbageLength \/ arrived < 2
  /\ Taken(arrived)
  /\ Failed(IsTimeout(arrived))

\* sendResponse(): sent; failed for good; or timed out, which sets EAGAIN.  Both failures close.
Reply(outcome) ==
  /\ worker.at = "reply"
  /\ worker' = [at |-> "receive", length |-> NoLength]
  /\ connFd' = (outcome = "sent")
  /\ again' = IF outcome = "sent" THEN again ELSE outcome = "timeout"
  /\ sendTimedOut' = (sendTimedOut \/ outcome = "timeout")
  /\ UNCHANGED <<sentRequests, wire, arrived, sessionUp, handled>>

TcpNext ==
  \/ ClientSends \/ Deliver
  \/ NoDescriptor \/ LengthTimesOut \/ ReadLength \/ ReadFragment
  \/ ReadPayload \/ PayloadFails
  \/ \E outcome \in {"sent", "failed", "timeout"} : Reply(outcome)

TcpSpec == TcpInit /\ [][TcpNext]_tcpVars

----------------------------------------------------------------------------

\* The twin handles the requests that were sent, in order and without a hole: a stall inside a
\* message ends the connection before a later one is read.  A closed connection ends the session
\* at the next receive, unless it was closed by a response whose send timed out: its EAGAIN makes
\* every later receive a timeout, and the twin serves nobody for ever
\* (TCPControlTransport.cpp:129-184, ControlHandler.cpp:54-63).
RequestsWhole ==
  /\ \A k \in DOMAIN handled : handled[k] = k
  /\ ~connFd /\ again => sendTimedOut
=============================================================================
