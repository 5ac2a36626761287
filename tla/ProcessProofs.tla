--------------------------- MODULE ProcessProofs ---------------------------
(***************************************************************************)
(* What runs beside the application, for every value of the constants: the *)
(* inductive invariants of the modules that MCProcesses checks; that of    *)
(* SharedMem is in ReceiveProofs.  They share no variable, so each has its *)
(* part of its own:                                                        *)
(*                                                                         *)
(*   TcpFraming       the control connection of the twin                   *)
(*   UnixRpc          requests and answers over a Unix-domain socket       *)
(*   FirmwareProcess  the firmware as a child process                      *)
(*   HostApp          the host's client                                    *)
(*   Simulation       the clock and the ADC of the analogue simulation     *)
(*   Capture          the firmware's capture of samples                    *)
(*   CpldLink         the register link to the CPLDs                       *)
(*   Synthesizer      the registers of the local oscillators               *)
(*   RadioControl     the firmware's control plane                         *)
(*                                                                         *)
(* In TcpFraming the wire holds all that was sent from some place on: that *)
(* of the next request to handle, or one or two chunks past it when a      *)
(* receive has given up inside a message; from there the worker finds no   *)
(* length that belongs to one.                                             *)
(***************************************************************************)
EXTENDS TcpFraming, UnixRpc, FirmwareProcess, HostApp, Simulation, Capture,
        RadioControl, ModularArithmetic, SequenceTheorems, WellFoundedInduction, TLAPS

----------------------------------------------------------------------------
(* TcpFraming: requests are handled whole.                                 *)

Chunk == {"length", "head", "rest"} \X Nat

\* The j-th chunk of all that is ever sent.
ChunkAt(j) ==
  <<IF j % 3 = 1 THEN "length" ELSE IF j % 3 = 2 THEN "head" ELSE "rest", (j + 2) \div 3>>

\* w is the stream of s requests less its first p chunks.
Follows(w, s, p) == Len(w) = 3 * s - p /\ \A i \in 1..Len(w) : w[i] = ChunkAt(p + i)

TcpTypes ==
  /\ sentRequests \in Nat /\ wire \in Seq(Chunk) /\ arrived \in 0..Len(wire)
  /\ connFd \in BOOLEAN /\ again \in BOOLEAN /\ sendTimedOut \in BOOLEAN
  /\ worker \in [at : {"receive", "payload", "reply"}, length : Int]
  /\ handled \in Seq(Int)

\* The wire lacks the requests handled and so many chunks more.
Past(n) == Follows(wire, sentRequests, 3 * Len(handled) + n)

InStep ==
  /\ worker.at = "receive" /\ connFd => Past(0) \/ Past(1) \/ Past(2)
  /\ worker.at = "payload" =>
       /\ connFd
       /\ \/ worker.length = Len(handled) + 1 /\ Past(1)
          \/ worker.length = GarbageLength /\ Past(2)
  /\ worker.at = "reply" => connFd /\ Past(0)

TcpInv == TcpTypes /\ InStep /\ RequestsWhole

----------------------------------------------------------------------------
(* The stream.                                                             *)

LEMMA ChunksInOrder ==
  ASSUME NEW k \in Nat
  PROVE  /\ ChunkAt(3 * k + 1) = <<"length", k + 1>>
         /\ ChunkAt(3 * k + 2) = <<"head", k + 1>>
         /\ ChunkAt(3 * k + 3) = <<"rest", k + 1>>
<1>1. (3 * k + 1) % 3 = 1 /\ (3 * k + 2) % 3 = 2 /\ (3 * k + 3) % 3 = 0
  OBVIOUS
<1>2. (3 * k + 3) \div 3 = k + 1 /\ (3 * k + 4) \div 3 = k + 1 /\ (3 * k + 5) \div 3 = k + 1
  OBVIOUS
<1> QED BY <1>1, <1>2 DEF ChunkAt

\* One more request is sent.
LEMMA SendFollows ==
  ASSUME NEW w \in Seq(Chunk), NEW s \in Nat, NEW p \in Nat, Follows(w, s, p)
  PROVE  Follows(w \o Chunks(s + 1), s + 1, p)
<1> DEFINE c == Chunks(s + 1)
           v == w \o c
<1>1. c \in Seq(Chunk) /\ Len(c) = 3 /\ \A i \in 1..3 : c[i] = ChunkAt(3 * s + i)
  <2>1. c \in Seq(Chunk) /\ Len(c) = 3
    BY DEF Chunks, Chunk
  <2>2. c[1] = ChunkAt(3 * s + 1) /\ c[2] = ChunkAt(3 * s + 2) /\ c[3] = ChunkAt(3 * s + 3)
    BY ChunksInOrder DEF Chunks
  <2> QED
    <3> HIDE DEF c
    <3> QED BY <2>1, <2>2
<1> HIDE DEF c
<1>2. /\ Len(v) = Len(w) + Len(c)
      /\ \A i \in 1..Len(w) + Len(c) : v[i] = IF i <= Len(w) THEN w[i] ELSE c[i - Len(w)]
  BY <1>1, ConcatProperties, Zenon
<1> HIDE DEF v
<1>3. Len(w) = 3 * s - p /\ Len(w) \in Nat
  BY DEF Follows
<1>4. ASSUME NEW i \in 1..Len(v) PROVE v[i] = ChunkAt(p + i)
  <2>1. CASE i <= Len(w)
    BY <1>1, <1>2, <1>3, <2>1 DEF Follows
  <2>2. CASE i > Len(w)
    <3>1. i - Len(w) \in 1..3 /\ 3 * s + (i - Len(w)) = p + i
      BY <1>1, <1>2, <1>3, <2>2
    <3>2. v[i] = c[i - Len(w)]
      BY <1>1, <1>2, <1>3, <2>2
    <3> QED BY <1>1, <3>1, <3>2
  <2> QED BY <1>3, <2>1, <2>2
<1>5. Len(v) = 3 * (s + 1) - p
  BY <1>1, <1>2, <1>3
<1> QED BY <1>4, <1>5 DEF Follows, v, c

\* n chunks are taken off.
LEMMA TakeFollows ==
  ASSUME NEW w \in Seq(Chunk), NEW s \in Nat, NEW p \in Nat, NEW n \in 0..Len(w), Follows(w, s, p)
  PROVE  Follows(SubSeq(w, n + 1, Len(w)), s, p + n)
<1> DEFINE v == SubSeq(w, n + 1, Len(w))
<1>1. Len(w) = 3 * s - p /\ Len(w) \in Nat
  BY DEF Follows
<1>2. Len(v) = Len(w) - n /\ \A i \in 1..Len(v) : v[i] = w[i + n]
  BY <1>1
<1> HIDE DEF v
<1>3. ASSUME NEW i \in 1..Len(v) PROVE v[i] = ChunkAt((p + n) + i)
  <2>1. i + n \in 1..Len(w) /\ (p + n) + i = p + (i + n)
    BY <1>1, <1>2
  <2> QED BY <1>2, <2>1 DEF Follows
<1>4. Len(v) = 3 * s - (p + n)
  BY <1>1, <1>2
<1> QED BY <1>3, <1>4 DEF Follows, v

\* What comes next tells where in a request it is.
LEMMA HeadFollows ==
  ASSUME NEW w \in Seq(Chunk), NEW s \in Nat, NEW k \in Nat, Len(w) > 0
  PROVE  /\ Follows(w, s, 3 * k) => Head(w) = <<"length", k + 1>>
         /\ Follows(w, s, 3 * k + 1) => Head(w) = <<"head", k + 1>>
         /\ Follows(w, s, 3 * k + 2) => Head(w) = <<"rest", k + 1>>
<1>1. Head(w) = w[1] /\ 1 \in 1..Len(w)
  OBVIOUS
<1>2. (3 * k + 1) + 1 = 3 * k + 2 /\ (3 * k + 2) + 1 = 3 * k + 3
  OBVIOUS
<1> QED BY <1>1, <1>2, ChunksInOrder DEF Follows

----------------------------------------------------------------------------
(* Every step keeps the invariant.                                         *)

\* Taking n chunks off the wire.
LEMMA TakenFollows ==
  ASSUME TcpTypes, NEW n \in 0..arrived, Taken(n), NEW p \in Nat, Follows(wire, sentRequests, p)
  PROVE  Follows(wire', sentRequests, p + n)
<1>1. n \in 0..Len(wire) /\ wire' = SubSeq(wire, n + 1, Len(wire))
  BY DEF TcpTypes, Taken
<1> QED BY <1>1, TakeFollows DEF TcpTypes

LEMMA TakenTypes ==
  ASSUME TcpTypes, NEW n \in 0..arrived, Taken(n)
  PROVE  wire' \in Seq(Chunk) /\ arrived' \in 0..Len(wire')
<1>1. wire \in Seq(Chunk) /\ arrived \in 0..Len(wire) /\ n \in 0..Len(wire)
      /\ wire' = SubSeq(wire, n + 1, Len(wire)) /\ arrived' = arrived - n
  BY DEF TcpTypes, Taken
<1> DEFINE v == SubSeq(wire, n + 1, Len(wire))
<1>2. v \in Seq(Chunk) /\ Len(v) = Len(wire) - n
  <2> DEFINE S == Chunk
  <2> HIDE DEF S
  <2>1. wire \in Seq(S) BY <1>1 DEF S
  <2>2. v \in Seq(S) /\ Len(v) = Len(wire) - n BY <1>1, <2>1
  <2> QED BY <2>2 DEF S
<1> QED BY <1>1, <1>2

LEMMA TypesKept ==
  ASSUME TcpTypes, [TcpNext]_tcpVars PROVE TcpTypes'
<1> USE DEF TcpTypes
<1>1. CASE ClientSends
  <2>1. Chunks(sentRequests + 1) \in Seq(Chunk) /\ Len(Chunks(sentRequests + 1)) = 3
    BY DEF Chunks, Chunk
  <2>2. wire \o Chunks(sentRequests + 1) \in Seq(Chunk)
        /\ Len(wire \o Chunks(sentRequests + 1)) = Len(wire) + Len(Chunks(sentRequests + 1))
    <3> DEFINE c == Chunks(sentRequests + 1)
               S == Chunk
    <3> HIDE DEF c, S
    <3>1. wire \in Seq(S) /\ c \in Seq(S)
      BY <2>1 DEF c, S
    <3>2. wire \o c \in Seq(S) /\ Len(wire \o c) = Len(wire) + Len(c)
      BY <3>1
    <3> QED BY <3>2 DEF c, S
  <2>3. wire' \in Seq(Chunk) /\ Len(wire') = Len(wire) + 3
    BY <1>1, <2>1, <2>2 DEF ClientSends
  <2> QED BY <1>1, <2>3 DEF ClientSends
<1>2. CASE Deliver
  BY <1>2 DEF Deliver
<1>3. CASE NoDescriptor
  BY <1>3 DEF NoDescriptor, Failed, NoLength
<1>4. CASE LengthTimesOut
  BY <1>4 DEF LengthTimesOut, Failed, NoLength
<1>5. CASE ReadLength
  <2>1. wire' \in Seq(Chunk) /\ arrived' \in 0..Len(wire')
    <3>1. 1 \in 0..arrived BY <1>5 DEF ReadLength
    <3> QED BY <1>5, <3>1, TakenTypes DEF ReadLength
  <2>2. Head(wire)[2] \in Nat
    <3>1. Len(wire) > 0 BY <1>5 DEF ReadLength
    <3>2. Head(wire) \in Chunk BY <3>1
    <3> QED BY <3>2 DEF Chunk
  <2>3. worker' \in [at : {"receive", "payload", "reply"}, length : Int]
    BY <1>5, <2>2 DEF ReadLength, GarbageLength
  <2> QED BY <1>5, <2>1, <2>3 DEF ReadLength
<1>6. CASE ReadFragment
  <2>1. wire' \in Seq(Chunk) /\ arrived' \in 0..Len(wire')
    <3>1. 1 \in 0..arrived BY <1>6 DEF ReadFragment
    <3> QED BY <1>6, <3>1, TakenTypes DEF ReadFragment
  <2>2. connFd' = FALSE /\ again' = FALSE /\ sendTimedOut' = sendTimedOut
    BY <1>6, Zenon DEF ReadFragment, Failed
  <2>3. worker' \in [at : {"receive", "payload", "reply"}, length : Int]
    BY <1>6 DEF ReadFragment, Failed, NoLength
  <2> QED BY <1>6, <2>1, <2>2, <2>3 DEF ReadFragment, Failed
<1>7. CASE ReadPayload
  <2>1. wire' \in Seq(Chunk) /\ arrived' \in 0..Len(wire')
    <3>1. 2 \in 0..arrived BY <1>7 DEF ReadPayload
    <3> QED BY <1>7, <3>1, TakenTypes DEF ReadPayload
  <2>2. worker' \in [at : {"receive", "payload", "reply"}, length : Int]
    BY <1>7 DEF ReadPayload
  <2>3. handled' \in Seq(Int)
    BY <1>7 DEF ReadPayload
  <2> QED BY <1>7, <2>1, <2>2, <2>3 DEF ReadPayload
<1>8. CASE PayloadFails
  <2>1. wire' \in Seq(Chunk) /\ arrived' \in 0..Len(wire')
    <3>1. arrived \in 0..arrived OBVIOUS
    <3> QED BY <1>8, <3>1, TakenTypes DEF PayloadFails
  <2> QED BY <1>8, <2>1 DEF PayloadFails, Failed, NoLength, IsTimeout
<1>9. CASE \E outcome \in {"sent", "failed", "timeout"} : Reply(outcome)
  <2>1. PICK outcome \in {"sent", "failed", "timeout"} : Reply(outcome)
    BY <1>9
  <2>2. connFd' \in BOOLEAN /\ again' \in BOOLEAN /\ sendTimedOut' \in BOOLEAN
    <3>1. connFd' \in BOOLEAN BY <2>1, Zenon DEF Reply
    <3>2. again' \in BOOLEAN BY <2>1, Zenon DEF Reply
    <3>3. sendTimedOut' \in BOOLEAN BY <2>1, Zenon DEF Reply
    <3> QED BY <3>1, <3>2, <3>3
  <2>3. worker' \in [at : {"receive", "payload", "reply"}, length : Int]
    BY <2>1 DEF Reply, NoLength
  <2> QED BY <2>1, <2>2, <2>3 DEF Reply
<1>10. CASE UNCHANGED tcpVars
  BY <1>10 DEF tcpVars
<1> QED BY <1>1, <1>2, <1>3, <1>4, <1>5, <1>6, <1>7, <1>8, <1>9, <1>10 DEF TcpNext

LEMMA InStepKept ==
  ASSUME TcpTypes, InStep, [TcpNext]_tcpVars PROVE InStep'
<1> PICK n \in Nat : n = Len(handled)
  BY DEF TcpTypes
<1> USE DEF TcpTypes
<1>a. /\ Past(0) <=> Follows(wire, sentRequests, 3 * n)
      /\ Past(1) <=> Follows(wire, sentRequests, 3 * n + 1)
      /\ Past(2) <=> Follows(wire, sentRequests, 3 * n + 2)
  <2>1. 3 * n + 0 = 3 * n OBVIOUS
  <2> QED BY <2>1, Zenon DEF Past
<1>b. wire \in Seq(Chunk) /\ sentRequests \in Nat
  OBVIOUS
<1> DEFINE Kept == UNCHANGED <<wire, sentRequests, handled>>
<1>0. Kept => (Past(0) <=> Past(0)') /\ (Past(1) <=> Past(1)') /\ (Past(2) <=> Past(2)')
  BY DEF Past
<1>1. CASE ClientSends
  <2>1. \A p \in Nat : Follows(wire, sentRequests, p) => Follows(wire', sentRequests', p)
    BY <1>1, SendFollows DEF ClientSends
  <2>2. (Past(0) => Past(0)') /\ (Past(1) => Past(1)') /\ (Past(2) => Past(2)')
    <3>1. handled' = handled BY <1>1 DEF ClientSends
    <3> QED BY <2>1, <3>1 DEF Past
  <2> QED BY <1>1, <2>2 DEF ClientSends, InStep
<1>2. CASE Deliver
  BY <1>0, <1>2 DEF Deliver, InStep
<1>3. CASE NoDescriptor
  BY <1>3 DEF NoDescriptor, Failed, InStep
<1>4. CASE LengthTimesOut
  BY <1>0, <1>4 DEF LengthTimesOut, Failed, InStep
<1>5. CASE ReadLength
  <2>1. 1 \in 0..arrived /\ Len(wire) > 0 /\ connFd /\ worker.at = "receive"
        /\ Head(wire)[1] # "rest" /\ handled' = handled /\ sentRequests' = sentRequests
    BY <1>5 DEF ReadLength
  <2>2. \A p \in Nat : Follows(wire, sentRequests, p) => Follows(wire', sentRequests, p + 1)
    BY <1>5, <2>1, TakenFollows DEF ReadLength
  <2>3. CASE Past(0)
    <3>1. Head(wire) = <<"length", n + 1>>
      BY <1>a, <1>b, <2>1, <2>3, HeadFollows, Zenon
    <3>2. Past(1)'
      BY <2>1, <2>2, <2>3 DEF Past
    <3> QED BY <1>5, <2>1, <3>1, <3>2 DEF ReadLength, InStep
  <2>4. CASE Past(1)
    <3>1. Head(wire) = <<"head", n + 1>>
      BY <1>a, <1>b, <2>1, <2>4, HeadFollows, Zenon
    <3>2. Past(2)'
      BY <2>1, <2>2, <2>4 DEF Past
    <3> QED BY <1>5, <2>1, <3>1, <3>2 DEF ReadLength, InStep
  <2>5. CASE Past(2)
    <3>1. Head(wire) = <<"rest", n + 1>>
      BY <1>a, <1>b, <2>1, <2>5, HeadFollows, Zenon
    <3> QED BY <2>1, <3>1
  <2> QED BY <2>1, <2>3, <2>4, <2>5 DEF InStep
<1>6. CASE ReadFragment
  BY <1>6 DEF ReadFragment, Failed, InStep
<1>7. CASE ReadPayload
  <2>1. 2 \in 0..arrived /\ worker.length = n + 1 /\ Past(1) /\ connFd
        /\ handled' = Append(handled, worker.length) /\ sentRequests' = sentRequests
    BY <1>7 DEF ReadPayload, InStep
  <2>2. Len(handled') = n + 1
    BY <2>1
  <2>3. Follows(wire', sentRequests, (3 * n + 1) + 2)
    <3>1. 3 * n + 1 \in Nat /\ Taken(2) BY <1>7 DEF ReadPayload
    <3> QED BY <1>a, <2>1, <3>1, TakenFollows, Zenon
  <2>4. (3 * n + 1) + 2 = 3 * (n + 1) + 0
    OBVIOUS
  <2>5. Past(0)'
    BY <2>1, <2>2, <2>3, <2>4 DEF Past
  <2> QED BY <1>7, <2>1, <2>5 DEF ReadPayload, InStep
<1>8. CASE PayloadFails
  <2>1. CASE arrived = 0
    <3>1. \A p \in Nat : Follows(wire, sentRequests, p) => Follows(wire', sentRequests, p)
      <4>1. ASSUME NEW p \in Nat, Follows(wire, sentRequests, p)
            PROVE  Follows(wire', sentRequests, p)
        <5>1. 0 \in 0..arrived /\ Taken(0) BY <1>8, <2>1 DEF PayloadFails
        <5>2. Follows(wire', sentRequests, p + 0) BY <4>1, <5>1, TakenFollows
        <5> QED BY <5>2
      <4> QED BY <4>1
    <3>2. handled' = handled /\ sentRequests' = sentRequests
      BY <1>8 DEF PayloadFails, Failed
    <3>3. (Past(1) => Past(1)') /\ (Past(2) => Past(2)')
      BY <3>1, <3>2 DEF Past
    <3> QED BY <1>8, <3>3 DEF PayloadFails, Failed, InStep
  <2>2. CASE arrived # 0
    BY <1>8, <2>2 DEF PayloadFails, Failed, InStep, IsTimeout
  <2> QED BY <2>1, <2>2
<1>9. CASE \E outcome \in {"sent", "failed", "timeout"} : Reply(outcome)
  BY <1>0, <1>9 DEF Reply, InStep
<1>10. CASE UNCHANGED tcpVars
  BY <1>0, <1>10 DEF tcpVars, InStep
<1> QED BY <1>1, <1>2, <1>3, <1>4, <1>5, <1>6, <1>7, <1>8, <1>9, <1>10 DEF TcpNext

\* A request is handled only when its length is that of the next; a connection without a descriptor is
\* taken for one that timed out only when a response's send did.
LEMMA WholeKept ==
  ASSUME TcpTypes, InStep, RequestsWhole, [TcpNext]_tcpVars PROVE RequestsWhole'
<1> USE DEF TcpTypes
<1> DEFINE InOrder == \A k \in DOMAIN handled : handled[k] = k
           Explained == ~connFd /\ again => sendTimedOut
<1>1. InOrder'
  <2>1. CASE ReadPayload
    <3>1. worker.length = Len(handled) + 1 /\ handled' = Append(handled, worker.length)
      BY <2>1 DEF ReadPayload, InStep
    <3> QED BY <3>1 DEF RequestsWhole
  <2>2. CASE handled' = handled
    BY <2>2 DEF RequestsWhole
  <2>3. ReadPayload \/ handled' = handled
    BY DEF TcpNext, tcpVars, ClientSends, Deliver, NoDescriptor, LengthTimesOut, ReadLength,
           ReadFragment, PayloadFails, Failed, Reply
  <2> QED BY <2>1, <2>2, <2>3
<1>2. Explained'
  <2>1. CASE ClientSends \/ Deliver \/ ReadPayload \/ UNCHANGED tcpVars
    BY <2>1 DEF RequestsWhole, ClientSends, Deliver, ReadPayload, tcpVars
  <2>2. CASE NoDescriptor
    BY <2>2 DEF RequestsWhole, NoDescriptor, Failed
  <2>3. CASE LengthTimesOut \/ ReadLength \/ ReadFragment
    BY <2>3 DEF LengthTimesOut, ReadLength, ReadFragment, Failed
  <2>4. CASE PayloadFails
    BY <2>4 DEF PayloadFails, Failed, InStep
  <2>5. CASE \E outcome \in {"sent", "failed", "timeout"} : Reply(outcome)
    BY <2>5 DEF Reply, InStep
  <2> QED BY <2>1, <2>2, <2>3, <2>4, <2>5 DEF TcpNext
<1> QED BY <1>1, <1>2 DEF RequestsWhole

----------------------------------------------------------------------------
\* The inductive invariant: types, the worker's place in the stream, and RequestsWhole.
THEOREM FramingInvariant == TcpSpec => []TcpInv
<1>1. TcpInit => TcpInv
  <2> SUFFICES ASSUME TcpInit PROVE TcpInv
    OBVIOUS
  <2>0. Len(<<>>) = 0 /\ \A S : <<>> \in Seq(S)
    OBVIOUS
  <2>1. TcpTypes
    <3>1. wire \in Seq(Chunk) /\ handled \in Seq(Int)
      BY <2>0, Zenon DEF TcpInit
    <3>2. connFd \in BOOLEAN /\ again \in BOOLEAN /\ sendTimedOut \in BOOLEAN
      BY DEF TcpInit
    <3>3. worker \in [at : {"receive", "payload", "reply"}, length : Int]
      BY DEF TcpInit, NoLength
    <3>4. sentRequests \in Nat /\ arrived \in 0..Len(wire)
      BY <2>0 DEF TcpInit
    <3> QED BY <3>1, <3>2, <3>3, <3>4 DEF TcpTypes
  <2>2. Past(0)
    <3>1. sentRequests = 0 /\ Len(wire) = 0 /\ Len(handled) = 0
      BY <2>0, Zenon DEF TcpInit
    <3> QED BY <3>1 DEF Past, Follows
  <2>3. InStep
    BY <2>2 DEF TcpInit, InStep
  <2>4. RequestsWhole
    BY DEF TcpInit, RequestsWhole
  <2> QED BY <2>1, <2>3, <2>4 DEF TcpInv
<1>2. TcpInv /\ [TcpNext]_tcpVars => TcpInv'
  BY TypesKept, InStepKept, WholeKept DEF TcpInv
<1> QED BY <1>1, <1>2, PTL DEF TcpSpec

\* However the stream stalls, the twin handles the requests that were sent, in order and without a
\* hole, and serves nobody for ever only after a response's send has timed out
\* (TCPControlTransport.cpp:129-184).
THEOREM RequestsHandledWhole == TcpSpec => []RequestsWhole
<1>1. TcpInv => RequestsWhole
  BY DEF TcpInv
<1> QED BY <1>1, FramingInvariant, PTL

----------------------------------------------------------------------------
(* UnixRpc: whose answer it is.                                            *)

RpcChunk == {"length", "payload"} \X Nat
RpcConnection == [toServer : Seq(RpcChunk), toClient : Seq(RpcChunk), byServer : BOOLEAN,
                  byClient : BOOLEAN, waiting : BOOLEAN]

RpcTypes ==
  /\ connections \in Seq(RpcConnection)
  /\ rpcServer \in [at : {"idle", "length", "payload", "serving"}, fd : 0..Len(connections), request : Nat]
  /\ rpcServer.at # "idle" => rpcServer.fd # 0
  /\ rpcServer.fd # 0 => ~connections[rpcServer.fd].waiting
  /\ rpcClient \in [at : {"idle", "length", "payload"}, fd : 0..Len(connections), request : Nat, length : Nat]
  /\ rpcClient.at # "idle" => rpcClient.fd # 0
  /\ requests \in Nat /\ failedOn \subseteq 1..Len(connections)

\* The server is not in the middle of a message of connection c.
Free(c) == rpcServer.fd = c => rpcServer.at \in {"idle", "length"}

\* How far request r has come on connection c: nothing but it and its answer is under way.
Asked(c, r) == connections[c].toServer = Whole(r) /\ connections[c].toClient = <<>> /\ Free(c)
Arriving(c, r) ==
  /\ connections[c].toServer = <<Payload(r)>> /\ connections[c].toClient = <<>> /\ ~connections[c].waiting
  /\ rpcServer.fd = c => rpcServer.at = "payload" /\ rpcServer.request = r
Served(c, r) ==
  /\ connections[c].toServer = <<>> /\ connections[c].toClient = <<>> /\ ~connections[c].waiting
  /\ rpcServer.fd = c => rpcServer.at = "serving" /\ rpcServer.request = r
Answered(c, r) ==
  /\ connections[c].toServer = <<>> /\ Free(c)
  /\ connections[c].toClient \in {Whole(r), <<Length(r)>>, <<>>}
HalfRead(c, r) ==
  /\ connections[c].toServer = <<>> /\ Free(c)
  /\ connections[c].toClient \in {<<Payload(r)>>, <<>>}
ServerAside(c) == connections[c].toServer = <<>> /\ connections[c].toClient = <<>> /\ Free(c)

InTurn(c, r) ==
  /\ rpcClient.at = "idle" => ServerAside(c)
  /\ rpcClient.at = "length" => Asked(c, r) \/ Arriving(c, r) \/ Served(c, r) \/ Answered(c, r)
  /\ rpcClient.at = "payload" => rpcClient.length = r /\ HalfRead(c, r)

TurnInv == rpcClient.fd # 0 /\ rpcClient.fd \notin failedOn => InTurn(rpcClient.fd, rpcClient.request)

RpcInv == RpcTypes /\ TurnInv /\ AnswersMatch

----------------------------------------------------------------------------
LEMMA LeastOne ==
  ASSUME NEW S, S \subseteq Nat, S # {}
  PROVE  Min(S) \in S
<1> DEFINE R == {p \in Nat \X Nat : p[1] < p[2]}
<1>1. R = OpToRel(<, Nat)
  BY Zenon DEF OpToRel
<1> HIDE DEF R
<1>2. IsWellFoundedOn(R, Nat)
  BY <1>1, NatLessThanWellFounded, Zenon
<1>3. PICK x \in S : \A y \in S : ~(<<y, x>> \in R)
  BY <1>2, WFMin, Zenon
<1>4. \A y \in S : x <= y
  <2> SUFFICES ASSUME NEW y \in S, y < x PROVE FALSE
    OBVIOUS
  <2>1. <<y, x>> \in Nat \X Nat /\ <<y, x>>[1] = y /\ <<y, x>>[2] = x
    OBVIOUS
  <2>2. <<y, x>> \in R
    BY <2>1 DEF R
  <2> QED  BY <1>3, <2>2
<1>5. \E z \in S : \A y \in S : z =< y
  BY <1>4
<1> QED  BY <1>5 DEF Min

LEMMA RpcChunks ==
  ASSUME NEW r \in Nat
  PROVE  /\ Length(r) \in RpcChunk /\ Payload(r) \in RpcChunk
         /\ Length(r)[1] = "length" /\ Length(r)[2] = r /\ Payload(r)[1] = "payload"
         /\ Whole(r) \in Seq(RpcChunk) /\ <<Length(r)>> \in Seq(RpcChunk) /\ <<Payload(r)>> \in Seq(RpcChunk)
         /\ <<>> \in Seq(RpcChunk) /\ <<>> \o Whole(r) = Whole(r) /\ <<>> \o <<Length(r)>> = <<Length(r)>>
         /\ <<>> \o <<>> = <<>>
         /\ Whole(r) # <<>> /\ <<Payload(r)>> # <<>> /\ <<Length(r)>> # <<>> /\ Whole(r) # <<Length(r)>>
         /\ Head(Whole(r)) = Length(r) /\ Tail(Whole(r)) = <<Payload(r)>>
         /\ Head(<<Length(r)>>) = Length(r) /\ Tail(<<Length(r)>>) = <<>>
         /\ Head(<<Payload(r)>>) = Payload(r) /\ Tail(<<Payload(r)>>) = <<>>
<1>1. /\ Length(r) \in RpcChunk /\ Payload(r) \in RpcChunk
      /\ Length(r)[1] = "length" /\ Length(r)[2] = r /\ Payload(r)[1] = "payload"
  BY DEF Length, Payload, RpcChunk
<1>2. ASSUME NEW a \in RpcChunk, NEW b \in RpcChunk
      PROVE  /\ <<a, b>> \in Seq(RpcChunk) /\ <<a>> \in Seq(RpcChunk) /\ <<>> \in Seq(RpcChunk)
             /\ <<>> \o <<a, b>> = <<a, b>> /\ <<>> \o <<a>> = <<a>> /\ <<>> \o <<>> = <<>>
             /\ <<a, b>> # <<>> /\ <<a>> # <<>> /\ <<a, b>> # <<a>>
             /\ Head(<<a, b>>) = a /\ Tail(<<a, b>>) = <<b>> /\ Head(<<a>>) = a /\ Tail(<<a>>) = <<>>
  <2>1. /\ <<a, b>> \in Seq(RpcChunk) /\ <<a>> \in Seq(RpcChunk) /\ <<>> \in Seq(RpcChunk)
    OBVIOUS
  <2>2. <<>> \o <<a, b>> = <<a, b>> /\ <<>> \o <<a>> = <<a>> /\ <<>> \o <<>> = <<>>
    BY <2>1, ConcatEmptySeq
  <2>3. <<a, b>> # <<>> /\ <<a>> # <<>> /\ <<a, b>> # <<a>>
    OBVIOUS
  <2>4. Head(<<a, b>>) = a /\ Head(<<a>>) = a
    OBVIOUS
  <2>5. Tail(<<a, b>>) = <<b>>
    <3>1. Len(<<a, b>>) = 2 /\ <<a, b>>[2] = b  OBVIOUS
    <3> QED  BY <2>1, <2>3, <3>1
  <2>6. Tail(<<a>>) = <<>>
    OBVIOUS
  <2> QED  BY <2>1, <2>2, <2>3, <2>4, <2>5, <2>6
<1> QED  BY <1>1, <1>2 DEF Whole

LEMMA OneConnection ==
  ASSUME NEW f \in Seq(RpcConnection), NEW i \in 1..Len(f), NEW x \in RpcConnection,
         NEW g, g = [f EXCEPT ![i] = x]
  PROVE  /\ g \in Seq(RpcConnection) /\ Len(g) = Len(f) /\ g[i] = x
         /\ \A k \in 1..Len(f) : k # i => g[k] = f[k]
BY ExceptSeq

LEMMA SetToServer ==
  ASSUME NEW x \in RpcConnection, NEW s \in Seq(RpcChunk), NEW y, y = [x EXCEPT !.toServer = s]
  PROVE  y \in RpcConnection /\ y.toServer = s /\ y.toClient = x.toClient /\ y.waiting = x.waiting
BY DEF RpcConnection

LEMMA SetToClient ==
  ASSUME NEW x \in RpcConnection, NEW s \in Seq(RpcChunk), NEW y, y = [x EXCEPT !.toClient = s]
  PROVE  y \in RpcConnection /\ y.toServer = x.toServer /\ y.toClient = s /\ y.waiting = x.waiting
BY DEF RpcConnection

LEMMA SetClosed ==
  ASSUME NEW x \in RpcConnection,
         NEW y, y = [x EXCEPT !.byServer = FALSE] \/ y = [x EXCEPT !.byClient = FALSE]
  PROVE  y \in RpcConnection /\ y.toServer = x.toServer /\ y.toClient = x.toClient /\ y.waiting = x.waiting
BY DEF RpcConnection

LEMMA SetAccepted ==
  ASSUME NEW x \in RpcConnection, NEW y, y = [x EXCEPT !.waiting = FALSE]
  PROVE  y \in RpcConnection /\ y.toServer = x.toServer /\ y.toClient = x.toClient /\ ~y.waiting
BY DEF RpcConnection

LEMMA RpcStarts == RpcInit => RpcInv
<1> SUFFICES ASSUME RpcInit PROVE RpcInv
  OBVIOUS
<1>1. connections = <<>> /\ connections \in Seq(RpcConnection) /\ Len(connections) = 0
  BY EmptySeq DEF RpcInit
<1>2. RpcTypes
  BY <1>1 DEF RpcInit, RpcTypes, ServerIdle, ClientIdle
<1>3. TurnInv /\ AnswersMatch
  BY DEF RpcInit, ClientIdle, TurnInv, AnswersMatch
<1> QED  BY <1>2, <1>3 DEF RpcInv

\* What does not concern the client's connection, and what the server does between two messages.
LEMMA TurnStays ==
  ASSUME RpcInv, UNCHANGED <<rpcClient, answer>>, failedOn' = failedOn,
         LET c == rpcClient.fd
         IN  c # 0 =>
               /\ connections'[c].toServer = connections[c].toServer
               /\ connections'[c].toClient = connections[c].toClient
               /\ connections'[c].waiting => connections[c].waiting
               /\ rpcServer'.fd = c =>
                    \/ rpcServer.fd = c /\ rpcServer'.at = rpcServer.at /\ rpcServer'.request = rpcServer.request
                    \/ rpcServer.fd = c /\ rpcServer.at \in {"idle", "length"} /\ rpcServer'.at \in {"idle", "length"}
                    \/ connections[c].waiting /\ rpcServer'.at \in {"idle", "length"}
  PROVE  TurnInv' /\ AnswersMatch'
<1>1. AnswersMatch'
  BY DEF RpcInv, AnswersMatch
<1>2. TurnInv'
  <2> DEFINE c == rpcClient.fd
             r == rpcClient.request
  <2> SUFFICES ASSUME c # 0, c \notin failedOn PROVE InTurn(c, r)'
    BY DEF TurnInv
  <2>1. InTurn(c, r)
    BY DEF RpcInv, TurnInv
  <2>2. Free(c) /\ (rpcServer.fd = c => ~connections[c].waiting) => Free(c)'
    BY DEF Free
  <2>3. rpcServer.fd = c => ~connections[c].waiting
    BY DEF RpcInv, RpcTypes
  <2>4. ServerAside(c) => ServerAside(c)'
    BY <2>2, <2>3 DEF ServerAside
  <2>5. HalfRead(c, r) => HalfRead(c, r)'
    BY <2>2, <2>3 DEF HalfRead
  <2>6. /\ Asked(c, r) => Asked(c, r)'
        /\ Answered(c, r) => Answered(c, r)'
    BY <2>2, <2>3 DEF Asked, Answered
  <2>7. Arriving(c, r) => Arriving(c, r)'
    BY <2>3 DEF Arriving
  <2>8. Served(c, r) => Served(c, r)'
    BY <2>3 DEF Served
  <2> QED  BY <2>1, <2>4, <2>5, <2>6, <2>7, <2>8 DEF InTurn
<1> QED  BY <1>1, <1>2

LEMMA ListenKept == ASSUME RpcInv, Listen PROVE RpcInv'
<1>1. RpcTypes'
  BY DEF RpcInv, RpcTypes, Listen
<1>2. TurnInv' /\ AnswersMatch'
  BY TurnStays DEF Listen
<1> QED  BY <1>1, <1>2 DEF RpcInv

LEMMA StopListeningKept == ASSUME RpcInv, StopListening PROVE RpcInv'
<1>1. /\ connections \in Seq(RpcConnection) /\ DOMAIN connections = 1..Len(connections)
      /\ Len(connections) \in Nat /\ \A k \in 1..Len(connections) : connections[k] \in RpcConnection
  BY ElementOfSeq DEF RpcInv, RpcTypes
<1> DEFINE n == Len(connections)
           x(k) == [connections[k] EXCEPT !.byServer = FALSE, !.waiting = FALSE]
<1>2. \A k \in 1..n : /\ x(k) \in RpcConnection /\ x(k).toServer = connections[k].toServer
                      /\ x(k).toClient = connections[k].toClient /\ ~x(k).waiting
  <2> SUFFICES ASSUME NEW k \in 1..n
               PROVE  /\ x(k) \in RpcConnection /\ x(k).toServer = connections[k].toServer
                      /\ x(k).toClient = connections[k].toClient /\ ~x(k).waiting
    OBVIOUS
  <2> DEFINE y == [connections[k] EXCEPT !.byServer = FALSE]
  <2>1. y \in RpcConnection /\ y.toServer = connections[k].toServer /\ y.toClient = connections[k].toClient
    BY <1>1, SetClosed
  <2>2. x(k) = [y EXCEPT !.waiting = FALSE]
    OBVIOUS
  <2> HIDE DEF x, y
  <2> QED  BY <2>1, <2>2, SetAccepted
<1>3. connections' = [k \in 1..n |-> x(k)] /\ rpcServer' = [at |-> "idle", fd |-> 0, request |-> 0]
  BY <1>1 DEF StopListening, ServerIdle
<1> HIDE DEF x
<1>4. /\ connections' \in Seq(RpcConnection) /\ Len(connections') = n
      /\ \A k \in 1..n : connections'[k] = x(k)
  BY <1>1, <1>2, <1>3
<1>5. RpcTypes'
  <2>1. Len(connections') = Len(connections) /\ Len(connections) \in Nat
    BY <1>1, <1>4
  <2>2. rpcServer' \in [at : {"idle", "length", "payload", "serving"}, fd : 0..Len(connections'), request : Nat]
    BY <1>3, <2>1
  <2>3. UNCHANGED <<rpcClient, requests, failedOn>>
    BY DEF StopListening
  <2>4. rpcServer'.fd = 0 /\ rpcServer'.at = "idle"
    BY <1>3
  <2> QED  BY <1>4, <2>1, <2>2, <2>3, <2>4 DEF RpcInv, RpcTypes
<1>6. TurnInv' /\ AnswersMatch'
  <2>1. rpcClient.fd # 0 => rpcClient.fd \in 1..n
    BY <1>1 DEF RpcInv, RpcTypes
  <2>2. rpcServer'.fd = 0
    BY <1>3
  <2> HIDE DEF n
  <2> QED  BY <1>2, <1>4, <2>1, <2>2, TurnStays DEF StopListening
<1> QED  BY <1>5, <1>6 DEF RpcInv

LEMMA ConnectClientKept == ASSUME RpcInv, ConnectClient PROVE RpcInv'
<1> DEFINE n == Len(connections)
           x == [toServer |-> <<>>, toClient |-> <<>>, byServer |-> TRUE, byClient |-> TRUE, waiting |-> TRUE]
<1>1. x \in RpcConnection
  BY EmptySeq DEF RpcConnection
<1>2. connections \in Seq(RpcConnection) /\ n \in Nat
  BY DEF RpcInv, RpcTypes
<1>3. connections' = Append(connections, x)
  <2>1. [NoConnection EXCEPT !.byServer = TRUE, !.byClient = TRUE, !.waiting = TRUE] = x
    <3>1. PICK y : y = [NoConnection EXCEPT !.byServer = TRUE, !.byClient = TRUE, !.waiting = TRUE]
      OBVIOUS
    <3>2. y = x
      BY <3>1 DEF NoConnection
    <3> QED  BY <3>1, <3>2
  <2> QED  BY <2>1 DEF ConnectClient
<1> HIDE DEF x
<1>4. /\ connections' \in Seq(RpcConnection) /\ Len(connections') = n + 1 /\ connections'[n + 1] = x
      /\ \A k \in 1..n : connections'[k] = connections[k]
  BY <1>1, <1>2, <1>3
<1>5. rpcClient' = [at |-> "idle", fd |-> n + 1, request |-> 0, length |-> 0]
  BY <1>4 DEF ConnectClient, ClientIdle
<1>6. RpcTypes'
  <2>1. rpcServer' \in [at : {"idle", "length", "payload", "serving"}, fd : 0..Len(connections'), request : Nat]
    BY <1>2, <1>4 DEF RpcInv, RpcTypes, ConnectClient
  <2>2. rpcServer'.fd # 0 => ~connections'[rpcServer'.fd].waiting
    BY <1>2, <1>4 DEF RpcInv, RpcTypes, ConnectClient
  <2>3. failedOn' \subseteq 1..Len(connections')
    BY <1>2, <1>4 DEF RpcInv, RpcTypes, ConnectClient
  <2>4. rpcClient' \in [at : {"idle", "length", "payload"}, fd : 0..Len(connections'), request : Nat,
                        length : Nat]
    BY <1>2, <1>4, <1>5
  <2>5. /\ rpcClient'.at = "idle" /\ requests' = requests
        /\ rpcServer'.at # "idle" => rpcServer'.fd # 0
    BY <1>5 DEF RpcInv, RpcTypes, ConnectClient
  <2> QED  BY <1>4, <2>1, <2>2, <2>3, <2>4, <2>5 DEF RpcInv, RpcTypes
<1>7. TurnInv'
  <2>1. connections'[n + 1].toServer = <<>> /\ connections'[n + 1].toClient = <<>>
    BY <1>4 DEF x
  <2>2. rpcServer'.fd # n + 1
    BY <1>2 DEF RpcInv, RpcTypes, ConnectClient
  <2> QED  BY <1>5, <2>1, <2>2 DEF TurnInv, InTurn, ServerAside, Free
<1>8. AnswersMatch'
  BY DEF RpcInv, AnswersMatch, ConnectClient
<1> QED  BY <1>6, <1>7, <1>8 DEF RpcInv

LEMMA DisconnectClientKept == ASSUME RpcInv, DisconnectClient PROVE RpcInv'
<1> DEFINE c == rpcClient.fd
           x == [connections[c] EXCEPT !.byClient = FALSE]
<1>1. connections \in Seq(RpcConnection) /\ c \in 1..Len(connections) /\ connections[c] \in RpcConnection
  BY ElementOfSeq DEF RpcInv, RpcTypes, DisconnectClient
<1>2. x \in RpcConnection /\ x.waiting = connections[c].waiting
  BY <1>1, SetClosed
<1>3. connections' = [connections EXCEPT ![c] = x]
  BY DEF DisconnectClient
<1> HIDE DEF x
<1>4. /\ connections' \in Seq(RpcConnection) /\ Len(connections') = Len(connections)
      /\ connections'[c] = x /\ \A k \in 1..Len(connections) : k # c => connections'[k] = connections[k]
  BY <1>1, <1>2, <1>3, OneConnection
<1>5. rpcClient' = [at |-> "idle", fd |-> 0, request |-> 0, length |-> 0]
  BY DEF DisconnectClient, ClientIdle
<1>6. RpcTypes'
  <2>1. rpcServer'.fd # 0 => ~connections'[rpcServer'.fd].waiting
    BY <1>1, <1>2, <1>4 DEF RpcInv, RpcTypes, DisconnectClient
  <2> QED  BY <1>4, <1>5, <2>1 DEF RpcInv, RpcTypes, DisconnectClient
<1>7. TurnInv' /\ AnswersMatch'
  BY <1>5 DEF RpcInv, TurnInv, AnswersMatch, DisconnectClient
<1> QED  BY <1>6, <1>7 DEF RpcInv

\* The server takes the connection that has waited longest.
LEMMA AcceptNext ==
  ASSUME RpcInv, Backlog # {}
  PROVE  /\ Min(Backlog) \in 1..Len(connections) /\ connections[Min(Backlog)].waiting
         /\ rpcServer.fd # Min(Backlog)
<1>1. Backlog \subseteq 1..Len(connections) /\ \A c \in Backlog : connections[c].waiting
  BY DEF RpcInv, RpcTypes, Backlog
<1>2. Min(Backlog) \in Backlog
  <2>1. Backlog \subseteq Nat
    BY <1>1 DEF RpcInv, RpcTypes
  <2> QED  BY <2>1, LeastOne
<1>3. Min(Backlog) \in 1..Len(connections) /\ connections[Min(Backlog)].waiting
  BY <1>1, <1>2
<1>4. rpcServer.fd # 0 => ~connections[rpcServer.fd].waiting
  BY DEF RpcInv, RpcTypes
<1>5. rpcServer.fd # Min(Backlog)
  BY <1>3, <1>4 DEF RpcInv, RpcTypes
<1> QED  BY <1>3, <1>5

LEMMA AcceptClientKept == ASSUME RpcInv, AcceptClient PROVE RpcInv'
<1> DEFINE n == Len(connections)
           closed == IF rpcServer.fd = 0 THEN connections
                     ELSE [connections EXCEPT ![rpcServer.fd].byServer = FALSE]
<1>1. connections \in Seq(RpcConnection) /\ n \in Nat /\ \A k \in 1..n : connections[k] \in RpcConnection
  BY ElementOfSeq DEF RpcInv, RpcTypes
<1>2. /\ closed \in Seq(RpcConnection) /\ Len(closed) = n
      /\ \A k \in 1..n : /\ closed[k] \in RpcConnection /\ closed[k].toServer = connections[k].toServer
                         /\ closed[k].toClient = connections[k].toClient
                         /\ closed[k].waiting = connections[k].waiting
  <2>1. CASE rpcServer.fd = 0
    BY <1>1, <2>1
  <2>2. CASE rpcServer.fd # 0
    <3> DEFINE s == rpcServer.fd
               x == [connections[s] EXCEPT !.byServer = FALSE]
    <3>1. s \in 1..n
      BY <1>1, <2>2 DEF RpcInv, RpcTypes
    <3>2. /\ x \in RpcConnection /\ x.toServer = connections[s].toServer
          /\ x.toClient = connections[s].toClient /\ x.waiting = connections[s].waiting
      BY <1>1, <3>1, SetClosed
    <3>3. closed = [connections EXCEPT ![s] = x]
      BY <2>2
    <3> HIDE DEF x, closed
    <3>4. /\ closed \in Seq(RpcConnection) /\ Len(closed) = n /\ closed[s] = x
          /\ \A k \in 1..n : k # s => closed[k] = connections[k]
      BY <1>1, <3>1, <3>2, <3>3, OneConnection
    <3> QED  BY <1>1, <3>2, <3>4
  <2> QED  BY <2>1, <2>2
<1> HIDE DEF closed
<1>3. rpcServer.at = "idle" /\ UNCHANGED <<rpcClient, requests, failedOn, answer>>
  BY DEF AcceptClient
<1>4. rpcClient.fd # 0 => rpcClient.fd \in 1..n
  BY <1>1 DEF RpcInv, RpcTypes
<1>5. CASE Backlog = {}
  <2>1. connections' = closed /\ rpcServer' = [at |-> "idle", fd |-> 0, request |-> 0]
    BY <1>5 DEF AcceptClient, ServerIdle, closed
  <2>2. RpcTypes'
    BY <1>1, <1>2, <1>3, <2>1 DEF RpcInv, RpcTypes
  <2>3. TurnInv' /\ AnswersMatch'
    <3>1. rpcServer'.fd = 0
      BY <2>1
    <3> HIDE DEF n
    <3> QED  BY <1>2, <1>3, <1>4, <2>1, <3>1, TurnStays
  <2> QED  BY <2>2, <2>3 DEF RpcInv
<1>6. CASE Backlog # {}
  <2> DEFINE c == Min(Backlog)
             x == [closed[c] EXCEPT !.waiting = FALSE]
  <2>1. c \in 1..n /\ connections[c].waiting
    BY <1>6, AcceptNext
  <2>2. /\ connections' = [closed EXCEPT ![c] = x] /\ rpcServer' = [at |-> "idle", fd |-> c, request |-> 0]
    BY <1>6 DEF AcceptClient, ServerIdle, closed
  <2>3. /\ x \in RpcConnection /\ x.toServer = connections[c].toServer
        /\ x.toClient = connections[c].toClient /\ ~x.waiting
    BY <1>2, <2>1, SetAccepted
  <2> HIDE DEF c, x
  <2>4. /\ connections' \in Seq(RpcConnection) /\ Len(connections') = n /\ connections'[c] = x
        /\ \A k \in 1..n : k # c => connections'[k] = closed[k]
    BY <1>2, <2>1, <2>2, <2>3, OneConnection
  <2>5. RpcTypes'
    BY <1>1, <1>3, <2>1, <2>2, <2>3, <2>4 DEF RpcInv, RpcTypes
  <2>6. TurnInv' /\ AnswersMatch'
    <3>1. rpcServer'.fd = c /\ rpcServer'.at = "idle"
      BY <2>2
    <3>2. \A k \in 1..n : /\ connections'[k].toServer = connections[k].toServer
                          /\ connections'[k].toClient = connections[k].toClient
                          /\ connections'[k].waiting => connections[k].waiting
      BY <1>2, <2>1, <2>3, <2>4
    <3> HIDE DEF n
    <3> QED  BY <1>3, <1>4, <2>1, <3>1, <3>2, TurnStays
  <2> QED  BY <2>5, <2>6 DEF RpcInv
<1> QED  BY <1>5, <1>6

LEMMA ReceiveRequestKept == ASSUME RpcInv, ReceiveRequest PROVE RpcInv'
<1> DEFINE n == Len(connections)
<1>1. connections \in Seq(RpcConnection) /\ n \in Nat /\ \A k \in 1..n : connections[k] \in RpcConnection
  BY ElementOfSeq DEF RpcInv, RpcTypes
<1>2. rpcServer.at = "idle" /\ UNCHANGED <<rpcClient, requests, failedOn, answer>>
  BY DEF ReceiveRequest
<1>3. rpcClient.fd # 0 => rpcClient.fd \in 1..n
  BY <1>1 DEF RpcInv, RpcTypes
<1>4. CASE rpcServer.fd # 0
  <2>1. connections' = connections /\ rpcServer' = [at |-> "length", fd |-> rpcServer.fd, request |-> rpcServer.request]
    BY <1>4 DEF ReceiveRequest, RpcInv, RpcTypes
  <2>2. RpcTypes'
    BY <1>1, <1>2, <1>4, <2>1 DEF RpcInv, RpcTypes
  <2>3. TurnInv' /\ AnswersMatch'
    BY <1>2, <2>1, TurnStays
  <2> QED  BY <2>2, <2>3 DEF RpcInv
<1>5. CASE rpcServer.fd = 0
  <2> DEFINE c == Min(Backlog)
             x == [connections[c] EXCEPT !.waiting = FALSE]
  <2>1. c \in 1..n /\ connections[c].waiting
    BY <1>5, AcceptNext DEF ReceiveRequest
  <2>2. /\ connections' = [connections EXCEPT ![c] = x] /\ rpcServer' = [at |-> "length", fd |-> c, request |-> 0]
    BY <1>5 DEF ReceiveRequest, ServerIdle
  <2>3. /\ x \in RpcConnection /\ x.toServer = connections[c].toServer
        /\ x.toClient = connections[c].toClient /\ ~x.waiting
    BY <1>1, <2>1, SetAccepted
  <2> HIDE DEF c, x
  <2>4. /\ connections' \in Seq(RpcConnection) /\ Len(connections') = n /\ connections'[c] = x
        /\ \A k \in 1..n : k # c => connections'[k] = connections[k]
    BY <1>1, <2>1, <2>2, <2>3, OneConnection
  <2>5. RpcTypes'
    BY <1>1, <1>2, <2>1, <2>2, <2>3, <2>4 DEF RpcInv, RpcTypes
  <2>6. TurnInv' /\ AnswersMatch'
    <3>1. rpcServer'.fd = c /\ rpcServer'.at = "length"
      BY <2>2
    <3>2. \A k \in 1..n : /\ connections'[k].toServer = connections[k].toServer
                          /\ connections'[k].toClient = connections[k].toClient
                          /\ connections'[k].waiting => connections[k].waiting
      BY <2>1, <2>3, <2>4
    <3> HIDE DEF n
    <3> QED  BY <1>2, <1>3, <2>1, <3>1, <3>2, TurnStays
  <2> QED  BY <2>5, <2>6 DEF RpcInv
<1> QED  BY <1>4, <1>5

\* What the server changes on its connection, when the rest of the state stays.
LEMMA ServerTypesKept ==
  ASSUME RpcInv, rpcServer.fd # 0, NEW x \in RpcConnection, x.waiting = connections[rpcServer.fd].waiting,
         connections' = [connections EXCEPT ![rpcServer.fd] = x],
         rpcServer' \in [at : {"idle", "length", "payload", "serving"}, fd : {0, rpcServer.fd}, request : Nat],
         rpcServer'.at # "idle" => rpcServer'.fd # 0,
         UNCHANGED <<rpcClient, requests, failedOn>>
  PROVE  /\ RpcTypes' /\ connections'[rpcServer.fd] = x
         /\ \A k \in 1..Len(connections) : k # rpcServer.fd => connections'[k] = connections[k]
<1> DEFINE s == rpcServer.fd
           n == Len(connections)
<1>1. connections \in Seq(RpcConnection) /\ s \in 1..n /\ n \in Nat
  BY DEF RpcInv, RpcTypes
<1>2. /\ connections' \in Seq(RpcConnection) /\ Len(connections') = n /\ connections'[s] = x
      /\ \A k \in 1..n : k # s => connections'[k] = connections[k]
  BY <1>1, OneConnection
<1>3. rpcServer' \in [at : {"idle", "length", "payload", "serving"}, fd : 0..Len(connections'), request : Nat]
  BY <1>1, <1>2
<1>4. rpcServer'.fd # 0 => ~connections'[rpcServer'.fd].waiting
  BY <1>1, <1>2 DEF RpcInv, RpcTypes
<1>5. RpcTypes'
  BY <1>2, <1>3, <1>4 DEF RpcInv, RpcTypes
<1> QED  BY <1>2, <1>5

LEMMA ServerConnection ==
  ASSUME RpcInv, rpcServer.fd # 0
  PROVE  /\ rpcServer.fd \in 1..Len(connections) /\ connections[rpcServer.fd] \in RpcConnection
         /\ connections[rpcServer.fd].toServer \in Seq(RpcChunk)
         /\ connections[rpcServer.fd].toClient \in Seq(RpcChunk)
         /\ ~connections[rpcServer.fd].waiting
         /\ rpcClient.fd # 0 => rpcClient.fd \in 1..Len(connections)
<1>1. rpcServer.fd \in 1..Len(connections) /\ connections \in Seq(RpcConnection)
  BY DEF RpcInv, RpcTypes
<1>2. connections[rpcServer.fd] \in RpcConnection
  BY <1>1, ElementOfSeq
<1> QED  BY <1>1, <1>2 DEF RpcInv, RpcTypes, RpcConnection

\* What the client's connection must be like for the server to have work to do on it.
LEMMA ServerInTurn ==
  ASSUME RpcInv, rpcClient.fd # 0, rpcClient.fd \notin failedOn, rpcServer.fd = rpcClient.fd,
         \/ rpcServer.at \in {"payload", "serving"}
         \/ connections[rpcClient.fd].toServer # <<>>
  PROVE  /\ rpcClient.at = "length"
         /\ \/ Asked(rpcClient.fd, rpcClient.request)
            \/ Arriving(rpcClient.fd, rpcClient.request)
            \/ Served(rpcClient.fd, rpcClient.request)
<1>1. InTurn(rpcClient.fd, rpcClient.request) /\ rpcClient.at \in {"idle", "length", "payload"}
  BY DEF RpcInv, TurnInv, RpcTypes
<1> QED  BY <1>1 DEF InTurn, ServerAside, HalfRead, Answered, Free

LEMMA ServerReadsLengthKept == ASSUME RpcInv, ServerReadsLength PROVE RpcInv'
<1> DEFINE s == rpcServer.fd
           c == rpcClient.fd
           r == rpcClient.request
           t == Tail(connections[s].toServer)
           x == [connections[s] EXCEPT !.toServer = t]
<1>1. /\ rpcServer.fd # 0 /\ rpcServer.at = "length" /\ Incoming = connections[s].toServer /\ Incoming # <<>>
      /\ Head(Incoming)[1] = "length"
      /\ connections' = [connections EXCEPT ![s] = x]
      /\ UNCHANGED <<rpcClient, requests, failedOn, answer>>
  BY DEF ServerReadsLength, Incoming, RpcInv, RpcTypes
<1>2. /\ s \in 1..Len(connections) /\ connections[s] \in RpcConnection
      /\ Incoming \in Seq(RpcChunk) /\ ~connections[s].waiting /\ (c # 0 => c \in 1..Len(connections))
  BY <1>1, ServerConnection
<1>3. Head(Incoming)[2] \in Nat /\ Tail(Incoming) \in Seq(RpcChunk)
  BY <1>1, <1>2, HeadTailProperties DEF RpcChunk
<1>4. /\ x \in RpcConnection /\ x.toServer = Tail(Incoming) /\ x.toClient = connections[s].toClient
      /\ x.waiting = connections[s].waiting
  <2>1. t = Tail(Incoming)
    BY <1>1
  <2>2. t \in Seq(RpcChunk)
    BY <1>3, <2>1
  <2> HIDE DEF t
  <2>3. /\ x \in RpcConnection /\ x.toServer = t /\ x.toClient = connections[s].toClient
        /\ x.waiting = connections[s].waiting
    BY <1>2, <2>2, SetToServer
  <2> QED  BY <2>1, <2>3
<1> HIDE DEF x
<1>5. rpcServer' = [at |-> "payload", fd |-> s, request |-> Head(Incoming)[2]]
  BY DEF ServerReadsLength, RpcInv, RpcTypes
<1>6. /\ RpcTypes' /\ connections'[s] = x
      /\ \A k \in 1..Len(connections) : k # s => connections'[k] = connections[k]
  <2>1. /\ rpcServer' \in [at : {"idle", "length", "payload", "serving"}, fd : {0, s}, request : Nat]
        /\ rpcServer'.at # "idle" => rpcServer'.fd # 0
    BY <1>1, <1>3, <1>5
  <2> QED  BY <1>1, <1>4, <2>1, ServerTypesKept
<1>7. CASE c # s
  <2>1. rpcServer'.fd # c
    BY <1>5, <1>7
  <2>2. TurnInv' /\ AnswersMatch'
    BY <1>1, <1>2, <1>6, <1>7, <2>1, TurnStays
  <2> QED  BY <1>6, <2>2 DEF RpcInv
<1>8. CASE c = s
  <2>1. AnswersMatch'
    BY <1>1 DEF RpcInv, AnswersMatch
  <2>2. ASSUME c \notin failedOn
        PROVE  InTurn(c, r)'
    <3>1. rpcClient.at = "length" /\ Asked(c, r)
      BY <1>1, <1>8, <2>2, ServerInTurn DEF Arriving, Served
    <3>2. Incoming = Whole(r) /\ connections[c].toClient = <<>> /\ r \in Nat
      BY <1>1, <1>8, <3>1 DEF Asked, RpcInv, RpcTypes
    <3>3. Head(Incoming)[2] = r /\ Tail(Incoming) = <<Payload(r)>>
      BY <3>2, RpcChunks
    <3>4. /\ connections'[c].toServer = <<Payload(r)>> /\ connections'[c].toClient = <<>>
          /\ ~connections'[c].waiting
      BY <1>2, <1>4, <1>6, <1>8, <3>2, <3>3
    <3>5. rpcServer'.at = "payload" /\ rpcServer'.request = r
      BY <1>5, <3>3
    <3>6. Arriving(c, r)'
      BY <1>1, <3>4, <3>5 DEF Arriving
    <3> QED  BY <1>1, <3>1, <3>6 DEF InTurn
  <2> QED  BY <1>1, <1>6, <2>1, <2>2 DEF RpcInv, TurnInv
<1> QED  BY <1>7, <1>8

LEMMA ServerReadsPayloadKept == ASSUME RpcInv, ServerReadsPayload PROVE RpcInv'
<1> DEFINE s == rpcServer.fd
           c == rpcClient.fd
           r == rpcClient.request
           t == Tail(connections[s].toServer)
           x == [connections[s] EXCEPT !.toServer = t]
           q == IF Head(Incoming) = Payload(rpcServer.request) THEN rpcServer.request ELSE Garbage
<1>1. /\ rpcServer.fd # 0 /\ rpcServer.at = "payload" /\ Incoming = connections[s].toServer /\ Incoming # <<>>
      /\ connections' = [connections EXCEPT ![s] = x]
      /\ UNCHANGED <<rpcClient, requests, failedOn, answer>>
  BY DEF ServerReadsPayload, Incoming, RpcInv, RpcTypes
<1>2. /\ s \in 1..Len(connections) /\ connections[s] \in RpcConnection
      /\ Incoming \in Seq(RpcChunk) /\ ~connections[s].waiting /\ (c # 0 => c \in 1..Len(connections))
  BY <1>1, ServerConnection
<1>3. q \in Nat /\ Tail(Incoming) \in Seq(RpcChunk)
  BY <1>1, <1>2, HeadTailProperties DEF Garbage, RpcInv, RpcTypes
<1>4. /\ x \in RpcConnection /\ x.toServer = Tail(Incoming) /\ x.toClient = connections[s].toClient
      /\ x.waiting = connections[s].waiting
  <2>1. t = Tail(Incoming)
    BY <1>1
  <2>2. t \in Seq(RpcChunk)
    BY <1>3, <2>1
  <2> HIDE DEF t
  <2>3. /\ x \in RpcConnection /\ x.toServer = t /\ x.toClient = connections[s].toClient
        /\ x.waiting = connections[s].waiting
    BY <1>2, <2>2, SetToServer
  <2> QED  BY <2>1, <2>3
<1> HIDE DEF x
<1>5. rpcServer' = [at |-> "serving", fd |-> s, request |-> q]
  BY DEF ServerReadsPayload, RpcInv, RpcTypes
<1>6. /\ RpcTypes' /\ connections'[s] = x
      /\ \A k \in 1..Len(connections) : k # s => connections'[k] = connections[k]
  <2> HIDE DEF q
  <2>1. /\ rpcServer' \in [at : {"idle", "length", "payload", "serving"}, fd : {0, s}, request : Nat]
        /\ rpcServer'.at # "idle" => rpcServer'.fd # 0
    BY <1>1, <1>3, <1>5
  <2> QED  BY <1>1, <1>4, <2>1, ServerTypesKept
<1>7. CASE c # s
  <2>1. rpcServer'.fd # c
    BY <1>5, <1>7
  <2>2. TurnInv' /\ AnswersMatch'
    BY <1>1, <1>2, <1>6, <1>7, <2>1, TurnStays
  <2> QED  BY <1>6, <2>2 DEF RpcInv
<1>8. CASE c = s
  <2>1. AnswersMatch'
    BY <1>1 DEF RpcInv, AnswersMatch
  <2>2. ASSUME c \notin failedOn
        PROVE  InTurn(c, r)'
    <3>1. rpcClient.at = "length" /\ Arriving(c, r)
      BY <1>1, <1>8, <2>2, ServerInTurn DEF Asked, Served, Free
    <3>2. Incoming = <<Payload(r)>> /\ connections[c].toClient = <<>> /\ r \in Nat /\ rpcServer.request = r
      BY <1>1, <1>8, <3>1 DEF Arriving, RpcInv, RpcTypes
    <3>3. Head(Incoming) = Payload(r) /\ Tail(Incoming) = <<>>
      BY <3>2, RpcChunks
    <3>4. /\ connections'[c].toServer = <<>> /\ connections'[c].toClient = <<>>
          /\ ~connections'[c].waiting
      BY <1>2, <1>4, <1>6, <1>8, <3>2, <3>3
    <3>5. rpcServer'.at = "serving" /\ rpcServer'.request = r
      BY <1>5, <3>2, <3>3
    <3>6. Served(c, r)'
      BY <1>1, <3>4, <3>5 DEF Served
    <3> QED  BY <1>1, <3>1, <3>6 DEF InTurn
  <2> QED  BY <1>1, <1>6, <2>1, <2>2 DEF RpcInv, TurnInv
<1> QED  BY <1>7, <1>8

LEMMA ServerGivesUpKept == ASSUME RpcInv, ServerGivesUp PROVE RpcInv'
<1> DEFINE s == rpcServer.fd
           x == [connections[s] EXCEPT !.byServer = FALSE]
<1>1. /\ rpcServer.fd # 0 /\ connections' = [connections EXCEPT ![s] = x]
      /\ rpcServer' = [at |-> "idle", fd |-> 0, request |-> 0]
      /\ UNCHANGED <<rpcClient, requests, failedOn, answer>>
  BY DEF ServerGivesUp, ServerIdle, RpcInv, RpcTypes
<1>2. /\ s \in 1..Len(connections) /\ connections[s] \in RpcConnection
      /\ rpcClient.fd # 0 => rpcClient.fd \in 1..Len(connections)
  BY <1>1, ServerConnection
<1>3. /\ x \in RpcConnection /\ x.toServer = connections[s].toServer /\ x.toClient = connections[s].toClient
      /\ x.waiting = connections[s].waiting
  BY <1>2, SetClosed
<1> HIDE DEF x
<1>4. /\ RpcTypes' /\ connections'[s] = x
      /\ \A k \in 1..Len(connections) : k # s => connections'[k] = connections[k]
  <2>1. /\ rpcServer' \in [at : {"idle", "length", "payload", "serving"}, fd : {0, s}, request : Nat]
        /\ rpcServer'.at # "idle" => rpcServer'.fd # 0
    BY <1>1
  <2> QED  BY <1>1, <1>3, <2>1, ServerTypesKept
<1>5. TurnInv' /\ AnswersMatch'
  <2>1. rpcServer'.fd = 0
    BY <1>1
  <2>2. \A k \in 1..Len(connections) : /\ connections'[k].toServer = connections[k].toServer
                                       /\ connections'[k].toClient = connections[k].toClient
                                       /\ connections'[k].waiting = connections[k].waiting
    BY <1>3, <1>4
  <2> QED  BY <1>1, <1>2, <2>1, <2>2, TurnStays
<1> QED  BY <1>4, <1>5 DEF RpcInv

LEMMA SendResponseKept == ASSUME RpcInv, SendResponse PROVE RpcInv'
<1> DEFINE s == rpcServer.fd
           c == rpcClient.fd
           r == rpcClient.request
<1>1. /\ rpcServer.fd # 0 /\ rpcServer.at = "serving"
      /\ rpcServer' = [at |-> "idle", fd |-> s, request |-> 0]
      /\ UNCHANGED <<rpcClient, requests, failedOn, answer>>
  BY DEF SendResponse, RpcInv, RpcTypes
<1>2. PICK sent \in {Whole(rpcServer.request), <<Length(rpcServer.request)>>, <<>>} :
        connections' = [connections EXCEPT ![s].toClient = connections[s].toClient \o sent]
  BY DEF SendResponse, Sendable
<1> DEFINE t == connections[s].toClient \o sent
           x == [connections[s] EXCEPT !.toClient = t]
<1>3. /\ s \in 1..Len(connections) /\ connections[s] \in RpcConnection
      /\ connections[s].toClient \in Seq(RpcChunk) /\ (c # 0 => c \in 1..Len(connections))
  BY <1>1, ServerConnection
<1>4. sent \in Seq(RpcChunk)
  BY RpcChunks DEF RpcInv, RpcTypes
<1>5. t \in Seq(RpcChunk)
  BY <1>3, <1>4, ConcatProperties
<1>6. /\ x \in RpcConnection /\ x.toServer = connections[s].toServer
      /\ x.toClient = t /\ x.waiting = connections[s].waiting
  <2> HIDE DEF t
  <2> QED  BY <1>3, <1>5, SetToClient
<1>7. connections' = [connections EXCEPT ![s] = x]
  BY <1>2
<1> HIDE DEF x
<1>8. /\ RpcTypes' /\ connections'[s] = x
      /\ \A k \in 1..Len(connections) : k # s => connections'[k] = connections[k]
  <2>1. /\ rpcServer' \in [at : {"idle", "length", "payload", "serving"}, fd : {0, s}, request : Nat]
        /\ rpcServer'.at # "idle" => rpcServer'.fd # 0
    BY <1>1
  <2> QED  BY <1>1, <1>6, <1>7, <2>1, ServerTypesKept
<1>9. CASE c # s
  <2>1. rpcServer'.fd # c
    BY <1>1, <1>9
  <2>2. TurnInv' /\ AnswersMatch'
    BY <1>1, <1>3, <1>8, <1>9, <2>1, TurnStays
  <2> QED  BY <1>8, <2>2 DEF RpcInv
<1>10. CASE c = s
  <2>1. AnswersMatch'
    BY <1>1 DEF RpcInv, AnswersMatch
  <2>2. ASSUME c \notin failedOn
        PROVE  InTurn(c, r)'
    <3>1. rpcClient.at = "length" /\ Served(c, r)
      BY <1>1, <1>10, <2>2, ServerInTurn DEF Asked, Arriving, Free
    <3>2. /\ connections[c].toServer = <<>> /\ connections[c].toClient = <<>> /\ r \in Nat
          /\ rpcServer.request = r
      BY <1>1, <1>10, <3>1 DEF Served, RpcInv, RpcTypes
    <3>3. x.toClient = sent
      BY <1>4, <1>6, <1>10, <3>2, ConcatEmptySeq
    <3>4. connections'[c].toServer = <<>> /\ connections'[c].toClient \in {Whole(r), <<Length(r)>>, <<>>}
      BY <1>2, <1>6, <1>8, <1>10, <3>2, <3>3
    <3>5. rpcServer'.at = "idle"
      BY <1>1
    <3>6. Answered(c, r)'
      BY <1>1, <3>4, <3>5 DEF Answered, Free
    <3> QED  BY <1>1, <3>1, <3>6 DEF InTurn
  <2> QED  BY <1>1, <1>8, <2>1, <2>2 DEF RpcInv, TurnInv
<1> QED  BY <1>9, <1>10

LEMMA ClientConnection ==
  ASSUME RpcInv, rpcClient.fd # 0
  PROVE  /\ rpcClient.fd \in 1..Len(connections) /\ connections[rpcClient.fd] \in RpcConnection
         /\ Conn = connections[rpcClient.fd] /\ Conn.toServer \in Seq(RpcChunk) /\ Conn.toClient \in Seq(RpcChunk)
         /\ rpcClient.request \in Nat /\ rpcClient.length \in Nat /\ Len(connections) \in Nat
<1>1. rpcClient.fd \in 1..Len(connections) /\ connections \in Seq(RpcConnection)
  BY DEF RpcInv, RpcTypes
<1>2. connections[rpcClient.fd] \in RpcConnection
  BY <1>1, ElementOfSeq
<1> QED  BY <1>1, <1>2 DEF RpcInv, RpcTypes, RpcConnection, Conn

\* What the client changes on its connection, when the server stays.
LEMMA ClientTypesKept ==
  ASSUME RpcInv, rpcClient.fd # 0, NEW x \in RpcConnection, x.waiting = connections[rpcClient.fd].waiting,
         connections' = [connections EXCEPT ![rpcClient.fd] = x],
         rpcClient' \in [at : {"idle", "length", "payload"}, fd : {rpcClient.fd}, request : Nat, length : Nat],
         requests' \in Nat, failedOn' \subseteq failedOn \cup {rpcClient.fd}, UNCHANGED rpcServer
  PROVE  RpcTypes' /\ connections'[rpcClient.fd] = x
<1> DEFINE c == rpcClient.fd
           n == Len(connections)
<1>1. connections \in Seq(RpcConnection) /\ c \in 1..n /\ n \in Nat
  BY DEF RpcInv, RpcTypes
<1>2. /\ connections' \in Seq(RpcConnection) /\ Len(connections') = n /\ connections'[c] = x
      /\ \A k \in 1..n : k # c => connections'[k] = connections[k]
  BY <1>1, OneConnection
<1>3. /\ rpcClient' \in [at : {"idle", "length", "payload"}, fd : 0..Len(connections'), request : Nat, length : Nat]
      /\ rpcClient'.fd # 0
  BY <1>1, <1>2
<1>4. rpcServer'.fd # 0 => ~connections'[rpcServer'.fd].waiting
  BY <1>1, <1>2 DEF RpcInv, RpcTypes
<1>5. failedOn' \subseteq 1..Len(connections')
  BY <1>1, <1>2 DEF RpcInv, RpcTypes
<1>6. RpcTypes'
  BY <1>2, <1>3, <1>4, <1>5 DEF RpcInv, RpcTypes
<1> QED  BY <1>2, <1>6

LEMMA SendRequestKept == ASSUME RpcInv, SendRequest PROVE RpcInv'
<1> DEFINE c == rpcClient.fd
           r == requests'
<1>1. /\ c # 0 /\ rpcClient.at = "idle" /\ requests \in Nat /\ r = requests + 1 /\ r \in Nat
      /\ UNCHANGED <<rpcServer, answer>>
  BY DEF SendRequest, RpcInv, RpcTypes
<1>2. PICK sent \in {Whole(r), <<Length(r)>>, <<>>} :
        /\ connections' = [connections EXCEPT ![c].toServer = connections[c].toServer \o sent]
        /\ IF sent = Whole(r)
           THEN /\ rpcClient' = [rpcClient EXCEPT !.at = "length", !.request = r]
                /\ UNCHANGED failedOn
           ELSE /\ failedOn' = failedOn \cup {c}
                /\ UNCHANGED rpcClient
  BY DEF SendRequest, Sendable
<1> DEFINE t == connections[c].toServer \o sent
           x == [connections[c] EXCEPT !.toServer = t]
<1>3. /\ c \in 1..Len(connections) /\ connections[c] \in RpcConnection /\ connections[c].toServer \in Seq(RpcChunk)
  BY <1>1, ClientConnection
<1>4. sent \in Seq(RpcChunk) /\ t \in Seq(RpcChunk)
  <2>1. sent \in Seq(RpcChunk)
    BY <1>1, RpcChunks
  <2> QED  BY <1>3, <2>1, ConcatProperties
<1>5. /\ x \in RpcConnection /\ x.toServer = t /\ x.toClient = connections[c].toClient
      /\ x.waiting = connections[c].waiting
  <2> HIDE DEF t
  <2> QED  BY <1>3, <1>4, SetToServer
<1>6. connections' = [connections EXCEPT ![c] = x]
  BY <1>2
<1> HIDE DEF x
<1>7. CASE sent = Whole(r)
  <2>1. /\ rpcClient' = [at |-> "length", fd |-> c, request |-> r, length |-> rpcClient.length]
        /\ failedOn' = failedOn
    BY <1>2, <1>7 DEF RpcInv, RpcTypes
  <2>2. RpcTypes' /\ connections'[c] = x
    <3>1. rpcClient' \in [at : {"idle", "length", "payload"}, fd : {c}, request : Nat, length : Nat]
      BY <1>1, <2>1, ClientConnection
    <3> QED  BY <1>1, <1>5, <1>6, <2>1, <3>1, ClientTypesKept
  <2>3. TurnInv'
    <3> SUFFICES ASSUME c \notin failedOn PROVE Asked(rpcClient.fd, rpcClient.request)'
      BY <2>1 DEF TurnInv, InTurn
    <3>1. ServerAside(c)
      BY <1>1 DEF RpcInv, TurnInv, InTurn
    <3>2. t = Whole(r)
      BY <1>1, <1>7, <3>1, RpcChunks DEF ServerAside
    <3> HIDE DEF t
    <3>3. connections'[c].toServer = Whole(r) /\ connections'[c].toClient = <<>>
      BY <1>5, <2>2, <3>1, <3>2 DEF ServerAside
    <3>4. rpcServer'.fd = c => rpcServer'.at \in {"idle", "length"}
      BY <1>1, <3>1 DEF ServerAside, Free
    <3>5. rpcClient'.fd = c /\ rpcClient'.request = r
      BY <2>1
    <3> QED  BY <3>3, <3>4, <3>5 DEF Asked, Free, Whole, Length, Payload
  <2>4. AnswersMatch'
    BY <1>1, <2>1 DEF RpcInv, AnswersMatch
  <2> QED  BY <2>2, <2>3, <2>4 DEF RpcInv
<1>8. CASE sent # Whole(r)
  <2>1. failedOn' = failedOn \cup {c} /\ rpcClient' = rpcClient
    BY <1>2, <1>8
  <2>2. RpcTypes'
    <3>1. rpcClient' \in [at : {"idle", "length", "payload"}, fd : {c}, request : Nat, length : Nat]
      BY <2>1 DEF RpcInv, RpcTypes
    <3> QED  BY <1>1, <1>5, <1>6, <2>1, <3>1, ClientTypesKept
  <2>3. TurnInv' /\ AnswersMatch'
    BY <1>1, <2>1 DEF RpcInv, TurnInv, AnswersMatch
  <2> QED  BY <2>2, <2>3 DEF RpcInv
<1> QED  BY <1>7, <1>8

LEMMA ClientReadsLengthKept == ASSUME RpcInv, ClientReadsLength PROVE RpcInv'
<1> DEFINE c == rpcClient.fd
           r == rpcClient.request
           t == Tail(connections[c].toClient)
           x == [connections[c] EXCEPT !.toClient = t]
<1>1. /\ c # 0 /\ rpcClient.at = "length" /\ Conn.toClient # <<>>
      /\ connections' = [connections EXCEPT ![c] = x]
      /\ UNCHANGED <<rpcServer, requests, failedOn, answer>>
  BY DEF ClientReadsLength, RpcInv, RpcTypes, Conn
<1>2. /\ c \in 1..Len(connections) /\ connections[c] \in RpcConnection /\ Conn = connections[c]
      /\ Conn.toClient \in Seq(RpcChunk) /\ r \in Nat
  BY <1>1, ClientConnection
<1>3. Head(Conn.toClient)[2] \in Nat /\ t \in Seq(RpcChunk) /\ t = Tail(Conn.toClient)
  BY <1>1, <1>2, HeadTailProperties DEF RpcChunk
<1> HIDE DEF t
<1>4. /\ x \in RpcConnection /\ x.toServer = connections[c].toServer /\ x.toClient = t
      /\ x.waiting = connections[c].waiting
  <2>1. t \in Seq(RpcChunk)
    BY <1>3
  <2>2. connections[c] \in RpcConnection
    BY <1>2
  <2> QED  BY <2>1, <2>2, SetToClient
<1> HIDE DEF x
<1>5. rpcClient' = [at |-> "payload", fd |-> c, request |-> r, length |-> Head(Conn.toClient)[2]]
  BY DEF ClientReadsLength, RpcInv, RpcTypes
<1>6. RpcTypes' /\ connections'[c] = x
  <2>1. rpcClient' \in [at : {"idle", "length", "payload"}, fd : {c}, request : Nat, length : Nat]
    BY <1>2, <1>3, <1>5
  <2>2. requests' \in Nat
    BY <1>1 DEF RpcInv, RpcTypes
  <2> QED  BY <1>1, <1>4, <2>1, <2>2, ClientTypesKept
<1>7. TurnInv'
  <2> SUFFICES ASSUME c \notin failedOn PROVE rpcClient'.length = r /\ HalfRead(c, r)'
    BY <1>1, <1>5 DEF TurnInv, InTurn
  <2>1. Answered(c, r) /\ Conn.toClient \in {Whole(r), <<Length(r)>>}
    BY <1>1, <1>2 DEF RpcInv, TurnInv, InTurn, Asked, Arriving, Served, Answered
  <2>2. Head(Conn.toClient)[2] = r /\ t \in {<<Payload(r)>>, <<>>}
    <3>1. CASE Conn.toClient = Whole(r)
      <4>1. Head(Whole(r)) = Length(r) /\ Tail(Whole(r)) = <<Payload(r)>> /\ Length(r)[2] = r
        BY <1>2, RpcChunks
      <4>2. Head(Conn.toClient) = Length(r) /\ t = <<Payload(r)>>
        BY <1>3, <3>1, <4>1, Zenon
      <4> QED  BY <4>1, <4>2, Zenon
    <3>2. CASE Conn.toClient = <<Length(r)>>
      <4>1. Head(<<Length(r)>>) = Length(r) /\ Tail(<<Length(r)>>) = <<>> /\ Length(r)[2] = r
        BY <1>2, RpcChunks
      <4>2. Head(Conn.toClient) = Length(r) /\ t = <<>>
        BY <1>3, <3>2, <4>1, Zenon
      <4> QED  BY <4>1, <4>2, Zenon
    <3> QED  BY <2>1, <3>1, <3>2
  <2>3. connections'[c].toServer = <<>> /\ connections'[c].toClient \in {<<Payload(r)>>, <<>>}
    BY <1>4, <1>6, <2>1, <2>2 DEF Answered
  <2>4. rpcServer'.fd = c => rpcServer'.at \in {"idle", "length"}
    BY <1>1, <2>1 DEF Answered, Free
  <2>5. rpcClient'.fd = c /\ rpcClient'.request = r /\ rpcClient'.length = r
    BY <1>5, <2>2
  <2> QED  BY <2>3, <2>4, <2>5 DEF HalfRead, Free, Payload
<1>8. AnswersMatch'
  BY <1>1 DEF RpcInv, AnswersMatch
<1> QED  BY <1>6, <1>7, <1>8 DEF RpcInv

LEMMA ClientReadsPayloadKept == ASSUME RpcInv, ClientReadsPayload PROVE RpcInv'
<1> DEFINE c == rpcClient.fd
           r == rpcClient.request
           t == Tail(connections[c].toClient)
           x == [connections[c] EXCEPT !.toClient = t]
<1>1. /\ c # 0 /\ rpcClient.at = "payload" /\ Conn.toClient # <<>>
      /\ connections' = [connections EXCEPT ![c] = x]
      /\ rpcClient' = [at |-> "idle", fd |-> c, request |-> 0, length |-> 0]
      /\ answer' = [request |-> r, on |-> c,
                    got |-> IF Head(Conn.toClient) = Payload(rpcClient.length) THEN rpcClient.length ELSE Garbage]
      /\ UNCHANGED <<rpcServer, requests, failedOn>>
  BY DEF ClientReadsPayload, RpcInv, RpcTypes, Conn, ClientIdle
<1>2. /\ c \in 1..Len(connections) /\ connections[c] \in RpcConnection /\ Conn = connections[c]
      /\ Conn.toClient \in Seq(RpcChunk) /\ r \in Nat
  BY <1>1, ClientConnection
<1>3. t \in Seq(RpcChunk) /\ t = Tail(Conn.toClient)
  BY <1>1, <1>2, HeadTailProperties
<1> HIDE DEF t
<1>4. /\ x \in RpcConnection /\ x.toServer = connections[c].toServer /\ x.toClient = t
      /\ x.waiting = connections[c].waiting
  <2>1. t \in Seq(RpcChunk)
    BY <1>3
  <2>2. connections[c] \in RpcConnection
    BY <1>2
  <2> QED  BY <2>1, <2>2, SetToClient
<1> HIDE DEF x
<1>5. RpcTypes' /\ connections'[c] = x
  <2>1. rpcClient' \in [at : {"idle", "length", "payload"}, fd : {c}, request : Nat, length : Nat]
    BY <1>1
  <2>2. requests' \in Nat
    BY <1>1 DEF RpcInv, RpcTypes
  <2> QED  BY <1>1, <1>4, <2>1, <2>2, ClientTypesKept
<1>6. c \notin failedOn => HalfRead(c, r) /\ rpcClient.length = r /\ Conn.toClient = <<Payload(r)>>
  BY <1>1, <1>2 DEF RpcInv, TurnInv, InTurn, HalfRead
<1>7. TurnInv'
  <2> SUFFICES ASSUME c \notin failedOn PROVE ServerAside(c)'
    BY <1>1 DEF TurnInv, InTurn
  <2>1. HalfRead(c, r) /\ t = <<>>
    BY <1>2, <1>3, <1>6, RpcChunks
  <2>2. connections'[c].toServer = <<>> /\ connections'[c].toClient = <<>>
    BY <1>4, <1>5, <2>1 DEF HalfRead
  <2>3. rpcServer'.fd = c => rpcServer'.at \in {"idle", "length"}
    BY <1>1, <2>1 DEF HalfRead, Free
  <2> QED  BY <1>1, <2>2, <2>3 DEF ServerAside, Free
<1>8. AnswersMatch'
  <2> SUFFICES ASSUME c \notin failedOn PROVE answer'.got = r
    BY <1>1 DEF AnswersMatch
  <2>1. Head(Conn.toClient) = Payload(rpcClient.length) /\ rpcClient.length = r
    BY <1>2, <1>6, RpcChunks
  <2> QED  BY <1>1, <2>1
<1> QED  BY <1>5, <1>7, <1>8 DEF RpcInv

LEMMA ClientGivesUpKept == ASSUME RpcInv, ClientGivesUp PROVE RpcInv'
<1>1. /\ rpcClient.fd # 0 /\ failedOn' = failedOn \cup {rpcClient.fd}
      /\ rpcClient' = [at |-> "idle", fd |-> rpcClient.fd, request |-> 0, length |-> 0]
      /\ UNCHANGED <<connections, rpcServer, requests, answer>>
  BY DEF ClientGivesUp, ClientIdle, RpcInv, RpcTypes
<1>2. RpcTypes'
  <2>1. rpcClient.fd \in 0..Len(connections)
    BY DEF RpcInv, RpcTypes
  <2>2. /\ rpcClient' \in [at : {"idle", "length", "payload"}, fd : 0..Len(connections), request : Nat,
                           length : Nat]
        /\ rpcClient'.fd # 0
    BY <1>1, <2>1
  <2>3. failedOn' \subseteq 1..Len(connections)
    BY <1>1, <2>1, ClientConnection DEF RpcInv, RpcTypes
  <2> QED  BY <1>1, <2>2, <2>3 DEF RpcInv, RpcTypes
<1>3. TurnInv' /\ AnswersMatch'
  BY <1>1 DEF RpcInv, TurnInv, AnswersMatch
<1> QED  BY <1>2, <1>3 DEF RpcInv

LEMMA RpcKept == RpcInv /\ [RpcNext]_rpcVars => RpcInv'
<1> SUFFICES ASSUME RpcInv, [RpcNext]_rpcVars PROVE RpcInv'
  OBVIOUS
<1>1. CASE UNCHANGED rpcVars
  <2>1. RpcTypes'
    BY <1>1 DEF rpcVars, RpcInv, RpcTypes
  <2>2. TurnInv' /\ AnswersMatch'
    BY <1>1, TurnStays DEF rpcVars
  <2> QED  BY <2>1, <2>2 DEF RpcInv
<1>2. CASE RpcNext
  BY <1>2, ListenKept, StopListeningKept, ConnectClientKept, DisconnectClientKept, AcceptClientKept,
     ReceiveRequestKept, ServerReadsLengthKept, ServerReadsPayloadKept, ServerGivesUpKept,
     SendResponseKept, SendRequestKept, ClientReadsLengthKept, ClientReadsPayloadKept,
     ClientGivesUpKept DEF RpcNext
<1> QED  BY <1>1, <1>2

\* The inductive invariant of the Unix-socket transport: until a request has failed on it, a connection
\* holds nothing but the client's latest request or its answer.
THEOREM RpcInvariant == RpcSpec => []RpcInv
<1> QED  BY RpcStarts, RpcKept, PTL DEF RpcSpec

\* For any number of connections and requests, an answer is that of the request sent, until one has
\* failed on the connection (UnixSocketTransport.cpp, sendRequest()).
THEOREM AnswersAlwaysMatch == RpcSpec => []AnswersMatch
<1>1. RpcInv => AnswersMatch
  BY DEF RpcInv
<1> QED  BY <1>1, RpcInvariant, PTL

----------------------------------------------------------------------------
(* FirmwareProcess: what stop() leaves behind.                             *)

FirmwareTypes ==
  /\ running \in BOOLEAN /\ stopAsked \in BOOLEAN /\ joinable \in BOOLEAN
  /\ monitor \in {"none", "loop", "waitpid", "reaped", "done"}
  /\ owner \in [at : {"idle", "monitor", "term", "wait", "kill", "waitAgain", "join", "close", "members",
                      "destroyed"},
                call : {"none", "start", "stop", "destroy"}]
  /\ child \in {"none", "running", "wants", "zombie", "reaped"}
  /\ fate \in [terminated : BOOLEAN, strayKill : BOOLEAN, leaked : BOOLEAN, selfExit : BOOLEAN,
               startFailed : BOOLEAN, slow : 0..2, stopped : BOOLEAN]

\* Who reaps: the child outlives running only if SIGKILL was too slow for stop(), and never while
\* the thread is at work.
ReapInv ==
  /\ ~running => child \in {"none", "reaped"} \/ fate.slow = 2
  /\ running \/ owner.at \in {"term", "wait", "kill", "waitAgain", "join", "close"} \/ fate.stopped
       => child # "none"
  /\ monitor = "reaped" => running /\ child = "reaped"
  /\ monitor \in {"loop", "waitpid"} /\ ~running => child = "reaped"
  /\ owner.at = "monitor" => running
  /\ owner.at \in {"join", "close"} => ~running \/ fate.slow = 2
  /\ owner.at \in {"members", "destroyed"} => ~running
  /\ owner.at \in {"kill", "waitAgain"} => fate.slow > 0

\* The thread and what can still be open.
ThreadInv ==
  /\ ~joinable => monitor \in {"none", "done"}
  /\ owner.at = "close" => ~joinable
  /\ owner.at = "monitor" \/ (owner.at \in {"idle", "members", "destroyed"} /\ ~running)
       => monitor \in {"none", "done"}
  /\ fate.stopped => /\ owner.at \in {"idle", "members", "destroyed"}
                     /\ ~joinable /\ descriptors = {} /\ ~running

\* What only an exit of the firmware by itself brings about, or a failed start().
BlameInv ==
  /\ owner.at \in {"monitor", "term"} \/ (owner.at = "idle" /\ running)
       => child \in {"none", "running"} \/ fate.selfExit
  /\ joinable /\ (owner.at = "monitor" \/ (owner.at \in {"idle", "members"} /\ ~running)) => fate.selfExit
  /\ owner.at \in {"idle", "members"} /\ ~running /\ descriptors # {} => fate.selfExit \/ fate.startFailed
  /\ fate.terminated => fate.selfExit
  /\ fate.strayKill => fate.selfExit \/ fate.slow > 0
  /\ fate.leaked => fate.selfExit \/ fate.startFailed

FirmwareInv == FirmwareTypes /\ ReapInv /\ ThreadInv /\ BlameInv

LEMMA FirmwareStarts == FirmwareInit => FirmwareInv
<1> SUFFICES ASSUME FirmwareInit PROVE FirmwareInv
  OBVIOUS
<1>1. FirmwareTypes
  <2>1. fate = [terminated |-> FALSE, strayKill |-> FALSE, leaked |-> FALSE, selfExit |-> FALSE,
                startFailed |-> FALSE, slow |-> 0, stopped |-> FALSE]
    BY DEF FirmwareInit
  <2>2. fate \in [terminated : BOOLEAN, strayKill : BOOLEAN, leaked : BOOLEAN, selfExit : BOOLEAN,
                  startFailed : BOOLEAN, slow : 0..2, stopped : BOOLEAN]
    BY <2>1
  <2>3. running \in BOOLEAN /\ stopAsked \in BOOLEAN /\ joinable \in BOOLEAN
    BY DEF FirmwareInit
  <2> QED  BY <2>2, <2>3 DEF FirmwareInit, FirmwareTypes
<1>2. ReapInv  BY DEF FirmwareInit, ReapInv
<1>3. ThreadInv  BY DEF FirmwareInit, ThreadInv
<1>4. BlameInv  BY DEF FirmwareInit, BlameInv
<1> QED  BY <1>1, <1>2, <1>3, <1>4 DEF FirmwareInv

LEMMA StartKept == ASSUME FirmwareInv, NEW rpc \in BOOLEAN, NEW pipes \in BOOLEAN, NEW forked \in BOOLEAN, forked => pipes, Start(rpc, pipes, forked) PROVE FirmwareInv'
<1>1. FirmwareTypes'
  <2>1. fate' = [terminated |-> fate.terminated, strayKill |-> fate.strayKill,
               leaked |-> fate.leaked \/ (descriptors \ {"client"} # {}), selfExit |-> fate.selfExit,
               startFailed |-> fate.startFailed \/ ~forked, slow |-> fate.slow, stopped |-> FALSE]
    BY DEF FirmwareInv, FirmwareTypes, Alive, Start, Opened
  <2>2. fate' \in [terminated : BOOLEAN, strayKill : BOOLEAN, leaked : BOOLEAN, selfExit : BOOLEAN,
                   startFailed : BOOLEAN, slow : 0..2, stopped : BOOLEAN]
    BY <2>1 DEF FirmwareInv, FirmwareTypes
  <2>3. running' \in BOOLEAN /\ stopAsked' \in BOOLEAN /\ joinable' \in BOOLEAN
    <3>1. CASE forked  BY <3>1 DEF FirmwareInv, FirmwareTypes, Start
    <3>2. CASE ~forked  BY <3>2 DEF FirmwareInv, FirmwareTypes, Start
    <3> QED  BY <3>1, <3>2
  <2>4. monitor' = monitor /\ child' \in {child, "running"}
        /\ owner' \in {owner, [at |-> "monitor", call |-> "start"]}
    BY DEF Start
  <2> QED  BY <2>2, <2>3, <2>4 DEF FirmwareInv, FirmwareTypes
<1>2. ReapInv'  BY DEF FirmwareInv, FirmwareTypes, ReapInv, ThreadInv, Alive, Start, Opened
<1>3. ThreadInv'  BY DEF FirmwareInv, FirmwareTypes, ReapInv, ThreadInv, Alive, Start, Opened
<1>4. BlameInv'  BY DEF FirmwareInv, FirmwareTypes, ReapInv, ThreadInv, BlameInv, Alive, Start, Opened
<1> QED  BY <1>1, <1>2, <1>3, <1>4 DEF FirmwareInv

LEMMA StartMonitorKept == ASSUME FirmwareInv, StartMonitor PROVE FirmwareInv'
<1>1. FirmwareTypes'  BY DEF FirmwareInv, FirmwareTypes, Alive, StartMonitor
<1>2. ReapInv'  BY DEF FirmwareInv, FirmwareTypes, ReapInv, ThreadInv, Alive, StartMonitor
<1>3. ThreadInv'  BY DEF FirmwareInv, FirmwareTypes, ReapInv, ThreadInv, Alive, StartMonitor
<1>4. BlameInv'  BY DEF FirmwareInv, FirmwareTypes, ReapInv, ThreadInv, BlameInv, Alive, StartMonitor
<1> QED  BY <1>1, <1>2, <1>3, <1>4 DEF FirmwareInv

LEMMA StopKept == ASSUME FirmwareInv, NEW call \in {"stop", "destroy"}, Stop(call) PROVE FirmwareInv'
<1>1. FirmwareTypes'  BY DEF FirmwareInv, FirmwareTypes, Alive, Stop
<1>2. ReapInv'  BY DEF FirmwareInv, FirmwareTypes, ReapInv, ThreadInv, Alive, Stop
<1>3. ThreadInv'  BY DEF FirmwareInv, FirmwareTypes, ReapInv, ThreadInv, Alive, Stop
<1>4. BlameInv'  BY DEF FirmwareInv, FirmwareTypes, ReapInv, ThreadInv, BlameInv, Alive, Stop
<1> QED  BY <1>1, <1>2, <1>3, <1>4 DEF FirmwareInv

LEMMA DestroyIdleKept == ASSUME FirmwareInv, DestroyIdle PROVE FirmwareInv'
<1>1. FirmwareTypes'  BY DEF FirmwareInv, FirmwareTypes, Alive, DestroyIdle
<1>2. ReapInv'  BY DEF FirmwareInv, FirmwareTypes, ReapInv, ThreadInv, Alive, DestroyIdle
<1>3. ThreadInv'  BY DEF FirmwareInv, FirmwareTypes, ReapInv, ThreadInv, Alive, DestroyIdle
<1>4. BlameInv'  BY DEF FirmwareInv, FirmwareTypes, ReapInv, ThreadInv, BlameInv, Alive, DestroyIdle
<1> QED  BY <1>1, <1>2, <1>3, <1>4 DEF FirmwareInv

LEMMA TerminateKept == ASSUME FirmwareInv, Terminate PROVE FirmwareInv'
<1>1. FirmwareTypes'  BY DEF FirmwareInv, FirmwareTypes, Alive, Terminate, Kill, SignalTo
<1>2. ReapInv'  BY DEF FirmwareInv, FirmwareTypes, ReapInv, ThreadInv, Alive, Terminate, Kill, SignalTo
<1>3. ThreadInv'  BY DEF FirmwareInv, FirmwareTypes, ReapInv, ThreadInv, Alive, Terminate, Kill, SignalTo
<1>4. BlameInv'  BY DEF FirmwareInv, FirmwareTypes, ReapInv, ThreadInv, BlameInv, Alive, Terminate, Kill, SignalTo
<1> QED  BY <1>1, <1>2, <1>3, <1>4 DEF FirmwareInv

LEMMA ForceKillKept == ASSUME FirmwareInv, ForceKill PROVE FirmwareInv'
<1>1. FirmwareTypes'  BY DEF FirmwareInv, FirmwareTypes, Alive, ForceKill, Kill, SignalTo
<1>2. ReapInv'  BY DEF FirmwareInv, FirmwareTypes, ReapInv, ThreadInv, Alive, ForceKill, Kill, SignalTo
<1>3. ThreadInv'  BY DEF FirmwareInv, FirmwareTypes, ReapInv, ThreadInv, Alive, ForceKill, Kill, SignalTo
<1>4. BlameInv'  BY DEF FirmwareInv, FirmwareTypes, ReapInv, ThreadInv, BlameInv, Alive, ForceKill, Kill, SignalTo
<1> QED  BY <1>1, <1>2, <1>3, <1>4 DEF FirmwareInv

LEMMA WaitForExitKept == ASSUME FirmwareInv, WaitForExit PROVE FirmwareInv'
<1>1. FirmwareTypes'  BY DEF FirmwareInv, FirmwareTypes, Alive, WaitForExit, Waiting
<1>2. ReapInv'  BY DEF FirmwareInv, FirmwareTypes, ReapInv, ThreadInv, Alive, WaitForExit, Waiting
<1>3. ThreadInv'  BY DEF FirmwareInv, FirmwareTypes, ReapInv, ThreadInv, Alive, WaitForExit, Waiting
<1>4. BlameInv'  BY DEF FirmwareInv, FirmwareTypes, ReapInv, ThreadInv, BlameInv, Alive, WaitForExit, Waiting
<1> QED  BY <1>1, <1>2, <1>3, <1>4 DEF FirmwareInv

LEMMA WaitTimesOutKept == ASSUME FirmwareInv, WaitTimesOut PROVE FirmwareInv'
<1>1. FirmwareTypes'  BY DEF FirmwareInv, FirmwareTypes, Alive, WaitTimesOut, Waiting
<1>2. ReapInv'  BY DEF FirmwareInv, FirmwareTypes, ReapInv, ThreadInv, Alive, WaitTimesOut, Waiting
<1>3. ThreadInv'  BY DEF FirmwareInv, FirmwareTypes, ReapInv, ThreadInv, Alive, WaitTimesOut, Waiting
<1>4. BlameInv'  BY DEF FirmwareInv, FirmwareTypes, ReapInv, ThreadInv, BlameInv, Alive, WaitTimesOut, Waiting
<1> QED  BY <1>1, <1>2, <1>3, <1>4 DEF FirmwareInv

LEMMA JoinKept == ASSUME FirmwareInv, Join PROVE FirmwareInv'
<1>1. FirmwareTypes'  BY DEF FirmwareInv, FirmwareTypes, Alive, Join
<1>2. ReapInv'  BY DEF FirmwareInv, FirmwareTypes, ReapInv, ThreadInv, Alive, Join
<1>3. ThreadInv'  BY DEF FirmwareInv, FirmwareTypes, ReapInv, ThreadInv, Alive, Join
<1>4. BlameInv'  BY DEF FirmwareInv, FirmwareTypes, ReapInv, ThreadInv, BlameInv, Alive, Join
<1> QED  BY <1>1, <1>2, <1>3, <1>4 DEF FirmwareInv

LEMMA CloseKept == ASSUME FirmwareInv, Close PROVE FirmwareInv'
<1>1. FirmwareTypes'  BY DEF FirmwareInv, FirmwareTypes, Alive, Close
<1>2. ReapInv'  BY DEF FirmwareInv, FirmwareTypes, ReapInv, ThreadInv, Alive, Close
<1>3. ThreadInv'  BY DEF FirmwareInv, FirmwareTypes, ReapInv, ThreadInv, Alive, Close
<1>4. BlameInv'  BY DEF FirmwareInv, FirmwareTypes, ReapInv, ThreadInv, BlameInv, Alive, Close
<1> QED  BY <1>1, <1>2, <1>3, <1>4 DEF FirmwareInv

LEMMA DestroyMembersKept == ASSUME FirmwareInv, DestroyMembers PROVE FirmwareInv'
<1>1. FirmwareTypes'  BY DEF FirmwareInv, FirmwareTypes, Alive, DestroyMembers
<1>2. ReapInv'  BY DEF FirmwareInv, FirmwareTypes, ReapInv, ThreadInv, Alive, DestroyMembers
<1>3. ThreadInv'  BY DEF FirmwareInv, FirmwareTypes, ReapInv, ThreadInv, Alive, DestroyMembers
<1>4. BlameInv'  BY DEF FirmwareInv, FirmwareTypes, ReapInv, ThreadInv, BlameInv, Alive, DestroyMembers
<1> QED  BY <1>1, <1>2, <1>3, <1>4 DEF FirmwareInv

LEMMA MonitorLoopKept == ASSUME FirmwareInv, MonitorLoop PROVE FirmwareInv'
<1>1. FirmwareTypes'  BY DEF FirmwareInv, FirmwareTypes, Alive, MonitorLoop, GoesOn
<1>2. ReapInv'  BY DEF FirmwareInv, FirmwareTypes, ReapInv, ThreadInv, Alive, MonitorLoop, GoesOn
<1>3. ThreadInv'  BY DEF FirmwareInv, FirmwareTypes, ReapInv, ThreadInv, Alive, MonitorLoop, GoesOn
<1>4. BlameInv'  BY DEF FirmwareInv, FirmwareTypes, ReapInv, ThreadInv, BlameInv, Alive, MonitorLoop, GoesOn
<1> QED  BY <1>1, <1>2, <1>3, <1>4 DEF FirmwareInv

LEMMA MonitorReapsKept == ASSUME FirmwareInv, MonitorReaps PROVE FirmwareInv'
<1>1. FirmwareTypes'  BY DEF FirmwareInv, FirmwareTypes, Alive, MonitorReaps
<1>2. ReapInv'  BY DEF FirmwareInv, FirmwareTypes, ReapInv, ThreadInv, Alive, MonitorReaps
<1>3. ThreadInv'  BY DEF FirmwareInv, FirmwareTypes, ReapInv, ThreadInv, Alive, MonitorReaps
<1>4. BlameInv'  BY DEF FirmwareInv, FirmwareTypes, ReapInv, ThreadInv, BlameInv, Alive, MonitorReaps
<1> QED  BY <1>1, <1>2, <1>3, <1>4 DEF FirmwareInv

LEMMA MonitorStoresKept == ASSUME FirmwareInv, MonitorStores PROVE FirmwareInv'
<1>1. FirmwareTypes'
  <2>1. running' \in BOOLEAN  BY DEF MonitorStores
  <2> QED  BY <2>1 DEF FirmwareInv, FirmwareTypes, Alive, MonitorStores
<1>2. ReapInv'  BY DEF FirmwareInv, FirmwareTypes, ReapInv, ThreadInv, Alive, MonitorStores
<1>3. ThreadInv'  BY DEF FirmwareInv, FirmwareTypes, ReapInv, ThreadInv, Alive, MonitorStores
<1>4. BlameInv'  BY DEF FirmwareInv, FirmwareTypes, ReapInv, ThreadInv, BlameInv, Alive, MonitorStores
<1> QED  BY <1>1, <1>2, <1>3, <1>4 DEF FirmwareInv

LEMMA MonitorReadsKept == ASSUME FirmwareInv, NEW connects \in BOOLEAN, MonitorReads(connects) PROVE FirmwareInv'
<1>1. FirmwareTypes'  BY DEF FirmwareInv, FirmwareTypes, Alive, MonitorReads
<1>2. ReapInv'  BY DEF FirmwareInv, FirmwareTypes, ReapInv, ThreadInv, Alive, MonitorReads
<1>3. ThreadInv'  BY DEF FirmwareInv, FirmwareTypes, ReapInv, ThreadInv, Alive, MonitorReads
<1>4. BlameInv'  BY DEF FirmwareInv, FirmwareTypes, ReapInv, ThreadInv, BlameInv, Alive, MonitorReads
<1> QED  BY <1>1, <1>2, <1>3, <1>4 DEF FirmwareInv

LEMMA ChildExitsKept == ASSUME FirmwareInv, ChildExits PROVE FirmwareInv'
<1>1. FirmwareTypes'
  <2>1. fate' = [terminated |-> fate.terminated, strayKill |-> fate.strayKill, leaked |-> fate.leaked,
               selfExit |-> fate.selfExit \/ child = "running",
               startFailed |-> fate.startFailed, slow |-> fate.slow, stopped |-> fate.stopped]
    BY DEF FirmwareInv, FirmwareTypes, Alive, ChildExits
  <2>2. fate' \in [terminated : BOOLEAN, strayKill : BOOLEAN, leaked : BOOLEAN, selfExit : BOOLEAN,
                   startFailed : BOOLEAN, slow : 0..2, stopped : BOOLEAN]
    BY <2>1 DEF FirmwareInv, FirmwareTypes
  <2> QED  BY <2>2 DEF FirmwareInv, FirmwareTypes, Alive, ChildExits
<1>2. ReapInv'  BY DEF FirmwareInv, FirmwareTypes, ReapInv, ThreadInv, Alive, ChildExits
<1>3. ThreadInv'  BY DEF FirmwareInv, FirmwareTypes, ReapInv, ThreadInv, Alive, ChildExits
<1>4. BlameInv'  BY DEF FirmwareInv, FirmwareTypes, ReapInv, ThreadInv, BlameInv, Alive, ChildExits
<1> QED  BY <1>1, <1>2, <1>3, <1>4 DEF FirmwareInv

LEMMA FirmwareKept == FirmwareInv /\ [FirmwareNext]_firmwareVars => FirmwareInv'
<1> SUFFICES ASSUME FirmwareInv, [FirmwareNext]_firmwareVars PROVE FirmwareInv'
  OBVIOUS
<1>1. CASE UNCHANGED firmwareVars
  BY <1>1 DEF firmwareVars, FirmwareInv, FirmwareTypes, ReapInv, ThreadInv, BlameInv
<1>2. CASE \E rpc, pipes, forked \in BOOLEAN : (forked => pipes) /\ Start(rpc, pipes, forked)
  BY <1>2, StartKept
<1>3. CASE (\E call \in {"stop", "destroy"} : Stop(call)) \/ DestroyIdle
  BY <1>3, StopKept, DestroyIdleKept
<1>4. CASE OwnerStep
  BY <1>4, StartMonitorKept, TerminateKept, ForceKillKept, WaitForExitKept, WaitTimesOutKept,
     JoinKept, CloseKept, DestroyMembersKept DEF OwnerStep
<1>5. CASE MonitorStep
  BY <1>5, MonitorLoopKept, MonitorReapsKept, MonitorStoresKept, MonitorReadsKept DEF MonitorStep
<1>6. CASE ChildExits
  BY <1>6, ChildExitsKept
<1> QED  BY <1>1, <1>2, <1>3, <1>4, <1>5, <1>6 DEF FirmwareNext

\* The inductive invariant of the firmware process: whoever reaps the child, the thread, the
\* descriptors and the fate of the object stay in step with running_.
THEOREM FirmwareInvariant == FirmwareSpec => []FirmwareInv
<1>1. FirmwareInv /\ [FirmwareNext]_firmwareVars => FirmwareInv'  BY FirmwareKept
<1>2. FirmwareInit => FirmwareInv  BY FirmwareStarts
<1> QED  BY <1>1, <1>2, PTL DEF FirmwareSpec

\* For any number of start() calls, stop() leaves no thread, no descriptor and no child, unless
\* SIGKILL took too long; and only a firmware that exits by itself can end the program.
THEOREM FirmwareAlwaysReleased == FirmwareSpec => []FirmwareReleased
<1>1. FirmwareInv => FirmwareReleased
  BY DEF FirmwareInv, FirmwareTypes, ReapInv, ThreadInv, BlameInv, FirmwareReleased
<1> QED  BY <1>1, FirmwareInvariant, PTL

----------------------------------------------------------------------------
(* HostApp: frames in order, nothing left over, answers of their own.      *)

Slots == 0..HostRing-1

\* How far a position is ahead of another.
Ahead(p, r) == (p - r) % HostRing

Polls == [by : {"nobody", "user", "thread"}, at : {"idle", "loop", "poll", "copied", "loaded"},
          count : Int, frame : Int, r : Slots]

HostTypes ==
  /\ host \in [connected : BOOLEAN, control : BOOLEAN, stream : BOOLEAN, receiving : BOOLEAN,
               stopAsked : BOOLEAN]
  /\ user \in [at : {"idle", "stop", "shutdown", "close", "clear"}, w : Slots]
  /\ poll \in Polls
  /\ ring \in [buffer : [Slots -> Int], w : Slots, r : Slots]
  /\ arrivals \in Nat /\ store \in BOOLEAN /\ cleared \in BOOLEAN
  /\ seen \in [latest : Int, again : BOOLEAN]

\* Who may be receiving, and what of the connection is open.
LifeInv ==
  /\ poll.by = "nobody" => poll.at = "idle"
  /\ poll.by = "thread" => host.receiving
  /\ poll.by = "user" => user.at = "idle" /\ host.connected
  /\ host.receiving => host.connected
  /\ user.at \in {"stop", "shutdown"} => host.receiving
  /\ user.at = "close" => ~host.receiving
  /\ ~host.connected => ~host.control /\ ~host.stream

\* The answers on the connection are late ones, after a time-out.
AnswerInv ==
  /\ command.sent \in Nat /\ command.answered \in 0..command.sent
  /\ command.sent = 0 => command.got = 0
  /\ ~command.timedOut => pending = <<>>
  /\ command.answered = command.sent /\ ~command.timedOut => command.got = command.answered
  /\ DOMAIN command = {"sent", "answered", "got", "timedOut"}

\* From r to w a buffer holds rising numbers above low and up to high.
Rising(b, w, r, low, high) ==
  \A p \in Slots : Ahead(p, r) < Ahead(w, r) =>
    /\ low < b[p] /\ b[p] <= high
    /\ \A q \in Slots : Ahead(p, r) < Ahead(q, r) /\ Ahead(q, r) < Ahead(w, r)
                           => b[p] < b[q]

\* The latest frame that is in the ring or has been.
Latest == IF store THEN arrivals - 1 ELSE arrivals

\* Unless resetStats() fell into a read: the ring holds rising numbers the callback has not seen,
\* and what has been loaded of a position or copied of a frame still holds.
OrderInv ==
  ~cleared =>
    /\ ~seen.again /\ seen.latest <= Latest
    /\ Rising(ring.buffer, ring.w, ring.r, seen.latest, Latest)
    /\ store => ring.buffer[ring.w] = arrivals /\ NextSlot(ring.w) # ring.r
    /\ poll.at \in {"copied", "loaded"} => ring.r # ring.w /\ poll.frame = ring.buffer[ring.r]
    /\ poll.at = "loaded" => poll.r = ring.r
    /\ user.at = "clear" => /\ poll.at \notin {"copied", "loaded"}
                            /\ Ahead(user.w, ring.r) <= Ahead(ring.w, ring.r)

HostInv == HostTypes /\ LifeInv /\ AnswerInv /\ OrderInv

LEMMA SlotNext ==
  ASSUME NEW p \in Slots
  PROVE  NextSlot(p) = (IF p = HostRing - 1 THEN 0 ELSE p + 1) /\ NextSlot(p) \in Slots
<1>1. HostRing \in Nat \ {0} /\ p \in 0 .. HostRing - 1
  BY HostAssumption DEF Slots
<1> QED BY <1>1, ModNext DEF NextSlot, Slots

LEMMA SlotApart ==
  ASSUME NEW a \in Slots, NEW b \in Slots
  PROVE  /\ Ahead(a, b) = IF a >= b THEN a - b ELSE a - b + HostRing
         /\ Ahead(a, b) \in Nat
<1>1. HostRing \in Nat \ {0} /\ a \in 0 .. HostRing - 1 /\ b \in 0 .. HostRing - 1
  BY HostAssumption DEF Slots
<1>2. Ahead(a, b) = IF a >= b THEN a - b ELSE a - b + HostRing
  BY <1>1, ModApart DEF Ahead
<1> QED BY <1>1, <1>2

LEMMA RisingNone ==
  ASSUME NEW b, NEW w \in Slots, NEW low, NEW high PROVE Rising(b, w, w, low, high)
<1>1. HostRing \in Nat \ {0} /\ Ahead(w, w) = 0
  BY SlotApart, HostAssumption DEF Slots
<1>2. ASSUME NEW p \in Slots PROVE ~Ahead(p, w) < Ahead(w, w)
  <2>1. Ahead(p, w) = IF p >= w THEN p - w ELSE p - w + HostRing
    BY SlotApart
  <2> QED BY <1>1, <2>1 DEF Slots
<1> QED BY <1>2 DEF Rising

\* A frame is stored beyond the write position; the position follows.
LEMMA RisingStored ==
  ASSUME NEW b \in [Slots -> Int], NEW w \in Slots, NEW r \in Slots, NEW low \in Int, NEW high \in Int,
         NEW x \in Int, Rising(b, w, r, low, high)
  PROVE  Rising([b EXCEPT ![w] = x], w, r, low, high)
<1> DEFINE c == [b EXCEPT ![w] = x]
<1>1. \A p \in Slots : Ahead(p, r) < Ahead(w, r) => c[p] = b[p]
  <2> TAKE p \in Slots
  <2>1. p = w => Ahead(p, r) = Ahead(w, r) /\ Ahead(w, r) \in Int
    BY SlotApart, HostAssumption DEF Slots
  <2> QED BY <2>1
<1> HIDE DEF c
<1>2. Rising(c, w, r, low, high)
  BY <1>1 DEF Rising
<1> QED BY <1>2 DEF c

LEMMA RisingGrows ==
  ASSUME NEW b \in [Slots -> Int], NEW w \in Slots, NEW r \in Slots, NEW low \in Int, NEW high \in Int,
         Rising(b, w, r, low, high), NextSlot(w) # r, b[w] = high + 1, low <= high
  PROVE  Rising(b, NextSlot(w), r, low, high + 1)
<1> DEFINE v == NextSlot(w)
<1>1. HostRing \in Nat \ {0} /\ v \in Slots /\ v = IF w = HostRing - 1 THEN 0 ELSE w + 1
  BY HostAssumption, SlotNext
<1> HIDE DEF v
<1>2. Ahead(v, r) = Ahead(w, r) + 1 /\ Ahead(w, r) \in Nat
  <2>1. /\ Ahead(w, r) = IF w >= r THEN w - r ELSE w - r + HostRing
        /\ Ahead(v, r) = IF v >= r THEN v - r ELSE v - r + HostRing
    BY <1>1, SlotApart
  <2> QED BY <1>1, <2>1 DEF Slots, v
<1>3. \A p \in Slots : Ahead(p, r) \in Nat /\ (Ahead(p, r) = Ahead(w, r) => p = w)
  <2> TAKE p \in Slots
  <2>1. /\ Ahead(w, r) = IF w >= r THEN w - r ELSE w - r + HostRing
        /\ Ahead(p, r) = IF p >= r THEN p - r ELSE p - r + HostRing
    BY SlotApart
  <2> QED BY <1>1, <2>1 DEF Slots
<1>4. ASSUME NEW p \in Slots, Ahead(p, r) < Ahead(v, r)
      PROVE  /\ low < b[p] /\ b[p] <= high + 1
             /\ \A q \in Slots : Ahead(p, r) < Ahead(q, r) /\ Ahead(q, r) < Ahead(v, r)
                                   => b[p] < b[q]
  <2>1. CASE p = w
    BY <1>2, <1>3, <1>4, <2>1
  <2>2. CASE p # w
    <3>1. Ahead(p, r) < Ahead(w, r)
      BY <1>2, <1>3, <1>4, <2>2
    <3>2. low < b[p] /\ b[p] <= high /\ b[p] \in Int
      BY <3>1 DEF Rising
    <3>3. ASSUME NEW q \in Slots, Ahead(p, r) < Ahead(q, r), Ahead(q, r) < Ahead(v, r)
          PROVE  b[p] < b[q]
      <4>1. CASE q = w
        BY <3>2, <4>1
      <4>2. CASE q # w
        <5>1. Ahead(q, r) < Ahead(w, r)
          BY <1>2, <1>3, <3>3, <4>2
        <5> QED BY <3>1, <3>3, <5>1 DEF Rising
      <4> QED BY <4>1, <4>2
    <3> QED BY <3>2, <3>3
  <2> QED BY <2>1, <2>2
<1>5. Rising(b, v, r, low, high + 1)
  BY <1>4 DEF Rising
<1> QED BY <1>5 DEF v

\* The reading position moves on, to the next or anywhere up to the write position.
LEMMA RisingRead ==
  ASSUME NEW b \in [Slots -> Int], NEW w \in Slots, NEW r \in Slots, NEW low \in Int, NEW high \in Int,
         Rising(b, w, r, low, high), r # w
  PROVE  /\ low < b[r] /\ b[r] <= high
         /\ Rising(b, w, NextSlot(r), b[r], high)
         /\ NextSlot(w) # r => NextSlot(w) # NextSlot(r)
<1> DEFINE n == NextSlot(r)
<1>1. HostRing \in Nat \ {0} /\ n \in Slots /\ n = IF r = HostRing - 1 THEN 0 ELSE r + 1
  BY HostAssumption, SlotNext
<1> HIDE DEF n
<1>2. /\ Ahead(r, r) = IF r >= r THEN r - r ELSE r - r + HostRing
      /\ Ahead(w, r) = IF w >= r THEN w - r ELSE w - r + HostRing
      /\ Ahead(w, n) = IF w >= n THEN w - n ELSE w - n + HostRing
  BY <1>1, SlotApart
<1>3. Ahead(r, r) = 0 /\ Ahead(w, r) > 0
  BY <1>1, <1>2 DEF Slots
<1>4. low < b[r] /\ b[r] <= high
  BY <1>3 DEF Rising
<1>5. \A p \in Slots : Ahead(p, n) < Ahead(w, n)
        => /\ Ahead(p, r) = Ahead(p, n) + 1 /\ Ahead(p, n) \in Nat
           /\ Ahead(p, r) < Ahead(w, r)
  <2> TAKE p \in Slots
  <2>1. /\ Ahead(p, r) = IF p >= r THEN p - r ELSE p - r + HostRing
        /\ Ahead(p, n) = IF p >= n THEN p - n ELSE p - n + HostRing
    BY <1>1, SlotApart
  <2> SUFFICES ASSUME Ahead(p, n) < Ahead(w, n)
               PROVE  /\ Ahead(p, r) = Ahead(p, n) + 1 /\ Ahead(p, n) \in Nat
                      /\ Ahead(p, r) < Ahead(w, r)
    OBVIOUS
  <2>2. /\ HostRing \in Int /\ p \in Int /\ w \in Int /\ r \in Int /\ n \in Int
        /\ 0 <= p /\ p < HostRing /\ 0 <= w /\ w < HostRing /\ 0 <= r /\ r < HostRing
    BY <1>1 DEF Slots
  <2>3. CASE n <= w
    <3>1. Ahead(w, n) = w - n /\ Ahead(p, n) = p - n /\ p >= n
      BY <1>1, <1>2, <2>1, <2>2, <2>3
    <3>2. CASE n = 0
      BY <1>1, <1>2, <2>1, <2>2, <3>1, <3>2
    <3>3. CASE n = r + 1
      BY <1>1, <1>2, <2>1, <2>2, <2>3, <3>1, <3>3
    <3> QED BY <1>1, <3>2, <3>3
  <2>4. CASE w < n
    <3>1. Ahead(w, n) = w - n + HostRing /\ n = r + 1 /\ Ahead(w, r) = w - r + HostRing
      BY <1>1, <1>2, <2>2, <2>4
    <3>2. CASE p >= n
      BY <2>1, <2>2, <3>1, <3>2
    <3>3. CASE p < n
      <4>1. p < w
        BY <2>1, <2>2, <3>1, <3>3
      <4> QED BY <2>1, <2>2, <2>4, <3>1, <3>3, <4>1
    <3> QED BY <2>2, <3>2, <3>3
  <2> QED BY <2>2, <2>3, <2>4
<1>6. ASSUME NEW p \in Slots, Ahead(p, n) < Ahead(w, n)
      PROVE  /\ b[r] < b[p] /\ b[p] <= high
             /\ \A q \in Slots : Ahead(p, n) < Ahead(q, n) /\ Ahead(q, n) < Ahead(w, n)
                                   => b[p] < b[q]
  <2>1. /\ Ahead(p, r) = Ahead(p, n) + 1 /\ Ahead(p, n) \in Nat
        /\ Ahead(p, r) < Ahead(w, r)
    BY <1>5, <1>6
  <2>2. b[r] < b[p] /\ b[p] <= high
    <3>1. Ahead(r, r) < Ahead(p, r)
      BY <1>3, <2>1
    <3> QED BY <1>3, <2>1, <3>1 DEF Rising
  <2>3. ASSUME NEW q \in Slots, Ahead(p, n) < Ahead(q, n), Ahead(q, n) < Ahead(w, n)
        PROVE  b[p] < b[q]
    <3>1. /\ Ahead(q, r) = Ahead(q, n) + 1 /\ Ahead(q, n) \in Nat
          /\ Ahead(q, r) < Ahead(w, r)
      BY <1>5, <2>3
    <3>2. Ahead(p, r) < Ahead(q, r)
      BY <2>1, <2>3, <3>1
    <3> QED BY <2>1, <3>1, <3>2 DEF Rising
  <2> QED BY <2>2, <2>3
<1>7. Rising(b, w, n, b[r], high)
  BY <1>6 DEF Rising
<1>8. NextSlot(w) # n
  <2>1. NextSlot(w) = IF w = HostRing - 1 THEN 0 ELSE w + 1
    BY SlotNext
  <2> QED BY <1>1, <2>1 DEF Slots
<1> QED BY <1>4, <1>7, <1>8 DEF n

LEMMA RisingSkips ==
  ASSUME NEW b \in [Slots -> Int], NEW w \in Slots, NEW r \in Slots, NEW low \in Int, NEW high \in Int,
         NEW u \in Slots, Rising(b, w, r, low, high), Ahead(u, r) <= Ahead(w, r)
  PROVE  /\ Rising(b, w, u, low, high)
         /\ NextSlot(w) # r => NextSlot(w) # u
<1>1. HostRing \in Nat \ {0}
  BY HostAssumption
<1>2. /\ Ahead(u, r) = IF u >= r THEN u - r ELSE u - r + HostRing
      /\ Ahead(w, r) = IF w >= r THEN w - r ELSE w - r + HostRing
      /\ Ahead(w, u) = IF w >= u THEN w - u ELSE w - u + HostRing
  BY SlotApart
<1>3. \A p \in Slots : Ahead(p, u) < Ahead(w, u)
        => /\ Ahead(p, r) = Ahead(p, u) + Ahead(u, r)
           /\ Ahead(p, u) \in Nat /\ Ahead(u, r) \in Nat
           /\ Ahead(p, r) < Ahead(w, r)
  <2> TAKE p \in Slots
  <2>1. /\ Ahead(p, r) = IF p >= r THEN p - r ELSE p - r + HostRing
        /\ Ahead(p, u) = IF p >= u THEN p - u ELSE p - u + HostRing
    BY SlotApart
  <2> SUFFICES ASSUME Ahead(p, u) < Ahead(w, u)
               PROVE  /\ Ahead(p, r) = Ahead(p, u) + Ahead(u, r)
                      /\ Ahead(p, u) \in Nat /\ Ahead(u, r) \in Nat
                      /\ Ahead(p, r) < Ahead(w, r)
    OBVIOUS
  <2>2. /\ HostRing \in Int /\ p \in Int /\ w \in Int /\ r \in Int /\ u \in Int
        /\ 0 <= p /\ p < HostRing /\ 0 <= w /\ w < HostRing /\ 0 <= r /\ r < HostRing
        /\ 0 <= u /\ u < HostRing
    BY <1>1 DEF Slots
  <2>3. CASE w >= r
    BY <1>1, <1>2, <2>1, <2>2, <2>3
  <2>4. CASE w < r
    <3>1. CASE u >= r
      BY <1>2, <2>1, <2>2, <2>4, <3>1
    <3>2. CASE u < r
      BY <1>2, <2>1, <2>2, <2>4, <3>2
    <3> QED BY <2>2, <3>1, <3>2
  <2> QED BY <2>2, <2>3, <2>4
<1>4. ASSUME NEW p \in Slots, Ahead(p, u) < Ahead(w, u)
      PROVE  /\ low < b[p] /\ b[p] <= high
             /\ \A q \in Slots : Ahead(p, u) < Ahead(q, u) /\ Ahead(q, u) < Ahead(w, u)
                                   => b[p] < b[q]
  <2>1. /\ Ahead(p, r) = Ahead(p, u) + Ahead(u, r)
        /\ Ahead(p, u) \in Nat /\ Ahead(u, r) \in Nat
        /\ Ahead(p, r) < Ahead(w, r)
    BY <1>3, <1>4
  <2>2. ASSUME NEW q \in Slots, Ahead(p, u) < Ahead(q, u), Ahead(q, u) < Ahead(w, u)
        PROVE  b[p] < b[q]
    <3>1. /\ Ahead(q, r) = Ahead(q, u) + Ahead(u, r)
          /\ Ahead(q, u) \in Nat /\ Ahead(q, r) < Ahead(w, r)
      BY <1>3, <2>2
    <3>2. Ahead(p, r) < Ahead(q, r)
      BY <2>1, <2>2, <3>1
    <3> QED BY <2>1, <3>1, <3>2 DEF Rising
  <2> QED BY <2>1, <2>2 DEF Rising
<1>5. NextSlot(w) # r => NextSlot(w) # u
  <2>1. NextSlot(w) = IF w = HostRing - 1 THEN 0 ELSE w + 1
    BY SlotNext
  <2> QED BY <1>1, <1>2, <2>1 DEF Slots
<1> QED BY <1>4, <1>5 DEF Rising

LEMMA HostStarts == ASSUME HostInit PROVE HostInv
<1>1. HostRing \in Nat \ {0} /\ 0 \in Slots
  BY HostAssumption DEF Slots
<1>2. HostTypes
  <2>1. ring \in [buffer : [Slots -> Int], w : Slots, r : Slots]
    BY <1>1 DEF HostInit, EmptyRing, Slots
  <2>2. /\ user \in [at : {"idle", "stop", "shutdown", "close", "clear"}, w : Slots]
        /\ poll \in Polls
    BY <1>1 DEF HostInit, NoPoll, Polls
  <2>3. host \in [connected : BOOLEAN, control : BOOLEAN, stream : BOOLEAN, receiving : BOOLEAN,
                  stopAsked : BOOLEAN]
    BY DEF HostInit, Closed
  <2>4. seen \in [latest : Int, again : BOOLEAN]
    BY DEF HostInit
  <2>5. store \in BOOLEAN /\ cleared \in BOOLEAN
    BY DEF HostInit
  <2> QED BY <2>1, <2>2, <2>3, <2>4, <2>5 DEF HostInit, HostTypes
<1>3. LifeInv /\ AnswerInv
  BY DEF HostInit, LifeInv, AnswerInv, NoPoll, Closed
<1>4. OrderInv
  <2>1. Rising(ring.buffer, ring.w, ring.r, seen.latest, Latest)
    BY <1>1, RisingNone DEF HostInit, EmptyRing
  <2> QED BY <2>1 DEF HostInit, OrderInv, Latest, NoPoll
<1> QED BY <1>2, <1>3, <1>4 DEF HostInv

LEMMA HostTypesKept == ASSUME HostTypes, [HostNext]_hostVars PROVE HostTypes'
<1> USE DEF hostVars, dataPlane, controlPlane
<1>0. HostRing \in Nat \ {0} /\ 0 \in Slots
  BY HostAssumption DEF Slots
<1>1. ASSUME NEW up \in BOOLEAN, Initialize(up) PROVE HostTypes'
  <2>1. ring' \in [buffer : [Slots -> Int], w : Slots, r : Slots]
    BY <1>0, <1>1 DEF Initialize, EmptyRing, Slots
  <2>3. store' \in BOOLEAN
    BY <1>1 DEF Initialize
  <2>2. host' \in [connected : BOOLEAN, control : BOOLEAN, stream : BOOLEAN, receiving : BOOLEAN,
                   stopAsked : BOOLEAN]
    BY <1>1 DEF Initialize, HostTypes
  <2> QED BY <1>1, <2>1, <2>2, <2>3 DEF Initialize, HostTypes
<1>2. CASE StartReceivingHost
  <2>1. poll' = [by |-> "thread", at |-> "loop", count |-> 0, frame |-> 0, r |-> 0]
    BY <1>2 DEF StartReceivingHost, NoPoll
  <2>2. poll' \in Polls
    BY <1>0, <2>1 DEF Polls
  <2> QED BY <1>2, <2>2 DEF StartReceivingHost, HostTypes
<1>3. ASSUME NEW then \in {"stop", "shutdown"}, AskThread(then) PROVE HostTypes'
  BY <1>3 DEF AskThread, HostTypes
<1>4. CASE JoinThread
  BY <1>4 DEF JoinThread, HostTypes
<1>5. CASE CloseTransports
  <2>1. host' \in [connected : BOOLEAN, control : BOOLEAN, stream : BOOLEAN, receiving : BOOLEAN,
                   stopAsked : BOOLEAN] /\ store' \in BOOLEAN
    BY <1>5 DEF CloseTransports, Closed
  <2> QED BY <1>5, <2>1 DEF CloseTransports, HostTypes
<1>6. CASE PollBegins
  <2>1. poll' = [by |-> "user", at |-> "poll", count |-> 0, frame |-> 0, r |-> 0]
    BY <1>6 DEF PollBegins, NoPoll
  <2>2. poll' \in Polls
    BY <1>0, <2>1 DEF Polls
  <2> QED BY <1>6, <2>2 DEF PollBegins, HostTypes
<1>7. CASE ResetLoads
  <2>1. cleared' \in BOOLEAN
    BY <1>7 DEF ResetLoads
  <2> QED BY <1>7, <2>1 DEF ResetLoads, HostTypes
<1>8. CASE ResetStores
  BY <1>8 DEF ResetStores, HostTypes
<1>9. CASE LoopAgain
  <2>1. poll' = NoPoll \/ poll' = [poll EXCEPT !.at = "poll", !.count = 0]
    BY <1>9 DEF LoopAgain
  <2>2. poll' \in Polls
    <3>1. NoPoll \in Polls
      BY <1>0 DEF NoPoll, Polls
    <3>2. poll \in Polls
      BY DEF HostTypes
    <3>3. CASE poll' = [poll EXCEPT !.at = "poll", !.count = 0]
      <4>1. poll' = [by |-> poll.by, at |-> "poll", count |-> 0, frame |-> poll.frame, r |-> poll.r]
        BY <3>2, <3>3 DEF Polls
      <4>2. 0 \in Int /\ poll.by \in {"nobody", "user", "thread"} /\ poll.frame \in Int /\ poll.r \in Slots
        BY <3>2 DEF Polls
      <4> QED BY <4>1, <4>2 DEF Polls
    <3> QED BY <2>1, <3>1, <3>3
  <2> QED BY <1>9, <2>2 DEF LoopAgain, HostTypes
<1>10. CASE PollEnds
  <2>1. poll' = NoPoll \/ poll' = [poll EXCEPT !.at = "loop"]
    BY <1>10 DEF PollEnds
  <2>2. poll' \in Polls
    <3>1. NoPoll \in Polls
      BY <1>0 DEF NoPoll, Polls
    <3>2. poll \in Polls
      BY DEF HostTypes
    <3>3. CASE poll' = [poll EXCEPT !.at = "loop"]
      BY <3>2, <3>3 DEF Polls
    <3> QED BY <2>1, <3>1, <3>3
  <2> QED BY <1>10, <2>2 DEF PollEnds, HostTypes
<1>11. CASE PollCopies
  <2>1. cleared' \in BOOLEAN
    BY <1>11 DEF PollCopies
  <2> QED BY <1>11, <2>1 DEF PollCopies, HostTypes, Polls
<1>12. CASE PollLoads
  BY <1>12 DEF PollLoads, HostTypes, Polls
<1>13. CASE PollStores
  <2>1. NextSlot(poll.r) \in Slots
    BY SlotNext DEF HostTypes, Polls
  <2>2. ring' \in [buffer : [Slots -> Int], w : Slots, r : Slots]
    BY <1>13, <2>1 DEF PollStores, HostTypes
  <2>3. seen' \in [latest : Int, again : BOOLEAN]
    <3>1. (seen.again \/ poll.frame <= seen.latest) \in BOOLEAN
      OBVIOUS
    <3> QED BY <1>13, <3>1 DEF PollStores, HostTypes, Polls
  <2>4. poll' \in Polls
    <3>1. poll' = [poll EXCEPT !.at = "poll", !.count = poll.count + 1] /\ poll \in Polls
      BY <1>13 DEF PollStores, HostTypes
    <3>2. poll.count + 1 \in Int
      BY <3>1 DEF Polls
    <3> QED BY <3>1, <3>2 DEF Polls
  <2> QED BY <1>13, <2>2, <2>3, <2>4 DEF PollStores, HostTypes
<1>14. CASE Arrive
  <2>1. arrivals' \in Nat
    BY <1>14 DEF Arrive, HostTypes
  <2>2. ring' = ring \/ ring' = [ring EXCEPT !.buffer[ring.w] = arrivals']
    BY <1>14 DEF Arrive
  <2>3. ring' \in [buffer : [Slots -> Int], w : Slots, r : Slots]
    BY <2>1, <2>2 DEF HostTypes
  <2>4. store' \in BOOLEAN
    BY <1>14 DEF Arrive, HostTypes
  <2> QED BY <1>14, <2>1, <2>3, <2>4 DEF Arrive, HostTypes
<1>15. CASE StoreWrite
  <2>1. NextSlot(ring.w) \in Slots
    BY SlotNext DEF HostTypes
  <2>2. ring' \in [buffer : [Slots -> Int], w : Slots, r : Slots]
    BY <1>15, <2>1 DEF StoreWrite, HostTypes
  <2>3. store' \in BOOLEAN
    BY <1>15 DEF StoreWrite
  <2> QED BY <1>15, <2>2, <2>3 DEF StoreWrite, HostTypes
<1>16. ASSUME NEW outcome \in {"answer", "timeout", "closed"}, Command(outcome) PROVE HostTypes'
  <2>1. host' = host \/ host' = [host EXCEPT !.control = FALSE]
    BY <1>16 DEF Command
  <2> QED BY <1>16, <2>1 DEF Command, HostTypes
<1>17. CASE UNCHANGED hostVars
  BY <1>17 DEF HostTypes
<1> QED BY <1>1, <1>2, <1>3, <1>4, <1>5, <1>6, <1>7, <1>8, <1>9, <1>10, <1>11, <1>12, <1>13, <1>14,
           <1>15, <1>16, <1>17 DEF HostNext

LEMMA LifeKept == ASSUME HostTypes, LifeInv, [HostNext]_hostVars PROVE LifeInv'
<1> USE DEF hostVars, dataPlane, controlPlane, UserIdle
<1>1. ASSUME NEW up \in BOOLEAN, Initialize(up) PROVE LifeInv'
  BY <1>1 DEF Initialize, HostTypes, Polls, LifeInv
<1>2. CASE StartReceivingHost
  BY <1>2 DEF StartReceivingHost, NoPoll, HostTypes, Polls, LifeInv
<1>3. ASSUME NEW then \in {"stop", "shutdown"}, AskThread(then) PROVE LifeInv'
  BY <1>3 DEF AskThread, HostTypes, Polls, LifeInv
<1>4. CASE JoinThread
  BY <1>4 DEF JoinThread, HostTypes, Polls, LifeInv
<1>5. CASE CloseTransports
  BY <1>5 DEF CloseTransports, Closed, HostTypes, Polls, LifeInv
<1>6. CASE PollBegins
  BY <1>6 DEF PollBegins, NoPoll, HostTypes, Polls, LifeInv
<1>7. CASE ResetLoads
  BY <1>7 DEF ResetLoads, HostTypes, Polls, LifeInv
<1>8. CASE ResetStores
  BY <1>8 DEF ResetStores, HostTypes, Polls, LifeInv
<1>9. CASE LoopAgain
  BY <1>9 DEF LoopAgain, NoPoll, HostTypes, Polls, LifeInv
<1>10. CASE PollEnds
  BY <1>10 DEF PollEnds, NoPoll, HostTypes, Polls, LifeInv
<1>11. CASE PollCopies \/ PollLoads \/ PollStores
  BY <1>11 DEF PollCopies, PollLoads, PollStores, HostTypes, Polls, LifeInv
<1>12. CASE Arrive \/ StoreWrite
  BY <1>12 DEF Arrive, StoreWrite, LifeInv
<1>13. ASSUME NEW outcome \in {"answer", "timeout", "closed"}, Command(outcome) PROVE LifeInv'
  <2>1. host' = host \/ host' = [host EXCEPT !.control = FALSE]
    BY <1>13 DEF Command
  <2> QED BY <1>13, <2>1 DEF Command, HostTypes, Polls, LifeInv
<1>14. CASE UNCHANGED hostVars
  BY <1>14 DEF LifeInv
<1> QED BY <1>1, <1>2, <1>3, <1>4, <1>5, <1>6, <1>7, <1>8, <1>9, <1>10, <1>11, <1>12, <1>13, <1>14 DEF HostNext

LEMMA AnswerKept == ASSUME AnswerInv, [HostNext]_hostVars PROVE AnswerInv'
<1> USE DEF hostVars, dataPlane, controlPlane
<1>1. ASSUME NEW up \in BOOLEAN, Initialize(up) PROVE AnswerInv'
  <2>1. command' = [command EXCEPT !.timedOut = FALSE, !.answered = 0] /\ pending' = <<>>
    BY <1>1 DEF Initialize
  <2> QED BY <2>1 DEF AnswerInv
<1>2. ASSUME NEW outcome \in {"answer", "timeout", "closed"}, Command(outcome) PROVE AnswerInv'
  <2> DEFINE n == command.sent + 1
  <2>0. n \in Nat /\ command.sent \in Nat /\ command.answered \in 0..command.sent /\ n > command.sent
    BY DEF AnswerInv
  <2>1. CASE outcome = "answer"
    <3>1. command' = [command EXCEPT !.sent = n, !.answered = n, !.got = Head(Append(pending, n))]
          /\ pending' = Tail(Append(pending, n))
      BY <1>2, <2>1 DEF Command
    <3>2. ~command.timedOut => Head(Append(pending, n)) = n /\ Tail(Append(pending, n)) = <<>>
      BY DEF AnswerInv
    <3> HIDE DEF n
    <3> QED BY <2>0, <3>1, <3>2 DEF AnswerInv
  <2>2. CASE outcome = "timeout"
    <3>1. command' = [command EXCEPT !.sent = n, !.timedOut = TRUE]
      BY <1>2, <2>2 DEF Command
    <3> HIDE DEF n
    <3> QED BY <2>0, <3>1 DEF AnswerInv
  <2>3. CASE outcome = "closed"
    <3>1. command' = [command EXCEPT !.sent = n] /\ pending' = pending
      BY <1>2, <2>3 DEF Command
    <3> HIDE DEF n
    <3> QED BY <2>0, <3>1 DEF AnswerInv
  <2> QED BY <2>1, <2>2, <2>3
<1>3. ASSUME UNCHANGED controlPlane PROVE AnswerInv'
  BY <1>3 DEF AnswerInv
<1> QED BY <1>1, <1>2, <1>3 DEF HostNext, StartReceivingHost, AskThread, JoinThread, CloseTransports, PollBegins,
           ResetLoads, ResetStores, LoopAgain, PollEnds, PollCopies, PollLoads, PollStores, Arrive, StoreWrite

LEMMA OrderKept == ASSUME HostTypes, LifeInv, OrderInv, [HostNext]_hostVars PROVE OrderInv'
<1> USE DEF hostVars, dataPlane, controlPlane, UserIdle
<1>0. HostRing \in Nat \ {0} /\ 0 \in Slots
  BY HostAssumption DEF Slots
<1>t. /\ ring.buffer \in [Slots -> Int] /\ ring.w \in Slots /\ ring.r \in Slots /\ user.w \in Slots
      /\ seen.latest \in Int /\ arrivals \in Nat /\ Latest \in Int
  BY DEF HostTypes, Latest
<1>1. ASSUME NEW up \in BOOLEAN, Initialize(up) PROVE OrderInv'
  <2>1. /\ ring' = EmptyRing /\ store' = FALSE /\ UNCHANGED <<user, poll, arrivals, seen, cleared>>
        /\ user.at = "idle" /\ poll.at = "idle"
    BY <1>1 DEF Initialize, LifeInv, HostTypes, Polls
  <2>2. Rising(ring'.buffer, ring'.w, ring'.r, seen'.latest, Latest')
    BY <1>0, <2>1, RisingNone DEF EmptyRing
  <2>3. Latest' = arrivals /\ Latest <= arrivals
    BY <1>t, <2>1 DEF Latest
  <2> QED BY <1>t, <2>1, <2>2, <2>3 DEF OrderInv
<1>2. ASSUME UNCHANGED <<ring, store, arrivals, seen, cleared>>,
             poll'.at \notin {"copied", "loaded"}, user'.at # "clear"
      PROVE  OrderInv'
  <2>1. Latest' = Latest
    BY <1>2 DEF Latest
  <2> QED BY <1>2, <2>1 DEF OrderInv
<1>3. CASE StartReceivingHost \/ PollBegins
  <2>1. poll'.at \notin {"copied", "loaded"} /\ user'.at # "clear"
        /\ UNCHANGED <<ring, store, arrivals, seen, cleared>>
    BY <1>3 DEF StartReceivingHost, PollBegins, NoPoll
  <2> QED BY <1>2, <2>1
<1>4. ASSUME UNCHANGED <<ring, store, arrivals, seen, cleared, poll>>, user'.at # "clear" PROVE OrderInv'
  <2>1. Latest' = Latest
    BY <1>4 DEF Latest
  <2> QED BY <1>4, <2>1 DEF OrderInv
<1>5. ASSUME NEW then \in {"stop", "shutdown"}, AskThread(then) PROVE OrderInv'
  BY <1>4, <1>5 DEF AskThread, HostTypes
<1>6. CASE JoinThread
  BY <1>4, <1>6 DEF JoinThread, HostTypes
<1>7. CASE CloseTransports
  <2>1. UNCHANGED <<poll, ring, arrivals, seen, cleared>> /\ user'.at = "idle" /\ store' = FALSE
        /\ poll.at \notin {"copied", "loaded"}
    BY <1>7 DEF CloseTransports, LifeInv, HostTypes, Polls
  <2>2. Latest' = arrivals /\ Latest <= arrivals /\ Latest' \in Int
    BY <1>t, <2>1 DEF Latest
  <2>3. Rising(ring.buffer, ring.w, ring.r, seen.latest, Latest) => Rising(ring.buffer, ring.w, ring.r, seen.latest, Latest')
    BY <1>t, <2>2 DEF Rising
  <2> QED BY <1>t, <2>1, <2>2, <2>3 DEF OrderInv
<1>8. CASE ResetLoads
  <2>1. /\ UNCHANGED <<poll, ring, store, arrivals, seen>> /\ user'.at = "clear" /\ user'.w = ring.w
        /\ cleared' = (cleared \/ (poll.by = "thread" /\ poll.at \in {"copied", "loaded"}))
        /\ poll.by # "user"
    BY <1>8 DEF ResetLoads
  <2>2. ~cleared' => ~cleared /\ poll.at \notin {"copied", "loaded"}
    BY <2>1 DEF LifeInv, HostTypes, Polls
  <2>3. Latest' = Latest
    BY <2>1 DEF Latest
  <2>4. Ahead(ring.w, ring.r) \in Nat
    BY <1>t, SlotApart
  <2>5. user'.at = "clear" /\ Ahead(user'.w, ring'.r) <= Ahead(ring'.w, ring'.r)
    BY <2>1, <2>4
  <2> QED BY <2>1, <2>2, <2>3, <2>5 DEF OrderInv
<1>9. CASE ResetStores
  <2>1. /\ ring' = [ring EXCEPT !.r = user.w] /\ user.at = "clear" /\ user'.at = "idle"
        /\ UNCHANGED <<poll, store, arrivals, seen, cleared>>
    BY <1>9 DEF ResetStores, HostTypes
  <2>2. ring'.buffer = ring.buffer /\ ring'.w = ring.w /\ ring'.r = user.w /\ Latest' = Latest
    BY <2>1 DEF HostTypes, Latest
  <2>3. ~cleared => /\ Rising(ring.buffer, ring.w, user.w, seen.latest, Latest)
                    /\ NextSlot(ring.w) # ring.r => NextSlot(ring.w) # user.w
                    /\ poll.at \notin {"copied", "loaded"}
    <3> SUFFICES ASSUME ~cleared
                 PROVE  /\ Rising(ring.buffer, ring.w, user.w, seen.latest, Latest)
                        /\ NextSlot(ring.w) # ring.r => NextSlot(ring.w) # user.w
                        /\ poll.at \notin {"copied", "loaded"}
      OBVIOUS
    <3>1. /\ Rising(ring.buffer, ring.w, ring.r, seen.latest, Latest)
          /\ Ahead(user.w, ring.r) <= Ahead(ring.w, ring.r) /\ poll.at \notin {"copied", "loaded"}
      BY <2>1 DEF OrderInv
    <3> QED BY <1>t, <3>1, RisingSkips
  <2> QED BY <2>1, <2>2, <2>3 DEF OrderInv
<1>10. ASSUME UNCHANGED <<ring, store, arrivals, seen, cleared, user>>, poll'.at \notin {"copied", "loaded"}
       PROVE  OrderInv'
  <2>1. Latest' = Latest
    BY <1>10 DEF Latest
  <2> QED BY <1>10, <2>1 DEF OrderInv
<1>11. CASE LoopAgain \/ PollEnds
  <2>1. UNCHANGED <<ring, store, arrivals, seen, cleared, user>>
    BY <1>11 DEF LoopAgain, PollEnds
  <2>2. poll'.at \in {"idle", "poll", "loop"}
    <3>1. poll' = NoPoll \/ poll' = [poll EXCEPT !.at = "poll", !.count = 0] \/ poll' = [poll EXCEPT !.at = "loop"]
      BY <1>11 DEF LoopAgain, PollEnds
    <3>2. poll \in Polls
      BY DEF HostTypes
    <3>3. CASE poll' = NoPoll
      BY <3>3 DEF NoPoll
    <3>4. CASE poll' = [poll EXCEPT !.at = "poll", !.count = 0]
      <4>1. poll' = [by |-> poll.by, at |-> "poll", count |-> 0, frame |-> poll.frame, r |-> poll.r]
        BY <3>2, <3>4 DEF Polls
      <4> QED BY <4>1
    <3>5. CASE poll' = [poll EXCEPT !.at = "loop"]
      BY <3>2, <3>5 DEF Polls
    <3> QED BY <3>1, <3>3, <3>4, <3>5
  <2> QED BY <1>10, <2>1, <2>2
<1>12. CASE PollCopies
  <2>1. /\ UNCHANGED <<ring, store, arrivals, seen, user>> /\ cleared' = (cleared \/ user.at = "clear")
        /\ poll'.at = "copied" /\ poll'.frame = ring.buffer[ring.r] /\ ring.r # ring.w
    BY <1>12 DEF PollCopies, HostTypes
  <2>2. Latest' = Latest
    BY <2>1 DEF Latest
  <2> QED BY <2>1, <2>2 DEF OrderInv
<1>13. CASE PollLoads
  <2>1. /\ UNCHANGED <<ring, store, arrivals, seen, user, cleared>> /\ poll.at = "copied"
        /\ poll'.at = "loaded" /\ poll'.frame = poll.frame /\ poll'.r = ring.r
    BY <1>13 DEF PollLoads, HostTypes
  <2>2. Latest' = Latest
    BY <2>1 DEF Latest
  <2> QED BY <2>1, <2>2 DEF OrderInv
<1>14. CASE PollStores
  <2>1. /\ UNCHANGED <<store, arrivals, user, cleared>> /\ poll.at = "loaded" /\ poll'.at = "poll"
        /\ ring' = [ring EXCEPT !.r = NextSlot(poll.r)]
        /\ seen' = [latest |-> poll.frame, again |-> seen.again \/ poll.frame <= seen.latest]
    BY <1>14 DEF PollStores, HostTypes
  <2>2. ring'.buffer = ring.buffer /\ ring'.w = ring.w /\ ring'.r = NextSlot(poll.r) /\ Latest' = Latest
        /\ seen'.latest = poll.frame
    BY <2>1 DEF HostTypes, Latest
  <2>3. ASSUME ~cleared PROVE OrderInv'
    <3>1. /\ Rising(ring.buffer, ring.w, ring.r, seen.latest, Latest) /\ ring.r # ring.w /\ poll.r = ring.r
          /\ poll.frame = ring.buffer[ring.r] /\ ~seen.again /\ user.at # "clear"
      BY <2>1, <2>3 DEF OrderInv
    <3>2. /\ seen.latest < poll.frame /\ poll.frame <= Latest
          /\ Rising(ring.buffer, ring.w, NextSlot(ring.r), poll.frame, Latest)
          /\ NextSlot(ring.w) # ring.r => NextSlot(ring.w) # NextSlot(ring.r)
      BY <1>t, <3>1, RisingRead
    <3>3. ~seen'.again
      <4>1. seen'.again = (seen.again \/ poll.frame <= seen.latest) /\ poll.frame \in Int
        BY <2>1 DEF HostTypes, Polls
      <4>2. ~(poll.frame <= seen.latest)
        BY <1>t, <3>2, <4>1
      <4> QED BY <3>1, <4>1, <4>2, Zenon
    <3>4. store' => ring'.buffer[ring'.w] = arrivals' /\ NextSlot(ring'.w) # ring'.r
      BY <2>1, <2>2, <2>3, <3>1, <3>2 DEF OrderInv
    <3> QED BY <2>1, <2>2, <3>1, <3>2, <3>3, <3>4 DEF OrderInv
  <2> QED BY <2>1, <2>3 DEF OrderInv
<1>15. CASE Arrive
  <2>1. CASE RoomInRing
    <3>1. /\ arrivals' = arrivals + 1 /\ ring' = [ring EXCEPT !.buffer[ring.w] = arrivals + 1] /\ store' = TRUE
          /\ store = FALSE /\ UNCHANGED <<user, poll, seen, cleared>> /\ NextSlot(ring.w) # ring.r
      BY <1>15, <2>1 DEF Arrive, RoomInRing, HostTypes
    <3>2. ring'.buffer = [ring.buffer EXCEPT ![ring.w] = arrivals + 1] /\ ring'.w = ring.w /\ ring'.r = ring.r
      BY <3>1 DEF HostTypes
    <3>3. Latest = arrivals /\ Latest' = arrivals
      BY <1>t, <3>1 DEF Latest
    <3>4. ~cleared => Rising(ring'.buffer, ring.w, ring.r, seen.latest, Latest')
      <4>1. arrivals + 1 \in Int
        BY <1>t
      <4>2. ~cleared => Rising(ring.buffer, ring.w, ring.r, seen.latest, Latest)
        BY DEF OrderInv
      <4> QED BY <1>t, <3>2, <3>3, <4>1, <4>2, RisingStored
    <3>5. ring'.buffer[ring.w] = arrivals + 1 /\ (ring.r # ring.w => ring'.buffer[ring.r] = ring.buffer[ring.r])
      BY <1>t, <3>2
    <3> QED BY <3>1, <3>2, <3>3, <3>4, <3>5 DEF OrderInv
  <2>2. CASE ~RoomInRing
    <3>1. /\ arrivals' = arrivals + 1 /\ store = FALSE /\ UNCHANGED <<ring, store, user, poll, seen, cleared>>
      BY <1>15, <2>2 DEF Arrive, HostTypes
    <3>2. Latest = arrivals /\ Latest' = arrivals + 1
      BY <1>t, <3>1 DEF Latest
    <3>3. Rising(ring.buffer, ring.w, ring.r, seen.latest, Latest) => Rising(ring.buffer, ring.w, ring.r, seen.latest, Latest')
      BY <1>t, <3>2 DEF Rising
    <3> QED BY <1>t, <3>1, <3>2, <3>3 DEF OrderInv
  <2> QED BY <2>1, <2>2
<1>16. CASE StoreWrite
  <2>1. /\ store /\ ring' = [ring EXCEPT !.w = NextSlot(ring.w)] /\ store' = FALSE
        /\ UNCHANGED <<user, poll, arrivals, seen, cleared>>
    BY <1>16 DEF StoreWrite
  <2>2. ring'.buffer = ring.buffer /\ ring'.w = NextSlot(ring.w) /\ ring'.r = ring.r
    BY <2>1 DEF HostTypes
  <2>3. Latest' = Latest + 1 /\ Latest' = arrivals
    BY <1>t, <2>1 DEF Latest
  <2>4. ASSUME ~cleared PROVE OrderInv'
    <3>1. /\ Rising(ring.buffer, ring.w, ring.r, seen.latest, Latest) /\ NextSlot(ring.w) # ring.r
          /\ ring.buffer[ring.w] = Latest + 1 /\ seen.latest <= Latest
      BY <2>1, <2>3, <2>4 DEF OrderInv
    <3>2. Rising(ring'.buffer, ring'.w, ring'.r, seen'.latest, Latest')
      BY <1>t, <2>1, <2>2, <2>3, <3>1, RisingGrows
    <3>3. user.at = "clear" => Ahead(user.w, ring'.r) <= Ahead(ring'.w, ring'.r)
      <4>1. user.at = "clear" => Ahead(user.w, ring.r) <= Ahead(ring.w, ring.r)
        BY <2>4 DEF OrderInv
      <4>2. NextSlot(ring.w) = (IF ring.w = HostRing - 1 THEN 0 ELSE ring.w + 1) /\ NextSlot(ring.w) \in Slots
        BY <1>t, SlotNext
      <4>3. Ahead(ring.w, ring.r) = IF ring.w >= ring.r THEN ring.w - ring.r ELSE ring.w - ring.r + HostRing
        BY <1>t, SlotApart
      <4>4. Ahead(NextSlot(ring.w), ring.r) = IF NextSlot(ring.w) >= ring.r THEN NextSlot(ring.w) - ring.r
                                              ELSE NextSlot(ring.w) - ring.r + HostRing
        BY <1>t, <4>2, SlotApart
      <4>5. Ahead(user.w, ring.r) \in Nat
        BY <1>t, SlotApart
      <4>6. Ahead(ring.w, ring.r) \in Nat /\ Ahead(NextSlot(ring.w), ring.r) = Ahead(ring.w, ring.r) + 1
        <5>1. /\ HostRing \in Int /\ ring.w \in Int /\ ring.r \in Int
              /\ 0 <= ring.w /\ ring.w < HostRing /\ 0 <= ring.r /\ ring.r < HostRing
          BY <1>0, <1>t DEF Slots
        <5>2. Ahead(ring.w, ring.r) \in Nat
          BY <1>t, SlotApart
        <5> DEFINE v == NextSlot(ring.w)
        <5>3. v # ring.r /\ v = (IF ring.w = HostRing - 1 THEN 0 ELSE ring.w + 1)
              /\ Ahead(v, ring.r) = IF v >= ring.r THEN v - ring.r ELSE v - ring.r + HostRing
          BY <3>1, <4>2, <4>4
        <5> HIDE DEF v
        <5>4. Ahead(v, ring.r) = Ahead(ring.w, ring.r) + 1
          BY <4>3, <5>1, <5>3
        <5> QED BY <5>2, <5>4 DEF v
      <4> QED BY <2>2, <4>1, <4>5, <4>6
    <3>4. ring.r # ring'.w
      BY <2>2, <3>1
    <3> QED BY <1>t, <2>1, <2>2, <2>3, <2>4, <3>1, <3>2, <3>3, <3>4 DEF OrderInv
  <2> QED BY <2>1, <2>4 DEF OrderInv
<1>17. ASSUME NEW outcome \in {"answer", "timeout", "closed"}, Command(outcome) PROVE OrderInv'
  <2>1. UNCHANGED <<ring, store, arrivals, seen, cleared, poll, user>> /\ user.at = "idle"
    BY <1>17 DEF Command
  <2> QED BY <1>4, <2>1
<1>18. CASE UNCHANGED hostVars
  <2>1. Latest' = Latest
    BY <1>18 DEF Latest
  <2> QED BY <1>18, <2>1 DEF OrderInv
<1> QED BY <1>1, <1>3, <1>5, <1>6, <1>7, <1>8, <1>9, <1>11, <1>12, <1>13, <1>14, <1>15, <1>16, <1>17, <1>18
        DEF HostNext

\* The inductive invariant of the host client: who polls, what is open, and the frames between the
\* ring's positions in their order.
THEOREM HostInvariant == HostSpec => []HostInv
<1>1. HostInit => HostInv
  BY HostStarts
<1>2. HostInv /\ [HostNext]_hostVars => HostInv'
  BY HostTypesKept, LifeKept, AnswerKept, OrderKept DEF HostInv
<1> QED BY <1>1, <1>2, PTL DEF HostSpec

\* For every size of the ring and any calls of the user: frames are seen once and in order unless the ring
\* was cleared, and nothing is left over after a shutdown (host/HostApp.cpp).
THEOREM HostAlwaysSound == HostSpec => []HostSound
<1>1. HostInv => HostSound
  <2> SUFFICES ASSUME HostInv PROVE HostSound
    OBVIOUS
  <2>1. ~cleared => ~seen.again
    BY DEF HostInv, OrderInv
  <2>2. ~host.connected /\ user.at = "idle" => ~host.control /\ ~host.stream /\ poll.by = "nobody"
    BY DEF HostInv, HostTypes, Polls, LifeInv
  <2>3. command.answered = command.sent /\ ~command.timedOut => command.got = command.answered
    BY DEF HostInv, AnswerInv
  <2> QED BY <2>1, <2>2, <2>3 DEF HostSound
<1> QED BY <1>1, HostInvariant, PTL

----------------------------------------------------------------------------
(* Simulation: callbacks, frames and stops.                                *)

SimTypes ==
  /\ simTime \in Nat /\ simRunning \in BOOLEAN /\ workerMade \in BOOLEAN /\ stopLost \in BOOLEAN
  /\ runner \in [by : {"nobody", "main", "worker"}, at : {"idle", "begin", "check", "adc"}, target : Int]
  /\ simOwner \in {"free", "joining", "terminated"} /\ loaded \in BOOLEAN
  /\ nextAdc \in Int /\ adcIndex \in Nat
  /\ sampler \in [next : Int, sequence : Nat, count : Nat, missed : Nat, errors : Nat]
  /\ frame \in [time : Int, sequence : Int, at : Int, previous : Int]

\* The next callback is at most one period after a loaded simulator's time, and past it but in the
\* loop of callbacks itself.
CallbackInv ==
  /\ nextAdc = adcIndex * Period
  /\ loaded /\ adcIndex > 0 => nextAdc <= simTime + Period
  /\ loaded /\ adcIndex > 0 /\ runner.at # "adc" => simTime < nextAdc
  /\ runner.by = "nobody" => runner.at = "idle"
  /\ runner.by = "worker" => workerMade

\* The sampler's next time is that of the next number, past the latest frame's.
SamplerInv ==
  /\ sampler.next = sampler.sequence * Period
  /\ sampler.sequence = sampler.count + sampler.missed
  /\ frame.time < sampler.next
  /\ frame.sequence >= 0 =>
       /\ frame.time = frame.sequence * Period
       /\ frame.at - frame.time \in 0..Period /\ frame.time > frame.previous

\* Who joins has stopped the run, or asked before the run began.
StopInv == simOwner = "joining" /\ (simRunning \/ runner.at = "begin") => stopLost

SimInv == SimTypes /\ CallbackInv /\ SamplerInv /\ StopInv

LEMMA SimStarts == ASSUME SimInit PROVE SimInv
<1>1. Period \in Nat \ {0}
  BY SimulationAssumption
<1>2. SimTypes
  <2>1. simRunning \in BOOLEAN /\ workerMade \in BOOLEAN /\ stopLost \in BOOLEAN /\ loaded \in BOOLEAN
    BY DEF SimInit
  <2>2. /\ runner \in [by : {"nobody", "main", "worker"}, at : {"idle", "begin", "check", "adc"}, target : Int]
        /\ sampler \in [next : Int, sequence : Nat, count : Nat, missed : Nat, errors : Nat]
        /\ frame \in [time : Int, sequence : Int, at : Int, previous : Int]
    BY DEF SimInit, Nobody, NewSampler, NoFrameYet
  <2> QED BY <2>1, <2>2 DEF SimInit, SimTypes
<1> QED BY <1>1, <1>2 DEF SimInit, SimInv, CallbackInv, SamplerInv, StopInv, Nobody, NewSampler, NoFrameYet

\* The simulator's time never goes back but in initialize().
LEMMA StepForward ==
  ASSUME SimTypes, StepSim
  PROVE  simTime' \in Nat /\ simTime' >= simTime
<1>1. CASE loaded /\ runner.target > simTime
  <2>1. PICK t \in simTime..Smallest(runner.target, FinalTime) : simTime' = t
    BY <1>1 DEF StepSim, StepTo
  <2> QED BY <2>1 DEF SimTypes
<1>2. CASE ~(loaded /\ runner.target > simTime)
  BY <1>2 DEF StepSim, StepTo, SimTypes
<1> QED BY <1>1, <1>2

\* A frame is at most one period old, and next in line.
LEMMA SampleInTime ==
  ASSUME SimTypes, SamplerInv, NEW valid \in BOOLEAN, Sample(valid)
  PROVE  /\ SamplerInv'
         /\ sampler' \in [next : Int, sequence : Nat, count : Nat, missed : Nat, errors : Nat]
         /\ frame' \in [time : Int, sequence : Int, at : Int, previous : Int]
<1> DEFINE behind == simTime - sampler.next
           m == Missed
           time == sampler.next + m * Period
           seq == sampler.sequence + m + 1
<1>1. Period \in Nat \ {0}
  BY SimulationAssumption
<1>2. /\ sampler.next \in Int /\ sampler.sequence \in Nat /\ sampler.count \in Nat /\ sampler.missed \in Nat
      /\ sampler.errors \in Nat /\ frame.time \in Int /\ simTime \in Nat
  BY DEF SimTypes
<1>3. behind \in Nat
  BY <1>2 DEF Sample
<1>4. m \in Nat /\ behind - m * Period \in 0..Period
  <2>1. CASE behind <= Period
    <3>1. m = 0
      BY <2>1 DEF Missed
    <3> QED BY <1>1, <1>3, <2>1, <3>1
  <2>2. CASE behind > Period
    <3> DEFINE a == behind - 1
    <3>1. m = a \div Period
      BY <1>1, <1>2, <1>3, <2>2 DEF Missed
    <3>2. a \in Int /\ a >= Period
      BY <1>1, <1>3, <2>2
    <3> HIDE DEF a, m
    <3>3. a = Period * m + (a % Period) /\ m \in Int /\ a % Period \in 0..Period-1
      BY <1>1, <3>1, <3>2, DivMod
    <3>4. m >= 0
      <4>1. CASE m <= -1
        <5>1. Period * m <= 0
          BY <1>1, <3>3, <4>1
        <5> QED BY <1>1, <3>2, <3>3, <5>1
      <4> QED BY <3>3, <4>1
    <3>5. m * Period = Period * m /\ m * Period \in Int
      BY <1>1, <3>3
    <3> HIDE DEF behind
    <3>6. behind = a + 1
      BY <1>3 DEF a
    <3> QED BY <1>1, <3>2, <3>3, <3>4, <3>5, <3>6
  <2> QED BY <1>1, <1>3, <2>1, <2>2
<1>5. time \in Int /\ simTime - time \in 0..Period /\ time >= sampler.next
  <2> HIDE DEF m
  <2>1. m * Period \in Nat
    BY <1>1, <1>4
  <2> QED BY <1>1, <1>2, <1>4, <2>1
<1>6. /\ time = (seq - 1) * Period /\ time + Period = seq * Period
      /\ seq \in Nat \ {0}
  <2> HIDE DEF m
  <2>1. sampler.next = sampler.sequence * Period
    BY DEF SamplerInv
  <2>2. \A x, y \in Nat : (x + y) * Period = x * Period + y * Period /\ (x + y + 1) * Period = x * Period + y * Period + Period
    BY <1>1
  <2>3. seq - 1 = sampler.sequence + m /\ seq = sampler.sequence + m + 1 /\ seq \in Nat \ {0}
    BY <1>2, <1>4
  <2>4. /\ (sampler.sequence + m) * Period = sampler.sequence * Period + m * Period
        /\ (sampler.sequence + m + 1) * Period = sampler.sequence * Period + m * Period + Period
    BY <1>2, <1>4, <2>2
  <2> HIDE DEF seq
  <2>5. time = sampler.sequence * Period + m * Period
    BY <2>1
  <2> HIDE DEF time
  <2> QED BY <2>3, <2>4, <2>5
<1>7. /\ sampler' = [next |-> time + Period, sequence |-> seq, count |-> sampler.count + 1,
                     missed |-> sampler.missed + m, errors |-> sampler.errors + (IF valid THEN 0 ELSE 1)]
      /\ frame' = [time |-> time, sequence |-> seq - 1, at |-> simTime, previous |-> frame.time]
  <2>1. sampler' = [next |-> time + Period, sequence |-> sampler.sequence + (m + 1), count |-> sampler.count + 1,
                     missed |-> sampler.missed + m, errors |-> sampler.errors + (IF valid THEN 0 ELSE 1)]
    BY DEF Sample, CountPeriods
  <2>2. frame' = [time |-> time, sequence |-> sampler'.sequence - 1, at |-> simTime, previous |-> frame.time]
    BY DEF Sample
  <2>3. sampler.sequence + (m + 1) = seq
    BY <1>2, <1>4
  <2>4. sampler'.sequence = seq
    BY <2>1, <2>3
  <2> HIDE DEF time, seq, m
  <2> QED BY <2>1, <2>2, <2>3, <2>4
<1> HIDE DEF time, m
<1>8. seq = (sampler.count + 1) + (sampler.missed + m)
  BY <1>2, <1>4 DEF SamplerInv
<1> HIDE DEF seq
<1>9. sampler.errors + (IF valid THEN 0 ELSE 1) \in Nat
  BY <1>2
<1>10. SamplerInv'
  BY <1>1, <1>2, <1>4, <1>5, <1>6, <1>7, <1>8 DEF SamplerInv
<1> QED BY <1>1, <1>2, <1>4, <1>5, <1>6, <1>7, <1>9, <1>10

LEMMA SimKept == ASSUME SimInv, [SimNext]_simVars PROVE SimInv'
<1> USE DEF simVars
<1>0. SimTypes /\ CallbackInv /\ SamplerInv /\ StopInv /\ Period \in Nat \ {0}
  BY SimulationAssumption DEF SimInv
<1>1. ASSUME NEW ok \in BOOLEAN, InitializeSim(ok) PROVE SimInv'
  <2>1. CallbackInv'
    BY <1>0, <1>1 DEF InitializeSim, CallbackInv, SimTypes
  <2> QED BY <1>0, <1>1, <2>1 DEF InitializeSim, SimInv, SimTypes, SamplerInv, StopInv
<1>2. ASSUME NEW d \in Durations \cup {RunToCompletion}, Run(d) PROVE SimInv'
  <2>1. d \in Int
    BY SimulationAssumption DEF RunToCompletion
  <2>2. runner.at = "idle" /\ simOwner = "free"
    BY <1>0, <1>2 DEF Run, OwnerFree, SimTypes, CallbackInv
  <2>3. runner' = [by |-> "main", at |-> "begin", target |-> d]
        /\ UNCHANGED <<loaded, simTime, simRunning, simOwner, workerMade, nextAdc, adcIndex, sampler, frame, stopLost>>
    BY <1>2 DEF Run
  <2> QED BY <1>0, <2>1, <2>2, <2>3 DEF SimInv, SimTypes, CallbackInv, SamplerInv, StopInv
<1>3. CASE StartSim
  <2>1. RunToCompletion \in Int
    BY SimulationAssumption DEF RunToCompletion
  <2>2. runner.at = "idle" /\ simOwner = "free"
    BY <1>0, <1>3 DEF StartSim, OwnerFree, SimTypes, CallbackInv
  <2>3. runner' = [by |-> "worker", at |-> "begin", target |-> RunToCompletion] /\ workerMade' = TRUE
        /\ UNCHANGED <<loaded, simTime, simRunning, simOwner, nextAdc, adcIndex, sampler, frame, stopLost>>
    BY <1>3 DEF StartSim
  <2> QED BY <1>0, <2>1, <2>2, <2>3 DEF SimInv, SimTypes, CallbackInv, SamplerInv, StopInv
<1>14. CASE StartTwice
  BY <1>0, <1>14 DEF StartTwice, SimInv, SimTypes, CallbackInv, SamplerInv, StopInv
<1>4. CASE StopSim
  <2>1. stopLost' \in BOOLEAN /\ simRunning' \in BOOLEAN
    BY <1>4 DEF StopSim
  <2>2. SimTypes' /\ CallbackInv' /\ SamplerInv'
    BY <1>0, <1>4, <2>1 DEF StopSim, SimTypes, CallbackInv, SamplerInv
  <2>3. StopInv'
    BY <1>4 DEF StopSim, StopInv
  <2> QED BY <2>2, <2>3 DEF SimInv
<1>5. CASE StopJoins
  BY <1>0, <1>5 DEF StopJoins, SimInv, SimTypes, CallbackInv, SamplerInv, StopInv
<1>6. CASE BeginRun
  <2>1. simRunning' \in BOOLEAN
    BY <1>6 DEF BeginRun
  <2>2. SimTypes'
    <3>1. runner' = [by |-> runner.by, at |-> "check", target |-> simTime + runner.target]
      BY <1>0, <1>6 DEF BeginRun, SimTypes
    <3>2. simTime + runner.target \in Int
      BY <1>0 DEF SimTypes
    <3>3. runner' \in [by : {"nobody", "main", "worker"}, at : {"check"}, target : Int]
      BY <1>0, <3>1, <3>2 DEF SimTypes
    <3>4. UNCHANGED <<loaded, simTime, simOwner, workerMade, nextAdc, adcIndex, sampler, frame, stopLost>>
      BY <1>6 DEF BeginRun
    <3> QED BY <1>0, <2>1, <3>3, <3>4 DEF SimTypes
  <2>3. CallbackInv' /\ SamplerInv'
    BY <1>0, <1>6 DEF BeginRun, SimTypes, CallbackInv, SamplerInv
  <2>4. StopInv'
    BY <1>0, <1>6 DEF BeginRun, SimTypes, StopInv
  <2> QED BY <2>2, <2>3, <2>4 DEF SimInv
<1>7. CASE EndRun
  <2>1. simRunning' \in BOOLEAN
    BY <1>7 DEF EndRun
  <2>2. SimTypes'
    BY <1>0, <1>7, <2>1 DEF EndRun, Nobody, SimTypes
  <2>3. CallbackInv' /\ SamplerInv'
    BY <1>0, <1>7 DEF EndRun, Nobody, SimTypes, CallbackInv, SamplerInv
  <2>4. StopInv'
    BY <1>0, <1>7 DEF EndRun, Nobody, SimTypes, StopInv
  <2> QED BY <2>2, <2>3, <2>4 DEF SimInv
<1>8. CASE StepSim
  <2>1. simTime' \in Nat /\ simTime' >= simTime
    BY <1>0, <1>8, StepForward
  <2>2. UNCHANGED <<loaded, simRunning, simOwner, workerMade, nextAdc, adcIndex, sampler, frame, stopLost>>
        /\ runner' = [runner EXCEPT !.at = "adc"] /\ runner.at = "check"
    BY <1>8 DEF StepSim
  <2>3. SimTypes' /\ SamplerInv'
    BY <1>0, <2>1, <2>2 DEF SimTypes, SamplerInv
  <2>4. CallbackInv'
    BY <1>0, <2>1, <2>2 DEF SimTypes, CallbackInv
  <2>5. StopInv'
    BY <1>0, <2>2 DEF SimTypes, StopInv
  <2> QED BY <2>3, <2>4, <2>5 DEF SimInv
<1>9. CASE AdcCallback
  <2>1. nextAdc' = (adcIndex + 1) * Period /\ adcIndex' = adcIndex + 1 /\ nextAdc' = nextAdc + Period
    BY <1>0, <1>9 DEF AdcCallback, CallbackInv, SimTypes
  <2> QED BY <1>0, <1>9, <2>1 DEF AdcCallback, Due, SimInv, SimTypes, CallbackInv, SamplerInv, StopInv
<1>10. CASE StepDone
  BY <1>0, <1>10 DEF StepDone, Due, SimInv, SimTypes, CallbackInv, SamplerInv, StopInv
<1>11. ASSUME NEW valid \in BOOLEAN, Sample(valid) PROVE SimInv'
  <2>1. /\ SamplerInv'
        /\ sampler' \in [next : Int, sequence : Nat, count : Nat, missed : Nat, errors : Nat]
        /\ frame' \in [time : Int, sequence : Int, at : Int, previous : Int]
    BY <1>0, <1>11, SampleInTime
  <2>2. UNCHANGED <<loaded, simTime, simRunning, runner, simOwner, workerMade, nextAdc, adcIndex, runsBegun, stopLost>>
    BY <1>11 DEF Sample
  <2> QED BY <1>0, <2>1, <2>2 DEF SimInv, SimTypes, CallbackInv, StopInv
<1>12. CASE ResetSampler
  BY <1>0, <1>12 DEF ResetSampler, NewSampler, NoFrameYet, SimInv, SimTypes, CallbackInv, SamplerInv, StopInv
<1>13. CASE UNCHANGED simVars
  BY <1>0, <1>13 DEF SimInv, SimTypes, CallbackInv, SamplerInv, StopInv
<1> QED BY <1>1, <1>2, <1>3, <1>4, <1>5, <1>6, <1>7, <1>8, <1>9, <1>10, <1>11, <1>12, <1>13, <1>14
           DEF SimNext, SimStep, RunStep

\* The inductive invariant of the simulation: the next callback's time is that of its number, at most
\* a period past the loaded simulator's, and the sampler's next time that of its next number.
THEOREM SimulationInvariant == SimSpec => []SimInv
<1>1. SimInit => SimInv
  BY SimStarts
<1>2. SimInv /\ [SimNext]_simVars => SimInv'
  BY SimKept
<1> QED BY <1>1, <1>2, PTL DEF SimSpec

\* For every period, every duration and any sequence of loads, runs, starts and stops: with a simulator
\* loaded a callback for each period passed, none twice, none late; a frame carries its period's number;
\* and no stop is lost but one that comes before the run begins.
THEOREM SimulationAlwaysSound == SimSpec => []SimulationSound
<1>1. SimInv => SimulationSound
  BY SimulationAssumption DEF SimInv, SimTypes, CallbackInv, SamplerInv, StopInv, SimulationSound
<1> QED BY <1>1, SimulationInvariant, PTL

----------------------------------------------------------------------------
(* Capture: the packets of a stream.                                       *)

Packet == [sequence : Nat, turn : Nat, capture : Int, torn : BOOLEAN]

CaptureTypes ==
  /\ stream \in [on : BOOLEAN, sequence : Nat, fourPhase : BOOLEAN, turn : Nat]
  /\ interrupt \in [half : 0..1, token : 0..1]
  /\ captured \in Nat /\ since \in Nat /\ lagged \in BOOLEAN
  /\ pump \in [at : {"wait", "awake"}] \cup [at : {"process"}, torn : BOOLEAN, capture : Int]
  /\ caller \in [at : {"idle", "numbered", "rewound"}, orders : Int]
  /\ packets \in Seq(Packet)

\* A half was announced that has not become a packet yet.
HalfDue == interrupt.token = 1 \/ pump.at # "wait"

\* There is a half only in a stream, and only from after its START; activeHalf is the latest one's.
PumpInv ==
  /\ since <= captured /\ (HalfDue => stream.on /\ captured > since)
  /\ interrupt.token = 1 \/ pump.at = "awake" => interrupt.half = captured % 2
  /\ pump.at = "process" =>
       /\ since < pump.capture /\ pump.capture <= captured
       /\ ~lagged => ~pump.torn /\ pump.capture = captured
  /\ ~lagged => interrupt.token = 0 \/ pump.at = "wait"
  /\ caller.at # "idle" /\ ~stream.on => packets = <<>>

\* The sequence number counts the packets, and the phasor is at the start of a turn.
PacketInv ==
  /\ stream.sequence = Len(packets) /\ stream.turn = 0
  /\ \A i \in 1..Len(packets) : packets[i].sequence = i - 1 /\ packets[i].turn = 0

\* The latest packet is of the half before the one due.
LatestInv ==
  Len(packets) > 0 =>
    LET latest == packets[Len(packets)].capture
    IN  /\ latest <= captured
        /\ pump.at = "process" => latest <= pump.capture
        /\ ~lagged => ~packets[Len(packets)].torn
        /\ ~lagged /\ stream.on => captured = latest + (IF HalfDue THEN 1 ELSE 0)

CaptureInv ==
  CaptureTypes /\ PumpInv /\ PacketInv /\ LatestInv /\ OfThisStream /\ EachHalfOnce

LEMMA CaptureStarts == CaptureInit => CaptureInv
<1> SUFFICES ASSUME CaptureInit PROVE CaptureInv
  OBVIOUS
<1>1. packets = <<>> /\ packets \in Seq(Packet) /\ Len(packets) = 0
  BY EmptySeq DEF CaptureInit
<1>2. CaptureTypes
  <2>1. stream \in [on : BOOLEAN, sequence : Nat, fourPhase : BOOLEAN, turn : Nat]
    <3>1. stream = [on |-> FALSE, sequence |-> 0, fourPhase |-> FALSE, turn |-> 0]
      BY DEF CaptureInit
    <3> QED  BY <3>1
  <2>2. lagged \in BOOLEAN  BY DEF CaptureInit
  <2>3. /\ interrupt \in [half : 0..1, token : 0..1]
        /\ caller \in [at : {"idle", "numbered", "rewound"}, orders : Int]
    BY DEF CaptureInit
  <2> QED  BY <1>1, <2>1, <2>2, <2>3 DEF CaptureInit, CaptureTypes
<1>3. PumpInv /\ PacketInv /\ LatestInv /\ OfThisStream /\ EachHalfOnce
  BY <1>1 DEF CaptureInit, PumpInv, HalfDue, PacketInv, LatestInv, OfThisStream, EachHalfOnce
<1> QED  BY <1>2, <1>3 DEF CaptureInv

LEMMA DMABufferCompleteKept == ASSUME CaptureInv, DMABufferComplete PROVE CaptureInv'
<1>1. captured \in Nat /\ captured' = captured + 1 /\ captured' % 2 \in 0..1
  BY DEF CaptureInv, CaptureTypes, DMABufferComplete
<1>2. /\ pump'.at = pump.at
      /\ pump' \in [at : {"wait", "awake"}] \cup [at : {"process"}, torn : BOOLEAN, capture : Int]
      /\ pump.at = "process" => pump'.capture = pump.capture
  <2>1. CASE pump.at = "process"
    <3>1. pump' = [at |-> "process", torn |-> TRUE, capture |-> pump.capture] /\ pump.capture \in Int
      BY <2>1 DEF CaptureInv, CaptureTypes, DMABufferComplete
    <3> QED  BY <2>1, <3>1
  <2>2. CASE pump.at # "process"
    BY <2>2 DEF CaptureInv, CaptureTypes, DMABufferComplete
  <2> QED  BY <2>1, <2>2
<1>3. /\ stream.on => interrupt' = [half |-> captured' % 2, token |-> 1]
      /\ ~stream.on => interrupt' = interrupt
  BY DEF DMABufferComplete
<1>4. interrupt' \in [half : 0..1, token : 0..1]
  BY <1>1, <1>3 DEF CaptureInv, CaptureTypes
<1>5. lagged' \in BOOLEAN /\ (~lagged' => ~lagged /\ ~HalfDue)
  BY DEF CaptureInv, CaptureTypes, DMABufferComplete, HalfDue
<1>6. UNCHANGED <<stream, caller, packets, since>>
  BY DEF DMABufferComplete
<1>7. CaptureTypes'
  BY <1>1, <1>2, <1>4, <1>5, <1>6 DEF CaptureInv, CaptureTypes
<1>8. PumpInv'
  <2>1. CASE stream.on
    <3>1. interrupt'.half = captured' % 2 /\ interrupt'.token = 1 /\ stream'.on
      BY <1>3, <1>6, <2>1
    <3>2. since' <= captured' /\ captured' > since' /\ (pump'.at = "process" => since' < pump'.capture /\ pump'.capture <= captured')
      BY <1>1, <1>2, <1>6 DEF CaptureInv, CaptureTypes, PumpInv, HalfDue
    <3>3. ~lagged' => pump'.at = "wait"
      BY <1>2, <1>5 DEF HalfDue
    <3>4. ~lagged' => pump'.at # "process"
      BY <3>3
    <3> QED  BY <3>1, <3>2, <3>3, <3>4 DEF PumpInv
  <2>2. CASE ~stream.on
    <3>1. ~HalfDue  BY <2>2 DEF CaptureInv, PumpInv
    <3>2. since' <= captured'  BY <1>1, <1>6 DEF CaptureInv, CaptureTypes, PumpInv
    <3>3. interrupt.token # 1 /\ interrupt' = interrupt /\ pump'.at = "wait"
      BY <1>2, <1>3, <2>2, <3>1 DEF HalfDue
    <3>4. caller'.at # "idle" /\ ~stream'.on => packets' = <<>>
      BY <1>6 DEF CaptureInv, PumpInv
    <3> QED  BY <3>2, <3>3, <3>4 DEF PumpInv, HalfDue
  <2> QED  BY <2>1, <2>2
<1>9. PacketInv'
  BY <1>6 DEF CaptureInv, PacketInv
<1>10. LatestInv'
  <2> SUFFICES ASSUME Len(packets) > 0 PROVE LatestInv'
    BY <1>6 DEF LatestInv
  <2> DEFINE latest == packets[Len(packets)].capture
  <2>1. latest \in Int
    <3>1. Len(packets) \in 1..Len(packets) /\ packets \in Seq(Packet)  BY DEF CaptureInv, CaptureTypes
    <3>2. packets[Len(packets)] \in Packet  BY <3>1, ElementOfSeq
    <3> QED  BY <3>2 DEF Packet
  <2>2. /\ latest <= captured /\ (pump.at = "process" => latest <= pump.capture)
        /\ ~lagged => ~packets[Len(packets)].torn
        /\ ~lagged /\ stream.on /\ ~HalfDue => captured = latest
    BY <2>1 DEF CaptureInv, LatestInv
  <2>3. stream.on => HalfDue'
    BY <1>3 DEF HalfDue
  <2> HIDE DEF latest
  <2>4. /\ latest <= captured' /\ (pump'.at = "process" => latest <= pump'.capture)
        /\ ~lagged' => ~packets[Len(packets)].torn
        /\ ~lagged' /\ stream'.on => HalfDue' /\ captured' = latest + 1
    BY <1>1, <1>2, <1>5, <1>6, <2>1, <2>2, <2>3
  <2> QED  BY <1>6, <2>4 DEF LatestInv, latest
<1>11. OfThisStream'
  BY <1>2, <1>6 DEF CaptureInv, OfThisStream
<1>12. EachHalfOnce'
  BY <1>5, <1>6 DEF CaptureInv, EachHalfOnce
<1> QED  BY <1>7, <1>8, <1>9, <1>10, <1>11, <1>12 DEF CaptureInv

LEMMA TakeTokenKept == ASSUME CaptureInv, TakeToken PROVE CaptureInv'
<1>1. CaptureTypes'
  BY EmptySeq DEF CaptureInv, CaptureTypes, TakeToken
<1>2. PumpInv'
  BY DEF CaptureInv, CaptureTypes, PumpInv, HalfDue, TakeToken
<1>3. PacketInv'
  BY DEF CaptureInv, CaptureTypes, PacketInv, TakeToken
<1>4. LatestInv'
  BY DEF CaptureInv, CaptureTypes, PumpInv, HalfDue, LatestInv, TakeToken
<1>5. OfThisStream'
  BY DEF CaptureInv, CaptureTypes, PumpInv, HalfDue, OfThisStream, TakeToken
<1>6. EachHalfOnce'
  BY DEF CaptureInv, CaptureTypes, EachHalfOnce, TakeToken
<1> QED  BY <1>1, <1>2, <1>3, <1>4, <1>5, <1>6 DEF CaptureInv

LEMMA TakeHalfKept == ASSUME CaptureInv, TakeHalf PROVE CaptureInv'
<1>1. CaptureTypes'
  BY EmptySeq DEF CaptureInv, CaptureTypes, TakeHalf
<1>2. PumpInv'
  BY DEF CaptureInv, CaptureTypes, PumpInv, HalfDue, TakeHalf
<1>3. PacketInv'
  BY DEF CaptureInv, CaptureTypes, PacketInv, TakeHalf
<1>4. LatestInv'
  BY DEF CaptureInv, CaptureTypes, PumpInv, HalfDue, LatestInv, TakeHalf
<1>5. OfThisStream'
  BY DEF CaptureInv, CaptureTypes, PumpInv, HalfDue, OfThisStream, TakeHalf
<1>6. EachHalfOnce'
  BY DEF CaptureInv, CaptureTypes, EachHalfOnce, TakeHalf
<1> QED  BY <1>1, <1>2, <1>3, <1>4, <1>5, <1>6 DEF CaptureInv

LEMMA StartNumberingKept == ASSUME CaptureInv, StartNumbering PROVE CaptureInv'
<1>1. CaptureTypes'
  <2>1. stream' = [on |-> stream.on, sequence |-> 0, fourPhase |-> stream.fourPhase, turn |-> stream.turn]
    BY DEF CaptureInv, CaptureTypes, StartNumbering
  <2>2. stream.on \in BOOLEAN /\ stream.fourPhase \in BOOLEAN /\ stream.sequence \in Nat /\ stream.turn \in Nat
    BY DEF CaptureInv, CaptureTypes
  <2>3. stream' \in [on : BOOLEAN, sequence : Nat, fourPhase : BOOLEAN, turn : Nat]
    BY <2>1, <2>2
  <2>4. caller' = [at |-> "numbered", orders |-> caller.orders + 1] /\ caller.orders \in Int
    BY DEF CaptureInv, CaptureTypes, StartNumbering, Ordered
  <2>5. packets' \in Seq(Packet)  BY EmptySeq DEF StartNumbering
  <2>6. caller' \in [at : {"idle", "numbered", "rewound"}, orders : Int]  BY <2>4
  <2>7. since' \in Nat  BY DEF CaptureInv, CaptureTypes, StartNumbering
  <2> QED  BY <2>3, <2>5, <2>6, <2>7 DEF CaptureInv, CaptureTypes, StartNumbering
<1>2. PumpInv'
  BY DEF CaptureInv, CaptureTypes, PumpInv, HalfDue, StartNumbering, MainMayRun, Ordered
<1>3. PacketInv'
  BY DEF CaptureInv, CaptureTypes, PacketInv, StartNumbering, MainMayRun, Ordered
<1>4. LatestInv'
  BY DEF CaptureInv, CaptureTypes, PumpInv, HalfDue, LatestInv, StartNumbering, MainMayRun, Ordered
<1>5. OfThisStream'
  BY DEF CaptureInv, CaptureTypes, PumpInv, HalfDue, OfThisStream, StartNumbering, MainMayRun, Ordered
<1>6. EachHalfOnce'
  BY DEF CaptureInv, CaptureTypes, EachHalfOnce, StartNumbering, MainMayRun, Ordered
<1> QED  BY <1>1, <1>2, <1>3, <1>4, <1>5, <1>6 DEF CaptureInv

LEMMA StartPhasorKept == ASSUME CaptureInv, StartPhasor PROVE CaptureInv'
<1>1. CaptureTypes'
  BY EmptySeq DEF CaptureInv, CaptureTypes, StartPhasor, MainMayRun
<1>2. PumpInv'
  BY DEF CaptureInv, CaptureTypes, PumpInv, HalfDue, StartPhasor, MainMayRun
<1>3. PacketInv'
  BY DEF CaptureInv, CaptureTypes, PacketInv, StartPhasor, MainMayRun
<1>4. LatestInv'
  BY DEF CaptureInv, CaptureTypes, PumpInv, HalfDue, LatestInv, StartPhasor, MainMayRun
<1>5. OfThisStream'
  BY DEF CaptureInv, CaptureTypes, PumpInv, HalfDue, OfThisStream, StartPhasor, MainMayRun
<1>6. EachHalfOnce'
  BY DEF CaptureInv, CaptureTypes, EachHalfOnce, StartPhasor, MainMayRun
<1> QED  BY <1>1, <1>2, <1>3, <1>4, <1>5, <1>6 DEF CaptureInv

LEMMA StartStreamingKept == ASSUME CaptureInv, StartStreaming PROVE CaptureInv'
<1>1. CaptureTypes'
  BY EmptySeq DEF CaptureInv, CaptureTypes, StartStreaming, MainMayRun
<1>2. PumpInv'
  BY DEF CaptureInv, CaptureTypes, PumpInv, HalfDue, StartStreaming, MainMayRun
<1>3. PacketInv'
  BY DEF CaptureInv, CaptureTypes, PacketInv, StartStreaming, MainMayRun
<1>4. LatestInv'
  BY DEF CaptureInv, CaptureTypes, PumpInv, HalfDue, LatestInv, StartStreaming, MainMayRun
<1>5. OfThisStream'
  BY DEF CaptureInv, CaptureTypes, PumpInv, HalfDue, OfThisStream, StartStreaming, MainMayRun
<1>6. EachHalfOnce'
  BY DEF CaptureInv, CaptureTypes, EachHalfOnce, StartStreaming, MainMayRun
<1> QED  BY <1>1, <1>2, <1>3, <1>4, <1>5, <1>6 DEF CaptureInv

LEMMA StopStreamingKept == ASSUME CaptureInv, StopStreaming PROVE CaptureInv'
<1>1. CaptureTypes'
  <2>1. stream' = [on |-> FALSE, sequence |-> stream.sequence, fourPhase |-> stream.fourPhase, turn |-> stream.turn]
    BY DEF CaptureInv, CaptureTypes, StopStreaming
  <2>2. stream.on \in BOOLEAN /\ stream.fourPhase \in BOOLEAN /\ stream.sequence \in Nat /\ stream.turn \in Nat
    BY DEF CaptureInv, CaptureTypes
  <2>3. stream' \in [on : BOOLEAN, sequence : Nat, fourPhase : BOOLEAN, turn : Nat]
    BY <2>1, <2>2
  <2> QED  BY <2>3 DEF CaptureInv, CaptureTypes, StopStreaming, MainMayRun, Ordered
<1>2. PumpInv'
  BY DEF CaptureInv, CaptureTypes, PumpInv, HalfDue, StopStreaming, MainMayRun, Ordered
<1>3. PacketInv'
  BY DEF CaptureInv, CaptureTypes, PacketInv, StopStreaming, MainMayRun, Ordered
<1>4. LatestInv'
  BY DEF CaptureInv, CaptureTypes, PumpInv, HalfDue, LatestInv, StopStreaming, MainMayRun, Ordered
<1>5. OfThisStream'
  BY DEF CaptureInv, CaptureTypes, PumpInv, HalfDue, OfThisStream, StopStreaming, MainMayRun, Ordered
<1>6. EachHalfOnce'
  BY DEF CaptureInv, CaptureTypes, EachHalfOnce, StopStreaming, MainMayRun, Ordered
<1> QED  BY <1>1, <1>2, <1>3, <1>4, <1>5, <1>6 DEF CaptureInv

LEMMA SetFourPhaseModeKept == ASSUME CaptureInv, SetFourPhaseMode PROVE CaptureInv'
<1>1. CaptureTypes'
  <2>1. stream' = [on |-> stream.on, sequence |-> stream.sequence, fourPhase |-> ~stream.fourPhase, turn |-> stream.turn]
    BY DEF CaptureInv, CaptureTypes, SetFourPhaseMode
  <2>2. stream.on \in BOOLEAN /\ stream.fourPhase \in BOOLEAN /\ stream.sequence \in Nat /\ stream.turn \in Nat
    BY DEF CaptureInv, CaptureTypes
  <2>3. stream' \in [on : BOOLEAN, sequence : Nat, fourPhase : BOOLEAN, turn : Nat]
    BY <2>1, <2>2
  <2> QED  BY <2>3 DEF CaptureInv, CaptureTypes, SetFourPhaseMode, MainMayRun, Ordered
<1>2. PumpInv'
  BY DEF CaptureInv, CaptureTypes, PumpInv, HalfDue, SetFourPhaseMode, MainMayRun, Ordered
<1>3. PacketInv'
  BY DEF CaptureInv, CaptureTypes, PacketInv, SetFourPhaseMode, MainMayRun, Ordered
<1>4. LatestInv'
  BY DEF CaptureInv, CaptureTypes, PumpInv, HalfDue, LatestInv, SetFourPhaseMode, MainMayRun, Ordered
<1>5. OfThisStream'
  BY DEF CaptureInv, CaptureTypes, PumpInv, HalfDue, OfThisStream, SetFourPhaseMode, MainMayRun, Ordered
<1>6. EachHalfOnce'
  BY DEF CaptureInv, CaptureTypes, EachHalfOnce, SetFourPhaseMode, MainMayRun, Ordered
<1> QED  BY <1>1, <1>2, <1>3, <1>4, <1>5, <1>6 DEF CaptureInv

LEMMA ProcessHalfKept == ASSUME CaptureInv, ProcessHalf PROVE CaptureInv'
<1> DEFINE n == Len(packets)
           p == [sequence |-> stream.sequence, turn |-> stream.turn, capture |-> pump.capture,
                 torn |-> pump.torn]
<1>1. pump \in [at : {"process"}, torn : BOOLEAN, capture : Int]
  BY DEF CaptureInv, CaptureTypes, ProcessHalf
<1>2. p \in Packet
  <2>1. pump.torn \in BOOLEAN  BY <1>1
  <2>2. pump.capture \in Int  BY <1>1
  <2>3. stream.sequence \in Nat /\ stream.turn \in Nat  BY DEF CaptureInv, CaptureTypes
  <2> QED  BY <2>1, <2>2, <2>3 DEF Packet
<1>3. packets' = Append(packets, p)
  BY DEF ProcessHalf
<1>4. /\ packets \in Seq(Packet) /\ n \in Nat /\ packets' \in Seq(Packet) /\ Len(packets') = n + 1
      /\ \A i \in 1..n : packets'[i] = packets[i]
      /\ packets'[n + 1] = p
  BY <1>2, <1>3 DEF CaptureInv, CaptureTypes
<1>5. AdvancedPhasor(0) = 0
  BY WholeTurns, CaptureAssumption DEF AdvancedPhasor
<1>6. stream.turn = 0 /\ stream.sequence = n
  BY DEF CaptureInv, PacketInv
<1>7. stream' = [on |-> stream.on, sequence |-> n + 1, fourPhase |-> stream.fourPhase, turn |-> 0]
  BY <1>5, <1>6 DEF ProcessHalf, CaptureInv, CaptureTypes
<1>8. p.sequence = n /\ p.turn = 0 /\ p.capture = pump.capture /\ p.torn = pump.torn
  BY <1>6
<1> HIDE DEF n, p
<1>9. CaptureTypes'
  <2>1. stream'.on = stream.on /\ stream.on \in BOOLEAN /\ stream.fourPhase \in BOOLEAN
    BY <1>7 DEF CaptureInv, CaptureTypes
  <2>2. stream' \in [on : BOOLEAN, sequence : Nat, fourPhase : BOOLEAN, turn : Nat]
    BY <1>4, <1>7, <2>1
  <2> QED  BY <1>4, <2>2 DEF CaptureInv, CaptureTypes, ProcessHalf
<1>10. PumpInv'
  BY <1>7 DEF CaptureInv, CaptureTypes, PumpInv, HalfDue, ProcessHalf
<1>11. PacketInv'
  <2>1. stream'.sequence = Len(packets') /\ stream'.turn = 0
    BY <1>4, <1>7
  <2>2. \A i \in 1..n + 1 : packets'[i].sequence = i - 1 /\ packets'[i].turn = 0
    <3>1. \A i \in 1..n : packets'[i].sequence = i - 1 /\ packets'[i].turn = 0
      BY <1>4 DEF CaptureInv, PacketInv, n
    <3> QED  BY <1>4, <1>8, <3>1
  <2> QED  BY <1>4, <2>1, <2>2 DEF PacketInv
<1>12. LatestInv'
  <2>1. pump'.at = "wait" /\ pump.at = "process" /\ interrupt' = interrupt /\ captured' = captured
        /\ (lagged' <=> lagged)
    BY DEF ProcessHalf
  <2>2. pump.capture <= captured /\ (~lagged => ~pump.torn /\ pump.capture = captured /\ interrupt.token = 0)
    BY <2>1 DEF CaptureInv, PumpInv
  <2>3. packets'[Len(packets')] = p  BY <1>4
  <2> QED  BY <1>8, <2>1, <2>2, <2>3 DEF LatestInv, HalfDue, CaptureInv, CaptureTypes
<1>13. OfThisStream'
  BY <1>4, <1>7, <1>8 DEF CaptureInv, OfThisStream, PumpInv, ProcessHalf
<1>14. EachHalfOnce'
  <2>1. pump.at = "process" /\ lagged' = lagged  BY DEF ProcessHalf
  <2> SUFFICES ASSUME NEW i \in 1..n
               PROVE  /\ packets'[i + 1].capture >= packets'[i].capture
                      /\ ~lagged => packets'[i + 1].capture = packets'[i].capture + 1 /\ ~packets'[i].torn
    BY <1>4, <2>1 DEF EachHalfOnce
  <2>2. CASE i < n
    BY <1>4, <2>2 DEF CaptureInv, EachHalfOnce, n
  <2>3. CASE i = n
    <3>1. packets'[i + 1] = p /\ packets'[i] = packets[n]  BY <1>4, <2>3
    <3>2. stream.on /\ HalfDue /\ (~lagged => pump.capture = captured)
      BY <2>1 DEF CaptureInv, PumpInv, HalfDue
    <3>3. packets[n].capture \in Int
      <4>1. packets[n] \in Packet  BY <1>4, <2>3, ElementOfSeq DEF n
      <4> QED  BY <4>1 DEF Packet
    <3>4. packets[n].capture <= pump.capture
      BY <1>4, <2>1, <2>3 DEF CaptureInv, LatestInv, n
    <3>5. ~lagged => captured = packets[n].capture + 1 /\ ~packets[n].torn
      BY <1>4, <2>3, <3>2 DEF CaptureInv, LatestInv, n
    <3> QED  BY <1>1, <1>8, <3>1, <3>2, <3>3, <3>4, <3>5 DEF CaptureInv, CaptureTypes
  <2> QED  BY <1>4, <2>2, <2>3
<1> QED  BY <1>9, <1>10, <1>11, <1>12, <1>13, <1>14 DEF CaptureInv

LEMMA CaptureKept == CaptureInv /\ [CaptureNext]_captureVars => CaptureInv'
<1> SUFFICES ASSUME CaptureInv, [CaptureNext]_captureVars PROVE CaptureInv'
  OBVIOUS
<1>1. CASE UNCHANGED captureVars
  BY <1>1 DEF captureVars, CaptureInv, CaptureTypes, PumpInv, HalfDue, PacketInv, LatestInv, OfThisStream,
              EachHalfOnce
<1>2. CASE CaptureNext
  BY <1>2, DMABufferCompleteKept, TakeTokenKept, TakeHalfKept, ProcessHalfKept, StartNumberingKept,
     StartPhasorKept, StartStreamingKept, StopStreamingKept, SetFourPhaseModeKept DEF CaptureNext
<1> QED  BY <1>1, <1>2

\* The inductive invariant of the capture: a half that is due belongs to the present stream, and the
\* latest packet is of the half before it as long as the pump has kept up.
THEOREM CaptureInvariant == CaptureSpec => []CaptureInv
<1> QED  BY CaptureStarts, CaptureKept, PTL DEF CaptureSpec

\* For any size of a half that is a whole number of turns, any number of halves and any calls of the
\* main thread: packets are numbered from nought, of this stream, in order, their phasor continuous.
THEOREM CaptureAlwaysRight == CaptureSpec => []CaptureRight
<1>1. CaptureInv => CaptureRight
  <2> SUFFICES ASSUME CaptureInv PROVE CaptureRight
    OBVIOUS
  <2>1. Numbered  BY DEF CaptureInv, PacketInv, Numbered
  <2>2. PhasorContinues
    <3>1. (0 + SamplesPerHalf) % Turn = 0  BY WholeTurns, CaptureAssumption
    <3>2. Len(packets) \in Nat  BY DEF CaptureInv, CaptureTypes
    <3>3. \A i \in 1..Len(packets) : packets[i].turn = 0  BY DEF CaptureInv, PacketInv
    <3> QED  BY <3>1, <3>2, <3>3 DEF PhasorContinues
  <2> QED  BY <2>1, <2>2 DEF CaptureInv, CaptureRight
<1> QED  BY <1>1, CaptureInvariant, PTL

----------------------------------------------------------------------------
\* The count is one behind while the pulse is high, and right once the counter has frozen.
CounterInv ==
  /\ counter \in [state : {"idle", "counting", "frozen", "readable"}, value : Int, pulse : {0, 1},
                  edges : Int, ticks : Int, high : Int]
  /\ counter.state = "idle" => counter.value = 0 /\ counter.high = 0
  /\ counter.state = "counting" => counter.high = counter.value + 1
  /\ counter.state \in {"frozen", "readable"} => counter.value = counter.high

\* The address a transaction begins with, and what its register shows from one load to the end.
First(op) == IF op = "driver" THEN 1 ELSE 0
Target == IF master.op = "driver" THEN <<1, 1, 1, 1, 1, 1, 1>> ELSE Address(master.register)
Steady == master.op = "read" /\ (master.register = "Sig" \/ (master.register = "TCXOLatch" /\ master.frozen))
Shown == IF master.register = "Sig" THEN Signature ELSE Zeros(22) \o Bits(counter.high, 10)

ShownBits == {Shown[i] : i \in 1..32}

LinkTypes ==
  /\ DOMAIN slave = {"count", "word", "addr", "write", "control"}
  /\ slave.count \in Nat /\ slave.addr \in Seq(Int) /\ Len(slave.addr) = 7
  /\ master.at \in {"idle", "clocking"} /\ master.done \in Nat
  /\ master.at = "idle" => slave.count = 0
  /\ master.at = "clocking" \/ master.done > 0 =>
       /\ DOMAIN master = {"at", "done", "op", "register", "out", "back", "got", "control", "frozen"}
       /\ master.op \in {"read", "write", "driver", "broadcast"}
       /\ master.register \in {"Control", "TCXOLatch", "Sig"}
       /\ master.frozen \in BOOLEAN /\ master.out \in Seq(Int)
       /\ master.frozen => counter.state \in {"frozen", "readable"}
       /\ master.op # "write" => slave.control = master.control

\* Of a read, or what the driver takes for one, the slave has counted the bits that went out.  Those of
\* the address still to come are in out, the others in addr.
HeaderInv ==
  master.at = "clocking" /\ master.op # "write" =>
    /\ master.back \in {8, 32} /\ slave.count + Len(master.out) = 8 + master.back
    /\ slave.count = 0 => master.out[1] = First(master.op)
    /\ slave.count > 0 => slave.write = First(master.op)
    /\ \A j \in 1..7 : IF slave.count <= j THEN master.out[j - slave.count + 1] = Target[j]
                       ELSE slave.count <= 8 => slave.addr[8 - slave.count + j] = Target[j]

\* After the address, the bits read are the first of the register, and the word shows those to come.
ReadInv ==
  Steady /\ (master.at = "clocking" \/ master.done > 0) =>
    /\ master.at = "idle" => master.got = Shown
    /\ master.at = "clocking" =>
         /\ master.back = 32 /\ master.got \in Seq(ShownBits)
         /\ IF slave.count < 8 THEN master.got = <<>>
            ELSE /\ Len(master.got) = slave.count - 8
                 /\ \A i \in 1..slave.count - 8 : master.got[i] = Shown[i]
                 /\ slave.word \in Seq(ShownBits) /\ Len(slave.word) = 32
                 /\ \A i \in 1..40 - slave.count : slave.word[i] = Shown[slave.count - 8 + i]

LinkInv == CounterInv /\ LinkTypes /\ HeaderInv /\ ReadInv

LEMMA AddressFacts ==
  ASSUME NEW r \in {"Control", "TCXOLatch", "Sig"}
  PROVE  /\ Address(r) \in Seq(Int) /\ Len(Address(r)) = 7
         /\ Width(r) \in {8, 32} /\ (r # "Control" => Width(r) = 32)
BY DEF Address, Width

LEMMA ShownIsAWord == Shown \in Seq(ShownBits) /\ Len(Shown) = 32
<1> DEFINE z == Zeros(22)
           b == Bits(counter.high, 10)
           V == Int \cup {b[i] : i \in 1..10}
<1>1. Signature \in Seq(V) /\ Len(Signature) = 32
  BY LinkAssumption
<1>2. z \in Seq(V) /\ Len(z) = 22
  BY DEF Zeros
<1>3. b \in Seq(V) /\ Len(b) = 10
  <2>1. DOMAIN b = 1..10 /\ b = [i \in 1..10 |-> b[i]]
    BY Zenon DEF Bits
  <2> HIDE DEF b
  <2> QED BY <2>1
<1> HIDE DEF z, b, V
<1>4. z \o b \in Seq(V) /\ Len(z \o b) = Len(z) + Len(b)
  BY <1>2, <1>3, ConcatProperties, Zenon
<1>5. Len(z \o b) = 32
  BY <1>2, <1>3, <1>4
<1>6. Shown = Signature \/ Shown = z \o b
  BY Zenon DEF Shown, z, b
<1>7. Shown \in Seq(V) /\ Len(Shown) = 32
  BY <1>1, <1>4, <1>5, <1>6, Zenon
<1>8. DOMAIN Shown = 1..32 /\ Shown = [i \in 1..32 |-> Shown[i]]
  BY <1>7
<1> DEFINE s == Shown
<1>9. s \in Seq({s[i] : i \in 1..32})
  <2> HIDE DEF s
  <2> QED BY <1>8 DEF s
<1> QED BY <1>7, <1>9, Zenon DEF ShownBits

\* A transaction goes out bit by bit: the first, the seven of the address, the rest.
Framed(first, address, rest) == <<first>> \o address \o rest
Begins(x, first, address) == x[1] = first /\ \A j \in 1..7 : x[j + 1] = address[j]

LEMMA HeaderFirst ==
  ASSUME NEW first \in Int, NEW a \in Seq(Int), Len(a) = 7, NEW rest \in Seq(Int)
  PROVE  /\ Framed(first, a, rest) \in Seq(Int) /\ Len(Framed(first, a, rest)) = 8 + Len(rest)
         /\ Begins(Framed(first, a, rest), first, a)
<1> DEFINE f == <<first>>
           h == f \o a
<1>1. f \in Seq(Int) /\ Len(f) = 1 /\ f[1] = first
  OBVIOUS
<1> HIDE DEF f
<1>2. h \in Seq(Int) /\ Len(h) = Len(f) + Len(a)
      /\ \A i \in 1..Len(f) + Len(a) : h[i] = IF i <= Len(f) THEN f[i] ELSE a[i - Len(f)]
  BY <1>1, ConcatProperties, Zenon
<1>3. h \in Seq(Int) /\ Len(h) = 8 /\ h[1] = first /\ \A j \in 1..7 : h[j + 1] = a[j]
  <2> HIDE DEF h
  <2>1. Len(f) + Len(a) = 8
    BY <1>1
  <2>2. h[1] = first
    BY <1>1, <1>2, <2>1
  <2>3. ASSUME NEW j \in 1..7 PROVE h[j + 1] = a[j]
    <3>1. j + 1 \in 1..8 /\ ~(j + 1 <= 1) /\ (j + 1) - 1 = j
      OBVIOUS
    <3> QED BY <1>1, <1>2, <2>1, <3>1
  <2> QED BY <1>2, <2>1, <2>2, <2>3
<1> HIDE DEF h
<1>4. /\ h \o rest \in Seq(Int) /\ Len(h \o rest) = Len(h) + Len(rest)
      /\ \A i \in 1..Len(h) + Len(rest) : (h \o rest)[i] = IF i <= Len(h) THEN h[i] ELSE rest[i - Len(h)]
  BY <1>3, ConcatProperties, Zenon
<1>5. Len(rest) \in Nat
  OBVIOUS
<1> DEFINE all == h \o rest
<1>6. all \in Seq(Int) /\ Len(all) = 8 + Len(rest) /\ \A i \in 1..8 : all[i] = h[i]
  <2> HIDE DEF all
  <2>1. all \in Seq(Int) /\ Len(all) = 8 + Len(rest)
    BY <1>3, <1>4 DEF all
  <2>2. ASSUME NEW i \in 1..8 PROVE all[i] = h[i]
    <3>1. i \in 1..Len(h) + Len(rest) /\ i <= Len(h)
      BY <1>3, <1>5
    <3> QED BY <1>4, <3>1, Zenon DEF all
  <2> QED BY <2>1, <2>2
<1> HIDE DEF all
<1>7. all[1] = first /\ \A j \in 1..7 : all[j + 1] = a[j]
  BY <1>3, <1>6
<1>8. all = Framed(first, a, rest)
  BY Zenon DEF all, h, f, Framed
<1> QED BY <1>6, <1>7, <1>8, Zenon DEF Begins

LEMMA LinkStarts == LinkInit => LinkInv
BY DEF LinkInit, LinkInv, CounterInv, LinkTypes, HeaderInv, ReadInv, Zeros

LEMMA TickMoves ==
  ASSUME CounterInv, Tick
  PROVE  /\ counter' \in [state : {"idle", "counting", "frozen", "readable"}, value : Int, pulse : {0, 1},
                          edges : Int, ticks : Int, high : Int]
         /\ counter.state = "idle" => \/ counter'.state = "idle" /\ counter'.value = 0 /\ counter'.high = 0
                                      \/ counter'.state = "counting" /\ counter'.value = 0 /\ counter'.high = 1
         /\ counter.state = "counting" =>
              /\ counter'.value = counter.value + 1
              /\ \/ counter'.state = "counting" /\ counter'.high = counter.high + 1
                 \/ counter'.state = "frozen" /\ counter'.high = counter.high
         /\ counter.state \in {"frozen", "readable"} =>
              /\ counter'.state \in {"frozen", "readable"}
              /\ counter'.value = counter.value /\ counter'.high = counter.high
<1> DEFINE st == CASE counter.state = "idle" /\ counter.pulse = 1 -> "counting"
                   [] counter.state = "counting" /\ counter.pulse = 0 -> "frozen"
                   [] counter.state = "frozen" /\ counter.pulse = 1 -> "readable"
                   [] OTHER -> counter.state
           va == IF counter.state = "counting" THEN counter.value + 1 ELSE counter.value
           hi == IF counter.pulse = 1 /\ counter.state \in {"idle", "counting"} THEN counter.high + 1
                 ELSE counter.high
<1>1. counter' = [counter EXCEPT !.ticks = @ + 1, !.state = st, !.value = va, !.high = hi]
  BY Zenon DEF Tick
<1> HIDE DEF st, va, hi
<1>2. counter' = [state |-> st, value |-> va, pulse |-> counter.pulse, edges |-> counter.edges,
                  ticks |-> counter.ticks + 1, high |-> hi]
  BY <1>1 DEF CounterInv
<1>3. counter'.state = st /\ counter'.value = va /\ counter'.high = hi
  BY <1>2
<1>4. counter.value \in Int /\ counter.high \in Int /\ counter.pulse \in {0, 1} /\ counter.edges \in Int
      /\ counter.ticks \in Int
  BY DEF CounterInv
<1>5. ASSUME st \in {"idle", "counting", "frozen", "readable"}, va \in Int, hi \in Int
      PROVE  counter' \in [state : {"idle", "counting", "frozen", "readable"}, value : Int, pulse : {0, 1},
                           edges : Int, ticks : Int, high : Int]
  <2>1. counter.ticks + 1 \in Int
    BY <1>4
  <2> QED BY <1>2, <1>4, <1>5, <2>1
<1>6. CASE counter.state = "idle"
  <2>1. \/ st = "counting" /\ hi = counter.high + 1
        \/ st = "idle" /\ hi = counter.high
    <3>1. CASE counter.pulse = 1
      <4>1. st = "counting"
        BY <1>6, <3>1, Zenon DEF st
      <4>2. hi = counter.high + 1
        BY <1>6, <3>1 DEF hi
      <4> QED BY <4>1, <4>2, Zenon
    <3>2. CASE counter.pulse # 1
      BY <1>6, <3>2 DEF st, hi
    <3> QED BY <3>1, <3>2
  <2>2. va = 0 /\ counter.high = 0
    BY <1>6 DEF va, CounterInv
  <2>3. \/ st = "counting" /\ hi = 1
        \/ st = "idle" /\ hi = 0
    BY <2>1, <2>2
  <2>4. st \in {"idle", "counting"} /\ va \in Int /\ hi \in Int
    BY <2>2, <2>3
  <2> QED BY <1>3, <1>5, <1>6, <2>2, <2>3, <2>4
<1>7. CASE counter.state = "counting"
  <2>1. \/ st = "counting" /\ counter.pulse = 1
        \/ st = "frozen" /\ counter.pulse = 0
    <3>1. CASE counter.pulse = 0
      BY <1>7, <3>1 DEF st
    <3>2. CASE counter.pulse = 1
      BY <1>7, <3>2 DEF st
    <3> QED BY <1>4, <3>1, <3>2
  <2>2. va = counter.value + 1
    BY <1>7 DEF va
  <2>3. hi = IF counter.pulse = 1 THEN counter.high + 1 ELSE counter.high
    BY <1>7 DEF hi
  <2> QED BY <1>3, <1>4, <1>5, <1>7, <2>1, <2>2, <2>3
<1>8. CASE counter.state \in {"frozen", "readable"}
  <2>1. st \in {"frozen", "readable"} /\ va = counter.value /\ hi = counter.high
    BY <1>8 DEF st, va, hi
  <2> QED BY <1>3, <1>4, <1>5, <1>8, <2>1
<1> QED BY <1>6, <1>7, <1>8 DEF CounterInv

LEMMA CounterGoesOn == CounterInv /\ [LinkNext]_linkVars => CounterInv'
<1> SUFFICES ASSUME CounterInv, [LinkNext]_linkVars PROVE CounterInv'
  OBVIOUS
<1>1. CASE UNCHANGED counter
  BY <1>1 DEF CounterInv
<1>2. CASE Tick
  BY <1>2, TickMoves DEF CounterInv
<1>3. CASE PulseEdge
  <2>1. 1 - counter.pulse \in {0, 1} /\ counter.edges + 1 \in Int
    BY DEF CounterInv
  <2>2. counter' = [counter EXCEPT !.pulse = 1 - @, !.edges = @ + 1]
    BY <1>3 DEF PulseEdge
  <2> QED BY <2>1, <2>2 DEF CounterInv
<1> QED BY <1>1, <1>2, <1>3 DEF LinkNext, Select, ClockBit, Deselect, linkVars

\* What a frozen counter shows stays.
LEMMA FrozenStays ==
  ASSUME CounterInv, [LinkNext]_linkVars, counter.state \in {"frozen", "readable"}
  PROVE  counter.state' \in {"frozen", "readable"} /\ counter.high' = counter.high
<1>1. CASE UNCHANGED counter
  BY <1>1
<1>2. CASE Tick
  BY <1>2, TickMoves
<1>3. CASE PulseEdge
  BY <1>3 DEF PulseEdge, CounterInv
<1> QED BY <1>1, <1>2, <1>3 DEF LinkNext, Select, ClockBit, Deselect, linkVars

LEMMA TransactionKinds ==
  ASSUME NEW t \in Transactions
  PROVE  \/ \E r \in {"Control", "TCXOLatch", "Sig"} :
              /\ t.op = "read" /\ t.register = r /\ t.back = Width(r)
              /\ t.out = Framed(0, Address(r), [i \in 1..Width(r) |-> 1])
         \/ \E r \in {"Control", "Sig"}, rest \in Seq(Int) :
              t.op = "write" /\ t.register = r /\ t.out = Framed(1, Address(r), rest)
         \/ /\ t.op = "driver" /\ t.register = "Sig" /\ t.back = 32
            /\ t.out = Framed(1, [i \in 1..7 |-> 1], Zeros(32))
         \/ /\ t.op = "broadcast" /\ t.register = "Control" /\ t.back = 32
            /\ t.out = Framed(0, Address("Control"), Zeros(31) \o <<1>>)
<1> DEFINE Read(r) == [op |-> "read", register |-> r,
                       out |-> <<0>> \o Address(r) \o [i \in 1..Width(r) |-> 1], back |-> Width(r)]
           W1 == [op |-> "write", register |-> "Control",
                  out |-> <<1>> \o Address("Control") \o Bits(129, 8), back |-> 0]
           W2 == [op |-> "write", register |-> "Sig",
                  out |-> <<1>> \o Address("Sig") \o [i \in 1..32 |-> 1], back |-> 0]
           Dr == [op |-> "driver", register |-> "Sig", out |-> <<1>> \o [i \in 1..7 |-> 1] \o Zeros(32),
                  back |-> 32]
           Br == [op |-> "broadcast", register |-> "Control",
                  out |-> <<0>> \o Address("Control") \o (Zeros(31) \o <<1>>), back |-> 32]
<1>1. (\E r \in {"Control", "TCXOLatch", "Sig"} : t = Read(r)) \/ t = W1 \/ t = W2 \/ t = Dr \/ t = Br
  BY Zenon DEF Transactions
<1>2. CASE \E r \in {"Control", "TCXOLatch", "Sig"} : t = Read(r)
  <2>1. PICK r \in {"Control", "TCXOLatch", "Sig"} : t = Read(r)
    BY <1>2, Zenon
  <2>2. /\ t.op = "read" /\ t.register = r /\ t.back = Width(r)
        /\ t.out = Framed(0, Address(r), [i \in 1..Width(r) |-> 1])
    BY <2>1, Zenon DEF Framed
  <2> QED BY <2>2, Zenon
<1>3. CASE t = W1
  <2>1. t.op = "write" /\ t.register = "Control" /\ t.out = Framed(1, Address("Control"), Bits(129, 8))
    BY <1>3, Zenon DEF Framed
  <2>2. Bits(129, 8) \in Seq(Int)
    <3> DEFINE bit(i) == (129 \div 2 ^ (8 - i)) % 2
    <3>1. \A i \in 1..8 : bit(i) \in Int
      OBVIOUS
    <3>2. Bits(129, 8) = [i \in 1..8 |-> bit(i)]
      BY Zenon DEF Bits
    <3> HIDE DEF bit
    <3>3. [i \in 1..8 |-> bit(i)] \in Seq(Int)
      BY <3>1
    <3> QED BY <3>2, <3>3, Zenon
  <2> QED BY <2>1, <2>2, Zenon
<1>4. CASE t = W2
  <2>1. t.op = "write" /\ t.register = "Sig" /\ t.out = Framed(1, Address("Sig"), [i \in 1..32 |-> 1])
    BY <1>4, Zenon DEF Framed
  <2>2. [i \in 1..32 |-> 1] \in Seq(Int)
    OBVIOUS
  <2> QED BY <2>1, <2>2, Zenon
<1>5. CASE t = Dr
  BY <1>5, Zenon DEF Framed
<1>6. CASE t = Br
  BY <1>6, Zenon DEF Framed
<1> QED BY <1>1, <1>2, <1>3, <1>4, <1>5, <1>6, Zenon

LEMMA SelectKeeps ==
  ASSUME LinkInv, NEW t \in Transactions, Select(t)
  PROVE  LinkTypes' /\ HeaderInv' /\ ReadInv'
<1> DEFINE D == {"at", "done", "op", "register", "out", "back", "got", "control", "frozen"}
<1>0. CounterInv /\ LinkTypes /\ slave' = slave /\ counter' = counter /\ slave.count = 0
  BY DEF LinkInv, LinkTypes, Select
<1>1. /\ DOMAIN master' = D /\ master'.at = "clocking" /\ master'.done \in Nat
      /\ master'.op = t.op /\ master'.register = t.register /\ master'.out = t.out
      /\ master'.back = t.back /\ master'.got = <<>> /\ master'.control = slave.control
      /\ master'.frozen = (counter.state \in {"frozen", "readable"})
  <2>1. master.done \in Nat
    BY <1>0 DEF LinkTypes
  <2>2. master' = [at |-> "clocking", done |-> master.done, op |-> t.op, register |-> t.register, out |-> t.out,
                   back |-> t.back, got |-> <<>>, control |-> slave.control,
                   frozen |-> counter.state \in {"frozen", "readable"}]
    BY DEF Select
  <2> QED BY <2>1, <2>2
<1>2. ASSUME t.op \in {"read", "write", "driver", "broadcast"}, t.register \in {"Control", "TCXOLatch", "Sig"},
             t.out \in Seq(Int)
      PROVE  LinkTypes'
  <2>1. master'.frozen \in BOOLEAN
    BY <1>1
  <2> QED BY <1>0, <1>1, <1>2, <2>1 DEF LinkTypes
<1>3. ASSUME NEW r \in {"Control", "TCXOLatch", "Sig"}, t.op = "read", t.register = r, t.back = Width(r),
             t.out = Framed(0, Address(r), [i \in 1..Width(r) |-> 1])
      PROVE  LinkTypes' /\ HeaderInv' /\ ReadInv'
  <2> DEFINE a == Address(r)
             w == Width(r)
             rest == [i \in 1..w |-> 1]
  <2>2. a \in Seq(Int) /\ Len(a) = 7 /\ w \in {8, 32} /\ (r # "Control" => w = 32)
    BY AddressFacts
  <2> HIDE DEF a, w
  <2>3. rest \in Seq(Int) /\ Len(rest) = w
    BY <2>2
  <2> HIDE DEF rest
  <2>4. t.out = Framed(0, a, rest) /\ t.back = w
    BY <1>3, Zenon DEF a, w, rest
  <2>5. t.out \in Seq(Int) /\ Len(t.out) = 8 + w /\ t.out[1] = 0 /\ \A j \in 1..7 : t.out[j + 1] = a[j]
    <3>1. 0 \in Int
      OBVIOUS
    <3> DEFINE x == Framed(0, a, rest)
    <3>2. x \in Seq(Int) /\ Len(x) = 8 + Len(rest) /\ Begins(x, 0, a)
      BY <2>2, <2>3, <3>1, HeaderFirst, Zenon
    <3> HIDE DEF x
    <3>3. t.out = x
      BY <2>4, Zenon DEF x
    <3> QED BY <2>3, <3>2, <3>3 DEF Begins
  <2>6. Target' = a
    BY <1>1, <1>3 DEF Target, a
  <2>7. LinkTypes'
    BY <1>2, <1>3, <2>5, Zenon
  <2>8. HeaderInv'
    <3>1. slave'.count = 0 /\ master'.op = "read" /\ master'.back = w /\ master'.out = t.out
      BY <1>0, <1>1, <1>3, <2>4
    <3>2. \A j \in 1..7 : master'.out[j - slave'.count + 1] = Target'[j]
      <4> TAKE j \in 1..7
      <4>1. j - 0 + 1 = j + 1
        OBVIOUS
      <4> QED BY <2>5, <2>6, <3>1, <4>1, Zenon
    <3> QED BY <2>2, <2>5, <3>1, <3>2 DEF HeaderInv, First
  <2>9. ReadInv'
    <3>1. <<>> \in Seq(ShownBits')
      OBVIOUS
    <3> QED BY <1>0, <1>1, <1>3, <2>2, <2>4, <3>1 DEF ReadInv, Steady
  <2> QED BY <2>7, <2>8, <2>9
<1>4. ASSUME t.op = "driver", t.register = "Sig", t.back = 32,
             t.out = Framed(1, [i \in 1..7 |-> 1], Zeros(32))
      PROVE  LinkTypes' /\ HeaderInv' /\ ReadInv'
  <2> DEFINE a == [i \in 1..7 |-> 1]
             rest == Zeros(32)
  <2>1. t.out = Framed(1, a, rest)
    BY <1>4, Zenon
  <2>2. a \in Seq(Int) /\ Len(a) = 7 /\ a = <<1, 1, 1, 1, 1, 1, 1>>
    OBVIOUS
  <2>3. rest \in Seq(Int) /\ Len(rest) = 32
    BY DEF Zeros
  <2> HIDE DEF a, rest
  <2>5. t.out \in Seq(Int) /\ Len(t.out) = 8 + Len(rest) /\ t.out[1] = 1 /\ \A j \in 1..7 : t.out[j + 1] = a[j]
    <3>1. 1 \in Int
      OBVIOUS
    <3> DEFINE x == Framed(1, a, rest)
    <3>2. x \in Seq(Int) /\ Len(x) = 8 + Len(rest) /\ Begins(x, 1, a)
      BY <2>2, <2>3, <3>1, HeaderFirst, Zenon
    <3> HIDE DEF x
    <3>3. t.out = x
      BY <2>1, Zenon DEF x
    <3> QED BY <3>2, <3>3 DEF Begins
  <2>6. Target' = a
    BY <1>1, <1>4, <2>2, Zenon DEF Target
  <2>7. LinkTypes'
    BY <1>2, <1>4, <2>5, Zenon
  <2>8. HeaderInv'
    BY <1>0, <1>1, <1>4, <2>3, <2>5, <2>6 DEF HeaderInv, First
  <2>9. ReadInv'
    BY <1>1, <1>4 DEF ReadInv, Steady
  <2> QED BY <2>7, <2>8, <2>9
<1>6. ASSUME t.op = "broadcast", t.register = "Control", t.back = 32,
             t.out = Framed(0, Address("Control"), Zeros(31) \o << 1 >>)
      PROVE  LinkTypes' /\ HeaderInv' /\ ReadInv'
  <2> DEFINE a == Address("Control")
             rest == Zeros(31) \o << 1 >>
  <2>1. t.out = Framed(0, a, rest)
    BY <1>6, Zenon
  <2>2. a \in Seq(Int) /\ Len(a) = 7
    BY AddressFacts
  <2>3. rest \in Seq(Int) /\ Len(rest) = 32
    <3> DEFINE z == Zeros(31)
               one == << 1 >>
    <3>1. z \in Seq(Int) /\ Len(z) = 31 /\ one \in Seq(Int) /\ Len(one) = 1
      BY DEF Zeros
    <3> HIDE DEF z, one
    <3>2. z \o one \in Seq(Int) /\ Len(z \o one) = Len(z) + Len(one)
      BY <3>1, ConcatProperties, Zenon
    <3>3. z \o one \in Seq(Int) /\ Len(z \o one) = 32
      BY <3>1, <3>2
    <3> QED BY <3>3, Zenon DEF z, one
  <2> HIDE DEF a, rest
  <2>5. t.out \in Seq(Int) /\ Len(t.out) = 8 + Len(rest) /\ t.out[1] = 0 /\ \A j \in 1..7 : t.out[j + 1] = a[j]
    <3>1. 0 \in Int
      OBVIOUS
    <3> DEFINE x == Framed(0, a, rest)
    <3>2. x \in Seq(Int) /\ Len(x) = 8 + Len(rest) /\ Begins(x, 0, a)
      BY <2>2, <2>3, <3>1, HeaderFirst, Zenon
    <3> HIDE DEF x
    <3>3. t.out = x
      BY <2>1, Zenon DEF x
    <3> QED BY <3>2, <3>3 DEF Begins
  <2>6. Target' = a
    BY <1>1, <1>6 DEF Target, a
  <2>7. LinkTypes'
    BY <1>2, <1>6, <2>5, Zenon
  <2>8. HeaderInv'
    BY <1>0, <1>1, <1>6, <2>3, <2>5, <2>6 DEF HeaderInv, First
  <2>9. ReadInv'
    BY <1>1, <1>6 DEF ReadInv, Steady
  <2> QED BY <2>7, <2>8, <2>9
<1>5. ASSUME NEW r \in {"Control", "Sig"}, NEW rest \in Seq(Int),
             t.op = "write", t.register = r, t.out = Framed(1, Address(r), rest)
      PROVE  LinkTypes' /\ HeaderInv' /\ ReadInv'
  <2> DEFINE a == Address(r)
  <2>1. a \in Seq(Int) /\ Len(a) = 7
    BY AddressFacts
  <2> HIDE DEF a
  <2>2. t.out \in Seq(Int)
    <3>1. 1 \in Int
      OBVIOUS
    <3> QED BY <1>5, <2>1, <3>1, HeaderFirst, Zenon DEF a
  <2>3. r \in {"Control", "TCXOLatch", "Sig"}
    OBVIOUS
  <2>7. LinkTypes'
    BY <1>2, <1>5, <2>2, <2>3, Zenon
  <2>8. HeaderInv' /\ ReadInv'
    BY <1>1, <1>5 DEF HeaderInv, ReadInv, Steady
  <2> QED BY <2>7, <2>8
<1> QED BY <1>3, <1>4, <1>5, <1>6, TransactionKinds, Zenon

\* A word shifted by one, as a register does it.
IsShifted(x, s, e, n, S) ==
  /\ x \in Seq(S) /\ Len(x) = n + 1 /\ x[n + 1] = e /\ \A i \in 1..n : x[i] = s[i + 1]
  /\ Head(s) = s[1] /\ s[1] \in S

LEMMA Shifted ==
  ASSUME NEW S, NEW s \in Seq(S), NEW e \in S, NEW n \in Nat, Len(s) = n + 1
  PROVE  IsShifted(Append(Tail(s), e), s, e, n, S)
<1> DEFINE t == Tail(s)
<1>1. s # <<>>
  OBVIOUS
<1>2. /\ Head(s) = s[1] /\ s[1] \in S /\ t \in Seq(S) /\ Len(t) = n
      /\ \A i \in 1..n : t[i] = s[i + 1]
  <2>1. t \in Seq(S) /\ Len(t) = Len(s) - 1 /\ \A i \in 1..Len(t) : t[i] = s[i + 1]
    BY <1>1, HeadTailProperties, Zenon
  <2>2. Len(t) = n
    BY <2>1
  <2>3. s[1] \in S
    BY ElementOfSeq
  <2> QED BY <2>1, <2>2, <2>3
<1> HIDE DEF t
<1>3. /\ Append(t, e) \in Seq(S) /\ Len(Append(t, e)) = n + 1
      /\ Append(t, e)[n + 1] = e /\ \A i \in 1..n : Append(t, e)[i] = t[i]
  BY <1>2
<1> QED BY <1>2, <1>3 DEF t, IsShifted

LEMMA ClockKeeps ==
  ASSUME LinkInv, ClockBit
  PROVE  LinkTypes' /\ HeaderInv' /\ ReadInv'
<1> DEFINE c == slave.count
           bit == Head(master.out)
           D == {"at", "done", "op", "register", "out", "back", "got", "control", "frozen"}
<1>1. /\ CounterInv /\ LinkTypes /\ HeaderInv /\ ReadInv
      /\ master.at = "clocking" /\ master.out # <<>> /\ slave' = Clocked(bit) /\ counter' = counter
  BY DEF LinkInv, ClockBit
<1>2. master.out \in Seq(Int) /\ Len(master.out) \in Nat \ {0} /\ bit \in Int /\ bit = master.out[1]
      /\ Tail(master.out) \in Seq(Int) /\ Len(Tail(master.out)) = Len(master.out) - 1
      /\ \A i \in 1..Len(master.out) - 1 : Tail(master.out)[i] = master.out[i + 1]
  BY <1>1 DEF LinkTypes
<1>3. /\ master'.at = "clocking" /\ master'.op = master.op /\ master'.register = master.register
      /\ master'.done = master.done /\ master'.back = master.back /\ master'.control = master.control
      /\ master'.frozen = master.frozen /\ DOMAIN master' = D /\ master'.out = Tail(master.out)
      /\ master'.got = IF Len(master.out) <= master.back THEN Append(master.got, Head(slave.word)) ELSE master.got
  BY <1>1 DEF ClockBit, LinkTypes
<1> DEFINE header == c \in 1..7
           addr == Append(Tail(slave.addr), bit)
<1>4. addr \in Seq(Int) /\ Len(addr) = 7 /\ addr[7] = bit /\ \A i \in 1..6 : addr[i] = slave.addr[i + 1]
  <2> DEFINE x == Append(Tail(slave.addr), bit)
             k == 6
  <2>1. slave.addr \in Seq(Int) /\ Len(slave.addr) = k + 1 /\ bit \in Int /\ k \in Nat
    BY <1>1, <1>2 DEF LinkTypes
  <2> HIDE DEF k
  <2>2. IsShifted(x, slave.addr, bit, k, Int)
    BY <2>1, Shifted, Zenon
  <2> HIDE DEF x
  <2>3. x \in Seq(Int) /\ Len(x) = 7 /\ x[7] = bit /\ \A i \in 1..6 : x[i] = slave.addr[i + 1]
    BY <2>2 DEF k, IsShifted
  <2> QED BY <2>3 DEF x
<1> HIDE DEF bit
<1>5. slave' = [count |-> (c + 1) % 64,
                write |-> IF c = 0 THEN bit ELSE slave.write,
                addr |-> IF header THEN addr ELSE slave.addr,
                word |-> IF c = 0 THEN slave.word
                         ELSE IF header THEN (IF slave.write = 0 THEN Loaded(addr) ELSE slave.word)
                         ELSE Append(Tail(slave.word), IF slave.write = 1 THEN bit ELSE Head(slave.word)),
                control |-> IF slave.write = 1 /\ slave.addr = Address("Control") /\ c = Width("Control")
                            THEN SubSeq(slave.word, 25, 32) ELSE slave.control]
  BY <1>1, Zenon DEF Clocked
<1>domain. DOMAIN slave' = {"count", "word", "addr", "write", "control"}
  BY <1>5
<1>count. slave'.count = (c + 1) % 64
  BY <1>5, Zenon
<1>write. slave'.write = IF c = 0 THEN bit ELSE slave.write
  BY <1>5, Zenon
<1>addr. slave'.addr = IF header THEN addr ELSE slave.addr
  BY <1>5, Zenon
<1>word. slave'.word = IF c = 0 THEN slave.word
                       ELSE IF header THEN (IF slave.write = 0 THEN Loaded(addr) ELSE slave.word)
                       ELSE Append(Tail(slave.word), IF slave.write = 1 THEN bit ELSE Head(slave.word))
  BY <1>5, Zenon
<1>control. slave'.control = IF slave.write = 1 /\ slave.addr = Address("Control") /\ c = Width("Control")
                             THEN SubSeq(slave.word, 25, 32) ELSE slave.control
  BY <1>5, Zenon
<1>6. c \in Nat /\ slave'.count \in Nat /\ slave.addr \in Seq(Int) /\ Len(slave.addr) = 7
  <2>1. c \in Nat /\ slave.addr \in Seq(Int) /\ Len(slave.addr) = 7
    BY <1>1 DEF LinkTypes
  <2> QED BY <1>count, <2>1
<1> DEFINE n == Len(master.out)
<1>len. n \in Nat \ {0}
  BY <1>2
<1> HIDE DEF addr, c, n
<1>7. slave'.addr \in Seq(Int) /\ Len(slave'.addr) = 7
  BY <1>4, <1>6, <1>addr
<1>8. ASSUME master.op # "write" PROVE slave'.control = slave.control
  <2>1. CASE master.op \in {"read", "broadcast"}
    <3>1. c > 0 => slave.write = 0
      BY <1>1, <2>1 DEF HeaderInv, First, c
    <3>2. Width("Control") = 8
      BY DEF Width
    <3> QED BY <1>6, <1>control, <3>1, <3>2
  <2>2. CASE master.op = "driver"
    <3>1. c = 8 => slave.addr[1] = 1
      BY <1>1, <1>8, <2>2 DEF HeaderInv, Target, c
    <3>2. Width("Control") = 8 /\ Address("Control")[1] = 0
      BY DEF Width, Address
    <3> QED BY <1>6, <1>control, <3>1, <3>2
  <2> QED BY <1>1, <1>8, <2>1, <2>2 DEF LinkTypes
<1>9. LinkTypes'
  <2>1. /\ master.op \in {"read", "write", "driver", "broadcast"} /\ master.register \in {"Control", "TCXOLatch", "Sig"}
        /\ master.frozen \in BOOLEAN /\ (master.frozen => counter.state \in {"frozen", "readable"})
        /\ (master.op # "write" => slave.control = master.control) /\ master.done \in Nat
    BY <1>1 DEF LinkTypes
  <2>2. master.op # "write" => slave'.control = master.control
    BY <1>8, <2>1
  <2>3. master'.at \in {"idle", "clocking"} /\ master'.at # "idle"
    BY <1>3
  <2> QED BY <1>1, <1>2, <1>3, <1>6, <1>7, <1>domain, <2>1, <2>2, <2>3, Zenon DEF LinkTypes
<1>10. HeaderInv'
  <2> SUFFICES ASSUME master.op # "write" PROVE HeaderInv'
    BY <1>3 DEF HeaderInv
  <2>0. master.back \in {8, 32} /\ c + n = 8 + master.back
    BY <1>1 DEF HeaderInv, c, n
  <2>1. /\ c = 0 => bit = First(master.op)
        /\ c > 0 => slave.write = First(master.op)
    BY <1>1, <1>2 DEF HeaderInv, c
  <2>2. c < 40 /\ slave'.count = c + 1
    <3>1. c < 40
      BY <1>6, <1>len, <2>0
    <3>2. (c + 1) % 64 = c + 1
      <4>1. c \in Nat
        BY <1>6
      <4> QED BY <3>1, <4>1
    <3> QED BY <1>count, <3>1, <3>2
  <2>3. Target' = Target
    BY <1>3 DEF Target
  <2>4. slave'.write = First(master.op)
    BY <1>6, <1>write, <2>1
  <2>5. ASSUME NEW j \in 1..7
        PROVE  IF c + 1 <= j THEN Tail(master.out)[j - (c + 1) + 1] = Target[j]
               ELSE c + 1 <= 8 => slave'.addr[8 - (c + 1) + j] = Target[j]
    <3>0. IF c <= j THEN master.out[j - c + 1] = Target[j] ELSE c <= 8 => slave.addr[8 - c + j] = Target[j]
      BY <1>1 DEF HeaderInv, c
    <3>1. CASE c + 1 <= j
      <4>1. j - c \in 1..n - 1 /\ j - (c + 1) + 1 = j - c /\ (j - c) + 1 = j - c + 1 /\ c <= j
        BY <1>6, <1>len, <2>0, <3>1
      <4>2. Tail(master.out)[j - c] = master.out[j - c + 1]
        BY <1>2, <4>1, Zenon DEF n
      <4> QED BY <3>0, <3>1, <4>1, <4>2
    <3>2. CASE c = j
      <4>1. j - c + 1 = 1 /\ c <= j
        BY <1>6, <3>2
      <4>2. bit = Target[j]
        BY <1>2, <3>0, <4>1
      <4>3. 8 - (c + 1) + j = 7 /\ ~(c + 1 <= j) /\ c \in 1..7
        BY <1>6, <3>2
      <4> QED BY <1>4, <1>addr, <4>2, <4>3, Zenon
    <3>3. CASE c > j /\ c + 1 <= 8
      <4> DEFINE k == 8 - (c + 1) + j
      <4>1. k \in 1..6 /\ k + 1 = 8 - c + j /\ ~(c <= j) /\ c <= 8 /\ ~(c + 1 <= j) /\ c \in 1..7
        BY <1>6, <3>3
      <4> HIDE DEF k
      <4>2. slave'.addr[k] = slave.addr[k + 1]
        BY <1>4, <1>addr, <4>1, Zenon
      <4>3. slave.addr[8 - c + j] = Target[j]
        BY <3>0, <4>1, Zenon
      <4> QED BY <4>1, <4>2, <4>3, Zenon DEF k
    <3>4. CASE ~(c + 1 <= 8)
      <4>1. ~(c + 1 <= j)
        BY <1>6, <3>4
      <4> QED BY <3>4, <4>1, Zenon
    <3>5. c + 1 <= j \/ c = j \/ (c > j /\ c + 1 <= 8) \/ ~(c + 1 <= 8)
      BY <1>6
    <3> QED BY <3>1, <3>2, <3>3, <3>4, <3>5, Zenon
  <2>6. Len(Tail(master.out)) = n - 1 /\ (c + 1) + (n - 1) = 8 + master.back
    <3>1. Len(Tail(master.out)) = n - 1
      BY <1>2, Zenon DEF n
    <3> QED BY <1>6, <1>len, <2>0, <3>1
  <2>7. c + 1 # 0 /\ c + 1 > 0
    BY <1>6
  <2> QED BY <1>3, <2>0, <2>2, <2>3, <2>4, <2>5, <2>6, <2>7, Zenon DEF HeaderInv
<1>11. ReadInv'
  <2> SUFFICES ASSUME Steady' PROVE ReadInv'
    BY DEF ReadInv
  <2>1. Steady /\ Shown' = Shown /\ ShownBits' = ShownBits
    BY <1>1, <1>3 DEF Steady, Shown, ShownBits
  <2>2. Shown \in Seq(ShownBits) /\ Len(Shown) = 32
    BY ShownIsAWord
  <2>3. /\ master.op = "read" /\ master.back = 32 /\ c + n = 40 /\ master.got \in Seq(ShownBits)
        /\ c > 0 => slave.write = 0
    <3>1. master.op = "read" /\ master.back = 32 /\ master.got \in Seq(ShownBits)
      BY <1>1, <2>1 DEF Steady, ReadInv
    <3> QED BY <1>1, <3>1 DEF HeaderInv, First, c, n
  <2>4. c < 40 /\ slave'.count = c + 1
    <3>1. c < 40
      BY <1>6, <1>len, <2>3
    <3> QED BY <1>6, <1>count, <3>1
  <2>got. /\ c < 8 => master'.got = master.got /\ master.got = <<>>
          /\ c >= 8 => master'.got = Append(master.got, Head(slave.word))
    <3>1. n <= master.back <=> c >= 8
      BY <1>6, <1>len, <2>3
    <3>2. master'.got = IF n <= master.back THEN Append(master.got, Head(slave.word)) ELSE master.got
      BY <1>3, Zenon DEF n
    <3>3. c < 8 => master.got = <<>>
      BY <1>1, <2>1 DEF ReadInv, c
    <3>4. c < 8 => ~(c >= 8)
      BY <1>6
    <3> QED BY <3>1, <3>2, <3>3, <3>4, Zenon
  <2>5. CASE c < 7
    <3>1. c + 1 < 8 /\ c < 8
      BY <1>6, <2>5
    <3> QED BY <1>3, <2>1, <2>3, <2>4, <2>got, <3>1 DEF ReadInv
  <2>6. CASE c = 7
    <3>2. addr = Address(master.register)
      <4>1. Target = Address(master.register)
        BY <2>3 DEF Target
      <4>2. \A j \in 1..7 : slave'.addr[j] = Target'[j]
        <5>1. \A j \in 1..7 : slave'.addr[8 - 8 + j] = Target'[j]
          BY <1>3, <1>10, <2>3, <2>4, <2>6 DEF HeaderInv
        <5> QED BY <5>1
      <4>3. Target' = Target /\ slave'.addr = addr
        BY <1>3, <1>addr, <2>6 DEF Target
      <4> DEFINE a == Address(master.register)
      <4>4. a \in Seq(Int) /\ Len(a) = 7
        BY <1>1, AddressFacts DEF LinkTypes
      <4> HIDE DEF a
      <4>5. \A j \in 1..7 : addr[j] = a[j]
        BY <4>1, <4>2, <4>3, Zenon DEF a
      <4>6. addr = a
        <5>1. Len(addr) = Len(a) /\ \A j \in 1..Len(addr) : addr[j] = a[j]
          BY <1>4, <4>4, <4>5, Zenon
        <5> QED BY <1>4, <4>4, <5>1, SeqEqual, Zenon
      <4> QED BY <4>6 DEF a
    <3>3. slave'.word = Shown
      <4>1. slave'.word = Loaded(addr)
        BY <1>word, <2>3, <2>6
      <4>0. Address("Sig")[1] = 1 /\ Address("TCXOLatch")[1] = 0 /\ Address("Control")[1] = 0
            /\ Address("Control")[5] = 0 /\ Address("TCXOLatch")[5] = 1
        BY DEF Address
      <4>9. /\ Address("Sig") # Address("Control") /\ Address("Sig") # Address("TCXOLatch")
            /\ Address("TCXOLatch") # Address("Control")
        <5> DEFINE x == Address("Sig")
                   y == Address("TCXOLatch")
                   z == Address("Control")
        <5>1. x[1] = 1 /\ y[1] = 0 /\ z[1] = 0 /\ z[5] = 0 /\ y[5] = 1
          BY <4>0
        <5> HIDE DEF x, y, z
        <5>2. x # z /\ x # y /\ y # z
          BY <5>1
        <5> QED BY <5>2 DEF x, y, z
      <4>2. CASE master.register = "Sig"
        <5>2. addr = Address("Sig") /\ Shown = Signature
          BY <3>2, <4>2 DEF Shown
        <5> QED BY <4>1, <4>9, <5>2, Zenon DEF Loaded
      <4>3. CASE master.register = "TCXOLatch" /\ master.frozen
        <5>2. Shown = Zeros(22) \o Bits(counter.value, 10)
          <6>1. counter.high = counter.value
            BY <1>1, <4>3 DEF LinkTypes, CounterInv
          <6> QED BY <4>3, <6>1 DEF Shown
        <5>3. addr = Address("TCXOLatch")
          BY <3>2, <4>3
        <5> QED BY <4>1, <4>9, <5>2, <5>3, Zenon DEF Loaded
      <4> QED BY <2>1, <4>2, <4>3 DEF Steady
    <3>4. <<>> \in Seq(ShownBits) /\ Len(<<>>) = 0
      OBVIOUS
    <3>5. slave'.count = 8 /\ master'.got = <<>>
      BY <2>4, <2>6, <2>got
    <3>6. \A i \in 1..40 - 8 : Shown[i] = Shown[8 - 8 + i]
      OBVIOUS
    <3> QED BY <1>3, <2>1, <2>2, <2>3, <3>3, <3>4, <3>5, <3>6 DEF ReadInv
  <2>7. CASE c >= 8
    <3> DEFINE w == slave.word
               got == master.got
               h == Head(w)
               v == Append(Tail(w), h)
               g == Append(got, h)
    <3>1. /\ Len(got) = c - 8 /\ \A i \in 1..c - 8 : got[i] = Shown[i]
          /\ w \in Seq(ShownBits) /\ Len(w) = 32
          /\ \A i \in 1..40 - c : w[i] = Shown[c - 8 + i]
      <4>1. ~(c < 8)
        BY <1>6, <2>7
      <4> QED BY <1>1, <2>1, <4>1, Zenon DEF ReadInv, c
    <3>5. slave'.word = v /\ master'.got = g
      <4>1. c # 0 /\ ~(c \in 1..7) /\ slave.write = 0
        BY <1>6, <2>3, <2>7
      <4> QED BY <1>word, <2>7, <2>got, <4>1
    <3> HIDE DEF w, got
    <3>2. h \in ShownBits /\ h = w[1] /\ h = Shown[c - 8 + 1]
      <4>1. 1 \in 1..40 - c
        BY <1>6, <2>4
      <4>2. w[1] = Shown[c - 8 + 1]
        BY <3>1, <4>1
      <4> DEFINE k == 31
      <4>3. w \in Seq(ShownBits) /\ Len(w) = k + 1 /\ k \in Nat /\ Shown[1] \in ShownBits
        BY <3>1 DEF ShownBits
      <4> HIDE DEF k
      <4>4. IsShifted(Append(Tail(w), Shown[1]), w, Shown[1], k, ShownBits)
        BY <4>3, Shifted, Zenon
      <4>5. h = w[1] /\ h \in ShownBits
        BY <4>4, Zenon DEF IsShifted
      <4> QED BY <4>2, <4>5, Zenon
    <3> HIDE DEF h
    <3>3. v \in Seq(ShownBits) /\ Len(v) = 32 /\ \A i \in 1..31 : v[i] = w[i + 1]
      <4> DEFINE k == 31
      <4>1. w \in Seq(ShownBits) /\ Len(w) = k + 1 /\ k \in Nat
        BY <3>1
      <4> HIDE DEF k
      <4>2. IsShifted(v, w, h, k, ShownBits)
        BY <3>2, <4>1, Shifted, Zenon
      <4> HIDE DEF v
      <4> QED BY <4>2 DEF k, IsShifted
    <3>4. g \in Seq(ShownBits) /\ Len(g) = c - 8 + 1 /\ g[c - 8 + 1] = h /\ \A i \in 1..c - 8 : g[i] = got[i]
      <4>1. got \in Seq(ShownBits) /\ Len(got) = c - 8 /\ c - 8 \in Nat
        BY <1>6, <2>3, <2>7, <3>1 DEF got
      <4> QED BY <3>2, <4>1
    <3> HIDE DEF v, g
    <3>6. \A i \in 1..(c + 1) - 8 : g[i] = Shown[i]
      <4> TAKE i \in 1..(c + 1) - 8
      <4>1. i \in 1..c - 8 \/ i = c - 8 + 1
        BY <1>6, <2>7
      <4>2. CASE i \in 1..c - 8
        BY <3>1, <3>4, <4>2, Zenon
      <4>3. CASE i = c - 8 + 1
        BY <3>2, <3>4, <4>3, Zenon
      <4> QED BY <4>1, <4>2, <4>3
    <3>7. \A i \in 1..40 - (c + 1) : v[i] = Shown[(c + 1) - 8 + i]
      <4> TAKE i \in 1..40 - (c + 1)
      <4>1. i \in 1..31 /\ i + 1 \in 1..40 - c /\ c - 8 + (i + 1) = (c + 1) - 8 + i
        BY <1>6, <2>4, <2>7
      <4> DEFINE i1 == i + 1
      <4> HIDE DEF i1
      <4>2. v[i] = w[i1] /\ w[i1] = Shown[c - 8 + i1]
        BY <3>1, <3>3, <4>1, Zenon DEF i1
      <4> QED BY <4>1, <4>2, Zenon DEF i1
    <3>8. Len(g) = (c + 1) - 8 /\ ~(c + 1 < 8)
      BY <1>6, <2>7, <3>4
    <3> QED BY <1>3, <2>1, <2>3, <2>4, <3>3, <3>4, <3>5, <3>6, <3>7, <3>8, Zenon DEF ReadInv
  <2> QED BY <1>6, <2>5, <2>6, <2>7
<1> QED BY <1>9, <1>10, <1>11

LEMMA DeselectKeeps ==
  ASSUME LinkInv, Deselect
  PROVE  LinkTypes' /\ HeaderInv' /\ ReadInv'
<1> DEFINE D == {"at", "done", "op", "register", "out", "back", "got", "control", "frozen"}
<1>1. /\ CounterInv /\ LinkTypes /\ HeaderInv /\ ReadInv
      /\ master.at = "clocking" /\ master.out = <<>> /\ counter' = counter
  BY DEF LinkInv, Deselect
<1>2. /\ slave' = [slave EXCEPT !.count = 0, !.word = Zeros(32)]
      /\ master' = [master EXCEPT !.at = "idle", !.done = @ + 1]
  BY DEF Deselect, Deselected
<1>3. /\ DOMAIN slave' = {"count", "word", "addr", "write", "control"}
      /\ slave'.count = 0 /\ slave'.addr = slave.addr /\ slave'.control = slave.control
  BY <1>1, <1>2 DEF LinkTypes
<1>4. /\ DOMAIN master' = D /\ master'.at = "idle" /\ master'.done = master.done + 1 /\ master'.op = master.op
      /\ master'.register = master.register /\ master'.out = master.out /\ master'.got = master.got
      /\ master'.control = master.control /\ master'.frozen = master.frozen
  BY <1>1, <1>2 DEF LinkTypes
<1>5. LinkTypes'
  <2>1. master.done + 1 \in Nat
    BY <1>1 DEF LinkTypes
  <2> QED BY <1>1, <1>3, <1>4, <2>1 DEF LinkTypes
<1>6. HeaderInv'
  BY <1>4 DEF HeaderInv
<1>7. ReadInv'
  <2> SUFFICES ASSUME Steady' PROVE master.got = Shown'
    BY <1>4 DEF ReadInv
  <2>1. Steady /\ Shown' = Shown
    BY <1>1, <1>4 DEF Steady, Shown
  <2>2. Shown \in Seq(ShownBits) /\ Len(Shown) = 32
    BY ShownIsAWord
  <2>3. slave.count \in Nat /\ slave.count + 0 = 8 + 32 /\ master.got \in Seq(ShownBits)
    <3>1. Len(<<>>) = 0
      OBVIOUS
    <3> QED BY <1>1, <2>1, <3>1 DEF Steady, HeaderInv, ReadInv, LinkTypes
  <2>4. Len(master.got) = 32 /\ \A i \in 1..32 : master.got[i] = Shown[i]
    <3>1. slave.count = 40
      BY <2>3
    <3> QED BY <1>1, <2>1, <3>1 DEF ReadInv
  <2> DEFINE g == master.got
             x == Shown
  <2> HIDE DEF g, x
  <2>5. g = x
    <3>1. g \in Seq(ShownBits) /\ x \in Seq(ShownBits) /\ Len(g) = 32 /\ Len(x) = 32 /\ \A i \in 1..32 : g[i] = x[i]
      BY <2>2, <2>3, <2>4, Zenon DEF g, x
    <3>2. Len(g) = Len(x) /\ \A i \in 1..Len(g) : g[i] = x[i]
      BY <3>1, Zenon
    <3> QED BY <3>1, <3>2, SeqEqual, Zenon
  <2> QED BY <2>1, <2>5, Zenon DEF g, x
<1> QED BY <1>5, <1>6, <1>7

\* The counter's own steps touch neither side of the link, and leave what is frozen as it is.
LEMMA CounterKeeps ==
  ASSUME LinkInv, [LinkNext]_linkVars, slave' = slave, master' = master
  PROVE  LinkTypes' /\ HeaderInv' /\ ReadInv'
<1>1. CounterInv /\ LinkTypes /\ HeaderInv /\ ReadInv
  BY DEF LinkInv
<1>2. counter.state \in {"frozen", "readable"} =>
        counter'.state \in {"frozen", "readable"} /\ counter'.high = counter.high
  BY <1>1, FrozenStays
<1>3. LinkTypes'
  BY <1>1, <1>2 DEF LinkTypes
<1>4. HeaderInv'
  BY <1>1 DEF HeaderInv, Target
<1>5. ReadInv'
  <2> SUFFICES ASSUME Steady', master.at = "clocking" \/ master.done > 0 PROVE ReadInv'
    BY DEF ReadInv
  <2>0. Steady /\ master.op = "read" /\ (master.frozen => counter'.high = counter.high)
    BY <1>1, <1>2 DEF Steady, LinkTypes
  <2>1. Shown' = Shown
    BY <2>0 DEF Steady, Shown
  <2>2. ShownBits' = ShownBits
    BY <2>1 DEF ShownBits
  <2> QED BY <1>1, <2>0, <2>1, <2>2 DEF ReadInv
<1> QED BY <1>3, <1>4, <1>5

\* The invariant of the register link, for every signature and any number of transactions, ticks and pulses.
THEOREM LinkInvariant == LinkSpec => []LinkInv
<1>1. LinkInv /\ [LinkNext]_linkVars => LinkInv'
  <2> SUFFICES ASSUME LinkInv, [LinkNext]_linkVars PROVE LinkInv'
    OBVIOUS
  <2>1. CounterInv'
    BY CounterGoesOn DEF LinkInv
  <2>2. ASSUME NEW t \in Transactions, Select(t) PROVE LinkTypes' /\ HeaderInv' /\ ReadInv'
    BY <2>2, SelectKeeps
  <2>3. CASE ClockBit
    BY <2>1, <2>3, ClockKeeps DEF LinkInv
  <2>4. CASE Deselect
    BY <2>1, <2>4, DeselectKeeps DEF LinkInv
  <2>5. CASE Tick \/ PulseEdge \/ UNCHANGED linkVars
    <3>1. slave' = slave /\ master' = master
      BY <2>5 DEF Tick, PulseEdge, linkVars
    <3> QED BY <2>1, <3>1, CounterKeeps DEF LinkInv
  <2> QED BY <2>1, <2>2, <2>3, <2>4, <2>5 DEF LinkNext, LinkInv
<1> QED BY <1>1, LinkStarts, PTL DEF LinkSpec

\* CpldRight: whatever went before, the signature and a frozen count are read whole, neither a read nor
\* what the firmware's driver sends changes the control register, and the count is that of the ticks the
\* pulse was high.
THEOREM RegistersReadRight == LinkSpec => []CpldRight
<1>1. LinkInv => CpldRight
  <2> SUFFICES ASSUME LinkInv, master.at = "idle", master.done > 0 PROVE CpldRight
    BY DEF CpldRight
  <2>1. Steady => master.got = Shown
    BY DEF LinkInv, ReadInv
  <2>2. master.op # "write" => slave.control = master.control
    BY DEF LinkInv, LinkTypes
  <2>3. counter.state \in {"frozen", "readable"} => counter.value = counter.high
    BY DEF LinkInv, CounterInv
  <2> QED BY <2>1, <2>2, <2>3 DEF CpldRight, Steady, Shown
<1> QED BY <1>1, LinkInvariant, PTL

----------------------------------------------------------------------------
Divides(d, n) == \E k \in Nat : n = d * k
CommonDivisors(a, b) == {d \in Nat \ {0} : Divides(d, a) /\ Divides(d, b)}
Greatest(S) == CHOOSE x \in S : \A y \in S : y <= x

\* What divides two numbers divides their sum, and their difference.
LEMMA DividesSum ==
  ASSUME NEW d \in Nat \ {0}, NEW x \in Nat, NEW y \in Nat, Divides(d, x)
  PROVE  Divides(d, y) <=> Divides(d, x + y)
<1>1. PICK k \in Nat : x = d * k
  BY DEF Divides
<1>2. ASSUME Divides(d, y) PROVE Divides(d, x + y)
  <2>1. PICK m \in Nat : y = d * m
    BY <1>2 DEF Divides
  <2>2. x + y = d * (k + m) /\ k + m \in Nat
    BY <1>1, <2>1
  <2> QED BY <2>2, Zenon DEF Divides
<1>3. ASSUME Divides(d, x + y) PROVE Divides(d, y)
  <2>1. PICK m \in Nat : x + y = d * m
    BY <1>3 DEF Divides
  <2>2. y = d * (m - k)
    BY <1>1, <2>1
  <2>3. m >= k
    <3> SUFFICES ASSUME m + 1 <= k PROVE FALSE
      OBVIOUS
    <3>1. d * (k - m - 1) >= 0
      OBVIOUS
    <3>2. d * (k - m - 1) = d * k - d * m - d
      OBVIOUS
    <3>3. d * k \in Int /\ d * m \in Int
      OBVIOUS
    <3> QED BY <1>1, <2>1, <3>1, <3>2, <3>3
  <2>4. m - k \in Nat
    BY <2>3
  <2> QED BY <2>2, <2>4, Zenon DEF Divides
<1> QED BY <1>2, <1>3

\* What divides b divides both or neither of a and a % b.
LEMMA DividesRemainder ==
  ASSUME NEW a \in Nat, NEW b \in Nat \ {0}, NEW d \in Nat \ {0}, Divides(d, b)
  PROVE  a % b \in 0..b - 1 /\ (Divides(d, a) <=> Divides(d, a % b))
<1> DEFINE q == a \div b
           r == a % b
<1>1. q \in Nat /\ r \in 0..b - 1 /\ a = b * q + r
  BY QuotientIsNatural
<1> HIDE DEF q, r
<1>2. PICK k \in Nat : b = d * k
  BY DEF Divides
<1>3. b * q = d * (k * q) /\ k * q \in Nat /\ b * q \in Nat /\ r \in Nat
  BY <1>1, <1>2
<1>4. Divides(d, b * q)
  BY <1>3, Zenon DEF Divides
<1>5. Divides(d, r) <=> Divides(d, b * q + r)
  BY <1>3, <1>4, DividesSum, Zenon
<1> QED BY <1>1, <1>5 DEF r

\* Euclid's step leaves the greatest common divisor as it is, so the recursion has a solution.
LEMMA GcdRecurs ==
  \A a \in Nat, b \in Nat : Gcd[<<a, b>>] = IF b = 0 THEN a ELSE Gcd[<<b, a % b>>]
<1> DEFINE G == [p \in Nat \X Nat |-> IF p[2] = 0 THEN p[1] ELSE Greatest(CommonDivisors(p[1], p[2]))]
           Def(f) == [p \in Nat \X Nat |-> IF p[2] = 0 THEN p[1] ELSE f[<<p[2], p[1] % p[2]>>]]
<1>1. ASSUME NEW a \in Nat, NEW b \in Nat, b # 0 PROVE G[<<a, b>>] = G[<<b, a % b>>]
  <2>0. b \in Nat \ {0}
    BY <1>1
  <2>1. a % b \in 0..b - 1 /\ a % b \in Nat
    BY <2>0, DivMod
  <2>2. G[<<a, b>>] = Greatest(CommonDivisors(a, b))
    BY <1>1, Zenon
  <2>3. CASE a % b = 0
    <3>1. G[<<b, a % b>>] = b
      BY <2>1, <2>3, Zenon
    <3>2. b \in CommonDivisors(a, b)
      <4> DEFINE q == a \div b
      <4>1. q \in Nat /\ a = b * q + (a % b)
        BY <2>0, QuotientIsNatural
      <4> HIDE DEF q
      <4>2. a = b * q /\ b = b * 1
        BY <2>0, <2>3, <4>1
      <4>4. Divides(b, a) /\ Divides(b, b)
        <5>1. q \in Nat /\ 1 \in Nat
          BY <4>1
        <5> QED BY <4>2, <5>1, Zenon DEF Divides
      <4> QED BY <2>0, <4>4, Zenon DEF CommonDivisors
    <3>3. ASSUME NEW d \in CommonDivisors(a, b) PROVE d \in Nat /\ d <= b
      <4>1. d \in Nat \ {0} /\ Divides(d, b)
        BY Zenon DEF CommonDivisors
      <4>2. PICK k \in Nat : b = d * k
        BY <4>1, Zenon DEF Divides
      <4>3. k >= 1
        BY <2>0, <4>1, <4>2
      <4>4. d * (k - 1) >= 0 /\ d * (k - 1) = d * k - d
        BY <4>1, <4>2, <4>3
      <4> QED BY <4>1, <4>2, <4>4
    <3>4. Greatest(CommonDivisors(a, b)) = b
      <4> DEFINE S == CommonDivisors(a, b)
                 x == Greatest(S)
      <4>1. x \in S /\ \A y \in S : y <= x
        <5>1. \E z \in S : \A y \in S : y <= z
          BY <3>2, <3>3
        <5> HIDE DEF S
        <5> QED BY <5>1, Zenon DEF Greatest
      <4> HIDE DEF x
      <4>2. b <= x /\ x <= b /\ x \in Nat
        BY <3>2, <3>3, <4>1
      <4> QED BY <2>0, <4>2 DEF x
    <3> QED BY <2>2, <3>1, <3>4, Zenon
  <2>4. CASE a % b # 0
    <3>1. G[<<b, a % b>>] = Greatest(CommonDivisors(b, a % b))
      BY <2>1, <2>4, Zenon
    <3>2. CommonDivisors(a, b) = CommonDivisors(b, a % b)
      <4>1. ASSUME NEW d \in Nat \ {0} PROVE d \in CommonDivisors(a, b) <=> d \in CommonDivisors(b, a % b)
        BY <2>0, DividesRemainder, Zenon DEF CommonDivisors
      <4> QED BY <4>1, Zenon DEF CommonDivisors
    <3> QED BY <2>2, <3>1, <3>2, Zenon
  <2> QED BY <2>3, <2>4, Zenon
<1>2. G = Def(G)
  <2>1. ASSUME NEW p \in Nat \X Nat
        PROVE  G[p] = IF p[2] = 0 THEN p[1] ELSE G[<<p[2], p[1] % p[2]>>]
    <3>1. p = <<p[1], p[2]>> /\ p[1] \in Nat /\ p[2] \in Nat
      OBVIOUS
    <3>2. CASE p[2] = 0
      BY <3>2, Zenon
    <3>3. CASE p[2] # 0
      BY <1>1, <3>1, <3>3, Zenon
    <3> QED BY <3>2, <3>3, Zenon
  <2>2. G = [p \in Nat \X Nat |-> G[p]]
    OBVIOUS
  <2> HIDE DEF G
  <2> QED BY <2>1, <2>2
<1>3. Gcd = CHOOSE f : f = Def(f)
  BY Zenon DEF Gcd
<1> HIDE DEF G
<1>4. Gcd = Def(Gcd)
  BY <1>2, <1>3, Zenon
<1>5. ASSUME NEW a \in Nat, NEW b \in Nat PROVE Gcd[<<a, b>>] = IF b = 0 THEN a ELSE Gcd[<<b, a % b>>]
  <2>1. <<a, b>> \in Nat \X Nat /\ <<a, b>>[1] = a /\ <<a, b>>[2] = b
    OBVIOUS
  <2>2. Def(Gcd)[<<a, b>>] = IF <<a, b>>[2] = 0 THEN <<a, b>>[1] ELSE Gcd[<<<<a, b>>[2], <<a, b>>[1] % <<a, b>>[2]>>]
    BY <2>1, Zenon
  <2>3. Gcd[<<a, b>>] = Def(Gcd)[<<a, b>>]
    BY <1>4
  <2> HIDE DEF Def
  <2> QED BY <2>1, <2>2, <2>3, Zenon
<1> QED BY <1>5, Zenon

\* The driver's gcd() divides both of its arguments.
LEMMA GcdDivides ==
  ASSUME NEW a \in Nat, NEW b \in Nat, a + b > 0
  PROVE  Gcd[<<a, b>>] \in Nat \ {0} /\ Divides(Gcd[<<a, b>>], a) /\ Divides(Gcd[<<a, b>>], b)
<1> DEFINE Good(x, y) == Gcd[<<x, y>>] \in Nat \ {0} /\ Divides(Gcd[<<x, y>>], x) /\ Divides(Gcd[<<x, y>>], y)
           S == {n \in Nat : \A y \in 0..n, x \in Nat : x + y > 0 => Good(x, y)}
<1>0. \A x \in Nat, y \in Nat : Gcd[<<x, y>>] = IF y = 0 THEN x ELSE Gcd[<<y, x % y>>]
  BY GcdRecurs
<1>1. ASSUME NEW x \in Nat, x > 0 PROVE Good(x, 0)
  <2>1. Gcd[<<x, 0>>] = x
    BY <1>0
  <2>2. x = x * 1 /\ 0 = x * 0
    OBVIOUS
  <2> QED BY <1>1, <2>1, <2>2 DEF Divides
<1>2. 0 \in S
  <2>1. \A y \in 0..0 : y = 0
    OBVIOUS
  <2>2. \A x \in Nat : x + 0 > 0 => x > 0
    OBVIOUS
  <2> HIDE DEF Good
  <2> QED BY <1>1, <2>1, <2>2
<1>3. ASSUME NEW n \in S PROVE n + 1 \in S
  <2>0. n \in Nat /\ \A y \in 0..n, x \in Nat : x + y > 0 => Good(x, y)
    BY Zenon
  <2>1. ASSUME NEW x \in Nat, NEW y \in 0..n + 1, x + y > 0 PROVE Good(x, y)
    <3>1. CASE y \in 0..n
      BY <2>0, <2>1, <3>1, Zenon
    <3>2. CASE y = n + 1
      <4>1. y \in Nat \ {0} /\ y # 0 /\ y \in Nat
        BY <2>0, <3>2
      <4>2. x % y \in 0..n /\ x % y \in Nat /\ y + (x % y) > 0
        <5>1. x % y \in 0..y - 1
          BY <4>1, DivMod
        <5> QED BY <2>0, <3>2, <5>1
      <4>3. Good(y, x % y)
        BY <2>0, <4>1, <4>2, Zenon
      <4>4. Gcd[<<x, y>>] = Gcd[<<y, x % y>>]
        BY <1>0, <4>1, Zenon
      <4> QED BY <4>1, <4>3, <4>4, DividesRemainder, Zenon
    <3>3. y \in 0..n \/ y = n + 1
      BY <2>0
    <3> QED BY <3>1, <3>2, <3>3, Zenon
  <2>2. n + 1 \in Nat
    BY <2>0
  <2> QED BY <2>1, <2>2, Zenon
<1>4. S = Nat
  <2>1. S \subseteq Nat
    OBVIOUS
  <2> HIDE DEF S
  <2> QED BY <1>2, <1>3, <2>1, AllNumbers, Zenon
<1>5. b \in S
  <2> HIDE DEF S
  <2> QED BY <1>4
<1>6. b \in 0..b
  OBVIOUS
<1> QED BY <1>5, <1>6, Zenon

\* A number below 2^18 or 2^20 is its three bytes put together.
LEMMA ThreeBytes ==
  ASSUME NEW p \in Nat
  PROVE  /\ p < 262144 => p = 65536 * ((p \div 65536) % 4) + 256 * ((p \div 256) % 256) + (p % 256)
         /\ p < 1048576 => p = 65536 * ((p \div 65536) % 16) + 256 * ((p \div 256) % 256) + (p % 256)
<1> DEFINE h == p \div 65536
           m == p \div 256
<1>1. p = 256 * m + (p % 256) /\ m \in Nat /\ p % 256 \in Nat /\ p % 256 < 256
  BY SMT
<1>2. m \div 256 = h
  BY SMT
<1> HIDE DEF m
<1>3. m = 256 * (m \div 256) + (m % 256)
  BY <1>1, SMT
<1>4. p = 65536 * h + 256 * (m % 256) + (p % 256) /\ m % 256 \in Nat
  BY <1>1, <1>2, <1>3, SMT
<1>5. h \in Nat
  BY SMT
<1> HIDE DEF h
<1>6. p < 262144 => h % 4 = h
  BY <1>1, <1>4, <1>5, SMT
<1>7. p < 1048576 => h % 16 = h
  BY <1>1, <1>4, <1>5, SMT
<1> QED BY <1>4, <1>6, <1>7, SMT DEF h, m

\* What the chip reads from the bytes is what was packed into them.
LEMMA BytesHold ==
  ASSUME NEW p1 \in Nat, NEW p2 \in Nat, NEW p3 \in Nat, NEW mode \in {0, 64},
         p1 < 262144, p2 < 1048576, p3 < 1048576
  PROVE  /\ P1(ParameterBytes(p1, p2, p3, mode)) = p1
         /\ P2(ParameterBytes(p1, p2, p3, mode)) = p2
         /\ P3(ParameterBytes(p1, p2, p3, mode)) = p3
<1> DEFINE bytes == ParameterBytes(p1, p2, p3, mode)
           h1 == (p1 \div 65536) % 4
           m1 == (p1 \div 256) % 256
           h2 == (p2 \div 65536) % 16
           m2 == (p2 \div 256) % 256
           h3 == (p3 \div 65536) % 16
           m3 == (p3 \div 256) % 256
<1>1. /\ bytes[1] = m3 /\ bytes[2] = p3 % 256 /\ bytes[3] = h1 + mode
      /\ bytes[4] = m1 /\ bytes[5] = p1 % 256 /\ bytes[6] = 16 * h3 + h2
      /\ bytes[7] = m2 /\ bytes[8] = p2 % 256
  <2> DEFINE l1 == p1 % 256
             l2 == p2 % 256
             l3 == p3 % 256
  <2>1. bytes = <<m3, l3, h1 + mode, m1, l1, 16 * h3 + h2, m2, l2>>
    BY SMT DEF ParameterBytes
  <2> HIDE DEF bytes, h1, m1, h2, m2, h3, m3, l1, l2, l3
  <2>2. /\ bytes[1] = m3 /\ bytes[2] = l3 /\ bytes[3] = h1 + mode
        /\ bytes[4] = m1 /\ bytes[5] = l1 /\ bytes[6] = 16 * h3 + h2
        /\ bytes[7] = m2 /\ bytes[8] = l2
    BY <2>1, SMT
  <2> QED BY <2>2, SMT DEF l1, l2, l3
<1>2. /\ p1 = 65536 * h1 + 256 * m1 + (p1 % 256)
      /\ p2 = 65536 * h2 + 256 * m2 + (p2 % 256)
      /\ p3 = 65536 * h3 + 256 * m3 + (p3 % 256)
  BY ThreeBytes, SMT
<1>3. /\ h1 \in Nat /\ h2 \in Nat /\ h3 \in Nat /\ h1 < 4 /\ h2 < 16 /\ h3 < 16
  BY SMT
<1> HIDE DEF bytes, h1, m1, h2, m2, h3, m3
<1>4. P1(bytes) = p1
  <2>1. (h1 + mode) % 4 = h1
    <3>1. CASE mode = 0
      BY <1>3, <3>1, SMT
    <3>2. CASE mode = 64
      BY <1>3, <3>2, SMT
    <3> QED BY <3>1, <3>2, SMT
  <2>2. P1(bytes) = 65536 * h1 + 256 * m1 + (p1 % 256)
    BY <1>1, <2>1, SMT DEF P1
  <2> QED BY <1>2, <2>2, SMT
<1>5. (16 * h3 + h2) % 16 = h2 /\ (16 * h3 + h2) \div 16 = h3
  BY <1>3, SMT
<1>6. P2(bytes) = p2
  <2>1. P2(bytes) = 65536 * h2 + 256 * m2 + (p2 % 256)
    BY <1>1, <1>5, SMT DEF P2
  <2> QED BY <1>2, <2>1, SMT
<1>7. P3(bytes) = p3
  <2>1. P3(bytes) = 65536 * h3 + 256 * m3 + (p3 % 256)
    BY <1>1, <1>5, SMT DEF P3
  <2> QED BY <1>2, <2>1, SMT
<1> QED BY <1>4, <1>6, <1>7, SMT DEF bytes

\* A divider in the chip's range is read back as it is, with no fraction.
LEMMA DividerHolds ==
  ASSUME NEW div \in Nat, 6 <= div, div <= 254
  PROVE  RatioWhole(DividerParameters(div)) = div /\ RatioPart(DividerParameters(div)) = 0
<1> DEFINE p1 == 128 * div - 512
           bytes == ParameterBytes(p1, 0, 1, 64)
<1>1. p1 \in Nat /\ p1 < 262144 /\ 64 \in {0, 64}
  BY SMT
<1>2. (p1 + 512) \div 128 = div /\ (p1 + 512) % 128 = 0
  BY SMT
<1> HIDE DEF p1
<1>3. P1(bytes) = p1 /\ P2(bytes) = 0 /\ P3(bytes) = 1
  BY <1>1, BytesHold, SMT
<1>4. DividerParameters(div) = bytes
  BY SMT DEF DividerParameters, p1
<1> HIDE DEF bytes
<1> QED BY <1>2, <1>3, <1>4, SMT DEF RatioWhole, RatioPart

\* The fraction in its lowest terms.
LEMMA FractionReduced ==
  ASSUME NEW b \in Nat, NEW c \in Nat \ {0}, b < c
  PROVE  LET shared == Gcd[<<b, c>>]
             num == b \div shared
             den == c \div shared
         IN /\ shared \in Nat \ {0} /\ num \in Nat /\ den \in 1..c /\ num < den
            /\ b = shared * num /\ c = shared * den
<1> DEFINE shared == Gcd[<<b, c>>]
           num == b \div shared
           den == c \div shared
<1>1. shared \in Nat \ {0} /\ Divides(shared, b) /\ Divides(shared, c)
  <2>1. b + c > 0
    BY SMT
  <2> QED BY <2>1, GcdDivides, SMT
<1> HIDE DEF shared
<1>2. PICK k \in Nat : b = shared * k
  BY <1>1, Zenon DEF Divides
<1>3. PICK m \in Nat : c = shared * m
  BY <1>1, Zenon DEF Divides
<1>4. num = k /\ den = m
  <2>1. 0 \in 0..shared - 1
    BY <1>1, SMT
  <2>2. (shared * k + 0) \div shared = k /\ (shared * m + 0) \div shared = m
    BY <1>1, <2>1, QuotientIs, SMT
  <2> QED BY <1>1, <1>2, <1>3, <2>2, SMT
<1>5. m >= 1
  BY <1>1, <1>3, SMT
<1>6. m <= c
  <2>1. (shared - 1) * m >= 0 /\ (shared - 1) * m = shared * m - m
    BY <1>1, SMT
  <2> QED BY <1>1, <1>3, <2>1, SMT
<1>7. k < m
  <2> SUFFICES ASSUME m <= k PROVE FALSE
    BY SMT
  <2>1. shared * (k - m) >= 0 /\ shared * (k - m) = shared * k - shared * m
    BY <1>1, SMT
  <2> QED BY <1>1, <1>2, <1>3, <2>1, SMT
<1> HIDE DEF num, den
<1> QED BY <1>1, <1>2, <1>3, <1>4, <1>5, <1>6, <1>7, SMT DEF shared, num, den

\* The PLL's rate, with the fraction's whole part that p1 takes up and the rest in p2.
LEMMA EighthsHold ==
  ASSUME NEW num \in Nat, NEW den \in Nat, num < den
  PROVE  LET eighths == (128 * num) \div den
         IN /\ eighths \in Nat /\ eighths < 128
            /\ 128 * num - den * eighths \in Nat /\ 128 * num - den * eighths < den
<1> DEFINE e == (128 * num) \div den
<1>1. den \in Nat \ {0} /\ 128 * num \in Nat
  BY SMT
<1>2. e \in Nat /\ (128 * num) % den \in 0..den - 1 /\ 128 * num = den * e + ((128 * num) % den)
  <2> DEFINE x == 128 * num
  <2> HIDE DEF x
  <2>1. x \in Nat
    BY <1>1, SMT DEF x
  <2>2. x \div den \in Nat /\ x % den \in 0..den - 1 /\ x = den * (x \div den) + (x % den)
    BY <1>1, <2>1, QuotientIsNatural, Zenon
  <2> QED BY <2>2, Zenon DEF x
<1> DEFINE r == (128 * num) % den
<1> HIDE DEF e, r
<1>3. e \in Nat /\ r \in Nat /\ r < den /\ 128 * num = den * e + r
  BY <1>2, SMT DEF e, r
<1>4. e < 128
  <2> SUFFICES ASSUME e >= 128 PROVE FALSE
    BY <1>3, SMT
  <2>1. den * (e - 128) >= 0
    BY <1>1, <1>3, SMT
  <2>2. den * (e - 128) = den * e - 128 * den
    BY <1>1, <1>3, SMT
  <2>3. den * e \in Int
    BY <1>3, SMT
  <2> QED BY <1>1, <1>3, <2>1, <2>2, <2>3, SMT
<1>5. 128 * num - den * e = r
  <2>1. den * e \in Int
    BY <1>3, SMT
  <2> QED BY <1>1, <1>3, <2>1, SMT
<1> QED BY <1>3, <1>4, <1>5, SMT DEF e

\* What is lost when a remainder r of the reference R is expressed in parts of D is at most R / D, and one
\* for the last division.
LEMMA ErrorBound ==
  ASSUME NEW R \in Nat \ {0}, NEW D \in Nat \ {0}, NEW r \in Nat, r < R,
         NEW shared \in Nat \ {0}, NEW num \in Nat, NEW den \in Nat \ {0},
         D = shared * den, (r * D) \div R = shared * num
  PROVE  0 <= r - ((R * num) \div den) /\ r - ((R * num) \div den) <= (R \div D) + 1
<1> DEFINE q == (R * num) \div den
           k == (R * num) % den
           b == (r * D) \div R
           l == (r * D) % R
           w == R \div D
           v == R % D
<1>1. q \in Nat /\ k \in 0..den - 1 /\ R * num = den * q + k
  <2> DEFINE x == R * num
  <2>1. x \in Nat
    BY SMT
  <2> HIDE DEF x
  <2>2. x \div den \in Nat /\ x % den \in 0..den - 1 /\ x = den * (x \div den) + (x % den)
    BY <2>1, QuotientIsNatural, Zenon
  <2> QED BY <2>2, Zenon DEF x
<1>2. b \in Nat /\ l \in 0..R - 1 /\ r * D = R * b + l
  <2> DEFINE x == r * D
  <2>1. x \in Nat
    BY SMT
  <2> HIDE DEF x
  <2>2. x \div R \in Nat /\ x % R \in 0..R - 1 /\ x = R * (x \div R) + (x % R)
    BY <2>1, QuotientIsNatural, Zenon
  <2> QED BY <2>2, Zenon DEF x
<1>3. w \in Nat /\ v \in 0..D - 1 /\ R = D * w + v
  BY QuotientIsNatural, Zenon
<1>4. b = shared * num
  OBVIOUS
<1> HIDE DEF q, k, b, l, w, v
<1>5. D * q = shared * (den * q) /\ R * b = shared * (R * num) /\ D * q \in Nat /\ R * b \in Nat /\ r * D \in Nat
  BY <1>1, <1>2, <1>4, SMT
<1>6. R * b = D * q + shared * k
  <2>1. shared * (den * q + k) = shared * (den * q) + shared * k
    BY <1>1, SMT
  <2> QED BY <1>1, <1>5, <2>1, SMT
<1>7. shared * k \in Nat /\ shared * k <= D - shared
  <2>1. shared * (den - 1 - k) >= 0
    BY <1>1, SMT
  <2>2. shared * (den - 1 - k) = shared * den - shared - shared * k
    BY <1>1, SMT
  <2>3. shared * k \in Nat
    BY <1>1, SMT
  <2> QED BY <2>1, <2>2, <2>3, SMT
<1>8. r * D = D * q + shared * k + l
  BY <1>2, <1>5, <1>6, <1>7, SMT
<1>9. q <= r
  <2> SUFFICES ASSUME q >= r + 1 PROVE FALSE
    BY <1>1, SMT
  <2>1. D * (q - r - 1) >= 0
    BY <1>1, SMT
  <2>2. D * (q - r - 1) = D * q - r * D - D
    BY <1>1, SMT
  <2> QED BY <1>2, <1>5, <1>7, <1>8, <2>1, <2>2, SMT
<1>10. r - q <= w + 1
  <2> SUFFICES ASSUME r - q >= w + 2 PROVE FALSE
    BY <1>1, <1>3, SMT
  <2>1. D * (r - q - w - 2) >= 0
    BY <1>1, <1>3, SMT
  <2>2. D * (r - q - w - 2) = r * D - D * q - D * w - 2 * D
    BY <1>1, <1>3, SMT
  <2>3. D * w \in Nat /\ l < R /\ v < D /\ l \in Nat /\ v \in Nat
    BY <1>2, <1>3, SMT
  <2> QED BY <1>3, <1>5, <1>7, <1>8, <2>1, <2>2, <2>3, SMT
<1> QED BY <1>9, <1>10, <1>1, SMT DEF q, w

\* The clock of an oscillator whose PLL fits is the one asked for, to the resolution of the fraction:
\* Si5351Driver::configurePll() and configureMultisynth(), read back as the chip reads them.
LEMMA RegistersGiveClock ==
  ASSUME NEW target \in Nat \ {0}, PllFits(target)
  PROVE  GivesClock(Registers(target), target)
<1> DEFINE div == EvenDivider(target)
           pll == target * div
           a == pll \div RefClock
           r == pll % RefClock
           b == (r * Denominator) \div RefClock
           shared == Gcd[<<b, Denominator>>]
           num == b \div shared
           den == Denominator \div shared
           eighths == (128 * num) \div den
           p1 == 128 * a + eighths - 512
           p2 == 128 * num - den * eighths
           bytes == ParameterBytes(p1, p2, den, 0)
<1>0. RefClock \in Nat \ {0} /\ Denominator \in Nat \ {0} /\ Denominator < 1048576
  BY SynthesizerAssumption, SMT
<1>0a. RefClock \in Nat \ {0}
  BY <1>0, SMT
<1>1. div \in Nat /\ 6 <= div /\ div <= 254
  <2> DEFINE x == 2 * ((700000 \div target) \div 2)
  <2>1. 700000 \div target \in Int
    BY SMT
  <2>2. x \in Int
    BY <2>1, SMT
  <2>3. div = Clamped(x, 6, 254)
    BY SMT DEF EvenDivider
  <2> HIDE DEF x
  <2> QED BY <2>2, <2>3, SMT DEF Clamped
<1>2. PllParameters(pll) = bytes
  BY SMT DEF PllParameters
<1>3. a >= 4 /\ a <= 2051
  BY SMT DEF PllFits
<1> HIDE DEF div
<1>4. pll \in Nat
  BY <1>1, SMT
<1>4a. pll \div target = div
  <2>1. 0 \in 0..target - 1
    BY SMT
  <2>2. (target * div + 0) \div target = div
    BY <1>1, <2>1, QuotientIs, SMT
  <2> QED BY <1>1, <2>2, SMT
<1>4b. Registers(target) = [pll |-> bytes, div |-> DividerParameters(div)]
  BY <1>2, <1>4a, Zenon DEF Registers, div
<1> HIDE DEF pll
<1>5. a \in Nat /\ r \in 0..RefClock - 1 /\ pll = RefClock * a + r
  BY <1>0a, <1>4, QuotientIsNatural, Zenon
<1> HIDE DEF a, r
<1>6. b \in Nat /\ b < Denominator
  <2> DEFINE x == r * Denominator
  <2>1. x \in Nat
    BY <1>0, <1>5, SMT
  <2>2. r * Denominator = x
    OBVIOUS
  <2> HIDE DEF x
  <2>3. b \in Nat /\ x % RefClock \in 0..RefClock - 1 /\ x = RefClock * b + (x % RefClock)
    BY <1>0a, <2>1, <2>2, QuotientIsNatural, Zenon
  <2> HIDE DEF b
  <2>4. b < Denominator
    <3> SUFFICES ASSUME Denominator <= b PROVE FALSE
      BY <1>0, <2>3, SMT
    <3>1. RefClock * (b - Denominator) >= 0
      BY <1>0, <2>3, SMT
    <3>2. RefClock * (b - Denominator) = RefClock * b - RefClock * Denominator
      BY <1>0, <2>3, SMT
    <3>3. RefClock * Denominator - r * Denominator >= Denominator
      <4>1. (RefClock - 1 - r) * Denominator >= 0
        BY <1>0, <1>5, SMT
      <4>2. (RefClock - 1 - r) * Denominator = RefClock * Denominator - Denominator - r * Denominator
        BY <1>0, <1>5, SMT
      <4>3. RefClock * Denominator \in Nat /\ r * Denominator \in Nat
        BY <1>0, <1>5, SMT
      <4> QED BY <1>0, <4>1, <4>2, <4>3, SMT
    <3>4. RefClock * b \in Nat /\ RefClock * Denominator \in Nat /\ x % RefClock >= 0 /\ x % RefClock \in Int
      BY <1>0, <2>3, SMT
    <3> QED BY <1>0, <2>1, <2>2, <2>3, <3>1, <3>2, <3>3, <3>4, SMT
  <2> QED BY <2>3, <2>4, Zenon
<1>6a. b = (r * Denominator) \div RefClock
  OBVIOUS
<1> HIDE DEF b
<1>7. /\ shared \in Nat \ {0} /\ num \in Nat /\ den \in 1..Denominator /\ num < den
      /\ b = shared * num /\ Denominator = shared * den
  <2> HIDE DEF shared, num, den
  <2> QED BY <1>0, <1>6, FractionReduced, SMT DEF shared, num, den
<1> HIDE DEF shared, num, den
<1>8. den \in Nat /\ den \in Nat \ {0} /\ den < 1048576
  BY <1>0, <1>7, SMT
<1>9. eighths \in Nat /\ eighths < 128 /\ p2 \in Nat /\ p2 < den
  BY <1>7, <1>8, EighthsHold, SMT
<1>9a. p2 = 128 * num - den * eighths
  OBVIOUS
<1> HIDE DEF eighths, p2
<1>10. p1 \in Nat /\ p1 < 262144 /\ p2 < 1048576 /\ 0 \in {0, 64}
  BY <1>3, <1>5, <1>8, <1>9, SMT
<1>10a. (p1 + 512) \div 128 = a /\ (p1 + 512) % 128 = eighths
  BY <1>5, <1>9, SMT
<1> HIDE DEF p1
<1>11. P1(bytes) = p1 /\ P2(bytes) = p2 /\ P3(bytes) = den
  BY <1>8, <1>9, <1>10, BytesHold, SMT
<1> HIDE DEF bytes
<1>12. RatioWhole(bytes) = a /\ RatioPart(bytes) = num
  <2>1. p2 + den * eighths = 128 * num
    <3>1. den * eighths \in Int
      BY <1>8, <1>9, SMT
    <3> QED BY <1>7, <1>9a, <3>1, SMT
  <2>2. (128 * num) \div 128 = num
    BY <1>7, SMT
  <2> QED BY <1>10a, <1>11, <2>1, <2>2, SMT DEF RatioWhole, RatioPart
<1>13. PllRuns(bytes) = RefClock * a + ((RefClock * num) \div den)
  BY <1>11, <1>12, SMT DEF PllRuns
<1>14. 0 <= r - ((RefClock * num) \div den) /\ r - ((RefClock * num) \div den) <= (RefClock \div Denominator) + 1
  <2>1. r \in Nat /\ r < RefClock
    BY <1>0, <1>5, SMT
  <2>2. (r * Denominator) \div RefClock = shared * num
    BY <1>6a, <1>7, Zenon
  <2> QED BY <1>0, <1>7, <1>8, <2>1, <2>2, ErrorBound, SMT
<1>15. RatioWhole(DividerParameters(div)) = div /\ RatioPart(DividerParameters(div)) = 0
  BY <1>1, DividerHolds, SMT
<1>16. DividerAllowed(div)
  BY <1>1, SMT DEF DividerAllowed
<1>17. target * div - PllRuns(bytes) = r - ((RefClock * num) \div den)
  <2> DEFINE q == (RefClock * num) \div den
             s == RefClock * a
  <2>1. q \in Int /\ s \in Int
    BY <1>0, <1>5, <1>7, <1>8, SMT
  <2> HIDE DEF q, s
  <2>2. pll = s + r /\ PllRuns(bytes) = s + q /\ r \in Int
    BY <1>0, <1>5, <1>13, SMT DEF q, s
  <2>3. target * div = s + r
    BY <2>2, SMT DEF pll
  <2>4. target * div - PllRuns(bytes) = r - q
    BY <2>1, <2>2, <2>3, SMT
  <2> QED BY <2>4, SMT DEF q
<1> DEFINE registers == Registers(target)
<1>18. registers.pll = bytes /\ registers.div = DividerParameters(div)
  BY <1>4b, SMT
<1> HIDE DEF registers
<1>19. GivesClock(registers, target)
  <2>1. RatioWhole(registers.div) = div /\ RatioPart(registers.div) = 0
    BY <1>15, <1>18, SMT
  <2>2. target * RatioWhole(registers.div) - PllRuns(registers.pll) = r - ((RefClock * num) \div den)
    BY <1>17, <1>18, <2>1, SMT
  <2> DEFINE error == target * RatioWhole(registers.div) - PllRuns(registers.pll)
  <2>3. 0 <= error /\ error <= (RefClock \div Denominator) + 1
    BY <1>14, <2>2, SMT
  <2> HIDE DEF error
  <2>4. DividerAllowed(RatioWhole(registers.div))
    BY <1>16, <2>1, SMT
  <2> QED BY <2>1, <2>3, <2>4, SMT DEF GivesClock, error
<1> QED BY <1>19, SMT DEF registers

----------------------------------------------------------------------------
RadioKinds == {"SET_VFO", "SET_ATTEN", "SET_PGA_GAIN", "SET_AGC_MODE", "SET_BPF_SELECT", "SET_HPF_BYPASS",
               "GET_STATE", "GET_VERSION", "LOAD_CPLD", "other"}

\* The request that leads the handler to a place.
KindAt(at) ==
  IF at \in {"switch dsp", "tune"} THEN "SET_VFO" ELSE IF at = "small pads" THEN "SET_ATTEN"
  ELSE IF at = "second gain" THEN "SET_PGA_GAIN" ELSE IF at \in {"stream", "validate"} THEN "LOAD_CPLD" ELSE at

Told(request) ==
  /\ request.is \in RadioKinds
  /\ request.is = "SET_VFO" => request.tuning \in Tunings
  /\ request.is = "SET_ATTEN" => request.db \in Int
  /\ request.is = "SET_PGA_GAIN" => request.code \in Int

RadioHandler ==
  /\ "at" \in DOMAIN handler /\ "reflexes" \in DOMAIN handler
  /\ handler.at # "idle" => "request" \in DOMAIN handler /\ Told(handler.request)
  /\ handler.at \notin {"idle", "succeed"} => handler.request.is = KindAt(handler.at)

RadioTypes ==
  /\ clockMode \in [handler : BOOLEAN, dsp : BOOLEAN]
  /\ cplds \in [done : BOOLEAN, fourPhase : BOOLEAN, selected : BOOLEAN]
  /\ past \in [fourPhase : BOOLEAN, padsCrossed : BOOLEAN, gainsCrossed : BOOLEAN, told : BOOLEAN]
  /\ {"pads", "atten", "bpf", "bypass"} \subseteq DOMAIN frontEnd
  /\ DOMAIN gains = 1..2
  /\ "gain" \in DOMAIN agc /\ agc.gain \in Int

\* Between the switch of the handler's mode and the tuning that calls for it, they differ from the record.
RadioMode ==
  /\ handler.at \notin {"switch dsp", "tune"} =>
       clockMode.handler = past.fourPhase /\ clockMode.dsp = clockMode.handler
  /\ handler.at \in {"switch dsp", "tune"} =>
       clockMode.handler = ModeFor(handler.request.tuning, past.fourPhase)
  /\ handler.at = "tune" => clockMode.dsp = clockMode.handler

\* Half way through a setter, the half that is done is right.
RadioPads ==
  ~past.padsCrossed =>
    IF handler.at = "small pads"
    THEN frontEnd.pads \cap {12, 24} = PadsFor(handler.request.db) \cap {12, 24}
    ELSE PadsValue(frontEnd.pads) = frontEnd.atten

RadioGains ==
  ~past.gainsCrossed =>
    \/ Unknown \in {gains[1], gains[2]} /\ handler.at # "second gain"
    \/ gains[1] \in {Unknown, IF handler.at = "second gain" THEN PgaGain(handler.request.code) ELSE gains[2]}

RadioChips == cplds.selected => ~cplds.done

RadioInv == RadioHandler /\ RadioTypes /\ RadioMode /\ RadioPads /\ RadioGains /\ RadioChips /\ TunedWhole

----------------------------------------------------------------------------
\* A request that was decoded says what its kind needs.
LEMMA RequestsTold ==
  ASSUME NEW request \in Requests
  PROVE  Told(request)
<1>1. CASE request \in {[is |-> "SET_VFO", tuning |-> t] : t \in Tunings}
  BY <1>1 DEF Told, RadioKinds
<1>2. CASE request \in {[is |-> "SET_ATTEN", db |-> d] : d \in Attens}
  BY <1>2, RadioAssumption DEF Told, RadioKinds
<1>3. CASE request \in {[is |-> "SET_PGA_GAIN", code |-> c] : c \in PgaCodes}
  BY <1>3, RadioAssumption DEF Told, RadioKinds
<1>4. CASE request \in {[is |-> "SET_AGC_MODE", mode |-> m] : m \in {0, 1, Manual}}
  BY <1>4 DEF Told, RadioKinds
<1>5. CASE request \in {[is |-> "SET_BPF_SELECT", bank |-> 2]}
  BY <1>5 DEF Told, RadioKinds
<1>6. CASE request \in {[is |-> "SET_HPF_BYPASS", bypass |-> b] : b \in BOOLEAN}
  BY <1>6 DEF Told, RadioKinds
<1>7. CASE request \in {[is |-> "GET_STATE"], [is |-> "GET_VERSION"], [is |-> "LOAD_CPLD"], [is |-> "other"]}
  BY <1>7 DEF Told, RadioKinds
<1> QED BY <1>1, <1>2, <1>3, <1>4, <1>5, <1>6, <1>7, Zenon DEF Requests

\* The handler goes on with its request.
LEMMA HandlerGoes ==
  ASSUME RadioHandler, handler.at # "idle", NEW to, Goes(to), to # "idle",
         to = "succeed" \/ KindAt(to) = handler.request.is
  PROVE  RadioHandler' /\ handler'.at = to /\ handler'.request = handler.request
<1>1. handler'.at = to /\ handler'.request = handler.request /\ DOMAIN handler' = DOMAIN handler
  BY DEF RadioHandler, Goes
<1> QED BY <1>1 DEF RadioHandler

\* The handler is done with its request.
LEMMA HandlerRests ==
  ASSUME handler' = Idle
  PROVE  RadioHandler' /\ handler'.at = "idle"
BY DEF RadioHandler, Idle

\* The viewport's side of 15 MHz decides the mode, and without a side it stays.
LEMMA ModeOfViewport ==
  ASSUME NEW t \in Tunings, NEW now \in BOOLEAN
  PROVE  /\ ModeFor(t, now) \in BOOLEAN
         /\ ModeFor(t, now) = ((now \/ WhollyAbove(t)) /\ ~WhollyBelow(t))
<1> DEFINE low == 2 * t.freq - t.span
           high == 2 * t.freq + t.span
<1>1. low \in Int /\ high \in Int /\ low <= high
  BY RadioAssumption
<1> DEFINE up == low > 30000
           down == high < 30000
<1>2. WhollyAbove(t) <=> up
  BY <1>1, SMT DEF WhollyAbove, Edges
<1>3. WhollyBelow(t) <=> down
  BY <1>1, SMT DEF WhollyBelow, Edges
<1>4. ModeFor(t, now) = IF up THEN TRUE ELSE IF down THEN FALSE ELSE now
  BY SMT DEF ModeFor
<1>5. ~(up /\ down)
  BY <1>1, SMT
<1> HIDE DEF low, high, up, down
<1> QED BY <1>2, <1>3, <1>4, <1>5, Zenon

\* The pads of an attenuation add up to it, rounded to their step.
LEMMA PadsAddUp ==
  ASSUME NEW db \in Int
  PROVE  PadsValue(PadsFor(db)) = Rounded(db)
<1> DEFINE r == Rounded(db)
<1>1. r \in Nat /\ r <= 45 /\ r % 3 = 0
  <2>1. Clamped(db, 0, 45) \in Nat /\ Clamped(db, 0, 45) <= 45
    BY SMT DEF Clamped
  <2> DEFINE x == Clamped(db, 0, 45)
  <2> HIDE DEF x
  <2>2. 3 * (x \div 3) \in Nat /\ 3 * (x \div 3) <= 45 /\ (3 * (x \div 3)) % 3 = 0
    BY <2>1, SMT DEF x
  <2> QED BY <2>2, SMT DEF Rounded, x
<1>2. /\ (24 \in PadsFor(db)) <=> r >= 24
      /\ (12 \in PadsFor(db)) <=> r % 24 >= 12
      /\ (6 \in PadsFor(db)) <=> r % 12 >= 6
      /\ (3 \in PadsFor(db)) <=> r % 6 >= 3
  BY DEF PadsFor
<1> DEFINE pads == PadsFor(db)
<1> HIDE DEF r, pads
<1>3. PadsValue(pads) = (IF r % 6 >= 3 THEN 3 ELSE 0) + (IF r % 12 >= 6 THEN 6 ELSE 0)
                        + (IF r % 24 >= 12 THEN 12 ELSE 0) + (IF r >= 24 THEN 24 ELSE 0)
  BY <1>2, SMT DEF PadsValue, pads
<1>4. (IF r % 6 >= 3 THEN 3 ELSE 0) + (IF r % 12 >= 6 THEN 6 ELSE 0)
        + (IF r % 24 >= 12 THEN 12 ELSE 0) + (IF r >= 24 THEN 24 ELSE 0) = r
  BY <1>1, SMT
<1> QED BY <1>3, <1>4, SMT DEF r, pads

\* What the AGC asks for is a step already.
LEMMA AgcAttenuates ==
  ASSUME NEW gain \in Int
  PROVE  AttenOf(gain) \in Int /\ PadsValue(PadsFor(AttenOf(gain))) = AttenOf(gain)
<1> DEFINE x == 3 * (gain \div 3000)
           y == AttenOf(gain)
<1>1. x \in Int /\ x % 3 = 0
  BY SMT
<1>2. y = Clamped(x, 0, 45)
  BY SMT DEF AttenOf
<1> HIDE DEF x, y
<1>3. y \in Nat /\ y <= 45 /\ y % 3 = 0
  BY <1>1, <1>2, SMT DEF Clamped
<1>4. Rounded(y) = y
  <2>1. Clamped(y, 0, 45) = y
    BY <1>3, SMT DEF Clamped
  <2>2. 3 * (y \div 3) = y
    BY <1>3, SMT
  <2> QED BY <2>1, <2>2, SMT DEF Rounded
<1>5. PadsValue(PadsFor(y)) = Rounded(y) /\ y \in Int
  BY <1>3, PadsAddUp, SMT
<1> QED BY <1>4, <1>5, Zenon DEF y

\* The bank that is chosen passes the frequency.
LEMMA BankFits ==
  ASSUME NEW freq \in Nat
  PROVE  BankPasses(BankFor(freq), freq)
<1>1. /\ freq < 3400 => BankFor(freq) = 1
      /\ (freq >= 3400 /\ freq < 7500) => BankFor(freq) = 2
      /\ (freq >= 7500 /\ freq < 14500) => BankFor(freq) = 3
      /\ freq >= 14500 => BankFor(freq) = 4
  BY SMT DEF BankFor
<1>2. BankPasses(1, freq) <=> freq < 3400
  BY SMT DEF BankPasses
<1>3. freq \in 3200..7500 => BankPasses(2, freq)
  BY SMT DEF BankPasses
<1>4. freq \in 7300..14500 => BankPasses(3, freq)
  BY SMT DEF BankPasses
<1>5. BankPasses(4, freq) <=> freq >= 14300
  BY SMT DEF BankPasses
<1>6. \/ freq < 3400 \/ (freq >= 3400 /\ freq < 7500) \/ (freq >= 7500 /\ freq < 14500) \/ freq >= 14500
  BY SMT
<1> DEFINE b == BankFor(freq)
<1> HIDE DEF b
<1>7. CASE freq < 3400
  BY <1>1, <1>2, <1>7, SMT DEF b
<1>8. CASE freq >= 3400 /\ freq < 7500
  <2>1. freq \in 3200..7500
    BY <1>8, SMT
  <2>2. BankPasses(2, freq)
    BY <1>3, <2>1, SMT
  <2> QED BY <1>1, <1>8, <2>2, SMT DEF b
<1>9. CASE freq >= 7500 /\ freq < 14500
  <2>1. freq \in 7300..14500
    BY <1>9, SMT
  <2>2. BankPasses(3, freq)
    BY <1>4, <2>1, SMT
  <2> QED BY <1>1, <1>9, <2>2, SMT DEF b
<1>10. CASE freq >= 14500
  BY <1>1, <1>5, <1>10, SMT DEF b
<1> QED BY <1>6, <1>7, <1>8, <1>9, <1>10, SMT DEF b

\* Both oscillators of a tuning get their clocks.
LEMMA TuningGivesClocks ==
  ASSUME NEW t \in Tunings, NEW fourPhase \in BOOLEAN
  PROVE  LET targets == ClockTargets(t.freq, t.offset, fourPhase)
         IN /\ targets = <<(t.freq - t.offset) * Phases(fourPhase), (t.freq + t.offset) * Phases(fourPhase)>>
            /\ \A k \in 1..2 : GivesClock(Registers(targets[k]), targets[k])
<1> DEFINE targets == ClockTargets(t.freq, t.offset, fourPhase)
           a == (t.freq - t.offset) * Phases(fourPhase)
           b == (t.freq + t.offset) * Phases(fourPhase)
<1>1. t.freq \in Nat /\ t.offset \in Nat /\ t.freq > t.offset
  BY RadioAssumption, SMT
<1>2. targets = <<a, b>>
  BY <1>1, SMT DEF ClockTargets
<1>3. a \in Nat \ {0} /\ b \in Nat \ {0}
  BY <1>1, SMT DEF Phases
<1>4. \A k \in 1..2 : PllFits(targets[k])
  BY RadioAssumption, Zenon
<1> HIDE DEF targets, a, b
<1>5. ASSUME NEW k \in 1..2 PROVE GivesClock(Registers(targets[k]), targets[k])
  <2>1. targets[k] \in Nat \ {0}
    BY <1>2, <1>3, SMT
  <2> QED BY <1>4, <2>1, RegistersGiveClock, Zenon
<1> QED BY <1>2, <1>5, Zenon DEF targets, a, b

HalfDone == {"switch dsp", "tune", "small pads", "second gain"}

\* A step between places where nothing is half done, which leaves the chips as they are.
LEMMA Undisturbed ==
  ASSUME RadioInv, RadioHandler', handler.at \notin HalfDone, handler'.at \notin HalfDone,
         handler'.at = "succeed" => handler'.request.is # "SET_VFO",
         UNCHANGED <<clockMode, cplds, lo, gains, past>>,
         frontEnd'.pads = frontEnd.pads, frontEnd'.atten = frontEnd.atten,
         DOMAIN frontEnd' = DOMAIN frontEnd, "gain" \in DOMAIN agc', agc'.gain = agc.gain
  PROVE  RadioInv'
<1>1. RadioTypes'
  BY DEF RadioInv, RadioTypes
<1>2. RadioMode'
  BY DEF RadioInv, RadioMode, HalfDone
<1>3. RadioPads'
  BY DEF RadioInv, RadioPads, HalfDone
<1>4. RadioGains'
  BY DEF RadioInv, RadioGains, HalfDone
<1>5. RadioChips'
  BY DEF RadioInv, RadioChips
<1>6. TunedWhole'
  BY DEF TunedWhole
<1> QED BY <1>1, <1>2, <1>3, <1>4, <1>5, <1>6 DEF RadioInv

\* After main()'s initialisation nothing is half done.
LEMMA RadioStarts == ASSUME RadioInit PROVE RadioInv
<1>0. cplds \in [done : BOOLEAN, fourPhase : BOOLEAN, selected : {FALSE}]
  <2>1. cplds \in CpldsAtStart
    BY SMT DEF RadioInit
  <2> QED BY <2>1, Zenon DEF CpldsAtStart
<1>0a. cplds.selected = FALSE
  <2>1. cplds.selected \in {FALSE}
    BY <1>0
  <2> QED BY <2>1, Zenon
<1>0b. cplds \in [done : BOOLEAN, fourPhase : BOOLEAN, selected : BOOLEAN]
  BY <1>0
<1>1. RadioHandler
  BY DEF RadioInit, RadioHandler
<1>2. RadioTypes
  BY <1>0b DEF RadioInit, RadioTypes
<1>3. RadioMode
  <2>1. clockMode.handler = FALSE /\ clockMode.dsp = FALSE /\ past.fourPhase = FALSE /\ handler.at = "idle"
    BY DEF RadioInit
  <2> QED BY <2>1 DEF RadioMode
<1>4. RadioPads
  BY DEF RadioInit, RadioPads, PadsValue
<1>5. RadioGains
  BY DEF RadioInit, RadioGains
<1>6. RadioChips
  BY <1>0a DEF RadioChips
<1>7. TunedWhole
  BY DEF RadioInit, TunedWhole
<1> QED BY <1>1, <1>2, <1>3, <1>4, <1>5, <1>6, <1>7 DEF RadioInv

\* A request is read.
LEMMA ReceiveKeeps ==
  ASSUME RadioInv, NEW request \in Requests, Receive(request)
  PROVE  RadioInv'
<1>1. Told(request)
  BY RequestsTold
<1>2. handler'.at = request.is /\ handler'.request = request
  BY DEF Receive
<1>3. RadioHandler'
  <2>1. "at" \in DOMAIN handler' /\ "reflexes" \in DOMAIN handler' /\ "request" \in DOMAIN handler'
    BY DEF Receive
  <2>2. KindAt(request.is) = request.is
    BY <1>1 DEF Told, RadioKinds, KindAt
  <2> QED BY <1>1, <1>2, <2>1, <2>2 DEF RadioHandler
<1>4. handler.at = "idle" /\ request.is \in RadioKinds
  BY <1>1 DEF Receive, Told
<1>5. handler.at \notin HalfDone /\ handler'.at \notin HalfDone /\ handler'.at # "succeed"
  BY <1>2, <1>4 DEF HalfDone, RadioKinds
<1>6. UNCHANGED <<clockMode, cplds, frontEnd, lo, gains, agc, past>>
  BY DEF Receive
<1> QED BY <1>3, <1>5, <1>6, Undisturbed DEF RadioInv, RadioTypes

\* The steps that end a request with nothing half done: an answer, or none.
LEMMA RestKeeps ==
  ASSUME RadioInv, Succeed \/ Ignore \/ GetVersion \/ GetState
  PROVE  RadioInv'
<1>1. handler.at \in {"succeed", "other", "GET_VERSION", "GET_STATE"} /\ handler' = Idle
  BY DEF Succeed, Ignore, GetVersion, GetState
<1>2. UNCHANGED <<clockMode, cplds, frontEnd, lo, gains, agc, past>>
  BY DEF Succeed, Ignore, GetVersion, GetState
<1>3. RadioHandler' /\ handler'.at = "idle"
  BY <1>1, HandlerRests
<1>4. handler.at \notin HalfDone /\ handler'.at \notin HalfDone /\ handler'.at # "succeed"
  BY <1>1, <1>3 DEF HalfDone
<1> QED BY <1>2, <1>3, <1>4, Undisturbed DEF RadioInv, RadioTypes

\* The steps that set what the invariant says nothing about.
LEMMA SetKeeps ==
  ASSUME RadioInv, SetFilters \/ SetAgcMode
  PROVE  RadioInv'
<1>1. handler.at \in {"SET_BPF_SELECT", "SET_HPF_BYPASS", "SET_AGC_MODE"} /\ Goes("succeed")
  BY DEF SetFilters, SetAgcMode
<1>2. UNCHANGED <<clockMode, cplds, lo, gains, past>>
  BY DEF SetFilters, SetAgcMode
<1>3. /\ frontEnd'.pads = frontEnd.pads /\ frontEnd'.atten = frontEnd.atten
      /\ DOMAIN frontEnd' = DOMAIN frontEnd /\ "gain" \in DOMAIN agc' /\ agc'.gain = agc.gain
  <2>1. {"pads", "atten", "bpf", "bypass"} \subseteq DOMAIN frontEnd /\ "gain" \in DOMAIN agc
    BY DEF RadioInv, RadioTypes
  <2>2. CASE SetFilters
    BY <2>1, <2>2 DEF SetFilters
  <2>3. CASE SetAgcMode
    BY <2>1, <2>3 DEF SetAgcMode
  <2> QED BY <2>2, <2>3
<1>4. RadioHandler' /\ handler'.at = "succeed" /\ handler'.request = handler.request
  BY <1>1, HandlerGoes DEF RadioInv
<1>5. handler.request.is = handler.at
  BY <1>1 DEF RadioInv, RadioHandler, KindAt
<1>6. handler.at \notin HalfDone /\ handler'.at \notin HalfDone /\ handler'.request.is # "SET_VFO"
  BY <1>1, <1>4, <1>5 DEF HalfDone
<1> QED BY <1>2, <1>3, <1>4, <1>6, Undisturbed

\* The signatures are right, or not.
LEMMA ValidateKeeps ==
  ASSUME RadioInv, ValidateSignatures
  PROVE  RadioInv'
<1>1. handler.at = "validate" /\ UNCHANGED <<clockMode, cplds, frontEnd, lo, gains, agc, past>>
  BY DEF ValidateSignatures
<1>2. RadioHandler' /\ (handler'.at = "idle" \/ (handler'.at = "succeed" /\ handler'.request.is # "SET_VFO"))
  <2>1. CASE Goes("succeed")
    <3>1. RadioHandler' /\ handler'.at = "succeed" /\ handler'.request = handler.request
      BY <1>1, <2>1, HandlerGoes DEF RadioInv
    <3>2. handler.request.is = "LOAD_CPLD"
      BY <1>1 DEF RadioInv, RadioHandler, KindAt
    <3> QED BY <3>1, <3>2
  <2>2. CASE handler' = Idle
    BY <2>2, HandlerRests
  <2> QED BY <2>1, <2>2 DEF ValidateSignatures
<1>3. handler.at \notin HalfDone /\ handler'.at \notin HalfDone
  BY <1>1, <1>2 DEF HalfDone
<1>4. handler'.at = "succeed" => handler'.request.is # "SET_VFO"
  BY <1>2
<1> QED BY <1>1, <1>2, <1>3, <1>4, Undisturbed DEF RadioInv, RadioTypes

\* The mode is decided and written to the CPLDs.
LEMMA SwitchCpldsKeeps ==
  ASSUME RadioInv, SwitchCplds
  PROVE  RadioInv'
<1> DEFINE tuning == handler.request.tuning
           mode == ModeFor(tuning, clockMode.handler)
<1>1. handler.at = "SET_VFO" /\ UNCHANGED <<frontEnd, lo, gains, agc>>
  BY DEF SwitchCplds
<1>2. handler.request.is = "SET_VFO" /\ tuning \in Tunings
  BY <1>1 DEF RadioInv, RadioHandler, KindAt, Told
<1>3. /\ clockMode.handler \in BOOLEAN /\ clockMode.handler = past.fourPhase
      /\ clockMode.dsp = clockMode.handler
  BY <1>1 DEF RadioInv, RadioMode, RadioTypes
<1>4. mode \in BOOLEAN
  BY <1>2, <1>3, ModeOfViewport
<1>5. CASE mode = clockMode.handler
  <2>1. Goes("tune") /\ UNCHANGED <<clockMode, cplds, past>>
    BY <1>5 DEF SwitchCplds
  <2>2. RadioHandler' /\ handler'.at = "tune" /\ handler'.request = handler.request
    BY <1>1, <1>2, <2>1, HandlerGoes DEF RadioInv, KindAt
  <2>3. RadioMode'
    BY <1>3, <1>5, <2>1, <2>2 DEF RadioMode
  <2>4. RadioTypes' /\ RadioChips'
    BY <1>1, <2>1 DEF RadioInv, RadioTypes, RadioChips
  <2>5. RadioPads' /\ RadioGains'
    BY <1>1, <2>1, <2>2 DEF RadioInv, RadioPads, RadioGains
  <2> QED BY <2>2, <2>3, <2>4, <2>5 DEF RadioInv, TunedWhole
<1>6. CASE mode # clockMode.handler
  <2>1. /\ clockMode' = [clockMode EXCEPT !.handler = mode] /\ Goes("switch dsp")
        /\ UNCHANGED cplds \/ cplds' = [cplds EXCEPT !.selected = FALSE]
        /\ \E told \in BOOLEAN : past' = [past EXCEPT !.told = told]
    <3>1. cplds.done \in BOOLEAN
      BY DEF RadioInv, RadioTypes
    <3>2. \A sent \in BOOLEAN : (sent /\ cplds.done) \in BOOLEAN
      BY <3>1
    <3>3. SwitchCplds => \/ UNCHANGED cplds /\ past' = [past EXCEPT !.told = FALSE]
                         \/ \E sent \in BOOLEAN : /\ cplds' = [cplds EXCEPT !.selected = FALSE]
                                                 /\ past' = [past EXCEPT !.told = sent /\ cplds.done]
      BY <1>6, Zenon DEF SwitchCplds
    <3>4. clockMode' = [clockMode EXCEPT !.handler = mode] /\ Goes("switch dsp")
      BY <1>6 DEF SwitchCplds
    <3>5. CASE UNCHANGED cplds /\ past' = [past EXCEPT !.told = FALSE]
      BY <3>4, <3>5, Zenon
    <3>6. CASE \E sent \in BOOLEAN : /\ cplds' = [cplds EXCEPT !.selected = FALSE]
                                   /\ past' = [past EXCEPT !.told = sent /\ cplds.done]
      BY <3>2, <3>4, <3>6, Zenon
    <3> QED BY <3>3, <3>5, <3>6, Zenon
  <2>2. RadioHandler' /\ handler'.at = "switch dsp" /\ handler'.request = handler.request
    BY <1>1, <1>2, <2>1, HandlerGoes DEF RadioInv, KindAt
  <2>3. RadioTypes'
    BY <1>1, <1>4, <2>1 DEF RadioInv, RadioTypes
  <2>4. /\ clockMode'.handler = mode /\ past'.fourPhase = past.fourPhase
        /\ cplds'.done = cplds.done /\ cplds'.selected \in {cplds.selected, FALSE}
        /\ past'.padsCrossed = past.padsCrossed /\ past'.gainsCrossed = past.gainsCrossed
    BY <2>1 DEF RadioInv, RadioTypes
  <2>5. RadioMode'
    <3>1. clockMode'.handler = ModeFor(handler'.request.tuning, past'.fourPhase)
      BY <1>3, <2>2, <2>4
    <3> QED BY <2>2, <3>1 DEF RadioMode
  <2>6. RadioPads' /\ RadioGains' /\ RadioChips'
    BY <1>1, <2>2, <2>4 DEF RadioInv, RadioPads, RadioGains, RadioChips
  <2> QED BY <2>2, <2>3, <2>5, <2>6 DEF RadioInv, TunedWhole
<1> QED BY <1>5, <1>6

\* The DSP follows the handler.
LEMMA SwitchDspKeeps ==
  ASSUME RadioInv, SwitchDsp
  PROVE  RadioInv'
<1>1. /\ handler.at = "switch dsp" /\ Goes("tune") /\ UNCHANGED <<cplds, frontEnd, lo, gains, agc, past>>
      /\ clockMode' = [clockMode EXCEPT !.dsp = clockMode.handler]
  BY DEF SwitchDsp
<1>2. handler.request.is = "SET_VFO"
  BY <1>1 DEF RadioInv, RadioHandler, KindAt
<1>3. RadioHandler' /\ handler'.at = "tune" /\ handler'.request = handler.request
  BY <1>1, <1>2, HandlerGoes DEF RadioInv, KindAt
<1>4. RadioTypes' /\ clockMode'.handler = clockMode.handler /\ clockMode'.dsp = clockMode.handler
  BY <1>1 DEF RadioInv, RadioTypes
<1>5. RadioMode'
  BY <1>1, <1>3, <1>4 DEF RadioInv, RadioMode
<1>6. RadioPads' /\ RadioGains' /\ RadioChips'
  BY <1>1, <1>3 DEF RadioInv, RadioPads, RadioGains, RadioChips
<1> QED BY <1>3, <1>4, <1>5, <1>6 DEF RadioInv, TunedWhole

\* The filter bank and the oscillators are set.
LEMMA TuneKeeps ==
  ASSUME RadioInv, Tune
  PROVE  RadioInv'
<1> DEFINE tuning == handler.request.tuning
           targets == ClockTargets(tuning.freq, tuning.offset, clockMode.handler)
<1>1. handler.at = "tune" /\ Goes("succeed") /\ UNCHANGED <<clockMode, cplds, gains, agc>>
  BY DEF Tune
<1>2. PICK ok \in [1..2 -> BOOLEAN] :
        /\ frontEnd' = [frontEnd EXCEPT !.bypass = tuning.freq < 1750, !.bpf = BankFor(tuning.freq)]
        /\ lo' = [k \in 1..2 |-> IF ok[k] THEN targets[k] ELSE Unknown]
        /\ past' = [past EXCEPT !.fourPhase = (@ \/ WhollyAbove(tuning)) /\ ~WhollyBelow(tuning)]
  BY Zenon DEF Tune
<1>3. handler.request.is = "SET_VFO" /\ tuning \in Tunings
  BY <1>1 DEF RadioInv, RadioHandler, KindAt, Told
<1>4. /\ clockMode.handler \in BOOLEAN /\ past.fourPhase \in BOOLEAN
      /\ clockMode.handler = ModeFor(tuning, past.fourPhase)
      /\ clockMode.dsp = clockMode.handler
  BY <1>1 DEF RadioInv, RadioMode, RadioTypes
<1>5. RadioHandler' /\ handler'.at = "succeed" /\ handler'.request = handler.request
  BY <1>1, HandlerGoes DEF RadioInv
<1> DEFINE mode == (past.fourPhase \/ WhollyAbove(tuning)) /\ ~WhollyBelow(tuning)
<1>6. clockMode.handler = mode
  BY <1>3, <1>4, ModeOfViewport, Zenon
<1>7. past' = [past EXCEPT !.fourPhase = mode]
  BY <1>2, Zenon
<1> HIDE DEF mode
<1>8. /\ past'.fourPhase = mode
      /\ past'.padsCrossed = past.padsCrossed /\ past'.gainsCrossed = past.gainsCrossed
  BY <1>7 DEF RadioInv, RadioTypes
<1>9. /\ frontEnd'.bpf = BankFor(tuning.freq) /\ frontEnd'.pads = frontEnd.pads
      /\ frontEnd'.atten = frontEnd.atten /\ DOMAIN frontEnd' = DOMAIN frontEnd
  BY <1>2 DEF RadioInv, RadioTypes
<1>10. RadioTypes'
  <2>1. mode \in BOOLEAN
    BY <1>4, <1>6
  <2>2. past' \in [fourPhase : BOOLEAN, padsCrossed : BOOLEAN, gainsCrossed : BOOLEAN, told : BOOLEAN]
    BY <1>7, <2>1 DEF RadioInv, RadioTypes
  <2> QED BY <1>1, <1>9, <2>2 DEF RadioInv, RadioTypes
<1>11. RadioMode'
  BY <1>1, <1>4, <1>5, <1>6, <1>8 DEF RadioMode
<1>12. RadioPads' /\ RadioGains' /\ RadioChips'
  BY <1>1, <1>5, <1>8, <1>9 DEF RadioInv, RadioPads, RadioGains, RadioChips
<1>13. TunedWhole'
  <2>1. BankPasses(frontEnd'.bpf, tuning.freq)
    <3>1. tuning.freq \in Nat
      BY <1>3, RadioAssumption
    <3> QED BY <1>9, <3>1, BankFits
  <2> DEFINE below == (tuning.freq - tuning.offset) * Phases(clockMode.handler)
             above == (tuning.freq + tuning.offset) * Phases(clockMode.handler)
  <2>2. \A k \in 1..2 : GivesClock(Registers(targets[k]), targets[k])
    BY <1>3, <1>4, TuningGivesClocks, Zenon
  <2>3. targets[1] = below /\ targets[2] = above
    <3>1. targets = <<below, above>>
      BY <1>3, <1>4, TuningGivesClocks, Zenon
    <3> HIDE DEF targets, below, above
    <3> QED BY <3>1
  <2>4. clockMode'.dsp = clockMode.handler /\ handler'.request.tuning = tuning
    BY <1>1, <1>4, <1>5
  <2>5. ASSUME NEW k \in 1..2, lo'[k] # Unknown
        PROVE  /\ lo'[k] = (IF k = 1 THEN tuning.freq - tuning.offset ELSE tuning.freq + tuning.offset)
                              * Phases(clockMode.handler)
               /\ GivesClock(Registers(lo'[k]), lo'[k])
    <3>1. lo'[k] = targets[k]
      BY <1>2, <2>5, Zenon
    <3>2. targets[k] = (IF k = 1 THEN tuning.freq - tuning.offset ELSE tuning.freq + tuning.offset)
                         * Phases(clockMode.handler)
      <4>1. CASE k = 1
        BY <2>3, <4>1, Zenon
      <4>2. CASE k # 1
        <5>1. k = 2
          BY <4>2
        <5> QED BY <2>3, <4>2, <5>1, Zenon
      <4> QED BY <4>1, <4>2
    <3> QED BY <2>2, <3>1, <3>2, Zenon
  <2> HIDE DEF targets, tuning
  <2> QED BY <2>1, <2>4, <2>5, Zenon DEF TunedWhole
<1> QED BY <1>5, <1>10, <1>11, <1>12, <1>13 DEF RadioInv

\* The first half of an attenuation.
LEMMA LargePadsKeep ==
  ASSUME RadioInv, SetLargePads
  PROVE  RadioInv'
<1>1. /\ handler.at = "SET_ATTEN" /\ Goes("small pads") /\ UNCHANGED <<clockMode, cplds, lo, gains, agc>>
      /\ frontEnd' = [frontEnd EXCEPT !.pads = (@ \cap {3, 6}) \cup (PadsFor(handler.request.db) \cap {12, 24})]
      /\ past' = [past EXCEPT !.padsCrossed = FALSE]
  BY DEF SetLargePads
<1>2. handler.request.is = "SET_ATTEN"
  BY <1>1 DEF RadioInv, RadioHandler, KindAt
<1>3. RadioHandler' /\ handler'.at = "small pads" /\ handler'.request = handler.request
  BY <1>1, <1>2, HandlerGoes DEF RadioInv, KindAt
<1> DEFINE wanted == PadsFor(handler.request.db)
<1>4. /\ frontEnd'.pads = (frontEnd.pads \cap {3, 6}) \cup (wanted \cap {12, 24})
      /\ DOMAIN frontEnd' = DOMAIN frontEnd
  BY <1>1 DEF RadioInv, RadioTypes
<1>5. past'.fourPhase = past.fourPhase /\ past'.gainsCrossed = past.gainsCrossed
  BY <1>1 DEF RadioInv, RadioTypes
<1>6. RadioTypes'
  BY <1>1, <1>4 DEF RadioInv, RadioTypes
<1>7. RadioMode'
  BY <1>1, <1>3, <1>5 DEF RadioInv, RadioMode
<1>8. RadioPads'
  <2> HIDE DEF wanted
  <2>1. frontEnd'.pads \cap {12, 24} = wanted \cap {12, 24}
    BY <1>4
  <2> QED BY <1>3, <2>1 DEF RadioPads, wanted
<1>9. RadioGains' /\ RadioChips'
  BY <1>1, <1>3, <1>5 DEF RadioInv, RadioGains, RadioChips
<1> QED BY <1>3, <1>6, <1>7, <1>8, <1>9 DEF RadioInv, TunedWhole

\* The second half of an attenuation.
LEMMA SmallPadsKeep ==
  ASSUME RadioInv, SetSmallPads
  PROVE  RadioInv'
<1>1. /\ handler.at = "small pads" /\ Goes("succeed") /\ UNCHANGED <<clockMode, cplds, lo, gains, agc, past>>
      /\ frontEnd' = [frontEnd EXCEPT !.pads = (@ \cap {12, 24}) \cup (PadsFor(handler.request.db) \cap {3, 6}),
                                      !.atten = Rounded(handler.request.db)]
  BY DEF SetSmallPads
<1>2. handler.request.is = "SET_ATTEN" /\ handler.request.db \in Int
  BY <1>1 DEF RadioInv, RadioHandler, KindAt, Told
<1>3. RadioHandler' /\ handler'.at = "succeed" /\ handler'.request = handler.request
  BY <1>1, HandlerGoes DEF RadioInv
<1> DEFINE wanted == PadsFor(handler.request.db)
<1>4. /\ frontEnd'.pads = (frontEnd.pads \cap {12, 24}) \cup (wanted \cap {3, 6})
      /\ frontEnd'.atten = Rounded(handler.request.db) /\ DOMAIN frontEnd' = DOMAIN frontEnd
  BY <1>1 DEF RadioInv, RadioTypes
<1>5. RadioTypes' /\ RadioMode'
  BY <1>1, <1>3, <1>4 DEF RadioInv, RadioTypes, RadioMode
<1>6. RadioPads'
  <2>1. PadsValue(wanted) = Rounded(handler.request.db)
    BY <1>2, PadsAddUp
  <2> HIDE DEF wanted
  <2>2. ASSUME ~past.padsCrossed PROVE PadsValue(frontEnd'.pads) = frontEnd'.atten
    <3>1. frontEnd.pads \cap {12, 24} = wanted \cap {12, 24}
      BY <1>1, <2>2 DEF RadioInv, RadioPads, wanted
    <3>2. \A d \in {3, 6, 12, 24} : d \in frontEnd'.pads <=> d \in wanted
      BY <1>4, <3>1
    <3>3. PadsValue(frontEnd'.pads) = PadsValue(wanted)
      BY <3>2 DEF PadsValue
    <3> QED BY <1>4, <2>1, <3>3
  <2> QED BY <1>1, <1>3, <2>2 DEF RadioPads
<1>7. RadioGains' /\ RadioChips'
  BY <1>1, <1>3 DEF RadioInv, RadioGains, RadioChips
<1> QED BY <1>2, <1>3, <1>5, <1>6, <1>7 DEF RadioInv, TunedWhole

\* The gain of one device.
LEMMA GainKeeps ==
  ASSUME RadioInv, NEW device \in 1..2, SetGainOf(device)
  PROVE  RadioInv'
<1> DEFINE wanted == PgaGain(handler.request.code)
<1>0. DOMAIN gains = 1..2
  BY DEF RadioInv, RadioTypes
<1>g. PICK gain \in {wanted, Unknown} : gains' = [gains EXCEPT ![device] = gain]
  BY Zenon DEF SetGainOf
<1> HIDE DEF wanted
<1>1. CASE device = 1
  <2>1. /\ handler.at = "SET_PGA_GAIN" /\ gains' = [gains EXCEPT ![1] = gain]
        /\ past' = [past EXCEPT !.gainsCrossed = FALSE] /\ Goes("second gain")
        /\ UNCHANGED <<clockMode, cplds, frontEnd, lo, agc>>
    BY <1>1, <1>g DEF SetGainOf
  <2>2. handler.request.is = "SET_PGA_GAIN"
    BY <2>1 DEF RadioInv, RadioHandler, KindAt
  <2>3. RadioHandler' /\ handler'.at = "second gain" /\ handler'.request = handler.request
    BY <2>1, <2>2, HandlerGoes DEF RadioInv, KindAt
  <2>4. past'.fourPhase = past.fourPhase /\ past'.padsCrossed = past.padsCrossed
    BY <2>1 DEF RadioInv, RadioTypes
  <2>5. gains'[1] = gain /\ DOMAIN gains' = 1..2
    <3>1. 1 \in DOMAIN gains
      BY <1>0
    <3> QED BY <1>0, <2>1, <3>1, Zenon
  <2>6. RadioTypes'
    BY <2>1, <2>5 DEF RadioInv, RadioTypes
  <2>7. RadioMode' /\ RadioPads' /\ RadioChips'
    BY <2>1, <2>3, <2>4 DEF RadioInv, RadioMode, RadioPads, RadioChips
  <2>8. RadioGains'
    BY <1>g, <2>3, <2>5 DEF RadioGains, wanted
  <2> QED BY <2>3, <2>6, <2>7, <2>8 DEF RadioInv, TunedWhole
<1>2. CASE device = 2
  <2>1. /\ handler.at = "second gain" /\ gains' = [gains EXCEPT ![2] = gain] /\ Goes("succeed")
        /\ UNCHANGED <<clockMode, cplds, frontEnd, lo, agc, past>>
    <3>1. device = 2 /\ device # 1
      BY <1>2
    <3> QED BY <1>g, <3>1, Zenon DEF SetGainOf
  <2>2. handler.request.is = "SET_PGA_GAIN"
    BY <2>1 DEF RadioInv, RadioHandler, KindAt
  <2>3. RadioHandler' /\ handler'.at = "succeed" /\ handler'.request = handler.request
    BY <2>1, HandlerGoes DEF RadioInv
  <2>4. gains'[1] = gains[1] /\ gains'[2] = gain /\ DOMAIN gains' = 1..2
    <3>1. 1 \in DOMAIN gains /\ 2 \in DOMAIN gains /\ 1 # 2
      BY <1>0
    <3> QED BY <1>0, <2>1, <3>1, Zenon
  <2>5. RadioTypes' /\ RadioMode' /\ RadioPads' /\ RadioChips'
    BY <2>1, <2>3, <2>4 DEF RadioInv, RadioTypes, RadioMode, RadioPads, RadioChips
  <2>6. RadioGains'
    <3>1. ~past.gainsCrossed => gains[1] \in {Unknown, wanted}
      BY <2>1 DEF RadioInv, RadioGains, wanted
    <3>2. past' = past /\ handler'.at # "second gain"
      BY <2>1, <2>3
    <3> QED BY <1>g, <2>4, <3>1, <3>2 DEF RadioGains
  <2> QED BY <2>2, <2>3, <2>5, <2>6 DEF RadioInv, TunedWhole
<1> QED BY <1>1, <1>2

\* The CPLDs are reset.
LEMMA ResetKeeps ==
  ASSUME RadioInv, ResetCplds
  PROVE  RadioInv'
<1>1. handler.at = "LOAD_CPLD" /\ UNCHANGED <<clockMode, frontEnd, lo, gains, agc>>
  BY DEF ResetCplds
<1>2. CASE handler' = Idle /\ UNCHANGED <<cplds, past>>
  <2>1. RadioHandler' /\ handler'.at = "idle"
    BY <1>2, HandlerRests
  <2>2. handler.at \notin HalfDone /\ handler'.at \notin HalfDone /\ handler'.at # "succeed"
    BY <1>1, <2>1 DEF HalfDone
  <2> QED BY <1>1, <1>2, <2>1, <2>2, Undisturbed DEF RadioInv, RadioTypes
<1>3. CASE /\ cplds' = [cplds EXCEPT !.done = FALSE, !.selected = TRUE]
           /\ past' = [past EXCEPT !.told = FALSE]
           /\ Goes("stream")
  <2>1. handler.request.is = "LOAD_CPLD"
    BY <1>1 DEF RadioInv, RadioHandler, KindAt
  <2>2. RadioHandler' /\ handler'.at = "stream" /\ handler'.request = handler.request
    BY <1>1, <1>3, <2>1, HandlerGoes DEF RadioInv, KindAt
  <2>3. /\ past'.fourPhase = past.fourPhase
        /\ past'.padsCrossed = past.padsCrossed /\ past'.gainsCrossed = past.gainsCrossed
    BY <1>3 DEF RadioInv, RadioTypes
  <2>4. clockMode.handler \in BOOLEAN /\ cplds'.done = FALSE
    BY <1>3 DEF RadioInv, RadioTypes
  <2>5. RadioTypes'
    BY <1>1, <1>3, <2>4 DEF RadioInv, RadioTypes
  <2>6. RadioMode'
    <3>1. clockMode.handler = past.fourPhase /\ clockMode.dsp = clockMode.handler
      BY <1>1 DEF RadioInv, RadioMode
    <3> QED BY <1>1, <2>2, <2>3, <3>1 DEF RadioMode
  <2>7. RadioPads' /\ RadioGains' /\ RadioChips'
    BY <1>1, <2>2, <2>3, <2>4 DEF RadioInv, RadioPads, RadioGains, RadioChips
  <2> QED BY <2>2, <2>5, <2>6, <2>7 DEF RadioInv, TunedWhole
<1> QED BY <1>2, <1>3 DEF ResetCplds

\* The CPLDs are configured, or not.
LEMMA StreamKeeps ==
  ASSUME RadioInv, StreamBitstream
  PROVE  RadioInv'
<1>1. handler.at = "stream" /\ UNCHANGED <<clockMode, frontEnd, lo, gains, agc, past>>
  BY DEF StreamBitstream
<1>2. RadioHandler' /\ handler'.at \in {"idle", "validate"}
  <2>1. handler' = Idle \/ Goes("validate")
    BY DEF StreamBitstream
  <2>2. handler.request.is = "LOAD_CPLD"
    BY <1>1 DEF RadioInv, RadioHandler, KindAt
  <2>3. ASSUME Goes("validate") PROVE RadioHandler' /\ handler'.at = "validate"
    BY <1>1, <2>2, <2>3, HandlerGoes DEF RadioInv, KindAt
  <2> QED BY <2>1, <2>3, HandlerRests
<1>3. \/ UNCHANGED cplds
      \/ \E done \in BOOLEAN, fourPhase \in BOOLEAN :
           cplds' = [done |-> done, fourPhase |-> fourPhase, selected |-> FALSE]
  BY DEF StreamBitstream
<1>4. cplds' \in [done : BOOLEAN, fourPhase : BOOLEAN, selected : BOOLEAN] /\ RadioChips'
  <2>1. cplds \in [done : BOOLEAN, fourPhase : BOOLEAN, selected : BOOLEAN] /\ RadioChips
    BY DEF RadioInv, RadioTypes
  <2>2. CASE UNCHANGED cplds
    BY <2>1, <2>2 DEF RadioChips
  <2>3. ASSUME NEW done \in BOOLEAN, NEW fourPhase \in BOOLEAN,
               cplds' = [done |-> done, fourPhase |-> fourPhase, selected |-> FALSE]
        PROVE  /\ cplds' \in [done : BOOLEAN, fourPhase : BOOLEAN, selected : BOOLEAN]
               /\ cplds'.selected = FALSE
    BY <2>3
  <2> QED BY <1>3, <2>2, <2>3 DEF RadioChips
<1>5. RadioTypes' /\ RadioMode' /\ RadioPads' /\ RadioGains'
  BY <1>1, <1>2, <1>4 DEF RadioInv, RadioTypes, RadioMode, RadioPads, RadioGains
<1> QED BY <1>2, <1>4, <1>5 DEF RadioInv, TunedWhole

\* The AGC's turn, between any two steps of the handler.
LEMMA ReflexKeeps ==
  ASSUME RadioInv, NEW peak \in Peaks, Reflex(peak)
  PROVE  RadioInv'
<1> DEFINE gain == GainAfter(peak)
           applies == Distance(gain, agc.applied) > 500
<1>1. /\ handler' = [handler EXCEPT !.reflexes = @ + 1] /\ UNCHANGED <<clockMode, cplds, lo, reply>>
      /\ agc' = [agc EXCEPT !.gain = gain, !.applied = IF applies THEN gain ELSE @]
      /\ IF applies
         THEN /\ frontEnd' = [frontEnd EXCEPT !.pads = PadsFor(AttenOf(gain)), !.atten = AttenOf(gain)]
              /\ \E ok \in [1..2 -> BOOLEAN] :
                   gains' = [d \in 1..2 |-> IF ok[d] THEN PgaGain(PgaOf(gain)) ELSE Unknown]
              /\ past' = [past EXCEPT !.padsCrossed = @ \/ handler.at = "small pads",
                                      !.gainsCrossed = @ \/ handler.at = "second gain"]
         ELSE UNCHANGED <<frontEnd, gains, past>>
  BY SMT DEF Reflex
<1>2. gain \in Int
  <2>1. agc.gain \in Int /\ peak \in Int
    BY RadioAssumption DEF RadioInv, RadioTypes
  <2>2. \A mode : Decay(mode) \in Int
    BY DEF Decay
  <2> DEFINE by == IF peak > 0 THEN 500 ELSE Decay(agc.mode)
             left == agc.gain - peak * by
  <2>3. by \in Int
    BY <2>2
  <2> HIDE DEF by
  <2>4. left \in Int
    BY <2>1, <2>3
  <2>5. gain = Clamped(left, 0, 60000)
    BY SMT DEF GainAfter, by
  <2> HIDE DEF left
  <2> QED BY <2>4, <2>5, SMT DEF Clamped
<1> HIDE DEF gain, applies
<1>3. /\ RadioHandler' /\ handler'.at = handler.at
      /\ handler.at # "idle" => handler'.request = handler.request
  <2>1. /\ handler'.at = handler.at /\ DOMAIN handler' = DOMAIN handler
        /\ handler.at # "idle" => handler'.request = handler.request
    BY <1>1 DEF RadioInv, RadioHandler
  <2> QED BY <2>1 DEF RadioInv, RadioHandler
<1>4. "gain" \in DOMAIN agc' /\ agc'.gain \in Int
  BY <1>1, <1>2 DEF RadioInv, RadioTypes
<1>5. CASE ~applies
  <2>1. UNCHANGED <<frontEnd, gains, past, clockMode, cplds, lo>>
    BY <1>1, <1>5
  <2>2. RadioTypes'
    BY <1>4, <2>1 DEF RadioInv, RadioTypes
  <2>3. RadioMode' /\ RadioPads' /\ RadioGains' /\ RadioChips'
    BY <1>3, <2>1 DEF RadioInv, RadioMode, RadioPads, RadioGains, RadioChips
  <2>4. TunedWhole'
    BY <1>3, <2>1 DEF RadioInv, TunedWhole
  <2> QED BY <1>3, <2>2, <2>3, <2>4 DEF RadioInv
<1>6. CASE applies
  <2> DEFINE atten == AttenOf(gain)
             pads == PadsFor(atten)
             pga == PgaGain(PgaOf(gain))
  <2>1. /\ frontEnd' = [frontEnd EXCEPT !.pads = pads, !.atten = atten]
        /\ \E ok \in [1..2 -> BOOLEAN] : gains' = [d \in 1..2 |-> IF ok[d] THEN pga ELSE Unknown]
        /\ past' = [past EXCEPT !.padsCrossed = @ \/ handler.at = "small pads",
                                !.gainsCrossed = @ \/ handler.at = "second gain"]
    BY <1>1, <1>6
  <2>2. PadsValue(pads) = atten
    BY <1>2, AgcAttenuates
  <2> HIDE DEF pads, atten, pga
  <2>3. /\ frontEnd'.pads = pads /\ frontEnd'.atten = atten /\ frontEnd'.bpf = frontEnd.bpf
        /\ DOMAIN frontEnd' = DOMAIN frontEnd
    BY <2>1 DEF RadioInv, RadioTypes
  <2>4. gains'[1] \in {pga, Unknown} /\ gains'[2] \in {pga, Unknown} /\ DOMAIN gains' = 1..2
    BY <2>1
  <2> DEFINE padsCrossed == past.padsCrossed \/ handler.at = "small pads"
             gainsCrossed == past.gainsCrossed \/ handler.at = "second gain"
  <2>5. padsCrossed \in BOOLEAN /\ gainsCrossed \in BOOLEAN
    BY DEF RadioInv, RadioTypes
  <2>6. past' = [past EXCEPT !.padsCrossed = padsCrossed, !.gainsCrossed = gainsCrossed]
    BY <2>1, Zenon
  <2>7. /\ handler.at = "small pads" => padsCrossed
        /\ handler.at = "second gain" => gainsCrossed
    OBVIOUS
  <2> HIDE DEF padsCrossed, gainsCrossed
  <2>8. /\ past' \in [fourPhase : BOOLEAN, padsCrossed : BOOLEAN, gainsCrossed : BOOLEAN, told : BOOLEAN]
        /\ past'.padsCrossed = padsCrossed /\ past'.gainsCrossed = gainsCrossed
        /\ past'.fourPhase = past.fourPhase
    BY <2>5, <2>6 DEF RadioInv, RadioTypes
  <2>9. RadioTypes'
    BY <1>1, <1>4, <2>3, <2>4, <2>8 DEF RadioInv, RadioTypes
  <2>10. RadioMode' /\ RadioChips'
    BY <1>1, <1>3, <2>8 DEF RadioInv, RadioMode, RadioChips
  <2>11. RadioPads'
    BY <1>3, <2>2, <2>3, <2>7, <2>8 DEF RadioPads
  <2>12. RadioGains'
    BY <1>3, <2>4, <2>7, <2>8 DEF RadioGains
  <2>13. TunedWhole'
    BY <1>1, <1>3, <2>3, <2>8 DEF RadioInv, TunedWhole
  <2> QED BY <1>3, <2>9, <2>10, <2>11, <2>12, <2>13 DEF RadioInv
<1> QED BY <1>5, <1>6

\* Handler, front end and chips stay right between and within requests.
THEOREM RadioInvariant == RadioSpec => []RadioInv
<1>1. RadioInit => RadioInv
  BY RadioStarts
<1>2. ASSUME RadioInv, [RadioNext]_radioVars PROVE RadioInv'
  <2>1. CASE UNCHANGED radioVars
    <3>1. UNCHANGED <<handler, clockMode, cplds, frontEnd, lo, gains, agc, past>>
      BY <2>1 DEF radioVars
    <3>2. RadioHandler' /\ RadioTypes'
      BY <1>2, <3>1 DEF RadioInv, RadioHandler, RadioTypes
    <3>3. RadioMode' /\ RadioPads' /\ RadioGains' /\ RadioChips'
      BY <1>2, <3>1 DEF RadioInv, RadioMode, RadioPads, RadioGains, RadioChips
    <3>4. TunedWhole'
      BY <1>2, <3>1 DEF RadioInv, TunedWhole
    <3> QED BY <3>2, <3>3, <3>4 DEF RadioInv
  <2>2. CASE RadioNext
    <3>1. ASSUME NEW request \in Requests, Receive(request) PROVE RadioInv'
      BY <1>2, <3>1, ReceiveKeeps, Zenon
    <3>2. ASSUME NEW device \in 1..2, SetGainOf(device) PROVE RadioInv'
      BY <1>2, <3>2, GainKeeps, Zenon
    <3>3. ASSUME NEW peak \in Peaks, Reflex(peak) PROVE RadioInv'
      BY <1>2, <3>3, ReflexKeeps, Zenon
    <3>4. CASE Succeed \/ Ignore \/ GetState \/ GetVersion
      BY <1>2, <3>4, RestKeeps, Zenon
    <3>5. CASE SwitchCplds
      BY <1>2, <3>5, SwitchCpldsKeeps, Zenon
    <3>6. CASE SwitchDsp
      BY <1>2, <3>6, SwitchDspKeeps, Zenon
    <3>7. CASE Tune
      BY <1>2, <3>7, TuneKeeps, Zenon
    <3>8. CASE SetLargePads
      BY <1>2, <3>8, LargePadsKeep, Zenon
    <3>9. CASE SetSmallPads
      BY <1>2, <3>9, SmallPadsKeep, Zenon
    <3>10. CASE SetFilters \/ SetAgcMode
      BY <1>2, <3>10, SetKeeps, Zenon
    <3>11. CASE ResetCplds
      BY <1>2, <3>11, ResetKeeps, Zenon
    <3>12. CASE StreamBitstream
      BY <1>2, <3>12, StreamKeeps, Zenon
    <3>13. CASE ValidateSignatures
      BY <1>2, <3>13, ValidateKeeps, Zenon
    <3> QED BY <2>2, <3>1, <3>2, <3>3, <3>4, <3>5, <3>6, <3>7, <3>8, <3>9, <3>10, <3>11, <3>12, <3>13,
               Zenon DEF RadioNext
  <2> QED BY <1>2, <2>1, <2>2
<1> QED BY <1>1, <1>2, PTL DEF RadioSpec

\* What RadioRight says is part of the invariant.
LEMMA RadioIsRight == ASSUME RadioInv PROVE RadioRight
<1>1. Quiet => handler.at \notin {"switch dsp", "tune", "small pads", "second gain"}
  BY DEF Quiet
<1>2. ModesAgree
  BY <1>1 DEF RadioInv, RadioMode, ModesAgree
<1>3. FrontEndAsReported
  BY <1>1 DEF RadioInv, RadioPads, RadioGains, FrontEndAsReported
<1>4. ChipsReleased
  BY DEF RadioInv, RadioChips, ChipsReleased
<1> QED BY <1>2, <1>3, <1>4 DEF RadioInv, RadioRight

\* For any tunings whose PLLs fit, any requests, failures of the buses and turns of the AGC between their
\* steps, and any transactions on the register link: the handler and the DSP are in one mode, and the
\* attenuation, gains and clocks whose writes went through are those asked for; over the link the
\* signature and a frozen count are read whole, and neither a read nor the firmware's write changes the
\* control register (ControlHandler and its drivers; top.sv and its test bench).
THEOREM ControlAlwaysRight == RadioSpec /\ LinkSpec => []ControlRight
<1>1. RadioInv => RadioRight
  BY RadioIsRight
<1> QED BY <1>1, RadioInvariant, RegistersReadRight, PTL DEF ControlRight
============================================================================
