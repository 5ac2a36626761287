------------------------------ MODULE UnixRpc ------------------------------
(***************************************************************************)
(* UnixSocketTransport.cpp: requests and responses over a Unix-domain      *)
(* stream socket, one client at a time.                                    *)
(*                                                                         *)
(* A message travels as a length and a payload; either side may give up    *)
(* between the two, and a send may stop between the two.  A server whose   *)
(* receive fails, for whatever reason, closes the connection; a client     *)
(* whose receive fails keeps it.  A message is known by its request's      *)
(* number.                                                                 *)
(***************************************************************************)
EXTENDS Integers, Sequences, FiniteSetsExt

CONSTANTS MaxConnections, \* bound: connections made
          MaxRequests     \* bound: requests sent

ASSUME UnixRpcAssumption == {MaxConnections, MaxRequests} \subseteq Nat \ {0}

VARIABLES
  listening,   \* listen_fd_ open and the path bound
  connections, \* the connections made: what is under way each way, and who has it open
  rpcServer,   \* how far the server is, its conn_fd_, the request it holds
  rpcClient,   \* how far the client is, its conn_fd_, the request it waits for, the length read
  requests,    \* history: requests sent so far
  failedOn,    \* history: the connections a request of the client has failed on
  answer       \* history: the latest answer: request, connection, what came

rpcVars == <<listening, connections, rpcServer, rpcClient, requests, failedOn, answer>>

Length(id) == <<"length", id>>
Payload(id) == <<"payload", id>>
Whole(id) == <<Length(id), Payload(id)>>
Garbage == 0
NoConnection == [toServer |-> <<>>, toClient |-> <<>>, byServer |-> FALSE, byClient |-> FALSE,
                 waiting |-> FALSE]
ServerIdle == [at |-> "idle", fd |-> 0, request |-> 0]
ClientIdle == [at |-> "idle", fd |-> 0, request |-> 0, length |-> 0]

RpcInit ==
  /\ listening = FALSE /\ connections = <<>>
  /\ rpcServer = ServerIdle /\ rpcClient = ClientIdle
  /\ requests = 0 /\ failedOn = {} /\ answer = [request |-> 0, on |-> 0, got |-> 0]

Backlog == {c \in DOMAIN connections : connections[c].waiting}

----------------------------------------------------------------------------
(* Connecting.                                                             *)

\* connect() of the server: a socket file left by another is removed first.
Listen ==
  /\ ~listening
  /\ listening' = TRUE
  /\ UNCHANGED <<connections, rpcServer, rpcClient, requests, failedOn, answer>>

\* disconnect() of the server: the client's connection goes, and those not accepted yet.
StopListening ==
  /\ listening /\ rpcServer.at \in {"idle", "serving"}
  /\ listening' = FALSE
  /\ connections' = [c \in DOMAIN connections |-> [connections[c] EXCEPT !.byServer = FALSE,
                                                                        !.waiting = FALSE]]
  /\ rpcServer' = ServerIdle
  /\ UNCHANGED <<rpcClient, requests, failedOn, answer>>

\* connect() of the client, which a client that has a connection only confirms.
ConnectClient ==
  /\ rpcClient.at = "idle" /\ rpcClient.fd = 0
  /\ listening /\ Len(connections) < MaxConnections
  /\ connections' = Append(connections, [NoConnection EXCEPT !.byServer = TRUE, !.byClient = TRUE,
                                                             !.waiting = TRUE])
  /\ rpcClient' = [ClientIdle EXCEPT !.fd = Len(connections')]
  /\ UNCHANGED <<listening, rpcServer, requests, failedOn, answer>>

\* disconnect(): what the peer has sent is lost with the descriptor.
DisconnectClient ==
  /\ rpcClient.at = "idle" /\ rpcClient.fd # 0
  /\ connections' = [connections EXCEPT ![rpcClient.fd].byClient = FALSE]
  /\ rpcClient' = ClientIdle
  /\ UNCHANGED <<listening, rpcServer, requests, failedOn, answer>>

\* acceptClient(): the present client is closed first, whether another waits or not.
AcceptClient ==
  /\ listening /\ rpcServer.at = "idle"
  /\ LET closed == IF rpcServer.fd = 0 THEN connections
                   ELSE [connections EXCEPT ![rpcServer.fd].byServer = FALSE]
     IN  IF Backlog = {}
         THEN connections' = closed /\ rpcServer' = ServerIdle
         ELSE LET c == Min(Backlog)
              IN  /\ connections' = [closed EXCEPT ![c].waiting = FALSE]
                  /\ rpcServer' = [ServerIdle EXCEPT !.fd = c]
  /\ UNCHANGED <<listening, rpcClient, requests, failedOn, answer>>

----------------------------------------------------------------------------
(* The server: receiveRequest() and sendResponse().                        *)

\* receiveRequest(), which accepts a client when it has none and one is there in time.
ReceiveRequest ==
  /\ listening /\ rpcServer.at = "idle"
  /\ IF rpcServer.fd # 0
     THEN rpcServer' = [rpcServer EXCEPT !.at = "length"] /\ UNCHANGED connections
     ELSE /\ Backlog # {}
          /\ LET c == Min(Backlog)
             IN  /\ connections' = [connections EXCEPT ![c].waiting = FALSE]
                 /\ rpcServer' = [ServerIdle EXCEPT !.at = "length", !.fd = c]
  /\ UNCHANGED <<listening, rpcClient, requests, failedOn, answer>>

Incoming == connections[rpcServer.fd].toServer

\* Four bytes of a length, or of a payload that an abandoned message has left.
ServerReadsLength ==
  /\ rpcServer.at = "length" /\ Incoming # <<>> /\ Head(Incoming)[1] = "length"
  /\ rpcServer' = [rpcServer EXCEPT !.at = "payload", !.request = Head(Incoming)[2]]
  /\ connections' = [connections EXCEPT ![rpcServer.fd].toServer = Tail(@)]
  /\ UNCHANGED <<listening, rpcClient, requests, failedOn, answer>>

\* The payload: the request, unless the next message's bytes came in its place.
ServerReadsPayload ==
  /\ rpcServer.at = "payload" /\ Incoming # <<>>
  /\ rpcServer' = [rpcServer EXCEPT !.at = "serving",
                     !.request = IF Head(Incoming) = Payload(rpcServer.request) THEN @
                                 ELSE Garbage]
  /\ connections' = [connections EXCEPT ![rpcServer.fd].toServer = Tail(@)]
  /\ UNCHANGED <<listening, rpcClient, requests, failedOn, answer>>

\* A timeout, the end of the stream or an impossible length: the client is closed.
ServerGivesUp ==
  /\ rpcServer.at \in {"length", "payload"}
  /\ connections' = [connections EXCEPT ![rpcServer.fd].byServer = FALSE]
  /\ rpcServer' = ServerIdle
  /\ UNCHANGED <<listening, rpcClient, requests, failedOn, answer>>

\* sendMessage(): all of it, the length only, or nothing.
Sendable(id, open) == IF open THEN {Whole(id), <<Length(id)>>, <<>>} ELSE {<<>>}

\* A plausible slip: a response that may not have arrived is sent again.
SendResponseAgain ==
  /\ rpcServer.at = "serving"
  /\ \E sent \in Sendable(rpcServer.request, connections[rpcServer.fd].byClient) :
       /\ connections' = [connections EXCEPT ![rpcServer.fd].toClient = @ \o sent]
       /\ Len(connections'[rpcServer.fd].toClient) < 5
       /\ rpcServer' = [rpcServer EXCEPT !.at = IF sent = <<>> THEN "idle" ELSE @]
  /\ UNCHANGED <<listening, rpcClient, requests, failedOn, answer>>

\* A response that is not sent is no reason to close the connection.
SendResponse ==
  /\ rpcServer.at = "serving"
  /\ \E sent \in Sendable(rpcServer.request, connections[rpcServer.fd].byClient) :
       connections' = [connections EXCEPT ![rpcServer.fd].toClient = @ \o sent]
  /\ rpcServer' = [rpcServer EXCEPT !.at = "idle", !.request = 0]
  /\ UNCHANGED <<listening, rpcClient, requests, failedOn, answer>>

----------------------------------------------------------------------------
(* The client: sendRequest().                                              *)

Conn == connections[rpcClient.fd]

\* A request that is not sent whole is an IoError.
SendRequest ==
  /\ rpcClient.at = "idle" /\ rpcClient.fd # 0 /\ requests < MaxRequests
  /\ requests' = requests + 1
  /\ \E sent \in Sendable(requests', Conn.byServer) :
       /\ connections' = [connections EXCEPT ![rpcClient.fd].toServer = @ \o sent]
       /\ IF sent = Whole(requests')
          THEN /\ rpcClient' = [rpcClient EXCEPT !.at = "length", !.request = requests']
               /\ UNCHANGED failedOn
          ELSE /\ failedOn' = failedOn \cup {rpcClient.fd}
               /\ UNCHANGED rpcClient
  /\ UNCHANGED <<listening, rpcServer, answer>>

ClientReadsLength ==
  /\ rpcClient.at = "length" /\ Conn.toClient # <<>> /\ Head(Conn.toClient)[1] = "length"
  /\ rpcClient' = [rpcClient EXCEPT !.at = "payload", !.length = Head(Conn.toClient)[2]]
  /\ connections' = [connections EXCEPT ![rpcClient.fd].toClient = Tail(@)]
  /\ UNCHANGED <<listening, rpcServer, requests, failedOn, answer>>

ClientReadsPayload ==
  /\ rpcClient.at = "payload" /\ Conn.toClient # <<>>
  /\ answer' = [request |-> rpcClient.request, on |-> rpcClient.fd,
                got |-> IF Head(Conn.toClient) = Payload(rpcClient.length) THEN rpcClient.length
                        ELSE Garbage]
  /\ rpcClient' = [ClientIdle EXCEPT !.fd = rpcClient.fd]
  /\ connections' = [connections EXCEPT ![rpcClient.fd].toClient = Tail(@)]
  /\ UNCHANGED <<listening, rpcServer, requests, failedOn>>

\* A timeout or the end of the stream: both are reported as Timeout, and the connection stays.
ClientGivesUp ==
  /\ rpcClient.at \in {"length", "payload"}
  /\ failedOn' = failedOn \cup {rpcClient.fd}
  /\ rpcClient' = [ClientIdle EXCEPT !.fd = rpcClient.fd]
  /\ UNCHANGED <<listening, connections, rpcServer, requests, answer>>

RpcNext ==
  \/ Listen \/ StopListening \/ ConnectClient \/ DisconnectClient \/ AcceptClient
  \/ ReceiveRequest \/ ServerReadsLength \/ ServerReadsPayload \/ ServerGivesUp \/ SendResponse
  \/ SendRequest \/ ClientReadsLength \/ ClientReadsPayload \/ ClientGivesUp

RpcSpec == RpcInit /\ [][RpcNext]_rpcVars

----------------------------------------------------------------------------

\* From connecting until its first request that fails, the client gets the answer to the request
\* it sent; afterwards only disconnect() helps, for a late answer is taken for the next one's
\* (sendRequest(), UnixSocketTransport.cpp:248-257, matches answers by their order alone).
AnswersMatch == answer.on \notin failedOn => answer.got = answer.request
=============================================================================
