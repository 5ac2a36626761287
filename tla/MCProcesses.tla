---------------------------- MODULE MCProcesses ----------------------------
(***************************************************************************)
(* What runs beside the application, for TLC.  The twin's library between  *)
(* processes: the shared-memory ring, the two socket transports, the       *)
(* firmware as a child process, the host client, the analogue simulation.  *)
(* The radio itself: the firmware's capture of samples, its control plane, *)
(* and the register link to the CPLDs.  They share no variable, so one run *)
(* checks them one after the other: the initial state says which moves,    *)
(* and the others start in one of their initial states and stay.           *)
(***************************************************************************)
EXTENDS SharedMem, UnixRpc, TcpFraming, FirmwareProcess, HostApp, Simulation,
        Capture, RadioControl

VARIABLE part

vars == <<part, shmVars, rpcVars, tcpVars, firmwareVars, hostVars, simVars, captureVars, radioVars, linkVars>>

\* "NxRx".
MCSignature == Bits(20088, 16) \o Bits(21112, 16)

\* Banks 1 to 4, one viewport just touching 15 MHz, and one spanning all of it.
MCTunings ==
  {[freq |-> f, offset |-> 12, span |-> 384] : f \in {1000, 7100, 15192, 21200}}
    \cup {[freq |-> 29000, offset |-> 12, span |-> 60000]}
MCPgaCodes == {-1, 20}
MCPeaks == {-40, 12}

Twin == <<shmVars, rpcVars, tcpVars, firmwareVars, hostVars, simVars>>
Radio == <<captureVars, radioVars, linkVars>>

Init ==
  /\ part \in {"ring", "rpc", "tcp", "firmware", "host", "simulation", "capture", "radio", "link"}
  /\ ShmInit /\ RpcInit /\ TcpInit /\ FirmwareInit /\ HostInit /\ SimInit
  /\ cplds \in (IF part = "radio" THEN CpldsAtStart ELSE {CHOOSE c \in CpldsAtStart : TRUE})
  /\ CaptureInit /\ RadioInit /\ LinkInit

RingMoves == ShmNext /\ UNCHANGED <<rpcVars, tcpVars, firmwareVars, hostVars, simVars, Radio>>
RpcMoves == RpcNext /\ UNCHANGED <<shmVars, tcpVars, firmwareVars, hostVars, simVars, Radio>>
TcpMoves == TcpNext /\ UNCHANGED <<shmVars, rpcVars, firmwareVars, hostVars, simVars, Radio>>
OnlyFirmware == part = "firmware" /\ UNCHANGED <<part, shmVars, rpcVars, tcpVars, hostVars, simVars, Radio>>
HostMoves == HostNext /\ UNCHANGED <<shmVars, rpcVars, tcpVars, firmwareVars, simVars, Radio>>
SimMoves == SimNext /\ UNCHANGED <<shmVars, rpcVars, tcpVars, firmwareVars, hostVars, Radio>>
CaptureMoves == CaptureNext /\ UNCHANGED <<Twin, radioVars, linkVars>>
RadioMoves == RadioNext /\ UNCHANGED <<Twin, captureVars, linkVars>>
LinkMoves == LinkNext /\ UNCHANGED <<Twin, captureVars, radioVars>>

Next ==
  \/ part = "ring" /\ RingMoves /\ UNCHANGED part
  \/ part = "rpc" /\ RpcMoves /\ UNCHANGED part
  \/ part = "tcp" /\ TcpMoves /\ UNCHANGED part
  \/ FirmwareNext /\ OnlyFirmware
  \/ part = "host" /\ HostMoves /\ UNCHANGED part
  \/ part = "simulation" /\ SimMoves /\ UNCHANGED part
  \/ part = "capture" /\ CaptureMoves /\ UNCHANGED part
  \/ part = "radio" /\ RadioMoves /\ UNCHANGED part
  \/ part = "link" /\ LinkMoves /\ UNCHANGED part

Spec ==
  /\ Init /\ [][Next]_vars
  /\ WF_vars(part = "firmware" /\ OwnerStep /\ OnlyFirmware)
  /\ WF_vars(part = "firmware" /\ MonitorStep /\ OnlyFirmware)
=============================================================================
