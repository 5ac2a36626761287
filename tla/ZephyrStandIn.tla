--------------------------- MODULE ZephyrStandIn ---------------------------
(***************************************************************************)
(* The firmware's stand-in under Zephyr (twin/zephyr/src): a second        *)
(* program that maps the ring of SharedMem, read-only and with a position  *)
(* of its own, and tunes virtual oscillators from a shell.                 *)
(*                                                                         *)
(* It has its own copy of the ring's header, whose magic number differs    *)
(* from the one the producer writes.                                       *)
(***************************************************************************)
EXTENDS SharedMem

CONSTANTS ShellFreqs, \* frequencies typed in the shell
          MaxBoots    \* bound: boots

VARIABLES
  standIn,  \* up, shm_connected_, the mapped object, local_read_pos_, frames counted
  vfoFreq,  \* g_vfo_freq
  ncoFreq,  \* VirtualNco::freq_hz_
  boots,    \* counter for the bound
  refused   \* history: a complete header was refused

zephyrVars == <<standIn, vfoFreq, ncoFreq, boots, refused>>

Vfos == 0..2
DefaultFreq == 14000000
RpcConnected == FALSE
Off == [up |-> FALSE, connected |-> FALSE, object |-> 0, readPos |-> 0, frames |-> 0]

ZephyrInit ==
  /\ standIn = Off
  /\ vfoFreq = [v \in Vfos |-> DefaultFreq] /\ ncoFreq = [v \in Vfos |-> 0]
  /\ boots = 0 /\ refused = FALSE

\* IQRingBufferHeader::MAGIC of the producer, and IQ_RING_MAGIC.
ProducerMagic == "NXRQ"
IqRingMagic == "NEXR"
MagicOf(object) == IF object.valid THEN ProducerMagic ELSE "none"

\* main(): the transport, which may fail; the peripherals; the thread.  Nothing tries again.
InitializeTransport ==
  IF /\ shmName # 0 /\ objects[shmName].sized
     /\ MagicOf(objects[shmName]) = IqRingMagic
  THEN [Off EXCEPT !.up = TRUE, !.connected = TRUE, !.object = shmName,
                   !.readPos = objects[shmName].readPos]
  ELSE [Off EXCEPT !.up = TRUE]
Boot ==
  /\ ~standIn.up /\ boots < MaxBoots
  /\ boots' = boots + 1
  /\ standIn' = InitializeTransport
  /\ refused' = (refused \/ (/\ shmName # 0 /\ objects[shmName].valid /\ ~objects[shmName].dirty
                             /\ ~standIn'.connected))
  /\ vfoFreq' = [v \in Vfos |-> DefaultFreq] /\ ncoFreq' = vfoFreq'

\* shutdown(): the name is the producer's.
ShutDown ==
  /\ standIn.up
  /\ standIn' = Off
  /\ UNCHANGED <<vfoFreq, ncoFreq, boots, refused>>

\* process_iq_thread(): readFrame() of what hasData() has seen.
HasIqData == standIn.connected /\ objects[standIn.object].writePos # standIn.readPos
ProcessFrame ==
  /\ standIn.up /\ HasIqData
  /\ standIn' = [standIn EXCEPT !.readPos = @ + 1, !.frames = @ + 1]
  /\ UNCHANGED <<vfoFreq, ncoFreq, boots, refused>>

\* "freq" in the shell; setFrequency() tells the orchestrator only over an RPC that is a stub.
SetFreq(vfo, freq) ==
  /\ standIn.up /\ vfo \in Vfos /\ ~RpcConnected
  /\ vfoFreq' = [vfoFreq EXCEPT ![vfo] = freq]
  /\ ncoFreq' = [ncoFreq EXCEPT ![vfo] = freq]
  /\ UNCHANGED <<standIn, boots, refused>>

ZephyrNext ==
  \/ Boot \/ ShutDown \/ ProcessFrame
  \/ \E vfo \in Vfos, freq \in ShellFreqs : SetFreq(vfo, freq)

TwoProgramsInit == ShmInit /\ ZephyrInit
TwoProgramsNext ==
  \/ ShmNext /\ UNCHANGED zephyrVars
  \/ ZephyrNext /\ UNCHANGED shmVars
ZephyrSpec == TwoProgramsInit /\ [][TwoProgramsNext]_<<shmVars, zephyrVars>>

----------------------------------------------------------------------------

\* "Ring buffer header - must match SharedMemTransport layout" (iq_frame.hpp:34): a stand-in that
\* boots when the producer's header is complete accepts it.
AcceptsProducersHeader == ~refused
=============================================================================
