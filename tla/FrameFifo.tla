----------------------------- MODULE FrameFifo ------------------------------
(***************************************************************************)
(* What a RingBuffer<T, CAPACITY> promises to the two threads that share   *)
(* it, with no index, slot or copy loop in sight: the frames that leave    *)
(* the ring are, in order and without loss or repetition, the frames that  *)
(* entered it, and at most CAPACITY of them are inside.                    *)
(*                                                                         *)
(*   sent   every frame write() has accepted since the ring was built      *)
(*   taken  every frame that read() has returned or clear() has dropped    *)
(***************************************************************************)
EXTENDS SequencesExt

CONSTANTS Frame, Capacity

VARIABLES sent, taken

vars == <<sent, taken>>

Init == /\ sent = <<>>
        /\ taken = <<>>

\* write(): a burst of frames goes in at the tail, all of it within the free space.
Put == /\ sent' \in Seq(Frame)
       /\ IsPrefix(sent, sent')
       /\ Len(sent') - Len(taken) <= Capacity
       /\ UNCHANGED taken

\* read() or clear(): the oldest frames leave, and they are the frames that went in.
Take == /\ taken' \in Seq(Frame)
        /\ IsPrefix(taken, taken')
        /\ IsPrefix(taken', sent)
        /\ UNCHANGED sent

Next == Put \/ Take

Spec == Init /\ [][Next]_vars
=============================================================================
