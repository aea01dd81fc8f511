--------------------------- MODULE UDPFrameServer ---------------------------
(***************************************************************************)
(* daqd/UDPFrameServer.cpp: the frame server that receives datagrams.      *)
(*                                                                         *)
(* It has the same stream, worker and main thread as DAQFrameServer, and   *)
(* uses that module's variables; frames on their way are in the network or *)
(* in the socket.  A datagram holds one frame or more, and some get lost.  *)
(* The worker has frames `head` to `next` - 1 of its datagram left.  The   *)
(* replies to commands are in CommandPath.                                 *)
(***************************************************************************)
EXTENDS DAQFrameServer

CONSTANT MaxPacked     \* bound on the frames in a datagram

ASSUME UDPAssumption == MaxPacked \in Nat \ {0}

-----------------------------------------------------------------------------
(* The worker.                                                             *)

\* recv.  Any other result of it is nothing to the queue, or a reply.
ReceiveDatagram ==
  /\ worker = "loop" /\ ~die
  /\ \E first \in next .. (generated - 1), size \in 1 .. MaxPacked :
       /\ first + size <= generated
       /\ head' = first
       /\ next' = first + size
  /\ spill' \in 0 .. MaxSpill
  /\ worker' = "mode"
  /\ UNCHANGED <<server, cardOn, generated, runStart, serverVars, dropLostFrame,
                 frameCount, lastFrameWasBad, torn, die, main>>

\* The mode is read without the lock, once for a datagram.
TestMode ==
  /\ worker = "mode"
  /\ worker' = IF acquisitionMode # 0 THEN "slot" ELSE "loop"
  /\ UNCHANGED <<serverVars, cardVars, head, spill, dropLostFrame, frameCount,
                 lastFrameWasBad, torn, die, main>>

\* memcpy of the size in the header, before any check of it.
CopyHeader ==
  /\ worker = "header"
  /\ WriteSlot([head |-> head, whole |-> FALSE], 0)
  /\ worker' = "words"
  /\ UNCHANGED <<queueVars, acquisitionMode, minimumFrameID, dataFrame, cardVars,
                 head, spill, dropLostFrame, frameCount, lastFrameWasBad, torn, die, main>>

CopyWords ==
  /\ worker = "words"
  /\ WriteSlot([head |-> head, whole |-> spill = 0], spill)
  /\ worker' = "compare"
  /\ UNCHANGED <<queueVars, acquisitionMode, minimumFrameID, dataFrame, cardVars,
                 head, spill, dropLostFrame, frameCount, lastFrameWasBad, torn, die, main>>

\* The next frame of the datagram, or of none.
NextOfDatagram ==
  IF head + 1 < next
  THEN head' = head + 1 /\ spill' \in 0 .. MaxSpill /\ worker' = "slot"
  ELSE worker' = "loop" /\ UNCHANGED <<head, spill>>

\* The size does not fit the number of events: the rest is passed over.
RejectDatagram ==
  /\ worker = "compare" /\ (Corruption \/ spill > 0)
  /\ dataFrame' = DevNull
  /\ worker' = "loop"
  /\ UNCHANGED <<queueVars, acquisitionMode, minimumFrameID, dataFrameSharedMemory,
                 cardVars, head, spill, dropLostFrame, frameCount, lastFrameWasBad,
                 torn, die, main>>

\* A slip: the minimum is not looked at.
CompareNothing ==
  /\ worker = "compare"
  /\ worker' = "publish"
  /\ UNCHANGED <<serverVars, cardVars, head, spill, dropLostFrame, frameCount,
                 lastFrameWasBad, torn, die, main>>

\* The minimum is read without the lock, and before the slot is published.
CompareMinimum ==
  /\ worker = "compare"
  /\ IF head < minimumFrameID
     THEN dataFrame' = DevNull /\ NextOfDatagram
     ELSE worker' = "publish" /\ UNCHANGED <<dataFrame, head, spill>>
  /\ UNCHANGED <<queueVars, acquisitionMode, minimumFrameID, dataFrameSharedMemory,
                 cardVars, dropLostFrame, frameCount, lastFrameWasBad, torn, die, main>>

PublishCopy ==
  /\ worker = "publish"
  /\ PublishSlot
  /\ NextOfDatagram
  /\ UNCHANGED <<dataFrameReadPointer, acquisitionMode, minimumFrameID,
                 dataFrameSharedMemory, cardVars, dropLostFrame, frameCount,
                 lastFrameWasBad, torn, die, main>>

\* recv returns after 100 ms at the latest.
ReceiverExit ==
  /\ die /\ worker = "loop"
  /\ worker' = "exited"
  /\ UNCHANGED <<serverVars, cardVars, head, spill, dropLostFrame, frameCount,
                 lastFrameWasBad, torn, die, main>>

Receiver ==
  \/ ReceiveDatagram \/ TestMode \/ GetSlot \/ CopyHeader \/ CopyWords
  \/ RejectDatagram \/ CompareMinimum \/ PublishCopy \/ ReceiverExit

-----------------------------------------------------------------------------
(* The main thread's requests are those of FrameServer.  Nothing restarts   *)
(* the front end; the frames of the new acquisition are those it sends from *)
(* now on.                                                                  *)

FirstWipeOfReceiver ==
  /\ main = "poll"
  /\ StartAcquisitionFirstWipe
  /\ runStart' = generated
  /\ main' = "sleeping"
  /\ UNCHANGED <<server, cardOn, generated, next, workerVars, die>>

WipeOfReceiver ==
  /\ main = "poll"
  /\ StopAcquisition
  /\ UNCHANGED <<cardVars, workerVars, die, main>>
=============================================================================
