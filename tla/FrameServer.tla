---------------------------- MODULE FrameServer ----------------------------
(***************************************************************************)
(* The state that both kinds of frame server share, and the operations on  *)
(* it: the queue of data frames in shared memory with its two pointers,    *)
(* the acquisition mode, and the slot the worker thread has taken.         *)
(*                                                                         *)
(* Every operator below is one critical section of `lock` in               *)
(* daqd/FrameServer.cpp or in a worker's doWork, or one unlocked access.   *)
(* The modules that EXTEND this one say which thread executes it when.     *)
(*                                                                         *)
(* A frame is known by its stamp: its position in the stream of frames the *)
(* front end has generated since the daemon started.  The frame ID in a    *)
(* frame's header restarts when an acquisition starts and otherwise counts *)
(* the same thing.                                                         *)
(***************************************************************************)
EXTENDS FrameRing

CONSTANT MaxStamp      \* bound on the frames generated in a behaviour

ASSUME StampAssumption == MaxStamp \in Nat

Stamps == 0 .. MaxStamp

\* What a slot holds: the header of frame `head`, and whether all of the
\* slot's other words are that frame's too.
SlotContents == [head : Stamps, whole : BOOLEAN]

VARIABLES
  dataFrameWritePointer,
  dataFrameReadPointer,
  acquisitionMode,          \* 0 or the mode of the running acquisition
  minimumFrameID,           \* as a stamp
  dataFrameSharedMemory,
  dataFrame                 \* where the worker puts its frame: a slot or DevNull

queueVars  == <<dataFrameWritePointer, dataFrameReadPointer>>
serverVars == <<queueVars, acquisitionMode, minimumFrameID,
                dataFrameSharedMemory, dataFrame>>

DevNull == -1              \* the worker's private frame, which nobody reads

ServerTypeOK ==
  /\ dataFrameWritePointer \in Pointers
  /\ dataFrameReadPointer \in Pointers
  /\ acquisitionMode \in {0, 1}
  /\ minimumFrameID \in Stamps
  /\ dataFrameSharedMemory \in [Slots -> SlotContents]
  /\ dataFrame \in Slots \cup {DevNull}

ServerInit ==
  /\ dataFrameWritePointer = 0
  /\ dataFrameReadPointer = 0
  /\ acquisitionMode = 0
  /\ minimumFrameID = 0
  /\ dataFrameSharedMemory = [s \in Slots |-> [head |-> 0, whole |-> FALSE]]
  /\ dataFrame = DevNull

-----------------------------------------------------------------------------
(* Plausible slips in the operations below, to be put in their place when   *)
(* the properties are tested.                                               *)

\* No test for a full queue.
TakeSlotAlways == dataFrame' = SlotOf(dataFrameWritePointer)

\* One wipe instead of two.
StartAcquisitionNoSecondWipe ==
  /\ acquisitionMode' = 1
  /\ minimumFrameID' = 0
  /\ UNCHANGED <<queueVars, dataFrameSharedMemory, dataFrame>>

\* A pointer wrapped like a slot.
SetDataFrameReadSlot(pointer) ==
  /\ dataFrameReadPointer' = SlotOf(pointer)
  /\ UNCHANGED <<dataFrameWritePointer, acquisitionMode, minimumFrameID,
                 dataFrameSharedMemory, dataFrame>>

-----------------------------------------------------------------------------
(* The worker's critical sections.                                         *)

\* Take the next slot if there is one, and fall back on devNull otherwise:
\* the worker never waits for a slot.
TakeSlot ==
  dataFrame' = IF IsFull(dataFrameWritePointer, dataFrameReadPointer)
               THEN DevNull
               ELSE SlotOf(dataFrameWritePointer)

\* The slots that `spill` slots' worth of words too many run over.
Overrun(spill) == { s \in Slots : dataFrame < s /\ s <= dataFrame + spill }

\* Words written through the pointer, without the lock.
WriteSlot(contents, spill) ==
  dataFrameSharedMemory' =
    IF dataFrame = DevNull THEN dataFrameSharedMemory
    ELSE [s \in Slots |->
            IF s = dataFrame THEN contents
            ELSE IF s \in Overrun(spill) THEN [contents EXCEPT !.whole = FALSE]
            ELSE dataFrameSharedMemory[s]]

\* Advance the write pointer, by one from wherever it is now.
PublishSlot ==
  /\ dataFrameWritePointer' = IF dataFrame = DevNull THEN dataFrameWritePointer
                              ELSE Forward(dataFrameWritePointer, 1)
  /\ dataFrame' = DevNull

-----------------------------------------------------------------------------
(* Operations the daemon's main thread performs for a client.              *)

Wipe(mode) ==
  /\ dataFrameWritePointer' = 0
  /\ dataFrameReadPointer' = 0
  /\ acquisitionMode' = mode

StopAcquisition ==
  /\ Wipe(0)
  /\ UNCHANGED <<minimumFrameID, dataFrameSharedMemory, dataFrame>>

\* startAcquisition wipes the queue twice, 220 ms apart.
StartAcquisitionFirstWipe ==
  /\ Wipe(0)
  /\ UNCHANGED <<minimumFrameID, dataFrameSharedMemory, dataFrame>>

StartAcquisitionSecondWipe ==
  /\ Wipe(1)
  /\ minimumFrameID' = 0
  /\ UNCHANGED <<dataFrameSharedMemory, dataFrame>>

SetDataFrameReadPointer(pointer) ==
  /\ dataFrameReadPointer' = pointer % (2 * N)
  /\ UNCHANGED <<dataFrameWritePointer, acquisitionMode, minimumFrameID,
                 dataFrameSharedMemory, dataFrame>>

SetMinimumFrameID(frameID) ==
  /\ minimumFrameID' = frameID
  /\ UNCHANGED <<queueVars, acquisitionMode, dataFrameSharedMemory, dataFrame>>

-----------------------------------------------------------------------------
(* Views of the queue used by the properties.                              *)

Unread == UnreadSlots(dataFrameWritePointer, dataFrameReadPointer)

Queued == Occupancy(dataFrameWritePointer, dataFrameReadPointer)

\* The frames a reader may read, oldest first.
UnreadFrames ==
  [i \in 1 .. Queued |->
     dataFrameSharedMemory[SlotOf(dataFrameReadPointer + i - 1)]]
=============================================================================
