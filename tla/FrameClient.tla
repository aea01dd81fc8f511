---------------------------- MODULE FrameClient ----------------------------
(***************************************************************************)
(* One client of the daemon: a Connection of petsys_py_lib/daqd.py, with   *)
(* the process or function that reads frames from shared memory for it.    *)
(*                                                                         *)
(* The client is sequential and each of its requests is a remote call: it  *)
(* sends, the daemon's main thread executes, it receives.  An action here  *)
(* is one such call with the client's local steps up to the next one, and  *)
(* the composing module lets it happen only while the main thread is at    *)
(* its poll loop.  (doGetDataFrameWriteReadPointer takes the lock twice;   *)
(* the second time for the read pointer, which only the main thread sets.) *)
(*                                                                         *)
(* `now` is the frame the front end has reached, which the client derives  *)
(* from the time tag register before it synchronises.                      *)
(***************************************************************************)
EXTENDS FrameServer

CONSTANTS
  RequiredFrames,    \* how many frames an acquisition may ask for
  Methods            \* the methods of Connection this client uses

Operations == {"sync", "acquire", "bytes", "decode"}

ASSUME ClientAssumption ==
  /\ RequiredFrames \subseteq Nat \ {0}
  /\ Methods \subseteq {"start", "stop"} \cup Operations

VARIABLES
  client,        \* the call that is next
  op,            \* the method it belongs to
  target,        \* targetFrameID of the last synchronisation
  blockRd,       \* rdPointer, the next frame to read in the block
  blockWr,       \* wrPointer, the end of the block
  currentFrame, stopFrame,
  lastRead       \* the last frame read

clientVars == <<client, op, target, blockRd, blockWr, currentFrame, stopFrame,
                lastRead>>

ClientTypeOK ==
  /\ client \in {"idle", "start", "stop", "setMinimum", "flushGet", "flushSet",
                 "first", "get", "read", "set"}
  /\ op \in Operations \cup {"none"}
  /\ target \in Stamps
  /\ blockRd \in Pointers /\ blockWr \in Pointers
  /\ currentFrame \in Stamps /\ stopFrame \in Nat
  /\ lastRead \in SlotContents

ClientInit ==
  /\ client = "idle" /\ op = "none"
  /\ target = 0 /\ currentFrame = 0 /\ stopFrame = 0
  /\ blockRd = 0 /\ blockWr = 0
  /\ lastRead = [head |-> 0, whole |-> TRUE]

\* A method returns; its locals are gone.
Return ==
  /\ client' = "idle" /\ op' = "none"
  /\ target' = 0 /\ currentFrame' = 0 /\ stopFrame' = 0
  /\ blockRd' = 0 /\ blockWr' = 0
  /\ UNCHANGED lastRead

GoTo(call) ==
  /\ client' = call
  /\ UNCHANGED <<op, target, blockRd, blockWr, currentFrame, stopFrame, lastRead>>

-----------------------------------------------------------------------------
(* Calls of the methods.                                                   *)

\* setAcquisitionMode: the reply comes when the main thread is done.
CallMode(method) ==
  /\ client = "idle"
  /\ method \in Methods \cap {"start", "stop"}
  /\ GoTo(method)
  /\ UNCHANGED serverVars

\* acquire and acquireAsBytes synchronise first, and then read frames.
CallSync(method, now) ==
  /\ client = "idle"
  /\ method \in Methods \cap {"sync", "acquire", "bytes"}
  /\ client' = "setMinimum" /\ op' = method /\ target' = now
  /\ UNCHANGED <<serverVars, blockRd, blockWr, currentFrame, stopFrame, lastRead>>

CallDecode ==
  /\ client = "idle" /\ "decode" \in Methods
  /\ client' = "get" /\ op' = "decode"
  /\ UNCHANGED <<serverVars, target, blockRd, blockWr, currentFrame,
                 stopFrame, lastRead>>

-----------------------------------------------------------------------------
(* synchronizeDataToConfig.                                                *)

SyncSetMinimum ==
  /\ client = "setMinimum"
  /\ SetMinimumFrameID(target)
  /\ GoTo("flushGet")

SyncGetPointers ==
  /\ client = "flushGet"
  /\ client' = "flushSet"
  /\ blockWr' = dataFrameWritePointer
  /\ UNCHANGED <<serverVars, op, target, blockRd, currentFrame, stopFrame,
                 lastRead>>

SyncSetPointer ==
  /\ client = "flushSet"
  /\ SetDataFrameReadPointer(blockWr)
  /\ IF op = "sync" THEN Return ELSE GoTo("first")

-----------------------------------------------------------------------------
(* Reading frames.                                                         *)

HeadAt(pointer) == dataFrameSharedMemory[SlotOf(pointer)].head

\* Poll until there is a frame; its ID determines where to stop.
FirstFrame ==
  /\ client = "first"
  /\ dataFrameWritePointer # dataFrameReadPointer
  /\ client' = "get"
  /\ currentFrame' = HeadAt(dataFrameReadPointer)
  /\ \E n \in RequiredFrames : stopFrame' = HeadAt(dataFrameReadPointer) + n
  /\ UNCHANGED <<serverVars, op, target, blockRd, blockWr, lastRead>>

\* A slip: whatever is queued, the block is as long as is needed.
BlockSizesNeeded(occupancy, capped, needed) == {needed}

\* An acquisition takes at most as many frames as it still needs, and at most
\* half of the queue; getDecodedDataFrame stops at the first frame it likes.
BlockSizes(occupancy, capped, needed) ==
  IF op = "decode" THEN 0 .. occupancy
  ELSE { IF capped > needed THEN needed ELSE capped }

GetBlock ==
  LET w == dataFrameWritePointer
      r == dataFrameReadPointer
  IN  /\ client = "get"
      /\ op = "decode" \/ w # r
      /\ blockRd' = r
      /\ \E size \in BlockSizes(Occupancy(w, r), CappedBlock(w, r),
                                stopFrame - currentFrame) :
           blockWr' = Forward(r, size)
      /\ client' = "read"
      /\ UNCHANGED <<serverVars, op, target, currentFrame, stopFrame, lastRead>>

\* A slip: every reader compares the pointers like acquireAsBytes.
MoreToReadUpTo == blockRd < blockWr

\* A slip: one frame too many.
MoreToReadInclusive == blockRd # Forward(blockWr, 1)

\* acquireAsBytes compares the pointers themselves, the others step round the
\* ring until they meet.
MoreToRead == IF op = "bytes" THEN blockRd < blockWr ELSE blockRd # blockWr

ReadFrame ==
  /\ client = "read"
  /\ MoreToRead
  /\ lastRead' = dataFrameSharedMemory[SlotOf(blockRd)]
  /\ blockRd' = Forward(blockRd, 1)
  /\ UNCHANGED <<serverVars, client, op, target, blockWr, currentFrame, stopFrame>>

EndOfBlock ==
  /\ client = "read"
  /\ ~MoreToRead
  /\ GoTo("set")
  /\ UNCHANGED serverVars

\* The block is handed back.  The frame before its end is the current frame.
\* acquire sets the same pointer once more at the end of a step, when it tells
\* write_raw so; the queue does not change by that.
SetReadPointer ==
  LET current == HeadAt(blockWr + N - 1)
  IN  /\ client = "set"
      /\ SetDataFrameReadPointer(blockWr)
      /\ IF op = "decode" \/ current >= stopFrame
         THEN Return
         ELSE /\ client' = "get"
              /\ currentFrame' = current
              /\ UNCHANGED <<op, target, blockRd, blockWr, stopFrame, lastRead>>

Requests ==
  \/ SyncSetMinimum \/ SyncGetPointers \/ SyncSetPointer
  \/ FirstFrame \/ GetBlock \/ SetReadPointer

LocalSteps == ReadFrame \/ EndOfBlock
=============================================================================
