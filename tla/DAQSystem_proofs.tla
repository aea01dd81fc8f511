-------------------------- MODULE DAQSystem_proofs --------------------------
(***************************************************************************)
(* Proofs about the daemon, with a DAQ card or a socket, and its client,   *)
(* for every size of the queue, every length of the stream and every       *)
(* choice of methods.                                                      *)
(***************************************************************************)
EXTENDS DAQSystem, FiniteSetTheorems, TLAPS

-----------------------------------------------------------------------------
(* Pointer arithmetic.                                                     *)

\* A pointer designates a slot, moving it gives a pointer.
LEMMA PointerTypes ==
  ASSUME NEW p \in Pointers, NEW k \in Int
  PROVE  SlotOf(p) \in Slots /\ Forward(p, k) \in Pointers
BY QueueSizeAssumption, SMT DEF SlotOf, Forward, Slots, Pointers

\* The slots repeat twice round the ring.
LEMMA SlotsRepeat ==
  ASSUME NEW x \in 0 .. 4 * N
  PROVE  SlotOf(x + 2 * N) = SlotOf(x)
BY QueueSizeAssumption, SMTT(30) DEF SlotOf

\* ... and once round it.
LEMMA SlotsRepeatOnce ==
  ASSUME NEW x \in 0 .. 4 * N
  PROVE  SlotOf(x + N) = SlotOf(x)
BY QueueSizeAssumption, SMTT(30) DEF SlotOf

\* The distance of two pointers.
LEMMA OccupancyType ==
  ASSUME NEW w \in Pointers, NEW r \in Pointers
  PROVE  Occupancy(w, r) \in 0 .. (2 * N - 1)
BY QueueSizeAssumption, SMT DEF Occupancy, Pointers

\* doWork's test is for exactly N frames: a queue that holds more would not
\* be recognised as full.
LEMMA FullMeansN ==
  ASSUME NEW w \in Pointers, NEW r \in Pointers
  PROVE  IsFull(w, r) <=> Occupancy(w, r) = N
BY QueueSizeAssumption, SMT DEF IsFull, SlotOf, Occupancy, Pointers

\* Publishing one frame adds one, wherever the pointers are in the ring.
LEMMA PublishAddsOne ==
  ASSUME NEW w \in Pointers, NEW r \in Pointers, Occupancy(w, r) < N
  PROVE  Occupancy(Forward(w, 1), r) = Occupancy(w, r) + 1
BY QueueSizeAssumption, SMT DEF Forward, Occupancy, Pointers

\* The slot a worker takes holds no unread frame.
LEMMA NextSlotIsFree ==
  ASSUME NEW w \in Pointers, NEW r \in Pointers, Occupancy(w, r) < N
  PROVE  SlotOf(w) \notin UnreadSlots(w, r)
<1> SUFFICES ASSUME NEW i \in 0 .. (Occupancy(w, r) - 1)
             PROVE  SlotOf(r + i) # SlotOf(w)
    BY DEF UnreadSlots
<1> QED
    BY QueueSizeAssumption, SMT DEF SlotOf, Occupancy, Pointers

\* A block of k frames from the read pointer ends k frames further on, and
\* leaves the rest.
LEMMA BlockSplits ==
  ASSUME NEW w \in Pointers, NEW r \in Pointers,
         NEW k \in 0 .. Occupancy(w, r)
  PROVE  /\ Occupancy(Forward(r, k), r) = k
         /\ Occupancy(w, Forward(r, k)) = Occupancy(w, r) - k
BY QueueSizeAssumption, SMT DEF Forward, Occupancy, Pointers

\* Handing back a block that ends before the write pointer leaves the rest.
LEMMA HandBack ==
  ASSUME NEW w \in Pointers, NEW r \in Pointers, NEW b \in Pointers,
         Occupancy(b, r) <= Occupancy(w, r)
  PROVE  Occupancy(w, b) = Occupancy(w, r) - Occupancy(b, r)
BY QueueSizeAssumption, SMT DEF Occupancy, Pointers

\* The part of a block that is still to be read is part of what is queued.
LEMMA RestOfBlock ==
  ASSUME NEW w \in Pointers, NEW r \in Pointers,
         NEW b \in Pointers, NEW c \in Pointers,
         Occupancy(b, r) <= Occupancy(w, r),
         Occupancy(b, c) <= Occupancy(b, r)
  PROVE  UnreadSlots(b, c) \subseteq UnreadSlots(w, r)
<1> SUFFICES ASSUME NEW i \in 0 .. (Occupancy(b, c) - 1)
             PROVE  \E j \in 0 .. (Occupancy(w, r) - 1) : SlotOf(c + i) = SlotOf(r + j)
    BY DEF UnreadSlots
<1> DEFINE j == Occupancy(b, r) - Occupancy(b, c) + i
<1>1. j \in 0 .. (Occupancy(w, r) - 1)
    BY OccupancyType
<1>2. SlotOf(c + i) = SlotOf(r + j)
    BY QueueSizeAssumption, SMT DEF Occupancy, Pointers, SlotOf
<1> QED
    BY <1>1, <1>2

\* The client's abs() computation is the number of frames, provided that the
\* queue is not over-full.
THEOREM ClientCountsFrames ==
  ASSUME NEW w \in Pointers, NEW r \in Pointers, Occupancy(w, r) <= N
  PROVE  FramesInBlock(w, r) = Occupancy(w, r)
BY QueueSizeAssumption, SMT DEF FramesInBlock, Occupancy, Pointers

\* The client never asks for a negative number of frames, nor for more than
\* there are in a queue that is not over-full.
LEMMA BlockType ==
  ASSUME NEW w \in Pointers, NEW r \in Pointers
  PROVE  /\ CappedBlock(w, r) \in Int
         /\ CappedBlock(w, r) >= 0
         /\ Occupancy(w, r) <= N => CappedBlock(w, r) <= Occupancy(w, r)
<1>1. FramesInBlock(w, r) \in 0 .. (2 * N)
  BY QueueSizeAssumption, SMT DEF FramesInBlock, Pointers
<1>2. N \div 2 \in Nat
  BY QueueSizeAssumption, SMT
<1>3. Occupancy(w, r) <= N => FramesInBlock(w, r) = Occupancy(w, r)
  BY ClientCountsFrames
<1> QED
  BY <1>1, <1>2, <1>3, QueueSizeAssumption, OccupancyType DEF CappedBlock

-----------------------------------------------------------------------------
(* Types.                                                                  *)

\* The wiped pointers and the pointers the client sends are pointers.
LEMMA ZeroPointer ==
  /\ 0 \in Pointers
  /\ \A p \in Pointers : p % (2 * N) = p
BY QueueSizeAssumption, SMT DEF Pointers

\* What the worker writes through its pointer keeps the queue a queue.
LEMMA WriteSlotType ==
  ASSUME dataFrameSharedMemory \in [Slots -> SlotContents],
         NEW contents \in SlotContents, NEW k, WriteSlot(contents, k)
  PROVE  dataFrameSharedMemory' \in [Slots -> SlotContents]
<1>1. [contents EXCEPT !.whole = FALSE] \in SlotContents
  BY DEF SlotContents
<1> QED
  BY <1>1 DEF WriteSlot

-----------------------------------------------------------------------------
\* Each variable stays in its type, whatever the threads do.
LEMMA TypeStep == TypeOK /\ [Next]_vars => TypeOK'
<1> SUFFICES ASSUME TypeOK, [Next]_vars PROVE TypeOK'
    OBVIOUS
<1> USE DEF TypeOK, DAQTypeOK, ServerTypeOK, ClientTypeOK, serverVars, queueVars,
            cardVars, workerVars, clientVars
<1>1. CASE Call
  <2>1. CASE CallDecode
    BY <1>1, <2>1 DEF Call, CallDecode, Operations
  <2>2. ASSUME NEW method \in Methods, CallMode(method) PROVE TypeOK'
    BY <1>1, <2>2 DEF Call, CallMode, GoTo
  <2>3. ASSUME NEW method \in Methods, CallSync(method, generated) PROVE TypeOK'
    BY <1>1, <2>3 DEF Call, CallSync, Operations
  <2> QED
    BY <1>1, <2>1, <2>2, <2>3 DEF Call
<1>2. CASE ClientLocal
  <2>1. CASE ReadFrame
    BY <1>2, <2>1, PointerTypes DEF ClientLocal, ReadFrame
  <2>2. CASE EndOfBlock
    BY <1>2, <2>2 DEF ClientLocal, EndOfBlock, GoTo
  <2> QED
    BY <1>2, <2>1, <2>2 DEF ClientLocal, LocalSteps
<1>3. CASE Serve
  <2>1. CASE SyncSetMinimum
    BY <1>3, <2>1 DEF Serve, SyncSetMinimum, SetMinimumFrameID, GoTo
  <2>2. CASE SyncGetPointers
    BY <1>3, <2>2 DEF Serve, SyncGetPointers
  <2>3. CASE SyncSetPointer
    BY <1>3, <2>3, ZeroPointer, StampAssumption
    DEF Serve, SyncSetPointer, SetDataFrameReadPointer, GoTo, Return, Stamps
  <2>4. CASE FirstFrame
    <3>1. HeadAt(dataFrameReadPointer) \in Stamps
      BY PointerTypes DEF HeadAt, SlotContents
    <3>2. \A n \in RequiredFrames : HeadAt(dataFrameReadPointer) + n \in Nat
      BY <3>1, ClientAssumption, StampAssumption, SMT DEF Stamps
    <3>3. currentFrame' \in Stamps /\ stopFrame' \in Nat
      BY <2>4, <3>1, <3>2 DEF FirstFrame
    <3> QED
      BY <1>3, <2>4, <3>3 DEF Serve, FirstFrame
  <2>5. CASE GetBlock
    <3>1. \A size \in Int : Forward(dataFrameReadPointer, size) \in Pointers
      BY PointerTypes
    <3>2. BlockSizes(Queued, CappedBlock(dataFrameWritePointer, dataFrameReadPointer),
                     stopFrame - currentFrame) \subseteq Int
      <4>1. CappedBlock(dataFrameWritePointer, dataFrameReadPointer) \in Int
        BY BlockType
      <4>2. Queued \in Int /\ stopFrame - currentFrame \in Int
        BY QueueSizeAssumption, StampAssumption, OccupancyType DEF Queued, Stamps
      <4> QED
        BY <4>1, <4>2 DEF BlockSizes
    <3>3. blockWr' \in Pointers /\ blockRd' \in Pointers
      BY <2>5, <3>1, <3>2, Zenon DEF GetBlock, Queued
    <3> QED
      BY <1>3, <2>5, <3>3 DEF Serve, GetBlock
  <2>6. CASE SetReadPointer
    <3>1. HeadAt(blockWr + N - 1) \in Stamps
      <4>1. SlotOf(blockWr + N - 1) \in Slots
        BY QueueSizeAssumption, SMT DEF SlotOf, Slots, Pointers
      <4> QED
        BY <4>1 DEF HeadAt, SlotContents
    <3> QED
      BY <1>3, <2>6, <3>1, ZeroPointer, StampAssumption
      DEF Serve, SetReadPointer, SetDataFrameReadPointer, Return, Stamps
  <2> QED
    BY <1>3, <2>1, <2>2, <2>3, <2>4, <2>5, <2>6 DEF Serve, Requests
<1>4. CASE BeginStart
  <2>1. CASE RestartCard
    <3>1. next' \in Stamps /\ runStart' \in Stamps
      BY <2>1, StampAssumption, SMT DEF RestartCard, Stamps
    <3>2. torn' \in BOOLEAN
      BY <2>1 DEF RestartCard
    <3> QED
      BY <1>4, <2>1, <3>1, <3>2 DEF BeginStart, RestartCard
  <2>2. CASE FirstWipeOfReceiver
    BY <1>4, <2>2, ZeroPointer
    DEF BeginStart, FirstWipeOfReceiver, StartAcquisitionFirstWipe, Wipe
  <2> QED
    BY <1>4, <2>1, <2>2 DEF BeginStart
<1>5. CASE WipeOnce
  BY <1>5, ZeroPointer DEF WipeOnce, FirstWipe, StartAcquisitionFirstWipe, Wipe
<1>6. CASE WipeAgain
  BY <1>6, ZeroPointer, StampAssumption
  DEF WipeAgain, SecondWipe, StartAcquisitionSecondWipe, Wipe, Return, Stamps
<1>7. CASE BeginStop
  BY <1>7, ZenonT(60) DEF BeginStop, StopCard
<1>8. CASE EndStop
  BY <1>8, ZeroPointer, StampAssumption
  DEF EndStop, StopWipe, WipeOfReceiver, StopAcquisition, Wipe, Return, Stamps
<1>9. CASE Shutdown
  <2>1. CASE StopWorker
    BY <1>9, <2>1 DEF Shutdown, StopWorker
  <2>2. CASE JoinWorker
    BY <1>9, <2>2 DEF Shutdown, JoinWorker
  <2> QED
    BY <1>9, <2>1, <2>2 DEF Shutdown
<1>10. CASE WorkerStep
  <2>1. CASE ReadHeader
    <3>1. head' \in Stamps /\ next' \in Stamps /\ dropLostFrame' \in BOOLEAN
      BY <1>10, <2>1, StampAssumption, SMT DEF ReadHeader, Readable, Stamps
    <3>2. frameCount' \in 0 .. (LostKeepPeriod - 1)
      BY <1>10, <2>1, DAQAssumption, SMT DEF ReadHeader
    <3> QED
      BY <1>10, <2>1, <3>1, <3>2, ZenonT(60) DEF WorkerStep, ReadHeader
  <2>2. CASE ReadBadHeader
    <3>1. next' \in Stamps
      BY <1>10, <2>2, StampAssumption, SMT DEF ReadBadHeader, Readable, Stamps
    <3> QED
      BY <1>10, <2>2, <3>1 DEF WorkerStep, ReadBadHeader
  <2>3. CASE ReadMode
    BY <1>10, <2>3 DEF WorkerStep, ReadMode
  <2>4. CASE GetSlot
    BY <1>10, <2>4, PointerTypes DEF WorkerStep, GetSlot, TakeSlot
  <2>5. CASE WriteHeader
    <3>1. [head |-> head, whole |-> FALSE] \in SlotContents
      BY DEF SlotContents
    <3>2. dataFrameSharedMemory' \in [Slots -> SlotContents]
      BY <2>5, <3>1, WriteSlotType DEF WriteHeader
    <3> QED
      BY <1>10, <2>5, <3>2 DEF WorkerStep, WriteHeader
  <2>6. CASE WriteWords
    <3>1. [head |-> head, whole |-> ~torn /\ spill = 0] \in SlotContents
      BY DEF SlotContents
    <3>2. dataFrameSharedMemory' \in [Slots -> SlotContents]
      BY <2>6, <3>1, WriteSlotType DEF WriteWords
    <3> QED
      BY <1>10, <2>6, <3>2 DEF WorkerStep, WriteWords
  <2>7. CASE RejectFrame
    <3>1. [head |-> head, whole |-> FALSE] \in SlotContents
      BY DEF SlotContents
    <3>2. dataFrameSharedMemory' \in [Slots -> SlotContents]
      BY <2>7, <3>1, WriteSlotType DEF RejectFrame
    <3> QED
      BY <1>10, <2>7, <3>2 DEF WorkerStep, RejectFrame
  <2>8. CASE PublishFrame
    BY <1>10, <2>8, PointerTypes DEF WorkerStep, PublishFrame, PublishSlot
  <2>9. CASE WorkerExit
    BY <1>10, <2>9 DEF WorkerStep, WorkerExit
  <2>10. CASE ReceiveDatagram
    <3>1. head' \in Stamps /\ next' \in Stamps
      BY <2>10, StampAssumption, UDPAssumption, SMT DEF ReceiveDatagram, Stamps
    <3> QED
      BY <1>10, <2>10, <3>1 DEF WorkerStep, ReceiveDatagram
  <2>11. CASE TestMode
    BY <1>10, <2>11 DEF WorkerStep, TestMode
  <2>12. CASE CopyHeader
    <3>1. [head |-> head, whole |-> FALSE] \in SlotContents
      BY DEF SlotContents
    <3>2. dataFrameSharedMemory' \in [Slots -> SlotContents]
      BY <2>12, <3>1, WriteSlotType DEF CopyHeader
    <3> QED
      BY <1>10, <2>12, <3>2 DEF WorkerStep, CopyHeader
  <2>13. CASE CopyWords
    <3>1. [head |-> head, whole |-> spill = 0] \in SlotContents
      BY DEF SlotContents
    <3>2. dataFrameSharedMemory' \in [Slots -> SlotContents]
      BY <2>13, <3>1, WriteSlotType DEF CopyWords
    <3> QED
      BY <1>10, <2>13, <3>2 DEF WorkerStep, CopyWords
  <2>14. CASE RejectDatagram
    BY <1>10, <2>14 DEF WorkerStep, RejectDatagram
  <2>15. NextOfDatagram => /\ head' \in Stamps /\ spill' \in 0 .. MaxSpill
                           /\ worker' \in {"slot", "loop"}
    BY StampAssumption, SMT DEF NextOfDatagram, Stamps
  <2>16. CASE CompareMinimum
    BY <1>10, <2>15, <2>16 DEF WorkerStep, CompareMinimum
  <2>17. CASE PublishCopy
    BY <1>10, <2>15, <2>17, PointerTypes DEF WorkerStep, PublishCopy, PublishSlot
  <2>18. CASE ReceiverExit
    BY <1>10, <2>18 DEF WorkerStep, ReceiverExit
  <2> QED
    BY <1>10, <2>1, <2>2, <2>3, <2>4, <2>5, <2>6, <2>7, <2>8, <2>9, <2>10, <2>11,
       <2>12, <2>13, <2>14, <2>16, <2>17, <2>18
    DEF WorkerStep, Worker, Receiver
<1>11. CASE CardStep
  <2>1. generated' \in Stamps
    BY <1>11, StampAssumption, SMT DEF CardStep, GenerateFrame, Stamps
  <2> QED
    BY <1>11, <2>1 DEF CardStep, GenerateFrame
<1>12. CASE UNCHANGED vars
  BY <1>12 DEF vars
<1> QED
  BY <1>1, <1>2, <1>3, <1>4, <1>5, <1>6, <1>7, <1>8, <1>9, <1>10, <1>11, <1>12
  DEF Next, MainStep

\* The types hold initially.
LEMMA TypeInit == Init => TypeOK
<1> SUFFICES ASSUME Init PROVE TypeOK
    OBVIOUS
<1>1. /\ 0 \in Pointers /\ 0 \in Stamps /\ 0 \in 0 .. (LostKeepPeriod - 1)
      /\ 0 \in 0 .. MaxSpill
  BY QueueSizeAssumption, StampAssumption, DAQAssumption, SMT DEF Pointers, Stamps
<1>2. ServerTypeOK
  BY <1>1 DEF Init, DAQInit, ServerInit, ServerTypeOK, SlotContents
<1>3. DAQTypeOK
  BY <1>1, <1>2 DEF Init, DAQInit, DAQTypeOK
<1>4. ClientTypeOK
  BY <1>1 DEF Init, ClientInit, ClientTypeOK, SlotContents
<1> QED
  BY <1>3, <1>4 DEF TypeOK

\* Every variable of the daemon and of its client keeps its type.
THEOREM TypeCorrect == Spec => []TypeOK
BY TypeInit, TypeStep, PTL DEF Spec

-----------------------------------------------------------------------------
(* The ring.  Below, each action disturbs only the parts named in its step; *)
(* the worker's publication and the client's hand-back are the two that     *)
(* move a pointer while a slot is held or a block is being read.            *)

\* The parts of RingInv besides the types.
RingParts ==
  /\ NeverOverfull /\ HeldSlotIsNext /\ SlotsAreReturned /\ BlockEndIsQueued
  /\ RequestIsServed /\ NeedsFrames /\ CursorInBlock

\* The invariant depends on these variables only.
LEMMA RingFrame ==
  ASSUME RingInv,
         UNCHANGED <<queueVars, dataFrame, worker, main, client, op, blockRd,
                     blockWr, currentFrame, stopFrame>>
  PROVE  RingParts'
BY DEF RingInv, RingParts, NeverOverfull, HeldSlotIsNext, SlotsAreReturned,
       BlockEndIsQueued, RequestIsServed, NeedsFrames, CursorInBlock, Holding,
       Settling, Queued, queueVars

\* Moving on to a state of the worker in which it holds no more than before.
LEMMA WorkerFrame ==
  ASSUME RingInv,
         UNCHANGED <<queueVars, main, client, op, blockRd, blockWr,
                     currentFrame, stopFrame>>,
         \/ dataFrame' = DevNull
         \/ dataFrame' = dataFrame /\ (Holding \/ dataFrame = DevNull) /\
            worker' \in {"header", "words", "compare", "publish"}
  PROVE  RingParts'
BY DEF RingInv, RingParts, NeverOverfull, HeldSlotIsNext, SlotsAreReturned,
       BlockEndIsQueued, RequestIsServed, NeedsFrames, CursorInBlock, Holding,
       Settling, Queued, queueVars

\* A wipe leaves no frames, and happens while the client waits for it.
LEMMA WipeFrame ==
  ASSUME RingInv, dataFrameWritePointer' = 0, dataFrameReadPointer' = 0,
         UNCHANGED <<dataFrame, worker>>,
         client' \in {"start", "stop", "idle"},
         main' = "poll" \/ (main' = "sleeping" /\ client' = "start")
  PROVE  RingParts'
<1>1. Queued' = 0
  BY QueueSizeAssumption, SMT DEF Queued, Occupancy
<1> QED
  BY <1>1, QueueSizeAssumption
  DEF RingInv, RingParts, NeverOverfull, HeldSlotIsNext, SlotsAreReturned,
      BlockEndIsQueued, RequestIsServed, NeedsFrames, CursorInBlock, Holding,
      Settling

-----------------------------------------------------------------------------
\* No step of any thread breaks the ring.
LEMMA RingStep == RingInv /\ [Next]_vars => RingInv'
<1> SUFFICES ASSUME RingInv, [Next]_vars PROVE RingParts'
    BY TypeStep DEF RingInv, RingParts
<1>t. TypeOK
  BY DEF RingInv
<1>p. /\ dataFrameWritePointer \in Pointers /\ dataFrameReadPointer \in Pointers
      /\ blockRd \in Pointers /\ blockWr \in Pointers
  BY <1>t DEF TypeOK, DAQTypeOK, ServerTypeOK, ClientTypeOK
<1>q. Queued \in 0 .. N
  BY <1>p, OccupancyType, QueueSizeAssumption DEF RingInv, NeverOverfull, Queued
<1> USE DEF serverVars, queueVars, cardVars, workerVars, clientVars
<1>1. CASE Call
  <2>1. CASE CallDecode
    BY <1>1, <2>1 DEF Call, CallDecode, RingInv, RingParts, NeverOverfull,
      HeldSlotIsNext, SlotsAreReturned, BlockEndIsQueued, RequestIsServed,
      NeedsFrames, CursorInBlock, Holding, Settling, Queued
  <2>2. ASSUME NEW method \in Methods, CallMode(method) PROVE RingParts'
    BY <1>1, <2>2 DEF Call, CallMode, GoTo, RingInv, RingParts, NeverOverfull,
      HeldSlotIsNext, SlotsAreReturned, BlockEndIsQueued, RequestIsServed,
      NeedsFrames, CursorInBlock, Holding, Settling, Queued
  <2>3. ASSUME NEW method \in Methods, CallSync(method, generated) PROVE RingParts'
    BY <1>1, <2>3 DEF Call, CallSync, RingInv, RingParts, NeverOverfull,
      HeldSlotIsNext, SlotsAreReturned, BlockEndIsQueued, RequestIsServed,
      NeedsFrames, CursorInBlock, Holding, Settling, Queued
  <2> QED
    BY <1>1, <2>1, <2>2, <2>3 DEF Call
<1>2. CASE ClientLocal
  <2>1. CASE ReadFrame
    <3>1. op # "bytes" => Occupancy(blockWr, blockRd') <= Occupancy(blockWr, blockRd)
      BY <1>p, <2>1, QueueSizeAssumption, SMT
      DEF ReadFrame, MoreToRead, Forward, Occupancy, Pointers
    <3>2. op # "bytes" => Occupancy(blockWr, blockRd') <=
                            Occupancy(blockWr, dataFrameReadPointer)
      <4>1. blockRd' \in Pointers
        BY <1>p, <2>1, PointerTypes DEF ReadFrame
      <4>2. /\ Occupancy(blockWr, blockRd) \in Int
            /\ Occupancy(blockWr, blockRd') \in Int
            /\ Occupancy(blockWr, dataFrameReadPointer) \in Int
        BY <4>1, <1>p, OccupancyType
      <4>3. op # "bytes" => Occupancy(blockWr, blockRd) <=
                              Occupancy(blockWr, dataFrameReadPointer)
        BY <2>1 DEF RingInv, CursorInBlock, ReadFrame
      <4> QED
        BY <3>1, <4>2, <4>3, SMT
    <3> QED
      BY <1>2, <2>1, <3>2 DEF ClientLocal, ReadFrame, RingInv, RingParts,
        NeverOverfull, HeldSlotIsNext, SlotsAreReturned, BlockEndIsQueued,
        RequestIsServed, NeedsFrames, CursorInBlock, Holding, Settling, Queued
  <2>2. CASE EndOfBlock
    BY <1>2, <2>2 DEF ClientLocal, EndOfBlock, GoTo, RingInv, RingParts,
      NeverOverfull, HeldSlotIsNext, SlotsAreReturned, BlockEndIsQueued,
      RequestIsServed, NeedsFrames, CursorInBlock, Holding, Settling, Queued
  <2> QED
    BY <1>2, <2>1, <2>2 DEF ClientLocal, LocalSteps
<1>3. CASE Serve
  <2>1. CASE SyncSetMinimum
    BY <1>3, <2>1 DEF Serve, SyncSetMinimum, SetMinimumFrameID, GoTo, RingInv,
      RingParts, NeverOverfull, HeldSlotIsNext, SlotsAreReturned,
      BlockEndIsQueued, RequestIsServed, NeedsFrames, CursorInBlock, Holding,
      Settling, Queued
  <2>2. CASE SyncGetPointers
    BY <1>3, <2>2, <1>q DEF Serve, SyncGetPointers, RingInv,
      RingParts, NeverOverfull, HeldSlotIsNext, SlotsAreReturned,
      BlockEndIsQueued, RequestIsServed, NeedsFrames, CursorInBlock, Holding,
      Settling, Queued
  <2>3. ASSUME client \in {"flushSet", "set"}, SetDataFrameReadPointer(blockWr),
               UNCHANGED <<worker, main>>, main = "poll", client' \notin {"flushSet", "read", "set"},
               client' = "get" => currentFrame' <= stopFrame'
        PROVE  RingParts'
    <3>1. dataFrameReadPointer' = blockWr
      BY <2>3, <1>p, ZeroPointer DEF SetDataFrameReadPointer
    <3>2. Queued' = Queued - Occupancy(blockWr, dataFrameReadPointer)
      BY <2>3, <3>1, <1>p, HandBack
      DEF SetDataFrameReadPointer, Queued, RingInv, BlockEndIsQueued
    <3>3. Queued' \in 0 .. Queued
      BY <2>3, <3>2, <1>p, <1>q, OccupancyType
      DEF RingInv, BlockEndIsQueued, Queued
    <3> QED
      BY <2>3, <3>3, <1>q, QueueSizeAssumption
      DEF SetDataFrameReadPointer, RingInv, RingParts, NeverOverfull,
        HeldSlotIsNext, SlotsAreReturned, BlockEndIsQueued, RequestIsServed,
        NeedsFrames, CursorInBlock, Holding, Settling
  <2>4. CASE SyncSetPointer
    BY <1>3, <2>3, <2>4 DEF Serve, SyncSetPointer, GoTo, Return
  <2>5. CASE FirstFrame
    <3>1. HeadAt(dataFrameReadPointer) \in Stamps
      BY <1>t, PointerTypes
      DEF HeadAt, SlotContents, TypeOK, DAQTypeOK, ServerTypeOK
    <3>2. currentFrame' <= stopFrame'
      BY <2>5, <3>1, ClientAssumption, StampAssumption, SMT DEF FirstFrame, Stamps
    <3> QED
      BY <1>3, <2>5, <3>2 DEF Serve, FirstFrame, RingInv, RingParts,
        NeverOverfull, HeldSlotIsNext, SlotsAreReturned, BlockEndIsQueued,
        RequestIsServed, NeedsFrames, CursorInBlock, Holding, Settling, Queued
  <2>6. CASE GetBlock
    <3>1. PICK size \in BlockSizes(Queued,
                        CappedBlock(dataFrameWritePointer, dataFrameReadPointer),
                        stopFrame - currentFrame) :
                 blockWr' = Forward(dataFrameReadPointer, size)
      BY <2>6 DEF GetBlock, Queued
    <3>2. size \in 0 .. Queued
      BY <1>t, <1>p, <1>q, <2>6, <3>1, BlockType, StampAssumption, SMT
      DEF BlockSizes, GetBlock, RingInv, NeedsFrames, TypeOK, ClientTypeOK, Stamps, Queued
    <3>3. Occupancy(blockWr', dataFrameReadPointer) = size
      BY <1>p, <3>1, <3>2, BlockSplits DEF Queued
    <3> QED
      BY <1>3, <2>6, <3>2, <3>3, <1>q DEF Serve, GetBlock, RingInv, RingParts,
        NeverOverfull, HeldSlotIsNext, SlotsAreReturned, BlockEndIsQueued,
        RequestIsServed, NeedsFrames, CursorInBlock, Holding, Settling, Queued
  <2>7. CASE SetReadPointer
    <3>1. HeadAt(blockWr + N - 1) \in Stamps
      <4>1. SlotOf(blockWr + N - 1) \in Slots
        BY <1>p, QueueSizeAssumption, SMT DEF SlotOf, Slots, Pointers
      <4> QED
        BY <1>t, <4>1 DEF HeadAt, SlotContents, TypeOK, DAQTypeOK, ServerTypeOK
    <3>2. client' = "get" => currentFrame' <= stopFrame'
      BY <1>t, <2>7, <3>1, StampAssumption, SMT
      DEF SetReadPointer, Return, Stamps, TypeOK, ClientTypeOK
    <3> QED
      BY <1>3, <2>3, <2>7, <3>2 DEF Serve, SetReadPointer, Return
  <2> QED
    BY <1>3, <2>1, <2>2, <2>4, <2>5, <2>6, <2>7 DEF Serve, Requests
<1>4. CASE BeginStart
  <2>1. CASE RestartCard
    BY <1>4, <2>1 DEF BeginStart, RestartCard, RingInv, RingParts,
      NeverOverfull, HeldSlotIsNext, SlotsAreReturned, BlockEndIsQueued,
      RequestIsServed, NeedsFrames, CursorInBlock, Holding, Settling, Queued
  <2>2. CASE FirstWipeOfReceiver
    BY <1>4, <2>2, WipeFrame
    DEF BeginStart, FirstWipeOfReceiver, StartAcquisitionFirstWipe, Wipe
  <2> QED
    BY <1>4, <2>1, <2>2 DEF BeginStart
<1>5. CASE WipeOnce
  BY <1>5, WipeFrame DEF WipeOnce, FirstWipe, StartAcquisitionFirstWipe, Wipe,
    RingInv, RequestIsServed, Settling
<1>6. CASE WipeAgain
  BY <1>6, WipeFrame
  DEF WipeAgain, SecondWipe, StartAcquisitionSecondWipe, Wipe, Return
<1>7. CASE BeginStop
  BY <1>7 DEF BeginStop, StopCard, RingInv, RingParts,
    NeverOverfull, HeldSlotIsNext, SlotsAreReturned, BlockEndIsQueued,
    RequestIsServed, NeedsFrames, CursorInBlock, Holding, Settling, Queued
<1>8. CASE EndStop
  BY <1>8, WipeFrame DEF EndStop, StopWipe, WipeOfReceiver, StopAcquisition, Wipe, Return
<1>9. CASE Shutdown
  BY <1>9 DEF Shutdown, StopWorker, JoinWorker, RingInv, RingParts,
    NeverOverfull, HeldSlotIsNext, SlotsAreReturned, BlockEndIsQueued,
    RequestIsServed, NeedsFrames, CursorInBlock, Holding, Settling, Queued
<1>10. CASE WorkerStep
  <2>1. CASE ReadHeader \/ ReadBadHeader \/ ReadMode \/ ReceiveDatagram \/ TestMode
    BY <1>10, <2>1, WorkerFrame DEF WorkerStep, ReadHeader, ReadBadHeader, ReadMode,
      ReceiveDatagram, TestMode, RingInv, SlotsAreReturned, Holding
  <2>2. CASE GetSlot
    <3>1. dataFrame' = DevNull \/
            (Queued < N /\ dataFrame' = SlotOf(dataFrameWritePointer))
      BY <2>2, <1>p, <1>q, FullMeansN, QueueSizeAssumption
      DEF GetSlot, TakeSlot, Queued
    <3> QED
      BY <1>10, <2>2, <3>1 DEF WorkerStep, GetSlot, RingInv, RingParts,
        NeverOverfull, HeldSlotIsNext, SlotsAreReturned, BlockEndIsQueued,
        RequestIsServed, NeedsFrames, CursorInBlock, Holding, Settling, Queued
  <2>3. CASE WriteHeader \/ WriteWords \/ RejectFrame \/ WorkerExit
    BY <1>10, <2>3, WorkerFrame DEF WorkerStep, WriteHeader, WriteWords,
      RejectFrame, WorkerExit, RingInv, SlotsAreReturned
  <2>5. CASE CopyHeader \/ CopyWords \/ RejectDatagram \/ CompareMinimum
    BY <1>10, <2>5, WorkerFrame DEF WorkerStep, CopyHeader, CopyWords,
      RejectDatagram, CompareMinimum, RingInv, SlotsAreReturned, Holding
  <2>6. CASE ReceiverExit
    BY <1>10, <2>6, WorkerFrame DEF WorkerStep, ReceiverExit, RingInv,
      SlotsAreReturned, Holding
  <2>4. CASE PublishFrame \/ PublishCopy
    <3>p. /\ worker = "publish" /\ PublishSlot
          /\ UNCHANGED <<client, op, blockRd, blockWr, currentFrame, stopFrame,
                         main, dataFrameReadPointer>>
      BY <1>10, <2>4 DEF WorkerStep, PublishFrame, PublishCopy
    <3>1. CASE dataFrame = DevNull
      BY <3>p, <3>1, WorkerFrame DEF PublishSlot
    <3>2. CASE dataFrame # DevNull
      <4>1. Queued < N
        BY <3>p, <3>2, <1>q, QueueSizeAssumption
        DEF RingInv, HeldSlotIsNext, Holding
      <4>2. Queued' = Queued + 1
        BY <1>p, <3>p, <3>2, <4>1, PublishAddsOne DEF PublishSlot, Queued
      <4>3. NeverOverfull'
        BY <4>1, <4>2, <1>q, QueueSizeAssumption, SMT DEF NeverOverfull
      <4>4. BlockEndIsQueued'
        <5>2. Occupancy(blockWr, dataFrameReadPointer) \in Nat
          BY <1>p, OccupancyType
        <5> QED
          BY <4>2, <3>p, <5>2, <1>q, QueueSizeAssumption, SMT
          DEF RingInv, BlockEndIsQueued
      <4>6. RequestIsServed' /\ NeedsFrames' /\ CursorInBlock'
        BY <3>p DEF RingInv, RequestIsServed, NeedsFrames, CursorInBlock, Settling
      <4>7. HeldSlotIsNext' /\ SlotsAreReturned'
        BY <3>p DEF PublishSlot, HeldSlotIsNext, SlotsAreReturned, Holding
      <4> QED
        BY <4>3, <4>4, <4>6, <4>7 DEF RingParts
    <3> QED
      BY <3>1, <3>2
  <2> QED
    BY <1>10, <2>1, <2>2, <2>3, <2>4, <2>5, <2>6 DEF WorkerStep, Worker, Receiver
<1>11. CASE CardStep
  BY <1>11, RingFrame DEF CardStep, GenerateFrame
<1>12. CASE UNCHANGED vars
  BY <1>12, RingFrame DEF vars
<1> QED
  BY <1>1, <1>2, <1>3, <1>4, <1>5, <1>6, <1>7, <1>8, <1>9, <1>10, <1>11, <1>12
  DEF Next, MainStep

\* The ring is in order initially.
LEMMA RingInit == Init => RingInv
<1> SUFFICES ASSUME Init PROVE RingInv
    OBVIOUS
<1>1. Queued = 0
  BY QueueSizeAssumption, SMT DEF Init, DAQInit, ServerInit, Queued, Occupancy
<1> QED
  BY <1>1, TypeInit, QueueSizeAssumption
  DEF Init, DAQInit, ServerInit, ClientInit, RingInv, NeverOverfull,
    HeldSlotIsNext, SlotsAreReturned, BlockEndIsQueued, RequestIsServed,
    NeedsFrames, CursorInBlock, Holding, Settling

\* The inductive invariant holds in every reachable state.
THEOREM RingCorrect == Spec => []RingInv
BY RingInit, RingStep, PTL DEF Spec

\* The queue is never over-full, so that isFull cannot miss a full queue.
THEOREM QueueIsBounded == Spec => []NeverOverfull
<1>1. RingInv => NeverOverfull
  BY DEF RingInv
<1> QED
  BY <1>1, RingCorrect, PTL

\* The worker never writes over a frame that the client has not handed back, as
\* long as no header on the link claims more words than a slot has.
THEOREM NothingIsOverwritten ==
  ASSUME MaxSpill = 0
  PROVE  Spec => []NoOverwrite
<1>1. RingInv => NoOverwrite
  <2> SUFFICES ASSUME RingInv, Holding
               PROVE  ({dataFrame} \cup Overrun(spill)) \cap Unread = {}
      BY DEF NoOverwrite
  <2>p. dataFrameWritePointer \in Pointers /\ dataFrameReadPointer \in Pointers
    BY DEF RingInv, TypeOK, DAQTypeOK, ServerTypeOK
  <2>1. Overrun(spill) = {}
    <3>1. spill = 0 /\ dataFrame \in Int
      BY MaxSpill = 0, QueueSizeAssumption
      DEF RingInv, TypeOK, DAQTypeOK, ServerTypeOK, Slots, DevNull
    <3> QED
      BY <3>1, QueueSizeAssumption DEF Overrun, Slots
  <2>2. CASE Queued = 0
    BY <2>1, <2>2 DEF Unread, UnreadSlots, Queued
  <2>3. CASE Queued < N /\ dataFrame = SlotOf(dataFrameWritePointer)
    BY <2>p, <2>1, <2>3, NextSlotIsFree DEF Unread, Queued
  <2> QED
    BY <2>2, <2>3 DEF RingInv, HeldSlotIsNext
<1> QED
  BY <1>1, RingCorrect, PTL

\* What the client has still to read of its block stays queued.
THEOREM BlocksStayQueued == Spec => []BlockStaysQueued
<1>1. RingInv => BlockStaysQueued
  BY RestOfBlock
  DEF RingInv, BlockStaysQueued, BlockEndIsQueued, CursorInBlock, Unread, Queued,
    TypeOK, DAQTypeOK, ServerTypeOK, ClientTypeOK
<1> QED
  BY <1>1, RingCorrect, PTL

-----------------------------------------------------------------------------
(* The frames of the queue.  Writing over unread slots is out of the way    *)
(* where no header claims more words than a slot has.                      *)

\* A held slot is no unread slot, and the worker's words stay in it.
LEMMA HeldSlotIsUnreadByNobody ==
  ASSUME MaxSpill = 0, RingInv
  PROVE  /\ spill = 0 /\ Overrun(spill) = {} /\ Overrun(0) = {}
         /\ Holding => dataFrame \notin Unread
<1>p. dataFrameWritePointer \in Pointers /\ dataFrameReadPointer \in Pointers
  BY DEF RingInv, TypeOK, DAQTypeOK, ServerTypeOK
<1>1. spill = 0 /\ dataFrame \in Int
  BY MaxSpill = 0, QueueSizeAssumption
  DEF RingInv, TypeOK, DAQTypeOK, ServerTypeOK, Slots, DevNull
<1>2. Overrun(spill) = {} /\ Overrun(0) = {}
  BY <1>1, QueueSizeAssumption DEF Overrun, Slots
<1>3. ASSUME Holding PROVE dataFrame \notin Unread
  <2>2. CASE Queued = 0
    BY <2>2 DEF Unread, UnreadSlots, Queued
  <2>3. CASE Queued < N /\ dataFrame = SlotOf(dataFrameWritePointer)
    BY <1>p, <2>3, NextSlotIsFree DEF Unread, Queued
  <2> QED
    BY <1>3, <2>2, <2>3 DEF RingInv, HeldSlotIsNext
<1> QED
  BY <1>1, <1>2, <1>3

\* The frames of the queue are sequences of what slots may hold.
LEMMA FramesType ==
  ASSUME TypeOK
  PROVE  /\ Queued \in Nat
         /\ \A i \in 1 .. Queued : /\ SlotOf(dataFrameReadPointer + i - 1) \in Unread
                                   /\ SlotOf(dataFrameReadPointer + i - 1) \in Slots
         /\ UnreadFrames \in Seq(SlotContents) /\ Len(UnreadFrames) = Queued
         /\ Queued = 0 => UnreadFrames = <<>>
<1>p. /\ dataFrameWritePointer \in Pointers /\ dataFrameReadPointer \in Pointers
      /\ dataFrameSharedMemory \in [Slots -> SlotContents]
  BY DEF TypeOK, DAQTypeOK, ServerTypeOK
<1>1. Queued \in Nat
  BY <1>p, OccupancyType, QueueSizeAssumption DEF Queued
<1>2. \A i \in 1 .. Queued : SlotOf(dataFrameReadPointer + i - 1) \in Unread
  <2> SUFFICES ASSUME NEW i \in 1 .. Queued
               PROVE  SlotOf(dataFrameReadPointer + i - 1) \in Unread
    OBVIOUS
  <2>1. /\ i - 1 \in 0 .. Queued - 1
        /\ dataFrameReadPointer + (i - 1) = dataFrameReadPointer + i - 1
    BY <1>1, <1>p, QueueSizeAssumption DEF Pointers
  <2> QED
    BY <2>1 DEF Unread, UnreadSlots, Queued
<1>3. \A i \in 1 .. Queued : SlotOf(dataFrameReadPointer + i - 1) \in Slots
  BY <1>1, <1>p, QueueSizeAssumption, SMT DEF SlotOf, Slots, Pointers
<1>4. UnreadFrames \in [1 .. Queued -> SlotContents]
  BY <1>p, <1>3 DEF UnreadFrames
<1>5. UnreadFrames \in Seq(SlotContents) /\ Len(UnreadFrames) = Queued
  BY <1>1, <1>4
<1> QED
  BY <1>1, <1>2, <1>3, <1>5

\* While the pointers stay and the unread slots keep what they hold, so does the queue.
LEMMA FramesKept ==
  ASSUME TypeOK, UNCHANGED queueVars,
         \A s \in Unread : dataFrameSharedMemory'[s] = dataFrameSharedMemory[s]
  PROVE  UnreadFrames' = UnreadFrames
<1>1. dataFrameWritePointer' = dataFrameWritePointer /\ dataFrameReadPointer' = dataFrameReadPointer
  BY DEF queueVars
<1>2. Queued' = Queued
  BY <1>1 DEF Queued
<1>3. \A i \in 1 .. Queued : SlotOf(dataFrameReadPointer + i - 1) \in Unread
  BY FramesType
<1>4. UnreadFrames' = [i \in 1 .. Queued |-> dataFrameSharedMemory'[SlotOf(dataFrameReadPointer + i - 1)]]
  BY <1>1, <1>2 DEF UnreadFrames
<1> QED
  BY <1>3, <1>4 DEF UnreadFrames

\* The words the worker writes change no frame of the queue.
LEMMA FramesSurvive ==
  ASSUME MaxSpill = 0, RingInv, NEW c, NEW k, k \in {0, spill}, WriteSlot(c, k),
         UNCHANGED queueVars, Holding \/ dataFrame = DevNull
  PROVE  /\ UnreadFrames' = UnreadFrames
         /\ \A s \in Unread : dataFrameSharedMemory'[s] = dataFrameSharedMemory[s]
         /\ dataFrame # DevNull => dataFrameSharedMemory'[dataFrame] = c
<1>1. Overrun(k) = {}
  BY HeldSlotIsUnreadByNobody
<1>t. /\ dataFrameSharedMemory \in [Slots -> SlotContents] /\ TypeOK
      /\ dataFrame \in Slots \cup {DevNull}
      /\ \A s \in Unread : s \in Slots
  <2>1. TypeOK
    BY DEF RingInv
  <2>2. \A s \in Unread : s \in Slots
    <3>1. /\ dataFrameWritePointer \in Pointers /\ dataFrameReadPointer \in Pointers
          /\ Queued \in Nat
      BY <2>1, FramesType DEF TypeOK, DAQTypeOK, ServerTypeOK
    <3>2. \A i \in 0 .. Queued - 1 : SlotOf(dataFrameReadPointer + i) \in Slots
      BY <3>1, QueueSizeAssumption, SMT DEF SlotOf, Slots, Pointers
    <3> QED
      BY <3>2 DEF Unread, UnreadSlots, Queued
  <2> QED
    BY <2>1, <2>2 DEF TypeOK, DAQTypeOK, ServerTypeOK
<1>2. \A s \in Unread : dataFrameSharedMemory'[s] = dataFrameSharedMemory[s]
  <2>1. CASE dataFrame = DevNull
    BY <2>1 DEF WriteSlot
  <2>2. CASE dataFrame # DevNull
    <3>1. dataFrame \notin Unread
      BY <2>2, HeldSlotIsUnreadByNobody
    <3>2. \A s \in Slots : s # dataFrame => dataFrameSharedMemory'[s] = dataFrameSharedMemory[s]
      BY <1>1, <2>2 DEF WriteSlot
    <3> QED
      BY <1>t, <3>1, <3>2
  <2> QED
    BY <2>1, <2>2
<1>3. dataFrame # DevNull => dataFrameSharedMemory'[dataFrame] = c
  BY <1>t DEF WriteSlot
<1> QED
  BY <1>t, <1>2, <1>3, FramesKept

\* A frame is published: it becomes the last of the queue.
LEMMA FramePublished ==
  ASSUME TypeOK, Queued < N, dataFrameReadPointer' = dataFrameReadPointer,
         dataFrameWritePointer' = Forward(dataFrameWritePointer, 1),
         dataFrameSharedMemory' = dataFrameSharedMemory
  PROVE  /\ Queued' = Queued + 1
         /\ UnreadFrames' = Append(UnreadFrames, dataFrameSharedMemory[SlotOf(dataFrameWritePointer)])
<1>p. dataFrameWritePointer \in Pointers /\ dataFrameReadPointer \in Pointers
  BY DEF TypeOK, DAQTypeOK, ServerTypeOK
<1>1. Queued' = Queued + 1 /\ Queued \in Nat
  BY <1>p, PublishAddsOne, FramesType DEF Queued
<1>2. SlotOf(dataFrameReadPointer + (Queued + 1) - 1) = SlotOf(dataFrameWritePointer)
  BY <1>p, QueueSizeAssumption, SMT DEF SlotOf, Queued, Occupancy, Pointers
<1>3. UnreadFrames' = [i \in 1 .. Queued + 1 |-> dataFrameSharedMemory[SlotOf(dataFrameReadPointer + i - 1)]]
  BY <1>1 DEF UnreadFrames
<1>4. /\ UnreadFrames \in Seq(SlotContents) /\ Len(UnreadFrames) = Queued
      /\ UnreadFrames = [i \in 1 .. Queued |-> dataFrameSharedMemory[SlotOf(dataFrameReadPointer + i - 1)]]
  BY FramesType DEF UnreadFrames
<1>5. PICK f : f = dataFrameSharedMemory[SlotOf(dataFrameWritePointer)]
  OBVIOUS
<1>6. /\ Append(UnreadFrames, f) = [i \in 1 .. Queued + 1 |->
           IF i = Queued + 1 THEN f ELSE UnreadFrames[i]]
  BY <1>1, <1>4
<1>7. \A i \in 1 .. Queued + 1 :
        dataFrameSharedMemory[SlotOf(dataFrameReadPointer + i - 1)] =
          IF i = Queued + 1 THEN f ELSE UnreadFrames[i]
  BY <1>1, <1>2, <1>4, <1>5
<1> QED
  BY <1>1, <1>3, <1>5, <1>6, <1>7

\* A block is handed back: its frames leave the queue.
LEMMA FramesHandedBack ==
  ASSUME TypeOK, NEW b \in Pointers, Occupancy(b, dataFrameReadPointer) <= Queued,
         dataFrameReadPointer' = b, dataFrameWritePointer' = dataFrameWritePointer,
         dataFrameSharedMemory' = dataFrameSharedMemory,
         NEW k, k = Occupancy(b, dataFrameReadPointer)
  PROVE  /\ k \in 0 .. Queued /\ Queued' = Queued - k
         /\ UnreadFrames' = SubSeq(UnreadFrames, k + 1, Len(UnreadFrames))
<1>p. dataFrameWritePointer \in Pointers /\ dataFrameReadPointer \in Pointers
  BY DEF TypeOK, DAQTypeOK, ServerTypeOK
<1>1. Queued \in Nat /\ k \in 0 .. Queued
  BY <1>p, OccupancyType, FramesType, QueueSizeAssumption
<1>2. Queued' = Queued - k
  BY <1>p, HandBack DEF Queued
<1>3. \A i \in 1 .. Queued - k : SlotOf(b + i - 1) = SlotOf(dataFrameReadPointer + (i + k) - 1)
  <2> SUFFICES ASSUME NEW i \in 1 .. Queued - k
               PROVE  SlotOf(b + i - 1) = SlotOf(dataFrameReadPointer + (i + k) - 1)
    OBVIOUS
  <2>1. i \in Int /\ 1 <= i /\ i <= Queued /\ Queued <= 2 * N - 1
    BY <1>1, <1>p, OccupancyType, QueueSizeAssumption DEF Queued
  <2>2. k = b - dataFrameReadPointer \/ k = b - dataFrameReadPointer + 2 * N
    BY <1>p, QueueSizeAssumption, SMT DEF Occupancy, Pointers
  <2>3. \A x \in 0 .. 4 * N : SlotOf(x + 2 * N) = SlotOf(x)
    BY SlotsRepeat
  <2>4. b + i - 1 \in 0 .. 4 * N
    BY <1>p, <1>1, <2>1, QueueSizeAssumption DEF Pointers
  <2>5. \/ dataFrameReadPointer + (i + k) - 1 = b + i - 1
        \/ dataFrameReadPointer + (i + k) - 1 = (b + i - 1) + 2 * N
    BY <1>p, <2>1, <2>2, QueueSizeAssumption DEF Pointers
  <2> QED
    BY <2>3, <2>4, <2>5
<1>4. UnreadFrames' = [i \in 1 .. Queued - k |-> dataFrameSharedMemory[SlotOf(b + i - 1)]]
  BY <1>2 DEF UnreadFrames
<1>5. /\ UnreadFrames \in Seq(SlotContents) /\ Len(UnreadFrames) = Queued
      /\ UnreadFrames = [i \in 1 .. Queued |-> dataFrameSharedMemory[SlotOf(dataFrameReadPointer + i - 1)]]
  BY FramesType DEF UnreadFrames
<1>6. SubSeq(UnreadFrames, k + 1, Queued) = [i \in 1 .. Queued - k |-> UnreadFrames[i + k]]
  <2> HIDE DEF UnreadFrames, Queued
  <2>1. PICK u \in Seq(SlotContents) : u = UnreadFrames
    BY <1>5
  <2>2. PICK s : s = SubSeq(u, k + 1, Queued)
    OBVIOUS
  <2>3. /\ s \in Seq(SlotContents) /\ Len(s) = Queued - k
        /\ \A i \in 1 .. Queued - k : s[i] = u[i + k]
    <3>1. PICK n \in Nat : n = Queued
      BY <1>1
    <3>2. Len(u) = n /\ k \in 0 .. n /\ k + 1 \in Int /\ s = SubSeq(u, k + 1, n)
      BY <1>1, <1>5, <2>1, <2>2, <3>1
    <3>3. s \in Seq(SlotContents) /\ Len(s) = n - k
      BY <3>2
    <3>4. \A i \in 1 .. n - k : s[i] = u[i + k]
      BY <3>2
    <3> QED
      BY <3>1, <3>3, <3>4
  <2>4. s = [i \in 1 .. Queued - k |-> s[i]]
    BY <1>1, <2>3
  <2> QED
    BY <2>1, <2>2, <2>3, <2>4
<1>7. \A i \in 1 .. Queued - k :
        dataFrameSharedMemory[SlotOf(b + i - 1)] = UnreadFrames[i + k]
  <2>1. \A i \in 1 .. Queued - k : i + k \in 1 .. Queued
    BY <1>1
  <2> QED
    BY <1>3, <1>5, <2>1
<1> QED
  BY <1>1, <1>2, <1>4, <1>5, <1>6, <1>7

\* After a wipe the queue is empty.
LEMMA FramesWiped ==
  ASSUME dataFrameWritePointer' = 0, dataFrameReadPointer' = 0
  PROVE  Queued' = 0 /\ UnreadFrames' = <<>>
<1>1. Queued' = 0
  BY QueueSizeAssumption, SMT DEF Queued, Occupancy
<1> QED
  BY <1>1 DEF UnreadFrames

-----------------------------------------------------------------------------
(* What the frames on their way are.  RingInv says where a frame goes; these *)
(* say which frame it is.                                                    *)

Busy == worker \notin {"loop", "exited"}

\* An acquisition goes on, and no request is changing that.
Live == acquisitionMode # 0 /\ ~Settling

\* The worker's frame is behind what it reads next; what a restart of the card
\* tears is a frame of the run before.
Stream ==
  /\ runStart <= generated /\ next <= generated
  /\ Busy => head < next
  /\ torn /\ Busy => head < runStart
  /\ server = "UDP" => ~torn /\ main \notin {"started", "stopped"}
  /\ main = "sleeping" => acquisitionMode = 0

\* During an acquisition the worker handles frames of this acquisition, each in
\* the slot that the queue shows next.
Fresh ==
  Live =>
    /\ next >= runStart
    /\ Busy => head >= runStart
    /\ Holding => dataFrame = SlotOf(dataFrameWritePointer)
    /\ worker \in {"compare", "publish"} /\ dataFrame # DevNull =>
         dataFrameSharedMemory[dataFrame] = [head |-> head, whole |-> TRUE]

\* Without one, it publishes no more than the frame it was at, or the datagram.
Leaking ==
  /\ server = "UDP" /\ Busy => next - head <= MaxPacked
  /\ acquisitionMode = 0 /\ main # "started" =>
       /\ server = "DAQ" /\ (worker = "slot" \/ dataFrame # DevNull) => dataFrameWritePointer = 0
       /\ server = "UDP" /\ worker \in {"slot", "header", "words", "compare", "publish"} =>
            dataFrameWritePointer + (next - head) <= MaxPacked

ChannelIInv == RingInv /\ Stream /\ Fresh /\ Leaking

\* These depend on the following variables only.
LEMMA StreamFrame ==
  ASSUME Stream, Fresh, Leaking,
         UNCHANGED <<cardVars, workerVars, main, acquisitionMode, dataFrameWritePointer,
                     dataFrameSharedMemory, dataFrame>>
  PROVE  Stream' /\ Fresh' /\ Leaking'
BY DEF Stream, Fresh, Leaking, Live, Busy, Settling, Holding, cardVars, workerVars

\* What the types say of them.
LEMMA StreamTypes ==
  ASSUME TypeOK
  PROVE  /\ head \in Nat /\ next \in Nat /\ runStart \in Nat /\ generated \in Nat
         /\ torn \in BOOLEAN /\ server \in {"DAQ", "UDP"} /\ acquisitionMode \in {0, 1}
         /\ dataFrameWritePointer \in 0 .. (2 * N - 1) /\ N \in Nat \ {0} /\ MaxPacked \in Nat \ {0}
         /\ dataFrame \in Slots \cup {DevNull}
BY QueueSizeAssumption, UDPAssumption, DAQAssumption, StampAssumption
DEF TypeOK, DAQTypeOK, ServerTypeOK, Stamps, Pointers

\* The worker of a card.
LEMMA WorkerStream ==
  ASSUME MaxSpill = 0, ChannelIInv, server = "DAQ", Worker, UNCHANGED clientVars
  PROVE  Stream' /\ Fresh' /\ Leaking'
<1>t. /\ head \in Nat /\ next \in Nat /\ runStart \in Nat /\ generated \in Nat
      /\ torn \in BOOLEAN /\ acquisitionMode \in {0, 1} /\ dataFrame \in Slots \cup {DevNull}
  BY StreamTypes DEF ChannelIInv, RingInv
<1>r. dataFrame # DevNull => Holding
  BY DEF ChannelIInv, RingInv, SlotsAreReturned
<1> USE DEF Live, Busy, Settling, Holding, serverVars, queueVars, cardVars, workerVars
<1>1. CASE ReadHeader
  <2>1. /\ head' \in next .. (generated - 1) /\ next' = head' + 1 /\ torn' = FALSE
        /\ worker = "loop" /\ worker' = "mode"
    BY <1>1 DEF ReadHeader, Readable
  <2> QED
    BY <1>1, <1>t, <1>r, <2>1 DEF ReadHeader, ChannelIInv, Stream, Fresh, Leaking
<1>2. CASE ReadBadHeader
  <2>1. PICK n \in next .. (generated - 1) : next' = n + 1
    BY <1>2 DEF ReadBadHeader, Readable
  <2> QED
    BY <1>2, <1>t, <1>r, <2>1 DEF ReadBadHeader, ChannelIInv, Stream, Fresh, Leaking
<1>3. CASE ReadMode
  BY <1>3, <1>t, <1>r DEF ReadMode, ChannelIInv, Stream, Fresh, Leaking
<1>4. CASE GetSlot
  BY <1>4, <1>t, <1>r DEF GetSlot, TakeSlot, ChannelIInv, Stream, Fresh, Leaking
<1>5. CASE WriteHeader
  BY <1>5, <1>t, <1>r DEF WriteHeader, ChannelIInv, Stream, Fresh, Leaking
<1>6. CASE WriteWords
  <2>1. dataFrame # DevNull =>
          dataFrameSharedMemory'[dataFrame] = [head |-> head, whole |-> ~torn /\ spill = 0]
    BY <1>6, FramesSurvive DEF WriteWords, ChannelIInv
  <2>2. spill = 0
    BY HeldSlotIsUnreadByNobody DEF ChannelIInv
  <2>3. Live => ~torn
    BY <1>6, <1>t DEF WriteWords, ChannelIInv, Stream, Fresh
  <2> QED
    BY <1>6, <1>t, <1>r, <2>1, <2>2, <2>3 DEF WriteWords, ChannelIInv, Stream, Fresh, Leaking
<1>7. CASE RejectFrame
  BY <1>7, <1>t, <1>r DEF RejectFrame, ChannelIInv, Stream, Fresh, Leaking
<1>8. CASE PublishFrame
  BY <1>8, <1>t, <1>r DEF PublishFrame, PublishSlot, ChannelIInv, Stream, Fresh, Leaking
<1>9. CASE WorkerExit
  BY <1>9, <1>t, <1>r DEF WorkerExit, ChannelIInv, Stream, Fresh, Leaking
<1> QED
  BY <1>1, <1>2, <1>3, <1>4, <1>5, <1>6, <1>7, <1>8, <1>9 DEF Worker

\* The worker of datagrams.
LEMMA ReceiverStream ==
  ASSUME MaxSpill = 0, MaxPacked < 2 * N, ChannelIInv, server = "UDP", Receiver, UNCHANGED clientVars
  PROVE  Stream' /\ Fresh' /\ Leaking'
<1>t. /\ head \in Nat /\ next \in Nat /\ runStart \in Nat /\ generated \in Nat
      /\ torn \in BOOLEAN /\ acquisitionMode \in {0, 1} /\ dataFrame \in Slots \cup {DevNull}
      /\ dataFrameWritePointer \in 0 .. (2 * N - 1) /\ N \in Nat \ {0} /\ MaxPacked \in Nat \ {0}
  BY StreamTypes DEF ChannelIInv, RingInv
<1>r. dataFrame # DevNull => Holding
  BY DEF ChannelIInv, RingInv, SlotsAreReturned
<1> USE DEF Live, Busy, Settling, Holding, serverVars, queueVars, cardVars, workerVars
<1>1. CASE ReceiveDatagram
  <2>1. PICK first \in next .. (generated - 1), size \in 1 .. MaxPacked :
           first + size <= generated /\ head' = first /\ next' = first + size
    BY <1>1 DEF ReceiveDatagram
  <2>2. /\ head' >= next /\ head' < next' /\ next' - head' <= MaxPacked /\ next' <= generated
        /\ next' >= next
    BY <1>t, <2>1
  <2> QED
    BY <1>1, <1>t, <1>r, <2>1, <2>2 DEF ReceiveDatagram, ChannelIInv, Stream, Fresh, Leaking
<1>2. CASE TestMode
  BY <1>2, <1>t, <1>r DEF TestMode, ChannelIInv, Stream, Fresh, Leaking
<1>4. CASE GetSlot
  BY <1>4, <1>t, <1>r DEF GetSlot, TakeSlot, ChannelIInv, Stream, Fresh, Leaking
<1>5. CASE CopyHeader
  BY <1>5, <1>t, <1>r DEF CopyHeader, ChannelIInv, Stream, Fresh, Leaking
<1>6. CASE CopyWords
  <2>1. dataFrame # DevNull =>
          dataFrameSharedMemory'[dataFrame] = [head |-> head, whole |-> spill = 0]
    BY <1>6, FramesSurvive DEF CopyWords, ChannelIInv
  <2>2. spill = 0
    BY HeldSlotIsUnreadByNobody DEF ChannelIInv
  <2> QED
    BY <1>6, <1>t, <1>r, <2>1, <2>2 DEF CopyWords, ChannelIInv, Stream, Fresh, Leaking
<1>7. CASE RejectDatagram
  BY <1>7, <1>t, <1>r DEF RejectDatagram, ChannelIInv, Stream, Fresh, Leaking
<1>8. CASE CompareMinimum
  <2>1. CASE head < minimumFrameID /\ head + 1 < next
    BY <1>8, <1>t, <1>r, <2>1 DEF CompareMinimum, NextOfDatagram, ChannelIInv, Stream, Fresh, Leaking
  <2>2. CASE head < minimumFrameID /\ ~(head + 1 < next)
    BY <1>8, <1>t, <1>r, <2>2 DEF CompareMinimum, NextOfDatagram, ChannelIInv, Stream, Fresh, Leaking
  <2>3. CASE ~(head < minimumFrameID)
    BY <1>8, <1>t, <1>r, <2>3 DEF CompareMinimum, ChannelIInv, Stream, Fresh, Leaking
  <2> QED
    BY <2>1, <2>2, <2>3
<1>9. CASE PublishCopy
  <2>1. dataFrameWritePointer' <= dataFrameWritePointer + 1
    <3>1. \A x \in 0 .. (2 * N - 1) : (x + 1) % (2 * N) <= x + 1
      BY QueueSizeAssumption, SMT
    <3> QED
      BY <1>9, <1>t, <3>1 DEF PublishCopy, PublishSlot, Forward
  <2>2. dataFrameWritePointer' \in Int
    BY <1>9, <1>t, PointerTypes DEF PublishCopy, PublishSlot, Pointers
  <2> QED
    BY <1>9, <1>t, <1>r, <2>1, <2>2
    DEF PublishCopy, PublishSlot, NextOfDatagram, ChannelIInv, Stream, Fresh, Leaking
<1>10. CASE ReceiverExit
  BY <1>10, <1>t, <1>r DEF ReceiverExit, ChannelIInv, Stream, Fresh, Leaking
<1> QED
  BY <1>1, <1>2, <1>4, <1>5, <1>6, <1>7, <1>8, <1>9, <1>10 DEF Receiver

\* No step of any thread breaks this.
LEMMA StreamStep ==
  ASSUME MaxSpill = 0, MaxPacked < 2 * N, SleepSuffices, ChannelIInv, [Next]_vars
  PROVE  Stream' /\ Fresh' /\ Leaking'
<1>t. /\ head \in Nat /\ next \in Nat /\ runStart \in Nat /\ generated \in Nat
      /\ torn \in BOOLEAN /\ acquisitionMode \in {0, 1} /\ dataFrame \in Slots \cup {DevNull}
      /\ server \in {"DAQ", "UDP"}
  BY StreamTypes DEF ChannelIInv, RingInv
<1>r. dataFrame # DevNull => Holding
  BY DEF ChannelIInv, RingInv, SlotsAreReturned
<1>1. CASE Call \/ ClientLocal
  BY <1>1, StreamFrame DEF Call, CallDecode, CallMode, CallSync, ClientLocal, LocalSteps, ReadFrame,
     EndOfBlock, serverVars, queueVars, ChannelIInv
<1>2. CASE Serve
  BY <1>2, StreamFrame DEF Serve, Requests, SyncSetMinimum, SyncGetPointers, SyncSetPointer, FirstFrame,
     GetBlock, SetReadPointer, SetMinimumFrameID, SetDataFrameReadPointer, serverVars, queueVars,
     ChannelIInv
<1>3. CASE BeginStart
  <2>1. CASE RestartCard /\ server = "DAQ"
    <3>1. next' \in next .. generated
      BY <2>1 DEF RestartCard
    <3> QED
      BY <2>1, <1>t, <1>r, <3>1 DEF RestartCard, MidFrame, ChannelIInv, Stream, Fresh, Leaking, Live, Busy,
         Settling, Holding, serverVars, queueVars
  <2>2. CASE FirstWipeOfReceiver /\ server = "UDP"
    <3>1. dataFrameWritePointer' = 0
      BY <2>2 DEF FirstWipeOfReceiver, StartAcquisitionFirstWipe, Wipe
    <3> QED
      BY <2>2, <1>t, <1>r, <3>1 DEF FirstWipeOfReceiver, StartAcquisitionFirstWipe, Wipe, ChannelIInv, Stream,
         Fresh, Leaking, Live, Busy, Settling, Holding, serverVars, queueVars, workerVars
  <2> QED
    BY <1>3, <2>1, <2>2 DEF BeginStart
<1>4. CASE WipeOnce
  BY <1>4, <1>t, <1>r DEF WipeOnce, FirstWipe, StartAcquisitionFirstWipe, Wipe, ChannelIInv, Stream, Fresh,
     Leaking, Live, Busy, Settling, Holding, cardVars, workerVars
<1>5. CASE WipeAgain
  BY <1>5, <1>t, <1>r DEF WipeAgain, SecondWipe, Settled, StartAcquisitionSecondWipe, Wipe, ChannelIInv, Stream,
     Fresh, Leaking, Live, Busy, Settling, Holding, cardVars, workerVars
<1>6. CASE BeginStop
  BY <1>6, <1>t, <1>r DEF BeginStop, StopCard, ChannelIInv, Stream, Fresh, Leaking, Live, Busy, Settling,
     Holding, serverVars, queueVars, workerVars
<1>7. CASE EndStop
  BY <1>7, <1>t, <1>r DEF EndStop, StopWipe, WipeOfReceiver, StopAcquisition, Wipe, ChannelIInv, Stream, Fresh,
     Leaking, Live, Busy, Settling, Holding, cardVars, workerVars
<1>8. CASE Shutdown
  <2>1. CASE StopWorker
    BY <2>1, <1>t, <1>r DEF StopWorker, ChannelIInv, Stream, Fresh, Leaking, Live, Busy,
       Settling, Holding, cardVars, workerVars, serverVars, queueVars
  <2>2. CASE JoinWorker
    BY <2>2, <1>t, <1>r DEF JoinWorker, ChannelIInv, Stream, Fresh, Leaking, Live, Busy,
       Settling, Holding, cardVars, workerVars, serverVars, queueVars
  <2> QED
    BY <1>8, <2>1, <2>2 DEF Shutdown
<1>9. CASE WorkerStep
  BY <1>9, WorkerStream, ReceiverStream DEF WorkerStep
<1>10. CASE CardStep
  BY <1>10, <1>t, <1>r DEF CardStep, GenerateFrame, ChannelIInv, Stream, Fresh, Leaking, Live, Busy,
     Settling, Holding, workerVars, serverVars, queueVars
<1>11. CASE UNCHANGED vars
  BY <1>11, StreamFrame DEF vars, serverVars, queueVars, ChannelIInv
<1> QED
  BY <1>1, <1>2, <1>3, <1>4, <1>5, <1>6, <1>7, <1>8, <1>9, <1>10, <1>11 DEF Next, MainStep

-----------------------------------------------------------------------------
(* The refinement.  What the channel's variables are here:                 *)

Seen   == IF main = "started" THEN <<>> ELSE UnreadFrames
Opened == acquisitionMode # 0 /\ main # "started"
Leaked == IF acquisitionMode = 0 /\ main # "started" THEN dataFrameWritePointer ELSE 0
Batch  == IF server = "UDP" THEN MaxPacked ELSE 1
Floor  == IF worker \in {"loop", "exited"} THEN next ELSE head

mapped == <<Seen, Opened, Leaked, Batch, runStart, Floor>>

ChannelStep == [Channel!ChannelNext]_(Channel!channelVars)

\* The channel's actions, in terms of these.
LEMMA ChannelStutters ==
  ASSUME UNCHANGED mapped
  PROVE  ChannelStep
BY DEF ChannelStep, mapped, Channel!channelVars, Seen, Opened, Leaked, Batch, Floor

\* The card's or the network's loss: the floor rises.
LEMMA ChannelLoses ==
  ASSUME UNCHANGED <<Seen, Opened, Leaked, Batch, runStart>>,
         NEW n \in Stamps, Floor' = n, n > Floor
  PROVE  ChannelStep
<1>1. Channel!Lose
  BY DEF Channel!Lose, Seen, Opened, Leaked, Batch, Floor
<1> QED
  BY <1>1 DEF ChannelStep, Channel!ChannelNext

\* A frame is published during an acquisition.
LEMMA ChannelPuts ==
  ASSUME NEW f \in SlotContents, Opened, Len(Seen) < N, f.whole, f.head >= Floor,
         Seen' = Append(Seen, f), NEW n \in Stamps, Floor' = n, n > f.head,
         UNCHANGED <<Opened, Leaked, Batch, runStart>>
  PROVE  ChannelStep
<1>1. Channel!Put(f)
  BY DEF Channel!Put, Seen, Opened, Leaked, Batch, Floor
<1> QED
  BY <1>1 DEF ChannelStep, Channel!ChannelNext, Channel!Frame, SlotContents

\* A frame is published without one.
LEMMA ChannelLeaks ==
  ASSUME NEW f \in SlotContents, ~Opened, Leaked < Batch, Len(Seen) < N,
         Seen' = Append(Seen, f), Leaked' = Leaked + 1, NEW n \in Stamps, Floor' = n, n >= Floor,
         UNCHANGED <<Opened, Batch, runStart>>
  PROVE  ChannelStep
<1>1. Channel!Leak(f)
  BY DEF Channel!Leak, Seen, Opened, Leaked, Batch, Floor
<1> QED
  BY <1>1 DEF ChannelStep, Channel!ChannelNext, Channel!Frame, SlotContents

\* Frames are handed back.
LEMMA ChannelTakes ==
  ASSUME NEW k \in 1 .. Len(Seen), Seen' = SubSeq(Seen, k + 1, Len(Seen)),
         UNCHANGED <<Opened, Leaked, Batch, runStart, Floor>>
  PROVE  ChannelStep
<1>1. Channel!Take(k)
  BY DEF Channel!Take, Seen, Opened, Leaked, Batch, Floor
<1>2. k \in 1 .. Len(IF main = "started" THEN <<>> ELSE UnreadFrames)
  BY DEF Seen
<1> QED
  BY <1>1, <1>2 DEF ChannelStep, Channel!ChannelNext

\* An acquisition begins.
LEMMA ChannelOpens ==
  ASSUME Floor >= runStart, Seen' = <<>>, Opened', Leaked' = 0, UNCHANGED <<Batch, runStart, Floor>>
  PROVE  ChannelStep
<1>1. Channel!Open
  BY DEF Channel!Open, Seen, Opened, Leaked, Batch, Floor
<1> QED
  BY <1>1 DEF ChannelStep, Channel!ChannelNext

\* An acquisition ends, and what was queued is gone.
LEMMA ChannelCloses ==
  ASSUME Seen' = <<>>, ~Opened', Leaked' = 0, Batch' = Batch,
         NEW m \in Stamps, runStart' = m, m >= runStart, NEW n \in Stamps, Floor' = n, n >= Floor
  PROVE  ChannelStep
<1>1. Channel!Close
  BY DEF Channel!Close, Seen, Opened, Leaked, Batch, Floor
<1> QED
  BY <1>1 DEF ChannelStep, Channel!ChannelNext

\* What the mapping depends on.
LEMMA MappedFrame ==
  ASSUME UNCHANGED <<server, queueVars, dataFrameSharedMemory, acquisitionMode, runStart, worker, head, next>>,
         main = "started" <=> main' = "started"
  PROVE  UNCHANGED mapped
<1>1. UnreadFrames' = UnreadFrames
  BY DEF queueVars, UnreadFrames, Queued
<1>2. Seen' = Seen
  BY <1>1 DEF Seen
<1> QED
  BY <1>2 DEF mapped, Opened, Leaked, Batch, Floor, queueVars

\* A step of the worker that publishes nothing: it may pass over frames.
LEMMA WorkerMoves ==
  ASSUME TypeOK', UNCHANGED <<server, queueVars, acquisitionMode, runStart, main>>,
         UnreadFrames' = UnreadFrames, Floor' >= Floor, Floor \in Int
  PROVE  ChannelStep
<1>1. UNCHANGED <<Seen, Opened, Leaked, Batch, runStart>>
  BY DEF Seen, Opened, Leaked, Batch, queueVars
<1>2. Floor' \in Stamps
  BY DEF TypeOK, DAQTypeOK, Floor
<1>3. PICK n \in Stamps : n = Floor'
  BY <1>2
<1>4. CASE n = Floor
  BY <1>1, <1>3, <1>4, ChannelStutters DEF mapped
<1>5. CASE n # Floor
  <2>1. n > Floor
    BY <1>3, <1>5, StampAssumption DEF Stamps
  <2> QED
    BY <1>1, <1>3, <2>1, ChannelLoses
<1> QED
  BY <1>4, <1>5

\* A publication: the frame goes into the channel, leaks out of it, or is not seen.
LEMMA WorkerPublishes ==
  ASSUME MaxPacked < 2 * N, ChannelIInv, TypeOK', worker = "publish", PublishSlot, Floor' > Floor,
         UNCHANGED <<server, dataFrameReadPointer, dataFrameSharedMemory, acquisitionMode, runStart, main>>
  PROVE  ChannelStep
<1>t. /\ head \in Nat /\ next \in Nat /\ runStart \in Nat
      /\ server \in {"DAQ", "UDP"} /\ acquisitionMode \in {0, 1}
      /\ dataFrameWritePointer \in 0 .. (2 * N - 1) /\ N \in Nat \ {0} /\ MaxPacked \in Nat \ {0}
      /\ dataFrame \in Slots \cup {DevNull} /\ TypeOK
      /\ dataFrameSharedMemory \in [Slots -> SlotContents]
  BY StreamTypes DEF ChannelIInv, RingInv, TypeOK, DAQTypeOK, ServerTypeOK
<1>f. Floor \in Int /\ Floor = head /\ Floor' \in Stamps /\ runStart' = runStart
  <2>1. Floor' \in Stamps
    BY DEF TypeOK, DAQTypeOK, Floor
  <2> QED
    BY <1>t, <2>1 DEF Floor
<1>n. PICK n \in Stamps : n = Floor'
  BY <1>f
<1>1. CASE dataFrame = DevNull
  <2>1. UNCHANGED queueVars
    BY <1>1 DEF PublishSlot, queueVars
  <2>2. UnreadFrames' = UnreadFrames
    BY <1>t, <2>1, FramesKept
  <2>3. Floor' >= Floor
    BY <1>f, <1>n, StampAssumption DEF Stamps
  <2> QED
    BY <1>f, <2>1, <2>2, <2>3, WorkerMoves
<1>2. CASE dataFrame # DevNull
  <2>1. Holding /\ Queued < N /\ dataFrameWritePointer' = Forward(dataFrameWritePointer, 1)
    <3>1. Holding
      BY <1>2 DEF ChannelIInv, RingInv, SlotsAreReturned
    <3> QED
      BY <1>2, <1>t, <3>1 DEF ChannelIInv, RingInv, HeldSlotIsNext, PublishSlot
  <2>2. PICK f \in SlotContents : f = dataFrameSharedMemory[SlotOf(dataFrameWritePointer)]
    <3>1. SlotOf(dataFrameWritePointer) \in Slots
      BY <1>t, PointerTypes DEF Pointers
    <3> QED
      BY <1>t, <3>1
  <2>3. UnreadFrames' = Append(UnreadFrames, f) /\ Len(UnreadFrames) = Queued
    BY <1>t, <2>1, <2>2, FramePublished, FramesType
  <2>4. CASE main = "started"
    <3>1. UNCHANGED <<Seen, Opened, Leaked, Batch, runStart>>
      BY <2>4, Zenon DEF Seen, Opened, Leaked, Batch
    <3> QED
      BY <1>n, <3>1, ChannelLoses
  <2>5. CASE main # "started" /\ acquisitionMode # 0
    <3>1. Live
      BY <2>5 DEF ChannelIInv, Stream, Live, Settling
    <3>2. dataFrame = SlotOf(dataFrameWritePointer)
          /\ dataFrameSharedMemory[dataFrame] = [head |-> head, whole |-> TRUE]
      BY <1>2, <2>1, <3>1 DEF ChannelIInv, Fresh
    <3>3. f.head = head /\ f.whole
      BY <2>2, <3>2
    <3>4. /\ Opened /\ Len(Seen) < N /\ Seen' = Append(Seen, f)
          /\ UNCHANGED <<Opened, Leaked, Batch, runStart>>
      BY <1>f, <2>1, <2>3, <2>5 DEF Seen, Opened, Leaked, Batch
    <3>5. f.head >= Floor /\ n > f.head
      BY <1>f, <1>n, <1>t, <3>3
    <3> QED
      BY <1>n, <3>3, <3>4, <3>5, ChannelPuts
  <2>6. CASE main # "started" /\ acquisitionMode = 0
    <3>1. /\ dataFrameWritePointer < Batch
          /\ dataFrameWritePointer + 1 <= 2 * N - 1
      <4>1. CASE server = "DAQ"
        BY <1>2, <1>t, <2>6, <4>1 DEF ChannelIInv, Leaking, Batch
      <4>2. CASE server = "UDP"
        <5>1. head < next /\ dataFrameWritePointer + (next - head) <= MaxPacked
          BY <2>6, <4>2 DEF ChannelIInv, Leaking, Stream, Busy
        <5> QED
          BY <1>t, <4>2, <5>1 DEF Batch
      <4> QED
        BY <1>t, <4>1, <4>2
    <3>2. dataFrameWritePointer' = dataFrameWritePointer + 1
      BY <1>t, <2>1, <3>1, SMT DEF Forward
    <3>3. /\ ~Opened /\ Leaked < Batch /\ Len(Seen) < N /\ Seen' = Append(Seen, f)
          /\ Leaked' = Leaked + 1
          /\ UNCHANGED <<Opened, Batch, runStart>>
      BY <1>f, <2>1, <2>3, <2>6, <3>1, <3>2 DEF Seen, Opened, Leaked, Batch
    <3>4. n >= Floor
      BY <1>f, <1>n, StampAssumption DEF Stamps
    <3> QED
      BY <1>n, <3>3, <3>4, ChannelLeaks
  <2> QED
    BY <2>4, <2>5, <2>6
<1> QED
  BY <1>1, <1>2

\* The client hands back a block.
LEMMA ClientTakes ==
  ASSUME ChannelIInv, main = "poll", client \in {"flushSet", "set"},
         SetDataFrameReadPointer(blockWr), UNCHANGED <<cardVars, workerVars, main>>
  PROVE  ChannelStep
<1>t. TypeOK /\ blockWr \in Pointers /\ dataFrameReadPointer \in Pointers
  BY DEF ChannelIInv, RingInv, TypeOK, DAQTypeOK, ServerTypeOK, ClientTypeOK
<1>1. /\ dataFrameReadPointer' = blockWr /\ dataFrameWritePointer' = dataFrameWritePointer
      /\ dataFrameSharedMemory' = dataFrameSharedMemory /\ acquisitionMode' = acquisitionMode
      /\ server' = server /\ next' = next /\ runStart' = runStart /\ worker' = worker /\ head' = head
      /\ main' = main
  BY <1>t, ZeroPointer DEF SetDataFrameReadPointer, cardVars, workerVars
<1>2. PICK k : k = Occupancy(blockWr, dataFrameReadPointer)
  OBVIOUS
<1>3. k <= Queued
  BY <1>2 DEF ChannelIInv, RingInv, BlockEndIsQueued
<1>4. /\ k \in 0 .. Queued
      /\ UnreadFrames' = SubSeq(UnreadFrames, k + 1, Len(UnreadFrames))
  BY <1>t, <1>1, <1>2, <1>3, FramesHandedBack
<1>5. UNCHANGED <<Opened, Leaked, Batch, runStart, Floor>> /\ Seen = UnreadFrames /\ Seen' = UnreadFrames'
  BY <1>1 DEF Opened, Leaked, Batch, Floor, Seen
<1>6. Len(UnreadFrames) = Queued /\ Queued \in Nat /\ UnreadFrames \in Seq(SlotContents)
  BY <1>t, FramesType
<1>7. CASE k = 0
  <2>1. PICK u \in Seq(SlotContents) : u = UnreadFrames
    BY <1>6
  <2>2. SubSeq(u, 1, Len(u)) = u
    OBVIOUS
  <2>3. UnreadFrames' = UnreadFrames
    BY <1>4, <1>7, <2>1, <2>2
  <2> QED
    BY <1>5, <2>3, ChannelStutters DEF mapped
<1>8. CASE k # 0
  <2>1. k \in 1 .. Len(Seen)
    BY <1>4, <1>5, <1>6, <1>8
  <2>2. Seen' = SubSeq(Seen, k + 1, Len(Seen))
    BY <1>4, <1>5
  <2> QED
    BY <1>5, <2>1, <2>2, ChannelTakes
<1> QED
  BY <1>7, <1>8

\* A step of a worker.
LEMMA WorkerInChannel ==
  ASSUME MaxSpill = 0, MaxPacked < 2 * N, ChannelIInv, TypeOK', WorkerStep
  PROVE  ChannelStep
<1>t. /\ head \in Nat /\ next \in Nat /\ runStart \in Nat /\ generated \in Nat /\ TypeOK /\ Floor \in Int
      /\ Busy => head < next
  BY StreamTypes DEF ChannelIInv, RingInv, Floor, Stream
<1> USE DEF serverVars, queueVars, cardVars, workerVars
<1>1. CASE ReadHeader \/ ReadBadHeader \/ ReceiveDatagram
  <2>1. /\ UNCHANGED <<server, queueVars, dataFrameSharedMemory, acquisitionMode, runStart, main>>
        /\ worker = "loop"
        /\ \/ worker' = "mode" /\ head' \in next .. (generated - 1)
           \/ worker' = "loop" /\ \E n \in next .. (generated - 1) : next' = n + 1
    BY <1>1, <1>t, UDPAssumption DEF ReadHeader, ReadBadHeader, ReceiveDatagram, Readable
  <2>2. UnreadFrames' = UnreadFrames
    BY <1>t, <2>1, FramesKept
  <2>3. Floor' >= Floor
    BY <1>t, <2>1 DEF Floor
  <2> QED
    BY <1>t, <2>1, <2>2, <2>3, WorkerMoves
<1>2. CASE ReadMode \/ GetSlot \/ TestMode \/ RejectDatagram \/ CompareMinimum \/ WorkerExit \/ ReceiverExit
  <2>1. /\ UNCHANGED <<server, queueVars, dataFrameSharedMemory, acquisitionMode, runStart, main, next>>
        /\ worker # "exited"
        /\ \/ worker' \in {"mode", "slot", "header", "compare", "publish"} /\ head' = head /\ Busy
           \/ worker' \in {"loop", "exited"}
           \/ worker' = "slot" /\ head' = head + 1 /\ Busy
    BY <1>2 DEF ReadMode, GetSlot, TestMode, RejectDatagram, CompareMinimum, NextOfDatagram, WorkerExit,
      ReceiverExit, Busy
  <2>2. UnreadFrames' = UnreadFrames
    BY <1>t, <2>1, FramesKept
  <2>3. Floor' >= Floor
    <3>1. CASE worker' \in {"mode", "slot", "header", "compare", "publish"} /\ head' = head /\ Busy
      BY <1>t, <3>1 DEF Floor, Busy
    <3>2. CASE worker' \in {"loop", "exited"}
      BY <1>t, <2>1, <3>2 DEF Floor, Busy
    <3>3. CASE worker' = "slot" /\ head' = head + 1 /\ Busy
      BY <1>t, <3>3 DEF Floor, Busy
    <3> QED
      BY <2>1, <3>1, <3>2, <3>3
  <2> QED
    BY <1>t, <2>1, <2>2, <2>3, WorkerMoves
<1>3. CASE WriteHeader \/ CopyHeader \/ WriteWords \/ CopyWords \/ RejectFrame
  <2>1. /\ UNCHANGED <<server, queueVars, acquisitionMode, runStart, main, next, head>>
        /\ worker \in {"header", "words"} /\ worker' \in {"words", "compare", "publish", "loop"}
    BY <1>3 DEF WriteHeader, CopyHeader, WriteWords, CopyWords, RejectFrame
  <2>2. PICK c : \E k \in {0, spill} : WriteSlot(c, k)
    BY <1>3 DEF WriteHeader, CopyHeader, WriteWords, CopyWords, RejectFrame
  <2>3. Holding \/ dataFrame = DevNull
    BY <2>1 DEF Holding
  <2>4. UnreadFrames' = UnreadFrames
    BY <2>1, <2>2, <2>3, FramesSurvive DEF ChannelIInv
  <2>5. Floor' >= Floor
    BY <1>t, <2>1 DEF Floor, Busy
  <2> QED
    BY <1>t, <2>1, <2>4, <2>5, WorkerMoves
<1>4. CASE PublishFrame \/ PublishCopy
  <2>1. /\ worker = "publish" /\ PublishSlot
        /\ UNCHANGED <<server, dataFrameReadPointer, dataFrameSharedMemory, acquisitionMode, runStart, main, next>>
        /\ \/ worker' = "loop"
           \/ worker' = "slot" /\ head' = head + 1
    BY <1>4 DEF PublishFrame, PublishCopy, NextOfDatagram
  <2>2. Floor' > Floor
    BY <1>t, <2>1 DEF Floor, Busy
  <2> QED
    BY <2>1, <2>2, WorkerPublishes
<1> QED
  BY <1>1, <1>2, <1>3, <1>4 DEF WorkerStep, Worker, Receiver

\* Every step of the system is one of the channel, or none.
LEMMA SystemInChannel ==
  ASSUME MaxSpill = 0, MaxPacked < 2 * N, SleepSuffices, ChannelIInv, TypeOK', [Next]_vars
  PROVE  ChannelStep
<1>t. /\ head \in Nat /\ next \in Nat /\ runStart \in Nat /\ generated \in Nat /\ TypeOK /\ Floor \in Int
      /\ server \in {"DAQ", "UDP"} /\ runStart <= generated
  BY StreamTypes DEF ChannelIInv, RingInv, Floor, Stream
<1>f. Floor' \in Stamps /\ runStart' \in Stamps
  BY DEF TypeOK, DAQTypeOK, Floor
<1>n. PICK m \in Stamps, n \in Stamps : runStart' = m /\ Floor' = n
  BY <1>f
<1>1. CASE Call \/ ClientLocal \/ CardStep \/ Shutdown \/ BeginStop
  BY <1>1, MappedFrame, ChannelStutters DEF Call, CallDecode, CallMode, CallSync, ClientLocal, LocalSteps,
     ReadFrame, EndOfBlock, CardStep, GenerateFrame, Shutdown, StopWorker, JoinWorker, BeginStop, StopCard,
     serverVars, cardVars, workerVars
<1>2. CASE Serve
  <2>1. CASE SyncSetMinimum \/ SyncGetPointers \/ FirstFrame \/ GetBlock
    BY <1>2, <2>1, MappedFrame, ChannelStutters DEF Serve, SyncSetMinimum, SyncGetPointers, FirstFrame,
       GetBlock, SetMinimumFrameID, serverVars, cardVars, workerVars
  <2>2. CASE SyncSetPointer \/ SetReadPointer
    BY <1>2, <2>2, ClientTakes DEF Serve, SyncSetPointer, SetReadPointer
  <2> QED
    BY <1>2, <2>1, <2>2 DEF Serve, Requests
<1>3. CASE BeginStart
  <2>1. CASE RestartCard /\ server = "DAQ"
    <3>1. /\ main' = "started" /\ runStart' = generated /\ next' \in next .. generated
          /\ UNCHANGED <<server, worker, head>>
      BY <2>1 DEF RestartCard, cardVars, workerVars
    <3>2. Seen' = <<>> /\ ~Opened' /\ Leaked' = 0 /\ Batch' = Batch /\ Floor' >= Floor
      BY <1>t, <3>1 DEF Seen, Opened, Leaked, Batch, Floor
    <3> QED
      BY <1>n, <1>t, <3>1, <3>2, ChannelCloses
  <2>2. CASE FirstWipeOfReceiver /\ server = "UDP"
    <3>1. /\ dataFrameWritePointer' = 0 /\ dataFrameReadPointer' = 0 /\ acquisitionMode' = 0
          /\ runStart' = generated /\ main' = "sleeping" /\ UNCHANGED <<server, worker, head, next>>
      BY <2>2 DEF FirstWipeOfReceiver, StartAcquisitionFirstWipe, Wipe, workerVars
    <3>2. Seen' = <<>> /\ ~Opened' /\ Leaked' = 0 /\ Batch' = Batch /\ Floor' >= Floor
      BY <1>t, <3>1, FramesWiped DEF Seen, Opened, Leaked, Batch, Floor
    <3> QED
      BY <1>n, <1>t, <3>1, <3>2, ChannelCloses
  <2> QED
    BY <1>3, <2>1, <2>2 DEF BeginStart
<1>4. CASE WipeOnce
  <2>1. /\ dataFrameWritePointer' = 0 /\ dataFrameReadPointer' = 0 /\ acquisitionMode' = 0
        /\ main = "started" /\ main' = "sleeping" /\ UNCHANGED <<server, worker, head, next, runStart>>
    BY <1>4 DEF WipeOnce, FirstWipe, StartAcquisitionFirstWipe, Wipe, cardVars, workerVars
  <2>2. UNCHANGED mapped
    BY <2>1, FramesWiped DEF mapped, Seen, Opened, Leaked, Batch, Floor
  <2> QED
    BY <2>2, ChannelStutters
<1>5. CASE WipeAgain
  <2>1. /\ dataFrameWritePointer' = 0 /\ dataFrameReadPointer' = 0 /\ acquisitionMode' = 1
        /\ main = "sleeping" /\ main' = "poll" /\ UNCHANGED <<server, worker, head, next, runStart>>
        /\ Settled
    BY <1>5 DEF WipeAgain, SecondWipe, StartAcquisitionSecondWipe, Wipe, cardVars, workerVars
  <2>2. Floor >= runStart
    BY <2>1, <1>t DEF Settled, Floor
  <2>3. Seen' = <<>> /\ Opened' /\ Leaked' = 0 /\ UNCHANGED <<Batch, runStart, Floor>>
    BY <2>1, FramesWiped DEF Seen, Opened, Leaked, Batch, Floor
  <2> QED
    BY <2>2, <2>3, ChannelOpens
<1>6. CASE EndStop
  <2>1. /\ dataFrameWritePointer' = 0 /\ dataFrameReadPointer' = 0 /\ acquisitionMode' = 0
        /\ main' = "poll" /\ UNCHANGED <<server, worker, head, next, runStart>>
    BY <1>6 DEF EndStop, StopWipe, WipeOfReceiver, StopAcquisition, Wipe, cardVars, workerVars
  <2>2. Seen' = <<>> /\ ~Opened' /\ Leaked' = 0 /\ Batch' = Batch /\ Floor' = Floor
    BY <2>1, FramesWiped DEF Seen, Opened, Leaked, Batch, Floor
  <2>3. m >= runStart /\ n >= Floor
    BY <1>n, <1>t, <2>1, <2>2
  <2> QED
    BY <1>n, <2>2, <2>3, ChannelCloses
<1>7. CASE WorkerStep
  BY <1>7, WorkerInChannel
<1>8. CASE UNCHANGED vars
  BY <1>8, MappedFrame, ChannelStutters DEF vars, serverVars, cardVars, workerVars
<1> QED
  BY <1>1, <1>2, <1>3, <1>4, <1>5, <1>6, <1>7, <1>8 DEF Next, MainStep

\* Initially all this holds, and the channel is closed and empty.
LEMMA ChannelStarts ==
  ASSUME Init
  PROVE  ChannelIInv /\ Channel!ChannelInit
<1>1. RingInv
  BY RingInit
<1>2. Stream /\ Fresh /\ Leaking
  BY QueueSizeAssumption DEF Init, DAQInit, ServerInit, Stream, Fresh, Leaking, Live, Busy
<1>3. UnreadFrames = <<>>
  <2>1. Queued = 0
    BY QueueSizeAssumption, SMT DEF Init, DAQInit, ServerInit, Queued, Occupancy
  <2> QED
    BY <2>1, <1>1, FramesType DEF RingInv
<1>4. /\ main = "poll" /\ acquisitionMode = 0 /\ dataFrameWritePointer = 0 /\ runStart = 0
      /\ worker = "loop" /\ next = 0 /\ MaxPacked \in Nat
  BY UDPAssumption DEF Init, DAQInit, ServerInit
<1>5. Channel!ChannelInit
  BY <1>3, <1>4 DEF Channel!ChannelInit
<1> QED
  BY <1>1, <1>2, <1>5 DEF ChannelIInv

\* The queue with its two pointers, the threads that move them and the client
\* implement a bounded FIFO that a stop or a start closes and a start opens, for
\* every size, stream and client, as long as no header claims more words than a
\* slot has and a datagram holds fewer frames than would take the write pointer
\* once round (there are 32768 positions).
THEOREM ChannelIsImplemented ==
  ASSUME MaxSpill = 0, MaxPacked < 2 * N, SleepSuffices
  PROVE  Spec => ImplementsChannel
<1>1. Init => ChannelIInv /\ Channel!ChannelInit
  BY ChannelStarts
<1>2. ChannelIInv /\ [Next]_vars => ChannelIInv' /\ [Channel!ChannelNext]_(Channel!channelVars)
  <2> SUFFICES ASSUME ChannelIInv, [Next]_vars
               PROVE  ChannelIInv' /\ [Channel!ChannelNext]_(Channel!channelVars)
    OBVIOUS
  <2>1. RingInv'
    BY RingStep DEF ChannelIInv
  <2>2. Stream' /\ Fresh' /\ Leaking'
    BY StreamStep
  <2>3. ChannelStep
    BY <2>1, SystemInChannel DEF RingInv
  <2> QED
    BY <2>1, <2>2, <2>3 DEF ChannelIInv, ChannelStep
<1> QED
  BY <1>1, <1>2, PTL DEF Spec, ImplementsChannel, Channel!ChannelSpec

-----------------------------------------------------------------------------
(* What follows for the queue from what is proved of the channel.          *)

Facts == INSTANCE FrameChannel WITH
  Capacity <- N,
  Stamp    <- Stamps,
  queue    <- Seen,
  open     <- Opened,
  leaks    <- Leaked,
  batch    <- Batch,
  since    <- runStart,
  floor    <- Floor

\* What is put into an open channel belongs to the current acquisition.
OpensLate == Opened => runStart <= Floor

DeliversInOrder == Facts!ChannelTypeOK /\ Facts!InOrder /\ Facts!Bounded /\ OpensLate

\* The initial channel is in order.
LEMMA OrderStarts ==
  ASSUME Facts!ChannelAssumption, Facts!ChannelInit
  PROVE  DeliversInOrder
<1>1. Seen = <<>> /\ Seen \in Seq(Facts!Frame) /\ Len(Seen) = 0
  BY DEF Facts!ChannelInit
<1>2. Facts!ChannelTypeOK /\ Facts!Bounded
  <2>1. Opened \in BOOLEAN
    BY Zenon DEF Facts!ChannelInit
  <2>4. Leaked \in Nat /\ Batch \in Nat
    BY DEF Facts!ChannelInit
  <2>2. runStart \in Stamps /\ Floor \in Stamps
    BY DEF Facts!ChannelInit, Facts!ChannelAssumption
  <2>3. Facts!Bounded
    BY <1>1 DEF Facts!ChannelAssumption, Facts!Bounded
  <2> QED
    BY <1>1, <2>1, <2>2, <2>3, <2>4 DEF Facts!ChannelTypeOK
<1>3. Facts!InOrder /\ OpensLate
  BY DEF Facts!ChannelInit, Facts!InOrder, OpensLate
<1> QED
  BY <1>2, <1>3 DEF DeliversInOrder

\* Every step of the channel keeps it in order.
LEMMA OrderStep ==
  ASSUME Facts!ChannelAssumption, DeliversInOrder, [Facts!ChannelNext]_(Facts!channelVars)
  PROVE  DeliversInOrder'
<1> USE DEF Facts!ChannelAssumption
<1>t. /\ Seen \in Seq(Facts!Frame) /\ Opened \in BOOLEAN
      /\ Leaked \in Nat /\ Batch \in Nat
      /\ runStart \in Stamps /\ Floor \in Stamps /\ Len(Seen) <= N
  BY DEF DeliversInOrder, Facts!ChannelTypeOK, Facts!Bounded
<1>s. /\ runStart \in Nat /\ Floor \in Nat /\ N \in Nat /\ Len(Seen) \in Nat
      /\ \A n \in Stamps : n \in Nat
  BY <1>t
<1>n. \A f \in Facts!Frame : f.head \in Nat /\ f.head \in Stamps
  BY DEF Facts!Frame
<1>q. \A i \in 1 .. Len(Seen) : Seen[i] \in Facts!Frame /\ Seen[i].head \in Nat
  BY <1>t, <1>n
<1>o. Opened => /\ runStart <= Floor
                /\ \A i \in 1 .. Len(Seen) : /\ Seen[i].whole
                                             /\ Seen[i].head >= runStart
                                             /\ Seen[i].head < Floor
                /\ \A i, j \in 1 .. Len(Seen) :
                      i < j => Seen[i].head < Seen[j].head
  BY DEF DeliversInOrder, Facts!InOrder, OpensLate
<1>1. ASSUME NEW f \in Facts!Frame, Facts!Put(f) PROVE DeliversInOrder'
  <2>1. Seen' = Append(Seen, f) /\ Len(Seen') = Len(Seen) + 1
    BY <1>1, <1>t DEF Facts!Put
  <2>2. Opened /\ f.whole /\ f.head >= Floor /\ f.head \in Nat
    BY <1>1, <1>n DEF Facts!Put
  <2>3. Floor' \in Stamps /\ Floor' > f.head /\ Opened' = Opened /\ runStart' = runStart
    BY <1>1 DEF Facts!Put
  <2>4. Facts!ChannelTypeOK' /\ Facts!Bounded'
    BY <1>1, <1>t, <1>s, <2>1, <2>3 DEF Facts!Put, Facts!ChannelTypeOK, Facts!Bounded
  <2>5. /\ \A i \in 1 .. Len(Seen) : Seen'[i] = Seen[i]
        /\ Seen'[Len(Seen) + 1] = f
    BY <1>t, <2>1
  <2>6. \A i \in 1 .. Len(Seen') :
           /\ Seen'[i].whole /\ Seen'[i].head >= runStart' /\ Seen'[i].head < Floor'
           /\ i <= Len(Seen) => Seen'[i].head < f.head
           /\ i = Len(Seen) + 1 => Seen'[i] = f
    <3> TAKE i \in 1 .. Len(Seen')
    <3>1. CASE i = Len(Seen) + 1
      BY <3>1, <1>s, <1>o, <2>1, <2>2, <2>3, <2>5
    <3>2. CASE i \in 1 .. Len(Seen)
      BY <3>2, <1>s, <1>q, <1>o, <2>1, <2>2, <2>3, <2>5
    <3> QED
      BY <3>1, <3>2, <2>1, <1>s
  <2>7. \A i, j \in 1 .. Len(Seen') : i < j => Seen'[i].head < Seen'[j].head
    <3> SUFFICES ASSUME NEW i \in 1 .. Len(Seen'), NEW j \in 1 .. Len(Seen'), i < j
                 PROVE  Seen'[i].head < Seen'[j].head
        OBVIOUS
    <3>1. CASE j = Len(Seen) + 1
      BY <3>1, <2>1, <2>6, <1>s
    <3>2. CASE j # Len(Seen) + 1
      BY <3>2, <2>1, <2>2, <2>5, <1>o, <1>s
    <3> QED
      BY <3>1, <3>2
  <2>8. Facts!InOrder'
    BY <2>6, <2>7 DEF Facts!InOrder
  <2>9. OpensLate'
    BY <1>o, <1>s, <2>2, <2>3 DEF OpensLate
  <2> QED
    BY <2>4, <2>8, <2>9 DEF DeliversInOrder
<1>2. ASSUME NEW f \in Facts!Frame, Facts!Leak(f) PROVE DeliversInOrder'
  <2>1. /\ Seen' \in Seq(Facts!Frame) /\ Len(Seen') = Len(Seen) + 1
        /\ Len(Seen) < N /\ Opened' = FALSE
    BY <1>2, <1>t DEF Facts!Leak
  <2> QED
    BY <1>2, <1>t, <1>s, <2>1
    DEF Facts!Leak, DeliversInOrder, Facts!ChannelTypeOK, Facts!InOrder, Facts!Bounded, OpensLate
<1>3. CASE Facts!Lose
  <2>1. UNCHANGED <<Seen, Opened, Leaked, Batch, runStart>> /\ Floor' \in Stamps /\ Floor' > Floor
    BY <1>3 DEF Facts!Lose
  <2>2. Facts!InOrder'
    <3>1. Floor' \in Nat /\ Seen' = Seen /\ Opened' = Opened /\ runStart' = runStart
      BY <2>1, <1>s
    <3>2. Opened => \A i \in 1 .. Len(Seen) : Seen[i].head < Floor'
      BY <2>1, <3>1, <1>s, <1>q, <1>o
    <3> QED
      BY <3>1, <3>2, <1>o DEF Facts!InOrder
  <2>3. OpensLate' /\ Facts!ChannelTypeOK' /\ Facts!Bounded'
    BY <2>1, <1>s, <1>o, <1>t DEF OpensLate, Facts!ChannelTypeOK, Facts!Bounded
  <2> QED
    BY <2>2, <2>3 DEF DeliversInOrder
<1>4. ASSUME NEW n \in 1 .. Len(Seen), Facts!Take(n) PROVE DeliversInOrder'
  <2>1. /\ Seen' \in Seq(Facts!Frame) /\ Len(Seen') = Len(Seen) - n
        /\ \A i \in 1 .. Len(Seen') : Seen'[i] = Seen[i + n]
    BY <1>4, <1>t DEF Facts!Take
  <2>2. UNCHANGED <<Opened, Leaked, Batch, runStart, Floor>>
    BY <1>4 DEF Facts!Take
  <2>3. \A i \in 1 .. Len(Seen') : i + n \in 1 .. Len(Seen)
    BY <2>1, <1>s
  <2>4. Facts!InOrder'
    <3> SUFFICES ASSUME Opened
                 PROVE  Facts!InOrder'
        BY <2>2 DEF Facts!InOrder
    <3>1. \A i \in 1 .. Len(Seen') :
             Seen'[i].whole /\ Seen'[i].head >= runStart' /\ Seen'[i].head < Floor'
      BY <2>1, <2>2, <2>3, <1>o
    <3>2. \A i, j \in 1 .. Len(Seen') : i < j => Seen'[i].head < Seen'[j].head
      <4> TAKE i, j \in 1 .. Len(Seen')
      <4>1. i + n \in 1 .. Len(Seen) /\ j + n \in 1 .. Len(Seen)
        BY <2>3
      <4>2. i < j => i + n < j + n
        BY <1>s
      <4> QED
        BY <2>1, <4>1, <4>2, <1>o
    <3> QED
      BY <3>1, <3>2 DEF Facts!InOrder
  <2>5. OpensLate' /\ Facts!ChannelTypeOK' /\ Facts!Bounded'
    BY <2>1, <2>2, <1>s, <1>o, <1>t DEF OpensLate, Facts!ChannelTypeOK, Facts!Bounded
  <2> QED
    BY <2>4, <2>5 DEF DeliversInOrder
<1>5. CASE Facts!Open
  <2>1. /\ Seen' = <<>> /\ Seen' \in Seq(Facts!Frame) /\ Len(Seen') = 0
        /\ Opened' = TRUE /\ Leaked' = 0 /\ Batch' = Batch
        /\ runStart' = runStart /\ Floor' = Floor /\ Floor >= runStart
    BY <1>5 DEF Facts!Open
  <2>2. Opened' \in BOOLEAN
    BY <2>1, Zenon
  <2>4. Facts!ChannelTypeOK'
    BY <2>1, <2>2, <1>t DEF Facts!ChannelTypeOK
  <2>5. Facts!Bounded' /\ OpensLate'
    BY <2>1, <1>s DEF Facts!Bounded, OpensLate
  <2>3. Facts!InOrder'
    BY <2>1 DEF Facts!InOrder
  <2> QED
    BY <2>3, <2>4, <2>5 DEF DeliversInOrder
<1>6. CASE Facts!Close
  <2>1. /\ Seen' = <<>> /\ Seen' \in Seq(Facts!Frame) /\ Len(Seen') = 0
        /\ Opened' = FALSE /\ Leaked' = 0 /\ Batch' = Batch
        /\ runStart' \in Stamps /\ Floor' \in Stamps
    BY <1>6 DEF Facts!Close
  <2>2. Opened' \in BOOLEAN
    BY <2>1, Zenon
  <2>4. Facts!ChannelTypeOK'
    BY <2>1, <2>2, <1>t DEF Facts!ChannelTypeOK
  <2>5. Facts!Bounded'
    BY <2>1, <1>s DEF Facts!Bounded
  <2>3. Facts!InOrder' /\ OpensLate'
    BY <2>1 DEF Facts!InOrder, OpensLate
  <2> QED
    BY <2>3, <2>4, <2>5 DEF DeliversInOrder
<1>7. CASE UNCHANGED Facts!channelVars
  BY <1>7 DEF Facts!channelVars, DeliversInOrder, Facts!ChannelTypeOK, Facts!InOrder, Facts!Bounded, OpensLate
<1> QED
  BY <1>1, <1>2, <1>3, <1>4, <1>5, <1>6, <1>7 DEF Facts!ChannelNext

\* The constants are as the channel expects them.
LEMMA ChannelConstants == Facts!ChannelAssumption
BY QueueSizeAssumption, StampAssumption DEF Facts!ChannelAssumption, Stamps

\* Both views of the channel are the same.
LEMMA ChannelFactsStep ==
  ASSUME ChannelStep
  PROVE  [Facts!ChannelNext]_(Facts!channelVars)
<1>1. CASE UNCHANGED Channel!channelVars
  BY <1>1 DEF Channel!channelVars, Facts!channelVars, Seen, Opened, Leaked, Batch, Floor
<1>2. CASE Channel!ChannelNext
  <2>1. ASSUME NEW f \in SlotContents, Channel!Put(f) PROVE Facts!Put(f)
    BY <2>1 DEF Channel!Put, Facts!Put, Seen, Opened, Leaked, Batch, Floor
  <2>2. ASSUME NEW f \in SlotContents, Channel!Leak(f) PROVE Facts!Leak(f)
    BY <2>2 DEF Channel!Leak, Facts!Leak, Seen, Opened, Leaked, Batch, Floor
  <2>3. Channel!Lose => Facts!Lose
    BY DEF Channel!Lose, Facts!Lose, Seen, Opened, Leaked, Batch, Floor
  <2>4. ASSUME NEW n, Channel!Take(n) PROVE Facts!Take(n)
    BY <2>4 DEF Channel!Take, Facts!Take, Seen, Opened, Leaked, Batch, Floor
  <2>5. Channel!Open => Facts!Open
    BY DEF Channel!Open, Facts!Open, Seen, Opened, Leaked, Batch, Floor
  <2>6. Channel!Close => Facts!Close
    BY DEF Channel!Close, Facts!Close, Seen, Opened, Leaked, Batch, Floor
  <2> QED
    BY <1>2, <2>1, <2>2, <2>3, <2>4, <2>5, <2>6
    DEF Channel!ChannelNext, Facts!ChannelNext, Channel!Frame, Facts!Frame, SlotContents, Seen
<1> QED
  BY <1>1, <1>2 DEF ChannelStep

\* What the channel's invariant says of the queue.
LEMMA FactsStart ==
  ASSUME Channel!ChannelInit
  PROVE  DeliversInOrder
<1>1. Facts!ChannelInit
  BY DEF Channel!ChannelInit, Facts!ChannelInit, Seen, Opened, Leaked, Batch, Floor
<1> QED
  BY <1>1, ChannelConstants, OrderStarts

\* So the channel's own invariant holds of what the system shows.
LEMMA FactsStep ==
  ASSUME DeliversInOrder, ChannelStep
  PROVE  DeliversInOrder'
BY ChannelFactsStep, ChannelConstants, OrderStep

\* After startAcquisition has returned, and until the next stop or start, the
\* queue holds only whole frames of this run, in order: the channel's own theorem,
\* read through the refinement.
THEOREM QueueIsFresh ==
  ASSUME MaxSpill = 0, MaxPacked < 2 * N, SleepSuffices
  PROVE  Spec => []FramesAreFresh
<1> DEFINE Both == ChannelIInv /\ DeliversInOrder
<1>1. Init => Both
  BY ChannelStarts, FactsStart
<1>2. Both /\ [Next]_vars => Both'
  <2> SUFFICES ASSUME Both, [Next]_vars
               PROVE  ChannelIInv' /\ DeliversInOrder'
    OBVIOUS
  <2>1. RingInv'
    BY RingStep DEF ChannelIInv
  <2>2. Stream' /\ Fresh' /\ Leaking'
    BY StreamStep
  <2>3. ChannelStep
    BY <2>1, SystemInChannel DEF RingInv
  <2> QED
    BY <2>1, <2>2, <2>3, FactsStep DEF ChannelIInv
<1>3. Both => FramesAreFresh
  <2> SUFFICES ASSUME Both, acquisitionMode # 0, ~Settling
               PROVE  /\ \A i \in 1 .. Queued : /\ UnreadFrames[i].whole
                                                /\ UnreadFrames[i].head >= runStart
                      /\ \A i, j \in 1 .. Queued : i < j => UnreadFrames[i].head < UnreadFrames[j].head
    BY DEF FramesAreFresh, Before
  <2>1. Opened /\ Seen = UnreadFrames /\ Len(UnreadFrames) = Queued
    BY FramesType DEF Opened, Seen, Settling, ChannelIInv, RingInv
  <2>2. Facts!InOrder
    BY DEF DeliversInOrder
  <2> QED
    BY <2>1, <2>2 DEF Facts!InOrder
<1> QED
  BY <1>1, <1>2, <1>3, PTL DEF Spec

-----------------------------------------------------------------------------
(* What acquire has read of a block.                                       *)

\* The frame before the read cursor is the last one read; there is at least one
\* in every block, as the queue has room for two and more frames are needed.
Reader ==
  client \in {"read", "set"} /\ op = "acquire" =>
    /\ blockWr # dataFrameReadPointer
    /\ client = "set" => blockRd = blockWr
    /\ \/ client = "read" /\ blockRd = dataFrameReadPointer
       \/ lastRead = dataFrameSharedMemory[SlotOf(blockRd + N - 1)]

Needs == client = "get" /\ op = "acquire" => currentFrame < stopFrame

ReaderIInv == RingInv /\ Reader /\ Needs

\* The frames of the block that have been read are still queued.
LEMMA ReadFramesStay ==
  ASSUME MaxSpill = 0, RingInv, client \in {"read", "set"}, op = "acquire", Reader,
         blockRd # dataFrameReadPointer
  PROVE  SlotOf(blockRd + N - 1) \in Unread
<1>t. /\ blockRd \in Pointers /\ blockWr \in Pointers
      /\ dataFrameReadPointer \in Pointers /\ dataFrameWritePointer \in Pointers
  BY DEF RingInv, TypeOK, DAQTypeOK, ServerTypeOK, ClientTypeOK
<1>1. Occupancy(blockWr, dataFrameReadPointer) <= Queued /\ Queued <= N
  BY DEF RingInv, BlockEndIsQueued, NeverOverfull
<1>2. Occupancy(blockWr, blockRd) <= Occupancy(blockWr, dataFrameReadPointer)
  <2>1. CASE client = "read"
    BY <2>1 DEF RingInv, CursorInBlock
  <2>2. CASE client = "set"
    <3>1. Occupancy(blockWr, blockRd) = 0
      BY <2>2, <1>t, QueueSizeAssumption, SMT DEF Reader, Occupancy, Pointers
    <3> QED
      BY <1>t, <3>1, OccupancyType
  <2> QED
    BY <2>1, <2>2
<1>3. PICK k \in 1 .. Queued : SlotOf(blockRd + N - 1) = SlotOf(dataFrameReadPointer + k - 1)
  <2>1. PICK k : k = Occupancy(blockRd, dataFrameReadPointer)
    OBVIOUS
  <2>2. k \in 1 .. Occupancy(blockWr, dataFrameReadPointer)
    BY <1>t, <1>2, <2>1, QueueSizeAssumption, SMT DEF Occupancy, Pointers
  <2>3. k = blockRd - dataFrameReadPointer \/ k = blockRd - dataFrameReadPointer + 2 * N
    BY <1>t, <2>1, QueueSizeAssumption, SMT DEF Occupancy, Pointers
  <2>4. SlotOf(blockRd + N - 1) = SlotOf(dataFrameReadPointer + k - 1)
    <3>1. CASE k = blockRd - dataFrameReadPointer
      <4>1. PICK x \in 0 .. 4 * N : x = dataFrameReadPointer + k - 1
        BY <1>t, <3>1, <2>2, QueueSizeAssumption DEF Pointers
      <4>2. blockRd + N - 1 = x + N
        BY <1>t, <3>1, <4>1, QueueSizeAssumption DEF Pointers
      <4> QED
        BY <4>1, <4>2, SlotsRepeatOnce
    <3>2. CASE k = blockRd - dataFrameReadPointer + 2 * N
      <4>1. PICK x \in 0 .. 4 * N : x = blockRd + N - 1
        BY <1>t, QueueSizeAssumption DEF Pointers
      <4>2. dataFrameReadPointer + k - 1 = x + N
        BY <1>t, <3>2, <4>1, QueueSizeAssumption DEF Pointers
      <4> QED
        BY <4>1, <4>2, SlotsRepeatOnce
    <3> QED
      BY <2>3, <3>1, <3>2
  <2>5. Queued \in Nat /\ Occupancy(blockWr, dataFrameReadPointer) \in Nat
    BY <1>t, OccupancyType, FramesType, QueueSizeAssumption DEF RingInv
  <2> QED
    BY <1>1, <2>2, <2>4, <2>5
<1> QED
  BY <1>3, FramesType DEF RingInv

\* The worker changes no frame of the queue.
LEMMA WorkerKeepsFrames ==
  ASSUME MaxSpill = 0, RingInv, WorkerStep
  PROVE  /\ UNCHANGED <<clientVars, dataFrameReadPointer, minimumFrameID, main, server>>
         /\ \A s \in Unread : dataFrameSharedMemory'[s] = dataFrameSharedMemory[s]
<1> USE DEF serverVars, queueVars, cardVars, workerVars
<1>1. UNCHANGED <<clientVars, dataFrameReadPointer, minimumFrameID, main, server>>
  BY DEF WorkerStep, Worker, Receiver, ReadHeader, ReadBadHeader, ReceiveDatagram, ReadMode, GetSlot,
    TestMode, RejectDatagram, CompareMinimum, WorkerExit, ReceiverExit, WriteHeader, CopyHeader, WriteWords,
    CopyWords, RejectFrame, PublishFrame, PublishCopy
<1>2. CASE WriteHeader \/ CopyHeader \/ WriteWords \/ CopyWords \/ RejectFrame
  <2>1. worker \in {"header", "words"} /\ UNCHANGED queueVars
    BY <1>2 DEF WriteHeader, CopyHeader, WriteWords, CopyWords, RejectFrame
  <2>2. PICK c : \E k \in {0, spill} : WriteSlot(c, k)
    BY <1>2 DEF WriteHeader, CopyHeader, WriteWords, CopyWords, RejectFrame
  <2>3. Holding \/ dataFrame = DevNull
    BY <2>1 DEF Holding
  <2> QED
    BY <1>1, <2>1, <2>2, <2>3, FramesSurvive
<1>3. CASE ~(WriteHeader \/ CopyHeader \/ WriteWords \/ CopyWords \/ RejectFrame)
  <2>1. dataFrameSharedMemory' = dataFrameSharedMemory
    BY <1>3 DEF WorkerStep, Worker, Receiver, ReadHeader, ReadBadHeader, ReceiveDatagram, ReadMode, GetSlot,
      TestMode, RejectDatagram, CompareMinimum, WorkerExit, ReceiverExit, PublishFrame, PublishCopy
  <2> QED
    BY <1>1, <2>1
<1> QED
  BY <1>2, <1>3

\* What is read stays as it is while neither the client nor the read pointer moves.
LEMMA ReaderKept ==
  ASSUME MaxSpill = 0, ReaderIInv, UNCHANGED <<clientVars, dataFrameReadPointer>>,
         \A s \in Unread : dataFrameSharedMemory'[s] = dataFrameSharedMemory[s]
  PROVE  Reader' /\ Needs'
<1>1. Needs'
  BY DEF ReaderIInv, Needs, clientVars
<1>2. CASE client \in {"read", "set"} /\ op = "acquire" /\ blockRd # dataFrameReadPointer
  <2>1. SlotOf(blockRd + N - 1) \in Unread
    BY <1>2, ReadFramesStay DEF ReaderIInv
  <2> QED
    BY <1>1, <2>1 DEF ReaderIInv, Reader, clientVars
<1>3. CASE ~(client \in {"read", "set"} /\ op = "acquire" /\ blockRd # dataFrameReadPointer)
  BY <1>1, <1>3 DEF ReaderIInv, Reader, clientVars
<1> QED
  BY <1>2, <1>3

\* No step of any thread breaks this.
LEMMA ReaderStep ==
  ASSUME MaxSpill = 0, N > 1, ReaderIInv, [Next]_vars
  PROVE  Reader' /\ Needs'
<1>t. /\ blockRd \in Pointers /\ blockWr \in Pointers
      /\ dataFrameReadPointer \in Pointers /\ dataFrameWritePointer \in Pointers
      /\ currentFrame \in Nat /\ stopFrame \in Nat
  BY StampAssumption DEF ReaderIInv, RingInv, TypeOK, DAQTypeOK, ServerTypeOK, ClientTypeOK, Stamps
<1>1. CASE Call
  BY <1>1 DEF Call, CallDecode, CallMode, CallSync, GoTo, Reader, Needs
<1>2. CASE ClientLocal
  <2>1. CASE ReadFrame /\ op = "acquire"
    <3>1. /\ client = "read" /\ client' = client /\ op' = op /\ blockRd # blockWr /\ blockWr' = blockWr
          /\ lastRead' = dataFrameSharedMemory[SlotOf(blockRd)] /\ blockRd' = Forward(blockRd, 1)
          /\ UNCHANGED serverVars
      BY <2>1 DEF ReadFrame, MoreToRead
    <3>2. SlotOf(blockRd' + N - 1) = SlotOf(blockRd)
      <4>1. CASE blockRd = 2 * N - 1
        <5>1. blockRd' = 0
          BY <3>1, <4>1, QueueSizeAssumption, SMT DEF Forward
        <5>2. N - 1 \in 0 .. 4 * N /\ (N - 1) + N = blockRd /\ blockRd' + N - 1 = N - 1
          BY <4>1, <5>1, QueueSizeAssumption
        <5> QED
          BY <5>2, SlotsRepeatOnce
      <4>2. CASE blockRd # 2 * N - 1
        <5>1. blockRd' = blockRd + 1
          BY <1>t, <3>1, <4>2, QueueSizeAssumption, SMT DEF Forward, Pointers
        <5>2. blockRd \in 0 .. 4 * N /\ blockRd' + N - 1 = blockRd + N
          BY <1>t, <5>1, QueueSizeAssumption DEF Pointers
        <5> QED
          BY <5>2, SlotsRepeatOnce
      <4> QED
        BY <4>1, <4>2
    <3> QED
      BY <2>1, <3>1, <3>2 DEF ReaderIInv, Reader, Needs, serverVars, queueVars
  <2>2. CASE ReadFrame /\ op # "acquire"
    BY <2>2 DEF ReadFrame, Reader, Needs
  <2>3. CASE EndOfBlock
    BY <2>3 DEF EndOfBlock, MoreToRead, GoTo, ReaderIInv, Reader, Needs, serverVars, queueVars
  <2> QED
    BY <1>2, <2>1, <2>2, <2>3 DEF ClientLocal, LocalSteps
<1>3. CASE Serve
  <2>1. CASE SyncSetMinimum \/ SyncGetPointers \/ SyncSetPointer
    BY <2>1 DEF SyncSetMinimum, SyncGetPointers, SyncSetPointer, GoTo, Return, Reader, Needs
  <2>2. CASE FirstFrame
    <3>1. /\ client' = "get" /\ currentFrame' = HeadAt(dataFrameReadPointer)
          /\ \E n \in RequiredFrames : stopFrame' = HeadAt(dataFrameReadPointer) + n
      BY <2>2 DEF FirstFrame
    <3>2. HeadAt(dataFrameReadPointer) \in Nat
      BY <1>t, PointerTypes, StampAssumption
      DEF HeadAt, SlotContents, Stamps, ReaderIInv, RingInv, TypeOK, DAQTypeOK, ServerTypeOK
    <3> QED
      BY <3>1, <3>2, ClientAssumption DEF Reader, Needs
  <2>3. CASE GetBlock /\ op = "acquire"
    <3>1. PICK size : /\ size \in BlockSizes(Queued, CappedBlock(dataFrameWritePointer, dataFrameReadPointer),
                                             stopFrame - currentFrame)
                      /\ blockWr' = Forward(dataFrameReadPointer, size)
      BY <2>3 DEF GetBlock, Queued
    <3>2. /\ client' = "read" /\ op' = op /\ blockRd' = dataFrameReadPointer
          /\ dataFrameReadPointer' = dataFrameReadPointer
          /\ dataFrameWritePointer # dataFrameReadPointer
      BY <2>3 DEF GetBlock, serverVars, queueVars
    <3>3. stopFrame - currentFrame >= 1
      BY <1>t, <2>3 DEF GetBlock, ReaderIInv, Needs
    <3>4. /\ CappedBlock(dataFrameWritePointer, dataFrameReadPointer) \in 1 .. Queued
          /\ Queued <= N
      <4>1. Queued >= 1 /\ Queued <= N /\ Queued \in Int
        <5>1. Queued <= N
          BY DEF ReaderIInv, RingInv, NeverOverfull
        <5>2. Queued >= 1 /\ Queued \in Int
          BY <1>t, <3>2, QueueSizeAssumption, SMT DEF Queued, Occupancy, Pointers
        <5> QED
          BY <5>1, <5>2
      <4>2. FramesInBlock(dataFrameWritePointer, dataFrameReadPointer) = Queued
        BY <1>t, <4>1, ClientCountsFrames DEF Queued
      <4>3. N \div 2 >= 1 /\ N \div 2 <= N /\ N \div 2 \in Int
        BY QueueSizeAssumption, SMT
      <4>4. CASE FramesInBlock(dataFrameWritePointer, dataFrameReadPointer) > N \div 2
        <5>1. CappedBlock(dataFrameWritePointer, dataFrameReadPointer) = N \div 2
          BY <4>4 DEF CappedBlock
        <5>2. N \div 2 <= Queued
          BY <4>1, <4>2, <4>3, <4>4
        <5> QED
          BY <4>1, <4>3, <5>1, <5>2
      <4>5. CASE ~(FramesInBlock(dataFrameWritePointer, dataFrameReadPointer) > N \div 2)
        <5>1. CappedBlock(dataFrameWritePointer, dataFrameReadPointer) = Queued
          BY <4>2, <4>5 DEF CappedBlock
        <5> QED
          BY <4>1, <5>1
      <4> QED
        BY <4>4, <4>5
    <3>5. size \in 1 .. Queued
      <4>1. PICK capped : capped = CappedBlock(dataFrameWritePointer, dataFrameReadPointer)
        OBVIOUS
      <4>2. size = IF capped > stopFrame - currentFrame THEN stopFrame - currentFrame ELSE capped
        BY <2>3, <3>1, <4>1 DEF BlockSizes
      <4>3. capped \in 1 .. Queued /\ stopFrame - currentFrame \in Int /\ Queued \in Nat
        BY <1>t, <3>4, <4>1, FramesType DEF ReaderIInv, RingInv
      <4> QED
        BY <3>3, <4>2, <4>3
    <3>6. blockWr' # dataFrameReadPointer
      <4>1. Occupancy(Forward(dataFrameReadPointer, size), dataFrameReadPointer) = size
        <5>1. size \in 0 .. Occupancy(dataFrameWritePointer, dataFrameReadPointer)
          BY <3>5 DEF Queued
        <5> QED
          BY <1>t, <5>1, BlockSplits
      <4>2. Occupancy(dataFrameReadPointer, dataFrameReadPointer) = 0
        BY <1>t, QueueSizeAssumption, SMT DEF Occupancy, Pointers
      <4> QED
        BY <3>1, <3>5, <4>1, <4>2
    <3> QED
      BY <3>2, <3>6 DEF Reader, Needs
  <2>4. CASE GetBlock /\ op # "acquire"
    BY <2>4 DEF GetBlock, Reader, Needs
  <2>5. CASE SetReadPointer
    <3>1. CASE op = "decode" \/ HeadAt(blockWr + N - 1) >= stopFrame
      BY <2>5, <3>1 DEF SetReadPointer, Return, Reader, Needs
    <3>2. CASE ~(op = "decode" \/ HeadAt(blockWr + N - 1) >= stopFrame)
      <4>1. HeadAt(blockWr + N - 1) \in Nat
        <5>1. SlotOf(blockWr + N - 1) \in Slots
          BY <1>t, QueueSizeAssumption, SMT DEF SlotOf, Slots, Pointers
        <5> QED
          BY <5>1, StampAssumption
          DEF HeadAt, SlotContents, Stamps, ReaderIInv, RingInv, TypeOK, DAQTypeOK, ServerTypeOK
      <4>2. /\ client' = "get" /\ currentFrame' = HeadAt(blockWr + N - 1) /\ stopFrame' = stopFrame
            /\ HeadAt(blockWr + N - 1) < stopFrame
        BY <1>t, <2>5, <3>2, <4>1 DEF SetReadPointer
      <4> QED
        BY <4>2 DEF Reader, Needs
    <3> QED
      BY <3>1, <3>2
  <2> QED
    BY <1>3, <2>1, <2>2, <2>3, <2>4, <2>5 DEF Serve, Requests
<1>4. CASE BeginStart \/ WipeOnce \/ WipeAgain \/ BeginStop \/ EndStop
  BY <1>4 DEF BeginStart, WipeOnce, FirstWipe, WipeAgain, SecondWipe, BeginStop, EndStop, StopWipe,
     WipeOfReceiver, Return, clientVars, Reader, Needs, ReaderIInv, RingInv, RequestIsServed, Settling
<1>5. CASE Shutdown \/ CardStep \/ UNCHANGED vars
  BY <1>5, ReaderKept DEF Shutdown, StopWorker, JoinWorker, CardStep, GenerateFrame, vars, serverVars, queueVars
<1>6. CASE WorkerStep
  BY <1>6, WorkerKeepsFrames, ReaderKept DEF ReaderIInv
<1> QED
  BY <1>1, <1>2, <1>3, <1>4, <1>5, <1>6 DEF Next, MainStep

\* Every frame of a block that acquire hands back has been read, the last one last,
\* and it is still in its slot then, so that the current frame is taken from it.
THEOREM BlocksAreRead ==
  ASSUME MaxSpill = 0, N > 1
  PROVE  Spec => []BlockWasRead
<1>1. Init => ReaderIInv
  BY RingInit DEF Init, ClientInit, ReaderIInv, Reader, Needs
<1>2. ReaderIInv /\ [Next]_vars => ReaderIInv'
  BY RingStep, ReaderStep DEF ReaderIInv
<1>3. ReaderIInv => BlockWasRead
  BY DEF ReaderIInv, Reader, BlockWasRead
<1> QED
  BY <1>1, <1>2, <1>3, PTL DEF Spec

-----------------------------------------------------------------------------
(* What a synchronisation leaves in the queue of a server of datagrams.    *)

\* The request has set the minimum and is at work, or the reading after it.
Synchronised ==
  /\ server = "UDP" /\ op \in {"sync", "acquire", "bytes"}
  /\ client \in {"flushGet", "flushSet", "first", "get", "read", "set"}
MinimumIsSet == Synchronised => minimumFrameID = target

\* The receiver has the header of its frame in its slot.
CopyIsHeld ==
  server = "UDP" /\ Holding /\ worker # "header" => dataFrameSharedMemory[dataFrame].head = head

\* The frames older than the target that are, or will be, behind the flush.
Flushed == IF client = "flushSet" THEN Occupancy(blockWr, dataFrameReadPointer) ELSE 0
OldFrames == { i \in 1 .. Queued : i > Flushed /\ UnreadFrames[i].head < target }

\* What the receiver publishes next may be old: it had compared its frame with the
\* previous minimum, or a wipe has moved the pointer away from its slot.
Doubtful ==
  /\ Holding
  /\ dataFrame # SlotOf(dataFrameWritePointer) \/ (worker = "publish" /\ head < target)

OneIsOld ==
  Synchronised /\ client # "flushGet" =>
    /\ \A i, j \in OldFrames : i = j
    /\ Doubtful => OldFrames = {}

SyncIInv == RingInv /\ MinimumIsSet /\ CopyIsHeld /\ OneIsOld

\* A step that moves neither a pointer nor a frame, nor the flush.
LEMMA SyncKept ==
  ASSUME SyncIInv, UNCHANGED <<server, op, target, minimumFrameID, queueVars, dataFrame>>,
         UnreadFrames' = UnreadFrames,
         \/ client' = client /\ blockWr' = blockWr
         \/ {client, client'} \subseteq {"first", "get", "read", "set"},
         Doubtful' => Doubtful
  PROVE  MinimumIsSet' /\ OneIsOld'
<1>1. Flushed' = Flushed /\ Queued' = Queued
  BY DEF Flushed, queueVars, Queued
<1>2. OldFrames' = OldFrames
  BY <1>1 DEF OldFrames
<1> QED
  BY <1>2 DEF SyncIInv, MinimumIsSet, OneIsOld, Synchronised

\* Frames are handed back, at the flush or after a block: the old ones of what
\* remains were old before.
LEMMA SyncHandsBack ==
  ASSUME SyncIInv, client \in {"flushSet", "set"}, SetDataFrameReadPointer(blockWr),
         client' \notin {"flushGet", "flushSet"},
         UNCHANGED <<server, worker, head>>, client' # "idle" => UNCHANGED <<op, target>>
  PROVE  client' \in {"first", "get", "read", "set"} => MinimumIsSet' /\ OneIsOld'
<1> SUFFICES ASSUME client' \in {"first", "get", "read", "set"}
             PROVE  MinimumIsSet' /\ OneIsOld'
  OBVIOUS
<1>t. TypeOK /\ blockWr \in Pointers
  BY DEF SyncIInv, RingInv, TypeOK, ClientTypeOK
<1>1. /\ dataFrameReadPointer' = blockWr /\ dataFrameWritePointer' = dataFrameWritePointer
      /\ dataFrameSharedMemory' = dataFrameSharedMemory /\ minimumFrameID' = minimumFrameID
      /\ dataFrame' = dataFrame /\ op' = op /\ target' = target
  BY <1>t, ZeroPointer DEF SetDataFrameReadPointer
<1>2. Occupancy(blockWr, dataFrameReadPointer) <= Queued
  BY DEF SyncIInv, RingInv, BlockEndIsQueued
<1>3. PICK k : k = Occupancy(blockWr, dataFrameReadPointer)
  OBVIOUS
<1>4. /\ k \in 0 .. Queued /\ Queued' = Queued - k
      /\ UnreadFrames' = SubSeq(UnreadFrames, k + 1, Len(UnreadFrames))
  BY <1>t, <1>1, <1>2, <1>3, FramesHandedBack
<1>5. Queued \in Nat /\ UnreadFrames \in Seq(SlotContents) /\ Len(UnreadFrames) = Queued
  BY <1>t, FramesType
<1>6. \A i \in 1 .. Queued - k : UnreadFrames'[i] = UnreadFrames[i + k]
  BY <1>4, <1>5
<1>7. Flushed' = 0 /\ Flushed \in {0, k}
  BY <1>3 DEF Flushed
<1>8. \A i \in OldFrames' : i \in Int /\ i + k \in OldFrames
  BY <1>1, <1>4, <1>5, <1>6, <1>7 DEF OldFrames
<1>9. MinimumIsSet'
  BY <1>1 DEF SyncIInv, MinimumIsSet, Synchronised
<1>10. CASE Synchronised'
  <2>1. Synchronised /\ client # "flushGet"
    BY <1>1, <1>10 DEF Synchronised
  <2>2. /\ \A i, j \in OldFrames : i = j
        /\ Doubtful => OldFrames = {}
    BY <2>1 DEF SyncIInv, OneIsOld
  <2>3. Doubtful' => Doubtful
    BY <1>1 DEF Doubtful, Holding
  <2>4. \A i, j \in OldFrames' : i = j
    BY <1>4, <1>8, <2>2
  <2>5. Doubtful => OldFrames' = {}
    BY <1>8, <2>2
  <2> QED
    BY <1>9, <2>3, <2>4, <2>5 DEF OneIsOld
<1> QED
  BY <1>9, <1>10 DEF OneIsOld

\* The receiver publishes its slot: the frame is old only if that was in doubt.
LEMMA SyncPublishes ==
  ASSUME SyncIInv, server = "UDP", PublishCopy, UNCHANGED clientVars
  PROVE  MinimumIsSet' /\ OneIsOld'
<1>t. TypeOK /\ SlotOf(dataFrameWritePointer) \in Slots
  BY PointerTypes DEF SyncIInv, RingInv, TypeOK, DAQTypeOK, ServerTypeOK
<1>1. /\ dataFrameReadPointer' = dataFrameReadPointer /\ dataFrameSharedMemory' = dataFrameSharedMemory
      /\ minimumFrameID' = minimumFrameID /\ server' = server /\ dataFrame' = DevNull
      /\ client' = client /\ op' = op /\ target' = target /\ blockWr' = blockWr
      /\ worker = "publish"
  BY DEF PublishCopy, PublishSlot, cardVars, clientVars
<1>2. MinimumIsSet'
  BY <1>1 DEF SyncIInv, MinimumIsSet, Synchronised
<1>3. ~Doubtful' /\ Flushed' = Flushed
  BY <1>1 DEF Doubtful, Holding, Flushed
<1>4. CASE dataFrame = DevNull
  <2>1. dataFrameWritePointer' = dataFrameWritePointer
    BY <1>4 DEF PublishCopy, PublishSlot
  <2>2. UnreadFrames' = UnreadFrames /\ Queued' = Queued
    BY <1>1, <2>1 DEF UnreadFrames, Queued
  <2>3. OldFrames' = OldFrames
    BY <1>1, <1>3, <2>2 DEF OldFrames
  <2> QED
    BY <1>1, <1>2, <1>3, <2>3 DEF SyncIInv, OneIsOld, Synchronised
<1>5. CASE dataFrame # DevNull
  <2>1. Holding /\ dataFrameWritePointer' = Forward(dataFrameWritePointer, 1)
    BY <1>1, <1>5 DEF Holding, PublishCopy, PublishSlot
  <2>2. Queued < N
    BY <2>1, QueueSizeAssumption DEF SyncIInv, RingInv, HeldSlotIsNext
  <2>f. PICK f : f = dataFrameSharedMemory[SlotOf(dataFrameWritePointer)]
    OBVIOUS
  <2>3. Queued' = Queued + 1 /\ UnreadFrames' = Append(UnreadFrames, f)
    BY <1>t, <1>1, <2>1, <2>2, <2>f, FramePublished
  <2>4. /\ Queued \in Nat /\ UnreadFrames \in Seq(SlotContents) /\ Len(UnreadFrames) = Queued
        /\ f \in SlotContents
    BY <1>t, <2>f, FramesType DEF TypeOK, DAQTypeOK, ServerTypeOK
  <2>5. /\ \A i \in 1 .. Queued : UnreadFrames'[i] = UnreadFrames[i]
        /\ UnreadFrames'[Queued + 1] = f
    BY <2>3, <2>4
  <2>6. OldFrames' \subseteq OldFrames \cup {Queued + 1}
    BY <1>1, <1>3, <2>3, <2>4, <2>5 DEF OldFrames
  <2>7. CASE Synchronised' /\ client' # "flushGet"
    <3>1. Synchronised /\ client # "flushGet"
      BY <1>1, <2>7 DEF Synchronised
    <3>2. /\ \A i, j \in OldFrames : i = j
          /\ Doubtful => OldFrames = {}
      BY <3>1 DEF SyncIInv, OneIsOld
    <3>3. CASE Doubtful
      <4>1. \A i \in OldFrames' : i = Queued + 1
        BY <2>6, <3>2, <3>3
      <4>2. \A i, j \in OldFrames' : i = j
        BY <4>1
      <4> QED
        BY <1>2, <1>3, <4>2 DEF OneIsOld
    <3>4. CASE ~Doubtful
      <4>1. f.head = head /\ ~(head < target)
        BY <1>1, <2>1, <2>f, <3>4 DEF SyncIInv, CopyIsHeld, Doubtful
      <4>2. Queued + 1 \notin OldFrames'
        <5>1. \A i \in OldFrames' : UnreadFrames'[i].head < target'
          BY DEF OldFrames
        <5> QED
          BY <1>1, <2>5, <4>1, <5>1
      <4>3. \A i, j \in OldFrames' : i = j
        BY <2>6, <3>2, <4>2
      <4> QED
        BY <1>2, <1>3, <4>3 DEF OneIsOld
    <3> QED
      BY <3>3, <3>4
  <2> QED
    BY <1>2, <2>7 DEF OneIsOld
<1> QED
  BY <1>4, <1>5

\* The header in the receiver's slot is its frame's.
LEMMA CopyIsHeldStep ==
  ASSUME MaxSpill = 0, SyncIInv, [Next]_vars
  PROVE  CopyIsHeld'
<1> USE DEF serverVars, queueVars, cardVars, workerVars
<1>1. CASE WorkerStep
  <2>1. server' = server
    BY <1>1, WorkerKeepsFrames DEF SyncIInv
  <2>2. CASE server = "UDP"
    <3>1. Receiver
      BY <1>1, <2>2 DEF WorkerStep
    <3>2. CASE ReceiveDatagram \/ TestMode \/ GetSlot \/ RejectDatagram \/ CompareMinimum \/ PublishCopy
                 \/ ReceiverExit
      BY <3>2 DEF SyncIInv, RingInv, SlotsAreReturned, CopyIsHeld, Holding, ReceiveDatagram, TestMode, GetSlot,
         RejectDatagram, CompareMinimum, PublishCopy, PublishSlot, NextOfDatagram, ReceiverExit
    <3>3. CASE CopyHeader \/ CopyWords
      <4>1. /\ worker \in {"header", "words"} /\ dataFrame' = dataFrame /\ head' = head /\ UNCHANGED queueVars
            /\ \E c, k : c.head = head /\ k \in {0, spill} /\ WriteSlot(c, k)
        BY <3>3 DEF CopyHeader, CopyWords
      <4>2. PICK c, k : c.head = head /\ k \in {0, spill} /\ WriteSlot(c, k)
        BY <4>1
      <4>3. Holding \/ dataFrame = DevNull
        BY <4>1 DEF Holding
      <4>4. dataFrame # DevNull => dataFrameSharedMemory'[dataFrame] = c
        BY <4>1, <4>2, <4>3, FramesSurvive DEF SyncIInv
      <4> QED
        BY <4>1, <4>2, <4>4 DEF CopyIsHeld, Holding
    <3> QED
      BY <3>1, <3>2, <3>3 DEF Receiver
  <2> QED
    BY <2>1, <2>2 DEF CopyIsHeld
<1>2. CASE ~WorkerStep
  <2>1. UNCHANGED <<server, worker, head, dataFrame, dataFrameSharedMemory>>
    BY <1>2 DEF Next, Call, CallDecode, CallMode, CallSync, ClientLocal, LocalSteps, ReadFrame, EndOfBlock,
       MainStep, Serve, Requests, SyncSetMinimum, SetMinimumFrameID, SyncGetPointers, SyncSetPointer,
       SetDataFrameReadPointer, FirstFrame, GetBlock, SetReadPointer, BeginStart, RestartCard,
       FirstWipeOfReceiver, StartAcquisitionFirstWipe, WipeOnce, FirstWipe, WipeAgain, SecondWipe,
       StartAcquisitionSecondWipe, BeginStop, StopCard, EndStop, StopWipe, WipeOfReceiver, StopAcquisition,
       Shutdown, StopWorker, JoinWorker, CardStep, GenerateFrame, vars
  <2> QED
    BY <2>1 DEF SyncIInv, CopyIsHeld, Holding
<1> QED
  BY <1>1, <1>2

\* No step of any thread breaks this.
LEMMA SyncStep ==
  ASSUME MaxSpill = 0, SyncIInv, [Next]_vars
  PROVE  MinimumIsSet' /\ OneIsOld'
<1> DEFINE Outside == client' \notin {"flushGet", "flushSet", "first", "get", "read", "set"}
                        \/ op' \notin {"sync", "acquire", "bytes"}
<1>o. Outside => MinimumIsSet' /\ OneIsOld'
  BY DEF MinimumIsSet, OneIsOld, Synchronised
<1>k. ASSUME UNCHANGED <<server, op, target, minimumFrameID, queueVars, dataFrame, dataFrameSharedMemory,
                         worker, head>>,
             \/ client' = client /\ blockWr' = blockWr
             \/ {client, client'} \subseteq {"first", "get", "read", "set"}
      PROVE  MinimumIsSet' /\ OneIsOld'
  <2>1. UnreadFrames' = UnreadFrames
    BY <1>k DEF UnreadFrames, Queued, queueVars
  <2>2. Doubtful' => Doubtful
    BY <1>k DEF Doubtful, Holding, queueVars
  <2> QED
    BY <1>k, <2>1, <2>2, SyncKept
<1> USE DEF serverVars, queueVars, cardVars, workerVars, clientVars
<1>1. CASE Call
  BY <1>1, <1>o DEF Call, CallDecode, CallMode, CallSync, GoTo
<1>2. CASE ClientLocal
  BY <1>2, <1>k DEF ClientLocal, LocalSteps, ReadFrame, EndOfBlock, GoTo
<1>3. CASE Serve
  <2> USE DEF Serve
  <2>1. CASE SyncSetMinimum
    BY <2>1, <1>3 DEF SyncSetMinimum, SetMinimumFrameID, GoTo, MinimumIsSet, OneIsOld
  <2>2. CASE SyncGetPointers
    <3>1. /\ client = "flushGet" /\ client' = "flushSet" /\ blockWr' = dataFrameWritePointer
          /\ UNCHANGED <<server, op, target, minimumFrameID, queueVars>>
      BY <1>3, <2>2 DEF SyncGetPointers
    <3>2. Flushed' = Queued'
      BY <3>1 DEF Flushed, Queued
    <3>3. OldFrames' = {}
      <4>1. Queued \in Nat /\ Queued' = Queued
        BY <3>1, FramesType DEF SyncIInv, RingInv, Queued
      <4> QED
        BY <3>2, <4>1 DEF OldFrames
    <3> QED
      BY <3>1, <3>3 DEF SyncIInv, MinimumIsSet, OneIsOld, Synchronised
  <2>3. CASE SyncSetPointer
    <3>1. /\ client = "flushSet" /\ SetDataFrameReadPointer(blockWr)
      BY <2>3 DEF SyncSetPointer
    <3>2. UNCHANGED <<server, worker, head>>
      BY <1>3
    <3>3. \/ client' = "idle"
          \/ client' = "first" /\ UNCHANGED <<op, target>>
      BY <2>3 DEF SyncSetPointer, Return, GoTo
    <3> QED
      BY <3>1, <3>2, <3>3, <1>o, SyncHandsBack
  <2>4. CASE FirstFrame \/ GetBlock
    BY <1>3, <2>4, <1>k DEF FirstFrame, GetBlock
  <2>5. CASE SetReadPointer
    <3>1. /\ client = "set" /\ SetDataFrameReadPointer(blockWr)
      BY <2>5 DEF SetReadPointer
    <3>2. UNCHANGED <<server, worker, head>>
      BY <1>3
    <3>3. \/ client' = "idle"
          \/ client' = "get" /\ UNCHANGED <<op, target>>
      BY <2>5 DEF SetReadPointer, Return
    <3> QED
      BY <3>1, <3>2, <3>3, <1>o, SyncHandsBack
  <2> QED
    BY <1>3, <2>1, <2>2, <2>3, <2>4, <2>5 DEF Requests
<1>4. CASE BeginStart \/ WipeOnce \/ WipeAgain \/ BeginStop \/ EndStop
  <2>1. client' \in {"start", "stop", "idle"}
    BY <1>4 DEF BeginStart, WipeOnce, FirstWipe, WipeAgain, SecondWipe, BeginStop, EndStop, Return, SyncIInv,
       RingInv, RequestIsServed, Settling
  <2> QED
    BY <2>1, <1>o
<1>5. CASE Shutdown \/ CardStep \/ UNCHANGED vars
  BY <1>5, <1>k DEF Shutdown, StopWorker, JoinWorker, CardStep, GenerateFrame, vars
<1>6. CASE WorkerStep
  <2>1. UNCHANGED <<clientVars, dataFrameReadPointer, minimumFrameID, server>>
    BY <1>6, WorkerKeepsFrames DEF SyncIInv
  <2>2. CASE server = "DAQ"
    BY <2>1, <2>2 DEF MinimumIsSet, OneIsOld, Synchronised
  <2>3. CASE server = "UDP" /\ PublishCopy
    BY <2>1, <2>3, SyncPublishes
  <2>4. CASE server = "UDP" /\ Receiver /\ ~PublishCopy
    <3>1. UNCHANGED queueVars
      BY <2>1, <2>4 DEF Receiver, ReceiveDatagram, TestMode, GetSlot, CopyHeader, CopyWords, RejectDatagram,
         CompareMinimum, ReceiverExit
    <3>2. UnreadFrames' = UnreadFrames
      BY <1>6, <3>1, WorkerKeepsFrames, FramesKept DEF SyncIInv, RingInv
    <3>3. CASE Synchronised
      <4>1. minimumFrameID = target
        BY <3>3 DEF SyncIInv, MinimumIsSet
      <4>2. \/ dataFrame' = DevNull
            \/ worker' = "header" /\ dataFrame' = SlotOf(dataFrameWritePointer)
            \/ dataFrame' = dataFrame /\ Holding /\ worker' # "publish"
            \/ dataFrame' = dataFrame /\ Holding /\ head' = head /\ ~(head < target)
            \/ dataFrame' = dataFrame /\ dataFrame = DevNull
        BY <2>4, <4>1 DEF Receiver, ReceiveDatagram, TestMode, GetSlot, TakeSlot, CopyHeader, CopyWords,
           RejectDatagram, CompareMinimum, NextOfDatagram, ReceiverExit, Holding, SyncIInv, RingInv,
           SlotsAreReturned
      <4>3. Doubtful' => Doubtful
        BY <2>1, <3>1, <4>2 DEF Doubtful, Holding
      <4>4. Flushed' = Flushed /\ Queued' = Queued
        BY <2>1, <3>1 DEF Flushed, Queued
      <4>5. OldFrames' = OldFrames
        BY <2>1, <3>2, <4>4 DEF OldFrames
      <4> QED
        BY <2>1, <4>3, <4>5 DEF SyncIInv, MinimumIsSet, OneIsOld, Synchronised
    <3>4. CASE ~Synchronised
      BY <2>1, <3>4 DEF MinimumIsSet, OneIsOld, Synchronised
    <3> QED
      BY <3>3, <3>4
  <2> QED
    BY <1>6, <2>2, <2>3, <2>4 DEF WorkerStep
<1> QED
  BY <1>1, <1>2, <1>3, <1>4, <1>5, <1>6 DEF Next, MainStep

\* A server of datagrams discards what was generated before synchronizeDataToConfig,
\* except one frame: the set of slots with an older frame is that of one position.
THEOREM SyncIsTight ==
  ASSUME MaxSpill = 0
  PROVE  Spec => []SyncLetsOneThrough
<1>1. Init => SyncIInv
  BY RingInit DEF Init, DAQInit, ClientInit, SyncIInv, MinimumIsSet, CopyIsHeld, OneIsOld, Synchronised,
     Holding
<1>2. SyncIInv /\ [Next]_vars => SyncIInv'
  BY RingStep, CopyIsHeldStep, SyncStep DEF SyncIInv
<1>3. SyncIInv => SyncLetsOneThrough
  <2> SUFFICES ASSUME SyncIInv, server = "UDP", op \in {"acquire", "bytes"},
                      client \in {"first", "get", "read", "set"}
               PROVE  Cardinality({ s \in Unread : dataFrameSharedMemory[s].head < target }) <= 1
    BY DEF SyncLetsOneThrough
  <2> DEFINE Olds == { s \in Unread : dataFrameSharedMemory[s].head < target }
  <2>1. \A i, j \in OldFrames : i = j
    BY DEF SyncIInv, OneIsOld, Synchronised
  <2>2. dataFrameReadPointer \in Nat /\ Queued \in Nat
    BY FramesType, QueueSizeAssumption DEF SyncIInv, RingInv, TypeOK, DAQTypeOK, ServerTypeOK, Pointers
  <2>3. \A s \in Olds : \E i \in OldFrames : s = SlotOf(dataFrameReadPointer + i - 1)
    <3> SUFFICES ASSUME NEW s \in Olds
                 PROVE  \E i \in OldFrames : s = SlotOf(dataFrameReadPointer + i - 1)
      OBVIOUS
    <3>1. PICK n \in 0 .. Queued - 1 : s = SlotOf(dataFrameReadPointer + n)
      BY DEF Unread, UnreadSlots, Queued
    <3>2. /\ n + 1 \in 1 .. Queued /\ dataFrameReadPointer + (n + 1) - 1 = dataFrameReadPointer + n
          /\ n + 1 > 0
      BY <2>2, <3>1
    <3>3. UnreadFrames[n + 1] = dataFrameSharedMemory[s]
      BY <3>1, <3>2 DEF UnreadFrames
    <3>4. n + 1 \in OldFrames
      BY <3>2, <3>3 DEF OldFrames, Flushed
    <3> QED
      BY <3>1, <3>2, <3>4
  <2>4. \A s, t \in Olds : s = t
    BY <2>1, <2>3
  <2>5. CASE Olds = {}
    BY <2>5, FS_EmptySet
  <2>6. CASE Olds # {}
    <3>1. PICK s : Olds = {s}
      BY <2>4, <2>6
    <3>2. Cardinality({s}) = 1
      BY FS_Singleton
    <3> QED
      BY <3>1, <3>2
  <2> QED
    BY <2>5, <2>6
<1> QED
  BY <1>1, <1>2, <1>3, PTL DEF Spec

=============================================================================
