------------------------------ MODULE DAQSystem ------------------------------
(***************************************************************************)
(* The daemon, with a DAQ card or a socket, and its client.                *)
(***************************************************************************)
EXTENDS UDPFrameServer, FrameClient, FiniteSets, Sequences

vars == <<serverVars, cardVars, workerVars, die, main, clientVars>>

Init == DAQInit /\ ClientInit

\* The client calls a method.
Call ==
  /\ \/ CallDecode
     \/ \E method \in Methods : CallMode(method) \/ CallSync(method, generated)
  /\ UNCHANGED <<cardVars, workerVars, die, main>>

\* The main thread serves a request between two polls.
Serve ==
  /\ main = "poll"
  /\ Requests
  /\ UNCHANGED <<cardVars, workerVars, die, main>>

ClientLocal == LocalSteps /\ UNCHANGED <<cardVars, workerVars, die, main>>

\* Start and stop take the main thread several steps; the reply comes last.
BeginStart ==
  /\ client = "start"
  /\ \/ server = "DAQ" /\ RestartCard
     \/ server = "UDP" /\ FirstWipeOfReceiver
  /\ UNCHANGED clientVars
WipeOnce   == FirstWipe /\ UNCHANGED clientVars
WipeAgain  == SecondWipe /\ Return
BeginStop  == client = "stop" /\ server = "DAQ" /\ StopCard /\ UNCHANGED clientVars

EndStop ==
  /\ \/ StopWipe
     \/ client = "stop" /\ server = "UDP" /\ WipeOfReceiver
  /\ Return

Shutdown == (StopWorker \/ JoinWorker) /\ UNCHANGED clientVars

WorkerStep ==
  /\ \/ server = "DAQ" /\ Worker
     \/ server = "UDP" /\ Receiver
  /\ UNCHANGED clientVars

CardStep   == GenerateFrame /\ UNCHANGED clientVars

MainStep == Serve \/ BeginStart \/ WipeOnce \/ WipeAgain \/ BeginStop \/ EndStop

Next == Call \/ ClientLocal \/ MainStep \/ Shutdown \/ WorkerStep \/ CardStep

Spec == Init /\ [][Next]_vars

-----------------------------------------------------------------------------
(* Fairness.  Threads that can run do; the card goes on delivering while   *)
(* it is on.  The client need not call anything, and nobody need stop the  *)
(* daemon.  The worker waits for the card's words and for nothing else.    *)

\* The worker is at a getWords, and may stay there unless the card delivers.  (A
\* server of datagrams has cardOn always: its front end sends all the time.)
WordsArrive == worker \in {"loop", "words"} => cardOn

Fairness ==
  /\ WF_vars(WorkerStep /\ WordsArrive)
  /\ WF_vars(CardStep)
  /\ WF_vars(MainStep)
  /\ WF_vars(ClientLocal)
  /\ WF_vars(JoinWorker /\ UNCHANGED clientVars)

FairSpec == Spec /\ Fairness

-----------------------------------------------------------------------------
(* Type invariant.                                                         *)

\* Every variable stays in its type.
TypeOK == DAQTypeOK /\ ClientTypeOK

-----------------------------------------------------------------------------
(* Safety.                                                                 *)

\* The worker holds a slot it will publish.
Holding == worker \in {"header", "words", "compare", "publish"} /\ dataFrame # DevNull

\* A request that resets the queue is between its steps; the main thread
\* shows the queue to nobody until it is done.
Settling == main \in {"started", "sleeping"}

\* The worker never writes into a slot that holds a frame the client has not
\* handed back: doWork takes the slot at the write pointer and fills it with
\* the lock released, while start, stop and the client move both pointers.
NoOverwrite == Holding => ({dataFrame} \cup Overrun(spill)) \cap Unread = {}

\* The queue never seems to hold more than N frames: isFull tests only for a
\* distance of exactly N, so a pointer that jumped past it would go unnoticed.
NeverOverfull == Queued <= N

\* While the client reads a block, all of it is still queued: the worker
\* cannot reuse its slots before __setDataFrameReadPointer hands them back.
BlockStaysQueued ==
  client = "read" /\ op # "bytes" =>
    UnreadSlots(blockWr, blockRd) \subseteq Unread

\* Frame i is before frame j in time.
Before(f, g) == f.head < g.head

\* If the sleep is long enough: after startAcquisition has returned, and until the next stop or start, the
\* queue holds only whole frames of this run, in order: neither the slot the
\* worker held during the wipes nor words of the previous run get into it.
\* write_raw relies on this when it counts the frames that are missing.
FramesAreFresh ==
  SleepSuffices /\ acquisitionMode # 0 /\ ~Settling =>
    /\ \A i \in 1 .. Queued :
         /\ UnreadFrames[i].whole
         /\ UnreadFrames[i].head >= runStart
    /\ \A i, j \in 1 .. Queued : i < j => Before(UnreadFrames[i], UnreadFrames[j])

\* A server of datagrams discards what was generated before synchronizeDataToConfig,
\* except the one frame that the worker had compared with the old minimum when the
\* new one was set: it may be published after the client has emptied the queue.
SyncLetsOneThrough ==
  server = "UDP" /\ op \in {"acquire", "bytes"} /\ client \in {"first", "get", "read", "set"} =>
    Cardinality({ s \in Unread : dataFrameSharedMemory[s].head < target }) <= 1

\* Every frame of a block has been read when the block is handed back.
BlockWasRead ==
  client = "set" /\ op = "acquire" =>
    lastRead = dataFrameSharedMemory[SlotOf(blockWr + N - 1)]

-----------------------------------------------------------------------------
(* Why the queue is safe: the inductive invariant.                         *)

\* The slot the worker holds is the one at the write pointer and the queue has
\* room for it; or the queue has been wiped since the worker took it, is empty,
\* and the slot will be forgotten.
HeldSlotIsNext ==
  Holding => \/ Queued = 0
             \/ Queued < N /\ dataFrame = SlotOf(dataFrameWritePointer)

\* The worker has a slot only between doWork's two critical sections.
SlotsAreReturned == dataFrame # DevNull => Holding

\* The end of the client's block lies between the read and the write pointer:
\* the worker only moves the write pointer away from it, and the main thread
\* wipes the queue only while this client waits for its reply.
BlockEndIsQueued ==
  client \in {"flushSet", "read", "set"} =>
    Occupancy(blockWr, dataFrameReadPointer) <= Queued

\* The main thread works for the client that waits.
RequestIsServed ==
  /\ Settling => client = "start"
  /\ main = "stopped" => client = "stop"

\* An acquisition goes on while it needs frames.
NeedsFrames == client = "get" /\ op # "decode" => currentFrame <= stopFrame

\* The read cursor is inside the block.
CursorInBlock ==
  client = "read" /\ op # "bytes" =>
    Occupancy(blockWr, blockRd) <= Occupancy(blockWr, dataFrameReadPointer)

RingInv ==
  /\ TypeOK
  /\ NeverOverfull
  /\ HeldSlotIsNext
  /\ SlotsAreReturned
  /\ BlockEndIsQueued
  /\ RequestIsServed
  /\ NeedsFrames
  /\ CursorInBlock

-----------------------------------------------------------------------------
(* The system implements the abstract channel.                             *)

\* While the main thread is at a start's first step, the channel is closed
\* already and the client cannot look.  The write pointer, 0 at a closing, counts
\* what is published after it.
Channel == INSTANCE FrameChannel WITH
  Capacity <- N,
  Stamp    <- Stamps,
  queue    <- IF main = "started" THEN <<>> ELSE UnreadFrames,
  open     <- acquisitionMode # 0 /\ main # "started",
  leaks    <- IF acquisitionMode = 0 /\ main # "started" THEN dataFrameWritePointer ELSE 0,
  batch    <- IF server = "UDP" THEN MaxPacked ELSE 1,
  since    <- runStart,
  floor    <- IF worker \in {"loop", "exited"} THEN next ELSE head

\* The queue with its two pointers behaves like the abstract channel, if the sleep
\* is long enough.
ImplementsChannel == Channel!ChannelSpec

-----------------------------------------------------------------------------
(* Liveness.                                                               *)

\* Enough frames are still to come for one that is kept: a resynchronisation
\* may cost the backlog, and of the lost frames one in LostKeepPeriod is kept.
MoreToCome == MaxStamp - next >= MaxBacklog + LostKeepPeriod

\* A client that polls for its first frame during an acquisition gets one, even
\* if all frames are marked lost: doWork keeps some of those "just to ensure
\* software always has something".
FirstFrameArrives ==
  client = "first" /\ acquisitionMode # 0 /\ MoreToCome ~> (client # "first" \/ die)

\* stopWorker's join returns while the card delivers, wherever die finds the worker,
\* and if the queue is full and nobody reads: the worker does not wait for a slot.
\* (With the card off it may be waiting for words that will not come.)
WorkerExits == die /\ cardOn ~> worker = "exited"

-----------------------------------------------------------------------------
(* What the sources say, and the code does not do.                         *)

\* "Discards all data frames which may have been generated before the function
\* is called": nothing that synchronizeDataToConfig's caller reads afterwards
\* was generated before the call.
SyncDiscardsEarlierFrames ==
  client = "read" /\ op = "acquire" =>
    \A i \in 1 .. Occupancy(blockWr, blockRd) :
      dataFrameSharedMemory[SlotOf(blockRd + i - 1)].head >= target
=============================================================================
