--------------------------- MODULE DAQFrameServer ---------------------------
(***************************************************************************)
(* daqd/DAQFrameServer.cpp: the frame server that reads a DAQ card.        *)
(*                                                                         *)
(* Two threads act here.  The worker (doWork) cuts the card's stream of    *)
(* words into frames and copies them to the queue.  The daemon's main      *)
(* thread executes the clients' start and stop requests; while it does so  *)
(* it serves nobody else.                                                  *)
(*                                                                         *)
(* The card is known by what getWords delivers: the frames from `next` up  *)
(* to, not including, `generated` are on their way to the worker, and the  *)
(* frames from `runStart` on belong to the current acquisition.  The idle  *)
(* words between frames are left out: reading one changes nothing.         *)
(* UDPFrameServer has the other kind of server, with the same variables.   *)
(***************************************************************************)
EXTENDS FrameServer

CONSTANTS
  Servers,         \* which kinds of server there may be
  MaxBacklog,      \* bound on the frames on their way from the card
  LostKeepPeriod,  \* one in how many lost frames is kept (128 in the code)
  Corruption,      \* TRUE if the stream may hold bad words
  SleepSuffices,   \* TRUE if startAcquisition's sleep outlasts what it is there for
  MaxSpill         \* by how many slots a corrupt header's size exceeds a slot;
                   \* doWork's check lets 7 pass

ASSUME DAQAssumption ==
  /\ Servers \subseteq {"DAQ", "UDP"}
  /\ MaxBacklog \in Nat
  /\ LostKeepPeriod \in Nat \ {0}
  /\ Corruption \in BOOLEAN
  /\ SleepSuffices \in BOOLEAN
  /\ MaxSpill \in Nat

VARIABLES
  server,            \* with a DAQ card, or datagrams: daqd's --daq-type
  cardOn, generated, next, runStart,           \* the card
  worker,            \* where doWork is
  head,              \* the frame whose header the worker has read
  spill,             \* by how many slots its size exceeds a slot
  dropLostFrame, frameCount, lastFrameWasBad,  \* locals of doWork
  torn,      \* words between that header and the frame's last word were lost
  die,
  main       \* what the main thread is in the middle of

cardVars   == <<server, cardOn, generated, next, runStart>>
workerVars == <<worker, head, spill, dropLostFrame, frameCount, lastFrameWasBad,
                torn>>
daqVars    == <<serverVars, cardVars, workerVars, die, main>>

DAQTypeOK ==
  /\ ServerTypeOK
  /\ server \in Servers
  /\ cardOn \in BOOLEAN
  /\ generated \in Stamps /\ next \in Stamps /\ runStart \in Stamps
  /\ worker \in {"loop", "mode", "slot", "header", "words", "compare", "publish",
                 "exited"}
  /\ head \in Stamps
  /\ spill \in 0 .. MaxSpill
  /\ dropLostFrame \in BOOLEAN
  /\ frameCount \in 0 .. (LostKeepPeriod - 1)
  /\ lastFrameWasBad \in BOOLEAN
  /\ torn \in BOOLEAN
  /\ die \in BOOLEAN
  /\ main \in {"poll", "started", "sleeping", "stopped", "joining", "done"}

DAQInit ==
  /\ ServerInit
  /\ server \in Servers
  /\ cardOn = (server = "UDP") /\ generated = 0 /\ next = 0 /\ runStart = 0
  /\ worker = "loop" /\ head = 0 /\ spill = 0 /\ dropLostFrame = FALSE /\ frameCount = 0
  /\ lastFrameWasBad = TRUE
  /\ torn = FALSE
  /\ die = FALSE
  /\ main = "poll"

-----------------------------------------------------------------------------
(* The card.                                                               *)

GenerateFrame ==
  /\ cardOn
  /\ generated < MaxStamp
  /\ generated - next < MaxBacklog
  /\ generated' = generated + 1
  /\ UNCHANGED <<server, cardOn, next, runStart, serverVars, workerVars, die, main>>

-----------------------------------------------------------------------------
(* Plausible slips in the operations below, to be put in their place when   *)
(* the properties are tested.                                               *)

\* All lost frames are dropped.
ReadHeaderDropLost ==
  /\ worker = "loop" /\ ~die
  /\ next < generated
  /\ head' = next /\ spill' = 0
  /\ next' = next + 1
  /\ dropLostFrame' \in BOOLEAN
  /\ lastFrameWasBad' = FALSE
  /\ torn' = FALSE
  /\ worker' = "mode"
  /\ UNCHANGED <<server, cardOn, generated, runStart, serverVars, frameCount, die, main>>

\* The worker waits for a free slot, as condCleanDataFrame would let it, and does not
\* look at die while it waits.
GetSlotWaits ==
  /\ worker = "slot" /\ ~IsFull(dataFrameWritePointer, dataFrameReadPointer)
  /\ TakeSlot
  /\ worker' = "header"
  /\ UNCHANGED <<queueVars, acquisitionMode, minimumFrameID,
                 dataFrameSharedMemory, cardVars, head, spill, dropLostFrame,
                 frameCount, lastFrameWasBad, torn, die, main>>

-----------------------------------------------------------------------------
(* The worker.                                                             *)

\* The frames whose header the worker can read next: the first one on its
\* way, or any one of them when it must first find an idle word.
Readable ==
  { n \in next .. (generated - 1) : lastFrameWasBad \/ n = next }

\* A header with a plausible size.  Most frames that are marked lost and have
\* no events will be dropped.
ReadHeader ==
  /\ worker = "loop" /\ ~die
  /\ \E n \in Readable, lostFrame \in BOOLEAN :
       /\ head' = n
       /\ next' = n + 1
       /\ dropLostFrame' = (lostFrame /\ frameCount # 0)
  /\ spill' \in 0 .. MaxSpill
  /\ frameCount' = (frameCount + 1) % LostKeepPeriod
  /\ lastFrameWasBad' = FALSE
  /\ torn' = FALSE
  /\ worker' = "mode"
  /\ UNCHANGED <<server, cardOn, generated, runStart, serverVars, die, main>>

\* No header where one is due, or a header with an excessive size.
ReadBadHeader ==
  /\ worker = "loop" /\ ~die /\ Corruption
  /\ \E n \in Readable : next' = n + 1
  /\ lastFrameWasBad' = TRUE
  /\ UNCHANGED <<server, cardOn, generated, runStart, serverVars, worker, head,
                 spill, dropLostFrame, frameCount, torn, die, main>>

\* The mode is read without the lock.
ReadMode ==
  /\ worker = "mode"
  /\ worker' = IF acquisitionMode # 0 /\ ~dropLostFrame THEN "slot" ELSE "header"
  /\ UNCHANGED <<serverVars, cardVars, head, spill, dropLostFrame, frameCount,
                 lastFrameWasBad, torn, die, main>>

GetSlot ==
  /\ worker = "slot"
  /\ TakeSlot
  /\ worker' = "header"
  /\ UNCHANGED <<queueVars, acquisitionMode, minimumFrameID,
                 dataFrameSharedMemory, cardVars, head, spill, dropLostFrame,
                 frameCount, lastFrameWasBad, torn, die, main>>

\* "if(die) break" comes first: WorkerExit has the break.
WriteHeader ==
  /\ worker = "header" /\ ~die
  /\ WriteSlot([head |-> head, whole |-> FALSE], 0)
  /\ worker' = "words"
  /\ UNCHANGED <<queueVars, acquisitionMode, minimumFrameID, dataFrame, cardVars,
                 head, spill, dropLostFrame, frameCount, lastFrameWasBad, torn, die, main>>

\* The other words and the trailer: as many words as the header says, even if
\* they run over the slots that follow.  getWords blocks until the card has
\* delivered them.  A torn frame may or may not have a trailer in its place.
WriteWords ==
  /\ worker = "words"
  /\ WriteSlot([head |-> head, whole |-> ~torn /\ spill = 0], spill)
  /\ worker' = "publish"
  /\ UNCHANGED <<queueVars, acquisitionMode, minimumFrameID, dataFrame, cardVars,
                 head, spill, dropLostFrame, frameCount, lastFrameWasBad, torn, die, main>>

\* The trailer is missing, or (only then is lastFrameWasBad left FALSE) the
\* size in the header does not fit the number of events.
RejectFrame ==
  /\ worker = "words" /\ (torn \/ Corruption \/ spill > 0)
  /\ WriteSlot([head |-> head, whole |-> FALSE], spill)
  /\ dataFrame' = DevNull
  /\ lastFrameWasBad' \in BOOLEAN
  /\ worker' = "loop"
  /\ UNCHANGED <<queueVars, acquisitionMode, minimumFrameID, cardVars, head,
                 spill, dropLostFrame, frameCount, torn, die, main>>

PublishFrame ==
  /\ worker = "publish"
  /\ PublishSlot
  /\ worker' = "loop"
  /\ UNCHANGED <<dataFrameReadPointer, acquisitionMode, minimumFrameID,
                 dataFrameSharedMemory, cardVars, head, spill, dropLostFrame,
                 frameCount, lastFrameWasBad, torn, die, main>>

\* die is looked at in two places: by "while(!die)" and, with a slot taken or not,
\* by "if(die) break" before anything is written.
WorkerExit ==
  /\ die /\ worker \in {"loop", "header"}
  /\ worker' = "exited"
  /\ dataFrame' = DevNull
  /\ UNCHANGED <<queueVars, acquisitionMode, minimumFrameID,
                 dataFrameSharedMemory, cardVars, head, spill, dropLostFrame,
                 frameCount, lastFrameWasBad, torn, die, main>>

Worker ==
  \/ ReadHeader \/ ReadBadHeader \/ ReadMode \/ GetSlot
  \/ WriteHeader \/ WriteWords \/ RejectFrame \/ PublishFrame \/ WorkerExit

-----------------------------------------------------------------------------
(* The main thread's requests.                                             *)

MidFrame == worker \in {"mode", "slot", "header", "words"}

\* DAQFrameServer::startAcquisition switches the card off and on again: a new
\* run begins, and frames still on their way may be lost, the rest of the
\* worker's present frame among them.
RestartCard ==
  /\ main = "poll"
  /\ main' = "started"
  /\ cardOn' = TRUE
  /\ runStart' = generated
  /\ next' \in next .. generated
  /\ torn' \in (IF MidFrame THEN {torn, TRUE} ELSE {torn})
  /\ UNCHANGED <<server, generated, serverVars, worker, head, spill, dropLostFrame, frameCount,
                 lastFrameWasBad, die>>

FirstWipe ==
  /\ main = "started"
  /\ StartAcquisitionFirstWipe
  /\ main' = "sleeping"
  /\ UNCHANGED <<cardVars, workerVars, die>>

\* What usleep(220000) is there to outlast: the worker has finished the frame
\* it had begun, and no frame of an earlier run is on its way any more.  The code
\* goes on after the sleep whether or not.
Settled ==
  /\ next >= runStart
  /\ \/ worker = "loop"
     \/ worker # "slot" /\ dataFrame = DevNull /\ head >= runStart

SecondWipe ==
  /\ main = "sleeping"
  /\ SleepSuffices => Settled
  /\ StartAcquisitionSecondWipe
  /\ main' = "poll"
  /\ UNCHANGED <<cardVars, workerVars, die>>

StopCard ==
  /\ main = "poll"
  /\ main' = "stopped"
  /\ cardOn' = FALSE
  /\ UNCHANGED <<server, generated, next, runStart, serverVars, workerVars, die>>

StopWipe ==
  /\ main = "stopped"
  /\ StopAcquisition
  /\ main' = "poll"
  /\ UNCHANGED <<cardVars, workerVars, die>>

\* The destructor: stopWorker sets die and joins the worker.
StopWorker ==
  /\ main = "poll"
  /\ die' = TRUE
  /\ main' = "joining"
  /\ UNCHANGED <<serverVars, cardVars, workerVars>>

JoinWorker ==
  /\ main = "joining" /\ worker = "exited"
  /\ main' = "done"
  /\ UNCHANGED <<serverVars, cardVars, workerVars, die>>
=============================================================================
