------------------------------- MODULE PFPCard -------------------------------
(***************************************************************************)
(* daqd/PFP_KX7.cpp: the data path of the DAQ card's driver object.        *)
(*                                                                         *)
(* A filler thread reads the card's words into two buffers that form a     *)
(* ring; its pointers count modulo four.  The frame server's worker takes  *)
(* the words out with getWords, from a current buffer of its own that it   *)
(* hands back when it is exhausted.  The daemon's main thread stops the    *)
(* filler and starts it again, and then resets the ring without the mutex  *)
(* and without a look at what the worker is doing.                         *)
(*                                                                         *)
(* A word is known by its position in all that the driver has read from    *)
(* the card, counted from 1.                                               *)
(***************************************************************************)
EXTENDS Integers

CONSTANTS
  BufferSize,      \* BUFFER_SIZE, in words
  MaxWords,        \* bound on the words read from the card
  MaxStarts        \* bound on how often the filler is started

ASSUME CardAssumption ==
  /\ BufferSize \in Nat \ {0}
  /\ MaxWords \in Nat /\ MaxStarts \in Nat

Words   == 0 .. MaxWords     \* 0 is no word
Indices == 0 .. 1
Ring    == 0 .. 3
NULL    == 2                 \* no current buffer

VARIABLES
  bufferSet, bufferSetWrPtr, bufferSetRdPtr, bufferSetThreadStop,
  filler, fillIndex, fillCount, read,                  \* the filler thread
  consumer, index, currentBuffer, currentBufferConsumed,  \* in getWords
  lastWord, delivered,     \* what getWords has returned
  main, starts,
  quiet            \* history: no reset of the ring has met the worker in it

ringVars     == <<bufferSet, bufferSetWrPtr, bufferSetRdPtr, bufferSetThreadStop>>
fillerVars   == <<filler, fillIndex, fillCount, read>>
consumerVars == <<consumer, index, currentBuffer, currentBufferConsumed,
                  lastWord, delivered>>
mainVars     == <<main, starts, quiet>>
vars         == <<ringVars, fillerVars, consumerVars, mainVars>>

\* Every variable stays in its type.
TypeOK ==
  /\ bufferSet \in [Indices -> [0 .. (BufferSize - 1) -> Words]]
  /\ bufferSetWrPtr \in Ring /\ bufferSetRdPtr \in Ring
  /\ bufferSetThreadStop \in BOOLEAN
  /\ filler \in {"none", "check", "wait", "read", "publish", "signal"}
  /\ fillIndex \in Indices /\ fillCount \in 0 .. BufferSize /\ read \in Words
  /\ consumer \in {"look", "wait", "take", "count", "advance", "signal",
                  "overrun"}
  /\ index \in Indices /\ currentBuffer \in Indices \cup {NULL}
  /\ currentBufferConsumed \in 0 .. (BufferSize + 1)
  /\ lastWord \in Words /\ delivered \in Nat
  /\ main \in {"poll", "stopping", "joining", "off", "resetWr", "resetRd",
               "resetConsumed", "create"}
  /\ starts \in 0 .. MaxStarts /\ quiet \in BOOLEAN

Init ==
  /\ bufferSet = [i \in Indices |-> [k \in 0 .. (BufferSize - 1) |-> 0]]
  /\ bufferSetWrPtr = 0 /\ bufferSetRdPtr = 0 /\ bufferSetThreadStop = FALSE
  /\ filler = "none" /\ fillIndex = 0 /\ fillCount = 0 /\ read = 0
  /\ consumer = "look" /\ index = 0
  /\ currentBuffer = NULL /\ currentBufferConsumed = 0
  /\ lastWord = 0 /\ delivered = 0
  /\ main = "off" /\ starts = 0 /\ quiet = TRUE

\* The buffer a pointer designates.
BufferOf(pointer) == pointer % 2

Advanced(pointer) == (pointer + 1) % 4
IsFull(w, r)  == BufferOf(w) = BufferOf(r) /\ w \div 2 # r \div 2
IsEmpty(w, r) == w = r

-----------------------------------------------------------------------------
(* Plausible slips in the operations below, to be put in their place when  *)
(* the properties are tested.                                              *)

\* The stop flag is not looked at.
FillerCheckNoStop ==
  /\ filler = "check"
  /\ filler' = IF IsFull(bufferSetWrPtr, bufferSetRdPtr) THEN "wait" ELSE "read"
  /\ fillIndex' = BufferOf(bufferSetWrPtr)
  /\ fillCount' = 0
  /\ UNCHANGED <<ringVars, read, consumerVars, mainVars>>

\* The filler does not signal.
FillerNoSignal ==
  /\ filler = "signal"
  /\ filler' = "check"
  /\ UNCHANGED <<ringVars, fillIndex, fillCount, read, consumerVars, mainVars>>

\* A restart resets the write pointer only.
ResetReadPointerNot ==
  /\ main = "resetRd"
  /\ main' = "resetConsumed"
  /\ UNCHANGED <<ringVars, fillerVars, consumerVars, starts, quiet>>

-----------------------------------------------------------------------------
(* The filler thread.                                                      *)

\* Under the mutex: quit, wait for a buffer, or take the one to fill.
FillerCheck ==
  /\ filler = "check"
  /\ IF bufferSetThreadStop THEN filler' = "none" /\ UNCHANGED <<fillIndex, fillCount>>
     ELSE IF IsFull(bufferSetWrPtr, bufferSetRdPtr)
     THEN filler' = "wait" /\ UNCHANGED <<fillIndex, fillCount>>
     ELSE /\ filler' = "read"
          /\ fillIndex' = BufferOf(bufferSetWrPtr)
          /\ fillCount' = 0
  /\ UNCHANGED <<ringVars, read, consumerVars, mainVars>>

\* The driver copies a DMA block to the buffer, word by word and without the
\* mutex; psdaq_file_read returns all that was asked for.
FillerRead ==
  /\ filler = "read"
  /\ read < MaxWords
  /\ read' = read + 1
  /\ bufferSet' = [bufferSet EXCEPT ![fillIndex][fillCount] = read + 1]
  /\ fillCount' = fillCount + 1
  /\ filler' = IF fillCount + 1 = BufferSize THEN "publish" ELSE "read"
  /\ UNCHANGED <<bufferSetWrPtr, bufferSetRdPtr, bufferSetThreadStop, fillIndex,
                 consumerVars, mainVars>>

FillerPublish ==
  /\ filler = "publish"
  /\ bufferSetWrPtr' = Advanced(bufferSetWrPtr)
  /\ filler' = "signal"
  /\ UNCHANGED <<bufferSet, bufferSetRdPtr, bufferSetThreadStop, fillIndex,
                 fillCount, read, consumerVars, mainVars>>

FillerSignal ==
  /\ filler = "signal"
  /\ filler' = "check"
  /\ consumer' = IF consumer = "wait" THEN "look" ELSE consumer
  /\ UNCHANGED <<ringVars, fillIndex, fillCount, read, index, currentBuffer,
                 currentBufferConsumed, lastWord, delivered, mainVars>>

Filler == FillerCheck \/ FillerRead \/ FillerPublish \/ FillerSignal

-----------------------------------------------------------------------------
(* getWords, called over and over for one word or more.                    *)

\* No current buffer: under the mutex, wait if the ring is empty.  Between the
\* resets of the two pointers the ring may seem to hold what it does not.
LookForBuffer ==
  /\ consumer = "look" /\ currentBuffer = NULL
  /\ IF IsEmpty(bufferSetWrPtr, bufferSetRdPtr)
     THEN consumer' = "wait" /\ UNCHANGED index
     ELSE consumer' = "take" /\ index' = BufferOf(bufferSetRdPtr)
  /\ quiet' = (quiet /\ main # "resetRd")
  /\ UNCHANGED <<ringVars, fillerVars, currentBuffer, currentBufferConsumed,
                 lastWord, delivered, main, starts>>

TakeBuffer ==
  /\ consumer = "take"
  /\ currentBuffer' = index
  /\ currentBufferConsumed' = 0
  /\ consumer' = "look"
  /\ UNCHANGED <<ringVars, fillerVars, index, lastWord, delivered, mainVars>>

\* The next word.
CopyWord ==
  /\ consumer = "look" /\ currentBuffer # NULL
  /\ currentBufferConsumed < BufferSize
  /\ lastWord' = bufferSet[currentBuffer][currentBufferConsumed]
  /\ delivered' = delivered + 1
  /\ consumer' = "count"
  /\ UNCHANGED <<ringVars, fillerVars, index, currentBuffer,
                 currentBufferConsumed, mainVars>>

\* A reset between the copy and the count has taken the count past the buffer's
\* end.  The difference to BUFFER_SIZE is unsigned: getWords goes on copying from
\* beyond the buffer and does not come back to the ring.
Overrun ==
  /\ consumer = "look" /\ currentBuffer # NULL
  /\ currentBufferConsumed > BufferSize
  /\ consumer' = "overrun"
  /\ UNCHANGED <<ringVars, fillerVars, index, currentBuffer,
                 currentBufferConsumed, lastWord, delivered, mainVars>>

CountWord ==
  /\ consumer = "count"
  /\ currentBufferConsumed' = currentBufferConsumed + 1
  /\ consumer' = "look"
  /\ UNCHANGED <<ringVars, fillerVars, index, currentBuffer, lastWord, delivered,
                 mainVars>>

\* The current buffer is exhausted.
ForgetBuffer ==
  /\ consumer = "look" /\ currentBuffer # NULL
  /\ currentBufferConsumed = BufferSize
  /\ currentBuffer' = NULL
  /\ consumer' = "advance"
  /\ UNCHANGED <<ringVars, fillerVars, index, currentBufferConsumed, lastWord,
                 delivered, mainVars>>

AdvanceReadPointer ==
  /\ consumer = "advance"
  /\ bufferSetRdPtr' = Advanced(bufferSetRdPtr)
  /\ consumer' = "signal"
  /\ UNCHANGED <<bufferSet, bufferSetWrPtr, bufferSetThreadStop, fillerVars,
                 index, currentBuffer, currentBufferConsumed, lastWord, delivered,
                 mainVars>>

SignalConsumed ==
  /\ consumer = "signal"
  /\ consumer' = "look"
  /\ filler' = IF filler = "wait" THEN "check" ELSE filler
  /\ UNCHANGED <<ringVars, fillIndex, fillCount, read, index, currentBuffer,
                 currentBufferConsumed, lastWord, delivered, mainVars>>

Consumer ==
  \/ LookForBuffer \/ TakeBuffer \/ CopyWord \/ Overrun \/ CountWord
  \/ ForgetBuffer \/ AdvanceReadPointer \/ SignalConsumed

-----------------------------------------------------------------------------
(* setAcquistionOnOff, in the daemon's main thread.                        *)

\* The worker has handed back all there was and has not found more.  The code does
\* not look whether this is so when it starts.
Drained ==
  /\ IsEmpty(bufferSetWrPtr, bufferSetRdPtr)
  /\ currentBuffer = NULL /\ consumer \notin {"take", "advance"}

SetStop ==
  /\ main = "poll"
  /\ bufferSetThreadStop' = TRUE
  /\ main' = "stopping"
  /\ UNCHANGED <<bufferSet, bufferSetWrPtr, bufferSetRdPtr, fillerVars,
                 consumerVars, starts, quiet>>

SignalStop ==
  /\ main = "stopping"
  /\ filler' = IF filler = "wait" THEN "check" ELSE filler
  /\ main' = "joining"
  /\ UNCHANGED <<ringVars, fillIndex, fillCount, read, consumerVars, starts, quiet>>

JoinFiller ==
  /\ main = "joining" /\ filler = "none"
  /\ main' = "off"
  /\ UNCHANGED <<ringVars, fillerVars, consumerVars, starts, quiet>>

\* An acquisition starts, wherever the worker is.
SetOn ==
  /\ main = "off"
  /\ starts < MaxStarts
  /\ starts' = starts + 1
  /\ quiet' = (quiet /\ Drained)
  /\ main' = "resetWr"
  /\ UNCHANGED <<ringVars, fillerVars, consumerVars>>

\* A variable set to value without the mutex: the write is lost if it falls
\* between the read and the write of the worker's increment of it.
Raced(incremented, old, value) ==
  {value} \cup (IF consumer = incremented THEN {old} ELSE {})

ResetWritePointer ==
  /\ main = "resetWr"
  /\ bufferSetWrPtr' = 0
  /\ main' = "resetRd"
  /\ UNCHANGED <<bufferSet, bufferSetRdPtr, bufferSetThreadStop, fillerVars,
                 consumerVars, starts, quiet>>

ResetReadPointer ==
  /\ main = "resetRd"
  /\ bufferSetRdPtr' \in Raced("advance", bufferSetRdPtr, 0)
  /\ main' = "resetConsumed"
  /\ UNCHANGED <<bufferSet, bufferSetWrPtr, bufferSetThreadStop, fillerVars,
                 consumerVars, starts, quiet>>

ResetConsumed ==
  /\ main = "resetConsumed"
  /\ currentBufferConsumed' \in Raced("count", currentBufferConsumed, BufferSize)
  /\ main' = "create"
  /\ UNCHANGED <<ringVars, fillerVars, consumer, index, currentBuffer, lastWord,
                 delivered, starts, quiet>>

CreateFiller ==
  /\ main = "create"
  /\ bufferSetThreadStop' = FALSE
  /\ filler' = "check"
  /\ main' = "poll"
  /\ UNCHANGED <<bufferSet, bufferSetWrPtr, bufferSetRdPtr, fillIndex, fillCount,
                 read, consumerVars, starts, quiet>>

SetAcquistionOff == SetStop \/ SignalStop \/ JoinFiller
SetAcquistionOn ==
  \/ SetOn \/ ResetWritePointer \/ ResetReadPointer \/ ResetConsumed
  \/ CreateFiller

Resetting == main \in {"resetWr", "resetRd", "resetConsumed", "create"}

\* A wait may end without a signal.
WakeUp ==
  /\ \/ filler = "wait" /\ filler' = "check" /\ UNCHANGED consumer
     \/ consumer = "wait" /\ consumer' = "look" /\ UNCHANGED filler
  /\ UNCHANGED <<ringVars, fillIndex, fillCount, read, index, currentBuffer,
                 currentBufferConsumed, lastWord, delivered, mainVars>>

Main == SetAcquistionOff \/ SetAcquistionOn

Next == Filler \/ Consumer \/ Main \/ WakeUp

Spec == Init /\ [][Next]_vars

-----------------------------------------------------------------------------
(* Fairness: every thread that can run does.  The card delivers as long as  *)
(* the bound allows, a started setAcquistionOnOff goes on, and nobody need  *)
(* call it.                                                                 *)
FairSpec ==
  /\ Spec
  /\ WF_vars(Filler) /\ WF_vars(Consumer)
  /\ WF_vars(Main /\ main \notin {"poll", "off"})

-----------------------------------------------------------------------------
\* getWords never copies from the buffer that the filler is writing: the
\* pointers keep the two threads apart although neither holds the mutex.
NoTear ==
  filler = "read" /\ consumer \in {"look", "count"} => currentBuffer # fillIndex

\* The k-th word getWords returns is the k-th word of the card: none is lost,
\* repeated or taken out of turn, across stops and starts.
InSequence == lastWord = delivered

\* Both threads never wait at once: no signal is lost, whatever a reset does.
NobodyWaitsInVain == ~(filler = "wait" /\ consumer = "wait")

\* The two threads share the two buffers as getWords and the filler mean to,
\* with the pointers alone to keep them apart: no buffer is read while it is
\* written, no word is lost, repeated or out of turn.  That is so as long as every
\* start has found the ring drained and the worker has not looked at it between
\* the resets of the pointers; that no signal is lost holds whatever happens.
CardInv ==
  /\ TypeOK /\ NobodyWaitsInVain
  /\ quiet => NoTear /\ InSequence

\* What has been published is read, however often the acquisition is stopped,
\* unless a reset meets the worker in the ring.
Delivered ==
  \A w \in 1 .. MaxWords :
    (read >= w /\ w % BufferSize = 0) ~> (delivered >= w \/ ~quiet)

\* Switching the acquisition off returns after at most one more buffer: the
\* filler leaves its wait, sees the flag, and quits, whatever getWords does.
OffReturns ==
  \A r \in 0 .. (MaxWords - BufferSize) :
    (main = "joining" /\ read = r) ~> (main = "off" /\ read <= r + BufferSize)
=============================================================================
