----------------------------- MODULE RawReader -----------------------------
(***************************************************************************)
(* raw_data/RawReader.cpp: reads a step of an acquisition's files and      *)
(* passes its events on in blocks; composed with the writer, which may     *)
(* still be at work, or be dead.                                           *)
(*                                                                         *)
(* Of an event's time only the frame is modelled: the coarse counts within *)
(* a frame are added to it.                                                *)
(***************************************************************************)
EXTENDS RawWriter

CONSTANTS
  OutBlockSize,    \* outBlockSize: 4096 in the code
  MaxSpan          \* of a block, in frames: 2^32 in the code

ASSUME ReaderAssumption == OutBlockSize \in Nat \ {0} /\ MaxSpan \in Nat

VARIABLES
  reader,          \* where the process is
  steps,           \* the lines of the index file that it has found
  step,            \* the step it processes
  currentPosition,
  outBuffer,       \* the block it fills, or NULL
  prevFrameID,     \* lastFrameID in processStep
  lastFrameWasLost0, nFrameLost0, nFrameLostN,
  sink             \* the blocks it has passed on

readVars   == <<currentPosition, outBuffer, prevFrameID, lastFrameWasLost0,
                nFrameLost0, nFrameLostN, sink>>
readerVars == <<reader, steps, step, readVars>>
vars       == <<writerVars, readerVars>>

Blocks == [tMin : IDs, tMax : 1 .. (MaxFrameID + 1),
           hits : Seq([frame : Int, word : EventWords])]
NULL   == [tMin |-> 0, tMax |-> 0, hits |-> <<>>]

\* Every variable stays in its type.
TypeOK ==
  /\ WriterTypeOK
  /\ reader \in {"closed", "open", "read", "done"}
  /\ steps \in Seq(Lines) /\ step \in Nat
  /\ currentPosition \in Nat
  /\ outBuffer \in Blocks \cup {NULL}
  /\ prevFrameID \in IDs \cup {-1} /\ lastFrameWasLost0 \in BOOLEAN
  /\ nFrameLost0 \in Nat /\ nFrameLostN \in Nat
  /\ sink \in Seq(Blocks)

StartOfStep ==
  /\ outBuffer' = NULL /\ prevFrameID' = -1 /\ lastFrameWasLost0' = FALSE
  /\ nFrameLost0' = 0 /\ nFrameLostN' = 0 /\ sink' = <<>>

Init ==
  /\ WriterInit
  /\ reader = "closed" /\ steps = <<>> /\ step = 0 /\ currentPosition = 0
  /\ outBuffer = NULL /\ prevFrameID = -1 /\ lastFrameWasLost0 = FALSE
  /\ nFrameLost0 = 0 /\ nFrameLostN = 0 /\ sink = <<>>

-----------------------------------------------------------------------------
\* (The files of a calibration are for other programs.)
OpenFile ==
  /\ reader = "closed" /\ acqStdMode
  /\ steps' = SubSeq(indexFile, 1, indexOnDisk)
  /\ reader' = "open"
  /\ UNCHANGED <<writerVars, step, readVars>>

ProcessStep ==
  /\ reader \in {"open", "done"}
  /\ \E n \in 1 .. Len(steps) :
       /\ step' = n
       /\ currentPosition' = steps[n].begin
  /\ StartOfStep
  /\ reader' = "read"
  /\ UNCHANGED <<writerVars, steps>>

\* There is more to read, and readFromDataFile gets it: otherwise its assertion
\* fails, and the program ends.
InStep   == reader = "read" /\ currentPosition < steps[step].end
CanRead  == currentPosition < onDisk

\* N: the words of a frame without its header.
NWords(frame) == 2 * Len(frame.events)

\* The block has no room for the frame, or spans too many.
Overfull(frame) ==
  \/ Len(outBuffer.hits) + NWords(frame) > OutBlockSize
  \/ frame.id - outBuffer.tMin > MaxSpan

StartsBlock(frame) == outBuffer = NULL \/ Overfull(frame)

Hits(frame, tMin) ==
  [k \in DOMAIN frame.events |-> [frame |-> frame.id - tMin, word |-> frame.events[k]]]

\* A frame without events is passed over.
SkipEmptyFrame ==
  /\ InStep /\ CanRead
  /\ dataFile[currentPosition + 1].events = <<>>
  /\ currentPosition' = currentPosition + 1
  /\ UNCHANGED <<writerVars, reader, steps, step, outBuffer, prevFrameID,
                 lastFrameWasLost0, nFrameLost0, nFrameLostN, sink>>

ReadFrame ==
  /\ InStep /\ CanRead
  /\ LET frame == dataFile[currentPosition + 1]
         tMin  == IF StartsBlock(frame) THEN frame.id ELSE outBuffer.tMin
         hits  == IF StartsBlock(frame) THEN <<>> ELSE outBuffer.hits
         lost0 == frame.lost /\ NWords(frame) = 0
     IN  /\ frame.events # <<>>
         /\ sink' = IF outBuffer # NULL /\ StartsBlock(frame)
                    THEN Append(sink, outBuffer) ELSE sink
         /\ outBuffer' = [tMin |-> tMin, tMax |-> frame.id + 1,
                          hits |-> hits \o Hits(frame, tMin)]
         /\ nFrameLost0' = nFrameLost0
              + (IF frame.id # prevFrameID + 1 /\ lastFrameWasLost0
                 THEN frame.id - prevFrameID - 1 ELSE 0)
              + (IF lost0 THEN 1 ELSE 0)
         /\ nFrameLostN' = nFrameLostN + (IF frame.lost /\ ~lost0 THEN 1 ELSE 0)
         /\ lastFrameWasLost0' = lost0
         /\ prevFrameID' = frame.id
  /\ currentPosition' = currentPosition + 1
  /\ UNCHANGED <<writerVars, reader, steps, step>>

EndStep ==
  /\ reader = "read" /\ currentPosition >= steps[step].end
  /\ sink' = IF outBuffer # NULL THEN Append(sink, outBuffer) ELSE sink
  /\ outBuffer' = NULL
  /\ reader' = "done"
  /\ UNCHANGED <<writerVars, steps, step, currentPosition, prevFrameID,
                 lastFrameWasLost0, nFrameLost0, nFrameLostN>>

ReaderNext ==
  \/ OpenFile \/ ProcessStep \/ SkipEmptyFrame \/ ReadFrame \/ EndStep

Next == (WriterNext /\ UNCHANGED readerVars) \/ ReaderNext

Spec == Init /\ [][Next]_vars

-----------------------------------------------------------------------------
\* What the frames of a step say: their events, each with its frame ...
EventsOf(frames) ==
  FlattenSeq([i \in DOMAIN frames |->
    [k \in DOMAIN frames[i].events |-> <<frames[i].id, frames[i].events[k]>>]])

\* ... or how often each event has come.
CountsOf(frames) ==
  LET words == FlattenSeq([i \in DOMAIN frames |-> frames[i].events])
  IN  { [word |-> words[k],
         freq |-> Cardinality({ j \in DOMAIN words : words[j] = words[k] })] :
        k \in DOMAIN words }

Ascending(frames) ==
  \A i, j \in DOMAIN frames : i < j => frames[i].id < frames[j].id

\* The IDs of a step without a frame, or with one that has lost all its events.
MissingAll(frames) ==
  { id \in frames[1].id .. frames[Len(frames)].id :
      \A i \in DOMAIN frames :
        frames[i].id = id => frames[i].lost /\ frames[i].events = <<>> }

\* The writer's account of a step: each ID between the first and the last has
\* been counted once, and as lost if it is missing.
AccountIsRight ==
  Current # <<>> /\ Ascending(Current) /\ writer \in {"read", "frame", "close"} =>
    /\ stepAllFrames = lastFrameID - stepFirstFrameID + 1
    /\ stepLostFrames0 = Cardinality(MissingAll(Current))

\* The assertion in readFromDataFile holds: the reader finds what the index file
\* says, even if the writer is killed at the worst moment.
NeverAborts == InStep => CanRead

\* The invariant behind it: whatever the index file says, on disk or not yet, and
\* whatever the reader has found there, is about data on disk.
IndexIsTrue ==
  /\ writer = "line" => onDisk = Len(dataFile)
  /\ \A i \in 1 .. Len(indexFile) : indexFile[i].end <= onDisk
  /\ \A i \in 1 .. Len(steps) : steps[i].end <= onDisk
  /\ reader = "read" => step \in 1 .. Len(steps)

\* Blocks can be handled on their own: each has its events between its times, and
\* the next block begins when it has ended.
BlocksFollow ==
  Ascending(acquired[step]) =>
    \A b \in DOMAIN sink :
      /\ \A k \in DOMAIN sink[b].hits :
           sink[b].hits[k].frame \in 0 .. (sink[b].tMax - sink[b].tMin - 1)
      /\ b > 1 => sink[b - 1].tMax <= sink[b].tMin

\* A step is read as it was acquired: no frame with events is left out by the
\* writer, or put into another step, or passed on by the reader at another time
\* or in a block whose times do not hold it.
RoundTrip ==
  reader = "done" =>
    /\ FlattenSeq([b \in DOMAIN sink |->
         [k \in DOMAIN sink[b].hits |->
           <<sink[b].tMin + sink[b].hits[k].frame, sink[b].hits[k].word>>]])
       = EventsOf(acquired[step])
    /\ BlocksFollow

\* What is on disk is a log of complete steps.
Log == INSTANCE StepLog WITH
  inFull  <- acqStdMode,
  current <- Current,
  log     <- [i \in 1 .. indexOnDisk |->
                LET records == SubSeq(dataFile, indexFile[i].begin + 1,
                                 IF indexFile[i].end < onDisk THEN indexFile[i].end
                                 ELSE onDisk)
                IN  IF acqStdMode THEN EventsOf(records)
                    ELSE { records[k] : k \in DOMAIN records }]
ImplementsLog == Log!LogSpec
=============================================================================
