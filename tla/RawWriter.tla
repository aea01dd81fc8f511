----------------------------- MODULE RawWriter -----------------------------
(***************************************************************************)
(* raw_data/write_raw.cpp: the helper process of an acquisition.           *)
(*                                                                         *)
(* The client names blocks of frames in shared memory, through a pipe, and *)
(* then the end of the step.  The writer puts the frames into a data file  *)
(* or, for a calibration, counts their events and puts the counts there;   *)
(* at the end of a step it adds a line to an index file.  It never comes   *)
(* to the end of its own accord: closeAcquisition kills it, and what is    *)
(* still in its buffers is lost.                                           *)
(*                                                                         *)
(* Offsets count records instead of bytes, from the end of the header.     *)
(***************************************************************************)
EXTENDS Integers, FiniteSets, SequencesExt

CONSTANTS
  EventWords,      \* the contents of events, as numbers
  MaxEvents,       \* bound on the events of a frame
  MaxFrameID,      \* bound on the frames' IDs
  MaxFrames,       \* bound on the frames of a file
  MaxSteps,        \* bound on the steps of a file
  OddIDs           \* those that may come out of turn

ASSUME WriterAssumption ==
  /\ EventWords \subseteq Nat
  /\ MaxEvents \in Nat /\ MaxFrameID \in Nat /\ MaxFrames \in Nat
  /\ MaxSteps \in Nat /\ OddIDs \subseteq 0 .. MaxFrameID

IDs    == 0 .. MaxFrameID
Frames == [id : IDs, lost : BOOLEAN,
           events : UNION { [1 .. k -> EventWords] : k \in 0 .. MaxEvents }]
Counts == [word : EventWords, freq : Nat]

VARIABLES
  writer,              \* where the process is
  acqStdMode,          \* FALSE for a calibration
  lastFrameID, stepFirstFrameID, lastFrameType,
  stepAllFrames, stepLostFrames0, stepLostFramesN,
  calEventSet,         \* how often each word is in it
  dataFile,            \* the records that have been written
  onDisk,              \* how many of them are in the file, not in a buffer
  indexFile, indexOnDisk,
  stepStartOffset,
  acquired             \* all frames of each step so far

stepVars   == <<lastFrameID, stepFirstFrameID, lastFrameType, stepAllFrames,
                stepLostFrames0, stepLostFramesN, calEventSet>>
diskVars   == <<dataFile, onDisk, indexFile, indexOnDisk, stepStartOffset>>
writerVars == <<writer, acqStdMode, stepVars, diskVars, acquired>>

Lines == [begin : Nat, end : Nat, first : IDs \cup {-1}, last : IDs \cup {-1}]

WriterTypeOK ==
  /\ writer \in {"read", "frame", "close", "flush", "line", "flushIndex", "dead"}
  /\ acqStdMode \in BOOLEAN
  /\ lastFrameID \in IDs \cup {-1} /\ stepFirstFrameID \in IDs \cup {-1}
  /\ lastFrameType \in {"unknown", "zero_data", "some_data", "some_lost", "all_lost"}
  /\ stepAllFrames \in Nat /\ stepLostFrames0 \in Nat /\ stepLostFramesN \in Nat
  /\ calEventSet \in [EventWords -> Nat]
  /\ dataFile \in Seq(Frames \cup Counts) /\ onDisk \in 0 .. Len(dataFile)
  /\ indexFile \in Seq(Lines) /\ indexOnDisk \in 0 .. Len(indexFile)
  /\ stepStartOffset \in 0 .. Len(dataFile)
  /\ acquired \in Seq(Seq(Frames))

ResetStep ==
  /\ lastFrameID' = -1 /\ stepFirstFrameID' = -1 /\ lastFrameType' = "unknown"
  /\ stepAllFrames' = 0 /\ stepLostFrames0' = 0 /\ stepLostFramesN' = 0
  /\ calEventSet' = [w \in EventWords |-> 0]

WriterInit ==
  /\ writer = "read" /\ acqStdMode \in BOOLEAN
  /\ lastFrameID = -1 /\ stepFirstFrameID = -1 /\ lastFrameType = "unknown"
  /\ stepAllFrames = 0 /\ stepLostFrames0 = 0 /\ stepLostFramesN = 0
  /\ calEventSet = [w \in EventWords |-> 0]
  /\ dataFile = <<>> /\ onDisk = 0 /\ indexFile = <<>> /\ indexOnDisk = 0
  /\ stepStartOffset = 0
  /\ acquired = << <<>> >>

Current   == acquired[Len(acquired)]
AllFrames == FlattenSeq(acquired)

-----------------------------------------------------------------------------
(* Plausible slips in the operations below, to be put in their place when  *)
(* the properties are tested.                                              *)

SkippedInclusive(frame) == frame.id - lastFrameID
FrameTypeByLoss(frame) == IF frame.lost THEN "zero_data" ELSE "all_lost"

\* The data file is not flushed before the index line is written.
FlushDataNot ==
  /\ writer = "flush"
  /\ writer' = "line"
  /\ UNCHANGED <<acqStdMode, stepVars, diskVars, acquired>>

\* The next step is said to begin where this one began.
FlushIndexKeepOffset ==
  /\ writer = "flushIndex"
  /\ indexOnDisk' = Len(indexFile)
  /\ ResetStep
  /\ acquired' = Append(acquired, <<>>)
  /\ writer' = "read"
  /\ UNCHANGED <<acqStdMode, dataFile, onDisk, indexFile, stepStartOffset>>

-----------------------------------------------------------------------------
(* A block of frames.                                                      *)

\* The client has sent a header.  The block at the end of a step is empty.
ReadHeader ==
  /\ writer = "read"
  /\ Len(acquired) <= MaxSteps
  /\ \/ Len(AllFrames) < MaxFrames /\ writer' = "frame"
     \/ writer' = "close"
  /\ UNCHANGED <<acqStdMode, stepVars, diskVars, acquired>>

\* IDs between the last frame's and this one's are missing.
Gap(frame)     == lastFrameID >= 0 /\ frame.id > lastFrameID + 1
Skipped(frame) == frame.id - lastFrameID - 1

\* What is written for the missing ones.
LostFrame(id) == [id |-> id, lost |-> TRUE, events |-> <<>>]

FrameType(frame) ==
  IF frame.lost
  THEN IF frame.events = <<>> THEN "zero_data" ELSE "some_data"
  ELSE IF frame.events = <<>> THEN "all_lost" ELSE "some_lost"

\* A frame like the last one is not written if it has no events.  (Other than
\* at the end of a step; but then there are no frames in the block.)
Repeats(type, lastType) == type = lastType /\ type \in {"zero_data", "all_lost"}

NextIDs ==
  OddIDs \cup { id \in IDs : \A i \in DOMAIN AllFrames : AllFrames[i].id < id }

WriteFrame ==
  /\ writer = "frame"
  /\ \E frame \in { f \in Frames : f.id \in NextIDs } :
       LET missing   == IF Gap(frame) THEN Skipped(frame) ELSE 0
           lastType  == IF Gap(frame) THEN "all_lost" ELSE lastFrameType
           marker    == IF Gap(frame) /\ acqStdMode
                        THEN <<LostFrame(lastFrameID + 1)>> ELSE <<>>
           record    == IF Repeats(FrameType(frame), lastType) \/ ~acqStdMode
                        THEN <<>> ELSE <<frame>>
       IN  /\ acquired' = [acquired EXCEPT ![Len(acquired)] = Append(@, frame)]
           /\ lastFrameID' = frame.id
           /\ stepFirstFrameID' = IF stepFirstFrameID = -1 THEN frame.id
                                  ELSE stepFirstFrameID
           /\ lastFrameType' = FrameType(frame)
           /\ stepAllFrames' = stepAllFrames + missing + 1
           /\ stepLostFrames0' = stepLostFrames0 + missing
                + (IF frame.lost /\ frame.events = <<>> THEN 1 ELSE 0)
           /\ stepLostFramesN' = stepLostFramesN
                + (IF frame.lost /\ frame.events # <<>> THEN 1 ELSE 0)
           /\ calEventSet' = IF acqStdMode THEN calEventSet
                ELSE [w \in EventWords |-> calEventSet[w]
                        + Cardinality({ k \in DOMAIN frame.events : frame.events[k] = w })]
           /\ dataFile' = dataFile \o marker \o record
  /\ writer' \in (IF Len(AllFrames) + 1 < MaxFrames THEN {"frame", "read"} ELSE {"read"})
  /\ UNCHANGED <<acqStdMode, onDisk, indexFile, indexOnDisk, stepStartOffset>>

-----------------------------------------------------------------------------
(* The end of a step.                                                      *)

\* For a calibration, write how often each event has come, and flush each time.
WriteCounts ==
  /\ writer = "close"
  /\ LET left == { w \in EventWords : calEventSet[w] > 0 }
     IN  \/ /\ acqStdMode \/ left = {}
            /\ writer' = "flush"
            /\ UNCHANGED <<calEventSet, dataFile, onDisk>>
         \/ /\ ~acqStdMode
            /\ \E word \in left :
                 /\ \A w \in left : word <= w
                 /\ dataFile' = Append(dataFile, [word |-> word, freq |-> calEventSet[word]])
                 /\ calEventSet' = [calEventSet EXCEPT ![word] = 0]
            /\ onDisk' = Len(dataFile')
            /\ UNCHANGED writer
  /\ UNCHANGED <<acqStdMode, lastFrameID, stepFirstFrameID, lastFrameType,
                 stepAllFrames, stepLostFrames0, stepLostFramesN, indexFile,
                 indexOnDisk, stepStartOffset, acquired>>

FlushData ==
  /\ writer = "flush"
  /\ onDisk' = Len(dataFile)
  /\ writer' = "line"
  /\ UNCHANGED <<acqStdMode, stepVars, dataFile, indexFile, indexOnDisk,
                 stepStartOffset, acquired>>

WriteIndexLine ==
  /\ writer = "line"
  /\ indexFile' = Append(indexFile, [begin |-> stepStartOffset, end |-> Len(dataFile),
                                     first |-> stepFirstFrameID, last |-> lastFrameID])
  /\ writer' = "flushIndex"
  /\ UNCHANGED <<acqStdMode, stepVars, dataFile, onDisk, indexOnDisk,
                 stepStartOffset, acquired>>

FlushIndex ==
  /\ writer = "flushIndex"
  /\ indexOnDisk' = Len(indexFile)
  /\ stepStartOffset' = Len(dataFile)
  /\ ResetStep
  /\ acquired' = Append(acquired, <<>>)
  /\ writer' = "read"
  /\ UNCHANGED <<acqStdMode, dataFile, onDisk, indexFile>>

\* A full buffer goes to disk.  (The index file's is never full.)
FullBuffer ==
  /\ writer # "dead"
  /\ \E count \in (onDisk + 1) .. Len(dataFile) : onDisk' = count
  /\ UNCHANGED <<writer, acqStdMode, stepVars, dataFile, indexFile, indexOnDisk,
                 stepStartOffset, acquired>>

Killed ==
  /\ writer # "dead"
  /\ writer' = "dead"
  /\ UNCHANGED <<acqStdMode, stepVars, diskVars, acquired>>

WriterNext ==
  \/ ReadHeader \/ WriteFrame \/ WriteCounts \/ FlushData \/ WriteIndexLine
  \/ FlushIndex \/ FullBuffer \/ Killed
=============================================================================
