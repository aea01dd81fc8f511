------------------------- MODULE RawReader_proofs --------------------------
(***************************************************************************)
(* The writer and the reader of an acquisition's files, for any number of  *)
(* frames and steps, and wherever the writer is killed: they keep their    *)
(* types, the reader never comes to the end of the data before the end of  *)
(* a step, every frame of a step is accounted for, the files implement a   *)
(* log of complete steps, and what is read of a step is what was acquired. *)
(***************************************************************************)
EXTENDS RawReader, FiniteSetTheorems, TLAPS

-----------------------------------------------------------------------------
(* Frames and blocks.                                                      *)

\* The events of a frame are a sequence of words.
LEMMA EventsType ==
  ASSUME NEW frame \in Frames
  PROVE  frame.events \in Seq(EventWords) /\ frame.id \in IDs /\ frame.lost \in BOOLEAN
<1>1. PICK k \in 0 .. MaxEvents : frame.events \in [1 .. k -> EventWords]
  BY DEF Frames
<1>2. k \in Nat
  BY WriterAssumption
<1> QED
  BY <1>1, <1>2 DEF Frames

\* What is written for a missing frame is a frame.
LEMMA LostFrameType ==
  ASSUME NEW id \in IDs
  PROVE  LostFrame(id) \in Frames
<1>1. <<>> \in [1 .. 0 -> EventWords]
  OBVIOUS
<1>2. 0 \in 0 .. MaxEvents
  BY WriterAssumption
<1>3. <<>> \in UNION { [1 .. k -> EventWords] : k \in 0 .. MaxEvents }
  BY <1>1, <1>2
<1> QED
  BY <1>3 DEF LostFrame, Frames

\* How often a word comes in a frame is a number.
LEMMA CountType ==
  ASSUME NEW frame \in Frames, NEW w \in EventWords
  PROVE  Cardinality({ k \in DOMAIN frame.events : frame.events[k] = w }) \in Nat
<1> DEFINE places == { k \in DOMAIN frame.events : frame.events[k] = w }
<1>1. DOMAIN frame.events = 1 .. Len(frame.events) /\ Len(frame.events) \in Nat
  BY EventsType
<1>2. IsFiniteSet(1 .. Len(frame.events))
  BY <1>1, FS_Interval
<1>3. places \subseteq 1 .. Len(frame.events)
  BY <1>1
<1>4. IsFiniteSet(places)
  BY <1>2, <1>3, FS_Subset
<1> QED
  BY <1>4, FS_CardinalityType

\* The hits that ReadFrame makes of a frame fit into a block.
LEMMA HitsType ==
  ASSUME NEW frame \in Frames, NEW tMin \in IDs
  PROVE  Hits(frame, tMin) \in Seq([frame : Int, word : EventWords])
<1>1. frame.events \in Seq(EventWords) /\ frame.id \in Int /\ tMin \in Int
  BY EventsType, WriterAssumption DEF IDs
<1>2. Hits(frame, tMin) \in
        [1 .. Len(frame.events) -> [frame : Int, word : EventWords]]
  BY <1>1 DEF Hits
<1>3. Len(frame.events) \in Nat
  BY <1>1
<1> HIDE DEF Hits
<1> DEFINE H == [frame : Int, word : EventWords]
<1>4. Hits(frame, tMin) \in [1 .. Len(frame.events) -> H]
  BY <1>2
<1> HIDE DEF H
<1>5. Hits(frame, tMin) \in Seq(H)
  BY <1>3, <1>4
<1> QED
  BY <1>5 DEF H

\* The lines of an index file say where a step ends.
LEMMA LineEnds ==
  ASSUME NEW lines \in Seq(Lines), NEW i \in 1 .. Len(lines)
  PROVE  lines[i].end \in Nat
<1> DEFINE L == Lines
<1>1. lines \in Seq(L)
  OBVIOUS
<1> HIDE DEF L
<1>2. lines[i] \in L
  BY <1>1
<1> QED
  BY <1>2 DEF L, Lines

-----------------------------------------------------------------------------
(* The writer's variables.  DiskOK are those that end up in the files.     *)

StepOK ==
  /\ lastFrameID \in IDs \cup {-1} /\ stepFirstFrameID \in IDs \cup {-1}
  /\ lastFrameType \in {"unknown", "zero_data", "some_data", "some_lost", "all_lost"}
  /\ stepAllFrames \in Nat /\ stepLostFrames0 \in Nat /\ stepLostFramesN \in Nat
  /\ calEventSet \in [EventWords -> Nat]

DiskOK ==
  /\ dataFile \in Seq(Frames \cup Counts) /\ onDisk \in 0 .. Len(dataFile)
  /\ indexFile \in Seq(Lines) /\ indexOnDisk \in 0 .. Len(indexFile)
  /\ stepStartOffset \in 0 .. Len(dataFile)

Places == {"read", "frame", "close", "flush", "line", "flushIndex", "dead"}

\* A file that is not a calibration's has frames only, and is the only kind that
\* the reader opens.
OfFrames == acqStdMode => dataFile \in Seq(Frames)

\* The invariant of the writer, by parts.
LEMMA WriterParts ==
  WriterTypeOK <=> /\ writer \in Places /\ acqStdMode \in BOOLEAN
                   /\ StepOK /\ DiskOK /\ acquired \in Seq(Seq(Frames))
  BY DEF WriterTypeOK, StepOK, DiskOK, Places

\* The invariant of the writer, with what IndexIsTrue says of it.
WriterInv ==
  /\ writer \in Places /\ acqStdMode \in BOOLEAN
  /\ StepOK /\ DiskOK /\ OfFrames
  /\ acquired \in Seq(Seq(Frames)) /\ acquired # <<>>
  /\ writer = "line" => onDisk = Len(dataFile)
  /\ \A i \in 1 .. Len(indexFile) : indexFile[i].end <= onDisk

\* It holds before the first step, ...
LEMMA WriterInvInit == WriterInit => WriterInv
  BY WriterAssumption DEF WriterInit, WriterInv, Places, StepOK, DiskOK, OfFrames

\* A frame is taken: the counts go up by what is missing, and the data file grows.
LEMMA WriteFrameKeeps ==
  ASSUME WriterInv, WriteFrame
  PROVE  WriterInv'
<1>1. PICK frame \in Frames :
        LET missing   == IF Gap(frame) THEN Skipped(frame) ELSE 0
            lastType  == IF Gap(frame) THEN "all_lost" ELSE lastFrameType
            marker    == IF Gap(frame) /\ acqStdMode
                         THEN <<LostFrame(lastFrameID + 1)>> ELSE <<>>
            record    == IF Repeats(FrameType(frame), lastType) \/ ~acqStdMode
                         THEN <<>> ELSE <<frame>>
        IN  /\ acquired' = [acquired EXCEPT ![Len(acquired)] = Append(@, frame)]
            /\ lastFrameID' = frame.id
            /\ stepFirstFrameID' = IF stepFirstFrameID = -1 THEN frame.id
                                   ELSE stepFirstFrameID
            /\ lastFrameType' = FrameType(frame)
            /\ stepAllFrames' = stepAllFrames + missing + 1
            /\ stepLostFrames0' = stepLostFrames0 + missing
                 + (IF frame.lost /\ frame.events = <<>> THEN 1 ELSE 0)
            /\ stepLostFramesN' = stepLostFramesN
                 + (IF frame.lost /\ frame.events # <<>> THEN 1 ELSE 0)
            /\ calEventSet' = IF acqStdMode THEN calEventSet
                 ELSE [w \in EventWords |-> calEventSet[w]
                         + Cardinality({ k \in DOMAIN frame.events : frame.events[k] = w })]
            /\ dataFile' = dataFile \o marker \o record
  BY DEF WriteFrame
<1>2. /\ writer = "frame" /\ writer' \in {"frame", "read"}
      /\ UNCHANGED <<acqStdMode, onDisk, indexFile, indexOnDisk, stepStartOffset>>
  BY DEF WriteFrame
<1>3. frame.id \in IDs /\ frame.id \in Int /\ lastFrameID \in Int
  BY EventsType, WriterAssumption DEF WriterInv, StepOK, IDs
<1> DEFINE missing == IF Gap(frame) THEN Skipped(frame) ELSE 0
           marker  == IF Gap(frame) /\ acqStdMode
                      THEN <<LostFrame(lastFrameID + 1)>> ELSE <<>>
           record  == IF Repeats(FrameType(frame), IF Gap(frame) THEN "all_lost"
                                                   ELSE lastFrameType) \/ ~acqStdMode
                      THEN <<>> ELSE <<frame>>
<1>4. missing \in Nat
  BY <1>3 DEF Gap, Skipped
<1>5. marker \in Seq(Frames) /\ record \in Seq(Frames)
  <2>1. Gap(frame) => lastFrameID + 1 \in IDs
    BY <1>3, WriterAssumption DEF Gap, IDs
  <2>2. Gap(frame) => LostFrame(lastFrameID + 1) \in Frames
    BY <2>1, LostFrameType
  <2> QED
    BY <2>2
<1>6. StepOK'
  <2>1. lastFrameID' \in IDs \cup {-1} /\ stepFirstFrameID' \in IDs \cup {-1}
    BY <1>1, <1>3 DEF WriterInv, StepOK
  <2>2. lastFrameType' \in {"unknown", "zero_data", "some_data", "some_lost", "all_lost"}
    BY <1>1 DEF FrameType
  <2>3. stepAllFrames' = stepAllFrames + missing + 1
    BY <1>1
  <2>4. stepLostFrames0' \in {stepLostFrames0 + missing, stepLostFrames0 + missing + 1}
    <3>1. stepLostFrames0' = stepLostFrames0 + missing
                 + (IF frame.lost /\ frame.events = <<>> THEN 1 ELSE 0)
      BY <1>1
    <3> HIDE DEF missing
    <3> QED
      BY <1>4, <3>1 DEF WriterInv, StepOK
  <2>5. stepLostFramesN' \in {stepLostFramesN, stepLostFramesN + 1}
    BY <1>1 DEF WriterInv, StepOK
  <2>6. calEventSet' \in [EventWords -> Nat]
    <3> DEFINE n(w) == Cardinality({ k \in DOMAIN frame.events : frame.events[k] = w })
    <3>1. \A w \in EventWords : n(w) \in Nat
      BY CountType
    <3>2. calEventSet' = IF acqStdMode THEN calEventSet
                         ELSE [w \in EventWords |-> calEventSet[w] + n(w)]
      BY <1>1
    <3> HIDE DEF n
    <3> QED
      BY <3>1, <3>2 DEF WriterInv, StepOK
  <2> HIDE DEF missing
  <2> QED
    BY <1>4, <2>1, <2>2, <2>3, <2>4, <2>5, <2>6 DEF WriterInv, StepOK
<1>7. dataFile' = dataFile \o marker \o record
  BY <1>1
<1> HIDE DEF missing, marker, record
<1>8. /\ dataFile' \in Seq(Frames \cup Counts)
      /\ Len(dataFile') \in Nat /\ Len(dataFile) \in Nat
      /\ Len(dataFile') >= Len(dataFile)
      /\ acqStdMode => dataFile' \in Seq(Frames)
  <2>1. marker \in Seq(Frames \cup Counts) /\ record \in Seq(Frames \cup Counts)
    BY <1>5
  <2> DEFINE R == Frames \cup Counts
  <2>2. dataFile \in Seq(R) /\ marker \in Seq(R) /\ record \in Seq(R)
    BY <2>1 DEF WriterInv, DiskOK
  <2>3. acqStdMode => dataFile \in Seq(Frames)
    BY DEF WriterInv, OfFrames
  <2> HIDE DEF R
  <2>4. dataFile' \in Seq(R) /\ Len(dataFile') = Len(dataFile) + Len(marker) + Len(record)
    BY <1>7, <2>2
  <2>5. Len(marker) \in Nat /\ Len(record) \in Nat /\ Len(dataFile) \in Nat
    BY <2>2
  <2> QED
    BY <1>5, <1>7, <2>3, <2>4, <2>5 DEF R
<1>9. DiskOK' /\ OfFrames'
  BY <1>2, <1>8 DEF WriterInv, DiskOK, OfFrames
<1>10. acquired' \in Seq(Seq(Frames)) /\ acquired' # <<>>
  <2>1. /\ Len(acquired) \in 1 .. Len(acquired)
        /\ acquired[Len(acquired)] \in Seq(Frames)
    BY DEF WriterInv
  <2>2. Append(acquired[Len(acquired)], frame) \in Seq(Frames)
    BY <2>1
  <2>3. acquired' = [acquired EXCEPT ![Len(acquired)] = Append(acquired[Len(acquired)], frame)]
    BY <1>1
  <2> QED
    BY <2>1, <2>2, <2>3 DEF WriterInv
<1> QED
  BY <1>2, <1>6, <1>9, <1>10 DEF WriterInv, Places

\* A record of counts is written, and goes to disk at once.
LEMMA WriteCountsKeeps ==
  ASSUME WriterInv, WriteCounts
  PROVE  WriterInv'
<1>1. CASE /\ writer' = "flush"
           /\ UNCHANGED <<acqStdMode, stepVars, diskVars, acquired>>
  BY <1>1 DEF WriterInv, Places, StepOK, DiskOK, OfFrames, stepVars, diskVars
<1>2. ASSUME ~acqStdMode, NEW word \in EventWords,
             dataFile' = Append(dataFile, [word |-> word, freq |-> calEventSet[word]]),
             calEventSet' = [calEventSet EXCEPT ![word] = 0],
             onDisk' = Len(dataFile'), UNCHANGED writer
      PROVE  WriterInv'
  <2>1. /\ writer = "close"
        /\ UNCHANGED <<acqStdMode, lastFrameID, stepFirstFrameID, lastFrameType,
                       stepAllFrames, stepLostFrames0, stepLostFramesN, indexFile,
                       indexOnDisk, stepStartOffset, acquired>>
    BY DEF WriteCounts
  <2>3. [word |-> word, freq |-> calEventSet[word]] \in Counts
    BY DEF WriterInv, StepOK, Counts
  <2>4. calEventSet' \in [EventWords -> Nat]
    BY <1>2 DEF WriterInv, StepOK
  <2>5. /\ dataFile' \in Seq(Frames \cup Counts)
        /\ Len(dataFile') = Len(dataFile) + 1 /\ Len(dataFile) \in Nat
    BY <1>2, <2>3 DEF WriterInv, DiskOK
  <2>6. StepOK'
    BY <2>1, <2>4 DEF WriterInv, StepOK
  <2>7. DiskOK'
    <3>1. onDisk' \in 0 .. Len(dataFile') /\ stepStartOffset' \in 0 .. Len(dataFile')
      BY <1>2, <2>1, <2>5 DEF WriterInv, DiskOK
    <3> QED
      BY <2>1, <2>5, <3>1 DEF WriterInv, DiskOK
  <2>8. \A i \in 1 .. Len(indexFile) : indexFile[i].end <= onDisk'
    <3>1. onDisk \in Nat /\ onDisk <= onDisk' /\ onDisk' \in Nat
      BY <1>2, <2>5 DEF WriterInv, DiskOK
    <3>2. \A i \in 1 .. Len(indexFile) : indexFile[i].end \in Nat
      BY LineEnds DEF WriterInv, DiskOK
    <3>3. \A i \in 1 .. Len(indexFile) : indexFile[i].end <= onDisk
      BY DEF WriterInv
    <3> QED
      BY <3>1, <3>2, <3>3
  <2> QED
    BY <1>2, <2>1, <2>6, <2>7, <2>8 DEF WriterInv, Places, OfFrames
<1>3. \/ /\ writer' = "flush"
         /\ UNCHANGED <<calEventSet, dataFile, onDisk>>
      \/ /\ ~acqStdMode
         /\ \E word \in EventWords :
              /\ dataFile' = Append(dataFile, [word |-> word, freq |-> calEventSet[word]])
              /\ calEventSet' = [calEventSet EXCEPT ![word] = 0]
         /\ onDisk' = Len(dataFile') /\ UNCHANGED writer
  BY DEF WriteCounts
<1>4. UNCHANGED <<acqStdMode, lastFrameID, stepFirstFrameID, lastFrameType,
                  stepAllFrames, stepLostFrames0, stepLostFramesN, indexFile,
                  indexOnDisk, stepStartOffset, acquired>>
  BY DEF WriteCounts
<1> QED
  BY <1>1, <1>2, <1>3, <1>4 DEF stepVars, diskVars

\* Every other step of the writer: it flushes, adds a line that speaks of what it
\* has flushed, starts afresh, or dies.
LEMMA WriterKeeps ==
  ASSUME WriterInv, WriterNext
  PROVE  WriterInv'
<1> USE DEF WriterInv
<1>1. CASE ReadHeader
  BY <1>1 DEF ReadHeader, Places, StepOK, DiskOK, OfFrames, stepVars, diskVars
<1>2. CASE WriteFrame
  BY <1>2, WriteFrameKeeps
<1>3. CASE WriteCounts
  BY <1>3, WriteCountsKeeps
<1>4. CASE FlushData
  <2>1. Len(dataFile) \in Nat /\ onDisk \in Nat /\ onDisk <= Len(dataFile)
    BY DEF DiskOK
  <2>2. \A i \in 1 .. Len(indexFile) : indexFile[i].end \in Nat
    BY LineEnds DEF DiskOK
  <2>3. DiskOK'
    BY <1>4, <2>1 DEF FlushData, DiskOK
  <2>4. \A i \in 1 .. Len(indexFile) : indexFile[i].end <= onDisk'
    BY <1>4, <2>1, <2>2 DEF FlushData
  <2> QED
    BY <1>4, <2>3, <2>4 DEF FlushData, Places, StepOK, OfFrames, stepVars
<1>5. CASE WriteIndexLine
  <2> DEFINE line == [begin |-> stepStartOffset, end |-> Len(dataFile),
                      first |-> stepFirstFrameID, last |-> lastFrameID]
  <2>1. /\ indexFile' = Append(indexFile, line)
        /\ writer = "line" /\ writer' = "flushIndex"
        /\ UNCHANGED <<acqStdMode, stepVars, dataFile, onDisk, indexOnDisk,
                       stepStartOffset, acquired>>
    BY <1>5 DEF WriteIndexLine
  <2>2. line \in Lines /\ line.end = onDisk
    BY <2>1 DEF DiskOK, StepOK, Lines
  <2> HIDE DEF line
  <2>3. /\ indexFile' \in Seq(Lines) /\ Len(indexFile') = Len(indexFile) + 1
        /\ Len(indexFile) \in Nat
        /\ \A i \in 1 .. Len(indexFile') :
             indexFile'[i] = IF i <= Len(indexFile) THEN indexFile[i] ELSE line
    BY <2>1, <2>2 DEF DiskOK
  <2>4. DiskOK'
    BY <2>1, <2>3 DEF DiskOK
  <2>5. \A i \in 1 .. Len(indexFile') : indexFile'[i].end <= onDisk
    <3>1. onDisk <= onDisk
      BY DEF DiskOK
    <3> QED
      BY <2>2, <2>3, <3>1
  <2> QED
    BY <2>1, <2>4, <2>5 DEF Places, StepOK, OfFrames, stepVars
<1>6. CASE FlushIndex
  <2>1. acquired' \in Seq(Seq(Frames)) /\ acquired' # <<>>
    BY <1>6 DEF FlushIndex
  <2>2. StepOK'
    BY <1>6 DEF FlushIndex, ResetStep, StepOK
  <2>3. DiskOK'
    BY <1>6 DEF FlushIndex, DiskOK
  <2> QED
    BY <1>6, <2>1, <2>2, <2>3 DEF FlushIndex, Places, OfFrames
<1>7. CASE FullBuffer
  <2>1. PICK count \in (onDisk + 1) .. Len(dataFile) : onDisk' = count
    BY <1>7 DEF FullBuffer
  <2>2. /\ Len(dataFile) \in Nat /\ onDisk \in Nat /\ onDisk' \in Nat
        /\ onDisk < onDisk' /\ onDisk' <= Len(dataFile)
    BY <2>1 DEF DiskOK
  <2>3. \A i \in 1 .. Len(indexFile) : indexFile[i].end \in Nat
    BY LineEnds DEF DiskOK
  <2>4. DiskOK'
    BY <1>7, <2>2 DEF FullBuffer, DiskOK
  <2>5. \A i \in 1 .. Len(indexFile) : indexFile[i].end <= onDisk'
    BY <2>2, <2>3
  <2>6. writer # "line"
    BY <2>2
  <2> QED
    BY <1>7, <2>4, <2>5, <2>6 DEF FullBuffer, StepOK, OfFrames, stepVars
<1>8. CASE Killed
  BY <1>8 DEF Killed, Places, StepOK, DiskOK, OfFrames, stepVars, diskVars
<1> QED
  BY <1>1, <1>2, <1>3, <1>4, <1>5, <1>6, <1>7, <1>8 DEF WriterNext

\* What is on disk stays there.
LEMMA OnDiskGrows ==
  ASSUME WriterInv, WriterNext
  PROVE  onDisk' >= onDisk /\ onDisk' \in Nat /\ acqStdMode' = acqStdMode
<1>1. onDisk \in Nat /\ Len(dataFile) \in Nat /\ onDisk <= Len(dataFile)
  BY DEF WriterInv, DiskOK
<1>2. acqStdMode' = acqStdMode
  BY DEF WriterNext, ReadHeader, WriteFrame, WriteCounts, FlushData,
         WriteIndexLine, FlushIndex, FullBuffer, Killed
<1>3. CASE UNCHANGED onDisk
  BY <1>1, <1>2, <1>3
<1>4. CASE WriteCounts
  <2>1. \/ UNCHANGED onDisk
        \/ \E x : dataFile' = Append(dataFile, x) /\ onDisk' = Len(dataFile')
    BY <1>4 DEF WriteCounts
  <2> QED
    BY <1>1, <1>2, <1>3, <2>1 DEF WriterInv, DiskOK
<1>5. CASE FlushData
  BY <1>1, <1>2, <1>5 DEF FlushData
<1>6. CASE FullBuffer
  BY <1>1, <1>2, <1>6 DEF FullBuffer
<1> QED
  BY <1>3, <1>4, <1>5, <1>6
     DEF WriterNext, ReadHeader, WriteFrame, WriteIndexLine, FlushIndex, Killed,
         diskVars

-----------------------------------------------------------------------------
(* The reader.                                                             *)

\* Its variables.  It has never counted a frame as lost with all its data,
\* because it passes over a frame without events before it counts.
ReadOK ==
  /\ currentPosition \in Nat
  /\ outBuffer \in Blocks \cup {NULL}
  /\ prevFrameID \in IDs \cup {-1} /\ lastFrameWasLost0 = FALSE
  /\ nFrameLost0 \in Nat /\ nFrameLostN \in Nat
  /\ sink \in Seq(Blocks)

\* The inductive invariant of both.
RawInv ==
  /\ WriterInv /\ ReadOK
  /\ reader \in {"closed", "open", "read", "done"}
  /\ reader # "closed" => acqStdMode
  /\ reader = "read" => step \in 1 .. Len(steps)
  /\ steps \in Seq(Lines) /\ step \in Nat
  /\ \A i \in 1 .. Len(steps) : steps[i].end <= onDisk

\* The types and offsets of both are right at the start, ...
LEMMA RawInvInit == Init => RawInv
<1> SUFFICES ASSUME Init PROVE RawInv
  OBVIOUS
<1>1. WriterInv
  BY WriterInvInit DEF Init
<1> QED
  BY <1>1 DEF Init, RawInv, ReadOK

\* The reader finds a frame before the end of what is on disk.
LEMMA FrameThere ==
  ASSUME RawInv, InStep, CanRead
  PROVE  dataFile[currentPosition + 1] \in Frames
<1> DEFINE F == Frames
<1>1. dataFile \in Seq(F) /\ currentPosition \in Nat
  BY DEF RawInv, WriterInv, OfFrames, ReadOK, InStep
<1>2. onDisk \in 0 .. Len(dataFile) /\ currentPosition < onDisk
  BY DEF RawInv, WriterInv, DiskOK, CanRead
<1> HIDE DEF F
<1>3. currentPosition + 1 \in 1 .. Len(dataFile)
  BY <1>1, <1>2
<1>4. dataFile[currentPosition + 1] \in F
  BY <1>1, <1>3
<1> QED
  BY <1>4 DEF F

\* A block that has been begun is one.
LEMMA NullIsNoBlock ==
  ASSUME RawInv, outBuffer # NULL
  PROVE  outBuffer \in Blocks
  BY DEF RawInv, ReadOK

\* The frame's hits are put into a block, and the block before it is passed on.
LEMMA ReadFrameKeeps ==
  ASSUME RawInv, ReadFrame
  PROVE  ReadOK'
<1> DEFINE frame == dataFile[currentPosition + 1]
           tMin  == IF StartsBlock(frame) THEN frame.id ELSE outBuffer.tMin
           hits  == IF StartsBlock(frame) THEN <<>> ELSE outBuffer.hits
           H     == [frame : Int, word : EventWords]
<1>1. frame \in Frames /\ frame.events # <<>>
  BY FrameThere DEF ReadFrame
<1>2. frame.id \in IDs /\ frame.id \in Int /\ frame.events \in Seq(EventWords)
  BY <1>1, EventsType, WriterAssumption DEF IDs
<1>3. NWords(frame) # 0
  <2> DEFINE e == frame.events
  <2>1. e \in Seq(EventWords) /\ e # <<>>
    BY <1>1, <1>2
  <2> HIDE DEF e
  <2>2. Len(e) \in Nat /\ Len(e) # 0
    BY <2>1
  <2> QED
    BY <2>2 DEF NWords, e
<1>4. /\ sink' = IF outBuffer # NULL /\ StartsBlock(frame)
                THEN Append(sink, outBuffer) ELSE sink
      /\ outBuffer' = [tMin |-> tMin, tMax |-> frame.id + 1,
                       hits |-> hits \o Hits(frame, tMin)]
      /\ currentPosition' = currentPosition + 1
  BY DEF ReadFrame
<1>5. /\ lastFrameWasLost0' = FALSE
      /\ nFrameLost0' = nFrameLost0
      /\ nFrameLostN' \in {nFrameLostN, nFrameLostN + 1}
      /\ prevFrameID' = frame.id
  <2>1. /\ lastFrameWasLost0' = (frame.lost /\ NWords(frame) = 0)
        /\ nFrameLost0' = nFrameLost0
             + (IF frame.id # prevFrameID + 1 /\ lastFrameWasLost0
                THEN frame.id - prevFrameID - 1 ELSE 0)
             + (IF frame.lost /\ NWords(frame) = 0 THEN 1 ELSE 0)
        /\ nFrameLostN' = nFrameLostN
             + (IF frame.lost /\ ~(frame.lost /\ NWords(frame) = 0) THEN 1 ELSE 0)
        /\ prevFrameID' = frame.id
    BY DEF ReadFrame
  <2>2. nFrameLost0 \in Nat /\ nFrameLostN \in Nat /\ lastFrameWasLost0 = FALSE
    BY DEF RawInv, ReadOK
  <2>3. lastFrameWasLost0' = FALSE /\ prevFrameID' = frame.id
    BY <1>3, <2>1
  <2> HIDE DEF frame
  <2>4. nFrameLost0' = nFrameLost0 + 0 + 0
    BY <1>3, <2>1, <2>2
  <2>5. nFrameLostN' = nFrameLostN + (IF frame.lost THEN 1 ELSE 0)
    BY <1>3, <2>1, <2>2
  <2> QED
    BY <2>2, <2>3, <2>4, <2>5
<1>6. tMin \in IDs /\ hits \in Seq(H)
  <2>1. CASE StartsBlock(frame)
    BY <1>2, <2>1
  <2>2. CASE ~StartsBlock(frame)
    <3>1. outBuffer \in Blocks
      BY <2>2, NullIsNoBlock DEF StartsBlock
    <3> QED
      BY <2>2, <3>1 DEF Blocks
  <2> QED
    BY <2>1, <2>2
<1> HIDE DEF tMin, hits
<1>7. Hits(frame, tMin) \in Seq(H)
  BY <1>1, <1>6, HitsType
<1> HIDE DEF H
<1>8. hits \o Hits(frame, tMin) \in Seq(H)
  BY <1>6, <1>7
<1>9. outBuffer' \in Blocks
  <2>1. frame.id + 1 \in 1 .. (MaxFrameID + 1)
    BY <1>2, WriterAssumption DEF IDs
  <2> QED
    BY <1>4, <1>6, <1>8, <2>1 DEF Blocks, H
<1>10. sink' \in Seq(Blocks)
  <2> DEFINE B == Blocks
  <2>1. sink \in Seq(B) /\ (outBuffer # NULL => outBuffer \in B)
    BY NullIsNoBlock DEF RawInv, ReadOK
  <2> HIDE DEF B
  <2>2. sink' \in Seq(B)
    BY <1>4, <2>1
  <2> QED
    BY <2>2 DEF B
<1> QED
  BY <1>2, <1>4, <1>5, <1>9, <1>10 DEF RawInv, ReadOK

\* A step of either keeps the invariant.
LEMMA RawInvNext ==
  ASSUME RawInv, [Next]_vars
  PROVE  RawInv'
<1>1. CASE WriterNext /\ UNCHANGED readerVars
  <2>1. WriterInv' /\ onDisk' >= onDisk /\ onDisk' \in Nat /\ acqStdMode' = acqStdMode
    BY <1>1, WriterKeeps, OnDiskGrows DEF RawInv
  <2>2. UNCHANGED <<reader, steps, step, currentPosition, outBuffer, prevFrameID,
                    lastFrameWasLost0, nFrameLost0, nFrameLostN, sink>>
    BY <1>1 DEF readerVars, readVars
  <2>3. \A i \in 1 .. Len(steps) : steps[i].end <= onDisk'
    <3>1. \A i \in 1 .. Len(steps) : steps[i].end \in Nat
      BY LineEnds DEF RawInv
    <3>2. onDisk \in Nat
      BY DEF RawInv, WriterInv, DiskOK
    <3> QED
      BY <2>1, <3>1, <3>2 DEF RawInv
  <2> QED
    BY <2>1, <2>2, <2>3 DEF RawInv, ReadOK
<1>2. ASSUME UNCHANGED writerVars
      PROVE  WriterInv'
  BY <1>2 DEF RawInv, WriterInv, writerVars, stepVars, diskVars, StepOK, DiskOK,
              OfFrames
<1>3. CASE OpenFile
  <2>1. /\ acqStdMode /\ steps' = SubSeq(indexFile, 1, indexOnDisk)
        /\ reader' = "open" /\ UNCHANGED <<writerVars, step, readVars>>
    BY <1>3 DEF OpenFile
  <2>2. /\ steps' \in Seq(Lines)
        /\ \A i \in 1 .. Len(steps') : steps'[i].end <= onDisk
    <3> DEFINE L == Lines
    <3>1. indexFile \in Seq(L) /\ indexOnDisk \in 0 .. Len(indexFile)
      BY DEF RawInv, WriterInv, DiskOK
    <3> HIDE DEF L
    <3>2. /\ steps' \in Seq(L) /\ Len(steps') = indexOnDisk
          /\ \A i \in 1 .. indexOnDisk : steps'[i] = indexFile[i]
      BY <2>1, <3>1
    <3>3. \A i \in 1 .. indexOnDisk : indexFile[i].end <= onDisk
      BY <3>1 DEF RawInv, WriterInv
    <3> QED
      BY <3>2, <3>3 DEF L
  <2>3. UNCHANGED <<onDisk, acqStdMode>> /\ ReadOK'
    BY <2>1 DEF writerVars, diskVars, readVars, RawInv, ReadOK
  <2> QED
    BY <1>2, <2>1, <2>2, <2>3 DEF RawInv
<1>4. CASE ProcessStep
  <2>1. PICK n \in 1 .. Len(steps) : step' = n /\ currentPosition' = steps[n].begin
    BY <1>4 DEF ProcessStep
  <2>2. steps[n].begin \in Nat /\ n \in Nat
    <3> DEFINE L == Lines
    <3>1. steps \in Seq(L)
      BY DEF RawInv
    <3> HIDE DEF L
    <3>2. steps[n] \in L
      BY <3>1
    <3> QED
      BY <3>1, <3>2 DEF L, Lines
  <2>3. ReadOK'
    BY <1>4, <2>1, <2>2 DEF ProcessStep, StartOfStep, ReadOK
  <2>4. /\ reader # "closed" /\ reader' = "read"
        /\ UNCHANGED <<writerVars, steps>>
    BY <1>4 DEF ProcessStep
  <2> QED
    BY <1>2, <2>1, <2>2, <2>3, <2>4 DEF RawInv, writerVars, diskVars
<1>5. CASE SkipEmptyFrame
  BY <1>2, <1>5 DEF SkipEmptyFrame, RawInv, ReadOK, writerVars, diskVars
<1>6. CASE ReadFrame
  <2>1. UNCHANGED <<writerVars, reader, steps, step>>
    BY <1>6 DEF ReadFrame
  <2> QED
    BY <1>2, <1>6, <2>1, ReadFrameKeeps DEF RawInv, writerVars, diskVars
<1>7. CASE EndStep
  <2>1. sink' \in Seq(Blocks) /\ outBuffer' = NULL
    BY <1>7, NullIsNoBlock DEF EndStep, RawInv, ReadOK
  <2> QED
    BY <1>2, <1>7, <2>1 DEF EndStep, RawInv, ReadOK, writerVars, diskVars
<1>8. CASE UNCHANGED vars
  BY <1>2, <1>8 DEF vars, readerVars, readVars, RawInv, ReadOK, writerVars, diskVars
<1> QED
  BY <1>1, <1>3, <1>4, <1>5, <1>6, <1>7, <1>8 DEF Next, ReaderNext

\* ... and so in every state.
LEMMA RawInvAlways == Spec => []RawInv
<1>1. Init => RawInv
  BY RawInvInit
<1>2. RawInv /\ [Next]_vars => RawInv'
  BY RawInvNext
<1> QED
  BY <1>1, <1>2, PTL DEF Spec

-----------------------------------------------------------------------------
\* Every variable of writer and reader stays in its type.
THEOREM RawTypes == Spec => []TypeOK
<1>1. RawInv => TypeOK
  BY WriterParts DEF RawInv, WriterInv, ReadOK, TypeOK
<1> QED
  BY <1>1, RawInvAlways, PTL

\* What the index file says, and what the reader has found in it, is about data on
\* disk: a reader never finds less than it has been told of, whenever it reads and
\* whenever the writer is killed.
THEOREM DataIsThere == Spec => []IndexIsTrue
<1>1. RawInv => IndexIsTrue
  BY DEF RawInv, WriterInv, IndexIsTrue
<1> QED
  BY <1>1, RawInvAlways, PTL

\* The assertion in readFromDataFile never fails.
THEOREM ReaderNeverAborts == Spec => []NeverAborts
<1>1. ASSUME RawInv, InStep PROVE CanRead
  <2>1. step \in 1 .. Len(steps) /\ steps \in Seq(Lines)
    BY <1>1 DEF InStep, RawInv
  <2>2. steps[step].end <= onDisk /\ steps[step].end \in Nat
    BY <1>1, <2>1, LineEnds DEF RawInv
  <2>3. onDisk \in Nat /\ currentPosition \in Nat
    BY <1>1 DEF RawInv, WriterInv, DiskOK, ReadOK
  <2> QED
    BY <1>1, <2>2, <2>3 DEF InStep, CanRead
<1>2. RawInv => NeverAborts
  BY <1>1 DEF NeverAborts
<1> QED
  BY <1>2, RawInvAlways, PTL

-----------------------------------------------------------------------------
(* The writer's account of a step.                                         *)

\* A frame that has lost all its events.
Empty(frame) == frame.lost /\ frame.events = <<>>

\* What a step of one frame misses.
LEMMA MissingFirst ==
  ASSUME NEW frame \in Frames
  PROVE  MissingAll(Append(<<>>, frame)) = IF Empty(frame) THEN {frame.id} ELSE {}
<1>1. frame.id \in Int
  BY EventsType, WriterAssumption DEF IDs
<1>2. PICK s : s = Append(<<>>, frame)
  OBVIOUS
<1>3. DOMAIN s = {1} /\ Len(s) = 1 /\ s[1] = frame
  BY <1>2
<1>4. MissingAll(s) = { id \in frame.id .. frame.id : frame.id = id => Empty(frame) }
  BY <1>3 DEF MissingAll, Empty
<1> QED
  BY <1>1, <1>2, <1>4

\* A frame that is later than all before adds the IDs between, and perhaps its own.
LEMMA MissingNext ==
  ASSUME NEW frames \in Seq(Frames), frames # <<>>, NEW frame \in Frames,
         Ascending(Append(frames, frame)),
         NEW last, last = frames[Len(frames)].id
  PROVE  /\ Ascending(frames) /\ last < frame.id
         /\ IsFiniteSet(MissingAll(frames)) /\ Cardinality(MissingAll(frames)) \in Nat
         /\ Cardinality(MissingAll(Append(frames, frame))) =
              Cardinality(MissingAll(frames)) + (frame.id - last - 1)
                + (IF Empty(frame) THEN 1 ELSE 0)
<1> DEFINE F == Frames
<1>1. frames \in Seq(F) /\ frame \in F
  OBVIOUS
<1>2. \A f \in F : f.id \in Int
  BY EventsType, WriterAssumption DEF IDs
<1> HIDE DEF F
<1>3. PICK n \in Nat \ {0} : n = Len(frames)
  BY <1>1
<1>4. PICK s : s = Append(frames, frame)
  OBVIOUS
<1>5. /\ DOMAIN frames = 1 .. n /\ DOMAIN s = 1 .. (n + 1) /\ Len(s) = n + 1
      /\ s[n + 1] = frame /\ \A i \in 1 .. n : s[i] = frames[i] /\ frames[i] \in F
  BY <1>1, <1>3, <1>4
<1>6. Ascending(frames)
  BY <1>4, <1>5 DEF Ascending
<1>7. \A i \in 1 .. n : frames[i].id < frame.id /\ frames[i].id <= last /\ frames[1].id <= frames[i].id
  <2> SUFFICES ASSUME NEW i \in 1 .. n
               PROVE  frames[i].id < frame.id /\ frames[i].id <= last /\ frames[1].id <= frames[i].id
    OBVIOUS
  <2>1. s[i].id < s[n + 1].id
    BY <1>4, <1>5 DEF Ascending
  <2>2. i = n \/ frames[i].id < frames[n].id
    BY <1>5, <1>6 DEF Ascending
  <2>3. i = 1 \/ frames[1].id < frames[i].id
    BY <1>5, <1>6 DEF Ascending
  <2>4. frames[i].id \in Int /\ frames[1].id \in Int /\ frames[n].id \in Int
    BY <1>2, <1>5
  <2> QED
    BY <1>3, <1>5, <2>1, <2>2, <2>3, <2>4
<1>8. PICK lo \in Int, hi \in Int : lo = frames[1].id /\ hi = frame.id
  BY <1>1, <1>2, <1>5
<1>9. last \in Int /\ lo <= last /\ last < hi
  BY <1>2, <1>3, <1>5, <1>7, <1>8
<1> DEFINE old     == MissingAll(frames)
           between == (last + 1) .. (hi - 1)
           own     == IF Empty(frame) THEN {hi} ELSE {}
<1>10. old \subseteq lo .. last
  BY <1>3, <1>8 DEF MissingAll
<1>11. MissingAll(s) = (old \cup between) \cup own
  <2>1. MissingAll(s) = { id \in lo .. hi : \A i \in 1 .. (n + 1) : s[i].id = id => Empty(s[i]) }
    BY <1>5, <1>8 DEF MissingAll, Empty
  <2>2. MissingAll(frames) = { id \in lo .. last : \A i \in 1 .. n : frames[i].id = id => Empty(frames[i]) }
    BY <1>3, <1>5, <1>8 DEF MissingAll, Empty
  <2>3. ASSUME NEW id \in lo .. last
        PROVE  id \in MissingAll(s) <=> id \in old
    <3>1. id # hi
      BY <1>9
    <3>2. (\A i \in 1 .. (n + 1) : s[i].id = id => Empty(s[i]))
             <=> \A i \in 1 .. n : frames[i].id = id => Empty(frames[i])
      BY <1>5, <1>8, <3>1
    <3>3. id \in lo .. hi
      BY <1>9
    <3> QED
      BY <2>1, <2>2, <3>2, <3>3
  <2>4. ASSUME NEW id \in between
        PROVE  id \in MissingAll(s)
    <3>1. \A i \in 1 .. (n + 1) : s[i].id # id
      <4> SUFFICES ASSUME NEW i \in 1 .. (n + 1) PROVE s[i].id # id
        OBVIOUS
      <4>1. CASE i = n + 1
        BY <1>5, <1>8, <1>9, <4>1
      <4>2. CASE i \in 1 .. n
        <5>1. frames[i].id <= last /\ frames[i].id \in Int
          BY <1>2, <1>5, <1>7, <4>2
        <5> QED
          BY <1>5, <1>9, <4>2, <5>1
      <4> QED
        BY <4>1, <4>2
    <3>2. id \in lo .. hi
      BY <1>9
    <3> QED
      BY <2>1, <3>1, <3>2
  <2>5. hi \in MissingAll(s) <=> Empty(frame)
    <3>1. \A i \in 1 .. n : s[i].id # hi
      <4> SUFFICES ASSUME NEW i \in 1 .. n PROVE s[i].id # hi
        OBVIOUS
      <4>1. frames[i].id < hi /\ frames[i].id \in Int
        BY <1>2, <1>5, <1>7, <1>8
      <4> QED
        BY <1>5, <4>1
    <3>2. (\A i \in 1 .. (n + 1) : s[i].id = hi => Empty(s[i])) <=> Empty(frame)
      BY <1>5, <1>8, <3>1
    <3>3. hi \in lo .. hi
      BY <1>9
    <3> QED
      BY <2>1, <3>2, <3>3
  <2>6. lo .. hi = (lo .. last) \cup between \cup {hi}
    BY <1>9
  <2>7. MissingAll(s) \subseteq lo .. hi
    BY <2>1
  <2> QED
    BY <1>10, <2>3, <2>4, <2>5, <2>6, <2>7
<1>12. IsFiniteSet(old) /\ Cardinality(old) \in Nat
  <2>1. IsFiniteSet(lo .. last)
    BY <1>9, FS_Interval
  <2> QED
    BY <1>10, <2>1, FS_Subset, FS_CardinalityType
<1>13. IsFiniteSet(between) /\ Cardinality(between) = hi - last - 1
  <2>1. last + 1 \in Int /\ hi - 1 \in Int
    BY <1>9
  <2>2. /\ IsFiniteSet(between)
        /\ Cardinality(between) = IF last + 1 > hi - 1 THEN 0 ELSE (hi - 1) - (last + 1) + 1
    BY <2>1, FS_Interval
  <2> QED
    BY <1>9, <2>2, SMTT(30)
<1>14. IsFiniteSet(own) /\ Cardinality(own) = IF Empty(frame) THEN 1 ELSE 0
  BY FS_Singleton, FS_EmptySet
<1>15. old \cap between = {} /\ (old \cup between) \cap own = {}
  BY <1>9, <1>10
<1> HIDE DEF old, between, own
<1>16. /\ IsFiniteSet(old \cup between)
       /\ Cardinality(old \cup between) = Cardinality(old) + (hi - last - 1)
  <2>1. /\ IsFiniteSet(old \cup between)
        /\ Cardinality(old \cup between) =
             Cardinality(old) + Cardinality(between) - Cardinality(old \cap between)
    BY <1>12, <1>13, FS_Union
  <2>2. Cardinality(old \cap between) = 0
    BY <1>15, FS_EmptySet
  <2> QED
    BY <1>9, <1>12, <1>13, <2>1, <2>2
<1>17. Cardinality((old \cup between) \cup own) = Cardinality(old \cup between) + Cardinality(own)
  <2>1. Cardinality((old \cup between) \cup own) =
          Cardinality(old \cup between) + Cardinality(own) - Cardinality((old \cup between) \cap own)
    BY <1>14, <1>16, FS_Union
  <2>2. Cardinality((old \cup between) \cap own) = 0
    BY <1>15, FS_EmptySet
  <2>3. Cardinality(old \cup between) \in Int /\ Cardinality(own) \in Int
    BY <1>9, <1>12, <1>14, <1>16
  <2> QED
    BY <2>1, <2>2, <2>3
<1>18. Cardinality(MissingAll(s)) = Cardinality(old) + (hi - last - 1) + (IF Empty(frame) THEN 1 ELSE 0)
  BY <1>11, <1>14, <1>16, <1>17
<1> QED
  BY <1>3, <1>4, <1>5, <1>6, <1>8, <1>9, <1>12, <1>18 DEF old

\* The counts are about the step that is being acquired, and are right as long as
\* its frames come in order.
Account ==
  writer \in {"read", "frame", "close"} =>
    /\ Current = <<>> =>
         lastFrameID = -1 /\ stepFirstFrameID = -1 /\ stepAllFrames = 0 /\ stepLostFrames0 = 0
    /\ Current # <<>> /\ Ascending(Current) =>
         /\ stepFirstFrameID = Current[1].id
         /\ lastFrameID = Current[Len(Current)].id
         /\ stepAllFrames = lastFrameID - stepFirstFrameID + 1
         /\ stepLostFrames0 = Cardinality(MissingAll(Current))

\* A frame is counted.
LEMMA FrameIsCounted ==
  ASSUME WriterInv, Account, WriteFrame
  PROVE  Account'
<1>1. PICK frame \in Frames :
        /\ acquired' = [acquired EXCEPT ![Len(acquired)] = Append(acquired[Len(acquired)], frame)]
        /\ lastFrameID' = frame.id
        /\ stepFirstFrameID' = IF stepFirstFrameID = -1 THEN frame.id ELSE stepFirstFrameID
        /\ stepAllFrames' = stepAllFrames + (IF Gap(frame) THEN Skipped(frame) ELSE 0) + 1
        /\ stepLostFrames0' = stepLostFrames0 + (IF Gap(frame) THEN Skipped(frame) ELSE 0)
             + (IF Empty(frame) THEN 1 ELSE 0)
  BY DEF WriteFrame, Empty
<1>2. writer = "frame"
  BY DEF WriteFrame
<1>3. /\ acquired \in Seq(Seq(Frames)) /\ acquired # <<>> /\ Current \in Seq(Frames)
      /\ Current' = Append(Current, frame)
  BY <1>1 DEF WriterInv, Current
<1>4. PICK cur \in Seq(Frames) : cur = Current
  BY <1>3
<1>5. /\ Current' = Append(cur, frame) /\ Append(cur, frame) # <<>>
      /\ Append(cur, frame)[Len(Append(cur, frame))] = frame
  BY <1>3, <1>4
<1>6. frame.id \in Int /\ frame.id >= 0
  BY EventsType, WriterAssumption DEF IDs
<1>7. CASE cur = <<>>
  <2>1. lastFrameID = -1 /\ stepFirstFrameID = -1 /\ stepAllFrames = 0 /\ stepLostFrames0 = 0
    BY <1>2, <1>4, <1>7 DEF Account
  <2>2. ~Gap(frame)
    BY <2>1 DEF Gap
  <2>3. /\ lastFrameID' = frame.id /\ stepFirstFrameID' = frame.id /\ stepAllFrames' = 1
        /\ stepLostFrames0' = IF Empty(frame) THEN 1 ELSE 0
    BY <1>1, <2>1, <2>2
  <2>4. Current' = Append(<<>>, frame) /\ Current'[1] = frame
    BY <1>5, <1>7
  <2>5. Cardinality(MissingAll(Append(<<>>, frame))) = IF Empty(frame) THEN 1 ELSE 0
    BY MissingFirst, FS_Singleton, FS_EmptySet
  <2>6. MissingAll(Current)' = MissingAll(Append(<<>>, frame))
    BY <2>4 DEF MissingAll
  <2> QED
    BY <1>5, <1>6, <2>3, <2>4, <2>5, <2>6 DEF Account
<1>8. CASE cur # <<>>
  <2>1. SUFFICES ASSUME Ascending(Append(cur, frame))
                 PROVE  /\ stepFirstFrameID' = Append(cur, frame)[1].id
                        /\ lastFrameID' = frame.id
                        /\ stepAllFrames' = lastFrameID' - stepFirstFrameID' + 1
                        /\ stepLostFrames0' = Cardinality(MissingAll(Append(cur, frame)))
    BY <1>5 DEF Account, Ascending, MissingAll
  <2>2. PICK last : last = cur[Len(cur)].id
    OBVIOUS
  <2>3. /\ Ascending(cur) /\ last < frame.id
        /\ Cardinality(MissingAll(cur)) \in Nat
        /\ Cardinality(MissingAll(Append(cur, frame))) =
              Cardinality(MissingAll(cur)) + (frame.id - last - 1) + (IF Empty(frame) THEN 1 ELSE 0)
    BY <1>8, <2>1, <2>2, MissingNext
  <2>4. /\ stepFirstFrameID = cur[1].id /\ lastFrameID = last
        /\ stepAllFrames = lastFrameID - stepFirstFrameID + 1
        /\ stepLostFrames0 = Cardinality(MissingAll(cur))
    BY <1>2, <1>4, <1>8, <2>2, <2>3 DEF Account
  <2>5. Len(cur) \in Nat /\ 1 \in 1 .. Len(cur) /\ Len(cur) \in 1 .. Len(cur)
    BY <1>8
  <2>6. cur[1] \in Frames /\ cur[Len(cur)] \in Frames /\ Append(cur, frame)[1] = cur[1]
    BY <2>5
  <2>7. cur[1].id \in Int /\ cur[1].id >= 0 /\ last \in Int /\ last >= 0
    BY <2>2, <2>6, EventsType, WriterAssumption DEF IDs
  <2>8. (IF Gap(frame) THEN Skipped(frame) ELSE 0) = frame.id - last - 1
    BY <1>6, <2>3, <2>4, <2>7 DEF Gap, Skipped
  <2>9. stepFirstFrameID' = cur[1].id
    BY <1>1, <2>4, <2>7
  <2>10. stepAllFrames' = stepAllFrames + (frame.id - last - 1) + 1
    BY <1>1, <2>8
  <2>e. PICK own : own = IF Empty(frame) THEN 1 ELSE 0
    OBVIOUS
  <2>11. stepLostFrames0' = stepLostFrames0 + (frame.id - last - 1) + own
    <3>1. stepLostFrames0' = stepLostFrames0 + (IF Gap(frame) THEN Skipped(frame) ELSE 0) + own
      BY <1>1, <2>e
    <3> QED
      BY <2>8, <3>1
  <2>12. stepAllFrames' = frame.id - cur[1].id + 1
    <3>1. PICK first \in Int : first = cur[1].id
      BY <2>7
    <3>2. stepAllFrames = last - first + 1
      BY <2>4, <3>1
    <3> QED
      BY <1>6, <2>7, <2>10, <3>1, <3>2, SMTT(30)
  <2>13. stepLostFrames0' = Cardinality(MissingAll(Append(cur, frame)))
    BY <2>3, <2>4, <2>e, <2>11
  <2> QED
    BY <1>1, <2>6, <2>9, <2>12, <2>13
<1> QED
  BY <1>7, <1>8

\* No step breaks the account.
LEMMA AccountStep ==
  ASSUME WriterInv, Account, WriterNext
  PROVE  Account'
<1>1. CASE WriteFrame
  BY <1>1, FrameIsCounted
<1>2. CASE FlushIndex
  <2>1. Current' = <<>>
    BY <1>2 DEF FlushIndex, Current, WriterInv
  <2> QED
    BY <1>2, <2>1 DEF FlushIndex, ResetStep, Account
<1>3. CASE ReadHeader \/ WriteCounts \/ FlushData \/ WriteIndexLine \/ FullBuffer \/ Killed
  <2>1. UNCHANGED <<acquired, lastFrameID, stepFirstFrameID, stepAllFrames, stepLostFrames0>>
    BY <1>3 DEF ReadHeader, WriteCounts, FlushData, WriteIndexLine, FullBuffer, Killed, stepVars
  <2>2. writer' \in {"read", "frame", "close"} => writer \in {"read", "frame", "close"}
    BY <1>3 DEF ReadHeader, WriteCounts, FlushData, WriteIndexLine, FullBuffer, Killed
  <2>3. Current' = Current
    BY <2>1 DEF Current
  <2>4. Ascending(Current)' = Ascending(Current) /\ MissingAll(Current)' = MissingAll(Current)
    BY <2>3 DEF Ascending, MissingAll
  <2> QED
    BY <2>1, <2>2, <2>3, <2>4 DEF Account
<1> QED
  BY <1>1, <1>2, <1>3 DEF WriterNext

\* The writer's account of a step is right: each ID between the first and the last
\* has been counted once, and as lost if it is missing.
THEOREM StepsAreAccounted == Spec => []AccountIsRight
<1>1. Init => RawInv /\ Account
  BY RawInvInit DEF Init, WriterInit, Account, Current
<1>2. RawInv /\ Account /\ [Next]_vars => RawInv' /\ Account'
  <2> SUFFICES ASSUME RawInv, Account, [Next]_vars
               PROVE  Account'
    BY RawInvNext
  <2>1. CASE WriterNext
    BY <2>1, AccountStep DEF RawInv
  <2>2. CASE UNCHANGED writerVars
    <3>1. UNCHANGED <<writer, acquired, lastFrameID, stepFirstFrameID, stepAllFrames, stepLostFrames0>>
      BY <2>2 DEF writerVars, stepVars
    <3>2. Current' = Current
      BY <3>1 DEF Current
    <3>3. Ascending(Current)' = Ascending(Current) /\ MissingAll(Current)' = MissingAll(Current)
      BY <3>2 DEF Ascending, MissingAll
    <3> QED
      BY <3>1, <3>2, <3>3 DEF Account
  <2> QED
    BY <2>1, <2>2 DEF Next, ReaderNext, OpenFile, ProcessStep, SkipEmptyFrame, ReadFrame, EndStep, vars
<1>3. RawInv /\ Account => AccountIsRight
  BY DEF Account, AccountIsRight
<1> QED
  BY <1>1, <1>2, <1>3, PTL DEF Spec

-----------------------------------------------------------------------------
(* Sequences put one after the other.                                      *)

\* A set that has 0, and with each number the next, has all.
LEMMA SetInduction ==
  ASSUME NEW S, 0 \in S, \A n \in Nat : n \in S => n + 1 \in S
  PROVE  Nat \subseteq S
<1> SUFFICES ASSUME Nat \ S # {} PROVE FALSE
  OBVIOUS
<1>1. PICK m \in Nat \ S : \A y \in Nat \ S : ~(<<y, m>> \in OpToRel(<, Nat))
  BY NatLessThanWellFounded, WFMin, Zenon
<1>2. m - 1 \in Nat
  OBVIOUS
<1>3. ~(m - 1 \in S)
  BY <1>2
<1>4. m - 1 < m
  OBVIOUS
<1> QED
  BY <1>1, <1>2, <1>3, <1>4 DEF OpToRel

\* The types of what is made of sequences.
LEMMA ConcatType ==
  ASSUME NEW X, NEW a \in Seq(X), NEW b \in Seq(X)
  PROVE  a \o b \in Seq(X)
OBVIOUS

\* What Append makes.
LEMMA AppendType ==
  ASSUME NEW Y, NEW s \in Seq(Y), NEW t \in Y
  PROVE  /\ Append(s, t) \in Seq(Y)
         /\ Len(Append(s, t)) = Len(s) + 1
         /\ Append(s, t)[Len(s) + 1] = t
         /\ \A i \in 1 .. Len(s) : Append(s, t)[i] = s[i]
OBVIOUS

\* A sequence without members.
LEMMA EmptySeq ==
  ASSUME NEW Y, NEW s \in Seq(Y), Len(s) = 0
  PROVE  s = <<>>
OBVIOUS

\* f[i] is the first i members of s, put one after the other.
Flattens(f, s, n) ==
  \A i \in 1 .. n : f[i] = IF i = 1 THEN s[i] ELSE f[i - 1] \o s[i]

\* There is such a function ...
LEMMA FlattensExists ==
  ASSUME NEW X, NEW s \in Seq(Seq(X)), NEW n \in Nat, n <= Len(s)
  PROVE  \E f \in [1 .. n -> Seq(X)] : Flattens(f, s, n)
<1> DEFINE S == { k \in Nat : k <= Len(s) => \E f \in [1 .. k -> Seq(X)] : Flattens(f, s, k) }
<1>1. 0 \in S
  <2>1. [i \in 1 .. 0 |-> <<>>] \in [1 .. 0 -> Seq(X)]
    OBVIOUS
  <2>2. Flattens([i \in 1 .. 0 |-> <<>>], s, 0)
    BY DEF Flattens
  <2> QED
    BY <2>1, <2>2
<1>2. ASSUME NEW k \in Nat, k \in S, k + 1 <= Len(s)
      PROVE  \E f \in [1 .. (k + 1) -> Seq(X)] : Flattens(f, s, k + 1)
  <2>1. PICK f \in [1 .. k -> Seq(X)] : Flattens(f, s, k)
    BY <1>2
  <2>2. PICK y \in Seq(X) : y = IF k = 0 THEN s[1] ELSE f[k] \o s[k + 1]
    <3>1. s[k + 1] \in Seq(X)
      <4> DEFINE Y == Seq(X)
      <4>1. s \in Seq(Y)
        OBVIOUS
      <4> HIDE DEF Y
      <4>2. s[k + 1] \in Y
        BY <1>2, <4>1
      <4> QED
        BY <4>2 DEF Y
    <3>2. CASE k = 0
      BY <3>1, <3>2
    <3>3. CASE k # 0
      <4>1. k \in 1 .. k
        BY <3>3
      <4>2. f[k] \in Seq(X)
        BY <4>1
      <4>3. f[k] \o s[k + 1] \in Seq(X)
        BY <3>1, <4>2, ConcatType
      <4> QED
        BY <3>3, <4>3
    <3> QED
      BY <3>2, <3>3
  <2>3. PICK g : g = [i \in 1 .. (k + 1) |-> IF i = k + 1 THEN y ELSE f[i]]
    OBVIOUS
  <2>4. g \in [1 .. (k + 1) -> Seq(X)]
    BY <2>3
  <2>5. Flattens(g, s, k + 1)
    <3> SUFFICES ASSUME NEW i \in 1 .. (k + 1)
                 PROVE  g[i] = IF i = 1 THEN s[i] ELSE g[i - 1] \o s[i]
      BY DEF Flattens
    <3>1. CASE i = k + 1
      <4>1. k # 0 => g[k] = f[k]
        BY <2>3
      <4> QED
        BY <2>2, <2>3, <3>1, <4>1
    <3>2. CASE i # k + 1
      <4>1. i \in 1 .. k /\ (i # 1 => i - 1 \in 1 .. k)
        BY <3>2
      <4>2. g[i] = f[i] /\ (i # 1 => g[i - 1] = f[i - 1])
        BY <2>3, <4>1
      <4>3. f[i] = IF i = 1 THEN s[i] ELSE f[i - 1] \o s[i]
        BY <2>1, <4>1 DEF Flattens
      <4> QED
        BY <4>2, <4>3
    <3> QED
      BY <3>1, <3>2
  <2> QED
    BY <2>4, <2>5
<1>3. \A k \in Nat : k \in S => k + 1 \in S
  BY <1>2
<1> HIDE DEF S
<1>4. n \in S
  BY <1>1, <1>3, SetInduction
<1> QED
  BY <1>4 DEF S

\* ... and no other.
LEMMA FlattensUnique ==
  ASSUME NEW s, NEW n \in Nat, NEW f, NEW g, Flattens(f, s, n), Flattens(g, s, n)
  PROVE  \A i \in 1 .. n : f[i] = g[i]
<1> DEFINE S == { k \in Nat : k \in 1 .. n => f[k] = g[k] }
<1>1. 0 \in S
  OBVIOUS
<1>2. ASSUME NEW k \in Nat, k \in S, k + 1 \in 1 .. n
      PROVE  f[k + 1] = g[k + 1]
  <2>1. /\ f[k + 1] = IF k + 1 = 1 THEN s[k + 1] ELSE f[k] \o s[k + 1]
        /\ g[k + 1] = IF k + 1 = 1 THEN s[k + 1] ELSE g[k] \o s[k + 1]
    BY <1>2 DEF Flattens
  <2>2. CASE k = 0
    BY <2>1, <2>2
  <2>3. CASE k # 0
    <3>1. f[k] = g[k]
      BY <1>2, <2>3
    <3> QED
      BY <2>1, <2>3, <3>1
  <2> QED
    BY <2>2, <2>3
<1>3. \A k \in Nat : k \in S => k + 1 \in S
  BY <1>2
<1> HIDE DEF S
<1>4. Nat \subseteq S
  BY <1>1, <1>3, SetInduction
<1> QED
  BY <1>4 DEF S

\* FlattenSeq is the last of its values.
LEMMA FlattenIs ==
  ASSUME NEW X, NEW s \in Seq(Seq(X)), NEW n \in Nat \ {0}, n = Len(s),
         NEW f, Flattens(f, s, n)
  PROVE  FlattenSeq(s) = f[n] /\ f[n] \in Seq(X)
<1>1. PICK g \in [1 .. n -> Seq(X)] : Flattens(g, s, n)
  BY FlattensExists, SMTT(30)
<1>2. g = [i \in 1 .. n |-> IF i = 1 THEN s[i] ELSE g[i - 1] \o s[i]]
  BY <1>1 DEF Flattens
<1>3. PICK h : /\ h = [i \in 1 .. n |-> IF i = 1 THEN s[i] ELSE h[i - 1] \o s[i]]
               /\ FlattenSeq(s) = h[n]
  BY <1>2 DEF FlattenSeq
<1>4. Flattens(h, s, n)
  BY <1>3 DEF Flattens
<1>5. n \in Nat /\ n \in 1 .. n
  OBVIOUS
<1>6. h[n] = f[n]
  <2>1. \A i \in 1 .. n : h[i] = f[i]
    BY <1>4, <1>5, FlattensUnique
  <2> QED
    BY <2>1, <1>5, Zenon
<1>7. g[n] = f[n]
  BY <1>1, <1>5, FlattensUnique
<1> QED
  BY <1>1, <1>3, <1>5, <1>6, <1>7

\* No sequences make none.
LEMMA FlattenEmpty == FlattenSeq(<<>>) = <<>>
  BY DEF FlattenSeq

\* Another sequence at the end comes at the end.
LEMMA FlattenAppend ==
  ASSUME NEW X, NEW s \in Seq(Seq(X)), NEW t \in Seq(X)
  PROVE  /\ FlattenSeq(s) \in Seq(X)
         /\ FlattenSeq(Append(s, t)) = FlattenSeq(s) \o t
<1> DEFINE Y == Seq(X)
<1>1. s \in Seq(Y) /\ t \in Y
  OBVIOUS
<1> HIDE DEF Y
<1>2. PICK n \in Nat : n = Len(s)
  BY <1>1
<1>3. PICK u : u = Append(s, t)
  OBVIOUS
<1>4. /\ u \in Seq(Y) /\ Len(u) = n + 1 /\ u[n + 1] = t
      /\ \A i \in 1 .. n : u[i] = s[i]
  BY <1>1, <1>2, <1>3, AppendType
<1>5. u \in Seq(Seq(X)) /\ n + 1 \in Nat \ {0}
  BY <1>4 DEF Y
<1>6. PICK f \in [1 .. (n + 1) -> Seq(X)] : Flattens(f, u, n + 1)
  BY <1>4, <1>5, FlattensExists, SMTT(30)
<1>7. FlattenSeq(u) = f[n + 1]
  BY <1>4, <1>5, <1>6, FlattenIs
<1>8. f[n + 1] = IF n + 1 = 1 THEN t ELSE f[n] \o t
  <2>1. n + 1 \in 1 .. (n + 1) /\ (n + 1) - 1 = n
    OBVIOUS
  <2>2. f[n + 1] = IF n + 1 = 1 THEN u[n + 1] ELSE f[(n + 1) - 1] \o u[n + 1]
    BY <1>6, <2>1, Zenon DEF Flattens
  <2> QED
    BY <1>4, <2>1, <2>2, Zenon
<1>9. CASE n = 0
  <2>1. s = <<>>
    BY <1>1, <1>2, <1>9, EmptySeq
  <2>2. <<>> \o t = t /\ <<>> \in Seq(X)
    OBVIOUS
  <2>3. f[n + 1] = t
    BY <1>8, <1>9
  <2> QED
    BY <1>3, <1>7, <2>1, <2>2, <2>3, FlattenEmpty, Zenon
<1>10. CASE n # 0
  <2>1. Flattens(f, s, n)
    <3>1. \A i \in 1 .. n : i \in 1 .. (n + 1)
      OBVIOUS
    <3>2. \A i \in 1 .. n : f[i] = IF i = 1 THEN u[i] ELSE f[i - 1] \o u[i]
      BY <1>6, <3>1, Zenon DEF Flattens
    <3> QED
      BY <1>4, <3>2, Zenon DEF Flattens
  <2>2. n \in Nat \ {0}
    BY <1>10
  <2>3. FlattenSeq(s) = f[n] /\ f[n] \in Seq(X)
    BY <1>2, <2>1, <2>2, FlattenIs
  <2>4. f[n + 1] = f[n] \o t
    BY <1>8, <1>10
  <2> QED
    BY <1>3, <1>7, <2>3, <2>4, Zenon
<1> QED
  BY <1>9, <1>10

-----------------------------------------------------------------------------
(* Parts of a sequence.                                                    *)

\* A part of no members, ...
LEMMA SubNone ==
  ASSUME NEW X, NEW s \in Seq(X), NEW n \in Nat
  PROVE  SubSeq(s, n + 1, n) = <<>>
OBVIOUS

\* ... one with the next, ...
LEMMA SubNext ==
  ASSUME NEW X, NEW s \in Seq(X), NEW m \in Nat, NEW n \in Nat, m <= n, n < Len(s)
  PROVE  /\ SubSeq(s, m + 1, n) \in Seq(X)
         /\ SubSeq(s, m + 1, n + 1) = Append(SubSeq(s, m + 1, n), s[n + 1])
OBVIOUS

\* ... one of a sequence that has grown, ...
LEMMA SubKeep ==
  ASSUME NEW X, NEW s \in Seq(X), NEW t \in Seq(X), NEW m \in Nat, NEW n \in Nat,
         n <= Len(s), n <= Len(t), \A i \in 1 .. n : t[i] = s[i]
  PROVE  SubSeq(t, m + 1, n) = SubSeq(s, m + 1, n)
OBVIOUS

\* The members of one sequence and another.
LEMMA ConcatMembers ==
  ASSUME NEW X, NEW s \in Seq(X), NEW u \in Seq(X), NEW n \in Nat, NEW k \in Nat,
         n = Len(s), k = Len(u)
  PROVE  /\ s \o u \in Seq(X) /\ Len(s \o u) = n + k
         /\ \A i \in 1 .. n : (s \o u)[i] = s[i]
         /\ \A i \in 1 .. k : (s \o u)[n + i] = u[i]
OBVIOUS

\* ... and one that grows with it.
LEMMA SubGrow ==
  ASSUME NEW X, NEW s \in Seq(X), NEW u \in Seq(X), NEW m \in Nat, m <= Len(s)
  PROVE  /\ SubSeq(s, m + 1, Len(s)) \in Seq(X)
         /\ SubSeq(s \o u, m + 1, Len(s \o u)) = SubSeq(s, m + 1, Len(s)) \o u
<1>1. PICK a : a = SubSeq(s \o u, m + 1, Len(s \o u))
  OBVIOUS
<1>2. PICK p : p = SubSeq(s, m + 1, Len(s))
  OBVIOUS
<1>3. PICK n \in Nat, k \in Nat : n = Len(s) /\ k = Len(u) /\ m <= n
  OBVIOUS
<1>4. p \in Seq(X) /\ Len(p) = n - m /\ \A i \in 1 .. (n - m) : p[i] = s[m + i]
  BY <1>2, <1>3
<1>5. PICK t : t = s \o u
  OBVIOUS
<1>6. /\ t \in Seq(X) /\ Len(t) = n + k
      /\ \A i \in 1 .. n : t[i] = s[i]
      /\ \A i \in 1 .. k : t[n + i] = u[i]
  BY <1>3, <1>5
<1>7. /\ a \in Seq(X) /\ Len(a) = n + k - m
      /\ \A i \in 1 .. (n + k - m) : a[i] = t[m + i]
  BY <1>1, <1>3, <1>5, <1>6, SMTT(30)
<1>8. PICK b : b = p \o u
  OBVIOUS
<1>9. /\ b \in Seq(X) /\ Len(b) = n - m + k
      /\ \A i \in 1 .. (n - m) : b[i] = p[i]
      /\ \A i \in 1 .. k : b[n - m + i] = u[i]
  <2>1. PICK q \in Nat : q = n - m
    <3>1. n - m \in Nat
      BY <1>3
    <3> QED
      BY <3>1
  <2>2. p \in Seq(X) /\ Len(p) = q
    BY <1>4, <2>1
  <2>3. /\ b \in Seq(X) /\ Len(b) = q + k
        /\ \A i \in 1 .. q : b[i] = p[i]
        /\ \A i \in 1 .. k : b[q + i] = u[i]
    <3>1. /\ p \o u \in Seq(X) /\ Len(p \o u) = q + k
          /\ \A i \in 1 .. q : (p \o u)[i] = p[i]
          /\ \A i \in 1 .. k : (p \o u)[q + i] = u[i]
      <4>1. q = Len(p) /\ k = Len(u) /\ p \in Seq(X)
        BY <1>3, <2>2
      <4> QED
        BY <4>1, ConcatMembers
    <3> QED
      BY <1>8, <3>1
  <2> QED
    BY <2>1, <2>3
<1>10. \A i \in 1 .. (n + k - m) : a[i] = b[i]
  <2> SUFFICES ASSUME NEW i \in 1 .. (n + k - m) PROVE a[i] = b[i]
    OBVIOUS
  <2>1. CASE i <= n - m
    <3>1. i \in 1 .. (n - m) /\ m + i \in 1 .. n
      BY <1>3, <2>1
    <3> QED
      BY <1>4, <1>6, <1>7, <1>9, <3>1
  <2>2. CASE i > n - m
    <3>1. PICK l \in 1 .. k : i = n - m + l
      <4>1. i - (n - m) \in 1 .. k /\ i = n - m + (i - (n - m))
        BY <1>3, <2>2
      <4> QED
        BY <4>1
    <3>2. a[i] = t[n + l]
      <4>1. m + i = n + l
        BY <1>3, <3>1
      <4> QED
        BY <1>7, <4>1
    <3> QED
      BY <1>6, <1>9, <3>1, <3>2
  <2> QED
    BY <1>3, <2>1, <2>2
<1>11. n - m + k = n + k - m
  BY <1>3
<1>12. a = [i \in 1 .. (n + k - m) |-> a[i]] /\ b = [i \in 1 .. (n + k - m) |-> b[i]]
  BY <1>7, <1>9, <1>11
<1>13. a = b
  BY <1>10, <1>12
<1> QED
  BY <1>1, <1>2, <1>4, <1>8, <1>13

\* A sequence that is another with a member more.
LEMMA IsAppend ==
  ASSUME NEW Y, NEW n \in Nat, NEW a \in [1 .. n -> Y], NEW b \in [1 .. (n + 1) -> Y],
         \A i \in 1 .. n : b[i] = a[i]
  PROVE  a \in Seq(Y) /\ b = Append(a, b[n + 1])
<1>0. PICK y \in Y : y = b[n + 1]
  OBVIOUS
<1>1. a \in Seq(Y) /\ Len(a) = n
  OBVIOUS
<1>2. PICK c : c = Append(a, y)
  OBVIOUS
<1>3. /\ c = [i \in 1 .. (n + 1) |-> c[i]] /\ c[n + 1] = y
      /\ \A i \in 1 .. n : c[i] = a[i]
  BY <1>0, <1>1, <1>2
<1>4. \A i \in 1 .. (n + 1) : b[i] = c[i]
  <2>1. \A i \in 1 .. (n + 1) : i \in 1 .. n \/ i = n + 1
    OBVIOUS
  <2> QED
    BY <1>0, <1>3, <2>1
<1> QED
  BY <1>0, <1>1, <1>2, <1>3, <1>4

-----------------------------------------------------------------------------
(* The events of frames.                                                   *)

Stamped == Int \X EventWords

\* The events of a frame, each with its time.
Events(frame) == [k \in DOMAIN frame.events |-> <<frame.id, frame.events[k]>>]

\* They are as many as its words.
LEMMA EventsStamped ==
  ASSUME NEW frame \in Frames
  PROVE  Events(frame) \in Seq(Stamped)
<1>1. frame.events \in Seq(EventWords) /\ frame.id \in Int
  BY EventsType, WriterAssumption DEF IDs
<1>2. \A k \in DOMAIN frame.events : <<frame.id, frame.events[k]>> \in Stamped
  BY <1>1 DEF Stamped
<1>3. Events(frame) \in [1 .. Len(frame.events) -> Stamped] /\ Len(frame.events) \in Nat
  BY <1>1, <1>2 DEF Events
<1> QED
  BY <1>3

\* A frame more has its events at the end.
LEMMA EventsOfAppend ==
  ASSUME NEW frames \in Seq(Frames), NEW frame \in Frames
  PROVE  /\ EventsOf(frames) \in Seq(Stamped)
         /\ EventsOf(Append(frames, frame)) = EventsOf(frames) \o Events(frame)
<1>1. PICK n \in Nat : n = Len(frames)
  OBVIOUS
<1>2. PICK more : more = Append(frames, frame)
  OBVIOUS
<1>3. /\ DOMAIN frames = 1 .. n /\ DOMAIN more = 1 .. (n + 1) /\ more[n + 1] = frame
      /\ \A i \in 1 .. n : frames[i] \in Frames /\ more[i] = frames[i]
  <2> DEFINE F == Frames
  <2>1. frames \in Seq(F) /\ frame \in F
    OBVIOUS
  <2> HIDE DEF F
  <2>2. /\ DOMAIN frames = 1 .. n /\ DOMAIN more = 1 .. (n + 1) /\ more[n + 1] = frame
        /\ \A i \in 1 .. n : frames[i] \in F /\ more[i] = frames[i]
    BY <1>1, <1>2, <2>1
  <2> QED
    BY <2>2 DEF F
<1>4. PICK a : a = [i \in 1 .. n |-> Events(frames[i])]
  OBVIOUS
<1>5. PICK b : b = [i \in 1 .. (n + 1) |-> Events(more[i])]
  OBVIOUS
<1>6. /\ a = [i \in 1 .. n |-> a[i]] /\ b = [i \in 1 .. (n + 1) |-> b[i]]
      /\ \A i \in 1 .. n : a[i] = Events(frames[i]) /\ b[i] = a[i]
      /\ b[n + 1] = Events(frame)
  BY <1>3, <1>4, <1>5
<1> DEFINE Y == Seq(Stamped)
<1>7. Events(frame) \in Y /\ \A i \in 1 .. n : a[i] \in Y
  BY <1>3, <1>6, EventsStamped
<1> HIDE DEF Y
<1>8. a \in Seq(Y) /\ b = Append(a, Events(frame))
  <2>1. \A i \in 1 .. (n + 1) : i \in 1 .. n \/ i = n + 1
    OBVIOUS
  <2>2. a \in [1 .. n -> Y] /\ b \in [1 .. (n + 1) -> Y]
    BY <1>6, <1>7, <2>1
  <2>3. \A i \in 1 .. n : b[i] = a[i]
    BY <1>6
  <2>4. a \in Seq(Y) /\ b = Append(a, b[n + 1])
    BY <2>2, <2>3, IsAppend
  <2> QED
    BY <1>6, <2>4
<1>9. EventsOf(frames) = FlattenSeq(a) /\ EventsOf(more) = FlattenSeq(b)
  BY <1>3, <1>4, <1>5 DEF EventsOf, Events
<1>10. /\ FlattenSeq(a) \in Seq(Stamped)
       /\ FlattenSeq(Append(a, Events(frame))) = FlattenSeq(a) \o Events(frame)
  BY <1>7, <1>8, FlattenAppend DEF Y
<1> QED
  BY <1>2, <1>8, <1>9, <1>10

\* No frames have none.
LEMMA EventsOfNone == EventsOf(<<>>) = <<>>
<1>1. EventsOf(<<>>) = FlattenSeq([i \in DOMAIN <<>> |-> Events(<<>>[i])])
  BY DEF EventsOf, Events
<1>2. [i \in DOMAIN <<>> |-> Events(<<>>[i])] = <<>>
  OBVIOUS
<1> QED
  BY <1>1, <1>2, FlattenEmpty

\* A frame that has none adds none.
LEMMA EventsOfSame ==
  ASSUME NEW frames \in Seq(Frames), NEW frame \in Frames, frame.events = <<>>
  PROVE  EventsOf(Append(frames, frame)) = EventsOf(frames)
<1>1. Events(frame) = <<>>
  BY DEF Events
<1>2. PICK e \in Seq(Stamped) : e = EventsOf(frames)
  BY EventsOfAppend
<1>3. e \o <<>> = e
  OBVIOUS
<1> QED
  BY <1>1, <1>2, <1>3, EventsOfAppend

-----------------------------------------------------------------------------
(* What is written of a step's frames.                                     *)

\* Frames in order, none later than id.
Until(frames, id) ==
  Ascending(frames) /\ \A i \in DOMAIN frames : frames[i].id <= id

\* The members of frames, and of frames with one more.
LEMMA FramesAppend ==
  ASSUME NEW frames \in Seq(Frames), NEW frame \in Frames, NEW n \in Nat, n = Len(frames)
  PROVE  /\ Append(frames, frame) \in Seq(Frames)
         /\ DOMAIN frames = 1 .. n /\ DOMAIN Append(frames, frame) = 1 .. (n + 1)
         /\ Append(frames, frame)[n + 1] = frame
         /\ \A i \in 1 .. n : /\ Append(frames, frame)[i] = frames[i]
                              /\ frames[i] \in Frames /\ frames[i].id \in Int
<1> DEFINE F == Frames
<1>1. frames \in Seq(F) /\ frame \in F /\ \A f \in F : f.id \in Int
  BY EventsType, WriterAssumption DEF IDs
<1> HIDE DEF F
<1>2. /\ Append(frames, frame) \in Seq(F)
      /\ DOMAIN frames = 1 .. n /\ DOMAIN Append(frames, frame) = 1 .. (n + 1)
      /\ Append(frames, frame)[n + 1] = frame
      /\ \A i \in 1 .. n : /\ Append(frames, frame)[i] = frames[i]
                           /\ frames[i] \in F
  BY <1>1
<1> QED
  BY <1>1, <1>2 DEF F

\* A later frame keeps the order.
LEMMA UntilAppend ==
  ASSUME NEW frames \in Seq(Frames), NEW frame \in Frames, NEW id \in Int,
         Until(frames, id), id < frame.id
  PROVE  Until(Append(frames, frame), frame.id)
<1>1. PICK n \in Nat : n = Len(frames)
  OBVIOUS
<1>2. PICK more : more = Append(frames, frame)
  OBVIOUS
<1>3. /\ DOMAIN frames = 1 .. n /\ DOMAIN more = 1 .. (n + 1) /\ more[n + 1] = frame
      /\ \A i \in 1 .. n : more[i] = frames[i] /\ frames[i].id \in Int
  BY <1>1, <1>2, FramesAppend
<1>4. frame.id \in Int
  BY EventsType, WriterAssumption DEF IDs
<1>5. \A i \in 1 .. n : more[i].id <= id /\ more[i].id \in Int
  BY <1>3 DEF Until
<1>6. \A i, j \in 1 .. n : i < j => more[i].id < more[j].id
  BY <1>3 DEF Until, Ascending
<1>7. \A i \in 1 .. (n + 1) : i \in 1 .. n \/ i = n + 1
  OBVIOUS
<1>8. Ascending(more)
  <2> SUFFICES ASSUME NEW i \in 1 .. (n + 1), NEW j \in 1 .. (n + 1), i < j
               PROVE  more[i].id < more[j].id
    BY <1>3 DEF Ascending
  <2>1. i \in 1 .. n
    OBVIOUS
  <2>2. CASE j = n + 1
    BY <1>3, <1>4, <1>5, <2>1, <2>2
  <2>3. CASE j \in 1 .. n
    BY <1>6, <2>1, <2>3
  <2> QED
    BY <1>7, <2>2, <2>3
<1>9. \A i \in 1 .. (n + 1) : more[i].id <= frame.id
  BY <1>3, <1>4, <1>5, <1>7
<1> QED
  BY <1>2, <1>3, <1>8, <1>9 DEF Until

\* Frames in order with one more were in order before, and it is later.
LEMMA AscendingBefore ==
  ASSUME NEW frames \in Seq(Frames), NEW frame \in Frames, Ascending(Append(frames, frame))
  PROVE  Ascending(frames) /\ \A i \in DOMAIN frames : frames[i].id < frame.id
<1>1. PICK n \in Nat : n = Len(frames)
  OBVIOUS
<1>2. PICK more : more = Append(frames, frame)
  OBVIOUS
<1>3. /\ DOMAIN frames = 1 .. n /\ DOMAIN more = 1 .. (n + 1) /\ more[n + 1] = frame
      /\ \A i \in 1 .. n : more[i] = frames[i]
  BY <1>1, <1>2, FramesAppend
<1>4. \A i, j \in 1 .. (n + 1) : i < j => more[i].id < more[j].id
  BY <1>2, <1>3 DEF Ascending
<1>5. \A i \in 1 .. n : i \in 1 .. (n + 1) /\ n + 1 \in 1 .. (n + 1) /\ i < n + 1
  OBVIOUS
<1> QED
  BY <1>3, <1>4, <1>5 DEF Ascending

\* What WriteFrame writes for a frame, and perhaps for the gap before it, says what
\* the frame says, and is in order if the frames are.
LEMMA FrameSaid ==
  ASSUME NEW cur \in Seq(Frames), NEW frame \in Frames, NEW records \in Seq(Frames),
         NEW last \in Int,
         EventsOf(records) = EventsOf(cur),
         Ascending(cur) => Until(records, last),
         Ascending(Append(cur, frame)) => last < frame.id,
         NEW between, between = records \/ (/\ last + 1 \in IDs /\ last + 1 < frame.id
                                            /\ between = Append(records, LostFrame(last + 1))),
         NEW all, all = Append(between, frame) \/ (all = between /\ frame.events = <<>>)
  PROVE  /\ all \in Seq(Frames)
         /\ EventsOf(all) = EventsOf(Append(cur, frame))
         /\ Ascending(Append(cur, frame)) => Until(all, frame.id)
<1>1. frame.id \in Int
  BY EventsType, WriterAssumption DEF IDs
<1>2. /\ between \in Seq(Frames) /\ EventsOf(between) = EventsOf(cur)
      /\ Ascending(Append(cur, frame)) =>
           \E id \in Int : Until(between, id) /\ id < frame.id
  <2>1. Ascending(Append(cur, frame)) => Until(records, last) /\ last < frame.id
    BY AscendingBefore
  <2>2. CASE between = records
    BY <2>1, <2>2
  <2>3. CASE /\ last + 1 \in IDs /\ last + 1 < frame.id
             /\ between = Append(records, LostFrame(last + 1))
    <3>1. PICK lost \in Frames : lost = LostFrame(last + 1)
      BY <2>3, LostFrameType
    <3>2. lost.id = last + 1 /\ lost.events = <<>> /\ last < last + 1
      BY <3>1 DEF LostFrame
    <3>3. between \in Seq(Frames)
      <4>1. Len(records) \in Nat
        OBVIOUS
      <4> QED
        BY <2>3, <3>1, <4>1, FramesAppend
    <3>4. EventsOf(between) = EventsOf(cur)
      BY <2>3, <3>1, <3>2, EventsOfSame
    <3>5. Ascending(Append(cur, frame)) => Until(between, last + 1)
      BY <2>1, <2>3, <3>1, <3>2, UntilAppend
    <3> QED
      BY <2>3, <3>3, <3>4, <3>5
  <2> QED
    BY <2>2, <2>3
<1>3. CASE all = Append(between, frame)
  <2>1. all \in Seq(Frames)
    <3>1. Len(between) \in Nat
      BY <1>2
    <3> QED
      BY <1>2, <1>3, <3>1, FramesAppend
  <2>2. EventsOf(all) = EventsOf(Append(cur, frame))
    BY <1>2, <1>3, EventsOfAppend
  <2>3. Ascending(Append(cur, frame)) => Until(all, frame.id)
    BY <1>2, <1>3, UntilAppend
  <2> QED
    BY <2>1, <2>2, <2>3
<1>4. CASE all = between /\ frame.events = <<>>
  <2>1. EventsOf(all) = EventsOf(Append(cur, frame))
    BY <1>2, <1>4, EventsOfSame
  <2>2. ASSUME NEW id \in Int, Until(all, id), id < frame.id
        PROVE  Until(all, frame.id)
    <3>1. PICK n \in Nat : n = Len(all)
      BY <1>2, <1>4
    <3>2. DOMAIN all = 1 .. n /\ \A i \in 1 .. n : all[i].id \in Int
      BY <1>2, <1>4, <3>1, FramesAppend
    <3> QED
      BY <1>1, <2>2, <3>2 DEF Until
  <2> QED
    BY <1>2, <1>4, <2>1, <2>2
<1> QED
  BY <1>3, <1>4

-----------------------------------------------------------------------------
(* What is written of a calibration's.                                     *)

WordsOf(frames) == FlattenSeq([i \in DOMAIN frames |-> frames[i].events])

\* How often a word comes.
Occurs(w, words) == Cardinality({ j \in DOMAIN words : words[j] = w })

Tally(words, W) == { [word |-> w, freq |-> Occurs(w, words)] : w \in W }

\* It is a number, and 0 only for a word that does not come.
LEMMA OccursType ==
  ASSUME NEW X, NEW words \in Seq(X), NEW w
  PROVE  /\ IsFiniteSet({ j \in DOMAIN words : words[j] = w })
         /\ Occurs(w, words) \in Nat
         /\ Occurs(w, words) # 0 <=> \E j \in DOMAIN words : words[j] = w
<1> DEFINE places == { j \in DOMAIN words : words[j] = w }
<1>1. DOMAIN words = 1 .. Len(words) /\ Len(words) \in Nat
  OBVIOUS
<1>2. IsFiniteSet(1 .. Len(words))
  BY <1>1, FS_Interval
<1>3. places \subseteq 1 .. Len(words)
  BY <1>1
<1>4. IsFiniteSet(places)
  BY <1>2, <1>3, FS_Subset
<1>5. Cardinality(places) \in Nat /\ (Cardinality(places) = 0 <=> places = {})
  BY <1>4, FS_CardinalityType, FS_EmptySet
<1> QED
  BY <1>4, <1>5 DEF Occurs

\* In one sequence and another it comes as often as in both.
LEMMA OccursConcat ==
  ASSUME NEW X, NEW a \in Seq(X), NEW b \in Seq(X), NEW w
  PROVE  Occurs(w, a \o b) = Occurs(w, a) + Occurs(w, b)
<1>1. PICK n \in Nat, k \in Nat : n = Len(a) /\ k = Len(b)
  OBVIOUS
<1>2. PICK c : c = a \o b
  OBVIOUS
<1>3. /\ c \in Seq(X) /\ Len(c) = n + k
      /\ \A i \in 1 .. n : c[i] = a[i]
      /\ \A i \in 1 .. k : c[n + i] = b[i]
  BY <1>1, <1>2, ConcatMembers
<1>4. DOMAIN a = 1 .. n /\ DOMAIN b = 1 .. k /\ DOMAIN c = 1 .. (n + k)
  BY <1>1, <1>3
<1> DEFINE A == { j \in 1 .. n : a[j] = w }
           B == { j \in 1 .. k : b[j] = w }
           C == { j \in 1 .. (n + k) : c[j] = w }
           D == { j \in (n + 1) .. (n + k) : c[j] = w }
<1>5. /\ Occurs(w, a) = Cardinality(A) /\ IsFiniteSet(A)
      /\ Occurs(w, b) = Cardinality(B) /\ IsFiniteSet(B)
      /\ Occurs(w, c) = Cardinality(C)
  BY <1>4, OccursType DEF Occurs
<1>6. ExistsBijection(B, D)
  <2>1. PICK f : f = [j \in B |-> n + j]
    OBVIOUS
  <2>2. f \in [B -> D]
    <3> SUFFICES ASSUME NEW j \in B PROVE n + j \in D
      BY <2>1
    <3>1. c[n + j] = w /\ n + j \in (n + 1) .. (n + k)
      BY <1>3
    <3> QED
      BY <3>1
  <2>3. \A x, y \in B : f[x] = f[y] => x = y
    BY <2>1
  <2>4. \A d \in D : \E j \in B : f[j] = d
    <3> SUFFICES ASSUME NEW d \in D PROVE \E j \in B : f[j] = d
      OBVIOUS
    <3>1. d - n \in 1 .. k /\ n + (d - n) = d
      OBVIOUS
    <3>2. b[d - n] = c[d]
      BY <1>3, <3>1
    <3>3. d - n \in B
      BY <3>1, <3>2
    <3> QED
      BY <2>1, <3>1, <3>3
  <2>5. f \in Bijection(B, D)
    BY <2>2, <2>3, <2>4 DEF Bijection, Injection, Surjection, IsInjective
  <2> QED
    BY <2>5 DEF ExistsBijection
<1>7. IsFiniteSet(D) /\ Cardinality(D) = Cardinality(B)
  BY <1>5, <1>6, FS_Bijection
<1>8. C = A \cup D
  <2>1. \A j \in 1 .. (n + k) : j \in 1 .. n \/ j \in (n + 1) .. (n + k)
    OBVIOUS
  <2>2. \A j \in 1 .. n : j \in 1 .. (n + k)
    OBVIOUS
  <2>3. \A j \in (n + 1) .. (n + k) : j \in 1 .. (n + k)
    OBVIOUS
  <2> QED
    BY <1>3, <2>1, <2>2, <2>3
<1>9. A \cap D = {}
  OBVIOUS
<1> HIDE DEF A, B, C, D
<1>10. Cardinality(C) = Cardinality(A) + Cardinality(D) - Cardinality(A \cap D)
  BY <1>5, <1>7, <1>8, FS_Union
<1>11. Cardinality(A) \in Nat /\ Cardinality(D) \in Nat /\ Cardinality(A \cap D) = 0
  BY <1>5, <1>7, <1>9, FS_CardinalityType, FS_EmptySet
<1> QED
  BY <1>2, <1>5, <1>7, <1>10, <1>11

\* A frame more has its words at the end.
LEMMA WordsOfAppend ==
  ASSUME NEW frames \in Seq(Frames), NEW frame \in Frames
  PROVE  /\ WordsOf(frames) \in Seq(EventWords)
         /\ WordsOf(Append(frames, frame)) = WordsOf(frames) \o frame.events
<1>1. PICK n \in Nat : n = Len(frames)
  OBVIOUS
<1>2. PICK more : more = Append(frames, frame)
  OBVIOUS
<1>3. /\ DOMAIN frames = 1 .. n /\ DOMAIN more = 1 .. (n + 1) /\ more[n + 1] = frame
      /\ \A i \in 1 .. n : frames[i] \in Frames /\ more[i] = frames[i]
  BY <1>1, <1>2, FramesAppend
<1>4. PICK a : a = [i \in 1 .. n |-> frames[i].events]
  OBVIOUS
<1>5. PICK b : b = [i \in 1 .. (n + 1) |-> more[i].events]
  OBVIOUS
<1> DEFINE Y == Seq(EventWords)
<1>6. \A f \in Frames : f.events \in Y
  BY EventsType
<1> HIDE DEF Y
<1>7. \A i \in 1 .. (n + 1) : i \in 1 .. n \/ i = n + 1
  OBVIOUS
<1>8. a \in [1 .. n -> Y] /\ b \in [1 .. (n + 1) -> Y]
  BY <1>3, <1>4, <1>5, <1>6, <1>7
<1>9. b[n + 1] = frame.events /\ \A i \in 1 .. n : b[i] = a[i]
  BY <1>3, <1>4, <1>5
<1>10. a \in Seq(Y) /\ b = Append(a, b[n + 1])
  BY <1>8, <1>9, IsAppend
<1>11. WordsOf(frames) = FlattenSeq(a) /\ WordsOf(more) = FlattenSeq(b)
  BY <1>3, <1>4, <1>5 DEF WordsOf
<1>12. frame.events \in Y
  BY <1>6
<1>13. /\ FlattenSeq(a) \in Seq(EventWords)
       /\ FlattenSeq(Append(a, frame.events)) = FlattenSeq(a) \o frame.events
  BY <1>10, <1>12, FlattenAppend DEF Y
<1> QED
  BY <1>2, <1>9, <1>10, <1>11, <1>13

\* No frames have none.
LEMMA WordsOfNone == WordsOf(<<>>) = <<>>
<1>1. [i \in DOMAIN <<>> |-> <<>>[i].events] = <<>>
  OBVIOUS
<1> QED
  BY <1>1, FlattenEmpty DEF WordsOf

\* CountsOf says of each word that comes how often.
LEMMA CountsOfIs ==
  ASSUME NEW frames \in Seq(Frames)
  PROVE  CountsOf(frames) =
           Tally(WordsOf(frames), { w \in EventWords : Occurs(w, WordsOf(frames)) # 0 })
<1>1. PICK words \in Seq(EventWords) : words = WordsOf(frames)
  <2>1. WordsOf(frames) \in Seq(EventWords)
    <3>1. CASE frames = <<>>
      <4>1. WordsOf(frames) = <<>>
        BY <3>1, WordsOfNone, Zenon
      <4>2. <<>> \in Seq(EventWords)
        OBVIOUS
      <4> QED
        BY <4>1, <4>2, Zenon
    <3>2. CASE frames # <<>>
      <4>1. frames[1] \in Frames
        BY <3>2
      <4> QED
        BY <4>1, WordsOfAppend
    <3> QED
      BY <3>1, <3>2
  <2> QED
    BY <2>1
<1>2. CountsOf(frames) = { [word |-> words[k], freq |-> Occurs(words[k], words)] : k \in DOMAIN words }
  BY <1>1 DEF CountsOf, Occurs, WordsOf
<1>3. \A w \in EventWords : Occurs(w, words) # 0 <=> \E j \in DOMAIN words : words[j] = w
  BY OccursType
<1>4. \A j \in DOMAIN words : words[j] \in EventWords
  OBVIOUS
<1>5. CountsOf(frames) = Tally(words, { w \in EventWords : Occurs(w, words) # 0 })
  BY <1>2, <1>3, <1>4 DEF Tally
<1> QED
  BY <1>1, <1>5

-----------------------------------------------------------------------------
(* What the writer has written.                                            *)

\* What is to be in the file about frames.
Says(full, records, frames) ==
  IF full
  THEN /\ EventsOf(records) = EventsOf(frames)
       /\ Ascending(frames) => Ascending(records)
  ELSE { records[k] : k \in DOMAIN records } = CountsOf(frames)

Written == SubSeq(dataFile, stepStartOffset + 1, Len(dataFile))

\* Of the step that is being acquired all is in the data file, in order; of a
\* calibration's, each word that is no longer in calEventSet.
FramesWritten ==
  acqStdMode =>
    /\ EventsOf(Written) = EventsOf(Current)
    /\ Ascending(Current) => Until(Written, lastFrameID)

Counted(w) == Occurs(w, WordsOf(Current))

CountsWritten ==
  ~acqStdMode =>
    /\ \A w \in EventWords : calEventSet[w] \in {0, Counted(w)}
    /\ { Written[k] : k \in DOMAIN Written } =
         Tally(WordsOf(Current), { w \in EventWords : calEventSet[w] # Counted(w) })
    /\ writer \in {"read", "frame"} => \A w \in EventWords : calEventSet[w] = Counted(w)
    /\ writer \in {"flush", "line", "flushIndex"} => \A w \in EventWords : calEventSet[w] = 0

\* Each line of the index file is about the records of its step.
LinesSay ==
  \A i \in 1 .. Len(indexFile) :
    /\ indexFile[i].begin <= indexFile[i].end
    /\ Says(acqStdMode, SubSeq(dataFile, indexFile[i].begin + 1, indexFile[i].end), acquired[i])

StepsWritten ==
  /\ writer # "dead" =>
       Len(acquired) = Len(indexFile) + (IF writer = "flushIndex" THEN 0 ELSE 1)
  /\ Len(indexFile) \in {Len(acquired) - 1, Len(acquired)}
  /\ LinesSay

\* The writer's strengthened invariant.
WriterSays == WriterInv /\ Account /\ FramesWritten /\ CountsWritten /\ StepsWritten

\* Where the step is that is being acquired.
LEMMA CurrentIs ==
  ASSUME WriterInv
  PROVE  /\ Len(acquired) \in Nat \ {0} /\ Current \in Seq(Frames)
         /\ Current = acquired[Len(acquired)]
<1> DEFINE S == Seq(Frames)
<1>1. acquired \in Seq(S) /\ acquired # <<>>
  BY DEF WriterInv
<1> HIDE DEF S
<1>2. Len(acquired) \in Nat \ {0} /\ acquired[Len(acquired)] \in S
  BY <1>1
<1> QED
  BY <1>2 DEF S, Current

\* The data that belong to the step.
LEMMA WrittenType ==
  ASSUME WriterInv
  PROVE  /\ stepStartOffset \in Nat /\ Len(dataFile) \in Nat
         /\ stepStartOffset <= Len(dataFile)
         /\ Written \in Seq(Frames \cup Counts)
         /\ acqStdMode => Written \in Seq(Frames)
<1> DEFINE R == Frames \cup Counts
           F == Frames
<1>1. /\ dataFile \in Seq(R) /\ stepStartOffset \in 0 .. Len(dataFile)
      /\ acqStdMode => dataFile \in Seq(F)
  BY DEF WriterInv, DiskOK, OfFrames
<1> HIDE DEF R, F
<1>2. stepStartOffset \in Nat /\ Len(dataFile) \in Nat /\ stepStartOffset <= Len(dataFile)
  BY <1>1
<1>3. Written \in Seq(R)
  BY <1>1, <1>2, SubGrow DEF Written
<1>4. acqStdMode => Written \in Seq(F)
  BY <1>1, <1>2, SubGrow DEF Written
<1> QED
  BY <1>2, <1>3, <1>4 DEF R, F

\* Before the first step there is nothing to say.
LEMMA WriterSaysInit == WriterInit => WriterSays
<1> SUFFICES ASSUME WriterInit PROVE WriterSays
  OBVIOUS
<1>1. WriterInv
  BY WriterInvInit
<1>2. Current = <<>> /\ Written = <<>> /\ Len(acquired) = 1 /\ Len(indexFile) = 0
  BY DEF WriterInit, Current, Written
<1>3. Account
  BY <1>2 DEF WriterInit, Account
<1>4. FramesWritten
  <2>1. Until(<<>>, lastFrameID)
    BY DEF Until, Ascending
  <2> QED
    BY <1>2, <2>1, Zenon DEF FramesWritten
<1>5. \A w : Counted(w) = 0
  <2>1. WordsOf(Current) = <<>>
    BY <1>2, WordsOfNone, Zenon
  <2>2. \A w : { j \in DOMAIN <<>> : <<>>[j] = w } = {}
    OBVIOUS
  <2> QED
    BY <2>1, <2>2, FS_EmptySet DEF Counted, Occurs
<1>6. CountsWritten
  <2>1. \A w \in EventWords : calEventSet[w] = Counted(w)
    BY <1>5 DEF WriterInit
  <2>2. Tally(WordsOf(Current), { w \in EventWords : calEventSet[w] # Counted(w) }) = {}
    BY <2>1 DEF Tally
  <2>3. { Written[k] : k \in DOMAIN Written } = {}
    BY <1>2
  <2> QED
    BY <2>1, <2>2, <2>3 DEF CountsWritten, WriterInit
<1>7. StepsWritten
  BY <1>2 DEF WriterInit, StepsWritten, LinesSay
<1> QED
  BY <1>1, <1>3, <1>4, <1>6, <1>7 DEF WriterSays

\* What a line says of the data file.
LEMMA LineParts ==
  ASSUME WriterInv, NEW i \in 1 .. Len(indexFile)
  PROVE  /\ indexFile[i].begin \in Nat /\ indexFile[i].end \in Nat
         /\ indexFile[i].end <= Len(dataFile) /\ Len(dataFile) \in Nat
<1> DEFINE L == Lines
<1>1. indexFile \in Seq(L) /\ onDisk \in 0 .. Len(dataFile)
  BY DEF WriterInv, DiskOK
<1>2. Len(dataFile) \in Nat
  BY WrittenType
<1> HIDE DEF L
<1>3. indexFile[i] \in L
  BY <1>1
<1>4. indexFile[i].begin \in Nat /\ indexFile[i].end \in Nat
  BY <1>3 DEF L, Lines
<1>5. indexFile[i].end <= onDisk
  BY DEF WriterInv
<1> QED
  BY <1>1, <1>2, <1>4, <1>5

\* As long as the data file only grows, the lines stay true.
LEMMA LinesKept ==
  ASSUME WriterInv, WriterInv', LinesSay,
         UNCHANGED acqStdMode, Len(indexFile) \in Nat, Len(indexFile) <= Len(indexFile'),
         Len(dataFile) <= Len(dataFile'),
         \A k \in 1 .. Len(dataFile) : dataFile'[k] = dataFile[k],
         NEW i \in 1 .. Len(indexFile), indexFile'[i] = indexFile[i], acquired'[i] = acquired[i]
  PROVE  /\ indexFile'[i].begin <= indexFile'[i].end
         /\ Says(acqStdMode', SubSeq(dataFile', indexFile'[i].begin + 1, indexFile'[i].end),
                 acquired'[i])
<1> DEFINE R == Frames \cup Counts
<1>1. dataFile \in Seq(R) /\ dataFile' \in Seq(R)
  BY DEF WriterInv, DiskOK
<1> HIDE DEF R
<1>2. PICK b \in Nat, e \in Nat : /\ b = indexFile[i].begin /\ e = indexFile[i].end
                                  /\ e <= Len(dataFile) /\ Len(dataFile) \in Nat
  BY LineParts
<1>3. PICK t : t = dataFile'
  OBVIOUS
<1>4. /\ t \in Seq(R) /\ Len(t) \in Nat /\ e <= Len(t)
      /\ \A k \in 1 .. e : t[k] = dataFile[k]
  BY <1>1, <1>2, <1>3
<1>5. SubSeq(t, b + 1, e) = SubSeq(dataFile, b + 1, e)
  <2>1. PICK d : d = dataFile
    OBVIOUS
  <2>2. /\ d \in Seq(R) /\ e <= Len(d) /\ \A k \in 1 .. e : t[k] = d[k]
    BY <1>1, <1>2, <1>4, <2>1
  <2>3. SubSeq(t, b + 1, e) = SubSeq(d, b + 1, e)
    BY <1>4, <2>2, SubKeep
  <2> QED
    BY <2>1, <2>3
<1>6. b <= e /\ Says(acqStdMode, SubSeq(dataFile, b + 1, e), acquired[i])
  BY <1>2 DEF LinesSay
<1> QED
  BY <1>2, <1>3, <1>5, <1>6

\* A step that leaves the data file and the acquisition's frames alone.
LEMMA WrittenKept ==
  ASSUME WriterSays, WriterInv',
         UNCHANGED <<acqStdMode, calEventSet, lastFrameID, dataFile, stepStartOffset, acquired>>,
         writer' \in {"read", "frame"} => writer \in {"read", "frame"},
         writer' \in {"flush", "line", "flushIndex"} => writer \in {"flush", "line", "flushIndex"}
                 \/ acqStdMode \/ \A w \in EventWords : calEventSet[w] = 0
  PROVE  FramesWritten' /\ CountsWritten'
<1>1. Written' = Written /\ Current' = Current
  BY DEF Written, Current
<1>2. FramesWritten'
  <2>1. Ascending(Current)' = Ascending(Current)
    BY <1>1 DEF Ascending
  <2>2. Until(Written, lastFrameID)' = Until(Written, lastFrameID)
    BY <1>1 DEF Until, Ascending
  <2>3. EventsOf(Written)' = EventsOf(Written) /\ EventsOf(Current)' = EventsOf(Current)
    BY <1>1 DEF EventsOf
  <2> QED
    BY <2>1, <2>2, <2>3 DEF WriterSays, FramesWritten
<1>3. CountsWritten'
  <2>1. PICK words : words = WordsOf(Current)
    OBVIOUS
  <2>2. WordsOf(Current)' = words
    BY <1>1, <2>1 DEF WordsOf
  <2>3. \A w : Counted(w) = Occurs(w, words) /\ Counted(w)' = Occurs(w, words)
    BY <2>1, <2>2 DEF Counted, Occurs
  <2>4. PICK set : set = { Written[k] : k \in DOMAIN Written }
    OBVIOUS
  <2>5. { Written[k] : k \in DOMAIN Written }' = set
    BY <1>1, <2>4
  <2>6. PICK tally : tally = Tally(words, { w \in EventWords : calEventSet[w] # Occurs(w, words) })
    OBVIOUS
  <2>7. /\ Tally(WordsOf(Current), { w \in EventWords : calEventSet[w] # Counted(w) }) = tally
        /\ Tally(WordsOf(Current), { w \in EventWords : calEventSet[w] # Counted(w) })' = tally
    BY <2>1, <2>2, <2>3, <2>6 DEF Tally, Occurs
  <2> QED
    BY <2>3, <2>4, <2>5, <2>7, Zenon DEF WriterSays, CountsWritten
<1> QED
  BY <1>2, <1>3

\* Nothing, or one member, at the end.
LEMMA ConcatOne ==
  ASSUME NEW X, NEW s \in Seq(X), NEW x \in X
  PROVE  /\ s \o <<>> = s
         /\ s \o <<x>> = Append(s, x)
OBVIOUS

\* A later frame is later than the last one.
LEMMA LaterThanLast ==
  ASSUME WriterInv, Account, writer = "frame",
         NEW frame \in Frames, Ascending(Append(Current, frame))
  PROVE  lastFrameID < frame.id
<1>1. frame.id \in Int /\ frame.id >= 0
  BY EventsType, WriterAssumption DEF IDs
<1>2. PICK cur \in Seq(Frames) : cur = Current
  BY CurrentIs
<1>3. CASE cur = <<>>
  BY <1>1, <1>2, <1>3 DEF Account
<1>4. CASE cur # <<>>
  <2>1. Ascending(cur) /\ \A i \in DOMAIN cur : cur[i].id < frame.id
    BY <1>2, AscendingBefore
  <2>2. Len(cur) \in DOMAIN cur
    BY <1>4
  <2>3. lastFrameID = cur[Len(cur)].id
    BY <1>2, <1>4, <2>1 DEF Account
  <2> QED
    BY <2>1, <2>2, <2>3
<1> QED
  BY <1>3, <1>4

\* What a frame is for the step and for the data file.
LEMMA FrameParts ==
  ASSUME WriterInv, WriteFrame
  PROVE  \E frame, marker, record :
           /\ frame \in Frames
           /\ acquired' = [acquired EXCEPT ![Len(acquired)] = Append(acquired[Len(acquired)], frame)]
           /\ Current' = Append(Current, frame)
           /\ lastFrameID' = frame.id
           /\ ~acqStdMode => \A w \in EventWords : calEventSet'[w] = calEventSet[w] + Occurs(w, frame.events)
           /\ dataFile' = (dataFile \o marker) \o record
           /\ \/ marker = <<>>
              \/ /\ acqStdMode /\ lastFrameID + 1 \in IDs /\ lastFrameID + 1 < frame.id
                 /\ marker = <<LostFrame(lastFrameID + 1)>>
           /\ \/ record = <<>> /\ (acqStdMode => frame.events = <<>>)
              \/ record = <<frame>> /\ acqStdMode
<1>1. PICK frame, marker, record :
        /\ frame \in Frames
        /\ acquired' = [acquired EXCEPT ![Len(acquired)] = Append(acquired[Len(acquired)], frame)]
        /\ lastFrameID' = frame.id
        /\ calEventSet' = IF acqStdMode THEN calEventSet
             ELSE [w \in EventWords |-> calEventSet[w]
                     + Cardinality({ k \in DOMAIN frame.events : frame.events[k] = w })]
        /\ dataFile' = (dataFile \o marker) \o record
        /\ marker = (IF Gap(frame) /\ acqStdMode THEN <<LostFrame(lastFrameID + 1)>> ELSE <<>>)
        /\ record = (IF Repeats(FrameType(frame), IF Gap(frame) THEN "all_lost" ELSE lastFrameType)
                        \/ ~acqStdMode
                     THEN <<>> ELSE <<frame>>)
  BY DEF WriteFrame
<1> frame \in Frames
  BY <1>1
<1>2. Current' = Append(Current, frame)
  BY <1>1, CurrentIs DEF Current, WriterInv
<1>3. frame.id \in IDs /\ lastFrameID \in IDs \cup {-1}
  BY EventsType DEF WriterInv, StepOK
<1>4. Gap(frame) => lastFrameID + 1 \in IDs /\ lastFrameID + 1 < frame.id
  BY <1>3, WriterAssumption DEF Gap, IDs
<1>5. \A type : Repeats(FrameType(frame), type) => frame.events = <<>>
  BY DEF Repeats, FrameType
<1>6. ~acqStdMode => \A w \in EventWords : calEventSet'[w] = calEventSet[w] + Occurs(w, frame.events)
  BY <1>1 DEF Occurs
<1>7. \/ marker = <<>>
      \/ /\ acqStdMode /\ lastFrameID + 1 \in IDs /\ lastFrameID + 1 < frame.id
         /\ marker = <<LostFrame(lastFrameID + 1)>>
  BY <1>1, <1>4, Zenon
<1>8. \/ record = <<>> /\ (acqStdMode => frame.events = <<>>)
      \/ record = <<frame>> /\ acqStdMode
  BY <1>1, <1>5, Zenon
<1> QED
  BY <1>1, <1>2, <1>6, <1>7, <1>8, Zenon

\* A frame of an acquisition is in the data file.
LEMMA FrameWritten ==
  ASSUME WriterSays, WriteFrame, acqStdMode
  PROVE  FramesWritten'
<1>1. PICK frame, marker, record :
           /\ frame \in Frames
           /\ Current' = Append(Current, frame)
           /\ lastFrameID' = frame.id
           /\ dataFile' = (dataFile \o marker) \o record
           /\ \/ marker = <<>>
              \/ /\ acqStdMode /\ lastFrameID + 1 \in IDs /\ lastFrameID + 1 < frame.id
                 /\ marker = <<LostFrame(lastFrameID + 1)>>
           /\ \/ record = <<>> /\ (acqStdMode => frame.events = <<>>)
              \/ record = <<frame>> /\ acqStdMode
  BY FrameParts DEF WriterSays
<1> frame \in Frames
  BY <1>1
<1>2. WriterInv /\ Account /\ FramesWritten
  BY DEF WriterSays
<1>3. PICK last \in Int : last = lastFrameID
  BY <1>2, WriterAssumption DEF WriterInv, StepOK, IDs
<1>4. PICK cur \in Seq(Frames) : cur = Current
  BY <1>2, CurrentIs
<1>5. PICK records \in Seq(Frames) : records = Written
  BY <1>2, WrittenType
<1>6. EventsOf(records) = EventsOf(cur) /\ (Ascending(cur) => Until(records, last))
  BY <1>2, <1>3, <1>4, <1>5 DEF FramesWritten
<1>7. Ascending(Append(cur, frame)) => last < frame.id
  <2>1. writer = "frame"
    BY DEF WriteFrame
  <2> QED
    BY <1>2, <1>3, <1>4, <2>1, LaterThanLast
<1> DEFINE F == Frames
<1>8. /\ dataFile \in Seq(F) /\ stepStartOffset \in Nat /\ stepStartOffset <= Len(dataFile)
      /\ last + 1 \in IDs => LostFrame(last + 1) \in F
      /\ frame \in F /\ records \in Seq(F)
  BY <1>2, WrittenType, LostFrameType DEF WriterInv, OfFrames
<1> HIDE DEF F
<1>9. marker \in Seq(F) /\ record \in Seq(F)
  <2>1. \A f \in F : <<f>> \in Seq(F)
    OBVIOUS
  <2>2. <<>> \in Seq(F)
    OBVIOUS
  <2>3. marker \in Seq(F)
    BY <1>1, <1>3, <1>8, <2>1, <2>2
  <2>4. record \in Seq(F)
    BY <1>1, <1>8, <2>1, <2>2
  <2> QED
    BY <2>3, <2>4
<1>10. /\ dataFile \o marker \in Seq(F) /\ Len(dataFile \o marker) \in Nat
       /\ stepStartOffset <= Len(dataFile \o marker)
  BY <1>8, <1>9
<1>11. PICK between : between = records \o marker
  OBVIOUS
<1>12. SubSeq(dataFile \o marker, stepStartOffset + 1, Len(dataFile \o marker)) = between
  BY <1>5, <1>8, <1>9, <1>11, SubGrow, ZenonT(60) DEF Written
<1>13. PICK all : all = between \o record
  OBVIOUS
<1>14. Written' = all
  <2>1. stepStartOffset' = stepStartOffset
    BY DEF WriteFrame
  <2>2. PICK d : d = dataFile \o marker
    OBVIOUS
  <2>3. SubSeq(d \o record, stepStartOffset + 1, Len(d \o record))
          = SubSeq(d, stepStartOffset + 1, Len(d)) \o record
    BY <1>8, <1>9, <1>10, <2>2, SubGrow
  <2> QED
    BY <1>1, <1>12, <1>13, <2>1, <2>2, <2>3 DEF Written
<1>15. \/ between = records
       \/ /\ last + 1 \in IDs /\ last + 1 < frame.id
          /\ between = Append(records, LostFrame(last + 1))
  <2>1. CASE marker = <<>>
    BY <1>8, <1>11, <2>1
  <2>2. CASE /\ acqStdMode /\ last + 1 \in IDs /\ last + 1 < frame.id
             /\ marker = <<LostFrame(last + 1)>>
    BY <1>8, <1>11, <2>2, ConcatOne
  <2> QED
    BY <1>1, <1>3, <2>1, <2>2
<1>16. between \in Seq(F)
  BY <1>8, <1>9, <1>11
<1>17. all = Append(between, frame) \/ (all = between /\ frame.events = <<>>)
  <2>1. CASE record = <<>> /\ frame.events = <<>>
    BY <1>13, <1>16, <2>1
  <2>2. CASE record = <<frame>>
    BY <1>8, <1>13, <1>16, <2>2, ConcatOne
  <2> QED
    BY <1>1, <2>1, <2>2
<1>18. /\ EventsOf(all) = EventsOf(Append(cur, frame))
       /\ Ascending(Append(cur, frame)) => Until(all, frame.id)
  <2>1. EventsOf(records) = EventsOf(cur)
    BY <1>6
  <2>2. Ascending(cur) => Until(records, last)
    BY <1>6
  <2> QED
    BY <2>1, <2>2, <1>7, <1>15, <1>17, FrameSaid, SMTT(60)
<1>19. PICK c : c = Append(cur, frame)
  OBVIOUS
<1>20. Current' = c /\ EventsOf(all) = EventsOf(c) /\ (Ascending(c) => Until(all, frame.id))
  BY <1>1, <1>4, <1>18, <1>19
<1> QED
  BY <1>1, <1>14, <1>20 DEF FramesWritten

\* A frame of a calibration is counted.
LEMMA FrameTallied ==
  ASSUME WriterSays, WriteFrame, ~acqStdMode
  PROVE  CountsWritten'
<1>1. PICK frame, marker, record :
           /\ frame \in Frames
           /\ Current' = Append(Current, frame)
           /\ \A w \in EventWords : calEventSet'[w] = calEventSet[w] + Occurs(w, frame.events)
           /\ dataFile' = (dataFile \o marker) \o record
           /\ marker = <<>> /\ record = <<>>
  BY FrameParts DEF WriterSays
<1> frame \in Frames
  BY <1>1
<1>2. WriterInv /\ CountsWritten /\ writer = "frame"
  BY DEF WriterSays, WriteFrame
<1>3. PICK cur \in Seq(Frames) : cur = Current
  BY <1>2, CurrentIs
<1>4. dataFile' = dataFile /\ stepStartOffset' = stepStartOffset
  <2>1. dataFile \in Seq(Frames \cup Counts)
    BY <1>2 DEF WriterInv, DiskOK
  <2>2. dataFile \o <<>> = dataFile
    BY <2>1
  <2> QED
    BY <1>1, <2>2 DEF WriteFrame
<1>5. Written' = Written
  BY <1>4 DEF Written
<1>6. PICK words \in Seq(EventWords), more \in Seq(EventWords) :
        /\ words = WordsOf(cur) /\ more = WordsOf(Append(cur, frame))
        /\ more = words \o frame.events
  <2>1. Append(cur, frame) \in Seq(Frames)
    <3>1. Len(cur) \in Nat
      OBVIOUS
    <3> QED
      BY <3>1, FramesAppend
  <2> QED
    BY <2>1, WordsOfAppend
<1>7. \A w : Counted(w) = Occurs(w, words) /\ Counted(w)' = Occurs(w, more)
  BY <1>1, <1>3, <1>6 DEF Counted
<1>8. \A w \in EventWords : calEventSet[w] = Occurs(w, words)
  BY <1>2, <1>7 DEF CountsWritten
<1>9. \A w \in EventWords : calEventSet'[w] = Occurs(w, more)
  <2> SUFFICES ASSUME NEW w \in EventWords PROVE calEventSet'[w] = Occurs(w, more)
    OBVIOUS
  <2>1. frame.events \in Seq(EventWords)
    BY EventsType
  <2>2. Occurs(w, words \o frame.events) = Occurs(w, words) + Occurs(w, frame.events)
    BY <2>1, OccursConcat
  <2> QED
    BY <1>1, <1>6, <1>8, <2>2
<1>10. { Written[k] : k \in DOMAIN Written } = {}
  <2>1. { w \in EventWords : calEventSet[w] # Counted(w) } = {}
    BY <1>7, <1>8
  <2>2. Tally(WordsOf(Current), {}) = {}
    BY DEF Tally
  <2>3. { Written[k] : k \in DOMAIN Written } =
           Tally(WordsOf(Current), { w \in EventWords : calEventSet[w] # Counted(w) })
    BY <1>2 DEF CountsWritten
  <2> QED
    BY <2>1, <2>2, <2>3
<1>11. Tally(WordsOf(Current), { w \in EventWords : calEventSet[w] # Counted(w) })' = {}
  <2>1. { w \in EventWords : calEventSet[w] # Counted(w) }' = {}
    BY <1>7, <1>9
  <2> QED
    BY <2>1 DEF Tally
<1>12. { Written[k] : k \in DOMAIN Written }' = {}
  BY <1>5, <1>10
<1>13. writer' \in {"frame", "read"} /\ acqStdMode' = acqStdMode
  BY DEF WriteFrame
<1>14. \A w \in EventWords : calEventSet'[w] = Counted(w)'
  BY <1>7, <1>9
<1>15. \A w \in EventWords : (calEventSet[w] \in {0, Counted(w)})'
  BY <1>14
<1> QED
  BY <1>11, <1>12, <1>13, <1>14, <1>15, Zenon DEF CountsWritten

\* How often a word has come is written, and nothing else changes.
LEMMA CountWritten ==
  ASSUME WriterSays, WriteCounts, ~acqStdMode, writer' = "close"
  PROVE  CountsWritten'
<1>1. WriterInv /\ CountsWritten /\ writer = "close"
  BY DEF WriterSays, WriteCounts
<1>2. PICK word \in EventWords :
        /\ calEventSet[word] > 0
        /\ dataFile' = Append(dataFile, [word |-> word, freq |-> calEventSet[word]])
        /\ calEventSet' = [calEventSet EXCEPT ![word] = 0]
        /\ UNCHANGED <<acqStdMode, stepStartOffset, acquired>>
  BY <1>1 DEF WriteCounts
<1>3. calEventSet \in [EventWords -> Nat]
  BY <1>1 DEF WriterInv, StepOK
<1>4. /\ calEventSet'[word] = 0
      /\ \A w \in EventWords : w # word => calEventSet'[w] = calEventSet[w]
  BY <1>2, <1>3
<1>5. PICK words : words = WordsOf(Current)
  OBVIOUS
<1>6. Current' = Current
  BY <1>2 DEF Current
<1>7. \A w : Counted(w) = Occurs(w, words) /\ Counted(w)' = Occurs(w, words)
  BY <1>5, <1>6 DEF Counted
<1>8. /\ \A w \in EventWords : calEventSet[w] \in {0, Occurs(w, words)}
      /\ { Written[k] : k \in DOMAIN Written } =
           Tally(words, { w \in EventWords : calEventSet[w] # Occurs(w, words) })
  BY <1>1, <1>5, <1>7 DEF CountsWritten
<1>9. calEventSet[word] = Occurs(word, words) /\ Occurs(word, words) # 0
  BY <1>2, <1>8
<1>10. PICK r : r = [word |-> word, freq |-> calEventSet[word]]
  OBVIOUS
<1>11. { Written[k] : k \in DOMAIN Written }' = { Written[k] : k \in DOMAIN Written } \cup {r}
  <2> DEFINE R == Frames \cup Counts
  <2>1. /\ dataFile \in Seq(R) /\ stepStartOffset \in Nat /\ stepStartOffset <= Len(dataFile)
        /\ Written \in Seq(R)
    BY <1>1, WrittenType DEF WriterInv, DiskOK
  <2>2. r \in R
    BY <1>2, <1>3, <1>10 DEF Counts
  <2> HIDE DEF R
  <2>3. <<r>> \in Seq(R) /\ Append(dataFile, r) = dataFile \o <<r>>
    BY <2>1, <2>2
  <2>4. SubSeq(dataFile \o <<r>>, stepStartOffset + 1, Len(dataFile \o <<r>>)) = Written \o <<r>>
    BY <2>1, <2>3, SubGrow DEF Written
  <2>5. Written' = Written \o <<r>>
    BY <1>2, <1>10, <2>3, <2>4 DEF Written
  <2>6. PICK s \in Seq(R) : s = Written
    BY <2>1
  <2>7. PICK n \in Nat : n = Len(s)
    OBVIOUS
  <2>8. PICK t : t = s \o <<r>>
    OBVIOUS
  <2>9. /\ DOMAIN s = 1 .. n /\ DOMAIN t = 1 .. (n + 1) /\ t[n + 1] = r
        /\ \A k \in 1 .. n : t[k] = s[k]
    BY <2>2, <2>7, <2>8
  <2>10. \A k \in 1 .. (n + 1) : k \in 1 .. n \/ k = n + 1
    OBVIOUS
  <2>11. \A k \in 1 .. n : k \in 1 .. (n + 1)
    OBVIOUS
  <2>12. n + 1 \in 1 .. (n + 1)
    OBVIOUS
  <2>13. { t[k] : k \in DOMAIN t } = { s[k] : k \in DOMAIN s } \cup {r}
    BY <2>9, <2>10, <2>11, <2>12
  <2>14. Written = s /\ Written' = t
    BY <2>5, <2>6, <2>8
  <2> QED
    BY <2>13, <2>14
<1>12. { w \in EventWords : calEventSet'[w] # Occurs(w, words) }
         = { w \in EventWords : calEventSet[w] # Occurs(w, words) } \cup {word}
  BY <1>4, <1>9
<1>13. r = [word |-> word, freq |-> Occurs(word, words)]
  BY <1>9, <1>10
<1>14. Tally(words, { w \in EventWords : calEventSet'[w] # Occurs(w, words) })
         = Tally(words, { w \in EventWords : calEventSet[w] # Occurs(w, words) }) \cup {r}
  BY <1>12, <1>13 DEF Tally
<1>15. \A w \in EventWords : calEventSet'[w] \in {0, Occurs(w, words)}
  BY <1>4, <1>8
<1>16. PICK set : set = Tally(words, { w \in EventWords : calEventSet'[w] # Occurs(w, words) })
  OBVIOUS
<1>17. { Written[k] : k \in DOMAIN Written }' = set
  BY <1>8, <1>11, <1>14, <1>16
<1>18. Tally(WordsOf(Current), { w \in EventWords : calEventSet[w] # Counted(w) })' = set
  BY <1>5, <1>6, <1>7, <1>16
<1>19. \A w \in EventWords : (calEventSet[w] \in {0, Counted(w)})'
  BY <1>7, <1>15
<1>20. writer' \notin {"read", "frame", "flush", "line", "flushIndex"}
  OBVIOUS
<1> QED
  BY <1>17, <1>18, <1>19, <1>20, Zenon DEF CountsWritten

\* Once all counts are written, the data say of the step what is to be said.
LEMMA WrittenSays ==
  ASSUME WriterSays, writer \in {"flush", "line", "flushIndex"}
  PROVE  Says(acqStdMode, Written, Current)
<1>1. WriterInv /\ FramesWritten /\ CountsWritten
  BY DEF WriterSays
<1>2. CASE acqStdMode
  BY <1>1, <1>2 DEF FramesWritten, Says, Until
<1>3. CASE ~acqStdMode
  <2>1. \A w \in EventWords : calEventSet[w] = 0
    BY <1>1, <1>3 DEF CountsWritten
  <2>2. { w \in EventWords : calEventSet[w] # Counted(w) }
          = { w \in EventWords : Occurs(w, WordsOf(Current)) # 0 }
    BY <2>1 DEF Counted
  <2>3. CountsOf(Current) = Tally(WordsOf(Current), { w \in EventWords : Occurs(w, WordsOf(Current)) # 0 })
    BY <1>1, CurrentIs, CountsOfIs
  <2> QED
    BY <1>1, <1>3, <2>2, <2>3 DEF CountsWritten, Says
<1> QED
  BY <1>2, <1>3

\* The end of a step: its line is written, ...
LEMMA LineSays ==
  ASSUME WriterSays, WriterInv', WriteIndexLine
  PROVE  StepsWritten'
<1>1. WriterInv /\ LinesSay /\ writer = "line"
  BY DEF WriterSays, StepsWritten, WriteIndexLine
<1>2. PICK line : line = [begin |-> stepStartOffset, end |-> Len(dataFile),
                          first |-> stepFirstFrameID, last |-> lastFrameID]
  OBVIOUS
<1>3. /\ indexFile' = Append(indexFile, line) /\ writer' = "flushIndex"
      /\ UNCHANGED <<acqStdMode, dataFile, stepStartOffset, acquired>>
  BY <1>2 DEF WriteIndexLine
<1>4. PICK n \in Nat : n = Len(indexFile) /\ Len(acquired) = n + 1
  <2>1. Len(indexFile) \in Nat
    BY <1>1 DEF WriterInv, DiskOK
  <2> QED
    BY <1>1, <2>1 DEF WriterSays, StepsWritten
<1>5. /\ Len(indexFile') = n + 1 /\ indexFile'[n + 1] = line
      /\ \A i \in 1 .. n : indexFile'[i] = indexFile[i]
  <2> DEFINE L == Lines
  <2>1. indexFile \in Seq(L)
    BY <1>1 DEF WriterInv, DiskOK
  <2> HIDE DEF L
  <2> QED
    BY <1>3, <1>4, <2>1
<1>6. Says(acqStdMode, Written, acquired[n + 1])
  <2>1. Current = acquired[n + 1]
    BY <1>4 DEF Current
  <2> QED
    BY <1>1, <2>1, WrittenSays
<1>7. stepStartOffset <= Len(dataFile) /\ Len(dataFile) \in Nat
  BY <1>1, WrittenType
<1>8. \A i \in 1 .. (n + 1) :
        /\ indexFile'[i].begin <= indexFile'[i].end
        /\ Says(acqStdMode', SubSeq(dataFile', indexFile'[i].begin + 1, indexFile'[i].end),
                acquired'[i])
  <2> SUFFICES ASSUME NEW i \in 1 .. (n + 1)
               PROVE  /\ indexFile'[i].begin <= indexFile'[i].end
                      /\ Says(acqStdMode', SubSeq(dataFile', indexFile'[i].begin + 1,
                                                  indexFile'[i].end), acquired'[i])
    OBVIOUS
  <2>1. CASE i = n + 1
    <3>1. indexFile'[i].begin = stepStartOffset /\ indexFile'[i].end = Len(dataFile)
      BY <1>2, <1>5, <2>1
    <3>2. SubSeq(dataFile', indexFile'[i].begin + 1, indexFile'[i].end) = Written
      BY <1>3, <3>1 DEF Written
    <3>3. acquired'[i] = acquired[n + 1] /\ acqStdMode' = acqStdMode
      BY <1>3, <2>1
    <3> QED
      BY <1>6, <1>7, <3>1, <3>2, <3>3
  <2>2. CASE i \in 1 .. n
    <3>1. indexFile'[i] = indexFile[i] /\ acquired'[i] = acquired[i]
      BY <1>3, <1>5, <2>2
    <3>2. /\ UNCHANGED acqStdMode
          /\ Len(indexFile) \in Nat /\ Len(indexFile) <= Len(indexFile')
          /\ Len(dataFile) <= Len(dataFile')
          /\ \A k \in 1 .. Len(dataFile) : dataFile'[k] = dataFile[k]
          /\ i \in 1 .. Len(indexFile)
      BY <1>3, <1>4, <1>5, <1>7, <2>2
    <3> QED
      BY <1>1, <3>1, <3>2, LinesKept
  <2> QED
    BY <2>1, <2>2
<1>9. LinesSay'
  BY <1>5, <1>8 DEF LinesSay
<1> QED
  BY <1>3, <1>4, <1>5, <1>9 DEF StepsWritten

\* ... and the next step begins with nothing.
LEMMA NothingSaid ==
  ASSUME WriterSays, WriterInv', FlushIndex
  PROVE  FramesWritten' /\ CountsWritten'
<1>1. WriterInv
  BY DEF WriterSays
<1>2. Current' = <<>>
  BY <1>1 DEF FlushIndex, Current, WriterInv
<1>3. Written' = <<>>
  <2> DEFINE R == Frames \cup Counts
  <2>1. dataFile \in Seq(R) /\ Len(dataFile) \in Nat
    BY <1>1, WrittenType DEF WriterInv, DiskOK
  <2> HIDE DEF R
  <2>2. SubSeq(dataFile, Len(dataFile) + 1, Len(dataFile)) = <<>>
    BY <2>1, SubNone
  <2> QED
    BY <2>2 DEF Written, FlushIndex
<1>4. FramesWritten'
  <2>1. Until(<<>>, lastFrameID')
    BY DEF Until, Ascending
  <2> QED
    BY <1>2, <1>3, <2>1, Zenon DEF FramesWritten
<1>5. CountsWritten'
  <2>1. \A w : Counted(w)' = 0
    <3>1. WordsOf(Current)' = <<>>
      BY <1>2, WordsOfNone, Zenon
    <3>2. \A w : { j \in DOMAIN <<>> : <<>>[j] = w } = {}
      OBVIOUS
    <3> QED
      BY <3>1, <3>2, FS_EmptySet DEF Counted, Occurs
  <2>2. \A w \in EventWords : calEventSet'[w] = Counted(w)' /\ calEventSet'[w] = 0
    BY <2>1 DEF FlushIndex, ResetStep
  <2>3. { w \in EventWords : calEventSet[w] # Counted(w) }' = {}
    BY <2>2
  <2>4. Tally(WordsOf(Current), { w \in EventWords : calEventSet[w] # Counted(w) })' = {}
    BY <2>3 DEF Tally
  <2>5. { Written[k] : k \in DOMAIN Written }' = {}
    BY <1>3
  <2>6. \A w \in EventWords : (calEventSet[w] \in {0, Counted(w)})'
    BY <2>2
  <2>7. \A w \in EventWords : (calEventSet[w] = Counted(w))' /\ (calEventSet[w] = 0)'
    BY <2>2
  <2> QED
    BY <2>4, <2>5, <2>6, <2>7, Zenon DEF CountsWritten
<1> QED
  BY <1>4, <1>5

\* The lines that there are stay true whatever else is written.
LEMMA StepsKept ==
  ASSUME WriterSays, WriterInv', UNCHANGED <<acqStdMode, indexFile>>,
         Len(dataFile) <= Len(dataFile'),
         \A k \in 1 .. Len(dataFile) : dataFile'[k] = dataFile[k],
         \A i \in 1 .. Len(indexFile) : acquired'[i] = acquired[i],
         \/ UNCHANGED acquired /\ (writer' = "flushIndex" <=> writer = "flushIndex")
         \/ UNCHANGED acquired /\ writer' = "dead"
         \/ /\ writer = "frame" /\ writer' # "flushIndex"
            /\ Len(acquired') = Len(acquired)
         \/ /\ writer = "flushIndex" /\ writer' # "flushIndex"
            /\ Len(acquired') = Len(acquired) + 1,
         writer # "dead"
  PROVE  StepsWritten'
<1>1. WriterInv /\ LinesSay
  BY DEF WriterSays, StepsWritten
<1>2. PICK n \in Nat, m \in Nat : n = Len(indexFile) /\ m = Len(acquired)
  <2>1. Len(indexFile) \in Nat
    BY <1>1 DEF WriterInv, DiskOK
  <2> QED
    BY <1>1, <2>1, CurrentIs
<1>3. m = n + (IF writer = "flushIndex" THEN 0 ELSE 1)
  BY <1>2 DEF WriterSays, StepsWritten
<1>4. Len(indexFile') = n /\ indexFile' = indexFile
  BY <1>2
<1>5. /\ writer' # "dead" => Len(acquired') = n + (IF writer' = "flushIndex" THEN 0 ELSE 1)
      /\ n \in {Len(acquired') - 1, Len(acquired')}
  <2>1. CASE UNCHANGED acquired
    <3>1. Len(acquired') = m
      BY <1>2, <2>1
    <3>2. writer' = "dead" \/ (writer' = "flushIndex" <=> writer = "flushIndex")
            \/ (writer = "frame" /\ writer' # "flushIndex")
            \/ Len(acquired') = Len(acquired) + 1
      OBVIOUS
    <3> QED
      BY <1>2, <1>3, <3>1, <3>2
  <2>2. CASE writer = "frame" /\ writer' # "flushIndex" /\ Len(acquired') = Len(acquired)
    BY <1>2, <1>3, <2>2
  <2>3. CASE /\ writer = "flushIndex" /\ writer' # "flushIndex"
             /\ Len(acquired') = Len(acquired) + 1
    <3>1. Len(acquired') = n + 1
      <4>1. m = n
        BY <1>3, <2>3
      <4>2. Len(acquired') = m + 1
        BY <1>2, <2>3
      <4> QED
        BY <4>1, <4>2
    <3>2. (n + 1) - 1 = n
      OBVIOUS
    <3> QED
      BY <2>3, <3>1, <3>2
  <2> QED
    BY <2>1, <2>2, <2>3
<1>6. LinesSay'
  <2> SUFFICES ASSUME NEW i \in 1 .. n
               PROVE  /\ indexFile'[i].begin <= indexFile'[i].end
                      /\ Says(acqStdMode', SubSeq(dataFile', indexFile'[i].begin + 1,
                                                  indexFile'[i].end), acquired'[i])
    BY <1>2 DEF LinesSay
  <2>1. /\ Len(indexFile) \in Nat /\ Len(indexFile) <= Len(indexFile')
        /\ i \in 1 .. Len(indexFile) /\ indexFile'[i] = indexFile[i] /\ acquired'[i] = acquired[i]
    BY <1>2, <1>4
  <2> QED
    BY <1>1, <2>1, LinesKept
<1> QED
  BY <1>4, <1>5, <1>6 DEF StepsWritten

\* A frame goes to the end of the data file and of its step.
LEMMA FrameGrows ==
  ASSUME WriterInv, StepsWritten, WriterInv', WriteFrame
  PROVE  /\ Len(dataFile) <= Len(dataFile')
         /\ \A k \in 1 .. Len(dataFile) : dataFile'[k] = dataFile[k]
         /\ Len(acquired') = Len(acquired)
         /\ \A i \in 1 .. Len(indexFile) : acquired'[i] = acquired[i]
<1>1. PICK frame, marker, record :
        /\ frame \in Frames
        /\ acquired' = [acquired EXCEPT ![Len(acquired)] = Append(acquired[Len(acquired)], frame)]
        /\ dataFile' = (dataFile \o marker) \o record
        /\ marker = <<>> \/ marker = <<LostFrame(lastFrameID + 1)>>
        /\ record = <<>> \/ record = <<frame>>
  BY FrameParts
<1> frame \in Frames
  BY <1>1
<1>2. /\ UNCHANGED <<acqStdMode, indexFile>> /\ writer = "frame"
      /\ writer' # "flushIndex" /\ writer # "dead"
  BY DEF WriteFrame
<1>3. /\ Len(dataFile) <= Len(dataFile')
      /\ \A k \in 1 .. Len(dataFile) : dataFile'[k] = dataFile[k]
  <2> DEFINE R == Frames \cup Counts
  <2>1. dataFile \in Seq(R)
    BY DEF WriterInv, DiskOK
  <2> HIDE DEF R
  <2>2. PICK d : d = dataFile \o marker
    OBVIOUS
  <2>3. \E Q : dataFile \in Seq(Q) /\ marker \in Seq(Q) /\ record \in Seq(Q)
    <3> DEFINE Q == R \cup {frame, LostFrame(lastFrameID + 1)}
    <3>1. frame \in Q /\ LostFrame(lastFrameID + 1) \in Q /\ R \subseteq Q
      OBVIOUS
    <3> HIDE DEF Q
    <3>2. dataFile \in Seq(Q)
      BY <2>1, <3>1
    <3>e. <<>> \in Seq(Q) /\ \A f \in Q : <<f>> \in Seq(Q)
      OBVIOUS
    <3>3. marker \in Seq(Q)
      BY <1>1, <3>1, <3>e
    <3>4. record \in Seq(Q)
      BY <1>1, <3>1, <3>e
    <3> QED
      BY <3>2, <3>3, <3>4
  <2>4. PICK Q : dataFile \in Seq(Q) /\ marker \in Seq(Q) /\ record \in Seq(Q)
    BY <2>3
  <2>5. /\ d \in Seq(Q) /\ Len(dataFile) \in Nat /\ Len(d) = Len(dataFile) + Len(marker)
        /\ \A k \in 1 .. Len(dataFile) : d[k] = dataFile[k]
    BY <2>2, <2>4
  <2>6. /\ Len(d) \in Nat /\ Len(d) >= Len(dataFile) /\ Len(d \o record) >= Len(d)
        /\ \A k \in 1 .. Len(d) : (d \o record)[k] = d[k]
    BY <2>4, <2>5
  <2> QED
    BY <1>1, <2>2, <2>5, <2>6
<1>4. /\ Len(acquired') = Len(acquired)
      /\ \A i \in 1 .. Len(indexFile) : acquired'[i] = acquired[i]
  <2>1. PICK n \in Nat : n = Len(indexFile) /\ Len(acquired) = n + 1
    <3>1. Len(indexFile) \in Nat
      BY DEF WriterInv, DiskOK
    <3> QED
      BY <1>2, <3>1 DEF StepsWritten
  <2> DEFINE S == Seq(Frames)
  <2>2. acquired \in Seq(S)
    BY DEF WriterInv
  <2> HIDE DEF S
  <2>3. DOMAIN acquired = 1 .. (n + 1)
    BY <2>1, <2>2
  <2>4. \A i \in 1 .. n : i \in 1 .. (n + 1) /\ i # n + 1
    OBVIOUS
  <2>5. \A i \in 1 .. n : acquired'[i] = acquired[i]
    BY <1>1, <2>1, <2>3, <2>4
  <2>6. acquired' \in Seq(S) /\ DOMAIN acquired' = 1 .. (n + 1)
    BY <1>1, <2>3 DEF WriterInv, S
  <2>7. Len(acquired') = n + 1
    BY <2>6
  <2> QED
    BY <2>1, <2>5, <2>7
<1> QED
  BY <1>3, <1>4

\* So does a count.
LEMMA CountGrows ==
  ASSUME WriterInv, WriterInv', WriteCounts
  PROVE  /\ Len(dataFile) <= Len(dataFile')
         /\ \A k \in 1 .. Len(dataFile) : dataFile'[k] = dataFile[k]
<1> DEFINE R == Frames \cup Counts
<1>1. dataFile \in Seq(R) /\ dataFile' \in Seq(R)
  BY DEF WriterInv, DiskOK
<1> HIDE DEF R
<1>2. UNCHANGED dataFile \/ \E r : dataFile' = Append(dataFile, r)
  BY DEF WriteCounts
<1>3. CASE UNCHANGED dataFile
  BY <1>1, <1>3
<1>4. ASSUME NEW r, dataFile' = Append(dataFile, r)
      PROVE  /\ Len(dataFile) <= Len(dataFile')
             /\ \A k \in 1 .. Len(dataFile) : dataFile'[k] = dataFile[k]
  BY <1>1, <1>4
<1> QED
  BY <1>2, <1>3, <1>4

\* What has been written stays, and the steps that have a line are over.
LEMMA WriterGrows ==
  ASSUME WriterSays, WriterInv', WriterNext
  PROVE  /\ UNCHANGED acqStdMode
         /\ Len(dataFile) <= Len(dataFile') /\ Len(dataFile) \in Nat
         /\ \A k \in 1 .. Len(dataFile) : dataFile'[k] = dataFile[k]
         /\ Len(indexFile) <= Len(indexFile') /\ Len(indexFile) \in Nat
         /\ \A i \in 1 .. Len(indexFile) : indexFile'[i] = indexFile[i] /\ acquired'[i] = acquired[i]
<1>1. WriterInv /\ StepsWritten
  BY DEF WriterSays
<1>2. UNCHANGED acqStdMode
  BY DEF WriterNext, ReadHeader, WriteFrame, WriteCounts, FlushData,
         WriteIndexLine, FlushIndex, FullBuffer, Killed
<1> DEFINE L == Lines
           S == Seq(Frames)
<1>3. /\ indexFile \in Seq(L) /\ Len(indexFile) \in Nat /\ Len(dataFile) \in Nat
      /\ acquired \in Seq(S) /\ Len(indexFile) <= Len(acquired)
  <2>1. indexFile \in Seq(L) /\ acquired \in Seq(S)
    BY <1>1 DEF WriterInv, DiskOK
  <2> HIDE DEF L, S
  <2>2. Len(indexFile) \in Nat /\ Len(acquired) \in Nat
    BY <2>1
  <2> QED
    BY <1>1, <2>1, <2>2, WrittenType DEF StepsWritten
<1> HIDE DEF L, S
<1>4. CASE WriteFrame
  <2>1. UNCHANGED indexFile
    BY <1>4 DEF WriteFrame
  <2>2. /\ Len(dataFile) <= Len(dataFile')
        /\ \A k \in 1 .. Len(dataFile) : dataFile'[k] = dataFile[k]
        /\ \A i \in 1 .. Len(indexFile) : acquired'[i] = acquired[i]
    BY <1>1, <1>4, FrameGrows
  <2> QED
    BY <1>2, <1>3, <2>1, <2>2
<1>5. CASE WriteCounts
  <2>1. UNCHANGED <<indexFile, acquired>>
    BY <1>5 DEF WriteCounts
  <2>2. /\ Len(dataFile) <= Len(dataFile')
        /\ \A k \in 1 .. Len(dataFile) : dataFile'[k] = dataFile[k]
    BY <1>1, <1>5, CountGrows
  <2> QED
    BY <1>2, <1>3, <2>1, <2>2
<1>6. CASE WriteIndexLine
  <2>1. PICK line : indexFile' = Append(indexFile, line)
    BY <1>6 DEF WriteIndexLine
  <2>2. UNCHANGED <<dataFile, acquired>>
    BY <1>6 DEF WriteIndexLine
  <2>3. /\ Len(indexFile) <= Len(indexFile')
        /\ \A i \in 1 .. Len(indexFile) : indexFile'[i] = indexFile[i]
    BY <1>3, <2>1
  <2> QED
    BY <1>2, <1>3, <2>2, <2>3
<1>7. CASE FlushIndex
  <2>1. acquired' = Append(acquired, <<>>) /\ UNCHANGED <<dataFile, indexFile>>
    BY <1>7 DEF FlushIndex
  <2>2. \A i \in 1 .. Len(indexFile) : acquired'[i] = acquired[i]
    BY <1>3, <2>1
  <2> QED
    BY <1>2, <1>3, <2>1, <2>2
<1>8. CASE ReadHeader \/ FlushData \/ FullBuffer \/ Killed
  <2>1. UNCHANGED <<dataFile, indexFile, acquired>>
    BY <1>8 DEF ReadHeader, FlushData, FullBuffer, Killed, diskVars
  <2> QED
    BY <1>2, <1>3, <2>1
<1> QED
  BY <1>4, <1>5, <1>6, <1>7, <1>8 DEF WriterNext

\* Every step of the writer keeps it.
LEMMA WriterSaysNext ==
  ASSUME WriterSays, WriterNext
  PROVE  WriterSays'
<1>1. WriterInv /\ Account /\ StepsWritten /\ WriterInv' /\ Account'
  BY WriterKeeps, AccountStep DEF WriterSays
<1>2. CASE WriteFrame
  <2>1. FramesWritten'
    <3>1. acqStdMode' = acqStdMode
      BY <1>2 DEF WriteFrame
    <3>2. CASE acqStdMode
      BY <1>2, <3>2, FrameWritten
    <3>3. CASE ~acqStdMode
      BY <3>1, <3>3 DEF FramesWritten
    <3> QED
      BY <3>2, <3>3
  <2>2. CountsWritten'
    <3>1. acqStdMode' = acqStdMode
      BY <1>2 DEF WriteFrame
    <3>2. CASE ~acqStdMode
      BY <1>2, <3>2, FrameTallied
    <3>3. CASE acqStdMode
      BY <3>1, <3>3 DEF CountsWritten
    <3> QED
      BY <3>2, <3>3
  <2>3. StepsWritten'
    <3>1. /\ UNCHANGED <<acqStdMode, indexFile>> /\ writer = "frame"
          /\ writer' # "flushIndex" /\ writer # "dead"
      BY <1>2 DEF WriteFrame
    <3>2. /\ Len(dataFile) <= Len(dataFile')
          /\ \A k \in 1 .. Len(dataFile) : dataFile'[k] = dataFile[k]
          /\ Len(acquired') = Len(acquired)
          /\ \A i \in 1 .. Len(indexFile) : acquired'[i] = acquired[i]
      BY <1>1, <1>2, FrameGrows
    <3> QED
      BY <1>1, <3>1, <3>2, StepsKept
  <2> QED
    BY <1>1, <2>1, <2>2, <2>3 DEF WriterSays
<1>3. CASE WriteCounts
  <2>1. UNCHANGED <<acqStdMode, lastFrameID, indexFile, stepStartOffset, acquired>> /\ writer = "close"
    BY <1>3 DEF WriteCounts
  <2>2. CASE writer' = "close" /\ ~acqStdMode
    <3>1. FramesWritten'
      BY <2>1, <2>2 DEF FramesWritten
    <3>2. CountsWritten'
      BY <1>3, <2>2, CountWritten
    <3>3. /\ Len(dataFile) <= Len(dataFile')
          /\ \A k \in 1 .. Len(dataFile) : dataFile'[k] = dataFile[k]
      BY <1>1, <1>3, CountGrows
    <3>4. StepsWritten'
      BY <2>1, <2>2, <3>3, <1>1, StepsKept
    <3> QED
      BY <1>1, <3>1, <3>2, <3>4 DEF WriterSays
  <2>3. CASE writer' = "flush"
    <3>1. UNCHANGED <<calEventSet, dataFile, onDisk>>
      BY <1>3, <2>1, <2>3 DEF WriteCounts
    <3>2. acqStdMode \/ \A w \in EventWords : calEventSet[w] = 0
      <4>1. acqStdMode \/ \A w \in EventWords : ~(calEventSet[w] > 0)
        BY <1>3, <2>1, <2>3 DEF WriteCounts
      <4>2. \A w \in EventWords : calEventSet[w] \in Nat
        BY <1>1 DEF WriterInv, StepOK
      <4>3. \A w \in EventWords : ~(calEventSet[w] > 0) => calEventSet[w] = 0
        BY <4>2
      <4> QED
        BY <4>1, <4>3
    <3>3. FramesWritten' /\ CountsWritten'
      BY <1>1, <2>1, <2>3, <3>1, <3>2, WrittenKept
    <3>4. StepsWritten'
      BY <1>1, <2>1, <2>3, <3>1, WrittenType, StepsKept
    <3> QED
      BY <1>1, <3>3, <3>4 DEF WriterSays
  <2> QED
    BY <1>3, <2>1, <2>2, <2>3 DEF WriteCounts
<1>4. CASE WriteIndexLine
  <2>1. /\ UNCHANGED <<acqStdMode, calEventSet, lastFrameID, dataFile, stepStartOffset, acquired>>
        /\ writer' = "flushIndex" /\ writer = "line"
    BY <1>4 DEF WriteIndexLine, stepVars
  <2>2. FramesWritten' /\ CountsWritten'
    BY <1>1, <2>1, WrittenKept
  <2> QED
    BY <1>1, <1>4, <2>2, LineSays DEF WriterSays
<1>5. CASE FlushIndex
  <2>1. FramesWritten' /\ CountsWritten'
    BY <1>1, <1>5, NothingSaid
  <2>2. StepsWritten'
    <3>1. /\ writer = "flushIndex" /\ writer' = "read" /\ acquired' = Append(acquired, <<>>)
          /\ UNCHANGED <<acqStdMode, dataFile, indexFile>>
      BY <1>5 DEF FlushIndex
    <3> DEFINE S == Seq(Frames)
    <3>2. acquired \in Seq(S) /\ <<>> \in S
      BY <1>1 DEF WriterInv
    <3> HIDE DEF S
    <3>3. Len(acquired') = Len(acquired) + 1 /\ Len(acquired) \in Nat
      BY <3>1, <3>2
    <3>4. Len(indexFile) = Len(acquired)
      BY <1>1, <3>1, <3>3 DEF StepsWritten
    <3>5. \A i \in 1 .. Len(indexFile) : acquired'[i] = acquired[i]
      BY <3>1, <3>2, <3>4
    <3> QED
      <4>1. /\ Len(dataFile) <= Len(dataFile')
            /\ \A k \in 1 .. Len(dataFile) : dataFile'[k] = dataFile[k]
        BY <1>1, <3>1, WrittenType
      <4>2. /\ writer = "flushIndex" /\ writer' # "flushIndex" /\ writer # "dead"
            /\ Len(acquired') = Len(acquired) + 1 /\ UNCHANGED <<acqStdMode, indexFile>>
        BY <3>1, <3>3
      <4> QED
        BY <1>1, <3>5, <4>1, <4>2, StepsKept
  <2> QED
    BY <1>1, <2>1, <2>2 DEF WriterSays
<1>6. CASE ReadHeader \/ FlushData \/ FullBuffer \/ Killed
  <2>1. /\ UNCHANGED <<acqStdMode, calEventSet, lastFrameID, dataFile, indexFile, stepStartOffset, acquired>>
        /\ writer # "dead"
        /\ writer' \in {"read", "frame"} => writer \in {"read", "frame"}
        /\ writer' \in {"flush", "line", "flushIndex"} => writer \in {"flush", "line", "flushIndex"}
    BY <1>6 DEF ReadHeader, FlushData, FullBuffer, Killed, stepVars, diskVars
  <2>2. writer' = "dead" \/ (writer' = "flushIndex" <=> writer = "flushIndex")
    BY <1>6 DEF ReadHeader, FlushData, FullBuffer, Killed
  <2>3. FramesWritten' /\ CountsWritten'
    BY <1>1, <2>1, WrittenKept
  <2>4. StepsWritten'
    BY <1>1, <2>1, <2>2, WrittenType, StepsKept
  <2> QED
    BY <1>1, <2>3, <2>4 DEF WriterSays
<1> QED
  BY <1>2, <1>3, <1>4, <1>5, <1>6 DEF WriterNext

-----------------------------------------------------------------------------
(* The files are a log of complete steps.                                  *)

\* All lines are on disk, but for the one that has just been written.
LinesOnDisk ==
  writer # "dead" => Len(indexFile) = indexOnDisk + (IF writer = "flushIndex" THEN 1 ELSE 0)

\* A line is on disk unless it is about to be flushed, whatever the step.
LEMMA LinesOnDiskNext ==
  ASSUME WriterSays, WriterInv', LinesOnDisk, WriterNext
  PROVE  LinesOnDisk'
<1>1. Len(indexFile) \in Nat /\ indexOnDisk \in Nat /\ Len(indexFile') \in Nat /\ indexOnDisk' \in Nat
  BY DEF WriterSays, WriterInv, DiskOK
<1>2. CASE WriteIndexLine
  <2>1. PICK line : indexFile' = Append(indexFile, line)
    BY <1>2 DEF WriteIndexLine
  <2> DEFINE L == Lines
  <2>2. indexFile \in Seq(L)
    BY DEF WriterSays, WriterInv, DiskOK
  <2> HIDE DEF L
  <2>3. Len(indexFile') = Len(indexFile) + 1
    BY <2>1, <2>2
  <2> QED
    BY <1>1, <1>2, <2>3 DEF WriteIndexLine, LinesOnDisk
<1>3. CASE FlushIndex
  BY <1>1, <1>3 DEF FlushIndex, LinesOnDisk
<1>4. CASE ReadHeader \/ WriteFrame \/ WriteCounts \/ FlushData \/ FullBuffer \/ Killed
  BY <1>1, <1>4 DEF ReadHeader, WriteFrame, WriteCounts, FlushData, FullBuffer, Killed,
                    diskVars, LinesOnDisk
<1> QED
  BY <1>2, <1>3, <1>4 DEF WriterNext

\* What there is to read of a step.
Entry(full, frames) == IF full THEN EventsOf(frames) ELSE CountsOf(frames)

\* The log, as RawReader says it of the files.
DiskLog ==
  [i \in 1 .. indexOnDisk |->
     LET records == SubSeq(dataFile, indexFile[i].begin + 1,
                      IF indexFile[i].end < onDisk THEN indexFile[i].end
                      ELSE onDisk)
     IN  IF acqStdMode THEN EventsOf(records)
         ELSE { records[k] : k \in DOMAIN records }]

\* It has the steps.
LEMMA DiskLogIs ==
  WriterSays => /\ indexOnDisk \in Nat /\ indexOnDisk <= Len(indexFile)
                /\ DiskLog = [i \in 1 .. indexOnDisk |-> Entry(acqStdMode, acquired[i])]
<1> SUFFICES ASSUME WriterSays
             PROVE  /\ indexOnDisk \in Nat /\ indexOnDisk <= Len(indexFile)
                    /\ DiskLog = [i \in 1 .. indexOnDisk |-> Entry(acqStdMode, acquired[i])]
  OBVIOUS
<1>1. WriterInv /\ LinesSay
  BY DEF WriterSays, StepsWritten
<1>2. indexOnDisk \in Nat /\ indexOnDisk <= Len(indexFile) /\ onDisk \in Nat /\ Len(indexFile) \in Nat
  BY <1>1 DEF WriterInv, DiskOK
<1>3. ASSUME NEW i \in 1 .. indexOnDisk
      PROVE  (LET records == SubSeq(dataFile, indexFile[i].begin + 1,
                               IF indexFile[i].end < onDisk THEN indexFile[i].end
                               ELSE onDisk)
              IN  IF acqStdMode THEN EventsOf(records)
                  ELSE { records[k] : k \in DOMAIN records })
             = Entry(acqStdMode, acquired[i])
  <2>1. i \in 1 .. Len(indexFile)
    BY <1>2
  <2>2. indexFile[i].end <= onDisk /\ indexFile[i].end \in Nat
    BY <1>1, <2>1, LineParts DEF WriterInv
  <2>3. (IF indexFile[i].end < onDisk THEN indexFile[i].end ELSE onDisk) = indexFile[i].end
    BY <1>2, <2>2
  <2>4. Says(acqStdMode, SubSeq(dataFile, indexFile[i].begin + 1, indexFile[i].end), acquired[i])
    BY <1>1, <2>1 DEF LinesSay
  <2> QED
    BY <2>3, <2>4 DEF Says, Entry
<1> QED
  BY <1>2, <1>3 DEF DiskLog

\* And so it has after a step.
LEMMA DiskLogNow ==
  (WriterSays => DiskLog = [i \in 1 .. indexOnDisk |-> Entry(acqStdMode, acquired[i])])'
<1>1. WriterSays => DiskLog = [i \in 1 .. indexOnDisk |-> Entry(acqStdMode, acquired[i])]
  BY DiskLogIs
<1> QED
  BY <1>1, PTL

\* As long as no line gets to the disk, it is as it was.
LEMMA DiskLogKept ==
  ASSUME WriterSays, WriterSays', UNCHANGED <<acqStdMode, indexOnDisk>>,
         \A i \in 1 .. Len(indexFile) : acquired'[i] = acquired[i]
  PROVE  DiskLog' = DiskLog
<1>1. /\ indexOnDisk \in Nat /\ indexOnDisk <= Len(indexFile) /\ Len(indexFile) \in Nat
      /\ DiskLog = [i \in 1 .. indexOnDisk |-> Entry(acqStdMode, acquired[i])]
  BY DiskLogIs DEF WriterSays, WriterInv, DiskOK
<1>2. DiskLog' = [i \in 1 .. indexOnDisk' |-> Entry(acqStdMode', acquired'[i])]
  BY DiskLogNow
<1>3. \A i \in 1 .. indexOnDisk : acquired'[i] = acquired[i]
  BY <1>1
<1>4. [i \in 1 .. indexOnDisk' |-> Entry(acqStdMode', acquired'[i])]
        = [i \in 1 .. indexOnDisk |-> Entry(acqStdMode, acquired[i])]
  BY <1>3
<1> QED
  BY <1>1, <1>2, <1>4

\* A step's line gets to the disk.
LEMMA DiskLogCommits ==
  ASSUME WriterSays, WriterSays', LinesOnDisk, FlushIndex
  PROVE  DiskLog' = Append(DiskLog, Entry(acqStdMode, Current)) /\ Current' = <<>>
<1>1. /\ writer = "flushIndex" /\ acquired' = Append(acquired, <<>>)
      /\ acqStdMode' = acqStdMode /\ indexOnDisk' = Len(indexFile)
  BY DEF FlushIndex
<1>2. PICK n \in Nat : indexOnDisk = n /\ Len(indexFile) = n + 1 /\ Len(acquired) = n + 1
  <2>1. indexOnDisk \in Nat /\ Len(indexFile) \in Nat /\ Len(acquired) \in Nat
    BY CurrentIs DEF WriterSays, WriterInv, DiskOK
  <2> QED
    BY <1>1, <2>1 DEF WriterSays, StepsWritten, LinesOnDisk
<1> DEFINE S == Seq(Frames)
<1>3. acquired \in Seq(S) /\ <<>> \in S
  BY DEF WriterSays, WriterInv
<1> HIDE DEF S
<1>4. /\ \A i \in 1 .. (n + 1) : acquired'[i] = acquired[i]
      /\ Len(acquired') = n + 2 /\ acquired'[n + 2] = <<>>
  BY <1>1, <1>2, <1>3
<1>5. Current' = <<>> /\ Current = acquired[n + 1]
  BY <1>2, <1>4 DEF Current
<1>6. PICK log : log = [i \in 1 .. n |-> Entry(acqStdMode, acquired[i])]
  OBVIOUS
<1>7. DiskLog = log
  BY <1>2, <1>6, DiskLogIs
<1>8. PICK more : more = [i \in 1 .. (n + 1) |-> Entry(acqStdMode, acquired[i])]
  OBVIOUS
<1>9. DiskLog' = more
  <2>1. DiskLog' = [i \in 1 .. indexOnDisk' |-> Entry(acqStdMode', acquired'[i])]
    BY DiskLogNow
  <2> QED
    BY <1>1, <1>2, <1>4, <1>8, <2>1
<1>10. more = Append(log, Entry(acqStdMode, Current))
  <2>1. PICK Y : Y = { Entry(acqStdMode, acquired[i]) : i \in 1 .. (n + 1) }
    OBVIOUS
  <2>2. \A i \in 1 .. n : i \in 1 .. (n + 1)
    OBVIOUS
  <2>3. log \in [1 .. n -> Y] /\ more \in [1 .. (n + 1) -> Y]
    BY <1>6, <1>8, <2>1, <2>2
  <2>4. \A i \in 1 .. n : more[i] = log[i]
    BY <1>6, <1>8, <2>2
  <2>5. more = Append(log, more[n + 1])
    BY <2>3, <2>4, IsAppend
  <2>6. n + 1 \in 1 .. (n + 1)
    OBVIOUS
  <2>7. more[n + 1] = Entry(acqStdMode, Current)
    BY <1>5, <1>8, <2>6
  <2> QED
    BY <2>5, <2>7
<1> QED
  BY <1>5, <1>7, <1>9, <1>10

LogInv == RawInv /\ WriterSays /\ LinesOnDisk

\* All of it holds of the writer after every step.
LEMMA LogInvNext ==
  ASSUME LogInv, [Next]_vars
  PROVE  LogInv' /\ (WriterNext \/ UNCHANGED writerVars)
<1>1. WriterNext \/ UNCHANGED writerVars
  BY DEF Next, ReaderNext, OpenFile, ProcessStep, SkipEmptyFrame, ReadFrame, EndStep, vars
<1>2. RawInv'
  BY RawInvNext DEF LogInv
<1>3. CASE WriterNext
  BY <1>2, <1>3, WriterSaysNext, LinesOnDiskNext DEF LogInv, RawInv
<1>4. CASE UNCHANGED writerVars
  <2>1. /\ UNCHANGED <<writer, acqStdMode, dataFile, onDisk, indexFile, indexOnDisk, stepStartOffset,
                       acquired, calEventSet>>
        /\ UNCHANGED <<lastFrameID, stepFirstFrameID, stepAllFrames, stepLostFrames0>>
    BY <1>4 DEF writerVars, diskVars, stepVars
  <2>2. Account'
    <3>1. Current' = Current
      BY <2>1 DEF Current
    <3>2. Ascending(Current)' = Ascending(Current) /\ MissingAll(Current)' = MissingAll(Current)
      BY <3>1 DEF Ascending, MissingAll
    <3>3. Account
      BY DEF LogInv, WriterSays
    <3> QED
      BY <2>1, <3>1, <3>2, <3>3 DEF Account
  <2>3. FramesWritten' /\ CountsWritten'
    BY <1>2, <2>1, WrittenKept DEF LogInv, RawInv
  <2>4. StepsWritten'
    <3>1. StepsWritten
      BY DEF LogInv, WriterSays
    <3>2. LinesSay' = LinesSay
      BY <2>1 DEF LinesSay
    <3> QED
      BY <2>1, <3>1, <3>2 DEF StepsWritten
  <2>5. LinesOnDisk'
    BY <2>1 DEF LogInv, LinesOnDisk
  <2> QED
    <3>1. WriterInv'
      BY <1>2 DEF RawInv
    <3>2. WriterSays'
      BY <2>2, <2>3, <2>4, <3>1 DEF WriterSays
    <3> QED
      BY <1>1, <1>2, <2>5, <3>2 DEF LogInv
<1> QED
  BY <1>1, <1>3, <1>4

\* Whoever reads the files finds the completed steps, each with all of its events, or
\* how often each has come, whenever it reads and whenever the writer is killed.
THEOREM LogIsImplemented == Spec => ImplementsLog
<1>1. Init => LogInv
  BY RawInvInit, WriterSaysInit DEF Init, LogInv, LinesOnDisk, WriterInit
<1>2. LogInv /\ [Next]_vars => LogInv'
  BY LogInvNext
<1>3. Init => Log!LogInit
  <2> SUFFICES ASSUME Init PROVE Log!LogInit
    OBVIOUS
  <2>1. acqStdMode \in BOOLEAN /\ Current = <<>> /\ indexOnDisk = 0
    BY DEF Init, WriterInit, Current
  <2>2. DiskLog = <<>>
    BY <2>1 DEF DiskLog
  <2> QED
    BY <2>1, <2>2 DEF Log!LogInit, DiskLog
<1>4. LogInv /\ [Next]_vars => [Log!LogNext]_(Log!logVars)
  <2> SUFFICES ASSUME LogInv, [Next]_vars
               PROVE  [Log!LogNext]_(Log!logVars)
    OBVIOUS
  <2>1. LogInv' /\ (WriterNext \/ UNCHANGED writerVars)
    BY LogInvNext
  <2>2. /\ WriterSays /\ WriterSays' /\ LinesOnDisk
        /\ WriterInv /\ WriterInv'
    BY <2>1 DEF LogInv, WriterSays
  <2>3. CASE FlushIndex
    <3>1. DiskLog' = Append(DiskLog, Entry(acqStdMode, Current)) /\ Current' = <<>>
      BY <2>2, <2>3, DiskLogCommits
    <3>2. acqStdMode' = acqStdMode
      BY <2>3 DEF FlushIndex
    <3>3. Log!Commit
      BY <3>1, <3>2, Zenon DEF Log!Commit, DiskLog, Entry
    <3> QED
      BY <3>3 DEF Log!LogNext
  <2>4. CASE WriteFrame
    <3>1. /\ UNCHANGED <<acqStdMode, indexOnDisk>>
          /\ \A i \in 1 .. Len(indexFile) : acquired'[i] = acquired[i]
      BY <2>2, <2>4, FrameGrows DEF WriteFrame, WriterSays
    <3>2. DiskLog' = DiskLog
      BY <2>2, <3>1, DiskLogKept
    <3>3. PICK frame \in Frames : Current' = Append(Current, frame)
      BY <2>2, <2>4, FrameParts
    <3>4. PICK cur \in Seq(Frames) : cur = Current
      BY <2>2, CurrentIs
    <3>5. PICK more : more = Append(cur, frame)
      OBVIOUS
    <3>6. Len(more) = Len(cur) + 1 /\ SubSeq(more, 1, Len(cur)) = cur
      <4> DEFINE F == Frames
      <4>1. cur \in Seq(F) /\ frame \in F
        OBVIOUS
      <4> HIDE DEF F
      <4> QED
        BY <3>5, <4>1
    <3>7. Log!Take
      <4>1. Len(Current') = Len(Current) + 1 /\ SubSeq(Current', 1, Len(Current)) = Current
        BY <3>3, <3>4, <3>5, <3>6
      <4> QED
        BY <3>1, <3>2, <4>1, Zenon DEF Log!Take, DiskLog
    <3> QED
      BY <3>7 DEF Log!LogNext
  <2>5. CASE ReadHeader \/ WriteCounts \/ FlushData \/ WriteIndexLine \/ FullBuffer \/ Killed \/ UNCHANGED writerVars
    <3>1. UNCHANGED <<acqStdMode, indexOnDisk, acquired>>
      BY <2>5 DEF ReadHeader, WriteCounts, FlushData, WriteIndexLine, FullBuffer, Killed, diskVars, writerVars
    <3>2. DiskLog' = DiskLog
      BY <2>2, <3>1, DiskLogKept
    <3>3. Current' = Current
      BY <3>1 DEF Current
    <3> QED
      BY <3>1, <3>2, <3>3, Zenon DEF Log!logVars, DiskLog
  <2> QED
    BY <2>1, <2>3, <2>4, <2>5 DEF WriterNext
<1> QED
  BY <1>1, <1>2, <1>3, <1>4, PTL DEF Spec, ImplementsLog, Log!LogSpec

-----------------------------------------------------------------------------
(* What the reader passes on.                                              *)

HitSet == [frame : Int, word : EventWords]

\* The events of hits, each with its time.
StampsOf(tMin, hits) == [k \in DOMAIN hits |-> <<tMin + hits[k].frame, hits[k].word>>]
Stamps(block)    == StampsOf(block.tMin, block.hits)
PassedOn(blocks) == FlattenSeq([b \in DOMAIN blocks |-> Stamps(blocks[b])])

\* The times of a block are a sequence of as many.
LEMMA StampsType ==
  ASSUME NEW tMin \in Int, NEW hits \in Seq(HitSet)
  PROVE  StampsOf(tMin, hits) \in Seq(Stamped)
<1> DEFINE H == HitSet
<1>1. \A h \in H : <<tMin + h.frame, h.word>> \in Stamped
  BY DEF HitSet, Stamped
<1>2. hits \in Seq(H)
  OBVIOUS
<1> HIDE DEF H
<1>3. StampsOf(tMin, hits) \in [1 .. Len(hits) -> Stamped] /\ Len(hits) \in Nat
  BY <1>1, <1>2 DEF StampsOf
<1> QED
  BY <1>3

\* A sequence is as long as its domain says.
LEMMA LenIs ==
  ASSUME NEW X, NEW s \in Seq(X), NEW n \in Nat, DOMAIN s = 1 .. n
  PROVE  Len(s) = n
<1>1. PICK m \in Nat : m = Len(s) /\ DOMAIN s = 1 .. m
  OBVIOUS
<1>2. CASE m < n
  <2>1. n \in 1 .. n /\ n \notin 1 .. m
    BY <1>2
  <2> QED
    BY <1>1, <2>1
<1>3. CASE n < m
  <2>1. m \in 1 .. m /\ m \notin 1 .. n
    BY <1>3
  <2> QED
    BY <1>1, <2>1
<1> QED
  BY <1>1, <1>2, <1>3

\* A frame's hits say what its events do, after those that were there.
LEMMA StampsMore ==
  ASSUME NEW frame \in Frames, NEW tMin \in IDs, NEW hits \in Seq(HitSet)
  PROVE  StampsOf(tMin, hits \o Hits(frame, tMin)) = StampsOf(tMin, hits) \o Events(frame)
<1>1. PICK t \in Int : t = tMin
  BY WriterAssumption DEF IDs
<1>2. PICK own \in Seq(HitSet) : own = Hits(frame, tMin)
  BY HitsType DEF HitSet
<1> DEFINE H == HitSet
<1>3. hits \in Seq(H) /\ own \in Seq(H)
  OBVIOUS
<1> HIDE DEF H
<1>4. PICK n \in Nat, k \in Nat : n = Len(hits) /\ k = Len(own)
  BY <1>3
<1>5. PICK all : all = hits \o own
  OBVIOUS
<1>6. /\ all \in Seq(H) /\ Len(all) = n + k
      /\ \A i \in 1 .. n : all[i] = hits[i]
      /\ \A i \in 1 .. k : all[n + i] = own[i]
  BY <1>3, <1>4, <1>5, ConcatMembers
<1>7. PICK a : a = StampsOf(t, all)
  OBVIOUS
<1>8. PICK b : b = StampsOf(t, hits)
  OBVIOUS
<1>9. PICK e : e = Events(frame)
  OBVIOUS
<1>10. b \in Seq(Stamped) /\ e \in Seq(Stamped) /\ Len(b) = n /\ DOMAIN b = 1 .. n
  <2>1. b \in Seq(Stamped) /\ e \in Seq(Stamped)
    BY <1>8, <1>9, StampsType, EventsStamped
  <2>2. DOMAIN b = 1 .. n
    BY <1>3, <1>4, <1>8 DEF StampsOf
  <2> QED
    BY <2>1, <2>2, LenIs
<1>11. /\ Len(e) = k /\ DOMAIN own = 1 .. k
       /\ \A i \in 1 .. k : <<t + own[i].frame, own[i].word>> = e[i]
  <2>1. frame.events \in Seq(EventWords) /\ frame.id \in Int
    BY EventsType, WriterAssumption DEF IDs
  <2>2. DOMAIN own = DOMAIN frame.events /\ DOMAIN own = 1 .. k
    BY <1>2, <1>3, <1>4 DEF Hits
  <2>3. Len(e) = k
    <3>1. DOMAIN e = 1 .. k
      BY <1>9, <2>2 DEF Events
    <3> QED
      BY <1>10, <3>1, LenIs
  <2>4. \A i \in 1 .. k : /\ own[i].frame = frame.id - t /\ own[i].word = frame.events[i]
                          /\ e[i] = <<frame.id, frame.events[i]>>
    BY <1>1, <1>2, <1>9, <2>2 DEF Hits, Events
  <2>5. t + (frame.id - t) = frame.id
    BY <2>1
  <2> QED
    BY <2>2, <2>3, <2>4, <2>5
<1>12. /\ b \o e \in Seq(Stamped) /\ Len(b \o e) = n + k
       /\ \A i \in 1 .. n : (b \o e)[i] = b[i]
       /\ \A i \in 1 .. k : (b \o e)[n + i] = e[i]
  <2>1. b \in Seq(Stamped) /\ e \in Seq(Stamped) /\ n = Len(b) /\ k = Len(e)
    BY <1>10, <1>11
  <2> QED
    BY <2>1, ConcatMembers
<1>13. PICK c : c = b \o e
  OBVIOUS
<1>14. a \in Seq(Stamped) /\ DOMAIN a = 1 .. (n + k) /\ DOMAIN all = 1 .. (n + k)
  <2>1. DOMAIN all = 1 .. (n + k)
    BY <1>6
  <2>2. a \in Seq(Stamped)
    BY <1>6, <1>7, StampsType DEF H
  <2> QED
    BY <1>7, <2>1, <2>2 DEF StampsOf
<1>15. \A i \in 1 .. (n + k) : a[i] = c[i]
  <2> SUFFICES ASSUME NEW i \in 1 .. (n + k) PROVE a[i] = c[i]
    OBVIOUS
  <2>1. a[i] = <<t + all[i].frame, all[i].word>>
    BY <1>7, <1>14 DEF StampsOf
  <2>2. CASE i \in 1 .. n
    <3>1. all[i] = hits[i] /\ c[i] = b[i]
      BY <1>6, <1>12, <1>13, <2>2
    <3>2. b[i] = <<t + hits[i].frame, hits[i].word>>
      BY <1>8, <1>10, <2>2 DEF StampsOf
    <3> QED
      BY <2>1, <3>1, <3>2
  <2>3. CASE i \notin 1 .. n
    <3>1. PICK j \in 1 .. k : i = n + j
      <4>1. i - n \in 1 .. k /\ i = n + (i - n)
        BY <2>3
      <4> QED
        BY <4>1
    <3>2. all[i] = own[j] /\ c[i] = e[j]
      BY <1>6, <1>12, <1>13, <3>1
    <3> QED
      BY <1>11, <2>1, <3>2
  <2> QED
    BY <2>2, <2>3
<1>16. c \in Seq(Stamped) /\ Len(c) = n + k
  BY <1>12, <1>13
<1>17. a = [i \in 1 .. (n + k) |-> a[i]] /\ c = [i \in 1 .. (n + k) |-> c[i]]
  BY <1>14, <1>16
<1>18. a = c
  BY <1>15, <1>17
<1> QED
  BY <1>1, <1>2, <1>5, <1>7, <1>8, <1>9, <1>13, <1>18

\* What a block may be.
LEMMA BlockParts ==
  ASSUME NEW block \in Blocks \cup {NULL}
  PROVE  /\ block.hits \in Seq(HitSet) /\ block.tMin \in IDs
         /\ block.tMin \in Int /\ block.tMax \in Int
         /\ Stamps(block) \in Seq(Stamped)
<1>1. block.hits \in Seq(HitSet) /\ block.tMin \in IDs /\ block.tMax \in Int
  <2>1. CASE block \in Blocks
    <3>1. block.tMax \in 1 .. (MaxFrameID + 1)
      BY <2>1 DEF Blocks
    <3>2. MaxFrameID + 1 \in Int
      BY WriterAssumption
    <3>3. block.tMax \in Int
      BY <3>1, <3>2
    <3> QED
      BY <2>1, <3>3 DEF Blocks, HitSet
  <2>2. CASE block = NULL
    <3>1. 0 \in IDs /\ <<>> \in Seq(HitSet)
      BY WriterAssumption DEF IDs
    <3> QED
      BY <2>2, <3>1 DEF NULL
  <2> QED
    BY <2>1, <2>2
<1>2. block.tMin \in Int
  BY <1>1, WriterAssumption DEF IDs
<1> QED
  BY <1>1, <1>2, StampsType DEF Stamps

\* A block more has its events at the end.
LEMMA PassedOnAppend ==
  ASSUME NEW blocks \in Seq(Blocks), NEW block \in Blocks
  PROVE  /\ PassedOn(blocks) \in Seq(Stamped)
         /\ PassedOn(Append(blocks, block)) = PassedOn(blocks) \o Stamps(block)
<1>1. PICK n \in Nat : n = Len(blocks)
  OBVIOUS
<1>2. PICK more : more = Append(blocks, block)
  OBVIOUS
<1> DEFINE B == Blocks
<1>3. /\ DOMAIN blocks = 1 .. n /\ DOMAIN more = 1 .. (n + 1) /\ more[n + 1] = block
      /\ \A i \in 1 .. n : blocks[i] \in B /\ more[i] = blocks[i]
  <2>1. blocks \in Seq(B) /\ block \in B
    OBVIOUS
  <2> HIDE DEF B
  <2> QED
    BY <1>1, <1>2, <2>1
<1> DEFINE Y == Seq(Stamped)
<1>4. \A b \in B : Stamps(b) \in Y
  BY BlockParts
<1>5. block \in B
  OBVIOUS
<1> HIDE DEF B, Y
<1>6. PICK a : a = [i \in 1 .. n |-> Stamps(blocks[i])]
  OBVIOUS
<1>7. PICK c : c = [i \in 1 .. (n + 1) |-> Stamps(more[i])]
  OBVIOUS
<1>8. \A i \in 1 .. (n + 1) : i \in 1 .. n \/ i = n + 1
  OBVIOUS
<1>9. a \in [1 .. n -> Y] /\ c \in [1 .. (n + 1) -> Y]
  BY <1>3, <1>4, <1>5, <1>6, <1>7, <1>8
<1>10. c[n + 1] = Stamps(block) /\ \A i \in 1 .. n : c[i] = a[i]
  BY <1>3, <1>6, <1>7
<1>11. a \in Seq(Y) /\ c = Append(a, c[n + 1])
  BY <1>9, <1>10, IsAppend
<1>12. PassedOn(blocks) = FlattenSeq(a) /\ PassedOn(more) = FlattenSeq(c)
  BY <1>3, <1>6, <1>7 DEF PassedOn
<1>13. Stamps(block) \in Y
  BY <1>4, <1>5
<1>14. /\ FlattenSeq(a) \in Seq(Stamped)
       /\ FlattenSeq(Append(a, Stamps(block))) = FlattenSeq(a) \o Stamps(block)
  BY <1>11, <1>13, FlattenAppend DEF Y
<1> QED
  BY <1>2, <1>10, <1>11, <1>12, <1>14

\* Nothing has been passed on.
LEMMA PassedOnNone == PassedOn(<<>>) = <<>> /\ Stamps(NULL) = <<>>
<1>1. [b \in DOMAIN <<>> |-> Stamps(<<>>[b])] = <<>>
  OBVIOUS
<1>2. Stamps(NULL) = <<>>
  BY DEF Stamps, StampsOf, NULL
<1> QED
  BY <1>1, <1>2, FlattenEmpty DEF PassedOn

-----------------------------------------------------------------------------
(* A step is read as it was acquired.                                      *)

\* A block has its events between its times.
Holds(block) ==
  \A k \in DOMAIN block.hits : block.hits[k].frame \in 0 .. (block.tMax - block.tMin - 1)

\* The blocks that have been passed on, and then the one that is being filled,
\* follow each other; and the next frame is later than the last one of the latter.
Follow ==
  /\ \A b \in DOMAIN sink : Holds(sink[b])
  /\ \A b \in DOMAIN sink : b > 1 => sink[b - 1].tMax <= sink[b].tMin
  /\ outBuffer = NULL => sink = <<>>
  /\ outBuffer # NULL =>
       /\ Holds(outBuffer)
       /\ outBuffer.tMin <= prevFrameID /\ outBuffer.tMax = prevFrameID + 1
       /\ sink # <<>> => sink[Len(sink)].tMax <= outBuffer.tMin
       /\ \E i \in (steps[step].begin + 1) .. currentPosition : dataFile[i].id = prevFrameID

\* The reader's lines are the writer's.
LinesFound ==
  /\ reader = "closed" => steps = <<>>
  /\ Len(steps) <= Len(indexFile)
  /\ \A i \in 1 .. Len(steps) : steps[i] = indexFile[i]

\* What it has passed on, with what is in its block, is what it has read.
Reading ==
  reader = "read" =>
    /\ steps[step].begin <= currentPosition /\ currentPosition <= steps[step].end
    /\ PassedOn(sink) \o Stamps(outBuffer)
         = EventsOf(SubSeq(dataFile, steps[step].begin + 1, currentPosition))
    /\ Ascending(acquired[step]) => Follow

HasRead ==
  reader = "done" => /\ step \in 1 .. Len(steps)
                     /\ PassedOn(sink) = EventsOf(acquired[step])
                     /\ BlocksFollow

ReaderSays == LinesFound /\ Reading /\ HasRead

\* What there is to know of the step that is being read.
LEMMA StepParts ==
  ASSUME LogInv, LinesFound, step \in 1 .. Len(steps), reader # "closed"
  PROVE  /\ acqStdMode /\ dataFile \in Seq(Frames) /\ Len(dataFile) \in Nat
         /\ steps[step] = indexFile[step] /\ step \in 1 .. Len(indexFile)
         /\ steps[step].begin \in Nat /\ steps[step].end \in Nat
         /\ steps[step].begin <= steps[step].end /\ steps[step].end <= Len(dataFile)
         /\ EventsOf(SubSeq(dataFile, steps[step].begin + 1, steps[step].end))
              = EventsOf(acquired[step])
         /\ Ascending(acquired[step]) =>
              Ascending(SubSeq(dataFile, steps[step].begin + 1, steps[step].end))
<1>1. acqStdMode /\ WriterInv /\ WriterSays /\ LinesSay
  BY DEF LogInv, RawInv, WriterSays, StepsWritten
<1>2. dataFile \in Seq(Frames) /\ Len(dataFile) \in Nat
  BY <1>1, WrittenType DEF WriterInv, OfFrames
<1>3. Len(steps) \in Nat /\ Len(indexFile) \in Nat
  BY <1>1 DEF LogInv, RawInv, WriterInv, DiskOK
<1>4. step \in 1 .. Len(indexFile) /\ steps[step] = indexFile[step]
  BY <1>3 DEF LinesFound
<1>5. /\ indexFile[step].begin \in Nat /\ indexFile[step].end \in Nat
      /\ indexFile[step].end <= Len(dataFile)
  BY <1>1, <1>4, LineParts
<1>6. /\ indexFile[step].begin <= indexFile[step].end
      /\ Says(acqStdMode, SubSeq(dataFile, indexFile[step].begin + 1, indexFile[step].end),
              acquired[step])
  BY <1>1, <1>4 DEF LinesSay
<1> QED
  BY <1>1, <1>2, <1>4, <1>5, <1>6 DEF Says

\* The records of a part of the data file, in order, by their places in the file.
LEMMA PlacesAscend ==
  ASSUME NEW data \in Seq(Frames), NEW b \in Nat, NEW e \in Nat, b <= e, e <= Len(data),
         Ascending(SubSeq(data, b + 1, e)),
         NEW i \in (b + 1) .. e, NEW j \in (b + 1) .. e, i < j
  PROVE  data[i].id < data[j].id
<1>1. PICK s : s = SubSeq(data, b + 1, e)
  OBVIOUS
<1> DEFINE F == Frames
<1>2. data \in Seq(F)
  OBVIOUS
<1> HIDE DEF F
<1>3. DOMAIN s = 1 .. (e - b) /\ \A k \in 1 .. (e - b) : s[k] = data[b + k]
  BY <1>1, <1>2
<1>4. i - b \in 1 .. (e - b) /\ j - b \in 1 .. (e - b) /\ i - b < j - b
  OBVIOUS
<1>5. s[i - b].id < s[j - b].id
  BY <1>1, <1>3, <1>4 DEF Ascending
<1>6. b + (i - b) = i /\ b + (j - b) = j
  OBVIOUS
<1> QED
  BY <1>3, <1>4, <1>5, <1>6

\* The writer goes on: what the reader has found stays.
LEMMA WriterLeavesReader ==
  ASSUME LogInv, LogInv', ReaderSays, WriterNext, UNCHANGED readerVars
  PROVE  ReaderSays'
<1>1. /\ UNCHANGED <<reader, steps, step, currentPosition, outBuffer, prevFrameID, sink>>
  BY DEF readerVars, readVars
<1>2. /\ UNCHANGED acqStdMode
      /\ Len(dataFile) <= Len(dataFile') /\ Len(dataFile) \in Nat
      /\ \A k \in 1 .. Len(dataFile) : dataFile'[k] = dataFile[k]
      /\ Len(indexFile) <= Len(indexFile') /\ Len(indexFile) \in Nat
      /\ \A i \in 1 .. Len(indexFile) : indexFile'[i] = indexFile[i] /\ acquired'[i] = acquired[i]
  BY WriterGrows DEF LogInv, RawInv
<1>3. Len(indexFile') \in Nat /\ Len(steps) \in Nat
  BY SMTT(30) DEF LogInv, RawInv, WriterInv, DiskOK
<1>4. LinesFound'
  <2>1. \A i \in 1 .. Len(steps) : i \in 1 .. Len(indexFile)
    BY <1>2, <1>3 DEF ReaderSays, LinesFound
  <2> QED
    BY <1>1, <1>2, <1>3, <2>1 DEF ReaderSays, LinesFound
<1>5. CASE reader = "read"
  <2>1. /\ step \in 1 .. Len(steps) /\ reader # "closed" /\ currentPosition \in Nat
        /\ LinesFound /\ Reading
    BY <1>5 DEF LogInv, RawInv, ReadOK, ReaderSays
  <2>2. /\ step \in 1 .. Len(indexFile) /\ steps[step].begin \in Nat /\ steps[step].end \in Nat
        /\ steps[step].end <= Len(dataFile) /\ dataFile \in Seq(Frames)
    BY <2>1, StepParts
  <2>3. /\ steps[step].begin <= currentPosition /\ currentPosition <= steps[step].end
        /\ PassedOn(sink) \o Stamps(outBuffer)
             = EventsOf(SubSeq(dataFile, steps[step].begin + 1, currentPosition))
        /\ Ascending(acquired[step]) => Follow
    BY <1>5, <2>1 DEF Reading
  <2>4. acquired'[step] = acquired[step]
    BY <1>2, <2>2
  <2>5. currentPosition <= Len(dataFile)
    BY <1>2, <2>1, <2>2, <2>3
  <2>6. SubSeq(dataFile', steps[step].begin + 1, currentPosition)
          = SubSeq(dataFile, steps[step].begin + 1, currentPosition)
    <3> DEFINE F == Frames
    <3>1. PICK t : t = dataFile'
      OBVIOUS
    <3>2. PICK d : d = dataFile
      OBVIOUS
    <3>3. d \in Seq(F) /\ t \in Seq(F)
      BY <1>2, <2>1, <2>2, <3>1, <3>2 DEF LogInv, RawInv, WriterInv, OfFrames
    <3> HIDE DEF F
    <3>4. PICK b \in Nat : b = steps[step].begin
      BY <2>2
    <3>5. /\ currentPosition \in Nat /\ currentPosition <= Len(d) /\ currentPosition <= Len(t)
          /\ \A i \in 1 .. currentPosition : t[i] = d[i]
      BY <1>2, <2>1, <2>5, <3>1, <3>2, <3>3
    <3>6. SubSeq(t, b + 1, currentPosition) = SubSeq(d, b + 1, currentPosition)
      BY <3>3, <3>5, SubKeep
    <3> QED
      BY <3>1, <3>2, <3>4, <3>6
  <2>7. Follow => Follow'
    <3>1. \A i \in (steps[step].begin + 1) .. currentPosition : dataFile'[i] = dataFile[i]
      <4>1. \A i \in (steps[step].begin + 1) .. currentPosition : i \in 1 .. Len(dataFile)
        BY <1>2, <2>1, <2>2, <2>5
      <4> QED
        BY <1>2, <4>1
    <3>2. \A block : Holds(block)' = Holds(block)
      BY DEF Holds
    <3> QED
      BY <1>1, <3>1 DEF Follow, Holds
  <2>8. Reading'
    <3>1. (Ascending(acquired[step]))' <=> Ascending(acquired[step])
      BY <1>1, <2>4 DEF Ascending
    <3>2. (PassedOn(sink) \o Stamps(outBuffer))' = PassedOn(sink) \o Stamps(outBuffer)
      BY <1>1 DEF PassedOn, Stamps, StampsOf
    <3>3. (EventsOf(SubSeq(dataFile, steps[step].begin + 1, currentPosition)))'
            = EventsOf(SubSeq(dataFile, steps[step].begin + 1, currentPosition))
      BY <1>1, <2>6
    <3> QED
      BY <1>1, <2>3, <2>7, <3>1, <3>2, <3>3 DEF Reading
  <2>9. HasRead'
    BY <1>1, <1>5 DEF HasRead
  <2> QED
    BY <1>4, <2>8, <2>9 DEF ReaderSays
<1>6. CASE reader # "read"
  <2>1. Reading'
    BY <1>1, <1>6 DEF Reading
  <2>2. HasRead'
    <3>1. CASE reader # "done"
      BY <1>1, <3>1 DEF HasRead
    <3>2. CASE reader = "done"
      <4>1. /\ step \in 1 .. Len(steps) /\ PassedOn(sink) = EventsOf(acquired[step])
            /\ BlocksFollow
        BY <3>2 DEF ReaderSays, HasRead
      <4>2. step \in 1 .. Len(indexFile)
        BY <1>2, <1>3, <4>1 DEF ReaderSays, LinesFound
      <4>3. acquired'[step] = acquired[step]
        BY <1>2, <4>2
      <4>4. BlocksFollow'
        BY <1>1, <4>1, <4>3 DEF BlocksFollow, Ascending
      <4>5. (PassedOn(sink) = EventsOf(acquired[step]))'
        BY <1>1, <4>1, <4>3 DEF PassedOn, Stamps, StampsOf
      <4> QED
        BY <1>1, <4>1, <4>4, <4>5 DEF HasRead
    <3> QED
      BY <3>1, <3>2
  <2> QED
    BY <1>4, <2>1, <2>2 DEF ReaderSays
<1> QED
  BY <1>5, <1>6

\* The next record is read: what has been read is one more.
LEMMA NextRecord ==
  ASSUME LogInv, ReaderSays, InStep
  PROVE  LET frame == dataFile[currentPosition + 1]
             begin == steps[step].begin
         IN  /\ frame \in Frames /\ currentPosition \in Nat /\ begin \in Nat
             /\ begin <= currentPosition /\ currentPosition + 1 <= steps[step].end
             /\ SubSeq(dataFile, begin + 1, currentPosition) \in Seq(Frames)
             /\ SubSeq(dataFile, begin + 1, currentPosition + 1)
                  = Append(SubSeq(dataFile, begin + 1, currentPosition), frame)
             /\ Ascending(acquired[step]) =>
                  \A i \in (begin + 1) .. currentPosition : dataFile[i].id < frame.id
<1>1. /\ step \in 1 .. Len(steps) /\ reader = "read" /\ reader # "closed"
      /\ currentPosition \in Nat /\ currentPosition < steps[step].end
      /\ LinesFound /\ Reading
  BY DEF InStep, LogInv, RawInv, ReadOK, ReaderSays
<1>2. PICK b \in Nat, e \in Nat, c \in Nat :
        /\ b = steps[step].begin /\ e = steps[step].end /\ c = currentPosition
        /\ b <= c /\ c < e /\ e <= Len(dataFile) /\ Len(dataFile) \in Nat
  <2>1. steps[step].begin <= currentPosition
    BY <1>1 DEF Reading
  <2> QED
    BY <1>1, <2>1, StepParts
<1> DEFINE F == Frames
<1>3. dataFile \in Seq(F) /\ c < Len(dataFile)
  BY <1>1, <1>2, StepParts
<1>4. /\ SubSeq(dataFile, b + 1, c) \in Seq(F)
      /\ SubSeq(dataFile, b + 1, c + 1) = Append(SubSeq(dataFile, b + 1, c), dataFile[c + 1])
  BY <1>2, <1>3, SubNext, ZenonT(60)
<1>5. dataFile[c + 1] \in F
  <2> HIDE DEF F
  <2> QED
    BY <1>2, <1>3
<1>6. ASSUME Ascending(acquired[step]), NEW i \in (b + 1) .. c
      PROVE  dataFile[i].id < dataFile[c + 1].id
  <2>1. Ascending(SubSeq(dataFile, b + 1, e))
    BY <1>1, <1>2, <1>6, StepParts
  <2>2. i \in (b + 1) .. e /\ c + 1 \in (b + 1) .. e /\ i < c + 1 /\ b <= e
    BY <1>2
  <2> QED
    BY <1>2, <1>3, <2>1, <2>2, PlacesAscend
<1>7. c + 1 <= e
  BY <1>2
<1> QED
  BY <1>2, <1>4, <1>5, <1>6, <1>7

\* A frame without events is passed over.
LEMMA SkipReads ==
  ASSUME LogInv, ReaderSays, SkipEmptyFrame
  PROVE  ReaderSays'
<1>1. /\ InStep /\ currentPosition' = currentPosition + 1
      /\ dataFile[currentPosition + 1].events = <<>>
      /\ UNCHANGED <<acquired, dataFile, indexFile, reader, steps, step, outBuffer, prevFrameID, sink>>
  BY DEF SkipEmptyFrame, writerVars, diskVars
<1>2. reader = "read" /\ Reading /\ LinesFound
  BY <1>1 DEF InStep, ReaderSays
<1>3. PICK frame \in Frames, b \in Nat, c \in Nat :
             /\ frame = dataFile[c + 1] /\ b = steps[step].begin /\ c = currentPosition
             /\ b <= c /\ c + 1 <= steps[step].end
             /\ SubSeq(dataFile, b + 1, c) \in Seq(Frames)
             /\ SubSeq(dataFile, b + 1, c + 1) = Append(SubSeq(dataFile, b + 1, c), frame)
  BY <1>1, NextRecord
<1>4. EventsOf(SubSeq(dataFile, b + 1, c + 1)) = EventsOf(SubSeq(dataFile, b + 1, c))
  BY <1>1, <1>3, EventsOfSame, ZenonT(60)
<1>5. PassedOn(sink) \o Stamps(outBuffer) = EventsOf(SubSeq(dataFile, b + 1, c))
  BY <1>2, <1>3 DEF Reading
<1>6. (PassedOn(sink) \o Stamps(outBuffer)
         = EventsOf(SubSeq(dataFile, steps[step].begin + 1, currentPosition)))'
  <2>1. (PassedOn(sink) \o Stamps(outBuffer))' = PassedOn(sink) \o Stamps(outBuffer)
    BY <1>1 DEF PassedOn, Stamps, StampsOf
  <2>2. (EventsOf(SubSeq(dataFile, steps[step].begin + 1, currentPosition)))'
          = EventsOf(SubSeq(dataFile, b + 1, c + 1))
    BY <1>1, <1>3
  <2> QED
    BY <1>4, <1>5, <2>1, <2>2
<1>7. Ascending(acquired[step])' => Follow'
  <2>1. Ascending(acquired[step])' <=> Ascending(acquired[step])
    BY <1>1 DEF Ascending
  <2>2. Follow => Follow'
    <3>1. \A i \in (b + 1) .. c : i \in (b + 1) .. (c + 1)
      OBVIOUS
    <3> QED
      BY <1>1, <1>3, <3>1 DEF Follow, Holds
  <2> QED
    BY <1>2, <2>1, <2>2 DEF Reading
<1>8. (steps[step].begin <= currentPosition /\ currentPosition <= steps[step].end)'
  BY <1>1, <1>3
<1>9. Reading'
  BY <1>6, <1>7, <1>8 DEF Reading
<1>10. LinesFound' /\ HasRead'
  BY <1>1, <1>2 DEF LinesFound, HasRead
<1> QED
  BY <1>9, <1>10 DEF ReaderSays

\* The events of a frame go into a block, and the one before is passed on if it is full.
LEMMA FrameReads ==
  ASSUME LogInv, ReaderSays, ReadFrame
  PROVE  (PassedOn(sink) \o Stamps(outBuffer)
            = EventsOf(SubSeq(dataFile, steps[step].begin + 1, currentPosition)))'
<1>1. InStep /\ reader = "read" /\ RawInv
  BY DEF ReadFrame, InStep, LogInv
<1>2. PICK frame \in Frames, b \in Nat, c \in Nat :
             /\ frame = dataFile[c + 1] /\ b = steps[step].begin /\ c = currentPosition
             /\ SubSeq(dataFile, b + 1, c) \in Seq(Frames)
             /\ SubSeq(dataFile, b + 1, c + 1) = Append(SubSeq(dataFile, b + 1, c), frame)
  BY <1>1, NextRecord
<1>3. PICK read \in Seq(Stamped) : /\ read = EventsOf(SubSeq(dataFile, b + 1, c))
                                   /\ EventsOf(SubSeq(dataFile, b + 1, c + 1)) = read \o Events(frame)
  BY <1>2, EventsOfAppend
<1>4. PassedOn(sink) \o Stamps(outBuffer) = read
  BY <1>1, <1>2, <1>3 DEF ReaderSays, Reading
<1>5. /\ dataFile' = dataFile /\ steps' = steps /\ step' = step
      /\ currentPosition' = c + 1
  BY <1>2 DEF ReadFrame, writerVars, diskVars
<1>6. PICK tMin, hits :
        /\ tMin = (IF StartsBlock(frame) THEN frame.id ELSE outBuffer.tMin)
        /\ hits = (IF StartsBlock(frame) THEN <<>> ELSE outBuffer.hits)
        /\ sink' = (IF outBuffer # NULL /\ StartsBlock(frame) THEN Append(sink, outBuffer) ELSE sink)
        /\ outBuffer' = [tMin |-> tMin, tMax |-> frame.id + 1, hits |-> hits \o Hits(frame, tMin)]
  BY <1>2 DEF ReadFrame
<1>7. outBuffer \in Blocks \cup {NULL} /\ sink \in Seq(Blocks)
  BY <1>1 DEF RawInv, ReadOK
<1>8. tMin \in IDs /\ hits \in Seq(HitSet)
  <2>1. frame.id \in IDs
    BY EventsType
  <2>2. outBuffer.tMin \in IDs /\ outBuffer.hits \in Seq(HitSet)
    BY <1>7, BlockParts
  <2>3. <<>> \in Seq(HitSet)
    OBVIOUS
  <2> QED
    BY <1>6, <2>1, <2>2, <2>3
<1>9. Stamps(outBuffer)' = StampsOf(tMin, hits) \o Events(frame)
  <2>1. Stamps(outBuffer)' = StampsOf(tMin, hits \o Hits(frame, tMin))
    BY <1>6 DEF Stamps
  <2> QED
    BY <1>8, <2>1, StampsMore
<1>10. PICK own \in Seq(Stamped) : own = Events(frame)
  BY EventsStamped
<1>11. PICK was \in Seq(Stamped) : was = Stamps(outBuffer)
  BY <1>7, BlockParts
<1>12. PICK passed \in Seq(Stamped) : passed = PassedOn(sink)
  <2>1. \E block : block \in Blocks
    <3>1. [tMin |-> 0, tMax |-> 1, hits |-> <<>>] \in Blocks
      <4>1. 0 \in IDs /\ 1 \in 1 .. (MaxFrameID + 1)
        BY WriterAssumption DEF IDs
      <4> QED
        BY <4>1 DEF Blocks
    <3> QED
      BY <3>1
  <2> QED
    BY <1>7, <2>1, PassedOnAppend
<1>13. PassedOn(sink)' \o Stamps(outBuffer)' = read \o own
  <2>1. CASE outBuffer = NULL
    <3>1. StampsOf(tMin, hits) = <<>> /\ Stamps(outBuffer) = <<>> /\ sink' = sink
      <4>1. hits = <<>> /\ sink' = sink
        BY <1>6, <2>1 DEF StartsBlock
      <4> QED
        BY <2>1, <4>1, PassedOnNone DEF StampsOf
    <3>2. PassedOn(sink)' = passed /\ Stamps(outBuffer)' = <<>> \o own /\ passed \o <<>> = read
      BY <1>4, <1>9, <1>10, <1>12, <3>1 DEF PassedOn, Stamps, StampsOf
    <3>3. <<>> \o own = own /\ passed \o <<>> = passed
      OBVIOUS
    <3> QED
      BY <3>2, <3>3
  <2>2. CASE outBuffer # NULL /\ StartsBlock(frame)
    <3>1. StampsOf(tMin, hits) = <<>> /\ sink' = Append(sink, outBuffer) /\ outBuffer \in Blocks
      <4>1. hits = <<>> /\ sink' = Append(sink, outBuffer) /\ outBuffer \in Blocks
        BY <1>6, <1>7, <2>2
      <4> QED
        BY <4>1 DEF StampsOf
    <3>2. PassedOn(sink)' = read
      BY <1>4, <1>7, <3>1, PassedOnAppend
    <3>3. Stamps(outBuffer)' = own
      <4>1. <<>> \o own = own
        OBVIOUS
      <4> QED
        BY <1>9, <1>10, <3>1, <4>1
    <3> QED
      BY <3>2, <3>3
  <2>3. CASE ~StartsBlock(frame)
    <3>1. tMin = outBuffer.tMin /\ hits = outBuffer.hits /\ sink' = sink
      BY <1>6, <2>3
    <3>2. Stamps(outBuffer)' = was \o own
      BY <1>9, <1>10, <1>11, <3>1 DEF Stamps
    <3>3. PassedOn(sink)' = passed
      BY <1>12, <3>1 DEF PassedOn, Stamps, StampsOf
    <3>4. passed \o (was \o own) = (passed \o was) \o own
      OBVIOUS
    <3>5. passed \o was = read
      BY <1>4, <1>11, <1>12
    <3> QED
      BY <3>2, <3>3, <3>4, <3>5
  <2> QED
    BY <2>1, <2>2, <2>3
<1>14. (EventsOf(SubSeq(dataFile, steps[step].begin + 1, currentPosition)))' = read \o own
  BY <1>2, <1>3, <1>5, <1>10
<1> QED
  BY <1>13, <1>14

\* Of a step in order, the blocks follow each other.
LEMMA FrameFollows ==
  ASSUME LogInv, ReaderSays, ReadFrame, Ascending(acquired[step])
  PROVE  Follow'
<1>1. InStep /\ reader = "read" /\ RawInv /\ Follow
  BY DEF ReadFrame, InStep, LogInv, ReaderSays, Reading
<1>2. PICK frame \in Frames, b \in Nat, c \in Nat :
             /\ frame = dataFile[c + 1] /\ b = steps[step].begin /\ c = currentPosition
             /\ b <= c
             /\ \A i \in (b + 1) .. c : dataFile[i].id < frame.id
  BY <1>1, NextRecord
<1>3. /\ dataFile' = dataFile /\ steps' = steps /\ step' = step
      /\ currentPosition' = c + 1 /\ prevFrameID' = frame.id
  BY <1>2 DEF ReadFrame, writerVars, diskVars
<1>4. PICK tMin, hits :
        /\ tMin = (IF StartsBlock(frame) THEN frame.id ELSE outBuffer.tMin)
        /\ hits = (IF StartsBlock(frame) THEN <<>> ELSE outBuffer.hits)
        /\ sink' = (IF outBuffer # NULL /\ StartsBlock(frame) THEN Append(sink, outBuffer) ELSE sink)
        /\ outBuffer' = [tMin |-> tMin, tMax |-> frame.id + 1, hits |-> hits \o Hits(frame, tMin)]
  BY <1>2 DEF ReadFrame
<1>5. PICK id \in Int : id = frame.id
  BY EventsType, WriterAssumption DEF IDs
<1>6. outBuffer \in Blocks \cup {NULL} /\ sink \in Seq(Blocks) /\ prevFrameID \in Int
  BY <1>1, WriterAssumption DEF RawInv, ReadOK, IDs
<1>7. PICK old : old = outBuffer
  OBVIOUS
<1>8. old.tMin \in Int /\ old.tMax \in Int /\ old.hits \in Seq(HitSet)
  BY <1>6, <1>7, BlockParts
<1>9. old # NULL => /\ Holds(old) /\ old.tMin <= prevFrameID /\ old.tMax = prevFrameID + 1
                    /\ prevFrameID < id
  BY <1>1, <1>2, <1>5, <1>7 DEF Follow
<1>10. tMin \in Int /\ tMin <= id /\ tMin \in IDs
  <2>1. CASE StartsBlock(frame)
    BY <1>4, <1>5, <2>1, EventsType
  <2>2. CASE ~StartsBlock(frame)
    <3>1. old # NULL /\ tMin = old.tMin
      BY <1>4, <1>7, <2>2 DEF StartsBlock
    <3>2. old.tMin \in IDs
      BY <1>6, <1>7, BlockParts
    <3> QED
      BY <1>6, <1>8, <1>9, <3>1, <3>2
  <2> QED
    BY <2>1, <2>2
<1>11. hits \in Seq(HitSet) /\ \A k \in DOMAIN hits : hits[k].frame \in 0 .. (id - tMin)
  <2>1. CASE StartsBlock(frame)
    <3>1. hits = <<>>
      BY <1>4, <2>1
    <3> QED
      BY <3>1
  <2>2. CASE ~StartsBlock(frame)
    <3>1. old # NULL /\ tMin = old.tMin /\ hits = old.hits
      BY <1>4, <1>7, <2>2 DEF StartsBlock
    <3>2. \A k \in DOMAIN hits : hits[k].frame \in 0 .. (old.tMax - old.tMin - 1)
      BY <1>9, <3>1 DEF Holds
    <3>3. old.tMax - old.tMin - 1 <= id - tMin
      BY <1>6, <1>8, <1>9, <3>1
    <3>4. PICK m \in Int : m = old.tMax - old.tMin - 1
      BY <1>8
    <3>5. \A x \in 0 .. m : x \in 0 .. (id - tMin)
      BY <1>10, <3>3, <3>4
    <3> QED
      BY <1>8, <3>1, <3>2, <3>4, <3>5
  <2> QED
    BY <2>1, <2>2
<1>12. PICK own \in Seq(HitSet) : own = Hits(frame, tMin)
  BY <1>10, HitsType DEF HitSet
<1>13. \A k \in DOMAIN own : own[k].frame \in 0 .. (id - tMin)
  <2>1. \A k \in DOMAIN own : own[k].frame = id - tMin
    BY <1>5, <1>12 DEF Hits
  <2>2. id - tMin \in 0 .. (id - tMin)
    BY <1>10
  <2> QED
    BY <2>1, <2>2
<1>14. PICK all : all = hits \o own
  OBVIOUS
<1>15. \A k \in DOMAIN all : all[k].frame \in 0 .. (id - tMin)
  <2> DEFINE H == HitSet
  <2>1. hits \in Seq(H) /\ own \in Seq(H)
    BY <1>11
  <2> HIDE DEF H
  <2>2. PICK n \in Nat, m \in Nat : n = Len(hits) /\ m = Len(own)
    BY <2>1
  <2>3. /\ all \in Seq(H) /\ Len(all) = n + m
        /\ \A i \in 1 .. n : all[i] = hits[i]
        /\ \A i \in 1 .. m : all[n + i] = own[i]
    BY <1>14, <2>1, <2>2, ConcatMembers
  <2>4. DOMAIN all = 1 .. (n + m) /\ DOMAIN hits = 1 .. n /\ DOMAIN own = 1 .. m
    BY <2>1, <2>2, <2>3
  <2> SUFFICES ASSUME NEW k \in 1 .. (n + m) PROVE all[k].frame \in 0 .. (id - tMin)
    BY <2>4
  <2>5. CASE k \in 1 .. n
    BY <1>11, <2>3, <2>4, <2>5
  <2>6. CASE k \notin 1 .. n
    <3>1. PICK j \in 1 .. m : k = n + j
      <4>1. k - n \in 1 .. m /\ k = n + (k - n)
        BY <2>6
      <4> QED
        BY <4>1
    <3> QED
      BY <1>13, <2>3, <2>4, <3>1
  <2> QED
    BY <2>5, <2>6
<1>16. PICK new : new = [tMin |-> tMin, tMax |-> id + 1, hits |-> all]
  OBVIOUS
<1>17. outBuffer' = new
  BY <1>4, <1>5, <1>12, <1>14, <1>16
<1>18. Holds(new) /\ new.tMin <= id /\ new.tMax = id + 1 /\ new.tMin = tMin
  <2>1. (id + 1) - tMin - 1 = id - tMin
    BY <1>10
  <2> QED
    BY <1>10, <1>15, <1>16, <2>1 DEF Holds
<1>19. new # NULL
  <2>1. id >= 0
    BY <1>5, EventsType, WriterAssumption DEF IDs
  <2> QED
    BY <1>18, <2>1 DEF NULL
<1>20. \E i \in (b + 1) .. (c + 1) : dataFile[i].id = id
  <2>1. c + 1 \in (b + 1) .. (c + 1)
    BY <1>2
  <2> QED
    BY <1>2, <1>5, <2>1
<1> DEFINE InOrder(blocks) ==
      /\ \A k \in DOMAIN blocks : Holds(blocks[k])
      /\ \A k \in DOMAIN blocks : k > 1 => blocks[k - 1].tMax <= blocks[k].tMin
      /\ blocks # <<>> => blocks[Len(blocks)].tMax <= tMin
<1>21. InOrder(sink')
  <2>1. CASE old = NULL
    <3>1. sink' = <<>>
      BY <1>1, <1>4, <1>7, <2>1 DEF Follow
    <3> QED
      BY <3>1
  <2>2. CASE old # NULL /\ StartsBlock(frame)
    <3>1. sink' = Append(sink, old) /\ tMin = id /\ old \in Blocks
      BY <1>4, <1>5, <1>6, <1>7, <2>2
    <3> DEFINE B == Blocks
    <3>2. sink \in Seq(B) /\ old \in B
      BY <1>6, <3>1
    <3> HIDE DEF B
    <3>3. PICK n \in Nat : n = Len(sink)
      BY <3>2
    <3>4. PICK t : t = Append(sink, old)
      OBVIOUS
    <3>5. /\ DOMAIN t = 1 .. (n + 1) /\ Len(t) = n + 1 /\ t[n + 1] = old /\ DOMAIN sink = 1 .. n
          /\ \A k \in 1 .. n : t[k] = sink[k]
      BY <3>2, <3>3, <3>4
    <3>6. \A k \in 1 .. (n + 1) : k \in 1 .. n \/ k = n + 1
      OBVIOUS
    <3>7. \A k \in 1 .. (n + 1) : Holds(t[k])
      BY <1>1, <1>9, <2>2, <3>5, <3>6 DEF Follow
    <3>8. ASSUME NEW k \in 1 .. (n + 1), k > 1
          PROVE  t[k - 1].tMax <= t[k].tMin
      <4>1. k - 1 \in 1 .. n
        BY <3>8
      <4>2. CASE k \in 1 .. n
        BY <1>1, <3>5, <3>8, <4>1, <4>2 DEF Follow
      <4>3. CASE k = n + 1
        <5>1. sink # <<>> /\ k - 1 = n
          BY <3>3, <4>1, <4>3
        <5>2. sink[Len(sink)].tMax <= old.tMin
          BY <1>1, <1>7, <2>2, <5>1 DEF Follow
        <5> QED
          BY <3>3, <3>5, <4>1, <4>3, <5>1, <5>2
      <4> QED
        BY <3>6, <4>2, <4>3
    <3>9. t[Len(t)].tMax <= tMin
      BY <1>6, <1>9, <2>2, <3>1, <3>5
    <3> QED
      BY <3>1, <3>4, <3>5, <3>7, <3>8, <3>9
  <2>3. CASE old # NULL /\ ~StartsBlock(frame)
    <3>1. sink' = sink /\ tMin = old.tMin
      BY <1>4, <1>7, <2>3
    <3> QED
      BY <1>1, <1>7, <2>3, <3>1 DEF Follow
  <2> QED
    BY <2>1, <2>2, <2>3
<1>22. /\ \A k \in DOMAIN sink' : Holds(sink'[k])
       /\ \A k \in DOMAIN sink' : k > 1 => sink'[k - 1].tMax <= sink'[k].tMin
       /\ sink' # <<>> => sink'[Len(sink')].tMax <= new.tMin
  BY <1>18, <1>21
<1>23. (\A k \in DOMAIN sink : Holds(sink[k]))'
  BY <1>22 DEF Holds
<1>24. (Holds(outBuffer))'
  BY <1>17, <1>18 DEF Holds
<1>25. (\E i \in (steps[step].begin + 1) .. currentPosition : dataFile[i].id = prevFrameID)'
  BY <1>2, <1>3, <1>5, <1>20
<1>26. /\ outBuffer' # NULL /\ outBuffer'.tMin <= prevFrameID' /\ outBuffer'.tMax = prevFrameID' + 1
       /\ sink' # <<>> => sink'[Len(sink')].tMax <= outBuffer'.tMin
  BY <1>3, <1>5, <1>17, <1>18, <1>19, <1>22
<1> QED
  BY <1>22, <1>23, <1>24, <1>25, <1>26, Zenon DEF Follow

\* A frame is read.
LEMMA ReadReads ==
  ASSUME LogInv, ReaderSays, ReadFrame
  PROVE  ReaderSays'
<1>1. /\ InStep /\ currentPosition' = currentPosition + 1 /\ reader = "read"
      /\ UNCHANGED <<acquired, dataFile, indexFile, reader, steps, step>>
  BY DEF ReadFrame, InStep, writerVars, diskVars
<1>2. /\ currentPosition \in Nat /\ steps[step].begin \in Nat
      /\ steps[step].begin <= currentPosition /\ currentPosition + 1 <= steps[step].end
  BY <1>1, NextRecord
<1>3. Ascending(acquired[step])' => Follow'
  <2>1. Ascending(acquired[step])' <=> Ascending(acquired[step])
    BY <1>1 DEF Ascending
  <2> QED
    BY <2>1, FrameFollows
<1>4. (steps[step].begin <= currentPosition /\ currentPosition <= steps[step].end)'
  BY <1>1, <1>2
<1>5. Reading'
  BY <1>3, <1>4, FrameReads DEF Reading
<1>6. LinesFound' /\ HasRead'
  BY <1>1 DEF ReaderSays, LinesFound, HasRead
<1> QED
  BY <1>5, <1>6 DEF ReaderSays

\* At the end of the step the last block is passed on.
LEMMA EndReads ==
  ASSUME LogInv, ReaderSays, EndStep
  PROVE  ReaderSays'
<1>1. /\ reader = "read" /\ reader' = "done" /\ currentPosition >= steps[step].end
      /\ UNCHANGED <<acquired, dataFile, indexFile, steps, step>>
      /\ sink' = IF outBuffer # NULL THEN Append(sink, outBuffer) ELSE sink
  BY DEF EndStep, writerVars, diskVars
<1>2. /\ RawInv /\ LinesFound /\ Reading /\ step \in 1 .. Len(steps) /\ reader # "closed"
  BY <1>1 DEF LogInv, RawInv, ReaderSays
<1>3. /\ steps[step].end \in Nat
      /\ EventsOf(SubSeq(dataFile, steps[step].begin + 1, steps[step].end)) = EventsOf(acquired[step])
  BY <1>2, StepParts
<1>4. currentPosition = steps[step].end
  BY <1>1, <1>2, <1>3 DEF Reading, RawInv, ReadOK
<1>5. outBuffer \in Blocks \cup {NULL} /\ sink \in Seq(Blocks)
  BY <1>2 DEF RawInv, ReadOK
<1>6. PassedOn(sink) \o Stamps(outBuffer) = EventsOf(acquired[step])
  BY <1>1, <1>2, <1>3, <1>4 DEF Reading
<1>7. PassedOn(sink)' = EventsOf(acquired[step])
  <2>1. CASE outBuffer # NULL
    <3>1. sink' = Append(sink, outBuffer) /\ outBuffer \in Blocks
      BY <1>1, <1>5, <2>1
    <3> QED
      BY <1>5, <1>6, <3>1, PassedOnAppend
  <2>2. CASE outBuffer = NULL
    <3>1. sink' = sink /\ Stamps(outBuffer) = <<>>
      BY <1>1, <2>2, PassedOnNone
    <3>2. PICK passed : passed = PassedOn(sink) /\ passed \in Seq(Stamped)
      <4>1. \E block : block \in Blocks
        <5>1. 0 \in IDs /\ 1 \in 1 .. (MaxFrameID + 1)
          BY WriterAssumption DEF IDs
        <5>2. [tMin |-> 0, tMax |-> 1, hits |-> <<>>] \in Blocks
          BY <5>1 DEF Blocks
        <5> QED
          BY <5>2
      <4> QED
        BY <1>5, <4>1, PassedOnAppend
    <3>3. passed \o <<>> = passed
      BY <3>2
    <3>4. PassedOn(sink)' = passed
      BY <3>1, <3>2 DEF PassedOn, Stamps, StampsOf
    <3> QED
      BY <1>6, <3>1, <3>2, <3>3, <3>4
  <2> QED
    BY <2>1, <2>2
<1>8. BlocksFollow'
  <2>1. Ascending(acquired[step])' <=> Ascending(acquired[step])
    BY <1>1 DEF Ascending
  <2> SUFFICES ASSUME Ascending(acquired[step])
               PROVE  \A b \in DOMAIN sink' : /\ Holds(sink'[b])
                                              /\ b > 1 => sink'[b - 1].tMax <= sink'[b].tMin
    BY <2>1 DEF BlocksFollow, Holds
  <2>2. Follow
    BY <1>1, <1>2 DEF Reading
  <2>3. CASE outBuffer = NULL
    <3>1. sink' = <<>>
      BY <1>1, <2>2, <2>3 DEF Follow
    <3> QED
      BY <3>1
  <2>4. CASE outBuffer # NULL
    <3> DEFINE B == Blocks
    <3>1. PICK old : old = outBuffer
      OBVIOUS
    <3>2. sink' = Append(sink, old) /\ sink \in Seq(B) /\ old \in B /\ Holds(old)
      BY <1>1, <1>5, <2>2, <2>4, <3>1 DEF Follow
    <3> HIDE DEF B
    <3>3. PICK n \in Nat : n = Len(sink)
      BY <3>2
    <3>4. PICK t : t = Append(sink, old)
      OBVIOUS
    <3>5. /\ DOMAIN t = 1 .. (n + 1) /\ t[n + 1] = old /\ DOMAIN sink = 1 .. n
          /\ \A k \in 1 .. n : t[k] = sink[k]
      BY <3>2, <3>3, <3>4
    <3>6. \A k \in 1 .. (n + 1) : k \in 1 .. n \/ k = n + 1
      OBVIOUS
    <3>7. \A k \in 1 .. (n + 1) : Holds(t[k])
      BY <2>2, <3>2, <3>5, <3>6 DEF Follow
    <3>8. ASSUME NEW k \in 1 .. (n + 1), k > 1
          PROVE  t[k - 1].tMax <= t[k].tMin
      <4>1. k - 1 \in 1 .. n
        BY <3>8
      <4>2. CASE k \in 1 .. n
        BY <2>2, <3>5, <3>8, <4>1, <4>2 DEF Follow
      <4>3. CASE k = n + 1
        <5>1. sink # <<>> /\ k - 1 = n
          BY <3>3, <4>1, <4>3
        <5>2. sink[Len(sink)].tMax <= old.tMin
          BY <2>2, <2>4, <3>1, <5>1 DEF Follow
        <5> QED
          BY <3>3, <3>5, <4>1, <4>3, <5>1, <5>2
      <4> QED
        BY <3>6, <4>2, <4>3
    <3> QED
      BY <3>2, <3>4, <3>5, <3>7, <3>8
  <2> QED
    BY <2>3, <2>4
<1>9. HasRead'
  BY <1>1, <1>2, <1>7, <1>8 DEF HasRead
<1>10. LinesFound' /\ Reading'
  BY <1>1, <1>2 DEF LinesFound, Reading
<1> QED
  BY <1>9, <1>10 DEF ReaderSays

\* A step begins with nothing.
LEMMA ProcessReads ==
  ASSUME LogInv, LogInv', ReaderSays, ProcessStep
  PROVE  ReaderSays'
<1>1. PICK n \in 1 .. Len(steps) : step' = n /\ currentPosition' = steps[n].begin
  BY DEF ProcessStep
<1>2. /\ reader \in {"open", "done"} /\ reader' = "read" /\ outBuffer' = NULL /\ sink' = <<>>
      /\ UNCHANGED <<acquired, dataFile, indexFile, steps, writerVars>>
  BY DEF ProcessStep, StartOfStep, writerVars, diskVars
<1>3. LinesFound /\ LinesFound'
  BY <1>2 DEF ReaderSays, LinesFound
<1>4. HasRead'
  BY <1>2 DEF HasRead
<1>5. LogInv /\ n \in 1 .. Len(steps) /\ reader # "closed"
  BY <1>2
<1>6. WriterInv /\ LinesSay /\ dataFile \in Seq(Frames)
  BY <1>2 DEF LogInv, RawInv, WriterSays, StepsWritten, WriterInv, OfFrames
<1>7. Len(steps) \in Nat /\ Len(indexFile) \in Nat
  BY SMTT(30) DEF LogInv, RawInv, WriterInv, DiskOK
<1>8. n \in 1 .. Len(indexFile) /\ steps[n] = indexFile[n]
  BY <1>3, <1>7 DEF LinesFound
<1>9. steps[n].begin \in Nat /\ steps[n].end \in Nat /\ steps[n].begin <= steps[n].end
  BY <1>6, <1>8, LineParts DEF LinesSay
<1>10. (PassedOn(sink) \o Stamps(outBuffer)
          = EventsOf(SubSeq(dataFile, steps[step].begin + 1, currentPosition)))'
  <2>1. PICK b \in Nat : b = steps[n].begin
    BY <1>9
  <2>2. SubSeq(dataFile, b + 1, b) = <<>>
    BY <1>6, SubNone
  <2>3. <<>> \o <<>> = <<>>
    OBVIOUS
  <2>4. PassedOn(sink)' = <<>> /\ Stamps(outBuffer)' = <<>>
    BY <1>2, PassedOnNone, Zenon
  <2>5. (EventsOf(SubSeq(dataFile, steps[step].begin + 1, currentPosition)))' = <<>>
    BY <1>1, <1>2, <2>1, <2>2, EventsOfNone
  <2> QED
    BY <2>3, <2>4, <2>5
<1>11. Follow'
  BY <1>2 DEF Follow
<1>12. (steps[step].begin <= currentPosition /\ currentPosition <= steps[step].end)'
  BY <1>1, <1>2, <1>9
<1>13. Reading'
  BY <1>10, <1>11, <1>12 DEF Reading
<1> QED
  BY <1>3, <1>4, <1>13 DEF ReaderSays

\* The reader takes the lines that are on disk.
LEMMA OpenReads ==
  ASSUME LogInv, ReaderSays, OpenFile
  PROVE  ReaderSays'
<1>1. /\ steps' = SubSeq(indexFile, 1, indexOnDisk) /\ reader' = "open"
      /\ UNCHANGED indexFile
  BY DEF OpenFile, writerVars, diskVars
<1> DEFINE L == Lines
<1>2. indexFile \in Seq(L) /\ indexOnDisk \in 0 .. Len(indexFile)
  BY DEF LogInv, RawInv, WriterInv, DiskOK
<1> HIDE DEF L
<1>3. PICK s : s = SubSeq(indexFile, 1, indexOnDisk)
  OBVIOUS
<1>4. Len(s) = indexOnDisk /\ \A i \in 1 .. Len(s) : s[i] = indexFile[i]
  BY <1>2, <1>3
<1>5. LinesFound'
  BY <1>1, <1>2, <1>3, <1>4 DEF LinesFound
<1>6. Reading' /\ HasRead'
  BY <1>1 DEF Reading, HasRead
<1> QED
  BY <1>5, <1>6 DEF ReaderSays

\* The blocks of a step that has been read have the events that were acquired in it,
\* each with its time, in their order, and if the frames came in order then each block
\* has its events between its times, and begins when the one before has ended.
THEOREM StepsAreRead == Spec => []RoundTrip
<1>1. Init => LogInv /\ ReaderSays
  <2> SUFFICES ASSUME Init PROVE LogInv /\ ReaderSays
    OBVIOUS
  <2>1. LogInv
    BY RawInvInit, WriterSaysInit DEF Init, LogInv, LinesOnDisk, WriterInit
  <2>2. ReaderSays
    BY DEF Init, WriterInit, ReaderSays, LinesFound, Reading, HasRead
  <2> QED
    BY <2>1, <2>2
<1>2. LogInv /\ ReaderSays /\ [Next]_vars => LogInv' /\ ReaderSays'
  <2> SUFFICES ASSUME LogInv, ReaderSays, [Next]_vars
               PROVE  ReaderSays'
    BY LogInvNext
  <2>1. LogInv'
    BY LogInvNext
  <2>2. CASE WriterNext /\ UNCHANGED readerVars
    BY <2>1, <2>2, WriterLeavesReader
  <2>3. CASE OpenFile
    BY <2>3, OpenReads
  <2>4. CASE ProcessStep
    BY <2>1, <2>4, ProcessReads
  <2>5. CASE SkipEmptyFrame
    BY <2>5, SkipReads
  <2>6. CASE ReadFrame
    BY <2>6, ReadReads
  <2>7. CASE EndStep
    BY <2>7, EndReads
  <2>8. CASE UNCHANGED vars
    <3>1. UNCHANGED <<acquired, dataFile, indexFile, reader, steps, step, currentPosition,
                      outBuffer, prevFrameID, sink>>
      BY <2>8 DEF vars, writerVars, diskVars, readerVars, readVars
    <3>2. LinesFound'
      BY <3>1 DEF ReaderSays, LinesFound
    <3>3. BlocksFollow' = BlocksFollow /\ Follow' = Follow /\ Ascending(acquired[step])' = Ascending(acquired[step])
      BY <3>1 DEF BlocksFollow, Follow, Holds, Ascending
    <3>4. PassedOn(sink)' = PassedOn(sink) /\ Stamps(outBuffer)' = Stamps(outBuffer)
      BY <3>1 DEF PassedOn, Stamps, StampsOf
    <3>5. Reading'
      BY <3>1, <3>3, <3>4 DEF ReaderSays, Reading
    <3>6. HasRead'
      BY <3>1, <3>3, <3>4 DEF ReaderSays, HasRead
    <3> QED
      BY <3>2, <3>5, <3>6 DEF ReaderSays
  <2> QED
    BY <2>2, <2>3, <2>4, <2>5, <2>6, <2>7, <2>8 DEF Next, ReaderNext
<1>3. ReaderSays => RoundTrip
  BY DEF ReaderSays, HasRead, RoundTrip, PassedOn, Stamps, StampsOf
<1> QED
  BY <1>1, <1>2, <1>3, PTL DEF Spec

=============================================================================
