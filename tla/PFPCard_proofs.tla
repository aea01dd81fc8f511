--------------------------- MODULE PFPCard_proofs ---------------------------
(***************************************************************************)
(* No signal between the filler thread and getWords is lost, whatever the  *)
(* resets of their ring do.  As long as no reset meets the worker in it,   *)
(* the ring delivers the card's words once and in order and never tears a  *)
(* buffer.  All this for every size of a buffer, however many words come   *)
(* and however often the acquisition is started.                           *)
(***************************************************************************)
EXTENDS PFPCard, TLAPS

\* Buffers that the filler has published and getWords has not handed back.
Used == (bufferSetWrPtr - bufferSetRdPtr) % 4

\* n buffers' words.
WordsOf(n) == IF n = 0 THEN 0 ELSE IF n = 1 THEN BufferSize ELSE BufferSize + BufferSize

\* Words that getWords has returned from the buffer it has not handed back.
Taken ==
  IF currentBuffer # NULL
  THEN IF consumer = "count" THEN currentBufferConsumed + 1 ELSE currentBufferConsumed
  ELSE IF consumer = "advance" THEN BufferSize ELSE 0

Filling == filler \in {"read", "publish"}
Filled  == IF Filling THEN fillCount ELSE 0

\* What was delivered when getWords took the buffer it has now, or takes next.
Base == delivered - Taken

\* Buffer i holds the words after the first w.
Holds(i, w) == \A k \in 0 .. (BufferSize - 1) : bufferSet[i][k] = w + k + 1

\* Every word read from the card has been delivered or is in the ring, the oldest
\* buffer first.
Contents ==
  /\ read = Base + WordsOf(Used) + Filled
  /\ Used >= 1 => Holds(BufferOf(bufferSetRdPtr), Base)
  /\ Used = 2 => Holds(1 - BufferOf(bufferSetRdPtr), Base + BufferSize)
  /\ Filling => \A k \in 0 .. (fillCount - 1) :
                  bufferSet[fillIndex][k] = Base + WordsOf(Used) + k + 1

\* The filler has a buffer that is not published.
FillerOwns ==
  /\ Filling => Used <= 1 /\ fillIndex = BufferOf(bufferSetWrPtr)
  /\ filler = "read" => fillCount < BufferSize
  /\ filler = "publish" => fillCount = BufferSize
  /\ Used <= 2

\* getWords has the oldest published buffer.
ConsumerOwns ==
  /\ currentBuffer # NULL =>
       /\ Used >= 1 /\ currentBuffer = BufferOf(bufferSetRdPtr)
       /\ consumer \in {"look", "count"}
       /\ currentBufferConsumed <= BufferSize
       /\ consumer = "count" => currentBufferConsumed < BufferSize
  /\ consumer # "overrun"
  /\ consumer = "count" => currentBuffer # NULL
  /\ consumer = "take" => Used >= 1 /\ index = BufferOf(bufferSetRdPtr)
  /\ consumer = "advance" => Used >= 1

\* A thread waits only if it has reason to, or is about to be signalled.
Waits ==
  /\ consumer = "wait" => Used = 0 \/ filler = "signal"
  /\ filler = "wait" => Used = 2 \/ consumer = "signal"

\* While the ring is reset nothing is in it and the worker finds nothing; between
\* the resets of the two pointers the ring itself does not say so.
Resets ==
  /\ Resetting =>
       /\ currentBuffer = NULL /\ consumer \in {"signal", "look", "wait"}
       /\ read = delivered
  /\ main \in {"resetWr", "resetConsumed", "create"} => Used = 0

RingOK == Contents /\ FillerOwns /\ ConsumerOwns /\ Waits

\* What holds as long as no reset has met the worker in the ring.
Orderly ==
  /\ lastWord = delivered
  /\ Resets
  /\ main # "resetRd" => RingOK

\* What holds in any case: the indices are within the buffers, the filler is
\* gone while the ring is reset, and nobody waits in vain.
Threads ==
  /\ filler = "read" => fillCount < BufferSize
  /\ consumer = "count" => currentBufferConsumed <= BufferSize
  /\ main = "off" \/ Resetting => filler = "none"
  /\ main = "resetRd" => bufferSetWrPtr = 0
  /\ main # "resetRd" => Waits

\* The inductive invariant.
CardIInv == TypeOK /\ Threads /\ (quiet => Orderly)

-----------------------------------------------------------------------------
(* The pointers.                                                           *)

LEMMA RingPointers ==
  ASSUME NEW w \in Ring, NEW r \in Ring
  PROVE  /\ BufferOf(w) \in Indices /\ Advanced(w) \in Ring
         /\ BufferOf(Advanced(w)) = 1 - BufferOf(w)
         /\ (w - r) % 4 \in 0 .. 3
         /\ IsEmpty(w, r) <=> (w - r) % 4 = 0
         /\ IsFull(w, r) <=> (w - r) % 4 = 2
         /\ (w - r) % 4 = 0 => BufferOf(w) = BufferOf(r)
         /\ (w - r) % 4 = 1 => BufferOf(w) = 1 - BufferOf(r)
         /\ (w - r) % 4 < 3 => (Advanced(w) - r) % 4 = ((w - r) % 4) + 1
         /\ (w - r) % 4 > 0 => (w - Advanced(r)) % 4 = ((w - r) % 4) - 1
BY SMT DEF Ring, Indices, BufferOf, Advanced, IsEmpty, IsFull

-----------------------------------------------------------------------------

LEMMA CardInit == Init => CardIInv
BY CardAssumption, RingPointers, SMT DEF Init, CardIInv, TypeOK, RingOK, Contents, FillerOwns, ConsumerOwns,
  Waits, Resets, Resetting, Threads, Orderly, Holds, Used, WordsOf, Base, Taken, Filling, Filled, Ring, Indices,
  Words, NULL

-----------------------------------------------------------------------------
(* The actions of the filler.                                              *)

LEMMA FillerKeeps ==
  ASSUME TypeOK, Threads, Orderly, Filler
  PROVE  Orderly'
<1> USE CardAssumption
<1>f. filler # "none"
  BY DEF Filler, FillerCheck, FillerRead, FillerPublish, FillerSignal
<1>r. main # "resetRd" /\ RingOK /\ ~Resetting
  BY <1>f DEF Orderly, Threads, Resetting
<1>p. /\ bufferSetWrPtr \in Ring /\ bufferSetRdPtr \in Ring /\ Used \in 0 .. 2
      /\ BufferOf(bufferSetWrPtr) \in Indices /\ BufferOf(bufferSetRdPtr) \in Indices
  BY <1>r, RingPointers, SMT DEF TypeOK, RingOK, FillerOwns, Used
<1>1. CASE FillerCheck
  <2>1. UNCHANGED <<Used, Taken, Base>>
    BY <1>1 DEF FillerCheck, Used, Taken, Base, ringVars, consumerVars
  <2>2. Filling' => Used <= 1 /\ fillCount' = 0 /\ fillIndex' = BufferOf(bufferSetWrPtr)
    BY <1>1, <1>p, <1>r, RingPointers, SMT DEF FillerCheck, Filling, Used
  <2>3. ~Filling /\ Filled' = 0 /\ Filled = 0
    BY <1>1, <2>2 DEF FillerCheck, Filling, Filled
  <2>4. filler' = "wait" => Used = 2
    BY <1>1, <1>p, <1>r, RingPointers DEF FillerCheck, Used
  <2>5. lastWord' = delivered'
    BY <1>1, <1>p DEF FillerCheck, Orderly, Threads, TypeOK, ringVars, consumerVars, mainVars
  <2>6. Contents'
    BY <1>1, <1>r, <2>1, <2>2, <2>3, SMT DEF FillerCheck, RingOK, Contents, Holds, WordsOf, ringVars, consumerVars
  <2>7. FillerOwns' /\ ConsumerOwns' /\ Waits'
    BY <1>1, <1>r, <2>1, <2>2, <2>4, SMT DEF FillerCheck, RingOK, FillerOwns, ConsumerOwns, Waits, Filling, ringVars, consumerVars
  <2>8. Resets'
    BY <1>1, <1>r DEF FillerCheck, Orderly, Threads, Resets, Resetting, ringVars, mainVars, consumerVars
  <2> QED
    BY <1>1, <1>r, <2>5, <2>6, <2>7, <2>8 DEF FillerCheck, Orderly, Threads, RingOK, mainVars
<1>2. CASE FillerRead
  <2>1. UNCHANGED <<Used, Taken, Base>>
    BY <1>2 DEF FillerRead, Used, Taken, Base, consumerVars
  <2>2. /\ fillCount \in 0 .. (BufferSize - 1) /\ fillIndex \in Indices
        /\ fillIndex = BufferOf(bufferSetWrPtr) /\ Used <= 1
    BY <1>2, <1>r, SMT DEF FillerRead, RingOK, FillerOwns, Filling, Orderly, Threads, TypeOK
  <2>3. Used = 1 => fillIndex # BufferOf(bufferSetRdPtr)
    BY <1>p, <2>2, RingPointers, SMT DEF Used, Indices
  <2>4. Filling /\ Filling' /\ Filled = fillCount /\ Filled' = fillCount + 1
    BY <1>2, <2>2 DEF FillerRead, Filling, Filled
  <2>5. read' = Base + WordsOf(Used) + Filled'
    BY <1>2, <1>r, <2>4, <2>2, <1>p, SMT DEF FillerRead, RingOK, Contents, Orderly, Threads, TypeOK, WordsOf, Base, Taken, Words
  <2>6. lastWord' = delivered'
    BY <1>2, <2>2, SMT DEF FillerRead, Orderly, Threads, TypeOK, Words, ringVars, consumerVars, mainVars
  <2>7. \A i \in Indices, k \in 0 .. (BufferSize - 1) :
          bufferSet'[i][k] = IF i = fillIndex /\ k = fillCount THEN read + 1 ELSE bufferSet[i][k]
    BY <1>2, <2>2 DEF FillerRead, Orderly, Threads, TypeOK
  <2>8. Contents'
    BY <1>2, <1>r, <1>p, <2>1, <2>2, <2>3, <2>4, <2>5, <2>7, SMT DEF FillerRead, RingOK, Contents, Holds, Indices
  <2>9. FillerOwns' /\ ConsumerOwns' /\ Waits'
    BY <1>2, <1>r, <2>1, <2>2, SMT DEF FillerRead, RingOK, FillerOwns, ConsumerOwns, Waits, Filling, consumerVars
  <2>10. Resets'
    BY <1>2, <1>r DEF FillerRead, Orderly, Threads, Resets, Resetting, mainVars, consumerVars
  <2> QED
    BY <1>2, <1>r, <2>6, <2>8, <2>9, <2>10 DEF FillerRead, Orderly, Threads, RingOK, mainVars
<1>3. CASE FillerPublish
  <2>1. /\ filler = "publish" /\ filler' = "signal" /\ bufferSetWrPtr' = Advanced(bufferSetWrPtr)
        /\ UNCHANGED <<bufferSet, bufferSetRdPtr, fillIndex, fillCount, read>>
    BY <1>3 DEF FillerPublish
  <2>2. Used <= 1 /\ fillIndex = BufferOf(bufferSetWrPtr) /\ fillCount = BufferSize
    BY <2>1, <1>r DEF RingOK, FillerOwns, Filling
  <2>3. Used' = Used + 1 /\ bufferSetWrPtr' \in Ring
    BY <2>1, <2>2, <1>p, RingPointers DEF Used
  <2>4. UNCHANGED <<Taken, Base>>
    BY <1>3 DEF FillerPublish, Taken, Base, consumerVars
  <2>5. Filling /\ ~Filling' /\ Filled = BufferSize /\ Filled' = 0
    BY <2>1, <2>2 DEF Filling, Filled
  <2>6. IF Used = 0 THEN fillIndex = BufferOf(bufferSetRdPtr)
                    ELSE fillIndex = 1 - BufferOf(bufferSetRdPtr)
    BY <1>p, <2>2, RingPointers, SMT DEF Used
  <2>7. Base \in Int
    BY SMT DEF Orderly, Threads, TypeOK, Base, Taken, NULL
  <2>8. Holds(fillIndex, Base + WordsOf(Used))
    BY <1>r, <2>2, <2>5, SMT DEF RingOK, Contents, Holds
  <2>9. Contents'
    <3>1. read' = Base' + WordsOf(Used') + Filled'
      BY <1>r, <1>p, <2>1, <2>2, <2>3, <2>4, <2>5, <2>7, SMT DEF RingOK, Contents, WordsOf
    <3>2. Holds(BufferOf(bufferSetRdPtr), Base)
      BY <1>r, <1>p, <2>2, <2>6, <2>7, <2>8, SMT DEF RingOK, Contents, WordsOf
    <3>3. Used + 1 = 2 => Holds(1 - BufferOf(bufferSetRdPtr), Base + BufferSize)
      BY <1>p, <2>2, <2>6, <2>8, SMT DEF WordsOf
    <3> QED
      BY <3>1, <3>2, <3>3, <2>1, <2>3, <2>4, <2>5 DEF Contents, Holds
  <2>10. lastWord' = delivered'
    BY <1>3, <2>3 DEF FillerPublish, Orderly, Threads, TypeOK, consumerVars, mainVars
  <2>11. FillerOwns' /\ ConsumerOwns' /\ Waits'
    BY <1>3, <1>r, <1>p, <2>2, <2>3, <2>5, SMT DEF FillerPublish, RingOK, FillerOwns, ConsumerOwns, Waits, Filling, consumerVars
  <2>12. Resets'
    BY <1>3, <1>r DEF FillerPublish, Orderly, Threads, Resets, Resetting, mainVars
  <2> QED
    BY <1>3, <1>r, <2>9, <2>10, <2>11, <2>12 DEF FillerPublish, Orderly, Threads, RingOK, mainVars
<1>4. CASE FillerSignal
  <2>1. UNCHANGED <<Used, Taken, Base>>
    BY <1>4 DEF FillerSignal, Used, Taken, Base, ringVars
  <2>2. ~Filling /\ ~Filling' /\ Filled' = Filled
    BY <1>4 DEF FillerSignal, Filling, Filled
  <2>3. lastWord' = delivered'
    BY <1>4 DEF FillerSignal, Orderly, Threads, TypeOK, ringVars, mainVars
  <2>4. Contents'
    BY <1>4, <1>r, <2>1, <2>2 DEF FillerSignal, RingOK, Contents, Holds, ringVars
  <2>5. FillerOwns' /\ ConsumerOwns' /\ Waits'
    BY <1>4, <1>r, <2>1, <2>2, SMT DEF FillerSignal, RingOK, FillerOwns, ConsumerOwns, Waits, ringVars
  <2>6. Resets'
    BY <1>4, <1>r DEF FillerSignal, Orderly, Threads, Resets, Resetting, mainVars
  <2> QED
    BY <1>4, <1>r, <2>3, <2>4, <2>5, <2>6 DEF FillerSignal, Orderly, Threads, RingOK, mainVars
<1> QED
  BY <1>1, <1>2, <1>3, <1>4 DEF Filler

-----------------------------------------------------------------------------
(* The actions of getWords.                                                *)

LEMMA ConsumerKeeps ==
  ASSUME TypeOK, Threads, Orderly, Consumer, quiet'
  PROVE  Orderly'
<1> USE CardAssumption
<1>q. ~LookForBuffer /\ ~SignalConsumed => ~Resetting
  BY DEF Orderly, Resets, Consumer, TakeBuffer, CopyWord, Overrun, CountWord, ForgetBuffer,
         AdvanceReadPointer
<1>m. CASE main = "resetRd"
  <2>1. Resetting
    BY <1>m DEF Resetting
  <2>2. ~LookForBuffer
    BY <1>m DEF LookForBuffer
  <2>3. SignalConsumed
    BY <2>1, <2>2, <1>q
  <2>4. UNCHANGED <<lastWord, delivered, read, currentBuffer, main>> /\ consumer' = "look"
    BY <2>3 DEF SignalConsumed, mainVars
  <2>5. currentBuffer = NULL /\ read = delivered
    BY <2>1 DEF Orderly, Resets
  <2>6. lastWord = delivered
    BY DEF Orderly
  <2> QED
    BY <1>m, <2>4, <2>5, <2>6 DEF Orderly, Resets
<1> SUFFICES ASSUME main # "resetRd" PROVE Orderly'
  BY <1>m
<1>r. RingOK /\ main # "resetRd"
  BY DEF Orderly
<1>p. /\ bufferSetWrPtr \in Ring /\ bufferSetRdPtr \in Ring /\ Used \in 0 .. 2
      /\ BufferOf(bufferSetWrPtr) \in Indices /\ BufferOf(bufferSetRdPtr) \in Indices
  BY <1>r, RingPointers, SMT DEF TypeOK, RingOK, FillerOwns, Used
<1>n. NULL \notin Indices
  BY SMT DEF NULL, Indices
<1>1. CASE LookForBuffer
  <2>1. UNCHANGED <<Used, Taken, Base, Filling, Filled, Resetting>>
    BY <1>1, <1>p DEF LookForBuffer, Used, Taken, Base, Filling, Filled, Resetting, ringVars, fillerVars
  <2>2. IF Used = 0 THEN consumer' = "wait" /\ index' = index
                    ELSE consumer' = "take" /\ index' = BufferOf(bufferSetRdPtr)
    BY <1>1, <1>p, RingPointers DEF LookForBuffer, Used
  <2>3. lastWord' = delivered'
    BY <1>1, <1>p, <2>2 DEF LookForBuffer, Orderly, Threads, TypeOK, ringVars, fillerVars
  <2>4. Contents'
    BY <1>1, <1>r, <2>1 DEF LookForBuffer, RingOK, Contents, Holds, ringVars, fillerVars
  <2>5. FillerOwns' /\ ConsumerOwns' /\ Waits'
    BY <1>1, <1>r, <1>p, <2>1, <2>2, SMT DEF LookForBuffer, RingOK, FillerOwns, ConsumerOwns, Waits, ringVars, fillerVars
  <2>7. Resetting => Used = 0
    BY <1>r DEF Orderly, Resets, Resetting
  <2>6. Resets'
    BY <1>1, <2>1, <2>2, <2>7 DEF LookForBuffer, Orderly, Resets, Resetting, ringVars, fillerVars
  <2> QED
    BY <1>1, <1>r, <2>3, <2>4, <2>5, <2>6 DEF LookForBuffer, Orderly, Threads, RingOK, mainVars
<1>2. CASE TakeBuffer
  <2>1. /\ currentBuffer = NULL /\ Used >= 1 /\ index = BufferOf(bufferSetRdPtr)
        /\ Taken = 0 /\ Taken' = 0
    BY <1>2, <1>r, <1>n DEF TakeBuffer, RingOK, ConsumerOwns, Taken, Orderly, Threads, TypeOK
  <2>2. UNCHANGED <<Used, Base, Filling, Filled, Resetting>>
    BY <1>2, <2>1 DEF TakeBuffer, Used, Base, Filling, Filled, Resetting, ringVars, fillerVars, mainVars
  <2>3. lastWord' = delivered'
    BY <1>2, SMT DEF TakeBuffer, Orderly, Threads, TypeOK, ringVars, fillerVars, mainVars
  <2>4. Contents'
    BY <1>2, <1>r, <2>2 DEF TakeBuffer, RingOK, Contents, Holds, ringVars, fillerVars
  <2>5. FillerOwns' /\ ConsumerOwns' /\ Waits'
    BY <1>2, <1>r, <1>p, <2>1, <2>2, SMT DEF TakeBuffer, RingOK, FillerOwns, ConsumerOwns, Waits, ringVars, fillerVars
  <2>6. Resets'
    BY <1>2, <1>r, <2>2, <1>q DEF TakeBuffer, LookForBuffer, SignalConsumed, Orderly, Threads, Resets, Resetting, ringVars, fillerVars, mainVars
  <2> QED
    BY <1>2, <1>r, <2>3, <2>4, <2>5, <2>6 DEF TakeBuffer, Orderly, Threads, RingOK, mainVars
<1>3. CASE CopyWord
  <2>1. /\ currentBuffer # NULL /\ currentBuffer \in Indices /\ Used >= 1
        /\ currentBuffer = BufferOf(bufferSetRdPtr)
        /\ currentBufferConsumed \in 0 .. (BufferSize - 1)
    BY <1>3, <1>r, SMT DEF CopyWord, RingOK, ConsumerOwns, Orderly, Threads, TypeOK
  <2>2. Taken = currentBufferConsumed /\ Taken' = currentBufferConsumed + 1
    BY <1>3, <2>1 DEF CopyWord, Taken
  <2>3. Base' = Base
    BY <1>3, <2>1, <2>2, SMT DEF CopyWord, Base, Orderly, Threads, TypeOK
  <2>4. UNCHANGED <<Used, Filling, Filled, Resetting>>
    BY <1>3 DEF CopyWord, Used, Filling, Filled, Resetting, ringVars, fillerVars, mainVars
  <2>5. lastWord' = bufferSet[currentBuffer][currentBufferConsumed]
    BY <1>3, <2>1, SMT DEF CopyWord
  <2>6. bufferSet[currentBuffer][currentBufferConsumed] = Base + currentBufferConsumed + 1
    BY <1>r, <2>1 DEF RingOK, Contents, Holds
  <2>7. lastWord' = delivered' /\ delivered' \in Nat
    BY <1>3, <2>1, <2>2, <2>5, <2>6, SMT DEF CopyWord, Base, Orderly, Threads, TypeOK
  <2>8. bufferSet[currentBuffer][currentBufferConsumed] \in Words
    BY <2>1 DEF Orderly, Threads, TypeOK
  <2>9. TypeOK'
    BY <1>3, <2>5, <2>7, <2>8 DEF CopyWord, Orderly, Threads, TypeOK, ringVars, fillerVars, mainVars
  <2>10. Contents'
    BY <1>3, <1>r, <2>3, <2>4 DEF CopyWord, RingOK, Contents, Holds, ringVars, fillerVars
  <2>11. FillerOwns' /\ ConsumerOwns' /\ Waits'
    BY <1>3, <1>r, <1>p, <2>1, <2>4, SMT DEF CopyWord, RingOK, FillerOwns, ConsumerOwns, Waits, ringVars, fillerVars
  <2>12. Resets'
    BY <1>3, <1>r, <2>4, <1>q DEF CopyWord, LookForBuffer, SignalConsumed, Orderly, Threads, Resets, Resetting, ringVars, fillerVars, mainVars
  <2> QED
    BY <1>3, <1>r, <2>7, <2>9, <2>10, <2>11, <2>12 DEF CopyWord, Orderly, Threads, RingOK, mainVars
<1>4. CASE CountWord
  <2>1. /\ currentBuffer # NULL /\ currentBuffer \in Indices
        /\ currentBufferConsumed \in 0 .. (BufferSize - 1)
    BY <1>4, <1>r, SMT DEF CountWord, RingOK, ConsumerOwns, Orderly, Threads, TypeOK
  <2>2. currentBufferConsumed' = currentBufferConsumed + 1
    BY <1>4, <2>1, SMT DEF CountWord
  <2>3. Taken' = Taken
    BY <1>4, <2>1, <2>2 DEF CountWord, Taken
  <2>4. UNCHANGED <<Used, Base, Filling, Filled, Resetting>>
    BY <1>4, <2>3 DEF CountWord, Used, Base, Filling, Filled, Resetting, ringVars, fillerVars, mainVars
  <2>5. lastWord' = delivered'
    BY <1>4, <2>1, <2>2, SMT DEF CountWord, Orderly, Threads, TypeOK, ringVars, fillerVars, mainVars
  <2>6. Contents'
    BY <1>4, <1>r, <2>4 DEF CountWord, RingOK, Contents, Holds, ringVars, fillerVars
  <2>7. FillerOwns' /\ ConsumerOwns' /\ Waits'
    BY <1>4, <1>r, <1>p, <2>1, <2>2, <2>4, SMT DEF CountWord, RingOK, FillerOwns, ConsumerOwns, Waits, ringVars, fillerVars
  <2>8. Resets'
    BY <1>4, <1>r, <2>4, <1>q DEF CountWord, LookForBuffer, SignalConsumed, Orderly, Threads, Resets, Resetting, ringVars, fillerVars, mainVars
  <2> QED
    BY <1>4, <1>r, <2>5, <2>6, <2>7, <2>8 DEF CountWord, Orderly, Threads, RingOK, mainVars
<1>5. CASE ForgetBuffer
  <2>1. Taken' = Taken
    BY <1>5 DEF ForgetBuffer, Taken
  <2>2. UNCHANGED <<Used, Base, Filling, Filled, Resetting>> /\ Used >= 1
    BY <1>5, <1>r, <2>1 DEF ForgetBuffer, Used, Base, Filling, Filled, Resetting, ringVars, fillerVars, mainVars, RingOK, ConsumerOwns
  <2>3. lastWord' = delivered'
    BY <1>5 DEF ForgetBuffer, Orderly, Threads, TypeOK, ringVars, fillerVars, mainVars
  <2>4. Contents'
    BY <1>5, <1>r, <2>2 DEF ForgetBuffer, RingOK, Contents, Holds, ringVars, fillerVars
  <2>5. FillerOwns' /\ ConsumerOwns' /\ Waits'
    BY <1>5, <1>r, <1>p, <2>2, SMT DEF ForgetBuffer, RingOK, FillerOwns, ConsumerOwns, Waits, ringVars, fillerVars
  <2>6. Resets'
    BY <1>5, <1>r, <2>2, <1>q DEF ForgetBuffer, LookForBuffer, SignalConsumed, Orderly, Threads, Resets, Resetting, ringVars, fillerVars, mainVars
  <2> QED
    BY <1>5, <1>r, <2>3, <2>4, <2>5, <2>6 DEF ForgetBuffer, Orderly, Threads, RingOK, mainVars
<1>6. CASE AdvanceReadPointer
  <2>1. /\ currentBuffer = NULL /\ Used >= 1
        /\ bufferSetRdPtr' = Advanced(bufferSetRdPtr)
        /\ UNCHANGED <<bufferSet, bufferSetWrPtr, fillerVars>>
    BY <1>6, <1>r DEF AdvanceReadPointer, RingOK, ConsumerOwns
  <2>2. Used' = Used - 1
    BY <1>p, <2>1, RingPointers DEF Used
  <2>3. bufferSetRdPtr' \in Ring /\ BufferOf(bufferSetRdPtr') = 1 - BufferOf(bufferSetRdPtr)
    BY <1>p, <2>1, RingPointers
  <2>4. Taken = BufferSize /\ Taken' = 0
    BY <1>6, <2>1 DEF AdvanceReadPointer, Taken
  <2>5. Base \in Int /\ Base' = Base + BufferSize
    BY <1>6, <2>4, SMT DEF AdvanceReadPointer, Base, Orderly, Threads, TypeOK
  <2>6. UNCHANGED <<Filling, Filled, Resetting>>
    BY <1>6 DEF AdvanceReadPointer, Filling, Filled, Resetting, fillerVars, mainVars
  <2>7. lastWord' = delivered'
    BY <1>6, <2>3 DEF AdvanceReadPointer, Orderly, Threads, TypeOK, fillerVars, mainVars
  <2>8. Base + WordsOf(Used) = Base' + WordsOf(Used')
    BY <1>p, <2>1, <2>2, <2>5, SMT DEF WordsOf
  <2>9. Contents'
    BY <1>r, <1>p, <2>1, <2>2, <2>3, <2>5, <2>6, <2>8, SMT DEF RingOK, Contents, Holds, fillerVars
  <2>10. FillerOwns' /\ ConsumerOwns' /\ Waits'
    BY <1>6, <1>r, <1>p, <2>1, <2>2, <2>6, SMT DEF AdvanceReadPointer, RingOK, FillerOwns, ConsumerOwns, Waits, fillerVars
  <2>11. Resets'
    BY <1>6, <1>r, <2>6, <1>q DEF AdvanceReadPointer, LookForBuffer, SignalConsumed, Orderly, Threads, Resets, Resetting, fillerVars, mainVars
  <2> QED
    BY <1>6, <1>r, <2>7, <2>9, <2>10, <2>11 DEF AdvanceReadPointer, Orderly, Threads, RingOK, mainVars
<1>7. CASE SignalConsumed
  <2>1. UNCHANGED <<Used, Taken, Base, Filling, Filled, Resetting>>
    BY <1>7 DEF SignalConsumed, Used, Taken, Base, Filling, Filled, Resetting, ringVars, mainVars
  <2>2. lastWord' = delivered'
    BY <1>7 DEF SignalConsumed, Orderly, Threads, TypeOK, ringVars, mainVars
  <2>3. Contents'
    BY <1>7, <1>r, <2>1 DEF SignalConsumed, RingOK, Contents, Holds, ringVars
  <2>4. FillerOwns' /\ ConsumerOwns' /\ Waits'
    BY <1>7, <1>r, <2>1, SMT DEF SignalConsumed, RingOK, FillerOwns, ConsumerOwns, Waits, ringVars
  <2>5. Resets'
    BY <1>7, <1>r, <2>1 DEF SignalConsumed, Orderly, Threads, Resets, ringVars, mainVars
  <2> QED
    BY <1>7, <1>r, <2>2, <2>3, <2>4, <2>5 DEF SignalConsumed, Orderly, Threads, RingOK, mainVars
<1>8. CASE Overrun
  BY <1>8, <1>r, SMT DEF Overrun, RingOK, ConsumerOwns, TypeOK
<1> QED
  BY <1>1, <1>2, <1>3, <1>4, <1>5, <1>6, <1>7, <1>8 DEF Consumer

-----------------------------------------------------------------------------
(* The daemon's main thread, and waits that end by themselves.             *)

\* While the filler is gone and getWords has found the ring empty, all that was
\* read is delivered.
LEMMA NothingLeft ==
  ASSUME TypeOK, RingOK, filler = "none", Drained
  PROVE  /\ Used = 0 /\ currentBuffer = NULL /\ read = delivered
         /\ consumer \in {"signal", "look", "wait"}
<1>1. currentBuffer = NULL /\ consumer \notin {"take", "advance"}
  BY DEF Drained
<1>2. Used = 0
  BY RingPointers DEF Drained, Used, TypeOK
<1>3. Taken = 0 /\ Filled = 0
  BY <1>1 DEF Taken, Filled, Filling
<1>4. Base = delivered
  BY <1>3, SMT DEF Base, TypeOK
<1>5. read = delivered
  BY <1>2, <1>3, <1>4, SMT DEF RingOK, Contents, WordsOf, TypeOK
<1>6. consumer \in {"signal", "look", "wait"}
  BY <1>1 DEF RingOK, ConsumerOwns, TypeOK
<1> QED
  BY <1>1, <1>2, <1>5, <1>6

LEMMA MainKeeps ==
  ASSUME TypeOK, Threads, Orderly, Main, quiet'
  PROVE  Orderly'
<1> USE CardAssumption
<1>0. lastWord = delivered /\ UNCHANGED <<lastWord, delivered>>
  BY DEF Orderly, Main, SetAcquistionOff, SetAcquistionOn, SetStop, SignalStop, JoinFiller, SetOn,
         ResetWritePointer, ResetReadPointer, ResetConsumed, CreateFiller, consumerVars
<1>1. CASE SetStop \/ SignalStop \/ JoinFiller
  <2>1. main # "resetRd" /\ RingOK /\ ~Resetting /\ main' # "resetRd" /\ ~Resetting'
    BY <1>1 DEF SetStop, SignalStop, JoinFiller, Orderly, Resetting
  <2>3. /\ UNCHANGED <<bufferSet, bufferSetWrPtr, bufferSetRdPtr, fillIndex, fillCount, read, consumerVars>>
        /\ filler' = filler \/ (filler = "wait" /\ filler' = "check")
    BY <1>1 DEF SetStop, SignalStop, JoinFiller, ringVars, fillerVars
  <2>2. UNCHANGED <<Used, Taken, Base, Filling, Filled>>
    BY <2>3 DEF Used, Taken, Base, Filling, Filled, consumerVars
  <2>4. Contents'
    BY <2>1, <2>2, <2>3 DEF RingOK, Contents, Holds
  <2>5. FillerOwns' /\ ConsumerOwns' /\ Waits'
    BY <2>1, <2>2, <2>3, SMT DEF RingOK, FillerOwns, ConsumerOwns, Waits, consumerVars
  <2>6. Resets'
    BY <2>1 DEF Resets, Resetting
  <2> QED
    BY <1>0, <2>1, <2>4, <2>5, <2>6 DEF Orderly, RingOK
<1>2. CASE SetOn
  <2>1. main = "off" /\ main' = "resetWr" /\ RingOK /\ filler = "none" /\ Drained
    BY <1>2 DEF SetOn, Orderly, Threads
  <2>2. UNCHANGED <<ringVars, fillerVars, consumerVars>>
    BY <1>2 DEF SetOn
  <2>3. Used = 0 /\ currentBuffer = NULL /\ read = delivered /\ consumer \in {"signal", "look", "wait"}
    BY <2>1, NothingLeft
  <2>4. UNCHANGED <<Used, Taken, Base, Filling, Filled>>
    BY <2>2 DEF Used, Taken, Base, Filling, Filled, ringVars, fillerVars, consumerVars
  <2>6. RingOK'
    BY <2>1, <2>2, <2>4 DEF RingOK, Contents, Holds, FillerOwns, ConsumerOwns, Waits, ringVars, fillerVars, consumerVars
  <2>7. Resets'
    BY <2>1, <2>2, <2>3, <2>4 DEF Resets, ringVars, fillerVars, consumerVars
  <2> QED
    BY <1>0, <2>1, <2>6, <2>7 DEF Orderly
<1>3. CASE ResetWritePointer
  <2>1. main' = "resetRd" /\ Resetting /\ UNCHANGED <<fillerVars, consumerVars>>
    BY <1>3 DEF ResetWritePointer, Resetting
  <2>2. Resets'
    BY <2>1 DEF Orderly, Resets, fillerVars, consumerVars
  <2> QED
    BY <1>0, <2>1, <2>2 DEF Orderly
<1>4. CASE ResetReadPointer
  <2>1. /\ main = "resetRd" /\ main' = "resetConsumed" /\ Resetting
        /\ UNCHANGED <<bufferSet, bufferSetWrPtr, fillerVars, consumerVars>>
    BY <1>4 DEF ResetReadPointer, Resetting
  <2>2. /\ bufferSetWrPtr' = 0 /\ filler' = "none" /\ consumer' \in {"signal", "look", "wait"}
        /\ read' = delivered' /\ currentBuffer' = NULL /\ delivered' \in Nat
    BY <2>1 DEF Orderly, Threads, Resets, TypeOK, fillerVars, consumerVars
  <2>3. bufferSetRdPtr' = 0
    BY <1>4, <2>1, <2>2 DEF ResetReadPointer, Raced, consumerVars
  <2>4. Used' = 0
    BY <2>2, <2>3, SMT DEF Used
  <2>5. Taken' = 0 /\ Filled' = 0 /\ ~Filling'
    BY <2>2 DEF Taken, Filled, Filling
  <2>6. Base' = delivered'
    <3>1. Base' = delivered' - 0 /\ \A n \in Nat : n - 0 = n
      BY <2>5, SMT DEF Base
    <3> QED
      BY <2>2, <3>1
  <2>7. RingOK'
    <3>1. WordsOf(Used') = 0
      BY <2>4 DEF WordsOf
    <3>2. Contents'
      BY <2>2, <2>4, <2>5, <2>6, <3>1, SMT DEF Contents
    <3>3. FillerOwns' /\ ConsumerOwns' /\ Waits'
      BY <2>2, <2>4, <2>5, SMT DEF FillerOwns, ConsumerOwns, Waits
    <3> QED
      BY <3>2, <3>3 DEF RingOK
  <2>8. Resets'
    BY <2>1, <2>2, <2>4 DEF Resets
  <2> QED
    BY <1>0, <2>1, <2>7, <2>8 DEF Orderly
<1>5. CASE ResetConsumed
  <2>1. /\ main = "resetConsumed" /\ main' = "create" /\ RingOK /\ Resetting
        /\ currentBuffer = NULL /\ Used = 0
    BY <1>5 DEF ResetConsumed, Orderly, Resetting, Resets
  <2>2. UNCHANGED <<Used, Taken, Base, Filling, Filled>>
    BY <1>5, <2>1 DEF ResetConsumed, Used, Taken, Base, Filling, Filled, ringVars, fillerVars
  <2>4. Contents'
    BY <1>5, <2>1, <2>2 DEF ResetConsumed, RingOK, Contents, Holds, ringVars, fillerVars
  <2>5. FillerOwns' /\ ConsumerOwns' /\ Waits'
    BY <1>5, <2>1, <2>2, SMT DEF ResetConsumed, RingOK, FillerOwns, ConsumerOwns, Waits, ringVars, fillerVars
  <2>6. Resets'
    BY <1>5, <2>1, <2>2 DEF ResetConsumed, Orderly, Resets, ringVars, fillerVars
  <2> QED
    BY <1>0, <2>1, <2>4, <2>5, <2>6 DEF Orderly, RingOK
<1>6. CASE CreateFiller
  <2>1. /\ main = "create" /\ main' = "poll" /\ RingOK
        /\ filler = "none" /\ filler' = "check"
    BY <1>6 DEF CreateFiller, Orderly, Threads, Resetting
  <2>2. UNCHANGED <<Used, Taken, Base>> /\ ~Filling /\ ~Filling' /\ Filled = 0 /\ Filled' = 0
    BY <1>6, <2>1 DEF CreateFiller, Used, Taken, Base, Filling, Filled, consumerVars
  <2>4. Contents'
    BY <1>6, <2>1, <2>2 DEF CreateFiller, RingOK, Contents, Holds
  <2>5. FillerOwns' /\ ConsumerOwns' /\ Waits'
    BY <1>6, <2>1, <2>2, SMT DEF CreateFiller, RingOK, FillerOwns, ConsumerOwns, Waits, consumerVars
  <2>6. Resets'
    BY <2>1 DEF Resets, Resetting
  <2> QED
    BY <1>0, <2>1, <2>4, <2>5, <2>6 DEF Orderly, RingOK
<1> QED
  BY <1>1, <1>2, <1>3, <1>4, <1>5, <1>6 DEF Main, SetAcquistionOff, SetAcquistionOn

LEMMA WakeUpKeeps ==
  ASSUME TypeOK, Threads, Orderly, WakeUp
  PROVE  Orderly'
<1>1. UNCHANGED <<Used, Taken, Base, Filling, Filled, Resetting, main, lastWord, delivered>>
  BY DEF WakeUp, Used, Taken, Base, Filling, Filled, Resetting, ringVars, mainVars
<1>2. Resets'
  BY <1>1 DEF WakeUp, Orderly, Resets
<1>3. CASE main = "resetRd"
  BY <1>1, <1>2, <1>3 DEF Orderly
<1>4. CASE main # "resetRd"
  <2>1. RingOK
    BY <1>4 DEF Orderly
  <2>2. Contents'
    BY <2>1, <1>1 DEF WakeUp, RingOK, Contents, Holds, ringVars
  <2>3. FillerOwns' /\ ConsumerOwns' /\ Waits'
    BY <2>1, <1>1, SMT DEF WakeUp, RingOK, FillerOwns, ConsumerOwns, Waits, ringVars
  <2> QED
    BY <1>1, <1>2, <2>2, <2>3 DEF Orderly, RingOK
<1> QED
  BY <1>3, <1>4

-----------------------------------------------------------------------------
(* What holds in any case.                                                 *)

LEMMA TypesStay ==
  ASSUME TypeOK, Threads, Next
  PROVE  TypeOK'
<1> USE CardAssumption
<1>1. CASE Filler
  <2>1. CASE FillerRead
    <3>1. fillCount \in 0 .. (BufferSize - 1) /\ fillIndex \in Indices /\ read + 1 \in Words
      BY <2>1, SMT DEF FillerRead, Threads, TypeOK, Words
    <3>2. bufferSet' \in [Indices -> [0 .. (BufferSize - 1) -> Words]]
      BY <2>1, <3>1 DEF FillerRead, TypeOK
    <3> QED
      BY <2>1, <3>1, <3>2, SMT DEF FillerRead, TypeOK, consumerVars, mainVars
  <2>2. CASE FillerCheck \/ FillerSignal
    BY <2>2, RingPointers DEF FillerCheck, FillerSignal, TypeOK, ringVars, consumerVars, mainVars
  <2>3. CASE FillerPublish
    BY <2>3, RingPointers DEF FillerPublish, TypeOK, consumerVars, mainVars
  <2> QED
    BY <1>1, <2>1, <2>2, <2>3 DEF Filler
<1>2. CASE Consumer
  <2>1. CASE CopyWord
    <3>1. currentBuffer \in Indices /\ currentBufferConsumed \in 0 .. (BufferSize - 1)
      BY <2>1, SMT DEF CopyWord, TypeOK
    <3>2. lastWord' \in Words /\ delivered' \in Nat
      BY <2>1, <3>1, SMT DEF CopyWord, TypeOK
    <3> QED
      BY <2>1, <3>2 DEF CopyWord, TypeOK, ringVars, fillerVars, mainVars
  <2>2. CASE CountWord
    <3>1. currentBufferConsumed' \in 0 .. (BufferSize + 1)
      BY <2>2, SMT DEF CountWord, Threads, TypeOK
    <3> QED
      BY <2>2, <3>1 DEF CountWord, TypeOK, ringVars, fillerVars, mainVars
  <2>3. CASE TakeBuffer
    BY <2>3, SMT DEF TakeBuffer, TypeOK, ringVars, fillerVars, mainVars
  <2>4. CASE LookForBuffer
    BY <2>4, RingPointers DEF LookForBuffer, TypeOK, ringVars, fillerVars
  <2>5. CASE AdvanceReadPointer
    BY <2>5, RingPointers DEF AdvanceReadPointer, TypeOK, fillerVars, mainVars
  <2>6. CASE Overrun \/ ForgetBuffer \/ SignalConsumed
    BY <2>6 DEF Overrun, ForgetBuffer, SignalConsumed, TypeOK, ringVars, fillerVars, mainVars
  <2> QED
    BY <1>2, <2>1, <2>2, <2>3, <2>4, <2>5, <2>6 DEF Consumer
<1>3. CASE Main
  <2>1. CASE SetAcquistionOff
    BY <2>1 DEF SetAcquistionOff, SetStop, SignalStop, JoinFiller, TypeOK, ringVars, fillerVars, consumerVars
  <2>2. CASE SetOn
    BY <2>2, SMT DEF SetOn, TypeOK, ringVars, fillerVars, consumerVars
  <2>3. CASE ResetWritePointer
    BY <2>3, SMT DEF ResetWritePointer, TypeOK, Ring, fillerVars, consumerVars
  <2>4. CASE ResetReadPointer
    <3>1. bufferSetRdPtr' \in Ring
      BY <2>4, SMT DEF ResetReadPointer, Raced, TypeOK, Ring
    <3> QED
      BY <2>4, <3>1 DEF ResetReadPointer, TypeOK, fillerVars, consumerVars
  <2>5. CASE ResetConsumed
    <3>1. currentBufferConsumed' \in 0 .. (BufferSize + 1)
      BY <2>5, SMT DEF ResetConsumed, Raced, TypeOK
    <3> QED
      BY <2>5, <3>1 DEF ResetConsumed, TypeOK, ringVars, fillerVars
  <2>6. CASE CreateFiller
    BY <2>6 DEF CreateFiller, TypeOK, consumerVars
  <2> QED
    BY <1>3, <2>1, <2>2, <2>3, <2>4, <2>5, <2>6 DEF Main, SetAcquistionOn
<1>4. CASE WakeUp
  BY <1>4 DEF WakeUp, TypeOK, ringVars, mainVars
<1> QED
  BY <1>1, <1>2, <1>3, <1>4 DEF Next

\* A thread that waits is signalled: the pointers change only together with a
\* signal, or while the filler is gone and getWords finds the ring reset.
LEMMA ThreadsStay ==
  ASSUME TypeOK, Threads, Next
  PROVE  Threads'
<1> USE CardAssumption
<1>p. /\ bufferSetWrPtr \in Ring /\ bufferSetRdPtr \in Ring /\ Used \in 0 .. 3
      /\ IsEmpty(bufferSetWrPtr, bufferSetRdPtr) <=> Used = 0
      /\ IsFull(bufferSetWrPtr, bufferSetRdPtr) <=> Used = 2
  BY RingPointers DEF TypeOK, Used
<1>1. CASE Filler
  <2>1. filler # "none" /\ UNCHANGED <<main, currentBufferConsumed, bufferSetRdPtr>>
        /\ (consumer' = consumer \/ consumer' = "look")
    BY <1>1 DEF Filler, FillerCheck, FillerRead, FillerPublish, FillerSignal, ringVars, consumerVars, mainVars
  <2>2. main # "off" /\ ~Resetting /\ main # "resetRd" /\ Waits
    BY <2>1 DEF Threads, Resetting
  <2>3. filler' = "read" => fillCount' < BufferSize
    BY <1>1, SMT DEF Filler, FillerCheck, FillerRead, FillerPublish, FillerSignal, Threads, TypeOK
  <2>4. Waits'
    BY <1>1, <1>p, <2>1, <2>2 DEF Filler, FillerCheck, FillerRead, FillerPublish, FillerSignal, Waits, Used,
       ringVars, consumerVars
  <2> QED
    BY <2>1, <2>2, <2>3, <2>4 DEF Threads, Resetting
<1>2. CASE Consumer
  <2>1. UNCHANGED <<main, fillCount, bufferSetWrPtr>> /\ (filler' = filler \/ (filler = "wait" /\ filler' = "check"))
    BY <1>2 DEF Consumer, LookForBuffer, TakeBuffer, CopyWord, Overrun, CountWord, ForgetBuffer,
       AdvanceReadPointer, SignalConsumed, ringVars, fillerVars, mainVars
  <2>2. consumer' = "count" => currentBufferConsumed' <= BufferSize
    BY <1>2, SMT DEF Consumer, LookForBuffer, TakeBuffer, CopyWord, Overrun, CountWord, ForgetBuffer,
       AdvanceReadPointer, SignalConsumed, TypeOK
  <2>3. Waits => Waits'
    BY <1>2, <1>p DEF Consumer, LookForBuffer, TakeBuffer, CopyWord, Overrun, CountWord, ForgetBuffer,
       AdvanceReadPointer, SignalConsumed, Waits, Used, ringVars, fillerVars
  <2> QED
    BY <2>1, <2>2, <2>3 DEF Threads, Resetting
<1>3. CASE Main
  <2>1. CASE SetAcquistionOff
    BY <2>1 DEF SetAcquistionOff, SetStop, SignalStop, JoinFiller, Threads, Resetting, Waits, Used, ringVars,
       fillerVars, consumerVars
  <2>2. CASE SetOn
    BY <2>2 DEF SetOn, Threads, Resetting, Waits, Used, ringVars, fillerVars, consumerVars
  <2>3. CASE ResetWritePointer
    BY <2>3 DEF ResetWritePointer, Threads, Resetting, fillerVars, consumerVars
  <2>4. CASE ResetReadPointer
    <3>1. filler = "none" /\ bufferSetWrPtr = 0 /\ main' = "resetConsumed"
          /\ UNCHANGED <<bufferSetWrPtr, fillerVars, consumerVars>>
      BY <2>4 DEF ResetReadPointer, Threads, Resetting
    <3>2. consumer = "wait" => bufferSetRdPtr' = 0
      BY <2>4 DEF ResetReadPointer, Raced
    <3>3. consumer = "wait" => Used' = 0
      BY <3>1, <3>2, SMT DEF Used
    <3>4. Waits'
      BY <3>1, <3>3 DEF Waits, fillerVars, consumerVars
    <3> QED
      BY <3>1, <3>4 DEF Threads, fillerVars, consumerVars
  <2>5. CASE ResetConsumed
    <3>1. consumer' = "count" => currentBufferConsumed' <= BufferSize
      BY <2>5, SMT DEF ResetConsumed, Raced, Threads, TypeOK
    <3> QED
      BY <2>5, <3>1 DEF ResetConsumed, Threads, Resetting, Waits, Used, ringVars, fillerVars
  <2>6. CASE CreateFiller
    BY <2>6 DEF CreateFiller, Threads, Resetting, Waits, Used, consumerVars
  <2> QED
    BY <1>3, <2>1, <2>2, <2>3, <2>4, <2>5, <2>6 DEF Main, SetAcquistionOn
<1>4. CASE WakeUp
  BY <1>4 DEF WakeUp, Threads, Resetting, Waits, Used, ringVars, mainVars
<1> QED
  BY <1>1, <1>2, <1>3, <1>4 DEF Next

-----------------------------------------------------------------------------

\* Once a reset has met the worker in the ring, nothing undoes it.
LEMMA QuietStays ==
  ASSUME Next, quiet \in BOOLEAN, quiet'
  PROVE  quiet
BY DEF Next, Filler, FillerCheck, FillerRead, FillerPublish, FillerSignal,
  Consumer, LookForBuffer, TakeBuffer, CopyWord, Overrun, CountWord, ForgetBuffer, AdvanceReadPointer,
  SignalConsumed, Main, SetAcquistionOff, SetStop, SignalStop, JoinFiller, SetAcquistionOn, SetOn,
  ResetWritePointer, ResetReadPointer, ResetConsumed, CreateFiller, WakeUp, mainVars

LEMMA CardStep ==
  ASSUME CardIInv, [Next]_vars
  PROVE  CardIInv'
<1>0. TypeOK /\ Threads /\ (quiet => Orderly)
  BY DEF CardIInv
<1>1. CASE UNCHANGED vars
  <2>1. UNCHANGED <<Used, Taken, Base, Filling, Filled, Resetting>>
    BY <1>1 DEF vars, Used, Taken, Base, Filling, Filled, Resetting, ringVars, fillerVars, consumerVars, mainVars
  <2>2. TypeOK'
    BY <1>0, <1>1 DEF vars, TypeOK, ringVars, fillerVars, consumerVars, mainVars
  <2>3. Threads'
    BY <1>0, <1>1, <2>1 DEF vars, Threads, Waits, ringVars, fillerVars, consumerVars, mainVars
  <2>4. RingOK => RingOK'
    BY <1>1, <2>1 DEF vars, RingOK, Contents, Holds, FillerOwns, ConsumerOwns, Waits, ringVars, fillerVars, consumerVars
  <2>5. quiet' => Orderly'
    BY <1>0, <1>1, <2>1, <2>4 DEF vars, Orderly, Resets, ringVars, fillerVars, consumerVars, mainVars
  <2> QED
    BY <2>2, <2>3, <2>5 DEF CardIInv
<1>2. CASE Next
  <2>1. TypeOK' /\ Threads'
    BY <1>0, <1>2, TypesStay, ThreadsStay
  <2>2. ASSUME quiet' PROVE Orderly'
    <3>1. Orderly
      BY <1>0, <1>2, <2>2, QuietStays DEF TypeOK
    <3> QED
      BY <1>0, <1>2, <2>2, <3>1, FillerKeeps, ConsumerKeeps, MainKeeps, WakeUpKeeps DEF Next
  <2> QED
    BY <2>1, <2>2 DEF CardIInv
<1> QED
  BY <1>1, <1>2

\* Two waiting threads would have to have found the ring empty and full.  While
\* all is in order, a buffer getWords reads is published, and the one being
\* filled is not.
LEMMA CardInvHolds ==
  ASSUME CardIInv
  PROVE  CardInv
<1> USE CardAssumption
<1>0. TypeOK /\ Threads /\ (quiet => Orderly)
  BY DEF CardIInv
<1>1. NobodyWaitsInVain
  BY <1>0, SMT DEF NobodyWaitsInVain, Threads, Resetting, Waits
<1>2. ASSUME quiet PROVE NoTear /\ InSequence
  <2>1. Orderly /\ InSequence
    BY <1>0, <1>2 DEF Orderly, InSequence
  <2>2. ASSUME filler = "read", consumer \in {"look", "count"}, currentBuffer = fillIndex
        PROVE  FALSE
    <3>1. RingOK
      BY <1>0, <2>1, <2>2 DEF Orderly, Threads, Resetting
    <3>2. currentBuffer # NULL
      BY <1>0, <2>2, SMT DEF TypeOK, NULL, Indices
    <3>3. Used = 1 /\ currentBuffer = BufferOf(bufferSetRdPtr) /\ fillIndex = BufferOf(bufferSetWrPtr)
      BY <1>0, <2>2, <3>1, <3>2, RingPointers, SMT DEF RingOK, FillerOwns, ConsumerOwns, Filling, Used, TypeOK
    <3>4. fillIndex = 1 - currentBuffer
      BY <1>0, <3>3, RingPointers DEF TypeOK, Used
    <3> QED
      BY <1>0, <2>2, <3>4, SMT DEF TypeOK, Indices
  <2> QED
    BY <2>1, <2>2 DEF NoTear
<1> QED
  BY <1>0, <1>1, <1>2 DEF CardInv

\* What the daemon reads from the card reaches the frame server whole and in
\* order as long as every start finds the ring drained and the worker does not
\* look between the resets of the pointers: getWords and the filler never have
\* the same buffer, no word is lost, repeated or reordered across stops and starts.
\* No signal is lost even when a reset meets the worker in the ring.
THEOREM CardCorrect == Spec => []CardInv
<1>1. Spec => []CardIInv
  BY CardInit, CardStep, PTL DEF Spec
<1> QED
  BY <1>1, CardInvHolds, PTL
=============================================================================
