----------------------- MODULE OverlappedEventHandler -----------------------
(***************************************************************************)
(* base/OverlappedEventHandler.tpp: a pipeline of event handlers that      *)
(* handle blocks of events in parallel and pass them on in order.          *)
(*                                                                         *)
(* The program's main thread does everything but the handling itself.  It  *)
(* reads the blocks of a step and pushes them into the first handler;      *)
(* extracting a block from a handler pushes it into the next one, so that  *)
(* the main thread is inside several pushEvents at once: `level` is the    *)
(* handler of the innermost, and hand[h] the block that the call at        *)
(* handler h has in its hands.  In the end it finishes the handlers one    *)
(* after the other, and destroys them.  The next step has new ones.        *)
(***************************************************************************)
EXTENDS ThreadPool

CONSTANT MaxSteps      \* bound on the steps of a file

ASSUME StepAssumption == MaxSteps \in Nat \ {0}

VARIABLES
  main,         \* where the main thread is
  level,        \* at which handler
  finishing,    \* the handler that is being finished, or 0
  workers,      \* each handler's blocks in flight
  hand,         \* each handler's block that has just been extracted, or 0
  pushed,       \* how many blocks of the step have been read
  passed,       \* what has left the pipeline
  step

mainVars == <<main, level, finishing, workers, hand, pushed, passed, step>>
vars     == <<poolVars, mainVars>>

\* Every variable stays in its type.
TypeOK ==
  /\ PoolTypeOK
  /\ main \in {"construct", "read", "queue", "check", "wait", "pass", "delete",
               "decrease", "broadcast", "join", "end"}
  /\ level \in Handlers
  /\ finishing \in 0 .. NumHandlers
  /\ workers \in [Handlers -> Seq(Blocks)]
  /\ hand \in [Handlers -> 0 .. MaxBlocks]
  /\ pushed \in 0 .. MaxBlocks
  /\ passed \in Seq(Blocks)
  /\ step \in 1 .. MaxSteps

Init ==
  /\ PoolInit
  /\ main = "construct" /\ level = NumHandlers /\ finishing = 0
  /\ workers = [h \in Handlers |-> <<>>]
  /\ hand = [h \in Handlers |-> 0]
  /\ pushed = 0 /\ passed = <<>> /\ step = 1

Goto(place, handler) == main' = place /\ level' = handler

-----------------------------------------------------------------------------
(* Plausible slips in the operations below, to be put in their place when  *)
(* the properties are tested.                                              *)

\* A block is passed on without waiting for it.
WaitNot ==
  /\ main = "wait" /\ jobAwaited = NoJob
  /\ Goto("pass", level)
  /\ UNCHANGED <<poolVars, finishing, workers, hand, pushed, passed, step>>

\* finish only tells the next handler to finish.
ExtractableIfFinished ==
  workers[level] # <<>> /\ <<level, Head(workers[level])>> \in finished

\* Any finished block is passed on.
ExtractAny ==
  /\ main = "check"
  /\ \E i \in 1 .. Len(workers[level]) :
       /\ finishing = level \/ <<level, workers[level][i]>> \in finished
       /\ hand' = [hand EXCEPT ![level] = workers[level][i]]
       /\ workers' = [workers EXCEPT ![level] =
                        SubSeq(@, 1, i - 1) \o SubSeq(@, i + 1, Len(@))]
  /\ Goto("wait", level)
  /\ UNCHANGED <<poolVars, finishing, pushed, passed, step>>

\* The new worker is put at the front of the list.
QueueInFront ==
  /\ main = "queue" /\ roomAwaited = NoPool
  /\ QueueJob(<<level, IF level = 1 THEN pushed ELSE hand[level - 1]>>)
  /\ workers' = [workers EXCEPT ![level] =
                   <<IF level = 1 THEN pushed ELSE hand[level - 1]>> \o @]
  /\ Goto("check", level)
  /\ UNCHANGED <<finishing, hand, pushed, passed, step>>

-----------------------------------------------------------------------------
(* Construction, from the last handler to the first.                       *)

Construct ==
  /\ main = "construct"
  /\ ClientIncrease(PoolOf(level))
  /\ IF level = 1 THEN Goto("read", level) ELSE Goto("construct", level - 1)
  /\ UNCHANGED <<finishing, workers, hand, pushed, passed, step>>

-----------------------------------------------------------------------------
(* RawReader::processStep reads a block, or comes to the end of the step.  *)

PushBlock ==
  /\ main = "read" /\ pushed < MaxBlocks
  /\ pushed' = pushed + 1
  /\ Goto("queue", 1)
  /\ UNCHANGED <<poolVars, finishing, workers, hand, passed, step>>

EndOfStep ==
  /\ main = "read"
  /\ finishing' = 1
  /\ Goto("check", 1)
  /\ UNCHANGED <<poolVars, workers, hand, pushed, passed, step>>

-----------------------------------------------------------------------------
(* pushEvents at handler `level`.                                          *)

\* The block that is being pushed.
Incoming == IF level = 1 THEN pushed ELSE hand[level - 1]

Queue ==
  /\ main = "queue" /\ roomAwaited = NoPool
  /\ \/ /\ QueueJob(<<level, Incoming>>)
        /\ workers' = [workers EXCEPT ![level] = Append(@, Incoming)]
        /\ Goto("check", level)
     \/ /\ AwaitRoom(PoolOf(level))
        /\ UNCHANGED <<main, level, workers>>
  /\ UNCHANGED <<finishing, hand, pushed, passed, step>>

\* pushEvents extracts what has finished, finish extracts all there is.
Extractable ==
  /\ workers[level] # <<>>
  /\ finishing = level \/ <<level, Head(workers[level])>> \in finished

Extract ==
  /\ main = "check" /\ Extractable
  /\ hand' = [hand EXCEPT ![level] = Head(workers[level])]
  /\ workers' = [workers EXCEPT ![level] = Tail(@)]
  /\ Goto("wait", level)
  /\ UNCHANGED <<poolVars, finishing, pushed, passed, step>>

Wait ==
  /\ main = "wait" /\ jobAwaited = NoJob
  /\ \/ /\ <<level, hand[level]>> \in finished
        /\ Goto("pass", level)
        /\ UNCHANGED poolVars
     \/ /\ AwaitJob(<<level, hand[level]>>)
        /\ UNCHANGED <<main, level>>
  /\ UNCHANGED <<finishing, workers, hand, pushed, passed, step>>

\* The sink's pushEvents; the last handler's sink keeps nothing.
PassOn ==
  /\ main = "pass"
  /\ IF level = NumHandlers
     THEN passed' = Append(passed, hand[level]) /\ Goto("delete", level)
     ELSE Goto("queue", level + 1) /\ UNCHANGED passed
  /\ UNCHANGED <<poolVars, finishing, workers, hand, pushed, step>>

DeleteWorker ==
  /\ main = "delete"
  /\ DeleteJob(<<level, hand[level]>>)
  /\ hand' = [hand EXCEPT ![level] = 0]
  /\ Goto("check", level)
  /\ UNCHANGED <<finishing, workers, pushed, passed, step>>

\* pushEvents returns, to the reader or into the call that extracted the block.
ReturnFromPush ==
  /\ main = "check" /\ ~Extractable /\ finishing # level
  /\ IF level = 1 THEN Goto("read", level) ELSE Goto("delete", level - 1)
  /\ UNCHANGED <<poolVars, finishing, workers, hand, pushed, passed, step>>

\* finish goes on to the sink's finish.
ReturnFromFinish ==
  /\ main = "check" /\ ~Extractable /\ finishing = level
  /\ IF level = NumHandlers
     THEN finishing' = 0 /\ Goto("decrease", 1)
     ELSE finishing' = level + 1 /\ Goto("check", level + 1)
  /\ UNCHANGED <<poolVars, workers, hand, pushed, passed, step>>

-----------------------------------------------------------------------------
(* Destruction, from the first handler to the last.                        *)

NextHandler ==
  /\ IF level < NumHandlers
     THEN Goto("decrease", level + 1) /\ UNCHANGED <<pushed, passed, step>>
     ELSE IF step < MaxSteps
     THEN /\ Goto("construct", NumHandlers)
          /\ pushed' = 0 /\ passed' = <<>> /\ step' = step + 1
     ELSE Goto("end", level) /\ UNCHANGED <<pushed, passed, step>>
  /\ UNCHANGED <<finishing, workers, hand>>

Decrease ==
  /\ main = "decrease"
  /\ ClientDecrease(PoolOf(level))
  /\ IF nClients[PoolOf(level)] > 1 THEN NextHandler
     ELSE Goto("broadcast", level) /\ UNCHANGED <<finishing, workers, hand, pushed, passed, step>>

TellWorkers ==
  /\ main = "broadcast"
  /\ BroadcastDeath(PoolOf(level))
  /\ Goto("join", level)
  /\ UNCHANGED <<finishing, workers, hand, pushed, passed, step>>

Join ==
  /\ main = "join"
  /\ Joined(PoolOf(level))
  /\ NextHandler
  /\ UNCHANGED poolVars

Main ==
  \/ Construct \/ PushBlock \/ EndOfStep \/ Queue \/ Extract \/ Wait \/ PassOn
  \/ DeleteWorker \/ ReturnFromPush \/ ReturnFromFinish
  \/ Decrease \/ TellWorkers \/ Join

WorkerStep == (\E t \in Threads : Worker(t)) /\ UNCHANGED mainVars

SpuriousWakeUp ==
  /\ WakeUp
  /\ UNCHANGED <<queue, die, nClients, job, alive, handled, finished, mainVars>>

Next == Main \/ WorkerStep \/ SpuriousWakeUp

Spec == Init /\ [][Next]_vars

\* Every thread runs when it can; waits need not end of themselves.
FairSpec ==
  /\ Spec
  /\ WF_vars(Main)
  /\ \A t \in Threads : WF_vars(Worker(t) /\ UNCHANGED mainVars)

-----------------------------------------------------------------------------
\* A block is passed on only when its handler's handleEvents has returned it.
OutputReady == main = "pass" => <<level, hand[level]>> \in handled

\* No job is deleted that a worker may still use.
JobsOutliveTheirUse ==
  /\ \A t \in Threads : thread[t] \in {"run", "finish"} => job[t] \in alive
  /\ \A p \in Pools : \A i \in 1 .. Len(queue[p]) : queue[p][i] \in alive

\* A handler with a single worker handles its blocks one at a time and in
\* order: the programs' WriteHelpers write to their files without a lock.
OneAtATime ==
  \A t \in Threads :
    thread[t] = "run" /\ job[t][1] \in SingleWorker =>
      \A b \in 1 .. (job[t][2] - 1) :
        <<job[t][1], b>> \in alive => <<job[t][1], b>> \in handled

\* When a pool's workers are told to die they have nothing to do: no job is left
\* in the queue for ever.
NothingLeftBehind ==
  main \in {"broadcast", "join"} =>
    /\ queue[PoolOf(level)] = <<>>
    /\ \A t \in ThreadsOf(PoolOf(level)) : thread[t] \notin {"run", "finish"}

\* Jobs and the threads that run them part in the right order: the main thread
\* deletes a job when no thread can look at it any more, and ends a pool's threads
\* when there is no job for them any more; and no queue outgrows its bound.
JobsInv == TypeOK /\ JobsOutliveTheirUse /\ NothingLeftBehind

\* The pipeline behaves like one that handles a block at a time.
Stream == INSTANCE BlockStream
ImplementsStream == Stream!StreamSpec

-----------------------------------------------------------------------------
(* The inductive invariant behind the order.                               *)

\* Who is to handle a block, or to wait for it, or to pass it on, has one.
HandsFull ==
  /\ \A t \in Threads : thread[t] \in {"run", "finish"} => job[t] \in Jobs
  /\ main \in {"wait", "pass"} => hand[level] \in Blocks
  /\ main = "queue" => Incoming \in Blocks

\* Between steps, and after the last one, nothing is in flight.
Idle == {"decrease", "broadcast", "join", "construct", "end"}

\* finish is called from outside, and goes down the pipeline once.
FinishOnce ==
  /\ finishing > 0 => finishing <= level
  /\ main \in Idle \cup {"read"} => finishing = 0
  /\ main = "read" => level = 1

\* A block that has left handler h (0: the reader) and is not yet in the next.
Between(h) ==
  IF \/ level = h /\ main \in {"wait", "pass"}
     \/ level = h + 1 /\ main = "queue"
  THEN 1 ELSE 0

\* When out[h] blocks have left handler h, these have been the first, the next
\* are with it in order, and those that have left it are in the next handler, or
\* have left that too, or are between the two.
Counts(out) ==
  /\ out[0] = pushed
  /\ \A h \in Handlers :
       /\ out[h] <= pushed
       /\ out[h] + Len(workers[h]) + Between(h - 1) = out[h - 1]
       /\ \A i \in 1 .. Len(workers[h]) : workers[h][i] = out[h] + i
       /\ Between(h) = 1 => hand[h] = out[h]
       /\ finishing > h \/ main \in Idle => out[h] = pushed
  /\ Len(passed) + Between(NumHandlers) = out[NumHandlers]

\* Blocks leave every handler in the order in which they came.
PipelineInv ==
  /\ HandsFull
  /\ FinishOnce
  /\ \E out \in [0 .. NumHandlers -> 0 .. MaxBlocks] : Counts(out)

\* All steps are processed: nobody waits for ever, for room in a queue, for a
\* job, or for a worker to die.
Ends == <>(main = "end")
=============================================================================
