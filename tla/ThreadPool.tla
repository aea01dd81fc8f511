----------------------------- MODULE ThreadPool -----------------------------
(***************************************************************************)
(* base/ThreadPool.cpp: pools of worker threads, each with a bounded queue *)
(* of jobs.                                                                *)
(*                                                                         *)
(* All handlers of a pipeline share the global pool, except those with a   *)
(* single worker, which have a pool of their own.  A job is one block of   *)
(* events at one handler.  Only the program's main thread queues jobs and  *)
(* waits for them; what it does when is in module OverlappedEventHandler.  *)
(*                                                                         *)
(* An action is one critical section of the pool's or of a job's lock.  A  *)
(* wait for a condition variable ends when the variable is signalled, or   *)
(* of itself.                                                              *)
(***************************************************************************)
EXTENDS Integers, Sequences

CONSTANTS
  NumHandlers,     \* the handlers of the pipeline, in their order
  MaxBlocks,       \* bound on the blocks of a step
  NumCPUs,         \* the size of the global pool
  SingleWorker     \* the handlers with singleWorker

ASSUME PoolAssumption ==
  /\ NumHandlers \in Nat \ {0}
  /\ MaxBlocks \in Nat
  /\ NumCPUs \in Nat \ {0}
  /\ SingleWorker \subseteq 1 .. NumHandlers

Handlers == 1 .. NumHandlers
Blocks   == 1 .. MaxBlocks
Jobs     == Handlers \X Blocks
NoJob    == <<0, 0>>

Global == 0
NoPool == -1
Pools  == {Global} \cup SingleWorker

\* A plausible slip: the private pool of a handler is as large as the global.
maxWorkersAll(pool) == NumCPUs

PoolOf(handler) == IF handler \in SingleWorker THEN handler ELSE Global

maxWorkers(pool)   == IF pool = Global THEN NumCPUs ELSE 1
maxQueueSize(pool) == IF maxWorkers(pool) \div 4 > 0 THEN maxWorkers(pool) \div 4
                      ELSE 1

Threads      == { t \in Pools \X (1 .. NumCPUs) : t[2] <= maxWorkers(t[1]) }
ThreadsOf(pool) == { t \in Threads : t[1] = pool }

VARIABLES
  queue, die, nClients,    \* of each pool
  thread,                  \* where a worker thread is
  job,                     \* the job it has taken
  alive,                   \* the jobs that exist
  handled,                 \* those for which handleEvents has returned
  finished,                \* those with `finished` set
  roomAwaited,             \* the pool whose condJobStarted the main thread waits for
  jobAwaited               \* the job whose condJobFinished it waits for

poolVars == <<queue, die, nClients, thread, job, alive, handled, finished,
              roomAwaited, jobAwaited>>

PoolTypeOK ==
  /\ queue \in [Pools -> Seq(Jobs)]
  /\ \A p \in Pools : Len(queue[p]) <= maxQueueSize(p)
  /\ die \in [Pools -> BOOLEAN]
  /\ nClients \in [Pools -> Nat]
  /\ thread \in [Threads -> {"none", "lock", "wait", "run", "finish"}]
  /\ job \in [Threads -> Jobs \cup {NoJob}]
  /\ alive \subseteq Jobs /\ handled \subseteq Jobs /\ finished \subseteq Jobs
  /\ roomAwaited \in Pools \cup {NoPool}
  /\ jobAwaited \in Jobs \cup {NoJob}

PoolInit ==
  /\ queue = [p \in Pools |-> <<>>]
  /\ die = [p \in Pools |-> TRUE]
  /\ nClients = [p \in Pools |-> 0]
  /\ thread = [t \in Threads |-> "none"]
  /\ job = [t \in Threads |-> NoJob]
  /\ alive = {} /\ handled = {} /\ finished = {}
  /\ roomAwaited = NoPool /\ jobAwaited = NoJob

\* Signalling a condition variable of the workers wakes one that waits, if any
\* does; broadcasting wakes them all.
Signalled(pool, states) ==
  LET waiting == { t \in ThreadsOf(pool) : states[t] = "wait" }
  IN  IF waiting = {} THEN {states}
      ELSE { [states EXCEPT ![t] = "lock"] : t \in waiting }

Broadcast(pool, states) ==
  [t \in Threads |-> IF t[1] = pool /\ states[t] = "wait" THEN "lock" ELSE states[t]]

-----------------------------------------------------------------------------
(* A worker thread.                                                        *)

WorkerDies(t) ==
  /\ thread[t] = "lock" /\ die[t[1]]
  /\ thread' = [thread EXCEPT ![t] = "none"]
  /\ UNCHANGED <<queue, die, nClients, job, alive, handled, finished,
                 roomAwaited, jobAwaited>>

WorkerWaits(t) ==
  /\ thread[t] = "lock" /\ ~die[t[1]] /\ queue[t[1]] = <<>>
  /\ thread' = [thread EXCEPT ![t] = "wait"]
  /\ UNCHANGED <<queue, die, nClients, job, alive, handled, finished,
                 roomAwaited, jobAwaited>>

\* Take the oldest job and signal condJobStarted.
WorkerTakesJob(t) ==
  LET pool == t[1]
  IN  /\ thread[t] = "lock" /\ ~die[pool] /\ queue[pool] # <<>>
      /\ job' = [job EXCEPT ![t] = Head(queue[pool])]
      /\ queue' = [queue EXCEPT ![pool] = Tail(queue[pool])]
      /\ roomAwaited' = IF roomAwaited = pool THEN NoPool ELSE roomAwaited
      /\ thread' = [thread EXCEPT ![t] = "run"]
      /\ UNCHANGED <<die, nClients, alive, handled, finished, jobAwaited>>

\* start_routine: the handler's handleEvents.
WorkerRuns(t) ==
  /\ thread[t] = "run"
  /\ handled' = handled \cup {job[t]}
  /\ thread' = [thread EXCEPT ![t] = "finish"]
  /\ UNCHANGED <<queue, die, nClients, job, alive, finished, roomAwaited,
                 jobAwaited>>

\* Under the job's lock: set finished and signal condJobFinished.
WorkerFinishes(t) ==
  /\ thread[t] = "finish"
  /\ finished' = finished \cup {job[t]}
  /\ jobAwaited' = IF jobAwaited = job[t] THEN NoJob ELSE jobAwaited
  /\ job' = [job EXCEPT ![t] = NoJob]
  /\ thread' = [thread EXCEPT ![t] = "lock"]
  /\ UNCHANGED <<queue, die, nClients, alive, handled, roomAwaited>>

Worker(t) ==
  \/ WorkerDies(t) \/ WorkerWaits(t) \/ WorkerTakesJob(t)
  \/ WorkerRuns(t) \/ WorkerFinishes(t)

WakeUp ==
  \/ \E t \in Threads :
       /\ thread[t] = "wait"
       /\ thread' = [thread EXCEPT ![t] = "lock"]
       /\ UNCHANGED <<roomAwaited, jobAwaited>>
  \/ /\ roomAwaited # NoPool \/ jobAwaited # NoJob
     /\ roomAwaited' = NoPool /\ jobAwaited' = NoJob
     /\ UNCHANGED thread

-----------------------------------------------------------------------------
(* What the main thread calls, after a plausible slip.                     *)

\* The new job is not signalled.
QueueJobQuietly(newJob) ==
  LET pool == PoolOf(newJob[1])
  IN  /\ Len(queue[pool]) < maxQueueSize(pool)
      /\ queue' = [queue EXCEPT ![pool] = Append(@, newJob)]
      /\ alive' = alive \cup {newJob}
      /\ UNCHANGED <<die, nClients, thread, job, handled, finished, roomAwaited,
                     jobAwaited>>

\* The first client of a pool starts its workers.
ClientIncrease(pool) ==
  /\ nClients' = [nClients EXCEPT ![pool] = @ + 1]
  /\ IF nClients[pool] = 0
     THEN /\ die' = [die EXCEPT ![pool] = FALSE]
          /\ thread' = [t \in Threads |-> IF t[1] = pool THEN "lock" ELSE thread[t]]
     ELSE UNCHANGED <<die, thread>>
  /\ UNCHANGED <<queue, job, alive, handled, finished, roomAwaited, jobAwaited>>

\* The last one tells them to die, first without the lock.
ClientDecrease(pool) ==
  /\ nClients' = [nClients EXCEPT ![pool] = IF @ > 1 THEN @ - 1 ELSE 0]
  /\ die' = IF nClients[pool] > 1 THEN die ELSE [die EXCEPT ![pool] = TRUE]
  /\ UNCHANGED <<queue, thread, job, alive, handled, finished, roomAwaited,
                 jobAwaited>>

BroadcastDeath(pool) ==
  /\ thread' = Broadcast(pool, thread)
  /\ UNCHANGED <<queue, die, nClients, job, alive, handled, finished,
                 roomAwaited, jobAwaited>>

Joined(pool) == \A t \in ThreadsOf(pool) : thread[t] = "none"

QueueJob(newJob) ==
  LET pool == PoolOf(newJob[1])
  IN  /\ Len(queue[pool]) < maxQueueSize(pool)
      /\ queue' = [queue EXCEPT ![pool] = Append(@, newJob)]
      /\ alive' = alive \cup {newJob}
      /\ thread' \in Signalled(pool, thread)
      /\ UNCHANGED <<die, nClients, job, handled, finished, roomAwaited,
                     jobAwaited>>

AwaitRoom(pool) ==
  /\ Len(queue[pool]) >= maxQueueSize(pool)
  /\ roomAwaited' = pool
  /\ UNCHANGED <<queue, die, nClients, thread, job, alive, handled, finished,
                 jobAwaited>>

AwaitJob(someJob) ==
  /\ someJob \notin finished
  /\ jobAwaited' = someJob
  /\ UNCHANGED <<queue, die, nClients, thread, job, alive, handled, finished,
                 roomAwaited>>

DeleteJob(someJob) ==
  /\ alive' = alive \ {someJob}
  /\ handled' = handled \ {someJob}
  /\ finished' = finished \ {someJob}
  /\ UNCHANGED <<queue, die, nClients, thread, job, roomAwaited, jobAwaited>>
=============================================================================
