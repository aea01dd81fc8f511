------------------- MODULE OverlappedEventHandler_proofs -------------------
(***************************************************************************)
(* Proofs about the pipeline of event handlers, for any number of          *)
(* handlers, processors, blocks and steps.                                 *)
(***************************************************************************)
EXTENDS OverlappedEventHandler, SequenceTheorems, TLAPS

-----------------------------------------------------------------------------
(* Types.                                                                  *)

LEMMA InitTypeOK == Init => TypeOK
  BY PoolAssumption, StepAssumption
  DEF Init, PoolInit, TypeOK, PoolTypeOK, Threads, Pools, Global, NoPool, Handlers,
      Blocks, Jobs, NoJob, maxQueueSize, maxWorkers

\* A queue that grows by one job where there is room, or loses its oldest, is
\* still a queue.
LEMMA QueueGrows ==
  ASSUME NEW Q, NEW q \in Seq(Q), NEW x \in Q, NEW max \in Nat, Len(q) < max
  PROVE  Append(q, x) \in Seq(Q) /\ Len(Append(q, x)) <= max
OBVIOUS

LEMMA QueueShrinks ==
  ASSUME NEW Q, NEW q \in Seq(Q), NEW max \in Nat, Len(q) <= max, q # <<>>
  PROVE  /\ Head(q) \in Q
         /\ Tail(q) \in Seq(Q) /\ Len(Tail(q)) <= max
         /\ Len(Tail(q)) = Len(q) - 1
OBVIOUS

LEMMA QueueRoom == \A pool \in Pools : maxQueueSize(pool) \in Nat
  BY PoolAssumption DEF maxQueueSize, maxWorkers

\* A change of one pool's queue leaves the others as they are.
LEMMA QueueUpdate ==
  ASSUME queue \in [Pools -> Seq(Jobs)],
         \A p \in Pools : Len(queue[p]) <= maxQueueSize(p),
         NEW pool \in Pools, NEW q \in Seq(Jobs), Len(q) <= maxQueueSize(pool),
         queue' = [queue EXCEPT ![pool] = q]
  PROVE  /\ queue' \in [Pools -> Seq(Jobs)]
         /\ \A p \in Pools : Len(queue'[p]) <= maxQueueSize(p)
  OBVIOUS

\* Waking threads sends none to a job.
LEMMA WakingTypes ==
  ASSUME PoolTypeOK, NEW pool \in Pools
  PROVE  /\ \A s \in Signalled(pool, thread) \cup {Broadcast(pool, thread)} :
              /\ s \in [Threads -> {"none", "lock", "wait", "run", "finish"}]
              /\ \A t \in Threads : s[t] \in {"run", "finish"} => s[t] = thread[t]
<1>1. \A t \in Threads : t \in ThreadsOf(pool) <=> t[1] = pool
  BY DEF ThreadsOf
<1>2. \A s \in Signalled(pool, thread) :
        s = thread \/ \E t \in Threads : s = [thread EXCEPT ![t] = "lock"]
  BY <1>1 DEF Signalled, ThreadsOf
<1> QED
  BY <1>2 DEF Broadcast, PoolTypeOK

PoolInv == PoolTypeOK /\ \A t \in Threads : thread[t] \in {"run", "finish"} => job[t] \in Jobs

\* What a worker does keeps the pool's variables in their types.
LEMMA WorkerTypes ==
  ASSUME PoolInv, NEW t \in Threads, Worker(t)
  PROVE  PoolInv'
<1> t[1] \in Pools
  BY DEF Threads
<1> USE DEF PoolTypeOK, PoolInv
<1>1. CASE WorkerDies(t)
  BY <1>1 DEF WorkerDies
<1>2. CASE WorkerWaits(t)
  BY <1>2 DEF WorkerWaits
<1>3. CASE WorkerTakesJob(t)
  <2> DEFINE pool == t[1]
  <2>1. queue[pool] \in Seq(Jobs) /\ Len(queue[pool]) <= maxQueueSize(pool)
    OBVIOUS
  <2>2. Head(queue[pool]) \in Jobs
    BY <1>3, <2>1, QueueRoom, QueueShrinks DEF WorkerTakesJob
  <2>3. Tail(queue[pool]) \in Seq(Jobs) /\ Len(Tail(queue[pool])) <= maxQueueSize(pool)
    BY <1>3, <2>1, QueueRoom, QueueShrinks DEF WorkerTakesJob
  <2>4. /\ queue' \in [Pools -> Seq(Jobs)]
        /\ \A p \in Pools : Len(queue'[p]) <= maxQueueSize(p)
    BY <1>3, <2>3, QueueUpdate DEF WorkerTakesJob
  <2>5. thread' \in [Threads -> {"none", "lock", "wait", "run", "finish"}]
    BY <1>3 DEF WorkerTakesJob
  <2>6. /\ job' \in [Threads -> Jobs \cup {NoJob}]
        /\ \A u \in Threads : thread'[u] \in {"run", "finish"} => job'[u] \in Jobs
    BY <1>3, <2>2 DEF WorkerTakesJob
  <2>7. roomAwaited' \in Pools \cup {NoPool}
    BY <1>3 DEF WorkerTakesJob
  <2> QED
    BY <1>3, <2>4, <2>5, <2>6, <2>7 DEF WorkerTakesJob
<1>4. CASE WorkerRuns(t)
  <2>1. job[t] \in Jobs
    BY <1>4 DEF WorkerRuns
  <2> QED
    BY <1>4, <2>1 DEF WorkerRuns
<1>5. CASE WorkerFinishes(t)
  <2>1. job[t] \in Jobs
    BY <1>5 DEF WorkerFinishes
  <2> QED
    BY <1>5, <2>1 DEF WorkerFinishes
<1> QED
  BY <1>1, <1>2, <1>3, <1>4, <1>5 DEF Worker

\* So does what the main thread does to it.
LEMMA MainTypes ==
  ASSUME PoolInv, NEW h \in Handlers, NEW b,
         \/ ClientIncrease(PoolOf(h)) \/ ClientDecrease(PoolOf(h))
         \/ BroadcastDeath(PoolOf(h)) \/ AwaitRoom(PoolOf(h))
         \/ b \in Blocks /\ (QueueJob(<<h, b>>) \/ AwaitJob(<<h, b>>))
         \/ DeleteJob(<<h, b>>)
  PROVE  PoolInv'
<1> DEFINE pool == PoolOf(h)
<1>1. pool \in Pools
  BY DEF PoolOf, Pools
<1>2. b \in Blocks => <<h, b>> \in Jobs
  BY DEF Jobs
<1> USE DEF PoolInv, PoolTypeOK
<1>3. CASE ClientIncrease(pool)
  <2>1. nClients' \in [Pools -> Nat]
    BY <1>1, <1>3 DEF ClientIncrease
  <2>2. die' \in [Pools -> BOOLEAN]
    BY <1>1, <1>3 DEF ClientIncrease
  <2>3. /\ thread' \in [Threads -> {"none", "lock", "wait", "run", "finish"}]
        /\ \A t \in Threads : thread'[t] \in {"run", "finish"} => job[t] \in Jobs
    BY <1>3 DEF ClientIncrease
  <2> QED
    BY <1>3, <2>1, <2>2, <2>3 DEF ClientIncrease
<1>4. CASE ClientDecrease(pool)
  <2>1. nClients[pool] > 1 => nClients[pool] - 1 \in Nat
    <3>1. nClients[pool] \in Nat
      BY <1>1
    <3> QED
      BY <3>1
  <2>2. die' \in [Pools -> BOOLEAN]
    BY <1>1, <1>4 DEF ClientDecrease
  <2>3. nClients' \in [Pools -> Nat]
    BY <1>1, <1>4, <2>1 DEF ClientDecrease
  <2> QED
    BY <1>4, <2>2, <2>3 DEF ClientDecrease
<1>5. CASE BroadcastDeath(pool)
  BY <1>1, <1>5, WakingTypes DEF BroadcastDeath
<1>6. CASE b \in Blocks /\ QueueJob(<<h, b>>)
  <2>1. /\ Append(queue[pool], <<h, b>>) \in Seq(Jobs)
        /\ Len(Append(queue[pool], <<h, b>>)) <= maxQueueSize(pool)
    BY <1>1, <1>2, <1>6, QueueRoom, QueueGrows DEF QueueJob
  <2>2. /\ queue' \in [Pools -> Seq(Jobs)]
        /\ \A p \in Pools : Len(queue'[p]) <= maxQueueSize(p)
    BY <1>1, <1>6, <2>1, QueueUpdate DEF QueueJob
  <2>3. /\ thread' \in [Threads -> {"none", "lock", "wait", "run", "finish"}]
        /\ \A t \in Threads : thread'[t] \in {"run", "finish"} => job[t] \in Jobs
    BY <1>1, <1>6, WakingTypes DEF QueueJob
  <2> QED
    BY <1>2, <1>6, <2>2, <2>3 DEF QueueJob
<1>7. CASE AwaitRoom(pool)
  BY <1>1, <1>7 DEF AwaitRoom
<1>8. CASE b \in Blocks /\ AwaitJob(<<h, b>>)
  BY <1>2, <1>8 DEF AwaitJob
<1>9. CASE DeleteJob(<<h, b>>)
  BY <1>9 DEF DeleteJob
<1> QED
  BY <1>3, <1>4, <1>5, <1>6, <1>7, <1>8, <1>9

\* What is in hand and how far finish has come.
MainInv ==
  /\ main \in {"construct", "read", "queue", "check", "wait", "pass", "delete",
               "decrease", "broadcast", "join", "end"}
  /\ level \in Handlers
  /\ finishing \in 0 .. NumHandlers
  /\ workers \in [Handlers -> Seq(Blocks)]
  /\ hand \in [Handlers -> 0 .. MaxBlocks]
  /\ pushed \in 0 .. MaxBlocks
  /\ passed \in Seq(Blocks)
  /\ step \in 1 .. MaxSteps
  /\ main \in {"wait", "pass"} => hand[level] \in Blocks
  /\ main = "queue" => Incoming \in Blocks
  /\ FinishOnce

LEMMA Parts == TypeOK /\ HandsFull /\ FinishOnce <=> PoolInv /\ MainInv
  BY DEF TypeOK, HandsFull, PoolInv, MainInv

LEMMA MainPlaces == MainInv /\ Main => MainInv'
<1> SUFFICES ASSUME MainInv, Main PROVE MainInv'
  OBVIOUS
<1>0. /\ level \in Int /\ 1 <= level /\ level <= NumHandlers
      /\ NumHandlers \in Int /\ NumHandlers > 0 /\ MaxBlocks \in Int /\ MaxBlocks >= 0
  BY PoolAssumption DEF MainInv, Handlers
<1> USE DEF MainInv, FinishOnce, Incoming, Idle, Goto, Handlers, Blocks
<1>1. CASE Construct
  BY <1>0, <1>1 DEF Construct
<1>2. CASE PushBlock
  BY <1>0, <1>2 DEF PushBlock
<1>3. CASE EndOfStep
  BY <1>0, <1>3 DEF EndOfStep
<1>4. CASE Queue
  <2>1. workers' \in [Handlers -> Seq(Blocks)]
    <3>1. Incoming \in Blocks /\ workers[level] \in Seq(Blocks)
      BY <1>0, <1>4 DEF Queue
    <3>2. Append(workers[level], Incoming) \in Seq(Blocks)
      BY <3>1
    <3>3. \/ workers' = workers
          \/ workers' = [workers EXCEPT ![level] = Append(workers[level], Incoming)]
      BY <1>4 DEF Queue
    <3> HIDE DEF Blocks, Incoming
    <3> QED
      BY <3>2, <3>3
  <2>2. main' = "check" \/ UNCHANGED <<main, level, hand, pushed>>
    BY <1>4 DEF Queue
  <2>3. level' = level /\ UNCHANGED <<finishing, hand, pushed, passed, step>>
    BY <1>4 DEF Queue
  <2> QED
    BY <1>0, <1>4, <2>1, <2>2, <2>3 DEF Queue
<1>5. CASE Extract
  <2>1. /\ main = "check" /\ main' = "wait" /\ level' = level
        /\ hand' = [hand EXCEPT ![level] = Head(workers[level])]
        /\ workers' = [workers EXCEPT ![level] = Tail(workers[level])]
        /\ UNCHANGED <<finishing, pushed, passed, step>>
    BY <1>5 DEF Extract
  <2>2. Head(workers[level]) \in Blocks /\ Tail(workers[level]) \in Seq(Blocks)
    BY <1>0, <1>5, SMTT(30) DEF Extract, Extractable
  <2>3. workers' \in [Handlers -> Seq(Blocks)]
    <3> HIDE DEF Blocks
    <3> QED
      BY <2>1, <2>2
  <2>4. hand' \in [Handlers -> 0 .. MaxBlocks] /\ hand'[level] \in Blocks
    BY <1>0, <2>1, <2>2, SMTT(30)
  <2>5. FinishOnce'
    BY <1>0, <2>1
  <2> QED
    BY <1>0, <2>1, <2>3, <2>4, <2>5
<1>6. CASE Wait
  BY <1>0, <1>6 DEF Wait
<1>7. CASE PassOn
  <2>1. hand[level] \in Blocks
    BY <1>7 DEF PassOn
  <2>2. CASE level = NumHandlers
    <3>1. passed' \in Seq(Blocks)
      <4>1. passed' = Append(passed, hand[level]) /\ passed \in Seq(Blocks)
        BY <1>7, <2>2 DEF PassOn
      <4> HIDE DEF Blocks
      <4> QED
        BY <2>1, <4>1
    <3>2. /\ main' = "delete" /\ level' = level
          /\ UNCHANGED <<finishing, workers, hand, pushed, step>>
      BY <1>7, <2>2 DEF PassOn
    <3>3. FinishOnce'
      BY <1>0, <1>7, <3>2 DEF PassOn
    <3> QED
      BY <3>1, <3>2, <3>3
  <2>3. CASE level # NumHandlers
    <3>1. level + 1 \in Handlers /\ level + 1 # 1 /\ (level + 1) - 1 = level
      BY <1>0, <2>3
    <3>2. /\ main' = "queue" /\ level' = level + 1
          /\ UNCHANGED <<finishing, workers, hand, pushed, passed, step>>
      BY <1>7, <2>3 DEF PassOn
    <3>3. Incoming' = hand[level]
      BY <3>1, <3>2
    <3>4. FinishOnce'
      BY <1>0, <3>2
    <3> QED
      BY <2>1, <3>1, <3>2, <3>3, <3>4
  <2> QED
    BY <2>2, <2>3
<1>8. CASE DeleteWorker
  BY <1>0, <1>8 DEF DeleteWorker
<1>9. CASE ReturnFromPush
  BY <1>0, <1>9 DEF ReturnFromPush
<1>10. CASE ReturnFromFinish
  BY <1>0, <1>10, SMTT(30) DEF ReturnFromFinish
<1>11. ASSUME NextHandler, main \in {"decrease", "join"} PROVE MainInv'
  <2>1. CASE level < NumHandlers
    BY <1>0, <1>11, <2>1 DEF NextHandler
  <2>2. CASE ~(level < NumHandlers) /\ step < MaxSteps
    <3>1. step + 1 \in 1 .. MaxSteps /\ <<>> \in Seq(Blocks)
      BY <2>2, StepAssumption
    <3> QED
      BY <1>0, <1>11, <2>2, <3>1 DEF NextHandler
  <2>3. CASE ~(level < NumHandlers) /\ ~(step < MaxSteps)
    BY <1>0, <1>11, <2>3 DEF NextHandler
  <2> QED
    BY <2>1, <2>2, <2>3
<1>12. CASE Decrease
  <2>1. CASE NextHandler
    BY <1>11, <1>12, <2>1 DEF Decrease
  <2>2. CASE ~NextHandler
    BY <1>0, <1>12, <2>2 DEF Decrease
  <2> QED
    BY <2>1, <2>2
<1>13. CASE TellWorkers
  BY <1>0, <1>13 DEF TellWorkers
<1>14. CASE Join
  BY <1>11, <1>14 DEF Join
<1> QED
  BY <1>1, <1>2, <1>3, <1>4, <1>5, <1>6, <1>7, <1>8, <1>9, <1>10, <1>12, <1>13, <1>14
  DEF Main

LEMMA MainPool == PoolInv /\ MainInv /\ Main => PoolInv'
<1> SUFFICES ASSUME PoolInv, MainInv, Main PROVE PoolInv'
  OBVIOUS
<1>1. level \in Handlers
  BY DEF MainInv
<1>2. CASE UNCHANGED poolVars
  BY <1>2 DEF PoolInv, PoolTypeOK, poolVars
<1>3. CASE Queue
  BY <1>1, <1>2, <1>3, MainTypes DEF Queue, MainInv
<1>4. CASE Wait
  BY <1>1, <1>2, <1>4, MainTypes DEF Wait, MainInv
<1>5. CASE Construct \/ Decrease \/ TellWorkers \/ DeleteWorker
  BY <1>1, <1>5, MainTypes DEF Construct, Decrease, TellWorkers, DeleteWorker
<1>6. CASE PushBlock \/ EndOfStep \/ Extract \/ PassOn \/ ReturnFromPush
           \/ ReturnFromFinish \/ Join
  BY <1>2, <1>6
  DEF PushBlock, EndOfStep, Extract, PassOn, ReturnFromPush, ReturnFromFinish, Join
<1> QED
  BY <1>3, <1>4, <1>5, <1>6 DEF Main

-----------------------------------------------------------------------------
(* Order.                                                                  *)

Outs == [0 .. NumHandlers -> 0 .. MaxBlocks]

\* Steps that leave the blocks where they are.
LEMMA SameCounts ==
  ASSUME NEW out \in Outs, Counts(out),
         UNCHANGED <<workers, passed, pushed>>,
         \A h \in 0 .. NumHandlers : Between(h)' = Between(h),
         \A h \in Handlers : Between(h) = 1 => hand'[h] = hand[h],
         \A h \in Handlers :
           finishing' > h \/ main' \in Idle =>
             finishing > h \/ main \in Idle \/ out[h] = pushed
  PROVE  Counts(out)'
<1>1. 0 \in 0 .. NumHandlers /\ NumHandlers \in 0 .. NumHandlers
      /\ \A h \in Handlers : h \in 0 .. NumHandlers /\ h - 1 \in 0 .. NumHandlers
  BY PoolAssumption DEF Handlers
<1> QED
  BY <1>1 DEF Counts

\* A run of consecutive numbers without its first.
LEMMA TailOfRun ==
  ASSUME NEW S, NEW q \in Seq(S), q # <<>>, NEW n \in Int,
         \A i \in 1 .. Len(q) : q[i] = n + i
  PROVE  /\ Len(Tail(q)) = Len(q) - 1
         /\ Len(q) >= 1
         /\ Head(q) = n + 1
         /\ \A i \in 1 .. Len(q) - 1 : Tail(q)[i] = n + 1 + i
<1>1. Len(q) \in Nat /\ Len(q) >= 1
  OBVIOUS
<1>2. Head(q) = q[1] /\ Len(Tail(q)) = Len(q) - 1
  BY <1>1
<1>3. ASSUME NEW i \in 1 .. Len(q) - 1 PROVE Tail(q)[i] = n + 1 + i
  <2>1. Tail(q)[i] = q[i + 1] /\ i + 1 \in 1 .. Len(q)
    BY <1>1
  <2> QED
    BY <2>1
<1> QED
  BY <1>1, <1>2, <1>3

LEMMA MainCounts ==
  ASSUME MainInv, NEW out \in Outs, Counts(out), Main
  PROVE  /\ \E next \in Outs : Counts(next)'
         /\ [Stream!StreamNext]_(Stream!streamVars)
<1>0. /\ level \in Handlers /\ NumHandlers \in Handlers /\ MaxBlocks \in Nat
      /\ NumHandlers \in Nat \ {0} /\ Handlers = 1 .. NumHandlers
      /\ \A h \in Handlers : h \in Int /\ 1 <= h /\ h <= NumHandlers
  BY PoolAssumption DEF MainInv, Handlers
<1> DEFINE Still == \A h \in 0 .. NumHandlers : Between(h)' = Between(h)
<1> HIDE DEF Still
<1>1. CASE Construct
  <2>1. Still
    BY <1>0, <1>1 DEF Construct, Between, Still, Goto
  <2>2. Counts(out)'
    BY <1>1, <2>1, SameCounts DEF Construct, Still, Goto, Idle, MainInv, FinishOnce
  <2> QED
    BY <1>1, <2>2 DEF Construct, Stream!streamVars
<1>2. CASE PushBlock
  <2> DEFINE next == [out EXCEPT ![0] = @ + 1]
  <2>1. /\ main = "read" /\ main' = "queue" /\ level' = 1 /\ level = 1
        /\ finishing = 0 /\ pushed \in 0 .. MaxBlocks /\ pushed < MaxBlocks
        /\ pushed' = pushed + 1 /\ UNCHANGED <<workers, passed, hand, finishing>>
    BY <1>2 DEF PushBlock, Goto, MainInv, FinishOnce
  <2>2. /\ \A h \in 0 .. NumHandlers : Between(h) = 0
        /\ Between(0)' = 1
        /\ \A h \in Handlers : Between(h)' = 0
    BY <1>0, <2>1 DEF Between
  <2>3. out[0] = pushed /\ 0 \in 0 .. NumHandlers
    BY <1>0 DEF Counts
  <2>4. /\ next \in Outs /\ next[0] = pushed'
        /\ \A h \in Handlers : next[h] = out[h]
    BY <1>0, <2>1, <2>3 DEF Outs
  <2>5. ASSUME NEW h \in Handlers
        PROVE  next[h] + Len(workers'[h]) + Between(h - 1)' = next[h - 1]
    <3>1. out[h] + Len(workers[h]) + Between(h - 1) = out[h - 1]
      BY DEF Counts
    <3>2. CASE h = 1
      BY <1>0, <2>1, <2>2, <2>3, <2>4, <3>1, <3>2 DEF MainInv, Outs
    <3>3. CASE h # 1
      <4>1. h - 1 \in Handlers /\ h - 1 \in 0 .. NumHandlers
        BY <1>0, <3>3
      <4> QED
        BY <2>1, <2>2, <2>4, <3>1, <4>1
    <3> QED
      BY <3>2, <3>3
  <2>6. Counts(next)'
    <3>1. \A h \in Handlers : next[h] <= pushed'
      BY <1>0, <2>1, <2>4 DEF Counts, Outs
    <3>2. \A h \in Handlers : \A i \in 1 .. Len(workers'[h]) :
            workers'[h][i] = next[h] + i
      BY <2>1, <2>4 DEF Counts
    <3>3. \A h \in Handlers : ~(finishing' > h \/ main' \in Idle)
      BY <1>0, <2>1 DEF Idle
    <3>4. Len(passed') + Between(NumHandlers)' = next[NumHandlers]
      BY <1>0, <2>1, <2>2, <2>4 DEF Counts
    <3> QED
      BY <2>2, <2>4, <2>5, <3>1, <3>2, <3>3, <3>4 DEF Counts
  <2> QED
    BY <2>1, <2>4, <2>6 DEF Stream!streamVars, Stream!StreamNext, Stream!Push
<1>3. CASE EndOfStep
  <2>1. Still
    BY <1>0, <1>3 DEF EndOfStep, Between, Still, Goto
  <2>2. Counts(out)'
    BY <1>0, <1>3, <2>1, SameCounts DEF EndOfStep, Still, Goto, Idle
  <2> QED
    BY <1>3, <2>2 DEF EndOfStep, Stream!streamVars
<1>4. CASE Queue
  <2>1. CASE UNCHANGED <<main, level, workers>>
    <3>1. Still
      BY <2>1 DEF Between, Still
    <3>2. Counts(out)'
      BY <1>4, <2>1, <3>1, SameCounts DEF Queue, Still, Idle
    <3> QED
      BY <1>4, <3>2 DEF Queue, Stream!streamVars
  <2>2. CASE /\ workers' = [workers EXCEPT ![level] = Append(@, Incoming)]
             /\ Goto("check", level)
    <3>1. /\ main = "queue" /\ main' = "check" /\ level' = level
          /\ UNCHANGED <<finishing, hand, pushed, passed>>
      BY <1>4, <2>2 DEF Queue, Goto
    <3>2. /\ Between(level - 1) = 1
          /\ \A h \in 0 .. NumHandlers : h # level - 1 => Between(h) = 0
          /\ \A h \in 0 .. NumHandlers : Between(h)' = 0
      BY <1>0, <3>1 DEF Between
    <3>3. /\ out[level] + Len(workers[level]) + 1 = out[level - 1]
          /\ Incoming = out[level - 1]
          /\ out[level] \in Int /\ workers[level] \in Seq(Blocks)
      <4>1. level \in 0 .. NumHandlers /\ (level # 1 => level - 1 \in Handlers)
        BY <1>0
      <4>2. Incoming = out[level - 1]
        BY <1>0, <3>2, <4>1 DEF Counts, Incoming
      <4>3. out[level] + Len(workers[level]) + Between(level - 1) = out[level - 1]
        BY <1>0 DEF Counts
      <4>4. out[level] \in Int /\ workers[level] \in Seq(Blocks)
        BY <1>0, <4>1 DEF Outs, MainInv
      <4> QED
        BY <3>2, <4>2, <4>3, <4>4
    <3>4. /\ Len(Append(workers[level], Incoming)) = Len(workers[level]) + 1
          /\ \A i \in 1 .. Len(workers[level]) + 1 :
               Append(workers[level], Incoming)[i] = out[level] + i
      <4>1. \A i \in 1 .. Len(workers[level]) : workers[level][i] = out[level] + i
        BY <1>0 DEF Counts
      <4> QED
        BY <3>3, <4>1
    <3>5. /\ workers'[level] = Append(workers[level], Incoming)
          /\ \A h \in Handlers \ {level} : workers'[h] = workers[h]
      BY <1>0, <2>2 DEF MainInv
    <3>6. \A h \in Handlers : out[h] + Len(workers'[h]) + Between(h - 1)' = out[h - 1]
      <4>1. ASSUME NEW h \in Handlers, h # level
            PROVE  out[h] + Len(workers'[h]) + Between(h - 1)' = out[h - 1]
        <5>1. h - 1 \in 0 .. NumHandlers /\ h - 1 # level - 1
          BY <1>0, <4>1
        <5>2. out[h] + Len(workers[h]) + Between(h - 1) = out[h - 1]
          BY DEF Counts
        <5> QED
          BY <3>2, <3>5, <4>1, <5>1, <5>2
      <4>2. ASSUME NEW h \in Handlers, h = level
            PROVE  out[h] + Len(workers'[h]) + Between(h - 1)' = out[h - 1]
        <5>1. Len(workers[level]) \in Nat /\ out[level - 1] \in Int
          BY <3>3
        <5>2. Len(workers'[level]) = Len(workers[level]) + 1
          BY <3>4, <3>5
        <5>3. Between(h - 1)' = 0
          BY <1>0, <3>2
        <5> QED
          BY <3>3, <4>2, <5>1, <5>2, <5>3
      <4> QED
        BY <4>1, <4>2
    <3>7. \A h \in Handlers : \A i \in 1 .. Len(workers'[h]) : workers'[h][i] = out[h] + i
      BY <3>4, <3>5 DEF Counts
    <3>8. Between(NumHandlers) = 0 /\ Between(NumHandlers)' = 0
      BY <1>0, <3>2
    <3>9. Counts(out)'
      <4>1. \A h \in Handlers : Between(h)' # 1
        BY <1>0, <3>2
      <4>2. \A h \in Handlers :
              finishing' > h \/ main' \in Idle => finishing > h \/ main \in Idle
        BY <3>1 DEF Idle
      <4> QED
        BY <3>1, <3>6, <3>7, <3>8, <4>1, <4>2 DEF Counts
    <3> QED
      BY <3>1, <3>9 DEF Stream!streamVars
  <2> QED
    BY <1>4, <2>1, <2>2 DEF Queue
<1>5. CASE Extract
  <2>1. /\ main = "check" /\ main' = "wait" /\ level' = level /\ workers[level] # <<>>
        /\ hand' = [hand EXCEPT ![level] = Head(workers[level])]
        /\ workers' = [workers EXCEPT ![level] = Tail(workers[level])]
        /\ UNCHANGED <<finishing, pushed, passed>>
    BY <1>5 DEF Extract, Extractable, Goto
  <2>2. /\ \A h \in 0 .. NumHandlers : Between(h) = 0
        /\ \A h \in 0 .. NumHandlers : Between(h)' = IF h = level THEN 1 ELSE 0
    BY <1>0, <2>1 DEF Between
  <2>3. /\ level \in 0 .. NumHandlers /\ level - 1 \in 0 .. NumHandlers
        /\ \A h \in 0 .. NumHandlers : out[h] \in 0 .. MaxBlocks
        /\ workers[level] \in Seq(Blocks) /\ pushed \in 0 .. MaxBlocks
    BY <1>0 DEF Outs, MainInv
  <2>4. /\ Len(Tail(workers[level])) = Len(workers[level]) - 1
        /\ Len(workers[level]) >= 1
        /\ Head(workers[level]) = out[level] + 1
        /\ \A i \in 1 .. Len(workers[level]) - 1 :
             Tail(workers[level])[i] = out[level] + 1 + i
    <3>1. \A i \in 1 .. Len(workers[level]) : workers[level][i] = out[level] + i
      BY <1>0 DEF Counts
    <3>2. out[level] \in Int
      BY <2>3
    <3> HIDE DEF Outs
    <3> QED
      BY <2>1, <2>3, <3>1, <3>2, TailOfRun, ZenonT(60)
  <2>5. out[level] + Len(workers[level]) = out[level - 1] /\ out[level - 1] <= pushed
    <3>1. out[level] + Len(workers[level]) + Between(level - 1) = out[level - 1]
      BY <1>0 DEF Counts
    <3>2. out[level - 1] <= pushed
      <4>1. CASE level = 1
        BY <2>3, <4>1 DEF Counts
      <4>2. CASE level # 1
        <5>1. level - 1 \in Handlers
          BY <1>0, <4>2
        <5> QED
          BY <5>1 DEF Counts
      <4> QED
        BY <4>1, <4>2
    <3> QED
      BY <2>2, <2>3, <3>1, <3>2
  <2>6. PICK next \in Outs :
          /\ next[level] = out[level] + 1 /\ next[level] <= pushed
          /\ \A h \in 0 .. NumHandlers : h # level => next[h] = out[h]
    <3>1. out[level] + 1 \in 0 .. MaxBlocks /\ out[level] + 1 <= pushed
      BY <1>0, <2>3, <2>4, <2>5
    <3>2. [out EXCEPT ![level] = @ + 1] \in Outs
      BY <2>3, <3>1 DEF Outs
    <3> QED
      BY <2>3, <3>1, <3>2 DEF Outs
  <2>7. /\ workers'[level] = Tail(workers[level]) /\ hand'[level] = next[level]
        /\ \A h \in Handlers \ {level} : workers'[h] = workers[h]
    BY <1>0, <2>1, <2>4, <2>6 DEF MainInv
  <2>8. \A h \in Handlers : next[h] + Len(workers'[h]) + Between(h - 1)' = next[h - 1]
    <3>1. ASSUME NEW h \in Handlers
          PROVE  next[h] + Len(workers'[h]) + Between(h - 1)' = next[h - 1]
      <4>1. /\ h \in 0 .. NumHandlers /\ h - 1 \in 0 .. NumHandlers
            /\ out[h] + Len(workers[h]) + Between(h - 1) = out[h - 1]
            /\ Len(workers[h]) \in Nat
        BY <1>0 DEF Counts, MainInv
      <4>2. CASE h = level
        <5>1. next[h] = out[level] + 1 /\ next[h - 1] = out[level - 1]
          BY <1>0, <2>6, <4>1, <4>2
        <5>2. Len(workers'[h]) = Len(workers[level]) - 1
          BY <2>4, <2>7, <4>2
        <5>3. Between(h - 1)' = 0
          BY <1>0, <2>2, <4>1, <4>2
        <5>4. out[level] \in Int /\ Len(workers[level]) \in Int /\ out[level - 1] \in Int
          BY <2>3, <4>1, <4>2
        <5> QED
          BY <2>5, <5>1, <5>2, <5>3, <5>4
      <4>3. CASE h - 1 = level
        BY <1>0, <2>2, <2>3, <2>6, <2>7, <4>1, <4>3
      <4>4. CASE h # level /\ h - 1 # level
        BY <2>2, <2>6, <2>7, <4>1, <4>4
      <4> QED
        BY <4>2, <4>3, <4>4
    <3> QED
      BY <3>1
  <2>9. \A h \in Handlers : \A i \in 1 .. Len(workers'[h]) : workers'[h][i] = next[h] + i
    <3>1. \A h \in Handlers \ {level} : next[h] = out[h]
      BY <1>0, <2>6
    <3>2. \A h \in Handlers \ {level} : \A i \in 1 .. Len(workers'[h]) :
            workers'[h][i] = next[h] + i
      BY <2>7, <3>1 DEF Counts
    <3> QED
      BY <2>4, <2>6, <2>7, <3>2
  <2>10. Counts(next)'
    <3>1. \A h \in Handlers : next[h] <= pushed
      BY <1>0, <2>6 DEF Counts
    <3>2. next[0] = pushed
      BY <1>0, <2>6 DEF Counts
    <3>3. \A h \in Handlers : Between(h)' = 1 => hand'[h] = next[h]
      BY <1>0, <2>2, <2>7
    <3>4. \A h \in Handlers : finishing' > h \/ main' \in Idle => next[h] = pushed
      <4>1. \A h \in Handlers : finishing > h => out[h] = pushed
        BY DEF Counts
      <4>2. ~(finishing > level)
        BY <1>0, <2>4, <2>5, <2>3, <4>1
      <4> QED
        BY <1>0, <2>1, <2>6, <4>1, <4>2 DEF Idle
    <3>5. Len(passed) + Between(NumHandlers)' = next[NumHandlers]
      <4>1. Len(passed) + Between(NumHandlers) = out[NumHandlers] /\ Len(passed) \in Nat
        BY DEF Counts, MainInv
      <4> QED
        BY <1>0, <2>2, <2>6, <4>1
    <3> QED
      BY <2>1, <2>8, <2>9, <3>1, <3>2, <3>3, <3>4, <3>5 DEF Counts
  <2> QED
    BY <2>1, <2>6, <2>10 DEF Stream!streamVars
<1>6. CASE Wait
  <2>1. Still
    BY <1>0, <1>6 DEF Wait, Between, Still, Goto
  <2>2. Counts(out)'
    BY <1>6, <2>1, SameCounts DEF Wait, Still, Goto, Idle
  <2> QED
    BY <1>6, <2>2 DEF Wait, Stream!streamVars
<1>7. CASE PassOn
  <2>1. main = "pass" /\ UNCHANGED <<finishing, workers, hand, pushed>>
    BY <1>7 DEF PassOn
  <2>2. Between(level) = 1 /\ hand[level] = out[level]
    BY <1>0, <2>1 DEF Between, Counts
  <2>3. CASE level # NumHandlers
    <3>1. main' = "queue" /\ level' = level + 1 /\ UNCHANGED passed
      BY <1>7, <2>3 DEF PassOn, Goto
    <3>2. Still
      BY <1>0, <2>1, <2>3, <3>1 DEF Between, Still
    <3>3. Counts(out)'
      BY <2>1, <3>1, <3>2, SameCounts DEF Still, Idle
    <3> QED
      BY <2>1, <3>1, <3>3 DEF Stream!streamVars
  <2>4. CASE level = NumHandlers
    <3>1. /\ main' = "delete" /\ level' = level
          /\ passed' = Append(passed, hand[level]) /\ passed \in Seq(Blocks)
      BY <1>7, <2>4 DEF PassOn, Goto, MainInv
    <3>2. /\ \A h \in 0 .. NumHandlers : h # level => Between(h) = 0
          /\ \A h \in 0 .. NumHandlers : Between(h)' = 0
      BY <1>0, <2>1, <2>4, <3>1 DEF Between
    <3>3. /\ Len(passed) + 1 = out[level] /\ out[level] <= pushed
          /\ Len(passed') = Len(passed) + 1
          /\ passed' = Append(passed, Len(passed) + 1)
      BY <1>0, <2>2, <2>4, <3>1 DEF Counts
    <3>4. \A h \in Handlers : Between(h - 1)' = Between(h - 1) /\ Between(h)' = 0
      <4>1. \A h \in Handlers :
              h - 1 \in 0 .. NumHandlers /\ h - 1 # level /\ h \in 0 .. NumHandlers
        BY <1>0, <2>4
      <4> QED
        BY <3>2, <4>1
    <3>5. Counts(out)'
      <4>1. Len(passed') + Between(NumHandlers)' = out[NumHandlers]
        BY <1>0, <2>4, <3>1, <3>3, <3>4
      <4>2. \A h \in Handlers :
              finishing' > h \/ main' \in Idle => finishing > h \/ main \in Idle
        BY <2>1, <3>1 DEF Idle
      <4> QED
        BY <2>1, <3>4, <4>1, <4>2 DEF Counts
    <3>6. Len(passed) < pushed
      BY <1>0, <3>1, <3>3 DEF MainInv
    <3> QED
      BY <2>1, <3>3, <3>5, <3>6 DEF Stream!streamVars, Stream!StreamNext, Stream!Pass
  <2> QED
    BY <2>3, <2>4
<1>8. CASE DeleteWorker
  <2>1. Still /\ Between(level) = 0
    BY <1>0, <1>8 DEF DeleteWorker, Between, Still, Goto
  <2>2. \A h \in Handlers : Between(h) = 1 => hand'[h] = hand[h]
    BY <1>0, <1>8, <2>1 DEF DeleteWorker, MainInv
  <2>3. Counts(out)'
    BY <1>8, <2>1, <2>2, SameCounts DEF DeleteWorker, Still, Goto, Idle
  <2> QED
    BY <1>8, <2>3 DEF DeleteWorker, Stream!streamVars
<1>9. CASE ReturnFromPush
  <2>1. Still
    BY <1>0, <1>9 DEF ReturnFromPush, Between, Still, Goto
  <2>2. Counts(out)'
    BY <1>9, <2>1, SameCounts DEF ReturnFromPush, Still, Goto, Idle
  <2> QED
    BY <1>9, <2>2 DEF ReturnFromPush, Stream!streamVars
<1>10. CASE ReturnFromFinish
  <2>1. /\ main = "check" /\ finishing = level /\ workers[level] = <<>>
        /\ UNCHANGED <<workers, hand, pushed, passed>>
    BY <1>10 DEF ReturnFromFinish, Extractable
  <2>2. \/ main' = "check" /\ level' = level + 1 /\ finishing' = level + 1
        \/ main' = "decrease" /\ level = NumHandlers /\ level' = 1 /\ finishing' = 0
    BY <1>10 DEF ReturnFromFinish, Goto
  <2>3. Still
    BY <1>0, <2>1, <2>2 DEF Between, Still
  <2>4. out[level] = pushed
    <3>1. out[level] + Len(workers[level]) + Between(level - 1) = out[level - 1]
      BY <1>0 DEF Counts
    <3>2. Between(level - 1) = 0 /\ Len(workers[level]) = 0
      BY <2>1 DEF Between
    <3>3. out[level - 1] = pushed
      <4>1. CASE level = 1
        BY <4>1 DEF Counts
      <4>2. CASE level # 1
        <5>1. level - 1 \in Handlers /\ finishing > level - 1
          BY <1>0, <2>1, <4>2
        <5> QED
          BY <5>1 DEF Counts
      <4> QED
        BY <4>1, <4>2
    <3>4. out[level] \in Int /\ out[level - 1] \in Int
      BY <1>0 DEF Outs
    <3> QED
      BY <3>1, <3>2, <3>3, <3>4
  <2>5. \A h \in Handlers :
          finishing' > h \/ main' \in Idle =>
            finishing > h \/ main \in Idle \/ out[h] = pushed
    BY <1>0, <2>1, <2>2, <2>4 DEF Idle
  <2>6. Counts(out)'
    BY <2>1, <2>3, <2>5, SameCounts DEF Still
  <2> QED
    BY <2>1, <2>6 DEF Stream!streamVars
<1>11. ASSUME NextHandler, main \in {"decrease", "join"}
       PROVE  /\ \E next \in Outs : Counts(next)'
              /\ [Stream!StreamNext]_(Stream!streamVars)
  <2>1. CASE UNCHANGED <<pushed, passed, step>>
    <3>1. main' \in Idle /\ UNCHANGED <<workers, hand, finishing>>
      BY <1>11, <2>1 DEF NextHandler, Goto, Idle
    <3>2. Still
      BY <1>11, <3>1 DEF Between, Still, Idle
    <3>3. Counts(out)'
      BY <1>11, <2>1, <3>1, <3>2, SameCounts DEF Still, Idle
    <3> QED
      BY <2>1, <3>3 DEF Stream!streamVars
  <2>2. CASE main' = "construct" /\ pushed' = 0 /\ passed' = <<>>
    <3> DEFINE zero == [h \in 0 .. NumHandlers |-> 0]
    <3>1. UNCHANGED <<workers, hand, finishing>>
      BY <1>11 DEF NextHandler
    <3>2. /\ \A h \in 0 .. NumHandlers : Between(h) = 0 /\ Between(h)' = 0
          /\ main \in Idle
      BY <1>11, <2>2 DEF Between, Idle
    <3>3. \A h \in Handlers :
            /\ h \in 0 .. NumHandlers /\ h - 1 \in 0 .. NumHandlers
            /\ zero[h] = 0 /\ zero[h - 1] = 0
      BY <1>0
    <3>4. \A h \in Handlers : out[h] = pushed /\ out[h - 1] = pushed
      <4>1. \A h \in Handlers : out[h] = pushed
        BY <3>2 DEF Counts
      <4>2. out[0] = pushed /\ \A h \in Handlers : h = 1 \/ h - 1 \in Handlers
        BY <1>0 DEF Counts
      <4> QED
        BY <4>1, <4>2
    <3>5. \A h \in Handlers : Len(workers[h]) = 0
      <4>1. ASSUME NEW h \in Handlers PROVE Len(workers[h]) = 0
        <5>1. /\ out[h] + Len(workers[h]) + Between(h - 1) = out[h - 1]
              /\ Len(workers[h]) \in Nat /\ pushed \in Nat
          BY <1>0 DEF Counts, MainInv
        <5> QED
          BY <3>2, <3>3, <3>4, <5>1
      <4> QED
        BY <4>1
    <3>6. Len(passed) = pushed
      <4>1. /\ Len(passed) + Between(NumHandlers) = out[NumHandlers]
            /\ Len(passed) \in Nat
        BY DEF Counts, MainInv
      <4>2. NumHandlers \in 0 .. NumHandlers
        BY <1>0
      <4> QED
        BY <1>0, <3>2, <3>4, <4>1, <4>2
    <3>7. zero \in Outs /\ zero[0] = 0 /\ zero[NumHandlers] = 0
      BY <1>0 DEF Outs
    <3>8. Counts(zero)'
      <4>1. Len(passed') + Between(NumHandlers)' = zero[NumHandlers]
        BY <1>0, <2>2, <3>2, <3>7
      <4>2. \A h \in Handlers : zero[h] + Len(workers'[h]) + Between(h - 1)' = zero[h - 1]
        BY <3>1, <3>2, <3>3, <3>5
      <4>3. \A h \in Handlers : \A i \in 1 .. Len(workers'[h]) : workers'[h][i] = zero[h] + i
        BY <3>1, <3>5
      <4>4. \A h \in Handlers : Between(h)' # 1 /\ zero[h] <= 0
        BY <3>2, <3>3
      <4> HIDE DEF zero
      <4> QED
        BY <2>2, <3>3, <3>7, <4>1, <4>2, <4>3, <4>4 DEF Counts
    <3> QED
      BY <2>2, <3>6, <3>7, <3>8 DEF Stream!streamVars, Stream!StreamNext, Stream!NewStep
  <2> QED
    BY <1>11, <2>1, <2>2 DEF NextHandler, Goto
<1>12. CASE Decrease
  <2>1. CASE NextHandler
    BY <1>11, <1>12, <2>1 DEF Decrease
  <2>2. CASE ~NextHandler
    <3>1. /\ main = "decrease" /\ main' = "broadcast"
          /\ UNCHANGED <<finishing, workers, hand, pushed, passed>>
      BY <1>12, <2>2 DEF Decrease, Goto
    <3>2. Still
      BY <3>1 DEF Between, Still
    <3>3. Counts(out)'
      BY <3>1, <3>2, SameCounts DEF Still, Idle
    <3> QED
      BY <3>1, <3>3 DEF Stream!streamVars
  <2> QED
    BY <2>1, <2>2
<1>13. CASE TellWorkers
  <2>1. Still
    BY <1>0, <1>13 DEF TellWorkers, Between, Still, Goto
  <2>2. Counts(out)'
    BY <1>13, <2>1, SameCounts DEF TellWorkers, Still, Goto, Idle
  <2> QED
    BY <1>13, <2>2 DEF TellWorkers, Stream!streamVars
<1>14. CASE Join
  BY <1>11, <1>14 DEF Join
<1> QED
  BY <1>1, <1>2, <1>3, <1>4, <1>5, <1>6, <1>7, <1>8, <1>9, <1>10, <1>12, <1>13, <1>14
  DEF Main

-----------------------------------------------------------------------------
(* The invariants, and the refinement.                                     *)

PipeInv == PoolInv /\ MainInv /\ \E out \in Outs : Counts(out)

LEMMA PipeInit == Init => PipeInv /\ Stream!StreamInit
<1> SUFFICES ASSUME Init PROVE PipeInv /\ Stream!StreamInit
  OBVIOUS
<1> DEFINE zero == [h \in 0 .. NumHandlers |-> 0]
<1>1. /\ NumHandlers \in Nat \ {0} /\ MaxBlocks \in Nat /\ MaxSteps \in Nat \ {0}
      /\ <<>> \in Seq(Blocks)
  BY PoolAssumption, StepAssumption
<1>2. PoolInv
  <2>1. TypeOK
    BY InitTypeOK
  <2>2. \A t \in Threads : thread[t] = "none"
    BY DEF Init, PoolInit
  <2> QED
    BY <2>1, <2>2 DEF TypeOK, PoolInv
<1>3. MainInv
  BY <1>1 DEF Init, MainInv, FinishOnce, Idle, Handlers
<1>4. zero \in Outs
  BY <1>1 DEF Outs
<1>5. Counts(zero)
  <2>1. /\ \A h \in 0 .. NumHandlers : Between(h) = 0 /\ zero[h] = 0
        /\ \A h \in Handlers : h \in 0 .. NumHandlers /\ h - 1 \in 0 .. NumHandlers
        /\ NumHandlers \in 0 .. NumHandlers /\ 0 \in 0 .. NumHandlers
    BY <1>1 DEF Init, Between, Handlers
  <2>2. pushed = 0 /\ passed = <<>> /\ \A h \in Handlers : workers[h] = <<>>
    BY DEF Init
  <2> HIDE DEF zero
  <2> QED
    BY <2>1, <2>2 DEF Counts
<1> QED
  BY <1>2, <1>3, <1>4, <1>5 DEF PipeInv, Init, Stream!StreamInit

LEMMA PipeStep ==
  PipeInv /\ [Next]_vars => PipeInv' /\ [Stream!StreamNext]_(Stream!streamVars)
<1> SUFFICES ASSUME PipeInv, [Next]_vars
             PROVE  PipeInv' /\ [Stream!StreamNext]_(Stream!streamVars)
  OBVIOUS
<1>1. PICK out \in Outs : Counts(out)
  BY DEF PipeInv
<1>2. CASE Main
  <2>1. /\ MainInv'
        /\ \E next \in Outs : Counts(next)'
        /\ [Stream!StreamNext]_(Stream!streamVars)
    BY <1>1, <1>2, MainPlaces, MainCounts DEF PipeInv
  <2>2. (\E next \in Outs : Counts(next))'
    BY <2>1 DEF Outs
  <2>3. PoolInv'
    BY <1>2, MainPool DEF PipeInv
  <2> QED
    BY <2>1, <2>2, <2>3 DEF PipeInv
<1>3. CASE UNCHANGED mainVars
  <2>1. MainInv'
    BY <1>3 DEF PipeInv, MainInv, mainVars, FinishOnce, Incoming
  <2>2. Counts(out)'
    BY <1>1, <1>3 DEF Counts, Between, mainVars
  <2>3. [Stream!StreamNext]_(Stream!streamVars)
    BY <1>3 DEF Stream!streamVars, mainVars
  <2>4. ASSUME PoolInv' PROVE PipeInv' /\ [Stream!StreamNext]_(Stream!streamVars)
    BY <1>1, <2>1, <2>2, <2>3, <2>4 DEF PipeInv, Outs
  <2>5. CASE WorkerStep
    BY <2>4, <2>5, WorkerTypes DEF WorkerStep, PipeInv
  <2>6. CASE SpuriousWakeUp
    <3>1. PoolInv'
      BY <2>6 DEF SpuriousWakeUp, WakeUp, PipeInv, PoolInv, PoolTypeOK
    <3> QED
      BY <2>4, <3>1
  <2>7. CASE UNCHANGED vars
    <3>1. PoolInv'
      BY <2>7 DEF vars, poolVars, PipeInv, PoolInv, PoolTypeOK
    <3> QED
      BY <2>4, <3>1
  <2>8. CASE Main
    BY <1>2, <2>8
  <2> QED
    BY <2>5, <2>6, <2>7, <2>8 DEF Next
<1> QED
  BY <1>2, <1>3 DEF Next, WorkerStep, SpuriousWakeUp, vars

\* Every variable of the pipeline and its pools keeps its type.
THEOREM PipelineTypes == Spec => []TypeOK
<1>1. PipeInv => TypeOK
  BY Parts DEF PipeInv
<1> QED
  BY <1>1, PipeInit, PipeStep, PTL DEF Spec

\* Blocks leave every handler in the order in which they came to it.
THEOREM PipelineCorrect == Spec => []PipelineInv
<1>1. PipeInv => PipelineInv
  BY Parts DEF PipeInv, PipelineInv, Outs
<1> QED
  BY <1>1, PipeInit, PipeStep, PTL DEF Spec

\* However the worker threads run, extractWorker passes the blocks of a step on
\* in their order, each once, and all of them before the next step.
THEOREM PipelineIsAStream == Spec => ImplementsStream
<1> QED
  BY PipeInit, PipeStep, PTL DEF Spec, ImplementsStream, Stream!StreamSpec

-----------------------------------------------------------------------------
(* Jobs.  A job exists as long as its block is with the handler, and until  *)
(* it is handled it is in the pool's queue or with one of its threads.      *)

Runs(t) == thread[t] \in {"run", "finish"}

Queued(j) == \E i \in 1 .. Len(queue[PoolOf(j[1])]) : queue[PoolOf(j[1])][i] = j

\* The jobs whose block is with the handler, or has been extracted and is in the
\* main thread's hands.
Present ==
  { j \in Jobs : \/ j[2] = hand[j[1]]
                 \/ \E i \in 1 .. Len(workers[j[1]]) : workers[j[1]][i] = j[2] }

\* What the main thread has in hand has finished, unless it is still waiting for it,
\* and is out of the hands before finish goes on and before the step ends.
Hands ==
  \A h \in Handlers :
    hand[h] # 0 =>
      /\ finishing <= h /\ main \notin Idle \cup {"read"}
      /\ h < level \/ (h = level /\ main \in {"wait", "pass", "delete"})
      /\ <<h, hand[h]>> \in finished \/ (h = level /\ main = "wait")

Lives == finished \subseteq handled /\ handled \subseteq alive

\* A job that exists has its block at the handler, or extracted from there.
AtHandler == alive \subseteq Present

\* A queued job is queued once, in its handler's pool, and is yet to be handled.
InQueue ==
  /\ \A p \in Pools : \A i \in 1 .. Len(queue[p]) :
       queue[p][i] \in alive /\ queue[p][i] \notin handled /\ PoolOf(queue[p][i][1]) = p
  /\ \A p \in Pools : \A i, k \in 1 .. Len(queue[p]) : queue[p][i] = queue[p][k] => i = k

\* A job that a thread of its pool has is not queued, and no other thread has it.
InThread ==
  /\ \A t \in Threads : Runs(t) =>
       /\ job[t] \in alive /\ job[t] \notin finished /\ PoolOf(job[t][1]) = t[1]
       /\ job[t] \in handled <=> thread[t] = "finish"
       /\ ~Queued(job[t])
  /\ \A t, u \in Threads : Runs(t) /\ Runs(u) /\ job[t] = job[u] => t = u

\* No job is forgotten.
Somewhere ==
  \A j \in alive : j \in handled \/ Queued(j) \/ \E t \in Threads : Runs(t) /\ job[t] = j

\* A single worker's blocks are queued and handled in their order.
Ascending ==
  \A p \in SingleWorker : \A i \in 1 .. Len(queue[p]) :
    /\ \A k \in 1 .. (i - 1) : queue[p][k][2] < queue[p][i][2]
    /\ \A t \in Threads : Runs(t) /\ t[1] = p => job[t][2] < queue[p][i][2]

PoolJobs == Lives /\ InQueue /\ InThread /\ Somewhere /\ Ascending

JobsIInv == Hands /\ AtHandler /\ PoolJobs

\* Waking threads neither gives any a job nor takes it away.
LEMMA WakingRuns ==
  ASSUME PoolTypeOK, NEW pool \in Pools,
         NEW s \in Signalled(pool, thread) \cup {Broadcast(pool, thread)}
  PROVE  \A t \in Threads :
           s[t] \in {"run", "finish"} \/ Runs(t) => s[t] = thread[t]
<1>1. \A t \in Threads : t \in ThreadsOf(pool) <=> t[1] = pool
  BY DEF ThreadsOf
<1>2. CASE s \in Signalled(pool, thread)
  <2>1. s = thread \/ \E t \in Threads : thread[t] = "wait" /\ s = [thread EXCEPT ![t] = "lock"]
    BY <1>1, <1>2 DEF Signalled, ThreadsOf
  <2> QED
    BY <2>1 DEF PoolTypeOK, Runs
<1> QED
  BY <1>2 DEF Broadcast, PoolTypeOK, Runs

\* Steps that leave the jobs where they are.
LEMMA SameJobs ==
  ASSUME PoolJobs, UNCHANGED <<queue, job, alive, handled, finished>>,
         \A t \in Threads : thread'[t] \in {"run", "finish"} \/ Runs(t) => thread'[t] = thread[t]
  PROVE  PoolJobs'
<1>1. \A t \in Threads : Runs(t)' <=> Runs(t)
  BY DEF Runs
<1>2. Lives' /\ InQueue'
  BY DEF PoolJobs, Lives, InQueue
<1>3. InThread'
  BY <1>1 DEF PoolJobs, InThread, Queued, Runs
<1>4. Somewhere'
  BY <1>1 DEF PoolJobs, Somewhere, Queued
<1>5. Ascending'
  BY <1>1 DEF PoolJobs, Ascending
<1> QED
  BY <1>2, <1>3, <1>4, <1>5 DEF PoolJobs


\* A sequence without its first element.
LEMMA TailOf ==
  ASSUME NEW Q, NEW q \in Seq(Q), q # <<>>
  PROVE  /\ Len(q) \in Nat /\ 1 \in 1 .. Len(q) /\ q[1] \in Q
         /\ Len(Tail(q)) = Len(q) - 1
         /\ \A i \in 1 .. Len(Tail(q)) : i + 1 \in 1 .. Len(q) /\ Tail(q)[i] = q[i + 1]
OBVIOUS

\* A job that a thread takes leaves the queue.
LEMMA TakingAJob ==
  ASSUME PoolInv, PoolJobs, NEW t \in Threads, WorkerTakesJob(t)
  PROVE  PoolJobs'
<1> DEFINE pool == t[1]
           x == queue[pool][1]
           Waiting(j) == \E i \in 1 .. Len(queue'[PoolOf(j[1])]) : queue'[PoolOf(j[1])][i] = j
<1>0. pool \in Pools
  BY DEF Threads
<1>1. /\ queue[pool] \in Seq(Jobs) /\ queue[pool] # <<>>
      /\ thread[t] = "lock" /\ thread' = [thread EXCEPT ![t] = "run"]
      /\ job' = [job EXCEPT ![t] = x]
      /\ queue' = [queue EXCEPT ![pool] = Tail(queue[pool])]
      /\ UNCHANGED <<alive, handled, finished>>
  BY <1>0 DEF WorkerTakesJob, PoolInv, PoolTypeOK
<1>2. /\ 1 \in 1 .. Len(queue[pool]) /\ x \in Jobs
      /\ Len(queue'[pool]) = Len(queue[pool]) - 1 /\ Len(queue[pool]) \in Nat
      /\ \A i \in 1 .. Len(queue'[pool]) :
           i + 1 \in 1 .. Len(queue[pool]) /\ queue'[pool][i] = queue[pool][i + 1]
  <2>1. queue'[pool] = Tail(queue[pool])
    BY <1>0, <1>1 DEF PoolInv, PoolTypeOK
  <2> QED
    BY <1>1, <2>1, TailOf, ZenonT(60)
<1>3. \A p \in Pools : p # pool => queue'[p] = queue[p]
  BY <1>1 DEF PoolInv, PoolTypeOK
<1>4. \A p \in Pools : \A i \in 1 .. Len(queue'[p]) :
        \E k \in 1 .. Len(queue[p]) :
          /\ queue'[p][i] = queue[p][k]
          /\ p = pool => k = i + 1
          /\ p # pool => k = i
  BY <1>2, <1>3
<1>5. \A u \in Threads : /\ u # t => job'[u] = job[u] /\ thread'[u] = thread[u]
                         /\ u # t => (Runs(u)' <=> Runs(u))
  BY <1>1 DEF PoolInv, PoolTypeOK, Runs
<1>6. Runs(t)' /\ ~Runs(t) /\ job'[t] = x /\ thread'[t] = "run"
  BY <1>1 DEF PoolInv, PoolTypeOK, Runs
<1>7. \A h \in Handlers : PoolOf(h) \in Pools
  BY DEF PoolOf, Pools
<1>8. \A j \in Jobs : Waiting(j) => Queued(j) /\ j # x
  <2> SUFFICES ASSUME NEW j \in Jobs, Waiting(j) PROVE Queued(j) /\ j # x
    OBVIOUS
  <2>1. PoolOf(j[1]) \in Pools
    BY <1>7 DEF Jobs
  <2>2. PICK i \in 1 .. Len(queue'[PoolOf(j[1])]) : queue'[PoolOf(j[1])][i] = j
    OBVIOUS
  <2>3. Queued(j)
    <3>1. PICK k \in 1 .. Len(queue[PoolOf(j[1])]) : queue[PoolOf(j[1])][k] = j
      BY <1>4, <2>1, <2>2
    <3> QED
      BY <3>1 DEF Queued
  <2>4. ASSUME j = x PROVE FALSE
    <3>1. PoolOf(j[1]) = pool
      BY <1>0, <1>2, <2>4 DEF PoolJobs, InQueue
    <3>2. i + 1 \in 1 .. Len(queue[pool]) /\ queue[pool][i + 1] = queue[pool][1] /\ i \in Nat
      BY <1>2, <2>2, <2>4, <3>1
    <3>3. i + 1 = 1
      BY <1>0, <1>2, <3>2 DEF PoolJobs, InQueue
    <3> QED
      BY <3>2, <3>3
  <2> QED
    BY <2>3, <2>4
<1>9. \A j \in Jobs : Queued(j) => Waiting(j) \/ j = x
  <2> SUFFICES ASSUME NEW j \in Jobs, Queued(j), j # x PROVE Waiting(j)
    OBVIOUS
  <2>1. PoolOf(j[1]) \in Pools
    BY <1>7 DEF Jobs
  <2>2. PICK i \in 1 .. Len(queue[PoolOf(j[1])]) : queue[PoolOf(j[1])][i] = j
    BY DEF Queued
  <2>3. CASE PoolOf(j[1]) = pool
    <3>1. i # 1 /\ i - 1 \in 1 .. Len(queue'[pool]) /\ (i - 1) + 1 = i
      BY <1>2, <2>2, <2>3
    <3>2. queue'[pool][i - 1] = j
      BY <1>2, <2>2, <2>3, <3>1
    <3> QED
      BY <2>3, <3>1, <3>2
  <2>4. CASE PoolOf(j[1]) # pool
    BY <1>3, <2>1, <2>2, <2>4
  <2> QED
    BY <2>3, <2>4
<1> HIDE DEF Waiting
<1>10. /\ x \in alive /\ x \notin handled /\ x \notin finished /\ PoolOf(x[1]) = pool
       /\ Queued(x)
  BY <1>0, <1>2 DEF PoolJobs, InQueue, Lives, Queued
<1>11. Lives'
  BY <1>1 DEF PoolJobs, Lives
<1>12. InQueue'
  <2>1. \A p \in Pools : \A i \in 1 .. Len(queue'[p]) :
          queue'[p][i] \in alive /\ queue'[p][i] \notin handled /\ PoolOf(queue'[p][i][1]) = p
    <3> TAKE p \in Pools
    <3> TAKE i \in 1 .. Len(queue'[p])
    <3>1. PICK k \in 1 .. Len(queue[p]) : queue'[p][i] = queue[p][k]
      BY <1>4
    <3>2. /\ queue[p][k] \in alive /\ queue[p][k] \notin handled
          /\ PoolOf(queue[p][k][1]) = p
      BY <3>1 DEF PoolJobs, InQueue
    <3> QED
      BY <3>1, <3>2
  <2>2. ASSUME NEW p \in Pools, NEW i \in 1 .. Len(queue'[p]), NEW k \in 1 .. Len(queue'[p]),
               queue'[p][i] = queue'[p][k]
        PROVE  i = k
    <3>1. CASE p = pool
      <4>1. /\ i + 1 \in 1 .. Len(queue[pool]) /\ k + 1 \in 1 .. Len(queue[pool])
            /\ queue[pool][i + 1] = queue[pool][k + 1]
        BY <1>2, <2>2, <3>1
      <4>2. i + 1 = k + 1
        BY <1>0, <4>1 DEF PoolJobs, InQueue
      <4> QED
        BY <4>2
    <3>2. CASE p # pool
      BY <1>3, <2>2, <3>2 DEF PoolJobs, InQueue
    <3> QED
      BY <3>1, <3>2
  <2>3. \A p \in Pools : \A i, k \in 1 .. Len(queue'[p]) : queue'[p][i] = queue'[p][k] => i = k
    BY <2>2
  <2>4. UNCHANGED <<alive, handled>>
    BY <1>1
  <2> QED
    BY <2>1, <2>3, <2>4, Zenon DEF InQueue
<1>13. InThread'
  <2>1. \A u \in Threads : Runs(u) => job[u] \in Jobs /\ job[u] # x
    BY <1>10 DEF PoolInv, PoolJobs, InThread, Runs
  <2>2. ASSUME NEW u \in Threads, Runs(u)'
        PROVE  /\ job'[u] \in alive /\ job'[u] \notin finished /\ PoolOf(job'[u][1]) = u[1]
               /\ job'[u] \in handled <=> thread'[u] = "finish"
               /\ ~Waiting(job'[u])
    <3>1. CASE u = t
      BY <1>2, <1>6, <1>8, <1>10, <3>1, Zenon
    <3>2. CASE u # t
      <4>1. Runs(u) /\ job'[u] = job[u] /\ thread'[u] = thread[u] /\ ~Queued(job[u])
        BY <1>5, <2>2, <3>2 DEF PoolJobs, InThread
      <4> QED
        BY <1>8, <2>1, <4>1 DEF PoolJobs, InThread
    <3> QED
      BY <3>1, <3>2
  <2>3. ASSUME NEW u \in Threads, NEW v \in Threads, Runs(u)', Runs(v)', job'[u] = job'[v]
        PROVE  u = v
    <3>1. CASE u # t /\ v # t
      BY <1>5, <2>3, <3>1 DEF PoolJobs, InThread
    <3>2. CASE u = t /\ v # t
      BY <1>5, <1>6, <2>1, <2>3, <3>2
    <3>3. CASE u # t /\ v = t
      BY <1>5, <1>6, <2>1, <2>3, <3>3
    <3> QED
      BY <3>1, <3>2, <3>3
  <2>4. \A u \in Threads : Runs(u)' =>
          /\ job'[u] \in alive /\ job'[u] \notin finished /\ PoolOf(job'[u][1]) = u[1]
          /\ job'[u] \in handled <=> thread'[u] = "finish"
          /\ ~Queued(job[u])'
    BY <2>2 DEF Waiting, Queued
  <2>5. \A u, v \in Threads : Runs(u)' /\ Runs(v)' /\ job'[u] = job'[v] => u = v
    BY <2>3
  <2> QED
    BY <1>1, <2>4, <2>5 DEF InThread
<1>14. Somewhere'
  <2> SUFFICES ASSUME NEW j \in alive
               PROVE  j \in handled \/ Waiting(j) \/ \E u \in Threads : Runs(u)' /\ job'[u] = j
    BY <1>1 DEF Somewhere, Waiting, Queued
  <2>1. j \in Jobs
    BY DEF PoolInv, PoolTypeOK
  <2>2. CASE j = x
    BY <1>6, <2>2
  <2>3. CASE \E u \in Threads : Runs(u) /\ job[u] = j
    BY <1>5, <1>6, <2>3
  <2> QED
    BY <1>9, <2>1, <2>2, <2>3 DEF PoolJobs, Somewhere
<1>15. Ascending'
  <2> SUFFICES ASSUME NEW p \in SingleWorker, NEW i \in 1 .. Len(queue'[p])
               PROVE  /\ \A k \in 1 .. (i - 1) : queue'[p][k][2] < queue'[p][i][2]
                      /\ \A u \in Threads : Runs(u)' /\ u[1] = p => job'[u][2] < queue'[p][i][2]
    BY DEF Ascending
  <2>1. p \in Pools
    BY DEF Pools
  <2>2. CASE p = pool
    <3>1. i + 1 \in 1 .. Len(queue[p]) /\ queue'[p][i] = queue[p][i + 1]
      BY <1>2, <2>2
    <3>2. \A k \in 1 .. (i - 1) : /\ k \in 1 .. Len(queue'[p]) /\ k + 1 \in 1 .. ((i + 1) - 1)
                                 /\ queue'[p][k] = queue[p][k + 1]
      BY <1>2, <2>2, <3>1
    <3>3. \A k \in 1 .. (i - 1) : queue'[p][k][2] < queue'[p][i][2]
      BY <3>1, <3>2 DEF PoolJobs, Ascending
    <3>4. 1 \in 1 .. ((i + 1) - 1)
      OBVIOUS
    <3>5. x[2] < queue'[p][i][2]
      BY <2>2, <3>1, <3>4 DEF PoolJobs, Ascending
    <3>6. \A u \in Threads : Runs(u) /\ u[1] = p => job[u][2] < queue'[p][i][2]
      BY <3>1 DEF PoolJobs, Ascending
    <3> QED
      BY <1>5, <1>6, <3>3, <3>5, <3>6
  <2>3. CASE p # pool
    BY <1>3, <1>5, <2>1, <2>3 DEF PoolJobs, Ascending
  <2> QED
    BY <2>2, <2>3
<1> QED
  BY <1>11, <1>12, <1>13, <1>14, <1>15 DEF PoolJobs

\* What a worker does leaves every job where a worker or the main thread finds it.
LEMMA WorkerJobs ==
  ASSUME PoolInv, PoolJobs, NEW t \in Threads, Worker(t)
  PROVE  PoolJobs'
<1>1. CASE WorkerDies(t) \/ WorkerWaits(t)
  BY <1>1, SameJobs DEF WorkerDies, WorkerWaits, PoolInv, PoolTypeOK, Runs
<1>2. CASE WorkerTakesJob(t)
  BY <1>2, TakingAJob
<1>3. CASE WorkerRuns(t)
  <2>1. /\ thread[t] = "run" /\ Runs(t) /\ handled' = handled \cup {job[t]}
        /\ UNCHANGED <<queue, job, alive, finished>>
        /\ thread' = [thread EXCEPT ![t] = "finish"]
    BY <1>3 DEF WorkerRuns, Runs
  <2>2. /\ \A u \in Threads : Runs(u)' <=> Runs(u)
        /\ \A u \in Threads : u # t => thread'[u] = thread[u]
        /\ thread'[t] = "finish"
    BY <2>1 DEF Runs, PoolInv, PoolTypeOK
  <2>3. /\ job[t] \in alive /\ job[t] \notin finished /\ PoolOf(job[t][1]) = t[1]
        /\ ~Queued(job[t]) /\ \A u \in Threads : u # t /\ Runs(u) => job[u] # job[t]
    BY <2>1 DEF PoolJobs, InThread
  <2>4. \A p \in Pools : \A i \in 1 .. Len(queue[p]) : queue[p][i] # job[t]
    BY <2>3 DEF PoolJobs, InQueue, Queued
  <2>5. Lives' /\ InQueue'
    BY <2>1, <2>3, <2>4 DEF PoolJobs, Lives, InQueue
  <2>6. InThread'
    BY <2>1, <2>2, <2>3 DEF PoolJobs, InThread, Queued
  <2>7. Somewhere' /\ Ascending'
    BY <2>1, <2>2 DEF PoolJobs, Somewhere, Ascending, Queued
  <2> QED
    BY <2>5, <2>6, <2>7 DEF PoolJobs
<1>4. CASE WorkerFinishes(t)
  <2>1. /\ thread[t] = "finish" /\ Runs(t) /\ finished' = finished \cup {job[t]}
        /\ UNCHANGED <<queue, alive, handled>>
        /\ job' = [job EXCEPT ![t] = NoJob]
        /\ thread' = [thread EXCEPT ![t] = "lock"]
    BY <1>4 DEF WorkerFinishes, Runs
  <2>2. /\ \A u \in Threads : Runs(u)' <=> Runs(u) /\ u # t
        /\ \A u \in Threads : u # t => thread'[u] = thread[u] /\ job'[u] = job[u]
    BY <2>1 DEF Runs, PoolInv, PoolTypeOK
  <2>3. /\ job[t] \in handled
        /\ \A u \in Threads : u # t /\ Runs(u) => job[u] # job[t]
    BY <2>1 DEF PoolJobs, InThread
  <2>4. Lives' /\ InQueue'
    BY <2>1, <2>3 DEF PoolJobs, Lives, InQueue
  <2>5. InThread'
    BY <2>1, <2>2, <2>3 DEF PoolJobs, InThread, Queued
  <2>6. Somewhere' /\ Ascending'
    BY <2>1, <2>2, <2>3 DEF PoolJobs, Somewhere, Ascending, Queued
  <2> QED
    BY <2>4, <2>5, <2>6 DEF PoolJobs
<1> QED
  BY <1>1, <1>2, <1>3, <1>4 DEF Worker


\* A new job goes to the end of its pool's queue.
LEMMA QueueingAJob ==
  ASSUME PoolInv, PoolJobs, NEW x \in Jobs, x \notin alive, QueueJob(x),
         \A j \in alive : j[1] = x[1] => j[2] < x[2]
  PROVE  PoolJobs'
<1> DEFINE pool == PoolOf(x[1])
           Waiting(j) == \E i \in 1 .. Len(queue'[PoolOf(j[1])]) : queue'[PoolOf(j[1])][i] = j
<1>1. /\ pool \in Pools /\ \A h \in Handlers : PoolOf(h) \in Pools
      /\ \A p \in SingleWorker, h \in Handlers : PoolOf(h) = p => h = p
  BY PoolAssumption DEF PoolOf, Pools, Jobs, Handlers, Global
<1>2. /\ queue' = [queue EXCEPT ![pool] = Append(queue[pool], x)]
      /\ alive' = alive \cup {x}
      /\ thread' \in Signalled(pool, thread)
      /\ UNCHANGED <<job, handled, finished>>
  BY <1>1 DEF QueueJob, PoolInv, PoolTypeOK
<1>3. \A t \in Threads : /\ thread'[t] \in {"run", "finish"} \/ Runs(t) => thread'[t] = thread[t]
                         /\ Runs(t)' <=> Runs(t)
  BY <1>1, <1>2, WakingRuns DEF PoolInv, Runs
<1>4. \A p \in Pools : p # pool => queue'[p] = queue[p]
  BY <1>2 DEF PoolInv, PoolTypeOK
<1>5. /\ Len(queue'[pool]) = Len(queue[pool]) + 1 /\ Len(queue[pool]) \in Nat
      /\ queue'[pool][Len(queue[pool]) + 1] = x
      /\ \A i \in 1 .. Len(queue[pool]) : queue'[pool][i] = queue[pool][i]
  <2>1. queue[pool] \in Seq(Jobs) /\ queue'[pool] = Append(queue[pool], x)
    BY <1>1, <1>2 DEF PoolInv, PoolTypeOK
  <2> QED
    BY <2>1
<1>6. \A p \in Pools : \A i \in 1 .. Len(queue'[p]) :
        \/ i \in 1 .. Len(queue[p]) /\ queue'[p][i] = queue[p][i]
        \/ p = pool /\ i = Len(queue[pool]) + 1 /\ queue'[p][i] = x
  BY <1>4, <1>5
<1>7. \A p \in Pools : \A i \in 1 .. Len(queue[p]) :
        i \in 1 .. Len(queue'[p]) /\ queue'[p][i] = queue[p][i]
  BY <1>4, <1>5
<1>8. Len(queue[pool]) + 1 \in 1 .. Len(queue'[pool])
  BY <1>5
<1>9. \A j \in Jobs : Waiting(j) <=> Queued(j) \/ j = x
  <2> SUFFICES ASSUME NEW j \in Jobs PROVE Waiting(j) <=> Queued(j) \/ j = x
    OBVIOUS
  <2>1. PoolOf(j[1]) \in Pools
    BY <1>1 DEF Jobs
  <2>2. ASSUME Waiting(j), j # x PROVE Queued(j)
    <3>1. PICK i \in 1 .. Len(queue'[PoolOf(j[1])]) : queue'[PoolOf(j[1])][i] = j
      BY <2>2
    <3>2. i \in 1 .. Len(queue[PoolOf(j[1])]) /\ queue[PoolOf(j[1])][i] = j
      BY <1>6, <2>1, <2>2, <3>1
    <3> QED
      BY <3>2 DEF Queued
  <2>3. ASSUME Queued(j) PROVE Waiting(j)
    <3>1. PICK i \in 1 .. Len(queue[PoolOf(j[1])]) : queue[PoolOf(j[1])][i] = j
      BY <2>3 DEF Queued
    <3> QED
      BY <1>7, <2>1, <3>1
  <2>4. ASSUME j = x PROVE Waiting(j)
    BY <1>5, <1>8, <2>4
  <2> QED
    BY <2>2, <2>3, <2>4
<1> HIDE DEF Waiting
<1>10. x \notin handled /\ x \notin finished
  BY DEF PoolJobs, Lives
<1>11. \A t \in Threads : Runs(t) => job[t] \in alive /\ job[t] \in Jobs /\ job[t] # x
  BY DEF PoolInv, PoolJobs, InThread, Runs
<1>12. Lives'
  BY <1>2 DEF PoolJobs, Lives
<1>13. InQueue'
  <2>1. \A p \in Pools : \A i \in 1 .. Len(queue'[p]) :
          queue'[p][i] \in alive' /\ queue'[p][i] \notin handled /\ PoolOf(queue'[p][i][1]) = p
    BY <1>2, <1>6, <1>10 DEF PoolJobs, InQueue
  <2>2. ASSUME NEW p \in Pools, NEW i \in 1 .. Len(queue'[p]), NEW k \in 1 .. Len(queue'[p]),
               queue'[p][i] = queue'[p][k]
        PROVE  i = k
    <3>1. \A n \in 1 .. Len(queue[p]) : queue[p][n] # x
      BY DEF PoolJobs, InQueue
    <3>2. CASE i \in 1 .. Len(queue[p]) /\ k \in 1 .. Len(queue[p])
      BY <1>7, <2>2, <3>2 DEF PoolJobs, InQueue
    <3> QED
      BY <1>6, <2>2, <3>1, <3>2
  <2>3. \A p \in Pools : \A i, k \in 1 .. Len(queue'[p]) : queue'[p][i] = queue'[p][k] => i = k
    BY <2>2
  <2>4. UNCHANGED handled
    BY <1>2
  <2> QED
    BY <2>1, <2>3, <2>4, Zenon DEF InQueue
<1>14. InThread'
  <2>1. \A t \in Threads : Runs(t)' =>
          /\ job'[t] \in alive' /\ job'[t] \notin finished' /\ PoolOf(job'[t][1]) = t[1]
          /\ job'[t] \in handled' <=> thread'[t] = "finish"
          /\ ~Waiting(job'[t])
    BY <1>2, <1>3, <1>9, <1>11 DEF PoolJobs, InThread
  <2>2. \A t, u \in Threads : Runs(t)' /\ Runs(u)' /\ job'[t] = job'[u] => t = u
    BY <1>2, <1>3 DEF PoolJobs, InThread
  <2> QED
    BY <2>1, <2>2 DEF InThread, Waiting, Queued
<1>15. Somewhere'
  <2> SUFFICES ASSUME NEW j \in alive'
               PROVE  j \in handled' \/ Waiting(j) \/ \E t \in Threads : Runs(t)' /\ job'[t] = j
    BY DEF Somewhere, Waiting, Queued
  <2>1. j \in Jobs /\ (j \in alive \/ j = x)
    BY <1>2 DEF PoolInv, PoolTypeOK
  <2> QED
    BY <1>2, <1>3, <1>9, <2>1 DEF PoolJobs, Somewhere
<1>16. Ascending'
  <2> SUFFICES ASSUME NEW p \in SingleWorker, NEW i \in 1 .. Len(queue'[p])
               PROVE  /\ \A k \in 1 .. (i - 1) : queue'[p][k][2] < queue'[p][i][2]
                      /\ \A t \in Threads : Runs(t)' /\ t[1] = p => job'[t][2] < queue'[p][i][2]
    BY DEF Ascending
  <2>1. p \in Pools
    BY DEF Pools
  <2>2. CASE i \in 1 .. Len(queue[p])
    <3>1. \A k \in 1 .. (i - 1) : k \in 1 .. Len(queue[p])
      BY <2>2
    <3> QED
      BY <1>2, <1>3, <1>7, <2>1, <2>2, <3>1 DEF PoolJobs, Ascending
  <2>3. CASE p = pool /\ i = Len(queue[pool]) + 1 /\ queue'[p][i] = x
    <3>1. x[1] \in Handlers /\ \A j \in alive : j[1] \in Handlers
      BY DEF Jobs, PoolInv, PoolTypeOK
    <3>2. \A j \in alive : PoolOf(j[1]) = p => j[2] < x[2]
      BY <1>1, <2>3, <3>1
    <3>3. \A k \in 1 .. (i - 1) : k \in 1 .. Len(queue[p])
      BY <1>5, <2>3
    <3>4. \A k \in 1 .. (i - 1) : queue'[p][k][2] < x[2]
      BY <1>7, <2>1, <3>2, <3>3 DEF PoolJobs, InQueue
    <3>5. \A t \in Threads : Runs(t) /\ t[1] = p => job[t][2] < x[2]
      BY <3>2 DEF PoolJobs, InThread
    <3> QED
      BY <1>2, <1>3, <2>3, <3>4, <3>5
  <2> QED
    BY <1>6, <2>1, <2>2, <2>3
<1> QED
  BY <1>12, <1>13, <1>14, <1>15, <1>16 DEF PoolJobs

\* A job that has finished is in no worker's hands any more, so that it can go.
LEMMA DeletingAJob ==
  ASSUME PoolInv, PoolJobs, NEW x, x \in finished \/ x \notin alive, DeleteJob(x)
  PROVE  PoolJobs'
<1>1. /\ alive' = alive \ {x} /\ handled' = handled \ {x} /\ finished' = finished \ {x}
      /\ UNCHANGED <<queue, thread, job>>
  BY DEF DeleteJob
<1>2. \A p \in Pools : \A i \in 1 .. Len(queue[p]) : queue[p][i] # x
  BY DEF PoolJobs, InQueue, Lives
<1>3. \A t \in Threads : Runs(t) => job[t] # x
  BY DEF PoolJobs, InThread
<1>4. Lives' /\ InQueue'
  BY <1>1, <1>2 DEF PoolJobs, Lives, InQueue
<1>5. InThread'
  BY <1>1, <1>3 DEF PoolJobs, InThread, Queued, Runs
<1>6. Somewhere' /\ Ascending'
  BY <1>1 DEF PoolJobs, Somewhere, Ascending, Queued, Runs
<1> QED
  BY <1>4, <1>5, <1>6 DEF PoolJobs

\* While no job exists, threads may be started.
LEMMA NoJobs ==
  ASSUME PoolInv, PoolJobs, alive = {}
  PROVE  /\ \A p \in Pools : queue[p] = <<>>
         /\ \A t \in Threads : ~Runs(t)
<1>1. ASSUME NEW p \in Pools PROVE queue[p] = <<>>
  <2>1. queue[p] \in Seq(Jobs) /\ \A i \in 1 .. Len(queue[p]) : FALSE
    BY DEF PoolInv, PoolTypeOK, PoolJobs, InQueue
  <2> QED
    BY <2>1
<1> QED
  BY <1>1 DEF PoolJobs, InThread

LEMMA StartingThreads ==
  ASSUME PoolInv, PoolJobs, alive = {}, NEW pool, ClientIncrease(pool)
  PROVE  PoolJobs'
<1>1. UNCHANGED <<queue, job, alive, handled, finished>>
  BY DEF ClientIncrease
<1>2. \A t \in Threads : thread'[t] \notin {"run", "finish"}
  BY NoJobs DEF ClientIncrease, Runs
<1> QED
  BY <1>1, <1>2, NoJobs, SameJobs

-----------------------------------------------------------------------------
(* The main thread's places and the jobs.                                  *)

\* When the pipeline is idle no handler has a block.
LEMMA IdleWorkers ==
  ASSUME MainInv, NEW out \in Outs, Counts(out), main \in Idle
  PROVE  \A h \in Handlers : workers[h] = <<>>
<1> SUFFICES ASSUME NEW h \in Handlers PROVE workers[h] = <<>>
  OBVIOUS
<1>1. /\ NumHandlers \in Nat /\ h \in Nat /\ 1 <= h
      /\ h \in 0 .. NumHandlers /\ h - 1 \in 0 .. NumHandlers
  BY PoolAssumption DEF Handlers
<1>2. out[h] = pushed /\ out[h - 1] = pushed
  <2>1. h = 1 \/ h - 1 \in Handlers
    BY <1>1 DEF Handlers
  <2>2. h = 1 => h - 1 = 0
    OBVIOUS
  <2> QED
    BY <2>1, <2>2 DEF Counts
<1>3. /\ out[h] + Len(workers[h]) + Between(h - 1) = out[h - 1]
      /\ Between(h - 1) = 0 /\ pushed \in Nat /\ workers[h] \in Seq(Blocks)
  BY DEF Counts, Between, Idle, MainInv
<1> QED
  BY <1>2, <1>3

\* Then no job exists.
LEMMA IdleJobs ==
  ASSUME PipeInv, JobsIInv, main \in Idle
  PROVE  alive = {} /\ \A h \in Handlers : hand[h] = 0
<1>1. \A h \in Handlers : hand[h] = 0
  BY DEF JobsIInv, Hands
<1>2. \A h \in Handlers : workers[h] = <<>>
  BY IdleWorkers DEF PipeInv
<1>3. \A j \in Jobs : j[1] \in Handlers /\ j[2] # 0
  BY DEF Jobs, Blocks
<1>4. Present = {}
  BY <1>1, <1>2, <1>3 DEF Present
<1> QED
  BY <1>1, <1>4 DEF JobsIInv, AtHandler

\* The block that is being pushed comes after all that the handler has.
LEMMA IncomingIsNew ==
  ASSUME PipeInv, JobsIInv, main = "queue"
  PROVE  /\ <<level, Incoming>> \in Jobs /\ <<level, Incoming>> \notin alive
         /\ \A j \in alive : j[1] = level => j[2] < Incoming
<1>1. PICK out \in Outs : Counts(out)
  BY DEF PipeInv
<1>2. /\ level \in Handlers /\ level \in Nat /\ 1 <= level /\ NumHandlers \in Nat
      /\ level \in 0 .. NumHandlers /\ level - 1 \in 0 .. NumHandlers /\ Incoming \in Blocks
  BY PoolAssumption DEF PipeInv, MainInv, Handlers
<1>3. Between(level - 1) = 1
  BY <1>2 DEF Between
<1>4. Incoming = out[level - 1]
  <2>1. CASE level = 1
    BY <1>1, <2>1 DEF Counts, Incoming
  <2>2. CASE level # 1
    <3>1. level - 1 \in Handlers
      BY <1>2, <2>2 DEF Handlers
    <3> QED
      BY <1>1, <1>3, <2>2, <3>1 DEF Counts, Incoming
  <2> QED
    BY <2>1, <2>2
<1>5. /\ out[level] + Len(workers[level]) + 1 = Incoming
      /\ out[level] \in Nat /\ Len(workers[level]) \in Nat
      /\ \A i \in 1 .. Len(workers[level]) : workers[level][i] = out[level] + i
  <2>1. out[level] + Len(workers[level]) + Between(level - 1) = out[level - 1]
    BY <1>1, <1>2 DEF Counts
  <2>2. out[level] \in Nat /\ Len(workers[level]) \in Nat
    BY <1>1, <1>2 DEF PipeInv, MainInv, Outs
  <2>3. \A i \in 1 .. Len(workers[level]) : workers[level][i] = out[level] + i
    BY <1>1, <1>2 DEF Counts
  <2>4. out[level] + Len(workers[level]) + 1 = Incoming
    BY <1>3, <1>4, <2>1
  <2> QED
    BY <2>2, <2>3, <2>4
<1>6. hand[level] = 0
  <2>1. ~(level < level)
    BY <1>2
  <2> QED
    BY <1>2, <2>1 DEF JobsIInv, Hands
<1>7. ASSUME NEW j \in alive, j[1] = level PROVE j[2] < Incoming
  <2>1. j \in Present /\ j[2] \in Nat \ {0}
    BY DEF JobsIInv, AtHandler, PipeInv, PoolInv, PoolTypeOK, Jobs, Blocks
  <2>2. PICK i \in 1 .. Len(workers[level]) : workers[level][i] = j[2]
    BY <1>6, <1>7, <2>1 DEF Present
  <2> QED
    BY <1>5, <2>2
<1>8. Incoming \in Nat /\ <<level, Incoming>>[1] = level /\ <<level, Incoming>>[2] = Incoming
  BY <1>2 DEF Blocks
<1>9. ~(Incoming < Incoming)
  BY <1>8
<1> QED
  BY <1>2, <1>7, <1>8, <1>9 DEF Jobs


\* What the main thread does keeps its hands and the jobs in step.
LEMMA MainJobs ==
  ASSUME PipeInv, JobsIInv, Main
  PROVE  JobsIInv'
<1>0. /\ level \in Handlers /\ level \in Nat /\ 1 <= level /\ NumHandlers \in Nat
      /\ finishing \in Nat /\ finishing <= level
      /\ hand \in [Handlers -> 0 .. MaxBlocks] /\ workers \in [Handlers -> Seq(Blocks)]
      /\ alive \subseteq Jobs /\ PoolOf(level) \in Pools
  BY PoolAssumption DEF PipeInv, MainInv, FinishOnce, Handlers, PoolInv, PoolTypeOK, PoolOf, Pools
<1>1. ASSUME UNCHANGED poolVars PROVE PoolJobs'
  BY <1>1, SameJobs DEF JobsIInv, poolVars
<1>2. ASSUME UNCHANGED <<alive, workers, hand>> PROVE AtHandler'
  BY <1>2 DEF JobsIInv, AtHandler, Present
<1>3. ASSUME \A h \in Handlers : hand[h] = 0, UNCHANGED hand PROVE Hands'
  BY <1>3 DEF Hands
<1>4. CASE Construct
  <2>1. alive = {} /\ \A h \in Handlers : hand[h] = 0
    BY <1>4, IdleJobs DEF Construct, Idle
  <2>2. PoolJobs'
    BY <1>4, <2>1, StartingThreads DEF Construct, PipeInv, JobsIInv
  <2>3. UNCHANGED <<alive, workers, hand>>
    BY <1>4 DEF Construct, ClientIncrease
  <2> QED
    BY <1>2, <1>3, <2>1, <2>2, <2>3 DEF JobsIInv
<1>5. CASE PushBlock \/ EndOfStep
  <2>1. \A h \in Handlers : hand[h] = 0
    BY <1>5 DEF PushBlock, EndOfStep, JobsIInv, Hands
  <2>2. UNCHANGED <<poolVars, workers, hand>>
    BY <1>5 DEF PushBlock, EndOfStep
  <2> QED
    BY <1>1, <1>2, <1>3, <2>1, <2>2 DEF JobsIInv, poolVars
<1>6. CASE Queue
  <2>1. main = "queue" /\ UNCHANGED <<hand, finished, finishing, level>>
    BY <1>6 DEF Queue, QueueJob, AwaitRoom, Goto
  <2>2. Hands'
    BY <1>6, <2>1 DEF Queue, JobsIInv, Hands, Goto, Idle
  <2>3. CASE QueueJob(<<level, Incoming>>) /\ workers' = [workers EXCEPT ![level] = Append(@, Incoming)]
    <3>1. /\ <<level, Incoming>> \in Jobs /\ <<level, Incoming>> \notin alive
          /\ \A j \in alive : j[1] = level => j[2] < Incoming
      BY <2>1, IncomingIsNew
    <3>2. PoolJobs'
      BY <2>3, <3>1, QueueingAJob DEF PipeInv, JobsIInv
    <3>3. alive' = alive \cup {<<level, Incoming>>}
      BY <2>3 DEF QueueJob
    <3>4. /\ \A h \in Handlers : h # level => workers'[h] = workers[h]
          /\ \A i \in 1 .. Len(workers[level]) :
               i \in 1 .. Len(workers'[level]) /\ workers'[level][i] = workers[level][i]
          /\ \E i \in 1 .. Len(workers'[level]) : workers'[level][i] = Incoming
      <4>1. workers'[level] = Append(workers[level], Incoming) /\ workers[level] \in Seq(Blocks)
        BY <1>0, <2>3
      <4>2. /\ Len(workers[level]) + 1 \in 1 .. Len(workers'[level])
            /\ workers'[level][Len(workers[level]) + 1] = Incoming
        BY <4>1
      <4> QED
        BY <1>0, <2>3, <4>1, <4>2
    <3>5. AtHandler'
      <4> SUFFICES ASSUME NEW j \in alive' PROVE j \in Present'
        BY DEF AtHandler
      <4>1. CASE j = <<level, Incoming>>
        BY <3>1, <3>4, <4>1 DEF Present
      <4>2. CASE j \in alive
        <5>1. j \in Present /\ j \in Jobs /\ j[1] \in Handlers
          BY <1>0, <4>2 DEF JobsIInv, AtHandler, Jobs
        <5>2. CASE j[2] = hand[j[1]]
          BY <2>1, <5>1, <5>2 DEF Present
        <5>3. CASE \E i \in 1 .. Len(workers[j[1]]) : workers[j[1]][i] = j[2]
          <6>1. \E i \in 1 .. Len(workers'[j[1]]) : workers'[j[1]][i] = j[2]
            BY <3>4, <5>1, <5>3
          <6> QED
            BY <5>1, <6>1 DEF Present
        <5> QED
          BY <5>1, <5>2, <5>3 DEF Present
      <4> QED
        BY <3>3, <4>1, <4>2
    <3> QED
      BY <2>2, <3>2, <3>5 DEF JobsIInv
  <2>4. CASE AwaitRoom(PoolOf(level)) /\ UNCHANGED workers
    <3>1. PoolJobs' /\ UNCHANGED alive
      BY <2>4, SameJobs DEF AwaitRoom, JobsIInv
    <3> QED
      BY <1>2, <2>1, <2>2, <2>4, <3>1 DEF JobsIInv
  <2> QED
    BY <1>6, <2>3, <2>4 DEF Queue
<1>7. CASE Extract
  <2>1. /\ main = "check" /\ main' = "wait" /\ level' = level /\ workers[level] # <<>>
        /\ hand' = [hand EXCEPT ![level] = Head(workers[level])]
        /\ workers' = [workers EXCEPT ![level] = Tail(workers[level])]
        /\ UNCHANGED <<poolVars, finishing>>
    BY <1>7 DEF Extract, Extractable, Goto
  <2>2. hand[level] = 0
    <3>1. ~(level < level)
      BY <1>0
    <3> QED
      BY <1>0, <2>1, <3>1 DEF JobsIInv, Hands
  <2>3. /\ hand'[level] = Head(workers[level]) /\ workers'[level] = Tail(workers[level])
        /\ \A h \in Handlers : h # level => hand'[h] = hand[h] /\ workers'[h] = workers[h]
    BY <1>0, <2>1
  <2>4. Hands'
    <3> SUFFICES ASSUME NEW h \in Handlers, hand'[h] # 0
                 PROVE  /\ finishing' <= h /\ main' \notin Idle \cup {"read"}
                        /\ h < level' \/ (h = level' /\ main' \in {"wait", "pass", "delete"})
                        /\ <<h, hand'[h]>> \in finished' \/ (h = level' /\ main' = "wait")
      BY DEF Hands
    <3>1. CASE h = level
      BY <1>0, <2>1, <3>1 DEF Idle
    <3>2. CASE h # level
      BY <2>1, <2>3, <3>2 DEF JobsIInv, Hands, Idle, poolVars
    <3> QED
      BY <3>1, <3>2
  <2>5. AtHandler'
    <3> SUFFICES ASSUME NEW j \in alive PROVE j \in Present'
      BY <2>1 DEF AtHandler, poolVars
    <3>1. j \in Present /\ j \in Jobs /\ j[1] \in Handlers /\ j[2] # 0
      BY <1>0 DEF JobsIInv, AtHandler, Jobs, Blocks
    <3>2. CASE j[1] # level
      BY <2>3, <3>1, <3>2 DEF Present
    <3>3. CASE j[1] = level
      <4>1. PICK i \in 1 .. Len(workers[level]) : workers[level][i] = j[2]
        BY <2>2, <3>1, <3>3 DEF Present
      <4>2. CASE i = 1
        <5>1. hand'[level] = j[2]
          BY <1>0, <2>3, <4>1, <4>2
        <5> QED
          BY <3>1, <3>3, <5>1 DEF Present
      <4>3. CASE i # 1
        <5>1. i - 1 \in 1 .. Len(Tail(workers[level])) /\ Tail(workers[level])[i - 1] = j[2]
          <6>1. workers[level] \in Seq(Blocks)
            BY <1>0
          <6> QED
            BY <2>1, <4>1, <4>3, <6>1, TailOf
        <5> QED
          BY <2>3, <3>1, <3>3, <5>1 DEF Present
      <4> QED
        BY <4>2, <4>3
    <3> QED
      BY <3>2, <3>3
  <2> QED
    BY <1>1, <2>1, <2>4, <2>5 DEF JobsIInv
<1>8. CASE Wait
  <2>1. /\ main = "wait" /\ UNCHANGED <<hand, workers, finishing, level, alive, finished>>
        /\ \/ main' = "pass" /\ <<level, hand[level]>> \in finished
           \/ main' = "wait"
    BY <1>8 DEF Wait, Goto, AwaitJob, poolVars
  <2>2. Hands'
    BY <2>1 DEF JobsIInv, Hands, Idle
  <2>3. PoolJobs'
    BY <1>1, <1>8, SameJobs DEF Wait, AwaitJob, JobsIInv
  <2> QED
    BY <1>2, <2>1, <2>2, <2>3 DEF JobsIInv
<1>9. CASE PassOn
  <2>1. /\ main = "pass" /\ UNCHANGED <<hand, workers, finishing, poolVars>>
        /\ \/ main' = "queue" /\ level' = level + 1
           \/ main' = "delete" /\ level' = level
    BY <1>9 DEF PassOn, Goto
  <2>2. Hands'
    BY <1>0, <2>1 DEF JobsIInv, Hands, Idle, poolVars, Handlers
  <2> QED
    BY <1>1, <1>2, <2>1, <2>2 DEF JobsIInv, poolVars
<1>10. CASE DeleteWorker
  <2> DEFINE x == <<level, hand[level]>>
  <2>1. /\ main = "delete" /\ main' = "check" /\ level' = level
        /\ DeleteJob(x) /\ hand' = [hand EXCEPT ![level] = 0]
        /\ UNCHANGED <<workers, finishing>>
    BY <1>10 DEF DeleteWorker, Goto
  <2>2. x \in finished \/ x \notin alive
    <3>1. CASE hand[level] = 0
      BY <1>0, <3>1 DEF Jobs, Blocks
    <3>2. CASE hand[level] # 0
      BY <1>0, <2>1, <3>2 DEF JobsIInv, Hands
    <3> QED
      BY <3>1, <3>2
  <2>3. PoolJobs'
    BY <2>1, <2>2, DeletingAJob DEF PipeInv, JobsIInv
  <2>4. /\ alive' = alive \ {x} /\ finished' = finished \ {x}
        /\ hand'[level] = 0 /\ \A h \in Handlers : h # level => hand'[h] = hand[h]
    BY <1>0, <2>1 DEF DeleteJob
  <2>5. Hands'
    <3> SUFFICES ASSUME NEW h \in Handlers, h # level, hand'[h] # 0
                 PROVE  /\ finishing' <= h /\ main' \notin Idle \cup {"read"}
                        /\ h < level'
                        /\ <<h, hand'[h]>> \in finished'
      BY <2>4 DEF Hands
    <3>1. hand'[h] = hand[h] /\ <<h, hand[h]>> # x
      BY <2>4
    <3>2. finishing <= h /\ h < level /\ <<h, hand[h]>> \in finished
      BY <2>1, <3>1 DEF JobsIInv, Hands
    <3> QED
      BY <2>1, <2>4, <3>1, <3>2 DEF Idle
  <2>6. AtHandler'
    <3> SUFFICES ASSUME NEW j \in alive, j # x PROVE j \in Present'
      BY <2>4 DEF AtHandler
    <3>1. j \in Present /\ j \in Jobs /\ j[1] \in Handlers /\ j = <<j[1], j[2]>>
      BY <1>0 DEF JobsIInv, AtHandler, Jobs
    <3>2. CASE j[2] = hand[j[1]]
      <4>1. j[1] # level
        BY <3>1, <3>2
      <4> QED
        BY <2>4, <3>1, <3>2, <4>1 DEF Present
    <3>3. CASE j[2] # hand[j[1]]
      BY <2>1, <3>1, <3>3 DEF Present
    <3> QED
      BY <3>2, <3>3
  <2> QED
    BY <2>3, <2>5, <2>6 DEF JobsIInv
<1>11. CASE ReturnFromPush
  <2>1. /\ main = "check" /\ UNCHANGED <<hand, workers, finishing, poolVars>>
        /\ \/ main' = "read" /\ level = 1
           \/ main' = "delete" /\ level' = level - 1
    BY <1>11 DEF ReturnFromPush, Goto
  <2>2. \A h \in Handlers : hand[h] # 0 =>
          h < level /\ h >= 1 /\ finishing <= h /\ <<h, hand[h]>> \in finished
    <3>1. \A h \in Handlers : h >= 1
      BY <1>0 DEF Handlers
    <3> QED
      BY <2>1, <3>1 DEF JobsIInv, Hands
  <2>3. CASE main' = "read" /\ level = 1
    <3>1. \A h \in Handlers : hand[h] = 0
      <4>1. \A h \in Handlers : ~(h < level)
        BY <1>0, <2>3 DEF Handlers
      <4> QED
        BY <2>2, <4>1
    <3> QED
      BY <1>1, <1>2, <1>3, <2>1, <3>1 DEF JobsIInv, poolVars
  <2>4. CASE main' = "delete" /\ level' = level - 1
    <3>1. Hands'
      BY <1>0, <2>1, <2>2, <2>4 DEF Hands, Idle, poolVars, Handlers
    <3> QED
      BY <1>1, <1>2, <2>1, <3>1 DEF JobsIInv, poolVars
  <2> QED
    BY <2>1, <2>3, <2>4
<1>12. CASE ReturnFromFinish
  <2>1. \A h \in Handlers : hand[h] = 0
    <3>1. /\ main = "check" /\ finishing = level
          /\ \A h \in Handlers : ~(h < level /\ level <= h)
      BY <1>0, <1>12 DEF ReturnFromFinish, Handlers
    <3> QED
      BY <3>1 DEF JobsIInv, Hands
  <2>2. UNCHANGED <<poolVars, workers, hand>>
    BY <1>12 DEF ReturnFromFinish
  <2> QED
    BY <1>1, <1>2, <1>3, <2>1, <2>2 DEF JobsIInv, poolVars
<1>13. CASE Decrease \/ TellWorkers \/ Join
  <2>1. main \in Idle
    BY <1>13 DEF Decrease, TellWorkers, Join, Idle
  <2>2. UNCHANGED <<workers, hand, queue, job, alive, handled, finished>>
    BY <1>13 DEF Decrease, TellWorkers, Join, NextHandler, ClientDecrease, BroadcastDeath, poolVars
  <2>3. \A t \in Threads :
          thread'[t] \in {"run", "finish"} \/ Runs(t) => thread'[t] = thread[t]
    <3>1. CASE TellWorkers
      BY <1>0, <3>1, WakingRuns DEF TellWorkers, BroadcastDeath, PipeInv, PoolInv
    <3>2. CASE Decrease \/ Join
      BY <3>2 DEF Decrease, Join, ClientDecrease, poolVars
    <3> QED
      BY <1>13, <3>1, <3>2
  <2> QED
    BY <1>2, <1>3, <2>1, <2>2, <2>3, SameJobs, IdleJobs DEF JobsIInv
<1> QED
  BY <1>4, <1>5, <1>6, <1>7, <1>8, <1>9, <1>10, <1>11, <1>12, <1>13 DEF Main

LEMMA JobsStep ==
  ASSUME PipeInv, JobsIInv, [Next]_vars
  PROVE  JobsIInv'
<1>1. CASE Main
  BY <1>1, MainJobs
<1>2. ASSUME UNCHANGED mainVars, UNCHANGED alive, finished \subseteq finished', PoolJobs'
      PROVE  JobsIInv'
  BY <1>2 DEF JobsIInv, Hands, AtHandler, Present, mainVars
<1>3. CASE WorkerStep
  <2>1. PICK t \in Threads : Worker(t)
    BY <1>3 DEF WorkerStep
  <2>2. UNCHANGED alive /\ finished \subseteq finished'
    BY <2>1 DEF Worker, WorkerDies, WorkerWaits, WorkerTakesJob, WorkerRuns, WorkerFinishes
  <2> QED
    BY <1>2, <1>3, <2>1, <2>2, WorkerJobs DEF WorkerStep, PipeInv, JobsIInv
<1>4. CASE SpuriousWakeUp
  <2>1. \A t \in Threads :
          thread'[t] \in {"run", "finish"} \/ Runs(t) => thread'[t] = thread[t]
    BY <1>4 DEF SpuriousWakeUp, WakeUp, PipeInv, PoolInv, PoolTypeOK, Runs
  <2> QED
    BY <1>2, <1>4, <2>1, SameJobs DEF SpuriousWakeUp, JobsIInv
<1>5. CASE UNCHANGED vars
  BY <1>2, <1>5, SameJobs DEF vars, poolVars, JobsIInv
<1> QED
  BY <1>1, <1>3, <1>4, <1>5 DEF Next

LEMMA JobsInit == Init => JobsIInv
<1> SUFFICES ASSUME Init PROVE JobsIInv
  OBVIOUS
<1>1. Hands /\ AtHandler /\ Lives /\ Somewhere
  BY DEF Init, PoolInit, Hands, AtHandler, Lives, Somewhere
<1>2. \A p \in Pools : queue[p] = <<>>
  BY DEF Init, PoolInit
<1>3. InQueue /\ Ascending
  BY <1>2 DEF InQueue, Ascending, Pools
<1>4. InThread
  BY DEF Init, PoolInit, InThread, Runs
<1> QED
  BY <1>1, <1>3, <1>4 DEF JobsIInv, PoolJobs

LEMMA JobsInvariant == Spec => [](PipeInv /\ JobsIInv)
<1>1. PipeInv /\ JobsIInv /\ [Next]_vars => (PipeInv /\ JobsIInv)'
  BY PipeStep, JobsStep
<1> QED
  BY <1>1, PipeInit, JobsInit, PTL DEF Spec

\* A block is passed on only when its handler's handleEvents has returned it.
THEOREM OutputIsReady == Spec => []OutputReady
<1>1. PipeInv /\ JobsIInv => OutputReady
  <2> SUFFICES ASSUME PipeInv, JobsIInv, main = "pass" PROVE <<level, hand[level]>> \in handled
    BY DEF OutputReady
  <2>1. level \in Handlers /\ hand[level] # 0
    BY DEF PipeInv, MainInv, Blocks
  <2> QED
    BY <2>1 DEF JobsIInv, Hands, PoolJobs, Lives
<1> QED
  BY <1>1, JobsInvariant, PTL

\* The main thread deletes a job when no worker can look at it any more, and ends
\* a pool's threads when there is no job for them any more.
THEOREM JobsCorrect == Spec => []JobsInv
<1>1. PipeInv /\ JobsIInv => JobsInv
  <2> SUFFICES ASSUME PipeInv, JobsIInv PROVE JobsInv
    OBVIOUS
  <2>1. TypeOK
    BY Parts DEF PipeInv
  <2>2. JobsOutliveTheirUse
    BY DEF JobsOutliveTheirUse, JobsIInv, PoolJobs, InQueue, InThread, Runs
  <2>3. NothingLeftBehind
    <3> SUFFICES ASSUME main \in {"broadcast", "join"}
                 PROVE  /\ queue[PoolOf(level)] = <<>>
                        /\ \A t \in ThreadsOf(PoolOf(level)) : thread[t] \notin {"run", "finish"}
      BY DEF NothingLeftBehind
    <3>1. alive = {}
      BY IdleJobs DEF Idle
    <3>2. PoolOf(level) \in Pools
      BY DEF PipeInv, MainInv, PoolOf, Pools
    <3> QED
      BY <3>1, <3>2, NoJobs DEF PipeInv, JobsIInv, ThreadsOf, Runs
  <2> QED
    BY <2>1, <2>2, <2>3 DEF JobsInv
<1> QED
  BY <1>1, JobsInvariant, PTL

\* A handler with a single worker handles its blocks one at a time and in order:
\* its pool has one thread, whose queue ascends, and a block that is neither
\* handled nor queued is in that thread's hands.
THEOREM SingleWorkersAreSerial == Spec => []OneAtATime
<1>1. PipeInv /\ JobsIInv => OneAtATime
  <2> SUFFICES ASSUME PipeInv, JobsIInv, NEW t \in Threads, thread[t] = "run",
                      job[t][1] \in SingleWorker,
                      NEW b \in 1 .. (job[t][2] - 1), <<job[t][1], b>> \in alive,
                      <<job[t][1], b>> \notin handled
               PROVE  FALSE
    BY DEF OneAtATime
  <2> DEFINE h == job[t][1]
             j == <<h, b>>
  <2>1. Runs(t) /\ job[t] \in Jobs /\ PoolOf(h) = t[1] /\ PoolOf(h) = h
    BY DEF Runs, JobsIInv, PoolJobs, InThread, PipeInv, PoolInv, PoolOf
  <2>2. \A u \in Threads : u[1] = h => u = t
    <3>1. h # Global /\ t[1] = h
      BY <2>1, PoolAssumption DEF Global
    <3>2. maxWorkers(h) = 1
      BY <3>1 DEF maxWorkers
    <3>3. \A u \in Threads : u[1] = h => u[2] = 1 /\ u = <<u[1], u[2]>>
      BY <3>2 DEF Threads
    <3> QED
      BY <3>1, <3>3
  <2>3. job[t][2] \in Nat /\ b < job[t][2] /\ b \in Nat
    BY <2>1 DEF Jobs, Blocks
  <2>4. ASSUME Queued(j) PROVE FALSE
    <3>1. PICK i \in 1 .. Len(queue[h]) : queue[h][i] = j
      BY <2>1, <2>4 DEF Queued
    <3>2. job[t][2] < queue[h][i][2]
      BY <2>1, <3>1 DEF JobsIInv, PoolJobs, Ascending
    <3> QED
      BY <2>3, <3>1, <3>2
  <2>5. ASSUME NEW u \in Threads, Runs(u), job[u] = j PROVE FALSE
    <3>1. u[1] = h
      BY <2>1, <2>5 DEF JobsIInv, PoolJobs, InThread
    <3>2. job[t] = j
      BY <2>2, <2>5, <3>1
    <3> QED
      BY <2>3, <3>2
  <2> QED
    BY <2>4, <2>5 DEF JobsIInv, PoolJobs, Somewhere
<1> QED
  BY <1>1, JobsInvariant, PTL
=============================================================================
