# A verification model of the PETsys TOFHIR2 DAQ software

This directory holds TLA+ modules for the software in `src/` (its code is in
`src/src/`), the TLC configurations that check them on small instances, and
proofs of their main theorems for TLAPS.  File names below are relative to
`src/src/`.

## 1. The system

Front-end boards send *frames* of events to a computer, either through a DAQ
card (PCIe) or through UDP.  The daemon `daqd` reads them and puts them in a
queue in shared memory.  A Python client, `daqd.py`, configures the hardware
through the daemon and tells it to start and stop; it reads frames from the
shared memory itself or has `write_raw` write them to a file.  Other programs
read that file, decode the events, sort, group and pair them, and write lists.

| Part | State | Operations | Interacts with |
|---|---|---|---|
| frame queue (`daqd/FrameServer`) | read and write pointer, acquisition mode, minimum frame ID, slots in shared memory, `lock` | start, stop, get and set pointers, start/stop worker | the worker, the main thread, the client's reader |
| DAQ frame server (`daqd/DAQFrameServer`) | the worker's place in the stream, its slot, its last frame's state | `doWork`, `startAcquisition`, `stopAcquisition`, `sendCommand` | card, frame queue |
| DAQ card (`daqd/PFP_KX7`, `kernel/psdaq.c`) | two buffers in a ring, the filler thread, the consumer's current buffer, command rings | `getWords`, `setAcquistionOnOff`, `sendCommand`, `recvReply`, `clearReplyQueue` | worker (data), main thread (commands, on/off) |
| UDP frame server (`daqd/UDPFrameServer`) | socket, the worker's place in a datagram, queue of replies | `doWork`, `sendCommand` | frame queue, front end |
| daemon (`daqd/daqd.cpp`, `daqd/Client`) | list of clients | one request at a time, between two polls | clients, frame server |
| client (`petsys_py_lib/daqd.py`) | serial number of commands, cached configuration, its block of frames | `acquire`, `acquireAsBytes`, `getDecodedDataFrame`, `synchronizeDataToConfig`, `sendCommand`, configuration | daemon, `write_raw`, shared memory |
| raw writer (`raw_data/write_raw.cpp`) | last frame's ID and type, counts of a step | a block of frames; the end of a step | client (pipe), shared memory, file |
| raw readers (`raw_data/RawReader`, `DAQv1Reader`) | place in the file | a step's events | file, event handlers |
| thread pool (`base/ThreadPool`, `OverlappedEventHandler`) | queue of jobs, workers, blocks in flight | queue a job, wait for it, pass blocks on in order | event handlers |
| event handlers (`base/*`) | none between blocks | sort, group, pair, calibrate | each other |
| system configuration (`base/SystemConfig`) | tables of calibration, maps of channels and of trigger regions | load from files | handlers |
| conversion programs (`petsys_util/convert_raw_to_*`) | counters, where a step begins in the output | a block's events, the end of a step | handlers, files |
| calibration programs (`petsys_util/process_*dc_calibration`) | temporary files, the list of them, a table that processes share | sort by ASIC, fork, fit, wait, adjust, write | processes, files |
| hardware tables, buses, testers, measurement scripts, GUI | files, tables | sequential | client |

What makes it hard:

* The worker takes a slot under the lock, fills it *without* it for as long as
  the card takes to deliver, and advances the pointer under the lock again.
  Meanwhile the main thread wipes the queue or moves the read pointer for a
  client, which read the pointers some requests ago.
* A sleep stands for synchronisation: an acquisition starts with two wipes
  220 ms apart, and nothing is looked at in between.
* The card's ring of two buffers is shared by two threads that copy without
  the mutex, and is reset by a third without the mutex and without a look at
  what the other two are doing.
* Pointers run modulo twice the size of what they point into, in four
  places (the daemon, the Python client, its C++ reader and `write_raw`).
* Commands are answered late or not at all, and are repeated.
* Blocks of events are handled in parallel and have to leave in order.
* Hits leave the sorter only roughly in order, and photons have the time of
  their strongest hit; groups and coincidences are searched for in one pass.
* The client skips what it believes to be in the hardware already, after
  commands that failed, by half or without an answer; and it resets the
  hardware before it forgets what it believed.
* A calibration's processes share with the main program the table they fill and
  the position of the file from which it reads what to fork for next.

What makes each part correct, in one sentence each: nothing is overwritten
while it is queued or being read; what a client reads after a start is whole,
fresh and in order; every start is answered; the card's words are delivered
once and in order; a command gets its own reply; a file accounts for every
frame of a step; blocks leave the pipeline in the order in which they entered
it, each once; a cache says what the hardware has last said; every ASIC is
calibrated, and its entries are written when nobody fills them any more; groups
and coincidences are those that the definitions name.  `PROJECT.json` lists the hazards at their lines.

## 2. Modules

| Module | What it is | Source |
|---|---|---|
| `FrameRing` | pointer arithmetic, no state | `isFull`, the pointers' modulus, `acquire`'s block size |
| `FrameServer` | the queue's state; one operator per critical section | `FrameServer.cpp`, parts of `doWork` |
| `DAQFrameServer` | worker thread, main thread's start/stop/shutdown, what the card delivers | `DAQFrameServer.cpp` |
| `UDPFrameServer` | the same for a server of datagrams, with the same variables | `UDPFrameServer.cpp` |
| `FrameClient` | one `Connection` that reads data | `daqd.py`, `shm_raw_py.cpp` |
| `DAQSystem` | daemon and client composed; the properties | `Client.cpp`, and all of the above |
| `FrameChannel` | the abstract specification: a bounded FIFO of frames that can be closed | -- |
| `PFPCard` | the ring between the filler thread and `getWords` | `PFP_KX7.cpp`, `psdaq.c` |
| `CommandPath` | the client's `sendCommand`, the daemon, the card's command rings or the socket, front ends | `daqd.py`, `Client.cpp`, `DAQFrameServer.cpp`, `PFP_KX7.cpp`, `UDPFrameServer.cpp` |
| `RemoteCall` | the abstract specification: calls take effect in their order and before they are answered | -- |
| `ThreadPool` | pools of workers with bounded queues, one operator per critical section | `ThreadPool.cpp` |
| `OverlappedEventHandler` | the main thread in a pipeline of handlers, composed with `ThreadPool`; the properties | `OverlappedEventHandler.tpp`, `RawReader.cpp` |
| `BlockStream` | the abstract specification: blocks leave in order, all of them before the next step | -- |
| `RawWriter` | the helper process that writes an acquisition's files | `write_raw.cpp`, `daqd.py` (`closeAcquisition`) |
| `RawReader` | the program that reads a step of them, composed with `RawWriter`; the properties | `RawReader.cpp` |
| `StepLog` | the abstract specification: a log of complete steps, each in the file whole or not at all | -- |
| `AsicConfiguration` | the registers of the ASICs and the bias voltages, the client's caches of them, `initializeSystem` | `daqd.py` |
| `CalibrationJobs` | what both calibration programs do: sort, list, fork, wait, write | `process_tdc_calibration.cpp`, `process_qdc_calibration.cpp` |
| `TDCCalibration`, `QDCCalibration` | their processes and tables | the same |
| `Calibration` | the two programs as a whole, with runs that use an earlier one's files; the properties | the same |
| `SystemConfig` | the configuration that is loaded from files, as operators | `SystemConfig.cpp` |
| `EventHandlers` | what the handlers make of a block, as operators | `CoarseSorter.cpp`, `ProcessHit.cpp`, `SimpleGrouper.cpp`, `CoincidenceGrouper.cpp` |
| `Conversion` | the six conversion programs; the properties | `convert_raw_to_*.cpp` |
| `DAQSystem_proofs`, `PFPCard_proofs`, `CommandPath_proofs`, `OverlappedEventHandler_proofs`, `RawReader_proofs`, `Calibration_proofs`, `AsicConfiguration_proofs`, `Conversion_proofs` | theorems about the modules they are named after | -- |
| `MC*` | what TLC runs | -- |

**State.** Variables have the names of the code's members and locals.  A frame
is a *stamp*, its position in the stream of all frames, instead of 2048 words;
a slot holds the stamp of its header and whether all its other words are that
frame's too (`whole`), which is what a torn or overwritten slot gets wrong.
A frame ID as the hardware counts it restarts with an acquisition; a stamp does
not, and `runStart` is the stamp at which the present run began.

**Atomicity.** One action is one critical section of `lock`, one unlocked access
to shared state, or local computation between them.  `doWork` is
`ReadHeader` (or `ReadBadHeader`), `ReadMode` (the unlocked test of
`acquisitionMode`), `GetSlot`, `WriteHeader`, `WriteWords` or `RejectFrame`,
and `PublishFrame`.  A request of the client is one action when the main thread
needs one critical section for it; start and stop are several, between which
the worker runs but no other request is served.  `WriteHeader` is possible only while
the worker has not been told to end, because `doWork` looks at `die` after it has taken
a slot and before it writes anything (`DAQFrameServer.cpp:248`): `WorkerExit` is what it
does otherwise.  The second wipe of a start comes at any time after the first
(`usleep`, `FrameServer.cpp:94`, waits for nothing), or, if the constant `SleepSuffices`
says so, when the worker has got through the frame it had begun and no frame of an
earlier run is on its way (`Settled`).

*In `UDPFrameServer`* a datagram holds frames `head` to `next` - 1, and some
datagrams are lost, but none is repeated or overtaken: the socket is connected to
one front end on a link of its own.  The worker tests the mode once for a
datagram (`TestMode`), then takes a slot, copies, compares with the minimum and
publishes, for each of its frames.  Nothing tells the front end to start; the
frames of an acquisition are those it sends after the request.  Which kind of
server there is (`server`) is chosen when the daemon starts.

*In `CommandPath`* a command is a number and so is each attempt to send it; a
reply has the attempt it answers in place of its bytes.  The slot is written
and the pointer published in two actions, because the card reads the ring with
no lock; `ReceiveReply` is one, because nobody but the main thread moves the
read pointer of the replies.  `replies` holds what is on its way back, without
order.  Two things are assumed of the environment: no reply is so late that its
serial number (of 2^15) has been used again (`NotReused`), and what a killed
client had sent and the daemon not read is not served, because the daemon looks
at the hang-up (`daqd.cpp:262`) before it reads.  `medium` says whether commands go
through the card's rings or through a socket; with the latter, commands stay in
order (`packets`), the worker pushes replies into `replyQueue` and the main thread
pops them.  For that queue, which nobody clears, a third assumption is needed: a new
client does not begin with the serial number of a reply that lies there (section 6).

*In `PFPCard`* a start resets the ring wherever the worker is, one variable after the
other; a reset may be lost in the worker's own increment of the variable (`Raced`), and
one that comes between a copy and its count takes `getWords` past the end of its buffer,
for good (`Overrun`).  `quiet` is history: it stays true as long as every start has
found the ring drained (`Drained`), and the worker has not looked at the ring between the
resets of the two pointers.  The client stops an acquisition long before it starts the
next, which makes this likely; nothing in the code makes it so.

*In `OverlappedEventHandler`* extracting a block pushes it into the next handler,
whose `pushEvents` may extract in turn: the main thread's call stack is `level`,
the handler of the innermost call, and `hand`, the block each outer call holds.
A job is a block at a handler.  Each action is a critical section of a pool's or
a job's lock, or unlocked work between two; condition variables wake one waiter
or all, as `signal` and `broadcast` do, and also of themselves.  `ClientDecrease`
sets `die` without the lock, as the code does, and signals in another action.

*In `RawWriter` and `RawReader`* offsets in files count records (a frame, or a
word with its count) instead of bytes, and an event is a number that stands for
its word.  `dataFile` is what has been written, `onDisk` how much of it has left
the process's buffer: a full buffer goes to disk at any moment (`FullBuffer`),
`fflush` sends the rest, and what is not on disk when `closeAcquisition` kills the
process is lost.  The end of a step is one action per `fflush` and per write
between two of them.  `acquired` has every frame of every step and is there for
the properties.  Frame IDs ascend, except for a set of `OddIDs` that may come out
of turn; the code warns of these and goes on.  The reader opens the files at any
moment, while the writer is at work or after its death.

*In `AsicConfiguration`* a command is one action: `sendCommand`'s own retries repeat
the same command.  It may be answered well, with an error, or not at all, and
leave the register as it was, with the new value or with another (`Garbage`, which
also stands for the DAC values that are tried on the way).  `__doAsicCommand`
writes, reads back, and tries again; `call` is what is being called, the registers
it has left and how often it has tried.  `initializeSystem` resets the ASICs of one FEB/D
after the other (`ResetAsics`), any of whose commands may raise an exception (`InitFails`), and
forgets what it knew of them only then (`VoidCaches`).  `known`, `settled` and `stale` are
history; `stale` says that ASICs have been reset since the cache was begun.

*In the calibration modules* an action is one read of the list, one fork, one
`wait`, one stage of a process's work on its ASIC, or its exit.  A forked process
has `unread`, the lines that the main program had buffered, and moves the shared
position back by so many when it exits, as the C library does for a stream that
can seek.  What a fit finds is a constant of the data (`Shape`, `T0`, `NoCurve`);
processes may be killed at any time, and crash where they use a histogram they
have not made.

*In `Conversion`* a block goes through the pipeline in one action: that blocks pass
in order and one at a time is what `OverlappedEventHandler` shows.  The sorter's
order within a bin is a choice, because the code's depends on more than the model
has of a hit.  Values that code leaves uninitialised, and memory behind an array, are
choices too (`Noise`, `MayCrash`, `NoPedestals`).

**Each module has "plausible slips"**: operators that are small mistakes in one
of the module's definitions.  Put in the definition's place, each makes the
property that `PROJECT.json` names fail, which shows that the property looks at
that code.

## 3. Runs

Bounds are named in the modules.

| Run | Instance | What it shows |
|---|---|---|
| `daq_safety` | both servers, 2 slots, 4 frames, backlog 2, datagrams of 1 or 2, corrupt words, all methods | nothing overwritten; the inductive invariant (types, and a queue that is never over-full, are parts of it); frames fresh, whole and in order after a start; datagrams: at most one frame passes a synchronisation it precedes; blocks read to their end; the queue implements `FrameChannel`.  The sleep suffices |
| `daq_blocks` | both servers, 3 slots, 4 frames, one lost frame in 2 kept; a sleep of any length | blocks of two frames stay queued while they are read and are read to their end; `WorkerExits`: a worker that is told to end while frames arrive does, wherever it is and if the queue is full, so that the join returns; the first frame arrives |
| `card` | 2 words per buffer, 8 words, 2 starts, each wherever the worker is | `CardInv`: no word is torn, lost or repeated while no start has met the worker in the ring, and nobody waits in vain whatever a start meets; what is published is read, likewise; switching off returns in any case |
| `commands` | card or socket, 2 slots, 3 serial numbers, 2 commands, 2 tries, 2 clients; good, too short and foreign replies | `sendCommand` returns its own last attempt's reply; `PathInv`: the socket stays in step and the rings do not overflow; every call returns; the whole implements `RemoteCall` |
| `pool` | 3 handlers, the last with its own worker; 3 blocks, 2 CPUs, 2 steps | a block is passed on when it has been handled; `JobsInv`: jobs are not deleted too early, and none is left when workers die; the writer has one block at a time, in order; the invariant of the order; all steps end; the pipeline implements `BlockStream` |
| `raw_file` | 3 frames per file, 4 frame IDs of which one may come out of turn, 2 words, 2 steps, blocks of 3 words and 2 frames | the account of frames and of lost frames is right; the index never speaks of data that is not on disk; a step is read as it was acquired, in blocks that follow each other; the files implement `StepLog` |
| `calibration` | 3 ASICs of 2 channels and 1 TAC, 2 sets of events, up to 2 processes, a stream that reads 2 lines at a time, 5 file descriptors, kills | `JobsInv`: the table is adjusted and written when nobody fills it, and processes are bounded; every ASIC is forked for; entries of ASICs calibrated once are what the data say; the program ends |
| `offline` | 5 channels (one across, one with lines missing, one of another FEB/D), TACs of the first and of the second four, 2 regions, blocks of up to 4 of 8 hits, up to 3 steps, 4 configurations, 3 sets of options | the last lines for a hit are used, or it is dropped; groups and coincidences are the defined ones; `WriterInv`: the index has each step's events, and the share of events asked for is written; the best hit of a channel is kept |
| `asics` | 2 ASICs of 2 channels, each on a FEB/D of its own; 2 values, 2 configurations, 2 tries, 2 initialisations, 3 faults | `CacheInv`: a cache entry is what its register last said, and `SetIsVerified`: a `setAsicsConfig` that returns has seen every register hold its value, and when forced has written it, both except for registers that were reset by an `initializeSystem` which then failed and that have not answered since; the summary of refresh settings is that of the cache until an exception leaves `setAsicsConfig` |
| `daq_sync`, `commands_large`, `calibration_ends` | small | disagreements between the code and what it says (section 6) |

*Why these bounds are enough.*  Two slots give pointers modulo four: both slots,
a full and an empty queue and the wrap of both pointers all occur with four frames,
and the queue is wiped in every state.  With three slots a block has up to two
frames, a proper part of the queue, and a start or a stop comes while the first or
the second is read.  (The safety properties are
proved for every size besides.)  A backlog of two frames lets a frame of the old run
be in the worker's hands and another on its way when a start happens, and datagrams
of two frames let a stop come between them.  The card's ring has two buffers in the
code too; only their length is reduced, to two words, so that a buffer can be partly
consumed.  Eight words are four buffers, twice round the ring; the first start finds the
ring as it was made, and the second finds the worker anywhere.

Two commands of two tries each make four attempts, so that serial numbers wrap
at three, and a reply can come while the next attempt, the next command or the
next client waits.  A command ring of two slots gets full.  A global pool of two
workers with a queue for one job is smaller than what three handlers want to
have in flight, so the main thread waits for room at each level of its recursion;
the second step finds pools whose workers have died.

Three frames in a file are a first frame, one that may repeat the first one's
type or come after a gap, and one that is written or not because of the second;
with two steps they are split between steps in every way, and steps without
frames occur.  Four IDs leave room for a gap of two frames, and of two gaps.  A
block of three words (an event takes two in the reader's sum) is full after two
events, and a span of two frames ends a block before it is full.

Three lines in the list, read two at a time, are a stream that has lines unread
when it forks, and one more read after that; five descriptors let two ASICs be
forked for twice before the sixth open fails.  Two processes and three ASICs make
the main program wait in its loop and drain after it.

The hits of the offline run are at distances inside, at and beyond the time window,
in the bins of the sorter and across their edges, on channels that see each other or
do not; blocks are all triples of eight, and a few larger ones in which a group has
more hits than fit, and a photon two partners.  `Overlap` is 40 quarters of
a clock, a quarter of the code's 40 clocks (`OverlappedEventHandler.hpp:18-20`), so that
hits lie on both sides of where a search ends; time windows and phases are small so that
several hits are within them.  `MaxOffset` says how far a calibration may move a time, and
thereby how far out of order the sorter, which goes by coarse times, may leave two hits: by
`Slack`, 24 + 2 * `MaxOffset` quarters, here 32.

Two ASICs on two FEB/Ds are one that has been reset and one that has not when a command
fails.  Two tries of each command and three faults are a try that fails and one that
succeeds, a register given up, and one more fault in the next call, which finds what
the first has left.

## 4. Fairness

`FairSpec` of `DAQSystem`: weak fairness of the worker, except that it may stay
at a `getWords` while nothing is sent; of the card while it is on, and of the front end of a UDP server (it sends
frames all the time, even empty ones); of the main thread while a request is
being served; of the client's local steps while it reads a block.  All of these
are threads that the operating system schedules and that wait for nothing
else.  No fairness is assumed of calls: nobody need start, stop or shut down.
After `usleep(220000)` the main thread goes on, whatever has happened meanwhile: a start
needs no fairness but the main thread's own.

That `FramesAreFresh` and `ImplementsChannel` hold, and the theorems about them, rests on
`SleepSuffices`, an assumption about time: the sleep outlasts the frame the worker has begun and
the frames of an earlier run that are on their way.  Without it TLC finds a frame of the earlier
run in the queue after a start.  Nothing else depends on it: types, `RingInv`, `NoOverwrite`,
the blocks that are read, and what a synchronisation lets through are proved for either value
of the constant, and `daq_blocks` runs without it.

`FairSpec` of `PFPCard`: weak fairness of the two threads and of a
`setAcquistionOnOff` that has begun.  Waits need not end of themselves.

`FairSpec` of `CommandPath`: weak fairness of the client and of the daemon,
each a process that runs, with the worker that pushes replies.  Front ends owe nothing, not even to take a command
from the ring: a call ends because of the 250 ms after which the daemon gives up
(`TimeOut`, possible at any moment) and the bound on tries.

`FairSpec` of `Calibration`: weak fairness of the main program and of each process,
which the operating system schedules; `wait` returns when a process has ended.
That processes end, and that the list is read to its end or a file cannot be opened,
is then enough for the program to end (`Ends`).  Nobody need kill anything.

`RawReader`, `AsicConfiguration` and `Conversion` have no liveness property: a writer
may be killed at any moment, and nobody need read or call; the loops of a conversion
are over blocks that are there, and a call's over registers and tries, one by one.

`FairSpec` of `OverlappedEventHandler`: weak fairness of the main thread and of
each worker thread.  Waits need not end of themselves: signals have to suffice.

## 5. Proofs

The theorems hold for every value of the constants that the modules' named assumptions
allow; a theorem that needs more says so in an `ASSUME` of its own, and the reason is
given here.  Each safety theorem has an inductive invariant, stronger than
the property, that holds initially, is kept by every action (one lemma or step per
action) and implies the property.

**The queue of frames** (`DAQSystem_proofs`), for both kinds of server.

* `TypeCorrect` and `RingCorrect`: `TypeOK` and `RingInv` always hold.  `RingInv` is inductive.
  `NeverOverfull` and `NoOverwrite` are not on their own: that the
  slot in the worker's hands is not queued follows from where it is
  (`HeldSlotIsNext`: it is the slot at the write pointer, and there is room, or
  the queue has been wiped meanwhile and is empty); that a client may set the
  read pointer needs that the end of its block is still between the pointers
  (`BlockEndIsQueued`), which holds because only this client's own requests
  wipe the queue (`RequestIsServed`).
* `QueueIsBounded`, `BlocksStayQueued`, `NothingIsOverwritten` follow from `RingInv`.
  The last one, and those below, assume `MaxSpill = 0`: no header claims more words than
  a slot has.  Without this it is false (section 6).
* `ChannelIsImplemented` (`Spec => ImplementsChannel`) and `QueueIsFresh`, which assume `SleepSuffices`
  (section 4).  Besides `RingInv`,
  the invariant says that queued frames are whole, ascend and are earlier than what comes next
  (`Stream`), that none is of an earlier run once a start has returned (`Fresh`), and what
  the worker may still hold of one (`Leaking`).  `QueueIsFresh` is what
  the channel itself promises (`DeliversInOrder`, an invariant of it), read through the refinement
  mapping.  They also assume
  `MaxPacked < 2 * N`, a datagram with fewer frames than there are pointer positions: a
  datagram has at most 255 words of eight bytes (`rxBuffer`, `UDPFrameServer.cpp:84`) and there
  are 32768 positions.  After a stop has wiped the queue, the rest of the datagram that the worker
  holds may be published from position 0 on, and must not come round to it again.
* `BlocksAreRead`: what `acquire` has read of a block is still queued.  With `N > 1`: `acquire`
  waits for half a queue at most, which has to be a frame.
* `SyncIsTight`: the only old frame that a synchronisation lets through is the one the worker
  has compared and not published.
* `ClientCountsFrames`: the Python client's formula for the number of frames
  between two pointers is right for every queue that is not over-full.

**The card's ring** (`PFPCard_proofs`).  `CardCorrect`, for every buffer size and any number of starts:
as long as every start has found the ring drained, and the worker has not looked at it between the
resets of the pointers, no word is torn, lost, repeated or out of order; and no wake-up is lost
in any case.  The code does not look before it starts, so the first half is conditional
on when the client does so.  `CardIInv` has two parts.  `Threads` holds in any case: a thread waits
only with reason or about to be signalled, and the filler is gone during a reset.  `Orderly` holds
under the condition: it says which words each buffer holds, counted from what was delivered when
`getWords` took its buffer, and what each thread is about to publish or hand back; while
the pointers are being reset only that nothing is left in the ring.

**Commands** (`CommandPath_proofs`), for card and socket.  `PathCorrect`: the rings do not overflow and client and daemon
stay in step.  `RepliesAreOwn`: `sendCommand` returns the reply to its own last
attempt.  `CallIsImplemented`: the path implements `RemoteCall`.  The invariant orders
everything that is under way (attempts in the ring or the packets, replies on their way or
queued) against the serial numbers that are in use, so that a reply with the number of the
request in service is that request's.  All three assume `WholeReplies`: with a reply of 2 to 17 bytes
client and daemon do not stay in step, and these properties are false (section 6).

**The pipeline** (`OverlappedEventHandler_proofs`), for any number of handlers, blocks and CPUs, and any
choice of handlers with a worker of their own.

* `PipelineTypes`, `PipelineCorrect`: `PipelineInv` says that there are counts
  `out[h]`, how many blocks have left handler `h`, such that the blocks with a
  handler are the next ones, without a gap, and every block is with some
  handler, between two, or out.  The counts are not variables of the program,
  nor can they be written down without recursion along the handlers; hence the
  quantifier, and the proof of each step names the new ones.
* `PipelineIsAStream`: blocks leave in order, each once, and all of them
  before the next step.
* `OutputIsReady`, `JobsCorrect`, `SingleWorkersAreSerial`.  `JobsIInv` says where the job of each
  block is: with the main thread, in a pool's queue (which ascends), in exactly one thread's
  hands, or handled; and that a pool whose threads have been told to end has none.

**The raw files** (`RawReader_proofs`), for any number of frames, events and steps, and wherever the writer is killed.

* `RawTypes`, `DataIsThere`, `ReaderNeverAborts`: `RawInv` adds that when the index line is
  about to be written nothing is left in the data file's buffer, and that a file that is not a
  calibration's has frames only.  It also has `lastFrameWasLost0 = FALSE`, without which
  the reader's count of lost frames would not keep its type, and which is why it is always
  zero (section 6).
* `StepsAreAccounted`: of a step with its frames in order, `stepLostFrames0` counts the IDs
  that are missing or lost.  The proof adds one frame at a time: the IDs between the last one
  and it are missing, and no earlier one changes.
* `LogIsImplemented`: the files implement `StepLog`.  `WriterSays` says what the data since the
  step began say of the frames that were acquired in it: the same events with the same
  times, in order if the frames were, or how often each word has come; that every line of
  the index says so of a finished step; and `LinesOnDisk`, how many of the lines are out of the buffer.
* `StepsAreRead`: `RoundTrip`.  `ReaderSays` adds that the blocks that were passed on, with
  the one that is being filled, have the events of the records that were read, and, for
  frames in order, that the blocks follow each other.

**The calibration programs** (`Calibration_proofs`).  `JobsCorrect`: the number of processes that
have not been waited for is `nWorkers`, it is bounded, and the table is adjusted and written when
there is none.  `AsicsAreCalibrated`: every ASIC with events is forked for.  The
invariant `JobsIInv` (`JobsInduction`) relates the shared position of the list to what each process has
unread: though processes that end move it back, every line that it has gone past is in the main
program's buffer or its ASIC was begun, and at the end of the file it has gone past all.
For any finite sets of ASICs, channels and TACs; `InputsAssumption` says what an event is.
`TDCTablesAreRight` and `QDCTablesAreRight` say what the table holds of an ASIC that one process
calibrated to its end (`Sound`), whatever the fits find and whichever other processes crash,
are killed or calibrate an ASIC twice: the entries with enough data and good fits, of the TDC only
those of channels that have all of theirs, and offsets that differ within a branch as the data
say.  Their invariant is `CalibrationIInv` (`TablesInduction`):

* `Filed`: as long as the temporary files are there, the records that a process counts for an
  entry have as many hits as the events, sorted so far, that belong to it and are not saturated.
  Both are sums over sets; `FreqsAdd` and `FreqsSame` say how such a sum changes.
* `AloneIn`: at most one process is at work on an ASIC that was begun once, and none when it is
  finished.  Without this nothing could be said of the shared table: two processes on one
  ASIC add their shifts twice.
* `TDCSays`, `QDCSays`: what that one process has made of its ASIC's part of the table at the
  point where it is (`TDCAt`, `QDCAt`): after the first pass the offsets are those of the data, so that later
  passes find no shift.  A process changes no other ASIC's part (`TDCStep`, `QDCStep`), and neither
  do those of ASICs that were begun twice or whose processes were killed.
* `Relative`: an adjusted table's offsets differ as the data say.  `Adjusts` shows it of
  `AdjustCalibrationTable`, which subtracts one average per branch from all of the branch's entries.

**The client's caches** (`AsicConfiguration_proofs`), for any ASICs, channels, values,
tries and faults.  `CacheIsRight`, `SetIsRight` and `RefreshIsRight` have one invariant,
`AsicInv`.  The first two say that a cache entry is what the register last said, and that a call which
returns has seen it so, of all registers but those that were reset by an `initializeSystem` that
failed before it cleared the cache and that have not answered since (section 6 says what
they may lead to); a forced call excepts none.  `AsicInv` adds what a call has behind it: what `getAsicsConfig` has read is still there,
and an ASIC has an entry only when nothing is left to read of it; what `setAsicsConfig` has
been to is in the cache and, if forced, in the ASIC; the summary is right unless this
call is going to make it anew; and `initializeSystem` writes to ASICs only when there is no
cache.  That the last register to be read of an ASIC is its last channel's
(`FirstIs`, `LastIs`) is what makes the summary of `getAsicsConfig` the one that
`RefreshIsCurrent` speaks of.

**The conversion programs** (`Conversion_proofs`), for all six, any configuration files, hits,
blocks, steps and options.  `HitsAreCalibrated`: a hit's time comes from the last lines that the
files have for it, or it is dropped.  `HitsAreGrouped` and `PhotonsArePaired`: what
`SimpleGrouper` and `CoincidenceGrouper` find with searches that end early is all that a search
of the whole block would find.  `BestHitsAreKept`: the one hit per channel that `_event` and
`_trigger` write is the best.  `EventsAreWritten`: the index covers each step's events
exactly, and the share of events that was asked for is written.

* `IInv` (`Inductive`) says that the configuration is what one of the loaders makes of the files
  (`Configured`), that the last block is what the program's handlers can make of one of the
  step's blocks (`LastOK`), and that files and index account for the events so far (`IndexOK`,
  `EntriesOK`, `ShareIsKept`).  The first three theorems then follow from the handlers
  alone: from what each of them returns for a block whose hits have fine times that a
  calibration can produce.
* What a loader makes of the lines of a file is a fold over them.  `Builds` describes a fold by its
  intermediate values, and for each file a lemma says that after `k` lines an entry is that
  of the last line for it among the first `k` (`TacsLoaded` and the like).
  `SimpleGrouper`'s loop is such a fold too, with `Grouped` as the invariant of the loop:
  the groups so far are disjoint, every hit that has been passed is in one, and no free hit is near the
  first of any.
* The sorter puts hits into bins by their coarse times, and a calibration moves a time by at most
  `MaxOffset`; hence two hits that are passed on in the wrong order are at most `Slack` apart
  (`HitsOK`).  `HitsAreGrouped` assumes `Slack <= Overlap`, and `PhotonsArePaired`
  `TimeWindow + Slack <= Overlap`, because a photon has the time of its first hit and groups may
  begin up to a window apart.  Without this the searches do end too early.  With the code's
  overlap of 160 quarters and the default window of 20 clocks, `MaxOffset` may be up to 68 and 28
  quarters, 17 and 7 clocks; an offset is a phase, which is about a clock, and the TAC's t0.
* `ConversionAssumption` says what data the programs are given: files whose lines have values of their
  types, fine times that some phase of the hit's TAC produces, and hits that can be told
  apart (they have numbers for this purpose).

**Model-checked only.**

* All liveness properties, which the prover has no rule for.
* The three properties that are shown to be violated (section 6).

The library's rules for induction take an operator as a parameter, which the provers
cannot be given.  `RawReader_proofs` and `Conversion_proofs` go without them.  For the one recursive
definition that the former's properties need, `FlattenSeq`, `SetInduction` is derived for sets from the
well-foundedness of `<`, and from it that a flattened sequence exists, is unique, and what
appending to it does (`FlattensExists`, `FlattensUnique`, `FlattenAppend`).  `Calibration_proofs` does
the same for the sums of the community modules (`SumsExist`, `SumsAgree`, `SumsAdd`).

## 6. Where the code and what it says differ

*Shown by a run that ends in a counterexample*; `PROJECT.json` quotes the lines.

* `daq_sync`: `synchronizeDataToConfig` does not discard frames that are still on
  their way, because `DAQFrameServer` ignores the minimum frame ID.
* `commands_large`: a command of more than 8 words is refused by
  `DAQFrameServer`, and the -1 with which it says so goes to the client as a length
  of 65535, for which it waits for ever.  Every command that configures an ASIC is
  that long.
* `calibration_ends`: both calibration programs read the list of files while the
  processes they have forked share its position, and move it back when they exit.
  Lines are read again, ASICs are calibrated again, at times by two processes at
  once, and files that are never closed use up the descriptors: then the program ends
  with "Could not open" and no table.

*Met while modelling, without a run*.

The daemon and what reads from it:

* With a UDP server, a synchronisation lets at most one frame from before it through
  (`SyncLetsOneThrough`): the worker compares with the minimum before it publishes
  (`UDPFrameServer.cpp:128`).
* `acquireAsBytes` skips a block that goes round the end of the pointers' range
  (`shm_raw_py.cpp:27`).
* The limit on a frame's size is the number of slots, not of a slot's words
  (`DAQFrameServer.cpp:226`).  `NoOverwrite` fails with `MaxSpill` > 0.
* After a stop, one frame of the old acquisition may be left in the queue, or several
  of a datagram: the worker publishes what it was filling (`FrameServer.cpp:105`).
* The daemon does not stop on a signal while no acquisition runs: the worker
  stays in `getWords`, and `stopWorker` in its join (`FrameServer.cpp:173`).
* A restart of the card right after a stop can make `getWords` copy from buffers
  that have not been filled or are being filled, return words again, or run past the end of
  its buffer: `DAQFrameServer.cpp:50-51` does both back to back, and `PFP_KX7.cpp:320-322`
  resets the ring wherever the worker is in it.  TLC finds each of these without the condition
  that `CardInv` makes.
* A start whose sleep is too short leaves a frame of the earlier run in the queue (section 4).
* A reply of 2 to 17 bytes is sent to the client, which takes such a length for
  "no reply" and leaves the bytes in the socket (`daqd.py:944`); it reads them as
  the next answer's length.  `commands` has front ends whose replies are good,
  shorter than 2 bytes, or for somebody else.
* `UDPFrameServer` compares two bytes of the serial number and never clears its queue
  of replies: a client whose random first number (of 2^15) is that of a late reply to an
  earlier one is given that reply.  Its waits end at a time that is normalised with
  10^8 instead of 10^9 (lines 182-184).
* `UDPFrameServer.cpp:89` assigns to `errno` instead of comparing, so that any error of
  `recv` is passed over; and it may look for ever at a header that says zero words (126).

The files and their readers:

* `write_raw` has the types of frames swapped (`write_raw.cpp:186-193`): a normal
  frame without events is taken for one with all events lost.  After a gap, which
  sets "all lost", normal empty frames are not written and look lost.
* The reader's report of frames that "were missing all data" is always zero, because
  it passes over frames without events before it counts them (`RawReader.cpp:229`).
* `RawReader.cpp:88` tests `header[2] & 0x8000 != 0`, which C++ reads as
  `header[2] & 1`; line 98 checks the file's name instead of the opened file.
* `DAQv1Reader::getTriggerID` returns 0 (`DAQv1Reader.cpp:238`), which makes all hits of
  link 0 the trigger's.
* `merge_raw` goes on for ever when one of its files is shorter than it should be.

The client's caches (`daqd.py`):

* `setAsicsConfig` "Sets the configuration into the ASICs registers" (1130), but after a
  write that failed the register may have any value while the cache has the old one;
  setting the old one again is skipped.  `SetIsVerified` therefore speaks of what a
  register was last seen to hold.  `get_hvdac_config` is the same without readback.
* `initializeSystem` resets the ASICs before it clears its caches of them (375-384).  When one
  of the commands raises an exception, the cache is from before the reset: a program that
  goes on with the connection has registers skipped (1149) that were reset, and
  `setAsicsConfig` returns normally.  Without the exception that `CacheInv` and `SetIsVerified`
  make for these registers (`stale`), TLC finds this.  The repository's scripts end
  at such an exception; an interactive session need not.
* After an exception `getAsicsConfig` returns the part of the cache it had filled.
* The summary of refresh settings has each ASIC's last channel only when
  `getAsicsConfig` makes it (1125), all of them when `setAsicsConfig` does, and is not made
  again when an exception leaves the latter.
* A command without any reply raises `CommandErrorTimeout`, which is not the
  `ConfigurationError` that `initializeSystem` takes for an absent ASIC: it ends the call.

The calibration programs:

* `wait`'s status is ignored: a process that died has left some of its ASIC's entries,
  which are adjusted and written with the others.
* `process_qdc_calibration.cpp:484` says "Attempt to fit 9th order polynomial but fall
  back"; the loop begins with order 3 and ends at the first fit that fails.  The wrap of
  coarse times that line 386 applies when it fills is missing at 563.
* The file of trim settings is not checked to be open.

The conversion programs:

* `_event` and `_trigger` fill a ROOT tree for each kept group whatever the file type;
  with text, which the help calls the default, there is none
  (`convert_raw_to_event.cpp:291`, `convert_raw_to_trigger.cpp:297`).  They do not
  initialise `pedestals`.  A channel number of 128 or more is behind their arrays.
* A trigger's hit has region -1, with which the maps of regions are indexed
  (`SystemConfig.hpp:85`); a group of more than 256 hits is behind `GammaPhoton`'s array.
* TACs 4 to 7 of a channel are not initialised (`SystemConfig.cpp:136`).
* Coincidences across the edge of a block are not found.
* `convert_raw_to_raw` writes the end of the integration as `brQCoarse` (136), and frame IDs
  relative to the block (129).

## 7. What is left out, and why

* Contents of frames, other than what section 2 says; `parseDataFrame`'s checks, except
  that they may fail.
* A second client.  Scripts use the daemon one at a time.
* The card's registers, and what the hardware does with commands (they take
  effect or are lost, and are answered or not); the client's peripherals, test pulses,
  triggers and gates, which write registers and keep no state.
* Errors inside event handlers, and their counts for the report; the numbers in a row of
  output, other than whose they are; the names of files; the settings of the groupers.
* What `getWords` returns once it has run past its buffer; members of
  `PFP_KX7` that its constructor leaves uninitialised are taken to be zero.
* Errors in writing files, which end the writer; the file of modes; event times
  within a frame.  The reader reads whole records.
* `DAQv1Reader`, which reads an older format as `RawReader` does its own.
* Writing past the end of shared memory or past `devNull` by an oversized
  frame: memory outside the model.
* What ROOT's fits find, and the plots; the quick scan of an ASIC, which is one pass of
  fits over a file.
* `DtFlyP`, which is not compiled; tables of bit fields, parsing of configuration files,
  bus transfers, production tests, measurement scripts and the GUI: sequences of
  calls without state of their own.

## 8. Plan

Done: the frame queue with both kinds of server, the client's acquisition and the
card's ring; commands and replies through card and socket; the thread pool and the
pipeline; the raw files; the calibration programs; configuration, event handlers and
conversion; the client's caches.

Proved: all safety properties of the queue, the card, the commands, the pipeline, the raw
files, the client's caches, the conversion programs and the calibration programs, and the refinements
of their abstract specifications.

Not modelled yet and worth it: a second client of the frame queue; event times within a
frame in both readers.
