---------------------------- MODULE FrameChannel ----------------------------
(***************************************************************************)
(* What a frame server promises its client: a bounded FIFO of frames.      *)
(*                                                                         *)
(* While the channel is open it delivers whole frames of the current       *)
(* acquisition in the order in which they were generated.  Frames may be   *)
(* lost on the way but are never repeated, reordered or torn.  Closing it  *)
(* empties it, and then it may show the reader a few frames more, of which *)
(* nothing is promised: those the worker was at.                           *)
(***************************************************************************)
EXTENDS Integers, Sequences

CONSTANTS
  Capacity,
  Stamp        \* the positions of frames in the stream

ChannelAssumption ==
  /\ Capacity \in Nat \ {0}
  /\ Stamp \subseteq Nat
  /\ 0 \in Stamp

Frame == [head : Stamp, whole : BOOLEAN]

VARIABLES
  queue,     \* the frames the client may read
  open,
  leaks,     \* how many frames have been shown after the closing
  batch,     \* how many frames the worker may be at, which never changes
  since,     \* the first frame of the current acquisition
  floor      \* no frame before this one will be put any more

channelVars == <<queue, open, leaks, batch, since, floor>>

ChannelTypeOK ==
  /\ queue \in Seq(Frame)
  /\ open \in BOOLEAN /\ leaks \in Nat /\ batch \in Nat
  /\ since \in Stamp /\ floor \in Stamp

ChannelInit ==
  /\ queue = <<>>
  /\ open = FALSE /\ leaks = 0 /\ batch \in Nat
  /\ since = 0 /\ floor = 0

Put(f) ==
  /\ open
  /\ Len(queue) < Capacity
  /\ f.whole /\ f.head >= floor
  /\ queue' = Append(queue, f)
  /\ floor' \in { n \in Stamp : n > f.head }
  /\ UNCHANGED <<open, leaks, batch, since>>

Leak(f) ==
  /\ ~open /\ leaks < batch
  /\ Len(queue) < Capacity
  /\ queue' = Append(queue, f)
  /\ leaks' = leaks + 1
  /\ floor' \in { n \in Stamp : n >= floor }
  /\ UNCHANGED <<open, batch, since>>

Lose ==
  /\ floor' \in { n \in Stamp : n > floor }
  /\ UNCHANGED <<queue, open, leaks, batch, since>>

Take(n) ==
  /\ queue' = SubSeq(queue, n + 1, Len(queue))
  /\ UNCHANGED <<open, leaks, batch, since, floor>>

\* Nothing of an earlier acquisition will be put after the opening.
Open ==
  /\ floor >= since
  /\ queue' = <<>>
  /\ open' = TRUE /\ leaks' = 0
  /\ UNCHANGED <<batch, since, floor>>

\* A new acquisition may begin to be prepared while the channel is closed.
Close ==
  /\ queue' = <<>>
  /\ open' = FALSE /\ leaks' = 0
  /\ UNCHANGED batch
  /\ since' \in { n \in Stamp : n >= since }
  /\ floor' \in { n \in Stamp : n >= floor }

ChannelNext ==
  \/ \E f \in Frame : Put(f) \/ Leak(f)
  \/ Lose
  \/ \E n \in 1 .. Len(queue) : Take(n)
  \/ Open
  \/ Close

ChannelSpec == ChannelInit /\ [][ChannelNext]_channelVars

-----------------------------------------------------------------------------
\* An open channel holds whole frames of the current acquisition only, each
\* later than the one before it, and all of them earlier than what is put next.
InOrder ==
  open =>
    /\ \A i \in 1 .. Len(queue) :
         queue[i].whole /\ queue[i].head >= since /\ queue[i].head < floor
    /\ \A i, j \in 1 .. Len(queue) : i < j => queue[i].head < queue[j].head

\* The channel never holds more than it has room for.
Bounded == Len(queue) <= Capacity
=============================================================================
