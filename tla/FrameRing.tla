----------------------------- MODULE FrameRing -----------------------------
(***************************************************************************)
(* Pointer arithmetic of the shared-memory frame queue.                    *)
(*                                                                         *)
(* The queue is an array of N slots.  Its two pointers run modulo 2*N, so  *)
(* that "full" and "empty" differ: the slot of a pointer is its value      *)
(* modulo N.  Both frame servers, the Python client and the shared-memory  *)
(* reader use this arithmetic; nothing here has a state.                   *)
(***************************************************************************)
EXTENDS Integers

CONSTANT N      \* MaxRawDataFrameQueueSize, 16*1024 in shm_raw.hpp

ASSUME QueueSizeAssumption == N \in Nat \ {0}

Slots    == 0 .. (N - 1)
Pointers == 0 .. (2 * N - 1)

\* The slot a pointer designates, and the pointer k frames further on.
SlotOf(p)     == p % N
Forward(p, k) == (p + k) % (2 * N)

\* The workers' test before they take a slot.
IsFull(w, r) == w # r /\ SlotOf(w) = SlotOf(r)

\* How many frames are between the read and the write pointer.
Occupancy(w, r) == (w - r) % (2 * N)

\* The slots that hold those frames.
UnreadSlots(w, r) == { SlotOf(r + i) : i \in 0 .. (Occupancy(w, r) - 1) }

\* The client's own computation of the same number, from the distance of
\* the two pointers.
FramesInBlock(w, r) ==
  LET distance == IF w >= r THEN w - r ELSE r - w
  IN  IF distance > N THEN 2 * N - distance ELSE distance

\* The client never hands more than half of the queue to the writer at once.
CappedBlock(w, r) ==
  IF FramesInBlock(w, r) > N \div 2 THEN N \div 2 ELSE FramesInBlock(w, r)
=============================================================================
