------------------------------ MODULE StepLog ------------------------------
(***************************************************************************)
(* What the files of an acquisition promise: whoever reads them, at any    *)
(* time and whatever becomes of the program that writes them, finds the    *)
(* steps that have been completed, in their order, each with all of its    *)
(* events or, in a file of a calibration, with how often each has come.    *)
(***************************************************************************)
EXTENDS Integers, Sequences

CONSTANTS
  EventsOf(_), CountsOf(_)     \* of a sequence of frames

VARIABLES
  inFull,      \* FALSE for a calibration
  current,     \* the frames of the step that is being acquired
  log          \* what can be read

logVars == <<inFull, current, log>>

LogInit == inFull \in BOOLEAN /\ current = <<>> /\ log = <<>>

Take ==
  /\ Len(current') = Len(current) + 1
  /\ SubSeq(current', 1, Len(current)) = current
  /\ UNCHANGED <<inFull, log>>

Commit ==
  /\ log' = Append(log, IF inFull THEN EventsOf(current) ELSE CountsOf(current))
  /\ current' = <<>>
  /\ UNCHANGED inFull

LogNext == Take \/ Commit

LogSpec == LogInit /\ [][LogNext]_logVars
=============================================================================
