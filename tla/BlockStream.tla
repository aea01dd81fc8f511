---------------------------- MODULE BlockStream ----------------------------
(***************************************************************************)
(* What a pipeline of event handlers promises the program that reads a     *)
(* file: the blocks of a step come out in the order in which they went in, *)
(* each once, and all of them before the next step begins.                 *)
(***************************************************************************)
EXTENDS Integers, Sequences

VARIABLES
  pushed,      \* how many blocks have gone in
  passed       \* those that have come out

streamVars == <<pushed, passed>>

StreamInit == pushed = 0 /\ passed = <<>>

Push == pushed' = pushed + 1 /\ UNCHANGED passed

Pass ==
  /\ Len(passed) < pushed
  /\ passed' = Append(passed, Len(passed) + 1)
  /\ UNCHANGED pushed

NewStep ==
  /\ Len(passed) = pushed
  /\ pushed' = 0 /\ passed' = <<>>

StreamNext == Push \/ Pass \/ NewStep

StreamSpec == StreamInit /\ [][StreamNext]_streamVars
=============================================================================
