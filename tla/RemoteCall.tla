----------------------------- MODULE RemoteCall -----------------------------
(***************************************************************************)
(* What sendCommand promises its caller: a command takes effect at the     *)
(* front end any number of times, but never after a later one has; when    *)
(* the call returns a reply, the command has been the last to take effect. *)
(***************************************************************************)
EXTENDS Integers, Sequences

VARIABLES
  called,       \* how many commands have been called
  effects,      \* the commands that have taken effect
  answered      \* the last command whose call has returned a reply

callVars == <<called, effects, answered>>

Latest == effects[Len(effects)]

CallInit == called = 0 /\ effects = <<>> /\ answered = 0

Call == called' = called + 1 /\ UNCHANGED <<effects, answered>>

TakeEffect(c) ==
  /\ c <= called
  /\ effects # <<>> => Latest <= c
  /\ effects' = Append(effects, c)
  /\ UNCHANGED <<called, answered>>

Return ==
  /\ effects # <<>> /\ Latest = called
  /\ answered' = called
  /\ UNCHANGED <<called, effects>>

CallNext == Call \/ (\E c \in 1 .. called : TakeEffect(c)) \/ Return

CallSpec == CallInit /\ [][CallNext]_callVars
=============================================================================
