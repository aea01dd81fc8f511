--------------------------- MODULE MCCalibration ---------------------------
(***************************************************************************)
(* Three ASICs.  The first has a channel with all TACs good and one that   *)
(* lacks data for a TAC; of the second, one entry cannot be fitted.        *)
(***************************************************************************)
EXTENDS Calibration

MCShape == [g \in TDCEntries |->
  IF g = <<2, 1, 1, "E">> THEN "bad fit" ELSE "good"]

\* Offsets that differ from entry to entry.
MCT0 == [g \in TDCEntries |-> 2 * g[1] + g[2] + (IF g[4] = "T" THEN 3 ELSE 0)]

Event(a, c, f, s) == [asic |-> a, channel |-> c, tac |-> 1, freq |-> f, step |-> s]

MCInputs ==
  { <<Event(2, 1, 2, 0), Event(1, 1, 2, 0), Event(1, 2, 1, 0), Event(1, 2, 1, -1),
      Event(2, 2, 2, 0)>>,
    <<Event(1, 1, 2, 0), Event(3, 1, 2, 0), Event(2, 2, 2, 0)>> }

MCNoCurve == {<<2, 1, 1>>}
MCTrimmed == {<<1, 1>>}
=============================================================================
