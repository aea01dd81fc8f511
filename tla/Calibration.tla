----------------------------- MODULE Calibration -----------------------------
(***************************************************************************)
(* The two calibration programs as a whole.  With --keep-temporary a run   *)
(* may be followed by one with --no-sorting, which reads the files left.   *)
(***************************************************************************)
EXTENDS TDCCalibration, QDCCalibration

CONSTANT Inputs      \* the data files considered

ASSUME InputsAssumption ==
  Inputs \subseteq Seq([asic : Asics, channel : Channels, tac : Tacs, freq : Nat, step : Int])

VARIABLE program

vars == <<program, phase, sortVars, jobVars, kids, table, tsv, finished>>

TDCMain ==
  /\ program = "tdc"
  /\ phase = "sort" /\ table = TDCTable

QDCMain ==
  /\ program = "qdc"
  /\ phase = "sort" /\ table = QDCTable

\* --fake: nothing is sorted nor calibrated.
FakeMain ==
  /\ program = "fake"
  /\ phase = "write" /\ table = FakeTable

Init == events \in Inputs /\ JobsInit /\ (TDCMain \/ QDCMain \/ FakeMain)

\* The next run's main begins with the sorted files of this one.
RunAgain ==
  /\ phase = "done" /\ list # <<>>
  /\ phase' = "stat"
  /\ stream' = FromStart
  /\ opened' = 0 /\ started' = [a \in Asics |-> 0] /\ finished' = {}
  /\ table' = IF program = "tdc" THEN TDCTable ELSE QDCTable
  /\ tsv' = {}
  /\ UNCHANGED <<program, sortVars, list, nWorkers, maxWorkers, kids>>

Delete ==
  /\ program # "fake"
  /\ \E keep \in BOOLEAN : DeleteTemporaryFiles(keep)

\* What the main program does.
Main ==
  /\ \/ program = "tdc" /\ \/ TDCSortData \/ TDCCalibrateAllAsics
                           \/ AdjustCalibrationTable \/ TDCWriteTable
     \/ program = "qdc" /\ (QDCSortData \/ QDCCalibrateAllAsics \/ QDCTableDone)
     \/ program # "tdc" /\ QDCWriteTable
     \/ Delete
  /\ UNCHANGED program

\* What a process does.
Process(p) ==
  /\ IF program = "tdc" THEN TDCProcess(p) ELSE QDCProcess(p)
  /\ UNCHANGED program

Ended(p)  == Exit(p) /\ UNCHANGED program
Killed(p) == Kill(p) /\ UNCHANGED program

Next == Main \/ RunAgain \/ \E p \in Pids : Process(p) \/ Ended(p) \/ Killed(p)

Spec == Init /\ [][Next]_vars

\* The main program and the processes are scheduled; wait returns when it can.
Fairness ==
  /\ WF_vars(Main)
  /\ \A p \in Pids : WF_vars(Process(p) \/ Ended(p))

FairSpec == Spec /\ Fairness

-----------------------------------------------------------------------------

Phases == {"sort", "stat", "next", "wait", "drain", "table", "write", "delete", "done",
           "failed"}

\* The variables keep their types; nWorkers counts the processes.
TypeOK ==
  /\ phase \in Phases /\ program \in {"tdc", "qdc", "fake"}
  /\ sorted \in 0 .. Len(events)
  /\ list \in Seq(Asics) /\ stream.lines \in Seq(Asics) /\ stream.at \in 0 .. Cardinality(Asics)
  /\ opened \in 0 .. DescriptorLimit /\ maxWorkers \in 1 .. MaxWorkers
  /\ nWorkers = Cardinality(Pids \ Free)
  /\ started \in [Asics -> 0 .. 2] /\ finished \subseteq Asics

\* The shared table is adjusted and written when every process that filled it
\* has ended and been waited for, whatever the order in which they end.
TableIsQuiet ==
  phase \in {"table", "write", "delete", "done"} => Free = Pids

\* "Restrict number of worker processed based on temporary file size and
\* available RAM": no more than maxWorkers calibrate at a time.
WorkersAreBounded == Cardinality({ p \in Pids : Running(p) }) <= maxWorkers

\* The main program knows of its processes what it must: how many there are, that
\* they are not too many, and that none is left when it uses what they have made.
JobsInv == TypeOK /\ TableIsQuiet /\ WorkersAreBounded

\* Though processes move the position of the list while the main program reads
\* it, no ASIC of the list is passed over.
NoAsicIsMissed ==
  phase \in {"table", "write", "delete"} /\ program # "fake" =>
    \A e \in ToSet(events) : started[e.asic] > 0

\* ASICs that were calibrated once, to the end.  (One that is calibrated by two
\* processes at a time may get the corrections of both.)
Sound == { a \in finished : started[a] = 1 }

\* What the data say of an entry, straight from the events.
Counts(a, c, t) ==
  MapThenSumSet(LAMBDA i : events[i].freq,
    { i \in DOMAIN events : /\ <<events[i].asic, events[i].channel, events[i].tac>> = <<a, c, t>>
                            /\ program = "qdc" => events[i].step # -1 })

TDCGood(a, c, t, b) == Counts(a, c, t) >= MinEntries /\ Shape[<<a, c, t, b>>] = "good"

\* The table of process_tdc_calibration holds a channel with all its TACs, if
\* all could be calibrated, and otherwise not at all; and the offsets of two
\* entries of a branch differ by what their data say.
TDCTableIsRight ==
  program = "tdc" /\ phase = "delete" =>
    /\ \A g \in TDCEntries :
         g[1] \in Sound =>
           ((\E row \in tsv : row.gid = g) <=>
              \A t \in Tacs, b \in {"T", "E"} : TDCGood(g[1], g[2], t, b))
    /\ \A r, s \in tsv :
         /\ {r.gid[1], s.gid[1]} \subseteq Sound
         /\ r.gid[4] = s.gid[4]
         => r.t0 - s.t0 = T0[r.gid] - T0[s.gid]

\* The table of process_qdc_calibration holds the TACs that could be
\* calibrated, saturated events left out.
QDCTableIsRight ==
  program = "qdc" /\ phase = "delete" =>
    \A g \in QDCEntries :
      g[1] \in Sound =>
        (([gid |-> g] \in tsv) <=> Counts(g[1], g[2], g[3]) >= MinEntries /\ g \notin NoCurve)

\* A run of the program comes to an end, whichever processes are killed.
Ends == phase = "stat" ~> phase \in {"done", "failed"}

-----------------------------------------------------------------------------
(* What the sources say, and the code does not do.                         *)

\* "Ensure we have at least one worker or the software does not run properly":
\* with one or more, the program gets to its end, as long as it can open a file
\* for every line of the list.
RunsProperly == phase = "failed" => Len(list) > DescriptorLimit
=============================================================================
