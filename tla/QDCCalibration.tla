--------------------------- MODULE QDCCalibration ---------------------------
(***************************************************************************)
(* process_qdc_calibration: an entry of the table per channel and TAC.     *)
(* With --fake the table is made from the trim settings alone.             *)
(***************************************************************************)
EXTENDS CalibrationJobs

CONSTANTS
  NoCurve,        \* entries whose data no polynomial of third order fits
  Trimmed         \* channels <<asic, channel>> with a line in the file of trims

QDCEntries == Asics \X Channels \X Tacs

ASSUME QDCAssumption ==
  /\ NoCurve \subseteq QDCEntries
  /\ Trimmed \subseteq Asics \X Channels

QDCTable == [g \in QDCEntries |-> [valid |-> FALSE]]

\* Events of the step -1 were taken with the charge saturated.
QDCRecords(e) ==
  << [gid |-> <<e.asic, e.channel, e.tac>>, freq |-> e.freq, saturation |-> e.step = -1] >>

QDCSortData == SortEvent(QDCRecords(NextEvent)) \/ CloseFiles

-----------------------------------------------------------------------------
(* calibrateAsic.                                                          *)

QDCKid(a, unread) == [asic |-> a, at |-> "clear", unread |-> unread, made |-> {}]

OwnQ(p)   == { g \in DOMAIN table : g[1] = kids[p].asic }
ValidQ(p) == { g \in OwnQ(p) : table[g].valid }

\* A slip: all events count.
AllEntries(g) ==
  LET records == files[g[1]]
  IN  MapThenSumSet(LAMBDA i : records[i].freq, { i \in DOMAIN records : records[i].gid = g })

\* Entries of an entry's histogram: saturated events are left out.
Unsaturated(g) ==
  LET records == files[g[1]]
  IN  MapThenSumSet(LAMBDA i : records[i].freq,
        { i \in DOMAIN records : records[i].gid = g /\ ~records[i].saturation })

EnoughCharge(g) == Unsaturated(g) >= MinEntries

\* An entry with enough data is invalid while it is fitted.
QDCClear(p) ==
  /\ kids[p].at = "clear"
  /\ table' = [g \in DOMAIN table |->
                 IF g \in OwnQ(p) /\ EnoughCharge(g) THEN [valid |-> FALSE] ELSE table[g]]
  /\ kids' = [kids EXCEPT ![p].at = "fit"]
  /\ UNCHANGED <<sortVars, jobVars, phase, tsv, finished>>

\* The loop over the orders of the polynomial ends with the first that fits,
\* and with the first that does not.
QDCFit(p) ==
  /\ kids[p].at = "fit"
  /\ table' = [g \in DOMAIN table |->
                 IF g \in OwnQ(p) \ NoCurve /\ EnoughCharge(g) THEN [valid |-> TRUE] ELSE table[g]]
  /\ kids' = [kids EXCEPT ![p].at = "book"]
  /\ UNCHANGED <<sortVars, jobVars, phase, tsv, finished>>

QDCBook(p) ==
  /\ kids[p].at = "book"
  /\ kids' = [kids EXCEPT ![p].at = "control", ![p].made = ValidQ(p)]
  /\ UNCHANGED <<sortVars, jobVars, phase, table, tsv, finished>>

QDCControl(p) ==
  /\ kids[p].at = "control"
  /\ ValidQ(p) \subseteq kids[p].made
  /\ kids' = [kids EXCEPT ![p].at = "summary"]
  /\ UNCHANGED <<sortVars, jobVars, phase, table, tsv, finished>>

QDCSummary(p) ==
  /\ kids[p].at = "summary"
  /\ ValidQ(p) \subseteq kids[p].made
  /\ kids' = [kids EXCEPT ![p].at = "exit"]
  /\ UNCHANGED <<sortVars, jobVars, phase, table, tsv, finished>>

QDCCrash(p) ==
  /\ kids[p].at \in {"control", "summary"}
  /\ ~(ValidQ(p) \subseteq kids[p].made)
  /\ Crash(p)

QDCProcess(p) ==
  \/ QDCClear(p) \/ QDCFit(p) \/ QDCBook(p) \/ QDCControl(p) \/ QDCSummary(p) \/ QDCCrash(p)

-----------------------------------------------------------------------------

QDCCalibrateAllAsics ==
  \/ \E n \in 1 .. MaxWorkers : ChooseWorkers(n)
  \/ ForkKid(QDCKid(NextAsic, LinesAfter)) \/ OpenFails \/ EndOfList
  \/ \E p \in Pids : Reap(p)

\* --fake: an entry is valid if its channel has a trim.
FakeTable == [g \in QDCEntries |-> [valid |-> <<g[1], g[2]>> \in Trimmed]]

\* The table is written as soon as all processes have ended.
QDCTableDone ==
  /\ phase = "table" /\ phase' = "write"
  /\ UNCHANGED <<sortVars, jobVars, kids, table, tsv, finished>>

QDCRow(g) == [gid |-> g]

QDCWriteTable == WriteRows({ QDCRow(g) : g \in ValidEntries })
=============================================================================
