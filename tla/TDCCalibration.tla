--------------------------- MODULE TDCCalibration ---------------------------
(***************************************************************************)
(* process_tdc_calibration: an entry of the table per channel, TAC and     *)
(* branch, which holds whether its TAC could be calibrated and the offset  *)
(* t0 that three passes over the data correct.                             *)
(*                                                                         *)
(* What ROOT's fits find is a property of the data: Shape says at which of *)
(* calibrateAsic's tests an entry fails, T0 the offset its data have.      *)
(***************************************************************************)
EXTENDS CalibrationJobs

CONSTANTS
  Shape,          \* what the fits make of an entry's data
  T0              \* the offset that an entry's data show

TDCEntries == Asics \X Channels \X Tacs \X {"T", "E"}

ASSUME TDCAssumption ==
  /\ Shape \in [TDCEntries -> {"good", "no edge", "bad slope", "bad fit"}]
  /\ T0 \in [TDCEntries -> Int]

TDCTable == [g \in TDCEntries |-> [valid |-> FALSE, t0 |-> 0]]

\* Every event gives one record per branch.
TDCRecords(e) ==
  << [gid |-> <<e.asic, e.channel, e.tac, "T">>, freq |-> e.freq],
     [gid |-> <<e.asic, e.channel, e.tac, "E">>, freq |-> e.freq] >>

TDCSortData == SortEvent(TDCRecords(NextEvent)) \/ CloseFiles

-----------------------------------------------------------------------------
(* calibrateAsic.                                                          *)

TDCKid(a, unread) ==
  [asic |-> a, at |-> "fit", unread |-> unread, iter |-> 0, shift |-> <<>>]

\* Entries are <<asic, ...>>.
Own(p)   == { g \in DOMAIN table : g[1] = kids[p].asic }
Valid(p) == { g \in Own(p) : table[g].valid }

\* Entries of the histogram of an entry, with what the records count for.
Entries(g, records) ==
  MapThenSumSet(LAMBDA i : records[i].freq, { i \in DOMAIN records : records[i].gid = g })

EnoughData(g)   == Entries(g, files[g[1]]) >= MinEntries
HasEdge(g)      == Shape[g] # "no edge"
SlopeInRange(g) == Shape[g] # "bad slope"
GoodFit(g)      == Shape[g] # "bad fit"

Fitted(g) == EnoughData(g) /\ HasEdge(g) /\ SlopeInRange(g) /\ GoodFit(g)

\* An entry that fails a test is left as it was.
TDCFit(p) ==
  /\ kids[p].at = "fit"
  /\ table' = [g \in DOMAIN table |->
                 IF g \in Own(p) /\ Fitted(g) THEN [valid |-> TRUE, t0 |-> 0] ELSE table[g]]
  /\ kids' = [kids EXCEPT ![p].at = "pass"]
  /\ UNCHANGED <<sortVars, jobVars, phase, tsv, finished>>

nIterations == 3

\* (Histograms are made for the entries valid after the fits.  One that becomes
\* valid later would end the process, but that takes three processes at work on
\* one ASIC, more than MaxWorkers allows here.)
\*
\* A pass over the data finds how far the estimates are off, with the t0 of
\* this moment; the last pass only fills the final histograms.
TDCPass(p) ==
  /\ kids[p].at = "pass"
  /\ kids' = [kids EXCEPT
       ![p].at = IF kids[p].iter < nIterations THEN "shift" ELSE "check",
       ![p].shift = [g \in Valid(p) |-> T0[g] - table[g].t0]]
  /\ UNCHANGED <<sortVars, jobVars, phase, table, tsv, finished>>

\* Nothing is added for an entry that became valid since the pass.
TDCShift(p) ==
  /\ kids[p].at = "shift"
  /\ table' = [g \in DOMAIN table |->
                 IF g \in Valid(p) \cap DOMAIN kids[p].shift
                 THEN [table[g] EXCEPT !.t0 = @ + kids[p].shift[g]]
                 ELSE table[g]]
  /\ kids' = [kids EXCEPT ![p].at = "pass", ![p].iter = @ + 1, ![p].shift = <<>>]
  /\ UNCHANGED <<sortVars, jobVars, phase, tsv, finished>>

SameChannel(g, h) == g[1] = h[1] /\ g[2] = h[2]

\* A slip: only the entry itself is looked at.
EntryOK(g) == table[g].valid

ChannelOK(g) == \A h \in DOMAIN table : SameChannel(g, h) => table[h].valid

\* A channel of which one entry is not calibrated is not used at all.
TDCCheck(p) ==
  /\ kids[p].at = "check"
  /\ table' = [g \in DOMAIN table |->
                 IF g \in Own(p) /\ ~ChannelOK(g)
                 THEN [table[g] EXCEPT !.valid = FALSE] ELSE table[g]]
  /\ kids' = [kids EXCEPT ![p].at = "exit", ![p].shift = <<>>]
  /\ UNCHANGED <<sortVars, jobVars, phase, tsv, finished>>

TDCProcess(p) ==
  TDCFit(p) \/ TDCPass(p) \/ TDCShift(p) \/ TDCCheck(p)

-----------------------------------------------------------------------------

TDCCalibrateAllAsics ==
  \/ \E n \in 1 .. MaxWorkers : ChooseWorkers(n)
  \/ ForkKid(TDCKid(NextAsic, LinesAfter)) \/ OpenFails \/ EndOfList
  \/ \E p \in Pids : Reap(p)

\* The average offset of the valid entries of a branch.
Average(b) ==
  LET valid == { g \in TDCEntries : g[4] = b /\ table[g].valid }
  IN  IF valid = {} THEN 0
      ELSE MapThenSumSet(LAMBDA g : table[g].t0, valid) \div Cardinality(valid)

\* Offsets become relative to the average of their branch.
AdjustCalibrationTable ==
  /\ phase = "table"
  /\ table' = [g \in TDCEntries |->
                 IF table[g].valid THEN [table[g] EXCEPT !.t0 = @ - Average(g[4])] ELSE table[g]]
  /\ phase' = "write"
  /\ UNCHANGED <<sortVars, jobVars, kids, tsv, finished>>

TDCRow(g) == [gid |-> g, t0 |-> table[g].t0]

TDCWriteTable == WriteRows({ TDCRow(g) : g \in ValidEntries })
=============================================================================
