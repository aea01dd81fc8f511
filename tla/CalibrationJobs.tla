-------------------------- MODULE CalibrationJobs --------------------------
(***************************************************************************)
(* What process_tdc_calibration and process_qdc_calibration have in        *)
(* common: events are sorted into one temporary file per ASIC, a list file *)
(* names those files, and the main program reads the list and forks one    *)
(* process for each line of it.  The processes fill a table that all of    *)
(* them map.                                                               *)
(*                                                                         *)
(* The list file is open when the main program forks.  A process inherits  *)
(* the stream with what the main program has buffered and not yet read,    *)
(* and shares the file's position with it; when it calls exit, the C       *)
(* library moves the position back by that many bytes.  What the main      *)
(* program finds when it reads on depends on which processes have ended.   *)
(* Lines of the list have the same length here, and a position counts      *)
(* lines.                                                                  *)
(***************************************************************************)
EXTENDS Integers, Sequences, FiniteSetsExt, SequencesExt

CONSTANTS
  Asics,            \* the ASICs, numbered
  Channels, Tacs,   \* of an ASIC
  MinEntries,       \* how many events a TAC needs, 1000 in the code
  BufferLines,      \* how many lines of the list a stream's buffer holds
  DescriptorLimit,  \* how many temporary files the main program can have open
  MaxWorkers,       \* a bound on maxWorkers
  MayBeKilled       \* may the system end a process of the calibration?

ASSUME JobsAssumption ==
  /\ Asics \subseteq Nat /\ IsFiniteSet(Asics) /\ IsFiniteSet(Channels) /\ IsFiniteSet(Tacs)
  /\ BufferLines \in Nat \ {0} /\ DescriptorLimit \in Nat /\ MaxWorkers \in Nat \ {0}
  /\ MayBeKilled \in BOOLEAN

VARIABLES
  phase,        \* where the main program is
  events,       \* the events of the data file
  sorted,       \* how many of them have been sorted
  files,        \* what the temporary file of an ASIC holds
  list,         \* the lines of the list file
  stream,       \* the main program's stream on it: buffered lines, position, end
  opened,       \* how many data files the main program has opened
  nWorkers, maxWorkers,
  kids,         \* the processes
  table,        \* calibrationTable, in shared memory
  tsv,          \* the table that is written in the end
  started,      \* (history) how often an ASIC's calibration was begun, up to 2
  finished      \* (history) the ASICs whose calibration went to its end

jobVars == <<list, stream, opened, nWorkers, maxWorkers, started>>
sortVars == <<events, sorted, files>>

Pids == 1 .. MaxWorkers + 1

\* A process: its ASIC, where it is, the lines it inherited unread, the entries
\* it made histograms for, its pass over the data and what it found in it.
NoKid == [at |-> "none"]
Running(p) == kids[p].at \notin {"none", "ended"}
Free == { p \in Pids : kids[p].at = "none" }

FromStart == [lines |-> <<>>, at |-> 0, eof |-> FALSE]

JobsInit ==
  /\ sorted = 0 /\ files = [a \in Asics |-> <<>>]
  /\ list = <<>> /\ stream = FromStart /\ tsv = {}
  /\ opened = 0 /\ nWorkers = 0 /\ maxWorkers = 1
  /\ kids = [p \in Pids |-> NoKid]
  /\ started = [a \in Asics |-> 0] /\ finished = {}

-----------------------------------------------------------------------------
(* Sorting.                                                                *)

NextEvent == events[sorted + 1]

\* The records of an event are appended to its ASIC's file.
SortEvent(records) ==
  /\ phase = "sort" /\ sorted < Len(events)
  /\ files' = [files EXCEPT ![NextEvent.asic] = @ \o records]
  /\ sorted' = sorted + 1
  /\ UNCHANGED <<events, jobVars, phase, kids, table, tsv, finished>>

\* A slip: the loop stops before the last ASIC.
ListedBelowLast == { a \in Asics : files[a] # <<>> /\ \E b \in Asics : b > a /\ files[b] # <<>> }

\* A set in ascending order.
Ascending(S) ==
  { s \in [1 .. Cardinality(S) -> S] :
      ToSet(s) = S /\ \A i, k \in 1 .. Cardinality(S) : i < k => s[i] < s[k] }

\* The list names the files that were opened, by ASIC.
Listed == { a \in Asics : files[a] # <<>> }

CloseFiles ==
  /\ phase = "sort" /\ sorted = Len(events)
  /\ list' \in Ascending(Listed)
  /\ phase' = "stat"
  /\ UNCHANGED <<sortVars, stream, opened, nWorkers, maxWorkers, started, kids, table,
                 tsv, finished>>

-----------------------------------------------------------------------------
(* Reading the list.                                                       *)

\* A stream reads when its buffer is empty, and not again after the end.
Refilled(s) ==
  IF s.lines # <<>> \/ s.eof THEN s
  ELSE IF s.at >= Len(list) THEN [s EXCEPT !.eof = TRUE]
  ELSE LET end == Min({s.at + BufferLines, Len(list)})
       IN  [s EXCEPT !.lines = SubSeq(list, s.at + 1, end), !.at = end]

\* fscanf's format ends in white space: after a line it looks for more.
AfterLine(s) == Refilled([s EXCEPT !.lines = Tail(@)])

\* The first pass over the list finds the largest file, which with the memory
\* and the processors determines the number of processes.
ChooseWorkers(limit) ==
  /\ phase = "stat"
  /\ maxWorkers' = limit
  /\ stream' = FromStart
  /\ phase' = "next"
  /\ UNCHANGED <<sortVars, list, opened, nWorkers, started, kids, table, tsv, finished>>

\* Slips: one process not waited for; a wait for none.
MustDrainEarly(n)  == n > 1
MustDrainAlways(n) == n >= 0

MustWait(n)  == n >= maxWorkers
MustDrain(n) == n > 0

\* The line to be read, and how many lines are in the buffer after it.
NextAsic   == Refilled(stream).lines[1]
LinesAfter == Len(AfterLine(Refilled(stream)).lines)

\* The next line is read, its file opened, and a process forked for it.
ForkKid(newKid) ==
  /\ phase = "next" /\ Refilled(stream).lines # <<>>
  /\ opened < DescriptorLimit
  /\ opened' = opened + 1
  /\ stream' = AfterLine(Refilled(stream))
  /\ kids' = [kids EXCEPT ![Min(Free)] = newKid]
  /\ nWorkers' = nWorkers + 1
  /\ phase' = IF MustWait(nWorkers + 1) THEN "wait" ELSE "next"
  /\ started' = [started EXCEPT ![NextAsic] = Min({@ + 1, 2})]
  /\ UNCHANGED <<sortVars, list, maxWorkers, table, tsv, finished>>

\* The data files are never closed: open fails in the end, and the program
\* exits without a table.
OpenFails ==
  /\ phase = "next" /\ Refilled(stream).lines # <<>>
  /\ opened = DescriptorLimit
  /\ phase' = "failed"
  /\ UNCHANGED <<sortVars, jobVars, kids, table, tsv, finished>>

EndOfList ==
  /\ phase = "next" /\ Refilled(stream).lines = <<>>
  /\ stream' = Refilled(stream)
  /\ phase' = IF MustDrain(nWorkers) THEN "drain" ELSE "table"
  /\ UNCHANGED <<sortVars, list, opened, nWorkers, maxWorkers, started, kids, table,
                 tsv, finished>>

\* wait: whichever process has ended, and however it did.
Reap(p) ==
  /\ phase \in {"wait", "drain"}
  /\ kids[p].at = "ended"
  /\ kids' = [kids EXCEPT ![p] = NoKid]
  /\ nWorkers' = nWorkers - 1
  /\ phase' = CASE phase = "wait"  -> IF MustWait(nWorkers - 1) THEN "wait" ELSE "next"
                [] phase = "drain" -> IF MustDrain(nWorkers - 1) THEN "drain" ELSE "table"
  /\ UNCHANGED <<sortVars, list, stream, opened, maxWorkers, started, table, tsv, finished>>

-----------------------------------------------------------------------------
(* How a process ends.                                                     *)

\* The position goes back by what the process has not read; a position before
\* the beginning is refused.
SoughtBack(n) == IF stream.at >= n THEN [stream EXCEPT !.at = @ - n] ELSE stream

\* exit(0).
Exit(p) ==
  /\ kids[p].at = "exit"
  /\ stream' = SoughtBack(kids[p].unread)
  /\ kids' = [kids EXCEPT ![p].at = "ended"]
  /\ finished' = finished \cup {kids[p].asic}
  /\ UNCHANGED <<sortVars, phase, list, opened, nWorkers, maxWorkers, started, table, tsv>>

\* The system kills it, for want of memory say.
Kill(p) ==
  /\ MayBeKilled /\ Running(p)
  /\ kids' = [kids EXCEPT ![p].at = "ended"]
  /\ UNCHANGED <<sortVars, jobVars, phase, table, tsv, finished>>

\* It uses a histogram it has not made, for an entry that another process has
\* declared valid since.  ROOT's signal handler may call exit.
Crash(p) ==
  /\ kids' = [kids EXCEPT ![p].at = "ended"]
  /\ stream' \in {stream, SoughtBack(kids[p].unread)}
  /\ UNCHANGED <<sortVars, phase, list, opened, nWorkers, maxWorkers, started, table,
                 tsv, finished>>

-----------------------------------------------------------------------------

\* Only valid entries are written.
ValidEntries == { g \in DOMAIN table : table[g].valid }

WriteRows(rows) ==
  /\ phase = "write"
  /\ tsv' = rows
  /\ phase' = "delete"
  /\ UNCHANGED <<sortVars, jobVars, kids, table, finished>>

\* The temporary files and the list are removed, unless they are to be kept.
DeleteTemporaryFiles(keep) ==
  /\ phase = "delete"
  /\ phase' = "done"
  /\ IF keep THEN UNCHANGED <<files, list>>
     ELSE /\ files' = [a \in Asics |-> IF a \in ToSet(list) THEN <<>> ELSE files[a]]
          /\ list' = <<>>
  /\ UNCHANGED <<events, sorted, stream, opened, nWorkers, maxWorkers, started, kids, table, tsv, finished>>
=============================================================================
