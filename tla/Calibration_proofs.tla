------------------------- MODULE Calibration_proofs -------------------------
(***************************************************************************)
(* Proofs about the processes of a calibration and the list they share,    *)
(* for any ASICs, channels and TACs, data files, numbers of processes and  *)
(* lengths of the buffer.                                                  *)
(***************************************************************************)
EXTENDS Calibration, FiniteSetTheorems, WellFoundedInduction, TLAPS

\* What there is to know of a process: its ASIC and what it inherited unread.
KidOK(k) ==
  /\ "at" \in DOMAIN k
  /\ k.at # "none" => /\ {"asic", "unread"} \subseteq DOMAIN k
                      /\ k.asic \in Asics /\ k.unread \in Nat
Kids ==
  /\ kids = [p \in Pids |-> kids[p]]
  /\ \A p \in Pids : KidOK(kids[p])

\* How many processes there may be, according to where the main program is.
Workers ==
  /\ nWorkers <= maxWorkers
  /\ phase = "next" => nWorkers < maxWorkers
  /\ phase = "drain" => nWorkers > 0
  /\ phase \in {"sort", "stat", "table", "write", "delete", "done"} => nWorkers = 0

Records == [gid : TDCEntries, freq : Nat] \cup [gid : QDCEntries, freq : Nat, saturation : BOOLEAN]

\* What has been sorted is in the files, and what is in a file gets listed.
Events == [asic : Asics, channel : Channels, tac : Tacs, freq : Nat, step : Int]
Sorting ==
  /\ events \in Seq(Events)
  /\ phase = "sort" => /\ files \in [Asics -> Seq(Records)]
                       /\ \A i \in 1 .. sorted : files[events[i].asic] # <<>>
Listing ==
  program # "fake" /\ phase # "sort" /\ (phase = "done" => list # <<>>) =>
    \A i \in 1 .. Len(events) : \E k \in 1 .. Len(list) : list[k] = events[i].asic

\* What the stream has gone past is in its buffer or was begun, though processes
\* that end move the position back; at the end of the file it has gone past all.
StreamSet == [lines : Seq(Asics), at : 0 .. Cardinality(Asics), eof : BOOLEAN]
Streams ==
  /\ stream \in StreamSet
  /\ Len(list) <= Cardinality(Asics)
GonePast(s, st) ==
  \A i \in 1 .. Len(list) : i <= s.at \/ s.eof =>
    st[list[i]] > 0 \/ \E k \in 1 .. Len(s.lines) : s.lines[k] = list[i]
Reading ==
  /\ phase \in {"next", "wait", "drain", "table", "write", "delete"} => GonePast(stream, started)
  /\ phase \in {"drain", "table", "write", "delete"} /\ program # "fake" =>
       stream.lines = <<>> /\ stream.eof

JobsIInv ==
  /\ TypeOK /\ Kids /\ Workers /\ Sorting /\ Listing /\ Streams /\ Reading

-----------------------------------------------------------------------------
(* Numbers and sets of processes.                                          *)

\* The lesser of two numbers.
LEMMA MinOfTwo ==
  ASSUME NEW x \in Int, NEW y \in Int
  PROVE  Min({x, y}) \in {x, y} /\ Min({x, y}) <= x /\ Min({x, y}) <= y
<1>1. \E z \in {x, y} : \A u \in {x, y} : z <= u
  BY DEF Min
<1> QED
  BY <1>1 DEF Min

\* The least process that is free.
LEMMA MinOfPids ==
  ASSUME NEW S \in SUBSET Pids, S # {}
  PROVE  Min(S) \in S
<1>1. S \subseteq Nat
  BY DEF Pids
<1>2. PICK x \in S : \A y \in S : ~(<<y, x>> \in OpToRel(<, Nat))
  BY <1>1, NatLessThanWellFounded, WFMin, Zenon
<1>3. \A y \in S : ~(y < x)
  <2>1. \A u, v \in Nat : u < v => <<u, v>> \in OpToRel(<, Nat)
    BY Zenon DEF OpToRel
  <2> QED
    BY <1>1, <1>2, <2>1, Zenon
<1>4. \A y \in S : x <= y
  BY <1>1, <1>3
<1> QED
  BY <1>4 DEF Min

\* Processes are counted.
LEMMA PidsCounted ==
  /\ IsFiniteSet(Pids) /\ Cardinality(Pids) = MaxWorkers + 1
  /\ \A S \in SUBSET Pids : IsFiniteSet(S) /\ Cardinality(S) \in Nat /\ Cardinality(S) <= MaxWorkers + 1
  /\ \A S \in SUBSET Pids : Cardinality(S) = 0 => S = {}
  /\ \A S \in SUBSET Pids : Cardinality(S) = MaxWorkers + 1 => S = Pids
  /\ \A S \in SUBSET Pids : \A p \in Pids \ S : Cardinality(S \cup {p}) = Cardinality(S) + 1
  /\ \A S \in SUBSET Pids : \A p \in S : Cardinality(S \ {p}) = Cardinality(S) - 1
<1>1. IsFiniteSet(Pids) /\ Cardinality(Pids) = MaxWorkers + 1
  <2>1. MaxWorkers + 1 \in Int /\ ~(1 > MaxWorkers + 1) /\ (MaxWorkers + 1) - 1 + 1 = MaxWorkers + 1
    BY JobsAssumption
  <2> QED
    BY <2>1, FS_Interval DEF Pids
<1>2. \A S \in SUBSET Pids : /\ IsFiniteSet(S) /\ Cardinality(S) <= MaxWorkers + 1
                             /\ Cardinality(S) = MaxWorkers + 1 => S = Pids
  BY <1>1, FS_Subset
<1>3. \A S \in SUBSET Pids : Cardinality(S) \in Nat
  BY <1>2, FS_CardinalityType
<1>4. \A S \in SUBSET Pids : Cardinality(S) = 0 => S = {}
  BY <1>2, FS_EmptySet
<1>5. \A S \in SUBSET Pids : \A p \in Pids \ S : Cardinality(S \cup {p}) = Cardinality(S) + 1
  BY <1>2, FS_AddElement
<1>6. \A S \in SUBSET Pids : \A p \in S : Cardinality(S \ {p}) = Cardinality(S) - 1
  BY <1>2, FS_RemoveElement
<1> QED
  BY <1>1, <1>2, <1>3, <1>4, <1>5, <1>6

-----------------------------------------------------------------------------
(* What a process does, as far as the others are concerned.                *)

\* One process of all moves on.
LEMMA OneMoves ==
  ASSUME Kids, NEW p \in Pids, Running(p), NEW k, KidOK(k), k.at # "none",
         kids' = [kids EXCEPT ![p] = k]
  PROVE  /\ Kids' /\ Free' = Free
         /\ \A q \in Pids : Running(q)' => Running(q)
<1>1. DOMAIN kids = Pids
  BY DEF Kids
<1>2. kids'[p] = k /\ \A q \in Pids : q # p => kids'[q] = kids[q]
  BY <1>1
<1>3. Kids'
  <2>1. kids' = [q \in Pids |-> kids'[q]]
    BY <1>1
  <2>2. \A q \in Pids : KidOK(kids'[q])
    BY <1>2 DEF Kids
  <2> QED
    BY <2>1, <2>2 DEF Kids, KidOK
<1>4. \A q \in Pids : kids'[q].at = "none" <=> kids[q].at = "none"
  BY <1>2 DEF Running
<1>5. \A q \in Pids : Running(q)' => Running(q)
  BY <1>2 DEF Running
<1> QED
  BY <1>3, <1>4, <1>5 DEF Free

KidStep(p) == Process(p) \/ Ended(p) \/ Killed(p)

\* A process leaves the main program alone; when it ends, it may move the position
\* of the list.
LEMMA KidSteps ==
  ASSUME Kids, NEW p \in Pids, KidStep(p)
  PROVE  /\ UNCHANGED <<program, phase, sortVars, list, opened, nWorkers, maxWorkers, started, tsv>>
         /\ Kids' /\ Free' = Free /\ \A q \in Pids : Running(q)' => Running(q)
         /\ stream' \in {stream, SoughtBack(kids[p].unread)}
         /\ finished' \subseteq finished \cup {kids[p].asic}
         /\ kids[p].unread \in Nat /\ kids[p].asic \in Asics
<1>1. KidOK(kids[p])
  BY DEF Kids
<1>2. Running(p)
  BY DEF KidStep, Process, Ended, Killed, Exit, Kill, TDCProcess, TDCFit, TDCPass, TDCShift, TDCCheck,
         QDCProcess, QDCClear, QDCFit, QDCBook, QDCControl, QDCSummary, QDCCrash, Running
<1>3. kids[p].at # "none"
  BY <1>2 DEF Running
<1>4. kids[p].unread \in Nat /\ kids[p].asic \in Asics
  BY <1>1, <1>3 DEF KidOK
<1>d. DOMAIN kids = Pids /\ "at" \in DOMAIN kids[p] /\ "asic" \in DOMAIN kids[p] /\ "unread" \in DOMAIN kids[p]
  BY <1>1, <1>3 DEF Kids, KidOK
<1>5. /\ kids' = [kids EXCEPT ![p] = kids'[p]] /\ DOMAIN kids'[p] = DOMAIN kids[p]
      /\ kids'[p].at # "none" /\ kids'[p].asic = kids[p].asic /\ kids'[p].unread = kids[p].unread
  <2>1. CASE TDCFit(p)
    BY <1>d, <2>1 DEF TDCFit
  <2>2. CASE TDCPass(p)
    BY <1>d, <2>2 DEF TDCPass
  <2>3. CASE TDCShift(p)
    BY <1>d, <2>3 DEF TDCShift
  <2>4. CASE TDCCheck(p)
    BY <1>d, <2>4 DEF TDCCheck
  <2>5. CASE QDCClear(p) \/ QDCFit(p) \/ QDCControl(p) \/ QDCSummary(p)
    BY <1>d, <2>5 DEF QDCClear, QDCFit, QDCControl, QDCSummary
  <2>6. CASE QDCBook(p)
    BY <1>d, <2>6 DEF QDCBook
  <2>7. CASE QDCCrash(p) \/ Exit(p) \/ Kill(p)
    BY <1>d, <2>7 DEF QDCCrash, Crash, Exit, Kill
  <2> QED
    BY <2>1, <2>2, <2>3, <2>4, <2>5, <2>6, <2>7 DEF KidStep, Process, Ended, Killed, TDCProcess, QDCProcess
<1>7. KidOK(kids'[p])
  BY <1>1, <1>3, <1>d, <1>5 DEF KidOK
<1>6. /\ UNCHANGED <<program, phase, sortVars, list, opened, nWorkers, maxWorkers, started, tsv>>
      /\ stream' \in {stream, SoughtBack(kids[p].unread)}
      /\ finished' \subseteq finished \cup {kids[p].asic}
  BY DEF KidStep, Process, Ended, Killed, Exit, Kill, Crash, TDCProcess, TDCFit, TDCPass, TDCShift, TDCCheck,
         QDCProcess, QDCClear, QDCFit, QDCBook, QDCControl, QDCSummary, QDCCrash, jobVars, sortVars
<1> QED
  BY <1>2, <1>4, <1>5, <1>6, <1>7, OneMoves

-----------------------------------------------------------------------------
(* Reading the list.                                                       *)

\* Filling the buffer passes over no line.
LEMMA Refill ==
  ASSUME NEW s \in StreamSet, list \in Seq(Asics), Len(list) <= Cardinality(Asics),
         NEW st, GonePast(s, st)
  PROVE  /\ Refilled(s) \in StreamSet
         /\ GonePast(Refilled(s), st)
         /\ Refilled(s).lines = <<>> => Refilled(s).eof
<1>0. /\ s.lines \in Seq(Asics) /\ s.at \in Nat /\ s.at <= Cardinality(Asics) /\ s.eof \in BOOLEAN
      /\ Cardinality(Asics) \in Nat /\ Len(list) \in Nat /\ BufferLines \in Nat \ {0}
      /\ s = [lines |-> s.lines, at |-> s.at, eof |-> s.eof]
  BY JobsAssumption, FS_CardinalityType DEF StreamSet
<1>1. CASE s.lines # <<>> \/ s.eof
  BY <1>1 DEF Refilled
<1>2. CASE s.lines = <<>> /\ ~s.eof /\ s.at >= Len(list)
  <2>1. Refilled(s) = [s EXCEPT !.eof = TRUE]
    BY <1>2 DEF Refilled
  <2>2. Refilled(s) = [lines |-> <<>>, at |-> s.at, eof |-> TRUE]
    BY <1>0, <1>2, <2>1
  <2>3. Refilled(s) \in StreamSet
    BY <1>0, <1>2, <2>2 DEF StreamSet
  <2>4. \A i \in 1 .. Len(list) : i <= s.at
    BY <1>0, <1>2
  <2>5. \A i \in 1 .. Len(list) : st[list[i]] > 0
    BY <1>2, <2>4 DEF GonePast
  <2> QED
    BY <2>2, <2>3, <2>5 DEF GonePast
<1>3. CASE s.lines = <<>> /\ ~s.eof /\ ~(s.at >= Len(list))
  <2> DEFINE end == Min({s.at + BufferLines, Len(list)})
  <2>a. s.at + BufferLines \in Int /\ s.at < s.at + BufferLines /\ Len(list) \in Int /\ s.at < Len(list)
    BY <1>0, <1>3
  <2>b. /\ end \in {s.at + BufferLines, Len(list)}
        /\ end <= s.at + BufferLines /\ end <= Len(list)
    BY <2>a, MinOfTwo, Zenon
  <2>1. end \in Int /\ s.at < end /\ end <= Len(list)
    BY <2>a, <2>b
  <2>2. Refilled(s) = [s EXCEPT !.lines = SubSeq(list, s.at + 1, end), !.at = end]
    BY <1>3 DEF Refilled
  <2> HIDE DEF end
  <2> DEFINE more == SubSeq(list, s.at + 1, end)
  <2>3. Refilled(s) = [lines |-> more, at |-> end, eof |-> FALSE]
    BY <1>0, <1>3, <2>2
  <2>4. /\ more \in Seq(Asics) /\ Len(more) = end - s.at
        /\ \A k \in 1 .. (end - s.at) : more[k] = list[s.at + k]
    BY <1>0, <2>1
  <2> HIDE DEF more
  <2>5. Refilled(s) \in StreamSet
    BY <1>0, <2>1, <2>3, <2>4 DEF StreamSet
  <2>6. more # <<>>
    BY <1>0, <2>1, <2>4
  <2>7. \A i \in 1 .. Len(list) : i <= end => st[list[i]] > 0 \/ \E k \in 1 .. Len(more) : more[k] = list[i]
    <3> SUFFICES ASSUME NEW i \in 1 .. Len(list), i <= end
                 PROVE  st[list[i]] > 0 \/ \E k \in 1 .. Len(more) : more[k] = list[i]
      OBVIOUS
    <3>1. CASE i <= s.at
      BY <1>0, <1>3, <3>1 DEF GonePast
    <3>2. CASE ~(i <= s.at)
      <4>1. i - s.at \in 1 .. Len(more) /\ i - s.at \in 1 .. (end - s.at) /\ s.at + (i - s.at) = i
        BY <1>0, <2>1, <2>4, <3>2
      <4>2. more[i - s.at] = list[i]
        BY <2>4, <4>1
      <4> QED
        BY <4>1, <4>2
    <3> QED
      BY <3>1, <3>2
  <2> QED
    BY <2>3, <2>5, <2>6, <2>7 DEF GonePast
<1> QED
  BY <1>1, <1>2, <1>3

\* After the line that is read, the next is looked for.
LEMMA ReadLine ==
  ASSUME NEW s \in StreamSet, list \in Seq(Asics), Len(list) <= Cardinality(Asics), s.lines # <<>>,
         NEW st \in [Asics -> 0 .. 2], GonePast(s, st),
         NEW su, su = [st EXCEPT ![s.lines[1]] = Min({@ + 1, 2})]
  PROVE  /\ s.lines[1] \in Asics /\ su \in [Asics -> 0 .. 2]
         /\ AfterLine(s) \in StreamSet /\ GonePast(AfterLine(s), su)
<1> DEFINE t == [s EXCEPT !.lines = Tail(@)]
<1>0. /\ s.lines \in Seq(Asics) /\ s.at \in 0 .. Cardinality(Asics) /\ s.eof \in BOOLEAN
      /\ s = [lines |-> s.lines, at |-> s.at, eof |-> s.eof]
  BY DEF StreamSet
<1>1. /\ s.lines \in Seq(Asics) /\ s.lines[1] \in Asics
      /\ t = [lines |-> Tail(s.lines), at |-> s.at, eof |-> s.eof]
      /\ Tail(s.lines) \in Seq(Asics)
  <2>1. s.lines[1] \in Asics /\ Tail(s.lines) \in Seq(Asics)
    BY <1>0
  <2>2. \A r : [s EXCEPT !.lines = r] = [lines |-> r, at |-> s.at, eof |-> s.eof]
    BY <1>0
  <2>3. t = [lines |-> Tail(s.lines), at |-> s.at, eof |-> s.eof]
    BY <2>2, Zenon
  <2> QED
    BY <1>0, <2>1, <2>3
<1>2. t \in StreamSet
  BY <1>0, <1>1 DEF StreamSet
<1>3. \A x \in 0 .. 2 : Min({x + 1, 2}) \in 1 .. 2
  <2> SUFFICES ASSUME NEW x \in 0 .. 2 PROVE Min({x + 1, 2}) \in 1 .. 2
    OBVIOUS
  <2>1. x + 1 \in Int /\ 2 \in Int
    OBVIOUS
  <2>2. Min({x + 1, 2}) \in {x + 1, 2} /\ Min({x + 1, 2}) <= 2
    BY <2>1, MinOfTwo, Zenon
  <2> QED
    BY <2>2
<1>4. /\ su \in [Asics -> 0 .. 2] /\ su[s.lines[1]] > 0
      /\ \A a \in Asics : st[a] > 0 => su[a] > 0
  <2>1. PICK a \in Asics : a = s.lines[1]
    BY <1>1
  <2>2. PICK n : n = Min({st[a] + 1, 2})
    OBVIOUS
  <2>3. n \in 1 .. 2
    BY <1>3, <2>2
  <2>4. su = [st EXCEPT ![a] = n]
    BY <2>1, <2>2
  <2>5. su[a] = n /\ DOMAIN su = Asics /\ \A b \in Asics : b # a => su[b] = st[b]
    BY <2>1, <2>4
  <2>6. \A b \in Asics : su[b] \in 0 .. 2 /\ (st[b] > 0 => su[b] > 0)
    <3> SUFFICES ASSUME NEW b \in Asics PROVE su[b] \in 0 .. 2 /\ (st[b] > 0 => su[b] > 0)
      OBVIOUS
    <3>1. st[b] \in 0 .. 2
      OBVIOUS
    <3>2. CASE b = a
      <4>1. n \in 0 .. 2 /\ n > 0
        BY <2>3
      <4> QED
        BY <2>5, <3>2, <4>1
    <3> QED
      BY <2>5, <3>1, <3>2
  <2>7. su \in [Asics -> 0 .. 2]
    BY <2>4, <2>5, <2>6
  <2>8. su[a] > 0
    BY <2>3, <2>5
  <2> QED
    BY <2>1, <2>6, <2>7, <2>8
<1>5. \A k \in 1 .. Len(s.lines) : k = 1 \/ (k - 1 \in 1 .. Len(Tail(s.lines)) /\ Tail(s.lines)[k - 1] = s.lines[k])
  BY <1>1
<1>6. \A i \in 1 .. Len(list) : list[i] \in Asics
  OBVIOUS
<1>7. GonePast(t, su)
  <2> SUFFICES ASSUME NEW i \in 1 .. Len(list), i <= s.at \/ s.eof
               PROVE  su[list[i]] > 0 \/ \E k \in 1 .. Len(Tail(s.lines)) : Tail(s.lines)[k] = list[i]
    BY <1>1 DEF GonePast
  <2>1. CASE st[list[i]] > 0
    BY <1>4, <1>6, <2>1
  <2>2. ASSUME NEW k \in 1 .. Len(s.lines), s.lines[k] = list[i]
        PROVE  su[list[i]] > 0 \/ \E m \in 1 .. Len(Tail(s.lines)) : Tail(s.lines)[m] = list[i]
    BY <1>4, <1>5, <2>2, ZenonT(60)
  <2> QED
    BY <2>1, <2>2 DEF GonePast
<1> HIDE DEF t
<1>8. Refilled(t) \in StreamSet /\ GonePast(Refilled(t), su)
  BY <1>2, <1>7, Refill
<1> QED
  BY <1>1, <1>4, <1>8 DEF AfterLine, t

-----------------------------------------------------------------------------
(* The actions of the main program.                                        *)

\* Only the main program's phase moves: an open fails, the table is ready, or written.
LEMMA PhaseMoves ==
  ASSUME JobsIInv, UNCHANGED <<program, sortVars, jobVars, kids, finished>>,
         \/ phase = "next" /\ phase' = "failed"
         \/ phase = "table" /\ phase' = "write"
         \/ phase = "write" /\ phase' = "delete"
         \/ phase' = phase
  PROVE  JobsIInv'
<1>1. /\ events' = events /\ sorted' = sorted /\ files' = files /\ list' = list /\ stream' = stream
      /\ opened' = opened /\ nWorkers' = nWorkers /\ maxWorkers' = maxWorkers /\ started' = started
      /\ program' = program /\ kids' = kids /\ finished' = finished
  BY DEF sortVars, jobVars
<1>2. Free' = Free
  BY <1>1 DEF Free
<1>3. phase' \in Phases
  BY DEF JobsIInv, TypeOK, Phases
<1>4. TypeOK'
  BY <1>1, <1>2, <1>3, Zenon DEF JobsIInv, TypeOK
<1>5. Kids' /\ Streams'
  BY <1>1, Zenon DEF JobsIInv, Kids, Streams
<1>6. Workers'
  BY <1>1 DEF JobsIInv, Workers
<1>7. Sorting'
  BY <1>1 DEF JobsIInv, Sorting
<1>8. Listing'
  BY <1>1 DEF JobsIInv, Listing
<1>9. GonePast(stream, started)' <=> GonePast(stream, started)
  BY <1>1 DEF GonePast
<1>10. Reading'
  BY <1>1, <1>9 DEF JobsIInv, Reading
<1> QED
  BY <1>4, <1>5, <1>6, <1>7, <1>8, <1>10 DEF JobsIInv

\* An event is sorted: its ASIC's file is not empty afterwards.
LEMMA SortStep ==
  ASSUME JobsIInv, UNCHANGED program, NEW r, r \in Seq(Records), r # <<>>, SortEvent(r)
  PROVE  JobsIInv'
<1>1. /\ events' = events /\ list' = list /\ stream' = stream /\ phase = "sort" /\ phase' = phase
      /\ opened' = opened /\ nWorkers' = nWorkers /\ maxWorkers' = maxWorkers /\ started' = started
      /\ program' = program /\ kids' = kids /\ finished' = finished
      /\ sorted < Len(events) /\ sorted' = sorted + 1
  BY DEF SortEvent, jobVars
<1>2. Free' = Free
  BY <1>1 DEF Free
<1>3. sorted' \in 0 .. Len(events)
  BY <1>1 DEF JobsIInv, TypeOK, Sorting
<1>4. TypeOK'
  BY <1>1, <1>2, <1>3, Zenon DEF JobsIInv, TypeOK
<1>5. Kids' /\ Streams'
  BY <1>1, Zenon DEF JobsIInv, Kids, Streams
<1>6. Workers' /\ Listing'
  BY <1>1 DEF JobsIInv, Workers, Listing
<1>7. Reading'
  BY <1>1 DEF Reading
<1>8. Sorting'
  <2>1. /\ sorted \in Nat /\ files \in [Asics -> Seq(Records)]
        /\ \A i \in 1 .. sorted : files[events[i].asic] # <<>>
        /\ \A i \in 1 .. Len(events) : events[i].asic \in Asics
    <3>2. \A i \in 1 .. Len(events) : events[i] \in Events
      BY DEF JobsIInv, Sorting
    <3>3. sorted \in Nat
      BY DEF JobsIInv, TypeOK
    <3>4. \A i \in 1 .. Len(events) : events[i].asic \in Asics
      BY <3>2 DEF Events
    <3> QED
      BY <1>1, <3>3, <3>4 DEF JobsIInv, Sorting
  <2>2. PICK a \in Asics : a = NextEvent.asic
    BY <1>1, <2>1 DEF NextEvent
  <2>3. files' = [files EXCEPT ![a] = files[a] \o r]
    BY <2>2 DEF SortEvent
  <2>4. files[a] \o r \in Seq(Records) /\ files[a] \o r # <<>>
    <3>1. files[a] \in Seq(Records)
      BY <2>1
    <3>2. Len(files[a] \o r) = Len(files[a]) + Len(r) /\ Len(r) > 0
      BY <3>1
    <3> QED
      BY <3>1, <3>2
  <2>5. PICK u : u = files[a] \o r
    OBVIOUS
  <2>6. files'[a] = u /\ \A b \in Asics : b # a => files'[b] = files[b]
    BY <2>1, <2>3, <2>5
  <2>7. files' \in [Asics -> Seq(Records)]
    BY <2>1, <2>3, <2>4, <2>5
  <2>8. \A i \in 1 .. sorted' : files'[events[i].asic] # <<>>
    <3> SUFFICES ASSUME NEW i \in 1 .. sorted' PROVE files'[events[i].asic] # <<>>
      OBVIOUS
    <3>1. i \in 1 .. Len(events) /\ (i \in 1 .. sorted \/ i = sorted + 1)
      BY <1>1, <2>1 DEF JobsIInv, TypeOK
    <3>2. CASE events[i].asic = a
      BY <2>4, <2>5, <2>6, <3>2
    <3>3. CASE events[i].asic # a
      <4>1. i \in 1 .. sorted
        BY <2>2, <3>1, <3>3 DEF NextEvent
      <4> QED
        BY <2>1, <2>6, <3>1, <3>3, <4>1
    <3> QED
      BY <3>2, <3>3
  <2> QED
    BY <1>1, <2>7, <2>8 DEF JobsIInv, Sorting
<1> QED
  BY <1>4, <1>5, <1>6, <1>7, <1>8 DEF JobsIInv

\* The list of the files names the ASIC of every event.
LEMMA CloseStep ==
  ASSUME JobsIInv, UNCHANGED program, CloseFiles
  PROVE  JobsIInv'
<1>1. /\ events' = events /\ sorted' = sorted /\ files' = files /\ stream' = stream /\ phase = "sort"
      /\ phase' = "stat" /\ sorted = Len(events)
      /\ opened' = opened /\ nWorkers' = nWorkers /\ maxWorkers' = maxWorkers /\ started' = started
      /\ program' = program /\ kids' = kids /\ finished' = finished
  BY DEF CloseFiles, sortVars
<1>2. Free' = Free
  BY <1>1 DEF Free
<1>3. Listed \subseteq Asics /\ IsFiniteSet(Listed) /\ Cardinality(Listed) \in Nat
      /\ Cardinality(Listed) <= Cardinality(Asics)
  <2>1. Listed \subseteq Asics
    BY DEF Listed
  <2> QED
    BY <2>1, JobsAssumption, FS_Subset, FS_CardinalityType
<1>4. PICK n : n = Cardinality(Listed)
  OBVIOUS
<1>5. /\ list' \in [1 .. n -> Listed] /\ ToSet(list') = Listed
  BY <1>4 DEF CloseFiles, Ascending
<1>6. list' \in Seq(Asics) /\ Len(list') = n
  BY <1>3, <1>4, <1>5
<1>7. TypeOK'
  BY <1>1, <1>2, <1>6, Zenon DEF JobsIInv, TypeOK, Phases
<1>8. Kids' /\ Workers'
  BY <1>1 DEF JobsIInv, Kids, Workers
<1>9. Sorting' /\ Reading'
  BY <1>1 DEF JobsIInv, Sorting, Reading
<1>10. Streams'
  BY <1>1, <1>3, <1>4, <1>6 DEF JobsIInv, Streams
<1>11. Listing'
  <2> SUFFICES ASSUME NEW i \in 1 .. Len(events)
               PROVE  \E k \in 1 .. Len(list') : list'[k] = events[i].asic
    BY <1>1 DEF Listing
  <2>1. events[i].asic \in Listed
    <3>2. events[i] \in Events
      BY DEF JobsIInv, Sorting
    <3>3. events[i].asic \in Asics
      BY <3>2 DEF Events
    <3>4. files[events[i].asic] # <<>>
      BY <1>1 DEF JobsIInv, Sorting
    <3> QED
      BY <3>3, <3>4 DEF Listed
  <2>2. \A x \in ToSet(list') : \E k \in 1 .. Len(list') : list'[k] = x
    BY <1>6 DEF ToSet
  <2> QED
    BY <1>5, <2>1, <2>2
<1> QED
  BY <1>7, <1>8, <1>9, <1>10, <1>11 DEF JobsIInv

\* The programs may run as many processes as the memory allows; there are none yet.
LEMMA ChooseStep ==
  ASSUME JobsIInv, UNCHANGED program, NEW limit \in 1 .. MaxWorkers, ChooseWorkers(limit)
  PROVE  JobsIInv'
<1>1. /\ events' = events /\ sorted' = sorted /\ files' = files /\ list' = list /\ stream' = FromStart
      /\ phase = "stat" /\ phase' = "next" /\ maxWorkers' = limit
      /\ opened' = opened /\ nWorkers' = nWorkers /\ started' = started
      /\ program' = program /\ kids' = kids /\ finished' = finished
  BY DEF ChooseWorkers, sortVars
<1>2. Free' = Free
  BY <1>1 DEF Free
<1>3. /\ FromStart.lines = <<>> /\ FromStart.at = 0 /\ FromStart.eof = FALSE
      /\ FromStart \in StreamSet
  <2>1. Cardinality(Asics) \in Nat
    BY JobsAssumption, FS_CardinalityType
  <2>2. <<>> \in Seq(Asics) /\ 0 \in 0 .. Cardinality(Asics)
    BY <2>1
  <2> QED
    BY <2>2 DEF FromStart, StreamSet
<1>4. TypeOK'
  <2>1. /\ stream'.lines \in Seq(Asics) /\ stream'.at \in 0 .. Cardinality(Asics)
        /\ phase' \in Phases /\ maxWorkers' \in 1 .. MaxWorkers
    BY <1>1, <1>3 DEF Phases, StreamSet
  <2> QED
    BY <1>1, <1>2, <2>1, Zenon DEF JobsIInv, TypeOK
<1>5. Kids' /\ Streams'
  BY <1>1, <1>3, Zenon DEF JobsIInv, Kids, Streams
<1>6. Workers' /\ Sorting' /\ Listing'
  BY <1>1 DEF JobsIInv, Workers, Sorting, Listing
<1>7. Reading'
  <2>1. list \in Seq(Asics)
    BY DEF JobsIInv, TypeOK
  <2>2. \A i \in 1 .. Len(list) : ~(i <= FromStart.at \/ FromStart.eof)
    BY <1>3, <2>1
  <2> QED
    BY <1>1, <2>2 DEF Reading, GonePast
<1> QED
  BY <1>4, <1>5, <1>6, <1>7 DEF JobsIInv

\* The next line of the list, and what is known after it has been read.
LEMMA NextLine ==
  ASSUME JobsIInv, phase = "next", Refilled(stream).lines # <<>>,
         NEW su, su = [started EXCEPT ![NextAsic] = Min({@ + 1, 2})]
  PROVE  /\ NextAsic \in Asics /\ LinesAfter \in Nat
         /\ su \in [Asics -> 0 .. 2]
         /\ AfterLine(Refilled(stream)) \in StreamSet
         /\ GonePast(AfterLine(Refilled(stream)), su)
<1>1. /\ stream \in StreamSet /\ list \in Seq(Asics) /\ Len(list) <= Cardinality(Asics)
      /\ started \in [Asics -> 0 .. 2] /\ GonePast(stream, started)
  BY DEF JobsIInv, TypeOK, Streams, Reading
<1>2. PICK s : s = Refilled(stream)
  OBVIOUS
<1>3. s \in StreamSet /\ GonePast(s, started) /\ s.lines # <<>>
  BY <1>1, <1>2, Refill
<1>4. su = [started EXCEPT ![s.lines[1]] = Min({@ + 1, 2})]
  BY <1>2 DEF NextAsic
<1>5. /\ s.lines[1] \in Asics /\ su \in [Asics -> 0 .. 2]
      /\ AfterLine(s) \in StreamSet /\ GonePast(AfterLine(s), su)
  BY <1>1, <1>3, <1>4, ReadLine
<1>6. Len(AfterLine(s).lines) \in Nat
  BY <1>5 DEF StreamSet
<1> QED
  BY <1>2, <1>5, <1>6 DEF NextAsic, LinesAfter

\* When a process is to be begun, there is room for it.
LEMMA OneIsFree ==
  ASSUME JobsIInv, phase = "next"
  PROVE  Min(Free) \in Free
<1>1. /\ nWorkers = Cardinality(Pids \ Free) /\ nWorkers < maxWorkers /\ maxWorkers \in 1 .. MaxWorkers
      /\ nWorkers \in Nat /\ MaxWorkers \in Nat
  <2>1. Pids \ Free \in SUBSET Pids
    OBVIOUS
  <2> QED
    BY <2>1, PidsCounted, JobsAssumption DEF JobsIInv, TypeOK, Workers
<1>2. Free \in SUBSET Pids
  BY DEF Free
<1>3. Free # {}
  <2>1. SUFFICES ASSUME Free = {} PROVE FALSE
    OBVIOUS
  <2>2. nWorkers = MaxWorkers + 1
    BY <1>1, <2>1, PidsCounted
  <2> QED
    BY <1>1, <2>2
<1> QED
  BY <1>2, <1>3, MinOfPids

\* A process is made: there is one more, and a line less.
LEMMA ForkStep ==
  ASSUME JobsIInv, UNCHANGED program, NEW k, KidOK(k), k.at # "none", ForkKid(k)
  PROVE  JobsIInv'
<1>1. /\ events' = events /\ sorted' = sorted /\ files' = files /\ list' = list
      /\ phase = "next" /\ phase' \in {"wait", "next"} /\ maxWorkers' = maxWorkers
      /\ opened < DescriptorLimit /\ opened' = opened + 1 /\ nWorkers' = nWorkers + 1
      /\ program' = program /\ finished' = finished
      /\ stream' = AfterLine(Refilled(stream)) /\ Refilled(stream).lines # <<>>
      /\ started' = [started EXCEPT ![NextAsic] = Min({@ + 1, 2})]
  BY DEF ForkKid, sortVars
<1>2. /\ NextAsic \in Asics /\ started' \in [Asics -> 0 .. 2] /\ stream' \in StreamSet
      /\ GonePast(AfterLine(Refilled(stream)), started')
  <2>1. PICK su : su = [started EXCEPT ![NextAsic] = Min({@ + 1, 2})]
    OBVIOUS
  <2>2. /\ NextAsic \in Asics /\ su \in [Asics -> 0 .. 2] /\ AfterLine(Refilled(stream)) \in StreamSet
        /\ GonePast(AfterLine(Refilled(stream)), su)
    BY <1>1, <2>1, NextLine
  <2>3. started' = su
    BY <1>1, <2>1
  <2> QED
    BY <1>1, <2>2, <2>3
<1>3. /\ nWorkers = Cardinality(Pids \ Free) /\ nWorkers < maxWorkers /\ maxWorkers \in 1 .. MaxWorkers
      /\ nWorkers \in Nat /\ MaxWorkers \in Nat
  <2>1. Pids \ Free \in SUBSET Pids
    OBVIOUS
  <2> QED
    BY <1>1, <2>1, PidsCounted, JobsAssumption DEF JobsIInv, TypeOK, Workers
<1>4. Min(Free) \in Free
  BY <1>1, OneIsFree
<1>5. PICK p \in Pids : p = Min(Free) /\ p \in Free /\ kids[p].at = "none"
  BY <1>4 DEF Free
<1>6. kids' = [kids EXCEPT ![p] = k]
  BY <1>5 DEF ForkKid
<1>7. DOMAIN kids = Pids /\ kids'[p] = k /\ \A q \in Pids : q # p => kids'[q] = kids[q]
  BY <1>5, <1>6 DEF JobsIInv, Kids
<1>8. Kids'
  <2>1. kids' = [q \in Pids |-> kids'[q]]
    BY <1>6, <1>7
  <2>2. \A q \in Pids : KidOK(kids'[q])
    BY <1>7 DEF JobsIInv, Kids
  <2> QED
    BY <2>1, <2>2 DEF Kids, KidOK
<1>9. Pids \ Free' = (Pids \ Free) \cup {p} /\ p \in Pids \ (Pids \ Free)
  BY <1>5, <1>7 DEF Free
<1>10. nWorkers' = Cardinality(Pids \ Free')
  <2>1. PICK S \in SUBSET Pids : S = Pids \ Free
    OBVIOUS
  <2>2. p \in Pids \ S /\ Pids \ Free' = S \cup {p}
    BY <1>9, <2>1
  <2>3. Cardinality(S \cup {p}) = Cardinality(S) + 1
    BY <2>2, PidsCounted
  <2> QED
    BY <1>1, <1>3, <2>1, <2>2, <2>3
<1>11. TypeOK'
  <2>1. /\ stream'.lines \in Seq(Asics) /\ stream'.at \in 0 .. Cardinality(Asics)
        /\ phase' \in Phases
    BY <1>1, <1>2 DEF Phases, StreamSet
  <2>2. opened' \in 0 .. DescriptorLimit
    BY <1>1, JobsAssumption DEF JobsIInv, TypeOK
  <2> QED
    BY <1>1, <1>2, <1>10, <2>1, <2>2, Zenon DEF JobsIInv, TypeOK
<1>12. Workers'
  <2>1. phase' = IF MustWait(nWorkers + 1) THEN "wait" ELSE "next"
    BY DEF ForkKid
  <2>2. maxWorkers \in Nat
    BY <1>3
  <2> QED
    BY <1>1, <1>3, <2>1, <2>2 DEF Workers, MustWait
<1>13. Sorting' /\ Listing' /\ Streams'
  BY <1>1, <1>2 DEF JobsIInv, Sorting, Listing, Streams
<1>14. Reading'
  BY <1>1, <1>2 DEF Reading, GonePast
<1> QED
  BY <1>8, <1>11, <1>12, <1>13, <1>14 DEF JobsIInv

\* At the end of the list there is no line left in the buffer.
LEMMA EndStep ==
  ASSUME JobsIInv, UNCHANGED program, EndOfList
  PROVE  JobsIInv'
<1>1. /\ events' = events /\ sorted' = sorted /\ files' = files /\ list' = list
      /\ phase = "next" /\ phase' = (IF nWorkers > 0 THEN "drain" ELSE "table")
      /\ maxWorkers' = maxWorkers
      /\ opened' = opened /\ nWorkers' = nWorkers /\ started' = started
      /\ program' = program /\ kids' = kids /\ finished' = finished
      /\ stream' = Refilled(stream) /\ Refilled(stream).lines = <<>>
  BY DEF EndOfList, sortVars, MustDrain
<1>2. Free' = Free
  BY <1>1 DEF Free
<1>3. /\ stream \in StreamSet /\ list \in Seq(Asics) /\ Len(list) <= Cardinality(Asics)
      /\ GonePast(stream, started)
  BY <1>1 DEF JobsIInv, TypeOK, Streams, Reading
<1>4. stream' \in StreamSet /\ GonePast(Refilled(stream), started) /\ stream'.eof /\ stream'.lines = <<>>
  BY <1>1, <1>3, Refill
<1>5. TypeOK'
  <2>1. /\ stream'.lines \in Seq(Asics) /\ stream'.at \in 0 .. Cardinality(Asics)
        /\ phase' \in Phases
    BY <1>1, <1>4 DEF Phases, StreamSet
  <2> QED
    BY <1>1, <1>2, <2>1, Zenon DEF JobsIInv, TypeOK
<1>6. Kids' /\ Sorting' /\ Listing' /\ Streams'
  BY <1>1, <1>4 DEF JobsIInv, Kids, Sorting, Listing, Streams
<1>7. Workers'
  <2>1. nWorkers \in Nat
    BY PidsCounted DEF JobsIInv, TypeOK
  <2> QED
    BY <1>1, <2>1 DEF JobsIInv, Workers
<1>8. Reading'
  BY <1>1, <1>4 DEF Reading, GonePast
<1> QED
  BY <1>5, <1>6, <1>7, <1>8 DEF JobsIInv

\* A process that has ended is waited for: there is one less.
LEMMA ReapStep ==
  ASSUME JobsIInv, UNCHANGED program, NEW p \in Pids, Reap(p)
  PROVE  JobsIInv'
<1>1. /\ events' = events /\ sorted' = sorted /\ files' = files /\ list' = list
      /\ phase \in {"wait", "drain"} /\ nWorkers' = nWorkers - 1
      /\ phase = "wait" => phase' = (IF nWorkers - 1 >= maxWorkers THEN "wait" ELSE "next")
      /\ phase = "drain" => phase' = (IF nWorkers - 1 > 0 THEN "drain" ELSE "table")
      /\ maxWorkers' = maxWorkers
      /\ opened' = opened /\ started' = started
      /\ program' = program /\ finished' = finished /\ stream' = stream
      /\ kids[p].at = "ended" /\ kids' = [kids EXCEPT ![p] = NoKid]
  BY DEF Reap, sortVars, MustDrain, MustWait
<1>2. DOMAIN kids = Pids /\ kids'[p] = NoKid /\ \A q \in Pids : q # p => kids'[q] = kids[q]
  BY <1>1 DEF JobsIInv, Kids
<1>3. Kids'
  <2>1. kids' = [q \in Pids |-> kids'[q]]
    BY <1>1, <1>2
  <2>2. KidOK(NoKid)
    BY DEF KidOK, NoKid
  <2>3. \A q \in Pids : KidOK(kids'[q])
    BY <1>2, <2>2 DEF JobsIInv, Kids
  <2> QED
    BY <2>1, <2>3 DEF Kids, KidOK
<1>4. Pids \ Free' = (Pids \ Free) \ {p} /\ p \in Pids \ Free
  BY <1>1, <1>2 DEF Free, NoKid
<1>5. nWorkers' = Cardinality(Pids \ Free') /\ nWorkers' \in Nat
  <2>1. PICK S \in SUBSET Pids : S = Pids \ Free
    OBVIOUS
  <2>2. p \in S /\ Pids \ Free' = S \ {p} /\ nWorkers = Cardinality(S)
    BY <1>4, <2>1 DEF JobsIInv, TypeOK
  <2>3. Cardinality(S \ {p}) = Cardinality(S) - 1 /\ Cardinality(S \ {p}) \in Nat
    BY <2>2, PidsCounted
  <2> QED
    BY <1>1, <2>2, <2>3
<1>6. phase' \in Phases
  BY <1>1 DEF Phases
<1>7. TypeOK'
  BY <1>1, <1>5, <1>6, Zenon DEF JobsIInv, TypeOK
<1>8. Workers'
  <2>1. maxWorkers \in Nat /\ nWorkers <= maxWorkers /\ nWorkers \in Int
    <3>1. nWorkers \in Int
      BY PidsCounted DEF JobsIInv, TypeOK
    <3> QED
      BY <3>1, JobsAssumption DEF JobsIInv, TypeOK, Workers
  <2> QED
    BY <1>1, <1>5, <2>1 DEF Workers
<1>9. Sorting' /\ Listing' /\ Streams'
  BY <1>1 DEF JobsIInv, Sorting, Listing, Streams
<1>10. Reading'
  BY <1>1 DEF JobsIInv, Reading, GonePast
<1> QED
  BY <1>3, <1>7, <1>8, <1>9, <1>10 DEF JobsIInv

\* The program ends, and may remove its files.
LEMMA DeleteStep ==
  ASSUME JobsIInv, UNCHANGED program, NEW keep \in BOOLEAN, DeleteTemporaryFiles(keep)
  PROVE  JobsIInv'
<1>1. /\ events' = events /\ sorted' = sorted /\ phase = "delete" /\ phase' = "done"
      /\ list' \in {list, <<>>} /\ stream' = stream
      /\ maxWorkers' = maxWorkers /\ nWorkers' = nWorkers
      /\ opened' = opened /\ started' = started /\ kids' = kids
      /\ program' = program /\ finished' = finished
  BY DEF DeleteTemporaryFiles, sortVars
<1>2. Free' = Free
  BY <1>1 DEF Free
<1>3. list' \in Seq(Asics) /\ Len(list') <= Cardinality(Asics)
  <2>1. list \in Seq(Asics) /\ Len(list) <= Cardinality(Asics)
    BY DEF JobsIInv, TypeOK, Streams
  <2>2. <<>> \in Seq(Asics) /\ Len(<<>>) = 0 /\ Cardinality(Asics) \in Nat
    BY JobsAssumption, FS_CardinalityType
  <2>3. Len(<<>>) <= Cardinality(Asics)
    BY <2>2
  <2> QED
    BY <1>1, <2>1, <2>2, <2>3, Zenon
<1>4. phase' \in Phases
  BY <1>1 DEF Phases
<1>5. TypeOK'
  BY <1>1, <1>2, <1>3, <1>4, Zenon DEF JobsIInv, TypeOK
<1>6. Kids' /\ Streams'
  BY <1>1, <1>3 DEF JobsIInv, Kids, Streams
<1>7. Workers' /\ Sorting' /\ Reading'
  BY <1>1 DEF JobsIInv, Workers, Sorting, Reading
<1>8. Listing'
  BY <1>1 DEF JobsIInv, Listing
<1> QED
  BY <1>5, <1>6, <1>7, <1>8 DEF JobsIInv

\* The next run begins with the files that were kept, and no process.
LEMMA AgainStep ==
  ASSUME JobsIInv, RunAgain
  PROVE  JobsIInv'
<1>1. /\ events' = events /\ sorted' = sorted /\ phase = "done" /\ phase' = "stat"
      /\ list' = list /\ list # <<>> /\ stream' = FromStart
      /\ maxWorkers' = maxWorkers /\ nWorkers' = nWorkers
      /\ opened' = 0 /\ started' = [a \in Asics |-> 0] /\ kids' = kids
      /\ program' = program /\ finished' = {}
  BY DEF RunAgain, sortVars
<1>2. Free' = Free
  BY <1>1 DEF Free
<1>3. FromStart \in StreamSet
  <2>1. Cardinality(Asics) \in Nat
    BY JobsAssumption, FS_CardinalityType
  <2>2. <<>> \in Seq(Asics) /\ 0 \in 0 .. Cardinality(Asics)
    BY <2>1
  <2> QED
    BY <2>2 DEF FromStart, StreamSet
<1>4. TypeOK'
  <2>1. /\ stream'.lines \in Seq(Asics) /\ stream'.at \in 0 .. Cardinality(Asics)
        /\ phase' \in Phases /\ opened' \in 0 .. DescriptorLimit
        /\ started' \in [Asics -> 0 .. 2] /\ finished' \subseteq Asics
    BY <1>1, <1>3, JobsAssumption DEF Phases, StreamSet
  <2> QED
    BY <1>1, <1>2, <2>1, Zenon DEF JobsIInv, TypeOK
<1>5. Kids' /\ Streams'
  BY <1>1, <1>3 DEF JobsIInv, Kids, Streams
<1>6. Workers' /\ Sorting' /\ Reading'
  BY <1>1 DEF JobsIInv, Workers, Sorting, Reading
<1>7. Listing'
  BY <1>1 DEF JobsIInv, Listing
<1> QED
  BY <1>4, <1>5, <1>6, <1>7 DEF JobsIInv

\* What a process does disturbs nothing of this: what it moves the position back
\* over is read again.
LEMMA KidStepKeeps ==
  ASSUME JobsIInv, NEW p \in Pids, KidStep(p)
  PROVE  JobsIInv'
<1>1. /\ UNCHANGED <<program, phase, sortVars, list, opened, nWorkers, maxWorkers, started, tsv>>
      /\ Kids' /\ Free' = Free
      /\ stream' \in {stream, SoughtBack(kids[p].unread)}
      /\ finished' \subseteq finished \cup {kids[p].asic}
      /\ kids[p].unread \in Nat /\ kids[p].asic \in Asics
  BY KidSteps DEF JobsIInv
<1>2. /\ events' = events /\ sorted' = sorted /\ files' = files /\ list' = list
      /\ phase' = phase /\ opened' = opened /\ nWorkers' = nWorkers /\ maxWorkers' = maxWorkers
      /\ started' = started /\ program' = program
  BY <1>1 DEF sortVars
<1>3. stream \in StreamSet /\ list \in Seq(Asics)
  BY DEF JobsIInv, TypeOK, Streams
<1>4. /\ stream' \in StreamSet
      /\ stream'.lines = stream.lines /\ stream'.eof = stream.eof /\ stream'.at <= stream.at
  <2>1. /\ stream.at \in 0 .. Cardinality(Asics) /\ Cardinality(Asics) \in Nat
        /\ stream = [lines |-> stream.lines, at |-> stream.at, eof |-> stream.eof]
        /\ stream.lines \in Seq(Asics) /\ stream.eof \in BOOLEAN
    BY <1>3, JobsAssumption, FS_CardinalityType DEF StreamSet
  <2>2. CASE stream' = stream
    BY <1>3, <2>1, <2>2
  <2>3. CASE stream' # stream
    <3>1. /\ stream.at >= kids[p].unread
          /\ stream' = [stream EXCEPT !.at = stream.at - kids[p].unread]
      BY <1>1, <2>3 DEF SoughtBack
    <3>2. PICK n : n = stream.at - kids[p].unread
      OBVIOUS
    <3>3. n \in 0 .. Cardinality(Asics) /\ n <= stream.at
      BY <1>1, <2>1, <3>1, <3>2
    <3>4. stream' = [lines |-> stream.lines, at |-> n, eof |-> stream.eof]
      BY <2>1, <3>1, <3>2
    <3> QED
      BY <2>1, <3>3, <3>4 DEF StreamSet
  <2> QED
    BY <2>2, <2>3
<1>5. TypeOK'
  <2>1. stream'.lines \in Seq(Asics) /\ stream'.at \in 0 .. Cardinality(Asics) /\ finished' \subseteq Asics
    BY <1>1, <1>4 DEF StreamSet, JobsIInv, TypeOK
  <2> QED
    BY <1>1, <1>2, <2>1, Zenon DEF JobsIInv, TypeOK
<1>6. Workers' /\ Sorting' /\ Listing' /\ Streams'
  BY <1>2, <1>4 DEF JobsIInv, Workers, Sorting, Listing, Streams
<1>7. GonePast(stream, started) => GonePast(stream, started)'
  <2>1. \A i \in 1 .. Len(list) : i <= stream'.at => i <= stream.at
    BY <1>3, <1>4 DEF StreamSet
  <2> QED
    BY <1>2, <1>4, <2>1 DEF GonePast
<1>8. Reading'
  BY <1>2, <1>4, <1>7 DEF JobsIInv, Reading
<1> QED
  BY <1>1, <1>5, <1>6, <1>8 DEF JobsIInv

-----------------------------------------------------------------------------
(* The programs.                                                           *)

\* Sorting makes records, whichever the program.
LEMMA SortedRecords ==
  ASSUME NEW e \in Events
  PROVE  /\ TDCRecords(e) \in Seq(Records) /\ TDCRecords(e) # <<>>
         /\ QDCRecords(e) \in Seq(Records) /\ QDCRecords(e) # <<>>
<1>1. e.asic \in Asics /\ e.channel \in Channels /\ e.tac \in Tacs /\ e.freq \in Nat
  BY DEF Events
<1>2. \A b \in {"T", "E"} : [gid |-> <<e.asic, e.channel, e.tac, b>>, freq |-> e.freq] \in Records
  BY <1>1 DEF Records, TDCEntries
<1>3. \A b \in BOOLEAN : [gid |-> <<e.asic, e.channel, e.tac>>, freq |-> e.freq, saturation |-> b] \in Records
  BY <1>1 DEF Records, QDCEntries
<1>4. PICK b \in BOOLEAN : b = (e.step = -1)
  OBVIOUS
<1>s. PICK r \in Records : r = [gid |-> <<e.asic, e.channel, e.tac>>, freq |-> e.freq, saturation |-> b]
  BY <1>3, <1>4
<1>5. TDCRecords(e) \in Seq(Records) /\ TDCRecords(e) # <<>>
  BY <1>2 DEF TDCRecords
<1>6. QDCRecords(e) \in Seq(Records) /\ QDCRecords(e) # <<>>
  <2>1. QDCRecords(e) = <<r>>
    BY <1>4, <1>s DEF QDCRecords
  <2> QED
    BY <2>1, <1>s
<1> QED
  BY <1>5, <1>6

\* A step of the main program.
LEMMA MainKeeps ==
  ASSUME JobsIInv, Main
  PROVE  JobsIInv'
<1>1. UNCHANGED program
  BY DEF Main
<1>2. ASSUME NEW r, r \in {TDCRecords(NextEvent), QDCRecords(NextEvent)}, SortEvent(r)
      PROVE  JobsIInv'
  <2>1. sorted + 1 \in 1 .. Len(events)
    BY <1>2 DEF SortEvent, JobsIInv, TypeOK
  <2>2. NextEvent \in Events
    BY <2>1 DEF JobsIInv, Sorting, NextEvent
  <2>3. r \in Seq(Records) /\ r # <<>>
    BY <1>2, <2>2, SortedRecords
  <2> QED
    BY <1>1, <1>2, <2>3, SortStep
<1>3. CASE CloseFiles
  BY <1>1, <1>3, CloseStep
<1>4. CASE \E n \in 1 .. MaxWorkers : ChooseWorkers(n)
  BY <1>1, <1>4, ChooseStep
<1>5. CASE ForkKid(TDCKid(NextAsic, LinesAfter)) \/ ForkKid(QDCKid(NextAsic, LinesAfter))
  <2>1. phase = "next" /\ Refilled(stream).lines # <<>>
    BY <1>5 DEF ForkKid
  <2>2. NextAsic \in Asics /\ LinesAfter \in Nat
    BY <2>1, NextLine
  <2>3. PICK k : k \in {TDCKid(NextAsic, LinesAfter), QDCKid(NextAsic, LinesAfter)} /\ ForkKid(k)
    BY <1>5
  <2>4. KidOK(k) /\ k.at # "none"
    BY <2>2, <2>3 DEF KidOK, TDCKid, QDCKid
  <2> QED
    BY <1>1, <2>3, <2>4, ForkStep
<1>6. CASE OpenFails
  BY <1>1, <1>6, PhaseMoves DEF OpenFails
<1>7. CASE EndOfList
  BY <1>1, <1>7, EndStep
<1>8. CASE \E p \in Pids : Reap(p)
  BY <1>1, <1>8, ReapStep
<1>9. CASE AdjustCalibrationTable \/ QDCTableDone
  BY <1>1, <1>9, PhaseMoves DEF AdjustCalibrationTable, QDCTableDone
<1>10. CASE TDCWriteTable \/ QDCWriteTable
  BY <1>1, <1>10, PhaseMoves DEF TDCWriteTable, QDCWriteTable, WriteRows
<1>11. CASE Delete
  BY <1>1, <1>11, DeleteStep DEF Delete
<1> QED
  BY <1>2, <1>3, <1>4, <1>5, <1>6, <1>7, <1>8, <1>9, <1>10, <1>11
  DEF Main, TDCSortData, QDCSortData, TDCCalibrateAllAsics, QDCCalibrateAllAsics

\* The inductive invariant.
THEOREM JobsInduction == Spec => []JobsIInv
<1>1. Init => JobsIInv
  <2> SUFFICES ASSUME Init PROVE JobsIInv
    OBVIOUS
  <2>1. /\ events \in Inputs /\ sorted = 0 /\ files = [a \in Asics |-> <<>>]
        /\ list = <<>> /\ stream = FromStart /\ opened = 0 /\ nWorkers = 0 /\ maxWorkers = 1
        /\ kids = [p \in Pids |-> NoKid] /\ started = [a \in Asics |-> 0] /\ finished = {}
        /\ \/ program \in {"tdc", "qdc"} /\ phase = "sort"
           \/ program = "fake" /\ phase = "write"
    BY DEF Init, JobsInit, TDCMain, QDCMain, FakeMain
  <2>2. events \in Seq(Events)
    BY <2>1, InputsAssumption DEF Events
  <2>3. /\ FromStart \in StreamSet /\ FromStart.lines = <<>> /\ FromStart.at = 0
        /\ Cardinality(Asics) \in Nat
    <3>1. Cardinality(Asics) \in Nat
      BY JobsAssumption, FS_CardinalityType
    <3>2. <<>> \in Seq(Asics) /\ 0 \in 0 .. Cardinality(Asics)
      BY <3>1
    <3> QED
      BY <3>1, <3>2 DEF FromStart, StreamSet
  <2>4. Free = Pids /\ nWorkers = Cardinality(Pids \ Free)
    <3>1. \A p \in Pids : kids[p].at = "none"
      BY <2>1 DEF NoKid
    <3>2. Free = Pids /\ Pids \ Free = {}
      BY <3>1 DEF Free
    <3> QED
      BY <2>1, <3>2, FS_EmptySet
  <2>5. TypeOK
    <3>1. sorted \in 0 .. Len(events) /\ opened \in 0 .. DescriptorLimit /\ maxWorkers \in 1 .. MaxWorkers
      BY <2>1, <2>2, JobsAssumption
    <3>2. list \in Seq(Asics) /\ stream.lines \in Seq(Asics) /\ stream.at \in 0 .. Cardinality(Asics)
      BY <2>1, <2>3
    <3>3. started \in [Asics -> 0 .. 2] /\ finished \subseteq Asics
      BY <2>1
    <3> QED
      BY <2>1, <2>4, <3>1, <3>2, <3>3 DEF TypeOK, Phases
  <2>6. Kids
    <3>1. KidOK(NoKid)
      BY DEF KidOK, NoKid
    <3> QED
      BY <2>1, <3>1 DEF Kids
  <2>7. Workers /\ Reading
    <3>1. list = <<>> /\ Len(list) = 0
      BY <2>1
    <3>2. \A i \in 1 .. Len(list) : FALSE
      BY <3>1
    <3>3. GonePast(stream, started)
      BY <3>2 DEF GonePast
    <3>4. Reading
      BY <2>1, <3>3 DEF Reading
    <3>5. Workers
      BY <2>1 DEF Workers
    <3> QED
      BY <3>4, <3>5
  <2>8. Sorting
    <3>1. <<>> \in Seq(Records)
      OBVIOUS
    <3> QED
      BY <2>1, <2>2, <3>1 DEF Sorting
  <2>9. Listing /\ Streams
    BY <2>1, <2>3 DEF Listing, Streams
  <2> QED
    BY <2>5, <2>6, <2>7, <2>8, <2>9 DEF JobsIInv
<1>2. JobsIInv /\ [Next]_vars => JobsIInv'
  <2> SUFFICES ASSUME JobsIInv, [Next]_vars PROVE JobsIInv'
    OBVIOUS
  <2>1. CASE Main
    BY <2>1, MainKeeps
  <2>2. CASE RunAgain
    BY <2>2, AgainStep
  <2>3. ASSUME NEW p \in Pids, KidStep(p) PROVE JobsIInv'
    BY <2>3, KidStepKeeps
  <2>4. CASE UNCHANGED vars
    BY <2>4, PhaseMoves DEF vars
  <2> QED
    BY <2>1, <2>2, <2>3, <2>4 DEF Next, KidStep
<1> QED
  BY <1>1, <1>2, PTL DEF Spec

\* The main program knows of its processes what it must: how many there are, that
\* they are no more than it allows, and that none is left when it adjusts and
\* writes the table they have filled, whatever the order in which they end.
THEOREM JobsCorrect == Spec => []JobsInv
<1>1. JobsIInv => JobsInv
  <2> SUFFICES ASSUME JobsIInv PROVE JobsInv
    OBVIOUS
  <2>1. PICK S \in SUBSET Pids : S = Pids \ Free
    OBVIOUS
  <2>2. nWorkers = Cardinality(S)
    BY <2>1 DEF JobsIInv, TypeOK
  <2>3. TableIsQuiet
    <3>1. phase \in {"table", "write", "delete", "done"} => S = {}
      BY <2>2, PidsCounted DEF JobsIInv, Workers
    <3> QED
      BY <2>1, <3>1 DEF TableIsQuiet, Free
  <2>4. WorkersAreBounded
    <3>1. PICK R : R = { p \in Pids : Running(p) }
      OBVIOUS
    <3>2. R \subseteq S /\ R \in SUBSET Pids
      BY <2>1, <3>1 DEF Running, Free
    <3>3. Cardinality(R) <= Cardinality(S) /\ Cardinality(R) \in Nat /\ Cardinality(S) \in Nat
      BY <3>2, PidsCounted, FS_Subset
    <3>4. maxWorkers \in Nat /\ nWorkers <= maxWorkers
      BY JobsAssumption DEF JobsIInv, TypeOK, Workers
    <3> QED
      BY <2>2, <3>1, <3>3, <3>4 DEF WorkersAreBounded
  <2> QED
    BY <2>3, <2>4 DEF JobsInv, JobsIInv
<1> QED
  BY <1>1, JobsInduction, PTL

\* No ASIC of the list is passed over, though the processes that end move the
\* position of the list from which the main program reads: when the table is
\* adjusted, a process was begun for the ASIC of every event.
THEOREM AsicsAreCalibrated == Spec => []NoAsicIsMissed
<1>1. JobsIInv => NoAsicIsMissed
  <2> SUFFICES ASSUME JobsIInv, phase \in {"table", "write", "delete"}, program # "fake",
                      NEW e \in ToSet(events)
               PROVE  started[e.asic] > 0
    BY DEF NoAsicIsMissed
  <2>1. PICK i \in 1 .. Len(events) : events[i] = e
    BY DEF ToSet, JobsIInv, Sorting
  <2>2. PICK k \in 1 .. Len(list) : list[k] = e.asic
    BY <2>1 DEF JobsIInv, Listing
  <2>3. stream.eof /\ stream.lines = <<>> /\ GonePast(stream, started)
    BY DEF JobsIInv, Reading
  <2>4. \/ started[list[k]] > 0
        \/ \E n \in 1 .. Len(stream.lines) : stream.lines[n] = list[k]
    BY <2>3 DEF GonePast
  <2> QED
    BY <2>2, <2>3, <2>4
<1> QED
  BY <1>1, JobsInduction, PTL

-----------------------------------------------------------------------------
(* Sums over finite sets.                                                  *)

\* A set that has 0, and with each number the next, has all.
LEMMA SetInduction ==
  ASSUME NEW S, 0 \in S, \A n \in Nat : n \in S => n + 1 \in S
  PROVE  Nat \subseteq S
<1> SUFFICES ASSUME Nat \ S # {} PROVE FALSE
  OBVIOUS
<1>1. PICK m \in Nat \ S : \A y \in Nat \ S : ~(<<y, m>> \in OpToRel(<, Nat))
  BY NatLessThanWellFounded, WFMin, Zenon
<1>2. m - 1 \in Nat
  OBVIOUS
<1>3. ~(m - 1 \in S)
  BY <1>2
<1>4. m - 1 < m
  OBVIOUS
<1> QED
  BY <1>1, <1>2, <1>3, <1>4 DEF OpToRel

First(T) == CHOOSE x \in T : TRUE

\* The values of f are made one from the other by adding those of v.
AddsUp(f, v, S) ==
  /\ f[{}] = 0
  /\ \A T \in SUBSET S : T # {} => f[T] = v[First(T)] + f[T \ {First(T)}]

\* f has the sum of v over each subset of S.
Sums(f, v, S) ==
  v \in [S -> Int] /\ f \in [SUBSET S -> Int] /\ AddsUp(f, v, S)

\* The subsets of a finite set, and those without an element of theirs.
LEMMA Subsets ==
  ASSUME NEW S, IsFiniteSet(S), NEW T \in SUBSET S
  PROVE  /\ IsFiniteSet(T) /\ Cardinality(T) \in Nat /\ Cardinality(T) <= Cardinality(S)
         /\ Cardinality(T) = 0 => T = {}
         /\ T # {} => First(T) \in T
         /\ \A x \in T : T \ {x} \in SUBSET S /\ Cardinality(T \ {x}) = Cardinality(T) - 1
<1>1. IsFiniteSet(T) /\ Cardinality(T) <= Cardinality(S)
  BY FS_Subset
<1>2. Cardinality(T) \in Nat /\ (Cardinality(T) = 0 => T = {})
  BY <1>1, FS_CardinalityType, FS_EmptySet
<1>3. \A x \in T : T \ {x} \in SUBSET S /\ Cardinality(T \ {x}) = Cardinality(T) - 1
  BY <1>1, FS_RemoveElement
<1>4. T # {} => First(T) \in T
  BY Zenon DEF First
<1> QED
  BY <1>1, <1>2, <1>3, <1>4

\* There are sums over a finite set.
LEMMA SumsExist ==
  ASSUME NEW S, IsFiniteSet(S), NEW v \in [S -> Int]
  PROVE  \E f : Sums(f, v, S)
<1> DEFINE Small(k) == { T \in SUBSET S : Cardinality(T) <= k }
           SumsTo(f, k) ==
             /\ f[{}] = 0
             /\ \A T \in Small(k) : T # {} => f[T] = v[First(T)] + f[T \ {First(T)}]
           K == { k \in Nat : \E f \in [Small(k) -> Int] : SumsTo(f, k) }
<1>1. 0 \in K
  <2>1. \A T \in Small(0) : T = {}
    BY Subsets
  <2>2. PICK f : f = [T \in Small(0) |-> 0]
    OBVIOUS
  <2>3. f \in [Small(0) -> Int] /\ f[{}] = 0
    <3>1. Cardinality({}) = 0 /\ {} \in Small(0)
      BY FS_EmptySet
    <3> QED
      BY <2>2, <3>1
  <2> QED
    BY <2>1, <2>3
<1>2. ASSUME NEW k \in Nat, NEW f \in [Small(k) -> Int], SumsTo(f, k)
      PROVE  \E h \in [Small(k + 1) -> Int] : SumsTo(h, k + 1)
  <2>1. \A T \in Small(k + 1) : T # {} => First(T) \in S /\ T \ {First(T)} \in Small(k)
    <3> SUFFICES ASSUME NEW T \in Small(k + 1), T # {}
                 PROVE  First(T) \in S /\ T \ {First(T)} \in Small(k)
      OBVIOUS
    <3>1. /\ First(T) \in T /\ T \ {First(T)} \in SUBSET S
          /\ Cardinality(T) \in Nat /\ Cardinality(T \ {First(T)}) = Cardinality(T) - 1
      BY Subsets
    <3>2. Cardinality(T) <= k + 1
      OBVIOUS
    <3>3. Cardinality(T \ {First(T)}) <= k
      BY <3>1, <3>2
    <3> QED
      BY <3>1, <3>3
  <2>2. \A T \in Small(k) : T \in Small(k + 1)
    <3> SUFFICES ASSUME NEW T \in Small(k) PROVE T \in Small(k + 1)
      OBVIOUS
    <3>1. Cardinality(T) \in Nat /\ Cardinality(T) <= k
      BY Subsets
    <3> QED
      BY <3>1
  <2>3. {} \in Small(k)
    BY FS_EmptySet
  <2> HIDE DEF Small
  <2> DEFINE h == [T \in Small(k + 1) |->
                     IF T = {} THEN 0 ELSE v[First(T)] + f[T \ {First(T)}]]
  <2>4. \A T \in Small(k + 1) : T # {} => v[First(T)] \in Int /\ f[T \ {First(T)}] \in Int
    BY <2>1
  <2>5. h \in [Small(k + 1) -> Int]
    BY <2>4
  <2>6. \A T \in Small(k) : h[T] = f[T]
    BY <1>2, <2>2
  <2>7. SumsTo(h, k + 1)
    BY <2>1, <2>2, <2>3, <2>6
  <2> HIDE DEF h, SumsTo
  <2> QED
    BY <2>5, <2>7
<1>3. \A k \in Nat : k \in K => k + 1 \in K
  <2> HIDE DEF Small, SumsTo
  <2> QED
    BY <1>2
<1>4. Nat \subseteq K
  <2> HIDE DEF K
  <2> QED
    BY <1>1, <1>3, SetInduction
<1>5. PICK n \in Nat : n = Cardinality(S)
  BY FS_CardinalityType
<1>6. Small(n) = SUBSET S
  BY <1>5, Subsets
<1>7. PICK f \in [Small(n) -> Int] : SumsTo(f, n)
  BY <1>4
<1>8. f \in [SUBSET S -> Int]
  BY <1>6
<1>9. Sums(f, v, S)
  <2>1. \A T \in SUBSET S : T # {} => f[T] = v[First(T)] + f[T \ {First(T)}]
    BY <1>6, <1>7
  <2> QED
    BY <1>7, <1>8, <2>1 DEF Sums, AddsUp
<1> QED
  BY <1>8, <1>9

\* They depend on the values that are added.
LEMMA SumsAgree ==
  ASSUME NEW S, IsFiniteSet(S), NEW f, NEW v, NEW R, IsFiniteSet(R), NEW h, NEW w,
         AddsUp(f, v, S), AddsUp(h, w, R), S \subseteq R, \A x \in S : v[x] = w[x]
  PROVE  f[S] = h[S]
<1> DEFINE Holds(k) == \A T \in SUBSET S : Cardinality(T) = k => f[T] = h[T]
           K == { k \in Nat : Holds(k) }
<1>1. 0 \in K
  BY Subsets DEF AddsUp
<1>2. ASSUME NEW k \in Nat, Holds(k), NEW T \in SUBSET S, Cardinality(T) = k + 1
      PROVE  f[T] = h[T]
  <2>0. Cardinality(T) = k + 1 /\ Cardinality({}) = 0
    <3>1. Cardinality({}) = 0
      BY FS_EmptySet
    <3> QED
      BY <1>2, <3>1, Zenon
  <2>1. T # {}
    BY <2>0
  <2>2. PICK x : x = First(T)
    OBVIOUS
  <2>3. x \in T /\ T \ {x} \in SUBSET S /\ Cardinality(T \ {x}) = (k + 1) - 1
    BY <2>0, <2>1, <2>2, Subsets
  <2>4. f[T \ {x}] = h[T \ {x}]
    BY <1>2, <2>3
  <2>5. f[T] = v[x] + f[T \ {x}]
    BY <2>1, <2>2 DEF AddsUp
  <2>6. T \in SUBSET R /\ h[T] = w[x] + h[T \ {x}]
    BY <2>1, <2>2 DEF AddsUp
  <2>7. v[x] = w[x]
    BY <2>3
  <2> QED
    BY <2>4, <2>5, <2>6, <2>7
<1>3. \A k \in Nat : k \in K => k + 1 \in K
  <2>1. ASSUME NEW k \in Nat, Holds(k) PROVE Holds(k + 1)
    BY <1>2, <2>1
  <2> HIDE DEF Holds
  <2> QED
    BY <2>1
<1>4. Nat \subseteq K
  <2> HIDE DEF K
  <2> QED
    BY <1>1, <1>3, SetInduction
<1>5. Cardinality(S) \in Nat
  BY FS_CardinalityType
<1> QED
  BY <1>4, <1>5

\* Any of the values may be added last.
LEMMA SumsAdd ==
  ASSUME NEW S, IsFiniteSet(S), NEW f, NEW v, Sums(f, v, S)
  PROVE  \A y \in S : f[S] = f[S \ {y}] + v[y]
<1>a. v \in [S -> Int] /\ f \in [SUBSET S -> Int]
  BY DEF Sums, AddsUp
<1> DEFINE Holds(k) == \A T \in SUBSET S : Cardinality(T) = k =>
                         \A x \in T : f[T] = f[T \ {x}] + v[x]
           K == { k \in Nat : Holds(k) }
<1>1. 0 \in K
  BY Subsets
<1>2. ASSUME NEW k \in Nat, Holds(k), NEW T \in SUBSET S, Cardinality(T) = k + 1, NEW x \in T
      PROVE  f[T] = f[T \ {x}] + v[x]
  <2>1. PICK c : c = First(T)
    OBVIOUS
  <2>2. c \in T /\ T \ {c} \in SUBSET S /\ Cardinality(T \ {c}) = (k + 1) - 1
    BY <1>2, <2>1, Subsets
  <2>3. f[T] = v[c] + f[T \ {c}] /\ v[c] \in Int /\ f[T \ {c}] \in Int
    BY <1>a, <2>1, <2>2 DEF Sums, AddsUp
  <2>4. CASE x = c
    BY <2>3, <2>4
  <2>5. CASE x # c
    <3>1. PICK U : U = T \ {x}
      OBVIOUS
    <3>2. U \in SUBSET S /\ c \in U /\ Cardinality(U) = (k + 1) - 1
      BY <1>2, <2>2, <2>5, <3>1, Subsets
    <3>3. f[U] = f[U \ {c}] + v[c]
      BY <1>2, <3>2
    <3>4. f[T \ {c}] = f[(T \ {c}) \ {x}] + v[x]
      <4>1. PICK W \in SUBSET S : W = T \ {c}
        BY <2>2
      <4>2. Cardinality(W) = k /\ x \in W
        BY <2>2, <2>5, <4>1
      <4>3. f[W] = f[W \ {x}] + v[x]
        BY <1>2, <4>2
      <4> QED
        BY <4>1, <4>3
    <3>5. (T \ {c}) \ {x} = U \ {c} /\ U \ {c} \in SUBSET S
      BY <3>1
    <3>6. f[U \ {c}] \in Int /\ f[U] \in Int /\ v[x] \in Int
      BY <1>a, <3>2, <3>5
    <3>7. PICK m : m = f[U \ {c}]
      OBVIOUS
    <3>8. f[T] = v[c] + (m + v[x]) /\ f[T \ {x}] = m + v[c]
      BY <2>3, <3>1, <3>3, <3>4, <3>5, <3>7, Zenon
    <3> QED
      BY <2>3, <3>6, <3>7, <3>8
  <2> QED
    BY <2>4, <2>5
<1>3. \A k \in Nat : k \in K => k + 1 \in K
  <2>1. ASSUME NEW k \in Nat, Holds(k) PROVE Holds(k + 1)
    BY <1>2, <2>1
  <2> HIDE DEF Holds
  <2> QED
    BY <2>1
<1>4. Nat \subseteq K
  <2> HIDE DEF K
  <2> QED
    BY <1>1, <1>3, SetInduction
<1>5. Cardinality(S) \in Nat
  BY FS_CardinalityType
<1> QED
  BY <1>4, <1>5

\* The sum of the frequencies of records or events, as it is written in the modules.
Freqs(s, I) == MapThenSumSet(LAMBDA i : s[i].freq, I)

\* It is a sum.
LEMMA FreqsIs ==
  ASSUME NEW s, NEW I, IsFiniteSet(I), \A i \in I : s[i].freq \in Int
  PROVE  \E f : Sums(f, [i \in I |-> s[i].freq], I) /\ Freqs(s, I) = f[I]
<1>1. PICK v : v = [i \in I |-> s[i].freq]
  OBVIOUS
<1>2. v \in [I -> Int]
  BY <1>1
<1>3. PICK f : Sums(f, v, I)
  BY <1>2, SumsExist
<1>4. \A T \in SUBSET I : T # {} => First(T) \in T /\ s[First(T)].freq = v[First(T)]
  BY <1>1, Subsets
<1>5. f = [T \in SUBSET I |-> IF T = {} THEN 0 ELSE s[First(T)].freq + f[T \ {First(T)}]]
  <2>1. \A T \in SUBSET I :
          f[T] = IF T = {} THEN 0 ELSE s[First(T)].freq + f[T \ {First(T)}]
    BY <1>3, <1>4 DEF Sums, AddsUp
  <2>2. DOMAIN f = SUBSET I /\ f = [T \in SUBSET I |-> f[T]]
    BY <1>3 DEF Sums, AddsUp
  <2> QED
    BY <2>1, <2>2
<1>6. PICK g :
        /\ g = [T \in SUBSET I |-> IF T = {} THEN 0 ELSE s[First(T)].freq + g[T \ {First(T)}]]
        /\ Freqs(s, I) = g[I]
  BY <1>5 DEF Freqs, MapThenSumSet, MapThenFoldSet, First
<1>7. AddsUp(g, v, I)
  <2>1. {} \in SUBSET I
    OBVIOUS
  <2> QED
    BY <1>4, <1>6, <2>1 DEF AddsUp
<1>8. g[I] = f[I]
  BY <1>3, <1>7, SumsAgree DEF Sums
<1> QED
  BY <1>1, <1>3, <1>6, <1>8

\* Nothing adds up to zero.
LEMMA FreqsNone ==
  ASSUME NEW s
  PROVE  Freqs(s, {}) = 0
<1>1. PICK f : Sums(f, [i \in {} |-> s[i].freq], {}) /\ Freqs(s, {}) = f[{}]
  BY FreqsIs, FS_EmptySet
<1> QED
  BY <1>1 DEF Sums, AddsUp

\* The same values have the same sum.
LEMMA FreqsSame ==
  ASSUME NEW s, NEW t, NEW I, IsFiniteSet(I),
         \A i \in I : s[i].freq \in Int /\ s[i].freq = t[i].freq
  PROVE  Freqs(s, I) = Freqs(t, I) /\ Freqs(s, I) \in Int
<1>1. PICK f : Sums(f, [i \in I |-> s[i].freq], I) /\ Freqs(s, I) = f[I]
  BY FreqsIs
<1>2. PICK h : Sums(h, [i \in I |-> t[i].freq], I) /\ Freqs(t, I) = h[I]
  BY FreqsIs
<1>3. [i \in I |-> s[i].freq] = [i \in I |-> t[i].freq]
  OBVIOUS
<1>4. f[I] = h[I]
  BY <1>1, <1>2, <1>3, SumsAgree DEF Sums
<1>5. f[I] \in Int
  BY <1>1 DEF Sums
<1> QED
  BY <1>1, <1>2, <1>4, <1>5

\* One more is added.
LEMMA FreqsAdd ==
  ASSUME NEW s, NEW I, IsFiniteSet(I), NEW x, x \notin I,
         \A i \in I : s[i].freq \in Int, s[x].freq \in Int
  PROVE  Freqs(s, I \cup {x}) = Freqs(s, I) + s[x].freq
<1>1. PICK R : R = I \cup {x}
  OBVIOUS
<1>2. IsFiniteSet(R) /\ x \in R /\ R \ {x} = I /\ I \in SUBSET R
  BY <1>1, FS_AddElement
<1>3. PICK v : v = [i \in R |-> s[i].freq]
  OBVIOUS
<1>4. v \in [R -> Int] /\ v[x] = s[x].freq
  BY <1>1, <1>3
<1>5. PICK f : Sums(f, v, R) /\ Freqs(s, R) = f[R]
  <2>1. \A i \in R : s[i].freq \in Int
    BY <1>1
  <2> QED
    BY <1>2, <1>3, <2>1, FreqsIs
<1>6. f[R] = f[I] + v[x]
  <2>1. f[R] = f[R \ {x}] + v[x]
    BY <1>2, <1>5, SumsAdd
  <2> QED
    BY <1>2, <2>1
<1>7. PICK w : w = [i \in I |-> s[i].freq]
  OBVIOUS
<1>8. PICK h : Sums(h, w, I) /\ Freqs(s, I) = h[I]
  BY <1>7, FreqsIs
<1>9. \A i \in I : w[i] = v[i]
  BY <1>1, <1>3, <1>7
<1>10. h[I] = f[I]
  BY <1>2, <1>5, <1>8, <1>9, SumsAgree DEF Sums
<1> QED
  BY <1>1, <1>4, <1>5, <1>6, <1>8, <1>10

-----------------------------------------------------------------------------
(* What the files hold.                                                    *)

\* The records of an entry, as Entries and Unsaturated have them.
Selected(pr, g, records) ==
  { i \in DOMAIN records : /\ records[i].gid = g
                           /\ pr = "qdc" => ~records[i].saturation }

\* One record more.
LEMMA RecordAdds ==
  ASSUME NEW s \in Seq(Records), NEW r \in Records, NEW g
  PROVE  Freqs(Append(s, r), Selected(program, g, Append(s, r)))
           = Freqs(s, Selected(program, g, s))
               + (IF r.gid = g /\ (program = "qdc" => ~r.saturation) THEN r.freq ELSE 0)
<1>1. PICK n \in Nat : n = Len(s)
  OBVIOUS
<1>2. PICK u : u = Append(s, r)
  OBVIOUS
<1>3. /\ u \in Seq(Records) /\ Len(u) = n + 1 /\ DOMAIN u = 1 .. (n + 1) /\ u[n + 1] = r
      /\ DOMAIN s = 1 .. n /\ \A i \in 1 .. n : u[i] = s[i] /\ s[i] \in Records
  BY <1>1, <1>2
<1>4. \A x \in Records : x.freq \in Int
  BY DEF Records
<1>5. PICK I : I = Selected(program, g, s)
  OBVIOUS
<1>6. I \subseteq 1 .. n /\ IsFiniteSet(I) /\ n + 1 \notin I
  <2>1. I \subseteq 1 .. n
    BY <1>3, <1>5 DEF Selected
  <2>2. IsFiniteSet(1 .. n)
    BY FS_Interval
  <2>3. IsFiniteSet(I)
    BY <2>1, <2>2, FS_Subset, Zenon
  <2> QED
    BY <2>1, <2>3
<1>7. \A i \in I : u[i].freq = s[i].freq /\ s[i].freq \in Int
  BY <1>3, <1>4, <1>6
<1>8. Freqs(u, I) = Freqs(s, I) /\ Freqs(s, I) \in Int
  BY <1>6, <1>7, FreqsSame
<1>9. CASE r.gid = g /\ (program = "qdc" => ~r.saturation)
  <2>1. Selected(program, g, u) = I \cup {n + 1}
    BY <1>3, <1>5, <1>9 DEF Selected
  <2>2. Freqs(u, I \cup {n + 1}) = Freqs(u, I) + u[n + 1].freq
    BY <1>3, <1>4, <1>6, <1>7, FreqsAdd
  <2> QED
    BY <1>2, <1>3, <1>5, <1>8, <1>9, <2>1, <2>2
<1>10. CASE ~(r.gid = g /\ (program = "qdc" => ~r.saturation))
  <2>1. Selected(program, g, u) = I
    BY <1>3, <1>5, <1>10 DEF Selected
  <2> QED
    BY <1>2, <1>5, <1>8, <1>10, <2>1
<1> QED
  BY <1>9, <1>10

\* The events of a TAC that count, among the first n.
CountedFor(pr, ev, n, a, c, t) ==
  { i \in 1 .. n : /\ <<ev[i].asic, ev[i].channel, ev[i].tac>> = <<a, c, t>>
                   /\ pr = "qdc" => ev[i].step # -1 }

\* One event more.
LEMMA EventAdds ==
  ASSUME events \in Seq(Events), NEW n \in Nat, n < Len(events), NEW a, NEW c, NEW t,
         NEW e, e = events[n + 1]
  PROVE  /\ Freqs(events, CountedFor(program, events, n, a, c, t)) \in Int
         /\ Freqs(events, CountedFor(program, events, n + 1, a, c, t))
              = Freqs(events, CountedFor(program, events, n, a, c, t))
                  + (IF /\ e.asic = a /\ e.channel = c /\ e.tac = t
                        /\ program = "qdc" => e.step # -1 THEN e.freq ELSE 0)
<1>1. PICK I : I = CountedFor(program, events, n, a, c, t)
  OBVIOUS
<1>2. I \subseteq 1 .. n /\ IsFiniteSet(I) /\ n + 1 \notin I
  <2>1. I \subseteq 1 .. n
    BY <1>1 DEF CountedFor
  <2>2. IsFiniteSet(1 .. n)
    BY FS_Interval
  <2>3. IsFiniteSet(I)
    BY <2>1, <2>2, FS_Subset, Zenon
  <2> QED
    BY <2>1, <2>3
<1>3. \A i \in 1 .. (n + 1) : events[i].freq \in Int
  <2>1. \A i \in 1 .. (n + 1) : events[i] \in Events
    OBVIOUS
  <2> QED
    BY <2>1 DEF Events
<1>4. \A i \in 1 .. n : i \in 1 .. (n + 1)
  OBVIOUS
<1>5. Freqs(events, I) \in Int
  BY <1>2, <1>3, <1>4, FreqsSame
<1>6. CASE /\ e.asic = a /\ e.channel = c /\ e.tac = t
           /\ program = "qdc" => e.step # -1
  <2>1. CountedFor(program, events, n + 1, a, c, t) = I \cup {n + 1}
    BY <1>1, <1>6 DEF CountedFor
  <2>2. Freqs(events, I \cup {n + 1}) = Freqs(events, I) + events[n + 1].freq
    <3>1. n + 1 \in 1 .. (n + 1)
      OBVIOUS
    <3>2. events[n + 1].freq \in Int /\ \A i \in I : events[i].freq \in Int
      BY <1>2, <1>3, <1>4, <3>1
    <3> QED
      BY <1>2, <3>2, FreqsAdd
  <2> QED
    BY <1>1, <1>5, <1>6, <2>1, <2>2
<1>7. CASE ~(/\ e.asic = a /\ e.channel = c /\ e.tac = t
             /\ program = "qdc" => e.step # -1)
  <2>1. CountedFor(program, events, n + 1, a, c, t) = I
    BY <1>1, <1>7 DEF CountedFor
  <2> QED
    BY <1>1, <1>5, <1>7, <2>1
<1> QED
  BY <1>6, <1>7

\* One or two elements are appended.
LEMMA Appends ==
  ASSUME NEW X, NEW s \in Seq(X), NEW x \in X, NEW y \in X
  PROVE  s \o <<x>> = Append(s, x) /\ s \o <<x, y>> = Append(Append(s, x), y)
OBVIOUS

\* The entries to which an event of a TAC belongs.
Gids(pr, a, c, t) ==
  IF pr = "tdc" THEN {<<a, c, t, "T">>, <<a, c, t, "E">>} ELSE {<<a, c, t>>}

\* The files hold what was sorted, until they are removed.
Filed ==
  program # "fake" =>
    /\ phase # "sort" => sorted = Len(events)
    /\ (phase = "done" => list # <<>>) =>
         \A a \in Asics, c \in Channels, t \in Tacs : \A g \in Gids(program, a, c, t) :
           Freqs(files[a], Selected(program, g, files[a])) = Freqs(events, CountedFor(program, events, sorted, a, c, t))

\* The records that an event gives an entry.
LEMMA RecordsOfEvent ==
  ASSUME program \in {"tdc", "qdc"}, NEW s \in Seq(Records), NEW e \in Events, NEW r,
         r = IF program = "tdc" THEN TDCRecords(e) ELSE QDCRecords(e),
         NEW c, NEW t, NEW g \in Gids(program, e.asic, c, t), Freqs(s, Selected(program, g, s)) \in Int
  PROVE  Freqs(s \o r, Selected(program, g, s \o r))
           = Freqs(s, Selected(program, g, s))
               + (IF /\ e.channel = c /\ e.tac = t
                     /\ program = "qdc" => e.step # -1 THEN e.freq ELSE 0)
<1>1. e.asic \in Asics /\ e.channel \in Channels /\ e.tac \in Tacs /\ e.freq \in Nat
  BY DEF Events
<1>2. CASE program = "tdc"
  <2>1. PICK r1 : r1 = [gid |-> <<e.asic, e.channel, e.tac, "T">>, freq |-> e.freq]
    OBVIOUS
  <2>2. PICK r2 : r2 = [gid |-> <<e.asic, e.channel, e.tac, "E">>, freq |-> e.freq]
    OBVIOUS
  <2>3. r1 \in Records /\ r2 \in Records
    BY <1>1, <2>1, <2>2 DEF Records, TDCEntries
  <2>4. r = <<r1, r2>>
    BY <1>2, <2>1, <2>2 DEF TDCRecords
  <2>5. PICK u : u = Append(s, r1)
    OBVIOUS
  <2>6. u \in Seq(Records) /\ s \o r = Append(u, r2)
    <3>1. s \o r = Append(Append(s, r1), r2)
      <4>1. s \o <<r1, r2>> = Append(Append(s, r1), r2)
        BY <2>3, Appends, SMTT(30)
      <4> QED
        BY <2>4, <4>1, Zenon
    <3> QED
      BY <2>3, <2>5, <3>1
  <2>7. Freqs(u, Selected(program, g, u)) = Freqs(s, Selected(program, g, s)) + (IF r1.gid = g THEN r1.freq ELSE 0)
    BY <1>2, <2>3, <2>5, RecordAdds
  <2>8. Freqs(Append(u, r2), Selected(program, g, Append(u, r2)))
          = Freqs(u, Selected(program, g, u)) + (IF r2.gid = g THEN r2.freq ELSE 0)
    BY <1>2, <2>3, <2>6, RecordAdds
  <2>9. PICK b \in {"T", "E"} : g = <<e.asic, c, t, b>>
    BY <1>2 DEF Gids
  <2>10. /\ r1.gid = g <=> e.channel = c /\ e.tac = t /\ b = "T"
         /\ r2.gid = g <=> e.channel = c /\ e.tac = t /\ b = "E"
         /\ r1.freq = e.freq /\ r2.freq = e.freq
    BY <2>1, <2>2, <2>9
  <2>11. PICK m \in Int : m = Freqs(s, Selected(program, g, s))
    OBVIOUS
  <2>12. Freqs(s \o r, Selected(program, g, s \o r))
           = (m + (IF e.channel = c /\ e.tac = t /\ b = "T" THEN e.freq ELSE 0))
               + (IF e.channel = c /\ e.tac = t /\ b = "E" THEN e.freq ELSE 0)
    BY <2>6, <2>7, <2>8, <2>10, <2>11
  <2> QED
    BY <1>1, <1>2, <2>9, <2>11, <2>12
<1>3. CASE program = "qdc"
  <2>1. PICK b \in BOOLEAN : b = (e.step = -1)
    OBVIOUS
  <2>2. PICK q : q = [gid |-> <<e.asic, e.channel, e.tac>>, freq |-> e.freq, saturation |-> b]
    OBVIOUS
  <2>3. q \in Records
    BY <1>1, <2>1, <2>2 DEF Records, QDCEntries
  <2>4. r = <<q>>
    BY <1>3, <2>1, <2>2 DEF QDCRecords
  <2>5. s \o r = Append(s, q)
    BY <2>3, <2>4, Appends
  <2>6. Freqs(Append(s, q), Selected(program, g, Append(s, q)))
          = Freqs(s, Selected(program, g, s)) + (IF q.gid = g /\ ~q.saturation THEN q.freq ELSE 0)
    BY <1>3, <2>3, RecordAdds
  <2>7. g = <<e.asic, c, t>>
    BY <1>3 DEF Gids
  <2>8. /\ q.gid = g <=> e.channel = c /\ e.tac = t
        /\ q.saturation <=> e.step = -1
        /\ q.freq = e.freq
    BY <2>1, <2>2, <2>7
  <2> QED
    BY <1>3, <2>5, <2>6, <2>8
<1> QED
  BY <1>2, <1>3

\* An event is sorted.
LEMMA SortFiles ==
  ASSUME JobsIInv, Filed, UNCHANGED program, NEW r, SortEvent(r),
         \/ program = "tdc" /\ r = TDCRecords(NextEvent)
         \/ program = "qdc" /\ r = QDCRecords(NextEvent)
  PROVE  Filed'
<1>1. /\ phase = "sort" /\ phase' = phase /\ program' = program /\ events' = events
      /\ sorted < Len(events) /\ sorted' = sorted + 1
      /\ files' = [files EXCEPT ![NextEvent.asic] = @ \o r]
  BY DEF SortEvent
<1>2. events \in Seq(Events) /\ files \in [Asics -> Seq(Records)] /\ sorted \in Nat
  BY <1>1 DEF JobsIInv, Sorting, TypeOK
<1>3. PICK e \in Events : e = NextEvent /\ e = events[sorted + 1]
  BY <1>1, <1>2 DEF NextEvent
<1>4. e.asic \in Asics
  BY DEF Events
<1>5. ASSUME NEW a \in Asics, NEW c \in Channels, NEW t \in Tacs, NEW g \in Gids(program, a, c, t)
      PROVE  Freqs(files'[a], Selected(program, g, files'[a])) = Freqs(events, CountedFor(program, events, sorted + 1, a, c, t))
  <2>1. PICK s \in Seq(Records) : s = files[a]
    BY <1>2
  <2>2. PICK m : m = Freqs(events, CountedFor(program, events, sorted, a, c, t))
    OBVIOUS
  <2>3. /\ m \in Int
        /\ Freqs(events, CountedFor(program, events, sorted + 1, a, c, t))
             = m + (IF /\ e.asic = a /\ e.channel = c /\ e.tac = t
                       /\ program = "qdc" => e.step # -1 THEN e.freq ELSE 0)
    BY <1>1, <1>2, <1>3, <2>2, EventAdds
  <2>4. Freqs(s, Selected(program, g, s)) = m
    BY <1>1, <2>1, <2>2 DEF Filed
  <2>5. CASE e.asic = a
    <3>1. files'[a] = s \o r
      BY <1>1, <1>2, <1>3, <1>4, <2>1, <2>5
    <3>2. r = IF program = "tdc" THEN TDCRecords(e) ELSE QDCRecords(e)
      BY <1>3
    <3>3. g \in Gids(program, e.asic, c, t) /\ Freqs(s, Selected(program, g, s)) \in Int
      BY <2>3, <2>4, <2>5
    <3>4. Freqs(s \o r, Selected(program, g, s \o r))
            = Freqs(s, Selected(program, g, s))
                + (IF /\ e.channel = c /\ e.tac = t
                      /\ program = "qdc" => e.step # -1 THEN e.freq ELSE 0)
      BY <3>2, <3>3, RecordsOfEvent
    <3> QED
      BY <2>3, <2>4, <2>5, <3>1, <3>4
  <2>6. CASE e.asic # a
    <3>1. files'[a] = s
      BY <1>1, <1>2, <1>3, <1>4, <2>1, <2>6
    <3> QED
      BY <2>3, <2>4, <2>6, <3>1
  <2> QED
    BY <2>5, <2>6
<1> QED
  BY <1>1, <1>5 DEF Filed

\* Other steps leave files and counts alone, or remove the files.
LEMMA FilesStay ==
  ASSUME Filed, UNCHANGED <<program, events, sorted>>,
         phase' = "done" => list' = <<>> \/ UNCHANGED <<files, list>>,
         phase' # "done" => UNCHANGED files /\ (phase = "done" => list # <<>>),
         phase = "sort" => phase' = "sort" \/ sorted = Len(events)
  PROVE  Filed'
<1>1. /\ program' = program /\ events' = events /\ sorted' = sorted
      /\ (phase' = "done" => list' # <<>>) =>
           files' = files /\ (phase = "done" => list # <<>>)
  OBVIOUS
<1> QED
  BY <1>1 DEF Filed

-----------------------------------------------------------------------------
(* Who is at work on an ASIC.                                              *)

Busy(k) == k.at \notin {"none", "ended"}
AtWork(ks, p, a) == Busy(ks[p]) /\ ks[p].asic = a

\* On an ASIC that was begun once there is one process at work, at most, and none
\* when it is finished.
AloneIn(ks, st, fin) ==
  \A a \in Asics :
    /\ st[a] = 0 => a \notin fin /\ \A p \in Pids : ~AtWork(ks, p, a)
    /\ st[a] = 1 => /\ \A p, q \in Pids : AtWork(ks, p, a) /\ AtWork(ks, q, a) => p = q
                    /\ a \in fin => \A p \in Pids : ~AtWork(ks, p, a)

\* Processes end, are reaped, or nothing happens to them.
OnlyEnd(ks, ks2) == \A p \in Pids : Busy(ks2[p]) => ks2[p] = ks[p]

\* Processes that end leave the others as they are.
LEMMA AloneEnd ==
  ASSUME NEW ks, NEW ks2, NEW st, NEW fin, AloneIn(ks, st, fin), OnlyEnd(ks, ks2)
  PROVE  AloneIn(ks2, st, fin)
BY DEF AloneIn, OnlyEnd, AtWork

\* A process ends well.
LEMMA AloneExit ==
  ASSUME NEW ks, NEW ks2, NEW st, NEW fin, NEW p \in Pids, Busy(ks[p]), ks[p].asic \in Asics,
         AloneIn(ks, st, fin), OnlyEnd(ks, ks2), ~Busy(ks2[p])
  PROVE  AloneIn(ks2, st, fin \cup {ks[p].asic})
<1>1. \A q \in Pids, a \in Asics : AtWork(ks2, q, a) => AtWork(ks, q, a) /\ q # p
  BY DEF OnlyEnd, AtWork
<1>2. AtWork(ks, p, ks[p].asic)
  BY DEF AtWork
<1> QED
  BY <1>1, <1>2 DEF AloneIn

\* Process p becomes k, of ASIC a.
Becomes(ks, ks2, p, k, a) ==
  /\ ks2[p] = k /\ Busy(k) /\ k.asic = a /\ a \in Asics
  /\ \A q \in Pids : q # p => ks2[q] = ks[q]

\* A process is begun.
LEMMA AloneFork ==
  ASSUME NEW ks, NEW ks2, NEW st \in [Asics -> 0 .. 2], NEW st2, NEW fin, NEW p \in Pids, ~Busy(ks[p]),
         NEW a, NEW k, Becomes(ks, ks2, p, k, a), AloneIn(ks, st, fin),
         \A b \in Asics : b # a => st2[b] = st[b],
         st2[a] = IF st[a] = 0 THEN 1 ELSE 2
  PROVE  AloneIn(ks2, st2, fin)
<1>1. \A q \in Pids, b \in Asics : b # a => (AtWork(ks2, q, b) <=> AtWork(ks, q, b))
  BY DEF AtWork, Becomes
<1>2. \A q \in Pids : q # p => (AtWork(ks2, q, a) <=> AtWork(ks, q, a))
  BY DEF AtWork, Becomes
<1>3. ASSUME NEW b \in Asics, b # a
      PROVE  /\ st2[b] = 0 => b \notin fin /\ \A q \in Pids : ~AtWork(ks2, q, b)
             /\ st2[b] = 1 => /\ \A q, r \in Pids : AtWork(ks2, q, b) /\ AtWork(ks2, r, b) => q = r
                              /\ b \in fin => \A q \in Pids : ~AtWork(ks2, q, b)
  BY <1>1, <1>3 DEF AloneIn
<1>4. a \in Asics
  BY DEF Becomes
<1>5. CASE st[a] = 0
  <2>1. st2[a] = 1 /\ a \notin fin /\ \A q \in Pids : ~AtWork(ks, q, a)
    BY <1>4, <1>5 DEF AloneIn
  <2>2. \A q \in Pids : AtWork(ks2, q, a) => q = p
    BY <1>2, <2>1
  <2>3. /\ st2[a] # 0 /\ a \notin fin
        /\ \A q, r \in Pids : AtWork(ks2, q, a) /\ AtWork(ks2, r, a) => q = r
    BY <2>1, <2>2
  <2> QED
    BY <1>3, <2>3 DEF AloneIn
<1>6. CASE st[a] # 0
  <2>1. st2[a] # 0 /\ st2[a] # 1
    BY <1>6
  <2> QED
    BY <1>3, <2>1 DEF AloneIn
<1> QED
  BY <1>5, <1>6

\* A process goes on.
LEMMA AloneStep ==
  ASSUME NEW ks, NEW ks2, NEW st, NEW fin, NEW p \in Pids, Busy(ks[p]),
         NEW k, Becomes(ks, ks2, p, k, ks[p].asic), AloneIn(ks, st, fin)
  PROVE  AloneIn(ks2, st, fin)
<1>1. \A q \in Pids, b \in Asics : AtWork(ks2, q, b) <=> AtWork(ks, q, b)
  BY DEF AtWork, Becomes
<1> QED
  BY <1>1 DEF AloneIn

\* It has its ASIC for itself.
LEMMA AloneMeans ==
  ASSUME NEW ks, NEW st, NEW fin, NEW p \in Pids, Busy(ks[p]), ks[p].asic \in Asics, AloneIn(ks, st, fin)
  PROVE  /\ st[ks[p].asic] # 0
         /\ st[ks[p].asic] = 1 => /\ ks[p].asic \notin fin
                                  /\ \A q \in Pids : q # p /\ Busy(ks[q]) => ks[q].asic # ks[p].asic
<1>1. AtWork(ks, p, ks[p].asic)
  BY DEF AtWork
<1>2. \A q \in Pids : Busy(ks[q]) /\ ks[q].asic = ks[p].asic => AtWork(ks, q, ks[p].asic)
  BY DEF AtWork
<1> QED
  BY <1>1, <1>2 DEF AloneIn

-----------------------------------------------------------------------------
(* The table of process_tdc_calibration.                                   *)

TDCTables == [TDCEntries -> [valid : BOOLEAN, t0 : Int]]

\* The entries with enough data, in which the fits find what they should.
GoodTDC(pr, ev) ==
  { g \in TDCEntries :
      /\ Freqs(ev, CountedFor(pr, ev, Len(ev), g[1], g[2], g[3])) >= MinEntries
      /\ Shape[g] = "good" }

\* The entries of an ASIC, in the order in which its process makes them.
Untouched(tab, a) == \A g \in TDCEntries : g[1] = a => ~tab[g].valid /\ tab[g].t0 = 0
Calibrates(tab, a, G) == \A g \in TDCEntries : g[1] = a => (tab[g].valid <=> g \in G)
Shifted(tab, a) == \A g \in TDCEntries : g[1] = a /\ tab[g].valid => tab[g].t0 = T0[g]
Whole(G) == { g \in G : \A h \in TDCEntries : SameChannel(g, h) => h \in G }

\* What a pass over the data finds.
Shifts(tab, a) == [g \in { h \in TDCEntries : h[1] = a /\ tab[h].valid } |-> T0[g] - tab[g].t0]

\* The table when the process of an ASIC that was begun once is where it is.
TDCAt(k, tab, G) ==
  /\ k.at = "fit" => Untouched(tab, k.asic)
  /\ k.at \in {"pass", "shift", "check"} => Calibrates(tab, k.asic, G)
  /\ k.at = "check" \/ (k.at \in {"pass", "shift"} /\ k.iter > 0) => Shifted(tab, k.asic)
  /\ k.at = "shift" => k.shift = Shifts(tab, k.asic)
  /\ k.at = "exit" => Calibrates(tab, k.asic, Whole(G)) /\ Shifted(tab, k.asic)

TDCKidOK(k) ==
  /\ k = [asic |-> k.asic, at |-> k.at, unread |-> k.unread, iter |-> k.iter, shift |-> k.shift]
  /\ k.asic \in Asics /\ k.at \in {"fit", "pass", "shift", "check", "exit"}
  /\ k.iter \in 0 .. nIterations /\ (k.at = "fit" => k.iter = 0)
  /\ k.at = "shift" => /\ k.iter < nIterations
                       /\ DOMAIN k.shift \subseteq TDCEntries
                       /\ \A g \in DOMAIN k.shift : k.shift[g] \in Int

TDCIn(ks, tab, st, fin, G, adj) ==
  /\ tab \in TDCTables
  /\ \A p \in Pids : Busy(ks[p]) => TDCKidOK(ks[p])
  /\ \A a \in Asics : st[a] = 0 => Untouched(tab, a)
  /\ \A p \in Pids : Busy(ks[p]) /\ st[ks[p].asic] = 1 => TDCAt(ks[p], tab, G)
  /\ \A a \in fin : st[a] = 1 => Calibrates(tab, a, Whole(G)) /\ (~adj => Shifted(tab, a))

\* The entries of ASIC a are the same in two tables.
SameFor(tab, tab2, a) == \A g \in TDCEntries : g[1] = a => tab2[g] = tab[g]

\* What holds of the entries of an ASIC holds as long as they stay the same,
LEMMA SameEntries ==
  ASSUME NEW tab, NEW tab2, NEW a, SameFor(tab, tab2, a), NEW G
  PROVE  /\ Untouched(tab, a) => Untouched(tab2, a)
         /\ Calibrates(tab, a, G) => Calibrates(tab2, a, G)
         /\ Shifted(tab, a) => Shifted(tab2, a)
         /\ Shifts(tab2, a) = Shifts(tab, a)
<1>1. /\ Untouched(tab, a) => Untouched(tab2, a)
      /\ Calibrates(tab, a, G) => Calibrates(tab2, a, G)
      /\ Shifted(tab, a) => Shifted(tab2, a)
  BY DEF SameFor, Untouched, Calibrates, Shifted
<1>2. Shifts(tab2, a) = Shifts(tab, a)
  <2>1. PICK S : S = { h \in TDCEntries : h[1] = a /\ tab[h].valid }
    OBVIOUS
  <2>2. S = { h \in TDCEntries : h[1] = a /\ tab2[h].valid } /\ \A g \in S : tab2[g] = tab[g]
    BY <2>1 DEF SameFor
  <2> QED
    BY <2>1, <2>2 DEF Shifts
<1> QED
  BY <1>1, <1>2

\* and so does what its process has reached.
LEMMA SameAt ==
  ASSUME NEW tab, NEW tab2, NEW k, SameFor(tab, tab2, k.asic), NEW G, TDCAt(k, tab, G)
  PROVE  TDCAt(k, tab2, G)
BY SameEntries DEF TDCAt

\* Processes that end, well or not, leave the table as it is.
LEMMA TDCEnd ==
  ASSUME NEW ks, NEW ks2, NEW tab, NEW st, NEW fin, NEW G, NEW adj, NEW adj2,
         TDCIn(ks, tab, st, fin, G, adj), OnlyEnd(ks, ks2), adj => adj2
  PROVE  TDCIn(ks2, tab, st, fin, G, adj2)
BY DEF TDCIn, OnlyEnd

\* A process ends well: its ASIC is finished.
LEMMA TDCExit ==
  ASSUME NEW ks, NEW ks2, NEW tab, NEW st, NEW fin, NEW G, NEW adj, NEW p \in Pids,
         Busy(ks[p]), ks[p].at = "exit",
         TDCIn(ks, tab, st, fin, G, adj), OnlyEnd(ks, ks2)
  PROVE  TDCIn(ks2, tab, st, fin \cup {ks[p].asic}, G, adj)
<1>1. st[ks[p].asic] = 1 => Calibrates(tab, ks[p].asic, Whole(G)) /\ Shifted(tab, ks[p].asic)
  BY DEF TDCIn, TDCAt
<1> QED
  BY <1>1 DEF TDCIn, OnlyEnd

\* A process begins.
LEMMA TDCFork ==
  ASSUME NEW ks, NEW ks2, NEW tab, NEW st, NEW st2, NEW fin, NEW G, NEW adj, NEW p \in Pids,
         NEW a, NEW k, Becomes(ks, ks2, p, k, a), TDCKidOK(k), k.at = "fit",
         TDCIn(ks, tab, st, fin, G, adj), AloneIn(ks, st, fin),
         \A b \in Asics : b # a => st2[b] = st[b], fin \subseteq Asics,
         st2[a] = IF st[a] = 0 THEN 1 ELSE 2
  PROVE  TDCIn(ks2, tab, st2, fin, G, adj)
<1>1. a \in Asics /\ ks2[p] = k /\ k.asic = a /\ \A q \in Pids : q # p => ks2[q] = ks[q]
  BY DEF Becomes
<1>2. st2[a] # 0 /\ \A b \in Asics : (st2[b] = 0 => st[b] = 0) /\ (st2[b] = 1 /\ b # a => st[b] = 1)
  BY <1>1
<1>3. st2[a] = 1 => /\ st[a] = 0 /\ Untouched(tab, a)
                    /\ a \notin fin /\ \A q \in Pids : Busy(ks[q]) => ks[q].asic # a
  BY <1>1 DEF TDCIn, AloneIn, AtWork
<1>4. ASSUME NEW q \in Pids, Busy(ks2[q])
      PROVE  TDCKidOK(ks2[q]) /\ (st2[ks2[q].asic] = 1 => TDCAt(ks2[q], tab, G))
  <2>1. CASE q = p
    BY <1>1, <1>3, <2>1 DEF TDCAt
  <2>2. CASE q # p
    <3>1. ks2[q] = ks[q] /\ TDCKidOK(ks[q]) /\ ks[q].asic \in Asics
      BY <1>1, <1>4, <2>2 DEF TDCIn, TDCKidOK
    <3>2. CASE ks[q].asic = a
      <4>1. st2[a] # 1
        BY <1>3, <1>4, <3>1, <3>2
      <4> QED
        BY <3>1, <3>2, <4>1
    <3>3. CASE ks[q].asic # a
      BY <1>2, <1>4, <3>1, <3>3 DEF TDCIn
    <3> QED
      BY <3>2, <3>3
  <2> QED
    BY <2>1, <2>2
<1>5. ASSUME NEW b \in fin, st2[b] = 1
      PROVE  Calibrates(tab, b, Whole(G)) /\ (~adj => Shifted(tab, b))
  BY <1>2, <1>3, <1>5 DEF TDCIn
<1> QED
  BY <1>2, <1>4, <1>5 DEF TDCIn

\* A process fills in its own entries.
LEMMA TDCStep ==
  ASSUME NEW ks, NEW ks2, NEW tab, NEW tab2, NEW st, NEW fin \in SUBSET Asics, NEW G, NEW adj,
         NEW p \in Pids, Busy(ks[p]), NEW k, Becomes(ks, ks2, p, k, ks[p].asic),
         TDCIn(ks, tab, st, fin, G, adj), AloneIn(ks, st, fin),
         tab2 \in TDCTables, \A a \in Asics : a # k.asic => SameFor(tab, tab2, a),
         TDCKidOK(k), st[k.asic] = 1 => TDCAt(k, tab2, G)
  PROVE  TDCIn(ks2, tab2, st, fin, G, adj)
<1>1. /\ k.asic \in Asics /\ k.asic = ks[p].asic /\ ks2[p] = k
      /\ \A q \in Pids : q # p => ks2[q] = ks[q]
  BY DEF Becomes
<1>2. /\ st[k.asic] # 0
      /\ st[k.asic] = 1 => /\ k.asic \notin fin
                            /\ \A q \in Pids : q # p /\ Busy(ks[q]) => ks[q].asic # k.asic
  <2>1. ks[p].asic \in Asics
    BY <1>1
  <2>2. /\ st[ks[p].asic] # 0
        /\ st[ks[p].asic] = 1 => /\ ks[p].asic \notin fin
                                 /\ \A q \in Pids : q # p /\ Busy(ks[q]) => ks[q].asic # ks[p].asic
    BY <2>1, AloneMeans
  <2> QED
    BY <1>1, <2>2
<1>3. ASSUME NEW a \in Asics, st[a] = 0 PROVE Untouched(tab2, a)
  <2>1. a # k.asic /\ Untouched(tab, a)
    BY <1>2, <1>3 DEF TDCIn
  <2> QED
    BY <2>1, SameEntries
<1>4. ASSUME NEW a \in fin, st[a] = 1
      PROVE  Calibrates(tab2, a, Whole(G)) /\ (~adj => Shifted(tab2, a))
  <2>1. a # k.asic /\ SameFor(tab, tab2, a)
    BY <1>2, <1>4
  <2>2. Calibrates(tab, a, Whole(G)) /\ (~adj => Shifted(tab, a))
    BY <1>4 DEF TDCIn
  <2> QED
    BY <2>1, <2>2, SameEntries
<1>5. ASSUME NEW q \in Pids, Busy(ks2[q])
      PROVE  TDCKidOK(ks2[q]) /\ (st[ks2[q].asic] = 1 => TDCAt(ks2[q], tab2, G))
  <2>1. CASE q = p
    BY <1>1, <2>1
  <2>2. CASE q # p
    <3>1. ks2[q] = ks[q] /\ TDCKidOK(ks[q]) /\ ks[q].asic \in Asics
      BY <1>1, <1>5, <2>2 DEF TDCIn, TDCKidOK
    <3>2. ASSUME st[ks[q].asic] = 1 PROVE TDCAt(ks[q], tab2, G)
      <4>1. TDCAt(ks[q], tab, G)
        BY <1>5, <3>1, <3>2 DEF TDCIn
      <4>2. ks[q].asic # k.asic
        BY <1>2, <1>5, <2>2, <3>1, <3>2
      <4>3. SameFor(tab, tab2, ks[q].asic)
        BY <3>1, <4>2
      <4> QED
        BY <4>1, <4>3, SameAt
    <3> QED
      BY <3>1, <3>2
  <2> QED
    BY <2>1, <2>2
<1> QED
  BY <1>3, <1>4, <1>5 DEF TDCIn

\* The numbers of entries that the programs find in a file, as Filed has them.
LEMMA EntriesAre ==
  ASSUME NEW g, NEW s
  PROVE  Entries(g, s) = Freqs(s, Selected("tdc", g, s))
<1>1. { i \in DOMAIN s : s[i].gid = g } = Selected("tdc", g, s)
  BY DEF Selected
<1> QED
  BY <1>1 DEF Entries, Freqs

\* The same of the events that are not saturated.
LEMMA UnsaturatedAre ==
  ASSUME NEW g
  PROVE  Unsaturated(g) = Freqs(files[g[1]], Selected("qdc", g, files[g[1]]))
<1>1. PICK s : s = files[g[1]]
  OBVIOUS
<1>2. { i \in DOMAIN s : s[i].gid = g /\ ~s[i].saturation } = Selected("qdc", g, s)
  BY DEF Selected
<1> QED
  BY <1>1, <1>2 DEF Unsaturated, Freqs

\* No process is left in the phases before and after their work.
LEMMA NoneLeft ==
  ASSUME JobsIInv, phase \in {"sort", "stat", "table", "write", "delete", "done"}, NEW p \in Pids
  PROVE  kids[p].at = "none"
<1>1. PICK S \in SUBSET Pids : S = Pids \ Free
  OBVIOUS
<1>2. Cardinality(S) = 0
  BY <1>1 DEF JobsIInv, TypeOK, Workers
<1>3. S = {}
  BY <1>2, PidsCounted
<1> QED
  BY <1>1, <1>3 DEF Free

\* What the fits need of an entry is what the data say of it.
LEMMA FittedIs ==
  ASSUME Filed, program = "tdc", phase \notin {"sort", "done"}, NEW g \in TDCEntries
  PROVE  Fitted(g) <=> g \in GoodTDC(program, events)
<1>1. /\ g[1] \in Asics /\ g[2] \in Channels /\ g[3] \in Tacs /\ g[4] \in {"T", "E"}
      /\ g = <<g[1], g[2], g[3], g[4]>>
  BY DEF TDCEntries
<1>2. g \in Gids(program, g[1], g[2], g[3])
  BY <1>1 DEF Gids
<1>3. PICK a \in Asics : a = g[1]
  BY <1>1
<1>4. PICK c \in Channels : c = g[2]
  BY <1>1
<1>5. PICK t \in Tacs : t = g[3]
  BY <1>1
<1>6. g \in Gids(program, a, c, t)
  BY <1>2, <1>3, <1>4, <1>5
<1>7. Freqs(files[a], Selected(program, g, files[a]))
        = Freqs(events, CountedFor(program, events, Len(events), a, c, t))
  <2>1. sorted = Len(events)
    BY DEF Filed
  <2>2. Freqs(files[a], Selected(program, g, files[a]))
          = Freqs(events, CountedFor(program, events, sorted, a, c, t))
    BY <1>6 DEF Filed
  <2> QED
    BY <2>1, <2>2
<1>8. Entries(g, files[a]) = Freqs(files[a], Selected(program, g, files[a]))
  BY EntriesAre
<1>9. EnoughData(g) <=> Freqs(events, CountedFor(program, events, Len(events), a, c, t)) >= MinEntries
  BY <1>3, <1>7, <1>8 DEF EnoughData
<1>10. HasEdge(g) /\ SlopeInRange(g) /\ GoodFit(g) <=> Shape[g] = "good"
  <2>1. Shape[g] \in {"good", "no edge", "bad slope", "bad fit"}
    BY TDCAssumption
  <2> QED
    BY <2>1 DEF HasEdge, SlopeInRange, GoodFit
<1> QED
  BY <1>3, <1>4, <1>5, <1>9, <1>10 DEF Fitted, GoodTDC

\* A stage and what was found are set in a process.
KidAt(r, l, x) == [r EXCEPT !.at = l, !.shift = x]
KidIs(r, a, b, u, i, s) == r = [asic |-> a, at |-> b, unread |-> u, iter |-> i, shift |-> s]
\* Only the stage and what was found change.
LEMMA KidSet ==
  ASSUME NEW a, NEW b, NEW u, NEW i, NEW s, NEW l, NEW x, NEW r, KidIs(r, a, b, u, i, s)
  PROVE  KidIs(KidAt(r, l, x), a, l, u, i, x)
<1>1. PICK q : q = [r EXCEPT !.at = l, !.shift = x]
  OBVIOUS
<1>2. q = [w \in {"asic", "at", "unread", "iter", "shift"} |-> q[w]]
  BY <1>1 DEF KidIs
<1>3. q.asic = a /\ q.at = l /\ q.unread = u /\ q.iter = i /\ q.shift = x
  BY <1>1 DEF KidIs
<1> QED
  BY <1>1, <1>2, <1>3 DEF KidAt, KidIs

\* A process is written over another.
LEMMA KidBecomes ==
  ASSUME Kids, NEW p \in Pids, NEW a \in Asics, NEW k, Busy(k), k.asic = a,
         kids' = [kids EXCEPT ![p] = k]
  PROVE  Becomes(kids, kids', p, k, a)
<1>1. DOMAIN kids = Pids
  BY DEF Kids
<1> QED
  BY <1>1 DEF Becomes

\* A process goes from one stage to the next.
LEMMA TDCGoesOn ==
  ASSUME JobsIInv, Filed, program = "tdc", AloneIn(kids, started, finished), NEW adj,
         NEW G, G = GoodTDC(program, events), TDCIn(kids, table, started, finished, G, adj),
         NEW p \in Pids, TDCProcess(p)
  PROVE  AloneIn(kids', started', finished') /\ TDCIn(kids', table', started', finished', G, adj)
<1>1. Busy(kids[p]) /\ started' = started /\ finished' = finished /\ finished \in SUBSET Asics
  <2>1. finished \in SUBSET Asics
    BY DEF JobsIInv, TypeOK
  <2> QED
    BY <2>1 DEF TDCProcess, TDCFit, TDCPass, TDCShift, TDCCheck, Busy, jobVars
<1>2. TDCKidOK(kids[p]) /\ table \in TDCTables
      /\ (started[kids[p].asic] = 1 => TDCAt(kids[p], table, G))
  BY <1>1 DEF TDCIn
<1>3. PICK a \in Asics : a = kids[p].asic
  BY <1>2 DEF TDCKidOK
<1>4. PICK i \in 0 .. nIterations : i = kids[p].iter
  BY <1>2 DEF TDCKidOK
<1>5. PICK u : u = kids[p].unread
  OBVIOUS
<1>6. PICK s : s = kids[p].shift
  OBVIOUS
<1>7. kids[p] = [asic |-> a, at |-> kids[p].at, unread |-> u, iter |-> i, shift |-> s]
  BY <1>2, <1>3, <1>4, <1>5, <1>6 DEF TDCKidOK
<1>8. /\ DOMAIN table = TDCEntries
      /\ \A g \in TDCEntries : /\ table[g].valid \in BOOLEAN /\ table[g].t0 \in Int
                               /\ table[g] = [valid |-> table[g].valid, t0 |-> table[g].t0]
  BY <1>2 DEF TDCTables
<1>a. \A g \in TDCEntries : table[g] \in [valid : BOOLEAN, t0 : Int]
  BY <1>2 DEF TDCTables
<1>9. Own(p) = { g \in TDCEntries : g[1] = a }
  BY <1>3, <1>8 DEF Own
<1>10. ASSUME NEW k, kids' = [kids EXCEPT ![p] = k], Busy(k), TDCKidOK(k), k.asic = a,
              table' \in TDCTables, \A g \in TDCEntries : g[1] # a => table'[g] = table[g],
              started[a] = 1 => TDCAt(k, table', G)
       PROVE  AloneIn(kids', started', finished') /\ TDCIn(kids', table', started', finished', G, adj)
  <2>1. Becomes(kids, kids', p, k, kids[p].asic)
    BY <1>3, <1>10, KidBecomes DEF JobsIInv
  <2>2. \A b \in Asics : b # k.asic => SameFor(table, table', b)
    BY <1>10 DEF SameFor
  <2>3. AloneIn(kids', started, finished)
    BY <1>1, <2>1, AloneStep
  <2>4. TDCIn(kids', table', started, finished, G, adj)
    BY <1>1, <1>10, <2>1, <2>2, TDCStep
  <2> QED
    BY <1>1, <2>3, <2>4
<1>d. DOMAIN kids = Pids
  BY DEF JobsIInv, Kids
<1>11. CASE TDCFit(p)
  <2>1. kids[p].at = "fit" /\ i = 0
    BY <1>2, <1>4, <1>11 DEF TDCFit, TDCKidOK
  <2>2. PICK k : k = [asic |-> a, at |-> "pass", unread |-> u, iter |-> i, shift |-> s]
    OBVIOUS
  <2>3. kids' = [kids EXCEPT ![p] = k]
    <3>1. [kids[p] EXCEPT !.at = "pass"] = k
      BY <1>7, <2>2
    <3>2. kids' = [kids EXCEPT ![p] = [kids[p] EXCEPT !.at = "pass"]]
      BY <1>11 DEF TDCFit
    <3> QED
      BY <3>1, <3>2
  <2>4. Busy(k) /\ TDCKidOK(k) /\ k.asic = a
    BY <2>2 DEF Busy, TDCKidOK
  <2>5. /\ table' = [g \in TDCEntries |-> table'[g]]
        /\ \A g \in TDCEntries :
             table'[g] = IF g[1] = a /\ Fitted(g) THEN [valid |-> TRUE, t0 |-> 0] ELSE table[g]
    BY <1>8, <1>9, <1>11 DEF TDCFit
  <2>6. table' \in TDCTables
    <3>1. ASSUME NEW g \in TDCEntries PROVE table'[g] \in [valid : BOOLEAN, t0 : Int]
      <4>1. table'[g] \in {[valid |-> TRUE, t0 |-> 0], table[g]}
        BY <2>5
      <4>2. [valid |-> TRUE, t0 |-> 0] \in [valid : BOOLEAN, t0 : Int]
        OBVIOUS
      <4> QED
        BY <1>a, <4>1, <4>2
    <3> QED
      BY <2>5, <3>1 DEF TDCTables
  <2>7. \A g \in TDCEntries : Fitted(g) <=> g \in G
    <3>1. phase \notin {"sort", "done"}
      BY <1>11, NoneLeft DEF TDCFit
    <3> QED
      BY <3>1, FittedIs
  <2>8. started[a] = 1 => TDCAt(k, table', G)
    <3>1. SUFFICES ASSUME started[a] = 1 PROVE TDCAt(k, table', G)
      OBVIOUS
    <3>2. Untouched(table, a)
      BY <1>2, <1>3, <2>1, <3>1 DEF TDCAt
    <3>3. Calibrates(table', a, G)
      BY <2>5, <2>7, <3>2 DEF Untouched, Calibrates
    <3> QED
      BY <2>1, <2>2, <3>3 DEF TDCAt
  <2> QED
    BY <1>10, <2>3, <2>4, <2>5, <2>6, <2>8
<1>12. CASE TDCPass(p)
  <2>1. kids[p].at = "pass" /\ table' = table
    BY <1>12 DEF TDCPass
  <2>2. PICK k : k = [asic |-> a, at |-> IF i < nIterations THEN "shift" ELSE "check", unread |-> u,
                      iter |-> i, shift |-> Shifts(table, a)]
    OBVIOUS
  <2>3. [g \in Valid(p) |-> T0[g] - table[g].t0] = Shifts(table, a)
    <3>1. Valid(p) = { h \in TDCEntries : h[1] = a /\ table[h].valid }
      BY <1>9 DEF Valid
    <3> QED
      BY <3>1 DEF Shifts
  <2>4. kids' = [kids EXCEPT ![p] = k]
    <3>1. PICK l : l = IF i < nIterations THEN "shift" ELSE "check"
      OBVIOUS
    <3>2. PICK r : r = kids[p] /\ r = [asic |-> a, at |-> "pass", unread |-> u, iter |-> i, shift |-> s]
      BY <1>7, <2>1
    <3>3. KidAt(r, l, Shifts(table, a)) = k
      <4>1. KidIs(r, a, "pass", u, i, s)
        BY <3>2 DEF KidIs
      <4>2. KidIs(KidAt(r, l, Shifts(table, a)), a, l, u, i, Shifts(table, a))
        BY <4>1, KidSet
      <4> QED
        BY <2>2, <3>1, <4>2 DEF KidIs
    <3>4. kids' = [kids EXCEPT ![p] = KidAt(r, l, Shifts(table, a))]
      BY <1>4, <1>12, <1>d, <2>3, <3>1, <3>2 DEF TDCPass, KidAt
    <3> QED
      BY <3>3, <3>4
  <2>5. DOMAIN Shifts(table, a) \subseteq TDCEntries /\ \A g \in DOMAIN Shifts(table, a) : Shifts(table, a)[g] \in Int
    <3>1. \A g \in TDCEntries : T0[g] - table[g].t0 \in Int
      <4>1. \A g \in TDCEntries : table[g].t0 \in Int
        BY <1>8
      <4>2. \A g \in TDCEntries : T0[g] \in Int
        BY TDCAssumption
      <4> QED
        BY <4>1, <4>2
    <3>2. /\ DOMAIN Shifts(table, a) = { h \in TDCEntries : h[1] = a /\ table[h].valid }
          /\ \A g \in TDCEntries : g[1] = a /\ table[g].valid => Shifts(table, a)[g] = T0[g] - table[g].t0
      BY DEF Shifts
    <3> QED
      BY <3>1, <3>2
  <2>6. Busy(k) /\ TDCKidOK(k) /\ k.asic = a
    BY <2>2, <2>5 DEF Busy, TDCKidOK
  <2>7. started[a] = 1 => TDCAt(k, table', G)
    <3>1. SUFFICES ASSUME started[a] = 1 PROVE TDCAt(k, table, G)
      BY <2>1
    <3>2. Calibrates(table, a, G) /\ (i > 0 => Shifted(table, a))
      BY <1>2, <1>3, <1>4, <2>1, <3>1 DEF TDCAt
    <3>3. k.at = "check" => i > 0
      BY <2>2 DEF nIterations
    <3> QED
      BY <2>2, <3>2, <3>3 DEF TDCAt
  <2> QED
    BY <1>2, <1>10, <2>1, <2>4, <2>6, <2>7
<1>13. CASE TDCShift(p)
  <2>1. kids[p].at = "shift" /\ i < nIterations /\ \A g \in DOMAIN s : s[g] \in Int
    BY <1>2, <1>4, <1>6, <1>13 DEF TDCShift, TDCKidOK
  <2>2. PICK k : k = [asic |-> a, at |-> "pass", unread |-> u, iter |-> i + 1, shift |-> <<>>]
    OBVIOUS
  <2>3. kids' = [kids EXCEPT ![p] = k]
    BY <1>7, <1>13, <1>d, <2>2 DEF TDCShift
  <2>4. Busy(k) /\ TDCKidOK(k) /\ k.asic = a
    <3>1. i + 1 \in 0 .. nIterations
      BY <2>1 DEF nIterations
    <3> QED
      BY <2>2, <3>1 DEF Busy, TDCKidOK
  <2>5. /\ table' = [g \in TDCEntries |-> table'[g]]
        /\ \A g \in TDCEntries :
             table'[g] = IF g[1] = a /\ table[g].valid /\ g \in DOMAIN s
                         THEN [valid |-> table[g].valid, t0 |-> table[g].t0 + s[g]] ELSE table[g]
    <3>1. Valid(p) = { g \in TDCEntries : g[1] = a /\ table[g].valid }
      BY <1>9 DEF Valid
    <3>2. table' = [g \in TDCEntries |->
                      IF g \in Valid(p) \cap DOMAIN s
                      THEN [table[g] EXCEPT !.t0 = @ + s[g]] ELSE table[g]]
      BY <1>6, <1>8, <1>13 DEF TDCShift
    <3>3. \A g \in TDCEntries : [table[g] EXCEPT !.t0 = @ + s[g]]
                                  = [valid |-> table[g].valid, t0 |-> table[g].t0 + s[g]]
      BY <1>8
    <3> QED
      BY <3>1, <3>2, <3>3
  <2>6. table' \in TDCTables
    BY <1>8, <2>1, <2>5 DEF TDCTables
  <2>7. started[a] = 1 => TDCAt(k, table', G)
    <3>1. SUFFICES ASSUME started[a] = 1 PROVE TDCAt(k, table', G)
      OBVIOUS
    <3>2. Calibrates(table, a, G) /\ s = Shifts(table, a)
      BY <1>2, <1>3, <1>6, <2>1, <3>1 DEF TDCAt
    <3>3. Calibrates(table', a, G)
      BY <2>5, <3>2 DEF Calibrates
    <3>4. \A g \in TDCEntries : g[1] = a /\ table[g].valid => g \in DOMAIN s /\ s[g] = T0[g] - table[g].t0
      BY <3>2 DEF Shifts
    <3>5. Shifted(table', a)
      <4>1. \A g \in TDCEntries : T0[g] \in Int
        BY TDCAssumption
      <4>2. \A g \in TDCEntries : table[g].t0 + (T0[g] - table[g].t0) = T0[g]
        BY <1>8, <4>1
      <4>3. \A g \in TDCEntries : table'[g].valid => table[g].valid
        BY <2>5
      <4> QED
        BY <2>5, <3>4, <4>2, <4>3 DEF Shifted
    <3> QED
      BY <2>2, <3>3, <3>5 DEF TDCAt
  <2> QED
    BY <1>10, <2>3, <2>4, <2>5, <2>6, <2>7
<1>14. CASE TDCCheck(p)
  <2>1. kids[p].at = "check"
    BY <1>14 DEF TDCCheck
  <2>2. PICK k : k = [asic |-> a, at |-> "exit", unread |-> u, iter |-> i, shift |-> <<>>]
    OBVIOUS
  <2>3. kids' = [kids EXCEPT ![p] = k]
    <3>1. PICK r : r = kids[p] /\ r = [asic |-> a, at |-> "check", unread |-> u, iter |-> i, shift |-> s]
      BY <1>7, <2>1
    <3>2. KidAt(r, "exit", <<>>) = k
      <4>1. KidIs(r, a, "check", u, i, s)
        BY <3>1 DEF KidIs
      <4>2. KidIs(KidAt(r, "exit", <<>>), a, "exit", u, i, <<>>)
        BY <4>1, KidSet
      <4> QED
        BY <2>2, <4>2 DEF KidIs
    <3>3. kids' = [kids EXCEPT ![p] = KidAt(r, "exit", <<>>)]
      BY <1>14, <1>d, <3>1 DEF TDCCheck, KidAt
    <3> QED
      BY <3>2, <3>3
  <2>4. Busy(k) /\ TDCKidOK(k) /\ k.asic = a
    BY <2>2 DEF Busy, TDCKidOK
  <2>5. /\ table' = [g \in TDCEntries |-> table'[g]]
        /\ \A g \in TDCEntries :
             table'[g] = IF g[1] = a /\ ~ChannelOK(g)
                         THEN [valid |-> FALSE, t0 |-> table[g].t0] ELSE table[g]
    <3>1. table' = [g \in TDCEntries |->
                      IF g \in Own(p) /\ ~ChannelOK(g)
                      THEN [table[g] EXCEPT !.valid = FALSE] ELSE table[g]]
      BY <1>8, <1>14 DEF TDCCheck
    <3>2. \A g \in TDCEntries : [table[g] EXCEPT !.valid = FALSE] = [valid |-> FALSE, t0 |-> table[g].t0]
      <4> SUFFICES ASSUME NEW g \in TDCEntries
                   PROVE  [table[g] EXCEPT !.valid = FALSE] = [valid |-> FALSE, t0 |-> table[g].t0]
        OBVIOUS
      <4>1. PICK v : v = table[g].valid
        OBVIOUS
      <4>2. PICK t : t = table[g].t0
        OBVIOUS
      <4>3. table[g] = [valid |-> v, t0 |-> t]
        BY <1>8, <4>1, <4>2
      <4>4. PICK r : r = table[g] /\ r = [valid |-> v, t0 |-> t]
        BY <4>3
      <4>5. PICK w : w = FALSE
        OBVIOUS
      <4>6. [r EXCEPT !.valid = w] = [valid |-> w, t0 |-> t]
        BY <4>4
      <4> QED
        BY <4>2, <4>4, <4>5, <4>6
    <3> QED
      BY <1>9, <3>1, <3>2
  <2>6. table' \in TDCTables
    <3>1. ASSUME NEW g \in TDCEntries PROVE table'[g] \in [valid : BOOLEAN, t0 : Int]
      <4>1. table'[g] \in {[valid |-> FALSE, t0 |-> table[g].t0], table[g]}
        BY <2>5
      <4>2. table[g].t0 \in Int
        BY <1>8
      <4>3. [valid |-> FALSE, t0 |-> table[g].t0] \in [valid : BOOLEAN, t0 : Int]
        BY <4>2
      <4> QED
        BY <1>a, <4>1, <4>3
    <3> QED
      BY <2>5, <3>1 DEF TDCTables
  <2>7. started[a] = 1 => TDCAt(k, table', G)
    <3>1. SUFFICES ASSUME started[a] = 1 PROVE TDCAt(k, table', G)
      OBVIOUS
    <3>2. Calibrates(table, a, G) /\ Shifted(table, a)
      BY <1>2, <1>3, <2>1, <3>1 DEF TDCAt
    <3>3. \A g \in TDCEntries : g[1] = a => (ChannelOK(g) <=> \A h \in TDCEntries : SameChannel(g, h) => h \in G)
      BY <1>8, <3>2 DEF ChannelOK, Calibrates, SameChannel
    <3>4. Calibrates(table', a, Whole(G))
      BY <1>8, <2>5, <3>2, <3>3 DEF Calibrates, Whole
    <3>5. Shifted(table', a)
      BY <2>5, <3>2 DEF Shifted
    <3> QED
      BY <2>2, <3>4, <3>5 DEF TDCAt
  <2> QED
    BY <1>10, <2>3, <2>4, <2>5, <2>6, <2>7
<1> QED
  BY <1>11, <1>12, <1>13, <1>14 DEF TDCProcess

-----------------------------------------------------------------------------
(* The table of process_qdc_calibration.                                   *)

QDCTables == [QDCEntries -> [valid : BOOLEAN]]

\* The entries with enough data, to which a curve can be fitted.
GoodQDC(pr, ev) ==
  { g \in QDCEntries :
      /\ Freqs(ev, CountedFor(pr, ev, Len(ev), g[1], g[2], g[3])) >= MinEntries
      /\ g \notin NoCurve }

QDCCalibrates(tab, a, G) == \A g \in QDCEntries : g[1] = a => (tab[g].valid <=> g \in G)

\* The table when the process of an ASIC that was begun once is where it is.
QDCAt(k, tab, G) ==
  /\ k.at \in {"clear", "fit"} => QDCCalibrates(tab, k.asic, {})
  /\ k.at \notin {"clear", "fit"} => QDCCalibrates(tab, k.asic, G)

QDCKidOK(k) ==
  /\ k = [asic |-> k.asic, at |-> k.at, unread |-> k.unread, made |-> k.made]
  /\ k.asic \in Asics /\ k.at \in {"clear", "fit", "book", "control", "summary", "exit"}

QDCIn(ks, tab, st, fin, G) ==
  /\ tab \in QDCTables
  /\ \A p \in Pids : Busy(ks[p]) => QDCKidOK(ks[p])
  /\ \A a \in Asics : st[a] = 0 => QDCCalibrates(tab, a, {})
  /\ \A p \in Pids : Busy(ks[p]) /\ st[ks[p].asic] = 1 => QDCAt(ks[p], tab, G)
  /\ \A a \in fin : st[a] = 1 => QDCCalibrates(tab, a, G)

\* The entries of ASIC a are the same in two tables.
SameForQ(tab, tab2, a) == \A g \in QDCEntries : g[1] = a => tab2[g] = tab[g]

\* What is said of the entries of an ASIC depends on nothing else.
LEMMA SameCharge ==
  ASSUME NEW tab, NEW tab2, NEW a, SameForQ(tab, tab2, a), NEW G, QDCCalibrates(tab, a, G)
  PROVE  QDCCalibrates(tab2, a, G)
BY DEF SameForQ, QDCCalibrates

\* Processes that end, well or not, leave the table as it is.
LEMMA QDCEnd ==
  ASSUME NEW ks, NEW ks2, NEW tab, NEW st, NEW fin, NEW G,
         QDCIn(ks, tab, st, fin, G), OnlyEnd(ks, ks2)
  PROVE  QDCIn(ks2, tab, st, fin, G)
BY DEF QDCIn, OnlyEnd

\* One that ends well has made what its ASIC's data give.
LEMMA QDCExit ==
  ASSUME NEW ks, NEW ks2, NEW tab, NEW st, NEW fin, NEW G, NEW p \in Pids,
         Busy(ks[p]), ks[p].at = "exit",
         QDCIn(ks, tab, st, fin, G), OnlyEnd(ks, ks2)
  PROVE  QDCIn(ks2, tab, st, fin \cup {ks[p].asic}, G)
<1>1. st[ks[p].asic] = 1 => QDCCalibrates(tab, ks[p].asic, G)
  BY DEF QDCIn, QDCAt
<1> QED
  BY <1>1 DEF QDCIn, OnlyEnd

\* A process begins.
LEMMA QDCFork ==
  ASSUME NEW ks, NEW ks2, NEW tab, NEW st, NEW st2, NEW fin, NEW G, NEW p \in Pids,
         NEW a, NEW k, Becomes(ks, ks2, p, k, a), QDCKidOK(k), k.at = "clear",
         QDCIn(ks, tab, st, fin, G), AloneIn(ks, st, fin),
         \A b \in Asics : b # a => st2[b] = st[b], fin \subseteq Asics,
         st2[a] = IF st[a] = 0 THEN 1 ELSE 2
  PROVE  QDCIn(ks2, tab, st2, fin, G)
<1>1. a \in Asics /\ ks2[p] = k /\ k.asic = a /\ \A q \in Pids : q # p => ks2[q] = ks[q]
  BY DEF Becomes
<1>2. st2[a] # 0 /\ \A b \in Asics : (st2[b] = 0 => st[b] = 0) /\ (st2[b] = 1 /\ b # a => st[b] = 1)
  BY <1>1
<1>3. st2[a] = 1 => /\ st[a] = 0 /\ QDCCalibrates(tab, a, {})
                    /\ a \notin fin /\ \A q \in Pids : Busy(ks[q]) => ks[q].asic # a
  BY <1>1 DEF QDCIn, AloneIn, AtWork
<1>4. ASSUME NEW q \in Pids, Busy(ks2[q])
      PROVE  QDCKidOK(ks2[q]) /\ (st2[ks2[q].asic] = 1 => QDCAt(ks2[q], tab, G))
  <2>1. CASE q = p
    BY <1>1, <1>3, <2>1 DEF QDCAt
  <2>2. CASE q # p
    <3>1. ks2[q] = ks[q] /\ QDCKidOK(ks[q]) /\ ks[q].asic \in Asics
      BY <1>1, <1>4, <2>2 DEF QDCIn, QDCKidOK
    <3>2. CASE ks[q].asic = a
      <4>1. st2[a] # 1
        BY <1>3, <1>4, <3>1, <3>2
      <4> QED
        BY <3>1, <3>2, <4>1
    <3>3. CASE ks[q].asic # a
      BY <1>2, <1>4, <3>1, <3>3 DEF QDCIn
    <3> QED
      BY <3>2, <3>3
  <2> QED
    BY <2>1, <2>2
<1>5. ASSUME NEW b \in fin, st2[b] = 1
      PROVE  QDCCalibrates(tab, b, G)
  BY <1>2, <1>3, <1>5 DEF QDCIn
<1> QED
  BY <1>2, <1>4, <1>5 DEF QDCIn

\* A process fills in its own entries.
LEMMA QDCStep ==
  ASSUME NEW ks, NEW ks2, NEW tab, NEW tab2, NEW st, NEW fin \in SUBSET Asics, NEW G,
         NEW p \in Pids, Busy(ks[p]), NEW k, Becomes(ks, ks2, p, k, ks[p].asic),
         QDCIn(ks, tab, st, fin, G), AloneIn(ks, st, fin),
         tab2 \in QDCTables, \A a \in Asics : a # k.asic => SameForQ(tab, tab2, a),
         QDCKidOK(k), st[k.asic] = 1 => QDCAt(k, tab2, G)
  PROVE  QDCIn(ks2, tab2, st, fin, G)
<1>1. /\ k.asic \in Asics /\ k.asic = ks[p].asic /\ ks2[p] = k
      /\ \A q \in Pids : q # p => ks2[q] = ks[q]
  BY DEF Becomes
<1>2. /\ st[k.asic] # 0
      /\ st[k.asic] = 1 => /\ k.asic \notin fin
                            /\ \A q \in Pids : q # p /\ Busy(ks[q]) => ks[q].asic # k.asic
  <2>1. ks[p].asic \in Asics
    BY <1>1
  <2>2. /\ st[ks[p].asic] # 0
        /\ st[ks[p].asic] = 1 => /\ ks[p].asic \notin fin
                                 /\ \A q \in Pids : q # p /\ Busy(ks[q]) => ks[q].asic # ks[p].asic
    BY <2>1, AloneMeans
  <2> QED
    BY <1>1, <2>2
<1>3. ASSUME NEW a \in Asics, st[a] = 0 PROVE QDCCalibrates(tab2, a, {})
  <2>1. a # k.asic /\ QDCCalibrates(tab, a, {})
    BY <1>2, <1>3 DEF QDCIn
  <2> QED
    BY <2>1, SameCharge
<1>4. ASSUME NEW a \in fin, st[a] = 1
      PROVE  QDCCalibrates(tab2, a, G)
  <2>1. a # k.asic /\ SameForQ(tab, tab2, a)
    BY <1>2, <1>4
  <2>2. QDCCalibrates(tab, a, G)
    BY <1>4 DEF QDCIn
  <2> QED
    BY <2>1, <2>2, SameCharge
<1>5. ASSUME NEW q \in Pids, Busy(ks2[q])
      PROVE  QDCKidOK(ks2[q]) /\ (st[ks2[q].asic] = 1 => QDCAt(ks2[q], tab2, G))
  <2>1. CASE q = p
    BY <1>1, <2>1
  <2>2. CASE q # p
    <3>1. ks2[q] = ks[q] /\ QDCKidOK(ks[q]) /\ ks[q].asic \in Asics
      BY <1>1, <1>5, <2>2 DEF QDCIn, QDCKidOK
    <3>2. ASSUME st[ks[q].asic] = 1 PROVE QDCAt(ks[q], tab2, G)
      <4>1. QDCAt(ks[q], tab, G)
        BY <1>5, <3>1, <3>2 DEF QDCIn
      <4>2. ks[q].asic # k.asic
        BY <1>2, <1>5, <2>2, <3>1, <3>2
      <4>3. SameForQ(tab, tab2, ks[q].asic)
        BY <3>1, <4>2
      <4> QED
        BY <4>1, <4>3, SameCharge DEF QDCAt
    <3> QED
      BY <3>1, <3>2
  <2> QED
    BY <2>1, <2>2
<1> QED
  BY <1>3, <1>4, <1>5 DEF QDCIn

\* What a fit needs of an entry is what the data say of it.
LEMMA ChargeIs ==
  ASSUME Filed, program = "qdc", phase \notin {"sort", "done"}, NEW g \in QDCEntries
  PROVE  EnoughCharge(g) /\ g \notin NoCurve <=> g \in GoodQDC(program, events)
<1>1. /\ g[1] \in Asics /\ g[2] \in Channels /\ g[3] \in Tacs
      /\ g = <<g[1], g[2], g[3]>>
  BY DEF QDCEntries
<1>2. g \in Gids(program, g[1], g[2], g[3])
  BY <1>1 DEF Gids
<1>3. PICK a \in Asics : a = g[1]
  BY <1>1
<1>4. PICK c \in Channels : c = g[2]
  BY <1>1
<1>5. PICK t \in Tacs : t = g[3]
  BY <1>1
<1>6. g \in Gids(program, a, c, t)
  BY <1>2, <1>3, <1>4, <1>5
<1>7. Freqs(files[a], Selected(program, g, files[a]))
        = Freqs(events, CountedFor(program, events, Len(events), a, c, t))
  <2>1. sorted = Len(events)
    BY DEF Filed
  <2>2. Freqs(files[a], Selected(program, g, files[a]))
          = Freqs(events, CountedFor(program, events, sorted, a, c, t))
    BY <1>6 DEF Filed
  <2> QED
    BY <2>1, <2>2
<1>8. Unsaturated(g) = Freqs(files[a], Selected(program, g, files[a]))
  BY <1>3, UnsaturatedAre
<1>9. EnoughCharge(g) <=> Freqs(events, CountedFor(program, events, Len(events), a, c, t)) >= MinEntries
  BY <1>7, <1>8 DEF EnoughCharge
<1> QED
  BY <1>3, <1>4, <1>5, <1>9 DEF GoodQDC

\* A process goes from one stage to the next, or crashes.
LEMMA QDCGoesOn ==
  ASSUME JobsIInv, Filed, program = "qdc", AloneIn(kids, started, finished),
         NEW G, G = GoodQDC(program, events), QDCIn(kids, table, started, finished, G),
         NEW p \in Pids, QDCProcess(p)
  PROVE  AloneIn(kids', started', finished') /\ QDCIn(kids', table', started', finished', G)
<1>1. Busy(kids[p]) /\ started' = started /\ finished' = finished /\ finished \in SUBSET Asics
  <2>1. finished \in SUBSET Asics
    BY DEF JobsIInv, TypeOK
  <2> QED
    BY <2>1
    DEF QDCProcess, QDCClear, QDCFit, QDCBook, QDCControl, QDCSummary, QDCCrash, Crash, Busy, jobVars
<1>2. QDCKidOK(kids[p]) /\ table \in QDCTables
      /\ (started[kids[p].asic] = 1 => QDCAt(kids[p], table, G))
  BY <1>1 DEF QDCIn
<1>3. PICK a \in Asics : a = kids[p].asic
  BY <1>2 DEF QDCKidOK
<1>4. PICK u : u = kids[p].unread
  OBVIOUS
<1>5. PICK m : m = kids[p].made
  OBVIOUS
<1>6. kids[p] = [asic |-> a, at |-> kids[p].at, unread |-> u, made |-> m]
  BY <1>2, <1>3, <1>4, <1>5 DEF QDCKidOK
<1>7. DOMAIN table = QDCEntries /\ \A g \in QDCEntries : table[g] \in [valid : BOOLEAN]
  BY <1>2 DEF QDCTables
<1>8. OwnQ(p) = { g \in QDCEntries : g[1] = a }
  BY <1>3, <1>7 DEF OwnQ
<1>d. DOMAIN kids = Pids
  BY DEF JobsIInv, Kids
<1>9. ASSUME NEW k, kids' = [kids EXCEPT ![p] = k], Busy(k), QDCKidOK(k), k.asic = a,
             table' \in QDCTables, \A g \in QDCEntries : g[1] # a => table'[g] = table[g],
             started[a] = 1 => QDCAt(k, table', G)
      PROVE  AloneIn(kids', started', finished') /\ QDCIn(kids', table', started', finished', G)
  <2>1. Becomes(kids, kids', p, k, kids[p].asic)
    BY <1>3, <1>9, KidBecomes DEF JobsIInv
  <2>2. \A b \in Asics : b # k.asic => SameForQ(table, table', b)
    BY <1>9 DEF SameForQ
  <2>3. AloneIn(kids', started, finished)
    BY <1>1, <2>1, AloneStep
  <2>4. QDCIn(kids', table', started, finished, G)
    BY <1>1, <1>9, <2>1, <2>2, QDCStep
  <2> QED
    BY <1>1, <2>3, <2>4
<1>10. phase \notin {"sort", "done"}
  BY <1>1, NoneLeft DEF Busy
<1>11. CASE QDCClear(p)
  <2>1. kids[p].at = "clear"
    BY <1>11 DEF QDCClear
  <2>2. PICK k : k = [asic |-> a, at |-> "fit", unread |-> u, made |-> m]
    OBVIOUS
  <2>3. kids' = [kids EXCEPT ![p] = k]
    <3>1. [kids[p] EXCEPT !.at = "fit"] = k
      BY <1>6, <2>2
    <3>2. kids' = [kids EXCEPT ![p] = [kids[p] EXCEPT !.at = "fit"]]
      BY <1>11 DEF QDCClear
    <3> QED
      BY <3>1, <3>2
  <2>4. Busy(k) /\ QDCKidOK(k) /\ k.asic = a
    BY <2>2 DEF Busy, QDCKidOK
  <2>5. /\ table' = [g \in QDCEntries |-> table'[g]]
        /\ \A g \in QDCEntries :
             table'[g] = IF g[1] = a /\ EnoughCharge(g) THEN [valid |-> FALSE] ELSE table[g]
    BY <1>7, <1>8, <1>11 DEF QDCClear
  <2>6. table' \in QDCTables
    <3>1. ASSUME NEW g \in QDCEntries PROVE table'[g] \in [valid : BOOLEAN]
      <4>1. table'[g] \in {[valid |-> FALSE], table[g]}
        BY <2>5
      <4>2. [valid |-> FALSE] \in [valid : BOOLEAN]
        OBVIOUS
      <4> QED
        BY <1>7, <4>1, <4>2
    <3> QED
      BY <2>5, <3>1 DEF QDCTables
  <2>7. started[a] = 1 => QDCAt(k, table', G)
    <3>1. SUFFICES ASSUME started[a] = 1 PROVE QDCAt(k, table', G)
      OBVIOUS
    <3>2. QDCCalibrates(table, a, {})
      BY <1>2, <1>3, <2>1, <3>1 DEF QDCAt
    <3>3. QDCCalibrates(table', a, {})
      BY <2>5, <3>2 DEF QDCCalibrates
    <3> QED
      BY <2>2, <3>3 DEF QDCAt
  <2> QED
    BY <1>9, <2>3, <2>4, <2>5, <2>6, <2>7
<1>12. CASE QDCFit(p)
  <2>1. kids[p].at = "fit"
    BY <1>12 DEF QDCFit
  <2>2. PICK k : k = [asic |-> a, at |-> "book", unread |-> u, made |-> m]
    OBVIOUS
  <2>3. kids' = [kids EXCEPT ![p] = k]
    <3>1. [kids[p] EXCEPT !.at = "book"] = k
      BY <1>6, <2>2
    <3>2. kids' = [kids EXCEPT ![p] = [kids[p] EXCEPT !.at = "book"]]
      BY <1>12 DEF QDCFit
    <3> QED
      BY <3>1, <3>2
  <2>4. Busy(k) /\ QDCKidOK(k) /\ k.asic = a
    BY <2>2 DEF Busy, QDCKidOK
  <2>5. /\ table' = [g \in QDCEntries |-> table'[g]]
        /\ \A g \in QDCEntries :
             table'[g] = IF g[1] = a /\ EnoughCharge(g) /\ g \notin NoCurve
                         THEN [valid |-> TRUE] ELSE table[g]
    BY <1>7, <1>8, <1>12 DEF QDCFit
  <2>6. table' \in QDCTables
    <3>1. ASSUME NEW g \in QDCEntries PROVE table'[g] \in [valid : BOOLEAN]
      <4>1. table'[g] \in {[valid |-> TRUE], table[g]}
        BY <2>5
      <4>2. [valid |-> TRUE] \in [valid : BOOLEAN]
        OBVIOUS
      <4> QED
        BY <1>7, <4>1, <4>2
    <3> QED
      BY <2>5, <3>1 DEF QDCTables
  <2>7. \A g \in QDCEntries : EnoughCharge(g) /\ g \notin NoCurve <=> g \in G
    BY <1>10, ChargeIs
  <2>8. started[a] = 1 => QDCAt(k, table', G)
    <3>1. SUFFICES ASSUME started[a] = 1 PROVE QDCAt(k, table', G)
      OBVIOUS
    <3>2. QDCCalibrates(table, a, {})
      BY <1>2, <1>3, <2>1, <3>1 DEF QDCAt
    <3>3. QDCCalibrates(table', a, G)
      BY <2>5, <2>7, <3>2 DEF QDCCalibrates
    <3> QED
      BY <2>2, <3>3 DEF QDCAt
  <2> QED
    BY <1>9, <2>3, <2>4, <2>5, <2>6, <2>8
<1>13. CASE QDCBook(p) \/ QDCControl(p) \/ QDCSummary(p)
  <2>1. kids[p].at \in {"book", "control", "summary"} /\ table' = table
    BY <1>13 DEF QDCBook, QDCControl, QDCSummary
  <2>2. \E l : \E n : /\ kids' = [kids EXCEPT ![p] = [asic |-> a, at |-> l, unread |-> u, made |-> n]]
                      /\ l \in {"control", "summary", "exit"}
    BY <1>6, <1>13, <1>d DEF QDCBook, QDCControl, QDCSummary
  <2>3. PICK l : \E n : /\ kids' = [kids EXCEPT ![p] = [asic |-> a, at |-> l, unread |-> u, made |-> n]]
                        /\ l \in {"control", "summary", "exit"}
    BY <2>2
  <2>4. PICK n : /\ kids' = [kids EXCEPT ![p] = [asic |-> a, at |-> l, unread |-> u, made |-> n]]
                 /\ l \in {"control", "summary", "exit"}
    BY <2>3
  <2>5. PICK k : k = [asic |-> a, at |-> l, unread |-> u, made |-> n]
    OBVIOUS
  <2>6. Busy(k) /\ QDCKidOK(k) /\ k.asic = a /\ k.at \notin {"clear", "fit"}
    BY <2>4, <2>5 DEF Busy, QDCKidOK
  <2>7. started[a] = 1 => QDCAt(k, table', G)
    BY <1>2, <1>3, <2>1, <2>6 DEF QDCAt
  <2> QED
    BY <1>2, <1>9, <2>1, <2>4, <2>5, <2>6, <2>7
<1>14. CASE QDCCrash(p)
  <2>1. OnlyEnd(kids, kids') /\ table' = table
    BY <1>6, <1>14, <1>d DEF QDCCrash, Crash, OnlyEnd, Busy
  <2> QED
    BY <1>1, <2>1, AloneEnd, QDCEnd
<1> QED
  BY <1>11, <1>12, <1>13, <1>14 DEF QDCProcess

-----------------------------------------------------------------------------
(* Offsets are made relative to their average.                             *)

\* There are finitely many entries.
LEMMA EntriesFinite == IsFiniteSet(TDCEntries)
<1>1. IsFiniteSet(Asics \X Channels)
  BY JobsAssumption, FS_Product
<1>2. IsFiniteSet({"T", "E"})
  <2>1. IsFiniteSet({} \cup {"T"})
    BY FS_EmptySet, FS_AddElement
  <2>2. IsFiniteSet(({} \cup {"T"}) \cup {"E"})
    BY <2>1, FS_AddElement
  <2>3. ({} \cup {"T"}) \cup {"E"} = {"T", "E"}
    OBVIOUS
  <2> QED
    BY <2>2, <2>3
<1>3. IsFiniteSet(Tacs \X {"T", "E"})
  BY <1>2, JobsAssumption, FS_Product
<1>4. PICK P : P = (Asics \X Channels) \X (Tacs \X {"T", "E"})
  OBVIOUS
<1>5. IsFiniteSet(P)
  BY <1>1, <1>3, <1>4, FS_Product
<1>6. PICK f : f = [x \in P |-> <<x[1][1], x[1][2], x[2][1], x[2][2]>>]
  OBVIOUS
<1>7. f \in [P -> TDCEntries]
  BY <1>4, <1>6 DEF TDCEntries
<1>8. \A g \in TDCEntries : \E x \in P : f[x] = g
  <2> SUFFICES ASSUME NEW g \in TDCEntries PROVE \E x \in P : f[x] = g
    OBVIOUS
  <2>1. PICK x : x = <<<<g[1], g[2]>>, <<g[3], g[4]>>>>
    OBVIOUS
  <2>2. x \in P
    BY <1>4, <2>1 DEF TDCEntries
  <2>3. f[x] = <<g[1], g[2], g[3], g[4]>>
    BY <1>6, <2>1, <2>2
  <2>4. g = <<g[1], g[2], g[3], g[4]>>
    BY DEF TDCEntries
  <2> QED
    BY <2>2, <2>3, <2>4
<1>9. f \in Surjection(P, TDCEntries)
  BY <1>7, <1>8 DEF Surjection
<1> QED
  BY <1>5, <1>9, FS_Surjection

\* The average is a number.
LEMMA AverageType ==
  ASSUME table \in TDCTables, NEW b
  PROVE  Average(b) \in Int
<1>1. PICK V : V = { g \in TDCEntries : g[4] = b /\ table[g].valid }
  OBVIOUS
<1>2. IsFiniteSet(V)
  <2>1. V \subseteq TDCEntries
    BY <1>1
  <2> QED
    BY <2>1, EntriesFinite, FS_Subset, Zenon
<1>3. PICK v : v = [g \in V |-> table[g].t0]
  OBVIOUS
<1>4. v \in [V -> Int]
  BY <1>1, <1>3 DEF TDCTables
<1>5. PICK f : Sums(f, v, V)
  BY <1>2, <1>4, SumsExist
<1>6. \A T \in SUBSET V : T # {} => First(T) \in T /\ table[First(T)].t0 = v[First(T)]
  BY <1>2, <1>3, Subsets
<1>7. f = [T \in SUBSET V |-> IF T = {} THEN 0 ELSE table[First(T)].t0 + f[T \ {First(T)}]]
  <2>1. \A T \in SUBSET V :
          f[T] = IF T = {} THEN 0 ELSE table[First(T)].t0 + f[T \ {First(T)}]
    BY <1>5, <1>6 DEF Sums, AddsUp
  <2>2. DOMAIN f = SUBSET V /\ f = [T \in SUBSET V |-> f[T]]
    BY <1>5 DEF Sums, AddsUp
  <2> QED
    BY <2>1, <2>2
<1>8. PICK h :
        /\ h = [T \in SUBSET V |-> IF T = {} THEN 0 ELSE table[First(T)].t0 + h[T \ {First(T)}]]
        /\ MapThenSumSet(LAMBDA g : table[g].t0, V) = h[V]
  BY <1>7 DEF MapThenSumSet, MapThenFoldSet, First
<1>9. AddsUp(h, v, V)
  <2>1. {} \in SUBSET V
    OBVIOUS
  <2> QED
    BY <1>6, <1>8, <2>1 DEF AddsUp
<1>10. h[V] = f[V] /\ f[V] \in Int
  BY <1>2, <1>5, <1>9, SumsAgree DEF Sums
<1>11. PICK n \in Int : n = h[V]
  BY <1>10
<1>12. V # {} => Cardinality(V) \in Nat /\ Cardinality(V) # 0
  BY <1>2, Subsets
<1>13. Average(b) = IF V = {} THEN 0 ELSE n \div Cardinality(V)
  BY <1>1, <1>8, <1>11 DEF Average
<1>14. CASE V = {}
  BY <1>13, <1>14
<1>15. CASE V # {}
  <2>1. PICK m \in Nat : m = Cardinality(V) /\ m # 0
    BY <1>12, <1>15
  <2>2. n \div m \in Int
    BY <2>1
  <2> QED
    BY <1>13, <1>15, <2>1, <2>2
<1> QED
  BY <1>14, <1>15

\* Offsets of a branch differ by what their data say, for the ASICs of S.
Relative(tab, S) ==
  \A g, h \in TDCEntries :
    g[1] \in S /\ h[1] \in S /\ g[4] = h[4] /\ tab[g].valid /\ tab[h].valid =>
      tab[g].t0 - tab[h].t0 = T0[g] - T0[h]

\* What is valid stays so.
LEMMA Adjusts ==
  ASSUME table \in TDCTables, AdjustCalibrationTable, NEW S, \A a \in S : Shifted(table, a)
  PROVE  /\ table' \in TDCTables /\ Relative(table', S)
         /\ \A g \in TDCEntries : table'[g].valid = table[g].valid
<1>1. \A g \in TDCEntries : /\ table[g].valid \in BOOLEAN /\ table[g].t0 \in Int /\ T0[g] \in Int
                            /\ table[g] = [valid |-> table[g].valid, t0 |-> table[g].t0]
  BY TDCAssumption DEF TDCTables
<1>2. PICK A : A = [b \in {"T", "E"} |-> Average(b)]
  OBVIOUS
<1>3. \A g \in TDCEntries : Average(g[4]) = A[g[4]] /\ A[g[4]] \in Int
  <2>1. \A g \in TDCEntries : g[4] \in {"T", "E"}
    BY DEF TDCEntries
  <2> QED
    BY <1>2, <2>1, AverageType
<1>4. /\ table' = [g \in TDCEntries |-> table'[g]]
      /\ \A g \in TDCEntries :
           table'[g] = IF table[g].valid
                       THEN [valid |-> table[g].valid, t0 |-> table[g].t0 - A[g[4]]] ELSE table[g]
  <2>1. table' = [g \in TDCEntries |->
                    IF table[g].valid THEN [table[g] EXCEPT !.t0 = @ - Average(g[4])] ELSE table[g]]
    BY DEF AdjustCalibrationTable
  <2>2. \A g \in TDCEntries : [table[g] EXCEPT !.t0 = @ - Average(g[4])]
                                = [valid |-> table[g].valid, t0 |-> table[g].t0 - A[g[4]]]
    <3> SUFFICES ASSUME NEW g \in TDCEntries
                 PROVE  [table[g] EXCEPT !.t0 = @ - Average(g[4])]
                          = [valid |-> table[g].valid, t0 |-> table[g].t0 - A[g[4]]]
      OBVIOUS
    <3>1. PICK n \in Int : n = A[g[4]] /\ Average(g[4]) = n
      BY <1>3
    <3>2. PICK r : r = table[g]
      OBVIOUS
    <3>3. r = [valid |-> r.valid, t0 |-> r.t0]
      BY <1>1, <3>2
    <3>4. [r EXCEPT !.t0 = @ - n] = [valid |-> r.valid, t0 |-> r.t0 - n]
      BY <3>3
    <3> QED
      BY <3>1, <3>2, <3>4
  <2> QED
    BY <2>1, <2>2
<1>5. table' \in TDCTables
  BY <1>1, <1>3, <1>4 DEF TDCTables
<1>6. \A g \in TDCEntries : table'[g].valid = table[g].valid
  BY <1>1, <1>4
<1>7. ASSUME NEW g \in TDCEntries, NEW h \in TDCEntries, g[1] \in S, h[1] \in S, g[4] = h[4],
             table'[g].valid, table'[h].valid
      PROVE  table'[g].t0 - table'[h].t0 = T0[g] - T0[h]
  <2>1. table[g].valid /\ table[h].valid
    BY <1>6, <1>7
  <2>2. table[g].t0 = T0[g] /\ table[h].t0 = T0[h]
    BY <1>7, <2>1 DEF Shifted
  <2>3. PICK n \in Int : n = A[g[4]]
    BY <1>3
  <2>4. table'[g].t0 = T0[g] - n /\ table'[h].t0 = T0[h] - n
    BY <1>4, <1>7, <2>1, <2>2, <2>3
  <2>5. T0[g] \in Int /\ T0[h] \in Int
    BY <1>1
  <2> QED
    BY <2>3, <2>4, <2>5
<1> QED
  BY <1>5, <1>6, <1>7 DEF Relative

-----------------------------------------------------------------------------
(* What holds of the tables.                                               *)

\* The table has been adjusted.
Adjusted(ph) == ph \in {"write", "delete", "done"}

TDCSays ==
  program = "tdc" =>
    /\ TDCIn(kids, table, started, finished, GoodTDC(program, events), Adjusted(phase))
    /\ Adjusted(phase) => Relative(table, Sound)
    /\ phase = "delete" => tsv = { TDCRow(g) : g \in ValidEntries }

QDCSays ==
  program = "qdc" =>
    /\ QDCIn(kids, table, started, finished, GoodQDC(program, events))
    /\ phase = "delete" => tsv = { QDCRow(g) : g \in ValidEntries }

TablesInv == Filed /\ AloneIn(kids, started, finished) /\ TDCSays /\ QDCSays

\* Nobody is at work when a program begins.
LEMMA Fresh ==
  ASSUME NEW ks, \A p \in Pids : ~Busy(ks[p]), NEW G, NEW st, \A a \in Asics : st[a] = 0
  PROVE  /\ AloneIn(ks, st, {})
         /\ TDCIn(ks, TDCTable, st, {}, G, FALSE)
         /\ QDCIn(ks, QDCTable, st, {}, G)
<1>1. AloneIn(ks, st, {})
  BY DEF AloneIn, AtWork
<1>2. TDCTable \in TDCTables /\ \A a \in Asics : Untouched(TDCTable, a)
  BY DEF TDCTable, TDCTables, Untouched
<1>3. QDCTable \in QDCTables /\ \A a \in Asics : QDCCalibrates(QDCTable, a, {})
  BY DEF QDCTable, QDCTables, QDCCalibrates
<1>4. TDCIn(ks, TDCTable, st, {}, G, FALSE)
  BY <1>2 DEF TDCIn
<1>5. QDCIn(ks, QDCTable, st, {}, G)
  BY <1>3 DEF QDCIn
<1> QED
  BY <1>1, <1>4, <1>5

\* The process that is begun.
LEMMA Begun ==
  ASSUME JobsIInv, NEW k, ForkKid(k), k.asic = NextAsic, Busy(k)
  PROVE  /\ NextAsic \in Asics /\ LinesAfter \in Nat
         /\ \E p \in Pids : ~Busy(kids[p]) /\ Becomes(kids, kids', p, k, NextAsic)
         /\ started'[NextAsic] = IF started[NextAsic] = 0 THEN 1 ELSE 2
         /\ \A b \in Asics : b # NextAsic => started'[b] = started[b]
<1>1. phase = "next" /\ Refilled(stream).lines # <<>>
  BY DEF ForkKid
<1>2. NextAsic \in Asics /\ LinesAfter \in Nat
  BY <1>1, NextLine
<1>3. PICK a \in Asics : a = NextAsic
  BY <1>2
<1>4. started' = [started EXCEPT ![a] = Min({@ + 1, 2})] /\ started \in [Asics -> 0 .. 2]
  BY <1>3 DEF ForkKid, JobsIInv, TypeOK
<1>5. PICK n \in 0 .. 2 : n = started[a]
  BY <1>4
<1>6. Min({n + 1, 2}) = IF n = 0 THEN 1 ELSE 2
  <2>1. n + 1 \in Int /\ 2 \in Int
    OBVIOUS
  <2>2. Min({n + 1, 2}) \in {n + 1, 2} /\ Min({n + 1, 2}) <= n + 1 /\ Min({n + 1, 2}) <= 2
    BY <2>1, MinOfTwo, Zenon
  <2> QED
    BY <2>2
<1>7. /\ started'[a] = IF started[a] = 0 THEN 1 ELSE 2
      /\ \A b \in Asics : b # a => started'[b] = started[b]
  <2>1. PICK m : m = Min({n + 1, 2})
    OBVIOUS
  <2>2. started' = [started EXCEPT ![a] = m]
    BY <1>4, <1>5, <2>1
  <2> QED
    BY <1>4, <1>5, <1>6, <2>1, <2>2
<1>8. Min(Free) \in Free
  BY <1>1, OneIsFree
<1>9. PICK p \in Pids : p = Min(Free) /\ kids[p].at = "none"
  BY <1>8 DEF Free
<1>10. kids' = [kids EXCEPT ![p] = k]
  BY <1>9 DEF ForkKid
<1>11. Becomes(kids, kids', p, k, a)
  BY <1>3, <1>10, KidBecomes DEF JobsIInv
<1>12. ~Busy(kids[p])
  BY <1>9 DEF Busy
<1> QED
  BY <1>2, <1>3, <1>7, <1>11, <1>12

\* The files hold what they should after every step.
LEMMA FiledKeeps ==
  ASSUME JobsIInv, Filed, [Next]_vars
  PROVE  Filed'
<1>1. ASSUME NEW r, SortEvent(r), UNCHANGED program,
             \/ program = "tdc" /\ r = TDCRecords(NextEvent)
             \/ program = "qdc" /\ r = QDCRecords(NextEvent)
      PROVE  Filed'
  BY <1>1, SortFiles
<1>2. CASE Main
  <2>0. program' = program
    BY <1>2 DEF Main
  <2>1. CASE program = "tdc" /\ SortEvent(TDCRecords(NextEvent))
    BY <1>1, <2>0, <2>1
  <2>2. CASE program = "qdc" /\ SortEvent(QDCRecords(NextEvent))
    BY <1>1, <2>0, <2>2
  <2>3. CASE CloseFiles
    BY <2>0, <2>3, FilesStay DEF CloseFiles, sortVars
  <2>4. CASE \E n \in 1 .. MaxWorkers : ChooseWorkers(n)
    BY <2>0, <2>4, FilesStay DEF ChooseWorkers, sortVars
  <2>5. CASE \E k : ForkKid(k)
    BY <2>0, <2>5, FilesStay DEF ForkKid, sortVars
  <2>6. CASE OpenFails \/ EndOfList
    BY <2>0, <2>6, FilesStay DEF OpenFails, EndOfList, sortVars, jobVars
  <2>7. CASE \E p \in Pids : Reap(p)
    <3>1. UNCHANGED sortVars /\ phase \in {"wait", "drain"} /\ phase' \notin {"done"}
      BY <2>7 DEF Reap
    <3> QED
      BY <2>0, <3>1, FilesStay DEF sortVars
  <2>8. CASE AdjustCalibrationTable \/ QDCTableDone \/ TDCWriteTable \/ QDCWriteTable
    BY <2>0, <2>8, FilesStay
    DEF AdjustCalibrationTable, QDCTableDone, TDCWriteTable, QDCWriteTable, WriteRows, sortVars, jobVars
  <2>9. CASE Delete
    <3>1. PICK keep \in BOOLEAN : DeleteTemporaryFiles(keep)
      BY <2>9 DEF Delete
    <3>2. /\ phase = "delete" /\ phase' = "done" /\ events' = events /\ sorted' = sorted
          /\ list' = <<>> \/ (files' = files /\ list' = list)
      BY <3>1 DEF DeleteTemporaryFiles
    <3> QED
      BY <2>0, <3>2, FilesStay
  <2> QED
    BY <1>2, <2>1, <2>2, <2>3, <2>4, <2>5, <2>6, <2>7, <2>8, <2>9
    DEF Main, TDCSortData, QDCSortData, TDCCalibrateAllAsics, QDCCalibrateAllAsics
<1>3. CASE RunAgain
  BY <1>3, FilesStay DEF RunAgain, sortVars
<1>4. ASSUME NEW p \in Pids, KidStep(p) PROVE Filed'
  <2>1. UNCHANGED <<program, phase, sortVars, list>>
    BY <1>4, KidSteps DEF JobsIInv
  <2>2. phase # "done"
    <3>1. kids[p].at # "none"
      BY <1>4
      DEF KidStep, Process, Ended, Killed, Exit, Kill, TDCProcess, TDCFit, TDCPass, TDCShift, TDCCheck,
          QDCProcess, QDCClear, QDCFit, QDCBook, QDCControl, QDCSummary, QDCCrash, Running
    <3> QED
      BY <3>1, NoneLeft
  <2> QED
    BY <2>1, <2>2, FilesStay DEF sortVars
<1>5. CASE UNCHANGED vars
  <2>1. UNCHANGED <<program, phase, events, sorted, files, list>>
    BY <1>5 DEF vars, sortVars, jobVars
  <2> QED
    BY <2>1 DEF Filed
<1> QED
  BY <1>2, <1>3, <1>4, <1>5 DEF Next, KidStep

\* Steps that leave the table, and of the processes at most end some.
LEMMA TablesStay ==
  ASSUME TablesInv, program \in {"tdc", "qdc"}, Filed', UNCHANGED <<program, events, table, started, finished>>,
         OnlyEnd(kids, kids'),
         program = "tdc" => (Adjusted(phase)' <=> Adjusted(phase)),
         phase' = "delete" =>
           \/ phase = "delete" /\ tsv' = tsv
           \/ program = "tdc" /\ tsv' = { TDCRow(g) : g \in ValidEntries }
           \/ program = "qdc" /\ tsv' = { QDCRow(g) : g \in ValidEntries }
  PROVE  TablesInv'
<1>1. /\ program' = program /\ events' = events /\ table' = table /\ started' = started
      /\ finished' = finished
  OBVIOUS
<1>2. ValidEntries' = ValidEntries /\ Sound' = Sound /\ (\A g : TDCRow(g)' = TDCRow(g) /\ QDCRow(g)' = QDCRow(g))
  BY <1>1 DEF ValidEntries, Sound, TDCRow, QDCRow
<1>3. AloneIn(kids', started, finished)
  BY AloneEnd DEF TablesInv
<1>4. CASE program = "tdc"
  <2>1. TDCIn(kids', table, started, finished, GoodTDC(program, events), Adjusted(phase))
    BY <1>4, TDCEnd DEF TablesInv, TDCSays
  <2>2. Adjusted(phase') <=> Adjusted(phase)
    BY <1>4
  <2>3. TDCIn(kids', table, started, finished, GoodTDC(program, events), Adjusted(phase'))
    BY <1>4, <2>2, TDCEnd DEF TablesInv, TDCSays
  <2>4. Adjusted(phase') => Relative(table, Sound)
    BY <1>4, <2>2 DEF TablesInv, TDCSays
  <2>5. phase' = "delete" => tsv' = { TDCRow(g) : g \in ValidEntries }
    BY <1>4 DEF TablesInv, TDCSays
  <2>6. TDCSays'
    BY <1>1, <1>2, <2>3, <2>4, <2>5 DEF TDCSays
  <2>7. QDCSays'
    BY <1>1, <1>4 DEF QDCSays
  <2> QED
    BY <1>1, <1>3, <2>6, <2>7 DEF TablesInv
<1>5. CASE program = "qdc"
  <2>1. QDCIn(kids', table, started, finished, GoodQDC(program, events))
    BY <1>5, QDCEnd DEF TablesInv, QDCSays
  <2>2. phase' = "delete" => tsv' = { QDCRow(g) : g \in ValidEntries }
    BY <1>5 DEF TablesInv, QDCSays
  <2>3. QDCSays'
    BY <1>1, <1>2, <2>1, <2>2 DEF QDCSays
  <2>4. TDCSays'
    BY <1>1, <1>5 DEF TDCSays
  <2> QED
    BY <1>1, <1>3, <2>3, <2>4 DEF TablesInv
<1> QED
  BY <1>4, <1>5

\* The steps of the main program, and the next run.
LEMMA TablesMain ==
  ASSUME JobsIInv, TablesInv, program \in {"tdc", "qdc"}, Filed', Main
  PROVE  TablesInv'
<1>0. program' = program /\ OnlyEnd(kids, kids)
  BY DEF Main, OnlyEnd
<1>1. CASE \E r : SortEvent(r)
  <2>1. UNCHANGED <<events, table, started, finished, kids, phase, tsv>>
    BY <1>1 DEF SortEvent, jobVars
  <2> QED
    BY <1>0, <2>1, TablesStay
<1>2. CASE CloseFiles
  <2>1. UNCHANGED <<events, table, started, finished, kids>> /\ phase = "sort" /\ phase' = "stat"
    BY <1>2 DEF CloseFiles, sortVars
  <2> QED
    BY <1>0, <2>1, TablesStay DEF Adjusted
<1>3. CASE \E n \in 1 .. MaxWorkers : ChooseWorkers(n)
  <2>1. UNCHANGED <<events, table, started, finished, kids>> /\ phase = "stat" /\ phase' = "next"
    BY <1>3 DEF ChooseWorkers, sortVars
  <2> QED
    BY <1>0, <2>1, TablesStay DEF Adjusted
<1>4. CASE OpenFails \/ EndOfList
  <2>1. UNCHANGED <<events, table, started, finished, kids>> /\ phase = "next" /\ phase' \in {"failed", "drain", "table"}
    BY <1>4 DEF OpenFails, EndOfList, sortVars, jobVars
  <2> QED
    BY <1>0, <2>1, TablesStay DEF Adjusted
<1>5. CASE \E p \in Pids : Reap(p)
  <2>1. PICK p \in Pids : Reap(p)
    BY <1>5
  <2>2. /\ UNCHANGED <<events, table, started, finished>> /\ phase \in {"wait", "drain"}
        /\ phase' \in {"wait", "drain", "next", "table"}
    BY <2>1 DEF Reap, sortVars
  <2>3. OnlyEnd(kids, kids')
    <3>1. DOMAIN kids = Pids
      BY DEF JobsIInv, Kids
    <3> QED
      BY <2>1, <3>1 DEF Reap, OnlyEnd, Busy, NoKid
  <2>4. phase' # "delete" /\ (Adjusted(phase') <=> Adjusted(phase))
    BY <2>2 DEF Adjusted
  <2> QED
    BY <1>0, <2>2, <2>3, <2>4, TablesStay
<1>6. CASE (TDCWriteTable /\ program = "tdc") \/ (QDCWriteTable /\ program # "tdc")
  <2>1. UNCHANGED <<events, table, started, finished, kids>> /\ phase = "write" /\ phase' = "delete"
    BY <1>6 DEF TDCWriteTable, QDCWriteTable, WriteRows, sortVars, jobVars
  <2>2. \/ program = "tdc" /\ tsv' = { TDCRow(g) : g \in ValidEntries }
        \/ program # "tdc" /\ tsv' = { QDCRow(g) : g \in ValidEntries }
    BY <1>6 DEF TDCWriteTable, QDCWriteTable, WriteRows
  <2> QED
    BY <1>0, <2>1, <2>2, TablesStay DEF Adjusted
<1>7. CASE Delete
  <2>1. UNCHANGED <<events, table, started, finished, kids>> /\ phase = "delete" /\ phase' = "done"
    BY <1>7 DEF Delete, DeleteTemporaryFiles
  <2> QED
    BY <1>0, <2>1, TablesStay DEF Adjusted
<1>8. CASE QDCTableDone /\ program # "tdc"
  <2>1. UNCHANGED <<events, table, started, finished, kids>> /\ phase' = "write"
    BY <1>8 DEF QDCTableDone, sortVars, jobVars
  <2> QED
    BY <1>0, <1>8, <2>1, TablesStay
<1>9. CASE AdjustCalibrationTable /\ program = "tdc"
  <2>1. /\ UNCHANGED <<events, started, finished, kids>> /\ phase = "table" /\ phase' = "write"
        /\ ~Adjusted(phase) /\ Adjusted(phase')
    BY <1>9 DEF AdjustCalibrationTable, sortVars, jobVars, Adjusted
  <2>2. PICK G : G = GoodTDC(program, events)
    OBVIOUS
  <2>3. TDCIn(kids, table, started, finished, G, FALSE)
    <3>1. TDCIn(kids, table, started, finished, G, Adjusted(phase)) /\ OnlyEnd(kids, kids)
      BY <1>0, <1>9, <2>2 DEF TablesInv, TDCSays
    <3> QED
      BY <2>1, <3>1 DEF TDCIn
  <2>4. table \in TDCTables /\ \A a \in Sound : Shifted(table, a)
    BY <2>3 DEF TDCIn, Sound
  <2>5. /\ table' \in TDCTables /\ Relative(table', Sound)
        /\ \A g \in TDCEntries : table'[g].valid = table[g].valid
    BY <1>9, <2>4, Adjusts
  <2>6. \A p \in Pids : ~Busy(kids[p])
    BY <2>1, NoneLeft DEF Busy
  <2>7. TDCIn(kids, table', started, finished, G, TRUE)
    <3>1. \A a \in Asics : started[a] = 0 => Untouched(table', a)
      <4>1. SUFFICES ASSUME NEW a \in Asics, started[a] = 0 PROVE Untouched(table', a)
        OBVIOUS
      <4>2. \A g \in TDCEntries : g[1] = a => ~table[g].valid /\ table[g].t0 = 0
        BY <2>3, <4>1 DEF TDCIn, Untouched
      <4>3. \A g \in TDCEntries : ~table[g].valid => table'[g] = table[g]
        BY <1>9 DEF AdjustCalibrationTable
      <4> QED
        BY <4>2, <4>3 DEF Untouched
    <3>2. \A a \in finished : started[a] = 1 => Calibrates(table', a, Whole(G))
      <4>1. \A a \in finished : started[a] = 1 => Calibrates(table, a, Whole(G))
        BY <2>3 DEF TDCIn
      <4> QED
        BY <2>5, <4>1 DEF Calibrates
    <3> QED
      BY <2>5, <2>6, <3>1, <3>2 DEF TDCIn
  <2>8. Sound' = Sound
    BY <2>1 DEF Sound
  <2>9. TDCSays'
    <3>1. TDCIn(kids, table', started, finished, G, Adjusted(phase'))
      <4>1. OnlyEnd(kids, kids) /\ (TRUE => Adjusted(phase'))
        BY <1>0, <2>1
      <4> QED
        BY <2>7, <4>1, TDCEnd
    <3> QED
      BY <1>0, <2>1, <2>2, <2>5, <2>8, <3>1 DEF TDCSays
  <2>10. QDCSays' /\ AloneIn(kids, started, finished)'
    BY <1>0, <1>9, <2>1 DEF QDCSays, TablesInv
  <2> QED
    BY <2>9, <2>10 DEF TablesInv
<1>10. CASE \/ program = "tdc" /\ ForkKid(TDCKid(NextAsic, LinesAfter))
            \/ program = "qdc" /\ ForkKid(QDCKid(NextAsic, LinesAfter))
  <2>1. UNCHANGED <<events, table, finished>> /\ phase = "next" /\ phase' \in {"next", "wait"}
    BY <1>10 DEF ForkKid, sortVars
  <2>2. PICK a : a = NextAsic
    OBVIOUS
  <2>3. PICK k : k \in {TDCKid(NextAsic, LinesAfter), QDCKid(NextAsic, LinesAfter)} /\ ForkKid(k)
                 /\ \/ program = "tdc" /\ k = TDCKid(NextAsic, LinesAfter)
                    \/ program = "qdc" /\ k = QDCKid(NextAsic, LinesAfter)
    BY <1>10
  <2>4. ForkKid(k) /\ \/ program = "tdc" /\ k = TDCKid(a, LinesAfter)
                      \/ program = "qdc" /\ k = QDCKid(a, LinesAfter)
    BY <2>2, <2>3
  <2>5. Busy(k) /\ k.asic = a
    BY <2>4 DEF TDCKid, QDCKid, Busy
  <2>6. /\ a \in Asics
        /\ \E p \in Pids : ~Busy(kids[p]) /\ Becomes(kids, kids', p, k, a)
        /\ started'[a] = IF started[a] = 0 THEN 1 ELSE 2
        /\ \A b \in Asics : b # a => started'[b] = started[b]
    BY <2>2, <2>4, <2>5, Begun
  <2>7. PICK p \in Pids : ~Busy(kids[p]) /\ Becomes(kids, kids', p, k, a)
    BY <2>6
  <2>8. started \in [Asics -> 0 .. 2] /\ finished \subseteq Asics
    BY DEF JobsIInv, TypeOK
  <2>9. AloneIn(kids', started', finished)
    BY <2>6, <2>7, <2>8, AloneFork DEF TablesInv
  <2>10. ~Adjusted(phase') /\ ~Adjusted(phase)
    BY <2>1 DEF Adjusted
  <2>11. CASE program = "tdc"
    <3>1. TDCKidOK(k) /\ k.at = "fit"
      BY <2>4, <2>6, <2>11 DEF TDCKid, TDCKidOK, nIterations
    <3>2. PICK G : G = GoodTDC(program, events)
      OBVIOUS
    <3>3. TDCIn(kids, table, started, finished, G, Adjusted(phase)) /\ AloneIn(kids, started, finished)
      BY <2>11, <3>2 DEF TablesInv, TDCSays
    <3>4. TDCIn(kids', table, started', finished, G, Adjusted(phase))
      BY <2>6, <2>7, <2>8, <3>1, <3>3, TDCFork
    <3>5. TDCIn(kids', table, started', finished, G, Adjusted(phase'))
      <4>1. OnlyEnd(kids', kids') /\ (Adjusted(phase) => Adjusted(phase'))
        BY <2>10 DEF OnlyEnd
      <4> QED
        BY <3>4, <4>1, TDCEnd
    <3>6. TDCSays'
      BY <1>0, <2>1, <2>10, <3>2, <3>5 DEF TDCSays
    <3>7. QDCSays'
      BY <1>0, <2>11 DEF QDCSays
    <3> QED
      BY <2>1, <2>9, <3>6, <3>7 DEF TablesInv
  <2>12. CASE program = "qdc"
    <3>1. QDCKidOK(k) /\ k.at = "clear"
      BY <2>4, <2>6, <2>12 DEF QDCKid, QDCKidOK
    <3>2. PICK G : G = GoodQDC(program, events)
      OBVIOUS
    <3>3. QDCIn(kids, table, started, finished, G) /\ AloneIn(kids, started, finished)
      BY <2>12, <3>2 DEF TablesInv, QDCSays
    <3>4. QDCIn(kids', table, started', finished, G)
      BY <2>6, <2>7, <2>8, <3>1, <3>3, QDCFork
    <3>5. QDCSays'
      BY <1>0, <2>1, <3>2, <3>4 DEF QDCSays
    <3>6. TDCSays'
      BY <1>0, <2>12 DEF TDCSays
    <3> QED
      BY <2>1, <2>9, <3>5, <3>6 DEF TablesInv
  <2> QED
    BY <2>4, <2>11, <2>12
<1>11. CASE TDCSortData \/ QDCSortData
  BY <1>1, <1>2, <1>11 DEF TDCSortData, QDCSortData
<1>12. CASE program = "tdc" /\ TDCCalibrateAllAsics
  BY <1>3, <1>4, <1>5, <1>10, <1>12 DEF TDCCalibrateAllAsics
<1>13. CASE program = "qdc" /\ QDCCalibrateAllAsics
  BY <1>3, <1>4, <1>5, <1>10, <1>13 DEF QDCCalibrateAllAsics
<1>14. CASE program = "tdc"
  <2>1. \/ TDCSortData \/ TDCCalibrateAllAsics
        \/ AdjustCalibrationTable \/ TDCWriteTable \/ Delete
    BY <1>14 DEF Main
  <2>2. CASE TDCSortData
    BY <1>11, <2>2
  <2>3. CASE TDCCalibrateAllAsics
    BY <1>12, <1>14, <2>3
  <2>4. CASE AdjustCalibrationTable
    BY <1>9, <1>14, <2>4
  <2>5. CASE TDCWriteTable
    BY <1>6, <1>14, <2>5
  <2> QED
    BY <1>7, <2>1, <2>2, <2>3, <2>4, <2>5
<1>15. CASE program = "qdc"
  BY <1>6, <1>7, <1>8, <1>11, <1>13, <1>15 DEF Main
<1> QED
  BY <1>14, <1>15

\* The next run.
LEMMA TablesAgain ==
  ASSUME JobsIInv, TablesInv, program \in {"tdc", "qdc"}, Filed', RunAgain
  PROVE  TablesInv'
<1>1. /\ program' = program /\ events' = events /\ phase = "done" /\ phase' = "stat" /\ kids' = kids
      /\ started' = [a \in Asics |-> 0] /\ finished' = {}
      /\ table' = IF program = "tdc" THEN TDCTable ELSE QDCTable
  BY DEF RunAgain, sortVars
<1>2. \A p \in Pids : ~Busy(kids[p])
  BY <1>1, NoneLeft DEF Busy
<1>3. \A a \in Asics : started'[a] = 0
  BY <1>1
<1>4. PICK st : st = started'
  OBVIOUS
<1>5. AloneIn(kids, st, {})
  BY <1>2, <1>3, <1>4, Fresh
<1>6. ~Adjusted(phase')
  BY <1>1 DEF Adjusted
<1>7. program = "tdc" => TDCIn(kids, TDCTable, st, {}, GoodTDC(program, events), Adjusted(phase'))
  <2>1. TDCIn(kids, TDCTable, st, {}, GoodTDC(program, events), FALSE)
    BY <1>2, <1>3, <1>4, Fresh
  <2>2. OnlyEnd(kids, kids) /\ (FALSE => Adjusted(phase'))
    BY DEF OnlyEnd
  <2> QED
    BY <2>1, <2>2, TDCEnd
<1>8. QDCIn(kids, QDCTable, st, {}, GoodQDC(program, events))
  BY <1>2, <1>3, <1>4, Fresh
<1>9. TDCSays'
  BY <1>1, <1>4, <1>6, <1>7 DEF TDCSays
<1>10. QDCSays'
  BY <1>1, <1>4, <1>8 DEF QDCSays
<1> QED
  BY <1>1, <1>4, <1>5, <1>9, <1>10 DEF TablesInv

\* The steps of a process.
LEMMA TablesKid ==
  ASSUME JobsIInv, TablesInv, program \in {"tdc", "qdc"}, Filed', NEW p \in Pids, KidStep(p)
  PROVE  TablesInv'
<1>1. /\ program' = program /\ phase' = phase /\ events' = events /\ tsv' = tsv /\ started' = started
      /\ Running(p)
  <2>1. UNCHANGED <<program, phase, sortVars, started, tsv>>
    BY KidSteps DEF JobsIInv
  <2>2. Running(p)
    BY DEF KidStep, Process, Ended, Killed, Exit, Kill, TDCProcess, TDCFit, TDCPass, TDCShift, TDCCheck,
           QDCProcess, QDCClear, QDCFit, QDCBook, QDCControl, QDCSummary, QDCCrash, Running
  <2> QED
    BY <2>1, <2>2 DEF sortVars
<1>2. phase \notin {"table", "write", "delete", "done"} /\ ~Adjusted(phase) /\ phase # "delete"
  BY <1>1, NoneLeft DEF Running, Adjusted
<1>3. CASE Killed(p)
  <2>1. UNCHANGED <<events, table, finished>> /\ kids' = [kids EXCEPT ![p].at = "ended"]
    BY <1>3 DEF Killed, Kill, sortVars
  <2>2. OnlyEnd(kids, kids')
    <3>1. DOMAIN kids = Pids /\ "at" \in DOMAIN kids[p]
      BY DEF JobsIInv, Kids, KidOK
    <3> QED
      BY <2>1, <3>1 DEF OnlyEnd, Busy
  <2> QED
    BY <1>1, <1>2, <2>1, <2>2, TablesStay
<1>4. CASE Ended(p)
  <2>1. /\ table' = table /\ kids' = [kids EXCEPT ![p].at = "ended"] /\ kids[p].at = "exit"
        /\ finished' = finished \cup {kids[p].asic}
    BY <1>4 DEF Ended, Exit
  <2>2. OnlyEnd(kids, kids') /\ ~Busy(kids'[p])
    <3>1. DOMAIN kids = Pids /\ "at" \in DOMAIN kids[p]
      BY DEF JobsIInv, Kids, KidOK
    <3> QED
      BY <2>1, <3>1 DEF OnlyEnd, Busy
  <2>3. Busy(kids[p]) /\ kids[p].asic \in Asics
    <3>1. kids[p].asic \in Asics
      BY KidSteps DEF JobsIInv
    <3> QED
      BY <2>1, <3>1 DEF Busy
  <2>4. AloneIn(kids', started, finished')
    BY <2>1, <2>2, <2>3, AloneExit DEF TablesInv
  <2>5. program = "tdc" => TDCIn(kids', table, started, finished', GoodTDC(program, events), Adjusted(phase))
    BY <2>1, <2>2, <2>3, TDCExit DEF TablesInv, TDCSays
  <2>6. program = "qdc" => QDCIn(kids', table, started, finished', GoodQDC(program, events))
    BY <2>1, <2>2, <2>3, QDCExit DEF TablesInv, QDCSays
  <2>7. TDCSays'
    BY <1>1, <1>2, <2>1, <2>5 DEF TDCSays
  <2>8. QDCSays'
    BY <1>1, <1>2, <2>1, <2>6 DEF QDCSays
  <2> QED
    BY <1>1, <2>4, <2>7, <2>8 DEF TablesInv
<1>5. CASE Process(p) /\ program = "tdc"
  <2>1. TDCProcess(p)
    BY <1>5 DEF Process
  <2>2. PICK G : G = GoodTDC(program, events)
    OBVIOUS
  <2>3. TDCIn(kids, table, started, finished, G, Adjusted(phase))
    BY <1>5, <2>2 DEF TablesInv, TDCSays
  <2>4. /\ AloneIn(kids', started', finished')
        /\ TDCIn(kids', table', started', finished', G, Adjusted(phase))
    BY <1>5, <2>1, <2>2, <2>3, TDCGoesOn DEF TablesInv
  <2>5. TDCSays'
    BY <1>1, <1>2, <2>2, <2>4 DEF TDCSays
  <2>6. QDCSays'
    BY <1>1, <1>5 DEF QDCSays
  <2> QED
    BY <2>4, <2>5, <2>6 DEF TablesInv
<1>6. CASE Process(p) /\ program # "tdc"
  <2>1. QDCProcess(p)
    BY <1>6 DEF Process
  <2>2. program = "qdc"
    BY <1>6
  <2>3. PICK G : G = GoodQDC(program, events)
    OBVIOUS
  <2>4. QDCIn(kids, table, started, finished, G)
    BY <2>2, <2>3 DEF TablesInv, QDCSays
  <2>5. AloneIn(kids', started', finished') /\ QDCIn(kids', table', started', finished', G)
    BY <2>1, <2>2, <2>3, <2>4, QDCGoesOn DEF TablesInv
  <2>6. QDCSays'
    BY <1>1, <1>2, <2>3, <2>5 DEF QDCSays
  <2>7. TDCSays'
    BY <1>1, <2>2 DEF TDCSays
  <2> QED
    BY <2>5, <2>6, <2>7 DEF TablesInv
<1> QED
  BY <1>3, <1>4, <1>5, <1>6 DEF KidStep

\* What holds of the files, the processes and the table of a calibration.
CalibrationIInv == program # "fake" => TablesInv

\* At the beginning nothing is sorted and nothing made.
LEMMA TablesInit ==
  ASSUME Init
  PROVE  CalibrationIInv
<1>1. /\ sorted = 0 /\ files = [a \in Asics |-> <<>>] /\ kids = [p \in Pids |-> NoKid]
      /\ started = [a \in Asics |-> 0] /\ finished = {}
      /\ program = "tdc" => phase = "sort" /\ table = TDCTable
      /\ program = "qdc" => phase = "sort" /\ table = QDCTable
      /\ program \in {"tdc", "qdc", "fake"}
  BY DEF Init, JobsInit, TDCMain, QDCMain, FakeMain
<1>2. SUFFICES ASSUME program \in {"tdc", "qdc"} PROVE TablesInv
  BY <1>1 DEF CalibrationIInv
<1>3. /\ \A p \in Pids : ~Busy(kids[p])
      /\ \A a \in Asics : started[a] = 0
      /\ phase = "sort" /\ phase # "delete" /\ ~Adjusted(phase)
  BY <1>1, <1>2 DEF Busy, NoKid, Adjusted
<1>4. Filed
  <2>1. ASSUME NEW a \in Asics, NEW g
        PROVE  Freqs(files[a], Selected(program, g, files[a])) = 0
    <3>1. files[a] = <<>>
      BY <1>1
    <3>2. Selected(program, g, <<>>) = {}
      BY DEF Selected
    <3> QED
      BY <3>1, <3>2, FreqsNone
  <2>2. ASSUME NEW a, NEW c, NEW t
        PROVE  Freqs(events, CountedFor(program, events, sorted, a, c, t)) = 0
    <3>1. CountedFor(program, events, sorted, a, c, t) = {}
      BY <1>1 DEF CountedFor
    <3> QED
      BY <3>1, FreqsNone
  <2> QED
    BY <1>3, <2>1, <2>2 DEF Filed
<1>5. AloneIn(kids, started, finished)
  BY <1>1, <1>3, Fresh
<1>6. TDCSays
  <2>1. TDCIn(kids, TDCTable, started, {}, GoodTDC(program, events), FALSE)
    BY <1>3, Fresh
  <2>2. OnlyEnd(kids, kids) /\ (FALSE => Adjusted(phase))
    BY DEF OnlyEnd
  <2>3. TDCIn(kids, TDCTable, started, {}, GoodTDC(program, events), Adjusted(phase))
    BY <2>1, <2>2, TDCEnd
  <2> QED
    BY <1>1, <1>3, <2>3 DEF TDCSays
<1>7. QDCSays
  <2>1. QDCIn(kids, QDCTable, started, {}, GoodQDC(program, events))
    BY <1>3, Fresh
  <2> QED
    BY <1>1, <1>3, <2>1 DEF QDCSays
<1> QED
  BY <1>4, <1>5, <1>6, <1>7 DEF TablesInv

\* The inductive invariant of the tables.
THEOREM TablesInduction == Spec => []CalibrationIInv
<1>1. Init => CalibrationIInv
  BY TablesInit
<1>2. JobsIInv /\ CalibrationIInv /\ [Next]_vars => CalibrationIInv'
  <2> SUFFICES ASSUME JobsIInv, CalibrationIInv, [Next]_vars PROVE CalibrationIInv'
    OBVIOUS
  <2>1. program' = program /\ program \in {"tdc", "qdc", "fake"}
    BY KidSteps DEF JobsIInv, TypeOK, Next, Main, RunAgain, KidStep, vars
  <2>2. SUFFICES ASSUME program \in {"tdc", "qdc"} PROVE TablesInv'
    BY <2>1 DEF CalibrationIInv
  <2>3. TablesInv
    BY <2>2 DEF CalibrationIInv
  <2>4. Filed'
    BY <2>3, FiledKeeps DEF TablesInv
  <2>5. CASE Main
    BY <2>2, <2>3, <2>4, <2>5, TablesMain
  <2>6. CASE RunAgain
    BY <2>2, <2>3, <2>4, <2>6, TablesAgain
  <2>7. ASSUME NEW p \in Pids, KidStep(p) PROVE TablesInv'
    BY <2>2, <2>3, <2>4, <2>7, TablesKid
  <2>8. CASE UNCHANGED vars
    <3>1. UNCHANGED <<program, phase, events, table, started, finished, kids, tsv>> /\ OnlyEnd(kids, kids)
      BY <2>8 DEF vars, sortVars, jobVars, OnlyEnd
    <3> QED
      BY <2>2, <2>3, <2>4, <3>1, TablesStay
  <2> QED
    BY <2>5, <2>6, <2>7, <2>8 DEF Next, KidStep
<1> QED
  BY <1>1, <1>2, JobsInduction, PTL DEF Spec

\* What an event counts for, in the terms of Filed.
LEMMA CountsAre ==
  ASSUME JobsIInv, NEW a, NEW c, NEW t
  PROVE  Counts(a, c, t) = Freqs(events, CountedFor(program, events, Len(events), a, c, t))
<1>1. DOMAIN events = 1 .. Len(events)
  BY DEF JobsIInv, Sorting
<1>2. { i \in DOMAIN events : /\ <<events[i].asic, events[i].channel, events[i].tac>> = <<a, c, t>>
                              /\ program = "qdc" => events[i].step # -1 }
        = CountedFor(program, events, Len(events), a, c, t)
  BY <1>1 DEF CountedFor
<1> QED
  BY <1>2 DEF Counts, Freqs

\* The table that process_tdc_calibration writes has, of the ASICs that one process
\* calibrated to its end, the channels all of whose entries could be calibrated and
\* no other; and the offsets of a branch differ by what the data of the entries say.
THEOREM TDCTablesAreRight == Spec => []TDCTableIsRight
<1>1. JobsIInv /\ CalibrationIInv => TDCTableIsRight
  <2> SUFFICES ASSUME JobsIInv, CalibrationIInv, program = "tdc", phase = "delete"
               PROVE  TDCTableIsRight
    BY DEF TDCTableIsRight
  <2>1. TDCSays
    BY DEF CalibrationIInv, TablesInv
  <2>2. PICK G : G = GoodTDC(program, events)
    OBVIOUS
  <2>3. /\ table \in TDCTables /\ \A a \in Sound : Calibrates(table, a, Whole(G))
        /\ Relative(table, Sound)
        /\ tsv = { TDCRow(g) : g \in ValidEntries }
    BY <2>1, <2>2 DEF TDCSays, TDCIn, Adjusted, Sound
  <2>4. ValidEntries = { g \in TDCEntries : table[g].valid }
    BY <2>3 DEF ValidEntries, TDCTables
  <2>5. \A g \in TDCEntries : g \in G <=> TDCGood(g[1], g[2], g[3], g[4])
    <3> SUFFICES ASSUME NEW g \in TDCEntries PROVE g \in G <=> TDCGood(g[1], g[2], g[3], g[4])
      OBVIOUS
    <3>1. g = <<g[1], g[2], g[3], g[4]>>
      BY DEF TDCEntries
    <3>2. Counts(g[1], g[2], g[3]) = Freqs(events, CountedFor(program, events, Len(events), g[1], g[2], g[3]))
      BY CountsAre
    <3> QED
      BY <2>2, <3>1, <3>2 DEF GoodTDC, TDCGood
  <2>6. ASSUME NEW g \in TDCEntries, g[1] \in Sound
        PROVE  (\E row \in tsv : row.gid = g) <=>
                 \A t \in Tacs, b \in {"T", "E"} : TDCGood(g[1], g[2], t, b)
    <3>1. (\E row \in tsv : row.gid = g) <=> table[g].valid
      <4>1. ASSUME NEW row \in tsv, row.gid = g PROVE table[g].valid
        <5>1. PICK h \in ValidEntries : row = [gid |-> h, t0 |-> table[h].t0]
          BY <2>3, <4>1 DEF TDCRow
        <5> QED
          BY <2>4, <4>1, <5>1
      <4>2. ASSUME table[g].valid PROVE \E row \in tsv : row.gid = g
        <5>1. PICK row : row = [gid |-> g, t0 |-> table[g].t0]
          OBVIOUS
        <5>2. g \in ValidEntries
          BY <2>4, <4>2
        <5>3. row \in tsv /\ row.gid = g
          BY <2>3, <5>1, <5>2 DEF TDCRow
        <5> QED
          BY <5>3
      <4> QED
        BY <4>1, <4>2
    <3>2. table[g].valid <=> g \in Whole(G)
      BY <2>3, <2>6 DEF Calibrates
    <3>3. g \in Whole(G) <=> \A h \in TDCEntries : SameChannel(g, h) => h \in G
      BY <2>2 DEF Whole, SameChannel, GoodTDC
    <3>4. (\A h \in TDCEntries : SameChannel(g, h) => h \in G) <=>
            \A t \in Tacs, b \in {"T", "E"} : TDCGood(g[1], g[2], t, b)
      <4>1. ASSUME \A h \in TDCEntries : SameChannel(g, h) => h \in G, NEW t \in Tacs, NEW b \in {"T", "E"}
            PROVE  TDCGood(g[1], g[2], t, b)
        <5>1. PICK h : h = <<g[1], g[2], t, b>>
          OBVIOUS
        <5>2. h \in TDCEntries /\ h[1] = g[1] /\ h[2] = g[2] /\ h[3] = t /\ h[4] = b
          BY <5>1 DEF TDCEntries
        <5> QED
          BY <2>5, <4>1, <5>2 DEF SameChannel
      <4>2. ASSUME \A t \in Tacs, b \in {"T", "E"} : TDCGood(g[1], g[2], t, b),
                   NEW h \in TDCEntries, SameChannel(g, h)
            PROVE  h \in G
        <5>1. h[3] \in Tacs /\ h[4] \in {"T", "E"} /\ h[1] = g[1] /\ h[2] = g[2]
          BY <4>2 DEF TDCEntries, SameChannel
        <5> QED
          BY <2>5, <4>2, <5>1
      <4> QED
        BY <4>1, <4>2
    <3> QED
      BY <3>1, <3>2, <3>3, <3>4
  <2>7. ASSUME NEW r \in tsv, NEW s \in tsv, {r.gid[1], s.gid[1]} \subseteq Sound, r.gid[4] = s.gid[4]
        PROVE  r.t0 - s.t0 = T0[r.gid] - T0[s.gid]
    <3>1. PICK g \in TDCEntries : r = TDCRow(g) /\ table[g].valid
      BY <2>3, <2>4
    <3>2. PICK h \in TDCEntries : s = TDCRow(h) /\ table[h].valid
      BY <2>3, <2>4
    <3>3. r.gid = g /\ r.t0 = table[g].t0 /\ s.gid = h /\ s.t0 = table[h].t0
      BY <3>1, <3>2 DEF TDCRow
    <3> QED
      BY <2>3, <2>7, <3>1, <3>2, <3>3 DEF Relative
  <2> QED
    BY <2>6, <2>7 DEF TDCTableIsRight
<1> QED
  BY <1>1, JobsInduction, TablesInduction, PTL

\* The table that process_qdc_calibration writes has, of those ASICs, the entries
\* that could be calibrated from the events that are not saturated, and no other.
THEOREM QDCTablesAreRight == Spec => []QDCTableIsRight
<1>1. JobsIInv /\ CalibrationIInv => QDCTableIsRight
  <2> SUFFICES ASSUME JobsIInv, CalibrationIInv, program = "qdc", phase = "delete",
                      NEW g \in QDCEntries, g[1] \in Sound
               PROVE  ([gid |-> g] \in tsv) <=> Counts(g[1], g[2], g[3]) >= MinEntries /\ g \notin NoCurve
    BY DEF QDCTableIsRight
  <2>1. QDCSays
    BY DEF CalibrationIInv, TablesInv
  <2>2. PICK G : G = GoodQDC(program, events)
    OBVIOUS
  <2>3. /\ table \in QDCTables /\ QDCCalibrates(table, g[1], G)
        /\ tsv = { QDCRow(h) : h \in ValidEntries }
    BY <2>1, <2>2 DEF QDCSays, QDCIn, Sound
  <2>4. ValidEntries = { h \in QDCEntries : table[h].valid }
    BY <2>3 DEF ValidEntries, QDCTables
  <2>5. ([gid |-> g] \in tsv) <=> table[g].valid
    <3>1. \A h : [gid |-> h].gid = h
      OBVIOUS
    <3>2. \A h : [gid |-> h] = [gid |-> g] => h = g
      BY <3>1
    <3> QED
      BY <2>3, <2>4, <3>2 DEF QDCRow
  <2>6. table[g].valid <=> g \in G
    BY <2>3 DEF QDCCalibrates
  <2>7. Counts(g[1], g[2], g[3]) = Freqs(events, CountedFor(program, events, Len(events), g[1], g[2], g[3]))
    BY CountsAre
  <2> QED
    BY <2>2, <2>5, <2>6, <2>7 DEF GoodQDC
<1> QED
  BY <1>1, JobsInduction, TablesInduction, PTL

=============================================================================
