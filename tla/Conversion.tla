----------------------------- MODULE Conversion -----------------------------
(***************************************************************************)
(* The programs convert_raw_to_raw, _singles, _group, _coincidence, _event *)
(* and _trigger.  Each reads the steps of an acquisition, sends each one's *)
(* blocks through a pipeline whose last handler writes them to a file, and *)
(* closes the step with an entry in an index.                              *)
(*                                                                         *)
(* A block is handled in one action: OverlappedEventHandler passes blocks  *)
(* on in order, and the writing handler has them one at a time.            *)
(***************************************************************************)
EXTENDS EventHandlers

CONSTANTS
  Runs,            \* acquisitions: the steps, each a sequence of blocks, and
                   \* the trigger's ID (-1 without one)
  Configurations,  \* sets of files that may be named in --config
  Options,         \* what may be asked for on the command line
  FractionPeriod,  \* 1024, of which events eventFractionToWrite are written
  ArrayChannels,   \* 128, the channels for which _event and _trigger have room
  MaxOffset        \* how far a calibration may move a time

-----------------------------------------------------------------------------
(* What the programs are given.                                            *)

\* A raw hit has a number, which no other of its acquisition has.
RawHits ==
  [ no : Nat, valid : BOOLEAN, channelID : Channels, tacID : Tacs,
    time : Int, timeEnd : Int, timeEndQ : Int, t1fine : Int, t2fine : Int, qfine : Int ]

RunOK(r) ==
  /\ r.steps \in Seq(Seq(Seq(RawHits))) /\ r.triggerID \in Int
  /\ \A s, t \in DOMAIN r.steps : \A b \in DOMAIN r.steps[s], c \in DOMAIN r.steps[t] :
       \A i \in DOMAIN r.steps[s][b], k \in DOMAIN r.steps[t][c] :
         r.steps[s][b][i].no = r.steps[t][c][k].no => s = t /\ b = c /\ i = k

FilesOK(f) ==
  /\ f.tdc \in Seq([ channel : Channels, tac : Tacs, branch : {1, 2},
                     tacConfig : [t0 : Int, a0 : Int, a1 : Int, a2 : Int] ] \cup {Junk})
  /\ f.qdc \in Seq([channel : Channels, tac : Tacs, qacConfig : [p0 : Int, p1 : Int]] \cup {Junk})
  /\ f.channels \in Seq([channel : Channels, place : [region : Regions, x : Int]] \cup {Junk})
  /\ f.triggers \in Seq([r1 : Regions, r2 : Regions, kind : {"C", "M"}])

\* What iniparser and the heap leave in the TACs that nullChannelConfig's loop
\* does not reach.
Noise == { <<NoTac, NoQac>>, <<[NoTac EXCEPT !.a1 = 1, !.a2 = 1], [NoQac EXCEPT !.p1 = 1]>> }

\* The calibrations that may be in use for the start of a hit.
Curves(f, raw) ==
  { f.tdc[k].tacConfig : k \in { m \in DOMAIN f.tdc :
      /\ f.tdc[m] # Junk /\ f.tdc[m].branch = 1
      /\ f.tdc[m].channel = raw.channelID /\ f.tdc[m].tac = raw.tacID } }
  \cup { n[1] : n \in IF raw.tacID < 4 THEN {} ELSE Noise }

Offsets == -MaxOffset .. MaxOffset

\* The fine time of a hit is one that its calibrations may give.
FineOK(f, r, raw) ==
  IF FromTrigger(raw, r.triggerID) THEN raw.t1fine - 27 \in Offsets
  ELSE \A c \in Curves(f, raw) : c.a1 # 0 =>
         /\ \E q \in Phases : OnCurve(c, raw.t1fine, q)
         /\ \A q \in Phases : OnCurve(c, raw.t1fine, q) => q + c.t0 \in Offsets

ASSUME ConversionAssumption ==
  /\ {FractionPeriod, ArrayChannels} \subseteq Nat \ {0} /\ MaxOffset \in Nat
  /\ Options \subseteq [ fraction : 0 .. FractionPeriod, hitLimit : Nat, coincidence : BOOLEAN,
                         refChannel : Int, rawInName : BOOLEAN ]
  /\ \A r \in Runs : RunOK(r)
  /\ \A f \in Configurations : CanLoad(f) =>
       /\ FilesOK(f)
       /\ \A r \in Runs : \A s \in DOMAIN r.steps : \A b \in DOMAIN r.steps[s] :
            \A i \in DOMAIN r.steps[s][b] : FineOK(f, r, r.steps[s][b][i])

VARIABLES
  program, fileType, options, files, run,   \* what the program is run with
  phase,
  config,
  step, blocks,     \* the step being read, and the blocks of it still to come
  lastBuffer,       \* NullSink's: the last block and the buffers it came from
  eventCounter, stepBegin, data, index      \* the DataFileWriter and its files

arguments == <<program, fileType, options, files, run>>
writer == <<eventCounter, stepBegin, data, index>>
vars == <<arguments, phase, config, step, blocks, lastBuffer, writer>>

None == [raws |-> <<>>, hits |-> <<>>, photons |-> <<>>, pairs |-> <<>>]

Limit(p) == IF options.hitLimit < Len(p.hits) THEN options.hitLimit ELSE Len(p.hits)

\* The columns for the step's values are in ROOT files only.
Column == IF fileType = "root" THEN step ELSE 0

Entry(hits) == [step |-> Column, hits |-> hits]

-----------------------------------------------------------------------------
(* What each program's addEvents writes for one event of its pipeline.     *)

RawEntries(raw) == <<Entry(<<raw>>)>>

SinglesEntries(hit) == <<Entry(<<hit.raw>>)>>

GroupEntries(p) == [m \in 1 .. Limit(p) |-> Entry(<<p.hits[m].raw>>)]

\* Every hit of one photon with the first of the other.
CoincidenceEntries(pair) ==
  LET p == pair[1]  q == pair[2]
      written == { mn \in (1 .. Limit(p)) \X (1 .. Limit(q)) : 1 \in {mn[1], mn[2]} }
      order == Sorted(written, Lexicographic(written))
  IN  [k \in DOMAIN order |-> Entry(<<p.hits[order[k][1]].raw, q.hits[order[k][2]].raw>>)]

\* The first hit of each channel.
FirstOfChannel(p) ==
  LET first == { m \in 1 .. Limit(p) : \A k \in 1 .. m - 1 :
                   p.hits[k].raw.channelID # p.hits[m].raw.channelID }
      hits == Selected(p.hits, first)
  IN  [k \in DOMAIN hits |-> hits[k].raw]

\* --coincidence: an entry for a group of several hits, with the reference
\* channel among them if there is one.
Kept(p) ==
  options.coincidence =>
    /\ Limit(p) > 1
    /\ \/ options.refChannel = -1
       \/ \E m \in 1 .. Limit(p) : p.hits[m].raw.channelID = options.refChannel

\* One entry for a group; the other formats have one for each hit, whether the
\* group is kept or not.
TriggerEntries(p) ==
  IF fileType # "root" THEN GroupEntries(p)
  ELSE IF Kept(p) THEN <<Entry(FirstOfChannel(p))>> ELSE <<>>

\* _event leaves groups with a single hit out in all formats.
EventEntries(p) ==
  IF options.coincidence /\ Limit(p) < 2 THEN <<>> ELSE TriggerEntries(p)

Entries(event) ==
  CASE program = "raw"         -> RawEntries(event)
    [] program = "singles"     -> SinglesEntries(event)
    [] program = "group"       -> GroupEntries(event)
    [] program = "coincidence" -> CoincidenceEntries(event)
    [] program = "event"       -> EventEntries(event)
    [] program = "trigger"     -> TriggerEntries(event)

-----------------------------------------------------------------------------
(* DataFileWriter                                                          *)

WriterInit == eventCounter = 0 /\ stepBegin = 0 /\ data = <<>> /\ index = <<>>

\* Of every FractionPeriod events that come along, over all the steps, the
\* first ones are written.
InFraction(n) == n % FractionPeriod < options.fraction

Chosen(events) == { i \in DOMAIN events : InFraction(eventCounter + i - 1) }

Counter(events) == eventCounter + Len(events)

AddEvents(events) ==
  /\ eventCounter' = Counter(events)
  /\ data' = data \o FlattenSeq([i \in DOMAIN events |->
                       IF i \in Chosen(events) THEN Entries(events[i]) ELSE <<>>])
  /\ UNCHANGED <<stepBegin, index>>

\* A slip: the next step's range begins where this one's does.
NextBeginStale == stepBegin

\* A text file has no index.
NextBegin == Len(data)

CloseStep ==
  /\ IF fileType = "text" THEN UNCHANGED <<stepBegin, index>>
     ELSE /\ index' = Append(index, [begin |-> stepBegin, end |-> Len(data)])
          /\ stepBegin' = NextBegin
  /\ UNCHANGED <<eventCounter, data>>

-----------------------------------------------------------------------------
(* The pipelines that the main programs build, as a block goes through.    *)

RawPipeline(raws) == {[None EXCEPT !.raws = raws]}

SinglesPipeline(raws) ==
  { [None EXCEPT !.raws = raws, !.hits = ProcessHits(config, s, run.triggerID)] :
      s \in CoarseSorted(raws) }

GroupPipeline(raws) ==
  { [b EXCEPT !.photons = SimpleGrouper(config, b.hits)] : b \in SinglesPipeline(raws) }

CoincidencePipeline(raws) ==
  { [b EXCEPT !.pairs = CoincidenceGrouper(config, b.photons)] : b \in GroupPipeline(raws) }

Handled(raws) ==
  CASE program = "raw"         -> RawPipeline(raws)
    [] program = "singles"     -> SinglesPipeline(raws)
    [] program = "coincidence" -> CoincidencePipeline(raws)
    [] OTHER                   -> GroupPipeline(raws)

Events(b) ==
  CASE program = "raw"         -> b.raws
    [] program = "singles"     -> b.hits
    [] program = "coincidence" -> b.pairs
    [] OTHER                   -> b.photons

\* A group that is kept goes to the ROOT tree, also in programs that have made
\* none.
MustCrash(b) ==
  /\ program \in {"event", "trigger"} /\ fileType # "root"
  /\ \E i \in Chosen(b.photons) : Kept(b.photons[i])

\* Memory beyond an array is used, of the trigger maps or of a channel's values.
MayCrash(b) ==
  \/ program \notin {"raw", "singles"} /\ Grouping(config, b.hits).crashes
  \/ /\ program \in {"event", "trigger"}
     /\ \E i \in Chosen(b.photons) : \E m \in 1 .. Limit(b.photons[i]) :
          b.photons[i].hits[m].raw.channelID >= ArrayChannels

-----------------------------------------------------------------------------
(* main                                                                    *)

Programs == {"raw", "singles", "group", "coincidence", "event", "trigger"}

Init ==
  /\ program \in Programs
  /\ fileType \in IF program = "raw" THEN {"root"} ELSE {"text", "binary", "root"}
  /\ options \in Options /\ files \in Configurations /\ run \in Runs
  /\ phase = "start" /\ config = <<>>
  /\ step = 0 /\ blocks = <<>> /\ lastBuffer = None
  /\ WriterInit

\* convert_raw_to_raw needs no configuration.  The others end without a file
\* when theirs cannot be loaded.
Load(noiseTac, noiseQac) ==
  /\ phase = "start"
  /\ IF program = "raw" THEN phase' = "next" /\ UNCHANGED config
     ELSE IF ~CanLoad(files) THEN phase' = "failed" /\ UNCHANGED config
     ELSE /\ phase' = "next"
          /\ config' = FromFile(files, NullConfig(noiseTac, noiseQac))
  /\ UNCHANGED <<arguments, step, blocks, lastBuffer, writer>>

\* pedestals is not initialised in _event and _trigger.  When it holds true the
\* name of a file is made by replacing "raw" in the input's, which throws when
\* there is none.
NoPedestals ==
  /\ phase = "start" /\ program \in {"event", "trigger"} /\ ~options.rawInName
  /\ phase' = "crashed"
  /\ UNCHANGED <<arguments, config, step, blocks, lastBuffer, writer>>

NextStep ==
  /\ phase = "next" /\ step < Len(run.steps)
  /\ phase' = "step"
  /\ step' = step + 1 /\ blocks' = run.steps[step + 1]
  /\ UNCHANGED <<arguments, config, lastBuffer, writer>>

\* processStep: a block goes through the pipeline.
HandleBlock ==
  /\ phase = "step" /\ blocks # <<>>
  /\ blocks' = Tail(blocks)
  /\ \E b \in Handled(Head(blocks)) :
       \/ /\ ~MustCrash(b)
          /\ lastBuffer' = b
          /\ AddEvents(Events(b))
          /\ UNCHANGED phase
       \/ /\ MustCrash(b) \/ MayCrash(b)
          /\ phase' = "crashed"
          /\ UNCHANGED <<lastBuffer, writer>>
  /\ UNCHANGED <<arguments, config, step>>

\* The pipeline is deleted with its buffers.
EndStep ==
  /\ phase = "step" /\ blocks = <<>>
  /\ CloseStep
  /\ phase' = "next" /\ lastBuffer' = None
  /\ UNCHANGED <<arguments, config, step, blocks>>

Finish ==
  /\ phase = "next" /\ step = Len(run.steps)
  /\ phase' = "done"
  /\ UNCHANGED <<arguments, config, step, blocks, lastBuffer, writer>>

Next ==
  \/ \E n \in Noise : Load(n[1], n[2])
  \/ NoPedestals \/ NextStep \/ HandleBlock \/ EndStep \/ Finish

Spec == Init /\ [][Next]_vars

-----------------------------------------------------------------------------

TypeOK ==
  /\ program \in Programs /\ options \in Options /\ files \in Configurations /\ run \in Runs
  /\ phase \in {"start", "next", "step", "done", "failed", "crashed"}
  /\ step \in 0 .. Len(run.steps) /\ eventCounter \in Nat
  /\ \A i \in DOMAIN index : index[i].begin \in 0 .. index[i].end /\ index[i].end <= Len(data)

\* What the files say, by their last line for an entry.
LastLine(lines, I) == lines[Max(I)]

TacLines(c, t, b) ==
  { i \in DOMAIN files.tdc : /\ files.tdc[i] # Junk /\ files.tdc[i].branch = b
                             /\ files.tdc[i].channel = c /\ files.tdc[i].tac = t }
QacLines(c, t) ==
  { i \in DOMAIN files.qdc : /\ files.qdc[i] # Junk
                             /\ files.qdc[i].channel = c /\ files.qdc[i].tac = t }
PlaceLines(c) == { i \in DOMAIN files.channels : files.channels[i] # Junk /\ files.channels[i].channel = c }

TacOf(c, t, b) ==
  IF TacLines(c, t, b) = {} THEN NoTac ELSE LastLine(files.tdc, TacLines(c, t, b)).tacConfig

\* Valid, with calibrations of both branches and of the charge, and a place.
Complete(raw) ==
  LET c == raw.channelID  t == raw.tacID
  IN  /\ raw.valid
      /\ \A b \in {1, 2} : TacOf(c, t, b).a1 # 0
      /\ QacLines(c, t) # {} /\ LastLine(files.qdc, QacLines(c, t)).qacConfig.p1 # 0
      /\ PlaceLines(c) # {}

\* "missing TDC calibration", "missing QDC calibration", "missing XYZ
\* information": those hits go on for which the files have all that it takes, and
\* their times come from the last line for their TAC.  (For the first four TACs,
\* and hits that are not the trigger's.)
CalibrationIsUsed ==
  phase = "step" /\ program # "raw" =>
    LET Concerned(raw) == raw.channelID \div 2048 # run.triggerID /\ raw.tacID < 4
        hits == { h \in ToSet(lastBuffer.hits) : Concerned(h.raw) }
    IN  /\ { h.raw : h \in hits } =
             { raw \in ToSet(lastBuffer.raws) : Concerned(raw) /\ Complete(raw) }
        /\ \A h \in hits : \E q \in Phases :
             LET tac == TacOf(h.raw.channelID, h.raw.tacID, 1)
             IN  /\ tac.a0 + tac.a1 * q + tac.a2 * q * q = h.raw.t1fine
                 /\ h.time = 4 * h.raw.time - q - tac.t0

Positions(p) == { i \in DOMAIN lastBuffer.hits : lastBuffer.hits[i] \in ToSet(p.hits) }

Seed(p) == lastBuffer.hits[Min(Positions(p))]

\* However the sorter leaves hits within its bins, groups share no hits, a
\* group's hits are near its first, and none of them is near the first hit of an
\* earlier group, which should have taken it: the search for hits goes far enough.
GroupsAreRight ==
  LET photons == lastBuffer.photons
  IN  /\ \A p \in ToSet(photons) : \A i \in Positions(p) :
            lastBuffer.hits[i] = Seed(p) \/ Near(config, Seed(p), lastBuffer.hits[i])
      /\ \A k, n \in DOMAIN photons : k < n =>
            \A i \in Positions(photons[n]) :
              i \notin Positions(photons[k]) /\ ~Near(config, Seed(photons[k]), lastBuffer.hits[i])

\* The trigger map's last word on two regions.
TriggerLines(r1, r2) ==
  { i \in DOMAIN files.triggers : {files.triggers[i].r1, files.triggers[i].r2} = {r1, r2} }

Kind(r1, r2) ==
  IF TriggerLines(r1, r2) = {} THEN "none" ELSE LastLine(files.triggers, TriggerLines(r1, r2)).kind

\* Every two photons of a block whose regions may be in coincidence and whose
\* times are within the window are found, once, though photons are not in the
\* order of their times.
NoCoincidenceIsMissed ==
  phase = "step" /\ program = "coincidence" /\ run.triggerID = -1 =>
    LET photons == lastBuffer.photons  pairs == lastBuffer.pairs
        near == { ij \in (DOMAIN photons) \X (DOMAIN photons) :
                    /\ ij[1] < ij[2]
                    /\ Kind(photons[ij[1]].region, photons[ij[2]].region) = "C"
                    /\ Distance(photons[ij[1]].time, photons[ij[2]].time) <= CoincidenceWindow }
    IN  /\ { ToSet(pairs[k]) : k \in DOMAIN pairs } =
             { {photons[ij[1]], photons[ij[2]]} : ij \in near }
        /\ Len(pairs) = Cardinality(near)

\* Where a hit comes from.
StepsWith(raw) ==
  { s \in DOMAIN run.steps :
      \E b \in DOMAIN run.steps[s] : raw \in ToSet(run.steps[s][b]) }

\* The index's ranges follow each other without a gap, and each has the hits of
\* its own step, which a ROOT file also names.
IndexIsRight ==
  \A s \in DOMAIN index :
    /\ index[s].begin = IF s = 1 THEN 0 ELSE index[s - 1].end
    /\ \A k \in index[s].begin + 1 .. index[s].end :
         /\ fileType = "root" => data[k].step = s
         /\ \A raw \in ToSet(data[k].hits) : s \in StepsWith(raw)

\* Whatever the blocks and the steps, the share of events that was asked for is
\* written, of programs with one entry for an event.
ShareIsKept ==
  program \in {"raw", "singles"} =>
    LET rest == eventCounter % FractionPeriod
    IN  Len(data) = (eventCounter \div FractionPeriod) * options.fraction
                      + (IF rest < options.fraction THEN rest ELSE options.fraction)

\* What is written is what was asked for, and the index says where it is.
WriterInv == TypeOK /\ IndexIsRight /\ ShareIsKept

\* The hit that _event and _trigger keep of a channel is the best the group has.
BestHitIsKept ==
  program \in {"event", "trigger"} /\ fileType = "root" =>
    \A p \in ToSet(lastBuffer.photons), e \in ToSet(data) :
      ToSet(e.hits) \subseteq { h.raw : h \in ToSet(p.hits) } =>
        \A g, h \in ToSet(p.hits) :
          g.raw \in ToSet(e.hits) /\ h.raw.channelID = g.raw.channelID => h.energy <= g.energy
=============================================================================
