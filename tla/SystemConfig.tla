---------------------------- MODULE SystemConfig ----------------------------
(***************************************************************************)
(* SystemConfig::fromFile, which the conversion programs call first: the   *)
(* calibration tables, the map of channels and the map of trigger regions  *)
(* are read line by line, from files that are text.  A line is a record    *)
(* with its fields, or Junk when sscanf does not find all of them there.   *)
(***************************************************************************)
EXTENDS Integers, Sequences, SequencesExt

CONSTANTS
  Channels,      \* the channels considered, as they are numbered in an event
  Tacs,          \* the TACs considered, of 0 .. 7
  MaxRegions,    \* MAX_TRIGGER_REGIONS
  Junk           \* a line without the fields it should have

ASSUME ConfigAssumption ==
  /\ Channels \subseteq Nat /\ Tacs \subseteq 0 .. 7
  /\ MaxRegions \in Nat \ {0}

Regions == 0 .. MaxRegions - 1

NoTac == [t0 |-> 0, a0 |-> 0, a1 |-> 0, a2 |-> 0]
NoQac == [p0 |-> 0, p1 |-> 0]
NoPlace == [region |-> -1, x |-> 0]

\* nullChannelConfig, a copy of which every channel begins with.  The loop
\* that fills it in stops at the fourth of the eight TACs; noise is what the
\* others hold.
NullConfig(noiseTac, noiseQac) ==
  LET tac == [t \in Tacs |-> IF t < 4 THEN NoTac ELSE noiseTac]
      qac == [t \in Tacs |-> IF t < 4 THEN NoQac ELSE noiseQac]
  IN  [ tacT  |-> [c \in Channels |-> tac],
        tacE  |-> [c \in Channels |-> tac],
        qac   |-> [c \in Channels |-> qac],
        place |-> [c \in Channels |-> NoPlace],
        coincidence |-> {}, multihit |-> {} ]

\* A file's lines one after the other; one that is no good is passed over.
Read(Set(_, _), config, lines) ==
  LET read[n \in 0 .. Len(lines)] ==
        IF n = 0 THEN config
        ELSE IF lines[n] = Junk THEN read[n - 1] ELSE Set(read[n - 1], lines[n])
  IN  read[Len(lines)]

SetTac(c, l) ==
  IF l.branch = 1 THEN [c EXCEPT !.tacT[l.channel][l.tac] = l.tacConfig]
                  ELSE [c EXCEPT !.tacE[l.channel][l.tac] = l.tacConfig]

\* A slip: the first line for an entry is kept.
LoadTDCCalibrationFirst(config, lines) ==
  Read(LAMBDA c, l : IF l.branch = 1 /\ c.tacT[l.channel][l.tac] # NoTac THEN c ELSE SetTac(c, l),
       config, lines)

LoadTDCCalibration(config, lines) == Read(SetTac, config, lines)

SetQac(c, l) == [c EXCEPT !.qac[l.channel][l.tac] = l.qacConfig]

LoadQDCCalibration(config, lines) == Read(SetQac, config, lines)

SetPlace(c, l) == [c EXCEPT !.place[l.channel] = l.place]

LoadChannelMap(config, lines) == Read(SetPlace, config, lines)

\* The trigger map: what a line says of a pair of regions holds in both orders,
\* and until a later line says otherwise.
Pairs(l) == {<<l.r1, l.r2>>, <<l.r2, l.r1>>}

SetTrigger(c, l) ==
  [c EXCEPT !.coincidence = IF l.kind = "C" THEN @ \cup Pairs(l) ELSE @ \ Pairs(l),
            !.multihit    = IF l.kind = "M" THEN @ \cup Pairs(l) ELSE @ \ Pairs(l)]

LoadTriggerMap(config, lines) == Read(SetTrigger, config, lines)

\* A line of the trigger map that is no good ends the program.
TriggerLineOK(l) ==
  /\ l # Junk
  /\ l.r1 \in Regions /\ l.r2 \in Regions
  /\ l.kind \in {"C", "M"}

\* main of a configuration file names the other files; all are required but
\* the energy calibration, whose values are not used.
Names == {"tdc", "qdc", "channels", "triggers"}

CanLoad(files) ==
  /\ Names \subseteq DOMAIN files
  /\ \A i \in DOMAIN files.triggers : TriggerLineOK(files.triggers[i])

FromFile(files, null) ==
  LoadTriggerMap(
    LoadChannelMap(
      LoadQDCCalibration(
        LoadTDCCalibration(null, files.tdc), files.qdc), files.channels), files.triggers)
=============================================================================
