---------------------------- MODULE EventHandlers ----------------------------
(***************************************************************************)
(* What the handlers of the pipeline do with a block: CoarseSorter,        *)
(* ProcessHit, SimpleGrouper and CoincidenceGrouper.                       *)
(*                                                                         *)
(* A raw hit has its times in clocks from the beginning of its block, a    *)
(* hit in quarters of a clock.  One coordinate stands for three, and the   *)
(* pedestal's polynomial ends at its linear term.                          *)
(***************************************************************************)
EXTENDS SystemConfig, FiniteSetsExt

CONSTANTS
  Overlap,              \* how far hits may be out of order after the sorter
  TimeWindow,           \* sw_trigger_group_time_window
  MaxDistance,          \* sw_trigger_group_max_distance
  MaxHits,              \* sw_trigger_group_max_hits
  MinEnergy, MaxEnergy, \* sw_trigger_group_min_energy, _max_energy
  CoincidenceWindow,    \* sw_trigger_coincidence_time_window
  Phases                \* where in a clock a hit may be, in quarters

\* The limit of 256 hits in a GammaPhoton is not applied to MaxHits, and a
\* group's arrays have room for no more.
ASSUME HandlerAssumption ==
  /\ {Overlap, TimeWindow, MaxDistance, CoincidenceWindow} \subseteq Nat
  /\ MaxHits \in 1 .. 256
  /\ MinEnergy \in Int /\ MaxEnergy \in Int
  /\ Phases \subseteq Int

Distance(a, b) == IF a < b THEN b - a ELSE a - b

-----------------------------------------------------------------------------
(* Orders, as sets of pairs of which the first comes before the second.    *)

Ascending(S) == { ab \in S \X S : ab[1] < ab[2] }

Lexicographic(S) ==
  { ab \in S \X S : \/ ab[1][1] < ab[2][1]
                    \/ ab[1][1] = ab[2][1] /\ ab[1][2] < ab[2][2] }

\* The members of S in the order R.
Sorted(S, R) ==
  [k \in 1 .. Cardinality(S) |->
     CHOOSE x \in S : Cardinality({ y \in S : <<y, x>> \in R }) = k - 1]

\* The members of s at the positions I.
Selected(s, I) ==
  LET order == Sorted(I, Ascending(I)) IN [k \in DOMAIN order |-> s[order[k]]]

-----------------------------------------------------------------------------
(* CoarseSorter                                                            *)

\* Division as in C++, towards zero.
Bin(t) == IF t < 0 THEN -((-t) \div 4) ELSE t \div 4

\* std::sort by bins of four clocks leaves open the order within a bin.
CoarseSorted(hits) ==
  { [i \in DOMAIN hits |-> hits[p[i]]] :
      p \in { q \in [DOMAIN hits -> DOMAIN hits] :
                /\ \A i, j \in DOMAIN hits : i # j => q[i] # q[j]
                /\ \A i \in 1 .. Len(hits) - 1 :
                     Bin(hits[q[i]].time) <= Bin(hits[q[i + 1]].time) } }

-----------------------------------------------------------------------------
(* ProcessHit                                                              *)

\* The rising side of the curve a0 + a1 q + a2 q^2.
OnCurve(c, fine, q) == c.a0 + c.a1 * q + c.a2 * q * q = fine /\ 2 * c.a2 * q + c.a1 >= 0

Phase(c, fine) == CHOOSE q \in Phases : OnCurve(c, fine, q)

Calibrated(time, c, fine) == 4 * time - Phase(c, fine) - c.t0

Pedestal(c, ti) == c.p0 + c.p1 * ti

\* The upper bits of a channel are its FEB/D's, or the trigger unit's.
FromTrigger(raw, triggerID) == raw.channelID \div 2048 = triggerID

TriggerHit(raw) ==
  LET time == 4 * raw.time - (raw.t1fine - 27)
  IN  [ raw |-> raw, time |-> time, timeEnd |-> time,
        energy |-> IF raw.t2fine = 28 THEN 1 ELSE -1, region |-> -1, x |-> 0 ]

\* The flags that keep a hit from being passed on.
Flags(config, raw, triggerID) ==
  LET c == raw.channelID  t == raw.tacID  mine == ~FromTrigger(raw, triggerID)
  IN  { f \in {"invalid", "tdc", "qdc", "xyz"} :
          \/ f = "invalid" /\ ~raw.valid
          \/ f = "tdc" /\ mine /\ (config.tacT[c][t].a1 = 0 \/ config.tacE[c][t].a1 = 0)
          \/ f = "qdc" /\ mine /\ config.qac[c][t].p1 = 0
          \/ f = "xyz" /\ mine /\ config.place[c].region = -1 }

CalibratedHit(config, raw) ==
  LET c == raw.channelID  t == raw.tacID
      time == Calibrated(raw.time, config.tacT[c][t], raw.t1fine)
  IN  [ raw |-> raw, time |-> time,
        timeEnd |-> Calibrated(raw.timeEnd, config.tacE[c][t], raw.t2fine),
        energy |-> raw.qfine - Pedestal(config.qac[c][t], 4 * raw.timeEndQ - time),
        region |-> config.place[c].region, x |-> config.place[c].x ]

ProcessHits(config, raws, triggerID) ==
  LET passed == Selected(raws, { i \in DOMAIN raws : Flags(config, raws[i], triggerID) = {} })
  IN  [i \in DOMAIN passed |->
         IF FromTrigger(passed[i], triggerID) THEN TriggerHit(passed[i])
                                              ELSE CalibratedHit(config, passed[i])]

-----------------------------------------------------------------------------
(* SimpleGrouper                                                           *)

\* The arrays of the trigger maps are indexed with r1 * MaxRegions + r2, in
\* unsigned arithmetic; a trigger's hit has region -1.
Index(r1, r2) == r1 * MaxRegions + r2

Allowed(map, r1, r2) == \E p \in map : Index(p[1], p[2]) = Index(r1, r2)

\* A slip: taken hits end the search for hits too.
ExaminedNarrow(hits, seed, taken) ==
  { j \in (seed + 1 .. Len(hits)) \ taken :
      \A k \in seed + 1 .. j : hits[k].time - hits[seed].time <= TimeWindow }

\* The hits after a seed that are looked at: the search ends at the first that
\* is free and too late.
Examined(hits, seed, taken) ==
  { j \in (seed + 1 .. Len(hits)) \ taken :
      \A k \in (seed + 1 .. j) \ taken :
        hits[k].time - hits[seed].time <= Overlap + TimeWindow }

Near(config, a, b) ==
  /\ Allowed(config.multihit, b.region, a.region)
  /\ Distance(a.time, b.time) <= TimeWindow
  /\ (a.x - b.x) * (a.x - b.x) <= MaxDistance * MaxDistance

\* An index outside the arrays is looked up, memory of no known content.
Outside(r1, r2) == Index(r1, r2) < 0

\* A hit that no group has taken begins one, and takes what is near.
Grow(config, hits, s, i) ==
  LET examined == Examined(hits, i, s.taken)
      near == { j \in examined : Near(config, hits[i], hits[j]) }
  IN  IF i \in s.taken THEN s
      ELSE [ taken   |-> s.taken \cup {i} \cup near,
             groups  |-> Append(s.groups, <<i>> \o Sorted(near, Ascending(near))),
             crashes |-> \/ s.crashes
                         \/ \E j \in examined : Outside(hits[j].region, hits[i].region) ]

Grouping(config, hits) ==
  LET grown[n \in 0 .. Len(hits)] ==
        IF n = 0 THEN [taken |-> {}, groups |-> <<>>, crashes |-> FALSE]
        ELSE Grow(config, hits, grown[n - 1], n)
  IN  grown[Len(hits)]

\* A slip: the hit with the lowest energy comes first.
PrecedesLow(e, f) == e < f

\* Bubble sort: the hit with the highest energy first, equal ones as they were.
Precedes(e, f) == e > f

ByEnergy(hits) ==
  LET Before(i, j) == \/ Precedes(hits[i].energy, hits[j].energy)
                      \/ ~Precedes(hits[j].energy, hits[i].energy) /\ i < j
      order == Sorted(DOMAIN hits, { ij \in (DOMAIN hits) \X (DOMAIN hits) : Before(ij[1], ij[2]) })
  IN  [k \in DOMAIN order |-> hits[order[k]]]

Photon(hits, group) ==
  LET inOrder == ByEnergy([k \in DOMAIN group |-> hits[group[k]]])
  IN  [ hits |-> inOrder, time |-> inOrder[1].time, energy |-> inOrder[1].energy,
        region |-> inOrder[1].region ]

\* A group with too many hits is dropped.
SimpleGrouper(config, hits) ==
  LET groups == Grouping(config, hits).groups
      photons == [k \in DOMAIN groups |-> Photon(hits, groups[k])]
  IN  Selected(photons, { k \in DOMAIN groups : /\ Len(groups[k]) <= MaxHits
                                                /\ photons[k].energy \in MinEnergy .. MaxEnergy })

-----------------------------------------------------------------------------
(* CoincidenceGrouper                                                      *)

\* A slip: the search for partners ends at the window.
InReachWindow(photons, i) ==
  { j \in i + 1 .. Len(photons) :
      \A k \in i + 1 .. j : photons[k].time - photons[i].time <= CoincidenceWindow }

\* The photons after photon i up to the first that is too late.
InReach(photons, i) ==
  { j \in i + 1 .. Len(photons) :
      \A k \in i + 1 .. j :
        photons[k].time - photons[i].time <= Overlap + CoincidenceWindow }

\* The photon of the higher region comes first.
CoincidenceGrouper(config, photons) ==
  LET found == { ij \in (DOMAIN photons) \X (DOMAIN photons) :
                   /\ ij[2] \in InReach(photons, ij[1])
                   /\ Allowed(config.coincidence, photons[ij[1]].region, photons[ij[2]].region)
                   /\ Distance(photons[ij[1]].time, photons[ij[2]].time) <= CoincidenceWindow }
      order == Sorted(found, Lexicographic(found))
  IN  [n \in DOMAIN order |->
         LET p == photons[order[n][1]]  q == photons[order[n][2]]
         IN  IF p.region > q.region THEN <<p, q>> ELSE <<q, p>>]
=============================================================================
