---------------------------- MODULE MCConversion ----------------------------
(***************************************************************************)
(* Two channels that see each other's hits (0 and 1), one across (2), one  *)
(* for which files lack lines (3), one of another FEB/D (2048).            *)
(***************************************************************************)
EXTENDS Conversion

Hit(no, c, time, tac, fine, q) ==
  [ no |-> no, valid |-> TRUE, time |-> time, timeEnd |-> time + 2, timeEndQ |-> time + 1,
    channelID |-> c, tacID |-> tac, t1fine |-> fine, t2fine |-> 2, qfine |-> q ]

Tac(c, t, b, t0) ==
  [channel |-> c, tac |-> t, branch |-> b, tacConfig |-> [t0 |-> t0, a0 |-> 0, a1 |-> 1, a2 |-> 1]]
Qac(c, t) == [channel |-> c, tac |-> t, qacConfig |-> [p0 |-> 0, p1 |-> 1]]
Place(c, r, x) == [channel |-> c, place |-> [region |-> r, x |-> x]]
Trigger(r1, r2, kind) == [r1 |-> r1, r2 |-> r2, kind |-> kind]

MCFiles ==
  [ tdc |-> <<Tac(0, 0, 1, 2), Tac(0, 0, 1, 0), Tac(0, 0, 2, 0), Tac(1, 0, 1, 1),
              Junk, Tac(1, 0, 2, 0), Tac(2, 0, 1, 0), Tac(2, 0, 2, 0), Tac(3, 0, 1, 0)>>,
    qdc |-> <<Qac(0, 0), Qac(1, 0), Qac(2, 0), Qac(3, 0)>>,
    channels |-> <<Place(0, 0, 0), Place(1, 0, 1), Place(2, 1, 5), Place(3, 1, 5)>>,
    triggers |-> <<Trigger(0, 0, "C"), Trigger(0, 1, "C"), Trigger(0, 0, "M"), Trigger(1, 1, "M")>> ]

MCConfigurations ==
  { MCFiles,
    [MCFiles EXCEPT !.triggers = @ \o <<Trigger(1, 0, "M"), Trigger(0, 1, "C")>>],
    [MCFiles EXCEPT !.triggers = Append(@, Junk)],
    [name \in {"tdc", "qdc", "channels"} |-> MCFiles[name]] }

MCHits ==
  { Hit(1, 0, 0, 0, 0, 20), Hit(2, 1, 3, 0, 2, 30), Hit(3, 2, 1, 0, 6, 25),
    Hit(4, 1, 1, 0, 0, 40), Hit(5, 0, 2, 0, 2, 10), Hit(6, 3, 1, 0, 0, 20),
    Hit(7, 1, 1, 4, 0, 20), Hit(8, 2048, 2, 0, 28, 20) }

\* The order of a block's hits is lost in the sorter.
Blocks == { SetToSortSeq(S, LAMBDA g, h : g.no < h.no) : S \in kSubset(3, MCHits) }

\* Larger ones, in which a group has too many hits, and a photon two
\* partners, or hits are too late for the first.
LargeBlocks ==
  { <<Hit(1, 0, 0, 0, 0, 20), Hit(2, 1, 1, 0, 2, 30), Hit(3, 0, 2, 0, 6, 25),
      Hit(4, 2, 1, 0, 2, 40)>>,
    <<Hit(1, 0, 0, 0, 0, 20), Hit(2, 1, 13, 0, 2, 30), Hit(3, 0, 14, 0, 6, 25),
      Hit(4, 2, 13, 0, 2, 40)>>,
    <<Hit(1, 0, 0, 0, 0, 20), Hit(2, 2, 1, 0, 2, 30), Hit(3, 1, 3, 0, 0, 25),
      Hit(4, 2, 4, 0, 0, 40)>> }

Step1 == { <<>>, <<<<Hit(11, 0, 0, 0, 0, 20), Hit(12, 0, 1, 0, 0, 20)>>,
                   <<Hit(13, 2, 1, 0, 0, 20), Hit(14, 1, 1, 0, 0, 30)>>>> }
Step2 == { <<<<Hit(21, 1, 0, 0, 0, 20), Hit(22, 2, 0, 0, 2, 20), Hit(23, 0, 1, 0, 2, 40)>>>> }
Step3 == { <<>>, <<<<>>, <<Hit(31, 0, 5, 0, 0, 20)>>>> }

MCRuns ==
  [steps : {<<<<b>>>> : b \in Blocks \cup LargeBlocks}, triggerID : {-1}]
    \cup [steps : {<<<<b>>>> : b \in Blocks}, triggerID : {1}]
    \cup [steps : Step1 \X Step2 \X Step3, triggerID : {-1}]

MCOptions ==
  { [fraction |-> 3, hitLimit |-> 3, coincidence |-> FALSE, refChannel |-> -1, rawInName |-> TRUE],
    [fraction |-> 2, hitLimit |-> 1, coincidence |-> FALSE, refChannel |-> -1, rawInName |-> FALSE],
    [fraction |-> 3, hitLimit |-> 2, coincidence |-> TRUE,  refChannel |-> 1,  rawInName |-> TRUE] }
=============================================================================
