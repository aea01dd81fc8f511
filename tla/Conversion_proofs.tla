-------------------------- MODULE Conversion_proofs --------------------------
(***************************************************************************)
(* What the conversion programs make of an acquisition, for every one of   *)
(* them, every set of configuration files and every choice of options.     *)
(***************************************************************************)
EXTENDS Conversion, FiniteSetTheorems, WellFoundedInduction, TLAPS

-----------------------------------------------------------------------------
(* Sequences that are built one after the other.                           *)

\* A set that has 0, and with each number the next, has all.
LEMMA SetInduction ==
  ASSUME NEW S, 0 \in S, \A n \in Nat : n \in S => n + 1 \in S
  PROVE  Nat \subseteq S
<1> SUFFICES ASSUME Nat \ S # {} PROVE FALSE
  OBVIOUS
<1>1. PICK m \in Nat \ S : \A y \in Nat \ S : ~(<<y, m>> \in OpToRel(<, Nat))
  BY NatLessThanWellFounded, WFMin, Zenon
<1>2. m - 1 \in Nat
  OBVIOUS
<1>3. ~(m - 1 \in S)
  BY <1>2
<1>4. m - 1 < m
  OBVIOUS
<1> QED
  BY <1>1, <1>2, <1>3, <1>4 DEF OpToRel

\* f has n values after the first, each made of the one before it with G.
Builds(f, n, v, G) == f[0] = v /\ \A k \in 1 .. n : f[k] = G[k][f[k - 1]]

\* Such a function exists, ...
LEMMA BuildsExists ==
  ASSUME NEW V, NEW v \in V, NEW n \in Nat, NEW G \in [1 .. n -> [V -> V]]
  PROVE  \E f \in [0 .. n -> V] : Builds(f, n, v, G)
<1> DEFINE S == { k \in Nat : k <= n => \E f \in [0 .. k -> V] : Builds(f, k, v, G) }
<1>1. 0 \in S
  <2>1. [i \in 0 .. 0 |-> v] \in [0 .. 0 -> V]
    OBVIOUS
  <2>2. Builds([i \in 0 .. 0 |-> v], 0, v, G)
    BY DEF Builds
  <2> QED
    BY <2>1, <2>2
<1>2. ASSUME NEW k \in Nat, k \in S, k + 1 <= n
      PROVE  \E f \in [0 .. (k + 1) -> V] : Builds(f, k + 1, v, G)
  <2>1. PICK f \in [0 .. k -> V] : Builds(f, k, v, G)
    BY <1>2
  <2>2. k + 1 \in 1 .. n /\ f[k] \in V
    BY <1>2
  <2>3. PICK w \in V : w = G[k + 1][f[k]]
    BY <2>2
  <2>4. PICK g : g = [i \in 0 .. (k + 1) |-> IF i = k + 1 THEN w ELSE f[i]]
    OBVIOUS
  <2>5. g \in [0 .. (k + 1) -> V]
    BY <2>4
  <2>6. g[0] = v
    BY <2>1, <2>4 DEF Builds
  <2>7. ASSUME NEW i \in 1 .. (k + 1)
        PROVE  g[i] = G[i][g[i - 1]]
    <3>1. CASE i = k + 1
      <4>1. g[i] = w /\ g[k] = f[k] /\ i - 1 = k
        BY <2>4, <3>1
      <4> QED
        BY <2>3, <3>1, <4>1
    <3>2. CASE i # k + 1
      <4>1. i \in 1 .. k /\ i - 1 \in 0 .. k /\ i # k + 1 /\ i - 1 # k + 1
        BY <3>2
      <4>2. g[i] = f[i] /\ g[i - 1] = f[i - 1]
        BY <2>4, <4>1
      <4>3. f[i] = G[i][f[i - 1]]
        BY <2>1, <4>1 DEF Builds
      <4> QED
        BY <4>2, <4>3
    <3> QED
      BY <3>1, <3>2
  <2> QED
    BY <2>5, <2>6, <2>7 DEF Builds
<1>3. \A k \in Nat : k \in S => k + 1 \in S
  BY <1>2
<1> HIDE DEF S
<1>4. n \in S
  BY <1>1, <1>3, SetInduction
<1> QED
  BY <1>4 DEF S

\* What begins alike and goes on alike is alike.
LEMMA SameValues ==
  ASSUME NEW n \in Nat, NEW f, NEW h, h[0] = f[0],
         \A k \in 1 .. n : h[k - 1] = f[k - 1] => h[k] = f[k]
  PROVE  h[n] = f[n]
<1> DEFINE S == { k \in Nat : k <= n => h[k] = f[k] }
<1>1. 0 \in S
  OBVIOUS
<1>2. ASSUME NEW k \in Nat, k \in S, k + 1 <= n
      PROVE  h[k + 1] = f[k + 1]
  <2>1. k + 1 \in 1 .. n /\ (k + 1) - 1 = k /\ h[k] = f[k]
    BY <1>2
  <2> QED
    BY <2>1
<1>3. \A k \in Nat : k \in S => k + 1 \in S
  BY <1>2
<1> HIDE DEF S
<1>4. Nat \subseteq S
  BY <1>1, <1>3, SetInduction
<1> QED
  BY <1>4 DEF S

\* Sequences without members.
LEMMA EmptySeq ==
  ASSUME NEW Y, NEW s \in Seq(Y), Len(s) = 0
  PROVE  s = <<>>
OBVIOUS

\* The type and the length of two sequences put together.
LEMMA ConcatType ==
  ASSUME NEW X, NEW a \in Seq(X), NEW b \in Seq(X)
  PROVE  a \o b \in Seq(X) /\ Len(a \o b) = Len(a) + Len(b)
OBVIOUS

\* FlattenSeq puts one sequence after the other.
Flattens(f, s, n) == f[0] = <<>> /\ \A k \in 1 .. n : f[k] = f[k - 1] \o s[k]

\* It does so in as many turns as there are sequences.
LEMMA FlattenIs ==
  ASSUME NEW X, NEW s \in Seq(Seq(X)), NEW n \in Nat, n = Len(s)
  PROVE  \E f \in [0 .. n -> Seq(X)] : Flattens(f, s, n) /\ FlattenSeq(s) = f[n]
<1> DEFINE Y == Seq(X)
<1>1. s \in Seq(Y) /\ <<>> \in Y
  OBVIOUS
<1>2. \A k \in 1 .. n : s[k] \in Y
  <2> HIDE DEF Y
  <2> QED
    BY <1>1
<1> DEFINE G == [k \in 1 .. n |-> [u \in Y |-> u \o s[k]]]
<1>3. G \in [1 .. n -> [Y -> Y]]
  BY <1>2, ConcatType
<1>4. \A k \in 1 .. n, u \in Y : G[k][u] = u \o s[k]
  OBVIOUS
<1> HIDE DEF Y, G
<1>5. PICK f \in [0 .. n -> Y] : Builds(f, n, <<>>, G)
  BY <1>1, <1>3, BuildsExists, Zenon
<1>6. Flattens(f, s, n)
  <2>1. ASSUME NEW k \in 1 .. n PROVE f[k] = f[k - 1] \o s[k]
    <3>1. f[k] = G[k][f[k - 1]]
      BY <1>5 DEF Builds
    <3>2. f[k - 1] \in Y
      <4>1. k - 1 \in 0 .. n
        OBVIOUS
      <4> QED
        BY <4>1
    <3> QED
      BY <1>4, <3>1, <3>2
  <2> QED
    BY <1>5, <2>1, Zenon DEF Flattens, Builds
<1>7. FlattenSeq(s) = f[n]
  <2>1. CASE n = 0
    <3>1. s = <<>>
      BY <1>1, <2>1, EmptySeq, Zenon
    <3>2. FlattenSeq(s) = s
      BY <2>1 DEF FlattenSeq
    <3> QED
      BY <1>6, <2>1, <3>1, <3>2 DEF Flattens
  <2>2. CASE n # 0
    <3>1. PICK g : g = [i \in 1 .. n |-> f[i]]
      OBVIOUS
    <3>2. g = [i \in 1 .. n |-> IF i = 1 THEN s[i] ELSE g[i - 1] \o s[i]]
      <4>1. ASSUME NEW i \in 1 .. n
            PROVE  g[i] = IF i = 1 THEN s[i] ELSE g[i - 1] \o s[i]
        <5>1. f[i] = f[i - 1] \o s[i]
          BY <1>6 DEF Flattens
        <5>2. CASE i = 1
          <6>1. s[1] \in Seq(X)
            BY <1>2, <5>2 DEF Y
          <6>2. <<>> \o s[1] = s[1]
            BY <6>1
          <6>3. f[0] = <<>> /\ i - 1 = 0
            BY <1>6, <5>2 DEF Flattens
          <6> QED
            BY <3>1, <5>1, <5>2, <6>2, <6>3
        <5>3. CASE i # 1
          <6>1. i - 1 \in 1 .. n
            BY <5>3
          <6>2. g[i - 1] = f[i - 1]
            BY <3>1, <6>1
          <6> QED
            BY <3>1, <5>1, <5>3, <6>2
        <5> QED
          BY <5>2, <5>3
      <4>2. g = [i \in 1 .. n |-> g[i]]
        BY <3>1
      <4> QED
        BY <4>1, <4>2, Zenon
    <3>3. PICK h : /\ h = [i \in 1 .. n |-> IF i = 1 THEN s[i] ELSE h[i - 1] \o s[i]]
                   /\ FlattenSeq(s) = h[n]
      BY <2>2, <3>2 DEF FlattenSeq
    <3> DEFINE S == { k \in Nat : k \in 1 .. n => h[k] = f[k] }
    <3>4. 0 \in S
      OBVIOUS
    <3>5. ASSUME NEW k \in Nat, k \in S, k + 1 \in 1 .. n
          PROVE  h[k + 1] = f[k + 1]
      <4>1. h[k + 1] = IF k + 1 = 1 THEN s[k + 1] ELSE h[(k + 1) - 1] \o s[k + 1]
        BY <3>3, <3>5, Zenon
      <4>2. g[k + 1] = IF k + 1 = 1 THEN s[k + 1] ELSE g[(k + 1) - 1] \o s[k + 1]
        BY <3>2, <3>5, Zenon
      <4>3. (k + 1) - 1 = k /\ (k + 1 # 1 => k \in 1 .. n) /\ g[k + 1] = f[k + 1]
        BY <3>1, <3>5
      <4>4. k + 1 # 1 => h[k] = f[k] /\ g[k] = f[k]
        BY <3>1, <3>5, <4>3
      <4> QED
        BY <4>1, <4>2, <4>3, <4>4, Zenon
    <3>6. \A k \in Nat : k \in S => k + 1 \in S
      BY <3>5
    <3> HIDE DEF S
    <3>7. Nat \subseteq S
      BY <3>4, <3>6, SetInduction
    <3>8. n \in 1 .. n /\ n \in Nat
      BY <2>2
    <3>9. h[n] = f[n]
      BY <3>7, <3>8 DEF S
    <3> QED
      BY <3>3, <3>9
  <2> QED
    BY <2>1, <2>2
<1> QED
  BY <1>5, <1>6, <1>7 DEF Y

\* What is in it is in one of them.
LEMMA FlattenType ==
  ASSUME NEW X, NEW s \in Seq(Seq(X))
  PROVE  FlattenSeq(s) \in Seq(X)
<1>1. PICK n \in Nat : n = Len(s)
  OBVIOUS
<1>2. PICK f \in [0 .. n -> Seq(X)] : FlattenSeq(s) = f[n]
  BY <1>1, FlattenIs, Zenon
<1>3. n \in 0 .. n
  OBVIOUS
<1> QED
  BY <1>2, <1>3, Zenon

\* Its length is that of all of them, added one by one.
LEMMA FlattenLength ==
  ASSUME NEW X, NEW s \in Seq(Seq(X)), NEW n \in Nat, n = Len(s),
         NEW g \in [0 .. n -> Nat], g[0] = 0, \A k \in 1 .. n : g[k] = g[k - 1] + Len(s[k])
  PROVE  Len(FlattenSeq(s)) = g[n]
<1>1. PICK f \in [0 .. n -> Seq(X)] : Flattens(f, s, n) /\ FlattenSeq(s) = f[n]
  BY FlattenIs, Zenon
<1>2. \A k \in 1 .. n : s[k] \in Seq(X)
  <2> DEFINE Y == Seq(X)
  <2>1. s \in Seq(Y)
    OBVIOUS
  <2> HIDE DEF Y
  <2>2. \A k \in 1 .. n : s[k] \in Y
    BY <2>1
  <2> QED
    BY <2>2 DEF Y
<1> DEFINE S == { k \in Nat : k <= n => Len(f[k]) = g[k] }
<1>3. 0 \in S
  BY <1>1 DEF Flattens
<1>4. ASSUME NEW k \in Nat, k \in S, k + 1 <= n
      PROVE  Len(f[k + 1]) = g[k + 1]
  <2>1. k + 1 \in 1 .. n /\ k \in 0 .. n /\ (k + 1) - 1 = k /\ Len(f[k]) = g[k]
    BY <1>4
  <2>2. f[k + 1] = f[k] \o s[k + 1]
    BY <1>1, <2>1, Zenon DEF Flattens
  <2>3. f[k] \in Seq(X) /\ s[k + 1] \in Seq(X)
    BY <1>2, <2>1, Zenon
  <2>4. Len(f[k] \o s[k + 1]) = Len(f[k]) + Len(s[k + 1])
    BY <2>3, ConcatType, Zenon
  <2>5. g[k + 1] = g[k] + Len(s[k + 1])
    BY <2>1, Zenon
  <2> QED
    BY <2>1, <2>2, <2>4, <2>5
<1>5. \A k \in Nat : k \in S => k + 1 \in S
  BY <1>4
<1> HIDE DEF S
<1>6. Nat \subseteq S
  BY <1>3, <1>5, SetInduction
<1> QED
  BY <1>1, <1>6 DEF S

-----------------------------------------------------------------------------
(* What is loaded from the files: of the lines for an entry, the last.     *)

TacEntry == [t0 : Int, a0 : Int, a1 : Int, a2 : Int]
QacEntry == [p0 : Int, p1 : Int]
PlaceEntry == [region : Regions \cup {-1}, x : Int]

TacTable == [Channels -> [Tacs -> TacEntry]]
QacTable == [Channels -> [Tacs -> QacEntry]]
PlaceTable == [Channels -> PlaceEntry]
TriggerTable == SUBSET (Regions \X Regions)

Config == [ tacT : TacTable, tacE : TacTable, qac : QacTable, place : PlaceTable,
            coincidence : TriggerTable, multihit : TriggerTable ]

TacLine == [channel : Channels, tac : Tacs, branch : {1, 2}, tacConfig : TacEntry]
QacLine == [channel : Channels, tac : Tacs, qacConfig : QacEntry]
PlaceLine == [channel : Channels, place : [region : Regions, x : Int]]
TriggerLine == [r1 : Regions, r2 : Regions, kind : {"C", "M"}]

\* A table with one entry changed.
LEMMA EntryChanged ==
  ASSUME NEW V, NEW f \in [Channels -> [Tacs -> V]], NEW c \in Channels, NEW t \in Tacs,
         NEW v \in V, NEW g, g = [f EXCEPT ![c][t] = v]
  PROVE  /\ g \in [Channels -> [Tacs -> V]]
         /\ \A a \in Channels, b \in Tacs : g[a][b] = IF c = a /\ t = b THEN v ELSE f[a][b]
<1>1. g = [f EXCEPT ![c] = [f[c] EXCEPT ![t] = v]]
  OBVIOUS
<1>2. PICK h : h = [f[c] EXCEPT ![t] = v]
  OBVIOUS
<1>3. h \in [Tacs -> V] /\ \A b \in Tacs : h[b] = IF b = t THEN v ELSE f[c][b]
  BY <1>2
<1>4. g = [f EXCEPT ![c] = h]
  BY <1>1, <1>2
<1>5. g \in [Channels -> [Tacs -> V]] /\ \A a \in Channels : g[a] = IF a = c THEN h ELSE f[a]
  BY <1>3, <1>4
<1>6. \A a \in Channels, b \in Tacs : g[a][b] = IF c = a /\ t = b THEN v ELSE f[a][b]
  BY <1>3, <1>5
<1> QED
  BY <1>5, <1>6

\* What a line does to the table of TACs' calibrations, ...
LEMMA SetTacIs ==
  ASSUME NEW c \in Config, NEW l \in TacLine
  PROVE  LET d == SetTac(c, l)
         IN  /\ d \in Config
             /\ \A a \in Channels, b \in Tacs :
                  /\ d.tacT[a][b] = IF l.branch = 1 /\ l.channel = a /\ l.tac = b
                                    THEN l.tacConfig ELSE c.tacT[a][b]
                  /\ d.tacE[a][b] = IF l.branch = 2 /\ l.channel = a /\ l.tac = b
                                    THEN l.tacConfig ELSE c.tacE[a][b]
             /\ d.qac = c.qac /\ d.place = c.place
             /\ d.coincidence = c.coincidence /\ d.multihit = c.multihit
<1>1. /\ l.channel \in Channels /\ l.tac \in Tacs /\ l.tacConfig \in TacEntry
      /\ l.branch \in {1, 2}
  BY DEF TacLine
<1>2. c.tacT \in TacTable /\ c.tacE \in TacTable
  BY DEF Config
<1>3. PICK f : f = [c.tacT EXCEPT ![l.channel][l.tac] = l.tacConfig]
  OBVIOUS
<1>4. PICK g : g = [c.tacE EXCEPT ![l.channel][l.tac] = l.tacConfig]
  OBVIOUS
<1>5. /\ f \in TacTable
      /\ \A a \in Channels, b \in Tacs :
           f[a][b] = IF l.channel = a /\ l.tac = b THEN l.tacConfig ELSE c.tacT[a][b]
  BY <1>1, <1>2, <1>3, EntryChanged DEF TacTable
<1>6. /\ g \in TacTable
      /\ \A a \in Channels, b \in Tacs :
           g[a][b] = IF l.channel = a /\ l.tac = b THEN l.tacConfig ELSE c.tacE[a][b]
  BY <1>1, <1>2, <1>4, EntryChanged DEF TacTable
<1>7. SetTac(c, l) = IF l.branch = 1 THEN [c EXCEPT !.tacT = f] ELSE [c EXCEPT !.tacE = g]
  BY <1>3, <1>4, Zenon DEF SetTac
<1>8. CASE l.branch = 1
  BY <1>5, <1>7, <1>8 DEF Config
<1>9. CASE l.branch = 2
  BY <1>6, <1>7, <1>9 DEF Config
<1> QED
  BY <1>1, <1>8, <1>9

\* ... to that of the charge calibrations, ...
LEMMA SetQacIs ==
  ASSUME NEW c \in Config, NEW l \in QacLine
  PROVE  LET d == SetQac(c, l)
         IN  /\ d \in Config
             /\ \A a \in Channels, b \in Tacs :
                  d.qac[a][b] = IF l.channel = a /\ l.tac = b THEN l.qacConfig ELSE c.qac[a][b]
             /\ d.tacT = c.tacT /\ d.tacE = c.tacE /\ d.place = c.place
             /\ d.coincidence = c.coincidence /\ d.multihit = c.multihit
<1>1. l.channel \in Channels /\ l.tac \in Tacs /\ l.qacConfig \in QacEntry
  BY DEF QacLine
<1>2. c.qac \in QacTable
  BY DEF Config
<1>3. PICK f : f = [c.qac EXCEPT ![l.channel][l.tac] = l.qacConfig]
  OBVIOUS
<1>4. /\ f \in QacTable
      /\ \A a \in Channels, b \in Tacs :
           f[a][b] = IF l.channel = a /\ l.tac = b THEN l.qacConfig ELSE c.qac[a][b]
  BY <1>1, <1>2, <1>3, EntryChanged DEF QacTable
<1>5. SetQac(c, l) = [c EXCEPT !.qac = f]
  BY <1>3, Zenon DEF SetQac
<1> QED
  BY <1>4, <1>5 DEF Config

\* ... to a channel's place ...
LEMMA SetPlaceIs ==
  ASSUME NEW c \in Config, NEW l \in PlaceLine
  PROVE  LET d == SetPlace(c, l)
         IN  /\ d \in Config
             /\ \A a \in Channels : d.place[a] = IF l.channel = a THEN l.place ELSE c.place[a]
             /\ d.tacT = c.tacT /\ d.tacE = c.tacE /\ d.qac = c.qac
             /\ d.coincidence = c.coincidence /\ d.multihit = c.multihit
<1>1. l.channel \in Channels /\ l.place \in PlaceEntry
  BY DEF PlaceLine, PlaceEntry
<1>2. c.place \in PlaceTable
  BY DEF Config
<1>3. PICK f : f = [c.place EXCEPT ![l.channel] = l.place]
  OBVIOUS
<1>4. f \in PlaceTable /\ \A a \in Channels : f[a] = IF a = l.channel THEN l.place ELSE c.place[a]
  BY <1>1, <1>2, <1>3 DEF PlaceTable
<1>5. SetPlace(c, l) = [c EXCEPT !.place = f]
  BY <1>3, Zenon DEF SetPlace
<1> QED
  BY <1>4, <1>5 DEF Config

\* ... and to a pair of regions.
LEMMA SetTriggerIs ==
  ASSUME NEW c \in Config, NEW l \in TriggerLine
  PROVE  LET d == SetTrigger(c, l)
         IN  /\ d \in Config
             /\ \A a, b \in Regions :
                  /\ <<a, b>> \in d.coincidence <=>
                       IF {l.r1, l.r2} = {a, b} THEN l.kind = "C" ELSE <<a, b>> \in c.coincidence
                  /\ <<a, b>> \in d.multihit <=>
                       IF {l.r1, l.r2} = {a, b} THEN l.kind = "M" ELSE <<a, b>> \in c.multihit
             /\ d.tacT = c.tacT /\ d.tacE = c.tacE /\ d.qac = c.qac /\ d.place = c.place
<1>1. l.r1 \in Regions /\ l.r2 \in Regions /\ l.kind \in {"C", "M"}
  BY DEF TriggerLine
<1>2. c.coincidence \in TriggerTable /\ c.multihit \in TriggerTable
  BY DEF Config
<1>3. PICK f : f = IF l.kind = "C" THEN c.coincidence \cup Pairs(l) ELSE c.coincidence \ Pairs(l)
  OBVIOUS
<1>4. PICK g : g = IF l.kind = "M" THEN c.multihit \cup Pairs(l) ELSE c.multihit \ Pairs(l)
  OBVIOUS
<1>5. \A a, b \in Regions : <<a, b>> \in Pairs(l) <=> {l.r1, l.r2} = {a, b}
  BY DEF Pairs
<1>6. Pairs(l) \in TriggerTable
  BY <1>1 DEF Pairs, TriggerTable
<1>7. f \in TriggerTable /\ g \in TriggerTable
  BY <1>2, <1>3, <1>4, <1>6 DEF TriggerTable
<1>8. SetTrigger(c, l) = [c EXCEPT !.coincidence = f, !.multihit = g]
  BY <1>3, <1>4, Zenon DEF SetTrigger
<1>9. PICK d : d = SetTrigger(c, l)
  OBVIOUS
<1>10. /\ d \in Config /\ d.coincidence = f /\ d.multihit = g
       /\ d.tacT = c.tacT /\ d.tacE = c.tacE /\ d.qac = c.qac /\ d.place = c.place
  BY <1>7, <1>8, <1>9 DEF Config
<1>11. ASSUME NEW a \in Regions, NEW b \in Regions
       PROVE  /\ <<a, b>> \in f <=>
                   IF {l.r1, l.r2} = {a, b} THEN l.kind = "C" ELSE <<a, b>> \in c.coincidence
              /\ <<a, b>> \in g <=>
                   IF {l.r1, l.r2} = {a, b} THEN l.kind = "M" ELSE <<a, b>> \in c.multihit
  BY <1>3, <1>4, <1>5, Zenon
<1> QED
  BY <1>9, <1>10, <1>11, Zenon

\* A set of positions has a last one ...
LEMMA MaxIs ==
  ASSUME NEW n \in Nat, NEW I \in SUBSET (1 .. n), I # {}
  PROVE  Max(I) \in I /\ \A i \in I : i <= Max(I)
<1> DEFINE S == { k \in Nat : \A J \in SUBSET (1 .. k) : J # {} => \E m \in J : \A i \in J : m >= i }
<1>1. 0 \in S
  <2>1. \A J \in SUBSET (1 .. 0) : J = {}
    OBVIOUS
  <2> QED
    BY <2>1, Zenon
<1>2. ASSUME NEW k \in Nat, k \in S PROVE k + 1 \in S
  <2>1. ASSUME NEW J \in SUBSET (1 .. (k + 1)), J # {} PROVE \E m \in J : \A i \in J : m >= i
    <3>1. CASE k + 1 \in J
      BY <3>1
    <3>2. CASE k + 1 \notin J
      <4>1. J \in SUBSET (1 .. k)
        BY <3>2
      <4> QED
        BY <1>2, <2>1, <4>1
    <3> QED
      BY <3>1, <3>2
  <2> QED
    BY <2>1
<1> HIDE DEF S
<1>3. n \in S
  BY <1>1, <1>2, SetInduction
<1>4. PICK m \in I : \A i \in I : m >= i
  BY <1>3 DEF S
<1>5. Max(I) \in I /\ \A i \in I : Max(I) >= i
  BY <1>4, Zenon DEF Max
<1> QED
  BY <1>5

\* ... and a first one.
LEMMA MinIs ==
  ASSUME NEW I \in SUBSET Nat, I # {}
  PROVE  Min(I) \in I /\ \A i \in I : Min(I) <= i
<1>1. PICK m \in I : \A y \in I : ~(<<y, m>> \in OpToRel(<, Nat))
  BY NatLessThanWellFounded, WFMin, Zenon
<1>2. \A y \in I : m <= y
  <2>1. \A y \in I : y \in Nat /\ m \in Nat
    OBVIOUS
  <2>2. \A y \in I : ~(y < m)
    BY <1>1, <2>1 DEF OpToRel
  <2> QED
    BY <2>1, <2>2
<1>3. Min(I) \in I /\ \A i \in I : Min(I) <= i
  BY <1>2, Zenon DEF Min
<1> QED
  BY <1>3

\* g has the values of v at the positions in I, and else what it had before.
Keeps(g, v, I, n) == \A k \in 1 .. n : g[k] = IF k \in I THEN v[k] ELSE g[k - 1]

\* What the positions in I set, and the others leave, is as the last one in I
\* has set it.
LEMMA LastIsKept ==
  ASSUME NEW n \in Nat, NEW I \in SUBSET (1 .. n), NEW g, NEW v, Keeps(g, v, I, n)
  PROVE  g[n] = IF I = {} THEN g[0] ELSE v[Max(I)]
<1>1. PICK m : /\ m \in 0 .. n
               /\ g[m] = IF I = {} THEN g[0] ELSE v[Max(I)]
               /\ \A i \in I : i <= m
  <2>1. CASE I = {}
    BY <2>1
  <2>2. CASE I # {}
    <3>1. PICK m : m = Max(I)
      OBVIOUS
    <3>2. m \in I /\ \A i \in I : i <= m
      BY <2>2, <3>1, MaxIs
    <3>3. m \in 1 .. n /\ m \in 0 .. n
      BY <3>2
    <3>4. g[m] = v[m]
      BY <3>2, <3>3 DEF Keeps
    <3> QED
      BY <2>2, <3>1, <3>2, <3>3, <3>4
  <2> QED
    BY <2>1, <2>2
<1> DEFINE S == { k \in Nat : m + k <= n => g[m + k] = g[m] }
<1>2. 0 \in S
  BY <1>1
<1>3. ASSUME NEW k \in Nat, k \in S, m + (k + 1) <= n
      PROVE  g[m + (k + 1)] = g[m]
  <2>1. m + (k + 1) \in 1 .. n /\ (m + (k + 1)) - 1 = m + k /\ m + (k + 1) \notin I
    BY <1>1, <1>3
  <2>2. g[m + k] = g[m]
    BY <1>1, <1>3
  <2> QED
    BY <2>1, <2>2 DEF Keeps
<1>4. \A k \in Nat : k \in S => k + 1 \in S
  BY <1>3
<1> HIDE DEF S
<1>5. Nat \subseteq S
  BY <1>2, <1>4, SetInduction
<1>6. n - m \in Nat /\ m + (n - m) = n
  BY <1>1
<1>7. g[n] = g[m]
  BY <1>5, <1>6 DEF S
<1> QED
  BY <1>1, <1>7

\* Each file is read line by line: TACs' calibrations, ...
LEMMA TacRead ==
  ASSUME NEW c \in Config, NEW lines \in Seq(TacLine \cup {Junk}), NEW n \in Nat, n = Len(lines)
  PROVE  \E f \in [0 .. n -> Config] :
           /\ f[0] = c /\ f[n] = LoadTDCCalibration(c, lines)
           /\ \A k \in 1 .. n : f[k] = IF lines[k] = Junk THEN f[k - 1] ELSE SetTac(f[k - 1], lines[k])
<1> DEFINE G == [k \in 1 .. n |-> [d \in Config |->
                  IF lines[k] = Junk THEN d ELSE SetTac(d, lines[k])]]
<1>1. \A k \in 1 .. n : lines[k] # Junk => lines[k] \in TacLine
  OBVIOUS
<1>2. G \in [1 .. n -> [Config -> Config]]
  <2>1. \A k \in 1 .. n : lines[k] # Junk => \A d \in Config : SetTac(d, lines[k]) \in Config
    BY <1>1, SetTacIs, Zenon
  <2>2. \A k \in 1 .. n, d \in Config :
          (IF lines[k] = Junk THEN d ELSE SetTac(d, lines[k])) \in Config
    BY <2>1, Zenon
  <2> QED
    BY <2>2, Zenon
<1>3. \A k \in 1 .. n, d \in Config :
        G[k][d] = IF lines[k] = Junk THEN d ELSE SetTac(d, lines[k])
  OBVIOUS
<1> HIDE DEF G
<1>4. PICK f \in [0 .. n -> Config] : Builds(f, n, c, G)
  BY <1>2, BuildsExists
<1>5. \A k \in 1 .. n : k - 1 \in 0 .. n /\ f[k - 1] \in Config
  OBVIOUS
<1>6. \A k \in 1 .. n : f[k] = IF lines[k] = Junk THEN f[k - 1] ELSE SetTac(f[k - 1], lines[k])
  BY <1>3, <1>4, <1>5, Zenon DEF Builds
<1>7. f = [k \in 0 .. Len(lines) |-> IF k = 0 THEN c
             ELSE IF lines[k] = Junk THEN f[k - 1] ELSE SetTac(f[k - 1], lines[k])]
  <2>1. \A k \in 0 .. n : k = 0 \/ k \in 1 .. n
    OBVIOUS
  <2>2. \A k \in 0 .. n : f[k] = IF k = 0 THEN c
          ELSE IF lines[k] = Junk THEN f[k - 1] ELSE SetTac(f[k - 1], lines[k])
    BY <1>4, <1>6, <2>1, Zenon DEF Builds
  <2>3. f = [k \in 0 .. n |-> f[k]]
    OBVIOUS
  <2> QED
    BY <2>2, <2>3, Zenon
<1>8. PICK h : /\ h = [k \in 0 .. Len(lines) |-> IF k = 0 THEN c
                       ELSE IF lines[k] = Junk THEN h[k - 1] ELSE SetTac(h[k - 1], lines[k])]
               /\ LoadTDCCalibration(c, lines) = h[Len(lines)]
  BY <1>7, Zenon DEF LoadTDCCalibration, Read
<1>9. f[0] = c /\ h[0] = c
  <2>1. 0 \in 0 .. Len(lines)
    OBVIOUS
  <2> QED
    BY <1>4, <1>8, <2>1, Zenon DEF Builds
<1>10. ASSUME NEW k \in 1 .. n, h[k - 1] = f[k - 1]
       PROVE  h[k] = f[k]
  <2>1. k \in 0 .. Len(lines) /\ k # 0
    OBVIOUS
  <2>2. h[k] = IF lines[k] = Junk THEN h[k - 1] ELSE SetTac(h[k - 1], lines[k])
    BY <1>8, <2>1, Zenon
  <2>3. f[k] = IF lines[k] = Junk THEN f[k - 1] ELSE SetTac(f[k - 1], lines[k])
    BY <1>6
  <2> QED
    BY <1>10, <2>2, <2>3, Zenon
<1>11. h[n] = f[n]
  BY <1>9, <1>10, SameValues, ZenonT(60)
<1> QED
  BY <1>6, <1>8, <1>9, <1>11, Zenon

\* ... charge calibrations, ...
LEMMA QacRead ==
  ASSUME NEW c \in Config, NEW lines \in Seq(QacLine \cup {Junk}), NEW n \in Nat, n = Len(lines)
  PROVE  \E f \in [0 .. n -> Config] :
           /\ f[0] = c /\ f[n] = LoadQDCCalibration(c, lines)
           /\ \A k \in 1 .. n : f[k] = IF lines[k] = Junk THEN f[k - 1] ELSE SetQac(f[k - 1], lines[k])
<1> DEFINE G == [k \in 1 .. n |-> [d \in Config |->
                  IF lines[k] = Junk THEN d ELSE SetQac(d, lines[k])]]
<1>1. \A k \in 1 .. n : lines[k] # Junk => lines[k] \in QacLine
  OBVIOUS
<1>2. G \in [1 .. n -> [Config -> Config]]
  <2>1. \A k \in 1 .. n : lines[k] # Junk => \A d \in Config : SetQac(d, lines[k]) \in Config
    BY <1>1, SetQacIs, Zenon
  <2>2. \A k \in 1 .. n, d \in Config :
          (IF lines[k] = Junk THEN d ELSE SetQac(d, lines[k])) \in Config
    BY <2>1, Zenon
  <2> QED
    BY <2>2, Zenon
<1>3. \A k \in 1 .. n, d \in Config :
        G[k][d] = IF lines[k] = Junk THEN d ELSE SetQac(d, lines[k])
  OBVIOUS
<1> HIDE DEF G
<1>4. PICK f \in [0 .. n -> Config] : Builds(f, n, c, G)
  BY <1>2, BuildsExists
<1>5. \A k \in 1 .. n : k - 1 \in 0 .. n /\ f[k - 1] \in Config
  OBVIOUS
<1>6. \A k \in 1 .. n : f[k] = IF lines[k] = Junk THEN f[k - 1] ELSE SetQac(f[k - 1], lines[k])
  BY <1>3, <1>4, <1>5, Zenon DEF Builds
<1>7. f = [k \in 0 .. Len(lines) |-> IF k = 0 THEN c
             ELSE IF lines[k] = Junk THEN f[k - 1] ELSE SetQac(f[k - 1], lines[k])]
  <2>1. \A k \in 0 .. n : k = 0 \/ k \in 1 .. n
    OBVIOUS
  <2>2. \A k \in 0 .. n : f[k] = IF k = 0 THEN c
          ELSE IF lines[k] = Junk THEN f[k - 1] ELSE SetQac(f[k - 1], lines[k])
    BY <1>4, <1>6, <2>1, Zenon DEF Builds
  <2>3. f = [k \in 0 .. n |-> f[k]]
    OBVIOUS
  <2> QED
    BY <2>2, <2>3, Zenon
<1>8. PICK h : /\ h = [k \in 0 .. Len(lines) |-> IF k = 0 THEN c
                       ELSE IF lines[k] = Junk THEN h[k - 1] ELSE SetQac(h[k - 1], lines[k])]
               /\ LoadQDCCalibration(c, lines) = h[Len(lines)]
  BY <1>7, Zenon DEF LoadQDCCalibration, Read
<1>9. f[0] = c /\ h[0] = c
  <2>1. 0 \in 0 .. Len(lines)
    OBVIOUS
  <2> QED
    BY <1>4, <1>8, <2>1, Zenon DEF Builds
<1>10. ASSUME NEW k \in 1 .. n, h[k - 1] = f[k - 1]
       PROVE  h[k] = f[k]
  <2>1. k \in 0 .. Len(lines) /\ k # 0
    OBVIOUS
  <2>2. h[k] = IF lines[k] = Junk THEN h[k - 1] ELSE SetQac(h[k - 1], lines[k])
    BY <1>8, <2>1, Zenon
  <2>3. f[k] = IF lines[k] = Junk THEN f[k - 1] ELSE SetQac(f[k - 1], lines[k])
    BY <1>6
  <2> QED
    BY <1>10, <2>2, <2>3, Zenon
<1>11. h[n] = f[n]
  BY <1>9, <1>10, SameValues, ZenonT(60)
<1> QED
  BY <1>6, <1>8, <1>9, <1>11, Zenon

\* ... the map of channels ...
LEMMA PlaceRead ==
  ASSUME NEW c \in Config, NEW lines \in Seq(PlaceLine \cup {Junk}), NEW n \in Nat, n = Len(lines)
  PROVE  \E f \in [0 .. n -> Config] :
           /\ f[0] = c /\ f[n] = LoadChannelMap(c, lines)
           /\ \A k \in 1 .. n : f[k] = IF lines[k] = Junk THEN f[k - 1] ELSE SetPlace(f[k - 1], lines[k])
<1> DEFINE G == [k \in 1 .. n |-> [d \in Config |->
                  IF lines[k] = Junk THEN d ELSE SetPlace(d, lines[k])]]
<1>1. \A k \in 1 .. n : lines[k] # Junk => lines[k] \in PlaceLine
  OBVIOUS
<1>2. G \in [1 .. n -> [Config -> Config]]
  <2>1. \A k \in 1 .. n : lines[k] # Junk => \A d \in Config : SetPlace(d, lines[k]) \in Config
    BY <1>1, SetPlaceIs, Zenon
  <2>2. \A k \in 1 .. n, d \in Config :
          (IF lines[k] = Junk THEN d ELSE SetPlace(d, lines[k])) \in Config
    BY <2>1, Zenon
  <2> QED
    BY <2>2, Zenon
<1>3. \A k \in 1 .. n, d \in Config :
        G[k][d] = IF lines[k] = Junk THEN d ELSE SetPlace(d, lines[k])
  OBVIOUS
<1> HIDE DEF G
<1>4. PICK f \in [0 .. n -> Config] : Builds(f, n, c, G)
  BY <1>2, BuildsExists
<1>5. \A k \in 1 .. n : k - 1 \in 0 .. n /\ f[k - 1] \in Config
  OBVIOUS
<1>6. \A k \in 1 .. n : f[k] = IF lines[k] = Junk THEN f[k - 1] ELSE SetPlace(f[k - 1], lines[k])
  BY <1>3, <1>4, <1>5, Zenon DEF Builds
<1>7. f = [k \in 0 .. Len(lines) |-> IF k = 0 THEN c
             ELSE IF lines[k] = Junk THEN f[k - 1] ELSE SetPlace(f[k - 1], lines[k])]
  <2>1. \A k \in 0 .. n : k = 0 \/ k \in 1 .. n
    OBVIOUS
  <2>2. \A k \in 0 .. n : f[k] = IF k = 0 THEN c
          ELSE IF lines[k] = Junk THEN f[k - 1] ELSE SetPlace(f[k - 1], lines[k])
    BY <1>4, <1>6, <2>1, Zenon DEF Builds
  <2>3. f = [k \in 0 .. n |-> f[k]]
    OBVIOUS
  <2> QED
    BY <2>2, <2>3, Zenon
<1>8. PICK h : /\ h = [k \in 0 .. Len(lines) |-> IF k = 0 THEN c
                       ELSE IF lines[k] = Junk THEN h[k - 1] ELSE SetPlace(h[k - 1], lines[k])]
               /\ LoadChannelMap(c, lines) = h[Len(lines)]
  BY <1>7, Zenon DEF LoadChannelMap, Read
<1>9. f[0] = c /\ h[0] = c
  <2>1. 0 \in 0 .. Len(lines)
    OBVIOUS
  <2> QED
    BY <1>4, <1>8, <2>1, Zenon DEF Builds
<1>10. ASSUME NEW k \in 1 .. n, h[k - 1] = f[k - 1]
       PROVE  h[k] = f[k]
  <2>1. k \in 0 .. Len(lines) /\ k # 0
    OBVIOUS
  <2>2. h[k] = IF lines[k] = Junk THEN h[k - 1] ELSE SetPlace(h[k - 1], lines[k])
    BY <1>8, <2>1, Zenon
  <2>3. f[k] = IF lines[k] = Junk THEN f[k - 1] ELSE SetPlace(f[k - 1], lines[k])
    BY <1>6
  <2> QED
    BY <1>10, <2>2, <2>3, Zenon
<1>11. h[n] = f[n]
  BY <1>9, <1>10, SameValues, ZenonT(60)
<1> QED
  BY <1>6, <1>8, <1>9, <1>11, Zenon

\* ... and the trigger map.
LEMMA TriggerRead ==
  ASSUME NEW c \in Config, NEW lines \in Seq(TriggerLine \cup {Junk}), NEW n \in Nat, n = Len(lines)
  PROVE  \E f \in [0 .. n -> Config] :
           /\ f[0] = c /\ f[n] = LoadTriggerMap(c, lines)
           /\ \A k \in 1 .. n : f[k] = IF lines[k] = Junk THEN f[k - 1] ELSE SetTrigger(f[k - 1], lines[k])
<1> DEFINE G == [k \in 1 .. n |-> [d \in Config |->
                  IF lines[k] = Junk THEN d ELSE SetTrigger(d, lines[k])]]
<1>1. \A k \in 1 .. n : lines[k] # Junk => lines[k] \in TriggerLine
  OBVIOUS
<1>2. G \in [1 .. n -> [Config -> Config]]
  <2>1. \A k \in 1 .. n : lines[k] # Junk => \A d \in Config : SetTrigger(d, lines[k]) \in Config
    BY <1>1, SetTriggerIs, Zenon
  <2>2. \A k \in 1 .. n, d \in Config :
          (IF lines[k] = Junk THEN d ELSE SetTrigger(d, lines[k])) \in Config
    BY <2>1, Zenon
  <2> QED
    BY <2>2, Zenon
<1>3. \A k \in 1 .. n, d \in Config :
        G[k][d] = IF lines[k] = Junk THEN d ELSE SetTrigger(d, lines[k])
  OBVIOUS
<1> HIDE DEF G
<1>4. PICK f \in [0 .. n -> Config] : Builds(f, n, c, G)
  BY <1>2, BuildsExists
<1>5. \A k \in 1 .. n : k - 1 \in 0 .. n /\ f[k - 1] \in Config
  OBVIOUS
<1>6. \A k \in 1 .. n : f[k] = IF lines[k] = Junk THEN f[k - 1] ELSE SetTrigger(f[k - 1], lines[k])
  BY <1>3, <1>4, <1>5, Zenon DEF Builds
<1>7. f = [k \in 0 .. Len(lines) |-> IF k = 0 THEN c
             ELSE IF lines[k] = Junk THEN f[k - 1] ELSE SetTrigger(f[k - 1], lines[k])]
  <2>1. \A k \in 0 .. n : k = 0 \/ k \in 1 .. n
    OBVIOUS
  <2>2. \A k \in 0 .. n : f[k] = IF k = 0 THEN c
          ELSE IF lines[k] = Junk THEN f[k - 1] ELSE SetTrigger(f[k - 1], lines[k])
    BY <1>4, <1>6, <2>1, Zenon DEF Builds
  <2>3. f = [k \in 0 .. n |-> f[k]]
    OBVIOUS
  <2> QED
    BY <2>2, <2>3, Zenon
<1>8. PICK h : /\ h = [k \in 0 .. Len(lines) |-> IF k = 0 THEN c
                       ELSE IF lines[k] = Junk THEN h[k - 1] ELSE SetTrigger(h[k - 1], lines[k])]
               /\ LoadTriggerMap(c, lines) = h[Len(lines)]
  BY <1>7, Zenon DEF LoadTriggerMap, Read
<1>9. f[0] = c /\ h[0] = c
  <2>1. 0 \in 0 .. Len(lines)
    OBVIOUS
  <2> QED
    BY <1>4, <1>8, <2>1, Zenon DEF Builds
<1>10. ASSUME NEW k \in 1 .. n, h[k - 1] = f[k - 1]
       PROVE  h[k] = f[k]
  <2>1. k \in 0 .. Len(lines) /\ k # 0
    OBVIOUS
  <2>2. h[k] = IF lines[k] = Junk THEN h[k - 1] ELSE SetTrigger(h[k - 1], lines[k])
    BY <1>8, <2>1, Zenon
  <2>3. f[k] = IF lines[k] = Junk THEN f[k - 1] ELSE SetTrigger(f[k - 1], lines[k])
    BY <1>6
  <2> QED
    BY <1>10, <2>2, <2>3, Zenon
<1>11. h[n] = f[n]
  BY <1>9, <1>10, SameValues, ZenonT(60)
<1> QED
  BY <1>6, <1>8, <1>9, <1>11, Zenon

\* The lines for an entry of a table.
LinesOfTac(lines, a, b, br) ==
  { i \in DOMAIN lines : /\ lines[i] # Junk /\ lines[i].branch = br
                         /\ lines[i].channel = a /\ lines[i].tac = b }

LinesOfQac(lines, a, b) ==
  { i \in DOMAIN lines : lines[i] # Junk /\ lines[i].channel = a /\ lines[i].tac = b }

LinesOfPlace(lines, a) == { i \in DOMAIN lines : lines[i] # Junk /\ lines[i].channel = a }

LinesOfPair(lines, a, b) == { i \in DOMAIN lines : {lines[i].r1, lines[i].r2} = {a, b} }

\* What a whole file does to the tables: the last line for a TAC counts, ...
LEMMA TacsLoaded ==
  ASSUME NEW c \in Config, NEW lines \in Seq(TacLine \cup {Junk}), NEW d,
         d = LoadTDCCalibration(c, lines)
  PROVE  /\ d \in Config
         /\ d.qac = c.qac /\ d.place = c.place
         /\ d.coincidence = c.coincidence /\ d.multihit = c.multihit
         /\ \A a \in Channels, b \in Tacs :
              /\ d.tacT[a][b] = IF LinesOfTac(lines, a, b, 1) = {} THEN c.tacT[a][b]
                                ELSE LastLine(lines, LinesOfTac(lines, a, b, 1)).tacConfig
              /\ d.tacE[a][b] = IF LinesOfTac(lines, a, b, 2) = {} THEN c.tacE[a][b]
                                ELSE LastLine(lines, LinesOfTac(lines, a, b, 2)).tacConfig
<1>1. PICK n \in Nat : n = Len(lines) /\ DOMAIN lines = 1 .. n
  OBVIOUS
<1>2. PICK f \in [0 .. n -> Config] :
           /\ f[0] = c /\ f[n] = LoadTDCCalibration(c, lines)
           /\ \A k \in 1 .. n : f[k] = IF lines[k] = Junk THEN f[k - 1] ELSE SetTac(f[k - 1], lines[k])
  BY <1>1, TacRead
<1>3. \A k \in 1 .. n : f[k - 1] \in Config /\ (lines[k] # Junk => lines[k] \in TacLine)
  BY <1>1
<1>4. d \in Config
  BY <1>1, <1>2
<1>5. /\ d.qac = c.qac /\ d.place = c.place
      /\ d.coincidence = c.coincidence /\ d.multihit = c.multihit
  <2>1. PICK g : g = [k \in 0 .. n |-> [q |-> f[k].qac, p |-> f[k].place, c |-> f[k].coincidence, m |-> f[k].multihit]]
    OBVIOUS
  <2>2. Keeps(g, g, {}, n)
    <3>1. \A k \in 1 .. n : /\ f[k].qac = f[k - 1].qac /\ f[k].place = f[k - 1].place
                            /\ f[k].coincidence = f[k - 1].coincidence
                            /\ f[k].multihit = f[k - 1].multihit
      <4> SUFFICES ASSUME NEW k \in 1 .. n
                   PROVE  /\ f[k].qac = f[k - 1].qac /\ f[k].place = f[k - 1].place
                          /\ f[k].coincidence = f[k - 1].coincidence
                          /\ f[k].multihit = f[k - 1].multihit
        OBVIOUS
      <4>1. CASE lines[k] = Junk
        BY <1>2, <4>1
      <4>2. CASE lines[k] # Junk
        <5>1. PICK e : e = SetTac(f[k - 1], lines[k])
          OBVIOUS
        <5>2. /\ e.qac = f[k - 1].qac /\ e.place = f[k - 1].place
              /\ e.coincidence = f[k - 1].coincidence /\ e.multihit = f[k - 1].multihit
          BY <1>3, <4>2, <5>1, SetTacIs, Zenon
        <5>3. f[k] = e
          BY <1>2, <4>2, <5>1
        <5> QED
          BY <5>2, <5>3, Zenon
      <4> QED
        BY <4>1, <4>2
    <3>2. \A k \in 1 .. n : k - 1 \in 0 .. n /\ k \in 0 .. n
      OBVIOUS
    <3> QED
      BY <2>1, <3>1, <3>2, Zenon DEF Keeps
  <2>3. g[n] = g[0]
    BY <2>2, LastIsKept
  <2>4. 0 \in 0 .. n /\ n \in 0 .. n
    OBVIOUS
  <2>5. /\ g[n].q = d.qac /\ g[n].p = d.place /\ g[n].c = d.coincidence /\ g[n].m = d.multihit
        /\ g[0].q = c.qac /\ g[0].p = c.place /\ g[0].c = c.coincidence /\ g[0].m = c.multihit
    BY <1>2, <2>1, <2>4
  <2> QED
    BY <2>3, <2>5, Zenon
<1>6. ASSUME NEW a \in Channels, NEW b \in Tacs, NEW I,
             I = LinesOfTac(lines, a, b, 1)
      PROVE  d.tacT[a][b] = IF I = {} THEN c.tacT[a][b] ELSE LastLine(lines, I).tacConfig
  <2>1. PICK g : g = [k \in 0 .. n |-> f[k].tacT[a][b]]
    OBVIOUS
  <2>2. PICK v : v = [k \in 1 .. n |-> lines[k].tacConfig]
    OBVIOUS
  <2>3. I \in SUBSET (1 .. n)
    BY <1>1, <1>6 DEF LinesOfTac
  <2>4. Keeps(g, v, I, n)
    <3> SUFFICES ASSUME NEW k \in 1 .. n PROVE g[k] = IF k \in I THEN v[k] ELSE g[k - 1]
      BY DEF Keeps
    <3>1. g[k] = f[k].tacT[a][b] /\ g[k - 1] = f[k - 1].tacT[a][b] /\ v[k] = lines[k].tacConfig
      BY <2>1, <2>2
    <3>2. k \in I <=> /\ lines[k] # Junk /\ lines[k].branch = 1
                      /\ lines[k].channel = a /\ lines[k].tac = b
      BY <1>1, <1>6 DEF LinesOfTac
    <3>3. CASE lines[k] = Junk
      BY <1>2, <3>1, <3>2, <3>3
    <3>4. CASE lines[k] # Junk
      <4>1. PICK e : e = SetTac(f[k - 1], lines[k])
        OBVIOUS
      <4>2. e.tacT[a][b] = IF /\ lines[k].branch = 1 /\ lines[k].channel = a /\ lines[k].tac = b
                           THEN lines[k].tacConfig ELSE f[k - 1].tacT[a][b]
        BY <1>3, <3>4, <4>1, SetTacIs, Zenon
      <4>3. f[k] = e
        BY <1>2, <3>4, <4>1
      <4> QED
        BY <3>1, <3>2, <3>4, <4>2, <4>3, Zenon
    <3> QED
      BY <3>3, <3>4
  <2>5. g[n] = IF I = {} THEN g[0] ELSE v[Max(I)]
    BY <2>3, <2>4, LastIsKept, Zenon
  <2>6. I # {} => Max(I) \in 1 .. n
    BY <2>3, MaxIs
  <2>7. 0 \in 0 .. n /\ n \in 0 .. n
    OBVIOUS
  <2>8. g[n] = d.tacT[a][b] /\ g[0] = c.tacT[a][b]
    BY <1>2, <2>1, <2>7
  <2> QED
    BY <2>2, <2>5, <2>6, <2>8, Zenon DEF LastLine
<1>7. ASSUME NEW a \in Channels, NEW b \in Tacs, NEW I,
             I = LinesOfTac(lines, a, b, 2)
      PROVE  d.tacE[a][b] = IF I = {} THEN c.tacE[a][b] ELSE LastLine(lines, I).tacConfig
  <2>1. PICK g : g = [k \in 0 .. n |-> f[k].tacE[a][b]]
    OBVIOUS
  <2>2. PICK v : v = [k \in 1 .. n |-> lines[k].tacConfig]
    OBVIOUS
  <2>3. I \in SUBSET (1 .. n)
    BY <1>1, <1>7 DEF LinesOfTac
  <2>4. Keeps(g, v, I, n)
    <3> SUFFICES ASSUME NEW k \in 1 .. n PROVE g[k] = IF k \in I THEN v[k] ELSE g[k - 1]
      BY DEF Keeps
    <3>1. g[k] = f[k].tacE[a][b] /\ g[k - 1] = f[k - 1].tacE[a][b] /\ v[k] = lines[k].tacConfig
      BY <2>1, <2>2
    <3>2. k \in I <=> /\ lines[k] # Junk /\ lines[k].branch = 2
                      /\ lines[k].channel = a /\ lines[k].tac = b
      BY <1>1, <1>7 DEF LinesOfTac
    <3>3. CASE lines[k] = Junk
      BY <1>2, <3>1, <3>2, <3>3
    <3>4. CASE lines[k] # Junk
      <4>1. PICK e : e = SetTac(f[k - 1], lines[k])
        OBVIOUS
      <4>2. e.tacE[a][b] = IF /\ lines[k].branch = 2 /\ lines[k].channel = a /\ lines[k].tac = b
                           THEN lines[k].tacConfig ELSE f[k - 1].tacE[a][b]
        BY <1>3, <3>4, <4>1, SetTacIs, Zenon
      <4>3. f[k] = e
        BY <1>2, <3>4, <4>1
      <4> QED
        BY <3>1, <3>2, <3>4, <4>2, <4>3, Zenon
    <3> QED
      BY <3>3, <3>4
  <2>5. g[n] = IF I = {} THEN g[0] ELSE v[Max(I)]
    BY <2>3, <2>4, LastIsKept, Zenon
  <2>6. I # {} => Max(I) \in 1 .. n
    BY <2>3, MaxIs
  <2>7. 0 \in 0 .. n /\ n \in 0 .. n
    OBVIOUS
  <2>8. g[n] = d.tacE[a][b] /\ g[0] = c.tacE[a][b]
    BY <1>2, <2>1, <2>7
  <2> QED
    BY <2>2, <2>5, <2>6, <2>8, Zenon DEF LastLine
<1> QED
  BY <1>4, <1>5, <1>6, <1>7, SMTT(30)

\* ... and for its charge, ...
LEMMA QacsLoaded ==
  ASSUME NEW c \in Config, NEW lines \in Seq(QacLine \cup {Junk}), NEW d,
         d = LoadQDCCalibration(c, lines)
  PROVE  /\ d \in Config
         /\ d.tacT = c.tacT /\ d.tacE = c.tacE /\ d.place = c.place /\ d.coincidence = c.coincidence /\ d.multihit = c.multihit
         /\ \A a \in Channels, b \in Tacs :
              d.qac[a][b] = IF LinesOfQac(lines, a, b) = {} THEN c.qac[a][b] ELSE LastLine(lines, LinesOfQac(lines, a, b)).qacConfig
<1>1. PICK n \in Nat : n = Len(lines) /\ DOMAIN lines = 1 .. n
  OBVIOUS
<1>2. PICK f \in [0 .. n -> Config] :
           /\ f[0] = c /\ f[n] = LoadQDCCalibration(c, lines)
           /\ \A k \in 1 .. n : f[k] = IF lines[k] = Junk THEN f[k - 1] ELSE SetQac(f[k - 1], lines[k])
  BY <1>1, QacRead
<1>3. \A k \in 1 .. n : f[k - 1] \in Config /\ (lines[k] # Junk => lines[k] \in QacLine)
  BY <1>1
<1>4. d \in Config
  BY <1>1, <1>2
<1>5. d.tacT = c.tacT /\ d.tacE = c.tacE /\ d.place = c.place /\ d.coincidence = c.coincidence /\ d.multihit = c.multihit
  <2>1. PICK g : g = [k \in 0 .. n |-> [q |-> f[k].tacT, p |-> f[k].tacE, c |-> f[k].place, m |-> f[k].coincidence, t |-> f[k].multihit]]
    OBVIOUS
  <2>2. Keeps(g, g, {}, n)
    <3>1. ASSUME NEW k \in 1 .. n
          PROVE  f[k].tacT = f[k - 1].tacT /\ f[k].tacE = f[k - 1].tacE /\ f[k].place = f[k - 1].place /\ f[k].coincidence = f[k - 1].coincidence /\ f[k].multihit = f[k - 1].multihit
      <4>1. CASE lines[k] = Junk
        BY <1>2, <4>1
      <4>2. CASE lines[k] # Junk
        <5>1. PICK e : e = SetQac(f[k - 1], lines[k])
          OBVIOUS
        <5>2. e.tacT = f[k - 1].tacT /\ e.tacE = f[k - 1].tacE /\ e.place = f[k - 1].place /\ e.coincidence = f[k - 1].coincidence /\ e.multihit = f[k - 1].multihit
          BY <1>3, <4>2, <5>1, SetQacIs, Zenon
        <5>3. f[k] = e
          BY <1>2, <4>2, <5>1
        <5> QED
          BY <5>2, <5>3, Zenon
      <4> QED
        BY <4>1, <4>2
    <3>2. \A k \in 1 .. n : k - 1 \in 0 .. n /\ k \in 0 .. n
      OBVIOUS
    <3> QED
      BY <2>1, <3>1, <3>2, Zenon DEF Keeps
  <2>3. g[n] = g[0]
    BY <2>2, LastIsKept
  <2>4. 0 \in 0 .. n /\ n \in 0 .. n
    OBVIOUS
  <2>5. /\ g[n].q = d.tacT /\ g[n].p = d.tacE /\ g[n].c = d.place /\ g[n].m = d.coincidence /\ g[n].t = d.multihit
        /\ g[0].q = c.tacT /\ g[0].p = c.tacE /\ g[0].c = c.place /\ g[0].m = c.coincidence /\ g[0].t = c.multihit
    BY <1>2, <2>1, <2>4
  <2> QED
    BY <2>3, <2>5, Zenon
<1>6. ASSUME NEW a \in Channels, NEW b \in Tacs, NEW I,
             I = LinesOfQac(lines, a, b)
      PROVE  d.qac[a][b] = IF I = {} THEN c.qac[a][b] ELSE LastLine(lines, I).qacConfig
  <2>1. PICK g : g = [k \in 0 .. n |-> f[k].qac[a][b]]
    OBVIOUS
  <2>2. PICK v : v = [k \in 1 .. n |-> lines[k].qacConfig]
    OBVIOUS
  <2>3. I \in SUBSET (1 .. n)
    BY <1>1, <1>6 DEF LinesOfQac
  <2>4. Keeps(g, v, I, n)
    <3> SUFFICES ASSUME NEW k \in 1 .. n PROVE g[k] = IF k \in I THEN v[k] ELSE g[k - 1]
      BY DEF Keeps
    <3>1. g[k] = f[k].qac[a][b] /\ g[k - 1] = f[k - 1].qac[a][b] /\ v[k] = lines[k].qacConfig
      BY <2>1, <2>2
    <3>2. k \in I <=> lines[k] # Junk /\ lines[k].channel = a /\ lines[k].tac = b
      BY <1>1, <1>6 DEF LinesOfQac
    <3>3. CASE lines[k] = Junk
      BY <1>2, <3>1, <3>2, <3>3
    <3>4. CASE lines[k] # Junk
      <4>1. PICK e : e = SetQac(f[k - 1], lines[k])
        OBVIOUS
      <4>2. e.qac[a][b] = IF lines[k].channel = a /\ lines[k].tac = b
                      THEN lines[k].qacConfig ELSE f[k - 1].qac[a][b]
        BY <1>3, <3>4, <4>1, SetQacIs, Zenon
      <4>3. f[k] = e
        BY <1>2, <3>4, <4>1
      <4> QED
        BY <3>1, <3>2, <3>4, <4>2, <4>3, Zenon
    <3> QED
      BY <3>3, <3>4
  <2>5. g[n] = IF I = {} THEN g[0] ELSE v[Max(I)]
    BY <2>3, <2>4, LastIsKept, Zenon
  <2>6. I # {} => Max(I) \in 1 .. n
    BY <2>3, MaxIs
  <2>7. 0 \in 0 .. n /\ n \in 0 .. n
    OBVIOUS
  <2>8. g[n] = d.qac[a][b] /\ g[0] = c.qac[a][b]
    BY <1>2, <2>1, <2>7
  <2> QED
    BY <2>2, <2>5, <2>6, <2>8, Zenon DEF LastLine
<1> QED
  BY <1>4, <1>5, <1>6, Zenon

\* ... for a channel's place ...
LEMMA PlacesLoaded ==
  ASSUME NEW c \in Config, NEW lines \in Seq(PlaceLine \cup {Junk}), NEW d,
         d = LoadChannelMap(c, lines)
  PROVE  /\ d \in Config
         /\ d.tacT = c.tacT /\ d.tacE = c.tacE /\ d.qac = c.qac /\ d.coincidence = c.coincidence /\ d.multihit = c.multihit
         /\ \A a \in Channels :
              d.place[a] = IF LinesOfPlace(lines, a) = {} THEN c.place[a] ELSE LastLine(lines, LinesOfPlace(lines, a)).place
<1>1. PICK n \in Nat : n = Len(lines) /\ DOMAIN lines = 1 .. n
  OBVIOUS
<1>2. PICK f \in [0 .. n -> Config] :
           /\ f[0] = c /\ f[n] = LoadChannelMap(c, lines)
           /\ \A k \in 1 .. n : f[k] = IF lines[k] = Junk THEN f[k - 1] ELSE SetPlace(f[k - 1], lines[k])
  BY <1>1, PlaceRead
<1>3. \A k \in 1 .. n : f[k - 1] \in Config /\ (lines[k] # Junk => lines[k] \in PlaceLine)
  BY <1>1
<1>4. d \in Config
  BY <1>1, <1>2
<1>5. d.tacT = c.tacT /\ d.tacE = c.tacE /\ d.qac = c.qac /\ d.coincidence = c.coincidence /\ d.multihit = c.multihit
  <2>1. PICK g : g = [k \in 0 .. n |-> [q |-> f[k].tacT, p |-> f[k].tacE, c |-> f[k].qac, m |-> f[k].coincidence, t |-> f[k].multihit]]
    OBVIOUS
  <2>2. Keeps(g, g, {}, n)
    <3>1. ASSUME NEW k \in 1 .. n
          PROVE  f[k].tacT = f[k - 1].tacT /\ f[k].tacE = f[k - 1].tacE /\ f[k].qac = f[k - 1].qac /\ f[k].coincidence = f[k - 1].coincidence /\ f[k].multihit = f[k - 1].multihit
      <4>1. CASE lines[k] = Junk
        BY <1>2, <4>1
      <4>2. CASE lines[k] # Junk
        <5>1. PICK e : e = SetPlace(f[k - 1], lines[k])
          OBVIOUS
        <5>2. e.tacT = f[k - 1].tacT /\ e.tacE = f[k - 1].tacE /\ e.qac = f[k - 1].qac /\ e.coincidence = f[k - 1].coincidence /\ e.multihit = f[k - 1].multihit
          BY <1>3, <4>2, <5>1, SetPlaceIs, Zenon
        <5>3. f[k] = e
          BY <1>2, <4>2, <5>1
        <5> QED
          BY <5>2, <5>3, Zenon
      <4> QED
        BY <4>1, <4>2
    <3>2. \A k \in 1 .. n : k - 1 \in 0 .. n /\ k \in 0 .. n
      OBVIOUS
    <3> QED
      BY <2>1, <3>1, <3>2, Zenon DEF Keeps
  <2>3. g[n] = g[0]
    BY <2>2, LastIsKept
  <2>4. 0 \in 0 .. n /\ n \in 0 .. n
    OBVIOUS
  <2>5. /\ g[n].q = d.tacT /\ g[n].p = d.tacE /\ g[n].c = d.qac /\ g[n].m = d.coincidence /\ g[n].t = d.multihit
        /\ g[0].q = c.tacT /\ g[0].p = c.tacE /\ g[0].c = c.qac /\ g[0].m = c.coincidence /\ g[0].t = c.multihit
    BY <1>2, <2>1, <2>4
  <2> QED
    BY <2>3, <2>5, Zenon
<1>6. ASSUME NEW a \in Channels, NEW I,
             I = LinesOfPlace(lines, a)
      PROVE  d.place[a] = IF I = {} THEN c.place[a] ELSE LastLine(lines, I).place
  <2>1. PICK g : g = [k \in 0 .. n |-> f[k].place[a]]
    OBVIOUS
  <2>2. PICK v : v = [k \in 1 .. n |-> lines[k].place]
    OBVIOUS
  <2>3. I \in SUBSET (1 .. n)
    BY <1>1, <1>6 DEF LinesOfPlace
  <2>4. Keeps(g, v, I, n)
    <3> SUFFICES ASSUME NEW k \in 1 .. n PROVE g[k] = IF k \in I THEN v[k] ELSE g[k - 1]
      BY DEF Keeps
    <3>1. g[k] = f[k].place[a] /\ g[k - 1] = f[k - 1].place[a] /\ v[k] = lines[k].place
      BY <2>1, <2>2
    <3>2. k \in I <=> lines[k] # Junk /\ lines[k].channel = a
      BY <1>1, <1>6 DEF LinesOfPlace
    <3>3. CASE lines[k] = Junk
      BY <1>2, <3>1, <3>2, <3>3
    <3>4. CASE lines[k] # Junk
      <4>1. PICK e : e = SetPlace(f[k - 1], lines[k])
        OBVIOUS
      <4>2. e.place[a] = IF lines[k].channel = a
                      THEN lines[k].place ELSE f[k - 1].place[a]
        BY <1>3, <3>4, <4>1, SetPlaceIs, Zenon
      <4>3. f[k] = e
        BY <1>2, <3>4, <4>1
      <4> QED
        BY <3>1, <3>2, <3>4, <4>2, <4>3, Zenon
    <3> QED
      BY <3>3, <3>4
  <2>5. g[n] = IF I = {} THEN g[0] ELSE v[Max(I)]
    BY <2>3, <2>4, LastIsKept, Zenon
  <2>6. I # {} => Max(I) \in 1 .. n
    BY <2>3, MaxIs
  <2>7. 0 \in 0 .. n /\ n \in 0 .. n
    OBVIOUS
  <2>8. g[n] = d.place[a] /\ g[0] = c.place[a]
    BY <1>2, <2>1, <2>7
  <2> QED
    BY <2>2, <2>5, <2>6, <2>8, Zenon DEF LastLine
<1> QED
  BY <1>4, <1>5, <1>6, Zenon

\* ... and for a pair of regions.
LEMMA TriggersLoaded ==
  ASSUME NEW c \in Config, NEW lines \in Seq(TriggerLine \cup {Junk}), NEW d,
         d = LoadTriggerMap(c, lines), \A i \in DOMAIN lines : lines[i] # Junk
  PROVE  /\ d \in Config
         /\ d.tacT = c.tacT /\ d.tacE = c.tacE /\ d.qac = c.qac /\ d.place = c.place
         /\ \A a \in Regions, b \in Regions :
              <<a, b>> \in d.coincidence <=>
                    IF LinesOfPair(lines, a, b) = {} THEN <<a, b>> \in c.coincidence ELSE LastLine(lines, LinesOfPair(lines, a, b)).kind = "C"
<1>1. PICK n \in Nat : n = Len(lines) /\ DOMAIN lines = 1 .. n
  OBVIOUS
<1>2. PICK f \in [0 .. n -> Config] :
           /\ f[0] = c /\ f[n] = LoadTriggerMap(c, lines)
           /\ \A k \in 1 .. n : f[k] = IF lines[k] = Junk THEN f[k - 1] ELSE SetTrigger(f[k - 1], lines[k])
  BY <1>1, TriggerRead
<1>3. \A k \in 1 .. n : f[k - 1] \in Config /\ (lines[k] # Junk => lines[k] \in TriggerLine)
  BY <1>1
<1>4. d \in Config
  BY <1>1, <1>2
<1>5. d.tacT = c.tacT /\ d.tacE = c.tacE /\ d.qac = c.qac /\ d.place = c.place
  <2>1. PICK g : g = [k \in 0 .. n |-> [q |-> f[k].tacT, p |-> f[k].tacE, c |-> f[k].qac, m |-> f[k].place]]
    OBVIOUS
  <2>2. Keeps(g, g, {}, n)
    <3>1. ASSUME NEW k \in 1 .. n
          PROVE  f[k].tacT = f[k - 1].tacT /\ f[k].tacE = f[k - 1].tacE /\ f[k].qac = f[k - 1].qac /\ f[k].place = f[k - 1].place
      <4>1. CASE lines[k] = Junk
        BY <1>2, <4>1
      <4>2. CASE lines[k] # Junk
        <5>1. PICK e : e = SetTrigger(f[k - 1], lines[k])
          OBVIOUS
        <5>2. e.tacT = f[k - 1].tacT /\ e.tacE = f[k - 1].tacE /\ e.qac = f[k - 1].qac /\ e.place = f[k - 1].place
          BY <1>3, <4>2, <5>1, SetTriggerIs, Zenon
        <5>3. f[k] = e
          BY <1>2, <4>2, <5>1
        <5> QED
          BY <5>2, <5>3, Zenon
      <4> QED
        BY <4>1, <4>2
    <3>2. \A k \in 1 .. n : k - 1 \in 0 .. n /\ k \in 0 .. n
      OBVIOUS
    <3> QED
      BY <2>1, <3>1, <3>2, Zenon DEF Keeps
  <2>3. g[n] = g[0]
    BY <2>2, LastIsKept
  <2>4. 0 \in 0 .. n /\ n \in 0 .. n
    OBVIOUS
  <2>5. /\ g[n].q = d.tacT /\ g[n].p = d.tacE /\ g[n].c = d.qac /\ g[n].m = d.place
        /\ g[0].q = c.tacT /\ g[0].p = c.tacE /\ g[0].c = c.qac /\ g[0].m = c.place
    BY <1>2, <2>1, <2>4
  <2> QED
    BY <2>3, <2>5, Zenon
<1>6. ASSUME NEW a \in Regions, NEW b \in Regions, NEW I,
             I = LinesOfPair(lines, a, b)
      PROVE  <<a, b>> \in d.coincidence <=>
               IF I = {} THEN <<a, b>> \in c.coincidence ELSE LastLine(lines, I).kind = "C"
  <2>1. PICK g : g = [k \in 0 .. n |-> IF <<a, b>> \in f[k].coincidence THEN 1 ELSE 0]
    OBVIOUS
  <2>2. PICK v : v = [k \in 1 .. n |-> IF lines[k].kind = "C" THEN 1 ELSE 0]
    OBVIOUS
  <2>3. I \in SUBSET (1 .. n)
    BY <1>1, <1>6 DEF LinesOfPair
  <2>4. Keeps(g, v, I, n)
    <3> SUFFICES ASSUME NEW k \in 1 .. n PROVE g[k] = IF k \in I THEN v[k] ELSE g[k - 1]
      BY DEF Keeps
    <3>1. /\ g[k] = IF <<a, b>> \in f[k].coincidence THEN 1 ELSE 0
          /\ g[k - 1] = IF <<a, b>> \in f[k - 1].coincidence THEN 1 ELSE 0
          /\ v[k] = IF lines[k].kind = "C" THEN 1 ELSE 0
      BY <2>1, <2>2
    <3>2. k \in I <=> {lines[k].r1, lines[k].r2} = {a, b}
      BY <1>1, <1>6 DEF LinesOfPair
    <3>3. lines[k] # Junk
      BY <1>1
    <3>4. PICK e : e = SetTrigger(f[k - 1], lines[k])
      OBVIOUS
    <3>5. <<a, b>> \in e.coincidence <=>
            IF {lines[k].r1, lines[k].r2} = {a, b}
            THEN lines[k].kind = "C" ELSE <<a, b>> \in f[k - 1].coincidence
      BY <1>3, <3>3, <3>4, SetTriggerIs, Zenon
    <3>6. f[k] = e
      BY <1>2, <3>3, <3>4
    <3> QED
      BY <3>1, <3>2, <3>5, <3>6, Zenon
  <2>5. g[n] = IF I = {} THEN g[0] ELSE v[Max(I)]
    BY <2>3, <2>4, LastIsKept, Zenon
  <2>6. I # {} => Max(I) \in 1 .. n
    BY <2>3, MaxIs
  <2>7. I # {} => v[Max(I)] = IF LastLine(lines, I).kind = "C" THEN 1 ELSE 0
    BY <2>2, <2>6, Zenon DEF LastLine
  <2>8. 0 \in 0 .. n /\ n \in 0 .. n
    OBVIOUS
  <2>9. /\ g[n] = IF <<a, b>> \in d.coincidence THEN 1 ELSE 0
        /\ g[0] = IF <<a, b>> \in c.coincidence THEN 1 ELSE 0
    BY <1>2, <2>1, <2>8
  <2>10. 1 # 0
    OBVIOUS
  <2>11. CASE I = {}
    BY <2>5, <2>9, <2>10, <2>11, Zenon
  <2>12. CASE I # {}
    BY <2>5, <2>7, <2>9, <2>10, <2>12, Zenon
  <2> QED
    BY <2>11, <2>12
<1> QED
  BY <1>4, <1>5, <1>6, Zenon

\* What a channel begins with.
LEMMA NullIs ==
  ASSUME NEW n \in Noise, NEW c, c = NullConfig(n[1], n[2])
  PROVE  /\ c \in Config
         /\ \A a \in Channels, b \in Tacs :
              /\ c.tacT[a][b] = IF b < 4 THEN NoTac ELSE n[1]
              /\ c.tacE[a][b] = IF b < 4 THEN NoTac ELSE n[1]
              /\ c.qac[a][b] = IF b < 4 THEN NoQac ELSE n[2]
         /\ \A a \in Channels : c.place[a] = NoPlace
         /\ c.coincidence = {}
<1>1. n[1] \in TacEntry /\ n[2] \in QacEntry /\ NoTac \in TacEntry /\ NoQac \in QacEntry
  <2>1. NoTac \in TacEntry /\ NoQac \in QacEntry
    BY DEF TacEntry, QacEntry, NoTac, NoQac
  <2>2. [NoTac EXCEPT !.a1 = 1, !.a2 = 1] \in TacEntry
    <3>1. 1 \in Int
      OBVIOUS
    <3>2. ASSUME NEW y \in TacEntry, NEW i \in Int PROVE [y EXCEPT !.a1 = i, !.a2 = i] \in TacEntry
      BY DEF TacEntry
    <3> QED
      BY <2>1, <3>1, <3>2
  <2>3. [NoQac EXCEPT !.p1 = 1] \in QacEntry
    <3>1. 1 \in Int
      OBVIOUS
    <3>2. ASSUME NEW y \in QacEntry, NEW i \in Int PROVE [y EXCEPT !.p1 = i] \in QacEntry
      BY DEF QacEntry
    <3> QED
      BY <2>1, <3>1, <3>2
  <2>4. \/ n[1] = NoTac /\ n[2] = NoQac
        \/ n[1] = [NoTac EXCEPT !.a1 = 1, !.a2 = 1] /\ n[2] = [NoQac EXCEPT !.p1 = 1]
    BY DEF Noise
  <2> QED
    BY <2>1, <2>2, <2>3, <2>4
<1>2. NoPlace \in PlaceEntry
  BY DEF NoPlace, PlaceEntry
<1>3. PICK p : p = [t \in Tacs |-> IF t < 4 THEN NoTac ELSE n[1]]
  OBVIOUS
<1>4. PICK q : q = [t \in Tacs |-> IF t < 4 THEN NoQac ELSE n[2]]
  OBVIOUS
<1>5. p \in [Tacs -> TacEntry] /\ q \in [Tacs -> QacEntry]
  BY <1>1, <1>3, <1>4, Zenon
<1>6. c = [ tacT |-> [a \in Channels |-> p], tacE |-> [a \in Channels |-> p],
            qac |-> [a \in Channels |-> q], place |-> [a \in Channels |-> NoPlace],
            coincidence |-> {}, multihit |-> {} ]
  BY <1>3, <1>4, Zenon DEF NullConfig
<1>7. /\ [a \in Channels |-> p] \in TacTable /\ [a \in Channels |-> q] \in QacTable
      /\ [a \in Channels |-> NoPlace] \in PlaceTable /\ {} \in TriggerTable
  BY <1>2, <1>5, Zenon DEF TacTable, QacTable, PlaceTable, TriggerTable
<1>8. c \in Config
  BY <1>6, <1>7 DEF Config
<1>9. /\ c.tacT = [a \in Channels |-> p] /\ c.tacE = [a \in Channels |-> p]
      /\ c.qac = [a \in Channels |-> q] /\ c.place = [a \in Channels |-> NoPlace]
      /\ c.coincidence = {}
  BY <1>6
<1>10. \A a \in Channels, b \in Tacs :
         /\ c.tacT[a][b] = p[b] /\ c.tacE[a][b] = p[b] /\ c.qac[a][b] = q[b]
         /\ c.place[a] = NoPlace
  BY <1>9, Zenon
<1>11. \A b \in Tacs : /\ p[b] = IF b < 4 THEN NoTac ELSE n[1]
                       /\ q[b] = IF b < 4 THEN NoQac ELSE n[2]
  BY <1>3, <1>4, Zenon
<1>12. \A a \in Channels : c.place[a] = NoPlace
  BY <1>9, Zenon
<1>13. \A a \in Channels, b \in Tacs :
         /\ c.tacT[a][b] = IF b < 4 THEN NoTac ELSE n[1]
         /\ c.tacE[a][b] = IF b < 4 THEN NoTac ELSE n[1]
         /\ c.qac[a][b] = IF b < 4 THEN NoQac ELSE n[2]
  BY <1>10, <1>11
<1> QED
  BY <1>8, <1>9, <1>12, <1>13, Zenon

\* What the programs know when a configuration has been loaded.
Loaded(c, n) ==
  /\ c \in Config
  /\ \A a \in Channels, b \in Tacs :
       /\ c.tacT[a][b] = IF TacLines(a, b, 1) = {} THEN IF b < 4 THEN NoTac ELSE n[1]
                         ELSE LastLine(files.tdc, TacLines(a, b, 1)).tacConfig
       /\ c.tacE[a][b] = IF TacLines(a, b, 2) = {} THEN IF b < 4 THEN NoTac ELSE n[1]
                         ELSE LastLine(files.tdc, TacLines(a, b, 2)).tacConfig
       /\ c.qac[a][b] = IF QacLines(a, b) = {} THEN IF b < 4 THEN NoQac ELSE n[2]
                        ELSE LastLine(files.qdc, QacLines(a, b)).qacConfig
  /\ \A a \in Channels :
       c.place[a] = IF PlaceLines(a) = {} THEN NoPlace
                    ELSE LastLine(files.channels, PlaceLines(a)).place
  /\ \A a \in Regions, b \in Regions : <<a, b>> \in c.coincidence <=> Kind(a, b) = "C"

\* What is in the files.
LEMMA FilesAre ==
  ASSUME files \in Configurations, CanLoad(files)
  PROVE  /\ files.tdc \in Seq(TacLine \cup {Junk}) /\ files.qdc \in Seq(QacLine \cup {Junk})
         /\ files.channels \in Seq(PlaceLine \cup {Junk})
         /\ files.triggers \in Seq(TriggerLine \cup {Junk})
         /\ files.triggers \in Seq(TriggerLine)
         /\ \A i \in DOMAIN files.triggers : files.triggers[i] # Junk
<1>1. FilesOK(files)
  BY ConversionAssumption, Zenon
<1>2. /\ files.tdc \in Seq(TacLine \cup {Junk}) /\ files.qdc \in Seq(QacLine \cup {Junk})
      /\ files.channels \in Seq(PlaceLine \cup {Junk})
      /\ files.triggers \in Seq(TriggerLine)
  BY <1>1, Zenon DEF FilesOK, TacLine, QacLine, PlaceLine, TriggerLine, TacEntry, QacEntry
<1>3. files.triggers \in Seq(TriggerLine \cup {Junk})
  <2> DEFINE T == files.triggers
  <2>1. T \in Seq(TriggerLine)
    BY <1>2
  <2> HIDE DEF T
  <2>2. T \in Seq(TriggerLine \cup {Junk})
    BY <2>1
  <2> QED
    BY <2>2 DEF T
<1>4. \A i \in DOMAIN files.triggers : files.triggers[i] # Junk
  BY Zenon DEF CanLoad, TriggerLineOK
<1> QED
  BY <1>2, <1>3, <1>4, Zenon

\* SystemConfig::fromFile has the last line of the files for each entry, and what
\* nullChannelConfig had where there is none.
LEMMA ConfigurationLoads ==
  ASSUME files \in Configurations, CanLoad(files), NEW n \in Noise
  PROVE  Loaded(FromFile(files, NullConfig(n[1], n[2])), n)
<1>1. PICK c0 : c0 = NullConfig(n[1], n[2])
  OBVIOUS
<1>2. PICK c1 : c1 = LoadTDCCalibration(c0, files.tdc)
  OBVIOUS
<1>3. PICK c2 : c2 = LoadQDCCalibration(c1, files.qdc)
  OBVIOUS
<1>4. PICK c3 : c3 = LoadChannelMap(c2, files.channels)
  OBVIOUS
<1>5. PICK c : c = LoadTriggerMap(c3, files.triggers)
  OBVIOUS
<1>6. /\ \A a \in Channels, b \in Tacs :
           /\ TacLines(a, b, 1) = LinesOfTac(files.tdc, a, b, 1)
           /\ TacLines(a, b, 2) = LinesOfTac(files.tdc, a, b, 2)
           /\ QacLines(a, b) = LinesOfQac(files.qdc, a, b)
      /\ \A a \in Channels : PlaceLines(a) = LinesOfPlace(files.channels, a)
      /\ \A a \in Regions, b \in Regions : TriggerLines(a, b) = LinesOfPair(files.triggers, a, b)
  BY Zenon DEF TacLines, LinesOfTac, QacLines, LinesOfQac, PlaceLines, LinesOfPlace,
               TriggerLines, LinesOfPair
<1>7. c = FromFile(files, NullConfig(n[1], n[2]))
  BY <1>1, <1>2, <1>3, <1>4, <1>5, Zenon DEF FromFile
<1>8. /\ c0 \in Config
      /\ \A a \in Channels, b \in Tacs :
           /\ c0.tacT[a][b] = IF b < 4 THEN NoTac ELSE n[1]
           /\ c0.tacE[a][b] = IF b < 4 THEN NoTac ELSE n[1]
           /\ c0.qac[a][b] = IF b < 4 THEN NoQac ELSE n[2]
      /\ \A a \in Channels : c0.place[a] = NoPlace
      /\ c0.coincidence = {}
  BY <1>1, NullIs
<1>9. /\ c1 \in Config /\ c1.qac = c0.qac /\ c1.place = c0.place
      /\ c1.coincidence = c0.coincidence
      /\ \A a \in Channels, b \in Tacs :
           /\ c1.tacT[a][b] = IF TacLines(a, b, 1) = {} THEN c0.tacT[a][b]
                              ELSE LastLine(files.tdc, TacLines(a, b, 1)).tacConfig
           /\ c1.tacE[a][b] = IF TacLines(a, b, 2) = {} THEN c0.tacE[a][b]
                              ELSE LastLine(files.tdc, TacLines(a, b, 2)).tacConfig
  <2>1. c0 \in Config /\ files.tdc \in Seq(TacLine \cup {Junk})
    BY <1>8, FilesAre
  <2>2. /\ c1 \in Config /\ c1.qac = c0.qac /\ c1.place = c0.place
        /\ c1.coincidence = c0.coincidence
        /\ \A a \in Channels, b \in Tacs :
             /\ c1.tacT[a][b] = IF LinesOfTac(files.tdc, a, b, 1) = {} THEN c0.tacT[a][b]
                                ELSE LastLine(files.tdc, LinesOfTac(files.tdc, a, b, 1)).tacConfig
             /\ c1.tacE[a][b] = IF LinesOfTac(files.tdc, a, b, 2) = {} THEN c0.tacE[a][b]
                                ELSE LastLine(files.tdc, LinesOfTac(files.tdc, a, b, 2)).tacConfig
    BY <1>2, <2>1, TacsLoaded
  <2> QED
    BY <1>6, <2>2
<1>10. /\ c2 \in Config /\ c2.tacT = c1.tacT /\ c2.tacE = c1.tacE /\ c2.place = c1.place
      /\ c2.coincidence = c1.coincidence
      /\ \A a \in Channels, b \in Tacs :
           c2.qac[a][b] = IF QacLines(a, b) = {} THEN c1.qac[a][b]
                          ELSE LastLine(files.qdc, QacLines(a, b)).qacConfig
  <2>1. c1 \in Config /\ files.qdc \in Seq(QacLine \cup {Junk})
    BY <1>9, FilesAre
  <2>2. /\ c2 \in Config /\ c2.tacT = c1.tacT /\ c2.tacE = c1.tacE /\ c2.place = c1.place
        /\ c2.coincidence = c1.coincidence
        /\ \A a \in Channels, b \in Tacs :
             c2.qac[a][b] = IF LinesOfQac(files.qdc, a, b) = {} THEN c1.qac[a][b]
                            ELSE LastLine(files.qdc, LinesOfQac(files.qdc, a, b)).qacConfig
    BY <1>3, <2>1, QacsLoaded
  <2> QED
    BY <1>6, <2>2
<1>11. /\ c3 \in Config /\ c3.tacT = c2.tacT /\ c3.tacE = c2.tacE /\ c3.qac = c2.qac
       /\ c3.coincidence = c2.coincidence
       /\ \A a \in Channels :
            c3.place[a] = IF PlaceLines(a) = {} THEN c2.place[a]
                          ELSE LastLine(files.channels, PlaceLines(a)).place
  <2>1. c2 \in Config /\ files.channels \in Seq(PlaceLine \cup {Junk})
    BY <1>10, FilesAre
  <2>2. /\ c3 \in Config /\ c3.tacT = c2.tacT /\ c3.tacE = c2.tacE /\ c3.qac = c2.qac
        /\ c3.coincidence = c2.coincidence
        /\ \A a \in Channels :
             c3.place[a] = IF LinesOfPlace(files.channels, a) = {} THEN c2.place[a]
                           ELSE LastLine(files.channels, LinesOfPlace(files.channels, a)).place
    BY <1>4, <2>1, PlacesLoaded
  <2> QED
    BY <1>6, <2>2
<1>12. /\ c \in Config /\ c.tacT = c3.tacT /\ c.tacE = c3.tacE /\ c.qac = c3.qac
       /\ c.place = c3.place
       /\ \A a \in Regions, b \in Regions :
            <<a, b>> \in c.coincidence <=>
              IF TriggerLines(a, b) = {} THEN <<a, b>> \in c3.coincidence
              ELSE LastLine(files.triggers, TriggerLines(a, b)).kind = "C"
  <2>1. /\ c3 \in Config /\ files.triggers \in Seq(TriggerLine \cup {Junk})
        /\ \A i \in DOMAIN files.triggers : files.triggers[i] # Junk
    BY <1>11, FilesAre
  <2>2. /\ c \in Config /\ c.tacT = c3.tacT /\ c.tacE = c3.tacE /\ c.qac = c3.qac
        /\ c.place = c3.place
        /\ \A a \in Regions, b \in Regions :
             <<a, b>> \in c.coincidence <=>
               IF LinesOfPair(files.triggers, a, b) = {} THEN <<a, b>> \in c3.coincidence
               ELSE LastLine(files.triggers, LinesOfPair(files.triggers, a, b)).kind = "C"
    BY <1>5, <2>1, TriggersLoaded
  <2> QED
    BY <1>6, <2>2
<1>13. c3.coincidence = {}
  BY <1>8, <1>9, <1>10, <1>11, Zenon
<1>14. \A a \in Regions, b \in Regions : <<a, b>> \in c.coincidence <=> Kind(a, b) = "C"
  BY <1>12, <1>13, "none" # "C", Zenon DEF Kind
<1>15. ASSUME NEW a \in Channels
       PROVE  c.place[a] = IF PlaceLines(a) = {} THEN NoPlace
                           ELSE LastLine(files.channels, PlaceLines(a)).place
  <2>1. c.place[a] = c3.place[a] /\ c2.place[a] = NoPlace
    BY <1>8, <1>9, <1>10, <1>12, Zenon
  <2> QED
    BY <1>11, <2>1
<1>16. ASSUME NEW a \in Channels, NEW b \in Tacs
       PROVE  /\ c.tacT[a][b] = IF TacLines(a, b, 1) = {} THEN IF b < 4 THEN NoTac ELSE n[1]
                                ELSE LastLine(files.tdc, TacLines(a, b, 1)).tacConfig
              /\ c.tacE[a][b] = IF TacLines(a, b, 2) = {} THEN IF b < 4 THEN NoTac ELSE n[1]
                                ELSE LastLine(files.tdc, TacLines(a, b, 2)).tacConfig
              /\ c.qac[a][b] = IF QacLines(a, b) = {} THEN IF b < 4 THEN NoQac ELSE n[2]
                               ELSE LastLine(files.qdc, QacLines(a, b)).qacConfig
  <2>1. /\ c.tacT[a][b] = c1.tacT[a][b] /\ c.tacE[a][b] = c1.tacE[a][b]
        /\ c.qac[a][b] = c2.qac[a][b] /\ c1.qac[a][b] = c0.qac[a][b]
    BY <1>9, <1>10, <1>11, <1>12, Zenon
  <2>2. /\ c0.tacT[a][b] = IF b < 4 THEN NoTac ELSE n[1]
        /\ c0.tacE[a][b] = IF b < 4 THEN NoTac ELSE n[1]
        /\ c0.qac[a][b] = IF b < 4 THEN NoQac ELSE n[2]
    BY <1>8, Zenon
  <2>3. c.tacT[a][b] = IF TacLines(a, b, 1) = {} THEN c0.tacT[a][b]
                       ELSE LastLine(files.tdc, TacLines(a, b, 1)).tacConfig
    BY <1>9, <2>1, Zenon
  <2>4. c.tacE[a][b] = IF TacLines(a, b, 2) = {} THEN c0.tacE[a][b]
                       ELSE LastLine(files.tdc, TacLines(a, b, 2)).tacConfig
    BY <1>9, <2>1, Zenon
  <2>5. c.qac[a][b] = IF QacLines(a, b) = {} THEN c0.qac[a][b]
                      ELSE LastLine(files.qdc, QacLines(a, b)).qacConfig
    BY <1>10, <2>1, Zenon
  <2> QED
    BY <2>2, <2>3, <2>4, <2>5, Zenon
<1> QED
  BY <1>7, <1>12, <1>14, <1>15, <1>16, Zenon DEF Loaded

-----------------------------------------------------------------------------
(* Sets in order.                                                          *)

\* R says of any two members of S which comes first.
IsOrder(S, R) ==
  /\ \A x \in S : <<x, x>> \notin R
  /\ \A x, y, z \in S : <<x, y>> \in R /\ <<y, z>> \in R => <<x, z>> \in R
  /\ \A x, y \in S : x # y => <<x, y>> \in R \/ <<y, x>> \in R

\* o has the members of S, each once and in the order R.
Lists(o, n, S, R) ==
  /\ o \in [1 .. n -> S]
  /\ \A i, j \in 1 .. n : i < j => <<o[i], o[j]>> \in R
  /\ \A x \in S : \E i \in 1 .. n : o[i] = x

\* To put members where their rank says puts them in order.
LEMMA SortedIs ==
  ASSUME NEW S, IsFiniteSet(S), NEW R, IsOrder(S, R)
  PROVE  Cardinality(S) \in Nat /\ Lists(Sorted(S, R), Cardinality(S), S, R)
<1> DEFINE Below(x) == { y \in S : <<y, x>> \in R }
<1>1. PICK n \in Nat : n = Cardinality(S)
  BY FS_CardinalityType
<1>2. ASSUME NEW x \in S
      PROVE  IsFiniteSet(Below(x)) /\ Cardinality(Below(x)) \in 0 .. n - 1
  <2>1. Below(x) \in SUBSET S
    OBVIOUS
  <2>2. IsFiniteSet(Below(x)) /\ Cardinality(Below(x)) <= n /\ (n = Cardinality(Below(x)) => S = Below(x))
    BY <1>1, <2>1, FS_Subset
  <2>3. x \notin Below(x)
    BY DEF IsOrder
  <2>4. Cardinality(Below(x)) \in Nat
    BY <2>2, FS_CardinalityType
  <2>5. Cardinality(Below(x)) # n
    BY <2>2, <2>3
  <2> QED
    BY <2>2, <2>4, <2>5
<1>3. ASSUME NEW x \in S, NEW y \in S, <<x, y>> \in R
      PROVE  Cardinality(Below(x)) < Cardinality(Below(y))
  <2>1. Below(x) \in SUBSET Below(y)
    BY <1>3 DEF IsOrder
  <2>2. x \in Below(y) /\ x \notin Below(x)
    BY <1>3 DEF IsOrder
  <2>3. IsFiniteSet(Below(y)) /\ Cardinality(Below(y)) \in Nat /\ Cardinality(Below(x)) \in Nat
    BY <1>1, <1>2
  <2> HIDE DEF Below
  <2>4. /\ Cardinality(Below(x)) <= Cardinality(Below(y))
        /\ Cardinality(Below(y)) = Cardinality(Below(x)) => Below(y) = Below(x)
    BY <2>1, <2>3, FS_Subset
  <2> QED
    BY <2>2, <2>3, <2>4
<1> DEFINE rank == [x \in S |-> Cardinality(Below(x))]
<1>4. rank \in Injection(S, 0 .. n - 1)
  <2>1. rank \in [S -> 0 .. n - 1]
    BY <1>2
  <2>2. ASSUME NEW x \in S, NEW y \in S, rank[x] = rank[y] PROVE x = y
    <3> SUFFICES ASSUME x # y PROVE FALSE
      OBVIOUS
    <3>1. <<x, y>> \in R \/ <<y, x>> \in R
      BY DEF IsOrder
    <3>2. rank[x] \in Int /\ rank[y] \in Int
      BY <1>1, <2>1
    <3>3. rank[x] < rank[y] \/ rank[y] < rank[x]
      BY <1>3, <3>1
    <3> QED
      BY <2>2, <3>2, <3>3
  <2> HIDE DEF rank
  <2> QED
    BY <2>1, <2>2 DEF Injection, IsInjective
<1>5. rank \in Surjection(S, 0 .. n - 1)
  <2>1. IsFiniteSet(0 .. n - 1) /\ Cardinality(0 .. n - 1) = n
    <3>1. PICK b \in Int : b = n - 1
      BY <1>1
    <3>2. IsFiniteSet(0 .. b) /\ Cardinality(0 .. b) = IF 0 > b THEN 0 ELSE b - 0 + 1
      BY FS_Interval
    <3> QED
      BY <1>1, <3>1, <3>2
  <2> HIDE DEF rank
  <2> QED
    BY <1>1, <1>4, <2>1, FS_Injection
<1>6. \A x \in S : rank[x] = Cardinality(Below(x))
  OBVIOUS
<1> DEFINE o == Sorted(S, R)
<1>7. o = [k \in 1 .. n |-> CHOOSE x \in S : Cardinality(Below(x)) = k - 1]
  BY <1>1 DEF Sorted
<1> HIDE DEF Below, rank, o
<1>8. ASSUME NEW k \in 1 .. n PROVE o[k] \in S /\ Cardinality(Below(o[k])) = k - 1
  <2>1. k - 1 \in 0 .. n - 1
    BY <1>1
  <2>2. \E x \in S : rank[x] = k - 1
    BY <1>5, <2>1 DEF Surjection
  <2>3. \E x \in S : Cardinality(Below(x)) = k - 1
    BY <1>6, <2>2
  <2>4. o[k] = CHOOSE x \in S : Cardinality(Below(x)) = k - 1
    BY <1>7
  <2> QED
    BY <2>3, <2>4, Zenon
<1>9. o \in [1 .. n -> S]
  BY <1>7, <1>8
<1>10. ASSUME NEW i \in 1 .. n, NEW j \in 1 .. n, i < j PROVE <<o[i], o[j]>> \in R
  <2>1. o[i] \in S /\ o[j] \in S /\ Cardinality(Below(o[i])) = i - 1 /\ Cardinality(Below(o[j])) = j - 1
    BY <1>8
  <2>2. o[i] # o[j]
    BY <1>10, <2>1
  <2>3. ~ <<o[j], o[i]>> \in R
    BY <1>3, <1>10, <2>1
  <2> QED
    BY <2>1, <2>2, <2>3, Zenon DEF IsOrder
<1>11. ASSUME NEW x \in S PROVE \E i \in 1 .. n : o[i] = x
  <2>1. PICK i \in 1 .. n : Cardinality(Below(x)) = i - 1
    <3>1. Cardinality(Below(x)) + 1 \in 1 .. n /\ Cardinality(Below(x)) = (Cardinality(Below(x)) + 1) - 1
      BY <1>1, <1>2
    <3> QED
      BY <3>1
  <2>2. rank[o[i]] = rank[x] /\ o[i] \in S
    BY <1>6, <1>8, <2>1
  <2>3. o[i] = x
    <3>1. \A a, b \in S : rank[a] = rank[b] => a = b
      BY <1>4 DEF Injection, IsInjective
    <3> QED
      BY <2>2, <3>1
  <2> QED
    BY <2>3
<1> QED
  BY <1>1, <1>9, <1>10, <1>11, Zenon DEF Lists, o

\* Positions in ascending order, ...
LEMMA AscendingIs ==
  ASSUME NEW S \in SUBSET Int
  PROVE  /\ IsOrder(S, Ascending(S))
         /\ \A x, y : <<x, y>> \in Ascending(S) => x < y
BY DEF IsOrder, Ascending

\* ... and pairs of them.
LEMMA LexicographicIs ==
  ASSUME NEW S \in SUBSET (Int \X Int)
  PROVE  IsOrder(S, Lexicographic(S))
<1>1. \A x, y \in S : <<x, y>> \in Lexicographic(S) <=>
        x[1] < y[1] \/ (x[1] = y[1] /\ x[2] < y[2])
  BY DEF Lexicographic
<1>2. \A x \in S : x[1] \in Int /\ x[2] \in Int /\ x = <<x[1], x[2]>>
  OBVIOUS
<1>3. \A x \in S : <<x, x>> \notin Lexicographic(S)
  BY <1>1, <1>2
<1>4. \A x, y, z \in S : <<x, y>> \in Lexicographic(S) /\ <<y, z>> \in Lexicographic(S)
        => <<x, z>> \in Lexicographic(S)
  BY <1>1, <1>2
<1>5. ASSUME NEW x \in S, NEW y \in S, x # y
      PROVE  <<x, y>> \in Lexicographic(S) \/ <<y, x>> \in Lexicographic(S)
  <2>1. x[1] \in Int /\ x[2] \in Int /\ y[1] \in Int /\ y[2] \in Int
    BY <1>2
  <2>2. x[1] # y[1] \/ x[2] # y[2]
    <3> SUFFICES ASSUME x[1] = y[1] /\ x[2] = y[2] PROVE FALSE
      OBVIOUS
    <3>1. x = <<x[1], x[2]>> /\ y = <<y[1], y[2]>>
      BY <1>2
    <3> QED
      BY <1>5, <3>1, Zenon
  <2> QED
    BY <1>1, <2>1, <2>2
<1> QED
  BY <1>3, <1>4, <1>5 DEF IsOrder

\* r has the m members of s at the positions I, in the same order.
Selects(r, s, I, m, o) ==
  r = [k \in 1 .. m |-> s[o[k]]] /\ Lists(o, m, I, Ascending(I))

\* The members of a sequence at chosen positions, in their order.
LEMMA SelectedIs ==
  ASSUME NEW n \in Nat, NEW s, NEW I \in SUBSET (1 .. n)
  PROVE  \E m \in Nat : \E o : Selects(Selected(s, I), s, I, m, o)
<1>1. IsFiniteSet(I)
  <2>1. IsFiniteSet(1 .. n)
    BY FS_Interval
  <2> QED
    BY <2>1, FS_Subset
<1>2. IsOrder(I, Ascending(I))
  BY AscendingIs
<1>3. /\ Cardinality(I) \in Nat
      /\ Lists(Sorted(I, Ascending(I)), Cardinality(I), I, Ascending(I))
  BY <1>1, <1>2, SortedIs
<1>4. PICK o : o = Sorted(I, Ascending(I))
  OBVIOUS
<1>5. PICK m : m = Cardinality(I)
  OBVIOUS
<1>6. DOMAIN o = 1 .. m
  BY <1>3, <1>4, <1>5 DEF Lists
<1>7. Selected(s, I) = [k \in 1 .. m |-> s[o[k]]]
  BY <1>4, <1>6, Zenon DEF Selected
<1>8. m \in Nat /\ Selects(Selected(s, I), s, I, m, o)
  BY <1>3, <1>4, <1>5, <1>7, Zenon DEF Selects
<1> QED
  BY <1>8, Zenon

-----------------------------------------------------------------------------
(* What the sorter and ProcessHit make of a block.                         *)

\* C++ rounds towards zero: times in one bin of the sorter, or in order of
\* their bins, are out of order by less than twice a bin.
LEMMA BinOrder ==
  ASSUME NEW a \in Int, NEW b \in Int, Bin(a) <= Bin(b)
  PROVE  a <= b + 6
BY DEF Bin

\* What is in order from each to the next is in order.
LEMMA StepwiseOrder ==
  ASSUME NEW n \in Nat, NEW f, \A i \in 1 .. n : f[i] \in Int,
         \A i \in 1 .. n - 1 : f[i] <= f[i + 1]
  PROVE  \A i, j \in 1 .. n : i < j => f[i] <= f[j]
<1> SUFFICES ASSUME NEW i \in 1 .. n PROVE \A j \in 1 .. n : i < j => f[i] <= f[j]
  OBVIOUS
<1> DEFINE S == { k \in Nat : i + k <= n => f[i] <= f[i + k] }
<1>1. 0 \in S
  OBVIOUS
<1>2. ASSUME NEW k \in Nat, k \in S, i + (k + 1) <= n
      PROVE  f[i] <= f[i + (k + 1)]
  <2>1. i + k \in 1 .. n - 1 /\ i + (k + 1) \in 1 .. n /\ i + (k + 1) = (i + k) + 1
    BY <1>2
  <2>2. f[i] <= f[i + k]
    BY <1>2, <2>1
  <2>3. f[i + k] <= f[i + (k + 1)]
    BY <2>1
  <2>4. f[i] \in Int /\ f[i + k] \in Int /\ f[i + (k + 1)] \in Int
    BY <2>1
  <2> QED
    BY <2>2, <2>3, <2>4
<1>3. \A k \in Nat : k \in S => k + 1 \in S
  BY <1>2
<1> HIDE DEF S
<1>4. Nat \subseteq S
  BY <1>1, <1>3, SetInduction
<1>5. ASSUME NEW j \in 1 .. n, i < j PROVE f[i] <= f[j]
  <2>1. j - i \in Nat /\ i + (j - i) = j /\ i + (j - i) <= n
    BY <1>5
  <2>2. j - i \in S
    BY <1>4, <2>1
  <2> QED
    BY <2>1, <2>2 DEF S
<1> QED
  BY <1>5

\* s has the hits of raws where p says, in order but for the bins.
Sorts(p, raws, s, n) ==
  /\ s = [i \in 1 .. n |-> raws[p[i]]]
  /\ \A i, j \in 1 .. n : i # j => p[i] # p[j]
  /\ \A j \in 1 .. n : \E i \in 1 .. n : p[i] = j
  /\ \A i, j \in 1 .. n : i < j => raws[p[i]].time <= raws[p[j]].time + 6

\* The sorter leaves every hit of a block in a place of its own.
LEMMA SorterIs ==
  ASSUME NEW raws \in Seq(RawHits), NEW n \in Nat, n = Len(raws), NEW s \in CoarseSorted(raws)
  PROVE  \E p \in [1 .. n -> 1 .. n] : Sorts(p, raws, s, n)
<1>1. DOMAIN raws = 1 .. n
  OBVIOUS
<1>2. PICK p \in [1 .. n -> 1 .. n] :
           /\ s = [i \in 1 .. n |-> raws[p[i]]]
           /\ \A i, j \in 1 .. n : i # j => p[i] # p[j]
           /\ \A i \in 1 .. n - 1 : Bin(raws[p[i]].time) <= Bin(raws[p[i + 1]].time)
  BY <1>1, Zenon DEF CoarseSorted
<1>3. \A j \in 1 .. n : \E i \in 1 .. n : p[i] = j
  <2>1. IsFiniteSet(1 .. n)
    BY FS_Interval
  <2>2. p \in Injection(1 .. n, 1 .. n)
    BY <1>2 DEF Injection, IsInjective
  <2>3. p \in Surjection(1 .. n, 1 .. n)
    BY <2>1, <2>2, FS_Injection
  <2> QED
    BY <2>3 DEF Surjection
<1>4. \A i \in 1 .. n : raws[p[i]].time \in Int
  <2>1. \A j \in 1 .. n : raws[j] \in RawHits
    OBVIOUS
  <2> QED
    BY <2>1 DEF RawHits
<1>5. \A i \in 1 .. n : Bin(raws[p[i]].time) \in Int
  BY <1>4 DEF Bin
<1>6. ASSUME NEW i \in 1 .. n, NEW j \in 1 .. n, i < j
      PROVE  raws[p[i]].time <= raws[p[j]].time + 6
  <2>1. PICK f : f = [k \in 1 .. n |-> Bin(raws[p[k]].time)]
    OBVIOUS
  <2>2. \A k \in 1 .. n : f[k] \in Int
    BY <1>5, <2>1
  <2>3. \A k \in 1 .. n - 1 : f[k] <= f[k + 1]
    <3>1. \A k \in 1 .. n - 1 : k \in 1 .. n /\ k + 1 \in 1 .. n
      OBVIOUS
    <3> QED
      BY <1>2, <2>1, <3>1
  <2>4. f[i] <= f[j]
    BY <1>6, <2>2, <2>3, StepwiseOrder
  <2> QED
    BY <1>4, <2>1, <2>4, BinOrder
<1> QED
  BY <1>2, <1>3, <1>6, Zenon DEF Sorts

\* A hit that goes on, and what becomes of it.
Passes(raw) == Flags(config, raw, run.triggerID) = {}

HitOf(raw) ==
  IF FromTrigger(raw, run.triggerID) THEN TriggerHit(raw) ELSE CalibratedHit(config, raw)

\* The m hits are those of a block that go on, o says which; they are in order,
\* but for the sorter's bins.
Handles(hits, raws, m, o) ==
  /\ hits = [k \in 1 .. m |-> HitOf(raws[o[k]])]
  /\ o \in [1 .. m -> 1 .. Len(raws)]
  /\ \A i, j \in 1 .. m : i # j => o[i] # o[j]
  /\ \A k \in 1 .. m : Passes(raws[o[k]])
  /\ \A j \in 1 .. Len(raws) : Passes(raws[j]) => \E k \in 1 .. m : o[k] = j
  /\ \A i, j \in 1 .. m : i < j => raws[o[i]].time <= raws[o[j]].time + 6

\* Hits go on in the order in which the sorter has left them.
LEMMA HitsAreHandled ==
  ASSUME NEW raws \in Seq(RawHits), NEW s \in CoarseSorted(raws), NEW hits,
         hits = ProcessHits(config, s, run.triggerID)
  PROVE  \E m \in Nat : \E o : Handles(hits, raws, m, o)
<1>1. PICK n \in Nat : n = Len(raws)
  OBVIOUS
<1>2. PICK p \in [1 .. n -> 1 .. n] : Sorts(p, raws, s, n)
  BY <1>1, SorterIs
<1>3. /\ s = [i \in 1 .. n |-> raws[p[i]]]
      /\ \A i, j \in 1 .. n : i # j => p[i] # p[j]
      /\ \A j \in 1 .. n : \E i \in 1 .. n : p[i] = j
      /\ \A i, j \in 1 .. n : i < j => raws[p[i]].time <= raws[p[j]].time + 6
  BY <1>2 DEF Sorts
<1>4. PICK I : I = { i \in DOMAIN s : Flags(config, s[i], run.triggerID) = {} }
  OBVIOUS
<1>5. I \in SUBSET (1 .. n) /\ \A i \in 1 .. n : i \in I <=> Passes(raws[p[i]])
  BY <1>3, <1>4 DEF Passes
<1>6. PICK m \in Nat : \E q : Selects(Selected(s, I), s, I, m, q)
  BY <1>5, SelectedIs
<1>7. PICK q : Selects(Selected(s, I), s, I, m, q)
  BY <1>6
<1>8. Selected(s, I) = [k \in 1 .. m |-> s[q[k]]] /\ Lists(q, m, I, Ascending(I))
  BY <1>7 DEF Selects
<1>9. /\ q \in [1 .. m -> I] /\ \A x \in I : \E k \in 1 .. m : q[k] = x
      /\ \A i, j \in 1 .. m : i < j => q[i] < q[j]
  <2>1. I \in SUBSET Int
    BY <1>5
  <2>2. \A x, y : <<x, y>> \in Ascending(I) => x < y
    BY <2>1, AscendingIs
  <2> QED
    BY <1>8, <2>2 DEF Lists
<1>10. \A k \in 1 .. m : q[k] \in 1 .. n /\ p[q[k]] \in 1 .. n /\ q[k] \in I
  BY <1>5, <1>9
<1>11. PICK o : o = [k \in 1 .. m |-> p[q[k]]]
  OBVIOUS
<1>12. hits = [k \in 1 .. m |-> HitOf(raws[o[k]])]
  <2>1. PICK passed : passed = [k \in 1 .. m |-> s[q[k]]]
    OBVIOUS
  <2>2. DOMAIN passed = 1 .. m /\ \A k \in 1 .. m : passed[k] = raws[o[k]]
    BY <1>3, <1>10, <1>11, <2>1
  <2>3. hits = [k \in DOMAIN passed |-> HitOf(passed[k])]
    BY <1>4, <1>8, <2>1, Zenon DEF ProcessHits, HitOf
  <2> QED
    BY <2>2, <2>3
<1>13. o \in [1 .. m -> 1 .. n]
  BY <1>10, <1>11
<1>14. ASSUME NEW i \in 1 .. m, NEW j \in 1 .. m, i < j
       PROVE  o[i] # o[j] /\ raws[o[i]].time <= raws[o[j]].time + 6
  <2>1. q[i] < q[j] /\ q[i] \in 1 .. n /\ q[j] \in 1 .. n /\ q[i] # q[j]
    BY <1>9, <1>10, <1>14
  <2> QED
    BY <1>3, <1>11, <2>1
<1>15. \A i, j \in 1 .. m : i # j => o[i] # o[j]
  <2> SUFFICES ASSUME NEW i \in 1 .. m, NEW j \in 1 .. m, i # j PROVE o[i] # o[j]
    OBVIOUS
  <2>1. i < j \/ j < i
    OBVIOUS
  <2> QED
    BY <1>14, <2>1
<1>16. \A k \in 1 .. m : Passes(raws[o[k]])
  BY <1>5, <1>10, <1>11
<1>17. ASSUME NEW j \in 1 .. n, Passes(raws[j]) PROVE \E k \in 1 .. m : o[k] = j
  <2>1. PICK i \in 1 .. n : p[i] = j
    BY <1>3
  <2>2. i \in I
    BY <1>5, <1>17, <2>1
  <2> QED
    BY <1>9, <1>11, <2>1, <2>2
<1> QED
  BY <1>1, <1>12, <1>13, <1>14, <1>15, <1>16, <1>17 DEF Handles

\* A configuration has been loaded for what is being read.
Ready ==
  /\ run \in Runs /\ files \in Configurations /\ CanLoad(files)
  /\ \E n \in Noise : Loaded(config, n)

\* The lines for an entry of the tables are lines of the files.
LEMMA LinesAre ==
  ASSUME files \in Configurations, CanLoad(files), NEW a, NEW b
  PROVE  /\ \A br \in {1, 2} : TacLines(a, b, br) # {} =>
              /\ Max(TacLines(a, b, br)) \in TacLines(a, b, br)
              /\ LastLine(files.tdc, TacLines(a, b, br)) \in TacLine
         /\ QacLines(a, b) # {} => LastLine(files.qdc, QacLines(a, b)) \in QacLine
         /\ PlaceLines(a) # {} => LastLine(files.channels, PlaceLines(a)) \in PlaceLine
<1>1. ASSUME NEW L, NEW lines \in Seq(L \cup {Junk}), NEW I \in SUBSET (DOMAIN lines), I # {},
             \A i \in I : lines[i] # Junk
      PROVE  Max(I) \in I /\ LastLine(lines, I) \in L
  <2>1. PICK n \in Nat : DOMAIN lines = 1 .. n
    OBVIOUS
  <2>2. Max(I) \in I
    BY <1>1, <2>1, MaxIs
  <2>3. \A i \in DOMAIN lines : lines[i] \in L \cup {Junk}
    OBVIOUS
  <2> QED
    BY <1>1, <2>2, <2>3, Zenon DEF LastLine
<1>2. \A br \in {1, 2} : /\ TacLines(a, b, br) \in SUBSET (DOMAIN files.tdc)
                         /\ \A i \in TacLines(a, b, br) : files.tdc[i] # Junk
  BY DEF TacLines
<1>3. /\ QacLines(a, b) \in SUBSET (DOMAIN files.qdc)
      /\ \A i \in QacLines(a, b) : files.qdc[i] # Junk
  BY DEF QacLines
<1>4. /\ PlaceLines(a) \in SUBSET (DOMAIN files.channels)
      /\ \A i \in PlaceLines(a) : files.channels[i] # Junk
  BY DEF PlaceLines
<1>5. /\ files.tdc \in Seq(TacLine \cup {Junk}) /\ files.qdc \in Seq(QacLine \cup {Junk})
      /\ files.channels \in Seq(PlaceLine \cup {Junk})
  BY FilesAre
<1> QED
  BY <1>1, <1>2, <1>3, <1>4, <1>5, Zenon

\* A calibration of a TAC is one that the files may put to use.
LEMMA CurveIs ==
  ASSUME files \in Configurations, CanLoad(files), NEW n \in Noise, Loaded(config, n),
         NEW raw \in RawHits, config.tacT[raw.channelID][raw.tacID].a1 # 0
  PROVE  config.tacT[raw.channelID][raw.tacID] \in Curves(files, raw)
<1>1. PICK a \in Channels : a = raw.channelID
  BY DEF RawHits
<1>2. PICK b \in Tacs : b = raw.tacID
  BY DEF RawHits
<1>3. config.tacT[a][b] = IF TacLines(a, b, 1) = {} THEN IF b < 4 THEN NoTac ELSE n[1]
                          ELSE LastLine(files.tdc, TacLines(a, b, 1)).tacConfig
  BY Zenon DEF Loaded
<1>4. CASE TacLines(a, b, 1) = {}
  <2>1. ~(b < 4)
    <3>1. NoTac.a1 = 0
      BY DEF NoTac
    <3> QED
      BY <1>1, <1>2, <1>3, <1>4, <3>1
  <2>2. config.tacT[a][b] = n[1]
    BY <1>3, <1>4, <2>1
  <2> QED
    BY <1>1, <1>2, <2>1, <2>2, Zenon DEF Curves
<1>5. CASE TacLines(a, b, 1) # {}
  <2>1. PICK k : k = Max(TacLines(a, b, 1)) /\ k \in TacLines(a, b, 1)
    BY <1>5, LinesAre, 1 \in {1, 2}, Zenon
  <2>2. config.tacT[a][b] = files.tdc[k].tacConfig
    BY <1>3, <1>5, <2>1, Zenon DEF LastLine
  <2>3. /\ k \in DOMAIN files.tdc
        /\ files.tdc[k] # Junk /\ files.tdc[k].branch = 1
        /\ files.tdc[k].channel = raw.channelID /\ files.tdc[k].tac = raw.tacID
    BY <1>1, <1>2, <2>1, Zenon DEF TacLines
  <2> QED
    BY <1>1, <1>2, <2>2, <2>3, Zenon DEF Curves
<1> QED
  BY <1>4, <1>5

\* A hit that goes on has a time near its raw hit's.
LEMMA HitIs ==
  ASSUME Ready, NEW raw \in RawHits, FineOK(files, run, raw), Passes(raw), NEW h, h = HitOf(raw)
  PROVE  /\ h.raw = raw
         /\ h.time \in Int /\ h.energy \in Int /\ h.x \in Int
         /\ h.region \in Regions \cup {-1}
         /\ h.time >= 4 * raw.time - MaxOffset /\ h.time <= 4 * raw.time + MaxOffset
         /\ ~FromTrigger(raw, run.triggerID) =>
              /\ h.region \in Regions
              /\ \E q \in Phases :
                   LET c == config.tacT[raw.channelID][raw.tacID]
                   IN  OnCurve(c, raw.t1fine, q) /\ h.time = 4 * raw.time - q - c.t0
<1>1. /\ raw.channelID \in Channels /\ raw.tacID \in Tacs /\ raw.time \in Int
      /\ raw.timeEnd \in Int /\ raw.timeEndQ \in Int /\ raw.t1fine \in Int /\ raw.t2fine \in Int
      /\ raw.qfine \in Int
  BY DEF RawHits
<1>2. MaxOffset \in Nat /\ MaxRegions \in Nat
  BY ConversionAssumption, ConfigAssumption
<1>3. CASE FromTrigger(raw, run.triggerID)
  <2>1. h = TriggerHit(raw)
    BY <1>3 DEF HitOf
  <2>2. /\ h.raw = raw /\ h.time = 4 * raw.time - (raw.t1fine - 27)
        /\ h.energy = (IF raw.t2fine = 28 THEN 1 ELSE -1) /\ h.region = -1 /\ h.x = 0
    BY <2>1 DEF TriggerHit
  <2>3. raw.t1fine - 27 \in Offsets
    BY <1>3 DEF FineOK
  <2> QED
    BY <1>1, <1>2, <1>3, <2>2, <2>3 DEF Offsets
<1>4. CASE ~FromTrigger(raw, run.triggerID)
  <2>1. PICK c : c = config.tacT[raw.channelID][raw.tacID]
    OBVIOUS
  <2>2. PICK qac : qac = config.qac[raw.channelID][raw.tacID]
    OBVIOUS
  <2>3. PICK place : place = config.place[raw.channelID]
    OBVIOUS
  <2>4. PICK n \in Noise : Loaded(config, n)
    BY DEF Ready
  <2>5. c \in TacEntry /\ qac \in QacEntry /\ place \in PlaceEntry
    BY <1>1, <2>1, <2>2, <2>3, <2>4 DEF Loaded, Config, TacTable, QacTable, PlaceTable
  <2>6. c.a1 # 0 /\ place.region # -1
    <3>1. "tdc" \notin Flags(config, raw, run.triggerID) /\ "xyz" \notin Flags(config, raw, run.triggerID)
      BY DEF Passes
    <3> QED
      BY <1>4, <2>1, <2>3, <3>1, Zenon DEF Flags
  <2>7. c \in Curves(files, raw)
    BY <2>1, <2>4, <2>6, CurveIs, Zenon DEF Ready
  <2>8. /\ \E q \in Phases : OnCurve(c, raw.t1fine, q)
        /\ \A q \in Phases : OnCurve(c, raw.t1fine, q) => q + c.t0 \in Offsets
    BY <1>4, <2>6, <2>7, Zenon DEF FineOK
  <2>9. PICK q : q = Phase(c, raw.t1fine)
    OBVIOUS
  <2>10. q \in Phases /\ OnCurve(c, raw.t1fine, q)
    BY <2>8, <2>9, Zenon DEF Phase
  <2>11. q \in Int
    BY <2>10, HandlerAssumption
  <2>12. h = CalibratedHit(config, raw)
    BY <1>4 DEF HitOf
  <2>13. /\ h.raw = raw /\ h.time = 4 * raw.time - q - c.t0
         /\ h.energy = raw.qfine - Pedestal(qac, 4 * raw.timeEndQ - h.time)
         /\ h.region = place.region /\ h.x = place.x
    BY <2>1, <2>2, <2>3, <2>9, <2>12 DEF CalibratedHit, Calibrated
  <2>14. /\ c.t0 \in Int /\ qac.p0 \in Int /\ qac.p1 \in Int
         /\ place.region \in Regions \cup {-1} /\ place.x \in Int
    BY <2>5 DEF TacEntry, QacEntry, PlaceEntry
  <2>15. h.time \in Int
    BY <1>1, <2>11, <2>13, <2>14
  <2>16. h.energy \in Int
    <3>1. 4 * raw.timeEndQ - h.time \in Int
      BY <1>1, <2>15
    <3>2. \A i \in Int : qac.p0 + qac.p1 * i \in Int
      BY <2>14
    <3>3. Pedestal(qac, 4 * raw.timeEndQ - h.time) \in Int
      BY <3>1, <3>2 DEF Pedestal
    <3> QED
      BY <1>1, <2>13, <3>3
  <2>17. q + c.t0 \in Offsets
    BY <2>8, <2>10
  <2>18. h.time >= 4 * raw.time - MaxOffset /\ h.time <= 4 * raw.time + MaxOffset
    BY <1>1, <1>2, <2>11, <2>13, <2>14, <2>17 DEF Offsets
  <2>19. h.region \in Regions
    BY <2>6, <2>13, <2>14
  <2>20. h.raw = raw /\ h.x \in Int /\ h.region \in Regions \cup {-1}
    BY <2>13, <2>14
  <2> QED
    BY <2>1, <2>10, <2>13, <2>15, <2>16, <2>18, <2>19, <2>20, Zenon
<1> QED
  BY <1>3, <1>4

\* Of the hits whose TAC is initialised, those go on for which the files have
\* all that it takes.
LEMMA PassesIs ==
  ASSUME Ready, NEW raw \in RawHits, ~FromTrigger(raw, run.triggerID), raw.tacID < 4
  PROVE  /\ Passes(raw) <=> Complete(raw)
         /\ config.tacT[raw.channelID][raw.tacID] = TacOf(raw.channelID, raw.tacID, 1)
<1>1. PICK n \in Noise : Loaded(config, n)
  BY DEF Ready
<1>2. PICK a \in Channels : a = raw.channelID
  BY DEF RawHits
<1>3. PICK b \in Tacs : b = raw.tacID
  BY DEF RawHits
<1>4. config.tacT[a][b] = TacOf(a, b, 1) /\ config.tacE[a][b] = TacOf(a, b, 2)
  BY <1>1, <1>3, Zenon DEF Loaded, TacOf
<1>5. config.qac[a][b].p1 # 0 <=>
        QacLines(a, b) # {} /\ LastLine(files.qdc, QacLines(a, b)).qacConfig.p1 # 0
  <2>1. config.qac[a][b] = IF QacLines(a, b) = {} THEN NoQac
                           ELSE LastLine(files.qdc, QacLines(a, b)).qacConfig
    BY <1>1, <1>3, Zenon DEF Loaded
  <2>2. NoQac.p1 = 0
    BY DEF NoQac
  <2> QED
    BY <2>1, <2>2, Zenon
<1>6. config.place[a].region # -1 <=> PlaceLines(a) # {}
  <2>1. config.place[a] = IF PlaceLines(a) = {} THEN NoPlace
                          ELSE LastLine(files.channels, PlaceLines(a)).place
    BY <1>1, Zenon DEF Loaded
  <2>2. NoPlace.region = -1
    BY DEF NoPlace
  <2>3. CASE PlaceLines(a) = {}
    BY <2>1, <2>2, <2>3, Zenon
  <2>4. CASE PlaceLines(a) # {}
    <3>1. PICK l : l = LastLine(files.channels, PlaceLines(a))
      OBVIOUS
    <3>2. l \in PlaceLine
      BY <2>4, <3>1, LinesAre, Zenon DEF Ready
    <3>3. l.place.region \in Regions
      BY <3>2 DEF PlaceLine
    <3>4. l.place.region # -1
      BY <3>3 DEF Regions
    <3> QED
      BY <2>1, <2>4, <3>1, <3>4, Zenon
  <2> QED
    BY <2>3, <2>4
<1>7. Passes(raw) <=> /\ raw.valid /\ config.tacT[a][b].a1 # 0 /\ config.tacE[a][b].a1 # 0
                      /\ config.qac[a][b].p1 # 0 /\ config.place[a].region # -1
  <2>1. Flags(config, raw, run.triggerID) =
          { f \in {"invalid", "tdc", "qdc", "xyz"} :
              \/ f = "invalid" /\ ~raw.valid
              \/ f = "tdc" /\ (config.tacT[a][b].a1 = 0 \/ config.tacE[a][b].a1 = 0)
              \/ f = "qdc" /\ config.qac[a][b].p1 = 0
              \/ f = "xyz" /\ config.place[a].region = -1 }
    BY <1>2, <1>3, Zenon DEF Flags
  <2>2. /\ ~raw.valid <=> "invalid" \in Flags(config, raw, run.triggerID)
        /\ (config.tacT[a][b].a1 = 0 \/ config.tacE[a][b].a1 = 0)
             <=> "tdc" \in Flags(config, raw, run.triggerID)
        /\ config.qac[a][b].p1 = 0 <=> "qdc" \in Flags(config, raw, run.triggerID)
        /\ config.place[a].region = -1 <=> "xyz" \in Flags(config, raw, run.triggerID)
        /\ Flags(config, raw, run.triggerID) \subseteq {"invalid", "tdc", "qdc", "xyz"}
    BY <2>1
  <2> QED
    BY <2>2 DEF Passes
<1>8. Complete(raw) <=>
        /\ raw.valid /\ TacOf(a, b, 1).a1 # 0 /\ TacOf(a, b, 2).a1 # 0
        /\ QacLines(a, b) # {} /\ LastLine(files.qdc, QacLines(a, b)).qacConfig.p1 # 0
        /\ PlaceLines(a) # {}
  <2>1. Complete(raw) <=>
          /\ raw.valid /\ (\A br \in {1, 2} : TacOf(a, b, br).a1 # 0)
          /\ QacLines(a, b) # {} /\ LastLine(files.qdc, QacLines(a, b)).qacConfig.p1 # 0
          /\ PlaceLines(a) # {}
    BY <1>2, <1>3, Zenon DEF Complete
  <2> QED
    BY <2>1
<1> QED
  BY <1>2, <1>3, <1>4, <1>5, <1>6, <1>7, <1>8, Zenon

\* What a block's hits are, as CalibrationIsUsed has it.
LEMMA BlockIsCalibrated ==
  ASSUME Ready, NEW raws \in Seq(RawHits), NEW m \in Nat, NEW o,
         \A i \in DOMAIN raws : FineOK(files, run, raws[i]),
         lastBuffer.raws = raws, Handles(lastBuffer.hits, raws, m, o)
  PROVE  CalibrationIsUsed
<1> DEFINE Concerned(raw) == raw.channelID \div 2048 # run.triggerID /\ raw.tacID < 4
           hits == { h \in ToSet(lastBuffer.hits) : Concerned(h.raw) }
<1>1. PICK n \in Nat : n = Len(raws) /\ DOMAIN raws = 1 .. n
  OBVIOUS
<1>2. \A j \in 1 .. n : raws[j] \in RawHits /\ FineOK(files, run, raws[j])
  BY <1>1
<1>3. /\ lastBuffer.hits = [k \in 1 .. m |-> HitOf(raws[o[k]])]
      /\ \A k \in 1 .. m : o[k] \in 1 .. n /\ Passes(raws[o[k]])
      /\ \A j \in 1 .. n : Passes(raws[j]) => \E k \in 1 .. m : o[k] = j
  BY <1>1 DEF Handles
<1>4. ToSet(lastBuffer.hits) = { HitOf(raws[o[k]]) : k \in 1 .. m } /\ ToSet(raws) = { raws[j] : j \in 1 .. n }
  BY <1>1, <1>3 DEF ToSet
<1>5. \A k \in 1 .. m : HitOf(raws[o[k]]).raw = raws[o[k]]
  BY <1>2, <1>3, HitIs, Zenon
<1>6. \A raw : Concerned(raw) => ~FromTrigger(raw, run.triggerID)
  BY DEF FromTrigger
<1>7. { h.raw : h \in hits } = { raw \in ToSet(raws) : Concerned(raw) /\ Complete(raw) }
  <2>1. ASSUME NEW h \in hits PROVE h.raw \in ToSet(raws) /\ Concerned(h.raw) /\ Complete(h.raw)
    <3>1. PICK k \in 1 .. m : h = HitOf(raws[o[k]])
      BY <1>4
    <3>2. h.raw = raws[o[k]] /\ raws[o[k]] \in RawHits /\ Passes(raws[o[k]])
      BY <1>2, <1>3, <1>5, <3>1
    <3>3. Concerned(h.raw)
      OBVIOUS
    <3>4. Complete(h.raw)
      BY <1>6, <3>2, <3>3, PassesIs
    <3> QED
      BY <1>3, <1>4, <3>2, <3>3, <3>4
  <2>2. ASSUME NEW raw \in ToSet(raws), Concerned(raw), Complete(raw)
        PROVE  \E h \in hits : h.raw = raw
    <3>1. PICK j \in 1 .. n : raw = raws[j]
      BY <1>4
    <3>2. Passes(raw)
      BY <1>2, <1>6, <2>2, <3>1, PassesIs
    <3>3. PICK k \in 1 .. m : o[k] = j
      BY <1>3, <3>1, <3>2
    <3>4. HitOf(raws[o[k]]).raw = raw /\ HitOf(raws[o[k]]) \in ToSet(lastBuffer.hits)
      BY <1>4, <1>5, <3>1, <3>3
    <3> QED
      BY <2>2, <3>4
  <2> HIDE DEF hits, Concerned
  <2> QED
    BY <2>1, <2>2
<1>8. ASSUME NEW h \in hits
      PROVE  \E q \in Phases :
               LET tac == TacOf(h.raw.channelID, h.raw.tacID, 1)
               IN  /\ tac.a0 + tac.a1 * q + tac.a2 * q * q = h.raw.t1fine
                   /\ h.time = 4 * h.raw.time - q - tac.t0
  <2>1. PICK k \in 1 .. m : h = HitOf(raws[o[k]])
    BY <1>4
  <2>2. PICK raw \in RawHits : raw = raws[o[k]] /\ h.raw = raw /\ FineOK(files, run, raw) /\ Passes(raw)
    BY <1>2, <1>3, <1>5, <2>1
  <2>3. Concerned(h.raw)
    OBVIOUS
  <2>4. ~FromTrigger(raw, run.triggerID) /\ raw.tacID < 4
    BY <1>6, <2>2, <2>3
  <2>5. PICK tac : tac = TacOf(raw.channelID, raw.tacID, 1)
    OBVIOUS
  <2>6. config.tacT[raw.channelID][raw.tacID] = tac
    BY <2>4, <2>5, PassesIs
  <2>7. PICK q \in Phases : OnCurve(tac, raw.t1fine, q) /\ h.time = 4 * raw.time - q - tac.t0
    <3>1. h = HitOf(raw)
      BY <2>1, <2>2
    <3>2. \E q \in Phases :
            LET c == config.tacT[raw.channelID][raw.tacID]
            IN  OnCurve(c, raw.t1fine, q) /\ h.time = 4 * raw.time - q - c.t0
      BY <2>2, <2>4, <3>1, HitIs, SMTT(60)
    <3> QED
      BY <2>6, <3>2
  <2>8. tac.a0 + tac.a1 * q + tac.a2 * q * q = raw.t1fine
    BY <2>7 DEF OnCurve
  <2> QED
    BY <2>2, <2>5, <2>7, <2>8, SMTT(60)
<1> HIDE DEF hits, Concerned
<1> QED
  BY <1>7, <1>8, Zenon DEF CalibrationIsUsed, hits, Concerned

-----------------------------------------------------------------------------
(* What SimpleGrouper makes of the hits.                                   *)

\* A sequence has a length, and what a function on the first numbers is.
LEMMA FunctionIsSeq ==
  ASSUME NEW X, NEW n \in Nat, NEW f \in [1 .. n -> X]
  PROVE  f \in Seq(X) /\ Len(f) = n /\ DOMAIN f = 1 .. n
OBVIOUS

\* What Append makes.
LEMMA AppendType ==
  ASSUME NEW Y, NEW s \in Seq(Y), NEW t \in Y
  PROVE  /\ Append(s, t) \in Seq(Y)
         /\ Len(Append(s, t)) = Len(s) + 1
         /\ Append(s, t)[Len(s) + 1] = t
         /\ \A i \in 1 .. Len(s) : Append(s, t)[i] = s[i]
OBVIOUS

\* A group: its first hit is i, the others are those at the positions in near.
Group(w, n, i, near) ==
  /\ w \in Seq(1 .. n) /\ Len(w) >= 1 /\ w[1] = i
  /\ \A k \in 2 .. Len(w) : w[k] \in near
  /\ \A j, k \in 1 .. Len(w) : j # k => w[j] # w[k]

\* The group of a hit that none has taken.
LEMMA GroupIsMade ==
  ASSUME NEW n \in Nat, NEW i \in 1 .. n, NEW near \in SUBSET (i + 1 .. n)
  PROVE  Group(<<i>> \o Sorted(near, Ascending(near)), n, i, near)
<1>1. near \in SUBSET (1 .. n)
  OBVIOUS
<1>2. IsFiniteSet(near)
  <2>1. IsFiniteSet(1 .. n)
    BY FS_Interval
  <2> QED
    BY <1>1, <2>1, FS_Subset
<1>3. near \in SUBSET Int
  OBVIOUS
<1>4. IsOrder(near, Ascending(near)) /\ \A x, y : <<x, y>> \in Ascending(near) => x < y
  BY <1>3, AscendingIs
<1>5. PICK m \in Nat : m = Cardinality(near)
  BY <1>2, <1>4, SortedIs
<1>6. PICK o : o = Sorted(near, Ascending(near))
  OBVIOUS
<1>7. Lists(o, m, near, Ascending(near))
  BY <1>2, <1>4, <1>5, <1>6, SortedIs
<1>8. o \in [1 .. m -> near] /\ \A j, k \in 1 .. m : j < k => o[j] < o[k]
  BY <1>4, <1>7 DEF Lists
<1>9. o \in Seq(1 .. n) /\ Len(o) = m
  <2>1. o \in [1 .. m -> 1 .. n]
    BY <1>1, <1>8
  <2> QED
    BY <2>1, FunctionIsSeq
<1>10. PICK w : w = <<i>> \o o
  OBVIOUS
<1>11. /\ w \in Seq(1 .. n) /\ Len(w) = m + 1 /\ w[1] = i
       /\ \A k \in 2 .. m + 1 : w[k] = o[k - 1]
  <2>1. <<i>> \in Seq(1 .. n) /\ Len(<<i>>) = 1 /\ <<i>>[1] = i
    OBVIOUS
  <2> QED
    BY <1>9, <1>10, <2>1
<1>12. \A k \in 2 .. m + 1 : w[k] \in near
  BY <1>8, <1>11
<1>13. ASSUME NEW j \in 1 .. m + 1, NEW k \in 1 .. m + 1, j < k
       PROVE  w[j] < w[k]
  <2>1. k \in 2 .. m + 1 /\ w[k] = o[k - 1] /\ o[k - 1] \in near /\ k - 1 \in 1 .. m
    BY <1>8, <1>11, <1>13
  <2>2. CASE j = 1
    BY <1>11, <2>1, <2>2
  <2>3. CASE j # 1
    <3>1. j - 1 \in 1 .. m /\ w[j] = o[j - 1] /\ j - 1 < k - 1
      BY <1>11, <1>13, <2>3
    <3> QED
      BY <1>8, <2>1, <3>1
  <2> QED
    BY <2>2, <2>3
<1>14. \A j, k \in 1 .. m + 1 : j # k => w[j] # w[k]
  <2> SUFFICES ASSUME NEW j \in 1 .. m + 1, NEW k \in 1 .. m + 1, j # k PROVE w[j] # w[k]
    OBVIOUS
  <2>1. w[j] \in Int /\ w[k] \in Int
    BY <1>11
  <2>2. j < k \/ k < j
    OBVIOUS
  <2> QED
    BY <1>13, <2>1, <2>2
<1> QED
  BY <1>5, <1>6, <1>10, <1>11, <1>12, <1>14 DEF Group

\* The grouper's state: which hits are taken, and the groups.
Groupings(n) == [taken : SUBSET (1 .. n), groups : Seq(Seq(1 .. n)), crashes : BOOLEAN]

\* The free hits that a group beginning with hit i takes.
Taking(c, hits, s, i) == { j \in Examined(hits, i, s.taken) : Near(c, hits[i], hits[j]) }

\* The state after hit i's turn.
GrowsTo(s, t, n, i, near) ==
  /\ t \in Groupings(n)
  /\ near \in SUBSET (i + 1 .. n) /\ near \cap s.taken = {}
  /\ i \in s.taken => t = s
  /\ i \notin s.taken =>
       /\ t.taken = s.taken \cup {i} \cup near
       /\ \E w : Group(w, n, i, near) /\ t.groups = Append(s.groups, w)

\* A hit's turn adds its group at most.
LEMMA GrowIs ==
  ASSUME NEW c, NEW hits, NEW n \in Nat, n = Len(hits), NEW s \in Groupings(n), NEW i \in 1 .. n
  PROVE  GrowsTo(s, Grow(c, hits, s, i), n, i, Taking(c, hits, s, i))
<1>1. PICK near : near = Taking(c, hits, s, i)
  OBVIOUS
<1>2. near \in SUBSET (i + 1 .. n) /\ near \cap s.taken = {}
  BY <1>1 DEF Taking, Examined
<1>3. CASE i \in s.taken
  <2>1. Grow(c, hits, s, i) = s
    BY <1>3, Zenon DEF Grow
  <2> QED
    BY <1>1, <1>2, <1>3, <2>1, Zenon DEF GrowsTo
<1>4. CASE i \notin s.taken
  <2>1. PICK w : w = <<i>> \o Sorted(near, Ascending(near))
    OBVIOUS
  <2>2. Group(w, n, i, near)
    BY <1>2, <2>1, GroupIsMade
  <2>3. PICK b \in BOOLEAN : b = (\/ s.crashes
                                  \/ \E j \in Examined(hits, i, s.taken) :
                                       Outside(hits[j].region, hits[i].region))
    OBVIOUS
  <2>4. Grow(c, hits, s, i) = [ taken |-> s.taken \cup {i} \cup near,
                                groups |-> Append(s.groups, w), crashes |-> b ]
    BY <1>1, <1>4, <2>1, <2>3, Zenon DEF Grow, Taking
  <2>5. s.taken \cup {i} \cup near \in SUBSET (1 .. n)
    <3>1. s.taken \in SUBSET (1 .. n)
      BY DEF Groupings
    <3>2. near \in SUBSET (1 .. n)
      BY <1>2
    <3> QED
      BY <3>1, <3>2
  <2>6. Append(s.groups, w) \in Seq(Seq(1 .. n))
    <3> DEFINE Y == Seq(1 .. n)
    <3>1. s.groups \in Seq(Y) /\ w \in Y
      BY <2>2 DEF Groupings, Group
    <3> HIDE DEF Y
    <3>2. Append(s.groups, w) \in Seq(Y)
      BY <3>1, AppendType
    <3> QED
      BY <3>2 DEF Y
  <2>7. Grow(c, hits, s, i) \in Groupings(n)
    <3>1. PICK a : a = s.taken \cup {i} \cup near
      OBVIOUS
    <3>2. PICK g : g = Append(s.groups, w)
      OBVIOUS
    <3>3. Grow(c, hits, s, i) = [taken |-> a, groups |-> g, crashes |-> b]
      BY <2>4, <3>1, <3>2, Zenon
    <3>4. a \in SUBSET (1 .. n) /\ g \in Seq(Seq(1 .. n))
      BY <2>5, <2>6, <3>1, <3>2, Zenon
    <3> DEFINE A == SUBSET (1 .. n)
    <3> DEFINE Q == Seq(Seq(1 .. n))
    <3>5. a \in A /\ g \in Q
      BY <3>4
    <3> HIDE DEF A, Q
    <3>6. [taken |-> a, groups |-> g, crashes |-> b] \in [taken : A, groups : Q, crashes : BOOLEAN]
      BY <3>5
    <3> QED
      BY <3>3, <3>6, Zenon DEF Groupings, A, Q
  <2>8. PICK t : t = Grow(c, hits, s, i)
    OBVIOUS
  <2>9. t.taken = s.taken \cup {i} \cup near /\ t.groups = Append(s.groups, w)
    BY <2>4, <2>8
  <2> QED
    BY <1>1, <1>2, <1>4, <2>2, <2>7, <2>8, <2>9, Zenon DEF GrowsTo
<1> QED
  BY <1>3, <1>4

NoGroups == [taken |-> {}, groups |-> <<>>, crashes |-> FALSE]

\* The states between the hits' turns.
Turns(f, c, hits, n) ==
  /\ f[0] = NoGroups /\ f[n] = Grouping(c, hits)
  /\ \A k \in 1 .. n : f[k] = Grow(c, hits, f[k - 1], k)

\* Each of the hits in turn is taken or begins a group.
LEMMA GroupingIs ==
  ASSUME NEW c, NEW hits, NEW n \in Nat, n = Len(hits)
  PROVE  \E f \in [0 .. n -> Groupings(n)] : Turns(f, c, hits, n)
<1> DEFINE G == [k \in 1 .. n |-> [s \in Groupings(n) |-> Grow(c, hits, s, k)]]
<1>1. G \in [1 .. n -> [Groupings(n) -> Groupings(n)]]
  <2>1. \A k \in 1 .. n, s \in Groupings(n) : Grow(c, hits, s, k) \in Groupings(n)
    BY GrowIs DEF GrowsTo
  <2> QED
    BY <2>1, Zenon
<1>2. \A k \in 1 .. n, s \in Groupings(n) : G[k][s] = Grow(c, hits, s, k)
  OBVIOUS
<1>3. NoGroups \in Groupings(n)
  BY DEF NoGroups, Groupings
<1> HIDE DEF G
<1>4. PICK f \in [0 .. n -> Groupings(n)] : Builds(f, n, NoGroups, G)
  BY <1>1, <1>3, BuildsExists
<1>5. \A k \in 1 .. n : k - 1 \in 0 .. n /\ f[k - 1] \in Groupings(n)
  OBVIOUS
<1>6. \A k \in 1 .. n : f[k] = Grow(c, hits, f[k - 1], k)
  BY <1>2, <1>4, <1>5, Zenon DEF Builds
<1>7. f = [k \in 0 .. Len(hits) |-> IF k = 0 THEN NoGroups ELSE Grow(c, hits, f[k - 1], k)]
  <2>1. \A k \in 0 .. n : k = 0 \/ k \in 1 .. n
    OBVIOUS
  <2>2. \A k \in 0 .. n : f[k] = IF k = 0 THEN NoGroups ELSE Grow(c, hits, f[k - 1], k)
    BY <1>4, <1>6, <2>1, Zenon DEF Builds
  <2>3. f = [k \in 0 .. n |-> f[k]]
    OBVIOUS
  <2> QED
    BY <2>2, <2>3, Zenon
<1>8. PICK h : /\ h = [k \in 0 .. Len(hits) |->
                        IF k = 0 THEN NoGroups ELSE Grow(c, hits, h[k - 1], k)]
               /\ Grouping(c, hits) = h[Len(hits)]
  BY <1>7, Zenon DEF Grouping, NoGroups
<1>9. f[0] = NoGroups /\ h[0] = NoGroups
  <2>1. 0 \in 0 .. Len(hits)
    OBVIOUS
  <2> QED
    BY <1>4, <1>8, <2>1, Zenon DEF Builds
<1>10. ASSUME NEW k \in 1 .. n, h[k - 1] = f[k - 1]
       PROVE  h[k] = f[k]
  <2>1. k \in 0 .. Len(hits) /\ k # 0
    OBVIOUS
  <2>2. h[k] = Grow(c, hits, h[k - 1], k)
    BY <1>8, <2>1, Zenon
  <2>3. f[k] = Grow(c, hits, f[k - 1], k)
    BY <1>6
  <2> QED
    BY <1>10, <2>2, <2>3, Zenon
<1>11. h[n] = f[n]
  BY <1>9, <1>10, SameValues
<1> QED
  BY <1>6, <1>8, <1>9, <1>11, Zenon DEF Turns

\* Times are in order but for less than Overlap.
Orderly(hits, n) ==
  /\ \A i \in 1 .. n : hits[i].time \in Int
  /\ \A i, j \in 1 .. n : i < j => hits[i].time <= hits[j].time + Overlap

\* A group's hits are near its first one, which is before the others, and taken.
GroupOK(c, hits, w, taken) ==
  /\ Len(w) >= 1
  /\ \A j, k \in 1 .. Len(w) : j # k => w[j] # w[k]
  /\ \A k \in 2 .. Len(w) : w[1] < w[k] /\ Near(c, hits[w[1]], hits[w[k]])
  /\ \A k \in 1 .. Len(w) : w[k] \in taken

\* Of two groups the one that begins earlier comes earlier; they share no hit.
Apart(v, w) ==
  /\ v[1] < w[1]
  /\ \A j \in 1 .. Len(v), k \in 1 .. Len(w) : v[j] # w[k]

\* None of a later group's hits is near an earlier one's first.
Away(c, hits, v, w) == \A k \in 1 .. Len(w) : ~Near(c, hits[v[1]], hits[w[k]])

\* What a group has not taken is not near its first hit.
NothingLeft(c, hits, n, w, taken) ==
  \A j \in 1 .. n : j \notin taken /\ w[1] < j => ~Near(c, hits[w[1]], hits[j])

\* The groups that the first i hits have begun.
Grouped(c, hits, n, s, i) ==
  /\ \A j \in 1 .. i : j \in s.taken
  /\ \A a \in 1 .. Len(s.groups) :
       s.groups[a][1] <= i /\ GroupOK(c, hits, s.groups[a], s.taken)
  /\ \A a, b \in 1 .. Len(s.groups) : a < b => Apart(s.groups[a], s.groups[b])
  /\ Orderly(hits, n) =>
       /\ \A a \in 1 .. Len(s.groups) : NothingLeft(c, hits, n, s.groups[a], s.taken)
       /\ \A a, b \in 1 .. Len(s.groups) : a < b => Away(c, hits, s.groups[a], s.groups[b])

\* The search goes far enough: what is near a hit is found.
LEMMA NearIsTaken ==
  ASSUME NEW c, NEW hits, NEW n \in Nat, n = Len(hits), NEW s, NEW i \in 1 .. n,
         Orderly(hits, n), NEW j \in i + 1 .. n, j \notin s.taken, Near(c, hits[i], hits[j])
  PROVE  j \in Taking(c, hits, s, i)
<1>1. Overlap \in Nat /\ TimeWindow \in Nat
  BY HandlerAssumption
<1>2. i \in 1 .. n /\ j \in 1 .. n /\ hits[i].time \in Int /\ hits[j].time \in Int
  BY DEF Orderly
<1>3. hits[j].time <= hits[i].time + TimeWindow
  <2>1. Distance(hits[i].time, hits[j].time) <= TimeWindow
    BY DEF Near
  <2> QED
    BY <1>1, <1>2, <2>1 DEF Distance
<1>4. ASSUME NEW k \in i + 1 .. j
      PROVE  hits[k].time - hits[i].time <= Overlap + TimeWindow
  <2>1. k \in 1 .. n /\ hits[k].time \in Int
    BY <1>2 DEF Orderly
  <2>2. hits[k].time <= hits[j].time + Overlap
    BY <1>1, <1>2, <2>1 DEF Orderly
  <2> QED
    BY <1>1, <1>2, <1>3, <2>1, <2>2
<1>5. j \in Examined(hits, i, s.taken)
  BY <1>4 DEF Examined
<1> QED
  BY <1>5 DEF Taking

\* A hit's turn keeps what is true of the groups.
LEMMA GroupsGrow ==
  ASSUME NEW c, NEW hits, NEW n \in Nat, n = Len(hits), NEW s \in Groupings(n),
         NEW i \in 1 .. n, Grouped(c, hits, n, s, i - 1), NEW t, t = Grow(c, hits, s, i)
  PROVE  Grouped(c, hits, n, t, i)
<1>1. PICK near : near = Taking(c, hits, s, i)
  OBVIOUS
<1>2. PICK g : g = s.groups
  OBVIOUS
<1>3. PICK m \in Nat : m = Len(g)
  BY <1>2 DEF Groupings
<1>4. /\ \A j \in 1 .. i - 1 : j \in s.taken
      /\ \A a \in 1 .. m : g[a][1] <= i - 1 /\ GroupOK(c, hits, g[a], s.taken)
      /\ \A a, b \in 1 .. m : a < b => Apart(g[a], g[b])
      /\ Orderly(hits, n) =>
           /\ \A a \in 1 .. m : NothingLeft(c, hits, n, g[a], s.taken)
           /\ \A a, b \in 1 .. m : a < b => Away(c, hits, g[a], g[b])
  BY <1>2, <1>3, Zenon DEF Grouped
<1>5. \A a \in 1 .. m : g[a] \in Seq(1 .. n) /\ Len(g[a]) \in Nat
  <2> DEFINE Y == Seq(1 .. n)
  <2>1. g \in Seq(Y)
    BY <1>2 DEF Groupings
  <2> HIDE DEF Y
  <2>2. \A a \in 1 .. m : g[a] \in Y
    BY <1>3, <2>1
  <2> QED
    BY <2>2 DEF Y
<1>6. \A a \in 1 .. m : g[a][1] \in 1 .. n
  <2> SUFFICES ASSUME NEW a \in 1 .. m PROVE g[a][1] \in 1 .. n
    OBVIOUS
  <2>1. PICK w : w = g[a]
    OBVIOUS
  <2>2. w \in Seq(1 .. n) /\ Len(w) >= 1
    BY <1>4, <1>5, <2>1 DEF GroupOK
  <2> QED
    BY <2>1, <2>2
<1>7. GrowsTo(s, t, n, i, near)
  BY <1>1, GrowIs
<1>8. CASE i \in s.taken
  <2>1. t = s
    BY <1>7, <1>8, Zenon DEF GrowsTo
  <2>2. \A j \in 1 .. i : j \in s.taken
    <3>1. \A j \in 1 .. i : j = i \/ j \in 1 .. i - 1
      OBVIOUS
    <3> QED
      BY <1>4, <1>8, <3>1, Zenon
  <2>3. \A a \in 1 .. m : g[a][1] <= i
    BY <1>4, <1>6
  <2> QED
    BY <1>2, <1>3, <1>4, <2>1, <2>2, <2>3, Zenon DEF Grouped
<1>9. CASE i \notin s.taken
  <2>1. near \in SUBSET (i + 1 .. n) /\ near \cap s.taken = {}
    BY <1>7, Zenon DEF GrowsTo
  <2>2. PICK w : Group(w, n, i, near) /\ t.groups = Append(g, w)
    BY <1>2, <1>7, <1>9, Zenon DEF GrowsTo
  <2>3. PICK taken : taken = t.taken
    OBVIOUS
  <2>4. taken = s.taken \cup {i} \cup near
    BY <1>7, <1>9, <2>3, Zenon DEF GrowsTo
  <2>5. PICK h : h = Append(g, w)
    OBVIOUS
  <2>6. Len(h) = m + 1 /\ h[m + 1] = w /\ \A a \in 1 .. m : h[a] = g[a]
    <3> DEFINE Y == Seq(1 .. n)
    <3>1. g \in Seq(Y) /\ w \in Y
      BY <1>2, <2>2 DEF Groupings, Group
    <3> HIDE DEF Y
    <3> QED
      BY <1>3, <2>5, <3>1, AppendType
  <2>7. w \in Seq(1 .. n) /\ Len(w) >= 1 /\ w[1] = i /\ Len(w) \in Nat
    BY <2>2 DEF Group
  <2>8. \A k \in 2 .. Len(w) : w[k] \in near /\ Near(c, hits[i], hits[w[k]])
    BY <1>1, <2>2 DEF Group, Taking
  <2>9. \A k \in 1 .. Len(w) : k = 1 \/ k \in 2 .. Len(w)
    BY <2>7
  <2>10. \A k \in 1 .. Len(w) : w[k] \in taken /\ w[k] \notin s.taken /\ w[k] >= i /\ w[k] \in 1 .. n
    BY <1>9, <2>1, <2>4, <2>7, <2>8, <2>9
  <2>11. GroupOK(c, hits, w, taken)
    <3>1. \A j, k \in 1 .. Len(w) : j # k => w[j] # w[k]
      BY <2>2 DEF Group
    <3>2. \A k \in 2 .. Len(w) : w[1] < w[k] /\ Near(c, hits[w[1]], hits[w[k]])
      BY <2>1, <2>7, <2>8
    <3> QED
      BY <2>7, <2>10, <3>1, <3>2 DEF GroupOK
  <2>12. \A a \in 1 .. m : GroupOK(c, hits, g[a], taken)
    BY <1>4, <2>4 DEF GroupOK
  <2>13. \A j \in 1 .. i : j \in taken
    <3>1. \A j \in 1 .. i : j = i \/ j \in 1 .. i - 1
      OBVIOUS
    <3> QED
      BY <1>4, <2>4, <3>1
  <2>14. \A a \in 1 .. m : Apart(g[a], w)
    <3> SUFFICES ASSUME NEW a \in 1 .. m PROVE Apart(g[a], w)
      OBVIOUS
    <3>1. g[a][1] < w[1]
      BY <1>4, <1>6, <2>7
    <3>2. \A j \in 1 .. Len(g[a]) : g[a][j] \in s.taken
      BY <1>4 DEF GroupOK
    <3> QED
      BY <2>10, <3>1, <3>2 DEF Apart
  <2>15. ASSUME Orderly(hits, n), NEW a \in 1 .. m
         PROVE  NothingLeft(c, hits, n, g[a], taken) /\ Away(c, hits, g[a], w)
    <3>1. NothingLeft(c, hits, n, g[a], s.taken)
      BY <1>4, <2>15
    <3>2. NothingLeft(c, hits, n, g[a], taken)
      BY <2>4, <3>1 DEF NothingLeft
    <3>3. \A k \in 1 .. Len(w) : g[a][1] < w[k]
      BY <1>4, <1>6, <2>10
    <3> QED
      BY <2>10, <3>1, <3>2, <3>3 DEF NothingLeft, Away
  <2>16. ASSUME Orderly(hits, n) PROVE NothingLeft(c, hits, n, w, taken)
    <3> SUFFICES ASSUME NEW j \in 1 .. n, j \notin taken, i < j, Near(c, hits[i], hits[j])
                 PROVE  FALSE
      BY <2>7 DEF NothingLeft
    <3>1. j \in i + 1 .. n /\ j \notin s.taken
      BY <2>4
    <3>2. j \in near
      BY <1>1, <2>16, <3>1, NearIsTaken, Zenon
    <3> QED
      BY <2>4, <3>2
  <2>17. \A a \in 1 .. m + 1 : a = m + 1 \/ a \in 1 .. m
    OBVIOUS
  <2>18. \A a \in 1 .. m + 1 : h[a][1] <= i /\ GroupOK(c, hits, h[a], taken)
    <3>1. \A a \in 1 .. m : g[a][1] <= i
      BY <1>4, <1>6
    <3>2. w[1] <= i
      BY <2>7
    <3> QED
      BY <2>6, <2>11, <2>12, <2>17, <3>1, <3>2, Zenon
  <2>19. \A a, b \in 1 .. m + 1 : a < b => a \in 1 .. m /\ (b = m + 1 \/ b \in 1 .. m)
    OBVIOUS
  <2>20. \A a, b \in 1 .. m + 1 : a < b => Apart(h[a], h[b])
    BY <1>4, <2>6, <2>14, <2>19, Zenon
  <2>21. Orderly(hits, n) =>
           /\ \A a \in 1 .. m + 1 : NothingLeft(c, hits, n, h[a], taken)
           /\ \A a, b \in 1 .. m + 1 : a < b => Away(c, hits, h[a], h[b])
    <3> SUFFICES ASSUME Orderly(hits, n)
                 PROVE  /\ \A a \in 1 .. m + 1 : NothingLeft(c, hits, n, h[a], taken)
                        /\ \A a, b \in 1 .. m + 1 : a < b => Away(c, hits, h[a], h[b])
      OBVIOUS
    <3>1. \A a \in 1 .. m + 1 : NothingLeft(c, hits, n, h[a], taken)
      BY <2>6, <2>15, <2>16, <2>17, Zenon
    <3>2. \A a, b \in 1 .. m + 1 : a < b => Away(c, hits, h[a], h[b])
      BY <1>4, <2>6, <2>15, <2>19, Zenon
    <3> QED
      BY <3>1, <3>2
  <2>22. t.groups = h
    BY <2>2, <2>5
  <2> QED
    BY <2>3, <2>6, <2>13, <2>18, <2>20, <2>21, <2>22, Zenon DEF Grouped
<1> QED
  BY <1>8, <1>9

\* When all hits have had their turn, each is in a group or has begun one.
LEMMA GroupsAreMade ==
  ASSUME NEW c, NEW hits, NEW n \in Nat, n = Len(hits)
  PROVE  /\ Grouping(c, hits) \in Groupings(n)
         /\ Grouped(c, hits, n, Grouping(c, hits), n)
<1>1. PICK f \in [0 .. n -> Groupings(n)] : Turns(f, c, hits, n)
  BY GroupingIs
<1>2. /\ f[0] = NoGroups /\ f[n] = Grouping(c, hits)
      /\ \A k \in 1 .. n : f[k] = Grow(c, hits, f[k - 1], k)
  BY <1>1 DEF Turns
<1> DEFINE S == { k \in Nat : k <= n => Grouped(c, hits, n, f[k], k) }
<1>3. 0 \in S
  <2>1. NoGroups.taken = {} /\ NoGroups.groups = <<>>
    BY DEF NoGroups
  <2>2. Grouped(c, hits, n, NoGroups, 0)
    BY <2>1 DEF Grouped
  <2> QED
    BY <1>2, <2>2
<1>4. ASSUME NEW k \in Nat, k \in S, k + 1 <= n
      PROVE  Grouped(c, hits, n, f[k + 1], k + 1)
  <2>1. k + 1 \in 1 .. n /\ k \in 0 .. n /\ (k + 1) - 1 = k /\ Grouped(c, hits, n, f[k], k)
    BY <1>4
  <2>2. f[k] \in Groupings(n)
    BY <2>1
  <2>3. f[k + 1] = Grow(c, hits, f[k], k + 1)
    BY <1>2, <2>1, Zenon
  <2>4. Grouped(c, hits, n, f[k], (k + 1) - 1)
    BY <2>1, Zenon
  <2> QED
    BY <2>1, <2>2, <2>3, <2>4, GroupsGrow, Zenon
<1>5. \A k \in Nat : k \in S => k + 1 \in S
  BY <1>4
<1> HIDE DEF S
<1>6. n \in S /\ n \in 0 .. n
  BY <1>3, <1>5, SetInduction
<1> QED
  BY <1>2, <1>6 DEF S

-----------------------------------------------------------------------------
(* What SimpleGrouper makes of the groups.                                 *)

\* The n members of s, the one with the highest energy first.
Reorders(o, s, n) ==
  /\ \E r \in [1 .. n -> 1 .. n] :
       /\ o = [k \in 1 .. n |-> s[r[k]]]
       /\ \A j \in 1 .. n : \E k \in 1 .. n : r[k] = j
  /\ \A j, k \in 1 .. n : j <= k => o[k].energy <= o[j].energy

\* The bubble sort loses no hit and puts them in order.
LEMMA ByEnergyIs ==
  ASSUME NEW n \in Nat, NEW s, DOMAIN s = 1 .. n, \A k \in 1 .. n : s[k].energy \in Int
  PROVE  Reorders(ByEnergy(s), s, n)
<1> DEFINE e == [k \in 1 .. n |-> s[k].energy]
           Before(i, j) == \/ Precedes(s[i].energy, s[j].energy)
                           \/ ~Precedes(s[j].energy, s[i].energy) /\ i < j
           R == { ij \in (1 .. n) \X (1 .. n) : Before(ij[1], ij[2]) }
           order == Sorted(1 .. n, R)
<1>1. ByEnergy(s) = [k \in DOMAIN order |-> s[order[k]]]
  BY Zenon DEF ByEnergy
<1>2. e \in [1 .. n -> Int]
  OBVIOUS
<1>3. \A i, j \in 1 .. n : <<i, j>> \in R <=> e[i] > e[j] \/ (~(e[j] > e[i]) /\ i < j)
  BY DEF Precedes
<1>4. \A k \in 1 .. n : s[k].energy = e[k]
  OBVIOUS
<1> HIDE DEF e, R, order
<1>5. IsOrder(1 .. n, R)
  <2>1. \A i \in 1 .. n : e[i] \in Int /\ i \in Int
    BY <1>2
  <2>2. \A x \in 1 .. n : <<x, x>> \notin R
    BY <1>3, <2>1
  <2>3. \A x, y, z \in 1 .. n : <<x, y>> \in R /\ <<y, z>> \in R => <<x, z>> \in R
    BY <1>3, <2>1
  <2>4. \A x, y \in 1 .. n : x # y => <<x, y>> \in R \/ <<y, x>> \in R
    BY <1>3, <2>1
  <2> QED
    BY <2>2, <2>3, <2>4 DEF IsOrder
<1>6. IsFiniteSet(1 .. n) /\ Cardinality(1 .. n) = n
  BY FS_Interval
<1>7. Lists(order, n, 1 .. n, R)
  <2>1. Lists(Sorted(1 .. n, R), Cardinality(1 .. n), 1 .. n, R)
    BY <1>5, <1>6, SortedIs
  <2> QED
    BY <1>6, <2>1 DEF order
<1>8. /\ order \in [1 .. n -> 1 .. n]
      /\ \A i, j \in 1 .. n : i < j => <<order[i], order[j]>> \in R
      /\ \A j \in 1 .. n : \E k \in 1 .. n : order[k] = j
  BY <1>7 DEF Lists
<1>9. ByEnergy(s) = [k \in 1 .. n |-> s[order[k]]]
  BY <1>1, <1>8
<1>10. ASSUME NEW j \in 1 .. n, NEW k \in 1 .. n, j <= k
       PROVE  s[order[k]].energy <= s[order[j]].energy
  <2>1. order[j] \in 1 .. n /\ order[k] \in 1 .. n
    BY <1>8
  <2>2. e[order[j]] \in Int /\ e[order[k]] \in Int
    BY <1>2, <2>1
  <2>3. e[order[k]] <= e[order[j]]
    <3>1. CASE j = k
      BY <2>2, <3>1
    <3>2. CASE j # k
      <4>1. <<order[j], order[k]>> \in R
        BY <1>8, <1>10, <3>2
      <4> QED
        BY <1>3, <2>1, <2>2, <4>1, SMTT(30)
    <3> QED
      BY <3>1, <3>2
  <2> QED
    BY <1>4, <2>1, <2>3
<1>11. \A j, k \in 1 .. n : j <= k => ByEnergy(s)[k].energy <= ByEnergy(s)[j].energy
  BY <1>9, <1>10
<1> QED
  BY <1>8, <1>9, <1>11, Zenon DEF Reorders

\* p is the photon of the group at the positions w.
IsPhoton(p, hits, w) ==
  /\ p.hits = [k \in 1 .. Len(w) |-> p.hits[k]]
  /\ \A k \in 1 .. Len(w) : \E j \in 1 .. Len(w) : p.hits[k] = hits[w[j]]
  /\ \A j \in 1 .. Len(w) : \E k \in 1 .. Len(w) : p.hits[k] = hits[w[j]]
  /\ \A j, k \in 1 .. Len(w) : j <= k => p.hits[k].energy <= p.hits[j].energy
  /\ p.time = p.hits[1].time /\ p.energy = p.hits[1].energy /\ p.region = p.hits[1].region

\* A photon has the hits of its group.
LEMMA PhotonIs ==
  ASSUME NEW n \in Nat, NEW hits, \A i \in 1 .. n : hits[i].energy \in Int, NEW w \in Seq(1 .. n)
  PROVE  IsPhoton(Photon(hits, w), hits, w)
<1>1. PICK m \in Nat : m = Len(w) /\ DOMAIN w = 1 .. m /\ \A k \in 1 .. m : w[k] \in 1 .. n
  OBVIOUS
<1>2. PICK s : s = [k \in 1 .. m |-> hits[w[k]]]
  OBVIOUS
<1>3. DOMAIN s = 1 .. m /\ \A k \in 1 .. m : s[k] = hits[w[k]] /\ s[k].energy \in Int
  BY <1>1, <1>2
<1>4. PICK o : o = ByEnergy(s)
  OBVIOUS
<1>5. Reorders(o, s, m)
  BY <1>3, <1>4, ByEnergyIs
<1>6. PICK r \in [1 .. m -> 1 .. m] :
        o = [k \in 1 .. m |-> s[r[k]]] /\ \A j \in 1 .. m : \E k \in 1 .. m : r[k] = j
  BY <1>5 DEF Reorders
<1>7. \A k \in 1 .. m : r[k] \in 1 .. m /\ o[k] = hits[w[r[k]]]
  BY <1>3, <1>6
<1>8. PICK p : p = Photon(hits, w)
  OBVIOUS
<1>9. p = [hits |-> o, time |-> o[1].time, energy |-> o[1].energy, region |-> o[1].region]
  BY <1>1, <1>2, <1>4, <1>8, Zenon DEF Photon
<1>10. p.hits = o /\ p.time = o[1].time /\ p.energy = o[1].energy /\ p.region = o[1].region
  BY <1>9
<1>11. o = [k \in 1 .. m |-> o[k]]
  BY <1>6
<1>12. \A k \in 1 .. m : \E j \in 1 .. m : o[k] = hits[w[j]]
  BY <1>7, Zenon
<1>13. \A j \in 1 .. m : \E k \in 1 .. m : o[k] = hits[w[j]]
  <2> SUFFICES ASSUME NEW j \in 1 .. m PROVE \E k \in 1 .. m : o[k] = hits[w[j]]
    OBVIOUS
  <2>1. PICK k \in 1 .. m : r[k] = j
    BY <1>6, Zenon
  <2> QED
    BY <1>7, <2>1, Zenon
<1>14. \A j, k \in 1 .. m : j <= k => o[k].energy <= o[j].energy
  BY <1>5 DEF Reorders
<1>15. IsPhoton(p, hits, w)
  BY <1>1, <1>10, <1>11, <1>12, <1>13, <1>14, Zenon DEF IsPhoton
<1> QED
  BY <1>8, <1>15

\* The photons of a block are those of some of its groups, in their order; v is
\* where the k-th one's hits are.
Photons(c, hits, n, photons, m, v) ==
  /\ photons = [k \in 1 .. m |-> photons[k]]
  /\ v \in [1 .. m -> Seq(1 .. n)]
  /\ \A k \in 1 .. m : IsPhoton(photons[k], hits, v[k]) /\ Len(v[k]) <= MaxHits
  /\ \A k \in 1 .. m : GroupOK(c, hits, v[k], 1 .. n)
  /\ \A j, k \in 1 .. m : j < k => Apart(v[j], v[k])
  /\ Orderly(hits, n) => \A j, k \in 1 .. m : j < k => Away(c, hits, v[j], v[k])

\* The groups that are kept make photons, and stay apart.
LEMMA PhotonsAre ==
  ASSUME NEW c, NEW hits, NEW n \in Nat, n = Len(hits), \A i \in 1 .. n : hits[i].energy \in Int
  PROVE  \E m \in Nat : \E v : Photons(c, hits, n, SimpleGrouper(c, hits), m, v)
<1>1. PICK s : s = Grouping(c, hits)
  OBVIOUS
<1>2. s \in Groupings(n) /\ Grouped(c, hits, n, s, n)
  BY <1>1, GroupsAreMade
<1>3. PICK g : g = s.groups
  OBVIOUS
<1>4. PICK l \in Nat : l = Len(g) /\ DOMAIN g = 1 .. l
  BY <1>2, <1>3 DEF Groupings
<1>5. \A a \in 1 .. l : g[a] \in Seq(1 .. n)
  <2> DEFINE Y == Seq(1 .. n)
  <2>1. g \in Seq(Y)
    BY <1>2, <1>3 DEF Groupings
  <2> HIDE DEF Y
  <2>2. \A a \in 1 .. l : g[a] \in Y
    BY <1>4, <2>1
  <2> QED
    BY <2>2 DEF Y
<1>6. /\ \A a \in 1 .. l : GroupOK(c, hits, g[a], s.taken)
      /\ \A a, b \in 1 .. l : a < b => Apart(g[a], g[b])
      /\ Orderly(hits, n) => \A a, b \in 1 .. l : a < b => Away(c, hits, g[a], g[b])
  BY <1>2, <1>3, <1>4, Zenon DEF Grouped
<1>7. s.taken \in SUBSET (1 .. n)
  BY <1>2 DEF Groupings
<1>8. \A a \in 1 .. l : GroupOK(c, hits, g[a], 1 .. n)
  BY <1>6, <1>7 DEF GroupOK
<1>9. PICK q : q = [a \in 1 .. l |-> Photon(hits, g[a])]
  OBVIOUS
<1>10. PICK I : I = { k \in 1 .. l : Len(g[k]) <= MaxHits /\ q[k].energy \in MinEnergy .. MaxEnergy }
  OBVIOUS
<1>11. PICK photons : photons = SimpleGrouper(c, hits)
  OBVIOUS
<1>12. photons = Selected(q, I)
  BY <1>1, <1>3, <1>4, <1>9, <1>10, <1>11, Zenon DEF SimpleGrouper
<1>13. I \in SUBSET (1 .. l) /\ \A k \in I : Len(g[k]) <= MaxHits
  BY <1>10
<1>14. PICK m \in Nat : \E o : Selects(photons, q, I, m, o)
  BY <1>12, <1>13, SelectedIs
<1>15. PICK o : Selects(photons, q, I, m, o)
  BY <1>14
<1>16. photons = [k \in 1 .. m |-> q[o[k]]] /\ Lists(o, m, I, Ascending(I))
  BY <1>15 DEF Selects
<1>17. /\ o \in [1 .. m -> I]
       /\ \A i, j \in 1 .. m : i < j => o[i] < o[j]
  <2>1. \A x, y : <<x, y>> \in Ascending(I) => x < y
    <3>1. I \in SUBSET Int
      BY <1>13
    <3> QED
      BY <3>1, AscendingIs
  <2> QED
    BY <1>16, <2>1, Zenon DEF Lists
<1>18. PICK v : v = [k \in 1 .. m |-> g[o[k]]]
  OBVIOUS
<1>19. \A k \in 1 .. m : o[k] \in I /\ o[k] \in 1 .. l /\ v[k] = g[o[k]] /\ photons[k] = q[o[k]]
  BY <1>13, <1>16, <1>17, <1>18
<1>20. \A k \in 1 .. m : IsPhoton(photons[k], hits, v[k])
  <2>1. \A a \in 1 .. l : IsPhoton(q[a], hits, g[a])
    <3>1. \A a \in 1 .. l : q[a] = Photon(hits, g[a])
      BY <1>9
    <3> QED
      BY <1>5, <3>1, PhotonIs
  <2> QED
    BY <1>19, <2>1, Zenon
<1>21. v \in [1 .. m -> Seq(1 .. n)]
  <2> DEFINE Y == Seq(1 .. n)
  <2>1. \A k \in 1 .. m : v[k] \in Y
    BY <1>5, <1>19
  <2> HIDE DEF Y
  <2>2. v \in [1 .. m -> Y]
    BY <1>18, <2>1
  <2> QED
    BY <2>2 DEF Y
<1>22. \A k \in 1 .. m : Len(v[k]) <= MaxHits
  BY <1>13, <1>19, Zenon
<1>23. \A k \in 1 .. m : GroupOK(c, hits, v[k], 1 .. n)
  BY <1>8, <1>19, Zenon
<1>24. \A j, k \in 1 .. m : j < k => Apart(v[j], v[k])
  BY <1>6, <1>17, <1>19, Zenon
<1>25. Orderly(hits, n) => \A j, k \in 1 .. m : j < k => Away(c, hits, v[j], v[k])
  BY <1>6, <1>17, <1>19, Zenon
<1>26. photons = [k \in 1 .. m |-> photons[k]]
  BY <1>16
<1>27. Photons(c, hits, n, photons, m, v)
  BY <1>20, <1>21, <1>22, <1>23, <1>24, <1>25, <1>26, Zenon DEF Photons
<1> QED
  BY <1>11, <1>27, Zenon

-----------------------------------------------------------------------------
(* A block of the acquisition and its hits.                                *)

IsBlock(raws) ==
  \E s \in DOMAIN run.steps : \E b \in DOMAIN run.steps[s] : raws = run.steps[s][b]

\* Hits' numbers tell them apart.
Numbered(raws) == \A i, k \in DOMAIN raws : raws[i].no = raws[k].no => i = k

\* A block of an acquisition that there may be.
LEMMA BlockIs ==
  ASSUME NEW raws, IsBlock(raws), run \in Runs
  PROVE  /\ raws \in Seq(RawHits) /\ Numbered(raws)
         /\ files \in Configurations /\ CanLoad(files) =>
              \A i \in DOMAIN raws : FineOK(files, run, raws[i])
<1>1. PICK s \in DOMAIN run.steps : \E b \in DOMAIN run.steps[s] : raws = run.steps[s][b]
  BY DEF IsBlock
<1>2. PICK b \in DOMAIN run.steps[s] : raws = run.steps[s][b]
  BY <1>1
<1>3. RunOK(run)
  BY ConversionAssumption
<1>4. raws \in Seq(RawHits)
  <2> DEFINE X == Seq(RawHits)
  <2> DEFINE Y == Seq(X)
  <2>1. run.steps \in Seq(Y)
    BY <1>3 DEF RunOK
  <2> HIDE DEF Y
  <2>2. run.steps[s] \in Y
    BY <2>1
  <2>3. run.steps[s] \in Seq(X)
    BY <2>2 DEF Y
  <2> HIDE DEF X
  <2>4. run.steps[s][b] \in X
    BY <2>3
  <2> QED
    BY <1>2, <2>4 DEF X
<1>5. Numbered(raws)
  BY <1>2, <1>3 DEF RunOK, Numbered
<1>6. ASSUME files \in Configurations, CanLoad(files)
      PROVE  \A i \in DOMAIN raws : FineOK(files, run, raws[i])
  <2>1. \A r \in Runs : \A t \in DOMAIN r.steps : \A c \in DOMAIN r.steps[t] :
          \A i \in DOMAIN r.steps[t][c] : FineOK(files, r, r.steps[t][c][i])
    BY <1>6, ConversionAssumption
  <2> QED
    BY <1>2, <2>1
<1> QED
  BY <1>4, <1>5, <1>6

\* How far the sorter and the calibrations put hits out of order, at most.
Slack == 24 + 2 * MaxOffset

\* The n hits of a block.
HitsOK(hits, raws, n) ==
  /\ Len(hits) = n /\ DOMAIN hits = 1 .. n
  /\ \A i \in 1 .. n :
       /\ hits[i].time \in Int /\ hits[i].energy \in Int /\ hits[i].raw \in ToSet(raws)
       /\ ~FromTrigger(hits[i].raw, run.triggerID) => hits[i].region \in Regions
  /\ \A i, j \in 1 .. n : hits[i].raw = hits[j].raw => i = j
  /\ \A i, j \in 1 .. n : i < j => hits[i].time <= hits[j].time + Slack

\* Calibrations move a hit by MaxOffset at most, and bins leave those within one
\* out of order: the sum is the slack of a block's hits.
LEMMA HitsAre ==
  ASSUME Ready, NEW raws, IsBlock(raws), NEW n \in Nat, NEW o, NEW hits, Handles(hits, raws, n, o)
  PROVE  HitsOK(hits, raws, n)
<1>1. /\ run \in Runs /\ files \in Configurations /\ CanLoad(files)
      /\ raws \in Seq(RawHits) /\ Numbered(raws)
      /\ \A i \in DOMAIN raws : FineOK(files, run, raws[i])
  BY BlockIs DEF Ready
<1>2. PICK l \in Nat : l = Len(raws) /\ DOMAIN raws = 1 .. l
  BY <1>1
<1>3. /\ hits = [k \in 1 .. n |-> HitOf(raws[o[k]])]
      /\ \A k \in 1 .. n : o[k] \in 1 .. l /\ Passes(raws[o[k]])
      /\ \A i, j \in 1 .. n : i # j => o[i] # o[j]
      /\ \A i, j \in 1 .. n : i < j => raws[o[i]].time <= raws[o[j]].time + 6
  BY <1>2 DEF Handles
<1>4. \A k \in 1 .. n : raws[o[k]] \in RawHits /\ FineOK(files, run, raws[o[k]])
  BY <1>1, <1>2, <1>3
<1>5. ASSUME NEW i \in 1 .. n
      PROVE  /\ hits[i].raw = raws[o[i]]
             /\ hits[i].time \in Int /\ hits[i].energy \in Int
             /\ hits[i].time >= 4 * raws[o[i]].time - MaxOffset
             /\ hits[i].time <= 4 * raws[o[i]].time + MaxOffset
             /\ ~FromTrigger(hits[i].raw, run.triggerID) => hits[i].region \in Regions
  <2>1. PICK raw \in RawHits : raw = raws[o[i]] /\ FineOK(files, run, raw) /\ Passes(raw)
    BY <1>3, <1>4
  <2>2. hits[i] = HitOf(raw)
    BY <1>3, <2>1
  <2>3. PICK h : h = HitOf(raw)
    OBVIOUS
  <2>4. /\ h.raw = raw /\ h.time \in Int /\ h.energy \in Int
        /\ h.time >= 4 * raw.time - MaxOffset /\ h.time <= 4 * raw.time + MaxOffset
        /\ ~FromTrigger(raw, run.triggerID) => h.region \in Regions
    BY <2>1, <2>3, HitIs
  <2> QED
    BY <2>1, <2>2, <2>3, <2>4
<1>6. Len(hits) = n /\ DOMAIN hits = 1 .. n
  <2> DEFINE X == { HitOf(raws[o[k]]) : k \in 1 .. n }
  <2>1. hits \in [1 .. n -> X]
    BY <1>3
  <2> HIDE DEF X
  <2> QED
    BY <2>1, FunctionIsSeq
<1>7. \A i \in 1 .. n : hits[i].raw \in ToSet(raws)
  BY <1>2, <1>3, <1>5 DEF ToSet
<1>8. ASSUME NEW i \in 1 .. n, NEW j \in 1 .. n, hits[i].raw = hits[j].raw
      PROVE  i = j
  <2>1. raws[o[i]] = raws[o[j]]
    BY <1>5, <1>8
  <2>2. o[i] = o[j]
    BY <1>1, <1>2, <1>3, <2>1 DEF Numbered
  <2> QED
    BY <1>3, <2>2
<1>9. ASSUME NEW i \in 1 .. n, NEW j \in 1 .. n, i < j
      PROVE  hits[i].time <= hits[j].time + Slack
  <2>1. raws[o[i]].time \in Int /\ raws[o[j]].time \in Int
    BY <1>4 DEF RawHits
  <2>2. MaxOffset \in Nat
    BY ConversionAssumption
  <2>3. raws[o[i]].time <= raws[o[j]].time + 6
    BY <1>3, <1>9
  <2>4. /\ hits[i].time <= 4 * raws[o[i]].time + MaxOffset
        /\ hits[j].time >= 4 * raws[o[j]].time - MaxOffset
        /\ hits[i].time \in Int /\ hits[j].time \in Int
    BY <1>5
  <2> QED
    BY <2>1, <2>2, <2>3, <2>4 DEF Slack
<1> QED
  BY <1>5, <1>6, <1>7, <1>8, <1>9, Zenon DEF HitsOK

\* The search goes as far as hits are out of order.
LEMMA HitsAreOrderly ==
  ASSUME NEW raws, NEW n \in Nat, NEW hits, HitsOK(hits, raws, n), Slack <= Overlap
  PROVE  Orderly(hits, n)
<1>1. Overlap \in Nat /\ Slack \in Nat
  BY HandlerAssumption, ConversionAssumption DEF Slack
<1> QED
  BY <1>1 DEF HitsOK, Orderly

-----------------------------------------------------------------------------
(* Groups, as GroupsAreRight has them.                                     *)

\* What lastBuffer holds when programs make groups.
HasPhotons(raws, n, m, v) ==
  /\ HitsOK(lastBuffer.hits, raws, n)
  /\ Photons(config, lastBuffer.hits, n, lastBuffer.photons, m, v)

\* The photon p's hits are at its group's positions, the first is the seed.
At(p, w, n) ==
  /\ w \in Seq(1 .. n) /\ Len(w) >= 1
  /\ Positions(p) = { w[j] : j \in 1 .. Len(w) }
  /\ Seed(p) = lastBuffer.hits[w[1]]

\* A photon is where its group is.
LEMMA PositionsAre ==
  ASSUME NEW raws, NEW n \in Nat, NEW m \in Nat, NEW v, HasPhotons(raws, n, m, v),
         NEW k \in 1 .. m
  PROVE  At(lastBuffer.photons[k], v[k], n)
<1> DEFINE p == lastBuffer.photons[k]
           w == v[k]
<1> HIDE DEF p, w
<1>1. p = lastBuffer.photons[k] /\ w = v[k]
  BY DEF p, w
<1>2. PICK hits : hits = lastBuffer.hits
  OBVIOUS
<1>3. /\ DOMAIN hits = 1 .. n
      /\ \A i, j \in 1 .. n : hits[i].raw = hits[j].raw => i = j
  BY <1>2 DEF HasPhotons, HitsOK
<1>4. w \in Seq(1 .. n) /\ GroupOK(config, hits, w, 1 .. n) /\ IsPhoton(p, hits, w)
  BY <1>1, <1>2 DEF HasPhotons, Photons
<1>5. PICK l \in Nat : l = Len(w) /\ l >= 1 /\ \A j \in 1 .. l : w[j] \in 1 .. n
  BY <1>4 DEF GroupOK
<1>6. /\ p.hits = [i \in 1 .. l |-> p.hits[i]]
      /\ \A i \in 1 .. l : \E j \in 1 .. l : p.hits[i] = hits[w[j]]
      /\ \A j \in 1 .. l : \E i \in 1 .. l : p.hits[i] = hits[w[j]]
  BY <1>4, <1>5 DEF IsPhoton
<1>7. ToSet(p.hits) = { p.hits[i] : i \in 1 .. l }
  BY <1>6 DEF ToSet
<1>8. ToSet(p.hits) = { hits[w[j]] : j \in 1 .. l }
  <2>1. \A i \in 1 .. l : p.hits[i] \in { hits[w[j]] : j \in 1 .. l }
    BY <1>6, Zenon
  <2>2. \A j \in 1 .. l : hits[w[j]] \in { p.hits[i] : i \in 1 .. l }
    BY <1>6, Zenon
  <2> QED
    BY <1>7, <2>1, <2>2, Zenon
<1>9. Positions(p) = { i \in 1 .. n : hits[i] \in ToSet(p.hits) }
  BY <1>2, <1>3 DEF Positions
<1>10. Positions(p) = { w[j] : j \in 1 .. l }
  <2>1. ASSUME NEW i \in Positions(p) PROVE \E j \in 1 .. l : i = w[j]
    <3>1. PICK j \in 1 .. l : hits[i] = hits[w[j]]
      BY <1>8, <1>9
    <3> QED
      BY <1>3, <1>5, <1>9, <3>1
  <2>2. ASSUME NEW j \in 1 .. l PROVE w[j] \in Positions(p)
    BY <1>5, <1>8, <1>9
  <2> QED
    BY <2>1, <2>2
<1>11. Min(Positions(p)) = w[1]
  <2>1. Positions(p) \in SUBSET Nat /\ w[1] \in Positions(p)
    BY <1>5, <1>9, <1>10
  <2>2. Min(Positions(p)) \in Positions(p) /\ \A i \in Positions(p) : Min(Positions(p)) <= i
    BY <2>1, MinIs
  <2>3. \A j \in 1 .. l : w[1] <= w[j]
    <3>1. \A j \in 2 .. l : w[1] < w[j]
      BY <1>4, <1>5 DEF GroupOK
    <3>2. \A j \in 1 .. l : j = 1 \/ j \in 2 .. l
      OBVIOUS
    <3> QED
      BY <1>5, <3>1, <3>2
  <2>4. PICK j \in 1 .. l : Min(Positions(p)) = w[j]
    BY <1>10, <2>2
  <2>5. w[1] <= w[j] /\ w[j] <= w[1] /\ w[1] \in Nat /\ w[j] \in Nat
    BY <1>5, <2>1, <2>2, <2>3, <2>4
  <2> QED
    BY <2>4, <2>5
<1> QED
  BY <1>1, <1>2, <1>4, <1>5, <1>10, <1>11 DEF Seed, At

\* Groups of a block whose hits are out of order by no more than the overlap.
LEMMA GroupsAreOfBlock ==
  ASSUME Slack <= Overlap, NEW raws, NEW n \in Nat, NEW m \in Nat, NEW v, HasPhotons(raws, n, m, v)
  PROVE  GroupsAreRight
<1>1. PICK hits : hits = lastBuffer.hits
  OBVIOUS
<1>2. PICK photons : photons = lastBuffer.photons
  OBVIOUS
<1>3. photons = [k \in 1 .. m |-> photons[k]]
  BY <1>2 DEF HasPhotons, Photons
<1>4. DOMAIN photons = 1 .. m /\ ToSet(photons) = { photons[k] : k \in 1 .. m }
  BY <1>3 DEF ToSet
<1>5. /\ \A k \in 1 .. m : GroupOK(config, hits, v[k], 1 .. n)
      /\ \A j, k \in 1 .. m : j < k => Apart(v[j], v[k]) /\ Away(config, hits, v[j], v[k])
  <2>1. Orderly(hits, n)
    BY <1>1, HitsAreOrderly DEF HasPhotons
  <2> QED
    BY <1>1, <2>1 DEF HasPhotons, Photons
<1>6. ASSUME NEW k \in 1 .. m
      PROVE  /\ v[k] \in Seq(1 .. n) /\ Len(v[k]) >= 1
             /\ Positions(photons[k]) = { v[k][j] : j \in 1 .. Len(v[k]) }
             /\ Seed(photons[k]) = hits[v[k][1]]
  <2>1. PICK p : p = lastBuffer.photons[k]
    OBVIOUS
  <2>2. PICK w : w = v[k]
    OBVIOUS
  <2>3. At(p, w, n)
    BY <1>6, <2>1, <2>2, PositionsAre
  <2> QED
    BY <1>1, <1>2, <2>1, <2>2, <2>3, Zenon DEF At
<1>7. ASSUME NEW k \in 1 .. m, NEW i \in Positions(photons[k])
      PROVE  hits[i] = Seed(photons[k]) \/ Near(config, Seed(photons[k]), hits[i])
  <2>1. PICK w : w = v[k]
    OBVIOUS
  <2>2. PICK j \in 1 .. Len(w) : i = w[j]
    BY <1>6, <1>7, <2>1
  <2>3. w \in Seq(1 .. n) /\ Seed(photons[k]) = hits[w[1]]
    BY <1>6, <2>1
  <2>4. CASE j = 1
    BY <2>2, <2>3, <2>4
  <2>5. CASE j # 1
    <3>1. j \in 2 .. Len(w)
      BY <2>3, <2>5
    <3>2. Near(config, hits[w[1]], hits[w[j]])
      BY <1>5, <2>1, <3>1 DEF GroupOK
    <3> QED
      BY <2>2, <2>3, <3>2, Zenon
  <2> QED
    BY <2>4, <2>5
<1>8. ASSUME NEW k \in 1 .. m, NEW l \in 1 .. m, k < l, NEW i \in Positions(photons[l])
      PROVE  i \notin Positions(photons[k]) /\ ~Near(config, Seed(photons[k]), hits[i])
  <2>1. PICK j \in 1 .. Len(v[l]) : i = v[l][j]
    BY <1>6, <1>8
  <2>2. Apart(v[k], v[l]) /\ Away(config, hits, v[k], v[l])
    BY <1>5, <1>8
  <2>3. ~Near(config, hits[v[k][1]], hits[i])
    BY <2>1, <2>2, Zenon DEF Away
  <2>4. \A a \in 1 .. Len(v[k]) : v[k][a] # i
    BY <2>1, <2>2, Zenon DEF Apart
  <2> QED
    BY <1>6, <2>3, <2>4
<1>9. \A p \in ToSet(photons) : \A i \in Positions(p) :
        hits[i] = Seed(p) \/ Near(config, Seed(p), hits[i])
  BY <1>4, <1>7, Zenon
<1>10. \A k, l \in DOMAIN photons : k < l =>
         \A i \in Positions(photons[l]) :
           i \notin Positions(photons[k]) /\ ~Near(config, Seed(photons[k]), hits[i])
  BY <1>4, <1>8, Zenon
<1> QED
  BY <1>1, <1>2, <1>9, <1>10, Zenon DEF GroupsAreRight

-----------------------------------------------------------------------------
(* Coincidences, as NoCoincidenceIsMissed has them.                        *)

\* Two pairs of regions do not share a place in the arrays of the trigger map.
LEMMA IndexIs ==
  ASSUME NEW a \in Regions, NEW b \in Regions, NEW c \in Regions, NEW d \in Regions,
         Index(a, b) = Index(c, d)
  PROVE  a = c /\ b = d
<1>1. MaxRegions \in Nat \ {0}
  BY ConfigAssumption
<1>2. /\ a \in Nat /\ b \in Nat /\ c \in Nat /\ d \in Nat
      /\ b < MaxRegions /\ d < MaxRegions
  BY <1>1 DEF Regions
<1>3. ASSUME NEW x \in Nat, NEW y \in Nat, x < y
      PROVE  x * MaxRegions + MaxRegions <= y * MaxRegions
  <2>1. PICK z \in Nat : y = x + 1 + z
    <3>1. y - x - 1 \in Nat /\ y = x + 1 + (y - x - 1)
      BY <1>3
    <3> QED
      BY <3>1
  <2>2. y * MaxRegions = x * MaxRegions + MaxRegions + z * MaxRegions
    BY <1>1, <2>1
  <2>3. z * MaxRegions \in Nat /\ x * MaxRegions \in Nat
    BY <1>1
  <2> QED
    BY <1>1, <2>2, <2>3
<1>4. a * MaxRegions + b = c * MaxRegions + d
  BY DEF Index
<1>5. a * MaxRegions \in Nat /\ c * MaxRegions \in Nat
  BY <1>1, <1>2
<1>6. ~(a < c)
  <2> SUFFICES ASSUME a < c PROVE FALSE
    OBVIOUS
  <2>1. a * MaxRegions + MaxRegions <= c * MaxRegions
    BY <1>2, <1>3
  <2> QED
    BY <1>1, <1>2, <1>4, <1>5, <2>1
<1>7. ~(c < a)
  <2> SUFFICES ASSUME c < a PROVE FALSE
    OBVIOUS
  <2>1. c * MaxRegions + MaxRegions <= a * MaxRegions
    BY <1>2, <1>3
  <2> QED
    BY <1>1, <1>2, <1>4, <1>5, <2>1
<1>8. a = c
  BY <1>2, <1>6, <1>7
<1> QED
  BY <1>2, <1>4, <1>5, <1>8

\* The trigger map allows what the file's last word on two regions does.
LEMMA AllowedIs ==
  ASSUME Ready, NEW a \in Regions, NEW b \in Regions
  PROVE  Allowed(config.coincidence, a, b) <=> Kind(a, b) = "C"
<1>1. PICK n \in Noise : Loaded(config, n)
  BY DEF Ready
<1>2. config.coincidence \in SUBSET (Regions \X Regions)
  BY <1>1 DEF Loaded, Config, TriggerTable
<1>3. <<a, b>> \in config.coincidence <=> Kind(a, b) = "C"
  BY <1>1 DEF Loaded
<1>4. ASSUME NEW p \in config.coincidence, Index(p[1], p[2]) = Index(a, b)
      PROVE  p = <<a, b>>
  <2>1. p[1] \in Regions /\ p[2] \in Regions /\ p = <<p[1], p[2]>>
    BY <1>2
  <2>2. p[1] = a /\ p[2] = b
    BY <1>4, <2>1, IndexIs
  <2> QED
    BY <2>1, <2>2
<1>5. <<a, b>>[1] = a /\ <<a, b>>[2] = b
  OBVIOUS
<1> QED
  BY <1>3, <1>4, <1>5, Zenon DEF Allowed

\* A photon's time and region are those of hit a, which is near its first, i, and
\* not before it.
TimeFrom(p, a, i) ==
  /\ p.time = lastBuffer.hits[a].time /\ p.region = lastBuffer.hits[a].region
  /\ i \in 1 .. a
  /\ Distance(lastBuffer.hits[i].time, lastBuffer.hits[a].time) <= TimeWindow

\* A photon's time is that of a hit within the window of its group's first.
LEMMA PhotonTime ==
  ASSUME NEW raws, NEW n \in Nat, NEW m \in Nat, NEW v, HasPhotons(raws, n, m, v),
         NEW k \in 1 .. m
  PROVE  \E a \in 1 .. n : TimeFrom(lastBuffer.photons[k], a, v[k][1])
<1> DEFINE p == lastBuffer.photons[k]
           w == v[k]
           hits == lastBuffer.hits
<1> HIDE DEF p, w, hits
<1>1. p = lastBuffer.photons[k] /\ w = v[k] /\ hits = lastBuffer.hits
  BY DEF p, w, hits
<1>2. /\ \A i \in 1 .. n : hits[i].time \in Int
      /\ w \in Seq(1 .. n) /\ GroupOK(config, hits, w, 1 .. n) /\ IsPhoton(p, hits, w)
  BY <1>1 DEF HasPhotons, HitsOK, Photons
<1>3. PICK l \in Nat : l = Len(w) /\ l >= 1 /\ \A j \in 1 .. l : w[j] \in 1 .. n
  BY <1>2, SMTT(30) DEF GroupOK
<1>4. /\ \A i \in 1 .. l : \E j \in 1 .. l : p.hits[i] = hits[w[j]]
      /\ p.time = p.hits[1].time /\ p.region = p.hits[1].region
  BY <1>2, <1>3 DEF IsPhoton
<1>5. PICK j \in 1 .. l : p.hits[1] = hits[w[j]]
  BY <1>3, <1>4
<1>6. w[j] \in 1 .. n /\ w[1] \in 1 .. n
  BY <1>3
<1>7. w[1] <= w[j] /\ Distance(hits[w[1]].time, hits[w[j]].time) <= TimeWindow
  <2>1. CASE j = 1
    <3>1. hits[w[1]].time \in Int /\ TimeWindow \in Nat
      BY <1>2, <1>6, HandlerAssumption
    <3> QED
      BY <1>6, <2>1, <3>1 DEF Distance
  <2>2. CASE j # 1
    <3>1. j \in 2 .. l
      BY <2>2
    <3>2. w[1] < w[j] /\ Near(config, hits[w[1]], hits[w[j]])
      BY <1>2, <1>3, <3>1 DEF GroupOK
    <3> QED
      BY <1>6, <3>2 DEF Near
  <2> QED
    BY <2>1, <2>2
<1>8. w[1] \in 1 .. w[j]
  BY <1>6, <1>7
<1>9. /\ p.time = hits[w[j]].time /\ p.region = hits[w[j]].region
  BY <1>4, <1>5
<1>10. TimeFrom(p, w[j], w[1])
  BY <1>1, <1>7, <1>8, <1>9 DEF TimeFrom
<1> QED
  BY <1>1, <1>6, <1>10, Zenon

\* Photons are out of order by no more than hits are, and the time window.
LEMMA PhotonsAreOrderly ==
  ASSUME NEW raws, NEW n \in Nat, NEW m \in Nat, NEW v, HasPhotons(raws, n, m, v),
         NEW j \in 1 .. m, NEW k \in 1 .. m, j < k
  PROVE  /\ lastBuffer.photons[j].time \in Int /\ lastBuffer.photons[k].time \in Int
         /\ lastBuffer.photons[j].time <= lastBuffer.photons[k].time + Slack + TimeWindow
<1> DEFINE p == lastBuffer.photons[j]
           q == lastBuffer.photons[k]
           hits == lastBuffer.hits
<1>1. PICK a \in 1 .. n : TimeFrom(p, a, v[j][1])
  BY PhotonTime
<1>2. /\ p.time = hits[a].time /\ v[j][1] \in 1 .. a
      /\ Distance(hits[v[j][1]].time, hits[a].time) <= TimeWindow
  BY <1>1 DEF TimeFrom
<1>3. PICK b \in 1 .. n : TimeFrom(q, b, v[k][1])
  BY PhotonTime
<1>4. q.time = hits[b].time /\ v[k][1] \in 1 .. b
  BY <1>3 DEF TimeFrom
<1>5. v[j][1] < v[k][1]
  BY DEF HasPhotons, Photons, Apart
<1>6. v[j][1] \in 1 .. n /\ v[j][1] < b
  BY <1>2, <1>4, <1>5
<1>7. PICK i \in 1 .. n : i = v[j][1]
  BY <1>6
<1> HIDE DEF p, q, hits
<1>8. /\ \A x \in 1 .. n : hits[x].time \in Int
      /\ \A x, y \in 1 .. n : x < y => hits[x].time <= hits[y].time + Slack
  BY DEF HasPhotons, HitsOK, hits
<1>9. Slack \in Nat /\ TimeWindow \in Nat
  BY HandlerAssumption, ConversionAssumption DEF Slack
<1>10. hits[i].time <= hits[b].time + Slack
  BY <1>6, <1>7, <1>8
<1>11. hits[a].time <= hits[i].time + TimeWindow
  BY <1>2, <1>7, <1>8, <1>9 DEF Distance
<1>12. p.time \in Int /\ q.time \in Int /\ p.time <= q.time + Slack + TimeWindow
  BY <1>2, <1>4, <1>7, <1>8, <1>9, <1>10, <1>11
<1> QED
  BY <1>12 DEF p, q

\* Without a trigger unit photons have regions.
LEMMA PhotonRegion ==
  ASSUME NEW raws, raws \in Seq(RawHits), NEW n \in Nat, NEW m \in Nat, NEW v, HasPhotons(raws, n, m, v),
         NEW k \in 1 .. m, run.triggerID = -1
  PROVE  lastBuffer.photons[k].region \in Regions /\ lastBuffer.photons[k].time \in Int
<1>1. PICK a \in 1 .. n : TimeFrom(lastBuffer.photons[k], a, v[k][1])
  BY PhotonTime
<1>2. /\ lastBuffer.photons[k].time = lastBuffer.hits[a].time
      /\ lastBuffer.photons[k].region = lastBuffer.hits[a].region
  BY <1>1 DEF TimeFrom
<1>3. PICK h : h = lastBuffer.hits[a]
  OBVIOUS
<1>4. /\ h.time \in Int /\ h.raw \in ToSet(raws)
      /\ ~FromTrigger(h.raw, run.triggerID) => h.region \in Regions
  BY <1>3 DEF HasPhotons, HitsOK
<1>5. PICK raw : raw = h.raw
  OBVIOUS
<1>6. raw \in RawHits
  BY <1>4, <1>5 DEF ToSet
<1>7. raw.channelID \in Nat
  BY <1>6, ConfigAssumption DEF RawHits
<1>8. raw.channelID \div 2048 \in Nat
  BY <1>7
<1>9. ~FromTrigger(raw, run.triggerID)
  BY <1>8 DEF FromTrigger
<1> QED
  BY <1>2, <1>3, <1>4, <1>5, <1>9, Zenon

\* What CoincidenceGrouper finds, and what it makes of it.
Found(c, photons) ==
  { ij \in (DOMAIN photons) \X (DOMAIN photons) :
      /\ ij[2] \in InReach(photons, ij[1])
      /\ Allowed(c.coincidence, photons[ij[1]].region, photons[ij[2]].region)
      /\ Distance(photons[ij[1]].time, photons[ij[2]].time) <= CoincidenceWindow }

Pair(p, q) == IF p.region > q.region THEN <<p, q>> ELSE <<q, p>>

\* pairs has those of the l found, o says which.
PairsOf(pairs, photons, found, l, o) ==
  /\ pairs = [k \in 1 .. l |-> Pair(photons[o[k][1]], photons[o[k][2]])]
  /\ Len(pairs) = l /\ DOMAIN pairs = 1 .. l
  /\ o \in [1 .. l -> found] /\ \A ij \in found : \E k \in 1 .. l : o[k] = ij

\* The grouper makes a pair of each two photons that it finds.
LEMMA PairsAre ==
  ASSUME NEW c, NEW photons, NEW m \in Nat, DOMAIN photons = 1 .. m,
         NEW found, found = Found(c, photons)
  PROVE  /\ Cardinality(found) \in Nat
         /\ \E o : PairsOf(CoincidenceGrouper(c, photons), photons, found, Cardinality(found), o)
<1> DEFINE pairs == CoincidenceGrouper(c, photons)
           order == Sorted(found, Lexicographic(found))
<1>1. pairs = [k \in DOMAIN order |-> Pair(photons[order[k][1]], photons[order[k][2]])]
  BY Zenon DEF CoincidenceGrouper, Found, Pair
<1>2. found \in SUBSET ((1 .. m) \X (1 .. m))
  BY DEF Found
<1> HIDE DEF pairs, order
<1>3. IsFiniteSet(found)
  <2>1. IsFiniteSet(1 .. m)
    BY FS_Interval
  <2>2. IsFiniteSet((1 .. m) \X (1 .. m))
    BY <2>1, FS_Product
  <2> QED
    BY <1>2, <2>2, FS_Subset
<1>4. IsOrder(found, Lexicographic(found))
  <2>1. found \in SUBSET (Int \X Int)
    BY <1>2
  <2> QED
    BY <2>1, LexicographicIs
<1>5. PICK l \in Nat : l = Cardinality(found) /\ Lists(order, l, found, Lexicographic(found))
  BY <1>3, <1>4, SortedIs DEF order
<1>6. order \in [1 .. l -> found] /\ \A ij \in found : \E k \in 1 .. l : order[k] = ij
  BY <1>5 DEF Lists
<1>7. pairs = [k \in 1 .. l |-> Pair(photons[order[k][1]], photons[order[k][2]])]
  BY <1>1, <1>6
<1>8. DOMAIN pairs = 1 .. l /\ Len(pairs) = l
  <2> DEFINE X == { Pair(photons[order[k][1]], photons[order[k][2]]) : k \in 1 .. l }
  <2>1. pairs \in [1 .. l -> X]
    BY <1>7
  <2> HIDE DEF X
  <2> QED
    BY <2>1, FunctionIsSeq
<1>9. PairsOf(pairs, photons, found, l, order)
  BY <1>6, <1>7, <1>8, Zenon DEF PairsOf
<1> QED
  BY <1>5, <1>9 DEF pairs

\* The photons of a block are a sequence.
LEMMA PhotonsLength ==
  ASSUME NEW c, NEW hits, NEW n, NEW photons, NEW m \in Nat, NEW v,
         Photons(c, hits, n, photons, m, v)
  PROVE  DOMAIN photons = 1 .. m /\ Len(photons) = m
<1>1. photons = [k \in 1 .. m |-> photons[k]]
  BY DEF Photons
<1> DEFINE X == { photons[k] : k \in 1 .. m }
<1>2. photons \in [1 .. m -> X]
  BY <1>1
<1> HIDE DEF X
<1> QED
  BY <1>2, FunctionIsSeq

\* What lastBuffer holds when convert_raw_to_coincidence has made pairs.
LEMMA CoincidencesAreOfBlock ==
  ASSUME TimeWindow + Slack <= Overlap, Ready,
         NEW raws, raws \in Seq(RawHits), NEW n \in Nat, NEW m \in Nat, NEW v, HasPhotons(raws, n, m, v),
         lastBuffer.pairs = CoincidenceGrouper(config, lastBuffer.photons)
  PROVE  NoCoincidenceIsMissed
<1> DEFINE photons == lastBuffer.photons
           pairs == lastBuffer.pairs
           near == { ij \in (DOMAIN photons) \X (DOMAIN photons) :
                       /\ ij[1] < ij[2]
                       /\ Kind(photons[ij[1]].region, photons[ij[2]].region) = "C"
                       /\ Distance(photons[ij[1]].time, photons[ij[2]].time) <= CoincidenceWindow }
           found == Found(config, photons)
<1> SUFFICES ASSUME run.triggerID = -1
             PROVE  /\ { ToSet(pairs[k]) : k \in DOMAIN pairs } =
                         { {photons[ij[1]], photons[ij[2]]} : ij \in near }
                    /\ Len(pairs) = Cardinality(near)
  BY DEF NoCoincidenceIsMissed
<1>1. DOMAIN photons = 1 .. m /\ Len(photons) = m
  BY PhotonsLength DEF HasPhotons
<1>2. ASSUME NEW k \in 1 .. m
      PROVE  photons[k].region \in Regions /\ photons[k].time \in Int
  BY <1>2, PhotonRegion
<1>3. Overlap \in Nat /\ CoincidenceWindow \in Nat /\ Slack \in Nat /\ TimeWindow \in Nat
  BY HandlerAssumption, ConversionAssumption DEF Slack
<1>4. ASSUME NEW i \in 1 .. m, NEW j \in 1 .. m, i < j,
             Distance(photons[i].time, photons[j].time) <= CoincidenceWindow
      PROVE  j \in InReach(photons, i)
  <2> DEFINE time(k) == photons[k].time
  <2>1. time(i) \in Int /\ time(j) \in Int /\ time(j) <= time(i) + CoincidenceWindow
    BY <1>2, <1>3, <1>4 DEF Distance
  <2>2. ASSUME NEW k \in i + 1 .. j PROVE time(k) - time(i) <= Overlap + CoincidenceWindow
    <3>1. k \in 1 .. m
      OBVIOUS
    <3>2. time(k) \in Int
      BY <1>2, <3>1
    <3>3. time(k) <= time(j) + Slack + TimeWindow
      <4>1. CASE k = j
        BY <1>3, <2>1, <4>1
      <4>2. CASE k # j
        <5>1. k < j
          BY <4>2
        <5> QED
          BY <3>1, <5>1, PhotonsAreOrderly
      <4> QED
        BY <4>1, <4>2
    <3> HIDE DEF time
    <3> QED
      BY <1>3, <2>1, <3>2, <3>3
  <2>3. j \in i + 1 .. Len(photons)
    BY <1>1, <1>4
  <2> HIDE DEF photons
  <2> QED
    BY <2>2, <2>3 DEF InReach
<1>5. \A i, j \in 1 .. m : j \in InReach(photons, i) => i < j
  BY DEF InReach
<1>6. \A i, j \in 1 .. m :
        Allowed(config.coincidence, photons[i].region, photons[j].region)
          <=> Kind(photons[i].region, photons[j].region) = "C"
  BY <1>2, AllowedIs
<1>7. found = near
  <2>1. \A ij \in (1 .. m) \X (1 .. m) : ij[1] \in 1 .. m /\ ij[2] \in 1 .. m
    OBVIOUS
  <2> HIDE DEF photons
  <2> QED
    BY <1>1, <1>4, <1>5, <1>6, <2>1, Zenon DEF Found
<1> HIDE DEF found, near, photons, pairs
<1>8. Cardinality(found) \in Nat /\ \E o : PairsOf(pairs, photons, found, Cardinality(found), o)
  <2>1. found = Found(config, photons) /\ pairs = CoincidenceGrouper(config, photons)
    BY DEF found, photons, pairs
  <2> QED
    BY <1>1, <2>1, PairsAre
<1>9. PICK l \in Nat : l = Cardinality(found)
  BY <1>8
<1>10. PICK order : PairsOf(pairs, photons, found, l, order)
  BY <1>8, <1>9
<1>11. order \in [1 .. l -> found] /\ \A ij \in found : \E k \in 1 .. l : order[k] = ij
  BY <1>10 DEF PairsOf
<1>12. pairs = [k \in 1 .. l |-> Pair(photons[order[k][1]], photons[order[k][2]])]
  BY <1>10 DEF PairsOf
<1>13. \A p, q : ToSet(Pair(p, q)) = {p, q}
  <2>1. \A p, q : ToSet(<<p, q>>) = {p, q}
    <3> TAKE p, q
    <3>1. DOMAIN <<p, q>> = {1, 2} /\ <<p, q>>[1] = p /\ <<p, q>>[2] = q
      OBVIOUS
    <3>2. ToSet(<<p, q>>) = { <<p, q>>[i] : i \in {1, 2} }
      BY <3>1 DEF ToSet
    <3> QED
      BY <3>1, <3>2
  <2>2. \A p, q : {p, q} = {q, p}
    OBVIOUS
  <2> QED
    BY <2>1, <2>2, Zenon DEF Pair
<1>14. \A k \in 1 .. l : ToSet(pairs[k]) = {photons[order[k][1]], photons[order[k][2]]}
  BY <1>12, <1>13
<1>15. DOMAIN pairs = 1 .. l /\ Len(pairs) = l
  BY <1>10 DEF PairsOf
<1>16. { ToSet(pairs[k]) : k \in DOMAIN pairs } = { {photons[ij[1]], photons[ij[2]]} : ij \in found }
  <2> DEFINE Two(ij) == {photons[ij[1]], photons[ij[2]]}
             Set(k) == ToSet(pairs[k])
  <2>1. \A k \in DOMAIN pairs : \E ij \in found : Set(k) = Two(ij)
    BY <1>11, <1>14, <1>15, Zenon
  <2>2. ASSUME NEW ij \in found
        PROVE  \E k \in DOMAIN pairs : Set(k) = Two(ij)
    <3>1. PICK k \in 1 .. l : order[k] = ij
      BY <1>11
    <3> QED
      BY <1>14, <1>15, <3>1, Zenon
  <2> HIDE DEF Two, Set
  <2>3. { Set(k) : k \in DOMAIN pairs } = { Two(ij) : ij \in found }
    BY <2>1, <2>2
  <2> QED
    BY <2>3 DEF Two, Set
<1> QED
  BY <1>7, <1>9, <1>15, <1>16 DEF near, photons, pairs

-----------------------------------------------------------------------------
(* What a pipeline makes of a block.                                       *)

\* The programs that group hits.
Groups == program \notin {"raw", "singles"}

IsHandled(b, raws) ==
  /\ b.raws = raws
  /\ program = "raw" => b.hits = <<>>
  /\ program # "raw" => \E n \in Nat : \E o : Handles(b.hits, raws, n, o)
  /\ b.photons = IF Groups THEN SimpleGrouper(config, b.hits) ELSE <<>>
  /\ b.pairs = IF program = "coincidence" THEN CoincidenceGrouper(config, b.photons) ELSE <<>>

\* Each pipeline fills in its part of the buffers.
LEMMA HandledIs ==
  ASSUME program \in Programs, NEW raws \in Seq(RawHits), NEW b \in Handled(raws)
  PROVE  IsHandled(b, raws)
<1>1. CASE program = "raw"
  <2>1. b = [None EXCEPT !.raws = raws]
    BY <1>1 DEF Handled, RawPipeline
  <2>2. b.raws = raws /\ b.hits = <<>> /\ b.photons = <<>> /\ b.pairs = <<>>
    BY <2>1 DEF None
  <2> QED
    BY <1>1, <2>2 DEF IsHandled, Groups
<1>2. ASSUME NEW a \in SinglesPipeline(raws)
      PROVE  /\ a.raws = raws /\ a.photons = <<>> /\ a.pairs = <<>>
             /\ \E n \in Nat : \E o : Handles(a.hits, raws, n, o)
             /\ a = [raws |-> raws, hits |-> a.hits, photons |-> <<>>, pairs |-> <<>>]
  <2>1. PICK s \in CoarseSorted(raws) :
          a = [None EXCEPT !.raws = raws, !.hits = ProcessHits(config, s, run.triggerID)]
    BY <1>2 DEF SinglesPipeline
  <2>2. PICK hits : hits = ProcessHits(config, s, run.triggerID)
    OBVIOUS
  <2>3. a = [raws |-> raws, hits |-> hits, photons |-> <<>>, pairs |-> <<>>]
    BY <2>1, <2>2 DEF None
  <2>4. \E n \in Nat : \E o : Handles(hits, raws, n, o)
    BY <2>2, HitsAreHandled
  <2> QED
    BY <2>3, <2>4
<1>3. ASSUME NEW a \in GroupPipeline(raws)
      PROVE  /\ a.raws = raws /\ a.photons = SimpleGrouper(config, a.hits) /\ a.pairs = <<>>
             /\ \E n \in Nat : \E o : Handles(a.hits, raws, n, o)
             /\ a = [raws |-> raws, hits |-> a.hits, photons |-> a.photons, pairs |-> <<>>]
  <2>1. PICK d \in SinglesPipeline(raws) : a = [d EXCEPT !.photons = SimpleGrouper(config, d.hits)]
    BY <1>3 DEF GroupPipeline
  <2>2. PICK hits : hits = d.hits
    OBVIOUS
  <2>3. PICK photons : photons = SimpleGrouper(config, hits)
    OBVIOUS
  <2>4. d = [raws |-> raws, hits |-> hits, photons |-> <<>>, pairs |-> <<>>]
    BY <1>2, <2>2
  <2>5. a = [d EXCEPT !.photons = photons]
    BY <2>1, <2>2, <2>3
  <2>6. a = [raws |-> raws, hits |-> hits, photons |-> photons, pairs |-> <<>>]
    BY <2>4, <2>5
  <2>7. a.raws = raws /\ a.hits = hits /\ a.photons = photons /\ a.pairs = <<>>
    BY <2>6
  <2>8. \E n \in Nat : \E o : Handles(hits, raws, n, o)
    BY <1>2, <2>2
  <2> QED
    BY <2>3, <2>6, <2>7, <2>8
<1>4. CASE program = "singles"
  <2>1. b \in SinglesPipeline(raws)
    BY <1>4 DEF Handled
  <2>2. /\ b.raws = raws /\ b.photons = <<>> /\ b.pairs = <<>>
        /\ \E n \in Nat : \E o : Handles(b.hits, raws, n, o)
    BY <1>2, <2>1
  <2> QED
    BY <1>4, <2>2 DEF IsHandled, Groups
<1>5. CASE program = "coincidence"
  <2>1. PICK a \in GroupPipeline(raws) : b = [a EXCEPT !.pairs = CoincidenceGrouper(config, a.photons)]
    BY <1>5 DEF Handled, CoincidencePipeline
  <2>2. PICK hits : hits = a.hits
    OBVIOUS
  <2>3. PICK photons : photons = a.photons
    OBVIOUS
  <2>4. PICK pairs : pairs = CoincidenceGrouper(config, photons)
    OBVIOUS
  <2>5. a = [raws |-> raws, hits |-> hits, photons |-> photons, pairs |-> <<>>]
    BY <1>3, <2>2, <2>3
  <2>6. b = [a EXCEPT !.pairs = pairs]
    BY <2>1, <2>3, <2>4
  <2>7. b = [raws |-> raws, hits |-> hits, photons |-> photons, pairs |-> pairs]
    BY <2>5, <2>6
  <2>8. b.raws = raws /\ b.hits = hits /\ b.photons = photons /\ b.pairs = pairs
    BY <2>7
  <2>9. photons = SimpleGrouper(config, hits) /\ \E n \in Nat : \E o : Handles(hits, raws, n, o)
    BY <1>3, <2>2, <2>3
  <2> QED
    BY <1>5, <2>4, <2>8, <2>9 DEF IsHandled, Groups
<1>6. CASE program \notin {"raw", "singles", "coincidence"}
  <2>1. b \in GroupPipeline(raws)
    BY <1>6 DEF Handled
  <2>2. /\ b.raws = raws /\ b.photons = SimpleGrouper(config, b.hits) /\ b.pairs = <<>>
        /\ \E n \in Nat : \E o : Handles(b.hits, raws, n, o)
    BY <1>3, <2>1
  <2> QED
    BY <1>6, <2>2 DEF IsHandled, Groups
<1> QED
  BY <1>1, <1>4, <1>5, <1>6

\* Its hits and photons, and the raw hits they are made of.
HasHits(b, raws, n, m, v) ==
  /\ HitsOK(b.hits, raws, n)
  /\ IF Groups THEN Photons(config, b.hits, n, b.photons, m, v) ELSE b.photons = <<>>

\* The numbers and positions are there for every block that is handled.
LEMMA HandledHits ==
  ASSUME Ready, program # "raw", NEW raws, IsBlock(raws), NEW b, IsHandled(b, raws)
  PROVE  \E n \in Nat : \E m \in Nat : \E v : HasHits(b, raws, n, m, v)
<1>1. PICK n \in Nat : \E o : Handles(b.hits, raws, n, o)
  BY DEF IsHandled
<1>2. HitsOK(b.hits, raws, n)
  BY <1>1, HitsAre
<1>3. CASE Groups
  <2>1. n = Len(b.hits) /\ \A i \in 1 .. n : b.hits[i].energy \in Int
    BY <1>2 DEF HitsOK
  <2>2. PICK m \in Nat : \E v : Photons(config, b.hits, n, SimpleGrouper(config, b.hits), m, v)
    BY <2>1, PhotonsAre
  <2>3. b.photons = SimpleGrouper(config, b.hits)
    BY <1>3 DEF IsHandled
  <2> QED
    BY <1>2, <1>3, <2>2, <2>3, Zenon DEF HasHits
<1>4. CASE ~Groups
  <2>1. b.photons = <<>>
    BY <1>4 DEF IsHandled
  <2>2. 0 \in Nat
    OBVIOUS
  <2> QED
    BY <1>2, <1>4, <2>1, <2>2, Zenon DEF HasHits
<1> QED
  BY <1>3, <1>4

-----------------------------------------------------------------------------
(* What is written for an event.                                           *)

\* The entries that the raw hits in R may have in this step.
Records(R) == [step : {Column}, hits : Seq(R)]

\* An entry has the step and the hits it is made with.
LEMMA EntryType ==
  ASSUME NEW R, NEW hits \in Seq(R)
  PROVE  Entry(hits) \in Records(R)
<1> DEFINE H == Seq(R)
<1>1. PICK c : c = Column
  OBVIOUS
<1>2. hits \in H
  OBVIOUS
<1> HIDE DEF H
<1>3. [step |-> c, hits |-> hits] \in [step : {c}, hits : H]
  BY <1>2
<1> QED
  BY <1>1, <1>3, Zenon DEF Entry, Records, H

\* A sequence of one.
LEMMA One ==
  ASSUME NEW X, NEW x \in X
  PROVE  <<x>> \in Seq(X) /\ Len(<<x>>) = 1
OBVIOUS

\* A sequence of two.
LEMMA Two ==
  ASSUME NEW X, NEW x \in X, NEW y \in X
  PROVE  <<x, y>> \in Seq(X)
OBVIOUS

\* A photon's hits.
PhotonOK(p, R) ==
  /\ Len(p.hits) \in Nat /\ DOMAIN p.hits = 1 .. Len(p.hits)
  /\ \A k \in 1 .. Len(p.hits) : p.hits[k].raw \in R

\* A photon has raw hits of its block.
LEMMA PhotonHits ==
  ASSUME NEW b, NEW raws, NEW n \in Nat, NEW m \in Nat, NEW v, HasHits(b, raws, n, m, v), Groups,
         NEW k \in 1 .. m
  PROVE  PhotonOK(b.photons[k], ToSet(raws))
<1>1. PICK p : p = b.photons[k]
  OBVIOUS
<1>2. PICK w \in Seq(1 .. n) : IsPhoton(p, b.hits, w)
  BY <1>1 DEF HasHits, Photons
<1>3. PICK l \in Nat : l = Len(w) /\ \A j \in 1 .. l : w[j] \in 1 .. n
  OBVIOUS
<1>4. /\ p.hits = [i \in 1 .. l |-> p.hits[i]]
      /\ \A i \in 1 .. l : \E j \in 1 .. l : p.hits[i] = b.hits[w[j]]
  BY <1>2, <1>3 DEF IsPhoton
<1>5. \A i \in 1 .. n : b.hits[i].raw \in ToSet(raws)
  BY DEF HasHits, HitsOK
<1>6. \A i \in 1 .. l : p.hits[i].raw \in ToSet(raws)
  BY <1>3, <1>4, <1>5
<1>7. DOMAIN p.hits = 1 .. l /\ Len(p.hits) = l
  <2> DEFINE X == { p.hits[i] : i \in 1 .. l }
  <2>1. p.hits \in [1 .. l -> X]
    BY <1>4
  <2> HIDE DEF X
  <2> QED
    BY <2>1, FunctionIsSeq
<1> QED
  BY <1>1, <1>6, <1>7 DEF PhotonOK

\* No more hits are written than there are.
LEMMA LimitIs ==
  ASSUME options \in Options, NEW R, NEW p, PhotonOK(p, R)
  PROVE  /\ Limit(p) \in Nat /\ Limit(p) <= Len(p.hits)
         /\ \A k \in 1 .. Limit(p) : p.hits[k].raw \in R
<1>1. options.hitLimit \in Nat
  BY ConversionAssumption
<1>2. Limit(p) \in Nat /\ Limit(p) <= Len(p.hits)
  BY <1>1 DEF Limit, PhotonOK
<1>3. \A k \in 1 .. Limit(p) : k \in 1 .. Len(p.hits)
  BY <1>2 DEF PhotonOK
<1> QED
  BY <1>2, <1>3 DEF PhotonOK

\* _group writes an entry for each of a photon's hits, ...
LEMMA GroupEntriesType ==
  ASSUME options \in Options, NEW R, NEW p, PhotonOK(p, R)
  PROVE  GroupEntries(p) \in Seq(Records(R))
<1>1. PICK l \in Nat : l = Limit(p) /\ \A k \in 1 .. l : p.hits[k].raw \in R
  <2>1. Limit(p) \in Nat
    BY LimitIs, Zenon
  <2> QED
    BY <2>1, LimitIs, Zenon
<1>2. \A k \in 1 .. l : Entry(<<p.hits[k].raw>>) \in Records(R)
  <2>1. \A k \in 1 .. l : <<p.hits[k].raw>> \in Seq(R)
    BY <1>1, One
  <2> QED
    BY <2>1, EntryType
<1>3. GroupEntries(p) = [k \in 1 .. l |-> Entry(<<p.hits[k].raw>>)]
  BY <1>1 DEF GroupEntries
<1> DEFINE X == Records(R)
<1>4. GroupEntries(p) \in [1 .. l -> X]
  BY <1>2, <1>3
<1> HIDE DEF X
<1>5. GroupEntries(p) \in Seq(X)
  BY <1>4, FunctionIsSeq
<1> QED
  BY <1>5 DEF X

\* ... _coincidence for hits of both, ...
LEMMA CoincidenceEntriesType ==
  ASSUME options \in Options, NEW R, NEW p, NEW q, PhotonOK(p, R), PhotonOK(q, R),
         NEW pair, pair = <<p, q>>
  PROVE  CoincidenceEntries(pair) \in Seq(Records(R))
<1>1. PICK i \in Nat : i = Limit(p) /\ \A k \in 1 .. i : p.hits[k].raw \in R
  <2>1. Limit(p) \in Nat
    BY LimitIs, Zenon
  <2> QED
    BY <2>1, LimitIs, Zenon
<1>2. PICK j \in Nat : j = Limit(q) /\ \A k \in 1 .. j : q.hits[k].raw \in R
  <2>1. Limit(q) \in Nat
    BY LimitIs, Zenon
  <2> QED
    BY <2>1, LimitIs, Zenon
<1>3. PICK S : S = { mn \in (1 .. i) \X (1 .. j) : 1 \in {mn[1], mn[2]} }
  OBVIOUS
<1>4. PICK o : o = Sorted(S, Lexicographic(S))
  OBVIOUS
<1>5. pair[1] = p /\ pair[2] = q
  OBVIOUS
<1>6. CoincidenceEntries(pair) = [k \in DOMAIN o |-> Entry(<<p.hits[o[k][1]].raw, q.hits[o[k][2]].raw>>)]
  BY <1>1, <1>2, <1>3, <1>4, <1>5, Zenon DEF CoincidenceEntries
<1>7. S \in SUBSET ((1 .. i) \X (1 .. j)) /\ S \in SUBSET (Int \X Int)
  BY <1>3
<1>8. IsFiniteSet(S)
  <2>1. IsFiniteSet(1 .. i) /\ IsFiniteSet(1 .. j)
    BY FS_Interval
  <2>2. IsFiniteSet((1 .. i) \X (1 .. j))
    BY <2>1, FS_Product
  <2> QED
    BY <1>7, <2>2, FS_Subset
<1>9. IsOrder(S, Lexicographic(S))
  BY <1>7, LexicographicIs
<1>10. PICK l \in Nat : Lists(o, l, S, Lexicographic(S))
  BY <1>4, <1>8, <1>9, SortedIs
<1>11. o \in [1 .. l -> S]
  BY <1>10 DEF Lists
<1>12. \A k \in 1 .. l : o[k][1] \in 1 .. i /\ o[k][2] \in 1 .. j
  <2>1. \A k \in 1 .. l : o[k] \in (1 .. i) \X (1 .. j)
    BY <1>7, <1>11
  <2> QED
    BY <2>1
<1>13. \A k \in 1 .. l : p.hits[o[k][1]].raw \in R /\ q.hits[o[k][2]].raw \in R
  BY <1>1, <1>2, <1>12
<1>14. \A k \in 1 .. l : Entry(<<p.hits[o[k][1]].raw, q.hits[o[k][2]].raw>>) \in Records(R)
  BY <1>13, Two, EntryType
<1>15. CoincidenceEntries(pair) = [k \in 1 .. l |-> Entry(<<p.hits[o[k][1]].raw, q.hits[o[k][2]].raw>>)]
  BY <1>6, <1>11
<1> DEFINE X == Records(R)
<1>16. CoincidenceEntries(pair) \in [1 .. l -> X]
  BY <1>14, <1>15
<1> HIDE DEF X
<1>17. CoincidenceEntries(pair) \in Seq(X)
  BY <1>16, FunctionIsSeq
<1> QED
  BY <1>17 DEF X

\* The hits kept of a photon: each is the first of its channel.
Firsts(raws, p, l, o) ==
  /\ raws = [k \in 1 .. l |-> p.hits[o[k]].raw]
  /\ \A k \in 1 .. l : /\ o[k] \in 1 .. Limit(p)
                       /\ \A j \in 1 .. o[k] - 1 :
                            p.hits[j].raw.channelID # p.hits[o[k]].raw.channelID

\* ... _event and _trigger the first of each channel, ...
LEMMA FirstOfChannelIs ==
  ASSUME options \in Options, NEW R, NEW p, PhotonOK(p, R)
  PROVE  \E l \in Nat : \E o : Firsts(FirstOfChannel(p), p, l, o)
<1>1. PICK n \in Nat : n = Limit(p)
  BY LimitIs DEF PhotonOK
<1>2. PICK I : I = { i \in 1 .. n : \A k \in 1 .. i - 1 :
                       p.hits[k].raw.channelID # p.hits[i].raw.channelID }
  OBVIOUS
<1>3. I \in SUBSET (1 .. n)
  BY <1>2
<1>4. PICK hits : hits = Selected(p.hits, I)
  OBVIOUS
<1>5. FirstOfChannel(p) = [k \in DOMAIN hits |-> hits[k].raw]
  BY <1>1, <1>2, <1>4, Zenon DEF FirstOfChannel
<1>6. PICK l \in Nat : \E o : Selects(hits, p.hits, I, l, o)
  BY <1>3, <1>4, SelectedIs
<1>7. PICK o : Selects(hits, p.hits, I, l, o)
  BY <1>6
<1>8. hits = [k \in 1 .. l |-> p.hits[o[k]]] /\ Lists(o, l, I, Ascending(I))
  BY <1>7 DEF Selects
<1>9. o \in [1 .. l -> I]
  BY <1>8 DEF Lists
<1>10. FirstOfChannel(p) = [k \in 1 .. l |-> p.hits[o[k]].raw]
  BY <1>5, <1>8
<1>11. \A k \in 1 .. l : o[k] \in I
  BY <1>9
<1>12. Firsts(FirstOfChannel(p), p, l, o)
  BY <1>1, <1>2, <1>10, <1>11 DEF Firsts
<1> QED
  BY <1>12

\* ... which is of the same block, ...
LEMMA FirstOfChannelType ==
  ASSUME options \in Options, NEW R, NEW p, PhotonOK(p, R)
  PROVE  FirstOfChannel(p) \in Seq(R)
<1>1. PICK l \in Nat : \E o : Firsts(FirstOfChannel(p), p, l, o)
  BY FirstOfChannelIs
<1>2. PICK o : Firsts(FirstOfChannel(p), p, l, o)
  BY <1>1
<1>3. \A k \in 1 .. l : p.hits[o[k]].raw \in R
  BY <1>2, LimitIs DEF Firsts
<1>4. FirstOfChannel(p) \in [1 .. l -> R]
  BY <1>2, <1>3 DEF Firsts
<1> QED
  BY <1>4, FunctionIsSeq

\* ... or, in other formats, an entry for each hit.
LEMMA TriggerEntriesType ==
  ASSUME options \in Options, NEW R, NEW p, PhotonOK(p, R)
  PROVE  TriggerEntries(p) \in Seq(Records(R)) /\ EventEntries(p) \in Seq(Records(R))
<1>1. GroupEntries(p) \in Seq(Records(R))
  BY GroupEntriesType
<1>2. <<Entry(FirstOfChannel(p))>> \in Seq(Records(R))
  <2>1. Entry(FirstOfChannel(p)) \in Records(R)
    BY FirstOfChannelType, EntryType
  <2> QED
    BY <2>1, One
<1>3. <<>> \in Seq(Records(R))
  OBVIOUS
<1>4. TriggerEntries(p) \in Seq(Records(R))
  BY <1>1, <1>2, <1>3, Zenon DEF TriggerEntries
<1> QED
  BY <1>3, <1>4, Zenon DEF EventEntries

-----------------------------------------------------------------------------
(* The share of events that is written.                                    *)

\* How many of the first n events are.
Share(n) ==
  (n \div FractionPeriod) * options.fraction
    + (IF n % FractionPeriod < options.fraction THEN n % FractionPeriod ELSE options.fraction)

\* Division with remainder, from one number to the next.
LEMMA NextRemainder ==
  ASSUME NEW P \in Nat \ {0}, NEW n \in Nat
  PROVE  /\ n \div P \in Nat /\ n % P \in 0 .. P - 1
         /\ IF n % P = P - 1 THEN (n + 1) \div P = (n \div P) + 1 /\ (n + 1) % P = 0
            ELSE (n + 1) \div P = n \div P /\ (n + 1) % P = (n % P) + 1
<1>1. n \div P \in Nat /\ n % P \in 0 .. P - 1 /\ n = P * (n \div P) + (n % P)
  OBVIOUS
<1>2. (n + 1) \div P \in Nat /\ (n + 1) % P \in 0 .. P - 1
      /\ n + 1 = P * ((n + 1) \div P) + ((n + 1) % P)
  OBVIOUS
<1> QED
  BY <1>1, <1>2

\* An event more is one more to write, or none.
LEMMA ShareStep ==
  ASSUME options \in Options, NEW n \in Nat
  PROVE  /\ Share(n) \in Nat /\ Share(0) = 0
         /\ Share(n + 1) = Share(n) + (IF InFraction(n) THEN 1 ELSE 0)
<1>1. FractionPeriod \in Nat \ {0} /\ options.fraction \in 0 .. FractionPeriod
  BY ConversionAssumption
<1>2. PICK f \in Nat : f = options.fraction /\ f <= FractionPeriod
  BY <1>1
<1>3. PICK q \in Nat : q = n \div FractionPeriod
  BY <1>1, NextRemainder
<1>4. PICK r \in 0 .. FractionPeriod - 1 : r = n % FractionPeriod
  BY <1>1, NextRemainder
<1>5. q * f \in Nat /\ (q + 1) * f = q * f + f
  OBVIOUS
<1>6. Share(n) = q * f + (IF r < f THEN r ELSE f)
  BY <1>2, <1>3, <1>4 DEF Share
<1>7. InFraction(n) <=> r < f
  BY <1>2, <1>4 DEF InFraction
<1>8. Share(0) = 0
  <2>1. 0 \div FractionPeriod = 0 /\ 0 % FractionPeriod = 0
    BY <1>1
  <2>2. Share(0) = 0 * f + (IF 0 < f THEN 0 ELSE f)
    BY <1>2, <2>1 DEF Share
  <2> QED
    BY <2>2
<1>9. CASE r = FractionPeriod - 1
  <2>1. (n + 1) \div FractionPeriod = q + 1 /\ (n + 1) % FractionPeriod = 0
    BY <1>1, <1>3, <1>4, <1>9, NextRemainder
  <2>2. Share(n + 1) = (q + 1) * f + (IF 0 < f THEN 0 ELSE f)
    BY <1>2, <2>1 DEF Share
  <2>3. Share(n + 1) = q * f + f
    BY <1>5, <2>2
  <2>4. r < f => r + 1 = f
    BY <1>1, <1>2, <1>9
  <2> QED
    BY <1>1, <1>5, <1>6, <1>7, <1>8, <2>3, <2>4
<1>10. CASE r # FractionPeriod - 1
  <2>1. (n + 1) \div FractionPeriod = q /\ (n + 1) % FractionPeriod = r + 1
    BY <1>1, <1>3, <1>4, <1>10, NextRemainder
  <2>2. Share(n + 1) = q * f + (IF r + 1 < f THEN r + 1 ELSE f)
    BY <1>2, <2>1 DEF Share
  <2> QED
    BY <1>5, <1>6, <1>7, <1>8, <2>2
<1> QED
  BY <1>9, <1>10

-----------------------------------------------------------------------------
(* What the writer adds to the file.                                       *)

New(events) ==
  FlattenSeq([i \in DOMAIN events |-> IF i \in Chosen(events) THEN Entries(events[i]) ELSE <<>>])

\* What is written is made of the events' entries.
LEMMA NewIs ==
  ASSUME NEW events, NEW l \in Nat, DOMAIN events = 1 .. l, NEW X,
         \A i \in 1 .. l : Entries(events[i]) \in Seq(X)
  PROVE  New(events) \in Seq(X)
<1> DEFINE Y == Seq(X)
<1>1. PICK s : s = [i \in 1 .. l |-> IF i \in Chosen(events) THEN Entries(events[i]) ELSE <<>>]
  OBVIOUS
<1>2. <<>> \in Y /\ \A i \in 1 .. l : Entries(events[i]) \in Y
  OBVIOUS
<1> HIDE DEF Y
<1>3. s \in [1 .. l -> Y]
  BY <1>1, <1>2
<1>4. s \in Seq(Y)
  BY <1>3, FunctionIsSeq
<1>5. FlattenSeq(s) \in Seq(X)
  BY <1>4, FlattenType DEF Y
<1> QED
  BY <1>1, <1>5 DEF New

\* With an entry for each event, the file grows by the share of them.
LEMMA NewLength ==
  ASSUME NEW events, NEW l \in Nat, DOMAIN events = 1 .. l, NEW X,
         \A i \in 1 .. l : Entries(events[i]) \in Seq(X) /\ Len(Entries(events[i])) = 1,
         eventCounter \in Nat, options \in Options
  PROVE  Share(eventCounter + l) = Share(eventCounter) + Len(New(events))
<1> DEFINE Y == Seq(X)
<1>1. PICK e \in Nat : e = eventCounter
  OBVIOUS
<1>2. PICK s : s = [i \in 1 .. l |-> IF i \in Chosen(events) THEN Entries(events[i]) ELSE <<>>]
  OBVIOUS
<1>3. <<>> \in Y /\ \A i \in 1 .. l : Entries(events[i]) \in Y
  OBVIOUS
<1> HIDE DEF Y
<1>4. s \in [1 .. l -> Y]
  BY <1>2, <1>3
<1>5. s \in Seq(Y) /\ Len(s) = l
  BY <1>4, FunctionIsSeq
<1>6. \A i \in 1 .. l : Len(s[i]) = IF InFraction(e + (i - 1)) THEN 1 ELSE 0
  <2> SUFFICES ASSUME NEW i \in 1 .. l
               PROVE  Len(s[i]) = IF InFraction(e + (i - 1)) THEN 1 ELSE 0
    OBVIOUS
  <2>1. eventCounter + i - 1 = e + (i - 1)
    BY <1>1
  <2>2. i \in Chosen(events) <=> InFraction(e + (i - 1))
    BY <2>1, Zenon DEF Chosen
  <2>3. s[i] = IF i \in Chosen(events) THEN Entries(events[i]) ELSE <<>>
    BY <1>2
  <2>4. Len(Entries(events[i])) = 1
    OBVIOUS
  <2> QED
    BY <2>2, <2>3, <2>4
<1> DEFINE G == [k \in 1 .. l |-> [u \in Nat |-> u + Len(s[k])]]
<1>7. G \in [1 .. l -> [Nat -> Nat]] /\ \A k \in 1 .. l, u \in Nat : G[k][u] = u + Len(s[k])
  BY <1>6
<1> HIDE DEF G
<1>8. PICK g \in [0 .. l -> Nat] : Builds(g, l, 0, G)
  BY <1>7, BuildsExists, Zenon
<1>9. g[0] = 0 /\ \A k \in 1 .. l : g[k] = g[k - 1] + Len(s[k])
  <2>1. \A k \in 1 .. l : g[k] = G[k][g[k - 1]]
    BY <1>8 DEF Builds
  <2>2. \A k \in 1 .. l : g[k - 1] \in Nat
    <3>1. \A k \in 1 .. l : k - 1 \in 0 .. l
      OBVIOUS
    <3> QED
      BY <3>1
  <2> QED
    BY <1>7, <1>8, <2>1, <2>2 DEF Builds
<1>10. Len(FlattenSeq(s)) = g[l]
  BY <1>5, <1>9, FlattenLength DEF Y
<1> DEFINE S == { k \in Nat : k <= l => Share(e + k) = Share(e) + g[k] }
<1>11. 0 \in S
  <2>1. Share(e) \in Nat
    BY ShareStep, Zenon
  <2>2. e + 0 = e
    OBVIOUS
  <2>3. Share(e + 0) = Share(e) + g[0]
    BY <1>9, <2>1, <2>2
  <2> QED
    BY <2>3
<1>12. ASSUME NEW k \in Nat, k \in S, k + 1 <= l
       PROVE  Share(e + (k + 1)) = Share(e) + g[k + 1]
  <2>1. k + 1 \in 1 .. l /\ k \in 0 .. l /\ (k + 1) - 1 = k /\ Share(e + k) = Share(e) + g[k]
    BY <1>12
  <2>2. PICK i \in 1 .. l : i = k + 1 /\ i - 1 = k
    BY <2>1
  <2>3. g[i] = g[k] + (IF InFraction(e + k) THEN 1 ELSE 0)
    <3>1. g[i] = g[i - 1] + Len(s[i])
      BY <1>9
    <3>2. Len(s[i]) = IF InFraction(e + (i - 1)) THEN 1 ELSE 0
      BY <1>6
    <3> QED
      BY <2>2, <3>1, <3>2, Zenon
  <2>4. PICK x \in Nat : x = e + k /\ x + 1 = e + (k + 1)
    OBVIOUS
  <2>5. Share(x + 1) = Share(x) + (IF InFraction(x) THEN 1 ELSE 0) /\ Share(e) \in Nat
    BY ShareStep
  <2>6. g[k] \in Nat
    BY <2>1
  <2>7. PICK d \in {0, 1} : d = IF InFraction(x) THEN 1 ELSE 0
    OBVIOUS
  <2>8. Share(x + 1) = Share(x) + d /\ g[i] = g[k] + d /\ Share(x) = Share(e) + g[k]
    BY <2>1, <2>3, <2>4, <2>5, <2>7, Zenon
  <2>9. Share(x + 1) = Share(e) + g[i]
    BY <2>5, <2>6, <2>8, SMTT(30)
  <2> QED
    BY <2>2, <2>4, <2>9, Zenon
<1>13. \A k \in Nat : k \in S => k + 1 \in S
  BY <1>12
<1> HIDE DEF S
<1>14. l \in S
  BY <1>11, <1>13, SetInduction
<1>15. Share(e + l) = Share(e) + g[l]
  BY <1>14 DEF S
<1>16. New(events) = FlattenSeq(s)
  BY <1>2 DEF New
<1> QED
  BY <1>1, <1>10, <1>15, <1>16

\* What is written for the events of a block has their raw hits.
Written(events, R) ==
  /\ Len(events) \in Nat /\ DOMAIN events = 1 .. Len(events)
  /\ \A i \in 1 .. Len(events) : /\ Entries(events[i]) \in Seq(Records(R))
                                 /\ ~Groups => Len(Entries(events[i])) = 1

\* A pipeline's events give entries of raw hits of the block.
LEMMA EventsAre ==
  ASSUME options \in Options, program \in Programs, run \in Runs, program # "raw" => Ready,
         NEW raws, IsBlock(raws), NEW b, IsHandled(b, raws)
  PROVE  Written(Events(b), ToSet(raws))
<1> DEFINE R == ToSet(raws)
<1>1. raws \in Seq(RawHits)
  BY BlockIs
<1>2. CASE program = "raw"
  <2>1. Events(b) = raws
    BY <1>2 DEF Events, IsHandled
  <2>2. PICK l \in Nat : l = Len(raws) /\ DOMAIN raws = 1 .. l
    BY <1>1
  <2>3. \A i \in 1 .. l : raws[i] \in R
    BY <2>2 DEF ToSet
  <2> HIDE DEF R
  <2>4. \A i \in 1 .. l : Entries(raws[i]) = <<Entry(<<raws[i]>>)>>
    BY <1>2, Zenon DEF Entries, RawEntries
  <2>5. \A i \in 1 .. l : Entry(<<raws[i]>>) \in Records(R)
    BY <2>3, One, EntryType
  <2>6. \A i \in 1 .. l : Entries(raws[i]) \in Seq(Records(R)) /\ Len(Entries(raws[i])) = 1
    BY <2>4, <2>5, One
  <2> QED
    BY <2>1, <2>2, <2>6 DEF Written, R
<1>3. ASSUME program # "raw" PROVE \E n \in Nat : \E m \in Nat : \E v : HasHits(b, raws, n, m, v)
  BY <1>3, HandledHits
<1>4. CASE program = "singles"
  <2>1. Events(b) = b.hits
    BY <1>4 DEF Events
  <2>2. PICK n \in Nat : HitsOK(b.hits, raws, n)
    BY <1>3, <1>4 DEF HasHits
  <2>3. PICK hits : hits = b.hits
    OBVIOUS
  <2>4. Len(hits) = n /\ DOMAIN hits = 1 .. n /\ \A i \in 1 .. n : hits[i].raw \in R
    BY <2>2, <2>3 DEF HitsOK
  <2> HIDE DEF R
  <2>5. \A i \in 1 .. n : Entries(hits[i]) = <<Entry(<<hits[i].raw>>)>>
    BY <1>4, Zenon DEF Entries, SinglesEntries
  <2>6. \A i \in 1 .. n : Entry(<<hits[i].raw>>) \in Records(R)
    BY <2>4, One, EntryType
  <2>7. \A i \in 1 .. n : Entries(hits[i]) \in Seq(Records(R)) /\ Len(Entries(hits[i])) = 1
    BY <2>5, <2>6, One
  <2> QED
    BY <2>1, <2>3, <2>4, <2>7 DEF Written, R
<1>5. CASE Groups
  <2>1. program # "raw" /\ program # "singles"
    BY <1>5 DEF Groups
  <2>2. PICK n \in Nat : \E m \in Nat : \E v : HasHits(b, raws, n, m, v)
    BY <1>3, <2>1
  <2>3. PICK m \in Nat : \E v : HasHits(b, raws, n, m, v)
    BY <2>2
  <2>4. PICK v : HasHits(b, raws, n, m, v)
    BY <2>3
  <2>5. PICK photons : photons = b.photons
    OBVIOUS
  <2>6. DOMAIN photons = 1 .. m /\ Len(photons) = m
    BY <1>5, <2>4, <2>5, PhotonsLength DEF HasHits
  <2>7. \A k \in 1 .. m : PhotonOK(photons[k], R)
    BY <1>5, <2>4, <2>5, PhotonHits
  <2> HIDE DEF R
  <2>8. CASE program = "coincidence"
    <3>1. PICK pairs : pairs = CoincidenceGrouper(config, photons) /\ Events(b) = pairs
      BY <2>5, <2>8 DEF Events, IsHandled
    <3>2. PICK found : found = Found(config, photons)
      OBVIOUS
    <3>3. PICK l \in Nat : l = Cardinality(found) /\ \E o : PairsOf(pairs, photons, found, l, o)
      BY <2>6, <3>1, <3>2, PairsAre
    <3>4. PICK o : PairsOf(pairs, photons, found, l, o)
      BY <3>3
    <3>5. /\ pairs = [k \in 1 .. l |-> Pair(photons[o[k][1]], photons[o[k][2]])]
          /\ Len(pairs) = l /\ DOMAIN pairs = 1 .. l
          /\ o \in [1 .. l -> found]
      BY <3>4 DEF PairsOf
    <3>6. \A k \in 1 .. l : o[k][1] \in 1 .. m /\ o[k][2] \in 1 .. m
      <4>1. found \in SUBSET ((1 .. m) \X (1 .. m))
        BY <2>6, <3>2 DEF Found
      <4>2. \A k \in 1 .. l : o[k] \in (1 .. m) \X (1 .. m)
        BY <3>5, <4>1
      <4> QED
        BY <4>2
    <3>7. ASSUME NEW k \in 1 .. l
          PROVE  CoincidenceEntries(pairs[k]) \in Seq(Records(R))
      <4>1. PICK p : p = photons[o[k][1]] /\ PhotonOK(p, R)
        BY <2>7, <3>6
      <4>2. PICK q : q = photons[o[k][2]] /\ PhotonOK(q, R)
        BY <2>7, <3>6
      <4>3. PICK pair : pair = pairs[k]
        OBVIOUS
      <4>4. pair = <<p, q>> \/ pair = <<q, p>>
        BY <3>5, <4>1, <4>2, <4>3 DEF Pair
      <4>5. CASE pair = <<p, q>>
        BY <4>1, <4>2, <4>3, <4>5, CoincidenceEntriesType, Zenon
      <4>6. CASE pair = <<q, p>>
        BY <4>1, <4>2, <4>3, <4>6, CoincidenceEntriesType, Zenon
      <4> QED
        BY <4>4, <4>5, <4>6
    <3>8. \A k \in 1 .. l : Entries(pairs[k]) = CoincidenceEntries(pairs[k])
      BY <2>8, Zenon DEF Entries
    <3> QED
      BY <1>5, <3>1, <3>5, <3>7, <3>8 DEF Written, R
  <2>9. CASE program \in {"group", "event", "trigger"}
    <3>1. Events(b) = photons
      BY <2>5, <2>9 DEF Events
    <3>2. ASSUME NEW k \in 1 .. m
          PROVE  Entries(photons[k]) \in Seq(Records(R))
      <4>1. PICK p : p = photons[k] /\ PhotonOK(p, R)
        BY <2>7
      <4>2. CASE program = "group"
        <5>1. Entries(p) = GroupEntries(p)
          BY <4>2 DEF Entries
        <5> QED
          BY <4>1, <5>1, GroupEntriesType
      <4>3. CASE program = "event"
        <5>1. Entries(p) = EventEntries(p)
          BY <4>3 DEF Entries
        <5> QED
          BY <4>1, <5>1, TriggerEntriesType
      <4>4. CASE program = "trigger"
        <5>1. Entries(p) = TriggerEntries(p)
          BY <4>4 DEF Entries
        <5> QED
          BY <4>1, <5>1, TriggerEntriesType
      <4> QED
        BY <2>9, <4>2, <4>3, <4>4
    <3> QED
      BY <1>5, <2>6, <3>1, <3>2 DEF Written, R
  <2> QED
    BY <2>1, <2>8, <2>9 DEF Programs
<1> QED
  BY <1>2, <1>4, <1>5 DEF Groups

\* The entries of _event and _trigger for the best hits of photons.
Best(photons) == { Entry(FirstOfChannel(p)) : p \in ToSet(photons) }

\* ROOT files of _event and _trigger get nothing else.
LEMMA BestAre ==
  ASSUME options \in Options, program \in {"event", "trigger"}, fileType = "root", run \in Runs, Ready,
         NEW raws, IsBlock(raws), NEW b, IsHandled(b, raws)
  PROVE  New(Events(b)) \in Seq(Best(b.photons))
<1>1. PICK photons : photons = b.photons
  OBVIOUS
<1>2. Events(b) = photons
  BY <1>1 DEF Events
<1>3. PICK l \in Nat : DOMAIN photons = 1 .. l
  <2>1. Written(Events(b), ToSet(raws))
    BY EventsAre DEF Programs
  <2> QED
    BY <1>2, <2>1 DEF Written
<1> DEFINE X == Best(photons)
<1>4. \A k \in 1 .. l : Entry(FirstOfChannel(photons[k])) \in X
  BY <1>3 DEF Best, ToSet
<1> HIDE DEF X
<1>5. ASSUME NEW k \in 1 .. l
      PROVE  Entries(photons[k]) \in Seq(X)
  <2>1. PICK p : p = photons[k]
    OBVIOUS
  <2>2. <<Entry(FirstOfChannel(p))>> \in Seq(X) /\ <<>> \in Seq(X)
    BY <1>4, <2>1, One
  <2>3. TriggerEntries(p) \in Seq(X)
    BY <2>2, Zenon DEF TriggerEntries
  <2>4. EventEntries(p) \in Seq(X)
    BY <2>2, <2>3, Zenon DEF EventEntries
  <2>5. Entries(p) \in {TriggerEntries(p), EventEntries(p)}
    BY DEF Entries
  <2> QED
    BY <2>1, <2>3, <2>4, <2>5
<1>6. New(photons) \in Seq(X)
  BY <1>3, <1>5, NewIs
<1> QED
  BY <1>1, <1>2, <1>6 DEF X

-----------------------------------------------------------------------------
(* The inductive invariant, in parts.                                      *)

ArgumentsOK ==
  /\ program \in Programs /\ options \in Options /\ files \in Configurations /\ run \in Runs
  /\ phase \in {"start", "next", "step", "done", "failed", "crashed"}
  /\ step \in 0 .. Len(run.steps)

\* Nothing is read before the configuration has been loaded.
Configured == program # "raw" /\ phase \in {"next", "step"} => Ready

\* The last block is one of the acquisition's, after the pipeline.
LastOK ==
  lastBuffer # None =>
    /\ phase \notin {"start", "next"} /\ (program # "raw" => Ready)
    /\ \E raws : IsBlock(raws) /\ lastBuffer \in Handled(raws)

\* The blocks still to come are the step's last.
BlocksOK ==
  phase = "step" =>
    /\ step >= 1 /\ blocks \in Seq(Seq(RawHits)) /\ Len(blocks) <= Len(run.steps[step])
    /\ \A k \in 1 .. Len(blocks) :
         blocks[k] = run.steps[step][Len(run.steps[step]) - Len(blocks) + k]

\* Block b of step s has been read.
Past(s, b) ==
  \/ s < step
  \/ s = step /\ (phase = "step" => b <= Len(run.steps[s]) - Len(blocks))

Recorded == [step : Nat, hits : Seq(RawHits)]
StepRange == [begin : Nat, end : Nat]

FilesTyped ==
  /\ eventCounter \in Nat /\ data \in Seq(Recorded)
  /\ index \in Seq(StepRange) /\ stepBegin \in 0 .. Len(data)

\* What comes after the last range is of this step.
IndexOK ==
  /\ IndexIsRight
  /\ \A i \in DOMAIN index : index[i].begin <= index[i].end /\ index[i].end <= stepBegin
  /\ fileType = "text" => index = <<>>
  /\ fileType # "text" =>
       /\ phase \in {"start", "next"} => Len(index) = step /\ stepBegin = Len(data)
       /\ phase = "step" => Len(index) = step - 1
       /\ stepBegin = IF index = <<>> THEN 0 ELSE index[Len(index)].end
       /\ \A k \in stepBegin + 1 .. Len(data) :
            /\ fileType = "root" => data[k].step = step
            /\ \A raw \in ToSet(data[k].hits) : step \in StepsWith(raw)

\* An entry's hits are all of one block, which has been read.
EntriesOK ==
  \A k \in 1 .. Len(data) :
    \E s \in DOMAIN run.steps : \E b \in DOMAIN run.steps[s] :
      Past(s, b) /\ ToSet(data[k].hits) \subseteq ToSet(run.steps[s][b])

IInv ==
  /\ ArgumentsOK /\ Configured /\ LastOK /\ BlocksOK
  /\ FilesTyped /\ IndexOK /\ EntriesOK /\ ShareIsKept /\ BestHitIsKept

-----------------------------------------------------------------------------
(* What it says of the last block.                                         *)

\* The buffers are those of a block.
LEMMA LastIs ==
  ASSUME ArgumentsOK, LastOK, lastBuffer # None
  PROVE  \E raws : IsBlock(raws) /\ raws \in Seq(RawHits) /\ IsHandled(lastBuffer, raws)
<1>1. PICK raws : IsBlock(raws) /\ lastBuffer \in Handled(raws)
  BY DEF LastOK
<1>2. raws \in Seq(RawHits)
  BY <1>1, BlockIs DEF ArgumentsOK
<1>3. IsHandled(lastBuffer, raws)
  BY <1>1, <1>2, HandledIs DEF ArgumentsOK
<1> QED
  BY <1>1, <1>2, <1>3

\* There is nothing in buffers of no block.
LEMMA EmptyBuffer ==
  /\ None.raws = <<>> /\ None.hits = <<>> /\ None.photons = <<>> /\ None.pairs = <<>>
  /\ ToSet(<<>>) = {} /\ DOMAIN <<>> = {} /\ Len(<<>>) = 0
BY DEF None, ToSet

\* The block's hits are the complete ones.
LEMMA CalibrationFollows ==
  ASSUME ArgumentsOK, LastOK
  PROVE  CalibrationIsUsed
<1>1. CASE lastBuffer = None
  <2>1. ToSet(lastBuffer.hits) = {} /\ ToSet(lastBuffer.raws) = {}
    BY <1>1, EmptyBuffer
  <2> QED
    BY <2>1 DEF CalibrationIsUsed
<1>2. CASE lastBuffer # None
  <2> SUFFICES ASSUME program # "raw" PROVE CalibrationIsUsed
    BY DEF CalibrationIsUsed
  <2>1. Ready
    BY <1>2 DEF LastOK
  <2>2. PICK raws : IsBlock(raws) /\ raws \in Seq(RawHits) /\ IsHandled(lastBuffer, raws)
    BY <1>2, LastIs
  <2>3. lastBuffer.raws = raws
    BY <2>2 DEF IsHandled
  <2>4. PICK m \in Nat : \E o : Handles(lastBuffer.hits, raws, m, o)
    BY <2>2 DEF IsHandled
  <2>5. PICK o : Handles(lastBuffer.hits, raws, m, o)
    BY <2>4
  <2>6. \A i \in DOMAIN raws : FineOK(files, run, raws[i])
    BY <2>1, <2>2, BlockIs DEF Ready
  <2> QED
    BY <2>1, <2>2, <2>3, <2>5, <2>6, BlockIsCalibrated
<1> QED
  BY <1>1, <1>2

\* When hits are grouped.
LEMMA LastHasPhotons ==
  ASSUME ArgumentsOK, LastOK, lastBuffer # None, Groups
  PROVE  \E raws : /\ raws \in Seq(RawHits) /\ IsHandled(lastBuffer, raws) /\ Ready
                   /\ \E n \in Nat : \E m \in Nat : \E v : HasPhotons(raws, n, m, v)
<1>1. PICK raws : IsBlock(raws) /\ raws \in Seq(RawHits) /\ IsHandled(lastBuffer, raws)
  BY LastIs
<1>2. program # "raw" /\ Ready
  BY DEF LastOK, Groups
<1>3. PICK n \in Nat : \E m \in Nat : \E v : HasHits(lastBuffer, raws, n, m, v)
  BY <1>1, <1>2, HandledHits
<1>4. PICK m \in Nat : \E v : HasHits(lastBuffer, raws, n, m, v)
  BY <1>3
<1>5. PICK v : HasHits(lastBuffer, raws, n, m, v)
  BY <1>4
<1>6. HasPhotons(raws, n, m, v)
  BY <1>5, Zenon DEF HasHits, HasPhotons
<1>7. \E a \in Nat : \E b \in Nat : \E c : HasPhotons(raws, a, b, c)
  BY <1>6, Zenon
<1> QED
  BY <1>1, <1>2, <1>7, Zenon

\* Its groups are right, if the search goes far enough, ...
LEMMA GroupsFollow ==
  ASSUME ArgumentsOK, LastOK, Slack <= Overlap
  PROVE  GroupsAreRight
<1>1. CASE lastBuffer.photons = <<>>
  BY <1>1, EmptyBuffer DEF GroupsAreRight
<1>2. CASE lastBuffer.photons # <<>>
  <2>1. lastBuffer # None
    BY <1>2, EmptyBuffer
  <2>2. Groups
    <3>1. PICK raws : IsHandled(lastBuffer, raws)
      BY <2>1, LastIs
    <3> QED
      BY <1>2, <3>1 DEF IsHandled
  <2>3. PICK raws : \E n \in Nat : \E m \in Nat : \E v : HasPhotons(raws, n, m, v)
    BY <2>1, <2>2, LastHasPhotons
  <2>4. PICK n \in Nat : \E m \in Nat : \E v : HasPhotons(raws, n, m, v)
    BY <2>3
  <2>5. PICK m \in Nat : \E v : HasPhotons(raws, n, m, v)
    BY <2>4
  <2>6. PICK v : HasPhotons(raws, n, m, v)
    BY <2>5
  <2> QED
    BY <2>6, GroupsAreOfBlock
<1> QED
  BY <1>1, <1>2

\* ... and its pairs, if there is a window's time more.
LEMMA CoincidencesFollow ==
  ASSUME ArgumentsOK, LastOK, TimeWindow + Slack <= Overlap
  PROVE  NoCoincidenceIsMissed
<1>1. CASE lastBuffer = None
  <2>1. lastBuffer.photons = <<>> /\ lastBuffer.pairs = <<>>
    BY <1>1, EmptyBuffer
  <2>2. DOMAIN <<>> = {} /\ Len(<<>>) = 0
    BY EmptyBuffer
  <2> DEFINE photons == lastBuffer.photons
             pairs == lastBuffer.pairs
             near == { ij \in (DOMAIN photons) \X (DOMAIN photons) :
                         /\ ij[1] < ij[2]
                         /\ Kind(photons[ij[1]].region, photons[ij[2]].region) = "C"
                         /\ Distance(photons[ij[1]].time, photons[ij[2]].time) <= CoincidenceWindow }
  <2>3. near = {}
    BY <2>1, <2>2
  <2>4. Cardinality(near) = 0
    BY <2>3, FS_EmptySet
  <2> HIDE DEF near
  <2>5. { ToSet(pairs[k]) : k \in DOMAIN pairs } = { {photons[ij[1]], photons[ij[2]]} : ij \in near }
    BY <2>1, <2>2, <2>3
  <2>6. Len(pairs) = Cardinality(near)
    BY <2>1, <2>2, <2>4
  <2> QED
    BY <2>5, <2>6, Zenon DEF NoCoincidenceIsMissed, near
<1>2. CASE lastBuffer # None
  <2> SUFFICES ASSUME program = "coincidence" PROVE NoCoincidenceIsMissed
    BY DEF NoCoincidenceIsMissed
  <2>1. Groups
    BY DEF Groups
  <2>2. PICK raws : /\ raws \in Seq(RawHits) /\ IsHandled(lastBuffer, raws) /\ Ready
                    /\ \E n \in Nat : \E m \in Nat : \E v : HasPhotons(raws, n, m, v)
    BY <1>2, <2>1, LastHasPhotons
  <2>3. PICK n \in Nat : \E m \in Nat : \E v : HasPhotons(raws, n, m, v)
    BY <2>2
  <2>4. PICK m \in Nat : \E v : HasPhotons(raws, n, m, v)
    BY <2>3
  <2>5. PICK v : HasPhotons(raws, n, m, v)
    BY <2>4
  <2>6. lastBuffer.pairs = CoincidenceGrouper(config, lastBuffer.photons)
    BY <2>2 DEF IsHandled
  <2> QED
    BY <2>2, <2>5, <2>6, CoincidencesAreOfBlock
<1> QED
  BY <1>1, <1>2

\* What it says of the writer's files.
LEMMA WriterFollows ==
  ASSUME IInv
  PROVE  WriterInv
<1>1. TypeOK
  <2>1. \A i \in DOMAIN index : index[i].begin \in Nat /\ index[i].end \in Nat
    <3>1. index \in Seq(StepRange)
      BY DEF IInv, FilesTyped
    <3>2. \A i \in DOMAIN index : index[i] \in StepRange
      BY <3>1
    <3> QED
      BY <3>2 DEF StepRange
  <2>2. \A i \in DOMAIN index : index[i].begin <= index[i].end /\ index[i].end <= stepBegin
    BY DEF IInv, IndexOK
  <2>3. stepBegin \in Nat /\ Len(data) \in Nat /\ stepBegin <= Len(data)
    BY DEF IInv, FilesTyped
  <2>4. \A i \in DOMAIN index : index[i].begin \in 0 .. index[i].end /\ index[i].end <= Len(data)
    BY <2>1, <2>2, <2>3
  <2> QED
    BY <2>4 DEF IInv, ArgumentsOK, FilesTyped, TypeOK
<1> QED
  BY <1>1 DEF IInv, IndexOK, WriterInv

-----------------------------------------------------------------------------
(* What is the same when a step leaves the arguments alone.                *)

\* The files' lines, ...
LEMMA SameLines ==
  ASSUME files' = files
  PROVE  /\ \A a, b, br : TacLines(a, b, br)' = TacLines(a, b, br)
         /\ \A a, b : QacLines(a, b)' = QacLines(a, b)
         /\ \A a : PlaceLines(a)' = PlaceLines(a)
         /\ \A a, b : Kind(a, b)' = Kind(a, b)
<1>1. ASSUME NEW a, NEW b, NEW br PROVE TacLines(a, b, br)' = TacLines(a, b, br)
  BY DEF TacLines
<1>2. ASSUME NEW a, NEW b PROVE QacLines(a, b)' = QacLines(a, b)
  BY DEF QacLines
<1>3. ASSUME NEW a PROVE PlaceLines(a)' = PlaceLines(a)
  BY DEF PlaceLines
<1>4. ASSUME NEW a, NEW b PROVE Kind(a, b)' = Kind(a, b)
  <2>1. TriggerLines(a, b)' = TriggerLines(a, b)
    BY DEF TriggerLines
  <2> QED
    BY <2>1 DEF Kind, LastLine
<1> QED
  BY <1>1, <1>2, <1>3, <1>4

\* ... the configuration made of them, ...
LEMMA SameReady ==
  ASSUME UNCHANGED <<arguments, config>>
  PROVE  Ready' <=> Ready
<1>1. files' = files /\ run' = run /\ config' = config
  BY DEF arguments
<1>2. ASSUME NEW n PROVE Loaded(config, n)' <=> Loaded(config, n)
  <2>1. \A a, b, br : LastLine(files.tdc, TacLines(a, b, br))' = LastLine(files.tdc, TacLines(a, b, br))
    BY <1>1, SameLines DEF LastLine
  <2>2. \A a, b : LastLine(files.qdc, QacLines(a, b))' = LastLine(files.qdc, QacLines(a, b))
    BY <1>1, SameLines DEF LastLine
  <2>3. \A a : LastLine(files.channels, PlaceLines(a))' = LastLine(files.channels, PlaceLines(a))
    BY <1>1, SameLines DEF LastLine
  <2> QED
    BY <1>1, <2>1, <2>2, <2>3, SameLines DEF Loaded
<1> QED
  BY <1>1, <1>2 DEF Ready

\* ... what the pipelines make of a block ...
LEMMA SameHandled ==
  ASSUME UNCHANGED <<arguments, config>>, NEW raws
  PROVE  Handled(raws)' = Handled(raws)
<1>1. program' = program /\ run' = run /\ config' = config
  BY DEF arguments
<1>2. RawPipeline(raws)' = RawPipeline(raws)
  BY DEF RawPipeline
<1>3. SinglesPipeline(raws)' = SinglesPipeline(raws)
  BY <1>1 DEF SinglesPipeline
<1>4. GroupPipeline(raws)' = GroupPipeline(raws)
  BY <1>1, <1>3 DEF GroupPipeline
<1>5. CoincidencePipeline(raws)' = CoincidencePipeline(raws)
  BY <1>1, <1>4 DEF CoincidencePipeline
<1> QED
  BY <1>1, <1>2, <1>3, <1>4, <1>5 DEF Handled

\* ... and the blocks that there are.
LEMMA SameBlocks ==
  ASSUME run' = run
  PROVE  /\ \A raws : IsBlock(raws)' <=> IsBlock(raws)
         /\ \A raw : StepsWith(raw)' = StepsWith(raw)
<1>1. ASSUME NEW raws PROVE IsBlock(raws)' <=> IsBlock(raws)
  BY DEF IsBlock
<1>2. ASSUME NEW raw PROVE StepsWith(raw)' = StepsWith(raw)
  BY DEF StepsWith
<1> QED
  BY <1>1, <1>2

-----------------------------------------------------------------------------
(* What steps that write nothing leave as it is.                           *)

\* An acquisition is of sequences.
LEMMA RunIs ==
  ASSUME run \in Runs
  PROVE  /\ Len(run.steps) \in Nat /\ DOMAIN run.steps = 1 .. Len(run.steps)
         /\ \A s \in DOMAIN run.steps :
              /\ run.steps[s] \in Seq(Seq(RawHits))
              /\ Len(run.steps[s]) \in Nat /\ DOMAIN run.steps[s] = 1 .. Len(run.steps[s])
<1> DEFINE X == Seq(RawHits)
<1> DEFINE Y == Seq(X)
<1>1. run.steps \in Seq(Y)
  BY ConversionAssumption DEF RunOK
<1> HIDE DEF Y
<1>2. \A s \in DOMAIN run.steps : run.steps[s] \in Y
  BY <1>1
<1>3. \A y \in Y : Len(y) \in Nat /\ DOMAIN y = 1 .. Len(y)
  <2> HIDE DEF X
  <2> QED
    BY DEF Y
<1> QED
  BY <1>1, <1>2, <1>3 DEF Y

\* The writer's counters and files.
LEMMA SameWriter ==
  ASSUME FilesTyped, ShareIsKept, UNCHANGED <<arguments, writer>>
  PROVE  FilesTyped' /\ ShareIsKept'
<1>1. /\ eventCounter' = eventCounter /\ data' = data /\ index' = index /\ stepBegin' = stepBegin
      /\ program' = program /\ options' = options
  BY DEF arguments, writer
<1>2. FilesTyped'
  BY <1>1 DEF FilesTyped
<1>3. ShareIsKept'
  BY <1>1 DEF ShareIsKept
<1> QED
  BY <1>2, <1>3

\* What has been written of photons that stay or go.
LEMMA SameBest ==
  ASSUME BestHitIsKept, UNCHANGED arguments, data' = data, lastBuffer' \in {lastBuffer, None}
  PROVE  BestHitIsKept'
<1>1. program' = program /\ fileType' = fileType
  BY DEF arguments
<1>2. CASE lastBuffer' = lastBuffer
  BY <1>1, <1>2 DEF BestHitIsKept
<1>3. CASE lastBuffer' = None
  <2>1. ToSet(lastBuffer'.photons) = {}
    BY <1>3, EmptyBuffer
  <2> QED
    BY <2>1 DEF BestHitIsKept
<1> QED
  BY <1>2, <1>3

\* The last block, unless the program is not at one.
LEMMA SameLast ==
  ASSUME LastOK, UNCHANGED <<arguments, config, lastBuffer>>,
         lastBuffer # None => phase' \notin {"start", "next"}
  PROVE  LastOK'
<1>1. program' = program /\ run' = run
  BY DEF arguments
<1>2. /\ Ready' <=> Ready
      /\ \A raws : Handled(raws)' = Handled(raws)
      /\ \A raws : IsBlock(raws)' <=> IsBlock(raws)
  BY <1>1, SameReady, SameHandled, SameBlocks
<1> SUFFICES ASSUME lastBuffer' # None
             PROVE  /\ phase' \notin {"start", "next"} /\ (program' # "raw" => Ready')
                    /\ \E raws : IsBlock(raws)' /\ lastBuffer' \in Handled(raws)'
  BY DEF LastOK
<1>3. /\ program # "raw" => Ready
      /\ \E raws : IsBlock(raws) /\ lastBuffer \in Handled(raws)
  BY DEF LastOK
<1> QED
  BY <1>1, <1>2, <1>3

\* What has been read stays read.
LEMMA SameEntries ==
  ASSUME EntriesOK, UNCHANGED <<arguments, data>>,
         \A s \in DOMAIN run.steps : \A b \in DOMAIN run.steps[s] : Past(s, b) => Past(s, b)'
  PROVE  EntriesOK'
<1>1. run' = run /\ data' = data
  BY DEF arguments
<1> QED
  BY <1>1 DEF EntriesOK

\* The index, while only the step and the phase change.
LEMMA SameIndex ==
  ASSUME IndexOK, UNCHANGED <<arguments, writer>>,
         fileType # "text" =>
           /\ phase' \in {"start", "next"} => Len(index) = step' /\ stepBegin = Len(data)
           /\ phase' = "step" => Len(index) = step' - 1
           /\ \A k \in stepBegin + 1 .. Len(data) :
                /\ fileType = "root" => data[k].step = step'
                /\ \A raw \in ToSet(data[k].hits) : step' \in StepsWith(raw)
  PROVE  IndexOK'
<1>1. /\ data' = data /\ index' = index /\ stepBegin' = stepBegin
      /\ fileType' = fileType /\ run' = run
  BY DEF arguments, writer
<1>2. \A raw : StepsWith(raw)' = StepsWith(raw)
  BY <1>1, SameBlocks
<1>3. IndexIsRight'
  BY <1>1, <1>2 DEF IndexOK, IndexIsRight
<1>4. /\ \A i \in DOMAIN index' : index'[i].begin <= index'[i].end /\ index'[i].end <= stepBegin'
      /\ fileType' = "text" => index' = <<>>
  BY <1>1 DEF IndexOK
<1>5. fileType' # "text" =>
        /\ phase' \in {"start", "next"} => Len(index') = step' /\ stepBegin' = Len(data')
        /\ phase' = "step" => Len(index') = step' - 1
        /\ stepBegin' = IF index' = <<>> THEN 0 ELSE index'[Len(index')].end
        /\ \A k \in stepBegin' + 1 .. Len(data') :
             /\ fileType' = "root" => data'[k].step = step'
             /\ \A raw \in ToSet(data'[k].hits) : step' \in StepsWith(raw)'
  BY <1>1, <1>2 DEF IndexOK
<1> QED
  BY <1>3, <1>4, <1>5 DEF IndexOK

-----------------------------------------------------------------------------
(* The invariant holds at first.                                           *)

\* Nothing has been read and nothing written.
LEMMA InitInv ==
  ASSUME Init
  PROVE  IInv
<1>1. /\ program \in Programs /\ options \in Options /\ files \in Configurations /\ run \in Runs
      /\ phase = "start" /\ step = 0 /\ lastBuffer = None
      /\ eventCounter = 0 /\ stepBegin = 0 /\ data = <<>> /\ index = <<>>
  BY DEF Init, WriterInit
<1>2. ArgumentsOK
  BY <1>1, RunIs DEF ArgumentsOK
<1>3. Configured /\ LastOK /\ BlocksOK
  BY <1>1 DEF Configured, LastOK, BlocksOK
<1>4. FilesTyped
  BY <1>1 DEF FilesTyped
<1>5. IndexOK
  BY <1>1 DEF IndexOK, IndexIsRight
<1>6. EntriesOK
  BY <1>1 DEF EntriesOK
<1>7. ShareIsKept
  <2>1. Share(0) = 0
    BY <1>1, ShareStep
  <2>2. Len(data) = Share(eventCounter)
    BY <1>1, <2>1
  <2> QED
    BY <2>2, Zenon DEF Share, ShareIsKept
<1>8. BestHitIsKept
  <2>1. ToSet(lastBuffer.photons) = {}
    BY <1>1, EmptyBuffer
  <2> QED
    BY <2>1 DEF BestHitIsKept
<1> QED
  BY <1>2, <1>3, <1>4, <1>5, <1>6, <1>7, <1>8 DEF IInv

-----------------------------------------------------------------------------
(* The steps of main that write nothing keep it.                           *)

\* Reading goes on only.
LEMMA PastStays ==
  ASSUME ArgumentsOK, step' \in Nat,
         \/ step' = step /\ phase' # "step"
         \/ step' > step,
         NEW s \in Nat, NEW b, Past(s, b)
  PROVE  Past(s, b)'
<1>1. step \in Nat
  BY RunIs DEF ArgumentsOK
<1> QED
  BY <1>1 DEF Past

\* Entries stay with blocks that have been read.
LEMMA SameProgress ==
  ASSUME ArgumentsOK, EntriesOK, UNCHANGED <<arguments, data>>, step' \in Nat,
         \/ step' = step /\ phase' # "step"
         \/ step' > step
  PROVE  EntriesOK'
<1>1. DOMAIN run.steps \subseteq Nat
  BY RunIs DEF ArgumentsOK
<1>2. \A s \in DOMAIN run.steps : \A b \in DOMAIN run.steps[s] : Past(s, b) => Past(s, b)'
  BY <1>1, PastStays
<1> QED
  BY <1>2, SameEntries

\* The configuration is loaded, or there is none.
LEMMA LoadKeeps ==
  ASSUME IInv, NEW n \in Noise, Load(n[1], n[2])
  PROVE  IInv'
<1>1. /\ UNCHANGED <<arguments, writer>>
      /\ phase = "start" /\ step' = step /\ lastBuffer' = lastBuffer
      /\ program' = program /\ options' = options /\ files' = files /\ run' = run
      /\ phase' \in {"next", "failed"}
  BY DEF Load, arguments, writer
<1>2. ArgumentsOK /\ lastBuffer = None /\ step \in Nat
  BY <1>1, RunIs DEF IInv, LastOK, ArgumentsOK
<1>3. ArgumentsOK'
  BY <1>1, <1>2 DEF ArgumentsOK
<1>4. Configured'
  <2> SUFFICES ASSUME program # "raw", phase' = "next" PROVE Ready'
    BY <1>1 DEF Configured
  <2>1. CanLoad(files)
    BY <1>1 DEF Load
  <2>2. PICK c : c = FromFile(files, NullConfig(n[1], n[2])) /\ config' = c
    BY <2>1 DEF Load
  <2>3. Loaded(c, n)
    BY <1>2, <2>1, <2>2, ConfigurationLoads DEF ArgumentsOK
  <2>4. Loaded(config, n)'
    <3>1. \A a, b, br : LastLine(files.tdc, TacLines(a, b, br))' = LastLine(files.tdc, TacLines(a, b, br))
      BY <1>1, SameLines DEF LastLine
    <3>2. \A a, b : LastLine(files.qdc, QacLines(a, b))' = LastLine(files.qdc, QacLines(a, b))
      BY <1>1, SameLines DEF LastLine
    <3>3. \A a : LastLine(files.channels, PlaceLines(a))' = LastLine(files.channels, PlaceLines(a))
      BY <1>1, SameLines DEF LastLine
    <3> QED
      BY <1>1, <2>2, <2>3, <3>1, <3>2, <3>3, SameLines DEF Loaded
  <2>5. run' \in Runs /\ files' \in Configurations /\ CanLoad(files)'
    BY <1>1, <1>2, <2>1 DEF ArgumentsOK, CanLoad
  <2> QED
    BY <2>4, <2>5 DEF Ready
<1>5. LastOK' /\ BlocksOK'
  BY <1>1, <1>2 DEF LastOK, BlocksOK
<1>6. FilesTyped' /\ ShareIsKept'
  BY <1>1, SameWriter DEF IInv
<1>7. IndexOK'
  <2>1. step' = step /\ phase' # "step"
    BY <1>1
  <2>2. fileType # "text" =>
          /\ phase' \in {"start", "next"} => Len(index) = step' /\ stepBegin = Len(data)
          /\ phase' = "step" => Len(index) = step' - 1
          /\ \A k \in stepBegin + 1 .. Len(data) :
               /\ fileType = "root" => data[k].step = step'
               /\ \A raw \in ToSet(data[k].hits) : step' \in StepsWith(raw)
    BY <1>1, <2>1 DEF IInv, IndexOK
  <2> QED
    BY <1>1, <2>2, SameIndex DEF IInv
<1>8. EntriesOK'
  BY <1>1, <1>2, SameProgress DEF IInv, writer
<1>9. BestHitIsKept'
  BY <1>1, SameBest DEF IInv, writer
<1> QED
  BY <1>3, <1>4, <1>5, <1>6, <1>7, <1>8, <1>9 DEF IInv

\* _event and _trigger end before they have read any.
LEMMA NoPedestalsKeeps ==
  ASSUME IInv, NoPedestals
  PROVE  IInv'
<1>1. /\ UNCHANGED <<arguments, config, writer>>
      /\ phase = "start" /\ step' = step /\ lastBuffer' = lastBuffer
      /\ program' = program /\ options' = options /\ files' = files /\ run' = run
      /\ phase' = "crashed"
  BY DEF NoPedestals, arguments, writer
<1>2. ArgumentsOK /\ lastBuffer = None /\ step \in Nat
  BY <1>1, RunIs DEF IInv, LastOK, ArgumentsOK
<1>3. ArgumentsOK'
  BY <1>1, <1>2 DEF ArgumentsOK
<1>4. Configured' /\ LastOK' /\ BlocksOK'
  BY <1>1, <1>2 DEF Configured, LastOK, BlocksOK
<1>5. FilesTyped' /\ ShareIsKept'
  BY <1>1, SameWriter DEF IInv
<1>6. IndexOK'
  <2>1. fileType # "text" =>
          /\ phase' \in {"start", "next"} => Len(index) = step' /\ stepBegin = Len(data)
          /\ phase' = "step" => Len(index) = step' - 1
          /\ \A k \in stepBegin + 1 .. Len(data) :
               /\ fileType = "root" => data[k].step = step'
               /\ \A raw \in ToSet(data[k].hits) : step' \in StepsWith(raw)
    BY <1>1 DEF IInv, IndexOK
  <2> QED
    BY <1>1, <2>1, SameIndex DEF IInv
<1>7. EntriesOK'
  BY <1>1, <1>2, SameProgress DEF IInv, writer
<1>8. BestHitIsKept'
  BY <1>1, SameBest DEF IInv, writer
<1> QED
  BY <1>3, <1>4, <1>5, <1>6, <1>7, <1>8 DEF IInv

\* A step begins with all of its blocks to come.
LEMMA NextStepKeeps ==
  ASSUME IInv, NextStep
  PROVE  IInv'
<1>1. /\ UNCHANGED <<arguments, config, writer>>
      /\ phase = "next" /\ step < Len(run.steps) /\ lastBuffer' = lastBuffer
      /\ phase' = "step" /\ step' = step + 1 /\ blocks' = run.steps[step + 1]
      /\ program' = program /\ options' = options /\ files' = files /\ run' = run
  BY DEF NextStep, arguments, writer
<1>2. ArgumentsOK /\ lastBuffer = None /\ step \in Nat
  BY <1>1, RunIs DEF IInv, LastOK, ArgumentsOK
<1>3. step' \in Nat /\ step' >= 1 /\ step' \in DOMAIN run.steps
  BY <1>1, <1>2, RunIs DEF ArgumentsOK
<1>4. ArgumentsOK'
  BY <1>1, <1>2, <1>3, RunIs DEF ArgumentsOK
<1>5. Configured'
  <2>1. program # "raw" => Ready
    BY <1>1 DEF IInv, Configured
  <2> QED
    BY <1>1, <2>1, SameReady DEF Configured
<1>6. LastOK'
  BY <1>1, <1>2 DEF LastOK
<1>7. BlocksOK'
  <2>1. PICK s : s = run.steps[step']
    OBVIOUS
  <2>2. s \in Seq(Seq(RawHits)) /\ Len(s) \in Nat
    BY <1>2, <1>3, <2>1, RunIs DEF ArgumentsOK
  <2>3. blocks' = s /\ run'.steps[step'] = s
    BY <1>1, <2>1
  <2>4. \A k \in 1 .. Len(s) : s[k] = s[Len(s) - Len(s) + k]
    BY <2>2
  <2> QED
    BY <1>3, <2>2, <2>3, <2>4 DEF BlocksOK
<1>8. FilesTyped' /\ ShareIsKept'
  BY <1>1, SameWriter DEF IInv
<1>9. IndexOK'
  <2>1. fileType # "text" => Len(index) = step /\ stepBegin = Len(data)
    BY <1>1 DEF IInv, IndexOK
  <2>2. Len(data) \in Nat
    BY DEF IInv, FilesTyped
  <2>3. fileType # "text" => \A k : k \notin stepBegin + 1 .. Len(data)
    BY <2>1, <2>2
  <2>4. fileType # "text" =>
          /\ phase' \in {"start", "next"} => Len(index) = step' /\ stepBegin = Len(data)
          /\ phase' = "step" => Len(index) = step' - 1
          /\ \A k \in stepBegin + 1 .. Len(data) :
               /\ fileType = "root" => data[k].step = step'
               /\ \A raw \in ToSet(data[k].hits) : step' \in StepsWith(raw)
    BY <1>1, <1>2, <2>1, <2>3
  <2> QED
    BY <1>1, <2>4, SameIndex DEF IInv
<1>10. EntriesOK'
  BY <1>1, <1>2, <1>3, SameProgress DEF IInv, writer
<1>11. BestHitIsKept'
  BY <1>1, SameBest DEF IInv, writer
<1> QED
  BY <1>4, <1>5, <1>6, <1>7, <1>8, <1>9, <1>10, <1>11 DEF IInv

\* After the last step.
LEMMA FinishKeeps ==
  ASSUME IInv, Finish
  PROVE  IInv'
<1>1. /\ UNCHANGED <<arguments, config, writer>>
      /\ phase = "next" /\ step' = step /\ lastBuffer' = lastBuffer
      /\ program' = program /\ options' = options /\ files' = files /\ run' = run
      /\ phase' = "done"
  BY DEF Finish, arguments, writer
<1>2. ArgumentsOK /\ lastBuffer = None /\ step \in Nat
  BY <1>1, RunIs DEF IInv, LastOK, ArgumentsOK
<1>3. ArgumentsOK'
  BY <1>1, <1>2 DEF ArgumentsOK
<1>4. Configured' /\ LastOK' /\ BlocksOK'
  BY <1>1, <1>2 DEF Configured, LastOK, BlocksOK
<1>5. FilesTyped' /\ ShareIsKept'
  BY <1>1, SameWriter DEF IInv
<1>6. IndexOK'
  <2>1. fileType # "text" =>
          /\ phase' \in {"start", "next"} => Len(index) = step' /\ stepBegin = Len(data)
          /\ phase' = "step" => Len(index) = step' - 1
          /\ \A k \in stepBegin + 1 .. Len(data) :
               /\ fileType = "root" => data[k].step = step'
               /\ \A raw \in ToSet(data[k].hits) : step' \in StepsWith(raw)
    BY <1>1 DEF IInv, IndexOK
  <2> QED
    BY <1>1, <2>1, SameIndex DEF IInv
<1>7. EntriesOK'
  BY <1>1, <1>2, SameProgress DEF IInv, writer
<1>8. BestHitIsKept'
  BY <1>1, SameBest DEF IInv, writer
<1> QED
  BY <1>3, <1>4, <1>5, <1>6, <1>7, <1>8 DEF IInv

-----------------------------------------------------------------------------
(* The end of a step.                                                      *)

\* The range of the step that ends takes all entries that no range has.
LEMMA IndexGrows ==
  ASSUME IInv, EndStep, fileType # "text"
  PROVE  IndexOK'
<1>1. /\ phase' = "next" /\ step' = step /\ data' = data /\ run' = run /\ fileType' = fileType
      /\ index' = Append(index, [begin |-> stepBegin, end |-> Len(data)])
      /\ stepBegin' = Len(data)
      /\ phase = "step"
  BY DEF EndStep, CloseStep, NextBegin, arguments
<1>2. /\ index \in Seq(StepRange) /\ stepBegin \in 0 .. Len(data) /\ Len(data) \in Nat
  BY DEF IInv, FilesTyped
<1>3. PICK n \in Nat : n = Len(index) /\ DOMAIN index = 1 .. n
  BY <1>2
<1>4. PICK x : x = [begin |-> stepBegin, end |-> Len(data)]
  OBVIOUS
<1>5. x \in StepRange /\ x.begin = stepBegin /\ x.end = Len(data)
  BY <1>2, <1>4 DEF StepRange
<1>6. /\ DOMAIN index' = 1 .. (n + 1) /\ Len(index') = n + 1
      /\ index'[n + 1] = x /\ \A i \in 1 .. n : index'[i] = index[i]
  BY <1>1, <1>2, <1>3, <1>4, <1>5
<1>7. step \in Nat /\ n + 1 = step
  <2>1. step \in Nat
    BY RunIs DEF IInv, ArgumentsOK
  <2>2. Len(index) = step - 1
    BY <1>1 DEF IInv, IndexOK
  <2> QED
    BY <1>3, <2>1, <2>2
<1>8. \A raw : StepsWith(raw)' = StepsWith(raw)
  BY <1>1, SameBlocks
<1>9. /\ stepBegin = IF n = 0 THEN 0 ELSE index[n].end
      /\ \A k \in stepBegin + 1 .. Len(data) :
           /\ fileType = "root" => data[k].step = n + 1
           /\ \A raw \in ToSet(data[k].hits) : n + 1 \in StepsWith(raw)
  <2>1. index = <<>> <=> n = 0
    BY <1>2, <1>3
  <2> QED
    BY <1>1, <1>3, <1>7, <2>1 DEF IInv, IndexOK
<1>10. ASSUME NEW s \in 1 .. (n + 1)
       PROVE  /\ index'[s].begin = IF s = 1 THEN 0 ELSE index'[s - 1].end
              /\ \A k \in index'[s].begin + 1 .. index'[s].end :
                   /\ fileType = "root" => data[k].step = s
                   /\ \A raw \in ToSet(data[k].hits) : s \in StepsWith(raw)
  <2>1. CASE s = n + 1
    <3>1. n # 0 => n \in 1 .. n
      BY <1>3
    <3>2. index'[s].begin = IF s = 1 THEN 0 ELSE index'[s - 1].end
      BY <1>5, <1>6, <1>9, <2>1, <3>1
    <3> QED
      BY <1>5, <1>6, <1>9, <2>1, <3>2
  <2>2. CASE s # n + 1
    <3>1. s \in 1 .. n /\ index'[s] = index[s]
      BY <1>6, <2>2
    <3>2. s # 1 => index'[s - 1] = index[s - 1]
      <4>1. s # 1 => s - 1 \in 1 .. n
        BY <3>1
      <4> QED
        BY <1>6, <4>1
    <3>3. /\ index[s].begin = IF s = 1 THEN 0 ELSE index[s - 1].end
          /\ \A k \in index[s].begin + 1 .. index[s].end :
               /\ fileType = "root" => data[k].step = s
               /\ \A raw \in ToSet(data[k].hits) : s \in StepsWith(raw)
      BY <1>3, <3>1 DEF IInv, IndexOK, IndexIsRight
    <3> QED
      BY <3>1, <3>2, <3>3, Zenon
  <2> QED
    BY <2>1, <2>2
<1>11. IndexIsRight'
  BY <1>1, <1>6, <1>8, <1>10 DEF IndexIsRight
<1>12. ASSUME NEW i \in 1 .. (n + 1)
       PROVE  index'[i].begin <= index'[i].end /\ index'[i].end <= Len(data)
  <2>1. CASE i = n + 1
    BY <1>2, <1>5, <1>6, <2>1
  <2>2. CASE i # n + 1
    <3>1. i \in 1 .. n /\ index'[i] = index[i]
      BY <1>6, <2>2
    <3>2. index[i] \in StepRange
      BY <1>2, <1>3, <3>1
    <3>3. index[i].begin <= index[i].end /\ index[i].end <= stepBegin
      BY <1>3, <3>1 DEF IInv, IndexOK
    <3> QED
      BY <1>2, <3>1, <3>2, <3>3 DEF StepRange
  <2> QED
    BY <2>1, <2>2
<1>13. stepBegin' = IF index' = <<>> THEN 0 ELSE index'[Len(index')].end
  <2>1. index' # <<>>
    BY <1>6
  <2> QED
    BY <1>1, <1>5, <1>6, <2>1
<1>14. \A k : k \notin Len(data) + 1 .. Len(data)
  BY <1>2
<1>15. fileType' # "text" =>
         /\ phase' \in {"start", "next"} => Len(index') = step' /\ stepBegin' = Len(data')
         /\ phase' = "step" => Len(index') = step' - 1
         /\ stepBegin' = IF index' = <<>> THEN 0 ELSE index'[Len(index')].end
         /\ \A k \in stepBegin' + 1 .. Len(data') :
              /\ fileType' = "root" => data'[k].step = step'
              /\ \A raw \in ToSet(data'[k].hits) : step' \in StepsWith(raw)'
  BY <1>1, <1>6, <1>7, <1>13, <1>14
<1>16. \A i \in DOMAIN index' : index'[i].begin <= index'[i].end /\ index'[i].end <= stepBegin'
  BY <1>1, <1>6, <1>12
<1>17. fileType' = "text" => index' = <<>>
  BY <1>1
<1> QED
  BY <1>11, <1>15, <1>16, <1>17 DEF IndexOK

\* The writer closes the step, and the buffers are gone.
LEMMA EndStepKeeps ==
  ASSUME IInv, EndStep
  PROVE  IInv'
<1>1. /\ UNCHANGED <<arguments, config, data, eventCounter>>
      /\ phase = "step" /\ phase' = "next" /\ step' = step /\ lastBuffer' = None
      /\ program' = program /\ options' = options /\ files' = files /\ run' = run
      /\ fileType' = fileType
  BY DEF EndStep, CloseStep, arguments
<1>2. ArgumentsOK /\ step \in Nat
  BY RunIs DEF IInv, ArgumentsOK
<1>3. ArgumentsOK'
  BY <1>1, <1>2 DEF ArgumentsOK
<1>4. Configured'
  <2>1. program # "raw" => Ready
    BY <1>1 DEF IInv, Configured
  <2> QED
    BY <1>1, <2>1, SameReady DEF Configured
<1>5. LastOK' /\ BlocksOK'
  BY <1>1 DEF LastOK, BlocksOK
<1>6. FilesTyped'
  <2>1. /\ eventCounter \in Nat /\ data \in Seq(Recorded) /\ index \in Seq(StepRange)
        /\ stepBegin \in 0 .. Len(data) /\ Len(data) \in Nat
    BY DEF IInv, FilesTyped
  <2>2. index' \in Seq(StepRange) /\ stepBegin' \in 0 .. Len(data)
    <3>1. CASE fileType = "text"
      BY <2>1, <3>1 DEF EndStep, CloseStep
    <3>2. CASE fileType # "text"
      <4>1. /\ index' = Append(index, [begin |-> stepBegin, end |-> Len(data)])
            /\ stepBegin' = Len(data)
        BY <3>2 DEF EndStep, CloseStep, NextBegin
      <4>2. [begin |-> stepBegin, end |-> Len(data)] \in StepRange
        BY <2>1 DEF StepRange
      <4> QED
        BY <2>1, <4>1, <4>2
    <3> QED
      BY <3>1, <3>2
  <2> QED
    BY <1>1, <2>1, <2>2 DEF FilesTyped
<1>7. IndexOK'
  <2>1. CASE fileType = "text"
    <3>1. UNCHANGED writer
      BY <1>1, <2>1 DEF EndStep, CloseStep, writer
    <3> QED
      BY <1>1, <2>1, <3>1, SameIndex DEF IInv
  <2>2. CASE fileType # "text"
    BY <2>2, IndexGrows
  <2> QED
    BY <2>1, <2>2
<1>8. EntriesOK'
  BY <1>1, <1>2, SameProgress DEF IInv
<1>9. ShareIsKept'
  BY <1>1 DEF IInv, ShareIsKept
<1>10. BestHitIsKept'
  BY <1>1, SameBest DEF IInv
<1> QED
  BY <1>3, <1>4, <1>5, <1>6, <1>7, <1>8, <1>9, <1>10 DEF IInv

-----------------------------------------------------------------------------
(* A block that goes through the pipeline.                                 *)

\* The next block is block c of the step.
ToCome(raws, c) ==
  /\ step \in DOMAIN run.steps /\ c \in DOMAIN run.steps[step] /\ raws = run.steps[step][c]
  /\ c = Len(run.steps[step]) - Len(blocks) + 1

\* There is such a block while the step has not ended.
LEMMA BlockComes ==
  ASSUME ArgumentsOK, BlocksOK, phase = "step", blocks # <<>>
  PROVE  \E c \in Nat : ToCome(Head(blocks), c)
<1>1. step \in Nat /\ step \in DOMAIN run.steps
  BY RunIs DEF ArgumentsOK, BlocksOK
<1>2. PICK s : s = run.steps[step]
  OBVIOUS
<1>3. Len(s) \in Nat /\ DOMAIN s = 1 .. Len(s)
  BY <1>1, <1>2, RunIs DEF ArgumentsOK
<1>4. PICK n \in Nat : n = Len(blocks) /\ n >= 1 /\ n <= Len(s) /\ Head(blocks) = blocks[1]
  BY <1>2 DEF BlocksOK
<1>5. PICK c \in 1 .. Len(s) : c = Len(s) - n + 1
  BY <1>3, <1>4, SMTT(30)
<1>6. blocks[1] = s[Len(s) - n + 1]
  BY <1>2, <1>4 DEF BlocksOK
<1>7. ToCome(Head(blocks), c)
  BY <1>1, <1>2, <1>3, <1>4, <1>5, <1>6 DEF ToCome
<1> QED
  BY <1>5, <1>7

\* It has not been read, and will have been.
LEMMA BlockIsRead ==
  ASSUME ArgumentsOK, BlocksOK, HandleBlock, NEW c \in Nat, ToCome(Head(blocks), c)
  PROVE  /\ ~Past(step, c) /\ Past(step, c)'
         /\ \A s, b \in Nat : Past(s, b) => Past(s, b)'
         /\ phase' \in {"step", "crashed"} /\ BlocksOK'
<1>1. /\ phase = "step" /\ blocks # <<>> /\ blocks' = Tail(blocks)
      /\ UNCHANGED <<arguments, config, step>> /\ run' = run
  BY DEF HandleBlock, arguments
<1>2. phase' \in {"step", "crashed"}
  BY <1>1 DEF HandleBlock
<1>3. step \in Nat
  BY RunIs DEF ArgumentsOK
<1>4. PICK s : s = run.steps[step]
  OBVIOUS
<1>5. Len(s) \in Nat
  BY <1>4, RunIs DEF ToCome, ArgumentsOK
<1>6. blocks \in Seq(Seq(RawHits)) /\ Len(blocks) <= Len(s)
      /\ \A k \in 1 .. Len(blocks) : blocks[k] = s[Len(s) - Len(blocks) + k]
  BY <1>1, <1>4 DEF BlocksOK
<1> DEFINE Y == Seq(RawHits)
<1>7. PICK n \in Nat : Len(blocks) = n + 1
  <2> HIDE DEF Y
  <2>1. blocks \in Seq(Y)
    BY <1>6 DEF Y
  <2>2. Len(blocks) \in Nat /\ Len(blocks) # 0
    BY <1>1, <2>1
  <2>3. Len(blocks) - 1 \in Nat /\ Len(blocks) = (Len(blocks) - 1) + 1
    BY <2>2
  <2> QED
    BY <2>3
<1>8. blocks' \in Seq(Y) /\ Len(blocks') = n /\ \A k \in 1 .. n : blocks'[k] = blocks[k + 1]
  <2> HIDE DEF Y
  <2>1. blocks \in Seq(Y)
    BY <1>6 DEF Y
  <2> QED
    BY <1>1, <1>7, <2>1
<1>9. \A k \in 1 .. n : blocks'[k] = s[Len(s) - n + k]
  <2>1. \A k \in 1 .. n : k + 1 \in 1 .. (n + 1) /\ Len(s) - (n + 1) + (k + 1) = Len(s) - n + k
    BY <1>5
  <2> QED
    BY <1>6, <1>7, <1>8, <2>1, SMTT(30)
<1>10. BlocksOK'
  <2>1. step >= 1
    BY <1>1 DEF BlocksOK
  <2>2. step' >= 1 /\ blocks' \in Seq(Seq(RawHits))
    BY <1>1, <1>8, <2>1
  <2>3. run'.steps[step'] = s
    BY <1>1, <1>4
  <2>4. Len(blocks') <= Len(s)
    BY <1>5, <1>6, <1>7, <1>8
  <2>5. \A k \in 1 .. Len(blocks') : blocks'[k] = s[Len(s) - Len(blocks') + k]
    BY <1>8, <1>9
  <2> QED
    BY <2>2, <2>3, <2>4, <2>5 DEF BlocksOK
<1>11. c = Len(s) - n
  BY <1>4, <1>5, <1>7 DEF ToCome
<1>12. ~Past(step, c)
  BY <1>1, <1>3, <1>4, <1>5, <1>7, <1>11 DEF Past
<1>13. Past(step, c)'
  BY <1>1, <1>3, <1>4, <1>5, <1>8, <1>11 DEF Past
<1>14. \A t, b \in Nat : Past(t, b) => Past(t, b)'
  BY <1>1, <1>3, <1>4, <1>5, <1>7, <1>8 DEF Past
<1> QED
  BY <1>2, <1>10, <1>12, <1>13, <1>14

\* What is written of a photon's channel is the best hit that any of the block's
\* photons with it has.
LEMMA BestOfPhoton ==
  ASSUME options \in Options, Groups,
         NEW b, NEW raws, NEW n \in Nat, NEW m \in Nat, NEW v, HasHits(b, raws, n, m, v),
         NEW p \in ToSet(b.photons), NEW q \in ToSet(b.photons),
         NEW g \in ToSet(p.hits), NEW h \in ToSet(p.hits),
         g.raw \in ToSet(FirstOfChannel(q)), h.raw.channelID = g.raw.channelID
  PROVE  h.energy <= g.energy
<1>1. PICK hits : hits = b.hits
  OBVIOUS
<1>2. PICK photons : photons = b.photons
  OBVIOUS
<1>3. /\ \A i \in 1 .. n : hits[i].energy \in Int
      /\ \A i, j \in 1 .. n : hits[i].raw = hits[j].raw => i = j
  BY <1>1 DEF HasHits, HitsOK
<1>4. /\ DOMAIN photons = 1 .. m
      /\ v \in [1 .. m -> Seq(1 .. n)]
      /\ \A k \in 1 .. m : IsPhoton(photons[k], hits, v[k])
      /\ \A j, k \in 1 .. m : j < k => Apart(v[j], v[k])
  <2>1. photons = [k \in 1 .. m |-> photons[k]]
    BY <1>2 DEF HasHits, Photons
  <2> QED
    BY <1>1, <1>2, <2>1 DEF HasHits, Photons
<1>5. PICK a \in 1 .. m : p = photons[a]
  BY <1>2, <1>4 DEF ToSet
<1>6. PICK c \in 1 .. m : q = photons[c]
  BY <1>2, <1>4 DEF ToSet
<1>7. PICK w : w = v[a]
  OBVIOUS
<1>8. PICK x : x = v[c]
  OBVIOUS
<1>9. w \in Seq(1 .. n) /\ x \in Seq(1 .. n) /\ IsPhoton(p, hits, w) /\ IsPhoton(q, hits, x)
  <2> DEFINE Y == Seq(1 .. n)
  <2> HIDE DEF Y
  <2>1. v \in [1 .. m -> Y]
    BY <1>4 DEF Y
  <2>2. w \in Y /\ x \in Y
    BY <1>7, <1>8, <2>1
  <2> QED
    BY <1>4, <1>5, <1>6, <1>7, <1>8, <2>2 DEF Y
<1>10. PICK l \in Nat : l = Len(w) /\ \A j \in 1 .. l : w[j] \in 1 .. n
  <2>1. w \in Seq(1 .. n)
    BY <1>9
  <2> QED
    BY <2>1, SMTT(30)
<1>11. /\ DOMAIN p.hits = 1 .. l
       /\ \A k \in 1 .. l : \E j \in 1 .. l : p.hits[k] = hits[w[j]]
       /\ \A j, k \in 1 .. l : j <= k => p.hits[k].energy <= p.hits[j].energy
  <2>1. p.hits = [k \in 1 .. l |-> p.hits[k]]
    BY <1>9, <1>10 DEF IsPhoton
  <2> QED
    BY <1>9, <1>10, <2>1 DEF IsPhoton
<1>12. PICK d \in 1 .. l : g = p.hits[d]
  BY <1>11 DEF ToSet
<1>13. PICK e \in 1 .. l : h = p.hits[e]
  BY <1>11 DEF ToSet
<1>14. PICK j \in 1 .. l : g = hits[w[j]]
  BY <1>11, <1>12
<1>15. PhotonOK(q, ToSet(raws))
  BY <1>2, <1>6, PhotonHits
<1>16. PICK z \in Nat : \E o : Firsts(FirstOfChannel(q), q, z, o)
  BY <1>15, FirstOfChannelIs
<1>17. PICK o : Firsts(FirstOfChannel(q), q, z, o)
  BY <1>16
<1>18. PICK k \in 1 .. z : g.raw = q.hits[o[k]].raw
  <2>1. DOMAIN FirstOfChannel(q) = 1 .. z /\ \A i \in 1 .. z : FirstOfChannel(q)[i] = q.hits[o[i]].raw
    BY <1>17 DEF Firsts
  <2> QED
    BY <2>1 DEF ToSet
<1>19. PICK f \in Nat : /\ f = o[k] /\ f \in 1 .. Len(q.hits)
                        /\ \A i \in 1 .. f - 1 : q.hits[i].raw.channelID # q.hits[f].raw.channelID
  <2>1. Limit(q) \in Nat /\ Limit(q) <= Len(q.hits)
    BY <1>15, LimitIs, Zenon
  <2>2. o[k] \in 1 .. Limit(q)
        /\ \A i \in 1 .. o[k] - 1 : q.hits[i].raw.channelID # q.hits[o[k]].raw.channelID
    BY <1>17 DEF Firsts
  <2>3. Len(q.hits) \in Nat
    BY <1>15 DEF PhotonOK
  <2>4. o[k] \in Nat /\ o[k] \in 1 .. Len(q.hits)
    BY <2>1, <2>2, <2>3
  <2> QED
    BY <2>2, <2>4
<1>20. PICK y \in Nat : y = Len(x) /\ \A i \in 1 .. y : x[i] \in 1 .. n
  <2>1. x \in Seq(1 .. n)
    BY <1>9
  <2>2. Len(x) \in Nat /\ \A i \in 1 .. Len(x) : x[i] \in 1 .. n
    BY <2>1, SMTT(30)
  <2> QED
    BY <2>2
<1>21. PICK i \in 1 .. y : q.hits[f] = hits[x[i]]
  <2>1. q.hits = [u \in 1 .. y |-> q.hits[u]] /\ \A u \in 1 .. y : \E t \in 1 .. y : q.hits[u] = hits[x[t]]
    BY <1>9, <1>20 DEF IsPhoton
  <2>2. DOMAIN q.hits = 1 .. y /\ DOMAIN q.hits = 1 .. Len(q.hits)
    BY <1>15, <2>1 DEF PhotonOK
  <2>3. f \in 1 .. y
    BY <1>19, <2>2
  <2> QED
    BY <2>1, <2>3
<1>22. x[i] = w[j]
  BY <1>3, <1>10, <1>14, <1>18, <1>19, <1>20, <1>21, SMTT(30)
<1>23. a = c
  <2>1. CASE a < c
    <3>1. w[j] # x[i]
      BY <1>4, <1>7, <1>8, <1>10, <1>20, <2>1 DEF Apart
    <3> QED
      BY <1>22, <3>1
  <2>2. CASE c < a
    <3>1. x[i] # w[j]
      BY <1>4, <1>7, <1>8, <1>10, <1>20, <2>2 DEF Apart
    <3> QED
      BY <1>22, <3>1
  <2> QED
    BY <2>1, <2>2
<1>24. p = q /\ g = p.hits[f]
  BY <1>5, <1>6, <1>14, <1>21, <1>22, <1>23
<1>25. DOMAIN p.hits = 1 .. Len(p.hits) /\ Len(p.hits) \in Nat
  BY <1>15, <1>24 DEF PhotonOK
<1>26. f \in 1 .. l /\ f <= e
  <2>1. f \in 1 .. l
    BY <1>11, <1>19, <1>24, <1>25
  <2>2. ~(e < f)
    <3>1. e < f => e \in 1 .. f - 1
      BY <1>19
    <3> QED
      BY <1>13, <1>19, <1>24, <3>1
  <2> QED
    BY <2>1, <2>2
<1>27. p.hits[e].energy <= p.hits[f].energy
  BY <1>11, <1>26
<1> QED
  BY <1>13, <1>24, <1>27

-----------------------------------------------------------------------------
(* What writing a block's events does to the invariant.                    *)

\* A block whose events are written, as block c of the step, with b from the
\* pipeline.
Writes(b, raws, c) ==
  /\ ToCome(raws, c) /\ raws \in Seq(RawHits) /\ IsBlock(raws) /\ b \in Handled(raws) /\ IsHandled(b, raws)
  /\ UNCHANGED <<arguments, config, step, phase>>
  /\ lastBuffer' = b /\ AddEvents(Events(b))

\* The entries that the block adds.
LEMMA NewEntries ==
  ASSUME IInv, NEW b, NEW raws, NEW c \in Nat, Writes(b, raws, c), phase = "step"
  PROVE  /\ New(Events(b)) \in Seq(Records(ToSet(raws)))
         /\ data' = data \o New(Events(b)) /\ eventCounter' = eventCounter + Len(Events(b))
         /\ Len(Events(b)) \in Nat
         /\ ~Groups => Share(eventCounter + Len(Events(b))) = Share(eventCounter) + Len(New(Events(b)))
         /\ Groups /\ program \in {"event", "trigger"} /\ fileType = "root" =>
              New(Events(b)) \in Seq(Best(b.photons))
<1>1. /\ options \in Options /\ program \in Programs /\ run \in Runs
      /\ program # "raw" => Ready
  BY DEF IInv, ArgumentsOK, Configured
<1>2. Written(Events(b), ToSet(raws))
  BY <1>1, EventsAre DEF Writes
<1>3. PICK l \in Nat : /\ l = Len(Events(b)) /\ DOMAIN Events(b) = 1 .. l
                       /\ \A i \in 1 .. l : /\ Entries(Events(b)[i]) \in Seq(Records(ToSet(raws)))
                                            /\ ~Groups => Len(Entries(Events(b)[i])) = 1
  BY <1>2 DEF Written
<1>4. New(Events(b)) \in Seq(Records(ToSet(raws)))
  BY <1>3, NewIs
<1>5. data' = data \o New(Events(b)) /\ eventCounter' = eventCounter + Len(Events(b))
  BY DEF Writes, AddEvents, New, Counter
<1>6. ASSUME ~Groups
      PROVE  Share(eventCounter + l) = Share(eventCounter) + Len(New(Events(b)))
  <2>1. eventCounter \in Nat
    BY DEF IInv, FilesTyped
  <2> QED
    BY <1>1, <1>3, <1>6, <2>1, NewLength
<1>7. ASSUME Groups, program \in {"event", "trigger"}, fileType = "root"
      PROVE  New(Events(b)) \in Seq(Best(b.photons))
  BY <1>1, <1>7, BestAre DEF Writes
<1> QED
  BY <1>3, <1>4, <1>5, <1>6, <1>7

\* The entries of the file afterwards.
LEMMA EntriesAfter ==
  ASSUME NEW X, NEW Y, NEW d \in Seq(X), NEW a \in Seq(Y), NEW k \in 1 .. Len(d \o a)
  PROVE  /\ Len(d \o a) = Len(d) + Len(a) /\ Len(d) \in Nat /\ Len(a) \in Nat
         /\ \/ k \in 1 .. Len(d) /\ (d \o a)[k] = d[k]
            \/ k > Len(d) /\ (d \o a)[k] \in Y
<1>1. d \in Seq(X \cup Y) /\ a \in Seq(X \cup Y)
  OBVIOUS
<1>2. PICK m \in Nat : m = Len(d)
  OBVIOUS
<1>3. PICK n \in Nat : n = Len(a) /\ \A i \in 1 .. n : a[i] \in Y
  OBVIOUS
<1>4. Len(d \o a) = m + n
  BY <1>2, <1>3
<1>5. CASE k \in 1 .. m
  <2>1. (d \o a)[k] = d[k]
    BY <1>2, <1>3, <1>5
  <2> QED
    BY <1>2, <1>3, <1>4, <1>5, <2>1
<1>6. CASE k \notin 1 .. m
  <2>1. k > m /\ k - m \in 1 .. n
    BY <1>4, <1>6
  <2>2. (d \o a)[k] = a[k - m]
    BY <1>2, <1>4, <2>1
  <2> QED
    BY <1>2, <1>3, <1>4, <2>1, <2>2
<1> QED
  BY <1>5, <1>6

\* Types and counters, ...
LEMMA WritesFiles ==
  ASSUME IInv, NEW b, NEW raws, NEW c \in Nat, Writes(b, raws, c), phase = "step"
  PROVE  FilesTyped'
<1>1. /\ eventCounter \in Nat /\ data \in Seq(Recorded)
      /\ index \in Seq(StepRange) /\ stepBegin \in 0 .. Len(data) /\ Len(data) \in Nat
  BY DEF IInv, FilesTyped
<1>2. PICK a : a = New(Events(b))
  OBVIOUS
<1>3. /\ a \in Seq(Records(ToSet(raws))) /\ data' = data \o a
      /\ eventCounter' = eventCounter + Len(Events(b)) /\ Len(Events(b)) \in Nat
  BY <1>2, NewEntries
<1>4. index' = index /\ stepBegin' = stepBegin
  BY DEF Writes, AddEvents
<1>5. Records(ToSet(raws)) \subseteq Recorded
  <2>1. Column \in Nat
    <3>1. step \in Nat
      BY RunIs DEF IInv, ArgumentsOK
    <3> QED
      BY <3>1 DEF Column
  <2>2. ToSet(raws) \subseteq RawHits
    <3>1. raws \in Seq(RawHits)
      BY DEF Writes
    <3> QED
      BY <3>1 DEF ToSet
  <2>3. Seq(ToSet(raws)) \subseteq Seq(RawHits)
    BY <2>2
  <2> QED
    BY <2>1, <2>3, Zenon DEF Records, Recorded
<1> HIDE DEF Recorded
<1>6. a \in Seq(Recorded)
  BY <1>3, <1>5
<1>7. data' \in Seq(Recorded) /\ Len(data') = Len(data) + Len(a) /\ Len(a) \in Nat
  BY <1>1, <1>3, <1>6
<1> QED
  BY <1>1, <1>3, <1>4, <1>7 DEF FilesTyped

\* ... the range that the step's end will close, ...
LEMMA WritesIndex ==
  ASSUME IInv, NEW b, NEW raws, NEW c \in Nat, Writes(b, raws, c), phase = "step"
  PROVE  IndexOK'
<1> DEFINE R == ToSet(raws)
<1>1. data \in Seq(Recorded) /\ stepBegin \in 0 .. Len(data) /\ Len(data) \in Nat
  BY DEF IInv, FilesTyped
<1>2. PICK a : a = New(Events(b))
  OBVIOUS
<1>3. a \in Seq(Records(R)) /\ data' = data \o a
  BY <1>2, NewEntries
<1>4. /\ index' = index /\ stepBegin' = stepBegin /\ step' = step /\ phase' = phase
      /\ fileType' = fileType /\ run' = run
  BY DEF Writes, AddEvents, arguments
<1>5. \A raw : StepsWith(raw)' = StepsWith(raw)
  BY <1>4, SameBlocks
<1>6. \A raw \in R : step \in StepsWith(raw)
  <2>1. step \in DOMAIN run.steps /\ c \in DOMAIN run.steps[step] /\ raws = run.steps[step][c]
    BY DEF Writes, ToCome
  <2> QED
    BY <2>1 DEF StepsWith
<1>7. ASSUME NEW e \in Records(R)
      PROVE  /\ fileType = "root" => e.step = step
             /\ \A raw \in ToSet(e.hits) : step \in StepsWith(raw)
  <2>1. e.step = Column /\ e.hits \in Seq(R)
    BY <1>7 DEF Records
  <2>2. fileType = "root" => Column = step
    BY DEF Column
  <2>3. \A raw \in ToSet(e.hits) : raw \in R
    <3> HIDE DEF R
    <3> QED
      BY <2>1 DEF ToSet
  <2> QED
    BY <1>6, <2>1, <2>2, <2>3
<1> HIDE DEF R
<1>8. PICK d : d = data \o a
  OBVIOUS
<1>9. \A k \in 1 .. Len(d) : \/ k \in 1 .. Len(data) /\ d[k] = data[k]
                             \/ k > Len(data) /\ d[k] \in Records(R)
  BY <1>1, <1>3, <1>8, EntriesAfter
<1>10. Len(d) \in Nat /\ Len(d) >= Len(data) /\ \A k \in 1 .. Len(data) : d[k] = data[k]
  BY <1>1, <1>3, <1>8
<1>11. IndexIsRight'
  <2> SUFFICES ASSUME NEW s \in DOMAIN index
               PROVE  /\ index[s].begin = IF s = 1 THEN 0 ELSE index[s - 1].end
                      /\ \A k \in index[s].begin + 1 .. index[s].end :
                           /\ fileType = "root" => d[k].step = s
                           /\ \A raw \in ToSet(d[k].hits) : s \in StepsWith(raw)
    BY <1>3, <1>4, <1>5, <1>8 DEF IndexIsRight
  <2>1. /\ index[s].begin = IF s = 1 THEN 0 ELSE index[s - 1].end
        /\ \A k \in index[s].begin + 1 .. index[s].end :
             /\ fileType = "root" => data[k].step = s
             /\ \A raw \in ToSet(data[k].hits) : s \in StepsWith(raw)
    BY DEF IInv, IndexOK, IndexIsRight
  <2>2. index[s].begin \in Nat /\ index[s].end \in Nat /\ index[s].end <= stepBegin
    <3>1. index[s] \in StepRange
      BY DEF IInv, FilesTyped
    <3> QED
      BY <3>1 DEF IInv, IndexOK, StepRange
  <2>3. \A k \in index[s].begin + 1 .. index[s].end : k \in 1 .. Len(data)
    BY <1>1, <2>2
  <2> QED
    BY <1>10, <2>1, <2>3
<1>12. fileType # "text" =>
         /\ Len(index) = step - 1
         /\ stepBegin = IF index = <<>> THEN 0 ELSE index[Len(index)].end
         /\ \A k \in stepBegin + 1 .. Len(data) :
              /\ fileType = "root" => data[k].step = step
              /\ \A raw \in ToSet(data[k].hits) : step \in StepsWith(raw)
  BY DEF IInv, IndexOK
<1>13. ASSUME fileType # "text", NEW k \in stepBegin + 1 .. Len(d)
       PROVE  /\ fileType = "root" => d[k].step = step
              /\ \A raw \in ToSet(d[k].hits) : step \in StepsWith(raw)
  <2>1. k \in 1 .. Len(d)
    BY <1>1, <1>10
  <2>2. CASE k \in 1 .. Len(data) /\ d[k] = data[k]
    <3>1. k \in stepBegin + 1 .. Len(data)
      BY <1>1, <2>2
    <3> QED
      BY <1>12, <1>13, <2>2, <3>1
  <2>3. CASE d[k] \in Records(R)
    BY <1>7, <2>3
  <2> QED
    BY <1>9, <2>1, <2>2, <2>3
<1>14. /\ \A i \in DOMAIN index' : index'[i].begin <= index'[i].end /\ index'[i].end <= stepBegin'
       /\ fileType' = "text" => index' = <<>>
  BY <1>4 DEF IInv, IndexOK
<1>15. fileType' # "text" =>
         /\ phase' \in {"start", "next"} => Len(index') = step' /\ stepBegin' = Len(data')
         /\ phase' = "step" => Len(index') = step' - 1
         /\ stepBegin' = IF index' = <<>> THEN 0 ELSE index'[Len(index')].end
         /\ \A k \in stepBegin' + 1 .. Len(data') :
              /\ fileType' = "root" => data'[k].step = step'
              /\ \A raw \in ToSet(data'[k].hits) : step' \in StepsWith(raw)'
  BY <1>3, <1>4, <1>5, <1>8, <1>12, <1>13
<1> QED
  BY <1>11, <1>14, <1>15 DEF IndexOK

\* ... the block of every entry, ...
LEMMA WritesEntries ==
  ASSUME IInv, HandleBlock, NEW b, NEW raws, NEW c \in Nat, Writes(b, raws, c), raws = Head(blocks),
         phase = "step"
  PROVE  EntriesOK'
<1> DEFINE R == ToSet(raws)
<1>1. data \in Seq(Recorded)
  BY DEF IInv, FilesTyped
<1>2. PICK a : a = New(Events(b))
  OBVIOUS
<1>3. a \in Seq(Records(R)) /\ data' = data \o a
  BY <1>2, NewEntries
<1>4. run' = run
  BY DEF Writes, arguments
<1>5. /\ step \in DOMAIN run.steps /\ c \in DOMAIN run.steps[step] /\ R = ToSet(run.steps[step][c])
  BY DEF Writes, ToCome
<1>6. Past(step, c)' /\ \A s, t \in Nat : Past(s, t) => Past(s, t)'
  BY BlockIsRead DEF Writes, IInv
<1>7. /\ DOMAIN run.steps \subseteq Nat
      /\ \A s \in DOMAIN run.steps : DOMAIN run.steps[s] \subseteq Nat
  BY RunIs DEF IInv, ArgumentsOK
<1> HIDE DEF R
<1>8. PICK d : d = data \o a
  OBVIOUS
<1>9. \A k \in 1 .. Len(d) : \/ k \in 1 .. Len(data) /\ d[k] = data[k]
                             \/ k > Len(data) /\ d[k] \in Records(R)
  BY <1>1, <1>3, <1>8, EntriesAfter
<1>10. ASSUME NEW k \in 1 .. Len(d)
       PROVE  \E s \in DOMAIN run.steps : \E t \in DOMAIN run.steps[s] :
                Past(s, t)' /\ ToSet(d[k].hits) \subseteq ToSet(run.steps[s][t])
  <2>1. CASE k \in 1 .. Len(data) /\ d[k] = data[k]
    <3>1. PICK s \in DOMAIN run.steps : \E t \in DOMAIN run.steps[s] :
            Past(s, t) /\ ToSet(data[k].hits) \subseteq ToSet(run.steps[s][t])
      BY <2>1 DEF IInv, EntriesOK
    <3>2. PICK t \in DOMAIN run.steps[s] :
            Past(s, t) /\ ToSet(data[k].hits) \subseteq ToSet(run.steps[s][t])
      BY <3>1
    <3>3. Past(s, t)'
      BY <1>6, <1>7, <3>2
    <3> QED
      BY <2>1, <3>2, <3>3
  <2>2. CASE d[k] \in Records(R)
    <3>1. d[k].hits \in Seq(R)
      BY <2>2 DEF Records
    <3>2. ToSet(d[k].hits) \subseteq R
      BY <3>1 DEF ToSet
    <3>3. PICK s \in DOMAIN run.steps : s = step /\ step' = s
      BY <1>5 DEF Writes
    <3>4. Past(s, c)' /\ c \in DOMAIN run.steps[s] /\ ToSet(d[k].hits) \subseteq ToSet(run.steps[s][c])
      BY <1>5, <1>6, <3>2, <3>3
    <3> QED
      BY <3>4
  <2> QED
    BY <1>9, <2>1, <2>2
<1> QED
  BY <1>3, <1>4, <1>8, <1>10 DEF EntriesOK

\* ... the share of events ...
LEMMA WritesShare ==
  ASSUME IInv, NEW b, NEW raws, NEW c \in Nat, Writes(b, raws, c), phase = "step"
  PROVE  ShareIsKept'
<1>1. program' = program /\ options' = options
  BY DEF Writes, arguments
<1>2. ShareIsKept <=> (program \in {"raw", "singles"} => Len(data) = Share(eventCounter))
  BY Zenon DEF ShareIsKept, Share
<1>3. ShareIsKept' <=> (program \in {"raw", "singles"} => Len(data') = Share(eventCounter'))
  BY <1>1, Zenon DEF ShareIsKept, Share
<1> SUFFICES ASSUME program \in {"raw", "singles"} PROVE Len(data') = Share(eventCounter')
  BY <1>3
<1>4. PICK a : a = New(Events(b))
  OBVIOUS
<1>5. a \in Seq(Records(ToSet(raws))) /\ data' = data \o a
  BY <1>4, NewEntries
<1>6. Share(eventCounter') = Share(eventCounter) + Len(a)
  <2>1. ~Groups
    BY DEF Groups
  <2> QED
    BY <1>4, <2>1, NewEntries
<1>7. Len(data) = Share(eventCounter)
  BY <1>2 DEF IInv
<1>8. data \in Seq(Recorded)
  BY DEF IInv, FilesTyped
<1>9. Len(data') = Len(data) + Len(a)
  BY <1>5, <1>8
<1> QED
  BY <1>6, <1>7, <1>9

\* A hit is of one block only.
LEMMA OneBlock ==
  ASSUME run \in Runs, NEW s \in DOMAIN run.steps, NEW b \in DOMAIN run.steps[s],
         NEW t \in DOMAIN run.steps, NEW c \in DOMAIN run.steps[t],
         NEW raw \in ToSet(run.steps[s][b]), raw \in ToSet(run.steps[t][c])
  PROVE  s = t /\ b = c
<1>1. PICK i \in DOMAIN run.steps[s][b] : raw = run.steps[s][b][i]
  BY DEF ToSet
<1>2. PICK k \in DOMAIN run.steps[t][c] : raw = run.steps[t][c][k]
  BY DEF ToSet
<1>3. RunOK(run)
  BY ConversionAssumption
<1>4. run.steps[s][b][i].no = run.steps[t][c][k].no
  BY <1>1, <1>2
<1>5. i \in DOMAIN run.steps[s][b] /\ k \in DOMAIN run.steps[t][c]
  OBVIOUS
<1> QED
  BY <1>3, <1>4, <1>5, SMTT(30) DEF RunOK

\* ... and the best hits: older entries have none of this block's hits, new ones are
\* of its photons.
LEMMA WritesBest ==
  ASSUME IInv, HandleBlock, NEW b, NEW raws, NEW c \in Nat, Writes(b, raws, c), raws = Head(blocks),
         phase = "step"
  PROVE  BestHitIsKept'
<1>1. /\ program' = program /\ fileType' = fileType /\ lastBuffer' = b
  BY DEF Writes, arguments
<1> SUFFICES ASSUME program \in {"event", "trigger"}, fileType = "root",
                    NEW p \in ToSet(b.photons), NEW e \in ToSet(data'),
                    NEW g \in ToSet(p.hits), NEW h \in ToSet(p.hits),
                    g.raw \in ToSet(e.hits), h.raw.channelID = g.raw.channelID
             PROVE  h.energy <= g.energy
  BY <1>1, Zenon DEF BestHitIsKept
<1>2. Groups /\ program # "raw"
  BY DEF Groups
<1>3. options \in Options /\ run \in Runs /\ Ready
  BY <1>2 DEF IInv, ArgumentsOK, Configured
<1>4. PICK a : a = New(Events(b))
  OBVIOUS
<1>5. data' = data \o a /\ a \in Seq(Best(b.photons))
  BY <1>2, <1>4, NewEntries
<1>6. data \in Seq(Recorded)
  BY DEF IInv, FilesTyped
<1>7. PICK k \in 1 .. Len(data \o a) : e = (data \o a)[k]
  <2> DEFINE Y == Recorded \cup Best(b.photons)
  <2> HIDE DEF Y
  <2>1. data \in Seq(Y) /\ a \in Seq(Y)
    <3> HIDE DEF Recorded, Best
    <3> QED
      BY <1>5, <1>6 DEF Y
  <2>2. DOMAIN (data \o a) = 1 .. Len(data \o a)
    BY <2>1
  <2> QED
    BY <1>5, <2>2 DEF ToSet
<1>8. \/ k \in 1 .. Len(data) /\ e = data[k]
      \/ e \in Best(b.photons)
  BY <1>5, <1>6, <1>7, EntriesAfter
<1>9. IsBlock(raws) /\ IsHandled(b, raws)
  BY DEF Writes
<1>10. PICK n \in Nat : \E m \in Nat : \E v : HasHits(b, raws, n, m, v)
  BY <1>2, <1>3, <1>9, HandledHits
<1>11. PICK m \in Nat : \E v : HasHits(b, raws, n, m, v)
  BY <1>10
<1>12. PICK v : HasHits(b, raws, n, m, v)
  BY <1>11
<1>13. CASE k \in 1 .. Len(data) /\ e = data[k]
  <2>1. PICK s \in DOMAIN run.steps : \E t \in DOMAIN run.steps[s] :
          Past(s, t) /\ ToSet(e.hits) \subseteq ToSet(run.steps[s][t])
    BY <1>13 DEF IInv, EntriesOK
  <2>2. PICK t \in DOMAIN run.steps[s] :
          Past(s, t) /\ ToSet(e.hits) \subseteq ToSet(run.steps[s][t])
    BY <2>1
  <2>3. g.raw \in ToSet(run.steps[s][t])
    BY <2>2
  <2>4. g.raw \in ToSet(raws)
    <3>1. DOMAIN b.photons = 1 .. m
      BY <1>2, <1>12, PhotonsLength DEF HasHits
    <3>2. PICK j \in 1 .. m : p = b.photons[j]
      BY <3>1 DEF ToSet
    <3>3. PhotonOK(p, ToSet(raws))
      BY <1>2, <1>12, <3>2, PhotonHits
    <3>4. PICK i \in DOMAIN p.hits : g = p.hits[i]
      BY DEF ToSet
    <3> QED
      BY <3>3, <3>4 DEF PhotonOK
  <2>5. step \in DOMAIN run.steps /\ c \in DOMAIN run.steps[step] /\ raws = run.steps[step][c]
    BY DEF Writes, ToCome
  <2>6. s = step /\ t = c
    BY <1>3, <2>3, <2>4, <2>5, OneBlock
  <2>7. ~Past(step, c)
    BY BlockIsRead DEF Writes, IInv
  <2> QED
    BY <2>2, <2>6, <2>7
<1>14. CASE e \in Best(b.photons)
  <2>1. PICK q \in ToSet(b.photons) : e = Entry(FirstOfChannel(q))
    BY <1>14 DEF Best
  <2>2. PICK f : f = FirstOfChannel(q)
    OBVIOUS
  <2>3. e.hits = f
    BY <2>1, <2>2 DEF Entry
  <2>4. g.raw \in ToSet(FirstOfChannel(q))
    BY <2>2, <2>3
  <2> QED
    BY <1>2, <1>3, <1>12, <2>4, BestOfPhoton
<1> QED
  BY <1>8, <1>13, <1>14

-----------------------------------------------------------------------------
(* A block keeps the invariant.                                            *)

\* A block that is written keeps all parts, ...
LEMMA WriteKeeps ==
  ASSUME IInv, HandleBlock, NEW b, NEW raws, NEW c \in Nat, Writes(b, raws, c), raws = Head(blocks),
         phase = "step"
  PROVE  IInv'
<1>1. /\ UNCHANGED <<arguments, config, step, phase>> /\ lastBuffer' = b
      /\ program' = program /\ options' = options /\ files' = files /\ run' = run
  BY DEF Writes, arguments
<1>2. ArgumentsOK'
  BY <1>1 DEF IInv, ArgumentsOK
<1>3. program # "raw" => Ready
  BY DEF IInv, Configured
<1>4. Configured'
  BY <1>1, <1>3, SameReady DEF Configured
<1>5. LastOK'
  <2>1. IsBlock(raws) /\ b \in Handled(raws)
    BY DEF Writes
  <2>2. IsBlock(raws)' /\ lastBuffer' \in Handled(raws)'
    BY <1>1, <2>1, SameBlocks, SameHandled
  <2>3. program' # "raw" => Ready'
    BY <1>1, <1>3, SameReady
  <2>4. phase' \notin {"start", "next"}
    BY <1>1
  <2> QED
    BY <2>2, <2>3, <2>4 DEF LastOK
<1>6. BlocksOK'
  BY BlockIsRead DEF IInv, Writes
<1>7. FilesTyped'
  BY WritesFiles
<1>8. IndexOK'
  BY WritesIndex
<1>9. EntriesOK'
  BY WritesEntries
<1>10. ShareIsKept'
  BY WritesShare
<1>11. BestHitIsKept'
  BY WritesBest
<1> QED
  BY <1>2, <1>4, <1>5, <1>6, <1>7, <1>8, <1>9, <1>10, <1>11 DEF IInv

\* ... and so does one on which the program crashes.
LEMMA CrashKeeps ==
  ASSUME IInv, HandleBlock, phase' = "crashed", UNCHANGED <<lastBuffer, writer>>
  PROVE  IInv'
<1>1. /\ UNCHANGED <<arguments, config, step, writer>> /\ step' = step /\ lastBuffer' = lastBuffer
      /\ program' = program /\ options' = options /\ files' = files /\ run' = run
  BY DEF HandleBlock, arguments, writer
<1>2. ArgumentsOK /\ step \in Nat
  BY RunIs DEF IInv, ArgumentsOK
<1>3. ArgumentsOK'
  BY <1>1, <1>2 DEF ArgumentsOK
<1>4. Configured' /\ BlocksOK'
  BY DEF Configured, BlocksOK
<1>5. LastOK'
  BY <1>1, SameLast DEF IInv
<1>6. FilesTyped' /\ ShareIsKept'
  BY <1>1, SameWriter DEF IInv
<1>7. IndexOK'
  <2>1. fileType # "text" =>
          /\ phase' \in {"start", "next"} => Len(index) = step' /\ stepBegin = Len(data)
          /\ phase' = "step" => Len(index) = step' - 1
          /\ \A k \in stepBegin + 1 .. Len(data) :
               /\ fileType = "root" => data[k].step = step'
               /\ \A raw \in ToSet(data[k].hits) : step' \in StepsWith(raw)
    BY <1>1 DEF IInv, IndexOK
  <2> QED
    BY <1>1, <2>1, SameIndex DEF IInv
<1>8. EntriesOK'
  BY <1>1, <1>2, SameProgress DEF IInv, writer
<1>9. BestHitIsKept'
  BY <1>1, SameBest DEF IInv, writer
<1> QED
  BY <1>3, <1>4, <1>5, <1>6, <1>7, <1>8, <1>9 DEF IInv

\* The two are all that may happen to a block.
LEMMA HandleBlockKeeps ==
  ASSUME IInv, HandleBlock
  PROVE  IInv'
<1>1. phase = "step" /\ blocks # <<>> /\ UNCHANGED <<arguments, config, step>>
  BY DEF HandleBlock
<1>2. PICK raws : raws = Head(blocks)
  OBVIOUS
<1>3. PICK c \in Nat : ToCome(raws, c)
  BY <1>1, <1>2, BlockComes DEF IInv
<1>4. raws \in Seq(RawHits) /\ IsBlock(raws)
  <2>1. IsBlock(raws)
    BY <1>3 DEF ToCome, IsBlock
  <2> QED
    BY <2>1, BlockIs DEF IInv, ArgumentsOK
<1>5. PICK b \in Handled(raws) :
        \/ lastBuffer' = b /\ AddEvents(Events(b)) /\ UNCHANGED phase
        \/ phase' = "crashed" /\ UNCHANGED <<lastBuffer, writer>>
  BY <1>2 DEF HandleBlock
<1>6. IsHandled(b, raws)
  BY <1>4, HandledIs DEF IInv, ArgumentsOK
<1>7. CASE lastBuffer' = b /\ AddEvents(Events(b)) /\ UNCHANGED phase
  <2>1. Writes(b, raws, c)
    BY <1>1, <1>3, <1>4, <1>6, <1>7 DEF Writes
  <2> QED
    BY <1>1, <1>2, <2>1, WriteKeeps
<1>8. CASE phase' = "crashed" /\ UNCHANGED <<lastBuffer, writer>>
  BY <1>8, CrashKeeps
<1> QED
  BY <1>5, <1>7, <1>8

\* Nothing happens.
LEMMA StutterKeeps ==
  ASSUME IInv, UNCHANGED vars
  PROVE  IInv'
<1>1. /\ UNCHANGED <<arguments, config, writer>>
      /\ phase' = phase /\ step' = step /\ blocks' = blocks /\ lastBuffer' = lastBuffer
      /\ program' = program /\ options' = options /\ files' = files /\ run' = run
  BY DEF vars, arguments, writer
<1>2. ArgumentsOK' /\ BlocksOK'
  BY <1>1 DEF IInv, ArgumentsOK, BlocksOK
<1>3. Configured'
  <2>1. Configured
    BY DEF IInv
  <2> QED
    BY <1>1, <2>1, SameReady DEF Configured
<1>4. LastOK'
  <2>1. lastBuffer # None => phase' \notin {"start", "next"}
    BY <1>1 DEF IInv, LastOK
  <2> QED
    BY <1>1, <2>1, SameLast DEF IInv
<1>5. FilesTyped' /\ ShareIsKept'
  BY <1>1, SameWriter DEF IInv
<1>6. IndexOK'
  <2>1. fileType # "text" =>
          /\ phase' \in {"start", "next"} => Len(index) = step' /\ stepBegin = Len(data)
          /\ phase' = "step" => Len(index) = step' - 1
          /\ \A k \in stepBegin + 1 .. Len(data) :
               /\ fileType = "root" => data[k].step = step'
               /\ \A raw \in ToSet(data[k].hits) : step' \in StepsWith(raw)
    BY <1>1 DEF IInv, IndexOK
  <2> QED
    BY <1>1, <2>1, SameIndex DEF IInv
<1>7. EntriesOK'
  <2>1. \A s, b : Past(s, b) => Past(s, b)'
    BY <1>1 DEF Past
  <2> QED
    BY <1>1, <2>1, SameEntries DEF IInv, writer
<1>8. BestHitIsKept'
  BY <1>1, SameBest DEF IInv, writer
<1> QED
  BY <1>2, <1>3, <1>4, <1>5, <1>6, <1>7, <1>8 DEF IInv

-----------------------------------------------------------------------------
(* The theorems.                                                           *)

\* Every step keeps the invariant.
LEMMA NextInv ==
  IInv /\ [Next]_vars => IInv'
<1> SUFFICES ASSUME IInv, [Next]_vars PROVE IInv'
  OBVIOUS
<1>1. ASSUME NEW n \in Noise, Load(n[1], n[2]) PROVE IInv'
  BY <1>1, LoadKeeps
<1>2. CASE NoPedestals
  BY <1>2, NoPedestalsKeeps
<1>3. CASE NextStep
  BY <1>3, NextStepKeeps
<1>4. CASE HandleBlock
  BY <1>4, HandleBlockKeeps
<1>5. CASE EndStep
  BY <1>5, EndStepKeeps
<1>6. CASE Finish
  BY <1>6, FinishKeeps
<1>7. CASE UNCHANGED vars
  BY <1>7, StutterKeeps
<1> QED
  BY <1>1, <1>2, <1>3, <1>4, <1>5, <1>6, <1>7 DEF Next

\* The inductive invariant holds.
THEOREM Inductive ==
  Spec => []IInv
<1>1. Init => IInv
  BY InitInv
<1>2. IInv /\ [Next]_vars => IInv'
  BY NextInv
<1> QED
  BY <1>1, <1>2, PTL DEF Spec

\* Of every block, the hits go on that are valid and complete in the files that
\* SystemConfig::fromFile has read, with times from the files' last lines.
THEOREM HitsAreCalibrated ==
  Spec => []CalibrationIsUsed
<1>1. IInv => CalibrationIsUsed
  BY CalibrationFollows DEF IInv
<1> QED
  BY <1>1, Inductive, PTL

\* SimpleGrouper's groups are disjoint, each near its first hit, and none has a
\* hit that an earlier one should have, if calibrations and the sorter put hits
\* out of order by no more than the overlap that its search allows for.
THEOREM HitsAreGrouped ==
  ASSUME Slack <= Overlap
  PROVE  Spec => []GroupsAreRight
<1>1. IInv => GroupsAreRight
  BY GroupsFollow DEF IInv
<1> QED
  BY <1>1, Inductive, PTL

\* CoincidenceGrouper finds all pairs in the window, once each, if the overlap
\* leaves room for a group's window too.
THEOREM PhotonsArePaired ==
  ASSUME TimeWindow + Slack <= Overlap
  PROVE  Spec => []NoCoincidenceIsMissed
<1>1. IInv => NoCoincidenceIsMissed
  BY CoincidencesFollow DEF IInv
<1> QED
  BY <1>1, Inductive, PTL

\* DataFileWriter writes the share of events that was asked for, and its index
\* says which entries are which step's.
THEOREM EventsAreWritten ==
  Spec => []WriterInv
<1>1. IInv => WriterInv
  BY WriterFollows
<1> QED
  BY <1>1, Inductive, PTL

\* What _event and _trigger keep of a channel in a group is its best hit.
THEOREM BestHitsAreKept ==
  Spec => []BestHitIsKept
<1>1. IInv => BestHitIsKept
  BY DEF IInv
<1> QED
  BY <1>1, Inductive, PTL
=============================================================================
