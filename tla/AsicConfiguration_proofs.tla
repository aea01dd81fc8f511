----------------------- MODULE AsicConfiguration_proofs -----------------------
(***************************************************************************)
(* What a Connection believes of the ASICs is what their last answers have *)
(* shown, and what setAsicsConfig has set is there, for any numbers of     *)
(* ASICs, channels, values and tries, and whichever commands go wrong.     *)
(***************************************************************************)
EXTENDS AsicConfiguration, WellFoundedInduction, TLAPS

-----------------------------------------------------------------------------
(* The order of the registers.                                             *)

\* A set of numbers has a least one.
LEMMA LeastIs ==
  ASSUME NEW S, S \subseteq Nat, S # {}
  PROVE  \E x \in S : \A y \in S : x <= y
<1>1. PICK x \in S : \A y \in S : ~(<<y, x>> \in OpToRel(<, Nat))
  BY NatLessThanWellFounded, WFMin, Zenon
<1>2. \A u, v \in Nat : u < v => <<u, v>> \in OpToRel(<, Nat)
  BY Zenon DEF OpToRel
<1>3. \A y \in S : ~(y < x)
  BY <1>1, <1>2, Zenon
<1> QED
  BY <1>3

\* What a call goes to next comes before all else that it has to do.
LEMMA FirstIs ==
  ASSUME NEW S \in SUBSET (Nat \X (Nat \cup {Global})), S # {}
  PROVE  First(S) \in S /\ \A s \in S \ {First(S)} : Before(First(S), s)
<1> DEFINE A == { r[1] : r \in S }
<1>1. A \subseteq Nat /\ A # {}
  OBVIOUS
<1>2. PICK a \in A : \A b \in A : a <= b
  BY <1>1, LeastIs
<1> DEFINE C == { r[2] + 1 : r \in { s \in S : s[1] = a } }
<1>3. C \subseteq Nat /\ C # {}
  BY DEF Global
<1>4. PICK c \in C : \A d \in C : c <= d
  BY <1>3, LeastIs
<1>5. PICK r \in S : r[1] = a /\ r[2] + 1 = c
  BY <1>4
<1>6. ASSUME NEW s \in S \ {r} PROVE Before(r, s)
  <2>1. s[1] \in Nat /\ a \in Nat /\ a <= s[1]
    BY <1>1, <1>2
  <2>2. s[1] = a => r[2] < s[2]
    <3> HAVE s[1] = a
    <3>1. s[2] + 1 \in C /\ s[2] \in Int /\ r[2] \in Int
      BY DEF Global
    <3>2. r[2] <= s[2]
      BY <1>4, <1>5, <3>1
    <3>3. r[2] # s[2]
      BY <1>5
    <3> QED
      BY <3>1, <3>2, <3>3
  <2> QED
    BY <1>5, <2>1, <2>2 DEF Before
<1>7. \E x \in S : \A s \in S \ {x} : Before(x, s)
  BY <1>6
<1> QED
  BY <1>7 DEF First

\* LastChannel is what its name says.
LEMMA LastIs == LastChannel \in Channels /\ \A c \in Channels : c <= LastChannel
<1>1. \E x \in Channels : \A y \in Channels : x >= y
  BY AsicAssumption
<1> QED
  BY <1>1 DEF LastChannel, Max

-----------------------------------------------------------------------------
(* The invariant.                                                          *)

Words == Values \cup {Garbage}

Ops == {"get", "set", "bias", "init", "adjust"}

ToSet == {None} \cup [Registers -> Values] \cup [BiasChannels -> Values]

ToDo == (SUBSET Registers) \cup (SUBSET BiasChannels)

Calls ==
  [ op : Ops, force : BOOLEAN, config : ToSet, todo : ToDo,
    phase : {"write", "check", "bias", "reset"}, tries : Nat, checks : Nat,
    updated : BOOLEAN, inits : Nat, ok : SUBSET Asics, sets : BOOLEAN ]

HardwareOK ==
  /\ chip \in [Registers -> Words] /\ bias \in [BiasChannels -> Words]
  /\ known \in [Registers -> Words \cup {None}]

\* The cache has whole ASICs.
CacheOK ==
  /\ active \subseteq Asics
  /\ cache # None => \E A \in SUBSET active : cache \in [OfAsics(A) -> Words]
  /\ DOMAIN biasCache \subseteq BiasChannels

\* What a call has to do depends on what it is for.  initializeSystem has made the
\* cache void when the resets are over, before it writes to an ASIC.
CallOK ==
  /\ call \in Calls \cup {Idle}
  /\ call # Idle => call.tries < MaxTries /\ call.checks < MaxTries /\ returned = None
  /\ call.op \in {"get", "set"} => cache # None /\ call.todo \subseteq OfAsics(active)
  /\ call.op = "set" \/ (call.op = "get" /\ call.sets) => call.config \in [Registers -> Values]
  /\ BiasOp => call.todo \subseteq BiasChannels /\ call.config \in [BiasChannels -> Values]
  /\ call.op \in {"init", "adjust"} /\ ~BiasOp =>
       call.todo \subseteq Registers /\ (~Resetting => cache = None)
  /\ call.op = "adjust" => call.config \in [Registers -> Values]

\* The registers of the active ASICs that the call has been to.
Visited == OfAsics(active) \ call.todo

\* getAsicsConfig: what has been read is still there, and an ASIC's entry is made
\* when there is nothing left to read of it.
GetOK ==
  call.op = "get" =>
    /\ \A r \in Visited : known[r] = chip[r]
    /\ \A r \in DOMAIN cache : OfAsic(r) \cap call.todo = {}

\* setAsicsConfig: what has been set is in the cache and, if forced, in the ASIC, as
\* it has said.
SetOK ==
  call.op = "set" =>
    \A r \in Visited :
      /\ r \in DOMAIN cache /\ cache[r] = call.config[r]
      /\ call.force => chip[r] = call.config[r] /\ known[r] = call.config[r]

\* The summary of the refresh settings is right, but for what setAsicsConfig is
\* going to put right.
Settings(r) == <<TacRefresh(cache[<<r[1], Global>>]), TacRefresh(cache[r])>>

CachedChannels == { r \in DOMAIN cache : r[2] # Global }

SummaryOK ==
  cache # None /\ settled /\ ~(call.op = "set" /\ call.updated) =>
    /\ refresh \subseteq { Settings(r) : r \in CachedChannels }
    /\ \A r \in CachedChannels : r[2] = LastChannel => Settings(r) \in refresh

AsicInv ==
  /\ HardwareOK /\ CacheOK /\ CallOK
  /\ CacheIsVerified /\ GetOK /\ SetOK /\ SummaryOK
  /\ SetIsVerified

\* So it has not been to R.
LEMMA NextIs ==
  ASSUME CallOK, call.todo # {}, call # Idle
  PROVE  /\ R \in call.todo
         /\ \A s \in call.todo \ {R} : Before(R, s)
<1>1. call.todo \in SUBSET (Nat \X (Nat \cup {Global}))
  <2>1. call.todo \subseteq Registers \/ call.todo \subseteq BiasChannels
    <3>1. call \in Calls
      BY DEF CallOK
    <3>2. call.todo \in ToDo
      BY <3>1 DEF Calls
    <3> QED
      BY <3>2 DEF ToDo
  <2> DEFINE All == Nat \X (Nat \cup {Global})
  <2>2. Registers \subseteq All /\ BiasChannels \subseteq All
    BY AsicAssumption DEF Registers
  <2> HIDE DEF All
  <2>3. call.todo \subseteq All
    BY <2>1, <2>2
  <2> QED
    BY <2>3 DEF All
<1> QED
  BY <1>1, FirstIs DEF R

\* What there is to know of the call that is made.
LEMMA CallParts ==
  ASSUME CallOK, call.op # "idle"
  PROVE  /\ call \in Calls /\ call # Idle /\ returned = None
         /\ call.tries < MaxTries /\ call.checks < MaxTries
  BY DEF CallOK, Idle

\* A step by which the call goes on with what it is doing: it may have written to
\* the register it is at.
Goes ==
  /\ call' \in Calls /\ call'.tries < MaxTries /\ call'.checks < MaxTries
  /\ call'.op = call.op /\ call'.force = call.force /\ call'.config = call.config
  /\ call'.updated = call.updated /\ call'.sets = call.sets
  /\ (BiasOp' <=> BiasOp) /\ (Resetting' <=> Resetting)
  /\ UNCHANGED <<active, cache, refresh, known, settled, stale, returned>>
  /\ HardwareOK' /\ DOMAIN biasCache' \subseteq BiasChannels

\* A step by which it ends, with an exception or not.
Ends ==
  /\ call' = Idle
  /\ \E ok \in BOOLEAN :
       /\ returned' = [op |-> call.op, force |-> call.force, config |-> call.config, ok |-> ok]
       /\ call.op = "set" => ~ok
  /\ IF call.op = "set" THEN settled' = FALSE ELSE UNCHANGED settled
  /\ UNCHANGED <<active, cache, refresh, known, stale>>
  /\ HardwareOK' /\ DOMAIN biasCache' \subseteq BiasChannels

\* Whatever the call, the caches stay as they are then.
LEMMA EndsKeeps ==
  ASSUME AsicInv, call.op # "idle", Ends
  PROVE  AsicInv'
<1>1. HardwareOK' /\ CacheOK'
  BY DEF AsicInv, Ends, CacheOK
<1>2. call' = Idle /\ call'.op = "idle" /\ ~BiasOp' /\ ~Resetting'
  BY DEF Ends, Idle, BiasOp, Resetting
<1>3. CallOK'
  BY <1>2 DEF CallOK
<1>4. CacheIsVerified'
  BY DEF AsicInv, Ends, CacheIsVerified
<1>5. GetOK' /\ SetOK'
  BY <1>2 DEF GetOK, SetOK
<1>6. SummaryOK'
  <2> QED
    BY <1>2 DEF AsicInv, Ends, SummaryOK, CachedChannels, Settings
<1>7. SetIsVerified'
  BY DEF Ends, SetIsVerified
<1> QED
  BY <1>1, <1>3, <1>4, <1>5, <1>6, <1>7 DEF AsicInv

\* It keeps what is true if what it writes to is not what has been visited.
LEMMA GoesKeeps ==
  ASSUME AsicInv, call.op # "idle", Goes,
         call.op \in {"get", "set"} => call'.todo = call.todo,
         call.op \in {"init", "adjust"} => call'.todo \subseteq call.todo,
         call.op = "bias" => call'.todo \subseteq call.todo,
         call.op = "get" => chip' = chip,
         call.op = "set" => \A r \in Registers \ {R} : chip'[r] = chip[r],
         call.op = "set" => call.todo # {}
  PROVE  AsicInv'
<1>1. HardwareOK' /\ CacheOK'
  BY DEF AsicInv, Goes, CacheOK
<1>2. call.op = call'.op /\ call.force = call'.force /\ call.config = call'.config
      /\ call.updated = call'.updated /\ call.sets = call'.sets /\ call'.op # "idle"
  BY DEF Goes
<1>3. CallOK'
  <2>1. call' \in Calls /\ returned' = None
    BY CallParts DEF Goes, AsicInv
  <2>2. call.op \in Ops
    BY CallParts DEF AsicInv, Calls
  <2>3. call'.todo \subseteq call.todo
    BY <2>2 DEF Ops
  <2>4. /\ call'.op \in {"get", "set"} => cache' # None /\ call'.todo \subseteq OfAsics(active')
        /\ call'.op = "set" \/ (call'.op = "get" /\ call'.sets) => call'.config \in [Registers -> Values]
        /\ call'.op = "adjust" => call'.config \in [Registers -> Values]
    BY <1>2, <2>3 DEF AsicInv, CallOK, Goes
  <2>5. BiasOp' => call'.todo \subseteq BiasChannels /\ call'.config \in [BiasChannels -> Values]
    BY <1>2, <2>3 DEF AsicInv, CallOK, Goes
  <2>6. call'.op \in {"init", "adjust"} /\ ~BiasOp' =>
          call'.todo \subseteq Registers /\ (~Resetting' => cache' = None)
    BY <1>2, <2>3 DEF AsicInv, CallOK, Goes
  <2> QED
    BY <2>1, <2>4, <2>5, <2>6 DEF Goes, CallOK
<1>4. CacheIsVerified'
  BY DEF AsicInv, Goes, CacheIsVerified
<1>5. GetOK'
  BY <1>2 DEF AsicInv, Goes, GetOK, Visited
<1>6. SetOK'
  <2> SUFFICES ASSUME call.op = "set" PROVE SetOK'
    BY <1>2 DEF SetOK
  <2>1. R \in call.todo
    BY NextIs, CallParts DEF AsicInv
  <2>2. Visited' = Visited /\ Visited \subseteq Registers \ {R}
    BY <2>1 DEF Goes, Visited, AsicInv, CacheOK, OfAsics, Registers
  <2> QED
    BY <1>2, <2>2 DEF AsicInv, Goes, SetOK
<1>7. SummaryOK'
  BY <1>2 DEF AsicInv, Goes, SummaryOK, CachedChannels, Settings
<1>8. SetIsVerified'
  BY CallParts DEF AsicInv, Goes, SetIsVerified
<1> QED
  BY <1>1, <1>3, <1>4, <1>5, <1>6, <1>7, <1>8 DEF AsicInv

-----------------------------------------------------------------------------
(* Commands.                                                               *)

\* Whatever comes of a command that writes to an ASIC, but for the last of its
\* steps, by which it is known to have been carried out.
Tried ==
  /\ chip' = chip \/ \E left \in Words : chip' = [chip EXCEPT ![R] = left]
  /\ UNCHANGED <<bias, caches, known, stale>>
  /\ \/ /\ \/ call' = [call EXCEPT !.phase = "check"]
           \/ call.checks + 1 < MaxTries /\ call' = [call EXCEPT !.checks = @ + 1]
           \/ /\ call.tries + 1 < MaxTries
              /\ call' = [call EXCEPT !.tries = @ + 1, !.phase = "write", !.checks = 0]
        /\ UNCHANGED <<returned, settled>>
     \/ call.op = "set" /\ LeaveSet
     \/ call.op \in {"init", "adjust"} /\ LeaveInit
     \/ call.op = "init" /\ NotThere

\* It does not touch what the caches say, only what they say it of.
LEMMA TriedKeeps ==
  ASSUME AsicInv, call.op \in {"set", "init", "adjust"}, call.todo # {}, ~BiasOp,
         call.op = "init" => call.phase \in {"write", "check"}, Tried
  PROVE  AsicInv'
<1>1. /\ call \in Calls /\ call # Idle /\ returned = None
      /\ call.tries < MaxTries /\ call.checks < MaxTries
  BY CallParts DEF AsicInv
<1>2. R \in call.todo
  BY <1>1, NextIs DEF AsicInv
<1>3. HardwareOK' /\ DOMAIN biasCache' \subseteq BiasChannels
  BY DEF Tried, AsicInv, HardwareOK, CacheOK, caches
<1>4. UNCHANGED <<active, cache, refresh, known, stale>>
  BY DEF Tried, caches
<1>5. \A r \in Registers \ {R} : chip'[r] = chip[r]
  BY DEF Tried, AsicInv, HardwareOK
<1>6. MaxTries \in Nat \ {0} /\ ~Resetting
  BY AsicAssumption DEF Resetting
<1>7. CASE /\ \/ call' = [call EXCEPT !.phase = "check"]
              \/ call.checks + 1 < MaxTries /\ call' = [call EXCEPT !.checks = @ + 1]
              \/ /\ call.tries + 1 < MaxTries
                 /\ call' = [call EXCEPT !.tries = @ + 1, !.phase = "write", !.checks = 0]
           /\ UNCHANGED <<returned, settled>>
  <2>1. /\ call' \in Calls /\ call'.tries < MaxTries /\ call'.checks < MaxTries
        /\ call'.op = call.op /\ call'.force = call.force /\ call'.config = call.config
        /\ call'.updated = call.updated /\ call'.sets = call.sets
        /\ call'.todo = call.todo /\ ~BiasOp' /\ ~Resetting'
    <3>1. CASE call' = [call EXCEPT !.phase = "check"]
      BY <1>1, <1>6, <3>1 DEF Calls, BiasOp, Resetting
    <3>2. CASE call.checks + 1 < MaxTries /\ call' = [call EXCEPT !.checks = @ + 1]
      BY <1>1, <1>6, <3>2 DEF Calls, BiasOp, Resetting
    <3>3. CASE /\ call.tries + 1 < MaxTries
               /\ call' = [call EXCEPT !.tries = @ + 1, !.phase = "write", !.checks = 0]
      <4>1. call.tries + 1 \in Nat
        BY <1>1 DEF Calls
      <4>2. call' \in Calls
        BY <1>1, <3>3, <4>1 DEF Calls
      <4>3. /\ call'.op = call.op /\ call'.force = call.force /\ call'.config = call.config
            /\ call'.updated = call.updated /\ call'.sets = call.sets /\ call'.todo = call.todo
            /\ call'.phase = "write" /\ call'.tries = call.tries + 1 /\ call'.checks = 0
        BY <1>1, <3>3 DEF Calls
      <4> QED
        BY <1>6, <3>3, <4>2, <4>3 DEF BiasOp, Resetting
    <3> QED
      BY <1>7, <3>1, <3>2, <3>3
  <2>2. Goes
    BY <1>3, <1>4, <1>6, <1>7, <2>1 DEF Goes
  <2> QED
    BY <1>5, <2>1, <2>2, GoesKeeps
<1>8. CASE call.op = "set" /\ LeaveSet
  <2>1. Ends
    BY <1>3, <1>4, <1>8 DEF Ends, LeaveSet, Raises, Returns
  <2> QED
    BY <2>1, EndsKeeps
<1>9. CASE call.op \in {"init", "adjust"} /\ LeaveInit
  <2>1. Ends
    BY <1>3, <1>4, <1>9 DEF Ends, LeaveInit, Raises, Returns
  <2> QED
    BY <2>1, EndsKeeps
<1>10. CASE call.op = "init" /\ NotThere
  <2>1. call.todo \ OfAsic(R) \in ToDo /\ call.ok \ {R[1]} \in SUBSET Asics
    BY <1>1, <1>10 DEF AsicInv, CallOK, ToDo, Calls
  <2>2. /\ call' \in Calls /\ call'.tries < MaxTries /\ call'.checks < MaxTries
        /\ call'.op = call.op /\ call'.force = call.force /\ call'.config = call.config
        /\ call'.updated = call.updated /\ call'.sets = call.sets
        /\ call'.todo \subseteq call.todo /\ ~BiasOp' /\ ~Resetting'
    <3>1. call' = [ call EXCEPT !.ok = @ \ {R[1]}, !.phase = "write", !.tries = 0, !.checks = 0,
                                !.todo = @ \ OfAsic(R) ]
      BY <1>10 DEF NotThere
    <3>2. call' \in Calls
      BY <1>1, <2>1, <3>1 DEF Calls
    <3>3. /\ call'.op = call.op /\ call'.force = call.force /\ call'.config = call.config
          /\ call'.updated = call.updated /\ call'.sets = call.sets
          /\ call'.todo = call.todo \ OfAsic(R)
          /\ call'.phase = "write" /\ call'.tries = 0 /\ call'.checks = 0
      BY <1>1, <3>1 DEF Calls
    <3> QED
      BY <1>6, <1>10, <3>2, <3>3 DEF BiasOp, Resetting
  <2>3. Goes
    BY <1>3, <1>4, <1>6, <1>10, <2>2 DEF Goes, NotThere
  <2> QED
    BY <1>10, <2>2, <2>3, GoesKeeps
<1> QED
  BY <1>7, <1>8, <1>9, <1>10 DEF Tried

-----------------------------------------------------------------------------
(* The steps of the calls.                                                 *)

\* A register of an ASIC is written, read back or given up.
LEMMA CommandKeeps ==
  ASSUME AsicInv,
         \/ WriteRegister \/ WriteIsBad \/ WriteDefault \/ DefaultIsBad \/ Adjust \/ AdjustIsBad
  PROVE  AsicInv'
<1>1. chip \in [Registers -> Words]
  BY DEF AsicInv, HardwareOK
<1>2. CASE WriteRegister
  <2>1. call.op = "set" /\ call.todo # {} /\ Write(call.config[R], LeaveSet, LeaveSet)
    BY <1>2 DEF WriteRegister, ToWrite, At
  <2>2. Tried
    <3>1. PICK answer \in Answers, left \in Words :
            /\ chip' = [chip EXCEPT ![R] = left]
            /\ CASE answer = "good"  -> /\ call' = [call EXCEPT !.phase = "check"]
                                       /\ UNCHANGED <<returned, settled>>
                 [] answer = "error" -> Again(LeaveSet)
                 [] answer = "none"  -> LeaveSet
      BY <2>1 DEF Write, Words
    <3>2. UNCHANGED <<bias, caches, known, stale>>
      BY <2>1 DEF Write
    <3>3. \/ /\ call' = [call EXCEPT !.phase = "check"]
             /\ UNCHANGED <<returned, settled>>
          \/ Again(LeaveSet) \/ LeaveSet
      BY <3>1 DEF Answers
    <3> QED
      BY <2>1, <3>1, <3>2, <3>3 DEF Again, Tried
  <2> QED
    BY <2>1, <2>2, TriedKeeps DEF BiasOp
<1>3. CASE WriteDefault
  <2>1. /\ call.op = "init" /\ call.todo # {} /\ call.phase \in {"write", "check"}
        /\ Write(Default, NotThere, LeaveInit)
    BY <1>3 DEF WriteDefault, Initializing, At
  <2>2. Tried
    <3>1. PICK answer \in Answers, left \in Words :
            /\ chip' = [chip EXCEPT ![R] = left]
            /\ CASE answer = "good"  -> /\ call' = [call EXCEPT !.phase = "check"]
                                       /\ UNCHANGED <<returned, settled>>
                 [] answer = "error" -> Again(NotThere)
                 [] answer = "none"  -> LeaveInit
      BY <2>1 DEF Write, Words
    <3>2. UNCHANGED <<bias, caches, known, stale>>
      BY <2>1 DEF Write
    <3>3. \/ /\ call' = [call EXCEPT !.phase = "check"]
             /\ UNCHANGED <<returned, settled>>
          \/ Again(NotThere) \/ LeaveInit
      BY <3>1 DEF Answers
    <3> QED
      BY <2>1, <3>1, <3>2, <3>3 DEF Again, Tried
  <2> QED
    BY <2>1, <2>2, TriedKeeps DEF BiasOp
<1>4. CASE Adjust
  <2>1. call.op = "adjust" /\ call.todo # {} /\ Write(call.config[R], LeaveInit, LeaveInit)
    BY <1>4 DEF Adjust, At
  <2>2. Tried
    <3>1. PICK answer \in Answers, left \in Words :
            /\ chip' = [chip EXCEPT ![R] = left]
            /\ CASE answer = "good"  -> /\ call' = [call EXCEPT !.phase = "check"]
                                       /\ UNCHANGED <<returned, settled>>
                 [] answer = "error" -> Again(LeaveInit)
                 [] answer = "none"  -> LeaveInit
      BY <2>1 DEF Write, Words
    <3>2. UNCHANGED <<bias, caches, known, stale>>
      BY <2>1 DEF Write
    <3>3. \/ /\ call' = [call EXCEPT !.phase = "check"]
             /\ UNCHANGED <<returned, settled>>
          \/ Again(LeaveInit) \/ LeaveInit
      BY <3>1 DEF Answers
    <3> QED
      BY <2>1, <3>1, <3>2, <3>3 DEF Again, Tried
  <2> QED
    BY <2>1, <2>2, TriedKeeps DEF BiasOp
<1>5. CASE WriteIsBad
  <2>1. call.op = "set" /\ call.todo # {} /\ CheckFails(call.config[R], LeaveSet, LeaveSet)
    BY <1>5 DEF WriteIsBad, ToWrite, At
  <2>2. Tried
    BY <2>1 DEF CheckFails, Again, Tried, LeaveSet, hardware
  <2> QED
    BY <2>1, <2>2, TriedKeeps DEF BiasOp
<1>6. CASE DefaultIsBad
  <2>1. /\ call.op = "init" /\ call.todo # {} /\ call.phase \in {"write", "check"}
        /\ CheckFails(Default, NotThere, LeaveInit)
    BY <1>6 DEF DefaultIsBad, Initializing, At
  <2>2. Tried
    BY <2>1 DEF CheckFails, Again, Tried, LeaveInit, hardware
  <2> QED
    BY <2>1, <2>2, TriedKeeps DEF BiasOp
<1>7. CASE AdjustIsBad
  <2>1. call.op = "adjust" /\ call.todo # {} /\ CheckFails(call.config[R], LeaveInit, LeaveInit)
    BY <1>7 DEF AdjustIsBad, At
  <2>2. Tried
    BY <2>1 DEF CheckFails, Again, Tried, LeaveInit, hardware
  <2> QED
    BY <2>1, <2>2, TriedKeeps DEF BiasOp
<1> QED
  BY <1>2, <1>3, <1>4, <1>5, <1>6, <1>7

\* A call that ends with an exception, or of which nothing is promised.
LEMMA EndsWhere ==
  ASSUME AsicInv,
         \/ NoEntry \/ ReadTimeout \/ BiasTimeout \/ BiasEnds \/ InitFails \/ InitEnds
         \/ GetEnds /\ ~call.sets
         \/ ReadFails /\ ~(call.tries + 1 < MaxTries)
  PROVE  AsicInv'
<1>1. UNCHANGED chip /\ UNCHANGED <<active, cache, refresh, biasCache>> /\ UNCHANGED <<known, stale>>
  BY DEF NoEntry, ReadTimeout, BiasTimeout, BiasEnds, InitFails, InitEnds, GetEnds, ReadFails,
         hardware, caches, history
<1>2. bias' = bias \/ BiasTimeout
  BY DEF NoEntry, ReadTimeout, BiasEnds, InitFails, InitEnds, GetEnds, ReadFails, hardware
<1>3. BiasTimeout => bias' \in [BiasChannels -> Words]
  <2> HAVE BiasTimeout
  <2>1. call.todo # {} /\ BiasOp /\ call # Idle
    BY DEF BiasTimeout, BiasOp, Idle
  <2>2. R \in call.todo
    BY <2>1, NextIs DEF AsicInv
  <2>3. R \in BiasChannels /\ call.config[R] \in Values
    BY <2>1, <2>2 DEF AsicInv, CallOK
  <2> QED
    BY <2>3 DEF BiasTimeout, AsicInv, HardwareOK, Words
<1>4. HardwareOK' /\ DOMAIN biasCache' \subseteq BiasChannels
  BY <1>1, <1>2, <1>3 DEF AsicInv, HardwareOK, CacheOK
<1>5. call.op # "idle" /\ (call.op = "set" => LeaveSet) /\ (call.op # "set" => UNCHANGED settled)
      /\ (Raises \/ (call.op # "set" /\ Returns(TRUE)))
  BY DEF NoEntry, ReadTimeout, BiasTimeout, BiasEnds, InitFails, InitEnds, GetEnds, ReadFails,
         history, At, Done, BiasOp, LeaveSet
<1>6. Ends
  BY <1>1, <1>4, <1>5 DEF Ends, LeaveSet, Raises, Returns
<1> QED
  BY <1>5, <1>6, EndsKeeps

\* A register cannot be read, and is going to be tried again.
LEMMA ReadFailsKeeps ==
  ASSUME AsicInv, ReadFails, call.tries + 1 < MaxTries
  PROVE  AsicInv'
<1>1. /\ call.op = "get" /\ call' = [call EXCEPT !.tries = @ + 1]
      /\ UNCHANGED <<returned, hardware, caches, history>>
  BY DEF ReadFails, At
<1>2. call \in Calls /\ call.checks < MaxTries
  BY <1>1, CallParts DEF AsicInv
<1>3. call.tries + 1 \in Nat
  BY <1>2 DEF Calls
<1>4. call' \in Calls
  BY <1>1, <1>2, <1>3 DEF Calls
<1>5. /\ call'.op = call.op /\ call'.force = call.force /\ call'.config = call.config
      /\ call'.updated = call.updated /\ call'.sets = call.sets /\ call'.todo = call.todo
      /\ call'.tries < MaxTries /\ call'.checks < MaxTries /\ call'.phase = call.phase
  BY <1>1, <1>2 DEF Calls
<1>6. Goes
  BY <1>1, <1>4, <1>5 DEF Goes, AsicInv, HardwareOK, CacheOK, BiasOp, Resetting, hardware, caches, history
<1> QED
  BY <1>1, <1>5, <1>6, GoesKeeps DEF hardware

\* A bias voltage is set, or known to be.
LEMMA BiasKeeps ==
  ASSUME AsicInv, WriteBias
  PROVE  AsicInv'
<1>1. /\ BiasOp /\ call.todo # {} /\ call.op \in {"bias", "init"}
      /\ call' = [call EXCEPT !.todo = @ \ {R}]
      /\ UNCHANGED <<chip, active, cache, refresh, returned, known, settled, stale>>
  BY DEF WriteBias, BiasOp, history
<1>2. call \in Calls /\ call.tries < MaxTries /\ call.checks < MaxTries /\ call # Idle
  BY <1>1, CallParts DEF AsicInv
<1>3. R \in call.todo
  BY <1>1, <1>2, NextIs DEF AsicInv
<1>4. R \in BiasChannels /\ call.config[R] \in Values /\ call.todo \ {R} \in ToDo
  BY <1>1, <1>3 DEF AsicInv, CallOK, ToDo
<1>5. call' \in Calls
  BY <1>1, <1>2, <1>4 DEF Calls
<1>6. /\ call'.op = call.op /\ call'.force = call.force /\ call'.config = call.config
      /\ call'.updated = call.updated /\ call'.sets = call.sets
      /\ call'.tries = call.tries /\ call'.checks = call.checks /\ call'.phase = call.phase
      /\ call'.todo = call.todo \ {R}
  BY <1>1, <1>2 DEF Calls
<1>7. HardwareOK'
  BY <1>1, <1>4 DEF WriteBias, AsicInv, HardwareOK, Words
<1>8. DOMAIN biasCache' \subseteq BiasChannels
  <2>1. DOMAIN BiasCached(R) = {R} \cup DOMAIN biasCache
    BY DEF BiasCached
  <2> QED
    BY <1>4, <2>1 DEF WriteBias, AsicInv, CacheOK
<1>9. Goes
  BY <1>1, <1>2, <1>5, <1>6, <1>7, <1>8 DEF Goes, BiasOp, Resetting
<1> QED
  BY <1>1, <1>6, <1>9, GoesKeeps

-----------------------------------------------------------------------------
(* How the calls begin.                                                    *)

\* The record of a call.
LEMMA CallType ==
  ASSUME NEW op \in Ops, NEW force \in BOOLEAN, NEW config \in ToSet, NEW todo \in ToDo
  PROVE  /\ Call(op, force, config, todo) \in Calls
         /\ [Call(op, force, config, todo) EXCEPT !.sets = TRUE] \in Calls
         /\ Call(op, force, config, todo) # Idle
         /\ 0 < MaxTries
<1>1. MaxInits \in Nat /\ MaxTries \in Nat \ {0} /\ {} \in SUBSET Asics
  BY AsicAssumption
<1>2. Call(op, force, config, todo) \in Calls
  BY <1>1 DEF Call, Calls
<1>3. [Call(op, force, config, todo) EXCEPT !.sets = TRUE] \in Calls
  BY <1>2 DEF Calls
<1>4. Call(op, force, config, todo).op # Idle.op
  BY DEF Call, Idle, Ops
<1> QED
  BY <1>1, <1>2, <1>3, <1>4

\* The active ASICs' registers.
LEMMA ActiveType ==
  ASSUME CacheOK
  PROVE  OfAsics(active) \in ToDo /\ OfAsics(active) \subseteq Registers
  BY DEF CacheOK, OfAsics, ToDo, Registers

\* getAsicsConfig begins with an empty cache.
LEMMA EmptyKeeps ==
  ASSUME AsicInv, NEW c \in Calls, EmptyCache(c), returned' = None,
         c.op = "get", c.todo = OfAsics(active), c.tries = 0, c.checks = 0,
         c.sets => c.config \in [Registers -> Values]
  PROVE  AsicInv'
<1>1. /\ cache' = <<>> /\ refresh' = {} /\ call' = c
      /\ UNCHANGED <<chip, bias, active, biasCache, known>>
  BY DEF EmptyCache, hardware
<1>2. cache' \in [{} -> Words] /\ cache' # None
  <2>1. cache' \in [{} -> Words]
    BY <1>1
  <2>2. {} \in SUBSET Registers
    OBVIOUS
  <2>3. None \notin [{} -> Words]
    BY <2>2, AsicAssumption DEF Words
  <2> QED
    BY <2>1, <2>3
<1>3. HardwareOK'
  BY <1>1 DEF AsicInv, HardwareOK
<1>4. CacheOK'
  <2>1. OfAsics({}) = {} /\ {} \in SUBSET active'
    BY DEF OfAsics
  <2> QED
    BY <1>1, <1>2, <2>1 DEF AsicInv, CacheOK
<1>5. CallOK'
  <2>1. call' # Idle /\ ~BiasOp' /\ 0 < MaxTries
    BY <1>1, AsicAssumption DEF Idle, BiasOp
  <2> QED
    BY <1>1, <1>2, <2>1 DEF CallOK
<1>6. DOMAIN cache' = {}
  BY <1>2
<1>7. CacheIsVerified' /\ GetOK' /\ SetOK' /\ SummaryOK'
  BY <1>1, <1>6 DEF CacheIsVerified, GetOK, SetOK, SummaryOK, Visited, CachedChannels
<1>8. SetIsVerified'
  BY DEF SetIsVerified
<1> QED
  BY <1>3, <1>4, <1>5, <1>7, <1>8 DEF AsicInv

\* setAsicsConfig has not been anywhere.
LEMMA SetKeeps ==
  ASSUME AsicInv, cache # None, NEW force \in BOOLEAN, NEW config \in [Registers -> Values],
         call' = Call("set", force, config, OfAsics(active)), returned' = None,
         UNCHANGED <<hardware, caches, history>>,
         call.op # "set"
  PROVE  AsicInv'
<1>1. UNCHANGED <<chip, bias, active, cache, refresh, biasCache, known, settled, stale>>
  BY DEF hardware, caches, history
<1>2. call' \in Calls /\ call' # Idle /\ 0 < MaxTries
  BY CallType, ActiveType DEF AsicInv, Ops, ToSet
<1>3. /\ call'.op = "set" /\ call'.config = config /\ call'.todo = OfAsics(active)
      /\ call'.tries = 0 /\ call'.checks = 0 /\ call'.updated = FALSE /\ ~BiasOp'
  BY DEF Call, BiasOp
<1>4. HardwareOK' /\ CacheOK'
  BY <1>1 DEF AsicInv, HardwareOK, CacheOK
<1>5. CallOK'
  BY <1>1, <1>2, <1>3 DEF CallOK
<1>6. Visited' = {}
  BY <1>1, <1>3 DEF Visited
<1>7. CacheIsVerified' /\ GetOK' /\ SetOK'
  BY <1>1, <1>3, <1>6 DEF AsicInv, CacheIsVerified, GetOK, SetOK
<1>8. SummaryOK'
  BY <1>1, <1>3 DEF AsicInv, SummaryOK, CachedChannels, Settings
<1>9. SetIsVerified'
  BY DEF SetIsVerified
<1> QED
  BY <1>4, <1>5, <1>7, <1>8, <1>9 DEF AsicInv

\* The bias voltages are next.
LEMMA BiasBegins ==
  ASSUME AsicInv, call' \in Calls, call'.tries = 0, call'.checks = 0, returned' = None,
         call'.op \in {"bias", "init"}, BiasOp',
         call'.todo = BiasChannels, call'.config \in [BiasChannels -> Values],
         UNCHANGED <<hardware, cache, refresh, biasCache, history>>,
         active' \subseteq Asics, active' = active \/ cache = None,
         call.op # "set"
  PROVE  AsicInv'
<1>1. UNCHANGED <<chip, bias, cache, refresh, biasCache, known, settled, stale>>
  BY DEF hardware, history
<1>2. HardwareOK' /\ CacheOK'
  BY <1>1 DEF AsicInv, HardwareOK, CacheOK
<1>3. CallOK'
  <2>1. call' # Idle /\ 0 < MaxTries
    BY AsicAssumption DEF Idle
  <2> QED
    BY <2>1 DEF CallOK
<1>4. CacheIsVerified' /\ GetOK' /\ SetOK'
  BY <1>1 DEF AsicInv, CacheIsVerified, GetOK, SetOK
<1>5. SummaryOK'
  BY <1>1 DEF AsicInv, SummaryOK, CachedChannels, Settings
<1>6. SetIsVerified'
  BY DEF SetIsVerified
<1> QED
  BY <1>2, <1>3, <1>4, <1>5, <1>6 DEF AsicInv

\* initializeSystem's first call for the bias voltages.
LEMMA InitCallType ==
  ASSUME NEW inits \in Nat, call' = InitCall(inits)
  PROVE  /\ call' \in Calls /\ call'.tries = 0 /\ call'.checks = 0
         /\ call'.op = "init" /\ BiasOp'
         /\ call'.todo = BiasChannels /\ call'.config \in [BiasChannels -> Values]
<1> DEFINE c == Call("init", TRUE, [k \in BiasChannels |-> 0], BiasChannels)
<1>1. [k \in BiasChannels |-> 0] \in [BiasChannels -> Values]
  BY AsicAssumption
<1>2. c \in Calls
  BY <1>1, CallType DEF Ops, ToSet, ToDo
<1>3. /\ c.op = "init" /\ c.todo = BiasChannels /\ c.config = [k \in BiasChannels |-> 0]
      /\ c.tries = 0 /\ c.checks = 0
  BY DEF Call
<1>4. call' = [c EXCEPT !.phase = "bias", !.inits = inits]
  BY DEF InitCall
<1> HIDE DEF c
<1>5. call' \in Calls
  BY <1>2, <1>4 DEF Calls
<1>6. /\ call'.op = c.op /\ call'.todo = c.todo /\ call'.config = c.config
      /\ call'.tries = c.tries /\ call'.checks = c.checks /\ call'.phase = "bias"
  BY <1>2, <1>4 DEF Calls
<1> QED
  BY <1>1, <1>3, <1>5, <1>6 DEF BiasOp

\* The program's calls.
LEMMA CallsKeep ==
  ASSUME AsicInv,
         \/ \E force \in BOOLEAN :
              \/ GetAsicsConfig(force)
              \/ \E config \in Configs : SetAsicsConfig(config, force)
              \/ \E config \in BiasConfigs : SetBias(config, force)
         \/ InitializeSystem
         \/ GetEnds /\ call.sets
  PROVE  AsicInv'
<1>1. \A config \in Configs : config \in [Registers -> Values] /\ config \in ToSet
  BY AsicAssumption DEF ToSet
<1>2. \A config \in BiasConfigs : config \in [BiasChannels -> Values] /\ config \in ToSet
  BY AsicAssumption DEF ToSet
<1>3. OfAsics(active) \in ToDo /\ BiasChannels \in ToDo
  BY ActiveType DEF AsicInv, ToDo
<1>4. ASSUME NEW force \in BOOLEAN, GetAsicsConfig(force) PROVE AsicInv'
  <2>1. CASE force \/ cache = None
    <3> DEFINE c == Call("get", force, None, OfAsics(active))
    <3>1. EmptyCache(c) /\ returned' = None
      BY <1>4, <2>1 DEF GetAsicsConfig
    <3>2. c \in Calls
      BY <1>3, CallType DEF Ops, ToSet
    <3>3. c.op = "get" /\ c.todo = OfAsics(active) /\ c.tries = 0 /\ c.checks = 0 /\ ~c.sets
      BY DEF Call
    <3> HIDE DEF c
    <3> QED
      BY <3>1, <3>2, <3>3, EmptyKeeps
  <2>2. CASE ~(force \/ cache = None)
    <3>1. /\ call = Idle /\ returned' = [op |-> "get", force |-> force, config |-> None, ok |-> TRUE]
          /\ UNCHANGED <<chip, bias, active, cache, refresh, biasCache, call, known, settled, stale>>
      BY <1>4, <2>2 DEF GetAsicsConfig, hardware, caches, history
    <3>2. CallOK'
      <4>1. call' = Idle /\ call'.op = "idle" /\ ~BiasOp' /\ ~Resetting'
        BY <3>1 DEF Idle, BiasOp, Resetting
      <4> QED
        BY <4>1 DEF CallOK
    <3>3. SetIsVerified'
      BY <3>1 DEF SetIsVerified
    <3>4. HardwareOK' /\ CacheOK' /\ CacheIsVerified'
      BY <3>1 DEF AsicInv, HardwareOK, CacheOK, CacheIsVerified
    <3>5. GetOK' /\ SetOK' /\ SummaryOK'
      BY <3>1 DEF AsicInv, GetOK, SetOK, SummaryOK, CachedChannels, Settings, Idle
    <3> QED
      BY <3>2, <3>3, <3>4, <3>5 DEF AsicInv
  <2> QED
    BY <2>1, <2>2
<1>5. ASSUME NEW force \in BOOLEAN, NEW config \in Configs, SetAsicsConfig(config, force)
      PROVE  AsicInv'
  <2>1. CASE cache = None
    <3> DEFINE c == [Call("get", force, config, OfAsics(active)) EXCEPT !.sets = TRUE]
    <3>1. EmptyCache(c) /\ returned' = None
      BY <1>5, <2>1 DEF SetAsicsConfig
    <3>2. c \in Calls
      BY <1>1, <1>3, CallType DEF Ops
    <3>3. /\ c.op = "get" /\ c.todo = OfAsics(active) /\ c.tries = 0 /\ c.checks = 0
          /\ c.config = config
      BY DEF Call
    <3> HIDE DEF c
    <3> QED
      BY <1>1, <3>1, <3>2, <3>3, EmptyKeeps
  <2>2. CASE cache # None
    <3>1. /\ call' = Call("set", force, config, OfAsics(active)) /\ returned' = None
          /\ UNCHANGED <<hardware, caches, history>> /\ call.op # "set"
      BY <1>5, <2>2 DEF SetAsicsConfig, Idle
    <3> QED
      BY <1>1, <2>2, <3>1, SetKeeps
  <2> QED
    BY <2>1, <2>2
<1>6. ASSUME NEW force \in BOOLEAN, NEW config \in BiasConfigs, SetBias(config, force)
      PROVE  AsicInv'
  <2>1. /\ call' = Call("bias", force, config, BiasChannels) /\ returned' = None /\ call.op # "set"
        /\ UNCHANGED <<hardware, active, cache, refresh, biasCache, history>>
    BY <1>6 DEF SetBias, Idle, caches
  <2>2. call' \in Calls
    BY <1>2, <1>3, <2>1, CallType DEF Ops
  <2>3. /\ call'.op = "bias" /\ call'.todo = BiasChannels /\ call'.config = config
        /\ call'.tries = 0 /\ call'.checks = 0 /\ BiasOp'
    BY <2>1 DEF Call, BiasOp
  <2> QED
    BY <1>2, <2>1, <2>2, <2>3, BiasBegins DEF AsicInv, CacheOK
<1>7. CASE InitializeSystem
  <2>1. /\ call' = InitCall(MaxInits) /\ returned' = None /\ call.op # "set"
        /\ UNCHANGED <<hardware, active, cache, refresh, biasCache, history>>
    BY <1>7 DEF InitializeSystem, Idle, caches
  <2>2. MaxInits \in Nat
    BY AsicAssumption
  <2> QED
    BY <2>1, <2>2, InitCallType, BiasBegins DEF AsicInv, CacheOK
<1>8. CASE GetEnds /\ call.sets
  <2>1. /\ call.op = "get" /\ call' = Call("set", call.force, call.config, OfAsics(active))
        /\ UNCHANGED <<returned, hardware, caches, history>>
    BY <1>8 DEF GetEnds, Done
  <2>2. call \in Calls /\ returned = None /\ cache # None /\ call.config \in [Registers -> Values]
    BY <1>8, <2>1, CallParts DEF AsicInv, CallOK
  <2>3. call.force \in BOOLEAN
    BY <2>2 DEF Calls
  <2> QED
    BY <2>1, <2>2, <2>3, SetKeeps
<1> QED
  BY <1>4, <1>5, <1>6, <1>7, <1>8

-----------------------------------------------------------------------------
(* initializeSystem.                                                       *)

\* Once more it is the ASICs' turn.
LEMMA PowerKeeps ==
  ASSUME AsicInv, PowerOn
  PROVE  AsicInv'
<1>1. /\ call.op = "init" /\ call.phase = "bias"
      /\ call' = [call EXCEPT !.phase = "reset", !.todo = OfAsics(Asics)]
      /\ UNCHANGED <<chip, bias, active, cache, refresh, biasCache, returned, known, settled, stale>>
  BY DEF PowerOn, hardware, caches, history
<1>2. call \in Calls /\ returned = None /\ call.tries < MaxTries /\ call.checks < MaxTries
  BY <1>1, CallParts DEF AsicInv
<1>3. OfAsics(Asics) \in ToDo /\ OfAsics(Asics) \subseteq Registers
  BY DEF OfAsics, ToDo, Registers
<1>4. call' \in Calls
  BY <1>1, <1>2, <1>3 DEF Calls
<1>5. /\ call'.op = "init" /\ call'.phase = "reset" /\ call'.todo = OfAsics(Asics)
      /\ call'.tries = call.tries /\ call'.checks = call.checks
  BY <1>1, <1>2 DEF Calls
<1>6. HardwareOK' /\ CacheOK' /\ CacheIsVerified'
  BY <1>1 DEF AsicInv, HardwareOK, CacheOK, CacheIsVerified
<1>7. CallOK'
  BY <1>1, <1>2, <1>3, <1>4, <1>5 DEF CallOK, BiasOp, Resetting, Idle
<1>8. GetOK' /\ SetOK' /\ SummaryOK'
  BY <1>1, <1>5 DEF AsicInv, GetOK, SetOK, SummaryOK, CachedChannels, Settings
<1>9. SetIsVerified'
  BY <1>1, <1>2 DEF SetIsVerified
<1> QED
  BY <1>6, <1>7, <1>8, <1>9 DEF AsicInv

\* With its ASICs reset nothing is known of a FEB/D, and the cache is stale.
LEMMA ResetKeeps ==
  ASSUME AsicInv, ResetAsics
  PROVE  AsicInv'
<1>1. /\ call.op = "init" /\ call.phase = "reset"
      /\ chip' = [r \in Registers |-> IF r \in OfBoard(R) THEN Garbage ELSE chip[r]]
      /\ known' = [r \in Registers |-> IF r \in OfBoard(R) THEN None ELSE known[r]]
      /\ stale' = TRUE
      /\ call' = [call EXCEPT !.todo = @ \ OfBoard(R)]
      /\ UNCHANGED <<bias, active, cache, refresh, biasCache, returned, settled>>
  BY DEF ResetAsics, Resetting, caches
<1>2. call \in Calls /\ returned = None /\ call.tries < MaxTries /\ call.checks < MaxTries
  BY <1>1, CallParts DEF AsicInv
<1>3. call.todo \subseteq Registers
  BY <1>1 DEF AsicInv, CallOK, BiasOp
<1>4. call.todo \ OfBoard(R) \in ToDo /\ call.todo \ OfBoard(R) \subseteq Registers
  BY <1>3 DEF ToDo
<1>5. call' \in Calls
  BY <1>1, <1>2, <1>4 DEF Calls
<1>6. /\ call'.op = "init" /\ call'.phase = "reset" /\ call'.todo = call.todo \ OfBoard(R)
      /\ call'.tries = call.tries /\ call'.checks = call.checks
  BY <1>1, <1>2 DEF Calls
<1>7. HardwareOK' /\ CacheOK'
  BY <1>1 DEF AsicInv, HardwareOK, CacheOK, Words
<1>8. CallOK'
  <2>1. ~BiasOp' /\ Resetting' /\ call' # Idle /\ returned' = None
    BY <1>1, <1>2, <1>6 DEF BiasOp, Resetting, Idle
  <2>2. call'.tries < MaxTries /\ call'.checks < MaxTries /\ call'.todo \subseteq Registers
    BY <1>2, <1>4, <1>6
  <2> QED
    BY <1>5, <1>6, <2>1, <2>2 DEF CallOK
<1>9. CacheIsVerified'
  <2> SUFFICES ASSUME cache # None, NEW r \in DOMAIN cache
               PROVE  cache[r] = known'[r] \/ known'[r] = None
    BY <1>1 DEF CacheIsVerified
  <2>1. r \in Registers
    <3>1. PICK A \in SUBSET active : cache \in [OfAsics(A) -> Words]
      BY DEF AsicInv, CacheOK
    <3>2. active \subseteq Asics /\ r \in OfAsics(A)
      BY <3>1 DEF AsicInv, CacheOK
    <3> QED
      BY <3>2 DEF OfAsics, Registers
  <2>2. cache[r] = known[r] \/ known[r] = None
    BY DEF AsicInv, CacheIsVerified
  <2> QED
    BY <1>1, <2>1, <2>2
<1>10. GetOK' /\ SetOK' /\ SummaryOK'
  BY <1>1, <1>6 DEF AsicInv, GetOK, SetOK, SummaryOK, CachedChannels, Settings
<1>11. SetIsVerified'
  BY <1>1, <1>2 DEF SetIsVerified
<1> QED
  BY <1>7, <1>8, <1>9, <1>10, <1>11 DEF AsicInv

\* Nothing is believed of the ASICs then.
LEMMA VoidKeeps ==
  ASSUME AsicInv, VoidCaches
  PROVE  AsicInv'
<1>1. /\ call.op = "init" /\ call.phase = "reset" /\ cache' = None
      /\ call' = [call EXCEPT !.phase = "write", !.config = [r \in Registers |-> Default],
                              !.todo = OfAsics(Asics), !.ok = Asics]
      /\ UNCHANGED <<chip, bias, active, biasCache, returned, known, settled>>
  BY DEF VoidCaches, Resetting, Forget, hardware
<1>2. call \in Calls /\ returned = None /\ call.tries < MaxTries /\ call.checks < MaxTries
  BY <1>1, CallParts DEF AsicInv
<1>3. [r \in Registers |-> Default] \in ToSet
  BY AsicAssumption DEF ToSet
<1>4. OfAsics(Asics) \in ToDo /\ OfAsics(Asics) \subseteq Registers
  BY DEF OfAsics, ToDo, Registers
<1>5. call' \in Calls
  BY <1>1, <1>2, <1>3, <1>4 DEF Calls
<1>6. /\ call'.op = "init" /\ call'.phase = "write" /\ call'.todo = OfAsics(Asics)
      /\ call'.tries = call.tries /\ call'.checks = call.checks
  BY <1>1, <1>2 DEF Calls
<1>7. HardwareOK' /\ CacheOK'
  BY <1>1 DEF AsicInv, HardwareOK, CacheOK
<1>8. CallOK'
  BY <1>1, <1>2, <1>4, <1>5, <1>6 DEF CallOK, BiasOp, Idle
<1>9. CacheIsVerified' /\ GetOK' /\ SetOK' /\ SummaryOK'
  BY <1>1, <1>6 DEF CacheIsVerified, GetOK, SetOK, SummaryOK
<1>10. SetIsVerified'
  BY <1>1, <1>2 DEF SetIsVerified
<1> QED
  BY <1>7, <1>8, <1>9, <1>10 DEF AsicInv

\* What a call does next, with no cache.
LEMMA InitGoes ==
  ASSUME AsicInv, cache = None, UNCHANGED <<hardware, cache, biasCache>>, returned = None,
         returned' = None, active' \subseteq Asics, known' \in [Registers -> Words \cup {None}],
         call' \in Calls, call'.tries < MaxTries, call'.checks < MaxTries,
         call'.op \in {"init", "adjust"}, ~BiasOp', call'.todo \subseteq Registers,
         call'.op = "adjust" => call'.config \in [Registers -> Values]
  PROVE  AsicInv'
<1>1. HardwareOK' /\ CacheOK'
  BY DEF AsicInv, HardwareOK, CacheOK, hardware
<1>2. CallOK'
  BY DEF CallOK
<1>3. CacheIsVerified' /\ GetOK' /\ SetOK' /\ SummaryOK'
  BY DEF CacheIsVerified, GetOK, SetOK, SummaryOK
<1>4. SetIsVerified'
  BY DEF SetIsVerified
<1> QED
  BY <1>1, <1>2, <1>3, <1>4 DEF AsicInv

\* An ASIC has taken what initializeSystem has written.
LEMMA InitGood ==
  ASSUME AsicInv, DefaultIsGood \/ AdjustIsGood
  PROVE  AsicInv'
<1>1. /\ call.op \in {"init", "adjust"} /\ call.todo # {} /\ ~BiasOp
      /\ call.phase = "check" /\ ~Resetting
      /\ call' = Proceed(call) /\ UNCHANGED <<hardware, caches, returned>>
  BY DEF DefaultIsGood, AdjustIsGood, Initializing, At, BiasOp, Checked, Resetting
<1>2. call \in Calls /\ call # Idle /\ returned = None
  BY <1>1, CallParts DEF AsicInv
<1>3. call.todo \subseteq Registers /\ cache = None
  BY <1>1 DEF AsicInv, CallOK
<1>4. call.todo \ {R} \in ToDo /\ call.todo \ {R} \subseteq Registers
  BY <1>3 DEF ToDo
<1>5. R \in Registers
  BY <1>1, <1>2, <1>3, NextIs DEF AsicInv
<1>6. known' \in [Registers -> Words \cup {None}]
  BY <1>5 DEF DefaultIsGood, AdjustIsGood, Checked, AsicInv, HardwareOK
<1>7. call' = [call EXCEPT !.todo = call.todo \ {R}, !.phase = "write", !.tries = 0, !.checks = 0]
  BY <1>1, <1>2 DEF Proceed, R
<1>8. call' \in Calls
  BY <1>2, <1>4, <1>7 DEF Calls
<1>9. /\ call'.op = call.op /\ call'.config = call.config /\ call'.phase = "write"
      /\ call'.tries = 0 /\ call'.checks = 0 /\ call'.todo = call.todo \ {R}
  BY <1>2, <1>7 DEF Calls
<1>10. call'.op = "adjust" => call'.config \in [Registers -> Values]
  BY <1>9 DEF AsicInv, CallOK
<1>11. ~BiasOp' /\ 0 < MaxTries
  BY <1>1, <1>9, AsicAssumption DEF BiasOp
<1>12. active' \subseteq Asics /\ UNCHANGED <<cache, biasCache>>
  BY <1>1 DEF caches, AsicInv, CacheOK
<1> QED
  BY <1>1, <1>2, <1>3, <1>4, <1>6, <1>8, <1>9, <1>10, <1>11, <1>12, InitGoes

\* The ASICs that there are have been found, or are looked for once more.
LEMMA DetectKeeps ==
  ASSUME AsicInv, DetectAsics
  PROVE  AsicInv'
<1>1. /\ call.op = "init" /\ call.phase = "write"
      /\ UNCHANGED <<hardware, cache, refresh, biasCache, returned, history>>
  BY DEF DetectAsics, Done
<1>2. call \in Calls /\ returned = None /\ cache = None
  BY <1>1, CallParts DEF AsicInv, CallOK, BiasOp, Resetting
<1>3. PICK received \in SUBSET Asics, inconsistent \in BOOLEAN :
        /\ active' = received \cap call.ok
        /\ \/ /\ inconsistent /\ call.inits > 1
              /\ call' = InitCall(call.inits - 1)
           \/ \E dac \in [Asics -> Adjusted] :
                 call' = Call("adjust", TRUE, [r \in Registers |-> dac[r[1]]],
                              (received \cap call.ok) \X {Global})
  BY DEF DetectAsics
<1>4. active' \subseteq Asics
  BY <1>3
<1>5. CASE call.inits > 1 /\ call' = InitCall(call.inits - 1)
  <2>1. call.inits - 1 \in Nat
    BY <1>2, <1>5 DEF Calls
  <2>2. /\ call' \in Calls /\ call'.tries = 0 /\ call'.checks = 0
        /\ call'.op = "init" /\ BiasOp'
        /\ call'.todo = BiasChannels /\ call'.config \in [BiasChannels -> Values]
    BY <1>5, <2>1, InitCallType
  <2> QED
    BY <1>1, <1>2, <1>4, <2>2, BiasBegins
<1>6. CASE \E dac \in [Asics -> Adjusted] :
             call' = Call("adjust", TRUE, [r \in Registers |-> dac[r[1]]],
                          (received \cap call.ok) \X {Global})
  <2>1. PICK dac \in [Asics -> Adjusted] :
          call' = Call("adjust", TRUE, [r \in Registers |-> dac[r[1]]],
                       (received \cap call.ok) \X {Global})
    BY <1>6
  <2> DEFINE config == [r \in Registers |-> dac[r[1]]]
             todo == (received \cap call.ok) \X {Global}
  <2>2. config \in [Registers -> Values]
    <3>1. \A r \in Registers : r[1] \in Asics
      BY DEF Registers
    <3>2. Adjusted \subseteq Values
      BY AsicAssumption
    <3> QED
      BY <3>1, <3>2
  <2>3. todo \subseteq Registers
    BY DEF Registers
  <2>4. call' = Call("adjust", TRUE, config, todo)
    BY <2>1
  <2> HIDE DEF config, todo
  <2>5. config \in ToSet /\ todo \in ToDo
    BY <2>2, <2>3 DEF ToSet, ToDo
  <2>6. call' \in Calls /\ 0 < MaxTries
    BY <2>4, <2>5, CallType DEF Ops
  <2>7. /\ call'.op = "adjust" /\ call'.config = config /\ call'.todo = todo
        /\ call'.tries = 0 /\ call'.checks = 0 /\ ~BiasOp'
    BY <2>4 DEF Call, BiasOp
  <2>8. known' \in [Registers -> Words \cup {None}]
    BY <1>1 DEF history, AsicInv, HardwareOK
  <2> QED
    BY <1>1, <1>2, <1>4, <2>2, <2>3, <2>6, <2>7, <2>8, InitGoes
<1> QED
  BY <1>3, <1>5, <1>6

-----------------------------------------------------------------------------
(* getAsicsConfig.                                                         *)

\* What a call that has been to its next register goes on with.
LEMMA ProceedIs ==
  ASSUME AsicInv, call.op \in {"get", "set"}, call.todo # {},
         NEW updated \in BOOLEAN, call' = [Proceed(call) EXCEPT !.updated = updated],
         UNCHANGED <<active, cache, returned>> \/ (cache' # None /\ UNCHANGED <<active, returned>>)
  PROVE  /\ CallOK' /\ R \in call.todo /\ R \in OfAsics(active) /\ R \in Registers
         /\ call'.op = call.op /\ call'.force = call.force /\ call'.config = call.config
         /\ call'.todo = call.todo \ {R} /\ call'.updated = updated
         /\ Visited' = Visited \cup {R}
<1>1. /\ call \in Calls /\ call # Idle /\ returned = None /\ ~BiasOp
      /\ call.todo \subseteq OfAsics(active) /\ cache # None
  BY CallParts DEF AsicInv, CallOK, BiasOp
<1>2. R \in call.todo
  BY <1>1, NextIs DEF AsicInv
<1>3. OfAsics(active) \subseteq Registers
  BY ActiveType DEF AsicInv
<1>4. call.todo \ {R} \in ToDo
  BY <1>1, <1>3 DEF ToDo
<1>5. call' = [call EXCEPT !.todo = call.todo \ {R}, !.phase = "write", !.tries = 0, !.checks = 0,
                           !.updated = updated]
  BY <1>1 DEF Proceed, R, Calls
<1>6. call' \in Calls
  <2> DEFINE c == [call EXCEPT !.todo = call.todo \ {R}, !.phase = "write", !.tries = 0, !.checks = 0]
  <2>1. c \in Calls
    BY <1>1, <1>4 DEF Calls
  <2>2. call' = [c EXCEPT !.updated = updated]
    BY <1>1, <1>5 DEF Calls
  <2> HIDE DEF c
  <2> QED
    BY <2>1, <2>2 DEF Calls
<1>7. /\ call'.op = call.op /\ call'.force = call.force /\ call'.config = call.config
      /\ call'.todo = call.todo \ {R} /\ call'.updated = updated /\ call'.sets = call.sets
      /\ call'.tries = 0 /\ call'.checks = 0
  BY <1>1, <1>5 DEF Calls
<1>8. CallOK'
  <2>1. call' # Idle /\ ~BiasOp' /\ 0 < MaxTries
    BY <1>7, AsicAssumption DEF Idle, BiasOp
  <2>2. call'.op = "set" \/ (call'.op = "get" /\ call'.sets) => call'.config \in [Registers -> Values]
    BY <1>7 DEF AsicInv, CallOK
  <2> QED
    BY <1>1, <1>6, <1>7, <2>1, <2>2 DEF CallOK
<1>9. Visited' = Visited \cup {R}
  BY <1>1, <1>2, <1>7 DEF Visited
<1> QED
  BY <1>1, <1>2, <1>3, <1>7, <1>8, <1>9

\* A register has been read, and with the last one of an ASIC its entry is made.
LEMMA ReadKeeps ==
  ASSUME AsicInv, ReadRegister
  PROVE  AsicInv'
<1>1. /\ call.op = "get" /\ call.todo # {} /\ call' = Proceed(call)
      /\ known' = [known EXCEPT ![R] = chip[R]]
      /\ UNCHANGED <<chip, bias, active, biasCache, returned, settled, stale>>
  BY DEF ReadRegister, At, hardware
<1>2. call \in Calls /\ cache # None /\ returned = None /\ call # Idle
  BY <1>1, CallParts DEF AsicInv, CallOK
<1>3. call.updated \in BOOLEAN /\ call' = [Proceed(call) EXCEPT !.updated = call.updated]
  BY <1>1, <1>2 DEF Calls, Proceed
<1>4. PICK A \in SUBSET active : cache \in [OfAsics(A) -> Words]
  BY <1>2 DEF AsicInv, CacheOK
<1>5. R \in call.todo /\ \A s \in call.todo \ {R} : Before(R, s)
  BY <1>1, <1>2, NextIs DEF AsicInv
<1>6. R \in OfAsics(active) /\ R \in Registers
  BY <1>1, <1>2, <1>5, ActiveType DEF AsicInv, CallOK
<1>7. R = <<R[1], R[2]>> /\ R[1] \in active /\ R[2] \in Channels \cup {Global} /\ R \in OfAsic(R)
  BY <1>6 DEF OfAsics, OfAsic
<1>8. \A r \in DOMAIN cache : OfAsic(r) \cap call.todo = {}
  BY <1>1 DEF AsicInv, GetOK
<1>9. R[1] \notin A
  <2> SUFFICES ASSUME R[1] \in A PROVE FALSE
    OBVIOUS
  <2>1. R \in DOMAIN cache
    BY <1>4, <1>7 DEF OfAsics
  <2> QED
    BY <1>5, <1>7, <1>8, <2>1
<1>10. HardwareOK'
  BY <1>1, <1>6 DEF AsicInv, HardwareOK
<1>11. \A r \in Registers : known'[r] = IF r = R THEN chip[R] ELSE known[r]
  BY <1>1 DEF AsicInv, HardwareOK
<1>12. CASE R[2] # LastChannel
  <2>1. UNCHANGED <<cache, refresh>>
    BY <1>12 DEF ReadRegister
  <2>2. /\ CallOK' /\ call'.op = "get" /\ call'.todo = call.todo \ {R}
        /\ Visited' = Visited \cup {R}
    BY <1>1, <1>3, <2>1, ProceedIs
  <2>3. CacheOK'
    BY <1>1, <2>1 DEF AsicInv, CacheOK
  <2>4. CacheIsVerified'
    <3>1. \A r \in DOMAIN cache : r \in Registers /\ r # R
      BY <1>4, <1>7, <1>9 DEF OfAsics, Registers, AsicInv, CacheOK
    <3> QED
      BY <1>1, <1>11, <2>1, <3>1 DEF AsicInv, CacheIsVerified
  <2>5. GetOK'
    <3>1. \A r \in Visited : r \in Registers /\ known[r] = chip[r]
      BY <1>1, ActiveType DEF AsicInv, GetOK, Visited
    <3> QED
      BY <1>1, <1>6, <1>8, <1>11, <2>1, <2>2, <3>1 DEF GetOK
  <2>6. SetOK' /\ SummaryOK' /\ SetIsVerified'
    BY <1>1, <1>2, <2>1, <2>2, SMTT(30)
    DEF AsicInv, SetOK, SummaryOK, CachedChannels, Settings, SetIsVerified
  <2> QED
    BY <1>10, <2>2, <2>3, <2>4, <2>5, <2>6 DEF AsicInv
<1>13. CASE R[2] = LastChannel
  <2>1. cache' = Stored(R) /\ refresh' = refresh \cup Summary(R)
    BY <1>13 DEF ReadRegister
  <2>2. \A s \in OfAsic(R) : s = R \/ s \in Visited
    <3> SUFFICES ASSUME NEW s \in OfAsic(R), s # R, s \in call.todo PROVE FALSE
      BY <1>7 DEF Visited, OfAsic, OfAsics
    <3>1. s[1] = R[1] /\ s[2] \in Channels \cup {Global}
      BY DEF OfAsic, OfAsics
    <3>2. R[2] < s[2] \/ R[1] < s[1]
      BY <1>5 DEF Before
    <3>3. ~(R[1] < R[1])
      BY <1>7, AsicAssumption DEF AsicInv, CacheOK
    <3>4. s[2] <= R[2] /\ s[2] \in Int /\ R[2] \in Int
      <4>1. Channels \subseteq Nat /\ Global = -1
        BY AsicAssumption DEF Global
      <4>2. LastChannel \in Nat /\ \A c \in Channels : c <= LastChannel
        BY <4>1, LastIs
      <4>3. s[2] \in Channels \/ s[2] = Global
        BY <3>1
      <4>4. s[2] \in Channels => s[2] \in Nat /\ s[2] <= LastChannel
        BY <4>1, <4>2
      <4>5. s[2] = Global => s[2] = -1
        BY <4>1
      <4>6. s[2] \in Int /\ s[2] <= LastChannel
        BY <4>2, <4>3, <4>4, <4>5
      <4> QED
        BY <1>13, <4>2, <4>6
    <3> QED
      BY <3>1, <3>2, <3>3, <3>4
  <2> DEFINE B == A \cup {R[1]}
  <2>3. OfAsics(B) = OfAsic(R) \cup OfAsics(A) /\ B \in SUBSET active
    BY <1>7 DEF OfAsics, OfAsic
  <2>4. OfAsic(R) \cap OfAsics(A) = {}
    BY <1>9 DEF OfAsic, OfAsics
  <2>5. DOMAIN cache = OfAsics(A) /\ OfAsic(R) \subseteq Registers /\ OfAsics(A) \subseteq Registers
    BY <1>4, <1>7 DEF OfAsics, OfAsic, Registers, AsicInv, CacheOK
  <2>6. /\ DOMAIN cache' = OfAsic(R) \cup OfAsics(A)
        /\ \A s \in OfAsic(R) : cache'[s] = chip[s]
        /\ \A s \in OfAsics(A) : cache'[s] = cache[s]
        /\ cache' \in [OfAsics(B) -> Words]
    <3>1. cache' = [s \in OfAsics(B) |-> IF s \in OfAsic(R) THEN chip[s] ELSE cache[s]]
      BY <2>1, <2>3, <2>5 DEF Stored
    <3>2. \A s \in OfAsics(B) : (IF s \in OfAsic(R) THEN chip[s] ELSE cache[s]) \in Words
      BY <1>4, <2>3, <2>5 DEF AsicInv, HardwareOK
    <3> QED
      BY <2>3, <2>4, <3>1, <3>2
  <2> HIDE DEF B
  <2>7. CacheOK' /\ cache' # None
    <3>1. OfAsics(B) \in SUBSET Registers
      BY <2>3, <2>5
    <3>2. None \notin [OfAsics(B) -> Words]
      BY <3>1, AsicAssumption DEF Words
    <3> QED
      BY <1>1, <2>3, <2>6, <3>2 DEF AsicInv, CacheOK
  <2>8. /\ CallOK' /\ call'.op = "get" /\ call'.todo = call.todo \ {R}
        /\ Visited' = Visited \cup {R}
    BY <1>1, <1>3, <2>7, ProceedIs
  <2>9. \A r \in Visited : r \in Registers /\ known[r] = chip[r]
    BY <1>1, ActiveType DEF AsicInv, GetOK, Visited
  <2>10. CacheIsVerified'
    <3>1. \A s \in OfAsic(R) : known'[s] = chip[s]
      BY <1>11, <2>2, <2>5, <2>9
    <3>2. \A s \in OfAsics(A) : s # R /\ known'[s] = known[s]
      BY <1>7, <1>11, <2>4, <2>5
    <3>3. \A s \in OfAsics(A) : cache[s] = known[s] \/ (stale /\ known[s] = None)
      BY <1>2, <2>5 DEF AsicInv, CacheIsVerified
    <3> QED
      BY <1>1, <2>6, <3>1, <3>2, <3>3 DEF CacheIsVerified
  <2>11. GetOK'
    <3>1. \A r \in Visited' : known'[r] = chip'[r]
      BY <1>1, <1>6, <1>11, <2>8, <2>9
    <3>2. ASSUME NEW r \in OfAsic(R) PROVE OfAsic(r) \cap call'.todo = {}
      <4>1. OfAsic(r) = OfAsic(R)
        BY DEF OfAsic, OfAsics
      <4> QED
        BY <2>2, <2>8, <4>1 DEF Visited
    <3>3. \A r \in OfAsics(A) : OfAsic(r) \cap call'.todo = {}
      BY <1>8, <2>5, <2>8
    <3> QED
      BY <2>6, <3>1, <3>2, <3>3 DEF GetOK
  <2>12. SummaryOK'
    <3> SUFFICES ASSUME settled PROVE SummaryOK'
      BY <1>1 DEF SummaryOK
    <3>1. /\ refresh \subseteq { Settings(r) : r \in CachedChannels }
          /\ \A r \in CachedChannels : r[2] = LastChannel => Settings(r) \in refresh
      BY <1>1, <1>2 DEF AsicInv, SummaryOK
    <3>2. ASSUME NEW r \in OfAsics(A) PROVE Settings(r)' = Settings(r)
      <4>1. <<r[1], Global>> \in OfAsics(A)
        BY DEF OfAsics
      <4> QED
        BY <2>6, <4>1 DEF Settings
    <3>0. PICK q \in OfAsic(R) : q = R
      BY <1>7
    <3>3. Summary(R) = {Settings(q)'}
      <4>1. <<q[1], Global>> \in OfAsic(R)
        BY <3>0 DEF OfAsic, OfAsics
      <4> QED
        BY <2>6, <3>0, <4>1 DEF Settings, Summary
    <3>4. R[2] # Global
      BY <1>13, LastIs, AsicAssumption DEF Global
    <3>5. \A r \in OfAsic(R) : r[2] = LastChannel => r = q
      BY <1>7, <1>13, <3>0 DEF OfAsic, OfAsics
    <3>6. CachedChannels' = CachedChannels \cup { r \in OfAsic(R) : r[2] # Global }
      BY <2>5, <2>6 DEF CachedChannels
    <3>7. CachedChannels \subseteq OfAsics(A) /\ q \in CachedChannels'
      BY <2>5, <3>0, <3>4, <3>6 DEF CachedChannels
    <3>8. refresh' \subseteq { Settings(r)' : r \in CachedChannels' }
      <4>1. ASSUME NEW x \in refresh PROVE \E r \in CachedChannels' : x = Settings(r)'
        BY <3>1, <3>2, <3>6, <3>7
      <4>2. refresh' = refresh \cup {Settings(q)'}
        BY <2>1, <3>3
      <4> QED
        BY <3>7, <4>1, <4>2
    <3>9. ASSUME NEW r \in CachedChannels', r[2] = LastChannel PROVE Settings(r)' \in refresh'
      <4>1. refresh' = refresh \cup {Settings(q)'}
        BY <2>1, <3>3
      <4>2. CASE r \in CachedChannels
        BY <3>1, <3>2, <3>7, <3>9, <4>1, <4>2
      <4>3. CASE r \notin CachedChannels
        BY <3>5, <3>6, <3>9, <4>1, <4>3
      <4> QED
        BY <4>2, <4>3
    <3> QED
      BY <3>8, <3>9 DEF SummaryOK
  <2>13. SetOK' /\ SetIsVerified'
    BY <1>1, <1>2, <2>8 DEF SetOK, SetIsVerified
  <2> QED
    BY <1>10, <2>7, <2>8, <2>10, <2>11, <2>12, <2>13 DEF AsicInv
<1> QED
  BY <1>12, <1>13

-----------------------------------------------------------------------------
(* setAsicsConfig.                                                         *)

\* The cache has what is to be set.
LEMMA SkipKeeps ==
  ASSUME AsicInv, SkipRegister
  PROVE  AsicInv'
<1>1. /\ call.op = "set" /\ call.todo # {} /\ call' = Proceed(call)
      /\ R \in DOMAIN cache /\ ~call.force /\ cache[R] = call.config[R]
      /\ UNCHANGED <<chip, bias, active, cache, refresh, biasCache, returned, known, settled, stale>>
  BY DEF SkipRegister, At, MustWrite, hardware, caches, history
<1>2. call \in Calls /\ returned = None
  BY <1>1, CallParts DEF AsicInv
<1>3. call.updated \in BOOLEAN /\ call' = [Proceed(call) EXCEPT !.updated = call.updated]
  BY <1>1, <1>2 DEF Calls, Proceed
<1>4. /\ CallOK' /\ call'.op = "set" /\ call'.config = call.config /\ call'.force = call.force
      /\ call'.updated = call.updated /\ Visited' = Visited \cup {R}
  BY <1>1, <1>3, ProceedIs
<1>5. HardwareOK' /\ CacheOK' /\ CacheIsVerified'
  BY <1>1 DEF AsicInv, HardwareOK, CacheOK, CacheIsVerified
<1>6. GetOK' /\ SetOK'
  BY <1>1, <1>4 DEF AsicInv, GetOK, SetOK
<1>7. SummaryOK'
  BY <1>1, <1>4 DEF AsicInv, SummaryOK, CachedChannels, Settings
<1>8. SetIsVerified'
  BY <1>1, <1>2 DEF SetIsVerified
<1> QED
  BY <1>4, <1>5, <1>6, <1>7, <1>8 DEF AsicInv

\* What has been written is in the ASIC, as has been seen, and goes to the cache.
LEMMA GoodKeeps ==
  ASSUME AsicInv, WriteIsGood
  PROVE  AsicInv'
<1> DEFINE updated == call.updated \/ call.force
                        \/ TacRefresh(cache[R]) # TacRefresh(call.config[R])
<1>1. /\ call.op = "set" /\ call.todo # {} /\ R \in DOMAIN cache
      /\ chip[R] = call.config[R] /\ known' = [known EXCEPT ![R] = call.config[R]]
      /\ cache' = [cache EXCEPT ![R] = call.config[R]]
      /\ UNCHANGED <<chip, bias, active, refresh, biasCache, returned, settled, stale>>
  BY DEF WriteIsGood, ToWrite, At, Checked, hardware
<1>2. call \in Calls /\ returned = None /\ cache # None /\ call.config \in [Registers -> Values]
  BY <1>1, CallParts DEF AsicInv, CallOK
<1>3. updated \in BOOLEAN /\ call' = [Proceed(call) EXCEPT !.updated = updated]
  <2>1. Proceed(call).updated = call.updated
    BY <1>2 DEF Proceed, Calls
  <2>2. call.updated \in BOOLEAN /\ call.force \in BOOLEAN
    BY <1>2 DEF Calls
  <2> QED
    BY <2>1, <2>2 DEF WriteIsGood
<1>4. PICK A \in SUBSET active : cache \in [OfAsics(A) -> Words]
  BY <1>2 DEF AsicInv, CacheOK
<1>5. OfAsics(A) \in SUBSET Registers /\ R \in OfAsics(A) /\ R \in Registers
  BY <1>1, <1>4 DEF OfAsics, Registers, AsicInv, CacheOK
<1>6. /\ cache' \in [OfAsics(A) -> Words] /\ DOMAIN cache = OfAsics(A)
      /\ DOMAIN cache' = OfAsics(A)
      /\ \A s \in OfAsics(A) : cache'[s] = IF s = R THEN call.config[R] ELSE cache[s]
  BY <1>1, <1>2, <1>4, <1>5 DEF Words
<1>7. cache' # None
  BY <1>5, <1>6, AsicAssumption DEF Words
<1>8. /\ CallOK' /\ call'.op = "set" /\ call'.config = call.config /\ call'.force = call.force
      /\ call'.updated = updated /\ Visited' = Visited \cup {R}
  <2> HIDE DEF updated
  <2> QED
    BY <1>1, <1>3, <1>7, ProceedIs
<1>9. HardwareOK'
  BY <1>1, <1>2, <1>5 DEF AsicInv, HardwareOK, Words
<1>10. CacheOK'
  BY <1>1, <1>6 DEF AsicInv, CacheOK
<1>11. \A r \in Registers : known'[r] = IF r = R THEN call.config[R] ELSE known[r]
  BY <1>1 DEF AsicInv, HardwareOK
<1>12. CacheIsVerified'
  BY <1>1, <1>2, <1>5, <1>6, <1>11 DEF AsicInv, CacheIsVerified
<1>13. GetOK' /\ SetOK'
  <2>1. \A r \in Visited : r \in OfAsics(active) /\ r \in Registers
    BY ActiveType DEF AsicInv, Visited
  <2> QED
    BY <1>1, <1>5, <1>6, <1>8, <1>11, <2>1 DEF AsicInv, GetOK, SetOK
<1>14. SummaryOK'
  <2> SUFFICES ASSUME settled, ~updated PROVE SummaryOK'
    BY <1>1, <1>8 DEF SummaryOK
  <2>1. ~call.updated /\ TacRefresh(cache[R]) = TacRefresh(call.config[R])
    OBVIOUS
  <2>2. \A s \in OfAsics(A) : TacRefresh(cache'[s]) = TacRefresh(cache[s])
    BY <1>6, <2>1
  <2>3. ASSUME NEW r \in OfAsics(A) PROVE Settings(r)' = Settings(r)
    <3>1. <<r[1], Global>> \in OfAsics(A)
      BY DEF OfAsics
    <3> QED
      BY <2>2, <3>1 DEF Settings
  <2>4. CachedChannels' = CachedChannels /\ CachedChannels \subseteq OfAsics(A)
    BY <1>6 DEF CachedChannels
  <2>5. /\ refresh \subseteq { Settings(r) : r \in CachedChannels }
        /\ \A r \in CachedChannels : r[2] = LastChannel => Settings(r) \in refresh
    BY <1>2, <2>1 DEF AsicInv, SummaryOK
  <2> QED
    BY <1>1, <2>3, <2>4, <2>5 DEF SummaryOK
<1>15. SetIsVerified'
  BY <1>1, <1>2 DEF SetIsVerified
<1> QED
  BY <1>8, <1>9, <1>10, <1>12, <1>13, <1>14, <1>15 DEF AsicInv

\* All has been set, and the summary is made anew if it may have changed.
LEMMA SetEndsKeeps ==
  ASSUME AsicInv, SetEnds
  PROVE  AsicInv'
<1>1. /\ call.op = "set" /\ call.todo = {} /\ call' = Idle
      /\ returned' = [op |-> call.op, force |-> call.force, config |-> call.config, ok |-> TRUE]
      /\ UNCHANGED <<chip, bias, active, cache, biasCache, known, stale>>
  BY DEF SetEnds, Done, Returns, hardware
<1>2. call'.op = "idle" /\ ~BiasOp' /\ cache # None
  BY <1>1 DEF Idle, BiasOp, AsicInv, CallOK
<1>3. HardwareOK' /\ CacheOK' /\ CacheIsVerified'
  BY <1>1 DEF AsicInv, HardwareOK, CacheOK, CacheIsVerified
<1>4. CallOK' /\ GetOK' /\ SetOK'
  BY <1>1, <1>2 DEF CallOK, GetOK, SetOK
<1>5. PICK A \in SUBSET active : cache \in [OfAsics(A) -> Words]
  BY <1>2 DEF AsicInv, CacheOK
<1>6. \A r \in OfAsics(active) :
        /\ r \in DOMAIN cache /\ cache[r] = call.config[r]
        /\ call.force => chip[r] = call.config[r] /\ known[r] = call.config[r]
  BY <1>1 DEF AsicInv, SetOK, Visited
<1>7. DOMAIN cache = OfAsics(active)
  BY <1>5, <1>6 DEF OfAsics
<1>8. SetIsVerified'
  <2>1. \A r \in OfAsics(active) :
          known[r] = call.config[r] \/ (stale /\ ~call.force /\ known[r] = None)
    BY <1>2, <1>6 DEF AsicInv, CacheIsVerified
  <2> QED
    BY <1>1, <1>6, <2>1 DEF SetIsVerified, OfAsics
<1>9. SummaryOK'
  <2>1. CASE call.updated
    <3>1. refresh' = RefreshOfCache
      BY <2>1 DEF SetEnds
    <3>2. Global \notin Channels
      BY AsicAssumption DEF Global
    <3>3. CachedChannels = active \X Channels
      BY <1>7, <3>2 DEF CachedChannels, OfAsics
    <3>4. RefreshOfCache = { Settings(r) : r \in active \X Channels }
      <4>1. \A a \in active, c \in Channels :
              /\ <<a, c>> \in active \X Channels
              /\ Settings(<<a, c>>)
                   = <<TacRefresh(cache[<<a, Global>>]), TacRefresh(cache[<<a, c>>])>>
        BY DEF Settings
      <4>2. \A r \in active \X Channels : r[1] \in active /\ r[2] \in Channels /\ r = <<r[1], r[2]>>
        OBVIOUS
      <4>3. ASSUME NEW x \in RefreshOfCache PROVE \E r \in active \X Channels : x = Settings(r)
        <5>1. PICK a \in active, c \in Channels :
                x = <<TacRefresh(cache[<<a, Global>>]), TacRefresh(cache[<<a, c>>])>>
          BY DEF RefreshOfCache
        <5> QED
          BY <4>1, <5>1
      <4>4. ASSUME NEW r \in active \X Channels PROVE Settings(r) \in RefreshOfCache
        <5>1. /\ r[1] \in active /\ r[2] \in Channels
              /\ Settings(r)
                   = <<TacRefresh(cache[<<r[1], Global>>]), TacRefresh(cache[<<r[1], r[2]>>])>>
          BY <4>2 DEF Settings
        <5> QED
          BY <5>1 DEF RefreshOfCache
      <4> QED
        BY <4>3, <4>4
    <3>5. CachedChannels' = CachedChannels /\ \A r : Settings(r)' = Settings(r)
      BY <1>1 DEF CachedChannels, Settings
    <3> QED
      BY <3>1, <3>3, <3>4, <3>5 DEF SummaryOK
  <2>2. CASE ~call.updated
    <3>1. UNCHANGED <<refresh, settled>>
      BY <2>2 DEF SetEnds
    <3> QED
      BY <1>1, <2>2, <3>1 DEF AsicInv, SummaryOK, CachedChannels, Settings
  <2> QED
    BY <2>1, <2>2
<1> QED
  BY <1>3, <1>4, <1>8, <1>9 DEF AsicInv

-----------------------------------------------------------------------------
(* The theorems.                                                           *)

\* At the start nothing is known.
LEMMA AsicInvInit == Init => AsicInv
<1> SUFFICES ASSUME Init PROVE AsicInv
  OBVIOUS
<1>1. HardwareOK
  BY DEF Init, HardwareOK, Words
<1>2. CacheOK
  BY DEF Init, CacheOK
<1>3. CallOK
  BY DEF Init, CallOK, Idle, BiasOp
<1>4. CacheIsVerified /\ GetOK /\ SetOK /\ SummaryOK /\ SetIsVerified
  BY DEF Init, CacheIsVerified, GetOK, SetOK, SummaryOK, SetIsVerified, Idle
<1> QED
  BY <1>1, <1>2, <1>3, <1>4 DEF AsicInv

\* Every step keeps the invariant.
LEMMA AsicInvNext == AsicInv /\ [Next]_vars => AsicInv'
<1> SUFFICES ASSUME AsicInv, [Next]_vars PROVE AsicInv'
  OBVIOUS
<1>1. CASE \/ \E force \in BOOLEAN :
                \/ GetAsicsConfig(force)
                \/ \E config \in Configs : SetAsicsConfig(config, force)
                \/ \E config \in BiasConfigs : SetBias(config, force)
           \/ InitializeSystem
           \/ GetEnds /\ call.sets
  BY <1>1, CallsKeep
<1>2. CASE \/ NoEntry \/ ReadTimeout \/ BiasTimeout \/ BiasEnds \/ InitFails \/ InitEnds
           \/ GetEnds /\ ~call.sets
           \/ ReadFails /\ ~(call.tries + 1 < MaxTries)
  BY <1>2, EndsWhere
<1>3. CASE ReadFails /\ call.tries + 1 < MaxTries
  BY <1>3, ReadFailsKeeps
<1>4. CASE \/ WriteRegister \/ WriteIsBad \/ WriteDefault \/ DefaultIsBad
           \/ Adjust \/ AdjustIsBad
  BY <1>4, CommandKeeps
<1>5. CASE ReadRegister
  BY <1>5, ReadKeeps
<1>6. CASE SkipRegister
  BY <1>6, SkipKeeps
<1>7. CASE WriteIsGood
  BY <1>7, GoodKeeps
<1>8. CASE SetEnds
  BY <1>8, SetEndsKeeps
<1>9. CASE WriteBias
  BY <1>9, BiasKeeps
<1>10. CASE PowerOn \/ ResetAsics \/ VoidCaches
  BY <1>10, PowerKeeps, ResetKeeps, VoidKeeps
<1>11. CASE DefaultIsGood \/ AdjustIsGood
  BY <1>11, InitGood
<1>12. CASE DetectAsics
  BY <1>12, DetectKeeps
<1>13. CASE UNCHANGED vars
  <2>1. UNCHANGED <<chip, bias, active, cache, refresh, biasCache, call, returned, known,
                   settled, stale>>
    BY <1>13 DEF vars, hardware, caches, history
  <2>2. HardwareOK' /\ CacheOK' /\ CacheIsVerified' /\ SetIsVerified'
    BY <2>1 DEF AsicInv, HardwareOK, CacheOK, CacheIsVerified, SetIsVerified
  <2>3. CallOK'
    BY <2>1 DEF AsicInv, CallOK, BiasOp, Resetting
  <2>4. GetOK' /\ SetOK' /\ SummaryOK'
    BY <2>1 DEF AsicInv, GetOK, SetOK, SummaryOK, Visited, CachedChannels, Settings
  <2> QED
    BY <2>2, <2>3, <2>4 DEF AsicInv
<1> QED
  BY <1>1, <1>2, <1>3, <1>4, <1>5, <1>6, <1>7, <1>8, <1>9, <1>10, <1>11, <1>12, <1>13 DEF Next

\* So it holds in every state.
LEMMA AsicInvAlways == Spec => []AsicInv
<1> QED
  BY AsicInvInit, AsicInvNext, PTL DEF Spec

\* The caches hold whole ASICs that are active, and each entry is what a command has
\* last shown its register to hold, whatever failed and was tried again; but when an
\* exception has left initializeSystem between its first reset command and the
\* clearing of the caches, an entry of a register that has not answered since may be
\* from before the reset, until the cache is built anew.
THEOREM CacheIsRight == Spec => []CacheInv
<1>1. AsicInv => CacheInv
  <2> SUFFICES ASSUME AsicInv PROVE CacheInv
    OBVIOUS
  <2>1. cache # None =>
          DOMAIN cache \in { a \X (Channels \cup {Global}) : a \in SUBSET active }
    BY DEF AsicInv, CacheOK, OfAsics
  <2> QED
    BY <2>1 DEF AsicInv, HardwareOK, CacheOK, CallOK, CacheInv, TypeOK, Words
<1> QED
  BY <1>1, AsicInvAlways, PTL

\* When setAsicsConfig has returned without an exception, every register of every
\* active ASIC has been seen to hold what was to be set, and holds it when the call
\* was forced.  A call that was not may have passed over registers that have not
\* answered since a reset which an exception kept from clearing the cache.
THEOREM SetIsRight == Spec => []SetIsVerified
<1>1. AsicInv => SetIsVerified
  BY DEF AsicInv
<1> QED
  BY <1>1, AsicInvAlways, PTL

\* Between calls the summary that set_test_pulse uses is one of the cache's settings,
\* as long as no exception has left it behind.
THEOREM RefreshIsRight == Spec => []RefreshIsCurrent
<1>1. AsicInv => RefreshIsCurrent
  BY DEF AsicInv, SummaryOK, RefreshIsCurrent, CachedChannels, Settings, Idle
<1> QED
  BY <1>1, AsicInvAlways, PTL

===============================================================================
