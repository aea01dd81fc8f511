-------------------------- MODULE AsicConfiguration --------------------------
(***************************************************************************)
(* daqd.Connection's knowledge of the ASICs and of the bias voltages: the  *)
(* registers it writes through commands that may fail, the caches of what  *)
(* it has written, and initializeSystem, which makes the caches void.      *)
(*                                                                         *)
(* A register is <<asic, channel>>, or <<asic, Global>>; its value stands  *)
(* for all the fields, of which TacRefresh is the one in the summary that  *)
(* set_test_pulse looks at.  A command is one step: sendCommand's retries  *)
(* repeat the same command (CommandPath has the way of each).              *)
(***************************************************************************)
EXTENDS Integers, FiniteSetsExt

CONSTANTS
  Asics, Channels,  \* the numbers of the ASICs that there may be, and of channels
  MaxChips,         \* MAX_CHIPS: the ASICs of one FEB/D have numbers in a row
  Values, Garbage,  \* of registers, and any other, which a bad command may leave there
  TacRefresh(_),    \* c_tac_refresh_t or c_tac_max_age in a value
  Default,          \* AsicGlobalConfig() and AsicChannelConfig()
  Adjusted,         \* a global configuration with the DAC adjusted
  Configs,          \* what may be passed to setAsicsConfig
  BiasChannels,     \* of the bias voltages, <<FEB/D, channel>>
  BiasConfigs,      \* what may be passed to set_hvdac_config
  MaxTries,         \* __doAsicCommand's maxTries, 10 or 5
  MaxInits,         \* initializeSystem's maxTries, 5
  MaxFaults,        \* bound: how many commands go wrong
  None

Global == -1
Registers == Asics \X (Channels \cup {Global})

ASSUME AsicAssumption ==
  /\ Asics \subseteq Nat /\ Channels \subseteq Nat
  /\ \E last \in Channels : \A c \in Channels : c <= last
  /\ BiasChannels \subseteq Nat \X Nat
  /\ Garbage \notin Values /\ None \notin Values /\ 0 \in Values
  /\ \A S \in SUBSET Registers : None \notin [S -> Values \cup {Garbage}]
  /\ Default \in Values /\ Adjusted \subseteq Values
  /\ Configs \subseteq [Registers -> Values]
  /\ BiasConfigs \subseteq [BiasChannels -> Values]
  /\ {MaxChips, MaxTries, MaxInits} \subseteq Nat \ {0}
  /\ MaxFaults \in Nat

VARIABLES
  chip,     \* the registers in the ASICs
  bias,     \* the DACs of the bias voltages
  active,   \* __activeAsics
  cache,    \* __asicConfigCache, of some of the registers, or None
  refresh,  \* __asicConfigCache_TAC_Refresh, or None
  biasCache,\* __hvdac_config_cache
  call,     \* the call that is being made
  returned, \* or the last one, and whether it ended without an exception
  known,    \* history: what a command has last shown a register to hold
  settled,  \* history: no setAsicsConfig was left by an exception since refresh
            \* was built
  stale,    \* history: ASICs have been reset since cache was begun
  faults    \* how many commands have gone wrong

hardware == <<chip, bias>>
caches == <<active, cache, refresh, biasCache>>
history == <<known, settled, stale>>
vars == <<hardware, caches, call, returned, history, faults>>

LastChannel == Max(Channels)

\* The order of sorted(): one ASIC, or FEB/D, after the other, and its channels in turn.
Before(r, s) == r[1] < s[1] \/ (r[1] = s[1] /\ r[2] < s[2])

First(S) == CHOOSE r \in S : \A s \in S \ {r} : Before(r, s)

OfAsics(asics) == asics \X (Channels \cup {Global})

OfAsic(r) == OfAsics({r[1]})

OfBoard(r) == OfAsics({ a \in Asics : a \div MaxChips = r[1] \div MaxChips })

\* A call: what it is to write, the registers it has yet to go to, where it is
\* with the first of these, and what else it remembers.  A call of getAsicsConfig
\* is setAsicsConfig's if sets.
Idle == [op |-> "idle"]

Call(op, force, config, todo) ==
  [ op |-> op, force |-> force, config |-> config, todo |-> todo, phase |-> "write",
    tries |-> 0, checks |-> 0, updated |-> FALSE, inits |-> MaxInits, ok |-> {}, sets |-> FALSE ]

Proceed(c) == [c EXCEPT !.todo = @ \ {First(@)}, !.phase = "write", !.tries = 0, !.checks = 0]

Returns(ok) ==
  /\ call' = Idle
  /\ returned' = [op |-> call.op, force |-> call.force, config |-> call.config, ok |-> ok]

Raises == Returns(FALSE)

At(op) == call.op = op /\ call.todo # {}
Done(op) == call.op = op /\ call.todo = {}
R == First(call.todo)

Fault == faults < MaxFaults /\ faults' = faults + 1

-----------------------------------------------------------------------------
(* __doAsicCommand                                                         *)

\* The status of a write's reply is an error or not, or no reply comes.
Answers == {"good", "error", "none"}

\* What a command may leave in register r, written with v.
Left(answer, r, v) ==
  IF answer = "good" THEN {v, Garbage} ELSE {chip[r], v, Garbage}

\* A ConfigurationError: another try, or the exception is raised again.
Again(Fails) ==
  IF call.tries + 1 < MaxTries
  THEN /\ call' = [call EXCEPT !.tries = @ + 1, !.phase = "write", !.checks = 0]
       /\ UNCHANGED <<returned, settled>>
  ELSE Fails

\* wrGlobalCfg and wrChCfg write, and then read back with tries of their own.
Write(v, Fails, Aborts) ==
  /\ call.phase = "write"
  /\ \E answer \in Answers, left \in Values \cup {Garbage} :
       /\ left \in Left(answer, R, v)
       /\ chip' = [chip EXCEPT ![R] = left]
       /\ IF answer = "good" /\ left = v THEN UNCHANGED faults ELSE Fault
       /\ CASE answer = "good"  -> /\ call' = [call EXCEPT !.phase = "check"]
                                   /\ UNCHANGED <<returned, settled>>
            [] answer = "error" -> Again(Fails)
            [] answer = "none"  -> Aborts
  /\ UNCHANGED <<bias, caches, known, stale>>

CheckFails(v, Fails, Aborts) ==
  /\ call.phase = "check"
  /\ \/ chip[R] # v /\ Again(Fails) /\ UNCHANGED faults
     \/ /\ Fault
        /\ IF call.checks + 1 < MaxTries
           THEN call' = [call EXCEPT !.checks = @ + 1] /\ UNCHANGED <<returned, settled>>
           ELSE Again(Fails)
     \/ Fault /\ Aborts
  /\ UNCHANGED <<hardware, caches, known, stale>>

\* The value that was read back is right.
Checked(v) == call.phase = "check" /\ chip[R] = v /\ known' = [known EXCEPT ![R] = v]

-----------------------------------------------------------------------------
(* getAsicsConfig                                                          *)

EmptyCache(c) ==
  /\ cache' = <<>> /\ refresh' = {} /\ call' = c /\ settled' = TRUE /\ stale' = FALSE
  /\ UNCHANGED <<hardware, active, biasCache, known>>

GetAsicsConfig(force) ==
  /\ call = Idle
  /\ IF force \/ cache = None
     THEN EmptyCache(Call("get", force, None, OfAsics(active))) /\ returned' = None
     ELSE /\ returned' = [op |-> "get", force |-> force, config |-> None, ok |-> TRUE]
          /\ UNCHANGED <<hardware, caches, call, history>>

\* An ASIC's entry is made when all its registers have been read, with the
\* refresh settings of the last of them.
Stored(r) ==
  [s \in OfAsic(r) \cup DOMAIN cache |-> IF s \in OfAsic(r) THEN chip[s] ELSE cache[s]]

Summary(r) == {<<TacRefresh(chip[<<r[1], Global>>]), TacRefresh(chip[r])>>}

ReadRegister ==
  /\ At("get")
  /\ known' = [known EXCEPT ![R] = chip[R]]
  /\ IF R[2] = LastChannel
     THEN cache' = Stored(R) /\ refresh' = refresh \cup Summary(R)
     ELSE UNCHANGED <<cache, refresh>>
  /\ call' = Proceed(call)
  /\ UNCHANGED <<hardware, active, biasCache, returned, settled, stale>>

\* The exception leaves the cache with the ASICs that have been read.
ReadFails ==
  /\ At("get") /\ Fault
  /\ IF call.tries + 1 < MaxTries
     THEN call' = [call EXCEPT !.tries = @ + 1] /\ UNCHANGED returned
     ELSE Raises
  /\ UNCHANGED <<hardware, caches, history>>

ReadTimeout == At("get") /\ Fault /\ Raises /\ UNCHANGED <<hardware, caches, history>>

\* setAsicsConfig may be waiting.
GetEnds ==
  /\ Done("get")
  /\ IF call.sets
     THEN call' = Call("set", call.force, call.config, OfAsics(active)) /\ UNCHANGED returned
     ELSE Returns(TRUE)
  /\ UNCHANGED <<hardware, caches, history>>

-----------------------------------------------------------------------------
(* setAsicsConfig                                                          *)

SetAsicsConfig(config, force) ==
  /\ call = Idle
  /\ IF cache = None
     THEN EmptyCache([Call("get", force, config, OfAsics(active)) EXCEPT !.sets = TRUE])
     ELSE /\ call' = Call("set", force, config, OfAsics(active))
          /\ UNCHANGED <<hardware, caches, history>>
  /\ returned' = None

\* A slip: forced or not, what the cache has is not written.
MustWriteCached(r) == call.config[r] # cache[r]

MustWrite(r) == call.force \/ call.config[r] # cache[r]

LeaveSet == Raises /\ settled' = FALSE

\* There may be no entry for the ASIC: a KeyError.
NoEntry ==
  /\ At("set") /\ R \notin DOMAIN cache
  /\ LeaveSet
  /\ UNCHANGED <<hardware, caches, known, stale>>

SkipRegister ==
  /\ At("set") /\ R \in DOMAIN cache /\ ~MustWrite(R)
  /\ call' = Proceed(call)
  /\ UNCHANGED <<hardware, caches, returned, history>>

ToWrite == At("set") /\ R \in DOMAIN cache /\ MustWrite(R)

WriteRegister == ToWrite /\ Write(call.config[R], LeaveSet, LeaveSet)

WriteIsBad == ToWrite /\ CheckFails(call.config[R], LeaveSet, LeaveSet)

WriteIsGood ==
  /\ ToWrite /\ Checked(call.config[R])
  /\ cache' = [cache EXCEPT ![R] = call.config[R]]
  /\ LET changed == call.force \/ TacRefresh(cache[R]) # TacRefresh(call.config[R])
     IN  call' = [Proceed(call) EXCEPT !.updated = @ \/ changed]
  /\ UNCHANGED <<hardware, active, refresh, biasCache, returned, settled, stale>>

\* A slip: one pair for an ASIC.
RefreshOfCacheLast ==
  { <<TacRefresh(cache[<<a, Global>>]), TacRefresh(cache[<<a, Min(Channels)>>])>> : a \in active }

RefreshOfCache ==
  { <<TacRefresh(cache[<<a, Global>>]), TacRefresh(cache[<<a, c>>])>> : a \in active, c \in Channels }

SetEnds ==
  /\ Done("set")
  /\ Returns(TRUE)
  /\ IF call.updated THEN refresh' = RefreshOfCache /\ settled' = TRUE
                     ELSE UNCHANGED <<refresh, settled>>
  /\ UNCHANGED <<hardware, active, cache, biasCache, known, stale>>

-----------------------------------------------------------------------------
(* set_hvdac_config.  There is no readback.                                *)

SetBias(config, force) ==
  /\ call = Idle
  /\ call' = Call("bias", force, config, BiasChannels) /\ returned' = None
  /\ UNCHANGED <<hardware, caches, history>>

BiasOp == call.op = "bias" \/ (call.op = "init" /\ call.phase = "bias")

MustWriteBias(k) ==
  call.force \/ ~(k \in DOMAIN biasCache /\ biasCache[k] = call.config[k])

BiasCached(k) ==
  [x \in {k} \cup DOMAIN biasCache |-> IF x = k THEN call.config[k] ELSE biasCache[x]]

WriteBias ==
  /\ BiasOp /\ call.todo # {}
  /\ IF MustWriteBias(R)
     THEN bias' = [bias EXCEPT ![R] = call.config[R]] /\ biasCache' = BiasCached(R)
     ELSE UNCHANGED <<bias, biasCache>>
  /\ call' = [call EXCEPT !.todo = @ \ {R}]
  /\ UNCHANGED <<chip, active, cache, refresh, returned, history>>

\* No reply, whether or not the DAC was written.
BiasTimeout ==
  /\ BiasOp /\ call.todo # {} /\ MustWriteBias(R) /\ Fault
  /\ \E v \in {bias[R], call.config[R]} : bias' = [bias EXCEPT ![R] = v]
  /\ Raises
  /\ UNCHANGED <<chip, caches, history>>

BiasEnds ==
  /\ Done("bias") /\ Returns(TRUE)
  /\ UNCHANGED <<hardware, caches, history>>

-----------------------------------------------------------------------------
(* initializeSystem                                                        *)

InitCall(inits) ==
  [Call("init", TRUE, [k \in BiasChannels |-> 0], BiasChannels)
     EXCEPT !.phase = "bias", !.inits = inits]

InitializeSystem ==
  /\ call = Idle
  /\ call' = InitCall(MaxInits) /\ returned' = None
  /\ UNCHANGED <<hardware, caches, history>>

\* A slip: what is known of the ASICs is kept.
ForgetNothing == UNCHANGED <<cache, refresh>>

Forget == cache' = None /\ refresh' = None

Resetting == call.op = "init" /\ call.phase = "reset"

\* Every FEB/D's ASICs have power, and are to be reset.
PowerOn ==
  /\ call.op = "init" /\ call.phase = "bias" /\ call.todo = {}
  /\ call' = [call EXCEPT !.phase = "reset", !.todo = OfAsics(Asics)]
  /\ UNCHANGED <<hardware, caches, returned, history>>

\* A command resets all ASICs of a FEB/D, the caches being what they were.  (More
\* such commands follow, to ASICs that have been reset.)
ResetAsics ==
  /\ Resetting /\ call.todo # {}
  /\ chip' = [r \in Registers |-> IF r \in OfBoard(R) THEN Garbage ELSE chip[r]]
  /\ known' = [r \in Registers |-> IF r \in OfBoard(R) THEN None ELSE known[r]]
  /\ stale' = TRUE
  /\ call' = [call EXCEPT !.todo = @ \ OfBoard(R)]
  /\ UNCHANGED <<bias, caches, returned, settled>>

\* When none of them has failed, what was known of the ASICs is forgotten.
VoidCaches ==
  /\ Resetting /\ call.todo = {}
  /\ Forget /\ stale' = FALSE
  /\ call' = [call EXCEPT !.phase = "write", !.config = [r \in Registers |-> Default],
                          !.todo = OfAsics(Asics), !.ok = Asics]
  /\ UNCHANGED <<hardware, active, biasCache, returned, known, settled>>

\* Not the ASIC's fault: the exception goes to the caller.
LeaveInit == Raises /\ UNCHANGED settled

\* An ASIC that does not take its configuration is not there.
NotThere ==
  /\ call' = [ call EXCEPT !.ok = @ \ {R[1]}, !.phase = "write", !.tries = 0, !.checks = 0,
                           !.todo = @ \ OfAsic(R) ]
  /\ UNCHANGED <<returned, settled>>

Initializing(op) == At(op) /\ call.phase \in {"write", "check"}

WriteDefault == Initializing("init") /\ Write(Default, NotThere, LeaveInit)

DefaultIsBad == Initializing("init") /\ CheckFails(Default, NotThere, LeaveInit)

DefaultIsGood ==
  /\ Initializing("init") /\ Checked(Default)
  /\ call' = Proceed(call)
  /\ UNCHANGED <<hardware, caches, returned, settled, stale>>

\* The receivers' state agrees with the commands' success, or not: another try,
\* and after the last one such an ASIC counts as not there.  An ASIC's bias
\* current is then adjusted, with a DAC value that is found by trying.
DetectAsics ==
  /\ Done("init") /\ call.phase = "write"
  /\ \E received \in SUBSET Asics, inconsistent \in BOOLEAN :
       /\ received # call.ok => inconsistent
       /\ active' = received \cap call.ok
       /\ \/ /\ inconsistent /\ call.inits > 1
             /\ call' = InitCall(call.inits - 1)
          \/ /\ ~(inconsistent /\ call.inits > 1)
             /\ \E dac \in [Asics -> Adjusted] :
                  call' = Call("adjust", TRUE, [r \in Registers |-> dac[r[1]]],
                               (received \cap call.ok) \X {Global})
  /\ UNCHANGED <<hardware, cache, refresh, biasCache, returned, history>>

Adjust == At("adjust") /\ Write(call.config[R], LeaveInit, LeaveInit)

AdjustIsBad == At("adjust") /\ CheckFails(call.config[R], LeaveInit, LeaveInit)

AdjustIsGood ==
  /\ At("adjust") /\ Checked(call.config[R])
  /\ call' = Proceed(call)
  /\ UNCHANGED <<hardware, caches, returned, settled, stale>>

\* The other registers' commands and those of a reset, checks of the FEB/Ds and
\* synchronisation, an e-fuse or a status that cannot be read: exceptions at any
\* time.  Between the first reset and the end of the last one this leaves the caches
\* from before them.
InitFails ==
  /\ call.op \in {"init", "adjust"} /\ Fault
  /\ Raises
  /\ UNCHANGED <<hardware, caches, history>>

InitEnds == Done("adjust") /\ Returns(TRUE) /\ UNCHANGED <<hardware, caches, history>>

-----------------------------------------------------------------------------

Init ==
  /\ chip = [r \in Registers |-> Garbage] /\ known = [r \in Registers |-> None]
  /\ bias = [k \in BiasChannels |-> Garbage]
  /\ active = {} /\ cache = None /\ refresh = None /\ biasCache = <<>>
  /\ call = Idle /\ settled = TRUE /\ stale = FALSE /\ faults = 0
  /\ returned = None

Next ==
  \/ /\ \/ \E force \in BOOLEAN :
             \/ GetAsicsConfig(force)
             \/ \E config \in Configs : SetAsicsConfig(config, force)
             \/ \E config \in BiasConfigs : SetBias(config, force)
        \/ ReadRegister \/ GetEnds
        \/ NoEntry \/ SkipRegister \/ WriteIsGood \/ SetEnds
        \/ WriteBias \/ BiasEnds
        \/ InitializeSystem \/ PowerOn \/ ResetAsics \/ VoidCaches
        \/ DefaultIsGood \/ DetectAsics \/ AdjustIsGood \/ InitEnds
     /\ UNCHANGED faults
  \/ ReadFails \/ ReadTimeout \/ WriteRegister \/ WriteIsBad \/ BiasTimeout
  \/ WriteDefault \/ DefaultIsBad \/ Adjust \/ AdjustIsBad
  \/ InitFails

Spec == Init /\ [][Next]_vars

-----------------------------------------------------------------------------

TypeOK ==
  /\ chip \in [Registers -> Values \cup {Garbage}]
  /\ bias \in [BiasChannels -> Values \cup {Garbage}]
  /\ active \subseteq Asics
  /\ cache # None => DOMAIN cache \in { a \X (Channels \cup {Global}) : a \in SUBSET active }
  /\ DOMAIN biasCache \subseteq BiasChannels
  /\ call # Idle => call.tries < MaxTries /\ call.checks < MaxTries

\* What __asicConfigCache may be believed of, whatever failed before, at whatever
\* command, and was tried again or given up: an entry of it is what the register's
\* last answer said, the value read or the one written and read back.  There is one
\* exception: when initializeSystem is left by an exception after a reset and before
\* the caches are made void, the entries of registers that have not answered since
\* the reset are from before it, until the cache is built anew.
CacheIsVerified ==
  cache # None =>
    \A r \in DOMAIN cache : cache[r] = known[r] \/ (stale /\ known[r] = None)

\* The caches hold whole ASICs that are there, and what may be believed of them.
CacheInv == TypeOK /\ CacheIsVerified

\* setAsicsConfig does not return normally before every register of every active
\* ASIC has been seen to hold what is to be set, but for the registers that have not
\* answered since a reset that left the cache from before it.  When forced, there
\* are none of these: each register has been seen to hold its value, and does.
SetIsVerified ==
  returned # None /\ returned.op = "set" /\ returned.ok =>
    \A r \in OfAsics(active) :
      /\ \/ known[r] = returned.config[r]
         \/ stale /\ ~returned.force /\ known[r] = None
      /\ returned.force => chip[r] = returned.config[r]

\* What set_test_pulse compares its interval with: as long as no exception left
\* it behind, the summary has only settings that the cache has of ASICs, and for
\* each ASIC at least its last channel's.
RefreshIsCurrent ==
  call = Idle /\ cache # None /\ settled =>
    LET Settings(r) == <<TacRefresh(cache[<<r[1], Global>>]), TacRefresh(cache[r])>>
        channels == { r \in DOMAIN cache : r[2] # Global }
    IN  /\ refresh \subseteq { Settings(r) : r \in channels }
        /\ \A r \in channels : r[2] = LastChannel => Settings(r) \in refresh

=============================================================================
