------------------------- MODULE CommandPath_proofs -------------------------
(***************************************************************************)
(* Proofs about the way of a command to a front end and of its reply back, *)
(* for any number of slots, serial numbers, tries, commands and clients.   *)
(***************************************************************************)
EXTENDS CommandPath, SequenceTheorems, TLAPS

\* What is in the two rings, the oldest first.
TxCount  == (txWrPointer - txRdPointer) % (2 * Slots)
RxCount  == (rxWrPointer - rxRdPointer) % (2 * Slots)
SlotOf(p) == p % Slots
TxAt(i)  == txSlot[SlotOf(txRdPointer + i)]
RxAt(i)  == rxSlot[SlotOf(rxRdPointer + i)]

\* The latest attempt, and an attempt's serial number.
Last  == Len(attempts)
SN(a) == attempts[a].sn

\* The attempts of a call follow each other, and so do the calls.
History ==
  /\ Last <= command * MaxTries
  /\ client \in {"try", "length"} => command > 0 /\ Last <= (command - 1) * MaxTries + nTries
  /\ client = "try" => nTries < MaxTries
  /\ \A i \in 1 .. Last : attempts[i].command <= command
  /\ \A i, k \in 1 .. Last : i <= k => attempts[i].command <= attempts[k].command
  /\ client \in {"length", "body"} => Last > 0 /\ attempts[Last].command = command
  /\ result <= Last

\* A command goes by the ring or by the socket.
Medium ==
  /\ medium = "card" => packets = <<>> /\ replyQueue = <<>>
  /\ medium = "udp"  => TxCount = 0 /\ RxCount = 0 /\ server \notin {"clear", "publish"}

\* The daemon serves an attempt, and the next one is the latest.
Serving ==
  /\ serving.attempt <= Last
  /\ server # "idle" => serving # NoRequest
  /\ request # NoRequest => request.attempt = Last /\ Last > 0

\* Attempts take effect in their order: those that have, ...
EffectsInOrder ==
  /\ \A i \in 1 .. Len(effects) : effects[i] <= serving.attempt
  /\ \A i, k \in 1 .. Len(effects) : i <= k => effects[i] <= effects[k]

\* ... those on their way in the ring, ...
RingInOrder ==
  \A i \in 0 .. (TxCount - 1) :
    /\ TxAt(i) \in 1 .. serving.attempt
    /\ \A k \in 0 .. (TxCount - 1) : i <= k => TxAt(i) <= TxAt(k)
    /\ \A k \in 1 .. Len(effects) : effects[k] <= TxAt(i)

\* ... or in the socket, and then the one the daemon serves.
PacketsInOrder ==
  \A i \in 1 .. Len(packets) :
    /\ packets[i] <= serving.attempt
    /\ \A k \in 1 .. Len(packets) : i <= k => packets[i] <= packets[k]
    /\ \A k \in 1 .. Len(effects) : effects[k] <= packets[i]

Order == Serving /\ EffectsInOrder /\ RingInOrder /\ PacketsInOrder

\* The rings do not overflow, also when a slot has been written and not published.
Rings ==
  /\ TxCount <= Slots /\ RxCount <= Slots
  /\ server = "publish" => TxCount < Slots /\ txSlot[SlotOf(txWrPointer)] = serving.attempt

\* A reply is to an attempt that has taken effect.
HasEffect(a) == \E i \in 1 .. Len(effects) : effects[i] = a
Genuine(r)   == r.kind # "short" /\ HasEffect(r.attempt)
Back ==
  /\ \A r \in replies : Genuine(r)
  /\ \A i \in 0 .. (RxCount - 1) : Genuine(RxAt(i))
  /\ \A i \in 1 .. Len(replyQueue) : Genuine(replyQueue[i])
  /\ \A i \in 1 .. Len(toClient) : toClient[i][1] = "bytes" => HasEffect(toClient[i][2])

\* The daemon serves the client that is there now.
Mine == server # "idle" /\ serving.connection = connection

\* The latest attempt is not answered.
Pending == request # NoRequest \/ Mine

Answers == { <<Length("zero")>>, <<Length("huge")>>, <<Length("full"), <<"bytes", Last>> >> }

\* Whose turn it is, and what is under way to the client.
Dialogue ==
  /\ client \in {"idle", "try", "length", "body"}
  /\ serving.connection <= connection
  /\ request # NoRequest => request.connection = connection /\ ~Mine
  /\ Pending => client = "length" /\ toClient = <<>>
  /\ Mine => serving.attempt = Last
  /\ client \in {"idle", "try"} => toClient = <<>>
  /\ client = "length" /\ ~Pending => toClient \in Answers
  /\ client = "body" => toClient \in { <<>>, << <<"bytes", Last>> >> }

\* No reply that the daemon may find when it serves the latest attempt will be
\* mistaken for that attempt's: in the card's ring, ...
RingClear ==
  Mine /\ server \in {"write", "publish", "poll"} =>
    \A i \in 0 .. (RxCount - 1) : SN(RxAt(i).attempt) = SN(Last) => RxAt(i).attempt = Last

\* ... and in the queue, where what comes after the attempt's own reply will not be
\* mistaken for the next attempt's either.
QueueClear ==
  IF Pending
  THEN \A i \in 1 .. Len(replyQueue) :
         /\ SN(replyQueue[i].attempt) = SN(Last) => replyQueue[i].attempt = Last
         /\ \A k \in 1 .. (i - 1) :
              replyQueue[k].attempt = Last /\ replyQueue[k].kind = "good" =>
                SN(replyQueue[i].attempt) # lastSN
  ELSE \A i \in 1 .. Len(replyQueue) : SN(replyQueue[i].attempt) # lastSN

PathIInv ==
  /\ TypeOK /\ History /\ Medium /\ Order /\ Rings /\ Back /\ Dialogue
  /\ RingClear /\ QueueClear

-----------------------------------------------------------------------------
(* The rings.                                                              *)

\* The pointers of a ring with c entries.
LEMMA RingPointers ==
  ASSUME NEW w \in Pointers, NEW r \in Pointers, NEW c, c = (w - r) % (2 * Slots)
  PROVE  /\ c \in 0 .. (2 * Slots - 1) /\ Advance(w) \in Pointers /\ SlotOf(w) \in 0 .. (Slots - 1)
         /\ RingEmpty(w, r) <=> c = 0
         /\ RingFull(w, r) <=> c = Slots
         /\ c < Slots => (Advance(w) - r) % (2 * Slots) = c + 1
         /\ c > 0 => (w - Advance(r)) % (2 * Slots) = c - 1
BY CommandAssumption, SMT DEF Pointers, Advance, SlotOf, RingEmpty, RingFull

\* The entries of a ring.
LEMMA RingEntries ==
  ASSUME NEW w \in Pointers, NEW r \in Pointers, NEW c, c = (w - r) % (2 * Slots)
  PROVE  /\ SlotOf(r + c) = SlotOf(w) /\ SlotOf(r + 0) = SlotOf(r)
         /\ \A i \in 0 .. (c - 1) : SlotOf(r + i) \in 0 .. (Slots - 1)
         /\ c < Slots => \A i \in 0 .. (c - 1) : SlotOf(r + i) # SlotOf(w)
         /\ c > 0 => \A i \in 0 .. (c - 1) : SlotOf(Advance(r) + i) = SlotOf(r + (i + 1))
BY CommandAssumption, SMT DEF Pointers, Advance, SlotOf

\* There are as many attempts as calls and tries allow.
LEMMA AttemptsFit ==
  ASSUME NEW c \in 1 .. MaxCommands, NEW n \in Nat, n < MaxTries,
         NEW a \in Nat, a <= (c - 1) * MaxTries + n
  PROVE  /\ a + 1 \in Attempts
         /\ a + 1 <= (c - 1) * MaxTries + (n + 1)
         /\ a + 1 <= c * MaxTries
<1>1. /\ c * MaxTries \in Int /\ (c - 1) * MaxTries \in Int
      /\ c * MaxTries = (c - 1) * MaxTries + MaxTries
  BY CommandAssumption, SMT
<1>2. c * MaxTries <= MaxCommands * MaxTries /\ MaxCommands * MaxTries \in Int
  BY CommandAssumption, SMT
<1> QED
  BY <1>1, <1>2, CommandAssumption, SMT DEF Attempts, MaxAttempts

-----------------------------------------------------------------------------
(* Types, and the history of the attempts.                                 *)

\* What is in a sequence.
LEMMA ElementsOf ==
  ASSUME NEW S, NEW s \in Seq(S)
  PROVE  Len(s) \in Nat /\ \A i \in 1 .. Len(s) : s[i] \in S
OBVIOUS

\* The numbers the invariant speaks of.
LEMMA Basics ==
  ASSUME PathIInv
  PROVE  /\ Slots \in Nat \ {0} /\ MaxTries \in Nat \ {0} /\ MaxCommands \in Nat
         /\ TxCount \in 0 .. Slots /\ RxCount \in 0 .. Slots
         /\ Last \in Nat /\ connection \in Nat
         /\ serving.attempt \in Nat /\ serving.connection \in Nat
         /\ request.attempt \in Nat /\ request.connection \in Nat
         /\ \A i \in 1 .. Last : attempts[i].command \in Commands /\ SN(i) \in 0 .. (SerialNumbers - 1)
<1>1. /\ TxCount \in 0 .. Slots /\ RxCount \in 0 .. Slots
  <2>1. TxCount \in 0 .. (2 * Slots - 1) /\ RxCount \in 0 .. (2 * Slots - 1)
    BY RingPointers DEF PathIInv, TypeOK, TxCount, RxCount
  <2>2. TxCount <= Slots /\ RxCount <= Slots
    BY DEF PathIInv, Rings
  <2> QED
    BY <2>1, <2>2, CommandAssumption
<1>2. serving \in Request \cup {NoRequest} /\ request \in Request \cup {NoRequest}
  BY DEF PathIInv, TypeOK
<1>3. \A r \in Request \cup {NoRequest} : r.attempt \in Nat /\ r.connection \in Nat
  BY DEF Request, NoRequest, Attempts, None
<1>4. attempts \in Seq([command : Commands, sn : 0 .. (SerialNumbers - 1)])
  BY DEF PathIInv, TypeOK
<1>5. Last \in Nat /\ \A i \in 1 .. Last : attempts[i] \in [command : Commands, sn : 0 .. (SerialNumbers - 1)]
  BY <1>4, ElementsOf, Zenon DEF Last
<1>6. connection \in Nat
  BY CommandAssumption DEF PathIInv, TypeOK
<1>7. \A i \in 1 .. Last : attempts[i].command \in Commands /\ attempts[i].sn \in 0 .. (SerialNumbers - 1)
  BY <1>5
<1> QED
  BY <1>1, <1>2, <1>3, <1>5, <1>6, <1>7, CommandAssumption DEF SN

\* What is on its way there and back.
LEMMA Contents ==
  ASSUME PathIInv
  PROVE  /\ Len(effects) \in Nat /\ Len(packets) \in Nat /\ Len(replyQueue) \in Nat /\ Len(toClient) \in Nat
         /\ \A i \in 1 .. Len(effects) : effects[i] \in Attempts
         /\ \A i \in 1 .. Len(packets) : packets[i] \in Attempts
         /\ \A i \in 1 .. Len(replyQueue) : replyQueue[i] \in Replies
         /\ Attempts \subseteq Nat \ {0}
         /\ \A r \in Replies : r.attempt \in Attempts /\ r.kind \in Kinds
<1>1. effects \in Seq(Attempts) /\ packets \in Seq(Attempts) /\ replyQueue \in Seq(Replies)
      /\ toClient \in Seq({"zero", "short", "full", "huge", "bytes"} \X (Attempts \cup {None}))
  BY DEF PathIInv, TypeOK
<1>2. Attempts \subseteq Nat \ {0} /\ \A r \in Replies : r.attempt \in Attempts /\ r.kind \in Kinds
  BY DEF Attempts, Replies
<1> QED
  BY <1>1, <1>2, ElementsOf, Zenon

\* A reply that is under way, or that the daemon has found, is one.
LEMMA RepliesFound ==
  ASSUME PathIInv
  PROVE  /\ RxCount > 0 => RxAt(0) \in Replies /\ rxSlot[rxRdPointer % Slots] = RxAt(0)
         /\ \A i \in 0 .. (RxCount - 1) : RxAt(i) \in Replies
<1>1. \A i \in 0 .. (RxCount - 1) : rxSlot[SlotOf(rxRdPointer + i)] \in Replies \cup {NoReply}
  BY RingEntries DEF PathIInv, TypeOK, RxCount
<1>2. \A i \in 0 .. (RxCount - 1) : RxAt(i) # NoReply
  <2>1. \A i \in 0 .. (RxCount - 1) : HasEffect(RxAt(i).attempt)
    BY DEF PathIInv, Back, Genuine
  <2>2. \A i \in 1 .. Len(effects) : effects[i] # None
    <3>1. effects \in Seq(Attempts) /\ None \notin Attempts
      BY DEF PathIInv, TypeOK, Attempts, None
    <3> QED
      BY <3>1
  <2> QED
    BY <2>1, <2>2 DEF HasEffect, NoReply
<1>3. RxCount > 0 => 0 \in 0 .. (RxCount - 1)
  BY Basics
<1>4. rxSlot[rxRdPointer % Slots] = RxAt(0)
  BY RingEntries DEF PathIInv, TypeOK, RxAt, RxCount, SlotOf
<1> QED
  BY <1>1, <1>2, <1>3, <1>4 DEF RxAt

\* The client's steps keep the types and the history.
LEMMA ClientTypes ==
  ASSUME PathIInv, CallSendCommand \/ Reconnect \/ ClientStep
  PROVE  TypeOK' /\ History'
<1> USE CommandAssumption
<1>0. /\ TypeOK /\ History /\ Last \in Nat /\ Len(attempts) = Last /\ Dialogue
      /\ UNCHANGED <<serverVars, txVars, rxVars, fieldVars>>
  BY Basics DEF PathIInv, CallSendCommand, Reconnect, ClientStep, Try, ReadLength, ReadBody, Last
<1>h. /\ command \in Nat /\ \A i \in 1 .. Last : attempts[i].command \in Int
      /\ \A i \in 1 .. Last : attempts[i].command <= command
      /\ \A i, k \in 1 .. Last : i <= k => attempts[i].command <= attempts[k].command
      /\ result \in Nat /\ result <= Last
  <2>1. \A i \in 1 .. Last : attempts[i].command \in Int
    BY Basics DEF Commands
  <2>2. command \in Nat /\ result \in Nat
    BY <1>0 DEF TypeOK, Attempts, None
  <2> QED
    BY <1>0, <2>1, <2>2 DEF History
<1>1. CASE CallSendCommand
  <2>1. command' = command + 1 /\ command' \in 1 .. MaxCommands
    BY <1>0, <1>1, SMT DEF CallSendCommand, TypeOK
  <2>2. TypeOK'
    BY <1>0, <1>1, <2>1 DEF CallSendCommand, TypeOK, socketVars, serverVars, txVars, rxVars, fieldVars
  <2>3. /\ Last <= command * MaxTries /\ command \in Nat
        /\ nTries' = 0 /\ client' = "try" /\ UNCHANGED <<attempts, result>>
    BY <1>0, <1>1 DEF CallSendCommand, History, TypeOK
  <2>4. /\ Last <= (command' - 1) * MaxTries + nTries' /\ Last <= command' * MaxTries
    <3>1. Last <= ((command + 1) - 1) * MaxTries + 0 /\ Last <= (command + 1) * MaxTries
      BY <1>0, <2>3, SMT
    <3> QED
      BY <2>1, <2>3, <3>1
  <2>5. \A i \in 1 .. Last : attempts[i].command <= command + 1
    BY <1>h
  <2>6. command' > 0 /\ nTries' < MaxTries
    BY <2>1, <2>3
  <2>7. Last' = Last
    BY <2>3 DEF Last
  <2> QED
    BY <1>h, <2>1, <2>2, <2>3, <2>4, <2>5, <2>6, <2>7, Zenon DEF History
<1>2. CASE Try
  <2>1. /\ client = "try" /\ client' = "length" /\ nTries' = nTries + 1
        /\ attempts' = Append(attempts, [command |-> command, sn |-> lastSN])
        /\ request' = [attempt |-> Last + 1, connection |-> connection]
        /\ UNCHANGED <<command, connection, result, toClient>>
    BY <1>2 DEF Try, Last
  <2>2. /\ command \in 1 .. MaxCommands /\ nTries \in Nat /\ nTries < MaxTries
        /\ Last <= (command - 1) * MaxTries + nTries
    BY <1>0, <2>1, SMT DEF History, TypeOK
  <2>3. /\ Last + 1 \in Attempts
        /\ Last + 1 <= (command - 1) * MaxTries + (nTries + 1)
        /\ Last + 1 <= command * MaxTries
    BY <1>0, <2>2, AttemptsFit
  <2>4. lastSN \in 0 .. (SerialNumbers - 1) /\ lastSN' \in 0 .. (SerialNumbers - 1)
    BY <1>0, <1>2, SMT DEF Try, NextSN, TypeOK
  <2>5. /\ attempts' \in Seq([command : Commands, sn : 0 .. (SerialNumbers - 1)])
        /\ Last' = Last + 1 /\ attempts'[Last + 1].command = command
        /\ \A i \in 1 .. Last : attempts'[i] = attempts[i]
    BY <1>0, <2>1, <2>2, <2>4 DEF TypeOK, Last, Commands
  <2>6. request' \in Request
    BY <1>0, <2>1, <2>3 DEF TypeOK, Request
  <2>7. TypeOK'
    BY <1>0, <2>1, <2>2, <2>4, <2>5, <2>6 DEF TypeOK, serverVars, txVars, rxVars, fieldVars
  <2>8. \A i \in 1 .. (Last + 1) : i \in 1 .. Last \/ i = Last + 1
    BY <1>0
  <2>9. \A i \in 1 .. (Last + 1) : attempts'[i].command <= command
    BY <1>h, <2>5, <2>8
  <2>10. \A i, k \in 1 .. (Last + 1) : i <= k => attempts'[i].command <= attempts'[k].command
    <3>1. \A i \in 1 .. (Last + 1) : attempts'[i].command <= attempts'[Last + 1].command
      BY <2>5, <2>9
    <3>2. \A i, k \in 1 .. (Last + 1) : i <= k /\ k # Last + 1 => i \in 1 .. Last /\ k \in 1 .. Last
      BY <1>0
    <3> QED
      BY <1>h, <2>5, <3>1, <3>2
  <2>11. result <= Last + 1
    BY <1>0, <1>h
  <2>12. command > 0 /\ Last + 1 > 0
    BY <1>0, <2>2
  <2> QED
    BY <2>1, <2>3, <2>5, <2>7, <2>9, <2>10, <2>11, <2>12 DEF History
<1>3. CASE ReadLength
  <2>1. /\ client = "length" /\ toClient' = Tail(toClient) /\ toClient # <<>>
        /\ UNCHANGED <<command, nTries, lastSN, connection, result, attempts, request>>
    BY <1>3 DEF ReadLength
  <2>2. client' \in {"idle", "try", "body"} /\ (client' = "try" => nTries < MaxTries)
    <3>1. toClient \in Answers
      BY <1>0, <2>1 DEF Dialogue
    <3>2. Head(toClient)[1] \in {"zero", "huge", "full"}
      BY <3>1 DEF Answers, Length
    <3> QED
      BY <1>3, <3>2 DEF ReadLength
  <2>3. toClient' \in Seq({"zero", "short", "full", "huge", "bytes"} \X (Attempts \cup {None}))
    BY <1>0, <2>1 DEF TypeOK
  <2>4. TypeOK'
    BY <1>0, <2>1, <2>2, <2>3 DEF TypeOK, serverVars, txVars, rxVars, fieldVars
  <2> QED
    BY <1>0, <2>1, <2>2, <2>4 DEF History, Last
<1>4. CASE ReadBody
  <2>1. /\ client = "body" /\ toClient' = Tail(toClient) /\ toClient # <<>> /\ client' = "idle"
        /\ result' = Head(toClient)[2]
        /\ UNCHANGED <<command, nTries, lastSN, connection, attempts, request>>
    BY <1>4 DEF ReadBody
  <2>2. toClient = << <<"bytes", Last>> >>
    BY <1>0, <2>1 DEF Dialogue
  <2>3. result' = Last /\ toClient' = <<>> /\ Last \in Attempts \cup {None}
    BY <1>0, <2>1, <2>2 DEF TypeOK
  <2>4. <<>> \in Seq({"zero", "short", "full", "huge", "bytes"} \X (Attempts \cup {None}))
    OBVIOUS
  <2>5. TypeOK'
    BY <1>0, <2>1, <2>3, <2>4 DEF TypeOK, serverVars, txVars, rxVars, fieldVars
  <2> QED
    BY <1>0, <2>1, <2>3, <2>5 DEF History, Last
<1>5. CASE Reconnect
  <2>1. /\ connection' = connection + 1 /\ connection' \in 1 .. MaxConnections
        /\ lastSN' \in 0 .. (SerialNumbers - 1)
        /\ client' = "idle" /\ nTries' = 0 /\ toClient' = <<>> /\ request' = NoRequest
        /\ UNCHANGED <<command, result, attempts>>
    BY <1>0, <1>5, SMT DEF Reconnect, TypeOK
  <2>2. TypeOK'
    BY <1>0, <2>1 DEF TypeOK, serverVars, txVars, rxVars, fieldVars
  <2> QED
    BY <1>0, <2>1, <2>2 DEF History, Last
<1> QED
  BY <1>1, <1>2, <1>3, <1>4, <1>5 DEF ClientStep

\* The type invariant by the parts of the state.
Items == {"zero", "short", "full", "huge", "bytes"} \X (Attempts \cup {None})
ClientOK ==
  /\ client \in {"idle", "try", "length", "body", "lost"}
  /\ command \in 0 .. MaxCommands /\ nTries \in 0 .. MaxTries
  /\ lastSN \in 0 .. (SerialNumbers - 1)
  /\ connection \in 1 .. MaxConnections
  /\ result \in Attempts \cup {None}
  /\ attempts \in Seq([command : Commands, sn : 0 .. (SerialNumbers - 1)])
SocketOK == request \in Request \cup {NoRequest} /\ toClient \in Seq(Items)
ServerOK ==
  /\ server \in {"idle", "clear", "write", "publish", "poll"}
  /\ serving \in Request \cup {NoRequest} /\ medium \in Media
TxOK ==
  /\ txWrPointer \in Pointers /\ txRdPointer \in Pointers
  /\ txSlot \in [0 .. (Slots - 1) -> Attempts \cup {None}]
  /\ packets \in Seq(Attempts)
RxOK ==
  /\ rxWrPointer \in Pointers /\ rxRdPointer \in Pointers
  /\ rxSlot \in [0 .. (Slots - 1) -> Replies \cup {NoReply}]
  /\ replyQueue \in Seq(Replies)
FieldOK == replies \subseteq Replies /\ effects \in Seq(Attempts)

\* They make it up, and stay true of what a step leaves alone.
LEMMA TypeParts ==
  /\ TypeOK <=> ClientOK /\ SocketOK /\ ServerOK /\ TxOK /\ RxOK /\ FieldOK
  /\ ClientOK' /\ SocketOK' /\ ServerOK' /\ TxOK' /\ RxOK' /\ FieldOK' => TypeOK'
  /\ ClientOK /\ UNCHANGED clientVars => ClientOK'
  /\ SocketOK /\ UNCHANGED socketVars => SocketOK'
  /\ ServerOK /\ UNCHANGED serverVars => ServerOK'
  /\ TxOK /\ UNCHANGED txVars => TxOK'
  /\ RxOK /\ UNCHANGED rxVars => RxOK'
  /\ FieldOK /\ UNCHANGED fieldVars => FieldOK'
<1>1. TypeOK <=> ClientOK /\ SocketOK /\ ServerOK /\ TxOK /\ RxOK /\ FieldOK
  BY Zenon DEF TypeOK, ClientOK, SocketOK, ServerOK, TxOK, RxOK, FieldOK, Items
<1>2. ClientOK' /\ SocketOK' /\ ServerOK' /\ TxOK' /\ RxOK' /\ FieldOK' => TypeOK'
  BY Zenon DEF TypeOK, ClientOK, SocketOK, ServerOK, TxOK, RxOK, FieldOK, Items
<1>3. /\ ClientOK /\ UNCHANGED clientVars => ClientOK'
      /\ SocketOK /\ UNCHANGED socketVars => SocketOK'
      /\ ServerOK /\ UNCHANGED serverVars => ServerOK'
      /\ TxOK /\ UNCHANGED txVars => TxOK'
      /\ RxOK /\ UNCHANGED rxVars => RxOK'
      /\ FieldOK /\ UNCHANGED fieldVars => FieldOK'
  BY DEF ClientOK, SocketOK, ServerOK, TxOK, RxOK, FieldOK, clientVars, socketVars, serverVars, txVars,
         rxVars, fieldVars
<1> QED
  BY <1>1, <1>2, <1>3, Zenon

\* The daemon's steps keep the types and the history.
LEMMA ServerTypes ==
  ASSUME PathIInv, ServerStep
  PROVE  TypeOK' /\ History'
<1> USE CommandAssumption
<1>0. TypeOK /\ History /\ UNCHANGED clientVars /\ UNCHANGED fieldVars /\ UNCHANGED medium
  BY DEF PathIInv, ServerStep, ReceiveRequest, ClearReplyQueue, WritePacket, PublishPacket, SendPacket,
         ReceiveReply, PopReply, TimeOut
<1>p. ClientOK' /\ SocketOK /\ ServerOK /\ TxOK /\ RxOK /\ FieldOK'
  BY <1>0, TypeParts, Zenon
<1>1. History'
  BY <1>0 DEF clientVars, History, Last
<1>2. \A p \in Pointers : Advance(p) \in Pointers /\ p % Slots \in 0 .. (Slots - 1)
  BY RingPointers DEF SlotOf
<1>3. \A to, s : s \in Seq(Items) /\ Send(to, s) => toClient' \in Seq(Items)
  BY <1>p DEF Send, SocketOK
<1>4. /\ <<Length("zero")>> \in Seq(Items) /\ <<Length("huge")>> \in Seq(Items)
      /\ \A a \in Attempts \cup {None} : \A k \in {"full", "short"} :
           <<Length(k), <<"bytes", a>> >> \in Seq(Items)
  BY DEF Length, Items
<1>5. ASSUME NEW r \in Replies \cup {NoReply}, AnswerWith(r)
      PROVE  toClient' \in Seq(Items) /\ server' \in {"idle", server}
  <2>1. r.attempt \in Attempts \cup {None}
    BY DEF Replies, NoReply
  <2>2. CASE Acceptable(r) /\ Matches(r)
    BY <1>3, <1>4, <1>5, <2>1, <2>2 DEF AnswerWith
  <2>3. CASE ~(Acceptable(r) /\ Matches(r))
    BY <1>p, <1>5, <2>3 DEF AnswerWith, SocketOK
  <2> QED
    BY <2>2, <2>3
<1>6. CASE ReceiveRequest
  <2>1. request' \in Request \cup {NoRequest} /\ toClient' \in Seq(Items)
    BY <1>p, <1>3, <1>4, <1>6 DEF ReceiveRequest, SocketOK
  <2>2. ServerOK'
    BY <1>p, <1>6 DEF ReceiveRequest, ServerOK, SocketOK
  <2> QED
    BY <1>p, <1>1, <1>6, <2>1, <2>2, TypeParts, Zenon DEF ReceiveRequest, SocketOK
<1>7. CASE ClearReplyQueue
  <2>1. ServerOK' /\ RxOK'
    BY <1>p, <1>7 DEF ClearReplyQueue, ServerOK, RxOK
  <2> QED
    BY <1>p, <1>1, <1>7, <2>1, TypeParts, Zenon DEF ClearReplyQueue
<1>8. CASE WritePacket
  <2>1. serving.attempt \in Attempts \cup {None}
    BY <1>p DEF ServerOK, Request, NoRequest
  <2>2. txWrPointer % Slots \in 0 .. (Slots - 1)
    BY <1>p, <1>2 DEF TxOK
  <2>3. TxOK'
    BY <1>p, <1>8, <2>1, <2>2 DEF WritePacket, TxOK
  <2>4. ServerOK'
    BY <1>p, <1>8 DEF WritePacket, ServerOK
  <2> QED
    BY <1>p, <1>1, <1>8, <2>3, <2>4, TypeParts, Zenon DEF WritePacket
<1>9. CASE PublishPacket
  <2>1. TxOK' /\ ServerOK'
    BY <1>p, <1>2, <1>9 DEF PublishPacket, TxOK, ServerOK
  <2> QED
    BY <1>p, <1>1, <1>9, <2>1, TypeParts, Zenon DEF PublishPacket
<1>10. CASE SendPacket
  <2>1. serving.attempt \in Attempts
    BY <1>p, <1>10 DEF PathIInv, Order, Serving, RingInOrder, SendPacket, ServerOK, Request
  <2>2. TxOK' /\ ServerOK'
    BY <1>p, <1>10, <2>1 DEF SendPacket, TxOK, ServerOK
  <2> QED
    BY <1>p, <1>1, <1>10, <2>2, TypeParts, Zenon DEF SendPacket
<1>11. CASE ReceiveReply
  <2>1. rxSlot[rxRdPointer % Slots] \in Replies \cup {NoReply}
    BY <1>p, <1>2 DEF RxOK
  <2>2. toClient' \in Seq(Items) /\ server' \in {"idle", server}
    BY <1>5, <1>11, <2>1 DEF ReceiveReply
  <2>3. SocketOK' /\ ServerOK'
    BY <1>p, <1>11, <2>2 DEF ReceiveReply, SocketOK, ServerOK
  <2>4. RxOK'
    BY <1>p, <1>2, <1>11 DEF ReceiveReply, RxOK
  <2> QED
    BY <1>p, <1>1, <1>11, <2>3, <2>4, TypeParts, Zenon DEF ReceiveReply
<1>12. CASE PopReply
  <2>1. Head(replyQueue) \in Replies /\ RxOK'
    BY <1>p, <1>12 DEF PopReply, RxOK
  <2>2. toClient' \in Seq(Items) /\ server' \in {"idle", server}
    BY <1>5, <1>12, <2>1 DEF PopReply
  <2>3. SocketOK' /\ ServerOK'
    BY <1>p, <1>12, <2>2 DEF PopReply, SocketOK, ServerOK
  <2> QED
    BY <1>p, <1>1, <1>12, <2>1, <2>3, TypeParts, Zenon DEF PopReply
<1>13. CASE TimeOut
  <2>1. toClient' \in Seq(Items)
    BY <1>3, <1>4, <1>13 DEF TimeOut
  <2>2. SocketOK' /\ ServerOK'
    BY <1>p, <1>13, <2>1 DEF TimeOut, SocketOK, ServerOK
  <2> QED
    BY <1>p, <1>1, <1>13, <2>2, TypeParts, Zenon DEF TimeOut
<1> QED
  BY <1>6, <1>7, <1>8, <1>9, <1>10, <1>11, <1>12, <1>13 DEF ServerStep

\* The steps of the card and the front ends keep the types and the history.
LEMMA FieldTypes ==
  ASSUME PathIInv, FieldStep
  PROVE  TypeOK' /\ History'
<1> USE CommandAssumption
<1>0. TypeOK /\ History /\ UNCHANGED clientVars /\ UNCHANGED socketVars /\ UNCHANGED serverVars
  BY DEF PathIInv, FieldStep, TakeCommand, TakePacket, DeliverReply, PushReply
<1>p. ClientOK' /\ SocketOK' /\ ServerOK' /\ ServerOK /\ TxOK /\ RxOK /\ FieldOK
  BY <1>0, TypeParts, Zenon
<1>1. History'
  BY <1>0 DEF clientVars, History, Last
<1>2. \A p \in Pointers : Advance(p) \in Pointers /\ p % Slots \in 0 .. (Slots - 1)
  BY RingPointers DEF SlotOf
<1>3. ASSUME NEW a \in Attempts, Execute(a)
      PROVE  FieldOK'
  <2>1. CASE UNCHANGED fieldVars
    BY <1>p, <2>1, TypeParts
  <2>2. CASE effects' = Append(effects, a)
    <3>1. \A kind \in ReplyKinds : [attempt |-> a, kind |-> kind] \in Replies
      BY DEF Replies
    <3> QED
      BY <1>p, <1>3, <2>2, <3>1 DEF Execute, FieldOK, fieldVars
  <2> QED
    BY <1>3, <2>1, <2>2 DEF Execute
<1>4. CASE TakeCommand
  <2>1. TxCount > 0 /\ TxAt(0) \in Attempts
    <3>1. TxCount # 0
      BY <1>p, <1>4, RingPointers DEF TakeCommand, TxOK, TxCount
    <3>2. TxCount > 0 /\ 0 \in 0 .. (TxCount - 1)
      BY <3>1, Basics
    <3>3. TxAt(0) \in 1 .. serving.attempt
      BY <3>2 DEF PathIInv, Order, Serving, RingInOrder
    <3>4. serving.attempt \in Attempts \cup {None}
      BY <1>p DEF ServerOK, Request, NoRequest
    <3>5. MaxAttempts \in Nat
      BY DEF MaxAttempts
    <3> QED
      BY <3>2, <3>3, <3>4, <3>5 DEF Attempts, None
  <2>2. txSlot[txRdPointer % Slots] = TxAt(0)
    BY <1>p, RingEntries DEF TxOK, TxAt, SlotOf
  <2>3. TxOK'
    BY <1>p, <1>2, <1>4 DEF TakeCommand, TxOK
  <2>4. FieldOK' /\ UNCHANGED rxVars
    BY <1>3, <1>4, <2>1, <2>2 DEF TakeCommand
  <2> QED
    BY <1>p, <1>1, <2>3, <2>4, TypeParts, Zenon
<1>5. CASE TakePacket
  <2>1. Head(packets) \in Attempts /\ TxOK'
    BY <1>p, <1>5 DEF TakePacket, TxOK
  <2>2. FieldOK' /\ UNCHANGED rxVars
    BY <1>3, <1>5, <2>1 DEF TakePacket
  <2> QED
    BY <1>p, <1>1, <2>1, <2>2, TypeParts, Zenon
<1>6. CASE DeliverReply
  <2>1. PICK reply \in replies :
           /\ rxSlot' = [rxSlot EXCEPT ![rxWrPointer % Slots] = reply]
           /\ replies' = replies \ {reply}
    BY <1>6 DEF DeliverReply
  <2>2. reply \in Replies
    BY <1>p DEF FieldOK
  <2>3. RxOK'
    BY <1>p, <1>2, <1>6, <2>1, <2>2 DEF DeliverReply, RxOK
  <2>4. FieldOK' /\ UNCHANGED txVars
    BY <1>p, <1>6, <2>1 DEF DeliverReply, FieldOK
  <2> QED
    BY <1>p, <1>1, <2>3, <2>4, TypeParts, Zenon
<1>7. CASE PushReply
  <2>1. PICK reply \in replies :
           /\ replyQueue' = IF reply.kind = "foreign" THEN replyQueue ELSE Append(replyQueue, reply)
           /\ replies' = replies \ {reply}
    BY <1>7 DEF PushReply
  <2>2. reply \in Replies
    BY <1>p DEF FieldOK
  <2>3. RxOK'
    BY <1>p, <1>7, <2>1, <2>2 DEF PushReply, RxOK
  <2>4. FieldOK' /\ UNCHANGED txVars
    BY <1>p, <1>7, <2>1 DEF PushReply, FieldOK
  <2> QED
    BY <1>p, <1>1, <2>3, <2>4, TypeParts, Zenon
<1> QED
  BY <1>4, <1>5, <1>6, <1>7 DEF FieldStep

-----------------------------------------------------------------------------
(* What the steps do to the rings.                                         *)

TxSame    == TxCount' = TxCount /\ \A i \in 0 .. (TxCount - 1) : TxAt(i)' = TxAt(i)
TxMore(a) == /\ TxCount < Slots /\ TxCount' = TxCount + 1
             /\ \A i \in 0 .. TxCount : TxAt(i)' = IF i < TxCount THEN TxAt(i) ELSE a
TxLess    == /\ TxCount > 0 /\ TxCount' = TxCount - 1
             /\ \A i \in 0 .. (TxCount - 2) : TxAt(i)' = TxAt(i + 1)
RxSame    == RxCount' = RxCount /\ \A i \in 0 .. (RxCount - 1) : RxAt(i)' = RxAt(i)
RxMore(r) == /\ RxCount < Slots /\ RxCount' = RxCount + 1
             /\ \A i \in 0 .. RxCount : RxAt(i)' = IF i < RxCount THEN RxAt(i) ELSE r
RxLess    == /\ RxCount > 0 /\ RxCount' = RxCount - 1
             /\ \A i \in 0 .. (RxCount - 2) : RxAt(i)' = RxAt(i + 1)

\* The ring of commands: a packet is put behind the others, and taken from their front.
LEMMA TxSteps ==
  ASSUME PathIInv
  PROVE  /\ UNCHANGED <<txWrPointer, txRdPointer, txSlot>> => TxSame
         /\ WritePacket => TxSame
         /\ PublishPacket => TxMore(serving.attempt)
         /\ TakeCommand => TxLess /\ txSlot[txRdPointer % Slots] = TxAt(0)
<1> USE CommandAssumption
<1>0. /\ txWrPointer \in Pointers /\ txRdPointer \in Pointers
      /\ txSlot \in [0 .. (Slots - 1) -> Attempts \cup {None}]
      /\ TxCount \in 0 .. Slots
  BY Basics DEF PathIInv, TypeOK
<1>c. TxCount = (txWrPointer - txRdPointer) % (2 * Slots)
  BY DEF TxCount
<1>1. /\ SlotOf(txRdPointer + TxCount) = SlotOf(txWrPointer) /\ SlotOf(txRdPointer + 0) = SlotOf(txRdPointer)
      /\ \A i \in 0 .. (TxCount - 1) : SlotOf(txRdPointer + i) \in 0 .. (Slots - 1)
      /\ TxCount < Slots => \A i \in 0 .. (TxCount - 1) : SlotOf(txRdPointer + i) # SlotOf(txWrPointer)
      /\ TxCount > 0 => \A i \in 0 .. (TxCount - 1) : SlotOf(Advance(txRdPointer) + i) = SlotOf(txRdPointer + (i + 1))
  BY <1>0, <1>c, RingEntries
<1>2. /\ RingEmpty(txWrPointer, txRdPointer) <=> TxCount = 0
      /\ RingFull(txWrPointer, txRdPointer) <=> TxCount = Slots
      /\ TxCount < Slots => (Advance(txWrPointer) - txRdPointer) % (2 * Slots) = TxCount + 1
      /\ TxCount > 0 => (txWrPointer - Advance(txRdPointer)) % (2 * Slots) = TxCount - 1
      /\ SlotOf(txWrPointer) \in 0 .. (Slots - 1)
  BY <1>0, <1>c, RingPointers
<1>3. UNCHANGED <<txWrPointer, txRdPointer, txSlot>> => TxSame
  BY DEF TxSame, TxCount, TxAt
<1>4. ASSUME WritePacket PROVE TxSame
  <2>1. CASE RingFull(txWrPointer, txRdPointer)
    BY <1>4, <2>1 DEF WritePacket, TxSame, TxCount, TxAt
  <2>2. CASE ~RingFull(txWrPointer, txRdPointer)
    <3>1. /\ txSlot' = [txSlot EXCEPT ![SlotOf(txWrPointer)] = serving.attempt]
          /\ UNCHANGED <<txWrPointer, txRdPointer>>
      BY <1>4, <2>2 DEF WritePacket, SlotOf
    <3>2. TxCount < Slots
      BY <1>0, <1>2, <2>2
    <3>3. \A i \in 0 .. (TxCount - 1) : txSlot'[SlotOf(txRdPointer + i)] = txSlot[SlotOf(txRdPointer + i)]
      BY <1>0, <1>1, <3>1, <3>2
    <3> QED
      BY <3>1, <3>3 DEF TxSame, TxCount, TxAt
  <2> QED
    BY <2>1, <2>2
<1>5. ASSUME PublishPacket PROVE TxMore(serving.attempt)
  <2>1. txWrPointer' = Advance(txWrPointer) /\ UNCHANGED <<txRdPointer, txSlot>>
    BY <1>5 DEF PublishPacket
  <2>2. TxCount < Slots /\ txSlot[SlotOf(txWrPointer)] = serving.attempt
    BY <1>5 DEF PathIInv, Rings, PublishPacket
  <2>3. TxCount' = TxCount + 1
    BY <1>2, <2>1, <2>2 DEF TxCount
  <2>4. \A i \in 0 .. TxCount : txSlot[SlotOf(txRdPointer + i)] =
          IF i < TxCount THEN txSlot[SlotOf(txRdPointer + i)] ELSE serving.attempt
    BY <1>0, <1>1, <2>2
  <2> QED
    BY <2>1, <2>2, <2>3, <2>4 DEF TxMore, TxAt
<1>6. ASSUME TakeCommand PROVE TxLess /\ txSlot[txRdPointer % Slots] = TxAt(0)
  <2>1. txRdPointer' = Advance(txRdPointer) /\ UNCHANGED <<txWrPointer, txSlot>> /\ TxCount > 0
    BY <1>0, <1>2, <1>6 DEF TakeCommand
  <2>2. TxCount' = TxCount - 1
    BY <1>2, <2>1 DEF TxCount
  <2>3. \A i \in 0 .. (TxCount - 2) : txSlot[SlotOf(Advance(txRdPointer) + i)] = txSlot[SlotOf(txRdPointer + (i + 1))]
    BY <1>0, <1>1, <2>1
  <2>4. txSlot[txRdPointer % Slots] = TxAt(0)
    BY <1>1 DEF TxAt, SlotOf
  <2> QED
    BY <2>1, <2>2, <2>3, <2>4 DEF TxLess, TxAt
<1> QED
  BY <1>3, <1>4, <1>5, <1>6

\* The ring of replies, likewise; the daemon may also drop them all.
LEMMA RxSteps ==
  ASSUME PathIInv
  PROVE  /\ UNCHANGED <<rxWrPointer, rxRdPointer, rxSlot>> => RxSame
         /\ ClearReplyQueue => (IF RxCount = 0 THEN server' = "write" /\ RxSame
                                               ELSE server' = "clear" /\ RxCount' = 0)
         /\ ReceiveReply => RxLess /\ AnswerWith(RxAt(0))
         /\ DeliverReply => \E r \in replies : /\ NotReused(r.attempt) /\ RxMore(r)
                                               /\ replies' = replies \ {r}
<1> USE CommandAssumption
<1>0. /\ rxWrPointer \in Pointers /\ rxRdPointer \in Pointers
      /\ rxSlot \in [0 .. (Slots - 1) -> Replies \cup {NoReply}]
      /\ RxCount \in 0 .. Slots
  BY Basics DEF PathIInv, TypeOK
<1>c. RxCount = (rxWrPointer - rxRdPointer) % (2 * Slots)
  BY DEF RxCount
<1>1. /\ SlotOf(rxRdPointer + RxCount) = SlotOf(rxWrPointer) /\ SlotOf(rxRdPointer + 0) = SlotOf(rxRdPointer)
      /\ \A i \in 0 .. (RxCount - 1) : SlotOf(rxRdPointer + i) \in 0 .. (Slots - 1)
      /\ RxCount < Slots => \A i \in 0 .. (RxCount - 1) : SlotOf(rxRdPointer + i) # SlotOf(rxWrPointer)
      /\ RxCount > 0 => \A i \in 0 .. (RxCount - 1) : SlotOf(Advance(rxRdPointer) + i) = SlotOf(rxRdPointer + (i + 1))
  BY <1>0, <1>c, RingEntries
<1>2. /\ RingEmpty(rxWrPointer, rxRdPointer) <=> RxCount = 0
      /\ RingFull(rxWrPointer, rxRdPointer) <=> RxCount = Slots
      /\ RxCount < Slots => (Advance(rxWrPointer) - rxRdPointer) % (2 * Slots) = RxCount + 1
      /\ RxCount > 0 => (rxWrPointer - Advance(rxRdPointer)) % (2 * Slots) = RxCount - 1
      /\ SlotOf(rxWrPointer) \in 0 .. (Slots - 1)
  BY <1>0, <1>c, RingPointers
<1>3. UNCHANGED <<rxWrPointer, rxRdPointer, rxSlot>> => RxSame
  BY DEF RxSame, RxCount, RxAt
<1>4. ASSUME ClearReplyQueue
      PROVE  IF RxCount = 0 THEN server' = "write" /\ RxSame ELSE server' = "clear" /\ RxCount' = 0
  <2>1. CASE RxCount = 0
    BY <1>2, <1>3, <1>4, <2>1 DEF ClearReplyQueue
  <2>2. CASE RxCount # 0
    <3>1. rxRdPointer' = rxWrPointer /\ rxWrPointer' = rxWrPointer /\ server' = "clear"
      BY <1>2, <1>4, <2>2 DEF ClearReplyQueue
    <3>2. (rxWrPointer - rxWrPointer) % (2 * Slots) = 0
      BY <1>0, SMT DEF Pointers
    <3> QED
      BY <2>2, <3>1, <3>2 DEF RxCount
  <2> QED
    BY <2>1, <2>2
<1>5. ASSUME ReceiveReply PROVE RxLess /\ AnswerWith(RxAt(0))
  <2>1. rxRdPointer' = Advance(rxRdPointer) /\ UNCHANGED <<rxWrPointer, rxSlot>> /\ RxCount > 0
    BY <1>0, <1>2, <1>5 DEF ReceiveReply
  <2>2. RxCount' = RxCount - 1
    BY <1>2, <2>1 DEF RxCount
  <2>3. \A i \in 0 .. (RxCount - 2) : rxSlot[SlotOf(Advance(rxRdPointer) + i)] = rxSlot[SlotOf(rxRdPointer + (i + 1))]
    BY <1>0, <1>1, <2>1
  <2>4. rxSlot[rxRdPointer % Slots] = RxAt(0)
    BY <1>1 DEF RxAt, SlotOf
  <2>5. AnswerWith(RxAt(0))
    BY <1>5, <2>4 DEF ReceiveReply
  <2> QED
    BY <2>1, <2>2, <2>3, <2>5 DEF RxLess, RxAt
<1>6. ASSUME DeliverReply
      PROVE  \E r \in replies : NotReused(r.attempt) /\ RxMore(r) /\ replies' = replies \ {r}
  <2>1. PICK r \in replies :
           /\ NotReused(r.attempt) /\ replies' = replies \ {r}
           /\ rxSlot' = [rxSlot EXCEPT ![SlotOf(rxWrPointer)] = r]
    BY <1>6 DEF DeliverReply, SlotOf
  <2>2. rxWrPointer' = Advance(rxWrPointer) /\ UNCHANGED rxRdPointer /\ RxCount < Slots
    BY <1>0, <1>2, <1>6 DEF DeliverReply
  <2>3. RxCount' = RxCount + 1
    BY <1>2, <2>2 DEF RxCount
  <2>4. \A i \in 0 .. RxCount : rxSlot'[SlotOf(rxRdPointer + i)] =
          IF i < RxCount THEN rxSlot[SlotOf(rxRdPointer + i)] ELSE r
    BY <1>0, <1>1, <1>2, <2>1, <2>2
  <2> QED
    BY <2>1, <2>2, <2>3, <2>4 DEF RxMore, RxAt
<1> QED
  BY <1>3, <1>4, <1>5, <1>6

-----------------------------------------------------------------------------
(* One part of the invariant after the other.                              *)

\* The steps of the client, and no step at all.
ClientSide == CallSendCommand \/ Reconnect \/ ClientStep \/ UNCHANGED vars

\* They leave the daemon and what is behind it alone.
LEMMA ClientSideFrame ==
  ASSUME ClientSide
  PROVE  UNCHANGED serverVars /\ UNCHANGED txVars /\ UNCHANGED rxVars /\ UNCHANGED fieldVars
BY DEF ClientSide, CallSendCommand, Reconnect, ClientStep, Try, ReadLength, ReadBody, vars

\* The rings do not overflow, and only one way is in use.
LEMMA RingsKept ==
  ASSUME PathIInv, [Next]_vars
  PROVE  Rings' /\ Medium'
<1>0. /\ Rings /\ Medium /\ TxCount \in 0 .. Slots /\ RxCount \in 0 .. Slots
      /\ server \in {"idle", "clear", "write", "publish", "poll"} /\ Slots \in Nat \ {0}
      /\ medium \in {"card", "udp"}
  BY Basics, CommandAssumption DEF PathIInv, TypeOK
<1>1. CASE ClientSide
  BY <1>0, <1>1, ClientSideFrame DEF serverVars, txVars, rxVars, Rings, Medium, TxCount, RxCount
<1>2. CASE ReceiveRequest
  <2>1. /\ UNCHANGED medium /\ UNCHANGED txVars /\ UNCHANGED rxVars
        /\ server' \in {"idle", "clear", "write"} /\ (medium = "udp" => server' # "clear")
    BY <1>2 DEF ReceiveRequest
  <2> QED
    BY <1>0, <2>1 DEF txVars, rxVars, Rings, Medium, TxCount, RxCount
<1>3. CASE ClearReplyQueue
  <2>1. /\ UNCHANGED medium /\ UNCHANGED txVars /\ UNCHANGED replyQueue
        /\ server = "clear" /\ server' \in {"clear", "write"}
    BY <1>3 DEF ClearReplyQueue
  <2>2. RxCount' \in {RxCount, 0}
    BY <1>3, RxSteps DEF RxSame
  <2> QED
    BY <1>0, <2>1, <2>2 DEF txVars, Rings, Medium, TxCount
<1>4. CASE WritePacket
  <2>1. /\ UNCHANGED medium /\ UNCHANGED rxVars /\ UNCHANGED packets /\ medium = "card"
        /\ UNCHANGED txWrPointer /\ UNCHANGED txRdPointer /\ UNCHANGED serving
        /\ \/ server' = "poll"
           \/ /\ server' = "publish" /\ ~RingFull(txWrPointer, txRdPointer)
              /\ txSlot' = [txSlot EXCEPT ![SlotOf(txWrPointer)] = serving.attempt]
    BY <1>4 DEF WritePacket, SlotOf
  <2>2. TxCount' = TxCount /\ RxCount' = RxCount
    BY <2>1 DEF TxCount, RxCount, rxVars
  <2>3. /\ RingFull(txWrPointer, txRdPointer) <=> TxCount = Slots
        /\ SlotOf(txWrPointer) \in 0 .. (Slots - 1) /\ DOMAIN txSlot = 0 .. (Slots - 1)
    BY RingPointers DEF PathIInv, TypeOK, TxCount
  <2>4. server' = "publish" => TxCount < Slots /\ txSlot'[SlotOf(txWrPointer)] = serving.attempt
    BY <1>0, <2>1, <2>3
  <2> QED
    BY <1>0, <2>1, <2>2, <2>4 DEF Rings, Medium, rxVars
<1>5. CASE PublishPacket
  <2>1. /\ UNCHANGED medium /\ UNCHANGED rxVars /\ UNCHANGED packets
        /\ server = "publish" /\ server' = "poll"
    BY <1>5 DEF PublishPacket
  <2>2. TxCount < Slots /\ TxCount' = TxCount + 1
    BY <1>5, TxSteps DEF TxMore
  <2>3. TxCount' <= Slots /\ RxCount' = RxCount
    BY <1>0, <2>1, <2>2 DEF rxVars, RxCount
  <2> QED
    BY <1>0, <2>1, <2>3 DEF Rings, Medium, rxVars
<1>6. CASE SendPacket
  <2>1. /\ UNCHANGED medium /\ UNCHANGED rxVars /\ medium = "udp" /\ server' = "poll"
        /\ UNCHANGED txWrPointer /\ UNCHANGED txRdPointer /\ UNCHANGED txSlot
    BY <1>6 DEF SendPacket
  <2> QED
    BY <1>0, <2>1 DEF Rings, Medium, rxVars, TxCount, RxCount
<1>7. CASE ReceiveReply
  <2>1. /\ UNCHANGED medium /\ UNCHANGED txVars /\ UNCHANGED replyQueue /\ server = "poll"
        /\ server' \in {"poll", "idle"}
    BY <1>7 DEF ReceiveReply, AnswerWith
  <2>2. RxCount > 0 /\ RxCount' = RxCount - 1
    BY <1>7, RxSteps DEF RxLess
  <2>3. RxCount' <= Slots /\ medium # "udp"
    BY <1>0, <2>2 DEF Medium
  <2> QED
    BY <1>0, <2>1, <2>3 DEF Rings, Medium, txVars, TxCount
<1>8. CASE PopReply
  <2>1. /\ UNCHANGED medium /\ UNCHANGED txVars /\ server = "poll" /\ server' \in {"poll", "idle"}
        /\ UNCHANGED rxWrPointer /\ UNCHANGED rxRdPointer /\ UNCHANGED rxSlot /\ replyQueue # <<>>
    BY <1>8 DEF PopReply, AnswerWith
  <2> QED
    BY <1>0, <2>1 DEF Rings, Medium, txVars, TxCount, RxCount
<1>9. CASE TimeOut
  BY <1>0, <1>9 DEF TimeOut, Rings, Medium, txVars, rxVars, TxCount, RxCount
<1>10. CASE TakeCommand
  <2>1. UNCHANGED serverVars /\ UNCHANGED rxVars /\ UNCHANGED packets
        /\ UNCHANGED txWrPointer /\ UNCHANGED txSlot
    BY <1>10 DEF TakeCommand
  <2>2. TxCount > 0 /\ TxCount' = TxCount - 1
    BY <1>10, TxSteps DEF TxLess
  <2>3. TxCount' <= Slots /\ TxCount' < Slots /\ medium # "udp"
    BY <1>0, <2>2 DEF Medium
  <2> QED
    BY <1>0, <2>1, <2>3 DEF Rings, Medium, serverVars, rxVars, RxCount
<1>11. CASE TakePacket
  <2>1. UNCHANGED serverVars /\ UNCHANGED rxVars /\ packets # <<>>
        /\ UNCHANGED txWrPointer /\ UNCHANGED txRdPointer /\ UNCHANGED txSlot
    BY <1>11 DEF TakePacket
  <2> QED
    BY <1>0, <2>1 DEF Rings, Medium, serverVars, rxVars, TxCount, RxCount
<1>12. CASE DeliverReply
  <2>1. UNCHANGED serverVars /\ UNCHANGED txVars /\ UNCHANGED replyQueue /\ medium = "card"
    BY <1>12 DEF DeliverReply
  <2>2. RxCount < Slots /\ RxCount' = RxCount + 1
    BY <1>12, RxSteps DEF RxMore
  <2>3. RxCount' <= Slots
    BY <1>0, <2>2
  <2> QED
    BY <1>0, <2>1, <2>3 DEF Rings, Medium, serverVars, txVars, TxCount
<1>13. CASE PushReply
  <2>1. UNCHANGED serverVars /\ UNCHANGED txVars /\ medium = "udp"
        /\ UNCHANGED rxWrPointer /\ UNCHANGED rxRdPointer /\ UNCHANGED rxSlot
    BY <1>13 DEF PushReply
  <2> QED
    BY <1>0, <2>1 DEF Rings, Medium, serverVars, txVars, TxCount, RxCount
<1> QED
  BY <1>1, <1>2, <1>3, <1>4, <1>5, <1>6, <1>7, <1>8, <1>9, <1>10, <1>11, <1>12, <1>13
  DEF ClientSide, Next, ServerStep, FieldStep

\* A command takes effect by being executed; nothing else touches the effects.
LEMMA EffectsGrow ==
  ASSUME PathIInv, [Next]_vars
  PROVE  \/ UNCHANGED effects /\ replies' \subseteq replies
         \/ \E a \in Attempts :
              /\ effects' = Append(effects, a)
              /\ \/ replies' = replies
                 \/ \E k \in ReplyKinds : replies' = replies \cup {[attempt |-> a, kind |-> k]}
              /\ \/ TakeCommand /\ a = TxAt(0) /\ TxCount > 0
                 \/ TakePacket /\ a = Head(packets) /\ packets # <<>>
<1>1. CASE TakeCommand
  <2>1. Execute(TxAt(0)) /\ TxCount > 0
    BY <1>1, TxSteps DEF TakeCommand, TxLess
  <2>2. TxAt(0) \in Attempts
    <3>0. 0 \in 0 .. (TxCount - 1)
      BY <2>1, Basics
    <3>1. TxAt(0) \in 1 .. serving.attempt /\ serving \in Request \cup {NoRequest}
      BY <3>0 DEF PathIInv, Order, Serving, RingInOrder, TypeOK
    <3>2. \A r \in Request \cup {NoRequest} : 1 .. r.attempt \subseteq Attempts
      BY CommandAssumption DEF Request, NoRequest, Attempts, MaxAttempts, None
    <3> QED
      BY <3>1, <3>2
  <2> QED
    BY <1>1, <2>1, <2>2 DEF Execute, fieldVars
<1>2. CASE TakePacket
  <2>1. Execute(Head(packets)) /\ packets # <<>> /\ Head(packets) \in Attempts
    BY <1>2 DEF TakePacket, PathIInv, TypeOK
  <2> QED
    BY <1>2, <2>1 DEF Execute, fieldVars
<1>3. CASE ClientSide
  BY <1>3, ClientSideFrame DEF fieldVars
<1>4. CASE ServerStep
  BY <1>4 DEF ServerStep, ReceiveRequest, ClearReplyQueue, WritePacket, PublishPacket, SendPacket,
              ReceiveReply, PopReply, TimeOut, fieldVars
<1>5. CASE DeliverReply \/ PushReply
  BY <1>5 DEF DeliverReply, PushReply
<1> QED
  BY <1>1, <1>2, <1>3, <1>4, <1>5 DEF ClientSide, Next, FieldStep

\* Replies are genuine.
LEMMA BackKept ==
  ASSUME PathIInv, [Next]_vars, "short" \notin ReplyKinds
  PROVE  Back'
<1> DEFINE E(a) == \E i \in 1 .. Len(effects') : effects'[i] = a
           G(r) == r.kind # "short" /\ E(r.attempt)
<1>0. Back /\ RxCount \in 0 .. Slots /\ Slots \in Nat \ {0} /\ effects \in Seq(Attempts)
      /\ replyQueue \in Seq(Replies) /\ toClient \in Seq(Items)
  BY Basics DEF PathIInv, TypeOK, Items
<1>1. \A a : HasEffect(a) => E(a)
  <2>1. effects' = effects \/ \E a \in Attempts : effects' = Append(effects, a)
    BY EffectsGrow
  <2>2. \A i \in 1 .. Len(effects) : i \in 1 .. Len(effects') /\ effects'[i] = effects[i]
    BY <1>0, <2>1
  <2> QED
    BY <2>2 DEF HasEffect
<1>2. \A r : Genuine(r) => G(r)
  BY <1>1 DEF Genuine
<1>3. \A r \in replies' : G(r)
  <2>1. CASE replies' \subseteq replies
    BY <1>0, <1>2, <2>1 DEF Back
  <2>2. ASSUME NEW a \in Attempts, effects' = Append(effects, a),
               NEW k \in ReplyKinds, replies' = replies \cup {[attempt |-> a, kind |-> k]}
        PROVE  \A r \in replies' : G(r)
    <3>1. E(a)
      <4>1. effects'[Len(effects) + 1] = a /\ Len(effects') = Len(effects) + 1 /\ Len(effects) \in Nat
        BY <1>0, <2>2
      <4>2. Len(effects) + 1 \in 1 .. Len(effects')
        BY <4>1
      <4> QED
        BY <4>1, <4>2
    <3>2. G([attempt |-> a, kind |-> k])
      BY <2>2, <3>1
    <3>3. \A r \in replies : G(r)
      BY <1>0, <1>2 DEF Back
    <3> QED
      BY <2>2, <3>2, <3>3
  <2> QED
    BY <2>1, <2>2, EffectsGrow
<1> HIDE DEF E, G
<1>4. \A i \in 0 .. (RxCount' - 1) : G(RxAt(i)')
  <2>0. \A i \in 0 .. (RxCount - 1) : G(RxAt(i))
    BY <1>0, <1>2 DEF Back
  <2>1. CASE RxSame
    BY <2>0, <2>1 DEF RxSame
  <2>2. CASE RxLess
    <3>1. \A i \in 0 .. (RxCount - 2) : i + 1 \in 0 .. (RxCount - 1)
      BY <1>0
    <3>2. \A i \in 0 .. (RxCount - 2) : G(RxAt(i + 1))
      BY <2>0, <3>1
    <3>3. RxCount' - 1 = RxCount - 2
      BY <1>0, <2>2 DEF RxLess
    <3> QED
      BY <2>2, <3>2, <3>3 DEF RxLess
  <2>3. ASSUME NEW r \in replies, RxMore(r)
        PROVE  \A i \in 0 .. (RxCount' - 1) : G(RxAt(i)')
    <3>1. G(r)
      BY <1>0, <1>2 DEF Back
    <3>2. \A i \in 0 .. RxCount : i \in 0 .. (RxCount - 1) \/ ~(i < RxCount)
      BY <1>0
    <3>3. \A i \in 0 .. RxCount : (RxAt(i)' = RxAt(i) /\ i \in 0 .. (RxCount - 1)) \/ RxAt(i)' = r
      BY <2>3, <3>2 DEF RxMore
    <3>4. RxCount' - 1 = RxCount
      BY <1>0, <2>3 DEF RxMore
    <3> QED
      BY <2>0, <3>1, <3>3, <3>4
  <2>4. CASE RxCount' = 0
    BY <2>4
  <2>5. RxSame \/ RxLess \/ RxCount' = 0 \/ \E r \in replies : RxMore(r)
    <3>1. CASE UNCHANGED <<rxWrPointer, rxRdPointer, rxSlot>>
      BY <3>1, RxSteps
    <3>2. CASE ClearReplyQueue \/ ReceiveReply \/ DeliverReply
      BY <3>2, RxSteps
    <3>3. ClientSide => UNCHANGED <<rxWrPointer, rxRdPointer, rxSlot>>
      BY ClientSideFrame DEF rxVars
    <3>4. ReceiveRequest \/ WritePacket \/ PublishPacket \/ SendPacket \/ PopReply \/ TimeOut
          \/ TakeCommand \/ TakePacket \/ PushReply => UNCHANGED <<rxWrPointer, rxRdPointer, rxSlot>>
      BY DEF ReceiveRequest, WritePacket, PublishPacket, SendPacket, PopReply, TimeOut, TakeCommand,
             TakePacket, PushReply, rxVars
    <3> QED
      BY <3>1, <3>2, <3>3, <3>4, Zenon DEF ClientSide, Next, ServerStep, FieldStep
  <2> QED
    BY <2>1, <2>2, <2>3, <2>4, <2>5
<1>5. \A i \in 1 .. Len(replyQueue') : G(replyQueue'[i])
  <2>0. \A i \in 1 .. Len(replyQueue) : G(replyQueue[i])
    BY <1>0, <1>2 DEF Back
  <2>1. CASE replyQueue' = replyQueue
    BY <2>0, <2>1
  <2>2. CASE replyQueue # <<>> /\ replyQueue' = Tail(replyQueue)
    BY <1>0, <2>0, <2>2
  <2>3. ASSUME NEW r \in replies, replyQueue' = Append(replyQueue, r)
        PROVE  \A i \in 1 .. Len(replyQueue') : G(replyQueue'[i])
    <3>1. G(r)
      BY <1>0, <1>2 DEF Back
    <3>2. r \in Replies
      BY DEF PathIInv, TypeOK
    <3> QED
      BY <1>0, <2>0, <2>3, <3>1, <3>2
  <2>4. \/ replyQueue' = replyQueue
        \/ replyQueue # <<>> /\ replyQueue' = Tail(replyQueue)
        \/ \E r \in replies : replyQueue' = Append(replyQueue, r)
    <3>1. PopReply \/ PushReply \/ replyQueue' = replyQueue
      <4>1. ClientSide => replyQueue' = replyQueue
        BY ClientSideFrame DEF rxVars
      <4> QED
        BY <4>1 DEF ClientSide, Next, ServerStep, FieldStep, ReceiveRequest, ClearReplyQueue, WritePacket,
          PublishPacket, SendPacket, ReceiveReply, TimeOut, TakeCommand, TakePacket, DeliverReply, rxVars
    <3> QED
      BY <3>1 DEF PopReply, PushReply
  <2> QED
    BY <2>1, <2>2, <2>3, <2>4
<1>6. \A i \in 1 .. Len(toClient') : toClient'[i][1] = "bytes" => E(toClient'[i][2])
  <2>0. \A i \in 1 .. Len(toClient) : toClient[i][1] = "bytes" => E(toClient[i][2])
    BY <1>0, <1>1 DEF Back
  <2>1. CASE toClient' = toClient
    BY <2>0, <2>1
  <2>2. CASE toClient' = <<>>
    BY <2>2
  <2>3. CASE toClient # <<>> /\ toClient' = Tail(toClient)
    BY <1>0, <2>0, <2>3
  <2>4. ASSUME NEW s \in {"zero", "huge"}, toClient' = toClient \o <<Length(s)>>
        PROVE  \A i \in 1 .. Len(toClient') : toClient'[i][1] = "bytes" => E(toClient'[i][2])
    <3>1. /\ Len(toClient') = Len(toClient) + 1 /\ toClient'[Len(toClient) + 1] = <<s, None>>
          /\ \A i \in 1 .. Len(toClient) : toClient'[i] = toClient[i]
          /\ Len(toClient) \in Nat
      BY <1>0, <2>4 DEF Length
    <3>2. \A i \in 1 .. Len(toClient') : i \in 1 .. Len(toClient) \/ i = Len(toClient) + 1
      BY <3>1
    <3>3. <<s, None>>[1] # "bytes"
      BY <2>4
    <3> QED
      BY <2>0, <3>1, <3>2, <3>3
  <2>5. ASSUME NEW r, Genuine(r), toClient' = toClient \o <<Length("full"), <<"bytes", r.attempt>> >>
        PROVE  \A i \in 1 .. Len(toClient') : toClient'[i][1] = "bytes" => E(toClient'[i][2])
    <3>1. /\ Len(toClient') = Len(toClient) + 2 /\ toClient'[Len(toClient) + 1] = <<"full", None>>
          /\ toClient'[Len(toClient) + 2] = <<"bytes", r.attempt>>
          /\ \A i \in 1 .. Len(toClient) : toClient'[i] = toClient[i]
          /\ Len(toClient) \in Nat
      BY <1>0, <2>5 DEF Length
    <3>2. \A i \in 1 .. Len(toClient') : i \in 1 .. Len(toClient) \/ i = Len(toClient) + 1 \/ i = Len(toClient) + 2
      BY <3>1
    <3>3. <<"full", None>>[1] # "bytes" /\ <<"bytes", r.attempt>>[2] = r.attempt /\ E(r.attempt)
      BY <1>1, <2>5 DEF Genuine
    <3> QED
      BY <2>0, <3>1, <3>2, <3>3
  <2>6. ASSUME NEW r, Genuine(r), AnswerWith(r)
        PROVE  \/ toClient' = toClient
               \/ toClient' = toClient \o <<Length("full"), <<"bytes", r.attempt>> >>
    BY <2>6 DEF AnswerWith, Acceptable, Genuine, Send
  <2>7. CASE ReceiveReply
    <3>1. AnswerWith(RxAt(0)) /\ RxCount > 0
      BY <2>7, RxSteps DEF RxLess
    <3>2. Genuine(RxAt(0))
      BY <1>0, <3>1 DEF Back
    <3> QED
      BY <2>1, <2>5, <2>6, <3>1, <3>2
  <2>8. CASE PopReply
    <3>1. AnswerWith(Head(replyQueue)) /\ Genuine(Head(replyQueue))
      BY <1>0, <2>8 DEF PopReply, Back
    <3> QED
      BY <2>1, <2>5, <2>6, <3>1
  <2>9. CASE ReceiveRequest \/ TimeOut
    BY <2>1, <2>4, <2>9 DEF ReceiveRequest, TimeOut, Send
  <2>10. CASE ReadLength \/ ReadBody \/ Reconnect
    BY <2>2, <2>3, <2>10 DEF ReadLength, ReadBody, Reconnect
  <2>11. CallSendCommand \/ Try \/ UNCHANGED vars \/ ClearReplyQueue \/ WritePacket \/ PublishPacket
         \/ SendPacket \/ FieldStep => toClient' = toClient
    BY DEF CallSendCommand, Try, vars, ClearReplyQueue, WritePacket, PublishPacket, SendPacket, FieldStep,
           TakeCommand, TakePacket, DeliverReply, PushReply, socketVars
  <2> QED
    BY <2>1, <2>7, <2>8, <2>9, <2>10, <2>11, Zenon DEF Next, ClientStep, ServerStep
<1> QED
  BY <1>3, <1>4, <1>5, <1>6 DEF Back, Genuine, HasEffect, E, G

\* Attempts take effect in their order.
LEMMA OrderKept ==
  ASSUME PathIInv, [Next]_vars
  PROVE  Order'
<1>0. /\ Serving /\ EffectsInOrder /\ RingInOrder /\ PacketsInOrder
      /\ effects \in Seq(Attempts) /\ packets \in Seq(Attempts)
      /\ TxCount \in 0 .. Slots /\ Slots \in Nat \ {0} /\ Last \in Nat
      /\ serving.attempt \in Nat /\ request.attempt \in Nat
      /\ serving \in Request \cup {NoRequest} /\ request \in Request \cup {NoRequest}
      /\ \A i \in 1 .. Len(effects) : effects[i] \in Nat
      /\ \A i \in 1 .. Len(packets) : packets[i] \in Nat
  <2>1. /\ Attempts \subseteq Nat
        /\ \A i \in 1 .. Len(effects) : effects[i] \in Attempts
        /\ \A i \in 1 .. Len(packets) : packets[i] \in Attempts
    BY Contents
  <2>2. /\ \A i \in 1 .. Len(effects) : effects[i] \in Nat
        /\ \A i \in 1 .. Len(packets) : packets[i] \in Nat
    BY <2>1
  <2>3. /\ Serving /\ EffectsInOrder /\ RingInOrder /\ PacketsInOrder
        /\ effects \in Seq(Attempts) /\ packets \in Seq(Attempts)
        /\ serving \in Request \cup {NoRequest} /\ request \in Request \cup {NoRequest}
    BY DEF PathIInv, Order, TypeOK
  <2>4. /\ TxCount \in 0 .. Slots /\ Slots \in Nat \ {0} /\ Last \in Nat
        /\ serving.attempt \in Nat /\ request.attempt \in Nat
    BY Basics
  <2> QED
    BY <2>2, <2>3, <2>4, Zenon
<1>s. \A r \in Request \cup {NoRequest} : r # NoRequest => r.attempt >= 1
  BY DEF Request, NoRequest, Attempts, None
\* Nothing moves on.
<1>q. ASSUME UNCHANGED effects, UNCHANGED packets, TxSame,
             serving'.attempt \in Nat, serving.attempt <= serving'.attempt
      PROVE  EffectsInOrder' /\ RingInOrder' /\ PacketsInOrder'
  <2>1. EffectsInOrder'
    BY <1>0, <1>q DEF EffectsInOrder
  <2>2. RingInOrder'
    <3>1. \A i \in 0 .. (TxCount - 1) : TxAt(i) \in 1 .. serving'.attempt
      BY <1>0, <1>q DEF RingInOrder
    <3> QED
      BY <1>0, <1>q, <3>1 DEF RingInOrder, TxSame
  <2>3. PacketsInOrder'
    BY <1>0, <1>q DEF PacketsInOrder
  <2> QED
    BY <2>1, <2>2, <2>3
<1>1. CASE ClientSide
  <2>1. UNCHANGED serverVars /\ UNCHANGED txVars /\ UNCHANGED fieldVars
    BY <1>1, ClientSideFrame
  <2>2. EffectsInOrder' /\ RingInOrder' /\ PacketsInOrder'
    <3>1. TxSame
      BY <2>1, TxSteps DEF txVars
    <3>2. serving'.attempt = serving.attempt
      BY <2>1 DEF serverVars
    <3> QED
      BY <1>0, <1>q, <2>1, <3>1, <3>2 DEF txVars, fieldVars
  <2>3. CASE Try
    <3>1. Last' = Last + 1 /\ request'.attempt = Last + 1 /\ UNCHANGED serving /\ UNCHANGED server
      BY <1>0, <2>1, <2>3 DEF Try, Last, serverVars, PathIInv, TypeOK
    <3>2. serving.attempt <= Last + 1 /\ Last + 1 > 0
      BY <1>0 DEF Serving
    <3>3. Serving'
      BY <1>0, <3>1, <3>2 DEF Serving
    <3> QED
      BY <2>2, <3>3 DEF Order
  <2>4. CASE ~Try
    <3>1. attempts' = attempts /\ request' \in {request, NoRequest}
      BY <1>1, <2>4 DEF ClientSide, ClientStep, CallSendCommand, Reconnect, ReadLength, ReadBody, vars,
                        clientVars, socketVars
    <3>2. Serving'
      BY <1>0, <2>1, <3>1 DEF Serving, Last, serverVars
    <3> QED
      BY <2>2, <3>2 DEF Order
  <2> QED
    BY <2>3, <2>4
<1>2. CASE ReceiveRequest
  <2>1. /\ request # NoRequest /\ request' = NoRequest /\ serving' = request
        /\ UNCHANGED txVars /\ UNCHANGED fieldVars /\ UNCHANGED attempts
    BY <1>2 DEF ReceiveRequest, clientVars
  <2>2. serving'.attempt = Last /\ serving'.attempt \in Nat /\ serving.attempt <= serving'.attempt
    BY <1>0, <2>1 DEF Serving
  <2>3. Serving'
    BY <1>0, <2>1, <2>2 DEF Serving, Last
  <2>4. TxSame
    BY <2>1, TxSteps DEF txVars
  <2> QED
    BY <1>q, <2>1, <2>2, <2>3, <2>4 DEF Order, txVars, fieldVars
<1>3. CASE ClearReplyQueue \/ WritePacket \/ ReceiveReply \/ PopReply \/ TimeOut
  <2>1. /\ UNCHANGED serving /\ UNCHANGED request /\ UNCHANGED attempts /\ UNCHANGED effects
        /\ UNCHANGED packets /\ server # "idle"
    BY <1>3 DEF ClearReplyQueue, WritePacket, ReceiveReply, PopReply, TimeOut, clientVars, socketVars,
                txVars, fieldVars
  <2>2. WritePacket \/ UNCHANGED <<txWrPointer, txRdPointer, txSlot>>
    BY <1>3 DEF ClearReplyQueue, WritePacket, ReceiveReply, PopReply, TimeOut, txVars
  <2>3. TxSame
    BY <2>2, TxSteps
  <2>4. Serving'
    BY <1>0, <2>1 DEF Serving, Last
  <2>5. serving'.attempt = serving.attempt
    BY <2>1
  <2> QED
    BY <1>0, <1>q, <2>1, <2>3, <2>4, <2>5 DEF Order
<1>4. CASE PublishPacket
  <2>1. /\ UNCHANGED serving /\ UNCHANGED request /\ UNCHANGED attempts /\ UNCHANGED effects
        /\ UNCHANGED packets /\ server # "idle"
    BY <1>4 DEF PublishPacket, clientVars, socketVars, fieldVars
  <2>2. TxCount' = TxCount + 1 /\ \A i \in 0 .. TxCount : TxAt(i)' = IF i < TxCount THEN TxAt(i) ELSE serving.attempt
    BY <1>4, TxSteps DEF TxMore
  <2>3. Serving' /\ EffectsInOrder' /\ PacketsInOrder'
    BY <1>0, <2>1 DEF Serving, EffectsInOrder, PacketsInOrder, Last
  <2>4. serving.attempt \in 1 .. serving.attempt
    BY <1>0, <1>s, <2>1 DEF Serving
  <2> DEFINE new(i) == IF i < TxCount THEN TxAt(i) ELSE serving.attempt
  <2>5. \A i \in 0 .. TxCount : /\ new(i) \in 1 .. serving.attempt
                                /\ \A k \in 0 .. TxCount : i <= k => new(i) <= new(k)
                                /\ \A k \in 1 .. Len(effects) : effects[k] <= new(i)
    <3> SUFFICES ASSUME NEW i \in 0 .. TxCount
                 PROVE  /\ new(i) \in 1 .. serving.attempt
                        /\ \A k \in 0 .. TxCount : i <= k => new(i) <= new(k)
                        /\ \A k \in 1 .. Len(effects) : effects[k] <= new(i)
      OBVIOUS
    <3>1. \A k \in 0 .. TxCount : k < TxCount => k \in 0 .. (TxCount - 1)
      BY <1>0
    <3>2. CASE i < TxCount
      <4>1. TxAt(i) \in 1 .. serving.attempt /\ \A k \in 1 .. Len(effects) : effects[k] <= TxAt(i)
        BY <1>0, <3>1, <3>2 DEF RingInOrder
      <4>2. \A k \in 0 .. TxCount : i <= k => TxAt(i) <= new(k)
        BY <1>0, <3>1, <3>2, <4>1 DEF RingInOrder
      <4> QED
        BY <3>2, <4>1, <4>2
    <3>3. CASE ~(i < TxCount)
      <4>1. \A k \in 1 .. Len(effects) : effects[k] <= serving.attempt
        BY <1>0 DEF EffectsInOrder
      <4>2. \A k \in 0 .. TxCount : i <= k => ~(k < TxCount)
        BY <1>0, <3>3
      <4> QED
        BY <1>0, <2>4, <3>3, <4>1, <4>2
    <3> QED
      BY <3>2, <3>3
  <2> HIDE DEF new
  <2>6. TxCount' - 1 = TxCount
    BY <1>0, <2>2
  <2>7. \A i \in 0 .. TxCount : TxAt(i)' = new(i)
    BY <2>2 DEF new
  <2>8. RingInOrder'
    BY <2>1, <2>5, <2>6, <2>7 DEF RingInOrder
  <2> QED
    BY <2>3, <2>8 DEF Order
<1>5. CASE SendPacket
  <2>1. /\ UNCHANGED serving /\ UNCHANGED request /\ UNCHANGED attempts /\ UNCHANGED effects
        /\ UNCHANGED <<txWrPointer, txRdPointer, txSlot>> /\ server # "idle"
        /\ packets' = Append(packets, serving.attempt)
    BY <1>5 DEF SendPacket, clientVars, socketVars, fieldVars
  <2>2. TxSame
    BY <2>1, TxSteps
  <2>3. Serving' /\ EffectsInOrder' /\ RingInOrder'
    BY <1>0, <2>1, <2>2 DEF Serving, EffectsInOrder, RingInOrder, Last, TxSame
  <2>4. /\ Len(packets') = Len(packets) + 1 /\ packets'[Len(packets) + 1] = serving.attempt
        /\ \A i \in 1 .. Len(packets) : packets'[i] = packets[i]
        /\ \A i \in 1 .. (Len(packets) + 1) : i \in 1 .. Len(packets) \/ i = Len(packets) + 1
        /\ Len(packets) \in Nat
    BY <1>0, <2>1
  <2>5. \A i \in 1 .. Len(packets') :
           /\ packets'[i] <= serving.attempt
           /\ \A k \in 1 .. Len(effects) : effects[k] <= packets'[i]
    BY <1>0, <2>4 DEF PacketsInOrder, EffectsInOrder
  <2>6. \A i, k \in 1 .. Len(packets') : i <= k => packets'[i] <= packets'[k]
    <3>1. \A i \in 1 .. Len(packets') : packets'[i] <= packets'[Len(packets) + 1]
      BY <2>4, <2>5
    <3>2. \A i, k \in 1 .. Len(packets') : i <= k /\ k # Len(packets) + 1 => i \in 1 .. Len(packets) /\ k \in 1 .. Len(packets)
      BY <2>4
    <3>3. \A i, k \in 1 .. Len(packets) : i <= k => packets[i] <= packets[k]
      BY <1>0 DEF PacketsInOrder
    <3> QED
      BY <2>4, <3>1, <3>2, <3>3
  <2>7. PacketsInOrder'
    BY <2>1, <2>5, <2>6 DEF PacketsInOrder
  <2> QED
    BY <2>3, <2>7 DEF Order
<1>6. CASE TakeCommand
  <2>1. /\ UNCHANGED serving /\ UNCHANGED request /\ UNCHANGED attempts /\ UNCHANGED server
        /\ UNCHANGED packets
    BY <1>6 DEF TakeCommand, clientVars, socketVars, serverVars
  <2>2. /\ TxCount > 0 /\ TxCount' = TxCount - 1
        /\ \A i \in 0 .. (TxCount - 2) : TxAt(i)' = TxAt(i + 1)
    BY <1>6, TxSteps DEF TxLess
  <2>3. effects' = effects \/ effects' = Append(effects, TxAt(0))
    BY <1>6, TxSteps DEF TakeCommand, Execute, fieldVars
  <2>4. packets = <<>>
    <3>1. medium # "udp"
      BY <2>2 DEF PathIInv, Medium
    <3> QED
      BY <3>1, CommandAssumption DEF PathIInv, Medium, TypeOK
  <2>5. Serving' /\ PacketsInOrder'
    BY <1>0, <2>1, <2>4 DEF Serving, PacketsInOrder, Last
  <2>6. 0 \in 0 .. (TxCount - 1) /\ \A i \in 0 .. (TxCount - 2) : i + 1 \in 0 .. (TxCount - 1) /\ 0 <= i + 1
    BY <1>0, <2>2
  <2>7. /\ TxAt(0) \in 1 .. serving.attempt
        /\ \A k \in 0 .. (TxCount - 1) : TxAt(0) <= TxAt(k)
        /\ \A k \in 1 .. Len(effects) : effects[k] <= TxAt(0)
    BY <1>0, <2>6 DEF RingInOrder
  <2>8. \A j \in 1 .. Len(effects') : effects'[j] \in Nat /\ effects'[j] <= TxAt(0)
    BY <1>0, <2>3, <2>7, SMTT(30)
  <2>9. EffectsInOrder'
    <3>1. \A j \in 1 .. Len(effects') : effects'[j] <= serving.attempt
      BY <1>0, <2>7, <2>8
    <3>2. \A j, k \in 1 .. Len(effects') : j <= k => effects'[j] <= effects'[k]
      <4>1. CASE effects' = effects
        BY <1>0, <4>1 DEF EffectsInOrder
      <4>2. CASE effects' = Append(effects, TxAt(0))
        <5>1. /\ Len(effects') = Len(effects) + 1 /\ effects'[Len(effects) + 1] = TxAt(0)
              /\ \A i \in 1 .. Len(effects) : effects'[i] = effects[i]
              /\ Len(effects) \in Nat
          BY <1>0, <4>2
        <5>2. \A i, k \in 1 .. Len(effects') : i <= k /\ k # Len(effects) + 1 => i \in 1 .. Len(effects) /\ k \in 1 .. Len(effects)
          BY <5>1
        <5>3. \A i, k \in 1 .. Len(effects) : i <= k => effects[i] <= effects[k]
          BY <1>0 DEF EffectsInOrder
        <5> QED
          BY <2>8, <5>1, <5>2, <5>3
      <4> QED
        BY <2>3, <4>1, <4>2
    <3> QED
      BY <2>1, <3>1, <3>2 DEF EffectsInOrder
  <2>10. RingInOrder'
    <3>1. TxCount' - 1 = TxCount - 2
      BY <1>0, <2>2
    <3>2. \A i \in 0 .. (TxCount - 2) :
            /\ TxAt(i + 1) \in 1 .. serving.attempt
            /\ \A k \in 0 .. (TxCount - 2) : i <= k => TxAt(i + 1) <= TxAt(k + 1)
            /\ \A k \in 1 .. Len(effects') : effects'[k] <= TxAt(i + 1)
      <4>1. \A i \in 0 .. (TxCount - 2) : TxAt(i + 1) \in 1 .. serving.attempt /\ TxAt(0) <= TxAt(i + 1)
        BY <1>0, <2>6, <2>7 DEF RingInOrder
      <4>2. \A i, k \in 0 .. (TxCount - 2) : i <= k => TxAt(i + 1) <= TxAt(k + 1)
        <5>1. \A i, k \in 0 .. (TxCount - 1) : i <= k => TxAt(i) <= TxAt(k)
          BY <1>0 DEF RingInOrder
        <5>2. \A i, k \in 0 .. (TxCount - 2) : i <= k => i + 1 <= k + 1
          BY <1>0
        <5> QED
          BY <2>6, <5>1, <5>2
      <4>3. \A i \in 0 .. (TxCount - 2) : \A k \in 1 .. Len(effects') : effects'[k] <= TxAt(i + 1)
        BY <1>0, <2>7, <2>8, <4>1
      <4> QED
        BY <4>1, <4>2, <4>3
    <3> QED
      BY <2>1, <2>2, <3>1, <3>2 DEF RingInOrder
  <2> QED
    BY <2>5, <2>9, <2>10 DEF Order
<1>7. CASE TakePacket
  <2>1. /\ UNCHANGED serving /\ UNCHANGED request /\ UNCHANGED attempts /\ UNCHANGED server
        /\ UNCHANGED <<txWrPointer, txRdPointer, txSlot>>
        /\ packets # <<>> /\ packets' = Tail(packets)
    BY <1>7 DEF TakePacket, clientVars, socketVars, serverVars
  <2>2. effects' = effects \/ effects' = Append(effects, packets[1])
    BY <1>0, <1>7 DEF TakePacket, Execute, fieldVars
  <2>3. TxCount = 0 /\ TxCount' = TxCount
    <3>1. TxSame
      BY <2>1, TxSteps
    <3>2. medium = "udp"
      BY <2>1, CommandAssumption DEF PathIInv, Medium, TypeOK
    <3> QED
      BY <3>1, <3>2 DEF PathIInv, Medium, TxSame
  <2>4. Serving' /\ RingInOrder'
    BY <1>0, <2>1, <2>3 DEF Serving, RingInOrder, Last
  <2>5. /\ 1 \in 1 .. Len(packets) /\ Len(packets') = Len(packets) - 1 /\ Len(packets) \in Nat
        /\ \A i \in 1 .. Len(packets') : i + 1 \in 1 .. Len(packets) /\ packets'[i] = packets[i + 1] /\ 1 <= i + 1
    BY <1>0, <2>1
  <2>6. /\ packets[1] \in Nat /\ packets[1] <= serving.attempt
        /\ \A k \in 1 .. Len(packets) : packets[1] <= packets[k]
        /\ \A k \in 1 .. Len(effects) : effects[k] <= packets[1]
    BY <1>0, <2>5 DEF PacketsInOrder
  <2>7. \A j \in 1 .. Len(effects') : effects'[j] \in Nat /\ effects'[j] <= packets[1]
    <3>1. CASE effects' = effects
      BY <1>0, <2>6, <3>1
    <3>2. CASE effects' = Append(effects, packets[1])
      <4>1. /\ Len(effects') = Len(effects) + 1 /\ effects'[Len(effects) + 1] = packets[1]
            /\ \A j \in 1 .. Len(effects) : effects'[j] = effects[j]
            /\ \A j \in 1 .. (Len(effects) + 1) : j \in 1 .. Len(effects) \/ j = Len(effects) + 1
        BY <1>0, <3>2
      <4> QED
        BY <1>0, <2>6, <4>1
    <3> QED
      BY <2>2, <3>1, <3>2
  <2>8. EffectsInOrder'
    <3>1. \A j \in 1 .. Len(effects') : effects'[j] <= serving.attempt
      BY <1>0, <2>6, <2>7
    <3>2. \A j, k \in 1 .. Len(effects') : j <= k => effects'[j] <= effects'[k]
      <4>1. CASE effects' = effects
        BY <1>0, <4>1 DEF EffectsInOrder
      <4>2. CASE effects' = Append(effects, packets[1])
        <5>1. /\ Len(effects') = Len(effects) + 1 /\ effects'[Len(effects) + 1] = packets[1]
              /\ \A i \in 1 .. Len(effects) : effects'[i] = effects[i]
              /\ Len(effects) \in Nat
          BY <1>0, <4>2
        <5>2. \A i, k \in 1 .. Len(effects') : i <= k /\ k # Len(effects) + 1 => i \in 1 .. Len(effects) /\ k \in 1 .. Len(effects)
          BY <5>1
        <5>3. \A i, k \in 1 .. Len(effects) : i <= k => effects[i] <= effects[k]
          BY <1>0 DEF EffectsInOrder
        <5> QED
          BY <2>7, <5>1, <5>2, <5>3
      <4> QED
        BY <2>2, <4>1, <4>2
    <3> QED
      BY <2>1, <3>1, <3>2 DEF EffectsInOrder
  <2>9. PacketsInOrder'
    <3>1. \A i \in 1 .. Len(packets') :
            /\ packets[i + 1] <= serving.attempt
            /\ \A k \in 1 .. Len(packets') : i <= k => packets[i + 1] <= packets[k + 1]
            /\ packets[1] <= packets[i + 1] /\ packets[i + 1] \in Nat
      <4>1. \A i, k \in 1 .. Len(packets') : i <= k => i + 1 <= k + 1
        BY <2>5
      <4> QED
        BY <1>0, <2>5, <2>6, <4>1 DEF PacketsInOrder
    <3>2. \A i \in 1 .. Len(packets') : \A k \in 1 .. Len(effects') : effects'[k] <= packets[i + 1]
      BY <2>6, <2>7, <3>1
    <3> QED
      BY <2>1, <2>5, <3>1, <3>2 DEF PacketsInOrder
  <2> QED
    BY <2>4, <2>8, <2>9 DEF Order
<1>8. CASE DeliverReply \/ PushReply
  <2>1. /\ UNCHANGED serving /\ UNCHANGED request /\ UNCHANGED attempts /\ UNCHANGED effects
        /\ UNCHANGED txVars /\ UNCHANGED server
    BY <1>8 DEF DeliverReply, PushReply, clientVars, socketVars, serverVars
  <2>2. TxSame
    BY <2>1, TxSteps DEF txVars
  <2>3. Serving'
    BY <1>0, <2>1 DEF Serving, Last
  <2>4. serving'.attempt = serving.attempt
    BY <2>1
  <2> QED
    BY <1>0, <1>q, <2>1, <2>2, <2>3, <2>4 DEF Order, txVars
<1> QED
  BY <1>1, <1>2, <1>3, <1>4, <1>5, <1>6, <1>7, <1>8, Zenon DEF ClientSide, Next, ServerStep, FieldStep

\* What has taken effect has been tried, so that replies are to attempts.
LEMMA RepliesToAttempts ==
  ASSUME PathIInv
  PROVE  /\ \A a : HasEffect(a) => a \in 1 .. Last
         /\ \A r \in replies : r.attempt \in 1 .. Last
         /\ \A i \in 0 .. (RxCount - 1) : RxAt(i).attempt \in 1 .. Last
         /\ \A i \in 1 .. Len(replyQueue) : replyQueue[i].attempt \in 1 .. Last
<1>1. \A i \in 1 .. Len(effects) : effects[i] \in 1 .. Last
  <2>1. \A i \in 1 .. Len(effects) : effects[i] \in Nat \ {0}
    BY Contents
  <2>2. serving.attempt <= Last /\ \A i \in 1 .. Len(effects) : effects[i] <= serving.attempt
    BY DEF PathIInv, Order, Serving, EffectsInOrder
  <2>3. serving.attempt \in Nat /\ Last \in Nat
    BY Basics
  <2> QED
    BY <2>1, <2>2, <2>3
<1>2. \A a : HasEffect(a) => a \in 1 .. Last
  BY <1>1 DEF HasEffect
<1> QED
  BY <1>2 DEF PathIInv, Back, Genuine

\* The reply with which the daemon answers the client is to its latest attempt.
LEMMA OwnReply ==
  ASSUME PathIInv, Mine, server = "poll"
  PROVE  /\ RxCount > 0 /\ Acceptable(RxAt(0)) /\ Matches(RxAt(0))
              => RxAt(0).kind = "good" /\ RxAt(0).attempt = Last
         /\ replyQueue # <<>> /\ Acceptable(Head(replyQueue)) /\ Matches(Head(replyQueue))
              => Head(replyQueue).kind = "good" /\ Head(replyQueue).attempt = Last
<1>1. serving.attempt = Last
  BY DEF PathIInv, Dialogue
<1>2. \A r : Matches(r) => SN(r.attempt) = SN(Last)
  BY <1>1 DEF Matches, SN
<1>3. RxCount > 0 => 0 \in 0 .. (RxCount - 1)
  BY Basics
<1>4. replyQueue # <<>> => 1 \in 1 .. Len(replyQueue) /\ Head(replyQueue) = replyQueue[1]
  BY DEF PathIInv, TypeOK
<1>5. \A r : Genuine(r) /\ Acceptable(r) => r.kind = "good"
  BY DEF Genuine, Acceptable
<1>6. RxCount > 0 /\ Matches(RxAt(0)) => RxAt(0).attempt = Last
  BY <1>2, <1>3 DEF PathIInv, RingClear
<1>7. replyQueue # <<>> /\ Matches(replyQueue[1]) => replyQueue[1].attempt = Last
  BY <1>2, <1>4 DEF PathIInv, QueueClear, Pending
<1> QED
  BY <1>3, <1>4, <1>5, <1>6, <1>7 DEF PathIInv, Back

\* Client and daemon take turns, and what the client reads is meant for it.
LEMMA DialogueKept ==
  ASSUME PathIInv, [Next]_vars
  PROVE  Dialogue'
<1>0. /\ Dialogue /\ Last \in Nat /\ connection \in Nat /\ serving.connection \in Nat
      /\ request \in Request \cup {NoRequest} /\ toClient \in Seq(Items)
      /\ NoRequest # [attempt |-> Last + 1, connection |-> connection]
  <2>1. Last + 1 # None
    BY Basics DEF None
  <2>2. NoRequest # [attempt |-> Last + 1, connection |-> connection]
    BY <2>1 DEF NoRequest
  <2> QED
    BY <2>2, Basics DEF PathIInv, TypeOK, Items
<1>1. ASSUME UNCHANGED clientVars, UNCHANGED socketVars, UNCHANGED serving,
             (server' = "idle") <=> (server = "idle")
      PROVE  Dialogue'
  BY <1>0, <1>1 DEF Dialogue, Mine, Pending, Answers, Last, clientVars, socketVars
<1>2. CASE CallSendCommand
  <2>1. /\ client = "idle" /\ client' = "try" /\ UNCHANGED <<connection, attempts, request, toClient, server, serving>>
    BY <1>2 DEF CallSendCommand, socketVars, serverVars
  <2> QED
    BY <1>0, <2>1 DEF Dialogue, Mine, Pending, Last
<1>3. CASE Try
  <2>1. /\ client = "try" /\ client' = "length" /\ UNCHANGED <<connection, toClient, server, serving>>
        /\ request' = [attempt |-> Last + 1, connection |-> connection]
    BY <1>3 DEF Try, serverVars, Last
  <2>2. ~Mine /\ ~Mine' /\ toClient = <<>>
    BY <1>0, <2>1 DEF Dialogue, Pending, Mine
  <2>3. Pending' /\ request'.connection = connection
    BY <1>0, <2>1 DEF Pending
  <2> QED
    BY <1>0, <2>1, <2>2, <2>3 DEF Dialogue
<1>4. CASE ReadLength
  <2>1. /\ client = "length" /\ toClient # <<>> /\ toClient' = Tail(toClient)
        /\ UNCHANGED <<connection, attempts, request, server, serving>>
    BY <1>4 DEF ReadLength, serverVars
  <2>2. ~Pending /\ ~Pending' /\ Mine' = Mine /\ toClient \in Answers
    BY <1>0, <2>1 DEF Dialogue, Pending, Mine
  <2>3. \/ client' \in {"idle", "try"} /\ toClient' = <<>>
        \/ client' = "body" /\ toClient' \in { <<>>, << <<"bytes", Last>> >> }
    <3>1. CASE toClient = <<Length("zero")>>
      BY <1>4, <3>1 DEF ReadLength, Length
    <3>2. CASE toClient = <<Length("huge")>>
      BY <1>4, <3>2 DEF ReadLength, Length
    <3>3. CASE toClient = <<Length("full"), <<"bytes", Last>> >>
      BY <1>4, <3>3 DEF ReadLength, Length
    <3> QED
      BY <2>2, <3>1, <3>2, <3>3 DEF Answers
  <2> QED
    BY <1>0, <2>1, <2>2, <2>3 DEF Dialogue, Pending, Last
<1>5. CASE ReadBody
  <2>1. /\ client = "body" /\ client' = "idle" /\ toClient # <<>> /\ toClient' = Tail(toClient)
        /\ UNCHANGED <<connection, attempts, request, server, serving>>
    BY <1>5 DEF ReadBody, serverVars
  <2>2. toClient = << <<"bytes", Last>> >> /\ ~Pending /\ ~Pending' /\ Mine' = Mine
    BY <1>0, <2>1 DEF Dialogue, Pending, Mine
  <2>3. toClient' = <<>>
    BY <2>1, <2>2
  <2> QED
    BY <1>0, <2>1, <2>2, <2>3 DEF Dialogue, Pending
<1>6. CASE Reconnect
  <2>1. /\ connection' = connection + 1 /\ client' = "idle" /\ toClient' = <<>> /\ request' = NoRequest
        /\ UNCHANGED <<server, serving>>
    BY <1>6 DEF Reconnect, serverVars
  <2>2. serving.connection <= connection + 1 /\ serving.connection # connection + 1
    BY <1>0 DEF Dialogue
  <2>3. ~Mine' /\ ~Pending'
    BY <2>1, <2>2 DEF Mine, Pending
  <2> QED
    BY <2>1, <2>2, <2>3 DEF Dialogue
<1>7. CASE ReceiveRequest
  <2>1. /\ server = "idle" /\ request # NoRequest /\ request' = NoRequest /\ serving' = request
        /\ UNCHANGED clientVars
    BY <1>7 DEF ReceiveRequest
  <2>2. /\ client = "length" /\ toClient = <<>> /\ request.connection = connection
    BY <1>0, <2>1 DEF Dialogue, Pending
  <2>3. request.attempt = Last
    BY <2>1 DEF PathIInv, Order, Serving
  <2>4. /\ client' = "length" /\ connection' = connection /\ Last' = Last
        /\ serving'.connection <= connection' /\ serving'.attempt = Last'
    BY <1>0, <2>1, <2>2, <2>3 DEF clientVars, Last
  <2>5. \/ server' # "idle" /\ toClient' = <<>>
        \/ server' = "idle" /\ toClient' \in Answers
    <3>1. server' = "idle" /\ Send(request, <<Length("huge")>>) => toClient' = <<Length("huge")>>
      BY <2>2 DEF Send, Length
    <3> QED
      BY <1>7, <2>2, <3>1 DEF ReceiveRequest, Answers
  <2>6. Answers' = Answers
    BY <2>4 DEF Answers, Length, None
  <2>7. Pending' => server' # "idle"
    BY <2>1 DEF Pending, Mine
  <2>8. toClient' # <<>> => server' = "idle" /\ ~Mine'
    BY <2>5 DEF Mine
  <2>9. server' = "idle" => toClient' \in Answers
    BY <2>5
  <2>10. server' # "idle" => Mine'
    BY <2>1, <2>2, <2>4 DEF Mine, clientVars
  <2>11. /\ request' = NoRequest
         /\ Pending' => toClient' = <<>>
         /\ ~Pending' => toClient' \in Answers'
    BY <2>1, <2>6, <2>7, <2>8, <2>9, <2>10 DEF Pending
  <2> QED
    BY <2>4, <2>11 DEF Dialogue
<1>8. CASE ClearReplyQueue \/ WritePacket \/ PublishPacket \/ SendPacket
  <2>1. UNCHANGED clientVars /\ UNCHANGED socketVars /\ UNCHANGED serving /\ server # "idle" /\ server' # "idle"
    BY <1>8 DEF ClearReplyQueue, WritePacket, PublishPacket, SendPacket
  <2> QED
    BY <1>1, <2>1
<1>9. ASSUME server = "poll", server' = "idle", UNCHANGED clientVars, UNCHANGED request, UNCHANGED serving,
             NEW s, Send(serving, s), s \in Answers \/ ~Mine
      PROVE  Dialogue'
  <2>1. CASE Mine
    <3>1. client = "length" /\ toClient = <<>> /\ serving.attempt = Last /\ request = NoRequest
      BY <1>0, <2>1 DEF Dialogue, Pending
    <3>2. toClient' = s
      <4>1. s \in Seq(Items)
        <5>1. Last \in Attempts \cup {None}
          <6>1. serving \in Request \cup {NoRequest}
            BY DEF PathIInv, TypeOK
          <6> QED
            BY <3>1, <6>1 DEF Request, NoRequest
        <5>2. s \in Answers
          BY <1>9, <2>1
        <5>3. <<"zero", None>> \in Items /\ <<"huge", None>> \in Items /\ <<"full", None>> \in Items
              /\ <<"bytes", Last>> \in Items
          BY <5>1 DEF Items
        <5>4. \A x \in Items : <<x>> \in Seq(Items)
          OBVIOUS
        <5>5. \A x, y \in Items : <<x, y>> \in Seq(Items)
          OBVIOUS
        <5> QED
          BY <5>2, <5>3, <5>4, <5>5, Zenon DEF Answers, Length
      <4>2. toClient' = <<>> \o s
        BY <1>9, <2>1, <3>1 DEF Send, Mine
      <4> QED
        BY <4>1, <4>2
    <3>3. ~Mine' /\ ~Pending' /\ Last' = Last /\ client' = "length"
      BY <1>9, <3>1 DEF Mine, Pending, clientVars, Last
    <3>4. toClient' \in Answers'
      BY <1>9, <2>1, <3>2, <3>3 DEF Answers, Length, None
    <3> QED
      BY <1>0, <1>9, <3>1, <3>3, <3>4 DEF Dialogue, clientVars
  <2>2. CASE ~Mine
    <3>1. serving.connection # connection
      BY <1>9, <2>2 DEF Mine
    <3>2. toClient' = toClient
      BY <1>9, <3>1 DEF Send
    <3>3. ~Mine' /\ Pending' = Pending /\ Last' = Last
      BY <1>9, <2>2 DEF Mine, Pending, clientVars, Last
    <3> QED
      BY <1>0, <1>9, <2>2, <3>2, <3>3 DEF Dialogue, clientVars, Answers
  <2> QED
    BY <2>1, <2>2
<1>10. ASSUME NEW r, AnswerWith(r), server = "poll", UNCHANGED clientVars, UNCHANGED request, UNCHANGED serving,
              Genuine(r), Mine /\ Acceptable(r) /\ Matches(r) => r.kind = "good" /\ r.attempt = Last
       PROVE  Dialogue'
  <2>1. CASE Acceptable(r) /\ Matches(r)
    <3>1. r.kind = "good"
      BY <1>10, <2>1 DEF Acceptable, Genuine
    <3>2. server' = "idle" /\ Send(serving, <<Length("full"), <<"bytes", r.attempt>> >>)
      BY <1>10, <2>1, <3>1 DEF AnswerWith
    <3>3. <<Length("full"), <<"bytes", r.attempt>> >> \in Answers \/ ~Mine
      BY <1>10, <2>1 DEF Answers
    <3> QED
      BY <1>9, <1>10, <3>2, <3>3
  <2>2. CASE ~(Acceptable(r) /\ Matches(r))
    <3>1. UNCHANGED socketVars /\ server' = server
      BY <1>10, <2>2 DEF AnswerWith, socketVars
    <3> QED
      BY <1>1, <1>10, <3>1
  <2> QED
    BY <2>1, <2>2
<1>11. CASE ReceiveReply
  <2>1. /\ AnswerWith(RxAt(0)) /\ RxCount > 0 /\ server = "poll"
        /\ UNCHANGED clientVars /\ UNCHANGED request /\ UNCHANGED serving
    BY <1>11, RxSteps DEF ReceiveReply, RxLess
  <2>2. 0 \in 0 .. (RxCount - 1)
    BY <2>1, Basics
  <2>3. Genuine(RxAt(0))
    BY <2>2 DEF PathIInv, Back
  <2> QED
    BY <1>10, <2>1, <2>3, OwnReply
<1>12. CASE PopReply
  <2>1. /\ AnswerWith(Head(replyQueue)) /\ replyQueue # <<>> /\ server = "poll"
        /\ UNCHANGED clientVars /\ UNCHANGED request /\ UNCHANGED serving
    BY <1>12 DEF PopReply
  <2>2. 1 \in 1 .. Len(replyQueue) /\ Head(replyQueue) = replyQueue[1]
    BY <2>1 DEF PathIInv, TypeOK
  <2>3. Genuine(Head(replyQueue))
    BY <2>2 DEF PathIInv, Back
  <2> QED
    BY <1>10, <2>1, <2>3, OwnReply
<1>13. CASE TimeOut
  <2>1. <<Length("zero")>> \in Answers
    BY DEF Answers
  <2> QED
    BY <1>9, <1>13, <2>1 DEF TimeOut
<1>14. CASE FieldStep
  <2>1. UNCHANGED clientVars /\ UNCHANGED socketVars /\ UNCHANGED serverVars
    BY <1>14 DEF FieldStep, TakeCommand, TakePacket, DeliverReply, PushReply
  <2> QED
    BY <1>1, <2>1 DEF serverVars
<1>15. CASE UNCHANGED vars
  BY <1>1, <1>15 DEF vars, serverVars
<1> QED
  BY <1>2, <1>3, <1>4, <1>5, <1>6, <1>7, <1>8, <1>11, <1>12, <1>13, <1>14, <1>15, Zenon
  DEF Next, ClientStep, ServerStep

\* No reply in the card's ring will be mistaken for the one to the latest attempt.
LEMMA RingClearKept ==
  ASSUME PathIInv, [Next]_vars
  PROVE  RingClear'
<1> DEFINE Polls == Mine /\ server \in {"write", "publish", "poll"}
<1>0. /\ RxCount \in 0 .. Slots /\ Slots \in Nat \ {0} /\ Last \in Nat
      /\ Dialogue /\ server \in {"idle", "clear", "write", "publish", "poll"} /\ medium \in {"card", "udp"}
      /\ Polls => \A i \in 0 .. (RxCount - 1) : SN(RxAt(i).attempt) = SN(Last) => RxAt(i).attempt = Last
  BY Basics, CommandAssumption DEF PathIInv, TypeOK, RingClear
<1>1. ASSUME UNCHANGED attempts, Polls' => Polls, RxSame
      PROVE  RingClear'
  BY <1>0, <1>1 DEF RingClear, RxSame, SN, Last
<1>2. ASSUME ~Polls' PROVE RingClear'
  BY <1>2 DEF RingClear
<1>3. ASSUME RxCount' = 0 PROVE RingClear'
  BY <1>3 DEF RingClear
<1>4. CASE ClientSide
  <2>1. UNCHANGED serverVars /\ UNCHANGED rxVars
    BY <1>4, ClientSideFrame
  <2>2. CASE Try
    <3>1. ~Mine /\ UNCHANGED connection
      BY <1>0, <2>2 DEF Try, Dialogue, Pending
    <3>2. ~Mine'
      BY <2>1, <3>1 DEF Mine, serverVars
    <3> QED
      BY <1>2, <3>2
  <2>3. CASE Reconnect
    <3>1. ~Mine'
      BY <1>0, <2>1, <2>3, Basics DEF Reconnect, Dialogue, Mine, serverVars
    <3> QED
      BY <1>2, <3>1
  <2>4. CASE ~Try /\ ~Reconnect
    <3>1. UNCHANGED attempts /\ UNCHANGED connection
      BY <1>4, <2>4 DEF ClientSide, CallSendCommand, ClientStep, ReadLength, ReadBody, vars, clientVars
    <3>2. RxSame
      BY <2>1, RxSteps DEF rxVars
    <3>3. Polls' => Polls
      BY <2>1, <3>1 DEF Mine, serverVars
    <3> QED
      BY <1>1, <3>1, <3>2, <3>3
  <2> QED
    BY <2>2, <2>3, <2>4
<1>5. CASE ReceiveRequest
  <2>1. CASE medium = "card"
    BY <1>2, <1>5, <2>1 DEF ReceiveRequest
  <2>2. CASE medium = "udp"
    <3>1. RxCount = 0 /\ RxCount' = RxCount
      BY <1>5, <2>2 DEF ReceiveRequest, PathIInv, Medium, rxVars, RxCount
    <3> QED
      BY <1>3, <3>1
  <2> QED
    BY <1>0, <2>1, <2>2
<1>6. CASE ClearReplyQueue
  <2>1. CASE RxCount = 0
    BY <1>3, <1>6, <2>1, RxSteps DEF RxSame
  <2>2. CASE RxCount # 0
    BY <1>3, <1>6, <2>2, RxSteps
  <2> QED
    BY <2>1, <2>2
<1>7. CASE WritePacket \/ PublishPacket \/ SendPacket \/ PopReply \/ TimeOut
  <2>1. /\ UNCHANGED clientVars /\ UNCHANGED serving /\ server \in {"write", "publish", "poll"}
        /\ UNCHANGED <<rxWrPointer, rxRdPointer, rxSlot>>
    BY <1>7 DEF WritePacket, PublishPacket, SendPacket, PopReply, TimeOut, rxVars
  <2>2. RxSame
    BY <2>1, RxSteps
  <2>3. Polls' => Polls
    BY <2>1 DEF Mine, clientVars
  <2> QED
    BY <1>1, <2>1, <2>2, <2>3 DEF clientVars
<1>8. CASE ReceiveReply
  <2>1. UNCHANGED clientVars /\ UNCHANGED serving /\ server = "poll"
    BY <1>8 DEF ReceiveReply
  <2>2. /\ RxCount > 0 /\ RxCount' = RxCount - 1
        /\ \A i \in 0 .. (RxCount - 2) : RxAt(i)' = RxAt(i + 1)
    BY <1>8, RxSteps DEF RxLess
  <2>3. Polls' => Polls
    BY <2>1 DEF Mine, clientVars
  <2>4. \A i \in 0 .. (RxCount - 2) : i + 1 \in 0 .. (RxCount - 1)
    BY <1>0
  <2>5. Polls => \A i \in 0 .. (RxCount - 2) : SN(RxAt(i + 1).attempt) = SN(Last) => RxAt(i + 1).attempt = Last
    BY <1>0, <2>4
  <2>6. RxCount' - 1 = RxCount - 2
    BY <1>0, <2>2
  <2>7. UNCHANGED attempts
    BY <2>1 DEF clientVars
  <2>8. Polls' => \A i \in 0 .. (RxCount' - 1) : attempts[RxAt(i)'.attempt].sn = attempts[Last].sn => RxAt(i)'.attempt = Last
    BY <2>2, <2>3, <2>5, <2>6 DEF SN
  <2> QED
    BY <2>7, <2>8 DEF RingClear, SN, Last
<1>9. CASE TakeCommand \/ TakePacket \/ PushReply
  <2>1. /\ UNCHANGED clientVars /\ UNCHANGED serverVars
        /\ UNCHANGED <<rxWrPointer, rxRdPointer, rxSlot>>
    BY <1>9 DEF TakeCommand, TakePacket, PushReply, rxVars
  <2>2. RxSame
    BY <2>1, RxSteps
  <2>3. Polls' => Polls
    BY <2>1 DEF Mine, clientVars, serverVars
  <2> QED
    BY <1>1, <2>1, <2>2, <2>3 DEF clientVars
<1>10. CASE DeliverReply
  <2>1. UNCHANGED clientVars /\ UNCHANGED serverVars
    BY <1>10 DEF DeliverReply
  <2>2. PICK r \in replies :
          /\ NotReused(r.attempt) /\ RxCount' = RxCount + 1
          /\ \A i \in 0 .. RxCount : RxAt(i)' = IF i < RxCount THEN RxAt(i) ELSE r
    BY <1>10, RxSteps DEF RxMore
  <2>3. SN(r.attempt) = SN(Last) => r.attempt = Last
    <3>1. r.attempt \in 1 .. Last
      BY RepliesToAttempts
    <3>2. r.attempt < Last => Last \in (r.attempt + 1) .. Len(attempts)
      BY <1>0, <3>1 DEF Last
    <3>3. r.attempt < Last \/ r.attempt = Last
      BY <1>0, <3>1
    <3> QED
      BY <2>2, <3>2, <3>3 DEF NotReused, SN
  <2>4. Polls' => Polls
    BY <2>1 DEF Mine, clientVars, serverVars
  <2>5. \A i \in 0 .. RxCount : i < RxCount => i \in 0 .. (RxCount - 1)
    BY <1>0
  <2>6. Polls => \A i \in 0 .. RxCount : SN(RxAt(i)'.attempt) = SN(Last) => RxAt(i)'.attempt = Last
    BY <1>0, <2>2, <2>3, <2>5
  <2>7. RxCount' - 1 = RxCount
    BY <1>0, <2>2
  <2>8. UNCHANGED attempts
    BY <2>1 DEF clientVars
  <2>9. Polls' => \A i \in 0 .. (RxCount' - 1) : attempts[RxAt(i)'.attempt].sn = attempts[Last].sn => RxAt(i)'.attempt = Last
    BY <2>4, <2>6, <2>7 DEF SN
  <2> QED
    BY <2>8, <2>9 DEF RingClear, SN, Last
<1> QED
  BY <1>4, <1>5, <1>6, <1>7, <1>8, <1>9, <1>10, Zenon DEF ClientSide, Next, ServerStep, FieldStep

\* Nor will one in the queue.
LEMMA QueueClearKept ==
  ASSUME PathIInv, [Next]_vars
  PROVE  QueueClear'
<1> DEFINE Clear1(q, a, sn, l) ==
             \A i \in 1 .. Len(q) :
               /\ a[q[i].attempt].sn = a[l].sn => q[i].attempt = l
               /\ \A k \in 1 .. (i - 1) :
                    q[k].attempt = l /\ q[k].kind = "good" => a[q[i].attempt].sn # sn
           Clear2(q, a, sn) == \A i \in 1 .. Len(q) : a[q[i].attempt].sn # sn
<1>d. /\ QueueClear <=> IF Pending THEN Clear1(replyQueue, attempts, lastSN, Last)
                                   ELSE Clear2(replyQueue, attempts, lastSN)
      /\ QueueClear' <=> IF Pending' THEN Clear1(replyQueue', attempts', lastSN', Last')
                                     ELSE Clear2(replyQueue', attempts', lastSN')
  BY DEF QueueClear, SN
<1>0. /\ Last \in Nat /\ Dialogue /\ replyQueue \in Seq(Replies) /\ attempts \in Seq([command : Commands, sn : 0 .. (SerialNumbers - 1)])
      /\ IF Pending THEN Clear1(replyQueue, attempts, lastSN, Last) ELSE Clear2(replyQueue, attempts, lastSN)
  BY <1>d, Basics, Zenon DEF PathIInv, TypeOK
<1>r. \A i \in 1 .. Len(replyQueue) : replyQueue[i].attempt \in 1 .. Last
  BY RepliesToAttempts
<1>1. ASSUME UNCHANGED <<attempts, lastSN, replyQueue>>, Pending' = Pending
      PROVE  QueueClear'
  BY <1>0, <1>d, <1>1 DEF Last
<1>2. ASSUME replyQueue' = <<>> PROVE QueueClear'
  BY <1>d, <1>2
<1> HIDE DEF Clear1, Clear2
<1>3. CASE CallSendCommand \/ ReadLength \/ ReadBody \/ UNCHANGED vars
  <2>1. UNCHANGED <<attempts, lastSN, replyQueue, request, server, serving, connection>>
    BY <1>3 DEF CallSendCommand, ReadLength, ReadBody, vars, clientVars, socketVars, serverVars, rxVars
  <2> QED
    BY <1>1, <2>1 DEF Pending, Mine
<1>4. CASE Try
  <2>1. /\ attempts' = Append(attempts, [command |-> command, sn |-> lastSN])
        /\ UNCHANGED replyQueue /\ ~Pending /\ request' = [attempt |-> Last + 1, connection |-> connection]
    BY <1>0, <1>4 DEF Try, Dialogue, rxVars, Last
  <2>2. Pending'
    <3>1. Last + 1 # None
      BY <1>0 DEF None
    <3>2. request' # NoRequest
      BY <2>1, <3>1 DEF NoRequest
    <3> QED
      BY <3>2 DEF Pending
  <2>3. Last' = Last + 1 /\ attempts'[Last + 1].sn = lastSN
    BY <1>0, <2>1 DEF Last
  <2>4. \A i \in 1 .. Last : attempts'[i] = attempts[i]
    BY <1>0, <2>1 DEF Last
  <2>5. \A i \in 1 .. Len(replyQueue) :
          attempts'[replyQueue[i].attempt].sn # lastSN /\ replyQueue[i].attempt # Last + 1
    <3>1. \A i \in 1 .. Len(replyQueue) : attempts[replyQueue[i].attempt].sn # lastSN
      BY <1>0, <2>1 DEF Clear2
    <3>2. \A i \in 1 .. Last : i # Last + 1
      BY <1>0
    <3> QED
      BY <1>r, <2>4, <3>1, <3>2
  <2>6. \A i \in 1 .. Len(replyQueue) : \A k \in 1 .. (i - 1) : k \in 1 .. Len(replyQueue)
    BY <1>0
  <2>7. Clear1(replyQueue', attempts', lastSN', Last')
    BY <2>1, <2>3, <2>5, <2>6 DEF Clear1
  <2> QED
    BY <1>d, <2>2, <2>7
<1>5. CASE Reconnect
  <2>1. /\ \A i \in DOMAIN replyQueue : attempts[replyQueue[i].attempt].sn # lastSN'
        /\ UNCHANGED attempts /\ UNCHANGED replyQueue /\ request' = NoRequest
        /\ UNCHANGED serving /\ connection' = connection + 1
    BY <1>5 DEF Reconnect, serverVars, rxVars
  <2>2. ~Pending'
    BY <1>0, <2>1, Basics DEF Pending, Mine, Dialogue
  <2>3. Clear2(replyQueue', attempts', lastSN')
    BY <1>0, <2>1 DEF Clear2
  <2> QED
    BY <1>d, <2>2, <2>3
<1>6. CASE ReceiveRequest
  <2>1. CASE medium = "card"
    BY <1>2, <1>6, <2>1 DEF ReceiveRequest, PathIInv, Medium, rxVars
  <2>2. CASE medium # "card"
    <3>1. /\ UNCHANGED <<attempts, lastSN, replyQueue, connection>>
          /\ request # NoRequest /\ serving' = request /\ server' = "write"
      BY <1>6, <2>2 DEF ReceiveRequest, clientVars, rxVars
    <3>2. Pending /\ Pending'
      BY <1>0, <3>1 DEF Pending, Mine, Dialogue
    <3> QED
      BY <1>1, <3>1, <3>2
  <2> QED
    BY <2>1, <2>2
<1>7. CASE ClearReplyQueue \/ WritePacket \/ PublishPacket \/ SendPacket
  <2>1. /\ UNCHANGED <<attempts, lastSN, replyQueue, request, serving, connection>>
        /\ server # "idle" /\ server' # "idle"
    BY <1>7 DEF ClearReplyQueue, WritePacket, PublishPacket, SendPacket, clientVars, socketVars, rxVars
  <2> QED
    BY <1>1, <2>1 DEF Pending, Mine
<1>8. CASE ReceiveReply
  <2>1. RxCount > 0 /\ RxCount \in Nat
    BY <1>8, RxSteps, Basics DEF RxLess
  <2>2. medium = "card"
    BY <2>1, CommandAssumption DEF PathIInv, Medium, TypeOK
  <2> QED
    BY <1>2, <1>8, <2>2 DEF ReceiveReply, PathIInv, Medium
<1>9. CASE PopReply
  <2>1. /\ server = "poll" /\ replyQueue # <<>> /\ replyQueue' = Tail(replyQueue)
        /\ AnswerWith(Head(replyQueue))
        /\ UNCHANGED <<attempts, lastSN, request, serving, connection>>
    BY <1>9 DEF PopReply, clientVars
  <2>2. /\ Len(replyQueue) \in Nat /\ Len(replyQueue') = Len(replyQueue) - 1
        /\ 1 \in 1 .. Len(replyQueue) /\ Head(replyQueue) = replyQueue[1]
        /\ \A i \in 1 .. Len(replyQueue') : i + 1 \in 1 .. Len(replyQueue) /\ replyQueue'[i] = replyQueue[i + 1]
    BY <1>0, <2>1
  <2>3. Last' = Last
    BY <2>1 DEF Last
  <2>4. CASE Pending' = Pending
    <3>1. CASE Pending
      <4>1. Clear1(replyQueue, attempts, lastSN, Last)
        BY <1>0, <3>1
      <4>2. \A i \in 1 .. Len(replyQueue') : \A k \in 1 .. (i - 1) :
              k + 1 \in 1 .. ((i + 1) - 1) /\ k \in 1 .. Len(replyQueue')
        BY <2>2
      <4>3. Clear1(replyQueue', attempts, lastSN, Last)
        BY <2>2, <4>1, <4>2 DEF Clear1
      <4> QED
        BY <1>d, <2>1, <2>3, <2>4, <3>1, <4>3
    <3>2. CASE ~Pending
      <4>1. Clear2(replyQueue', attempts, lastSN)
        BY <1>0, <2>2, <3>2 DEF Clear2
      <4> QED
        BY <1>d, <2>1, <2>4, <3>2, <4>1
    <3> QED
      BY <3>1, <3>2
  <2>5. CASE Pending' # Pending
    <3>1. Mine /\ server' = "idle" /\ Acceptable(Head(replyQueue)) /\ Matches(Head(replyQueue))
      BY <2>1, <2>5 DEF AnswerWith, Pending, Mine
    <3>2. Head(replyQueue).kind = "good" /\ Head(replyQueue).attempt = Last
      BY <2>1, <3>1, OwnReply
    <3>3. Pending /\ ~Pending'
      BY <1>0, <2>1, <3>1 DEF Pending, Mine, Dialogue
    <3>4. Clear1(replyQueue, attempts, lastSN, Last)
      BY <1>0, <3>3
    <3>5. \A i \in 1 .. Len(replyQueue') : 1 \in 1 .. ((i + 1) - 1)
      BY <2>2
    <3>6. Clear2(replyQueue', attempts, lastSN)
      BY <2>2, <3>2, <3>4, <3>5 DEF Clear1, Clear2
    <3> QED
      BY <1>d, <2>1, <3>3, <3>6
  <2> QED
    BY <2>4, <2>5
<1>10. CASE TimeOut
  BY <1>2, <1>10 DEF TimeOut, rxVars
<1>11. CASE TakeCommand \/ TakePacket \/ DeliverReply
  <2>1. UNCHANGED <<attempts, lastSN, replyQueue, request, server, serving, connection>>
    BY <1>11 DEF TakeCommand, TakePacket, DeliverReply, clientVars, socketVars, serverVars, rxVars
  <2> QED
    BY <1>1, <2>1 DEF Pending, Mine
<1>12. CASE PushReply
  <2>1. UNCHANGED <<attempts, lastSN, request, server, serving, connection>>
    BY <1>12 DEF PushReply, clientVars, socketVars, serverVars
  <2>2. Pending' = Pending /\ Last' = Last
    BY <2>1 DEF Pending, Mine, Last
  <2>3. PICK r \in replies :
          /\ NotReused(r.attempt) /\ attempts[r.attempt].sn # lastSN
          /\ replyQueue' = IF r.kind = "foreign" THEN replyQueue ELSE Append(replyQueue, r)
    BY <1>12 DEF PushReply
  <2>4. CASE r.kind = "foreign"
    BY <1>1, <2>1, <2>2, <2>3, <2>4
  <2>5. CASE r.kind # "foreign"
    <3>1. r \in Replies /\ r.attempt \in 1 .. Last
      BY RepliesToAttempts DEF PathIInv, TypeOK
    <3>2. /\ Len(replyQueue) \in Nat /\ Len(replyQueue') = Len(replyQueue) + 1
          /\ replyQueue'[Len(replyQueue) + 1] = r
          /\ \A i \in 1 .. Len(replyQueue) : replyQueue'[i] = replyQueue[i]
          /\ \A i \in 1 .. (Len(replyQueue) + 1) : i \in 1 .. Len(replyQueue) \/ i = Len(replyQueue) + 1
      BY <1>0, <2>3, <2>5, <3>1
    <3>3. attempts[r.attempt].sn = attempts[Last].sn => r.attempt = Last
      <4>1. r.attempt < Last => Last \in (r.attempt + 1) .. Len(attempts)
        BY <1>0, <3>1 DEF Last
      <4>2. r.attempt < Last \/ r.attempt = Last
        BY <1>0, <3>1
      <4> QED
        BY <2>3, <4>1, <4>2 DEF NotReused
    <3>4. CASE Pending
      <4>1. Clear1(replyQueue, attempts, lastSN, Last)
        BY <1>0, <3>4
      <4>2. \A i \in 1 .. Len(replyQueue) : \A k \in 1 .. (i - 1) : k \in 1 .. Len(replyQueue)
        BY <3>2
      <4>3. Clear1(replyQueue', attempts, lastSN, Last)
        <5> SUFFICES ASSUME NEW i \in 1 .. Len(replyQueue')
                     PROVE  /\ attempts[replyQueue'[i].attempt].sn = attempts[Last].sn => replyQueue'[i].attempt = Last
                            /\ \A k \in 1 .. (i - 1) :
                                 replyQueue'[k].attempt = Last /\ replyQueue'[k].kind = "good"
                                   => attempts[replyQueue'[i].attempt].sn # lastSN
          BY DEF Clear1
        <5>1. CASE i \in 1 .. Len(replyQueue)
          BY <3>2, <4>1, <4>2, <5>1 DEF Clear1
        <5>2. CASE i = Len(replyQueue) + 1
          BY <2>3, <3>2, <3>3, <5>2
        <5> QED
          BY <3>2, <5>1, <5>2
      <4> QED
        BY <1>d, <2>1, <2>2, <3>4, <4>3
    <3>5. CASE ~Pending
      <4>1. Clear2(replyQueue', attempts, lastSN)
        BY <1>0, <2>3, <3>2, <3>5 DEF Clear2
      <4> QED
        BY <1>d, <2>1, <2>2, <3>5, <4>1
    <3> QED
      BY <3>4, <3>5
  <2> QED
    BY <2>4, <2>5
<1> QED
  BY <1>3, <1>4, <1>5, <1>6, <1>7, <1>8, <1>9, <1>10, <1>11, <1>12, Zenon
  DEF Next, ClientStep, ServerStep, FieldStep

-----------------------------------------------------------------------------
(* What follows.                                                           *)

\* All replies of front ends are whole or no replies at all, as the protocol has it:
\* doCommandToFrontEnd sends 2 to 17 bytes after their length, which sendCommand does
\* not read.
WholeReplies == "short" \notin ReplyKinds

\* The invariant holds initially.
LEMMA PathInit == Init => PathIInv
<1> SUFFICES ASSUME Init PROVE PathIInv
  OBVIOUS
<1> USE CommandAssumption
<1>1. /\ client = "idle" /\ command = 0 /\ nTries = 0 /\ lastSN \in 0 .. (SerialNumbers - 2)
      /\ connection = 1 /\ result = 0 /\ attempts = <<>> /\ request = NoRequest /\ toClient = <<>>
      /\ server = "idle" /\ serving = NoRequest /\ medium \in Media /\ packets = <<>> /\ replyQueue = <<>>
      /\ replies = {} /\ effects = <<>>
  BY DEF Init, None
<1>2. TxCount = 0 /\ RxCount = 0 /\ txWrPointer \in Pointers /\ txRdPointer \in Pointers
      /\ rxWrPointer \in Pointers /\ rxRdPointer \in Pointers
  <2>1. 0 \in Pointers /\ (0 - 0) % (2 * Slots) = 0
    BY SMT DEF Pointers
  <2> QED
    BY <2>1 DEF Init, TxCount, RxCount
<1>3. TypeOK
  <2>1. ClientOK
    BY <1>1, SMT DEF ClientOK, None
  <2>2. SocketOK /\ ServerOK
    BY <1>1 DEF SocketOK, ServerOK
  <2>3. TxOK /\ RxOK
    BY <1>1, <1>2 DEF Init, TxOK, RxOK
  <2>4. FieldOK
    BY <1>1 DEF FieldOK
  <2> QED
    BY <2>1, <2>2, <2>3, <2>4, TypeParts
<1>4. Last = 0 /\ serving.attempt = 0 /\ serving.connection = 0 /\ ~Pending
  BY <1>1 DEF Last, NoRequest, None, Pending, Mine
<1>5. History
  BY <1>1, <1>4, SMT DEF History
<1>6. Medium /\ Rings /\ Back /\ RingClear /\ QueueClear
  BY <1>1, <1>2, <1>4 DEF Medium, Rings, Back, RingClear, QueueClear, Mine
<1>7. Order
  BY <1>1, <1>2, <1>4 DEF Order, Serving, EffectsInOrder, RingInOrder, PacketsInOrder
<1>8. Dialogue
  BY <1>1, <1>4 DEF Dialogue, Mine, Pending
<1> QED
  BY <1>3, <1>5, <1>6, <1>7, <1>8 DEF PathIInv

\* A step keeps it.
LEMMA PathNext ==
  ASSUME PathIInv, [Next]_vars, WholeReplies
  PROVE  PathIInv'
<1>1. TypeOK' /\ History'
  <2>1. CASE UNCHANGED vars
    <3>1. History'
      BY <2>1 DEF PathIInv, vars, clientVars, History, Last
    <3> QED
      BY <2>1, <3>1, TypeParts DEF PathIInv, vars
  <2> QED
    BY <2>1, ClientTypes, ServerTypes, FieldTypes DEF Next
<1> QED
  BY <1>1, RingsKept, BackKept, OrderKept, DialogueKept, RingClearKept, QueueClearKept DEF PathIInv, WholeReplies

\* Nothing in the two rings is overwritten before it is read, and the client reads
\* each of the daemon's answers (doCommandToFrontEnd) from its beginning, whatever
\* times out, comes late or is killed.
THEOREM PathCorrect ==
  ASSUME WholeReplies
  PROVE  Spec => []PathInv
<1>1. PathIInv => PathInv
  BY DEF PathIInv, PathInv, RingsBounded, InSync, Rings, TxCount, RxCount, Dialogue
<1>2. PathIInv /\ [Next]_vars => PathIInv'
  BY PathNext
<1> QED
  BY <1>1, <1>2, PathInit, PTL DEF Spec

\* sendCommand (daqd.py) returns the reply to its own last attempt.
THEOREM RepliesAreOwn ==
  ASSUME WholeReplies
  PROVE  Spec => ReplyIsOwn
<1>1. PathIInv /\ [Next]_vars => [result' # result => result' = Len(attempts)]_vars
  <2> SUFFICES ASSUME PathIInv, [Next]_vars, result' # result PROVE result' = Len(attempts)
    OBVIOUS
  <2>1. ReadBody
    BY DEF Next, CallSendCommand, Reconnect, ClientStep, Try, ReadLength, ServerStep, ReceiveRequest,
           ClearReplyQueue, WritePacket, PublishPacket, SendPacket, ReceiveReply, PopReply, TimeOut,
           FieldStep, TakeCommand, TakePacket, DeliverReply, PushReply, clientVars, vars
  <2>2. toClient = << <<"bytes", Last>> >>
    BY <2>1 DEF ReadBody, PathIInv, Dialogue
  <2> QED
    BY <2>1, <2>2 DEF ReadBody, Last
<1>2. PathIInv /\ [Next]_vars => PathIInv'
  BY PathNext
<1> QED
  BY <1>1, <1>2, PathInit, PTL DEF Spec, ReplyIsOwn

\* The mapping to the abstract call: the commands that have taken effect, and the
\* last one answered.
EffectsBar  == [i \in 1 .. Len(effects) |-> attempts[effects[i]].command]
AnsweredBar == IF result = None THEN 0 ELSE attempts[result].command

\* The last attempt to have taken effect is the latest of all that have.
LEMMA LatestEffect ==
  ASSUME PathIInv
  PROVE  /\ Len(effects) \in Nat
         /\ \A i \in 1 .. Len(effects) : effects[i] \in 1 .. Last /\ effects[i] <= effects[Len(effects)]
         /\ EffectsBar \in Seq(Commands) /\ Len(EffectsBar) = Len(effects)
         /\ \A i \in 1 .. Len(effects) : EffectsBar[i] = attempts[effects[i]].command
<1>1. \A i \in 1 .. Len(effects) : effects[i] \in 1 .. Last
  BY RepliesToAttempts DEF HasEffect
<1>2. Len(effects) \in Nat
  BY Contents
<1>3. \A i \in 1 .. Len(effects) : effects[i] <= effects[Len(effects)]
  BY <1>2 DEF PathIInv, Order, EffectsInOrder
<1>4. \A i \in 1 .. Len(effects) : attempts[effects[i]].command \in Commands
  BY <1>1, Basics
<1> QED
  BY <1>1, <1>2, <1>3, <1>4 DEF EffectsBar

\* Commands take effect at the front end in the order of the calls, and before the
\* call returns: the path of a command (Connection.sendCommand, doCommandToFrontEnd,
\* DAQFrameServer::sendCommand, UDPFrameServer::sendCommand) implements RemoteCall.
THEOREM CallIsImplemented ==
  ASSUME WholeReplies
  PROVE  Spec => ImplementsCall
<1>1. Init => RemoteCommands!CallInit
  <2> SUFFICES ASSUME Init PROVE RemoteCommands!CallInit
    OBVIOUS
  <2>1. command = 0 /\ effects = <<>> /\ result = None
    BY DEF Init
  <2>2. [i \in 1 .. Len(effects) |-> attempts[effects[i]].command] = <<>>
    BY <2>1
  <2> QED
    BY <2>1, <2>2 DEF RemoteCommands!CallInit
<1>2. PathIInv /\ PathIInv' /\ [Next]_vars => [RemoteCommands!CallNext]_(RemoteCommands!callVars)
  <2> SUFFICES ASSUME PathIInv, PathIInv', [Next]_vars
               PROVE  [RemoteCommands!CallNext]_(RemoteCommands!callVars)
    OBVIOUS
  <2>s. ASSUME command' = command, EffectsBar' = EffectsBar, AnsweredBar' = AnsweredBar
        PROVE  UNCHANGED RemoteCommands!callVars
    BY <2>s DEF RemoteCommands!callVars, EffectsBar, AnsweredBar
  <2>0. /\ Last \in Nat /\ command \in Nat
        /\ \A i, k \in 1 .. Last : i <= k => attempts[i].command <= attempts[k].command
        /\ \A i \in 1 .. Last : attempts[i].command \in Commands /\ attempts[i].command <= command
        /\ result \in 0 .. Last
    <3>1. command \in Nat /\ result \in Nat
      BY CommandAssumption DEF PathIInv, TypeOK, Attempts, None
    <3>2. \A i, k \in 1 .. Last : i <= k => attempts[i].command <= attempts[k].command
      BY DEF PathIInv, History
    <3>3. \A i \in 1 .. Last : attempts[i].command <= command
      BY DEF PathIInv, History
    <3>4. result <= Last
      BY DEF PathIInv, History
    <3> QED
      BY <3>1, <3>2, <3>3, <3>4, Basics
  <2>e. /\ Len(effects) \in Nat
        /\ \A i \in 1 .. Len(effects) : effects[i] \in 1 .. Last /\ effects[i] <= effects[Len(effects)]
        /\ EffectsBar \in Seq(Commands) /\ Len(EffectsBar) = Len(effects)
        /\ \A i \in 1 .. Len(effects) : EffectsBar[i] = attempts[effects[i]].command
    BY LatestEffect
  <2>1. CASE CallSendCommand
    <3>1. command' = command + 1 /\ UNCHANGED <<effects, attempts, result>>
      BY <2>1 DEF CallSendCommand, fieldVars
    <3> QED
      BY <3>1 DEF RemoteCommands!CallNext, RemoteCommands!Call
  <2>2. CASE ReadBody
    <3>1. /\ UNCHANGED <<command, attempts, effects>> /\ result' = Last
      BY <2>2 DEF ReadBody, PathIInv, Dialogue, fieldVars
    <3>2. Last \in 1 .. Last /\ attempts[Last].command = command
      BY <2>0, <2>2 DEF ReadBody, PathIInv, History
    <3>3. HasEffect(Last)
      <4>1. toClient = << <<"bytes", Last>> >>
        BY <2>2 DEF ReadBody, PathIInv, Dialogue
      <4>2. 1 \in 1 .. Len(toClient) /\ toClient[1] = <<"bytes", Last>>
        BY <4>1
      <4>3. \A i \in 1 .. Len(toClient) : toClient[i][1] = "bytes" => HasEffect(toClient[i][2])
        BY DEF PathIInv, Back
      <4> QED
        BY <4>2, <4>3
    <3>4. Len(effects) # 0 /\ effects[Len(effects)] = Last
      <4>1. PICK i \in 1 .. Len(effects) : effects[i] = Last
        BY <3>3 DEF HasEffect
      <4>2. Len(effects) \in 1 .. Len(effects)
        BY <2>e, <4>1
      <4>3. Last <= effects[Len(effects)] /\ effects[Len(effects)] \in 1 .. Last
        BY <2>e, <4>1, <4>2
      <4> QED
        BY <2>0, <4>2, <4>3
    <3>5. EffectsBar # <<>> /\ EffectsBar[Len(EffectsBar)] = command
      BY <2>e, <3>2, <3>4
    <3>6. AnsweredBar' = command /\ EffectsBar' = EffectsBar
      BY <3>1, <3>2 DEF AnsweredBar, EffectsBar, None
    <3> QED
      BY <3>1, <3>5, <3>6 DEF RemoteCommands!CallNext, RemoteCommands!Return, RemoteCommands!Latest,
                              AnsweredBar, EffectsBar
  <2>3. CASE Try
    <3>1. UNCHANGED <<command, effects, result>> /\ attempts' = Append(attempts, [command |-> command, sn |-> lastSN])
      BY <2>3 DEF Try, fieldVars
    <3>2. \A i \in 1 .. Last : attempts'[i] = attempts[i]
      BY <2>0, <3>1 DEF Last, PathIInv, TypeOK
    <3>3. EffectsBar' = EffectsBar
      <4>1. \A i \in 1 .. Len(effects) : attempts'[effects[i]].command = attempts[effects[i]].command
        BY <2>e, <3>2
      <4> QED
        BY <3>1, <4>1 DEF EffectsBar
    <3>4. AnsweredBar' = AnsweredBar
      <4>1. result # None => result \in 1 .. Last
        BY <2>0 DEF None
      <4> QED
        BY <3>1, <3>2, <4>1 DEF AnsweredBar
    <3> QED
      BY <2>s, <3>1, <3>3, <3>4
  <2>4. CASE TakeCommand \/ TakePacket
    <3>1. UNCHANGED <<command, attempts, result>>
      BY <2>4 DEF TakeCommand, TakePacket, clientVars
    <3>2. CASE effects' = effects
      BY <2>s, <3>1, <3>2 DEF EffectsBar, AnsweredBar
    <3>3. ASSUME NEW a \in Attempts, effects' = Append(effects, a)
          PROVE  RemoteCommands!CallNext
      <4>1. /\ Len(effects') = Len(effects) + 1 /\ effects'[Len(effects) + 1] = a
            /\ \A i \in 1 .. Len(effects) : effects'[i] = effects[i]
        BY <3>3 DEF PathIInv, TypeOK
      <4>2. Last' = Last /\ a \in 1 .. Last /\ \A i \in 1 .. Len(effects) : effects[i] <= a
        <5>1. /\ \A i \in 1 .. Len(effects') : effects'[i] <= serving'.attempt
              /\ \A i, k \in 1 .. Len(effects') : i <= k => effects'[i] <= effects'[k]
              /\ serving'.attempt <= Last'
          BY DEF PathIInv, Order, Serving, EffectsInOrder
        <5>2. Len(effects) + 1 \in 1 .. Len(effects') /\ \A i \in 1 .. Len(effects) : i \in 1 .. Len(effects') /\ i <= Len(effects) + 1
          BY <2>e, <4>1
        <5>3. serving' = serving /\ serving.attempt \in Nat
          BY <2>4, Basics DEF TakeCommand, TakePacket, serverVars
        <5>4. Last' = Last
          BY <3>1 DEF Last
        <5>5. a <= serving.attempt /\ serving.attempt <= Last
          BY <4>1, <5>1, <5>2, <5>3, <5>4
        <5>6. a \in 1 .. Last
          BY <2>0, <5>3, <5>5 DEF Attempts
        <5> QED
          BY <4>1, <5>1, <5>2, <5>4, <5>6
      <4> DEFINE c == attempts[a].command
      <4>3. c \in Commands /\ c \in 1 .. command
        BY <2>0, <4>2 DEF Commands
      <4>4. EffectsBar # <<>> => EffectsBar[Len(EffectsBar)] <= c
        <5>1. CASE Len(effects) = 0
          BY <2>e, <5>1
        <5>2. CASE Len(effects) # 0
          <6>1. Len(effects) \in 1 .. Len(effects)
            BY <2>e, <5>2
          <6> QED
            BY <2>0, <2>e, <4>2, <6>1
        <5> QED
          BY <5>1, <5>2
      <4>5. EffectsBar' = Append(EffectsBar, c)
        <5>1. /\ Append(EffectsBar, c) = [i \in 1 .. (Len(effects) + 1) |->
                                           IF i <= Len(effects) THEN EffectsBar[i] ELSE c]
          BY <2>e
        <5>2. EffectsBar' = [i \in 1 .. (Len(effects) + 1) |-> attempts[effects'[i]].command]
          BY <3>1, <4>1 DEF EffectsBar
        <5>3. \A i \in 1 .. (Len(effects) + 1) :
                attempts[effects'[i]].command = IF i <= Len(effects) THEN EffectsBar[i] ELSE c
          <6>1. \A i \in 1 .. (Len(effects) + 1) : IF i <= Len(effects) THEN i \in 1 .. Len(effects) ELSE i = Len(effects) + 1
            BY <2>e
          <6> QED
            BY <2>e, <4>1, <6>1
        <5> QED
          BY <5>1, <5>2, <5>3
      <4>6. AnsweredBar' = AnsweredBar
        BY <3>1 DEF AnsweredBar
      <4> HIDE DEF c
      <4>7. c <= command
        BY <2>0, <4>3
      <4>8. PICK d \in 1 .. command : d = c
        BY <4>3
      <4>9. RemoteCommands!TakeEffect(d)
        BY <3>1, <4>4, <4>5, <4>6, <4>7, <4>8
        DEF RemoteCommands!TakeEffect, RemoteCommands!Latest, EffectsBar, AnsweredBar
      <4> QED
        BY <4>9 DEF RemoteCommands!CallNext
    <3> QED
      BY <3>2, <3>3, EffectsGrow
  <2>5. CASE ~(CallSendCommand \/ ReadBody \/ Try \/ TakeCommand \/ TakePacket)
    <3>1. UNCHANGED <<command, effects, result, attempts>>
      BY <2>5 DEF Next, Reconnect, ClientStep, ReadLength, ServerStep, ReceiveRequest,
           ClearReplyQueue, WritePacket, PublishPacket, SendPacket, ReceiveReply, PopReply, TimeOut,
           FieldStep, DeliverReply, PushReply, clientVars, fieldVars, vars
    <3> QED
      BY <2>s, <3>1 DEF EffectsBar, AnsweredBar
  <2> QED
    BY <2>1, <2>2, <2>3, <2>4, <2>5
<1>3. PathIInv /\ [Next]_vars => PathIInv'
  BY PathNext
<1> QED
  BY <1>1, <1>2, <1>3, PathInit, PTL DEF Spec, ImplementsCall, RemoteCommands!CallSpec

=============================================================================
