---------------------------- MODULE CommandPath ----------------------------
(***************************************************************************)
(* The way of a command from Connection.sendCommand (daqd.py) through the  *)
(* daemon (Client::doCommandToFrontEnd, DAQFrameServer::sendCommand) and   *)
(* the card's two rings (PFP_KX7) to a front end, and of its reply back;   *)
(* or through UDPFrameServer::sendCommand and a socket, if the daemon was  *)
(* started for that.                                                       *)
(*                                                                         *)
(* The client sends a command again, with another serial number, when the  *)
(* daemon has waited for a reply in vain.  A client may be killed and      *)
(* another connect.  Front ends answer late, oddly or not at all.          *)
(*                                                                         *)
(* A command is a number, and so is an attempt to send it.  A reply        *)
(* carries the attempt it answers in place of its bytes.                   *)
(***************************************************************************)
EXTENDS Integers, Sequences

CONSTANTS
  Media,           \* what the daemon may be started for: "card", "udp"
  MaxTries,        \* maxTries of sendCommand
  SerialNumbers,   \* how many there are: 2^15 in the code
  Slots,           \* the slots of a ring: 16 in the code
  LargeCommands,   \* commands of more than 8 words
  ReplyKinds,      \* what the front ends' replies may be like
  MaxCommands,     \* bound on the calls of sendCommand
  MaxConnections   \* bound on the clients, one after the other

Kinds == {"good",      \* 18 bytes or more, as the protocol has it
          "short",     \* 2 to 17 bytes
          "tiny",      \* fewer than 2
          "foreign"}   \* from another address, or too long

ASSUME CommandAssumption ==
  /\ Media \subseteq {"card", "udp"}
  /\ MaxTries \in Nat \ {0} /\ Slots \in Nat \ {0}
  /\ SerialNumbers \in Nat \ {0}
  /\ ReplyKinds \subseteq Kinds
  /\ MaxCommands \in Nat /\ MaxConnections \in Nat \ {0}
  /\ LargeCommands \subseteq 1 .. MaxCommands

Commands    == 1 .. MaxCommands
MaxAttempts == MaxCommands * MaxTries
Attempts    == 1 .. MaxAttempts
Pointers    == 0 .. (2 * Slots - 1)
None        == 0

VARIABLES
  client,          \* where the client is
  command, nTries, lastSN,
  connection,      \* which client it is
  result,          \* the attempt whose reply the last successful call returned
  attempts,        \* the command and serial number of each attempt
  request,         \* what the daemon has not read
  toClient,        \* what the client has not read of what the daemon has sent
  server,          \* where the daemon is
  serving,         \* the request it serves
  medium,          \* what it was started for
  txWrPointer, txRdPointer, txSlot,
  rxWrPointer, rxRdPointer, rxSlot,
  packets,         \* commands in the socket
  replyQueue,      \* UDPFrameServer's
  replies,         \* replies under way to the card or the socket
  effects          \* the attempts that have taken effect, in order

clientVars == <<client, command, nTries, lastSN, connection, result, attempts>>
socketVars == <<request, toClient>>
serverVars == <<server, serving, medium>>
txVars     == <<txWrPointer, txRdPointer, txSlot, packets>>
rxVars     == <<rxWrPointer, rxRdPointer, rxSlot, replyQueue>>
fieldVars  == <<replies, effects>>
vars == <<clientVars, socketVars, serverVars, txVars, rxVars, fieldVars>>

Replies   == [attempt : Attempts, kind : Kinds]
Request   == [attempt : Attempts, connection : 1 .. MaxConnections]
NoReply   == [attempt |-> None, kind |-> "tiny"]
NoRequest == [attempt |-> None, connection |-> None]

\* Every variable stays in its type.
TypeOK ==
  /\ client \in {"idle", "try", "length", "body", "lost"}
  /\ command \in 0 .. MaxCommands /\ nTries \in 0 .. MaxTries
  /\ lastSN \in 0 .. (SerialNumbers - 1)
  /\ connection \in 1 .. MaxConnections
  /\ result \in Attempts \cup {None}
  /\ attempts \in Seq([command : Commands, sn : 0 .. (SerialNumbers - 1)])
  /\ request \in Request \cup {NoRequest}
  /\ toClient \in Seq({"zero", "short", "full", "huge", "bytes"} \X (Attempts \cup {None}))
  /\ server \in {"idle", "clear", "write", "publish", "poll"}
  /\ serving \in Request \cup {NoRequest} /\ medium \in Media
  /\ txWrPointer \in Pointers /\ txRdPointer \in Pointers
  /\ txSlot \in [0 .. (Slots - 1) -> Attempts \cup {None}]
  /\ rxWrPointer \in Pointers /\ rxRdPointer \in Pointers
  /\ rxSlot \in [0 .. (Slots - 1) -> Replies \cup {NoReply}]
  /\ packets \in Seq(Attempts) /\ replyQueue \in Seq(Replies)
  /\ replies \subseteq Replies
  /\ effects \in Seq(Attempts)

Init ==
  /\ client = "idle" /\ command = 0 /\ nTries = 0
  /\ lastSN \in 0 .. (SerialNumbers - 2)
  /\ connection = 1 /\ result = None /\ attempts = <<>>
  /\ request = NoRequest /\ toClient = <<>>
  /\ server = "idle" /\ serving = NoRequest /\ medium \in Media
  /\ packets = <<>> /\ replyQueue = <<>>
  /\ txWrPointer = 0 /\ txRdPointer = 0
  /\ txSlot = [s \in 0 .. (Slots - 1) |-> None]
  /\ rxWrPointer = 0 /\ rxRdPointer = 0
  /\ rxSlot = [s \in 0 .. (Slots - 1) |-> NoReply]
  /\ replies = {} /\ effects = <<>>

-----------------------------------------------------------------------------
(* Plausible slips in the operations below, to be put in their place when  *)
(* the properties are tested.                                              *)

RingFullNever(wr, rd) == FALSE
MatchesAny(reply)     == TRUE

\* A command that times out is not answered.
TimeOutSilently ==
  /\ server = "poll"
  /\ server' = "idle"
  /\ UNCHANGED <<clientVars, request, toClient, serving, medium, txVars, rxVars, fieldVars>>

-----------------------------------------------------------------------------
(* The rings.  Pointers run modulo twice the number of slots.              *)

Advance(p)        == (p + 1) % (2 * Slots)
RingFull(wr, rd)  == wr # rd /\ wr % Slots = rd % Slots
RingEmpty(wr, rd) == wr = rd

-----------------------------------------------------------------------------
(* The client.                                                             *)

CallSendCommand ==
  /\ client = "idle" /\ command < MaxCommands
  /\ command' = command + 1 /\ nTries' = 0
  /\ client' = "try"
  /\ UNCHANGED <<lastSN, connection, result, attempts, socketVars, serverVars,
                 txVars, rxVars, fieldVars>>

NextSN(sn) == (sn + 1) % SerialNumbers

Try ==
  /\ client = "try"
  /\ nTries' = nTries + 1
  /\ lastSN' = NextSN(lastSN)
  /\ attempts' = Append(attempts, [command |-> command, sn |-> lastSN])
  /\ request' = [attempt |-> Len(attempts) + 1, connection |-> connection]
  /\ client' = "length"
  /\ UNCHANGED <<command, connection, result, toClient, serverVars, txVars,
                 rxVars, fieldVars>>

\* The length comes first; less than 18 means that there is no valid reply.
ReadLength ==
  /\ client = "length" /\ toClient # <<>>
  /\ toClient' = Tail(toClient)
  /\ client' = CASE Head(toClient)[1] \in {"full", "huge"} -> "body"
                 [] Head(toClient)[1] \in {"zero", "short"} ->
                      IF nTries < MaxTries THEN "try" ELSE "idle"
                 [] OTHER -> "lost"     \* the bytes of a reply, taken for a length
  /\ UNCHANGED <<command, nTries, lastSN, connection, result, attempts, request,
                 serverVars, txVars, rxVars, fieldVars>>

ReadBody ==
  /\ client = "body" /\ toClient # <<>>
  /\ toClient' = Tail(toClient)
  /\ result' = Head(toClient)[2]
  /\ client' = "idle"
  /\ UNCHANGED <<command, nTries, lastSN, connection, attempts, request,
                 serverVars, txVars, rxVars, fieldVars>>

\* The client is killed and another connects, with a random serial number, not
\* one that a reply in UDPFrameServer's queue has: it would be taken for the next
\* command's.  The daemon drops what it has not read from a client that has hung
\* up.
Reconnect ==
  /\ connection < MaxConnections
  /\ connection' = connection + 1
  /\ lastSN' \in 0 .. (SerialNumbers - 2)
  /\ \A i \in DOMAIN replyQueue : attempts[replyQueue[i].attempt].sn # lastSN'
  /\ client' = "idle" /\ nTries' = 0
  /\ toClient' = <<>> /\ request' = NoRequest
  /\ UNCHANGED <<command, result, attempts, serverVars, txVars, rxVars,
                 fieldVars>>

-----------------------------------------------------------------------------
(* The daemon.  What it sends to a client that has gone is lost.           *)

\* A length, of which the client looks at no more than this, or a reply's bytes.
Length(size) == <<size, None>>

Send(to, items) ==
  toClient' = IF to.connection = connection THEN toClient \o items ELSE toClient

\* The card's sendCommand returns -1 for a large command, which
\* doCommandToFrontEnd sends as the length 65535; it then fails to send -1 bytes.
ReceiveRequest ==
  /\ server = "idle" /\ request # NoRequest
  /\ request' = NoRequest
  /\ serving' = request
  /\ IF medium = "card" /\ attempts[request.attempt].command \in LargeCommands
     THEN server' = "idle" /\ Send(request, <<Length("huge")>>)
     ELSE /\ server' = IF medium = "card" THEN "clear" ELSE "write"
          /\ UNCHANGED toClient
  /\ UNCHANGED <<clientVars, medium, txVars, rxVars, fieldVars>>

\* clearReplyQueue, until the pointers agree.
ClearReplyQueue ==
  /\ server = "clear"
  /\ IF RingEmpty(rxWrPointer, rxRdPointer)
     THEN server' = "write" /\ UNCHANGED rxRdPointer
     ELSE rxRdPointer' = rxWrPointer /\ UNCHANGED server
  /\ UNCHANGED <<clientVars, socketVars, serving, medium, txVars, rxWrPointer,
                 rxSlot, replyQueue, fieldVars>>

\* PFP_KX7::sendCommand waits up to 10 ms for a slot, and writes the packet into
\* it; DAQFrameServer does not look at what it returns.
WritePacket ==
  /\ server = "write" /\ medium = "card"
  /\ IF RingFull(txWrPointer, txRdPointer)
     THEN server' = "poll" /\ UNCHANGED txSlot
     ELSE /\ server' = "publish"
          /\ txSlot' = [txSlot EXCEPT ![txWrPointer % Slots] = serving.attempt]
  /\ UNCHANGED <<clientVars, socketVars, serving, medium, txWrPointer, txRdPointer,
                 packets, rxVars, fieldVars>>

PublishPacket ==
  /\ server = "publish"
  /\ txWrPointer' = Advance(txWrPointer)
  /\ server' = "poll"
  /\ UNCHANGED <<clientVars, socketVars, serving, medium, txRdPointer, txSlot,
                 packets, rxVars, fieldVars>>

\* UDPFrameServer does not clear its queue of replies.
SendPacket ==
  /\ server = "write" /\ medium = "udp"
  /\ packets' = Append(packets, serving.attempt)
  /\ server' = "poll"
  /\ UNCHANGED <<clientVars, socketVars, serving, medium, txWrPointer, txRdPointer,
                 txSlot, rxVars, fieldVars>>

Matches(reply) == attempts[reply.attempt].sn = attempts[serving.attempt].sn

Acceptable(reply) == reply.kind \in {"good", "short"}

AnswerWith(reply) ==
  IF Acceptable(reply) /\ Matches(reply)
  THEN /\ Send(serving, <<Length(IF reply.kind = "good" THEN "full" ELSE "short"),
                          <<"bytes", reply.attempt>> >>)
       /\ server' = "idle"
  ELSE UNCHANGED <<toClient, server>>

ReceiveReply ==
  /\ server = "poll" /\ ~RingEmpty(rxWrPointer, rxRdPointer)
  /\ rxRdPointer' = Advance(rxRdPointer)
  /\ AnswerWith(rxSlot[rxRdPointer % Slots])
  /\ UNCHANGED <<clientVars, request, serving, medium, txVars, rxWrPointer, rxSlot,
                 replyQueue, fieldVars>>

PopReply ==
  /\ server = "poll" /\ replyQueue # <<>>
  /\ replyQueue' = Tail(replyQueue)
  /\ AnswerWith(Head(replyQueue))
  /\ UNCHANGED <<clientVars, request, serving, medium, txVars, rxWrPointer,
                 rxRdPointer, rxSlot, fieldVars>>

\* 250 ms after the command was sent, which UDPFrameServer looks at only when it
\* has found no reply.
TimeOut ==
  /\ server = "poll" /\ replyQueue = <<>>
  /\ Send(serving, <<Length("zero")>>)
  /\ server' = "idle"
  /\ UNCHANGED <<clientVars, request, serving, medium, txVars, rxVars, fieldVars>>

-----------------------------------------------------------------------------
(* The card and the front ends.                                            *)

\* A command takes effect or gets lost, and is answered or not.
Execute(attempt) ==
  \/ UNCHANGED fieldVars
  \/ /\ effects' = Append(effects, attempt)
     /\ \/ UNCHANGED replies
        \/ \E kind \in ReplyKinds :
             replies' = replies \cup {[attempt |-> attempt, kind |-> kind]}

TakeCommand ==
  /\ ~RingEmpty(txWrPointer, txRdPointer)
  /\ txRdPointer' = Advance(txRdPointer)
  /\ Execute(txSlot[txRdPointer % Slots])
  /\ UNCHANGED <<clientVars, socketVars, serverVars, txWrPointer, txSlot, packets, rxVars>>

\* Packets stay in order on the link to the single front end.
TakePacket ==
  /\ packets # <<>>
  /\ packets' = Tail(packets)
  /\ Execute(Head(packets))
  /\ UNCHANGED <<clientVars, socketVars, serverVars, txWrPointer, txRdPointer, txSlot, rxVars>>

\* No reply is so late that its serial number has been used again.
NotReused(attempt) ==
  \A later \in (attempt + 1) .. Len(attempts) :
    attempts[later].sn # attempts[attempt].sn

DeliverReply ==
  /\ medium = "card" /\ ~RingFull(rxWrPointer, rxRdPointer)
  /\ \E reply \in replies :
       /\ NotReused(reply.attempt)
       /\ rxSlot' = [rxSlot EXCEPT ![rxWrPointer % Slots] = reply]
       /\ replies' = replies \ {reply}
  /\ rxWrPointer' = Advance(rxWrPointer)
  /\ UNCHANGED <<clientVars, socketVars, serverVars, txVars, rxRdPointer, replyQueue,
                 effects>>

\* The worker thread puts replies into its queue, where one may wait for the next
\* command; a foreign packet is none.
PushReply ==
  /\ medium = "udp"
  /\ \E reply \in replies :
       /\ NotReused(reply.attempt) /\ attempts[reply.attempt].sn # lastSN
       /\ replyQueue' = IF reply.kind = "foreign" THEN replyQueue
                                                 ELSE Append(replyQueue, reply)
       /\ replies' = replies \ {reply}
  /\ UNCHANGED <<clientVars, socketVars, serverVars, txVars, rxWrPointer, rxRdPointer,
                 rxSlot, effects>>

-----------------------------------------------------------------------------
ClientStep == Try \/ ReadLength \/ ReadBody

ServerStep ==
  \/ ReceiveRequest \/ ClearReplyQueue \/ WritePacket \/ PublishPacket \/ SendPacket
  \/ ReceiveReply \/ PopReply \/ TimeOut

FieldStep == TakeCommand \/ TakePacket \/ DeliverReply \/ PushReply

Next == CallSendCommand \/ Reconnect \/ ClientStep \/ ServerStep \/ FieldStep

Spec == Init /\ [][Next]_vars

\* The two processes run; the front ends owe nothing.
FairSpec == Spec /\ WF_vars(ClientStep) /\ WF_vars(ServerStep)

-----------------------------------------------------------------------------
\* No slot is written before it has been read.
RingsBounded ==
  /\ (txWrPointer - txRdPointer) % (2 * Slots) <= Slots
  /\ (rxWrPointer - rxRdPointer) % (2 * Slots) <= Slots

\* sendCommand returns the reply to its own last attempt, however late the
\* replies to earlier ones come.
ReplyIsOwn == [][result' # result => result' = Len(attempts)]_vars

\* The client reads each answer of the daemon from its beginning.
InSync == client # "lost"

\* Between client, daemon and card nothing is overwritten before it has been
\* read, and nothing is taken for something else, whatever commands time out and
\* whatever replies come late.
PathInv == TypeOK /\ RingsBounded /\ InSync

\* Commands take effect in the order in which they were called, and before the
\* call returns.
RemoteCommands == INSTANCE RemoteCall WITH
  called   <- command,
  effects  <- [i \in 1 .. Len(effects) |-> attempts[effects[i]].command],
  answered <- IF result = None THEN 0 ELSE attempts[result].command
ImplementsCall == RemoteCommands!CallSpec

\* Every call returns a reply or raises an error.
CallEnds == client \in {"try", "length", "body"} ~> client = "idle"
=============================================================================
