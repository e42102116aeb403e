----------------------------- MODULE Fido2Relay -----------------------------
(***************************************************************************)
(* The FIDO2 relay task (crates/fido2/src/relay.rs), the thread of the     *)
(* virtual HID device (virtual_device.rs), and what they stand between:    *)
(* host programs that write packets to the device, each by itself, and the *)
(* network layer, which answers requests in any order, late, or twice.     *)
(*                                                                         *)
(*   clients -> device thread -> inq  -> relay -> requestq  -> network     *)
(*   clients <- device thread <- outq <- relay <- responseq <- network     *)
(*                                                                         *)
(* A message is a number of packets; Ctaphid says what is in them.         *)
(***************************************************************************)
EXTENDS Integers, Sequences

CONSTANTS
  Clients,      \* host programs, each opening the device by itself
  Commands,     \* what they send besides INIT
  MaxSize,      \* packets of the longest message
  MaxChannels,  \* bound: channels allocated
  MaxRequests,  \* bound: requests forwarded
  IdMod,        \* request ids count modulo this (2^32)
  InCap,        \* packets the incoming channel holds (64)
  OutCap,       \* packets the outgoing channel holds (64)
  RequestCap,   \* requests the network's channel holds
  ResponseCap   \* responses the network's channel holds

ASSUME Fido2RelayAssumption ==
  /\ Commands \subseteq {"CBOR", "PING", "CANCEL", "other"}
  /\ MaxSize \in Nat \ {0} /\ MaxChannels \in Nat
  /\ MaxRequests \in Nat /\ IdMod \in Nat /\ MaxRequests < IdMod
  /\ InCap \in Nat \ {0} /\ OutCap \in Nat \ {0}
  /\ RequestCap \in Nat \ {0} /\ ResponseCap \in Nat \ {0}

VARIABLES
  client,     \* per client: [st, chan, msg, k, turn], see ClientType
  asks,       \* CBOR messages begun, no more than MaxRequests
  dev,        \* device thread: flush, read, send, off
  devPkt,     \* the packet it passes on
  stop,       \* the shutdown flag
  inq, outq,  \* packets between device thread and relay
  requestq,   \* request ids on their way to the network
  remote,     \* request ids the network has received
  responseq,  \* its answers: [id, size]
  netUp,      \* the network holds its ends of the channels
  pc,         \* relay: select, send (device_tx), request (request_tx), ended
  toDev,      \* the packets send_message still has to send
  asm,        \* the assembler: the packets of one unfinished message
  nextCid, nextId, pending,  \* as in Fido2Relay; pending: {[id, chan]}
  asked, void, answers       \* history: requests forwarded, withdrawn, answered

clientVars == <<client, asks>>
devVars == <<dev, devPkt, stop>>
netVars == <<remote, netUp>>
tableVars == <<nextCid, nextId, pending>>
history == <<asked, void, answers>>
relayVars == <<pc, toDev, asm, tableVars, history>>
queues == <<inq, outq, requestq, responseq>>
vars == <<clientVars, devVars, queues, netVars, relayVars>>

Broadcast == 0  \* stands for CID_BROADCAST
Channel == Broadcast .. MaxChannels

Message ==
  [cmd : Commands \cup {"INIT"}, chan : Channel, size : 1 .. MaxSize,
   by : Clients, turn : {0, 1}]
Packet == [msg : Message, k : Nat]
Request == [id : 1 .. MaxRequests, chan : Channel]

(* What goes to the host: an INIT reply names the client whose nonce it    *)
(* echoes and the new channel.                                             *)
OutPacket ==
  [cmd : {"INIT"}, by : Clients, cid : Channel]
    \cup [cmd : {"CBOR", "PING", "ERROR"}, chan : Channel]

(* A client asks for a channel once.  msg is the message of several        *)
(* packets it is writing, k the next one; turn tells its messages apart.   *)
ClientType ==
  [st : {"new", "asking", "open"}, chan : Channel,
   msg : Seq(Message), k : Nat, turn : {0, 1}]

UpTo(q, S, n) == q \in Seq(S) /\ Len(q) <= n

TypeOK ==
  /\ client \in [Clients -> ClientType] /\ asks \in 0 .. MaxRequests
  /\ dev \in {"flush", "read", "send", "off"}
  /\ UpTo(devPkt, Packet, 1)
  /\ stop \in BOOLEAN /\ netUp \in BOOLEAN
  /\ UpTo(inq, Packet, InCap) /\ UpTo(outq, OutPacket, OutCap)
  /\ UpTo(requestq, Nat, RequestCap) /\ remote \subseteq Nat
  /\ UpTo(responseq, [id : Nat, size : 1 .. MaxSize], ResponseCap)
  /\ pc \in {"select", "send", "request", "ended"}
  /\ UpTo(toDev, OutPacket, MaxSize)
  /\ UpTo(asm, Packet, MaxSize - 1)
  /\ nextCid \in Nat \ {0} /\ nextId \in Nat
  /\ pending \subseteq Request
  /\ asked \subseteq Request /\ void \subseteq asked /\ answers \in Seq(asked)

Init ==
  /\ client = [c \in Clients |->
       [st |-> "new", chan |-> Broadcast, msg |-> <<>>, k |-> 0, turn |-> 0]]
  /\ asks = 0
  /\ dev = "flush" /\ devPkt = <<>> /\ stop = FALSE
  /\ inq = <<>> /\ outq = <<>> /\ requestq = <<>> /\ responseq = <<>>
  /\ remote = {} /\ netUp = TRUE
  /\ pc = "select" /\ toDev = <<>> /\ asm = <<>>
  /\ nextCid = 1 /\ nextId = 1 /\ pending = {}
  /\ asked = {} /\ void = {} /\ answers = <<>>

-----------------------------------------------------------------------------
(* THE DEVICE THREAD *)

(* The thread ends, and drops its ends of the channels. *)
DevEnds == dev' = "off" /\ outq' = <<>>

(* Mutant of NextRound: the flag is not looked at. *)
NextRoundDeaf == dev' = "flush" /\ UNCHANGED outq

(* The shutdown flag is looked at once per round. *)
NextRound ==
  IF stop THEN DevEnds ELSE dev' = "flush" /\ UNCHANGED outq

(* Everything that waits is written; then the thread reads. *)
DevWrite ==
  /\ dev = "flush" /\ outq # <<>>
  /\ LET p == Head(outq)
     IN  client' = IF p.cmd = "INIT"
                     THEN [client EXCEPT ![p.by].st = "open", ![p.by].chan = p.cid]
                     ELSE client
  /\ outq' = Tail(outq)
  /\ UNCHANGED <<asks, devVars, inq, requestq, responseq, netVars, relayVars>>

DevFlushed ==
  /\ dev = "flush" /\ outq = <<>>
  /\ dev' = "read"
  /\ UNCHANGED <<clientVars, devPkt, stop, queues, netVars, relayVars>>

(* read() returns a packet that client c has written. *)
DevRead(c, p) ==
  /\ dev = "read"
  /\ dev' = "send" /\ devPkt' = <<p>>
  /\ UNCHANGED <<stop, queues, netVars, relayVars>>

(* Or news of another kind (Start, Open, Close), *)
DevSkip ==
  /\ dev = "read"
  /\ NextRound
  /\ UNCHANGED <<clientVars, devPkt, stop, inq, requestq, responseq, netVars, relayVars>>

(* or Stop, or an error. *)
DevStopped ==
  /\ dev = "read"
  /\ DevEnds
  /\ UNCHANGED <<clientVars, devPkt, stop, inq, requestq, responseq, netVars, relayVars>>

(* Mutant of DevSend: try_send, and the packet is lost if there is no room. *)
DevSendDropping ==
  /\ dev = "send" /\ pc # "ended"
  /\ inq' = IF Len(inq) < InCap THEN Append(inq, devPkt[1]) ELSE inq
  /\ devPkt' = <<>>
  /\ NextRound
  /\ UNCHANGED <<clientVars, stop, requestq, responseq, netVars, relayVars>>

(* Mutant of DevSend: the channel is unbounded. *)
DevSendUnbounded ==
  /\ dev = "send" /\ pc # "ended" /\ Len(inq) <= InCap
  /\ inq' = Append(inq, devPkt[1]) /\ devPkt' = <<>>
  /\ NextRound
  /\ UNCHANGED <<clientVars, stop, requestq, responseq, netVars, relayVars>>

(* blocking_send *)
DevSend ==
  /\ dev = "send" /\ pc # "ended" /\ Len(inq) < InCap
  /\ inq' = Append(inq, devPkt[1]) /\ devPkt' = <<>>
  /\ NextRound
  /\ UNCHANGED <<clientVars, stop, requestq, responseq, netVars, relayVars>>

DevSendFails ==
  /\ dev = "send" /\ pc = "ended"
  /\ DevEnds /\ devPkt' = <<>>
  /\ UNCHANGED <<clientVars, stop, inq, requestq, responseq, netVars, relayVars>>

Shutdown ==
  /\ ~stop /\ stop' = TRUE
  /\ UNCHANGED <<clientVars, dev, devPkt, queues, netVars, relayVars>>

-----------------------------------------------------------------------------
(* THE CLIENTS *)

AskChannel(c) ==
  /\ client[c].st = "new"
  /\ DevRead(c, [msg |-> [cmd |-> "INIT", chan |-> Broadcast, size |-> 1,
                          by |-> c, turn |-> 0], k |-> 0])
  /\ client' = [client EXCEPT ![c].st = "asking"]
  /\ UNCHANGED asks

(* A client starts a message when it likes: also while its last request is *)
(* not answered, and giving up a message it has not finished.              *)
StartMessage(c) ==
  /\ client[c].st = "open"
  /\ \E cmd \in Commands, size \in 1 .. MaxSize :
       LET m == [cmd |-> cmd, chan |-> client[c].chan, size |-> size,
                 by |-> c, turn |-> 1 - client[c].turn]
       IN  /\ cmd \in {"CANCEL", "other"} => size = 1
           /\ IF cmd = "CBOR" THEN asks < MaxRequests /\ asks' = asks + 1
                ELSE UNCHANGED asks
           /\ DevRead(c, [msg |-> m, k |-> 0])
           /\ client' = IF size = 1 THEN client
                        ELSE [client EXCEPT ![c].msg = <<m>>, ![c].k = 1,
                                            ![c].turn = m.turn]

ContinueMessage(c) ==
  /\ client[c].msg # <<>>
  /\ LET m == client[c].msg[1]
         k == client[c].k
     IN  /\ DevRead(c, [msg |-> m, k |-> k])
         /\ client' = IF k + 1 = m.size
                        THEN [client EXCEPT ![c].msg = <<>>, ![c].k = 0]
                        ELSE [client EXCEPT ![c].k = k + 1]
  /\ UNCHANGED asks

-----------------------------------------------------------------------------
(* THE RELAY *)

(* send_message: one packet after the other. *)
SendMessage(ps) == pc' = "send" /\ toDev' = ps
SendError(chan) == SendMessage(<<[cmd |-> "ERROR", chan |-> chan]>>)
Several(cmd, chan, n) == [i \in 1 .. n |-> [cmd |-> cmd, chan |-> chan]]

HandleInit(m) ==
  /\ m.cmd = "INIT" /\ nextCid <= MaxChannels
  /\ nextCid' = nextCid + 1
  /\ SendMessage(<<[cmd |-> "INIT", by |-> m.by, cid |-> nextCid]>>)
  /\ UNCHANGED <<nextId, pending, history>>

HandlePing(m) ==
  /\ m.cmd = "PING"
  /\ SendMessage(Several("PING", m.chan, m.size))
  /\ UNCHANGED <<tableVars, history>>

(* Mutant of HandleCancel: retain() with the condition the wrong way round. *)
HandleCancelInverted(m) ==
  /\ m.cmd = "CANCEL"
  /\ pending' = {p \in pending : p.chan = m.chan}
  /\ void' = void \cup {r \in asked : r.chan = m.chan}
  /\ UNCHANGED <<pc, toDev, nextCid, nextId, asked, answers>>

HandleCancel(m) ==
  /\ m.cmd = "CANCEL"
  /\ pending' = {p \in pending : p.chan # m.chan}
  /\ void' = void \cup {r \in asked : r.chan = m.chan}
  /\ UNCHANGED <<pc, toDev, nextCid, nextId, asked, answers>>

(* The request is in the table before it is sent. *)
HandleCbor(m) ==
  /\ m.cmd = "CBOR" /\ nextId \in 1 .. MaxRequests
  /\ LET r == [id |-> nextId, chan |-> m.chan]
     IN  /\ pending' = {p \in pending : p.id # r.id} \cup {r}
         /\ asked' = asked \cup {r}
  /\ nextId' = (nextId + 1) % IdMod
  /\ pc' = "request"
  /\ UNCHANGED <<toDev, nextCid, void, answers>>

(* An unknown command, or CBOR without a payload. *)
HandleOther(m) ==
  /\ m.cmd = "other"
  /\ SendError(m.chan)
  /\ UNCHANGED <<tableVars, history>>

HandleMessage(m) ==
  HandleInit(m) \/ HandlePing(m) \/ HandleCancel(m) \/ HandleCbor(m) \/ HandleOther(m)

NoMessage == UNCHANGED <<pc, toDev, tableVars, history>>

(* A first packet: a short message is handled there and then, and leaves   *)
(* an unfinished one where it is.                                          *)
FirstPacket(p) ==
  /\ p.k = 0
  /\ IF p.msg.size = 1
       THEN HandleMessage(p.msg) /\ UNCHANGED asm
       ELSE asm' = <<p>> /\ NoMessage

(* Mutant of NextPacket: the channel is not compared. *)
NextPacketAnyChannel(p) ==
  /\ p.k > 0
  /\ \/ /\ asm = <<>>
        /\ SendError(p.msg.chan) /\ UNCHANGED <<asm, tableVars, history>>
     \/ /\ asm # <<>> /\ p.k # Len(asm)
        /\ asm' = <<>>
        /\ SendError(p.msg.chan) /\ UNCHANGED <<tableVars, history>>
     \/ /\ asm # <<>> /\ p.k = Len(asm)
        /\ IF Len(asm) + 1 < asm[1].msg.size
             THEN asm' = Append(asm, p) /\ NoMessage
             ELSE asm' = <<>> /\ HandleMessage(asm[1].msg)

NextPacket(p) ==
  /\ p.k > 0
  /\ \/ /\ asm = <<>>
        /\ SendError(p.msg.chan) /\ UNCHANGED <<asm, tableVars, history>>
     \/ /\ asm # <<>> /\ asm[1].msg.chan # p.msg.chan
        /\ SendError(p.msg.chan) /\ UNCHANGED <<asm, tableVars, history>>
     \/ /\ asm # <<>> /\ asm[1].msg.chan = p.msg.chan /\ p.k # Len(asm)
        /\ asm' = <<>>
        /\ SendError(p.msg.chan) /\ UNCHANGED <<tableVars, history>>
     \/ /\ asm # <<>> /\ asm[1].msg.chan = p.msg.chan /\ p.k = Len(asm)
        /\ IF Len(asm) + 1 < asm[1].msg.size
             THEN asm' = Append(asm, p) /\ NoMessage
             ELSE asm' = <<>> /\ HandleMessage(asm[1].msg)

RecvPacket ==
  /\ pc = "select" /\ inq # <<>>
  /\ FirstPacket(Head(inq)) \/ NextPacket(Head(inq))
  /\ inq' = Tail(inq)
  /\ UNCHANGED <<clientVars, devVars, outq, requestq, responseq, netVars>>

(* Mutant of HandleNetworkResponse: get() instead of remove(). *)
HandleNetworkResponseKeeping(r) ==
  \/ /\ \A p \in pending : p.id # r.id
     /\ UNCHANGED <<pc, toDev, pending, answers>>
  \/ \E p \in pending :
       /\ p.id = r.id
       /\ answers' = Append(answers, p)
       /\ SendMessage(Several("CBOR", p.chan, r.size))
       /\ UNCHANGED pending

HandleNetworkResponse(r) ==
  \/ /\ \A p \in pending : p.id # r.id
     /\ UNCHANGED <<pc, toDev, pending, answers>>
  \/ \E p \in pending :
       /\ p.id = r.id
       /\ pending' = pending \ {p}
       /\ answers' = Append(answers, p)
       /\ SendMessage(Several("CBOR", p.chan, r.size))

RecvResponse ==
  /\ pc = "select" /\ responseq # <<>>
  /\ HandleNetworkResponse(Head(responseq))
  /\ responseq' = Tail(responseq)
  /\ UNCHANGED <<clientVars, devVars, inq, outq, requestq, netVars, asm, nextCid, nextId,
                 asked, void>>

(* Either channel is closed and empty. *)
RelayEnds ==
  /\ pc = "select"
  /\ (dev = "off" /\ inq = <<>>) \/ (~netUp /\ responseq = <<>>)
  /\ pc' = "ended"
  /\ inq' = <<>> /\ responseq' = <<>>
  /\ UNCHANGED <<clientVars, devVars, outq, requestq, netVars, toDev, asm, tableVars,
                 history>>

SendPacket ==
  /\ pc = "send" /\ dev # "off" /\ Len(outq) < OutCap
  /\ outq' = Append(outq, Head(toDev))
  /\ toDev' = Tail(toDev)
  /\ pc' = IF Len(toDev) = 1 THEN "select" ELSE "send"
  /\ UNCHANGED <<clientVars, devVars, inq, requestq, responseq, netVars, asm, tableVars,
                 history>>

SendPacketFails ==
  /\ pc = "send" /\ dev = "off"
  /\ toDev' = <<>> /\ pc' = "select"
  /\ UNCHANGED <<clientVars, devVars, queues, netVars, asm, tableVars, history>>

LastId == (nextId - 1) % IdMod  \* the request being sent

SendRequest ==
  /\ pc = "request" /\ netUp /\ Len(requestq) < RequestCap
  /\ requestq' = Append(requestq, LastId)
  /\ pc' = "select"
  /\ UNCHANGED <<clientVars, devVars, inq, outq, responseq, netVars, toDev, asm, tableVars,
                 history>>

(* Mutant of SendRequestFails: the send is tried again and again. *)
SendRequestRetries == pc = "request" /\ ~netUp /\ UNCHANGED vars

SendRequestFails ==
  /\ pc = "request" /\ ~netUp
  /\ \E p \in pending :
       /\ p.id = LastId
       /\ pending' = pending \ {p}
       /\ void' = void \cup {p}
       /\ SendError(p.chan)
  /\ UNCHANGED <<clientVars, devVars, queues, netVars, asm, nextCid, nextId, asked, answers>>

-----------------------------------------------------------------------------
(* THE NETWORK LAYER *)

NetTakes ==
  /\ netUp /\ requestq # <<>>
  /\ remote' = remote \cup {Head(requestq)}
  /\ requestq' = Tail(requestq)
  /\ UNCHANGED <<clientVars, devVars, inq, outq, responseq, netUp, relayVars>>

NetAnswers ==
  /\ netUp /\ pc # "ended" /\ Len(responseq) < ResponseCap
  /\ \E id \in remote, size \in 1 .. MaxSize :
       responseq' = Append(responseq, [id |-> id, size |-> size])
  /\ UNCHANGED <<clientVars, devVars, inq, outq, requestq, netVars, relayVars>>

NetEnds ==
  /\ netUp /\ netUp' = FALSE
  /\ requestq' = <<>>
  /\ UNCHANGED <<clientVars, devVars, inq, outq, responseq, remote, relayVars>>

-----------------------------------------------------------------------------
Write(c) == AskChannel(c) \/ StartMessage(c) \/ ContinueMessage(c)

DevStep == DevWrite \/ DevFlushed \/ DevSend \/ DevSendFails

RelayStep ==
  \/ RecvPacket \/ RecvResponse \/ RelayEnds
  \/ SendPacket \/ SendPacketFails \/ SendRequest \/ SendRequestFails

External ==
  \/ \E c \in Clients : Write(c)
  \/ DevSkip \/ DevStopped \/ Shutdown
  \/ NetTakes \/ NetAnswers \/ NetEnds

Next == DevStep \/ RelayStep \/ External

Spec == Init /\ [][Next]_vars

(* The thread and the task run when they can, and select!, which polls     *)
(* from a random branch on, does not pass over a packet for ever.          *)
FairSpec ==
  Spec /\ WF_vars(DevStep) /\ WF_vars(RelayStep) /\ SF_vars(RecvPacket)

(* Moreover there is always something for read() to return, and the        *)
(* network takes its requests.                                             *)
BusySpec ==
  FairSpec /\ WF_vars((\E c \in Clients : Write(c)) \/ DevSkip) /\ WF_vars(NetTakes)

-----------------------------------------------------------------------------
(* The relay's requests are the service's. *)
Service ==
  INSTANCE Fido2Service
    WITH Request <- Request, asked <- asked, void <- void, answers <- answers

(* Each request is answered at most once, on its own channel and not after *)
(* its cancellation, with whatever the network sends.                      *)
ServiceSpec == Service!Spec

(* The table holds exactly the requests still to be answered: none is      *)
(* forgotten, and none is left over.                                       *)
TableIsExact == pending = Service!Open

(* One assembler serves all channels, yet what is in it are the packets of *)
(* one message, from the first on and in order.                            *)
AssemblyPure ==
  \A i \in 1 .. Len(asm) : asm[i] = [msg |-> asm[1].msg, k |-> i - 1]

(* The thread waits for room on the relay's side and the relay for room on *)
(* the thread's.                                                           *)
Wedged ==
  /\ dev = "send" /\ Len(inq) = InCap
  /\ pc = "send" /\ Len(outq) = OutCap

(* Nothing ends this wait, not even shutdown().                            *)
WedgedForGood == [][Wedged => Wedged']_vars

(* With a busy host and a working network it is the only way for the relay *)
(* not to come back to its select! or end.                                 *)
ServesOrWedged == (pc # "select") ~> (pc \in {"select", "ended"} \/ Wedged)

(* The thread sees the shutdown flag only after a packet of the host, and  *)
(* not at all if it waits for a wedged relay.                              *)
StopsOrWedged == stop ~> (dev = "off" \/ Wedged)
=============================================================================
