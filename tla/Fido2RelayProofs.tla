--------------------------- MODULE Fido2RelayProofs ---------------------------
(***************************************************************************)
(* Proofs about Fido2Relay, for every set of clients and commands, every   *)
(* capacity and length of a message.                                       *)
(***************************************************************************)
EXTENDS Fido2Relay, SequenceTheorems, TLAPS

LEMMA Sizes ==
  /\ MaxSize \in Nat \ {0} /\ MaxChannels \in Nat
  /\ MaxRequests \in Nat /\ IdMod \in Nat \ {0} /\ MaxRequests < IdMod
  /\ InCap \in Nat \ {0} /\ OutCap \in Nat \ {0}
  /\ RequestCap \in Nat \ {0} /\ ResponseCap \in Nat \ {0}
BY Fido2RelayAssumption DEF Fido2RelayAssumption

(* Bounded queues: what appending and taking do. *)
LEMMA Put ==
  ASSUME NEW S, NEW n \in Nat, NEW q, UpTo(q, S, n), NEW e \in S, Len(q) < n
  PROVE  UpTo(Append(q, e), S, n)
BY DEF UpTo

LEMMA Take ==
  ASSUME NEW S, NEW n \in Nat, NEW q, UpTo(q, S, n), q # <<>>
  PROVE  UpTo(Tail(q), S, n) /\ Head(q) \in S /\ Head(q) = q[1]
BY DEF UpTo

LEMMA None ==
  ASSUME NEW S, NEW n \in Nat
  PROVE  UpTo(<<>>, S, n)
BY DEF UpTo

LEMMA Single ==
  ASSUME NEW S, NEW n \in Nat \ {0}, NEW e \in S
  PROVE  UpTo(<<e>>, S, n)
BY DEF UpTo

(* What send_message sends is of packets to the host, and of a message's length. *)
LEMMA SeveralIn ==
  ASSUME NEW cmd \in {"CBOR", "PING"}, NEW chan \in Channel, NEW n \in 1 .. MaxSize
  PROVE  /\ UpTo(Several(cmd, chan, n), OutPacket, MaxSize)
         /\ Several(cmd, chan, n) # <<>>
         /\ \A i \in 1 .. Len(Several(cmd, chan, n)) : Several(cmd, chan, n)[i].cmd = cmd
<1>1. [cmd |-> cmd, chan |-> chan] \in OutPacket
  BY DEF OutPacket
<1>2. n \in Nat /\ n <= MaxSize /\ n > 0
  BY Sizes
<1>3. Several(cmd, chan, n) \in [1 .. n -> OutPacket]
  BY <1>1 DEF Several
<1>4. Several(cmd, chan, n) \in Seq(OutPacket) /\ Len(Several(cmd, chan, n)) = n
  BY <1>2, <1>3
<1>5. QED BY <1>2, <1>4 DEF UpTo, Several

LEMMA ErrorIn ==
  ASSUME NEW chan \in Channel
  PROVE  UpTo(<<[cmd |-> "ERROR", chan |-> chan]>>, OutPacket, MaxSize)
<1>1. [cmd |-> "ERROR", chan |-> chan] \in OutPacket
  BY DEF OutPacket
<1>2. QED BY <1>1, Single, Sizes

(* A client that is told its channel. *)
LEMMA Opened ==
  ASSUME NEW r \in ClientType, NEW ch \in Channel
  PROVE  [r EXCEPT !.st = "open", !.chan = ch] \in ClientType
BY DEF ClientType

-----------------------------------------------------------------------------
(* TYPES *)

(* What TypeOK leaves to say of the places a packet goes through.          *)
Places ==
  /\ dev = "send" <=> devPkt # <<>>
  /\ pc = "send" => toDev # <<>>
  /\ pending \subseteq asked

TypeInv == TypeOK /\ Places

LEMMA TypeInit == Init => TypeInv
<1> SUFFICES ASSUME Init PROVE TypeInv
  OBVIOUS
<1> USE DEF Init
<1>0. <<>> \in Seq(Message) /\ Broadcast \in Channel
  BY Sizes DEF Channel, Broadcast
<1>1. client \in [Clients -> ClientType]
  BY <1>0 DEF ClientType
<1>2. stop \in BOOLEAN /\ netUp \in BOOLEAN
  OBVIOUS
<1>3. /\ asks \in 0 .. MaxRequests /\ nextCid \in Nat \ {0} /\ nextId \in Nat
      /\ UpTo(devPkt, Packet, 1) /\ UpTo(inq, Packet, InCap) /\ UpTo(outq, OutPacket, OutCap)
      /\ UpTo(requestq, Nat, RequestCap) /\ UpTo(toDev, OutPacket, MaxSize)
      /\ UpTo(responseq, [id : Nat, size : 1 .. MaxSize], ResponseCap)
      /\ UpTo(asm, Packet, MaxSize - 1)
  BY Sizes, None
<1>4. answers \in Seq(asked)
  OBVIOUS
<1>5. QED BY <1>1, <1>2, <1>3, <1>4 DEF TypeInv, TypeOK, Places

(* A client writes a packet. *)
LEMMA TypeWrite ==
  ASSUME TypeInv, NEW c \in Clients, Write(c)
  PROVE  TypeInv'
<1> USE DEF TypeInv, TypeOK, Places
<1>1. PICK p \in Packet : DevRead(c, p) /\ client' \in [Clients -> ClientType] /\ asks' \in 0 .. MaxRequests
  <2>1. CASE AskChannel(c)
    <3>1. [msg |-> [cmd |-> "INIT", chan |-> Broadcast, size |-> 1, by |-> c, turn |-> 0], k |-> 0]
            \in Packet
      BY Sizes DEF Packet, Message, Channel, Broadcast
    <3>2. client' \in [Clients -> ClientType]
      BY <2>1 DEF AskChannel, ClientType
    <3>3. QED BY <2>1, <3>1, <3>2 DEF AskChannel
  <2>2. CASE StartMessage(c)
    <3>1. PICK cmd \in Commands, size \in 1 .. MaxSize :
            LET m == [cmd |-> cmd, chan |-> client[c].chan, size |-> size,
                      by |-> c, turn |-> 1 - client[c].turn]
            IN  /\ IF cmd = "CBOR" THEN asks < MaxRequests /\ asks' = asks + 1
                     ELSE UNCHANGED asks
                /\ DevRead(c, [msg |-> m, k |-> 0])
                /\ client' = IF size = 1 THEN client
                             ELSE [client EXCEPT ![c].msg = <<m>>, ![c].k = 1,
                                                 ![c].turn = m.turn]
      BY <2>2 DEF StartMessage
    <3> DEFINE m == [cmd |-> cmd, chan |-> client[c].chan, size |-> size,
                      by |-> c, turn |-> 1 - client[c].turn]
    <3>2. m \in Message /\ m.turn \in {0, 1}
      <4>1. client[c].chan \in Channel /\ 1 - client[c].turn \in {0, 1}
        BY DEF ClientType
      <4>2. QED BY <4>1 DEF Message
    <3>3. [msg |-> m, k |-> 0] \in Packet
      BY <3>2 DEF Packet
    <3>4. client' \in [Clients -> ClientType]
      <4>1. <<m>> \in Seq(Message)
        BY <3>2
      <4>2. QED BY <3>1, <3>2, <4>1 DEF ClientType
    <3>5. asks' \in 0 .. MaxRequests
      BY <3>1, Sizes
    <3>6. QED BY <3>1, <3>3, <3>4, <3>5
  <2>3. CASE ContinueMessage(c)
    <3> DEFINE m == client[c].msg[1]
    <3>1. m \in Message /\ client[c].k \in Nat
      BY <2>3 DEF ContinueMessage, ClientType
    <3>2. [msg |-> m, k |-> client[c].k] \in Packet
      BY <3>1 DEF Packet
    <3>3. client' \in [Clients -> ClientType]
      <4>1. <<>> \in Seq(Message)
        OBVIOUS
      <4>2. CASE client' = [client EXCEPT ![c].msg = <<>>, ![c].k = 0]
        BY <4>1, <4>2 DEF ClientType
      <4>3. CASE client' = [client EXCEPT ![c].k = client[c].k + 1]
        <5>1. client[c].k + 1 \in Nat
          BY <3>1
        <5>2. QED BY <4>3, <5>1 DEF ClientType
      <4>4. QED BY <2>3, <4>2, <4>3 DEF ContinueMessage
    <3>4. QED BY <2>3, <3>2, <3>3 DEF ContinueMessage
  <2>4. QED BY <2>1, <2>2, <2>3 DEF Write
<1>2. UpTo(devPkt', Packet, 1) /\ devPkt' # <<>> /\ dev' = "send"
  BY <1>1, Single DEF DevRead
<1>3. UNCHANGED <<stop, queues, netVars, relayVars>>
  BY <1>1 DEF DevRead
<1>4. QED
  BY <1>1, <1>2, <1>3 DEF queues, netVars, relayVars, tableVars, history

LEMMA WriteReads ==
  ASSUME NEW c \in Clients, Write(c)
  PROVE  dev = "read" /\ UNCHANGED <<stop, queues, netVars, relayVars>>
<1>1. CASE AskChannel(c)
  BY <1>1 DEF AskChannel, DevRead
<1>2. CASE StartMessage(c)
  BY <1>2 DEF StartMessage, DevRead
<1>3. CASE ContinueMessage(c)
  BY <1>3 DEF ContinueMessage, DevRead
<1>4. QED BY <1>1, <1>2, <1>3 DEF Write

(* The device thread, and the shutdown flag. *)
LEMMA TypeDevice ==
  ASSUME TypeInv, DevStep \/ DevSkip \/ DevStopped \/ Shutdown
  PROVE  TypeInv'
<1> USE DEF TypeInv, TypeOK, Places, clientVars, queues, netVars, relayVars, tableVars, history
<1>1. CASE DevWrite
  <2> DEFINE p == Head(outq)
  <2>1. p \in OutPacket /\ UpTo(outq', OutPacket, OutCap)
    BY <1>1, Take, Sizes DEF DevWrite
  <2>2. client' \in [Clients -> ClientType]
    <3>1. CASE p.cmd = "INIT"
      <4>1. p.by \in Clients /\ p.cid \in Channel
        BY <2>1, <3>1 DEF OutPacket
      <4>2. client' = [client EXCEPT ![p.by].st = "open", ![p.by].chan = p.cid]
        BY <1>1, <3>1 DEF DevWrite
      <4>3. client[p.by] \in ClientType
        BY <4>1
      <4>4. [client[p.by] EXCEPT !.st = "open", !.chan = p.cid] \in ClientType
        BY <4>1, <4>3, Opened
      <4>5. client' = [client EXCEPT ![p.by] = [client[p.by] EXCEPT !.st = "open", !.chan = p.cid]]
        BY <4>2
      <4>6. client'[p.by] \in ClientType /\ \A c \in Clients \ {p.by} : client'[c] = client[c]
        BY <4>1, <4>4, <4>5
      <4>7. QED BY <4>5, <4>6
    <3>2. CASE p.cmd # "INIT"
      BY <1>1, <3>2 DEF DevWrite
    <3>3. QED BY <3>1, <3>2
  <2>3. UNCHANGED <<asks, devVars, inq, requestq, responseq, netVars, relayVars>>
    BY <1>1 DEF DevWrite
  <2>4. QED BY <2>1, <2>2, <2>3 DEF devVars
<1>2. CASE DevFlushed
  BY <1>2 DEF DevFlushed
<1>3. CASE DevSend
  <2>1. devPkt[1] \in Packet
    BY <1>3 DEF DevSend, UpTo
  <2>2. UpTo(inq', Packet, InCap)
    BY <1>3, <2>1, Put, Sizes DEF DevSend
  <2>3. UpTo(devPkt', Packet, 1) /\ devPkt' = <<>>
    BY <1>3, None DEF DevSend
  <2>4. dev' \in {"flush", "off"} /\ UpTo(outq', OutPacket, OutCap)
    BY <1>3, None, Sizes DEF DevSend, NextRound, DevEnds
  <2>5. UNCHANGED <<clientVars, stop, requestq, responseq, netVars, relayVars>>
    BY <1>3 DEF DevSend
  <2>6. QED BY <2>2, <2>3, <2>4, <2>5
<1>4. CASE DevSendFails
  <2>1. UpTo(devPkt', Packet, 1) /\ devPkt' = <<>> /\ dev' = "off" /\ UpTo(outq', OutPacket, OutCap)
    BY <1>4, None, Sizes DEF DevSendFails, DevEnds
  <2>2. UNCHANGED <<clientVars, stop, inq, requestq, responseq, netVars, relayVars>>
    BY <1>4 DEF DevSendFails
  <2>3. QED BY <2>1, <2>2
<1>5. CASE DevSkip \/ DevStopped
  <2>1. dev # "send" /\ dev' \in {"flush", "off"} /\ UpTo(outq', OutPacket, OutCap)
    BY <1>5, None, Sizes DEF DevSkip, DevStopped, NextRound, DevEnds
  <2>2. UNCHANGED <<clientVars, devPkt, stop, inq, requestq, responseq, netVars, relayVars>>
    BY <1>5 DEF DevSkip, DevStopped
  <2>3. QED BY <2>1, <2>2
<1>6. CASE Shutdown
  BY <1>6 DEF Shutdown
<1>7. QED BY <1>1, <1>2, <1>3, <1>4, <1>5, <1>6 DEF DevStep

(* The part of the types that handling a message, or refusing a packet, can touch. *)
Handled ==
  /\ pc \in {"select", "send", "request", "ended"}
  /\ UpTo(toDev, OutPacket, MaxSize) /\ (pc = "send" => toDev # <<>>)
  /\ nextCid \in Nat \ {0} /\ nextId \in Nat
  /\ pending \subseteq asked /\ pending \subseteq Request
  /\ asked \subseteq Request /\ void \subseteq asked /\ answers \in Seq(asked)

LEMMA TypeError ==
  ASSUME TypeInv, NEW p \in Packet, SendError(p.msg.chan), UNCHANGED <<tableVars, history>>
  PROVE  Handled'
<1>1. p.msg.chan \in Channel
  BY DEF Packet, Message
<1>2. QED
  BY <1>1, ErrorIn DEF SendError, SendMessage, TypeInv, TypeOK, Places, Handled, tableVars, history

LEMMA TypeHandle ==
  ASSUME TypeInv, NEW m \in Message, HandleMessage(m)
  PROVE  Handled'
<1> USE DEF TypeInv, TypeOK, Places, Handled, tableVars, history
<1>0. m.chan \in Channel /\ m.size \in 1 .. MaxSize /\ m.by \in Clients
  BY DEF Message
<1>1. CASE HandleInit(m)
  <2>1. [cmd |-> "INIT", by |-> m.by, cid |-> nextCid] \in OutPacket
    BY <1>0, <1>1, Sizes DEF HandleInit, OutPacket, Channel, Broadcast
  <2>2. QED BY <1>1, <2>1, Single, Sizes DEF HandleInit, SendMessage
<1>2. CASE HandlePing(m)
  BY <1>0, <1>2, SeveralIn DEF HandlePing, SendMessage
<1>3. CASE HandleCancel(m)
  BY <1>3 DEF HandleCancel
<1>4. CASE HandleCbor(m)
  <2> DEFINE r == [id |-> nextId, chan |-> m.chan]
  <2>1. r \in Request
    BY <1>0, <1>4 DEF HandleCbor, Request
  <2>2. nextId' \in Nat
    BY <1>4, Sizes DEF HandleCbor
  <2>3. asked' = asked \cup {r} /\ pending' = {p \in pending : p.id # r.id} \cup {r}
    BY <1>4 DEF HandleCbor
  <2>4. answers' \in Seq(asked')
    BY <1>4, <2>3 DEF HandleCbor
  <2>5. QED BY <1>4, <2>1, <2>2, <2>3, <2>4 DEF HandleCbor
<1>5. CASE HandleOther(m)
  BY <1>0, <1>5, ErrorIn DEF HandleOther, SendError, SendMessage
<1>6. QED BY <1>1, <1>2, <1>3, <1>4, <1>5 DEF HandleMessage

LEMMA TypeRecv ==
  ASSUME TypeInv, RecvPacket
  PROVE  TypeInv'
<1> USE DEF TypeInv, TypeOK, Places
<1> DEFINE p == Head(inq)
<1>1. p \in Packet /\ UpTo(inq', Packet, InCap)
  BY Take, Sizes DEF RecvPacket
<1>2. p.msg \in Message
  BY <1>1 DEF Packet
<1>3. Handled' /\ UpTo(asm', Packet, MaxSize - 1)
  <2>1. CASE FirstPacket(p)
    <3>1. CASE p.msg.size = 1
      BY <1>2, <2>1, <3>1, TypeHandle DEF FirstPacket
    <3>2. CASE p.msg.size # 1
      <4>1. MaxSize - 1 \in Nat \ {0}
        BY <1>2, <3>2, Sizes DEF Message
      <4>2. UpTo(asm', Packet, MaxSize - 1)
        BY <1>1, <2>1, <3>2, <4>1, Single DEF FirstPacket
      <4>3. QED BY <2>1, <3>2, <4>2 DEF FirstPacket, NoMessage, Handled, tableVars, history
    <3>3. QED BY <3>1, <3>2
  <2>2. CASE NextPacket(p)
    <3>0. MaxSize - 1 \in Nat
      BY Sizes
    <3>1. CASE SendError(p.msg.chan) /\ UNCHANGED <<tableVars, history>> /\ asm' \in {asm, <<>>}
      BY <1>1, <3>0, <3>1, TypeError, None
    <3>2. CASE asm # <<>> /\ Len(asm) + 1 < asm[1].msg.size /\ asm' = Append(asm, p) /\ NoMessage
      <4>1. asm[1] \in Packet
        BY <3>2 DEF UpTo
      <4>a. asm[1].msg.size \in 1 .. MaxSize
        BY <4>1 DEF Packet, Message
      <4>b. Len(asm) \in Nat
        BY DEF UpTo
      <4>2. asm[1].msg.size <= MaxSize /\ asm[1].msg.size \in Nat /\ Len(asm) \in Nat
        BY <4>a, <4>b, Sizes
      <4>3. Len(asm) < MaxSize - 1
        BY <3>2, <4>2, Sizes
      <4>4. UpTo(asm', Packet, MaxSize - 1)
        BY <1>1, <3>0, <3>2, <4>3, Put
      <4>5. QED BY <3>2, <4>4 DEF NoMessage, Handled, tableVars, history
    <3>3. CASE asm # <<>> /\ asm' = <<>> /\ HandleMessage(asm[1].msg)
      <4>1. asm[1] \in Packet
        BY <3>3 DEF UpTo
      <4>2. asm[1].msg \in Message
        BY <4>1 DEF Packet
      <4>3. QED BY <3>0, <3>3, <4>2, TypeHandle, None
    <3>4. QED BY <2>2, <3>1, <3>2, <3>3 DEF NextPacket
  <2>3. QED BY <2>1, <2>2 DEF RecvPacket
<1>4. UNCHANGED <<clientVars, devVars, outq, requestq, responseq, netVars>>
  BY DEF RecvPacket
<1>5. QED BY <1>1, <1>3, <1>4 DEF Handled, clientVars, devVars, netVars

LEMMA TypeResponse ==
  ASSUME TypeInv, RecvResponse
  PROVE  TypeInv'
<1> USE DEF TypeInv, TypeOK, Places
<1> DEFINE r == Head(responseq)
<1>1. r \in [id : Nat, size : 1 .. MaxSize]
      /\ UpTo(responseq', [id : Nat, size : 1 .. MaxSize], ResponseCap)
  BY Take, Sizes DEF RecvResponse
<1>2. UNCHANGED <<clientVars, devVars, inq, outq, requestq, netVars, asm, nextCid, nextId, asked, void>>
  BY DEF RecvResponse
<1>3. Handled'
  <2>1. CASE UNCHANGED <<pc, toDev, pending, answers>>
    BY <1>2, <2>1 DEF Handled
  <2>2. CASE \E p \in pending :
               /\ pending' = pending \ {p} /\ answers' = Append(answers, p)
               /\ SendMessage(Several("CBOR", p.chan, r.size))
    <3>1. PICK p \in pending :
               /\ pending' = pending \ {p} /\ answers' = Append(answers, p)
               /\ SendMessage(Several("CBOR", p.chan, r.size))
      BY <2>2
    <3>2. p.chan \in Channel /\ r.size \in 1 .. MaxSize
      BY <1>1 DEF Request
    <3>3. p \in asked
      OBVIOUS
    <3>4. QED BY <1>2, <3>1, <3>2, <3>3, SeveralIn DEF SendMessage, Handled
  <2>3. QED BY <2>1, <2>2 DEF RecvResponse, HandleNetworkResponse
<1>4. QED BY <1>1, <1>2, <1>3 DEF Handled, clientVars, devVars, netVars

(* The relay sends, to the device or to the network, or ends. *)
LEMMA TypeSend ==
  ASSUME TypeInv, RelayEnds \/ SendPacket \/ SendPacketFails \/ SendRequest \/ SendRequestFails
  PROVE  TypeInv'
<1> USE DEF TypeInv, TypeOK, Places, clientVars, devVars, queues, netVars, tableVars, history
<1>1. CASE RelayEnds
  BY <1>1, None, Sizes DEF RelayEnds
<1>2. CASE SendPacket
  <2>1. /\ toDev # <<>> /\ Head(toDev) \in OutPacket
        /\ UpTo(toDev', OutPacket, MaxSize)
    BY <1>2, Take, Sizes DEF SendPacket
  <2>2. pc' \in {"select", "send"} /\ (pc' = "send" => toDev' # <<>>)
    <3>0. /\ toDev \in Seq(OutPacket) /\ Len(toDev) \in Nat \ {0}
          /\ Tail(toDev) \in Seq(OutPacket) /\ Len(Tail(toDev)) = Len(toDev) - 1
      BY <2>1 DEF UpTo
    <3>1. Len(toDev) # 1 => Len(Tail(toDev)) # 0
      BY <3>0
    <3>2. QED BY <1>2, <3>0, <3>1, SMTT(30) DEF SendPacket
  <2>3. UpTo(outq', OutPacket, OutCap)
    BY <1>2, <2>1, Put, Sizes DEF SendPacket
  <2>4. QED BY <1>2, <2>1, <2>2, <2>3 DEF SendPacket
<1>3. CASE SendPacketFails
  BY <1>3, None, Sizes DEF SendPacketFails
<1>4. CASE SendRequest
  <2>1. LastId \in Nat
    BY Sizes DEF LastId
  <2>2. UpTo(requestq', Nat, RequestCap)
    BY <1>4, <2>1, Put, Sizes DEF SendRequest
  <2>3. QED BY <1>4, <2>2 DEF SendRequest
<1>5. CASE SendRequestFails
  <2>1. PICK p \in pending : /\ pending' = pending \ {p} /\ void' = void \cup {p}
                             /\ SendError(p.chan)
    BY <1>5 DEF SendRequestFails
  <2>2. p.chan \in Channel
    BY DEF Request
  <2>3. UpTo(toDev', OutPacket, MaxSize) /\ toDev' # <<>> /\ pc' = "send"
    BY <2>1, <2>2, ErrorIn DEF SendError, SendMessage
  <2>4. void' \subseteq asked /\ pending' \subseteq pending
    BY <2>1
  <2>5. UNCHANGED <<clientVars, devVars, queues, netVars, asm, nextCid, nextId, asked, answers>>
    BY <1>5 DEF SendRequestFails
  <2>6. QED BY <2>3, <2>4, <2>5
<1>6. QED BY <1>1, <1>2, <1>3, <1>4, <1>5

LEMMA TypeNet ==
  ASSUME TypeInv, NetTakes \/ NetAnswers \/ NetEnds
  PROVE  TypeInv'
<1> USE DEF TypeInv, TypeOK, Places, clientVars, devVars, netVars, relayVars, tableVars, history
<1>1. CASE NetTakes
  <2>1. Head(requestq) \in Nat /\ UpTo(requestq', Nat, RequestCap)
    BY <1>1, Take, Sizes DEF NetTakes
  <2>2. remote' \subseteq Nat
    BY <1>1, <2>1 DEF NetTakes
  <2>3. QED BY <1>1, <2>1, <2>2 DEF NetTakes
<1>2. CASE NetAnswers
  <2>1. PICK id \in remote, size \in 1 .. MaxSize :
          responseq' = Append(responseq, [id |-> id, size |-> size])
    BY <1>2 DEF NetAnswers
  <2>2. [id |-> id, size |-> size] \in [id : Nat, size : 1 .. MaxSize]
    OBVIOUS
  <2>3. UpTo(responseq', [id : Nat, size : 1 .. MaxSize], ResponseCap)
    BY <1>2, <2>1, <2>2, Put, Sizes DEF NetAnswers
  <2>4. QED BY <1>2, <2>3 DEF NetAnswers
<1>3. CASE NetEnds
  BY <1>3, None, Sizes DEF NetEnds
<1>4. QED BY <1>1, <1>2, <1>3

LEMMA TypeStep ==
  ASSUME TypeInv, [Next]_vars
  PROVE  TypeInv'
<1>1. CASE UNCHANGED vars
  BY <1>1 DEF vars, clientVars, devVars, queues, netVars, relayVars, tableVars, history,
              TypeInv, TypeOK, Places
<1>2. QED
  BY <1>1, TypeWrite, TypeDevice, TypeRecv, TypeResponse, TypeSend, TypeNet
     DEF Next, External, RelayStep, DevStep

(* Every variable keeps its type, and every channel its capacity. *)
THEOREM TypeCorrect == Spec => []TypeOK
<1>1. TypeInv => TypeOK
  BY DEF TypeInv
<1>2. QED BY <1>1, TypeInit, TypeStep, PTL DEF Spec

-----------------------------------------------------------------------------
(* THE TABLE OF REQUESTS *)

(* Ids are given out once, in order.  (After the last id nextId may have   *)
(* become 0, and no request is made any more.)                             *)
TableInv ==
  /\ nextId <= MaxRequests + 1
  /\ \A r \in asked : nextId = 0 \/ r.id < nextId
  /\ \A r, q \in asked : r.id = q.id => r = q
  /\ TableIsExact

(* How the table and the history can change. *)
AnswersIt(p) ==
  /\ pending' = pending \ {p} /\ answers' = Append(answers, p)
  /\ UNCHANGED <<nextId, asked, void>>
RefusesIt(p) ==
  /\ pending' = pending \ {p} /\ void' = void \cup {p}
  /\ UNCHANGED <<nextId, asked, answers>>

LEMMA TableSteps ==
  ASSUME TypeInv, [Next]_vars
  PROVE  \/ UNCHANGED <<nextId, pending, history>>
         \/ \E m \in Message : HandleCancel(m) \/ HandleCbor(m)
         \/ \E p \in pending : AnswersIt(p) \/ RefusesIt(p)
<1> USE DEF relayVars, tableVars, history
<1>1. CASE RecvPacket
  <2>1. Head(inq) \in Packet /\ (asm # <<>> => asm[1] \in Packet)
    BY <1>1, Take, Sizes DEF RecvPacket, TypeInv, TypeOK, UpTo
  <2>2. Head(inq).msg \in Message /\ (asm # <<>> => asm[1].msg \in Message)
    BY <2>1 DEF Packet
  <2>3. \/ UNCHANGED <<nextId, pending, history>>
        \/ \E m \in Message : HandleMessage(m)
    <3>1. CASE FirstPacket(Head(inq))
      BY <2>2, <3>1 DEF FirstPacket, NoMessage
    <3>2. CASE NextPacket(Head(inq))
      BY <2>2, <3>2 DEF NextPacket, NoMessage
    <3>3. QED BY <1>1, <3>1, <3>2 DEF RecvPacket
  <2>4. ASSUME NEW m \in Message, HandleMessage(m)
        PROVE  UNCHANGED <<nextId, pending, history>> \/ HandleCancel(m) \/ HandleCbor(m)
    <3>1. CASE HandleInit(m)
      BY <3>1 DEF HandleInit
    <3>2. CASE HandlePing(m) \/ HandleOther(m)
      BY <3>2 DEF HandlePing, HandleOther
    <3>3. QED BY <2>4, <3>1, <3>2 DEF HandleMessage
  <2>5. QED BY <2>3, <2>4
<1>2. CASE RecvResponse
  BY <1>2 DEF RecvResponse, HandleNetworkResponse, AnswersIt
<1>3. CASE SendRequestFails
  BY <1>3 DEF SendRequestFails, RefusesIt
<1>4. CASE RelayEnds \/ SendPacket \/ SendPacketFails \/ SendRequest
  BY <1>4 DEF RelayEnds, SendPacket, SendPacketFails, SendRequest
<1>5. CASE DevStep \/ External \/ UNCHANGED vars
  <2>1. CASE \E c \in Clients : Write(c)
    BY <2>1, WriteReads
  <2>2. CASE NetTakes \/ NetAnswers \/ NetEnds
    BY <2>2 DEF NetTakes, NetAnswers, NetEnds
  <2>3. CASE DevStep \/ DevSkip \/ DevStopped \/ Shutdown
    BY <2>3 DEF DevStep, DevWrite, DevFlushed, DevSend, DevSendFails, DevSkip, DevStopped, Shutdown
  <2>4. QED BY <1>5, <2>1, <2>2, <2>3 DEF External, vars
<1>6. QED BY <1>1, <1>2, <1>3, <1>4, <1>5 DEF Next, RelayStep

LEMMA TableInit == Init => TableInv
<1> SUFFICES ASSUME Init PROVE TableInv
  OBVIOUS
<1>1. asked = {} /\ pending = {} /\ nextId = 1
  BY DEF Init
<1>2. QED BY <1>1, Sizes DEF TableInv, TableIsExact, Service!Open

(* What has been answered after one more answer. *)
LEMMA OneMoreAnswer ==
  ASSUME answers \in Seq(asked), NEW p, answers' = Append(answers, p)
  PROVE  Service!Answered' = Service!Answered \cup {p}
<1>1. /\ Len(answers') = Len(answers) + 1 /\ Len(answers) \in Nat
      /\ answers'[Len(answers) + 1] = p
      /\ \A i \in 1 .. Len(answers) : answers'[i] = answers[i]
  OBVIOUS
<1>2. 1 .. Len(answers') = 1 .. Len(answers) \cup {Len(answers) + 1}
  BY <1>1
<1>3. QED BY <1>1, <1>2 DEF Service!Answered

LEMMA TableStep ==
  ASSUME TypeInv, TableInv, [Next]_vars
  PROVE  TableInv'
<1> USE DEF TableInv, TableIsExact, Service!Open
<1>0. /\ answers \in Seq(asked) /\ void \subseteq asked /\ asked \subseteq Request
      /\ nextId \in Nat /\ pending \subseteq asked
      /\ Service!Answered \subseteq asked
  BY DEF TypeInv, TypeOK, Places, Service!Answered
<1>1. CASE UNCHANGED <<nextId, pending, history>>
  BY <1>1 DEF history, Service!Answered
<1>2. ASSUME NEW m \in Message, HandleCancel(m) PROVE TableInv'
  <2>1. Service!Answered' = Service!Answered
    BY <1>2 DEF HandleCancel, Service!Answered
  <2>2. pending' = asked \ (void' \cup Service!Answered)
    BY <1>0, <1>2 DEF HandleCancel
  <2>3. QED BY <1>2, <2>1, <2>2 DEF HandleCancel
<1>3. ASSUME NEW m \in Message, HandleCbor(m) PROVE TableInv'
  <2> DEFINE r == [id |-> nextId, chan |-> m.chan]
  <2>1. Service!Answered' = Service!Answered
    BY <1>3 DEF HandleCbor, Service!Answered
  <2>2. nextId \in 1 .. MaxRequests /\ \A q \in asked : q.id # r.id
    BY <1>0, <1>3 DEF HandleCbor, Request
  <2>3. asked' = asked \cup {r} /\ pending' = pending \cup {r} /\ void' = void
    BY <1>0, <1>3, <2>2 DEF HandleCbor
  <2>4. r \notin void /\ r \notin Service!Answered
    BY <1>0, <2>2
  <2>5. TableIsExact'
    BY <2>1, <2>3, <2>4
  <2>6. nextId' = 0 \/ nextId' = nextId + 1
    <3>1. nextId + 1 < IdMod => (nextId + 1) % IdMod = nextId + 1
      BY <2>2, Sizes
    <3>2. nextId + 1 = IdMod => (nextId + 1) % IdMod = 0
      BY <2>2, Sizes
    <3>3. nextId + 1 <= IdMod
      BY <2>2, Sizes
    <3>4. QED BY <1>0, <1>3, <3>1, <3>2, <3>3, Sizes DEF HandleCbor
  <2>7. nextId' <= MaxRequests + 1 /\ \A q \in asked' : nextId' = 0 \/ q.id < nextId'
    BY <1>0, <2>2, <2>3, <2>6, Sizes DEF Request
  <2>8. \A p, q \in asked' : p.id = q.id => p = q
    BY <2>2, <2>3
  <2>9. QED BY <2>5, <2>7, <2>8
<1>4. ASSUME NEW p \in pending, AnswersIt(p) PROVE TableInv'
  <2>1. Service!Answered' = Service!Answered \cup {p}
    BY <1>0, <1>4, OneMoreAnswer DEF AnswersIt
  <2>2. QED BY <1>4, <2>1 DEF AnswersIt
<1>5. ASSUME NEW p \in pending, RefusesIt(p) PROVE TableInv'
  <2>1. Service!Answered' = Service!Answered
    BY <1>5 DEF RefusesIt, Service!Answered
  <2>2. QED BY <1>5, <2>1 DEF RefusesIt
<1>6. QED BY <1>1, <1>2, <1>3, <1>4, <1>5, TableSteps

(* pending_requests holds exactly what was forwarded and is neither        *)
(* answered nor cancelled: nothing is forgotten and nothing left over.     *)
THEOREM TableCorrect == Spec => []TableIsExact
<1>1. TableInv => TableIsExact
  BY DEF TableInv
<1>2. QED BY <1>1, TypeInit, TypeStep, TableInit, TableStep, PTL DEF Spec

(* The relay implements the service: every step of it is one of the        *)
(* service, or none of the service's business.                             *)
THEOREM ImplementsService == Spec => ServiceSpec
<1>1. Init => Service!Init
  BY DEF Init, Service!Init
<1>2. TypeInv /\ TableInv /\ [Next]_vars => [Service!Next]_(Service!vars)
  <2> SUFFICES ASSUME TypeInv, TableInv, [Next]_vars
               PROVE  [Service!Next]_(Service!vars)
    OBVIOUS
  <2>1. CASE UNCHANGED <<nextId, pending, history>>
    BY <2>1 DEF history, Service!vars
  <2>2. ASSUME NEW m \in Message, HandleCancel(m) PROVE [Service!Next]_(Service!vars)
    <3>1. CASE \E r \in asked : r.chan = m.chan
      <4>1. m.chan \in {r.chan : r \in asked}
        BY <3>1
      <4>2. Service!Cancel(m.chan)
        BY <2>2 DEF HandleCancel, Service!Cancel
      <4>3. QED BY <4>1, <4>2 DEF Service!Next
    <3>2. CASE ~ \E r \in asked : r.chan = m.chan
      BY <2>2, <3>2 DEF HandleCancel, Service!vars
    <3>3. QED BY <3>1, <3>2
  <2>3. ASSUME NEW m \in Message, HandleCbor(m) PROVE [Service!Next]_(Service!vars)
    <3> DEFINE r == [id |-> nextId, chan |-> m.chan]
    <3>1. r \in Request
      BY <2>3 DEF HandleCbor, Request, Message
    <3>2. \A a \in asked : a.id # r.id
      <4>1. nextId # 0 /\ nextId \in Nat /\ \A a \in asked : a.id \in Nat
        BY <2>3 DEF HandleCbor, Request, TypeInv, TypeOK
      <4>2. QED BY <4>1 DEF TableInv
    <3>3. Service!Ask(r)
      BY <2>3, <3>2 DEF HandleCbor, Service!Ask
    <3>4. QED BY <3>1, <3>3 DEF Service!Next
  <2>4. ASSUME NEW p \in pending, AnswersIt(p) \/ RefusesIt(p)
        PROVE  [Service!Next]_(Service!vars)
    <3>1. p \in Service!Open /\ p \in Request
      BY DEF TableInv, TableIsExact, TypeInv, TypeOK
    <3>2. Service!Answer(p) \/ Service!Refuse(p)
      BY <2>4, <3>1 DEF AnswersIt, RefusesIt, Service!Answer, Service!Refuse
    <3>3. QED BY <3>1, <3>2 DEF Service!Next
  <2>5. QED BY <2>1, <2>2, <2>3, <2>4, TableSteps
<1>3. QED
  BY <1>1, <1>2, TypeInit, TypeStep, TableInit, TableStep, PTL
     DEF Spec, ServiceSpec, Service!Spec

-----------------------------------------------------------------------------
(* WHAT THE SERVICE PROMISES *)

ServiceInv ==
  /\ answers \in Seq(asked)
  /\ \A a, b \in asked : a.id = b.id => a = b
  /\ \A i, j \in 1 .. Len(answers) : answers[i] = answers[j] => i = j

LEMMA ServiceStep ==
  ASSUME ServiceInv, [Service!Next]_(Service!vars)
  PROVE  ServiceInv'
<1> USE DEF ServiceInv
<1>1. CASE answers' = answers /\ asked' = asked
  BY <1>1
<1>2. ASSUME NEW r \in Request, Service!Ask(r) PROVE ServiceInv'
  BY <1>2 DEF Service!Ask
<1>3. ASSUME NEW r \in Request, Service!Answer(r) PROVE ServiceInv'
  <2>1. /\ asked' = asked /\ answers' = Append(answers, r) /\ r \in asked
        /\ \A i \in 1 .. Len(answers) : answers[i] # r
    BY <1>3 DEF Service!Answer, Service!Open, Service!Answered
  <2>2. /\ answers' \in Seq(asked)
        /\ \A i \in 1 .. Len(answers') :
             \/ i \in 1 .. Len(answers) /\ answers'[i] = answers[i]
             \/ i = Len(answers) + 1 /\ answers'[i] = r
    BY <2>1
  <2>3. QED BY <2>1, <2>2
<1>4. QED
  BY <1>1, <1>2, <1>3
     DEF Service!Next, Service!vars, Service!Refuse, Service!Cancel

(* A host program never gets two answers to one request, though the        *)
(* network may send as many as it likes.                                   *)
THEOREM AnsweredAtMostOnce == Spec => []Service!AtMostOnce
<1>1. Service!Init => ServiceInv
  BY DEF Service!Init, ServiceInv
<1>2. ServiceInv => Service!AtMostOnce
  <2> SUFFICES ASSUME ServiceInv, NEW i \in 1 .. Len(answers), NEW j \in 1 .. Len(answers),
                      answers[i].id = answers[j].id
               PROVE  i = j
    BY DEF Service!AtMostOnce
  <2>1. answers[i] \in asked /\ answers[j] \in asked
    BY DEF ServiceInv
  <2>2. QED BY <2>1 DEF ServiceInv
<1>3. QED BY <1>1, <1>2, ServiceStep, ImplementsService, PTL DEF ServiceSpec, Service!Spec

-----------------------------------------------------------------------------
(* THE WEDGE *)

(* With both channels full, the thread waits for the relay and the relay   *)
(* for the thread, whatever hosts, network and shutdown() do.              *)
THEOREM WedgeIsFinal == Spec => WedgedForGood
<1>1. ASSUME Wedged, [Next]_vars PROVE UNCHANGED <<dev, inq, pc, outq>>
  <2> USE <1>1, Sizes DEF Wedged, queues, relayVars
  <2>1. CASE DevStep
    BY <2>1 DEF DevStep, DevWrite, DevFlushed, DevSend, DevSendFails
  <2>2. CASE RelayStep
    BY <2>2 DEF RelayStep, RecvPacket, RecvResponse, RelayEnds, SendPacket, SendPacketFails,
                SendRequest, SendRequestFails
  <2>3. CASE \E c \in Clients : Write(c)
    BY <2>3, WriteReads
  <2>4. CASE DevSkip \/ DevStopped \/ Shutdown \/ NetTakes \/ NetAnswers \/ NetEnds
    BY <2>4 DEF DevSkip, DevStopped, Shutdown, NetTakes, NetAnswers, NetEnds, devVars
  <2>5. QED BY <2>1, <2>2, <2>3, <2>4 DEF Next, External, vars, devVars
<1>2. [Next]_vars => (Wedged => Wedged')
  BY <1>1 DEF Wedged
<1>3. QED BY <1>2, PTL DEF Spec, WedgedForGood

-----------------------------------------------------------------------------
(* THE OWNERS OF THE CHANNELS *)

(* Client c has, or will have, the channel ch: it was told so, the reply   *)
(* is on its way, or a message of several packets came from it there.      *)
Own(p, c) == p.msg.by = c /\ p.msg.size # 1
Replies(q, ch, c) ==
  \E i \in 1 .. Len(q) : q[i].cmd = "INIT" /\ q[i].by = c /\ q[i].cid = ch
Carries(q, ch, c) ==
  \E i \in 1 .. Len(q) : Own(q[i], c) /\ q[i].msg.chan = ch
Writes(ch, c) ==
  \/ client[c].st = "open" /\ client[c].chan = ch
  \/ client[c].msg # <<>> /\ client[c].msg[1].chan = ch
Assembles(a, ch, c) == a # <<>> /\ Own(a[1], c) /\ a[1].msg.chan = ch

Owns(ch, c) ==
  \/ Writes(ch, c)
  \/ Replies(toDev, ch, c) \/ Replies(outq, ch, c)
  \/ Carries(devPkt, ch, c) \/ Carries(inq, ch, c)
  \/ Assembles(asm, ch, c)

OneOwner ==
  \A c \in Clients, ch \in Channel : Owns(ch, c) =>
    ch < nextCid /\ \A d \in Clients : Owns(ch, d) => c = d

(* A continuation packet is one of a long message, and its writer's.       *)
Proper(q) == \A i \in 1 .. Len(q) : q[i].k > 0 => q[i].msg.size # 1
Authors ==
  /\ \A c \in Clients : client[c].msg # <<>> =>
       client[c].msg[1].by = c /\ client[c].msg[1].size # 1 /\ client[c].k > 0
  /\ Proper(devPkt) /\ Proper(inq)
  /\ asm # <<>> => asm[1].msg.size # 1

OwnerInv == OneOwner /\ Authors

(* A step that makes no new owner keeps the owners apart. *)
LEMMA NoNewOwner ==
  ASSUME OneOwner, nextCid' = nextCid,
         \A c \in Clients, ch \in Channel : Owns(ch, c)' => Owns(ch, c)
  PROVE  OneOwner'
BY DEF OneOwner

(* Queues: what is in a queue after a step was in it, or was added.        *)
LEMMA QueueSteps ==
  ASSUME NEW S, NEW q \in Seq(S), NEW e \in S, NEW c, NEW ch
  PROVE  /\ Replies(Append(q, e), ch, c) =>
              Replies(q, ch, c) \/ (e.cmd = "INIT" /\ e.by = c /\ e.cid = ch)
         /\ Carries(Append(q, e), ch, c) =>
              Carries(q, ch, c) \/ (Own(e, c) /\ e.msg.chan = ch)
         /\ Proper(q) /\ (e.k > 0 => e.msg.size # 1) => Proper(Append(q, e))
         /\ q # <<>> /\ Replies(Tail(q), ch, c) => Replies(q, ch, c)
         /\ q # <<>> /\ Carries(Tail(q), ch, c) => Carries(q, ch, c)
         /\ q # <<>> /\ Proper(q) => Proper(Tail(q))
<1>1. \A i \in 1 .. Len(Append(q, e)) :
        \/ i \in 1 .. Len(q) /\ Append(q, e)[i] = q[i]
        \/ Append(q, e)[i] = e
  OBVIOUS
<1>2. q # <<>> => \A i \in 1 .. Len(Tail(q)) : i + 1 \in 1 .. Len(q) /\ Tail(q)[i] = q[i + 1]
  OBVIOUS
<1>3. QED BY <1>1, <1>2 DEF Replies, Carries, Proper

LEMMA OwnerInit == Init => OwnerInv
<1> SUFFICES ASSUME Init PROVE OwnerInv
  OBVIOUS
<1>1. \A c \in Clients : client[c].st = "new" /\ client[c].msg = <<>>
  BY DEF Init
<1>2. toDev = <<>> /\ outq = <<>> /\ devPkt = <<>> /\ inq = <<>> /\ asm = <<>>
  BY DEF Init
<1>3. QED
  BY <1>1, <1>2
     DEF OwnerInv, OneOwner, Owns, Writes, Replies, Carries, Assembles, Authors, Proper

LEMMA OwnerWrite ==
  ASSUME TypeInv, OwnerInv, NEW w \in Clients, Write(w)
  PROVE  OwnerInv'
<1> USE DEF TypeInv, TypeOK, Places
<1>0. client[w].msg # <<>> => Len(client[w].msg) \in Nat /\ client[w].msg[1] \in Message
  BY DEF ClientType
<1>1. PICK p : /\ DevRead(w, p) /\ p.msg.by = w
               /\ p.k > 0 => p.msg.size # 1
               /\ p.msg.size # 1 => Writes(p.msg.chan, w)
               /\ \A d \in Clients : d # w => client'[d] = client[d]
               /\ client'[w].chan = client[w].chan
               /\ client'[w].st = "open" => client[w].st = "open"
               /\ \/ client'[w].msg = <<>>
                  \/ client'[w].msg = client[w].msg /\ client'[w].k >= client[w].k
                  \/ /\ client'[w].msg = <<p.msg>> /\ client'[w].k = 1
                     /\ p.msg.size # 1
  <2>1. CASE AskChannel(w)
    <3> DEFINE p == [msg |-> [cmd |-> "INIT", chan |-> Broadcast, size |-> 1,
                              by |-> w, turn |-> 0], k |-> 0]
    <3>1. DevRead(w, p) /\ client' = [client EXCEPT ![w].st = "asking"]
      BY <2>1 DEF AskChannel
    <3>2. client'[w].k = client[w].k /\ client[w].k \in Nat
      BY <3>1 DEF ClientType
    <3>3. QED BY <3>1, <3>2 DEF ClientType
  <2>2. CASE StartMessage(w)
    <3>1. PICK cmd \in Commands, size \in 1 .. MaxSize :
            LET m == [cmd |-> cmd, chan |-> client[w].chan, size |-> size,
                      by |-> w, turn |-> 1 - client[w].turn]
            IN  /\ DevRead(w, [msg |-> m, k |-> 0])
                /\ client' = IF size = 1 THEN client
                             ELSE [client EXCEPT ![w].msg = <<m>>, ![w].k = 1,
                                                 ![w].turn = m.turn]
      BY <2>2 DEF StartMessage
    <3> DEFINE m == [cmd |-> cmd, chan |-> client[w].chan, size |-> size,
                      by |-> w, turn |-> 1 - client[w].turn]
               p == [msg |-> m, k |-> 0]
    <3>2. client[w].st = "open" /\ Writes(p.msg.chan, w)
      BY <2>2 DEF StartMessage, Writes
    <3>3. CASE size = 1
      <4>1. client' = client /\ client[w].k \in Nat
        BY <3>1, <3>3 DEF ClientType
      <4>2. QED BY <3>1, <3>2, <4>1
    <3>4. CASE size # 1
      <4>1. client' = [client EXCEPT ![w].msg = <<m>>, ![w].k = 1, ![w].turn = m.turn]
        BY <3>1, <3>4
      <4>2. client'[w].msg = <<m>> /\ client'[w].k = 1 /\ client'[w].chan = client[w].chan
        BY <4>1 DEF ClientType
      <4>3. QED BY <3>1, <3>2, <3>4, <4>1, <4>2
    <3>5. QED BY <3>3, <3>4
  <2>3. CASE ContinueMessage(w)
    <3> DEFINE p == [msg |-> client[w].msg[1], k |-> client[w].k]
    <3>1. DevRead(w, p) /\ client[w].msg # <<>> /\ client[w].k \in Nat
          /\ client' \in {[client EXCEPT ![w].msg = <<>>, ![w].k = 0],
                          [client EXCEPT ![w].k = client[w].k + 1]}
      BY <2>3 DEF ContinueMessage, ClientType
    <3>2. p.msg.by = w /\ p.msg.size # 1 /\ Writes(p.msg.chan, w)
      BY <3>1 DEF OwnerInv, Authors, Writes
    <3>3. /\ client'[w].chan = client[w].chan /\ client'[w].st = client[w].st
          /\ \/ client'[w].msg = <<>>
             \/ client'[w].msg = client[w].msg /\ client'[w].k = client[w].k + 1
      <4>1. CASE client' = [client EXCEPT ![w].msg = <<>>, ![w].k = 0]
        BY <4>1 DEF ClientType
      <4>2. CASE client' = [client EXCEPT ![w].k = client[w].k + 1]
        BY <4>2 DEF ClientType
      <4>3. QED BY <3>1, <4>1, <4>2
    <3>4. QED BY <3>1, <3>2, <3>3
  <2>4. QED BY <2>1, <2>2, <2>3 DEF Write
<1>2. /\ devPkt' = <<p>> /\ devPkt = <<>>
      /\ UNCHANGED <<inq, outq, toDev, asm, nextCid>>
  BY <1>1 DEF DevRead, queues, relayVars, tableVars
<1>3. \A c \in Clients, ch \in Channel : Owns(ch, c)' => Owns(ch, c)
  <2> SUFFICES ASSUME NEW c \in Clients, NEW ch \in Channel, Owns(ch, c)'
               PROVE  Owns(ch, c)
    OBVIOUS
  <2>1. CASE Carries(devPkt, ch, c)'
    BY <1>1, <1>2, <2>1 DEF Carries, Own, Owns
  <2>2. CASE Writes(ch, c)'
    <3>1. CASE c # w
      BY <1>1, <2>2, <3>1 DEF Writes, Owns
    <3>2. CASE c = w
      BY <1>1, <2>2, <3>2 DEF Writes, Owns
    <3>3. QED BY <3>1, <3>2
  <2>3. QED BY <1>2, <2>1, <2>2 DEF Owns
<1>4. OneOwner'
  BY <1>2, <1>3, NoNewOwner DEF OwnerInv
<1>5. Authors'
  <2>1. Proper(devPkt') /\ Proper(inq')
    BY <1>1, <1>2 DEF OwnerInv, Authors, Proper
  <2>2. ASSUME NEW c \in Clients, client'[c].msg # <<>>
        PROVE  client'[c].msg[1].by = c /\ client'[c].msg[1].size # 1 /\ client'[c].k > 0
    <3>1. CASE c # w
      BY <1>1, <2>2, <3>1 DEF OwnerInv, Authors
    <3>2. CASE c = w
      <4>1. client[w].k \in Nat /\ client'[w].k \in Nat
        BY TypeWrite DEF ClientType
      <4>2. QED BY <1>1, <2>2, <3>2, <4>1 DEF OwnerInv, Authors
    <3>3. QED BY <3>1, <3>2
  <2>3. QED BY <1>2, <2>1, <2>2 DEF OwnerInv, Authors
<1>6. QED BY <1>4, <1>5 DEF OwnerInv

(* The device thread: a reply reaches its client, a packet the relay. *)
LEMMA OwnerDevice ==
  ASSUME TypeInv, OwnerInv, DevStep \/ DevSkip \/ DevStopped \/ Shutdown
  PROVE  OwnerInv'
<1> USE DEF TypeInv, TypeOK, Places, OwnerInv
<1>1. CASE DevWrite
  <2> DEFINE p == Head(outq)
  <2>1. /\ p \in OutPacket /\ outq # <<>> /\ outq \in Seq(OutPacket) /\ p = outq[1]
        /\ 1 \in 1 .. Len(outq) /\ outq' = Tail(outq)
        /\ UNCHANGED <<devPkt, inq, toDev, asm, nextCid>>
    BY <1>1, Take, Sizes DEF DevWrite, UpTo, devVars, relayVars, tableVars
  <2>2. CASE p.cmd = "INIT"
    <3>1. p.by \in Clients /\ p.cid \in Channel
      BY <2>1, <2>2 DEF OutPacket
    <3>2. client' = [client EXCEPT ![p.by].st = "open", ![p.by].chan = p.cid]
      BY <1>1, <2>2 DEF DevWrite
    <3>3. /\ client'[p.by].chan = p.cid
          /\ \A d \in Clients : /\ d # p.by => client'[d] = client[d]
                                /\ client'[d].msg = client[d].msg /\ client'[d].k = client[d].k
      BY <3>1, <3>2 DEF ClientType
    <3>4. \A c \in Clients, ch \in Channel : Writes(ch, c)' => Writes(ch, c) \/ Replies(outq, ch, c)
      BY <2>1, <2>2, <3>1, <3>3 DEF Writes, Replies
    <3>5. OneOwner'
      BY <2>1, <3>4, NoNewOwner, QueueSteps DEF Owns
    <3>6. Authors'
      BY <2>1, <3>3 DEF Authors
    <3>7. QED BY <3>5, <3>6
  <2>3. CASE p.cmd # "INIT"
    <3>1. client' = client
      BY <1>1, <2>3 DEF DevWrite
    <3>2. OneOwner'
      BY <2>1, <3>1, NoNewOwner, QueueSteps DEF Owns, Writes
    <3>3. QED BY <2>1, <3>1, <3>2 DEF Authors
  <2>4. QED BY <2>2, <2>3
<1>2. CASE DevSend
  <2>1. devPkt[1] \in Packet /\ inq \in Seq(Packet) /\ 1 \in 1 .. Len(devPkt)
    BY <1>2 DEF DevSend, UpTo
  <2>2. /\ inq' = Append(inq, devPkt[1]) /\ devPkt' = <<>> /\ outq' \in {outq, <<>>}
        /\ UNCHANGED <<client, toDev, asm, nextCid>>
    BY <1>2 DEF DevSend, NextRound, DevEnds, clientVars, relayVars, tableVars
  <2>3. \A c \in Clients, ch \in Channel : Owns(ch, c)' => Owns(ch, c)
    <3> SUFFICES ASSUME NEW c \in Clients, NEW ch \in Channel, Owns(ch, c)'
                 PROVE  Owns(ch, c)
      OBVIOUS
    <3>1. CASE Carries(inq, ch, c)'
      <4>1. Carries(inq, ch, c) \/ (Own(devPkt[1], c) /\ devPkt[1].msg.chan = ch)
        BY <2>1, <2>2, <3>1, QueueSteps
      <4>2. QED BY <2>1, <4>1 DEF Carries, Owns
    <3>2. CASE Replies(outq, ch, c)'
      BY <2>2, <3>2 DEF Replies, Owns
    <3>3. ~ Carries(devPkt, ch, c)'
      BY <2>2 DEF Carries
    <3>4. QED BY <2>2, <3>1, <3>2, <3>3 DEF Owns, Writes
  <2>4. Proper(inq') /\ Proper(devPkt')
    <3>1. devPkt[1].k > 0 => devPkt[1].msg.size # 1
      BY <2>1 DEF Authors, Proper
    <3>2. Proper(inq')
      <4>1. Proper(inq)
        BY DEF OwnerInv, Authors
      <4>2. Proper(Append(inq, devPkt[1]))
        BY <2>1, <3>1, <4>1, QueueSteps
      <4>3. QED BY <2>2, <4>2
    <3>3. QED BY <2>2, <3>2 DEF Proper
  <2>5. QED BY <2>2, <2>3, <2>4, NoNewOwner DEF Authors
<1>3. CASE DevFlushed \/ DevSendFails \/ DevSkip \/ DevStopped \/ Shutdown
  <2>1. /\ devPkt' \in {devPkt, <<>>} /\ outq' \in {outq, <<>>}
        /\ UNCHANGED <<client, inq, toDev, asm, nextCid>>
    BY <1>3 DEF DevFlushed, DevSendFails, DevSkip, DevStopped, Shutdown, NextRound, DevEnds,
                clientVars, queues, relayVars, tableVars
  <2>2. \A c \in Clients, ch \in Channel : Owns(ch, c)' => Owns(ch, c)
    BY <2>1 DEF Owns, Writes, Replies, Carries
  <2>3. QED BY <2>1, <2>2, NoNewOwner DEF Authors, Proper
<1>4. QED BY <1>1, <1>2, <1>3 DEF DevStep

(* What the relay makes of a packet: nothing but a reply to INIT has a new owner. *)
LEMMA OwnerHandle ==
  ASSUME TypeInv, OwnerInv, NEW m \in Message, HandleMessage(m) \/ SendError(m.chan) \/ NoMessage,
         HandleMessage(m) \/ nextCid' = nextCid,
         UNCHANGED <<client, devPkt, outq>>,
         \A c \in Clients, ch \in Channel :
           /\ Carries(inq, ch, c)' => Carries(inq, ch, c)
           /\ Assembles(asm, ch, c)' => Assembles(asm, ch, c) \/ Carries(inq, ch, c)
  PROVE  OneOwner'
<1> USE DEF TypeInv, TypeOK, OwnerInv
<1>0. m.by \in Clients /\ m.chan \in Channel /\ m.size \in 1 .. MaxSize
  BY DEF Message
<1>1. CASE HandleInit(m)
  <2>1. nextCid \in Nat /\ nextCid' = nextCid + 1
        /\ toDev' = <<[cmd |-> "INIT", by |-> m.by, cid |-> nextCid]>>
    BY <1>1 DEF HandleInit, SendMessage
  <2>2. \A c, ch : Replies(toDev, ch, c)' => c = m.by /\ ch = nextCid
    BY <2>1 DEF Replies
  <2>3. \A c \in Clients, ch \in Channel :
          Owns(ch, c)' => Owns(ch, c) \/ (c = m.by /\ ch = nextCid)
    BY <2>2 DEF Owns, Writes
  <2>4. \A ch \in Channel : ch \in Nat
    BY Sizes DEF Channel, Broadcast
  <2>5. QED BY <2>1, <2>3, <2>4 DEF OneOwner
<1>2. CASE ~HandleInit(m)
  <2>1. nextCid' = nextCid
    BY <1>2 DEF HandleMessage, HandlePing, HandleCancel, HandleCbor, HandleOther, tableVars
  <2>2. \A c, ch : Replies(toDev, ch, c)' => Replies(toDev, ch, c)
    <3>1. CASE toDev' = toDev
      BY <3>1
    <3>2. CASE SendError(m.chan)
      BY <3>2 DEF SendError, SendMessage, Replies
    <3>3. CASE HandlePing(m)
      <4>1. \A i \in 1 .. Len(toDev') : toDev'[i].cmd = "PING"
        BY <1>0, <3>3, SeveralIn DEF HandlePing, SendMessage
      <4>2. QED BY <4>1 DEF Replies
    <3>4. QED
      BY <1>2, <3>1, <3>2, <3>3
         DEF HandleMessage, HandleCancel, HandleCbor, HandleOther, NoMessage
  <2>3. \A c \in Clients, ch \in Channel : Owns(ch, c)' => Owns(ch, c)
    BY <2>2 DEF Owns, Writes
  <2>4. QED BY <2>1, <2>3, NoNewOwner
<1>3. QED BY <1>1, <1>2

(* What NextPacket and FirstPacket do with the assembler: it is left, emptied, *)
(* begun with the packet, or continued with it.                            *)
LEMMA Assembly ==
  ASSUME TypeInv, RecvPacket
  PROVE  LET p == Head(inq) IN
         /\ p \in Packet /\ p.msg \in Message /\ inq # <<>> /\ inq \in Seq(Packet)
         /\ \/ asm' \in {asm, <<>>}
            \/ p.k = 0 /\ p.msg.size # 1 /\ asm' = <<p>>
            \/ /\ p.k = Len(asm) /\ p.k > 0 /\ asm # <<>> /\ asm[1].msg.chan = p.msg.chan
               /\ asm' = Append(asm, p)
         /\ p.k > 0 \/ p.msg.size = 1 \/ asm' = <<p>>
         /\ \E m \in Message :
              /\ HandleMessage(m) \/ SendError(m.chan) \/ NoMessage
              /\ HandleMessage(m) \/ nextCid' = nextCid
<1> USE DEF TypeInv, TypeOK
<1> DEFINE p == Head(inq)
<1>1. p \in Packet /\ inq # <<>> /\ inq \in Seq(Packet) /\ (asm # <<>> => asm[1] \in Packet)
  BY Take, Sizes DEF RecvPacket, UpTo
<1>2. p.msg \in Message /\ p.k \in Nat /\ (asm # <<>> => asm[1].msg \in Message)
  BY <1>1 DEF Packet
<1>3. CASE FirstPacket(p)
  <2>1. CASE p.msg.size = 1
    BY <1>1, <1>2, <1>3, <2>1 DEF FirstPacket
  <2>2. CASE p.msg.size # 1
    BY <1>1, <1>2, <1>3, <2>2 DEF FirstPacket, NoMessage, tableVars
  <2>3. QED BY <2>1, <2>2
<1>4. CASE NextPacket(p)
  <2>1. CASE SendError(p.msg.chan) /\ UNCHANGED <<tableVars, history>> /\ asm' \in {asm, <<>>}
    BY <1>1, <1>2, <1>4, <2>1 DEF NextPacket, tableVars
  <2>2. CASE /\ asm # <<>> /\ asm[1].msg.chan = p.msg.chan /\ p.k = Len(asm)
             /\ asm' = Append(asm, p) /\ NoMessage
    BY <1>1, <1>2, <1>4, <2>2 DEF NextPacket, NoMessage, tableVars
  <2>3. CASE asm # <<>> /\ asm' = <<>> /\ HandleMessage(asm[1].msg)
    BY <1>1, <1>2, <1>4, <2>3 DEF NextPacket
  <2>4. QED BY <1>4, <2>1, <2>2, <2>3 DEF NextPacket
<1>5. QED BY <1>3, <1>4 DEF RecvPacket

LEMMA OwnerRecv ==
  ASSUME TypeInv, OwnerInv, RecvPacket
  PROVE  OwnerInv'
<1> DEFINE p == Head(inq)
<1>1. /\ p \in Packet /\ inq # <<>> /\ inq \in Seq(Packet) /\ inq' = Tail(inq)
      /\ p = inq[1] /\ 1 \in 1 .. Len(inq)
      /\ UNCHANGED <<client, devPkt, outq>>
  BY Assembly DEF RecvPacket, clientVars, devVars
<1>2. asm \in Seq(Packet)
  BY DEF TypeInv, TypeOK, UpTo
<1>3. \/ asm' \in {asm, <<>>}
      \/ p.msg.size # 1 /\ asm' = <<p>>
      \/ p.k > 0 /\ asm # <<>> /\ asm' = Append(asm, p)
  BY Assembly
<1>4. asm # <<>> => Append(asm, p)[1] = asm[1]
  BY <1>1, <1>2
<1>5. \A c \in Clients, ch \in Channel :
        /\ Carries(inq, ch, c)' => Carries(inq, ch, c)
        /\ Assembles(asm, ch, c)' => Assembles(asm, ch, c) \/ Carries(inq, ch, c)
  <2>1. \A c \in Clients, ch \in Channel : Carries(inq', ch, c) => Carries(inq, ch, c)
    BY <1>1, QueueSteps
  <2>2. \A c \in Clients, ch \in Channel :
          Assembles(asm', ch, c) => Assembles(asm, ch, c) \/ Carries(inq, ch, c)
    BY <1>1, <1>3, <1>4 DEF Assembles, Carries
  <2>3. QED BY <2>1, <2>2
<1>6. OneOwner'
  BY <1>1, <1>5, Assembly, OwnerHandle
<1>7. Authors'
  <2>1. Proper(inq')
    BY <1>1, QueueSteps DEF OwnerInv, Authors
  <2>2. asm' # <<>> => asm'[1].msg.size # 1
    BY <1>3, <1>4 DEF OwnerInv, Authors
  <2>3. QED BY <1>1, <2>1, <2>2 DEF OwnerInv, Authors
<1>8. QED BY <1>6, <1>7 DEF OwnerInv

LEMMA OwnerRest ==
  ASSUME TypeInv, OwnerInv, RecvResponse \/ RelayEnds \/ SendPacket \/ SendPacketFails
           \/ SendRequest \/ SendRequestFails \/ NetTakes \/ NetAnswers \/ NetEnds
  PROVE  OwnerInv'
<1> USE DEF TypeInv, TypeOK, Places, OwnerInv
<1>1. UNCHANGED <<client, devPkt, asm, nextCid>> /\ inq' \in {inq, <<>>}
  BY DEF RecvResponse, RelayEnds, SendPacket, SendPacketFails, SendRequest, SendRequestFails,
         NetTakes, NetAnswers, NetEnds, clientVars, devVars, queues, relayVars, tableVars
<1>2. CASE SendPacket
  <2>1. /\ toDev # <<>> /\ toDev \in Seq(OutPacket) /\ outq \in Seq(OutPacket)
        /\ Head(toDev) \in OutPacket /\ Head(toDev) = toDev[1] /\ 1 \in 1 .. Len(toDev)
        /\ outq' = Append(outq, Head(toDev)) /\ toDev' = Tail(toDev)
    BY <1>2 DEF SendPacket, UpTo
  <2>2. \A c \in Clients, ch \in Channel : Owns(ch, c)' => Owns(ch, c)
    <3> SUFFICES ASSUME NEW c \in Clients, NEW ch \in Channel, Owns(ch, c)'
                 PROVE  Owns(ch, c)
      OBVIOUS
    <3>1. Replies(toDev', ch, c) \/ Replies(outq', ch, c)
            => Replies(toDev, ch, c) \/ Replies(outq, ch, c)
      <4>1. Replies(outq', ch, c) => Replies(outq, ch, c) \/
              (Head(toDev).cmd = "INIT" /\ Head(toDev).by = c /\ Head(toDev).cid = ch)
        BY <2>1, QueueSteps
      <4>2. Replies(toDev', ch, c) => Replies(toDev, ch, c)
        BY <2>1, QueueSteps
      <4>3. QED BY <2>1, <4>1, <4>2 DEF Replies
    <3>2. Carries(inq', ch, c) => Carries(inq, ch, c)
      BY <1>1 DEF Carries
    <3>3. QED BY <1>1, <3>1, <3>2 DEF Owns, Writes
  <2>3. QED BY <1>1, <2>2, NoNewOwner DEF Authors, Proper
<1>3. CASE ~SendPacket
  <2>1. outq' = outq
    BY <1>3 DEF RecvResponse, RelayEnds, SendPacketFails, SendRequest, SendRequestFails,
                NetTakes, NetAnswers, NetEnds, queues
  <2>2. \A c, ch : Replies(toDev, ch, c)' => Replies(toDev, ch, c)
    <3>1. CASE RecvResponse
      <4> DEFINE r == Head(responseq)
      <4>0. r \in [id : Nat, size : 1 .. MaxSize]
        BY <3>1, Take, Sizes DEF RecvResponse
      <4>1. r.size \in 1 .. MaxSize /\ \A q \in pending : q.chan \in Channel
        BY <4>0 DEF Request
      <4>2. toDev' = toDev \/ \E q \in pending : toDev' = Several("CBOR", q.chan, r.size)
        BY <3>1 DEF RecvResponse, HandleNetworkResponse, SendMessage
      <4>3. toDev' = toDev \/ \A i \in 1 .. Len(toDev') : toDev'[i].cmd = "CBOR"
        BY <4>1, <4>2, SeveralIn
      <4>4. QED BY <4>3 DEF Replies
    <3>2. CASE SendRequestFails
      BY <3>2 DEF SendRequestFails, SendError, SendMessage, Replies
    <3>3. CASE toDev' \in {toDev, <<>>}
      BY <3>3 DEF Replies
    <3>4. QED
      BY <1>3, <3>1, <3>2, <3>3
         DEF RelayEnds, SendPacketFails, SendRequest, NetTakes, NetAnswers, NetEnds, relayVars
  <2>3. \A c \in Clients, ch \in Channel : Owns(ch, c)' => Owns(ch, c)
    BY <1>1, <2>1, <2>2 DEF Owns, Writes, Carries
  <2>4. QED BY <1>1, <2>3, NoNewOwner DEF Authors, Proper
<1>4. QED BY <1>2, <1>3

LEMMA OwnerStep ==
  ASSUME TypeInv, OwnerInv, [Next]_vars
  PROVE  OwnerInv'
<1>1. CASE UNCHANGED vars
  BY <1>1 DEF vars, clientVars, devVars, queues, relayVars, tableVars,
              OwnerInv, OneOwner, Owns, Writes, Authors
<1>2. QED
  BY <1>1, OwnerWrite, OwnerDevice, OwnerRecv, OwnerRest DEF Next, External, RelayStep, DevStep

-----------------------------------------------------------------------------
(* THE ORDER OF THE PACKETS *)

(* Between positions i and j of s, client c begins no long message. *)
Goes(s, c, i, j) == \A l \in i .. j : Own(s[l], c) => s[l].k > 0

(* Up to the next beginning, the packets that a client has under way, what *)
(* the assembler has of it and what it will write next belong to one       *)
(* message.                                                                *)
InStream(s) ==
  \A i, j \in 1 .. Len(s) : \A c \in Clients :
    i < j /\ Own(s[i], c) /\ Own(s[j], c) /\ Goes(s, c, i + 1, j)
      => s[i].msg = s[j].msg
FromAsm(a, s) ==
  a # <<>> => \A j \in 1 .. Len(s) : \A c \in Clients :
    Own(a[1], c) /\ Own(s[j], c) /\ Goes(s, c, 1, j) => s[j].msg = a[1].msg
ToWriter(m, c, s) ==
  \A i \in 1 .. Len(s) : Own(s[i], c) /\ Goes(s, c, i + 1, Len(s)) => s[i].msg = m
AsmToWriter(m, c, a, s) ==
  a # <<>> /\ Own(a[1], c) /\ Goes(s, c, 1, Len(s)) => a[1].msg = m
ToClients(cl, a, s) ==
  \A c \in Clients : cl[c].msg # <<>> =>
    ToWriter(cl[c].msg[1], c, s) /\ AsmToWriter(cl[c].msg[1], c, a, s)

Orderly(cl, a, s) == InStream(s) /\ FromAsm(a, s) /\ ToClients(cl, a, s)

(* Packets under way; until the relay ends none is lost. *)
Stream == inq \o devPkt
Order == pc # "ended" => Orderly(client, asm, Stream)

(* Client w writes p: a short message, the beginning of a long one, or     *)
(* more of the one it is writing.                                          *)
LEMMA StreamWrite ==
  ASSUME NEW s \in Seq(Packet), NEW a, NEW cl, NEW cl2, NEW w \in Clients, NEW p \in Packet,
         Orderly(cl, a, s), p.msg.by = w,
         \A d \in Clients : d # w => cl2[d].msg = cl[d].msg,
         \/ p.msg.size = 1 /\ cl2[w].msg = cl[w].msg
         \/ p.msg.size # 1 /\ p.k = 0 /\ cl2[w].msg = <<p.msg>>
         \/ /\ p.k > 0 /\ cl[w].msg # <<>> /\ p.msg = cl[w].msg[1]
            /\ cl2[w].msg \in {<<>>, cl[w].msg}
  PROVE  Orderly(cl2, a, Append(s, p))
<1> DEFINE t == Append(s, p)
           n == Len(s) + 1
<1>1. /\ Len(s) \in Nat /\ Len(t) = n /\ t[n] = p /\ \A i \in 1 .. Len(s) : t[i] = s[i]
      /\ \A i \in 1 .. n : i \in 1 .. Len(s) \/ i = n
  OBVIOUS
<1> HIDE DEF t
<1>2. ASSUME NEW c \in Clients, NEW i \in 1 .. n, NEW j \in 1 .. Len(s)
      PROVE  Goes(t, c, i, j) <=> Goes(s, c, i, j)
  <2>1. \A l \in i .. j : l \in 1 .. Len(s)
    BY <1>1
  <2>2. QED BY <1>1, <2>1 DEF Goes
<1>3. ASSUME NEW c \in Clients, NEW i \in 1 .. n, Goes(t, c, i, n)
      PROVE  Goes(s, c, i, Len(s)) /\ (Own(p, c) => p.k > 0)
  <2>1. \A l \in i .. Len(s) : l \in i .. n /\ l \in 1 .. Len(s)
    BY <1>1
  <2>2. n \in i .. n
    BY <1>1
  <2>3. QED BY <1>1, <1>3, <2>1, <2>2 DEF Goes
<1>4. \A c \in Clients : Own(p, c) => c = w
  BY DEF Own
<1>5. ASSUME Own(p, w), p.k > 0
      PROVE  cl[w].msg # <<>> /\ p.msg = cl[w].msg[1]
  BY <1>5 DEF Own
<1>6. InStream(t)
  <2> SUFFICES ASSUME NEW i \in 1 .. n, NEW j \in 1 .. n, NEW c \in Clients,
                      i < j, Own(t[i], c), Own(t[j], c), Goes(t, c, i + 1, j)
               PROVE  t[i].msg = t[j].msg
    BY <1>1 DEF InStream
  <2>1. i \in 1 .. Len(s) /\ i + 1 \in 1 .. n
    BY <1>1
  <2>2. CASE j \in 1 .. Len(s)
    BY <1>1, <1>2, <2>1, <2>2 DEF Orderly, InStream
  <2>3. CASE j = n
    <3>1. Goes(s, c, i + 1, Len(s)) /\ p.k > 0 /\ c = w
      BY <1>1, <1>3, <1>4, <2>1, <2>3
    <3>2. s[i].msg = cl[w].msg[1] /\ p.msg = cl[w].msg[1]
      BY <1>1, <1>5, <2>1, <2>3, <3>1 DEF Orderly, ToClients, ToWriter
    <3>3. QED BY <1>1, <2>1, <2>3, <3>2
  <2>4. QED BY <1>1, <2>2, <2>3
<1>7. FromAsm(a, t)
  <2> SUFFICES ASSUME a # <<>>, NEW j \in 1 .. n, NEW c \in Clients,
                      Own(a[1], c), Own(t[j], c), Goes(t, c, 1, j)
               PROVE  t[j].msg = a[1].msg
    BY <1>1 DEF FromAsm
  <2>0. 1 \in 1 .. n
    BY <1>1
  <2>1. CASE j \in 1 .. Len(s)
    BY <1>1, <1>2, <2>0, <2>1 DEF Orderly, FromAsm
  <2>2. CASE j = n
    <3>1. Goes(s, c, 1, Len(s)) /\ p.k > 0 /\ c = w
      BY <1>1, <1>3, <1>4, <2>0, <2>2
    <3>2. a[1].msg = cl[w].msg[1] /\ p.msg = cl[w].msg[1]
      BY <1>1, <1>5, <2>2, <3>1 DEF Orderly, ToClients, AsmToWriter
    <3>3. QED BY <1>1, <2>2, <3>2
  <2>3. QED BY <1>1, <2>1, <2>2
<1>8. ToClients(cl2, a, t)
  <2> SUFFICES ASSUME NEW c \in Clients, cl2[c].msg # <<>>
               PROVE  ToWriter(cl2[c].msg[1], c, t) /\ AsmToWriter(cl2[c].msg[1], c, a, t)
    BY DEF ToClients
  <2>1. CASE p.msg.size # 1 /\ p.k = 0 /\ c = w /\ cl2[w].msg = <<p.msg>>
    <3>1. Own(p, c) /\ cl2[c].msg[1] = p.msg
      BY <2>1 DEF Own
    <3>2. \A i \in 1 .. n : ~Goes(t, c, i, n)
      BY <1>3, <2>1, <3>1
    <3>3. AsmToWriter(cl2[c].msg[1], c, a, t)
      BY <1>1, <3>2 DEF AsmToWriter
    <3>4. ToWriter(cl2[c].msg[1], c, t)
      <4> SUFFICES ASSUME NEW i \in 1 .. n, Own(t[i], c), Goes(t, c, i + 1, n)
                   PROVE  t[i].msg = p.msg
        BY <1>1, <3>1 DEF ToWriter
      <4>1. CASE i = n
        BY <1>1, <4>1
      <4>2. CASE i \in 1 .. Len(s)
        BY <1>1, <3>2, <4>2
      <4>3. QED BY <1>1, <4>1, <4>2
    <3>5. QED BY <3>3, <3>4
  <2>2. CASE cl[c].msg # <<>> /\ cl2[c].msg = cl[c].msg /\ (Own(p, c) => p.msg = cl[c].msg[1])
    <3> DEFINE m == cl[c].msg[1]
    <3>1. ToWriter(m, c, s) /\ AsmToWriter(m, c, a, s)
      BY <2>2 DEF Orderly, ToClients
    <3>2. ToWriter(m, c, t)
      <4> SUFFICES ASSUME NEW i \in 1 .. n, Own(t[i], c), Goes(t, c, i + 1, n)
                   PROVE  t[i].msg = m
        BY <1>1 DEF ToWriter
      <4>1. CASE i = n
        BY <1>1, <2>2, <4>1
      <4>2. CASE i \in 1 .. Len(s)
        <5>1. i + 1 \in 1 .. n
          BY <1>1, <4>2
        <5>2. Goes(s, c, i + 1, Len(s))
          BY <1>3, <5>1
        <5>3. QED BY <1>1, <3>1, <4>2, <5>2 DEF ToWriter
      <4>3. QED BY <1>1, <4>1, <4>2
    <3>3. AsmToWriter(m, c, a, t)
      <4>1. Goes(t, c, 1, n) => Goes(s, c, 1, Len(s))
        BY <1>1, <1>3
      <4>2. QED BY <1>1, <3>1, <4>1 DEF AsmToWriter
    <3>4. QED BY <2>2, <3>2, <3>3
  <2>3. QED
    BY <1>4, <2>1, <2>2 DEF Own
<1>9. QED BY <1>6, <1>7, <1>8 DEF Orderly, t

(* The relay takes the first packet: the assembler has the same message as *)
(* before, none, or the one the packet begins.                             *)
LEMMA StreamRead ==
  ASSUME NEW s \in Seq(Packet), s # <<>>, NEW a, NEW a2, NEW cl,
         Orderly(cl, a, s),
         \/ a2 = <<>> /\ (s[1].k > 0 \/ s[1].msg.size = 1)
         \/ a # <<>> /\ a2 # <<>> /\ a2[1] = a[1] /\ (s[1].k > 0 \/ s[1].msg.size = 1)
         \/ a2 = <<s[1]>>
  PROVE  Orderly(cl, a2, Tail(s))
<1> DEFINE t == Tail(s)
           n == Len(s)
<1>1. /\ n \in Nat \ {0} /\ Len(t) = n - 1 /\ 1 \in 1 .. n
      /\ \A i \in 1 .. Len(t) : t[i] = s[i + 1] /\ i + 1 \in 1 .. n
  OBVIOUS
<1> HIDE DEF t
<1>2. ASSUME NEW c \in Clients, NEW i \in 1 .. n, NEW j \in 0 .. Len(t), Goes(t, c, i, j)
      PROVE  Goes(s, c, i + 1, j + 1)
  <2> SUFFICES ASSUME NEW l \in i + 1 .. j + 1, Own(s[l], c) PROVE s[l].k > 0
    BY DEF Goes
  <2>1. l - 1 \in i .. j /\ l - 1 \in 1 .. Len(t) /\ l - 1 + 1 = l
    BY <1>1
  <2>2. t[l - 1] = s[l]
    BY <1>1, <2>1
  <2>3. QED BY <1>2, <2>1, <2>2 DEF Goes
<1>3. ASSUME NEW c \in Clients, NEW j \in 1 .. n, Goes(s, c, 2, j), Own(s[1], c) => s[1].k > 0
      PROVE  Goes(s, c, 1, j)
  <2>1. \A l \in 1 .. j : l = 1 \/ l \in 2 .. j
    BY <1>1
  <2>2. QED BY <1>3, <2>1 DEF Goes
<1>4. InStream(t)
  <2> SUFFICES ASSUME NEW i \in 1 .. Len(t), NEW j \in 1 .. Len(t), NEW c \in Clients,
                      i < j, Own(t[i], c), Own(t[j], c), Goes(t, c, i + 1, j)
               PROVE  t[i].msg = t[j].msg
    BY DEF InStream
  <2>1. Goes(s, c, i + 1 + 1, j + 1) /\ i + 1 < j + 1
    BY <1>1, <1>2
  <2>2. QED BY <1>1, <2>1 DEF Orderly, InStream
<1>5. FromAsm(a2, t)
  <2> SUFFICES ASSUME a2 # <<>>, NEW j \in 1 .. Len(t), NEW c \in Clients,
                      Own(a2[1], c), Own(t[j], c), Goes(t, c, 1, j)
               PROVE  t[j].msg = a2[1].msg
    BY DEF FromAsm
  <2>1. Goes(s, c, 2, j + 1) /\ j + 1 \in 1 .. n /\ t[j] = s[j + 1]
    BY <1>1, <1>2
  <2>2. CASE a2 = <<s[1]>>
    <3>1. 1 < j + 1 /\ 1 + 1 = 2
      BY <1>1
    <3>2. QED BY <1>1, <2>1, <2>2, <3>1 DEF Orderly, InStream
  <2>3. CASE a2 # <<s[1]>>
    <3>1. a # <<>> /\ a2[1] = a[1] /\ (Own(s[1], c) => s[1].k > 0)
      BY <2>3 DEF Own
    <3>2. Goes(s, c, 1, j + 1)
      BY <1>3, <2>1, <3>1
    <3>3. QED BY <1>1, <2>1, <3>1, <3>2 DEF Orderly, FromAsm
  <2>4. QED BY <2>2, <2>3
<1>6. ToClients(cl, a2, t)
  <2> SUFFICES ASSUME NEW c \in Clients, cl[c].msg # <<>>
               PROVE  ToWriter(cl[c].msg[1], c, t) /\ AsmToWriter(cl[c].msg[1], c, a2, t)
    BY DEF ToClients
  <2> DEFINE m == cl[c].msg[1]
  <2>1. ToWriter(m, c, s) /\ AsmToWriter(m, c, a, s)
    BY DEF Orderly, ToClients
  <2>2. ToWriter(m, c, t)
    <3> SUFFICES ASSUME NEW i \in 1 .. Len(t), Own(t[i], c), Goes(t, c, i + 1, Len(t))
                 PROVE  t[i].msg = m
      BY DEF ToWriter
    <3>1. Goes(s, c, i + 1 + 1, n)
      BY <1>1, <1>2
    <3>2. QED BY <1>1, <2>1, <3>1 DEF ToWriter
  <2>3. AsmToWriter(m, c, a2, t)
    <3> SUFFICES ASSUME a2 # <<>>, Own(a2[1], c), Goes(t, c, 1, Len(t))
                 PROVE  a2[1].msg = m
      BY DEF AsmToWriter
    <3>1. Goes(s, c, 2, n)
      BY <1>1, <1>2
    <3>2. CASE a2 = <<s[1]>>
      <4>1. 1 + 1 = 2
        OBVIOUS
      <4>2. QED BY <1>1, <2>1, <3>1, <3>2, <4>1 DEF ToWriter
    <3>3. CASE a2 # <<s[1]>>
      <4>1. a # <<>> /\ a2[1] = a[1] /\ (Own(s[1], c) => s[1].k > 0)
        BY <3>3 DEF Own
      <4>2. n \in 1 .. n
        BY <1>1
      <4>3. Goes(s, c, 1, n)
        BY <1>3, <3>1, <4>1, <4>2
      <4>4. QED BY <2>1, <4>1, <4>3 DEF AsmToWriter
    <3>4. QED BY <3>2, <3>3
  <2>4. QED BY <2>2, <2>3
<1>7. QED BY <1>4, <1>5, <1>6 DEF Orderly, t

(* A queue of one element put behind another. *)
LEMMA Join ==
  ASSUME NEW S, NEW q \in Seq(S), NEW r \in Seq(S), Len(r) <= 1
  PROVE  /\ q \o r \in Seq(S)
         /\ r = <<>> => q \o r = q
         /\ r # <<>> => q \o r = Append(q, r[1])
         /\ q # <<>> => q \o r # <<>> /\ (q \o r)[1] = Head(q) /\ Tail(q \o r) = Tail(q) \o r
<1>1. Len(q) \in Nat /\ Len(r) \in Nat /\ q \o r \in Seq(S)
  OBVIOUS
<1>2. r = <<>> => q \o r = q
  BY ConcatEmptySeq
<1>3. ASSUME r # <<>> PROVE q \o r = Append(q, r[1])
  <2>1. Len(r) = 1
    <3>1. Len(r) = 0 => r = <<>>
      <4>1. <<>> \in Seq(S) /\ Len(<<>>) = 0
        OBVIOUS
      <4> SUFFICES ASSUME Len(r) = 0 PROVE r = <<>>
        OBVIOUS
      <4>2. \A i \in 1 .. Len(r) : r[i] = <<>>[i]
        OBVIOUS
      <4> DEFINE e == <<>>
      <4> HIDE DEF e
      <4>3. e \in Seq(S) /\ Len(r) = Len(e) /\ \A i \in 1 .. Len(r) : r[i] = e[i]
        BY <4>1, <4>2 DEF e
      <4>4. r = e
        BY <4>3, SeqEqual
      <4>5. QED BY <4>4 DEF e
    <3>2. Len(r) # 0
      BY <1>3, <3>1, Zenon
    <3> DEFINE n == Len(r)
    <3>3. n \in Nat /\ n # 0 /\ n <= 1
      BY <1>1, <3>2
    <3> HIDE DEF n
    <3>4. n = 1
      BY <3>3
    <3>5. QED BY <3>4 DEF n
  <2>2. r[1] \in S
    BY <2>1, ElementOfSeq
  <2> DEFINE a == Append(q, r[1])
             b == q \o r
  <2>3. a \in Seq(S) /\ Len(a) = Len(q) + 1 /\ \A i \in 1 .. Len(q) : a[i] = q[i]
    BY <2>2
  <2>4. a[Len(q) + 1] = r[1]
    BY <2>2
  <2>5. Len(b) = Len(q) + 1 /\ \A i \in 1 .. Len(q) : b[i] = q[i]
    BY <1>1, <2>1, ConcatProperties, SMTT(30)
  <2>6. b[Len(q) + 1] = r[1]
    <3>1. \A i \in 1 .. Len(q) + Len(r) : b[i] = IF i <= Len(q) THEN q[i] ELSE r[i - Len(q)]
      BY ConcatProperties
    <3> HIDE DEF b
    <3>2. Len(q) + 1 \in 1 .. Len(q) + Len(r) /\ Len(q) + 1 - Len(q) = 1 /\ ~(Len(q) + 1 <= Len(q))
      BY <1>1, <2>1
    <3>3. QED BY <3>1, <3>2
  <2> HIDE DEF a, b
  <2>7. \A i \in 1 .. Len(q) + 1 : i \in 1 .. Len(q) \/ i = Len(q) + 1
    BY <1>1
  <2>8. \A i \in 1 .. Len(b) : b[i] = a[i]
    BY <2>3, <2>4, <2>5, <2>6, <2>7
  <2>9. b \in Seq(S)
    BY <1>1 DEF b
  <2>10. b = a
    BY <2>3, <2>5, <2>8, <2>9, SeqEqual
  <2>11. QED BY <2>10 DEF a, b
<1>4. ASSUME q # <<>>
      PROVE  q \o r # <<>> /\ (q \o r)[1] = Head(q) /\ Tail(q \o r) = Tail(q) \o r
  BY <1>1, <1>4
<1>5. QED BY <1>1, <1>2, <1>3, <1>4

LEMMA Streams ==
  ASSUME TypeInv
  PROVE  /\ inq \in Seq(Packet) /\ asm \in Seq(Packet)
         /\ Stream \in Seq(Packet)
         /\ inq # <<>> => Stream # <<>> /\ Stream[1] = Head(inq) /\ Tail(Stream) = Tail(inq) \o devPkt
         /\ devPkt = <<>> => Stream = inq
         /\ dev = "send" => Append(inq, devPkt[1]) = Stream
<1>1. /\ inq \in Seq(Packet) /\ devPkt \in Seq(Packet) /\ Len(devPkt) <= 1 /\ asm \in Seq(Packet)
      /\ dev = "send" => devPkt # <<>>
  BY DEF TypeInv, TypeOK, Places, UpTo
<1>2. QED BY <1>1, Join DEF Stream

LEMMA OrderInit == Init => Order
BY DEF Init, Order, Orderly, Stream, InStream, FromAsm, ToClients

(* What a client writes: a short message, a beginning, or more of the same. *)
LEMMA WriteMessage ==
  ASSUME TypeInv, OwnerInv, NEW w \in Clients, Write(w)
  PROVE  \E p \in Packet :
           /\ devPkt' = <<p>> /\ p.msg.by = w
           /\ \A d \in Clients : d # w => client'[d].msg = client[d].msg
           /\ \/ p.msg.size = 1 /\ client'[w].msg = client[w].msg
              \/ p.msg.size # 1 /\ p.k = 0 /\ client'[w].msg = <<p.msg>>
              \/ /\ p.k > 0 /\ client[w].msg # <<>> /\ p.msg = client[w].msg[1]
                 /\ client'[w].msg \in {<<>>, client[w].msg}
<1> USE DEF TypeInv, TypeOK
<1>1. CASE AskChannel(w)
  <2> DEFINE p == [msg |-> [cmd |-> "INIT", chan |-> Broadcast, size |-> 1,
                            by |-> w, turn |-> 0], k |-> 0]
  <2>1. p \in Packet /\ p.msg.size = 1 /\ p.msg.by = w
    BY Sizes DEF Packet, Message, Channel, Broadcast
  <2>2. devPkt' = <<p>> /\ client' = [client EXCEPT ![w].st = "asking"]
    BY <1>1 DEF AskChannel, DevRead
  <2>3. \A d \in Clients : client'[d].msg = client[d].msg
    BY <2>2 DEF ClientType
  <2>4. QED BY <2>1, <2>2, <2>3
<1>2. CASE StartMessage(w)
  <2>1. PICK cmd \in Commands, size \in 1 .. MaxSize :
          LET m == [cmd |-> cmd, chan |-> client[w].chan, size |-> size,
                    by |-> w, turn |-> 1 - client[w].turn]
          IN  /\ DevRead(w, [msg |-> m, k |-> 0])
              /\ client' = IF size = 1 THEN client
                           ELSE [client EXCEPT ![w].msg = <<m>>, ![w].k = 1,
                                               ![w].turn = m.turn]
    BY <1>2, Zenon DEF StartMessage
  <2> DEFINE m == [cmd |-> cmd, chan |-> client[w].chan, size |-> size,
                   by |-> w, turn |-> 1 - client[w].turn]
             p == [msg |-> m, k |-> 0]
  <2>2. m \in Message /\ m.size = size /\ m.by = w
    <3>1. client[w].chan \in Channel /\ 1 - client[w].turn \in {0, 1}
      BY DEF ClientType
    <3>2. QED BY <3>1 DEF Message
  <2>3. p \in Packet /\ p.msg = m /\ p.k = 0
    BY <2>2 DEF Packet
  <2>4. devPkt' = <<p>>
    BY <2>1 DEF DevRead
  <2>5. CASE size = 1
    BY <2>1, <2>2, <2>3, <2>4, <2>5
  <2>6. CASE size # 1
    <3>1. client' = [client EXCEPT ![w].msg = <<m>>, ![w].k = 1, ![w].turn = m.turn]
      BY <2>1, <2>6
    <3> HIDE DEF m
    <3>2. client'[w].msg = <<m>> /\ \A d \in Clients : d # w => client'[d].msg = client[d].msg
      BY <3>1 DEF ClientType
    <3>3. QED BY <2>2, <2>3, <2>4, <2>6, <3>2
  <2>7. QED BY <2>5, <2>6
<1>3. CASE ContinueMessage(w)
  <2> DEFINE p == [msg |-> client[w].msg[1], k |-> client[w].k]
  <2>1. /\ devPkt' = <<p>> /\ client[w].msg # <<>>
        /\ client' \in {[client EXCEPT ![w].msg = <<>>, ![w].k = 0],
                        [client EXCEPT ![w].k = client[w].k + 1]}
    BY <1>3 DEF ContinueMessage, DevRead
  <2>2. client[w].msg[1] \in Message /\ client[w].k \in Nat
    BY <2>1 DEF ClientType
  <2>3. p \in Packet /\ p.msg = client[w].msg[1] /\ p.k = client[w].k
    BY <2>2 DEF Packet
  <2>4. p.msg.by = w /\ p.k > 0
    BY <2>1, <2>3 DEF OwnerInv, Authors
  <2>5. /\ \A d \in Clients : d # w => client'[d].msg = client[d].msg
        /\ client'[w].msg \in {<<>>, client[w].msg}
    <3>1. CASE client' = [client EXCEPT ![w].msg = <<>>, ![w].k = 0]
      BY <3>1 DEF ClientType
    <3>2. CASE client' = [client EXCEPT ![w].k = client[w].k + 1]
      BY <3>2 DEF ClientType
    <3>3. QED BY <2>1, <3>1, <3>2
  <2>6. QED BY <2>1, <2>3, <2>4, <2>5
<1>4. QED BY <1>1, <1>2, <1>3 DEF Write

LEMMA OrderWrite ==
  ASSUME TypeInv, TypeInv', OwnerInv, Order, NEW w \in Clients, Write(w)
  PROVE  Order'
<1>1. PICK p \in Packet :
        /\ devPkt' = <<p>> /\ p.msg.by = w
        /\ \A d \in Clients : d # w => client'[d].msg = client[d].msg
        /\ \/ p.msg.size = 1 /\ client'[w].msg = client[w].msg
           \/ p.msg.size # 1 /\ p.k = 0 /\ client'[w].msg = <<p.msg>>
           \/ /\ p.k > 0 /\ client[w].msg # <<>> /\ p.msg = client[w].msg[1]
              /\ client'[w].msg \in {<<>>, client[w].msg}
  BY WriteMessage
<1>2. devPkt = <<>> /\ UNCHANGED <<inq, asm, pc>>
  BY WriteReads DEF TypeInv, Places, queues, relayVars
<1>3. Stream = inq /\ inq \in Seq(Packet) /\ Stream' = Append(inq, p)
  BY <1>1, <1>2, Streams, Join DEF Stream
<1>4. pc # "ended" => Orderly(client', asm, Append(inq, p))
  BY <1>1, <1>3, StreamWrite DEF Order
<1>5. QED BY <1>2, <1>3, <1>4 DEF Order

LEMMA OrderRecv ==
  ASSUME TypeInv, Order, RecvPacket
  PROVE  Order'
<1> DEFINE p == Head(inq)
<1>1. /\ pc = "select" /\ inq # <<>> /\ inq' = Tail(inq) /\ UNCHANGED <<client, devPkt>>
  BY DEF RecvPacket, clientVars, devVars
<1>2. /\ Stream \in Seq(Packet) /\ Stream # <<>> /\ Stream[1] = p /\ Stream' = Tail(Stream)
  BY <1>1, Streams DEF Stream
<1>3. asm # <<>> => Append(asm, p)[1] = asm[1] /\ Append(asm, p) # <<>>
  <2>1. p \in Packet /\ asm \in Seq(Packet)
    BY Streams, Assembly
  <2> HIDE DEF p
  <2>2. QED BY <2>1
<1>4. p.k > 0 \/ p.msg.size = 1 \/ asm' = <<p>>
  BY Assembly
<1>5. \/ asm' \in {asm, <<>>} \/ asm' = <<p>>
      \/ asm # <<>> /\ asm' # <<>> /\ asm'[1] = asm[1]
  BY <1>3, Assembly
<1>6. Orderly(client, asm', Tail(Stream))
  BY <1>1, <1>2, <1>4, <1>5, StreamRead DEF Order
<1>7. QED BY <1>1, <1>2, <1>6 DEF Order

LEMMA OrderDevice ==
  ASSUME TypeInv, TypeInv', Order, DevStep \/ DevSkip \/ DevStopped \/ Shutdown
  PROVE  Order'
<1>1. CASE DevWrite
  <2>1. UNCHANGED <<devPkt, inq, asm, pc>>
    BY <1>1 DEF DevWrite, devVars, relayVars
  <2>2. \A c \in Clients : client'[c].msg = client[c].msg
    BY <1>1 DEF DevWrite, TypeInv, TypeOK, ClientType
  <2>3. QED BY <2>1, <2>2 DEF Order, Orderly, ToClients, Stream
<1>2. CASE DevSend
  <2>1. dev = "send" /\ inq' = Append(inq, devPkt[1]) /\ devPkt' = <<>>
        /\ UNCHANGED <<client, asm, pc>>
    BY <1>2 DEF DevSend, clientVars, relayVars
  <2>2. inq' \in Seq(Packet) /\ <<>> \in Seq(Packet)
    BY DEF TypeInv, TypeOK, UpTo
  <2>3. inq' \o <<>> = inq'
    BY <2>2, ConcatEmptySeq
  <2>4. Stream' = Stream
    BY <2>1, <2>3, Streams DEF Stream
  <2>5. QED BY <2>1, <2>4 DEF Order
<1>3. CASE DevSendFails
  BY <1>3 DEF DevSendFails, Order, relayVars
<1>4. CASE DevFlushed \/ DevSkip \/ DevStopped \/ Shutdown
  <2>1. UNCHANGED <<client, asm, pc, inq, devPkt>>
    BY <1>4 DEF DevFlushed, DevSkip, DevStopped, Shutdown, clientVars, relayVars, queues
  <2>2. QED BY <2>1 DEF Order, Stream
<1>5. QED BY <1>1, <1>2, <1>3, <1>4 DEF DevStep

LEMMA OrderStep ==
  ASSUME TypeInv, TypeInv', OwnerInv, Order, [Next]_vars
  PROVE  Order'
<1>1. CASE RelayEnds
  BY <1>1 DEF RelayEnds, Order
<1>2. CASE RecvResponse \/ SendPacket \/ SendPacketFails \/ SendRequest \/ SendRequestFails
             \/ NetTakes \/ NetAnswers \/ NetEnds
  <2>1. UNCHANGED <<client, asm, inq, devPkt>>
    BY <1>2 DEF RecvResponse, SendPacket, SendPacketFails, SendRequest, SendRequestFails,
         NetTakes, NetAnswers, NetEnds, clientVars, devVars, queues, relayVars
  <2>2. pc' # "ended" => pc # "ended"
    BY <1>2 DEF RecvResponse, SendPacket, SendPacketFails, SendRequest, SendRequestFails,
         NetTakes, NetAnswers, NetEnds, relayVars
  <2>3. QED BY <2>1, <2>2 DEF Order, Stream
<1>3. CASE UNCHANGED vars
  BY <1>3 DEF vars, clientVars, devVars, queues, relayVars, Order, Stream
<1>4. QED
  BY <1>1, <1>2, <1>3, OrderWrite, OrderRecv, OrderDevice DEF Next, External, RelayStep, DevStep

-----------------------------------------------------------------------------
(* THE ASSEMBLER *)

(* A packet that continues what is assembled, on the same channel, comes   *)
(* from the same client (it is the channel's owner), which has begun no    *)
(* other message in between (the packet before it in its stream is the     *)
(* assembler's): it is of the same message.                                *)
LEMMA Continues ==
  ASSUME TypeInv, OwnerInv, Order, pc # "ended", inq # <<>>, asm # <<>>,
         inq[1].k > 0, asm[1].msg.chan = inq[1].msg.chan
  PROVE  inq[1].msg = asm[1].msg
<1> DEFINE p == inq[1]
           ch == p.msg.chan
<1>1. /\ inq \in Seq(Packet) /\ asm \in Seq(Packet) /\ 1 \in 1 .. Len(inq) /\ 1 \in 1 .. Len(asm)
      /\ Stream \in Seq(Packet) /\ 1 \in 1 .. Len(Stream) /\ Stream[1] = p
  <2>1. inq \in Seq(Packet) /\ asm \in Seq(Packet)
        /\ Stream \in Seq(Packet) /\ Stream # <<>> /\ Stream[1] = Head(inq)
    BY Streams
  <2>2. \A q \in Seq(Packet) : q # <<>> => 1 \in 1 .. Len(q) /\ Head(q) = q[1]
    OBVIOUS
  <2>3. QED BY <2>1, <2>2
<1>2. p.msg \in Message /\ asm[1].msg \in Message
  <2>1. p \in Packet /\ asm[1] \in Packet
    BY <1>1, ElementOfSeq
  <2>2. QED BY <2>1 DEF Packet
<1>3. p.msg.by \in Clients /\ asm[1].msg.by \in Clients /\ ch \in Channel
  BY <1>2 DEF Message
<1>4. p.msg.size # 1 /\ asm[1].msg.size # 1
  BY <1>1 DEF OwnerInv, Authors, Proper
<1>5. Carries(inq, ch, p.msg.by) /\ Assembles(asm, ch, asm[1].msg.by)
  BY <1>1, <1>4 DEF Carries, Assembles, Own
<1>6. p.msg.by = asm[1].msg.by
  BY <1>3, <1>5 DEF OwnerInv, OneOwner, Owns
<1>7. Own(asm[1], p.msg.by) /\ Own(Stream[1], p.msg.by)
  BY <1>1, <1>4, <1>6 DEF Own
<1>8. Goes(Stream, p.msg.by, 1, 1)
  <2>1. \A l \in 1 .. 1 : l = 1
    OBVIOUS
  <2>2. QED BY <1>1, <2>1 DEF Goes
<1>9. FromAsm(asm, Stream)
  BY DEF Order, Orderly
<1>10. QED BY <1>1, <1>3, <1>7, <1>8, <1>9 DEF FromAsm

LEMMA AssemblyStep ==
  ASSUME TypeInv, OwnerInv, Order, AssemblyPure, [Next]_vars
  PROVE  AssemblyPure'
<1>1. CASE RecvPacket
  <2> DEFINE p == Head(inq)
  <2>1. /\ p \in Packet /\ p = inq[1] /\ asm \in Seq(Packet) /\ pc = "select" /\ inq # <<>>
        /\ p = [msg |-> p.msg, k |-> p.k]
    BY <1>1, Assembly DEF RecvPacket, TypeInv, TypeOK, UpTo, Packet
  <2>2. CASE asm' \in {asm, <<>>}
    BY <2>2 DEF AssemblyPure
  <2>3. CASE p.k = 0 /\ asm' = <<p>>
    <3> HIDE DEF p
    <3>1. Len(<<p>>) = 1 /\ <<p>>[1] = p /\ \A i \in 1 .. 1 : i = 1
      OBVIOUS
    <3>2. QED BY <2>1, <2>3, <3>1 DEF AssemblyPure
  <2>4. CASE /\ p.k = Len(asm) /\ p.k > 0 /\ asm # <<>> /\ asm[1].msg.chan = p.msg.chan
             /\ asm' = Append(asm, p)
    <3>1. p.msg = asm[1].msg
      BY <2>1, <2>4, Continues
    <3> HIDE DEF p
    <3> DEFINE a == Append(asm, p)
               n == Len(asm)
    <3>2. /\ n \in Nat \ {0} /\ Len(a) = n + 1 /\ a[n + 1] = p /\ a[1] = asm[1]
          /\ \A i \in 1 .. n : a[i] = asm[i]
          /\ \A i \in 1 .. n + 1 : i \in 1 .. n \/ i = n + 1
      BY <2>1, <2>4
    <3>3. p = [msg |-> a[1].msg, k |-> n + 1 - 1]
      BY <2>1, <2>4, <3>1, <3>2
    <3> HIDE DEF a, n
    <3>4. \A i \in 1 .. n : asm[i] = [msg |-> asm[1].msg, k |-> i - 1]
      BY DEF AssemblyPure, n
    <3>5. \A i \in 1 .. n + 1 : a[i] = [msg |-> a[1].msg, k |-> i - 1]
      <4> SUFFICES ASSUME NEW i \in 1 .. n + 1 PROVE a[i] = [msg |-> a[1].msg, k |-> i - 1]
        OBVIOUS
      <4>1. CASE i \in 1 .. n
        <5>1. a[i] = asm[i] /\ asm[i] = [msg |-> asm[1].msg, k |-> i - 1]
          BY <3>2, <3>4, <4>1
        <5>2. QED BY <3>2, <5>1
      <4>2. CASE i = n + 1
        BY <3>2, <3>3, <4>2
      <4>3. QED BY <3>2, <4>1, <4>2
    <3>6. asm' = a
      BY <2>4 DEF a
    <3>7. QED BY <3>2, <3>5, <3>6 DEF AssemblyPure
  <2>5. QED BY <1>1, <2>2, <2>3, <2>4, Assembly
<1>2. CASE ~RecvPacket
  <2>1. UNCHANGED asm
    <3>1. CASE \E c \in Clients : Write(c)
      BY <3>1, WriteReads DEF relayVars
    <3>2. CASE DevStep \/ DevSkip \/ DevStopped \/ Shutdown
      BY <3>2 DEF DevStep, DevWrite, DevFlushed, DevSend, DevSendFails, DevSkip, DevStopped,
                  Shutdown, relayVars
    <3>3. CASE RelayStep \/ NetTakes \/ NetAnswers \/ NetEnds \/ UNCHANGED vars
      BY <1>2, <3>3 DEF RelayStep, RecvResponse, RelayEnds, SendPacket, SendPacketFails,
           SendRequest, SendRequestFails, NetTakes, NetAnswers, NetEnds, relayVars, vars
    <3>4. QED BY <3>1, <3>2, <3>3 DEF Next, External
  <2>2. QED BY <2>1 DEF AssemblyPure
<1>3. QED BY <1>1, <1>2

(* Packets of several clients pass through one queue and one assembler,    *)
(* and a message may be given up in its middle; still the assembler never  *)
(* holds packets of two messages, nor misses one (PacketAssembler::feed).  *)
THEOREM AssemblyCorrect == Spec => []AssemblyPure
<1>1. Init => TypeInv /\ OwnerInv /\ Order /\ AssemblyPure
  <2>1. Init => AssemblyPure
    BY DEF Init, AssemblyPure
  <2>2. QED BY <2>1, TypeInit, OwnerInit, OrderInit
<1>2. TypeInv /\ OwnerInv /\ Order /\ AssemblyPure /\ [Next]_vars
        => (TypeInv /\ OwnerInv /\ Order /\ AssemblyPure)'
  BY TypeStep, OwnerStep, OrderStep, AssemblyStep
<1>3. QED BY <1>1, <1>2, PTL DEF Spec
=============================================================================
