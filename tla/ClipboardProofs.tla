--------------------------- MODULE ClipboardProofs ----------------------------
(***************************************************************************)
(* Proofs about Clipboard, for every set of texts and monitor tasks, every *)
(* capacity and whatever is copied or arrives.                             *)
(***************************************************************************)
EXTENDS Clipboard, SequenceTheorems, TLAPS

(* The actor has an update in hand exactly while it applies a remote one   *)
(* or hands on a local one.                                                *)
InHand ==
  /\ update # <<>> <=> pc \in {"event", "hash", "set"}
  /\ pc \in {"hash", "set"} => update[1] \in Update

(* The lock is held by the monitor that waits to send, and by no other.    *)
Exclusive ==
  /\ holder = {i \in Monitors : mon[i].st = "send"}
  /\ \A i, j \in holder : i = j

ClipInv == TypeOK /\ InHand /\ Exclusive

(***************************************************************************)
(* Bounded queues.                                                         *)
(***************************************************************************)
LEMMA Grows ==
  ASSUME NEW S, NEW q \in Seq(S), NEW e \in S, NEW n \in Nat, Len(q) < n
  PROVE  UpTo(Append(q, e), S, n)
<1>1. Append(q, e) \in Seq(S) /\ Len(Append(q, e)) = Len(q) + 1
  BY AppendProperties
<1>2. Len(q) \in Nat
  BY LenProperties
<1>3. QED
  BY <1>1, <1>2 DEF UpTo

LEMMA Shrinks ==
  ASSUME NEW S, NEW q \in Seq(S), NEW n \in Nat, Len(q) <= n, q # <<>>
  PROVE  UpTo(Tail(q), S, n) /\ Head(q) \in S
<1>1. Tail(q) \in Seq(S) /\ Len(Tail(q)) = Len(q) - 1 /\ Head(q) \in S
  BY HeadTailProperties
<1>2. Len(q) \in Nat
  BY LenProperties
<1>3. QED
  BY <1>1, <1>2 DEF UpTo

LEMMA Emptied ==
  ASSUME NEW S, NEW n \in Nat
  PROVE  UpTo(<<>>, S, n)
BY DEF UpTo

LEMMA OneInHand ==
  ASSUME NEW u \in Update \cup Value
  PROVE  UpTo(<<u>>, Update \cup Value, 1)
BY DEF UpTo

(***************************************************************************)
(* The invariant.                                                          *)
(***************************************************************************)
LEMMA ClipInvInit == Init => ClipInv
<1> SUFFICES ASSUME Init PROVE ClipInv
  OBVIOUS
<1>1. Empty \in Value
  BY DEF Empty, Value
<1>2. TypeOK
  BY <1>1, Emptied, ClipboardAssumption DEF Init, TypeOK, ClipboardAssumption
<1>3. InHand /\ Exclusive
  BY DEF Init, InHand, Exclusive
<1>4. QED
  BY <1>2, <1>3 DEF ClipInv

(* What moving one monitor task does to the others.                        *)
LEMMA Moved ==
  ASSUME TypeOK, NEW i \in Monitors, NEW st \in {"off", "tick", "got", "send"},
         NEW v \in Value, Goes(i, st, v)
  PROVE  /\ mon' \in [Monitors -> [st : {"off", "tick", "got", "send"}, v : Value]]
         /\ mon'[i].st = st
         /\ \A j \in Monitors \ {i} : mon'[j] = mon[j]
BY DEF TypeOK, Goes

LEMMA MonitorKeeps ==
  ASSUME ClipInv, NEW i \in Monitors, MonStep(i)
  PROVE  ClipInv'
<1> USE DEF ClipInv
<1>e. Empty \in Value
  BY DEF Empty, Value
<1>v. mon[i] \in [st : {"off", "tick", "got", "send"}, v : Value] /\ os \in Value
  BY DEF TypeOK
<1>c. mon[i].v \in Value /\ mon[i].v.c \in Texts \cup {NoText}
  BY <1>v DEF Value
<1>1. CASE MonTick(i)
  <2>1. \E st \in {"got", "off"}, v \in Value : Goes(i, st, v)
    BY <1>1, <1>e, <1>v DEF MonTick
  <2>2. PICK st \in {"got", "off"}, v \in Value : Goes(i, st, v)
    BY <2>1
  <2>3. /\ mon' \in [Monitors -> [st : {"off", "tick", "got", "send"}, v : Value]]
        /\ mon'[i].st # "send" /\ mon[i].st # "send"
        /\ \A j \in Monitors \ {i} : mon'[j] = mon[j]
    BY <2>2, <1>1, Moved DEF MonTick
  <2>4. TypeOK'
    BY <2>3, <1>1 DEF MonTick, TypeOK, others, actorVars
  <2>5. InHand'
    BY <1>1 DEF MonTick, InHand, others, actorVars
  <2>6. Exclusive'
    BY <2>3, <1>1 DEF MonTick, Exclusive
  <2>7. QED
    BY <2>4, <2>5, <2>6
<1>2. CASE MonCompare(i)
  <2>1. CASE mon[i].v.c = lastHash
    <3>1. /\ mon' \in [Monitors -> [st : {"off", "tick", "got", "send"}, v : Value]]
          /\ mon'[i].st # "send" /\ mon[i].st # "send"
          /\ \A j \in Monitors \ {i} : mon'[j] = mon[j]
      BY <2>1, <1>2, <1>e, Moved DEF MonCompare
    <3>2. TypeOK'
      BY <3>1, <2>1, <1>2 DEF MonCompare, TypeOK, others, actorVars
    <3>3. InHand' /\ Exclusive'
      BY <3>1, <2>1, <1>2 DEF MonCompare, InHand, Exclusive, others, actorVars
    <3>4. QED
      BY <3>2, <3>3
  <2>2. CASE mon[i].v.c # lastHash
    <3>1. /\ mon' \in [Monitors -> [st : {"off", "tick", "got", "send"}, v : Value]]
          /\ mon'[i].st = "send"
          /\ \A j \in Monitors \ {i} : mon'[j] = mon[j]
      BY <2>2, <1>2, <1>c, Moved DEF MonCompare
    <3>2. TypeOK'
      BY <3>1, <2>2, <1>2, <1>c DEF MonCompare, TypeOK, others, actorVars
    <3>3. \A j \in Monitors : mon[j].st # "send"
      BY <1>2 DEF MonCompare, Exclusive
    <3>4. holder' = {i}
      BY <2>2, <1>2 DEF MonCompare
    <3>5. Exclusive'
      BY <3>1, <3>3, <3>4 DEF Exclusive
    <3>6. InHand'
      BY <2>2, <1>2 DEF MonCompare, InHand, others, actorVars
    <3>7. QED
      BY <3>2, <3>5, <3>6
  <2>3. QED
    BY <2>1, <2>2
<1>3. CASE MonSend(i)
  <2>1. /\ mon' \in [Monitors -> [st : {"off", "tick", "got", "send"}, v : Value]]
        /\ mon'[i].st # "send"
        /\ \A j \in Monitors \ {i} : mon'[j] = mon[j]
    BY <1>3, <1>e, Moved DEF MonSend
  <2>2. UpTo(outq', Value, OutCap)
    BY <1>3, <1>c, Grows, ClipboardAssumption
       DEF MonSend, TypeOK, UpTo, ClipboardAssumption
  <2>3. TypeOK'
    BY <2>1, <2>2, <1>3 DEF MonSend, TypeOK, others, actorVars
  <2>4. i \in holder
    BY <1>3 DEF MonSend, Exclusive
  <2>5. Exclusive'
    BY <2>1, <2>4, <1>3 DEF MonSend, Exclusive
  <2>6. InHand'
    BY <1>3 DEF MonSend, InHand, others, actorVars
  <2>7. QED
    BY <2>3, <2>5, <2>6
<1>4. CASE MonSendFails(i)
  <2>1. /\ mon' \in [Monitors -> [st : {"off", "tick", "got", "send"}, v : Value]]
        /\ mon'[i].st # "send"
        /\ \A j \in Monitors \ {i} : mon'[j] = mon[j]
    BY <1>4, <1>e, Moved DEF MonSendFails
  <2>2. TypeOK'
    BY <2>1, <1>4 DEF MonSendFails, TypeOK, others, actorVars
  <2>3. i \in holder
    BY <1>4 DEF MonSendFails, Exclusive
  <2>4. Exclusive'
    BY <2>1, <2>3, <1>4 DEF MonSendFails, Exclusive
  <2>5. InHand'
    BY <1>4 DEF MonSendFails, InHand, others, actorVars
  <2>6. QED
    BY <2>2, <2>4, <2>5
<1>5. CASE MonStops(i)
  <2>1. /\ mon' \in [Monitors -> [st : {"off", "tick", "got", "send"}, v : Value]]
        /\ mon'[i].st # "send" /\ mon[i].st # "send"
        /\ \A j \in Monitors \ {i} : mon'[j] = mon[j]
    BY <1>5, <1>e, Moved DEF MonStops
  <2>2. TypeOK'
    BY <2>1, <1>5 DEF MonStops, TypeOK, others, actorVars
  <2>3. InHand' /\ Exclusive'
    BY <2>1, <1>5 DEF MonStops, InHand, Exclusive, others, actorVars
  <2>4. QED
    BY <2>2, <2>3
<1>6. QED
  BY <1>1, <1>2, <1>3, <1>4, <1>5 DEF MonStep

LEMMA ActorKeeps ==
  ASSUME ClipInv, ActorStep \/ EventSent \/ ActorAborted
  PROVE  ClipInv'
<1> USE DEF ClipInv
<1>1. CASE TakeOutgoing
  <2>1. UpTo(outq', Value, OutCap) /\ Head(outq) \in Value
    BY <1>1, Shrinks, ClipboardAssumption
       DEF TakeOutgoing, TypeOK, UpTo, ClipboardAssumption
  <2>a. UpTo(update', Update \cup Value, 1)
    BY <2>1, <1>1, OneInHand DEF TakeOutgoing
  <2>2. TypeOK'
    BY <2>1, <2>a, <1>1 DEF TakeOutgoing, TypeOK, manager, inputs
  <2>3. InHand' /\ Exclusive'
    BY <1>1 DEF TakeOutgoing, InHand, Exclusive, manager
  <2>4. QED
    BY <2>2, <2>3
<1>2. CASE TakeRemote
  <2>1. UpTo(inq', Update, InCap) /\ Head(inq) \in Update
    BY <1>2, Shrinks, ClipboardAssumption
       DEF TakeRemote, TypeOK, UpTo, ClipboardAssumption
  <2>2. \/ UNCHANGED <<pc, update>>
        \/ pc' = "hash" /\ update' = <<Head(inq)>> /\ UpTo(update', Update \cup Value, 1)
           /\ update'[1] \in Update
    <3>1. UpTo(<<Head(inq)>>, Update \cup Value, 1)
      BY <2>1, OneInHand
    <3>2. <<Head(inq)>>[1] \in Update
      BY <2>1
    <3>3. QED
      BY <3>1, <3>2, <1>2 DEF TakeRemote
  <2>3. TypeOK'
    BY <2>1, <2>2, <1>2 DEF TakeRemote, TypeOK, manager, inputs
  <2>4. InHand'
    BY <1>2, <2>2 DEF InHand, TakeRemote
  <2>5. Exclusive'
    BY <1>2 DEF TakeRemote, Exclusive, manager
  <2>6. QED
    BY <2>3, <2>4, <2>5
<1>3. CASE RemoteHash
  <2>1. update[1].c \in Texts
    BY <1>3 DEF RemoteHash, InHand, Update
  <2>2. TypeOK'
    BY <2>1, <1>3 DEF RemoteHash, TypeOK, inputs
  <2>3. InHand' /\ Exclusive'
    BY <1>3 DEF RemoteHash, InHand, Exclusive
  <2>4. QED
    BY <2>2, <2>3
<1>4. CASE RemoteSet
  <2>1. update[1].c \in Texts
    BY <1>4 DEF RemoteSet, InHand, Update
  <2>2. os' \in Value
    BY <2>1, <1>4 DEF RemoteSet, SetClipboard, TypeOK, Value
  <2>3. UpTo(update', Update \cup Value, 1)
    BY <1>4, Emptied DEF RemoteSet
  <2>4. TypeOK'
    BY <2>2, <2>3, <1>4 DEF RemoteSet, TypeOK, inputs
  <2>5. InHand' /\ Exclusive'
    BY <1>4 DEF RemoteSet, InHand, Exclusive
  <2>6. QED
    BY <2>4, <2>5
<1>5. CASE SeeKvm
  <2>1. CASE UNCHANGED mon
    <3>1. TypeOK'
      BY <2>1, <1>5 DEF SeeKvm, TypeOK
    <3>2. InHand' /\ Exclusive'
      BY <2>1, <1>5 DEF SeeKvm, InHand, Exclusive
    <3>3. QED
      BY <3>1, <3>2
  <2>2. CASE \E i \in Monitors : mon[i].st = "off" /\ Goes(i, "tick", Empty)
    <3>1. PICK i \in Monitors : mon[i].st = "off" /\ Goes(i, "tick", Empty)
      BY <2>2
    <3>2. Empty \in Value
      BY DEF Empty, Value
    <3>3. /\ mon' \in [Monitors -> [st : {"off", "tick", "got", "send"}, v : Value]]
          /\ mon'[i].st = "tick"
          /\ \A j \in Monitors \ {i} : mon'[j] = mon[j]
      BY <3>1, <3>2, Moved
    <3>4. TypeOK'
      BY <3>3, <1>5 DEF SeeKvm, TypeOK
    <3>5. InHand' /\ Exclusive'
      BY <3>1, <3>3, <1>5 DEF SeeKvm, InHand, Exclusive
    <3>6. QED
      BY <3>4, <3>5
  <2>3. QED
    BY <2>1, <2>2, <1>5 DEF SeeKvm
<1>6. CASE ActorEnds
  <2>1. TypeOK'
    BY <1>6, Emptied, ClipboardAssumption
       DEF ActorEnds, Ended, TypeOK, inputs, ClipboardAssumption
  <2>2. InHand' /\ Exclusive'
    BY <1>6 DEF ActorEnds, Ended, InHand, Exclusive
  <2>3. QED
    BY <2>1, <2>2
<1>7. CASE ActorAborted
  <2>a. os' \in Value
    <3>1. pc = "set" => update[1].c \in Texts
      BY DEF InHand, Update
    <3>2. QED
      BY <3>1, <1>7 DEF ActorAborted, SetClipboard, TypeOK, Value
  <2>1. TypeOK'
    BY <2>a, <1>7, Emptied, ClipboardAssumption
       DEF ActorAborted, Ended, TypeOK, inputs, ClipboardAssumption
  <2>2. InHand' /\ Exclusive'
    BY <1>7 DEF ActorAborted, Ended, InHand, Exclusive
  <2>3. QED
    BY <2>1, <2>2
<1>8. CASE EventSent
  <2>1. TypeOK'
    BY <1>8, Emptied DEF EventSent, TypeOK, manager, inputs
  <2>2. InHand' /\ Exclusive'
    BY <1>8 DEF EventSent, InHand, Exclusive, manager
  <2>3. QED
    BY <2>1, <2>2
<1>9. QED
  BY <1>1, <1>2, <1>3, <1>4, <1>5, <1>6, <1>7, <1>8 DEF ActorStep

Around == (\E c \in Copied \cup {NoText} : Copy(c)) \/ RemoteArrives \/ Toggle \/ Cancel

LEMMA AroundKeeps ==
  ASSUME ClipInv, Around \/ UNCHANGED vars
  PROVE  ClipInv'
<1> USE DEF ClipInv
<1>1. ASSUME NEW c \in Copied \cup {NoText}, Copy(c) PROVE ClipInv'
  <2>1. os' \in Value
    BY <1>1, ClipboardAssumption DEF Copy, Value, ClipboardAssumption
  <2>2. TypeOK'
    BY <2>1, <1>1 DEF Copy, TypeOK, others, actorVars
  <2>3. InHand' /\ Exclusive'
    BY <1>1 DEF Copy, InHand, Exclusive, others, actorVars
  <2>4. QED
    BY <2>2, <2>3
<1>2. CASE RemoteArrives
  <2>a. Arrivals \subseteq Update
    BY ClipboardAssumption DEF ClipboardAssumption, Update
  <2>1. UpTo(inq', Update, InCap)
    BY <2>a, <1>2, Grows, ClipboardAssumption
       DEF RemoteArrives, TypeOK, UpTo, ClipboardAssumption
  <2>2. TypeOK'
    BY <2>1, <1>2 DEF RemoteArrives, TypeOK, manager, actorVars, inputs
  <2>3. InHand' /\ Exclusive'
    BY <1>2 DEF RemoteArrives, InHand, Exclusive, manager, actorVars
  <2>4. QED
    BY <2>2, <2>3
<1>3. CASE Toggle
  BY <1>3 DEF Toggle, TypeOK, InHand, Exclusive, manager, actorVars
<1>4. CASE Cancel
  BY <1>4 DEF Cancel, TypeOK, InHand, Exclusive, manager, actorVars
<1>5. CASE UNCHANGED vars
  BY <1>5 DEF vars, TypeOK, InHand, Exclusive, actorVars
<1>6. QED
  BY <1>1, <1>2, <1>3, <1>4, <1>5 DEF Around

LEMMA ClipInvStep == ClipInv /\ [Next]_vars => ClipInv'
  BY MonitorKeeps, ActorKeeps, AroundKeeps DEF Next, Around

LEMMA ClipInvHolds == Spec => []ClipInv
  BY ClipInvInit, ClipInvStep, PTL DEF Spec

(***************************************************************************)
(* The results.                                                            *)
(***************************************************************************)

(* Every variable keeps its type and both channels their capacity, and the *)
(* actor applies only an update it has (clipboard_actor.rs, clipboard.rs). *)
THEOREM TypeCorrect == Spec => []TypeOK
<1>1. ClipInv => TypeOK
  BY DEF ClipInv
<1>2. QED
  BY ClipInvHolds, <1>1, PTL

(* last_hash's lock is across an await in nobody's hands but those of one  *)
(* monitor that sends, however many monitors overlap, and it gives it back *)
(* on every way out (start_monitoring in clipboard.rs).                    *)
THEOREM LockExact == Spec => []Exclusive
<1>1. ClipInv => Exclusive
  BY DEF ClipInv
<1>2. QED
  BY ClipInvHolds, <1>1, PTL

LEMMA WedgeStays ==
  ASSUME TypeOK, Wedged, Next
  PROVE  Wedged' \/ ActorAborted
<1>1. PICK i \in holder : mon[i].st = "send"
  BY DEF Wedged
<1>2. pc = "hash" /\ Len(outq) = OutCap /\ i \in Monitors /\ holder # {}
  BY <1>1 DEF Wedged, TypeOK
<1>3. ~(Len(outq) < OutCap)
  BY <1>2, ClipboardAssumption DEF ClipboardAssumption
<1>4. ASSUME UNCHANGED <<pc, outq, holder>>, mon'[i] = mon[i] PROVE Wedged'
  BY <1>1, <1>2, <1>4 DEF Wedged
<1>5. ASSUME NEW j \in Monitors, MonStep(j) PROVE Wedged'
  <2>1. MonTick(j) \/ MonStops(j)
    BY <1>2, <1>3, <1>5 DEF MonStep, MonCompare, MonSend, MonSendFails
  <2>2. j # i /\ \E st, v : Goes(j, st, v)
    BY <1>1, <2>1 DEF MonTick, MonStops
  <2>3. mon'[i] = mon[i]
    BY <1>2, <2>2 DEF Goes, TypeOK
  <2>4. UNCHANGED <<pc, outq, holder>>
    BY <2>1 DEF MonTick, MonStops, others, actorVars
  <2>5. QED
    BY <1>4, <2>3, <2>4
<1>6. ~ActorStep /\ ~EventSent
  BY <1>2 DEF ActorStep, TakeOutgoing, TakeRemote, RemoteHash, RemoteSet, SeeKvm,
              ActorEnds, EventSent
<1>7. ASSUME Around PROVE Wedged'
  <2>1. UNCHANGED <<pc, outq, holder, mon>>
    BY <1>7 DEF Around, Copy, RemoteArrives, Toggle, Cancel, others, actorVars, manager
  <2>2. QED
    BY <1>4, <2>1
<1>8. QED
  BY <1>5, <1>6, <1>7 DEF Next, Around

(* A monitor that waits for room with the lock, and the actor that alone   *)
(* makes room waiting for the lock, wait for ever: no step of another      *)
(* monitor, of a peer or of the user ends it, only the abort of the actor. *)
THEOREM WedgeIsFinal == Spec => WedgedForGood
<1>1. TypeOK /\ [Next]_vars => [Wedged => Wedged' \/ ActorAborted]_vars
  BY WedgeStays
<1>2. QED
  BY TypeCorrect, <1>1, PTL DEF Spec, WedgedForGood
=============================================================================
