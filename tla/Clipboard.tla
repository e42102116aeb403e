----------------------------- MODULE Clipboard ------------------------------
(***************************************************************************)
(* Clipboard sharing on one machine: ClipboardManager                      *)
(* (crates/core/src/clipboard.rs) and the actor that drives it             *)
(* (crates/daemon/src/actors/clipboard_actor.rs).  A monitor task compares *)
(* the system clipboard with the last hash every 500 ms; the actor applies *)
(* remote updates and hands local changes to the coordinator.              *)
(* A text stands for its own hash.                                         *)
(***************************************************************************)
EXTENDS Naturals, Sequences

CONSTANTS
  Texts,     \* texts that may be copied, here or elsewhere
  Copied,    \* bound: those that are copied here
  TooLarge,  \* those longer than max_size
  NoText,    \* an empty clipboard, or one that holds no text
  Arrivals,  \* bound: updates that peers send: [kind, c]
  Monitors,  \* bound: monitor tasks that may exist at once
  OutCap,    \* the manager's outgoing channel (32)
  InCap      \* the actor's incoming channel (32)

ASSUME ClipboardAssumption ==
  /\ TooLarge \subseteq Texts /\ Copied \subseteq Texts /\ NoText \notin Texts
  /\ Arrivals \subseteq [kind : {"text", "html", "other"}, c : Texts]
  /\ OutCap \in Nat \ {0} /\ InCap \in Nat \ {0}

VARIABLES
  os,          \* the system clipboard: [c, from], from: local or remote
  lastHash,    \* last_hash; NoText at first
  holder,      \* who holds its lock across an await: a set of monitors
  active,      \* the flag the monitors look at
  mon,         \* per monitor: [st, v]: off, tick, got (a value), send
  outq, inq,   \* the two channels
  pc, update,  \* the actor: select, event, hash, set, ended; the update in hand
  monitoring,  \* the actor started monitoring
  kvm, kvmNew, \* kvm_active, and whether the actor has not seen it
  cancelled, monStop  \* the shutdown token, and the monitors' watch

actorVars == <<pc, update, monitoring>>
vars == <<os, lastHash, holder, active, mon, outq, inq, actorVars, kvm, kvmNew,
          cancelled, monStop>>

Value == [c : Texts \cup {NoText}, from : {"local", "remote"}]
Update == [kind : {"text", "html", "other"}, c : Texts]
UpTo(q, S, n) == q \in Seq(S) /\ Len(q) <= n

TypeOK ==
  /\ os \in Value /\ lastHash \in Texts \cup {NoText}
  /\ holder \subseteq Monitors
  /\ mon \in [Monitors -> [st : {"off", "tick", "got", "send"}, v : Value]]
  /\ UpTo(outq, Value, OutCap) /\ UpTo(inq, Update, InCap)
  /\ pc \in {"select", "event", "hash", "set", "ended"}
  /\ UpTo(update, Update \cup Value, 1)
  /\ {active, monitoring, kvm, kvmNew, cancelled, monStop} \subseteq BOOLEAN

Empty == [c |-> NoText, from |-> "local"]

Init ==
  /\ os = Empty /\ lastHash = NoText /\ holder = {} /\ active = FALSE
  /\ mon = [i \in Monitors |-> [st |-> "off", v |-> Empty]]
  /\ outq = <<>> /\ inq = <<>>
  /\ pc = "select" /\ update = <<>> /\ monitoring = FALSE
  /\ kvm = FALSE /\ kvmNew = FALSE /\ cancelled = FALSE /\ monStop = FALSE

-----------------------------------------------------------------------------
(* A MONITOR TASK *)

Goes(i, st, v) == mon' = [mon EXCEPT ![i] = [st |-> st, v |-> v]]
others == <<active, inq, actorVars, kvm, kvmNew, cancelled, monStop>>

(* The interval: the flag, then the clipboard. *)
MonTick(i) ==
  /\ mon[i].st = "tick"
  /\ IF active
       THEN /\ os.c \in Texts \ TooLarge
            /\ Goes(i, "got", os)
       ELSE Goes(i, "off", Empty)
  /\ UNCHANGED <<os, lastHash, holder, outq, others>>

(* With the lock: an unchanged hash ends the round; else the lock is kept  *)
(* until the update is sent.                                               *)
MonCompare(i) ==
  /\ mon[i].st = "got" /\ holder = {}
  /\ IF mon[i].v.c = lastHash
       THEN Goes(i, "tick", Empty) /\ UNCHANGED <<lastHash, holder>>
       ELSE /\ Goes(i, "send", mon[i].v)
            /\ lastHash' = mon[i].v.c
            /\ holder' = {i}
  /\ UNCHANGED <<os, outq, others>>

(* Mutant of MonSend: try_send, the update is lost if there is no room. *)
MonSendLossy(i) ==
  /\ mon[i].st = "send" /\ pc # "ended"
  /\ outq' = IF Len(outq) < OutCap THEN Append(outq, mon[i].v) ELSE outq
  /\ Goes(i, "tick", Empty)
  /\ holder' = {}
  /\ UNCHANGED <<os, lastHash, others>>

(* Mutant of MonSend: the channel is unbounded. *)
MonSendUnbounded(i) ==
  /\ mon[i].st = "send" /\ pc # "ended" /\ Len(outq) <= OutCap
  /\ outq' = Append(outq, mon[i].v)
  /\ Goes(i, "tick", Empty)
  /\ holder' = {}
  /\ UNCHANGED <<os, lastHash, others>>

(* Mutant of MonSend: the lock outlives the round. *)
MonSendHolding(i) ==
  /\ mon[i].st = "send" /\ pc # "ended" /\ Len(outq) < OutCap
  /\ outq' = Append(outq, mon[i].v)
  /\ Goes(i, "tick", Empty)
  /\ UNCHANGED <<os, lastHash, holder, others>>

MonSend(i) ==
  /\ mon[i].st = "send" /\ pc # "ended" /\ Len(outq) < OutCap
  /\ outq' = Append(outq, mon[i].v)
  /\ Goes(i, "tick", Empty)
  /\ holder' = {}
  /\ UNCHANGED <<os, lastHash, others>>

MonSendFails(i) ==
  /\ mon[i].st = "send" /\ pc = "ended"
  /\ Goes(i, "off", Empty)
  /\ holder' = {}
  /\ UNCHANGED <<os, lastHash, outq, others>>

MonStops(i) ==
  /\ mon[i].st = "tick" /\ monStop
  /\ Goes(i, "off", Empty)
  /\ UNCHANGED <<os, lastHash, holder, outq, others>>

-----------------------------------------------------------------------------
(* THE ACTOR *)

manager == <<os, lastHash, holder, active, mon>>
inputs == <<kvm, kvmNew, cancelled>>

(* A local change goes to the coordinator, *)
TakeOutgoing ==
  /\ pc = "select" /\ outq # <<>>
  /\ outq' = Tail(outq) /\ update' = <<Head(outq)>> /\ pc' = "event"
  /\ UNCHANGED <<manager, inq, monitoring, inputs, monStop>>

(* whose queue has room sooner or later. *)
EventSent ==
  /\ pc = "event" /\ pc' = "select" /\ update' = <<>>
  /\ UNCHANGED <<manager, outq, inq, monitoring, inputs, monStop>>

(* handle_remote_update: too large, or not text: nothing is done. *)
TakeRemote ==
  /\ pc = "select" /\ inq # <<>>
  /\ inq' = Tail(inq)
  /\ IF Head(inq).c \in TooLarge \/ Head(inq).kind = "other"
       THEN UNCHANGED <<pc, update>>
       ELSE pc' = "hash" /\ update' = <<Head(inq)>>
  /\ UNCHANGED <<manager, outq, monitoring, inputs, monStop>>

RemoteHash ==
  /\ pc = "hash" /\ holder = {}
  /\ lastHash' = update[1].c
  /\ pc' = "set"
  /\ UNCHANGED <<os, holder, active, mon, outq, inq, update, monitoring, inputs, monStop>>

(* A failure to set the clipboard is only logged.  Html is set without a   *)
(* text alternative.                                                       *)
SetClipboard ==
  \/ UNCHANGED os
  \/ os' = [c |-> IF update[1].kind = "text" THEN update[1].c ELSE NoText,
            from |-> "remote"]

RemoteSet ==
  /\ pc = "set" /\ SetClipboard
  /\ pc' = "select" /\ update' = <<>>
  /\ UNCHANGED <<lastHash, holder, active, mon, outq, inq, monitoring, inputs, monStop>>

(* KVM goes on: a new monitor task; off: the flag is cleared. *)
SeeKvm ==
  /\ pc = "select" /\ kvmNew
  /\ kvmNew' = FALSE
  /\ \/ /\ kvm /\ ~monitoring
        /\ \E i \in Monitors :
             mon[i].st = "off" /\ Goes(i, "tick", Empty)
        /\ active' = TRUE /\ monitoring' = TRUE
     \/ /\ ~kvm /\ monitoring
        /\ active' = FALSE /\ monitoring' = FALSE
        /\ UNCHANGED mon
     \/ /\ kvm = monitoring
        /\ UNCHANGED <<mon, active, monitoring>>
  /\ UNCHANGED <<os, lastHash, holder, outq, inq, pc, update, kvm, cancelled, monStop>>

(* The receivers go with the actor; every monitor sees its watch change or *)
(* close.                                                                  *)
Ended ==
  /\ pc' = "ended" /\ update' = <<>> /\ outq' = <<>> /\ inq' = <<>>
  /\ monStop' = TRUE

ActorEnds ==
  /\ pc = "select" /\ cancelled
  /\ Ended
  /\ active' = IF monitoring THEN FALSE ELSE active
  /\ UNCHANGED <<os, lastHash, holder, mon, monitoring, inputs>>

(* The coordinator aborts it at whatever await it is in; the blocking task *)
(* that sets the clipboard is not.                                         *)
ActorAborted ==
  /\ cancelled /\ pc # "ended"
  /\ Ended
  /\ IF pc = "set" THEN SetClipboard ELSE UNCHANGED os
  /\ UNCHANGED <<lastHash, holder, active, mon, monitoring, inputs>>

-----------------------------------------------------------------------------
(* ITS SURROUNDINGS *)

Copy(c) ==
  /\ os' = [c |-> c, from |-> "local"]
  /\ UNCHANGED <<lastHash, holder, mon, outq, others>>

RemoteArrives ==
  /\ pc # "ended" /\ Len(inq) < InCap
  /\ \E u \in Arrivals : inq' = Append(inq, u)
  /\ UNCHANGED <<manager, outq, actorVars, inputs, monStop>>

Toggle ==
  /\ kvm' = ~kvm /\ kvmNew' = TRUE
  /\ UNCHANGED <<manager, outq, inq, actorVars, cancelled, monStop>>

Cancel ==
  /\ ~cancelled /\ cancelled' = TRUE
  /\ UNCHANGED <<manager, outq, inq, actorVars, kvm, kvmNew, monStop>>

-----------------------------------------------------------------------------
MonStep(i) ==
  MonTick(i) \/ MonCompare(i) \/ MonSend(i) \/ MonSendFails(i) \/ MonStops(i)

ActorStep == TakeOutgoing \/ TakeRemote \/ RemoteHash \/ RemoteSet \/ SeeKvm \/ ActorEnds

Next ==
  \/ \E i \in Monitors : MonStep(i)
  \/ ActorStep \/ EventSent \/ ActorAborted
  \/ (\E c \in Copied \cup {NoText} : Copy(c)) \/ RemoteArrives \/ Toggle \/ Cancel

Spec == Init /\ [][Next]_vars

(* The tasks run; the coordinator takes the event; the lock is first come, *)
(* first served (tokio's Mutex).                                           *)
FairSpec ==
  /\ Spec
  /\ WF_vars(ActorStep) /\ WF_vars(EventSent) /\ SF_vars(RemoteHash)
  /\ SF_vars(TakeOutgoing)
  /\ \A i \in Monitors : WF_vars(MonStep(i)) /\ SF_vars(MonCompare(i) \/ MonSend(i))

-----------------------------------------------------------------------------
(* A monitor waits for room that only the actor makes, holding the lock    *)
(* the actor waits for.                                                    *)
Wedged ==
  pc = "hash" /\ Len(outq) = OutCap /\ \E i \in holder : mon[i].st = "send"

(* Only the abort of the actor ends it.                                    *)
WedgedForGood == [][Wedged => Wedged' \/ ActorAborted]_vars

(* It is the only wait of the actor that does not end.                     *)
ServesOrWedged == (pc # "select") ~> (pc \in {"select", "ended"} \/ Wedged)

(* A local copy that stays on the clipboard, and is not what was sent or   *)
(* received last, is handed to the coordinator, whatever arrives meanwhile *)
(* and however many monitors look at it: unless KVM goes off, the actor    *)
(* ends or is wedged, or a peer sends the same text.                       *)
Holds(c) == update # <<>> /\ update[1].c = c

Announced ==
  \A c \in Copied \ TooLarge :
    (active /\ os = [c |-> c, from |-> "local"] /\ lastHash # c)
      ~> \/ Holds(c)
         \/ os # [c |-> c, from |-> "local"] \/ ~active \/ pc = "ended" \/ Wedged

(* "Update the hash so we don't re-send this back": what came from a peer  *)
(* is not announced as a local change.                                     *)
NoEcho == \A k \in 1 .. Len(outq) : outq[k].from = "local"
=============================================================================
