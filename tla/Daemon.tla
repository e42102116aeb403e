------------------------------- MODULE Daemon -------------------------------
(***************************************************************************)
(* One daemon process: the coordinator and the input actor with its Linux  *)
(* capture, joined by the channels, and what surrounds them: the IPC       *)
(* connections, the network actor and the clipboard actor, reduced to the  *)
(* channel operations they perform (each is one task too, so while it      *)
(* awaits room in the coordinator's queue it takes nothing from its own).  *)
(*                                                                         *)
(* NetEvents is what the network actor may forward.  Its forwarding code   *)
(* handles every message a peer may send; which of them occur depends on   *)
(* PeerManager.                                                            *)
(***************************************************************************)
EXTENDS Coordinator, InputActor

CONSTANTS
  NetEvents,    \* events the network actor may send to the coordinator
  Surroundings  \* which of the sources of work below are present

VARIABLES
  netOut,    \* the event the network actor is sending, as a sequence
  netAt,     \* it is starting, in its loop, or inside a handshake or a send
             \* to the peers (see PeerNet)
  clipOut    \* the event the clipboard actor is sending

outVars == <<netOut, netAt, clipOut>>
vars == <<channelVars, coordVars, inputVars, outVars>>

ASSUME DaemonAssumption ==
  /\ NetEvents \subseteq
       {e \in Event : e.kind \notin {"FocusChanged", "KvmToggled", "OutgoingInput"}}
  /\ Surroundings \subseteq
       {"toggle", "save", "command", "peers", "clipboard", "capture", "shutdown"}

LocalClipboard == [kind |-> "Clipboard", peer |-> Local]

TypeOK ==
  /\ ChannelsTypeOK
  /\ CoordinatorTypeOK
  /\ InputTypeOK
  /\ netOut \in {<<>>} \cup {<<e>> : e \in NetEvents}
  /\ netAt \in {"start", "loop", "peers"}
  /\ clipOut \in {<<>>, <<LocalClipboard>>}

Init ==
  /\ ChannelsInit
  /\ CoordinatorInit
  /\ InputInit
  /\ netOut = <<>>
  /\ netAt = "start"
  /\ clipOut = <<>>

-----------------------------------------------------------------------------
(* The GUI, through an IPC connection: StartKvm, StopKvm, SaveConfig.      *)
IpcSendEvent ==
  /\ running
  /\ \/ /\ "toggle" \in Surroundings
        /\ \E on \in BOOLEAN : SendEvent([kind |-> "KvmToggled", on |-> on])
     \/ "save" \in Surroundings /\ SendEvent([kind |-> "Ignored"])
  /\ UNCHANGED <<injectq, open, netq, clipq, focus, focusNew, kvm, kvmNew, cancelled,
                 coordVars, inputVars, outVars>>

(* ConnectPeer, DisconnectPeer: straight to the network actor. *)
IpcSendCommand ==
  /\ "command" \in Surroundings /\ running
  /\ "net" \in open /\ netq < NetCap
  /\ netq' = netq + 1
  /\ UNCHANGED <<events, injectq, open, clipq, focus, focusNew, kvm, kvmNew,
                 cancelled, coordVars, inputVars, outVars>>

(* The network actor: a PeerManager event to forward, a command, or work   *)
(* of its own: a connection to answer, a peer to dial, a heartbeat to send. *)
NetworkEvent ==
  /\ "net" \in open /\ netOut = <<>> /\ netAt = "loop"
  /\ \E e \in NetEvents : netOut' = <<e>>
  /\ UNCHANGED <<channelVars, coordVars, inputVars, netAt, clipOut>>

NetworkForward ==
  /\ netOut # <<>>
  /\ SendEvent(Head(netOut))
  /\ netOut' = <<>>
  /\ UNCHANGED <<injectq, open, netq, clipq, focus, focusNew, kvm, kvmNew, cancelled,
                 coordVars, inputVars, netAt, clipOut>>

NetworkCommand ==
  /\ netOut = <<>> /\ netAt = "loop" /\ netq > 0
  /\ netq' = netq - 1
  /\ netAt' = "peers"
  /\ UNCHANGED <<events, injectq, open, clipq, focus, focusNew, kvm, kvmNew,
                 cancelled, coordVars, inputVars, netOut, clipOut>>

NetworkWork ==
  /\ "peers" \in Surroundings
  /\ "net" \in open /\ netOut = <<>> /\ netAt = "loop"
  /\ netAt' = "peers"
  /\ UNCHANGED <<channelVars, coordVars, inputVars, netOut, clipOut>>

(* It has its identity and its endpoint, or the operation with the peers   *)
(* returns, which nothing in this process makes it do.                     *)
NetworkReturns ==
  /\ netAt # "loop"
  /\ netAt' = "loop"
  /\ UNCHANGED <<channelVars, coordVars, inputVars, netOut, clipOut>>

(* It has yet to load its identity and to bind its endpoint: each may fail. *)
CannotStart == netAt = "start"

(* It ends when it cannot start, sees the shutdown signal, or is aborted.  *)
NetworkEnds ==
  /\ "net" \in open
  /\ \/ netOut = <<>> /\ (CannotStart \/ (cancelled /\ netAt = "loop"))
     \/ ~running
  /\ open' = open \ {"net"}
  /\ netq' = 0
  /\ netOut' = <<>>
  /\ netAt' = "loop"
  /\ UNCHANGED <<events, injectq, clipq, focus, focusNew, kvm, kvmNew, cancelled,
                 coordVars, inputVars, clipOut>>

(* The clipboard actor: a local change to announce, or a remote update. *)
ClipboardEvent ==
  /\ "clipboard" \in Surroundings
  /\ "clip" \in open /\ clipOut = <<>>
  /\ clipOut' = <<LocalClipboard>>
  /\ UNCHANGED <<channelVars, coordVars, inputVars, netOut, netAt>>

ClipboardForward ==
  /\ clipOut # <<>>
  /\ SendEvent(Head(clipOut))
  /\ clipOut' = <<>>
  /\ UNCHANGED <<injectq, open, netq, clipq, focus, focusNew, kvm, kvmNew, cancelled,
                 coordVars, inputVars, netOut, netAt>>

ClipboardApply ==
  /\ clipOut = <<>> /\ clipq > 0
  /\ clipq' = clipq - 1
  /\ UNCHANGED <<events, injectq, open, netq, focus, focusNew, kvm, kvmNew,
                 cancelled, coordVars, inputVars, outVars>>

ClipboardEnds ==
  /\ "clip" \in open
  /\ (cancelled /\ clipOut = <<>>) \/ ~running
  /\ open' = open \ {"clip"}
  /\ clipq' = 0
  /\ clipOut' = <<>>
  /\ UNCHANGED <<events, injectq, netq, focus, focusNew, kvm, kvmNew, cancelled,
                 coordVars, inputVars, netOut, netAt>>

(* SIGINT / SIGTERM in main. *)
Cancel ==
  /\ "shutdown" \in Surroundings /\ ~cancelled
  /\ cancelled' = TRUE
  /\ UNCHANGED <<events, injectq, open, netq, clipq, focus, focusNew, kvm, kvmNew,
                 coordVars, inputVars, outVars>>

-----------------------------------------------------------------------------
CoordinatorStep == CoordinatorNext /\ UNCHANGED <<inputVars, outVars>>

InputStep == ActorStep /\ UNCHANGED <<coordVars, outVars>>

InputAbort == ~running /\ InputAborted /\ UNCHANGED <<coordVars, outVars>>

CaptureStep ==
  (\E d \in Devices : DeviceStep(d)) /\ UNCHANGED <<coordVars, outVars>>

CaptureInput ==
  /\ "capture" \in Surroundings
  /\ (\E d \in Devices : DeviceInput(d))
  /\ UNCHANGED <<coordVars, outVars>>

PeripheralStep ==
  NetworkForward \/ NetworkCommand \/ ClipboardForward \/ ClipboardApply

(* What the daemon does by itself, and what its surroundings do. *)
Internal == CoordinatorStep \/ InputStep \/ CaptureStep \/ PeripheralStep

External ==
  \/ IpcSendEvent \/ IpcSendCommand
  \/ NetworkEvent \/ NetworkWork \/ NetworkReturns \/ ClipboardEvent
  \/ CaptureInput \/ Cancel \/ InputAbort \/ NetworkEnds \/ ClipboardEnds

Next == Internal \/ External

Spec == Init /\ [][Next]_vars

(* Scheduling.  Every task runs again once it can.  tokio's mpsc queues    *)
(* waiting senders first come first served, and select! polls its branches *)
(* from a random one, so a send or a branch that becomes possible again    *)
(* and again is not passed over for ever.  A coordinator that has left its *)
(* loop aborts the input actor's task.  Nothing is assumed of the          *)
(* surroundings, but that every peer operation of the network actor        *)
(* returns, which is up to the other machines: PeerNet says when it does   *)
(* not.                                                                    *)
LoopFairness ==
  /\ SF_vars(CoordinatorStep)
  /\ SF_vars(InputStep)
  /\ SF_vars(InjectInput /\ UNCHANGED <<coordVars, outVars>>)
  /\ SF_vars(NetworkForward \/ NetworkCommand)
  /\ WF_vars(NetworkReturns)

CaptureFairness ==
  \A d \in Devices :
    /\ WF_vars(DeviceStep(d) /\ UNCHANGED <<coordVars, outVars>>)
    /\ SF_vars(DevStop(d) /\ UNCHANGED <<coordVars, outVars>>)

ClipboardFairness == SF_vars(ClipboardForward \/ ClipboardApply)

(* With no more of it than an instance has use for: captures, or clipboard *)
(* and shutdown.                                                           *)
CaptureSpec == Spec /\ LoopFairness /\ CaptureFairness

ShutdownSpec == Spec /\ LoopFairness /\ ClipboardFairness /\ WF_vars(InputAbort)

-----------------------------------------------------------------------------
(* SAFETY *)

(* No FocusChanged event in queue q behind position i. *)
NoChangeAfter(q, i) ==
  \A j \in i + 1 .. Len(q) : q[j].kind # "FocusChanged"

(* The last focus change still on its way through the coordinator's own    *)
(* queue, or else the focus itself, is the target of the last ScreenEnter  *)
(* or ScreenLeave: however the self-sent FocusChanged events interleave    *)
(* with later commands, the focus ends up where the last command put it.   *)
FocusFollowsCommand ==
  IF awaiting = "event"
    THEN focus = commanded
    ELSE /\ \A i \in 1 .. Len(events) :
              events[i].kind = "FocusChanged" /\ NoChangeAfter(events, i)
                => events[i].peer = commanded
         /\ NoChangeAfter(events, 0) => focus = commanded

(* A capture that is not active has no device task left, whichever of      *)
(* grab, ungrab and stop ended it: nothing holds a device any more, and    *)
(* the tasks of two captures never coexist.                                *)
InactiveReleases ==
  ~capActive => AllOff /\ \A d \in Devices : ~devGrab[d]

(* Once the input actor has seen that KVM is off and is back in its loop,  *)
(* no device is read or held.  kvm_active is a watch: a quick Stop, Start, *)
(* Stop is seen as one change.  The same once the actor has ended by       *)
(* itself.                                                                 *)
StoppedReleases ==
  (pc = "select" /\ ~kvmNew /\ ~kvm) \/ pc = "stopped"
    => ~capActive

(* A device held exclusively belongs to a running capture that was started *)
(* with the grabbed flag set, and the flag is not cleared under it.        *)
HeldImpliesGrabbed ==
  \A d \in Devices : devGrab[d] => capActive /\ capGrabbed

(* The inductive strengthening of the invariants above.                    *)
SendsLeft == (awaiting = "none") <=> (left = 0)

HeldIsOpen == \A d \in Devices : devGrab[d] => dev[d] \in {"read", "send"}

(* While KVM is off and seen to be off, only a branch that is about to     *)
(* stop the capture (or an aborted actor) may still have one.              *)
OffOrStopping ==
  /\ capActive /\ ~kvm /\ ~kvmNew => pc \in Stopping \cup {"kvm", "aborted"}
  /\ pc = "stopped" => ~capActive

IInv ==
  /\ TypeOK
  /\ SendsLeft
  /\ FocusFollowsCommand
  /\ InactiveReleases
  /\ HeldImpliesGrabbed
  /\ HeldIsOpen
  /\ OffOrStopping

-----------------------------------------------------------------------------
(* WAITING FOR ONE ANOTHER *)

(* What keeps a wait from ending: an awaited send is that of a running     *)
(* loop, a closed injection queue is empty, and an actor that is still     *)
(* there holds the receiver of a running capture.                          *)
SenderRuns == awaiting # "none" => running
ClosedIsEmpty ==
  /\ "inject" \notin open => injectq = 0
  /\ "net" \notin open => netq = 0
  /\ "clip" \notin open => clipq = 0
CaptureHasReader == capActive /\ pc # "aborted" => rxOpen

WInv == IInv /\ SenderRuns /\ ClosedIsEmpty /\ CaptureHasReader

EventsFull == Len(events) = EventCap

(* stop() waits for a device task that waits for room in a channel whose   *)
(* only receiver is the actor that called stop().                          *)
CaptureWedged ==
  pc \in Stopping /\ capq = CaptureCap /\ \E d \in Devices : dev[d] = "send"

(* The coordinator waits for a place in a full queue: its own, or that of  *)
(* an actor which itself waits for a place in the coordinator's queue (or  *)
(* is the wedged input actor).                                             *)
CoordinatorWedged ==
  \/ awaiting = "event" /\ EventsFull
  \/ /\ awaiting = "inject" /\ injectq = InjectCap
     /\ CaptureWedged \/ (pc = "forward" /\ EventsFull)
  \/ awaiting = "net" /\ netq = NetCap /\ netOut # <<>> /\ EventsFull
  \/ awaiting = "clip" /\ clipq = ClipCap /\ clipOut # <<>> /\ EventsFull

(* Each of these states is final: no later step, not even the shutdown     *)
(* signal, gets the coordinator out of it.                                 *)
WedgedForGood == [][CoordinatorWedged => CoordinatorWedged']_vars

(* Where peer operations return, they are the only ways for the            *)
(* coordinator to hang: any send it awaits completes, or the daemon is in  *)
(* one of them.                                                            *)
SendsOrWedges ==
  (awaiting # "none") ~> (awaiting = "none" \/ CoordinatorWedged)

(* The same for the input actor: whatever it does, it comes back to its    *)
(* select! or ends, unless its own stop() or the coordinator is wedged.    *)
ServesOrWedges ==
  (pc # "select") ~>
    (pc \in {"select", "stopped", "aborted"} \/ CaptureWedged
       \/ CoordinatorWedged)

-----------------------------------------------------------------------------
(* WHAT THE DOCUMENTS SAY AND THE CODE DOES NOT DO *)

(* "If already capturing, we need to restart with grab enabled": after the *)
(* grab that a remote focus causes, the capture is running.                *)
GrabKeepsCapturing ==
  [][(pc = "stopGrab" /\ pc' = "select") => capActive']_vars
=============================================================================
