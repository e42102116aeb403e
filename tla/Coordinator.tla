---------------------------- MODULE Coordinator -----------------------------
(***************************************************************************)
(* The coordinator's event loop (Coordinator::run in                       *)
(* crates/daemon/src/coordinator.rs): it takes one CoordinatorEvent at a   *)
(* time, updates the shared status and the watch channels, and awaits room *)
(* in the channel of the actor the event is meant for.  While it awaits,   *)
(* it takes no other event and does not see the shutdown signal.           *)
(***************************************************************************)
EXTENDS Channels

VARIABLES
  running,    \* the event loop has not been left
  awaiting,   \* the channel whose send the coordinator awaits, or "none"
  left,       \* sends of the current handler not yet completed
  status,     \* DaemonState.peers: number of entries per peer
  commanded   \* history: target of the last ScreenEnter / ScreenLeave

CONSTANT MaxEntries  \* entries of one peer are counted up to this bound

coordVars == <<running, awaiting, left, status, commanded>>

ASSUME CoordinatorAssumption == MaxEntries \in Nat \ {0}

Awaitable == {"none", "event", "inject", "net", "clip"}

CoordinatorTypeOK ==
  /\ running \in BOOLEAN
  /\ awaiting \in Awaitable
  /\ left \in 0 .. MaxBatch
  /\ status \in [RemotePeers -> 0 .. MaxEntries]
  /\ commanded \in Peer

CoordinatorInit ==
  /\ running = TRUE
  /\ awaiting = "none"
  /\ left = 0
  /\ status = [p \in RemotePeers |-> 0]
  /\ commanded = Local

(* event_rx.recv(): the coordinator is in its select! and takes the head. *)
Receive(kind) ==
  /\ running
  /\ awaiting = "none"
  /\ events # <<>>
  /\ Head(events).kind = kind
  /\ events' = Tail(events)

(* The handler goes on to n sends on one channel, one after another. *)
ThenSend(channel, n) == awaiting' = channel /\ left' = n
NoSend == UNCHANGED <<awaiting, left>>

HandlePeerConnected ==
  LET p == Head(events).peer IN
  /\ Receive("PeerConnected")
  /\ status' = [status EXCEPT ![p] = IF @ < MaxEntries THEN @ + 1 ELSE @]
  /\ NoSend
  /\ UNCHANGED <<injectq, open, netq, clipq, focus, focusNew, kvm, kvmNew,
                 cancelled, running, commanded>>

HandlePeerDisconnected ==
  LET p == Head(events).peer IN
  /\ Receive("PeerDisconnected")
  /\ status' = [status EXCEPT ![p] = 0]
  /\ NoSend
  /\ UNCHANGED <<injectq, open, netq, clipq, focus, focusNew, kvm, kvmNew,
                 cancelled, running, commanded>>

HandleFocusChanged ==
  /\ Receive("FocusChanged")
  /\ SendFocus(Head(events).peer)
  /\ NoSend
  /\ UNCHANGED <<injectq, open, netq, clipq, kvm, kvmNew, cancelled,
                 running, status, commanded>>

HandleKvmToggled ==
  /\ Receive("KvmToggled")
  /\ SendKvm(Head(events).on)
  /\ NoSend
  /\ UNCHANGED <<injectq, open, netq, clipq, focus, focusNew, cancelled,
                 running, status, commanded>>

HandleIncomingInput ==
  /\ Receive("IncomingInput")
  /\ ThenSend("inject", Head(events).n)
  /\ UNCHANGED <<injectq, open, netq, clipq, focus, focusNew, kvm, kvmNew,
                 cancelled, running, status, commanded>>

HandleOutgoingInput ==
  /\ Receive("OutgoingInput")
  /\ ThenSend("net", 1)
  /\ UNCHANGED <<injectq, open, netq, clipq, focus, focusNew, kvm, kvmNew,
                 cancelled, running, status, commanded>>

(* ScreenEnter and ScreenLeave write the focus watch at once and then send *)
(* the coordinator itself a FocusChanged with the same state.              *)
Command(p) ==
  /\ SendFocus(p)
  /\ commanded' = p
  /\ ThenSend("event", 1)
  /\ UNCHANGED <<injectq, open, netq, clipq, kvm, kvmNew, cancelled,
                 running, status>>

HandleScreenEnter == Receive("ScreenEnter") /\ Command(Head(events).peer)

HandleScreenLeave == Receive("ScreenLeave") /\ Command(Local)

(* A clipboard update of this machine's own clipboard goes no further. *)
HandleClipboard ==
  /\ Receive("Clipboard")
  /\ IF Head(events).peer # Local THEN ThenSend("clip", 1) ELSE NoSend
  /\ UNCHANGED <<injectq, open, netq, clipq, focus, focusNew, kvm, kvmNew,
                 cancelled, running, status, commanded>>

HandleIgnored ==
  /\ Receive("Ignored")
  /\ NoSend
  /\ UNCHANGED <<injectq, open, netq, clipq, focus, focusNew, kvm, kvmNew,
                 cancelled, running, status, commanded>>

(* One awaited send completes; after the last one the loop goes on.  A send *)
(* to an actor that has ended fails at once.                               *)
SendDone ==
  /\ left' = left - 1
  /\ awaiting' = IF left = 1 THEN "none" ELSE awaiting
  /\ UNCHANGED <<focus, focusNew, kvm, kvmNew, cancelled,
                 running, status, commanded>>

SendInject ==
  /\ awaiting = "inject"
  /\ \/ "inject" \in open /\ injectq < InjectCap /\ injectq' = injectq + 1
     \/ "inject" \notin open /\ UNCHANGED injectq
  /\ SendDone
  /\ UNCHANGED <<events, open, netq, clipq>>

SendNetwork ==
  /\ awaiting = "net"
  /\ \/ "net" \in open /\ netq < NetCap /\ netq' = netq + 1
     \/ "net" \notin open /\ UNCHANGED netq
  /\ SendDone
  /\ UNCHANGED <<events, injectq, open, clipq>>

(* Mutant of SendClipboard: try_send. *)
SendClipboardLossy ==
  /\ awaiting = "clip"
  /\ clipq' = IF "clip" \in open /\ clipq < ClipCap THEN clipq + 1 ELSE clipq
  /\ SendDone
  /\ UNCHANGED <<events, injectq, open, netq>>

SendClipboard ==
  /\ awaiting = "clip"
  /\ \/ "clip" \in open /\ clipq < ClipCap /\ clipq' = clipq + 1
     \/ "clip" \notin open /\ UNCHANGED clipq
  /\ SendDone
  /\ UNCHANGED <<events, injectq, open, netq>>

(* Mutant of SendSelf: try_send. *)
SendSelfLossy ==
  /\ awaiting = "event"
  /\ \/ SendEvent([kind |-> "FocusChanged", peer |-> focus])
     \/ Len(events) = EventCap /\ UNCHANGED events
  /\ SendDone
  /\ UNCHANGED <<injectq, open, netq, clipq>>

SendSelf ==
  /\ awaiting = "event"
  /\ SendEvent([kind |-> "FocusChanged", peer |-> focus])
  /\ SendDone
  /\ UNCHANGED <<injectq, open, netq, clipq>>

(* The loop is left; the actors' tasks are aborted (see InputAborted). *)
CoordinatorShutdown ==
  /\ running /\ awaiting = "none" /\ cancelled
  /\ running' = FALSE
  /\ UNCHANGED <<awaiting, left, status, commanded>>
  /\ UNCHANGED channelVars

CoordinatorHandle ==
  \/ HandlePeerConnected \/ HandlePeerDisconnected
  \/ HandleFocusChanged \/ HandleKvmToggled
  \/ HandleIncomingInput \/ HandleOutgoingInput
  \/ HandleScreenEnter \/ HandleScreenLeave
  \/ HandleClipboard \/ HandleIgnored

CoordinatorSend == SendInject \/ SendNetwork \/ SendClipboard \/ SendSelf

CoordinatorNext == CoordinatorHandle \/ CoordinatorSend \/ CoordinatorShutdown
=============================================================================
