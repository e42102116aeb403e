------------------------------ MODULE Channels ------------------------------
(***************************************************************************)
(* The channels that join the actors of one daemon process, as created by  *)
(* Coordinator::run (crates/daemon/src/coordinator.rs) and InputActor::new *)
(* (crates/daemon/src/actors/input_actor.rs).                              *)
(*                                                                         *)
(* tokio's bounded mpsc channels carry values whose content no property    *)
(* tells apart, except the coordinator's own event queue: the others are   *)
(* represented by the number of messages they hold.  A watch channel is    *)
(* its latest value and, per receiver, whether that value is unseen.       *)
(***************************************************************************)
EXTENDS Naturals, Sequences

CONSTANTS
  RemotePeers,  \* the other machines
  Local,        \* this machine's peer id (config.peer_id)
  EventCap,     \* capacity of the coordinator's event queue   (256)
  InjectCap,    \* capacity of the injection queue             (512)
  NetCap,       \* capacity of the network command queue       (64)
  ClipCap,      \* capacity of the incoming clipboard queue    (32)
  MaxBatch      \* the longest InputMessage::EventBatch

ASSUME ChannelsAssumption ==
  /\ Local \notin RemotePeers
  /\ EventCap \in Nat \ {0}
  /\ InjectCap \in Nat \ {0}
  /\ NetCap \in Nat \ {0}
  /\ ClipCap \in Nat \ {0}
  /\ MaxBatch \in Nat \ {0}

VARIABLES
  events,    \* mpsc: CoordinatorEvents waiting for the coordinator
  injectq,   \* mpsc: number of InputEvents waiting to be injected
  netq,      \* mpsc: number of NetworkCommands waiting
  clipq,     \* mpsc: number of remote clipboard updates waiting
  open,      \* those of the last three channels whose receiver exists
  focus,     \* watch: FocusState.active_peer
  focusNew,  \* the input actor has not seen the latest focus value
  kvm,       \* watch: kvm_active
  kvmNew,    \* the input actor has not seen the latest kvm value
  cancelled  \* the CancellationToken shared by all actors

channelVars ==
  <<events, injectq, open, netq, clipq, focus, focusNew, kvm, kvmNew, cancelled>>

Peer == RemotePeers \cup {Local}

(* enum CoordinatorEvent.  "Ignored" stands for the events whose handlers  *)
(* change nothing another actor reads: heartbeat acknowledgements and      *)
(* unmatched control messages, FIDO2 data, configuration changes.          *)
Event ==
       [kind : {"FocusChanged", "ScreenEnter", "Clipboard",
                "PeerConnected", "PeerDisconnected"}, peer : Peer]
  \cup [kind : {"KvmToggled"}, on : BOOLEAN]
  \cup [kind : {"IncomingInput"}, n : 1 .. MaxBatch]
  \cup [kind : {"OutgoingInput", "ScreenLeave", "Ignored"}]

ChannelsTypeOK ==
  /\ events \in Seq(Event)
  /\ Len(events) <= EventCap
  /\ injectq \in 0 .. InjectCap
  /\ open \subseteq {"inject", "net", "clip"}
  /\ netq \in 0 .. NetCap
  /\ clipq \in 0 .. ClipCap
  /\ focus \in Peer
  /\ focusNew \in BOOLEAN
  /\ kvm \in BOOLEAN
  /\ kvmNew \in BOOLEAN
  /\ cancelled \in BOOLEAN

ChannelsInit ==
  /\ events = <<>>
  /\ open = {"inject", "net", "clip"}
  /\ injectq = 0 /\ netq = 0 /\ clipq = 0
  /\ focus = Local /\ focusNew = FALSE
  /\ kvm = FALSE /\ kvmNew = FALSE
  /\ cancelled = FALSE

(* Mutant of SendEvent: an unbounded channel. *)
SendEventUnbounded(e) == events' = Append(events, e)

(* event_tx.send(e).await completes: there is a free slot. *)
SendEvent(e) ==
  /\ Len(events) < EventCap
  /\ events' = Append(events, e)

(* watch::Sender::send marks the value unseen even when it is equal. *)
SendFocus(p) == focus' = p /\ focusNew' = TRUE
SendKvm(b)   == kvm' = b /\ kvmNew' = TRUE
=============================================================================
