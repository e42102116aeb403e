---------------------------- MODULE DaemonProofs ----------------------------
(***************************************************************************)
(* Proofs about Daemon, for every set of peers and devices, every channel  *)
(* capacity and whatever the surroundings send.                            *)
(***************************************************************************)
EXTENDS Daemon, TLAPS

LEMMA Constants ==
  /\ EventCap \in Nat \ {0} /\ InjectCap \in Nat \ {0}
  /\ NetCap \in Nat \ {0} /\ ClipCap \in Nat \ {0}
  /\ CaptureCap \in Nat \ {0} /\ MaxBatch \in Nat \ {0}
  /\ MaxEntries \in Nat \ {0}
  /\ NetEvents \subseteq Event
  /\ \A e \in NetEvents : e.kind # "FocusChanged"
  BY ChannelsAssumption, CoordinatorAssumption, InputAssumption,
     DaemonAssumption
  DEF ChannelsAssumption, CoordinatorAssumption, InputAssumption,
      DaemonAssumption

(* Queues: what appending an event and taking the head do. *)
LEMMA AppendEvent ==
  ASSUME NEW S, NEW q \in Seq(S), NEW e \in S
  PROVE  /\ Append(q, e) \in Seq(S)
         /\ Len(Append(q, e)) = Len(q) + 1
         /\ \A i \in 1 .. Len(q) : Append(q, e)[i] = q[i]
         /\ Append(q, e)[Len(q) + 1] = e
  OBVIOUS

LEMMA TakeEvent ==
  ASSUME NEW S, NEW q \in Seq(S), q # <<>>
  PROVE  /\ Head(q) \in S
         /\ Head(q) = q[1]
         /\ Len(q) \in Nat \ {0}
         /\ Tail(q) \in Seq(S)
         /\ Len(Tail(q)) = Len(q) - 1
         /\ \A i \in 1 .. Len(Tail(q)) : Tail(q)[i] = q[i + 1]
  OBVIOUS

LEMMA InitInv == Init => IInv
<1> SUFFICES ASSUME Init PROVE IInv
  OBVIOUS
<1> USE DEF Init, ChannelsInit, CoordinatorInit, InputInit
<1>1. ChannelsTypeOK
  <2>1. /\ events \in Seq(Event) /\ Len(events) <= EventCap
        /\ injectq \in 0 .. InjectCap
        /\ netq \in 0 .. NetCap /\ clipq \in 0 .. ClipCap
    BY Constants
  <2>2. focus \in Peer
    BY DEF Peer
  <2>3. QED
    BY <2>1, <2>2 DEF ChannelsTypeOK
<1>2. CoordinatorTypeOK
  <2>1. left \in 0 .. MaxBatch /\ status \in [RemotePeers -> 0 .. MaxEntries]
    BY Constants
  <2>2. commanded \in Peer /\ awaiting \in Awaitable
    BY DEF Peer, Awaitable
  <2>3. QED
    BY <2>1, <2>2 DEF CoordinatorTypeOK
<1>3. InputTypeOK
  <2>1. /\ dev \in [Devices -> DevStates]
        /\ devGrab \in [Devices -> BOOLEAN]
    BY DEF DevStates
  <2>2. heard \in Peer /\ pc \in Locations
    BY DEF Peer, Locations
  <2>3. capq \in 0 .. CaptureCap
    BY Constants
  <2>4. QED
    BY <2>1, <2>2, <2>3 DEF InputTypeOK
<1>4. TypeOK
  BY <1>1, <1>2, <1>3 DEF TypeOK
<1>5. FocusFollowsCommand
  BY DEF FocusFollowsCommand, NoChangeAfter
<1>6. QED
  BY <1>4, <1>5 DEF IInv, SendsLeft, InactiveReleases, AllOff,
     HeldImpliesGrabbed, HeldIsOpen, OffOrStopping

-----------------------------------------------------------------------------
(* The part of the invariant about the coordinator and its queue.          *)
QueueInv ==
  /\ ChannelsTypeOK
  /\ CoordinatorTypeOK
  /\ SendsLeft
  /\ FocusFollowsCommand

otherChannels == <<injectq, open, netq, clipq, focus, focusNew, kvm,
                   kvmNew, cancelled>>

(* A producer appends an event that is no FocusChanged. *)
LEMMA ProducerKeepsQueueInv ==
  ASSUME QueueInv, NEW e \in Event, e.kind # "FocusChanged", SendEvent(e),
         UNCHANGED <<otherChannels, coordVars>>
  PROVE  QueueInv'
<1> USE DEF otherChannels, coordVars
<1>0. /\ events \in Seq(Event)
      /\ events' = Append(events, e)
  BY DEF QueueInv, ChannelsTypeOK, SendEvent
<1>1. /\ events' \in Seq(Event)
      /\ Len(events') = Len(events) + 1
      /\ \A i \in 1 .. Len(events) : events'[i] = events[i]
      /\ events'[Len(events) + 1] = e
      /\ Len(events) \in Nat
  BY <1>0, AppendEvent
<1>2. ChannelsTypeOK'
  BY <1>1, Constants DEF QueueInv, ChannelsTypeOK, SendEvent
<1>3. CoordinatorTypeOK' /\ SendsLeft'
  BY DEF QueueInv, CoordinatorTypeOK, SendsLeft
<1>4. FocusFollowsCommand'
  <2>1. \A i \in 1 .. Len(events) :
          NoChangeAfter(events', i) => NoChangeAfter(events, i)
    BY <1>1 DEF NoChangeAfter
  <2>2. NoChangeAfter(events', 0) => NoChangeAfter(events, 0)
    BY <1>1 DEF NoChangeAfter
  <2>3. QED
    BY <1>1, <2>1, <2>2 DEF QueueInv, FocusFollowsCommand
<1>5. QED
  BY <1>2, <1>3, <1>4 DEF QueueInv

(* Taking the head of the queue leaves the pending focus changes in order; *)
(* if none is left, the head was the last one or the focus is up to date.  *)
LEMMA ReceiveFacts ==
  ASSUME QueueInv, NEW kind, Receive(kind)
  PROVE  /\ Head(events) \in Event
         /\ Head(events).kind = kind
         /\ events' \in Seq(Event)
         /\ Len(events') <= EventCap
         /\ \A i \in 1 .. Len(events') :
              events'[i].kind = "FocusChanged" /\ NoChangeAfter(events', i)
                => events'[i].peer = commanded
         /\ NoChangeAfter(events', 0) =>
              IF kind = "FocusChanged"
                THEN Head(events).peer = commanded
                ELSE focus = commanded
<1>0. /\ events \in Seq(Event) /\ events # <<>> /\ events' = Tail(events)
      /\ awaiting = "none" /\ Head(events).kind = kind
  BY DEF QueueInv, ChannelsTypeOK, Receive
<1>1. /\ Head(events) \in Event
      /\ Head(events) = events[1]
      /\ Len(events) \in Nat \ {0}
      /\ events' \in Seq(Event)
      /\ Len(events') = Len(events) - 1
      /\ \A i \in 1 .. Len(events') : events'[i] = events[i + 1]
  BY <1>0, TakeEvent
<1>2. \A i \in 1 .. Len(events') :
        NoChangeAfter(events', i) => NoChangeAfter(events, i + 1)
  <2> SUFFICES ASSUME NEW i \in 1 .. Len(events'), NoChangeAfter(events', i),
                      NEW j \in i + 2 .. Len(events)
               PROVE  events[j].kind # "FocusChanged"
    BY DEF NoChangeAfter
  <2>1. j - 1 \in i + 1 .. Len(events') /\ j - 1 \in 1 .. Len(events')
    BY <1>1
  <2>2. events'[j - 1] = events[(j - 1) + 1] /\ (j - 1) + 1 = j
    BY <1>1, <2>1
  <2>3. events'[j - 1].kind # "FocusChanged"
    BY <2>1 DEF NoChangeAfter
  <2>4. QED
    BY <2>2, <2>3
<1>3. NoChangeAfter(events', 0) => NoChangeAfter(events, 1)
  <2> SUFFICES ASSUME NoChangeAfter(events', 0), NEW j \in 2 .. Len(events)
               PROVE  events[j].kind # "FocusChanged"
    BY DEF NoChangeAfter
  <2>1. j - 1 \in 1 .. Len(events') /\ j - 1 \in 0 + 1 .. Len(events')
    BY <1>1
  <2>2. events'[j - 1] = events[(j - 1) + 1] /\ (j - 1) + 1 = j
    BY <1>1, <2>1
  <2>3. events'[j - 1].kind # "FocusChanged"
    BY <2>1 DEF NoChangeAfter
  <2>4. QED
    BY <2>2, <2>3
<1>4. NoChangeAfter(events', 0) /\ kind # "FocusChanged"
        => NoChangeAfter(events, 0)
  BY <1>0, <1>1, <1>3 DEF NoChangeAfter
<1>5. Len(events') <= EventCap
  BY <1>1, Constants DEF QueueInv, ChannelsTypeOK
<1>6. \A i \in 1 .. Len(events) :
        events[i].kind = "FocusChanged" /\ NoChangeAfter(events, i)
          => events[i].peer = commanded
  BY <1>0 DEF QueueInv, FocusFollowsCommand
<1>7. NoChangeAfter(events, 0) => focus = commanded
  BY <1>0 DEF QueueInv, FocusFollowsCommand
<1>8. \A i \in 1 .. Len(events') :
        events'[i].kind = "FocusChanged" /\ NoChangeAfter(events', i)
          => events'[i].peer = commanded
  <2> SUFFICES ASSUME NEW i \in 1 .. Len(events'),
                      events'[i].kind = "FocusChanged",
                      NoChangeAfter(events', i)
               PROVE  events'[i].peer = commanded
    OBVIOUS
  <2>1. i + 1 \in 1 .. Len(events) /\ events'[i] = events[i + 1]
    BY <1>1
  <2>2. QED
    BY <1>2, <1>6, <2>1
<1>9. NoChangeAfter(events', 0) =>
        IF kind = "FocusChanged" THEN Head(events).peer = commanded
                                 ELSE focus = commanded
  <2>1. 1 \in 1 .. Len(events)
    BY <1>1
  <2>2. QED
    BY <1>0, <1>1, <1>3, <1>4, <1>6, <1>7, <2>1
<1>10. QED
  BY <1>0, <1>1, <1>5, <1>8, <1>9

(* A handler that neither moves the focus nor sends to the queue itself. *)
LEMMA PlainHandler ==
  ASSUME QueueInv, NEW kind, Receive(kind), kind # "FocusChanged",
         awaiting' # "event", UNCHANGED <<focus, commanded>>
  PROVE  FocusFollowsCommand'
  BY ReceiveFacts DEF FocusFollowsCommand

(* Types after a handler that leaves the other queues alone. *)
LEMMA HandlerTypes ==
  ASSUME QueueInv, NEW kind, Receive(kind),
         UNCHANGED <<injectq, open, netq, clipq, cancelled>>,
         focus' \in Peer, focusNew' \in BOOLEAN,
         kvm' \in BOOLEAN, kvmNew' \in BOOLEAN
  PROVE  ChannelsTypeOK'
<1>1. events' \in Seq(Event) /\ Len(events') <= EventCap
  BY ReceiveFacts
<1>2. QED
  BY <1>1 DEF QueueInv, ChannelsTypeOK

LEMMA EventFields ==
  ASSUME NEW e \in Event
  PROVE  /\ e.kind \in {"FocusChanged", "ScreenEnter", "Clipboard"} => e.peer \in Peer
         /\ e.kind = "KvmToggled" => e.on \in BOOLEAN
         /\ e.kind = "IncomingInput" => e.n \in 1 .. MaxBatch
  BY DEF Event

LEMMA HandleKeepsQueueInv ==
  ASSUME QueueInv, CoordinatorHandle
  PROVE  QueueInv'
<1> USE DEF NoSend, ThenSend
<1>t. /\ focus \in Peer /\ focusNew \in BOOLEAN
      /\ kvm \in BOOLEAN /\ kvmNew \in BOOLEAN
      /\ running \in BOOLEAN /\ awaiting \in Awaitable
      /\ left \in 0 .. MaxBatch /\ commanded \in Peer
      /\ status \in [RemotePeers -> 0 .. MaxEntries]
      /\ SendsLeft
  BY DEF QueueInv, ChannelsTypeOK, CoordinatorTypeOK
<1>c. /\ 1 \in 0 .. MaxBatch
      /\ {"event", "inject", "net", "clip"} \subseteq Awaitable
      /\ Local \in Peer
  BY Constants DEF Awaitable, Peer
<1>1. CASE HandlePeerConnected
  <2>1. Receive("PeerConnected") /\ awaiting = "none"
    BY <1>1 DEF HandlePeerConnected, Receive
  <2>2. status' \in [RemotePeers -> 0 .. MaxEntries]
    <3> DEFINE p == Head(events).peer
    <3>1. status' = [status EXCEPT ![p] = IF @ < MaxEntries THEN @ + 1 ELSE @]
      BY <1>1 DEF HandlePeerConnected
    <3>2. \A n \in 0 .. MaxEntries :
            (IF n < MaxEntries THEN n + 1 ELSE n) \in 0 .. MaxEntries
      BY Constants
    <3>3. status \in [RemotePeers -> 0 .. MaxEntries]
      BY <1>t
    <3> HIDE DEF p
    <3>4. QED
      BY <3>1, <3>2, <3>3
  <2>3. ChannelsTypeOK'
    BY <1>1, <1>t, <2>1, HandlerTypes DEF HandlePeerConnected
  <2>4. CoordinatorTypeOK' /\ SendsLeft'
    BY <1>1, <1>t, <2>2
    DEF HandlePeerConnected, CoordinatorTypeOK, SendsLeft
  <2>5. QED
    BY <1>1, <2>1, <2>3, <2>4, PlainHandler DEF HandlePeerConnected, QueueInv
<1>2. CASE HandlePeerDisconnected
  <2>1. Receive("PeerDisconnected") /\ awaiting = "none"
    BY <1>2 DEF HandlePeerDisconnected, Receive
  <2>2. status' \in [RemotePeers -> 0 .. MaxEntries]
    <3>1. status' = [status EXCEPT ![Head(events).peer] = 0]
      BY <1>2 DEF HandlePeerDisconnected
    <3>2. 0 \in 0 .. MaxEntries
      BY Constants
    <3>3. status \in [RemotePeers -> 0 .. MaxEntries]
      BY <1>t
    <3>4. QED
      BY <3>1, <3>2, <3>3
  <2>3. ChannelsTypeOK'
    BY <1>2, <1>t, <2>1, HandlerTypes DEF HandlePeerDisconnected
  <2>4. CoordinatorTypeOK' /\ SendsLeft'
    BY <1>2, <1>t, <2>2
    DEF HandlePeerDisconnected, CoordinatorTypeOK, SendsLeft
  <2>5. QED
    BY <1>2, <2>1, <2>3, <2>4, PlainHandler DEF HandlePeerDisconnected, QueueInv
<1>3. CASE HandleFocusChanged
  <2>1. Receive("FocusChanged") /\ awaiting = "none"
    BY <1>3 DEF HandleFocusChanged, Receive
  <2>2. focus' = Head(events).peer /\ focus' \in Peer /\ focusNew' = TRUE
    BY <1>3, <2>1, ReceiveFacts, EventFields DEF HandleFocusChanged, SendFocus
  <2>3. ChannelsTypeOK'
    BY <1>3, <1>t, <2>1, <2>2, HandlerTypes DEF HandleFocusChanged
  <2>4. CoordinatorTypeOK' /\ SendsLeft'
    BY <1>3, <1>t DEF HandleFocusChanged, CoordinatorTypeOK, SendsLeft
  <2>5. FocusFollowsCommand'
    BY <1>3, <2>1, <2>2, ReceiveFacts
    DEF HandleFocusChanged, FocusFollowsCommand
  <2>6. QED
    BY <2>3, <2>4, <2>5 DEF QueueInv
<1>4. CASE HandleKvmToggled
  <2>1. Receive("KvmToggled") /\ awaiting = "none"
    BY <1>4 DEF HandleKvmToggled, Receive
  <2>2. kvm' \in BOOLEAN /\ kvmNew' = TRUE
    BY <1>4, <2>1, ReceiveFacts, EventFields DEF HandleKvmToggled, SendKvm
  <2>3. ChannelsTypeOK'
    BY <1>4, <1>t, <2>1, <2>2, HandlerTypes DEF HandleKvmToggled
  <2>4. CoordinatorTypeOK' /\ SendsLeft'
    BY <1>4, <1>t DEF HandleKvmToggled, CoordinatorTypeOK, SendsLeft
  <2>5. QED
    BY <1>4, <2>1, <2>3, <2>4, PlainHandler DEF HandleKvmToggled, QueueInv
<1>5. CASE HandleIncomingInput
  <2>1. Receive("IncomingInput")
    BY <1>5 DEF HandleIncomingInput
  <2>2. awaiting' = "inject" /\ left' \in 1 .. MaxBatch
    BY <1>5, <2>1, ReceiveFacts, EventFields DEF HandleIncomingInput
  <2>3. ChannelsTypeOK'
    BY <1>5, <1>t, <2>1, HandlerTypes DEF HandleIncomingInput
  <2>4. CoordinatorTypeOK' /\ SendsLeft'
    BY <1>5, <1>t, <1>c, <2>2, Constants
    DEF HandleIncomingInput, CoordinatorTypeOK, SendsLeft
  <2>5. QED
    BY <1>5, <2>1, <2>2, <2>3, <2>4, PlainHandler
    DEF HandleIncomingInput, QueueInv
<1>6. CASE HandleOutgoingInput
  <2>1. Receive("OutgoingInput") /\ awaiting' = "net" /\ left' = 1
    BY <1>6 DEF HandleOutgoingInput
  <2>3. ChannelsTypeOK'
    BY <1>6, <1>t, <2>1, HandlerTypes DEF HandleOutgoingInput
  <2>4. CoordinatorTypeOK' /\ SendsLeft'
    BY <1>6, <1>t, <1>c, <2>1
    DEF HandleOutgoingInput, CoordinatorTypeOK, SendsLeft
  <2>5. QED
    BY <1>6, <2>1, <2>3, <2>4, PlainHandler DEF HandleOutgoingInput, QueueInv
<1>7. ASSUME NEW kind, Receive(kind), NEW p \in Peer, Command(p)
      PROVE  QueueInv'
  <2>1. /\ focus' = p /\ focusNew' = TRUE /\ commanded' = p
        /\ awaiting' = "event" /\ left' = 1
    BY <1>7 DEF Command, SendFocus
  <2>2. ChannelsTypeOK'
    BY <1>7, <1>t, <2>1, HandlerTypes DEF Command
  <2>3. CoordinatorTypeOK' /\ SendsLeft'
    BY <1>7, <1>t, <1>c, <2>1 DEF Command, CoordinatorTypeOK, SendsLeft
  <2>4. FocusFollowsCommand'
    BY <2>1 DEF FocusFollowsCommand
  <2>5. QED
    BY <2>2, <2>3, <2>4 DEF QueueInv
<1>8. CASE HandleScreenEnter
  <2>1. Receive("ScreenEnter") /\ Head(events).peer \in Peer
    BY <1>8, ReceiveFacts, EventFields DEF HandleScreenEnter
  <2>2. QED
    BY <1>7, <1>8, <2>1 DEF HandleScreenEnter
<1>9. CASE HandleScreenLeave
  BY <1>7, <1>9, <1>c DEF HandleScreenLeave
<1>10. CASE HandleClipboard
  <2>1. Receive("Clipboard") /\ awaiting = "none"
    BY <1>10 DEF HandleClipboard, Receive
  <2>2. \/ awaiting' = "clip" /\ left' = 1
        \/ UNCHANGED <<awaiting, left>>
    BY <1>10 DEF HandleClipboard
  <2>3. ChannelsTypeOK'
    BY <1>10, <1>t, <2>1, HandlerTypes DEF HandleClipboard
  <2>4. CoordinatorTypeOK' /\ SendsLeft'
    BY <1>10, <1>t, <1>c, <2>2 DEF HandleClipboard, CoordinatorTypeOK, SendsLeft
  <2>5. QED
    BY <1>10, <2>1, <2>2, <2>3, <2>4, PlainHandler DEF HandleClipboard, QueueInv
<1>11. CASE HandleIgnored
  <2>1. Receive("Ignored") /\ awaiting = "none"
    BY <1>11 DEF HandleIgnored, Receive
  <2>3. ChannelsTypeOK'
    BY <1>11, <1>t, <2>1, HandlerTypes DEF HandleIgnored
  <2>4. CoordinatorTypeOK' /\ SendsLeft'
    BY <1>11, <1>t DEF HandleIgnored, CoordinatorTypeOK, SendsLeft
  <2>5. QED
    BY <1>11, <2>1, <2>3, <2>4, PlainHandler DEF HandleIgnored, QueueInv
<1>12. QED
  BY <1>1, <1>2, <1>3, <1>4, <1>5, <1>6, <1>8, <1>9, <1>10, <1>11
  DEF CoordinatorHandle

(* Completing an awaited send. *)
LEMMA SendKeepsQueueInv ==
  ASSUME QueueInv, CoordinatorSend
  PROVE  QueueInv'
<1>t. /\ left \in 0 .. MaxBatch /\ awaiting \in Awaitable /\ SendsLeft
      /\ commanded \in Peer /\ focus \in Peer
  BY DEF QueueInv, ChannelsTypeOK, CoordinatorTypeOK
<1>1. awaiting # "none" /\ left \in 1 .. MaxBatch /\ SendDone
  BY <1>t, Constants
  DEF CoordinatorSend, SendInject, SendNetwork, SendClipboard, SendSelf,
      SendsLeft
<1>2. left' \in 0 .. MaxBatch
  BY <1>1, Constants DEF SendDone
<1>3. SendsLeft'
  BY <1>1, Constants DEF SendDone, SendsLeft
<1>4. CoordinatorTypeOK'
  BY <1>1, <1>2 DEF SendDone, QueueInv, CoordinatorTypeOK, Awaitable
<1>5. CASE SendSelf
  <2> DEFINE e == [kind |-> "FocusChanged", peer |-> focus]
  <2>1. e \in Event
    BY <1>t DEF Event
  <2>2. events \in Seq(Event) /\ events' = Append(events, e)
        /\ Len(events) < EventCap /\ awaiting = "event"
    BY <1>5 DEF SendSelf, SendEvent, QueueInv, ChannelsTypeOK
  <2>3. /\ events' \in Seq(Event)
        /\ Len(events') = Len(events) + 1
        /\ events'[Len(events')] = e
        /\ Len(events) \in Nat
    BY <2>1, <2>2, AppendEvent
  <2>4. ChannelsTypeOK'
    BY <1>1, <1>5, <2>2, <2>3, Constants
    DEF SendSelf, SendDone, QueueInv, ChannelsTypeOK
  <2>5. focus = commanded
    BY <2>2 DEF QueueInv, FocusFollowsCommand
  <2>6. \A i \in 1 .. Len(events') :
          NoChangeAfter(events', i) => i = Len(events')
    <3> SUFFICES ASSUME NEW i \in 1 .. Len(events'), i # Len(events')
                 PROVE  ~NoChangeAfter(events', i)
      OBVIOUS
    <3>1. Len(events') \in i + 1 .. Len(events')
      BY <2>3
    <3>2. events'[Len(events')].kind = "FocusChanged"
      BY <2>3
    <3>3. QED
      BY <3>1, <3>2 DEF NoChangeAfter
  <2>7. FocusFollowsCommand'
    BY <1>1, <2>3, <2>5, <2>6 DEF SendDone, FocusFollowsCommand
  <2>8. QED
    BY <1>3, <1>4, <2>4, <2>7 DEF QueueInv
<1>6. CASE ~SendSelf
  <2>0. /\ injectq \in 0 .. InjectCap /\ netq \in 0 .. NetCap
        /\ clipq \in 0 .. ClipCap
    BY DEF QueueInv, ChannelsTypeOK
  <2>1. awaiting # "event" /\ UNCHANGED <<events, open>>
    BY <1>6 DEF CoordinatorSend, SendInject, SendNetwork, SendClipboard
  <2>2. /\ injectq' \in 0 .. InjectCap /\ netq' \in 0 .. NetCap
        /\ clipq' \in 0 .. ClipCap
    <3>1. CASE SendInject
      <4>1. UNCHANGED <<netq, clipq>>
        BY <3>1 DEF SendInject
      <4>2. \/ injectq < InjectCap /\ injectq' = injectq + 1
            \/ injectq' = injectq
        BY <3>1, Zenon DEF SendInject
      <4>3. injectq' \in 0 .. InjectCap
        BY <2>0, <4>2, Constants
      <4>4. QED
        BY <2>0, <4>1, <4>3
    <3>2. CASE SendNetwork
      BY <2>0, <3>2, Constants DEF SendNetwork
    <3>3. CASE SendClipboard
      BY <2>0, <3>3, Constants DEF SendClipboard
    <3>4. QED
      BY <1>6, <3>1, <3>2, <3>3 DEF CoordinatorSend
  <2>3. ChannelsTypeOK'
    BY <1>1, <2>1, <2>2 DEF SendDone, QueueInv, ChannelsTypeOK
  <2>4. FocusFollowsCommand'
    BY <1>1, <2>1 DEF SendDone, QueueInv, FocusFollowsCommand
  <2>5. QED
    BY <1>3, <1>4, <2>3, <2>4 DEF QueueInv
<1>7. QED
  BY <1>5, <1>6

(* Steps that leave the queue, the focus and the coordinator alone.        *)
LEMMA OtherStepsKeepQueueInv ==
  ASSUME QueueInv, UNCHANGED <<events, focus, coordVars>>, ChannelsTypeOK'
  PROVE  QueueInv'
<1>1. CoordinatorTypeOK' /\ SendsLeft' /\ FocusFollowsCommand'
  BY DEF QueueInv, coordVars, CoordinatorTypeOK, SendsLeft,
         FocusFollowsCommand, NoChangeAfter
<1>2. QED
  BY <1>1 DEF QueueInv

LEMMA ActorKeepsQueueInv ==
  ASSUME QueueInv, UNCHANGED coordVars, ActorStep \/ InputAborted
  PROVE  QueueInv'
<1>1. CASE ForwardInput
  <2> DEFINE e == [kind |-> "OutgoingInput"]
  <2>1. e \in Event /\ e.kind # "FocusChanged" /\ SendEvent(e)
    BY <1>1 DEF Event, ForwardInput
  <2>2. UNCHANGED otherChannels
    BY <1>1 DEF ForwardInput, otherChannels
  <2>3. QED
    BY <2>1, <2>2, ProducerKeepsQueueInv
<1>2. CASE InjectInput
  <2>1. /\ injectq' \in 0 .. InjectCap
        /\ UNCHANGED <<events, open, netq, clipq, focus, focusNew, kvm,
                       kvmNew, cancelled>>
    BY <1>2, Constants DEF InjectInput, QueueInv, ChannelsTypeOK
  <2>2. ChannelsTypeOK'
    BY <2>1 DEF QueueInv, ChannelsTypeOK
  <2>3. QED
    BY <2>1, <2>2, OtherStepsKeepQueueInv
<1>3. CASE SeeKvm \/ SeeFocus
  <2>1. ChannelsTypeOK' /\ UNCHANGED <<events, focus>>
    BY <1>3 DEF SeeKvm, SeeFocus, QueueInv, ChannelsTypeOK
  <2>2. QED
    BY <2>1, OtherStepsKeepQueueInv
<1>4. CASE DropChannels
  <2>0. open' \subseteq {"inject", "net", "clip"} /\ injectq' = 0
    BY <1>4 DEF DropChannels, QueueInv, ChannelsTypeOK
  <2>1. injectq' \in 0 .. InjectCap
    BY <2>0, Constants
  <2>2. ChannelsTypeOK' /\ UNCHANGED <<events, focus>>
    BY <1>4, <2>0, <2>1 DEF DropChannels, QueueInv, ChannelsTypeOK
  <2>3. QED
    BY <2>2, OtherStepsKeepQueueInv
<1>5. CASE UNCHANGED channelVars
  <2>1. ChannelsTypeOK' /\ UNCHANGED <<events, focus>>
    BY <1>5 DEF channelVars, QueueInv, ChannelsTypeOK
  <2>2. QED
    BY <2>1, OtherStepsKeepQueueInv
<1>6. QED
  BY <1>1, <1>2, <1>3, <1>4, <1>5
  DEF ActorStep, TakeCaptured, DecideForward, StartCapture, StartFails, KvmOff,
      ReadFocus, FollowFocus, StopDone, InputShutdown, InputAborted

-----------------------------------------------------------------------------
(* The part of the invariant about the input actor and its capture.        *)
ActorInv ==
  /\ InputTypeOK
  /\ InactiveReleases
  /\ HeldImpliesGrabbed
  /\ HeldIsOpen
  /\ OffOrStopping

(* No step outside the input actor touches its state; kvm_active changes   *)
(* only together with being marked unseen.                                 *)
LEMMA OutsideKeepsActorInv ==
  ASSUME ActorInv, UNCHANGED inputVars,
         UNCHANGED <<kvm, kvmNew>> \/ kvmNew' = TRUE
  PROVE  ActorInv'
<1> USE DEF inputVars, captureVars
<1>1. InputTypeOK'
  BY DEF ActorInv, InputTypeOK
<1>2. InactiveReleases' /\ HeldImpliesGrabbed' /\ HeldIsOpen'
  BY DEF ActorInv, InactiveReleases, AllOff, HeldImpliesGrabbed, HeldIsOpen
<1>3. OffOrStopping'
  BY DEF ActorInv, OffOrStopping
<1>4. QED
  BY <1>1, <1>2, <1>3 DEF ActorInv

(* The actor's own steps leave the device tasks alone, except those that   *)
(* start a capture; so what is held stays justified as long as an active   *)
(* capture and its grabbed flag are kept.                                  *)
LEMMA SameDevices ==
  ASSUME ActorInv, UNCHANGED <<dev, devGrab, capActive, capGrabbed>>
  PROVE  InactiveReleases' /\ HeldImpliesGrabbed' /\ HeldIsOpen'
  BY DEF ActorInv, InactiveReleases, AllOff, HeldImpliesGrabbed, HeldIsOpen

LEMMA ActorKeepsActorInv ==
  ASSUME ActorInv, ChannelsTypeOK, ActorStep
  PROVE  ActorInv'
<1> USE DEF captureVars, channelVars
<1>t. /\ InputTypeOK /\ OffOrStopping
      /\ focus \in Peer /\ Local \in Peer
      /\ kvm \in BOOLEAN /\ kvmNew \in BOOLEAN
  BY DEF ActorInv, ChannelsTypeOK, Peer
<1>l. {"select", "captured", "forward", "kvm", "focus", "focusKvm", "stopped",
       "stopGrab", "stopUngrab", "stopOff", "stopExit"} \subseteq Locations
  BY DEF Locations, Stopping
<1>1. CASE TakeCaptured
  <2>0. capq' \in 0 .. CaptureCap
    BY <1>1, <1>t, Constants DEF TakeCaptured, InputTypeOK
  <2>1. InputTypeOK'
    BY <1>1, <1>t, <1>l, <2>0 DEF TakeCaptured, InputTypeOK
  <2>2. OffOrStopping'
    BY <1>1, <1>t DEF TakeCaptured, OffOrStopping, Stopping
  <2>3. QED
    BY <1>1, <2>1, <2>2, SameDevices DEF TakeCaptured, ActorInv
<1>2. CASE DecideForward \/ ForwardInput \/ InjectInput
  <2>0. /\ UNCHANGED <<captureVars, kvm, kvmNew>>
        /\ pc' \in {"select", "forward"} /\ heard' \in Peer
        /\ pc \in {"captured", "forward", "select"}
    BY <1>2, <1>t DEF DecideForward, ForwardInput, InjectInput, InputTypeOK
  <2>1. InputTypeOK'
    BY <1>t, <1>l, <2>0 DEF InputTypeOK
  <2>2. OffOrStopping'
    BY <1>t, <2>0 DEF OffOrStopping, Stopping
  <2>3. QED
    BY <2>0, <2>1, <2>2, SameDevices DEF ActorInv
<1>3. CASE SeeKvm
  <2>1. InputTypeOK'
    BY <1>3, <1>t, <1>l DEF SeeKvm, InputTypeOK
  <2>2. OffOrStopping'
    BY <1>3 DEF SeeKvm, OffOrStopping
  <2>3. QED
    BY <1>3, <2>1, <2>2, SameDevices DEF SeeKvm, ActorInv
<1>4. CASE StartCapture
  <2>0. capq' \in 0 .. CaptureCap
    BY <1>4, Constants DEF StartCapture
  <2>1. /\ dev' \in [Devices -> DevStates] /\ devGrab' \in [Devices -> BOOLEAN]
        /\ \A d \in Devices : devGrab'[d] = FALSE
        /\ capActive' = TRUE
    BY <1>4 DEF StartCapture, DevStates
  <2>2. InputTypeOK'
    BY <1>4, <1>t, <1>l, <2>0, <2>1 DEF StartCapture, InputTypeOK
  <2>3. OffOrStopping'
    BY <1>4 DEF StartCapture, OffOrStopping
  <2>4. InactiveReleases' /\ HeldImpliesGrabbed' /\ HeldIsOpen'
    BY <2>1 DEF InactiveReleases, HeldImpliesGrabbed, HeldIsOpen
  <2>5. QED
    BY <2>2, <2>3, <2>4 DEF ActorInv
<1>5. CASE StartFails
  <2>1. InputTypeOK' /\ OffOrStopping'
    BY <1>5, <1>t, <1>l DEF StartFails, InputTypeOK, OffOrStopping
  <2>2. QED
    BY <1>5, <2>1, SameDevices DEF StartFails, ActorInv
<1>6. CASE KvmOff
  <2>0. /\ UNCHANGED <<capActive, capGrabbed, rxOpen, capq, dev, devGrab>>
        /\ UNCHANGED <<heard, kvm, kvmNew>>
        /\ stopSig' \in BOOLEAN
        /\ \/ pc' = "stopOff"
           \/ pc' = "select" /\ ~capActive
    BY <1>6, <1>t DEF KvmOff, BeginStop, InputTypeOK
  <2>1. InputTypeOK'
    BY <1>t, <1>l, <2>0 DEF InputTypeOK
  <2>2. OffOrStopping'
    BY <2>0 DEF OffOrStopping, Stopping
  <2>3. QED
    BY <2>0, <2>1, <2>2, SameDevices DEF ActorInv
<1>7. CASE SeeFocus \/ ReadFocus
  <2>0. /\ UNCHANGED <<captureVars, kvm, kvmNew>>
        /\ pc \in {"select", "focus"} /\ pc' \in {"focus", "focusKvm"}
        /\ heard' \in Peer
    BY <1>7, <1>t DEF SeeFocus, ReadFocus, InputTypeOK
  <2>1. InputTypeOK'
    BY <1>t, <1>l, <2>0 DEF InputTypeOK
  <2>2. OffOrStopping'
    BY <1>t, <2>0 DEF OffOrStopping, Stopping
  <2>3. QED
    BY <2>0, <2>1, <2>2, SameDevices DEF ActorInv
<1>8. CASE FollowFocus
  <2>0. /\ UNCHANGED <<capActive, capGrabbed, rxOpen, capq, dev, devGrab>>
        /\ UNCHANGED <<kvm, kvmNew>> /\ heard' = Local
        /\ stopSig' \in BOOLEAN
        /\ pc = "focusKvm" /\ pc' \in {"stopGrab", "stopUngrab", "select"}
    BY <1>8, <1>t DEF FollowFocus, BeginStop, InputTypeOK
  <2>1. InputTypeOK'
    BY <1>t, <1>l, <2>0 DEF InputTypeOK
  <2>2. OffOrStopping'
    BY <1>t, <2>0 DEF OffOrStopping, Stopping
  <2>3. QED
    BY <2>0, <2>1, <2>2, SameDevices DEF ActorInv
<1>9. CASE StopDone
  <2>0. /\ AllOff /\ capActive' = FALSE /\ capGrabbed' \in BOOLEAN
        /\ rxOpen' \in BOOLEAN /\ stopSig' = FALSE
        /\ UNCHANGED <<heard, dev, devGrab>>
        /\ pc' \in {"stopped", "select"}
    BY <1>9, <1>t DEF StopDone, InputTypeOK
  <2>1. capq' \in 0 .. CaptureCap
    BY <1>9, <1>t, Constants DEF StopDone, InputTypeOK
  <2>2. InputTypeOK'
    BY <1>t, <1>l, <2>0, <2>1 DEF InputTypeOK
  <2>3. OffOrStopping'
    BY <2>0 DEF OffOrStopping
  <2>4. \A d \in Devices : devGrab[d] = FALSE
    BY <1>t, <2>0 DEF ActorInv, HeldIsOpen, AllOff, InputTypeOK
  <2>5. InactiveReleases' /\ HeldImpliesGrabbed' /\ HeldIsOpen'
    BY <2>0, <2>4 DEF InactiveReleases, AllOff, HeldImpliesGrabbed, HeldIsOpen
  <2>6. QED
    BY <2>2, <2>3, <2>5 DEF ActorInv
<1>10. CASE InputShutdown
  <2>0. /\ UNCHANGED <<capActive, capGrabbed, heard, dev, devGrab, kvm, kvmNew>>
        /\ stopSig' \in BOOLEAN /\ rxOpen' \in BOOLEAN
        /\ \/ pc' = "stopExit"
           \/ pc' = "stopped" /\ ~capActive
    BY <1>10, <1>t
    DEF InputShutdown, BeginStop, DropChannels, InputTypeOK
  <2>1. capq' \in 0 .. CaptureCap
    <3>1. capq' = capq \/ capq' = 0
      BY <1>10 DEF InputShutdown, BeginStop
    <3>2. capq \in 0 .. CaptureCap
      BY <1>t DEF InputTypeOK
    <3>3. QED
      BY <3>1, <3>2, Constants
  <2>2. InputTypeOK'
    BY <1>t, <1>l, <2>0, <2>1 DEF InputTypeOK
  <2>3. OffOrStopping'
    BY <2>0 DEF OffOrStopping, Stopping
  <2>4. QED
    BY <2>0, <2>2, <2>3, SameDevices DEF ActorInv
<1>11. QED
  BY <1>1, <1>2, <1>3, <1>4, <1>5, <1>6, <1>7, <1>8, <1>9, <1>10 DEF ActorStep

(* An aborted actor leaves the device tasks as they are. *)
LEMMA AbortKeepsActorInv ==
  ASSUME ActorInv, InputAborted
  PROVE  ActorInv'
<1>t. InputTypeOK /\ OffOrStopping
  BY DEF ActorInv
<1>0. /\ UNCHANGED <<heard, capActive, capGrabbed, stopSig, dev, devGrab>>
      /\ pc' = "aborted" /\ rxOpen' = FALSE /\ capq' = 0
  BY DEF InputAborted
<1>1. capq' \in 0 .. CaptureCap
  BY <1>0, Constants
<1>2. InputTypeOK'
  BY <1>t, <1>0, <1>1 DEF InputTypeOK, Locations
<1>3. OffOrStopping'
  BY <1>0 DEF OffOrStopping
<1>4. QED
  BY <1>0, <1>2, <1>3, SameDevices DEF ActorInv

(* A step of one device task: the task is running, so the capture is       *)
(* active; it takes its device only if the grabbed flag is set.            *)
LEMMA DeviceKeepsActorInv ==
  ASSUME ActorInv, NEW d \in Devices, DeviceStep(d) \/ DeviceInput(d)
  PROVE  ActorInv'
<1> USE DEF UnchangedByDevice, channelVars
<1>t. InputTypeOK /\ OffOrStopping /\ HeldImpliesGrabbed /\ HeldIsOpen
  BY DEF ActorInv
<1>0. /\ UNCHANGED <<pc, heard, capActive, capGrabbed, stopSig, rxOpen, kvm, kvmNew>>
      /\ dev[d] \in {"open", "read", "send"}
  BY DEF DeviceStep, DeviceInput, DevOpen, DevStop, DevFail, DevEvent, DevSend,
         DevSendFails, DevEnd
<1>1. capActive
  BY <1>0 DEF ActorInv, InactiveReleases, AllOff
<1>2. capq' \in 0 .. CaptureCap
  <2>1. capq' = capq \/ (capq < CaptureCap /\ capq' = capq + 1)
    BY DEF DeviceStep, DeviceInput, DevOpen, DevStop, DevFail, DevEvent,
           DevSend, DevSendFails, DevEnd
  <2>2. capq \in 0 .. CaptureCap
    BY <1>t DEF InputTypeOK
  <2>3. QED
    BY <2>1, <2>2, Constants
<1>3. \E state \in DevStates, held \in BOOLEAN :
        /\ dev' = [dev EXCEPT ![d] = state]
        /\ devGrab' = [devGrab EXCEPT ![d] = held]
        /\ held => capGrabbed /\ state \in {"read", "send"}
  <2> SUFFICES \E state \in DevStates, held \in BOOLEAN :
                 /\ SetDev(d, state)
                 /\ devGrab' = [devGrab EXCEPT ![d] = held]
                 /\ held => capGrabbed /\ state \in {"read", "send"}
    BY DEF SetDev
  <2>g. /\ devGrab[d] \in BOOLEAN /\ capGrabbed \in BOOLEAN
        /\ devGrab = [devGrab EXCEPT ![d] = devGrab[d]]
        /\ devGrab[d] => capGrabbed
    BY <1>t DEF InputTypeOK, HeldImpliesGrabbed
  <2>s. {"off", "read", "send"} \subseteq DevStates
    BY DEF DevStates
  <2>1. CASE DevOpen(d)
    <3>1. CASE SetDev(d, "off") /\ UNCHANGED devGrab
      <4>1. devGrab[d] = FALSE
        BY <1>t, <2>1, <2>g DEF DevOpen, HeldIsOpen
      <4>2. QED
        BY <2>g, <2>s, <3>1, <4>1
    <3>2. ASSUME SetDev(d, "read"), NEW held \in {FALSE, capGrabbed},
                 devGrab' = [devGrab EXCEPT ![d] = held]
          PROVE  \E state \in DevStates, h \in BOOLEAN :
                   /\ SetDev(d, state)
                   /\ devGrab' = [devGrab EXCEPT ![d] = h]
                   /\ h => capGrabbed /\ state \in {"read", "send"}
      <4>0. held = FALSE \/ held = capGrabbed
        BY <3>2
      <4>1. held \in BOOLEAN /\ (held => capGrabbed)
        <5>1. capGrabbed \in BOOLEAN
          BY <2>g
        <5>2. CASE held = FALSE
          BY <5>2
        <5>3. CASE held = capGrabbed
          BY <5>1, <5>3
        <5>4. QED
          BY <4>0, <5>2, <5>3
      <4>2. QED
        BY <2>s, <3>2, <4>1
    <3>3. QED
      BY <2>1, <3>1, <3>2 DEF DevOpen
  <2>2. CASE DevEnd(d)
    BY <2>s, <2>2 DEF DevEnd
  <2>3. CASE /\ SetDev(d, "read") \/ SetDev(d, "send")
             /\ UNCHANGED devGrab
    BY <2>g, <2>s, <2>3
  <2>4. QED
    BY <2>1, <2>2, <2>3
    DEF DeviceStep, DeviceInput, DevStop, DevFail, DevEvent, DevSend,
        DevSendFails
<1>4. PICK state \in DevStates, held \in BOOLEAN :
        /\ dev' = [dev EXCEPT ![d] = state]
        /\ devGrab' = [devGrab EXCEPT ![d] = held]
        /\ held => capGrabbed /\ state \in {"read", "send"}
  BY <1>3
<1>5. InputTypeOK'
  BY <1>t, <1>0, <1>2, <1>4 DEF InputTypeOK
<1>6. OffOrStopping'
  BY <1>t, <1>0 DEF OffOrStopping
<1>7. InactiveReleases'
  BY <1>0, <1>1 DEF InactiveReleases
<1>8. HeldImpliesGrabbed' /\ HeldIsOpen'
  <2> SUFFICES ASSUME NEW x \in Devices, devGrab'[x]
               PROVE  capActive' /\ capGrabbed' /\ dev'[x] \in {"read", "send"}
    BY DEF HeldImpliesGrabbed, HeldIsOpen
  <2>1. CASE x = d
    BY <1>t, <1>0, <1>1, <1>4, <2>1 DEF InputTypeOK
  <2>2. CASE x # d
    <3>1. devGrab'[x] = devGrab[x] /\ dev'[x] = dev[x]
      BY <1>t, <1>4, <2>2 DEF InputTypeOK
    <3>2. QED
      BY <1>t, <1>0, <3>1 DEF HeldImpliesGrabbed, HeldIsOpen
  <2>3. QED
    BY <2>1, <2>2
<1>9. QED
  BY <1>5, <1>6, <1>7, <1>8 DEF ActorInv

-----------------------------------------------------------------------------
(* The whole invariant. *)
OutInv ==
  /\ netOut \in {<<>>} \cup {<<e>> : e \in NetEvents}
  /\ netAt \in {"start", "loop", "peers"}
  /\ clipOut \in {<<>>, <<LocalClipboard>>}

LEMMA Parts == IInv <=> QueueInv /\ ActorInv /\ OutInv
  BY DEF IInv, QueueInv, ActorInv, OutInv, TypeOK

(* A source outside the actors appends an event to the queue. *)
LEMMA SourceKeepsInv ==
  ASSUME QueueInv, ActorInv, NEW e \in Event, e.kind # "FocusChanged",
         SendEvent(e), UNCHANGED <<otherChannels, coordVars, inputVars>>
  PROVE  QueueInv' /\ ActorInv'
<1>1. QueueInv'
  BY ProducerKeepsQueueInv
<1>2. UNCHANGED inputVars /\ UNCHANGED <<kvm, kvmNew>>
  BY DEF otherChannels
<1>3. ActorInv'
  BY <1>2, OutsideKeepsActorInv
<1>4. QED
  BY <1>1, <1>3

LEMMA CoordinatorKeepsInv ==
  ASSUME QueueInv, ActorInv, OutInv, CoordinatorStep
  PROVE  QueueInv' /\ ActorInv' /\ OutInv'
<1>1. QueueInv'
  <2>1. CASE CoordinatorShutdown
    <3>1. ChannelsTypeOK' /\ FocusFollowsCommand' /\ SendsLeft'
      BY <2>1 DEF CoordinatorShutdown, channelVars, QueueInv, ChannelsTypeOK,
                  FocusFollowsCommand, NoChangeAfter, SendsLeft
    <3>2. CoordinatorTypeOK'
      BY <2>1 DEF CoordinatorShutdown, QueueInv, CoordinatorTypeOK
    <3>3. QED
      BY <3>1, <3>2 DEF QueueInv
  <2>2. QED
    BY <2>1, HandleKeepsQueueInv, SendKeepsQueueInv
    DEF CoordinatorStep, CoordinatorNext
<1>2. UNCHANGED <<kvm, kvmNew>> \/ kvmNew' = TRUE
  BY DEF CoordinatorStep, CoordinatorNext, CoordinatorHandle, CoordinatorSend,
         CoordinatorShutdown, channelVars, HandlePeerConnected,
         HandlePeerDisconnected, HandleFocusChanged, HandleKvmToggled, SendKvm,
         HandleIncomingInput, HandleOutgoingInput, HandleScreenEnter,
         HandleScreenLeave, Command, HandleClipboard, HandleIgnored,
         SendInject, SendNetwork, SendClipboard, SendSelf, SendDone
<1>3. ActorInv' /\ OutInv'
  <2>1. UNCHANGED inputVars /\ UNCHANGED <<netOut, netAt, clipOut>>
    BY DEF CoordinatorStep, outVars
  <2>2. QED
    BY <1>2, <2>1, OutsideKeepsActorInv DEF OutInv
<1>4. QED
  BY <1>1, <1>3

LEMMA PeripheralsKeepInv ==
  ASSUME QueueInv, ActorInv, OutInv, PeripheralStep
  PROVE  QueueInv' /\ ActorInv' /\ OutInv'
<1>1. CASE NetworkForward
  <2>1. PICK e \in NetEvents : netOut = <<e>>
    BY <1>1 DEF NetworkForward, OutInv
  <2>2. e \in Event /\ e.kind # "FocusChanged"
    BY Constants
  <2>3. SendEvent(e) /\ UNCHANGED <<otherChannels, coordVars, inputVars>>
    BY <1>1, <2>1 DEF NetworkForward, otherChannels
  <2>4. OutInv'
    BY <1>1 DEF NetworkForward, OutInv
  <2>5. QED
    BY <2>2, <2>3, <2>4, SourceKeepsInv
<1>2. CASE ClipboardForward
  <2> DEFINE e == LocalClipboard
  <2>1. clipOut = <<e>>
    BY <1>2 DEF ClipboardForward, OutInv
  <2>2. e \in Event /\ e.kind # "FocusChanged"
    BY DEF LocalClipboard, Event, Peer
  <2>3. SendEvent(e) /\ UNCHANGED <<otherChannels, coordVars, inputVars>>
    BY <1>2, <2>1 DEF ClipboardForward, otherChannels
  <2>4. OutInv'
    BY <1>2 DEF ClipboardForward, OutInv
  <2> HIDE DEF e
  <2>5. QED
    BY <2>2, <2>3, <2>4, SourceKeepsInv
<1>3. CASE NetworkCommand \/ ClipboardApply
  <2>0. /\ UNCHANGED <<events, injectq, open, focus, focusNew, kvm, kvmNew,
                       cancelled, coordVars, inputVars, netOut, clipOut>>
        /\ netq' \in 0 .. NetCap /\ clipq' \in 0 .. ClipCap
    <3>1. netq \in 0 .. NetCap /\ clipq \in 0 .. ClipCap
      BY DEF QueueInv, ChannelsTypeOK
    <3>2. QED
      BY <1>3, <3>1, Constants DEF NetworkCommand, ClipboardApply, outVars
  <2>1. ChannelsTypeOK'
    BY <2>0 DEF QueueInv, ChannelsTypeOK
  <2>2. QueueInv'
    BY <2>0, <2>1, OtherStepsKeepQueueInv
  <2>3. OutInv'
    BY <1>3 DEF NetworkCommand, ClipboardApply, outVars, OutInv
  <2>4. QED
    BY <2>0, <2>2, <2>3, OutsideKeepsActorInv
<1>4. QED
  BY <1>1, <1>2, <1>3 DEF PeripheralStep

LEMMA SurroundingsKeepInv ==
  ASSUME QueueInv, ActorInv, OutInv,
         \/ IpcSendEvent \/ IpcSendCommand \/ NetworkEvent
         \/ NetworkWork \/ NetworkReturns \/ ClipboardEvent \/ Cancel
  PROVE  QueueInv' /\ ActorInv' /\ OutInv'
<1>1. CASE IpcSendEvent
  <2>1. PICK e \in Event : e.kind # "FocusChanged" /\ SendEvent(e)
    BY <1>1 DEF IpcSendEvent, Event
  <2>2. UNCHANGED <<otherChannels, coordVars, inputVars>>
    BY <1>1 DEF IpcSendEvent, otherChannels
  <2>3. OutInv'
    BY <1>1 DEF IpcSendEvent, outVars, OutInv
  <2>4. QED
    BY <2>1, <2>2, <2>3, SourceKeepsInv
<1>2. CASE IpcSendCommand
  <2>0. /\ UNCHANGED <<events, injectq, open, clipq, focus, focusNew, kvm, kvmNew,
                       cancelled, coordVars, inputVars, netOut, netAt, clipOut>>
        /\ netq' \in 0 .. NetCap
    <3>1. netq \in 0 .. NetCap
      BY DEF QueueInv, ChannelsTypeOK
    <3>2. QED
      BY <1>2, <3>1, Constants DEF IpcSendCommand, outVars
  <2>1. ChannelsTypeOK'
    BY <2>0 DEF QueueInv, ChannelsTypeOK
  <2>2. QueueInv'
    BY <2>0, <2>1, OtherStepsKeepQueueInv
  <2>3. QED
    BY <2>0, <2>2, OutsideKeepsActorInv DEF OutInv
<1>3. CASE NetworkEvent \/ NetworkWork \/ NetworkReturns \/ ClipboardEvent
  <2>0. UNCHANGED <<channelVars, coordVars, inputVars>> /\ OutInv'
    BY <1>3 DEF NetworkEvent, NetworkWork, NetworkReturns, ClipboardEvent, OutInv
  <2>1. UNCHANGED <<events, focus, kvm, kvmNew>> /\ ChannelsTypeOK'
    BY <2>0 DEF channelVars, QueueInv, ChannelsTypeOK
  <2>2. QED
    BY <2>0, <2>1, OtherStepsKeepQueueInv, OutsideKeepsActorInv
<1>4. CASE Cancel
  <2>0. UNCHANGED <<events, focus, kvm, kvmNew, coordVars, inputVars, netOut, netAt, clipOut>>
    BY <1>4 DEF Cancel, outVars
  <2>1. ChannelsTypeOK'
    BY <1>4 DEF Cancel, QueueInv, ChannelsTypeOK
  <2>2. QED
    BY <2>0, <2>1, OtherStepsKeepQueueInv, OutsideKeepsActorInv DEF OutInv
<1>5. QED
  BY <1>1, <1>2, <1>3, <1>4

(* The network or the clipboard actor ends and drops its receiver. *)
LEMMA EndsKeepInv ==
  ASSUME QueueInv, ActorInv, OutInv, NetworkEnds \/ ClipboardEnds
  PROVE  QueueInv' /\ ActorInv' /\ OutInv'
<1>1. /\ UNCHANGED <<events, injectq, focus, focusNew, kvm, kvmNew, cancelled,
                     coordVars, inputVars>>
      /\ netq' = netq \/ netq' = 0
      /\ clipq' = clipq \/ clipq' = 0
      /\ open' \subseteq open
      /\ netOut' = netOut \/ netOut' = <<>>
      /\ clipOut' = clipOut \/ clipOut' = <<>>
  BY DEF NetworkEnds, ClipboardEnds
<1>2. netq' \in 0 .. NetCap /\ clipq' \in 0 .. ClipCap
  BY <1>1, Constants DEF QueueInv, ChannelsTypeOK
<1>3. ChannelsTypeOK'
  BY <1>1, <1>2 DEF QueueInv, ChannelsTypeOK
<1>4. OutInv'
  BY DEF OutInv, NetworkEnds, ClipboardEnds
<1>5. QED
  BY <1>1, <1>3, <1>4, OtherStepsKeepQueueInv, OutsideKeepsActorInv

(* A step of the input actor's task or of a device task. *)
LEMMA InputKeepsInv ==
  ASSUME QueueInv, ActorInv, OutInv,
         InputStep \/ InputAbort \/ CaptureStep \/ CaptureInput
  PROVE  QueueInv' /\ ActorInv' /\ OutInv'
<1>0. UNCHANGED coordVars /\ OutInv' /\ ChannelsTypeOK
  BY DEF InputStep, InputAbort, CaptureStep, CaptureInput, outVars, OutInv,
         QueueInv
<1>1. CASE InputStep \/ InputAbort
  BY <1>0, <1>1, ActorKeepsQueueInv, ActorKeepsActorInv, AbortKeepsActorInv
  DEF InputStep, InputAbort
<1>2. CASE CaptureStep \/ CaptureInput
  <2>1. PICK d \in Devices : DeviceStep(d) \/ DeviceInput(d)
    BY <1>2 DEF CaptureStep, CaptureInput
  <2>2. ActorInv'
    BY <2>1, DeviceKeepsActorInv
  <2>3. UNCHANGED channelVars
    BY <2>1 DEF DeviceStep, DeviceInput, DevOpen, DevStop, DevFail, DevEvent,
                DevSend, DevSendFails, DevEnd, UnchangedByDevice
  <2>4. UNCHANGED <<events, focus>> /\ ChannelsTypeOK'
    BY <1>0, <2>3 DEF channelVars, ChannelsTypeOK
  <2>5. QED
    BY <1>0, <2>2, <2>4, OtherStepsKeepQueueInv
<1>3. QED
  BY <1>1, <1>2

LEMMA NextInv == IInv /\ [Next]_vars => IInv'
<1> SUFFICES ASSUME IInv, [Next]_vars PROVE IInv'
  OBVIOUS
<1>0. QueueInv /\ ActorInv /\ OutInv
  BY Parts
<1>1. ASSUME Next PROVE QueueInv' /\ ActorInv' /\ OutInv'
  BY <1>0, <1>1, CoordinatorKeepsInv, PeripheralsKeepInv, SurroundingsKeepInv,
     InputKeepsInv, EndsKeepInv
  DEF Next, Internal, External
<1>2. ASSUME UNCHANGED vars PROVE QueueInv' /\ ActorInv' /\ OutInv'
  <2>0. UNCHANGED <<channelVars, coordVars, inputVars, netOut, netAt, clipOut>>
    BY <1>2 DEF vars, outVars
  <2>1. UNCHANGED <<events, focus, kvm, kvmNew>> /\ ChannelsTypeOK'
    BY <1>0, <2>0 DEF channelVars, QueueInv, ChannelsTypeOK
  <2>2. QED
    BY <1>0, <2>0, <2>1, OtherStepsKeepQueueInv, OutsideKeepsActorInv DEF OutInv
<1>3. QueueInv' /\ ActorInv' /\ OutInv'
  BY <1>1, <1>2
<1>4. QED
  BY <1>3 DEF IInv, QueueInv, ActorInv, OutInv, TypeOK

(* The inductive invariant holds in every reachable state of the daemon. *)
THEOREM Invariant == Spec => []IInv
  BY InitInv, NextInv, PTL DEF Spec

(* Every variable of the daemon keeps its type, the queues their capacity. *)
THEOREM TypeCorrect == Spec => []TypeOK
<1>1. IInv => TypeOK
  BY DEF IInv
<1>2. QED
  BY <1>1, Invariant, PTL

(* The focus ends up where the last ScreenEnter or ScreenLeave put it,     *)
(* however the coordinator's self-sent FocusChanged events interleave with *)
(* later commands in its queue.                                            *)
THEOREM FocusCorrect == Spec => []FocusFollowsCommand
<1>1. IInv => FocusFollowsCommand
  BY DEF IInv
<1>2. QED
  BY <1>1, Invariant, PTL

(* A capture that has ended left no device task and no grab behind. *)
THEOREM CaptureReleases == Spec => []InactiveReleases
<1>1. IInv => InactiveReleases
  BY DEF IInv
<1>2. QED
  BY <1>1, Invariant, PTL

(* No device is held but by a capture started to hold it. *)
THEOREM GrabJustified == Spec => []HeldImpliesGrabbed
<1>1. IInv => HeldImpliesGrabbed
  BY DEF IInv
<1>2. QED
  BY <1>1, Invariant, PTL

(* Once KVM is off and the input actor has seen it, or the actor has ended *)
(* by itself, no capture is left.                                          *)
THEOREM KvmOffReleases == Spec => []StoppedReleases
<1>1. IInv => StoppedReleases
  BY DEF IInv, OffOrStopping, StoppedReleases, Stopping
<1>2. QED
  BY <1>1, Invariant, PTL

-----------------------------------------------------------------------------
(***************************************************************************)
(* The states in which the coordinator waits for ever: once it waits for   *)
(* an actor that waits for it, no step of the daemon or its surroundings   *)
(* ends the wait.                                                          *)
(***************************************************************************)

LEMMA InitWInv == Init => WInv
<1> SUFFICES ASSUME Init PROVE WInv
  OBVIOUS
<1>1. SenderRuns /\ ClosedIsEmpty /\ CaptureHasReader
  BY DEF Init, ChannelsInit, CoordinatorInit, InputInit, SenderRuns,
         ClosedIsEmpty, CaptureHasReader
<1>2. QED
  BY <1>1, InitInv DEF WInv

(* The steps of the surroundings and the other actors, and stuttering. *)
OtherStep ==
  \/ PeripheralStep \/ IpcSendEvent \/ IpcSendCommand \/ NetworkEvent
  \/ NetworkWork \/ NetworkReturns \/ ClipboardEvent \/ NetworkEnds \/ ClipboardEnds \/ Cancel
  \/ UNCHANGED vars

LEMMA StepKinds ==
  ASSUME [Next]_vars
  PROVE  \/ CoordinatorStep
         \/ InputStep \/ InputAbort \/ CaptureStep \/ CaptureInput
         \/ OtherStep
  BY DEF Next, Internal, External, OtherStep

LEMMA OtherSteps ==
  ASSUME OtherStep
  PROVE  UNCHANGED <<injectq, coordVars, inputVars>>
  BY DEF OtherStep, PeripheralStep, NetworkForward, NetworkCommand,
         ClipboardForward, ClipboardApply, IpcSendEvent, IpcSendCommand,
         NetworkEvent, NetworkWork, NetworkReturns, ClipboardEvent, NetworkEnds, ClipboardEnds, Cancel,
         vars, channelVars

LEMMA SenderStillRuns ==
  ASSUME WInv, [Next]_vars
  PROVE  SenderRuns'
<1>1. CASE CoordinatorStep
  <2>1. CASE CoordinatorHandle
    BY <2>1 DEF CoordinatorHandle, HandlePeerConnected, HandlePeerDisconnected,
         HandleFocusChanged, HandleKvmToggled, HandleIncomingInput,
         HandleOutgoingInput, HandleScreenEnter, HandleScreenLeave, Command,
         HandleClipboard, HandleIgnored, Receive, SenderRuns
  <2>2. CASE CoordinatorSend
    <3>1. awaiting # "none" /\ UNCHANGED running
      BY <2>2 DEF CoordinatorSend, SendInject, SendNetwork, SendClipboard,
           SendSelf, SendDone
    <3>2. QED
      BY <3>1 DEF WInv, SenderRuns
  <2>3. CASE CoordinatorShutdown
    BY <2>3 DEF CoordinatorShutdown, SenderRuns
  <2>4. QED
    BY <1>1, <2>1, <2>2, <2>3 DEF CoordinatorStep, CoordinatorNext
<1>2. CASE UNCHANGED coordVars
  BY <1>2 DEF coordVars, WInv, SenderRuns
<1>3. QED
  BY <1>1, <1>2, StepKinds, OtherSteps
  DEF InputStep, InputAbort, CaptureStep, CaptureInput

(* A queue is filled only while its receiver exists, and emptied with it.  *)
LEMMA ClosedStaysEmpty ==
  ASSUME WInv, [Next]_vars
  PROVE  ClosedIsEmpty'
<1> USE DEF channelVars, outVars
<1>0. ClosedIsEmpty
  BY DEF WInv
<1>1. "inject" \in open' \/ injectq' = 0 \/ ("inject" \notin open /\ injectq' = injectq)
  <2>1. CASE CoordinatorStep
    BY <2>1
    DEF CoordinatorStep, CoordinatorNext, CoordinatorHandle, CoordinatorSend,
        CoordinatorShutdown, HandlePeerConnected, HandlePeerDisconnected,
        HandleFocusChanged, HandleKvmToggled, HandleIncomingInput,
        HandleOutgoingInput, HandleScreenEnter, HandleScreenLeave, Command,
        HandleClipboard, HandleIgnored, SendInject, SendNetwork,
        SendClipboard, SendSelf
  <2>2. CASE InjectInput
    <3>1. injectq # 0 /\ UNCHANGED open
      BY <2>2 DEF InjectInput
    <3>2. QED
      BY <1>0, <3>1 DEF ClosedIsEmpty
  <2>3. CASE (InputStep /\ ~InjectInput) \/ InputAbort
    BY <2>3
    DEF InputStep, InputAbort, InputAborted, ActorStep, TakeCaptured,
        DecideForward, ForwardInput, SeeKvm, StartCapture, StartFails, KvmOff,
        SeeFocus, ReadFocus, FollowFocus, StopDone, InputShutdown, DropChannels
  <2>4. CASE CaptureStep \/ CaptureInput
    BY <2>4
    DEF CaptureStep, CaptureInput, DeviceStep, DeviceInput, DevOpen, DevStop,
        DevFail, DevEvent, DevSend, DevSendFails, DevEnd, UnchangedByDevice
  <2>5. CASE OtherStep
    BY <2>5
    DEF OtherStep, PeripheralStep, NetworkForward, NetworkCommand,
        ClipboardForward, ClipboardApply, IpcSendEvent, IpcSendCommand,
        NetworkEvent, NetworkWork, NetworkReturns, ClipboardEvent, NetworkEnds, ClipboardEnds, Cancel, vars
  <2>6. QED
    BY <2>1, <2>2, <2>3, <2>4, <2>5, StepKinds
<1>2. /\ "net" \in open' \/ netq' = 0 \/ ("net" \notin open /\ netq' = netq)
      /\ "clip" \in open' \/ clipq' = 0 \/ ("clip" \notin open /\ clipq' = clipq)
  <2>1. CASE CoordinatorStep
    BY <2>1
    DEF CoordinatorStep, CoordinatorNext, CoordinatorHandle, CoordinatorSend,
        CoordinatorShutdown, HandlePeerConnected, HandlePeerDisconnected,
        HandleFocusChanged, HandleKvmToggled, HandleIncomingInput,
        HandleOutgoingInput, HandleScreenEnter, HandleScreenLeave, Command,
        HandleClipboard, HandleIgnored, SendInject, SendNetwork,
        SendClipboard, SendSelf
  <2>2. CASE NetworkCommand \/ ClipboardApply
    <3>1. /\ netq' = netq \/ netq # 0
          /\ clipq' = clipq \/ clipq # 0
          /\ UNCHANGED open
      BY <2>2 DEF NetworkCommand, ClipboardApply
    <3>2. QED
      BY <1>0, <3>1 DEF ClosedIsEmpty
  <2>3. CASE InputStep \/ InputAbort
    BY <2>3
    DEF InputStep, InputAbort, InputAborted, ActorStep, TakeCaptured,
        DecideForward, ForwardInput, InjectInput, SeeKvm, StartCapture,
        StartFails, KvmOff, SeeFocus, ReadFocus, FollowFocus, StopDone,
        InputShutdown, DropChannels
  <2>4. CASE CaptureStep \/ CaptureInput
    BY <2>4
    DEF CaptureStep, CaptureInput, DeviceStep, DeviceInput, DevOpen, DevStop,
        DevFail, DevEvent, DevSend, DevSendFails, DevEnd, UnchangedByDevice
  <2>5. CASE OtherStep /\ ~NetworkCommand /\ ~ClipboardApply
    BY <2>5
    DEF OtherStep, PeripheralStep, NetworkForward, ClipboardForward,
        IpcSendEvent, IpcSendCommand, NetworkEvent, NetworkWork, NetworkReturns, ClipboardEvent,
        NetworkEnds, ClipboardEnds, Cancel, vars
  <2>6. QED
    BY <2>1, <2>2, <2>3, <2>4, <2>5, StepKinds
<1>3. QED
  BY <1>0, <1>1, <1>2 DEF ClosedIsEmpty

LEMMA CaptureStillRead ==
  ASSUME WInv, [Next]_vars
  PROVE  CaptureHasReader'
<1> USE DEF captureVars
<1>1. CASE InputStep
  <2>1. \/ UNCHANGED <<capActive, rxOpen>> /\ pc # "aborted"
        \/ capActive' = FALSE
        \/ rxOpen' = TRUE
    BY <1>1
    DEF InputStep, ActorStep, TakeCaptured, DecideForward, ForwardInput,
        InjectInput, SeeKvm, StartCapture, StartFails, KvmOff, BeginStop,
        SeeFocus, ReadFocus, FollowFocus, StopDone, InputShutdown, Stopping
  <2>2. QED
    BY <2>1 DEF WInv, CaptureHasReader
<1>2. CASE InputAbort
  BY <1>2 DEF InputAbort, InputAborted, CaptureHasReader
<1>3. CASE UNCHANGED <<pc, capActive, rxOpen>>
  BY <1>3 DEF WInv, CaptureHasReader
<1>4. CASE CaptureStep \/ CaptureInput
  BY <1>3, <1>4
  DEF CaptureStep, CaptureInput, DeviceStep, DeviceInput, DevOpen, DevStop,
      DevFail, DevEvent, DevSend, DevSendFails, DevEnd, UnchangedByDevice
<1>5. QED
  BY <1>1, <1>2, <1>3, <1>4, StepKinds, OtherSteps
  DEF CoordinatorStep, inputVars

LEMMA NextWInv == WInv /\ [Next]_vars => WInv'
<1> SUFFICES ASSUME WInv, [Next]_vars PROVE WInv'
  OBVIOUS
<1>1. IInv'
  BY NextInv DEF WInv
<1>2. SenderRuns' /\ ClosedIsEmpty' /\ CaptureHasReader'
  BY SenderStillRuns, ClosedStaysEmpty, CaptureStillRead
<1>3. QED
  BY <1>1, <1>2 DEF WInv

-----------------------------------------------------------------------------
(* A wedged capture: the actor waits in stop() for a device task that      *)
(* waits for room in the channel the actor is not reading.                 *)
LEMMA CaptureStaysWedged ==
  ASSUME WInv, running, CaptureWedged, [Next]_vars
  PROVE  CaptureWedged'
<1> USE DEF channelVars, captureVars
<1>1. PICK d \in Devices : dev[d] = "send"
  BY DEF CaptureWedged
<1>2. pc \in Stopping /\ capq = CaptureCap /\ ~AllOff
  BY <1>1 DEF CaptureWedged, AllOff
<1>3. rxOpen
  <2>1. capActive
    BY <1>2 DEF WInv, IInv, InactiveReleases
  <2>2. QED
    BY <1>2, <2>1 DEF WInv, CaptureHasReader, Stopping
<1>4. ~InputStep /\ ~InputAbort
  BY <1>2
  DEF InputStep, ActorStep, TakeCaptured, DecideForward, ForwardInput,
      InjectInput, SeeKvm, StartCapture, StartFails, KvmOff, SeeFocus,
      ReadFocus, FollowFocus, StopDone, InputShutdown, InputAbort, Stopping
<1>5. CASE UNCHANGED inputVars
  BY <1>5 DEF inputVars, CaptureWedged
<1>6. CASE CaptureStep \/ CaptureInput
  <2>1. PICK x \in Devices : DeviceStep(x) \/ DeviceInput(x)
    BY <1>6 DEF CaptureStep, CaptureInput
  <2>2. ~DevSend(x)
    <3>1. CaptureCap \in Nat
      BY Constants
    <3>2. QED
      BY <1>2, <3>1 DEF DevSend
  <2>3. ~DevSendFails(x)
    BY <1>3 DEF DevSendFails
  <2>4. x # d /\ UNCHANGED <<pc, capq>>
    BY <1>1, <2>1, <2>2, <2>3
    DEF DeviceStep, DeviceInput, DevOpen, DevStop, DevFail, DevEvent, DevEnd,
        UnchangedByDevice
  <2>5. \E state : dev' = [dev EXCEPT ![x] = state]
    BY <2>1, <2>2, <2>3
    DEF DeviceStep, DeviceInput, DevOpen, DevStop, DevFail, DevEvent, DevEnd,
        SetDev
  <2>6. dev'[d] = "send"
    BY <1>1, <2>4, <2>5 DEF WInv, IInv, TypeOK, InputTypeOK
  <2>7. QED
    BY <1>2, <2>4, <2>6 DEF CaptureWedged
<1>7. QED
  BY <1>4, <1>5, <1>6, StepKinds, OtherSteps DEF CoordinatorStep

(* While the coordinator awaits room, nobody takes from its queue, so a    *)
(* full one stays full.                                                    *)
LEMMA FullStaysFull ==
  ASSUME WInv, awaiting # "none", EventsFull, [Next]_vars
  PROVE  UNCHANGED events
<1>1. \A e : ~SendEvent(e)
  BY Constants DEF EventsFull, SendEvent
<1>2. CASE CoordinatorStep
  BY <1>1, <1>2
  DEF CoordinatorStep, CoordinatorNext, CoordinatorHandle, CoordinatorSend,
      CoordinatorShutdown, channelVars, HandlePeerConnected,
      HandlePeerDisconnected, HandleFocusChanged, HandleKvmToggled,
      HandleIncomingInput, HandleOutgoingInput, HandleScreenEnter,
      HandleScreenLeave, HandleClipboard, HandleIgnored, Receive,
      SendInject, SendNetwork, SendClipboard, SendSelf
<1>3. CASE InputStep \/ InputAbort
  BY <1>1, <1>3
  DEF InputStep, InputAbort, InputAborted, ActorStep, TakeCaptured,
      DecideForward, ForwardInput, InjectInput, SeeKvm, StartCapture,
      StartFails, KvmOff, SeeFocus, ReadFocus, FollowFocus, StopDone,
      InputShutdown, DropChannels, channelVars
<1>4. CASE CaptureStep \/ CaptureInput
  BY <1>4
  DEF CaptureStep, CaptureInput, DeviceStep, DeviceInput, DevOpen, DevStop,
      DevFail, DevEvent, DevSend, DevSendFails, DevEnd, UnchangedByDevice,
      channelVars
<1>5. CASE OtherStep
  BY <1>1, <1>5
  DEF OtherStep, PeripheralStep, NetworkForward, NetworkCommand,
      ClipboardForward, ClipboardApply, IpcSendEvent, IpcSendCommand,
      NetworkEvent, NetworkWork, NetworkReturns, ClipboardEvent, NetworkEnds, ClipboardEnds, Cancel, vars,
      channelVars
<1>6. QED
  BY <1>2, <1>3, <1>4, <1>5, StepKinds

(* A coordinator whose awaited send finds no room takes no step. *)
LEMMA BlockedStays ==
  ASSUME WInv, [Next]_vars,
         \/ awaiting = "event" /\ EventsFull
         \/ awaiting = "inject" /\ injectq = InjectCap
         \/ awaiting = "net" /\ netq = NetCap
         \/ awaiting = "clip" /\ clipq = ClipCap
  PROVE  UNCHANGED coordVars /\ running /\ ~CoordinatorStep /\ awaiting # "none"
<1>0. awaiting # "none"
  OBVIOUS
<1>1. running
  BY <1>0 DEF WInv, SenderRuns
<1>2. ~CoordinatorHandle /\ ~CoordinatorShutdown
  BY <1>0
  DEF CoordinatorHandle, CoordinatorShutdown, HandlePeerConnected,
      HandlePeerDisconnected, HandleFocusChanged, HandleKvmToggled,
      HandleIncomingInput, HandleOutgoingInput, HandleScreenEnter,
      HandleScreenLeave, HandleClipboard, HandleIgnored, Receive
<1>3. ~SendInject /\ ~SendNetwork /\ ~SendClipboard
  <2>0. ClosedIsEmpty
    BY DEF WInv
  <2>1. CASE awaiting = "inject" /\ injectq = InjectCap
    <3>1. injectq # 0 /\ ~(injectq < InjectCap)
      BY <2>1, Constants
    <3>2. "inject" \in open
      BY <2>0, <3>1 DEF ClosedIsEmpty
    <3>3. QED
      BY <2>1, <3>1, <3>2 DEF SendInject, SendNetwork, SendClipboard
  <2>2. CASE awaiting = "net" /\ netq = NetCap
    <3>1. netq # 0 /\ ~(netq < NetCap)
      BY <2>2, Constants
    <3>2. "net" \in open
      BY <2>0, <3>1 DEF ClosedIsEmpty
    <3>3. QED
      BY <2>2, <3>1, <3>2 DEF SendInject, SendNetwork, SendClipboard
  <2>3. CASE awaiting = "clip" /\ clipq = ClipCap
    <3>1. clipq # 0 /\ ~(clipq < ClipCap)
      BY <2>3, Constants
    <3>2. "clip" \in open
      BY <2>0, <3>1 DEF ClosedIsEmpty
    <3>3. QED
      BY <2>3, <3>1, <3>2 DEF SendInject, SendNetwork, SendClipboard
  <2>4. CASE awaiting = "event"
    BY <2>4 DEF SendInject, SendNetwork, SendClipboard
  <2>5. QED
    BY <2>1, <2>2, <2>3, <2>4
<1>4. ~SendSelf
  BY Constants DEF SendSelf, SendEvent, EventsFull
<1>5. ~CoordinatorStep
  BY <1>2, <1>3, <1>4 DEF CoordinatorStep, CoordinatorNext, CoordinatorSend
<1>6. UNCHANGED coordVars
  <2>1. CASE OtherStep
    BY <2>1, OtherSteps
  <2>2. CASE InputStep \/ InputAbort \/ CaptureStep \/ CaptureInput
    BY <2>2 DEF InputStep, InputAbort, CaptureStep, CaptureInput
  <2>3. QED
    BY <1>5, <2>1, <2>2, StepKinds
<1>7. QED
  BY <1>0, <1>1, <1>5, <1>6

(* Waiting for the input actor, which is wedged or waits for the           *)
(* coordinator.                                                            *)
LEMMA InjectStaysWedged ==
  ASSUME WInv, [Next]_vars, awaiting = "inject", injectq = InjectCap,
         CaptureWedged \/ (pc = "forward" /\ EventsFull)
  PROVE  /\ injectq' = InjectCap
         /\ CaptureWedged' \/ (pc = "forward" /\ EventsFull)'
<1>1. running /\ awaiting # "none" /\ ~CoordinatorStep
  BY BlockedStays
<1>2. ~InputStep /\ ~InputAbort
  <2>1. ~InputAbort
    BY <1>1 DEF InputAbort
  <2>2. ~SendEvent([kind |-> "OutgoingInput"]) \/ pc # "forward"
    BY Constants DEF SendEvent, EventsFull, CaptureWedged, Stopping
  <2>3. (pc \in Stopping /\ ~AllOff) \/ pc = "forward"
    BY DEF CaptureWedged, AllOff
  <2>4. ~InputStep
    BY <2>2, <2>3
    DEF InputStep, ActorStep, TakeCaptured, DecideForward, ForwardInput,
        InjectInput, SeeKvm, StartCapture, StartFails, KvmOff, SeeFocus,
        ReadFocus, FollowFocus, StopDone, InputShutdown, Stopping
  <2>5. QED
    BY <2>1, <2>4
<1>3. injectq' = injectq /\ pc' = pc
  <2>1. CASE CaptureStep \/ CaptureInput
    BY <2>1
    DEF CaptureStep, CaptureInput, DeviceStep, DeviceInput, DevOpen, DevStop,
        DevFail, DevEvent, DevSend, DevSendFails, DevEnd, UnchangedByDevice,
        channelVars
  <2>2. CASE OtherStep
    BY <2>2, OtherSteps DEF inputVars
  <2>3. QED
    BY <1>1, <1>2, <2>1, <2>2, StepKinds
<1>4. CASE CaptureWedged
  BY <1>1, <1>3, <1>4, CaptureStaysWedged
<1>5. CASE pc = "forward" /\ EventsFull
  <2>1. UNCHANGED events
    BY <1>1, <1>5, FullStaysFull
  <2>2. QED
    BY <1>3, <1>5, <2>1 DEF EventsFull
<1>6. QED
  BY <1>4, <1>5

(* Waiting for the network or the clipboard actor, which waits for room in *)
(* the coordinator's queue and takes nothing from its own.                 *)
LEMMA OutsStay ==
  ASSUME WInv, [Next]_vars, awaiting # "none", EventsFull, ~CoordinatorStep,
         running
  PROVE  /\ netOut # <<>> /\ netq = NetCap => UNCHANGED <<netOut, netq>>
         /\ clipOut # <<>> /\ clipq = ClipCap => UNCHANGED <<clipOut, clipq>>
<1>1. ~NetworkForward /\ ~ClipboardForward
  BY Constants DEF NetworkForward, ClipboardForward, SendEvent, EventsFull
<1>2. netq = NetCap => ~IpcSendCommand
  BY Constants DEF IpcSendCommand
<1>3. CASE OtherStep
  <2>0. NetworkEnds \/ ClipboardEnds
          => \/ netOut = <<>> /\ UNCHANGED <<clipOut, clipq>>
             \/ clipOut = <<>> /\ UNCHANGED <<netOut, netq>>
    BY DEF NetworkEnds, ClipboardEnds
  <2>1. \/ NetworkEnds \/ ClipboardEnds \/ NetworkCommand \/ ClipboardApply \/ IpcSendCommand
        \/ NetworkEvent \/ ClipboardEvent
        \/ UNCHANGED <<netq, clipq, netOut, clipOut>>
    BY <1>1, <1>3
    DEF OtherStep, PeripheralStep, IpcSendEvent, NetworkWork, NetworkReturns, Cancel, vars, channelVars,
        outVars
  <2>2. CASE NetworkCommand \/ NetworkEvent
    <3>1. netOut = <<>> /\ UNCHANGED <<clipOut, clipq>>
      BY <2>2 DEF NetworkCommand, NetworkEvent, outVars, channelVars
    <3>2. QED
      BY <3>1
  <2>3. CASE ClipboardApply \/ ClipboardEvent
    <3>1. clipOut = <<>> /\ UNCHANGED <<netOut, netq>>
      BY <2>3 DEF ClipboardApply, ClipboardEvent, outVars, channelVars
    <3>2. QED
      BY <3>1
  <2>4. CASE IpcSendCommand
    <3>1. netq # NetCap /\ UNCHANGED <<clipOut, clipq>>
      BY <1>2, <2>4 DEF IpcSendCommand, outVars
    <3>2. QED
      BY <3>1
  <2>5. CASE NetworkEnds \/ ClipboardEnds
    BY <2>0, <2>5
  <2>6. QED
    BY <2>1, <2>2, <2>3, <2>4, <2>5
<1>4. CASE InputStep \/ InputAbort \/ CaptureStep \/ CaptureInput
  BY <1>4
  DEF InputStep, InputAbort, InputAborted, ActorStep, TakeCaptured,
      DecideForward, ForwardInput, InjectInput, SeeKvm, StartCapture,
      StartFails, KvmOff, SeeFocus, ReadFocus, FollowFocus, StopDone,
      InputShutdown, DropChannels, CaptureStep, CaptureInput, DeviceStep,
      DeviceInput, DevOpen, DevStop, DevFail, DevEvent, DevSend, DevSendFails,
      DevEnd, UnchangedByDevice, channelVars, outVars
<1>5. QED
  BY <1>3, <1>4, StepKinds

LEMMA WedgeStays ==
  ASSUME WInv, [Next]_vars, CoordinatorWedged
  PROVE  CoordinatorWedged'
<1>1. /\ UNCHANGED coordVars /\ running /\ awaiting # "none" /\ ~CoordinatorStep
  BY BlockedStays, Zenon DEF CoordinatorWedged
<1>2. awaiting' = awaiting
  BY <1>1 DEF coordVars
<1>3. EventsFull => EventsFull'
  BY <1>1, FullStaysFull DEF EventsFull
<1>4. CASE awaiting = "event" /\ EventsFull
  BY <1>2, <1>3, <1>4 DEF CoordinatorWedged
<1>5. CASE /\ awaiting = "inject" /\ injectq = InjectCap
           /\ CaptureWedged \/ (pc = "forward" /\ EventsFull)
  <2>1. /\ injectq' = InjectCap
        /\ CaptureWedged' \/ (pc = "forward" /\ EventsFull)'
    BY <1>5, InjectStaysWedged
  <2>2. QED
    BY <1>2, <1>5, <2>1 DEF CoordinatorWedged
<1>6. CASE awaiting = "net" /\ netq = NetCap /\ netOut # <<>> /\ EventsFull
  <2>1. UNCHANGED <<netOut, netq>>
    BY <1>1, <1>6, OutsStay
  <2>2. QED
    BY <1>2, <1>3, <1>6, <2>1 DEF CoordinatorWedged
<1>7. CASE awaiting = "clip" /\ clipq = ClipCap /\ clipOut # <<>> /\ EventsFull
  <2>1. UNCHANGED <<clipOut, clipq>>
    BY <1>1, <1>7, OutsStay
  <2>2. QED
    BY <1>2, <1>3, <1>7, <2>1 DEF CoordinatorWedged
<1>8. QED
  BY <1>4, <1>5, <1>6, <1>7 DEF CoordinatorWedged

THEOREM WaitInvariant == Spec => []WInv
  BY InitWInv, NextWInv, PTL DEF Spec

(* No step of any actor, device, peer or GUI, and no shutdown signal, ends *)
(* a wait that is part of a cycle: such a daemon never handles an event    *)
(* again.                                                                  *)
THEOREM WedgeIsFinal == Spec => WedgedForGood
<1>1. WInv /\ [Next]_vars => (CoordinatorWedged => CoordinatorWedged')
  BY WedgeStays
<1>2. WInv /\ [Next]_vars => [CoordinatorWedged => CoordinatorWedged']_vars
  BY <1>1
<1>3. QED
  BY <1>2, WaitInvariant, PTL DEF Spec, WedgedForGood
=============================================================================
