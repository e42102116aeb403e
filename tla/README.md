# S-KVM verification

Formal models of S-KVM, a software KVM switch: every machine runs a *daemon*; the daemons find one
another, connect over QUIC, and forward keyboard and mouse events to the machine that has the focus.
The modules are translated from the Rust sources, model-checked with TLC on small instances, and the
main safety results are proved with TLAPS for all values of the constants. Source paths below are
relative to `src/`.

| part of this directory | what it is |
|---|---|
| `Channels`, `Coordinator`, `InputActor`, `Daemon` | one daemon process |
| `PeerNet` | the network actors of several machines and their connections |
| `Ctaphid`, `Fido2Relay`, `Fido2Service` | the FIDO2 relay, its framing, and its specification |
| `Clipboard` | clipboard monitoring and its actor |
| `ConfigStore`, `DaemonLink` | the configuration file and its writers; how the GUI finds, asks and starts daemons |
| `WindowsCapture` | the capture backend of Windows under the same input actor |
| `TlsIdentity`, `ScriptManager` | the two stored files of a machine's identity; hot reload of scripts |
| `AudioPipeline`, `Crossfade`, `VideoCapture` | the media pipelines |
| `Displays`, `ScreenEdge` | enumeration of displays, and the geometry of crossings |
| `Parts` | the components that share no state with another, one at a time |
| `DaemonProofs`, `PeerNetProofs`, `Fido2RelayProofs`, `CtaphidProofs`, `ClipboardProofs`, `InputProofs` (Windows hooks, screen edges), `StoreProofs` (identity, configuration), `AudioProofs` (pipeline, crossfade) | proofs |
| `MC*.tla`, `*.cfg` | instances for TLC |
| `PROJECT.json` | components, runs, mutants, hazards, findings, and which source lines each definition stands for |

## 1. The system

One daemon process (`crates/daemon`) is a set of tokio tasks. `Coordinator::run` creates the channels,
spawns one task per *actor* and then serves its own event queue until shutdown:

```
 GUI --IPC--> ipc server --+                       +--> input actor --> capture backend --> device tasks
                           |  events (mpsc 256)    |      (inject 512, focus/kvm watch)
 network actor ------------+--> COORDINATOR -------+--> network actor  (commands 64)
 clipboard actor ----------+                       +--> clipboard actor (updates 32)
 input actor --------------+   (also to itself)
```

Every actor is *one* task around a `select!`: while it awaits inside one branch it serves no other.
Most of what is hard about this program follows from that and from the channels being bounded.

### Components

For each: the state it keeps, its operations, what it interacts with, what is hard, and what makes it correct.

**Coordinator** (`crates/daemon/src/coordinator.rs`). State: the event queue, the focus and `kvm_active`
watches, the shared `DaemonState` (peers with status). Operations: one handler per `CoordinatorEvent`,
shutdown. It sends to every actor, to itself, and awaits room each time. Hard: it is the only reader of
the queue it writes to, and its readers' readers write to it (cycles of waits); focus commands act at
once and again through the queue. Correct: the focus ends where the last command put it; a send is only
stuck in a known cycle; events reach the actor they are for.

**Input actor and Linux capture** (`actors/input_actor.rs`, `crates/input/src/capture/linux.rs`). State:
the backend's `active`, `grabbed`, stop signal, receiver; one task per evdev device with an exclusive
grab. Operations: captured event, injection, KVM toggle (start/stop), focus change (grab/ungrab),
shutdown, abort. Hard: stop waits for tasks that may wait for the waiter; state is read before an await
and used after it; watches merge changes; grab and ungrab *end* a capture. Correct: no device is held,
and no task left, without a running capture; after KVM is off nothing is captured; the actor comes back.

**Windows capture** (`capture/windows.rs`). State: a thread that installs two hooks and sleeps in its
message pump, thread-local sender, grab flag and stop flag, a bridge from an unbounded channel to the
actor's. Hard: how the thread learns of stop; flags shared by one capture and the next; a flag that makes
hooks swallow the user's own input. Correct: stop returns; input is swallowed only for a remote focus.

**Input injection** (`crates/input/src/injection`): translation of events to uinput or `SendInput`;
sequential. Correct: every event is translated, no key stays pressed.

**Screen edge detection** (`crates/input/src/edge.rs`) and **displays** (`crates/core/src/display.rs`).
State: displays, links, dead zone. Operations: check a position, replace displays or links. Hard: corners,
missing links and displays, truncation in proportional coordinates. Correct: crossing there and back ends
near where it began.

**Network actor, peer manager, QUIC transport** (`actors/network_actor.rs`,
`crates/network/src/peer_manager.rs`, `quic.rs`). State: the map of peers to connections, the queue of
peer-manager events (64), the queue of accepted connections (16), per connection the streams the other
side allows (100). Operations: dial, accept, Hello/Welcome handshake, insert, disconnect, send to all,
heartbeat, forward an event, shutdown. Hard: two machines dial at the same time; connections replace one
another; a side disappears at any point; the task waits for its own queue, or for a peer that waits for
it. Correct: both ends use the same connection, none is leaked, the status matches the map, the task
comes back to its `select!`.

**mDNS discovery** (`discovery.rs`): a browse loop that turns library events into two messages.

**TLS identity** (`tls.rs`): a certificate and a key, in two files written one after the other, loaded or
made when the network actor starts. Hard: a crash between or within the writes, two daemons at once.
Correct: a start loads a matching pair or makes one.

**IPC server** (`crates/daemon/src/ipc/mod.rs`) and **configuration store** (`crates/config`). State: the socket
file, the configuration the daemon was started with, the configuration file. Operations: bind, accept, one
command at a time per connection, save, removal of the socket at the end. Hard: several copies of the
configuration, each older than the other's save; a file written in place; a socket file that belongs to
whoever bound last. Correct: what was saved last is what is stored; a start finds a whole file.

**GUI backend** (`src-tauri`). State: its copy of the configuration, one optional client behind a mutex,
the reconnecting task's `was_connected`. Operations: eleven commands that ask the daemon or fall back to local
state, connect, reconnect, spawn. Hard: the client is locked while an answer is awaited; daemons die,
answer never, or are started twice. Correct: a command ends; a GUI whose daemon is gone finds the next.

**Clipboard** (`crates/core/src/clipboard.rs`, `actors/clipboard_actor.rs`). State: the hash of the last
content under a lock, the flag the monitor tasks look at, two channels of 32. Operations: the 500 ms tick,
a remote update (hash, then clipboard), KVM toggle, shutdown. Hard: the tick between hash and clipboard; a lock held
across an await. Correct: a local copy is announced once, a remote one never; the actor comes back.

**FIDO2 relay and virtual device** (`crates/fido2`). State: the assembler, channel and request counters,
the table of pending requests, four queues; a thread that blocks in `read()`. Operations: first and
continuation packets, INIT, PING, CANCEL, CBOR, a response, shutdown. Hard: one assembler for all
channels; answers late, twice, after CANCEL; thread and task waiting for each other. Correct: each
request is answered at most once, on its own channel, not after cancellation; messages never mix.

**Audio** (`crates/audio`). State: three tasks and two real-time callbacks with bounded channels and a jitter
buffer between them; two atomics of the crossfade. Hard: packets lost, repeated or reordered; every stage
drops what does not fit; the atomics are loaded `Relaxed`, one by one. Correct: no frame is played twice or late; fades that do not overlap stay apart.

**Video** (`crates/video`). State: the capture task, its stop signal, a channel of 4 frames. Hard: stop awaits a
task that may await its reader. Correct: stop returns. Encoders and decoders map one frame to one packet.

**Scripting** (`crates/scripting`). State: loaded scripts with the time of change they were loaded at. Operations:
the first load, the check every two seconds, an event to every script. Hard: a file changes between two
of the awaits that read it. Correct: what is loaded in the end is what is on disk.

**mDNS discovery**, **injection**, **protocol and core types**, **GUI front end** (`src/App.tsx`): stateless
translation, or layout.

The daemon spawns neither the FIDO2 relay nor audio, video, scripting or edge detection yet; they are
libraries that complete the system. The shipped `PeerManager` never emits a `MessageReceived`: after the
handshake nothing reads a connection. `Daemon` therefore takes the events a peer can cause through the
interface the network actor declares (its match over `PeerManagerEvent`), and `PeerNet` models what the
shipped code does.

## 2. Modules and how they correspond to the code

Every module names in its comments the code it translates, and `PROJECT.json` ("map") gives the lines of
each definition. An action is the code between two awaits (or between two reads of state that others
write). Actions whose comment starts with "Mutant of" are not part of any specification: they are plausible
bugs which the properties are tried against.

**`Channels`**: the event queue, counters for the queues whose contents do not matter (`injectq`, `netq`,
`clipq`), which receivers are still held (`open`), and the two watches with their "changed" marks
(a watch keeps the latest value only, so a reader that is late sees one change).

**`Coordinator`**: one action per event handler. A handler that awaits sends sets `awaiting` and `left`
(how many remain) and the `Send*` actions do them one by one, as the loop over a batch of input events
does. `commanded` is a history variable: the target of the last ScreenEnter or ScreenLeave.

**`InputActor`**: `pc` is the point in the branch; `heard` the focus value a branch has read and still uses.
`BeginStop` ... `StopDone` is `LinuxInputCapture::stop` with its wait for the device tasks; the suffix of
the location says which caller (grab, ungrab, KVM off, exit) continues after it. Each device task opens,
maybe grabs, reads and sends; opening, grabbing and reading may fail.

**`Daemon`**: composes them, and reduces the other actors to their channel operations. The network actor starts (`netAt`) while the
others run already, and may fail to. `NetEvents` is what
the network actor may forward; `Surroundings` selects which sources of work an instance has.

**`PeerNet`**: per machine the network task (`at`, `cur`), its peer map, its event queue, the accept task
and its queue; per connection the ends that see it open (`live`) and the streams not yet read (`inbox`).
`Announce` is the tail of both handshakes: emit the event, then insert, which drops the connection the map
held. A machine may end at any point (`Leave`) and start again with the same peer id; a dial may be given
up (`DialFails`), and a connection (`Lose`, the idle timeout); an end learns some time later that the other has gone (`Learn`). What
`Daemon` models (the wait for room in the coordinator's queue) is left out here: `PmForward` is one step. `calm` is a history variable.

**`Ctaphid`**: `serialize_response` and the assembler with sizes, sequence numbers and the 16-bit length as
numbers, so that truncation and wrap-around happen as in the code. **`Fido2Relay`**: device thread, relay
task, clients and network layer; here a message is a number of packets. A client writes only on a channel it was given, and INIT
on the broadcast channel. **`Fido2Service`**: the specification: requests asked, answered, withdrawn; no queues.

**`Clipboard`**: monitors (several may exist: stop only clears a flag that is looked at every 500 ms), the
lock, the actor with the point between hash and clipboard (`hash`, `set`) and with a local change in hand (`event`) until the
coordinator has it, in `update`. A text stands for its own hash; its origin (`from`) is a ghost that only properties read. `Copied` and
`Arrivals` bound the texts that are copied here and the updates that arrive.

**`ConfigStore`**: the file `toml`, and the copies of it: the daemon's from its start, the GUI's `state.config`, the
`form` of the settings page. A configuration is `links` and `rest`, each the number of the user's change that
set it, so that a lost change shows. `saves` has the commands under way, with who executes them; each write
truncates, then fills. The GUI has no client, one of a living daemon, or one of a daemon that is gone, which only its next
command finds out (`Tried`); what the daemon still does for a GUI that has quit is an `orphan`, whose answer nobody
hears (`Heard`). `spoilt`, `last`, `read` are ghosts that say when a copy was older than the file.

**`DaemonLink`**: daemon processes (`boot`, `remove`, `bind`, `serve`, `closing`, ...), the socket file, the GUI's client
with its lock as a queue, any number of commands, and the two background tasks (`starter`, `keeper`). A process may wedge:
`Daemon` says how. The socket is that of Unix; on Windows setup never starts a daemon.

**`WindowsCapture`**: what `InputActor` is to Linux: the same actor, with the hook thread (`hook`), the two channels, and the
three flags (`winCap`) the tasks share. `GetMessageW` returns when something outside of the program posts a message (`PumpReturns`).

**`TlsIdentity`**: the two files, each absent, partly written, or of one identity; daemon processes between `Check`, `Save` and
`Load`, which crash anywhere. **`ScriptManager`**: per file its version, kind and time of change, which may repeat;
the user edits between any two file operations of the task. **`AudioPipeline`**: a frame is the number of its packet, through
encoder, network, decoder, jitter buffer and callback. **`Crossfade`**: the two atomics, each as the
history of its stores: a relaxed load may return any store that is not older than what its thread has seen of that atomic, and which
store of the one goes with which of the other is open. `overlapped` and `lost` are ghosts.
**`VideoCapture`**: the task of either capture, the stop signal, the channel, and a reader that is, or is not, the caller of `stop()`.

**`Displays`** (operators) and **`ScreenEdge`**: displays as the system reports them, and a cursor that moves anywhere on one and
one pixel beyond. `Scaled` is the set of integers that the floating-point expression may truncate to.

**`Parts`** EXTENDS these and `Ctaphid`; its variable `part` says which one runs, and the others stay at one initial state. A
behaviour of `Parts` is a behaviour of one component; it is checked as if each had a run of its own.

What the abstraction leaves out throughout: message contents, names and addresses, key codes, times (a
timer may fire whenever its branch is reached), logging. A status entry is counted up to `MaxEntries` (two in `PeerNet`).

## 3. Model checking

All runs set `CHECK_DEADLOCK FALSE`: a daemon may really stop, because it was shut down, because a bound
on requests or dials is reached, or in one of the final waits that the properties name.

| run | instance | what it shows |
|---|---|---|
| `daemon_safety` | one peer, one device, event queue of 2, other queues of 1; focus commands, toggles, device events, shutdown | `FocusFollowsCommand`, `InactiveReleases`, `StoppedReleases`, and `WInv`, the inductive invariant of the proofs, with `HeldImpliesGrabbed` in it |
| `daemon_live` | every kind of peer event, batches of 2, clipboard, GUI commands and saves, peer work, failing starts, shutdown, all queues of 1 | an awaited send (to itself, injection, clipboard) ends or is in a wait cycle (`SendsOrWedges`), and such a cycle is final (`WedgedForGood`) |
| `daemon_serves` | KVM toggles, a capture that fills its channel, a peer that takes the focus and sends input, all queues of 1 | the input actor comes back or is wedged (`ServesOrWedges`); `SendsOrWedges` where captured input goes to the network and received input to an actor that may forward, or be wedged in `stop()` |
| `net_pair` | two machines, two dials each way, disconnect, lost dials and connections, end and restart | `NoLeak`, `PairAgrees`, `StatusAgrees`, `NoSplit` |
| `net_serves` | two machines dialling each other, sends with one stream of credit, event queue of 1, disconnect, lost dials and connections, end and restart | `ServesOrStuck`: a network task comes back or is in a wait that `StuckForGood` shows to be final |
| `fido_relay` | two clients, messages of up to 3 packets, CBOR and CANCEL, two requests, all queues of 1 | `TableIsExact`, `AssemblyPure`, and that the relay implements `Fido2Service` (`ServiceSpec`) |
| `fido_wedge` | one client, all commands, two packets, two requests, busy host | `WedgedForGood`, `ServesOrWedged`, `StopsOrWedged` |
| `parts` | one component at a time, see below | 13 properties of ten components |
| `clip_serves` | two texts that are copied, one that is too large, text and html from peers, two monitors, both channels of 1 | `WedgedForGood`, `ServesOrWedged`, and `Announced`: a new local copy that stays is handed to the coordinator |
| `viol_grab`, `viol_mesh`, `viol_echo` | | see section 5 |

| part of `parts` | instance | what it shows |
|---|---|---|
| `frames` | the real sizes (57, 59, 128, 2^16), lengths around every boundary | `RoundTrip`, `InStep` |
| `edge` | five reports of displays, links that cross, dead zones 0 and 1, every position | `ReturnsNear`: there and back is less than a pixel of either display off |
| `windows` | any toggles, focus changes and shutdown, channels of 1 | `StopsUnlessPumping`: stop returns unless the thread has gone to sleep; `SwallowsForRemote`: hooks swallow for a remote focus, or one change behind |
| `scripts` | a file with two edits, equal or earlier times, all kinds | `FreshOrMissed`: the last good version is loaded in the end, unless the time of change hides it |
| `tls` | two daemon processes, two identities, crashes anywhere | `RepairedUnlessMidKey`: only a crash inside the second write, or two starts at once, keep a machine off the network |
| `audio` | three packets, lost, reordered, repeated; each channel and buffer of 1 or 2 | `PlaysForward`: while the network keeps the order nothing is played twice or late |
| `fade` | two fades of 0, 1 and 3 samples, callbacks of 2 | `FadesApart`: a fade is lost only by another within it, and amplified only by the length of another |
| `video` | both captures, channel of 4, reader the caller or another task | `StopsUnlessFull`: stop returns, or the caller would have to read |
| `config` | two changes of the user, daemon and GUI that start, die and quit at any step | `KeepsSaves`: the file holds the last change of each kind but for the three ways to lose it that the property lists |
| `link` | two commands at once, two daemon processes that crash, end, wedge, or were there before | `AnsweredOrWedged`, `ReconnectsOrGone` |

*Bounds, and why they are enough.* Queues of one (two for the focus) are full and empty within a few
steps, which is when their owners behave differently; a longer queue only postpones that, and the proofs
of section 4 hold for every length. The focus needs two entries: a `FocusChanged` already queued behind a
later command. One device task suffices for a wedged `stop()`; two peers or machines suffice for every
wait of `PeerNet`, since a task waits for one other at a time; two dials each way let connections cross,
be repeated and replace one another. Two clients with messages of three packets are the least with which
packets can interleave in the middle of a message. `MaxRequests` bounds the CBOR messages begun, and ids do
not wrap within it (`Fido2RelayAssumption`). `clip_serves` has two monitors, the
least that overlap; `viol_echo` needs one. A wait cycle of `Daemon` is between the coordinator and one other task, so each needs the
sources of work of that task only: `daemon_live` has the waits for the coordinator's own queue, injection and the clipboard actor,
`daemon_serves` those that take a capture or the network actor.
In `parts`: a gap needs three packets; a stale copy needs two changes, one of each kind; twin daemons need two
processes; a hidden edit needs two edits with equal times; a crossfade inside another needs two, one longer than a
callback and one not. `ImageCap` is the real one; the other capacities are 1 or 2 for the reason given above.

*Fairness, and why the code justifies it.* A task that can run does (weak fairness: tokio's scheduler).
A sender that waits for room gets it if there is room again and again (strong fairness: tokio's mpsc
and Mutex queue their waiters first come, first served), and a `select!` branch that is ready again and
again is taken (strong fairness: `select!` polls from a random branch). A coordinator that has left its
loop aborts its actors (weak fairness: these are its next statements). Nothing is assumed of users,
devices or faults. Three assumptions are about the surroundings, and stated as such:
`LoopFairness`, in `CaptureSpec` (`daemon_serves`) and `ShutdownSpec` (`daemon_live`), says also that the network actor's start and its
operations with peers return; `PeerNet` says when they do not. The two specifications differ in which further tasks are fair: device
tasks, or clipboard actor and abort, each left out where the instance gives it nothing to do. `BusySpec` (`fido_wedge`) adds that the host goes on producing events
for `read()` and that the network takes requests: without them the device thread blocks in `read()` and
promises nothing. `FairSpec` of `Clipboard` lets the coordinator take announcements (the wait for its queue is `Daemon`'s).
`PartsSpec` has weak fairness only, of threads and tasks that can go on: the hook thread, the bridge and the actor of
`WindowsCapture`, but neither its message pump nor a forward to the coordinator; the script task; the capture task and a
reader that is a task of its own; the GUI's tasks and the commands under way. Daemons need not boot, nor answer, nor users act.

Every property of a passing run is tried against a mutant of the code (`PROJECT.json`, "mutants"), which it rejects.

## 4. Proofs

Proved with TLAPS, for every set of machines, peers, devices, clients, monitors and texts, every capacity, and every choice
of the constants that satisfies the named assumptions: `ChannelsAssumption`, `CoordinatorAssumption`, `InputAssumption`,
`DaemonAssumption`, `PeerNetAssumption`, `Fido2RelayAssumption`, `CtaphidAssumption`, `ClipboardAssumption`,
`WindowsAssumption`, `EdgeAssumption`, `TlsAssumption`, `ConfigAssumption`, `AudioAssumption`, `CrossfadeAssumption`. They say that
capacities and packet sizes are positive, bounds and lengths natural numbers, and sets of commands what they are called; and
three things more: no machine dials itself (`PeerNet`), request ids do not wrap within `MaxRequests` (`Fido2Relay`), and no
display that the system reports has an extent of 0 (`ScreenEdge`).

Every invariant and every action property of a passing run is proved. Hardly any is inductive alone; what each needs:

* `DaemonProofs`: `Invariant`, `TypeCorrect`, `FocusCorrect`, `CaptureReleases`, `GrabJustified`, `KvmOffReleases`.
  `IInv` adds `SendsLeft` (something is left to send exactly
  while a send is awaited), `HeldIsOpen` (only an open device is held) and `OffOrStopping` (while KVM is off and
  seen to be off, only a branch about to stop the capture still has one). The proof splits `IInv` into the
  part about the queue (`QueueInv`), about actor and devices (`ActorInv`) and about the other actors
  (`OutInv`), and shows for each kind of step that it preserves each part. `FocusFollowsCommand` is about
  the last `FocusChanged` in a queue of any length; the lemmas say how appending and taking move "the last one".
  In its second part, `WaitInvariant` and `WedgeIsFinal`, an action property: `WInv` adds that an awaited send is one of a
  running loop, that a closed queue is empty, and that an actor which is there reads a running capture. From
  these, no step of any task frees a place in a queue of the cycle.
* `PeerNetProofs`: `TypeCorrect`, `NothingLeaks`, `PairsAgree`, `StatusCorrect`, `StuckStays`, `NothingSplits`.
  `Shake(c)` says, for each stage of a handshake (offered, without its Hello, queued, waiting for the Hello, for the Welcome),
  which streams are under way and that neither end counts the other as connected before the Welcome is sent (`Fresh`);
  `NetInv` is that with the types and `NoLeak`, and gives `PairAgrees`. For `StatusAgrees` the events of one peer in a queue of
  any length are reduced to the last one (`Says`); `ByeDone` adds that a disconnect under way has left the map. `StuckForGood`
  is proved by showing that no step of a machine outside of the set gives one inside what it waits for. `NoSplit` needs most:
  `Calm`, which says of every connection whose Welcome is under way that both ends go on to use it (`Taken`), and of any
  two machines that they hold the same connection, or one is about to replace its own with the other's, and never both at once.
* `Fido2RelayProofs`: `TypeCorrect`, `TableCorrect`, `ImplementsService`, `AnsweredAtMostOnce`, `AssemblyCorrect`, `WedgeIsFinal`.
  `TableInv` adds to `TableIsExact` that ids are given out once and in order; with it every step of relay and device thread is a
  step of `Fido2Service` or stutters. `AssemblyPure` takes two invariants more: `OwnerInv`, that a channel belongs to one client from
  the reply that names it to the last packet written on it, and `Order`, about the packets between a client and the
  assembler as one stream: up to the next beginning, what a client has under way, what the assembler has of it, and what it will
  write next belong to one message.
* `CtaphidProofs`: `FramesFit` and `FramesInStep`. A message that fits is put together by its last packet,
  for all packet sizes; `Fresh` (before the first packet the assembler is idle) is the strengthening.
* `ClipboardProofs`: `TypeCorrect`, `LockExact`, `WedgeIsFinal`. `Exclusive`: the lock is held across an await exactly by the one
  monitor that sends; `InHand`: the actor has an update or a change in hand exactly while it applies or forwards one.
* `InputProofs`: `HooksSwallowForRemote`, of `WinSpec`. `GrabbedForRemote` is about the flag instead of the hooks, and
  `HeardIsNew` about the focus a branch has read: it is the focus, or a newer one waits.
  `CrossingReturns`, of `EdgeSpec`: `EdgeInv` says that the cursor is where the crossing it came by has put it; `ScaledBounds`
  bounds the product of an offset and an extent from both sides, and `ScaledTwice` adds up the two ways.
* `StoreProofs`: `NextStartRepairs`, of `TlsSpec`, for any number of processes. `Repairable` says where the files are while
  the one process that starts is at each of its steps: there is no key until the certificate is whole, and a key without
  its certificate is only seen while it is being written.
  `FileKeepsSaves`, of `ConfigSpec`. `ConfigInv` says, while none of the excepted cases has happened, that one save at a time is in
  the file (`OneWriter`), that nobody has read a file that is not there yet (`Founding`), that every copy is right in what no
  save has set since it was read (`AllRight`), and that so will the GUI's be once it hears of its save (`Following`). The first
  attempt failed on a step that TLC then reached with three changes: a daemon's answer that was meant for a GUI that had quit
  was taken to its successor. The model was wrong there; the connection ends with the GUI, and `orphan` now says so.
* `AudioProofs`: `AudioPlaysForward`, of `AudioSpec`. `Ordered`: the numbers ascend from the frame played last through the ring,
  the decoded frames, the frame in the decoder, the last packet decoded, the network, and the packet awaiting to be sent, to
  the next number. The lemmas say what `Tail` and `Append` keep of that.
  `FadesKeepApart`, of `FadeSpec`, for any number and length of fades, whatever the callback's loads return. `Within`: every store of the
  remainder is at most the total it belongs to. `OneFade`: while none has overlapped, of the stores that the callback may still see only
  the last can start a fade, and none while a trigger is between its two stores; so that the callback's store never goes over a new fade.

`WinSpec`, `EdgeSpec`, `TlsSpec`, `ConfigSpec`, `AudioSpec` and `FadeSpec` are what `PartsSpec` lets each of these components do, while the others rest.

Only model-checked: liveness and what needs `ENABLED`, which are out of the prover's reach (`SendsOrWedges`, `ServesOrWedges`,
`ServesOrStuck`, `ServesOrWedged`, `StopsOrWedged`, `Announced`, `StopsUnlessPumping`, `StopsUnlessFull`, `FreshOrMissed`,
`AnsweredOrWedged`, `ReconnectsOrGone`).

## 5. Where documents and code disagree

Three runs state what a comment or the design document says, and TLC shows that the code does otherwise:

* `viol_grab` (`GrabKeepsCapturing`): grabbing an active capture stops it and only sets a flag. "If already capturing,
  we need to restart with grab enabled", says the comment; nobody restarts it, and input stops being forwarded when the focus moves away.
* `viol_mesh` (`MeshForms`): two machines that discover each other dial at the same time; each awaits a Welcome in the
  only task that would answer the other's Hello.
* `viol_echo` (`NoEcho`): the hash changes before the clipboard does, with an await in between; a tick there announces a remote text as local.

Found while modelling, and visible in the models as exits of the liveness properties or as reachable states, without runs of their own:
`stop()` of the capture and a device task blocked on the full channel wait for each other
(`CaptureWedged`); a capture started with a stale `grabbed` flag holds the devices while the focus is local; a
`FocusChanged` already queued sets the focus back for a while; a capture whose device tasks have all ended counts as capturing; a peer that has gone stays in the map; streams
that nobody reads use up the peer's credit, after which a send does not return; one client's failed QUIC handshake ends
the accept task (`AcceptFails`); the coordinator drops local clipboard changes; a response of more than
7609 bytes does not survive its packet numbers (`Framable`); a FIDO response waits until the host writes again.

In the components of `parts`, likewise:

* *Windows capture.* `stop()` waits for a thread asleep in `GetMessageW`; the WM_QUIT its comment announces is never posted, so that
  the actor comes back only when some other program posts a message. KVM off and on again around a focus change leaves the hooks
  swallowing input with the focus at home. If a hook cannot be installed the sender stays in the thread's storage and the bridge waits for good.
* *Edges.* The cursor arrives on the target's own edge zone, so with a dead zone of one or more the next check sends it back. A
  link's target is looked up among the local displays, and is replaced by the source if it is not there. DRM displays all lie at (0, 0).
* *Scripts.* An edit between the read of a new script and the look at its time is not seen until the file changes again; nor is one with an older time.
* *TLS.* After a crash inside the second write both files exist, and every later start fails to use them.
* *Audio.* After a gap a packet is decoded for the one before it, and what it carries itself is never played; a repeated or late packet is decoded as it comes, and makes the next one count as after a gap.
  Without an `Acquire` the callback may scale the remainder of one fade by the length of another, and so amplify, even if the two do not
  overlap. A fade triggered within another may be lost: the callback stores what is left of the old one over it.
* *Video.* `stop()` does not return while the channel is full and its caller is the reader; a dropped `DummyCapture` runs on until its receiver goes.
* *Configuration.* The daemon answers `GetConfig`, and starts `UpdateScreenLayout`, from what it was started with, so a layout undoes earlier saves and
  a settings form undoes earlier layouts. A torn file keeps the daemon from starting, while the GUI takes, and may save, the defaults.
* *GUI and daemon.* A stale socket file keeps setup from starting a daemon, and the reconnecting task starts one only if it was
  connected before. That task starts a daemon before it tries to connect, so two may run, of which the one bound last is reached;
  an ending daemon removes whatever socket file is there. One daemon that does not answer blocks all commands, and the task that would replace it.

## 6. Not modelled, and why

* Video encoders and decoders, Opus, key and button translation, input injection, the GUI front end: functions of one input, or layout.
* mDNS discovery: its two outputs are inputs of `PeerNet`. QUIC datagrams: the daemon does not use them. macOS has no backend.
* Trust: the certificate verifier accepts everything and keeps no state; pairing codes are used nowhere.
* The peers and the KVM flag that the GUI keeps for itself when it has no daemon, and the tray, whose toggle only flips that flag.
* Failing file operations other than those named in the modules (a full disk, missing rights).
* The named pipe server of Windows, malformed IPC commands, the API that scripts call (it reads values or puts a command into an unbounded channel).
* A machine that dials itself is excluded by `PeerNetAssumption`; it waits for its own Welcome, as in `viol_mesh`. `ClipboardManager::sync_now`: nothing calls it.

## 7. Plan

Done, in this order: `Channels`, `Coordinator`, `InputActor`, `Daemon` with proofs; `PeerNet`; `Ctaphid` with
proofs; `Fido2Relay` and `Fido2Service`; `Clipboard`; the components of `Parts`; proofs of all invariants and action properties, of the refinement
of `Fido2Service`, and of the four properties that say that a wait is final.

Next: for the parts whose runs only have a liveness property
(`DaemonLink`, `VideoCapture`, `ScriptManager`), the safety half of it: the invariant by which the exits the property names are the only ones.
Then the abstract promise of a capture backend (start, stop, released) that both backends are shown to implement.
