----------------------------- MODULE InputActor -----------------------------
(***************************************************************************)
(* The input actor (InputActor::run in                                     *)
(* crates/daemon/src/actors/input_actor.rs) with the Linux capture backend *)
(* it drives (crates/input/src/capture/linux.rs) and that backend's device *)
(* tasks.  The actor is one task: while it awaits inside one select!       *)
(* branch it serves no other.  A program location below is the point       *)
(* between two reads of shared state or before an await.                   *)
(***************************************************************************)
EXTENDS Channels

CONSTANTS
  Devices,    \* the evdev devices found by enumerate_devices
  CaptureCap  \* capacity of the channel from the device tasks (1024)

ASSUME InputAssumption == CaptureCap \in Nat \ {0}

VARIABLES
  pc,          \* where the actor is
  heard,       \* the focus value a branch has read, Local outside of it
  capActive,   \* LinuxInputCapture.active
  capGrabbed,  \* LinuxInputCapture.grabbed
  stopSig,     \* the device tasks have been told to stop
  rxOpen,      \* the actor holds the receiver of the capture channel
  capq,        \* number of captured events waiting in that channel
  dev,         \* the state of each device task
  devGrab      \* the device task holds its device exclusively

captureVars == <<capActive, capGrabbed, stopSig, rxOpen, capq, dev, devGrab>>
inputVars == <<pc, heard, captureVars>>

(* LinuxInputCapture::stop waits for the device tasks; the suffix is what  *)
(* called it and so what follows it.                                       *)
Stopping == {"stopGrab", "stopUngrab", "stopOff", "stopExit"}
Locations == {"select", "captured", "forward", "kvm", "focus", "focusKvm",
              "stopped", "aborted"} \cup Stopping
AwaitPoints == {"select", "forward"} \cup Stopping
DevStates == {"off", "open", "read", "send"}

InputTypeOK ==
  /\ pc \in Locations
  /\ heard \in Peer
  /\ capActive \in BOOLEAN
  /\ capGrabbed \in BOOLEAN
  /\ stopSig \in BOOLEAN
  /\ rxOpen \in BOOLEAN
  /\ capq \in 0 .. CaptureCap
  /\ dev \in [Devices -> DevStates]
  /\ devGrab \in [Devices -> BOOLEAN]

InputInit ==
  /\ pc = "select"
  /\ heard = Local
  /\ capActive = FALSE /\ capGrabbed = FALSE /\ stopSig = FALSE
  /\ rxOpen = FALSE /\ capq = 0
  /\ dev = [d \in Devices |-> "off"]
  /\ devGrab = [d \in Devices |-> FALSE]

AllOff == \A d \in Devices : dev[d] = "off"

-----------------------------------------------------------------------------
(* A captured event: read the focus, then kvm_active, then maybe send.     *)

TakeCaptured ==
  /\ pc = "select" /\ rxOpen /\ capq > 0
  /\ capq' = capq - 1
  /\ heard' = focus
  /\ pc' = "captured"
  /\ UNCHANGED <<capActive, capGrabbed, stopSig, rxOpen, dev, devGrab>>
  /\ UNCHANGED channelVars

DecideForward ==
  /\ pc = "captured"
  /\ pc' = IF kvm /\ heard # Local THEN "forward" ELSE "select"
  /\ heard' = Local
  /\ UNCHANGED <<captureVars, channelVars>>

ForwardInput ==
  /\ pc = "forward"
  /\ SendEvent([kind |-> "OutgoingInput"])
  /\ pc' = "select"
  /\ UNCHANGED <<heard, captureVars, injectq, open, netq, clipq, focus, focusNew,
                 kvm, kvmNew, cancelled>>

(* Mutant of InjectInput: only while no other machine has the focus. *)
InjectInputAtHome ==
  /\ pc = "select" /\ injectq > 0 /\ focus = Local
  /\ injectq' = injectq - 1
  /\ UNCHANGED <<pc, heard, captureVars, events, open, netq, clipq, focus,
                 focusNew, kvm, kvmNew, cancelled>>

(* An event of the remote peer is injected; a failure is only logged. *)
InjectInput ==
  /\ pc = "select" /\ injectq > 0
  /\ injectq' = injectq - 1
  /\ UNCHANGED <<pc, heard, captureVars, events, open, netq, clipq, focus,
                 focusNew, kvm, kvmNew, cancelled>>

-----------------------------------------------------------------------------
(* kvm_active changed: changed() marks the value seen, borrow() reads the  *)
(* latest one.                                                             *)

SeeKvm ==
  /\ pc = "select" /\ kvmNew
  /\ kvmNew' = FALSE
  /\ pc' = "kvm"
  /\ UNCHANGED <<heard, captureVars, events, injectq, open, netq, clipq, focus,
                 focusNew, kvm, cancelled>>

(* capture.start(): one task per device, reading into a new channel. *)
StartCapture ==
  /\ pc = "kvm" /\ kvm /\ ~capActive
  /\ capActive' = TRUE
  /\ stopSig' = FALSE
  /\ rxOpen' = TRUE
  /\ capq' = 0
  /\ dev' = [d \in Devices |-> "open"]
  /\ devGrab' = [d \in Devices |-> FALSE]
  /\ pc' = "select"
  /\ UNCHANGED <<heard, capGrabbed, channelVars>>

(* AlreadyCapturing, or no device could be enumerated. *)
StartFails ==
  /\ pc = "kvm" /\ kvm
  /\ pc' = "select"
  /\ UNCHANGED <<heard, captureVars, channelVars>>

(* Mutant of BeginStop: waits for tasks that were not told to stop. *)
BeginStopSilent(location) ==
  /\ pc' = location
  /\ UNCHANGED <<captureVars>>

(* capture.stop() up to the point where it awaits the device tasks. *)
BeginStop(location) ==
  /\ stopSig' = TRUE
  /\ pc' = location
  /\ UNCHANGED <<capActive, capGrabbed, rxOpen, capq, dev, devGrab>>

(* Mutant of KvmOff: without stop(), so only a grabbed capture is stopped. *)
KvmOffUngrabs ==
  /\ pc = "kvm" /\ ~kvm
  /\ \/ capActive /\ capGrabbed /\ BeginStop("stopOff")
     \/ ~(capActive /\ capGrabbed) /\ pc' = "select" /\ UNCHANGED captureVars
  /\ UNCHANGED <<heard, channelVars>>

(* KVM off: ungrab() and stop(), of which one does the stopping. *)
KvmOff ==
  /\ pc = "kvm" /\ ~kvm
  /\ \/ capActive /\ BeginStop("stopOff")
     \/ ~capActive /\ pc' = "select" /\ UNCHANGED captureVars
  /\ UNCHANGED <<heard, channelVars>>

-----------------------------------------------------------------------------
(* The focus changed: mark it seen, read it, read kvm_active, then grab or *)
(* ungrab.  Both stop a running capture and neither starts it again.       *)

SeeFocus ==
  /\ pc = "select" /\ focusNew
  /\ focusNew' = FALSE
  /\ pc' = "focus"
  /\ UNCHANGED <<heard, captureVars, events, injectq, open, netq, clipq, focus,
                 kvm, kvmNew, cancelled>>

ReadFocus ==
  /\ pc = "focus"
  /\ heard' = focus
  /\ pc' = "focusKvm"
  /\ UNCHANGED <<captureVars, channelVars>>

FollowFocus ==
  LET grab == heard # Local IN
  /\ pc = "focusKvm"
  /\ IF kvm /\ capActive /\ capGrabbed # grab
       THEN BeginStop(IF grab THEN "stopGrab" ELSE "stopUngrab")
       ELSE pc' = "select" /\ UNCHANGED captureVars
  /\ heard' = Local
  /\ UNCHANGED channelVars

-----------------------------------------------------------------------------
(* Mutant of DropChannels: a clone of the receiver outlives the actor. *)
DropChannelsLeaking ==
  UNCHANGED <<open, injectq, events, netq, clipq, focus, focusNew, kvm,
              kvmNew, cancelled>>

(* The actor ends: everything it holds is dropped with it. *)
DropChannels ==
  /\ open' = open \ {"inject"}
  /\ injectq' = 0
  /\ UNCHANGED <<events, netq, clipq, focus, focusNew, kvm, kvmNew, cancelled>>

(* Mutant of StopDone: does not wait for the device tasks. *)
StopDoneEarly ==
  /\ pc \in Stopping
  /\ capActive' = FALSE
  /\ capGrabbed' = (pc = "stopGrab")
  /\ rxOpen' = (rxOpen /\ pc \notin {"stopOff", "stopExit"})
  /\ pc' = IF pc = "stopExit" THEN "stopped" ELSE "select"
  /\ stopSig' = FALSE
  /\ UNCHANGED <<heard, capq, dev, devGrab, channelVars>>

(* The device tasks have ended: stop() clears active, and its caller goes  *)
(* on.  Only switching KVM off (or leaving the loop) drops the receiver.   *)
StopDone ==
  LET dropped == pc \in {"stopOff", "stopExit"} IN
  /\ pc \in Stopping /\ AllOff
  /\ capActive' = FALSE
  /\ capGrabbed' = (pc = "stopGrab")
  /\ rxOpen' = (rxOpen /\ ~dropped)
  /\ capq' = IF dropped THEN 0 ELSE capq
  /\ \/ pc = "stopExit" /\ pc' = "stopped" /\ DropChannels
     \/ pc # "stopExit" /\ pc' = "select" /\ UNCHANGED channelVars
  /\ stopSig' = FALSE
  /\ UNCHANGED <<heard, dev, devGrab>>

(* Mutant of InputShutdown: leaves the capture running. *)
InputShutdownOnly ==
  /\ pc = "select" /\ cancelled
  /\ pc' = "stopped" /\ rxOpen' = FALSE /\ capq' = 0
  /\ UNCHANGED <<heard, capActive, capGrabbed, stopSig, dev, devGrab>>
  /\ DropChannels

(* The actor sees the shutdown signal and cleans up. *)
InputShutdown ==
  /\ pc = "select" /\ cancelled
  /\ \/ capActive /\ BeginStop("stopExit") /\ UNCHANGED channelVars
     \/ /\ ~capActive
        /\ pc' = "stopped" /\ rxOpen' = FALSE /\ capq' = 0
        /\ UNCHANGED <<capActive, capGrabbed, stopSig, dev, devGrab>>
        /\ DropChannels
  /\ UNCHANGED heard

(* input_handle.abort(): the task is dropped at an await, its receiver     *)
(* with it; the device tasks are detached and not told to stop.            *)
InputAborted ==
  /\ pc \in AwaitPoints
  /\ pc' = "aborted"
  /\ rxOpen' = FALSE
  /\ capq' = 0
  /\ DropChannels
  /\ UNCHANGED <<heard, capActive, capGrabbed, stopSig, dev, devGrab>>

-----------------------------------------------------------------------------
(* A device task (capture_device).                                         *)

SetDev(d, state) == dev' = [dev EXCEPT ![d] = state]

UnchangedByDevice ==
  UNCHANGED <<pc, heard, capActive, capGrabbed, stopSig, rxOpen, channelVars>>

(* Opening may fail, which ends the task; grabbing may fail, which does    *)
(* not.                                                                    *)
DevOpen(d) ==
  /\ dev[d] = "open"
  /\ \/ SetDev(d, "off") /\ UNCHANGED devGrab
     \/ /\ SetDev(d, "read")
        /\ \E held \in {FALSE, capGrabbed} :
             devGrab' = [devGrab EXCEPT ![d] = held]
  /\ UNCHANGED capq
  /\ UnchangedByDevice

DevEnd(d) ==
  /\ SetDev(d, "off")
  /\ devGrab' = [devGrab EXCEPT ![d] = FALSE]
  /\ UNCHANGED capq
  /\ UnchangedByDevice

(* The stop branch of the task's select!. *)
DevStop(d) == dev[d] = "read" /\ stopSig /\ DevEnd(d)

(* A read error (the device is unplugged). *)
DevFail(d) == dev[d] = "read" /\ DevEnd(d)

DevEvent(d) ==
  /\ dev[d] = "read"
  /\ SetDev(d, "send")
  /\ UNCHANGED <<capq, devGrab>>
  /\ UnchangedByDevice

DevSend(d) ==
  /\ dev[d] = "send" /\ rxOpen /\ capq < CaptureCap
  /\ capq' = capq + 1
  /\ SetDev(d, "read")
  /\ UNCHANGED devGrab
  /\ UnchangedByDevice

(* The receiver is gone: tx.send fails and the task ends. *)
DevSendFails(d) == dev[d] = "send" /\ ~rxOpen /\ DevEnd(d)

-----------------------------------------------------------------------------
ActorStep ==
  \/ TakeCaptured \/ DecideForward \/ ForwardInput \/ InjectInput
  \/ SeeKvm \/ StartCapture \/ StartFails \/ KvmOff
  \/ SeeFocus \/ ReadFocus \/ FollowFocus
  \/ StopDone \/ InputShutdown

DeviceStep(d) == DevOpen(d) \/ DevStop(d) \/ DevSend(d) \/ DevSendFails(d)
DeviceInput(d) == DevEvent(d) \/ DevFail(d)
=============================================================================
