----------------------------- MODULE VideoCapture -----------------------------
(***************************************************************************)
(* Screen capture (crates/video/src/capture.rs): start() spawns a task     *)
(* that puts frames into a channel, stop() tells the task and waits for    *)
(* it.  DummyCapture's is a tokio task, ScrapCapture's a blocking thread;  *)
(* of a frame only its place in the channel is kept.                       *)
(***************************************************************************)
EXTENDS Integers

CONSTANT ImageCap  \* capacity of the channel (4)

ASSUME VideoAssumption == ImageCap \in Nat \ {0}

VARIABLES
  source,    \* "dummy" or "scrap"
  viewer,    \* who reads the frames: the "caller" of stop() itself, or "another" task
  camera,    \* the caller: "idle", in "stop" or in the stop() of "start", "dropped" the capture
  shooting,  \* the task: "none", "setup", "check", "frame", "send", "sleep" or "ended"
  stopTx,    \* the task's oneshot: "open", "sent" or "closed"
  images,    \* frames in the channel
  imageRx    \* somebody holds the receiver

videoVars == <<source, viewer, camera, shooting, stopTx, images, imageRx>>

VideoInit ==
  /\ source \in {"dummy", "scrap"} /\ viewer \in {"caller", "another"}
  /\ camera = "idle" /\ shooting = "none" /\ stopTx = "closed"
  /\ images = 0 /\ imageRx = FALSE

-----------------------------------------------------------------------------
(* The caller. *)

(* Both functions first take the sender of the oneshot, use it and await   *)
(* the task.                                                               *)
CallCapture ==
  /\ camera = "idle"
  /\ camera' \in {"stop", "start"}
  /\ stopTx' = IF stopTx = "open" THEN "sent" ELSE stopTx
  /\ UNCHANGED <<source, viewer, shooting, images, imageRx>>

(* start() goes on with a new channel and a new task.                      *)
CaptureReturns ==
  /\ camera \in {"stop", "start"} /\ shooting \in {"none", "ended"}
  /\ \/ /\ camera = "start"
        /\ shooting' = IF source = "scrap" THEN "setup" ELSE "check"
        /\ stopTx' = "open" /\ images' = 0 /\ imageRx' = TRUE
     \/ /\ camera = "stop" /\ shooting' = "none"
        /\ UNCHANGED <<stopTx, images, imageRx>>
  /\ camera' = "idle"
  /\ UNCHANGED <<source, viewer>>

(* Dropping the capture drops the sender and leaves the task to itself.    *)
DropCapture ==
  /\ camera = "idle" /\ camera' = "dropped"
  /\ stopTx' = IF stopTx = "open" THEN "closed" ELSE stopTx
  /\ UNCHANGED <<source, viewer, shooting, images, imageRx>>

MayView == viewer = "another" \/ camera \in {"idle", "dropped"}

View ==
  /\ MayView /\ imageRx /\ images > 0
  /\ images' = images - 1
  /\ UNCHANGED <<source, viewer, camera, shooting, stopTx, imageRx>>

DropReceiver ==
  /\ MayView /\ imageRx /\ imageRx' = FALSE
  /\ UNCHANGED <<source, viewer, camera, shooting, stopTx, images>>

-----------------------------------------------------------------------------
(* The task. *)

(* ScrapCapture finds the display and opens it, or gives up.               *)
Setup ==
  /\ shooting = "setup" /\ shooting' \in {"check", "ended"}
  /\ UNCHANGED <<source, viewer, camera, stopTx, images, imageRx>>

(* Mutant of CheckStop: only a dropped sender stops the task. *)
CheckStopClosed ==
  /\ shooting = "check"
  /\ shooting' = IF stopTx = "closed" THEN "ended" ELSE "frame"
  /\ UNCHANGED <<source, viewer, camera, stopTx, images, imageRx>>

(* try_recv(): DummyCapture heeds the message only.                        *)
CheckStop ==
  /\ shooting = "check"
  /\ shooting' = IF stopTx = "sent" \/ (stopTx = "closed" /\ source = "scrap")
                   THEN "ended" ELSE "frame"
  /\ UNCHANGED <<source, viewer, camera, stopTx, images, imageRx>>

(* The screen may have no new frame, or fail.                              *)
TakeFrame ==
  /\ shooting = "frame"
  /\ \/ shooting' = "send"
     \/ source = "scrap" /\ shooting' \in {"check", "ended"}
  /\ UNCHANGED <<source, viewer, camera, stopTx, images, imageRx>>

SendFrame ==
  /\ shooting = "send"
  /\ \/ imageRx /\ images < ImageCap /\ images' = images + 1 /\ shooting' = "sleep"
     \/ ~imageRx /\ shooting' = "ended" /\ UNCHANGED images
  /\ UNCHANGED <<source, viewer, camera, stopTx, imageRx>>

Wake ==
  /\ shooting = "sleep" /\ shooting' = "check"
  /\ UNCHANGED <<source, viewer, camera, stopTx, images, imageRx>>

ShootingStep == Setup \/ CheckStop \/ TakeFrame \/ SendFrame \/ Wake

VideoNext ==
  \/ CallCapture \/ CaptureReturns \/ DropCapture \/ View \/ DropReceiver
  \/ ShootingStep

-----------------------------------------------------------------------------
(* stop(), and start() of a running capture, return once the task has seen *)
(* the flag, unless the channel is full and it is the caller itself that   *)
(* would empty it: the task is then never out of its send.                 *)
StopsUnlessFull ==
  camera \in {"stop", "start"} ~>
    \/ camera = "idle"
    \/ viewer = "caller" /\ imageRx /\ images = ImageCap /\ shooting = "send"
=============================================================================
