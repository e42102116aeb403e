--------------------------- MODULE WindowsCapture ---------------------------
(***************************************************************************)
(* Input capture on Windows (crates/input/src/capture/windows.rs), as      *)
(* InputActor::run drives it: a hook thread whose message pump calls the   *)
(* hooks, a bridge from their unbounded channel to the actor's bounded     *)
(* one, and flags shared by all of them.  Where InputActor has device      *)
(* tasks, this backend has one thread that sleeps in GetMessageW.          *)
(***************************************************************************)
EXTENDS Integers

CONSTANTS
  BridgeCap,  \* capacity of the actor's channel (1024)
  MaxRaw      \* bound on the events in the unbounded one

ASSUME WindowsAssumption == BridgeCap \in Nat \ {0} /\ MaxRaw \in Nat \ {0}

VARIABLES
  winWatch,   \* [kvm, kvmNew, focus, focusNew, cancelled]: what the actor watches
  winPc,      \* where the actor is
  winHeard,   \* the focus its branch has read
  winCap,     \* WindowsInputCapture: [active, grabbed, stop]
  hook,       \* the hook thread
  mousePos,   \* LAST_MOUSE_POS is known
  raw,        \* events in the unbounded channel
  hookTx,     \* HOOK_SENDER still holds the sender
  bridge,     \* the bridge task
  captured,   \* events in the actor's channel
  winRx,      \* the actor holds the receiver
  skipped     \* ghost: a focus change was seen with KVM off, none since with it on

hookVars == <<hook, mousePos, raw, hookTx>>
winActorVars == <<winPc, winHeard, winCap, captured, winRx, skipped>>
winVars == <<winWatch, winPc, winHeard, winCap, hook, mousePos, raw, hookTx,
             bridge, captured, winRx, skipped>>

WinStopping == {"stopOff", "stopExit"}

WinInit ==
  /\ winWatch = [kvm |-> FALSE, kvmNew |-> FALSE, focus |-> "local",
                 focusNew |-> FALSE, cancelled |-> FALSE]
  /\ winPc = "select" /\ winHeard = "local"
  /\ winCap = [active |-> FALSE, grabbed |-> FALSE, stop |-> FALSE]
  /\ hook = "off" /\ mousePos = FALSE
  /\ raw = 0 /\ hookTx = FALSE /\ bridge = "off"
  /\ captured = 0 /\ winRx = FALSE /\ skipped = FALSE

-----------------------------------------------------------------------------
(* The hook thread. *)

(* Mutant of HookInstalls: it is the thread that clears the flag. *)
HookInstallsFresh ==
  /\ hook = "install"
  /\ hook' \in {"check", "off"}
  /\ winCap' = [winCap EXCEPT !.stop = FALSE]
  /\ UNCHANGED <<winWatch, winPc, winHeard, mousePos, raw, hookTx, bridge,
                 captured, winRx, skipped>>

(* SetWindowsHookExW for keyboard and mouse; if one fails the thread ends, *)
(* and leaves the sender in its thread-local storage.                      *)
HookInstalls ==
  /\ hook = "install"
  /\ hook' \in {"check", "off"}
  /\ UNCHANGED <<winWatch, winActorVars, mousePos, raw, hookTx, bridge>>

HookEnds == hook' = "off" /\ hookTx' = FALSE

(* The pump looks at the flag before it sleeps in GetMessageW. *)
HookChecks ==
  /\ hook = "check"
  /\ \/ winCap.stop /\ HookEnds
     \/ ~winCap.stop /\ hook' = "pump" /\ UNCHANGED hookTx
  /\ UNCHANGED <<winWatch, winActorVars, mousePos, raw, bridge>>

(* Nothing in the program posts a message to the thread; another program,  *)
(* or the system, may, and it may be WM_QUIT.                              *)
PumpReturns ==
  /\ hook = "pump"
  /\ \/ hook' = "check" /\ UNCHANGED hookTx
     \/ HookEnds
  /\ UNCHANGED <<winWatch, winActorVars, mousePos, raw, bridge>>

(* A send fails silently once the bridge has gone. *)
HookSends == raw' = IF bridge = "off" THEN raw ELSE raw + 1

(* Every key is sent; what it is, and the modifiers with it, are left out. *)
KeyboardHook ==
  /\ hook = "pump" /\ raw < MaxRaw /\ HookSends
  /\ UNCHANGED <<winWatch, winActorVars, hook, mousePos, hookTx, bridge>>

(* The first movement only tells where the pointer is; buttons and wheels  *)
(* are sent in any case.                                                   *)
MouseHook(moves) ==
  /\ hook = "pump" /\ raw < MaxRaw
  /\ \/ moves /\ ~mousePos /\ mousePos' = TRUE /\ UNCHANGED raw
     \/ (moves => mousePos) /\ HookSends /\ UNCHANGED mousePos
  /\ UNCHANGED <<winWatch, winActorVars, hook, hookTx, bridge>>

(* The bridge ends when the sender is dropped or the receiver is.          *)
BridgeStep ==
  /\ \/ bridge = "recv" /\ raw > 0 /\ bridge' = "send" /\ raw' = raw - 1
        /\ UNCHANGED captured
     \/ bridge = "recv" /\ raw = 0 /\ ~hookTx /\ bridge' = "off"
        /\ UNCHANGED <<raw, captured>>
     \/ bridge = "send" /\ winRx /\ captured < BridgeCap
        /\ bridge' = "recv" /\ captured' = captured + 1 /\ UNCHANGED raw
     \/ bridge = "send" /\ ~winRx /\ bridge' = "off" /\ raw' = 0 /\ UNCHANGED captured
  /\ UNCHANGED <<winWatch, winPc, winHeard, winCap, winRx, skipped, hook,
                 mousePos, hookTx>>

-----------------------------------------------------------------------------
(* The actor.  A send of a captured event may wait, for as long as the     *)
(* coordinator does.                                                       *)

WinTake ==
  /\ winPc = "select" /\ winRx /\ captured > 0
  /\ captured' = captured - 1
  /\ winPc' = IF winWatch.kvm /\ winWatch.focus = "remote" THEN "forward" ELSE "select"
  /\ UNCHANGED <<winWatch, winHeard, winCap, winRx, skipped, hookVars, bridge>>

WinForwarded ==
  /\ winPc = "forward" /\ winPc' = "select"
  /\ UNCHANGED <<winWatch, winHeard, winCap, captured, winRx, skipped, hookVars, bridge>>

WinSeeKvm ==
  /\ winPc = "select" /\ winWatch.kvmNew
  /\ winWatch' = [winWatch EXCEPT !.kvmNew = FALSE]
  /\ winPc' = "kvm"
  /\ UNCHANGED <<winHeard, winCap, captured, winRx, skipped, hookVars, bridge>>

(* start(): a thread, its flag cleared, and a bridge.                      *)
WinStart ==
  /\ winPc = "kvm" /\ winWatch.kvm /\ ~winCap.active
  /\ winCap' = [winCap EXCEPT !.active = TRUE, !.stop = FALSE]
  /\ hook' = "install" /\ mousePos' = FALSE
  /\ raw' = 0 /\ hookTx' = TRUE /\ bridge' = "recv"
  /\ captured' = 0 /\ winRx' = TRUE /\ winPc' = "select"
  /\ UNCHANGED <<winWatch, winHeard, skipped>>

WinAlreadyCapturing ==
  /\ winPc = "kvm" /\ winWatch.kvm /\ winCap.active
  /\ winPc' = "select"
  /\ UNCHANGED <<winWatch, winHeard, winCap, captured, winRx, skipped, hookVars, bridge>>

(* ungrab(), and stop() up to the point where it awaits the thread.        *)
WinBeginStop(location) ==
  /\ winCap.active
  /\ winCap' = [winCap EXCEPT !.grabbed = FALSE, !.stop = TRUE]
  /\ winPc' = location /\ skipped' = FALSE
  /\ UNCHANGED <<winHeard, captured, winRx, hookVars, bridge>>

WinKvmOff ==
  /\ winPc = "kvm" /\ ~winWatch.kvm
  /\ \/ WinBeginStop("stopOff")
     \/ /\ ~winCap.active /\ winPc' = "select"
        /\ UNCHANGED <<winHeard, winCap, captured, winRx, skipped, hookVars, bridge>>
  /\ UNCHANGED winWatch

WinSeeFocus ==
  /\ winPc = "select" /\ winWatch.focusNew
  /\ winWatch' = [winWatch EXCEPT !.focusNew = FALSE]
  /\ winHeard' = winWatch.focus
  /\ winPc' = "focus"
  /\ UNCHANGED <<winCap, captured, winRx, skipped, hookVars, bridge>>

(* Mutant of WinFollowFocus: only ever grabs. *)
WinFollowFocusGrabs ==
  /\ winPc = "focus"
  /\ IF winWatch.kvm /\ winCap.active
       THEN /\ winCap' = [winCap EXCEPT !.grabbed = @ \/ winHeard = "remote"]
            /\ skipped' = FALSE
       ELSE UNCHANGED winCap /\ skipped' = TRUE
  /\ winPc' = "select" /\ winHeard' = "local"
  /\ UNCHANGED <<winWatch, captured, winRx, hookVars, bridge>>

(* grab() and ungrab() only set the flag the hooks look at.                *)
WinFollowFocus ==
  /\ winPc = "focus"
  /\ IF winWatch.kvm /\ winCap.active
       THEN /\ winCap' = [winCap EXCEPT !.grabbed = (winHeard = "remote")]
            /\ skipped' = FALSE
       ELSE UNCHANGED winCap /\ skipped' = TRUE
  /\ winPc' = "select" /\ winHeard' = "local"
  /\ UNCHANGED <<winWatch, captured, winRx, hookVars, bridge>>

(* The thread has ended: stop() goes on, and the receiver is dropped.      *)
WinStopDone ==
  /\ winPc \in WinStopping /\ hook = "off"
  /\ winCap' = [winCap EXCEPT !.active = FALSE]
  /\ captured' = 0 /\ winRx' = FALSE
  /\ winPc' = IF winPc = "stopExit" THEN "stopped" ELSE "select"
  /\ UNCHANGED <<winWatch, winHeard, skipped, hookVars, bridge>>

WinShutdown ==
  /\ winPc = "select" /\ winWatch.cancelled
  /\ \/ WinBeginStop("stopExit")
     \/ /\ ~winCap.active /\ winPc' = "stopped"
        /\ UNCHANGED <<winHeard, winCap, captured, winRx, skipped, hookVars, bridge>>
  /\ UNCHANGED winWatch

(* The coordinator aborts the task where it awaits something.              *)
WinAborted ==
  /\ winWatch.cancelled /\ winPc \in {"select", "forward"} \cup WinStopping
  /\ winPc' = "aborted" /\ winRx' = FALSE /\ captured' = 0
  /\ UNCHANGED <<winWatch, winHeard, winCap, skipped, hookVars, bridge>>

WinCommand ==
  /\ \/ \E f \in {"local", "remote"} :
          winWatch' = [winWatch EXCEPT !.focus = f, !.focusNew = TRUE]
     \/ \E k \in BOOLEAN : winWatch' = [winWatch EXCEPT !.kvm = k, !.kvmNew = TRUE]
     \/ winWatch' = [winWatch EXCEPT !.cancelled = TRUE]
  /\ UNCHANGED <<winActorVars, hookVars, bridge>>

HookStep == HookInstalls \/ HookChecks
WinActorStep ==
  \/ WinTake \/ WinSeeKvm \/ WinStart \/ WinAlreadyCapturing \/ WinKvmOff
  \/ WinSeeFocus \/ WinFollowFocus \/ WinStopDone \/ WinShutdown

WinNext ==
  \/ HookStep \/ BridgeStep \/ WinActorStep
  \/ PumpReturns \/ WinForwarded \/ WinAborted \/ WinCommand
  \/ KeyboardHook
  \/ \E moves \in BOOLEAN : MouseHook(moves)

WinSpec == WinInit /\ [][WinNext]_winVars

-----------------------------------------------------------------------------
(* stop() returns if the thread has not gone to sleep in GetMessageW yet;  *)
(* nothing the program does wakes it there.                                *)
StopsUnlessPumping ==
  (winPc \in WinStopping /\ hook # "pump") ~> (winPc \notin WinStopping)

(* The hooks swallow input only for a remote focus, but for a change the   *)
(* actor has still to see, has skipped because KVM was off just then, or   *)
(* will not see any more because it was aborted.                           *)
SwallowsForRemote ==
  winCap.grabbed /\ hook = "pump" =>
    \/ winWatch.focus = "remote" \/ winWatch.focusNew
    \/ skipped \/ winPc \in {"focus", "aborted"}
=============================================================================
