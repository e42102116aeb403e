---------------------------- MODULE InputProofs -----------------------------
(***************************************************************************)
(* Proofs about what is done with the input of the user: the hooks of      *)
(* Windows, and the edges of the screens.                                  *)
(***************************************************************************)
EXTENDS WindowsCapture, ScreenEdge, TLAPS

(***************************************************************************)
(* THE HOOKS.  They swallow input only for a remote focus, for every       *)
(* capacity and however KVM, the focus and the shutdown are toggled.       *)
(***************************************************************************)

WinTypeOK ==
  /\ winWatch \in [kvm : BOOLEAN, kvmNew : BOOLEAN, focus : {"local", "remote"},
                   focusNew : BOOLEAN, cancelled : BOOLEAN]
  /\ winCap \in [active : BOOLEAN, grabbed : BOOLEAN, stop : BOOLEAN]
  /\ skipped \in BOOLEAN

(* A focus that was read is the focus, unless a newer one waits.           *)
HeardIsNew == winPc = "focus" => winHeard = winWatch.focus \/ winWatch.focusNew

(* The flag is only up for a focus the actor has not yet to undo.          *)
GrabbedForRemote ==
  winCap.grabbed =>
    \/ winWatch.focus = "remote" \/ winWatch.focusNew
    \/ skipped \/ winPc \in {"focus", "aborted"}

WinInv == WinTypeOK /\ HeardIsNew /\ GrabbedForRemote

LEMMA WinInvInit == WinInit => WinInv
<1> SUFFICES ASSUME WinInit PROVE WinInv
  OBVIOUS
<1>1. winCap.grabbed = FALSE /\ winPc = "select"
  BY DEF WinInit
<1>2. WinTypeOK
  BY DEF WinInit, WinTypeOK
<1>3. QED
  BY <1>1, <1>2 DEF WinInv, HeardIsNew, GrabbedForRemote

(* What looks at none of this.                                             *)
LEMMA HookKeeps ==
  ASSUME WinInv, UNCHANGED <<winWatch, winPc, winHeard, winCap, skipped>>
  PROVE  WinInv'
BY DEF WinInv, WinTypeOK, HeardIsNew, GrabbedForRemote

LEMMA BeginStopKeeps ==
  ASSUME WinInv, NEW location \in WinStopping, WinBeginStop(location), UNCHANGED winWatch
  PROVE  WinInv'
<1>1. /\ winCap' \in [active : BOOLEAN, grabbed : BOOLEAN, stop : BOOLEAN]
      /\ winCap'.grabbed = FALSE
  BY DEF WinBeginStop, WinInv, WinTypeOK
<1>2. winPc' # "focus" /\ skipped' = FALSE
  BY DEF WinBeginStop, WinStopping
<1>3. QED
  BY <1>1, <1>2 DEF WinInv, WinTypeOK, HeardIsNew, GrabbedForRemote

(* The actor, but for the two steps that follow the focus.                 *)
LEMMA ActorStepKeeps ==
  ASSUME WinInv,
         \/ WinTake \/ WinForwarded \/ WinSeeKvm \/ WinStart \/ WinAlreadyCapturing
         \/ WinKvmOff \/ WinStopDone \/ WinShutdown \/ WinAborted
  PROVE  WinInv'
<1> USE DEF WinInv
<1>1. CASE WinTake \/ WinForwarded \/ WinAlreadyCapturing
  BY <1>1 DEF WinTake, WinForwarded, WinAlreadyCapturing, WinTypeOK, HeardIsNew, GrabbedForRemote
<1>2. CASE WinSeeKvm
  <2>1. /\ winWatch' \in [kvm : BOOLEAN, kvmNew : BOOLEAN, focus : {"local", "remote"},
                          focusNew : BOOLEAN, cancelled : BOOLEAN]
        /\ winWatch'.focus = winWatch.focus /\ winWatch'.focusNew = winWatch.focusNew
    BY <1>2 DEF WinSeeKvm, WinTypeOK
  <2>2. QED
    BY <2>1, <1>2 DEF WinSeeKvm, WinTypeOK, HeardIsNew, GrabbedForRemote
<1>3. CASE WinStart
  <2>1. /\ winCap' \in [active : BOOLEAN, grabbed : BOOLEAN, stop : BOOLEAN]
        /\ winCap'.grabbed = winCap.grabbed
    BY <1>3 DEF WinStart, WinTypeOK
  <2>2. QED
    BY <2>1, <1>3 DEF WinStart, WinTypeOK, HeardIsNew, GrabbedForRemote
<1>4. CASE WinKvmOff
  <2>1. CASE WinBeginStop("stopOff")
    BY <2>1, <1>4, BeginStopKeeps DEF WinKvmOff, WinStopping
  <2>2. CASE ~WinBeginStop("stopOff")
    BY <2>2, <1>4 DEF WinKvmOff, WinTypeOK, HeardIsNew, GrabbedForRemote
  <2>3. QED
    BY <2>1, <2>2
<1>5. CASE WinStopDone
  <2>1. /\ winCap' \in [active : BOOLEAN, grabbed : BOOLEAN, stop : BOOLEAN]
        /\ winCap'.grabbed = winCap.grabbed
    BY <1>5 DEF WinStopDone, WinTypeOK
  <2>2. winPc' \in {"stopped", "select"} /\ winPc \notin {"focus", "aborted"}
    BY <1>5 DEF WinStopDone, WinStopping
  <2>3. QED
    BY <2>1, <2>2, <1>5 DEF WinStopDone, WinTypeOK, HeardIsNew, GrabbedForRemote
<1>6. CASE WinShutdown
  <2>1. CASE WinBeginStop("stopExit")
    BY <2>1, <1>6, BeginStopKeeps DEF WinShutdown, WinStopping
  <2>2. CASE ~WinBeginStop("stopExit")
    BY <2>2, <1>6 DEF WinShutdown, WinTypeOK, HeardIsNew, GrabbedForRemote
  <2>3. QED
    BY <2>1, <2>2
<1>7. CASE WinAborted
  BY <1>7 DEF WinAborted, WinTypeOK, HeardIsNew, GrabbedForRemote
<1>8. QED
  BY <1>1, <1>2, <1>3, <1>4, <1>5, <1>6, <1>7

LEMMA FocusKeeps ==
  ASSUME WinInv, WinSeeFocus \/ WinFollowFocus
  PROVE  WinInv'
<1> USE DEF WinInv
<1>1. CASE WinSeeFocus
  <2>1. /\ winWatch' \in [kvm : BOOLEAN, kvmNew : BOOLEAN, focus : {"local", "remote"},
                          focusNew : BOOLEAN, cancelled : BOOLEAN]
        /\ winWatch'.focus = winWatch.focus
    BY <1>1 DEF WinSeeFocus, WinTypeOK
  <2>2. QED
    BY <2>1, <1>1 DEF WinSeeFocus, WinTypeOK, HeardIsNew, GrabbedForRemote
<1>2. CASE WinFollowFocus
  <2>1. winPc' = "select" /\ winPc = "focus" /\ UNCHANGED winWatch
    BY <1>2 DEF WinFollowFocus
  <2>2. CASE winWatch.kvm /\ winCap.active
    <3>1. /\ winCap' \in [active : BOOLEAN, grabbed : BOOLEAN, stop : BOOLEAN]
          /\ winCap'.grabbed = (winHeard = "remote")
          /\ skipped' = FALSE
      BY <2>2, <1>2 DEF WinFollowFocus, WinTypeOK
    <3>2. QED
      BY <3>1, <2>1 DEF WinTypeOK, HeardIsNew, GrabbedForRemote
  <2>3. CASE ~(winWatch.kvm /\ winCap.active)
    BY <2>1, <2>3, <1>2 DEF WinFollowFocus, WinTypeOK, HeardIsNew, GrabbedForRemote
  <2>4. QED
    BY <2>2, <2>3
<1>3. QED
  BY <1>1, <1>2

LEMMA CommandKeeps ==
  ASSUME WinInv, WinCommand
  PROVE  WinInv'
<1> USE DEF WinInv
<1>1. /\ winWatch' \in [kvm : BOOLEAN, kvmNew : BOOLEAN, focus : {"local", "remote"},
                        focusNew : BOOLEAN, cancelled : BOOLEAN]
      /\ winWatch'.focusNew \/ (winWatch'.focus = winWatch.focus /\ winWatch'.focusNew = winWatch.focusNew)
  BY DEF WinCommand, WinTypeOK
<1>2. UNCHANGED <<winPc, winHeard, winCap, skipped>>
  BY DEF WinCommand, winActorVars
<1>3. QED
  BY <1>1, <1>2 DEF WinTypeOK, HeardIsNew, GrabbedForRemote

LEMMA WinInvStep == WinInv /\ [WinNext]_winVars => WinInv'
<1> SUFFICES ASSUME WinInv, [WinNext]_winVars PROVE WinInv'
  OBVIOUS
<1>1. ASSUME \/ HookInstalls \/ HookChecks \/ BridgeStep \/ PumpReturns \/ KeyboardHook
             \/ (\E moves \in BOOLEAN : MouseHook(moves)) \/ UNCHANGED winVars
      PROVE  WinInv'
  <2>1. UNCHANGED <<winWatch, winPc, winHeard, winCap, skipped>>
    BY <1>1 DEF HookInstalls, HookChecks, BridgeStep, PumpReturns, KeyboardHook, MouseHook,
                winActorVars, winVars
  <2>2. QED
    BY <2>1, HookKeeps
<1>2. QED
  BY <1>1, ActorStepKeeps, FocusKeeps, CommandKeeps DEF WinNext, HookStep, WinActorStep

(* However the hook thread, the bridge, the actor and what it watches      *)
(* interleave (windows.rs, input_actor.rs): input is swallowed only while  *)
(* the focus is remote, but for the three cases the property names.        *)
THEOREM HooksSwallowForRemote == WinSpec => []SwallowsForRemote
<1>1. WinInv => SwallowsForRemote
  BY DEF WinInv, GrabbedForRemote, SwallowsForRemote
<1>2. QED
  BY WinInvInit, WinInvStep, <1>1, PTL DEF WinSpec

-----------------------------------------------------------------------------
(***************************************************************************)
(* THE EDGES.  Crossing there and back loses less than a pixel of either   *)
(* display, for displays of all sizes and positions.                       *)
(***************************************************************************)

(* A crossing has been made between two displays, over an edge of the      *)
(* first, and the cursor is on the second where its offset scales to.      *)
Crossed(c) ==
  /\ c.source \in Display /\ c.target \in Display /\ c.edge \in Edges
  /\ Along(c.target, c.edge, cursor.x, cursor.y)
       \in Scaled(c.at, Extent(c.source, c.edge), Extent(c.target, c.edge))
  /\ c.at \in Int

EdgeInv ==
  /\ displays \in Seq(Display) /\ links \in Seq(Link)
  /\ cursor.x \in Int /\ cursor.y \in Int
  /\ \A i \in 1 .. Len(crossing) : Crossed(crossing[i])

(* An offset in proportion: no more than exact, and less by no more than   *)
(* one.                                                                    *)
LEMMA ScaledBounds ==
  ASSUME NEW o \in Nat, NEW from \in Nat \ {0}, NEW to \in Nat \ {0},
         NEW a \in Scaled(o, from, to)
  PROVE  a \in Nat /\ a * from <= o * to /\ o * to <= (a + 1) * from
BY DEF Scaled

LEMMA ScaledWholeNumbers ==
  ASSUME NEW o \in Int, NEW from \in Nat \ {0}, NEW to \in Nat \ {0},
         NEW a \in Scaled(o, from, to)
  PROVE  a \in Int
BY DEF Scaled

(* There and back.                                                         *)
LEMMA ScaledTwice ==
  ASSUME NEW o \in Nat, NEW s \in Nat \ {0}, NEW t \in Nat \ {0},
         NEW a \in Scaled(o, s, t), NEW b \in Scaled(a, t, s)
  PROVE  (o - b) * t \in 0 .. s + t
<1>1. a \in Nat /\ a * s <= o * t /\ o * t <= (a + 1) * s
  BY ScaledBounds
<1>2. b \in Nat /\ b * t <= a * s /\ a * s <= (b + 1) * t
  BY <1>1, ScaledBounds
<1>3. /\ (o - b) * t = o * t - b * t
      /\ (a + 1) * s = a * s + s /\ (b + 1) * t = b * t + t
      /\ o * t \in Int /\ b * t \in Int /\ a * s \in Int
  BY <1>1, <1>2
<1>4. QED BY <1>1, <1>2, <1>3

LEMMA Found ==
  ASSUME EdgeInv, NEW id
  PROVE  /\ WithId(id) \subseteq Display
         /\ \A d \in Display : Targets(id, d) \subseteq Display
<1>1. \A i \in 1 .. Len(displays) : displays[i] \in Display
  BY DEF EdgeInv
<1>2. ASSUME NEW d \in WithId(id) PROVE d \in Display
  BY <1>1 DEF WithId, FirstOf
<1>3. QED BY <1>2 DEF Targets

LEMMA LinkedEdge ==
  ASSUME EdgeInv, NEW id, NEW edge, NEW l \in LinksFrom(id, edge)
  PROVE  edge \in Edges
<1>1. \A i \in 1 .. Len(links) : links[i] \in Link
  BY DEF EdgeInv
<1>2. QED BY <1>1 DEF LinksFrom, FirstOf, Link

LEMMA Extents ==
  ASSUME NEW d \in Display, NEW edge \in Edges, NEW x \in Int, NEW y \in Int
  PROVE  /\ Extent(d, edge) \in Nat \ {0} /\ Along(d, edge, x, y) \in Int
         /\ d.x \in Int /\ d.y \in Int /\ d.width \in Nat /\ d.height \in Nat
BY DEF Display, Extent, Along

(* Where on the target the cursor comes to be.                             *)
LEMMA Mapped ==
  ASSUME NEW source \in Display, NEW target \in Display, NEW edge \in Edges,
         NEW x \in Int, NEW y \in Int,
         NEW c \in MapCoordinates(source, target, edge, x, y)
  PROVE  /\ c.x \in Int /\ c.y \in Int
         /\ Along(target, edge, c.x, c.y)
              \in Scaled(Along(source, edge, x, y), Extent(source, edge), Extent(target, edge))
<1>1. PICK a \in Scaled(Along(source, edge, x, y), Extent(source, edge), Extent(target, edge)) :
        c = IF Sideways(edge)
              THEN [d |-> target.id, y |-> target.y + a,
                    x |-> IF edge = "Left" THEN target.x + target.width - 1 ELSE target.x]
              ELSE [d |-> target.id, x |-> target.x + a,
                    y |-> IF edge = "Top" THEN target.y + target.height - 1 ELSE target.y]
  BY DEF MapCoordinates
<1>2. a \in Int
  BY Extents, ScaledWholeNumbers
<1>3. /\ target.x \in Int /\ target.y \in Int /\ target.width \in Nat /\ target.height \in Nat
  BY Extents
<1>4. Along(target, edge, c.x, c.y) = a /\ c.x \in Int /\ c.y \in Int
  BY <1>1, <1>2, <1>3 DEF Along
<1>5. QED BY <1>4

LEMMA CrossedBy ==
  ASSUME EdgeInv, CheckCrosses
  PROVE  \E source, target \in Display, edge \in Edges :
           /\ cursor' \in MapCoordinates(source, target, edge, cursor.x, cursor.y)
           /\ crossing' = <<[source |-> source, target |-> target, edge |-> edge,
                             at |-> Along(source, edge, cursor.x, cursor.y)]>>
<1>1. PICK source \in WithId(cursor.d) :
        LET edge == EdgeHit(source, cursor.x, cursor.y)
        IN \E link \in LinksFrom(source.id, edge) : \E target \in Targets(link.target, source) :
            /\ cursor' \in MapCoordinates(source, target, edge, cursor.x, cursor.y)
            /\ crossing' = <<[source |-> source, target |-> target, edge |-> edge,
                              at |-> Along(source, edge, cursor.x, cursor.y)]>>
  BY DEF CheckCrosses
<1> DEFINE edge == EdgeHit(source, cursor.x, cursor.y)
<1>2. PICK link \in LinksFrom(source.id, edge) : \E target \in Targets(link.target, source) :
            /\ cursor' \in MapCoordinates(source, target, edge, cursor.x, cursor.y)
            /\ crossing' = <<[source |-> source, target |-> target, edge |-> edge,
                              at |-> Along(source, edge, cursor.x, cursor.y)]>>
  BY <1>1
<1>3. PICK target \in Targets(link.target, source) :
            /\ cursor' \in MapCoordinates(source, target, edge, cursor.x, cursor.y)
            /\ crossing' = <<[source |-> source, target |-> target, edge |-> edge,
                              at |-> Along(source, edge, cursor.x, cursor.y)]>>
  BY <1>2
<1>4. source \in Display /\ target \in Display /\ edge \in Edges
  BY Found, LinkedEdge
<1>5. QED BY <1>3, <1>4

LEMMA EdgeInvInit == EdgeInit => EdgeInv
<1> SUFFICES ASSUME EdgeInit PROVE EdgeInv
  OBVIOUS
<1>1. displays \in Seq(Display) \ {<<>>} /\ links \in Seq(Link)
  BY EdgeAssumption DEF EdgeInit, EdgeAssumption
<1>2. displays[1].x \in Int /\ displays[1].y \in Int
  <2>1. displays[1] \in Display
    BY <1>1
  <2>2. QED BY <2>1 DEF Display
<1>3. QED BY <1>1, <1>2 DEF EdgeInit, EdgeInv

LEMMA EdgeInvStep == EdgeInv /\ [EdgeNext]_edgeVars => EdgeInv'
<1> SUFFICES ASSUME EdgeInv, [EdgeNext]_edgeVars PROVE EdgeInv'
  OBVIOUS
<1>1. CASE MoveCursor
  <2>1. PICK d \in Display :
          \E x \in d.x - 1 .. d.x + d.width, y \in d.y - 1 .. d.y + d.height :
            cursor' = [d |-> d.id, x |-> x, y |-> y]
    BY <1>1, Found DEF MoveCursor
  <2>2. cursor'.x \in Int /\ cursor'.y \in Int
    BY <2>1
  <2>3. QED BY <1>1, <2>2 DEF MoveCursor, EdgeInv
<1>2. CASE CheckCrosses
  <2>1. PICK source \in Display, target \in Display, edge \in Edges :
          /\ cursor' \in MapCoordinates(source, target, edge, cursor.x, cursor.y)
          /\ crossing' = <<[source |-> source, target |-> target, edge |-> edge,
                            at |-> Along(source, edge, cursor.x, cursor.y)]>>
    BY <1>2, CrossedBy
  <2>2. cursor.x \in Int /\ cursor.y \in Int
    BY DEF EdgeInv
  <2>3. /\ cursor'.x \in Int /\ cursor'.y \in Int
        /\ Along(target, edge, cursor'.x, cursor'.y)
             \in Scaled(Along(source, edge, cursor.x, cursor.y),
                        Extent(source, edge), Extent(target, edge))
    BY <2>1, <2>2, Mapped
  <2>4. Along(source, edge, cursor.x, cursor.y) \in Int
    BY <2>2, Extents
  <2>5. Len(crossing') = 1 /\ Crossed(crossing[1])'
    BY <2>1, <2>3, <2>4 DEF Crossed
  <2>6. QED BY <1>2, <2>3, <2>5 DEF CheckCrosses, EdgeInv
<1>3. CASE UpdateDisplays
  <2>1. displays' \in Seq(Display) \ {<<>>}
    BY <1>3, EdgeAssumption DEF UpdateDisplays, EdgeAssumption
  <2>2. displays'[1].x \in Int /\ displays'[1].y \in Int
    <3>1. displays'[1] \in Display
      BY <2>1
    <3>2. QED BY <3>1 DEF Display
  <2>3. QED BY <1>3, <2>1, <2>2 DEF UpdateDisplays, EdgeInv
<1>4. CASE UpdateLinks
  BY <1>4, EdgeAssumption DEF UpdateLinks, EdgeInv, EdgeAssumption
<1>5. CASE UNCHANGED edgeVars
  BY <1>5 DEF edgeVars, EdgeInv, Crossed
<1>6. QED BY <1>1, <1>2, <1>3, <1>4, <1>5 DEF EdgeNext

LEMMA BackNear ==
  ASSUME EdgeInv, CheckCrosses, NEW i \in 1 .. Len(crossing), NEW j \in 1 .. Len(crossing'),
         Undoes(crossing[i], crossing'[j]), crossing[i].at >= 0
  PROVE  LET first == crossing[i]
             back == Along(first.source, first.edge, cursor'.x, cursor'.y)
         IN (first.at - back) * Extent(first.target, first.edge)
              \in 0 .. Extent(first.source, first.edge) + Extent(first.target, first.edge)
<1>1. PICK source \in Display, target \in Display, edge \in Edges :
        /\ cursor' \in MapCoordinates(source, target, edge, cursor.x, cursor.y)
        /\ crossing' = <<[source |-> source, target |-> target, edge |-> edge,
                          at |-> Along(source, edge, cursor.x, cursor.y)]>>
  BY CrossedBy
<1>2. crossing'[j] = [source |-> source, target |-> target, edge |-> edge,
                      at |-> Along(source, edge, cursor.x, cursor.y)]
  BY <1>1
<1>3. PICK first : first = crossing[i]
  OBVIOUS
<1>4. Crossed(first) /\ first.at \in Nat
  BY <1>3 DEF EdgeInv, Crossed
<1>5. first.source = target /\ first.target = source /\ edge = Opposite[first.edge]
  BY <1>2, <1>3 DEF Undoes
<1>6. Sideways(edge) = Sideways(first.edge) /\ first.edge \in Edges
  BY <1>4, <1>5 DEF Crossed, Edges, Opposite, Sideways
<1>7. /\ Extent(source, edge) = Extent(source, first.edge)
      /\ Extent(target, edge) = Extent(target, first.edge)
      /\ Along(source, edge, cursor.x, cursor.y) = Along(source, first.edge, cursor.x, cursor.y)
      /\ Along(target, edge, cursor'.x, cursor'.y) = Along(target, first.edge, cursor'.x, cursor'.y)
  BY <1>6 DEF Extent, Along
<1>8. Along(target, first.edge, cursor'.x, cursor'.y)
        \in Scaled(Along(source, first.edge, cursor.x, cursor.y),
                   Extent(source, first.edge), Extent(target, first.edge))
  BY <1>1, <1>7, Mapped DEF EdgeInv
<1>9. Along(source, first.edge, cursor.x, cursor.y)
        \in Scaled(first.at, Extent(target, first.edge), Extent(source, first.edge))
  BY <1>4, <1>5 DEF Crossed
<1>10. Extent(source, first.edge) \in Nat \ {0} /\ Extent(target, first.edge) \in Nat \ {0}
  BY <1>6, Extents, 0 \in Int
<1>11. (first.at - Along(target, first.edge, cursor'.x, cursor'.y)) * Extent(source, first.edge)
         \in 0 .. Extent(target, first.edge) + Extent(source, first.edge)
  BY <1>4, <1>8, <1>9, <1>10, ScaledTwice
<1>12. QED BY <1>3, <1>5, <1>11

(* A cursor that crosses a linked edge and comes straight back is where it *)
(* was but for one pixel of either display, for all sizes and positions of *)
(* displays (map_coordinates in edge.rs).                                  *)
THEOREM CrossingReturns == EdgeSpec => ReturnsNear
<1>1. EdgeInv => \A i \in 1 .. Len(crossing), j \in 1 .. Len(crossing') :
       LET first == crossing[i]
           edge == first.edge
           back == Along(first.source, edge, cursor'.x, cursor'.y)
           near == Extent(first.source, edge) + Extent(first.target, edge)
       IN CheckCrosses /\ Undoes(first, crossing'[j]) /\ first.at >= 0 =>
            (first.at - back) * Extent(first.target, edge) \in 0 .. near
  BY BackNear
<1>2. QED BY <1>1, EdgeInvInit, EdgeInvStep, PTL DEF EdgeSpec, ReturnsNear
=============================================================================
