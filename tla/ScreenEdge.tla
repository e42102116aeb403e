----------------------------- MODULE ScreenEdge -----------------------------
(***************************************************************************)
(* Screen edge detection (EdgeDetector in crates/input/src/edge.rs): a     *)
(* cursor moves over displays, and each check of its position may send it  *)
(* over a linked edge.  The position is the raw one of the pointer, which  *)
(* may be one beyond the display.                                          *)
(***************************************************************************)
EXTENDS Displays

CONSTANTS
  Systems,    \* what the operating system may report
  LinkLists,  \* the configured links, sequences of [source, edge, target]
  DeadZones   \* the configured widths of the edge zone

Edges == {"Left", "Right", "Top", "Bottom"}
Display == [id : Nat, x : Int, y : Int, width : Nat \ {0}, height : Nat \ {0}]
Link == [source : Nat, edge : Edges, target : Nat]

(* Nothing is reported with an extent of 0.                                *)
ASSUME EdgeAssumption ==
  /\ \A os \in Systems : EnumerateDisplays(os) \in Seq(Display) \ {<<>>}
  /\ \A list \in LinkLists : list \in Seq(Link)

VARIABLES
  displays,  \* EdgeDetector.displays
  links,     \* EdgeDetector.links
  deadZone,  \* EdgeDetector.dead_zone
  cursor,    \* [d, x, y]
  crossing   \* the crossing that ended where the cursor is, if it has not moved

edgeVars == <<displays, links, deadZone, cursor, crossing>>

Opposite == [Left |-> "Right", Right |-> "Left", Top |-> "Bottom", Bottom |-> "Top"]
Sideways(edge) == edge \in {"Left", "Right"}

(* Vec::find: the first that matches, if there is one.                     *)
FirstOf(matching) == {i \in matching : \A j \in matching : i <= j}
WithId(id) ==
  {displays[i] : i \in FirstOf({i \in 1 .. Len(displays) : displays[i].id = id})}
LinksFrom(id, edge) ==
  {links[i] : i \in FirstOf({i \in 1 .. Len(links) :
                               links[i].source = id /\ links[i].edge = edge})}

(* The edges in the order they are tried: a corner belongs to the side.    *)
EdgeHit(d, x, y) ==
  IF x <= d.x + deadZone THEN "Left"
  ELSE IF x >= d.x + d.width - deadZone THEN "Right"
  ELSE IF y <= d.y + deadZone THEN "Top"
  ELSE IF y >= d.y + d.height - deadZone THEN "Bottom"
  ELSE "none"

(* The extent of a display along an edge, and the offset of a point on it. *)
Extent(d, edge) == IF Sideways(edge) THEN d.height ELSE d.width

Along(d, edge, x, y) == IF Sideways(edge) THEN y - d.y ELSE x - d.x

(* Mutant of Scaled: divides whole numbers. *)
ScaledWhole(o, from, to) == {(o \div from) * to}

(* (o / from * to) as i32.  The cast truncates; a quotient that is exact   *)
(* may come out of the floating-point division just below it.              *)
Scaled(o, from, to) ==
  LET n == IF o < 0 THEN -o ELSE o
      rounded == {r \in 0 .. n * to : r * from <= n * to /\ n * to <= (r + 1) * from}
  IN {IF o < 0 THEN -r ELSE r : r \in rounded}

(* map_coordinates: on the other side of the target, as far along it in    *)
(* proportion.                                                             *)
MapCoordinates(source, target, edge, x, y) ==
  {IF Sideways(edge)
     THEN [d |-> target.id, y |-> target.y + a,
           x |-> IF edge = "Left" THEN target.x + target.width - 1 ELSE target.x]
     ELSE [d |-> target.id, x |-> target.x + a,
           y |-> IF edge = "Top" THEN target.y + target.height - 1 ELSE target.y] :
   a \in Scaled(Along(source, edge, x, y), Extent(source, edge), Extent(target, edge))}

EdgeInit ==
  /\ \E os \in Systems : displays = EnumerateDisplays(os)
  /\ links \in LinkLists
  /\ deadZone \in DeadZones
  /\ cursor = [d |-> displays[1].id, x |-> displays[1].x, y |-> displays[1].y]
  /\ crossing = <<>>

MoveCursor ==
  /\ \E d \in WithId(cursor.d) :
       \E x \in d.x - 1 .. d.x + d.width, y \in d.y - 1 .. d.y + d.height :
         cursor' = [d |-> d.id, x |-> x, y |-> y]
  /\ crossing' = <<>>
  /\ UNCHANGED <<displays, links, deadZone>>

(* A target that is not among the displays is replaced by the source.      *)
Targets(id, source) == IF WithId(id) = {} THEN {source} ELSE WithId(id)

(* check() returns a Transition, and the cursor makes it.                  *)
CheckCrosses ==
  /\ \E source \in WithId(cursor.d) :
       LET edge == EdgeHit(source, cursor.x, cursor.y)
       IN \E link \in LinksFrom(source.id, edge) : \E target \in Targets(link.target, source) :
            /\ cursor' \in MapCoordinates(source, target, edge, cursor.x, cursor.y)
            /\ crossing' = <<[source |-> source, target |-> target, edge |-> edge,
                              at |-> Along(source, edge, cursor.x, cursor.y)]>>
  /\ UNCHANGED <<displays, links, deadZone>>

(* update_displays after a change of the outputs, upon which the system    *)
(* moves the pointer to one that is left.  The links stay: an identifier   *)
(* may now be another display's, or nobody's.                              *)
UpdateDisplays ==
  /\ \E os \in Systems : displays' = EnumerateDisplays(os)
  /\ cursor' = [d |-> displays'[1].id, x |-> displays'[1].x, y |-> displays'[1].y]
  /\ crossing' = <<>>
  /\ UNCHANGED <<links, deadZone>>

UpdateLinks ==
  /\ links' \in LinkLists
  /\ crossing' = <<>>
  /\ UNCHANGED <<displays, deadZone, cursor>>

EdgeNext == MoveCursor \/ CheckCrosses \/ UpdateDisplays \/ UpdateLinks

EdgeSpec == EdgeInit /\ [][EdgeNext]_edgeVars

-----------------------------------------------------------------------------
(* The second crossing undoes the first. *)
Undoes(first, second) ==
  /\ second.source = first.target /\ second.target = first.source
  /\ second.edge = Opposite[first.edge]

(* Straight back, the cursor is where it was but for a rounding down each  *)
(* way: less than one pixel of the other display, and one.                 *)
ReturnsNear ==
  [][\A i \in 1 .. Len(crossing), j \in 1 .. Len(crossing') :
       LET first == crossing[i]
           edge == first.edge
           back == Along(first.source, edge, cursor'.x, cursor'.y)
           near == Extent(first.source, edge) + Extent(first.target, edge)
       IN CheckCrosses /\ Undoes(first, crossing'[j]) /\ first.at >= 0 =>
            (first.at - back) * Extent(first.target, edge) \in 0 .. near
    ]_edgeVars
=============================================================================
