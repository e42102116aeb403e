------------------------------- MODULE MCParts --------------------------------
(* An instance of Parts for TLC. *)
EXTENDS Parts

(* The lengths around every boundary of the real packets: no, one, two     *)
(* packets, the last numbered packet.                                      *)
MCRealLens ==
  {0, 1, 56, 57, 58, 59, 115, 116, 117, 174, 175, 176, 7550, 7551, 7608, 7609,
   7610}

(* Small screens: two of different size side by side, none, three outputs  *)
(* of which one is off and one has no mode, one left of the primary, and a *)
(* system that cannot be asked.                                            *)
Output(x, y, w, h, usable, sized) ==
  [x |-> x, y |-> y, size |-> <<w, h>>, usable |-> usable, sized |-> sized]
System(server, up, outputs) ==
  [server |-> server, up |-> up, outputs |-> outputs, screen |-> <<3, 2>>]
MCSystems == {
  System("x11", TRUE, <<Output(0, 0, 6, 4, TRUE, TRUE), Output(6, 1, 4, 7, TRUE, TRUE)>>),
  System("x11", TRUE, <<>>),
  System("wayland", TRUE, <<Output(0, 0, 2, 3, FALSE, TRUE), Output(0, 0, 3, 3, TRUE, TRUE),
                            Output(0, 0, 1, 1, TRUE, FALSE)>>),
  System("windows", TRUE, <<Output(-2, 0, 2, 2, TRUE, TRUE), Output(0, 0, 3, 4, FALSE, TRUE)>>),
  System("unknown", FALSE, <<>>)}
MCSize == <<4, 3>>

(* A pair side by side, linked also below and above, and crossed links of  *)
(* which one leads to a display of another machine.                        *)
Linked(s, e, t) == [source |-> s, edge |-> e, target |-> t]
MCLinks == {
  <<Linked(0, "Right", 1), Linked(1, "Left", 0), Linked(0, "Bottom", 1), Linked(1, "Top", 0)>>,
  <<Linked(0, "Left", 1), Linked(1, "Right", 0), Linked(0, "Top", 0), Linked(0, "Bottom", 7)>>}
=============================================================================
