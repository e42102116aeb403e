------------------------------ MODULE Displays ------------------------------
(***************************************************************************)
(* The enumeration of displays (crates/core/src/display.rs).  What the     *)
(* operating system reports is a record: which system it is, whether it    *)
(* can be asked (up), the outputs in its order, and the size of the whole  *)
(* screen.  An output is usable if DRM reports it connected, or Windows    *)
(* its rectangle; sized if its mode can be parsed.                         *)
(***************************************************************************)
EXTENDS Integers, Sequences

CONSTANT DefaultSize  \* of default_display: <<width, height>>

ASSUME DisplaysAssumption == DefaultSize \in (Nat \ {0}) \X (Nat \ {0})

DisplayOf(id, x, y, size) ==
  [id |-> id, x |-> x, y |-> y, width |-> size[1], height |-> size[2]]

DefaultDisplay == DisplayOf(0, 0, 0, DefaultSize)

(* Every monitor, numbered from 0, or one display for the whole screen.    *)
EnumerateX11(os) ==
  LET n == Len(os.outputs) IN
  IF n = 0 THEN <<DisplayOf(0, 0, 0, os.screen)>>
  ELSE [i \in 1 .. n |->
          DisplayOf(i - 1, os.outputs[i].x, os.outputs[i].y, os.outputs[i].size)]

(* The connected outputs are numbered; their positions are not known.      *)
EnumerateDrm(os) ==
  LET on == SelectSeq(os.outputs, LAMBDA o : o.usable) IN
  [i \in 1 .. Len(on) |->
     DisplayOf(i - 1, 0, 0, IF on[i].sized THEN on[i].size ELSE DefaultSize)]

(* All monitors are numbered, then those without information left out.     *)
EnumerateWindows(os) ==
  SelectSeq([i \in 1 .. Len(os.outputs) |->
               [id |-> i - 1, x |-> os.outputs[i].x, y |-> os.outputs[i].y,
                width |-> os.outputs[i].size[1], height |-> os.outputs[i].size[2]]],
            LAMBDA d : os.outputs[d.id + 1].usable)

(* A failed or empty enumeration is replaced by the default display.       *)
EnumerateDisplays(os) ==
  LET found ==
        CASE ~os.up -> <<>>
          [] os.up /\ os.server = "x11" -> EnumerateX11(os)
          [] os.up /\ os.server = "windows" -> EnumerateWindows(os)
          [] os.up /\ os.server \notin {"x11", "windows"} -> EnumerateDrm(os)
  IN IF found = <<>> THEN <<DefaultDisplay>> ELSE found
=============================================================================
