---------------------------- MODULE MCClipboard -----------------------------
(* Instances of Clipboard for TLC. *)
EXTENDS Clipboard

CONSTANTS a, b, big, m1, m2

Sent(kind, c) == [kind |-> kind, c |-> c]

(* A text, html (which leaves no text), and one that is dropped. *)
MCKinds == {Sent("text", a), Sent("html", b), Sent("text", big)}

MCTexts == {Sent("text", a), Sent("text", b)}
=============================================================================
