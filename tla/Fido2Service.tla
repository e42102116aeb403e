---------------------------- MODULE Fido2Service ----------------------------
(***************************************************************************)
(* What Fido2Relay promises about the requests it forwards: each is        *)
(* answered at most once, on the channel that made it, and never after it  *)
(* was cancelled or refused.  No queues, packets or tables.                *)
(***************************************************************************)
EXTENDS Naturals, Sequences

CONSTANT Request  \* records [id, chan]

VARIABLES
  asked,   \* every request accepted so far
  void,    \* those cancelled or refused
  answers  \* the requests answered, in order

vars == <<asked, void, answers>>

Answered == {answers[i] : i \in 1 .. Len(answers)}
Open == asked \ (void \cup Answered)

Init == asked = {} /\ void = {} /\ answers = <<>>

Ask(r) ==
  /\ \A a \in asked : a.id # r.id
  /\ asked' = asked \cup {r}
  /\ UNCHANGED <<void, answers>>

Answer(r) ==
  /\ r \in Open
  /\ answers' = Append(answers, r)
  /\ UNCHANGED <<asked, void>>

(* A channel cancels all its requests. *)
Cancel(c) ==
  /\ void' = void \cup {r \in asked : r.chan = c}
  /\ UNCHANGED <<asked, answers>>

(* The network has gone. *)
Refuse(r) ==
  /\ r \in Open
  /\ void' = void \cup {r}
  /\ UNCHANGED <<asked, answers>>

Next ==
  \/ \E r \in Request : Ask(r) \/ Answer(r) \/ Refuse(r)
  \/ \E c \in {r.chan : r \in asked} : Cancel(c)

Spec == Init /\ [][Next]_vars

(* No request is answered twice.                                           *)
AtMostOnce ==
  \A i, j \in 1 .. Len(answers) : answers[i].id = answers[j].id => i = j
=============================================================================
