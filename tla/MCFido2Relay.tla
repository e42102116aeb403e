---------------------------- MODULE MCFido2Relay ----------------------------
(* Instances of Fido2Relay for TLC. *)
EXTENDS Fido2Relay, TLC

CONSTANTS c1, c2

Symmetry == Permutations(Clients)
=============================================================================
