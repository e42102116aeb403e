----------------------------- MODULE MCPeerNet ------------------------------
(* Instances of PeerNet for TLC. *)
EXTENDS PeerNet, TLC

Symmetry == Permutations(Node)

MCAll == {<<n, m>> \in Node \X Node : n # m}

(* Three machines in a ring. *)
CONSTANTS n1, n2, n3
MCRing == {<<n1, n2>>, <<n2, n3>>, <<n3, n1>>}
=============================================================================
