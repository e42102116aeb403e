------------------------------ MODULE MCDaemon ------------------------------
(* Instances of Daemon for TLC. *)
EXTENDS Daemon, FiniteSets

(* What peers may make the network actor forward, by theme. *)
MCFocusEvents ==
  [kind : {"ScreenEnter"}, peer : RemotePeers] \cup [kind : {"ScreenLeave"}]

MCServedEvents ==
  [kind : {"ScreenEnter"}, peer : RemotePeers] \cup [kind : {"IncomingInput"}, n : {MaxBatch}]

(* One event for every handler, and so for every channel the coordinator   *)
(* may have to wait for.                                                   *)
MCRoutes ==
  [kind : {"ScreenEnter", "Clipboard", "PeerConnected", "PeerDisconnected"},
   peer : RemotePeers]
    \cup [kind : {"IncomingInput"}, n : {MaxBatch}]
=============================================================================
