------------------------------ MODULE PeerNet -------------------------------
(***************************************************************************)
(* The network actors of several machines and the QUIC connections between *)
(* them: NetworkActor::run (crates/daemon/src/actors/network_actor.rs)     *)
(* with PeerManager (crates/network/src/peer_manager.rs) and the transport *)
(* (crates/network/src/quic.rs).                                           *)
(*                                                                         *)
(* A network actor is one task: while it awaits inside one select! branch, *)
(* a handshake or a send, it serves no other, so it answers no Hello and   *)
(* does not see the shutdown signal.  A second task accepts connections    *)
(* into a queue.  Every message is one unidirectional stream; a stream     *)
(* that the other side has not read occupies one of the Credit streams it  *)
(* allows.  After the handshake nothing reads a connection.                *)
(***************************************************************************)
EXTENDS Naturals, Sequences, FiniteSets

CONSTANTS
  Node,         \* the machines; a machine's name is also its peer id
  Knows,        \* <<n, m>>: n learns m's address, by mDNS or from the user
  MaxDials,     \* bound: dials of one machine to one other
  PmCap,        \* capacity of the PeerManagerEvent channel     (64)
  IncomingCap,  \* capacity of the queue of accepted connections (16)
  Credit,       \* max_concurrent_uni_streams                   (100)
  None,         \* no connection
  Happens       \* which of "send", "disconnect", "leave", "loss" occur

(* The no-th connection that machine from opens to machine to. *)
Conn == {c \in [from : Node, to : Node, no : 1 .. MaxDials] :
           (<<c.from, c.to>> \in Knows)}

ASSUME PeerNetAssumption ==
  /\ Knows \subseteq Node \X Node /\ \A n \in Node : <<n, n>> \notin Knows
  /\ MaxDials \in Nat
  /\ PmCap \in Nat \ {0}
  /\ IncomingCap \in Nat \ {0}
  /\ Credit \in Nat \ {0}
  /\ None \notin Conn
  /\ Happens \subseteq {"send", "disconnect", "leave", "loss"}

VARIABLES
  at,         \* where each network task is
  cur,        \* the connection its current branch works on
  todo,       \* the peers a send to all has still to reach
  peers,      \* PeerManager.peers: peer id -> connection
  pmq,        \* PeerManagerEvents the task has sent to itself
  accepting,  \* the accept task has not ended
  incoming,   \* accepted connections, the one the accept task holds included
  status,     \* DaemonState.peers: the entries of each peer, up to 2
  stage,      \* of each connection: "unused", "offered", "taken"
  live,       \* of each connection: the ends that see it open
  inbox,      \* of each connection and end: streams it has not read
  calm        \* history: nothing was left, disconnected or lost so far

taskVars == <<at, cur, todo>>
connVars == <<stage, live, inbox>>
vars == <<taskVars, peers, pmq, accepting, incoming, status, connVars, calm>>

Locations == {"select", "dial", "welcome", "hello", "announce", "bye",
              "send", "down"}
PmEvent == [kind : {"PeerConnected", "PeerDisconnected"}, peer : Node]

Other(n, c) == IF c.from = n THEN c.to ELSE c.from

TypeOK ==
  /\ at \in [Node -> Locations]
  /\ cur \in [Node -> Conn \cup {None}]
  /\ todo \in [Node -> SUBSET Node]
  /\ peers \in [Node -> [Node -> Conn \cup {None}]]
  /\ pmq \in [Node -> Seq(PmEvent)]
  /\ \A n \in Node : Len(pmq[n]) <= PmCap
  /\ accepting \in [Node -> BOOLEAN]
  /\ incoming \in [Node -> Seq(Conn)]
  /\ \A n \in Node : Len(incoming[n]) <= IncomingCap + 1
  /\ status \in [Node -> [Node -> 0 .. 2]]
  /\ stage \in [Conn -> {"unused", "offered", "taken"}]
  /\ live \in [Conn -> SUBSET Node]
  /\ inbox \in [Conn -> [Node -> Seq({"hello", "welcome", "other"})]]
  /\ \A c \in Conn, n \in Node : Len(inbox[c][n]) <= Credit
  /\ calm \in BOOLEAN

Init ==
  /\ at = [n \in Node |-> "select"]
  /\ cur = [n \in Node |-> None]
  /\ todo = [n \in Node |-> {}]
  /\ peers = [n \in Node |-> [m \in Node |-> None]]
  /\ pmq = [n \in Node |-> <<>>]
  /\ accepting = [n \in Node |-> TRUE]
  /\ incoming = [n \in Node |-> <<>>]
  /\ status = [n \in Node |-> [m \in Node |-> 0]]
  /\ stage = [c \in Conn |-> "unused"]
  /\ live = [c \in Conn |-> {}]
  /\ inbox = [c \in Conn |-> [n \in Node |-> <<>>]]
  /\ calm = TRUE

Goto(n, loc, c) == at' = [at EXCEPT ![n] = loc] /\ cur' = [cur EXCEPT ![n] = c]
Back(n) == Goto(n, "select", None)

(* close(), or the last handle of the connection is dropped. *)
Close(n, c) == live' = [live EXCEPT ![c] = @ \ {n}]

HasRoom(n, c) == Len(inbox[c][Other(n, c)]) < Credit

(* open_uni, write, finish. *)
Stream(n, c, msg) ==
  /\ HasRoom(n, c)
  /\ inbox' = [inbox EXCEPT ![c][Other(n, c)] = Append(@, msg)]

-----------------------------------------------------------------------------
(* connect_to: for a ConnectPeer command or a PeerDiscovered event.        *)

Dial(n, m) ==
  /\ at[n] = "select"
  /\ \E c \in Conn :
       /\ c.from = n /\ c.to = m /\ stage[c] = "unused"
       /\ \A d \in Conn : d.from = n /\ d.to = m /\ d.no < c.no
                            => stage[d] # "unused"
       /\ stage' = [stage EXCEPT ![c] = "offered"]
       /\ Goto(n, "dial", c)
  /\ UNCHANGED <<todo, peers, pmq, accepting, incoming, status, live, inbox, calm>>

Dialing(c) == at[c.from] = "dial" /\ cur[c.from] = c

(* The accept task: transport.accept() and incoming_tx.send(conn). *)
CanAccept(m) == accepting[m] /\ Len(incoming[m]) <= IncomingCap

Accept(m) ==
  /\ CanAccept(m)
  /\ \E c \in Conn :
       /\ c.to = m /\ stage[c] = "offered" /\ Dialing(c)
       /\ stage' = [stage EXCEPT ![c] = "taken"]
       /\ live' = [live EXCEPT ![c] = {c.from, c.to}]
       /\ incoming' = [incoming EXCEPT ![m] = Append(@, c)]
  /\ UNCHANGED <<taskVars, peers, pmq, accepting, status, inbox, calm>>

(* The dialer has gone during the QUIC handshake: accept() returns an      *)
(* error and the accept task ends.                                         *)
AcceptFails(m) ==
  /\ CanAccept(m)
  /\ \E c \in Conn :
       /\ c.to = m /\ stage[c] = "offered" /\ ~Dialing(c)
       /\ stage' = [stage EXCEPT ![c] = "taken"]
  /\ accepting' = [accepting EXCEPT ![m] = FALSE]
  /\ UNCHANGED <<taskVars, peers, pmq, incoming, status, live, inbox, calm>>

(* transport.connect times out. *)
DialFails(n) ==
  /\ at[n] = "dial" /\ stage[cur[n]] = "offered"
  /\ "loss" \in Happens \/ ~CanAccept(cur[n].to)
  /\ Back(n)
  /\ calm' = (calm /\ ~CanAccept(cur[n].to))
  /\ UNCHANGED <<todo, peers, pmq, accepting, incoming, status, connVars>>

(* Mutant of SendHello: the peer counts as connected without a Welcome. *)
SendHelloEager(n) ==
  /\ at[n] = "dial" /\ n \in live[cur[n]]
  /\ Stream(n, cur[n], "hello")
  /\ Goto(n, "announce", cur[n])
  /\ UNCHANGED <<todo, peers, pmq, accepting, incoming, status, stage, live, calm>>

SendHello(n) ==
  /\ at[n] = "dial" /\ n \in live[cur[n]]
  /\ Stream(n, cur[n], "hello")
  /\ Goto(n, "welcome", cur[n])
  /\ UNCHANGED <<todo, peers, pmq, accepting, incoming, status, stage, live, calm>>

RecvWelcome(n) ==
  /\ at[n] = "welcome" /\ inbox[cur[n]][n] # <<>>
  /\ inbox' = [inbox EXCEPT ![cur[n]][n] = Tail(@)]
  /\ IF Head(inbox[cur[n]][n]) = "welcome"
       THEN Goto(n, "announce", cur[n]) /\ UNCHANGED live
       ELSE Back(n) /\ Close(n, cur[n])
  /\ UNCHANGED <<todo, peers, pmq, accepting, incoming, status, stage, calm>>

(* handle_incoming: await Hello, send Welcome. *)
TakeIncoming(n) ==
  /\ at[n] = "select" /\ incoming[n] # <<>>
  /\ incoming' = [incoming EXCEPT ![n] = Tail(@)]
  /\ Goto(n, "hello", Head(incoming[n]))
  /\ UNCHANGED <<todo, peers, pmq, accepting, status, connVars, calm>>

RecvHello(n) ==
  LET c == cur[n] IN
  /\ at[n] = "hello" /\ n \in live[c] /\ inbox[c][n] # <<>>
  /\ IF Head(inbox[c][n]) = "hello"
       THEN /\ HasRoom(n, c)
            /\ inbox' = [inbox EXCEPT ![c][n] = Tail(@),
                           ![c][c.from] = Append(inbox[c][c.from], "welcome")]
            /\ Goto(n, "announce", c)
            /\ UNCHANGED live
       ELSE /\ inbox' = [inbox EXCEPT ![c][n] = Tail(@)]
            /\ Back(n) /\ Close(n, c)
  /\ UNCHANGED <<todo, peers, pmq, accepting, incoming, status, stage, calm>>

(* Mutant of HandshakeFails: only the dialer notices the loss, in connect. *)
HandshakeFailsLate(n) ==
  /\ at[n] \in {"dial", "hello"}
  /\ stage[cur[n]] = "taken" /\ n \notin live[cur[n]]
  /\ Back(n)
  /\ UNCHANGED <<todo, peers, pmq, accepting, incoming, status, connVars, calm>>

(* The connection is lost before the handshake is complete.  What had      *)
(* already arrived may still be read (RecvWelcome), but nothing be sent.   *)
HandshakeFails(n) ==
  /\ at[n] \in {"dial", "welcome", "hello"}
  /\ stage[cur[n]] = "taken" /\ n \notin live[cur[n]]
  /\ Back(n)
  /\ UNCHANGED <<todo, peers, pmq, accepting, incoming, status, connVars, calm>>

(* Mutants of Announce: an unbounded event channel; try_send, which loses  *)
(* the event when the channel is full; and a dialer that keeps the         *)
(* connection it had.                                                      *)
AnnounceUnbounded(n) ==
  LET c == cur[n]  p == Other(n, c) IN
  /\ at[n] = "announce"
  /\ pmq' = [pmq EXCEPT ![n] = Append(@, [kind |-> "PeerConnected", peer |-> p])]
  /\ peers' = [peers EXCEPT ![n][p] = c]
  /\ IF peers[n][p] = None THEN UNCHANGED live ELSE Close(n, peers[n][p])
  /\ Back(n)
  /\ UNCHANGED <<todo, accepting, incoming, status, stage, inbox, calm>>

AnnounceLossy(n) ==
  LET c == cur[n]  p == Other(n, c) IN
  /\ at[n] = "announce"
  /\ pmq' = [pmq EXCEPT ![n] =
       IF Len(@) < PmCap THEN Append(@, [kind |-> "PeerConnected", peer |-> p]) ELSE @]
  /\ peers' = [peers EXCEPT ![n][p] = c]
  /\ IF peers[n][p] = None THEN UNCHANGED live ELSE Close(n, peers[n][p])
  /\ Back(n)
  /\ UNCHANGED <<todo, accepting, incoming, status, stage, inbox, calm>>

AnnounceKeeping(n) ==
  LET c == cur[n]  p == Other(n, c)  keep == c.from = n /\ peers[n][p] # None IN
  /\ at[n] = "announce" /\ Len(pmq[n]) < PmCap
  /\ pmq' = [pmq EXCEPT ![n] = Append(@, [kind |-> "PeerConnected", peer |-> p])]
  /\ peers' = IF keep THEN peers ELSE [peers EXCEPT ![n][p] = c]
  /\ IF peers[n][p] = None THEN UNCHANGED live
       ELSE Close(n, IF keep THEN c ELSE peers[n][p])
  /\ Back(n)
  /\ UNCHANGED <<todo, accepting, incoming, status, stage, inbox, calm>>

(* Both ends: emit PeerConnected, then insert, which drops the connection  *)
(* the map held for this peer.                                             *)
Announce(n) ==
  LET c == cur[n]  p == Other(n, c) IN
  /\ at[n] = "announce" /\ Len(pmq[n]) < PmCap
  /\ pmq' = [pmq EXCEPT ![n] = Append(@, [kind |-> "PeerConnected", peer |-> p])]
  /\ peers' = [peers EXCEPT ![n][p] = c]
  /\ IF peers[n][p] = None THEN UNCHANGED live ELSE Close(n, peers[n][p])
  /\ Back(n)
  /\ UNCHANGED <<todo, accepting, incoming, status, stage, inbox, calm>>

-----------------------------------------------------------------------------
(* disconnect(peer_id) *)

(* Mutant of Disconnect: the entry is removed, the connection left open. *)
DisconnectOpen(n, m) ==
  /\ "disconnect" \in Happens
  /\ at[n] = "select" /\ peers[n][m] # None
  /\ peers' = [peers EXCEPT ![n][m] = None]
  /\ Goto(n, "bye", peers[n][m])
  /\ calm' = FALSE
  /\ UNCHANGED <<todo, pmq, accepting, incoming, status, connVars>>

Disconnect(n, m) ==
  /\ "disconnect" \in Happens
  /\ at[n] = "select" /\ peers[n][m] # None
  /\ peers' = [peers EXCEPT ![n][m] = None]
  /\ Close(n, peers[n][m])
  /\ Goto(n, "bye", peers[n][m])
  /\ calm' = FALSE
  /\ UNCHANGED <<todo, pmq, accepting, incoming, status, stage, inbox>>

Bye(n) ==
  /\ at[n] = "bye" /\ Len(pmq[n]) < PmCap
  /\ pmq' = [pmq EXCEPT ![n] = Append(@, [kind |-> "PeerDisconnected",
                                          peer |-> Other(n, cur[n])])]
  /\ Back(n)
  /\ UNCHANGED <<todo, peers, accepting, incoming, status, connVars, calm>>

(* A PeerManagerEvent reaches the coordinator, which lists or removes the  *)
(* peer (Daemon models the wait for room in its queue).                    *)
PmForward(n) ==
  /\ at[n] = "select" /\ pmq[n] # <<>>
  /\ pmq' = [pmq EXCEPT ![n] = Tail(@)]
  /\ LET e == Head(pmq[n]) IN
     status' = [status EXCEPT ![n][e.peer] =
       IF e.kind = "PeerDisconnected" THEN 0 ELSE IF @ < 2 THEN @ + 1 ELSE @]
  /\ UNCHANGED <<taskVars, peers, accepting, incoming, connVars, calm>>

-----------------------------------------------------------------------------
(* send_to_focused, send_heartbeats: to every connected peer in turn.      *)

IsConnected(n, m) == peers[n][m] # None /\ n \in live[peers[n][m]]

(* The loop goes on to some peer left in ms, or ends. *)
SendOn(n, ms) ==
  \/ /\ ms = {} /\ Back(n) /\ todo' = [todo EXCEPT ![n] = {}]
  \/ \E m \in ms :
       Goto(n, "send", peers[n][m]) /\ todo' = [todo EXCEPT ![n] = ms \ {m}]

Send(n) ==
  /\ "send" \in Happens
  /\ at[n] = "select" /\ \E m \in Node : peers[n][m] # None
  /\ SendOn(n, {m \in Node : peers[n][m] # None})
  /\ UNCHANGED <<peers, pmq, accepting, incoming, status, connVars, calm>>

(* A lost connection is skipped, or its send fails. *)
SendTo(n) ==
  /\ at[n] = "send"
  /\ \/ n \in live[cur[n]] /\ Stream(n, cur[n], "other")
     \/ n \notin live[cur[n]] /\ UNCHANGED inbox
  /\ SendOn(n, todo[n])
  /\ UNCHANGED <<peers, pmq, accepting, incoming, status, stage, live, calm>>

-----------------------------------------------------------------------------
(* The process ends, by shutdown or otherwise; later it may be started     *)
(* again, with the same peer id.  A dial that still goes on reaches the new *)
(* process, one that was given up does not.                                *)
Leave(n) ==
  /\ "leave" \in Happens /\ at[n] # "down"
  /\ Goto(n, "down", None)
  /\ todo' = [todo EXCEPT ![n] = {}]
  /\ peers' = [peers EXCEPT ![n] = [m \in Node |-> None]]
  /\ pmq' = [pmq EXCEPT ![n] = <<>>]
  /\ accepting' = [accepting EXCEPT ![n] = FALSE]
  /\ incoming' = [incoming EXCEPT ![n] = <<>>]
  /\ status' = [status EXCEPT ![n] = [m \in Node |-> 0]]
  /\ live' = [c \in Conn |-> live[c] \ {n}]
  /\ stage' = [c \in Conn |->
       IF c.to = n /\ stage[c] = "offered" /\ ~Dialing(c) THEN "taken" ELSE stage[c]]
  /\ calm' = FALSE
  /\ UNCHANGED inbox

Start(n) ==
  /\ at[n] = "down"
  /\ Goto(n, "select", None)
  /\ accepting' = [accepting EXCEPT ![n] = TRUE]
  /\ UNCHANGED <<todo, peers, pmq, incoming, status, connVars, calm>>

(* One end learns, by a close frame or a timeout, that the other has gone. *)
Learn(c) ==
  /\ stage[c] = "taken" /\ Cardinality(live[c]) = 1
  /\ live' = [live EXCEPT ![c] = {}]
  /\ UNCHANGED <<taskVars, peers, pmq, accepting, incoming, status, stage,
                 inbox, calm>>

(* An end gives an open connection up: nothing has reached it for the idle *)
(* timeout, though the other end may still be there.  (A Welcome that it   *)
(* reads after that stands for one that had arrived.)                      *)
Lose(c) ==
  /\ "loss" \in Happens
  /\ stage[c] = "taken" /\ Cardinality(live[c]) = 2
  /\ \E n \in live[c] : Close(n, c)
  /\ calm' = FALSE
  /\ UNCHANGED <<taskVars, peers, pmq, accepting, incoming, status, stage, inbox>>

-----------------------------------------------------------------------------
(* What a task does once it is in a branch, and what it starts. *)
Continue(n) ==
  \/ SendHello(n) \/ RecvWelcome(n) \/ RecvHello(n) \/ HandshakeFails(n)
  \/ Announce(n) \/ Bye(n) \/ SendTo(n)

Serve(n) == TakeIncoming(n) \/ PmForward(n)

Begin(n) ==
  \/ Send(n) \/ \E m \in Node : Dial(n, m) \/ Disconnect(n, m)

Next ==
  \/ \E n \in Node : \/ Continue(n) \/ Serve(n) \/ Begin(n)
                     \/ Accept(n) \/ AcceptFails(n) \/ DialFails(n)
                     \/ Leave(n) \/ Start(n)
  \/ \E c \in Conn : Learn(c) \/ Lose(c)

Spec == Init /\ [][Next]_vars

(* Tasks run; select! serves a branch that is ready again and again; a     *)
(* dial is answered or times out; a closed connection is noticed.          *)
Fairness ==
  /\ \A n \in Node :
       /\ WF_vars(Continue(n))
       /\ SF_vars(TakeIncoming(n)) /\ SF_vars(PmForward(n))
       /\ WF_vars(Accept(n) \/ AcceptFails(n))
       /\ WF_vars(DialFails(n))
  /\ \A c \in Conn : WF_vars(Learn(c))

FairSpec == Spec /\ Fairness

-----------------------------------------------------------------------------
(* SAFETY *)

Holds(n, c) ==
  \/ peers[n][Other(n, c)] = c
  \/ cur[n] = c /\ at[n] \in {"dial", "welcome", "hello", "announce"}
  \/ \E i \in 1 .. Len(incoming[n]) : incoming[n][i] = c

(* No connection stays open that its end no longer knows: a replaced, a    *)
(* refused and a disconnected one are all closed (a forgotten one would be *)
(* kept alive by QUIC's keep-alive for ever).                              *)
NoLeak ==
  \A c \in Conn : \A n \in live[c] : Holds(n, c)

(* A connection that one idle end has in its map and both ends see open is *)
(* the one the other end, when idle, has in its map too: dials that cross, *)
(* are repeated or replace one another never leave the two ends using      *)
(* different connections.                                                  *)
PairAgrees ==
  \A n, m \in Node :
    LET c == peers[n][m] IN
    c # None /\ at[n] = "select" /\ at[m] = "select" /\ live[c] = {n, m}
      => peers[m][n] = c

(* Where nobody leaves, disconnects or loses packets, handshakes in both   *)
(* directions do not kill each other's connection: once all that was begun *)
(* is finished, a listed peer is connected.                                *)
Quiet ==
  /\ \A n \in Node : at[n] = "select" /\ incoming[n] = <<>>
  /\ \A c \in Conn : stage[c] # "offered" /\ Cardinality(live[c]) # 1
NoSplit ==
  calm /\ Quiet => \A n, m \in Node : peers[n][m] # None => IsConnected(n, m)

(* What the status will say of peer m once the pending events are handled. *)
Listed(n, m) ==
  LET about == {i \in 1 .. Len(pmq[n]) : pmq[n][i].peer = m}
  IN IF about = {} THEN status[n][m] > 0
     ELSE \E i \in about : /\ pmq[n][i].kind = "PeerConnected"
                           /\ \A j \in about : j <= i

(* The status the GUI reads lists exactly the peers of the map, as soon as *)
(* the events under way have been handled, over any sequence of connects,  *)
(* replacements, disconnects and restarts.                                 *)
StatusAgrees ==
  \A n, m \in Node :
    Listed(n, m) <=> \/ peers[n][m] # None
                     \/ at[n] = "bye" /\ Other(n, cur[n]) = m

-----------------------------------------------------------------------------
(* WAITING FOR ONE ANOTHER *)

(* n waits for a machine of S to answer its Hello; or for a stream that    *)
(* nothing will free; or for room in the queue that only n itself empties. *)
Waits(n, S) ==
  LET c == cur[n] IN
  \/ /\ at[n] = "welcome" /\ n \in live[c] /\ inbox[c][n] = <<>>
     /\ c.to \in S \cap live[c] /\ cur[c.to] # c
  \/ /\ at[n] = "send" /\ n \in live[c] /\ ~HasRoom(n, c)
     /\ ~(at[Other(n, c)] = "welcome" /\ cur[Other(n, c)] = c)
  \/ at[n] \in {"announce", "bye"} /\ Len(pmq[n]) = PmCap

StuckSet(S) == \A n \in S : Waits(n, S)

Released(S) ==
  \E n \in S : at'[n] = "down" \/ live'[cur[n]] # live[cur[n]]

(* Machines that wait for one another, or for themselves, do so for ever,  *)
(* unless one of them ends or the other end closes the connection.         *)
StuckForGood ==
  [][\A S \in SUBSET Node : StuckSet(S) => StuckSet(S)' \/ Released(S)]_vars

(* And these are the only ways for a network task not to come back to its  *)
(* select!.                                                                *)
ServesOrStuck ==
  \A n \in Node :
    (at[n] \notin {"select", "down"}) ~>
      (at[n] \in {"select", "down"} \/ \E S \in SUBSET Node : n \in S /\ StuckSet(S))

-----------------------------------------------------------------------------
(* WHAT THE DOCUMENTS SAY AND THE CODE DOES NOT DO *)

(* "On discovery of a new peer via mDNS, all existing peers initiate QUIC  *)
(* connections to it", "full mesh": a dial ends with the peer connected.   *)
MeshForms ==
  \A n, m \in Node :
    (at[n] = "dial" /\ cur[n].to = m) ~> (peers[n][m] # None)
=============================================================================
