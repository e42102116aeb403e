---------------------------- MODULE PeerNetProofs ----------------------------
(***************************************************************************)
(* Proofs about PeerNet, for every set of machines, any knowledge of one   *)
(* another, every capacity of the queues and of the connections.           *)
(***************************************************************************)
EXTENDS PeerNet, FiniteSetTheorems, TLAPS

Ends(c) == {c.from, c.to}
Msg == {"hello", "welcome", "other"}

LEMMA Sizes ==
  PmCap \in Nat \ {0} /\ IncomingCap \in Nat \ {0} /\ Credit \in Nat \ {0} /\ None \notin Conn
BY PeerNetAssumption DEF PeerNetAssumption

LEMMA TwoEnds ==
  ASSUME NEW c \in Conn
  PROVE  /\ c.from \in Node /\ c.to \in Node /\ c.from # c.to /\ c # None
         /\ Other(c.from, c) = c.to /\ Other(c.to, c) = c.from
         /\ \A n \in Node : Other(n, c) \in Node /\ Other(n, c) \in Ends(c)
         /\ \A n, m \in Node : Ends(c) = {n, m} =>
              n # m /\ n \in Ends(c) /\ m \in Ends(c) /\ Other(n, c) = m /\ Other(m, c) = n
         /\ \A n \in Ends(c) : n \in Node /\ Other(n, c) # n /\ Other(Other(n, c), c) = n
                                 /\ Ends(c) = {n, Other(n, c)}
BY PeerNetAssumption DEF PeerNetAssumption, Conn, Other, Ends

-----------------------------------------------------------------------------
(* TYPES *)

(* Where a task is says which end of which connection it works on; the     *)
(* peer map and the queue hold connections of this machine.                *)
Tasks ==
  \A n \in Node :
    /\ at[n] \in {"select", "down"} <=> cur[n] = None
    /\ at[n] \in {"dial", "welcome"} => cur[n].from = n
    /\ at[n] = "hello" => cur[n].to = n
    /\ cur[n] # None => n \in Ends(cur[n])
Maps == \A n, m \in Node : peers[n][m] # None => Ends(peers[n][m]) = {n, m}
Queues == \A n \in Node : \A i \in 1 .. Len(incoming[n]) : incoming[n][i].to = n
Todos ==
  \A n \in Node :
    /\ \A m \in todo[n] : peers[n][m] # None
    /\ todo[n] # {} => at[n] = "send"
Lives == \A c \in Conn : live[c] \subseteq Ends(c)

Places == Tasks /\ Maps /\ Queues /\ Todos /\ Lives

TypeInv == TypeOK /\ Places

LEMMA TypeInit == Init => TypeInv
<1> SUFFICES ASSUME Init PROVE TypeInv
  OBVIOUS
<1> USE Sizes DEF Init
<1>1. /\ at \in [Node -> Locations] /\ cur \in [Node -> Conn \cup {None}]
      /\ todo \in [Node -> SUBSET Node] /\ peers \in [Node -> [Node -> Conn \cup {None}]]
      /\ accepting \in [Node -> BOOLEAN] /\ status \in [Node -> [Node -> 0 .. 2]]
      /\ calm \in BOOLEAN
  BY DEF Locations
<1>2. /\ pmq \in [Node -> Seq(PmEvent)] /\ incoming \in [Node -> Seq(Conn)]
      /\ \A n \in Node : Len(pmq[n]) <= PmCap /\ Len(incoming[n]) <= IncomingCap + 1
  OBVIOUS
<1>3. stage \in [Conn -> {"unused", "offered", "taken"}] /\ live \in [Conn -> SUBSET Node]
  OBVIOUS
<1>4. /\ inbox \in [Conn -> [Node -> Seq(Msg)]]
      /\ \A c \in Conn, n \in Node : Len(inbox[c][n]) <= Credit
  OBVIOUS
<1>5. TypeOK
  BY <1>1, <1>2, <1>3, <1>4 DEF TypeOK, Msg
<1>6. Places
  BY DEF Places, Tasks, Maps, Queues, Todos, Lives
<1>7. QED BY <1>5, <1>6 DEF TypeInv

(* What the helpers do, in TypeOK's terms. *)
LEMMA Goes ==
  ASSUME TypeOK, NEW n \in Node, NEW loc \in Locations, NEW c \in Conn \cup {None},
         Goto(n, loc, c)
  PROVE  /\ at' \in [Node -> Locations] /\ cur' \in [Node -> Conn \cup {None}]
         /\ at'[n] = loc /\ cur'[n] = c
         /\ \A m \in Node : m # n => at'[m] = at[m] /\ cur'[m] = cur[m]
BY DEF TypeOK, Goto

LEMMA Closes ==
  ASSUME TypeOK, NEW n \in Node, NEW c \in Conn, Close(n, c)
  PROVE  /\ live' \in [Conn -> SUBSET Node]
         /\ live'[c] = live[c] \ {n}
         /\ \A d \in Conn : d # c => live'[d] = live[d]
BY DEF TypeOK, Close

InboxOK(b) ==
  /\ b \in [Conn -> [Node -> Seq(Msg)]]
  /\ \A c \in Conn, n \in Node : Len(b[c][n]) <= Credit

(* A message put behind the others of one end of a connection, *)
LEMMA Sends ==
  ASSUME TypeOK, NEW n \in Node, NEW c \in Conn, NEW msg \in Msg, Stream(n, c, msg)
  PROVE  LET o == Other(n, c) IN
         /\ InboxOK(inbox')
         /\ inbox'[c][o] = Append(inbox[c][o], msg)
         /\ \A d \in Conn, k \in Node : d # c \/ k # o => inbox'[d][k] = inbox[d][k]
<1> DEFINE o == Other(n, c)
<1>1. o \in Node
  BY TwoEnds
<1> HIDE DEF o
<1>2. inbox \in [Conn -> [Node -> Seq(Msg)]] /\ \A d \in Conn, k \in Node : Len(inbox[d][k]) <= Credit
  BY DEF TypeOK, Msg
<1>3. inbox' = [inbox EXCEPT ![c][o] = Append(inbox[c][o], msg)] /\ Len(inbox[c][o]) < Credit
  BY DEF Stream, HasRoom, o
<1>4. Append(inbox[c][o], msg) \in Seq(Msg) /\ Len(Append(inbox[c][o], msg)) <= Credit
  BY <1>1, <1>2, <1>3, Sizes
<1>5. /\ inbox'[c][o] = Append(inbox[c][o], msg)
      /\ \A d \in Conn, k \in Node : d # c \/ k # o => inbox'[d][k] = inbox[d][k]
  BY <1>1, <1>2, <1>3
<1>6. inbox' \in [Conn -> [Node -> Seq(Msg)]]
  BY <1>1, <1>2, <1>3, <1>4
<1>7. \A d \in Conn, k \in Node : Len(inbox'[d][k]) <= Credit
  BY <1>2, <1>4, <1>5
<1>8. QED BY <1>5, <1>6, <1>7 DEF InboxOK, o

(* and the first one of an end taken. *)
LEMMA Reads ==
  ASSUME TypeOK, NEW n \in Node, NEW c \in Conn, inbox[c][n] # <<>>,
         inbox' = [inbox EXCEPT ![c][n] = Tail(@)]
  PROVE  /\ InboxOK(inbox')
         /\ inbox'[c][n] = Tail(inbox[c][n])
         /\ \A d \in Conn, k \in Node : d # c \/ k # n => inbox'[d][k] = inbox[d][k]
<1>1. inbox \in [Conn -> [Node -> Seq(Msg)]] /\ \A d \in Conn, k \in Node : Len(inbox[d][k]) <= Credit
  BY DEF TypeOK, Msg
<1>2. Tail(inbox[c][n]) \in Seq(Msg) /\ Len(Tail(inbox[c][n])) <= Credit
  BY <1>1, Sizes
<1>3. /\ inbox'[c][n] = Tail(inbox[c][n])
      /\ \A d \in Conn, k \in Node : d # c \/ k # n => inbox'[d][k] = inbox[d][k]
  BY <1>1
<1>4. inbox' \in [Conn -> [Node -> Seq(Msg)]]
  BY <1>1, <1>2
<1>5. \A d \in Conn, k \in Node : Len(inbox'[d][k]) <= Credit
  BY <1>1, <1>2, <1>3
<1>6. QED BY <1>3, <1>4, <1>5 DEF InboxOK

(* RecvHello: the Hello is read and the Welcome put in the other end's inbox. *)
LEMMA Welcomed ==
  ASSUME TypeOK, NEW n \in Node, NEW c \in Conn, c.to = n,
         inbox[c][n] # <<>>, HasRoom(n, c),
         inbox' = [inbox EXCEPT ![c][n] = Tail(@),
                     ![c][c.from] = Append(inbox[c][c.from], "welcome")]
  PROVE  /\ InboxOK(inbox')
         /\ inbox'[c][n] = Tail(inbox[c][n])
         /\ inbox'[c][c.from] = Append(inbox[c][c.from], "welcome")
         /\ \A d \in Conn, k \in Node : d # c => inbox'[d][k] = inbox[d][k]
         /\ \A k \in Node : k \notin Ends(c) => inbox'[c][k] = inbox[c][k]
<1> DEFINE o == c.from
<1>1. o \in Node /\ o # n /\ Other(n, c) = o /\ Ends(c) = {o, n}
  BY TwoEnds DEF Ends
<1>2. inbox \in [Conn -> [Node -> Seq(Msg)]] /\ \A d \in Conn, k \in Node : Len(inbox[d][k]) <= Credit
  BY DEF TypeOK, Msg
<1> DEFINE t == Tail(inbox[c][n])
           a == Append(inbox[c][o], "welcome")
           b == [inbox EXCEPT ![c][n] = t]
<1>3. t \in Seq(Msg) /\ Len(t) <= Credit
  BY <1>2, Sizes
<1>4. a \in Seq(Msg) /\ Len(a) <= Credit
  <2>1. "welcome" \in Msg /\ inbox[c][o] \in Seq(Msg) /\ Len(inbox[c][o]) < Credit
    BY <1>1, <1>2 DEF Msg, HasRoom
  <2>2. QED BY <2>1, Sizes
<1>5. inbox' = [b EXCEPT ![c][o] = a]
  OBVIOUS
<1> HIDE DEF t, a
<1>6. /\ b \in [Conn -> [Node -> Seq(Msg)]] /\ b[c][n] = t
      /\ \A d \in Conn, k \in Node : d # c \/ k # n => b[d][k] = inbox[d][k]
  BY <1>2, <1>3
<1> HIDE DEF b
<1>7. /\ inbox' \in [Conn -> [Node -> Seq(Msg)]] /\ inbox'[c][o] = a
      /\ \A d \in Conn, k \in Node : d # c \/ k # o => inbox'[d][k] = b[d][k]
  BY <1>1, <1>4, <1>5, <1>6
<1>8. ASSUME NEW d \in Conn, NEW k \in Node PROVE Len(inbox'[d][k]) <= Credit
  <2>1. inbox'[d][k] \in {a, b[d][k]} /\ b[d][k] \in {t, inbox[d][k]}
    BY <1>6, <1>7
  <2>2. QED BY <1>2, <1>3, <1>4, <2>1
<1>9. QED BY <1>1, <1>6, <1>7, <1>8 DEF InboxOK, t, a

PmOK(q) == q \in [Node -> Seq(PmEvent)] /\ \A n \in Node : Len(q[n]) <= PmCap
LEMMA Emits ==
  ASSUME TypeOK, NEW n \in Node, NEW e \in PmEvent, Len(pmq[n]) < PmCap,
         pmq' = [pmq EXCEPT ![n] = Append(@, e)]
  PROVE  /\ PmOK(pmq')
         /\ pmq'[n] = Append(pmq[n], e) /\ \A m \in Node : m # n => pmq'[m] = pmq[m]
<1>1. PmOK(pmq)
  BY DEF TypeOK, PmOK
<1>2. Append(pmq[n], e) \in Seq(PmEvent) /\ Len(Append(pmq[n], e)) <= PmCap
  BY <1>1, Sizes DEF PmOK
<1>3. QED BY <1>1, <1>2 DEF PmOK

(* Where a task is, of which connection it is an end. *)
LEMMA AtWork ==
  ASSUME TypeInv, NEW n \in Node, at[n] \notin {"select", "down"}
  PROVE  /\ cur[n] \in Conn /\ cur[n] # None /\ n \in Ends(cur[n])
         /\ Other(n, cur[n]) \in Node /\ Other(n, cur[n]) # n
         /\ at[n] \in {"dial", "welcome"} => cur[n].from = n /\ Other(n, cur[n]) = cur[n].to
         /\ at[n] = "hello" => cur[n].to = n /\ Other(n, cur[n]) = cur[n].from
<1>1. cur \in [Node -> Conn \cup {None}] /\ Tasks
  BY DEF TypeInv, TypeOK, Places
<1>2. /\ cur[n] \in Conn /\ n \in Ends(cur[n])
      /\ at[n] \in {"dial", "welcome"} => cur[n].from = n
      /\ at[n] = "hello" => cur[n].to = n
  BY <1>1 DEF Tasks
<1>3. QED BY <1>2, TwoEnds

(* A connection of the peer map. *)
LEMMA Held ==
  ASSUME TypeInv, NEW n \in Node, NEW m \in Node, peers[n][m] # None
  PROVE  /\ peers[n][m] \in Conn /\ n # m /\ Ends(peers[n][m]) = {n, m}
         /\ n \in Ends(peers[n][m]) /\ m \in Ends(peers[n][m])
         /\ Other(n, peers[n][m]) = m /\ Other(m, peers[n][m]) = n
<1>1. peers \in [Node -> [Node -> Conn \cup {None}]] /\ Maps
  BY DEF TypeInv, TypeOK, Places
<1>2. peers[n][m] \in Conn
  BY <1>1
<1>3. Ends(peers[n][m]) = {n, m}
  BY <1>1, Zenon DEF Maps
<1>4. QED BY <1>2, <1>3, TwoEnds

LEMMA TypeDial ==
  ASSUME TypeInv, NEW n \in Node, NEW m \in Node, Dial(n, m)
  PROVE  TypeInv'
<1>1. PICK c \in Conn : /\ c.from = n /\ stage' = [stage EXCEPT ![c] = "offered"]
                        /\ Goto(n, "dial", c)
  BY DEF Dial
<1>2. /\ at' \in [Node -> Locations] /\ cur' \in [Node -> Conn \cup {None}]
      /\ at'[n] = "dial" /\ cur'[n] = c
      /\ \A k \in Node : k # n => at'[k] = at[k] /\ cur'[k] = cur[k]
  BY <1>1, Goes DEF TypeInv, Locations
<1>3. UNCHANGED <<todo, peers, pmq, accepting, incoming, status, live, inbox, calm>>
      /\ at[n] = "select"
  BY DEF Dial
<1>4. TypeOK'
  BY <1>1, <1>2, <1>3 DEF TypeInv, TypeOK
<1>5. Tasks'
  BY <1>1, <1>2, TwoEnds DEF TypeInv, Places, Tasks, Ends
<1>6. Places'
  BY <1>1, <1>2, <1>3, <1>5 DEF TypeInv, Places, Maps, Queues, Todos, Lives
<1>7. QED BY <1>4, <1>6 DEF TypeInv

LEMMA TypeAccept ==
  ASSUME TypeInv, NEW m \in Node, Accept(m) \/ AcceptFails(m)
  PROVE  TypeInv'
<1>1. CASE Accept(m)
  <2>1. PICK c \in Conn : /\ c.to = m /\ stage' = [stage EXCEPT ![c] = "taken"]
                          /\ live' = [live EXCEPT ![c] = {c.from, c.to}]
                          /\ incoming' = [incoming EXCEPT ![m] = Append(@, c)]
    BY <1>1 DEF Accept
  <2>2. UNCHANGED <<taskVars, peers, pmq, accepting, status, inbox, calm>>
        /\ Len(incoming[m]) <= IncomingCap
    BY <1>1 DEF Accept, CanAccept
  <2>3. /\ incoming' \in [Node -> Seq(Conn)]
        /\ Len(incoming'[m]) = Len(incoming[m]) + 1 /\ incoming'[m] = Append(incoming[m], c)
        /\ \A k \in Node : k # m => incoming'[k] = incoming[k]
    BY <2>1 DEF TypeInv, TypeOK
  <2>4. \A i \in 1 .. Len(incoming'[m]) : incoming'[m][i] = c \/
          (i \in 1 .. Len(incoming[m]) /\ incoming'[m][i] = incoming[m][i])
    BY <2>3 DEF TypeInv, TypeOK
  <2>5. ASSUME NEW k \in Node PROVE Len(incoming'[k]) <= IncomingCap + 1
    <3>1. Len(incoming[k]) \in Nat /\ Len(incoming[k]) <= IncomingCap + 1
      BY DEF TypeInv, TypeOK
    <3>2. QED BY <2>2, <2>3, <3>1, Sizes
  <2>6. /\ live' \in [Conn -> SUBSET Node] /\ live'[c] = Ends(c)
        /\ \A d \in Conn : d # c => live'[d] = live[d]
    BY <2>1, TwoEnds DEF TypeInv, TypeOK, Ends
  <2>7. TypeOK'
    BY <2>1, <2>2, <2>3, <2>5, <2>6 DEF TypeInv, TypeOK, taskVars
  <2>8. Places'
    <3>1. Queues'
      BY <2>1, <2>3, <2>4 DEF TypeInv, Places, Queues
    <3>2. Lives'
      BY <2>6 DEF TypeInv, Places, Lives
    <3>3. QED BY <2>2, <3>1, <3>2 DEF TypeInv, Places, taskVars, Tasks, Maps, Todos
  <2>9. QED BY <2>7, <2>8 DEF TypeInv
<1>2. CASE AcceptFails(m)
  <2>1. /\ stage' \in [Conn -> {"unused", "offered", "taken"}]
        /\ accepting' \in [Node -> BOOLEAN]
        /\ UNCHANGED <<taskVars, peers, pmq, incoming, status, live, inbox, calm>>
    BY <1>2 DEF AcceptFails, TypeInv, TypeOK
  <2>2. TypeOK'
    BY <2>1 DEF TypeInv, TypeOK, taskVars
  <2>3. Places'
    BY <2>1 DEF TypeInv, Places, taskVars, Tasks, Maps, Queues, Todos, Lives
  <2>4. QED BY <2>2, <2>3 DEF TypeInv
<1>3. QED BY <1>1, <1>2

(* A branch ends or goes on to its next await: the peer map, the queues    *)
(* and the rest are not touched.                                           *)
LEMMA TypeGo ==
  ASSUME TypeInv, NEW n \in Node, NEW loc \in Locations, NEW c \in Conn \cup {None},
         Goto(n, loc, c),
         loc \in {"select", "down"} <=> c = None,
         c # None => n \in Ends(c),
         loc \in {"dial", "welcome"} => c.from = n,
         loc = "hello" => c.to = n,
         todo[n] # {} => loc = "send",
         InboxOK(inbox'),
         live' \in [Conn -> SUBSET Node],
         \A d \in Conn : live'[d] \subseteq live[d],
         UNCHANGED <<todo, peers, pmq, accepting, incoming, status, stage>>,
         calm' \in BOOLEAN
  PROVE  TypeInv'
<1>1. /\ at' \in [Node -> Locations] /\ cur' \in [Node -> Conn \cup {None}]
      /\ at'[n] = loc /\ cur'[n] = c
      /\ \A k \in Node : k # n => at'[k] = at[k] /\ cur'[k] = cur[k]
  BY Goes DEF TypeInv
<1>2. TypeOK'
  BY <1>1 DEF TypeInv, TypeOK, InboxOK, Msg
<1>3. Places'
  <2>1. Tasks'
    BY <1>1 DEF TypeInv, Places, Tasks
  <2>2. Todos'
    BY <1>1 DEF TypeInv, Places, Todos
  <2>3. Lives'
    BY DEF TypeInv, Places, Lives
  <2>4. QED BY <2>1, <2>2, <2>3 DEF TypeInv, Places, Maps, Queues
<1>4. QED BY <1>2, <1>3 DEF TypeInv

LEMMA TypeHandshake ==
  ASSUME TypeInv, NEW n \in Node,
         SendHello(n) \/ RecvWelcome(n) \/ RecvHello(n) \/ HandshakeFails(n) \/ DialFails(n)
  PROVE  TypeInv'
<1> DEFINE c == cur[n]
<1>0. InboxOK(inbox) /\ live \in [Conn -> SUBSET Node] /\ calm \in BOOLEAN
  BY DEF TypeInv, TypeOK, InboxOK, Msg
<1>1. /\ at[n] \in {"dial", "welcome", "hello"} /\ todo[n] = {}
      /\ UNCHANGED <<todo, peers, pmq, accepting, incoming, status, stage>>
      /\ calm' \in BOOLEAN
  BY <1>0 DEF SendHello, RecvWelcome, RecvHello, HandshakeFails, DialFails, connVars,
              TypeInv, Places, Todos
<1>2. /\ c \in Conn /\ n \in Ends(c) /\ c # None
      /\ at[n] \in {"dial", "welcome"} => c.from = n
      /\ at[n] = "hello" => c.to = n
  BY <1>1, AtWork, TwoEnds
<1> HIDE DEF c
<1>3. CASE SendHello(n)
  <2>1. Goto(n, "welcome", c) /\ Stream(n, c, "hello") /\ UNCHANGED live /\ at[n] = "dial"
    BY <1>3 DEF SendHello, c
  <2>2. InboxOK(inbox')
    BY <1>2, <2>1, Sends DEF TypeInv, Msg
  <2>3. "welcome" \in Locations
    BY DEF Locations
  <2>4. QED BY <1>0, <1>1, <1>2, <2>1, <2>2, <2>3, TypeGo
<1>4. CASE RecvWelcome(n)
  <2>1. InboxOK(inbox')
    BY <1>2, <1>4, Reads DEF RecvWelcome, TypeInv, c
  <2>2. "announce" \in Locations /\ "select" \in Locations
    BY DEF Locations
  <2>3. CASE Goto(n, "announce", c) /\ UNCHANGED live
    BY <1>0, <1>1, <1>2, <2>1, <2>2, <2>3, TypeGo
  <2>4. CASE Back(n) /\ Close(n, c)
    <3>1. live' \in [Conn -> SUBSET Node] /\ \A d \in Conn : live'[d] \subseteq live[d]
      BY <1>2, <2>4, Closes DEF TypeInv
    <3>2. QED BY <1>0, <1>1, <1>2, <2>1, <2>2, <2>4, <3>1, TypeGo DEF Back
  <2>5. QED BY <1>4, <2>3, <2>4 DEF RecvWelcome, c
<1>5. CASE RecvHello(n)
  <2>1. c.from \in Node /\ c.from # n /\ c.to = n /\ Other(n, c) = c.from
    BY <1>2, <1>5, TwoEnds DEF RecvHello
  <2>2. "announce" \in Locations /\ "select" \in Locations
    BY DEF Locations
  <2>3. CASE /\ HasRoom(n, c)
             /\ inbox' = [inbox EXCEPT ![c][n] = Tail(@),
                            ![c][c.from] = Append(inbox[c][c.from], "welcome")]
             /\ Goto(n, "announce", c)
             /\ UNCHANGED live
    <3>1. TypeOK /\ inbox[c][n] # <<>>
      BY <1>5 DEF RecvHello, TypeInv, c
    <3>2. InboxOK(inbox')
      BY <1>2, <2>1, <2>3, <3>1, Welcomed
    <3>3. QED BY <1>0, <1>1, <1>2, <2>2, <2>3, <3>2, TypeGo
  <2>4. CASE inbox' = [inbox EXCEPT ![c][n] = Tail(@)] /\ Back(n) /\ Close(n, c)
    <3>1. live' \in [Conn -> SUBSET Node] /\ \A d \in Conn : live'[d] \subseteq live[d]
      BY <1>2, <2>4, Closes DEF TypeInv
    <3>2. InboxOK(inbox')
      BY <1>2, <1>5, <2>4, Reads DEF RecvHello, TypeInv, c
    <3>3. QED BY <1>0, <1>1, <1>2, <2>2, <2>4, <3>1, <3>2, TypeGo DEF Back
  <2>5. QED BY <1>5, <2>3, <2>4 DEF RecvHello, c
<1>6. CASE HandshakeFails(n) \/ DialFails(n)
  <2>1. Back(n) /\ UNCHANGED <<live, inbox>>
    BY <1>6 DEF HandshakeFails, DialFails, connVars
  <2>2. "select" \in Locations
    BY DEF Locations
  <2>3. QED BY <1>0, <1>1, <2>1, <2>2, TypeGo DEF Back
<1>7. QED BY <1>3, <1>4, <1>5, <1>6

LEMMA TypeTake ==
  ASSUME TypeInv, NEW n \in Node, TakeIncoming(n)
  PROVE  TypeInv'
<1> DEFINE c == Head(incoming[n])
<1>1. incoming \in [Node -> Seq(Conn)] /\ \A k \in Node : Len(incoming[k]) <= IncomingCap + 1
  BY DEF TypeInv, TypeOK
<1>2. /\ at[n] = "select" /\ incoming[n] # <<>> /\ incoming' = [incoming EXCEPT ![n] = Tail(@)]
      /\ Goto(n, "hello", c)
      /\ UNCHANGED <<todo, peers, pmq, accepting, status, connVars, calm>>
  BY DEF TakeIncoming
<1>3. /\ incoming[n] \in Seq(Conn) /\ Len(incoming[n]) \in Nat \ {0}
      /\ 1 \in 1 .. Len(incoming[n]) /\ c = incoming[n][1] /\ c \in Conn
      /\ Tail(incoming[n]) \in Seq(Conn) /\ Len(Tail(incoming[n])) = Len(incoming[n]) - 1
      /\ \A i \in 1 .. Len(Tail(incoming[n])) :
           Tail(incoming[n])[i] = incoming[n][i + 1] /\ i + 1 \in 1 .. Len(incoming[n])
  BY <1>1, <1>2
<1>4. c.to = n /\ c # None /\ n \in Ends(c)
  BY <1>3, TwoEnds DEF TypeInv, Places, Queues, Ends
<1>5. /\ at' \in [Node -> Locations] /\ cur' \in [Node -> Conn \cup {None}]
      /\ at'[n] = "hello" /\ cur'[n] = c
      /\ \A k \in Node : k # n => at'[k] = at[k] /\ cur'[k] = cur[k]
  BY <1>2, <1>3, Goes DEF TypeInv, Locations
<1> HIDE DEF c
<1>6. /\ incoming' \in [Node -> Seq(Conn)] /\ incoming'[n] = Tail(incoming[n])
      /\ \A k \in Node : k # n => incoming'[k] = incoming[k]
  BY <1>1, <1>2, <1>3
<1>7. ASSUME NEW k \in Node PROVE Len(incoming'[k]) <= IncomingCap + 1
  <2>1. Len(incoming[k]) \in Nat /\ Len(incoming[k]) <= IncomingCap + 1
    BY <1>1
  <2>2. QED BY <1>3, <1>6, <2>1, Sizes
<1>8. TypeOK'
  BY <1>2, <1>5, <1>6, <1>7 DEF TypeInv, TypeOK, connVars
<1>9. Tasks'
  BY <1>4, <1>5 DEF TypeInv, Places, Tasks
<1>10. Queues'
  <2> SUFFICES ASSUME NEW k \in Node, NEW i \in 1 .. Len(incoming'[k])
               PROVE  incoming'[k][i].to = k
    BY DEF Queues
  <2>1. \A j \in 1 .. Len(incoming[k]) : incoming[k][j].to = k
    BY DEF TypeInv, Places, Queues
  <2>2. CASE k = n
    <3>1. incoming'[k][i] = incoming[k][i + 1] /\ i + 1 \in 1 .. Len(incoming[k])
      BY <1>3, <1>6, <2>2
    <3>2. QED BY <2>1, <3>1
  <2>3. CASE k # n
    BY <1>6, <2>1, <2>3
  <2>4. QED BY <2>2, <2>3
<1>11. Todos'
  BY <1>2, <1>5 DEF TypeInv, Places, Todos
<1>12. Places'
  BY <1>2, <1>9, <1>10, <1>11 DEF TypeInv, Places, Maps, Lives, connVars
<1>13. QED BY <1>8, <1>12 DEF TypeInv

(* What Announce changes. *)
LEMMA Announces ==
  ASSUME TypeInv, NEW n \in Node, Announce(n)
  PROVE  LET c == cur[n]
             p == Other(n, c)
         IN  /\ c \in Conn /\ p \in Node /\ n # p /\ Ends(c) = {n, p} /\ at[n] = "announce"
             /\ at' \in [Node -> Locations] /\ cur' \in [Node -> Conn \cup {None}]
             /\ at'[n] = "select" /\ cur'[n] = None
             /\ \A k \in Node : k # n => at'[k] = at[k] /\ cur'[k] = cur[k]
             /\ PmOK(pmq') /\ pmq'[n] = Append(pmq[n], [kind |-> "PeerConnected", peer |-> p])
             /\ \A k \in Node : k # n => pmq'[k] = pmq[k]
             /\ peers' \in [Node -> [Node -> Conn \cup {None}]]
             /\ peers'[n][p] = c
             /\ \A k, l \in Node : k # n \/ l # p => peers'[k][l] = peers[k][l]
             /\ live' \in [Conn -> SUBSET Node]
             /\ \A d \in Conn : live'[d] = live[d] \/ (d = peers[n][p] /\ live'[d] = live[d] \ {n})
             /\ peers[n][p] # None => n \notin live'[peers[n][p]]
             /\ UNCHANGED <<todo, accepting, incoming, status, stage, inbox, calm>>
<1> DEFINE c == cur[n]
           p == Other(n, c)
           e == [kind |-> "PeerConnected", peer |-> p]
<1>1. /\ at[n] = "announce" /\ Len(pmq[n]) < PmCap /\ pmq' = [pmq EXCEPT ![n] = Append(@, e)]
      /\ peers' = [peers EXCEPT ![n][p] = c] /\ Goto(n, "select", None)
      /\ IF peers[n][p] = None THEN UNCHANGED live ELSE Close(n, peers[n][p])
      /\ UNCHANGED <<todo, accepting, incoming, status, stage, inbox, calm>>
  BY DEF Announce, Back
<1>2. c \in Conn /\ p \in Node /\ n # p /\ Ends(c) = {n, p}
  BY <1>1, AtWork, TwoEnds
<1>3. /\ at' \in [Node -> Locations] /\ cur' \in [Node -> Conn \cup {None}]
      /\ at'[n] = "select" /\ cur'[n] = None
      /\ \A k \in Node : k # n => at'[k] = at[k] /\ cur'[k] = cur[k]
  BY <1>1, Goes DEF TypeInv, Locations
<1>4. e \in PmEvent
  BY <1>2 DEF PmEvent
<1> HIDE DEF c, p
<1>5. PmOK(pmq') /\ pmq'[n] = Append(pmq[n], e) /\ \A k \in Node : k # n => pmq'[k] = pmq[k]
  BY <1>1, <1>4, Emits DEF TypeInv
<1>6. /\ peers' \in [Node -> [Node -> Conn \cup {None}]] /\ peers'[n][p] = c
      /\ \A k, l \in Node : k # n \/ l # p => peers'[k][l] = peers[k][l]
  <2>1. peers \in [Node -> [Node -> Conn \cup {None}]]
    BY DEF TypeInv, TypeOK
  <2>2. QED BY <1>1, <1>2, <2>1
<1>7. /\ live' \in [Conn -> SUBSET Node]
      /\ \A d \in Conn : live'[d] = live[d] \/ (d = peers[n][p] /\ live'[d] = live[d] \ {n})
      /\ peers[n][p] # None => n \notin live'[peers[n][p]]
  <2>1. CASE peers[n][p] = None
    BY <1>1, <2>1 DEF TypeInv, TypeOK
  <2>2. CASE peers[n][p] # None
    <3>1. peers[n][p] \in Conn
      BY <1>2, <2>2, Held
    <3>2. QED BY <1>1, <2>2, <3>1, Closes DEF TypeInv
  <2>3. QED BY <2>1, <2>2
<1>8. QED BY <1>1, <1>2, <1>3, <1>5, <1>6, <1>7 DEF c, p

LEMMA TypeAnnounce ==
  ASSUME TypeInv, NEW n \in Node, Announce(n)
  PROVE  TypeInv'
<1> DEFINE c == cur[n]
           p == Other(n, c)
<1>1. /\ c \in Conn /\ p \in Node /\ n # p /\ Ends(c) = {n, p} /\ at[n] = "announce"
      /\ at' \in [Node -> Locations] /\ cur' \in [Node -> Conn \cup {None}]
      /\ at'[n] = "select" /\ cur'[n] = None
      /\ \A k \in Node : k # n => at'[k] = at[k] /\ cur'[k] = cur[k]
      /\ PmOK(pmq')
      /\ peers' \in [Node -> [Node -> Conn \cup {None}]]
      /\ peers'[n][p] = c
      /\ \A k, l \in Node : k # n \/ l # p => peers'[k][l] = peers[k][l]
      /\ live' \in [Conn -> SUBSET Node]
      /\ \A d \in Conn : live'[d] \subseteq live[d]
      /\ UNCHANGED <<todo, accepting, incoming, status, stage, inbox, calm>>
  BY Announces
<1> HIDE DEF c, p
<1>2. TypeOK'
  BY <1>1 DEF TypeInv, TypeOK, PmOK
<1>3. Tasks'
  BY <1>1 DEF TypeInv, Places, Tasks
<1>4. Maps'
  <2> SUFFICES ASSUME NEW k \in Node, NEW l \in Node, peers'[k][l] # None
               PROVE  Ends(peers'[k][l]) = {k, l}
    BY DEF Maps
  <2>1. CASE k = n /\ l = p
    BY <1>1, <2>1
  <2>2. CASE k # n \/ l # p
    <3>1. peers'[k][l] = peers[k][l]
      BY <1>1, <2>2
    <3>2. QED BY <3>1, Held
  <2>3. QED BY <2>1, <2>2
<1>5. Todos'
  <2>1. todo[n] = {} /\ todo \in [Node -> SUBSET Node]
    BY <1>1 DEF TypeInv, TypeOK, Places, Todos
  <2>2. ASSUME NEW k \in Node, NEW m \in todo[k] PROVE k # n /\ peers'[k][m] # None /\ at'[k] = "send"
    BY <1>1, <2>1 DEF TypeInv, Places, Todos
  <2>3. QED BY <1>1, <2>2 DEF Todos
<1>6. Lives'
  BY <1>1 DEF TypeInv, Places, Lives
<1>7. QED BY <1>1, <1>2, <1>3, <1>4, <1>5, <1>6 DEF TypeInv, Places, Queues

LEMMA TypeDisconnect ==
  ASSUME TypeInv, NEW n \in Node, NEW m \in Node, Disconnect(n, m)
  PROVE  TypeInv'
<1> DEFINE c == peers[n][m]
<1>1. /\ at[n] = "select" /\ c # None /\ peers' = [peers EXCEPT ![n][m] = None]
      /\ Close(n, c) /\ Goto(n, "bye", c) /\ calm' = FALSE
      /\ UNCHANGED <<todo, pmq, accepting, incoming, status, stage, inbox>>
  BY DEF Disconnect
<1>2. c \in Conn /\ n \in Ends(c)
  BY <1>1, Held
<1> HIDE DEF c
<1>3. /\ at' \in [Node -> Locations] /\ cur' \in [Node -> Conn \cup {None}]
      /\ at'[n] = "bye" /\ cur'[n] = c
      /\ \A k \in Node : k # n => at'[k] = at[k] /\ cur'[k] = cur[k]
  BY <1>1, <1>2, Goes DEF TypeInv, Locations
<1>4. live' \in [Conn -> SUBSET Node] /\ \A d \in Conn : live'[d] \subseteq live[d]
  BY <1>1, <1>2, Closes DEF TypeInv
<1>5. /\ peers' \in [Node -> [Node -> Conn \cup {None}]]
      /\ \A k, l \in Node : peers'[k][l] = peers[k][l] \/ (k = n /\ peers'[k][l] = None)
  <2>1. peers \in [Node -> [Node -> Conn \cup {None}]]
    BY DEF TypeInv, TypeOK
  <2>2. QED BY <1>1, <2>1
<1>6. TypeOK'
  BY <1>1, <1>3, <1>4, <1>5 DEF TypeInv, TypeOK
<1>7. Tasks'
  BY <1>1, <1>2, <1>3 DEF TypeInv, Places, Tasks
<1>8. Maps'
  <2> SUFFICES ASSUME NEW k \in Node, NEW l \in Node, peers'[k][l] # None
               PROVE  Ends(peers'[k][l]) = {k, l}
    BY DEF Maps
  <2>1. peers'[k][l] = peers[k][l]
    BY <1>5
  <2>2. peers[k][l] # None
    BY <2>1
  <2>3. QED BY <2>1, <2>2, Held
<1>9. Todos'
  <2>1. todo[n] = {} /\ todo \in [Node -> SUBSET Node]
    BY <1>1 DEF TypeInv, TypeOK, Places, Todos
  <2>2. ASSUME NEW k \in Node, NEW l \in todo[k] PROVE k # n /\ peers'[k][l] # None /\ at'[k] = "send"
    BY <1>3, <1>5, <2>1 DEF TypeInv, Places, Todos
  <2>3. QED BY <1>1, <2>2 DEF Todos
<1>10. Lives'
  BY <1>4 DEF TypeInv, Places, Lives
<1>11. QED BY <1>1, <1>6, <1>7, <1>8, <1>9, <1>10 DEF TypeInv, Places, Queues

LEMMA TypeEvents ==
  ASSUME TypeInv, NEW n \in Node, Bye(n) \/ PmForward(n)
  PROVE  TypeInv'
<1>1. CASE Bye(n)
  <2> DEFINE e == [kind |-> "PeerDisconnected", peer |-> Other(n, cur[n])]
  <2>1. /\ at[n] = "bye" /\ Len(pmq[n]) < PmCap /\ pmq' = [pmq EXCEPT ![n] = Append(@, e)]
        /\ Goto(n, "select", None)
        /\ UNCHANGED <<todo, peers, accepting, incoming, status, connVars, calm>>
    BY <1>1 DEF Bye, Back
  <2>2. e \in PmEvent
    BY <2>1, AtWork DEF PmEvent
  <2>3. PmOK(pmq')
    BY <2>1, <2>2, Emits DEF TypeInv
  <2>4. /\ at' \in [Node -> Locations] /\ cur' \in [Node -> Conn \cup {None}]
        /\ at'[n] = "select" /\ cur'[n] = None
        /\ \A k \in Node : k # n => at'[k] = at[k] /\ cur'[k] = cur[k]
    BY <2>1, Goes DEF TypeInv, Locations
  <2>5. TypeOK'
    BY <2>1, <2>3, <2>4 DEF TypeInv, TypeOK, PmOK, connVars
  <2>6. Tasks'
    BY <2>4 DEF TypeInv, Places, Tasks
  <2>7. Todos'
    BY <2>1, <2>4 DEF TypeInv, Places, Todos
  <2>8. QED BY <2>1, <2>5, <2>6, <2>7 DEF TypeInv, Places, Maps, Queues, Lives, connVars
<1>2. CASE PmForward(n)
  <2>1. /\ pmq[n] # <<>> /\ pmq' = [pmq EXCEPT ![n] = Tail(@)]
        /\ UNCHANGED <<taskVars, peers, accepting, incoming, connVars, calm>>
    BY <1>2 DEF PmForward
  <2> DEFINE e == Head(pmq[n])
             s == IF e.kind = "PeerDisconnected" THEN 0
                    ELSE IF status[n][e.peer] < 2 THEN status[n][e.peer] + 1
                         ELSE status[n][e.peer]
  <2>2. PmOK(pmq) /\ pmq[n] \in Seq(PmEvent)
    BY DEF TypeInv, TypeOK, PmOK
  <2>3. e \in PmEvent /\ Tail(pmq[n]) \in Seq(PmEvent) /\ Len(Tail(pmq[n])) <= PmCap
    BY <2>1, <2>2, Sizes DEF PmOK
  <2>4. PmOK(pmq')
    BY <2>1, <2>2, <2>3 DEF PmOK
  <2>5. status' \in [Node -> [Node -> 0 .. 2]]
    <3>1. status' = [status EXCEPT ![n][e.peer] = s]
      BY <1>2 DEF PmForward
    <3>2. status \in [Node -> [Node -> 0 .. 2]] /\ e.peer \in Node
      BY <2>3 DEF TypeInv, TypeOK, PmEvent
    <3>3. s \in 0 .. 2
      BY <3>2
    <3> HIDE DEF s, e
    <3>4. QED BY <3>1, <3>2, <3>3
  <2>6. TypeOK'
    BY <2>1, <2>4, <2>5 DEF TypeInv, TypeOK, PmOK, taskVars, connVars
  <2>7. QED
    BY <2>1, <2>6 DEF TypeInv, Places, Tasks, Maps, Queues, Todos, Lives, taskVars, connVars
<1>3. QED BY <1>1, <1>2

(* What one round of the loop over the peers changes: the task goes on to  *)
(* the connection of one of ms, or back.                                   *)
LEMMA SendsOn ==
  ASSUME TypeInv, NEW n \in Node, NEW ms \in SUBSET Node, SendOn(n, ms),
         \A m \in ms : peers[n][m] # None
  PROVE  /\ at' \in [Node -> Locations] /\ cur' \in [Node -> Conn \cup {None}]
         /\ todo' \in [Node -> SUBSET Node] /\ todo'[n] \subseteq ms
         /\ \/ at'[n] = "select" /\ cur'[n] = None /\ todo'[n] = {}
            \/ at'[n] = "send" /\ \E m \in ms : cur'[n] = peers[n][m]
         /\ \A k \in Node : k # n => at'[k] = at[k] /\ cur'[k] = cur[k] /\ todo'[k] = todo[k]
<1>0. todo \in [Node -> SUBSET Node]
  BY DEF TypeInv, TypeOK
<1>1. CASE ms = {} /\ Back(n) /\ todo' = [todo EXCEPT ![n] = {}]
  <2>1. /\ at' \in [Node -> Locations] /\ cur' \in [Node -> Conn \cup {None}]
        /\ at'[n] = "select" /\ cur'[n] = None
        /\ \A k \in Node : k # n => at'[k] = at[k] /\ cur'[k] = cur[k]
    BY <1>1, Goes DEF TypeInv, Locations, Back
  <2>2. QED BY <1>0, <1>1, <2>1
<1>2. CASE ms # {}
  <2>1. PICK m \in ms : Goto(n, "send", peers[n][m]) /\ todo' = [todo EXCEPT ![n] = ms \ {m}]
    BY <1>2 DEF SendOn
  <2>2. peers[n][m] \in Conn
    BY Held
  <2>3. /\ at' \in [Node -> Locations] /\ cur' \in [Node -> Conn \cup {None}]
        /\ at'[n] = "send" /\ cur'[n] = peers[n][m]
        /\ \A k \in Node : k # n => at'[k] = at[k] /\ cur'[k] = cur[k]
    BY <2>1, <2>2, Goes DEF TypeInv, Locations
  <2>4. QED BY <1>0, <2>1, <2>3
<1>3. QED BY <1>1, <1>2 DEF SendOn

LEMMA TypeSends ==
  ASSUME TypeInv, NEW n \in Node, Send(n) \/ SendTo(n)
  PROVE  TypeInv'
<1>1. PICK ms \in SUBSET Node : SendOn(n, ms) /\ \A m \in ms : peers[n][m] # None
  <2>1. CASE Send(n)
    BY <2>1 DEF Send
  <2>2. CASE SendTo(n)
    <3>1. todo[n] \in SUBSET Node /\ \A m \in todo[n] : peers[n][m] # None
      BY DEF TypeInv, TypeOK, Places, Todos
    <3>2. QED BY <2>2, <3>1 DEF SendTo
  <2>3. QED BY <2>1, <2>2
<1>2. InboxOK(inbox')
  <2>1. InboxOK(inbox)
    BY DEF TypeInv, TypeOK, InboxOK, Msg
  <2>2. CASE at[n] = "send" /\ Stream(n, cur[n], "other")
    <3>1. cur[n] \in Conn
      BY <2>2, AtWork
    <3>2. QED BY <2>2, <3>1, Sends DEF TypeInv, Msg
  <2>3. QED BY <2>1, <2>2 DEF Send, SendTo, connVars
<1>3. UNCHANGED <<peers, pmq, accepting, incoming, status, stage, live, calm>>
  BY DEF Send, SendTo, connVars
<1>4. /\ at' \in [Node -> Locations] /\ cur' \in [Node -> Conn \cup {None}]
      /\ todo' \in [Node -> SUBSET Node] /\ todo'[n] \subseteq ms
      /\ \/ at'[n] = "select" /\ cur'[n] = None /\ todo'[n] = {}
         \/ at'[n] = "send" /\ \E m \in ms : cur'[n] = peers[n][m]
      /\ \A k \in Node : k # n => at'[k] = at[k] /\ cur'[k] = cur[k] /\ todo'[k] = todo[k]
  BY <1>1, SendsOn
<1>5. TypeOK'
  BY <1>2, <1>3, <1>4 DEF TypeInv, TypeOK, InboxOK, Msg
<1>6. Tasks'
  <2>1. cur'[n] # None => cur'[n] \in Conn /\ n \in Ends(cur'[n]) /\ at'[n] = "send"
    BY <1>1, <1>4, Held
  <2>2. cur'[n] = None => at'[n] = "select"
    BY <1>1, <1>4, Held
  <2>3. QED BY <1>4, <2>1, <2>2, Sizes DEF TypeInv, Places, Tasks
<1>7. Todos'
  BY <1>1, <1>3, <1>4 DEF TypeInv, Places, Todos
<1>8. QED BY <1>3, <1>5, <1>6, <1>7 DEF TypeInv, Places, Maps, Queues, Lives

LEMMA TypeProcess ==
  ASSUME TypeInv, NEW n \in Node, Leave(n) \/ Start(n)
  PROVE  TypeInv'
<1>1. CASE Leave(n)
  <2>1. /\ Goto(n, "down", None)
        /\ todo' = [todo EXCEPT ![n] = {}]
        /\ peers' = [peers EXCEPT ![n] = [m \in Node |-> None]]
        /\ pmq' = [pmq EXCEPT ![n] = <<>>]
        /\ accepting' = [accepting EXCEPT ![n] = FALSE]
        /\ incoming' = [incoming EXCEPT ![n] = <<>>]
        /\ status' = [status EXCEPT ![n] = [m \in Node |-> 0]]
        /\ live' = [c \in Conn |-> live[c] \ {n}]
        /\ stage' \in [Conn -> {"unused", "offered", "taken"}]
        /\ calm' = FALSE /\ UNCHANGED inbox
    BY <1>1 DEF Leave, TypeInv, TypeOK
  <2>2. /\ at' \in [Node -> Locations] /\ cur' \in [Node -> Conn \cup {None}]
        /\ at'[n] = "down" /\ cur'[n] = None
        /\ \A k \in Node : k # n => at'[k] = at[k] /\ cur'[k] = cur[k]
    BY <2>1, Goes DEF TypeInv, Locations
  <2>3. /\ pmq' \in [Node -> Seq(PmEvent)] /\ incoming' \in [Node -> Seq(Conn)]
        /\ \A k \in Node : Len(pmq'[k]) <= PmCap /\ Len(incoming'[k]) <= IncomingCap + 1
    <3>1. pmq' \in [Node -> Seq(PmEvent)] /\ incoming' \in [Node -> Seq(Conn)]
      BY <2>1 DEF TypeInv, TypeOK
    <3>2. ASSUME NEW k \in Node
          PROVE  Len(pmq'[k]) <= PmCap /\ Len(incoming'[k]) <= IncomingCap + 1
      <4>1. Len(pmq[k]) <= PmCap /\ Len(incoming[k]) <= IncomingCap + 1
        BY DEF TypeInv, TypeOK
      <4>2. CASE k = n
        BY <2>1, <4>2, Sizes DEF TypeInv, TypeOK
      <4>3. CASE k # n
        BY <2>1, <4>1, <4>3 DEF TypeInv, TypeOK
      <4>4. QED BY <4>2, <4>3
    <3>3. QED BY <3>1, <3>2
  <2>4. peers' \in [Node -> [Node -> Conn \cup {None}]] /\ status' \in [Node -> [Node -> 0 .. 2]]
    BY <2>1 DEF TypeInv, TypeOK
  <2>5. live' \in [Conn -> SUBSET Node] /\ \A c \in Conn : live'[c] \subseteq live[c]
    BY <2>1 DEF TypeInv, TypeOK
  <2>6. todo' \in [Node -> SUBSET Node] /\ accepting' \in [Node -> BOOLEAN]
    BY <2>1 DEF TypeInv, TypeOK
  <2>7. TypeOK'
    BY <2>1, <2>2, <2>3, <2>4, <2>5, <2>6 DEF TypeInv, TypeOK
  <2>8. Tasks'
    BY <2>2 DEF TypeInv, Places, Tasks
  <2>9. Maps'
    <3> SUFFICES ASSUME NEW k \in Node, NEW l \in Node, peers'[k][l] # None
                 PROVE  Ends(peers'[k][l]) = {k, l}
      BY DEF Maps
    <3>1. peers'[k][l] = peers[k][l]
      BY <2>1 DEF TypeInv, TypeOK
    <3>2. QED BY <3>1, Held
  <2>10. Queues'
    BY <2>1 DEF TypeInv, TypeOK, Places, Queues
  <2>11. Todos'
    BY <2>1, <2>2 DEF TypeInv, TypeOK, Places, Todos
  <2>12. Lives'
    BY <2>5 DEF TypeInv, Places, Lives
  <2>13. QED BY <2>7, <2>8, <2>9, <2>10, <2>11, <2>12 DEF TypeInv, Places
<1>2. CASE Start(n)
  <2>1. /\ at' \in [Node -> Locations] /\ cur' \in [Node -> Conn \cup {None}]
        /\ at[n] = "down" /\ at'[n] = "select" /\ cur'[n] = None
        /\ \A k \in Node : k # n => at'[k] = at[k] /\ cur'[k] = cur[k]
    BY <1>2, Goes DEF Start, TypeInv, Locations
  <2>2. /\ accepting' \in [Node -> BOOLEAN]
        /\ UNCHANGED <<todo, peers, pmq, incoming, status, connVars, calm>>
    BY <1>2 DEF Start, TypeInv, TypeOK
  <2>3. TypeOK'
    BY <2>1, <2>2 DEF TypeInv, TypeOK, connVars
  <2>4. Tasks'
    BY <2>1 DEF TypeInv, Places, Tasks
  <2>5. Todos'
    BY <2>1, <2>2 DEF TypeInv, Places, Todos
  <2>6. QED BY <2>2, <2>3, <2>4, <2>5 DEF TypeInv, Places, Maps, Queues, Lives, connVars
<1>3. QED BY <1>1, <1>2

(* An end closes because of the other end or the network: only live and    *)
(* calm change.                                                            *)
Ebb(c) == Learn(c) \/ Lose(c)

LEMMA EbbOnly ==
  ASSUME TypeInv, NEW c \in Conn, Ebb(c)
  PROVE  /\ UNCHANGED <<taskVars, peers, pmq, accepting, incoming, status, stage, inbox>>
         /\ live' \in [Conn -> SUBSET Node] /\ \A d \in Conn : live'[d] \subseteq live[d]
         /\ calm' \in {calm, FALSE}
<1>1. CASE Learn(c)
  BY <1>1 DEF Learn, TypeInv, TypeOK
<1>2. CASE Lose(c)
  <2>1. PICK n \in live[c] : live' = [live EXCEPT ![c] = @ \ {n}]
    BY <1>2 DEF Lose, Close
  <2>2. live' \in [Conn -> SUBSET Node] /\ \A d \in Conn : live'[d] \subseteq live[d]
    BY <2>1 DEF TypeInv, TypeOK
  <2>3. QED BY <1>2, <2>2 DEF Lose
<1>3. QED BY <1>1, <1>2 DEF Ebb

LEMMA TypeEbb ==
  ASSUME TypeInv, NEW c \in Conn, Ebb(c)
  PROVE  TypeInv'
<1>1. /\ UNCHANGED <<taskVars, peers, pmq, accepting, incoming, status, stage, inbox>>
      /\ live' \in [Conn -> SUBSET Node] /\ \A d \in Conn : live'[d] \subseteq live[d]
      /\ calm' \in {calm, FALSE}
  BY EbbOnly
<1>2. TypeOK'
  BY <1>1 DEF TypeInv, TypeOK, taskVars
<1>3. Lives'
  BY <1>1 DEF TypeInv, Places, Lives
<1>4. QED BY <1>1, <1>2, <1>3 DEF TypeInv, Places, Tasks, Maps, Queues, Todos, taskVars

LEMMA TypeStep ==
  ASSUME TypeInv, [Next]_vars
  PROVE  TypeInv'
<1>1. CASE UNCHANGED vars
  BY <1>1 DEF vars, taskVars, connVars, TypeInv, TypeOK, Places, Tasks, Maps, Queues, Todos, Lives
<1>2. CASE \E n \in Node : Continue(n) \/ Serve(n)
  BY <1>2, TypeHandshake, TypeAnnounce, TypeEvents, TypeSends, TypeTake DEF Continue, Serve
<1>3. CASE \E n \in Node : Begin(n)
  BY <1>3, TypeSends, TypeDial, TypeDisconnect DEF Begin
<1>4. CASE \E n \in Node : Accept(n) \/ AcceptFails(n) \/ DialFails(n) \/ Leave(n) \/ Start(n)
  BY <1>4, TypeAccept, TypeHandshake, TypeProcess
<1>5. CASE \E c \in Conn : Ebb(c)
  BY <1>5, TypeEbb
<1>6. QED BY <1>1, <1>2, <1>3, <1>4, <1>5 DEF Next, Ebb

(* The queues of events, of accepted connections and of unread streams     *)
(* keep to their capacities (the channels of NetworkActor::run and quinn's *)
(* stream limit), and the tasks and maps hold what they should.            *)
THEOREM TypeCorrect == Spec => []TypeOK
<1>1. TypeInv => TypeOK
  BY DEF TypeInv
<1>2. QED BY <1>1, TypeInit, TypeStep, PTL DEF Spec

-----------------------------------------------------------------------------
(* HANDSHAKES *)

(* Machine n took c for its connection to the other end, or is about to.   *)
Past(n, c) ==
  \/ peers[n][Other(n, c)] = c
  \/ cur[n] = c /\ at[n] \in {"announce", "send", "bye"}

Queued(c) == \E i \in 1 .. Len(incoming[c.to]) : incoming[c.to][i] = c
Once(c) ==
  \A i, j \in 1 .. Len(incoming[c.to]) :
    incoming[c.to][i] = c /\ incoming[c.to][j] = c => i = j
Hearing(c) == cur[c.to] = c /\ at[c.to] = "hello"
Welcomes(c) == cur[c.from] = c /\ at[c.from] = "welcome"

Untouched(c) ==
  /\ live[c] = {} /\ ~Queued(c) /\ cur[c.to] # c
  /\ cur[c.from] = c => at[c.from] = "dial" /\ stage[c] = "offered"

(* No Welcome was sent, so neither end counts the other as connected. *)
Fresh(c) == ~Past(c.from, c) /\ ~Past(c.to, c) /\ inbox[c][c.from] = <<>>

(* The stages of a connection: not accepted, without a Hello, queued at    *)
(* the machine that accepted it, waiting for the Hello, for the Welcome.   *)
Shake(c) ==
  /\ stage[c] # "taken" => Untouched(c)
  /\ stage[c] # "taken" \/ Dialing(c) => Fresh(c) /\ inbox[c][c.to] = <<>>
  /\ Queued(c) => Fresh(c) /\ cur[c.to] # c
  /\ Hearing(c) => Fresh(c)
  /\ Queued(c) \/ Hearing(c) => inbox[c][c.to] \in {<<>>, <<"hello">>}
  /\ Once(c)
  /\ Welcomes(c) => inbox[c][c.from] = <<>> \/ Head(inbox[c][c.from]) = "welcome"
  /\ Welcomes(c) /\ Past(c.to, c) => inbox[c][c.from] # <<>>

Shakes == \A c \in Conn : Shake(c)

LEMMA ShakeInit == Init => Shakes
<1> SUFFICES ASSUME Init, NEW c \in Conn PROVE Shake(c)
  BY DEF Shakes
<1>1. /\ c.from \in Node /\ c.to \in Node /\ c # None
      /\ Other(c.from, c) = c.to /\ Other(c.to, c) = c.from
  BY TwoEnds
<1>2. /\ ~Past(c.from, c) /\ ~Past(c.to, c) /\ cur[c.from] # c /\ cur[c.to] # c
      /\ ~Queued(c) /\ Once(c) /\ live[c] = {}
      /\ inbox[c][c.from] = <<>> /\ inbox[c][c.to] = <<>>
  BY <1>1 DEF Init, Past, Queued, Once
<1>3. QED
  BY <1>2 DEF Shake, Untouched, Fresh, Hearing, Welcomes, Dialing

(* A step that starts nothing new on c. *)
LEMMA Stays ==
  ASSUME NEW c \in Conn, Shake(c),
         \A k \in Ends(c) : Past(k, c)' => Past(k, c),
         \A k \in Ends(c) : cur'[k] = c =>
           \/ cur[k] = c /\ at'[k] = at[k]
           \/ Past(k, c) /\ at'[k] \in {"announce", "send", "bye"},
         Queued(c)' => Queued(c), Once(c)',
         live'[c] \subseteq live[c],
         stage'[c] \in {stage[c], "taken"},
         \A k \in Ends(c) : inbox'[c][k] = inbox[c][k]
  PROVE  Shake(c)'
<1>1. c.from \in Ends(c) /\ c.to \in Ends(c)
  BY DEF Ends
<1>2. /\ Dialing(c)' => Dialing(c)
      /\ Hearing(c)' => Hearing(c)
      /\ Welcomes(c)' => Welcomes(c)
  BY <1>1 DEF Dialing, Hearing, Welcomes
<1>3. Fresh(c) => Fresh(c)'
  BY <1>1 DEF Fresh
<1>4. stage'[c] # "taken" => Untouched(c)'
  <2>1. SUFFICES ASSUME stage'[c] # "taken" PROVE Untouched(c)'
    OBVIOUS
  <2>2. stage'[c] = stage[c] /\ stage[c] # "taken" /\ Untouched(c) /\ Fresh(c)
    BY <2>1 DEF Shake
  <2>3. QED BY <1>1, <2>2 DEF Untouched, Fresh
<1>5. Queued(c)' => Fresh(c)' /\ cur'[c.to] # c
  BY <1>1, <1>3 DEF Shake, Fresh
<1>6. QED BY <1>1, <1>2, <1>3, <1>4, <1>5 DEF Shake

(* Only n moved, and not to c, or to a c that it has for its connection.   *)
Only(n) == \A k \in Node : k # n => at'[k] = at[k] /\ cur'[k] = cur[k]
Off(n, c) ==
  \/ cur'[n] # c
  \/ cur'[n] = cur[n] /\ at'[n] = at[n]
  \/ Past(n, c) /\ at'[n] \in {"announce", "send", "bye"}
Keeps(n, c) ==
  \A k, l \in Node : peers'[k][l] = c => peers[k][l] = c \/ (k = n /\ Past(n, c))

LEMMA MovesOff ==
  ASSUME NEW c \in Conn, NEW n \in Node, Only(n), Off(n, c), Keeps(n, c)
  PROVE  /\ \A k \in Ends(c) : Past(k, c)' => Past(k, c)
         /\ \A k \in Ends(c) : cur'[k] = c =>
              \/ cur[k] = c /\ at'[k] = at[k]
              \/ Past(k, c) /\ at'[k] \in {"announce", "send", "bye"}
<1> SUFFICES ASSUME NEW k \in Ends(c)
             PROVE  /\ Past(k, c)' => Past(k, c)
                    /\ cur'[k] = c =>
                         \/ cur[k] = c /\ at'[k] = at[k]
                         \/ Past(k, c) /\ at'[k] \in {"announce", "send", "bye"}
  OBVIOUS
<1>1. k \in Node /\ Other(k, c) \in Node
  BY TwoEnds
<1>2. peers'[k][Other(k, c)] = c => peers[k][Other(k, c)] = c \/ Past(k, c)
  BY <1>1 DEF Keeps
<1>3. peers[k][Other(k, c)] = c => Past(k, c)
  BY DEF Past
<1>4. cur'[k] = c =>
        \/ cur[k] = c /\ at'[k] = at[k]
        \/ Past(k, c) /\ at'[k] \in {"announce", "send", "bye"}
  BY <1>1 DEF Only, Off
<1>5. cur'[k] = c /\ at'[k] \in {"announce", "send", "bye"} => Past(k, c)
  BY <1>4 DEF Past
<1>6. Past(k, c)' => Past(k, c)
  BY <1>2, <1>3, <1>5 DEF Past
<1>7. QED BY <1>4, <1>6

LEMMA Aside ==
  ASSUME NEW c \in Conn, NEW n \in Node, Shake(c), Only(n), Off(n, c), Keeps(n, c),
         UNCHANGED incoming, live'[c] \subseteq live[c], stage'[c] \in {stage[c], "taken"},
         \A k \in Ends(c) : inbox'[c][k] = inbox[c][k]
  PROVE  Shake(c)'
<1>1. Queued(c)' => Queued(c)
  BY DEF Queued
<1>2. Once(c)'
  BY DEF Shake, Once
<1>3. QED BY <1>1, <1>2, MovesOff, Stays

(* What moving a task says of the connections it does not go to. *)
LEMMA GoesOff ==
  ASSUME TypeInv, NEW n \in Node, NEW loc \in Locations, NEW d \in Conn \cup {None},
         Goto(n, loc, d)
  PROVE  /\ Only(n) /\ at'[n] = loc /\ cur'[n] = d
         /\ \A c \in Conn : c # d => Off(n, c)
BY Goes DEF TypeInv, Only, Off

LEMMA ShakeDial ==
  ASSUME TypeInv, Shakes, NEW n \in Node, NEW m \in Node, Dial(n, m)
  PROVE  Shakes'
<1>1. PICK d \in Conn : /\ d.from = n /\ stage' = [stage EXCEPT ![d] = "offered"]
                        /\ Goto(n, "dial", d) /\ stage[d] = "unused"
  BY DEF Dial
<1>2. UNCHANGED <<todo, peers, pmq, accepting, incoming, status, live, inbox, calm>>
  BY DEF Dial
<1>3. /\ Only(n) /\ at'[n] = "dial" /\ cur'[n] = d /\ \A c \in Conn : c # d => Off(n, c)
  BY <1>1, GoesOff DEF Locations
<1>4. stage'[d] = "offered" /\ \A c \in Conn : c # d => stage'[c] = stage[c]
  BY <1>1 DEF TypeInv, TypeOK
<1> SUFFICES ASSUME NEW c \in Conn PROVE Shake(c)'
  BY DEF Shakes
<1>5. Shake(c)
  BY DEF Shakes
<1>6. CASE c # d
  BY <1>2, <1>3, <1>4, <1>5, <1>6, Aside DEF Keeps
<1>7. CASE c = d
  <2>1. d.from = n /\ d.to \in Node /\ d.to # n
    BY <1>1, TwoEnds
  <2>2. Untouched(d) /\ Fresh(d) /\ inbox[d][d.to] = <<>> /\ Once(d)
    BY <1>1, <1>5, <1>7 DEF Shake
  <2>3. cur'[d.to] = cur[d.to] /\ at'[d.to] = at[d.to]
    BY <1>3, <2>1 DEF Only
  <2>4. ~Past(d.to, d)' /\ ~Past(d.from, d)'
    BY <1>2, <1>3, <2>1, <2>2, <2>3 DEF Fresh, Past
  <2>5. Fresh(d)' /\ inbox'[d][d.to] = <<>>
    BY <1>2, <2>2, <2>4 DEF Fresh
  <2>6. Untouched(d)' /\ ~Queued(d)' /\ Once(d)'
    BY <1>2, <1>3, <1>4, <2>1, <2>2, <2>3 DEF Untouched, Queued, Once
  <2>7. ~Welcomes(d)' /\ ~Hearing(d)'
    BY <1>3, <2>1, <2>6 DEF Welcomes, Hearing, Untouched
  <2>8. QED BY <1>7, <2>5, <2>6, <2>7 DEF Shake
<1>8. QED BY <1>6, <1>7

LEMMA ShakeAccept ==
  ASSUME TypeInv, Shakes, NEW n \in Node, Accept(n) \/ AcceptFails(n)
  PROVE  Shakes'
<1>0. /\ UNCHANGED <<at, cur, todo, peers, pmq, status, inbox, calm>>
      /\ Only(n) /\ \A c \in Conn : Off(n, c) /\ Keeps(n, c)
  BY DEF Accept, AcceptFails, taskVars, Only, Off, Keeps
<1>1. CASE AcceptFails(n)
  <2>1. \A c \in Conn : stage'[c] \in {stage[c], "taken"}
    BY <1>1 DEF AcceptFails, TypeInv, TypeOK
  <2>2. UNCHANGED <<incoming, live>>
    BY <1>1 DEF AcceptFails
  <2>3. QED BY <1>0, <2>1, <2>2, Aside DEF Shakes
<1>2. CASE Accept(n)
  <2>1. PICK d \in Conn : /\ d.to = n /\ stage[d] = "offered" /\ Dialing(d)
                          /\ stage' = [stage EXCEPT ![d] = "taken"]
                          /\ live' = [live EXCEPT ![d] = {d.from, d.to}]
                          /\ incoming' = [incoming EXCEPT ![n] = Append(@, d)]
    BY <1>2 DEF Accept
  <2>2. stage'[d] = "taken" /\ \A c \in Conn : c # d => stage'[c] = stage[c] /\ live'[c] = live[c]
    BY <2>1 DEF TypeInv, TypeOK
  <2>3. incoming[n] \in Seq(Conn) /\ incoming'[n] = Append(incoming[n], d)
        /\ \A k \in Node : k # n => incoming'[k] = incoming[k]
    BY <2>1 DEF TypeInv, TypeOK
  <2>4. /\ Len(incoming[n]) \in Nat /\ Len(incoming'[n]) = Len(incoming[n]) + 1
        /\ \A i \in 1 .. Len(incoming'[n]) :
             \/ i \in 1 .. Len(incoming[n]) /\ incoming'[n][i] = incoming[n][i]
             \/ i = Len(incoming[n]) + 1 /\ incoming'[n][i] = d
    BY <2>3
  <2> SUFFICES ASSUME NEW c \in Conn PROVE Shake(c)'
    BY DEF Shakes
  <2>5. Shake(c) /\ c.to \in Node
    BY TwoEnds DEF Shakes
  <2>6. CASE c # d
    <3>1. (Queued(c)' => Queued(c)) /\ Once(c)'
      <4>1. CASE c.to = n
        <5>1. \A i \in 1 .. Len(incoming'[n]) : incoming'[n][i] = c =>
                i \in 1 .. Len(incoming[n]) /\ incoming[n][i] = c
          BY <2>4, <2>6
        <5>2. Once(c)
          BY <2>5 DEF Shake
        <5>3. QED BY <4>1, <5>1, <5>2 DEF Queued, Once
      <4>2. CASE c.to # n
        BY <2>3, <2>5, <4>2 DEF Queued, Once, Shake
      <4>3. QED BY <4>1, <4>2
    <3>2. QED BY <1>0, <2>2, <2>5, <2>6, <3>1, MovesOff, Stays
  <2>7. CASE c = d
    <3>1. Untouched(d) /\ Fresh(d) /\ inbox[d][d.to] = <<>> /\ Once(d) /\ ~Queued(d)
      BY <2>1, <2>5, <2>7 DEF Shake, Untouched
    <3>2. Fresh(d)' /\ cur'[d.to] # d /\ ~Hearing(d)' /\ ~Welcomes(d)' /\ inbox'[d][d.to] = <<>>
      BY <1>0, <2>1, <3>1 DEF Fresh, Past, Untouched, Hearing, Welcomes, Dialing
    <3>3. Once(d)'
      BY <2>1, <2>4, <3>1 DEF Once, Queued
    <3>4. QED BY <2>2, <2>7, <3>2, <3>3 DEF Shake
  <2>8. QED BY <2>6, <2>7
<1>3. QED BY <1>1, <1>2

LEMMA ShakeHello ==
  ASSUME TypeInv, Shakes, NEW n \in Node, SendHello(n)
  PROVE  Shakes'
<1>0. PICK d \in Conn : d = cur[n]
  BY AtWork DEF SendHello
<1>1. /\ at[n] = "dial" /\ n \in live[d] /\ Stream(n, d, "hello") /\ Goto(n, "welcome", d)
      /\ UNCHANGED <<peers, incoming, stage, live>>
  BY <1>0 DEF SendHello
<1>2. d \in Conn /\ d.from = n /\ d.to \in Node /\ d.to # n /\ Other(n, d) = d.to
  BY <1>0, <1>1, AtWork, TwoEnds
<1>3. Dialing(d)
  BY <1>0, <1>1, <1>2 DEF Dialing
<1>4. Only(n) /\ at'[n] = "welcome" /\ cur'[n] = d /\ \A c \in Conn : c # d => Off(n, c)
  BY <1>1, <1>2, GoesOff DEF Locations
<1>5. /\ inbox'[d][d.to] = Append(inbox[d][d.to], "hello")
      /\ \A c \in Conn, k \in Node : c # d \/ k # d.to => inbox'[c][k] = inbox[c][k]
  BY <1>1, <1>2, Sends DEF TypeInv, Msg
<1> SUFFICES ASSUME NEW c \in Conn PROVE Shake(c)'
  BY DEF Shakes
<1>6. Shake(c) /\ Ends(c) \subseteq Node
  BY TwoEnds DEF Shakes, Ends
<1>7. CASE c # d
  BY <1>1, <1>4, <1>5, <1>6, <1>7, Aside DEF Keeps
<1>8. CASE c = d
  <2>1. /\ Fresh(d) /\ inbox[d][d.to] = <<>> /\ Once(d) /\ stage[d] = "taken"
        /\ Queued(d) => cur[d.to] # d
    BY <1>1, <1>3, <1>6, <1>8 DEF Shake, Untouched
  <2>2. cur'[d.to] = cur[d.to] /\ at'[d.to] = at[d.to]
    BY <1>2, <1>4 DEF Only
  <2>3. ~Past(d.to, d)' /\ ~Past(d.from, d)'
    BY <1>1, <1>2, <1>4, <2>1, <2>2 DEF Fresh, Past
  <2>4. Fresh(d)' /\ inbox'[d][d.from] = <<>> /\ ~Dialing(d)' /\ stage'[d] = "taken"
    BY <1>1, <1>2, <1>4, <1>5, <2>1, <2>3 DEF Fresh, Dialing
  <2>5. inbox'[d][d.to] = <<"hello">>
    BY <1>5, <2>1
  <2>6. Once(d)' /\ (Queued(d)' => cur'[d.to] # d)
    BY <1>1, <2>1, <2>2 DEF Once, Queued
  <2>7. ~Past(d.to, d)'
    BY <2>3
  <2>8. QED BY <1>8, <2>4, <2>5, <2>6, <2>7 DEF Shake
<1>9. QED BY <1>7, <1>8

LEMMA ShakeWelcome ==
  ASSUME TypeInv, Shakes, NEW n \in Node, RecvWelcome(n)
  PROVE  Shakes'
<1>0. PICK d \in Conn : d = cur[n]
  BY AtWork DEF RecvWelcome
<1>1. /\ at[n] = "welcome" /\ inbox[d][n] # <<>>
      /\ inbox' = [inbox EXCEPT ![d][n] = Tail(@)]
      /\ (Goto(n, "announce", d) /\ UNCHANGED live) \/ (Goto(n, "select", None) /\ Close(n, d))
      /\ UNCHANGED <<peers, incoming, stage>>
  BY <1>0 DEF RecvWelcome, Back
<1>2. d \in Conn /\ d.from = n /\ d.to \in Node /\ d.to # n
  BY <1>0, <1>1, AtWork, TwoEnds
<1>3. Welcomes(d)
  BY <1>0, <1>1, <1>2 DEF Welcomes
<1>4. /\ Only(n) /\ \A c \in Conn : c # d => Off(n, c)
      /\ (at'[n] = "announce" /\ cur'[n] = d) \/ (at'[n] = "select" /\ cur'[n] = None)
  <2>1. CASE Goto(n, "announce", d)
    BY <1>2, <2>1, GoesOff DEF Locations
  <2>2. CASE Goto(n, "select", None)
    BY <2>2, GoesOff, TwoEnds DEF Locations
  <2>3. QED BY <1>1, <2>1, <2>2
<1>5. \A c \in Conn, k \in Node : c # d \/ k # n => inbox'[c][k] = inbox[c][k]
  BY <1>1, <1>2, Reads DEF TypeInv
<1>6. \A c \in Conn : live'[c] \subseteq live[c]
  BY <1>1, <1>2, Closes DEF TypeInv
<1> SUFFICES ASSUME NEW c \in Conn PROVE Shake(c)'
  BY DEF Shakes
<1>7. Shake(c) /\ Ends(c) \subseteq Node
  BY TwoEnds DEF Shakes, Ends
<1>8. CASE c # d
  BY <1>1, <1>4, <1>5, <1>6, <1>7, <1>8, Aside DEF Keeps
<1>9. CASE c = d
  <2>1. /\ Once(d) /\ stage[d] = "taken" /\ ~Fresh(d)
    BY <1>1, <1>2, <1>3, <1>7, <1>9 DEF Shake, Untouched, Welcomes, Fresh
  <2>2. ~Queued(d) /\ ~Hearing(d)
    BY <1>7, <1>9, <2>1 DEF Shake
  <2>3. cur'[d.to] = cur[d.to] /\ at'[d.to] = at[d.to]
    BY <1>2, <1>4 DEF Only
  <2>4. /\ ~Queued(d)' /\ ~Hearing(d)' /\ ~Dialing(d)' /\ ~Welcomes(d)'
        /\ stage'[d] = "taken" /\ Once(d)'
    BY <1>1, <1>2, <1>4, <2>1, <2>2, <2>3, TwoEnds
       DEF Queued, Hearing, Dialing, Welcomes, Once
  <2>5. QED BY <1>9, <2>4 DEF Shake
<1>10. QED BY <1>8, <1>9

LEMMA ShakeTake ==
  ASSUME TypeInv, Shakes, NEW n \in Node, TakeIncoming(n)
  PROVE  Shakes'
<1>0. PICK d \in Conn : d = Head(incoming[n])
  BY DEF TakeIncoming, TypeInv, TypeOK
<1>1. /\ incoming[n] # <<>> /\ incoming' = [incoming EXCEPT ![n] = Tail(@)]
      /\ Goto(n, "hello", d) /\ at[n] = "select"
      /\ UNCHANGED <<peers, stage, live, inbox>>
  BY <1>0 DEF TakeIncoming, connVars
<1>2. /\ incoming[n] \in Seq(Conn) /\ incoming \in [Node -> Seq(Conn)]
  BY DEF TypeInv, TypeOK
<1>3. /\ d \in Conn /\ d = incoming[n][1] /\ 1 \in 1 .. Len(incoming[n])
      /\ \A i \in 1 .. Len(Tail(incoming[n])) :
           Tail(incoming[n])[i] = incoming[n][i + 1] /\ i + 1 \in 1 .. Len(incoming[n])
           /\ i + 1 # 1 /\ i \in Nat
  BY <1>0, <1>1, <1>2
<1>4. d.to = n /\ d.from \in Node /\ d.from # n
  BY <1>3, TwoEnds DEF TypeInv, Places, Queues
<1>5. incoming'[n] = Tail(incoming[n]) /\ \A k \in Node : k # n => incoming'[k] = incoming[k]
  BY <1>1, <1>2
<1>6. Only(n) /\ at'[n] = "hello" /\ cur'[n] = d /\ \A c \in Conn : c # d => Off(n, c)
  BY <1>1, <1>3, GoesOff DEF Locations
<1> SUFFICES ASSUME NEW c \in Conn PROVE Shake(c)'
  BY DEF Shakes
<1>7. Shake(c) /\ c.to \in Node
  BY TwoEnds DEF Shakes
<1>8. (Queued(c)' => Queued(c)) /\ Once(c)'
  <2>1. Once(c)
    BY <1>7 DEF Shake
  <2>2. CASE c.to = n
    <3>1. ASSUME NEW i \in 1 .. Len(incoming'[n]), incoming'[n][i] = c PROVE Queued(c)
      <4>1. incoming[n][i + 1] = c /\ i + 1 \in 1 .. Len(incoming[n])
        BY <1>3, <1>5, <3>1
      <4>2. QED BY <2>2, <4>1 DEF Queued
    <3>2. ASSUME NEW i \in 1 .. Len(incoming'[n]), NEW j \in 1 .. Len(incoming'[n]),
                 incoming'[n][i] = c, incoming'[n][j] = c
          PROVE  i = j
      <4>1. /\ incoming[n][i + 1] = c /\ incoming[n][j + 1] = c
            /\ i + 1 \in 1 .. Len(incoming[n]) /\ j + 1 \in 1 .. Len(incoming[n])
            /\ i \in Nat /\ j \in Nat
        BY <1>3, <1>5, <3>2
      <4>2. i + 1 = j + 1
        BY <2>1, <2>2, <4>1 DEF Once
      <4>3. QED BY <4>1, <4>2
    <3>3. QED BY <2>2, <3>1, <3>2 DEF Queued, Once
  <2>3. CASE c.to # n
    BY <1>5, <1>7, <2>1, <2>3 DEF Queued, Once
  <2>4. QED BY <2>2, <2>3
<1>9. CASE c # d
  BY <1>1, <1>6, <1>7, <1>8, <1>9, MovesOff, Stays DEF Keeps
<1>10. CASE c = d
  <2>1. Queued(d) /\ Once(d)
    BY <1>3, <1>4, <1>7, <1>10 DEF Queued, Shake
  <2>2. Fresh(d) /\ inbox[d][d.to] \in {<<>>, <<"hello">>} /\ stage[d] = "taken"
        /\ (Dialing(d) => inbox[d][d.to] = <<>>)
    BY <1>7, <1>10, <2>1 DEF Shake, Untouched
  <2>3. ~Queued(d)'
    <3>1. ASSUME NEW i \in 1 .. Len(incoming'[n]), incoming'[n][i] = d PROVE FALSE
      BY <1>3, <1>4, <1>5, <2>1, <3>1 DEF Once
    <3>2. QED BY <1>4, <3>1 DEF Queued
  <2>4. cur'[d.from] = cur[d.from] /\ at'[d.from] = at[d.from]
    BY <1>4, <1>6 DEF Only
  <2>5. ~Past(d.to, d)' /\ ~Past(d.from, d)'
    BY <1>1, <1>4, <1>6, <2>2, <2>4 DEF Fresh, Past
  <2>6. Fresh(d)' /\ inbox'[d][d.to] = inbox[d][d.to] /\ (Dialing(d)' <=> Dialing(d))
        /\ stage'[d] = "taken"
    BY <1>1, <2>2, <2>4, <2>5 DEF Fresh, Dialing
  <2>7. QED BY <1>8, <1>10, <2>2, <2>3, <2>5, <2>6 DEF Shake, Fresh
<1>11. QED BY <1>9, <1>10

LEMMA ShakeReply ==
  ASSUME TypeInv, Shakes, NEW n \in Node, RecvHello(n)
  PROVE  Shakes'
<1>0. PICK d \in Conn : d = cur[n]
  BY AtWork DEF RecvHello
<1>1. /\ at[n] = "hello" /\ inbox[d][n] # <<>>
      /\ UNCHANGED <<peers, incoming, stage>>
  BY <1>0 DEF RecvHello
<1>2. d.to = n /\ d.from \in Node /\ d.from # n /\ Other(n, d) = d.from /\ d # None
  BY <1>0, <1>1, AtWork, TwoEnds
<1>3. Hearing(d) /\ Shake(d)
  BY <1>0, <1>1, <1>2 DEF Hearing, Shakes
<1>4. /\ Fresh(d) /\ inbox[d][n] = <<"hello">> /\ inbox[d][d.from] = <<>>
      /\ stage[d] = "taken" /\ ~Dialing(d) /\ ~Queued(d) /\ Once(d)
  BY <1>1, <1>2, <1>3 DEF Shake, Untouched, Fresh, Hearing
<1>5. /\ inbox' = [inbox EXCEPT ![d][n] = Tail(@),
                     ![d][d.from] = Append(inbox[d][d.from], "welcome")]
      /\ Goto(n, "announce", d) /\ HasRoom(n, d) /\ UNCHANGED live
  <2>1. Head(inbox[d][n]) = "hello"
    BY <1>4
  <2>2. QED BY <1>0, <2>1 DEF RecvHello
<1>6. Only(n) /\ at'[n] = "announce" /\ cur'[n] = d /\ \A c \in Conn : c # d => Off(n, c)
  BY <1>2, <1>5, GoesOff DEF Locations
<1>7. /\ inbox'[d][d.from] = Append(inbox[d][d.from], "welcome")
      /\ \A c \in Conn, k \in Node : c # d => inbox'[c][k] = inbox[c][k]
  BY <1>1, <1>2, <1>5, Welcomed DEF TypeInv
<1>8. ASSUME NEW c \in Conn, c # d PROVE Shake(c)'
  <2>1. Shake(c) /\ Ends(c) \subseteq Node
    BY TwoEnds DEF Shakes, Ends
  <2>2. QED BY <1>1, <1>5, <1>6, <1>7, <1>8, <2>1, Aside DEF Keeps
<1>9. Shake(d)'
  <2>1. inbox'[d][d.from] = <<"welcome">>
    BY <1>4, <1>7
  <2>2. inbox'[d][d.from] # <<>> /\ Head(inbox'[d][d.from]) = "welcome"
    BY <2>1
  <2>3. cur'[d.from] = cur[d.from] /\ at'[d.from] = at[d.from]
    BY <1>2, <1>6 DEF Only
  <2>4. ~Queued(d)' /\ Once(d)'
    BY <1>1, <1>4 DEF Queued, Once
  <2>5. ~Hearing(d)' /\ ~Dialing(d)' /\ stage'[d] = "taken"
    BY <1>1, <1>2, <1>4, <1>6, <2>3 DEF Hearing, Dialing
  <2>6. QED BY <2>2, <2>4, <2>5 DEF Shake
<1>10. QED BY <1>8, <1>9 DEF Shakes

(* A branch ends, and with it what the task did on its connection. *)
LEMMA ShakeBack ==
  ASSUME TypeInv, Shakes, NEW n \in Node,
         HandshakeFails(n) \/ DialFails(n) \/ Announce(n) \/ Bye(n)
  PROVE  Shakes'
<1>1. Goto(n, "select", None) /\ UNCHANGED <<incoming, stage, inbox>>
  BY DEF HandshakeFails, DialFails, Announce, Bye, Back, connVars
<1>2. Only(n) /\ \A c \in Conn : Off(n, c)
  BY <1>1, GoesOff, TwoEnds DEF Locations
<1>3. \A c \in Conn : live'[c] \subseteq live[c]
  <2>1. UNCHANGED live \/ \E c : live' = [live EXCEPT ![c] = @ \ {n}]
    BY DEF HandshakeFails, DialFails, Announce, Bye, connVars, Close
  <2>2. live \in [Conn -> SUBSET Node]
    BY DEF TypeInv, TypeOK
  <2>3. QED BY <2>1, <2>2
<1>4. \A c \in Conn : Keeps(n, c)
  <2>1. CASE Announce(n)
    <3>1. at[n] = "announce" /\ peers' = [peers EXCEPT ![n][Other(n, cur[n])] = cur[n]]
      BY <2>1 DEF Announce
    <3>2. ASSUME NEW k \in Node, NEW l \in Node, peers'[k][l] # peers[k][l]
          PROVE  k = n /\ peers'[k][l] = cur[n]
      BY <3>1, <3>2 DEF TypeInv, TypeOK
    <3>3. Past(n, cur[n])
      BY <3>1 DEF Past
    <3>4. QED BY <3>2, <3>3 DEF Keeps
  <2>2. CASE ~Announce(n)
    BY <2>2 DEF HandshakeFails, DialFails, Bye, Keeps
  <2>3. QED BY <2>1, <2>2
<1>5. QED BY <1>1, <1>2, <1>3, <1>4, Aside DEF Shakes

LEMMA ShakeDisconnect ==
  ASSUME TypeInv, Shakes, NEW n \in Node, NEW m \in Node, Disconnect(n, m)
  PROVE  Shakes'
<1>1. /\ peers[n][m] # None /\ peers' = [peers EXCEPT ![n][m] = None]
      /\ Close(n, peers[n][m]) /\ Goto(n, "bye", peers[n][m])
      /\ UNCHANGED <<incoming, stage, inbox>>
  BY DEF Disconnect
<1>2. peers[n][m] \in Conn /\ Past(n, peers[n][m])
  BY <1>1, Held DEF Past
<1>3. Only(n) /\ \A c \in Conn : Off(n, c)
  BY <1>1, <1>2, GoesOff DEF Locations, Off
<1>4. \A c \in Conn : live'[c] \subseteq live[c]
  BY <1>1, <1>2, Closes DEF TypeInv
<1>5. \A c \in Conn : Keeps(n, c)
  <2>1. \A k, l \in Node : peers'[k][l] \in {peers[k][l], None}
    BY <1>1 DEF TypeInv, TypeOK
  <2>2. QED BY <2>1, TwoEnds DEF Keeps
<1>6. QED BY <1>1, <1>3, <1>4, <1>5, Aside DEF Shakes

LEMMA ShakeForward ==
  ASSUME Shakes, NEW n \in Node, PmForward(n)
  PROVE  Shakes'
<1>1. UNCHANGED <<at, cur, peers, incoming, stage, live, inbox>>
  BY DEF PmForward, taskVars, connVars
<1>2. Only(n) /\ \A c \in Conn : Off(n, c) /\ Keeps(n, c)
  BY <1>1 DEF Only, Off, Keeps
<1>3. QED BY <1>1, <1>2, Aside DEF Shakes

(* A send goes to connections that were taken, never to one whose Welcome  *)
(* is still to be sent.                                                    *)
LEMMA ShakeSends ==
  ASSUME TypeInv, Shakes, NEW n \in Node, Send(n) \/ SendTo(n)
  PROVE  Shakes'
<1>1. PICK ms \in SUBSET Node : SendOn(n, ms) /\ \A m \in ms : peers[n][m] # None
  <2>1. CASE Send(n)
    BY <2>1 DEF Send
  <2>2. CASE SendTo(n)
    <3>1. todo[n] \in SUBSET Node /\ \A m \in todo[n] : peers[n][m] # None
      BY DEF TypeInv, TypeOK, Places, Todos
    <3>2. QED BY <2>2, <3>1 DEF SendTo
  <2>3. QED BY <2>1, <2>2
<1>2. UNCHANGED <<peers, incoming, stage, live>>
  BY DEF Send, SendTo, connVars
<1>3. /\ \/ at'[n] = "select" /\ cur'[n] = None
         \/ at'[n] = "send" /\ \E m \in ms : cur'[n] = peers[n][m]
      /\ \A k \in Node : k # n => at'[k] = at[k] /\ cur'[k] = cur[k]
  BY <1>1, SendsOn
<1>4. ASSUME NEW c \in Conn PROVE Off(n, c)
  <2>1. ASSUME NEW m \in ms, cur'[n] = peers[n][m], c = peers[n][m] PROVE Past(n, c)
    BY <1>1, <2>1, Held DEF Past
  <2>2. QED BY <1>3, <2>1, TwoEnds DEF Off
<1>5. Only(n) /\ \A c \in Conn : Keeps(n, c)
  BY <1>2, <1>3 DEF Only, Keeps
<1>6. CASE UNCHANGED inbox
  BY <1>2, <1>4, <1>5, <1>6, Aside DEF Shakes
<1>7. CASE at[n] = "send" /\ Stream(n, cur[n], "other")
  <2>1. PICK d \in Conn : d = cur[n]
    BY <1>7, AtWork
  <2>2. n \in Ends(d) /\ Past(n, d)
    BY <1>7, <2>1, AtWork DEF Past
  <2>3. /\ inbox'[d][Other(n, d)] = Append(inbox[d][Other(n, d)], "other")
        /\ inbox[d][Other(n, d)] \in Seq(Msg)
        /\ \A c \in Conn, k \in Node : c # d \/ k # Other(n, d) => inbox'[c][k] = inbox[c][k]
    BY <1>7, <2>1, Sends, TwoEnds DEF TypeInv, TypeOK, Msg
  <2>4. ASSUME NEW c \in Conn, c # d PROVE Shake(c)'
    <3>1. Shake(c) /\ Ends(c) \subseteq Node
      BY TwoEnds DEF Shakes, Ends
    <3>2. QED BY <1>2, <1>4, <1>5, <2>3, <2>4, <3>1, Aside
  <2>5. Shake(d)'
    <3>1. Shake(d) /\ n \in {d.from, d.to}
      BY <2>2 DEF Shakes, Ends
    <3>2. ~Fresh(d)
      BY <2>2, <3>1 DEF Fresh
    <3>3. stage[d] = "taken" /\ ~Dialing(d) /\ ~Queued(d) /\ ~Hearing(d) /\ Once(d)
      BY <3>1, <3>2 DEF Shake
    <3>4. stage'[d] = "taken" /\ ~Queued(d)' /\ Once(d)'
      BY <1>2, <3>3 DEF Queued, Once
    <3>5. ~Dialing(d)' /\ ~Hearing(d)'
      BY <1>3, <3>3, TwoEnds DEF Dialing, Hearing
    <3>6. Welcomes(d)' => inbox'[d][d.from] # <<>> /\ Head(inbox'[d][d.from]) = "welcome"
      <4>1. SUFFICES ASSUME Welcomes(d)'
                     PROVE  inbox'[d][d.from] # <<>> /\ Head(inbox'[d][d.from]) = "welcome"
        OBVIOUS
      <4>2. d.from # n
        BY <1>3, <4>1 DEF Welcomes
      <4>3. n = d.to /\ Other(n, d) = d.from /\ d.from \in Node
        BY <3>1, <4>2, TwoEnds
      <4>4. Welcomes(d)
        BY <1>3, <4>1, <4>2, <4>3 DEF Welcomes
      <4>5. inbox[d][d.from] # <<>> /\ Head(inbox[d][d.from]) = "welcome"
        BY <2>2, <3>1, <4>3, <4>4 DEF Shake
      <4>6. QED BY <2>3, <4>3, <4>5
    <3>7. QED BY <3>4, <3>5, <3>6 DEF Shake
  <2>6. QED BY <2>4, <2>5 DEF Shakes
<1>8. QED BY <1>6, <1>7 DEF Send, SendTo, connVars

LEMMA ShakeProcess ==
  ASSUME TypeInv, Shakes, NEW n \in Node, Leave(n) \/ Start(n)
  PROVE  Shakes'
<1>1. CASE Leave(n)
  <2>1. /\ Goto(n, "down", None)
        /\ peers' = [peers EXCEPT ![n] = [m \in Node |-> None]]
        /\ incoming' = [incoming EXCEPT ![n] = <<>>]
        /\ live' = [c \in Conn |-> live[c] \ {n}] /\ UNCHANGED inbox
        /\ \A c \in Conn : stage'[c] \in {stage[c], "taken"}
    BY <1>1 DEF Leave
  <2>2. Only(n) /\ \A c \in Conn : Off(n, c)
    BY <2>1, GoesOff, TwoEnds DEF Locations
  <2>3. \A c \in Conn : live'[c] \subseteq live[c]
    BY <2>1
  <2>4. \A c \in Conn : Keeps(n, c)
    <3>1. \A k, l \in Node : peers'[k][l] \in {peers[k][l], None}
      BY <2>1 DEF TypeInv, TypeOK
    <3>2. QED BY <3>1, TwoEnds DEF Keeps
  <2>5. ASSUME NEW c \in Conn PROVE (Queued(c)' => Queued(c)) /\ (Once(c) => Once(c)')
    <3>1. c.to \in Node
      BY TwoEnds
    <3>2. CASE c.to = n
      <4>1. 1 .. Len(incoming'[c.to]) = {}
        BY <2>1, <3>1, <3>2 DEF TypeInv, TypeOK
      <4>2. QED BY <4>1 DEF Queued, Once
    <3>3. CASE c.to # n
      <4>1. incoming'[c.to] = incoming[c.to]
        BY <2>1, <3>1, <3>3 DEF TypeInv, TypeOK
      <4>2. QED BY <4>1 DEF Queued, Once
    <3>4. QED BY <3>2, <3>3
  <2> SUFFICES ASSUME NEW c \in Conn PROVE Shake(c)'
    BY DEF Shakes
  <2>6. Shake(c) /\ Once(c)
    BY DEF Shakes, Shake
  <2>7. QED BY <2>1, <2>2, <2>3, <2>4, <2>5, <2>6, MovesOff, Stays
<1>2. CASE Start(n)
  <2>1. Goto(n, "select", None) /\ UNCHANGED <<peers, incoming, stage, live, inbox>>
    BY <1>2 DEF Start, connVars
  <2>2. Only(n) /\ \A c \in Conn : Off(n, c)
    BY <2>1, GoesOff, TwoEnds DEF Locations
  <2>3. QED BY <2>1, <2>2, Aside DEF Shakes, Keeps
<1>3. QED BY <1>1, <1>2

LEMMA ShakeEbb ==
  ASSUME TypeInv, Shakes, NEW d \in Conn, Ebb(d)
  PROVE  Shakes'
<1>1. UNCHANGED <<at, cur, peers, incoming, stage, inbox>>
  BY EbbOnly DEF taskVars
<1>2. d.from \in Node /\ \A c \in Conn : live'[c] \subseteq live[c]
  BY EbbOnly, TwoEnds
<1>3. Only(d.from) /\ \A c \in Conn : Off(d.from, c) /\ Keeps(d.from, c)
  BY <1>1 DEF Only, Off, Keeps
<1>4. QED BY <1>1, <1>2, <1>3, Aside DEF Shakes

LEMMA ShakeStep ==
  ASSUME TypeInv, Shakes, [Next]_vars
  PROVE  Shakes'
<1>1. CASE UNCHANGED vars
  BY <1>1 DEF vars, taskVars, connVars, Shakes, Shake, Untouched, Fresh, Past, Queued,
              Once, Hearing, Welcomes, Dialing
<1>2. CASE \E n \in Node : Continue(n) \/ Serve(n)
  BY <1>2, ShakeHello, ShakeWelcome, ShakeReply, ShakeBack, ShakeSends, ShakeTake,
     ShakeForward DEF Continue, Serve
<1>3. CASE \E n \in Node : Begin(n)
  BY <1>3, ShakeSends, ShakeDial, ShakeDisconnect DEF Begin
<1>4. CASE \E n \in Node : Accept(n) \/ AcceptFails(n) \/ DialFails(n) \/ Leave(n) \/ Start(n)
  BY <1>4, ShakeAccept, ShakeBack, ShakeProcess
<1>5. CASE \E c \in Conn : Ebb(c)
  BY <1>5, ShakeEbb
<1>6. QED BY <1>1, <1>2, <1>3, <1>4, <1>5 DEF Next, Ebb

-----------------------------------------------------------------------------
(* OPEN CONNECTIONS *)

(* What another machine has is not touched. *)
Others(n) ==
  \A k \in Node : k # n => peers'[k] = peers[k] /\ incoming'[k] = incoming[k]
Shrinks == \A c \in Conn : live'[c] \subseteq live[c]

InQueue(n, c) == \E i \in 1 .. Len(incoming[n]) : incoming[n][i] = c

(* Only n moved, and it kept what it still sees open. *)
LEMMA LeakMove ==
  ASSUME TypeInv, NoLeak, NEW n \in Node, Only(n), Others(n), Shrinks,
         \A c \in Conn : n \in live'[c] /\ Holds(n, c) => Holds(n, c)'
  PROVE  NoLeak'
<1> SUFFICES ASSUME NEW c \in Conn, NEW k \in live'[c] PROVE Holds(k, c)'
  BY DEF NoLeak
<1>1. k \in live[c] /\ k \in Node
  BY TwoEnds DEF Shrinks, TypeInv, Places, Lives
<1>2. Holds(k, c)
  BY <1>1 DEF NoLeak
<1>3. CASE k = n
  BY <1>2, <1>3
<1>4. CASE k # n
  BY <1>1, <1>2, <1>4 DEF Holds, Only, Others
<1>5. QED BY <1>3, <1>4

LEMMA LeakInit == Init => NoLeak
BY DEF Init, NoLeak

LEMMA LeakHandshake ==
  ASSUME TypeInv, Shakes, NoLeak, NEW n \in Node,
         SendHello(n) \/ RecvWelcome(n) \/ RecvHello(n) \/ HandshakeFails(n) \/ DialFails(n)
  PROVE  NoLeak'
<1>0. at[n] \in {"dial", "welcome", "hello"} /\ UNCHANGED <<peers, incoming>>
  BY DEF SendHello, RecvWelcome, RecvHello, HandshakeFails, DialFails, connVars
<1>1. PICK d \in Conn : d = cur[n]
  BY <1>0, AtWork
<1>2. \/ /\ UNCHANGED live
         /\ \E loc \in {"welcome", "announce"} : Goto(n, loc, d)
      \/ Close(n, d) /\ Goto(n, "select", None)
      \/ UNCHANGED live /\ n \notin live[d] /\ Goto(n, "select", None)
  <2>1. CASE DialFails(n)
    <3>1. stage[d] = "offered" /\ UNCHANGED live /\ Goto(n, "select", None)
      BY <1>1, <2>1 DEF DialFails, Back, connVars
    <3>2. live[d] = {}
      BY <3>1 DEF Shakes, Shake, Untouched
    <3>3. QED BY <3>1, <3>2
  <2>2. CASE ~DialFails(n)
    BY <1>1, <2>2 DEF SendHello, RecvWelcome, RecvHello, HandshakeFails, Back, connVars
  <2>3. QED BY <2>1, <2>2
<1>3. CASE \E loc \in {"welcome", "announce"} : UNCHANGED live /\ Goto(n, loc, d)
  <2>1. PICK loc \in {"welcome", "announce"} : UNCHANGED live /\ Goto(n, loc, d)
    BY <1>3
  <2>2. Only(n) /\ at'[n] = loc /\ cur'[n] = d
    BY <2>1, GoesOff DEF Locations
  <2>3. \A c \in Conn : Holds(n, c) => Holds(n, c)'
    BY <1>0, <1>1, <2>2 DEF Holds
  <2>4. QED BY <1>0, <2>1, <2>2, <2>3, LeakMove DEF Others, Shrinks
<1>4. CASE Goto(n, "select", None) /\ (Close(n, d) \/ (UNCHANGED live /\ n \notin live[d]))
  <2>1. Only(n)
    BY <1>4, GoesOff DEF Locations
  <2>2. n \notin live'[d] /\ Shrinks
    BY <1>4, Closes DEF TypeInv, Shrinks
  <2>3. \A c \in Conn : n \in live'[c] /\ Holds(n, c) => Holds(n, c)'
    BY <1>0, <1>1, <2>2 DEF Holds
  <2>4. QED BY <1>0, <2>1, <2>2, <2>3, LeakMove DEF Others
<1>5. QED BY <1>2, <1>3, <1>4

LEMMA LeakDial ==
  ASSUME TypeInv, NoLeak, NEW n \in Node, NEW m \in Node, Dial(n, m)
  PROVE  NoLeak'
<1>1. PICK d \in Conn : at[n] = "select" /\ Goto(n, "dial", d)
  BY DEF Dial
<1>2. UNCHANGED <<peers, incoming, live>>
  BY DEF Dial
<1>3. Only(n)
  BY <1>1, GoesOff DEF Locations
<1>4. \A c \in Conn : Holds(n, c) => Holds(n, c)'
  BY <1>1, <1>2 DEF Holds
<1>5. QED BY <1>2, <1>3, <1>4, LeakMove DEF Others, Shrinks

LEMMA LeakAccept ==
  ASSUME TypeInv, NoLeak, NEW n \in Node, Accept(n) \/ AcceptFails(n)
  PROVE  NoLeak'
<1>1. CASE AcceptFails(n)
  BY <1>1 DEF AcceptFails, taskVars, NoLeak, Holds
<1>2. CASE Accept(n)
  <2>1. PICK d \in Conn : /\ d.to = n /\ Dialing(d)
                          /\ live' = [live EXCEPT ![d] = {d.from, d.to}]
                          /\ incoming' = [incoming EXCEPT ![n] = Append(@, d)]
    BY <1>2 DEF Accept
  <2>2. UNCHANGED <<at, cur, peers>>
    BY <1>2 DEF Accept, taskVars
  <2>3. incoming[n] \in Seq(Conn) /\ incoming'[n] = Append(incoming[n], d)
        /\ \A k \in Node : k # n => incoming'[k] = incoming[k]
    BY <2>1 DEF TypeInv, TypeOK
  <2>4. /\ \A i \in 1 .. Len(incoming[n]) :
             i \in 1 .. Len(incoming'[n]) /\ incoming'[n][i] = incoming[n][i]
        /\ \E i \in 1 .. Len(incoming'[n]) : incoming'[n][i] = d
    <3>1. Len(incoming[n]) \in Nat /\ Len(incoming'[n]) = Len(incoming[n]) + 1
          /\ incoming'[n][Len(incoming[n]) + 1] = d
      BY <2>3
    <3>2. QED BY <2>3, <3>1
  <2>5. live'[d] = {d.from, d.to} /\ \A c \in Conn : c # d => live'[c] = live[c]
    BY <2>1 DEF TypeInv, TypeOK
  <2> SUFFICES ASSUME NEW c \in Conn, NEW k \in live'[c] PROVE Holds(k, c)'
    BY DEF NoLeak
  <2>6. CASE c = d
    <3>1. k \in {d.from, n}
      BY <2>1, <2>5, <2>6
    <3>2. CASE k = d.from
      BY <2>1, <2>2, <2>6, <3>2 DEF Dialing, Holds
    <3>3. CASE k = n
      BY <2>4, <2>6, <3>3 DEF Holds
    <3>4. QED BY <3>1, <3>2, <3>3
  <2>7. CASE c # d
    <3>1. k \in Node /\ Holds(k, c)
      BY <2>5, <2>7, TwoEnds DEF NoLeak, TypeInv, Places, Lives
    <3>2. InQueue(k, c) => InQueue(k, c)'
      BY <2>3, <2>4, <3>1 DEF InQueue
    <3>3. QED BY <2>2, <3>1, <3>2 DEF Holds, InQueue
  <2>8. QED BY <2>6, <2>7
<1>3. QED BY <1>1, <1>2

LEMMA LeakTake ==
  ASSUME TypeInv, NoLeak, NEW n \in Node, TakeIncoming(n)
  PROVE  NoLeak'
<1>0. PICK d \in Conn : d = Head(incoming[n])
  BY DEF TakeIncoming, TypeInv, TypeOK
<1>1. /\ incoming[n] # <<>> /\ incoming' = [incoming EXCEPT ![n] = Tail(@)]
      /\ Goto(n, "hello", d) /\ at[n] = "select"
      /\ UNCHANGED <<peers, live>>
  BY <1>0 DEF TakeIncoming, connVars
<1>2. incoming[n] \in Seq(Conn) /\ incoming'[n] = Tail(incoming[n])
      /\ \A k \in Node : k # n => incoming'[k] = incoming[k]
  BY <1>1 DEF TypeInv, TypeOK
<1>3. \A i \in 1 .. Len(incoming[n]) :
        incoming[n][i] = d \/ (i - 1 \in 1 .. Len(incoming'[n])
                               /\ incoming'[n][i - 1] = incoming[n][i])
  <2>1. ASSUME NEW i \in 1 .. Len(incoming[n])
        PROVE  incoming[n][i] = d \/ (i - 1 \in 1 .. Len(incoming'[n])
                               /\ incoming'[n][i - 1] = incoming[n][i])
    <3>1. CASE i = 1
      BY <1>0, <1>1, <1>2, <3>1
    <3>2. CASE i # 1
      <4>1. /\ incoming[n] \in Seq(Conn) /\ incoming[n] # <<>>
            /\ Len(incoming[n]) \in Nat /\ Len(Tail(incoming[n])) = Len(incoming[n]) - 1
        BY <1>1, <1>2
      <4>2. i - 1 \in 1 .. Len(Tail(incoming[n])) /\ (i - 1) + 1 = i
        BY <3>2, <4>1
      <4>3. Tail(incoming[n])[i - 1] = incoming[n][i]
        BY <4>1, <4>2
      <4>4. QED BY <1>2, <4>2, <4>3
    <3>3. QED BY <3>1, <3>2
  <2>2. QED BY <2>1
<1>4. Only(n) /\ at'[n] = "hello" /\ cur'[n] = d
  BY <1>1, GoesOff DEF Locations
<1>5. \A c \in Conn : Holds(n, c) => Holds(n, c)'
  BY <1>1, <1>3, <1>4 DEF Holds
<1>6. QED BY <1>1, <1>2, <1>4, <1>5, LeakMove DEF Others, Shrinks

(* insert closes the connection that it replaces. *)
LEMMA LeakAnnounce ==
  ASSUME TypeInv, NoLeak, NEW n \in Node, Announce(n)
  PROVE  NoLeak'
<1>0. PICK d \in Conn : d = cur[n]
  BY AtWork DEF Announce
<1> DEFINE p == Other(n, d)
<1>1. /\ at[n] = "announce" /\ peers' = [peers EXCEPT ![n][p] = d]
      /\ Goto(n, "select", None) /\ UNCHANGED incoming
      /\ IF peers[n][p] = None THEN UNCHANGED live ELSE Close(n, peers[n][p])
  BY <1>0 DEF Announce, Back
<1>2. p \in Node
  BY TwoEnds
<1>3. /\ peers'[n][p] = d /\ \A m \in Node : m # p => peers'[n][m] = peers[n][m]
      /\ \A k \in Node : k # n => peers'[k] = peers[k]
  BY <1>1, <1>2 DEF TypeInv, TypeOK
<1>4. Shrinks /\ \A c \in Conn : peers[n][p] = c => n \notin live'[c]
  <2>1. CASE peers[n][p] = None
    BY <1>1, <2>1, TwoEnds DEF Shrinks
  <2>2. CASE peers[n][p] # None
    BY <1>1, <1>2, <2>2, Held, Closes DEF TypeInv, Shrinks
  <2>3. QED BY <2>1, <2>2
<1>5. Only(n)
  BY <1>1, GoesOff DEF Locations
<1>6. ASSUME NEW c \in Conn, n \in live'[c], Holds(n, c) PROVE Holds(n, c)'
  <2>1. Other(n, c) \in Node
    BY TwoEnds
  <2>2. CASE peers[n][Other(n, c)] = c
    BY <1>3, <1>4, <1>6, <2>1, <2>2 DEF Holds
  <2>3. CASE cur[n] = c
    BY <1>0, <1>3, <2>3 DEF Holds
  <2>4. CASE InQueue(n, c)
    BY <1>1, <2>4 DEF Holds, InQueue
  <2>5. QED BY <1>6, <2>2, <2>3, <2>4 DEF Holds, InQueue
<1>7. QED BY <1>1, <1>3, <1>4, <1>5, <1>6, LeakMove DEF Others

LEMMA LeakDisconnect ==
  ASSUME TypeInv, NoLeak, NEW n \in Node, NEW m \in Node, Disconnect(n, m)
  PROVE  NoLeak'
<1>1. /\ at[n] = "select" /\ peers[n][m] # None /\ peers' = [peers EXCEPT ![n][m] = None]
      /\ Close(n, peers[n][m]) /\ Goto(n, "bye", peers[n][m])
      /\ UNCHANGED incoming
  BY DEF Disconnect
<1>2. peers[n][m] \in Conn
  BY <1>1, Held
<1>3. /\ \A l \in Node : l # m => peers'[n][l] = peers[n][l]
      /\ \A k \in Node : k # n => peers'[k] = peers[k]
  BY <1>1 DEF TypeInv, TypeOK
<1>4. Shrinks /\ n \notin live'[peers[n][m]]
  BY <1>1, <1>2, Closes DEF TypeInv, Shrinks
<1>5. Only(n)
  BY <1>1, <1>2, GoesOff DEF Locations
<1>6. ASSUME NEW c \in Conn, n \in live'[c], Holds(n, c) PROVE Holds(n, c)'
  <2>1. Other(n, c) \in Node
    BY TwoEnds
  <2>2. CASE peers[n][Other(n, c)] = c
    BY <1>3, <1>4, <1>6, <2>1, <2>2 DEF Holds
  <2>3. CASE InQueue(n, c)
    BY <1>1, <2>3 DEF Holds, InQueue
  <2>4. QED BY <1>1, <1>6, <2>2, <2>3 DEF Holds, InQueue
<1>7. QED BY <1>1, <1>3, <1>4, <1>5, <1>6, LeakMove DEF Others

LEMMA LeakSends ==
  ASSUME TypeInv, NoLeak, NEW n \in Node, Send(n) \/ SendTo(n)
  PROVE  NoLeak'
<1>1. PICK ms \in SUBSET Node : SendOn(n, ms) /\ \A m \in ms : peers[n][m] # None
  <2>1. CASE Send(n)
    BY <2>1 DEF Send
  <2>2. CASE SendTo(n)
    <3>1. todo[n] \in SUBSET Node /\ \A m \in todo[n] : peers[n][m] # None
      BY DEF TypeInv, TypeOK, Places, Todos
    <3>2. QED BY <2>2, <3>1 DEF SendTo
  <2>3. QED BY <2>1, <2>2
<1>2. UNCHANGED <<peers, incoming, live>> /\ at[n] \in {"select", "send"}
  BY DEF Send, SendTo, connVars
<1>3. Only(n)
  BY <1>1, SendsOn DEF Only
<1>4. \A c \in Conn : Holds(n, c) => Holds(n, c)'
  BY <1>2 DEF Holds
<1>5. QED BY <1>2, <1>3, <1>4, LeakMove DEF Others, Shrinks

LEMMA LeakRest ==
  ASSUME TypeInv, NoLeak, NEW n \in Node, Bye(n) \/ PmForward(n) \/ Start(n)
  PROVE  NoLeak'
<1>1. /\ UNCHANGED <<peers, incoming, live>>
      /\ \/ UNCHANGED <<at, cur>>
         \/ Goto(n, "select", None) /\ at[n] \in {"bye", "down"}
  BY DEF Bye, PmForward, Start, Back, connVars, taskVars
<1>2. CASE UNCHANGED <<at, cur>>
  BY <1>1, <1>2 DEF NoLeak, Holds
<1>3. CASE Goto(n, "select", None) /\ at[n] \in {"bye", "down"}
  <2>1. Only(n)
    BY <1>3, GoesOff DEF Locations
  <2>2. \A c \in Conn : Holds(n, c) => Holds(n, c)'
    BY <1>1, <1>3 DEF Holds
  <2>3. QED BY <1>1, <2>1, <2>2, LeakMove DEF Others, Shrinks
<1>4. QED BY <1>1, <1>2, <1>3

LEMMA LeakLeave ==
  ASSUME TypeInv, NoLeak, NEW n \in Node, Leave(n)
  PROVE  NoLeak'
<1>1. /\ Goto(n, "down", None)
      /\ peers' = [peers EXCEPT ![n] = [m \in Node |-> None]]
      /\ incoming' = [incoming EXCEPT ![n] = <<>>]
      /\ live' = [c \in Conn |-> live[c] \ {n}]
  BY DEF Leave
<1>2. Only(n)
  BY <1>1, GoesOff DEF Locations
<1>3. Others(n)
  BY <1>1 DEF TypeInv, TypeOK, Others
<1>4. Shrinks /\ \A c \in Conn : n \notin live'[c]
  BY <1>1 DEF Shrinks
<1>5. QED BY <1>2, <1>3, <1>4, LeakMove

LEMMA LeakEbb ==
  ASSUME TypeInv, NoLeak, NEW d \in Conn, Ebb(d)
  PROVE  NoLeak'
<1>1. UNCHANGED <<at, cur, peers, incoming>>
  BY EbbOnly DEF taskVars
<1>2. d.from \in Node /\ Shrinks
  BY EbbOnly, TwoEnds DEF Shrinks
<1>3. Only(d.from) /\ Others(d.from) /\ \A c \in Conn : Holds(d.from, c) => Holds(d.from, c)'
  BY <1>1 DEF Only, Others, Holds
<1>4. QED BY <1>2, <1>3, LeakMove

LEMMA LeakStep ==
  ASSUME TypeInv, Shakes, NoLeak, [Next]_vars
  PROVE  NoLeak'
<1>1. CASE UNCHANGED vars
  BY <1>1 DEF vars, taskVars, connVars, NoLeak, Holds
<1>2. CASE \E n \in Node : Continue(n) \/ Serve(n)
  BY <1>2, LeakHandshake, LeakAnnounce, LeakRest, LeakSends, LeakTake DEF Continue, Serve
<1>3. CASE \E n \in Node : Begin(n)
  BY <1>3, LeakSends, LeakDial, LeakDisconnect DEF Begin
<1>4. CASE \E n \in Node : Accept(n) \/ AcceptFails(n) \/ DialFails(n) \/ Leave(n) \/ Start(n)
  BY <1>4, LeakAccept, LeakHandshake, LeakLeave, LeakRest
<1>5. CASE \E c \in Conn : Ebb(c)
  BY <1>5, LeakEbb
<1>6. QED BY <1>1, <1>2, <1>3, <1>4, <1>5 DEF Next, Ebb

NetInv == TypeInv /\ Shakes /\ NoLeak

LEMMA NetInvariant == Spec => []NetInv
<1>1. Init => NetInv
  BY TypeInit, ShakeInit, LeakInit DEF NetInv
<1>2. NetInv /\ [Next]_vars => NetInv'
  BY TypeStep, ShakeStep, LeakStep DEF NetInv
<1>3. QED BY <1>1, <1>2, PTL DEF Spec

(* No connection stays open at an end that neither has it in its peer map, *)
(* nor works on it, nor has it in its queue: a handshake that fails, a     *)
(* connection that replaces another, a disconnect and the end of a process *)
(* all close what they leave.                                              *)
THEOREM NothingLeaks == Spec => []NoLeak
BY NetInvariant, PTL DEF NetInv

(* Two idle ends never use different open connections: a connection that   *)
(* both see open and one has in its map is held by the other, and, since   *)
(* its Welcome was sent, no longer waits in the queue.                     *)
THEOREM PairsAgree == Spec => []PairAgrees
<1>1. NetInv => PairAgrees
  <2> SUFFICES ASSUME NetInv, NEW n \in Node, NEW m \in Node, peers[n][m] # None,
                      at[n] = "select", at[m] = "select", live[peers[n][m]] = {n, m}
               PROVE  peers[m][n] = peers[n][m]
    BY DEF PairAgrees
  <2>0. TypeInv /\ Shakes /\ NoLeak
    BY DEF NetInv
  <2>1. PICK c \in Conn : /\ c = peers[n][m] /\ n # m /\ Ends(c) = {n, m}
                          /\ Other(n, c) = m /\ Other(m, c) = n
    BY <2>0, Held
  <2>2. Holds(m, c) /\ cur[m] = None /\ c # None
    BY <2>0, <2>1, TwoEnds DEF NoLeak, TypeInv, Places, Tasks
  <2>3. ~InQueue(m, c)
    <3>1. SUFFICES ASSUME InQueue(m, c) PROVE FALSE
      OBVIOUS
    <3>2. c.to = m
      BY <2>0, <3>1 DEF InQueue, TypeInv, Places, Queues
    <3>3. c.from = n /\ Queued(c)
      BY <2>1, <3>1, <3>2, TwoEnds DEF InQueue, Queued
    <3>4. ~Past(n, c)
      BY <2>0, <3>3 DEF Shakes, Shake, Fresh
    <3>5. QED BY <2>1, <3>4 DEF Past
  <2>4. QED BY <2>1, <2>2, <2>3 DEF Holds, InQueue
<1>2. QED BY <1>1, NetInvariant, PTL

-----------------------------------------------------------------------------
(* STATUS *)

(* What the pending events q make of an entry that counts s. *)
About(q, m) == {i \in 1 .. Len(q) : q[i].peer = m}
Says(q, s, m) ==
  IF About(q, m) = {} THEN s > 0
  ELSE \E i \in About(q, m) : q[i].kind = "PeerConnected" /\ \A j \in About(q, m) : j <= i

LEMMA ListedSays == \A n, m : Listed(n, m) <=> Says(pmq[n], status[n][m], m)
BY DEF Listed, Says, About

(* The last event about a peer decides, *)
LEMMA SaysLast ==
  ASSUME NEW q \in Seq(PmEvent), NEW e \in PmEvent, NEW s, NEW m
  PROVE  Says(Append(q, e), s, m) <=>
           IF e.peer = m THEN e.kind = "PeerConnected" ELSE Says(q, s, m)
<1> DEFINE r == Append(q, e)
           k == Len(q) + 1
<1>1. /\ Len(q) \in Nat /\ Len(r) = k /\ r[k] = e
      /\ \A i \in 1 .. Len(q) : r[i] = q[i] /\ i < k
      /\ 1 .. Len(r) = (1 .. Len(q)) \cup {k} /\ k \notin 1 .. Len(q) /\ k \in Nat
  OBVIOUS
<1> HIDE DEF r, k
<1>2. CASE e.peer = m
  <2>1. About(r, m) = About(q, m) \cup {k}
    BY <1>1, <1>2 DEF About
  <2>2. \A i \in About(r, m) : i = k \/ (i < k /\ i \in Nat)
    BY <1>1, <2>1 DEF About
  <2>3. About(r, m) # {} /\ \A i \in About(r, m) : (\A j \in About(r, m) : j <= i) <=> i = k
    <3>1. k \in About(r, m)
      BY <2>1
    <3>2. ASSUME NEW i \in About(r, m), \A j \in About(r, m) : j <= i PROVE i = k
      <4>1. k <= i
        BY <3>1, <3>2
      <4>2. QED BY <1>1, <2>2, <4>1
    <3>3. \A j \in About(r, m) : j <= k
      BY <1>1, <2>2
    <3>4. QED BY <3>1, <3>2, <3>3
  <2>4. Says(r, s, m) <=> e.kind = "PeerConnected"
    BY <1>1, <2>1, <2>3 DEF Says
  <2>5. QED BY <1>2, <2>4 DEF r
<1>3. CASE e.peer # m
  <2>1. About(r, m) = About(q, m)
    BY <1>1, <1>3 DEF About
  <2>2. \A i \in About(q, m) : r[i] = q[i]
    BY <1>1 DEF About
  <2>3. Says(r, s, m) <=> Says(q, s, m)
    BY <2>1, <2>2 DEF Says
  <2>4. QED BY <1>3, <2>3 DEF r
<1>4. QED BY <1>2, <1>3

(* and to handle the first one changes nothing. *)
LEMMA SaysFirst ==
  ASSUME NEW q \in Seq(PmEvent), q # <<>>, NEW s \in 0 .. 2, NEW t \in 0 .. 2, NEW m,
         IF q[1].peer = m THEN t > 0 <=> q[1].kind = "PeerConnected" ELSE t = s
  PROVE  Says(Tail(q), t, m) <=> Says(q, s, m)
<1> DEFINE r == Tail(q)
<1>1. /\ Len(q) \in Nat /\ 1 \in 1 .. Len(q) /\ Len(r) = Len(q) - 1
      /\ \A i \in 1 .. Len(r) : r[i] = q[i + 1]
  OBVIOUS
<1> HIDE DEF r
<1>2. \A i \in About(r, m) : i \in Nat /\ i >= 1 /\ r[i] = q[i + 1] /\ i + 1 \in About(q, m)
  BY <1>1 DEF About
<1>3. ASSUME NEW i \in About(q, m), i # 1
      PROVE  i - 1 \in About(r, m) /\ r[i - 1] = q[i] /\ i \in Nat
  <2>1. i \in Nat /\ i - 1 \in 1 .. Len(r) /\ (i - 1) + 1 = i
    BY <1>1, <1>3 DEF About
  <2>2. r[i - 1] = q[i]
    BY <1>1, <2>1
  <2>3. QED BY <1>3, <2>1, <2>2 DEF About
<1>4. CASE About(r, m) = {}
  <2>1. About(q, m) \subseteq {1}
    BY <1>3, <1>4
  <2>2. CASE q[1].peer = m
    <3>1. About(q, m) = {1}
      BY <1>1, <2>1, <2>2 DEF About
    <3>2. Says(q, s, m) <=> q[1].kind = "PeerConnected"
      BY <3>1 DEF Says
    <3>3. QED BY <1>4, <2>2, <3>2 DEF Says, r
  <2>3. CASE q[1].peer # m
    <3>1. About(q, m) = {}
      BY <2>1, <2>3 DEF About
    <3>2. QED BY <1>4, <2>3, <3>1 DEF Says, r
  <2>4. QED BY <2>2, <2>3
<1>5. CASE About(r, m) # {}
  <2>0. PICK a \in About(r, m) : TRUE
    BY <1>5
  <2>1. a \in Nat /\ a + 1 \in About(q, m) /\ a + 1 > 1
    BY <1>2, <2>0
  <2>2. ASSUME NEW i \in About(r, m), r[i].kind = "PeerConnected",
               \A j \in About(r, m) : j <= i
        PROVE  /\ i + 1 \in About(q, m) /\ q[i + 1].kind = "PeerConnected"
               /\ \A j \in About(q, m) : j <= i + 1
    <3>1. i \in Nat /\ i >= 1 /\ i + 1 \in About(q, m) /\ r[i] = q[i + 1]
      BY <1>2
    <3>2. ASSUME NEW j \in About(q, m) PROVE j <= i + 1
      <4>1. CASE j = 1
        BY <3>1, <4>1
      <4>2. CASE j # 1
        <5>1. j \in Nat /\ j - 1 <= i
          BY <1>3, <2>2, <4>2
        <5>2. QED BY <3>1, <5>1
      <4>3. QED BY <4>1, <4>2
    <3>3. QED BY <2>2, <3>1, <3>2
  <2>3. ASSUME NEW i \in About(q, m), q[i].kind = "PeerConnected",
               \A j \in About(q, m) : j <= i
        PROVE  /\ i - 1 \in About(r, m) /\ r[i - 1].kind = "PeerConnected"
               /\ \A j \in About(r, m) : j <= i - 1
    <3>1. a + 1 <= i
      BY <2>1, <2>3
    <3>2. i # 1
      BY <2>1, <3>1
    <3>3. i - 1 \in About(r, m) /\ r[i - 1] = q[i] /\ i \in Nat
      BY <1>3, <3>2
    <3>4. ASSUME NEW j \in About(r, m) PROVE j <= i - 1
      <4>1. j \in Nat /\ j + 1 <= i
        BY <1>2, <2>3
      <4>2. QED BY <3>3, <4>1
    <3>5. QED BY <2>3, <3>3, <3>4
  <2>4. About(q, m) # {}
    BY <2>1
  <2>5. QED BY <1>5, <2>2, <2>3, <2>4 DEF Says, r
<1>6. QED BY <1>4, <1>5

(* Peer m of machine n is in the map, or on its way out of the status. *)
InMap(n, m) == peers[n][m] # None \/ (at[n] = "bye" /\ Other(n, cur[n]) = m)
ByeDone == \A n \in Node : at[n] = "bye" => peers[n][Other(n, cur[n])] = None
StatusInv == StatusAgrees /\ ByeDone

LEMMA StatusInit == Init => StatusInv
<1> SUFFICES ASSUME Init PROVE StatusInv
  OBVIOUS
<1>1. ASSUME NEW n \in Node, NEW m \in Node PROVE ~Listed(n, m)
  <2>1. pmq[n] = <<>> /\ status[n][m] = 0 /\ About(pmq[n], m) = {}
    BY DEF Init, About
  <2>2. QED BY <2>1, ListedSays DEF Says
<1>2. QED BY <1>1 DEF Init, StatusInv, StatusAgrees, ByeDone

(* A step of n that leaves its map, its events and its entries alone and   *)
(* is no part of a disconnect.                                             *)
LEMMA StatusApart ==
  ASSUME StatusInv, NEW n \in Node, Only(n), UNCHANGED <<peers, pmq, status>>,
         (at[n] # "bye" /\ at'[n] # "bye") \/ UNCHANGED <<at, cur>>
  PROVE  StatusInv'
<1>1. ASSUME NEW k \in Node PROVE at'[k] = "bye" <=> at[k] = "bye"
  BY DEF Only
<1>2. ASSUME NEW k \in Node, at[k] = "bye" PROVE cur'[k] = cur[k]
  BY <1>2 DEF Only
<1>3. \A k, m : Listed(k, m)' <=> Listed(k, m)
  BY DEF Listed
<1>4. \A k \in Node : \A m : at[k] = "bye" => (Other(k, cur[k]) = m <=> Other(k, cur'[k]) = m)
  BY <1>2
<1>5. StatusAgrees'
  BY <1>1, <1>2, <1>3 DEF StatusInv, StatusAgrees
<1>6. ByeDone'
  BY <1>1, <1>2 DEF StatusInv, ByeDone
<1>7. QED BY <1>5, <1>6 DEF StatusInv

(* Only n moved, and its own entries are right. *)
Mine(n) == \A m \in Node : Listed(n, m) <=> InMap(n, m)
LEMMA StatusMine ==
  ASSUME StatusInv, NEW n \in Node, Only(n),
         \A k \in Node : k # n => peers'[k] = peers[k] /\ pmq'[k] = pmq[k] /\ status'[k] = status[k],
         Mine(n)', at'[n] = "bye" => peers'[n][Other(n, cur'[n])] = None
  PROVE  StatusInv'
<1>1. ASSUME NEW k \in Node, NEW m \in Node PROVE Listed(k, m)' <=> InMap(k, m)'
  <2>1. CASE k = n
    BY <2>1 DEF Mine
  <2>2. CASE k # n
    <3>1. /\ peers'[k] = peers[k] /\ pmq'[k] = pmq[k] /\ status'[k] = status[k]
          /\ at'[k] = at[k] /\ cur'[k] = cur[k]
      BY <2>2 DEF Only
    <3>2. Listed(k, m) <=> InMap(k, m)
      BY DEF StatusInv, StatusAgrees, InMap
    <3>3. Listed(k, m)' <=> Listed(k, m)
      BY <3>1 DEF Listed
    <3>4. InMap(k, m)' <=> InMap(k, m)
      BY <3>1 DEF InMap
    <3>5. QED BY <3>2, <3>3, <3>4
  <2>3. QED BY <2>1, <2>2
<1>2. StatusAgrees'
  BY <1>1 DEF StatusAgrees, InMap
<1>3. ByeDone'
  BY DEF StatusInv, ByeDone, Only
<1>4. QED BY <1>2, <1>3 DEF StatusInv

LEMMA StatusAnnounce ==
  ASSUME TypeInv, StatusInv, NEW n \in Node, Announce(n)
  PROVE  StatusInv'
<1>0. PICK d \in Conn : d = cur[n]
  BY AtWork DEF Announce
<1>1. PICK p \in Node : p = Other(n, d)
  BY TwoEnds
<1>2. PICK e \in PmEvent : e = [kind |-> "PeerConnected", peer |-> p]
  BY DEF PmEvent
<1>3. /\ at[n] = "announce" /\ Len(pmq[n]) < PmCap
      /\ pmq' = [pmq EXCEPT ![n] = Append(@, e)] /\ peers' = [peers EXCEPT ![n][p] = d]
      /\ Goto(n, "select", None) /\ UNCHANGED status
  BY <1>0, <1>1, <1>2 DEF Announce, Back
<1>4. /\ pmq[n] \in Seq(PmEvent) /\ pmq'[n] = Append(pmq[n], e)
      /\ \A k \in Node : k # n => pmq'[k] = pmq[k]
  BY <1>3 DEF TypeInv, TypeOK
<1>5. /\ peers'[n][p] = d /\ d # None /\ \A m \in Node : m # p => peers'[n][m] = peers[n][m]
      /\ \A k \in Node : k # n => peers'[k] = peers[k]
  BY <1>3, TwoEnds DEF TypeInv, TypeOK
<1>6. Only(n) /\ at'[n] = "select"
  BY <1>3, GoesOff DEF Locations
<1>7. ASSUME NEW m \in Node PROVE Listed(n, m)' <=> InMap(n, m)'
  <2>1. Listed(n, m) <=> InMap(n, m)
    BY DEF StatusInv, StatusAgrees, InMap
  <2>2. Listed(n, m)' <=> Says(Append(pmq[n], e), status[n][m], m)
    BY <1>3, <1>4, ListedSays DEF Listed, Says, About
  <2>3. Listed(n, m)' <=> IF p = m THEN TRUE ELSE Listed(n, m)
    BY <1>2, <1>4, <2>2, SaysLast, ListedSays
  <2>4. QED BY <1>3, <1>5, <1>6, <2>1, <2>3 DEF InMap
<1>8. QED BY <1>3, <1>4, <1>5, <1>6, <1>7, StatusMine DEF Mine

LEMMA StatusDisconnect ==
  ASSUME TypeInv, StatusInv, NEW n \in Node, NEW p \in Node, Disconnect(n, p)
  PROVE  StatusInv'
<1>0. PICK d \in Conn : d = peers[n][p] /\ Other(n, d) = p
  BY Held DEF Disconnect
<1>1. /\ at[n] = "select" /\ peers' = [peers EXCEPT ![n][p] = None]
      /\ Goto(n, "bye", d) /\ UNCHANGED <<pmq, status>>
  BY <1>0 DEF Disconnect
<1>2. /\ peers'[n][p] = None /\ \A m \in Node : m # p => peers'[n][m] = peers[n][m]
      /\ \A k \in Node : k # n => peers'[k] = peers[k]
  BY <1>1 DEF TypeInv, TypeOK
<1>3. Only(n) /\ at'[n] = "bye" /\ cur'[n] = d
  BY <1>1, GoesOff DEF Locations
<1>4. ASSUME NEW m \in Node PROVE Listed(n, m)' <=> InMap(n, m)'
  <2>1. Listed(n, m) <=> InMap(n, m)
    BY DEF StatusInv, StatusAgrees, InMap
  <2>2. Listed(n, m)' <=> Listed(n, m)
    BY <1>1 DEF Listed
  <2>3. InMap(n, p)
    BY <1>0, TwoEnds DEF InMap
  <2>4. QED BY <1>0, <1>1, <1>2, <1>3, <2>1, <2>2, <2>3 DEF InMap
<1>5. QED BY <1>0, <1>1, <1>2, <1>3, <1>4, StatusMine DEF Mine

LEMMA StatusBye ==
  ASSUME TypeInv, StatusInv, NEW n \in Node, Bye(n)
  PROVE  StatusInv'
<1>0. PICK p \in Node : p = Other(n, cur[n])
  BY AtWork DEF Bye
<1>1. PICK e \in PmEvent : e = [kind |-> "PeerDisconnected", peer |-> p]
  BY DEF PmEvent
<1>2. /\ at[n] = "bye" /\ pmq' = [pmq EXCEPT ![n] = Append(@, e)]
      /\ Goto(n, "select", None) /\ UNCHANGED <<peers, status>>
  BY <1>0, <1>1 DEF Bye, Back
<1>3. /\ pmq[n] \in Seq(PmEvent) /\ pmq'[n] = Append(pmq[n], e)
      /\ \A k \in Node : k # n => pmq'[k] = pmq[k]
  BY <1>2 DEF TypeInv, TypeOK
<1>4. Only(n) /\ at'[n] = "select"
  BY <1>2, GoesOff DEF Locations
<1>5. peers[n][p] = None
  BY <1>0, <1>2 DEF StatusInv, ByeDone
<1>6. ASSUME NEW m \in Node PROVE Listed(n, m)' <=> InMap(n, m)'
  <2>1. Listed(n, m) <=> InMap(n, m)
    BY DEF StatusInv, StatusAgrees, InMap
  <2>2. Listed(n, m)' <=> Says(Append(pmq[n], e), status[n][m], m)
    BY <1>2, <1>3 DEF Listed, Says, About
  <2>3. Listed(n, m)' <=> IF p = m THEN FALSE ELSE Listed(n, m)
    BY <1>1, <1>3, <2>2, SaysLast, ListedSays
  <2>4. QED BY <1>0, <1>2, <1>4, <1>5, <2>1, <2>3 DEF InMap
<1>7. QED BY <1>2, <1>3, <1>4, <1>6, StatusMine DEF Mine

LEMMA StatusForward ==
  ASSUME TypeInv, StatusInv, NEW n \in Node, PmForward(n)
  PROVE  StatusInv'
<1> DEFINE q == pmq[n]
<1>0. PICK e \in PmEvent : e = q[1] /\ e = Head(q) /\ e.peer \in Node
                           /\ e.kind \in {"PeerConnected", "PeerDisconnected"}
  <2>1. q \in Seq(PmEvent) /\ q # <<>>
    BY DEF PmForward, TypeInv, TypeOK
  <2> HIDE DEF q
  <2>2. q[1] \in PmEvent /\ Head(q) = q[1]
    BY <2>1
  <2>3. QED BY <2>2 DEF PmEvent
<1>1. /\ q \in Seq(PmEvent) /\ q # <<>> /\ pmq' = [pmq EXCEPT ![n] = Tail(@)]
      /\ pmq'[n] = Tail(q) /\ \A k \in Node : k # n => pmq'[k] = pmq[k]
  BY DEF PmForward, TypeInv, TypeOK
<1>2. UNCHANGED <<at, cur, peers>>
  BY DEF PmForward, taskVars
<1> DEFINE old == status[n][e.peer]
           new == IF e.kind = "PeerDisconnected" THEN 0 ELSE IF old < 2 THEN old + 1 ELSE old
<1>3. status' = [status EXCEPT ![n][e.peer] = new]
  BY <1>0 DEF PmForward
<1>4. \A k \in Node, m \in Node : status[k][m] \in 0 .. 2
  BY DEF TypeInv, TypeOK
<1>5. old \in 0 .. 2 /\ new \in 0 .. 2 /\ (new > 0 <=> e.kind = "PeerConnected")
  BY <1>0, <1>4
<1> HIDE DEF new, old
<1>6. /\ status'[n][e.peer] = new
      /\ \A m \in Node : m # e.peer => status'[n][m] = status[n][m]
      /\ \A k \in Node : k # n => status'[k] = status[k]
  BY <1>0, <1>3 DEF TypeInv, TypeOK
<1>7. ASSUME NEW m \in Node PROVE Listed(n, m)' <=> InMap(n, m)'
  <2>1. Listed(n, m) <=> InMap(n, m)
    BY DEF StatusInv, StatusAgrees, InMap
  <2>2. Listed(n, m)' <=> Says(Tail(q), status'[n][m], m)
    BY <1>1 DEF Listed, Says, About
  <2>3. status[n][m] \in 0 .. 2 /\ status'[n][m] \in 0 .. 2
    BY <1>4, <1>5, <1>6
  <2>4. IF q[1].peer = m THEN status'[n][m] > 0 <=> q[1].kind = "PeerConnected"
                         ELSE status'[n][m] = status[n][m]
    BY <1>0, <1>5, <1>6
  <2>5. Says(Tail(q), status'[n][m], m) <=> Says(q, status[n][m], m)
    BY <1>1, <2>3, <2>4, SaysFirst
  <2>6. Listed(n, m)' <=> Listed(n, m)
    BY <2>2, <2>5, ListedSays
  <2>7. QED BY <1>2, <2>1, <2>6 DEF InMap
<1>8. at'[n] = "bye" => peers'[n][Other(n, cur'[n])] = None
  BY <1>2 DEF StatusInv, ByeDone
<1>9. QED BY <1>1, <1>2, <1>6, <1>7, <1>8, StatusMine DEF Mine, Only

LEMMA StatusLeave ==
  ASSUME TypeInv, StatusInv, NEW n \in Node, Leave(n)
  PROVE  StatusInv'
<1>1. /\ Goto(n, "down", None)
      /\ peers' = [peers EXCEPT ![n] = [m \in Node |-> None]]
      /\ pmq' = [pmq EXCEPT ![n] = <<>>]
      /\ status' = [status EXCEPT ![n] = [m \in Node |-> 0]]
  BY DEF Leave
<1>2. Only(n) /\ at'[n] = "down"
  BY <1>1, GoesOff DEF Locations
<1>3. /\ peers'[n] = [m \in Node |-> None] /\ pmq'[n] = <<>> /\ status'[n] = [m \in Node |-> 0]
      /\ \A k \in Node : k # n =>
           peers'[k] = peers[k] /\ pmq'[k] = pmq[k] /\ status'[k] = status[k]
  BY <1>1 DEF TypeInv, TypeOK
<1>4. ASSUME NEW m \in Node PROVE Listed(n, m)' <=> InMap(n, m)'
  <2>1. About(pmq'[n], m) = {} /\ ~(status'[n][m] > 0)
    BY <1>3 DEF About
  <2>2. ~Listed(n, m)'
    BY <2>1 DEF Listed, About
  <2>3. QED BY <1>2, <1>3, <2>2 DEF InMap
<1>5. QED BY <1>2, <1>3, <1>4, StatusMine DEF Mine

LEMMA StatusMoves ==
  ASSUME TypeInv, StatusInv, NEW n \in Node,
         \/ SendHello(n) \/ RecvWelcome(n) \/ RecvHello(n) \/ HandshakeFails(n) \/ DialFails(n)
         \/ TakeIncoming(n) \/ Send(n) \/ SendTo(n) \/ Start(n) \/ \E m \in Node : Dial(n, m)
  PROVE  StatusInv'
<1>1. UNCHANGED <<peers, pmq, status>>
  BY DEF SendHello, RecvWelcome, RecvHello, HandshakeFails, DialFails, TakeIncoming, Send,
         SendTo, Start, Dial, connVars
<1>2. at[n] # "bye"
  BY DEF SendHello, RecvWelcome, RecvHello, HandshakeFails, DialFails, TakeIncoming, Send,
         SendTo, Start, Dial
<1>3. Only(n) /\ at'[n] # "bye"
  <2>1. CASE Send(n) \/ SendTo(n)
    <3>1. PICK ms \in SUBSET Node : SendOn(n, ms) /\ \A m \in ms : peers[n][m] # None
      <4>1. todo[n] \in SUBSET Node /\ \A m \in todo[n] : peers[n][m] # None
        BY DEF TypeInv, TypeOK, Places, Todos
      <4>2. CASE Send(n)
        BY <4>2 DEF Send
      <4>3. CASE SendTo(n)
        BY <4>1, <4>3 DEF SendTo
      <4>4. QED BY <2>1, <4>2, <4>3
    <3>2. QED BY <3>1, SendsOn DEF Only
  <2>2. CASE ~(Send(n) \/ SendTo(n))
    <3>1. \E loc \in Locations \ {"bye"}, d \in Conn \cup {None} : Goto(n, loc, d)
      <4>1. at[n] \notin {"select", "down"} => cur[n] \in Conn
        BY AtWork
      <4>2. incoming[n] # <<>> => Head(incoming[n]) \in Conn
        BY DEF TypeInv, TypeOK
      <4>3. CASE SendHello(n) \/ RecvWelcome(n) \/ RecvHello(n)
        BY <4>1, <4>3 DEF SendHello, RecvWelcome, RecvHello, Back, Locations
      <4>4. CASE HandshakeFails(n) \/ DialFails(n) \/ Start(n)
        BY <4>4 DEF HandshakeFails, DialFails, Start, Back, Locations
      <4>5. CASE TakeIncoming(n) \/ \E m \in Node : Dial(n, m)
        BY <4>2, <4>5 DEF TakeIncoming, Dial, Locations
      <4>6. QED BY <2>2, <4>3, <4>4, <4>5
    <3>2. QED BY <3>1, GoesOff
  <2>3. QED BY <2>1, <2>2
<1>4. QED BY <1>1, <1>2, <1>3, StatusApart

LEMMA StatusStep ==
  ASSUME TypeInv, StatusInv, [Next]_vars
  PROVE  StatusInv'
<1>1. CASE UNCHANGED vars
  BY <1>1 DEF vars, taskVars, StatusInv, StatusAgrees, ByeDone, Listed
<1>2. CASE \E n \in Node : Continue(n) \/ Serve(n)
  BY <1>2, StatusMoves, StatusAnnounce, StatusBye, StatusForward DEF Continue, Serve
<1>3. CASE \E n \in Node : Begin(n)
  BY <1>3, StatusMoves, StatusDisconnect DEF Begin
<1>4. CASE \E n \in Node : Accept(n) \/ AcceptFails(n)
  <2>1. PICK n \in Node : Accept(n) \/ AcceptFails(n)
    BY <1>4
  <2>2. UNCHANGED <<at, cur, peers, pmq, status>>
    BY <2>1 DEF Accept, AcceptFails, taskVars
  <2>3. QED BY <2>2, StatusApart DEF Only
<1>5. CASE \E n \in Node : DialFails(n) \/ Leave(n) \/ Start(n)
  BY <1>5, StatusMoves, StatusLeave
<1>6. CASE \E c \in Conn : Ebb(c)
  <2>1. PICK c \in Conn : Ebb(c)
    BY <1>6
  <2>2. c.from \in Node /\ UNCHANGED <<at, cur, peers, pmq, status>>
    BY <2>1, TwoEnds, EbbOnly DEF taskVars
  <2>3. QED BY <2>2, StatusApart DEF Only
<1>7. QED BY <1>1, <1>2, <1>3, <1>4, <1>5, <1>6 DEF Next, Ebb

(* The status lists a peer exactly when the map has it, once the events    *)
(* under way are handled, whatever sequence of connects, replacements,     *)
(* disconnects and restarts led there: each change of the map has its      *)
(* event, the last event about a peer decides, and none overtakes another. *)
THEOREM StatusCorrect == Spec => []StatusAgrees
<1>1. Init => TypeInv /\ StatusInv
  BY TypeInit, StatusInit
<1>2. TypeInv /\ StatusInv /\ [Next]_vars => (TypeInv /\ StatusInv)'
  BY TypeStep, StatusStep
<1>3. StatusInv => StatusAgrees
  BY DEF StatusInv
<1>4. QED BY <1>1, <1>2, <1>3, PTL DEF Spec

-----------------------------------------------------------------------------
(* WAITING FOR ONE ANOTHER *)

Moves(n) ==
  \/ Continue(n) \/ Serve(n) \/ Begin(n) \/ DialFails(n) \/ Leave(n) \/ Start(n)

(* Only its own steps move a task. *)
LEMMA Movers ==
  ASSUME TypeInv, [Next]_vars, NEW k \in Node, ~Moves(k)
  PROVE  at'[k] = at[k] /\ cur'[k] = cur[k] /\ pmq'[k] = pmq[k]
<1>1. CASE UNCHANGED vars \/ \E c \in Conn : Ebb(c)
  BY <1>1, EbbOnly DEF vars, taskVars
<1>2. CASE \E n \in Node : Accept(n) \/ AcceptFails(n)
  BY <1>2 DEF Accept, AcceptFails, taskVars
<1>3. CASE \E n \in Node : Moves(n)
  <2>1. PICK n \in Node : Moves(n)
    BY <1>3
  <2>2. n # k
    BY <2>1
  <2>3. pmq'[k] = pmq[k]
    <3>1. UNCHANGED pmq \/ \E x : pmq' = [pmq EXCEPT ![n] = x]
      <4>1. CASE Continue(n)
        BY <4>1 DEF Continue, SendHello, RecvWelcome, RecvHello, HandshakeFails, Announce,
                    Bye, SendTo
      <4>2. CASE Serve(n) \/ Begin(n) \/ DialFails(n) \/ Start(n)
        BY <4>2 DEF Serve, TakeIncoming, PmForward, Begin, Send, Dial, Disconnect, DialFails,
                    Start
      <4>3. CASE Leave(n)
        BY <4>3 DEF Leave
      <4>4. QED BY <2>1, <4>1, <4>2, <4>3 DEF Moves
    <3>2. QED BY <2>2, <3>1 DEF TypeInv, TypeOK
  <2>4. UNCHANGED <<at, cur>> \/ \E loc, d : Goto(n, loc, d)
    <3>1. CASE Continue(n)
      BY <3>1 DEF Continue, SendHello, RecvWelcome, RecvHello, HandshakeFails, Announce,
                  Bye, SendTo, SendOn, Back
    <3>2. CASE Serve(n) \/ Begin(n) \/ DialFails(n) \/ Start(n)
      BY <3>2 DEF Serve, TakeIncoming, PmForward, Begin, Send, SendOn, Dial, Disconnect,
                  DialFails, Start, Back, taskVars
    <3>3. CASE Leave(n)
      BY <3>3 DEF Leave
    <3>4. QED BY <2>1, <3>1, <3>2, <3>3 DEF Moves
  <2>5. QED BY <2>2, <2>3, <2>4 DEF Goto, TypeInv, TypeOK
<1>4. QED BY <1>1, <1>2, <1>3 DEF Next, Moves, Ebb

(* A machine that waits takes no step, but that it may end. *)
LEMMA WaitersRest ==
  ASSUME TypeInv, NEW S, NEW n \in Node, Waits(n, S), Moves(n)
  PROVE  at'[n] = "down"
<1>1. /\ at[n] \in {"welcome", "send", "announce", "bye"}
      /\ at[n] = "welcome" => n \in live[cur[n]] /\ inbox[cur[n]][n] = <<>>
      /\ at[n] = "send" => n \in live[cur[n]] /\ ~HasRoom(n, cur[n])
      /\ at[n] \in {"announce", "bye"} => Len(pmq[n]) = PmCap
  BY DEF Waits
<1>2. ~Serve(n) /\ ~Begin(n) /\ ~DialFails(n) /\ ~Start(n)
  BY <1>1 DEF Serve, TakeIncoming, PmForward, Begin, Send, Dial, Disconnect, DialFails, Start
<1>3. ~Announce(n) /\ ~Bye(n)
  <2>1. SUFFICES ASSUME at[n] \in {"announce", "bye"}, Len(pmq[n]) < PmCap PROVE FALSE
    BY DEF Announce, Bye
  <2>2. QED BY <1>1, <2>1, Sizes
<1>4. ~SendHello(n) /\ ~RecvWelcome(n) /\ ~RecvHello(n) /\ ~HandshakeFails(n) /\ ~SendTo(n)
  BY <1>1 DEF SendHello, RecvWelcome, RecvHello, HandshakeFails, SendTo, Stream
<1>5. Leave(n)
  BY <1>2, <1>3, <1>4 DEF Moves, Continue
<1>6. QED BY <1>5, GoesOff DEF Leave, Locations

(* The streams waiting at an end become fewer only as that end reads its   *)
(* part of the handshake, and more only as the other end writes.           *)
Reader(c, m) == cur[m] = c /\ at[m] \in {"welcome", "hello"} /\ inbox[c][m] # <<>>
Writer(c, m) == cur[m] = c /\ at[m] \in {"dial", "hello", "send"}
LEMMA Streams ==
  ASSUME TypeInv, [Next]_vars, NEW c \in Conn, NEW m \in Ends(c)
  PROVE  \/ inbox'[c][m] = inbox[c][m]
         \/ Reader(c, m)
         \/ Writer(c, Other(m, c)) /\ \E msg \in Msg : inbox'[c][m] = Append(inbox[c][m], msg)
<1> DEFINE Fine == \/ inbox'[c][m] = inbox[c][m]
                   \/ Reader(c, m)
                   \/ /\ Writer(c, Other(m, c))
                      /\ \E msg \in Msg : inbox'[c][m] = Append(inbox[c][m], msg)
<1>0. m \in Node /\ Other(m, c) \in Node /\ Other(Other(m, c), c) = m
  BY TwoEnds
<1>1. ASSUME NEW n \in Node, NEW msg \in Msg, Stream(n, cur[n], msg), cur[n] \in Conn,
             n \in Ends(cur[n]), at[n] \in {"dial", "send"}
      PROVE  Fine
  <2>1. /\ inbox'[cur[n]][Other(n, cur[n])] = Append(inbox[cur[n]][Other(n, cur[n])], msg)
        /\ \A d \in Conn, k \in Node : d # cur[n] \/ k # Other(n, cur[n])
             => inbox'[d][k] = inbox[d][k]
    BY <1>1, Sends DEF TypeInv
  <2>2. CASE c = cur[n] /\ m = Other(n, c)
    <3>1. Other(m, c) = n
      BY <1>1, <2>2, TwoEnds
    <3>2. QED BY <1>1, <2>1, <2>2, <3>1 DEF Writer
  <2>3. QED BY <1>0, <2>1, <2>2
<1>2. ASSUME NEW n \in Node, SendHello(n) PROVE Fine
  <2>1. Stream(n, cur[n], "hello") /\ at[n] = "dial"
    BY <1>2 DEF SendHello
  <2>2. QED BY <1>1, <2>1, AtWork DEF Msg
<1>3. ASSUME NEW n \in Node, SendTo(n) PROVE Fine
  <2>1. at[n] = "send" /\ (Stream(n, cur[n], "other") \/ UNCHANGED inbox)
    BY <1>3 DEF SendTo
  <2>2. CASE Stream(n, cur[n], "other")
    BY <1>1, <2>1, <2>2, AtWork DEF Msg
  <2>3. QED BY <2>1, <2>2
<1>4. ASSUME NEW n \in Node, RecvWelcome(n) PROVE Fine
  <2>1. /\ at[n] = "welcome" /\ inbox[cur[n]][n] # <<>> /\ cur[n] \in Conn
        /\ inbox' = [inbox EXCEPT ![cur[n]][n] = Tail(@)]
    BY <1>4, AtWork DEF RecvWelcome
  <2>2. c # cur[n] \/ m # n => inbox'[c][m] = inbox[c][m]
    BY <1>0, <2>1, Reads DEF TypeInv
  <2>3. QED BY <2>1, <2>2 DEF Reader
<1>5. ASSUME NEW n \in Node, RecvHello(n) PROVE Fine
  <2>1. PICK d \in Conn : d = cur[n] /\ at[n] = "hello" /\ d.to = n
    BY <1>5, AtWork DEF RecvHello
  <2>2. CASE c = d /\ m = n
    BY <1>5, <2>1, <2>2 DEF Reader, RecvHello
  <2>3. CASE c # d \/ m # n
    <3>1. inbox[d][n] # <<>>
      BY <1>5, <2>1 DEF RecvHello
    <3>2. CASE inbox' = [inbox EXCEPT ![d][n] = Tail(@)]
      BY <1>0, <2>3, <3>1, <3>2, Reads DEF TypeInv
    <3>3. CASE /\ HasRoom(n, d)
               /\ inbox' = [inbox EXCEPT ![d][n] = Tail(@),
                              ![d][d.from] = Append(inbox[d][d.from], "welcome")]
      <4>1. /\ inbox'[d][d.from] = Append(inbox[d][d.from], "welcome")
            /\ c # d => inbox'[c][m] = inbox[c][m]
        <5>1. TypeOK
          BY DEF TypeInv
        <5>2. /\ inbox'[d][d.from] = Append(inbox[d][d.from], "welcome")
              /\ \A b \in Conn, k \in Node : b # d => inbox'[b][k] = inbox[b][k]
          BY <2>1, <3>1, <3>3, <5>1, Welcomed
        <5>3. QED BY <1>0, <5>2
      <4>2. CASE c = d
        <5>1. m = d.from /\ Other(m, c) = n
          BY <2>1, <2>3, <4>2, TwoEnds DEF Ends
        <5>2. QED BY <2>1, <4>1, <4>2, <5>1 DEF Writer, Msg
      <4>3. QED BY <4>1, <4>2
    <3>4. QED BY <1>5, <2>1, <3>2, <3>3 DEF RecvHello
  <2>4. QED BY <2>2, <2>3
<1>6. CASE UNCHANGED inbox
  BY <1>6
<1>7. CASE \E n \in Node : Continue(n) \/ Serve(n)
  BY <1>2, <1>3, <1>4, <1>5, <1>6, <1>7
     DEF Continue, Serve, HandshakeFails, Announce, Bye, TakeIncoming, PmForward, connVars
<1>8. CASE \/ UNCHANGED vars \/ \E d \in Conn : Learn(d) \/ Lose(d)
           \/ \E n \in Node : Begin(n) \/ Accept(n) \/ AcceptFails(n) \/ DialFails(n)
                              \/ Leave(n) \/ Start(n)
  BY <1>6, <1>8 DEF vars, connVars, Learn, Lose, Begin, Send, Dial, Disconnect, Accept, AcceptFails,
                    DialFails, Leave, Start
<1>9. QED BY <1>7, <1>8 DEF Next

(* A task comes to await the Welcome only from its own dial. *)
LEMMA WelcomesFrom ==
  ASSUME TypeInv, [Next]_vars, NEW k \in Node, at'[k] = "welcome"
  PROVE  at[k] \in {"dial", "welcome"} /\ cur'[k] = cur[k]
<1>1. CASE ~Moves(k)
  BY <1>1, Movers
<1>2. CASE Moves(k)
  <2>1. ASSUME NEW loc \in Locations \ {"welcome"}, NEW d \in Conn \cup {None}, Goto(k, loc, d)
        PROVE  FALSE
    BY <2>1, GoesOff
  <2>2. at[k] \notin {"select", "down"} => cur[k] \in Conn
    BY AtWork
  <2>3. CASE SendHello(k)
    BY <2>2, <2>3, GoesOff DEF SendHello, Locations
  <2>4. CASE PmForward(k)
    BY <2>4 DEF PmForward, taskVars
  <2>5. ~RecvWelcome(k) /\ ~RecvHello(k) /\ ~HandshakeFails(k) /\ ~DialFails(k)
    BY <2>1, <2>2 DEF RecvWelcome, RecvHello, HandshakeFails, DialFails, Back, Locations
  <2>6. ~Announce(k) /\ ~Bye(k) /\ ~Leave(k) /\ ~Start(k)
    BY <2>1 DEF Announce, Bye, Leave, Start, Back, Locations
  <2>7. ~TakeIncoming(k)
    BY <2>1 DEF TakeIncoming, TypeInv, TypeOK, Locations
  <2>8. \A m \in Node : ~Dial(k, m) /\ ~Disconnect(k, m)
    BY <2>1, Held DEF Dial, Disconnect, Locations
  <2>9. ~Send(k) /\ ~SendTo(k)
    <3>1. todo[k] \in SUBSET Node /\ \A m \in todo[k] : peers[k][m] # None
      BY DEF TypeInv, TypeOK, Places, Todos
    <3>2. ASSUME NEW ms \in SUBSET Node, SendOn(k, ms), \A m \in ms : peers[k][m] # None
          PROVE  FALSE
      BY <3>2, SendsOn
    <3>3. QED BY <3>1, <3>2 DEF Send, SendTo
  <2>10. QED
    BY <1>2, <2>3, <2>4, <2>5, <2>6, <2>7, <2>8, <2>9 DEF Moves, Continue, Serve, Begin
<1>3. QED BY <1>1, <1>2

LEMMA StaysWaiting ==
  ASSUME TypeInv, Shakes, [Next]_vars, NEW S \in SUBSET Node, StuckSet(S), ~Released(S),
         NEW n \in S
  PROVE  Waits(n, S)'
<1>1. \A k \in S : k \in Node /\ at'[k] = at[k] /\ cur'[k] = cur[k] /\ pmq'[k] = pmq[k]
  <2>1. SUFFICES ASSUME NEW k \in S
                 PROVE  k \in Node /\ at'[k] = at[k] /\ cur'[k] = cur[k] /\ pmq'[k] = pmq[k]
    OBVIOUS
  <2>2. k \in Node /\ Waits(k, S) /\ at'[k] # "down"
    BY DEF StuckSet, Released
  <2>3. ~Moves(k)
    BY <2>2, WaitersRest
  <2>4. QED BY <2>2, <2>3, Movers
<1>2. n \in Node /\ at'[n] = at[n] /\ cur'[n] = cur[n] /\ pmq'[n] = pmq[n]
  BY <1>1
<1>3. live'[cur[n]] = live[cur[n]]
  BY DEF Released
<1>4. CASE at[n] = "welcome"
  <2>1. PICK c \in Conn : c = cur[n] /\ n \in Ends(c) /\ c.from = n /\ Other(n, c) = c.to
    BY <1>2, <1>4, AtWork
  <2>2. n \in live[c] /\ inbox[c][n] = <<>> /\ c.to \in S \cap live[c] /\ cur[c.to] # c
    BY <1>4, <2>1 DEF StuckSet, Waits
  <2>3. inbox'[c][n] = inbox[c][n]
    <3>1. ~Writer(c, Other(n, c))
      BY <2>1, <2>2 DEF Writer
    <3>2. ~Reader(c, n)
      BY <2>2 DEF Reader
    <3>3. QED BY <2>1, <3>1, <3>2, Streams
  <2>4. cur'[c.to] # c
    BY <1>1, <2>2
  <2>5. QED BY <1>2, <1>3, <1>4, <2>1, <2>2, <2>3, <2>4 DEF Waits
<1>5. CASE at[n] = "send"
  <2>1. PICK c \in Conn : c = cur[n] /\ n \in Ends(c)
    BY <1>2, <1>5, AtWork
  <2>2. PICK o \in Node : o = Other(n, c) /\ o \in Ends(c) /\ Other(o, c) = n
    BY <2>1, TwoEnds
  <2>3. n \in live[c] /\ ~HasRoom(n, c) /\ ~(at[o] = "welcome" /\ cur[o] = c)
    BY <1>5, <2>1, <2>2 DEF StuckSet, Waits
  <2>4. ~Fresh(c) /\ Shake(c)
    BY <1>5, <2>1 DEF Fresh, Past, Ends, Shakes
  <2>5. ~(cur[o] = c /\ at[o] \in {"hello", "dial"})
    <3>1. SUFFICES ASSUME cur[o] = c, at[o] \in {"hello", "dial"} PROVE FALSE
      OBVIOUS
    <3>2. Hearing(c) \/ Dialing(c)
      BY <2>2, <3>1, AtWork DEF Hearing, Dialing
    <3>3. QED BY <2>4, <3>2 DEF Shake
  <2>6. ~HasRoom(n, c)'
    <3>1. inbox'[c][o] = inbox[c][o] \/ \E msg \in Msg : inbox'[c][o] = Append(inbox[c][o], msg)
      BY <2>2, <2>3, <2>5, Streams DEF Reader
    <3>2. inbox[c][o] \in Seq(Msg) /\ ~(Len(inbox[c][o]) < Credit)
      BY <2>2, <2>3 DEF HasRoom, TypeInv, TypeOK, Msg
    <3>3. ~(Len(inbox'[c][o]) < Credit)
      BY <3>1, <3>2, Sizes
    <3>4. QED BY <2>2, <3>3 DEF HasRoom
  <2>7. ~(at'[o] = "welcome" /\ cur'[o] = c)
    BY <2>2, <2>3, <2>5, WelcomesFrom
  <2>8. QED BY <1>2, <1>3, <1>5, <2>1, <2>2, <2>3, <2>6, <2>7 DEF Waits
<1>6. CASE at[n] \in {"announce", "bye"}
  BY <1>2, <1>6 DEF StuckSet, Waits
<1>7. QED BY <1>4, <1>5, <1>6 DEF StuckSet, Waits

(* A set of machines that wait for one another's Welcome, for streams that *)
(* the other end does not read or for room in their own event queues waits *)
(* for ever, unless one of them ends or the other end closes.              *)
THEOREM StuckStays == Spec => StuckForGood
<1>1. NetInv /\ [Next]_vars => \A S \in SUBSET Node : StuckSet(S) => StuckSet(S)' \/ Released(S)
  BY StaysWaiting DEF NetInv, StuckSet
<1>2. QED BY <1>1, NetInvariant, PTL DEF Spec, StuckForGood

-----------------------------------------------------------------------------
(* NO SPLIT *)

(* Machine n goes on to insert c: nothing more is asked of the other end. *)
Takes(n, c) ==
  cur[n] = c /\ (at[n] = "announce" \/ (at[n] = "welcome" /\ inbox[c][n] # <<>>))
Both(c) == live[c] = Ends(c)
Joining(c) == Queued(c) \/ Hearing(c)

(* While nothing has gone wrong: the dialer waits for whoever has to       *)
(* answer it, and both ends of the connection are open. *)
Begun(c) ==
  /\ Joining(c) => /\ Both(c) /\ (Dialing(c) \/ Welcomes(c))
                   /\ Welcomes(c) => inbox[c][c.to] # <<>>
  /\ Dialing(c) /\ stage[c] = "taken" => Joining(c)
  /\ Welcomes(c) => Both(c) /\ (Joining(c) \/ inbox[c][c.from] # <<>>)

(* An end that goes on to insert c does so as the other end did, or does.  *)
Taken(c) ==
  \A n \in Ends(c) : Takes(n, c) =>
    /\ Both(c)
    /\ peers[Other(n, c)][n] = c \/ Takes(Other(n, c), c)
    /\ peers[n][Other(n, c)] # c

(* Two machines hold the same open connection, or one of them is about to  *)
(* replace its own with the other's; never do both at once.                *)
Agree(n, m) ==
  \/ peers[n][m] = peers[m][n] /\ (peers[n][m] # None => Both(peers[n][m]))
  \/ peers[n][m] # None /\ Both(peers[n][m]) /\ Takes(m, peers[n][m])
  \/ peers[m][n] # None /\ Both(peers[m][n]) /\ Takes(n, peers[m][n])
Crossed(n, m) ==
  /\ peers[n][m] # None /\ Takes(m, peers[n][m])
  /\ peers[m][n] # None /\ Takes(n, peers[m][n])

Up == \A n \in Node : at[n] \notin {"down", "bye"}
AllBegun == \A c \in Conn : Begun(c)
Paired ==
  /\ \A c \in Conn : Taken(c)
  /\ \A n, m \in Node : n # m => Agree(n, m) /\ ~Crossed(n, m)
Calm == Up /\ AllBegun /\ Paired
CalmInv == calm => Calm

LEMMA CalmInit == Init => CalmInv
<1> SUFFICES ASSUME Init PROVE CalmInv
  OBVIOUS
<1>1. Up
  BY DEF Init, Up
<1>2. ASSUME NEW c \in Conn PROVE Begun(c) /\ Taken(c)
  <2>1. c.from \in Node /\ c.to \in Node /\ c # None /\ \A n \in Ends(c) : n \in Node
    BY TwoEnds
  <2>2. \A n \in Node : cur[n] # c
    BY <2>1 DEF Init
  <2>3. ~Queued(c)
    BY <2>1 DEF Init, Queued
  <2>4. QED BY <2>1, <2>2, <2>3 DEF Begun, Taken, Takes, Joining, Hearing, Dialing, Welcomes
<1>3. \A n, m \in Node : peers[n][m] = None
  BY DEF Init
<1>4. QED BY <1>1, <1>2, <1>3 DEF CalmInv, Calm, AllBegun, Paired, Agree, Crossed

(* A step that opens or leaves open what is open, and in which no machine  *)
(* comes or ceases to take a connection.                                   *)
Opens == \A c \in Conn : Both(c) => Both(c)'
LEMMA PairedKept ==
  ASSUME TypeInv, Paired, Opens, UNCHANGED peers,
         \A c \in Conn : \A n \in Ends(c) : Takes(n, c)' <=> Takes(n, c)
  PROVE  Paired'
<1>1. ASSUME NEW c \in Conn PROVE Taken(c)'
  <2>1. Taken(c) /\ (Both(c) => Both(c)')
    BY DEF Paired, Opens
  <2>2. \A n \in Ends(c) : Other(n, c) \in Ends(c)
    BY TwoEnds
  <2>3. QED BY <2>1, <2>2 DEF Taken
<1>2. ASSUME NEW n \in Node, NEW m \in Node, n # m PROVE Agree(n, m)' /\ ~Crossed(n, m)'
  <2>1. Agree(n, m) /\ ~Crossed(n, m)
    BY <1>2 DEF Paired
  <2>2. peers[n][m] # None =>
          (Both(peers[n][m]) => Both(peers[n][m])')
          /\ (Takes(m, peers[n][m])' <=> Takes(m, peers[n][m]))
    BY Held DEF Opens
  <2>3. peers[m][n] # None =>
          (Both(peers[m][n]) => Both(peers[m][n])')
          /\ (Takes(n, peers[m][n])' <=> Takes(n, peers[m][n]))
    BY Held DEF Opens
  <2>4. peers'[n][m] = peers[n][m] /\ peers'[m][n] = peers[m][n]
    OBVIOUS
  <2>5. Agree(n, m)'
    BY <2>1, <2>2, <2>3, <2>4 DEF Agree
  <2>6. ~Crossed(n, m)'
    BY <2>1, <2>2, <2>3, <2>4 DEF Crossed
  <2>7. QED BY <2>5, <2>6
<1>3. QED BY <1>1, <1>2 DEF Paired

Idle == {"select", "dial", "hello", "send", "bye", "down"}
LEMMA TakesKept ==
  ASSUME NEW n \in Node, Only(n), at[n] \in Idle, at'[n] \in Idle,
         NEW c \in Conn, NEW k \in Ends(c),
         at[k] = "welcome" /\ cur[k] = c => (inbox'[c][k] # <<>> <=> inbox[c][k] # <<>>)
  PROVE  Takes(k, c)' <=> Takes(k, c)
<1>1. k \in Node
  BY TwoEnds
<1>2. CASE k = n
  BY <1>2 DEF Takes, Idle
<1>3. CASE k # n
  BY <1>1, <1>3 DEF Takes, Only
<1>4. QED BY <1>2, <1>3

(* A step that begins or ends nothing on c. *)
Pending(n, c) == cur[n] = c /\ at[n] \in {"dial", "welcome"}
LEMMA BegunKept ==
  ASSUME NEW c \in Conn, Begun(c), Both(c) => Both(c)', Joining(c)' <=> Joining(c),
         \/ cur'[c.from] = cur[c.from] /\ at'[c.from] = at[c.from]
         \/ ~Pending(c.from, c) /\ ~Pending(c.from, c)',
         stage'[c] = stage[c],
         Welcomes(c) => (inbox[c][c.from] # <<>> => inbox'[c][c.from] # <<>>)
                        /\ (Joining(c) /\ inbox[c][c.to] # <<>> => inbox'[c][c.to] # <<>>)
  PROVE  Begun(c)'
<1>1. (Dialing(c)' <=> Dialing(c)) /\ (Welcomes(c)' <=> Welcomes(c))
  BY DEF Pending, Dialing, Welcomes
<1>2. c.from \in Ends(c) /\ c.to \in Ends(c) /\ c.from # c.to
  BY TwoEnds DEF Ends
<1>3. QED BY <1>1, <1>2 DEF Begun

LEMMA BegunOver ==
  ASSUME NEW c, ~Joining(c)', ~Dialing(c)', ~Welcomes(c)'
  PROVE  Begun(c)'
BY DEF Begun

(* What is settled of a connection by what the dialing task is about. *)
LEMMA Settles ==
  ASSUME Shakes, NEW c \in Conn
  PROVE  /\ ~Fresh(c) => ~Joining(c)
         /\ Joining(c) => stage[c] = "taken"
         /\ Joining(c) => inbox[c][c.from] = <<>>
         /\ Joining(c) => peers[c.from][c.to] # c /\ peers[c.to][c.from] # c
<1>1. Shake(c)
  BY DEF Shakes
<1>2. Joining(c) => Fresh(c)
  BY <1>1 DEF Shake, Joining
<1>3. Joining(c) => stage[c] = "taken"
  BY <1>1 DEF Shake, Joining, Untouched, Hearing
<1>4. QED BY <1>2, <1>3, TwoEnds DEF Fresh, Past

LEMMA PairSize == \A x, y : x # y => Cardinality({x, y}) = 2
<1> SUFFICES ASSUME NEW x, NEW y, x # y PROVE Cardinality({x, y}) = 2
  OBVIOUS
<1>1. IsFiniteSet({x}) /\ Cardinality({x}) = 1
  BY FS_Singleton
<1>2. {x} \cup {y} = {x, y} /\ y \notin {x}
  OBVIOUS
<1>3. Cardinality({x} \cup {y}) = Cardinality({x}) + 1
  BY <1>1, <1>2, FS_AddElement
<1>4. QED BY <1>1, <1>2, <1>3

LEMMA CalmDial ==
  ASSUME TypeInv, Shakes, Calm, NEW n \in Node, NEW m \in Node, Dial(n, m)
  PROVE  Calm'
<1>1. PICK d \in Conn : /\ d.from = n /\ stage' = [stage EXCEPT ![d] = "offered"]
                        /\ Goto(n, "dial", d) /\ stage[d] = "unused" /\ at[n] = "select"
  BY DEF Dial
<1>2. UNCHANGED <<peers, incoming, live, inbox>>
  BY DEF Dial
<1>3. Only(n) /\ at'[n] = "dial" /\ cur'[n] = d
  BY <1>1, GoesOff DEF Locations
<1>4. stage'[d] = "offered" /\ \A c \in Conn : c # d => stage'[c] = stage[c]
  BY <1>1 DEF TypeInv, TypeOK
<1>5. Up'
  BY <1>3 DEF Calm, Up, Only
<1>6. Paired'
  <2>1. \A c \in Conn : \A k \in Ends(c) : Takes(k, c)' <=> Takes(k, c)
    BY <1>1, <1>2, <1>3, TakesKept DEF Idle
  <2>2. QED BY <1>2, <2>1, PairedKept DEF Calm, Opens, Both
<1>7. ASSUME NEW c \in Conn PROVE Begun(c)'
  <2>1. Joining(c)' <=> Joining(c)
    <3>1. c.to \in Node /\ (Queued(c)' <=> Queued(c))
      BY <1>2, TwoEnds DEF Queued
    <3>2. QED BY <1>1, <1>3, <3>1 DEF Joining, Hearing, Only
  <2>2. CASE c # d
    <3>1. \/ cur'[c.from] = cur[c.from] /\ at'[c.from] = at[c.from]
          \/ ~Pending(c.from, c) /\ ~Pending(c.from, c)'
      BY <1>1, <1>3, <2>2, TwoEnds DEF Only, Pending
    <3>2. QED BY <1>2, <1>4, <2>1, <2>2, <3>1, BegunKept DEF Calm, AllBegun, Both
  <2>3. CASE c = d
    <3>1. ~Joining(d) /\ ~(stage'[d] = "taken") /\ ~Welcomes(d)'
      BY <1>1, <1>3, <1>4, Settles DEF Welcomes
    <3>2. QED BY <2>1, <2>3, <3>1 DEF Begun
  <2>4. QED BY <2>2, <2>3
<1>8. QED BY <1>5, <1>6, <1>7 DEF Calm, AllBegun

(* The connection that is accepted is queued, and open at both ends. *)
LEMMA CalmAccept ==
  ASSUME TypeInv, Shakes, Calm, NEW n \in Node, Accept(n) \/ AcceptFails(n)
  PROVE  Calm'
<1>0. UNCHANGED <<at, cur, peers, inbox>>
  BY DEF Accept, AcceptFails, taskVars
<1>1. Up'
  BY <1>0 DEF Calm, Up
<1>2. \A c \in Conn : \A k \in Ends(c) : Takes(k, c)' <=> Takes(k, c)
  BY <1>0 DEF Takes
<1>3. CASE AcceptFails(n)
  <2>1. PICK d \in Conn : /\ stage' = [stage EXCEPT ![d] = "taken"]
                          /\ stage[d] = "offered" /\ ~Dialing(d)
    BY <1>3 DEF AcceptFails
  <2>2. UNCHANGED <<incoming, live>> /\ \A c \in Conn : c # d => stage'[c] = stage[c]
    BY <1>3, <2>1 DEF AcceptFails, TypeInv, TypeOK
  <2>3. Paired'
    BY <1>0, <1>2, <2>2, PairedKept DEF Calm, Opens, Both
  <2>4. ASSUME NEW c \in Conn PROVE Begun(c)'
    <3>1. Begun(c) /\ (c # d => stage'[c] = stage[c]) /\ (c = d => ~Dialing(c))
      BY <2>1, <2>2 DEF Calm, AllBegun
    <3>2. QED BY <1>0, <2>2, <3>1
              DEF Begun, Both, Dialing, Welcomes, Joining, Queued, Hearing
  <2>5. QED BY <1>1, <2>3, <2>4 DEF Calm, AllBegun
<1>4. CASE Accept(n)
  <2>1. PICK d \in Conn : /\ d.to = n /\ stage[d] = "offered" /\ Dialing(d)
                          /\ stage' = [stage EXCEPT ![d] = "taken"]
                          /\ live' = [live EXCEPT ![d] = {d.from, d.to}]
                          /\ incoming' = [incoming EXCEPT ![n] = Append(@, d)]
    BY <1>4 DEF Accept
  <2>2. /\ live'[d] = Ends(d)
        /\ \A c \in Conn : c # d => stage'[c] = stage[c] /\ live'[c] = live[c]
    BY <2>1 DEF TypeInv, TypeOK, Ends
  <2>3. Paired'
    BY <1>0, <1>2, <2>2, PairedKept DEF Calm, Opens, Both
  <2>4. incoming[n] \in Seq(Conn) /\ incoming'[n] = Append(incoming[n], d)
        /\ \A k \in Node : k # n => incoming'[k] = incoming[k]
    BY <2>1 DEF TypeInv, TypeOK
  <2>5. /\ \A i \in 1 .. Len(incoming[n]) :
             i \in 1 .. Len(incoming'[n]) /\ incoming'[n][i] = incoming[n][i]
        /\ \A i \in 1 .. Len(incoming'[n]) :
             \/ i \in 1 .. Len(incoming[n]) /\ incoming'[n][i] = incoming[n][i]
             \/ incoming'[n][i] = d
        /\ \E i \in 1 .. Len(incoming'[n]) : incoming'[n][i] = d
    <3>1. Len(incoming[n]) \in Nat /\ Len(incoming'[n]) = Len(incoming[n]) + 1
          /\ incoming'[n][Len(incoming[n]) + 1] = d
      BY <2>4
    <3>2. QED BY <2>4, <3>1
  <2>6. ASSUME NEW c \in Conn, c # d PROVE Begun(c)'
    <3>1. c.to \in Node
      BY TwoEnds
    <3>2. Queued(c)' <=> Queued(c)
      BY <2>4, <2>5, <2>6, <3>1 DEF Queued
    <3>3. Joining(c)' <=> Joining(c)
      BY <1>0, <3>2 DEF Joining, Hearing
    <3>4. QED BY <1>0, <2>2, <2>6, <3>3, BegunKept DEF Calm, AllBegun, Both
  <2>7. Begun(d)'
    <3>1. Queued(d)'
      BY <2>1, <2>5 DEF Queued
    <3>2. Dialing(d)' /\ ~Welcomes(d)' /\ Both(d)'
      BY <1>0, <2>1, <2>2 DEF Dialing, Welcomes, Both
    <3>3. QED BY <3>1, <3>2 DEF Begun, Joining
  <2>8. QED BY <1>1, <2>3, <2>6, <2>7 DEF Calm, AllBegun
<1>5. QED BY <1>3, <1>4

LEMMA CalmTake ==
  ASSUME TypeInv, Shakes, Calm, NEW n \in Node, TakeIncoming(n)
  PROVE  Calm'
<1>0. PICK d \in Conn : d = Head(incoming[n])
  BY DEF TakeIncoming, TypeInv, TypeOK
<1>1. /\ incoming[n] # <<>> /\ incoming' = [incoming EXCEPT ![n] = Tail(@)]
      /\ Goto(n, "hello", d) /\ at[n] = "select"
      /\ UNCHANGED <<peers, stage, live, inbox>>
  BY <1>0 DEF TakeIncoming, connVars
<1>2. incoming[n] \in Seq(Conn) /\ incoming'[n] = Tail(incoming[n])
      /\ \A k \in Node : k # n => incoming'[k] = incoming[k]
  BY <1>1 DEF TypeInv, TypeOK
<1>3. d = incoming[n][1] /\ 1 \in 1 .. Len(incoming[n])
  BY <1>0, <1>1, <1>2
<1>4. d.to = n /\ d.from \in Node
  BY <1>3, TwoEnds DEF TypeInv, Places, Queues
<1>5. Only(n) /\ at'[n] = "hello" /\ cur'[n] = d
  BY <1>1, GoesOff DEF Locations
<1>6. Up'
  BY <1>5 DEF Calm, Up, Only
<1>7. Paired'
  <2>1. \A c \in Conn : \A k \in Ends(c) : Takes(k, c)' <=> Takes(k, c)
    BY <1>1, <1>5, TakesKept DEF Idle
  <2>2. QED BY <1>1, <2>1, PairedKept DEF Calm, Opens, Both
<1>8. ASSUME NEW c \in Conn PROVE Joining(c)' <=> Joining(c)
  <2>0. c.to \in Node
    BY TwoEnds
  <2>1. CASE c = d
    <3>1. Queued(d) /\ Hearing(d)'
      BY <1>3, <1>4, <1>5 DEF Queued, Hearing
    <3>2. QED BY <2>1, <3>1 DEF Joining
  <2>2. CASE c # d /\ c.to = n
    <3>1. ~Hearing(c) /\ ~Hearing(c)'
      BY <1>1, <1>5, <2>2 DEF Hearing
    <3>2. ASSUME NEW i \in 1 .. Len(incoming[n]), incoming[n][i] = c PROVE Queued(c)'
      <4>1. i # 1 /\ i \in Nat /\ Len(Tail(incoming[n])) = Len(incoming[n]) - 1
            /\ Len(incoming[n]) \in Nat
        BY <1>1, <1>2, <1>3, <2>2, <3>2
      <4>2. i - 1 \in 1 .. Len(Tail(incoming[n])) /\ (i - 1) + 1 = i
        BY <4>1
      <4>3. Tail(incoming[n])[i - 1] = incoming[n][i]
        BY <1>1, <1>2, <4>2
      <4>4. QED BY <1>2, <2>2, <3>2, <4>2, <4>3 DEF Queued
    <3>3. ASSUME NEW i \in 1 .. Len(incoming'[n]), incoming'[n][i] = c PROVE Queued(c)
      <4>1. incoming[n][i + 1] = c /\ i + 1 \in 1 .. Len(incoming[n])
        <5>1. Len(incoming[n]) \in Nat /\ Len(Tail(incoming[n])) = Len(incoming[n]) - 1
          BY <1>1, <1>2
        <5>2. i \in 1 .. Len(Tail(incoming[n])) /\ i + 1 \in 1 .. Len(incoming[n])
          BY <1>2, <5>1
        <5>3. Tail(incoming[n])[i] = incoming[n][i + 1]
          BY <1>1, <1>2, <5>2
        <5>4. QED BY <1>2, <3>3, <5>2, <5>3
      <4>2. QED BY <2>2, <4>1 DEF Queued
    <3>4. QED BY <2>2, <3>1, <3>2, <3>3 DEF Joining, Queued
  <2>3. CASE c.to # n
    BY <1>2, <1>5, <2>0, <2>3 DEF Joining, Queued, Hearing, Only
  <2>4. QED BY <2>1, <2>2, <2>3
<1>9. ASSUME NEW c \in Conn PROVE Begun(c)'
  <2>1. \/ cur'[c.from] = cur[c.from] /\ at'[c.from] = at[c.from]
        \/ ~Pending(c.from, c) /\ ~Pending(c.from, c)'
    BY <1>1, <1>5, TwoEnds DEF Only, Pending
  <2>2. QED BY <1>1, <1>8, <2>1, BegunKept DEF Calm, AllBegun, Both
<1>10. QED BY <1>6, <1>7, <1>9 DEF Calm, AllBegun

LEMMA CalmSends ==
  ASSUME TypeInv, Shakes, Calm, NEW n \in Node, Send(n) \/ SendTo(n)
  PROVE  Calm'
<1>1. PICK ms \in SUBSET Node : SendOn(n, ms) /\ \A m \in ms : peers[n][m] # None
  <2>1. CASE Send(n)
    BY <2>1 DEF Send
  <2>2. CASE SendTo(n)
    <3>1. todo[n] \in SUBSET Node /\ \A m \in todo[n] : peers[n][m] # None
      BY DEF TypeInv, TypeOK, Places, Todos
    <3>2. QED BY <2>2, <3>1 DEF SendTo
  <2>3. QED BY <2>1, <2>2
<1>2. UNCHANGED <<peers, incoming, stage, live>> /\ at[n] \in {"select", "send"}
  BY DEF Send, SendTo, connVars
<1>3. Only(n) /\ at'[n] \in {"select", "send"}
  BY <1>1, SendsOn DEF Only
<1>4. ASSUME NEW c \in Conn, NEW k \in Ends(c)
      PROVE  \/ inbox'[c][k] = inbox[c][k]
             \/ inbox'[c][k] # <<>> /\ cur[Other(k, c)] = c /\ at[Other(k, c)] = "send"
  <2>1. UNCHANGED inbox \/ (at[n] = "send" /\ Stream(n, cur[n], "other"))
    BY DEF Send, SendTo, connVars
  <2>2. CASE at[n] = "send" /\ Stream(n, cur[n], "other")
    <3>1. PICK d \in Conn : d = cur[n] /\ n \in Ends(d)
      BY <2>2, AtWork
    <3>2. /\ inbox'[d][Other(n, d)] = Append(inbox[d][Other(n, d)], "other")
          /\ inbox[d][Other(n, d)] \in Seq(Msg)
          /\ \A b \in Conn, o \in Node : b # d \/ o # Other(n, d) => inbox'[b][o] = inbox[b][o]
      <4>1. Other(n, d) \in Node /\ "other" \in Msg
        BY TwoEnds DEF Msg
      <4>2. TypeOK /\ Stream(n, d, "other")
        BY <2>2, <3>1 DEF TypeInv
      <4>3. inbox[d][Other(n, d)] \in Seq(Msg)
        BY <4>1, <4>2 DEF TypeOK, Msg
      <4>4. QED BY <4>1, <4>2, <4>3, Sends
    <3>3. CASE c = d /\ k = Other(n, d)
      <4>1. Other(k, c) = n
        BY <3>1, <3>3, TwoEnds
      <4>2. inbox'[c][k] # <<>>
        BY <3>2, <3>3
      <4>3. QED BY <2>2, <3>1, <3>3, <4>1, <4>2
    <3>4. QED BY <3>2, <3>3, TwoEnds
  <2>3. QED BY <2>1, <2>2
<1>5. \A c \in Conn : Joining(c)' <=> Joining(c)
  BY <1>2, <1>3, TwoEnds DEF Joining, Queued, Hearing, Only
<1>6. Up'
  BY <1>3 DEF Calm, Up, Only
<1>7. Paired'
  <2>1. ASSUME NEW c \in Conn, NEW k \in Ends(c), at[k] = "welcome", cur[k] = c
        PROVE  inbox'[c][k] # <<>> <=> inbox[c][k] # <<>>
    <3>1. SUFFICES ASSUME inbox[c][k] = <<>>, inbox'[c][k] # <<>> PROVE FALSE
      BY <1>4
    <3>2. Past(Other(k, c), c) /\ k = c.from /\ Other(k, c) = c.to
      BY <1>4, <2>1, <3>1, AtWork, TwoEnds DEF Past
    <3>3. Welcomes(c) /\ Shake(c)
      BY <2>1, <3>2 DEF Welcomes, Shakes
    <3>4. QED BY <3>1, <3>2, <3>3 DEF Shake
  <2>2. \A c \in Conn : \A k \in Ends(c) : Takes(k, c)' <=> Takes(k, c)
    BY <1>2, <1>3, <2>1, TakesKept DEF Idle
  <2>3. QED BY <1>2, <2>2, PairedKept DEF Calm, Opens, Both
<1>8. ASSUME NEW c \in Conn PROVE Begun(c)'
  <2>1. \/ cur'[c.from] = cur[c.from] /\ at'[c.from] = at[c.from]
        \/ ~Pending(c.from, c) /\ ~Pending(c.from, c)'
    BY <1>2, <1>3, TwoEnds DEF Only, Pending
  <2>2. \A k \in Ends(c) : inbox[c][k] # <<>> => inbox'[c][k] # <<>>
    BY <1>4
  <2>3. QED BY <1>2, <1>5, <2>1, <2>2, BegunKept DEF Calm, AllBegun, Both, Ends
<1>9. QED BY <1>6, <1>7, <1>8 DEF Calm, AllBegun

(* A dial that nobody accepted ends; an event is handled; the end of a     *)
(* connection that the other has closed closes too.                        *)
LEMMA CalmRest ==
  ASSUME TypeInv, Shakes, Calm, NEW n \in Node,
         DialFails(n) \/ PmForward(n) \/ \E d \in Conn : Learn(d)
  PROVE  Calm'
<1>1. /\ UNCHANGED <<peers, incoming, stage, inbox>>
      /\ \/ UNCHANGED <<at, cur>>
         \/ at[n] = "dial" /\ stage[cur[n]] = "offered" /\ Goto(n, "select", None)
  BY DEF DialFails, PmForward, Learn, Back, taskVars, connVars
<1>2. Opens
  <2>1. UNCHANGED live \/ \E d \in Conn : live' = [live EXCEPT ![d] = {}] /\ Cardinality(live[d]) = 1
    BY DEF DialFails, PmForward, Learn, connVars
  <2>2. ASSUME NEW d \in Conn, live' = [live EXCEPT ![d] = {}], Cardinality(live[d]) = 1
        PROVE  Opens
    <3>1. ~Both(d)
      <4>1. d.from # d.to /\ Cardinality({d.from, d.to}) = 2
        <5>1. d.from # d.to
          BY TwoEnds
        <5>2. QED BY <5>1, PairSize
      <4>2. QED BY <2>2, <4>1 DEF Both, Ends
    <3>2. \A c \in Conn : c # d => live'[c] = live[c]
      BY <2>2 DEF TypeInv, TypeOK
    <3>3. QED BY <3>1, <3>2 DEF Opens, Both
  <2>3. QED BY <2>1, <2>2 DEF Opens, Both
<1>3. /\ Only(n) /\ (UNCHANGED <<at, cur>> \/ (at[n] = "dial" /\ at'[n] = "select" /\ cur'[n] = None))
  BY <1>1, GoesOff DEF Only, Locations
<1>4. Up'
  BY <1>3 DEF Calm, Up, Only
<1>5. Paired'
  <2>1. \A c \in Conn : \A k \in Ends(c) : Takes(k, c)' <=> Takes(k, c)
    <3>1. CASE UNCHANGED <<at, cur>>
      BY <1>1, <3>1 DEF Takes
    <3>2. CASE at[n] = "dial" /\ at'[n] = "select"
      BY <1>1, <1>3, <3>2, TakesKept DEF Idle
    <3>3. QED BY <1>3, <3>1, <3>2
  <2>2. QED BY <1>1, <1>2, <2>1, PairedKept DEF Calm
<1>6. ASSUME NEW c \in Conn PROVE Begun(c)'
  <2>0. c.from \in Node /\ c.to \in Node /\ c # None
    BY TwoEnds
  <2>1. Joining(c)' <=> Joining(c)
    BY <1>1, <1>3, <2>0 DEF Joining, Queued, Hearing, Only
  <2>2. CASE ~(cur[n] = c /\ at[n] = "dial" /\ c.from = n) \/ UNCHANGED <<at, cur>>
    <3>1. \/ cur'[c.from] = cur[c.from] /\ at'[c.from] = at[c.from]
          \/ ~Pending(c.from, c) /\ ~Pending(c.from, c)'
      BY <1>3, <2>0, <2>2 DEF Only, Pending
    <3>2. QED BY <1>1, <1>2, <2>1, <3>1, BegunKept DEF Calm, AllBegun, Opens
  <2>3. CASE cur[n] = c /\ at[n] = "dial" /\ c.from = n /\ ~UNCHANGED <<at, cur>>
    <3>1. stage[c] = "offered" /\ cur'[n] = None
      BY <1>1, <1>3, <2>3
    <3>2. ~Joining(c)
      BY <3>1, Settles
    <3>3. QED BY <2>0, <2>1, <2>3, <3>1, <3>2, BegunOver DEF Dialing, Welcomes
  <2>4. QED BY <2>2, <2>3
<1>7. QED BY <1>4, <1>5, <1>6 DEF Calm, AllBegun

LEMMA CalmHello ==
  ASSUME TypeInv, Shakes, Calm, NEW n \in Node, SendHello(n)
  PROVE  Calm'
<1>0. PICK d \in Conn : d = cur[n]
  BY AtWork DEF SendHello
<1>1. /\ at[n] = "dial" /\ n \in live[d] /\ Stream(n, d, "hello") /\ Goto(n, "welcome", d)
      /\ UNCHANGED <<peers, incoming, stage, live>>
  BY <1>0 DEF SendHello
<1>2. d.from = n /\ d.to \in Node /\ d.to # n /\ Other(n, d) = d.to
  BY <1>0, <1>1, AtWork, TwoEnds
<1>3. Only(n) /\ at'[n] = "welcome" /\ cur'[n] = d
  BY <1>1, GoesOff DEF Locations
<1>4. /\ inbox'[d][d.to] = Append(inbox[d][d.to], "hello")
      /\ \A c \in Conn, k \in Node : c # d \/ k # d.to => inbox'[c][k] = inbox[c][k]
  BY <1>1, <1>2, Sends DEF TypeInv, Msg
<1>5. Dialing(d) /\ Shake(d) /\ Begun(d)
  BY <1>0, <1>1, <1>2 DEF Dialing, Shakes, Calm, AllBegun
<1>6. /\ stage[d] = "taken" /\ inbox[d][d.to] = <<>> /\ inbox[d][n] = <<>>
      /\ Joining(d) /\ Both(d)
  BY <1>1, <1>2, <1>5 DEF Shake, Untouched, Fresh, Begun
<1>7. \A c \in Conn : Joining(c)' <=> Joining(c)
  BY <1>1, <1>3, TwoEnds DEF Joining, Queued, Hearing, Only
<1>8. Up'
  BY <1>3 DEF Calm, Up, Only
<1>9. Paired'
  <2>1. ASSUME NEW c \in Conn, NEW k \in Ends(c) PROVE Takes(k, c)' <=> Takes(k, c)
    <3>1. CASE k = n
      BY <1>0, <1>1, <1>2, <1>3, <1>4, <1>6, <3>1 DEF Takes
    <3>2. CASE k # n
      <4>1. k \in Node /\ at'[k] = at[k] /\ cur'[k] = cur[k]
        BY <1>3, <3>2, TwoEnds DEF Only
      <4>2. at[k] = "welcome" /\ cur[k] = c => k = c.from
        BY <4>1, AtWork
      <4>3. at[k] = "welcome" /\ cur[k] = c => inbox'[c][k] = inbox[c][k]
        BY <1>2, <1>4, <3>2, <4>1, <4>2
      <4>4. QED BY <4>1, <4>3 DEF Takes
    <3>3. QED BY <3>1, <3>2
  <2>2. QED BY <1>1, <2>1, PairedKept DEF Calm, Opens, Both
<1>10. ASSUME NEW c \in Conn, c # d PROVE Begun(c)'
  <2>1. \/ cur'[c.from] = cur[c.from] /\ at'[c.from] = at[c.from]
        \/ ~Pending(c.from, c) /\ ~Pending(c.from, c)'
    BY <1>0, <1>3, <1>10, TwoEnds DEF Only, Pending
  <2>2. inbox'[c][c.from] = inbox[c][c.from] /\ inbox'[c][c.to] = inbox[c][c.to]
    BY <1>4, <1>10, TwoEnds
  <2>3. QED BY <1>1, <1>7, <2>1, <2>2, BegunKept DEF Calm, AllBegun, Both
<1>11. Begun(d)'
  <2>1. inbox'[d][d.to] = <<"hello">>
    BY <1>4, <1>6
  <2>2. inbox'[d][d.to] # <<>>
    BY <2>1
  <2>3. Joining(d)' /\ Both(d)' /\ ~Dialing(d)' /\ Welcomes(d)'
    BY <1>1, <1>2, <1>3, <1>6, <1>7 DEF Both, Dialing, Welcomes
  <2>4. QED BY <2>2, <2>3 DEF Begun
<1>12. QED BY <1>8, <1>9, <1>10, <1>11 DEF Calm, AllBegun

LEMMA CalmWelcome ==
  ASSUME TypeInv, Shakes, Calm, NEW n \in Node, RecvWelcome(n)
  PROVE  Calm'
<1>0. PICK d \in Conn : d = cur[n]
  BY AtWork DEF RecvWelcome
<1>1. /\ at[n] = "welcome" /\ inbox[d][n] # <<>>
      /\ inbox' = [inbox EXCEPT ![d][n] = Tail(@)]
      /\ UNCHANGED <<peers, incoming, stage>>
  BY <1>0 DEF RecvWelcome
<1>2. d.from = n /\ d.to \in Node /\ d.to # n
  BY <1>0, <1>1, AtWork, TwoEnds
<1>3. Welcomes(d) /\ Shake(d)
  BY <1>0, <1>1, <1>2 DEF Welcomes, Shakes
<1>4. Goto(n, "announce", d) /\ UNCHANGED live
  BY <1>0, <1>1, <1>2, <1>3 DEF RecvWelcome, Shake
<1>5. Only(n) /\ at'[n] = "announce" /\ cur'[n] = d
  BY <1>4, GoesOff DEF Locations
<1>6. \A c \in Conn, k \in Node : c # d \/ k # n => inbox'[c][k] = inbox[c][k]
  BY <1>1, Reads DEF TypeInv
<1>7. \A c \in Conn : Joining(c)' <=> Joining(c)
  BY <1>1, <1>5, TwoEnds DEF Joining, Queued, Hearing, Only
<1>8. Up'
  BY <1>5 DEF Calm, Up, Only
<1>9. Paired'
  <2>1. ASSUME NEW c \in Conn, NEW k \in Ends(c) PROVE Takes(k, c)' <=> Takes(k, c)
    <3>1. CASE k = n
      BY <1>0, <1>1, <1>5, <3>1 DEF Takes
    <3>2. CASE k # n
      <4>1. k \in Node /\ at'[k] = at[k] /\ cur'[k] = cur[k]
        BY <1>5, <3>2, TwoEnds DEF Only
      <4>2. inbox'[c][k] = inbox[c][k]
        BY <1>6, <3>2, <4>1
      <4>3. QED BY <4>1, <4>2 DEF Takes
    <3>3. QED BY <3>1, <3>2
  <2>2. QED BY <1>1, <1>4, <2>1, PairedKept DEF Calm, Opens, Both
<1>10. ASSUME NEW c \in Conn, c # d PROVE Begun(c)'
  <2>1. \/ cur'[c.from] = cur[c.from] /\ at'[c.from] = at[c.from]
        \/ ~Pending(c.from, c) /\ ~Pending(c.from, c)'
    BY <1>0, <1>5, <1>10, TwoEnds DEF Only, Pending
  <2>2. inbox'[c][c.from] = inbox[c][c.from] /\ inbox'[c][c.to] = inbox[c][c.to]
    BY <1>6, <1>10, TwoEnds
  <2>3. QED BY <1>1, <1>4, <1>7, <2>1, <2>2, BegunKept DEF Calm, AllBegun, Both
<1>11. Begun(d)'
  <2>1. ~Joining(d)
    BY <1>1, <1>2, Settles
  <2>2. ~Dialing(d)' /\ ~Welcomes(d)'
    BY <1>2, <1>5 DEF Dialing, Welcomes
  <2>3. QED BY <1>7, <2>1, <2>2, BegunOver
<1>12. QED BY <1>8, <1>9, <1>10, <1>11 DEF Calm, AllBegun

(* The Welcome makes both ends take the connection, which neither held. *)
LEMMA CalmReply ==
  ASSUME TypeInv, Shakes, Calm, NEW n \in Node, RecvHello(n)
  PROVE  Calm'
<1>0. PICK d \in Conn : d = cur[n]
  BY AtWork DEF RecvHello
<1>1. /\ at[n] = "hello" /\ inbox[d][n] # <<>> /\ UNCHANGED <<peers, incoming, stage>>
  BY <1>0 DEF RecvHello
<1>2. PICK o \in Node : o = d.from /\ d.to = n /\ o # n /\ Other(n, d) = o /\ Other(o, d) = n
                        /\ Ends(d) = {o, n}
  BY <1>0, <1>1, AtWork, TwoEnds DEF Ends
<1>3. Hearing(d) /\ Joining(d) /\ Shake(d) /\ Begun(d)
  BY <1>0, <1>1, <1>2 DEF Hearing, Joining, Shakes, Calm, AllBegun
<1>4. /\ Fresh(d) /\ inbox[d][n] = <<"hello">> /\ inbox[d][o] = <<>> /\ ~Queued(d)
      /\ peers[n][o] # d /\ peers[o][n] # d /\ ~Dialing(d)
  BY <1>1, <1>2, <1>3, Settles DEF Shake, Fresh, Hearing
<1>5. /\ inbox' = [inbox EXCEPT ![d][n] = Tail(@),
                     ![d][d.from] = Append(inbox[d][d.from], "welcome")]
      /\ Goto(n, "announce", d) /\ HasRoom(n, d) /\ UNCHANGED live
  <2>1. Head(inbox[d][n]) = "hello"
    BY <1>4
  <2>2. QED BY <1>0, <2>1 DEF RecvHello
<1>6. Only(n) /\ at'[n] = "announce" /\ cur'[n] = d
  BY <1>5, GoesOff DEF Locations
<1>7. /\ inbox'[d][o] # <<>>
      /\ \A c \in Conn, k \in Node : c # d => inbox'[c][k] = inbox[c][k]
  <2>1. /\ inbox'[d][d.from] = Append(inbox[d][d.from], "welcome")
        /\ \A c \in Conn, k \in Node : c # d => inbox'[c][k] = inbox[c][k]
    BY <1>1, <1>2, <1>5, Welcomed DEF TypeInv
  <2>2. inbox'[d][o] = Append(inbox[d][o], "welcome") /\ inbox[d][o] = <<>>
    BY <1>2, <1>4, <2>1
  <2>3. inbox'[d][o] = <<"welcome">>
    BY <2>2
  <2>4. QED BY <2>1, <2>3
<1>8. Both(d) /\ Welcomes(d) /\ at[o] = "welcome" /\ cur[o] = d
  BY <1>2, <1>3, <1>4 DEF Begun, Welcomes
<1>9. at'[o] = "welcome" /\ cur'[o] = d
  BY <1>2, <1>6, <1>8 DEF Only
<1>10. Takes(n, d)' /\ Takes(o, d)'
  BY <1>6, <1>7, <1>9 DEF Takes
<1>11. ASSUME NEW c \in Conn, c # d, NEW k \in Ends(c) PROVE Takes(k, c)' <=> Takes(k, c)
  <2>1. k \in Node /\ inbox'[c][k] = inbox[c][k]
    BY <1>7, <1>11, TwoEnds
  <2>2. CASE k = n
    BY <1>0, <1>6, <1>11, <2>2 DEF Takes
  <2>3. CASE k # n
    BY <1>6, <2>1, <2>3 DEF Takes, Only
  <2>4. QED BY <2>2, <2>3
<1>12. Up'
  BY <1>6 DEF Calm, Up, Only
<1>13. ASSUME NEW c \in Conn PROVE Taken(c)'
  <2>1. CASE c = d
    <3>1. Both(d)'
      BY <1>5, <1>8 DEF Both
    <3>2. ASSUME NEW k \in Ends(d)
          PROVE  Takes(Other(k, d), d)' /\ peers'[k][Other(k, d)] # d
      BY <1>1, <1>2, <1>4, <1>10
    <3>3. Taken(d)'
      BY <3>1, <3>2 DEF Taken
    <3>4. QED BY <2>1, <3>3
  <2>2. CASE c # d
    <3>1. Taken(c) /\ (Both(c) => Both(c)')
      BY <1>5 DEF Calm, Paired, Both
    <3>2. \A k \in Ends(c) : Other(k, c) \in Ends(c)
      BY TwoEnds
    <3>3. QED BY <1>1, <1>11, <2>2, <3>1, <3>2 DEF Taken
  <2>3. QED BY <2>1, <2>2
<1>14. ASSUME NEW k \in Node, NEW m \in Node, k # m PROVE Agree(k, m)' /\ ~Crossed(k, m)'
  <2>1. Agree(k, m) /\ ~Crossed(k, m) /\ peers'[k][m] = peers[k][m] /\ peers'[m][k] = peers[m][k]
    BY <1>1, <1>14 DEF Calm, Paired
  <2>2. peers[k][m] # d /\ peers[m][k] # d
    <3>1. ASSUME NEW a \in Node, NEW b \in Node, peers[a][b] = d PROVE FALSE
      <4>1. peers[a][b] # None
        BY <3>1, TwoEnds
      <4>2. Ends(d) = {a, b}
        BY <3>1, <4>1, Held
      <4>3. (a = o /\ b = n) \/ (a = n /\ b = o)
        BY <1>2, <4>2
      <4>4. QED BY <1>4, <3>1, <4>3
    <3>2. QED BY <3>1
  <2>3. ASSUME NEW a \in Node, NEW b \in Node, peers[a][b] # None, peers[a][b] # d,
               peers'[a][b] = peers[a][b]
        PROVE  /\ Both(peers[a][b]) => Both(peers[a][b])'
               /\ Takes(b, peers[a][b])' <=> Takes(b, peers[a][b])
    <3>1. PICK c \in Conn : c = peers[a][b] /\ b \in Ends(c)
      BY <2>3, Held
    <3>2. Takes(b, c)' <=> Takes(b, c)
      BY <1>11, <2>3, <3>1
    <3>3. UNCHANGED live
      BY <1>5
    <3>4. Both(c) => Both(c)'
      BY <3>3 DEF Both
    <3>5. QED BY <2>3, <3>1, <3>2, <3>4
  <2>4. /\ peers[k][m] # None => /\ Both(peers[k][m]) => Both(peers[k][m])'
                                 /\ Takes(m, peers[k][m])' <=> Takes(m, peers[k][m])
        /\ peers[m][k] # None => /\ Both(peers[m][k]) => Both(peers[m][k])'
                                 /\ Takes(k, peers[m][k])' <=> Takes(k, peers[m][k])
    BY <2>1, <2>2, <2>3
  <2>5. Agree(k, m)'
    BY <2>1, <2>4 DEF Agree
  <2>6. ~Crossed(k, m)'
    BY <2>1, <2>4 DEF Crossed
  <2>7. QED BY <2>5, <2>6
<1>15. ASSUME NEW c \in Conn, c # d PROVE Begun(c)'
  <2>1. \/ cur'[c.from] = cur[c.from] /\ at'[c.from] = at[c.from]
        \/ ~Pending(c.from, c) /\ ~Pending(c.from, c)'
    BY <1>0, <1>6, <1>15, TwoEnds DEF Only, Pending
  <2>2. inbox'[c][c.from] = inbox[c][c.from] /\ inbox'[c][c.to] = inbox[c][c.to]
    BY <1>7, <1>15, TwoEnds
  <2>3. Joining(c)' <=> Joining(c)
    BY <1>0, <1>1, <1>6, <1>15, TwoEnds DEF Joining, Queued, Hearing, Only
  <2>4. QED BY <1>1, <1>5, <2>1, <2>2, <2>3, BegunKept DEF Calm, AllBegun, Both
<1>16. Begun(d)'
  <2>1. ~Joining(d)' /\ ~Dialing(d)' /\ Welcomes(d)'
    BY <1>1, <1>2, <1>4, <1>6, <1>9 DEF Joining, Queued, Hearing, Dialing, Welcomes
  <2>2. Both(d)'
    BY <1>5, <1>8 DEF Both
  <2>3. QED BY <1>2, <1>7, <2>1, <2>2 DEF Begun
<1>17. QED BY <1>12, <1>13, <1>14, <1>15, <1>16 DEF Calm, AllBegun, Paired

(* insert replaces the connection of the pair only when the other end has  *)
(* done so, or does; and the other end is not about to insert the old one. *)
LEMMA CalmAnnounce ==
  ASSUME TypeInv, Shakes, Calm, NEW n \in Node, Announce(n)
  PROVE  Calm'
<1>0. PICK d \in Conn : d = cur[n]
  BY AtWork DEF Announce
<1>1. PICK p \in Node : /\ p = Other(n, d) /\ n # p /\ n \in Ends(d) /\ p \in Ends(d)
                        /\ Other(p, d) = n /\ Ends(d) = {n, p}
  BY <1>0, AtWork, TwoEnds DEF Announce
<1>2. PICK old : old = peers[n][p]
  OBVIOUS
<1>3. /\ at[n] = "announce" /\ peers' = [peers EXCEPT ![n][p] = d]
      /\ Goto(n, "select", None) /\ UNCHANGED <<incoming, stage, inbox>>
      /\ IF old = None THEN UNCHANGED live ELSE Close(n, old)
  BY <1>0, <1>1, <1>2 DEF Announce, Back
<1>4. old # None => /\ old \in Conn /\ Ends(old) = {n, p} /\ n \in Ends(old) /\ p \in Ends(old)
                    /\ Other(n, old) = p /\ Other(p, old) = n
  BY <1>2, Held
<1>5. /\ peers'[n][p] = d /\ \A m \in Node : m # p => peers'[n][m] = peers[n][m]
      /\ \A k \in Node : k # n => peers'[k] = peers[k]
  BY <1>3 DEF TypeInv, TypeOK
<1>6. Only(n) /\ at'[n] = "select" /\ cur'[n] = None
  BY <1>3, GoesOff DEF Locations
<1>7. \A c \in Conn : c # old => live'[c] = live[c]
  BY <1>3, <1>4, Closes DEF TypeInv
<1>8. /\ Takes(n, d) /\ Both(d) /\ d # old /\ d # None
      /\ peers[p][n] = d \/ Takes(p, d)
  <2>1. Takes(n, d) /\ Taken(d)
    BY <1>0, <1>3 DEF Takes, Calm, Paired
  <2>2. QED BY <1>1, <1>2, <2>1, TwoEnds DEF Taken
<1>9. old # None => ~Takes(p, old)
  <2>1. SUFFICES ASSUME old # None, Takes(p, old) PROVE FALSE
    OBVIOUS
  <2>2. cur[p] = old /\ ~Takes(p, d) /\ peers[p][n] = d
    BY <1>8, <2>1 DEF Takes
  <2>3. Crossed(n, p)
    BY <1>2, <1>8, <2>1, <2>2 DEF Crossed
  <2>4. QED BY <1>1, <2>3 DEF Calm, Paired
<1>10. ASSUME NEW c \in Conn, NEW k \in Ends(c)
       PROVE  /\ k = n => ~Takes(k, c)' /\ (Takes(k, c) => c = d)
              /\ k # n => (Takes(k, c)' <=> Takes(k, c))
  <2>1. c # None /\ k \in Node
    BY TwoEnds
  <2>2. k = n => ~Takes(k, c)' /\ (Takes(k, c) => c = d)
    BY <1>0, <1>6, <2>1 DEF Takes
  <2>3. k # n => (Takes(k, c)' <=> Takes(k, c))
    BY <1>3, <1>6, <2>1 DEF Takes, Only
  <2>4. QED BY <2>2, <2>3
<1>11. Up'
  BY <1>6 DEF Calm, Up, Only
<1>12. ASSUME NEW c \in Conn PROVE Taken(c)'
  <2>1. SUFFICES ASSUME NEW k \in Ends(c), Takes(k, c)'
                 PROVE  /\ Both(c)'
                        /\ peers'[Other(k, c)][k] = c \/ Takes(Other(k, c), c)'
                        /\ peers'[k][Other(k, c)] # c
    BY DEF Taken
  <2>2. PICK q \in Ends(c) : q = Other(k, c) /\ Other(q, c) = k /\ Ends(c) = {k, q} /\ k # q
                             /\ q \in Node /\ k \in Node /\ c # None
    BY TwoEnds
  <2>3. k # n /\ Takes(k, c)
    BY <1>10, <2>1
  <2>4. Both(c) /\ (peers[q][k] = c \/ Takes(q, c)) /\ peers[k][q] # c
    BY <2>2, <2>3 DEF Calm, Paired, Taken
  <2>5. c # old
    <3>1. SUFFICES ASSUME c = old PROVE FALSE
      OBVIOUS
    <3>2. k = p
      BY <1>4, <2>2, <2>3, <3>1
    <3>3. QED BY <1>9, <2>2, <2>3, <3>1, <3>2
  <2>6. Both(c)'
    BY <1>7, <2>4, <2>5 DEF Both
  <2>7. peers'[k][q] # c
    BY <1>5, <2>2, <2>3, <2>4
  <2>8. peers'[q][k] = c \/ Takes(q, c)'
    <3>1. CASE q # n
      BY <1>5, <1>10, <2>2, <2>4, <3>1
    <3>2. CASE q = n /\ Takes(n, c)
      <4>1. c = d
        BY <1>10, <2>2, <3>2
      <4>2. k = p
        BY <1>1, <2>2, <3>2, <4>1
      <4>3. QED BY <1>5, <3>2, <4>1, <4>2
    <3>3. CASE q = n /\ peers[n][k] = c
      BY <1>2, <1>5, <2>2, <2>5, <3>3
    <3>4. QED BY <2>4, <3>1, <3>2, <3>3
  <2>9. QED BY <2>2, <2>6, <2>7, <2>8
<1>13. Agree(n, p)' /\ Agree(p, n)' /\ ~Crossed(n, p)' /\ ~Crossed(p, n)'
  <2>1. Both(d)'
    BY <1>7, <1>8 DEF Both
  <2>2. peers'[n][p] = d /\ peers'[p][n] = peers[p][n]
    BY <1>1, <1>5
  <2>3. peers'[p][n] = d \/ Takes(p, d)'
    BY <1>1, <1>8, <1>10, <2>2
  <2>4. (peers[p][n] # None => ~Takes(n, peers[p][n]))'
    BY <1>6 DEF Takes
  <2>5. Agree(n, p)' /\ Agree(p, n)'
    BY <1>8, <2>1, <2>2, <2>3 DEF Agree
  <2>6. ~Crossed(n, p)' /\ ~Crossed(p, n)'
    BY <2>4 DEF Crossed
  <2>7. QED BY <2>5, <2>6
<1>14. ASSUME NEW k \in Node, NEW m \in Node, k # m, {k, m} # {n, p}
       PROVE  Agree(k, m)' /\ ~Crossed(k, m)'
  <2>1. Agree(k, m) /\ ~Crossed(k, m)
    BY <1>14 DEF Calm, Paired
  <2>2. peers'[k][m] = peers[k][m] /\ peers'[m][k] = peers[m][k]
    BY <1>5, <1>14
  <2>3. ASSUME NEW a \in Node, NEW b \in Node, {a, b} = {k, m}, peers[a][b] # None,
               peers'[a][b] = peers[a][b]
        PROVE  /\ Both(peers[a][b]) => Both(peers[a][b])'
               /\ Takes(b, peers[a][b])' <=> Takes(b, peers[a][b])
    <3>1. PICK c \in Conn : c = peers[a][b] /\ b \in Ends(c) /\ Ends(c) = {k, m}
      BY <2>3, Held
    <3>2. c # d /\ c # old
      <4>1. Ends(c) # {n, p} /\ Ends(d) = {n, p} /\ c # None
        BY <1>1, <1>14, <2>3, <3>1
      <4>2. QED BY <1>4, <4>1
    <3>3. Takes(b, c)' <=> Takes(b, c)
      BY <1>10, <3>1, <3>2
    <3>4. Both(c) => Both(c)'
      BY <1>7, <3>2 DEF Both
    <3>5. QED BY <2>3, <3>1, <3>3, <3>4
  <2>4. /\ peers[k][m] # None => /\ Both(peers[k][m]) => Both(peers[k][m])'
                                 /\ Takes(m, peers[k][m])' <=> Takes(m, peers[k][m])
        /\ peers[m][k] # None => /\ Both(peers[m][k]) => Both(peers[m][k])'
                                 /\ Takes(k, peers[m][k])' <=> Takes(k, peers[m][k])
    BY <2>2, <2>3
  <2>5. Agree(k, m)'
    BY <2>1, <2>2, <2>4 DEF Agree
  <2>6. ~Crossed(k, m)'
    BY <2>1, <2>2, <2>4 DEF Crossed
  <2>7. QED BY <2>5, <2>6
<1>15. Paired'
  <2>1. ASSUME NEW k \in Node, NEW m \in Node, k # m PROVE Agree(k, m)' /\ ~Crossed(k, m)'
    <3>1. CASE {k, m} # {n, p}
      BY <1>14, <2>1, <3>1
    <3>2. CASE {k, m} = {n, p}
      <4>1. (k = n /\ m = p) \/ (k = p /\ m = n)
        BY <2>1, <3>2
      <4>2. QED BY <1>13, <4>1
    <3>3. QED BY <3>1, <3>2
  <2>2. QED BY <1>12, <2>1 DEF Paired
<1>16. ASSUME NEW c \in Conn PROVE Begun(c)'
  <2>0. c.from \in Node /\ c.to \in Node /\ c # None /\ c.from \in Ends(c)
    BY TwoEnds DEF Ends
  <2>1. Joining(c)' <=> Joining(c)
    BY <1>3, <1>6, <2>0 DEF Joining, Queued, Hearing, Only
  <2>2. CASE c # old
    <3>1. \/ cur'[c.from] = cur[c.from] /\ at'[c.from] = at[c.from]
          \/ ~Pending(c.from, c) /\ ~Pending(c.from, c)'
      BY <1>3, <1>6, <2>0 DEF Only, Pending
    <3>2. QED BY <1>3, <1>7, <2>1, <2>2, <3>1, BegunKept DEF Calm, AllBegun, Both
  <2>3. CASE c = old
    <3>1. c.from \in {n, p} /\ Shake(c) /\ Begun(c) /\ ~Joining(c) /\ ~Fresh(c)
      <4>1. Past(n, c) /\ Shake(c) /\ Begun(c)
        BY <1>2, <1>4, <2>0, <2>3 DEF Past, Shakes, Calm, AllBegun
      <4>2. ~Fresh(c)
        BY <1>4, <2>0, <2>3, <4>1 DEF Fresh, Ends
      <4>3. QED BY <1>4, <2>0, <2>3, <4>1, <4>2, Settles
    <3>2. ~Dialing(c)'
      BY <1>6, <2>0, <3>1 DEF Dialing, Only, Shake
    <3>3. ~Welcomes(c)'
      <4>1. SUFFICES ASSUME Welcomes(c)' PROVE FALSE
        OBVIOUS
      <4>2. c.from = p /\ Welcomes(c)
        BY <1>6, <2>0, <3>1, <4>1 DEF Welcomes, Only
      <4>3. Takes(p, c)
        BY <3>1, <4>2 DEF Begun, Takes, Welcomes
      <4>4. QED BY <1>9, <2>0, <2>3, <4>3
    <3>4. QED BY <2>1, <3>1, <3>2, <3>3, BegunOver
  <2>4. QED BY <2>2, <2>3
<1>17. QED BY <1>11, <1>15, <1>16 DEF Calm, AllBegun

(* No handshake fails of itself. *)
LEMMA CalmGoesOn ==
  ASSUME TypeInv, Shakes, Calm, NEW n \in Node
  PROVE  ~HandshakeFails(n) /\ ~Bye(n) /\ ~Start(n)
<1>1. ~HandshakeFails(n)
  <2>1. SUFFICES ASSUME at[n] \in {"dial", "welcome", "hello"}, stage[cur[n]] = "taken",
                        n \notin live[cur[n]]
                 PROVE  FALSE
    BY DEF HandshakeFails
  <2>2. PICK d \in Conn : d = cur[n] /\ n \in Ends(d) /\ stage[d] = "taken" /\ Begun(d)
    BY <2>1, AtWork DEF Calm, AllBegun
  <2>3. Dialing(d) \/ Welcomes(d) \/ Hearing(d)
    BY <2>1, <2>2, AtWork DEF Dialing, Welcomes, Hearing
  <2>4. Both(d)
    BY <2>2, <2>3 DEF Begun, Joining
  <2>5. QED BY <2>1, <2>2, <2>4 DEF Both
<1>2. QED BY <1>1 DEF Bye, Start, Calm, Up

LEMMA CalmStep ==
  ASSUME TypeInv, Shakes, CalmInv, [Next]_vars
  PROVE  CalmInv'
<1> SUFFICES ASSUME calm' PROVE Calm'
  BY DEF CalmInv
<1>0. calm = TRUE \/ calm = FALSE
  BY DEF TypeInv, TypeOK
<1>1. CASE UNCHANGED vars
  <2>1. Calm
    BY <1>1 DEF CalmInv, vars
  <2>2. UNCHANGED <<at, cur, peers, incoming, stage, live, inbox>>
    BY <1>1 DEF vars, taskVars, connVars
  <2>3. Up'
    BY <2>1, <2>2 DEF Calm, Up
  <2>4. AllBegun'
    BY <2>1, <2>2 DEF Calm, AllBegun, Begun, Joining, Queued, Hearing, Both, Dialing, Welcomes
  <2>5. \A c \in Conn : \A k \in Ends(c) : Takes(k, c)' <=> Takes(k, c)
    BY <2>2 DEF Takes
  <2>6. Paired'
    BY <2>1, <2>2, <2>5, PairedKept DEF Calm, Opens, Both
  <2>7. QED BY <2>3, <2>4, <2>6 DEF Calm
<1>2. CASE \E n \in Node : Continue(n) \/ Serve(n)
  <2>1. Calm
    BY <1>2 DEF CalmInv, Continue, SendHello, RecvWelcome, RecvHello, HandshakeFails, Announce,
                Bye, SendTo, Serve, TakeIncoming, PmForward
  <2>2. QED
    BY <1>2, <2>1, CalmHello, CalmWelcome, CalmReply, CalmGoesOn, CalmAnnounce, CalmSends,
       CalmTake, CalmRest DEF Continue, Serve
<1>3. CASE \E n \in Node : Begin(n)
  <2>1. Calm /\ ~\E n, m \in Node : Disconnect(n, m)
    BY <1>3 DEF CalmInv, Begin, Send, Dial, Disconnect
  <2>2. QED BY <1>3, <2>1, CalmSends, CalmDial DEF Begin
<1>4. CASE \E n \in Node : Accept(n) \/ AcceptFails(n) \/ DialFails(n)
  <2>1. Calm
    BY <1>4, <1>0 DEF CalmInv, Accept, AcceptFails, DialFails
  <2>2. QED BY <1>4, <2>1, CalmAccept, CalmRest
<1>5. CASE \E n \in Node : Leave(n) \/ Start(n)
  <2>1. PICK n \in Node : Start(n)
    BY <1>5 DEF Leave
  <2>2. Calm
    BY <2>1 DEF CalmInv, Start
  <2>3. QED BY <2>1, <2>2, CalmGoesOn
<1>6. CASE \E c \in Conn : Learn(c)
  <2>1. PICK c \in Conn : Learn(c)
    BY <1>6
  <2>2. Calm /\ c.from \in Node
    BY <2>1, TwoEnds DEF CalmInv, Learn
  <2>3. QED BY <2>1, <2>2, CalmRest
<1>7. CASE \E c \in Conn : Lose(c)
  BY <1>7 DEF CalmInv, Lose
<1>8. QED BY <1>1, <1>2, <1>3, <1>4, <1>5, <1>6, <1>7 DEF Next

(* Where nobody leaves, disconnects or loses packets, dials that cross, in *)
(* any number and order, leave no listed peer without its connection: a    *)
(* machine replaces a connection only by one that the other end takes too. *)
THEOREM NothingSplits == Spec => []NoSplit
<1>1. TypeInv /\ CalmInv => NoSplit
  <2> SUFFICES ASSUME TypeInv, CalmInv, calm, Quiet, NEW n \in Node, NEW m \in Node,
                      peers[n][m] # None
               PROVE  IsConnected(n, m)
    BY DEF NoSplit
  <2>1. PICK c \in Conn : c = peers[n][m] /\ n # m /\ n \in Ends(c)
    BY Held
  <2>2. Agree(n, m)
    BY <2>1 DEF CalmInv, Calm, Paired
  <2>3. at[n] = "select" /\ at[m] = "select"
    BY DEF Quiet
  <2>4. Both(c)
    BY <2>1, <2>2, <2>3 DEF Agree, Takes
  <2>5. QED BY <2>1, <2>4 DEF IsConnected, Both
<1>2. Init => NetInv /\ CalmInv
  BY TypeInit, ShakeInit, LeakInit, CalmInit DEF NetInv
<1>3. NetInv /\ CalmInv /\ [Next]_vars => (NetInv /\ CalmInv)'
  BY TypeStep, ShakeStep, LeakStep, CalmStep DEF NetInv
<1>4. NetInv => TypeInv
  BY DEF NetInv
<1>5. QED BY <1>1, <1>2, <1>3, <1>4, PTL DEF Spec
=============================================================================
