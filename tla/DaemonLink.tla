------------------------------ MODULE DaemonLink ------------------------------
(***************************************************************************)
(* How the GUI (src-tauri/src/lib.rs, commands.rs, daemon_client.rs) finds *)
(* a daemon, talks to it and starts another: the socket file that every    *)
(* daemon removes and binds (crates/daemon/src/ipc/mod.rs), the one client *)
(* behind its mutex, and the reconnecting task.  Delays are left out: each *)
(* step takes as long as it likes.                                         *)
(***************************************************************************)
EXTENDS Integers, Sequences

CONSTANTS
  Calls,        \* Tauri commands that may be under way at once
  MaxProcesses  \* bound on the daemon processes

ASSUME LinkAssumption == MaxProcesses \in Nat \ {0} /\ {"starter", "keeper"} \cap Calls = {}

VARIABLES
  process,  \* per daemon process, where it is
  wedged,   \* processes whose coordinator waits for good (see Daemon)
  socket,   \* the process that bound the socket file, or NoOne without a file
  client,   \* the process the GUI's client is connected to, or NoOne
  mutex,    \* the tasks that hold (first) and await the lock of the client
  call,     \* per command: "idle", "called", "asked" or "told" the daemon
  task,     \* per background task "starter", "keeper": [at, link]
  was,      \* the keeper's was_connected
  setup     \* the GUI's setup has not yet looked for a daemon

linkVars == <<process, wedged, socket, client, mutex, call, task, was, setup>>

NoOne == 0
Processes == 1 .. MaxProcesses
Serving(p) == p # NoOne /\ process[p] = "serve"
Dead(p) == process[p] = "gone"

(* At first: nothing, a running daemon, or the socket of a crashed one.    *)
LinkInit ==
  /\ \E first \in {"none", "serve", "gone"} :
       /\ process = [p \in Processes |-> IF p = 1 THEN first ELSE "none"]
       /\ socket = IF first = "none" THEN NoOne ELSE 1
  /\ wedged = {} /\ client = NoOne /\ mutex = <<>>
  /\ call = [c \in Calls |-> "idle"]
  /\ task = [starter |-> [at |-> "connect", link |-> NoOne],
             keeper |-> [at |-> "sleep", link |-> NoOne]]
  /\ was = FALSE /\ setup = TRUE

-----------------------------------------------------------------------------
(* The daemons. *)

Move(p, at) == process' = [process EXCEPT ![p] = at]

(* A daemon without its configuration gives up; else it looks for a stale  *)
(* socket file, removes it and binds its own.  What fails there leaves it  *)
(* without a server.                                                       *)
DaemonBoots(p) ==
  /\ \/ process[p] = "boot" /\ Move(p, "gone") /\ UNCHANGED socket
     \/ process[p] = "boot" /\ UNCHANGED socket
        /\ Move(p, IF socket = NoOne THEN "bind" ELSE "remove")
     \/ process[p] = "remove" /\ socket' = NoOne
        /\ Move(p, IF socket = NoOne THEN "deaf" ELSE "bind")
     \/ process[p] = "bind"
        /\ IF socket = NoOne THEN socket' = p /\ Move(p, "serve")
                             ELSE Move(p, "deaf") /\ UNCHANGED socket
  /\ UNCHANGED <<wedged, client, mutex, call, task, was, setup>>

(* At a shutdown the server removes whatever file is there, unless the     *)
(* coordinator aborts it first; a wedged coordinator never ends.           *)
DaemonEnds(p) ==
  /\ \/ process[p] \in {"serve", "deaf"} /\ Move(p, "closing") /\ UNCHANGED socket
     \/ process[p] = "closing" /\ Move(p, "closed") /\ socket' = NoOne
     \/ process[p] \in {"closing", "closed"} /\ p \notin wedged
        /\ Move(p, "gone") /\ UNCHANGED socket
  /\ UNCHANGED <<wedged, client, mutex, call, task, was, setup>>

DaemonCrashes(p) ==
  /\ process[p] \notin {"none", "gone"} /\ Move(p, "gone")
  /\ UNCHANGED <<wedged, socket, client, mutex, call, task, was, setup>>

DaemonWedges(p) ==
  /\ Serving(p) /\ p \notin wedged /\ wedged' = wedged \cup {p}
  /\ UNCHANGED <<process, socket, client, mutex, call, task, was, setup>>

(* The next process that was never started, if the bound leaves one.       *)
Spawn ==
  LET unused == {p \in Processes : process[p] = "none"}
  IN IF unused = {} THEN UNCHANGED process
     ELSE Move(CHOOSE p \in unused : \A q \in unused : p <= q, "boot")

-----------------------------------------------------------------------------
(* The commands: try_daemon_send. *)

Holds(t) == mutex # <<>> /\ Head(mutex) = t

AwaitLock(c) ==
  /\ call[c] = "idle"
  /\ call' = [call EXCEPT ![c] = "called"] /\ mutex' = Append(mutex, c)
  /\ UNCHANGED <<process, wedged, socket, client, task, was, setup>>

(* Without a client the command does what it can by itself.  What only     *)
(* asks is answered without the coordinator, everything else waits for it. *)
Send(c) ==
  /\ call[c] = "called" /\ Holds(c)
  /\ \/ client = NoOne /\ call' = [call EXCEPT ![c] = "idle"] /\ mutex' = Tail(mutex)
     \/ /\ client # NoOne /\ UNCHANGED mutex
        /\ \E to \in {"asked", "told"} : call' = [call EXCEPT ![c] = to]
  /\ UNCHANGED <<process, wedged, socket, client, task, was, setup>>

Answers(c) == ~Dead(client) /\ (client \in wedged => call[c] = "asked")

(* Mutant of Receive: the lock is not given back with the error. *)
ReceiveKeeping(c) ==
  /\ call[c] \in {"asked", "told"}
  /\ \/ Dead(client) /\ client' = NoOne /\ UNCHANGED mutex
     \/ Answers(c) /\ UNCHANGED client /\ mutex' = Tail(mutex)
  /\ call' = [call EXCEPT ![c] = "idle"]
  /\ UNCHANGED <<process, wedged, socket, task, was, setup>>

(* The answer, or the end of the connection, which drops the client.       *)
Receive(c) ==
  /\ call[c] \in {"asked", "told"}
  /\ \/ Dead(client) /\ client' = NoOne
     \/ Answers(c) /\ UNCHANGED client
  /\ call' = [call EXCEPT ![c] = "idle"] /\ mutex' = Tail(mutex)
  /\ UNCHANGED <<process, wedged, socket, task, was, setup>>

-----------------------------------------------------------------------------
(* The two background tasks and the setup. *)

Goto(t, at) == task' = [task EXCEPT ![t].at = at]

(* The socket's process must be there to accept.                           *)
Connect(t) ==
  /\ task[t].at = "connect"
  /\ IF Serving(socket)
       THEN task' = [task EXCEPT ![t] = [at |-> "store", link |-> socket]]
            /\ mutex' = Append(mutex, t)
       ELSE Goto(t, IF t = "keeper" THEN "sleep" ELSE "done") /\ UNCHANGED mutex
  /\ UNCHANGED <<process, wedged, socket, client, call, was, setup>>

Store(t) ==
  /\ task[t].at = "store" /\ Holds(t)
  /\ client' = task[t].link /\ mutex' = Tail(mutex)
  /\ task' = [task EXCEPT ![t] = [at |-> IF t = "keeper" THEN "sleep" ELSE "done",
                                  link |-> NoOne]]
  /\ was' = (was \/ t = "keeper")
  /\ UNCHANGED <<process, wedged, socket, call, setup>>

KeeperWakes ==
  /\ task["keeper"].at = "sleep"
  /\ Goto("keeper", "look") /\ mutex' = Append(mutex, "keeper")
  /\ UNCHANGED <<process, wedged, socket, client, call, was, setup>>

(* Mutant of KeeperLooks: it connects only what was connected before. *)
KeeperLooksBack ==
  /\ task["keeper"].at = "look" /\ Holds("keeper")
  /\ mutex' = Tail(mutex)
  /\ Goto("keeper", IF client # NoOne \/ ~was THEN "sleep" ELSE "spawn")
  /\ was' = (was \/ client # NoOne)
  /\ UNCHANGED <<process, wedged, socket, client, call, setup>>

(* A daemon is respawned only after a connection, and then at once.        *)
KeeperLooks ==
  /\ task["keeper"].at = "look" /\ Holds("keeper")
  /\ mutex' = Tail(mutex)
  /\ Goto("keeper", IF client # NoOne THEN "sleep" ELSE IF was THEN "spawn" ELSE "connect")
  /\ was' = (was \/ client # NoOne)
  /\ UNCHANGED <<process, wedged, socket, client, call, setup>>

KeeperSpawns ==
  /\ task["keeper"].at = "spawn" /\ Spawn /\ Goto("keeper", "connect")
  /\ UNCHANGED <<wedged, socket, client, mutex, call, was, setup>>

(* A daemon is started when there is no socket file, stale or not.         *)
SetupSpawns ==
  /\ setup /\ setup' = FALSE
  /\ IF socket = NoOne THEN Spawn ELSE UNCHANGED process
  /\ UNCHANGED <<wedged, socket, client, mutex, call, task, was>>

Connects == \E t \in DOMAIN task : Connect(t) \/ Store(t)
KeeperStep == KeeperWakes \/ KeeperLooks \/ KeeperSpawns

Work(c) == Send(c) \/ Receive(c)

LinkNext ==
  \/ \E p \in Processes :
       DaemonBoots(p) \/ DaemonEnds(p) \/ DaemonCrashes(p) \/ DaemonWedges(p)
  \/ \E c \in Calls : AwaitLock(c) \/ Work(c)
  \/ Connects \/ KeeperStep \/ SetupSpawns

-----------------------------------------------------------------------------
(* A wedged daemon that is connected may keep every later command waiting. *)
ClientWedged == client \in wedged /\ ~Dead(client)

(* A command ends, unless the daemon the client is connected to is wedged. *)
AnsweredOrWedged ==
  \A c \in Calls : call[c] # "idle" ~> call[c] = "idle" \/ ClientWedged

(* A GUI without a daemon gets one as long as one can be reached; and once *)
(* it had one, it starts others until the bound.                           *)
ReconnectsOrGone ==
  client = NoOne ~>
    \/ client # NoOne
    \/ ~Serving(socket) /\ (was => \A p \in Processes : process[p] # "none")
=============================================================================
