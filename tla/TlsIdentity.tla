----------------------------- MODULE TlsIdentity -----------------------------
(***************************************************************************)
(* The stored TLS identity (crates/network/src/tls.rs), which the network  *)
(* actor of each daemon loads or generates when it starts: a certificate   *)
(* file and a key file, each written in place.  Daemons start, crash and   *)
(* may overlap.                                                            *)
(***************************************************************************)
EXTENDS Integers

CONSTANTS
  Starters,    \* daemon processes of the machine
  MaxIdentity  \* bound on the identities generated

ASSUME TlsAssumption == MaxIdentity \in Nat

VARIABLES
  stored,   \* the files [cert, key]: Absent, Part of a file, or an identity
  starter,  \* per process [at, own, cert, key]: where it is, what it made, what it read
  made,     \* identities generated so far
  torn,     \* ghost: the places at which a process crashed
  overlap   \* ghost: one process started while another was starting

tlsVars == <<stored, starter, made, torn, overlap>>

Absent == -1
Part == 0
Down == [at |-> "down", own |-> Absent, cert |-> Absent, key |-> Absent]
Running == {"check", "cert", "midCert", "key", "midKey", "readCert", "readKey"}

TlsInit ==
  /\ stored = [cert |-> Absent, key |-> Absent]
  /\ starter = [p \in Starters |-> Down]
  /\ made = 0 /\ torn = {} /\ overlap = FALSE

MoveTo(p, at) == starter' = [starter EXCEPT ![p].at = at]

Start(p) ==
  /\ starter[p].at = "down"
  /\ MoveTo(p, "check")
  /\ overlap' = (overlap \/ \E q \in Starters : starter[q].at \in Running)
  /\ UNCHANGED <<stored, made, torn>>

(* Mutant of BothExist: one file is enough. *)
OneExists == stored.cert # Absent \/ stored.key # Absent

BothExist == stored.cert # Absent /\ stored.key # Absent

(* load_or_generate_identity: both files must exist to be loaded. *)
Check(p) ==
  /\ starter[p].at = "check"
  /\ IF BothExist
       THEN MoveTo(p, "readCert") /\ UNCHANGED made
       ELSE /\ made < MaxIdentity /\ made' = made + 1
            /\ starter' = [starter EXCEPT ![p].at = "cert", ![p].own = made + 1]
  /\ UNCHANGED <<stored, torn, overlap>>

(* save_identity: each file is truncated, then filled. *)
Save(p) ==
  \/ starter[p].at = "cert" /\ stored' = [stored EXCEPT !.cert = Part] /\ MoveTo(p, "midCert")
  \/ starter[p].at = "midCert" /\ stored' = [stored EXCEPT !.cert = starter[p].own]
     /\ MoveTo(p, "key")
  \/ starter[p].at = "key" /\ stored' = [stored EXCEPT !.key = Part] /\ MoveTo(p, "midKey")
  \/ starter[p].at = "midKey" /\ stored' = [stored EXCEPT !.key = starter[p].own]
     /\ MoveTo(p, "up")

(* rustls makes no configuration unless both files are whole and the key   *)
(* is the certificate's.                                                   *)
MakesConfigs(cert, key) == key = cert /\ key # Part

(* load_identity only reads.                                               *)
Load(p) ==
  \/ /\ starter[p].at = "readCert"
     /\ starter' = [starter EXCEPT ![p].cert = stored.cert, ![p].at = "readKey"]
  \/ /\ starter[p].at = "readKey"
     /\ starter' = [starter EXCEPT ![p].key = stored.key,
                                   ![p].at = IF MakesConfigs(starter[p].cert, stored.key)
                                               THEN "up" ELSE "failed"]

Transfer(p) ==
  /\ Save(p) \/ (Load(p) /\ UNCHANGED stored)
  /\ UNCHANGED <<made, torn, overlap>>

(* A daemon that could not load its identity has no network actor.         *)
Crash(p) ==
  /\ starter[p].at # "down"
  /\ torn' = IF starter[p].at \in Running THEN torn \cup {starter[p].at} ELSE torn
  /\ starter' = [starter EXCEPT ![p] = Down]
  /\ UNCHANGED <<stored, made, overlap>>

TlsNext == \E p \in Starters : Start(p) \/ Check(p) \/ Transfer(p) \/ Crash(p)

TlsSpec == TlsInit /\ [][TlsNext]_tlsVars

-----------------------------------------------------------------------------
(* Only a crash in the middle of writing the key, or two daemons starting  *)
(* at once, can keep a later one from starting its network: after a crash  *)
(* anywhere else the next start makes a new pair.                          *)
RepairedUnlessMidKey ==
  (\E p \in Starters : starter[p].at = "failed") => "midKey" \in torn \/ overlap
=============================================================================
