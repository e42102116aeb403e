---------------------------- MODULE ScriptManager ----------------------------
(***************************************************************************)
(* Loading and hot reload of scripts (crates/scripting/src/manager.rs,     *)
(* with engine.rs).  One task reads files, looks up their times of change  *)
(* and handles events; each file operation is an await, between two of     *)
(* which the user may change the file.                                     *)
(***************************************************************************)
EXTENDS Integers

CONSTANTS
  Scripts,    \* the names of script files
  MaxEdits,   \* bound on the changes of each file
  MaxTime,    \* bound on their times of change
  MaxEvents   \* bound on the waiting events

ASSUME ScriptAssumption == MaxEdits \in Nat /\ MaxTime \in Nat \ {0} /\ MaxEvents \in Nat

VARIABLES
  file,    \* per script, the file: [ver, kind, mtime]
  loaded,  \* per script, LoadedScript: [ver, mtime], ver 0 if not loaded
  phase,   \* what the task is doing: "select", "changes", "new", "ended"
  todo,    \* the scripts left in this phase
  reading, \* the script at which it awaits, with what it has read: [f, ver, kind, mtime]
  waiting, \* events in the channel
  sending  \* the other end of that channel exists

scriptVars == <<file, loaded, phase, todo, reading, waiting, sending>>

(* A file that does not compile is bad; one whose top-level code fails is  *)
(* broken.                                                                 *)
Kind == {"absent", "bad", "broken", "good"}
NotReading == [f |-> "none", ver |-> 0, kind |-> "absent", mtime |-> 0]

Present == {f \in Scripts : file[f].kind # "absent"}
Loaded == {f \in Scripts : loaded[f].ver # 0}

(* run() begins with load_all_scripts. *)
ScriptInit ==
  /\ file \in [Scripts -> {[ver |-> 1, kind |-> k, mtime |-> IF k = "absent" THEN 0 ELSE 1] :
                           k \in Kind}]
  /\ loaded = [f \in Scripts |-> [ver |-> 0, mtime |-> 0]]
  /\ phase = "new" /\ todo = Present /\ reading = NotReading
  /\ waiting = 0 /\ sending = TRUE

(* The user writes, removes or restores a file; a time of change need not  *)
(* be later than the last one.                                             *)
Edit(f) ==
  /\ file[f].ver <= MaxEdits
  /\ \E k \in Kind, t \in 1 .. MaxTime :
       file' = [file EXCEPT ![f] = [ver |-> file[f].ver + 1, kind |-> k,
                                    mtime |-> IF k = "absent" THEN 0 ELSE t]]
  /\ UNCHANGED <<loaded, phase, todo, reading, waiting, sending>>

Done(f) == todo' = todo \ {f} /\ reading' = NotReading

-----------------------------------------------------------------------------
(* load_script: read and compile, or give up. *)
LoadRead(f) ==
  /\ phase = "new" /\ f \in todo /\ reading = NotReading
  /\ IF file[f].kind \in {"absent", "bad"} THEN Done(f)
     ELSE /\ reading' = [f |-> f, ver |-> file[f].ver, kind |-> file[f].kind, mtime |-> 0]
          /\ UNCHANGED todo
  /\ UNCHANGED <<file, loaded, phase, waiting, sending>>

(* Then look up the time of change, and run the top-level code.            *)
LoadStat(f) ==
  /\ phase = "new" /\ reading.f = f
  /\ IF reading.kind = "good"
       THEN loaded' = [loaded EXCEPT ![f] = [ver |-> reading.ver, mtime |-> file[f].mtime]]
       ELSE UNCHANGED loaded
  /\ Done(f)
  /\ UNCHANGED <<file, phase, waiting, sending>>

(* Every two seconds: check_for_changes, first of what is loaded. *)
Tick ==
  /\ phase = "select"
  /\ phase' = "changes" /\ todo' = Loaded
  /\ UNCHANGED <<file, loaded, reading, waiting, sending>>

ChangeStat(f) ==
  /\ phase = "changes" /\ f \in todo /\ reading = NotReading
  /\ IF file[f].mtime > loaded[f].mtime
       THEN reading' = [NotReading EXCEPT !.f = f, !.mtime = file[f].mtime] /\ UNCHANGED todo
       ELSE Done(f)
  /\ UNCHANGED <<file, loaded, phase, waiting, sending>>

(* A changed script is read and compiled; its top-level code is not run.   *)
(* If that fails the old one stays, and is tried again at the next tick.   *)
ChangeRead(f) ==
  /\ phase = "changes" /\ reading.f = f
  /\ IF file[f].kind \in {"broken", "good"}
       THEN loaded' = [loaded EXCEPT ![f] = [ver |-> file[f].ver, mtime |-> reading.mtime]]
       ELSE UNCHANGED loaded
  /\ Done(f)
  /\ UNCHANGED <<file, phase, waiting, sending>>

(* Mutant of Scan: the directory is read only once. *)
ScanOnce ==
  /\ phase = "changes" /\ todo = {}
  /\ phase' = "new" /\ UNCHANGED todo
  /\ UNCHANGED <<file, loaded, reading, waiting, sending>>

(* Then the files that are not loaded, be it because they are new or       *)
(* because they failed before.                                             *)
Scan ==
  /\ phase = "changes" /\ todo = {}
  /\ phase' = "new" /\ todo' = Present \ Loaded
  /\ UNCHANGED <<file, loaded, reading, waiting, sending>>

Finished ==
  /\ phase = "new" /\ todo = {}
  /\ phase' = "select"
  /\ UNCHANGED <<file, loaded, todo, reading, waiting, sending>>

(* An event goes to every loaded script, whatever the others return; a     *)
(* handler ends, if only at the limit of operations.                       *)
Dispatch ==
  /\ phase = "select" /\ waiting > 0
  /\ waiting' = waiting - 1
  /\ UNCHANGED <<file, loaded, phase, todo, reading, sending>>

ScriptsEnd ==
  /\ phase = "select" /\ waiting = 0 /\ ~sending
  /\ phase' = "ended"
  /\ UNCHANGED <<file, loaded, todo, reading, waiting, sending>>

ScriptEvent ==
  /\ sending
  /\ \/ waiting < MaxEvents /\ waiting' = waiting + 1 /\ UNCHANGED sending
     \/ sending' = FALSE /\ UNCHANGED waiting
  /\ UNCHANGED <<file, loaded, phase, todo, reading>>

FileStep ==
  \/ \E f \in Scripts : LoadRead(f) \/ LoadStat(f) \/ ChangeStat(f) \/ ChangeRead(f)
  \/ Scan \/ Finished

ScriptNext ==
  \/ FileStep \/ Tick \/ Dispatch \/ ScriptsEnd \/ ScriptEvent
  \/ \E f \in Scripts : Edit(f)

-----------------------------------------------------------------------------
Fresh(f) == loaded[f].ver = file[f].ver

(* Another text is loaded, under a time no earlier than the file's.        *)
Missed(f) == f \in Loaded /\ ~Fresh(f) /\ file[f].mtime <= loaded[f].mtime

(* A script that the user leaves alone, and that works, comes to be the    *)
(* one that is loaded, unless its time of change hides that it changed.    *)
FreshOrMissed ==
  \A f \in Scripts : <>[](file[f].kind = "good" /\ phase # "ended" => Fresh(f) \/ Missed(f))
=============================================================================
