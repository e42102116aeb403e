----------------------------- MODULE ConfigStore ------------------------------
(***************************************************************************)
(* The configuration file (crates/config/src/settings.rs) and those who    *)
(* write it: the daemon, for SaveConfig and UpdateScreenLayout             *)
(* (crates/daemon/src/ipc/mod.rs), and the GUI (src-tauri), by itself when *)
(* it has no daemon.  Each works on a copy: the daemon on the one it was   *)
(* started with, the GUI on its state.config, the settings page on its     *)
(* form.  A configuration is the links and the rest, each a number of the  *)
(* user's change that set it.                                              *)
(***************************************************************************)
EXTENDS Integers

CONSTANT MaxChanges  \* bound on the changes the user makes

ASSUME ConfigAssumption == MaxChanges \in Nat

VARIABLES
  toml,     \* config.toml: NoToml, TornToml or [rest, links]
  daemon,   \* [at, config]: "down", "boot", "up" or "failed"
  gui,      \* [at, config, linked]: "off", "first" or "on"; its client: "none", "live", "broken"
  form,     \* the settings page: a copy, or NoForm
  saves,    \* per command, one at a time: [at, by, base, value]; by: daemon, gui, or orphan:
            \* the daemon, for a GUI that has quit
  changes,  \* changes of the user so far
  writes,   \* ghost: completed saves
  last,     \* ghost: per command, which of them was its last
  wanted,   \* ghost: what the user's saves set last
  spoilt    \* ghost: what the property below excepts has happened

ghosts == <<writes, last, wanted, spoilt>>
configVars == <<toml, daemon, gui, form, saves, changes, ghosts>>

NoToml == [rest |-> -1, links |-> -1]
TornToml == [rest |-> -2, links |-> -2]
DefaultConfig == [rest |-> 0, links |-> 0]
Copy(config, n) == [rest |-> config.rest, links |-> config.links, read |-> n]
NoForm == Copy(NoToml, 0)
Unsaved == [at |-> "idle", by |-> "", base |-> Copy(DefaultConfig, 0), value |-> 0]

(* The two commands, and the two first loads that create the file.         *)
Commands == {"save", "layout"}
Saves == Commands \cup {"first", "boot"}

ConfigInit ==
  /\ toml \in {NoToml, DefaultConfig}
  /\ daemon = [at |-> "down", config |-> Copy(DefaultConfig, 0)]
  /\ gui = [at |-> "off", config |-> Copy(DefaultConfig, 0), linked |-> "none"]
  /\ form = NoForm /\ saves = [s \in Saves |-> Unsaved]
  /\ changes = 0 /\ writes = 0 /\ last = [s \in Commands |-> 0]
  /\ wanted = DefaultConfig /\ spoilt = FALSE

DaemonBusy == \E s \in Commands : saves[s].at # "idle" /\ saves[s].by = "daemon"
InMiddle(s) == saves[s].at = "middle"
Create(by) == [Unsaved EXCEPT !.at = "write", !.by = by]

-----------------------------------------------------------------------------
(* load_config creates a missing file and fails on one that is cut short;  *)
(* the daemon then does not start, the GUI takes the defaults.             *)
DaemonLoads ==
  /\ daemon.at \in {"down", "failed"}
  /\ \/ /\ toml = NoToml /\ daemon' = [daemon EXCEPT !.at = "boot"]
        /\ saves' = [saves EXCEPT !["boot"] = Create("daemon")]
        /\ UNCHANGED spoilt
     \/ /\ toml = TornToml /\ daemon' = [daemon EXCEPT !.at = "failed"]
        /\ spoilt' = TRUE /\ UNCHANGED saves
     \/ /\ toml \notin {NoToml, TornToml}
        /\ daemon' = [at |-> "up", config |-> Copy(toml, writes)]
        /\ UNCHANGED <<saves, spoilt>>
  /\ UNCHANGED <<toml, gui, form, changes, writes, last, wanted>>

GuiLoads ==
  /\ gui.at = "off"
  /\ \/ /\ toml = NoToml /\ gui' = [gui EXCEPT !.at = "first", !.config = Copy(DefaultConfig, writes)]
        /\ saves' = [saves EXCEPT !["first"] = Create("gui")]
        /\ UNCHANGED spoilt
     \/ /\ toml = TornToml
        /\ gui' = [gui EXCEPT !.at = "on", !.config = Copy(DefaultConfig, writes)]
        /\ spoilt' = TRUE /\ UNCHANGED saves
     \/ /\ toml \notin {NoToml, TornToml}
        /\ gui' = [gui EXCEPT !.at = "on", !.config = Copy(toml, writes)]
        /\ UNCHANGED <<saves, spoilt>>
  /\ UNCHANGED <<toml, daemon, form, changes, writes, last, wanted>>

GuiLinks ==
  /\ gui.at = "on" /\ gui.linked = "none" /\ daemon.at = "up"
  /\ gui' = [gui EXCEPT !.linked = "live"]
  /\ UNCHANGED <<toml, daemon, form, saves, changes, ghosts>>

-----------------------------------------------------------------------------
(* The commands.  With a client they wait for its lock; only a command     *)
(* finds that its daemon is gone, drops it, and goes on without.           *)

Asked == gui.linked = "live"
Tried == [gui EXCEPT !.linked = IF Asked THEN "live" ELSE "none"]
MayCall == gui.at = "on" /\ (Asked => ~DaemonBusy)
Lockable == ~(saves["layout"].by = "gui" /\ saves["layout"].at \in {"middle", "answer"})

(* GetConfig answers with the configuration the daemon was started with.   *)
GetConfig ==
  /\ MayCall /\ (Asked \/ Lockable)
  /\ form' = IF Asked THEN daemon.config ELSE gui.config
  /\ gui' = Tried
  /\ UNCHANGED <<toml, daemon, saves, changes, ghosts>>

Call(s) ==
  /\ MayCall /\ saves[s].at = "idle" /\ changes < MaxChanges
  /\ s = "save" => form # NoForm
  /\ changes' = changes + 1
  /\ saves' = [saves EXCEPT ![s] = [at |-> "write", by |-> IF Asked THEN "daemon" ELSE "gui",
                                    base |-> IF s = "save" THEN form ELSE daemon.config,
                                    value |-> changes + 1]]
  /\ gui' = Tried
  /\ UNCHANGED <<toml, daemon, form, ghosts>>

(* Mutant of NewConfig: a layout goes with the defaults. *)
NewConfigDefaults(s) ==
  CASE s = "save" -> [rest |-> saves[s].value, links |-> saves[s].base.links]
    [] s = "layout" -> [DefaultConfig EXCEPT !.links = saves[s].value]
    [] OTHER -> DefaultConfig

NewConfig(s) ==
  CASE s = "save" -> [rest |-> saves[s].value, links |-> saves[s].base.links]
    [] s = "layout" -> [rest |-> saves[s].base.rest, links |-> saves[s].value]
    [] OTHER -> DefaultConfig

(* save_config: fs::write truncates the file, then fills it.  Without a    *)
(* daemon the layout is set in state.config first, whose lock is kept.     *)
Truncate(s) ==
  /\ saves[s].at = "write"
  /\ toml' = TornToml
  /\ IF s = "layout" /\ saves[s].by = "gui"
       THEN /\ saves' = [saves EXCEPT ![s].at = "middle", ![s].base = gui.config]
            /\ gui' = [gui EXCEPT !.config.links = saves[s].value]
       ELSE saves' = [saves EXCEPT ![s].at = "middle"] /\ UNCHANGED gui
  /\ spoilt' = (spoilt \/ \E t \in Saves : InMiddle(t))
  /\ UNCHANGED <<daemon, form, changes, writes, last, wanted>>

Fill(s) ==
  /\ InMiddle(s)
  /\ toml' = NewConfig(s)
  /\ saves' = [saves EXCEPT ![s].at = "answer"]
  /\ writes' = writes + 1
  /\ wanted' = CASE s = "save" -> [wanted EXCEPT !.rest = saves[s].value]
                 [] s = "layout" -> [wanted EXCEPT !.links = saves[s].value]
                 [] OTHER -> wanted
  /\ last' = IF s \in Commands THEN [last EXCEPT ![s] = writes + 1] ELSE last
  /\ spoilt' = (spoilt \/ \E t \in Commands \ {s} : saves[s].base.read < last[t])
  /\ UNCHANGED <<daemon, gui, form, changes>>

(* The GUI, if it is still the one that asked, hears of it.                *)
Heard(s) == s \in Commands /\ saves[s].by # "orphan"

(* Its copy follows: whole for a save, the links for a layout.  The        *)
(* copy is as new as the file when it was so before.                       *)
Follow(s) ==
  LET kept == gui.config.read = writes - 1
  IN IF s = "save" THEN Copy(NewConfig(s), IF writes = saves[s].base.read + 1 THEN writes ELSE 0)
     ELSE [gui.config EXCEPT !.links = saves[s].value, !.read = IF kept THEN writes ELSE @]

Answer(s) ==
  /\ saves[s].at = "answer" /\ (s = "save" /\ Heard(s) => Lockable)
  /\ saves' = [saves EXCEPT ![s] = Unsaved]
  /\ gui' = CASE Heard(s) -> [gui EXCEPT !.config = Follow(s)]
              [] s = "first" -> [gui EXCEPT !.at = "on", !.config = Copy(DefaultConfig, 1)]
              [] OTHER -> gui
  /\ daemon' = IF s = "boot" THEN [at |-> "up", config |-> Copy(DefaultConfig, 1)] ELSE daemon
  /\ form' = IF s = "save" /\ Heard(s) THEN Follow(s) ELSE form
  /\ UNCHANGED <<toml, changes, ghosts>>

-----------------------------------------------------------------------------
Tears(owners) ==
  spoilt' = (spoilt \/ \E s \in Saves : InMiddle(s) /\ saves[s].by \in owners)

(* A command of the GUI whose daemon is gone goes on by itself.            *)
DaemonDies ==
  /\ daemon.at \in {"boot", "up"}
  /\ daemon' = [daemon EXCEPT !.at = "down"]
  /\ Tears({"daemon", "orphan"})
  /\ saves' = [s \in Saves |->
       IF saves[s].by = "orphan" \/ s = "boot" THEN Unsaved
       ELSE IF saves[s].by # "daemon" THEN saves[s]
       ELSE [saves[s] EXCEPT !.at = "write", !.by = "gui",
                             !.base = IF s = "save" THEN @ ELSE gui.config]]
  /\ gui' = IF Asked THEN [gui EXCEPT !.linked = IF DaemonBusy THEN "none" ELSE "broken"] ELSE gui
  /\ UNCHANGED <<toml, form, changes, writes, last, wanted>>

(* What the daemon has begun for the GUI it ends without it.               *)
GuiQuits ==
  /\ gui.at # "off"
  /\ gui' = [gui EXCEPT !.at = "off", !.linked = "none"]
  /\ form' = NoForm
  /\ Tears({"gui"})
  /\ saves' = [s \in Saves |->
       IF saves[s].by = "gui" THEN Unsaved
       ELSE IF s \in Commands /\ saves[s].by = "daemon" THEN [saves[s] EXCEPT !.by = "orphan"]
       ELSE saves[s]]
  /\ UNCHANGED <<toml, daemon, changes, writes, last, wanted>>

ConfigNext ==
  \/ DaemonLoads \/ GuiLoads \/ GuiLinks \/ GetConfig \/ DaemonDies \/ GuiQuits
  \/ \E s \in Commands : Call(s)
  \/ \E s \in Saves : Truncate(s) \/ Fill(s) \/ Answer(s)

ConfigSpec == ConfigInit /\ [][ConfigNext]_configVars

-----------------------------------------------------------------------------
(* Between two saves the file holds what the user set last, links and all  *)
(* the rest, unless a process died in the middle of a save, two met in the *)
(* file, or one kind of change was made to a copy older than the last save *)
(* of the other kind, as the copy of a daemon is that was started before.  *)
KeepsSaves ==
  ~spoilt /\ (\A s \in Saves : ~InMiddle(s)) =>
    toml = wanted \/ (toml = NoToml /\ writes = 0)
=============================================================================
