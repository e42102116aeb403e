---------------------------- MODULE StoreProofs -----------------------------
(***************************************************************************)
(* Proofs about what is kept in files: the TLS identity and the            *)
(* configuration.                                                          *)
(***************************************************************************)
EXTENDS TlsIdentity, ConfigStore, TLAPS

(***************************************************************************)
(* THE IDENTITY.  The stored identity is repaired by the next start, for   *)
(* every number of processes, starts and crashes, but for the two cases    *)
(* the property names.                                                     *)
(***************************************************************************)

Identity == Nat \ {0}
Content == Nat \cup {Absent}

TlsTypeOK ==
  /\ stored \in [cert : Content, key : Content]
  /\ starter \in [Starters -> [at : Running \cup {"down", "up", "failed"},
                               own : Content, cert : Content, key : Content]]
  /\ made \in Nat
  /\ torn \subseteq Running
  /\ overlap \in BOOLEAN

Whole == stored.cert \in Identity /\ stored.key = stored.cert

(* What the files are while process p is where it is.                      *)
Place(p) ==
  /\ starter[p].at # "failed"
  /\ starter[p].at \in {"cert", "midCert", "key", "midKey"} => starter[p].own \in Identity
  /\ starter[p].at \in {"cert", "midCert", "key"} => stored.key = Absent
  /\ starter[p].at \in {"key", "midKey"} => stored.cert = starter[p].own
  /\ starter[p].at \in {"readCert", "readKey"} => Whole
  /\ starter[p].at = "readKey" => starter[p].cert = stored.cert

(* One process at a time, none of which died inside the second write: a    *)
(* key without its certificate is only seen while it is being written.     *)
Repairable ==
  ~overlap /\ "midKey" \notin torn =>
    /\ \A p, q \in Starters :
         starter[p].at \in Running /\ starter[q].at \in Running => p = q
    /\ \A p \in Starters : Place(p)
    /\ (\A p \in Starters : starter[p].at # "midKey") => stored.key = Absent \/ Whole

TlsInv == TlsTypeOK /\ Repairable

LEMMA TlsInvInit == TlsInit => TlsInv
<1> SUFFICES ASSUME TlsInit PROVE TlsInv
  OBVIOUS
<1>1. stored.key = Absent /\ \A p \in Starters : starter[p].at = "down"
  BY DEF TlsInit, Down
<1>2. overlap \in BOOLEAN
  BY DEF TlsInit
<1>3. TlsTypeOK
  BY <1>2 DEF TlsTypeOK, TlsInit, Down, Content, Absent
<1>4. Repairable
  BY <1>1 DEF Repairable, Place, Running
<1>5. QED BY <1>3, <1>4 DEF TlsInv

LEMMA TlsTypeStep ==
  ASSUME TlsTypeOK, [TlsNext]_tlsVars
  PROVE  TlsTypeOK'
<1> USE DEF TlsTypeOK
<1>1. CASE UNCHANGED tlsVars
  BY <1>1 DEF tlsVars
<1>2. ASSUME NEW p \in Starters, Start(p) PROVE TlsTypeOK'
  <2>1. overlap' \in BOOLEAN
    BY <1>2 DEF Start
  <2>2. QED BY <1>2, <2>1 DEF Start, MoveTo, Running
<1>3. ASSUME NEW p \in Starters, Check(p) PROVE TlsTypeOK'
  BY <1>3 DEF Check, MoveTo, Running, Content
<1>4. ASSUME NEW p \in Starters, Transfer(p) PROVE TlsTypeOK'
  <2>1. CASE Save(p)
    BY <1>4, <2>1 DEF Transfer, Save, MoveTo, Running, Content, Part
  <2>2. CASE Load(p) /\ UNCHANGED stored
    BY <1>4, <2>2 DEF Transfer, Load, Running
  <2>3. QED BY <1>4, <2>1, <2>2 DEF Transfer
<1>5. ASSUME NEW p \in Starters, Crash(p) PROVE TlsTypeOK'
  BY <1>5 DEF Crash, Down, Content
<1>6. QED BY <1>1, <1>2, <1>3, <1>4, <1>5 DEF TlsNext

LEMMA RepairableStep ==
  ASSUME TlsInv, [TlsNext]_tlsVars
  PROVE  Repairable'
<1> USE DEF TlsInv, TlsTypeOK
<1> SUFFICES ASSUME ~overlap', "midKey" \notin torn'
             PROVE  (/\ \A p, q \in Starters :
                          starter[p].at \in Running /\ starter[q].at \in Running => p = q
                     /\ \A p \in Starters : Place(p)
                     /\ (\A p \in Starters : starter[p].at # "midKey")
                          => stored.key = Absent \/ Whole)'
  BY DEF Repairable
<1>1. CASE UNCHANGED tlsVars
  BY <1>1 DEF tlsVars, Repairable, Place, Whole
<1>2. ASSUME NEW p \in Starters, Start(p) PROVE Repairable'
  <2>1. ~overlap /\ "midKey" \notin torn /\ \A q \in Starters : starter[q].at \notin Running
    BY <1>2 DEF Start
  <2>2. \A q \in Starters : q # p => starter'[q] = starter[q]
    BY <1>2 DEF Start, MoveTo
  <2>3. starter'[p].at = "check" /\ stored' = stored
    BY <1>2 DEF Start, MoveTo
  <2>4. QED BY <2>1, <2>2, <2>3 DEF Repairable, Place, Whole, Running
<1>3. ASSUME NEW p \in Starters, Check(p) PROVE Repairable'
  <2>1. ~overlap /\ "midKey" \notin torn /\ stored' = stored
    BY <1>3 DEF Check
  <2>2. starter[p].at = "check" /\ \A q \in Starters : q # p => starter'[q] = starter[q]
    BY <1>3 DEF Check, MoveTo
  <2>3. \A q \in Starters : q # p => starter[q].at \notin Running
    BY <2>1, <2>2 DEF Repairable, Running
  <2>4. stored.key = Absent \/ Whole
    BY <2>1, <2>2, <2>3 DEF Repairable, Running
  <2>5. CASE BothExist
    <3>1. starter'[p].at = "readCert"
      BY <1>3, <2>5 DEF Check, MoveTo
    <3>2. QED BY <2>1, <2>2, <2>3, <2>4, <2>5, <3>1
            DEF Repairable, Place, Whole, Running, BothExist
  <2>6. CASE ~BothExist
    <3>1. starter'[p].at = "cert" /\ starter'[p].own \in Identity
      BY <1>3, <2>6 DEF Check, Identity
    <3>2. stored.key = Absent
      BY <2>4, <2>6 DEF BothExist, Whole, Identity, Absent
    <3>3. QED BY <2>1, <2>2, <2>3, <3>1, <3>2 DEF Repairable, Place, Whole, Running
  <2>7. QED BY <2>5, <2>6
<1>4. ASSUME NEW p \in Starters, Transfer(p) PROVE Repairable'
  <2>1. ~overlap /\ "midKey" \notin torn
    BY <1>4 DEF Transfer
  <2>2. starter[p].at \in Running /\ \A q \in Starters : q # p => starter'[q] = starter[q]
    BY <1>4 DEF Transfer, Save, Load, MoveTo, Running
  <2>3. \A q \in Starters : q # p => starter[q].at \notin Running
    BY <2>1, <2>2 DEF Repairable
  <2>4. Place(p) /\ \A q \in Starters : starter[q].at # "failed"
    BY <2>1 DEF Repairable, Place
  <2>5. CASE Save(p)
    <3>1. starter[p].own \in Identity
      BY <2>4, <2>5 DEF Place, Save
    <3>2. starter'[p].own = starter[p].own
      BY <2>5 DEF Save, MoveTo
    <3>3. CASE starter[p].at \in {"cert", "midCert"}
      BY <2>1, <2>2, <2>3, <2>4, <2>5, <3>1, <3>2, <3>3
         DEF Repairable, Place, Save, MoveTo, Running
    <3>4. CASE starter[p].at = "key"
      BY <2>1, <2>2, <2>3, <2>4, <2>5, <3>1, <3>2, <3>4
         DEF Repairable, Place, Save, MoveTo, Running
    <3>5. CASE starter[p].at = "midKey"
      BY <2>1, <2>2, <2>3, <2>4, <2>5, <3>1, <3>2, <3>5
         DEF Repairable, Place, Whole, Save, MoveTo, Running
    <3>6. QED BY <2>5, <3>3, <3>4, <3>5 DEF Save
  <2>6. CASE Load(p) /\ UNCHANGED stored
    <3>1. Whole /\ Whole'
      BY <2>4, <2>6 DEF Place, Load, Whole
    <3>2. starter'[p].at # "failed"
      BY <2>4, <2>6, <3>1 DEF Place, Load, MakesConfigs, Whole, Identity, Part
    <3>3. starter'[p].at \in {"readKey", "up"}
          /\ (starter'[p].at = "readKey" => starter'[p].cert = stored.cert)
      BY <2>6, <3>2 DEF Load
    <3>4. QED BY <2>1, <2>2, <2>3, <2>4, <2>6, <3>1, <3>3 DEF Repairable, Place, Running
  <2>7. QED BY <1>4, <2>5, <2>6 DEF Transfer
<1>5. ASSUME NEW p \in Starters, Crash(p) PROVE Repairable'
  <2>1. ~overlap /\ "midKey" \notin torn /\ starter[p].at # "midKey" /\ stored' = stored
    BY <1>5 DEF Crash, Running
  <2>2. starter'[p].at = "down" /\ \A q \in Starters : q # p => starter'[q] = starter[q]
    BY <1>5 DEF Crash, Down
  <2>3. QED BY <2>1, <2>2 DEF Repairable, Place, Whole, Running
<1>6. QED BY <1>1, <1>2, <1>3, <1>4, <1>5 DEF TlsNext, Repairable

(* load_or_generate_identity and save_identity under crashes: a daemon     *)
(* fails to load its identity only after a crash inside the write of the   *)
(* key, or when two daemons started at once.                               *)
THEOREM NextStartRepairs == TlsSpec => []RepairedUnlessMidKey
<1>1. TlsInit => TlsInv
  BY TlsInvInit
<1>2. TlsInv /\ [TlsNext]_tlsVars => TlsInv'
  BY TlsTypeStep, RepairableStep DEF TlsInv
<1>3. TlsInv => RepairedUnlessMidKey
  BY DEF TlsInv, Repairable, Place, RepairedUnlessMidKey
<1>4. QED BY <1>1, <1>2, <1>3, PTL DEF TlsSpec

-----------------------------------------------------------------------------

(***************************************************************************)
(* THE CONFIGURATION FILE.  Between two saves it holds what the user set   *)
(* last, for any number of changes, starts and deaths of both programs,    *)
(* but for the cases the property names.                                   *)
(***************************************************************************)
Copies == [rest : Int, links : Int, read : Nat]
Founders == {"first", "boot"}

ConfigTypeOK ==
  /\ toml \in [rest : Int, links : Int]
  /\ daemon \in [at : {"down", "boot", "up", "failed"}, config : Copies]
  /\ gui \in [at : {"off", "first", "on"}, config : Copies,
              linked : {"none", "live", "broken"}]
  /\ form \in Copies
  /\ saves \in [Saves -> [at : {"idle", "write", "middle", "answer"},
                          by : {"", "daemon", "gui", "orphan"},
                          base : Copies, value : Nat]]
  /\ changes \in Nat /\ writes \in Nat
  /\ last \in [Commands -> Nat]
  /\ wanted \in [rest : Nat, links : Nat]
  /\ spoilt \in BOOLEAN

Idle(s) == saves[s].at = "idle"

IdleEmpty == \A s \in Saves : Idle(s) => saves[s] = Unsaved
FreshBases == \A s \in Founders : saves[s].base = Unsaved.base

(* Who runs a save, and what he is meanwhile.                              *)
Owned ==
  /\ IdleEmpty /\ FreshBases
  /\ ~Idle("boot") => daemon.at = "boot" /\ saves["boot"].by = "daemon"
  /\ ~Idle("first") => gui.at = "first" /\ saves["first"].by = "gui"
  /\ gui.linked = "live" => gui.at = "on" /\ daemon.at = "up"
  /\ \A s \in Commands : ~Idle(s) =>
       \/ saves[s].by = "daemon" /\ gui.linked = "live"
       \/ saves[s].by = "gui" /\ gui.at = "on"
       \/ saves[s].by = "orphan"
  /\ saves["save"].by = "daemon" => saves["layout"].by # "daemon"

(* The file is cut short exactly while one save is in the middle.          *)
OneWriter ==
  /\ \A s, t \in Saves : InMiddle(s) /\ InMiddle(t) => s = t
  /\ toml = TornToml <=> \E s \in Saves : InMiddle(s)
  /\ KeepsSaves

(* While there is no file, there is nobody who could have had it read;     *)
(* nor before the first of those who create it has written it.             *)
Unread ==
  /\ gui.at # "on" /\ daemon.at # "up"
  /\ \A s \in Commands : Idle(s)
Founding ==
  /\ toml = NoToml => writes = 0 /\ Unread
  /\ (\E s \in Founders : ~Idle(s)) =>
       /\ writes = 0 => Unread /\ toml \in {NoToml, TornToml}
       /\ \A t \in Commands : last[t] # 1
  /\ \A s \in Founders : saves[s].at = "answer" => writes >= 1

(* The saves of either command, by number.                                 *)
Numbered ==
  /\ \A t \in Commands : last[t] <= writes
  /\ last["save"] = last["layout"] => last["save"] = 0
  /\ last["save"] = 0 => wanted.rest = 0
  /\ last["layout"] = 0 => wanted.links = 0

(* A copy is right in what no save has set since it was read.              *)
RestOK(c) == c.read <= writes /\ (last["save"] <= c.read => c.rest = wanted.rest)
LinksOK(c) == last["layout"] <= c.read => c.links = wanted.links
Right(c) == RestOK(c) /\ LinksOK(c)

Ahead == saves["layout"].by = "gui" /\ InMiddle("layout")
AllRight ==
  /\ Right(daemon.config)
  /\ form # NoForm => Right(form)
  /\ \A s \in Saves : Right(saves[s].base)
  /\ RestOK(gui.config)
  /\ IF Ahead THEN gui.config.links = saves["layout"].value ELSE LinksOK(gui.config)

(* What the GUI's copy is going to be is right.                            *)
Following ==
  /\ saves["save"].at = "answer" =>
       /\ saves["save"].base.read < last["save"]
       /\ saves["save"].base.read + 1 = writes => wanted = NewConfig("save")
  /\ saves["layout"].at = "answer" /\ saves["layout"].by # "orphan" =>
       /\ wanted.links = saves["layout"].value
       /\ gui.config.read < last["layout"]
       /\ saves["layout"].by = "daemon" /\ saves["save"].by = "gui" =>
            saves["save"].base.read < last["layout"]

ConfigInv ==
  /\ ConfigTypeOK /\ Owned
  /\ ~spoilt => OneWriter /\ Founding /\ Numbered /\ AllRight /\ Following

LEMMA SaveNames ==
  /\ Saves = {"save", "layout", "first", "boot"}
  /\ Commands = {"save", "layout"} /\ Founders = {"first", "boot"}
  /\ Commands \subseteq Saves /\ Founders \subseteq Saves
BY DEF Saves, Commands, Founders

LEMMA UnsavedFacts ==
  /\ Unsaved \in [at : {"idle", "write", "middle", "answer"},
                  by : {"", "daemon", "gui", "orphan"}, base : Copies, value : Nat]
  /\ Unsaved.at = "idle" /\ Unsaved.by = ""
  /\ Unsaved.base = [rest |-> 0, links |-> 0, read |-> 0]
BY DEF Unsaved, Copy, DefaultConfig, Copies

LEMMA SaveTyped ==
  ASSUME ConfigTypeOK, NEW s \in Saves
  PROVE  saves[s] \in [at : {"idle", "write", "middle", "answer"},
                       by : {"", "daemon", "gui", "orphan"}, base : Copies, value : Nat]
BY DEF ConfigTypeOK

LEMMA SaveNumbers ==
  ASSUME ConfigTypeOK, NEW s \in Saves
  PROVE  /\ saves[s].base.rest \in Int /\ saves[s].base.links \in Int
         /\ saves[s].base.read \in Nat /\ saves[s].value \in Nat /\ saves[s].value \in Int
<1>1. saves[s].value \in Nat
  BY SaveTyped
<1>2. saves[s].base \in Copies
  BY SaveTyped
<1>3. QED
  BY <1>1, <1>2 DEF Copies

(* One save changes.                                                       *)
LEMMA OneChanges ==
  ASSUME ConfigTypeOK, NEW s \in Saves,
         NEW v \in [at : {"idle", "write", "middle", "answer"},
                    by : {"", "daemon", "gui", "orphan"}, base : Copies, value : Nat],
         saves' = [saves EXCEPT ![s] = v]
  PROVE  /\ saves' \in [Saves -> [at : {"idle", "write", "middle", "answer"},
                                  by : {"", "daemon", "gui", "orphan"},
                                  base : Copies, value : Nat]]
         /\ saves'[s] = v
         /\ \A t \in Saves \ {s} : saves'[t] = saves[t]
BY DEF ConfigTypeOK

LEMMA Numbers ==
  ASSUME ConfigTypeOK
  PROVE  /\ writes \in Nat /\ changes \in Nat /\ writes <= writes
         /\ \A t \in Commands : last[t] \in Nat
         /\ last["save"] \in Nat /\ last["layout"] \in Nat
         /\ wanted.rest \in Nat /\ wanted.links \in Nat
<1>1. writes \in Nat /\ changes \in Nat
  BY DEF ConfigTypeOK
<1>2. \A t \in Commands : last[t] \in Nat
  BY DEF ConfigTypeOK
<1>3. wanted.rest \in Nat /\ wanted.links \in Nat
  BY DEF ConfigTypeOK
<1>4. QED
  BY <1>1, <1>2, <1>3, SaveNames

LEMMA CopyTyped ==
  ASSUME NEW c \in [rest : Int, links : Int], NEW n \in Nat
  PROVE  /\ Copy(c, n) \in Copies
         /\ Copy(c, n).rest = c.rest /\ Copy(c, n).links = c.links /\ Copy(c, n).read = n
BY DEF Copy, Copies

LEMMA DefaultTyped ==
  /\ DefaultConfig \in [rest : Int, links : Int] /\ DefaultConfig \in [rest : Nat, links : Nat]
  /\ DefaultConfig.rest = 0 /\ DefaultConfig.links = 0
  /\ NoToml \in [rest : Int, links : Int] /\ TornToml \in [rest : Int, links : Int]
  /\ NoToml # TornToml /\ NoToml \notin [rest : Nat, links : Nat]
  /\ TornToml \notin [rest : Nat, links : Nat]
  /\ NoForm \in Copies
<1>1. NoToml.rest = -1 /\ TornToml.rest = -2 /\ -1 # -2 /\ -1 \notin Nat /\ -2 \notin Nat
  BY DEF NoToml, TornToml
<1>2. DefaultConfig.rest = 0 /\ DefaultConfig.links = 0
  BY DEF DefaultConfig
<1>3. /\ NoToml \in [rest : Int, links : Int] /\ TornToml \in [rest : Int, links : Int]
      /\ DefaultConfig \in [rest : Int, links : Int] /\ DefaultConfig \in [rest : Nat, links : Nat]
  BY DEF NoToml, TornToml, DefaultConfig
<1>4. NoForm \in Copies
  BY <1>3, CopyTyped DEF NoForm
<1>5. QED
  BY <1>1, <1>2, <1>3, <1>4

LEMMA NewIs ==
  /\ NewConfig("save") = [rest |-> saves["save"].value, links |-> saves["save"].base.links]
  /\ NewConfig("layout") = [rest |-> saves["layout"].base.rest, links |-> saves["layout"].value]
  /\ \A s \in Founders : NewConfig(s) = DefaultConfig
BY DEF NewConfig, Founders

LEMMA NewStays ==
  ASSUME saves'["save"] = saves["save"]
  PROVE  NewConfig("save")' = NewConfig("save")
BY DEF NewConfig

LEMMA NewTyped ==
  ASSUME ConfigTypeOK, NEW s \in Saves
  PROVE  NewConfig(s) \in [rest : Int, links : Int]
<1>1. \A v, w \in Int : [rest |-> v, links |-> w] \in [rest : Int, links : Int]
  OBVIOUS
<1>2. CASE s = "save"
  <2>1. saves[s].value \in Int /\ saves[s].base.links \in Int
    BY SaveNumbers
  <2>2. NewConfig(s) = [rest |-> saves[s].value, links |-> saves[s].base.links]
    BY <1>2, NewIs
  <2>3. QED
    BY <1>1, <2>1, <2>2
<1>3. CASE s = "layout"
  <2>1. saves[s].value \in Int /\ saves[s].base.rest \in Int
    BY SaveNumbers
  <2>2. NewConfig(s) = [rest |-> saves[s].base.rest, links |-> saves[s].value]
    BY <1>3, NewIs
  <2>3. QED
    BY <1>1, <2>1, <2>2
<1>4. CASE s \in Founders
  BY <1>4, NewIs, DefaultTyped
<1>5. QED
  BY <1>2, <1>3, <1>4, SaveNames

LEMMA ConfigInvInit == ConfigInit => ConfigInv
<1> SUFFICES ASSUME ConfigInit PROVE ConfigInv
  OBVIOUS
<1>a. Copy(DefaultConfig, 0) = [rest |-> 0, links |-> 0, read |-> 0]
  BY DEF Copy, DefaultConfig
<1>b. Copy(DefaultConfig, 0) \in Copies
  BY <1>a DEF Copies
<1>c. \A s \in Saves : saves[s] = Unsaved
  BY DEF ConfigInit
<1>d. last = [s \in Commands |-> 0] /\ last["save"] = 0 /\ last["layout"] = 0
  BY SaveNames DEF ConfigInit
<1>e. wanted.rest = 0 /\ wanted.links = 0 /\ writes = 0 /\ toml \in {NoToml, wanted}
  BY DefaultTyped DEF ConfigInit
<1>1. ConfigTypeOK
  <2>1. saves \in [Saves -> [at : {"idle", "write", "middle", "answer"},
                             by : {"", "daemon", "gui", "orphan"}, base : Copies, value : Nat]]
    BY UnsavedFacts DEF ConfigInit
  <2>2. last \in [Commands -> Nat]
    BY <1>d
  <2>3. QED
    BY <2>1, <2>2, <1>b, DefaultTyped DEF ConfigInit, ConfigTypeOK
<1>2. Owned
  BY <1>c, UnsavedFacts, SaveNames DEF ConfigInit, Owned, IdleEmpty, FreshBases, Idle
<1>3. OneWriter
  BY <1>c, <1>e, UnsavedFacts, DefaultTyped, <1>1 DEF OneWriter, InMiddle, KeepsSaves, ConfigTypeOK
<1>4. Founding
  BY <1>c, <1>e, UnsavedFacts, SaveNames DEF ConfigInit, Founding, Unread, Idle
<1>5. Numbered
  BY <1>d, <1>e, SaveNames DEF Numbered
<1>6. Right(Copy(DefaultConfig, 0))
  BY <1>a, <1>e DEF Right, RestOK, LinksOK
<1>7. AllRight
  BY <1>6, <1>c, UnsavedFacts, SaveNames
     DEF ConfigInit, AllRight, Right, Ahead, InMiddle, Unsaved
<1>8. Following
  BY <1>c, UnsavedFacts, SaveNames DEF Following
<1>9. QED
  BY <1>1, <1>2, <1>3, <1>4, <1>5, <1>7, <1>8 DEF ConfigInv

-----------------------------------------------------------------------------
(* LOADING AND LINKING *)

(* A file that is there and whole is what is wanted.                       *)
LEMMA WholeFile ==
  ASSUME ConfigInv, ~spoilt, toml \notin {NoToml, TornToml}
  PROVE  /\ Right(Copy(toml, writes))
         /\ (\E s \in Founders : ~Idle(s)) => writes # 0
<1>1. toml = wanted
  BY DEF ConfigInv, OneWriter, KeepsSaves
<1>2. Copy(toml, writes).rest = wanted.rest /\ Copy(toml, writes).links = wanted.links
      /\ Copy(toml, writes).read = writes
  BY <1>1 DEF Copy
<1>3. writes <= writes
  BY Numbers DEF ConfigInv
<1>4. Right(Copy(toml, writes))
  BY <1>2, <1>3 DEF Right, RestOK, LinksOK
<1>5. (\E s \in Founders : ~Idle(s)) => writes # 0
  BY DEF ConfigInv, Founding
<1>6. QED
  BY <1>4, <1>5

(* The defaults are what is wanted while nothing has been saved.           *)
LEMMA Defaults ==
  ASSUME ConfigInv, ~spoilt, NEW n \in Nat, n <= writes,
         \A t \in Commands : last[t] <= n => last[t] = 0
  PROVE  Right(Copy(DefaultConfig, n))
<1>1. Copy(DefaultConfig, n) = [rest |-> 0, links |-> 0, read |-> n]
  BY DEF Copy, DefaultConfig
<1>2. Numbered
  BY DEF ConfigInv
<1>3. QED
  BY <1>1, <1>2, SaveNames DEF Right, RestOK, LinksOK, Numbered

LEMMA NoFileYet ==
  ASSUME ConfigInv, ~spoilt, toml = NoToml
  PROVE  /\ writes = 0 /\ Unread
         /\ \A t \in Commands : last[t] = 0
         /\ \A s \in Saves : ~InMiddle(s)
<1>1. writes = 0 /\ Unread
  BY DEF ConfigInv, Founding
<1>2. \A t \in Commands : last[t] \in Nat /\ last[t] <= 0
  BY <1>1 DEF ConfigInv, ConfigTypeOK, Numbered
<1>3. \A s \in Saves : ~InMiddle(s)
  BY DefaultTyped DEF ConfigInv, OneWriter
<1>4. QED
  BY <1>1, <1>2, <1>3

LEMMA CreateFacts ==
  ASSUME NEW by \in {"daemon", "gui"}
  PROVE  /\ Create(by) \in [at : {"idle", "write", "middle", "answer"},
                            by : {"", "daemon", "gui", "orphan"}, base : Copies, value : Nat]
         /\ Create(by).at = "write" /\ Create(by).by = by /\ Create(by).base = Unsaved.base
BY UnsavedFacts DEF Create, Unsaved

LEMMA DaemonLoadsKeeps ==
  ASSUME ConfigInv, DaemonLoads
  PROVE  ConfigInv'
<1> USE DEF ConfigInv
<1>a. Idle("boot") /\ gui.linked # "live"
  BY DEF DaemonLoads, Owned
<1>b. UNCHANGED <<toml, gui, form, changes, writes, last, wanted>>
  BY DEF DaemonLoads
<1>c. \A t \in Commands : ~Idle(t) => saves[t].by # "daemon"
  BY <1>a DEF Owned
<1>1. CASE toml = NoToml
  <2>1. /\ daemon' = [daemon EXCEPT !.at = "boot"]
        /\ saves' = [saves EXCEPT !["boot"] = Create("daemon")] /\ UNCHANGED spoilt
    BY <1>1, DefaultTyped DEF DaemonLoads
  <2>2. /\ saves' \in [Saves -> [at : {"idle", "write", "middle", "answer"},
                                  by : {"", "daemon", "gui", "orphan"},
                                  base : Copies, value : Nat]]
        /\ saves'["boot"] = Create("daemon")
        /\ \A t \in Saves \ {"boot"} : saves'[t] = saves[t]
    BY <2>1, OneChanges, CreateFacts, SaveNames
  <2>3. ConfigTypeOK' /\ daemon'.at = "boot" /\ daemon'.config = daemon.config
    BY <2>1, <2>2, <1>b DEF ConfigTypeOK
  <2>4. Owned'
    <3>1. \A s \in Commands : saves'[s] = saves[s]
      BY <2>2, SaveNames
    <3>2. saves'["first"] = saves["first"] /\ ~Idle("boot")'
      BY <2>2, CreateFacts, SaveNames DEF Idle
    <3>3. \A s \in Saves : Idle(s)' => saves'[s] = Unsaved
      <4>1. IdleEmpty /\ saves'["boot"].at # "idle"
        BY <2>2, CreateFacts DEF Owned
      <4>2. QED
        BY <4>1, <2>2 DEF Idle, IdleEmpty
    <3>4. \A s \in Founders : saves'[s].base = Unsaved.base
      <4>1. FreshBases /\ saves'["boot"].base = Unsaved.base
        BY <2>2, CreateFacts DEF Owned
      <4>2. QED
        BY <4>1, <3>2, SaveNames DEF FreshBases
    <3>5. saves'["boot"].by = "daemon"
      BY <2>2, CreateFacts
    <3>6. \A s \in Commands : Idle(s)' <=> Idle(s)
      BY <3>1 DEF Idle
    <3>7. gui'.linked # "live"
      BY <1>a, <1>b
    <3>8. (\A s \in Commands : ~Idle(s) =>
             \/ saves[s].by = "daemon" /\ gui.linked = "live"
             \/ saves[s].by = "gui" /\ gui.at = "on"
             \/ saves[s].by = "orphan")'
      BY <3>1, <3>6, <1>b DEF Owned
    <3>9. ~Idle("first")' => gui'.at = "first" /\ saves'["first"].by = "gui"
      BY <3>2, <1>b DEF Owned, IdleEmpty, FreshBases, Idle
    <3>10. saves'["save"].by = "daemon" => saves'["layout"].by # "daemon"
      BY <3>1, SaveNames DEF Owned
    <3>11. QED
      BY <3>3, <3>4, <3>5, <3>7, <3>8, <3>9, <3>10, <2>3 DEF Owned, IdleEmpty, FreshBases
  <2>5. ASSUME ~spoilt' PROVE OneWriter' /\ Founding' /\ Numbered' /\ AllRight' /\ Following'
    <3>1. ~spoilt
      BY <2>5, <2>1
    <3>2. /\ writes = 0 /\ Unread
          /\ \A t \in Commands : last[t] = 0
          /\ \A s \in Saves : ~InMiddle(s)
      BY <1>1, <3>1, NoFileYet
    <3>3. \A s \in Saves : ~InMiddle(s)'
      BY <3>2, <2>2, CreateFacts DEF InMiddle
    <3>4. OneWriter'
      BY <3>1, <3>2, <3>3, <1>1, <1>b, DefaultTyped DEF OneWriter, KeepsSaves
    <3>5. Unread'
      BY <3>2, <2>2, <2>3, <1>b, SaveNames DEF Unread, Idle
    <3>6. Founding'
      <4>1. \A t \in Commands : last'[t] # 1
        BY <3>2, <1>b
      <4>2. \A s \in Founders : saves'[s].at = "answer" => writes' >= 1
        <5>1. ASSUME NEW s \in Founders, saves'[s].at = "answer" PROVE saves[s].at = "answer"
          BY <5>1, <2>2, CreateFacts, SaveNames
        <5>2. QED
          BY <5>1, <3>1, <1>b DEF Founding
      <4>3. toml' \in {NoToml, TornToml} /\ writes' = 0
        BY <3>2, <1>1, <1>b
      <4>4. QED
        BY <4>1, <4>2, <4>3, <3>5 DEF Founding
    <3>7. Numbered'
      BY <3>1, <1>b DEF Numbered
    <3>8. AllRight'
      <4>1. \A s \in Saves : saves'[s].base = saves[s].base
        <5>1. FreshBases /\ saves'["boot"].base = Unsaved.base
          BY <2>2, CreateFacts DEF Owned
        <5>2. saves["boot"].base = saves'["boot"].base
          BY <5>1, SaveNames DEF FreshBases
        <5>3. QED
          BY <2>2, <5>2
      <4>2. saves'["layout"] = saves["layout"]
        BY <2>2, SaveNames
      <4>3. Ahead' <=> Ahead
        BY <4>2 DEF Ahead, InMiddle
      <4>4. AllRight
        BY <3>1
      <4>5. QED
        BY <4>1, <4>2, <4>3, <4>4, <1>b, <2>3 DEF AllRight, Right, RestOK, LinksOK
    <3>9. Following'
      BY <3>1, <1>b, <2>2, SaveNames DEF Following, NewConfig
    <3>10. QED
      BY <3>4, <3>6, <3>7, <3>8, <3>9
  <2>6. QED
    BY <2>3, <2>4, <2>5
<1>2. CASE toml = TornToml
  <2>1. daemon' = [daemon EXCEPT !.at = "failed"] /\ spoilt' = TRUE /\ UNCHANGED saves
    BY <1>2, DefaultTyped DEF DaemonLoads
  <2>2. ConfigTypeOK'
    BY <2>1, <1>b DEF ConfigTypeOK
  <2>3. daemon'.at = "failed"
    BY <2>1 DEF ConfigTypeOK
  <2>4. Owned'
    BY <2>1, <2>3, <1>a, <1>b DEF Owned, IdleEmpty, FreshBases, Idle
  <2>5. QED
    BY <2>1, <2>2, <2>4
<1>3. CASE toml \notin {NoToml, TornToml}
  <2>1. daemon' = [at |-> "up", config |-> Copy(toml, writes)] /\ UNCHANGED <<saves, spoilt>>
    BY <1>3 DEF DaemonLoads
  <2>2. ConfigTypeOK'
    BY <2>1, <1>b, CopyTyped DEF ConfigTypeOK
  <2>3. Owned'
    BY <2>1, <1>a, <1>b DEF Owned, IdleEmpty, FreshBases, Idle
  <2>4. ASSUME ~spoilt' PROVE OneWriter' /\ Founding' /\ Numbered' /\ AllRight' /\ Following'
    <3>1. ~spoilt
      BY <2>4, <2>1
    <3>2. Right(Copy(toml, writes)) /\ ((\E s \in Founders : ~Idle(s)) => writes # 0)
      BY <3>1, <1>3, WholeFile
    <3>3. OneWriter'
      BY <3>1, <1>b, <2>1 DEF OneWriter, KeepsSaves, InMiddle
    <3>4. Founding'
      BY <3>1, <3>2, <1>3, <1>b, <2>1 DEF Founding, Idle
    <3>5. Numbered'
      BY <3>1, <1>b DEF Numbered
    <3>6. AllRight'
      BY <3>1, <3>2, <1>b, <2>1
         DEF AllRight, Right, RestOK, LinksOK, Ahead, InMiddle
    <3>7. Following'
      BY <3>1, <1>b, <2>1 DEF Following, NewConfig
    <3>8. QED
      BY <3>3, <3>4, <3>5, <3>6, <3>7
  <2>5. QED
    BY <2>2, <2>3, <2>4
<1>4. QED
  BY <1>1, <1>2, <1>3

LEMMA GuiLoadsKeeps ==
  ASSUME ConfigInv, GuiLoads
  PROVE  ConfigInv'
<1> USE DEF ConfigInv
<1>a. /\ Idle("first") /\ gui.linked # "live" /\ gui.at = "off"
      /\ \A t \in Commands : ~Idle(t) => saves[t].by = "orphan"
  BY DEF GuiLoads, Owned
<1>b. UNCHANGED <<toml, daemon, form, changes, writes, last, wanted>>
  BY DEF GuiLoads
<1>c. ~Ahead
  BY <1>a, SaveNames DEF Ahead, InMiddle, Idle
<1>d. ~(saves["layout"].at = "answer" /\ saves["layout"].by # "orphan")
  BY <1>a, SaveNames DEF Idle
<1>1. CASE toml = NoToml
  <2>1. /\ gui' = [gui EXCEPT !.at = "first", !.config = Copy(DefaultConfig, writes)]
        /\ saves' = [saves EXCEPT !["first"] = Create("gui")] /\ UNCHANGED spoilt
    BY <1>1, DefaultTyped DEF GuiLoads
  <2>2. /\ saves' \in [Saves -> [at : {"idle", "write", "middle", "answer"},
                                  by : {"", "daemon", "gui", "orphan"},
                                  base : Copies, value : Nat]]
        /\ saves'["first"] = Create("gui")
        /\ \A t \in Saves \ {"first"} : saves'[t] = saves[t]
    BY <2>1, OneChanges, CreateFacts, SaveNames
  <2>c. Copy(DefaultConfig, writes) \in Copies
    BY CopyTyped, DefaultTyped, Numbers
  <2>3. /\ gui' \in [at : {"off", "first", "on"}, config : Copies,
                     linked : {"none", "live", "broken"}]
        /\ gui'.at = "first" /\ gui'.config = Copy(DefaultConfig, writes)
        /\ gui'.linked = gui.linked
    BY <2>1, <2>c DEF ConfigTypeOK
  <2>4. ConfigTypeOK'
    BY <2>1, <2>2, <2>3, <1>b DEF ConfigTypeOK
  <2>o. Owned'
    <3>1. \A s \in Commands : saves'[s] = saves[s]
      BY <2>2, SaveNames
    <3>2. saves'["boot"] = saves["boot"] /\ saves'["first"].at # "idle" /\ saves'["first"].by = "gui"
      BY <2>2, CreateFacts, SaveNames
    <3>3. IdleEmpty'
      <4>1. IdleEmpty
        BY DEF Owned
      <4>2. QED
        BY <4>1, <3>2, <2>2 DEF Idle, IdleEmpty
    <3>4. FreshBases'
      <4>1. FreshBases /\ saves'["first"].base = Unsaved.base
        BY <2>2, CreateFacts DEF Owned
      <4>2. QED
        BY <4>1, <3>2, SaveNames DEF FreshBases
    <3>5. \A s \in Commands : ~Idle(s)' => saves'[s].by = "orphan"
      BY <3>1, <1>a DEF Idle
    <3>6. ~Idle("boot")' => daemon'.at = "boot" /\ saves'["boot"].by = "daemon"
      BY <3>2, <1>b DEF Owned, Idle
    <3>7. saves'["save"].by = "daemon" => saves'["layout"].by # "daemon"
      BY <3>1, SaveNames DEF Owned
    <3>8. QED
      BY <3>2, <3>3, <3>4, <3>5, <3>6, <3>7, <2>3, <1>a DEF Owned
  <2>5. ASSUME ~spoilt' PROVE OneWriter' /\ Founding' /\ Numbered' /\ AllRight' /\ Following'
    <3>1. ~spoilt
      BY <2>5, <2>1
    <3>2. /\ writes = 0 /\ Unread
          /\ \A t \in Commands : last[t] = 0
          /\ \A s \in Saves : ~InMiddle(s)
      BY <1>1, <3>1, NoFileYet
    <3>3. \A s \in Saves : ~InMiddle(s)'
      BY <3>2, <2>2, CreateFacts DEF InMiddle
    <3>4. OneWriter'
      BY <3>1, <3>2, <3>3, <1>1, <1>b, DefaultTyped DEF OneWriter, KeepsSaves
    <3>5. Unread'
      BY <3>2, <2>2, <2>3, <1>b, SaveNames DEF Unread, Idle
    <3>6. Founding'
      <4>1. \A t \in Commands : last'[t] # 1
        BY <3>2, <1>b
      <4>2. \A s \in Founders : saves'[s].at = "answer" => writes' >= 1
        <5>1. ASSUME NEW s \in Founders, saves'[s].at = "answer" PROVE saves[s].at = "answer"
          BY <5>1, <2>2, CreateFacts, SaveNames
        <5>2. QED
          BY <5>1, <3>1, <1>b DEF Founding
      <4>3. toml' \in {NoToml, TornToml} /\ writes' = 0
        BY <3>2, <1>1, <1>b
      <4>4. QED
        BY <4>1, <4>2, <4>3, <3>5 DEF Founding
    <3>7. Numbered'
      BY <3>1, <1>b DEF Numbered
    <3>8. AllRight'
      <4>1. \A s \in Saves : saves'[s].base = saves[s].base
        <5>1. FreshBases /\ saves'["first"].base = Unsaved.base
          BY <2>2, CreateFacts DEF Owned
        <5>2. saves["first"].base = saves'["first"].base
          BY <5>1, SaveNames DEF FreshBases
        <5>3. QED
          BY <2>2, <5>2
      <4>2. saves'["layout"] = saves["layout"]
        BY <2>2, SaveNames
      <4>3. ~Ahead'
        BY <4>2, <1>c DEF Ahead, InMiddle
      <4>4. AllRight
        BY <3>1
      <4>5. Right(Copy(DefaultConfig, writes))
        BY <3>1, <3>2, Numbers, Defaults
      <4>6. QED
        BY <4>1, <4>3, <4>4, <4>5, <1>b, <2>3 DEF AllRight, Right, RestOK, LinksOK
    <3>9. Following'
      BY <3>1, <1>b, <1>d, <2>2, SaveNames DEF Following, NewConfig
    <3>10. QED
      BY <3>4, <3>6, <3>7, <3>8, <3>9
  <2>6. QED
    BY <2>4, <2>o, <2>5
<1>2. CASE toml # NoToml
  <2>1. PICK c \in Copies : /\ gui' = [gui EXCEPT !.at = "on", !.config = c]
                            /\ UNCHANGED saves
                            /\ ~spoilt' => ~spoilt /\ toml # TornToml /\ c = Copy(toml, writes)
    <3>1. Copy(DefaultConfig, writes) \in Copies /\ Copy(toml, writes) \in Copies
      BY CopyTyped, DefaultTyped, Numbers DEF ConfigTypeOK
    <3>2. CASE toml = TornToml
      <4>1. /\ gui' = [gui EXCEPT !.at = "on", !.config = Copy(DefaultConfig, writes)]
            /\ UNCHANGED saves /\ spoilt' = TRUE
        BY <1>2, <3>2, DefaultTyped DEF GuiLoads
      <4>2. QED
        BY <4>1, <3>1
    <3>3. CASE toml # TornToml
      <4>1. /\ gui' = [gui EXCEPT !.at = "on", !.config = Copy(toml, writes)]
            /\ UNCHANGED <<saves, spoilt>>
        BY <1>2, <3>3, DefaultTyped DEF GuiLoads
      <4>2. QED
        BY <4>1, <3>1, <3>3
    <3>4. QED
      BY <3>2, <3>3
  <2>2. /\ gui' \in [at : {"off", "first", "on"}, config : Copies,
                     linked : {"none", "live", "broken"}]
        /\ gui'.at = "on" /\ gui'.config = c /\ gui'.linked = gui.linked
    BY <2>1 DEF ConfigTypeOK
  <2>s. spoilt' \in BOOLEAN
    BY DEF GuiLoads, ConfigTypeOK
  <2>3. ConfigTypeOK'
    BY <2>1, <2>2, <2>s, <1>b DEF ConfigTypeOK
  <2>4. Owned'
    BY <2>1, <2>2, <1>a, <1>b DEF Owned, IdleEmpty, FreshBases, Idle
  <2>5. ASSUME ~spoilt' PROVE OneWriter' /\ Founding' /\ Numbered' /\ AllRight' /\ Following'
    <3>1. ~spoilt /\ toml \notin {NoToml, TornToml} /\ c = Copy(toml, writes)
      BY <2>5, <2>1, <1>2
    <3>2. Right(c) /\ ((\E s \in Founders : ~Idle(s)) => writes # 0)
      BY <3>1, WholeFile
    <3>3. OneWriter'
      BY <2>5, <3>1, <1>b, <2>1 DEF OneWriter, KeepsSaves, InMiddle
    <3>4. Founding'
      BY <3>1, <3>2, <1>b, <2>1 DEF Founding, Idle
    <3>5. Numbered'
      BY <3>1, <1>b DEF Numbered
    <3>6. AllRight'
      <4>1. AllRight /\ ~Ahead'
        BY <3>1, <1>c, <2>1 DEF Ahead, InMiddle
      <4>2. QED
        BY <4>1, <3>2, <1>b, <2>1, <2>2 DEF AllRight, Right, RestOK, LinksOK
    <3>7. Following'
      BY <3>1, <1>b, <1>d, <2>1 DEF Following, NewConfig
    <3>8. QED
      BY <3>3, <3>4, <3>5, <3>6, <3>7
  <2>6. QED
    BY <2>3, <2>4, <2>5
<1>3. QED
  BY <1>1, <1>2

(* Steps that only move copies between the GUI, its page and the daemon.   *)
LEMMA GuiAsksKeeps ==
  ASSUME ConfigInv, GuiLinks \/ GetConfig
  PROVE  ConfigInv'
<1> USE DEF ConfigInv
<1>1. /\ UNCHANGED <<toml, daemon, saves, changes, writes, last, wanted, spoilt>>
      /\ gui.at = "on"
  BY DEF GuiLinks, GetConfig, MayCall, ghosts
<1>2. PICK l \in {"none", "live"} :
        /\ gui' = [gui EXCEPT !.linked = l]
        /\ l = "live" => daemon.at = "up"
        /\ gui.linked = "live" => l = "live"
  BY DEF GuiLinks, GetConfig, MayCall, Tried, Asked, Owned
<1>3. /\ gui' \in [at : {"off", "first", "on"}, config : Copies,
                   linked : {"none", "live", "broken"}]
      /\ gui'.at = "on" /\ gui'.config = gui.config /\ gui'.linked = l
  BY <1>1, <1>2 DEF ConfigTypeOK
<1>4. form' \in {form, daemon.config, gui.config} /\ (form' = gui.config => form' = form \/ ~Ahead \/ form' = daemon.config)
  BY DEF GuiLinks, GetConfig, Lockable, Ahead, InMiddle
<1>5. ConfigTypeOK'
  BY <1>1, <1>3, <1>4 DEF ConfigTypeOK
<1>6. Owned'
  BY <1>1, <1>2, <1>3 DEF Owned, IdleEmpty, FreshBases, Idle
<1>7. ASSUME ~spoilt' PROVE OneWriter' /\ Founding' /\ Numbered' /\ AllRight' /\ Following'
  <2>1. ~spoilt
    BY <1>7, <1>1
  <2>2. OneWriter'
    BY <2>1, <1>1 DEF OneWriter, KeepsSaves, InMiddle
  <2>3. Founding'
    BY <2>1, <1>1, <1>3 DEF Founding, Unread, Idle
  <2>4. Numbered'
    BY <2>1, <1>1 DEF Numbered
  <2>5. AllRight'
    <3>1. AllRight
      BY <2>1
    <3>2. form' # NoForm => Right(form')
      BY <3>1, <1>4 DEF AllRight, Right
    <3>3. QED
      BY <3>1, <3>2, <1>1, <1>3 DEF AllRight, Right, RestOK, LinksOK, Ahead, InMiddle
  <2>6. Following'
    BY <2>1, <1>1, <1>3 DEF Following, NewConfig
  <2>7. QED
    BY <2>2, <2>3, <2>4, <2>5, <2>6
<1>8. QED
  BY <1>5, <1>6, <1>7

-----------------------------------------------------------------------------
(* THE STEPS OF A SAVE *)

LEMMA CallKeeps ==
  ASSUME ConfigInv, NEW s \in Commands, Call(s)
  PROVE  ConfigInv'
<1> USE DEF ConfigInv
<1>1. /\ gui.at = "on" /\ Idle(s) /\ (s = "save" => form # NoForm)
      /\ Asked => ~DaemonBusy
      /\ UNCHANGED <<toml, daemon, form, writes, last, wanted, spoilt>>
      /\ changes' = changes + 1
  BY DEF Call, MayCall, ghosts, Idle
<1>s. s \in Saves /\ s \in {"save", "layout"}
  BY SaveNames
<1>2. PICK v : v = [at |-> "write", by |-> IF Asked THEN "daemon" ELSE "gui",
                    base |-> IF s = "save" THEN form ELSE daemon.config,
                    value |-> changes + 1]
  OBVIOUS
<1>3. saves' = [saves EXCEPT ![s] = v]
  BY <1>2 DEF Call
<1>4. v \in [at : {"idle", "write", "middle", "answer"},
             by : {"", "daemon", "gui", "orphan"}, base : Copies, value : Nat]
  <2>1. changes + 1 \in Nat
    BY Numbers
  <2>2. form \in Copies /\ daemon.config \in Copies
    BY DEF ConfigTypeOK
  <2>3. QED
    BY <1>2, <2>1, <2>2
<1>5. /\ saves' \in [Saves -> [at : {"idle", "write", "middle", "answer"},
                                by : {"", "daemon", "gui", "orphan"},
                                base : Copies, value : Nat]]
      /\ saves'[s] = v
      /\ \A t \in Saves \ {s} : saves'[t] = saves[t]
  BY <1>3, <1>4, <1>s, OneChanges
<1>6. PICK l \in {"none", "live"} :
        gui' = [gui EXCEPT !.linked = l] /\ (l = "live" <=> Asked)
  BY DEF Call, Tried, Asked
<1>7. /\ gui' \in [at : {"off", "first", "on"}, config : Copies,
                   linked : {"none", "live", "broken"}]
      /\ gui'.at = "on" /\ gui'.config = gui.config /\ gui'.linked = l
  BY <1>1, <1>6 DEF ConfigTypeOK
<1>8. ConfigTypeOK'
  <2>1. changes' \in Nat
    BY <1>1, Numbers
  <2>2. QED
    BY <1>1, <1>5, <1>7, <2>1 DEF ConfigTypeOK
<1>9. Asked => \A t \in Commands : saves[t].by # "daemon"
  BY <1>1, UnsavedFacts, SaveNames DEF DaemonBusy, Owned, IdleEmpty, Idle
<1>10. ~Asked => \A t \in Commands : saves[t].by # "daemon"
  BY UnsavedFacts, SaveNames DEF Asked, Owned, IdleEmpty, Idle
<1>11. v.at = "write" /\ ((v.by = "daemon" /\ Asked) \/ (v.by = "gui" /\ ~Asked))
  <2>1. CASE Asked
    <3>1. v.at = "write" /\ v.by = "daemon"
      BY <1>2, <2>1
    <3>2. QED
      BY <2>1, <3>1
  <2>2. CASE ~Asked
    <3>1. v.at = "write" /\ v.by = "gui"
      BY <1>2, <2>2
    <3>2. QED
      BY <2>2, <3>1
  <2>3. QED
    BY <2>1, <2>2
<1>12. \A t \in Founders : saves'[t] = saves[t]
  BY <1>5, SaveNames
<1>13. Owned'
  <2>1. IdleEmpty'
    <3>1. ASSUME NEW t \in Saves, Idle(t)' PROVE saves'[t] = Unsaved
      <4>1. t # s
        BY <3>1, <1>5, <1>11 DEF Idle
      <4>2. saves'[t] = saves[t] /\ Idle(t)
        BY <3>1, <4>1, <1>5 DEF Idle
      <4>3. QED
        BY <4>2 DEF Owned, IdleEmpty
    <3>2. QED
      BY <3>1 DEF IdleEmpty
  <2>a. FreshBases'
    BY <1>12 DEF Owned, FreshBases
  <2>2. ASSUME NEW t \in Founders PROVE ~Idle(t)' => ~Idle(t)
    BY <1>12 DEF Idle
  <2>3. /\ ~Idle("boot")' => daemon'.at = "boot" /\ saves'["boot"].by = "daemon"
        /\ ~Idle("first")' => gui'.at = "first" /\ saves'["first"].by = "gui"
    BY <2>2, <1>1, <1>12, SaveNames DEF Owned
  <2>4. gui'.linked = "live" => gui'.at = "on" /\ daemon'.at = "up"
    BY <1>1, <1>6, <1>7 DEF Owned, Asked
  <2>5. ASSUME NEW t \in Commands, ~Idle(t)'
        PROVE  \/ saves'[t].by = "daemon" /\ gui'.linked = "live"
               \/ saves'[t].by = "gui" /\ gui'.at = "on"
               \/ saves'[t].by = "orphan"
    <3>1. CASE t = s
      BY <3>1, <1>5, <1>6, <1>7, <1>11
    <3>2. CASE t # s
      <4>1. saves'[t] = saves[t] /\ ~Idle(t)
        BY <3>2, <2>5, <1>5, SaveNames DEF Idle
      <4>2. QED
        BY <4>1, <1>7, <1>9, <1>10 DEF Owned
    <3>3. QED
      BY <3>1, <3>2
  <2>6. saves'["save"].by = "daemon" => saves'["layout"].by # "daemon"
    BY <1>5, <1>9, <1>10, <1>s, SaveNames
  <2>7. QED
    BY <2>1, <2>a, <2>3, <2>4, <2>5, <2>6 DEF Owned
<1>14. ASSUME ~spoilt' PROVE OneWriter' /\ Founding' /\ Numbered' /\ AllRight' /\ Following'
  <2>1. ~spoilt
    BY <1>14, <1>1
  <2>2. \A t \in Saves : InMiddle(t)' <=> InMiddle(t)
    BY <1>1, <1>5, <1>11 DEF InMiddle, Idle
  <2>3. OneWriter'
    BY <2>1, <2>2, <1>1 DEF OneWriter, KeepsSaves
  <2>4. toml # NoToml /\ ((\E t \in Founders : ~Idle(t)) => writes # 0)
    BY <2>1, <1>1 DEF Founding, Unread
  <2>5. Founding'
    BY <2>1, <2>4, <1>1, <1>12 DEF Founding, Idle
  <2>6. Numbered'
    BY <2>1, <1>1 DEF Numbered
  <2>7. AllRight'
    <3>1. AllRight
      BY <2>1
    <3>2. Right(v.base)
      BY <3>1, <1>1, <1>2 DEF AllRight
    <3>3. \A t \in Saves : Right(saves'[t].base)
      BY <3>1, <3>2, <1>5 DEF AllRight
    <3>4. (~Ahead' /\ ~Ahead) \/ (Ahead' /\ Ahead /\ saves'["layout"] = saves["layout"])
      <4>1. CASE s = "layout"
        <5>1. saves'["layout"].at = "write" /\ saves["layout"].at = "idle"
          BY <4>1, <1>5, <1>11, <1>1 DEF Idle
        <5>2. ~Ahead
          BY <5>1 DEF Ahead, InMiddle
        <5>3. ~Ahead'
          BY <5>1 DEF Ahead, InMiddle
        <5>4. QED
          BY <5>2, <5>3
      <4>2. CASE s # "layout"
        <5>1. saves'["layout"] = saves["layout"]
          BY <4>2, <1>5, SaveNames
        <5>2. Ahead' <=> Ahead
          BY <5>1 DEF Ahead, InMiddle
        <5>3. QED
          BY <5>1, <5>2
      <4>3. QED
        BY <4>1, <4>2
    <3>5. QED
      BY <3>1, <3>3, <3>4, <1>1, <1>7 DEF AllRight, Right, RestOK, LinksOK
  <2>8. Following'
    <3>1. Following
      BY <2>1
    <3>2. saves'["save"].at = "answer" => saves'["save"] = saves["save"]
      BY <1>5, <1>11, SaveNames
    <3>3. saves'["save"].at = "answer" => saves["save"].at = "answer" /\ NewConfig("save")' = NewConfig("save")
      BY <3>2, NewStays
    <3>4. saves'["layout"].at = "answer" => saves'["layout"] = saves["layout"] /\ saves["layout"].at = "answer"
      BY <1>5, <1>11, SaveNames
    <3>5. saves["layout"].by = "daemon" => saves'["save"].by # "gui" \/ saves'["save"] = saves["save"]
      BY <1>5, <1>9, <1>10, SaveNames
    <3>6. QED
      BY <3>1, <3>2, <3>3, <3>4, <3>5, <1>1, <1>7 DEF Following
  <2>9. QED
    BY <2>3, <2>5, <2>6, <2>7, <2>8
<1>15. QED
  BY <1>8, <1>13, <1>14

LEMMA TruncateKeeps ==
  ASSUME ConfigInv, NEW s \in Saves, Truncate(s)
  PROVE  ConfigInv'
<1> USE DEF ConfigInv
<1>1. /\ saves[s].at = "write" /\ ~Idle(s) /\ toml' = TornToml
      /\ spoilt' = (spoilt \/ \E t \in Saves : InMiddle(t))
      /\ UNCHANGED <<daemon, form, changes, writes, last, wanted>>
  BY DEF Truncate, Idle
<1>2. PICK ahead \in BOOLEAN : ahead <=> s = "layout" /\ saves[s].by = "gui"
  OBVIOUS
<1>3. PICK v : v = [saves[s] EXCEPT !.at = "middle", !.base = IF ahead THEN gui.config ELSE @]
  OBVIOUS
<1>4. saves[s] \in [at : {"idle", "write", "middle", "answer"},
                    by : {"", "daemon", "gui", "orphan"}, base : Copies, value : Nat]
  BY SaveTyped
<1>5. /\ v \in [at : {"idle", "write", "middle", "answer"},
                by : {"", "daemon", "gui", "orphan"}, base : Copies, value : Nat]
      /\ v.at = "middle" /\ v.by = saves[s].by /\ v.value = saves[s].value
      /\ v.base = IF ahead THEN gui.config ELSE saves[s].base
  <2>1. gui.config \in Copies
    BY DEF ConfigTypeOK
  <2>2. QED
    BY <1>3, <1>4, <2>1
<1>6. saves' = [saves EXCEPT ![s] = v]
  <2>1. CASE ahead
    <3>1. saves' = [saves EXCEPT ![s].at = "middle", ![s].base = gui.config]
      BY <2>1, <1>2 DEF Truncate
    <3>2. v = [saves[s] EXCEPT !.at = "middle", !.base = gui.config]
      BY <2>1, <1>3
    <3>3. saves \in [Saves -> [at : {"idle", "write", "middle", "answer"},
                               by : {"", "daemon", "gui", "orphan"}, base : Copies, value : Nat]]
      BY DEF ConfigTypeOK
    <3>4. QED
      BY <3>1, <3>2, <3>3
  <2>2. CASE ~ahead
    <3>1. saves' = [saves EXCEPT ![s].at = "middle"]
      BY <2>2, <1>2 DEF Truncate
    <3>2. v = [saves[s] EXCEPT !.at = "middle"]
      BY <2>2, <1>3, <1>4
    <3>3. QED
      BY <3>1, <3>2
  <2>3. QED
    BY <2>1, <2>2
<1>7. /\ saves' \in [Saves -> [at : {"idle", "write", "middle", "answer"},
                                by : {"", "daemon", "gui", "orphan"},
                                base : Copies, value : Nat]]
      /\ saves'[s] = v
      /\ \A t \in Saves \ {s} : saves'[t] = saves[t]
  BY <1>5, <1>6, OneChanges
<1>8. /\ gui' \in [at : {"off", "first", "on"}, config : Copies,
                   linked : {"none", "live", "broken"}]
      /\ gui'.at = gui.at /\ gui'.linked = gui.linked
      /\ gui'.config.rest = gui.config.rest /\ gui'.config.read = gui.config.read
      /\ gui'.config.links = IF ahead THEN saves[s].value ELSE gui.config.links
  <2>1. saves[s].value \in Int /\ gui.config \in Copies
    BY SaveNumbers DEF ConfigTypeOK
  <2>2. CASE ahead
    <3>1. gui' = [gui EXCEPT !.config.links = saves[s].value]
      BY <2>2, <1>2 DEF Truncate
    <3>2. gui' = [gui EXCEPT !.config = [gui.config EXCEPT !.links = saves[s].value]]
      BY <3>1
    <3>3. PICK c : c = [gui.config EXCEPT !.links = saves[s].value]
      OBVIOUS
    <3>4. c \in Copies /\ c.rest = gui.config.rest /\ c.read = gui.config.read
          /\ c.links = saves[s].value
      BY <3>3, <2>1 DEF Copies
    <3>5. QED
      BY <2>2, <3>2, <3>3, <3>4 DEF ConfigTypeOK
  <2>3. CASE ~ahead
    BY <2>3, <1>2 DEF Truncate, ConfigTypeOK
  <2>4. QED
    BY <2>2, <2>3
<1>9. ConfigTypeOK'
  BY <1>1, <1>7, <1>8, DefaultTyped DEF ConfigTypeOK
<1>10. \A t \in Saves : saves'[t].by = saves[t].by /\ (Idle(t)' <=> Idle(t))
  BY <1>1, <1>5, <1>7 DEF Idle
<1>11. Owned'
  <2>1. IdleEmpty'
    <3>1. ASSUME NEW t \in Saves, Idle(t)' PROVE saves'[t] = Unsaved
      <4>1. t # s
        BY <3>1, <1>5, <1>7 DEF Idle
      <4>2. saves'[t] = saves[t] /\ Idle(t)
        BY <3>1, <4>1, <1>7 DEF Idle
      <4>3. QED
        BY <4>2 DEF Owned, IdleEmpty
    <3>2. QED
      BY <3>1 DEF IdleEmpty
  <2>2. FreshBases'
    <3>1. s \in Founders => v.base = saves[s].base
      BY <1>2, <1>5, SaveNames
    <3>2. FreshBases /\ \A t \in Founders : t \in Saves
      BY SaveNames DEF Owned
    <3>3. \A t \in Founders : saves'[t].base = saves[t].base
      BY <3>1, <3>2, <1>7
    <3>4. QED
      BY <3>2, <3>3 DEF FreshBases
  <2>3. QED
    BY <2>1, <2>2, <1>1, <1>8, <1>10, SaveNames DEF Owned
<1>12. ASSUME ~spoilt' PROVE OneWriter' /\ Founding' /\ Numbered' /\ AllRight' /\ Following'
  <2>1. ~spoilt /\ \A t \in Saves : ~InMiddle(t)
    BY <1>12, <1>1
  <2>2. \A t \in Saves : InMiddle(t)' <=> t = s
    <3>1. InMiddle(s)'
      BY <1>5, <1>7 DEF InMiddle
    <3>2. ASSUME NEW t \in Saves, t # s PROVE ~InMiddle(t)'
      <4>1. saves'[t] = saves[t]
        BY <3>2, <1>7
      <4>2. QED
        BY <4>1, <2>1 DEF InMiddle
    <3>3. QED
      BY <3>1, <3>2
  <2>3. OneWriter'
    BY <2>2, <1>1 DEF OneWriter, KeepsSaves
  <2>4. Founding'
    <3>1. Founding /\ toml' # NoToml
      BY <2>1, <1>1, DefaultTyped
    <3>2. Unread' <=> Unread
      BY <1>1, <1>8, <1>10, SaveNames DEF Unread
    <3>3. \A t \in Founders : saves'[t].at = "answer" => saves[t].at = "answer"
      BY <1>5, <1>7, SaveNames
    <3>4. QED
      BY <3>1, <3>2, <3>3, <1>1, <1>10, SaveNames DEF Founding
  <2>5. Numbered'
    BY <2>1, <1>1 DEF Numbered
  <2>6. AllRight'
    <3>1. AllRight /\ ~Ahead
      BY <2>1, SaveNames DEF Ahead
    <3>2. Right(v.base)
      BY <3>1, <1>5 DEF AllRight, Right
    <3>3. \A t \in Saves : Right(saves'[t].base)
      BY <3>1, <3>2, <1>7 DEF AllRight
    <3>4. Ahead' <=> ahead
      BY <2>2, <1>2, <1>10, SaveNames DEF Ahead
    <3>5. ahead => gui'.config.links = saves'["layout"].value
      BY <1>2, <1>5, <1>7, <1>8
    <3>6. RestOK(gui'.config) /\ (~ahead => LinksOK(gui'.config))
      BY <3>1, <1>8 DEF AllRight, RestOK, LinksOK
    <3>7. QED
      BY <3>1, <3>3, <3>4, <3>5, <3>6, <1>1 DEF AllRight, Right, RestOK, LinksOK
  <2>7. Following'
    <3>1. Following
      BY <2>1
    <3>2. saves'["save"].at = "answer" => saves'["save"] = saves["save"]
      BY <1>5, <1>7, SaveNames
    <3>3. saves'["save"].at = "answer" => saves["save"].at = "answer" /\ NewConfig("save")' = NewConfig("save")
      BY <3>2, NewStays
    <3>4. saves'["layout"].at = "answer" => saves'["layout"] = saves["layout"] /\ saves["layout"].at = "answer"
      BY <1>5, <1>7, SaveNames
    <3>5. s # "layout" => gui'.config.read = gui.config.read
      BY <1>8
    <3>6. saves'["save"].base = saves["save"].base /\ saves'["save"].by = saves["save"].by
      BY <1>2, <1>5, <1>7, SaveNames
    <3>7. QED
      BY <3>1, <3>2, <3>3, <3>4, <3>5, <3>6, <1>1, <1>8 DEF Following
  <2>8. QED
    BY <2>3, <2>4, <2>5, <2>6, <2>7
<1>13. QED
  BY <1>9, <1>11, <1>12

LEMMA FillKeeps ==
  ASSUME ConfigInv, NEW s \in Saves, Fill(s)
  PROVE  ConfigInv'
<1> USE DEF ConfigInv
<1>1. /\ InMiddle(s) /\ ~Idle(s) /\ toml' = NewConfig(s) /\ writes' = writes + 1
      /\ spoilt' = (spoilt \/ \E t \in Commands \ {s} : saves[s].base.read < last[t])
      /\ UNCHANGED <<daemon, gui, form, changes>>
  BY DEF Fill, InMiddle, Idle
<1>2. PICK v : v = [saves[s] EXCEPT !.at = "answer"]
  OBVIOUS
<1>3. /\ v \in [at : {"idle", "write", "middle", "answer"},
                by : {"", "daemon", "gui", "orphan"}, base : Copies, value : Nat]
      /\ v.at = "answer" /\ v.by = saves[s].by /\ v.value = saves[s].value
      /\ v.base = saves[s].base
  BY <1>2, SaveTyped
<1>4. saves' = [saves EXCEPT ![s] = v]
  BY <1>2 DEF Fill
<1>5. /\ saves' \in [Saves -> [at : {"idle", "write", "middle", "answer"},
                                by : {"", "daemon", "gui", "orphan"},
                                base : Copies, value : Nat]]
      /\ saves'[s] = v
      /\ \A t \in Saves \ {s} : saves'[t] = saves[t]
  BY <1>3, <1>4, OneChanges
<1>6. \A t \in Saves : /\ saves'[t].by = saves[t].by /\ saves'[t].base = saves[t].base
                       /\ saves'[t].value = saves[t].value
                       /\ Idle(t)' <=> Idle(t)
  BY <1>1, <1>3, <1>5 DEF Idle
<1>7. /\ wanted' \in [rest : Nat, links : Nat]
      /\ wanted'.rest = IF s = "save" THEN saves[s].value ELSE wanted.rest
      /\ wanted'.links = IF s = "layout" THEN saves[s].value ELSE wanted.links
  <2>1. wanted \in [rest : Nat, links : Nat] /\ saves[s].value \in Nat
    BY SaveNumbers DEF ConfigTypeOK
  <2>2. CASE s = "save"
    <3>1. wanted' = [wanted EXCEPT !.rest = saves[s].value]
      BY <2>2 DEF Fill
    <3>2. QED
      BY <2>1, <2>2, <3>1
  <2>3. CASE s = "layout"
    <3>1. wanted' = [wanted EXCEPT !.links = saves[s].value]
      BY <2>3 DEF Fill
    <3>2. QED
      BY <2>1, <2>3, <3>1
  <2>4. CASE s \in Founders
    <3>1. wanted' = wanted
      BY <2>4 DEF Fill, Founders
    <3>2. s # "save" /\ s # "layout"
      BY <2>4, SaveNames
    <3>3. QED
      BY <2>1, <3>1, <3>2
  <2>5. QED
    BY <2>2, <2>3, <2>4, SaveNames
<1>8. /\ last' \in [Commands -> Nat]
      /\ last'["save"] = IF s = "save" THEN writes + 1 ELSE last["save"]
      /\ last'["layout"] = IF s = "layout" THEN writes + 1 ELSE last["layout"]
  <2>1. last \in [Commands -> Nat] /\ writes + 1 \in Nat
    <3>1. writes + 1 \in Nat
      BY Numbers
    <3>2. QED
      BY <3>1 DEF ConfigTypeOK
  <2>2. CASE s \in Commands
    BY <2>1, <2>2, SaveNames DEF Fill
  <2>3. CASE s \notin Commands
    BY <2>1, <2>3, SaveNames DEF Fill
  <2>4. QED
    BY <2>2, <2>3
<1>9. ConfigTypeOK'
  <2>1. toml' \in [rest : Int, links : Int] /\ writes' \in Nat /\ spoilt' \in BOOLEAN
    <3>1. writes' \in Nat /\ toml' \in [rest : Int, links : Int]
      BY <1>1, NewTyped, Numbers
    <3>2. spoilt \in BOOLEAN
      BY DEF ConfigTypeOK
    <3>3. QED
      BY <3>1, <3>2, <1>1
  <2>2. QED
    BY <2>1, <1>1, <1>5, <1>7, <1>8 DEF ConfigTypeOK
<1>10. Owned'
  <2>1. IdleEmpty'
    <3>1. ASSUME NEW t \in Saves, Idle(t)' PROVE saves'[t] = Unsaved
      <4>1. t # s
        BY <3>1, <1>3, <1>5 DEF Idle
      <4>2. saves'[t] = saves[t] /\ Idle(t)
        BY <3>1, <4>1, <1>5 DEF Idle
      <4>3. QED
        BY <4>2 DEF Owned, IdleEmpty
    <3>2. QED
      BY <3>1 DEF IdleEmpty
  <2>2. FreshBases'
    BY <1>6, SaveNames DEF Owned, FreshBases
  <2>3. QED
    BY <2>1, <2>2, <1>1, <1>6, SaveNames DEF Owned
<1>11. ASSUME ~spoilt' PROVE OneWriter' /\ Founding' /\ Numbered' /\ AllRight' /\ Following'
  <2>1. ~spoilt /\ \A t \in Commands \ {s} : ~(saves[s].base.read < last[t])
    BY <1>11, <1>1
  <2>n. /\ writes \in Nat /\ last["save"] \in Nat /\ last["layout"] \in Nat
        /\ last["save"] <= writes /\ last["layout"] <= writes
        /\ saves[s].base.read \in Nat /\ saves[s].base.read <= writes
    <3>1. writes \in Nat /\ last["save"] \in Nat /\ last["layout"] \in Nat
      BY Numbers
    <3>2. saves[s].base.read \in Nat
      BY SaveNumbers
    <3>3. Numbered /\ RestOK(saves[s].base)
      BY <2>1 DEF AllRight, Right
    <3>4. QED
      BY <3>1, <3>2, <3>3, SaveNames DEF Numbered, RestOK
  <2>b. Right(saves[s].base)
    BY <2>1 DEF AllRight
  <2>2. \A t \in Saves : ~InMiddle(t)'
    <3>1. \A t \in Saves : InMiddle(t) => t = s
      BY <2>1, <1>1 DEF OneWriter
    <3>2. QED
      BY <3>1, <1>3, <1>5 DEF InMiddle
  <2>3. toml' = wanted'
    <3>1. CASE s = "save"
      <4>1. wanted'.rest = saves[s].value /\ wanted'.links = wanted.links
        BY <3>1, <1>7
      <4>2. last["layout"] <= saves[s].base.read
        BY <3>1, <2>1, <2>n, SaveNames
      <4>3. saves[s].base.links = wanted.links
        BY <4>2, <2>b DEF Right, LinksOK
      <4>4. toml' = [rest |-> saves[s].value, links |-> wanted.links]
        BY <3>1, <4>3, <1>1, NewIs
      <4>5. wanted' = [rest |-> wanted'.rest, links |-> wanted'.links]
        BY <1>7
      <4>6. QED
        BY <4>1, <4>4, <4>5
    <3>2. CASE s = "layout"
      <4>1. wanted'.rest = wanted.rest /\ wanted'.links = saves[s].value
        BY <3>2, <1>7
      <4>2. last["save"] <= saves[s].base.read
        BY <3>2, <2>1, <2>n, SaveNames
      <4>3. saves[s].base.rest = wanted.rest
        BY <4>2, <2>b DEF Right, RestOK
      <4>4. toml' = [rest |-> wanted.rest, links |-> saves[s].value]
        BY <3>2, <4>3, <1>1, NewIs
      <4>5. wanted' = [rest |-> wanted'.rest, links |-> wanted'.links]
        BY <1>7
      <4>6. QED
        BY <4>1, <4>4, <4>5
    <3>3. CASE s \in Founders
      <4>1. saves[s].base.read = 0
        <5>1. FreshBases
          BY DEF Owned
        <5>2. saves[s].base = Unsaved.base
          BY <3>3, <5>1 DEF FreshBases
        <5>3. Unsaved.base = [rest |-> 0, links |-> 0, read |-> 0]
          BY UnsavedFacts
        <5>4. QED
          BY <5>2, <5>3
      <4>2. last["save"] = 0 /\ last["layout"] = 0
        BY <3>3, <4>1, <2>1, <2>n, SaveNames
      <4>3. wanted.rest = 0 /\ wanted.links = 0
        BY <4>2, <2>1 DEF Numbered
      <4>4. wanted'.rest = 0 /\ wanted'.links = 0
        BY <3>3, <4>3, <1>7, SaveNames
      <4>5. wanted' = [rest |-> wanted'.rest, links |-> wanted'.links]
        BY <1>7
      <4>6. toml' = [rest |-> 0, links |-> 0]
        BY <3>3, <1>1, NewIs DEF DefaultConfig
      <4>7. QED
        BY <4>4, <4>5, <4>6
    <3>4. QED
      BY <3>1, <3>2, <3>3, SaveNames
  <2>w. toml' # NoToml /\ toml' # TornToml
    BY <2>3, <1>7, DefaultTyped
  <2>4. OneWriter'
    BY <2>2, <2>3, <2>w DEF OneWriter, KeepsSaves
  <2>5. Founding'
    <3>1. writes' # 0 /\ writes' >= 1
      BY <2>n, <1>1
    <3>2. ASSUME NEW f \in Founders, ~Idle(f)', NEW t \in Commands PROVE last'[t] # 1
      <4>1. ~Idle(f) /\ Founding
        BY <3>2, <2>1, <1>6, SaveNames
      <4>2. last[t] # 1 /\ (writes = 0 => Unread)
        BY <4>1 DEF Founding
      <4>3. CASE t = s
        <5>1. writes # 0
          BY <4>2, <4>3, <1>1 DEF Unread
        <5>2. last'[t] = writes + 1
          BY <4>3, <3>2, <1>8, SaveNames
        <5>3. QED
          BY <5>1, <5>2, <2>n
      <4>4. CASE t # s
        BY <4>2, <4>4, <3>2, <1>8, SaveNames
      <4>5. QED
        BY <4>3, <4>4
    <3>3. QED
      BY <3>1, <3>2, <2>w DEF Founding
  <2>6. Numbered'
    <3>1. Numbered
      BY <2>1
    <3>2. \A t \in Commands : last'[t] <= writes'
      BY <2>n, <1>1, <1>8, SaveNames
    <3>3. last'["save"] = last'["layout"] => last'["save"] = 0
      BY <3>1, <2>n, <1>8 DEF Numbered
    <3>4. last'["save"] = 0 => wanted'.rest = 0
      BY <3>1, <2>n, <1>7, <1>8 DEF Numbered
    <3>5. last'["layout"] = 0 => wanted'.links = 0
      BY <3>1, <2>n, <1>7, <1>8 DEF Numbered
    <3>6. QED
      BY <3>2, <3>3, <3>4, <3>5 DEF Numbered
  <2>7. AllRight'
    <3>1. ASSUME NEW n \in Nat, n <= writes
          PROVE  /\ n <= writes'
                 /\ last'["save"] <= n => last["save"] <= n /\ wanted'.rest = wanted.rest
                 /\ last'["layout"] <= n => last["layout"] <= n /\ wanted'.links = wanted.links
      BY <3>1, <2>n, <1>1, <1>7, <1>8
    <3>2. AllRight
      BY <2>1
    <3>3. daemon.config.read \in Nat /\ gui.config.read \in Nat /\ form.read \in Nat
      BY DEF ConfigTypeOK, Copies
    <3>4. Right(daemon.config)'
      BY <3>1, <3>2, <3>3, <1>1 DEF AllRight, Right, RestOK, LinksOK
    <3>5. (form # NoForm => Right(form))'
      BY <3>1, <3>2, <3>3, <1>1 DEF AllRight, Right, RestOK, LinksOK
    <3>6. ASSUME NEW t \in Saves PROVE Right(saves[t].base)'
      <4>1. saves[t].base.read \in Nat /\ Right(saves[t].base) /\ saves'[t].base = saves[t].base
        BY <3>2, <1>6, SaveNumbers DEF AllRight
      <4>2. saves[t].base.read <= writes
        BY <4>1 DEF Right, RestOK
      <4>3. QED
        BY <3>1, <4>1, <4>2 DEF Right, RestOK, LinksOK
    <3>7. RestOK(gui.config)'
      BY <3>1, <3>2, <3>3, <1>1 DEF AllRight, RestOK
    <3>8. ~Ahead'
      BY <2>2, SaveNames DEF Ahead
    <3>9. LinksOK(gui.config)'
      <4>1. CASE Ahead
        <5>1. s = "layout"
          BY <4>1, <2>1, <1>1, SaveNames DEF Ahead, OneWriter
        <5>2. last'["layout"] = writes + 1 /\ gui.config.read <= writes
          BY <5>1, <3>2, <1>8 DEF AllRight, RestOK
        <5>3. QED
          BY <5>2, <3>3, <2>n, <1>1 DEF LinksOK
      <4>2. CASE ~Ahead
        BY <4>2, <3>1, <3>2, <3>3, <1>1 DEF AllRight, LinksOK, RestOK
      <4>3. QED
        BY <4>1, <4>2
    <3>10. QED
      BY <3>4, <3>5, <3>6, <3>7, <3>8, <3>9 DEF AllRight
  <2>8. Following'
    <3>1. Following
      BY <2>1
    <3>r. /\ saves["save"].base.read \in Nat /\ saves["save"].base.read <= writes
          /\ gui.config.read \in Nat /\ gui.config.read <= writes
      <4>1. gui.config.read \in Nat
        BY DEF ConfigTypeOK, Copies
      <4>2. AllRight
        BY <2>1
      <4>3. QED
        BY <4>1, <4>2, SaveNumbers, SaveNames DEF AllRight, Right, RestOK
    <3>2. ASSUME saves'["save"].at = "answer"
          PROVE  /\ saves'["save"].base.read < last'["save"]
                 /\ saves'["save"].base.read + 1 = writes' => wanted' = NewConfig("save")'
      <4>1. saves'["save"].base = saves["save"].base /\ saves'["save"].value = saves["save"].value
        BY <1>6, SaveNames
      <4>2. CASE s = "save"
        <5>1. last'["save"] = writes + 1
          BY <4>2, <1>8
        <5>2. NewConfig("save")' = NewConfig("save")
          BY <4>1 DEF NewConfig
        <5>3. QED
          BY <5>1, <5>2, <4>1, <4>2, <3>r, <2>n, <2>3, <1>1
      <4>3. CASE s # "save"
        <5>1. saves["save"].at = "answer" /\ last'["save"] = last["save"]
          BY <4>3, <3>2, <1>5, <1>8, SaveNames
        <5>2. saves["save"].base.read < last["save"]
          BY <5>1, <3>1 DEF Following
        <5>3. saves["save"].base.read + 1 # writes'
          BY <5>2, <3>r, <2>n, <1>1
        <5>4. QED
          BY <5>1, <5>2, <5>3, <4>1
      <4>4. QED
        BY <4>2, <4>3
    <3>3. ASSUME saves'["layout"].at = "answer", saves'["layout"].by # "orphan"
          PROVE  /\ wanted'.links = saves'["layout"].value
                 /\ gui'.config.read < last'["layout"]
                 /\ saves'["layout"].by = "daemon" /\ saves'["save"].by = "gui" =>
                      saves'["save"].base.read < last'["layout"]
      <4>1. /\ saves'["layout"].by = saves["layout"].by
            /\ saves'["layout"].value = saves["layout"].value
            /\ saves'["save"].by = saves["save"].by /\ saves'["save"].base = saves["save"].base
        BY <1>6, SaveNames
      <4>2. CASE s = "layout"
        BY <4>1, <4>2, <3>r, <2>n, <1>1, <1>7, <1>8
      <4>3. CASE s # "layout"
        <5>1. saves["layout"].at = "answer" /\ last'["layout"] = last["layout"]
              /\ wanted'.links = wanted.links
          BY <4>3, <3>3, <1>5, <1>7, <1>8, SaveNames
        <5>2. QED
          BY <5>1, <4>1, <3>1, <3>3, <1>1 DEF Following
      <4>4. QED
        BY <4>2, <4>3
    <3>4. QED
      BY <3>2, <3>3 DEF Following
  <2>9. QED
    BY <2>4, <2>5, <2>6, <2>7, <2>8
<1>12. QED
  BY <1>9, <1>10, <1>11

LEMMA AnswerKeeps ==
  ASSUME ConfigInv, NEW s \in Saves, Answer(s)
  PROVE  ConfigInv'
<1> USE DEF ConfigInv
<1>1. /\ saves[s].at = "answer" /\ ~Idle(s) /\ (s = "save" /\ Heard(s) => Lockable)
      /\ saves' = [saves EXCEPT ![s] = Unsaved]
      /\ UNCHANGED <<toml, changes, writes, last, wanted, spoilt>>
  BY DEF Answer, Idle, ghosts
<1>2. /\ saves' \in [Saves -> [at : {"idle", "write", "middle", "answer"},
                                by : {"", "daemon", "gui", "orphan"},
                                base : Copies, value : Nat]]
      /\ saves'[s] = Unsaved
      /\ \A t \in Saves \ {s} : saves'[t] = saves[t]
  BY <1>1, OneChanges, UnsavedFacts
<1>3. Heard(s) => gui.at = "on"
  BY <1>1 DEF Heard, Owned
(* What the copies become. *)
<1>4. PICK c \in Copies :
        /\ c = IF Heard(s) THEN Follow(s) ELSE IF s = "first" THEN Copy(DefaultConfig, 1) ELSE gui.config
  <2>1. Heard(s) => Follow(s) \in Copies
    <3>1. ASSUME s = "save" PROVE Follow(s) \in Copies
      <4>1. NewConfig(s) \in [rest : Int, links : Int] /\ writes \in Nat /\ 0 \in Nat
        BY NewTyped, Numbers
      <4>2. (IF writes = saves[s].base.read + 1 THEN writes ELSE 0) \in Nat
        BY <4>1
      <4>3. QED
        BY <3>1, <4>1, <4>2, CopyTyped DEF Follow
    <3>2. ASSUME s = "layout" PROVE Follow(s) \in Copies
      <4>1. gui.config \in Copies /\ saves[s].value \in Int /\ writes \in Nat
        BY SaveNumbers, Numbers DEF ConfigTypeOK
      <4>2. QED
        BY <3>2, <4>1 DEF Follow, Copies
    <3>3. QED
      BY <3>1, <3>2 DEF Heard, Commands
  <2>2. Copy(DefaultConfig, 1) \in Copies /\ gui.config \in Copies
    BY CopyTyped, DefaultTyped DEF ConfigTypeOK
  <2>3. QED
    BY <2>1, <2>2
<1>5. /\ gui' \in [at : {"off", "first", "on"}, config : Copies,
                   linked : {"none", "live", "broken"}]
      /\ gui'.config = c /\ gui'.linked = gui.linked
      /\ gui'.at = IF s = "first" THEN "on" ELSE gui.at
  <2>1. CASE Heard(s)
    <3>1. gui' = [gui EXCEPT !.config = Follow(s)] /\ s # "first"
      BY <2>1 DEF Answer, Heard, Commands
    <3>2. QED
      BY <2>1, <3>1, <1>4 DEF ConfigTypeOK
  <2>2. CASE s = "first"
    <3>1. ~Heard(s)
      BY <2>2, SaveNames DEF Heard
    <3>2. gui' = [gui EXCEPT !.at = "on", !.config = Copy(DefaultConfig, 1)]
      BY <2>2, <3>1 DEF Answer
    <3>3. QED
      BY <2>2, <3>1, <3>2, <1>4 DEF ConfigTypeOK
  <2>3. CASE ~Heard(s) /\ s # "first"
    <3>1. gui' = gui
      BY <2>3 DEF Answer
    <3>2. QED
      BY <2>3, <3>1, <1>4 DEF ConfigTypeOK
  <2>4. QED
    BY <2>1, <2>2, <2>3
<1>6. /\ daemon' \in [at : {"down", "boot", "up", "failed"}, config : Copies]
      /\ s = "boot" => daemon' = [at |-> "up", config |-> Copy(DefaultConfig, 1)]
      /\ s # "boot" => daemon' = daemon
  <2>1. Copy(DefaultConfig, 1) \in Copies
    BY CopyTyped, DefaultTyped
  <2>2. QED
    BY <2>1 DEF Answer, ConfigTypeOK
<1>7. form' = IF s = "save" /\ Heard(s) THEN c ELSE form
  BY <1>4 DEF Answer
<1>8. ConfigTypeOK'
  <2>1. form' \in Copies
    BY <1>7 DEF ConfigTypeOK
  <2>2. QED
    BY <2>1, <1>1, <1>2, <1>5, <1>6 DEF ConfigTypeOK
<1>9. \A t \in Saves : ~Idle(t)' => saves'[t] = saves[t] /\ ~Idle(t) /\ t # s
  BY <1>2, UnsavedFacts DEF Idle
<1>10. Owned'
  <2>1. IdleEmpty'
    BY <1>2, <1>9 DEF Owned, IdleEmpty, Idle
  <2>2. FreshBases'
    <3>1. FreshBases /\ \A t \in Founders : t \in Saves
      BY SaveNames DEF Owned
    <3>2. \A t \in Founders : saves'[t].base = saves[t].base
      BY <3>1, <1>2 DEF FreshBases
    <3>3. QED
      BY <3>1, <3>2 DEF FreshBases
  <2>3. \A t \in Saves : saves'[t].by \in {"", saves[t].by}
    BY <1>2, UnsavedFacts
  <2>4. ~Idle("boot")' => daemon'.at = "boot" /\ saves'["boot"].by = "daemon"
    BY <1>6, <1>9, SaveNames DEF Owned
  <2>5. ~Idle("first")' => gui'.at = "first" /\ saves'["first"].by = "gui"
    BY <1>5, <1>9, SaveNames DEF Owned
  <2>6. gui'.linked = "live" => gui'.at = "on" /\ daemon'.at = "up"
    <3>1. daemon.at = "up" => daemon'.at = "up"
      BY <1>6
    <3>2. QED
      BY <3>1, <1>5 DEF Owned
  <2>7. ASSUME NEW t \in Commands, ~Idle(t)'
        PROVE  \/ saves'[t].by = "daemon" /\ gui'.linked = "live"
               \/ saves'[t].by = "gui" /\ gui'.at = "on"
               \/ saves'[t].by = "orphan"
    BY <2>7, <1>5, <1>9, SaveNames DEF Owned
  <2>8. saves'["save"].by = "daemon" => saves'["layout"].by # "daemon"
    BY <2>3, SaveNames DEF Owned
  <2>9. QED
    BY <2>1, <2>2, <2>4, <2>5, <2>6, <2>7, <2>8 DEF Owned
<1>11. ASSUME ~spoilt' PROVE OneWriter' /\ Founding' /\ Numbered' /\ AllRight' /\ Following'
  <2>1. ~spoilt
    BY <1>11, <1>1
  <2>n. writes \in Nat /\ last["save"] \in Nat /\ last["layout"] \in Nat
        /\ last["save"] <= writes /\ last["layout"] <= writes
        /\ (last["save"] = last["layout"] => last["save"] = 0)
    BY <2>1, Numbers, SaveNames DEF Numbered
  <2>2. \A t \in Saves : InMiddle(t)' <=> InMiddle(t)
    BY <1>1, <1>2, UnsavedFacts DEF InMiddle
  <2>3. OneWriter'
    BY <2>1, <2>2, <1>1 DEF OneWriter, KeepsSaves
  <2>w. s \in Founders => writes >= 1 /\ \A t \in Commands : last[t] <= 1 => last[t] = 0
    <3>1. s \in Founders => writes >= 1 /\ \A t \in Commands : last[t] # 1
      BY <2>1, <1>1 DEF Founding
    <3>2. \A t \in Commands : last[t] \in Nat
      BY Numbers
    <3>3. QED
      BY <3>1, <3>2
  <2>c. s \notin Founders => gui'.at = gui.at /\ daemon' = daemon
    BY <1>5, <1>6, SaveNames
  <2>4. Founding'
    <3>1. Founding
      BY <2>1
    <3>2. s \notin Founders => (Unread => Unread')
      BY <2>c, <1>9, SaveNames DEF Unread
    <3>3. s \in Founders => writes' # 0 /\ toml # NoToml
      BY <3>1, <2>w, <2>n, <1>1 DEF Founding
    <3>4. \A t \in Founders : saves'[t].at = "answer" => saves[t].at = "answer"
      BY <1>2, UnsavedFacts, SaveNames
    <3>5. (\E t \in Founders : ~Idle(t))' => \E t \in Founders : ~Idle(t)
      BY <1>9, SaveNames
    <3>6. QED
      BY <3>1, <3>2, <3>3, <3>4, <3>5, <1>1 DEF Founding
  <2>5. Numbered'
    BY <2>1, <1>1 DEF Numbered
  <2>d. s \in Founders => Right(Copy(DefaultConfig, 1))
    BY <2>w, <2>1, Defaults
  <2>r. /\ gui.config.read \in Nat /\ gui.config.read <= writes
        /\ saves["save"].base.read \in Nat /\ saves["save"].base.read <= writes
    <3>1. gui.config.read \in Nat
      BY DEF ConfigTypeOK, Copies
    <3>2. AllRight
      BY <2>1
    <3>3. QED
      BY <3>1, <3>2, SaveNumbers, SaveNames DEF AllRight, Right, RestOK
  <2>s. ASSUME s = "save", Heard(s)
        PROVE  Right(c) /\ ~Ahead
               /\ (saves["layout"].at = "answer" /\ saves["layout"].by # "orphan" => c.read < last["layout"])
    <3>1. PICK n \in Nat : n = IF writes = saves["save"].base.read + 1 THEN writes ELSE 0
      BY <2>n
    <3>2. c = Copy(NewConfig("save"), n)
      BY <2>s, <3>1, <1>4 DEF Follow
    <3>3. c.rest = NewConfig("save").rest /\ c.links = NewConfig("save").links /\ c.read = n
      BY <3>2 DEF Copy
    <3>4. /\ saves["save"].base.read < last["save"]
          /\ saves["save"].base.read + 1 = writes => wanted = NewConfig("save")
      BY <2>s, <2>1, <1>1 DEF Following
    <3>5. Lockable /\ ~Ahead
      BY <2>s, <1>1 DEF Lockable, Ahead, InMiddle
    <3>6. CASE writes = saves["save"].base.read + 1
      <4>1. wanted = NewConfig("save") /\ n = writes
        BY <3>1, <3>4, <3>6, <2>r
      <4>2. Right(c)
        BY <4>1, <3>3, <2>n DEF Right, RestOK, LinksOK
      <4>3. last["save"] = writes
        BY <3>4, <3>6, <2>n, <2>r
      <4>4. ASSUME saves["layout"].at = "answer", saves["layout"].by # "orphan" PROVE FALSE
        <5>1. saves["layout"].by = "daemon" /\ gui.config.read < last["layout"]
          BY <4>4, <3>5, <2>1, SaveNames DEF Lockable, Owned, Idle, Following
        <5>2. saves["save"].by = "gui"
          BY <5>1, <2>s, <1>1, SaveNames DEF Heard, Owned
        <5>3. saves["save"].base.read < last["layout"]
          BY <4>4, <5>1, <5>2, <2>1 DEF Following
        <5>4. last["layout"] = writes
          BY <5>3, <3>6, <2>n, <2>r
        <5>5. QED
          BY <4>3, <5>1, <5>4, <2>n, <2>r
      <4>5. QED
        BY <4>2, <4>4, <3>5
    <3>7. CASE writes # saves["save"].base.read + 1
      <4>1. n = 0
        BY <3>1, <3>7
      <4>2. ~(last["save"] <= 0)
        BY <3>4, <2>n, <2>r
      <4>3. NewConfig("save").links = saves["save"].base.links
        BY NewIs
      <4>4. last["layout"] <= 0 => saves["save"].base.links = wanted.links
        BY <2>1, <2>n, <2>r, SaveNames DEF AllRight, Right, LinksOK
      <4>5. Right(c)
        BY <4>1, <4>2, <4>3, <4>4, <3>3, <2>n DEF Right, RestOK, LinksOK
      <4>6. saves["layout"].at = "answer" /\ saves["layout"].by # "orphan" => 0 < last["layout"]
        BY <2>1, <2>n, <2>r DEF Following
      <4>7. QED
        BY <4>1, <4>5, <4>6, <3>3, <3>5
    <3>8. QED
      BY <3>6, <3>7
  <2>l. ASSUME s = "layout", Heard(s)
        PROVE  Right(c) /\ ~Ahead
    <3>1. gui.config \in Copies /\ saves["layout"].by # "orphan"
      BY <2>l DEF ConfigTypeOK, Heard
    <3>2. /\ c.rest = gui.config.rest /\ c.links = saves["layout"].value
          /\ c.read = IF gui.config.read = writes - 1 THEN writes ELSE gui.config.read
      BY <2>l, <3>1, <1>4 DEF Follow, Copies
    <3>3. wanted.links = saves["layout"].value /\ gui.config.read < last["layout"]
      BY <2>l, <2>1, <3>1, <1>1 DEF Following
    <3>4. RestOK(gui.config)
      BY <2>1 DEF AllRight
    <3>5. CASE gui.config.read = writes - 1
      <4>1. last["layout"] = writes
        BY <3>3, <3>5, <2>n, <2>r
      <4>2. last["save"] <= gui.config.read
        BY <4>1, <3>5, <2>n, <2>r, <3>3
      <4>3. gui.config.rest = wanted.rest
        BY <4>2, <3>4 DEF RestOK
      <4>4. QED
        BY <4>3, <3>2, <3>3, <3>5, <2>n, <2>l, <1>1 DEF Right, RestOK, LinksOK, Ahead, InMiddle
    <3>6. CASE gui.config.read # writes - 1
      BY <3>2, <3>3, <3>4, <3>6, <2>l, <1>1 DEF Right, RestOK, LinksOK, Ahead, InMiddle
    <3>7. QED
      BY <3>5, <3>6
  <2>6. AllRight'
    <3>1. AllRight
      BY <2>1
    <3>2. Right(Unsaved.base)
      <4>1. saves[s].at = "answer" /\ \A t \in Saves : Right(saves[t].base)
        BY <3>1, <1>1 DEF AllRight
      <4>2. Unsaved.base = Copy(DefaultConfig, 0)
        BY UnsavedFacts DEF Copy, DefaultConfig
      <4>3. \A t \in Commands : last[t] <= 0 => last[t] = 0
        BY Numbers
      <4>4. QED
        BY <4>2, <4>3, <2>1, <2>n, Defaults
    <3>3. \A t \in Saves : Right(saves'[t].base)
      BY <3>1, <3>2, <1>2 DEF AllRight
    <3>4. Right(daemon'.config)
      <4>1. CASE s = "boot"
        BY <4>1, <2>d, <1>6, SaveNames
      <4>2. CASE s # "boot"
        BY <4>2, <3>1, <1>6 DEF AllRight
      <4>3. QED
        BY <4>1, <4>2
    <3>5. form' # NoForm => Right(form')
      BY <3>1, <2>s, <1>7 DEF AllRight
    <3>6. Ahead' <=> Ahead
      <4>1. saves["layout"].at = "answer" /\ s = "layout" => ~Ahead
        BY DEF Ahead, InMiddle
      <4>2. s = "layout" => ~Ahead'
        BY <1>2, UnsavedFacts DEF Ahead, InMiddle
      <4>3. s # "layout" => saves'["layout"] = saves["layout"]
        BY <1>2, SaveNames
      <4>4. QED
        BY <4>1, <4>2, <4>3, <1>1 DEF Ahead, InMiddle
    <3>7. CASE Heard(s)
      <4>1. Right(c) /\ ~Ahead
        BY <3>7, <2>s, <2>l, SaveNames DEF Heard
      <4>2. QED
        BY <4>1, <3>3, <3>4, <3>5, <3>6, <1>1, <1>5 DEF AllRight, Right, RestOK, LinksOK
    <3>8. CASE s = "first"
      <4>1. Right(c)
        BY <3>8, <2>d, <1>4, SaveNames DEF Heard
      <4>2. ~Ahead
        BY <3>8, <1>1, SaveNames DEF Ahead, InMiddle, Owned, Idle
      <4>3. QED
        BY <4>1, <4>2, <3>3, <3>4, <3>5, <3>6, <1>1, <1>5 DEF AllRight, Right, RestOK, LinksOK
    <3>9. CASE ~Heard(s) /\ s # "first"
      <4>1. c = gui.config
        BY <3>9, <1>4
      <4>2. Ahead => saves'["layout"] = saves["layout"]
        BY <1>1, <1>2, SaveNames DEF Ahead, InMiddle
      <4>3. QED
        BY <4>1, <4>2, <3>1, <3>3, <3>4, <3>5, <3>6, <1>1, <1>5 DEF AllRight, Right, RestOK, LinksOK
    <3>10. QED
      BY <3>7, <3>8, <3>9
  <2>7. Following'
    <3>1. Following
      BY <2>1
    <3>2. ASSUME saves'["save"].at = "answer"
          PROVE  /\ saves'["save"].base.read < last'["save"]
                 /\ saves'["save"].base.read + 1 = writes' => wanted' = NewConfig("save")'
      <4>1. saves'["save"] = saves["save"]
        BY <3>2, <1>2, UnsavedFacts, SaveNames
      <4>2. NewConfig("save")' = NewConfig("save")
        BY <4>1, NewStays
      <4>3. QED
        BY <3>1, <3>2, <4>1, <4>2, <1>1 DEF Following
    <3>3. ASSUME saves'["layout"].at = "answer", saves'["layout"].by # "orphan"
          PROVE  /\ wanted'.links = saves'["layout"].value
                 /\ gui'.config.read < last'["layout"]
                 /\ saves'["layout"].by = "daemon" /\ saves'["save"].by = "gui" =>
                      saves'["save"].base.read < last'["layout"]
      <4>1. saves'["layout"] = saves["layout"] /\ s # "layout"
        BY <3>3, <1>2, UnsavedFacts, SaveNames
      <4>2. c.read < last["layout"]
        <5>1. CASE s = "save" /\ Heard(s)
          BY <5>1, <4>1, <3>3, <2>s
        <5>2. CASE s = "first"
          <6>1. gui.at = "first" /\ saves["layout"].by # "gui" /\ saves["layout"].by # "daemon"
            BY <5>2, <4>1, <3>3, <1>1, SaveNames DEF Owned, Idle
          <6>2. QED
            BY <6>1, <4>1, <3>3, SaveNames DEF Owned, Idle
        <5>3. CASE ~Heard(s) /\ s # "first"
          BY <5>3, <4>1, <3>1, <3>3, <1>4 DEF Following
        <5>4. QED
          BY <5>1, <5>2, <5>3, <4>1, SaveNames DEF Heard
      <4>3. saves'["save"].by = "gui" => saves'["save"] = saves["save"]
        BY <1>2, UnsavedFacts, SaveNames
      <4>4. QED
        BY <3>1, <3>3, <4>1, <4>2, <4>3, <1>1, <1>5 DEF Following
    <3>4. QED
      BY <3>2, <3>3 DEF Following
  <2>8. QED
    BY <2>3, <2>4, <2>5, <2>6, <2>7
<1>12. QED
  BY <1>8, <1>10, <1>11

-----------------------------------------------------------------------------
(* DEATHS *)

LEMMA DaemonDiesKeeps ==
  ASSUME ConfigInv, DaemonDies
  PROVE  ConfigInv'
<1> USE DEF ConfigInv
<1>1. /\ daemon' = [daemon EXCEPT !.at = "down"]
      /\ spoilt' = (spoilt \/ \E s \in Saves : InMiddle(s) /\ saves[s].by \in {"daemon", "orphan"})
      /\ UNCHANGED <<toml, form, changes, writes, last, wanted>>
  BY DEF DaemonDies, Tears
<1>2. /\ daemon' \in [at : {"down", "boot", "up", "failed"}, config : Copies]
      /\ daemon'.at = "down" /\ daemon'.config = daemon.config
  BY <1>1 DEF ConfigTypeOK
<1>3. /\ gui' \in [at : {"off", "first", "on"}, config : Copies,
                   linked : {"none", "live", "broken"}]
      /\ gui'.at = gui.at /\ gui'.config = gui.config /\ gui'.linked # "live"
  BY DEF DaemonDies, Asked, ConfigTypeOK
<1>4. /\ saves' = [s \in Saves |-> saves'[s]]
      /\ \A s \in Saves :
           saves'[s] = IF saves[s].by = "orphan" \/ s = "boot" THEN Unsaved
                       ELSE IF saves[s].by # "daemon" THEN saves[s]
                       ELSE [saves[s] EXCEPT !.at = "write", !.by = "gui",
                                             !.base = IF s = "save" THEN @ ELSE gui.config]
  BY DEF DaemonDies
<1>5. \A s \in Saves : saves[s].by = "orphan" \/ s = "boot" => saves'[s] = Unsaved
  BY <1>4
<1>6. \A s \in Saves : saves[s].by # "orphan" /\ s # "boot" /\ saves[s].by # "daemon" =>
        saves'[s] = saves[s]
  BY <1>4
<1>7. ASSUME NEW s \in Saves, saves[s].by = "daemon", s # "boot"
      PROVE  /\ saves'[s] \in [at : {"idle", "write", "middle", "answer"},
                               by : {"", "daemon", "gui", "orphan"}, base : Copies, value : Nat]
             /\ saves'[s].at = "write" /\ saves'[s].by = "gui"
             /\ saves'[s].base = IF s = "save" THEN saves[s].base ELSE gui.config
  <2>1. gui.config \in Copies
    BY DEF ConfigTypeOK
  <2>2. saves'[s] = [saves[s] EXCEPT !.at = "write", !.by = "gui",
                                     !.base = IF s = "save" THEN saves[s].base ELSE gui.config]
    BY <1>4, <1>7
  <2>3. saves[s] \in [at : {"idle", "write", "middle", "answer"},
                      by : {"", "daemon", "gui", "orphan"}, base : Copies, value : Nat]
    BY SaveTyped
  <2>4. QED
    BY <2>1, <2>2, <2>3
<1>8. ASSUME NEW s \in Saves
      PROVE  saves'[s] \in [at : {"idle", "write", "middle", "answer"},
                            by : {"", "daemon", "gui", "orphan"}, base : Copies, value : Nat]
  <2>1. CASE saves[s].by = "orphan" \/ s = "boot"
    BY <2>1, <1>5, UnsavedFacts
  <2>2. CASE saves[s].by = "daemon" /\ s # "boot"
    BY <2>2, <1>7
  <2>3. CASE saves[s].by # "orphan" /\ s # "boot" /\ saves[s].by # "daemon"
    BY <2>3, <1>6, SaveTyped
  <2>4. QED
    BY <2>1, <2>2, <2>3
<1>9. ConfigTypeOK'
  <2>1. spoilt' \in BOOLEAN
    BY <1>1 DEF ConfigTypeOK
  <2>2. saves' \in [Saves -> [at : {"idle", "write", "middle", "answer"},
                              by : {"", "daemon", "gui", "orphan"}, base : Copies, value : Nat]]
    BY <1>4, <1>8
  <2>3. QED
    BY <2>1, <2>2, <1>1, <1>2, <1>3 DEF ConfigTypeOK
(* A command of the daemon had a GUI that waited for it.                   *)
<1>10. \A s \in Saves : saves[s].by = "daemon" => ~Idle(s)
  BY UnsavedFacts DEF Owned, IdleEmpty
<1>11. ASSUME NEW s \in Saves, saves[s].by = "daemon", s # "boot"
       PROVE  s \in Commands /\ gui.at = "on" /\ ~Idle(s)
  <2>1. ~Idle(s)
    BY <1>10, <1>11
  <2>2. s # "first"
    BY <2>1, <1>11, SaveNames DEF Owned
  <2>3. QED
    BY <2>1, <2>2, <1>11, SaveNames DEF Owned
<1>12. ASSUME NEW s \in Saves, ~Idle(s)'
       PROVE  /\ ~Idle(s) /\ s # "boot" /\ saves[s].by # "orphan" /\ saves'[s].by # "daemon"
              /\ saves'[s].by = saves[s].by \/ (saves'[s].by = "gui" /\ s \in Commands /\ gui.at = "on")
  <2>1. s # "boot" /\ saves[s].by # "orphan"
    BY <1>12, <1>5, UnsavedFacts DEF Idle
  <2>2. CASE saves[s].by = "daemon"
    BY <2>1, <2>2, <1>7, <1>11
  <2>3. CASE saves[s].by # "daemon"
    BY <2>1, <2>3, <1>6, <1>12 DEF Idle
  <2>4. QED
    BY <2>1, <2>2, <2>3
<1>13. Owned'
  <2>1. ASSUME NEW s \in Saves, Idle(s)' PROVE saves'[s] = Unsaved
    <3>1. CASE saves[s].by = "orphan" \/ s = "boot"
      BY <3>1, <1>5
    <3>2. CASE saves[s].by = "daemon" /\ s # "boot"
      BY <3>2, <2>1, <1>7 DEF Idle
    <3>3. CASE saves[s].by # "orphan" /\ s # "boot" /\ saves[s].by # "daemon"
      BY <3>3, <2>1, <1>6 DEF Idle, Owned, IdleEmpty
    <3>4. QED
      BY <3>1, <3>2, <3>3
  <2>2. IdleEmpty'
    BY <2>1 DEF IdleEmpty
  <2>3. FreshBases'
    <3>1. FreshBases /\ \A f \in Founders : f \in Saves
      BY SaveNames DEF Owned
    <3>2. \A f \in Founders : f # "boot" => saves[f].by # "daemon"
      BY <1>11, SaveNames
    <3>3. \A f \in Founders : saves'[f].base = Unsaved.base
      BY <3>1, <3>2, <1>5, <1>6 DEF FreshBases
    <3>4. QED
      BY <3>3 DEF FreshBases
  <2>4. Idle("boot")'
    BY <1>5, UnsavedFacts, SaveNames DEF Idle
  <2>5. ~Idle("first")' => gui'.at = "first" /\ saves'["first"].by = "gui"
    BY <1>12, <1>3, SaveNames DEF Owned
  <2>6. ASSUME NEW t \in Commands, ~Idle(t)'
        PROVE  saves'[t].by = "gui" /\ gui'.at = "on"
    BY <2>6, <1>12, <1>3, SaveNames DEF Owned
  <2>7. saves'["save"].by # "daemon"
    BY <2>1, <1>12, UnsavedFacts, SaveNames
  <2>8. QED
    BY <2>2, <2>3, <2>4, <2>5, <2>6, <2>7, <1>3 DEF Owned
<1>14. ASSUME ~spoilt' PROVE OneWriter' /\ Founding' /\ Numbered' /\ AllRight' /\ Following'
  <2>1. ~spoilt /\ \A s \in Saves : InMiddle(s) => saves[s].by \notin {"daemon", "orphan"}
    BY <1>14, <1>1
  <2>2. \A s \in Saves : InMiddle(s)' <=> InMiddle(s)
    <3>1. ASSUME NEW s \in Saves, InMiddle(s) PROVE saves'[s] = saves[s]
      <4>1. s # "boot"
        BY <3>1, <2>1 DEF Owned, Idle, InMiddle
      <4>2. QED
        BY <4>1, <3>1, <2>1, <1>6
    <3>2. ASSUME NEW s \in Saves, InMiddle(s)' PROVE InMiddle(s)
      <4>1. saves[s].by # "orphan" /\ s # "boot"
        BY <3>2, <1>5, UnsavedFacts DEF InMiddle
      <4>2. saves[s].by # "daemon"
        BY <4>1, <3>2, <1>7 DEF InMiddle
      <4>3. QED
        BY <4>1, <4>2, <3>2, <1>6 DEF InMiddle
    <3>3. QED
      BY <3>1, <3>2 DEF InMiddle
  <2>3. OneWriter'
    BY <2>1, <2>2, <1>1 DEF OneWriter, KeepsSaves
  <2>4. Founding'
    <3>1. Founding
      BY <2>1
    <3>2. Unread => Unread'
      BY <1>2, <1>3, <1>12, SaveNames DEF Unread
    <3>3. \A f \in Founders : saves'[f].at = "answer" => saves[f].at = "answer"
      <4>1. saves'["boot"].at # "answer"
        BY <1>5, UnsavedFacts, SaveNames
      <4>2. saves'["first"].at = "answer" => saves'["first"] = saves["first"]
        <5>1. saves["first"].by # "daemon"
          BY <1>11, SaveNames
        <5>2. QED
          BY <5>1, <1>5, <1>6, UnsavedFacts, SaveNames
      <4>3. QED
        BY <4>1, <4>2, SaveNames
    <3>4. (\E f \in Founders : ~Idle(f))' => \E f \in Founders : ~Idle(f)
      BY <1>12, SaveNames
    <3>5. QED
      BY <3>1, <3>2, <3>3, <3>4, <1>1 DEF Founding
  <2>5. Numbered'
    BY <2>1, <1>1 DEF Numbered
  <2>6. AllRight'
    <3>1. AllRight
      BY <2>1
    <3>2. Right(Unsaved.base)
      <4>1. Unsaved.base = Copy(DefaultConfig, 0)
        BY UnsavedFacts DEF Copy, DefaultConfig
      <4>2. writes \in Nat /\ \A t \in Commands : last[t] <= 0 => last[t] = 0
        BY Numbers
      <4>3. QED
        BY <4>1, <4>2, <2>1, Defaults
    <3>3. ASSUME NEW s \in Saves PROVE Right(saves'[s].base)
      <4>1. CASE saves[s].by = "orphan" \/ s = "boot"
        BY <4>1, <3>2, <1>5
      <4>2. CASE saves[s].by = "daemon" /\ s # "boot"
        <5>1. s \in {"save", "layout"}
          BY <4>2, <1>11, SaveNames
        <5>2. CASE s = "save"
          BY <5>2, <4>2, <3>1, <1>7 DEF AllRight
        <5>3. CASE s = "layout"
          <6>1. ~Ahead
            BY <5>3, <4>2 DEF Ahead
          <6>2. saves'[s].base = gui.config
            BY <5>3, <4>2, <1>7
          <6>3. QED
            BY <6>1, <6>2, <3>1 DEF AllRight, Right
        <5>4. QED
          BY <5>1, <5>2, <5>3
      <4>3. CASE saves[s].by # "orphan" /\ s # "boot" /\ saves[s].by # "daemon"
        BY <4>3, <3>1, <1>6 DEF AllRight
      <4>4. QED
        BY <4>1, <4>2, <4>3
    <3>4. Ahead' <=> Ahead
      <4>1. Ahead => saves'["layout"] = saves["layout"]
        BY <1>6, SaveNames DEF Ahead
      <4>2. Ahead' => InMiddle("layout") /\ saves["layout"].by # "daemon" /\ saves["layout"].by # "orphan"
        BY <2>1, <2>2, SaveNames DEF Ahead
      <4>3. Ahead' => saves'["layout"] = saves["layout"]
        BY <4>2, <1>6, SaveNames
      <4>4. QED
        BY <4>1, <4>3 DEF Ahead, InMiddle
    <3>5. Ahead => saves'["layout"].value = saves["layout"].value
      BY <1>6, SaveNames DEF Ahead
    <3>6. QED
      BY <3>1, <3>3, <3>4, <3>5, <1>1, <1>2, <1>3 DEF AllRight, Right, RestOK, LinksOK
  <2>7. Following'
    <3>1. Following
      BY <2>1
    <3>s. \A s \in Commands : saves'[s].at = "answer" => saves'[s] = saves[s]
      <4>1. ASSUME NEW s \in Commands, saves'[s].at = "answer" PROVE saves'[s] = saves[s]
        <5>1. s \in Saves /\ s # "boot"
          BY SaveNames
        <5>2. saves[s].by # "orphan"
          BY <4>1, <5>1, <1>5, UnsavedFacts
        <5>3. saves[s].by # "daemon"
          BY <4>1, <5>1, <1>7
        <5>4. QED
          BY <5>1, <5>2, <5>3, <1>6
      <4>2. QED
        BY <4>1
    <3>2. ASSUME saves'["save"].at = "answer"
          PROVE  /\ saves'["save"].base.read < last'["save"]
                 /\ saves'["save"].base.read + 1 = writes' => wanted' = NewConfig("save")'
      <4>1. saves'["save"] = saves["save"]
        BY <3>2, <3>s, SaveNames
      <4>2. NewConfig("save")' = NewConfig("save")
        BY <4>1, NewStays
      <4>3. QED
        BY <3>1, <3>2, <4>1, <4>2, <1>1 DEF Following
    <3>3. ASSUME saves'["layout"].at = "answer", saves'["layout"].by # "orphan"
          PROVE  /\ wanted'.links = saves'["layout"].value
                 /\ gui'.config.read < last'["layout"]
                 /\ saves'["layout"].by # "daemon"
      <4>1. saves'["layout"] = saves["layout"]
        BY <3>3, <3>s, SaveNames
      <4>2. saves'["layout"].by # "daemon"
        BY <3>3, <1>12, SaveNames DEF Idle
      <4>3. QED
        BY <3>1, <3>3, <4>1, <4>2, <1>1, <1>3 DEF Following
    <3>4. QED
      BY <3>2, <3>3 DEF Following
  <2>8. QED
    BY <2>3, <2>4, <2>5, <2>6, <2>7
<1>15. QED
  BY <1>9, <1>13, <1>14

LEMMA GuiQuitsKeeps ==
  ASSUME ConfigInv, GuiQuits
  PROVE  ConfigInv'
<1> USE DEF ConfigInv
<1>1. /\ gui' = [gui EXCEPT !.at = "off", !.linked = "none"] /\ form' = NoForm
      /\ spoilt' = (spoilt \/ \E s \in Saves : InMiddle(s) /\ saves[s].by \in {"gui"})
      /\ UNCHANGED <<toml, daemon, changes, writes, last, wanted>>
  BY DEF GuiQuits, Tears
<1>2. /\ gui' \in [at : {"off", "first", "on"}, config : Copies,
                   linked : {"none", "live", "broken"}]
      /\ gui'.at = "off" /\ gui'.config = gui.config /\ gui'.linked = "none"
  BY <1>1 DEF ConfigTypeOK
<1>3. /\ saves' = [s \in Saves |-> saves'[s]]
      /\ \A s \in Saves :
           saves'[s] = IF saves[s].by = "gui" THEN Unsaved
                       ELSE IF s \in Commands /\ saves[s].by = "daemon"
                       THEN [saves[s] EXCEPT !.by = "orphan"]
                       ELSE saves[s]
  BY DEF GuiQuits
<1>4. \A s \in Saves : saves[s].by = "gui" => saves'[s] = Unsaved
  BY <1>3
<1>5. \A s \in Saves : saves[s].by # "gui" /\ ~(s \in Commands /\ saves[s].by = "daemon") =>
        saves'[s] = saves[s]
  BY <1>3
<1>6. ASSUME NEW s \in Saves, s \in Commands, saves[s].by = "daemon"
      PROVE  /\ saves'[s] \in [at : {"idle", "write", "middle", "answer"},
                               by : {"", "daemon", "gui", "orphan"}, base : Copies, value : Nat]
             /\ saves'[s].by = "orphan" /\ saves'[s].at = saves[s].at
             /\ saves'[s].base = saves[s].base /\ saves'[s].value = saves[s].value
  <2>1. saves'[s] = [saves[s] EXCEPT !.by = "orphan"]
    BY <1>3, <1>6
  <2>2. saves[s] \in [at : {"idle", "write", "middle", "answer"},
                      by : {"", "daemon", "gui", "orphan"}, base : Copies, value : Nat]
    BY SaveTyped
  <2>3. QED
    BY <2>1, <2>2
<1>7. ASSUME NEW s \in Saves
      PROVE  /\ saves'[s] \in [at : {"idle", "write", "middle", "answer"},
                               by : {"", "daemon", "gui", "orphan"}, base : Copies, value : Nat]
             /\ saves'[s] = Unsaved \/ (/\ saves[s].by # "gui"
                                        /\ saves'[s].at = saves[s].at /\ saves'[s].base = saves[s].base
                                        /\ saves'[s].value = saves[s].value
                                        /\ s \in Commands => saves'[s].by # "daemon"
                                        /\ saves'[s].by # "gui"
                                        /\ s \notin Commands => saves'[s] = saves[s])
  <2>1. CASE saves[s].by = "gui"
    BY <2>1, <1>4, UnsavedFacts
  <2>2. CASE s \in Commands /\ saves[s].by = "daemon"
    BY <2>2, <1>6
  <2>3. CASE saves[s].by # "gui" /\ ~(s \in Commands /\ saves[s].by = "daemon")
    <3>1. saves'[s] = saves[s]
      BY <2>3, <1>5
    <3>2. QED
      BY <3>1, <2>3, SaveTyped
  <2>4. QED
    BY <2>1, <2>2, <2>3
<1>8. ConfigTypeOK'
  <2>1. spoilt' \in BOOLEAN
    BY <1>1 DEF ConfigTypeOK
  <2>2. saves' \in [Saves -> [at : {"idle", "write", "middle", "answer"},
                              by : {"", "daemon", "gui", "orphan"}, base : Copies, value : Nat]]
    BY <1>3, <1>7
  <2>3. QED
    BY <2>1, <2>2, <1>1, <1>2, DefaultTyped DEF ConfigTypeOK
<1>9. ASSUME NEW s \in Saves, ~Idle(s)'
      PROVE  /\ ~Idle(s) /\ saves'[s].at = saves[s].at /\ saves[s].by # "gui"
             /\ saves'[s].by # "gui"
             /\ s \in Commands => saves'[s].by # "daemon"
             /\ s \notin Commands => saves'[s] = saves[s]
  BY <1>7, <1>9, UnsavedFacts DEF Idle
<1>10. Owned'
  <2>1. ASSUME NEW s \in Saves, Idle(s)' PROVE saves'[s] = Unsaved
    <3>1. CASE saves[s].by = "gui"
      BY <3>1, <1>4
    <3>2. CASE saves[s].by # "gui"
      <4>1. saves[s].by # "daemon" \/ ~Idle(s)
        BY UnsavedFacts DEF Owned, IdleEmpty
      <4>2. CASE s \in Commands /\ saves[s].by = "daemon"
        BY <4>1, <4>2, <2>1, <1>6 DEF Idle
      <4>3. CASE ~(s \in Commands /\ saves[s].by = "daemon")
        <5>1. saves'[s] = saves[s]
          BY <4>3, <3>2, <1>5
        <5>2. QED
          BY <5>1, <2>1 DEF Idle, Owned, IdleEmpty
      <4>4. QED
        BY <4>2, <4>3
    <3>3. QED
      BY <3>1, <3>2
  <2>2. IdleEmpty'
    BY <2>1 DEF IdleEmpty
  <2>3. FreshBases'
    <3>1. FreshBases /\ \A f \in Founders : f \in Saves
      BY SaveNames DEF Owned
    <3>2. \A f \in Founders : saves'[f].base = Unsaved.base
      BY <3>1, <1>7 DEF FreshBases
    <3>3. QED
      BY <3>2 DEF FreshBases
  <2>4. ~Idle("boot")' => daemon'.at = "boot" /\ saves'["boot"].by = "daemon"
    BY <1>1, <1>9, SaveNames DEF Owned
  <2>5. Idle("first")'
    BY <1>9, SaveNames DEF Owned
  <2>6. ASSUME NEW t \in Commands, ~Idle(t)' PROVE saves'[t].by = "orphan"
    <3>1. t \in Saves
      BY SaveNames
    <3>2. saves'[t].by \in {"", "daemon", "gui", "orphan"}
      BY <3>1, <1>7
    <3>3. saves[t].by # "" /\ saves[t].by # "gui" /\ saves'[t].by \notin {"daemon", "gui"}
      BY <2>6, <3>1, <1>9 DEF Owned
    <3>4. saves[t].by = "daemon" => saves'[t].by = "orphan"
      BY <3>1, <1>6
    <3>5. saves[t].by # "daemon" => saves'[t] = saves[t]
      BY <3>1, <3>3, <1>5
    <3>6. QED
      BY <3>2, <3>3, <3>4, <3>5
  <2>7. saves'["save"].by # "daemon"
    BY <1>7, UnsavedFacts, SaveNames
  <2>8. QED
    BY <2>2, <2>3, <2>4, <2>5, <2>6, <2>7, <1>2 DEF Owned
<1>11. ASSUME ~spoilt' PROVE OneWriter' /\ Founding' /\ Numbered' /\ AllRight' /\ Following'
  <2>1. ~spoilt /\ \A s \in Saves : InMiddle(s) => saves[s].by # "gui"
    BY <1>11, <1>1
  <2>2. \A s \in Saves : InMiddle(s)' <=> InMiddle(s)
    <3>1. ASSUME NEW s \in Saves, InMiddle(s) PROVE saves'[s].at = saves[s].at
      BY <3>1, <2>1, <1>5, <1>6
    <3>2. ASSUME NEW s \in Saves, InMiddle(s)' PROVE saves'[s].at = saves[s].at
      BY <3>2, <1>7, UnsavedFacts DEF InMiddle
    <3>3. QED
      BY <3>1, <3>2 DEF InMiddle
  <2>3. OneWriter'
    BY <2>1, <2>2, <1>1 DEF OneWriter, KeepsSaves
  <2>4. Founding'
    <3>1. Founding
      BY <2>1
    <3>2. Unread => Unread'
      BY <1>1, <1>2, <1>9, SaveNames DEF Unread
    <3>3. \A f \in Founders : saves'[f].at = "answer" => saves[f].at = "answer"
      BY <1>7, UnsavedFacts, SaveNames
    <3>4. (\E f \in Founders : ~Idle(f))' => \E f \in Founders : ~Idle(f)
      BY <1>9, SaveNames
    <3>5. QED
      BY <3>1, <3>2, <3>3, <3>4, <1>1 DEF Founding
  <2>5. Numbered'
    BY <2>1, <1>1 DEF Numbered
  <2>6. AllRight'
    <3>1. AllRight /\ ~Ahead
      BY <2>1, SaveNames DEF Ahead
    <3>2. Right(Unsaved.base)
      <4>1. Unsaved.base = Copy(DefaultConfig, 0)
        BY UnsavedFacts DEF Copy, DefaultConfig
      <4>2. writes \in Nat /\ \A t \in Commands : last[t] <= 0 => last[t] = 0
        BY Numbers
      <4>3. QED
        BY <4>1, <4>2, <2>1, Defaults
    <3>3. \A s \in Saves : Right(saves'[s].base)
      BY <3>1, <3>2, <1>7 DEF AllRight
    <3>4. ~Ahead'
      <4>1. InMiddle("layout")' => saves'["layout"].by # "gui"
        BY <1>9, SaveNames DEF InMiddle, Idle
      <4>2. QED
        BY <4>1 DEF Ahead
    <3>5. QED
      BY <3>1, <3>3, <3>4, <1>1, <1>2 DEF AllRight, Right, RestOK, LinksOK
  <2>7. Following'
    <3>1. Following
      BY <2>1
    <3>2. ASSUME saves'["save"].at = "answer"
          PROVE  /\ saves'["save"].base.read < last'["save"]
                 /\ saves'["save"].base.read + 1 = writes' => wanted' = NewConfig("save")'
      <4>1. saves'["save"].base = saves["save"].base /\ saves'["save"].value = saves["save"].value
            /\ saves["save"].at = "answer"
        BY <3>2, <1>7, UnsavedFacts, SaveNames
      <4>2. NewConfig("save")' = NewConfig("save")
        BY <4>1 DEF NewConfig
      <4>3. QED
        BY <3>1, <3>2, <4>1, <4>2, <1>1 DEF Following
    <3>3. saves'["layout"].at = "answer" => saves'["layout"].by = "orphan"
      <4>1. ASSUME saves'["layout"].at = "answer" PROVE ~Idle("layout")'
        BY <4>1 DEF Idle
      <4>2. QED
        BY <4>1, <1>10, <1>2, SaveNames DEF Owned
    <3>4. QED
      BY <3>2, <3>3 DEF Following
  <2>8. QED
    BY <2>3, <2>4, <2>5, <2>6, <2>7
<1>12. QED
  BY <1>8, <1>10, <1>11

-----------------------------------------------------------------------------
LEMMA ConfigInvStep == ConfigInv /\ [ConfigNext]_configVars => ConfigInv'
<1> SUFFICES ASSUME ConfigInv, [ConfigNext]_configVars PROVE ConfigInv'
  OBVIOUS
<1>1. CASE ConfigNext
  BY <1>1, DaemonLoadsKeeps, GuiLoadsKeeps, GuiAsksKeeps, CallKeeps, TruncateKeeps,
     FillKeeps, AnswerKeeps, DaemonDiesKeeps, GuiQuitsKeeps
     DEF ConfigNext
<1>2. CASE UNCHANGED configVars
  <2>1. UNCHANGED <<toml, daemon, gui, form, saves, changes, writes, last, wanted, spoilt>>
    BY <1>2 DEF configVars, ghosts
  <2>2. ConfigTypeOK' /\ Owned'
    BY <2>1 DEF ConfigInv, ConfigTypeOK, Owned, IdleEmpty, FreshBases, Idle
  <2>3. ASSUME ~spoilt' PROVE OneWriter' /\ Founding' /\ Numbered' /\ AllRight' /\ Following'
    <3>1. OneWriter /\ Founding /\ Numbered /\ AllRight /\ Following
      BY <2>1, <2>3 DEF ConfigInv
    <3>2. OneWriter' /\ Founding' /\ Numbered'
      BY <2>1, <3>1 DEF OneWriter, KeepsSaves, InMiddle, Founding, Unread, Idle, Numbered
    <3>3. AllRight'
      BY <2>1, <3>1 DEF AllRight, Right, RestOK, LinksOK, Ahead, InMiddle
    <3>4. Following'
      BY <2>1, <3>1 DEF Following, NewConfig
    <3>5. QED
      BY <3>2, <3>3, <3>4
  <2>4. QED
    BY <2>2, <2>3 DEF ConfigInv
<1>3. QED
  BY <1>1, <1>2

(* Whoever writes, dies and starts in whatever order (settings.rs, the     *)
(* commands of ipc/mod.rs and commands.rs): between two saves the file     *)
(* holds what the user set last, unless a process died in the middle of a  *)
(* save, two met in the file, or a change was made to a copy older than    *)
(* the last save of the other kind.                                        *)
THEOREM FileKeepsSaves == ConfigSpec => []KeepsSaves
<1>1. ConfigInv => KeepsSaves
  BY DEF ConfigInv, OneWriter, KeepsSaves
<1>2. QED
  BY ConfigInvInit, ConfigInvStep, <1>1, PTL DEF ConfigSpec
=============================================================================
