-------------------------------- MODULE Parts ---------------------------------
(***************************************************************************)
(* The components that share no state with another, side by side: the      *)
(* initial state says which of them runs, and the rest stay as they are.   *)
(***************************************************************************)
EXTENDS Ctaphid, ScreenEdge, WindowsCapture, ScriptManager, TlsIdentity, AudioPipeline,
        Crossfade, VideoCapture, ConfigStore, DaemonLink

VARIABLE part  \* the component that runs

partsVars == <<part, vars, edgeVars, winVars, scriptVars, tlsVars, audioVars, fadeVars,
               videoVars, configVars, linkVars>>

PartNames == {"frames", "edge", "windows", "scripts", "tls", "audio", "fade", "video",
              "config", "link"}

(* What stays as it is may as well be any one of its initial states.       *)
PartsInit ==
  /\ part \in PartNames
  /\ Init /\ EdgeInit /\ WinInit /\ ScriptInit /\ TlsInit /\ AudioInit /\ FadeInit
  /\ VideoInit /\ ConfigInit /\ LinkInit
  /\ part # "frames" => len = CHOOSE n \in Lens : TRUE
  /\ part # "edge" =>
       /\ \E os \in Systems : os = (CHOOSE s \in Systems : TRUE) /\ displays = EnumerateDisplays(os)
       /\ links = (CHOOSE l \in LinkLists : TRUE) /\ deadZone = CHOOSE n \in DeadZones : TRUE
  /\ part # "scripts" => Present = {}
  /\ part # "video" => source = "dummy" /\ viewer = "caller"
  /\ part # "config" => toml = NoToml
  /\ part # "link" => socket = NoOne

Runs(p) ==
  /\ part = p /\ UNCHANGED part
  /\ p # "frames" => UNCHANGED vars
  /\ p # "edge" => UNCHANGED edgeVars
  /\ p # "windows" => UNCHANGED winVars
  /\ p # "scripts" => UNCHANGED scriptVars
  /\ p # "tls" => UNCHANGED tlsVars
  /\ p # "audio" => UNCHANGED audioVars
  /\ p # "fade" => UNCHANGED fadeVars
  /\ p # "video" => UNCHANGED videoVars
  /\ p # "config" => UNCHANGED configVars
  /\ p # "link" => UNCHANGED linkVars

PartsNext ==
  \/ Runs("frames") /\ Next
  \/ Runs("edge") /\ EdgeNext
  \/ Runs("windows") /\ WinNext
  \/ Runs("scripts") /\ ScriptNext
  \/ Runs("tls") /\ TlsNext
  \/ Runs("audio") /\ AudioNext
  \/ Runs("fade") /\ FadeNext
  \/ Runs("video") /\ VideoNext
  \/ Runs("config") /\ ConfigNext
  \/ Runs("link") /\ LinkNext

-----------------------------------------------------------------------------
(* Threads and tasks that can go on do: the hook thread, the bridge and    *)
(* the actor on Windows, where only forwarded events and the message pump  *)
(* may take for ever; the script task; a capture, and another task that    *)
(* reads its frames; the GUI's tasks and commands.                         *)
WindowsFairness ==
  /\ WF_partsVars(Runs("windows") /\ HookStep) /\ WF_partsVars(Runs("windows") /\ BridgeStep)
  /\ WF_partsVars(Runs("windows") /\ WinActorStep)
ScriptFairness ==
  /\ WF_partsVars(Runs("scripts") /\ FileStep) /\ WF_partsVars(Runs("scripts") /\ Tick)
  /\ WF_partsVars(Runs("scripts") /\ (Dispatch \/ ScriptsEnd))
VideoFairness ==
  /\ WF_partsVars(Runs("video") /\ ShootingStep) /\ WF_partsVars(Runs("video") /\ CaptureReturns)
  /\ WF_partsVars(Runs("video") /\ viewer = "another" /\ View)
LinkFairness ==
  /\ WF_partsVars(Runs("link") /\ Connects) /\ WF_partsVars(Runs("link") /\ KeeperStep)
  /\ \A c \in Calls : WF_partsVars(Runs("link") /\ Work(c))

PartsSpec ==
  /\ PartsInit /\ [][PartsNext]_partsVars
  /\ WindowsFairness /\ ScriptFairness /\ VideoFairness /\ LinkFairness
=============================================================================
