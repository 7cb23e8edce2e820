-------------------------- MODULE Deployment_proofs --------------------------
(***************************************************************************)
(* Proofs about Deployment, on any hosts, for any configuration files and  *)
(* any number of crashes, commands and edits: daemons that run have their  *)
(* rings and share them, which of them a crash takes along, and which      *)
(* configuration each of them has taken.                                   *)
(***************************************************************************)
EXTENDS Deployment, TLAPS

States == {"stopped", "starting", "configured", "opened", "made", "running", "failed"}
Shape == state \in [Daemons -> States] /\ settings = [d \in Daemons |-> settings[d]]

\* The steps of one daemon: what it was, what it becomes.
LEMMA MainStep ==
  ASSUME Shape, NEW d \in Daemons, Main(d) \/ Crash(d)
  PROVE  /\ state[d] \in {"starting", "configured", "opened", "made", "running"}
         /\ \E s \in States : state' = [state EXCEPT ![d] = s]
         /\ state[d] = "running" => Crash(d)
         /\ UNCHANGED <<host, config, script, spared>>
  BY DEF Shape, States, Main, Configure, OpenRing, CreateRing, EnterLoop, Crash, Up

\* What systemd and those who start and stop daemons do with them.
Manages(d) == HandStart(d) \/ UnitRestart(d) \/ UnitStart(d) \/ UnitStop(d)

LEMMA OthersStep ==
  ASSUME Shape, NEW d \in Daemons, Manages(d)
  PROVE  /\ state' \in [Daemons -> States]
         /\ \A e \in Daemons : state'[e] \in {state[e], "starting", "stopped"}
         /\ ~InContainer /\ UNCHANGED <<host, files, config, script, spared>>
         /\ OnlyWhoIsUp \/ UNCHANGED settings
  BY DEF Shape, States, Manages, HandStart, UnitRestart, Restarted, UnitStart, UnitStop, InContainer, ByUnits

LEMMA NextShape == Shape /\ [Next]_vars => Shape'
<1>. SUFFICES ASSUME Shape, [Next]_vars PROVE Shape'
  OBVIOUS
<1>. USE DEF Shape, States
<1>1. ASSUME OnlyWhoIsUp PROVE settings' = [d \in Daemons |-> settings'[d]]
  BY <1>1 DEF OnlyWhoIsUp
<1>2. ASSUME NEW d \in Daemons, Main(d) \/ Crash(d) \/ Manages(d)
      PROVE  Shape'
  <2>1. state' \in [Daemons -> States]
    BY <1>2, MainStep, OthersStep
  <2>2. settings' = [e \in Daemons |-> settings'[e]]
    BY <1>1, <1>2, OthersStep DEF Main, Configure, OpenRing, CreateRing, EnterLoop, Crash
  <2>. QED
    BY <2>1, <2>2
<1>3. CASE Script
  BY <1>1, <1>3 DEF Script, LaunchAnalyzer, LaunchSampler, LaunchProcessor, Launch, Daemons,
                    ContainerExits, ContainerStarts, UninstallPurge
<1>4. CASE UninstallStop \/ EditConfig \/ ProvideObjects \/ UNCHANGED vars
  BY <1>1, <1>4 DEF UninstallStop, EditConfig, ProvideObjects, vars
<1>. QED
  BY <1>2, <1>3, <1>4 DEF Next, Manages

LEMMA ShapeAlways == Spec => []Shape
<1>1. Init => Shape
  BY DEF Init, Shape, States
<1>. QED
  BY <1>1, NextShape, PTL DEF Spec

-----------------------------------------------------------------------------
\* CrashStaysLocal: outside the container what runs goes down only by its own
\* crash, by a command, or in the restart of an analyzer that failed.
THEOREM CrashesStayLocal == Spec => CrashStaysLocal
<1>. DEFINE Down(d) == state[d] = "running" /\ state'[d] # "running"
            Why(d) == \/ InContainer \/ Crash(d) \/ UninstallStop \/ \E e \in Daemons : UnitStop(e)
                      \/ state["analyzer"] = "failed" /\ d # "analyzer"
<1>1. Shape /\ [Next]_vars => \A d \in Daemons : Down(d) => Why(d)
  <2>. SUFFICES ASSUME Shape, [Next]_vars, NEW d \in Daemons, Down(d) PROVE Why(d)
    OBVIOUS
  <2>1. ASSUME NEW e \in Daemons, Main(e) \/ Crash(e) PROVE Why(d)
    BY <2>1, MainStep DEF Shape
  <2>2. ASSUME NEW e \in Daemons, UnitRestart(e) PROVE Why(d)
    BY <2>2 DEF UnitRestart, Restarted, Requiring, Shape
  <2>3. ASSUME NEW e \in Daemons, UnitStart(e) \/ HandStart(e) PROVE Why(d)
    BY <2>3 DEF UnitStart, HandStart, Shape
  <2>4. CASE Script
    BY <2>4 DEF Script, LaunchAnalyzer, LaunchSampler, LaunchProcessor, Launch,
                ContainerExits, ContainerStarts, UninstallPurge
  <2>5. CASE EditConfig \/ ProvideObjects \/ UNCHANGED vars
    BY <2>5 DEF EditConfig, ProvideObjects, vars
  <2>. QED
    BY <2>1, <2>2, <2>3, <2>4, <2>5 DEF Next
<1>. QED
  BY <1>1, ShapeAlways, PTL DEF Spec, CrashStaysLocal

-----------------------------------------------------------------------------
\* Once uninstall.sh has stopped the units, nothing runs but whom it spared, and
\* nothing else is started.
PurgeInv ==
  (~InContainer /\ script \in {"purge", "ended"}) => \A d \in Daemons : d \in spared \/ state[d] = "stopped"
Ready(d) == state[d] \in {"opened", "made", "running"}

\* A daemon that has its rings after a step had them before, or is opening them.
LEMMA ReadyStays ==
  ASSUME Shape, [Next]_vars, NEW d \in Daemons, Ready(d)'
  PROVE  /\ settings'[d] = settings[d] /\ Needs(d)' = Needs(d)
         /\ Ready(d) \/ (OpenRing(d) /\ Needs(d) \subseteq files)
         /\ state[d] # "stopped"
<1>. USE DEF Shape, Ready
<1>1. settings'[d] = settings[d] => Needs(d)' = Needs(d)
  BY DEF Needs
<1>2. OnlyWhoIsUp => settings'[d] = settings[d]
  BY DEF OnlyWhoIsUp, Up
<1>3. ASSUME UNCHANGED <<state, settings>> PROVE settings'[d] = settings[d] /\ Ready(d)
  BY <1>3
<1>4. ASSUME NEW e \in Daemons, Main(e) \/ Crash(e)
      PROVE  settings'[d] = settings[d] /\ (Ready(d) \/ (OpenRing(d) /\ Needs(d) \subseteq files))
  <2>1. CASE Configure(e)
    BY <2>1 DEF Configure
  <2>2. CASE OpenRing(e)
    BY <1>2, <2>2 DEF OpenRing
  <2>3. CASE CreateRing(e) \/ EnterLoop(e) \/ Crash(e)
    BY <1>2, <2>3 DEF CreateRing, EnterLoop, Crash
  <2>. QED
    BY <1>4, <2>1, <2>2, <2>3 DEF Main
<1>5. ASSUME NEW e \in Daemons, Manages(e)
      PROVE  settings'[d] = settings[d] /\ Ready(d)
  BY <1>2, <1>5, OthersStep
<1>6. ASSUME Script \/ UninstallStop \/ EditConfig \/ ProvideObjects \/ UNCHANGED vars
      PROVE  settings'[d] = settings[d] /\ Ready(d)
  BY <1>2, <1>3, <1>6 DEF Script, LaunchAnalyzer, LaunchSampler, LaunchProcessor, Launch, ContainerExits,
                    ContainerStarts, UninstallPurge, UninstallStop, EditConfig, ProvideObjects, vars
<1>7. settings'[d] = settings[d] /\ (Ready(d) \/ (OpenRing(d) /\ Needs(d) \subseteq files))
  BY <1>4, <1>5, <1>6 DEF Next, Manages
<1>. QED
  BY <1>1, <1>7 DEF OpenRing

LEMMA NextPurgeInv == Shape /\ PurgeInv /\ [Next]_vars => PurgeInv'
<1>. SUFFICES ASSUME Shape, PurgeInv, [Next]_vars PROVE PurgeInv'
  OBVIOUS
<1>. USE DEF PurgeInv, Shape, InContainer
<1>1. ASSUME NEW e \in Daemons, Main(e) \/ Crash(e) PROVE PurgeInv'
  BY <1>1, MainStep
<1>2. ASSUME NEW e \in Daemons, Manages(e) PROVE PurgeInv'
  BY <1>2 DEF Manages, HandStart, UnitRestart, UnitStart, UnitStop
<1>3. CASE Script
  BY <1>3 DEF Script, LaunchAnalyzer, LaunchSampler, LaunchProcessor, Launch, ContainerExits,
              ContainerStarts, UninstallPurge
<1>4. CASE UninstallStop \/ EditConfig \/ ProvideObjects \/ UNCHANGED vars
  BY <1>4 DEF UninstallStop, EditConfig, ProvideObjects, vars
<1>. QED
  BY <1>1, <1>2, <1>3, <1>4 DEF Next, Manages

\* Files go only when the daemons are stopped, but for those spared, from whom
\* the configuration goes, too.
LEMMA FilesGo ==
  ASSUME Shape, PurgeInv, [Next]_vars
  PROVE  \/ files \subseteq files'
         \/ \A d \in Daemons : state'[d] = "stopped"
         \/ edited' /\ \A d \in Daemons : d \in spared' \/ state'[d] = "stopped"
<1>1. ASSUME NEW e \in Daemons, Main(e) \/ Crash(e) \/ Manages(e)
      PROVE  files \subseteq files'
  BY <1>1, OthersStep DEF Main, Configure, OpenRing, CreateRing, EnterLoop, Crash
<1>2. CASE Script
  BY <1>2 DEF Script, LaunchAnalyzer, LaunchSampler, LaunchProcessor, Launch, ContainerExits,
              ContainerStarts, UninstallPurge, PurgeInv, Shape
<1>3. CASE UninstallStop \/ EditConfig \/ ProvideObjects \/ UNCHANGED vars
  BY <1>3 DEF UninstallStop, EditConfig, ProvideObjects, vars
<1>. QED
  BY <1>1, <1>2, <1>3 DEF Next, Manages

\* Whom uninstall.sh spares it does not stop later, and stops nobody else.
LEMMA SparedStays ==
  ASSUME Shape, [Next]_vars, NEW d \in Daemons, d \notin spared', Ready(d)'
  PROVE  d \notin spared
<1>1. CASE UninstallStop
  BY <1>1 DEF UninstallStop, Ready
<1>2. CASE ~UninstallStop
  BY <1>2, MainStep, OthersStep DEF Next, Manages, Script, LaunchAnalyzer, LaunchSampler, LaunchProcessor,
     Launch, ContainerExits, ContainerStarts, UninstallPurge, EditConfig, ProvideObjects, vars
<1>. QED
  BY <1>1, <1>2

LEMMA NextOpenHasRing == Shape /\ PurgeInv /\ OpenHasRing /\ [Next]_vars => OpenHasRing'
<1>. SUFFICES ASSUME Shape, PurgeInv, OpenHasRing, [Next]_vars,
                     NEW d \in Daemons, d \notin spared', Ready(d)'
              PROVE  Needs(d)' \subseteq files'
  BY DEF OpenHasRing, Ready
<1>1. Needs(d)' = Needs(d) /\ Needs(d) \subseteq files
  BY ReadyStays, SparedStays DEF OpenHasRing, Ready
<1>2. files \subseteq files'
  BY FilesGo DEF Ready
<1>. QED
  BY <1>1, <1>2

\* OpenHasRing: no daemon goes on with a ring whose file is gone, but for those
\* that uninstall.sh did not stop.
THEOREM RingsOutliveUsers == Spec => []OpenHasRing
<1>1. Init => PurgeInv /\ OpenHasRing
  BY DEF Init, PurgeInv, OpenHasRing, InContainer
<1>. QED
  BY <1>1, NextPurgeInv, NextOpenHasRing, ShapeAlways, PTL DEF Spec

-----------------------------------------------------------------------------
\* What daemon d reads as the files stand.
Its(d) == Settings(d, Cli, env, fs)

\* The rings there may be while nobody edits the configuration: the analyzer
\* makes its own only after it has opened one that the sampler made.
Rings == {Its("sampler").samples}
         \cup {r \in {Its("analyzer").rules} : Its("sampler").samples = Its("analyzer").samples}
ShareInv == ~edited => /\ files \subseteq Rings
                       /\ \A d \in Daemons : state[d] \in Up => settings[d] = Its(d)
                       /\ \A d \in Daemons : Ready(d) => Needs(d) \subseteq files

\* The analyzer and the processor take the same file, and the same key of it.
LEMMA SameRules == Its("analyzer").rules = Its("processor").rules
  BY DEF Its, Settings, PathOf

\* An analyzer that has opened a ring has opened the sampler's.
LEMMA OpenedIsShared ==
  ASSUME ShareInv, ~edited, Ready("analyzer")
  PROVE  Its("sampler").samples = Its("analyzer").samples
<1>1. "analyzer" \in Daemons /\ settings["analyzer"] = Its("analyzer")
  BY DEF ShareInv, Ready, Up, Daemons
<1>2. Its("analyzer").samples \in files
  BY <1>1 DEF ShareInv, Needs
<1>. QED
  BY <1>2 DEF ShareInv, Rings

\* While the files and the environment stay, so does what is read there.
LEMMA SettingsStay ==
  ASSUME UNCHANGED <<host, env, fs>>
  PROVE  Rings' = Rings /\ \A d : Its(d)' = Its(d)
<1>1. ASSUME NEW d PROVE Its(d)' = Its(d)
  BY DEF Its, Cli, ByUnits
<1>2. Its("sampler")' = Its("sampler") /\ Its("analyzer")' = Its("analyzer")
  BY <1>1
<1>. QED
  BY <1>1, <1>2 DEF Rings

LEMMA EditedStays == Shape /\ [Next]_vars /\ ~edited' => ~edited
  BY MainStep, OthersStep DEF Next, Manages, Script, LaunchAnalyzer, LaunchSampler, LaunchProcessor, Launch,
     ContainerExits, ContainerStarts, UninstallPurge, UninstallStop, EditConfig, ProvideObjects, vars, config

LEMMA NextShareInv == Shape /\ PurgeInv /\ ShareInv /\ [Next]_vars => ShareInv'
<1>. SUFFICES ASSUME Shape, PurgeInv, ShareInv, [Next]_vars, ~edited' PROVE ShareInv'
  BY DEF ShareInv
<1>. USE DEF Shape
<1>a. \A d \in Daemons : Ready(d)' => Needs(d)' \subseteq files'
  <2>. SUFFICES ASSUME NEW d \in Daemons, Ready(d)' PROVE Needs(d)' \subseteq files'
    OBVIOUS
  <2>1. Needs(d)' = Needs(d) /\ Needs(d) \subseteq files
    BY ReadyStays, EditedStays DEF ShareInv
  <2>2. files \subseteq files'
    BY FilesGo DEF Ready
  <2>. QED
    BY <2>1, <2>2
<1>b. SUFFICES files' \subseteq Rings' /\ \A d \in Daemons : state'[d] \in Up => settings'[d] = Its(d)'
  BY <1>a DEF ShareInv
<1>1. ASSUME UninstallStop \/ ContainerExits
      PROVE  /\ \A d \in Daemons : state'[d] \in {state[d], "stopped"}
             /\ files' \subseteq files /\ OnlyWhoIsUp /\ UNCHANGED <<host, config>>
  BY <1>1 DEF UninstallStop, ContainerExits
<1>2. ASSUME UNCHANGED <<host, config>>, files' \subseteq Rings,
             \A d \in Daemons : state'[d] \in Up => settings'[d] = Its(d)
      PROVE  files' \subseteq Rings' /\ \A d \in Daemons : state'[d] \in Up => settings'[d] = Its(d)'
  BY <1>2, SettingsStay DEF config
<1>3. CASE UninstallStop \/ ContainerExits
  <2>1. ~edited /\ files \subseteq Rings /\ \A d \in Daemons : state[d] \in Up => settings[d] = Its(d)
    BY EditedStays DEF ShareInv
  <2>2. \A d \in Daemons : state'[d] \in Up => settings'[d] = Its(d)
    BY <1>1, <1>3, <2>1 DEF OnlyWhoIsUp, Up
  <2>. QED
    BY <1>1, <1>2, <1>3, <2>1, <2>2
<1>4. CASE EditConfig \/ UninstallPurge
  BY <1>4 DEF EditConfig, UninstallPurge
<1>5. CASE UNCHANGED <<host, config>>
  <2>1. ~edited /\ files \subseteq Rings /\ \A d \in Daemons : state[d] \in Up => settings[d] = Its(d)
    BY <1>5 DEF ShareInv, config
  <2>2. OnlyWhoIsUp => \A d \in Daemons : state'[d] \in Up => settings'[d] = settings[d]
    BY DEF OnlyWhoIsUp
  <2>3. ASSUME NEW e \in Daemons, Configure(e)
        PROVE  files' = files /\ \A d \in Daemons : state'[d] \in Up => settings'[d] = Its(d)
    <3>1. CASE Configures(e, Cli, env, fs)
      BY <2>1, <2>3, <3>1 DEF Configure, Up, Its
    <3>2. CASE ~Configures(e, Cli, env, fs)
      BY <2>1, <2>3, <3>2 DEF Configure, Up, Its
    <3>. QED
      BY <2>3, <3>1, <3>2 DEF Configure
  <2>4. ASSUME NEW e \in Daemons, OpenRing(e) \/ EnterLoop(e) \/ Crash(e)
        PROVE  files' = files /\ \A d \in Daemons : state'[d] \in Up => settings'[d] = Its(d)
    BY <2>1, <2>2, <2>4 DEF OpenRing, EnterLoop, Crash, Up
  <2>5. ASSUME NEW e \in Daemons, CreateRing(e)
        PROVE  files' \subseteq Rings /\ \A d \in Daemons : state'[d] \in Up => settings'[d] = Its(d)
    <3>1. state[e] = "opened" /\ files' = files \cup Makes(e) /\ settings[e] = Its(e)
      BY <2>1, <2>5 DEF CreateRing, Up
    <3>2. Makes(e) \subseteq Rings
      BY <2>1, <3>1, OpenedIsShared DEF Makes, Rings, Daemons, Ready
    <3>3. \A d \in Daemons : state'[d] \in Up => settings'[d] = Its(d)
      BY <2>1, <2>2, <2>5 DEF CreateRing, Up
    <3>. QED
      BY <2>1, <3>1, <3>2, <3>3
  <2>6. ASSUME NEW e \in Daemons, Manages(e)
        PROVE  files' = files /\ \A d \in Daemons : state'[d] \in Up => settings'[d] = Its(d)
    <3>1. files' = files /\ \A d \in Daemons : state'[d] \in Up => state[d] = state'[d]
      BY <2>6, OthersStep DEF Up
    <3>2. OnlyWhoIsUp \/ UNCHANGED settings
      BY <2>6, OthersStep
    <3>. QED
      BY <2>1, <2>2, <3>1, <3>2
  <2>7. ASSUME LaunchAnalyzer \/ LaunchSampler \/ LaunchProcessor \/ ContainerStarts
               \/ ProvideObjects \/ UNCHANGED vars
        PROVE  files' = files /\ \A d \in Daemons : state'[d] \in Up => settings'[d] = Its(d)
    BY <2>1, <2>7 DEF LaunchAnalyzer, LaunchSampler, LaunchProcessor, Launch, ContainerStarts, ProvideObjects,
                      vars, Up, Daemons
  <2>. QED
    BY <1>2, <1>3, <1>4, <1>5, <2>1, <2>3, <2>4, <2>5, <2>6, <2>7
       DEF Next, Main, Manages, Script
<1>6. UNCHANGED <<host, config>> \/ UninstallPurge \/ EditConfig
  BY MainStep, OthersStep DEF Next, Manages, Script, LaunchAnalyzer, LaunchSampler, LaunchProcessor, Launch,
     ContainerExits, ContainerStarts, UninstallStop, ProvideObjects, vars
<1>. QED
  BY <1>3, <1>4, <1>5, <1>6

\* RunningShare: three daemons that all run share both rings, unless somebody
\* edited the configuration meanwhile, whatever names it gives to them.
THEOREM RunningDaemonsShare == Spec => []RunningShare
<1>1. Init => PurgeInv /\ ShareInv
  BY DEF Init, PurgeInv, ShareInv, InContainer, Up, Ready
<1>2. ShareInv => RunningShare
  <2>. SUFFICES ASSUME ShareInv, AllRun, ~edited PROVE RunningShare
    BY DEF RunningShare
  <2>1. \A d \in Daemons : settings[d] = Its(d) /\ Ready(d)
    BY DEF ShareInv, AllRun, Up, Ready
  <2>2. Its("sampler").samples = Its("analyzer").samples
    BY <2>1, OpenedIsShared DEF Daemons
  <2>. QED
    BY <2>1, <2>2, SameRules DEF RunningShare, Daemons
<1>. QED
  BY <1>1, <1>2, NextPurgeInv, NextShareInv, ShapeAlways, PTL DEF Spec

-----------------------------------------------------------------------------
\* Of the places of the chain, the first is taken if it exists.
LEMMA FirstPlaceIsTaken ==
  ASSUME NEW path, NEW other, NEW there, path \in DOMAIN there
  PROVE  ResolvePath(path, other, there) = path
<1>. DEFINE found == {i \in DOMAIN Chain(path, other) : Chain(path, other)[i] \in DOMAIN there}
<1>1. Chain(path, other)[1] = path /\ DOMAIN Chain(path, other) = 1..7
  BY DEF Chain
<1>2. 1 \in found /\ \A i \in found : 1 <= i
  BY <1>1
<1>3. Min(found) \in found /\ \A i \in found : Min(found) <= i
  BY <1>2 DEF Min
<1>4. Min(found) = 1
  BY <1>1, <1>2, <1>3
<1>. QED
  BY <1>1, <1>2, <1>4 DEF ResolvePath

\* What holds in place of ChainHonoured, unless somebody edits the files: the
\* sampler has what the chain finds; so have the analyzer and the processor
\* under systemd, whose units name a file, as long as that is there; by hand and
\* in a container, where they are given none, both have the defaults.
ChainHonouredOrDefault ==
  ~edited => \A d \in Daemons : state[d] \in Up =>
    /\ (d = "sampler" \/ (ByUnits /\ EtcToml \in DOMAIN fs)) =>
         settings[d].rules = Setting(ResolvePath(Cli, env, fs), fs, "rules_shm_name")
    /\ (d # "sampler" /\ ~ByUnits) =>
         settings[d] = [samples |-> Defaults.samples_shm_name,
                        rules |-> Defaults.rules_shm_name, listen |-> Defaults.listen]

\* ChainHonouredOrDefault: how far the chain of places that the documentation
\* gives for a configuration is followed (config.rs, each main.rs, the units).
THEOREM ChainIsHonouredOrDefault == Spec => []ChainHonouredOrDefault
<1>1. Init => PurgeInv /\ ShareInv
  BY DEF Init, PurgeInv, ShareInv, InContainer, Up, Ready
<1>2. ShareInv => ChainHonouredOrDefault
  <2>. SUFFICES ASSUME ShareInv, ~edited, NEW d \in Daemons, state[d] \in Up
                PROVE  /\ (d = "sampler" \/ (ByUnits /\ EtcToml \in DOMAIN fs)) =>
                            settings[d].rules = Setting(ResolvePath(Cli, env, fs), fs, "rules_shm_name")
                       /\ (d # "sampler" /\ ~ByUnits) =>
                            settings[d] = [samples |-> Defaults.samples_shm_name,
                                           rules |-> Defaults.rules_shm_name, listen |-> Defaults.listen]
    BY DEF ChainHonouredOrDefault
  <2>1. settings[d] = Settings(d, Cli, env, fs)
    BY DEF ShareInv, Its
  <2>2. CASE d = "sampler"
    BY <2>1, <2>2 DEF Settings, PathOf
  <2>3. ASSUME d # "sampler", ByUnits, EtcToml \in DOMAIN fs
        PROVE  settings[d].rules = Setting(ResolvePath(Cli, env, fs), fs, "rules_shm_name")
    <3>1. Cli = EtcToml /\ ResolvePath(Cli, env, fs) = Cli
      BY <2>3, FirstPlaceIsTaken DEF Cli
    <3>. QED
      BY <2>1, <2>3, <3>1 DEF Settings, PathOf
  <2>4. ASSUME d # "sampler", ~ByUnits
        PROVE  settings[d] = [samples |-> Defaults.samples_shm_name,
                              rules |-> Defaults.rules_shm_name, listen |-> Defaults.listen]
    <3>1. PathOf(d, Cli, env, fs) = NoPath
      BY <2>4 DEF PathOf, Cli
    <3>2. \A key \in {"samples_shm_name", "rules_shm_name", "listen"} :
            Setting(NoPath, fs, key) = Defaults[key]
      BY DEF Setting
    <3>. QED
      BY <2>1, <2>4, <3>1, <3>2 DEF Settings, Defaults
  <2>. QED
    BY <2>2, <2>3, <2>4
<1>. QED
  BY <1>1, <1>2, NextPurgeInv, NextShareInv, ShapeAlways, PTL DEF Spec

-----------------------------------------------------------------------------
\* Usable, the hypothesis of EventuallyAllRun and StartsOnceSampled, in terms of
\* the files.  Under systemd, where the units' file loads, the daemons find each
\* other if and only if it gives the samples ring one name under both its keys
\* and an address that can be served.
THEOREM UsableByUnits ==
  ASSUME ByUnits, Loads(EtcToml, fs)
  PROVE  Usable <=> /\ Setting(EtcToml, fs, "shm_name") = Setting(EtcToml, fs, "samples_shm_name")
                    /\ Setting(EtcToml, fs, "listen") \in {"unix", "tcp"}
<1>1. Cli = EtcToml /\ \A d \in Daemons : PathOf(d, Cli, env, fs) = EtcToml
  <2>1. Cli = EtcToml /\ ResolvePath(EtcToml, env, fs) = EtcToml
    BY FirstPlaceIsTaken DEF Cli, Loads
  <2>. QED
    BY <2>1 DEF PathOf
<1>2. \A d \in Daemons : Configures(d, Cli, env, fs)
  BY <1>1 DEF Configures
<1>3. /\ Its("sampler").samples = Setting(EtcToml, fs, "shm_name")
      /\ Its("analyzer").samples = Setting(EtcToml, fs, "samples_shm_name")
      /\ Its("analyzer").listen = Setting(EtcToml, fs, "listen")
  BY <1>1 DEF Its, Settings, Daemons
<1>. QED
  BY <1>2, <1>3, SameRules DEF Usable, Its

\* By hand and in a container, where analyzer and processor take the defaults,
\* they do if and only if the file that the sampler finds, if any, loads and
\* leaves the samples ring its default name: renaming it in both keys is no
\* good there.
THEOREM UsableWithoutUnits ==
  ASSUME ~ByUnits
  PROVE  Usable <=> /\ Configures("sampler", Cli, env, fs)
                    /\ Setting(ResolvePath(Cli, env, fs), fs, "shm_name") = Defaults.samples_shm_name
<1>1. \A d \in Daemons \ {"sampler"} : PathOf(d, Cli, env, fs) = NoPath
  BY DEF PathOf, Cli
<1>2. \A d \in Daemons \ {"sampler"} : Configures(d, Cli, env, fs)
  BY <1>1 DEF Configures
<1>3. /\ Its("sampler").samples = Setting(ResolvePath(Cli, env, fs), fs, "shm_name")
      /\ Its("analyzer").samples = Defaults.samples_shm_name
      /\ Its("analyzer").listen = "unix"
  <2>1. Its("sampler").samples = Setting(ResolvePath(Cli, env, fs), fs, "shm_name")
    BY DEF Its, Settings, PathOf
  <2>2. PathOf("analyzer", Cli, env, fs) = NoPath
    BY <1>1 DEF Daemons
  <2>3. /\ Setting(NoPath, fs, "samples_shm_name") = Defaults.samples_shm_name
        /\ Setting(NoPath, fs, "listen") = "unix"
    BY DEF Setting, Defaults
  <2>. QED
    BY <2>1, <2>2, <2>3 DEF Its, Settings
<1>4. "sampler" \in Daemons
  BY DEF Daemons
<1>. QED
  BY <1>2, <1>3, <1>4, SameRules DEF Usable, Its
=============================================================================
