----------------------------- MODULE Deployment -----------------------------
(***************************************************************************)
(* How the three daemons come up: under systemd or by hand                 *)
(* (deploy/install.sh), or in the container (deploy/docker-entrypoint.sh). *)
(* Each first needs its rings: the sampler creates the samples file; the   *)
(* analyzer opens it, then creates the rules file; the processor opens     *)
(* that.  Then the sampler and the processor load an eBPF object, which    *)
(* nothing in deploy/ installs, and attach it to their interface, and the  *)
(* analyzer serves its API.  A daemon that cannot exits with an error.     *)
(* systemd restarts each by itself; by hand, nobody does; the entrypoint   *)
(* starts the analyzer, a second later the others, and ends the container  *)
(* as soon as one has exited; with it goes its /dev/shm, unless it was run *)
(* with one that outlives it (docker run --ipc=host).                      *)
(* Under which names they look for the rings is up to the configuration    *)
(* each of them reads when it starts, and which the operator may edit.     *)
(***************************************************************************)
EXTENDS Config

CONSTANTS Hosts,         \* of "systemd", "by hand", "docker" and "docker on host ipc"
          FileSystems,   \* the configuration files there may be
          Environments,  \* what FLOWFANG_CONFIG may be, but for the units
          ObjectSets,    \* which programs there may be to load and attach
          MaxCrashes,    \* bound: crashes of daemons
          MaxAdmin       \* bound: commands and edits by the operator

ASSUME HostAssumption == Hosts \subseteq {"systemd", "by hand", "docker", "docker on host ipc"}
ASSUME BoundAssumption == MaxCrashes \in Nat /\ MaxAdmin \in Nat

Daemons == {"sampler", "analyzer", "processor"}
Attachers == {"sampler", "processor"}   \* those that attach an eBPF program

VARIABLES host,          \* where they run
          state,         \* of each daemon
          settings,      \* what each that is up has read
          files,         \* the rings' files that exist, by name
          fs, env,       \* the configuration files, and FLOWFANG_CONFIG
          edited,        \* history: whether the files were ever changed
          attachable,    \* whose object is at --ebpf-path, and interface there
          script,        \* the next line of the entrypoint, or of uninstall.sh
          spared,        \* history: whom uninstall.sh did not stop
          crashes, admin

config == <<fs, env, edited>>
vars == <<host, state, settings, files, config, attachable, script, spared, crashes, admin>>

Up == {"configured", "opened", "made", "running"}
Unread == [samples |-> "none", rules |-> "none", listen |-> "none"]

\* What a process has read is gone with it.
OnlyWhoIsUp == settings' = [d \in Daemons |-> IF state'[d] \in Up THEN settings[d] ELSE Unread]

InContainer == host \in {"docker", "docker on host ipc"}
ByUnits == host = "systemd"

Init == /\ host \in Hosts
        /\ state = [d \in Daemons |-> "stopped"]
        /\ settings = [d \in Daemons |-> Unread]
        /\ files = {}
        /\ fs \in FileSystems /\ edited = FALSE
        /\ env \in IF ByUnits THEN {NoPath} ELSE Environments
        /\ attachable \in ObjectSets /\ spared = {}
        /\ script = IF InContainer THEN "analyzer" ELSE "installed"
        /\ crashes = 0 /\ admin = 0

\* --config in the units' ExecStart; the entrypoint and install.sh's hint for a
\* start by hand give none.
Cli == IF ByUnits THEN EtcToml ELSE NoPath

\* What each daemon's main needs and makes before it is up.
Needs(d) == CASE d = "sampler" -> {}
              [] d = "analyzer" -> {settings[d].samples}
              [] d = "processor" -> {settings[d].rules}
Makes(d) == CASE d = "sampler" -> {settings[d].samples}
              [] d = "analyzer" -> {settings[d].rules}
              [] d = "processor" -> {}

-----------------------------------------------------------------------------
\* A configuration that cannot be read or parsed ends main with an error,
Configure(d) ==
  /\ state[d] = "starting"
  /\ IF Configures(d, Cli, env, fs)
     THEN /\ settings' = [settings EXCEPT ![d] = Settings(d, Cli, env, fs)]
          /\ state' = [state EXCEPT ![d] = "configured"]
     ELSE state' = [state EXCEPT ![d] = "failed"] /\ UNCHANGED settings
  /\ UNCHANGED <<host, files, config, script, crashes, admin, attachable, spared>>

\* Mutant of OpenRing: a missing ring is made.
OpenRingOrMake(d) ==
  /\ state[d] = "configured"
  /\ state' = [state EXCEPT ![d] = "opened"] /\ files' = files \cup Needs(d)
  /\ UNCHANGED <<host, settings, config, script, crashes, admin, attachable, spared>>

\* and so does opening a ring that is not there.
OpenRing(d) ==
  /\ state[d] = "configured"
  /\ state' = [state EXCEPT ![d] = IF Needs(d) \subseteq files THEN "opened" ELSE "failed"]
  /\ OnlyWhoIsUp /\ UNCHANGED <<host, files, config, script, crashes, admin, attachable, spared>>

CreateRing(d) ==
  /\ state[d] = "opened"
  /\ files' = files \cup Makes(d)
  /\ state' = [state EXCEPT ![d] = "made"]
  /\ OnlyWhoIsUp /\ UNCHANGED <<host, config, script, crashes, admin, attachable, spared>>

\* Whether a daemon gets from its rings to its loop: the sampler and the
\* processor load and attach their program, the analyzer serves its API if it
\* can tell where.
Enters(d) == IF d \in Attachers THEN d \in attachable ELSE settings[d].listen \in {"unix", "tcp"}

EnterLoop(d) ==
  /\ state[d] = "made"
  /\ state' = [state EXCEPT ![d] = IF Enters(d) THEN "running" ELSE "failed"]
  /\ OnlyWhoIsUp /\ UNCHANGED <<host, files, config, script, crashes, admin, attachable, spared>>

\* A daemon dies, or somebody kills it.
Crash(d) ==
  /\ state[d] \in Up \cup {"starting"} /\ crashes < MaxCrashes
  /\ state' = [state EXCEPT ![d] = "failed"]
  /\ crashes' = crashes + 1
  /\ OnlyWhoIsUp /\ UNCHANGED <<host, files, config, script, admin, attachable, spared>>

-----------------------------------------------------------------------------
\* Who declares Requires= of a unit: the sampler and the processor, of the
\* analyzer.
Requiring(d) == IF d = "analyzer" THEN Daemons \ {d} ELSE {}

\* The states of the daemons after some of those that are up start afresh.
Restarted(afresh) == [e \in Daemons |-> IF e \in afresh THEN "starting" ELSE state[e]]

Settled(d) == state[d] \in {"running", "failed"}

\* Mutants of UnitRestart: the processor's unit lacks Restart=always; or
\* Requires= is declared the other way around.
UnitRestartNotProcessor(d) ==
  /\ ByUnits /\ script = "installed" /\ state[d] = "failed" /\ d # "processor"
  /\ state' = Restarted({d})
  /\ OnlyWhoIsUp /\ UNCHANGED <<host, files, config, script, crashes, admin, attachable, spared>>

UnitRestartReversed(d) ==
  /\ ByUnits /\ script = "installed" /\ state[d] = "failed"
  /\ \E along \in SUBSET {e \in Daemons : d \in Requiring(e) /\ Settled(e)} :
       state' = Restarted({d} \cup along)
  /\ OnlyWhoIsUp /\ UNCHANGED <<host, files, config, script, crashes, admin, attachable, spared>>

\* Restart=always.  Whether the restart of the analyzer takes along those that
\* require it depends on systemd: any of them may be, of those that have come
\* up or failed, for which RestartSec=5 left them the time.
UnitRestart(d) ==
  /\ ByUnits /\ script = "installed" /\ state[d] = "failed"
  /\ \E along \in SUBSET {e \in Requiring(d) : Settled(e)} :
       state' = Restarted({d} \cup along)
  /\ OnlyWhoIsUp /\ UNCHANGED <<host, files, config, script, crashes, admin, attachable, spared>>

\* systemctl start: Requires= starts the analyzer along, without an order.
UnitStart(d) ==
  /\ ByUnits /\ script = "installed"
  /\ state[d] = "stopped" /\ admin < MaxAdmin
  /\ state' = [e \in Daemons |-> IF e \in {d, "analyzer"} /\ state[e] = "stopped"
                                 THEN "starting" ELSE state[e]]
  /\ admin' = admin + 1
  /\ UNCHANGED <<host, settings, files, config, script, crashes, attachable, spared>>

\* systemctl stop: of the analyzer, those that require it, too.
UnitStop(d) ==
  /\ ByUnits /\ state[d] # "stopped" /\ admin < MaxAdmin
  /\ state' = [e \in Daemons |-> IF e \in {d} \cup Requiring(d) THEN "stopped" ELSE state[e]]
  /\ admin' = admin + 1
  /\ OnlyWhoIsUp /\ UNCHANGED <<host, files, config, script, crashes, attachable, spared>>

\* Without systemctl, somebody starts the daemons, and starts them again.
HandStart(d) ==
  /\ host = "by hand" /\ script = "installed"
  /\ state[d] \in {"stopped", "failed"} /\ admin < MaxAdmin
  /\ state' = [state EXCEPT ![d] = "starting"]
  /\ admin' = admin + 1
  /\ UNCHANGED <<host, settings, files, config, script, crashes, attachable, spared>>

\* uninstall.sh: with systemctl, stop the services (an error of which it
\* ignores, so that any of them may go on) and remove the units; without,
\* nothing of this.
UninstallStop ==
  /\ ~InContainer /\ script = "installed" /\ admin < MaxAdmin
  /\ LET up == {d \in Daemons : state[d] # "stopped"}
     IN spared' \in IF ByUnits THEN SUBSET up ELSE {up}
  /\ state' = [d \in Daemons |-> IF d \in spared' THEN state[d] ELSE "stopped"]
  /\ script' = "purge" /\ admin' = admin + 1
  /\ OnlyWhoIsUp /\ UNCHANGED <<host, files, config, crashes, attachable>>

Etc == {EtcToml, "/etc/flowfang/config.yaml", "/etc/flowfang/config.yml"}

\* Mutant of UninstallPurge: the files go first.
UninstallPurgeFirst ==
  /\ ~InContainer /\ script \in {"installed", "purge"}
  /\ files' = {} /\ fs' = [p \in DOMAIN fs \ Etc |-> fs[p]] /\ edited' = TRUE
  /\ script' = "ended" /\ UNCHANGED <<host, state, settings, env, crashes, admin, attachable, spared>>

\* Then it removes the binaries, the configuration and the rings' files.
UninstallPurge ==
  /\ ~InContainer /\ script = "purge"
  /\ files' = {} /\ fs' = [p \in DOMAIN fs \ Etc |-> fs[p]] /\ edited' = TRUE
  /\ script' = "ended" /\ UNCHANGED <<host, state, settings, env, crashes, admin, attachable, spared>>

\* The operator edits the configuration; who runs goes on with what it has read.
EditConfig ==
  /\ script # "ended" /\ admin < MaxAdmin
  /\ \E new \in FileSystems \ {fs} : fs' = new
  /\ edited' = TRUE /\ admin' = admin + 1
  /\ UNCHANGED <<host, state, settings, files, env, script, crashes, attachable, spared>>

\* The operator installs or removes an object, or an interface comes or goes; a
\* daemon that has attached its program to it goes on.
ProvideObjects ==
  /\ script # "ended" /\ admin < MaxAdmin
  /\ attachable' \in ObjectSets \ {attachable}
  /\ admin' = admin + 1
  /\ UNCHANGED <<host, state, settings, files, config, script, crashes, spared>>

-----------------------------------------------------------------------------
\* The entrypoint: start the analyzer and sleep a second, in which it comes up
\* (or fails to); then start the sampler and the processor.
Launch(d, next) ==
  /\ InContainer /\ script = d
  /\ state' = [state EXCEPT ![d] = "starting"] /\ script' = next
  /\ UNCHANGED <<host, settings, files, config, crashes, admin, attachable, spared>>

LaunchAnalyzer == Launch("analyzer", "sampler")
LaunchSampler == state["analyzer"] \in {"running", "failed"} /\ Launch("sampler", "processor")
LaunchProcessor == Launch("processor", "wait")

\* Mutant of ContainerExits: /dev/shm never outlives it.
ContainerExitsPrivate ==
  /\ InContainer /\ script = "wait"
  /\ \E d \in Daemons : state[d] = "failed"
  /\ state' = [d \in Daemons |-> "stopped"] /\ files' = {} /\ script' = "ended"
  /\ OnlyWhoIsUp /\ UNCHANGED <<host, config, crashes, admin, attachable, spared>>

\* `wait -n` returns: the script kills the rest and ends, and so does the
\* container.  Somebody may start it again.
ContainerExits ==
  /\ InContainer /\ script = "wait"
  /\ \E d \in Daemons : state[d] = "failed"
  /\ state' = [d \in Daemons |-> "stopped"] /\ script' = "ended"
  /\ files' = IF host = "docker on host ipc" THEN files ELSE {}
  /\ OnlyWhoIsUp /\ UNCHANGED <<host, config, crashes, admin, attachable, spared>>

ContainerStarts ==
  /\ InContainer /\ script = "ended"
  /\ script' = "analyzer"
  /\ UNCHANGED <<host, state, settings, files, config, crashes, admin, attachable, spared>>

-----------------------------------------------------------------------------
Main(d) == Configure(d) \/ OpenRing(d) \/ CreateRing(d) \/ EnterLoop(d)
Script == \/ LaunchAnalyzer \/ LaunchSampler \/ LaunchProcessor
          \/ ContainerExits \/ ContainerStarts \/ UninstallPurge

Next == \/ \E d \in Daemons : \/ Main(d) \/ Crash(d) \/ HandStart(d)
                             \/ UnitRestart(d) \/ UnitStart(d) \/ UnitStop(d)
        \/ Script \/ UninstallStop \/ EditConfig \/ ProvideObjects

\* A daemon goes on, systemd restarts what failed, the script runs, and the
\* container is started again whenever it has ended.
Spec == /\ Init /\ [][Next]_vars
        /\ \A d \in Daemons : WF_vars(Main(d)) /\ WF_vars(UnitRestart(d))
        /\ WF_vars(Script)

-----------------------------------------------------------------------------
Names == [samples : STRING, rules : STRING, listen : STRING]

TypeOK == /\ host \in Hosts
          /\ state \in [Daemons -> {"stopped", "starting", "configured", "opened", "made", "running", "failed"}]
          /\ settings \in [Daemons -> Names]
          /\ files \subseteq STRING /\ DOMAIN fs \subseteq Tomls \cup Yamls
          /\ env \in Environments \cup {NoPath} /\ edited \in BOOLEAN
          /\ attachable \in ObjectSets /\ spared \subseteq Daemons
          /\ script \in {"analyzer", "sampler", "processor", "wait", "installed", "purge", "ended"}
          /\ crashes \in 0..MaxCrashes /\ admin \in 0..MaxAdmin

AllRun == \A d \in Daemons : state[d] = "running"

\* What the configuration must be for the daemons to find each other, wherever
\* each of them reads it.
Usable ==
  LET its(d) == Settings(d, Cli, env, fs)
  IN /\ \A d \in Daemons : Configures(d, Cli, env, fs)
     /\ its("sampler").samples = its("analyzer").samples
     /\ its("analyzer").rules = its("processor").rules
     /\ its("analyzer").listen \in {"unix", "tcp"}

Attachable == Attachers \subseteq attachable

\* "systemctl start": the three units have been started and none is stopped again.
StartedUnits == ByUnits /\ <>[](\A d \in Daemons : state[d] # "stopped")

\* In whatever order the units are started, and although each fails until the
\* one before it has made its ring, or somebody has installed its program: if
\* all three have been started, none is stopped again, the configuration is
\* usable and stays as it is, and in the end both programs can be loaded and
\* attached, then all three end up running.
EventuallyAllRun == (StartedUnits /\ [](Usable /\ ~edited) /\ <>[]Attachable) => <>[]AllRun

\* As the documents have it, that last condition is none: flow-ebpf "embeds the
\* compiled `sampler.bpf.o`" (flow-ebpf/CONTEXT.md:9, and 17), and install.sh:116
\* ends with how "to start FlowFang".
EventuallyAllRunAsInstalled == (StartedUnits /\ [](Usable /\ ~edited)) => <>[]AllRun

\* Three daemons that all run share their rings: the analyzer reads the one
\* that the sampler fills, and the processor the one that the analyzer fills.
\* A file of the right name is there only if the peer has made it, unless the
\* configuration was edited while they ran.
RunningShare ==
  (AllRun /\ ~edited) => /\ settings["sampler"].samples = settings["analyzer"].samples
                         /\ settings["analyzer"].rules = settings["processor"].rules

\* "Work between independent processes (one crashing doesn't affect the other)"
\* (docs/adr/0002), as far as the units keep it: outside the container, what
\* runs goes down only by its own crash, by a command, or in the restart of an
\* analyzer that failed; no other crash costs the analyzer its rules and counters.
CrashStaysLocal ==
  [][\A d \in Daemons :
       (state[d] = "running" /\ state'[d] # "running") =>
         \/ InContainer \/ Crash(d) \/ UninstallStop \/ \E e \in Daemons : UnitStop(e)
         \/ state["analyzer"] = "failed" /\ d # "analyzer"]_vars

\* No daemon goes on with a ring whose file is gone (it would share it with
\* nobody, while the daemons started later make and use another), but for those
\* that uninstall.sh did not stop before it removed the files.
OpenHasRing ==
  \A d \in Daemons : state[d] \in {"opened", "made", "running"} => d \in spared \/ Needs(d) \subseteq files

\* "Stops all services, removes binaries, configs, and shared memory"
\* (uninstall.sh:3), in this order: nobody is left running without its ring.
UninstallStopsAll ==
  \A d \in Daemons : state[d] \in {"opened", "made", "running"} => Needs(d) \subseteq files

\* "Starts all three components." (docker-entrypoint.sh:3): if the container is
\* started whenever it ends, in the end all three run, and go on running.
StartsAllThree == <>[]AllRun

\* What it takes: once a sampler has lived long enough to make the samples file
\* and that outlives the container, all three do come to run, crashes or not,
\* if the configuration is usable and stays as it is and both programs, which
\* the image lacks, can in the end be loaded and attached.
StartsOnceSampled ==
  (host = "docker on host ipc" /\ [](Usable /\ ~edited) /\ <>[]Attachable /\ <>(files # {}))
    => StartsAllThree

\* "listen = \"0.0.0.0:9090\"" (flow-analyzer/CONTEXT.md:28) is an address the
\* analyzer serves: whatever the address, units that are started come to run.
AnyListenServes == StartedUnits => <>[]AllRun

\* "Configuration is resolved with this priority" (config.rs:4): a daemon that is
\* up has the names that the chain finds for it.
ChainHonoured ==
  \A d \in Daemons : (state[d] = "configured" /\ ~edited) =>
    LET path == ResolvePath(Cli, env, fs)
    IN settings[d].rules = Setting(path, fs, "rules_shm_name")
=============================================================================
