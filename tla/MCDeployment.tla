---------------------------- MODULE MCDeployment ----------------------------
(***************************************************************************)
(* Instances of Deployment for TLC: on all hosts, with configurations that *)
(* leave everything to the defaults (as the installed one does), rename    *)
(* the rings consistently (with a file of the operator's own, for          *)
(* FLOWFANG_CONFIG, that does not parse), or rename the samples ring for   *)
(* the sampler only; as installed, without the eBPF objects, or with them; *)
(* and what shows the disagreements.                                       *)
(***************************************************************************)
EXTENDS Deployment, TLC

File(keys) == [parses |-> TRUE, keys |-> keys]
Installed == EtcToml :> File(<<>>)
Renamed == EtcToml :> File([shm_name |-> "s", samples_shm_name |-> "s", rules_shm_name |-> "r"])
HalfRenamed == EtcToml :> File([shm_name |-> "s"])
BareListen == EtcToml :> File([listen |-> "bare"])
BrokenOwn == "/opt/flowfang.yaml" :> [parses |-> FALSE, keys |-> <<>>]

AllFileSystems == {Installed, HalfRenamed, Renamed @@ BrokenOwn}
InstalledOnly == {Installed}
BareOnly == {BareListen}
RenamedOnly == {Renamed}

Programs == {Attachers}
ProgramsOrNone == {{}, Attachers}
=============================================================================
