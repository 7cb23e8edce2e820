------------------------------- MODULE Config -------------------------------
(***************************************************************************)
(* Which configuration each daemon starts with                             *)
(* (crates/flow-common/src/config.rs and the head of each main.rs).        *)
(*                                                                         *)
(* A file system maps the paths of the files that exist to their contents: *)
(* whether they parse, and the top-level keys they set, as a function from *)
(* keys to values.  A key inside a section, such as the installer writes,  *)
(* is one that no daemon reads and is not among them.                      *)
(***************************************************************************)
EXTENDS Naturals, FiniteSetsExt

NoPath == "none"

EtcToml == "/etc/flowfang/config.toml"
Tomls == {EtcToml, "./config/default.toml"}
Yamls == {"/etc/flowfang/config.yaml", "/etc/flowfang/config.yml",
          "./config/default.yaml", "/opt/flowfang.yaml"}

\* The places resolve_config_path looks at, in this order.
Chain(cli, env) ==
  <<cli, env, EtcToml, "/etc/flowfang/config.yaml", "/etc/flowfang/config.yml",
    "./config/default.toml", "./config/default.yaml">>

\* The first of them that exists: a path given but missing is passed over.
ResolvePath(cli, env, fs) ==
  LET found == {i \in DOMAIN Chain(cli, env) : Chain(cli, env)[i] \in DOMAIN fs}
  IN IF found = {} THEN NoPath ELSE Chain(cli, env)[Min(found)]

\* load_config: the file must be there, have a known extension, and parse.
Loads(path, fs) == path \in DOMAIN fs /\ path \in Tomls \cup Yamls /\ fs[path].parses

\* #[serde(default)]: what a file does not set.
Defaults == [shm_name |-> "flowfang-samples", samples_shm_name |-> "flowfang-samples",
             rules_shm_name |-> "flowfang-rules", listen |-> "unix"]

Setting(path, fs, key) ==
  IF path # NoPath /\ key \in DOMAIN fs[path].keys THEN fs[path].keys[key] ELSE Defaults[key]

\* The sampler alone resolves its path; the others take --config or nothing.
PathOf(daemon, cli, env, fs) == IF daemon = "sampler" THEN ResolvePath(cli, env, fs) ELSE cli

\* Whether a daemon gets past its configuration (without a file there are the
\* command line and the defaults) ...
Configures(daemon, cli, env, fs) ==
  LET path == PathOf(daemon, cli, env, fs) IN path = NoPath \/ Loads(path, fs)

\* ... and what it then takes for the two rings and the address to listen on.
\* The samples ring goes by one key in the sampler and another in the analyzer.
Settings(daemon, cli, env, fs) ==
  LET path == PathOf(daemon, cli, env, fs)
  IN [samples |-> Setting(path, fs, IF daemon = "sampler" THEN "shm_name" ELSE "samples_shm_name"),
      rules   |-> Setting(path, fs, "rules_shm_name"),
      listen  |-> Setting(path, fs, "listen")]
=============================================================================
