# FlowFang: specifications, model checking and proofs

FlowFang watches and filters the traffic of a network interface. A *sampler*
copies a record of each packet to user space, an *analyzer* keeps statistics and
the list of DPI fingerprint rules behind an HTTP API, a *processor* installs
those rules in kernel maps that an eBPF program consults for each packet, and a
*terminal dashboard* (TUI) shows and edits it all. The daemons are processes of
their own that share two ring buffers in `/dev/shm`.

This directory specifies the program's concurrent core in TLA+, checks it with
TLC on small instances, and proves its safety properties for all parameters with
TLAPS, for every component. `PROJECT.json` lists the components, runs,
mutants, the source lines of each definition, findings, hazards and theorems.

    tlc -workers 2 -config MCRuleSync.cfg MCRuleSync.tla     # one run
    tlapm ShmRing_proofs.tla                                 # one component's proofs

## 1. Inventory

Paths are relative to `src/`; `shm.rs` is `crates/flow-common/src/shm.rs`, and
so on for names that are unique.

| Component | State | Operations | Talks to |
|---|---|---|---|
| Ring, use (`shm.rs` 145-197) | header (write index, read index, capacity) and slots in a mapped file | `try_push`, `try_pop` | one producer and one consumer process, through atomics with Acquire/Release only |
| Ring, set-up (`shm.rs` 69-143) | existence and size of the file, header | `create`, `open` | whatever else opens the file, restarts |
| Analyzer API (`api.rs`) | `fingerprints` behind a `RwLock`; producer end of the rules ring | POST and DELETE of fingerprints; GET stats, fingerprints, status; SSE events | TUI and other clients by HTTP, processor by the ring |
| Analyzer statistics (`stats.rs`, analyzer `main.rs`) | `TrafficStats` behind a `RwLock`; consumer end of the samples ring | consumer thread, `record_sample`, `top_flows` | sampler by the ring, API handlers by the lock |
| Processor daemon (processor `main.rs`, `flow-ebpf/processor.rs`) | `running` flag, popped rule, two BPF maps | main loop, `write_rule`, `remove_rule`, `detach`, signal thread | analyzer by the ring, kernel program by the maps |
| Processor eBPF program (`ebpf/processor.bpf.rs`) | none but the maps | scan, match, act, per packet | daemon by the maps |
| Sampler eBPF program and daemon (`ebpf/sampler.bpf.rs`, sampler `main.rs`) | kernel ring buffer | reserve, fill, submit; forward to the samples ring | packets on every CPU, analyzer |
| eBPF loading (`flow-ebpf/*.rs`, both daemons' `main.rs`) | the loaded program, `attached`, the kernel's TC hook | `load`, `attach`, `detach`, `Drop`, signals | kernel, the other daemon's program on the same hook |
| TUI (`flow-analyzer-tui/main.rs`) | poller task, UI state, event channel | connection, poll cycle, event loop, keys, API calls | analyzer by HTTP |
| TUI event listener (same file, 410-454) | buffer of a stream | connect, take chunks, cut frames, reconnect | `/api/events`, UI loop by the channel |
| Deployment (`deploy/*`) | which daemons run, which ring files, eBPF objects and interfaces exist | systemd units, starts by hand, container entrypoint, uninstaller | all daemons |
| Configuration (`config.rs`, each `main.rs`) | none: read once | choose a path, load, defaults | start of each daemon |
| Rule encoding (`types.rs`) | none | fingerprint to `RuleUpdate`, action to code and back | API, processor, kernel program |

What is hard to get right, and to test: two processes on plain memory ordered by
two indices only, either of which may die between any two accesses; a file
that is visible before it is usable; HTTP handlers that share the one
producer end of a ring; a list, a queue and two maps that should say the same
while any of the three processes involved may restart; a kernel program that
reads two maps one after the other while they are written one after the other;
queues that drop when full, at two places in a row; a lock that is tried, not
taken; a cursor that is an index in a list that is replaced under it; prompts
that outlive refreshes; calls without a time limit; a text cut into chunks at
any byte; two programs on one hook, and processes that die before they take
theirs off; daemons that meet only if each reads the same names in files they
find in different ways; start-up orders. Section "hazards" of `PROJECT.json` has
each at its line with the properties about it.

What makes each component correct:

* ring: items are delivered whole, once, in order, and in the end; plain
  accesses never meet; full and empty are told apart across the wrap;
* set-up: one process initialises, nobody erases, everyone ends with a working ring
  but who has mapped one page of a file that was still empty;
* rule distribution: list, updates on their way and kernel maps agree; no rule stays
  half applied, but where a processor is killed in the middle of it and the kernel keeps
  its program; one producer at a time; SIGTERM ends in a detach;
* kernel program: pattern and action applied belong to one rule, unless the daemon
  writes that very key meanwhile, and an installed rule is not passed over;
* samples and statistics: an answer of the API is consistent, order is kept per
  CPU, nothing gets stuck;
* encoding: a rule on bytes that fits does to each packet what its words ask, a deleted
  one of any kind does nothing;
* hook: a daemon that returns or unwinds leaves no program behind (one that is killed,
  or told to stop before it listens, may), attaches one at a time, and packets reach a
  program somebody still maintains;
* TUI: it deletes only what the user pointed at, tells whether the analyzer
  answers, shows lists in order, and, as long as no connection is lost without a sign,
  serves keys and recovers; its listener finds the
  alerts of the text however it is chunked, and comes back;
* deployment and configuration: all three daemons come to run once their programs can be
  attached, share their rings, and keep running when one fails.

## 2. Modules

| Module | Models | State and actions in terms of the code |
|---|---|---|
| `BoundedFifo` | what a ring promises: a bounded queue | `Enqueue`, `Dequeue` |
| `ShmRing` | `try_push`, `try_pop`, crashes, restarts | one action per shared access: index loads (which may return stale values, down to what the process has already seen), two halves of the slot write, index stores. `sent` and `delivered` are history |
| `ShmCreate` | `create`, `open`, restarts by systemd | one action per file operation and header store; `pc[p]` is where each process is, "short" one that mapped the file while it was empty |
| `RuleSync` | POST and DELETE, rules ring, processor loop, both maps, signals, deaths | `CreateLock/Push/Store`, `DeleteRetain/Push` in the order of `api.rs`; `LoopTest`, `Pop`, `Insert…`, `Remove…`, `Detach` in that of the processor's `main`. `left` is the maps of the last program that a killed processor left on the hook, `stale` (history) the keys a fault has hit |
| `PacketPath` | extends `RuleSync` by the kernel program | a packet is the set of patterns it matches; one action per map lookup; `busy` (history) holds the keys the daemon was at work on during the run |
| `SamplePath` | both halves of the sampler, consumer thread, statistics, `/api/stats` | kernel records in order of reservation; the lock is the handlers' and the consumer's program counters |
| `RuleEncoding` | `RuleUpdate`, action codes, matching in the kernel program | one fingerprint, its update, its map entry and a packet; operators for `from`, `to_code`, `match_exact` ... , compared with a reference definition (`Asked`; whether a packet is one that a `Regex`, `TlsSni` or `TlsJa3` means is chosen freely) |
| `TcHook` | `load`, `attach`, `detach`, `Drop`, the two mains around them, signals, kills | `hook` is the kernel's list of programs; `pc[d]` is where a main is; an error or a panic leads to `DropLoaded`, a kill does not, nor a SIGTERM before its handler is registered (`early`, history, of what that leaves) |
| `Tui` | start-up, poller, event channel, UI loop, keys, calls | a rule is its id, a list is a sequence of ids with its version; `health` tells whether calls are answered, wait, or fail, `lost` whose call has lost its connection; `asked` and `drawn` (history) remember what was on screen |
| `EventStream` | the listener of `/api/events` | `wire` is what was sent and not received, `Receive(n)` takes any number of bytes of it, `Cut` one frame |
| `Config` | which file a daemon takes, what it reads in it | operators only, no state |
| `Deployment` | extends `Config`: units, starts by hand, entrypoint, uninstaller, edits, what each `main` needs, makes, loads and attaches | `state[d]` and `settings[d]` of each daemon, `files`, `attachable` (whose eBPF object and interface are there), the line the script is at, and `spared` (history), whom the uninstaller did not stop |
| `…_proofs` | theorems about the module it is named for (`PacketPath_proofs`: about `RuleSync` too; `Tui_proofs`: about `EventStream` too), section 5 | |

`MC…` modules hold the values of an instance; each cfg is a run. A ring inside
`RuleSync` and `SamplePath` is a sequence with the capacity's bound: both are proved to
implement, on it, the abstract queue `BoundedFifo` that `ShmRing` is proved to implement. Operators whose comment says
*Mutant of* are mutated definitions for testing the properties; nothing else
refers to them.

The sources use the aya library in a way its current versions would not compile
(and the image build copies a `config/` that is not in the tree). The models take
the evident intent of such calls: attach, load, insert and remove do what they say.

## 3. Runs

| Run | Instance | Distinct states | Shows |
|---|---|---|---|
| `ring` | 2 slots, indices that wrap at 4, 6 pushes of 2 values, 2 crashes | 41,010 | all properties of the ring, the refinement of `BoundedFifo`, and delivery |
| `shm_create` | 2 creators, 1 opener, 3 pushes, 2 crashes anywhere | 4,446 | one initialiser, no erasing, recovery unless a creation was torn |
| `rule_sync` | 2 handlers, 2 rules posted again and again, ring of 1, maps of 1 entry, all faults | 346,116 | list, queue and maps agree; liveness of sync and shutdown |
| `packet_path` | 3 rules, 2 of them under one key, maps of 2, ring of 1, processor crashes that leave programs | 4,980,056 | one-rule verdicts, no rule passed over |
| `packet_path_key` | one rule whose key is 300 | | finding 1 |
| `rule_encoding` | bytes 0 and 1, patterns of up to 3 where 2 fit, payloads of up to 4, 4 marks | 58,950 | encoding and matching against the reference |
| `sample_path` | 2 CPUs, 3 flows, buffers of 2, `TopN` 2, 4 packets, 1 crash | 344,361 | consistency, order, losses, drainage |
| `tc_hook` | both kernels, 3 unclean deaths, the interface made afresh once | 103,500 | nothing left behind, one program each, a live one reached |
| `tui` | lists of up to 2 rules, 3 changes, 1 death or hang of the analyzer or lost call, 1 event in the channel, log of 2 with a cap of 1 | 665,731 | deletion, indicator, order and recovery of lists, keys served |
| `event_stream` | Unix and TCP, 5 frames, 2 sent, 2 connections broken, 1 lost silently | 30,931 | chunking, partial frames, reconnection |
| `deployment` | systemd, by hand, container, container with the host's IPC; 3 sets of configuration files, with and without `FLOWFANG_CONFIG`; eBPF objects or none; 2 crashes, 4 commands or edits | 295,055 | start-up, restarts, sharing of rings |
| `deployment_start` | a container, no crash | | finding 2 |

Properties, by module. Those in parentheses hold on the same instances (add them to the
cfg to see) but are not part of a run, as they say little that the others do not:
`TypeOK` of `SamplePath`, `Tui` and `Deployment`; that of `PacketPath` (`PathTypeOK`),
`TcHook` and `EventStream` (`StreamTypeOK`), which are proved; and those named below.

* `ShmRing`: `TypeOK`, `DeliveredIsPrefix`, `PublishedIntact` (a published item is whole
  in its slot until popped), `NoDataRace`, `IndicesTellFill`, `ImplementsFifo`,
  `EventuallyDelivered`.
* `ShmCreate`: `OneInitializer`, `NeverErases`, `EventuallyUsable` (unless a creation was
  torn, everyone gets all of a working ring, but who mapped an empty file and has not yet faulted on it), and `HeaderInv`: `TypeOK`, `NoZeroDivision` (`% capacity`
  is never taken of 0) and `UselessOnlyIfTorn` (a ring without capacity is one whose
  creator died half-way); violated: `CreateYieldsCapacity`, `MappingIsWhole`.
* `RuleSync`: `InSync` (the maps after all updates on their way equal the list,
  for every key no fault has hit since its last accepted update),
  `SingleProducer`, `EventuallySynced`, `SignalDetaches`, and `MapsInv`: `TypeOK`,
  `MapsPaired` (between two updates the entries come in pairs from posted rules; excepted is the one key
  at which a processor was killed whose program stays, until the next one starts) and `NoHalfInsert`; violated:
  `MapsFollowRules` (`InSync` without exceptions), `PassesOnceGone`, `StopsReadingOnSignal`.
* `PacketPath`: `VerdictFromOneRule` (whatever is written between the two lookups, unless it is at
  the very key: there the new pattern may meet the old action), `StableRuleApplies` (holds for keys
  below 256, violated above); violated: `VerdictNeverMixed`.
* `SamplePath`: `ResponseConsistent` (an answer is the statistics, total and top flows
  together, of the first *n* recorded samples for some *n*), `CpuOrderKept`,
  `LostOnlyToReaders` (a popped sample goes uncounted only if a handler was reading
  while the consumer had it), `EventuallyDrained` (`LastSeenAdvances`, for a flow received
  by one CPU, proved: the record is reserved before its time is taken); violated:
  `AllPoppedCounted`, `ActiveFlowsCounted`, `DropsOldestFirst`.
* `RuleEncoding`: `ByteRuleDoesAsAsked`: `TypeOK`, `FittingRuleDoesAsAsked` and
  `CutRuleMissesNothing` (of `ExactMatch` and `ByteSeq`, the kinds the kernel program knows),
  `DeletedRuleIsGone` (of all kinds) and `KernelReadsCodes`; violated: `MarkNeverDrops`, `EachKindMatches`.
* `TcHook`: `ExitLeavesNothing` (after a return from `main` or an unwinding, not a kill), `LoopHasProgram` (as many as it should, counted on the
  hook: one, or none on an interface made afresh), `LiveProgramReached`
  (if both daemons settle, packets reach a live program, whatever killed ones left)
  (`SignalEnds`); violated: `BothSeeEachPacket`, `SignalLeavesNothing`.
* `Tui`: `DeletesOnlyHighlighted`, `ConnectedTellsLastCycle`,
  `LogNearCap`, `ShownAdvances`, `EventuallyShown` (if no awaited call has lost its connection),
  `KeysServed` (an awaited call gives the keys back, unless the analyzer hangs for good or the
  call has lost its connection) (`SelectionInList`, proved); violated:
  `AlertsCapped`, `AbortHeard`, `PollingResumes`.
* `EventStream`: `ChunksDoNotMatter`, `NoPartOfAFrame`, `ListensAgain`; violated:
  `StreamsAgain`.
* `Deployment`: `OpenHasRing` (but for those the uninstaller did not stop), `RunningShare`,
  `EventuallyAllRun` and `StartsOnceSampled` (if in the end both eBPF programs can be loaded and
  attached), `CrashStaysLocal`; violated: `StartsAllThree`, `AnyListenServes`, `ChainHonoured`,
  `EventuallyAllRunAsInstalled`, `UninstallStopsAll`.

### Bounds, and why they are enough

* Ring: six pushes on two slots and span four go round the slots three times and
  the index once and a half; both sides can crash, or one twice. The proofs of section 5
  remove these bounds.
* `ShmCreate`: two creators are the least that race, and each can crash once;
  three pushes exceed the capacity of two.
* `RuleSync`: a ring of one and a map entry are full after one update, so that every
  refusal happens; with the rule in the processor's hand and the one in the
  handler's, three updates can be on their way. Two handlers are the least that
  compete. A second POST of an id is another version of its rule. There is no bound on requests, crashes or restarts: the state space is
  finite because the list (`MaxRules`) and the ring are.
* `PacketPath`: two rules of one key are two versions of a rule, or two rules whose
  UUIDs collide: one may replace the other between the two lookups. The third rule lets a scan meet an
  edited rule before or after the one that matches. Crashes are not bounded.
* `SamplePath`: four packets overfill either buffer of two, and three flows with
  `TopN` 2 make the cut-off matter. Capacities of 256 KiB, 65,536 and 10 differ in
  size only.
* `RuleEncoding`: two bytes of pattern data stand for 64: patterns may be shorter,
  fit exactly and be cut; offsets and payloads reach past each other's ends. Byte 0
  is one of the two values, so that padding could match by mistake. The marks are
  the reserved codes and one other.
* `TcHook`: three unclean deaths leave two programs of one daemon and one of the
  other, in any order of attachment; starts, errors and signals are not bounded.
* `Tui`: one fault is a death, a hang or a lost call, at any point of a behaviour. Two rules make an index differ from an identity; fetching every second
  cycle instead of the fifth still has cycles with and without a fetch; a cap of
  one and two alerts exceed the cap. The channel is unbounded in the code; one
  event at a time makes the poller wait for the loop, a guard that is part of
  `Send` and only delays it.
* `EventStream`: two frames of up to seven symbols, of which a chunk may end
  anywhere; two breaks are a broken connection and a broken successor. A byte that
  arrives twice or out of order is TCP's to prevent.
* `Deployment`: two crashes hit a daemon twice or two of them once; four commands
  allow a start of each (a start of a unit that requires the analyzer starts both), and an edit,
  an installation of the eBPF objects, a stop or the uninstallation.

`CHECK_DEADLOCK FALSE` appears where a system may stop: the user quits the TUI, the
operator leaves the daemons stopped, or nothing comes any more on the event stream
(the bounds on frames and breaks are used up). Every other run checks for deadlock.

### Fairness, and why the code justifies it

* Ring: the consumer polls for ever, a step that is begun ends, and a consumer
  that died is started again (`Restart=always`). A load of the index must
  eventually return the last store: stores become visible in finite time. Nobody
  has to push.
* `ShmCreate`: a `create` or `open` that is begun goes on, and a process that failed is restarted.
* `RuleSync`: a handler awaits nothing once it has the lock; the processor's loop
  runs for ever or is restarted. Requests, faults and signals are not fair; the
  liveness properties say "if they cease".
* `SamplePath`: a program run ends (the verifier sees to it); the loops of the
  sampler and of the consumer run for ever; a handler that has the lock answers.
* `Tui`: poller and loop run; a call is answered or fails while the analyzer is up or
  down, unless its connection is lost; the analyzer is restarted. An analyzer that hangs need not recover, and keys are
  not fair. The poller's fairness is strong because in the model, and only there, a
  full channel makes it wait: the code's is unbounded.
* `TcHook`: a main goes on: what a system call or a loop does ends. Nobody has to
  start or signal a daemon.
* `EventStream`: the listener is a task of its own that goes on, whatever it has to tell
  (`GoOn`), and an analyzer that went down is started again. Nobody has to send.
* `Deployment`: a `main` goes on, systemd restarts each failed unit, scripts run, and
  the container is started whenever it ends. By hand nobody has to start anything, and nobody has
  to install what is missing. With `RestartSec=5` systemd's
  start limit (5 in 10 s) is never met.

## 4. Findings

Each is reproduced by the run of its name; `PROJECT.json` quotes the sources.

1. `packet_path_key`: the kernel scans keys 0 to 255, the daemon inserts under 32
   bits of a UUID: nearly no rule is ever consulted.
2. `deployment_start`: the entrypoint starts the analyzer before the sampler, whose
   ring it opens; it exits, and the container with it.

### Known disagreements

The following also came up; a cfg beside each module reproduces it (TLC reports
the named property violated), but it is not in the list of runs.

* `MCShmCreateCrash` (`CreateYieldsCapacity`): a creator that dies between extending
  the file and storing the capacity leaves a file that every later `create` accepts;
  that ring refuses every push until somebody deletes the file.
* The same cfg with `MappingIsWhole` for its invariant: `shm.rs:135-136` "We trust the file [...] has
  the correct layout" and 201 "The mmap is at least HEADER_SIZE bytes". Nobody looks at the length: memmap2 maps
  a file of length 0, as it is between `create_new` and `set_len`, as if it had one byte. `create` or `open` answers Ok, and
  the process has one page of the ring: it dies of a signal as it touches the header too early or a slot past the page.
* `MCRuleSyncFull` (`MapsFollowRules`): handlers ignore the result of `try_push`; with
  a full ring the client is told success and the kernel never hears of the rule. What holds of
  the keys that no fault hit is `QuietMapsFollowRules` (here and in the other runs of that property).
* `MCSamplePathCount` (`AllPoppedCounted`): a sample popped while `/api/stats` holds the
  lock is dropped uncounted; `stats.rs:9` calls the counter "Total packets processed."
* The same cfg with `ActiveFlowsCounted` for its invariant: `active_flows` is never updated
  and `/api/stats` always reports 0.
* `MCTcHookBoth` (`BothSeeEachPacket`): `ebpf/CONTEXT.md:13` and `:23` say of both
  programs "Attached to TC ingress. For each packet:". Both return `TC_ACT_OK`, which
  ends a packet's way through the hook: only the first attached (since Linux 6.6; the
  last, before) sees any. That one is live, if both daemons run: `FirstProgramIsLive`.
* The same cfg with `SignalLeavesNothing` for its invariant: `flow-sampler/CONTEXT.md:13` "Handles
  graceful shutdown (SIGTERM/SIGINT) by detaching and cleaning up", and `flow-processor/CONTEXT.md:50-56`. A
  SIGTERM that comes between `attach` and the registration of the handler kills the daemon without its `Drop`;
  before Linux 6.6 its program stays on the hook. What holds without exception is said of who unwinds: `ExitLeavesNothing`.
* `MCRuleEncodingMark` (`MarkNeverDrops`): `types.rs:199` "Set an nfmark on the packet for
  nftables."; a rule with `Mark { mark: 1 }` drops packets, as 1 is the code of Drop
  (and `mark: 0` is Pass).
* The same cfg with `EachKindMatches` for its invariant: `types.rs:184-189`, `flow-common/CONTEXT.md:49-51` and
  `ebpf/CONTEXT.md:25` say of `Regex`, `TlsSni` and `TlsJa3` that they match. They are taken, listed and sent to the
  kernel, whose program has `_ => false` for them (`main.rs:48`): they match nothing.
* `MCEventStreamWide` (`NoPartOfAFrame`): each chunk is decoded by itself; one that
  ends within a character of several bytes spoils it. The analyzer sends ASCII only.
* `MCEventStreamLost` (`StreamsAgain`): "reconnecting on failure" (TUI `main.rs:410`); a TCP
  connection that is lost without a sign is waited on for ever, as there is no
  timeout and nobody misses the heartbeats.
* `MCTuiAbort` (`AbortHeard`): "Retrying in 2s... (Ctrl-C to abort)" (TUI `main.rs:334`);
  once `ctrl_c()` has been called SIGINT no longer kills, so that a Ctrl-C that
  falls in a later attempt rather than in a pause is swallowed.
* `MCTui.cfg` with `PollingResumes` for its property: "polling resumes automatically after a disconnect"
  (TUI `main.rs:369-370`). `fetch_json` has no time limit and the connection is not probed: over TCP one that is lost
  without a sign is waited on for ever, and no cycle follows.
* `MCDeploymentListen` (`AnyListenServes`): with `listen = "0.0.0.0:9090"`, the example of
  `flow-analyzer/CONTEXT.md:28`, `serve` ends with an error and the analyzer never stays up.
* `MCDeploymentChain` (`ChainHonoured`): `config.rs:4-8` and `flow-common/CONTEXT.md:71-75`
  describe one chain of places for a configuration; analyzer and processor do not
  follow it, and take a file only from `--config`. How far the chain does hold:
  `ChainIsHonouredOrDefault`; what follows for the ring's name in a container or by hand: `UsableWithoutUnits`.
* `MCDeployment.cfg` with `EventuallyAllRunAsInstalled` for its property: `install.sh:116` "To start FlowFang:", and
  `flow-ebpf/CONTEXT.md:9` and `:17` "Embeds the compiled `sampler.bpf.o`" (and processor). The objects are not embedded but read from
  `--ebpf-path`, by default in `/usr/lib/flowfang`, and neither installer nor image puts them there: sampler and processor
  exit at each start until somebody does. The hypothesis `<>[]Attachable` of the liveness properties asks for it.
* The same with `UninstallStopsAll` for its invariant: `uninstall.sh:3` "Stops all services, removes binaries, configs, and
  shared memory." Without `systemctl`, on which `install.sh:123-128` has the daemons started by hand, nothing is
  stopped, and an error of `systemctl stop` is ignored (12): the rings' files go from under those that still run.
* `MCRuleSyncRestart` (`MapsFollowRules`): a restarted processor has empty maps, and
  nobody sends the rules again. ADR 0002 says of the processes "one crashing
  doesn't affect the other", `flow-ebpf/CONTEXT.md:38` "Maps are pinned to bpffs".
* The same cfg with `PassesOnceGone` for its invariant: `flow-processor/CONTEXT.md:55` "packets pass through
  unmodified". Before Linux 6.6 a killed processor's program stays on the hook with its maps, the rule it was at
  work on half applied; each start attaches another above it, and nobody removes it.
* `MCPacketPath.cfg` with `VerdictNeverMixed` for its invariant: `flow-processor/CONTEXT.md:49` "Kernel eBPF program
  reads both maps on every packet, matches, and executes". It reads one after the other: while the daemon replaces
  a rule, a packet that matches the pattern of one version may be treated as the other says.
* `MCRuleSyncSentinel` (`MapsFollowRules`): a rule with `Mark { mark: 0xFFFFFFFF }` is
  sent with the code of a deletion.
* `MCRuleSyncCollide` (`MapsFollowRules`): two UUIDs that agree in the low 32 bits
  share a key; deleting one rule removes the other from the kernel.
* `MCRuleSyncSignal` (`StopsReadingOnSignal`): after SIGTERM the processor pops until
  the ring is empty; `flow-processor/CONTEXT.md:53-54` says it first stops reading.
* `MCSamplePathDrop` (`DropsOldestFirst`): ADR 0002 says a full ring drops oldest-first; the
  sample in hand, the newest, is dropped.
* `MCTuiAlerts` (`AlertsCapped`): lines added by key presses are not capped at 200.

Noted without a model: the installed `config.toml` has its keys in sections that no
daemon reads, so that all fall back to defaults (the `Installed` file of `MCDeployment`
has no keys for that reason); `sampling_rate` is read by no code; the dashboard's `a`
adds a `ByteSeq` without bytes, which the kernel program never matches.

## 5. Proofs

Every invariant and every action property of the passing runs is also a theorem, and so are
the ring's refinement and one temporal property, `LiveProgramReached`. A theorem holds for
every value of the constants that satisfies the named `ASSUME`s of its module, so that
no bound on crashes, packets, commands or sizes enters it. Any further hypothesis is
part of the theorem's statement: five have one, and two facts about configurations say which hosts they are of.

| Module | Theorem | Statement |
|---|---|---|
| `ShmRing_proofs` | `TypeCorrect` | `Spec => []TypeOK` |
| | `DeliversInOrder` | `Spec => []DeliveredIsPrefix` |
| | `KeepsPublished` | `Spec => []PublishedIntact` |
| | `RaceFree` | `Spec => []NoDataRace` |
| | `FillIsTold` | `Spec => []IndicesTellFill` |
| | `Refinement` | `Spec => ImplementsFifo` |
| `ShmCreate_proofs` | `HeaderWellFormed` | `Spec => []HeaderInv` |
| | `HasOneInitializer` | `Spec => []OneInitializer` |
| | `ErasesNothing` | `Spec => NeverErases` |
| `PacketPath_proofs`, of `RuleSync` | `OneProducerAtATime` | `Spec => []SingleProducer` |
| | `MapsStayPaired` | `Spec => []MapsInv` |
| | `CleanKeysInSync` | `Spec => []CleanInSync` |
| | `RulesInSync` | `Spec => []InSync`, if `NoSentinel` and `NoCollision` |
| | `QuietMapsFollowRules` | `Spec => []CleanMapsFollowRules` |
| | `RulesRingIsFifo` | `HandedSpec => RulesRing!FifoSpec` |
| ... and of `PacketPath` | `KernelOnlyReads` | `PathSpec => Spec` |
| | `VerdictOfOneKey` | `PathSpec => []VerdictFromOneKey` |
| | `VerdictOfOneRule` | `PathSpec => []VerdictFromOneRule` |
| | `ScannedRuleIsApplied` | `PathSpec => []ScannedRuleApplies` |
| | `StableRuleIsApplied` | `PathSpec => []StableRuleApplies`, if all keys are in `0..(MaxEntries - 1)` |
| | `ListedRuleIsApplied` | `PathSpec => []ListedRuleApplies` |
| | `PathTypeCorrect` | `PathSpec => []PathTypeOK` |
| `RuleEncoding_proofs` | `ByteRulesDoAsAsked` | `Spec => []ByteRuleDoesAsAsked` |
| `SamplePath_proofs` | `CpuOrderIsKept` | `Spec => []CpuOrderKept` |
| | `LosesOnlyToReaders` | `Spec => LostOnlyToReaders` |
| | `ResponsesAreConsistent` | `Spec => []ResponseConsistent` |
| | `OneCpuSeenNeverGoesBack` | `Spec => OneCpuSeenAdvances` |
| | `LastSeenNeverGoesBack` | `Spec => LastSeenAdvances`, if each flow has one CPU |
| | `SamplesRingIsFifo` | `HandedSpec => SamplesRing!FifoSpec` |
| `Tui_proofs`, of `Tui` | `DeletesWhatWasHighlighted` | `Spec => []DeletesOnlyHighlighted` |
| | `IndicatorTellsLastCycle` | `Spec => []ConnectedTellsLastCycle` |
| | `LogStaysNearCap` | `Spec => []LogNearCap` |
| | `SelectionStaysInList` | `Spec => []SelectionInList` |
| | `NeverShowsOlder` | `Spec => ShownAdvances` |
| ... and of `EventStream` | `StreamTypeCorrect` | `StreamSpec => []StreamTypeOK` |
| | `ChunkingIsHarmless` | `StreamSpec => []ChunksDoNotMatter`, if `Ascii` |
| | `TellsWholeFrames` | `StreamSpec => []NoPartOfAFrame`, if `Ascii` |
| `TcHook_proofs` | `ExitsLeaveNothing` | `Spec => []ExitLeavesNothing` |
| | `LoopsHaveTheirProgram` | `Spec => []LoopHasProgram` |
| | `FirstProgramIsLive` | `Spec => []FirstIsLive` |
| | `SettledDaemonsAreReached` | `Spec => LiveProgramReached` |
| | `HookTypeCorrect` | `Spec => []TypeOK` |
| `Deployment_proofs` | `RingsOutliveUsers` | `Spec => []OpenHasRing` |
| | `RunningDaemonsShare` | `Spec => []RunningShare` |
| | `CrashesStayLocal` | `Spec => CrashStaysLocal` |
| | `ChainIsHonouredOrDefault` | `Spec => []ChainHonouredOrDefault` |
| | `UsableByUnits`, `UsableWithoutUnits` | what `Usable`, the hypothesis of two liveness properties, asks of the files |

### Assumptions

The assumptions on constants say that sizes are numbers (positive where the code divides
by them or a size of 0 makes no sense), that "none" is not a value, and, for the ring,
that an index has more values than the ring has slots (2^64), and that either the
capacity divides the number of index values, as the defaults 65536 and 1024 do,
or fewer items are pushed than an index has values: else `write % capacity` would
jump at the wrap (`WrapAssumption`). `FrameAssumption` says what the analyzer sends:
each frame is some lines and one blank line, which ends it, as axum writes an event.

The hypotheses of the theorems that have some are needed, and a run or a remark shows it:

* `NoSentinel` (no rule has the deletion's code for its action): without it
  `MCRuleSyncSentinel`; `NoCollision` (no two ids have one key): without it
  `MCRuleSyncCollide`. The program ensures neither, so `CleanKeysInSync` says what
  remains without them: list, updates on their way and maps agree at every key
  that is *clean*, one that no two ids share and under which no rule has that code,
  whatever the rules of the other keys do. The damage stays at its key.
* Keys below `MaxEntries`: a key is 32 bits of a UUID and the scan stops at 255, which is
  finding 1. `ScannedRuleIsApplied` says the same of those rules whose key the scan reaches, with no
  hypothesis, and `VerdictOfOneKey` that no rule of any other key is ever applied.
* `Ascii` (no frame has a character of several bytes): without it `MCEventStreamWide`. What the
  analyzer sends is ASCII.
* One CPU per flow, as receive-side scaling arranges it, for `LastSeenNeverGoesBack`: of two CPUs
  the one that reserves its record first may take its time last. `OneCpuSeenNeverGoesBack` has no hypothesis and
  speaks of those flows that one CPU receives, whatever becomes of the others.

### The arguments

Hardly any of these properties is inductive. What each needs besides itself:

* **Ring.** That a published item is intact depends on the producer never writing into
  an occupied slot, which depends on what it believed when it tested for room. With `W`
  and `R` the unwrapped indices,
  `IInv == TypeOK /\ Observed /\ InPush /\ InPop /\ DeliveredIsPrefix /\ PublishedIntact`.
  `Observed`: the wrapped indices are `W` and `R` modulo the span, `R <= W <= R + Capacity`, and
  what each side has seen of the other's index is no newer than the truth. `InPush`: a producer
  past its test has room by the value it saw, so by the truth as well, since a stale `R`
  is an underestimate, and the item it is about to publish is in its slot; `InPop` is the
  converse. What is arithmetic (two indices less than a capacity apart have
  different slots, a wrapping difference is the distance, slots are not disturbed by
  wrapping) is proved from the definition of `%` at the head of the module. The refinement maps the queue
  to the window of slots between the indices (`queueView`): `PushPublish` is an `Enqueue`,
  `PopCommit` a `Dequeue`, every other step a stutter.
* **Set-up** (`CreateInv`). How far the file has come: only its one maker sizes and
  initialises it, whoever maps it before, the header is zero as long as there is no capacity since every push is
  refused until then, and a file without a capacity has a maker or a dead one. A second
  `create` finds the file there and writes nothing.
* **Rules** (`RuleInv`). Whoever is within a request holds the lock and carries what was
  posted; an update in the processor's hand is one that `write_rule` or `remove_rule` is
  at work on; the maps agree at every key but that one's, of which they hold the first
  half, and a second insert finds room because the maps have the same keys. The maps of a program
  left behind agree at every key but the one its processor died at (`LeftInv`), and while no
  processor runs the maps that packets meet hold nothing at a key that no fault hit, unless an
  update of it is on its way (`DownInv`).
  For `InSync` the updates on their way are followed through all their places (the handler's
  hand, the ring, the processor's hand): each operation on them keeps what they will
  come to, key by key (`EventualEntry`). `DeletePush` comes after `retain`, `CreatePush` before
  `CreateStore`, all under the lock, so that the list and the last update on its way say the
  same of a key.
* **Kernel program.** It only reads (`KernelOnlyReads`), so that what is proved of the
  daemons carries over. Each entry of either map comes from a posted rule of its key
  (`OriginInv`), so a daemon that writes between the two lookups can at worst bring a pattern
  and an action of one key together; and as long as it is not at work on the key whose pattern has
  matched, nor was at any moment of the run (`BusyInv`), the action there is still that pattern's. A rule that stays installed
  lies ahead of the scan as long as no verdict is found (`StableInv`).
* **End to end** (`ListedRuleApplies`). From the request to the verdict: at a clean key that no fault
  hit, if the rule there was installed throughout a packet's run and no update is on its way, the
  list and the maps agree (`CleanInSync`), the scan does not pass the rule over (`StableInv`), and if it
  stops there it returns what the maps hold (`HitInv`), hence what the list says.
* **The two rings in use** (`HandedSpec`). With what a pop hands over written down as history, each step
  of `RuleSync` and of `SamplePath`, deaths and restarts included, is an `Enqueue`, a `Dequeue`
  or a stutter of `BoundedFifo`. `ShmRing`, the algorithm at the grain of its accesses, implements that same
  specification (`Refinement`): the two theorems meet there.
* **Encoding** (`EncInv`). Where the rule is, and that a verdict is what the entry makes of
  the packet. The rest is lemmas about the operators: what padding, cutting, matching at an
  offset and searching do to sequences of any length, compared with the words of the fingerprint.
* **Samples.** The samples recorded, in the consumer's hand, in the ring and in the kernel's
  buffer are in the order of their CPU, each part before the next (`OrderInv`): a drop
  takes some out, and never puts one in front. `LossInv`: with a reader about and a sample in
  hand the two have met. `StatsInv`: the statistics count what was recorded, nobody
  reads while they are written, and what a handler has listed is still so when it
  takes the total. `HomeInv` and `SeenInv`: samples are of a CPU that receives their flow, and
  `last_seen` is the time of one that was recorded, which with `OrderInv` is before the next.
* **Dashboard.** `DeleteInv`: what is highlighted is what `d` would take, as the loop
  draws before it waits for a key. `VersionInv`: the lists on their way to the screen are in
  the order of their fetches. `CycleInv`: what the indicator will say once the channel is
  empty is the outcome of the last cycle.
* **Listener** (`ListenInv`, `SentInv`). What a connection delivered is `done` followed by the buffer,
  where `done` is empty or ends in a blank line and its alerts have been told; that needs the alerts
  of two texts that no line joins to be those of the one, then of the other. What it delivered
  and what is on the wire fall into sent frames at the blank lines, the last cut short at
  most if the connection broke; so what `Cut` takes, up to the first blank line of the buffer, is
  a frame that was sent. No induction over the text is needed, as `AlertsOf` is not recursive.
* **Hook** (`HookInv`). The programs on the hook are all different, belong to daemons that
  know so or were left by deaths, and a loaded program is not on the hook before it is
  attached. That there is always a fresh name for a program is a pigeonhole: deaths have
  left at most `MaxUnclean`. Where a death leaves its program at all, a daemon's own comes before
  those its deaths have left (`NewestFirst`), so that the first on the hook is a live one
  (`FirstIsLive`); `LiveProgramReached` follows from that by temporal logic alone, and needs no fairness.
* **Deployment.** Whoever is up when the uninstaller purges is one that it did not stop (`PurgeInv`); while nobody edits the
  configuration there are only the rings it names, and the analyzer makes its own only
  after it opened one that the sampler made (`ShareInv`). `ShareInv` also says that who is up has the
  settings the files give; a path that is given and exists is the first of the chain, so that a unit's
  `--config` is what the chain would find.

### What is only model-checked

* Liveness: `EventuallyDelivered`, `EventuallyUsable`, `EventuallySynced`,
  `SignalDetaches`, `EventuallyDrained`, `EventuallyShown`, `KeysServed`, `EventuallyAllRun`,
  `StartsOnceSampled`, `ListensAgain`. Fairness is stated with ENABLED, which the prover does
  not reason about.
* That `Retain` of `RuleSync`, which the proofs use by what it promises (the elements kept, in
  order), is `Vec::retain`: `MCRuleSync` has TLC compare it with a filter on all short lists.
* That `AlertsOf` of `EventStream`, which takes all lines of a text at once, is what the loop over
  `lines()` tells, line after line: `MCEventStream` has TLC compare the two.
* That a refused push on a stale index is the same as one refused a moment earlier (head of `RuleSync`)
  is by reading: `BoundedFifo` says nothing of pushes that are refused.
* The bounds in `TypeOK` of `SamplePath`, `Tui` and `Deployment`; the proofs use the weaker `Shape` of each.

## 6. Not modelled

* Extraction of header fields in the sampler program.
* HTTP, JSON, TOML and YAML, socket handling: libraries. `status_handler` returns
  constants. A second analyzer would remove the first one's socket file (`api.rs:66`) and
  be a second consumer of the samples ring, which is outside the ring's contract.
* Drawing, and TUI state that only it reads.
* Byte counts and rates: the former follow packet counts, the latter are quotients of
  wall-clock time.
* What `wait -n` and `Requires=` do is the shell's and systemd's; `Deployment` takes
  the former as its comment says (return when any daemon has exited), and lets
  the restart of the analyzer take along any, or none, of the units that require it.
* What the kernel does with programs on a hook is external to `TcHook`, stated in
  its head: the order of programs, when the list ends, and what a death removes.
* The copying of binaries and the image build.

## 7. Plan

Done, in this order: the ring (proved); its set-up; rule distribution and the kernel
program; samples and statistics; the dashboard; deployment; loading and attaching;
rule encoding; the event listener; configuration, within `Deployment`; then the proofs
of all safety properties; then what the rings, the list, the maps and the kernel program come to
together, and what holds in place of some known disagreements. What could follow:

1. Liveness by proof, which needs a prover that reasons about ENABLED.
2. Byte counts and the extraction of header fields, if they come to be more than arithmetic.
