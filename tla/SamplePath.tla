----------------------------- MODULE SamplePath -----------------------------
(***************************************************************************)
(* How a packet becomes a number on the dashboard: the sampler program     *)
(* runs on every CPU and reserves, fills and submits a record of the       *)
(* kernel's ring buffer (ebpf/sampler.bpf.rs); the sampler daemon moves    *)
(* records to the samples ring (crates/flow-sampler/src/main.rs); a thread *)
(* of the analyzer pops them and, if it gets the lock at once, adds them   *)
(* to the statistics (crates/flow-analyzer/src/main.rs, stats.rs), which   *)
(* the /api/stats handler reads under the same lock (api.rs).              *)
(*                                                                         *)
(* A sample is its flow, its CPU and its timestamp; its other fields and   *)
(* the byte counts, which follow the packet counts, are left out.  The     *)
(* samples ring is the queue that ShmRing is proved to implement.          *)
(***************************************************************************)
EXTENDS Naturals, Sequences, FiniteSets

CONSTANTS Cpus, Flows,
          CpusOf,          \* the CPUs that receive the packets of each flow
          Handlers,        \* /api/stats requests served at a time
          KernelCapacity,  \* records that fit the kernel's ring buffer (256 KiB)
          SampleCapacity,  \* capacity of the samples ring: 65536 by default
          TopN,            \* flows an answer of /api/stats lists: 10
          MaxPackets,      \* bound: packets sampled
          MaxCrashes,      \* bound: crashes of the two processes
          NoSample

ASSUME CpuAssumption == CpusOf \in [Flows -> SUBSET Cpus]
ASSUME SizeAssumption == {KernelCapacity, SampleCapacity, TopN} \subseteq Nat \ {0}
ASSUME BoundAssumption == {MaxPackets, MaxCrashes} \subseteq Nat

VARIABLES clock,           \* bpf_ktime_get_ns: a tick per sample
          SAMPLES,         \* the kernel's ring buffer, in the order of reserve
          shm,             \* the samples ring
          conPc, sample,   \* the consumer thread, and the sample it has popped
          total_packets, active_flows, flows, last_seen,  \* TrafficStats
          hPc, response,   \* the stats handlers, and what each has read
          popped,          \* history: samples popped since the analyzer started
          recorded,        \* history: samples recorded since then, in order
          met,             \* history: a handler read while the sample was in hand
          crashes          \* number of crashes so far

kernel   == <<clock, SAMPLES>>
stats    == <<total_packets, active_flows, flows, last_seen>>
consumer == <<conPc, sample>>
handlers == <<hPc, response>>
history  == <<popped, recorded, met>>
vars == <<kernel, shm, consumer, stats, handlers, history, crashes>>

NoResponse == [flows |-> [f \in Flows |-> 0], total |-> 0]
Busy(cpu) == \E i \in DOMAIN SAMPLES : SAMPLES[i].cpu = cpu /\ SAMPLES[i].pc # "submitted"
Unstamped == Cardinality({i \in DOMAIN SAMPLES : SAMPLES[i].pc = "reserved"})

Init == /\ clock = 0 /\ SAMPLES = <<>> /\ shm = <<>>
        /\ conPc = "pop" /\ sample = NoSample
        /\ total_packets = 0 /\ active_flows = 0
        /\ flows = [f \in Flows |-> 0] /\ last_seen = [f \in Flows |-> 0]
        /\ hPc = [h \in Handlers |-> "idle"]
        /\ response = [h \in Handlers |-> NoResponse]
        /\ popped = 0 /\ recorded = <<>> /\ met = FALSE /\ crashes = 0

-----------------------------------------------------------------------------
\* The sampler program on one CPU.  SAMPLES.reserve: without room the packet
\* passes unsampled.
Reserve(cpu, f) ==
  /\ ~Busy(cpu) /\ cpu \in CpusOf[f] /\ clock + Unstamped < MaxPackets
  /\ Len(SAMPLES) < KernelCapacity
  /\ SAMPLES' = Append(SAMPLES, [cpu |-> cpu, flow |-> f, time |-> 0, pc |-> "reserved"])
  /\ UNCHANGED <<clock, shm, consumer, stats, handlers, history, crashes>>

\* Only then is the time taken.
Stamp(i) ==
  /\ SAMPLES[i].pc = "reserved"
  /\ clock' = clock + 1
  /\ SAMPLES' = [SAMPLES EXCEPT ![i].time = clock + 1, ![i].pc = "stamped"]
  /\ UNCHANGED <<shm, consumer, stats, handlers, history, crashes>>

\* Mutant of Submit: only the record reserved last is submitted.
SubmitNewest(i) ==
  /\ SAMPLES[i].pc = "stamped" /\ i = Len(SAMPLES)
  /\ SAMPLES' = [SAMPLES EXCEPT ![i].pc = "submitted"]
  /\ UNCHANGED <<clock, shm, consumer, stats, handlers, history, crashes>>

Submit(i) ==
  /\ SAMPLES[i].pc = "stamped"
  /\ SAMPLES' = [SAMPLES EXCEPT ![i].pc = "submitted"]
  /\ UNCHANGED <<clock, shm, consumer, stats, handlers, history, crashes>>

\* Mutant of Forward: the kernel's record is not freed.
ForwardKeepsRecord ==
  /\ SAMPLES # <<>> /\ Head(SAMPLES).pc = "submitted"
  /\ shm' = IF Len(shm) < SampleCapacity THEN Append(shm, Head(SAMPLES)) ELSE shm
  /\ UNCHANGED <<kernel, consumer, stats, handlers, history, crashes>>

\* The sampler's loop: ringbuf.next() yields the oldest record once it is
\* submitted (a record still being filled holds up those behind it), try_push
\* copies it or, the ring being full, drops it; either way the record is freed.
Forward ==
  /\ SAMPLES # <<>> /\ Head(SAMPLES).pc = "submitted"
  /\ SAMPLES' = Tail(SAMPLES)
  /\ shm' = IF Len(shm) < SampleCapacity THEN Append(shm, Head(SAMPLES)) ELSE shm
  /\ UNCHANGED <<clock, consumer, stats, handlers, history, crashes>>

\* The sampler dies: the kernel's ring buffer goes with it.  It is started
\* again and finds the samples ring as it was.
SamplerCrash ==
  /\ crashes < MaxCrashes
  /\ SAMPLES' = <<>> /\ crashes' = crashes + 1
  /\ UNCHANGED <<clock, shm, consumer, stats, handlers, history>>

-----------------------------------------------------------------------------
Reading == {h \in Handlers : hPc[h] \in {"readFlows", "readTotal"}}

\* Mutant of Pop: all that is there is taken, and the last sample kept.
PopAll ==
  /\ conPc = "pop"
  /\ IF shm = <<>> THEN UNCHANGED <<shm, consumer, popped, met>>
     ELSE /\ sample' = shm[Len(shm)] /\ shm' = <<>>
          /\ conPc' = "tryWrite" /\ popped' = popped + Len(shm) /\ met' = (Reading # {})
  /\ UNCHANGED <<kernel, stats, handlers, recorded, crashes>>

\* The consumer thread.  Ok(None): it sleeps 1 ms and tries again.
Pop ==
  /\ conPc = "pop"
  /\ IF shm = <<>> THEN UNCHANGED <<shm, consumer, popped, met>>
     ELSE /\ sample' = Head(shm) /\ shm' = Tail(shm)
          /\ conPc' = "tryWrite" /\ popped' = popped + 1 /\ met' = (Reading # {})
  /\ UNCHANGED <<kernel, stats, handlers, recorded, crashes>>

\* stats.try_write(): with a reader about, the sample is forgotten.
TryWrite ==
  /\ conPc = "tryWrite"
  /\ conPc' = IF Reading = {} THEN "recordTotal" ELSE "pop"
  /\ sample' = IF Reading = {} THEN sample ELSE NoSample
  /\ met' = FALSE
  /\ UNCHANGED <<kernel, shm, stats, handlers, popped, recorded, crashes>>

\* record_sample, under the write lock: the totals, then the flow's entry.
RecordTotal ==
  /\ conPc = "recordTotal"
  /\ total_packets' = total_packets + 1
  /\ conPc' = "recordFlow"
  /\ UNCHANGED <<kernel, shm, sample, active_flows, flows, last_seen, handlers, history, crashes>>

RecordFlow ==
  /\ conPc = "recordFlow"
  /\ flows' = [flows EXCEPT ![sample.flow] = @ + 1]
  /\ last_seen' = [last_seen EXCEPT ![sample.flow] = sample.time]
  /\ recorded' = Append(recorded, sample)
  /\ conPc' = "pop" /\ sample' = NoSample
  /\ UNCHANGED <<kernel, shm, total_packets, active_flows, handlers, popped, met, crashes>>

\* Mutant of ReadLock: the statistics are read without the lock.
ReadLockIgnored(h) ==
  /\ hPc[h] = "idle"
  /\ hPc' = [hPc EXCEPT ![h] = "readFlows"]
  /\ met' = (met \/ conPc = "tryWrite")
  /\ UNCHANGED <<kernel, shm, consumer, stats, response, popped, recorded, crashes>>

\* stats_handler: stats.read().await waits for the writer,
ReadLock(h) ==
  /\ hPc[h] = "idle" /\ conPc \notin {"recordTotal", "recordFlow"}
  /\ hPc' = [hPc EXCEPT ![h] = "readFlows"]
  /\ met' = (met \/ conPc = "tryWrite")
  /\ UNCHANGED <<kernel, shm, consumer, stats, response, popped, recorded, crashes>>

Seen(counts) == {f \in Flows : counts[f] > 0}
IsTop(counts, top) ==
  /\ top \subseteq Seen(counts)
  /\ Cardinality(top) <= TopN /\ (top = Seen(counts) \/ Cardinality(top) = TopN)
  /\ \A f \in top, g \in Seen(counts) \ top : counts[f] >= counts[g]
Listing(counts, top) == [f \in Flows |-> IF f \in top THEN counts[f] ELSE 0]

\* then the top flows are collected (of flows with equal counts, any),
ReadFlows(h) ==
  /\ hPc[h] = "readFlows"
  /\ \E top \in SUBSET Flows :
       /\ IsTop(flows, top)
       /\ response' = [response EXCEPT ![h].flows = Listing(flows, top)]
  /\ hPc' = [hPc EXCEPT ![h] = "readTotal"]
  /\ UNCHANGED <<kernel, shm, consumer, stats, history, crashes>>

\* then the totals, and the answer is sent and the lock released.
ReadTotal(h) ==
  /\ hPc[h] = "readTotal"
  /\ response' = [response EXCEPT ![h].total = total_packets]
  /\ hPc' = [hPc EXCEPT ![h] = "idle"]
  /\ UNCHANGED <<kernel, shm, consumer, stats, history, crashes>>

\* The analyzer dies and starts again, with empty statistics.
AnalyzerCrash ==
  /\ crashes < MaxCrashes
  /\ conPc' = "pop" /\ sample' = NoSample
  /\ total_packets' = 0 /\ active_flows' = 0
  /\ flows' = [f \in Flows |-> 0] /\ last_seen' = [f \in Flows |-> 0]
  /\ hPc' = [h \in Handlers |-> "idle"] /\ response' = [h \in Handlers |-> NoResponse]
  /\ popped' = 0 /\ recorded' = <<>> /\ met' = FALSE /\ crashes' = crashes + 1
  /\ UNCHANGED <<kernel, shm>>

-----------------------------------------------------------------------------
Kernel == \/ \E cpu \in Cpus, f \in Flows : Reserve(cpu, f)
          \/ \E i \in DOMAIN SAMPLES : Stamp(i) \/ Submit(i)
Consume == Pop \/ TryWrite \/ RecordTotal \/ RecordFlow
Read == \E h \in Handlers : ReadFlows(h) \/ ReadTotal(h)

Next == \/ Kernel \/ Forward \/ Consume \/ Read
        \/ \E h \in Handlers : ReadLock(h)
        \/ SamplerCrash \/ AnalyzerCrash

Spec == Init /\ [][Next]_vars

\* A program run always ends, both loops run forever, and a handler that has
\* the lock answers.  Nobody is obliged to send packets or requests.
LiveSpec == /\ Spec
            /\ WF_vars(\E i \in DOMAIN SAMPLES : Stamp(i) \/ Submit(i))
            /\ WF_vars(Forward) /\ WF_vars(Consume) /\ WF_vars(Read)

-----------------------------------------------------------------------------
Samples == [cpu : Cpus, flow : Flows, time : 0..MaxPackets,
            pc : {"reserved", "stamped", "submitted"}]

TypeOK == /\ clock \in 0..MaxPackets
          /\ SAMPLES \in Seq(Samples) /\ shm \in Seq(Samples)
          /\ conPc \in {"pop", "tryWrite", "recordTotal", "recordFlow"}
          /\ sample \in Samples \cup {NoSample}
          /\ total_packets \in Nat /\ active_flows \in Nat
          /\ flows \in [Flows -> Nat] /\ last_seen \in [Flows -> Nat]
          /\ hPc \in [Handlers -> {"idle", "readFlows", "readTotal"}]
          /\ response \in [Handlers -> [flows : [Flows -> Nat], total : Nat]]
          /\ popped \in Nat /\ recorded \in Seq(Samples) /\ met \in BOOLEAN /\ crashes \in 0..MaxCrashes

\* Every answer of /api/stats is the statistics of one moment, although its
\* flows and its total are read and written one after the other: for some n it
\* lists the top flows of the first n samples recorded, and n as their number.
CountsOf(n) == [f \in Flows |-> Cardinality({i \in 1..n : recorded[i].flow = f})]
Answered(r) == \E n \in 0..Len(recorded), top \in SUBSET Flows :
                 /\ IsTop(CountsOf(n), top)
                 /\ r = [flows |-> Listing(CountsOf(n), top), total |-> n]
ResponseConsistent == \A h \in Handlers : hPc[h] = "idle" => Answered(response[h])

\* Samples of one CPU are recorded in the order they were taken, and none
\* twice, whichever CPUs, crashes and full buffers interfere.
CpuOrderKept ==
  \A i, j \in DOMAIN recorded :
    (i < j /\ recorded[i].cpu = recorded[j].cpu) => recorded[i].time < recorded[j].time

\* A flow's last_seen never goes back, if the flow's packets are received by one
\* CPU: the record is reserved before its time is taken, so across CPUs the
\* order of records is not that of times.
LastSeenAdvances ==
  [][~AnalyzerCrash => \A f \in Flows : last_seen'[f] >= last_seen[f]]_vars

\* Nothing gets stuck: what was reserved in the kernel and what is queued in
\* the ring eventually leaves, into the statistics or lost.
EventuallyDrained == <>[](SAMPLES = <<>> /\ shm = <<>> /\ sample = NoSample)

\* A sample the analyzer has taken from the ring is missing from the totals only
\* if somebody read the statistics while it was in hand: an analyzer that nobody
\* asks loses none, and neither does one between two requests.
Lost == popped - total_packets - (IF conPc \in {"tryWrite", "recordTotal"} THEN 1 ELSE 0)
LostOnlyToReaders == [][Lost' > Lost => met]_vars

\* "Total packets processed" (stats.rs): each sample the analyzer has taken from
\* the ring is counted.
AllPoppedCounted == conPc = "pop" => total_packets = popped

\* "Active flows - count of unique five-tuples" (flow-analyzer/CONTEXT.md).
ActiveFlowsCounted == conPc = "pop" => active_flows = Cardinality(Seen(flows))

\* "records are silently dropped (oldest-first)" (docs/adr/0002): a sample that
\* does not fit makes room by pushing out an older one.
DropsOldestFirst ==
  [][Forward => shm' # <<>> /\ shm'[Len(shm')] = Head(SAMPLES)]_vars
=============================================================================
