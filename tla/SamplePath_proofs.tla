-------------------------- MODULE SamplePath_proofs --------------------------
(***************************************************************************)
(* Proofs about SamplePath, for any CPUs, flows, handlers and sizes, and   *)
(* without the bounds on packets and crashes: the order in which the       *)
(* samples of a CPU are recorded, what the analyzer loses, what an answer  *)
(* of /api/stats shows, which flows' last_seen never goes back, and that   *)
(* the samples ring is used as the bounded queue it is proved to be.       *)
(***************************************************************************)
EXTENDS SamplePath, FiniteSetTheorems, TLAPS

USE CpuAssumption, SizeAssumption

\* The type invariant the proofs need: samples are complete once they have
\* left the kernel's buffer.
Records == [cpu : Cpus, flow : Flows, time : Nat, pc : {"reserved", "stamped", "submitted"}]
Done == {r \in Records : r.pc = "submitted"}
Shape == /\ clock \in Nat /\ SAMPLES \in Seq(Records) /\ shm \in Seq(Done)
         /\ conPc \in {"pop", "tryWrite", "recordTotal", "recordFlow"}
         /\ conPc # "pop" => sample \in Done
         /\ total_packets \in Nat /\ flows \in [Flows -> Nat]
         /\ hPc \in [Handlers -> {"idle", "readFlows", "readTotal"}]
         /\ response \in [Handlers -> [flows : [Flows -> Nat], total : Nat]]
         /\ popped \in Nat /\ recorded \in Seq(Done) /\ met \in BOOLEAN

LEMMA NoResponseType ==
  /\ [f \in Flows |-> 0] \in [Flows -> Nat]
  /\ [h \in Handlers |-> NoResponse] \in [Handlers -> [flows : [Flows -> Nat], total : Nat]]
  /\ [h \in Handlers |-> "idle"] \in [Handlers -> {"idle", "readFlows", "readTotal"}]
<1>1. NoResponse \in [flows : [Flows -> Nat], total : Nat]
  BY DEF NoResponse
<1>. QED
  BY <1>1

LEMMA InitShape == Init => Shape
<1>. SUFFICES ASSUME Init PROVE Shape
  OBVIOUS
<1>1. \A V : <<>> \in Seq(V)
  OBVIOUS
<1>. QED
  BY <1>1, NoResponseType DEF Init, Shape

LEMMA SetEntry ==
  ASSUME NEW V, NEW list \in Seq(V), NEW i \in DOMAIN list, NEW v \in V
  PROVE  [list EXCEPT ![i] = v] \in Seq(V)
  OBVIOUS

\* Stamp and Submit change one record of the kernel's buffer in place.
LEMMA StampSets ==
  ASSUME Shape, NEW i \in DOMAIN SAMPLES, Stamp(i)
  PROVE  \E r \in Records : /\ SAMPLES' = [SAMPLES EXCEPT ![i] = r]
                            /\ r.cpu = SAMPLES[i].cpu /\ r.time = clock + 1 /\ r.pc = "stamped"
<1>1. SAMPLES' = [SAMPLES EXCEPT ![i] = [SAMPLES[i] EXCEPT !.time = clock + 1, !.pc = "stamped"]]
  BY DEF Stamp
<1>2. SAMPLES[i] \in Records /\ clock + 1 \in Nat
  BY DEF Shape
<1>. DEFINE r == [SAMPLES[i] EXCEPT !.time = clock + 1, !.pc = "stamped"]
<1>3. r \in Records /\ r.cpu = SAMPLES[i].cpu /\ r.time = clock + 1 /\ r.pc = "stamped"
  BY <1>2 DEF Records
<1>. QED
  BY <1>1, <1>3

LEMMA SubmitSets ==
  ASSUME Shape, NEW i \in DOMAIN SAMPLES, Submit(i)
  PROVE  \E r \in Records : /\ SAMPLES' = [SAMPLES EXCEPT ![i] = r] /\ clock' = clock
                            /\ r.cpu = SAMPLES[i].cpu /\ r.time = SAMPLES[i].time /\ r.pc = "submitted"
<1>1. SAMPLES' = [SAMPLES EXCEPT ![i] = [SAMPLES[i] EXCEPT !.pc = "submitted"]] /\ clock' = clock
  BY DEF Submit
<1>2. SAMPLES[i] \in Records
  BY DEF Shape
<1>. DEFINE r == [SAMPLES[i] EXCEPT !.pc = "submitted"]
<1>3. r \in Records /\ r.cpu = SAMPLES[i].cpu /\ r.time = SAMPLES[i].time /\ r.pc = "submitted"
  BY <1>2 DEF Records
<1>. QED
  BY <1>1, <1>3

LEMMA NextShape ==
  ASSUME Shape, [Next]_vars
  PROVE  Shape'
<1>. USE DEF Shape
<1>1. ASSUME NEW cpu \in Cpus, NEW f \in Flows, Reserve(cpu, f) PROVE Shape'
  <2>1. [cpu |-> cpu, flow |-> f, time |-> 0, pc |-> "reserved"] \in Records
    BY DEF Records
  <2>. QED
    BY <1>1, <2>1 DEF Reserve, consumer, stats, handlers, history
<1>2. ASSUME NEW i \in DOMAIN SAMPLES, Stamp(i) \/ Submit(i) PROVE Shape'
  <2>1. SAMPLES' \in Seq(Records) /\ clock' \in Nat
    <3>1. PICK r \in Records : SAMPLES' = [SAMPLES EXCEPT ![i] = r]
      BY <1>2, StampSets, SubmitSets
    <3>2. SAMPLES' \in Seq(Records)
      BY <3>1, SetEntry
    <3>. QED
      BY <1>2, <3>2 DEF Stamp, Submit
  <2>. QED
    BY <1>2, <2>1 DEF Stamp, Submit, consumer, stats, handlers, history
<1>3. CASE Forward
  <2>1. Head(SAMPLES) \in Done /\ SAMPLES' \in Seq(Records) /\ shm' \in Seq(Done)
    BY <1>3 DEF Forward, Done
  <2>. QED
    BY <1>3, <2>1 DEF Forward, consumer, stats, handlers, history
<1>4. CASE Pop
  <2>1. CASE shm = <<>>
    BY <1>4, <2>1 DEF Pop, kernel, stats, handlers, consumer
  <2>2. CASE shm # <<>>
    <3>1. Head(shm) \in Done /\ Tail(shm) \in Seq(Done) /\ popped + 1 \in Nat
      BY <2>2
    <3>. QED
      BY <1>4, <2>2, <3>1 DEF Pop, kernel, stats, handlers
  <2>. QED
    BY <2>1, <2>2
<1>5. CASE TryWrite
  BY <1>5 DEF TryWrite, kernel, stats, handlers
<1>6. CASE RecordTotal
  BY <1>6 DEF RecordTotal, kernel, handlers, history
<1>7. CASE RecordFlow
  <2>1. sample.flow \in Flows
    BY <1>7 DEF RecordFlow, Done, Records
  <2>. QED
    BY <1>7, <2>1 DEF RecordFlow, kernel, handlers
<1>8. ASSUME NEW h \in Handlers, ReadLock(h) PROVE Shape'
  BY <1>8 DEF ReadLock, kernel, consumer, stats
<1>9. ASSUME NEW h \in Handlers, ReadFlows(h) PROVE Shape'
  <2>1. PICK top \in SUBSET Flows : response' = [response EXCEPT ![h].flows = Listing(flows, top)]
    BY <1>9 DEF ReadFlows
  <2>2. Listing(flows, top) \in [Flows -> Nat]
    BY DEF Listing
  <2>3. response' \in [Handlers -> [flows : [Flows -> Nat], total : Nat]]
    BY <2>1, <2>2
  <2>. QED
    BY <1>9, <2>3 DEF ReadFlows, kernel, consumer, stats, history
<1>10. ASSUME NEW h \in Handlers, ReadTotal(h) PROVE Shape'
  BY <1>10 DEF ReadTotal, kernel, consumer, stats, history
<1>11. CASE SamplerCrash
  BY <1>11 DEF SamplerCrash, consumer, stats, handlers, history
<1>12. CASE AnalyzerCrash
  <2>1. \A V : <<>> \in Seq(V)
    OBVIOUS
  <2>. QED
    BY <1>12, <2>1, NoResponseType DEF AnalyzerCrash, kernel
<1>13. CASE UNCHANGED vars
  BY <1>13 DEF vars, kernel, consumer, stats, handlers, history
<1>. QED
  BY <1>1, <1>2, <1>3, <1>4, <1>5, <1>6, <1>7, <1>8, <1>9, <1>10, <1>11, <1>12, <1>13
     DEF Next, Kernel, Consume, Read

LEMMA ShapeAlways == Spec => []Shape
  BY InitShape, NextShape, PTL DEF Spec
-----------------------------------------------------------------------------
\* A sample before another of its CPU: it has been submitted, and its time is
\* earlier unless the other has none yet.
Precedes(a, b) == a.cpu = b.cpu => a.pc = "submitted" /\ (b.pc = "reserved" \/ a.time < b.time)
Ordered(list) == \A i, j \in DOMAIN list : i < j => Precedes(list[i], list[j])
AllBefore(list, b) == \A i \in DOMAIN list : Precedes(list[i], b)
AllAfter(a, list) == \A i \in DOMAIN list : Precedes(a, list[i])
Before(s, t) == \A i \in DOMAIN s : AllAfter(s[i], t)
Past(list) == \A i \in DOMAIN list : list[i].time <= clock

\* The samples on their way, from those recorded through the one in hand and
\* the ring to the kernel's buffer, are in the order of their CPUs.
OrderInv ==
  /\ Ordered(recorded) /\ Ordered(shm) /\ Ordered(SAMPLES)
  /\ Before(recorded, shm) /\ Before(recorded, SAMPLES) /\ Before(shm, SAMPLES)
  /\ conPc # "pop" => AllBefore(recorded, sample) /\ AllAfter(sample, shm) /\ AllAfter(sample, SAMPLES)
                        /\ sample.time <= clock
  /\ Past(recorded) /\ Past(shm) /\ Past(SAMPLES)

\* The order of lists is that of their parts.
LEMMA AppendOrdered ==
  ASSUME NEW V, NEW list \in Seq(V), NEW x \in V
  PROVE  /\ Ordered(list) /\ AllBefore(list, x) => Ordered(Append(list, x))
         /\ \A a : AllAfter(a, list) /\ Precedes(a, x) => AllAfter(a, Append(list, x))
         /\ \A W : \A t \in Seq(W) : Before(list, t) /\ AllAfter(x, t) => Before(Append(list, x), t)
         /\ \A W : \A t \in Seq(W) : Before(t, list) /\ AllBefore(t, x) => Before(t, Append(list, x))
         /\ Past(list) /\ x.time <= clock => Past(Append(list, x))
<1>1. /\ \A i \in DOMAIN list : i \in DOMAIN Append(list, x) /\ Append(list, x)[i] = list[i] /\ i <= Len(list)
      /\ \A i \in DOMAIN Append(list, x) : i \in DOMAIN list \/ (i = Len(list) + 1 /\ Append(list, x)[i] = x)
      /\ DOMAIN list \subseteq Nat /\ Len(list) \in Nat
  OBVIOUS
<1>. DEFINE more == Append(list, x)
<1>. HIDE DEF more
<1>2. /\ \A i \in DOMAIN list : i \in DOMAIN more /\ more[i] = list[i] /\ i <= Len(list)
      /\ \A i \in DOMAIN more : i \in DOMAIN list \/ (i = Len(list) + 1 /\ more[i] = x)
      /\ DOMAIN list \subseteq Nat /\ Len(list) \in Nat
  BY <1>1 DEF more
<1>3. Ordered(list) /\ AllBefore(list, x) => Ordered(more)
  BY <1>2 DEF Ordered, AllBefore
<1>4. \A a : AllAfter(a, list) /\ Precedes(a, x) => AllAfter(a, more)
  BY <1>2 DEF AllAfter
<1>5. \A W : \A t \in Seq(W) : Before(list, t) /\ AllAfter(x, t) => Before(more, t)
  BY <1>2 DEF Before
<1>6. \A W : \A t \in Seq(W) : Before(t, list) /\ AllBefore(t, x) => Before(t, more)
  BY <1>4 DEF Before, AllBefore
<1>7. Past(list) /\ x.time <= clock => Past(more)
  BY <1>2 DEF Past
<1>. QED
  BY <1>3, <1>4, <1>5, <1>6, <1>7 DEF more

LEMMA TailOrdered ==
  ASSUME NEW V, NEW list \in Seq(V), list # <<>>
  PROVE  /\ Ordered(list) => Ordered(Tail(list)) /\ AllAfter(Head(list), Tail(list))
         /\ \A a : AllAfter(a, list) => AllAfter(a, Tail(list)) /\ Precedes(a, Head(list))
         /\ \A W : \A t \in Seq(W) : Before(list, t) => Before(Tail(list), t) /\ AllAfter(Head(list), t)
         /\ \A W : \A t \in Seq(W) : Before(t, list) => Before(t, Tail(list)) /\ AllBefore(t, Head(list))
         /\ Past(list) => Past(Tail(list)) /\ Head(list).time <= clock
<1>1. /\ \A i \in DOMAIN Tail(list) : i + 1 \in DOMAIN list /\ Tail(list)[i] = list[i + 1] /\ i \in Nat /\ 1 <= i
      /\ 1 \in DOMAIN list /\ Head(list) = list[1]
  OBVIOUS
<1>. DEFINE less == Tail(list)
            first == Head(list)
<1>. HIDE DEF less, first
<1>2. /\ \A i \in DOMAIN less : i + 1 \in DOMAIN list /\ less[i] = list[i + 1] /\ i \in Nat /\ 1 <= i
      /\ 1 \in DOMAIN list /\ first = list[1]
  BY <1>1 DEF less, first
<1>3. Ordered(list) => Ordered(less) /\ AllAfter(first, less)
  <2>1. ASSUME Ordered(list), NEW i \in DOMAIN less, NEW j \in DOMAIN less, i < j
        PROVE  Precedes(less[i], less[j])
    <3>1. i + 1 < j + 1
      BY <1>2, <2>1
    <3>. QED
      BY <1>2, <2>1, <3>1 DEF Ordered
  <2>2. ASSUME Ordered(list), NEW i \in DOMAIN less PROVE Precedes(first, less[i])
    <3>1. 1 < i + 1
      BY <1>2
    <3>. QED
      BY <1>2, <2>2, <3>1 DEF Ordered
  <2>. QED
    BY <2>1, <2>2 DEF Ordered, AllAfter
<1>4. \A a : AllAfter(a, list) => AllAfter(a, less) /\ Precedes(a, first)
  BY <1>2 DEF AllAfter
<1>5. \A W : \A t \in Seq(W) : Before(list, t) => Before(less, t) /\ AllAfter(first, t)
  BY <1>2 DEF Before
<1>6. \A W : \A t \in Seq(W) : Before(t, list) => Before(t, less) /\ AllBefore(t, first)
  BY <1>4 DEF Before, AllBefore
<1>7. Past(list) => Past(less) /\ first.time <= clock
  BY <1>2 DEF Past
<1>. QED
  BY <1>3, <1>4, <1>5, <1>6, <1>7 DEF less, first

\* A record is changed in place: the order holds if it held at its index.
LEMMA SetOrdered ==
  ASSUME NEW V, NEW list \in Seq(V), NEW i \in DOMAIN list, NEW x \in V,
         Ordered(list),
         \A j \in DOMAIN list : j < i => Precedes(list[j], x),
         \A j \in DOMAIN list : i < j => Precedes(x, list[j])
  PROVE  Ordered([list EXCEPT ![i] = x])
  BY DEF Ordered

LEMMA NextOrderInv ==
  ASSUME Shape, OrderInv, [Next]_vars
  PROVE  OrderInv'
<1>. USE DEF Past
<1>1. ASSUME NEW cpu \in Cpus, NEW f \in Flows, Reserve(cpu, f) PROVE OrderInv'
  <2>. DEFINE r == [cpu |-> cpu, flow |-> f, time |-> 0, pc |-> "reserved"]
  <2>1. r \in Records /\ r.cpu = cpu /\ r.time = 0 /\ r.pc = "reserved"
    BY DEF Records
  <2>2. SAMPLES' = Append(SAMPLES, r) /\ UNCHANGED <<clock, shm, conPc, sample, recorded>>
    BY <1>1 DEF Reserve, consumer, history
  <2>. HIDE DEF r
  <2>3. /\ \A a \in Done : Precedes(a, r)
        /\ \A i \in DOMAIN SAMPLES : Precedes(SAMPLES[i], r)
    BY <1>1, <2>1 DEF Reserve, Busy, Precedes, Done
  <2>4. AllBefore(SAMPLES, r) /\ AllBefore(shm, r) /\ AllBefore(recorded, r)
    BY <2>3 DEF AllBefore, Shape
  <2>5. r.time <= clock
    BY <2>1 DEF Shape
  <2>6. /\ Ordered(SAMPLES') /\ Before(recorded, SAMPLES') /\ Before(shm, SAMPLES')
        /\ conPc # "pop" => AllAfter(sample, SAMPLES')
    BY <2>1, <2>2, <2>3, <2>4, AppendOrdered DEF OrderInv, Shape
  <2>7. Past(SAMPLES')
    BY <2>1, <2>2, <2>5, AppendOrdered DEF OrderInv, Shape
  <2>. QED
    BY <2>2, <2>6, <2>7 DEF OrderInv
<1>2. ASSUME NEW i \in DOMAIN SAMPLES, Stamp(i) PROVE OrderInv'
  <2>1. PICK r \in Records : /\ SAMPLES' = [SAMPLES EXCEPT ![i] = r]
                             /\ r.cpu = SAMPLES[i].cpu /\ r.time = clock + 1 /\ r.pc = "stamped"
    BY <1>2, StampSets
  <2>2. SAMPLES[i].pc = "reserved" /\ clock' = clock + 1 /\ UNCHANGED <<shm, conPc, sample, recorded>>
    BY <1>2 DEF Stamp, consumer, history
  <2>3. DOMAIN SAMPLES' = DOMAIN SAMPLES /\ SAMPLES'[i] = r /\ clock \in Nat
          /\ \A j \in DOMAIN SAMPLES : j # i => SAMPLES'[j] = SAMPLES[j]
    BY <2>1 DEF Shape
  <2>. DEFINE Timed(list) == \A j \in DOMAIN list : list[j].time \in Nat /\ list[j].time <= clock
  <2>10. Timed(SAMPLES) /\ Timed(shm) /\ Timed(recorded) /\ (conPc # "pop" => sample.time \in Nat)
    <3>1. \A rec \in Records : rec.time \in Nat
      BY DEF Records
    <3>2. \A rec \in Done : rec.time \in Nat
      BY <3>1 DEF Done
    <3>3. \A j \in DOMAIN SAMPLES : SAMPLES[j] \in Records
      BY DEF Shape
    <3>4. (\A j \in DOMAIN shm : shm[j] \in Done) /\ (\A j \in DOMAIN recorded : recorded[j] \in Done)
      BY DEF Shape
    <3>. QED
      BY <3>1, <3>2, <3>3, <3>4 DEF OrderInv, Shape
  <2>4. ASSUME NEW a, Precedes(a, SAMPLES[i]), a.time <= clock, a.time \in Nat PROVE Precedes(a, r)
    BY <2>1, <2>3, <2>4 DEF Precedes
  <2>5. ASSUME NEW b, Precedes(SAMPLES[i], b) PROVE Precedes(r, b)
    BY <2>1, <2>2, <2>5 DEF Precedes
  <2>6. Ordered(SAMPLES')
    <3>1. \A j \in DOMAIN SAMPLES : j < i => Precedes(SAMPLES[j], r)
      BY <2>4, <2>10 DEF OrderInv, Ordered
    <3>2. \A j \in DOMAIN SAMPLES : i < j => Precedes(r, SAMPLES[j])
      BY <2>5 DEF OrderInv, Ordered
    <3>. QED
      BY <2>1, <3>1, <3>2, SetOrdered DEF OrderInv, Shape
  <2>7. Before(recorded, SAMPLES') /\ Before(shm, SAMPLES')
    BY <2>3, <2>4, <2>10 DEF OrderInv, Before, AllAfter
  <2>8. conPc # "pop" => AllAfter(sample, SAMPLES')
    BY <2>3, <2>4 DEF OrderInv, AllAfter, Shape, Done, Records
  <2>9. /\ Past(recorded)' /\ Past(shm)' /\ Past(SAMPLES)'
        /\ conPc # "pop" => sample.time <= clock'
    <3>1. \A j \in DOMAIN SAMPLES : SAMPLES'[j].time <= clock + 1
      BY <2>1, <2>3, <2>10
    <3>2. conPc # "pop" => sample.time <= clock + 1
      BY <2>3, <2>10 DEF OrderInv
    <3>3. /\ \A j \in DOMAIN shm : shm[j].time <= clock + 1
          /\ \A j \in DOMAIN recorded : recorded[j].time <= clock + 1
      BY <2>3, <2>10
    <3>. QED
      BY <2>2, <2>3, <3>1, <3>2, <3>3
  <2>. QED
    BY <2>2, <2>6, <2>7, <2>8, <2>9 DEF OrderInv
<1>3. ASSUME NEW i \in DOMAIN SAMPLES, Submit(i) PROVE OrderInv'
  <2>1. PICK r \in Records : /\ SAMPLES' = [SAMPLES EXCEPT ![i] = r] /\ clock' = clock
                             /\ r.cpu = SAMPLES[i].cpu /\ r.time = SAMPLES[i].time /\ r.pc = "submitted"
    BY <1>3, SubmitSets
  <2>2. SAMPLES[i].pc = "stamped" /\ UNCHANGED <<shm, conPc, sample, recorded>>
    BY <1>3 DEF Submit, consumer, history
  <2>3. DOMAIN SAMPLES' = DOMAIN SAMPLES /\ SAMPLES'[i] = r
          /\ \A j \in DOMAIN SAMPLES : j # i => SAMPLES'[j] = SAMPLES[j]
    BY <2>1 DEF Shape
  <2>4. ASSUME NEW a, Precedes(a, SAMPLES[i]) PROVE Precedes(a, r)
    BY <2>1, <2>2, <2>4 DEF Precedes
  <2>5. ASSUME NEW b, Precedes(SAMPLES[i], b) PROVE Precedes(r, b)
    BY <2>1, <2>2, <2>5 DEF Precedes
  <2>6. Ordered(SAMPLES')
    <3>1. \A j \in DOMAIN SAMPLES : j < i => Precedes(SAMPLES[j], r)
      BY <2>4 DEF OrderInv, Ordered
    <3>2. \A j \in DOMAIN SAMPLES : i < j => Precedes(r, SAMPLES[j])
      BY <2>5 DEF OrderInv, Ordered
    <3>. QED
      BY <2>1, <3>1, <3>2, SetOrdered DEF OrderInv, Shape
  <2>7. Before(recorded, SAMPLES') /\ Before(shm, SAMPLES')
    BY <2>3, <2>4 DEF OrderInv, Before, AllAfter
  <2>8. conPc # "pop" => AllAfter(sample, SAMPLES')
    BY <2>3, <2>4 DEF OrderInv, AllAfter
  <2>9. Past(SAMPLES)'
    BY <2>1, <2>3 DEF OrderInv
  <2>. QED
    BY <2>1, <2>2, <2>6, <2>7, <2>8, <2>9 DEF OrderInv
<1>4. CASE Forward
  <2>. DEFINE x == Head(SAMPLES)
  <2>1. /\ SAMPLES \in Seq(Records) /\ SAMPLES # <<>> /\ SAMPLES' = Tail(SAMPLES) /\ x \in Done
        /\ shm' = Append(shm, x) \/ shm' = shm
        /\ shm \in Seq(Done) /\ recorded \in Seq(Done) /\ UNCHANGED <<clock, conPc, sample, recorded>>
    BY <1>4 DEF Forward, Shape, Done, consumer, history
  <2>2. /\ Ordered(SAMPLES') /\ AllAfter(x, SAMPLES') /\ Past(SAMPLES') /\ x.time <= clock
        /\ Before(recorded, SAMPLES') /\ AllBefore(recorded, x)
        /\ Before(shm, SAMPLES') /\ AllBefore(shm, x)
        /\ conPc # "pop" => AllAfter(sample, SAMPLES') /\ Precedes(sample, x)
    BY <2>1, TailOrdered DEF OrderInv
  <2>. HIDE DEF x
  <2>3. SAMPLES' \in Seq(Records)
    BY <2>1
  <2>4. /\ Ordered(shm') /\ Before(recorded, shm') /\ Before(shm', SAMPLES') /\ Past(shm')
        /\ conPc # "pop" => AllAfter(sample, shm')
    BY <2>1, <2>2, <2>3, AppendOrdered DEF OrderInv
  <2>. QED
    BY <2>1, <2>2, <2>4 DEF OrderInv
<1>5. CASE Pop
  <2>1. CASE shm = <<>>
    BY <1>5, <2>1 DEF Pop, kernel, consumer, OrderInv
  <2>2. CASE shm # <<>>
    <3>1. /\ sample' = Head(shm) /\ shm' = Tail(shm) /\ conPc' = "tryWrite"
          /\ UNCHANGED <<clock, SAMPLES, recorded>>
      BY <1>5, <2>2 DEF Pop, kernel
    <3>2. /\ Ordered(shm') /\ AllAfter(sample', shm') /\ Past(shm') /\ sample'.time <= clock
          /\ Before(recorded, shm') /\ AllBefore(recorded, sample')
          /\ Before(shm', SAMPLES) /\ AllAfter(sample', SAMPLES)
      BY <2>2, <3>1, TailOrdered DEF OrderInv, Shape
    <3>. QED
      BY <3>1, <3>2 DEF OrderInv
  <2>. QED
    BY <2>1, <2>2
<1>6. CASE TryWrite \/ RecordTotal
  <2>1. UNCHANGED <<clock, SAMPLES, shm, recorded>> /\ conPc # "pop" /\ (conPc' = "pop" \/ sample' = sample)
    BY <1>6 DEF TryWrite, RecordTotal, kernel, history
  <2>. QED
    BY <2>1 DEF OrderInv
<1>7. CASE RecordFlow
  <2>1. /\ recorded' = Append(recorded, sample) /\ conPc # "pop" /\ conPc' = "pop"
        /\ UNCHANGED <<clock, SAMPLES, shm>> /\ sample \in Done
    BY <1>7 DEF RecordFlow, kernel, Shape
  <2>2. Ordered(recorded') /\ Before(recorded', shm) /\ Before(recorded', SAMPLES) /\ Past(recorded')
    BY <2>1, AppendOrdered DEF OrderInv, Shape
  <2>. QED
    BY <2>1, <2>2 DEF OrderInv
<1>8. ASSUME NEW h \in Handlers, ReadLock(h) \/ ReadFlows(h) \/ ReadTotal(h) PROVE OrderInv'
  BY <1>8 DEF ReadLock, ReadFlows, ReadTotal, kernel, consumer, history, OrderInv
<1>9. CASE SamplerCrash
  BY <1>9 DEF SamplerCrash, consumer, history, OrderInv, Ordered, Before, AllAfter
<1>10. CASE AnalyzerCrash
  BY <1>10 DEF AnalyzerCrash, kernel, OrderInv, Ordered, Before
<1>11. CASE UNCHANGED vars
  BY <1>11 DEF vars, kernel, consumer, history, OrderInv
<1>. QED
  BY <1>1, <1>2, <1>3, <1>4, <1>5, <1>6, <1>7, <1>8, <1>9, <1>10, <1>11
     DEF Next, Kernel, Consume, Read

\* CpuOrderKept: the samples of one CPU are recorded in the order in which
\* they were taken, and none twice.
THEOREM CpuOrderIsKept == Spec => []CpuOrderKept
<1>1. Init => OrderInv
  BY DEF Init, OrderInv, Ordered, Before, AllAfter, Past
<1>2. Shape /\ OrderInv /\ [Next]_vars => OrderInv'
  BY NextOrderInv
<1>3. ASSUME Shape, OrderInv PROVE CpuOrderKept
  <2>1. \A i \in DOMAIN recorded : recorded[i].pc = "submitted"
    BY <1>3 DEF Shape, Done
  <2>. QED
    BY <1>3, <2>1 DEF OrderInv, Ordered, Precedes, CpuOrderKept
<1>. QED
  BY <1>1, <1>2, <1>3, ShapeAlways, PTL DEF Spec
-----------------------------------------------------------------------------
\* With a reader about and a sample in hand the two have met; nothing counted
\* was not popped.
LossInv ==
  /\ conPc = "tryWrite" /\ Reading # {} => met
  /\ total_packets + (IF conPc \in {"tryWrite", "recordTotal"} THEN 1 ELSE 0) <= popped

\* A step loses a sample only if a reader has met it, and keeps the invariant.
LEMMA NextLossInv ==
  ASSUME Shape, LossInv, [Next]_vars
  PROVE  LossInv' /\ (Lost' > Lost => met)
<1>. USE DEF Shape, Lost
<1>1. CASE UNCHANGED <<consumer, stats, handlers, history>>
  BY <1>1 DEF consumer, stats, handlers, history, LossInv, Reading
<1>2. CASE Pop
  <2>1. CASE shm = <<>>
    BY <1>2, <2>1 DEF Pop, LossInv, Reading, consumer, stats, handlers
  <2>2. CASE shm # <<>>
    <3>1. /\ conPc = "pop" /\ conPc' = "tryWrite" /\ popped' = popped + 1 /\ total_packets' = total_packets
          /\ Reading' = Reading /\ met' = (Reading # {})
      BY <1>2, <2>2 DEF Pop, Reading, stats, handlers
    <3>2. total_packets' + 1 <= popped'
      BY <3>1 DEF LossInv
    <3>3. LossInv'
      BY <3>1, <3>2 DEF LossInv
    <3>. QED
      BY <3>1, <3>3
  <2>. QED
    BY <2>1, <2>2
<1>3. CASE TryWrite
  <2>1. CASE Reading = {}
    BY <1>3, <2>1 DEF TryWrite, LossInv, stats, handlers
  <2>2. CASE Reading # {}
    BY <1>3, <2>2 DEF TryWrite, LossInv, stats, handlers
  <2>. QED
    BY <2>1, <2>2
<1>4. CASE RecordTotal
  BY <1>4 DEF RecordTotal, LossInv, handlers, history
<1>5. CASE RecordFlow
  BY <1>5 DEF RecordFlow, LossInv, handlers
<1>6. ASSUME NEW h \in Handlers, ReadLock(h) PROVE LossInv' /\ (Lost' > Lost => met)
  <2>1. /\ UNCHANGED <<conPc, popped, total_packets>> /\ met' = (met \/ conPc = "tryWrite")
    BY <1>6 DEF ReadLock, consumer, stats
  <2>2. LossInv'
    BY <2>1 DEF LossInv
  <2>. QED
    BY <2>1, <2>2
<1>7. ASSUME NEW h \in Handlers, ReadFlows(h) \/ ReadTotal(h) PROVE LossInv' /\ (Lost' > Lost => met)
  <2>1. Reading' \subseteq Reading /\ UNCHANGED <<conPc, met, popped, total_packets>>
    BY <1>7 DEF ReadFlows, ReadTotal, Reading, consumer, stats, history
  <2>. QED
    BY <2>1 DEF LossInv
<1>8. CASE AnalyzerCrash
  BY <1>8 DEF AnalyzerCrash, LossInv, Reading
<1>9. Kernel \/ Forward \/ SamplerCrash => UNCHANGED <<consumer, stats, handlers, history>>
  BY DEF Kernel, Reserve, Stamp, Submit, Forward, SamplerCrash
<1>10. UNCHANGED vars => UNCHANGED <<consumer, stats, handlers, history>>
  BY DEF vars
<1>. QED
  BY <1>1, <1>2, <1>3, <1>4, <1>5, <1>6, <1>7, <1>8, <1>9, <1>10 DEF Next, Consume, Read

\* LostOnlyToReaders: a sample popped is missing from the totals only if
\* somebody read the statistics while it was in hand.
THEOREM LosesOnlyToReaders == Spec => LostOnlyToReaders
<1>1. Init => LossInv
  BY DEF Init, LossInv, Reading
<1>2. Shape /\ LossInv /\ [Next]_vars => LossInv' /\ [Lost' > Lost => met]_vars
  BY NextLossInv
<1>. QED
  BY <1>1, <1>2, ShapeAlways, PTL DEF Spec, LostOnlyToReaders
-----------------------------------------------------------------------------
\* The statistics count the samples recorded, nobody reads while they are
\* written, and what a handler has read so far is still so.
Counting == /\ total_packets = Len(recorded) + (IF conPc = "recordFlow" THEN 1 ELSE 0)
            /\ flows = CountsOf(Len(recorded))
Excluded == conPc \in {"recordTotal", "recordFlow"} => \A h \in Handlers : hPc[h] = "idle"
HasListed(r) == \E top \in SUBSET Flows : IsTop(flows, top) /\ r.flows = Listing(flows, top)
HalfRead == \A h \in Handlers : hPc[h] = "readTotal" => HasListed(response[h])
StatsInv == Counting /\ Excluded /\ HalfRead /\ ResponseConsistent

\* With nothing recorded yet, the empty answer is the right one.
Fresh == recorded = <<>> => Answered(NoResponse) /\ CountsOf(0) = [f \in Flows |-> 0]
LEMMA NothingAnswered == Fresh
<1>. SUFFICES ASSUME recorded = <<>>
     PROVE  Answered(NoResponse) /\ CountsOf(0) = [f \in Flows |-> 0]
  BY DEF Fresh
<1>1. CountsOf(0) = [f \in Flows |-> 0]
  <2>1. \A f : {i \in 1..0 : recorded[i].flow = f} = {}
    OBVIOUS
  <2>2. Cardinality({}) = 0
    BY FS_EmptySet
  <2>. QED
    BY <2>1, <2>2 DEF CountsOf
<1>2. IsTop(CountsOf(0), {})
  <2>1. Seen(CountsOf(0)) = {}
    BY <1>1 DEF Seen
  <2>2. Cardinality({}) <= TopN
    BY FS_EmptySet
  <2>. QED
    BY <2>1, <2>2 DEF IsTop
<1>3. NoResponse = [flows |-> Listing(CountsOf(0), {}), total |-> 0]
  BY <1>1 DEF NoResponse, Listing
<1>4. 0 \in 0..Len(recorded)
  OBVIOUS
<1>. QED
  BY <1>1, <1>2, <1>3, <1>4 DEF Answered

\* Recording a sample changes no count of those before it, and adds one to the
\* count of its flow.
LEMMA CountsGrow ==
  ASSUME Shape, NEW x \in Done, recorded' = Append(recorded, x)
  PROVE  /\ \A n \in 0..Len(recorded) : CountsOf(n)' = CountsOf(n)
         /\ CountsOf(Len(recorded)) \in [Flows -> Nat]
         /\ Len(recorded') = Len(recorded) + 1
         /\ CountsOf(Len(recorded))' = [CountsOf(Len(recorded)) EXCEPT ![x.flow] = @ + 1]
<1>1. PICK last \in Nat : last = Len(recorded) + 1
  BY DEF Shape
<1>2. /\ last - 1 \in Nat /\ Len(recorded) = last - 1 /\ Len(recorded') = last
      /\ recorded'[last] = x /\ \A i \in 1..(last - 1) : recorded'[i] = recorded[i]
  BY <1>1 DEF Shape
<1>. DEFINE Of(f, n) == {i \in 1..n : recorded[i].flow = f}
            Now(f, n) == {i \in 1..n : recorded'[i].flow = f}
<1>3. ASSUME NEW n \in 0..(last - 1), NEW f PROVE Now(f, n) = Of(f, n)
  BY <1>2, <1>3
<1>4. \A n \in 0..Len(recorded) : CountsOf(n)' = CountsOf(n)
  <2>. HIDE DEF Of, Now
  <2>. SUFFICES ASSUME NEW n \in 0..(last - 1) PROVE CountsOf(n)' = CountsOf(n)
    BY <1>2
  <2>1. CountsOf(n) = [f \in Flows |-> Cardinality(Of(f, n))]
    BY DEF CountsOf, Of
  <2>2. CountsOf(n)' = [f \in Flows |-> Cardinality(Now(f, n))]
    BY DEF CountsOf, Now
  <2>. QED
    BY <1>3, <2>1, <2>2
<1>5. ASSUME NEW f PROVE IsFiniteSet(Of(f, last - 1)) /\ Cardinality(Of(f, last - 1)) \in Nat
  <2>1. IsFiniteSet(1..(last - 1))
    BY <1>2, FS_Interval
  <2>2. Of(f, last - 1) \subseteq 1..(last - 1)
    OBVIOUS
  <2>. HIDE DEF Of
  <2>. QED
    BY <2>1, <2>2, FS_Subset, FS_CardinalityType
<1>6. CountsOf(Len(recorded)) = [f \in Flows |-> Cardinality(Of(f, last - 1))]
  BY <1>2 DEF CountsOf
<1>7. CountsOf(Len(recorded))' = [f \in Flows |-> Cardinality(Now(f, last))]
  BY <1>2 DEF CountsOf
<1>8. CountsOf(Len(recorded)) \in [Flows -> Nat]
  <2>. HIDE DEF Of
  <2>. QED
    BY <1>5, <1>6
<1>9. ASSUME NEW f \in Flows
      PROVE  Cardinality(Now(f, last)) = IF f = x.flow THEN Cardinality(Of(f, last - 1)) + 1
                                         ELSE Cardinality(Of(f, last - 1))
  <2>1. CASE f = x.flow
    <3>1. Now(f, last) = Of(f, last - 1) \cup {last} /\ last \notin Of(f, last - 1)
      BY <1>2, <2>1
    <3>. HIDE DEF Of, Now
    <3>. QED
      BY <1>5, <2>1, <3>1, FS_AddElement
  <2>2. CASE f # x.flow
    <3>1. Now(f, last) = Of(f, last - 1)
      BY <1>2, <2>2
    <3>. HIDE DEF Of, Now
    <3>. QED
      BY <2>2, <3>1
  <2>. QED
    BY <2>1, <2>2
<1>10. CountsOf(Len(recorded))' = [CountsOf(Len(recorded)) EXCEPT ![x.flow] = @ + 1]
  <2>. HIDE DEF Of, Now
  <2>. QED
    BY <1>6, <1>7, <1>9
<1>. QED
  BY <1>2, <1>4, <1>8, <1>10

LEMMA CountsStay ==
  ASSUME recorded' = recorded
  PROVE  /\ CountsOf(Len(recorded))' = CountsOf(Len(recorded))
         /\ \A n : CountsOf(n)' = CountsOf(n)
         /\ \A r : Answered(r)' <=> Answered(r)
<1>1. CountsOf(Len(recorded))' = CountsOf(Len(recorded))
  BY DEF CountsOf
<1>2. \A n : CountsOf(n)' = CountsOf(n)
  BY DEF CountsOf
<1>3. \A r : Answered(r)' <=> Answered(r)
  BY <1>2 DEF Answered
<1>. QED
  BY <1>1, <1>2, <1>3

\* A step that leaves the statistics and the answer of each idle handler.
LEMMA AnswersStay ==
  ASSUME ResponseConsistent, recorded' = recorded,
         \A h \in Handlers : hPc'[h] = "idle" => hPc[h] = "idle" /\ response'[h] = response[h]
  PROVE  ResponseConsistent'
<1>. SUFFICES ASSUME NEW h \in Handlers, hPc'[h] = "idle" PROVE Answered(response[h])'
  BY DEF ResponseConsistent
<1>1. PICK r : r = response[h] /\ response'[h] = r /\ Answered(r)
  BY DEF ResponseConsistent
<1>2. Answered(r)'
  BY <1>1, CountsStay
<1>. QED
  BY <1>1, <1>2 DEF Answered

LEMMA HalfReadStays ==
  ASSUME HalfRead, flows' = flows,
         \A h \in Handlers : hPc'[h] = "readTotal" => hPc[h] = "readTotal" /\ response'[h] = response[h]
  PROVE  HalfRead'
  BY DEF HalfRead, HasListed

LEMMA NextStatsInv ==
  ASSUME Shape, StatsInv, [Next]_vars
  PROVE  StatsInv'
<1>. USE DEF StatsInv
<1>1. CASE UNCHANGED <<conPc, stats, hPc, response, recorded>>
  <2>1. Counting' /\ Excluded'
    BY <1>1, CountsStay DEF stats, Counting, Excluded
  <2>. QED
    BY <1>1, <2>1, AnswersStay, HalfReadStays DEF stats
<1>2. CASE RecordTotal
  <2>1. /\ conPc = "recordTotal" /\ conPc' = "recordFlow" /\ total_packets' = total_packets + 1
        /\ UNCHANGED <<flows, hPc, response, recorded>>
    BY <1>2 DEF RecordTotal, handlers, history
  <2>2. Counting' /\ Excluded'
    BY <2>1, CountsStay DEF Counting, Excluded, Shape
  <2>. QED
    BY <2>1, <2>2, AnswersStay, HalfReadStays
<1>3. CASE RecordFlow
  <2>1. /\ conPc = "recordFlow" /\ conPc' = "pop" /\ UNCHANGED <<total_packets, hPc, response>>
        /\ flows' = [flows EXCEPT ![sample.flow] = @ + 1]
    BY <1>3 DEF RecordFlow, handlers
  <2>2. PICK x \in Done : x = sample /\ recorded' = Append(recorded, x)
    BY <1>3 DEF RecordFlow, Shape
  <2>3. /\ \A n \in 0..Len(recorded) : CountsOf(n)' = CountsOf(n)
        /\ Len(recorded') = Len(recorded) + 1
        /\ CountsOf(Len(recorded))' = [CountsOf(Len(recorded)) EXCEPT ![x.flow] = @ + 1]
    BY <2>2, CountsGrow
  <2>4. \A h \in Handlers : hPc[h] = "idle"
    BY <2>1 DEF Excluded
  <2>5. Counting'
    BY <2>1, <2>2, <2>3 DEF Counting, Shape
  <2>6. ResponseConsistent'
    <3>. SUFFICES ASSUME NEW h \in Handlers PROVE Answered(response[h])'
      BY DEF ResponseConsistent
    <3>1. PICK r : r = response[h] /\ response'[h] = r /\ Answered(r)
      BY <2>1, <2>4 DEF ResponseConsistent
    <3>2. PICK n \in 0..Len(recorded), top \in SUBSET Flows :
            IsTop(CountsOf(n), top) /\ r = [flows |-> Listing(CountsOf(n), top), total |-> n]
      BY <3>1 DEF Answered
    <3>3. n \in 0..Len(recorded') /\ CountsOf(n)' = CountsOf(n)
      BY <2>3 DEF Shape
    <3>4. Answered(r)'
      BY <3>2, <3>3 DEF Answered
    <3>. QED
      BY <3>1, <3>4 DEF Answered
  <2>7. Excluded' /\ HalfRead'
    BY <2>1, <2>4 DEF Excluded, HalfRead
  <2>. QED
    BY <2>5, <2>6, <2>7
<1>4. CASE Pop \/ TryWrite
  <2>1. UNCHANGED <<stats, hPc, response, recorded>> /\ conPc # "recordFlow" /\ conPc' # "recordFlow"
    BY <1>4 DEF Pop, TryWrite, consumer, handlers
  <2>2. conPc' = "recordTotal" => \A h \in Handlers : hPc[h] = "idle"
    BY <1>4 DEF Pop, TryWrite, consumer, Reading, Shape
  <2>3. Counting' /\ Excluded'
    BY <2>1, <2>2, CountsStay DEF Counting, Excluded, stats
  <2>. QED
    BY <2>1, <2>3, AnswersStay, HalfReadStays DEF stats
<1>5. ASSUME NEW h \in Handlers, ReadLock(h) PROVE StatsInv'
  <2>1. /\ conPc \notin {"recordTotal", "recordFlow"} /\ hPc' = [hPc EXCEPT ![h] = "readFlows"]
        /\ UNCHANGED <<stats, conPc, response, recorded>>
    BY <1>5 DEF ReadLock, consumer
  <2>2. \A g \in Handlers : hPc'[g] \in {"idle", "readTotal"} => hPc'[g] = hPc[g]
    BY <2>1 DEF Shape
  <2>3. Counting' /\ Excluded'
    BY <2>1, CountsStay DEF Counting, Excluded, stats
  <2>. QED
    BY <2>1, <2>2, <2>3, AnswersStay, HalfReadStays DEF stats
<1>6. ASSUME NEW h \in Handlers, ReadFlows(h) PROVE StatsInv'
  <2>1. PICK top \in SUBSET Flows :
          IsTop(flows, top) /\ response' = [response EXCEPT ![h].flows = Listing(flows, top)]
    BY <1>6 DEF ReadFlows
  <2>2. /\ hPc[h] = "readFlows" /\ hPc' = [hPc EXCEPT ![h] = "readTotal"]
        /\ UNCHANGED <<stats, conPc, recorded>>
    BY <1>6 DEF ReadFlows, consumer, history
  <2>3. response'[h].flows = Listing(flows, top) /\ \A g \in Handlers \ {h} : response'[g] = response[g]
    BY <2>1 DEF Shape
  <2>4. hPc'[h] = "readTotal" /\ \A g \in Handlers \ {h} : hPc'[g] = hPc[g]
    BY <2>2 DEF Shape
  <2>5. Counting' /\ Excluded'
    BY <2>2, <2>4, CountsStay DEF Counting, Excluded, stats
  <2>6. HalfRead'
    BY <2>1, <2>2, <2>3, <2>4 DEF HalfRead, HasListed, stats
  <2>7. ResponseConsistent'
    BY <2>2, <2>3, <2>4, AnswersStay
  <2>. QED
    BY <2>5, <2>6, <2>7
<1>7. ASSUME NEW h \in Handlers, ReadTotal(h) PROVE StatsInv'
  <2>1. /\ hPc[h] = "readTotal" /\ hPc' = [hPc EXCEPT ![h] = "idle"]
        /\ response' = [response EXCEPT ![h].total = total_packets]
        /\ UNCHANGED <<stats, conPc, recorded>>
    BY <1>7 DEF ReadTotal, consumer, history
  <2>2. PICK top \in SUBSET Flows : IsTop(flows, top) /\ response[h].flows = Listing(flows, top)
    BY <2>1 DEF HalfRead, HasListed
  <2>3. PICK n \in 0..Len(recorded) : n = Len(recorded) /\ total_packets = n /\ flows = CountsOf(n)
    BY <2>1 DEF Counting, Excluded, Shape
  <2>4. PICK r : r = response'[h] /\ r = [flows |-> Listing(CountsOf(n), top), total |-> n]
    BY <2>1, <2>2, <2>3 DEF Shape
  <2>5. /\ hPc'[h] = "idle"
        /\ \A g \in Handlers \ {h} : response'[g] = response[g] /\ hPc'[g] = hPc[g]
    BY <2>1 DEF Shape
  <2>6. Answered(r)
    BY <2>2, <2>3, <2>4 DEF Answered
  <2>7. Answered(response[h])'
    <3>1. Answered(r)'
      BY <2>1, <2>6, CountsStay
    <3>. QED
      BY <2>4, <3>1 DEF Answered
  <2>8. ResponseConsistent'
    <3>. SUFFICES ASSUME NEW g \in Handlers \ {h}, hPc'[g] = "idle" PROVE Answered(response[g])'
      BY <2>7 DEF ResponseConsistent
    <3>1. PICK s : s = response[g] /\ response'[g] = s /\ Answered(s)
      BY <2>5 DEF ResponseConsistent
    <3>2. Answered(s)'
      BY <2>1, <3>1, CountsStay
    <3>. QED
      BY <3>1, <3>2 DEF Answered
  <2>9. Counting' /\ Excluded' /\ HalfRead'
    BY <2>1, <2>5, CountsStay DEF Counting, Excluded, HalfRead, HasListed, stats
  <2>. QED
    BY <2>8, <2>9
<1>8. CASE AnalyzerCrash
  <2>1. /\ conPc' = "pop" /\ total_packets' = 0 /\ recorded' = <<>>
        /\ flows' = [f \in Flows |-> 0] /\ hPc' = [h \in Handlers |-> "idle"]
        /\ response' = [h \in Handlers |-> NoResponse]
    BY <1>8 DEF AnalyzerCrash
  <2>2. Fresh'
    BY NothingAnswered, PTL
  <2>3. CountsOf(Len(recorded))' = CountsOf(0)'
    BY <2>1 DEF CountsOf
  <2>4. Counting' /\ Excluded' /\ HalfRead'
    BY <2>1, <2>2, <2>3 DEF Counting, Excluded, HalfRead, Fresh
  <2>5. ResponseConsistent'
    BY <2>1, <2>2 DEF Fresh, ResponseConsistent, Answered, NoResponse
  <2>. QED
    BY <2>4, <2>5
<1>9. Kernel \/ Forward \/ SamplerCrash => UNCHANGED <<conPc, stats, hPc, response, recorded>>
  BY DEF Kernel, Reserve, Stamp, Submit, Forward, SamplerCrash, consumer, handlers, history
<1>10. UNCHANGED vars => UNCHANGED <<conPc, stats, hPc, response, recorded>>
  BY DEF vars, consumer, handlers, history
<1>. QED
  BY <1>1, <1>2, <1>3, <1>4, <1>5, <1>6, <1>7, <1>8, <1>9, <1>10 DEF Next, Consume, Read

\* ResponseConsistent: every answer of /api/stats lists the top flows of the
\* samples recorded by some moment, and counts exactly those samples.
THEOREM ResponsesAreConsistent == Spec => []ResponseConsistent
<1>1. Init => StatsInv
  <2>. SUFFICES ASSUME Init PROVE StatsInv
    OBVIOUS
  <2>1. /\ conPc = "pop" /\ total_packets = 0 /\ recorded = <<>> /\ Len(recorded) = 0
        /\ flows = [f \in Flows |-> 0] /\ hPc = [h \in Handlers |-> "idle"]
        /\ response = [h \in Handlers |-> NoResponse]
    BY DEF Init
  <2>2. ResponseConsistent
    BY <2>1, NothingAnswered DEF Fresh, ResponseConsistent
  <2>. QED
    BY <2>1, <2>2, NothingAnswered DEF Fresh, StatsInv, Counting, Excluded, HalfRead
<1>2. Shape /\ StatsInv /\ [Next]_vars => StatsInv'
  BY NextStatsInv
<1>3. StatsInv => ResponseConsistent
  BY DEF StatsInv
<1>. QED
  BY <1>1, <1>2, <1>3, ShapeAlways, PTL DEF Spec
-----------------------------------------------------------------------------
\* Wherever a sample is, a CPU that receives its flow took it; and a flow's
\* last_seen is the time of a sample recorded.
Home(r) == r.cpu \in CpusOf[r.flow]
AllHome(list) == \A i \in DOMAIN list : Home(list[i])
HomeInv == /\ AllHome(SAMPLES) /\ AllHome(shm) /\ AllHome(recorded)
           /\ conPc # "pop" => Home(sample)
SeenInv ==
  /\ last_seen \in [Flows -> Nat]
  /\ \A f \in Flows : \/ last_seen[f] = 0
                      \/ \E i \in DOMAIN recorded : recorded[i].flow = f /\ recorded[i].time = last_seen[f]

LEMMA HomeOfLists ==
  ASSUME NEW V, NEW list \in Seq(V), AllHome(list)
  PROVE  /\ \A x \in V : Home(x) => AllHome(Append(list, x))
         /\ list # <<>> => Home(Head(list)) /\ AllHome(Tail(list))
         /\ \A i \in DOMAIN list, x \in V : Home(x) => AllHome([list EXCEPT ![i] = x])
<1>1. ASSUME NEW x \in V, Home(x) PROVE AllHome(Append(list, x))
  <2>1. \A i \in DOMAIN Append(list, x) :
          (i \in DOMAIN list /\ Append(list, x)[i] = list[i]) \/ Append(list, x)[i] = x
    OBVIOUS
  <2>. HIDE DEF Home
  <2>. QED
    BY <1>1, <2>1 DEF AllHome
<1>2. ASSUME list # <<>> PROVE Home(Head(list)) /\ AllHome(Tail(list))
  <2>1. /\ 1 \in DOMAIN list /\ Head(list) = list[1]
        /\ \A i \in DOMAIN Tail(list) : i + 1 \in DOMAIN list /\ Tail(list)[i] = list[i + 1]
    BY <1>2
  <2>. HIDE DEF Home
  <2>. QED
    BY <2>1 DEF AllHome
<1>3. ASSUME NEW i \in DOMAIN list, NEW x \in V, Home(x) PROVE AllHome([list EXCEPT ![i] = x])
  <2>1. \A j \in DOMAIN [list EXCEPT ![i] = x] :
          j \in DOMAIN list /\ ([list EXCEPT ![i] = x][j] = list[j] \/ [list EXCEPT ![i] = x][j] = x)
    OBVIOUS
  <2>. HIDE DEF Home
  <2>. QED
    BY <1>3, <2>1 DEF AllHome
<1>. QED
  BY <1>1, <1>2, <1>3

LEMMA NextHomeInv ==
  ASSUME Shape, HomeInv, [Next]_vars
  PROVE  HomeInv'
<1>1. ASSUME NEW cpu \in Cpus, NEW f \in Flows, Reserve(cpu, f) PROVE HomeInv'
  <2>. DEFINE r == [cpu |-> cpu, flow |-> f, time |-> 0, pc |-> "reserved"]
  <2>1. r \in Records /\ Home(r)
    BY <1>1 DEF Records, Home, Reserve
  <2>2. SAMPLES' = Append(SAMPLES, r) /\ UNCHANGED <<shm, conPc, sample, recorded>>
    BY <1>1 DEF Reserve, consumer, history
  <2>. HIDE DEF r
  <2>3. AllHome(SAMPLES')
    BY <2>1, <2>2, HomeOfLists DEF HomeInv, Shape
  <2>. QED
    BY <2>2, <2>3 DEF HomeInv, AllHome, Home
<1>2. ASSUME NEW i \in DOMAIN SAMPLES, Stamp(i) \/ Submit(i) PROVE HomeInv'
  <2>1. PICK r \in Records : /\ SAMPLES' = [SAMPLES EXCEPT ![i] = r]
                             /\ r.cpu = SAMPLES[i].cpu /\ r.flow = SAMPLES[i].flow
    <3>1. SAMPLES[i] \in Records /\ clock + 1 \in Nat
      BY DEF Shape
    <3>. DEFINE stamped == [SAMPLES[i] EXCEPT !.time = clock + 1, !.pc = "stamped"]
                submitted == [SAMPLES[i] EXCEPT !.pc = "submitted"]
    <3>2. /\ stamped \in Records /\ stamped.cpu = SAMPLES[i].cpu /\ stamped.flow = SAMPLES[i].flow
          /\ submitted \in Records /\ submitted.cpu = SAMPLES[i].cpu /\ submitted.flow = SAMPLES[i].flow
      BY <3>1 DEF Records
    <3>3. SAMPLES' = [SAMPLES EXCEPT ![i] = stamped] \/ SAMPLES' = [SAMPLES EXCEPT ![i] = submitted]
      BY <1>2 DEF Stamp, Submit
    <3>. HIDE DEF stamped, submitted
    <3>. QED
      BY <3>2, <3>3
  <2>2. UNCHANGED <<shm, conPc, sample, recorded>>
    BY <1>2 DEF Stamp, Submit, consumer, history
  <2>3. Home(r)
    BY <2>1 DEF HomeInv, AllHome, Home
  <2>4. AllHome(SAMPLES')
    BY <2>1, <2>3, HomeOfLists DEF HomeInv, Shape
  <2>. QED
    BY <2>2, <2>4 DEF HomeInv, AllHome, Home
<1>3. CASE Forward
  <2>1. /\ SAMPLES # <<>> /\ Head(SAMPLES).pc = "submitted" /\ SAMPLES' = Tail(SAMPLES)
        /\ shm' = Append(shm, Head(SAMPLES)) \/ shm' = shm
        /\ UNCHANGED <<conPc, sample, recorded>>
    BY <1>3 DEF Forward, consumer, history
  <2>2. Head(SAMPLES) \in Done
    BY <2>1 DEF Shape, Done
  <2>3. Home(Head(SAMPLES)) /\ AllHome(SAMPLES')
    BY <2>1, HomeOfLists DEF HomeInv, Shape
  <2>4. shm \in Seq(Done) /\ AllHome(shm)
    BY DEF HomeInv, Shape
  <2>5. AllHome(Append(shm, Head(SAMPLES)))
    <3>. HIDE DEF Done
    <3>. QED
      BY <2>2, <2>3, <2>4, HomeOfLists
  <2>6. AllHome(shm')
    BY <2>1, <2>4, <2>5
  <2>. QED
    BY <2>1, <2>3, <2>6 DEF HomeInv, AllHome, Home
<1>4. CASE Pop
  <2>1. CASE shm = <<>>
    BY <1>4, <2>1 DEF Pop, HomeInv, AllHome, Home, kernel, consumer
  <2>2. CASE shm # <<>>
    <3>1. sample' = Head(shm) /\ shm' = Tail(shm) /\ UNCHANGED <<SAMPLES, recorded>>
      BY <1>4, <2>2 DEF Pop, kernel
    <3>2. Home(Head(shm)) /\ AllHome(Tail(shm))
      BY <2>2, HomeOfLists DEF HomeInv, Shape
    <3>. QED
      BY <3>1, <3>2 DEF HomeInv, AllHome, Home
  <2>. QED
    BY <2>1, <2>2
<1>5. CASE TryWrite \/ RecordTotal
  <2>1. /\ conPc # "pop" /\ UNCHANGED <<SAMPLES, shm, recorded>>
        /\ conPc' # "pop" => sample' = sample
    BY <1>5 DEF TryWrite, RecordTotal, kernel, history
  <2>. QED
    BY <2>1 DEF HomeInv, AllHome, Home
<1>6. CASE RecordFlow
  <2>1. sample \in Done /\ Home(sample) /\ recorded' = Append(recorded, sample)
    BY <1>6 DEF RecordFlow, HomeInv, Shape
  <2>2. conPc' = "pop" /\ UNCHANGED <<SAMPLES, shm>>
    BY <1>6 DEF RecordFlow, kernel
  <2>3. AllHome(recorded')
    BY <2>1, HomeOfLists DEF HomeInv, Shape
  <2>. QED
    BY <2>2, <2>3 DEF HomeInv, AllHome, Home
<1>7. CASE SamplerCrash \/ AnalyzerCrash
  BY <1>7 DEF SamplerCrash, AnalyzerCrash, HomeInv, AllHome, Home, kernel, consumer, history
<1>8. ASSUME NEW h \in Handlers, ReadLock(h) \/ ReadFlows(h) \/ ReadTotal(h) PROVE HomeInv'
  BY <1>8 DEF ReadLock, ReadFlows, ReadTotal, HomeInv, AllHome, Home, kernel, consumer, history
<1>9. CASE UNCHANGED vars
  BY <1>9 DEF vars, HomeInv, AllHome, Home, kernel, consumer, history
<1>. QED
  BY <1>1, <1>2, <1>3, <1>4, <1>5, <1>6, <1>7, <1>8, <1>9 DEF Next, Kernel, Consume, Read

\* Only RecordFlow and a death of the analyzer touch last_seen.
LEMMA NextSeenInv ==
  ASSUME Shape, OrderInv, HomeInv, SeenInv, [Next]_vars
  PROVE  /\ SeenInv'
         /\ ~AnalyzerCrash => \A f \in Flows : (\A c, d \in CpusOf[f] : c = d) =>
                                                 last_seen'[f] >= last_seen[f]
<1>1. CASE RecordFlow
  <2>1. /\ sample \in Done /\ Home(sample) /\ AllBefore(recorded, sample)
    BY <1>1 DEF RecordFlow, HomeInv, OrderInv, Shape
  <2>2. /\ last_seen' = [last_seen EXCEPT ![sample.flow] = sample.time]
        /\ recorded' = Append(recorded, sample)
    BY <1>1 DEF RecordFlow
  <2>3. sample.flow \in Flows /\ sample.time \in Nat /\ sample.pc = "submitted"
    BY <2>1 DEF Done, Records
  <2>4. /\ last_seen' \in [Flows -> Nat] /\ last_seen'[sample.flow] = sample.time
        /\ \A f \in Flows \ {sample.flow} : last_seen'[f] = last_seen[f]
    BY <2>2, <2>3 DEF SeenInv
  <2>5. /\ \A i \in DOMAIN recorded : i \in DOMAIN recorded' /\ recorded'[i] = recorded[i]
        /\ Len(recorded) + 1 \in DOMAIN recorded' /\ recorded'[Len(recorded) + 1] = sample
    BY <2>1, <2>2 DEF Shape
  <2>6. SeenInv'
    <3>1. ASSUME NEW f \in Flows \ {sample.flow}
          PROVE  \/ last_seen'[f] = 0
                 \/ \E i \in DOMAIN recorded' : recorded'[i].flow = f /\ recorded'[i].time = last_seen'[f]
      BY <2>4, <2>5 DEF SeenInv
    <3>2. \E i \in DOMAIN recorded' : recorded'[i].flow = sample.flow /\ recorded'[i].time = last_seen'[sample.flow]
      BY <2>4, <2>5
    <3>. QED
      BY <2>4, <3>1, <3>2 DEF SeenInv
  <2>7. ASSUME \A c, d \in CpusOf[sample.flow] : c = d
        PROVE  last_seen'[sample.flow] >= last_seen[sample.flow]
    <3>1. CASE last_seen[sample.flow] = 0
      BY <2>3, <2>4, <3>1
    <3>2. CASE last_seen[sample.flow] # 0
      <4>1. PICK i \in DOMAIN recorded : recorded[i].flow = sample.flow /\ recorded[i].time = last_seen[sample.flow]
        BY <2>3, <3>2 DEF SeenInv
      <4>2. recorded[i].cpu = sample.cpu
        BY <2>1, <2>7, <4>1 DEF HomeInv, AllHome, Home
      <4>3. recorded[i].time < sample.time
        BY <2>1, <2>3, <4>1, <4>2 DEF AllBefore, Precedes
      <4>. QED
        BY <2>3, <2>4, <4>1, <4>3 DEF SeenInv
    <3>. QED
      BY <3>1, <3>2
  <2>8. ASSUME NEW f \in Flows \ {sample.flow} PROVE last_seen'[f] >= last_seen[f]
    BY <2>4 DEF SeenInv
  <2>. QED
    BY <2>3, <2>6, <2>7, <2>8
<1>2. CASE AnalyzerCrash
  BY <1>2 DEF AnalyzerCrash, SeenInv
<1>3. CASE UNCHANGED <<last_seen, recorded>>
  BY <1>3 DEF SeenInv
<1>4. /\ Kernel \/ Forward \/ SamplerCrash => UNCHANGED <<last_seen, recorded>>
      /\ Pop \/ TryWrite \/ RecordTotal => UNCHANGED <<last_seen, recorded>>
      /\ \A h \in Handlers : ReadLock(h) \/ ReadFlows(h) \/ ReadTotal(h) => UNCHANGED <<last_seen, recorded>>
      /\ UNCHANGED vars => UNCHANGED <<last_seen, recorded>>
  BY DEF Kernel, Reserve, Stamp, Submit, Forward, SamplerCrash, Pop, TryWrite, RecordTotal,
         ReadLock, ReadFlows, ReadTotal, vars, stats, history
<1>. QED
  BY <1>1, <1>2, <1>3, <1>4 DEF Next, Consume, Read

\* The last_seen of a flow that one CPU receives never goes back while the
\* analyzer lives, whatever happens to the flows that several receive.
OneCpuSeenAdvances ==
  [][~AnalyzerCrash => \A f \in Flows : (\A c, d \in CpusOf[f] : c = d) =>
                                          last_seen'[f] >= last_seen[f]]_vars

\* RecordFlow stores the time of the sample in hand without looking at the one
\* it replaces (stats.rs): for a flow of one CPU it is the later one.
THEOREM OneCpuSeenNeverGoesBack == Spec => OneCpuSeenAdvances
<1>1. Init => OrderInv /\ HomeInv /\ SeenInv
  BY DEF Init, OrderInv, Ordered, Before, AllAfter, Past, HomeInv, AllHome, SeenInv
<1>2. Shape /\ OrderInv /\ [Next]_vars => OrderInv'
  BY NextOrderInv
<1>3. Shape /\ HomeInv /\ [Next]_vars => HomeInv'
  BY NextHomeInv
<1>4. Shape /\ OrderInv /\ HomeInv /\ SeenInv /\ [Next]_vars
        => SeenInv' /\ [~AnalyzerCrash => \A f \in Flows : (\A c, d \in CpusOf[f] : c = d) =>
                                                             last_seen'[f] >= last_seen[f]]_vars
  BY NextSeenInv
<1>. QED
  BY <1>1, <1>2, <1>3, <1>4, ShapeAlways, PTL DEF Spec, OneCpuSeenAdvances

\* LastSeenAdvances: if one CPU receives each flow, no last_seen goes back.
THEOREM LastSeenNeverGoesBack ==
  ASSUME \A f \in Flows : \A c, d \in CpusOf[f] : c = d
  PROVE  Spec => LastSeenAdvances
<1>1. [~AnalyzerCrash => \A f \in Flows : (\A c, d \in CpusOf[f] : c = d) =>
                                            last_seen'[f] >= last_seen[f]]_vars
        => [~AnalyzerCrash => \A f \in Flows : last_seen'[f] >= last_seen[f]]_vars
  OBVIOUS
<1>. QED
  BY <1>1, OneCpuSeenNeverGoesBack, PTL DEF OneCpuSeenAdvances, LastSeenAdvances

-----------------------------------------------------------------------------
\* The samples ring is used as the queue that ShmRing is proved to implement:
\* with the samples handed to the consumer written down, SamplePath implements
\* BoundedFifo.
VARIABLE handed          \* history: the samples popped, in order

HandedSpec ==
  /\ Spec /\ handed = <<>>
  /\ [][handed' = IF Pop /\ shm # <<>> THEN Append(handed, Head(shm)) ELSE handed]_<<vars, handed>>

SamplesRing == INSTANCE BoundedFifo
                 WITH Capacity <- SampleCapacity, Values <- Done, queue <- shm, delivered <- handed

\* Who steps on the ring, other than by a pop.
LEMMA OnlyForwardsElse ==
  ASSUME Shape, [Next]_vars, ~(Pop /\ shm # <<>>)
  PROVE  \/ shm' = shm
         \/ Len(shm) < SampleCapacity /\ \E s \in Done : shm' = Append(shm, s)
<1>1. CASE Forward
  <2>1. Head(SAMPLES) \in Done
    BY <1>1 DEF Forward, Shape, Done
  <2>. QED
    BY <1>1, <2>1 DEF Forward
<1>2. /\ Kernel \/ SamplerCrash \/ AnalyzerCrash => shm' = shm
      /\ Consume => shm' = shm
      /\ \A h \in Handlers : ReadLock(h) \/ ReadFlows(h) \/ ReadTotal(h) => shm' = shm
      /\ UNCHANGED vars => shm' = shm
  BY DEF Kernel, Reserve, Stamp, Submit, SamplerCrash, AnalyzerCrash, Consume, Pop, TryWrite,
         RecordTotal, RecordFlow, ReadLock, ReadFlows, ReadTotal, vars
<1>. QED
  BY <1>1, <1>2 DEF Next, Read

\* HandedSpec => SamplesRing!FifoSpec: sampler and consumer, however they
\* interleave, die and start again, do with the ring what its contract allows:
\* the consumer is handed what was accepted, once and in order.
THEOREM SamplesRingIsFifo == HandedSpec => SamplesRing!FifoSpec
<1>1. Init /\ handed = <<>> => SamplesRing!FifoInit
  BY DEF Init, SamplesRing!FifoInit
<1>2. ASSUME Shape, [Next]_vars,
             [handed' = IF Pop /\ shm # <<>> THEN Append(handed, Head(shm)) ELSE handed]_<<vars, handed>>
      PROVE  [SamplesRing!FifoNext]_<<shm, handed>>
  <2>1. CASE Pop /\ shm # <<>>
    <3>1. shm' = Tail(shm) /\ conPc' # conPc
      BY <2>1 DEF Pop
    <3>2. handed' = Append(handed, Head(shm))
      BY <1>2, <2>1, <3>1 DEF vars, consumer
    <3>. QED
      BY <2>1, <3>1, <3>2 DEF SamplesRing!FifoNext, SamplesRing!Dequeue
  <2>2. CASE ~(Pop /\ shm # <<>>)
    <3>1. handed' = handed
      BY <1>2, <2>2
    <3>. QED
      BY <1>2, <2>2, <3>1, OnlyForwardsElse DEF SamplesRing!FifoNext, SamplesRing!Enqueue
  <2>. QED
    BY <2>1, <2>2
<1>. QED
  BY <1>1, <1>2, ShapeAlways, PTL
     DEF Spec, HandedSpec, SamplesRing!FifoSpec, SamplesRing!fifoVars
=============================================================================
