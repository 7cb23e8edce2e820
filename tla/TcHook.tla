------------------------------- MODULE TcHook -------------------------------
(***************************************************************************)
(* The two daemons' eBPF programs on the TC ingress hook of one interface: *)
(* load, attach, detach and Drop of SamplerBpf and ProcessorBpf            *)
(* (crates/flow-ebpf/src), in the order in which the two mains call them,  *)
(* with signals before and after their handler is registered, errors that  *)
(* end main through `?`, and kills.                                        *)
(*                                                                         *)
(* The kernel's part is external.  On a packet it runs the programs of the *)
(* hook in order, until one returns anything but TC_ACT_UNSPEC.  Before    *)
(* Linux 6.6 ("tc") a program goes before those already there, and stays   *)
(* when its process dies; since then ("tcx") it goes after them, and is    *)
(* held by a file descriptor of its process.                               *)
(***************************************************************************)
EXTENDS Naturals, FiniteSets, SequencesExt

CONSTANTS Kernels,       \* "tc" or "tcx"
          MaxUnclean,    \* bound: processes that die without unwinding
          MaxClears      \* bound: times the interface is made afresh

ASSUME KernelAssumption == Kernels \subseteq {"tc", "tcx"}
ASSUME BoundAssumption == MaxUnclean \in Nat /\ MaxClears \in Nat

Daemons == {"sampler", "processor"}
Gens == 1..(MaxUnclean + 1)
Programs == [owner : Daemons, gen : Gens]

VARIABLES kernel,        \* the kernel they run on
          hook,          \* the programs on the hook, in the order they run in
          pc,            \* where the main of each daemon is
          attached,      \* SamplerBpf.attached, ProcessorBpf.attached
          running,       \* the flag SIGTERM clears
          gen,           \* tells a daemon's program from those it left behind
          left,          \* history: programs of daemons that died uncleanly,
          early,         \* and of those, by a SIGTERM before it had a handler
          bare,          \* history: daemons whose program went with the interface
          unclean, clears

vars == <<kernel, hook, pc, attached, running, gen, left, early, bare, unclean, clears>>
env == <<kernel, early, bare, unclean, clears>>

Init == /\ kernel \in Kernels /\ hook = <<>>
        /\ pc = [d \in Daemons |-> "down"]
        /\ attached = [d \in Daemons |-> FALSE] /\ running = [d \in Daemons |-> TRUE]
        /\ gen = [d \in Daemons |-> 1]
        /\ left = {} /\ early = {} /\ bare = {} /\ unclean = 0 /\ clears = 0

Program(d) == [owner |-> d, gen |-> gen[d]]
OnHook == ToSet(hook)
FreshGen(d) == CHOOSE n \in Gens : [owner |-> d, gen |-> n] \notin OnHook

-----------------------------------------------------------------------------
\* The kernel.
Insert(p) == hook' = IF kernel = "tc" THEN <<p>> \o hook ELSE Append(hook, p)
Delete(p) == IF p \in OnHook THEN \E i \in DOMAIN hook : hook[i] = p /\ hook' = RemoveAt(hook, i)
              ELSE UNCHANGED hook

\* What the programs return: see the ends of sampler() and processor().
SamplerReturns == {"TC_ACT_OK"}
ProcessorReturns == {"TC_ACT_OK", "TC_ACT_SHOT"}
Returns(p) == IF p.owner = "sampler" THEN SamplerReturns ELSE ProcessorReturns

\* The programs a packet reaches.
Reached == {hook[i] : i \in {n \in DOMAIN hook :
                               \A m \in 1..(n - 1) : "TC_ACT_UNSPEC" \in Returns(hook[m])}}

-----------------------------------------------------------------------------
Goto(d, to) == pc' = [pc EXCEPT ![d] = to]

\* A daemon is started: by systemd, the entrypoint or hand.
Start(d) ==
  /\ pc[d] = "down"
  /\ Goto(d, "main")
  /\ running' = [running EXCEPT ![d] = TRUE] /\ gen' = [gen EXCEPT ![d] = FreshGen(d)]
  /\ bare' = bare \ {d}
  /\ UNCHANGED <<kernel, unclean, clears, hook, attached, left, early>>

\* SamplerBpf::load: nothing is there to drop if it fails.
Load(d) ==
  /\ pc[d] = "main"
  /\ Goto(d, "loaded") \/ Goto(d, "down")
  /\ UNCHANGED <<env, hook, attached, running, gen, left>>

\* Mutants of AttachTo: attached is not set; a program of the same name that is
\* there already will do.
AttachToForgets(d) ==
  /\ pc[d] = "loaded"
  /\ \/ Insert(Program(d)) /\ Goto(d, "attached") /\ UNCHANGED attached
     \/ Goto(d, "drop") /\ UNCHANGED <<hook, attached>>
  /\ UNCHANGED <<env, running, gen, left>>

AttachToReuses(d) ==
  /\ pc[d] = "loaded"
  /\ \/ /\ IF \E p \in OnHook : p.owner = d THEN UNCHANGED hook ELSE Insert(Program(d))
        /\ attached' = [attached EXCEPT ![d] = TRUE] /\ Goto(d, "attached")
     \/ Goto(d, "drop") /\ UNCHANGED <<hook, attached>>
  /\ UNCHANGED <<env, running, gen, left>>

\* attach: an error leaves attached as None.
AttachTo(d) ==
  /\ pc[d] = "loaded"
  /\ \/ /\ Insert(Program(d)) /\ attached' = [attached EXCEPT ![d] = TRUE]
        /\ Goto(d, "attached")
     \/ Goto(d, "drop") /\ UNCHANGED <<hook, attached>>
  /\ UNCHANGED <<env, running, gen, left>>

\* Register the signal handlers, and the sampler's ringbuf(): an error or a
\* panic unwinds main, which drops the loaded program.
Register(d) ==
  /\ pc[d] = "attached"
  /\ Goto(d, "loop") \/ Goto(d, "drop")
  /\ UNCHANGED <<env, hook, attached, running, gen, left>>

\* `while running.load(..)`: the test that fails.
LeaveLoop(d) ==
  /\ pc[d] = "loop" /\ ~running[d]
  /\ Goto(d, "detach")
  /\ UNCHANGED <<env, hook, attached, running, gen, left>>

\* A map the processor cannot write ends its main: `write_rule(..)?`.
ProcessorError ==
  /\ pc["processor"] = "loop"
  /\ Goto("processor", "drop")
  /\ UNCHANGED <<env, hook, attached, running, gen, left>>

\* attached.take(), and take the program off the hook, unless somebody has.
TakeOff(d) ==
  /\ attached' = [attached EXCEPT ![d] = FALSE]
  /\ Delete(Program(d))

DetachFrom(d) ==
  /\ pc[d] = "detach"
  /\ IF attached[d] THEN TakeOff(d) ELSE UNCHANGED <<hook, attached>>
  /\ Goto(d, "drop")
  /\ UNCHANGED <<env, running, gen, left>>

\* Mutant of DropLoaded: no Drop.
DropLoadedNot(d) ==
  /\ pc[d] = "drop"
  /\ Goto(d, "down")
  /\ UNCHANGED <<env, hook, attached, running, gen, left>>

\* Drop, at the end of main: detach if that is still to be done.
DropLoaded(d) ==
  /\ pc[d] = "drop"
  /\ IF attached[d] THEN TakeOff(d) ELSE UNCHANGED <<hook, attached>>
  /\ Goto(d, "down")
  /\ UNCHANGED <<env, running, gen, left>>

-----------------------------------------------------------------------------
\* A process that dies without unwinding runs no Drop.
Die(d) ==
  /\ unclean < MaxUnclean /\ unclean' = unclean + 1
  /\ Goto(d, "down") /\ attached' = [attached EXCEPT ![d] = FALSE]
  /\ IF kernel = "tcx" THEN Delete(Program(d)) /\ UNCHANGED left
     ELSE UNCHANGED hook /\ left' = left \cup ({Program(d)} \cap OnHook)
  /\ UNCHANGED <<kernel, bare, clears, running, gen>>

\* SIGTERM or SIGINT: before the handler is there it kills; then it clears the
\* flag, once; later ones are ignored.
Signal(d) ==
  \/ /\ pc[d] \in {"main", "loaded", "attached"} /\ Die(d)
     /\ early' = early \cup (left' \ left)
  \/ /\ pc[d] = "loop" /\ running[d]
     /\ running' = [running EXCEPT ![d] = FALSE]
     /\ UNCHANGED <<env, hook, pc, attached, gen, left>>

\* SIGKILL, or the OOM killer.
Kill(d) == pc[d] # "down" /\ Die(d) /\ UNCHANGED early

\* The interface goes and comes back, with an empty hook; nobody is told.
Clear ==
  /\ hook # <<>> /\ clears < MaxClears /\ clears' = clears + 1
  /\ hook' = <<>> /\ left' = {} /\ early' = {}
  /\ bare' = bare \cup {d \in Daemons : Program(d) \in OnHook}
  /\ UNCHANGED <<kernel, unclean, pc, attached, running, gen>>

-----------------------------------------------------------------------------
SamplerLoad == Load("sampler")
SamplerAttach == AttachTo("sampler")
SamplerRegister == Register("sampler")
SamplerLeaveLoop == LeaveLoop("sampler")
SamplerDetach == DetachFrom("sampler")
SamplerDrop == DropLoaded("sampler")
SamplerMain == \/ SamplerLoad \/ SamplerAttach \/ SamplerRegister
               \/ SamplerLeaveLoop \/ SamplerDetach \/ SamplerDrop

ProcessorLoad == Load("processor")
ProcessorAttach == AttachTo("processor")
ProcessorRegister == Register("processor")
ProcessorLeaveLoop == LeaveLoop("processor")
ProcessorDetach == DetachFrom("processor")
ProcessorDrop == DropLoaded("processor")
ProcessorMain == \/ ProcessorLoad \/ ProcessorAttach \/ ProcessorRegister
                 \/ ProcessorLeaveLoop \/ ProcessorDetach \/ ProcessorDrop

Next == \/ SamplerMain \/ ProcessorMain \/ ProcessorError \/ Clear
        \/ \E d \in Daemons : Start(d) \/ Signal(d) \/ Kill(d)

\* A main goes on, and what the loops do ends; nobody has to start a daemon.
Spec == Init /\ [][Next]_vars /\ WF_vars(SamplerMain) /\ WF_vars(ProcessorMain)

-----------------------------------------------------------------------------
Live(p) == pc[p.owner] # "down" /\ p = Program(p.owner)

TypeOK == /\ kernel \in Kernels /\ hook \in Seq(Programs)
          /\ pc \in [Daemons -> {"down", "main", "loaded", "attached", "loop", "detach", "drop"}]
          /\ {attached, running} \subseteq [Daemons -> BOOLEAN]
          /\ gen \in [Daemons -> Gens]
          /\ left \subseteq Programs /\ early \subseteq left /\ bare \subseteq Daemons
          /\ unclean \in 0..MaxUnclean /\ clears \in 0..MaxClears

\* A daemon that returns from main, or unwinds, leaves no program on the hook: after
\* a signal that its handler took, an error or a panic.  One that is killed does, on
\* a kernel before 6.6, and a SIGTERM kills too as long as its handler is not
\* registered (SignalLeavesNothing).  Else the processor's rules would go on dropping
\* packets, with nobody left to change them.
ExitLeavesNothing ==
  \A p \in OnHook : Live(p) \/ (kernel = "tc" /\ p \in left)

\* A daemon in its loop has one program on the hook, besides those left by
\* deaths, after any number of starts; it has none, and does not notice, if
\* the interface has been made afresh since it attached.
LoopHasProgram ==
  \A d \in Daemons : pc[d] = "loop" =>
    Cardinality({i \in DOMAIN hook : hook[i].owner = d /\ hook[i] \notin left})
      = IF d \in bare THEN 0 ELSE 1

\* SIGTERM ends a daemon that is in its loop, and takes its program off.
SignalEnds ==
  \A d \in Daemons :
    (pc[d] = "loop" /\ ~running[d])
      ~> (pc[d] = "down" /\ \A p \in OnHook : p.owner = d => p \in left)

\* If both daemons end up in their loops, packets end up reaching a program of
\* a daemon that runs, whatever the ones killed have left on the hook.
LiveProgramReached ==
  <>[](bare = {} /\ \A d \in Daemons : pc[d] = "loop") => <>[](\E p \in Reached : Live(p))

\* "Handles graceful shutdown (SIGTERM/SIGINT) by detaching and cleaning up"
\* (flow-sampler/CONTEXT.md:13, flow-processor/CONTEXT.md:50-56): no program on the
\* hook is there because its daemon was asked to stop.
SignalLeavesNothing == early \cap OnHook = {}

\* "Attached to TC ingress. For each packet:" (ebpf/CONTEXT.md:13 and :23, of
\* both programs): while both daemons are in their loops, a packet reaches both.
BothSeeEachPacket ==
  (bare = {} /\ \A d \in Daemons : pc[d] = "loop") => \A d \in Daemons : Program(d) \in Reached
=============================================================================
