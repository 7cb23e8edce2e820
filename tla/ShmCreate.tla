----------------------------- MODULE ShmCreate -----------------------------
(***************************************************************************)
(* How the file of a ring comes to be (ShmRingBuf::create and ::open in    *)
(* crates/flow-common/src/shm.rs): the file is created, extended (which    *)
(* zero-fills it), mapped, and its header filled in, and any number of     *)
(* other processes may look at it, and the creator may die, in between.    *)
(* A process whose create or open fails exits and is started again; one    *)
(* that maps the file in the instant it is empty goes on with one page of  *)
(* it.                                                                     *)
(*                                                                         *)
(* Once ready, creators push and openers pop, each in one step: ShmRing    *)
(* has the finer grain.  Every process of a set is one run of the program, *)
(* so that two overlapping runs (say one by hand, one by systemd) exist.   *)
(***************************************************************************)
EXTENDS Naturals, FiniteSets

CONSTANTS Creators, Openers,
          Capacity,        \* the capacity given to create
          MaxPushes,       \* bound: pushes in a behaviour
          MaxCrashes       \* bound: crashes in a behaviour

Processes == Creators \cup Openers

ASSUME ProcessAssumption == Creators \cap Openers = {}
ASSUME CapacityAssumption == Capacity \in Nat \ {0}
ASSUME BoundAssumption == {MaxPushes, MaxCrashes} \subseteq Nat

VARIABLES pc,             \* where each process is
          file,           \* "absent", "empty", or "sized" (set_len done)
          capacity,       \* Header.capacity
          write_index, read_index,  \* Header, not wrapped here
          crashes,        \* number of crashes so far
          torn            \* history: a creator died before the header was complete

vars == <<pc, file, capacity, write_index, read_index, crashes, torn>>
faults == <<crashes, torn>>
MidCreate == {"setLen", "initIndices", "initCapacity"}
header == <<capacity, write_index, read_index>>

Init == /\ pc = [p \in Processes |-> "start"]
        /\ file = "absent"
        /\ capacity = 0 /\ write_index = 0 /\ read_index = 0
        /\ crashes = 0 /\ torn = FALSE

Goto(p, label) == pc' = [pc EXCEPT ![p] = label]

-----------------------------------------------------------------------------
\* create: `if path.exists()`
CheckExists(c) ==
  /\ pc[c] = "start"
  /\ Goto(c, IF file = "absent" THEN "createNew" ELSE "mapExisting")
  /\ UNCHANGED <<file, header, faults>>

\* Mutant of CreateNew: create(true), which does not mind an existing file.
CreateNewShared(c) ==
  /\ pc[c] = "createNew"
  /\ file' = IF file = "absent" THEN "empty" ELSE file
  /\ Goto(c, "setLen")
  /\ UNCHANGED <<header, faults>>

\* create_new(true): the kernel creates the file, or fails if there is one by now.
CreateNew(c) ==
  /\ pc[c] = "createNew"
  /\ IF file = "absent" THEN file' = "empty" /\ Goto(c, "setLen")
                        ELSE UNCHANGED file /\ Goto(c, "failed")
  /\ UNCHANGED <<header, faults>>

\* set_len, and the mapping: the file reads as zeros.
SetLen(c) ==
  /\ pc[c] = "setLen"
  /\ file' = "sized"
  /\ Goto(c, "initIndices")
  /\ UNCHANGED <<header, faults>>

\* Mutant of InitIndices: the capacity is forgotten.
InitIndicesOnly(c) ==
  /\ pc[c] = "initIndices"
  /\ read_index' = 0 /\ write_index' = 0
  /\ Goto(c, "ready")
  /\ UNCHANGED <<file, capacity, faults>>

InitIndices(c) ==
  /\ pc[c] = "initIndices"
  /\ read_index' = 0 /\ write_index' = 0
  /\ Goto(c, "initCapacity")
  /\ UNCHANGED <<file, capacity, faults>>

InitCapacity(c) ==
  /\ pc[c] = "initCapacity"
  /\ capacity' = Capacity
  /\ Goto(c, "ready")
  /\ UNCHANGED <<file, write_index, read_index, faults>>

\* What mapping a file that exists comes to.  There is nothing to open before it
\* exists.  The mapping of an empty file succeeds, as memmap2 maps a length of 0 as
\* one of 1, and nobody looks at the length: its holder has one page of the file
\* instead of the ring, and keeps it.
Mapped == IF file = "absent" THEN "failed" ELSE IF file = "empty" THEN "short" ELSE "ready"

\* Mutant of MapExisting: create initialises the header of an existing file too.
MapExistingReinit(p) ==
  /\ \/ p \in Creators /\ pc[p] = "mapExisting"
     \/ p \in Openers /\ pc[p] = "start"
  /\ Goto(p, IF p \in Creators /\ file = "sized" THEN "initIndices" ELSE Mapped)
  /\ UNCHANGED <<file, header, faults>>

\* Mutant of MapExisting: only open accepts an existing file.
MapExistingOpenOnly(p) ==
  /\ \/ p \in Creators /\ pc[p] = "mapExisting"
     \/ p \in Openers /\ pc[p] = "start"
  /\ Goto(p, IF p \in Openers THEN Mapped ELSE "failed")
  /\ UNCHANGED <<file, header, faults>>

\* The rest of create for an existing file, and all of open: map it as it is.
MapExisting(p) ==
  /\ \/ p \in Creators /\ pc[p] = "mapExisting"
     \/ p \in Openers /\ pc[p] = "start"
  /\ Goto(p, Mapped)
  /\ UNCHANGED <<file, header, faults>>

\* Who may look at the header: a page of a file that is empty still faults (SIGBUS).
Sees(p) == pc[p] = "ready" \/ (pc[p] = "short" /\ file = "sized")

\* A failed process has exited; it and a crashed one are started again.
Restart(p) ==
  /\ pc[p] \in {"failed", "crashed"}
  /\ Goto(p, "start")
  /\ UNCHANGED <<file, header, faults>>

Crash(p) ==
  /\ pc[p] \notin {"failed", "crashed"} /\ crashes < MaxCrashes
  /\ Goto(p, "crashed")
  /\ crashes' = crashes + 1 /\ torn' = (torn \/ pc[p] \in MidCreate)
  /\ UNCHANGED <<file, header>>

\* try_push refuses at the capacity the header states, try_pop when empty.
\* On a short mapping the slot may be past its page: then the access ends the process
\* (Fault), or hits whatever is mapped there and the index moves on all the same.
Push(c) ==
  /\ Sees(c) /\ write_index < MaxPushes
  /\ write_index' = IF write_index - read_index >= capacity THEN write_index ELSE write_index + 1
  /\ UNCHANGED <<pc, file, capacity, read_index, faults>>

Pop(o) ==
  /\ Sees(o)
  /\ read_index' = IF read_index = write_index THEN read_index ELSE read_index + 1
  /\ UNCHANGED <<pc, file, capacity, write_index, faults>>

\* A holder of a short mapping touches what is not there, the header of an empty file
\* or a slot past the page, and dies of the signal.
Fault(p) ==
  /\ pc[p] = "short"
  /\ \/ file = "empty"
     \/ p \in Creators /\ write_index - read_index < capacity /\ write_index < MaxPushes
     \/ p \in Openers /\ read_index # write_index
  /\ Goto(p, "failed")
  /\ UNCHANGED <<file, header, faults>>

CreateStep(c) == CheckExists(c) \/ CreateNew(c) \/ SetLen(c) \/ InitIndices(c) \/ InitCapacity(c)
Startup(p) == (p \in Creators /\ CreateStep(p)) \/ MapExisting(p) \/ Restart(p)

Next == \/ \E p \in Processes : Startup(p) \/ Crash(p) \/ Fault(p)
        \/ \E c \in Creators : Push(c)
        \/ \E o \in Openers : Pop(o)

\* A process takes its next instruction, and a supervisor restarts it
\* (systemd Restart=always); the users of the ring owe nothing.
Spec == Init /\ [][Next]_vars /\ \A p \in Processes : WF_vars(Startup(p))

-----------------------------------------------------------------------------
TypeOK == /\ pc \in [Processes -> {"start", "createNew", "setLen", "initIndices", "initCapacity",
                                   "mapExisting", "short", "ready", "failed", "crashed"}]
          /\ file \in {"absent", "empty", "sized"}
          /\ capacity \in {0, Capacity}
          /\ write_index \in 0..MaxPushes /\ read_index \in 0..MaxPushes
          /\ crashes \in 0..MaxCrashes /\ torn \in BOOLEAN

\* create and open never erase what is in the ring ("the analyzer must not
\* erase rules when restarting"): no step takes an index back, even if two
\* creators race or one is restarted while data is queued.
NeverErases == [][write_index' >= write_index /\ read_index' >= read_index]_vars

\* try_pop computes `read % capacity` only when there is something to pop; by
\* then the capacity is set, whenever the consumer opened the file.
NoZeroDivision == read_index # write_index => capacity # 0

\* The header is filled in by at most one process, ever.
OneInitializer ==
  Cardinality({c \in Creators : pc[c] \in MidCreate}) <= 1

\* A process that create or open told of success has a ring with a capacity, or
\* its maker is at work on the header still, or has died at it: no order of two
\* creators and an opener leaves a ring without capacity behind.
UselessOnlyIfTorn ==
  (\E p \in Processes : pc[p] \in {"ready", "short"}) =>
    capacity = Capacity \/ torn \/ \E c \in Creators : pc[c] \in MidCreate

\* The header is well formed: what it says is of its types, and a capacity of 0
\* is the mark of a torn creation and is divided by nowhere.
HeaderInv == TypeOK /\ NoZeroDivision /\ UselessOnlyIfTorn

\* Whatever order the processes start in and wherever (but inside the first
\* creation) they crash, in the end there is a ring, and each process has mapped the
\* whole of it, unless it mapped the file in the instant between create_new and
\* set_len and has lived on ever since.  One that faults on such a mapping comes
\* back with a whole one.
EventuallyUsable ==
  []~torn => <>[](capacity = Capacity /\ \A p \in Processes : pc[p] \in {"short", "ready"})

\* What the comments on open and header say: "We trust the file [...] has the correct
\* layout", "The mmap is at least HEADER_SIZE bytes".
MappingIsWhole == \A p \in Processes : pc[p] # "short"

\* What the comment on create says of its result: the ring has `capacity`
\* elements.
CreateYieldsCapacity == \A c \in Creators : pc[c] = "ready" => capacity = Capacity
=============================================================================
