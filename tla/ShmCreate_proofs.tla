-------------------------- MODULE ShmCreate_proofs --------------------------
(***************************************************************************)
(* Proofs about ShmCreate, for any number of creators and openers and any  *)
(* bounds on pushes and crashes.  What the safety properties need besides  *)
(* themselves is how far the file has come: FileStage.                     *)
(***************************************************************************)
EXTENDS ShmCreate, FiniteSetTheorems, TLAPS

USE ProcessAssumption, CapacityAssumption, BoundAssumption

Mid(p) == pc[p] \in MidCreate

\* Only creators take the steps of a creation, and only one of them does.
OneMaker == /\ \A p \in Processes : (Mid(p) \/ pc[p] = "createNew") => p \in Creators
            /\ \A p, q \in Processes : Mid(p) /\ Mid(q) => p = q

\* The file goes from absent through empty to sized; as long as a creation is
\* under way the header is all zeros, and it stays so as long as there is no
\* capacity, since every push is refused.
FileStage ==
  /\ file # "sized" => \A p \in Processes : pc[p] \notin {"ready", "initIndices", "initCapacity"}
  /\ file = "absent" => ~torn /\ \A p \in Processes : pc[p] \notin {"setLen", "short"}
  /\ \A p \in Processes : Mid(p) => capacity = 0
  /\ file = "absent" => capacity = 0
  /\ capacity = 0 => write_index = 0 /\ read_index = 0
  /\ read_index <= write_index

\* A file without a capacity has a maker, or its maker has died.
MakerOrTorn ==
  file # "absent" => capacity = Capacity \/ torn \/ \E p \in Processes : Mid(p)

CreateInv == TypeOK /\ OneMaker /\ FileStage /\ MakerOrTorn
-----------------------------------------------------------------------------
LEMMA InitCreateInv == Init => CreateInv
<1>. SUFFICES ASSUME Init PROVE CreateInv
  OBVIOUS
<1>1. \A p \in Processes : pc[p] = "start"
  BY DEF Init
<1>2. TypeOK
  <2>1. 0 \in 0..MaxPushes /\ 0 \in 0..MaxCrashes
    OBVIOUS
  <2>. QED
    BY <2>1 DEF Init, TypeOK
<1>3. OneMaker /\ FileStage /\ MakerOrTorn
  BY <1>1 DEF Init, OneMaker, FileStage, MakerOrTorn, Mid, MidCreate
<1>. QED
  BY <1>2, <1>3 DEF CreateInv

\* The new place of a process, and the old ones of all others.
LEMMA GotoMoves ==
  ASSUME TypeOK, NEW p \in Processes, NEW label, Goto(p, label)
  PROVE  /\ pc'[p] = label
         /\ \A q \in Processes \ {p} : pc'[q] = pc[q]
         /\ label \in {"start", "createNew", "setLen", "initIndices", "initCapacity",
                       "mapExisting", "short", "ready", "failed", "crashed"}
              => pc' \in [Processes -> {"start", "createNew", "setLen", "initIndices", "initCapacity",
                                        "mapExisting", "short", "ready", "failed", "crashed"}]
  BY DEF Goto, TypeOK

LEMMA CheckExistsStep ==
  ASSUME CreateInv, NEW c \in Creators, CheckExists(c)
  PROVE  CreateInv'
<1>. USE DEF CheckExists, header, faults
<1>1. c \in Processes
  BY DEF Processes
<1>2. TypeOK'
  BY <1>1, GotoMoves DEF CreateInv, TypeOK
<1>3. OneMaker'
  BY <1>1, GotoMoves DEF CreateInv, OneMaker, Mid, MidCreate
<1>4. FileStage'
  BY <1>1, GotoMoves DEF CreateInv, FileStage, Mid, MidCreate
<1>5. MakerOrTorn'
  BY <1>1, GotoMoves DEF CreateInv, MakerOrTorn, Mid, MidCreate
<1>. QED
  BY <1>2, <1>3, <1>4, <1>5 DEF CreateInv

LEMMA CreateNewStep ==
  ASSUME CreateInv, NEW c \in Creators, CreateNew(c)
  PROVE  CreateInv'
<1>. USE DEF CreateNew, header, faults
<1>1. c \in Processes
  BY DEF Processes
<1>2. TypeOK'
  BY <1>1, GotoMoves DEF CreateInv, TypeOK
<1>3. OneMaker'
  BY <1>1, GotoMoves DEF CreateInv, OneMaker, FileStage, Mid, MidCreate
<1>4. FileStage'
  BY <1>1, GotoMoves DEF CreateInv, FileStage, Mid, MidCreate
<1>5. MakerOrTorn'
  BY <1>1, GotoMoves DEF CreateInv, MakerOrTorn, Mid, MidCreate
<1>. QED
  BY <1>2, <1>3, <1>4, <1>5 DEF CreateInv

LEMMA SetLenStep ==
  ASSUME CreateInv, NEW c \in Creators, SetLen(c)
  PROVE  CreateInv'
<1>. USE DEF SetLen, header, faults
<1>1. c \in Processes
  BY DEF Processes
<1>2. TypeOK'
  BY <1>1, GotoMoves DEF CreateInv, TypeOK
<1>3. OneMaker'
  BY <1>1, GotoMoves DEF CreateInv, OneMaker, Mid, MidCreate
<1>4. FileStage'
  BY <1>1, GotoMoves DEF CreateInv, TypeOK, OneMaker, FileStage, Mid, MidCreate
<1>5. MakerOrTorn'
  BY <1>1, GotoMoves DEF CreateInv, MakerOrTorn, Mid, MidCreate
<1>. QED
  BY <1>2, <1>3, <1>4, <1>5 DEF CreateInv

LEMMA InitIndicesStep ==
  ASSUME CreateInv, NEW c \in Creators, InitIndices(c)
  PROVE  CreateInv'
<1>. USE DEF InitIndices, header, faults
<1>1. c \in Processes
  BY DEF Processes
<1>2. TypeOK'
  BY <1>1, GotoMoves DEF CreateInv, TypeOK
<1>3. OneMaker'
  BY <1>1, GotoMoves DEF CreateInv, OneMaker, Mid, MidCreate
<1>4. FileStage'
  BY <1>1, GotoMoves DEF CreateInv, TypeOK, OneMaker, FileStage, Mid, MidCreate
<1>5. MakerOrTorn'
  BY <1>1, GotoMoves DEF CreateInv, MakerOrTorn, Mid, MidCreate
<1>. QED
  BY <1>2, <1>3, <1>4, <1>5 DEF CreateInv

LEMMA InitCapacityStep ==
  ASSUME CreateInv, NEW c \in Creators, InitCapacity(c)
  PROVE  CreateInv'
<1>. USE DEF InitCapacity, header, faults
<1>1. c \in Processes
  BY DEF Processes
<1>2. TypeOK'
  BY <1>1, GotoMoves DEF CreateInv, TypeOK
<1>3. OneMaker'
  BY <1>1, GotoMoves DEF CreateInv, OneMaker, Mid, MidCreate
<1>4. FileStage'
  BY <1>1, GotoMoves DEF CreateInv, TypeOK, OneMaker, FileStage, Mid, MidCreate
<1>5. MakerOrTorn'
  BY <1>1, GotoMoves DEF CreateInv, MakerOrTorn, Mid, MidCreate
<1>. QED
  BY <1>2, <1>3, <1>4, <1>5 DEF CreateInv

LEMMA MapExistingStep ==
  ASSUME CreateInv, NEW p \in Processes, MapExisting(p)
  PROVE  CreateInv'
<1>. USE DEF MapExisting, Mapped, header, faults
<1>1. p \in Processes
  BY DEF Processes
<1>2. TypeOK'
  BY <1>1, GotoMoves DEF CreateInv, TypeOK
<1>3. OneMaker'
  BY <1>1, GotoMoves DEF CreateInv, OneMaker, Mid, MidCreate
<1>4. FileStage'
  BY <1>1, GotoMoves DEF CreateInv, TypeOK, OneMaker, FileStage, Mid, MidCreate
<1>5. MakerOrTorn'
  BY <1>1, GotoMoves DEF CreateInv, MakerOrTorn, Mid, MidCreate
<1>. QED
  BY <1>2, <1>3, <1>4, <1>5 DEF CreateInv

LEMMA RestartStep ==
  ASSUME CreateInv, NEW p \in Processes, Restart(p)
  PROVE  CreateInv'
<1>. USE DEF Restart, header, faults
<1>1. p \in Processes
  BY DEF Processes
<1>2. TypeOK'
  BY <1>1, GotoMoves DEF CreateInv, TypeOK
<1>3. OneMaker'
  BY <1>1, GotoMoves DEF CreateInv, OneMaker, Mid, MidCreate
<1>4. FileStage'
  BY <1>1, GotoMoves DEF CreateInv, TypeOK, OneMaker, FileStage, Mid, MidCreate
<1>5. MakerOrTorn'
  BY <1>1, GotoMoves DEF CreateInv, MakerOrTorn, Mid, MidCreate
<1>. QED
  BY <1>2, <1>3, <1>4, <1>5 DEF CreateInv

LEMMA CrashStep ==
  ASSUME CreateInv, NEW p \in Processes, Crash(p)
  PROVE  CreateInv'
<1>. USE DEF Crash, header, faults
<1>1. p \in Processes
  BY DEF Processes
<1>2. TypeOK'
  BY <1>1, GotoMoves DEF CreateInv, TypeOK
<1>3. OneMaker'
  BY <1>1, GotoMoves DEF CreateInv, OneMaker, Mid, MidCreate
<1>4. FileStage'
  BY <1>1, GotoMoves DEF CreateInv, TypeOK, OneMaker, FileStage, Mid, MidCreate
<1>5. MakerOrTorn'
  BY <1>1, GotoMoves DEF CreateInv, MakerOrTorn, Mid, MidCreate
<1>. QED
  BY <1>2, <1>3, <1>4, <1>5 DEF CreateInv

LEMMA FaultStep ==
  ASSUME CreateInv, NEW p \in Processes, Fault(p)
  PROVE  CreateInv'
<1>. USE DEF Fault, header, faults
<1>2. TypeOK'
  BY GotoMoves DEF CreateInv, TypeOK
<1>3. OneMaker'
  BY GotoMoves DEF CreateInv, OneMaker, Mid, MidCreate
<1>4. FileStage'
  BY GotoMoves DEF CreateInv, TypeOK, OneMaker, FileStage, Mid, MidCreate
<1>5. MakerOrTorn'
  BY GotoMoves DEF CreateInv, MakerOrTorn, Mid, MidCreate
<1>. QED
  BY <1>2, <1>3, <1>4, <1>5 DEF CreateInv

LEMMA PushStep ==
  ASSUME CreateInv, NEW c \in Creators, Push(c)
  PROVE  CreateInv'
<1>. USE DEF Push, Sees, header, faults
<1>1. c \in Processes
  BY DEF Processes
<1>2. TypeOK'
  BY <1>1, GotoMoves DEF CreateInv, TypeOK
<1>3. OneMaker'
  BY <1>1, GotoMoves DEF CreateInv, OneMaker, Mid, MidCreate
<1>4. FileStage'
  BY <1>1, GotoMoves DEF CreateInv, TypeOK, OneMaker, FileStage, Mid, MidCreate
<1>5. MakerOrTorn'
  BY <1>1, GotoMoves DEF CreateInv, MakerOrTorn, Mid, MidCreate
<1>. QED
  BY <1>2, <1>3, <1>4, <1>5 DEF CreateInv

LEMMA PopStep ==
  ASSUME CreateInv, NEW o \in Openers, Pop(o)
  PROVE  CreateInv'
<1>. USE DEF Pop, Sees, header, faults
<1>1. o \in Processes
  BY DEF Processes
<1>2. TypeOK'
  BY <1>1, GotoMoves DEF CreateInv, TypeOK, FileStage
<1>3. OneMaker'
  BY <1>1, GotoMoves DEF CreateInv, OneMaker, Mid, MidCreate
<1>4. FileStage'
  BY <1>1, GotoMoves DEF CreateInv, TypeOK, OneMaker, FileStage, Mid, MidCreate
<1>5. MakerOrTorn'
  BY <1>1, GotoMoves DEF CreateInv, MakerOrTorn, Mid, MidCreate
<1>. QED
  BY <1>2, <1>3, <1>4, <1>5 DEF CreateInv

-----------------------------------------------------------------------------
\* Every step keeps the invariant.
LEMMA NextCreateInv == CreateInv /\ [Next]_vars => CreateInv'
<1>. SUFFICES ASSUME CreateInv, [Next]_vars PROVE CreateInv'
  OBVIOUS
<1>1. ASSUME NEW p \in Creators, CreateStep(p) PROVE CreateInv'
  BY <1>1, CheckExistsStep, CreateNewStep, SetLenStep, InitIndicesStep, InitCapacityStep
     DEF CreateStep
<1>2. ASSUME NEW p \in Processes, Startup(p) PROVE CreateInv'
  BY <1>1, <1>2, MapExistingStep, RestartStep DEF Startup
<1>3. CASE UNCHANGED vars
  BY <1>3 DEF vars, CreateInv, TypeOK, OneMaker, FileStage, MakerOrTorn, Mid
<1>. QED
  BY <1>2, <1>3, CrashStep, FaultStep, PushStep, PopStep DEF Next

LEMMA CreateInvariance == Spec => []CreateInv
  BY InitCreateInv, NextCreateInv, PTL DEF Spec

\* HeaderInv: the header's fields are of their types, try_pop never divides by
\* a capacity of 0, and a usable-looking ring without a capacity has a maker at
\* work or one that died at it.
THEOREM HeaderWellFormed == Spec => []HeaderInv
<1>1. CreateInv => HeaderInv
  <2>. SUFFICES ASSUME CreateInv PROVE HeaderInv
    OBVIOUS
  <2>1. NoZeroDivision
    BY DEF CreateInv, FileStage, NoZeroDivision
  <2>2. UselessOnlyIfTorn
    BY DEF CreateInv, OneMaker, FileStage, MakerOrTorn, Mid, UselessOnlyIfTorn
  <2>. QED
    BY <2>1, <2>2 DEF CreateInv, HeaderInv
<1>. QED
  BY <1>1, CreateInvariance, PTL

\* OneInitializer: however many processes call create at once, at most one of
\* them is filling in a header.
THEOREM HasOneInitializer == Spec => []OneInitializer
<1>1. CreateInv => OneInitializer
  <2>. SUFFICES ASSUME CreateInv PROVE OneInitializer
    OBVIOUS
  <2>. DEFINE makers == {c \in Creators : pc[c] \in MidCreate}
  <2>1. CASE makers = {}
    BY <2>1, FS_EmptySet DEF OneInitializer
  <2>2. CASE makers # {}
    <3>1. PICK c \in makers : TRUE
      BY <2>2
    <3>2. makers = {c}
      BY <3>1 DEF CreateInv, OneMaker, Mid, Processes
    <3>3. Cardinality({c}) = 1
      BY FS_Singleton
    <3>. QED
      BY <3>2, <3>3 DEF OneInitializer
  <2>. QED
    BY <2>1, <2>2
<1>. QED
  BY <1>1, CreateInvariance, PTL

\* NeverErases: no step of a create, an open, a restart or a user of the ring
\* takes an index back.
THEOREM ErasesNothing == Spec => NeverErases
<1>1. CreateInv /\ [Next]_vars => [write_index' >= write_index /\ read_index' >= read_index]_vars
  <2>. SUFFICES ASSUME CreateInv, Next
                PROVE  write_index' >= write_index /\ read_index' >= read_index
    OBVIOUS
  <2>1. write_index \in Nat /\ read_index \in Nat
    BY DEF CreateInv, TypeOK
  <2>2. ASSUME NEW c \in Creators, InitIndices(c) PROVE write_index = 0 /\ read_index = 0
    BY <2>2 DEF CreateInv, FileStage, InitIndices, Mid, MidCreate, Processes
  <2>. QED
    BY <2>1, <2>2 DEF Next, Startup, CreateStep, CheckExists, CreateNew, SetLen, InitIndices,
       InitCapacity, MapExisting, Restart, Crash, Fault, Push, Pop, header
<1>. QED
  BY <1>1, CreateInvariance, PTL DEF Spec, NeverErases
=============================================================================
