---------------------------- MODULE TcHook_proofs ----------------------------
(***************************************************************************)
(* Proofs about TcHook, on both kernels, for any number of unclean deaths  *)
(* and of times the interface is made afresh: what is on the hook when a   *)
(* daemon has ended, and while it is in its loop, and what packets reach.  *)
(***************************************************************************)
EXTENDS TcHook, FiniteSetTheorems, SequenceTheorems, TLAPS

USE BoundAssumption, KernelAssumption

Places == {"down", "main", "loaded", "attached", "loop", "detach", "drop"}
Shape == /\ kernel \in Kernels /\ hook \in Seq(Programs) /\ pc \in [Daemons -> Places]
         /\ attached \in [Daemons -> BOOLEAN] /\ running \in [Daemons -> BOOLEAN]
         /\ gen \in [Daemons -> Gens] /\ unclean \in 0..MaxUnclean

\* The programs on the hook: all different; what no death has left there belongs
\* to a daemon that knows so.
Distinct == \A i, j \in DOMAIN hook : i # j => hook[i] # hook[j]
LeftInv == /\ left \subseteq OnHook /\ (kernel # "tc" => left = {})
           /\ \A d \in Daemons : pc[d] # "down" => Program(d) \notin left
           /\ IsFiniteSet(left) /\ Cardinality(left) <= unclean
Owned == \A p \in OnHook : p \notin left => p = Program(p.owner) /\ attached[p.owner]

\* A daemon knows whether it has attached a program; that is on the hook unless
\* the interface has been made afresh since.
AttachedInv ==
  \A d \in Daemons :
    /\ pc[d] \in {"down", "main", "loaded"} => ~attached[d]
    /\ pc[d] \in {"attached", "loop", "detach"} => attached[d]
    /\ attached[d] => (Program(d) \in OnHook <=> d \notin bare)
    /\ pc[d] \in {"main", "loaded"} => d \notin bare
HookInv == Shape /\ Distinct /\ LeftInv /\ Owned /\ AttachedInv

-----------------------------------------------------------------------------
LEMMA ProgramType ==
  ASSUME Shape
  PROVE  /\ OnHook \subseteq Programs
         /\ \A d \in Daemons : Program(d) \in Programs /\ Program(d).owner = d
         /\ \A p \in Programs : p.owner \in Daemons
<1>1. OnHook \subseteq Programs
  BY DEF Shape, OnHook, ToSet
<1>2. ASSUME NEW d \in Daemons PROVE Program(d) \in Programs /\ Program(d).owner = d
  <2>1. gen[d] \in Gens
    BY DEF Shape
  <2>. QED
    BY <2>1 DEF Program, Programs
<1>. QED
  BY <1>1, <1>2 DEF Programs

LEMMA RemoveAtElements ==
  ASSUME NEW V, NEW s \in Seq(V), NEW i \in 1..Len(s)
  PROVE  /\ RemoveAt(s, i) \in Seq(V) /\ DOMAIN RemoveAt(s, i) = 1..(Len(s) - 1)
         /\ \A j \in 1..(Len(s) - 1) : RemoveAt(s, i)[j] = IF j < i THEN s[j] ELSE s[j + 1]
<1>. DEFINE front == SubSeq(s, 1, i - 1)
            back == SubSeq(s, i + 1, Len(s))
<1>1. Len(s) \in Nat
  OBVIOUS
<1>2. front \in Seq(V) /\ Len(front) = i - 1 /\ \A j \in 1..(i - 1) : front[j] = s[j]
  BY <1>1
<1>3. back \in Seq(V) /\ Len(back) = Len(s) - i /\ \A j \in 1..(Len(s) - i) : back[j] = s[i + j]
  BY <1>1
<1>. HIDE DEF front, back
<1>4. front \o back \in Seq(V) /\ DOMAIN (front \o back) = 1..(Len(s) - 1)
  <2>1. front \o back \in Seq(V) /\ Len(front \o back) = Len(front) + Len(back)
    BY <1>2, <1>3, ConcatProperties
  <2>2. Len(front) + Len(back) = Len(s) - 1
    BY <1>1, <1>2, <1>3
  <2>. QED
    BY <2>1, <2>2
<1>6. ASSUME NEW j \in 1..(Len(s) - 1), j < i PROVE (front \o back)[j] = s[j]
  <2>1. j \in 1..Len(front)
    BY <1>1, <1>2, <1>6
  <2>2. (front \o back)[j] = front[j]
    BY <1>2, <1>3, <2>1
  <2>. QED
    BY <1>2, <2>1, <2>2
<1>5. ASSUME NEW j \in 1..(Len(s) - 1), ~(j < i) PROVE (front \o back)[j] = s[j + 1]
  <2>1. (front \o back)[j] = back[j - (i - 1)]
    BY <1>1, <1>2, <1>3, <1>5
  <2>2. j - (i - 1) \in 1..(Len(s) - i)
    BY <1>1, <1>5
  <2>. QED
    BY <1>1, <1>3, <2>1, <2>2
<1>. QED
  BY <1>4, <1>5, <1>6 DEF RemoveAt, front, back

\* What the kernel does to the hook.
LEMMA DeleteStep ==
  ASSUME Shape, Distinct, NEW p, Delete(p)
  PROVE  hook' \in Seq(Programs) /\ Distinct' /\ OnHook' = OnHook \ {p}
<1>1. CASE p \notin OnHook
  BY <1>1 DEF Delete, Shape, Distinct, OnHook, ToSet
<1>2. CASE p \in OnHook
  <2>1. PICK i \in DOMAIN hook : hook[i] = p /\ hook' = RemoveAt(hook, i)
    BY <1>2 DEF Delete
  <2>2. /\ Len(hook) \in Nat /\ DOMAIN hook = 1..Len(hook) /\ i \in 1..Len(hook)
        /\ hook' \in Seq(Programs) /\ DOMAIN hook' = 1..(Len(hook) - 1)
        /\ \A j \in 1..(Len(hook) - 1) : hook'[j] = IF j < i THEN hook[j] ELSE hook[j + 1]
    BY <2>1, RemoveAtElements DEF Shape
  <2>3. Distinct'
    <3>. SUFFICES ASSUME NEW j \in DOMAIN hook', NEW k \in DOMAIN hook', j # k
                  PROVE  hook'[j] # hook'[k]
      BY DEF Distinct
    <3>. DEFINE Was(n) == IF n < i THEN n ELSE n + 1
    <3>1. ASSUME NEW n \in DOMAIN hook' PROVE Was(n) \in DOMAIN hook /\ hook'[n] = hook[Was(n)]
      BY <2>2
    <3>2. Was(j) # Was(k)
      BY <2>2
    <3>. HIDE DEF Was
    <3>. QED
      BY <3>1, <3>2 DEF Distinct
  <2>4. OnHook' \subseteq OnHook \ {p}
    BY <2>1, <2>2 DEF Distinct, OnHook, ToSet
  <2>5. ASSUME NEW q \in OnHook, q # p PROVE q \in OnHook'
    <3>1. PICK j \in DOMAIN hook : hook[j] = q
      BY <2>5 DEF OnHook, ToSet
    <3>2. CASE j < i
      BY <2>2, <3>1, <3>2 DEF OnHook, ToSet
    <3>3. CASE j > i
      <4>1. j - 1 \in DOMAIN hook' /\ hook'[j - 1] = q
        BY <2>2, <3>1, <3>3
      <4>. QED
        BY <4>1 DEF OnHook, ToSet
    <3>. QED
      BY <2>1, <2>2, <2>5, <3>1, <3>2, <3>3
  <2>. QED
    BY <2>2, <2>3, <2>4, <2>5
<1>. QED
  BY <1>1, <1>2

LEMMA InsertStep ==
  ASSUME Shape, Distinct, NEW p \in Programs \ OnHook, Insert(p)
  PROVE  hook' \in Seq(Programs) /\ Distinct' /\ OnHook' = OnHook \cup {p}
<1>1. Len(hook) \in Nat /\ DOMAIN hook = 1..Len(hook) /\ \A i \in DOMAIN hook : hook[i] # p
  BY DEF Shape, OnHook, ToSet
<1>2. CASE kernel = "tc"
  <2>1. /\ hook' \in Seq(Programs) /\ DOMAIN hook' = 1..(Len(hook) + 1) /\ hook'[1] = p
        /\ \A j \in 1..Len(hook) : hook'[j + 1] = hook[j]
        /\ \A j \in 2..(Len(hook) + 1) : hook'[j] = hook[j - 1]
    BY <1>2 DEF Shape, Insert
  <2>2. Distinct'
    <3>. SUFFICES ASSUME NEW j \in DOMAIN hook', NEW k \in DOMAIN hook', j # k
                  PROVE  hook'[j] # hook'[k]
      BY DEF Distinct
    <3>1. \A n \in DOMAIN hook' : n # 1 => n - 1 \in DOMAIN hook /\ hook'[n] = hook[n - 1]
      BY <1>1, <2>1
    <3>. QED
      BY <1>1, <2>1, <3>1 DEF Distinct
  <2>3. OnHook' \subseteq OnHook \cup {p}
    BY <1>1, <2>1 DEF OnHook, ToSet
  <2>4. OnHook \cup {p} \subseteq OnHook'
    <3>1. \A j \in DOMAIN hook : j + 1 \in DOMAIN hook' /\ hook'[j + 1] = hook[j]
      BY <1>1, <2>1
    <3>2. 1 \in DOMAIN hook' /\ hook'[1] = p
      BY <1>1, <2>1
    <3>. QED
      BY <3>1, <3>2 DEF OnHook, ToSet
  <2>. QED
    BY <2>1, <2>2, <2>3, <2>4
<1>3. CASE kernel # "tc"
  <2>1. /\ hook' \in Seq(Programs) /\ DOMAIN hook' = 1..(Len(hook) + 1) /\ hook'[Len(hook) + 1] = p
        /\ \A j \in 1..Len(hook) : hook'[j] = hook[j]
    BY <1>3 DEF Shape, Insert
  <2>2. Distinct'
    BY <1>1, <2>1 DEF Distinct
  <2>3. OnHook' = OnHook \cup {p}
    BY <1>1, <2>1 DEF OnHook, ToSet
  <2>. QED
    BY <2>1, <2>2, <2>3
<1>. QED
  BY <1>2, <1>3

\* There is always a name for the next program of a daemon that is down: deaths
\* have left fewer than there are names.
LEMMA FreshIsFresh ==
  ASSUME HookInv, NEW d \in Daemons, pc[d] = "down"
  PROVE  FreshGen(d) \in Gens /\ [owner |-> d, gen |-> FreshGen(d)] \notin OnHook
<1>1. ASSUME \A n \in Gens : [owner |-> d, gen |-> n] \in OnHook PROVE FALSE
  <2>1. \A n \in Gens : [owner |-> d, gen |-> n] \in left
    BY <1>1 DEF HookInv, Owned, AttachedInv
  <2>2. IsFiniteSet(Gens) /\ Cardinality(Gens) = MaxUnclean + 1
    BY FS_Interval DEF Gens
  <2>3. IsFiniteSet(left) /\ Cardinality(left) < Cardinality(Gens)
    <3>1. Cardinality(left) \in Nat /\ Cardinality(left) <= unclean /\ unclean \in 0..MaxUnclean
      BY FS_CardinalityType DEF HookInv, LeftInv, Shape
    <3>. QED
      BY <2>2, <3>1 DEF HookInv, LeftInv
  <2>. DEFINE name == [n \in Gens |-> [owner |-> d, gen |-> n]]
  <2>4. name \in [Gens -> left]
    BY <2>1
  <2>5. \A m, n \in Gens : m # n => name[m] # name[n]
    OBVIOUS
  <2>. HIDE DEF name
  <2>. QED
    BY <2>2, <2>3, <2>4, <2>5, FS_PigeonHole
<1>. QED
  BY <1>1 DEF FreshGen

-----------------------------------------------------------------------------
\* The programs of two daemons differ, and keep their names while gen stays.
LEMMA ProgramsDiffer ==
  /\ \A d, e \in Daemons : d # e => Program(d) # Program(e)
  /\ UNCHANGED gen => \A d : Program(d)' = Program(d)
<1>1. ASSUME NEW d \in Daemons, NEW e \in Daemons, d # e PROVE Program(d) # Program(e)
  <2>1. Program(d).owner # Program(e).owner
    BY <1>1 DEF Program
  <2>. QED
    BY <2>1
<1>2. UNCHANGED gen => \A d : Program(d)' = Program(d)
  BY DEF Program
<1>. QED
  BY <1>1, <1>2

\* Steps that leave the hook alone.
LEMMA QuietSteps ==
  ASSUME HookInv, NEW d \in Daemons,
         Load(d) \/ Register(d) \/ LeaveLoop(d) \/ ProcessorError
  PROVE  HookInv'
<1>. USE DEF HookInv
<1>1. \E e \in Daemons, to \in Places :
        /\ pc' = [pc EXCEPT ![e] = to] /\ UNCHANGED <<env, hook, attached, running, gen, left>>
        /\ \/ pc[e] = "main" /\ to \in {"loaded", "down"}
           \/ pc[e] \in {"attached", "loop"} /\ to \in {"loop", "drop", "detach"}
  <2>1. CASE Load(d)
    BY <2>1 DEF Load, Goto, Places
  <2>2. CASE Register(d)
    BY <2>2 DEF Register, Goto, Places
  <2>3. CASE LeaveLoop(d)
    BY <2>3 DEF LeaveLoop, Goto, Places
  <2>4. CASE ProcessorError
    BY <2>4 DEF ProcessorError, Goto, Places, Daemons
  <2>. QED
    BY <2>1, <2>2, <2>3, <2>4
<1>2. PICK e \in Daemons, to \in Places :
        /\ pc' = [pc EXCEPT ![e] = to] /\ UNCHANGED <<env, hook, attached, running, gen, left>>
        /\ \/ pc[e] = "main" /\ to \in {"loaded", "down"}
           \/ pc[e] \in {"attached", "loop"} /\ to \in {"loop", "drop", "detach"}
  BY <1>1
<1>3. OnHook' = OnHook /\ \A c : Program(c)' = Program(c)
  BY <1>2, ProgramsDiffer DEF OnHook
<1>4. Shape' /\ Distinct'
  BY <1>2 DEF Shape, Distinct, env
<1>5. LeftInv' /\ Owned'
  BY <1>2, <1>3 DEF Shape, LeftInv, Owned, env
<1>6. AttachedInv'
  BY <1>2, <1>3 DEF Shape, AttachedInv, env
<1>. QED
  BY <1>4, <1>5, <1>6

LEMMA StartStep == ASSUME HookInv, NEW d \in Daemons, Start(d) PROVE HookInv'
<1>. USE DEF HookInv
<1>1. /\ pc[d] = "down" /\ pc' = [pc EXCEPT ![d] = "main"]
      /\ gen' = [gen EXCEPT ![d] = FreshGen(d)] /\ running' = [running EXCEPT ![d] = TRUE]
      /\ bare' = bare \ {d} /\ UNCHANGED <<kernel, unclean, hook, attached, left>>
  BY DEF Start, Goto
<1>2. PICK n \in Gens : n = FreshGen(d) /\ [owner |-> d, gen |-> n] \notin OnHook
  BY <1>1, FreshIsFresh
<1>3. /\ OnHook' = OnHook /\ Program(d)' \notin OnHook
      /\ \A e \in Daemons \ {d} : Program(e)' = Program(e)
  BY <1>1, <1>2 DEF Program, OnHook, Shape
<1>4. Shape' /\ Distinct'
  BY <1>1, <1>2 DEF Shape, Distinct, Places
<1>5. LeftInv'
  BY <1>1, <1>3 DEF Shape, LeftInv
<1>6. ~attached[d]
  BY <1>1 DEF AttachedInv
<1>7. Owned'
  <2>. SUFFICES ASSUME NEW p \in OnHook, p \notin left PROVE p = Program(p.owner)' /\ attached[p.owner]
    BY <1>1, <1>3 DEF Owned
  <2>1. p.owner \in Daemons /\ p = Program(p.owner) /\ attached[p.owner]
    BY ProgramType DEF Owned
  <2>2. PICK e \in Daemons \ {d} : e = p.owner
    BY <1>6, <2>1
  <2>. QED
    BY <1>3, <2>1, <2>2 DEF Program
<1>8. AttachedInv'
  BY <1>1, <1>3, <1>6 DEF Shape, AttachedInv
<1>. QED
  BY <1>4, <1>5, <1>7, <1>8

LEMMA AttachStep == ASSUME HookInv, NEW d \in Daemons, AttachTo(d) PROVE HookInv'
<1>. USE DEF HookInv
<1>1. /\ pc[d] = "loaded" /\ UNCHANGED <<env, running, gen, left>>
      /\ ~attached[d] /\ d \notin bare /\ Program(d) \in Programs /\ Program(d).owner = d
      /\ Program(d) \notin left /\ \A c : Program(c)' = Program(c)
  BY ProgramsDiffer, ProgramType DEF AttachTo, AttachedInv, LeftInv
<1>2. Program(d) \notin OnHook
  BY <1>1 DEF Owned
<1>3. CASE UNCHANGED <<hook, attached>> /\ pc' = [pc EXCEPT ![d] = "drop"]
  <2>1. OnHook' = OnHook
    BY <1>3 DEF OnHook
  <2>. QED
    BY <1>1, <1>3, <2>1 DEF Shape, Places, Distinct, LeftInv, Owned, AttachedInv, env
<1>4. CASE /\ Insert(Program(d)) /\ attached' = [attached EXCEPT ![d] = TRUE]
           /\ pc' = [pc EXCEPT ![d] = "attached"]
  <2>1. hook' \in Seq(Programs) /\ Distinct' /\ OnHook' = OnHook \cup {Program(d)}
    BY <1>1, <1>2, <1>4, InsertStep
  <2>2. Shape'
    BY <1>1, <1>4, <2>1 DEF Shape, Places, env
  <2>3. LeftInv'
    BY <1>1, <1>4, <2>1 DEF Shape, LeftInv, env
  <2>4. Owned'
    <3>. SUFFICES ASSUME NEW p \in OnHook \cup {Program(d)}, p \notin left
                  PROVE  p = Program(p.owner) /\ attached'[p.owner]
      BY <1>1, <2>1 DEF Owned
    <3>1. p.owner \in Daemons
      BY <1>1, ProgramType
    <3>. QED
      BY <1>1, <1>4, <3>1 DEF Shape, Owned
  <2>5. AttachedInv'
    <3>1. \A e \in Daemons \ {d} : Program(e) \in OnHook' <=> Program(e) \in OnHook
      BY <2>1, ProgramsDiffer
    <3>. QED
      BY <1>1, <1>4, <2>1, <3>1 DEF Shape, AttachedInv, env
  <2>. QED
    BY <2>1, <2>2, <2>3, <2>4, <2>5
<1>. QED
  BY <1>3, <1>4 DEF AttachTo, Goto

\* Taking a program off leaves what belongs to the others.
LEMMA TakenOff ==
  ASSUME HookInv, NEW d \in Daemons, UNCHANGED <<left, gen, bare>>,
         \A e \in Daemons \ {d} : pc'[e] = pc[e] /\ attached'[e] = attached[e],
         OnHook' = OnHook \ {Program(d)}, ~attached'[d], pc'[d] \in {"drop", "down"}
  PROVE  Owned' /\ AttachedInv'
<1>. USE DEF HookInv
<1>1. \A c : Program(c)' = Program(c)
  BY ProgramsDiffer
<1>2. Owned'
  <2>. SUFFICES ASSUME NEW p \in OnHook, p # Program(d), p \notin left
                PROVE  p = Program(p.owner) /\ attached'[p.owner]
    BY <1>1 DEF Owned
  <2>1. p.owner \in Daemons /\ p = Program(p.owner) /\ attached[p.owner]
    BY ProgramType DEF Owned
  <2>2. p.owner # d
    BY <2>1
  <2>. QED
    BY <2>1, <2>2
<1>3. AttachedInv'
  <2>1. \A e \in Daemons \ {d} : Program(e) \in OnHook' <=> Program(e) \in OnHook
    BY ProgramsDiffer
  <2>. QED
    BY <1>1, <2>1 DEF AttachedInv
<1>. QED
  BY <1>2, <1>3

LEMMA DetachStep == ASSUME HookInv, NEW d \in Daemons, DetachFrom(d) \/ DropLoaded(d) PROVE HookInv'
<1>. USE DEF HookInv
<1>1. PICK to \in {"drop", "down"} : pc' = [pc EXCEPT ![d] = to]
  BY DEF DetachFrom, DropLoaded, Goto
<1>2. /\ UNCHANGED <<env, running, gen, left>> /\ pc[d] # "down"
      /\ IF attached[d] THEN TakeOff(d) ELSE UNCHANGED <<hook, attached>>
  BY DEF DetachFrom, DropLoaded
<1>3. Program(d) \notin left /\ Program(d).owner = d
  BY <1>2, ProgramType DEF LeftInv
<1>4. /\ OnHook' = OnHook \ {Program(d)} /\ hook' \in Seq(Programs) /\ Distinct'
      /\ attached' \in [Daemons -> BOOLEAN] /\ ~attached'[d]
      /\ \A e \in Daemons \ {d} : attached'[e] = attached[e]
  <2>1. CASE attached[d]
    BY <1>2, <2>1, DeleteStep DEF TakeOff, Shape
  <2>2. CASE ~attached[d]
    <3>1. Program(d) \notin OnHook
      BY <1>3, <2>2 DEF Owned
    <3>. QED
      BY <1>2, <2>2, <3>1 DEF Shape, Distinct, OnHook
  <2>. QED
    BY <2>1, <2>2
<1>5. Shape'
  BY <1>1, <1>2, <1>4 DEF Shape, Places, env
<1>6. LeftInv'
  BY <1>1, <1>2, <1>3, <1>4, ProgramsDiffer DEF Shape, LeftInv, env
<1>7. Owned' /\ AttachedInv'
  <2>1. \A e \in Daemons \ {d} : pc'[e] = pc[e]
    BY <1>1 DEF Shape
  <2>2. pc'[d] \in {"drop", "down"}
    BY <1>1 DEF Shape
  <2>. QED
    BY <1>2, <1>4, <2>1, <2>2, TakenOff DEF env
<1>. QED
  BY <1>4, <1>5, <1>6, <1>7

LEMMA DieStep == ASSUME HookInv, NEW d \in Daemons, pc[d] # "down", Die(d) PROVE HookInv'
<1>. USE DEF HookInv
<1>1. /\ unclean < MaxUnclean /\ unclean' = unclean + 1 /\ pc' = [pc EXCEPT ![d] = "down"]
      /\ attached' = [attached EXCEPT ![d] = FALSE] /\ UNCHANGED <<kernel, bare, running, gen>>
  BY DEF Die, Goto
<1>2. /\ \A c : Program(c)' = Program(c)
      /\ \A e \in Daemons \ {d} : pc'[e] = pc[e] /\ attached'[e] = attached[e]
      /\ pc'[d] = "down" /\ ~attached'[d]
  BY <1>1, ProgramsDiffer DEF Shape
<1>3. CASE kernel = "tcx"
  <2>1. Delete(Program(d)) /\ UNCHANGED left
    BY <1>3 DEF Die
  <2>2. hook' \in Seq(Programs) /\ Distinct' /\ OnHook' = OnHook \ {Program(d)}
    BY <2>1, DeleteStep
  <2>3. Owned' /\ AttachedInv'
    BY <1>1, <1>2, <2>1, <2>2, TakenOff
  <2>4. Shape'
    BY <1>1, <2>2 DEF Shape, Places
  <2>5. left = {} /\ left' = {} /\ kernel' = "tcx"
    BY <1>1, <1>3, <2>1 DEF LeftInv
  <2>6. LeftInv'
    BY <1>1, <2>4, <2>5, FS_EmptySet DEF LeftInv, Shape
  <2>. QED
    BY <2>2, <2>3, <2>4, <2>6
<1>4. CASE kernel = "tc"
  <2>1. UNCHANGED hook /\ left' = left \cup ({Program(d)} \cap OnHook)
    BY <1>4 DEF Die
  <2>2. OnHook' = OnHook
    BY <2>1 DEF OnHook
  <2>3. Shape' /\ Distinct'
    BY <1>1, <2>1 DEF Shape, Places, Distinct
  <2>4. IsFiniteSet(left') /\ Cardinality(left') <= unclean'
    <3>1. Cardinality(left) \in Nat /\ Cardinality(left) <= unclean /\ unclean \in Nat
      BY FS_CardinalityType DEF LeftInv, Shape
    <3>2. CASE left' = left
      <4>1. Cardinality(left') = Cardinality(left)
        BY <3>2
      <4>. QED
        BY <1>1, <3>1, <3>2, <4>1 DEF LeftInv
    <3>3. CASE left' = left \cup {Program(d)}
      <4>1. Cardinality(left') \in {Cardinality(left), Cardinality(left) + 1} /\ IsFiniteSet(left')
        BY <3>3, FS_AddElement DEF LeftInv
      <4>. QED
        BY <1>1, <3>1, <4>1
    <3>. QED
      BY <2>1, <3>2, <3>3
  <2>5. LeftInv'
    BY <1>1, <1>2, <1>4, <2>1, <2>2, <2>4, ProgramsDiffer DEF LeftInv
  <2>6. Owned'
    <3>. SUFFICES ASSUME NEW p \in OnHook, p \notin left, p # Program(d)
                  PROVE  p = Program(p.owner) /\ attached'[p.owner]
      BY <1>2, <2>1, <2>2 DEF Owned
    <3>1. p.owner \in Daemons /\ p = Program(p.owner) /\ attached[p.owner]
      BY ProgramType DEF Owned
    <3>2. p.owner # d
      BY <3>1
    <3>. QED
      BY <1>2, <3>1, <3>2
  <2>7. AttachedInv'
    BY <1>1, <1>2, <2>2 DEF AttachedInv
  <2>. QED
    BY <2>3, <2>5, <2>6, <2>7
<1>. QED
  BY <1>3, <1>4 DEF Shape

LEMMA SignalStep == ASSUME HookInv, NEW d \in Daemons, Signal(d) \/ Kill(d) PROVE HookInv'
<1>1. CASE pc[d] # "down" /\ Die(d)
  BY <1>1, DieStep
<1>2. CASE /\ running' = [running EXCEPT ![d] = FALSE]
           /\ UNCHANGED <<env, hook, pc, attached, gen, left>>
  <2>1. OnHook' = OnHook /\ \A c : Program(c)' = Program(c)
    BY <1>2, ProgramsDiffer DEF OnHook
  <2>2. Shape' /\ Distinct'
    BY <1>2 DEF HookInv, Shape, Distinct, env
  <2>3. LeftInv' /\ Owned' /\ AttachedInv'
    BY <1>2, <2>1 DEF HookInv, LeftInv, Owned, AttachedInv, env
  <2>. QED
    BY <2>2, <2>3 DEF HookInv
<1>. QED
  BY <1>1, <1>2 DEF Signal, Kill

\* What went with the interface is remembered as bare.
LEMMA ClearStep == ASSUME HookInv, Clear PROVE HookInv'
<1>. USE DEF HookInv
<1>1. /\ hook' = <<>> /\ left' = {} /\ UNCHANGED <<kernel, unclean, pc, attached, running, gen>>
      /\ bare' = bare \cup {d \in Daemons : Program(d) \in OnHook}
  BY DEF Clear
<1>2. OnHook' = {} /\ DOMAIN hook' = {} /\ \A c : Program(c)' = Program(c)
  BY <1>1, ProgramsDiffer DEF OnHook, ToSet
<1>3. Shape' /\ Distinct'
  BY <1>1, <1>2 DEF Shape, Distinct
<1>4. LeftInv'
  BY <1>1, <1>2, FS_EmptySet DEF LeftInv, Shape
<1>5. Owned'
  BY <1>2 DEF Owned
<1>6. ASSUME NEW d \in Daemons, pc[d] \in {"main", "loaded"} PROVE Program(d) \notin OnHook
  <2>1. ~attached[d] /\ Program(d) \notin left /\ Program(d).owner = d
    BY <1>6, ProgramType DEF AttachedInv, LeftInv
  <2>. QED
    BY <2>1 DEF Owned
<1>7. AttachedInv'
  BY <1>1, <1>2, <1>6 DEF AttachedInv
<1>. QED
  BY <1>3, <1>4, <1>5, <1>7

LEMMA InitHookInv == Init => HookInv
<1>. SUFFICES ASSUME Init PROVE HookInv
  OBVIOUS
<1>1. OnHook = {} /\ DOMAIN hook = {}
  BY DEF Init, OnHook, ToSet
<1>2. Shape /\ Distinct
  BY <1>1 DEF Init, Shape, Places, Gens, Distinct
<1>3. LeftInv /\ Owned /\ AttachedInv
  BY <1>1, FS_EmptySet DEF Init, LeftInv, Owned, AttachedInv
<1>. QED
  BY <1>2, <1>3 DEF HookInv

LEMMA NextHookInv == HookInv /\ [Next]_vars => HookInv'
<1>. SUFFICES ASSUME HookInv, [Next]_vars PROVE HookInv'
  OBVIOUS
<1>1. CASE SamplerMain \/ ProcessorMain \/ ProcessorError
  <2>1. PICK d \in Daemons : \/ Load(d) \/ AttachTo(d) \/ Register(d) \/ LeaveLoop(d)
                             \/ DetachFrom(d) \/ DropLoaded(d) \/ ProcessorError
    BY <1>1 DEF Daemons, SamplerMain, SamplerLoad, SamplerAttach, SamplerRegister,
                SamplerLeaveLoop, SamplerDetach, SamplerDrop, ProcessorMain, ProcessorLoad,
                ProcessorAttach, ProcessorRegister, ProcessorLeaveLoop, ProcessorDetach,
                ProcessorDrop
  <2>. QED
    BY <2>1, QuietSteps, AttachStep, DetachStep
<1>2. CASE Clear
  BY <1>2, ClearStep
<1>3. ASSUME NEW d \in Daemons, Start(d) \/ Signal(d) \/ Kill(d) PROVE HookInv'
  BY <1>3, StartStep, SignalStep
<1>4. CASE UNCHANGED vars
  <2>1. OnHook' = OnHook /\ \A c : Program(c)' = Program(c)
    BY <1>4, ProgramsDiffer DEF OnHook, vars
  <2>2. Shape' /\ Distinct'
    BY <1>4 DEF HookInv, Shape, Distinct, vars
  <2>3. LeftInv' /\ Owned' /\ AttachedInv'
    BY <1>4, <2>1 DEF HookInv, LeftInv, Owned, AttachedInv, vars
  <2>. QED
    BY <2>2, <2>3 DEF HookInv
<1>. QED
  BY <1>1, <1>2, <1>3, <1>4 DEF Next

-----------------------------------------------------------------------------
\* A daemon that returned from main or unwound has left no program on the hook; one
\* that died otherwise has, on a kernel before 6.6, the one its death left there.
LEMMA HookInvExit == HookInv => ExitLeavesNothing
<1>. SUFFICES ASSUME HookInv, NEW p \in OnHook PROVE Live(p) \/ (kernel = "tc" /\ p \in left)
  BY DEF ExitLeavesNothing
<1>1. p.owner \in Daemons
  BY ProgramType DEF HookInv
<1>2. CASE p \in left
  BY <1>2 DEF HookInv, LeftInv
<1>3. CASE p \notin left
  BY <1>1, <1>3 DEF HookInv, Owned, AttachedInv, Live
<1>. QED
  BY <1>2, <1>3

\* After any number of starts, deaths and removals of the interface, a daemon that
\* returned from main or unwound, by an error, a panic or a signal its handler took,
\* has no program left on the hook (Drop of SamplerBpf and ProcessorBpf).  What a
\* kill leaves on a kernel before 6.6, and so does a SIGTERM before its handler is
\* registered, is in `left`.
THEOREM ExitsLeaveNothing == Spec => []ExitLeavesNothing
<1>1. HookInv => ExitLeavesNothing
  BY HookInvExit
<1>. QED
  BY InitHookInv, NextHookInv, <1>1, PTL DEF Spec

\* A daemon in its loop has its program on the hook, and once.
LEMMA HookInvLoop == HookInv => LoopHasProgram
<1>. SUFFICES ASSUME HookInv, NEW d \in Daemons, pc[d] = "loop"
              PROVE  Cardinality({i \in DOMAIN hook : hook[i].owner = d /\ hook[i] \notin left})
                       = IF d \in bare THEN 0 ELSE 1
  BY DEF LoopHasProgram
<1>. DEFINE places == {i \in DOMAIN hook : hook[i].owner = d /\ hook[i] \notin left}
<1>1. /\ Program(d) \in OnHook <=> d \notin bare
      /\ Program(d) \notin left /\ Program(d).owner = d
  BY ProgramType DEF HookInv, AttachedInv, LeftInv
<1>2. \A i \in DOMAIN hook : hook[i] \in OnHook
  BY DEF OnHook, ToSet
<1>3. places = {i \in DOMAIN hook : hook[i] = Program(d)}
  BY <1>1, <1>2 DEF HookInv, Owned
<1>4. CASE d \in bare
  BY <1>1, <1>2, <1>3, <1>4, FS_EmptySet
<1>5. CASE d \notin bare
  <2>1. PICK i \in DOMAIN hook : hook[i] = Program(d)
    BY <1>1, <1>5 DEF OnHook, ToSet
  <2>2. places = {i}
    BY <1>3, <2>1 DEF HookInv, Distinct
  <2>. QED
    BY <1>5, <2>2, FS_Singleton
<1>. QED
  BY <1>4, <1>5

\* Restarts never add up: a daemon in its loop has one program on the hook
\* besides those that deaths have left, unless the interface has been made
\* afresh under it, when it has none (attach of SamplerBpf and ProcessorBpf).
THEOREM LoopsHaveTheirProgram == Spec => []LoopHasProgram
<1>1. HookInv => LoopHasProgram
  BY HookInvLoop
<1>. QED
  BY InitHookInv, NextHookInv, <1>1, PTL DEF Spec
-----------------------------------------------------------------------------
\* On a kernel before 6.6 a daemon's own program runs before those that its
\* deaths have left, as a program goes before those already there.
NewestFirst ==
  kernel = "tc" =>
    \A i, j \in DOMAIN hook :
      (hook[i].owner = hook[j].owner /\ hook[i] \notin left /\ hook[j] \in left) => i < j

LEMMA InsertInFront ==
  ASSUME HookInv, NewestFirst, NEW d \in Daemons, Program(d) \notin left,
         Insert(Program(d)), UNCHANGED <<kernel, left>>
  PROVE  NewestFirst'
<1>. SUFFICES ASSUME kernel = "tc", NEW i \in DOMAIN hook', NEW j \in DOMAIN hook',
                     hook'[i].owner = hook'[j].owner, hook'[i] \notin left, hook'[j] \in left
              PROVE  i < j
  BY DEF NewestFirst
<1>1. /\ Len(hook) \in Nat /\ DOMAIN hook = 1..Len(hook) /\ DOMAIN hook' = 1..(Len(hook) + 1)
      /\ hook'[1] = Program(d) /\ \A k \in 2..(Len(hook) + 1) : hook'[k] = hook[k - 1]
  <2>1. Program(d) \in Programs
    BY ProgramType DEF HookInv
  <2>. QED
    BY <2>1 DEF Insert, HookInv, Shape
<1>2. j # 1
  BY <1>1
<1>3. CASE i = 1
  BY <1>1, <1>2, <1>3
<1>4. CASE i # 1
  <2>1. /\ i - 1 \in DOMAIN hook /\ hook'[i] = hook[i - 1]
        /\ j - 1 \in DOMAIN hook /\ hook'[j] = hook[j - 1]
    BY <1>1, <1>2, <1>4
  <2>2. i - 1 < j - 1
    BY <2>1 DEF NewestFirst
  <2>. QED
    BY <1>1, <2>2
<1>. QED
  BY <1>3, <1>4

LEMMA DeleteKeepsOrder ==
  ASSUME HookInv, NewestFirst, NEW p, Delete(p), UNCHANGED <<kernel, left>>
  PROVE  NewestFirst'
<1>1. CASE p \notin OnHook
  BY <1>1 DEF Delete, NewestFirst
<1>2. CASE p \in OnHook
  <2>1. PICK i \in DOMAIN hook : hook[i] = p /\ hook' = RemoveAt(hook, i)
    BY <1>2 DEF Delete
  <2>2. /\ Len(hook) \in Nat /\ DOMAIN hook = 1..Len(hook) /\ i \in 1..Len(hook)
        /\ DOMAIN hook' = 1..(Len(hook) - 1)
        /\ \A j \in 1..(Len(hook) - 1) : hook'[j] = IF j < i THEN hook[j] ELSE hook[j + 1]
    BY <2>1, RemoveAtElements DEF HookInv, Shape
  <2>. DEFINE Was(n) == IF n < i THEN n ELSE n + 1
  <2>3. /\ \A n \in DOMAIN hook' : Was(n) \in DOMAIN hook /\ hook'[n] = hook[Was(n)]
        /\ \A m, n \in DOMAIN hook' : Was(m) < Was(n) => m < n
    BY <2>2
  <2>. HIDE DEF Was
  <2>. QED
    BY <2>3 DEF NewestFirst
<1>. QED
  BY <1>1, <1>2

LEMMA DieKeepsOrder ==
  ASSUME HookInv, NewestFirst, NEW d \in Daemons, pc[d] # "down", Die(d)
  PROVE  NewestFirst'
<1>1. CASE kernel = "tcx"
  BY <1>1 DEF Die, NewestFirst
<1>2. CASE kernel = "tc"
  <2>1. UNCHANGED <<kernel, hook>> /\ left' = left \cup ({Program(d)} \cap OnHook)
    BY <1>2 DEF Die
  <2>2. ASSUME NEW i \in DOMAIN hook, NEW j \in DOMAIN hook, hook[i].owner = hook[j].owner,
               hook[i] \notin left', hook[j] \in left'
        PROVE  i < j
    <3>1. hook[i] \in OnHook /\ hook[j] \in OnHook /\ hook[i] \notin left
      BY <2>1, <2>2 DEF OnHook, ToSet
    <3>2. hook[i] = Program(hook[i].owner)
      BY <3>1 DEF HookInv, Owned
    <3>3. hook[j] # Program(d)
      <4>1. Program(d).owner = d
        BY ProgramType DEF HookInv
      <4>. QED
        BY <2>1, <2>2, <3>1, <3>2, <4>1
    <3>. QED
      BY <1>2, <2>1, <2>2, <3>1, <3>3 DEF NewestFirst
  <2>. QED
    BY <2>1, <2>2 DEF NewestFirst
<1>. QED
  BY <1>1, <1>2 DEF HookInv, Shape

LEMMA NextNewestFirst == HookInv /\ NewestFirst /\ [Next]_vars => NewestFirst'
<1>. SUFFICES ASSUME HookInv, NewestFirst, [Next]_vars PROVE NewestFirst'
  OBVIOUS
<1>1. CASE UNCHANGED <<kernel, hook, left>>
  BY <1>1 DEF NewestFirst
<1>2. ASSUME NEW d \in Daemons, AttachTo(d) PROVE NewestFirst'
  <2>1. Program(d) \notin left /\ UNCHANGED <<kernel, left>>
    BY <1>2 DEF AttachTo, HookInv, LeftInv, env
  <2>2. Insert(Program(d)) \/ UNCHANGED hook
    BY <1>2 DEF AttachTo
  <2>. QED
    BY <1>1, <2>1, <2>2, InsertInFront
<1>3. ASSUME NEW d \in Daemons, DetachFrom(d) \/ DropLoaded(d) PROVE NewestFirst'
  <2>1. UNCHANGED <<kernel, left>> /\ (Delete(Program(d)) \/ UNCHANGED hook)
    BY <1>3 DEF DetachFrom, DropLoaded, TakeOff, env
  <2>. QED
    BY <1>1, <2>1, DeleteKeepsOrder
<1>4. ASSUME NEW d \in Daemons, Signal(d) \/ Kill(d) PROVE NewestFirst'
  <2>1. (pc[d] # "down" /\ Die(d)) \/ UNCHANGED <<kernel, hook, left>>
    BY <1>4 DEF Signal, Kill, env
  <2>. QED
    BY <1>1, <2>1, DieKeepsOrder
<1>5. CASE Clear
  <2>1. DOMAIN hook' = {}
    BY <1>5 DEF Clear
  <2>. QED
    BY <2>1 DEF NewestFirst
<1>6. ASSUME NEW d \in Daemons, Load(d) \/ Register(d) \/ LeaveLoop(d) \/ ProcessorError \/ Start(d)
      PROVE  UNCHANGED <<kernel, hook, left>>
  BY <1>6 DEF Load, Register, LeaveLoop, ProcessorError, Start, env
<1>7. UNCHANGED vars => UNCHANGED <<kernel, hook, left>>
  BY DEF vars
<1>8. CASE SamplerMain \/ ProcessorMain \/ ProcessorError
  <2>1. PICK d \in Daemons : \/ Load(d) \/ AttachTo(d) \/ Register(d) \/ LeaveLoop(d)
                             \/ DetachFrom(d) \/ DropLoaded(d) \/ ProcessorError
    BY <1>8 DEF Daemons, SamplerMain, SamplerLoad, SamplerAttach, SamplerRegister,
                SamplerLeaveLoop, SamplerDetach, SamplerDrop, ProcessorMain, ProcessorLoad,
                ProcessorAttach, ProcessorRegister, ProcessorLeaveLoop, ProcessorDetach,
                ProcessorDrop
  <2>. QED
    BY <1>1, <1>2, <1>3, <1>6, <2>1
<1>. QED
  BY <1>1, <1>4, <1>5, <1>6, <1>7, <1>8 DEF Next

\* While both daemons are in their loops, packets reach a program that a running
\* daemon maintains: the first on the hook is one.
FirstIsLive ==
  (bare = {} /\ \A d \in Daemons : pc[d] = "loop") => \E p \in Reached : Live(p)

LEMMA FirstProgramLive == HookInv /\ NewestFirst => FirstIsLive
<1>. SUFFICES ASSUME HookInv, NewestFirst, bare = {}, \A d \in Daemons : pc[d] = "loop"
              PROVE  \E p \in Reached : Live(p)
  BY DEF FirstIsLive
<1>1. \A d \in Daemons : Program(d) \in OnHook /\ Program(d) \notin left /\ Program(d).owner = d
  BY ProgramType DEF HookInv, AttachedInv, LeftInv
<1>2. 1 \in DOMAIN hook /\ hook[1] \in OnHook
  <2>1. OnHook # {}
    BY <1>1 DEF Daemons
  <2>2. DOMAIN hook # {} /\ DOMAIN hook = 1..Len(hook) /\ Len(hook) \in Nat
    BY <2>1 DEF OnHook, ToSet, HookInv, Shape
  <2>3. 1 \in DOMAIN hook
    BY <2>2
  <2>. QED
    BY <2>3 DEF OnHook, ToSet
<1>3. hook[1] \in Reached
  BY <1>2 DEF Reached
<1>4. hook[1].owner \in Daemons
  BY <1>2, ProgramType DEF HookInv
<1>5. hook[1] \notin left
  <2>. SUFFICES ASSUME hook[1] \in left PROVE FALSE
    OBVIOUS
  <2>1. kernel = "tc"
    BY DEF HookInv, LeftInv
  <2>2. PICK i \in DOMAIN hook : hook[i] = Program(hook[1].owner)
    BY <1>1, <1>4 DEF OnHook, ToSet
  <2>3. i < 1
    BY <1>1, <1>2, <1>4, <2>1, <2>2 DEF NewestFirst
  <2>4. i \in Nat /\ i >= 1
    BY <2>2 DEF HookInv, Shape
  <2>. QED
    BY <2>3, <2>4
<1>6. Live(hook[1])
  BY <1>2, <1>4, <1>5 DEF HookInv, Owned, Live
<1>. QED
  BY <1>3, <1>6

\* While both daemons are in their loops, on an interface that was not made
\* afresh under either, packets reach a program of a daemon that runs, whatever
\* deaths have left on the hook.
THEOREM FirstProgramIsLive == Spec => []FirstIsLive
<1>1. Init => NewestFirst
  BY DEF Init, NewestFirst
<1>. QED
  BY <1>1, InitHookInv, NextHookInv, NextNewestFirst, FirstProgramLive, PTL DEF Spec

\* LiveProgramReached: so if both settle there, packets end up reaching one.
THEOREM SettledDaemonsAreReached == Spec => LiveProgramReached
<1>. DEFINE Settle == bare = {} /\ \A d \in Daemons : pc[d] = "loop"
            Reach == \E p \in Reached : Live(p)
<1>1. FirstIsLive => (Settle => Reach)
  BY DEF FirstIsLive
<1>2. Spec => [](Settle => Reach)
  BY <1>1, FirstProgramIsLive, PTL
<1>. HIDE DEF Settle, Reach
<1>3. Spec => (<>[]Settle => <>[]Reach)
  BY <1>2, PTL
<1>. QED
  BY <1>3 DEF LiveProgramReached, Settle, Reach

\* TypeOK: what main, the kernel and deaths leave behind stays well formed.
TypeRest == left \subseteq Programs /\ early \subseteq left /\ bare \subseteq Daemons /\ clears \in 0..MaxClears
THEOREM HookTypeCorrect == Spec => []TypeOK
<1>1. Init => TypeRest
  BY DEF Init, TypeRest
<1>2. ASSUME HookInv, TypeRest, [Next]_vars PROVE TypeRest'
  <2>. USE DEF TypeRest, HookInv
  <2>1. HookInv'
    BY <1>2, NextHookInv
  <2>2. left' \subseteq Programs
    BY <2>1 DEF LeftInv, Shape, OnHook, ToSet
  <2>3. ASSUME NEW d \in Daemons, Start(d) \/ Signal(d) \/ Kill(d) PROVE TypeRest'
    BY <1>2, <2>2, <2>3 DEF Start, Signal, Kill, Die, env
  <2>4. CASE Clear
    BY <1>2, <2>2, <2>4 DEF Clear
  <2>5. CASE SamplerMain \/ ProcessorMain \/ ProcessorError
    <3>1. UNCHANGED <<left, early, bare, clears>>
      BY <2>5 DEF SamplerMain, SamplerLoad, SamplerAttach, SamplerRegister,
                  SamplerLeaveLoop, SamplerDetach, SamplerDrop, ProcessorMain, ProcessorLoad,
                  ProcessorAttach, ProcessorRegister, ProcessorLeaveLoop, ProcessorDetach,
                  ProcessorDrop, ProcessorError, Load, AttachTo, Register, LeaveLoop,
                  DetachFrom, DropLoaded, env
    <3>. QED
      BY <1>2, <2>2, <3>1
  <2>6. CASE UNCHANGED vars
    BY <1>2, <2>6 DEF vars
  <2>. QED
    BY <1>2, <2>3, <2>4, <2>5, <2>6 DEF Next
<1>3. HookInv /\ TypeRest => TypeOK
  BY DEF HookInv, Shape, Places, TypeRest, TypeOK
<1>. QED
  BY <1>1, <1>2, <1>3, InitHookInv, NextHookInv, PTL DEF Spec
=============================================================================
