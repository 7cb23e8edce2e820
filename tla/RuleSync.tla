------------------------------ MODULE RuleSync ------------------------------
(***************************************************************************)
(* How a fingerprint rule travels: an HTTP handler of the analyzer         *)
(* (crates/flow-analyzer/src/api.rs) takes the write lock of the rule      *)
(* list, pushes a RuleUpdate on the rules ring and edits the list; the     *)
(* processor daemon (crates/flow-processor/src/main.rs) pops the updates   *)
(* and edits the two BPF maps (crates/flow-ebpf/src/processor.rs) that the *)
(* kernel program reads.                                                   *)
(*                                                                         *)
(* A processor that ends takes its program and the maps along, unless it   *)
(* is killed before Linux 6.6: then its program stays on the hook with     *)
(* them, below that of the next processor (see TcHook), and nobody removes *)
(* it.  The maps here are those of the first program on the hook.          *)
(*                                                                         *)
(* The ring is the queue that ShmRing is proved to implement.  A try_push  *)
(* that loads a stale read_index may refuse although the processor has     *)
(* just popped; refusing is invisible to the processor, so that is the     *)
(* same as refusing before the pop, and a push is refused here exactly     *)
(* when the queue is full.                                                 *)
(***************************************************************************)
EXTENDS Naturals, Sequences, FiniteSets

CONSTANTS Handlers,       \* HTTP requests served at a time
          Ids,            \* rule UUIDs
          KeyOf,          \* the low 32 bits of a UUID, the key of both maps
          Patterns,       \* DPI patterns
          ActionCodes,    \* codes of actions: 0 pass, 1 drop, others a mark
          Fingerprints,   \* what clients POST, actions as ProcessorAction::to_code()
          DELETE,         \* RuleUpdate::DELETE, 0xFFFFFFFF
          RuleCapacity,   \* capacity of the rules ring: 1024 by default
          MaxEntries,     \* MAX_FINGERPRINTS, 256: max_entries of both maps
          MaxRules,       \* bound: length of the analyzer's list
          ReuseIds,       \* do clients POST an id again?
          AnalyzerCrashes, ProcessorCrashes,  \* may each process die?
          Absent, NoHandler, NoRule

Keys == {KeyOf[id] : id \in Ids}
Updates == [id : Ids, pattern : Patterns \cup {Absent}, action : ActionCodes \cup {DELETE}]

ASSUME KeyAssumption == DOMAIN KeyOf = Ids
ASSUME FingerprintAssumption ==
  Fingerprints \subseteq [id : Ids, pattern : Patterns, action : ActionCodes]
ASSUME SizeAssumption == RuleCapacity \in Nat \ {0} /\ MaxEntries \in Nat \ {0} /\ MaxRules \in Nat
ASSUME FlagAssumption == {ReuseIds, AnalyzerCrashes, ProcessorCrashes} \subseteq BOOLEAN
ASSUME NoneAssumption ==
  NoHandler \notin Handlers /\ NoRule \notin Updates /\ Absent \notin Patterns \cup ActionCodes

VARIABLES fps,           \* AnalyzerState.fingerprints: the Vec<DpiFingerprint>
          lock,          \* the handler holding its write lock
          hPc, hReq,     \* a handler: where it is, and its fingerprint
          rules,         \* the rules ring
          fingerprints_map, actions_map,  \* the BPF maps
          left,          \* the maps below: those of the last program left behind,
                         \* and the key its processor was at work on
          procPc, procRule,       \* the processor: where it is, the update popped
          running,       \* its flag, cleared by SIGTERM
          posted,        \* history: fingerprints a POST has carried
          stale          \* history: keys hit by a fault and not updated since

analyzer  == <<fps, lock, hPc, hReq>>
maps      == <<fingerprints_map, actions_map>>
processor == <<maps, left, procPc, procRule, running>>
vars == <<analyzer, rules, processor, posted, stale>>

Empty == [k \in Keys |-> Absent]
NothingLeft == [fingerprints |-> Empty, actions |-> Empty, torn |-> {}]
KeyOfRule(u) == KeyOf[u.id]
DeleteUpdate(id) == [id |-> id, pattern |-> Absent, action |-> DELETE]

Init == /\ fps = <<>> /\ lock = NoHandler
        /\ hPc = [h \in Handlers |-> "idle"] /\ hReq = [h \in Handlers |-> NoRule]
        /\ rules = <<>>
        /\ fingerprints_map = Empty /\ actions_map = Empty /\ left = NothingLeft
        /\ procPc = "down" /\ procRule = NoRule /\ running = TRUE
        /\ posted = {} /\ stale = {}

-----------------------------------------------------------------------------
\* The HTTP handlers.  `let _ = rules_shm.try_push(..)`: a refusal is ignored.
Push(u) ==
  IF Len(rules) < RuleCapacity
  THEN rules' = Append(rules, u) /\ stale' = stale \ {KeyOfRule(u)}
  ELSE UNCHANGED rules /\ stale' = stale \cup {KeyOfRule(u)}

\* Mutant of CreateLock: a read lock would do.
CreateLockShared(h, fp) ==
  /\ hPc[h] = "idle" /\ Len(fps) < MaxRules
  /\ ReuseIds \/ \A p \in posted : p.id # fp.id
  /\ hPc' = [hPc EXCEPT ![h] = "pushCreate"] /\ hReq' = [hReq EXCEPT ![h] = fp]
  /\ posted' = posted \cup {fp}
  /\ UNCHANGED <<fps, lock, rules, processor, stale>>

\* create_fingerprint(fp): take the write lock,
CreateLock(h, fp) ==
  /\ hPc[h] = "idle" /\ lock = NoHandler /\ Len(fps) < MaxRules
  /\ ReuseIds \/ \A p \in posted : p.id # fp.id
  /\ lock' = h
  /\ hPc' = [hPc EXCEPT ![h] = "pushCreate"] /\ hReq' = [hReq EXCEPT ![h] = fp]
  /\ posted' = posted \cup {fp}
  /\ UNCHANGED <<fps, rules, processor, stale>>

\* push the update,
CreatePush(h) ==
  /\ hPc[h] = "pushCreate"
  /\ Push(hReq[h])
  /\ hPc' = [hPc EXCEPT ![h] = "store"]
  /\ UNCHANGED <<fps, lock, hReq, processor, posted>>

\* and only then add the rule to the list, unlock and answer 200.
CreateStore(h) ==
  /\ hPc[h] = "store"
  /\ fps' = Append(fps, hReq[h])
  /\ lock' = NoHandler
  /\ hPc' = [hPc EXCEPT ![h] = "idle"] /\ hReq' = [hReq EXCEPT ![h] = NoRule]
  /\ UNCHANGED <<rules, processor, posted, stale>>

\* Mutant of DeleteRetain: only the first rule with the id is removed.
DeleteRetainFirst(h, id) ==
  /\ hPc[h] = "idle" /\ lock = NoHandler
  /\ \E i \in DOMAIN fps :
       /\ fps[i].id = id /\ \A j \in 1..(i - 1) : fps[j].id # id
       /\ fps' = SubSeq(fps, 1, i - 1) \o SubSeq(fps, i + 1, Len(fps))
  /\ lock' = h
  /\ hPc' = [hPc EXCEPT ![h] = "pushDelete"]
  /\ hReq' = [hReq EXCEPT ![h] = DeleteUpdate(id)]
  /\ UNCHANGED <<rules, processor, posted, stale>>

\* Vec::retain(|f| f.id != id): what is left of the list, in its order.  The
\* one increasing enumeration of the indices kept stands for the loop.
Ascending(S) == {f \in [1..Cardinality(S) -> S] : \A i, j \in DOMAIN f : i < j => f[i] < f[j]}
Retain(list, id) == {[n \in DOMAIN kept |-> list[kept[n]]] :
                       kept \in Ascending({i \in DOMAIN list : list[i].id # id})}

\* delete_fingerprint(id): lock and `retain`; 404 changes nothing,
DeleteRetain(h, id) ==
  /\ hPc[h] = "idle" /\ lock = NoHandler
  /\ \E i \in DOMAIN fps : fps[i].id = id
  /\ fps' \in Retain(fps, id)
  /\ lock' = h
  /\ hPc' = [hPc EXCEPT ![h] = "pushDelete"]
  /\ hReq' = [hReq EXCEPT ![h] = DeleteUpdate(id)]
  /\ UNCHANGED <<rules, processor, posted, stale>>

\* otherwise push the deletion, unlock and answer 204.
DeletePush(h) ==
  /\ hPc[h] = "pushDelete"
  /\ Push(hReq[h])
  /\ lock' = NoHandler
  /\ hPc' = [hPc EXCEPT ![h] = "idle"] /\ hReq' = [hReq EXCEPT ![h] = NoRule]
  /\ UNCHANGED <<fps, processor, posted>>

\* The analyzer dies and is restarted: its list starts empty, and create()
\* finds the ring's file and keeps what is queued.
AnalyzerCrash ==
  /\ AnalyzerCrashes
  /\ fps' = <<>> /\ lock' = NoHandler
  /\ hPc' = [h \in Handlers |-> "idle"] /\ hReq' = [h \in Handlers |-> NoRule]
  /\ stale' = Keys
  /\ UNCHANGED <<rules, processor, posted>>

-----------------------------------------------------------------------------
\* The processor.  Opening the ring, loading the object (fresh maps: nothing
\* is pinned) and attaching, before what is there, end in the main loop.
ProcessorStart ==
  /\ procPc = "down"
  /\ fingerprints_map' = Empty /\ actions_map' = Empty
  /\ procPc' = "outer" /\ running' = TRUE
  /\ UNCHANGED <<analyzer, rules, left, procRule, posted, stale>>

KeysInHand == IF procRule = NoRule THEN {} ELSE {KeyOfRule(procRule)}
Own == [fingerprints |-> fingerprints_map, actions |-> actions_map, torn |-> KeysInHand]
KeysIn(below) == {k \in Keys : below.fingerprints[k] # Absent \/ below.actions[k] # Absent}

\* Mutant of ProcessorGone: the maps are pinned, and outlive the process.
ProcessorGonePinned(below) ==
  /\ procPc' = "down" /\ procRule' = NoRule
  /\ UNCHANGED <<analyzer, rules, maps, left, running, posted, stale>>

\* The processor ends, and the packets meet the maps below.  Stale are the keys
\* of the entries that go, of those that come, and of what it held.
ProcessorGone(below) ==
  /\ stale' = stale \cup KeysIn(Own) \cup KeysIn(below) \cup KeysInHand
  /\ fingerprints_map' = below.fingerprints /\ actions_map' = below.actions /\ left' = below
  /\ procPc' = "down" /\ procRule' = NoRule
  /\ UNCHANGED <<analyzer, rules, running, posted>>

\* Whoever unwinds detaches its program; who is killed may leave it behind.
Unwind == ProcessorGone(left)
ProcessorCrash == ProcessorCrashes /\ procPc # "down" /\ (Unwind \/ ProcessorGone(Own))

\* SIGTERM only clears the flag; the loop notices it after draining the ring.
Signal ==
  /\ ProcessorCrashes /\ procPc # "down" /\ running
  /\ running' = FALSE
  /\ UNCHANGED <<analyzer, rules, maps, left, procPc, procRule, posted, stale>>

\* Mutant of LoopTest: the flag is not looked at.
LoopTestForever ==
  /\ procPc = "outer"
  /\ procPc' = "inner"
  /\ UNCHANGED <<analyzer, rules, maps, left, procRule, running, posted, stale>>

LoopTest ==
  /\ procPc = "outer" /\ running
  /\ procPc' = "inner"
  /\ UNCHANGED <<analyzer, rules, maps, left, procRule, running, posted, stale>>

Detach == procPc = "outer" /\ ~running /\ Unwind

\* Mutant of Pop: the last update stays in the ring.
PopKeepsLast ==
  /\ procPc = "inner" /\ Len(rules) > 1
  /\ procRule' = Head(rules) /\ rules' = Tail(rules)
  /\ procPc' = IF Head(rules).action = DELETE THEN "removePattern" ELSE "insertPattern"
  /\ UNCHANGED <<analyzer, maps, left, running, posted, stale>>

Pop ==
  /\ procPc = "inner" /\ rules # <<>>
  /\ procRule' = Head(rules) /\ rules' = Tail(rules)
  /\ procPc' = IF Head(rules).action = DELETE THEN "removePattern" ELSE "insertPattern"
  /\ UNCHANGED <<analyzer, maps, left, running, posted, stale>>

\* Ok(None) ends the inner loop; the processor sleeps 100 ms.
PopEmpty ==
  /\ procPc = "inner" /\ rules = <<>>
  /\ procPc' = "outer"
  /\ UNCHANGED <<analyzer, rules, maps, left, procRule, running, posted, stale>>

\* A BPF hash map takes a new key only below max_entries.
HasRoom(map, k) == map[k] # Absent \/ Cardinality({j \in Keys : map[j] # Absent}) < MaxEntries

\* write_rule: the pattern first; an error of insert ends the process through `?`.
InsertPattern ==
  /\ procPc = "insertPattern"
  /\ LET k == KeyOfRule(procRule) IN
     IF HasRoom(fingerprints_map, k)
     THEN /\ fingerprints_map' = [fingerprints_map EXCEPT ![k] = procRule.pattern]
          /\ procPc' = "insertAction"
          /\ UNCHANGED <<analyzer, rules, actions_map, left, procRule, running, posted, stale>>
     ELSE Unwind

\* Mutant of InsertAction: BPF_NOEXIST, an action already there stays.
InsertActionOnlyNew ==
  /\ procPc = "insertAction"
  /\ LET k == KeyOfRule(procRule) IN
     actions_map' = [actions_map EXCEPT ![k] = IF @ = Absent THEN procRule.action ELSE @]
  /\ procPc' = "inner" /\ procRule' = NoRule
  /\ UNCHANGED <<analyzer, rules, fingerprints_map, left, running, posted, stale>>

InsertAction ==
  /\ procPc = "insertAction"
  /\ LET k == KeyOfRule(procRule) IN
     IF HasRoom(actions_map, k)
     THEN /\ actions_map' = [actions_map EXCEPT ![k] = procRule.action]
          /\ procPc' = "inner" /\ procRule' = NoRule
          /\ UNCHANGED <<analyzer, rules, fingerprints_map, left, running, posted, stale>>
     ELSE Unwind

\* remove_rule: errors (no such key) are ignored.
RemovePattern ==
  /\ procPc = "removePattern"
  /\ fingerprints_map' = [fingerprints_map EXCEPT ![KeyOfRule(procRule)] = Absent]
  /\ procPc' = "removeAction"
  /\ UNCHANGED <<analyzer, rules, actions_map, left, procRule, running, posted, stale>>

RemoveAction ==
  /\ procPc = "removeAction"
  /\ actions_map' = [actions_map EXCEPT ![KeyOfRule(procRule)] = Absent]
  /\ procPc' = "inner" /\ procRule' = NoRule
  /\ UNCHANGED <<analyzer, rules, fingerprints_map, left, running, posted, stale>>

-----------------------------------------------------------------------------
Request == \E h \in Handlers : \/ \E fp \in Fingerprints : CreateLock(h, fp)
                               \/ \E id \in Ids : DeleteRetain(h, id)
Handle == \E h \in Handlers : CreatePush(h) \/ CreateStore(h) \/ DeletePush(h)
Fault == AnalyzerCrash \/ ProcessorCrash \/ Signal
ProcessorStep == \/ ProcessorStart \/ LoopTest \/ Detach \/ Pop \/ PopEmpty
                 \/ InsertPattern \/ InsertAction \/ RemovePattern \/ RemoveAction

Next == Request \/ Handle \/ Fault \/ ProcessorStep

Spec == Init /\ [][Next]_vars

\* A handler holding the lock runs to its end (it awaits nothing more), and
\* the processor loops forever or is started again (Restart=always).
LiveSpec == Spec /\ WF_vars(Handle) /\ WF_vars(ProcessorStep)
-----------------------------------------------------------------------------
TypeOK == /\ fps \in Seq(Fingerprints) /\ lock \in Handlers \cup {NoHandler}
          /\ hPc \in [Handlers -> {"idle", "pushCreate", "store", "pushDelete"}]
          /\ hReq \in [Handlers -> Updates \cup {NoRule}]
          /\ rules \in Seq(Updates)
          /\ fingerprints_map \in [Keys -> Patterns \cup {Absent}]
          /\ actions_map \in [Keys -> ActionCodes \cup {Absent}]
          /\ left \in [fingerprints : [Keys -> Patterns \cup {Absent}],
                      actions : [Keys -> ActionCodes \cup {Absent}], torn : SUBSET Keys]
          /\ procPc \in {"down", "outer", "inner", "insertPattern", "insertAction",
                         "removePattern", "removeAction"}
          /\ procRule \in Updates \cup {NoRule} /\ running \in BOOLEAN
          /\ posted \subseteq Fingerprints /\ stale \subseteq Keys

\* Of the entries of a list with key k, the last one.
Carries(list, k) == \E i \in DOMAIN list : KeyOfRule(list[i]) = k
Latest(list, k) ==
  LET same == {i \in DOMAIN list : KeyOfRule(list[i]) = k}
  IN  list[CHOOSE i \in same : \A j \in same : j <= i]

\* What the maps hold at key k once every update on its way has been applied ...
Entry(u) == IF u.action = DELETE THEN <<Absent, Absent>> ELSE <<u.pattern, u.action>>
Table == [k \in Keys |-> <<fingerprints_map[k], actions_map[k]>>]
InHand == IF procRule = NoRule THEN <<>> ELSE <<procRule>>
Promised == IF lock # NoHandler /\ hPc[lock] = "pushDelete" THEN <<hReq[lock]>> ELSE <<>>
OnItsWay == InHand \o rules \o Promised
EventualEntry(k) == IF Carries(OnItsWay, k) THEN Entry(Latest(OnItsWay, k)) ELSE Table[k]

\* ... and what the API's list, with the rule being stored, says they should:
\* of several rules with one key the last one posted.
Listed == IF lock # NoHandler /\ hPc[lock] = "store" THEN Append(fps, hReq[lock]) ELSE fps
Wanted(list, k) == IF Carries(list, k)
                   THEN <<Latest(list, k).pattern, Latest(list, k).action>>
                   ELSE <<Absent, Absent>>

\* Rule sync: in every state, the updates on their way are exactly the
\* difference between the analyzer's list and the kernel maps, for each rule
\* but those a fault has hit (a refused push, the death of either process);
\* and such a rule is back in sync from its next accepted update on.
InSync == \A k \in Keys \ stale : EventualEntry(k) = Wanted(Listed, k)

\* The rules ring has one producer at a time, as its algorithm demands,
\* although handlers run on several threads: the write lock serialises them.
SingleProducer ==
  Cardinality({h \in Handlers : hPc[h] \in {"pushCreate", "pushDelete"}}) <= 1

\* Between two updates the maps have the same keys, and each pair of entries
\* comes from one posted rule, of however many versions: no half-applied rule
\* outlives its update, even when a map is full or the processor dies in the
\* middle of one; but for a killed processor whose program stays: that goes on
\* with the half it was given, at that key only, until the next one starts.
MapsPaired ==
  procRule = NoRule =>
    \A k \in Keys :
      \/ fingerprints_map[k] = Absent /\ actions_map[k] = Absent
      \/ \E p \in posted : /\ KeyOfRule(p) = k
                           /\ <<fingerprints_map[k], actions_map[k]>> = <<p.pattern, p.action>>
      \/ procPc = "down" /\ left.torn = {k}

\* It is that half that "packets pass through unmodified", once a processor is
\* gone (flow-processor/CONTEXT.md:55), does not allow, nor any other entry left.
PassesOnceGone == procPc = "down" => fingerprints_map = Empty /\ actions_map = Empty

\* Once insert has put the pattern in, there is room for its action: write_rule
\* never fails halfway because a map is full.
NoHalfInsert == procPc = "insertAction" => HasRoom(actions_map, KeyOfRule(procRule))

\* What the processor keeps of the two maps at every moment: entries of their
\* types, in pairs between two updates, and room for the second half within one.
MapsInv == TypeOK /\ MapsPaired /\ NoHalfInsert

\* If requests and faults cease, the maps come to equal the list (but for the
\* rules a fault hit), and stay so.
EventuallySynced ==
  (<>[][~Request /\ ~Fault]_vars) =>
    <>[](\A k \in Keys \ stale : Table[k] = Wanted(fps, k))

\* A SIGTERM, once the requests cease, ends in a detached processor: the loop
\* leaves the drain and sees the flag.
SignalDetaches ==
  (<>[][~Request]_vars) => [](~running => <>(procPc = "down"))

\* What flow-processor/CONTEXT.md promises without exceptions: once everything
\* is delivered, the kernel's maps are those of the analyzer's rule set.
MapsFollowRules ==
  (procPc = "outer" /\ rules = <<>> /\ lock = NoHandler) =>
    \A k \in Keys : Table[k] = Wanted(fps, k)

\* What its section on graceful shutdown promises: on SIGTERM the processor
\* stops reading from shared memory.
StopsReadingOnSignal == [][Pop => running]_vars
=============================================================================
