------------------------------ MODULE ShmRing ------------------------------
(***************************************************************************)
(* The single-producer single-consumer ring buffer of                      *)
(* crates/flow-common/src/shm.rs, at the grain of its shared-memory        *)
(* accesses.  One process calls try_push, another try_pop; they share the  *)
(* two indices of the Header and the slots, and nothing else.              *)
(*                                                                         *)
(* Each index is stored by one side only.  The other side's Acquire load   *)
(* may return an older value than the last one stored, but never one older *)
(* than what it has already observed (coherence); pSeen and cSeen are      *)
(* these floors, counted without wrapping.  The floor outlives a crash:    *)
(* the restarted process loads its own index first, with Acquire, and so   *)
(* sees at least what its predecessor saw before it stored that index.     *)
(*                                                                         *)
(* A slot is larger than a machine word, so writing it takes two steps,    *)
(* between which its content is Torn.                                      *)
(***************************************************************************)
EXTENDS Naturals, Sequences

CONSTANTS Capacity,     \* Header.capacity
          IndexSpan,    \* number of values of an index: 2^64 in the code
          MaxItems,     \* bound: items pushed in a behaviour
          MaxCrashes,   \* bound: crashes of the two processes in a behaviour
          Values,       \* the items
          NoItem,       \* a slot of the zero-filled file
          Torn          \* a slot half overwritten

\* A usable ring has a slot (ShmCreate shows when create yields none), an
\* index can tell a full ring from an empty one, and wrapping does not
\* disturb `write % capacity`: either the capacity divides 2^64, as the
\* default 1024 and 65536 do, or fewer than 2^64 items are ever pushed.
ASSUME CapacityAssumption == Capacity \in Nat \ {0}
ASSUME SpanAssumption == IndexSpan \in Nat /\ IndexSpan > Capacity
ASSUME BoundsAssumption == MaxItems \in Nat /\ MaxCrashes \in Nat
ASSUME WrapAssumption == (IndexSpan % Capacity) = 0 \/ MaxItems <= IndexSpan
ASSUME ValuesAssumption == NoItem \notin Values /\ Torn \notin Values

VARIABLES write_index,  \* Header.write_index
          read_index,   \* Header.read_index
          slots,        \* the data region
          pPc, pItem,   \* the producer: where in try_push, and its argument
          pSeen,        \* the producer's floor for loads of read_index
          cPc, cItem,   \* the consumer: where in try_pop, and what it read
          cSeen,        \* the consumer's floor for loads of write_index
          sent,         \* history: the items published by try_push
          delivered,    \* history: the items returned by try_pop
          crashes       \* number of crashes so far

shared   == <<write_index, read_index, slots>>
producer == <<pPc, pItem, pSeen>>
consumer == <<cPc, cItem, cSeen>>
vars == <<shared, producer, consumer, sent, delivered, crashes>>

W == Len(sent)                   \* write_index without wrapping
R == Len(delivered)              \* read_index without wrapping
SlotOf(index) == index % Capacity
Occupied(write, read) == (write + IndexSpan - read) % IndexSpan  \* wrapping_sub
\* Mutant of NextIndex: the index does not wrap.
NextIndexUnwrapped(index) == index + 1

NextIndex(index) == (index + 1) % IndexSpan                      \* wrapping_add

Init == /\ write_index = 0 /\ read_index = 0
        /\ slots = [i \in 0..(Capacity - 1) |-> NoItem]
        /\ pPc = "idle" /\ pItem = NoItem /\ pSeen = 0
        /\ cPc = "idle" /\ cItem = NoItem /\ cSeen = 0
        /\ sent = <<>> /\ delivered = <<>> /\ crashes = 0

-----------------------------------------------------------------------------
\* Mutant of PushLoad: `>` for `>=` in the full test.
PushLoadOffByOne(v, r) ==
  /\ pPc = "idle" /\ W < MaxItems
  /\ pSeen' = r
  /\ IF Occupied(write_index, r % IndexSpan) > Capacity
     THEN UNCHANGED <<pPc, pItem>>
     ELSE pPc' = "write" /\ pItem' = v
  /\ UNCHANGED <<shared, consumer, sent, delivered, crashes>>

\* try_push(v) loads the indices; r is the (unwrapped) read index it obtains.
\* It returns Ok(false) when the ring looks full, else it will write the slot.
PushLoad(v, r) ==
  /\ pPc = "idle" /\ W < MaxItems
  /\ pSeen' = r
  /\ IF Occupied(write_index, r % IndexSpan) >= Capacity
     THEN UNCHANGED <<pPc, pItem>>
     ELSE pPc' = "write" /\ pItem' = v
  /\ UNCHANGED <<shared, consumer, sent, delivered, crashes>>

PushWriteFirstHalf ==
  /\ pPc = "write"
  /\ slots' = [slots EXCEPT ![SlotOf(write_index)] = Torn]
  /\ pPc' = "torn"
  /\ UNCHANGED <<write_index, read_index, pItem, pSeen, consumer, sent, delivered, crashes>>

PushWriteSecondHalf ==
  /\ pPc = "torn"
  /\ slots' = [slots EXCEPT ![SlotOf(write_index)] = pItem]
  /\ pPc' = "publish"
  /\ UNCHANGED <<write_index, read_index, pItem, pSeen, consumer, sent, delivered, crashes>>

\* The Release store of write_index; try_push returns Ok(true).
PushPublish ==
  /\ pPc = "publish"
  /\ write_index' = NextIndex(write_index)
  /\ sent' = Append(sent, pItem)
  /\ pPc' = "idle"
  /\ UNCHANGED <<read_index, slots, pItem, pSeen, consumer, delivered, crashes>>

\* Mutants of PopLoad: no empty test; a test that leaves the last item behind.
PopLoadUnchecked(w) ==
  /\ cPc = "idle"
  /\ cSeen' = w /\ cPc' = "read"
  /\ UNCHANGED <<shared, producer, cItem, sent, delivered, crashes>>

PopLoadLeavesLast(w) ==
  /\ cPc = "idle"
  /\ cSeen' = w
  /\ cPc' = IF Occupied(w % IndexSpan, read_index) <= 1 THEN "idle" ELSE "read"
  /\ UNCHANGED <<shared, producer, cItem, sent, delivered, crashes>>

\* try_pop() loads the indices; w is the (unwrapped) write index it obtains.
\* It returns Ok(None) when they are equal.
PopLoad(w) ==
  /\ cPc = "idle"
  /\ cSeen' = w
  /\ cPc' = IF read_index = w % IndexSpan THEN "idle" ELSE "read"
  /\ UNCHANGED <<shared, producer, cItem, sent, delivered, crashes>>

\* Mutant of PopRead: the slot after the right one.
PopReadNextSlot ==
  /\ cPc = "read"
  /\ cItem' = slots[SlotOf(read_index + 1)]
  /\ cPc' = "commit"
  /\ UNCHANGED <<shared, producer, cSeen, sent, delivered, crashes>>

PopRead ==
  /\ cPc = "read"
  /\ cItem' = slots[SlotOf(read_index)]
  /\ cPc' = "commit"
  /\ UNCHANGED <<shared, producer, cSeen, sent, delivered, crashes>>

\* Mutant of PopCommit: the item is returned, the index not stored.
PopCommitForgetsIndex ==
  /\ cPc = "commit"
  /\ delivered' = Append(delivered, cItem)
  /\ cPc' = "idle"
  /\ UNCHANGED <<shared, producer, cItem, cSeen, sent, crashes>>

\* The Release store of read_index; try_pop returns Ok(Some(item)).
PopCommit ==
  /\ cPc = "commit"
  /\ read_index' = NextIndex(read_index)
  /\ delivered' = Append(delivered, cItem)
  /\ cPc' = "idle"
  /\ UNCHANGED <<write_index, slots, producer, cItem, cSeen, sent, crashes>>

\* A process may die anywhere, and is started again: create or open maps the
\* existing file and touches neither the header nor the slots.
ProducerCrash ==
  /\ pPc # "down" /\ crashes < MaxCrashes
  /\ pPc' = "down" /\ crashes' = crashes + 1
  /\ UNCHANGED <<shared, pItem, pSeen, consumer, sent, delivered>>

ProducerRestart ==
  /\ pPc = "down" /\ pPc' = "idle"
  /\ UNCHANGED <<shared, pItem, pSeen, consumer, sent, delivered, crashes>>

ConsumerCrash ==
  /\ cPc # "down" /\ crashes < MaxCrashes
  /\ cPc' = "down" /\ crashes' = crashes + 1
  /\ UNCHANGED <<shared, producer, cItem, cSeen, sent, delivered>>

\* Mutant of ConsumerRestart: opening the ring resets the index.
ConsumerRestartResets ==
  /\ cPc = "down" /\ cPc' = "idle"
  /\ read_index' = 0
  /\ UNCHANGED <<write_index, slots, producer, cItem, cSeen, sent, delivered, crashes>>

ConsumerRestart ==
  /\ cPc = "down" /\ cPc' = "idle"
  /\ UNCHANGED <<shared, producer, cItem, cSeen, sent, delivered, crashes>>

ProducerNext == \/ \E v \in Values, r \in pSeen..R : PushLoad(v, r)
                \/ PushWriteFirstHalf \/ PushWriteSecondHalf \/ PushPublish
                \/ ProducerCrash \/ ProducerRestart

ConsumerNext == \/ \E w \in cSeen..W : PopLoad(w)
                \/ PopRead \/ PopCommit
                \/ ConsumerCrash \/ ConsumerRestart

Next == ProducerNext \/ ConsumerNext

Spec == Init /\ [][Next]_vars

\* The consumers of both rings poll in an endless loop (analyzer main.rs:98,
\* processor main.rs:99), a store becomes visible in finite time, and a dead
\* process is restarted (docker restarts, systemd Restart=always).  Nothing
\* obliges the producer to push, only to finish a try_push it has begun.
Fairness == /\ WF_vars(PopLoad(W)) /\ WF_vars(PopRead) /\ WF_vars(PopCommit)
            /\ WF_vars(ConsumerRestart)
            /\ WF_vars(PushWriteFirstHalf \/ PushWriteSecondHalf \/ PushPublish)

LiveSpec == Spec /\ Fairness

-----------------------------------------------------------------------------
TypeOK == /\ write_index \in 0..(IndexSpan - 1)
          /\ read_index \in 0..(IndexSpan - 1)
          /\ slots \in [0..(Capacity - 1) -> Values \cup {NoItem, Torn}]
          /\ pPc \in {"idle", "write", "torn", "publish", "down"}
          /\ cPc \in {"idle", "read", "commit", "down"}
          /\ pItem \in Values \cup {NoItem}
          /\ cItem \in Values \cup {NoItem, Torn}
          /\ pSeen \in Nat /\ cSeen \in Nat
          /\ sent \in Seq(Values)
          /\ delivered \in Seq(Values \cup {NoItem, Torn})
          /\ crashes \in 0..MaxCrashes

\* No item is lost, duplicated, reordered or torn on the way: what try_pop has
\* returned is a prefix of what try_push has published (shm.rs try_push/try_pop).
DeliveredIsPrefix ==
  /\ R <= W
  /\ \A i \in 1..R : delivered[i] = sent[i]

\* A published item stays whole in its slot until it is popped, whatever the
\* producer writes next and wherever either process crashes.
PublishedIntact == \A i \in (R + 1)..W : slots[SlotOf(i - 1)] = sent[i]

\* The plain (non-atomic) accesses to the data region never race: while the
\* producer writes a slot the consumer is not reading the same one.
NoDataRace == (pPc \in {"write", "torn"} /\ cPc = "read")
                 => SlotOf(write_index) # SlotOf(read_index)

\* The wrapped indices always tell the true fill level, so a full ring is never
\* taken for an empty one, nor the reverse, and never more than Capacity items
\* are queued.
IndicesTellFill ==
  /\ Occupied(write_index, read_index) = W - R
  /\ W - R <= Capacity
  /\ (read_index = write_index) <=> (W = R)

\* The parts of the inductive invariant that the properties above do not say:
\* what each side has observed, and what it may rely on inside a call.
Observed == /\ write_index = (W % IndexSpan) /\ read_index = (R % IndexSpan)
            /\ pSeen <= R /\ R <= cSeen /\ cSeen <= W
            /\ W <= pSeen + Capacity /\ W <= MaxItems

InPush == /\ pPc \in {"write", "torn", "publish"} => /\ W < pSeen + Capacity
                                                      /\ W < MaxItems
                                                      /\ pItem \in Values
          /\ pPc = "publish" => slots[SlotOf(W)] = pItem

InPop == /\ cPc \in {"read", "commit"} => R < cSeen
         /\ cPc = "commit" => cItem = sent[R + 1]

IInv == /\ TypeOK /\ Observed /\ InPush /\ InPop
        /\ DeliveredIsPrefix /\ PublishedIntact

\* The ring implements the abstract queue: the queue is the window of slots
\* between the two indices, a publication enqueues, a commit dequeues, and
\* every other step (loads, slot accesses, crashes, restarts) changes nothing.
queueView == [i \in 1..(W - R) |-> slots[SlotOf(R + i - 1)]]
Fifo == INSTANCE BoundedFifo WITH queue <- queueView
ImplementsFifo == Fifo!FifoSpec

\* Every published item is eventually delivered, although loads may be stale
\* for a while and both processes may crash (finitely often).
EventuallyDelivered == \A i \in 1..MaxItems : (W >= i) ~> (R >= i)
=============================================================================
