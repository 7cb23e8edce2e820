---------------------------- MODULE BoundedFifo ----------------------------
(***************************************************************************)
(* What a ShmRingBuf<T> promises its two users: a bounded first-in         *)
(* first-out queue.  A push takes effect at one instant and only if fewer  *)
(* than Capacity items are queued, a pop hands over the oldest item and    *)
(* removes it in the same instant.  Nothing else, a crash of either user   *)
(* included, changes the queue.  ShmRing implements this specification.    *)
(***************************************************************************)
EXTENDS Naturals, Sequences

CONSTANTS Capacity,   \* number of items the queue holds
          Values      \* the items

VARIABLES queue,      \* the items pushed and not yet popped, oldest first
          delivered   \* every item handed to the consumer, in order

fifoVars == <<queue, delivered>>

FifoInit == /\ queue = <<>>
            /\ delivered = <<>>

Enqueue == /\ Len(queue) < Capacity
           /\ \E v \in Values : queue' = Append(queue, v)
           /\ UNCHANGED delivered

Dequeue == /\ queue # <<>>
           /\ delivered' = Append(delivered, Head(queue))
           /\ queue' = Tail(queue)

FifoNext == Enqueue \/ Dequeue

FifoSpec == FifoInit /\ [][FifoNext]_fifoVars
=============================================================================
