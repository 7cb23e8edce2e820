--------------------------- MODULE ShmRing_proofs ---------------------------
(***************************************************************************)
(* Proofs about ShmRing for every capacity, index width, item set, and     *)
(* number of pushes and crashes.  The inductive invariant is IInv: it adds *)
(* to the safety properties what each side has observed of the other's     *)
(* index and what it may rely on between two accesses of one call.         *)
(***************************************************************************)
EXTENDS ShmRing, Integers, SequenceTheorems, TLAPS

-----------------------------------------------------------------------------
\* Facts about indices that wrap at a span and address slots modulo a capacity,
\* as the header of the segment keeps them.

\* Division and remainder decompose a natural number.
LEMMA DivMod ==
  ASSUME NEW a \in Nat, NEW c \in Nat \ {0}
  PROVE  a = c * (a \div c) + (a % c) /\ a \div c \in Nat /\ a % c \in 0..(c - 1)
  OBVIOUS

\* The decomposition is unique.
LEMMA ModUnique ==
  ASSUME NEW x \in Int, NEW q \in Int, NEW r \in Nat, NEW c \in Nat \ {0},
         r < c, x = c * q + r
  PROVE  x % c = r
  OBVIOUS

\* A number below the modulus is its own remainder.
LEMMA ModSmall ==
  ASSUME NEW a \in Nat, NEW c \in Nat \ {0}, a < c
  PROVE  a % c = a
  OBVIOUS

\* wrapping_sub of two wrapped indices is the true distance, if that is below
\* the span.
LEMMA WrapSub ==
  ASSUME NEW a \in Nat, NEW b \in Nat, NEW s \in Nat \ {0}, b <= a, a - b < s
  PROVE  ((a % s) + s - (b % s)) % s = a - b
<1>. DEFINE d == (a \div s) - (b \div s)
            x == (a % s) + s - (b % s)
            k == 1 - d
            n == a - b
<1>1. a = s * (a \div s) + (a % s) /\ a \div s \in Nat /\ a % s \in Nat
  BY DivMod
<1>2. b = s * (b \div s) + (b % s) /\ b \div s \in Nat /\ b % s \in Nat
  BY DivMod
<1>3. x = s * k + n
  BY <1>1, <1>2
<1>4. k \in Int /\ x \in Int /\ n \in Nat /\ n < s
  BY <1>1, <1>2
<1>. HIDE DEF d, x, k, n
<1>5. x % s = n
  BY <1>3, <1>4, ModUnique
<1>. QED
  BY <1>5 DEF x, n

\* Incrementing a wrapped index is wrapping the incremented index.
LEMMA WrapSucc ==
  ASSUME NEW a \in Nat, NEW s \in Nat \ {0}
  PROVE  ((a % s) + 1) % s = (a + 1) % s
<1>. DEFINE b == a + 1
            r == b % s
            q == (b \div s) - (a \div s)
            x == (a % s) + 1
<1>1. a = s * (a \div s) + (a % s) /\ a \div s \in Nat /\ a % s \in Nat
  BY DivMod
<1>2. b \in Nat
  OBVIOUS
<1>3. b = s * (b \div s) + r /\ b \div s \in Nat /\ r \in 0..(s - 1)
  <2>. HIDE DEF b
  <2>. QED BY <1>2, DivMod
<1>4. x = s * q + r /\ x \in Int /\ q \in Int
  BY <1>1, <1>3
<1>. HIDE DEF b, r, q, x
<1>5. x % s = r
  BY <1>3, <1>4, ModUnique
<1>. QED
  BY <1>5 DEF x, r, b

\* Two indices less than a capacity apart address different slots.
LEMMA SlotsDistinct ==
  ASSUME NEW a \in Nat, NEW b \in Nat, NEW c \in Nat \ {0}, a < b, b < a + c
  PROVE  a % c # b % c
<1>. DEFINE d == (b \div c) - (a \div c)
<1>1. a = c * (a \div c) + (a % c) /\ a \div c \in Nat /\ a % c \in Nat
  BY DivMod
<1>2. b = c * (b \div c) + (b % c) /\ b \div c \in Nat /\ b % c \in Nat
  BY DivMod
<1>3. b - a = c * d + ((b % c) - (a % c)) /\ d \in Int
  BY <1>1, <1>2
<1>. HIDE DEF d
<1>4. SUFFICES ASSUME a % c = b % c PROVE FALSE
  OBVIOUS
<1>5. b - a = c * d
  BY <1>1, <1>2, <1>3, <1>4
<1>6. CASE d >= 1
  <2>1. c * d >= c BY <1>3, <1>6
  <2>. QED BY <2>1, <1>5
<1>7. CASE d <= 0
  <2>1. c * d <= 0 BY <1>3, <1>7
  <2>. QED BY <2>1, <1>5
<1>. QED
  BY <1>3, <1>6, <1>7

\* If the capacity divides the span, wrapping an index keeps its slot.
LEMMA WrapSlot ==
  ASSUME NEW a \in Nat, NEW s \in Nat \ {0}, NEW c \in Nat \ {0}, s % c = 0
  PROVE  (a % s) % c = a % c
<1>. DEFINE w == a % s
            k == (s \div c) * (a \div s)
            e == w \div c
            q == k + e
            r == w % c
<1>1. a = s * (a \div s) + w /\ a \div s \in Nat /\ w \in Nat
  BY DivMod
<1>2. s = c * (s \div c) /\ s \div c \in Nat
  BY DivMod
<1>3. s * (a \div s) = c * k /\ k \in Nat
  <2>. DEFINE m == s \div c
              n == a \div s
  <2>1. m \in Nat /\ n \in Nat /\ s = c * m
    BY <1>1, <1>2
  <2>. HIDE DEF m, n
  <2>2. s * n = c * (m * n) /\ m * n \in Nat
    BY <2>1
  <2>. QED BY <2>2 DEF m, n
<1>4. w = c * e + r /\ e \in Nat /\ r \in 0..(c - 1)
  <2>. HIDE DEF w
  <2>. QED BY <1>1, DivMod
<1>. HIDE DEF w, k, e, r
<1>5. a = c * q + r /\ q \in Int
  BY <1>1, <1>3, <1>4
<1>. HIDE DEF q
<1>6. a % c = r
  BY <1>4, <1>5, ModUnique
<1>. QED
  BY <1>6 DEF r, w

-----------------------------------------------------------------------------
USE CapacityAssumption, SpanAssumption, BoundsAssumption

\* Facts about indices, in the terms of the module.

LEMMA SpanPositive == IndexSpan \in Nat \ {0}
  OBVIOUS

\* Addressing a slot by the wrapped index or by the true one is the same, as
\* long as no more than MaxItems items have been pushed.
LEMMA SlotOfWrapped ==
  ASSUME NEW n \in Nat, n < MaxItems
  PROVE  SlotOf(n % IndexSpan) = SlotOf(n)
<1>1. CASE (IndexSpan % Capacity) = 0
  BY <1>1, SpanPositive, WrapSlot DEF SlotOf
<1>2. CASE MaxItems <= IndexSpan
  <2>1. n < IndexSpan
    BY <1>2
  <2>2. (n % IndexSpan) = n
    BY <2>1, SpanPositive, ModSmall
  <2>. QED BY <2>2
<1>. QED
  BY <1>1, <1>2, WrapAssumption

LEMMA SlotInRange ==
  ASSUME NEW n \in Nat
  PROVE  SlotOf(n) \in 0..(Capacity - 1)
  BY DivMod DEF SlotOf

\* Two items that fit in the ring together are in different slots.
LEMMA SlotsApart ==
  ASSUME NEW m \in Nat, NEW n \in Nat, m # n, m < n + Capacity, n < m + Capacity
  PROVE  SlotOf(m) # SlotOf(n)
<1>1. CASE m < n
  BY <1>1, SlotsDistinct DEF SlotOf
<1>2. CASE n < m
  BY <1>2, SlotsDistinct DEF SlotOf
<1>. QED
  BY <1>1, <1>2

LEMMA OccupiedIsDistance ==
  ASSUME NEW w \in Nat, NEW r \in Nat, r <= w, w <= r + Capacity
  PROVE  Occupied(w % IndexSpan, r % IndexSpan) = w - r
<1>1. w - r < IndexSpan
  OBVIOUS
<1>. QED
  BY <1>1, SpanPositive, WrapSub DEF Occupied

LEMMA IndexEquality ==
  ASSUME NEW w \in Nat, NEW r \in Nat, r <= w, w <= r + Capacity
  PROVE  ((r % IndexSpan) = (w % IndexSpan)) <=> (r = w)
<1>1. ASSUME (r % IndexSpan) = (w % IndexSpan) PROVE r = w
  <2>. DEFINE i == r % IndexSpan
  <2>1. Occupied(i, i) = w - r
    BY <1>1, OccupiedIsDistance
  <2>2. i \in Nat
    BY DivMod
  <2>3. Occupied(i, i) = (IndexSpan % IndexSpan)
    <3>. HIDE DEF i
    <3>. QED BY <2>2 DEF Occupied
  <2>4. (IndexSpan % IndexSpan) = 0
    OBVIOUS
  <2>. HIDE DEF i
  <2>. QED BY <2>1, <2>3, <2>4
<1>. QED
  BY <1>1

LEMMA NextIndexIsWrapped ==
  ASSUME NEW n \in Nat
  PROVE  NextIndex(n % IndexSpan) = ((n + 1) % IndexSpan)
  BY SpanPositive, WrapSucc DEF NextIndex

LEMMA WrappedInRange ==
  ASSUME NEW n \in Nat
  PROVE  (n % IndexSpan) \in 0..(IndexSpan - 1)
  BY SpanPositive, DivMod

-----------------------------------------------------------------------------
\* The initial state satisfies the inductive invariant.
LEMMA InitIInv == Init => IInv
<1>. SUFFICES ASSUME Init PROVE IInv
  OBVIOUS
<1>. USE DEF Init
<1>1. W = 0 /\ R = 0
  BY DEF W, R
<1>2. TypeOK
  BY DEF TypeOK
<1>3. Observed
  BY <1>1 DEF Observed
<1>4. InPush /\ InPop
  BY DEF InPush, InPop
<1>5. DeliveredIsPrefix /\ PublishedIntact
  BY <1>1 DEF DeliveredIsPrefix, PublishedIntact
<1>. QED
  BY <1>1, <1>2, <1>3, <1>4, <1>5 DEF IInv

\* Where the two indices and the two floors lie, in every state of IInv.
LEMMA Window ==
  ASSUME IInv
  PROVE  /\ W \in Nat /\ R \in Nat /\ pSeen \in Nat /\ cSeen \in Nat
         /\ pSeen <= R /\ R <= cSeen /\ cSeen <= W
         /\ W <= pSeen + Capacity /\ W <= MaxItems
         /\ write_index = (W % IndexSpan) /\ read_index = (R % IndexSpan)
  BY DEF IInv, Observed, TypeOK, W, R

-----------------------------------------------------------------------------
\* Each step of the producer preserves the inductive invariant.
LEMMA PushLoadStep ==
  ASSUME IInv, NEW v \in Values, NEW r \in pSeen..R, PushLoad(v, r)
  PROVE  IInv'
<1>. USE DEF PushLoad, shared, consumer
<1>1. W' = W /\ R' = R
  BY DEF W, R
<1>2. r \in Nat /\ r <= R /\ W <= r + Capacity /\ r <= W
  BY Window
<1>3. TypeOK'
  BY <1>2 DEF IInv, TypeOK
<1>4. Observed'
  BY <1>1, <1>2 DEF IInv, Observed
<1>5. InPush'
  <2>1. CASE Occupied(write_index, r % IndexSpan) >= Capacity
    BY <1>1, <1>2, <2>1, Window DEF IInv, InPush
  <2>2. CASE ~(Occupied(write_index, r % IndexSpan) >= Capacity)
    <3>1. Occupied(write_index, r % IndexSpan) = W - r
      BY <1>2, Window, OccupiedIsDistance
    <3>2. W < r + Capacity
      BY <1>2, <2>2, <3>1, Window
    <3>. QED
      BY <1>1, <2>2, <3>2 DEF InPush
  <2>. QED
    BY <2>1, <2>2
<1>6. InPop'
  BY <1>1 DEF IInv, InPop
<1>7. DeliveredIsPrefix' /\ PublishedIntact'
  BY <1>1 DEF IInv, DeliveredIsPrefix, PublishedIntact
<1>. QED
  BY <1>3, <1>4, <1>5, <1>6, <1>7 DEF IInv

LEMMA PushWriteStep ==
  ASSUME IInv, PushWriteFirstHalf \/ PushWriteSecondHalf
  PROVE  IInv'
<1>. USE DEF PushWriteFirstHalf, PushWriteSecondHalf, shared, consumer
<1>1. /\ W' = W /\ R' = R
      /\ pPc \in {"write", "torn"}
      /\ UNCHANGED <<write_index, read_index, pItem, pSeen, cPc, cItem, cSeen,
                     sent, delivered, crashes>>
  BY DEF W, R
<1>2. W < pSeen + Capacity /\ W < MaxItems /\ pItem \in Values
  BY <1>1 DEF IInv, InPush
<1>3. SlotOf(write_index) = SlotOf(W)
  BY <1>2, Window, SlotOfWrapped
<1>4. PICK x \in Values \cup {Torn} :
        /\ slots' = [slots EXCEPT ![SlotOf(W)] = x]
        /\ pPc' = "torn" \/ (pPc' = "publish" /\ x = pItem)
  BY <1>2, <1>3
<1>5. SlotOf(W) \in 0..(Capacity - 1)
  BY Window, SlotInRange
<1>6. slots \in [0..(Capacity - 1) -> Values \cup {NoItem, Torn}]
  BY DEF IInv, TypeOK
<1>7. TypeOK'
  BY <1>1, <1>4, <1>6 DEF IInv, TypeOK
<1>8. Observed'
  BY <1>1 DEF IInv, Observed
<1>9. InPush'
  BY <1>1, <1>2, <1>4, <1>5, <1>6 DEF InPush
<1>10. InPop' /\ DeliveredIsPrefix'
  BY <1>1 DEF IInv, InPop, DeliveredIsPrefix
<1>11. PublishedIntact'
  <2>1. SUFFICES ASSUME NEW i \in (R + 1)..W PROVE slots'[SlotOf(i - 1)] = sent[i]
    BY <1>1 DEF PublishedIntact
  <2>2. i - 1 \in Nat /\ i - 1 # W /\ i - 1 < W + Capacity /\ W < (i - 1) + Capacity
    BY <1>2, Window
  <2>3. SlotOf(i - 1) # SlotOf(W)
    BY <2>2, Window, SlotsApart
  <2>4. slots[SlotOf(i - 1)] = sent[i]
    BY DEF IInv, PublishedIntact
  <2>. QED
    BY <1>4, <1>6, <2>2, <2>3, <2>4, SlotInRange
<1>. QED
  BY <1>7, <1>8, <1>9, <1>10, <1>11 DEF IInv

LEMMA PushPublishStep ==
  ASSUME IInv, PushPublish
  PROVE  IInv'
<1>. USE DEF PushPublish, consumer
<1>1. /\ W < pSeen + Capacity /\ W < MaxItems /\ pItem \in Values
      /\ slots[SlotOf(W)] = pItem
  BY DEF IInv, InPush
<1>2. sent \in Seq(Values) /\ delivered \in Seq(Values \cup {NoItem, Torn})
  BY DEF IInv, TypeOK
<1>3. W' = W + 1 /\ R' = R
  BY <1>2 DEF W, R
<1>4. sent'[W + 1] = pItem /\ \A i \in 1..W : sent'[i] = sent[i]
  BY <1>1, <1>2 DEF W
<1>5. write_index' = ((W + 1) % IndexSpan)
  BY Window, NextIndexIsWrapped
<1>6. TypeOK'
  <2>1. write_index' \in 0..(IndexSpan - 1)
    <3>1. W + 1 \in Nat
      BY Window
    <3>. QED
      BY <1>5, <3>1, WrappedInRange
  <2>2. sent' \in Seq(Values)
    BY <1>1, <1>2
  <2>. QED
    BY <2>1, <2>2 DEF IInv, TypeOK
<1>7. Observed'
  BY <1>1, <1>3, <1>5, Window DEF Observed
<1>8. InPush'
  BY DEF InPush
<1>9. InPop'
  <2>1. R < cSeen => R + 1 \in 1..W
    BY Window
  <2>. QED
    BY <1>3, <1>4, <2>1 DEF IInv, InPop
<1>10. DeliveredIsPrefix'
  <2>1. R <= W + 1 /\ \A i \in 1..R : i \in 1..W
    BY Window
  <2>2. \A i \in 1..R : delivered[i] = sent[i]
    BY DEF IInv, DeliveredIsPrefix
  <2>. QED
    BY <1>3, <1>4, <2>1, <2>2 DEF DeliveredIsPrefix
<1>11. PublishedIntact'
  <2>1. SUFFICES ASSUME NEW i \in (R + 1)..(W + 1) PROVE slots[SlotOf(i - 1)] = sent'[i]
    BY <1>3 DEF PublishedIntact
  <2>2. CASE i = W + 1
    <3>1. i - 1 = W
      BY <2>2, Window
    <3>. QED
      BY <1>1, <1>4, <2>2, <3>1
  <2>3. CASE i # W + 1
    <3>1. i \in (R + 1)..W /\ i \in 1..W
      BY <2>3, Window
    <3>. QED
      BY <3>1, <1>4 DEF IInv, PublishedIntact
  <2>. QED
    BY <2>2, <2>3
<1>. QED
  BY <1>6, <1>7, <1>8, <1>9, <1>10, <1>11 DEF IInv

-----------------------------------------------------------------------------
\* Each step of the consumer preserves the inductive invariant.
LEMMA PopLoadStep ==
  ASSUME IInv, NEW w \in cSeen..W, PopLoad(w)
  PROVE  IInv'
<1>. USE DEF PopLoad, shared, producer
<1>1. W' = W /\ R' = R
  BY DEF W, R
<1>2. w \in Nat /\ R <= w /\ w <= W /\ w <= R + Capacity
  BY Window
<1>3. TypeOK'
  BY <1>2 DEF IInv, TypeOK
<1>4. Observed'
  BY <1>1, <1>2 DEF IInv, Observed
<1>5. InPop'
  <2>1. cPc' = "read" => R < w
    BY <1>2, Window, IndexEquality
  <2>. QED
    BY <1>1, <2>1 DEF InPop
<1>6. InPush' /\ DeliveredIsPrefix' /\ PublishedIntact'
  BY <1>1 DEF IInv, InPush, DeliveredIsPrefix, PublishedIntact
<1>. QED
  BY <1>3, <1>4, <1>5, <1>6 DEF IInv

LEMMA PopReadStep ==
  ASSUME IInv, PopRead
  PROVE  IInv'
<1>. USE DEF PopRead, shared, producer
<1>1. W' = W /\ R' = R
  BY DEF W, R
<1>2. R < cSeen
  BY DEF IInv, InPop
<1>3. SlotOf(read_index) = SlotOf(R)
  BY <1>2, Window, SlotOfWrapped
<1>4. cItem' = sent[R + 1]
  <2>1. R + 1 \in (R + 1)..W /\ (R + 1) - 1 = R
    BY <1>2, Window
  <2>. QED
    BY <1>3, <2>1 DEF IInv, PublishedIntact
<1>5. TypeOK'
  <2>1. cItem' \in Values
    <3>1. sent \in Seq(Values)
      BY DEF IInv, TypeOK
    <3>2. R + 1 \in 1..Len(sent)
      BY <1>2, Window DEF W
    <3>. QED
      BY ONLY <1>4, <3>1, <3>2
  <2>. QED
    BY <2>1 DEF IInv, TypeOK
<1>6. InPop'
  BY <1>1, <1>2, <1>4 DEF InPop
<1>7. Observed' /\ InPush' /\ DeliveredIsPrefix' /\ PublishedIntact'
  BY <1>1 DEF IInv, Observed, InPush, DeliveredIsPrefix, PublishedIntact
<1>. QED
  BY <1>5, <1>6, <1>7 DEF IInv

LEMMA PopCommitStep ==
  ASSUME IInv, PopCommit
  PROVE  IInv'
<1>. USE DEF PopCommit, producer
<1>1. R < cSeen /\ cItem = sent[R + 1]
  BY DEF IInv, InPop
<1>2. sent \in Seq(Values) /\ delivered \in Seq(Values \cup {NoItem, Torn})
  BY DEF IInv, TypeOK
<1>3. W' = W /\ R' = R + 1
  BY <1>2 DEF W, R
<1>4. delivered'[R + 1] = cItem /\ \A i \in 1..R : delivered'[i] = delivered[i]
  BY <1>2 DEF R
<1>5. read_index' = ((R + 1) % IndexSpan)
  BY Window, NextIndexIsWrapped
<1>6. TypeOK'
  <2>1. read_index' \in 0..(IndexSpan - 1)
    <3>1. R + 1 \in Nat
      BY Window
    <3>. QED
      BY <1>5, <3>1, WrappedInRange
  <2>2. delivered' \in Seq(Values \cup {NoItem, Torn})
    BY <1>2 DEF IInv, TypeOK
  <2>. QED
    BY <2>1, <2>2 DEF IInv, TypeOK
<1>7. Observed'
  BY <1>1, <1>3, <1>5, Window DEF Observed
<1>8. InPush'
  BY <1>3 DEF IInv, InPush
<1>9. InPop'
  BY DEF InPop
<1>10. DeliveredIsPrefix'
  <2>1. R + 1 <= W /\ \A i \in 1..(R + 1) : i = R + 1 \/ i \in 1..R
    BY <1>1, Window
  <2>2. \A i \in 1..R : delivered[i] = sent[i]
    BY DEF IInv, DeliveredIsPrefix
  <2>3. \A i \in 1..(R + 1) : delivered'[i] = sent[i]
    BY <1>1, <1>4, <2>1, <2>2
  <2>. QED
    BY <1>3, <2>1, <2>3 DEF DeliveredIsPrefix
<1>11. PublishedIntact'
  <2>1. SUFFICES ASSUME NEW i \in (R + 2)..W PROVE slots[SlotOf(i - 1)] = sent[i]
    BY <1>3, Window DEF PublishedIntact
  <2>2. i \in (R + 1)..W
    BY Window
  <2>. QED
    BY <2>2 DEF IInv, PublishedIntact
<1>. QED
  BY <1>6, <1>7, <1>8, <1>9, <1>10, <1>11 DEF IInv

\* A crash or a restart moves only a program counter.
LEMMA CrashStep ==
  ASSUME IInv, \/ ProducerCrash \/ ProducerRestart
               \/ ConsumerCrash \/ ConsumerRestart
  PROVE  IInv'
<1>. USE DEF ProducerCrash, ProducerRestart, ConsumerCrash, ConsumerRestart,
             shared, producer, consumer
<1>1. /\ W' = W /\ R' = R /\ crashes' \in 0..MaxCrashes
      /\ pPc' \in {pPc, "down", "idle"} /\ cPc' \in {cPc, "down", "idle"}
      /\ UNCHANGED <<write_index, read_index, slots, pItem, pSeen, cItem, cSeen,
                     sent, delivered>>
  BY DEF W, R, IInv, TypeOK
<1>2. TypeOK'
  BY <1>1 DEF IInv, TypeOK
<1>3. Observed' /\ InPush' /\ InPop' /\ DeliveredIsPrefix' /\ PublishedIntact'
  BY <1>1 DEF IInv, Observed, InPush, InPop, DeliveredIsPrefix, PublishedIntact
<1>. QED
  BY <1>2, <1>3 DEF IInv

-----------------------------------------------------------------------------
LEMMA NextIInv == IInv /\ [Next]_vars => IInv'
<1>. SUFFICES ASSUME IInv, [Next]_vars PROVE IInv'
  OBVIOUS
<1>1. ASSUME NEW v \in Values, NEW r \in pSeen..R, PushLoad(v, r) PROVE IInv'
  BY <1>1, PushLoadStep
<1>2. CASE PushWriteFirstHalf \/ PushWriteSecondHalf
  BY <1>2, PushWriteStep
<1>3. CASE PushPublish
  BY <1>3, PushPublishStep
<1>4. ASSUME NEW w \in cSeen..W, PopLoad(w) PROVE IInv'
  BY <1>4, PopLoadStep
<1>5. CASE PopRead
  BY <1>5, PopReadStep
<1>6. CASE PopCommit
  BY <1>6, PopCommitStep
<1>7. CASE ProducerCrash \/ ProducerRestart \/ ConsumerCrash \/ ConsumerRestart
  BY <1>7, CrashStep
<1>8. CASE UNCHANGED vars
  <2>. USE <1>8 DEF vars, shared, producer, consumer
  <2>1. W' = W /\ R' = R
    BY DEF W, R
  <2>2. TypeOK'
    BY DEF IInv, TypeOK
  <2>3. Observed' /\ InPush' /\ InPop' /\ DeliveredIsPrefix' /\ PublishedIntact'
    BY <2>1 DEF IInv, Observed, InPush, InPop, DeliveredIsPrefix, PublishedIntact
  <2>. QED
    BY <2>2, <2>3 DEF IInv
<1>. QED
  BY <1>1, <1>2, <1>3, <1>4, <1>5, <1>6, <1>7, <1>8
     DEF Next, ProducerNext, ConsumerNext

\* IInv is an invariant of the ring.
THEOREM Invariance == Spec => []IInv
<1>1. Init => IInv
  BY InitIInv
<1>2. IInv /\ [Next]_vars => IInv'
  BY NextIInv
<1>. QED
  BY <1>1, <1>2, PTL DEF Spec

\* Values stay of their types (the Header and the call frames of shm.rs).
THEOREM TypeCorrect == Spec => []TypeOK
<1>1. IInv => TypeOK
  BY DEF IInv
<1>. QED
  BY <1>1, Invariance, PTL

\* try_pop returns what try_push accepted: nothing lost, repeated, reordered
\* or torn, under stale loads and crashes of either process.
THEOREM DeliversInOrder == Spec => []DeliveredIsPrefix
<1>1. IInv => DeliveredIsPrefix
  BY DEF IInv
<1>. QED
  BY <1>1, Invariance, PTL

\* A published item is not overwritten before it is popped, even by a producer
\* that dies while writing the next slot.
THEOREM KeepsPublished == Spec => []PublishedIntact
<1>1. IInv => PublishedIntact
  BY DEF IInv
<1>. QED
  BY <1>1, Invariance, PTL

\* The unsynchronised slot accesses of try_push and try_pop never race.
THEOREM RaceFree == Spec => []NoDataRace
<1>1. IInv => NoDataRace
  <2>1. SUFFICES ASSUME IInv, pPc \in {"write", "torn"}, cPc = "read"
                 PROVE  SlotOf(write_index) # SlotOf(read_index)
    BY DEF NoDataRace
  <2>2. W < pSeen + Capacity /\ W < MaxItems /\ R < cSeen
    BY <2>1 DEF IInv, InPush, InPop
  <2>3. W \in Nat /\ R \in Nat /\ R < W /\ W < R + Capacity /\ R < MaxItems
    BY <2>1, <2>2, Window
  <2>4. SlotOf(write_index) = SlotOf(W) /\ SlotOf(read_index) = SlotOf(R)
    BY <2>1, <2>2, <2>3, Window, SlotOfWrapped
  <2>. QED
    BY <2>3, <2>4, SlotsApart
<1>. QED
  BY <1>1, Invariance, PTL

\* The wrapped header indices tell how full the ring is (the tests
\* `write.wrapping_sub(read) >= capacity` and `read == write`).
THEOREM FillIsTold == Spec => []IndicesTellFill
<1>1. IInv => IndicesTellFill
  <2>1. SUFFICES ASSUME IInv PROVE IndicesTellFill
    OBVIOUS
  <2>2. R <= W /\ W <= R + Capacity
    BY <2>1, Window
  <2>3. Occupied(write_index, read_index) = W - R
    BY <2>1, <2>2, Window, OccupiedIsDistance
  <2>4. (read_index = write_index) <=> (W = R)
    BY <2>1, <2>2, Window, IndexEquality
  <2>. QED
    BY <2>1, <2>2, <2>3, <2>4, Window DEF IndicesTellFill
<1>. QED
  BY <1>1, Invariance, PTL

-----------------------------------------------------------------------------
\* The abstract queue is the window of the history that is published and not
\* yet delivered; so it changes only with the histories.
window == [i \in 1..(W - R) |-> sent[R + i]]

LEMMA QueueIsWindow == IInv => queueView = window
<1>. SUFFICES ASSUME IInv PROVE queueView = window
  OBVIOUS
<1>1. \A i \in 1..(W - R) : /\ R + i \in (R + 1)..W
                            /\ R + i - 1 = (R + i) - 1
  BY Window
<1>2. \A i \in 1..(W - R) : slots[SlotOf(R + i - 1)] = sent[R + i]
  BY <1>1 DEF IInv, PublishedIntact
<1>. QED
  BY <1>2 DEF queueView, window

LEMMA WindowIsSeq == IInv => window \in Seq(Values) /\ Len(window) = W - R
<1>. SUFFICES ASSUME IInv PROVE window \in Seq(Values) /\ Len(window) = W - R
  OBVIOUS
<1>1. \A i \in 1..(W - R) : R + i \in 1..W
  BY Window
<1>2. \A i \in 1..(W - R) : sent[R + i] \in Values
  BY <1>1 DEF IInv, TypeOK, W
<1>3. window \in [1..(W - R) -> Values] /\ W - R \in Nat
  BY <1>2, Window DEF window
<1>. QED
  BY <1>3

QueueIsSeq == /\ queueView = window
              /\ window \in Seq(Values) /\ Len(window) = W - R

LEMMA WindowAfterStep ==
  IInv' => /\ queueView' = window'
           /\ window' \in Seq(Values) /\ Len(window') = W' - R'
<1>1. IInv => QueueIsSeq
  BY QueueIsWindow, WindowIsSeq DEF QueueIsSeq
<1>2. IInv' => QueueIsSeq'
  BY <1>1, PTL
<1>. QED
  BY <1>2 DEF QueueIsSeq

LEMMA PublishEnqueues == IInv /\ IInv' /\ PushPublish => Fifo!Enqueue
<1>. SUFFICES ASSUME IInv, IInv', PushPublish PROVE Fifo!Enqueue
  OBVIOUS
<1>1. /\ W < pSeen + Capacity /\ pItem \in Values
      /\ sent' = Append(sent, pItem) /\ delivered' = delivered
  BY DEF PushPublish, IInv, InPush
<1>2. sent \in Seq(Values)
  BY DEF IInv, TypeOK
<1>3. W' = W + 1 /\ R' = R
  BY <1>1, <1>2 DEF W, R
<1>4. /\ window' \in Seq(Values) /\ Len(window') = W' - R'
      /\ queueView' = window'
  BY WindowAfterStep
<1>5. window' = Append(window, pItem)
  <2>. DEFINE s == Append(window, pItem)
  <2>1. window \in Seq(Values) /\ Len(window) = W - R
    BY WindowIsSeq
  <2>2. /\ s \in Seq(Values) /\ Len(s) = W - R + 1
        /\ \A i \in 1..(W - R) : s[i] = window[i]
        /\ s[W - R + 1] = pItem
    BY <1>1, <2>1, AppendProperties
  <2>3. \A i \in 1..(W - R) : window'[i] = s[i]
    <3>1. \A i \in 1..(W - R) : R + i \in 1..W /\ i \in 1..(W' - R')
      BY <1>3, Window
    <3>2. \A i \in 1..(W - R) : sent'[R + i] = sent[R + i]
      BY <1>1, <1>2, <3>1 DEF W
    <3>. QED
      BY <1>3, <2>2, <3>1, <3>2 DEF window
  <2>4. window'[W - R + 1] = s[W - R + 1]
    <3>1. W - R + 1 \in 1..(W' - R') /\ R + (W - R + 1) = W + 1
      BY <1>3, Window
    <3>2. sent'[W + 1] = pItem
      BY <1>1, <1>2 DEF W
    <3>. QED
      BY <1>3, <2>2, <3>1, <3>2 DEF window
  <2>5. \A i \in 1..(W - R + 1) : i = W - R + 1 \/ i \in 1..(W - R)
    BY Window
  <2>6. Len(window') = W - R + 1 /\ Len(s) = W - R + 1
    BY <1>3, <1>4, <2>2, Window
  <2>7. \A i \in 1..Len(window') : window'[i] = s[i]
    BY <2>3, <2>4, <2>5, <2>6
  <2>. HIDE DEF s
  <2>8. window' = s
    BY <1>4, <2>2, <2>6, <2>7, SeqEqual
  <2>. QED
    BY <2>8 DEF s
<1>6. Len(window) < Capacity
  BY <1>1, Window, WindowIsSeq
<1>. QED
  BY <1>1, <1>4, <1>5, <1>6, QueueIsWindow DEF Fifo!Enqueue

LEMMA CommitDequeues == IInv /\ IInv' /\ PopCommit => Fifo!Dequeue
<1>. SUFFICES ASSUME IInv, IInv', PopCommit PROVE Fifo!Dequeue
  OBVIOUS
<1>1. /\ R < W /\ cItem = sent[R + 1]
      /\ sent' = sent /\ delivered' = Append(delivered, cItem)
  BY Window DEF PopCommit, IInv, InPop
<1>2. W' = W /\ R' = R + 1
  BY <1>1 DEF W, R, IInv, TypeOK
<1>3. 1 \in 1..(W - R) /\ window # <<>> /\ Head(window) = cItem
  BY <1>1, Window, WindowIsSeq DEF window
<1>4. /\ window' \in Seq(Values) /\ Len(window') = W' - R'
      /\ queueView' = window'
  BY WindowAfterStep
<1>5. window' = Tail(window)
  <2>. DEFINE s == Tail(window)
  <2>1. window \in Seq(Values) /\ Len(window) = W - R
    BY WindowIsSeq
  <2>2. /\ s \in Seq(Values) /\ Len(s) = W - R - 1
        /\ \A i \in 1..(W - R - 1) : s[i] = window[i + 1]
    BY <1>3, <2>1, HeadTailProperties
  <2>3. \A i \in 1..(W - R - 1) : window'[i] = s[i]
    <3>0. W' - R' = W - R - 1
      BY <1>2, Window
    <3>1. \A i \in 1..(W - R - 1) : /\ i + 1 \in 1..(W - R) /\ i \in 1..(W' - R')
                                    /\ R + 1 + i = R + (i + 1)
      BY <3>0, Window
    <3>. QED
      BY <1>1, <1>2, <2>2, <3>1 DEF window
  <2>4. Len(window') = Len(s) /\ Len(s) = W - R - 1
    BY <1>2, <1>4, <2>2, Window
  <2>. HIDE DEF s
  <2>5. window' = s
    BY <1>4, <2>2, <2>3, <2>4, SeqEqual
  <2>. QED
    BY <2>5 DEF s
<1>. QED
  BY <1>1, <1>3, <1>4, <1>5, QueueIsWindow DEF Fifo!Dequeue

\* try_push and try_pop are linearizable: a bounded FIFO in which a push takes
\* effect at its Release store and a pop at its own.
THEOREM Refinement == Spec => ImplementsFifo
<1>1. Init => Fifo!FifoInit
  BY DEF Init, Fifo!FifoInit, queueView, W, R
<1>2. IInv /\ IInv' /\ [Next]_vars => [Fifo!FifoNext]_<<queueView, delivered>>
  <2>. SUFFICES ASSUME IInv, IInv', [Next]_vars
                PROVE  [Fifo!FifoNext]_<<queueView, delivered>>
    OBVIOUS
  <2>1. CASE PushPublish
    BY <2>1, PublishEnqueues DEF Fifo!FifoNext
  <2>2. CASE PopCommit
    BY <2>2, CommitDequeues DEF Fifo!FifoNext
  <2>3. CASE UNCHANGED <<sent, delivered>>
    <3>1. window' = window
      BY <2>3 DEF window, W, R
    <3>2. queueView = window /\ queueView' = window'
      BY QueueIsWindow, WindowAfterStep
    <3>. QED
      BY <2>3, <3>1, <3>2
  <2>4. PushPublish \/ PopCommit \/ UNCHANGED <<sent, delivered>>
    BY DEF Next, ProducerNext, ConsumerNext, PushLoad, PushWriteFirstHalf,
           PushWriteSecondHalf, ProducerCrash, ProducerRestart, PopLoad, PopRead,
           ConsumerCrash, ConsumerRestart, vars
  <2>. QED
    BY <2>1, <2>2, <2>3, <2>4
<1>. QED
  BY <1>1, <1>2, Invariance, PTL
     DEF Spec, ImplementsFifo, Fifo!FifoSpec, Fifo!fifoVars
=============================================================================
