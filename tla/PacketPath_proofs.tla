-------------------------- MODULE PacketPath_proofs --------------------------
(***************************************************************************)
(* Proofs about RuleSync and, beside it, PacketPath, for any number of     *)
(* handlers, rules and keys, any capacities, with or without the crashes.  *)
(* Of RuleSync: what a list says of a key and how the operations on lists  *)
(* change it; then the invariant of the lock and of the processor; then    *)
(* that list and maps are in sync.  Of PacketPath: whatever the daemon     *)
(* does to other keys between two lookups of a packet's run, the verdict   *)
(* is of one rule, a rule that stays installed is not passed over, and     *)
(* both together: what the API lists is what is done to packets.  Last,    *)
(* that the rules ring is used as the bounded queue it is proved to be.    *)
(***************************************************************************)
EXTENDS PacketPath, FiniteSetTheorems, TLAPS

-----------------------------------------------------------------------------
\* A set of indices has a largest one.
LEMMA LargestIndex ==
  ASSUME NEW n \in Nat, NEW S \in SUBSET (1..n), S # {}
  PROVE  \E m \in S : \A j \in S : j <= m
<1>. DEFINE above(m) == {j \in 1..n : j > m}
            family == {above(m) : m \in S}
<1>1. family \subseteq FiniteSubsetsOf(1..n)
  <2>1. IsFiniteSet(1..n)
    BY FS_Interval
  <2>2. FiniteSubsetsOf(1..n) = SUBSET (1..n)
    BY <2>1, FS_FiniteSubsetsOfFinite
  <2>. QED
    BY <2>2
<1>2. family # {}
  <2>1. PICK m \in S : TRUE
    OBVIOUS
  <2>2. above(m) \in family
    OBVIOUS
  <2>. QED
    BY <2>2
<1>3. PICK m \in S : \A j \in S : <<above(j), above(m)>> \notin StrictSubsetOrdering(1..n)
  <2>. HIDE DEF family
  <2>1. \E x \in family : \A y \in family : <<y, x>> \notin StrictSubsetOrdering(1..n)
    BY <1>1, <1>2, FS_StrictSubsetOrderingWellFounded, WFMin
  <2>. QED
    BY <2>1 DEF family
<1>4. \A j \in S : j <= m
  <2>. SUFFICES ASSUME NEW j \in S, j > m PROVE FALSE
    OBVIOUS
  <2>1. above(j) \subseteq above(m) /\ j \in above(m) /\ j \notin above(j)
    OBVIOUS
  <2>2. <<above(j), above(m)>> \in StrictSubsetOrdering(1..n)
    BY <2>1 DEF StrictSubsetOrdering
  <2>. QED
    BY <1>3, <2>2
<1>. QED
  BY <1>4

\* The entry that Latest chooses is there, and is the last with its key.
LEMMA LatestChosen ==
  ASSUME NEW V, NEW list \in Seq(V), NEW k, Carries(list, k)
  PROVE  \E i \in DOMAIN list : /\ KeyOfRule(list[i]) = k /\ Latest(list, k) = list[i]
                                /\ \A j \in DOMAIN list : KeyOfRule(list[j]) = k => j <= i
<1>. DEFINE same == {i \in DOMAIN list : KeyOfRule(list[i]) = k}
<1>1. same \in SUBSET (1..Len(list)) /\ same # {} /\ Len(list) \in Nat
  BY DEF Carries
<1>2. \E i \in same : \A j \in same : j <= i
  <2>. HIDE DEF same
  <2>. QED
    BY <1>1, LargestIndex
<1>3. (CHOOSE i \in same : \A j \in same : j <= i) \in same
        /\ \A l \in same : l <= (CHOOSE i \in same : \A j \in same : j <= i)
  <2>. HIDE DEF same
  <2>. QED
    BY <1>2
<1>. QED
  BY <1>3 DEF Latest

\* ... and any index that is the last with its key is the one it chooses.
LEMMA LatestIs ==
  ASSUME NEW V, NEW list \in Seq(V), NEW k, NEW i \in DOMAIN list, KeyOfRule(list[i]) = k,
         \A j \in DOMAIN list : KeyOfRule(list[j]) = k => j <= i
  PROVE  Carries(list, k) /\ Latest(list, k) = list[i]
<1>1. Carries(list, k)
  BY DEF Carries
<1>2. PICK m \in DOMAIN list : /\ KeyOfRule(list[m]) = k /\ Latest(list, k) = list[m]
                               /\ \A j \in DOMAIN list : KeyOfRule(list[j]) = k => j <= m
  BY <1>1, LatestChosen
<1>3. m \in Nat /\ i \in Nat /\ m <= i /\ i <= m
  BY <1>2
<1>. QED
  BY <1>1, <1>2, <1>3

\* Of two lists one after the other, the second one decides where it can.
LEMMA LatestOfConcat ==
  ASSUME NEW V, NEW s \in Seq(V), NEW t \in Seq(V), NEW k
  PROVE  /\ s \o t \in Seq(V)
         /\ Carries(s \o t, k) <=> Carries(s, k) \/ Carries(t, k)
         /\ Carries(t, k) => Latest(s \o t, k) = Latest(t, k)
         /\ ~Carries(t, k) /\ Carries(s, k) => Latest(s \o t, k) = Latest(s, k)
<1>. DEFINE both == s \o t
<1>1. /\ both \in Seq(V) /\ DOMAIN both = 1..(Len(s) + Len(t))
      /\ DOMAIN s = 1..Len(s) /\ DOMAIN t = 1..Len(t) /\ Len(s) \in Nat /\ Len(t) \in Nat
      /\ \A i \in DOMAIN s : i \in DOMAIN both /\ both[i] = s[i]
      /\ \A i \in DOMAIN t : Len(s) + i \in DOMAIN both /\ both[Len(s) + i] = t[i]
      /\ \A i \in DOMAIN both : i \in DOMAIN s \/ (i > Len(s) /\ i - Len(s) \in DOMAIN t
                                                  /\ both[i] = t[i - Len(s)])
  OBVIOUS
<1>. HIDE DEF both
<1>2. Carries(both, k) <=> Carries(s, k) \/ Carries(t, k)
  BY <1>1 DEF Carries
<1>3. ASSUME Carries(t, k) PROVE Latest(both, k) = Latest(t, k)
  <2>1. PICK i \in DOMAIN t : /\ KeyOfRule(t[i]) = k /\ Latest(t, k) = t[i]
                              /\ \A j \in DOMAIN t : KeyOfRule(t[j]) = k => j <= i
    BY <1>3, LatestChosen
  <2>2. ASSUME NEW j \in DOMAIN both, KeyOfRule(both[j]) = k PROVE j <= Len(s) + i
    <3>1. CASE j \in DOMAIN s
      BY <1>1, <3>1
    <3>2. CASE j > Len(s) /\ j - Len(s) \in DOMAIN t /\ both[j] = t[j - Len(s)]
      <4>1. j - Len(s) <= i
        BY <2>1, <2>2, <3>2
      <4>. QED
        BY <1>1, <4>1
    <3>. QED
      BY <1>1, <3>1, <3>2
  <2>3. Len(s) + i \in DOMAIN both /\ both[Len(s) + i] = t[i]
    BY <1>1
  <2>4. Latest(both, k) = both[Len(s) + i]
    <3>1. both \in Seq(V) /\ KeyOfRule(both[Len(s) + i]) = k
      BY <1>1, <2>1, <2>3
    <3>. QED
      BY <2>2, <2>3, <3>1, LatestIs
  <2>. QED
    BY <2>1, <2>3, <2>4
<1>4. ASSUME ~Carries(t, k), Carries(s, k) PROVE Latest(both, k) = Latest(s, k)
  <2>1. PICK i \in DOMAIN s : /\ KeyOfRule(s[i]) = k /\ Latest(s, k) = s[i]
                              /\ \A j \in DOMAIN s : KeyOfRule(s[j]) = k => j <= i
    BY <1>4, LatestChosen
  <2>2. \A j \in DOMAIN both : KeyOfRule(both[j]) = k => j <= i
    BY <1>1, <1>4, <2>1 DEF Carries
  <2>3. i \in DOMAIN both /\ both[i] = s[i]
    BY <1>1
  <2>4. Latest(both, k) = both[i]
    <3>1. both \in Seq(V) /\ KeyOfRule(both[i]) = k
      BY <1>1, <2>1, <2>3
    <3>. QED
      BY <2>2, <2>3, <3>1, LatestIs
  <2>. QED
    BY <2>1, <2>3, <2>4
<1>. QED
  BY <1>1, <1>2, <1>3, <1>4 DEF both

\* A list of one entry.
LEMMA LatestOfOne ==
  ASSUME NEW V, NEW u \in V, NEW k
  PROVE  /\ <<u>> \in Seq(V)
         /\ Carries(<<u>>, k) <=> KeyOfRule(u) = k
         /\ KeyOfRule(u) = k => Latest(<<u>>, k) = u
<1>1. <<u>> \in Seq(V) /\ DOMAIN <<u>> = {1} /\ <<u>>[1] = u
  OBVIOUS
<1>2. ASSUME KeyOfRule(u) = k PROVE Latest(<<u>>, k) = u
  <2>1. \A j \in DOMAIN <<u>> : j <= 1
    BY <1>1
  <2>. QED
    BY <1>1, <1>2, <2>1, LatestIs
<1>. QED
  BY <1>1, <1>2 DEF Carries

\* The empty list says nothing.
LEMMA NothingCarried ==
  ASSUME NEW k
  PROVE  ~Carries(<<>>, k)
  BY DEF Carries

\* A list with one entry more.
LEMMA LatestOfAppend ==
  ASSUME NEW V, NEW list \in Seq(V), NEW u \in V, NEW k
  PROVE  /\ Append(list, u) \in Seq(V)
         /\ Carries(Append(list, u), k) <=> Carries(list, k) \/ KeyOfRule(u) = k
         /\ KeyOfRule(u) = k => Latest(Append(list, u), k) = u
         /\ KeyOfRule(u) # k /\ Carries(list, k) => Latest(Append(list, u), k) = Latest(list, k)
<1>1. Append(list, u) = list \o <<u>> /\ Append(list, u) \in Seq(V)
  OBVIOUS
<1>. DEFINE one == <<u>>
<1>2. /\ one \in Seq(V) /\ Append(list, u) = list \o one
      /\ Carries(one, k) <=> KeyOfRule(u) = k
      /\ KeyOfRule(u) = k => Latest(one, k) = u
  BY <1>1, LatestOfOne
<1>. HIDE DEF one
<1>3. /\ Carries(list \o one, k) <=> Carries(list, k) \/ Carries(one, k)
      /\ Carries(one, k) => Latest(list \o one, k) = Latest(one, k)
      /\ ~Carries(one, k) /\ Carries(list, k) => Latest(list \o one, k) = Latest(list, k)
  BY <1>2, LatestOfConcat
<1>. QED
  BY <1>1, <1>2, <1>3

\* What Vec::retain leaves is again a list, without the rules of the id and
\* with all others, and the last rule with a key of another id stays the last.
LEMMA RetainKeeps ==
  ASSUME NEW V, NEW list \in Seq(V), NEW id, NEW rest \in Retain(list, id)
  PROVE  /\ rest \in Seq(V)
         /\ \A n \in DOMAIN rest : rest[n].id # id
         /\ \A n \in DOMAIN rest : \E i \in DOMAIN list : rest[n] = list[i]
         /\ \A k : (\A i \in DOMAIN list : list[i].id = id => KeyOfRule(list[i]) # k)
                     => /\ Carries(rest, k) <=> Carries(list, k)
                        /\ Carries(rest, k) => Latest(rest, k) = Latest(list, k)
<1>. DEFINE stays == {i \in DOMAIN list : list[i].id # id}
<1>1. PICK kept \in Ascending(stays) : rest = [n \in DOMAIN kept |-> list[kept[n]]]
  BY DEF Retain
<1>2. IsFiniteSet(stays) /\ Cardinality(stays) \in Nat
  <2>1. IsFiniteSet(1..Len(list))
    BY FS_Interval
  <2>2. stays \subseteq 1..Len(list)
    OBVIOUS
  <2>. QED
    BY <2>1, <2>2, FS_Subset, FS_CardinalityType
<1>. DEFINE n0 == Cardinality(stays)
<1>3. /\ kept \in [1..n0 -> stays] /\ DOMAIN kept = 1..n0 /\ DOMAIN rest = 1..n0
      /\ \A i, j \in 1..n0 : i < j => kept[i] < kept[j]
      /\ \A n \in 1..n0 : rest[n] = list[kept[n]]
  BY <1>1 DEF Ascending
<1>4. n0 \in Nat /\ stays \subseteq Nat
  BY <1>2
<1>5. \A i \in stays : \E n \in 1..n0 : kept[n] = i
  <2>. HIDE DEF stays, n0
  <2>1. kept \in Injection(1..n0, stays)
    <3>1. \A i \in 1..n0 : kept[i] \in Nat
      BY <1>3, <1>4
    <3>2. ASSUME NEW i \in 1..n0, NEW j \in 1..n0, kept[i] = kept[j] PROVE i = j
      <4>1. ~(i < j) /\ ~(j < i)
        BY <1>3, <3>1, <3>2
      <4>. QED
        BY <4>1, <1>4
    <3>. QED
      BY <1>3, <3>2 DEF Injection, IsInjective
  <2>2. Cardinality(1..n0) = n0
    BY <1>4, FS_Interval
  <2>3. kept \in Surjection(1..n0, stays)
    BY <1>2, <2>1, <2>2, FS_Injection DEF n0
  <2>. QED
    BY <2>3 DEF Surjection
<1>6. rest \in Seq(V)
  <2>1. \A n \in 1..n0 : rest[n] \in V
    BY <1>3
  <2>2. rest = [n \in 1..n0 |-> rest[n]]
    BY <1>1, <1>3
  <2>. HIDE DEF n0, stays
  <2>. QED
    BY <1>4, <2>1, <2>2
<1>7. ASSUME NEW k, \A i \in DOMAIN list : list[i].id = id => KeyOfRule(list[i]) # k
      PROVE  /\ Carries(rest, k) <=> Carries(list, k)
             /\ Carries(rest, k) => Latest(rest, k) = Latest(list, k)
  <2>1. Carries(rest, k) <=> Carries(list, k)
    <3>1. ASSUME Carries(list, k) PROVE Carries(rest, k)
      <4>1. PICK i \in DOMAIN list : KeyOfRule(list[i]) = k
        BY <3>1 DEF Carries
      <4>2. i \in stays
        BY <1>7, <4>1
      <4>. QED
        BY <1>3, <1>5, <4>1, <4>2 DEF Carries
    <3>. QED
      BY <1>3, <3>1 DEF Carries
  <2>2. ASSUME Carries(rest, k) PROVE Latest(rest, k) = Latest(list, k)
    <3>1. PICK i \in DOMAIN list : /\ KeyOfRule(list[i]) = k /\ Latest(list, k) = list[i]
                                   /\ \A j \in DOMAIN list : KeyOfRule(list[j]) = k => j <= i
      BY <2>1, <2>2, LatestChosen
    <3>2. PICK n \in 1..n0 : kept[n] = i
      BY <1>5, <1>7, <3>1
    <3>3. \A m \in DOMAIN rest : KeyOfRule(rest[m]) = k => m <= n
      <4>. SUFFICES ASSUME NEW m \in 1..n0, KeyOfRule(list[kept[m]]) = k PROVE m <= n
        BY <1>3
      <4>1. kept[m] \in DOMAIN list /\ kept[m] <= kept[n] /\ kept[m] \in Nat /\ kept[n] \in Nat
        BY <1>3, <3>1, <3>2
      <4>. QED
        BY <1>3, <4>1
    <3>4. n \in DOMAIN rest /\ rest[n] = list[i]
      BY <1>3, <3>2
    <3>5. Latest(rest, k) = rest[n]
      <4>. HIDE DEF stays, n0
      <4>. QED
        BY <1>6, <3>1, <3>3, <3>4, LatestIs
    <3>. QED
      BY <3>1, <3>4, <3>5
  <2>. QED
    BY <2>1, <2>2
<1>. QED
  BY <1>3, <1>6, <1>7
-----------------------------------------------------------------------------
\* Whoever is within a request holds the lock, carries what was POSTed, and
\* deletes a rule that has left the list.
LockInv ==
  /\ \A h \in Handlers : hPc[h] # "idle" => lock = h
  /\ \A h \in Handlers : hPc[h] \in {"pushCreate", "store"} => hReq[h] \in posted
  /\ \A h \in Handlers : hPc[h] = "pushDelete" =>
       \E id \in Ids : hReq[h] = DeleteUpdate(id) /\ \A i \in DOMAIN fps : fps[i].id # id

\* An update in hand is one that write_rule or remove_rule is at work on, and
\* what is not a deletion was posted.
UpdateInv ==
  /\ procRule = NoRule <=> procPc \in {"down", "outer", "inner"}
  /\ procPc \in {"insertPattern", "insertAction"} => procRule.action # DELETE /\ procRule \in posted
  /\ procPc \in {"removePattern", "removeAction"} => procRule.action = DELETE
  /\ \A i \in DOMAIN rules : rules[i].action # DELETE => rules[i] \in posted

\* The two maps agree at every key but that of the update in hand, of which
\* they hold the first half, and that at which the program left was left; of
\* the maps of that program, which nobody writes, the last remains true.
PairIn(patterns, actions, k) ==
  \/ patterns[k] = Absent /\ actions[k] = Absent
  \/ \E p \in posted : KeyOfRule(p) = k /\ patterns[k] = p.pattern /\ actions[k] = p.action
Paired(k) == PairIn(fingerprints_map, actions_map, k)
Halfway == procPc \in {"insertAction", "removeAction"}
MapInv ==
  /\ \A k \in Keys : \/ Paired(k)
                     \/ Halfway /\ k = KeyOfRule(procRule)
                     \/ procPc = "down" /\ left.torn = {k}
  /\ procPc = "insertAction" => /\ fingerprints_map[KeyOfRule(procRule)] = procRule.pattern
                                /\ HasRoom(actions_map, KeyOfRule(procRule))
  /\ procPc = "removeAction" => fingerprints_map[KeyOfRule(procRule)] = Absent

TornOnly(below) ==
  \A k \in Keys : PairIn(below.fingerprints, below.actions, k) \/ below.torn = {k}
Layers == [fingerprints : [Keys -> Patterns \cup {Absent}],
           actions : [Keys -> ActionCodes \cup {Absent}], torn : SUBSET Keys]
LeftInv == left \in Layers /\ TornOnly(left)

RuleInv == TypeOK /\ LockInv /\ UpdateInv /\ MapInv /\ LeftInv

USE KeyAssumption, FingerprintAssumption, NoneAssumption

LEMMA InitRuleInv == Init => RuleInv
<1>. SUFFICES ASSUME Init PROVE RuleInv
  OBVIOUS
<1>1. TypeOK
  BY DEF Init, TypeOK, Empty, NothingLeft
<1>2. LockInv /\ UpdateInv
  BY DEF Init, LockInv, UpdateInv
<1>3. MapInv
  BY DEF Init, MapInv, Paired, PairIn, Empty
<1>4. LeftInv
  BY <1>1 DEF Init, NothingLeft, Empty, LeftInv, Layers, TornOnly, PairIn
<1>. QED
  BY <1>1, <1>2, <1>3, <1>4 DEF RuleInv

\* What a client POSTs and a deletion are updates, with keys of the maps.
LEMMA UpdateKeys ==
  /\ \A u \in Updates : KeyOfRule(u) \in Keys
  /\ Fingerprints \subseteq Updates
  /\ \A id \in Ids : DeleteUpdate(id) \in Updates
  /\ \A id \in Ids : KeyOfRule(DeleteUpdate(id)) = KeyOf[id] /\ DeleteUpdate(id).action = DELETE
<1>1. \A u \in Updates : KeyOfRule(u) \in Keys
  BY DEF Updates, KeyOfRule, Keys
<1>2. Fingerprints \subseteq Updates
  BY DEF Updates
<1>3. \A id \in Ids : DeleteUpdate(id) \in Updates
  BY DEF Updates, DeleteUpdate
<1>4. \A id \in Ids : KeyOfRule(DeleteUpdate(id)) = KeyOf[id] /\ DeleteUpdate(id).action = DELETE
  BY DEF KeyOfRule, DeleteUpdate
<1>. QED
  BY <1>1, <1>2, <1>3, <1>4

\* The handlers do not touch the maps, and the processor not the handlers.
LEMMA HandlersKeepMaps ==
  ASSUME MapInv, UNCHANGED processor, posted \subseteq posted'
  PROVE  MapInv'
<1>1. \A k : Paired(k) => Paired(k)'
  BY DEF Paired, PairIn, processor, maps
<1>. QED
  BY <1>1 DEF MapInv, Halfway, processor, maps, HasRoom

\* Nor does anybody touch the maps of a program left behind.
LEMMA LeftKept ==
  ASSUME LeftInv, left' = left, posted \subseteq posted'
  PROVE  LeftInv'
  BY DEF LeftInv, Layers, TornOnly, PairIn

LEMMA ProcessorKeepsLock ==
  ASSUME LockInv, UNCHANGED analyzer, posted \subseteq posted'
  PROVE  LockInv'
  BY DEF LockInv, analyzer

\* A push appends the update or makes its key stale.
LEMMA PushStep ==
  ASSUME TypeOK, UpdateInv, NEW u \in Updates, u.action # DELETE => u \in posted,
         Push(u), UNCHANGED <<processor, posted>>
  PROVE  rules' \in Seq(Updates) /\ stale' \subseteq Keys /\ UpdateInv'
<1>. rules \in Seq(Updates) /\ stale \subseteq Keys /\ KeyOfRule(u) \in Keys
  BY UpdateKeys DEF TypeOK
<1>0. rules' = rules \/ rules' = Append(rules, u)
  BY DEF Push
<1>1. rules' \in Seq(Updates) /\ stale' \subseteq Keys
  BY <1>0 DEF Push
<1>2. \A i \in DOMAIN rules' : rules'[i].action # DELETE => rules'[i] \in posted
  <2>1. \A i \in DOMAIN rules : rules[i].action # DELETE => rules[i] \in posted
    BY DEF UpdateInv
  <2>2. ASSUME rules' = Append(rules, u), NEW i \in DOMAIN rules'
        PROVE  (i \in DOMAIN rules /\ rules'[i] = rules[i]) \/ rules'[i] = u
    BY <2>2
  <2>. QED
    BY <1>0, <2>1, <2>2
<1>. QED
  BY <1>1, <1>2 DEF UpdateInv, processor

LEMMA CreateLockStep ==
  ASSUME RuleInv, NEW h \in Handlers, NEW fp \in Fingerprints, CreateLock(h, fp)
  PROVE  RuleInv'
<1>. USE DEF CreateLock, RuleInv
<1>1. TypeOK'
  BY UpdateKeys DEF TypeOK, processor, maps
<1>2. LockInv'
  BY DEF TypeOK, LockInv
<1>3. UpdateInv'
  BY DEF UpdateInv, processor
<1>4. MapInv'
  BY HandlersKeepMaps
<1>5. LeftInv'
  BY LeftKept DEF processor
<1>. QED
  BY <1>1, <1>2, <1>3, <1>4, <1>5

LEMMA CreatePushStep ==
  ASSUME RuleInv, NEW h \in Handlers, CreatePush(h)
  PROVE  RuleInv'
<1>. USE DEF CreatePush, RuleInv
<1>1. hReq[h] \in posted /\ hReq[h] \in Updates
  BY UpdateKeys DEF LockInv, TypeOK
<1>2. rules' \in Seq(Updates) /\ stale' \subseteq Keys /\ UpdateInv'
  BY <1>1, PushStep
<1>3. TypeOK'
  BY <1>2 DEF TypeOK, processor, maps
<1>4. LockInv'
  BY DEF TypeOK, LockInv
<1>5. MapInv'
  BY HandlersKeepMaps
<1>6. LeftInv'
  BY LeftKept DEF processor
<1>. QED
  BY <1>2, <1>3, <1>4, <1>5, <1>6

LEMMA CreateStoreStep ==
  ASSUME RuleInv, NEW h \in Handlers, CreateStore(h)
  PROVE  RuleInv'
<1>. USE DEF CreateStore, RuleInv
<1>1. hReq[h] \in Fingerprints
  BY DEF LockInv, TypeOK
<1>2. TypeOK'
  BY <1>1 DEF TypeOK, processor, maps
<1>3. LockInv'
  BY DEF TypeOK, LockInv
<1>4. UpdateInv'
  BY DEF UpdateInv, processor
<1>5. MapInv'
  BY HandlersKeepMaps
<1>6. LeftInv'
  BY LeftKept DEF processor
<1>. QED
  BY <1>2, <1>3, <1>4, <1>5, <1>6

LEMMA DeleteRetainStep ==
  ASSUME RuleInv, NEW h \in Handlers, NEW id \in Ids, DeleteRetain(h, id)
  PROVE  RuleInv'
<1>. USE DEF DeleteRetain, RuleInv
<1>1. fps' \in Seq(Fingerprints) /\ \A i \in DOMAIN fps' : fps'[i].id # id
  BY RetainKeeps DEF TypeOK
<1>2. TypeOK'
  BY <1>1, UpdateKeys DEF TypeOK, processor, maps
<1>3. LockInv'
  BY <1>1 DEF TypeOK, LockInv
<1>4. UpdateInv'
  BY DEF UpdateInv, processor
<1>5. MapInv'
  BY HandlersKeepMaps
<1>6. LeftInv'
  BY LeftKept DEF processor
<1>. QED
  BY <1>2, <1>3, <1>4, <1>5, <1>6

LEMMA DeletePushStep ==
  ASSUME RuleInv, NEW h \in Handlers, DeletePush(h)
  PROVE  RuleInv'
<1>. USE DEF DeletePush, RuleInv
<1>1. hReq[h] \in Updates /\ hReq[h].action = DELETE
  BY UpdateKeys DEF LockInv
<1>2. rules' \in Seq(Updates) /\ stale' \subseteq Keys /\ UpdateInv'
  BY <1>1, PushStep
<1>3. TypeOK'
  BY <1>2 DEF TypeOK, processor, maps
<1>4. LockInv'
  BY DEF TypeOK, LockInv
<1>5. MapInv'
  BY HandlersKeepMaps
<1>6. LeftInv'
  BY LeftKept DEF processor
<1>. QED
  BY <1>2, <1>3, <1>4, <1>5, <1>6

LEMMA AnalyzerCrashStep ==
  ASSUME RuleInv, AnalyzerCrash
  PROVE  RuleInv'
<1>. USE DEF AnalyzerCrash, RuleInv
<1>1. TypeOK'
  BY DEF TypeOK, processor, maps
<1>2. LockInv'
  BY DEF LockInv
<1>3. UpdateInv'
  BY DEF UpdateInv, processor
<1>4. MapInv'
  BY HandlersKeepMaps
<1>5. LeftInv'
  BY LeftKept DEF processor
<1>. QED
  BY <1>1, <1>2, <1>3, <1>4, <1>5

\* Whatever the packets meet when the processor ends, its program and its maps
\* are torn at the key of the update it held, if at any.
LEMMA OwnTornOnly ==
  ASSUME RuleInv, procPc # "down"
  PROVE  Own \in Layers /\ TornOnly(Own)
<1>1. KeysInHand \subseteq Keys /\ (procRule # NoRule => KeysInHand = {KeyOfRule(procRule)})
  BY UpdateKeys DEF KeysInHand, RuleInv, TypeOK
<1>2. Own \in Layers
  BY <1>1 DEF Own, Layers, RuleInv, TypeOK
<1>3. \A k \in Keys : Paired(k) \/ KeysInHand = {k}
  BY <1>1 DEF RuleInv, MapInv, UpdateInv, Halfway
<1>. QED
  BY <1>2, <1>3 DEF TornOnly, Own, Paired

LEMMA ProcessorGoneStep ==
  ASSUME RuleInv, NEW below \in Layers, TornOnly(below), ProcessorGone(below)
  PROVE  RuleInv'
<1>. USE DEF ProcessorGone, RuleInv
<1>0. stale' \subseteq Keys
  BY UpdateKeys DEF TypeOK, KeysIn, KeysInHand
<1>1. TypeOK'
  BY <1>0 DEF TypeOK, analyzer, Layers
<1>2. LockInv'
  BY ProcessorKeepsLock
<1>3. UpdateInv'
  BY DEF UpdateInv
<1>4. LeftInv'
  BY DEF LeftInv, Layers, TornOnly, PairIn
<1>5. MapInv'
  BY DEF MapInv, TornOnly, Paired, PairIn, Halfway
<1>. QED
  BY <1>1, <1>2, <1>3, <1>4, <1>5

\* Unwinding, it leaves those of the program below.
LEMMA UnwindStep ==
  ASSUME RuleInv, Unwind
  PROVE  RuleInv'
  BY ProcessorGoneStep DEF Unwind, RuleInv, LeftInv

LEMMA ProcessorCrashStep ==
  ASSUME RuleInv, ProcessorCrash
  PROVE  RuleInv'
  BY ProcessorGoneStep, UnwindStep, OwnTornOnly DEF ProcessorCrash

LEMMA ProcessorStartStep ==
  ASSUME RuleInv, ProcessorStart
  PROVE  RuleInv'
<1>. USE DEF ProcessorStart, RuleInv
<1>1. TypeOK'
  BY DEF TypeOK, analyzer, Empty
<1>2. LockInv'
  BY ProcessorKeepsLock
<1>3. UpdateInv'
  BY DEF UpdateInv
<1>4. MapInv'
  BY DEF MapInv, Paired, PairIn, Empty
<1>5. LeftInv'
  BY LeftKept
<1>. QED
  BY <1>1, <1>2, <1>3, <1>4, <1>5

\* The steps of the loop between two updates.
LEMMA LoopStep ==
  ASSUME RuleInv, Signal \/ LoopTest \/ PopEmpty
  PROVE  RuleInv'
<1>. USE DEF Signal, LoopTest, PopEmpty, RuleInv
<1>1. TypeOK'
  BY DEF TypeOK, analyzer, maps
<1>2. LockInv'
  BY ProcessorKeepsLock
<1>3. UpdateInv'
  BY DEF UpdateInv
<1>4. MapInv'
  <2>1. \A k : Paired(k)' <=> Paired(k)
    BY DEF Paired, PairIn, maps
  <2>. QED
    BY <2>1 DEF MapInv, Halfway, HasRoom, maps
<1>5. LeftInv'
  BY LeftKept
<1>. QED
  BY <1>1, <1>2, <1>3, <1>4, <1>5

LEMMA PopStep ==
  ASSUME RuleInv, Pop
  PROVE  RuleInv'
<1>. USE DEF Pop, RuleInv
<1>1. procRule' \in Updates /\ rules' \in Seq(Updates)
  BY DEF TypeOK
<1>2. TypeOK'
  BY <1>1 DEF TypeOK, analyzer, maps
<1>3. LockInv'
  BY ProcessorKeepsLock
<1>4. UpdateInv'
  <2>1. procRule' = rules[1] /\ \A i \in DOMAIN rules' : i + 1 \in DOMAIN rules /\ rules'[i] = rules[i + 1]
    BY DEF TypeOK
  <2>2. procRule' # NoRule /\ (procRule'.action # DELETE => procRule' \in posted)
    BY <1>1, <2>1 DEF UpdateInv, TypeOK
  <2>. QED
    BY <2>1, <2>2 DEF UpdateInv
<1>5. MapInv'
  <2>1. \A k : Paired(k)' <=> Paired(k)
    BY DEF Paired, PairIn, maps
  <2>. QED
    BY <2>1 DEF MapInv, Halfway
<1>6. LeftInv'
  BY LeftKept
<1>. QED
  BY <1>2, <1>3, <1>4, <1>5, <1>6

\* When no update is halfway the maps have the same keys, so that one of them
\* has room for a key whenever the other has.
LEMMA SameRoom ==
  ASSUME RuleInv, ~Halfway, procPc # "down", NEW k \in Keys
  PROVE  HasRoom(fingerprints_map, k) <=> HasRoom(actions_map, k)
<1>1. \A j \in Keys : fingerprints_map[j] = Absent <=> actions_map[j] = Absent
  <2>1. \A f \in posted : f.pattern # Absent /\ f.action # Absent
    BY DEF RuleInv, TypeOK
  <2>. QED
    BY <2>1 DEF RuleInv, MapInv, Paired, PairIn
<1>2. {j \in Keys : fingerprints_map[j] # Absent} = {j \in Keys : actions_map[j] # Absent}
  BY <1>1
<1>. QED
  BY <1>1, <1>2 DEF HasRoom

LEMMA InsertPatternStep ==
  ASSUME RuleInv, InsertPattern
  PROVE  RuleInv'
<1>. DEFINE k == KeyOfRule(procRule)
<1>1. CASE ~HasRoom(fingerprints_map, k)
  BY <1>1, UnwindStep DEF InsertPattern
<1>2. CASE HasRoom(fingerprints_map, k)
  <2>1. /\ fingerprints_map' = [fingerprints_map EXCEPT ![k] = procRule.pattern]
        /\ procPc = "insertPattern" /\ procPc' = "insertAction" /\ ~Halfway
        /\ UNCHANGED <<analyzer, rules, actions_map, left, procRule, running, posted, stale>>
    BY <1>2 DEF InsertPattern, Halfway
  <2>2. procRule \in posted /\ procRule \in Fingerprints /\ k \in Keys
    BY <2>1, UpdateKeys DEF RuleInv, UpdateInv, TypeOK
  <2>. HIDE DEF k
  <2>3. TypeOK'
    BY <2>1, <2>2 DEF RuleInv, TypeOK, analyzer
  <2>4. LockInv'
    BY <2>1, ProcessorKeepsLock DEF RuleInv
  <2>5. UpdateInv'
    BY <2>1 DEF RuleInv, UpdateInv
  <2>6. MapInv'
    <3>1. HasRoom(actions_map, k)
      BY <1>2, <2>1, <2>2, SameRoom
    <3>2. k = KeyOfRule(procRule) /\ k' = k
      BY <2>1 DEF k, KeyOfRule
    <3>3. fingerprints_map'[k] = procRule.pattern
      BY <2>1, <2>2 DEF RuleInv, TypeOK
    <3>4. HasRoom(actions_map, k)'
      BY <2>1, <3>1, <3>2 DEF HasRoom
    <3>5. \A j \in Keys : j = k \/ Paired(j)'
      BY <2>1 DEF RuleInv, MapInv, Paired, PairIn, TypeOK
    <3>. QED
      BY <2>1, <3>2, <3>3, <3>4, <3>5 DEF MapInv, Halfway
  <2>7. LeftInv'
    BY <2>1, LeftKept DEF RuleInv
  <2>. QED
    BY <2>3, <2>4, <2>5, <2>6, <2>7 DEF RuleInv
<1>. QED
  BY <1>1, <1>2

\* write_rule does not fail at its second insert.
LEMMA InsertActionMoves ==
  ASSUME RuleInv, InsertAction
  PROVE  /\ procRule \in posted /\ procRule \in Fingerprints /\ procRule.action # DELETE
         /\ KeyOfRule(procRule) \in Keys
         /\ fingerprints_map[KeyOfRule(procRule)] = procRule.pattern
         /\ actions_map' = [actions_map EXCEPT ![KeyOfRule(procRule)] = procRule.action]
         /\ procPc = "insertAction" /\ procPc' = "inner" /\ procRule' = NoRule
         /\ UNCHANGED <<analyzer, rules, fingerprints_map, left, running, posted, stale>>
<1>1. procRule \in posted /\ procRule \in Fingerprints /\ procRule.action # DELETE
  BY DEF RuleInv, UpdateInv, TypeOK, InsertAction
<1>2. KeyOfRule(procRule) \in Keys
  BY <1>1, UpdateKeys
<1>3. HasRoom(actions_map, KeyOfRule(procRule))
        /\ fingerprints_map[KeyOfRule(procRule)] = procRule.pattern
  BY DEF RuleInv, MapInv, InsertAction
<1>. QED
  BY <1>1, <1>2, <1>3 DEF InsertAction

LEMMA InsertActionStep ==
  ASSUME RuleInv, InsertAction
  PROVE  RuleInv'
<1>0. PICK k \in Keys : k = KeyOfRule(procRule)
  BY InsertActionMoves
<1>1. /\ procRule \in posted /\ procRule \in Fingerprints
      /\ fingerprints_map[k] = procRule.pattern
      /\ actions_map' = [actions_map EXCEPT ![k] = procRule.action]
      /\ procPc = "insertAction" /\ procPc' = "inner" /\ procRule' = NoRule
      /\ UNCHANGED <<analyzer, rules, fingerprints_map, left, running, posted, stale>>
  BY <1>0, InsertActionMoves
<1>3. TypeOK'
  BY <1>1 DEF RuleInv, TypeOK, analyzer
<1>4. LockInv'
  BY <1>1, ProcessorKeepsLock DEF RuleInv
<1>5. UpdateInv'
  BY <1>1 DEF RuleInv, UpdateInv
<1>6. MapInv'
  <2>1. Paired(k)'
    BY <1>0, <1>1 DEF RuleInv, Paired, PairIn, TypeOK, KeyOfRule
  <2>2. \A j \in Keys : j = k \/ Paired(j)'
    BY <1>0, <1>1 DEF RuleInv, MapInv, Paired, PairIn, TypeOK
  <2>. QED
    BY <1>1, <2>1, <2>2 DEF MapInv
<1>7. LeftInv'
  BY <1>1, LeftKept DEF RuleInv
<1>. QED
  BY <1>3, <1>4, <1>5, <1>6, <1>7 DEF RuleInv

LEMMA RemovePatternStep ==
  ASSUME RuleInv, RemovePattern
  PROVE  RuleInv'
<1>. DEFINE k == KeyOfRule(procRule)
<1>1. /\ fingerprints_map' = [fingerprints_map EXCEPT ![k] = Absent]
      /\ procPc = "removePattern" /\ procPc' = "removeAction"
      /\ UNCHANGED <<analyzer, rules, actions_map, left, procRule, running, posted, stale>>
  BY DEF RemovePattern
<1>2. procRule \in Updates /\ k \in Keys
  BY <1>1, UpdateKeys DEF RuleInv, UpdateInv, TypeOK
<1>3. k = KeyOfRule(procRule) /\ k' = k
  BY <1>1 DEF KeyOfRule
<1>. HIDE DEF k
<1>4. TypeOK'
  BY <1>1, <1>2 DEF RuleInv, TypeOK, analyzer
<1>5. LockInv'
  BY <1>1, ProcessorKeepsLock DEF RuleInv
<1>6. UpdateInv'
  BY <1>1 DEF RuleInv, UpdateInv
<1>7. MapInv'
  <2>1. fingerprints_map'[k] = Absent
    BY <1>1, <1>2 DEF RuleInv, TypeOK
  <2>2. \A j \in Keys : j = k \/ Paired(j)'
    BY <1>1 DEF RuleInv, MapInv, Paired, PairIn, TypeOK, Halfway
  <2>. QED
    BY <1>1, <1>3, <2>1, <2>2 DEF MapInv, Halfway
<1>8. LeftInv'
  BY <1>1, LeftKept DEF RuleInv
<1>. QED
  BY <1>4, <1>5, <1>6, <1>7, <1>8 DEF RuleInv

LEMMA RemoveActionStep ==
  ASSUME RuleInv, RemoveAction
  PROVE  RuleInv'
<1>1. procRule \in Updates
  BY DEF RuleInv, UpdateInv, TypeOK, RemoveAction
<1>2. PICK k \in Keys : k = KeyOfRule(procRule)
  BY <1>1, UpdateKeys
<1>3. /\ actions_map' = [actions_map EXCEPT ![k] = Absent]
      /\ procPc = "removeAction" /\ procPc' = "inner" /\ procRule' = NoRule
      /\ UNCHANGED <<analyzer, rules, fingerprints_map, left, running, posted, stale>>
  BY <1>2 DEF RemoveAction
<1>4. TypeOK'
  BY <1>2, <1>3 DEF RuleInv, TypeOK, analyzer
<1>5. LockInv'
  BY <1>3, ProcessorKeepsLock DEF RuleInv
<1>6. UpdateInv'
  BY <1>3 DEF RuleInv, UpdateInv
<1>7. MapInv'
  <2>1. Paired(k)'
    BY <1>2, <1>3 DEF RuleInv, MapInv, Paired, PairIn, TypeOK
  <2>2. \A j \in Keys : j = k \/ Paired(j)'
    BY <1>2, <1>3 DEF RuleInv, MapInv, Paired, PairIn, TypeOK
  <2>. QED
    BY <1>3, <2>1, <2>2 DEF MapInv
<1>8. LeftInv'
  BY <1>3, LeftKept DEF RuleInv
<1>. QED
  BY <1>4, <1>5, <1>6, <1>7, <1>8 DEF RuleInv

LEMMA NextRuleInv == RuleInv /\ [Next]_vars => RuleInv'
<1>. SUFFICES ASSUME RuleInv, [Next]_vars PROVE RuleInv'
  OBVIOUS
<1>1. CASE Request
  BY <1>1, CreateLockStep, DeleteRetainStep DEF Request
<1>2. CASE Handle
  BY <1>2, CreatePushStep, CreateStoreStep, DeletePushStep DEF Handle
<1>3. CASE Fault
  BY <1>3, AnalyzerCrashStep, ProcessorCrashStep, LoopStep DEF Fault
<1>4. CASE ProcessorStep
  BY <1>4, ProcessorStartStep, LoopStep, UnwindStep, PopStep, InsertPatternStep,
     InsertActionStep, RemovePatternStep, RemoveActionStep DEF ProcessorStep, Detach
<1>5. CASE UNCHANGED vars
  <2>1. LeftInv'
    BY <1>5, LeftKept DEF vars, processor, RuleInv
  <2>. QED
    BY <1>5, <2>1 DEF vars, analyzer, processor, maps, RuleInv, TypeOK, LockInv, UpdateInv,
                      MapInv, Paired, PairIn, Halfway, HasRoom
<1>. QED
  BY <1>1, <1>2, <1>3, <1>4, <1>5 DEF Next

LEMMA RuleInvAlways == Spec => []RuleInv
  BY InitRuleInv, NextRuleInv, PTL DEF Spec

\* MapsInv: the maps' entries are of their types; between two updates they
\* come in pairs from posted rules, but for the key at which a killed processor
\* left its program; a second insert finds room.
THEOREM MapsStayPaired == Spec => []MapsInv
<1>1. RuleInv => MapsInv
  <2>. SUFFICES ASSUME RuleInv PROVE MapsInv
    OBVIOUS
  <2>1. MapsPaired
    BY DEF RuleInv, UpdateInv, MapInv, Halfway, Paired, PairIn, MapsPaired
  <2>2. NoHalfInsert
    BY DEF RuleInv, MapInv, NoHalfInsert
  <2>. QED
    BY <2>1, <2>2 DEF RuleInv, MapsInv
<1>. QED
  BY <1>1, RuleInvAlways, PTL

\* SingleProducer: at most one handler is within a push on the rules ring.
THEOREM OneProducerAtATime == Spec => []SingleProducer
<1>1. RuleInv => SingleProducer
  <2>. SUFFICES ASSUME RuleInv PROVE SingleProducer
    OBVIOUS
  <2>. DEFINE pushers == {h \in Handlers : hPc[h] \in {"pushCreate", "pushDelete"}}
  <2>1. pushers = {} \/ pushers = {lock}
    BY DEF RuleInv, LockInv
  <2>2. Cardinality({}) = 0
    BY FS_EmptySet
  <2>3. Cardinality({lock}) = 1
    BY FS_Singleton
  <2>4. Cardinality(pushers) <= 1
    <3>1. Cardinality(pushers) \in {0, 1}
      BY <2>1, <2>2, <2>3, Zenon
    <3>. HIDE DEF pushers
    <3>. QED
      BY <3>1
  <2>. QED
    BY <2>4 DEF SingleProducer
<1>. QED
  BY <1>1, RuleInvAlways, PTL
-----------------------------------------------------------------------------
\* What the updates on their way come to at a key: the deletion that a handler
\* is about to push decides, then the ring, then the update in hand, and the
\* maps where none of them has the key.
DueAt(k) == lock # NoHandler /\ hPc[lock] = "pushDelete" /\ KeyOfRule(hReq[lock]) = k
HeldAt(k) == procRule # NoRule /\ KeyOfRule(procRule) = k
EventualCases ==
  \A k \in Keys :
    EventualEntry(k) = IF DueAt(k) THEN <<Absent, Absent>>
                       ELSE IF Carries(rules, k) THEN Entry(Latest(rules, k))
                       ELSE IF HeldAt(k) THEN Entry(procRule)
                       ELSE <<fingerprints_map[k], actions_map[k]>>

LEMMA EventualInCases == RuleInv => EventualCases
<1>. SUFFICES ASSUME RuleInv, NEW k \in Keys
     PROVE  EventualEntry(k) = IF DueAt(k) THEN <<Absent, Absent>>
                       ELSE IF Carries(rules, k) THEN Entry(Latest(rules, k))
                       ELSE IF HeldAt(k) THEN Entry(procRule)
                       ELSE <<fingerprints_map[k], actions_map[k]>>
  BY DEF EventualCases
<1>1. rules \in Seq(Updates)
  BY DEF RuleInv, TypeOK
<1>2. /\ InHand \in Seq(Updates)
      /\ Carries(InHand, k) <=> HeldAt(k)
      /\ HeldAt(k) => Latest(InHand, k) = procRule
  <2>1. CASE procRule = NoRule
    BY <2>1, NothingCarried DEF InHand, HeldAt
  <2>2. CASE procRule # NoRule
    <3>1. procRule \in Updates
      BY <2>2 DEF RuleInv, TypeOK
    <3>. QED
      BY <2>2, <3>1, LatestOfOne DEF InHand, HeldAt
  <2>. QED
    BY <2>1, <2>2
<1>3. /\ Promised \in Seq(Updates)
      /\ Carries(Promised, k) <=> DueAt(k)
      /\ DueAt(k) => Entry(Latest(Promised, k)) = <<Absent, Absent>>
  <2>1. CASE lock # NoHandler /\ hPc[lock] = "pushDelete"
    <3>1. PICK id \in Ids : hReq[lock] = DeleteUpdate(id)
      BY <2>1 DEF RuleInv, TypeOK, LockInv
    <3>2. hReq[lock] \in Updates /\ hReq[lock].action = DELETE
      BY <3>1, UpdateKeys
    <3>3. /\ <<hReq[lock]>> \in Seq(Updates)
          /\ Carries(<<hReq[lock]>>, k) <=> KeyOfRule(hReq[lock]) = k
          /\ KeyOfRule(hReq[lock]) = k => Latest(<<hReq[lock]>>, k) = hReq[lock]
      BY <3>2, LatestOfOne
    <3>4. Promised = <<hReq[lock]>>
      BY <2>1 DEF Promised
    <3>. QED
      BY <2>1, <3>2, <3>3, <3>4 DEF DueAt, Entry
  <2>2. CASE ~(lock # NoHandler /\ hPc[lock] = "pushDelete")
    BY <2>2, NothingCarried DEF Promised, DueAt
  <2>. QED
    BY <2>1, <2>2
<1>. DEFINE popped == InHand \o rules
<1>4. /\ popped \in Seq(Updates)
      /\ Carries(popped, k) <=> Carries(InHand, k) \/ Carries(rules, k)
      /\ Carries(rules, k) => Latest(popped, k) = Latest(rules, k)
      /\ ~Carries(rules, k) /\ Carries(InHand, k) => Latest(popped, k) = Latest(InHand, k)
  BY <1>1, <1>2, LatestOfConcat
<1>5. OnItsWay = popped \o Promised
  BY DEF OnItsWay
<1>. HIDE DEF popped
<1>6. /\ Carries(OnItsWay, k) <=> Carries(popped, k) \/ Carries(Promised, k)
      /\ Carries(Promised, k) => Latest(OnItsWay, k) = Latest(Promised, k)
      /\ ~Carries(Promised, k) /\ Carries(popped, k) => Latest(OnItsWay, k) = Latest(popped, k)
  BY <1>3, <1>4, <1>5, LatestOfConcat
<1>7. Table[k] = <<fingerprints_map[k], actions_map[k]>>
  BY DEF Table
<1>8. CASE DueAt(k)
  BY <1>3, <1>6, <1>8 DEF EventualEntry
<1>9. CASE ~DueAt(k) /\ Carries(rules, k)
  BY <1>3, <1>4, <1>6, <1>9 DEF EventualEntry
<1>10. CASE ~DueAt(k) /\ ~Carries(rules, k) /\ HeldAt(k)
  BY <1>2, <1>3, <1>4, <1>6, <1>10 DEF EventualEntry
<1>11. CASE ~DueAt(k) /\ ~Carries(rules, k) /\ ~HeldAt(k)
  BY <1>2, <1>3, <1>4, <1>6, <1>7, <1>11 DEF EventualEntry
<1>. QED
  BY <1>8, <1>9, <1>10, <1>11

LEMMA EventualNext == RuleInv' => EventualCases'
  BY EventualInCases, PTL

\* The synchronisation cannot tell a rule whose action has the code of DELETE
\* from a deletion, nor two rules with one key from each other: runs show both to
\* break it, but at that key only.  The other keys are clean.
NoSentinel == \A f \in Fingerprints : f.action # DELETE
NoCollision == \A i, j \in Ids : KeyOf[i] = KeyOf[j] => i = j
Clean == {k \in Keys : /\ \A f \in Fingerprints : KeyOfRule(f) = k => f.action # DELETE
                       /\ \A i, j \in Ids : KeyOf[i] = k /\ KeyOf[j] = k => i = j}
CleanInSync == \A k \in Clean \ stale : EventualEntry(k) = Wanted(Listed, k)

\* Of the entries in the maps that a processor which starts does not take over,
\* each is at a key that a fault has hit, or that an update is on its way to.
DownInv == procPc = "down" =>
  \A k \in Keys \ stale : \/ Carries(rules, k)
                          \/ fingerprints_map[k] = Absent /\ actions_map[k] = Absent

LEMMA CreateLockInSync ==
  ASSUME RuleInv, RuleInv', CleanInSync, NEW h \in Handlers, NEW fp \in Fingerprints, CreateLock(h, fp)
  PROVE  CleanInSync'
<1>. SUFFICES ASSUME NEW k \in Keys, k \in Clean \ stale'
              PROVE  EventualEntry(k)' = Wanted(Listed', k)
  BY DEF CleanInSync, Clean
<1>1. EventualEntry(k) = Wanted(Listed, k)
  BY DEF CleanInSync, CreateLock
<1>2. EventualEntry(k)' = EventualEntry(k)
  BY EventualInCases, EventualNext DEF EventualCases, DueAt, HeldAt, CreateLock, processor, maps, RuleInv, TypeOK
<1>3. Listed' = Listed
  BY DEF Listed, CreateLock, RuleInv, TypeOK
<1>. QED
  BY <1>1, <1>2, <1>3

\* Push, at a key that is not stale afterwards: the update is the last one in
\* the ring, or has another key.
LEMMA PushSays ==
  ASSUME rules \in Seq(Updates), NEW u \in Updates, Push(u), NEW k, k \notin stale'
  PROVE  \/ KeyOfRule(u) = k /\ Carries(rules', k) /\ Latest(rules', k) = u
         \/ /\ KeyOfRule(u) # k /\ k \notin stale
            /\ Carries(rules', k) <=> Carries(rules, k)
            /\ Carries(rules, k) => Latest(rules', k) = Latest(rules, k)
<1>1. CASE Len(rules) < RuleCapacity
  <2>1. rules' = Append(rules, u) /\ stale' = stale \ {KeyOfRule(u)}
    BY <1>1 DEF Push
  <2>. QED
    BY <2>1, LatestOfAppend
<1>2. CASE ~(Len(rules) < RuleCapacity)
  BY <1>2 DEF Push
<1>. QED
  BY <1>1, <1>2

LEMMA CreatePushInSync ==
  ASSUME RuleInv, RuleInv', CleanInSync, NEW h \in Handlers, CreatePush(h)
  PROVE  CleanInSync'
<1>. SUFFICES ASSUME NEW k \in Keys, k \in Clean \ stale'
              PROVE  EventualEntry(k)' = Wanted(Listed', k)
  BY DEF CleanInSync, Clean
<1>1. PICK u \in Fingerprints : u = hReq[h]
  BY DEF RuleInv, TypeOK, LockInv, CreatePush
<1>2. u \in Updates /\ (KeyOfRule(u) = k => Entry(u) = <<u.pattern, u.action>>)
  BY UpdateKeys DEF Entry, Clean
<1>3. Listed = fps /\ Listed' = Append(fps, u) /\ fps \in Seq(Fingerprints)
  BY <1>1 DEF Listed, CreatePush, RuleInv, TypeOK, LockInv
<1>4. /\ ~DueAt(k) /\ ~DueAt(k)'
      /\ HeldAt(k)' <=> HeldAt(k)
      /\ UNCHANGED <<procRule, fingerprints_map, actions_map>>
  BY DEF DueAt, HeldAt, CreatePush, processor, maps, RuleInv, TypeOK, LockInv
<1>5. /\ EventualEntry(k) = IF Carries(rules, k) THEN Entry(Latest(rules, k))
                            ELSE IF HeldAt(k) THEN Entry(procRule)
                            ELSE <<fingerprints_map[k], actions_map[k]>>
      /\ EventualEntry(k)' = IF Carries(rules', k) THEN Entry(Latest(rules', k))
                             ELSE IF HeldAt(k) THEN Entry(procRule)
                             ELSE <<fingerprints_map[k], actions_map[k]>>
  BY <1>4, EventualInCases, EventualNext DEF EventualCases, Entry
<1>6. CASE KeyOfRule(u) = k /\ Carries(rules', k) /\ Latest(rules', k) = u
  <2>1. EventualEntry(k)' = <<u.pattern, u.action>>
    BY <1>2, <1>5, <1>6
  <2>2. Carries(Append(fps, u), k) /\ Latest(Append(fps, u), k) = u
    BY <1>3, <1>6, LatestOfAppend
  <2>. QED
    BY <1>3, <2>1, <2>2 DEF Wanted
<1>7. CASE /\ KeyOfRule(u) # k /\ k \notin stale
           /\ Carries(rules', k) <=> Carries(rules, k)
           /\ Carries(rules, k) => Latest(rules', k) = Latest(rules, k)
  <2>1. EventualEntry(k)' = EventualEntry(k)
    BY <1>5, <1>7
  <2>2. EventualEntry(k) = Wanted(fps, k)
    BY <1>3, <1>7 DEF CleanInSync
  <2>3. /\ Carries(Append(fps, u), k) <=> Carries(fps, k)
        /\ Carries(fps, k) => Latest(Append(fps, u), k) = Latest(fps, k)
    BY <1>3, <1>7, LatestOfAppend
  <2>. QED
    BY <1>3, <2>1, <2>2, <2>3 DEF Wanted
<1>8. rules \in Seq(Updates) /\ Push(u)
  BY <1>1 DEF RuleInv, TypeOK, CreatePush
<1>. QED
  BY <1>2, <1>6, <1>7, <1>8, PushSays

LEMMA CreateStoreInSync ==
  ASSUME RuleInv, RuleInv', CleanInSync, NEW h \in Handlers, CreateStore(h)
  PROVE  CleanInSync'
<1>. SUFFICES ASSUME NEW k \in Keys, k \in Clean \ stale'
              PROVE  EventualEntry(k)' = Wanted(Listed', k)
  BY DEF CleanInSync, Clean
<1>1. EventualEntry(k) = Wanted(Listed, k)
  BY DEF CleanInSync, CreateStore
<1>2. ~DueAt(k) /\ ~DueAt(k)' /\ UNCHANGED <<rules, procRule, fingerprints_map, actions_map>>
  BY DEF DueAt, CreateStore, processor, maps, RuleInv, TypeOK, LockInv
<1>3. EventualEntry(k)' = EventualEntry(k)
  BY <1>2, EventualInCases, EventualNext DEF EventualCases, HeldAt, Entry
<1>4. Listed' = Listed
  BY DEF Listed, CreateStore, RuleInv, TypeOK, LockInv
<1>. QED
  BY <1>1, <1>3, <1>4

\* Once the rules with an id have left the list, nothing is wanted at its key.
LEMMA NothingWanted ==
  ASSUME NEW list \in Seq(Fingerprints), NEW id \in Ids, KeyOf[id] \in Clean,
         \A i \in DOMAIN list : list[i].id # id
  PROVE  Wanted(list, KeyOf[id]) = <<Absent, Absent>>
<1>1. \A i \in DOMAIN list : list[i].id \in Ids
  OBVIOUS
<1>2. ~Carries(list, KeyOf[id])
  BY <1>1 DEF Clean, Carries, KeyOfRule
<1>. QED
  BY <1>2 DEF Wanted

LEMMA DeleteRetainInSync ==
  ASSUME RuleInv, RuleInv', CleanInSync,
         NEW h \in Handlers, NEW id \in Ids, DeleteRetain(h, id)
  PROVE  CleanInSync'
<1>. SUFFICES ASSUME NEW k \in Keys, k \in Clean \ stale'
              PROVE  EventualEntry(k)' = Wanted(Listed', k)
  BY DEF CleanInSync, Clean
<1>1. Listed = fps /\ Listed' = fps' /\ fps \in Seq(Fingerprints) /\ fps' \in Seq(Fingerprints)
  BY DEF Listed, DeleteRetain, RuleInv, TypeOK
<1>2. /\ ~DueAt(k)
      /\ DueAt(k)' <=> KeyOf[id] = k
      /\ UNCHANGED <<rules, procRule, fingerprints_map, actions_map>>
  BY UpdateKeys DEF DueAt, DeleteRetain, processor, maps, RuleInv, TypeOK
<1>3. CASE KeyOf[id] = k
  <2>1. EventualEntry(k)' = <<Absent, Absent>>
    BY <1>2, <1>3, EventualNext DEF EventualCases
  <2>2. Wanted(fps', k) = <<Absent, Absent>>
    BY <1>1, <1>3, NothingWanted, RetainKeeps DEF DeleteRetain
  <2>. QED
    BY <1>1, <2>1, <2>2
<1>4. CASE KeyOf[id] # k
  <2>1. EventualEntry(k)' = EventualEntry(k)
    BY <1>2, <1>4, EventualInCases, EventualNext DEF EventualCases, HeldAt, Entry
  <2>2. EventualEntry(k) = Wanted(fps, k)
    BY <1>1 DEF CleanInSync, DeleteRetain
  <2>3. \A i \in DOMAIN fps : fps[i].id = id => KeyOfRule(fps[i]) # k
    BY <1>4 DEF KeyOfRule
  <2>4. /\ Carries(fps', k) <=> Carries(fps, k)
        /\ Carries(fps', k) => Latest(fps', k) = Latest(fps, k)
    BY <1>1, <2>3, RetainKeeps DEF DeleteRetain
  <2>. QED
    BY <1>1, <2>1, <2>2, <2>4 DEF Wanted
<1>. QED
  BY <1>3, <1>4

LEMMA DeletePushInSync ==
  ASSUME RuleInv, RuleInv', CleanInSync, NEW h \in Handlers, DeletePush(h)
  PROVE  CleanInSync'
<1>. SUFFICES ASSUME NEW k \in Keys, k \in Clean \ stale'
              PROVE  EventualEntry(k)' = Wanted(Listed', k)
  BY DEF CleanInSync, Clean
<1>1. PICK id \in Ids : hReq[h] = DeleteUpdate(id) /\ \A i \in DOMAIN fps : fps[i].id # id
  BY DEF RuleInv, LockInv, DeletePush
<1>2. PICK u \in Updates : u = hReq[h] /\ KeyOfRule(u) = KeyOf[id] /\ u.action = DELETE
  BY <1>1, UpdateKeys
<1>3. Listed = fps /\ Listed' = fps /\ fps \in Seq(Fingerprints)
  BY DEF Listed, DeletePush, RuleInv, TypeOK, LockInv
<1>4. /\ DueAt(k) <=> KeyOf[id] = k
      /\ ~DueAt(k)'
      /\ UNCHANGED <<procRule, fingerprints_map, actions_map>>
  BY <1>2 DEF DueAt, DeletePush, processor, maps, RuleInv, TypeOK, LockInv
<1>5. Entry(u) = <<Absent, Absent>>
  BY <1>2 DEF Entry
<1>6. CASE KeyOfRule(u) = k /\ Carries(rules', k) /\ Latest(rules', k) = u
  <2>1. EventualEntry(k)' = <<Absent, Absent>>
    BY <1>4, <1>5, <1>6, EventualNext DEF EventualCases, Entry
  <2>2. Wanted(fps, KeyOf[id]) = <<Absent, Absent>> /\ KeyOf[id] = k
    BY <1>1, <1>2, <1>3, <1>6, NothingWanted
  <2>. QED
    BY <1>3, <2>1, <2>2
<1>7. CASE /\ KeyOfRule(u) # k /\ k \notin stale
           /\ Carries(rules', k) <=> Carries(rules, k)
           /\ Carries(rules, k) => Latest(rules', k) = Latest(rules, k)
  <2>1. EventualEntry(k)' = EventualEntry(k)
    BY <1>2, <1>4, <1>7, EventualInCases, EventualNext DEF EventualCases, HeldAt, Entry
  <2>2. EventualEntry(k) = Wanted(fps, k)
    BY <1>3, <1>7 DEF CleanInSync
  <2>. QED
    BY <1>3, <2>1, <2>2
<1>8. rules \in Seq(Updates) /\ Push(u)
  BY <1>2 DEF RuleInv, TypeOK, DeletePush
<1>. QED
  BY <1>6, <1>7, <1>8, PushSays

\* A dying processor makes stale what its maps and its hand held, and what the
\* maps below hold, so that nothing was and nothing is installed at other keys.
LEMMA GoneEntries ==
  ASSUME NEW below, ProcessorGone(below), NEW k \in Keys, k \notin stale'
  PROVE  /\ k \notin stale /\ ~HeldAt(k) /\ ~HeldAt(k)'
         /\ fingerprints_map[k] = Absent /\ actions_map[k] = Absent
         /\ fingerprints_map'[k] = Absent /\ actions_map'[k] = Absent
<1>1. k \notin stale /\ k \notin KeysIn(Own) /\ k \notin KeysIn(below) /\ k \notin KeysInHand
  BY DEF ProcessorGone
<1>2. ~HeldAt(k) /\ fingerprints_map[k] = Absent /\ actions_map[k] = Absent
  BY <1>1 DEF HeldAt, KeysInHand, KeysIn, Own
<1>3. ~HeldAt(k)' /\ fingerprints_map'[k] = Absent /\ actions_map'[k] = Absent
  BY <1>1 DEF HeldAt, ProcessorGone, KeysIn
<1>. QED
  BY <1>1, <1>2, <1>3

LEMMA ProcessorGoneInSync ==
  ASSUME RuleInv, RuleInv', CleanInSync, NEW below, ProcessorGone(below)
  PROVE  CleanInSync'
<1>. SUFFICES ASSUME NEW k \in Keys, k \in Clean \ stale'
              PROVE  EventualEntry(k)' = Wanted(Listed', k)
  BY DEF CleanInSync, Clean
<1>1. EventualEntry(k) = Wanted(Listed, k)
  BY GoneEntries DEF CleanInSync
<1>2. ~HeldAt(k) /\ fingerprints_map[k] = Absent /\ actions_map[k] = Absent
  BY GoneEntries
<1>3. ~HeldAt(k)' /\ fingerprints_map'[k] = Absent /\ actions_map'[k] = Absent
  BY GoneEntries
<1>4. (DueAt(k)' <=> DueAt(k)) /\ Listed' = Listed /\ rules' = rules
  BY DEF DueAt, Listed, ProcessorGone, analyzer
<1>5. EventualEntry(k)' = EventualEntry(k)
  BY <1>2, <1>3, <1>4, EventualInCases, EventualNext DEF EventualCases, Entry
<1>. QED
  BY <1>1, <1>4, <1>5

\* A step of the processor that leaves each key's entry to come as it is.
LEMMA ProcessorInSync ==
  ASSUME CleanInSync, UNCHANGED <<analyzer, stale>>,
         \A k \in Keys : EventualEntry(k)' = EventualEntry(k)
  PROVE  CleanInSync'
<1>1. Listed' = Listed
  BY DEF Listed, analyzer
<1>. QED
  BY <1>1 DEF CleanInSync, Clean

\* A processor that starts takes nothing over; what it does not, nobody wants
\* any more, or a fault has hit, or an update will say.
LEMMA ProcessorStartInSync ==
  ASSUME RuleInv, RuleInv', CleanInSync, DownInv, ProcessorStart
  PROVE  CleanInSync'
<1>. SUFFICES ASSUME NEW k \in Keys, k \in Clean \ stale'
              PROVE  EventualEntry(k)' = Wanted(Listed', k)
  BY DEF CleanInSync, Clean
<1>1. EventualEntry(k) = Wanted(Listed, k)
  BY DEF CleanInSync, ProcessorStart
<1>2. Carries(rules, k) \/ (fingerprints_map[k] = Absent /\ actions_map[k] = Absent)
  BY DEF DownInv, ProcessorStart
<1>3. /\ ~HeldAt(k) /\ ~HeldAt(k)'
      /\ fingerprints_map'[k] = Absent /\ actions_map'[k] = Absent
  BY DEF HeldAt, ProcessorStart, Empty, RuleInv, UpdateInv
<1>4. (DueAt(k)' <=> DueAt(k)) /\ Listed' = Listed /\ rules' = rules
  BY DEF DueAt, Listed, ProcessorStart, analyzer
<1>5. EventualEntry(k)' = EventualEntry(k)
  BY <1>2, <1>3, <1>4, EventualInCases, EventualNext DEF EventualCases, Entry
<1>. QED
  BY <1>1, <1>4, <1>5

LEMMA LoopInSync ==
  ASSUME RuleInv, RuleInv', CleanInSync, Signal \/ LoopTest \/ PopEmpty
  PROVE  CleanInSync'
<1>1. UNCHANGED <<analyzer, rules, fingerprints_map, actions_map, procRule, stale>>
  BY DEF Signal, LoopTest, PopEmpty, maps
<1>2. \A k \in Keys : EventualEntry(k)' = EventualEntry(k)
  BY <1>1, EventualInCases, EventualNext DEF EventualCases, DueAt, HeldAt, analyzer, Entry
<1>. QED
  BY <1>1, <1>2, ProcessorInSync

\* Pop moves an update from the ring into the processor's hand: the order in
\* which the updates are on their way is the same.
LEMMA PopInSync ==
  ASSUME RuleInv, RuleInv', CleanInSync, Pop
  PROVE  CleanInSync'
<1>1. PICK u \in Updates : u = Head(rules) /\ procRule' = u
  BY DEF Pop, RuleInv, TypeOK
<1>2. /\ rules' \in Seq(Updates) /\ rules = <<u>> \o rules' /\ <<u>> \in Seq(Updates)
      /\ UNCHANGED <<analyzer, fingerprints_map, actions_map, stale>>
      /\ procRule = NoRule /\ u # NoRule
  BY <1>1 DEF Pop, RuleInv, TypeOK, UpdateInv, maps
<1>3. ASSUME NEW k \in Keys PROVE EventualEntry(k)' = EventualEntry(k)
  <2>1. /\ ~HeldAt(k)
        /\ HeldAt(k)' <=> KeyOfRule(u) = k
        /\ DueAt(k)' <=> DueAt(k)
    BY <1>1, <1>2 DEF HeldAt, DueAt, analyzer
  <2>2. /\ Carries(rules, k) <=> KeyOfRule(u) = k \/ Carries(rules', k)
        /\ Carries(rules', k) => Latest(rules, k) = Latest(rules', k)
        /\ ~Carries(rules', k) /\ KeyOfRule(u) = k => Latest(rules, k) = u
    <3>. DEFINE one == <<u>>
    <3>1. /\ one \in Seq(Updates) /\ rules = one \o rules'
          /\ Carries(one, k) <=> KeyOfRule(u) = k
          /\ KeyOfRule(u) = k => Latest(one, k) = u
      BY <1>2, LatestOfOne
    <3>. HIDE DEF one
    <3>2. /\ Carries(one \o rules', k) <=> Carries(one, k) \/ Carries(rules', k)
          /\ Carries(rules', k) => Latest(one \o rules', k) = Latest(rules', k)
          /\ ~Carries(rules', k) /\ Carries(one, k) => Latest(one \o rules', k) = Latest(one, k)
      BY <1>2, <3>1, LatestOfConcat
    <3>. QED
      BY <3>1, <3>2
  <2>. QED
    BY <1>1, <1>2, <2>1, <2>2, EventualInCases, EventualNext DEF EventualCases, Entry
<1>. QED
  BY <1>2, <1>3, ProcessorInSync

\* Halves of an update change the maps at its key only, where the update in
\* hand, or a later one, decides; its second half makes them what it says.
LEMMA InsertPatternInSync ==
  ASSUME RuleInv, RuleInv', CleanInSync, InsertPattern
  PROVE  CleanInSync'
<1>1. CASE ~HasRoom(fingerprints_map, KeyOfRule(procRule))
  BY <1>1, ProcessorGoneInSync DEF InsertPattern, Unwind
<1>2. CASE HasRoom(fingerprints_map, KeyOfRule(procRule))
  <2>1. /\ fingerprints_map' = [fingerprints_map EXCEPT ![KeyOfRule(procRule)] = procRule.pattern]
        /\ UNCHANGED <<analyzer, rules, actions_map, procRule, stale>>
        /\ procRule # NoRule
    BY <1>2 DEF InsertPattern, RuleInv, UpdateInv
  <2>2. ASSUME NEW k \in Keys PROVE EventualEntry(k)' = EventualEntry(k)
    <3>1. /\ HeldAt(k)' <=> HeldAt(k)
          /\ DueAt(k)' <=> DueAt(k)
          /\ HeldAt(k) \/ fingerprints_map'[k] = fingerprints_map[k]
      BY <2>1 DEF HeldAt, DueAt, analyzer, RuleInv, TypeOK
    <3>. QED
      BY <2>1, <3>1, EventualInCases, EventualNext DEF EventualCases, Entry
  <2>. QED
    BY <2>1, <2>2, ProcessorInSync
<1>. QED
  BY <1>1, <1>2

LEMMA RemovePatternInSync ==
  ASSUME RuleInv, RuleInv', CleanInSync, RemovePattern
  PROVE  CleanInSync'
<1>1. /\ fingerprints_map' = [fingerprints_map EXCEPT ![KeyOfRule(procRule)] = Absent]
      /\ UNCHANGED <<analyzer, rules, actions_map, procRule, stale>>
      /\ procRule # NoRule
  BY DEF RemovePattern, RuleInv, UpdateInv
<1>2. ASSUME NEW k \in Keys PROVE EventualEntry(k)' = EventualEntry(k)
  <2>1. /\ HeldAt(k)' <=> HeldAt(k)
        /\ DueAt(k)' <=> DueAt(k)
        /\ HeldAt(k) \/ fingerprints_map'[k] = fingerprints_map[k]
    BY <1>1 DEF HeldAt, DueAt, analyzer, RuleInv, TypeOK
  <2>. QED
    BY <1>1, <2>1, EventualInCases, EventualNext DEF EventualCases, Entry
<1>. QED
  BY <1>1, <1>2, ProcessorInSync

LEMMA InsertActionInSync ==
  ASSUME RuleInv, RuleInv', CleanInSync, InsertAction
  PROVE  CleanInSync'
<1>1. /\ procRule.action # DELETE /\ procRule # NoRule /\ procRule' = NoRule
      /\ fingerprints_map[KeyOfRule(procRule)] = procRule.pattern
      /\ actions_map' = [actions_map EXCEPT ![KeyOfRule(procRule)] = procRule.action]
      /\ UNCHANGED <<analyzer, rules, fingerprints_map, stale>>
  BY InsertActionMoves DEF RuleInv, UpdateInv
<1>2. ASSUME NEW k \in Keys PROVE EventualEntry(k)' = EventualEntry(k)
  <2>1. /\ ~HeldAt(k)'
        /\ DueAt(k)' <=> DueAt(k)
    BY <1>1 DEF HeldAt, DueAt, analyzer
  <2>2. HeldAt(k) => <<fingerprints_map'[k], actions_map'[k]>> = Entry(procRule)
    BY <1>1 DEF HeldAt, Entry, RuleInv, TypeOK
  <2>3. HeldAt(k) \/ actions_map'[k] = actions_map[k]
    BY <1>1 DEF HeldAt, RuleInv, TypeOK
  <2>. QED
    BY <1>1, <2>1, <2>2, <2>3, EventualInCases, EventualNext DEF EventualCases
<1>. QED
  BY <1>1, <1>2, ProcessorInSync

LEMMA RemoveActionInSync ==
  ASSUME RuleInv, RuleInv', CleanInSync, RemoveAction
  PROVE  CleanInSync'
<1>1. /\ procRule.action = DELETE /\ procRule # NoRule /\ procRule' = NoRule
      /\ fingerprints_map[KeyOfRule(procRule)] = Absent
      /\ actions_map' = [actions_map EXCEPT ![KeyOfRule(procRule)] = Absent]
      /\ UNCHANGED <<analyzer, rules, fingerprints_map, stale>>
  BY DEF RemoveAction, RuleInv, UpdateInv, MapInv
<1>2. ASSUME NEW k \in Keys PROVE EventualEntry(k)' = EventualEntry(k)
  <2>1. /\ ~HeldAt(k)'
        /\ DueAt(k)' <=> DueAt(k)
    BY <1>1 DEF HeldAt, DueAt, analyzer
  <2>2. HeldAt(k) => <<fingerprints_map'[k], actions_map'[k]>> = Entry(procRule)
    BY <1>1 DEF HeldAt, Entry, RuleInv, TypeOK
  <2>3. HeldAt(k) \/ actions_map'[k] = actions_map[k]
    BY <1>1 DEF HeldAt, RuleInv, TypeOK
  <2>. QED
    BY <1>1, <2>1, <2>2, <2>3, EventualInCases, EventualNext DEF EventualCases
<1>. QED
  BY <1>1, <1>2, ProcessorInSync

\* The ring keeps an update until a processor that is up pops it.
LEMMA NextDownInv ==
  ASSUME RuleInv, RuleInv', DownInv, [Next]_vars
  PROVE  DownInv'
<1>. SUFFICES ASSUME procPc' = "down", NEW k \in Keys, k \notin stale'
              PROVE  \/ Carries(rules', k)
                     \/ fingerprints_map'[k] = Absent /\ actions_map'[k] = Absent
  BY DEF DownInv
<1>1. ASSUME NEW u \in Updates, Push(u), UNCHANGED processor
      PROVE  \/ Carries(rules', k)
             \/ fingerprints_map'[k] = Absent /\ actions_map'[k] = Absent
  <2>1. rules \in Seq(Updates)
    BY DEF RuleInv, TypeOK
  <2>2. k \notin stale => \/ Carries(rules, k)
                          \/ fingerprints_map[k] = Absent /\ actions_map[k] = Absent
    BY <1>1 DEF DownInv, processor
  <2>. QED
    BY <1>1, <2>1, <2>2, PushSays DEF processor, maps
<1>2. ASSUME NEW below, ProcessorGone(below)
      PROVE  fingerprints_map'[k] = Absent /\ actions_map'[k] = Absent
  BY <1>2, GoneEntries
<1>3. ASSUME UNCHANGED <<rules, processor, stale>>
      PROVE  \/ Carries(rules', k)
             \/ fingerprints_map'[k] = Absent /\ actions_map'[k] = Absent
  BY <1>3 DEF DownInv, processor, maps
<1>4. CASE Request
  BY <1>3, <1>4 DEF Request, CreateLock, DeleteRetain
<1>5. CASE Handle
  <2>1. PICK h \in Handlers : CreatePush(h) \/ CreateStore(h) \/ DeletePush(h)
    BY <1>5 DEF Handle
  <2>2. CASE CreatePush(h)
    <3>1. hReq[h] \in Updates /\ Push(hReq[h]) /\ UNCHANGED processor
      BY <2>2, UpdateKeys DEF CreatePush, RuleInv, LockInv, TypeOK
    <3>. QED
      BY <1>1, <3>1
  <2>3. CASE DeletePush(h)
    <3>1. hReq[h] \in Updates /\ Push(hReq[h]) /\ UNCHANGED processor
      BY <2>3, UpdateKeys DEF DeletePush, RuleInv, LockInv, TypeOK
    <3>. QED
      BY <1>1, <3>1
  <2>4. CASE CreateStore(h)
    BY <1>3, <2>4 DEF CreateStore
  <2>. QED
    BY <2>1, <2>2, <2>3, <2>4
<1>6. CASE Fault
  <2>1. CASE AnalyzerCrash
    BY <2>1 DEF AnalyzerCrash
  <2>2. CASE ProcessorCrash
    BY <1>2, <2>2 DEF ProcessorCrash, Unwind
  <2>3. CASE Signal
    BY <2>3 DEF Signal
  <2>. QED
    BY <1>6, <2>1, <2>2, <2>3 DEF Fault
<1>7. CASE ProcessorStep
  <2>1. Unwind
    BY <1>7 DEF ProcessorStep, ProcessorStart, LoopTest, Detach, Pop, PopEmpty, InsertPattern,
                InsertAction, RemovePattern, RemoveAction
  <2>. QED
    BY <1>2, <2>1 DEF Unwind
<1>8. CASE UNCHANGED vars
  BY <1>3, <1>8 DEF vars
<1>. QED
  BY <1>4, <1>5, <1>6, <1>7, <1>8 DEF Next

LEMMA DownInvAlways == Spec => []DownInv
<1>1. Init => DownInv
  BY DEF Init, Empty, DownInv
<1>2. RuleInv /\ RuleInv' /\ DownInv /\ [Next]_vars => DownInv'
  BY NextDownInv
<1>. QED
  BY <1>1, <1>2, RuleInvAlways, PTL DEF Spec

LEMMA NextInSync ==
  ASSUME RuleInv, RuleInv', DownInv, CleanInSync, [Next]_vars
  PROVE  CleanInSync'
<1>1. CASE Request
  BY <1>1, CreateLockInSync, DeleteRetainInSync DEF Request
<1>2. CASE Handle
  BY <1>2, CreatePushInSync, CreateStoreInSync, DeletePushInSync DEF Handle
<1>3. CASE Fault
  <2>1. CASE AnalyzerCrash
    BY <2>1 DEF AnalyzerCrash, CleanInSync, Clean
  <2>. QED
    BY <1>3, <2>1, ProcessorGoneInSync, LoopInSync DEF Fault, ProcessorCrash, Unwind
<1>4. CASE ProcessorStep
  BY <1>4, ProcessorStartInSync, LoopInSync, ProcessorGoneInSync, PopInSync, InsertPatternInSync,
     InsertActionInSync, RemovePatternInSync, RemoveActionInSync DEF ProcessorStep, Detach, Unwind
<1>5. CASE UNCHANGED vars
  <2>1. UNCHANGED <<analyzer, rules, fingerprints_map, actions_map, procRule, stale>>
    BY <1>5 DEF vars, processor, maps
  <2>2. \A k \in Keys : EventualEntry(k)' = EventualEntry(k)
    BY <2>1, EventualInCases, EventualNext DEF EventualCases, DueAt, HeldAt, analyzer, Entry
  <2>. QED
    BY <2>1, <2>2, ProcessorInSync
<1>. QED
  BY <1>1, <1>2, <1>3, <1>4, <1>5 DEF Next

\* At every key that no two ids share and under which no rule has the deletion's
\* code for its action, whatever the rules of other keys do: the updates on their
\* way are exactly the difference between the analyzer's list and the maps, unless
\* a fault hit the rule since its last accepted update.
THEOREM CleanKeysInSync == Spec => []CleanInSync
<1>1. Init => CleanInSync
  <2>. SUFFICES ASSUME Init, NEW k \in Keys PROVE EventualEntry(k) = Wanted(Listed, k)
    BY DEF CleanInSync, Clean
  <2>1. rules = <<>> /\ procRule = NoRule /\ lock = NoHandler /\ fps = <<>>
          /\ fingerprints_map[k] = Absent /\ actions_map[k] = Absent
    BY DEF Init, Empty
  <2>2. ~Carries(rules, k) /\ ~DueAt(k) /\ ~HeldAt(k)
    BY <2>1, NothingCarried DEF DueAt, HeldAt
  <2>3. RuleInv
    BY InitRuleInv
  <2>4. Wanted(Listed, k) = <<Absent, Absent>>
    BY <2>1, NothingCarried DEF Listed, Wanted
  <2>. QED
    BY <2>1, <2>2, <2>3, <2>4, EventualInCases DEF EventualCases
<1>2. RuleInv /\ RuleInv' /\ DownInv /\ CleanInSync /\ [Next]_vars => CleanInSync'
  BY NextInSync
<1>. QED
  BY <1>1, <1>2, RuleInvAlways, DownInvAlways, PTL DEF Spec

\* What holds of the maps without exceptions for a clean key that no fault has
\* hit: once the ring is drained and nobody is at work, the processor's two maps
\* say of it what the analyzer's list does.  (MapsFollowRules drops the exceptions.)
CleanMapsFollowRules ==
  (procRule = NoRule /\ rules = <<>> /\ lock = NoHandler) =>
    \A k \in Clean \ stale : Table[k] = Wanted(fps, k)
THEOREM QuietMapsFollowRules == Spec => []CleanMapsFollowRules
<1>1. ASSUME CleanInSync, procRule = NoRule, rules = <<>>, lock = NoHandler, NEW k \in Clean \ stale
      PROVE  Table[k] = Wanted(fps, k)
  <2>1. OnItsWay = <<>> /\ Listed = fps
    BY <1>1 DEF OnItsWay, InHand, Promised, Listed
  <2>2. ~Carries(OnItsWay, k)
    BY <2>1, NothingCarried
  <2>. QED
    BY <1>1, <2>1, <2>2 DEF CleanInSync, EventualEntry
<1>2. CleanInSync => CleanMapsFollowRules
  BY <1>1 DEF CleanMapsFollowRules
<1>. QED
  BY <1>2, CleanKeysInSync, PTL

\* InSync, for rules of which none has the deletion's code for its action and
\* no two have one key: list, updates on their way and maps agree at every key
\* but those a fault hit.
THEOREM RulesInSync ==
  ASSUME NoSentinel, NoCollision
  PROVE  Spec => []InSync
<1>1. Clean = Keys
  BY DEF NoSentinel, NoCollision, Clean
<1>2. CleanInSync => InSync
  BY <1>1 DEF CleanInSync, InSync
<1>. QED
  BY <1>2, CleanKeysInSync, PTL

-----------------------------------------------------------------------------
\* The kernel's program.

USE SizeAssumption, NoVerdictAssumption

\* The kernel runs beside RuleSync and takes none of its steps from it.
LEMMA PathStepIsRuleStep ==
  ASSUME [PathNext]_pathVars
  PROVE  [Next]_vars
  BY DEF PathNext, pathVars, PacketArrives, LookupPattern, LookupAction, ScanEnds, PacketLeaves, RuleStep

\* Whatever is proved of RuleSync holds beside the kernel's program too: the
\* program only reads the maps, and stops the daemon from nothing but ending
\* while a packet's run is under way.
THEOREM KernelOnlyReads == PathSpec => Spec
<1>1. PathInit => Init
  BY DEF PathInit
<1>. QED
  BY <1>1, PathStepIsRuleStep, PTL DEF PathSpec, Spec

LEMMA PathRuleInv == PathSpec => []RuleInv
<1>1. PathInit => RuleInv
  BY InitRuleInv DEF PathInit
<1>2. RuleInv /\ [PathNext]_pathVars => RuleInv'
  BY PathStepIsRuleStep, NextRuleInv
<1>. QED
  BY <1>1, <1>2, PTL DEF PathSpec

-----------------------------------------------------------------------------
\* Where the run of the program is and what it holds: no verdict while it
\* scans, and half of one, of the key it is at, between the two lookups.
RunInv ==
  /\ kPc \in {"none", "scan"} => verdict = NoVerdict
  /\ kPc = "act" => /\ scanId < MaxEntries /\ scanId \in Keys
                    /\ \E pat \in Patterns :
                         verdict = [key |-> scanId, pattern |-> pat, action |-> Absent]
PathInv == PathTypeOK /\ RunInv

LEMMA NextPathInv ==
  ASSUME RuleInv, RuleInv', PathInv, [PathNext]_pathVars
  PROVE  PathInv'
<1>. USE DEF PathInv
<1>0. KeysInHand \subseteq Keys /\ left.torn \subseteq Keys
  BY UpdateKeys DEF KeysInHand, RuleInv, TypeOK
<1>1. CASE PacketArrives
  <2>1. 0 \in 0..MaxEntries /\ busy' \subseteq Keys
    BY <1>0, <1>1 DEF PacketArrives
  <2>. QED
    BY <1>1, <2>1 DEF PacketArrives, PathTypeOK, RunInv, Installed, vars
<1>2. CASE LookupPattern
  <2>1. CASE PatternAt(scanId) \in packet
    <3>1. scanId \in Keys /\ PatternAt(scanId) \in Patterns
      BY <2>1 DEF PathTypeOK, PatternAt
    <3>2. /\ verdict' = [key |-> scanId, pattern |-> PatternAt(scanId), action |-> Absent]
          /\ kPc' = "act" /\ scanId < MaxEntries
          /\ UNCHANGED <<scanId, packet, untouched, busy>>
      BY <1>2, <2>1 DEF LookupPattern
    <3>. QED
      BY <3>1, <3>2 DEF PathTypeOK, RunInv, Verdicts
  <2>2. CASE PatternAt(scanId) \notin packet
    BY <1>2, <2>2 DEF LookupPattern, PathTypeOK, RunInv
  <2>. QED
    BY <2>1, <2>2
<1>3. CASE LookupAction
  <2>1. CASE actions_map[scanId] = Absent
    BY <1>3, <2>1 DEF LookupAction, PathTypeOK, RunInv
  <2>2. CASE actions_map[scanId] # Absent
    <3>1. verdict' = [verdict EXCEPT !.action = actions_map[scanId]]
            /\ kPc' = "done" /\ UNCHANGED <<scanId, packet, untouched, busy>>
      BY <1>3, <2>2 DEF LookupAction
    <3>2. PICK pat \in Patterns : verdict = [key |-> scanId, pattern |-> pat, action |-> Absent]
      BY <1>3 DEF LookupAction, RunInv
    <3>3. scanId \in Keys /\ actions_map[scanId] \in ActionCodes
      BY <1>3, <2>2 DEF LookupAction, RunInv, RuleInv, TypeOK
    <3>. QED
      BY <3>1, <3>2, <3>3 DEF PathTypeOK, RunInv, Verdicts
  <2>. QED
    BY <2>1, <2>2
<1>4. CASE ScanEnds
  BY <1>4 DEF ScanEnds, PathTypeOK, RunInv
<1>5. CASE PacketLeaves
  <2>1. 0 \in 0..MaxEntries
    OBVIOUS
  <2>. QED
    BY <1>5, <2>1 DEF PacketLeaves, PathTypeOK, RunInv
<1>6. CASE RuleStep
  <2>1. KeysInHand' \subseteq Keys
    BY UpdateKeys DEF KeysInHand, RuleInv, TypeOK
  <2>. QED
    BY <1>6, <2>1 DEF RuleStep, PathTypeOK, RunInv
<1>7. CASE UNCHANGED pathVars
  BY <1>7 DEF pathVars, kernel, PathTypeOK, RunInv
<1>. QED
  BY <1>1, <1>2, <1>3, <1>4, <1>5, <1>6, <1>7 DEF PathNext

LEMMA PathInvAlways == PathSpec => []PathInv
<1>1. PathInit => PathInv
  <2>1. 0 \in 0..MaxEntries
    OBVIOUS
  <2>. QED
    BY <2>1 DEF PathInit, PathInv, PathTypeOK, RunInv
<1>2. RuleInv /\ RuleInv' /\ PathInv /\ [PathNext]_pathVars => PathInv'
  BY NextPathInv
<1>. QED
  BY <1>1, <1>2, PathRuleInv, PTL DEF PathSpec

-----------------------------------------------------------------------------
\* Each entry of either map, of the first program's and of the one's below, comes
\* from a posted rule of its key; a half verdict has the pattern of such a rule,
\* and a verdict also the action of one.
OriginIn(patterns, actions, k) ==
  /\ patterns[k] # Absent => \E f \in posted : KeyOfRule(f) = k /\ f.pattern = patterns[k]
  /\ actions[k] # Absent => \E f \in posted : KeyOfRule(f) = k /\ f.action = actions[k]
Origin(k) == /\ OriginIn(fingerprints_map, actions_map, k)
             /\ OriginIn(left.fingerprints, left.actions, k)
VerdictFromOneKey ==
  (kPc = "done" /\ verdict # NoVerdict) =>
    \E f, g \in posted : /\ KeyOfRule(f) = KeyOfRule(g) /\ KeyOfRule(f) < MaxEntries
                         /\ verdict = [key |-> KeyOfRule(f), pattern |-> f.pattern,
                                       action |-> g.action]
OriginInv ==
  /\ \A k \in Keys : Origin(k)
  /\ kPc = "act" => \E f \in posted : KeyOfRule(f) = scanId /\ f.pattern = verdict.pattern
  /\ VerdictFromOneKey

\* What a step of RuleSync does to the maps, at any key: they stay as they are,
\* are emptied, or take in the pattern or the action of the rule in hand, which
\* was posted; or the maps of a program left behind come in their place.
MapStep(k) ==
  \/ /\ fingerprints_map'[k] \in {fingerprints_map[k], Absent}
          \/ \E f \in posted : KeyOfRule(f) = k /\ f.pattern = fingerprints_map'[k]
     /\ actions_map'[k] \in {actions_map[k], Absent}
          \/ \E f \in posted : KeyOfRule(f) = k /\ f.action = actions_map'[k]
     /\ left' = left
  \/ /\ left' \in {left, Own}
     /\ fingerprints_map' = left'.fingerprints /\ actions_map' = left'.actions

LEMMA MapsFromPosted ==
  ASSUME RuleInv, [Next]_vars, NEW k \in Keys
  PROVE  posted \subseteq posted' /\ MapStep(k)
<1>. DEFINE P == posted \subseteq posted' /\ MapStep(k)
<1>0. ASSUME NEW below \in {left, Own}, ProcessorGone(below) PROVE P
  BY <1>0 DEF ProcessorGone, MapStep
<1>1. CASE Request
  BY <1>1 DEF Request, CreateLock, DeleteRetain, processor, maps, MapStep
<1>2. CASE Handle
  BY <1>2 DEF Handle, CreatePush, CreateStore, DeletePush, processor, maps, MapStep
<1>3. CASE Fault
  <2>1. ProcessorCrash => P
    BY <1>0 DEF ProcessorCrash, Unwind
  <2>2. AnalyzerCrash \/ Signal => P
    BY DEF AnalyzerCrash, Signal, processor, maps, MapStep
  <2>. QED
    BY <1>3, <2>1, <2>2 DEF Fault
<1>4. CASE ProcessorStep
  <2>0. Unwind => P
    BY <1>0 DEF Unwind
  <2>1. InsertPattern => P
    BY <2>0 DEF InsertPattern, RuleInv, UpdateInv, TypeOK, MapStep
  <2>2. InsertAction => P
    BY InsertActionMoves DEF RuleInv, TypeOK, MapStep
  <2>3. RemovePattern \/ RemoveAction => P
    BY DEF RemovePattern, RemoveAction, RuleInv, TypeOK, MapStep
  <2>4. ProcessorStart \/ LoopTest \/ Pop \/ PopEmpty => P
    BY DEF ProcessorStart, LoopTest, Pop, PopEmpty, maps, Empty, MapStep
  <2>. QED
    BY <1>4, <2>0, <2>1, <2>2, <2>3, <2>4 DEF ProcessorStep, Detach
<1>5. CASE UNCHANGED vars
  BY <1>5 DEF vars, processor, maps, MapStep
<1>. QED
  BY <1>1, <1>2, <1>3, <1>4, <1>5 DEF Next

LEMMA PostedGrows ==
  ASSUME RuleInv, [Next]_vars
  PROVE  posted \subseteq posted'
  BY InsertActionMoves
     DEF Next, vars, Request, CreateLock, DeleteRetain, Handle, CreatePush, CreateStore, DeletePush,
         Fault, AnalyzerCrash, ProcessorCrash, ProcessorGone, Unwind, Signal, ProcessorStep,
         ProcessorStart, LoopTest, Detach, Pop, PopEmpty, InsertPattern, RemovePattern, RemoveAction

LEMMA OriginsKept ==
  ASSUME RuleInv, OriginInv, [Next]_vars
  PROVE  (\A k \in Keys : Origin(k)') /\ posted \subseteq posted'
<1>1. posted \subseteq posted'
  BY PostedGrows
<1>2. ASSUME NEW k \in Keys PROVE Origin(k)'
  <2>1. Origin(k) /\ MapStep(k)
    BY MapsFromPosted DEF OriginInv
  <2>2. CASE left' \in {left, Own} /\ fingerprints_map' = left'.fingerprints /\ actions_map' = left'.actions
    <3>1. OriginIn(left'.fingerprints, left'.actions, k)
      BY <2>1, <2>2 DEF Origin, Own
    <3>. QED
      BY <1>1, <2>2, <3>1 DEF Origin, OriginIn
  <2>3. CASE /\ fingerprints_map'[k] \in {fingerprints_map[k], Absent}
                  \/ \E f \in posted : KeyOfRule(f) = k /\ f.pattern = fingerprints_map'[k]
             /\ actions_map'[k] \in {actions_map[k], Absent}
                  \/ \E f \in posted : KeyOfRule(f) = k /\ f.action = actions_map'[k]
             /\ left' = left
    <3>1. OriginIn(fingerprints_map', actions_map', k) /\ OriginIn(left'.fingerprints, left'.actions, k)
      BY <2>1, <2>3 DEF Origin, OriginIn
    <3>. QED
      BY <1>1, <3>1 DEF Origin, OriginIn
  <2>. QED
    BY <2>1, <2>2, <2>3 DEF MapStep
<1>. QED
  BY <1>1, <1>2

LEMMA NextOriginInv ==
  ASSUME RuleInv, PathInv, OriginInv, [PathNext]_pathVars
  PROVE  OriginInv'
<1>1. (\A k \in Keys : Origin(k)') /\ posted \subseteq posted'
  BY OriginsKept, PathStepIsRuleStep
<1>2. CASE UNCHANGED <<kPc, scanId, verdict>>
  BY <1>1, <1>2 DEF OriginInv, VerdictFromOneKey
<1>3. CASE PacketArrives \/ PacketLeaves
  BY <1>1, <1>3 DEF PacketArrives, PacketLeaves, OriginInv, VerdictFromOneKey
<1>4. CASE LookupPattern
  <2>1. CASE PatternAt(scanId) \in packet
    <3>1. scanId \in Keys /\ PatternAt(scanId) = fingerprints_map[scanId] /\ PatternAt(scanId) # Absent
      BY <2>1 DEF PathInv, PathTypeOK, PatternAt
    <3>2. \E f \in posted : KeyOfRule(f) = scanId /\ f.pattern = PatternAt(scanId)
      BY <3>1 DEF OriginInv, Origin, OriginIn
    <3>. QED
      BY <1>1, <1>4, <2>1, <3>2 DEF LookupPattern, OriginInv, VerdictFromOneKey
  <2>2. CASE PatternAt(scanId) \notin packet
    BY <1>1, <1>4, <2>2 DEF LookupPattern, OriginInv, VerdictFromOneKey
  <2>. QED
    BY <2>1, <2>2
<1>5. CASE LookupAction
  <2>1. CASE actions_map[scanId] = Absent
    BY <1>1, <1>5, <2>1 DEF LookupAction, OriginInv, VerdictFromOneKey
  <2>2. CASE actions_map[scanId] # Absent
    <3>1. PICK f \in posted : KeyOfRule(f) = scanId /\ f.pattern = verdict.pattern
      BY <1>5 DEF LookupAction, OriginInv
    <3>2. PICK g \in posted : KeyOfRule(g) = scanId /\ g.action = actions_map[scanId]
      BY <1>5, <2>2 DEF LookupAction, OriginInv, Origin, OriginIn, PathInv, RunInv
    <3>3. KeyOfRule(f) = scanId /\ KeyOfRule(g) = scanId /\ scanId < MaxEntries
      BY <1>5, <3>1, <3>2 DEF LookupAction, PathInv, RunInv
    <3>4. PICK pat \in Patterns : verdict = [key |-> scanId, pattern |-> pat, action |-> Absent]
      BY <1>5 DEF LookupAction, PathInv, RunInv
    <3>5. verdict' = [key |-> KeyOfRule(f), pattern |-> f.pattern, action |-> g.action] /\ kPc' = "done"
      BY <1>5, <2>2, <3>1, <3>2, <3>3, <3>4 DEF LookupAction
    <3>6. VerdictFromOneKey'
      BY <1>1, <3>3, <3>5 DEF VerdictFromOneKey
    <3>. QED
      BY <1>1, <3>5, <3>6 DEF OriginInv
  <2>. QED
    BY <2>1, <2>2
<1>6. CASE ScanEnds
  BY <1>1, <1>6 DEF ScanEnds, PathInv, RunInv, OriginInv, VerdictFromOneKey
<1>. QED
  BY <1>2, <1>3, <1>4, <1>5, <1>6 DEF PathNext, RuleStep, pathVars, kernel

LEMMA OriginInvAlways == PathSpec => []OriginInv
<1>1. PathInit => OriginInv
  BY DEF PathInit, Init, Empty, NothingLeft, OriginInv, Origin, OriginIn, VerdictFromOneKey
<1>2. RuleInv /\ PathInv /\ OriginInv /\ [PathNext]_pathVars => OriginInv'
  BY NextOriginInv
<1>. QED
  BY <1>1, <1>2, PathRuleInv, PathInvAlways, PTL DEF PathSpec

\* Whatever rules are posted, however their ids and keys coincide: what is applied
\* to a packet is the pattern and the action of posted rules of one key, one that
\* the scan reaches.  So both are of one rule wherever no second has been posted
\* under its key, and no rule of a key from MaxEntries on is ever applied.
THEOREM VerdictOfOneKey == PathSpec => []VerdictFromOneKey
<1>1. OriginInv => VerdictFromOneKey
  BY DEF OriginInv
<1>. QED
  BY <1>1, OriginInvAlways, PTL

\* While a packet's run is under way, the maps at the keys that the processor has
\* not been at work on since its arrival are as they were then, and in pairs; so
\* is a half verdict there the first half of the pair.
BusyInv ==
  /\ kPc \in {"scan", "act"} => KeysInHand \subseteq busy /\ \A k \in Keys \ busy : Paired(k)
  /\ kPc = "act" /\ scanId \notin busy => verdict.pattern = fingerprints_map[scanId]
  /\ VerdictFromOneRule

\* At every key but that of an update in hand, or of one a killed processor held.
LEMMA PairedElsewhere ==
  ASSUME RuleInv, NEW k \in Keys, k \notin (IF procPc = "down" THEN left.torn ELSE KeysInHand)
  PROVE  Paired(k)
  BY DEF RuleInv, MapInv, UpdateInv, Halfway, KeysInHand

\* A step of the processor writes at the key in its hand, unless it starts or ends.
LEMMA WritesInHand ==
  ASSUME RuleInv, Next, procPc # "down", procPc' # "down", NEW k \in Keys \ KeysInHand
  PROVE  fingerprints_map'[k] = fingerprints_map[k] /\ actions_map'[k] = actions_map[k]
<1>1. Request \/ Handle => UNCHANGED maps
  BY DEF Request, CreateLock, DeleteRetain, Handle, CreatePush, CreateStore, DeletePush, processor
<1>2. Fault => UNCHANGED maps
  BY DEF Fault, AnalyzerCrash, ProcessorCrash, Unwind, ProcessorGone, Signal, processor
<1>3. ProcessorStart \/ LoopTest \/ Detach \/ Pop \/ PopEmpty => UNCHANGED maps
  BY DEF ProcessorStart, LoopTest, Detach, Unwind, ProcessorGone, Pop, PopEmpty
<1>4. ASSUME InsertPattern \/ RemovePattern \/ RemoveAction
      PROVE  fingerprints_map'[k] = fingerprints_map[k] /\ actions_map'[k] = actions_map[k]
  <2>1. k # KeyOfRule(procRule)
    BY <1>4 DEF KeysInHand, InsertPattern, RemovePattern, RemoveAction, RuleInv, UpdateInv
  <2>. QED
    BY <1>4, <2>1 DEF InsertPattern, RemovePattern, RemoveAction, Unwind, ProcessorGone, RuleInv, TypeOK
<1>5. ASSUME InsertAction
      PROVE  fingerprints_map'[k] = fingerprints_map[k] /\ actions_map'[k] = actions_map[k]
  <2>1. k # KeyOfRule(procRule)
    BY <1>5 DEF KeysInHand, InsertAction, RuleInv, UpdateInv
  <2>. QED
    BY <1>5, <2>1, InsertActionMoves DEF RuleInv, TypeOK
<1>. QED
  BY <1>1, <1>2, <1>3, <1>4, <1>5 DEF Next, ProcessorStep, maps

LEMMA NextBusyInv ==
  ASSUME RuleInv, PathInv, BusyInv, posted \subseteq posted', [PathNext]_pathVars
  PROVE  BusyInv'
<1>1. CASE PacketArrives
  <2>1. ASSUME NEW k \in Keys \ busy' PROVE Paired(k)'
    <3>1. Paired(k)
      BY <1>1, <2>1, PairedElsewhere DEF PacketArrives
    <3>. QED
      BY <1>1, <3>1 DEF PacketArrives, vars, processor, maps, Paired, PairIn
  <2>2. KeysInHand' \subseteq busy'
    BY <1>1 DEF PacketArrives, vars, processor, KeysInHand, RuleInv, UpdateInv, KeyOfRule
  <2>. QED
    BY <1>1, <2>1, <2>2 DEF PacketArrives, BusyInv, VerdictFromOneRule
<1>2. CASE LookupPattern \/ LookupAction \/ ScanEnds \/ PacketLeaves
  <2>. UNCHANGED <<fingerprints_map, actions_map, posted, procRule>>
    BY <1>2 DEF LookupPattern, LookupAction, ScanEnds, PacketLeaves, vars, processor, maps
  <2>1. kPc \in {"scan", "act"} /\ busy' = busy
          => KeysInHand' \subseteq busy' /\ \A k \in Keys \ busy' : Paired(k)'
    BY DEF BusyInv, KeysInHand, KeyOfRule, Paired, PairIn
  <2>2. CASE LookupPattern
    <3>1. CASE PatternAt(scanId) \in packet
      <4>1. PatternAt(scanId) = fingerprints_map[scanId]
        BY <3>1 DEF PathInv, PathTypeOK, PatternAt
      <4>2. /\ verdict' = [key |-> scanId, pattern |-> PatternAt(scanId), action |-> Absent]
            /\ kPc = "scan" /\ kPc' = "act" /\ UNCHANGED <<scanId, busy>>
        BY <2>2, <3>1 DEF LookupPattern
      <4>. QED
        BY <2>1, <4>1, <4>2 DEF BusyInv, VerdictFromOneRule
    <3>2. CASE PatternAt(scanId) \notin packet
      BY <2>1, <2>2, <3>2 DEF LookupPattern, BusyInv, VerdictFromOneRule
    <3>. QED
      BY <3>1, <3>2
  <2>3. CASE LookupAction
    <3>1. CASE actions_map[scanId] = Absent
      BY <2>1, <2>3, <3>1 DEF LookupAction, BusyInv, VerdictFromOneRule
    <3>2. CASE actions_map[scanId] # Absent
      <4>1. PICK pat \in Patterns : verdict = [key |-> scanId, pattern |-> pat, action |-> Absent]
        BY <2>3 DEF LookupAction, PathInv, RunInv
      <4>2. /\ verdict' = [key |-> scanId, pattern |-> pat, action |-> actions_map[scanId]]
            /\ kPc = "act" /\ kPc' = "done" /\ busy' = busy /\ scanId \in Keys
        BY <2>3, <3>2, <4>1 DEF LookupAction, PathInv, RunInv
      <4>3. ASSUME scanId \notin busy
            PROVE  \E f \in posted : verdict' = [key |-> KeyOfRule(f), pattern |-> f.pattern,
                                                 action |-> f.action]
        <5>1. Paired(scanId) /\ pat = fingerprints_map[scanId]
          BY <4>1, <4>2, <4>3 DEF BusyInv
        <5>. QED
          BY <3>2, <4>2, <5>1 DEF Paired, PairIn
      <4>4. verdict'.key = scanId
        BY <4>2
      <4>. QED
        BY <4>2, <4>3, <4>4 DEF BusyInv, VerdictFromOneRule
    <3>. QED
      BY <3>1, <3>2
  <2>4. CASE ScanEnds
    BY <2>4 DEF ScanEnds, PathInv, RunInv, BusyInv, VerdictFromOneRule
  <2>5. CASE PacketLeaves
    BY <2>5 DEF PacketLeaves, BusyInv, VerdictFromOneRule
  <2>. QED
    BY <1>2, <2>2, <2>3, <2>4, <2>5
<1>3. CASE RuleStep
  <2>1. Next /\ UNCHANGED <<kPc, scanId, verdict>>
    BY <1>3 DEF RuleStep
  <2>2. CASE kPc = "none"
    BY <2>1, <2>2 DEF BusyInv, VerdictFromOneRule
  <2>3. CASE kPc = "done"
    <3>1. busy' = busy \cup KeysInHand'
      BY <1>3, <2>3 DEF RuleStep
    <3>. QED
      BY <2>1, <2>3, <3>1 DEF BusyInv, VerdictFromOneRule
  <2>4. CASE kPc \in {"scan", "act"}
    <3>1. busy' = busy \cup KeysInHand' /\ KeysInHand \subseteq busy
            /\ ("down" \in {procPc, procPc'} => maps' = maps)
      BY <1>3, <2>4 DEF RuleStep, BusyInv
    <3>2. ASSUME NEW k \in Keys \ busy'
          PROVE  fingerprints_map'[k] = fingerprints_map[k] /\ actions_map'[k] = actions_map[k]
      BY <2>1, <3>1, <3>2, WritesInHand DEF maps
    <3>3. ASSUME NEW k \in Keys \ busy' PROVE Paired(k)'
      <4>1. Paired(k)
        BY <2>4, <3>1, <3>3 DEF BusyInv
      <4>. QED
        BY <3>2, <3>3, <4>1 DEF Paired, PairIn
    <3>4. kPc = "act" => scanId \in Keys
      BY DEF PathInv, RunInv
    <3>. QED
      BY <2>1, <2>4, <3>1, <3>2, <3>3, <3>4 DEF BusyInv, VerdictFromOneRule
  <2>. QED
    BY <2>2, <2>3, <2>4 DEF PathInv, PathTypeOK
<1>4. CASE UNCHANGED pathVars
  BY <1>4 DEF pathVars, vars, processor, maps, kernel, BusyInv, KeysInHand, KeyOfRule, Paired, PairIn,
              VerdictFromOneRule
<1>. QED
  BY <1>1, <1>2, <1>3, <1>4 DEF PathNext

\* VerdictFromOneRule, whatever rules are posted, in however many versions, however
\* their keys coincide, and whoever dies: the pattern that matched and the action
\* applied are of one posted rule, unless the processor was at work on the very
\* key during the run, or was killed at that.
THEOREM VerdictOfOneRule == PathSpec => []VerdictFromOneRule
<1>1. PathInit => BusyInv
  BY DEF PathInit, BusyInv, VerdictFromOneRule
<1>2. RuleInv /\ [PathNext]_pathVars => posted \subseteq posted'
  <2>. SUFFICES ASSUME RuleInv, [PathNext]_pathVars PROVE posted \subseteq posted'
    OBVIOUS
  <2>. QED
    BY PathStepIsRuleStep, PostedGrows
<1>3. RuleInv /\ PathInv /\ BusyInv /\ [PathNext]_pathVars => BusyInv'
  BY <1>2, NextBusyInv
<1>4. BusyInv => VerdictFromOneRule
  BY DEF BusyInv
<1>. QED
  BY <1>1, <1>3, <1>4, PathRuleInv, PathInvAlways, PTL DEF PathSpec

-----------------------------------------------------------------------------
\* A rule installed all along lies ahead of the scan, or at it, as long as no
\* verdict is found, and what is found has a key not above its own; but for
\* rules of keys the scan does not reach.
Scanned(k) == k \in 0..(MaxEntries - 1)
StableInv ==
  /\ untouched \subseteq Installed
  /\ kPc \in {"scan", "act"} =>
       \A k \in untouched : Scanned(k) /\ fingerprints_map[k] \in packet => scanId <= k
  /\ kPc = "done" =>
       \A k \in untouched : Scanned(k) /\ fingerprints_map[k] \in packet
                              => verdict # NoVerdict /\ verdict.key <= k

LEMMA NextStableInv ==
  ASSUME RuleInv, PathInv, StableInv, [PathNext]_pathVars
  PROVE  StableInv'
<1>. scanId \in 0..MaxEntries /\ untouched \subseteq Keys
  BY DEF PathInv, PathTypeOK
<1>1. CASE PacketArrives
  BY <1>1 DEF PacketArrives, vars, processor, maps, StableInv, Installed, Scanned
<1>2. CASE LookupPattern
  <2>. UNCHANGED <<fingerprints_map, actions_map, packet, untouched>>
    BY <1>2 DEF LookupPattern, vars, processor, maps
  <2>1. CASE PatternAt(scanId) \in packet
    BY <1>2, <2>1 DEF LookupPattern, StableInv, Installed
  <2>2. CASE PatternAt(scanId) \notin packet
    <3>1. kPc = "scan" /\ kPc' = "scan" /\ scanId' = scanId + 1
      BY <1>2, <2>2 DEF LookupPattern
    <3>2. ASSUME NEW k \in untouched, Scanned(k), fingerprints_map[k] \in packet PROVE scanId' <= k
      <4>1. scanId <= k
        BY <3>1, <3>2 DEF StableInv
      <4>2. scanId # k
        BY <2>2, <3>2 DEF PatternAt
      <4>. QED
        BY <3>1, <3>2, <4>1, <4>2 DEF Scanned
    <3>. QED
      BY <3>1, <3>2 DEF StableInv, Installed
  <2>. QED
    BY <2>1, <2>2
<1>3. CASE LookupAction
  <2>. UNCHANGED <<fingerprints_map, actions_map, packet, untouched>>
    BY <1>3 DEF LookupAction, vars, processor, maps
  <2>1. CASE actions_map[scanId] = Absent
    <3>1. kPc = "act" /\ kPc' = "scan" /\ scanId' = scanId + 1
      BY <1>3, <2>1 DEF LookupAction
    <3>2. ASSUME NEW k \in untouched, Scanned(k), fingerprints_map[k] \in packet PROVE scanId' <= k
      <4>1. scanId <= k
        BY <3>1, <3>2 DEF StableInv
      <4>2. scanId # k
        BY <2>1, <3>2 DEF StableInv, Installed
      <4>. QED
        BY <3>1, <3>2, <4>1, <4>2 DEF Scanned
    <3>. QED
      BY <3>1, <3>2 DEF StableInv, Installed
  <2>2. CASE actions_map[scanId] # Absent
    <3>1. kPc = "act" /\ kPc' = "done" /\ verdict' = [verdict EXCEPT !.action = actions_map[scanId]]
      BY <1>3, <2>2 DEF LookupAction
    <3>2. PICK pat \in Patterns : verdict = [key |-> scanId, pattern |-> pat, action |-> Absent]
      BY <3>1 DEF PathInv, RunInv
    <3>3. scanId \in Keys /\ actions_map[scanId] \in ActionCodes
      BY <2>2, <3>1 DEF PathInv, RunInv, RuleInv, TypeOK
    <3>4. verdict' = [key |-> scanId, pattern |-> pat, action |-> actions_map[scanId]]
      BY <3>1, <3>2
    <3>5. verdict' # NoVerdict /\ verdict'.key = scanId
      BY <3>3, <3>4 DEF Verdicts
    <3>. QED
      BY <3>1, <3>5 DEF StableInv, Installed
  <2>. QED
    BY <2>1, <2>2
<1>4. CASE ScanEnds
  <2>1. kPc = "scan" /\ kPc' = "done" /\ scanId >= MaxEntries
          /\ UNCHANGED <<fingerprints_map, actions_map, packet, untouched>>
    BY <1>4 DEF ScanEnds, vars, processor, maps
  <2>2. \A k \in untouched : ~(Scanned(k) /\ fingerprints_map[k] \in packet)
    BY <2>1 DEF StableInv, Scanned
  <2>. QED
    BY <2>1, <2>2 DEF StableInv, Installed
<1>5. CASE PacketLeaves
  BY <1>5 DEF PacketLeaves, StableInv, Installed
<1>6. CASE RuleStep
  <2>1. /\ \A k \in untouched' : /\ k \in untouched /\ fingerprints_map'[k] = fingerprints_map[k]
                                 /\ actions_map'[k] = actions_map[k]
        /\ UNCHANGED <<kPc, packet, scanId, verdict>>
    BY <1>6 DEF RuleStep
  <2>2. untouched' \subseteq Installed'
    BY <2>1 DEF StableInv, Installed
  <2>. QED
    BY <2>1, <2>2 DEF StableInv
<1>7. CASE UNCHANGED pathVars
  BY <1>7 DEF pathVars, vars, processor, maps, kernel, StableInv, Installed
<1>. QED
  BY <1>1, <1>2, <1>3, <1>4, <1>5, <1>6, <1>7 DEF PathNext

LEMMA StableInvAlways == PathSpec => []StableInv
<1>1. PathInit => StableInv
  BY DEF PathInit, StableInv
<1>2. RuleInv /\ PathInv /\ StableInv /\ [PathNext]_pathVars => StableInv'
  BY NextStableInv
<1>. QED
  BY <1>1, <1>2, PathRuleInv, PathInvAlways, PTL DEF PathSpec

\* Whatever the keys: a rule whose key the scan reaches, and which stays installed
\* during the whole run, is not passed over, whatever the daemon does to others.
ScannedRuleApplies ==
  kPc = "done" =>
    \A k \in untouched \cap 0..(MaxEntries - 1) :
      fingerprints_map[k] \in packet => verdict # NoVerdict /\ verdict.key <= k
THEOREM ScannedRuleIsApplied == PathSpec => []ScannedRuleApplies
<1>1. StableInv => ScannedRuleApplies
  BY DEF StableInv, ScannedRuleApplies, Scanned
<1>. QED
  BY <1>1, StableInvAlways, PTL

\* StableRuleApplies, if every key is one the scan reaches: a rule that stays
\* installed during the run is applied, or one of a lower key.  (A run shows
\* that the hypothesis is needed: a key is 32 bits of a UUID.)
THEOREM StableRuleIsApplied ==
  ASSUME Keys \subseteq 0..(MaxEntries - 1)
  PROVE  PathSpec => []StableRuleApplies
<1>1. PathInv /\ ScannedRuleApplies => StableRuleApplies
  BY DEF ScannedRuleApplies, StableRuleApplies, PathInv, PathTypeOK
<1>. QED
  BY <1>1, ScannedRuleIsApplied, PathInvAlways, PTL
-----------------------------------------------------------------------------
\* From the analyzer's list to the packet.  A verdict of a rule that nobody has
\* touched during the run is still what the maps hold at its key.
HitInv ==
  /\ kPc = "act" /\ scanId \in untouched => verdict.pattern = fingerprints_map[scanId]
  /\ (kPc = "done" /\ verdict # NoVerdict /\ verdict.key \in untouched) =>
       verdict = [key |-> verdict.key, pattern |-> fingerprints_map[verdict.key],
                  action |-> actions_map[verdict.key]]

LEMMA NextHitInv ==
  ASSUME RuleInv, PathInv, HitInv, [PathNext]_pathVars
  PROVE  HitInv'
<1>1. CASE PacketArrives \/ PacketLeaves
  BY <1>1 DEF PacketArrives, PacketLeaves, HitInv
<1>2. CASE LookupPattern
  <2>. UNCHANGED <<fingerprints_map, actions_map, untouched>>
    BY <1>2 DEF LookupPattern, vars, processor, maps
  <2>1. CASE PatternAt(scanId) \in packet
    <3>1. scanId \in Keys /\ PatternAt(scanId) = fingerprints_map[scanId]
      BY <2>1 DEF PathInv, PathTypeOK, PatternAt
    <3>2. /\ verdict' = [key |-> scanId, pattern |-> PatternAt(scanId), action |-> Absent]
          /\ kPc' = "act" /\ scanId' = scanId
      BY <1>2, <2>1 DEF LookupPattern
    <3>. QED
      BY <3>1, <3>2 DEF HitInv
  <2>2. CASE PatternAt(scanId) \notin packet
    BY <1>2, <2>2 DEF LookupPattern, HitInv
  <2>. QED
    BY <2>1, <2>2
<1>3. CASE LookupAction
  <2>. UNCHANGED <<fingerprints_map, actions_map, untouched>>
    BY <1>3 DEF LookupAction, vars, processor, maps
  <2>1. CASE actions_map[scanId] = Absent
    BY <1>3, <2>1 DEF LookupAction, HitInv
  <2>2. CASE actions_map[scanId] # Absent
    <3>1. kPc = "act" /\ kPc' = "done" /\ verdict' = [verdict EXCEPT !.action = actions_map[scanId]]
      BY <1>3, <2>2 DEF LookupAction
    <3>2. PICK pat \in Patterns : verdict = [key |-> scanId, pattern |-> pat, action |-> Absent]
      BY <3>1 DEF PathInv, RunInv
    <3>3. verdict' = [key |-> scanId, pattern |-> pat, action |-> actions_map[scanId]]
      BY <3>1, <3>2
    <3>4. scanId \in untouched => pat = fingerprints_map[scanId]
      BY <3>1, <3>2 DEF HitInv
    <3>5. verdict'.key = scanId
      BY <3>3
    <3>6. scanId \in untouched' =>
            verdict' = [key |-> scanId, pattern |-> fingerprints_map'[scanId], action |-> actions_map'[scanId]]
      BY <3>3, <3>4
    <3>. QED
      BY <3>1, <3>5, <3>6 DEF HitInv
  <2>. QED
    BY <2>1, <2>2
<1>4. CASE ScanEnds
  BY <1>4 DEF ScanEnds, HitInv, PathInv, RunInv
<1>5. CASE RuleStep
  <2>1. /\ \A k \in untouched' : /\ k \in untouched /\ fingerprints_map'[k] = fingerprints_map[k]
                                 /\ actions_map'[k] = actions_map[k]
        /\ UNCHANGED <<kPc, packet, scanId, verdict>>
    BY <1>5 DEF RuleStep
  <2>. QED
    BY <2>1 DEF HitInv
<1>6. CASE UNCHANGED pathVars
  BY <1>6 DEF pathVars, vars, processor, maps, kernel, HitInv
<1>. QED
  BY <1>1, <1>2, <1>3, <1>4, <1>5, <1>6 DEF PathNext

LEMMA HitInvAlways == PathSpec => []HitInv
<1>1. PathInit => HitInv
  BY DEF PathInit, HitInv
<1>2. RuleInv /\ PathInv /\ HitInv /\ [PathNext]_pathVars => HitInv'
  BY NextHitInv
<1>. QED
  BY <1>1, <1>2, PathRuleInv, PathInvAlways, PTL DEF PathSpec

\* End to end, with no hypothesis on the rules: at a clean key that the scan
\* reaches, that no fault has hit and no update is on its way to, the rule a
\* packet meets in the kernel is the one the API lists last under that key; and
\* if it stays installed during the run, a packet that its pattern matches gets
\* its action, or that of a rule of a lower key.
ListedRuleApplies ==
  kPc = "done" =>
    \A k \in ((Clean \cap untouched) \ stale) \cap 0..(MaxEntries - 1) :
      ~Carries(OnItsWay, k) =>
        /\ Carries(Listed, k)
        /\ Latest(Listed, k).pattern \in packet =>
             /\ verdict # NoVerdict /\ verdict.key <= k
             /\ verdict.key = k => verdict = [key |-> k, pattern |-> Latest(Listed, k).pattern,
                                              action |-> Latest(Listed, k).action]

\* ListedRuleApplies: from create_fingerprint and delete_fingerprint over the
\* ring and the two maps to the program's verdict.
THEOREM ListedRuleIsApplied == PathSpec => []ListedRuleApplies
<1>1. ASSUME PathInv, CleanInSync, StableInv, HitInv, ScannedRuleApplies PROVE ListedRuleApplies
  <2>. SUFFICES ASSUME kPc = "done", NEW k \in Clean \ stale, k \in untouched,
                       k \in 0..(MaxEntries - 1), ~Carries(OnItsWay, k)
                PROVE  /\ Carries(Listed, k)
                       /\ Latest(Listed, k).pattern \in packet =>
                            /\ verdict # NoVerdict /\ verdict.key <= k
                            /\ verdict.key = k => verdict = [key |-> k, pattern |-> Latest(Listed, k).pattern,
                                                             action |-> Latest(Listed, k).action]
    BY DEF ListedRuleApplies
  <2>1. k \in Keys /\ Table[k] = <<fingerprints_map[k], actions_map[k]>>
    BY DEF Clean, Table
  <2>2. Table[k] = Wanted(Listed, k)
    BY <1>1 DEF CleanInSync, EventualEntry
  <2>3. fingerprints_map[k] # Absent /\ actions_map[k] # Absent
    BY <1>1 DEF StableInv, Installed
  <2>4. /\ Carries(Listed, k) /\ Latest(Listed, k).pattern = fingerprints_map[k]
        /\ Latest(Listed, k).action = actions_map[k]
    BY <2>1, <2>2, <2>3 DEF Wanted
  <2>5. fingerprints_map[k] \in packet => verdict # NoVerdict /\ verdict.key <= k
    BY <1>1 DEF ScannedRuleApplies
  <2>6. verdict # NoVerdict /\ verdict.key = k =>
          verdict = [key |-> k, pattern |-> fingerprints_map[k], action |-> actions_map[k]]
    BY <1>1 DEF HitInv
  <2>. QED
    BY <2>4, <2>5, <2>6
<1>. QED
  BY <1>1, KernelOnlyReads, CleanKeysInSync, PathInvAlways, StableInvAlways, HitInvAlways,
     ScannedRuleIsApplied, PTL

\* PathTypeOK: where the run of the program is, and what it holds.
THEOREM PathTypeCorrect == PathSpec => []PathTypeOK
<1>1. PathInv => PathTypeOK
  BY DEF PathInv
<1>. QED
  BY <1>1, PathInvAlways, PTL

-----------------------------------------------------------------------------
\* The rules ring is used as the queue that ShmRing is proved to implement:
\* with the updates handed to the processor written down, RuleSync implements
\* BoundedFifo.
VARIABLE handed          \* history: the updates popped, in order

HandedSpec == /\ Spec /\ handed = <<>>
              /\ [][handed' = IF Pop THEN Append(handed, Head(rules)) ELSE handed]_<<vars, handed>>

RulesRing == INSTANCE BoundedFifo
               WITH Capacity <- RuleCapacity, Values <- Updates, queue <- rules, delivered <- handed

\* Who steps on the ring, other than by a pop.
LEMMA OnlyPushesElse ==
  ASSUME RuleInv, [Next]_vars, ~Pop
  PROVE  \/ rules' = rules
         \/ Len(rules) < RuleCapacity /\ \E u \in Updates : rules' = Append(rules, u)
<1>1. ASSUME NEW u \in Updates, Push(u)
      PROVE  \/ rules' = rules
             \/ Len(rules) < RuleCapacity /\ \E v \in Updates : rules' = Append(rules, v)
  BY <1>1 DEF Push
<1>2. ASSUME NEW h \in Handlers, CreatePush(h) \/ DeletePush(h)
      PROVE  hReq[h] \in Updates /\ Push(hReq[h])
  <2>1. CASE CreatePush(h)
    BY <2>1, UpdateKeys DEF CreatePush, RuleInv, LockInv, TypeOK
  <2>2. CASE DeletePush(h)
    BY <2>2, UpdateKeys DEF DeletePush, RuleInv, LockInv, TypeOK
  <2>. QED
    BY <1>2, <2>1, <2>2
<1>3. Request \/ (\E h \in Handlers : CreateStore(h)) \/ Fault \/ UNCHANGED vars => rules' = rules
  BY DEF Request, CreateLock, DeleteRetain, CreateStore, Fault, AnalyzerCrash, ProcessorCrash,
         ProcessorGone, Unwind, Signal, vars
<1>4. ProcessorStep => rules' = rules
  BY DEF ProcessorStep, ProcessorStart, LoopTest, Detach, Unwind, ProcessorGone, PopEmpty, InsertPattern,
         InsertAction, RemovePattern, RemoveAction
<1>. QED
  BY <1>1, <1>2, <1>3, <1>4 DEF Next, Handle

\* HandedSpec => RulesRing!FifoSpec: handlers and processor, however they
\* interleave, die and start again, do with the ring what its contract allows:
\* the processor is handed what was accepted, once and in order.
THEOREM RulesRingIsFifo == HandedSpec => RulesRing!FifoSpec
<1>1. Init /\ handed = <<>> => RulesRing!FifoInit
  BY DEF Init, RulesRing!FifoInit
<1>2. ASSUME RuleInv, [Next]_vars,
             [handed' = IF Pop THEN Append(handed, Head(rules)) ELSE handed]_<<vars, handed>>
      PROVE  [RulesRing!FifoNext]_<<rules, handed>>
  <2>1. CASE Pop
    <3>1. handed' = Append(handed, Head(rules))
      BY <1>2, <2>1 DEF Pop, vars, processor
    <3>. QED
      BY <2>1, <3>1 DEF Pop, RulesRing!FifoNext, RulesRing!Dequeue
  <2>2. CASE ~Pop
    <3>1. handed' = handed
      BY <1>2, <2>2
    <3>. QED
      BY <1>2, <2>2, <3>1, OnlyPushesElse DEF RulesRing!FifoNext, RulesRing!Enqueue
  <2>. QED
    BY <2>1, <2>2
<1>. QED
  BY <1>1, <1>2, RuleInvAlways, PTL
     DEF Spec, HandedSpec, RulesRing!FifoSpec, RulesRing!fifoVars
=============================================================================
