------------------------- MODULE RuleEncoding_proofs -------------------------
(***************************************************************************)
(* Proofs about RuleEncoding, for any length of the update's array, any    *)
(* pattern, offset and payload, and any value of a mark: what a rule does  *)
(* to a packet is what the words of a fingerprint on bytes ask.            *)
(***************************************************************************)
EXTENDS RuleEncoding, SequenceTheorems, TLAPS

USE BytesAssumption, LengthAssumption, MarkAssumption

\* The sequences of at most n elements.
LEMMA BoundedSeqIs ==
  ASSUME NEW S, NEW n \in Nat, NEW s
  PROVE  s \in BoundedSeq(S, n) <=> s \in Seq(S) /\ Len(s) <= n
<1>1. ASSUME s \in BoundedSeq(S, n) PROVE s \in Seq(S) /\ Len(s) <= n
  <2>1. PICK m \in 0..n : s \in [1..m -> S]
    BY <1>1 DEF BoundedSeq, SeqOf
  <2>2. s \in Seq(S)
    BY <2>1
  <2>3. DOMAIN s = 1..m /\ DOMAIN s = 1..Len(s) /\ Len(s) \in Nat
    BY <2>1, <2>2
  <2>. QED
    BY <2>2, <2>3
<1>2. ASSUME s \in Seq(S), Len(s) <= n PROVE s \in BoundedSeq(S, n)
  <2>1. s \in [1..Len(s) -> S] /\ Len(s) \in 0..n
    BY <1>2
  <2>. QED
    BY <2>1 DEF BoundedSeq, SeqOf
<1>. QED
  BY <1>1, <1>2

\* A payload is three parts with bytes in the middle iff bytes is found there.
LEMMA FoundIs ==
  ASSUME payload \in Payloads, NEW bytes \in PatternBytes, NEW offset \in Nat
  PROVE  FoundAt(bytes, offset) <=>
           /\ offset + Len(bytes) <= Len(payload)
           /\ \A i \in 1..Len(bytes) : payload[offset + i] = bytes[i]
<1>1. bytes \in Seq(Bytes) /\ payload \in Seq(Bytes) /\ Len(payload) <= MaxPayload
  BY BoundedSeqIs DEF PatternBytes, Payloads
<1>2. Len(bytes) \in Nat /\ Len(payload) \in Nat
  BY <1>1
<1>3. ASSUME FoundAt(bytes, offset)
      PROVE  /\ offset + Len(bytes) <= Len(payload)
             /\ \A i \in 1..Len(bytes) : payload[offset + i] = bytes[i]
  <2>1. PICK before, after \in Payloads : payload = before \o bytes \o after /\ Len(before) = offset
    BY <1>3 DEF FoundAt
  <2>2. before \in Seq(Bytes) /\ after \in Seq(Bytes)
    BY BoundedSeqIs DEF Payloads
  <2>3. /\ before \o bytes \in Seq(Bytes) /\ Len(before \o bytes) = offset + Len(bytes)
        /\ \A i \in 1..(offset + Len(bytes)) :
             (before \o bytes)[i] = IF i <= offset THEN before[i] ELSE bytes[i - offset]
    BY <1>1, <2>1, <2>2, ConcatProperties
  <2>4. /\ Len(payload) = offset + Len(bytes) + Len(after) /\ Len(after) \in Nat
        /\ \A i \in 1..(offset + Len(bytes)) : payload[i] = (before \o bytes)[i]
    <3>1. Len(after) \in Nat
      BY <2>2
    <3>. DEFINE front == before \o bytes
    <3>. HIDE DEF front
    <3>2. /\ Len(front \o after) = Len(front) + Len(after)
          /\ \A i \in 1..(Len(front) + Len(after)) :
               (front \o after)[i] = IF i <= Len(front) THEN front[i] ELSE after[i - Len(front)]
      BY <2>2, <2>3, ConcatProperties DEF front
    <3>3. front \o after = payload /\ Len(front) = offset + Len(bytes)
      BY <2>1, <2>3 DEF front
    <3>. QED
      BY <1>2, <3>1, <3>2, <3>3 DEF front
  <2>5. ASSUME NEW i \in 1..Len(bytes) PROVE payload[offset + i] = bytes[i]
    <3>1. offset + i \in 1..(offset + Len(bytes)) /\ ~(offset + i <= offset) /\ (offset + i) - offset = i
      BY <1>2
    <3>. QED
      BY <2>3, <2>4, <3>1
  <2>. QED
    BY <1>2, <2>4, <2>5
<1>4. ASSUME offset + Len(bytes) <= Len(payload),
             \A i \in 1..Len(bytes) : payload[offset + i] = bytes[i]
      PROVE  FoundAt(bytes, offset)
  <2>. DEFINE end == offset + Len(bytes)
              before == SubSeq(payload, 1, offset)
              after == SubSeq(payload, end + 1, Len(payload))
  <2>1. before \in Seq(Bytes) /\ Len(before) = offset /\ \A i \in 1..offset : before[i] = payload[i]
    BY <1>1, <1>2, <1>4
  <2>2. /\ after \in Seq(Bytes) /\ Len(after) = Len(payload) - end
        /\ \A i \in 1..(Len(payload) - end) : after[i] = payload[end + i]
    BY <1>1, <1>2, <1>4
  <2>. HIDE DEF before, after
  <2>3. before \in Payloads /\ after \in Payloads
    BY <1>1, <1>2, <1>4, <2>1, <2>2, BoundedSeqIs DEF Payloads
  <2>4. /\ before \o bytes \in Seq(Bytes) /\ Len(before \o bytes) = end
        /\ \A i \in 1..end : (before \o bytes)[i] = IF i <= offset THEN before[i] ELSE bytes[i - offset]
    BY <1>1, <2>1, ConcatProperties
  <2>5. \A i \in 1..end : (before \o bytes)[i] = payload[i]
    <3>. SUFFICES ASSUME NEW i \in 1..end PROVE (before \o bytes)[i] = payload[i]
      OBVIOUS
    <3>1. CASE i <= offset
      BY <1>2, <2>1, <2>4, <3>1
    <3>2. CASE ~(i <= offset)
      <4>1. i - offset \in 1..Len(bytes) /\ offset + (i - offset) = i
        BY <1>2, <3>2
      <4>. QED
        BY <1>4, <2>4, <3>2, <4>1
    <3>. QED
      BY <3>1, <3>2
  <2>6. /\ before \o bytes \o after \in Seq(Bytes) /\ Len(before \o bytes \o after) = Len(payload)
        /\ \A i \in 1..Len(payload) :
             (before \o bytes \o after)[i] = IF i <= end THEN (before \o bytes)[i] ELSE after[i - end]
    <3>1. end + (Len(payload) - end) = Len(payload)
      BY <1>2
    <3>. QED
      BY <2>2, <2>4, <3>1, ConcatProperties
  <2>7. ASSUME NEW i \in 1..Len(payload) PROVE (before \o bytes \o after)[i] = payload[i]
    <3>1. CASE i <= end
      <4>1. i \in 1..end /\ end \in Nat
        BY <1>2, <3>1
      <4>. QED
        BY <2>5, <2>6, <3>1, <4>1
    <3>2. CASE ~(i <= end)
      <4>1. i - end \in 1..(Len(payload) - end) /\ end + (i - end) = i
        BY <1>2, <3>2
      <4>. QED
        BY <2>2, <2>6, <3>2, <4>1
    <3>. QED
      BY <3>1, <3>2
  <2>8. before \o bytes \o after = payload
    BY <1>1, <2>6, <2>7, SeqEqual
  <2>. QED
    BY <2>1, <2>3, <2>8 DEF FoundAt
<1>. QED
  BY <1>3, <1>4

-----------------------------------------------------------------------------
\* The types of patterns: their codes are their places in PatternKinds.
LEMMA PatternTypeIs ==
  ASSUME NEW i \in 1..5
  PROVE  PatternType(PatternKinds[i]) = i - 1
<1>1. i \in DOMAIN PatternKinds /\ \A j \in DOMAIN PatternKinds : PatternKinds[j] = PatternKinds[i] => j = i
  BY DEF PatternKinds
<1>2. (CHOOSE j \in DOMAIN PatternKinds : PatternKinds[j] = PatternKinds[i]) = i
  BY <1>1
<1>. QED
  BY <1>2 DEF PatternType

LEMMA PatternParts ==
  ASSUME NEW pattern \in DpiPatterns
  PROVE  /\ pattern.bytes \in PatternBytes /\ pattern.offset \in 0..MaxOffset
         /\ PatternType(pattern.kind) \in 0..4
         /\ pattern.kind = "ExactMatch" <=> PatternType(pattern.kind) = 0
         /\ pattern.kind = "ByteSeq" <=> PatternType(pattern.kind) = 1
<1>1. ToSet(Tail(PatternKinds)) = {"ByteSeq", "Regex", "TlsSni", "TlsJa3"}
  <2>. DEFINE rest == <<"ByteSeq", "Regex", "TlsSni", "TlsJa3">>
  <2>1. Tail(PatternKinds) = rest
    BY DEF PatternKinds
  <2>2. rest[1] = "ByteSeq" /\ rest[2] = "Regex" /\ rest[3] = "TlsSni" /\ rest[4] = "TlsJa3"
    OBVIOUS
  <2>3. DOMAIN rest = 1..4
    OBVIOUS
  <2>. HIDE DEF rest
  <2>4. DOMAIN rest = {1, 2, 3, 4}
    BY <2>3
  <2>5. {rest[i] : i \in DOMAIN rest} = {"ByteSeq", "Regex", "TlsSni", "TlsJa3"}
    BY <2>2, <2>4
  <2>. QED
    BY <2>1, <2>5 DEF ToSet
<1>2. /\ pattern.bytes \in PatternBytes /\ pattern.offset \in 0..MaxOffset
      /\ pattern.kind \in {"ExactMatch", "ByteSeq", "Regex", "TlsSni", "TlsJa3"}
  BY <1>1 DEF DpiPatterns
<1>3. /\ PatternType("ExactMatch") = 0 /\ PatternType("ByteSeq") = 1 /\ PatternType("Regex") = 2
      /\ PatternType("TlsSni") = 3 /\ PatternType("TlsJa3") = 4
  <2>1. /\ PatternKinds[1] = "ExactMatch" /\ PatternKinds[2] = "ByteSeq" /\ PatternKinds[3] = "Regex"
        /\ PatternKinds[4] = "TlsSni" /\ PatternKinds[5] = "TlsJa3"
    BY DEF PatternKinds
  <2>. QED
    BY <2>1, PatternTypeIs
<1>. QED
  BY <1>2, <1>3

Fingerprints == [pattern : DpiPatterns, action : Actions]

\* The codes of actions, in the update and in the maps.
LEMMA CodeIs ==
  ASSUME NEW action \in Actions
  PROVE  /\ ToCode(action) \in Marks \cup {0, 1}
         /\ action = Drop => ToCode(action) = 1
         /\ ~(action.name = "Mark" /\ action.mark \in {0, 1, DELETE}) =>
              /\ ToCode(action) # DELETE
              /\ Apply(ToCode(action)) = [ret |-> IF action.name = "Drop" THEN "TC_ACT_SHOT"
                                                  ELSE "TC_ACT_OK",
                                          mark |-> action.mark]
<1>1. CASE action = Pass
  BY <1>1 DEF Pass, Drop, ToCode, Apply, OkUnmarked
<1>2. CASE action = Drop
  BY <1>2 DEF Drop, ToCode, Apply
<1>3. ASSUME NEW m \in Marks, action = Mark(m)
      PROVE  /\ ToCode(action) \in Marks \cup {0, 1}
             /\ action = Drop => ToCode(action) = 1
             /\ ~(action.name = "Mark" /\ action.mark \in {0, 1, DELETE}) =>
                  /\ ToCode(action) # DELETE
                  /\ Apply(ToCode(action)) = [ret |-> IF action.name = "Drop" THEN "TC_ACT_SHOT"
                                                      ELSE "TC_ACT_OK",
                                              mark |-> action.mark]
  <2>1. action.name = "Mark" /\ action.mark = m /\ ToCode(action) = m /\ action # Drop
    BY <1>3 DEF Mark, Drop, ToCode
  <2>2. m \notin {0, 1, DELETE} => Apply(m) = [ret |-> "TC_ACT_OK", mark |-> m]
    BY DEF Apply
  <2>. QED
    BY <2>1, <2>2
<1>. QED
  BY <1>1, <1>2, <1>3 DEF Actions

\* What an update holds, and what it does not: it is a record, and None is not.
Updates == [pattern_type : 0..4 \cup {255}, offset : 0..MaxOffset, pattern_len : 0..MaxLen,
            pattern_data : [1..MaxLen -> Bytes], action : Marks \cup {0, 1, DELETE}]

LEMMA EncodeType ==
  ASSUME fp \in Fingerprints
  PROVE  Encode(fp) \in Updates /\ DeleteUpdate \in Updates /\ None \notin Updates
<1>. DEFINE bytes == fp.pattern.bytes
            len == Smaller(Len(bytes), MaxLen)
            data == [i \in 1..MaxLen |-> IF i <= len THEN bytes[i] ELSE 0]
<1>1. /\ bytes \in Seq(Bytes) /\ fp.pattern.offset \in 0..MaxOffset
      /\ PatternType(fp.pattern.kind) \in 0..4 /\ ToCode(fp.action) \in Marks \cup {0, 1}
  BY PatternParts, CodeIs, BoundedSeqIs DEF Fingerprints, PatternBytes
<1>2. Len(bytes) \in Nat /\ len \in 0..MaxLen /\ len <= Len(bytes)
  BY <1>1 DEF Smaller
<1>3. data \in [1..MaxLen -> Bytes]
  BY <1>1, <1>2
<1>4. Encode(fp) = [pattern_type |-> PatternType(fp.pattern.kind), offset |-> fp.pattern.offset,
                    pattern_len |-> len, pattern_data |-> data, action |-> ToCode(fp.action)]
  BY DEF Encode, Truncated
<1>5. Encode(fp) \in Updates
  <2>. HIDE DEF data, len
  <2>. QED
    BY <1>1, <1>2, <1>3, <1>4 DEF Updates
<1>6. DeleteUpdate \in Updates
  <2>1. [i \in 1..MaxLen |-> 0] \in [1..MaxLen -> Bytes]
    OBVIOUS
  <2>. QED
    BY <2>1 DEF DeleteUpdate, Updates
<1>7. None \notin Updates
  <2>1. DOMAIN None = {"kind"}
    BY DEF None
  <2>2. \A u \in Updates : "action" \in DOMAIN u
    BY DEF Updates
  <2>. QED
    BY <2>1, <2>2
<1>. QED
  BY <1>5, <1>6, <1>7

-----------------------------------------------------------------------------
\* What the kernel program matches, of the rule made of fp: as much of the
\* pattern as the update holds.
Held == Smaller(Len(fp.pattern.bytes), MaxLen)
HeldAt(from) == \A i \in 1..Held : payload[from + i] = fp.pattern.bytes[i]

LEMMA MatchesIs ==
  ASSUME fp \in Fingerprints, payload \in Payloads
  PROVE  Matches(payload, Encode(fp)) <=>
           \/ /\ fp.pattern.kind = "ExactMatch"
              /\ fp.pattern.offset + Held <= Len(payload) /\ HeldAt(fp.pattern.offset)
           \/ /\ fp.pattern.kind = "ByteSeq" /\ Held # 0 /\ Held <= Len(payload)
              /\ \E from \in 0..(Len(payload) - Held) : HeldAt(from)
<1>. DEFINE cut == Truncated(fp.pattern.bytes)
<1>1. Len(fp.pattern.bytes) \in Nat /\ Held \in 0..MaxLen /\ Len(payload) \in Nat
  BY PatternParts, BoundedSeqIs DEF Fingerprints, PatternBytes, Payloads, Held, Smaller
<1>2. cut.len = Held /\ \A i \in 1..Held : cut.data[i] = fp.pattern.bytes[i]
  BY <1>1 DEF Truncated, Held
<1>. HIDE DEF cut
<1>3. ASSUME NEW from \in Nat
      PROVE  Slice(payload, from, Held) = Slice(cut.data, 0, Held) <=> HeldAt(from)
  <2>. DEFINE found == [i \in 1..Held |-> payload[from + i]]
              sought == [i \in 1..Held |-> cut.data[0 + i]]
  <2>1. \A i \in 1..Held : 0 + i = i
    BY <1>1
  <2>2. \A i \in 1..Held : sought[i] = fp.pattern.bytes[i]
    BY <1>2, <2>1
  <2>3. found = sought <=> \A i \in 1..Held : found[i] = sought[i]
    OBVIOUS
  <2>. QED
    BY <2>2, <2>3 DEF Slice, HeldAt
<1>4. MatchExact(payload, fp.pattern.offset, cut.data, Held) <=>
        fp.pattern.offset + Held <= Len(payload) /\ HeldAt(fp.pattern.offset)
  <2>1. fp.pattern.offset \in Nat
    BY PatternParts DEF Fingerprints
  <2>. QED
    BY <1>1, <1>3, <2>1 DEF MatchExact
<1>5. MatchByteSeq(payload, cut.data, Held) <=>
        /\ Held # 0 /\ Held <= Len(payload)
        /\ \E from \in 0..(Len(payload) - Held) : HeldAt(from)
  BY <1>1, <1>3 DEF MatchByteSeq
<1>6. Matches(payload, Encode(fp)) <=>
        \/ PatternType(fp.pattern.kind) = 0 /\ MatchExact(payload, fp.pattern.offset, cut.data, Held)
        \/ PatternType(fp.pattern.kind) = 1 /\ MatchByteSeq(payload, cut.data, Held)
  <2>1. Encode(fp) = [pattern_type |-> PatternType(fp.pattern.kind), offset |-> fp.pattern.offset,
                      pattern_len |-> Held, pattern_data |-> cut.data, action |-> ToCode(fp.action)]
    BY <1>2 DEF Encode, cut
  <2>. QED
    BY <2>1 DEF Matches
<1>. QED
  BY <1>4, <1>5, <1>6, PatternParts DEF Fingerprints

\* A pattern that fits is matched as asked; of one that is cut, whatever was to
\* be matched is.
LEMMA MatchesAsAsked ==
  ASSUME fp \in Fingerprints, payload \in Payloads, fp.pattern.kind \in ByteKinds,
         fp.pattern.kind = "ByteSeq" => fp.pattern.bytes # <<>>
  PROVE  /\ Asked => Matches(payload, Encode(fp))
         /\ Len(fp.pattern.bytes) <= MaxLen /\ Matches(payload, Encode(fp)) => Asked
<1>. DEFINE bytes == fp.pattern.bytes
<1>1. /\ bytes \in PatternBytes /\ bytes \in Seq(Bytes) /\ Len(bytes) \in Nat
      /\ payload \in Seq(Bytes) /\ Len(payload) \in 0..MaxPayload
      /\ fp.pattern.offset \in Nat
  BY PatternParts, BoundedSeqIs DEF Fingerprints, PatternBytes, Payloads
<1>2. /\ Held \in 0..MaxLen /\ Held <= Len(bytes) /\ (Len(bytes) <= MaxLen => Held = Len(bytes))
      /\ (bytes # <<>> => Held # 0)
  BY <1>1 DEF Held, Smaller
<1>3. ASSUME NEW offset \in Nat, FoundAt(bytes, offset)
      PROVE  offset + Held <= Len(payload) /\ Held <= Len(payload) /\ HeldAt(offset)
  <2>1. /\ offset + Len(bytes) <= Len(payload)
        /\ \A i \in 1..Len(bytes) : payload[offset + i] = bytes[i]
    BY <1>1, <1>3, FoundIs
  <2>. QED
    BY <1>1, <1>2, <2>1 DEF HeldAt
<1>4. ASSUME NEW offset \in Nat, Len(bytes) <= MaxLen, offset + Held <= Len(payload), HeldAt(offset)
      PROVE  FoundAt(bytes, offset)
  BY <1>1, <1>2, <1>4, FoundIs DEF HeldAt
<1>5. ASSUME Asked PROVE Matches(payload, Encode(fp))
  <2>1. CASE fp.pattern.kind = "ExactMatch" /\ FoundAt(bytes, fp.pattern.offset)
    BY <1>1, <1>3, <2>1, MatchesIs
  <2>2. CASE fp.pattern.kind = "ByteSeq" /\ \E offset \in 0..MaxPayload : FoundAt(bytes, offset)
    <3>1. PICK offset \in 0..MaxPayload : FoundAt(bytes, offset)
      BY <2>2
    <3>2. offset \in 0..(Len(payload) - Held) /\ Held <= Len(payload) /\ HeldAt(offset)
      BY <1>1, <1>2, <1>3, <3>1
    <3>. QED
      BY <1>2, <2>2, <3>2, MatchesIs
  <2>. QED
    BY <1>5, <2>1, <2>2 DEF Asked, ByteKinds
<1>6. ASSUME Len(bytes) <= MaxLen, Matches(payload, Encode(fp)) PROVE Asked
  <2>1. CASE /\ fp.pattern.kind = "ExactMatch"
             /\ fp.pattern.offset + Held <= Len(payload) /\ HeldAt(fp.pattern.offset)
    BY <1>1, <1>4, <1>6, <2>1 DEF Asked
  <2>2. CASE /\ fp.pattern.kind = "ByteSeq" /\ Held # 0 /\ Held <= Len(payload)
             /\ \E from \in 0..(Len(payload) - Held) : HeldAt(from)
    <3>1. PICK from \in 0..(Len(payload) - Held) : HeldAt(from)
      BY <2>2
    <3>2. from \in Nat /\ from \in 0..MaxPayload /\ from + Held <= Len(payload)
      BY <1>1, <1>2, <3>1
    <3>. QED
      BY <1>4, <1>6, <2>2, <3>1, <3>2 DEF Asked
  <2>. QED
    BY <1>6, <2>1, <2>2, MatchesIs
<1>. QED
  BY <1>5, <1>6

-----------------------------------------------------------------------------
\* What the maps hold once the processor has taken the rule's creation: nothing
\* if its code is that of a deletion.
Installed == IF ToCode(fp.action) = DELETE THEN None ELSE Encode(fp)

\* Where the rule is: on its way, in the maps, being taken out, gone.  The
\* verdict on the last packet, if there has been one since the maps changed, is
\* what the rule in the maps makes of it.
WayInv ==
  /\ phase = "posted" => update = None /\ entry = None /\ verdict = None
  /\ phase = "created" => \/ update = Encode(fp) /\ entry = None /\ verdict = None
                          \/ update = None /\ entry = Installed
  /\ phase = "deleted" => \/ update = DeleteUpdate /\ entry = Installed /\ verdict = None
                          \/ update = None /\ entry = None
  /\ verdict # None =>
       verdict = IF entry # None /\ Matches(payload, entry) THEN Apply(entry.action) ELSE OkUnmarked
EncInv == /\ fp \in Fingerprints /\ phase \in {"posted", "created", "deleted"}
          /\ payload \in Payloads /\ meant \in BOOLEAN /\ WayInv

LEMMA EmptyPayload == <<>> \in Payloads
<1>1. <<>> \in Seq(Bytes) /\ Len(<<>>) <= MaxPayload
  BY EmptySeq
<1>. QED
  BY <1>1, BoundedSeqIs DEF Payloads

LEMMA InitEncInv == Init => EncInv
<1>1. <<>> \in Payloads
  BY EmptyPayload
<1>. QED
  BY <1>1 DEF Init, EncInv, WayInv, Fingerprints

LEMMA NextEncInv == EncInv /\ [Next]_vars => EncInv'
<1>. SUFFICES ASSUME EncInv, [Next]_vars PROVE EncInv'
  OBVIOUS
<1>1. <<>> \in Payloads
  BY EmptyPayload
<1>2. Encode(fp) # None /\ DeleteUpdate # None
  BY EncodeType DEF EncInv
<1>3. UNCHANGED fp => Encode(fp)' = Encode(fp) /\ Installed' = Installed
  BY DEF Encode, Installed
<1>4. CASE Create
  BY <1>3, <1>4 DEF EncInv, WayInv, Create
<1>5. CASE Delete
  BY <1>1, <1>2, <1>3, <1>5 DEF EncInv, WayInv, Delete
<1>6. CASE Install
  <2>1. UNCHANGED <<fp, phase>> /\ payload' = <<>> /\ meant' = FALSE /\ update' = None /\ verdict' = None
    BY <1>6 DEF Install
  <2>2. phase # "posted"
    BY <1>6 DEF EncInv, WayInv, Install
  <2>3. CASE phase = "created" /\ update = Encode(fp)
    <3>1. Encode(fp).action = ToCode(fp.action)
      BY DEF Encode
    <3>2. entry' = Installed
      BY <1>6, <2>3, <3>1 DEF Install, Installed
    <3>. QED
      BY <1>1, <1>3, <2>1, <2>3, <3>2 DEF EncInv, WayInv
  <2>4. CASE phase = "deleted" /\ update = DeleteUpdate
    <3>1. entry' = None
      BY <1>6, <2>4 DEF Install, DeleteUpdate
    <3>. QED
      BY <1>1, <1>3, <2>1, <2>4, <3>1 DEF EncInv, WayInv
  <2>. QED
    BY <1>6, <2>2, <2>3, <2>4 DEF EncInv, WayInv, Install
<1>7. ASSUME NEW bytes \in Payloads, Packet(bytes) PROVE EncInv'
  BY <1>2, <1>3, <1>7 DEF EncInv, WayInv, Packet
<1>8. CASE UNCHANGED vars
  BY <1>3, <1>8 DEF EncInv, WayInv, vars
<1>. QED
  BY <1>4, <1>5, <1>6, <1>7, <1>8 DEF Next

\* A verdict is a record with a field that None lacks.
LEMMA VerdictTypes ==
  ASSUME NEW code \in Marks \cup {0, 1, DELETE}
  PROVE  /\ {OkUnmarked, Apply(code)} \subseteq
              [ret : {"TC_ACT_OK", "TC_ACT_SHOT"}, mark : Marks \cup {0, 1, DELETE}]
         /\ OkUnmarked # None
<1>1. DOMAIN OkUnmarked = {"ret", "mark"} /\ DOMAIN None = {"kind"}
  BY DEF OkUnmarked, None
<1>. QED
  BY <1>1 DEF OkUnmarked, Apply

LEMMA EncInvType == EncInv => TypeOK
<1>. SUFFICES ASSUME EncInv PROVE TypeOK
  OBVIOUS
<1>1. {update, entry} \subseteq {None} \cup Updates
  BY EncodeType DEF EncInv, WayInv, Installed
<1>2. verdict \in {None} \cup [ret : {"TC_ACT_OK", "TC_ACT_SHOT"}, mark : Marks \cup {0, 1, DELETE}]
  <2>1. entry # None => entry.action \in Marks \cup {0, 1, DELETE}
    BY <1>1 DEF Updates
  <2>2. entry # None => Apply(entry.action) \in
                          [ret : {"TC_ACT_OK", "TC_ACT_SHOT"}, mark : Marks \cup {0, 1, DELETE}]
    BY <2>1, VerdictTypes
  <2>3. OkUnmarked \in [ret : {"TC_ACT_OK", "TC_ACT_SHOT"}, mark : Marks \cup {0, 1, DELETE}]
    BY VerdictTypes
  <2>. QED
    BY <2>2, <2>3 DEF EncInv, WayInv
<1>. QED
  BY <1>1, <1>2 DEF TypeOK, EncInv, Fingerprints, Updates

LEMMA EncInvFitting == EncInv => FittingRuleDoesAsAsked
<1>. SUFFICES ASSUME EncInv, Settled, ~Reserved, fp.pattern.kind \in ByteKinds,
                     Len(fp.pattern.bytes) <= MaxLen,
                     fp.pattern.kind = "ByteSeq" => fp.pattern.bytes # <<>>
              PROVE  verdict = IF Asked THEN AskedVerdict ELSE OkUnmarked
  BY DEF FittingRuleDoesAsAsked
<1>1. fp \in Fingerprints /\ fp.action \in Actions
  BY DEF EncInv, Fingerprints
<1>2. Installed = Encode(fp) /\ Encode(fp) # None /\ Apply(Encode(fp).action) = AskedVerdict
  <2>1. ToCode(fp.action) # DELETE /\ Apply(ToCode(fp.action)) = AskedVerdict
    BY <1>1, CodeIs DEF Reserved, AskedVerdict
  <2>2. Encode(fp).action = ToCode(fp.action)
    BY DEF Encode
  <2>. QED
    BY <1>1, <2>1, <2>2, EncodeType DEF Installed
<1>3. entry = Encode(fp)
  BY <1>2 DEF EncInv, WayInv, Settled
<1>4. verdict = IF Matches(payload, Encode(fp)) THEN AskedVerdict ELSE OkUnmarked
  BY <1>2, <1>3 DEF EncInv, WayInv, Settled
<1>5. Matches(payload, Encode(fp)) <=> Asked
  BY <1>1, MatchesAsAsked DEF EncInv
<1>. QED
  BY <1>4, <1>5

LEMMA EncInvCut == EncInv => CutRuleMissesNothing
<1>. SUFFICES ASSUME EncInv, Settled, fp.action = Drop, fp.pattern.kind \in ByteKinds,
                     Len(fp.pattern.bytes) > MaxLen, Asked
              PROVE  verdict.ret = "TC_ACT_SHOT"
  BY DEF CutRuleMissesNothing
<1>1. fp \in Fingerprints /\ Drop \in Actions /\ ToCode(fp.action) = 1
  BY DEF EncInv, Actions, ToCode, Drop
<1>2. Encode(fp).action = 1 /\ Installed = Encode(fp) /\ Encode(fp) # None
  BY <1>1, EncodeType DEF Encode, Installed
<1>3. Matches(payload, Encode(fp))
  <2>1. fp.pattern.bytes # <<>>
    OBVIOUS
  <2>. QED
    BY <1>1, <2>1, MatchesAsAsked DEF EncInv
<1>4. verdict = Apply(1)
  BY <1>2, <1>3 DEF EncInv, WayInv, Settled
<1>. QED
  BY <1>4 DEF Apply

LEMMA EncInvDeleted == EncInv => DeletedRuleIsGone
  BY EncodeType DEF EncInv, WayInv, DeletedRuleIsGone

LEMMA EncInvCodes == EncInv => KernelReadsCodes
<1>. SUFFICES ASSUME NEW code \in Nat
              PROVE  Apply(code) =
                       [ret |-> IF FromCode(code).name = "Drop" THEN "TC_ACT_SHOT" ELSE "TC_ACT_OK",
                        mark |-> FromCode(code).mark]
  <2>1. EncInv /\ entry # None => entry.action \in Nat
    <3>1. EncInv => entry \in {None} \cup Updates
      BY EncInvType DEF TypeOK, Updates
    <3>2. \A u \in Updates : u.action \in Marks \cup {0, 1, DELETE}
      BY DEF Updates
    <3>3. Marks \cup {0, 1, DELETE} \subseteq Nat
      OBVIOUS
    <3>. QED
      BY <3>1, <3>2, <3>3
  <2>. QED
    BY <2>1 DEF KernelReadsCodes
<1>1. CASE code = 0
  BY <1>1 DEF Apply, FromCode, OkUnmarked, Pass
<1>2. CASE code = 1
  BY <1>2 DEF Apply, FromCode, Drop
<1>3. CASE code \notin {0, 1}
  BY <1>3 DEF Apply, FromCode, Mark
<1>. QED
  BY <1>1, <1>2, <1>3

\* Whatever the lengths: from the API to the packet (From<&DpiFingerprint>,
\* write_rule and the matching of the kernel program) an ExactMatch or a ByteSeq that
\* fits does exactly what its words ask, one that is cut misses nothing it was to
\* drop, and a rule that has been deleted does nothing.
THEOREM ByteRulesDoAsAsked == Spec => []ByteRuleDoesAsAsked
<1>1. EncInv => ByteRuleDoesAsAsked
  BY EncInvType, EncInvFitting, EncInvCut, EncInvDeleted, EncInvCodes DEF ByteRuleDoesAsAsked
<1>. QED
  BY InitEncInv, NextEncInv, <1>1, PTL DEF Spec
=============================================================================
