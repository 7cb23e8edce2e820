---------------------------- MODULE RuleEncoding ----------------------------
(***************************************************************************)
(* What a fingerprint turns into on its way to the kernel, and what it     *)
(* matches there: From<&DpiFingerprint> for RuleUpdate and delete          *)
(* (crates/flow-common/src/types.rs), what the processor takes from the    *)
(* update (crates/flow-processor/src/main.rs), and the matching functions  *)
(* of the kernel program (ebpf/processor.bpf.rs).                          *)
(*                                                                         *)
(* One rule and its one map entry: RuleSync has the ring, the maps and     *)
(* their faults, PacketPath the scan.  MaxLen stands for 64, the length of *)
(* the arrays of a RuleUpdate.  The name, cut the same way, is only logged.*)
(***************************************************************************)
EXTENDS Naturals, Sequences, SequencesExt

CONSTANTS Bytes,         \* values of a byte, 0 among them
          MaxLen,        \* bytes of pattern data an update holds: 64
          MaxPatternLen, \* bound: bytes of a pattern
          MaxOffset,     \* bound: offset of an ExactMatch
          MaxPayload,    \* bound: bytes of a packet's payload
          Marks,         \* values of Mark
          DELETE         \* RuleUpdate::DELETE, 0xFFFFFFFF

ASSUME BytesAssumption == 0 \in Bytes
ASSUME LengthAssumption == {MaxLen, MaxPatternLen, MaxOffset, MaxPayload} \subseteq Nat /\ MaxLen > 0
ASSUME MarkAssumption == Marks \subseteq Nat /\ DELETE \in Nat /\ DELETE > 1

\* DpiPattern and ProcessorAction.
PatternBytes == BoundedSeq(Bytes, MaxPatternLen)
PatternKinds == <<"ExactMatch", "ByteSeq", "Regex", "TlsSni", "TlsJa3">>
ByteKinds == {"ExactMatch", "ByteSeq"}
DpiPatterns == [kind : {"ExactMatch"}, offset : 0..MaxOffset, bytes : PatternBytes]
                 \cup [kind : ToSet(Tail(PatternKinds)), offset : {0}, bytes : PatternBytes]
Pass == [name |-> "Pass", mark |-> 0]
Drop == [name |-> "Drop", mark |-> 0]
Mark(m) == [name |-> "Mark", mark |-> m]
Actions == {Pass, Drop} \cup {Mark(m) : m \in Marks}
Payloads == BoundedSeq(Bytes, MaxPayload)

-----------------------------------------------------------------------------
\* The update.
Smaller(a, b) == IF a < b THEN a ELSE b

\* `let len = bytes.len().min(64); data[..len].copy_from_slice(&bytes[..len])`
\* into an array of zeros.
Truncated(bytes) ==
  LET len == Smaller(Len(bytes), MaxLen)
  IN  [data |-> [i \in 1..MaxLen |-> IF i <= len THEN bytes[i] ELSE 0], len |-> len]

ToCode(action) == CASE action.name = "Pass" -> 0
                    [] action.name = "Drop" -> 1
                    [] action.name = "Mark" -> action.mark

FromCode(code) == CASE code = 0 -> Pass
                    [] code = 1 -> Drop
                    [] OTHER -> Mark(code)

PatternType(kind) == (CHOOSE i \in DOMAIN PatternKinds : PatternKinds[i] = kind) - 1

\* Mutant of Encode: the offset is left at 0.
EncodeNoOffset(fp) ==
  LET cut == Truncated(fp.pattern.bytes)
  IN  [pattern_type |-> PatternType(fp.pattern.kind), offset |-> 0,
       pattern_len |-> cut.len, pattern_data |-> cut.data, action |-> ToCode(fp.action)]

Encode(fp) ==
  LET cut == Truncated(fp.pattern.bytes)
  IN  [pattern_type |-> PatternType(fp.pattern.kind), offset |-> fp.pattern.offset,
       pattern_len |-> cut.len, pattern_data |-> cut.data, action |-> ToCode(fp.action)]

DeleteUpdate == [pattern_type |-> 255, offset |-> 0, pattern_len |-> 0,
                 pattern_data |-> [i \in 1..MaxLen |-> 0], action |-> DELETE]

-----------------------------------------------------------------------------
\* The kernel program.  Slices that are out of bounds would panic.
Slice(s, from, len) == [i \in 1..len |-> s[from + i]]

MatchExact(payload, offset, data, len) ==
  /\ offset + len <= Len(payload) /\ len <= MaxLen
  /\ Slice(payload, offset, len) = Slice(data, 0, len)

MatchByteSeq(payload, data, len) ==
  /\ len # 0 /\ len <= Len(payload) /\ len <= MaxLen
  /\ \E from \in 0..(Len(payload) - len) : Slice(payload, from, len) = Slice(data, 0, len)

Matches(payload, entry) ==
  \/ entry.pattern_type = 0
     /\ MatchExact(payload, entry.offset, entry.pattern_data, entry.pattern_len)
  \/ entry.pattern_type = 1 /\ MatchByteSeq(payload, entry.pattern_data, entry.pattern_len)

\* `match *action`: what becomes of the packet, and its mark (0: not set).
OkUnmarked == [ret |-> "TC_ACT_OK", mark |-> 0]
Apply(code) == CASE code = 0 -> OkUnmarked
                 [] code = 1 -> [ret |-> "TC_ACT_SHOT", mark |-> 0]
                 [] OTHER -> [ret |-> "TC_ACT_OK", mark |-> code]

-----------------------------------------------------------------------------
None == [kind |-> "none"]

VARIABLES fp,            \* the fingerprint POSTed, or deleted
          phase,         \* where it is
          update,        \* the RuleUpdate in the ring
          entry,         \* what the maps hold for its key: pattern and action
          payload,       \* of the last packet
          meant,         \* whether that is a packet fp's words mean, if it is of one of
                         \* the kinds that are no bytes (Regex, TlsSni, TlsJa3)
          verdict        \* what became of it; None before the first packet
                         \* since the maps changed

vars == <<fp, phase, update, entry, payload, meant, verdict>>

Init == /\ fp \in [pattern : DpiPatterns, action : Actions]
        /\ phase = "posted" /\ update = None /\ entry = None
        /\ payload = <<>> /\ meant = FALSE /\ verdict = None

\* create_fingerprint converts and pushes,
Create ==
  /\ phase = "posted"
  /\ update' = Encode(fp) /\ phase' = "created"
  /\ UNCHANGED <<fp, entry, payload, meant, verdict>>

\* delete_fingerprint pushes a deletion,
Delete ==
  /\ phase = "created" /\ update = None
  /\ update' = DeleteUpdate /\ phase' = "deleted"
  /\ payload' = <<>> /\ meant' = FALSE /\ verdict' = None
  /\ UNCHANGED <<fp, entry>>

\* and the processor takes what comes: the action tells a deletion, whatever
\* the pattern's type.
Install ==
  /\ update # None
  /\ entry' = IF update.action = DELETE THEN None ELSE update
  /\ update' = None /\ payload' = <<>> /\ meant' = FALSE /\ verdict' = None
  /\ UNCHANGED <<fp, phase>>

\* A packet while nothing is on its way.
Packet(bytes) ==
  /\ phase # "posted" /\ update = None
  /\ payload' = bytes /\ meant' \in BOOLEAN
  /\ fp.pattern.kind \in ByteKinds => ~meant'
  /\ verdict' = IF entry # None /\ Matches(bytes, entry) THEN Apply(entry.action) ELSE OkUnmarked
  /\ UNCHANGED <<fp, phase, update, entry>>

Next == Create \/ Delete \/ Install \/ \E bytes \in Payloads : Packet(bytes)

Spec == Init /\ [][Next]_vars

-----------------------------------------------------------------------------
\* What the fingerprint asks, from the words of DpiPattern and ProcessorAction
\* in types.rs: "Match bytes at a specific offset in the payload.", "Match a
\* byte sequence anywhere in the payload.", or "against a regular expression", "a
\* TLS Server Name Indication value", "a JA3 hash"; pass, drop, or set a mark.
FoundAt(bytes, offset) == \E before, after \in Payloads :
                            payload = before \o bytes \o after /\ Len(before) = offset
Asked == \/ fp.pattern.kind = "ExactMatch" /\ FoundAt(fp.pattern.bytes, fp.pattern.offset)
         \/ fp.pattern.kind = "ByteSeq" /\ \E offset \in 0..MaxPayload : FoundAt(fp.pattern.bytes, offset)
         \/ fp.pattern.kind \notin ByteKinds /\ meant
AskedVerdict == [ret |-> IF fp.action.name = "Drop" THEN "TC_ACT_SHOT" ELSE "TC_ACT_OK",
                 mark |-> fp.action.mark]
Reserved == fp.action.name = "Mark" /\ fp.action.mark \in {0, 1, DELETE}
Settled == phase = "created" /\ verdict # None

TypeOK == /\ fp \in [pattern : DpiPatterns, action : Actions]
          /\ phase \in {"posted", "created", "deleted"}
          /\ {update, entry} \subseteq {None} \cup
               [pattern_type : 0..4 \cup {255}, offset : 0..MaxOffset, pattern_len : 0..MaxLen,
                pattern_data : [1..MaxLen -> Bytes], action : Marks \cup {0, 1, DELETE}]
          /\ payload \in Payloads /\ meant \in BOOLEAN
          /\ verdict \in {None} \cup [ret : {"TC_ACT_OK", "TC_ACT_SHOT"}, mark : Marks \cup {0, 1, DELETE}]

\* An ExactMatch or a ByteSeq that fits, and whose mark is not the code of something
\* else, does to each packet what was asked (an empty ByteSeq matches nothing): no
\* byte and no bound is lost between the API, the ring, the maps and the kernel
\* program.  Of the other kinds nothing is claimed: see EachKindMatches.
FittingRuleDoesAsAsked ==
  (/\ Settled /\ ~Reserved /\ fp.pattern.kind \in ByteKinds
   /\ Len(fp.pattern.bytes) <= MaxLen
   /\ fp.pattern.kind = "ByteSeq" => fp.pattern.bytes # <<>>)
    => verdict = IF Asked THEN AskedVerdict ELSE OkUnmarked

\* An ExactMatch or a ByteSeq that is cut at 64 bytes misses no packet it was to
\* match (it may match others): what was to be dropped is dropped.
CutRuleMissesNothing ==
  (/\ Settled /\ fp.action = Drop /\ fp.pattern.kind \in ByteKinds
   /\ Len(fp.pattern.bytes) > MaxLen /\ Asked)
    => verdict.ret = "TC_ACT_SHOT"

\* A rule that has been deleted does nothing any more, whatever its code was.
DeletedRuleIsGone == (phase = "deleted" /\ verdict # None) => verdict = OkUnmarked

\* The kernel program reads a code of the map as from_code does ("Convert from a
\* u32 code from BPF maps.", types.rs:214).
KernelReadsCodes ==
  entry # None =>
    Apply(entry.action) =
      LET action == FromCode(entry.action)
      IN  [ret |-> IF action.name = "Drop" THEN "TC_ACT_SHOT" ELSE "TC_ACT_OK", mark |-> action.mark]

\* From the API to the packet, a rule on bytes (ExactMatch, ByteSeq) does what its
\* words ask, for as long as it is there: exactly if it fits, without missing anything
\* if it is cut; and a rule of any kind does nothing once it is deleted.
ByteRuleDoesAsAsked ==
  TypeOK /\ FittingRuleDoesAsAsked /\ CutRuleMissesNothing /\ DeletedRuleIsGone /\ KernelReadsCodes

\* A rule matches the packets its words mean, whichever of the five kinds it is of
\* (types.rs:180-189, and flow-common/CONTEXT.md:47-51): the kernel program has
\* `_ => false` for three of them.
EachKindMatches ==
  (Settled /\ fp.action = Drop /\ fp.pattern.kind \notin ByteKinds /\ Asked)
    => verdict.ret = "TC_ACT_SHOT"

\* "Set an nfmark on the packet for nftables." (types.rs:199): such a rule drops
\* nothing.
MarkNeverDrops == (Settled /\ fp.action.name = "Mark") => verdict.ret = "TC_ACT_OK"
=============================================================================
