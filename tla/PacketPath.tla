----------------------------- MODULE PacketPath -----------------------------
(***************************************************************************)
(* The kernel half of the processor (ebpf/processor.bpf.rs): for each      *)
(* packet the program scans the keys 0 .. MAX_FINGERPRINTS - 1, looks the  *)
(* pattern up in one map and, on a match, the action in the other, while   *)
(* RuleSync's daemon edits both maps.  MaxEntries is MAX_FINGERPRINTS: the *)
(* code uses it both as max_entries and as the bound of the scan.          *)
(*                                                                         *)
(* A packet is the set of patterns it matches.  Where a processor that     *)
(* starts or ends changes the first program on the hook, a run in flight   *)
(* goes on with the program and the maps it has, which nobody writes any   *)
(* more: so the change waits for the run.                                  *)
(***************************************************************************)
EXTENDS RuleSync

CONSTANT NoVerdict     \* no rule applied: TC_ACT_OK, the packet passes

Verdicts == [key : Keys, pattern : Patterns, action : ActionCodes \cup {Absent}]
ASSUME NoVerdictAssumption == NoVerdict \notin Verdicts

VARIABLES kPc,         \* where the run of the program is
          packet,      \* the patterns the packet matches
          scanId,      \* `id` of the loop
          verdict,     \* the rule applied, as [key, pattern, action]
          untouched,   \* history: rules installed at the packet's arrival and
                       \* not touched since, as keys
          busy         \* history: keys the processor has been at work on since,
                       \* or that a killed one left half applied

kernel == <<kPc, packet, scanId, verdict, untouched, busy>>
pathVars == <<vars, kernel>>

Installed == {k \in Keys : fingerprints_map[k] # Absent /\ actions_map[k] # Absent}

PathInit == /\ Init
            /\ kPc = "none" /\ packet = {} /\ scanId = 0
            /\ verdict = NoVerdict /\ untouched = {} /\ busy = {}

\* A program left behind with empty maps does what none does.
PacketArrives ==
  /\ kPc = "none" /\ (procPc # "down" \/ left # NothingLeft)
  /\ packet' \in SUBSET Patterns
  /\ kPc' = "scan" /\ scanId' = 0
  /\ verdict' = NoVerdict /\ untouched' = Installed
  /\ busy' = IF procPc = "down" THEN left.torn ELSE KeysInHand
  /\ UNCHANGED vars

PatternAt(id) == IF id \in Keys THEN fingerprints_map[id] ELSE Absent

\* FINGERPRINTS.get(&id) and the match; no pattern or no match: the next id.
LookupPattern ==
  /\ kPc = "scan" /\ scanId < MaxEntries
  /\ IF PatternAt(scanId) \in packet
     THEN /\ verdict' = [key |-> scanId, pattern |-> PatternAt(scanId), action |-> Absent]
          /\ kPc' = "act" /\ UNCHANGED scanId
     ELSE scanId' = scanId + 1 /\ UNCHANGED <<kPc, verdict>>
  /\ UNCHANGED <<vars, packet, untouched, busy>>

\* Mutant of LookupAction: a match without an action ends the scan.
LookupActionBreaks ==
  /\ kPc = "act" /\ kPc' = "done"
  /\ verdict' = IF actions_map[scanId] = Absent THEN NoVerdict
                ELSE [verdict EXCEPT !.action = actions_map[scanId]]
  /\ UNCHANGED <<vars, packet, scanId, untouched, busy>>

\* ACTIONS.get(&id): no action: the next id; else it is applied, and break.
LookupAction ==
  /\ kPc = "act"
  /\ IF actions_map[scanId] = Absent
     THEN kPc' = "scan" /\ scanId' = scanId + 1 /\ verdict' = NoVerdict
     ELSE /\ verdict' = [verdict EXCEPT !.action = actions_map[scanId]]
          /\ kPc' = "done" /\ UNCHANGED scanId
  /\ UNCHANGED <<vars, packet, untouched, busy>>

ScanEnds ==
  /\ kPc = "scan" /\ scanId >= MaxEntries
  /\ kPc' = "done"
  /\ UNCHANGED <<vars, packet, scanId, verdict, untouched, busy>>

PacketLeaves ==
  /\ kPc = "done"
  /\ kPc' = "none" /\ packet' = {} /\ scanId' = 0
  /\ verdict' = NoVerdict /\ untouched' = {} /\ busy' = {}
  /\ UNCHANGED vars

\* Any step of RuleSync goes on while the program runs.
RuleStep ==
  /\ Next
  /\ "down" \in {procPc, procPc'} => kPc = "none" \/ maps' = maps
  /\ untouched' = {k \in untouched : UNCHANGED <<fingerprints_map[k], actions_map[k]>>}
  /\ busy' = IF kPc = "none" THEN {} ELSE busy \cup KeysInHand'
  /\ UNCHANGED <<kPc, packet, scanId, verdict>>

PathNext == \/ PacketArrives \/ LookupPattern \/ LookupAction
            \/ ScanEnds \/ PacketLeaves \/ RuleStep

PathSpec == PathInit /\ [][PathNext]_pathVars

-----------------------------------------------------------------------------
PathTypeOK == /\ kPc \in {"none", "scan", "act", "done"}
              /\ packet \subseteq Patterns
              /\ scanId \in 0..MaxEntries
              /\ verdict \in Verdicts \cup {NoVerdict}
              /\ untouched \subseteq Keys /\ busy \subseteq Keys

\* Although the program reads the two maps one after the other and the daemon
\* writes them one after the other, the pattern that matched and the action
\* applied belong to one version of one rule that was posted, whatever the
\* daemon did to the other rules between the two lookups, and whatever died;
\* but where it was at work on the very key, or was killed at that.
VerdictFromOneRule ==
  (kPc = "done" /\ verdict # NoVerdict) =>
    \/ verdict.key \in busy
    \/ \E f \in posted : verdict = [key |-> KeyOfRule(f), pattern |-> f.pattern,
                                    action |-> f.action]

\* "Kernel eBPF program reads both maps on every packet, matches, and executes"
\* (flow-processor/CONTEXT.md:49), but one after the other: the pattern of one
\* version of a rule, and the action of the next.
VerdictNeverMixed ==
  (kPc = "done" /\ verdict # NoVerdict) =>
    \E f \in posted : verdict = [key |-> KeyOfRule(f), pattern |-> f.pattern,
                                 action |-> f.action]

\* A rule that stays installed during the whole run is not passed over: the
\* packet gets its action, or that of a rule with a lower key
\* (ebpf/CONTEXT.md: match the payload against each fingerprint).
StableRuleApplies ==
  kPc = "done" =>
    \A k \in untouched : fingerprints_map[k] \in packet =>
                           verdict # NoVerdict /\ verdict.key <= k
=============================================================================
