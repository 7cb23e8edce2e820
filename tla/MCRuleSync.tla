----------------------------- MODULE MCRuleSync -----------------------------
(***************************************************************************)
(* Instances of RuleSync for TLC: two rule ids, of keys of their own, and  *)
(* rules POSTed under them, again and again where ReuseIds is TRUE (one id *)
(* in two versions is MCPacketPath's).                                     *)
(***************************************************************************)
EXTENDS RuleSync, TLC, SequencesExt

CONSTANTS h1, h2, u1, u2, p, q

TwoHandlers == {h1, h2}
OneHandler == {h1}
TwoIds == {u1, u2}
TwoPatterns == {p, q}
KeysOfTwo == u1 :> 0 @@ u2 :> 1
KeysCollide == u1 :> 0 @@ u2 :> 0
Codes == {0, 1}
Fp(id, pattern, action) == [id |-> id, pattern |-> pattern, action |-> action]
TwoPosts == {Fp(u1, p, 1), Fp(u2, p, 0)}
OnePost == {Fp(u1, p, 1)}
\* A rule whose action is Mark { mark: 0xFFFFFFFF }.
CodesWithDelete == {0, 1, DELETE}
SentinelPost == {Fp(u1, p, DELETE)}

\* Retain leaves exactly the list Vec::retain does.
ASSUME RetainAssumption ==
  \A list \in BoundedSeq(Fingerprints, 4), id \in Ids :
    Retain(list, id) = {SelectSeq(list, LAMBDA f : f.id # id)}
=============================================================================
