---------------------------- MODULE MCPacketPath ----------------------------
(***************************************************************************)
(* Instances of PacketPath for TLC: three rules on the keys the scan       *)
(* reaches, two of which share one, as versions of one rule do; and one    *)
(* rule on a key beyond the scan.                                          *)
(***************************************************************************)
EXTENDS PacketPath, TLC

CONSTANTS h1, u1, u2, u3, p, q

OneHandler == {h1}
Ids3 == {u1, u2, u3}
TwoPatterns == {p, q}
KeysShared == u1 :> 0 @@ u2 :> 0 @@ u3 :> 1
Fp(id, pattern, action) == [id |-> id, pattern |-> pattern, action |-> action]
ThreeRules == {Fp(u1, p, 1), Fp(u2, q, 0), Fp(u3, p, 0)}
Codes == {0, 1}
OneId == {u1}
KeyBeyondScan == u1 :> 300
OneRule == {Fp(u1, p, 1)}
=============================================================================
