----------------------------- MODULE MCMultisig -----------------------------
(* Instances of Multisig for TLC. *)
EXTENDS Multisig, TLC

CONSTANTS r1, g1, g2, g3, s1, s2, s3

(* One page per signer. *)
TwoPages == s1 :> g1 @@ s2 :> g2
ThreePages == TwoPages @@ s3 :> g3
=============================================================================
