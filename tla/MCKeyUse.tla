------------------------------ MODULE MCKeyUse ------------------------------
(* Instances of KeyUse for TLC. *)
EXTENDS KeyUse

CONSTANTS k1, k2, k3, r1, r2

WithEmpty == {<<k1, NoKey, k2>>, <<k3>>}
=============================================================================
