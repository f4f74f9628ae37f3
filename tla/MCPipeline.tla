----------------------------- MODULE MCPipeline -----------------------------
(* Instances of Pipeline for TLC. *)
EXTENDS Pipeline

CONSTANTS k1, k2, c1, q1, a1, a2

TwoKeysOrNone == {<<k1, k2>>, <<>>}
Alike == Permutations(Reqs \cap {a1, a2})
SameConv == [r \in Reqs |-> c1]
=============================================================================
