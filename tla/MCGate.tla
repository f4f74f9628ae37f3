------------------------------- MODULE MCGate -------------------------------
(* Instances of Gate for TLC. *)
EXTENDS Gate

CONSTANTS r1, r2, r3, r4, c1, c2

Patient == Permutations(Reqs \ Impatient)
=============================================================================
