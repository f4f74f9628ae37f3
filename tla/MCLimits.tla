------------------------------ MODULE MCLimits ------------------------------
(* Instances of Limits for TLC. *)
EXTENDS Limits

CONSTANT e1

\* A plan with a cap above its limit, and one that says nothing.
TwoPlans == {[limit |-> 2, cap |-> 3], [limit |-> None, cap |-> None]}
=============================================================================
