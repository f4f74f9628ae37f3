----------------------------- MODULE MCSettings -----------------------------
(* Instances of Settings for TLC. *)
EXTENDS Settings

CONSTANTS k1, k2, l1, l2, p1, p2

KeyOrList == {[apiKey |-> k2], [keys |-> <<k1, k2>>], [keys |-> <<>>],
              [listen |-> l2]}
=============================================================================
