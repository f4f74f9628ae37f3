------------------------------ MODULE MCPrepare ------------------------------
EXTENDS Prepare

CONSTANTS c1, c2, c3, d1, d2, d3

Model(prefixed, base) == [umans |-> prefixed, base |-> base]
Image(nested, d) == [nested |-> nested, image |-> d, is |-> "image"]

Nothing(base) == [model |-> Model(FALSE, base), parts |-> <<>>]

\* Conversations and keys: three conversations without images.  The cache: one
\* image in the system prompt and two in tool results, more than it has room
\* for, and one of them in another request to be described.  The limit: three
\* images, one of which handoff cannot read, of a model that sees and of one
\* that does not; maxImages is 2.
MCLoads ==
  {[of |-> [c \in Convs |-> Nothing("a")], requests |-> 4, swaps |-> 0, rests |-> 1, ticks |-> 0],
   [of |-> c1 :> [model |-> Model(FALSE, "a"),
                  parts |-> <<Image(FALSE, d1), Image(TRUE, d2), Image(TRUE, d3)>>] @@
           c2 :> [model |-> Model(TRUE, "a"), parts |-> <<Image(FALSE, d1)>>],
    requests |-> 2, swaps |-> 0, rests |-> 0, ticks |-> 1],
   [of |-> [c \in {c1, c2} |->
              [model |-> IF c = c1 THEN Model(FALSE, "a") ELSE Model(TRUE, "b"),
               parts |-> <<Image(FALSE, d3), Image(FALSE, NoUri), Image(FALSE, d1)>>]],
    requests |-> 2, swaps |-> 1, rests |-> 0, ticks |-> 0]}

MCCatalogs == {Model(TRUE, "a") :> [vision |-> v] @@ Model(TRUE, "b") :> [vision |-> "yes"] :
                 v \in {"via-handoff", "yes"}}
MCConfigs ==
  {[handoff |-> TRUE, cache |-> TRUE, maxImages |-> 2, enabled |-> {}, disabled |-> {}],
   [handoff |-> FALSE, cache |-> FALSE, maxImages |-> 0, enabled |-> {}, disabled |-> {Model(TRUE, "a")}]}
=============================================================================
