------------------------------- MODULE Lists --------------------------------
(***************************************************************************)
(* Filters and sums of sequences: what the iterators of Rust and the       *)
(* aggregates of SQL compute.  They are recursive functions, given for     *)
(* every place of the sequence, so that they can be reasoned about.        *)
(***************************************************************************)
EXTENDS Integers, Sequences, FiniteSets, FiniteSetsExt

\* A sequence of counts, added up as far as each of its places.
Sums(q) == LET upto[n \in 0..Len(q)] == IF n = 0 THEN 0 ELSE upto[n - 1] + q[n] IN upto
SumOf(q) == Sums(q)[Len(q)]

\* Of a sequence, the elements at the places of a set, as far as each place.
Picks(s, places) ==
  LET upto[n \in 0..Len(s)] == IF n = 0 THEN <<>>
                               ELSE IF n \in places THEN Append(upto[n - 1], s[n]) ELSE upto[n - 1]
  IN upto
Pick(s, places) == Picks(s, places)[Len(s)]
Where(s, Test(_)) == Pick(s, {i \in 1..Len(s) : Test(s[i])})

Values(s, Value(_)) == [i \in 1..Len(s) |-> Value(s[i])]
Total(s, Value(_)) == SumOf(Values(s, Value))
Greatest(s, Value(_)) == Max({0} \cup {Value(s[i]) : i \in 1..Len(s)})
Count(s, Test(_)) == Len(Where(s, Test))
=============================================================================
