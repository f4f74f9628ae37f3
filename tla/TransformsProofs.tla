-------------------------- MODULE TransformsProofs --------------------------
(***************************************************************************)
(* Theorems about Transforms, for every set of streams, bodies, contexts   *)
(* and tools, all keys and values of JSON, every depth of nesting and all  *)
(* bounds.  What is recursive in the modules is a function over an         *)
(* interval: Recursion shows that such a function is what its definition   *)
(* says, and Induct that a set which holds 0 and every successor holds the *)
(* interval.                                                               *)
(***************************************************************************)
EXTENDS Transforms, SequenceTheorems, FiniteSetTheorems, WellFoundedInduction, TLAPS

-----------------------------------------------------------------------------
(* Recursion and induction over an interval, and sums. *)

\* A set of numbers has a least one.
LEMMA FirstOf ==
  ASSUME NEW S, S \subseteq Nat, S # {}
  PROVE  \E i \in S : \A j \in S : i <= j
<1>1. PICK i \in S : \A j \in S : ~ (<<j, i>> \in OpToRel(<, Nat))
  BY NatLessThanWellFounded, WFMin
<1>2. ASSUME NEW j \in S PROVE i <= j
  <2>1. ~ (j < i)
    BY <1>1 DEF OpToRel
  <2>. QED  BY <2>1
<1>. QED  BY <1>2

\* Induction over an interval, for the members of a set.
LEMMA Induct ==
  ASSUME NEW N \in Nat, NEW S, 0 \in S, \A n \in 1..N : n - 1 \in S => n \in S
  PROVE  \A n \in 0..N : n \in S
<1> DEFINE bad == {n \in 0..N : n \notin S}
<1> SUFFICES ASSUME bad # {} PROVE FALSE
  OBVIOUS
<1>1. PICK n \in bad : \A m \in bad : n <= m
  <2>1. bad \subseteq Nat
    OBVIOUS
  <2> HIDE DEF bad
  <2> QED BY <2>1, FirstOf
<1>2. n # 0 /\ n \in Nat /\ n - 1 \in 0..N /\ n \in 1..N /\ ~(n <= n - 1)
  OBVIOUS
<1>3. n - 1 \notin bad
  BY <1>1, <1>2
<1> QED BY <1>2, <1>3

\* A function defined by recursion over an interval, in a set of values: what
\* takes each number to the next value, and what comes of it.
Steps(N, S) == [(1..N) \X S -> S]
Iterates(f, N, S, b, step) == f \in [0..N -> S] /\ f[0] = b /\ \A n \in 1..N : f[n] = step[<<n, f[n - 1]>>]
\* Such a function exists.
LEMMA Recursion ==
  ASSUME NEW N \in Nat, NEW S, NEW b \in S, NEW step \in Steps(N, S)
  PROVE  \E f : Iterates(f, N, S, b, step)
<1> USE DEF Steps, Iterates
<1> DEFINE Until(n) == {f \in [0..N -> S] : f[0] = b /\ \A m \in 1..n : f[m] = step[<<m, f[m - 1]>>]}
           done == {n \in 0..N : Until(n) # {}}
<1>1. 0 \in done
  <2>1. [i \in 0..N |-> b] \in Until(0)
    OBVIOUS
  <2> QED BY <2>1
<1>2. ASSUME NEW n \in 1..N, n - 1 \in done PROVE n \in done
  <2>1. PICK f \in [0..N -> S] : f \in Until(n - 1)
    BY <1>2
  <2> DEFINE g == [f EXCEPT ![n] = step[<<n, f[n - 1]>>]]
  <2>0. step[<<n, f[n - 1]>>] \in S
    <3>1. <<n, f[n - 1]>> \in (1..N) \X S
      OBVIOUS
    <3> QED BY <3>1
  <2>2. g \in [0..N -> S] /\ g[0] = b /\ g[n] = step[<<n, f[n - 1]>>] /\ \A i \in 0..N : i # n => g[i] = f[i]
    BY <2>0, <2>1
  <2> HIDE DEF g
  <2>3. ASSUME NEW m \in 1..n PROVE g[m] = step[<<m, g[m - 1]>>]
    <3>1. g[m - 1] = f[m - 1]
      BY <2>2
    <3>2. CASE m = n
      BY <3>1, <3>2, <2>2
    <3>3. CASE m # n
      BY <3>1, <3>3, <2>1, <2>2
    <3> QED BY <3>2, <3>3
  <2>4. g \in Until(n)
    BY <2>2, <2>3
  <2> QED BY <2>4
<1>3. N \in done
  <2> HIDE DEF done
  <2>1. \A n \in 0..N : n \in done
    BY <1>1, <1>2, Induct
  <2> QED BY <2>1
<1> QED BY <1>3

\* The sums of a sequence of counts are what their definition says.
LEMMA SumsDef ==
  ASSUME NEW q \in Seq(Nat)
  PROVE  /\ Sums(q) \in [0..Len(q) -> Nat]
         /\ Sums(q)[0] = 0
         /\ \A n \in 1..Len(q) : Sums(q)[n] = Sums(q)[n - 1] + q[n]
<1> DEFINE N == Len(q)
           step == [p \in (1..N) \X Nat |-> p[2] + q[p[1]]]
<1>0. N \in Nat /\ \A i \in 1..N : q[i] \in Nat
  OBVIOUS
<1>1. step \in [(1..N) \X Nat -> Nat]
  BY <1>0
<1>2. \A n \in 1..N, x \in Nat : step[<<n, x>>] = x + q[n]
  BY <1>0
<1> HIDE DEF step, N
<1>3. PICK f \in [0..N -> Nat] : f[0] = 0 /\ \A n \in 1..N : f[n] = step[<<n, f[n - 1]>>]
  <2>1. 0 \in Nat /\ step \in Steps(N, Nat)
    BY <1>1 DEF Steps
  <2>2. \E f : Iterates(f, N, Nat, 0, step)
    BY <2>1, <1>0, Recursion
  <2> QED BY <2>2 DEF Iterates
<1>4. ASSUME NEW n \in 1..N PROVE f[n] = f[n - 1] + q[n]
  <2>1. f[n - 1] \in Nat
    BY <1>0
  <2> QED BY <2>1, <1>2, <1>3
<1>5. f = [n \in 0..N |-> IF n = 0 THEN 0 ELSE f[n - 1] + q[n]]
  <2> DEFINE g == [n \in 0..N |-> IF n = 0 THEN 0 ELSE f[n - 1] + q[n]]
  <2>1. \A n \in 0..N : f[n] = g[n]
    BY <1>0, <1>3, <1>4
  <2>2. DOMAIN f = 0..N /\ f = [n \in DOMAIN f |-> f[n]]
    OBVIOUS
  <2> QED BY <2>1, <2>2
<1>6. Sums(q) = [n \in 0..N |-> IF n = 0 THEN 0 ELSE Sums(q)[n - 1] + q[n]]
  BY <1>5 DEF Sums, N
<1>7. DOMAIN Sums(q) = 0..N /\ Sums(q)[0] = 0 /\ \A n \in 1..N : Sums(q)[n] = Sums(q)[n - 1] + q[n]
  BY <1>6, <1>0
<1>8. \A n \in 0..N : Sums(q)[n] \in Nat
  <2> DEFINE T == {i \in 0..N : Sums(q)[i] \in Nat}
  <2>1. 0 \in T
    BY <1>0, <1>7
  <2>2. ASSUME NEW n \in 1..N, n - 1 \in T PROVE n \in T
    <3>1. n - 1 \in 0..N /\ n \in 0..N /\ Sums(q)[n - 1] \in Nat /\ q[n] \in Nat
      BY <1>0, <2>2
    <3>2. Sums(q)[n] = Sums(q)[n - 1] + q[n]
      BY <1>7
    <3> QED BY <3>1, <3>2
  <2>3. \A n \in 0..N : n \in T
    <3> HIDE DEF T
    <3> QED BY <2>1, <2>2, <1>0, Induct
  <2> QED BY <2>3
<1> QED BY <1>6, <1>7, <1>8 DEF N

-----------------------------------------------------------------------------
(* Sums. *)

\* What begins with 0 and grows by the elements is the sums.
LEMMA SumsAre ==
  ASSUME NEW q \in Seq(Nat), NEW f \in [0..Len(q) -> Nat], f[0] = 0,
         \A n \in 1..Len(q) : f[n] = f[n - 1] + q[n]
  PROVE  \A n \in 0..Len(q) : Sums(q)[n] = f[n]
<1> DEFINE T == {n \in 0..Len(q) : Sums(q)[n] = f[n]}
<1>0. Len(q) \in Nat
  OBVIOUS
<1>1. 0 \in T
  BY <1>0, SumsDef
<1>2. ASSUME NEW n \in 1..Len(q), n - 1 \in T PROVE n \in T
  <2>1. n \in 0..Len(q) /\ Sums(q)[n - 1] = f[n - 1]
    BY <1>2
  <2>2. Sums(q)[n] = Sums(q)[n - 1] + q[n]
    BY SumsDef
  <2> QED BY <2>1, <2>2
<1>3. \A n \in 0..Len(q) : n \in T
  <2> HIDE DEF T
  <2> QED BY <1>0, <1>1, <1>2, Induct
<1> QED BY <1>3

\* A sum of counts is a count.
LEMMA SumOfNat ==
  ASSUME NEW q \in Seq(Nat) PROVE SumOf(q) \in Nat
<1>1. Len(q) \in Nat /\ Len(q) \in 0..Len(q)
  OBVIOUS
<1> QED BY <1>1, SumsDef DEF SumOf

\* Nothing adds up to 0.
LEMMA SumOfEmpty == SumOf(<<>>) = 0
<1>1. <<>> \in Seq(Nat) /\ Len(<<>>) = 0
  OBVIOUS
<1> QED BY <1>1, SumsDef DEF SumOf

\* One more element adds its value.
LEMMA SumOfAppend ==
  ASSUME NEW q \in Seq(Nat), NEW x \in Nat
  PROVE  SumOf(Append(q, x)) = SumOf(q) + x
<1> DEFINE r == Append(q, x)
           N == Len(q)
           f == [n \in 0..N |-> Sums(r)[n]]
<1>0. N \in Nat /\ r \in Seq(Nat) /\ Len(r) = N + 1 /\ r[N + 1] = x /\ \A i \in 1..N : r[i] = q[i]
  BY AppendProperties
<1>1. Sums(r) \in [0..N + 1 -> Nat] /\ Sums(r)[0] = 0
  BY <1>0, SumsDef
<1>2. \A n \in 1..N + 1 : Sums(r)[n] = Sums(r)[n - 1] + r[n]
  BY <1>0, SumsDef
<1> HIDE DEF r
<1>3. f \in [0..Len(q) -> Nat] /\ f[0] = 0 /\ \A n \in 0..N : f[n] = Sums(r)[n]
  BY <1>0, <1>1
<1>4. ASSUME NEW n \in 1..Len(q) PROVE f[n] = f[n - 1] + q[n]
  <2>1. n \in 0..N /\ n - 1 \in 0..N /\ n \in 1..N + 1 /\ n \in 1..N
    BY <1>0
  <2>2. f[n] = Sums(r)[n] /\ f[n - 1] = Sums(r)[n - 1] /\ r[n] = q[n]
    BY <2>1, <1>0, <1>3
  <2> QED BY <2>1, <2>2, <1>2
<1>5. Sums(q)[N] = Sums(r)[N]
  <2> HIDE DEF f
  <2>1. \A n \in 0..Len(q) : Sums(q)[n] = f[n]
    BY <1>3, <1>4, SumsAre
  <2> QED BY <2>1, <1>0, <1>3
<1>6. Sums(r)[N + 1] = Sums(r)[N] + x
  BY <1>0, <1>2
<1> QED BY <1>0, <1>5, <1>6 DEF SumOf, r

\* Sums of counts that are the sums of counts.
LEMMA SumOfPlus ==
  ASSUME NEW p \in Seq(Nat), NEW q \in Seq(Nat), NEW r \in Seq(Nat), Len(q) = Len(p), Len(r) = Len(p),
         \A i \in 1..Len(p) : p[i] = q[i] + r[i]
  PROVE  SumOf(p) = SumOf(q) + SumOf(r)
<1> DEFINE N == Len(p)
           f == [n \in 0..N |-> Sums(q)[n] + Sums(r)[n]]
<1>0. N \in Nat /\ (\A i \in 1..N : q[i] \in Nat /\ r[i] \in Nat /\ p[i] \in Nat)
  <2>1. N \in Nat /\ 1..N = 1..Len(q) /\ 1..N = 1..Len(r)
    OBVIOUS
  <2>2. ASSUME NEW i \in 1..N PROVE q[i] \in Nat /\ r[i] \in Nat /\ p[i] \in Nat
    <3>1. i \in 1..Len(p) /\ i \in 1..Len(q) /\ i \in 1..Len(r)
      BY <2>1, <2>2
    <3>2. q[i] \in Nat
      BY <3>1, ElementOfSeq
    <3>3. r[i] \in Nat
      BY <3>1, ElementOfSeq
    <3>4. p[i] \in Nat
      BY <3>1, ElementOfSeq
    <3> QED BY <3>2, <3>3, <3>4
  <2> QED BY <2>1, <2>2
<1>1. /\ Sums(q) \in [0..N -> Nat] /\ Sums(q)[0] = 0
      /\ \A n \in 1..N : Sums(q)[n] = Sums(q)[n - 1] + q[n]
  BY SumsDef
<1>2. /\ Sums(r) \in [0..N -> Nat] /\ Sums(r)[0] = 0
      /\ \A n \in 1..N : Sums(r)[n] = Sums(r)[n - 1] + r[n]
  BY SumsDef
<1>3. f \in [0..Len(p) -> Nat] /\ f[0] = 0 /\ \A n \in 0..N : f[n] = Sums(q)[n] + Sums(r)[n]
  BY <1>0, <1>1, <1>2
<1> HIDE DEF f
<1>4. ASSUME NEW n \in 1..Len(p) PROVE f[n] = f[n - 1] + p[n]
  <2> DEFINE a == Sums(q)[n - 1]
             b == Sums(r)[n - 1]
             c == q[n]
             d == r[n]
  <2>0. n \in 0..N /\ n - 1 \in 0..N
    BY <1>0
  <2>1. a \in Nat /\ b \in Nat /\ c \in Nat /\ d \in Nat
    BY <2>0, <1>0, <1>1, <1>2
  <2>2. f[n] = (a + c) + (b + d) /\ f[n - 1] = a + b /\ p[n] = c + d
    BY <2>0, <1>1, <1>2, <1>3
  <2> HIDE DEF a, b, c, d
  <2> QED BY ONLY <2>1, <2>2
<1>5. \A n \in 0..Len(p) : Sums(p)[n] = f[n]
  BY <1>3, <1>4, SumsAre
<1> QED BY <1>0, <1>3, <1>5 DEF SumOf

\* Sums of counts that are at most as large are at most as large.
LEMMA SumOfLeq ==
  ASSUME NEW p \in Seq(Nat), NEW q \in Seq(Nat), Len(q) = Len(p),
         \A i \in 1..Len(p) : p[i] <= q[i]
  PROVE  SumOf(p) <= SumOf(q)
<1> DEFINE r == [i \in 1..Len(p) |-> q[i] - p[i]]
<1>0. Len(p) \in Nat /\ \A i \in 1..Len(p) : q[i] \in Nat /\ p[i] \in Nat /\ q[i] - p[i] \in Nat
  OBVIOUS
<1>1. r \in Seq(Nat) /\ Len(r) = Len(p) /\ \A i \in 1..Len(p) : r[i] = q[i] - p[i]
  BY <1>0
<1>2. \A i \in 1..Len(q) : q[i] = p[i] + r[i]
  BY <1>0, <1>1
<1> HIDE DEF r
<1>3. SumOf(q) = SumOf(p) + SumOf(r)
  <2>1. Len(p) = Len(q) /\ Len(r) = Len(q)
    BY <1>1
  <2> QED BY <1>1, <1>2, <2>1, SumOfPlus
<1>4. SumOf(p) \in Nat /\ SumOf(r) \in Nat
  BY <1>1, SumOfNat
<1> QED BY <1>3, <1>4

\* A sum of ones is their number.
LEMMA SumOfOnes ==
  ASSUME NEW N \in Nat PROVE SumOf([i \in 1..N |-> 1]) = N
<1> DEFINE q == [i \in 1..N |-> 1]
           f == [n \in 0..N |-> n]
<1>1. q \in Seq(Nat) /\ Len(q) = N /\ \A i \in 1..N : q[i] = 1
  OBVIOUS
<1>2. f \in [0..N -> Nat] /\ f[0] = 0 /\ f[N] = N /\ \A n \in 1..N : f[n] = f[n - 1] + 1
  OBVIOUS
<1> HIDE DEF q, f
<1>3. \A n \in 0..Len(q) : Sums(q)[n] = f[n]
  BY <1>1, <1>2, SumsAre
<1> QED BY <1>1, <1>2, <1>3 DEF SumOf, q

\* A sum of zeros is 0.
LEMMA SumOfZeros ==
  ASSUME NEW q \in Seq(Nat), \A i \in 1..Len(q) : q[i] = 0 PROVE SumOf(q) = 0
<1> DEFINE f == [n \in 0..Len(q) |-> 0]
<1>1. f \in [0..Len(q) -> Nat] /\ f[0] = 0 /\ f[Len(q)] = 0 /\ (\A n \in 1..Len(q) : f[n] = f[n - 1] + q[n])
  OBVIOUS
<1> HIDE DEF f
<1>2. \A n \in 0..Len(q) : Sums(q)[n] = f[n]
  BY <1>1, SumsAre
<1> QED BY <1>1, <1>2 DEF SumOf

-----------------------------------------------------------------------------
(* The elements of a sequence that are in a set, and sums over elements. *)

\* The elements that are in a set; what the values of the elements add up to;
\* values, and values that count in a set only.
Sel(s, A) == Pick(s, {i \in 1..Len(s) : s[i] \in A})
Adds(s, v) == [i \in 1..Len(s) |-> v[s[i]]]
Add(s, v) == SumOf(Adds(s, v))
Counts(T) == [T -> Nat]
Masked(v, A) == [x \in DOMAIN v |-> IF x \in A THEN v[x] ELSE 0]

\* What is picked as far as each place is what the definition of Picks says.
LEMMA PicksDef ==
  ASSUME NEW T, NEW s \in Seq(T), NEW places
  PROVE  /\ Picks(s, places) \in [0..Len(s) -> Seq(T)]
         /\ Picks(s, places)[0] = <<>>
         /\ \A n \in 1..Len(s) :
              Picks(s, places)[n] = IF n \in places THEN Append(Picks(s, places)[n - 1], s[n])
                                    ELSE Picks(s, places)[n - 1]
<1> DEFINE N == Len(s)
           step == [p \in (1..N) \X Seq(T) |-> IF p[1] \in places THEN Append(p[2], s[p[1]]) ELSE p[2]]
<1>0. N \in Nat /\ \A i \in 1..N : s[i] \in T
  OBVIOUS
<1>1. step \in [(1..N) \X Seq(T) -> Seq(T)]
  BY <1>0, AppendProperties
<1>2. \A n \in 1..N, x \in Seq(T) : step[<<n, x>>] = IF n \in places THEN Append(x, s[n]) ELSE x
  BY <1>0
<1> HIDE DEF step, N
<1>3. PICK f \in [0..N -> Seq(T)] : f[0] = <<>> /\ \A n \in 1..N : f[n] = step[<<n, f[n - 1]>>]
  <2>1. <<>> \in Seq(T) /\ step \in Steps(N, Seq(T))
    BY <1>1 DEF Steps
  <2>2. \E f : Iterates(f, N, Seq(T), <<>>, step)
    BY <2>1, <1>0, Recursion
  <2> QED BY <2>2 DEF Iterates
<1>4. ASSUME NEW n \in 1..N
      PROVE  f[n] = IF n \in places THEN Append(f[n - 1], s[n]) ELSE f[n - 1]
  <2>1. f[n - 1] \in Seq(T)
    BY <1>0
  <2>2. step[<<n, f[n - 1]>>] = IF n \in places THEN Append(f[n - 1], s[n]) ELSE f[n - 1]
    BY <2>1, <1>2
  <2> QED BY <2>2, <1>3
<1>5. f = [n \in 0..N |-> IF n = 0 THEN <<>>
                          ELSE IF n \in places THEN Append(f[n - 1], s[n]) ELSE f[n - 1]]
  <2> DEFINE g == [n \in 0..N |-> IF n = 0 THEN <<>>
                                  ELSE IF n \in places THEN Append(f[n - 1], s[n]) ELSE f[n - 1]]
  <2>1. ASSUME NEW n \in 0..N PROVE f[n] = g[n]
    <3>1. CASE n = 0
      BY <1>0, <1>3, <3>1
    <3>2. CASE n # 0
      <4>1. n \in 1..N
        BY <1>0, <3>2
      <4> QED BY <4>1, <3>2, <1>4
    <3> QED BY <3>1, <3>2
  <2>2. DOMAIN f = 0..N /\ f = [n \in DOMAIN f |-> f[n]]
    OBVIOUS
  <2> QED BY <2>1, <2>2
<1>6. Picks(s, places) = [n \in 0..N |-> IF n = 0 THEN <<>>
                            ELSE IF n \in places THEN Append(Picks(s, places)[n - 1], s[n])
                            ELSE Picks(s, places)[n - 1]]
  BY <1>5 DEF Picks, N
<1>7. /\ DOMAIN Picks(s, places) = 0..N /\ Picks(s, places)[0] = <<>>
      /\ \A n \in 1..N : Picks(s, places)[n] =
           IF n \in places THEN Append(Picks(s, places)[n - 1], s[n]) ELSE Picks(s, places)[n - 1]
  <2>1. 0 \in 0..N /\ \A n \in 1..N : n \in 0..N /\ n # 0
    BY <1>0
  <2>2. DOMAIN Picks(s, places) = 0..N /\ Picks(s, places)[0] = <<>>
    BY <1>6, <2>1
  <2>3. ASSUME NEW n \in 1..N
        PROVE  Picks(s, places)[n] = IF n \in places THEN Append(Picks(s, places)[n - 1], s[n])
                                     ELSE Picks(s, places)[n - 1]
    <3>1. n \in 0..N /\ n # 0
      BY <2>1
    <3> QED BY <1>6, <3>1
  <2> QED BY <2>2, <2>3
<1>8. \A n \in 0..N : Picks(s, places)[n] \in Seq(T)
  <2> DEFINE S == {i \in 0..N : Picks(s, places)[i] \in Seq(T)}
  <2>0. 0 \in 0..N /\ <<>> \in Seq(T)
    BY <1>0
  <2>1. 0 \in S
    BY <2>0, <1>7
  <2>2. ASSUME NEW n \in 1..N, n - 1 \in S PROVE n \in S
    <3>1. n - 1 \in 0..N /\ n \in 0..N /\ Picks(s, places)[n - 1] \in Seq(T) /\ s[n] \in T
      BY <1>0, <2>2
    <3>2. Picks(s, places)[n] = IF n \in places THEN Append(Picks(s, places)[n - 1], s[n])
                                ELSE Picks(s, places)[n - 1]
      BY <1>7
    <3>3. Append(Picks(s, places)[n - 1], s[n]) \in Seq(T)
      BY <3>1, AppendProperties
    <3> QED BY <3>1, <3>2, <3>3
  <2>3. \A n \in 0..N : n \in S
    <3> HIDE DEF S
    <3> QED BY <2>1, <2>2, <1>0, Induct
  <2> QED BY <2>3
<1> QED BY <1>6, <1>7, <1>8 DEF N

\* The values of the elements are counts, and so is their sum.
LEMMA AddsType ==
  ASSUME NEW T, NEW s \in Seq(T), NEW v \in Counts(T)
  PROVE  /\ Adds(s, v) \in Seq(Nat) /\ Len(Adds(s, v)) = Len(s)
         /\ \A i \in 1..Len(s) : Adds(s, v)[i] = v[s[i]]
         /\ Add(s, v) \in Nat
<1> USE DEF Counts
<1>1. Len(s) \in Nat /\ \A i \in 1..Len(s) : v[s[i]] \in Nat
  OBVIOUS
<1>2. Adds(s, v) \in Seq(Nat) /\ Len(Adds(s, v)) = Len(s) /\ \A i \in 1..Len(s) : Adds(s, v)[i] = v[s[i]]
  BY <1>1 DEF Adds
<1> QED BY <1>2, SumOfNat DEF Add

\* One more element adds its value.
LEMMA AddAppend ==
  ASSUME NEW T, NEW s \in Seq(T), NEW v \in Counts(T), NEW x \in T
  PROVE  Add(Append(s, x), v) = Add(s, v) + v[x]
<1> DEFINE r == Append(s, x)
<1>1. r \in Seq(T) /\ Len(r) = Len(s) + 1 /\ (\A i \in 1..Len(s) : r[i] = s[i]) /\ r[Len(s) + 1] = x
      /\ Len(s) \in Nat
  BY AppendProperties
<1> HIDE DEF r
<1>0. \A y \in T : v[y] \in Nat
  BY DEF Counts
<1>2. /\ Adds(r, v) \in Seq(Nat) /\ Len(Adds(r, v)) = Len(s) + 1
      /\ \A i \in 1..Len(s) + 1 : Adds(r, v)[i] = v[r[i]]
  BY <1>1, AddsType
<1>3. Adds(s, v) \in Seq(Nat) /\ Len(Adds(s, v)) = Len(s) /\ \A i \in 1..Len(s) : Adds(s, v)[i] = v[s[i]]
  BY AddsType
<1> DEFINE a == Append(Adds(s, v), v[x])
<1>4. a \in Seq(Nat) /\ Len(a) = Len(s) + 1 /\ (\A i \in 1..Len(s) : a[i] = v[s[i]]) /\ a[Len(s) + 1] = v[x]
  BY <1>0, <1>3, AppendProperties
<1> HIDE DEF a
<1>5. ASSUME NEW i \in 1..Len(s) + 1 PROVE Adds(r, v)[i] = a[i]
  <2>1. i \in 1..Len(s) \/ i = Len(s) + 1
    BY <1>1
  <2> QED BY <2>1, <1>1, <1>2, <1>4
<1>6. Adds(r, v) = a
  BY <1>2, <1>4, <1>5, SeqEqual
<1>7. SumOf(a) = SumOf(Adds(s, v)) + v[x]
  BY <1>0, <1>3, SumOfAppend DEF a
<1> QED BY <1>6, <1>7 DEF Add, r

\* No elements add up to 0.
LEMMA AddEmpty ==
  ASSUME NEW T, NEW v \in Counts(T) PROVE Add(<<>>, v) = 0
<1>1. <<>> \in Seq(T) /\ Len(<<>>) = 0
  OBVIOUS
<1>2. Adds(<<>>, v) \in Seq(Nat) /\ Len(Adds(<<>>, v)) = 0
  BY <1>1, AddsType
<1>3. Adds(<<>>, v) = <<>>
  BY <1>2, EmptySeq
<1> QED BY <1>3, SumOfEmpty DEF Add

\* What is picked from the places whose elements are in a set, adds up to
\* what those elements add up to in the whole sequence.
LEMMA SelFacts ==
  ASSUME NEW T, NEW s \in Seq(T), NEW A
  PROVE  /\ Sel(s, A) \in Seq(T)
         /\ \A v \in Counts(T) : Add(Sel(s, A), v) = Add(s, Masked(v, A))
<1> DEFINE places == {i \in 1..Len(s) : s[i] \in A}
           P == Picks(s, places)
           N == Len(s)
<1>0. N \in Nat /\ \A i \in 1..N : s[i] \in T
  OBVIOUS
<1>2. \A n \in 1..N : n \in places <=> s[n] \in A
  OBVIOUS
<1>3. Sel(s, A) = P[N]
  BY DEF Sel, Pick
<1> HIDE DEF places
<1>1. /\ P \in [0..N -> Seq(T)] /\ P[0] = <<>>
      /\ \A n \in 1..N : P[n] = IF n \in places THEN Append(P[n - 1], s[n]) ELSE P[n - 1]
  BY PicksDef
<1> HIDE DEF P
<1>4. ASSUME NEW v \in Counts(T) PROVE Add(P[N], v) = Add(s, Masked(v, A))
  <2> DEFINE m == Masked(v, A)
  <2>1. m \in Counts(T) /\ \A x \in T : m[x] = IF x \in A THEN v[x] ELSE 0
    BY DEF Masked, Counts
  <2> HIDE DEF m
  <2> DEFINE f == [n \in 0..N |-> Add(P[n], v)]
  <2>2. f \in [0..N -> Nat] /\ \A n \in 0..N : f[n] = Add(P[n], v)
    BY <1>1, AddsType
  <2>3. f[0] = 0
    BY <2>2, <1>0, <1>1, AddEmpty
  <2> HIDE DEF f
  <2>4. Adds(s, m) \in Seq(Nat) /\ Len(Adds(s, m)) = N /\ \A i \in 1..N : Adds(s, m)[i] = m[s[i]]
    BY <2>1, AddsType
  <2>5. ASSUME NEW n \in 1..N PROVE f[n] = f[n - 1] + Adds(s, m)[n]
    <3>0. n - 1 \in 0..N /\ n \in 0..N /\ s[n] \in T
      BY <1>0
    <3>1. n - 1 \in 0..N /\ n \in 0..N /\ P[n - 1] \in Seq(T) /\ s[n] \in T
      BY <3>0, <1>1
    <3>2. Adds(s, m)[n] = IF s[n] \in A THEN v[s[n]] ELSE 0
      BY <3>1, <2>1, <2>4
    <3>3. CASE s[n] \in A
      <4>1. P[n] = Append(P[n - 1], s[n])
        BY <3>3, <1>1, <1>2
      <4>2. Add(P[n], v) = Add(P[n - 1], v) + v[s[n]]
        BY <4>1, <3>1, AddAppend
      <4> QED BY <4>2, <3>1, <3>2, <3>3, <2>2
    <3>4. CASE s[n] \notin A
      <4>1. P[n] = P[n - 1]
        BY <3>4, <1>1, <1>2
      <4> QED BY <4>1, <3>1, <3>2, <3>4, <2>2
    <3> QED BY <3>3, <3>4
  <2> DEFINE z == Adds(s, m)
  <2>8. z \in Seq(Nat) /\ f \in [0..Len(z) -> Nat] /\ \A n \in 1..Len(z) : f[n] = f[n - 1] + z[n]
    BY <2>2, <2>4, <2>5
  <2>6. \A n \in 0..Len(Adds(s, m)) : Sums(Adds(s, m))[n] = f[n]
    <3> HIDE DEF z
    <3>1. \A n \in 0..Len(z) : Sums(z)[n] = f[n]
      BY <2>3, <2>8, SumsAre
    <3> QED BY <3>1 DEF z
  <2>7. SumOf(Adds(s, m)) = f[N]
    BY <2>4, <2>6, <1>0 DEF SumOf
  <2> QED BY <2>2, <2>7, <1>0 DEF Add, m
<1> QED BY <1>0, <1>1, <1>3, <1>4

\* All that is picked is in the set.
LEMMA SelIn ==
  ASSUME NEW T, NEW s \in Seq(T), NEW A
  PROVE  Sel(s, A) \in Seq(T \cap A)
<1> DEFINE places == {i \in 1..Len(s) : s[i] \in A}
           P == Picks(s, places)
           N == Len(s)
<1>0. N \in Nat /\ \A i \in 1..N : s[i] \in T
  OBVIOUS
<1>2. \A n \in 1..N : n \in places <=> s[n] \in A
  OBVIOUS
<1>3. Sel(s, A) = P[N]
  BY DEF Sel, Pick
<1> HIDE DEF places
<1>1. /\ P \in [0..N -> Seq(T)] /\ P[0] = <<>>
      /\ \A n \in 1..N : P[n] = IF n \in places THEN Append(P[n - 1], s[n]) ELSE P[n - 1]
  BY PicksDef
<1> HIDE DEF P
<1>5. P[N] \in Seq(T \cap A)
  <2> DEFINE S == {n \in 0..N : P[n] \in Seq(T \cap A)}
  <2>1. 0 \in S
    <3>1. <<>> \in Seq(T \cap A) /\ 0 \in 0..N
      BY <1>0
    <3> QED BY <3>1, <1>1
  <2>2. ASSUME NEW n \in 1..N, n - 1 \in S PROVE n \in S
    <3>1. n \in 0..N /\ P[n - 1] \in Seq(T \cap A) /\ s[n] \in T
      BY <2>2, <1>0
    <3>2. s[n] \in A => Append(P[n - 1], s[n]) \in Seq(T \cap A)
      BY <3>1, AppendProperties
    <3>3. P[n] = IF s[n] \in A THEN Append(P[n - 1], s[n]) ELSE P[n - 1]
      BY <1>1, <1>2
    <3> QED BY <3>1, <3>2, <3>3
  <2>3. \A n \in 0..N : n \in S
    <3> HIDE DEF S
    <3> QED BY <2>1, <2>2, <1>0, Induct
  <2> QED BY <2>3, <1>0
<1> QED BY <1>3, <1>5

\* As many are picked as there are such elements.
LEMMA LenIsAdd ==
  ASSUME NEW T, NEW s \in Seq(T) PROVE Len(s) = Add(s, [x \in T |-> 1])
<1>1. Len(s) \in Nat /\ \A i \in 1..Len(s) : s[i] \in T
  OBVIOUS
<1>2. Adds(s, [x \in T |-> 1]) = [i \in 1..Len(s) |-> 1]
  BY <1>1 DEF Adds
<1> QED BY <1>1, <1>2, SumOfOnes DEF Add

\* Values that are the same, at most as large, or the sum of two others, at
\* every element.
Alike(s, v, w) == \A i \in 1..Len(s) : v[s[i]] = w[s[i]]
Under(s, v, w) == \A i \in 1..Len(s) : v[s[i]] <= w[s[i]]
Joins(s, u, v, w) == \A i \in 1..Len(s) : u[s[i]] = v[s[i]] + w[s[i]]

\* Elements of the same values add up to the same.
LEMMA AddSame ==
  ASSUME NEW T, NEW s \in Seq(T), NEW v \in Counts(T), NEW w \in Counts(T), Alike(s, v, w)
  PROVE  Add(s, v) = Add(s, w)
<1>1. Adds(s, v) = Adds(s, w)
  BY DEF Adds, Alike
<1> QED BY <1>1 DEF Add

\* Elements of values at most as large add up to at most as much.
LEMMA AddLeq ==
  ASSUME NEW T, NEW s \in Seq(T), NEW v \in Counts(T), NEW w \in Counts(T), Under(s, v, w)
  PROVE  Add(s, v) <= Add(s, w)
<1>1. Adds(s, v) \in Seq(Nat) /\ Len(Adds(s, v)) = Len(s) /\ \A i \in 1..Len(s) : Adds(s, v)[i] = v[s[i]]
  BY AddsType
<1>2. Adds(s, w) \in Seq(Nat) /\ Len(Adds(s, w)) = Len(s) /\ \A i \in 1..Len(s) : Adds(s, w)[i] = w[s[i]]
  BY AddsType
<1>3. \A i \in 1..Len(s) : Adds(s, v)[i] <= Adds(s, w)[i]
  BY <1>1, <1>2 DEF Under
<1> QED BY <1>1, <1>2, <1>3, SumOfLeq DEF Add

\* Elements of values that are sums add up to the sum.
LEMMA AddPlus ==
  ASSUME NEW T, NEW s \in Seq(T), NEW u \in Counts(T), NEW v \in Counts(T), NEW w \in Counts(T),
         Joins(s, u, v, w)
  PROVE  Add(s, u) = Add(s, v) + Add(s, w)
<1>1. Adds(s, u) \in Seq(Nat) /\ Len(Adds(s, u)) = Len(s) /\ \A i \in 1..Len(s) : Adds(s, u)[i] = u[s[i]]
  BY AddsType
<1>2. Adds(s, v) \in Seq(Nat) /\ Len(Adds(s, v)) = Len(s) /\ \A i \in 1..Len(s) : Adds(s, v)[i] = v[s[i]]
  BY AddsType
<1>3. Adds(s, w) \in Seq(Nat) /\ Len(Adds(s, w)) = Len(s) /\ \A i \in 1..Len(s) : Adds(s, w)[i] = w[s[i]]
  BY AddsType
<1>4. \A i \in 1..Len(s) : Adds(s, u)[i] = Adds(s, v)[i] + Adds(s, w)[i]
  BY <1>1, <1>2, <1>3 DEF Joins
<1> QED BY <1>1, <1>2, <1>3, <1>4, SumOfPlus DEF Add

\* Elements sorted into classes 1..K: the classes' sums add up to the sum over
\* the elements in any of them.
InClass(c, i) == {x \in DOMAIN c : c[x] = i}
InClasses(c, n) == {x \in DOMAIN c : c[x] \in 1..n}
SumsOfClasses(s, v, c, q) == \A i \in 1..Len(q) : q[i] = Add(s, Masked(v, InClass(c, i)))

\* The sums of the classes add up to the sum over all elements in a class.
LEMMA ClassesAddUp ==
  ASSUME NEW T, NEW s \in Seq(T), NEW v \in Counts(T), NEW c \in [T -> Int], NEW q \in Seq(Nat),
         SumsOfClasses(s, v, c, q)
  PROVE  SumOf(q) = Add(s, Masked(v, InClasses(c, Len(q))))
<1> DEFINE N == Len(q)
           upto(n) == Masked(v, InClasses(c, n))
           f == [n \in 0..N |-> Add(s, upto(n))]
<1>0. N \in Nat /\ \A i \in 1..Len(s) : s[i] \in T
  OBVIOUS
<1>1. \A n \in 0..N : upto(n) \in Counts(T) /\ \A x \in T : upto(n)[x] = IF c[x] \in 1..n THEN v[x] ELSE 0
  BY DEF Masked, Counts, InClasses
<1>2. \A n \in 1..N : /\ Masked(v, InClass(c, n)) \in Counts(T)
                      /\ \A x \in T : Masked(v, InClass(c, n))[x] = IF c[x] = n THEN v[x] ELSE 0
  BY DEF Masked, Counts, InClass
<1> HIDE DEF upto
<1>3. f \in [0..N -> Nat] /\ \A n \in 0..N : f[n] = Add(s, upto(n))
  BY <1>1, AddsType
<1>4. f[0] = 0
  <2> DEFINE z == [x \in T |-> 0]
  <2>0. z \in Counts(T) /\ \A i \in 1..Len(s) : z[s[i]] = 0
    BY <1>0 DEF Counts
  <2> HIDE DEF z
  <2>1. z \in Counts(T) /\ Adds(s, z) \in Seq(Nat) /\ Len(Adds(s, z)) = Len(s)
        /\ \A i \in 1..Len(s) : Adds(s, z)[i] = 0
    BY <2>0, AddsType
  <2>2. Add(s, z) = 0
    BY <2>1, SumOfZeros DEF Add
  <2>3. 0 \in 0..N /\ upto(0) \in Counts(T) /\ \A x \in T : upto(0)[x] = 0
    BY <1>0, <1>1
  <2>4. \A i \in 1..Len(s) : upto(0)[s[i]] = z[s[i]]
    BY <2>0, <2>3, <1>0
  <2> DEFINE e == upto(0)
  <2>6. e \in Counts(T) /\ Alike(s, e, z)
    BY <2>3, <2>4 DEF Alike
  <2>5. Add(s, upto(0)) = Add(s, z)
    <3> HIDE DEF e
    <3>1. Add(s, e) = Add(s, z)
      BY <2>0, <2>6, AddSame
    <3> QED BY <3>1 DEF e
  <2> QED BY <2>2, <2>5, <1>0, <1>3
<1> HIDE DEF f
<1>5. ASSUME NEW n \in 1..N PROVE f[n] = f[n - 1] + q[n]
  <2>0. n \in 0..N /\ n - 1 \in 0..N
    BY <1>0
  <2> DEFINE w == Masked(v, InClass(c, n))
             a == upto(n)
             b == upto(n - 1)
  <2>1. w \in Counts(T) /\ \A x \in T : w[x] = IF c[x] = n THEN v[x] ELSE 0
    BY <1>2
  <2>2. a \in Counts(T) /\ \A x \in T : a[x] = IF c[x] \in 1..n THEN v[x] ELSE 0
    BY <2>0, <1>1
  <2>3. b \in Counts(T) /\ \A x \in T : b[x] = IF c[x] \in 1..n - 1 THEN v[x] ELSE 0
    BY <2>0, <1>1
  <2> HIDE DEF w, a, b
  <2>4. ASSUME NEW x \in T PROVE a[x] = b[x] + w[x]
    <3>1. c[x] \in Int /\ v[x] \in Nat
      BY DEF Counts
    <3>2. c[x] \in 1..n <=> c[x] \in 1..n - 1 \/ c[x] = n
      BY <3>1
    <3>3. ~(c[x] \in 1..n - 1 /\ c[x] = n)
      BY <3>1
    <3> QED BY <3>1, <3>2, <3>3, <2>1, <2>2, <2>3
  <2>8. Joins(s, a, b, w)
    BY <2>4, <1>0 DEF Joins
  <2>9. a \in Counts(T) /\ b \in Counts(T) /\ w \in Counts(T)
    BY <2>1, <2>2, <2>3
  <2>5. Add(s, a) = Add(s, b) + Add(s, w)
    BY <2>8, <2>9, AddPlus
  <2>6. q[n] = Add(s, w)
    BY DEF w, SumsOfClasses
  <2>7. f[n] = Add(s, a) /\ f[n - 1] = Add(s, b)
    BY <2>0, <1>3 DEF a, b
  <2> QED BY <2>5, <2>6, <2>7
<1>6. \A n \in 0..Len(q) : Sums(q)[n] = f[n]
  BY <1>3, <1>4, <1>5, SumsAre
<1>7. SumOf(q) = f[N] /\ f[N] = Add(s, upto(N))
  <2>1. N \in 0..N
    BY <1>0
  <2> QED BY <2>1, <1>3, <1>6 DEF SumOf
<1> QED BY <1>7 DEF upto

-----------------------------------------------------------------------------
(* The views. *)

\* Every element counts once.
Ones(T) == [x \in T |-> 1]

\* The number of the elements in a set.
LEMMA SelCount ==
  ASSUME NEW T, NEW s \in Seq(T), NEW A
  PROVE  Len(Sel(s, A)) = Add(s, Masked(Ones(T), A))
<1>1. Sel(s, A) \in Seq(T) /\ Ones(T) \in Counts(T)
  BY SelFacts DEF Ones, Counts
<1>2. Len(Sel(s, A)) = Add(Sel(s, A), Ones(T))
  BY <1>1, LenIsAdd DEF Ones
<1> QED BY <1>1, <1>2, SelFacts

\* The summary computed in Rust is the one computed in SQL: what the ring counts
\* record by record is what the database sums over its cases (stats.rs 222-299,
\* db.rs 275-335).
LEMMA SummariesAlike ==
  ASSUME None \notin Nat, NEW T, T \subseteq RecordType, NEW s \in Seq(T)
  PROVE  MemorySummary(s) = SqlSummary(s)
<1>0. \A i \in 1..Len(s) : s[i] \in T /\ s[i] \in RecordType
  OBVIOUS
<1> DEFINE Errs == {x \in T : x.status >= 400}
<1>1. Count(s, LAMBDA rec : rec.status >= 400) = Total(s, LAMBDA rec : IF rec.status >= 400 THEN 1 ELSE 0)
  <2>1. Count(s, LAMBDA rec : rec.status >= 400) = Len(Sel(s, Errs))
    BY <1>0 DEF Count, Where, Sel
  <2>2. Total(s, LAMBDA rec : IF rec.status >= 400 THEN 1 ELSE 0) = Add(s, Masked(Ones(T), Errs))
    BY <1>0 DEF Total, Values, Add, Adds, Masked, Ones
  <2> HIDE DEF Errs
  <2> QED BY <2>1, <2>2, SelCount
<1> DEFINE Thr == {x \in T : x.status = 429 \/ x.status = 503}
<1>2. Count(s, LAMBDA rec : rec.status = 429 \/ rec.status = 503)
        = Total(s, LAMBDA rec : IF rec.status \in {429, 503} THEN 1 ELSE 0)
  <2>0. {i \in 1..Len(s) : s[i].status = 429 \/ s[i].status = 503} = {i \in 1..Len(s) : s[i] \in Thr}
    BY <1>0
  <2>1. Count(s, LAMBDA rec : rec.status = 429 \/ rec.status = 503) = Len(Sel(s, Thr))
    BY <2>0 DEF Count, Where, Sel
  <2>2. Total(s, LAMBDA rec : IF rec.status \in {429, 503} THEN 1 ELSE 0) = Add(s, Masked(Ones(T), Thr))
    <3>1. [i \in 1..Len(s) |-> IF s[i].status \in {429, 503} THEN 1 ELSE 0] = Adds(s, Masked(Ones(T), Thr))
      BY <1>0 DEF Adds, Masked, Ones
    <3> QED BY <3>1 DEF Total, Values, Add
  <2> HIDE DEF Thr
  <2> QED BY <2>1, <2>2, SelCount
<1> DEFINE Hits == {x \in T : x.cached}
<1>3. Count(s, LAMBDA rec : rec.cached) = Total(s, LAMBDA rec : IF rec.cached THEN 1 ELSE 0)
  <2>1. Count(s, LAMBDA rec : rec.cached) = Len(Sel(s, Hits))
    BY <1>0 DEF Count, Where, Sel
  <2>2. Total(s, LAMBDA rec : IF rec.cached THEN 1 ELSE 0) = Add(s, Masked(Ones(T), Hits))
    BY <1>0 DEF Total, Values, Add, Adds, Masked, Ones
  <2> HIDE DEF Hits
  <2> QED BY <2>1, <2>2, SelCount
<1> DEFINE Timed == {x \in T : x.ttft # None}
           timed == Sel(s, Timed)
           Gen == {x \in T : Generating(x)}
           first == [x \in T |-> IF x.ttft = None THEN 0 ELSE x.ttft]
           out == [x \in T |-> x.tout]
           time == [x \in T |-> IF Generating(x) THEN x.dur - x.ttft ELSE 0]
<1>4. Where(s, LAMBDA rec : rec.ttft # None) = timed
  BY <1>0 DEF Where, Sel
<1>5. /\ timed \in Seq(T) /\ timed \in Seq(T \cap Timed)
      /\ \A v \in Counts(T) : Add(timed, v) = Add(s, Masked(v, Timed))
  <2> HIDE DEF Timed
  <2> QED BY SelFacts, SelIn
<1>6. /\ Total(timed, LAMBDA rec : rec.ttft) = Total(s, LAMBDA rec : IF rec.ttft = None THEN 0 ELSE rec.ttft)
      /\ Len(timed) = Total(s, LAMBDA rec : IF rec.ttft = None THEN 0 ELSE 1)
  <2>1. \A i \in 1..Len(timed) : timed[i] \in T /\ timed[i].ttft # None
    <3> HIDE DEF timed
    <3> QED BY <1>5
  <2>2. first \in Counts(T)
    BY DEF Counts, RecordType
  <2>3. Total(timed, LAMBDA rec : rec.ttft) = Add(timed, first)
    <3> HIDE DEF timed
    <3> QED BY <2>1 DEF Total, Values, Add, Adds
  <2>4. Add(s, Masked(first, Timed)) = Total(s, LAMBDA rec : IF rec.ttft = None THEN 0 ELSE rec.ttft)
    BY <1>0 DEF Total, Values, Add, Adds, Masked
  <2>5. Len(timed) = Add(s, Masked(Ones(T), Timed))
    <3> HIDE DEF Timed
    <3> QED BY SelCount
  <2>6. Add(s, Masked(Ones(T), Timed)) = Total(s, LAMBDA rec : IF rec.ttft = None THEN 0 ELSE 1)
    BY <1>0 DEF Total, Values, Add, Adds, Masked, Ones
  <2>7. Add(timed, first) = Add(s, Masked(first, Timed))
    <3> HIDE DEF timed, first, Timed
    <3> QED BY <2>2, <1>5
  <2> QED BY <2>3, <2>4, <2>5, <2>6, <2>7
<1> DEFINE generated == Sel(timed, Gen)
<1>7. Where(timed, LAMBDA rec : rec.dur > rec.ttft) = generated
  <2>1. \A i \in 1..Len(timed) : timed[i] \in T /\ timed[i].ttft # None
    <3> HIDE DEF timed
    <3> QED BY <1>5
  <2>2. \A i \in 1..Len(timed) : timed[i].dur > timed[i].ttft <=> timed[i] \in Gen
    <3> HIDE DEF timed
    <3> QED BY <2>1 DEF Generating
  <2> HIDE DEF timed, Gen
  <2> QED BY <2>2 DEF Where, Sel
<1>8. /\ generated \in Seq(T) /\ generated \in Seq(T \cap Gen)
      /\ \A v \in Counts(T) : Add(generated, v) = Add(s, Masked(Masked(v, Gen), Timed))
  <2> HIDE DEF timed, Timed, Gen
  <2>1. \A v \in Counts(T) : Masked(v, Gen) \in Counts(T)
    BY DEF Counts, Masked
  <2>2. /\ generated \in Seq(T) /\ generated \in Seq(T \cap Gen)
        /\ \A v \in Counts(T) : Add(generated, v) = Add(timed, Masked(v, Gen))
    <3>1. timed \in Seq(T)
      BY <1>5
    <3> QED BY <3>1, SelFacts, SelIn
  <2> QED BY <2>1, <2>2, <1>5
<1>9. \A v \in Counts(T) : Masked(Masked(v, Gen), Timed) = Masked(v, Gen)
  BY DEF Masked, Counts, Generating
<1>10. Total(generated, LAMBDA rec : rec.tout) = Total(s, LAMBDA rec : IF Generating(rec) THEN rec.tout ELSE 0)
  <2>1. out \in Counts(T)
    BY DEF Counts, RecordType
  <2>2. Total(generated, LAMBDA rec : rec.tout) = Add(generated, out)
    <3> HIDE DEF generated
    <3>1. \A i \in 1..Len(generated) : generated[i] \in T
      BY <1>8
    <3> QED BY <3>1 DEF Total, Values, Add, Adds
  <2>3. Add(s, Masked(out, Gen)) = Total(s, LAMBDA rec : IF Generating(rec) THEN rec.tout ELSE 0)
    BY <1>0 DEF Total, Values, Add, Adds, Masked
  <2> HIDE DEF generated, Gen, out, Timed
  <2> QED BY <2>1, <2>2, <2>3, <1>8, <1>9
<1>11. Total(generated, LAMBDA rec : rec.dur - rec.ttft)
         = Total(s, LAMBDA rec : IF Generating(rec) THEN rec.dur - rec.ttft ELSE 0)
  <2>1. time \in Counts(T)
    BY DEF Counts, RecordType, Generating
  <2>2. Total(generated, LAMBDA rec : rec.dur - rec.ttft) = Add(generated, time)
    <3> HIDE DEF generated
    <3>1. \A i \in 1..Len(generated) : generated[i] \in T /\ Generating(generated[i])
      BY <1>8
    <3> QED BY <3>1 DEF Total, Values, Add, Adds
  <2>3. Add(s, Masked(time, Gen)) = Total(s, LAMBDA rec : IF Generating(rec) THEN rec.dur - rec.ttft ELSE 0)
    BY <1>0 DEF Total, Values, Add, Adds, Masked
  <2> HIDE DEF generated, Gen, time, Timed
  <2> QED BY <2>1, <2>2, <2>3, <1>8, <1>9
<1> HIDE DEF timed, generated
<1> QED BY <1>1, <1>2, <1>3, <1>4, <1>6, <1>7, <1>10, <1>11 DEF MemorySummary, SqlSummary

\* So are the tokens by key, but for the latency (stats.rs 222-262, db.rs
\* 359-417).
LEMMA TokensAlike ==
  ASSUME NEW s \in Seq(RecordType)
  PROVE  MemoryTokens(s) = [k \in KeyNames(s) |-> [DbTokens(s)[k] EXCEPT !.latency = 0]]
<1>1. ASSUME NEW k \in KeyNames(s), NEW of, of = OfKey(s, k)
      PROVE  Count(of, LAMBDA rec : rec.status >= 400)
               = Total(of, LAMBDA rec : IF rec.status >= 400 THEN 1 ELSE 0)
  <2> DEFINE K == {x \in RecordType : x.key = k}
             Errs == {x \in RecordType : x.status >= 400}
  <2>0. \A i \in 1..Len(s) : s[i] \in RecordType
    OBVIOUS
  <2>1. of = Sel(s, K)
    BY <2>0, <1>1 DEF OfKey, Where, Sel
  <2>2. of \in Seq(RecordType)
    <3> HIDE DEF K
    <3> QED BY <2>1, SelFacts
  <2>5. \A i \in 1..Len(of) : of[i] \in RecordType
    BY <2>2
  <2>3. Count(of, LAMBDA rec : rec.status >= 400) = Len(Sel(of, Errs))
    BY <2>5 DEF Count, Where, Sel
  <2>4. Total(of, LAMBDA rec : IF rec.status >= 400 THEN 1 ELSE 0) = Add(of, Masked(Ones(RecordType), Errs))
    BY <2>5 DEF Total, Values, Add, Adds, Masked, Ones
  <2> HIDE DEF Errs
  <2> QED BY <2>2, <2>3, <2>4, SelCount
<1> DEFINE kept == [k \in KeyNames(s) |-> [DbTokens(s)[k] EXCEPT !.latency = 0]]
<1>2. ASSUME NEW k \in KeyNames(s) PROVE MemoryTokens(s)[k] = [DbTokens(s)[k] EXCEPT !.latency = 0]
  <2> DEFINE of == OfKey(s, k)
             errors == Count(of, LAMBDA rec : rec.status >= 400)
             errs == Total(of, LAMBDA rec : IF rec.status >= 400 THEN 1 ELSE 0)
             tin == Total(of, LAMBDA rec : rec.tin)
             tout == Total(of, LAMBDA rec : rec.tout)
             dur == Total(of, LAMBDA rec : rec.dur)
  <2>1. errors = errs
    BY <1>1
  <2>2. MemoryTokens(s)[k] = [count |-> Len(of), errors |-> errors, tin |-> tin, tout |-> tout, latency |-> 0]
    BY DEF MemoryTokens
  <2>3. DbTokens(s)[k] = [count |-> Len(of), errors |-> errs, tin |-> tin, tout |-> tout, latency |-> dur]
    BY DEF DbTokens
  <2> HIDE DEF of, errors, errs, tin, tout, dur
  <2> QED BY <2>1, <2>2, <2>3
<1>3. MemoryTokens(s) = [k \in KeyNames(s) |-> MemoryTokens(s)[k]]
  BY DEF MemoryTokens
<1> QED BY <1>2, <1>3

-----------------------------------------------------------------------------
(* The records, and their tokens. *)

\* What is true of every record: of its tokens, its mark and its time; one
\* without a first token has nothing cached.
Kept(t) ==
  {rec \in RecordType : /\ rec.ctok + rec.crea <= rec.tin
                        /\ rec.cached <=> rec.ctok > 0 \/ rec.crea > 0
                        /\ rec.ts <= t
                        /\ rec.ttft = None => rec.ctok = 0 /\ rec.crea = 0}

\* The records since an instant.
From(t, start) == {rec \in Kept(t) : rec.ts >= start}

\* The fields of a record that was kept.
LEMMA KeptParts ==
  ASSUME NEW t, NEW x \in Kept(t)
  PROVE  x \in RecordType /\ x.ts \in Nat /\ x.ts <= t
BY DEF Kept, RecordType

\* Where a window starts.
LEMMA WindowStartIs ==
  ASSUME NEW t \in Nat, NEW window \in Nat
  PROVE  /\ WindowStart(t, window) \in Nat
         /\ WindowStart(t, window) = IF window <= t THEN t - window ELSE 0
<1>1. ASSUME NEW m \in {t - window, 0}, \A x \in {t - window, 0} : m >= x
      PROVE  WindowStart(t, window) = m
  <2>1. \E y \in {t - window, 0} : \A x \in {t - window, 0} : y >= x
    BY <1>1
  <2>2. WindowStart(t, window) \in {t - window, 0} /\ \A x \in {t - window, 0} : WindowStart(t, window) >= x
    BY <2>1 DEF WindowStart, Max
  <2>3. WindowStart(t, window) \in Int /\ m \in Int /\ WindowStart(t, window) >= m /\ m >= WindowStart(t, window)
    BY <1>1, <2>2
  <2> QED BY ONLY <2>3
<1>2. CASE window <= t
  <2>1. WindowStart(t, window) = t - window
    BY <1>1, <1>2
  <2> QED BY <1>2, <2>1
<1>3. CASE ~(window <= t)
  <2>1. WindowStart(t, window) = 0
    BY <1>1, <1>3
  <2> QED BY <1>3, <2>1
<1> QED BY <1>2, <1>3

\* The records of a window are records, none before its start.
LEMMA InWindowType ==
  ASSUME NEW t \in Nat, NEW s \in Seq(Kept(t)), NEW window \in Nat, NEW m
  PROVE  /\ InWindow(s, t, window, m) \in Seq(Kept(t))
         /\ InWindow(s, t, window, m) \in Seq(From(t, WindowStart(t, window)))
<1> DEFINE T == Kept(t)
           A == {rec \in T : rec.ts >= WindowStart(t, window) /\ OfModel(m, rec)}
           B == From(t, WindowStart(t, window))
<1>0. \A i \in 1..Len(s) : s[i] \in T
  OBVIOUS
<1>1. InWindow(s, t, window, m) = Sel(s, A)
  BY <1>0 DEF InWindow, Where, Sel
<1>2. T \cap A \subseteq B
  BY DEF From
<1> HIDE DEF A, B, T
<1>5. s \in Seq(T)
  BY DEF T
<1>3. Sel(s, A) \in Seq(T) /\ Sel(s, A) \in Seq(T \cap A)
  BY <1>5, SelFacts, SelIn
<1>4. Sel(s, A) \in Seq(B)
  BY <1>2, <1>3
<1> QED BY <1>1, <1>3, <1>4 DEF B, T

\* Of any records, no more input was cached than came in.
LEMMA TokensBounded ==
  ASSUME NEW s, NEW t \in Nat, s \in Seq(Kept(t))
  PROVE  /\ Total(s, LAMBDA rec : rec.ctok) + Total(s, LAMBDA rec : rec.crea) <= Total(s, LAMBDA rec : rec.tin)
         /\ Total(s, LAMBDA rec : rec.ctok) <= Total(s, LAMBDA rec : rec.tin)
<1> DEFINE T == Kept(t)
           ctok == [x \in T |-> x.ctok]
           crea == [x \in T |-> x.crea]
           both == [x \in T |-> x.ctok + x.crea]
           tin == [x \in T |-> x.tin]
<1>0. \A x \in T : x.ctok \in Nat /\ x.crea \in Nat /\ x.tin \in Nat /\ x.ctok + x.crea <= x.tin
  BY DEF Kept, RecordType
<1> HIDE DEF T
<1>1. s \in Seq(T) /\ \A i \in 1..Len(s) : s[i] \in T
  BY DEF T
<1>2. ctok \in Counts(T) /\ crea \in Counts(T) /\ both \in Counts(T) /\ tin \in Counts(T)
  BY <1>0 DEF Counts
<1>3. /\ Total(s, LAMBDA rec : rec.ctok) = Add(s, ctok)
      /\ Total(s, LAMBDA rec : rec.crea) = Add(s, crea)
      /\ Total(s, LAMBDA rec : rec.tin) = Add(s, tin)
  BY <1>1 DEF Total, Values, Add, Adds
<1>4. Joins(s, both, ctok, crea) /\ Under(s, both, tin)
  BY <1>0, <1>1 DEF Joins, Under
<1> HIDE DEF ctok, crea, both, tin
<1>5. Add(s, both) = Add(s, ctok) + Add(s, crea)
  BY <1>1, <1>2, <1>4, AddPlus
<1>6. Add(s, both) <= Add(s, tin)
  BY <1>1, <1>2, <1>4, AddLeq
<1>7. Add(s, ctok) \in Nat /\ Add(s, crea) \in Nat /\ Add(s, tin) \in Nat
  BY <1>1, <1>2, AddsType
<1>8. \A a, b, c, d \in Nat : d = a + b /\ d <= c => a + b <= c /\ a <= c
  OBVIOUS
<1>9. Add(s, both) \in Nat
  BY <1>1, <1>2, AddsType
<1> DEFINE a == Add(s, ctok)
           b == Add(s, crea)
           c == Add(s, tin)
           d == Add(s, both)
<1>10. a + b <= c /\ a <= c
  <2>1. a \in Nat /\ b \in Nat /\ c \in Nat /\ d \in Nat /\ d = a + b /\ d <= c
    BY <1>5, <1>6, <1>7, <1>9
  <2> HIDE DEF a, b, c, d
  <2> QED BY ONLY <2>1
<1> QED BY <1>3, <1>10

\* Nor in the summary and the buckets of a window.
LEMMA HitRate ==
  ASSUME NEW t \in Nat, NEW r \in Seq(Kept(t)), NEW window \in Nat, NEW m
  PROVE  LET s == InWindow(r, t, window, m)
             memory == MemorySummary(s)
             buckets == MemoryBuckets(s, t, window, 1)
         IN /\ memory.ctok + memory.crea <= memory.tin
            /\ \A i \in DOMAIN buckets : buckets[i].ctok <= buckets[i].tin
<1> DEFINE s == InWindow(r, t, window, m)
           start == WindowStart(t, window)
<1>1. s \in Seq(Kept(t))
  BY InWindowType
<1> HIDE DEF s, start
<1>2. MemorySummary(s).ctok + MemorySummary(s).crea <= MemorySummary(s).tin
  BY <1>1, TokensBounded DEF MemorySummary
<1> DEFINE past == Where(s, LAMBDA rec : rec.ts <= t)
           buckets == MemoryBuckets(s, t, window, 1)
<1>3. past \in Seq(Kept(t))
  <2> DEFINE A == {x \in Kept(t) : x.ts <= t}
  <2>1. \A i \in 1..Len(s) : s[i] \in Kept(t)
    BY <1>1
  <2>2. past = Sel(s, A)
    BY <2>1 DEF Where, Sel
  <2> HIDE DEF A
  <2>3. Sel(s, A) \in Seq(Kept(t))
    BY <1>1, SelFacts
  <2> QED BY <2>2, <2>3
<1> HIDE DEF past
<1>4. ASSUME NEW i \in DOMAIN buckets PROVE buckets[i].ctok <= buckets[i].tin
  <2> DEFINE A == {x \in Kept(t) : BucketIndex(start, 1, x) = i}
             b == Where(past, LAMBDA rec : BucketIndex(start, 1, rec) = i)
  <2>1. \A j \in 1..Len(past) : past[j] \in Kept(t)
    BY <1>3
  <2>2. b = Sel(past, A)
    BY <2>1 DEF Where, Sel
  <2>3. b \in Seq(Kept(t))
    <3> HIDE DEF A
    <3>1. Sel(past, A) \in Seq(Kept(t))
      BY <1>3, SelFacts
    <3> QED BY <2>2, <3>1
  <2>4. buckets[i] = BucketOf(b)
    BY <1>4 DEF MemoryBuckets, past, start
  <2> HIDE DEF b, buckets
  <2>5. BucketOf(b).ctok <= BucketOf(b).tin
    BY <2>3, TokensBounded DEF BucketOf
  <2> QED BY <2>4, <2>5
<1> QED BY <1>2, <1>4 DEF s

-----------------------------------------------------------------------------
(* Least and largest. *)

\* The least element of a finite set.
LEMMA MinIs ==
  ASSUME NEW S, S \subseteq Nat, S # {}
  PROVE  Min(S) \in S /\ \A x \in S : Min(S) <= x
<1>1. \E x \in S : \A y \in S : x <= y
  BY FirstOf
<1> QED BY <1>1 DEF Min

\* and that of fewer of them is no smaller.
LEMMA MinShrinks ==
  ASSUME NEW A, NEW B, A \subseteq B, B \subseteq Nat, A # {}
  PROVE  Min(A) \in A /\ Min(B) <= Min(A)
<1>1. A \subseteq Nat /\ B # {}
  OBVIOUS
<1>2. Min(A) \in A
  BY <1>1, MinIs
<1>3. \A x \in B : Min(B) <= x
  BY <1>1, MinIs
<1> QED BY <1>2, <1>3

\* The largest element of a finite set.
LEMMA MaxIs ==
  ASSUME NEW S, NEW m \in S, \A x \in S : x <= m
  PROVE  Max(S) \in S /\ \A x \in S : Max(S) >= x
<1>1. \E x \in S : \A y \in S : x >= y
  BY DEF Max
<1> QED BY <1>1 DEF Max

\* A sequence has a largest number.
LEMMA LargestOf ==
  ASSUME NEW s \in Seq(Nat), s # <<>>
  PROVE  \E i \in 1..Len(s) : \A j \in 1..Len(s) : s[j] <= s[i]
<1> DEFINE N == Len(s)
           S == {n \in 0..N : n = 0 \/ \E i \in 1..n : \A j \in 1..n : s[j] <= s[i]}
<1>0. N \in Nat /\ N # 0 /\ \A i \in 1..N : s[i] \in Nat
  BY EmptySeq
<1>1. 0 \in S
  BY <1>0
<1>2. ASSUME NEW n \in 1..N, n - 1 \in S PROVE n \in S
  <2>0. n \in 0..N /\ n \in 1..n /\ \A j \in 1..n : j \in 1..N /\ (j \in 1..n - 1 \/ j = n)
    BY <1>0
  <2>1. CASE n = 1
    <3>1. \A j \in 1..n : s[j] <= s[n]
      BY <2>1, <1>0
    <3> QED BY <2>0, <3>1
  <2>2. CASE n # 1
    <3>1. PICK i \in 1..n - 1 : \A j \in 1..n - 1 : s[j] <= s[i]
      BY <1>2, <2>2
    <3>2. i \in 1..n /\ s[i] \in Nat /\ s[n] \in Nat
      BY <1>0
    <3>3. CASE s[n] <= s[i]
      <4>1. \A j \in 1..n : s[j] <= s[i]
        BY <2>0, <3>1, <3>3
      <4> QED BY <4>1, <3>2, <2>0
    <3>4. CASE ~(s[n] <= s[i])
      <4>1. ASSUME NEW j \in 1..n PROVE s[j] <= s[n]
        <5>1. s[j] \in Nat /\ (s[j] <= s[i] \/ j = n)
          BY <2>0, <3>1, <1>0
        <5> QED BY <5>1, <3>2, <3>4
      <4> QED BY <4>1, <2>0
    <3> QED BY <3>3, <3>4
  <2> QED BY <2>1, <2>2
<1>3. \A n \in 0..N : n \in S
  <2> HIDE DEF S
  <2> QED BY <1>0, <1>1, <1>2, Induct
<1>4. N \in S
  <2> HIDE DEF S
  <2> QED BY <1>0, <1>3
<1> QED BY <1>0, <1>4

\* Of the numbers in a sequence and 0, the largest.
LEMMA GreatestIs ==
  ASSUME NEW s \in Seq(Nat), NEW S, S = {0} \cup {s[i] : i \in 1..Len(s)}
  PROVE  Max(S) \in Nat /\ Max(S) \in S /\ \A i \in 1..Len(s) : s[i] <= Max(S)
<1>0. Len(s) \in Nat /\ \A i \in 1..Len(s) : s[i] \in Nat
  OBVIOUS
<1>1. PICK m \in S : \A x \in S : x <= m
  <2>1. CASE s = <<>>
    <3>1. 0 \in S /\ \A x \in S : x <= 0
      BY <2>1
    <3> QED BY <3>1
  <2>2. CASE s # <<>>
    <3>1. PICK i \in 1..Len(s) : \A j \in 1..Len(s) : s[j] <= s[i]
      BY <2>2, LargestOf
    <3>2. s[i] \in S /\ \A x \in S : x <= s[i]
      BY <1>0, <3>1
    <3> QED BY <3>2
  <2> QED BY <2>1, <2>2
<1>2. S \subseteq Nat
  BY <1>0
<1>3. Max(S) \in S /\ \A x \in S : Max(S) >= x
  BY <1>1, MaxIs
<1> QED BY <1>0, <1>2, <1>3

\* Of numbers in order, the percentiles are in order and below the largest.
LEMMA PercentilesInOrder ==
  ASSUME NEW s \in Seq(Nat), NEW S, S = {0} \cup {s[i] : i \in 1..Len(s)}
  PROVE  Percentile(s, 50) <= Percentile(s, 95) /\ Percentile(s, 95) <= Max(S)
<1>0. Len(s) \in Nat /\ \A i \in 1..Len(s) : s[i] \in Nat
  OBVIOUS
<1>1. Max(S) \in Nat /\ \A i \in 1..Len(s) : s[i] <= Max(S)
  BY GreatestIs
<1>2. CASE s = <<>>
  BY <1>1, <1>2 DEF Percentile
<1>3. CASE s # <<>>
  <2> DEFINE L == Len(s)
             AsSmall(v) == {i \in 1..L : s[i] <= v}
             V == {s[i] : i \in 1..L}
             rank(p) == (2 * p * (L - 1) + 100) \div 200
             Above(r) == {v \in V : r < Cardinality(AsSmall(v))}
  <2>0. L \in Nat \ {0}
    BY <1>0, <1>3, EmptySeq
  <2>1. rank(50) \in Nat /\ rank(95) \in Nat /\ rank(50) <= rank(95) /\ rank(95) < L
    BY <2>0
  <2>2. Percentile(s, 50) = Min(Above(rank(50))) /\ Percentile(s, 95) = Min(Above(rank(95)))
    BY <1>3 DEF Percentile
  <2>3. \A v \in V : Cardinality(AsSmall(v)) \in Nat
    <3> SUFFICES ASSUME NEW v \in V PROVE Cardinality(AsSmall(v)) \in Nat
      OBVIOUS
    <3>1. IsFiniteSet(1..L) /\ AsSmall(v) \subseteq 1..L
      BY <2>0, FS_Interval
    <3>2. IsFiniteSet(AsSmall(v))
      <4> HIDE DEF AsSmall
      <4> QED BY <3>1, FS_Subset
    <3> QED BY <3>2, FS_CardinalityType
  <2>4. PICK i \in 1..L : \A j \in 1..L : s[j] <= s[i]
    BY <1>3, LargestOf
  <2>5. s[i] \in V /\ Cardinality(AsSmall(s[i])) = L
    <3>1. AsSmall(s[i]) = 1..L
      BY <2>4
    <3>2. Cardinality(1..L) = L
      <4>1. 1 \in Int /\ L \in Int /\ ~(1 > L) /\ L - 1 + 1 = L
        BY <2>0
      <4> HIDE DEF L
      <4> QED BY <4>1, FS_Interval
    <3> QED BY <3>1, <3>2
  <2>6. V \subseteq Nat /\ \A v \in V : v <= Max(S)
    BY <1>0, <1>1
  <2> HIDE DEF AsSmall, V, rank
  <2>7. Above(rank(95)) \subseteq Above(rank(50)) /\ s[i] \in Above(rank(95)) /\ Above(rank(50)) \subseteq V
    BY <2>1, <2>3, <2>5
  <2> HIDE DEF Above
  <2>8. Min(Above(rank(95))) \in Above(rank(95)) /\ Min(Above(rank(50))) <= Min(Above(rank(95)))
    <3> DEFINE A == Above(rank(95))
               B == Above(rank(50))
    <3>1. A \subseteq B /\ A # {} /\ B \subseteq Nat
      BY <2>6, <2>7
    <3> HIDE DEF A, B
    <3>2. Min(A) \in A /\ Min(B) <= Min(A)
      BY <3>1, MinShrinks
    <3> QED BY ONLY <3>2, Zenon DEF A, B
  <2>9. Min(Above(rank(95))) <= Max(S)
    BY <2>6, <2>7, <2>8
  <2> QED BY ONLY <2>2, <2>8, <2>9, Zenon
<1> QED BY <1>2, <1>3

\* So are the percentiles of the records of a bucket.
LEMMA BucketPercentiles ==
  ASSUME NEW s \in Seq(RecordType)
  PROVE  LET b == BucketOf(s) IN b.latencies[1] <= b.latencies[2] /\ b.latencies[2] <= b.slowest
<1> DEFINE v == Values(s, LAMBDA rec : rec.dur)
           S == {0} \cup {v[i] : i \in 1..Len(v)}
<1>1. v \in Seq(Nat) /\ Len(v) = Len(s) /\ \A i \in 1..Len(s) : v[i] = s[i].dur
  <2>0. Len(s) \in Nat /\ \A i \in 1..Len(s) : s[i] \in RecordType
    OBVIOUS
  <2>1. Len(s) \in Nat /\ \A i \in 1..Len(s) : s[i].dur \in Nat
    BY <2>0 DEF RecordType
  <2> QED BY <2>1 DEF Values
<1>2. BucketOf(s).latencies = <<Percentile(v, 50), Percentile(v, 95)>>
  BY DEF BucketOf, Percentiles
<1>3. BucketOf(s).slowest = Greatest(s, LAMBDA rec : rec.dur)
  BY DEF BucketOf
<1> HIDE DEF v
<1>4. Greatest(s, LAMBDA rec : rec.dur) = Max(S)
  <2>1. S = {0} \cup {s[i].dur : i \in 1..Len(s)}
    BY <1>1
  <2> QED BY <2>1 DEF Greatest
<1>5. Percentile(v, 50) <= Percentile(v, 95) /\ Percentile(v, 95) <= Max(S)
  BY <1>1, PercentilesInOrder
<1> QED BY <1>2, <1>3, <1>4, <1>5

-----------------------------------------------------------------------------
(* Buckets. *)

\* Division with remainder.
LEMMA DivMod ==
  ASSUME NEW a \in Nat, NEW b \in Nat \ {0}
  PROVE  a \div b \in Nat /\ a % b \in Nat /\ a % b < b /\ a = b * (a \div b) + (a % b)
OBVIOUS

\* A smaller factor gives a product that is smaller by the other factor.
LEMMA MulMono ==
  ASSUME NEW n \in Nat, NEW a \in Nat, NEW b \in Nat, a <= b
  PROVE  n * a <= n * b
<1>1. PICK c \in Nat : b = a + c
  <2>1. b - a \in Nat /\ b = a + (b - a)
    OBVIOUS
  <2> QED BY <2>1
<1>2. n * b = n * a + n * c /\ n * c \in Nat /\ n * a \in Nat
  BY <1>1
<1> QED BY <1>2

\* A number is below a multiple exactly if its quotient is below the factor.
LEMMA QuotientBelow ==
  ASSUME NEW d \in Nat, NEW b \in Nat \ {0}, NEW k \in Nat
  PROVE  d \div b < k <=> d < b * k
<1> DEFINE q == d \div b
           r == d % b
<1>1. q \in Nat /\ r \in Nat /\ r < b /\ d = b * q + r
  BY DivMod
<1> HIDE DEF q, r
<1>2. b * q \in Nat /\ b * k \in Nat /\ b * (q + 1) = b * q + b /\ q + 1 \in Nat
  BY <1>1
<1>3. ASSUME q < k PROVE d < b * k
  <2>1. q + 1 <= k
    BY <1>1, <1>3
  <2>2. b * (q + 1) <= b * k
    BY <2>1, <1>2, MulMono
  <2> QED BY <2>2, <1>1, <1>2
<1>4. ASSUME ~(q < k) PROVE ~(d < b * k)
  <2>1. k <= q
    BY <1>1, <1>4
  <2>2. b * k <= b * q
    BY <2>1, <1>1, MulMono
  <2> QED BY <2>2, <1>1, <1>2
<1> QED BY <1>3, <1>4 DEF q

\* A window that a bucket divides has the quotient many buckets.
LEMMA BucketCountIs ==
  ASSUME NEW window \in Nat \ {0}, NEW b \in Nat \ {0}, window % b = 0
  PROVE  /\ BucketCount(window, b) \in Nat \ {0} /\ BucketCount(window, b) <= window
         /\ b * BucketCount(window, b) = window
<1> DEFINE k == window \div b
<1>1. k \in Nat /\ window = b * k
  BY DivMod
<1> HIDE DEF k
<1>2. k # 0
  BY <1>1
<1>3. \E x \in {k, 1} : \A y \in {k, 1} : x >= y
  BY <1>1, <1>2
<1>4. Max({k, 1}) \in {k, 1} /\ \A y \in {k, 1} : Max({k, 1}) >= y
  BY <1>3 DEF Max
<1>5. Max({k, 1}) = k
  <2>1. Max({k, 1}) \in Nat /\ Max({k, 1}) >= k /\ (Max({k, 1}) = k \/ Max({k, 1}) = 1) /\ k >= 1
    BY <1>1, <1>2, <1>4
  <2> QED BY ONLY <1>1, <2>1
<1>6. BucketCount(window, b) = k
  BY <1>5 DEF BucketCount, k
<1>7. k <= window
  <2>1. k * 1 <= k * b
    BY <1>1, MulMono
  <2>2. k * 1 = k /\ k * b = b * k
    BY <1>1
  <2> QED BY <2>1, <2>2, <1>1
<1> QED BY <1>1, <1>2, <1>6, <1>7

-----------------------------------------------------------------------------
(* What a record counts for in a field. *)

\* The fields that are added up, and what a record is worth to each.
Fields == {"count", "errors", "cached", "tin", "latency"}
Worth(rec, field) ==
  CASE field = "count" -> 1
    [] field = "errors" -> IF rec.status >= 400 THEN 1 ELSE 0
    [] field = "cached" -> IF rec.cached THEN 1 ELSE 0
    [] field = "tin" -> rec.tin
    [] field = "latency" -> rec.dur
Worths(T, field) == [x \in T |-> Worth(x, field)]

\* What a record is worth is a count.
LEMMA WorthsType ==
  ASSUME NEW T, T \subseteq RecordType, NEW field \in Fields
  PROVE  Worths(T, field) \in Counts(T) /\ \A x \in T : Worths(T, field)[x] = Worth(x, field)
<1>1. \A x \in T : Worth(x, field) \in Nat
  BY DEF Worth, Fields, RecordType
<1> QED BY <1>1 DEF Worths, Counts

\* A field of a summary is what its records are worth to the field.
LEMMA SummaryField ==
  ASSUME NEW T, T \subseteq RecordType, NEW s \in Seq(T), NEW field \in Fields
  PROVE  SqlSummary(s)[field] = Add(s, Worths(T, field))
<1>0. \A i \in 1..Len(s) : s[i] \in T
  OBVIOUS
<1>1. CASE field = "count"
  <2>1. Worths(T, field) = [x \in T |-> 1]
    BY <1>1 DEF Worths, Worth
  <2>2. SqlSummary(s)[field] = Len(s)
    BY <1>1 DEF SqlSummary
  <2> QED BY <2>1, <2>2, LenIsAdd
<1>2. CASE field = "errors"
  BY <1>0, <1>2 DEF SqlSummary, Total, Values, Add, Adds, Worths, Worth
<1>3. CASE field = "cached"
  BY <1>0, <1>3 DEF SqlSummary, Total, Values, Add, Adds, Worths, Worth
<1>4. CASE field = "tin"
  BY <1>0, <1>4 DEF SqlSummary, Total, Values, Add, Adds, Worths, Worth
<1>5. CASE field = "latency"
  BY <1>0, <1>5 DEF SqlSummary, Total, Values, Add, Adds, Worths, Worth
<1> QED BY <1>1, <1>2, <1>3, <1>4, <1>5 DEF Fields

\* So is that of a group,
LEMMA GroupField ==
  ASSUME NEW T, T \subseteq RecordType, NEW s \in Seq(T), NEW field \in Fields
  PROVE  SqlBucket(s)[field] = Add(s, Worths(T, field))
<1>1. CASE field = "count"
  BY <1>1, SummaryField DEF SqlBucket, SqlSummary
<1>2. CASE field = "errors"
  BY <1>2, SummaryField DEF SqlBucket, SqlSummary
<1>3. CASE field = "cached"
  BY <1>3, SummaryField DEF SqlBucket, SqlSummary
<1>4. CASE field = "tin"
  BY <1>4, SummaryField DEF SqlBucket, SqlSummary
<1>5. CASE field = "latency"
  BY <1>5, SummaryField DEF SqlBucket, SqlSummary
<1> QED BY <1>1, <1>2, <1>3, <1>4, <1>5 DEF Fields

\* and that of a bucket.
LEMMA BucketField ==
  ASSUME NEW t \in Nat, NEW s \in Seq(Kept(t)), NEW field \in Fields
  PROVE  BucketOf(s)[field] = Add(s, Worths(Kept(t), field))
<1> DEFINE T == Kept(t)
<1>0. s \in Seq(T) /\ \A i \in 1..Len(s) : s[i] \in T
  OBVIOUS
<1>6. \A x \in T : x.cached <=> x.cached \/ x.ctok > 0 \/ x.crea > 0
  BY DEF Kept
<1> HIDE DEF T
<1>1. CASE field = "count"
  <2>1. Worths(T, field) = [x \in T |-> 1]
    BY <1>1 DEF Worths, Worth
  <2>2. BucketOf(s)[field] = Len(s)
    BY <1>1 DEF BucketOf
  <2> QED BY <2>1, <2>2, <1>0, LenIsAdd DEF T
<1>2. CASE field = "errors"
  <2> DEFINE A == {x \in T : x.status >= 400}
  <2>1. BucketOf(s)[field] = Count(s, LAMBDA rec : rec.status >= 400)
    BY <1>2 DEF BucketOf
  <2>2. Count(s, LAMBDA rec : rec.status >= 400) = Len(Sel(s, A))
    BY <1>0 DEF Count, Where, Sel
  <2>3. Masked(Ones(T), A) = Worths(T, field)
    BY <1>2 DEF Masked, Ones, Worths, Worth
  <2> HIDE DEF A
  <2> QED BY <2>1, <2>2, <2>3, <1>0, SelCount DEF T
<1>3. CASE field = "cached"
  <2> DEFINE A == {x \in T : x.cached \/ x.ctok > 0 \/ x.crea > 0}
  <2>1. BucketOf(s)[field] = Count(s, LAMBDA rec : rec.cached \/ rec.ctok > 0 \/ rec.crea > 0)
    BY <1>3 DEF BucketOf
  <2>2. Count(s, LAMBDA rec : rec.cached \/ rec.ctok > 0 \/ rec.crea > 0) = Len(Sel(s, A))
    <3>1. {i \in 1..Len(s) : s[i].cached \/ s[i].ctok > 0 \/ s[i].crea > 0} = {i \in 1..Len(s) : s[i] \in A}
      BY <1>0
    <3> QED BY <3>1 DEF Count, Where, Sel
  <2>3. Masked(Ones(T), A) = Worths(T, field)
    BY <1>3, <1>6 DEF Masked, Ones, Worths, Worth
  <2> HIDE DEF A
  <2> QED BY <2>1, <2>2, <2>3, <1>0, SelCount DEF T
<1>4. CASE field = "tin"
  BY <1>0, <1>4 DEF BucketOf, Total, Values, Add, Adds, Worths, Worth, T
<1>5. CASE field = "latency"
  BY <1>0, <1>5 DEF BucketOf, Total, Values, Add, Adds, Worths, Worth, T
<1> QED BY <1>1, <1>2, <1>3, <1>4, <1>5 DEF Fields

-----------------------------------------------------------------------------
(* Buckets add up. *)

\* Elements that are worth nothing add up to 0.
LEMMA AddNone ==
  ASSUME NEW T, NEW s \in Seq(T), NEW v \in Counts(T), \A i \in 1..Len(s) : v[s[i]] = 0
  PROVE  Add(s, v) = 0
<1>1. Adds(s, v) \in Seq(Nat) /\ Len(Adds(s, v)) = Len(s) /\ \A i \in 1..Len(s) : Adds(s, v)[i] = 0
  BY AddsType
<1> QED BY <1>1, SumOfZeros DEF Add

\* Values that count in a set only are values.
LEMMA MaskedType ==
  ASSUME NEW T, NEW v \in Counts(T), NEW A
  PROVE  Masked(v, A) \in Counts(T) /\ \A x \in T : Masked(v, A)[x] = IF x \in A THEN v[x] ELSE 0
BY DEF Masked, Counts

\* A field added up over instants, as BucketsAddUp does.
OverTime(f, field) == SumOf([i \in 1..MaxTime + 1 |-> IF i - 1 \in DOMAIN f THEN f[i - 1][field] ELSE 0])

\* When what is in each bucket adds up to what its class of records does, the
\* buckets together add up to what the classes do.
HoldClasses(s, v, c, f, field) ==
  \A i \in 1..MaxTime + 1 :
    (IF i - 1 \in DOMAIN f THEN f[i - 1][field] ELSE 0) = Add(s, Masked(v, InClass(c, i)))

\* then the buckets add up to the records in any class.
LEMMA BucketsAdd ==
  ASSUME MaxTime \in Nat, NEW T, NEW s \in Seq(T), NEW v \in Counts(T), NEW c \in [T -> Int],
         NEW f, NEW field, HoldClasses(s, v, c, f, field)
  PROVE  OverTime(f, field) = Add(s, Masked(v, InClasses(c, MaxTime + 1)))
<1> DEFINE q == [i \in 1..MaxTime + 1 |-> IF i - 1 \in DOMAIN f THEN f[i - 1][field] ELSE 0]
<1>1. \A i \in 1..MaxTime + 1 : Add(s, Masked(v, InClass(c, i))) \in Nat
  BY MaskedType, AddsType
<1>2. q \in Seq(Nat) /\ Len(q) = MaxTime + 1
  <2>1. q = [i \in 1..MaxTime + 1 |-> Add(s, Masked(v, InClass(c, i)))]
    BY DEF HoldClasses
  <2> HIDE DEF q
  <2> QED BY <1>1, <2>1
<1>3. SumsOfClasses(s, v, c, q)
  BY <1>2 DEF SumsOfClasses, HoldClasses
<1> HIDE DEF q
<1>4. SumOf(q) = Add(s, Masked(v, InClasses(c, Len(q))))
  BY <1>2, <1>3, ClassesAddUp
<1> QED BY <1>2, <1>4 DEF OverTime, q

\* The buckets of SQL add up to the summary, whatever their width (db.rs 175-273).
LEMMA DbBucketsAddUp ==
  ASSUME MaxTime \in Nat, NEW t \in 0..MaxTime, NEW s \in Seq(Kept(t)), NEW bucket \in Nat \ {0},
         NEW field \in Fields
  PROVE  OverTime(DbBuckets(s, bucket), field) = SqlSummary(s)[field]
<1> DEFINE T == Kept(t)
           v == Worths(T, field)
           Group(rec) == (rec.ts \div bucket) * bucket
           c == [x \in T |-> Group(x) + 1]
           f == DbBuckets(s, bucket)
<1>0. T \subseteq RecordType /\ t \in Nat /\ \A x \in T : x.ts \in Nat /\ x.ts <= t
  BY DEF Kept, RecordType
<1> HIDE DEF T
<1>1. s \in Seq(T) /\ \A i \in 1..Len(s) : s[i] \in T
  BY DEF T
<1>2. v \in Counts(T)
  BY <1>0, WorthsType
<1>3. \A x \in T : Group(x) \in 0..MaxTime
  <2> SUFFICES ASSUME NEW x \in T PROVE Group(x) \in 0..MaxTime
    OBVIOUS
  <2> DEFINE a == x.ts
             k == a \div bucket
             r == a % bucket
  <2>1. a \in Nat /\ a <= t
    BY <1>0
  <2> HIDE DEF a
  <2>2. k \in Nat /\ r \in Nat /\ a = bucket * k + r
    BY <2>1, DivMod
  <2> HIDE DEF k, r
  <2>3. bucket * k \in Nat /\ bucket * k <= a /\ k * bucket = bucket * k
    BY <2>2
  <2>4. k * bucket \in 0..MaxTime
    BY <2>1, <2>3
  <2> QED BY <2>4 DEF k, a
<1>4. c \in [T -> Int] /\ (\A x \in T : c[x] = Group(x) + 1)
  BY <1>3
<1>5. DOMAIN f = {Group(s[i]) : i \in 1..Len(s)}
      /\ \A g \in DOMAIN f : f[g] = SqlBucket(Where(s, LAMBDA rec : Group(rec) = g))
  BY DEF DbBuckets
<1>6. \A i \in 1..MaxTime + 1, x \in T : x \in InClass(c, i) <=> Group(x) = i - 1
  <2> SUFFICES ASSUME NEW i \in 1..MaxTime + 1, NEW x \in T PROVE c[x] = i <=> Group(x) = i - 1
    BY <1>4 DEF InClass
  <2>1. i \in Int /\ Group(x) \in Int /\ c[x] = Group(x) + 1
    BY <1>3, <1>4
  <2> HIDE DEF Group, c
  <2> QED BY <2>1
<1> HIDE DEF c, f, v
<1>7. ASSUME NEW i \in 1..MaxTime + 1
      PROVE  (IF i - 1 \in DOMAIN f THEN f[i - 1][field] ELSE 0) = Add(s, Masked(v, InClass(c, i)))
  <2> DEFINE A == InClass(c, i)
  <2>0. \A x \in T : x \in A <=> Group(x) = i - 1
    BY <1>6
  <2> HIDE DEF A
  <2>1. CASE i - 1 \in DOMAIN f
    <3>1. Where(s, LAMBDA rec : Group(rec) = i - 1) = Sel(s, A)
      <4>1. {j \in 1..Len(s) : Group(s[j]) = i - 1} = {j \in 1..Len(s) : s[j] \in A}
        BY <2>0, <1>1
      <4> QED BY <4>1 DEF Where, Sel
    <3>2. f[i - 1] = SqlBucket(Sel(s, A))
      BY <2>1, <3>1, <1>5
    <3>3. Sel(s, A) \in Seq(T) /\ Add(Sel(s, A), v) = Add(s, Masked(v, A))
      <4>1. Sel(s, A) \in Seq(T) /\ \A w \in Counts(T) : Add(Sel(s, A), w) = Add(s, Masked(w, A))
        BY <1>1, SelFacts
      <4> QED BY <4>1, <1>2
    <3>4. SqlBucket(Sel(s, A))[field] = Add(Sel(s, A), v)
      BY <3>3, <1>0, GroupField DEF v
    <3> QED BY <2>1, <3>2, <3>3, <3>4 DEF A
  <2>2. CASE i - 1 \notin DOMAIN f
    <3>1. \A j \in 1..Len(s) : s[j] \notin A
      BY <2>0, <2>2, <1>1, <1>5
    <3>2. Masked(v, A) \in Counts(T) /\ \A j \in 1..Len(s) : Masked(v, A)[s[j]] = 0
      BY <3>1, <1>1, <1>2, MaskedType
    <3>3. Add(s, Masked(v, A)) = 0
      BY <3>2, <1>1, AddNone
    <3> QED BY <2>2, <3>3 DEF A
  <2> QED BY <2>1, <2>2
<1>8. OverTime(f, field) = Add(s, Masked(v, InClasses(c, MaxTime + 1)))
  <2>1. HoldClasses(s, v, c, f, field)
    BY <1>7 DEF HoldClasses
  <2>2. s \in Seq(T) /\ c \in [T -> Int]
    BY <1>1, <1>4
  <2> QED BY <2>1, <2>2, <1>2, BucketsAdd
<1>9. Alike(s, Masked(v, InClasses(c, MaxTime + 1)), v)
  <2>1. \A x \in T : x \in InClasses(c, MaxTime + 1)
    <3> SUFFICES ASSUME NEW x \in T PROVE c[x] \in 1..MaxTime + 1
      BY <1>4 DEF InClasses
    <3>1. Group(x) \in 0..MaxTime /\ c[x] = Group(x) + 1
      BY <1>3, <1>4
    <3> HIDE DEF Group
    <3> QED BY <3>1
  <2>2. \A x \in T : Masked(v, InClasses(c, MaxTime + 1))[x] = v[x]
    BY <2>1, <1>2, MaskedType
  <2> QED BY <2>2, <1>1 DEF Alike
<1>10. Add(s, Masked(v, InClasses(c, MaxTime + 1))) = Add(s, v)
  BY <1>1, <1>2, <1>9, MaskedType, AddSame
<1>11. SqlSummary(s)[field] = Add(s, v)
  BY <1>0, <1>1, SummaryField DEF v
<1> QED BY <1>8, <1>10, <1>11 DEF f

\* The records before an instant.
Before(s, end) == Where(s, LAMBDA rec : rec.ts < end)

\* The buckets of the ring, when their width divides the window, add up to the
\* records before the end of the window (stats.rs 87-207).
LEMMA RingBucketsAddUp ==
  ASSUME MaxTime \in Nat, NEW t \in 0..MaxTime, NEW window \in 1..MaxTime, NEW bucket \in Nat \ {0},
         window % bucket = 0, NEW field \in Fields,
         NEW s \in Seq(From(t, WindowStart(t, window)))
  PROVE  OverTime(MemoryBuckets(s, t, window, bucket), field)
           = SqlSummary(Before(s, WindowStart(t, window) + window))[field]
<1> DEFINE start == WindowStart(t, window)
           T == From(t, start)
           v == Worths(T, field)
           k == BucketCount(window, bucket)
           Index(rec) == (rec.ts - start) \div bucket
           c == [x \in T |-> IF Index(x) < k THEN Index(x) + 1 ELSE 0]
           past == Where(s, LAMBDA rec : rec.ts <= t)
           f == MemoryBuckets(s, t, window, bucket)
<1>0. start \in Nat /\ t \in Nat /\ window \in Nat \ {0}
  <2>1. t \in Nat /\ window \in Nat /\ window # 0
    OBVIOUS
  <2> QED BY <2>1, WindowStartIs
<1>1. k \in Nat \ {0} /\ k <= window /\ bucket * k = window
  BY <1>0, BucketCountIs
<1> HIDE DEF start, k
<1>2. \A x \in T : /\ x \in RecordType /\ x \in Kept(t)
                   /\ x.ts \in Nat /\ x.ts <= t /\ x.ts - start \in Nat
  <2> SUFFICES ASSUME NEW x \in T
               PROVE  /\ x \in RecordType /\ x \in Kept(t)
                      /\ x.ts \in Nat /\ x.ts <= t /\ x.ts - start \in Nat
    OBVIOUS
  <2>1. x \in Kept(t) /\ x.ts >= start
    BY DEF From
  <2>2. x \in RecordType /\ x.ts \in Nat /\ x.ts <= t
    BY <2>1, KeptParts
  <2> QED BY <2>1, <2>2, <1>0
<1>20. T \subseteq RecordType
  BY <1>2
<1>3. \A x \in T : Index(x) \in Nat /\ (Index(x) < k <=> x.ts < start + window)
  <2> SUFFICES ASSUME NEW x \in T PROVE Index(x) \in Nat /\ (Index(x) < k <=> x.ts < start + window)
    OBVIOUS
  <2> DEFINE d == x.ts - start
  <2>1. d \in Nat /\ x.ts \in Nat
    BY <1>2
  <2>2. d < window <=> x.ts < start + window
    BY <1>0, <2>1
  <2> HIDE DEF d
  <2>3. d \div bucket \in Nat
    BY <2>1, DivMod
  <2>4. d \div bucket < k <=> d < bucket * k
    BY <2>1, <1>1, QuotientBelow
  <2> QED BY <2>2, <2>3, <2>4, <1>1 DEF d
<1> HIDE DEF T
<1>4. s \in Seq(T)
  BY DEF T, start
<1>5. v \in Counts(T)
  BY <1>20, WorthsType
<1>6. past = Sel(s, T)
  <2>1. \A i \in 1..Len(s) : s[i] \in T
    BY <1>4
  <2>2. {i \in 1..Len(s) : s[i].ts <= t} = {i \in 1..Len(s) : s[i] \in T}
    BY <2>1, <1>2
  <2> QED BY <2>2 DEF Where, Sel
<1>7. past \in Seq(T) /\ \A w \in Counts(T) : Add(past, w) = Add(s, Masked(w, T))
  <2> HIDE DEF past
  <2> QED BY <1>4, <1>6, SelFacts
<1>8. c \in [T -> Int] /\ (\A x \in T : c[x] = IF Index(x) < k THEN Index(x) + 1 ELSE 0)
  BY <1>3
<1>9. DOMAIN f = 0..k - 1
      /\ \A i \in 0..k - 1 : f[i] = BucketOf(Where(past, LAMBDA rec : Index(rec) = i))
  BY DEF MemoryBuckets, BucketIndex, k, start
<1>10. \A x \in T : Index(x) \in Nat
  BY <1>3
<1>11. \A i \in 1..MaxTime + 1, x \in T :
         x \in InClass(c, i) <=> i - 1 \in 0..k - 1 /\ Index(x) = i - 1
  <2> SUFFICES ASSUME NEW i \in 1..MaxTime + 1, NEW x \in T
               PROVE  c[x] = i <=> i - 1 \in 0..k - 1 /\ Index(x) = i - 1
    BY <1>8 DEF InClass
  <2>1. i \in Nat \ {0} /\ Index(x) \in Nat /\ c[x] = IF Index(x) < k THEN Index(x) + 1 ELSE 0
    BY <1>3, <1>8
  <2> HIDE DEF Index, c
  <2> QED BY <2>1, <1>1
<1> HIDE DEF past, c, f, v
<1>12. ASSUME NEW i \in 1..MaxTime + 1
       PROVE  (IF i - 1 \in DOMAIN f THEN f[i - 1][field] ELSE 0) = Add(past, Masked(v, InClass(c, i)))
  <2> DEFINE A == InClass(c, i)
  <2>0. \A x \in T : x \in A <=> i - 1 \in 0..k - 1 /\ Index(x) = i - 1
    BY <1>11
  <2>3. \A j \in 1..Len(past) : past[j] \in T
    BY <1>7
  <2> HIDE DEF A
  <2>1. CASE i - 1 \in DOMAIN f
    <3>0. i - 1 \in 0..k - 1
      BY <2>1, <1>9
    <3>1. Where(past, LAMBDA rec : Index(rec) = i - 1) = Sel(past, A)
      <4>1. {j \in 1..Len(past) : Index(past[j]) = i - 1} = {j \in 1..Len(past) : past[j] \in A}
        BY <2>0, <2>3, <3>0
      <4> QED BY <4>1 DEF Where, Sel
    <3>2. f[i - 1] = BucketOf(Sel(past, A))
      BY <3>0, <3>1, <1>9
    <3>3. Sel(past, A) \in Seq(T) /\ Add(Sel(past, A), v) = Add(past, Masked(v, A))
      <4>1. Sel(past, A) \in Seq(T) /\ \A w \in Counts(T) : Add(Sel(past, A), w) = Add(past, Masked(w, A))
        BY <1>7, SelFacts
      <4> QED BY <4>1, <1>5
    <3> DEFINE b == Sel(past, A)
    <3>4. BucketOf(b)[field] = Add(b, v)
      <4>1. b \in Seq(T) /\ b \in Seq(Kept(t)) /\ Kept(t) \subseteq RecordType
        BY <3>3, <1>2, KeptParts
      <4> HIDE DEF b
      <4>2. BucketOf(b)[field] = Add(b, Worths(Kept(t), field))
        BY <4>1, <1>0, BucketField
      <4>3. Adds(b, Worths(Kept(t), field)) = Adds(b, v)
        <5>1. \A j \in 1..Len(b) : b[j] \in T /\ b[j] \in Kept(t)
          BY <4>1
        <5> QED BY <5>1 DEF Adds, v, Worths
      <4> QED BY <4>2, <4>3 DEF Add
    <3> QED BY <2>1, <3>2, <3>3, <3>4 DEF A
  <2>2. CASE i - 1 \notin DOMAIN f
    <3>1. \A j \in 1..Len(past) : past[j] \notin A
      BY <2>0, <2>2, <2>3, <1>9
    <3>2. Masked(v, A) \in Counts(T) /\ \A j \in 1..Len(past) : Masked(v, A)[past[j]] = 0
      BY <3>1, <2>3, <1>5, MaskedType
    <3>3. Add(past, Masked(v, A)) = 0
      BY <3>2, <1>7, AddNone
    <3> QED BY <2>2, <3>3 DEF A
  <2> QED BY <2>1, <2>2
<1>13. OverTime(f, field) = Add(past, Masked(v, InClasses(c, MaxTime + 1)))
  <2>1. HoldClasses(past, v, c, f, field)
    BY <1>12 DEF HoldClasses
  <2>2. past \in Seq(T) /\ c \in [T -> Int]
    BY <1>7, <1>8
  <2> QED BY <2>1, <2>2, <1>5, BucketsAdd
<1> DEFINE all == Masked(v, InClasses(c, MaxTime + 1))
           B == {x \in T : x.ts < start + window}
           before == Before(s, start + window)
<1>14. all \in Counts(T) /\ Masked(all, T) \in Counts(T) /\ Masked(v, B) \in Counts(T)
  BY <1>5, MaskedType
<1>15. Alike(s, Masked(all, T), Masked(v, B))
  <2>1. ASSUME NEW x \in T PROVE x \in InClasses(c, MaxTime + 1) <=> x.ts < start + window
    <3>1. c[x] = (IF Index(x) < k THEN Index(x) + 1 ELSE 0) /\ Index(x) \in Nat /\ k <= MaxTime
      BY <1>0, <1>1, <1>3, <1>8
    <3>2. c[x] \in 1..MaxTime + 1 <=> Index(x) < k
      <4> HIDE DEF Index
      <4> QED BY <3>1, <1>1
    <3>3. Index(x) < k <=> x.ts < start + window
      BY <1>3
    <3>4. x \in InClasses(c, MaxTime + 1) <=> c[x] \in 1..MaxTime + 1
      BY <1>8 DEF InClasses
    <3> HIDE DEF Index
    <3> QED BY <3>2, <3>3, <3>4
  <2>2. ASSUME NEW x \in T PROVE Masked(all, T)[x] = Masked(v, B)[x]
    <3>1. Masked(all, T)[x] = all[x]
      BY <1>14, MaskedType
    <3>2. all[x] = IF x \in InClasses(c, MaxTime + 1) THEN v[x] ELSE 0
      BY <1>5, MaskedType
    <3>3. Masked(v, B)[x] = IF x \in B THEN v[x] ELSE 0
      BY <1>5, MaskedType
    <3> HIDE DEF all
    <3>4. x \in B <=> x.ts < start + window
      OBVIOUS
    <3> HIDE DEF B
    <3> QED BY <3>1, <3>2, <3>3, <3>4, <2>1
  <2>3. \A i \in 1..Len(s) : s[i] \in T
    BY <1>4
  <2> HIDE DEF all, B
  <2> QED BY <2>2, <2>3 DEF Alike
<1>16. before = Sel(s, B)
  <2>1. \A i \in 1..Len(s) : s[i] \in T
    BY <1>4
  <2> QED BY <2>1 DEF Before, Where, Sel
<1> HIDE DEF all, B
<1>17. Add(past, all) = Add(s, Masked(v, B))
  <2>1. Add(past, all) = Add(s, Masked(all, T))
    BY <1>7, <1>14
  <2>2. Add(s, Masked(all, T)) = Add(s, Masked(v, B))
    BY <1>4, <1>14, <1>15, AddSame
  <2> QED BY <2>1, <2>2
<1>18. SqlSummary(before)[field] = Add(s, Masked(v, B))
  <2> DEFINE b == Sel(s, B)
  <2>1. b \in Seq(T) /\ Add(b, v) = Add(s, Masked(v, B))
    <3>1. b \in Seq(T) /\ \A w \in Counts(T) : Add(b, w) = Add(s, Masked(w, B))
      BY <1>4, SelFacts
    <3> QED BY <3>1, <1>5
  <2> HIDE DEF b
  <2>2. SqlSummary(b)[field] = Add(b, v)
    BY <2>1, <1>20, SummaryField DEF v
  <2>3. before = b
    BY <1>16 DEF b
  <2> HIDE DEF before
  <2> QED BY <2>1, <2>2, <2>3
<1> HIDE DEF before
<1>19. OverTime(f, field) = SqlSummary(before)[field]
  BY <1>13, <1>17, <1>18 DEF all
<1> QED BY <1>19 DEF f, before, start

\* What BucketsAddUp says of the records, of one window and one bucket.
LEMMA Buckets ==
  ASSUME MaxTime \in Nat, None \notin Nat, NEW t \in 0..MaxTime, NEW r \in Seq(Kept(t)),
         NEW window \in 1..MaxTime, NEW bucket \in 1..MaxTime, NEW m
  PROVE  LET s == InWindow(r, t, window, m)
             memory == MemoryBuckets(s, t, window, bucket)
             end == WindowStart(t, window) + window
             before == MemorySummary(Where(s, LAMBDA rec : rec.ts < end))
         IN /\ \A field \in Fields : OverTime(DbBuckets(s, bucket), field) = SqlSummary(s)[field]
            /\ window % bucket = 0 =>
                 \A field \in Fields : OverTime(memory, field) = before[field]
            /\ \A i \in DOMAIN memory :
                 LET b == memory[i]
                 IN b.latencies[1] <= b.latencies[2] /\ b.latencies[2] <= b.slowest
<1> DEFINE s == InWindow(r, t, window, m)
           memory == MemoryBuckets(s, t, window, bucket)
           end == WindowStart(t, window) + window
           before == Before(s, end)
<1>0. t \in Nat /\ window \in Nat \ {0} /\ bucket \in Nat \ {0} /\ Kept(t) \subseteq RecordType
  BY DEF Kept
<1>1. s \in Seq(Kept(t)) /\ s \in Seq(From(t, WindowStart(t, window)))
  BY <1>0, InWindowType
<1> HIDE DEF s, memory
<1>2. \A field \in Fields : OverTime(DbBuckets(s, bucket), field) = SqlSummary(s)[field]
  BY <1>0, <1>1, DbBucketsAddUp
<1>3. ASSUME window % bucket = 0, NEW field \in Fields
      PROVE  OverTime(memory, field) = SqlSummary(before)[field]
  BY <1>0, <1>1, <1>3, RingBucketsAddUp DEF memory
<1>4. MemorySummary(before) = SqlSummary(before)
  <2> DEFINE B == {x \in Kept(t) : x.ts < end}
  <2>1. \A i \in 1..Len(s) : s[i] \in Kept(t)
    BY <1>1
  <2>2. before = Sel(s, B)
    BY <2>1 DEF Before, Where, Sel
  <2>3. Sel(s, B) \in Seq(Kept(t))
    <3> HIDE DEF B
    <3>1. s \in Seq(Kept(t))
      BY <1>1
    <3> QED BY <3>1, SelFacts
  <2> HIDE DEF before
  <2> QED BY <2>2, <2>3, <1>0, SummariesAlike
<1>5. ASSUME NEW i \in DOMAIN memory
      PROVE  memory[i].latencies[1] <= memory[i].latencies[2] /\ memory[i].latencies[2] <= memory[i].slowest
  <2> DEFINE past == Where(s, LAMBDA rec : rec.ts <= t)
             A == {x \in Kept(t) : x.ts <= t}
             start == WindowStart(t, window)
             C == {x \in Kept(t) : BucketIndex(start, bucket, x) = i}
             b == Where(past, LAMBDA rec : BucketIndex(start, bucket, rec) = i)
  <2>1. \A j \in 1..Len(s) : s[j] \in Kept(t)
    BY <1>1
  <2>2. past = Sel(s, A)
    BY <2>1 DEF Where, Sel
  <2>3. past \in Seq(Kept(t))
    <3> HIDE DEF A, past
    <3>1. s \in Seq(Kept(t))
      BY <1>1
    <3> QED BY <3>1, <2>2, SelFacts
  <2> HIDE DEF past
  <2>4. \A j \in 1..Len(past) : past[j] \in Kept(t)
    BY <2>3
  <2>5. b = Sel(past, C)
    BY <2>4 DEF Where, Sel
  <2>6. b \in Seq(RecordType)
    <3> HIDE DEF b, C
    <3>1. Sel(past, C) \in Seq(Kept(t))
      BY <2>3, SelFacts
    <3> QED BY <2>5, <3>1, <1>0
  <2>7. memory[i] = BucketOf(b)
    BY <1>5 DEF memory, MemoryBuckets, past
  <2> HIDE DEF b
  <2> QED BY <2>6, <2>7, BucketPercentiles
<1> HIDE DEF before
<1> QED BY <1>2, <1>3, <1>4, <1>5 DEF s, memory, before, Before

-----------------------------------------------------------------------------
(* Buckets of the same instants. *)

\* What is picked from all places is the whole sequence.
LEMMA PickAll ==
  ASSUME NEW T, NEW s \in Seq(T), NEW places, \A i \in 1..Len(s) : i \in places
  PROVE  Pick(s, places) = s
<1> DEFINE P == Picks(s, places)
           N == Len(s)
           S == {n \in 0..N : Len(P[n]) = n /\ \A i \in 1..n : P[n][i] = s[i]}
<1>0. N \in Nat /\ \A i \in 1..N : s[i] \in T /\ i \in places
  OBVIOUS
<1>1. /\ P \in [0..N -> Seq(T)] /\ P[0] = <<>>
      /\ \A n \in 1..N : P[n] = IF n \in places THEN Append(P[n - 1], s[n]) ELSE P[n - 1]
  BY PicksDef
<1> HIDE DEF P, N
<1>2. 0 \in S
  BY <1>0, <1>1
<1>3. ASSUME NEW n \in 1..N, n - 1 \in S PROVE n \in S
  <2>1. n \in 0..N /\ n - 1 \in 0..N /\ P[n - 1] \in Seq(T) /\ s[n] \in T
    BY <1>0, <1>1
  <2>2. P[n] = Append(P[n - 1], s[n])
    BY <1>0, <1>1
  <2>3. Len(P[n - 1]) = n - 1 /\ \A i \in 1..n - 1 : P[n - 1][i] = s[i]
    BY <1>3
  <2>4. Len(P[n]) = n /\ (\A i \in 1..n - 1 : P[n][i] = s[i]) /\ P[n][n] = s[n]
    BY <2>1, <2>2, <2>3, AppendProperties
  <2>5. \A i \in 1..n : i \in 1..n - 1 \/ i = n
    BY <2>1
  <2> QED BY <2>1, <2>4, <2>5
<1>4. N \in S
  <2> HIDE DEF S
  <2>1. \A n \in 0..N : n \in S
    BY <1>0, <1>2, <1>3, Induct
  <2> QED BY <2>1, <1>0
<1>5. P[N] \in Seq(T) /\ Len(P[N]) = Len(s) /\ \A i \in 1..Len(s) : P[N][i] = s[i]
  BY <1>0, <1>1, <1>4 DEF N
<1>6. P[N] = s
  BY <1>5, SeqEqual
<1> QED BY <1>6 DEF Pick, P, N

\* A number that is a multiple more has a quotient that is the factor more.
LEMMA QuotientShifts ==
  ASSUME NEW b \in Nat \ {0}, NEW k \in Nat, NEW d \in Nat
  PROVE  (b * k + d) \div b = k + d \div b
<1> DEFINE q == d \div b
           n == b * k + d
           p == n \div b
<1>1. q \in Nat /\ d \div b < q + 1 /\ ~(d \div b < q) /\ b * k \in Nat
  BY DivMod
<1>2. d < b * (q + 1) /\ ~(d < b * q)
  <2> HIDE DEF q
  <2> QED BY <1>1, QuotientBelow
<1> HIDE DEF q
<1>3. b * (k + q) = b * k + b * q /\ b * (k + (q + 1)) = b * k + b * (q + 1)
      /\ b * q \in Nat /\ b * (q + 1) \in Nat /\ k + q \in Nat /\ k + (q + 1) \in Nat
  BY <1>1
<1>4. n \in Nat /\ n < b * (k + (q + 1)) /\ ~(n < b * (k + q))
  BY <1>1, <1>2, <1>3
<1> HIDE DEF n
<1>5. p \in Nat
  BY <1>4, DivMod
<1>6. p < k + (q + 1) /\ ~(p < k + q)
  BY <1>3, <1>4, QuotientBelow
<1>7. p = k + q
  BY <1>1, <1>5, <1>6
<1> QED BY <1>7 DEF p, n, q

\* Of two multiples of a number that are the same, so are the factors.
LEMMA Cancel ==
  ASSUME NEW b \in Nat \ {0}, NEW x \in Nat, NEW y \in Nat
  PROVE  x * b = y * b <=> x = y
<1>1. ASSUME NEW m \in Nat, NEW n \in Nat, m < n PROVE m * b # n * b
  <2>1. b * (m + 1) <= b * n
    BY <1>1, MulMono
  <2>2. b * (m + 1) = m * b + b /\ b * n = n * b /\ m * b \in Nat /\ n * b \in Nat
    OBVIOUS
  <2> QED BY <2>1, <2>2
<1>2. x < y \/ y < x \/ x = y
  OBVIOUS
<1> QED BY <1>1, <1>2

\* Of the same records, a bucket has the columns of a group (stats.rs 134-207,
\* db.rs 185-236).
LEMMA BucketColumns ==
  ASSUME None \notin Nat, NEW t \in Nat, NEW s \in Seq(Kept(t))
  PROVE  \A column \in DOMAIN SqlBucket(s) : BucketOf(s)[column] = SqlBucket(s)[column]
<1> DEFINE b == BucketOf(s)
           g == SqlBucket(s)
           m == MemorySummary(s)
           q == SqlSummary(s)
<1>0. Kept(t) \subseteq RecordType
  BY DEF Kept
<1>1. m = q
  BY <1>0, SummariesAlike
<1>2. b.count = g.count
  BY DEF BucketOf, SqlBucket
<1>3. b.errors = g.errors
  <2>1. b.errors = m.errors
    BY DEF BucketOf, MemorySummary
  <2>2. g.errors = q.errors
    BY DEF SqlBucket, SqlSummary
  <2> QED BY <1>1, <2>1, <2>2
<1>4. b.throttled = g.throttled
  <2>1. b.throttled = m.throttled
    BY DEF BucketOf, MemorySummary
  <2>2. g.throttled = q.throttled
    BY DEF SqlBucket, SqlSummary
  <2> QED BY <1>1, <2>1, <2>2
<1>5. b.cached = g.cached
  <2>1. "cached" \in Fields
    BY DEF Fields
  <2>2. b["cached"] = Add(s, Worths(Kept(t), "cached")) /\ g["cached"] = Add(s, Worths(Kept(t), "cached"))
    BY <1>0, <2>1, BucketField, GroupField
  <2> QED BY <2>2
<1>6. b.ttft = g.ttft
  <2>1. b.ttft = m.ttft
    BY DEF BucketOf, MemorySummary
  <2>2. g.ttft = q.ttft
    BY DEF SqlBucket, SqlSummary
  <2> QED BY <1>1, <2>1, <2>2
<1>7. b.latency = g.latency /\ b.slowest = g.slowest
  BY DEF BucketOf, SqlBucket
<1>8. b.tin = g.tin /\ b.tout = g.tout
  BY DEF BucketOf, SqlBucket
<1>9. b.ctok = g.ctok /\ b.crea = g.crea
  BY DEF BucketOf, SqlBucket
<1>10. DOMAIN g = {"count", "errors", "throttled", "latency", "slowest", "tin", "tout", "cached", "ctok",
                   "crea", "ttft"}
  BY DEF SqlBucket
<1> HIDE DEF b, g
<1>11. \A column \in DOMAIN g : b[column] = g[column]
  BY <1>2, <1>3, <1>4, <1>5, <1>6, <1>7, <1>8, <1>9, <1>10
<1> QED BY <1>11 DEF b, g

\* Of records without a first token, the wrong columns read as the right ones
\* (db.rs 244-270).
LEMMA ReadAlike ==
  ASSUME NEW t \in Nat, NEW s \in Seq(Kept(t)), \A i \in 1..Len(s) : s[i].ttft = None
  PROVE  AsRead(SqlBucket(s)) = SqlBucket(s)
<1> DEFINE zeros == [i \in 1..Len(s) |-> 0]
           b == SqlBucket(s)
<1>0. Len(s) \in Nat /\ \A i \in 1..Len(s) : s[i] \in Kept(t) /\ s[i].ttft = None
  OBVIOUS
<1>1. \A i \in 1..Len(s) : s[i].ctok = 0 /\ s[i].crea = 0
  BY <1>0 DEF Kept
<1>2. SumOf(zeros) = 0
  <2>1. zeros \in Seq(Nat) /\ Len(zeros) = Len(s) /\ \A i \in 1..Len(zeros) : zeros[i] = 0
    BY <1>0
  <2> HIDE DEF zeros
  <2> QED BY <2>1, SumOfZeros
<1>3. Total(s, LAMBDA rec : rec.ctok) = 0
  <2>1. [i \in 1..Len(s) |-> s[i].ctok] = zeros
    BY <1>1
  <2> QED BY <1>2, <2>1 DEF Total, Values
<1>4. Total(s, LAMBDA rec : rec.crea) = 0
  <2>1. [i \in 1..Len(s) |-> s[i].crea] = zeros
    BY <1>1
  <2> QED BY <1>2, <2>1 DEF Total, Values
<1>5. Total(s, LAMBDA rec : IF rec.ttft = None THEN 0 ELSE rec.ttft) = 0
  <2>1. [i \in 1..Len(s) |-> IF s[i].ttft = None THEN 0 ELSE s[i].ttft] = zeros
    BY <1>0
  <2> QED BY <1>2, <2>1 DEF Total, Values
<1> DEFINE n == Total(s, LAMBDA rec : IF rec.ttft = None THEN 0 ELSE 1)
<1>6. b.ctok = 0 /\ b.crea = 0 /\ b.ttft = <<0, n>>
  BY <1>3, <1>4, <1>5 DEF SqlBucket
<1>7. b = [x \in DOMAIN b |-> b[x]]
  BY DEF SqlBucket
<1> HIDE DEF b, n
<1>8. AsRead(b) = [b EXCEPT !.ctok = 0, !.crea = 0, !.ttft = <<0, n>>]
  BY <1>6 DEF AsRead
<1>9. [b EXCEPT !.ctok = 0, !.crea = 0, !.ttft = <<0, n>>] = b
  BY <1>6, <1>7
<1> QED BY <1>8, <1>9 DEF b

\* What BucketsAlike says of the records, of one window and one bucket.
LEMMA BucketsOfWindow ==
  ASSUME None \notin Nat, NEW t \in Nat, NEW window \in Nat, NEW bucket \in Nat \ {0},
         NEW s \in Seq(From(t, WindowStart(t, window))), WindowStart(t, window) % bucket = 0,
         NEW i \in DOMAIN MemoryBuckets(s, t, window, bucket),
         NEW b, b = (IF WindowStart(t, window) + i * bucket \in DOMAIN DbBuckets(s, bucket)
                     THEN DbBuckets(s, bucket)[WindowStart(t, window) + i * bucket] ELSE SqlBucket(<<>>)),
         NEW column \in DOMAIN b
  PROVE  LET memory == MemoryBuckets(s, t, window, bucket)
         IN /\ memory[i][column] = b[column]
            /\ ~ReadFails(s) => memory[i][column] = AsRead(b)[column]
<1> DEFINE start == WindowStart(t, window)
           T == From(t, start)
           g == start + i * bucket
           Group(rec) == (rec.ts \div bucket) * bucket
           G == {x \in T : Group(x) = g}
           q == Sel(s, G)
           past == Where(s, LAMBDA rec : rec.ts <= t)
           memory == MemoryBuckets(s, t, window, bucket)
<1>0. /\ start \in Nat /\ T \subseteq Kept(t) /\ T \subseteq RecordType
      /\ \A x \in T : x.ts \in Nat /\ start <= x.ts /\ x.ts <= t
  <2>1. start \in Nat
    BY WindowStartIs
  <2> QED BY <2>1, KeptParts DEF From
<1>1. Len(s) \in Nat /\ \A j \in 1..Len(s) : s[j] \in T
  OBVIOUS
<1> HIDE DEF T, start
<1>2. i \in Nat /\ memory[i] = BucketOf(Where(past, LAMBDA rec : BucketIndex(start, bucket, rec) = i))
  <2>1. i \in 0..(BucketCount(window, bucket) - 1)
    BY DEF MemoryBuckets
  <2>2. i \in Nat
    BY <2>1
  <2> QED BY <2>1, <2>2 DEF MemoryBuckets, past, start
<1>3. past = s
  <2>1. \A j \in 1..Len(s) : j \in {n \in 1..Len(s) : s[n].ts <= t}
    BY <1>0, <1>1
  <2> QED BY <2>1, PickAll DEF past, Where
<1> HIDE DEF past, memory
<1>4. ASSUME NEW x \in T PROVE BucketIndex(start, bucket, x) = i <=> Group(x) = g
  <2> DEFINE k == start \div bucket
             d == x.ts - start
             e == d \div bucket
  <2>1. k \in Nat /\ start = bucket * k
    <3>1. start % bucket = 0
      BY DEF start
    <3> QED BY <3>1, <1>0, DivMod
  <2>2. d \in Nat /\ x.ts = start + d
    BY <1>0
  <2> HIDE DEF k, d
  <2>3. e \in Nat /\ BucketIndex(start, bucket, x) = e
    BY <2>2, DivMod DEF BucketIndex, d
  <2>4. x.ts \div bucket = k + e
    <3>1. (bucket * k + d) \div bucket = k + d \div bucket
      BY <2>1, <2>2, QuotientShifts
    <3> QED BY ONLY <3>1, <2>1, <2>2
  <2> HIDE DEF e
  <2>5. Group(x) = (k + e) * bucket /\ g = (k + i) * bucket
    BY <1>2, <2>1, <2>3, <2>4
  <2>6. k + e \in Nat /\ k + i \in Nat /\ (k + e = k + i <=> e = i)
    BY <1>2, <2>1, <2>3
  <2> HIDE DEF g, Group
  <2>7. (k + e) * bucket = (k + i) * bucket <=> e = i
    BY <2>6, Cancel
  <2> QED BY <2>3, <2>5, <2>7
<1> HIDE DEF g
<1>5. memory[i] = BucketOf(q)
  <2>1. {j \in 1..Len(s) : BucketIndex(start, bucket, s[j]) = i} = {j \in 1..Len(s) : s[j] \in G}
    BY <1>1, <1>4
  <2>2. Where(s, LAMBDA rec : BucketIndex(start, bucket, rec) = i) = q
    BY <2>1 DEF Where, Sel
  <2> QED BY <1>2, <1>3, <2>2
<1>6. Where(s, LAMBDA rec : Group(rec) = g) = q
  <2>1. {j \in 1..Len(s) : Group(s[j]) = g} = {j \in 1..Len(s) : s[j] \in G}
    BY <1>1
  <2> QED BY <2>1 DEF Where, Sel
<1>7. q \in Seq(T) /\ q \in Seq(T \cap G)
  <2> HIDE DEF G
  <2> QED BY SelFacts, SelIn DEF T, start
<1>8. b = SqlBucket(q)
  <2>1. DOMAIN DbBuckets(s, bucket) = {Group(s[j]) : j \in 1..Len(s)}
        /\ \A h \in DOMAIN DbBuckets(s, bucket) :
             DbBuckets(s, bucket)[h] = SqlBucket(Where(s, LAMBDA rec : Group(rec) = h))
    BY DEF DbBuckets
  <2>2. CASE g \in DOMAIN DbBuckets(s, bucket)
    BY <1>6, <2>1, <2>2 DEF g, start
  <2>3. CASE g \notin DOMAIN DbBuckets(s, bucket)
    <3>1. b = SqlBucket(<<>>)
      BY <2>3 DEF g, start
    <3>2. {j \in 1..Len(s) : s[j] \in G} = {}
      BY <2>1, <2>3
    <3>3. s \in Seq(T \ G)
      BY <1>1, <3>2
    <3>4. q \in Seq((T \ G) \cap G)
      <4> HIDE DEF G
      <4> QED BY <3>3, SelIn
    <3>5. q = <<>>
      <4> HIDE DEF q
      <4>1. Len(q) = 0
        <5>1. Len(q) \in Nat /\ \A j \in 1..Len(q) : q[j] \in (T \ G) \cap G
          BY <3>4
        <5>2. ~(1 \in 1..Len(q))
          BY <5>1
        <5> QED BY <5>1, <5>2
      <4> QED BY <1>7, <4>1, EmptySeq
    <3> QED BY <3>1, <3>5
  <2> QED BY <2>2, <2>3
<1> HIDE DEF q, G
<1>9. q \in Seq(Kept(t))
  BY <1>0, <1>7
<1>10. memory[i][column] = b[column]
  BY <1>5, <1>8, <1>9, BucketColumns
<1>11. ASSUME ~ReadFails(s) PROVE AsRead(b) = b
  <2> DEFINE U == {x \in T : x.ttft = None}
  <2>1. s \in Seq(U)
    BY <1>1, <1>11 DEF ReadFails
  <2>2. q \in Seq(U)
    <3> HIDE DEF U
    <3> QED BY <2>1, SelFacts DEF q
  <2>3. \A j \in 1..Len(q) : q[j].ttft = None
    BY <2>2
  <2> QED BY <1>8, <1>9, <2>3, ReadAlike
<1> QED BY <1>10, <1>11 DEF memory

-----------------------------------------------------------------------------
(* The accumulator. *)

\* The bytes of a stream and the accumulators.
ByteSet == {Newline} \cup {[of |-> l, half |-> h] : l \in Lines, h \in {1, 2}}
Accs == [buf : Seq(ByteSet), usage : Usage]
Usages == {"tin", "tout", "cached", "creation"}

\* What is extracted from one payload has no more cached input than input.
LEMMA ExtractSound ==
  ASSUME UsageAssumption, ProvidersAssumption, NEW p \in Payloads
  PROVE  /\ Extract(p) \in Usage
         /\ Extract(p).cached + Extract(p).creation <= Extract(p).tin
<1>1. p \in Payload
  BY DEF UsageAssumption
<1>2. \A n \in Count0 : Field(n) \in Nat
  BY DEF Count0, Field
<1> DEFINE i == Field(p.input)
           o == Field(p.output)
           c == Field(p.cached)
           r == Field(p.creation)
<1>3. i \in Nat /\ o \in Nat /\ c \in Nat /\ r \in Nat
  BY <1>1, <1>2 DEF Payload
<1>4. p.kind = "openai" => c + r <= i
  BY DEF ProvidersAssumption
<1>5. FromOpenai(p) = [tin |-> i, tout |-> o, cached |-> c, creation |-> r]
  BY DEF FromOpenai
<1>6. FromAnthropic(p) = [tin |-> i + c + r, tout |-> o, cached |-> c, creation |-> r]
  BY DEF FromAnthropic
<1> HIDE DEF i, o, c, r
<1>7. FromAnthropic(p) \in Usage /\ FromAnthropic(p).cached + FromAnthropic(p).creation <= FromAnthropic(p).tin
  BY <1>3, <1>6 DEF Usage
<1>8. FromOpenai(p) \in Usage
      /\ (p.kind = "openai" => FromOpenai(p).cached + FromOpenai(p).creation <= FromOpenai(p).tin)
  BY <1>3, <1>4, <1>5 DEF Usage
<1>9. NoUsage \in Usage /\ NoUsage.cached + NoUsage.creation <= NoUsage.tin
  BY DEF NoUsage, Usage
<1>10. Extract(p) \in {FromAnthropic(p), FromOpenai(p), NoUsage}
       /\ (p.kind # "openai" => Extract(p) \in {FromAnthropic(p), NoUsage})
  BY DEF Extract
<1> QED BY <1>7, <1>8, <1>9, <1>10

\* Merging takes the larger count, field by field.
LEMMA MergeIs ==
  ASSUME NEW u \in Usage, NEW v \in Usage
  PROVE  /\ Merge(u, v) \in Usage
         /\ \A field \in Usages :
              /\ u[field] \in Nat /\ v[field] \in Nat
              /\ Merge(u, v)[field] = IF u[field] < v[field] THEN v[field] ELSE u[field]
BY DEF Merge, Larger, Usage, Usages

\* Only a whole line parses, and it parses as what it is.
LEMMA WholeLine ==
  ASSUME NEW line, NEW usage
  PROVE  ProcessLine(Halves(line), usage) = IF line \in Payloads THEN Merge(usage, Extract(line)) ELSE usage
<1>1. \A p : Halves(line) = Halves(p) => line = p
  <2> SUFFICES ASSUME NEW p, Halves(line) = Halves(p) PROVE line = p
    OBVIOUS
  <2>1. Halves(line)[1] = [of |-> line, half |-> 1] /\ Halves(p)[1] = [of |-> p, half |-> 1]
    BY DEF Halves
  <2>2. [of |-> line, half |-> 1].of = [of |-> p, half |-> 1].of
    BY <2>1
  <2> QED BY <2>2
<1>2. CASE line \in Payloads
  <2>1. (CHOOSE p \in Payloads : Halves(line) = Halves(p)) = line
    BY <1>1, <1>2
  <2> QED BY <1>2, <2>1 DEF ProcessLine
<1>3. CASE line \notin Payloads
  BY <1>1, <1>3 DEF ProcessLine
<1> QED BY <1>2, <1>3

\* A byte leaves an accumulator.
LEMMA ByteType ==
  ASSUME UsageAssumption, ProvidersAssumption, NEW a \in Accs, NEW b \in ByteSet
  PROVE  Byte(a, b) \in Accs
<1>1. a.buf \in Seq(ByteSet) /\ a.usage \in Usage /\ a = [buf |-> a.buf, usage |-> a.usage]
  BY DEF Accs
<1>2. ProcessLine(a.buf, a.usage) \in Usage
  <2>1. \A p \in Payloads : Merge(a.usage, Extract(p)) \in Usage
    BY <1>1, ExtractSound, MergeIs
  <2> QED BY <1>1, <2>1 DEF ProcessLine
<1>3. <<>> \in Seq(ByteSet) /\ Append(a.buf, b) \in Seq(ByteSet)
  BY <1>1, AppendProperties
<1>4. CASE b = Newline
  <2>1. Byte(a, b) = [buf |-> <<>>, usage |-> ProcessLine(a.buf, a.usage)]
    BY <1>4 DEF Byte
  <2> QED BY <1>2, <1>3, <2>1 DEF Accs
<1>5. CASE b # Newline
  <2>1. Byte(a, b) = [a EXCEPT !.buf = Append(@, b)]
    BY <1>5 DEF Byte
  <2>2. Byte(a, b) = [buf |-> Append(a.buf, b), usage |-> a.usage]
    BY <1>1, <2>1 DEF Accs
  <2> QED BY <1>1, <1>3, <2>2 DEF Accs
<1> QED BY <1>4, <1>5

\* What a chunk does, byte after byte.
LEMMA AfterDef ==
  ASSUME UsageAssumption, ProvidersAssumption, NEW a \in Accs, NEW chunk \in Seq(ByteSet)
  PROVE  /\ After(a, chunk)[0] = a
         /\ \A n \in 1..Len(chunk) : After(a, chunk)[n] = Byte(After(a, chunk)[n - 1], chunk[n])
<1> DEFINE N == Len(chunk)
           step == [p \in (1..N) \X Accs |-> Byte(p[2], chunk[p[1]])]
<1>0. N \in Nat /\ \A i \in 1..N : chunk[i] \in ByteSet
  OBVIOUS
<1>1. step \in [(1..N) \X Accs -> Accs]
  BY <1>0, ByteType
<1>2. \A n \in 1..N, x \in Accs : step[<<n, x>>] = Byte(x, chunk[n])
  OBVIOUS
<1> HIDE DEF step, N
<1>3. PICK f \in [0..N -> Accs] : f[0] = a /\ \A n \in 1..N : f[n] = step[<<n, f[n - 1]>>]
  <2>1. step \in Steps(N, Accs)
    BY <1>1 DEF Steps
  <2>2. \E f : Iterates(f, N, Accs, a, step)
    BY <2>1, <1>0, Recursion
  <2> QED BY <2>2 DEF Iterates
<1>4. ASSUME NEW n \in 1..N PROVE f[n] = Byte(f[n - 1], chunk[n])
  <2>1. f[n - 1] \in Accs
    BY <1>0
  <2> QED BY <2>1, <1>2, <1>3
<1>5. f = [n \in 0..N |-> IF n = 0 THEN a ELSE Byte(f[n - 1], chunk[n])]
  <2> DEFINE g == [n \in 0..N |-> IF n = 0 THEN a ELSE Byte(f[n - 1], chunk[n])]
  <2>1. ASSUME NEW n \in 0..N PROVE f[n] = g[n]
    <3>1. CASE n = 0
      BY <1>3, <3>1
    <3>2. CASE n # 0
      <4>1. n \in 1..N
        BY <1>0, <3>2
      <4> QED BY <4>1, <3>2, <1>4
    <3> QED BY <3>1, <3>2
  <2>2. DOMAIN f = 0..N /\ f = [n \in DOMAIN f |-> f[n]]
    OBVIOUS
  <2> QED BY <2>1, <2>2
<1>6. After(a, chunk) = [n \in 0..N |-> IF n = 0 THEN a ELSE Byte(After(a, chunk)[n - 1], chunk[n])]
  BY <1>5 DEF After, N
<1>7. 0 \in 0..N /\ \A n \in 1..N : n \in 0..N /\ n # 0
  BY <1>0
<1>8. After(a, chunk)[0] = a
  BY <1>6, <1>7
<1>9. ASSUME NEW n \in 1..N PROVE After(a, chunk)[n] = Byte(After(a, chunk)[n - 1], chunk[n])
  <2>1. n \in 0..N /\ n # 0
    BY <1>7
  <2> QED BY <2>1, <1>6
<1> QED BY <1>8, <1>9 DEF N

-----------------------------------------------------------------------------
(* Where an accumulator is after so many bytes of a stream. *)

\* Field by field, the largest count in the first lines, or 0.
Sample(lines, i) == lines[i] \in Payloads
Tops(usage, lines, k) ==
  /\ usage \in Usage
  /\ \A field \in Usages :
       /\ usage[field] = 0 \/ \E i \in 1..k : Sample(lines, i) /\ usage[field] = Extract(lines[i])[field]
       /\ \A i \in 1..k : Sample(lines, i) => Extract(lines[i])[field] <= usage[field]

\* k whole lines, and the first half of the next, or both.
Reached(a, lines, k, r) ==
  /\ a \in Accs
  /\ Tops(a.usage, lines, k)
  /\ a.buf = IF r = 0 THEN <<>>
             ELSE IF r = 1 THEN <<[of |-> lines[k + 1], half |-> 1]>> ELSE Halves(lines[k + 1])

\* One more whole line, and it is the largest of one more.
LEMMA NextTops ==
  ASSUME UsageAssumption, ProvidersAssumption, NEW lines \in Seq(Lines), NEW k \in Nat, k + 1 <= Len(lines),
         NEW usage, Tops(usage, lines, k)
  PROVE  Tops(ProcessLine(Halves(lines[k + 1]), usage), lines, k + 1)
<1> DEFINE line == lines[k + 1]
           u == ProcessLine(Halves(line), usage)
<1>0. usage \in Usage /\ k + 1 \in 1..k + 1 /\ \A i \in 1..k + 1 : i \in 1..k \/ i = k + 1
  BY DEF Tops
<1>1. u = IF line \in Payloads THEN Merge(usage, Extract(line)) ELSE usage
  BY WholeLine
<1>2. CASE line \notin Payloads
  <2>1. u = usage /\ ~Sample(lines, k + 1)
    BY <1>1, <1>2 DEF Sample
  <2>2. \A i \in 1..k : i \in 1..k + 1
    OBVIOUS
  <2> QED BY <1>0, <2>1, <2>2 DEF Tops
<1>3. CASE line \in Payloads
  <2> DEFINE e == Extract(line)
  <2>1. e \in Usage
    BY <1>3, ExtractSound
  <2>2. u = Merge(usage, e) /\ Sample(lines, k + 1)
    BY <1>1, <1>3 DEF Sample
  <2> HIDE DEF u
  <2>3. u \in Usage
    BY <1>0, <2>1, <2>2, MergeIs
  <2>4. ASSUME NEW field \in Usages
        PROVE  /\ u[field] = 0 \/ \E i \in 1..k + 1 : Sample(lines, i) /\ u[field] = Extract(lines[i])[field]
               /\ \A i \in 1..k + 1 : Sample(lines, i) => Extract(lines[i])[field] <= u[field]
    <3> DEFINE a == usage[field]
               b == e[field]
               m == u[field]
    <3>1. a \in Nat /\ b \in Nat /\ m = IF a < b THEN b ELSE a
      BY <1>0, <2>1, <2>2, MergeIs
    <3>2. /\ a = 0 \/ \E i \in 1..k : Sample(lines, i) /\ a = Extract(lines[i])[field]
          /\ \A i \in 1..k : Sample(lines, i) => Extract(lines[i])[field] <= a
      BY DEF Tops
    <3>3. \A i \in 1..k : Sample(lines, i) => Extract(lines[i])[field] \in Nat
      <4> SUFFICES ASSUME NEW i \in 1..k, Sample(lines, i) PROVE Extract(lines[i])[field] \in Nat
        OBVIOUS
      <4>1. Extract(lines[i]) \in Usage
        BY ExtractSound DEF Sample
      <4> QED BY <4>1, MergeIs
    <3>4. a <= m /\ b <= m /\ (m = a \/ m = b)
      BY <3>1
    <3>5. b = Extract(lines[k + 1])[field]
      OBVIOUS
    <3>8. m \in Nat
      BY <3>1
    <3> HIDE DEF a, b, m, e
    <3>6. m = 0 \/ \E i \in 1..k + 1 : Sample(lines, i) /\ m = Extract(lines[i])[field]
      <4>1. CASE m = a
        <5>1. \A i \in 1..k : i \in 1..k + 1
          OBVIOUS
        <5> QED BY <4>1, <5>1, <3>2
      <4>2. CASE m = b
        BY <4>2, <3>5, <2>2, <1>0
      <4> QED BY <4>1, <4>2, <3>4
    <3>7. ASSUME NEW i \in 1..k + 1, Sample(lines, i) PROVE Extract(lines[i])[field] <= m
      <4>1. CASE i = k + 1
        BY <4>1, <3>4, <3>5
      <4>2. CASE i \in 1..k
        <5> DEFINE x == Extract(lines[i])[field]
        <5>1. x \in Nat /\ x <= a
          BY <4>2, <3>7, <3>2, <3>3
        <5> HIDE DEF x
        <5>2. x <= m
          BY <5>1, <3>1, <3>4, <3>8
        <5> QED BY <5>2 DEF x
      <4> QED BY <4>1, <4>2, <1>0
    <3> QED BY <3>6, <3>7 DEF m
  <2> QED BY <2>3, <2>4 DEF Tops, u
<1> QED BY <1>2, <1>3

\* Where a byte of a stream is.
LEMMA Thirds ==
  ASSUME NEW j \in Nat
  PROVE  \E k \in Nat, r \in {0, 1, 2} :
           /\ j = 3 * k + r /\ j \div 3 = k /\ j % 3 = r
           /\ (j + 1) % 3 = (IF r = 2 THEN 0 ELSE r + 1)
           /\ (j + 1) \div 3 = (IF r = 2 THEN k + 1 ELSE k)
           /\ (j + 3) \div 3 = k + 1
<1> WITNESS j \div 3 \in Nat, j % 3 \in {0, 1, 2}
<1> QED OBVIOUS

\* The bytes of a stream, by their place.
LEMMA BytesAre ==
  ASSUME UsageAssumption, NEW lines \in Seq(Lines), NEW terminated \in BOOLEAN
  PROVE  /\ Bytes(lines, terminated) \in Seq(ByteSet)
         /\ Len(Bytes(lines, terminated)) = IF Len(lines) = 0 THEN 0
                                            ELSE 3 * Len(lines) - (IF terminated THEN 0 ELSE 1)
         /\ \A j \in Nat : j + 1 <= Len(Bytes(lines, terminated)) =>
              /\ j \div 3 + 1 \in 1..Len(lines)
              /\ Bytes(lines, terminated)[j + 1] =
                   IF j % 3 = 2 THEN Newline ELSE [of |-> lines[j \div 3 + 1], half |-> (j % 3) + 1]
<1> DEFINE b == Bytes(lines, terminated)
           L == Len(lines)
           N == IF L = 0 THEN 0 ELSE 3 * L - (IF terminated THEN 0 ELSE 1)
           at(i) == IF i % 3 = 0 THEN Newline ELSE Halves(lines[(i + 2) \div 3])[i % 3]
<1>0. L \in Nat /\ N \in Nat /\ N <= 3 * L
  OBVIOUS
<1>1. 1..(3 * L - (IF terminated THEN 0 ELSE 1)) = 1..N
  <2>1. CASE L = 0
    <3>1. N = 0 /\ 3 * L = 0
      BY <2>1
    <3>2. 1..0 = {} /\ 1..(0 - 1) = {} /\ 0 - 0 = 0
      OBVIOUS
    <3> HIDE DEF N, L
    <3>3. CASE terminated
      BY <3>1, <3>2, <3>3
    <3>4. CASE ~terminated
      BY <3>1, <3>2, <3>4
    <3> QED BY <3>3, <3>4
  <2>2. CASE L # 0
    BY <2>2
  <2> QED BY <2>1, <2>2
<1>2. b = [i \in 1..N |-> at(i)]
  BY <1>1 DEF Bytes
<1> HIDE DEF b, L, N
<1>3. ASSUME NEW j \in Nat, j + 1 <= N
      PROVE  /\ j + 1 \in 1..N /\ j \div 3 + 1 \in 1..L
             /\ at(j + 1) = IF j % 3 = 2 THEN Newline ELSE [of |-> lines[j \div 3 + 1], half |-> (j % 3) + 1]
  <2>1. PICK k \in Nat, r \in {0, 1, 2} :
          /\ j = 3 * k + r /\ j \div 3 = k /\ j % 3 = r
          /\ (j + 1) % 3 = (IF r = 2 THEN 0 ELSE r + 1)
          /\ (j + 3) \div 3 = k + 1
    BY Thirds
  <2>2. j + 1 \in 1..N /\ k + 1 \in 1..L
    BY <1>0, <1>3, <2>1
  <2>3. (j + 1) + 2 = j + 3
    OBVIOUS
  <2>4. at(j + 1) = IF r = 2 THEN Newline ELSE Halves(lines[k + 1])[r + 1]
    BY <2>1, <2>3
  <2> HIDE DEF at
  <2>5. r # 2 => Halves(lines[k + 1])[r + 1] = [of |-> lines[k + 1], half |-> r + 1]
    BY DEF Halves
  <2> QED BY <2>1, <2>2, <2>4, <2>5
<1>4. ASSUME NEW i \in 1..N PROVE at(i) \in ByteSet
  <2> DEFINE j == i - 1
  <2>1. j \in Nat /\ j + 1 <= N /\ j + 1 = i
    BY <1>0
  <2> HIDE DEF j
  <2>2. /\ j \div 3 + 1 \in 1..L
        /\ at(j + 1) = IF j % 3 = 2 THEN Newline ELSE [of |-> lines[j \div 3 + 1], half |-> (j % 3) + 1]
    BY <1>3, <2>1
  <2> HIDE DEF at
  <2>3. lines[j \div 3 + 1] \in Lines
    BY <2>2 DEF L
  <2>4. j % 3 # 2 => (j % 3) + 1 \in {1, 2}
    BY <2>1
  <2> QED BY <2>1, <2>2, <2>3, <2>4 DEF ByteSet
<1> HIDE DEF at
<1>5. b \in Seq(ByteSet) /\ Len(b) = N /\ \A i \in 1..N : b[i] = at(i)
  BY <1>0, <1>2, <1>4
<1>6. ASSUME NEW j \in Nat, j + 1 <= N
      PROVE  /\ j \div 3 + 1 \in 1..L
             /\ b[j + 1] = IF j % 3 = 2 THEN Newline ELSE [of |-> lines[j \div 3 + 1], half |-> (j % 3) + 1]
  BY <1>3, <1>5, <1>6
<1> QED BY <1>5, <1>6 DEF b, L, N

\* After so many bytes.
ReachedAt(a, lines, j) == Reached(a, lines, j \div 3, j % 3)

\* The next byte gets the accumulator one place further.
LEMMA NextByte ==
  ASSUME UsageAssumption, ProvidersAssumption, NEW lines \in Seq(Lines), NEW terminated \in BOOLEAN,
         NEW j \in Nat, j + 1 <= Len(Bytes(lines, terminated)), NEW a, ReachedAt(a, lines, j)
  PROVE  ReachedAt(Byte(a, Bytes(lines, terminated)[j + 1]), lines, j + 1)
<1> DEFINE byte == Bytes(lines, terminated)[j + 1]
           n == Byte(a, byte)
<1>1. PICK k \in Nat, r \in {0, 1, 2} :
        /\ j = 3 * k + r /\ j \div 3 = k /\ j % 3 = r
        /\ (j + 1) % 3 = (IF r = 2 THEN 0 ELSE r + 1)
        /\ (j + 1) \div 3 = (IF r = 2 THEN k + 1 ELSE k)
  BY Thirds
<1>2. /\ k + 1 \in 1..Len(lines)
      /\ byte = IF r = 2 THEN Newline ELSE [of |-> lines[k + 1], half |-> r + 1]
  <2>1. /\ j \div 3 + 1 \in 1..Len(lines)
        /\ byte = IF j % 3 = 2 THEN Newline ELSE [of |-> lines[j \div 3 + 1], half |-> (j % 3) + 1]
    BY BytesAre
  <2>2. j \div 3 = k /\ j % 3 = r
    BY <1>1
  <2> HIDE DEF byte
  <2> QED BY ONLY <2>1, <2>2
<1>3. byte \in ByteSet
  <2>1. lines[k + 1] \in Lines
    BY <1>2
  <2>2. r # 2 => r + 1 \in {1, 2}
    OBVIOUS
  <2> QED BY <1>2, <2>1, <2>2 DEF ByteSet
<1>4. a \in Accs /\ Reached(a, lines, k, r) /\ n \in Accs
  BY <1>1, <1>3, ByteType DEF ReachedAt, Reached
<1>5. CASE r = 2
  <2>1. n = [buf |-> <<>>, usage |-> ProcessLine(a.buf, a.usage)]
    BY <1>2, <1>5 DEF Byte
  <2>2. a.buf = Halves(lines[k + 1]) /\ Tops(a.usage, lines, k)
    BY <1>4, <1>5 DEF Reached
  <2>3. Tops(ProcessLine(Halves(lines[k + 1]), a.usage), lines, k + 1)
    BY <1>2, <2>2, NextTops
  <2>4. n.buf = <<>> /\ Tops(n.usage, lines, k + 1)
    BY <2>1, <2>2, <2>3
  <2>5. Reached(n, lines, k + 1, 0)
    BY <2>4, <1>4 DEF Reached
  <2> QED BY <1>1, <1>5, <2>5 DEF ReachedAt
<1>6. CASE r # 2
  <2>1. byte = [of |-> lines[k + 1], half |-> r + 1] /\ byte # Newline
    <3>1. lines[k + 1] \in Lines /\ r + 1 \in {1, 2}
      BY <1>2, <1>6
    <3> QED BY <1>2, <1>6, <3>1 DEF UsageAssumption
  <2>2. n = [a EXCEPT !.buf = Append(@, byte)]
    BY <2>1 DEF Byte
  <2>3. n.buf = Append(a.buf, byte) /\ n.usage = a.usage
    BY <2>2, <1>4 DEF Accs
  <2> HIDE DEF n, byte
  <2>4. n.buf = IF r + 1 = 1 THEN <<[of |-> lines[k + 1], half |-> 1]>> ELSE Halves(lines[k + 1])
    <3>1. CASE r = 0
      <4>1. a.buf = <<>> /\ r + 1 = 1
        BY <1>4, <3>1 DEF Reached
      <4> QED BY <4>1, <2>1, <2>3
    <3>2. CASE r = 1
      <4>1. a.buf = <<[of |-> lines[k + 1], half |-> 1]>> /\ r + 1 = 2
        BY <1>4, <3>2 DEF Reached
      <4> QED BY <4>1, <2>1, <2>3 DEF Halves
    <3> QED BY <1>6, <3>1, <3>2
  <2>5. Reached(n, lines, k, r + 1)
    BY <1>4, <1>6, <2>3, <2>4 DEF Reached
  <2> QED BY <1>1, <1>6, <2>5 DEF ReachedAt, n, byte
<1> QED BY <1>5, <1>6

\* A chunk of a stream, wherever it begins and ends.
LEMMA NextChunk ==
  ASSUME UsageAssumption, ProvidersAssumption, NEW lines \in Seq(Lines), NEW terminated \in BOOLEAN,
         NEW j \in Nat, NEW a, ReachedAt(a, lines, j), NEW chunk \in Seq(ByteSet),
         j + Len(chunk) <= Len(Bytes(lines, terminated)),
         \A i \in 1..Len(chunk) : chunk[i] = Bytes(lines, terminated)[j + i]
  PROVE  ReachedAt(Ingest(a, chunk), lines, j + Len(chunk))
<1> DEFINE f == After(a, chunk)
           S == {n \in 0..Len(chunk) : ReachedAt(f[n], lines, j + n)}
<1>0. a \in Accs /\ Len(chunk) \in Nat
  BY DEF ReachedAt, Reached
<1>1. f[0] = a /\ \A n \in 1..Len(chunk) : f[n] = Byte(f[n - 1], chunk[n])
  BY <1>0, AfterDef
<1> HIDE DEF f
<1>2. 0 \in S
  BY <1>0, <1>1
<1>3. ASSUME NEW n \in 1..Len(chunk), n - 1 \in S PROVE n \in S
  <2> DEFINE m == j + (n - 1)
             B == Bytes(lines, terminated)
  <2>1. ReachedAt(f[n - 1], lines, m) /\ n \in 0..Len(chunk)
    BY <1>3, <1>0
  <2>2. m \in Nat /\ m + 1 = j + n /\ m + 1 <= Len(B)
    <3>1. Len(B) \in Nat
      BY BytesAre
    <3> HIDE DEF B
    <3>2. j + Len(chunk) <= Len(B)
      BY DEF B
    <3> QED BY <3>1, <3>2, <1>0
  <2>3. f[n] = Byte(f[n - 1], B[m + 1])
    BY <1>1, <2>2
  <2> HIDE DEF m
  <2>4. ReachedAt(Byte(f[n - 1], B[m + 1]), lines, m + 1)
    BY <2>1, <2>2, NextByte
  <2> QED BY <2>1, <2>2, <2>3, <2>4
<1>4. \A n \in 0..Len(chunk) : n \in S
  <2> HIDE DEF S
  <2> QED BY <1>0, <1>2, <1>3, Induct
<1>5. ReachedAt(f[Len(chunk)], lines, j + Len(chunk))
  BY <1>0, <1>4
<1> QED BY <1>5 DEF Ingest, f

\* At the end of the stream, all its lines have been read.
LEMMA AtEnd ==
  ASSUME UsageAssumption, ProvidersAssumption, NEW lines \in Seq(Lines), NEW terminated \in BOOLEAN,
         NEW a, ReachedAt(a, lines, Len(Bytes(lines, terminated)))
  PROVE  Tops(Finish(a), lines, Len(lines))
<1> DEFINE N == Len(Bytes(lines, terminated))
           L == Len(lines)
<1>1. L \in Nat /\ N = IF L = 0 THEN 0 ELSE 3 * L - (IF terminated THEN 0 ELSE 1)
  BY BytesAre
<1> HIDE DEF N, L
<1>2. ReachedAt(a, lines, N)
  BY DEF N
<1>3. CASE L = 0 \/ terminated
  <2>1. N = 3 * L
    BY <1>1, <1>3
  <2>2. N \div 3 = L /\ N % 3 = 0
    BY <2>1, <1>1
  <2>3. Reached(a, lines, L, 0)
    BY <1>2, <2>2 DEF ReachedAt
  <2> QED BY <2>3 DEF Reached, Finish, L
<1>4. CASE ~(L = 0 \/ terminated)
  <2> DEFINE k == L - 1
  <2>1. k \in Nat /\ N = 3 * k + 2 /\ k + 1 = L
    BY <1>1, <1>4
  <2> HIDE DEF k
  <2>2. N \div 3 = k /\ N % 3 = 2
    BY <2>1
  <2>3. Reached(a, lines, k, 2)
    BY <1>2, <2>2 DEF ReachedAt
  <2>4. a.buf = Halves(lines[k + 1]) /\ a.buf # <<>> /\ Tops(a.usage, lines, k)
    BY <2>3 DEF Reached, Halves
  <2>5. Finish(a) = ProcessLine(Halves(lines[k + 1]), a.usage)
    BY <2>4 DEF Finish
  <2>6. k + 1 <= Len(lines)
    BY <2>1 DEF L
  <2>7. Tops(ProcessLine(Halves(lines[k + 1]), a.usage), lines, k + 1)
    BY <2>1, <2>4, <2>6, NextTops
  <2> QED BY <2>1, <2>5, <2>7 DEF L
<1> QED BY <1>3, <1>4

\* The largest counts of one answer keep cached tokens within the input.
LEMMA TopsSound ==
  ASSUME UsageAssumption, ProvidersAssumption, NEW lines \in Streams, NEW u, Tops(u, lines, Len(lines))
  PROVE  u \in Usage /\ u.cached + u.creation <= u.tin
<1>1. u \in Usage /\ u.cached \in Nat /\ u.creation \in Nat /\ u.tin \in Nat
  BY DEF Tops, Usage
<1>2. \A i \in 1..Len(lines) : Sample(lines, i) =>
        LET e == Extract(lines[i])
        IN /\ e.cached \in Nat /\ e.creation \in Nat /\ e.tin \in Nat
           /\ e.cached + e.creation <= e.tin
           /\ e.cached <= u.cached /\ e.creation <= u.creation /\ e.tin <= u.tin
  <2> SUFFICES ASSUME NEW i \in 1..Len(lines), Sample(lines, i)
               PROVE  LET e == Extract(lines[i])
                      IN /\ e.cached \in Nat /\ e.creation \in Nat /\ e.tin \in Nat
                         /\ e.cached + e.creation <= e.tin
                         /\ e.cached <= u.cached /\ e.creation <= u.creation /\ e.tin <= u.tin
    OBVIOUS
  <2>1. Extract(lines[i]) \in Usage /\ Extract(lines[i]).cached + Extract(lines[i]).creation <= Extract(lines[i]).tin
    BY ExtractSound DEF Sample
  <2>2. /\ Extract(lines[i])["cached"] <= u["cached"]
        /\ Extract(lines[i])["creation"] <= u["creation"]
        /\ Extract(lines[i])["tin"] <= u["tin"]
    BY DEF Tops, Usages
  <2> QED BY <2>1, <2>2 DEF Usage
<1>3. \A i, j \in 1..Len(lines) : Sample(lines, i) /\ Sample(lines, j) =>
        LET d == Extract(lines[i])
            e == Extract(lines[j])
        IN \/ d.cached <= e.cached /\ d.creation <= e.creation
           \/ e.cached <= d.cached /\ e.creation <= d.creation
  BY DEF ProvidersAssumption, Sample
<1>4. /\ u.cached = 0 \/ \E i \in 1..Len(lines) : Sample(lines, i) /\ u.cached = Extract(lines[i]).cached
      /\ u.creation = 0 \/ \E i \in 1..Len(lines) : Sample(lines, i) /\ u.creation = Extract(lines[i]).creation
  <2>1. \A field \in {"cached", "creation"} :
          u[field] = 0 \/ \E i \in 1..Len(lines) : Sample(lines, i) /\ u[field] = Extract(lines[i])[field]
    BY DEF Tops, Usages
  <2> QED BY <2>1
<1>5. CASE u.cached = 0 /\ u.creation = 0
  BY <1>1, <1>5
<1>6. CASE u.cached # 0 /\ u.creation = 0
  <2>1. PICK i \in 1..Len(lines) : Sample(lines, i) /\ u.cached = Extract(lines[i]).cached
    BY <1>4, <1>6
  <2> QED BY <1>1, <1>2, <1>6, <2>1
<1>7. CASE u.cached = 0 /\ u.creation # 0
  <2>1. PICK i \in 1..Len(lines) : Sample(lines, i) /\ u.creation = Extract(lines[i]).creation
    BY <1>4, <1>7
  <2> QED BY <1>1, <1>2, <1>7, <2>1
<1>8. CASE u.cached # 0 /\ u.creation # 0
  <2>1. PICK i \in 1..Len(lines) : Sample(lines, i) /\ u.cached = Extract(lines[i]).cached
    BY <1>4, <1>8
  <2>2. PICK j \in 1..Len(lines) : Sample(lines, j) /\ u.creation = Extract(lines[j]).creation
    BY <1>4, <1>8
  <2> DEFINE d == Extract(lines[i])
             e == Extract(lines[j])
  <2>3. /\ d.cached \in Nat /\ d.creation \in Nat /\ d.tin \in Nat
        /\ d.cached + d.creation <= d.tin /\ d.creation <= u.creation /\ d.tin <= u.tin
    BY <1>2, <2>1
  <2>4. /\ e.cached \in Nat /\ e.creation \in Nat /\ e.tin \in Nat
        /\ e.cached + e.creation <= e.tin /\ e.cached <= u.cached /\ e.tin <= u.tin
    BY <1>2, <2>2
  <2>5. \/ d.cached <= e.cached /\ d.creation <= e.creation
        \/ e.cached <= d.cached /\ e.creation <= d.creation
    BY <1>3, <2>1, <2>2
  <2>6. u.cached = d.cached /\ u.creation = e.creation
    BY <2>1, <2>2
  <2> HIDE DEF d, e
  <2>7. d.cached <= e.cached \/ e.creation <= d.creation
    BY <2>5
  <2>8. d.cached + e.creation <= u.tin
    <3> DEFINE a == d.cached
               b == d.creation
               c == e.cached
               g == e.creation
               m == d.tin
               n == e.tin
               t == u.tin
    <3>1. /\ a \in Nat /\ b \in Nat /\ c \in Nat /\ g \in Nat /\ m \in Nat /\ n \in Nat /\ t \in Nat
          /\ a + b <= m /\ m <= t /\ c + g <= n /\ n <= t
      BY <1>1, <2>3, <2>4
    <3>2. a <= c \/ g <= b
      BY <2>7
    <3> HIDE DEF a, b, c, g, m, n, t
    <3>3. a + g <= t
      BY ONLY <3>1, <3>2
    <3> QED BY ONLY <3>3, Zenon DEF a, g, t
  <2>9. u.cached + u.creation <= u.tin
    BY ONLY <2>6, <2>8, Zenon
  <2> QED BY <1>1, <2>9
<1> QED BY <1>1, <1>5, <1>6, <1>7, <1>8

-----------------------------------------------------------------------------
(* The inductive invariant. *)

\* The bytes still to come are those of the stream from some place on, and
\* the accumulator is at that place.
StreamAt(s, a, terminated, j) ==
  /\ j + Len(s.left) = Len(Bytes(s.lines, terminated))
  /\ s.left \in Seq(ByteSet)
  /\ \A i \in 1..Len(s.left) : s.left[i] = Bytes(s.lines, terminated)[j + i]
  /\ ReachedAt(a, s.lines, j)

\* The accumulator has read exactly the bytes that are no longer to come,
\* wherever the chunks ended.
StreamInv ==
  \/ stream = NoStream
  \/ /\ stream.lines \in Streams /\ stream.ts \in 0..now
     /\ stream = [lines |-> stream.lines, ts |-> stream.ts, left |-> stream.left]
     /\ \E terminated \in BOOLEAN, j \in Nat : StreamAt(stream, acc, terminated, j)

\* A request goes out as it was normalised.
RequestInv ==
  \/ request = NoRequest
  \/ \E t \in Tools : request = [tools |-> t, sent |-> NormalizeTools(t)]

\* The inductive invariant.
IInv ==
  /\ now \in 0..MaxTime
  /\ records \in Seq(Kept(now))
  /\ StreamInv
  /\ RequestInv

\* What was kept stays kept as time goes on.
LEMMA LaterKept ==
  ASSUME NEW t, NEW u, t \in Nat, u \in Nat, t <= u, NEW r \in Seq(Kept(t))
  PROVE  r \in Seq(Kept(u))
<1>1. Kept(t) \subseteq Kept(u)
  <2> SUFFICES ASSUME NEW x \in Kept(t) PROVE x \in Kept(u)
    OBVIOUS
  <2>1. x.ts <= u
    <3>1. x.ts \in Nat /\ x.ts <= t
      BY KeptParts
    <3> QED BY <3>1
  <2> QED BY <2>1 DEF Kept
<1> QED BY <1>1

\* What is recorded of an answer whose counts are sound.
LEMMA RecordKept ==
  ASSUME NEW t \in Nat, NEW ts \in 0..t, NEW status \in Nat,
         NEW u \in Usage, u.cached + u.creation <= u.tin,
         NEW c, c.model \in STRING, c.key \in STRING, c.dur \in Nat,
         NEW ttft \in Nat \cup {None}, ttft = None => u.cached = 0 /\ u.creation = 0
  PROVE  Record(status, u, ts, c, ttft) \in Kept(t)
<1> DEFINE r == Record(status, u, ts, c, ttft)
<1>0. /\ u.tin \in Nat /\ u.tout \in Nat /\ u.cached \in Nat /\ u.creation \in Nat /\ ts \in Nat /\ ts <= t
      /\ c.model \in STRING /\ c.key \in STRING /\ c.dur \in Nat
  BY DEF Usage
<1>1. r = [ts |-> ts, status |-> status, model |-> c.model, key |-> c.key, dur |-> c.dur, ttft |-> ttft,
           tin |-> u.tin, tout |-> u.tout, ctok |-> u.cached, crea |-> u.creation,
           cached |-> u.cached > 0 \/ u.creation > 0]
  BY DEF Record
<1> HIDE DEF r
<1>2. r \in RecordType
  <2>1. (u.cached > 0 \/ u.creation > 0) \in BOOLEAN
    OBVIOUS
  <2> QED BY <1>0, <1>1, <2>1 DEF RecordType
<1>3. r.ctok = u.cached /\ r.crea = u.creation /\ r.tin = u.tin /\ r.ts = ts /\ r.ttft = ttft
      /\ r.cached = (u.cached > 0 \/ u.creation > 0)
  BY <1>1
<1> QED BY <1>0, <1>2, <1>3 DEF Kept, r

\* The invariant holds at first,
LEMMA InitInv == TransformsAssumption /\ Init => IInv
<1> SUFFICES ASSUME TransformsAssumption, Init PROVE IInv
  OBVIOUS
<1>1. now \in 0..MaxTime /\ records \in Seq(Kept(now)) /\ stream = NoStream /\ request = NoRequest
  BY DEF Init, TransformsAssumption
<1> QED BY <1>1 DEF IInv, StreamInv, RequestInv

\* and every step keeps it.
LEMMA NextInv ==
  ASSUME UsageAssumption, TransformsAssumption, ProvidersAssumption
  PROVE  IInv /\ [Next]_vars => IInv'
<1> SUFFICES ASSUME IInv, [Next]_vars PROVE IInv'
  OBVIOUS
<1>0. /\ now \in 0..MaxTime /\ now \in Nat /\ MaxTime \in Nat
      /\ records \in Seq(Kept(now)) /\ StreamInv /\ RequestInv
      /\ Streams \subseteq Seq(Lines) /\ Bodies \subseteq Seq(Payloads)
      /\ Contexts \subseteq [model : STRING, key : STRING, dur : Nat, ttft : Nat]
  BY DEF IInv, TransformsAssumption
<1>1. CASE Normalise
  <2>1. RequestInv' /\ UNCHANGED <<stream, acc, records, now>>
    BY <1>1 DEF Normalise, RequestInv
  <2>2. StreamInv'
    BY <1>0, <2>1 DEF StreamInv
  <2> QED BY <1>0, <2>1, <2>2 DEF IInv
<1>2. CASE Open
  <2>1. PICK lines \in Streams, terminated \in BOOLEAN :
          stream' = [lines |-> lines, ts |-> now, left |-> Bytes(lines, terminated)]
    BY <1>2 DEF Open
  <2>2. acc' = Empty /\ UNCHANGED <<request, records, now>>
    BY <1>2 DEF Open
  <2> DEFINE b == Bytes(lines, terminated)
  <2>3. b \in Seq(ByteSet) /\ Len(b) \in Nat
    <3>1. lines \in Seq(Lines)
      BY <1>0
    <3> HIDE DEF b
    <3>2. b \in Seq(ByteSet)
      BY <3>1, BytesAre DEF b
    <3> QED BY <3>2
  <2>4. ReachedAt(Empty, lines, 0)
    <3>1. Empty \in Accs /\ Empty.buf = <<>> /\ Empty.usage = NoUsage
      BY DEF Empty, Accs, NoUsage, Usage
    <3>2. Tops(NoUsage, lines, 0)
      BY DEF Tops, NoUsage, Usage, Usages
    <3>3. 0 \div 3 = 0 /\ 0 % 3 = 0
      OBVIOUS
    <3> QED BY <3>1, <3>2, <3>3 DEF ReachedAt, Reached
  <2>5. StreamAt(stream, acc, terminated, 0)'
    <3> HIDE DEF b
    <3>1. stream'.left = b /\ stream'.lines = lines
      BY <2>1 DEF b
    <3>2. 0 + Len(b) = Len(b) /\ \A i \in 1..Len(b) : b[i] = b[0 + i]
      BY <2>3
    <3> QED BY <2>2, <2>3, <2>4, <3>1, <3>2 DEF StreamAt, b
  <2>6. stream'.lines \in Streams /\ stream'.ts \in 0..now
        /\ stream' = [lines |-> stream'.lines, ts |-> stream'.ts, left |-> stream'.left]
    BY <2>1, <1>0
  <2>7. StreamInv'
    <3>1. 0 \in Nat
      OBVIOUS
    <3> QED BY <2>2, <2>5, <2>6, <3>1 DEF StreamInv
  <2>8. RequestInv'
    BY <1>0, <2>2 DEF RequestInv
  <2> QED BY <1>0, <2>2, <2>7, <2>8 DEF IInv
<1>3. CASE Chunk
  <2>1. stream # NoStream /\ stream.left # <<>>
    BY <1>3 DEF Chunk, NoStream
  <2>2. PICK terminated \in BOOLEAN, j \in Nat : StreamAt(stream, acc, terminated, j)
    BY <1>0, <2>1 DEF StreamInv
  <2>3. PICK n \in 1..Len(stream.left) :
          /\ acc' = Ingest(acc, SubSeq(stream.left, 1, n))
          /\ stream' = [stream EXCEPT !.left = SubSeq(@, n + 1, Len(@))]
    BY <1>3 DEF Chunk
  <2>4. /\ stream.lines \in Streams /\ stream.ts \in 0..now
        /\ stream = [lines |-> stream.lines, ts |-> stream.ts, left |-> stream.left]
        /\ stream.lines \in Seq(Lines)
    BY <1>0, <2>1 DEF StreamInv
  <2> DEFINE lines == stream.lines
             left == stream.left
             b == Bytes(lines, terminated)
             chunk == SubSeq(left, 1, n)
             rest == SubSeq(left, n + 1, Len(left))
  <2>5. /\ j + Len(left) = Len(b) /\ left \in Seq(ByteSet) /\ Len(left) \in Nat /\ n \in 1..Len(left)
        /\ (\A i \in 1..Len(left) : left[i] = b[j + i]) /\ ReachedAt(acc, lines, j)
    <3>1. left \in Seq(ByteSet) => Len(left) \in Nat
      OBVIOUS
    <3> QED BY <2>2, <3>1 DEF StreamAt
  <2>6. stream' = [lines |-> lines, ts |-> stream.ts, left |-> rest]
    BY <2>3, <2>4
  <2>7. chunk \in Seq(ByteSet) /\ Len(chunk) = n /\ \A i \in 1..n : chunk[i] = left[i]
    <3> HIDE DEF left
    <3>1. \A i \in 1..n : left[i] \in ByteSet
      BY <2>5
    <3> QED BY <2>5, <3>1, SubSeqProperties
  <2>8. rest \in Seq(ByteSet) /\ Len(rest) = Len(left) - n /\ \A i \in 1..Len(left) - n : rest[i] = left[n + i]
    <3> HIDE DEF left
    <3>1. \A i \in n + 1..Len(left) : left[i] \in ByteSet
      BY <2>5
    <3> QED BY <2>5, <3>1, SubSeqProperties
  <2>9. acc' = Ingest(acc, chunk)
    BY <2>3
  <2>14. lines \in Seq(Lines)
    BY <2>4
  <2> HIDE DEF lines, left, chunk, rest
  <2>10. ReachedAt(acc', lines, j + n)
    <3>1. j + Len(chunk) <= Len(b)
      <4> HIDE DEF b
      <4> QED BY <2>5, <2>7
    <3>2. ASSUME NEW i \in 1..Len(chunk) PROVE chunk[i] = b[j + i]
      <4>1. i \in 1..n /\ i \in 1..Len(left)
        BY <2>5, <2>7
      <4> HIDE DEF b
      <4> QED BY <4>1, <2>5, <2>7
    <3>3. ReachedAt(Ingest(acc, chunk), lines, j + Len(chunk))
      BY <2>5, <2>7, <2>14, <3>1, <3>2, NextChunk
    <3> QED BY <2>7, <2>9, <3>3
  <2>11. StreamAt(stream', acc', terminated, j + n)
    <3>1. (j + n) + Len(rest) = Len(b)
      <4> HIDE DEF b
      <4> QED BY <2>5, <2>8
    <3>2. \A i \in 1..Len(rest) : rest[i] = b[(j + n) + i]
      <4> SUFFICES ASSUME NEW i \in 1..Len(rest) PROVE rest[i] = b[(j + n) + i]
        OBVIOUS
      <4> HIDE DEF b
      <4>1. n + i \in 1..Len(left) /\ (j + n) + i = j + (n + i)
        BY <2>5, <2>8
      <4> QED BY <2>5, <2>8, <4>1
    <3>3. stream'.left = rest /\ stream'.lines = lines
      BY <2>6
    <3> QED BY <2>8, <2>10, <3>1, <3>2, <3>3 DEF StreamAt
  <2>12. UNCHANGED <<request, records, now>>
    BY <1>3 DEF Chunk
  <2>13. StreamInv'
    <3>1. j + n \in Nat
      BY <2>5
    <3>2. /\ stream'.lines \in Streams /\ stream'.ts \in 0..now
          /\ stream' = [lines |-> stream'.lines, ts |-> stream'.ts, left |-> stream'.left]
      BY <2>4, <2>6 DEF lines
    <3> QED BY <2>11, <2>12, <3>1, <3>2 DEF StreamInv
  <2>15. RequestInv'
    BY <1>0, <2>12 DEF RequestInv
  <2> QED BY <1>0, <2>12, <2>13, <2>15 DEF IInv
<1>4. CASE End
  <2>1. stream # NoStream /\ stream.left = <<>> /\ stream' = NoStream /\ UNCHANGED <<request, now>>
    BY <1>4 DEF End, Listening
  <2>2. PICK terminated \in BOOLEAN, j \in Nat : StreamAt(stream, acc, terminated, j)
    BY <1>0, <2>1 DEF StreamInv
  <2>3. stream.lines \in Streams /\ stream.ts \in 0..now /\ stream.lines \in Seq(Lines)
    BY <1>0, <2>1 DEF StreamInv
  <2>4. ReachedAt(acc, stream.lines, Len(Bytes(stream.lines, terminated)))
    <3>1. Len(stream.left) = 0 /\ j + 0 = j
      BY <2>1
    <3> QED BY <2>2, <3>1 DEF StreamAt
  <2>5. Tops(Finish(acc), stream.lines, Len(stream.lines))
    BY <2>3, <2>4, AtEnd
  <2>6. Finish(acc) \in Usage /\ Finish(acc).cached + Finish(acc).creation <= Finish(acc).tin
    BY <2>3, <2>5, TopsSound
  <2>7. PICK c \in Contexts :
          records' = Append(records, Record(200, Finish(acc), stream.ts, c,
                                            IF stream.lines = <<>> THEN None ELSE c.ttft))
    BY <1>4 DEF End
  <2> DEFINE ttft == IF stream.lines = <<>> THEN None ELSE c.ttft
             u == Finish(acc)
  <2>8. Record(200, u, stream.ts, c, ttft) \in Kept(now)
    <3>1. c.model \in STRING /\ c.key \in STRING /\ c.dur \in Nat /\ c.ttft \in Nat
          /\ 200 \in Nat /\ now \in Nat
      BY <1>0
    <3>2. ttft \in Nat \cup {None} /\ (ttft = None => stream.lines = <<>>)
      BY <3>1, TransformsAssumption DEF TransformsAssumption
    <3>3. ASSUME stream.lines = <<>> PROVE u.cached = 0 /\ u.creation = 0
      <4>1. Len(stream.lines) = 0 /\ ~ \E i \in 1..0 : TRUE
        BY <3>3
      <4>2. \A field \in Usages : u[field] = 0
        BY <2>5, <4>1 DEF Tops
      <4> HIDE DEF u
      <4> QED BY <4>2 DEF Usages
    <3> HIDE DEF ttft, u
    <3>4. u \in Usage /\ u.cached + u.creation <= u.tin
      BY <2>6 DEF u
    <3>5. stream.ts \in 0..now /\ (ttft = None => u.cached = 0 /\ u.creation = 0)
      BY <2>3, <3>2, <3>3
    <3> QED BY <3>1, <3>2, <3>4, <3>5, RecordKept
  <2>9. records' \in Seq(Kept(now))
    BY <1>0, <2>7, <2>8, AppendProperties
  <2>10. RequestInv' /\ StreamInv'
    BY <1>0, <2>1 DEF RequestInv, StreamInv
  <2> QED BY <1>0, <2>1, <2>9, <2>10 DEF IInv
<1>5. CASE Break
  <2>1. stream' = NoStream /\ UNCHANGED <<request, records, now>>
    BY <1>5 DEF Break
  <2>2. RequestInv' /\ StreamInv'
    BY <1>0, <2>1 DEF RequestInv, StreamInv
  <2> QED BY <1>0, <2>1, <2>2 DEF IInv
<1>6. CASE Body
  <2>1. PICK b \in Bodies, c \in Contexts :
          records' = Append(records, Record(200, IF b = <<>> THEN NoUsage ELSE Extract(b[1]), now, c, c.ttft))
    BY <1>6 DEF Body
  <2>2. UNCHANGED <<request, stream, acc, now>>
    BY <1>6 DEF Body
  <2> DEFINE u == IF b = <<>> THEN NoUsage ELSE Extract(b[1])
  <2>3. u \in Usage /\ u.cached + u.creation <= u.tin
    <3>1. CASE b = <<>>
      BY <3>1 DEF NoUsage, Usage
    <3>2. CASE b # <<>>
      <4>1. b \in Seq(Payloads)
        BY <1>0
      <4>2. b[1] \in Payloads
        <5>1. Len(b) # 0 /\ Len(b) \in Nat
          BY <3>2, <4>1, EmptySeq
        <5> QED BY <4>1, <5>1
      <4>3. Extract(b[1]) \in Usage /\ Extract(b[1]).cached + Extract(b[1]).creation <= Extract(b[1]).tin
        BY <4>2, ExtractSound
      <4> QED BY <3>2, <4>3
    <3> QED BY <3>1, <3>2
  <2> HIDE DEF u
  <2>4. Record(200, u, now, c, c.ttft) \in Kept(now)
    <3>1. c.model \in STRING /\ c.key \in STRING /\ c.dur \in Nat /\ 200 \in Nat
          /\ now \in Nat /\ now \in 0..now /\ c.ttft \in Nat \cup {None} /\ c.ttft # None
      BY <1>0, TransformsAssumption DEF TransformsAssumption
    <3> QED BY <2>3, <3>1, RecordKept
  <2>5. records' \in Seq(Kept(now))
    <3>1. records' = Append(records, Record(200, u, now, c, c.ttft))
      BY <2>1 DEF u
    <3> QED BY <1>0, <2>4, <3>1, AppendProperties
  <2>6. RequestInv' /\ StreamInv'
    BY <1>0, <2>2 DEF RequestInv, StreamInv
  <2> QED BY <1>0, <2>2, <2>5, <2>6 DEF IInv
<1>7. CASE Refuse
  <2>1. PICK c \in Contexts : records' = Append(records, Record(429, NoUsage, now, c, None))
    BY <1>7 DEF Refuse
  <2>2. UNCHANGED <<request, stream, acc, now>>
    BY <1>7 DEF Refuse
  <2>3. NoUsage \in Usage /\ NoUsage.cached + NoUsage.creation <= NoUsage.tin
        /\ NoUsage.cached = 0 /\ NoUsage.creation = 0
    BY DEF NoUsage, Usage
  <2>4. Record(429, NoUsage, now, c, None) \in Kept(now)
    <3> DEFINE u == NoUsage
               ttft == None
    <3>1. 429 \in Nat /\ now \in Nat /\ now \in 0..now /\ ttft \in Nat \cup {None}
          /\ c.model \in STRING /\ c.key \in STRING /\ c.dur \in Nat
      BY <1>0
    <3>2. u \in Usage /\ u.cached + u.creation <= u.tin /\ u.cached = 0 /\ u.creation = 0
      BY <2>3
    <3> HIDE DEF u, ttft
    <3>3. Record(429, u, now, c, ttft) \in Kept(now)
      BY <3>1, <3>2, RecordKept
    <3> QED BY <3>3 DEF u, ttft
  <2>5. records' \in Seq(Kept(now))
    BY <1>0, <2>1, <2>4, AppendProperties
  <2>6. RequestInv' /\ StreamInv'
    BY <1>0, <2>2 DEF RequestInv, StreamInv
  <2> QED BY <1>0, <2>2, <2>5, <2>6 DEF IInv
<1>8. CASE Tick
  <2>1. now < MaxTime /\ now' = now + 1 /\ UNCHANGED <<request, stream, acc, records>>
    BY <1>8 DEF Tick
  <2>2. now' \in 0..MaxTime /\ now' \in Nat /\ now <= now'
    BY <1>0, <2>1
  <2>3. records' \in Seq(Kept(now'))
    BY <1>0, <2>1, <2>2, LaterKept
  <2>4. RequestInv'
    BY <1>0, <2>1 DEF RequestInv
  <2>5. StreamInv'
    <3>1. \A x \in 0..now : x \in 0..now'
      BY <1>0, <2>1
    <3> QED BY <1>0, <2>1, <3>1 DEF StreamInv
  <2> QED BY <2>2, <2>3, <2>4, <2>5 DEF IInv
<1>9. CASE UNCHANGED vars
  <2>1. UNCHANGED <<request, stream, acc, records, now>>
    BY <1>9 DEF vars
  <2>2. RequestInv' /\ StreamInv'
    BY <1>0, <2>1 DEF RequestInv, StreamInv
  <2> QED BY <1>0, <2>1, <2>2 DEF IInv
<1> QED BY <1>1, <1>2, <1>3, <1>4, <1>5, <1>6, <1>7, <1>8, <1>9 DEF Next

\* The accumulator, the records and the request stay what they are said to be,
\* for every set of streams, bodies and tools and all bounds.
THEOREM Invariance == Spec => []IInv
<1>1. Init => IInv
  BY InitInv, TransformsAssumption
<1>2. IInv /\ [Next]_vars => IInv'
  BY NextInv, UsageAssumption, TransformsAssumption, ProvidersAssumption
<1> QED BY <1>1, <1>2, PTL DEF Spec

\* However a stream is cut into chunks, and whether or not its last line is
\* closed, the usage is the largest of its lines' (usage_parse.rs 50-55,
\* 131-163).
THEOREM UsageIsWhole == Spec => []UsageWhole
<1>1. IInv => UsageWhole
  <2> SUFFICES ASSUME IInv, stream # NoStream, stream.left = <<>>, NEW field \in DOMAIN NoUsage
               PROVE  Finish(acc)[field] =
                        Max({0} \cup {u[field] : u \in {Extract(p) : p \in Range(stream.lines) \cap Payloads}})
    BY DEF UsageWhole, Listening
  <2>1. PICK terminated \in BOOLEAN, j \in Nat : StreamAt(stream, acc, terminated, j)
    BY DEF IInv, StreamInv
  <2>2. stream.lines \in Streams /\ stream.lines \in Seq(Lines)
    BY TransformsAssumption DEF IInv, StreamInv, TransformsAssumption
  <2>3. ReachedAt(acc, stream.lines, Len(Bytes(stream.lines, terminated)))
    <3>1. Len(stream.left) = 0 /\ j + 0 = j
      OBVIOUS
    <3> QED BY <2>1, <3>1 DEF StreamAt
  <2>4. Tops(Finish(acc), stream.lines, Len(stream.lines))
    BY <2>2, <2>3, AtEnd, UsageAssumption, ProvidersAssumption
  <2> DEFINE lines == stream.lines
             u == Finish(acc)
             samples == {Extract(p) : p \in Range(lines) \cap Payloads}
             S == {0} \cup {x[field] : x \in samples}
  <2>5. field \in Usages
    BY DEF NoUsage, Usages
  <2>6. \A i \in 1..Len(lines) : Sample(lines, i) => Extract(lines[i])[field] \in S
    BY <2>2 DEF Sample, Range
  <2>7. \A x \in S : x = 0 \/ \E i \in 1..Len(lines) : Sample(lines, i) /\ x = Extract(lines[i])[field]
    BY <2>2 DEF Sample, Range
  <2>8. u[field] \in Nat
    BY <2>4, <2>5 DEF Tops, Usage, Usages
  <2> HIDE DEF samples, u, lines
  <2>9. u[field] \in S
    BY <2>4, <2>5, <2>6 DEF Tops, u, lines
  <2>10. \A x \in S : x \in Nat /\ x <= u[field]
    <3> SUFFICES ASSUME NEW x \in S PROVE x \in Nat /\ x <= u[field]
      OBVIOUS
    <3>1. CASE x = 0
      BY <3>1, <2>8
    <3>2. CASE x # 0
      <4>1. PICK i \in 1..Len(lines) : Sample(lines, i) /\ x = Extract(lines[i])[field]
        BY <2>7, <3>2
      <4>2. Extract(lines[i])[field] <= u[field]
        BY <4>1, <2>4, <2>5 DEF Tops, u, lines
      <4>3. Extract(lines[i])[field] \in Nat
        <5>1. Extract(lines[i]) \in Usage
          BY <4>1, ExtractSound, UsageAssumption, ProvidersAssumption DEF Sample
        <5> QED BY <5>1, <2>5, MergeIs
      <4> QED BY <4>1, <4>2, <4>3
    <3> QED BY <3>1, <3>2
  <2> HIDE DEF S
  <2>11. Max(S) \in S /\ \A x \in S : Max(S) >= x
    BY <2>9, <2>10, MaxIs
  <2>12. Max(S) \in Nat /\ Max(S) <= u[field] /\ u[field] <= Max(S)
    BY <2>9, <2>10, <2>11
  <2>13. Max(S) = u[field]
    BY <2>8, <2>12
  <2> QED BY <2>13 DEF S, u, samples, lines
<1> QED BY <1>1, Invariance, PTL

\* No view ever counts more cached input than input (usage_parse.rs 15-17,
\* stats.rs 200-203).
THEOREM HitRateIsAtMostOne == Spec => []HitRateAtMostOne
<1>1. IInv => HitRateAtMostOne
  <2> SUFFICES ASSUME IInv, NEW window \in Windows, NEW m \in Filters
               PROVE  LET s == InWindow(records, now, window, m)
                          memory == MemorySummary(s)
                          buckets == MemoryBuckets(s, now, window, 1)
                      IN /\ memory.ctok + memory.crea <= memory.tin
                         /\ \A i \in DOMAIN buckets : buckets[i].ctok <= buckets[i].tin
    BY DEF HitRateAtMostOne
  <2>1. now \in Nat /\ records \in Seq(Kept(now)) /\ window \in Nat
    BY TransformsAssumption DEF IInv, Windows, TransformsAssumption
  <2> QED BY <2>1, HitRate
<1> QED BY <1>1, Invariance, PTL

\* What Rust computes from the ring is what SQL computes from the same records,
\* but for the latency of a key (stats.rs 222-365, db.rs 275-417).
THEOREM ViewsAreAlike == Spec => []ViewsAlike
<1>1. IInv => ViewsAlike
  <2> SUFFICES ASSUME IInv, NEW window \in Windows, NEW m \in Filters
               PROVE  LET s == InWindow(records, now, window, m)
                      IN /\ MemorySummary(s) = SqlSummary(s)
                         /\ MemoryTokens(s) = [k \in KeyNames(s) |-> [DbTokens(s)[k] EXCEPT !.latency = 0]]
    BY DEF ViewsAlike
  <2>1. now \in Nat /\ records \in Seq(Kept(now)) /\ window \in Nat
    BY TransformsAssumption DEF IInv, Windows, TransformsAssumption
  <2> DEFINE s == InWindow(records, now, window, m)
  <2>2. s \in Seq(Kept(now))
    BY <2>1, InWindowType
  <2>3. Kept(now) \subseteq RecordType
    BY KeptParts
  <2> HIDE DEF s
  <2>4. s \in Seq(RecordType)
    BY <2>2, <2>3
  <2>5. None \notin Nat
    BY TransformsAssumption DEF TransformsAssumption
  <2>6. MemorySummary(s) = SqlSummary(s)
    <3>1. RecordType \subseteq RecordType
      OBVIOUS
    <3> QED BY <2>4, <2>5, <3>1, SummariesAlike
  <2> QED BY <2>4, <2>6, TokensAlike DEF s
<1> QED BY <1>1, Invariance, PTL

\* Buckets add up to the window, and their percentiles are in order (stats.rs
\* 87-207, db.rs 175-273).
THEOREM BucketsDoAddUp == Spec => []BucketsAddUp
<1>1. IInv => BucketsAddUp
  <2> SUFFICES ASSUME IInv, NEW window \in Windows, NEW bucket \in Windows, NEW m \in Filters
               PROVE  LET s == InWindow(records, now, window, m)
                          memory == MemoryBuckets(s, now, window, bucket)
                          end == WindowStart(now, window) + window
                          before == MemorySummary(Where(s, LAMBDA rec : rec.ts < end))
                      IN /\ \A field \in Fields : OverTime(DbBuckets(s, bucket), field) = SqlSummary(s)[field]
                         /\ window % bucket = 0 =>
                              \A field \in Fields : OverTime(memory, field) = before[field]
                         /\ \A i \in DOMAIN memory :
                              LET b == memory[i]
                              IN b.latencies[1] <= b.latencies[2] /\ b.latencies[2] <= b.slowest
    BY DEF BucketsAddUp, OverTime, Fields
  <2>1. /\ now \in 0..MaxTime /\ records \in Seq(Kept(now)) /\ window \in 1..MaxTime /\ bucket \in 1..MaxTime
        /\ MaxTime \in Nat /\ None \notin Nat
    BY TransformsAssumption DEF IInv, Windows, TransformsAssumption
  <2> QED BY <2>1, Buckets
<1> QED BY <1>1, Invariance, PTL

\* Of a window that starts at a multiple of the bucket, the ring's buckets are
\* the groups of SQL, column by column (stats.rs 87-207, db.rs 185-270).
THEOREM BucketsAreAlike == Spec => []BucketsAlike
<1>1. IInv => BucketsAlike
  <2> SUFFICES ASSUME IInv, NEW window \in Windows, NEW bucket \in Windows, NEW m \in Filters
               PROVE  LET s == InWindow(records, now, window, m)
                          start == WindowStart(now, window)
                          memory == MemoryBuckets(s, now, window, bucket)
                          db == DbBuckets(s, bucket)
                          Selected(g) == IF g \in DOMAIN db THEN db[g] ELSE SqlBucket(<<>>)
                      IN start % bucket = 0 =>
                           \A i \in DOMAIN memory :
                             LET b == Selected(start + i * bucket)
                             IN \A column \in DOMAIN b :
                                  /\ memory[i][column] = b[column]
                                  /\ ~ReadFails(s) => memory[i][column] = AsRead(b)[column]
    BY DEF BucketsAlike
  <2>1. /\ now \in Nat /\ records \in Seq(Kept(now)) /\ window \in Nat /\ bucket \in Nat \ {0}
        /\ None \notin Nat
    BY TransformsAssumption DEF IInv, Windows, TransformsAssumption
  <2> DEFINE s == InWindow(records, now, window, m)
  <2>2. s \in Seq(From(now, WindowStart(now, window)))
    BY <2>1, InWindowType
  <2> HIDE DEF s
  <2>3. ASSUME WindowStart(now, window) % bucket = 0,
               NEW i \in DOMAIN MemoryBuckets(s, now, window, bucket),
               NEW b, b = (IF WindowStart(now, window) + i * bucket \in DOMAIN DbBuckets(s, bucket)
                           THEN DbBuckets(s, bucket)[WindowStart(now, window) + i * bucket]
                           ELSE SqlBucket(<<>>)),
               NEW column \in DOMAIN b
        PROVE  /\ MemoryBuckets(s, now, window, bucket)[i][column] = b[column]
               /\ ~ReadFails(s) => MemoryBuckets(s, now, window, bucket)[i][column] = AsRead(b)[column]
    BY <2>1, <2>2, <2>3, BucketsOfWindow
  <2> QED BY <2>3 DEF s
<1> QED BY <1>1, Invariance, PTL

-----------------------------------------------------------------------------
(* Values of JSON, layer by layer. *)

\* The layers of values, built up to one of them.
LayersUpTo(f, n) == f = [i \in 0..n |-> IF i = 0 THEN Leaves ELSE Layer(f[i - 1])]

\* Every layer is made from the one below it.
LEMMA LayersDef ==
  /\ DOMAIN Layers = 0..Nesting /\ Layers[0] = Leaves
  /\ \A n \in 1..Nesting : Layers[n] = Layer(Layers[n - 1])
<1> DEFINE built == {n \in 0..Nesting : \E f : LayersUpTo(f, n)}
<1>0. Nesting \in Nat
  BY SchemaAssumption
<1>1. 0 \in built
  <2> DEFINE f == [i \in 0..0 |-> Leaves]
  <2>1. LayersUpTo(f, 0)
    <3>1. f = [i \in 0..0 |-> IF i = 0 THEN Leaves ELSE Layer(f[i - 1])]
      OBVIOUS
    <3> QED BY <3>1 DEF LayersUpTo
  <2> HIDE DEF f
  <2> QED BY <2>1, <1>0
<1>2. ASSUME NEW n \in 1..Nesting, n - 1 \in built PROVE n \in built
  <2>1. PICK f : LayersUpTo(f, n - 1)
    BY <1>2
  <2> DEFINE g == [i \in 0..n |-> IF i = 0 THEN Leaves ELSE Layer(f[i - 1])]
  <2>2. \A i \in 0..n - 1 : f[i] = g[i]
    <3>1. f = [i \in 0..n - 1 |-> IF i = 0 THEN Leaves ELSE Layer(f[i - 1])]
      BY <2>1 DEF LayersUpTo
    <3>2. \A i \in 0..n - 1 : i \in 0..n
      BY <1>0
    <3> QED BY <3>1, <3>2
  <2>3. LayersUpTo(g, n)
    <3> DEFINE h == [i \in 0..n |-> IF i = 0 THEN Leaves ELSE Layer(g[i - 1])]
    <3>1. ASSUME NEW i \in 0..n PROVE g[i] = h[i]
      <4>1. CASE i = 0
        BY <4>1
      <4>2. CASE i # 0
        <5>1. i - 1 \in 0..n - 1
          BY <4>2, <1>0
        <5>2. f[i - 1] = g[i - 1]
          BY <5>1, <2>2
        <5> HIDE <2>2
        <5>3. g[i] = Layer(f[i - 1]) /\ h[i] = Layer(g[i - 1])
          BY <4>2
        <5> QED BY ONLY <5>2, <5>3
      <4> QED BY <4>1, <4>2
    <3>2. g = h
      <4>1. DOMAIN g = 0..n /\ DOMAIN h = 0..n /\ g = [i \in 0..n |-> g[i]] /\ h = [i \in 0..n |-> h[i]]
        OBVIOUS
      <4> HIDE DEF g, h
      <4> QED BY <4>1, <3>1
    <3> QED BY <3>2 DEF LayersUpTo
  <2> HIDE DEF g
  <2>4. n \in 0..Nesting
    BY <1>0
  <2> QED BY <2>3, <2>4
<1>3. \E f : LayersUpTo(f, Nesting)
  <2> HIDE DEF built
  <2>1. \A n \in 0..Nesting : n \in built
    BY <1>0, <1>1, <1>2, Induct
  <2>2. Nesting \in built
    BY <2>1, <1>0
  <2> QED BY <2>2 DEF built
<1>4. Layers = [i \in 0..Nesting |-> IF i = 0 THEN Leaves ELSE Layer(Layers[i - 1])]
  BY <1>3 DEF Layers, LayersUpTo
<1>5. ASSUME NEW n \in 1..Nesting PROVE Layers[n] = Layer(Layers[n - 1])
  <2>1. n \in 0..Nesting /\ n # 0
    BY <1>0
  <2> QED BY <2>1, <1>4
<1> QED BY <1>0, <1>4, <1>5

\* The contents of objects whose values are in a layer.
Objects(l) == [Keys -> Layers[l] \cup {Missing}]

\* A layer has all that the layers below it have.
LEMMA LayersGrow ==
  ASSUME NEW l \in 0..Nesting, NEW m \in l..Nesting PROVE Layers[l] \subseteq Layers[m]
<1>0. Nesting \in Nat
  BY SchemaAssumption
<1>1. ASSUME NEW A, NEW B, A \subseteq B PROVE Layer(A) \subseteq Layer(B)
  <2>1. Seq(A) \subseteq Seq(B)
    BY <1>1
  <2>2. [Keys -> A \cup {Missing}] \subseteq [Keys -> B \cup {Missing}]
    BY <1>1
  <2> QED BY <2>1, <2>2 DEF Layer
<1>2. \A n \in 0..Nesting : n > 0 => Layers[n - 1] \subseteq Layers[n]
  <2> DEFINE S == {n \in 0..Nesting : n > 0 => Layers[n - 1] \subseteq Layers[n]}
  <2>1. 0 \in S
    BY <1>0
  <2>2. ASSUME NEW n \in 1..Nesting, n - 1 \in S PROVE n \in S
    <3>1. n \in 0..Nesting /\ Layers[n] = Layer(Layers[n - 1])
      BY LayersDef, <1>0
    <3>2. CASE n = 1
      BY <3>1, <3>2, LayersDef DEF Layer
    <3>3. CASE n # 1
      <4>1. Layers[n - 2] \subseteq Layers[n - 1]
        <5>1. n - 1 > 0 /\ (n - 1) - 1 = n - 2
          BY <3>3
        <5>2. Layers[(n - 1) - 1] \subseteq Layers[n - 1]
          BY <2>2, <5>1
        <5> QED BY <5>1, <5>2
      <4>2. Layer(Layers[n - 2]) \subseteq Layer(Layers[n - 1])
        BY <4>1, <1>1
      <4>3. n - 1 \in 1..Nesting /\ (n - 1) - 1 = n - 2
        BY <3>3, <1>0
      <4>4. Layers[n - 1] = Layer(Layers[(n - 1) - 1])
        BY <4>3, LayersDef
      <4>5. Layers[n - 1] = Layer(Layers[n - 2])
        BY <4>3, <4>4
      <4>6. Layers[n - 1] \subseteq Layers[n]
        BY <4>2, <4>5, <3>1
      <4> QED BY <4>6, <3>1
    <3> QED BY <3>2, <3>3
  <2>3. \A n \in 0..Nesting : n \in S
    <3> HIDE DEF S
    <3> QED BY <1>0, <2>1, <2>2, Induct
  <2> QED BY <2>3
<1>3. \A n \in 0..Nesting : l <= n => Layers[l] \subseteq Layers[n]
  <2> DEFINE S == {n \in 0..Nesting : l <= n => Layers[l] \subseteq Layers[n]}
  <2>1. 0 \in S
    BY <1>0
  <2>2. ASSUME NEW n \in 1..Nesting, n - 1 \in S PROVE n \in S
    <3>1. n \in 0..Nesting /\ n > 0 /\ (l <= n => l <= n - 1 \/ l = n)
      BY <1>0
    <3>2. Layers[n - 1] \subseteq Layers[n]
      BY <3>1, <1>2
    <3> QED BY <3>1, <3>2, <2>2
  <2>3. \A n \in 0..Nesting : n \in S
    <3> HIDE DEF S
    <3> QED BY <1>0, <2>1, <2>2, Induct
  <2> QED BY <2>3
<1> QED BY <1>0, <1>3

\* A layer lies between the leaves and all values.
LEMMA InJson ==
  ASSUME NEW l \in 0..Nesting
  PROVE  Layers[l] \subseteq Json /\ Leaves \subseteq Layers[l] /\ Missing \notin Layers[l]
<1>1. Nesting \in Nat /\ 0 \in 0..Nesting /\ l \in 0..Nesting /\ Nesting \in l..Nesting
  BY SchemaAssumption
<1>2. Layers[l] \subseteq Layers[Nesting] /\ Layers[0] \subseteq Layers[l]
  BY <1>1, LayersGrow
<1> QED BY <1>2, LayersDef, SchemaAssumption DEF Json

\* An array and an object are made from the layer below.
LEMMA Parts ==
  ASSUME NEW l \in 0..Nesting, NEW n \in Layers[l]
  PROVE  /\ Kind(n) = "arr" => l - 1 \in 0..Nesting /\ n = Arr(Content(n)) /\ Content(n) \in Seq(Layers[l - 1])
         /\ Kind(n) = "obj" => l - 1 \in 0..Nesting /\ n = Obj(Content(n)) /\ Content(n) \in Objects(l - 1)
         /\ Kind(n) = "null" => n = Null
         /\ Kind(n) \in {"arr", "obj", "null", "str", "num", "bool"}
<1>0. Nesting \in Nat
  BY SchemaAssumption
<1>1. CASE n \in Leaves
  BY <1>1, SchemaAssumption
<1>2. CASE n \notin Leaves
  <2>1. l \in 1..Nesting /\ l - 1 \in 0..Nesting
    BY <1>0, <1>2, LayersDef
  <2>2. n \in Layer(Layers[l - 1])
    BY <2>1, LayersDef
  <2>3. CASE n \in {"arr"} \X Seq(Layers[l - 1])
    <3>1. n[1] = "arr" /\ n[2] \in Seq(Layers[l - 1]) /\ n = <<"arr", n[2]>>
      BY <2>3
    <3> QED BY <3>1, <2>1 DEF Kind, Content, Arr
  <2>4. CASE n \in {"obj"} \X [Keys -> Layers[l - 1] \cup {Missing}]
    <3>1. n[1] = "obj" /\ n[2] \in [Keys -> Layers[l - 1] \cup {Missing}] /\ n = <<"obj", n[2]>>
      BY <2>4
    <3> QED BY <3>1, <2>1 DEF Kind, Content, Obj, Objects
  <2> QED BY <2>2, <2>3, <2>4, <1>2 DEF Layer
<1> QED BY <1>1, <1>2

\* What is made from the layer below is in a layer.
LEMMA Composed ==
  ASSUME NEW l \in 0..Nesting, l - 1 \in 0..Nesting
  PROVE  /\ \A s \in Seq(Layers[l - 1]) : Arr(s) \in Layers[l]
         /\ \A f \in Objects(l - 1) : Obj(f) \in Layers[l]
<1>1. l \in 1..Nesting
  BY SchemaAssumption
<1>2. Layers[l] = Layer(Layers[l - 1])
  BY <1>1, LayersDef
<1> QED BY <1>2 DEF Layer, Objects, Arr, Obj

\* What is picked was there, and all of it.
LEMMA PickHolds ==
  ASSUME NEW T, NEW s \in Seq(T), NEW places
  PROVE  /\ Pick(s, places) \in Seq(T)
         /\ \A i \in 1..Len(s) : i \in places =>
              \E j \in 1..Len(Pick(s, places)) : Pick(s, places)[j] = s[i]
<1> DEFINE P == Picks(s, places)
           N == Len(s)
           Held(n, i) == \E j \in 1..Len(P[n]) : P[n][j] = s[i]
           S == {n \in 0..N : \A i \in 1..n : i \in places => Held(n, i)}
<1>0. N \in Nat /\ \A i \in 1..N : s[i] \in T
  OBVIOUS
<1>1. /\ P \in [0..N -> Seq(T)] /\ P[0] = <<>>
      /\ \A n \in 1..N : P[n] = IF n \in places THEN Append(P[n - 1], s[n]) ELSE P[n - 1]
  BY PicksDef
<1> HIDE DEF P, N
<1>2. 0 \in S
  BY <1>0
<1>3. ASSUME NEW n \in 1..N, n - 1 \in S PROVE n \in S
  <2>1. n \in 0..N /\ n - 1 \in 0..N /\ P[n - 1] \in Seq(T) /\ P[n] \in Seq(T) /\ s[n] \in T
    BY <1>0, <1>1
  <2>2. \A i \in 1..n - 1 : i \in places => Held(n - 1, i)
    BY <1>3
  <2>3. ASSUME NEW i \in 1..n - 1, Held(n - 1, i) PROVE Held(n, i)
    <3>1. PICK j \in 1..Len(P[n - 1]) : P[n - 1][j] = s[i]
      BY <2>3
    <3>2. CASE n \in places
      <4>1. P[n] = Append(P[n - 1], s[n])
        BY <3>2, <1>1
      <4>2. Len(P[n]) = Len(P[n - 1]) + 1 /\ P[n][j] = P[n - 1][j] /\ Len(P[n - 1]) \in Nat
        BY <4>1, <2>1, AppendProperties
      <4>3. j \in 1..Len(P[n])
        BY <4>2
      <4> QED BY <4>2, <4>3, <3>1
    <3>3. CASE n \notin places
      <4>1. P[n] = P[n - 1]
        BY <3>3, <1>1
      <4> QED BY <4>1, <3>1
    <3> QED BY <3>2, <3>3
  <2>4. ASSUME n \in places PROVE Held(n, n)
    <3>1. P[n] = Append(P[n - 1], s[n])
      BY <2>4, <1>1
    <3>2. Len(P[n]) = Len(P[n - 1]) + 1 /\ P[n][Len(P[n - 1]) + 1] = s[n] /\ Len(P[n - 1]) \in Nat
      BY <3>1, <2>1, AppendProperties
    <3>3. Len(P[n - 1]) + 1 \in 1..Len(P[n])
      BY <3>2
    <3> QED BY <3>2, <3>3
  <2> HIDE DEF Held
  <2>5. ASSUME NEW i \in 1..n, i \in places PROVE Held(n, i)
    <3>1. i \in 1..n - 1 \/ i = n
      BY <1>0
    <3> QED BY <3>1, <2>2, <2>3, <2>4, <2>5
  <2> QED BY <2>1, <2>5
<1>4. \A n \in 0..N : n \in S
  <2> HIDE DEF S
  <2> QED BY <1>0, <1>2, <1>3, Induct
<1>5. N \in 0..N /\ \A i \in 1..N : i \in places => Held(N, i)
  BY <1>0, <1>4
<1>6. Pick(s, places) = P[N]
  BY DEF Pick, P, N
<1> QED BY <1>1, <1>5, <1>6 DEF N

-----------------------------------------------------------------------------
(* The passes of the normalisation, and how deep values are nested. *)

\* So for the contents of objects.
LEMMA ObjectsGrow ==
  ASSUME NEW l \in 0..Nesting, NEW m \in l..Nesting PROVE Objects(l) \subseteq Objects(m)
<1>1. Layers[l] \subseteq Layers[m]
  BY LayersGrow
<1> QED BY <1>1 DEF Objects

\* An object without a key.
LEMMA WithoutKeeps ==
  ASSUME NEW l \in 0..Nesting, NEW f \in Objects(l), NEW key \in Keys
  PROVE  /\ Without(f, key) \in Objects(l)
         /\ Without(f, key)[key] = Missing
         /\ \A k \in Keys : k # key => Without(f, key)[k] = f[k]
BY DEF Objects, Without

\* An object with another value at a key.
LEMMA ChangeKeeps ==
  ASSUME NEW l \in 0..Nesting, NEW f \in Objects(l), NEW key \in Keys, NEW x \in Layers[l]
  PROVE  /\ [f EXCEPT ![key] = x] \in Objects(l)
         /\ [f EXCEPT ![key] = x][key] = x
         /\ \A k \in Keys : k # key => [f EXCEPT ![key] = x][k] = f[k]
BY DEF Objects

\* A keyword whose value is an array.
LEMMA ListAt ==
  ASSUME NEW l \in 0..Nesting, NEW f \in Objects(l), NEW key \in Keys, HasKind(f, key, "arr")
  PROVE  /\ l - 1 \in 0..Nesting /\ f[key] \in Layers[l] /\ f[key] = Arr(Content(f[key]))
         /\ Content(f[key]) \in Seq(Layers[l - 1])
<1>1. f[key] \in Layers[l] /\ Kind(f[key]) = "arr"
  BY DEF Objects, HasKind, Has
<1> QED BY <1>1, Parts

\* The only element of a list is one of those it was drawn from.
LEMMA FirstHeld ==
  ASSUME NEW S, NEW s \in Seq(S)
  PROVE  Len(s) = 1 => s[1] \in S
<1>1. s \in [1..Len(s) -> S]
  OBVIOUS
<1> QED BY <1>1

\* No pass nests deeper: neither the one over alternatives,
LEMMA CombinatorKeeps ==
  ASSUME NEW l \in 0..Nesting, NEW f \in Objects(l), NEW key \in Keys
  PROVE  SimplifyCombinator(f, key) \in Objects(l)
<1> DEFINE all == Content(f[key])
           places == {i \in 1..Len(all) : ~IsNullSchema(all[i])}
           kept == Pick(all, places)
<1>1. SimplifyCombinator(f, key) =
        IF ~HasKind(f, key, "arr") THEN f
        ELSE IF kept = <<>> THEN Without(f, key)
        ELSE IF Len(kept) = 1 /\ Kind(kept[1]) = "obj" THEN Over(Content(kept[1]), Without(f, key))
        ELSE [f EXCEPT ![key] = Arr(kept)]
  BY DEF SimplifyCombinator, Where
<1>2. Without(f, key) \in Objects(l)
  BY WithoutKeeps
<1>3. CASE HasKind(f, key, "arr")
  <2>1. l - 1 \in 0..Nesting /\ all \in Seq(Layers[l - 1])
    BY <1>3, ListAt
  <2> HIDE DEF all, places
  <2>2. kept \in Seq(Layers[l - 1])
    BY <2>1, PickHolds
  <2> HIDE DEF kept
  <2>3. ASSUME Len(kept) = 1, Kind(kept[1]) = "obj"
        PROVE  Over(Content(kept[1]), Without(f, key)) \in Objects(l)
    <3>1. kept[1] \in Layers[l - 1]
      BY <2>2, <2>3, FirstHeld
    <3>2. (l - 1) - 1 \in 0..Nesting /\ Content(kept[1]) \in Objects((l - 1) - 1)
      BY <2>1, <2>3, <3>1, Parts
    <3>3. l \in (l - 1) - 1..Nesting
      BY <3>2, SchemaAssumption
    <3>4. Content(kept[1]) \in Objects(l)
      BY <3>2, <3>3, ObjectsGrow
    <3> QED BY <3>4, <1>2 DEF Over, Objects, Has
  <2>4. [f EXCEPT ![key] = Arr(kept)] \in Objects(l)
    <3>1. Arr(kept) \in Layers[l]
      BY <2>1, <2>2, Composed
    <3> QED BY <3>1, ChangeKeeps
  <2> QED BY <1>1, <1>2, <2>3, <2>4
<1> QED BY <1>1, <1>3

\* nor the one over types,
LEMMA TypeKeeps ==
  ASSUME NEW l \in 0..Nesting, NEW f \in Objects(l)
  PROVE  NormalizeType(f) \in Objects(l)
<1> DEFINE all == Content(f["type"])
           places == {i \in 1..Len(all) : SomeType(all[i])}
           kept == Pick(all, places)
<1>0. "type" \in Keys
  BY SchemaAssumption DEF Keywords
<1>1. NormalizeType(f) =
        IF ~HasKind(f, "type", "arr") THEN f
        ELSE IF kept = <<>> THEN Without(f, "type")
        ELSE [f EXCEPT !["type"] = IF Len(kept) = 1 THEN kept[1] ELSE Arr(kept)]
  BY DEF NormalizeType, Where
<1>2. Without(f, "type") \in Objects(l)
  BY <1>0, WithoutKeeps
<1>3. CASE HasKind(f, "type", "arr")
  <2>1. l - 1 \in 0..Nesting /\ all \in Seq(Layers[l - 1])
    BY <1>0, <1>3, ListAt
  <2> HIDE DEF all, places
  <2>2. kept \in Seq(Layers[l - 1])
    BY <2>1, PickHolds
  <2> HIDE DEF kept
  <2>3. Arr(kept) \in Layers[l]
    BY <2>1, <2>2, Composed
  <2>4. Len(kept) = 1 => kept[1] \in Layers[l]
    <3>1. Len(kept) = 1 => kept[1] \in Layers[l - 1]
      BY <2>2, FirstHeld
    <3>2. l \in l - 1..Nesting
      BY <2>1, SchemaAssumption
    <3> QED BY <2>1, <3>1, <3>2, LayersGrow
  <2> DEFINE x == IF Len(kept) = 1 THEN kept[1] ELSE Arr(kept)
  <2>5. x \in Layers[l]
    BY <2>3, <2>4
  <2>6. [f EXCEPT !["type"] = x] \in Objects(l)
    <3> HIDE DEF x
    <3> QED BY <1>0, <2>5, ChangeKeeps
  <2> QED BY <1>1, <1>2, <2>6
<1> QED BY <1>1, <1>3

\* nor the one over values,
LEMMA EnumKeeps ==
  ASSUME NEW l \in 0..Nesting, NEW f \in Objects(l)
  PROVE  NormalizeEnum(f) \in Objects(l)
<1> DEFINE all == Content(f["enum"])
           places == {i \in 1..Len(all) : all[i] # Null /\ \A j \in 1..i - 1 : all[j] # all[i]}
           kept == Pick(all, places)
<1>0. "enum" \in Keys
  BY SchemaAssumption DEF Keywords
<1>1. NormalizeEnum(f) =
        IF ~HasKind(f, "enum", "arr") THEN f
        ELSE IF kept = <<>> THEN Without(f, "enum")
        ELSE [f EXCEPT !["enum"] = Arr(kept)]
  BY DEF NormalizeEnum
<1>2. Without(f, "enum") \in Objects(l)
  BY <1>0, WithoutKeeps
<1>3. CASE HasKind(f, "enum", "arr")
  <2>1. l - 1 \in 0..Nesting /\ all \in Seq(Layers[l - 1])
    BY <1>0, <1>3, ListAt
  <2> HIDE DEF all, places
  <2>2. kept \in Seq(Layers[l - 1])
    BY <2>1, PickHolds
  <2> HIDE DEF kept
  <2>3. Arr(kept) \in Layers[l]
    BY <2>1, <2>2, Composed
  <2>4. [f EXCEPT !["enum"] = Arr(kept)] \in Objects(l)
    BY <1>0, <2>3, ChangeKeeps
  <2> QED BY <1>1, <1>2, <2>4
<1> QED BY <1>1, <1>3

\* nor the one over constants,
LEMMA ConstKeeps ==
  ASSUME NEW l \in 0..Nesting, NEW f \in Objects(l)
  PROVE  DropNullConst(f) \in Objects(l)
<1>0. "const" \in Keys
  BY SchemaAssumption DEF Keywords
<1> QED BY <1>0, WithoutKeeps DEF DropNullConst

\* nor all of them.
LEMMA PassesKeep ==
  ASSUME NEW l \in 0..Nesting, NEW f \in Objects(l)
  PROVE  PostPasses(f) \in Objects(l)
<1>0. "anyOf" \in Keys /\ "oneOf" \in Keys
  BY SchemaAssumption DEF Keywords
<1>1. SimplifyCombinator(f, "anyOf") \in Objects(l)
  BY <1>0, CombinatorKeeps
<1>2. SimplifyCombinator(SimplifyCombinator(f, "anyOf"), "oneOf") \in Objects(l)
  BY <1>0, <1>1, CombinatorKeeps
<1> QED BY <1>2, TypeKeeps, EnumKeeps, ConstKeeps DEF PostPasses

\* What maps every layer into itself.
Keeping == {h \in [Json -> Json] : \A l \in 0..Nesting : \A n \in Layers[l] : h[n] \in Layers[l]}

\* Nor what descends into the objects of an object.
LEMMA DescendKeeps ==
  ASSUME NEW l \in 0..Nesting, NEW f \in Objects(l), NEW h \in Keeping
  PROVE  Descend(f, h) \in Objects(l)
BY DEF Descend, Objects, Keeping, Has

\* A value normalised, given what its parts become.
NextNormal(n, h) == IF Kind(n) # "obj" THEN n ELSE Obj(PostPasses(Descend(Content(n), h)))

\* Normalising maps every layer into itself, as normalising its parts does.
LEMMA NormalKeeps ==
  ASSUME NEW h \in Keeping PROVE [n \in Json |-> NextNormal(n, h)] \in Keeping
<1>1. ASSUME NEW l \in 0..Nesting, NEW n \in Layers[l] PROVE NextNormal(n, h) \in Layers[l]
  <2>1. CASE Kind(n) = "obj"
    <3>1. l - 1 \in 0..Nesting /\ Content(n) \in Objects(l - 1)
      BY <2>1, Parts
    <3>2. PostPasses(Descend(Content(n), h)) \in Objects(l - 1)
      BY <3>1, DescendKeeps, PassesKeep
    <3> QED BY <3>1, <3>2, <2>1, Composed DEF NextNormal
  <2> QED BY <2>1 DEF NextNormal
<1>2. \A n \in Json : NextNormal(n, h) \in Json
  BY <1>1, SchemaAssumption DEF Json
<1>3. \A l \in 0..Nesting : Layers[l] \subseteq Json
  BY InJson
<1> QED BY <1>1, <1>2, <1>3 DEF Keeping

\* Normalisation is what its recursion says, and maps every layer into itself.
LEMMA NormalsDef ==
  /\ \A d \in 0..MaxDepth : Normals[d] \in Keeping
  /\ \A n \in Json : Normals[0][n] = n
  /\ \A d \in 1..MaxDepth : \A n \in Json : Normals[d][n] = NextNormal(n, Normals[d - 1])
<1> DEFINE N == MaxDepth
           same == [n \in Json |-> n]
           step == [p \in (1..N) \X Keeping |-> [n \in Json |-> NextNormal(n, p[2])]]
<1>0. N \in Nat
  BY SchemaAssumption
<1>1. same \in Keeping
  BY InJson DEF Keeping
<1>2. step \in Steps(N, Keeping)
  BY NormalKeeps DEF Steps
<1>3. \A d \in 1..N, h \in Keeping : step[<<d, h>>] = [n \in Json |-> NextNormal(n, h)]
  OBVIOUS
<1> HIDE DEF step, N
<1>4. PICK f \in [0..N -> Keeping] : f[0] = same /\ \A d \in 1..N : f[d] = step[<<d, f[d - 1]>>]
  <2>1. \E f : Iterates(f, N, Keeping, same, step)
    <3> HIDE DEF same
    <3> QED BY <1>0, <1>1, <1>2, Recursion
  <2> QED BY <2>1 DEF Iterates
<1>5. ASSUME NEW d \in 1..N PROVE f[d] = [n \in Json |-> NextNormal(n, f[d - 1])]
  <2>1. f[d - 1] \in Keeping
    BY <1>0
  <2> QED BY <2>1, <1>3, <1>4
<1> DEFINE g == [d \in 0..N |-> [n \in Json |-> IF d = 0 \/ Kind(n) # "obj" THEN n
                                                ELSE Obj(PostPasses(Descend(Content(n), f[d - 1])))]]
<1>6. f = g
  <2>1. ASSUME NEW d \in 0..N PROVE f[d] = g[d]
    <3>1. CASE d = 0
      BY <3>1, <1>4
    <3>2. CASE d # 0
      <4>1. d \in 1..N
        BY <3>2, <1>0
      <4> QED BY <4>1, <3>2, <1>5 DEF NextNormal
    <3> QED BY <3>1, <3>2
  <2>2. DOMAIN f = 0..N /\ f = [d \in DOMAIN f |-> f[d]]
    OBVIOUS
  <2> QED BY <2>1, <2>2
<1>7. Normals = [d \in 0..N |-> [n \in Json |-> IF d = 0 \/ Kind(n) # "obj" THEN n
                                                ELSE Obj(PostPasses(Descend(Content(n), Normals[d - 1])))]]
  BY <1>6 DEF Normals, N
<1>8. Normals[0] = same
  BY <1>7, <1>0
<1>9. ASSUME NEW d \in 1..N PROVE Normals[d] = [n \in Json |-> NextNormal(n, Normals[d - 1])]
  <2>1. d \in 0..N /\ d # 0
    BY <1>0
  <2> QED BY <2>1, <1>7 DEF NextNormal
<1>10. \A d \in 0..N : Normals[d] \in Keeping
  <2> DEFINE S == {d \in 0..N : Normals[d] \in Keeping}
  <2>1. 0 \in S
    BY <1>0, <1>1, <1>8
  <2>2. ASSUME NEW d \in 1..N, d - 1 \in S PROVE d \in S
    <3>1. d \in 0..N /\ Normals[d - 1] \in Keeping
      BY <1>0, <2>2
    <3>2. [n \in Json |-> NextNormal(n, Normals[d - 1])] \in Keeping
      BY <3>1, NormalKeeps
    <3>3. Normals[d] \in Keeping
      BY <3>2, <1>9
    <3> QED BY <3>1, <3>3
  <2>3. \A d \in 0..N : d \in S
    <3> HIDE DEF S
    <3> QED BY <1>0, <2>1, <2>2, Induct
  <2> QED BY <2>3
<1>11. \A n \in Json : Normals[0][n] = n
  BY <1>8
<1>12. ASSUME NEW d \in 1..N, NEW n \in Json PROVE Normals[d][n] = NextNormal(n, Normals[d - 1])
  <2>1. Normals[d] = [m \in Json |-> NextNormal(m, Normals[d - 1])]
    BY <1>9
  <2> QED BY <2>1
<1> QED BY <1>10, <1>11, <1>12 DEF N

-----------------------------------------------------------------------------
(* What schemas accept. *)

\* What schemas accept; all keywords of an object allow a value; the verdict on
\* a schema, given those on its parts; and the one without looking inside.
Verdicts == [Json \X Arguments -> BOOLEAN]
AllAllow(f, v, accepts) == \A k \in Keys : Has(f, k) => Allows(k, f[k], Exempt(f), v, accepts)
NextVerdict(n, v, accepts) ==
  IF Kind(n) = "obj" THEN AllAllow(Content(n), v, accepts) ELSE n = True
FirstVerdicts == [p \in Json \X Arguments |-> Kind(p[1]) # "obj" /\ p[1] = True]

\* Acceptance is what its recursion says.
LEMMA AcceptanceDef ==
  /\ \A n \in Json, v \in Arguments : Acceptance[0][<<n, v>>] <=> Kind(n) # "obj" /\ n = True
  /\ \A d \in 1..Nesting : \A n \in Json, v \in Arguments :
       Acceptance[d][<<n, v>>] <=> NextVerdict(n, v, Acceptance[d - 1])
<1> DEFINE N == Nesting
           next(h) == [p \in Json \X Arguments |-> NextVerdict(p[1], p[2], h)]
           step == [s \in (1..N) \X Verdicts |-> next(s[2])]
<1>0. N \in Nat
  BY SchemaAssumption
<1>1. FirstVerdicts \in Verdicts
  BY DEF FirstVerdicts, Verdicts
<1>2. ASSUME NEW h PROVE next(h) \in Verdicts
  <2>1. \A p \in Json \X Arguments : NextVerdict(p[1], p[2], h) \in BOOLEAN
    BY DEF NextVerdict, AllAllow
  <2> QED BY <2>1 DEF Verdicts
<1>3. \A d \in 1..N, h \in Verdicts : step[<<d, h>>] = next(h)
  OBVIOUS
<1>4. step \in Steps(N, Verdicts)
  BY <1>2 DEF Steps
<1> HIDE DEF step, N
<1>5. PICK f \in [0..N -> Verdicts] : f[0] = FirstVerdicts /\ \A d \in 1..N : f[d] = step[<<d, f[d - 1]>>]
  <2>1. \E f : Iterates(f, N, Verdicts, FirstVerdicts, step)
    BY <1>0, <1>1, <1>4, Recursion
  <2> QED BY <2>1 DEF Iterates
<1>6. ASSUME NEW d \in 1..N PROVE f[d] = next(f[d - 1])
  <2>1. f[d - 1] \in Verdicts
    BY <1>0
  <2> HIDE DEF next
  <2> QED BY <2>1, <1>3, <1>5
<1> DEFINE g == [d \in 0..N |-> [p \in Json \X Arguments |->
                   IF Kind(p[1]) = "obj"
                   THEN d > 0 /\ \A k \in Keys : Has(Content(p[1]), k)
                                    => Allows(k, Content(p[1])[k], Exempt(Content(p[1])), p[2], f[d - 1])
                   ELSE p[1] = True]]
<1>7. f = g
  <2>1. ASSUME NEW d \in 0..N PROVE f[d] = g[d]
    <3>1. CASE d = 0
      <4>1. ASSUME NEW p \in Json \X Arguments
            PROVE  (Kind(p[1]) # "obj" /\ p[1] = True)
                   = IF Kind(p[1]) = "obj"
                     THEN d > 0 /\ \A k \in Keys : Has(Content(p[1]), k)
                                    => Allows(k, Content(p[1])[k], Exempt(Content(p[1])), p[2], f[d - 1])
                     ELSE p[1] = True
        BY <3>1
      <4> QED BY <4>1, <3>1, <1>5 DEF FirstVerdicts
    <3>2. CASE d # 0
      <4>1. d \in 1..N /\ d > 0
        BY <3>2, <1>0
      <4>2. ASSUME NEW p \in Json \X Arguments
            PROVE  NextVerdict(p[1], p[2], f[d - 1])
                   = IF Kind(p[1]) = "obj"
                     THEN d > 0 /\ \A k \in Keys : Has(Content(p[1]), k)
                                    => Allows(k, Content(p[1])[k], Exempt(Content(p[1])), p[2], f[d - 1])
                     ELSE p[1] = True
        BY <4>1 DEF NextVerdict, AllAllow
      <4>3. f[d] = next(f[d - 1])
        BY <4>1, <1>6
      <4> QED BY <4>2, <4>3
    <3> QED BY <3>1, <3>2
  <2>2. DOMAIN f = 0..N /\ f = [d \in DOMAIN f |-> f[d]]
    OBVIOUS
  <2> HIDE <1>5
  <2>3. DOMAIN g = 0..N /\ g = [d \in 0..N |-> g[d]]
    OBVIOUS
  <2> HIDE DEF g
  <2> QED BY <2>1, <2>2, <2>3
<1>8. Acceptance = [d \in 0..N |-> [p \in Json \X Arguments |->
                   IF Kind(p[1]) = "obj"
                   THEN d > 0 /\ \A k \in Keys : Has(Content(p[1]), k)
                                    => Allows(k, Content(p[1])[k], Exempt(Content(p[1])), p[2], Acceptance[d - 1])
                   ELSE p[1] = True]]
  <2> DEFINE Is(h) == h = [d \in 0..N |-> [p \in Json \X Arguments |->
                   IF Kind(p[1]) = "obj"
                   THEN d > 0 /\ \A k \in Keys : Has(Content(p[1]), k)
                                    => Allows(k, Content(p[1])[k], Exempt(Content(p[1])), p[2], h[d - 1])
                   ELSE p[1] = True]]
  <2>1. Is(f)
    BY <1>7
  <2>2. Acceptance = CHOOSE h : Is(h)
    BY DEF Acceptance, N
  <2>3. Is(Acceptance)
    <3> HIDE DEF Is
    <3> QED BY <2>1, <2>2
  <2> QED BY <2>3
<1>9. ASSUME NEW d \in 0..N, NEW p \in Json \X Arguments
      PROVE  Acceptance[d][p] <=> IF Kind(p[1]) = "obj" THEN d > 0 /\ AllAllow(Content(p[1]), p[2], Acceptance[d - 1])
                                                        ELSE p[1] = True
  <2> DEFINE row(e) == [q \in Json \X Arguments |->
                          IF Kind(q[1]) = "obj" THEN e > 0 /\ AllAllow(Content(q[1]), q[2], Acceptance[e - 1])
                                                ELSE q[1] = True]
  <2>1. Acceptance = [e \in 0..N |-> row(e)]
    BY <1>8 DEF AllAllow
  <2>2. Acceptance[d] = row(d)
    <3> HIDE DEF row
    <3> QED BY <2>1
  <2>3. row(d)[p] = IF Kind(p[1]) = "obj" THEN d > 0 /\ AllAllow(Content(p[1]), p[2], Acceptance[d - 1])
                                          ELSE p[1] = True
    OBVIOUS
  <2> HIDE DEF row
  <2> QED BY <2>2, <2>3
<1>10. ASSUME NEW n \in Json, NEW v \in Arguments
      PROVE  Acceptance[0][<<n, v>>] <=> Kind(n) # "obj" /\ n = True
  <2>1. 0 \in 0..N /\ <<n, v>> \in Json \X Arguments /\ ~(0 > 0)
    BY <1>0
  <2> DEFINE p == <<n, v>>
  <2>2. p[1] = n /\ p[2] = v /\ p \in Json \X Arguments
    OBVIOUS
  <2> HIDE DEF p
  <2>3. Acceptance[0][p] <=> IF Kind(p[1]) = "obj" THEN 0 > 0 /\ AllAllow(Content(p[1]), p[2], Acceptance[0 - 1])
                                                   ELSE p[1] = True
    BY <2>1, <2>2, <1>9
  <2>4. Acceptance[0][p] <=> Kind(n) # "obj" /\ n = True
    BY <2>1, <2>2, <2>3
  <2> QED BY <2>4 DEF p
<1>11. ASSUME NEW d \in 1..N, NEW n \in Json, NEW v \in Arguments
       PROVE  Acceptance[d][<<n, v>>] <=> NextVerdict(n, v, Acceptance[d - 1])
  <2>1. d \in 0..N /\ d > 0
    BY <1>0
  <2> DEFINE p == <<n, v>>
  <2>2. p[1] = n /\ p[2] = v /\ p \in Json \X Arguments
    OBVIOUS
  <2> HIDE DEF p
  <2>3. Acceptance[d][p] <=> IF Kind(p[1]) = "obj" THEN d > 0 /\ AllAllow(Content(p[1]), p[2], Acceptance[d - 1])
                                                   ELSE p[1] = True
    BY <2>1, <2>2, <1>9
  <2>4. Acceptance[d][p] <=> NextVerdict(n, v, Acceptance[d - 1])
    BY <2>1, <2>2, <2>3 DEF NextVerdict
  <2> QED BY <2>4 DEF p
<1> QED BY <1>10, <1>11 DEF N

\* Two verdicts on the schemas of a layer.
Agree(a, b, l) == \A n \in Layers[l], v \in Arguments : a[<<n, v>>] <=> b[<<n, v>>]

\* The parts of a value are in its layer.
LEMMA ItemsIn ==
  ASSUME NEW l \in 0..Nesting, NEW x \in Layers[l]
  PROVE  /\ Kind(x) = "arr" => \A i \in 1..Len(Content(x)) : Content(x)[i] \in Layers[l]
         /\ Kind(x) = "obj" => \A p \in Keys : Has(Content(x), p) => Content(x)[p] \in Layers[l]
<1>0. l - 1 \in 0..Nesting => Layers[l - 1] \subseteq Layers[l]
  <2>1. l - 1 \in 0..Nesting => l \in l - 1..Nesting
    BY SchemaAssumption
  <2> QED BY <2>1, LayersGrow
<1>1. ASSUME Kind(x) = "arr" PROVE \A i \in 1..Len(Content(x)) : Content(x)[i] \in Layers[l]
  <2>1. l - 1 \in 0..Nesting /\ Content(x) \in Seq(Layers[l - 1])
    BY <1>1, Parts
  <2>2. \A i \in 1..Len(Content(x)) : Content(x)[i] \in Layers[l - 1]
    BY <2>1
  <2> QED BY <2>1, <2>2, <1>0
<1>2. ASSUME Kind(x) = "obj" PROVE \A p \in Keys : Has(Content(x), p) => Content(x)[p] \in Layers[l]
  <2>1. l - 1 \in 0..Nesting /\ Content(x) \in Objects(l - 1)
    BY <1>2, Parts
  <2> QED BY <2>1, <1>0 DEF Objects, Has
<1> QED BY <1>1, <1>2

\* What a keyword allows depends on the verdicts on its parts only,
LEMMA SameAllows ==
  ASSUME NEW l \in 0..Nesting, NEW x \in Layers[l], NEW exempt, NEW v \in Arguments, NEW key \in Keys,
         NEW a, NEW b, Agree(a, b, l)
  PROVE  Allows(key, x, exempt, v, a) <=> Allows(key, x, exempt, v, b)
<1>1. ASSUME Kind(x) = "arr", NEW i \in 1..Len(Content(x))
      PROVE  a[<<Content(x)[i], v>>] <=> b[<<Content(x)[i], v>>]
  <2>1. Content(x)[i] \in Layers[l]
    BY <1>1, ItemsIn
  <2> QED BY <2>1 DEF Agree
<1>2. ASSUME Kind(x) = "obj", Kind(v) = "obj", NEW p \in Keys, Has(Content(x), p), Has(Content(v), p)
      PROVE  a[<<Content(x)[p], Content(v)[p]>>] <=> b[<<Content(x)[p], Content(v)[p]>>]
  <2>1. Content(x)[p] \in Layers[l]
    BY <1>2, ItemsIn
  <2>2. Content(v)[p] \in Arguments
    BY <1>2, ArgumentsAssumption
  <2> QED BY <2>1, <2>2 DEF Agree
<1>3. a[<<x, v>>] <=> b[<<x, v>>]
  BY DEF Agree
<1>4. ASSUME Kind(v) = "obj", NEW p \in Keys, Has(Content(v), p)
      PROVE  a[<<x, Content(v)[p]>>] <=> b[<<x, Content(v)[p]>>]
  <2>1. Content(v)[p] \in Arguments
    BY <1>4, ArgumentsAssumption
  <2> QED BY <2>1 DEF Agree
<1>5. ASSUME Kind(v) = "arr", NEW i \in 1..Len(Content(v))
      PROVE  a[<<x, Content(v)[i]>>] <=> b[<<x, Content(v)[i]>>]
  <2>1. Content(v)[i] \in Arguments
    BY <1>5, ArgumentsAssumption
  <2> QED BY <2>1 DEF Agree
<1>6. CASE key = "anyOf"
  BY <1>1, <1>6 DEF Allows
<1>7. CASE key = "oneOf"
  BY <1>1, <1>7 DEF Allows
<1>8. CASE key = "properties"
  BY <1>2, <1>8 DEF Allows
<1>9. CASE key = "not"
  BY <1>3, <1>9 DEF Allows
<1>10. CASE key = "additionalProperties"
  BY <1>4, <1>10 DEF Allows
<1>11. CASE key = "items"
  BY <1>5, <1>11 DEF Allows
<1>12. CASE key \notin {"anyOf", "oneOf", "properties", "not", "additionalProperties", "items"}
  BY <1>12 DEF Allows
<1> QED BY <1>6, <1>7, <1>8, <1>9, <1>10, <1>11, <1>12

\* and so does what an object allows.
LEMMA SameVerdict ==
  ASSUME NEW l \in 0..Nesting, NEW f \in Objects(l), NEW v \in Arguments, NEW a, NEW b, Agree(a, b, l)
  PROVE  AllAllow(f, v, a) <=> AllAllow(f, v, b)
<1>1. ASSUME NEW k \in Keys, Has(f, k) PROVE Allows(k, f[k], Exempt(f), v, a) <=> Allows(k, f[k], Exempt(f), v, b)
  <2>1. f[k] \in Layers[l]
    BY <1>1 DEF Objects, Has
  <2> QED BY <2>1, SameAllows
<1> QED BY <1>1 DEF AllAllow

\* What a schema accepts, it accepts however deep it is looked into.
LEMMA DeepEnough ==
  ASSUME NEW l \in 0..Nesting, NEW d \in l..Nesting, NEW e \in l..Nesting
  PROVE  Agree(Acceptance[d], Acceptance[e], l)
<1> DEFINE S == {m \in 0..Nesting : \A i, j \in m..Nesting : Agree(Acceptance[i], Acceptance[j], m)}
<1>0. Nesting \in Nat
  BY SchemaAssumption
<1>1. ASSUME NEW m \in 0..Nesting, NEW i \in m..Nesting, NEW n \in Layers[m], NEW v \in Arguments,
             Kind(n) # "obj"
      PROVE  Acceptance[i][<<n, v>>] <=> n = True
  <2>1. n \in Json /\ (i = 0 \/ i \in 1..Nesting)
    BY InJson, <1>0
  <2> QED BY <1>1, <2>1, AcceptanceDef DEF NextVerdict
<1>2. ASSUME NEW m \in 0..Nesting, NEW i \in m..Nesting, NEW n \in Layers[m], NEW v \in Arguments,
             Kind(n) = "obj"
      PROVE  /\ m - 1 \in 0..Nesting /\ i - 1 \in m - 1..Nesting /\ Content(n) \in Objects(m - 1)
             /\ Acceptance[i][<<n, v>>] <=> AllAllow(Content(n), v, Acceptance[i - 1])
  <2>1. n \in Json /\ m - 1 \in 0..Nesting /\ Content(n) \in Objects(m - 1)
    BY InJson, Parts, <1>2
  <2>2. i \in 1..Nesting /\ i - 1 \in m - 1..Nesting
    BY <2>1, <1>0
  <2> QED BY <1>2, <2>1, <2>2, AcceptanceDef DEF NextVerdict
<1>3. 0 \in S
  <2>1. ASSUME NEW i \in 0..Nesting, NEW j \in 0..Nesting, NEW n \in Layers[0], NEW v \in Arguments
        PROVE  Acceptance[i][<<n, v>>] <=> Acceptance[j][<<n, v>>]
    <3>1. Kind(n) # "obj" /\ 0 \in 0..Nesting
      BY <1>0, LayersDef, SchemaAssumption
    <3> QED BY <3>1, <1>1
  <2> QED BY <2>1, <1>0 DEF Agree
<1>4. ASSUME NEW m \in 1..Nesting, m - 1 \in S PROVE m \in S
  <2>0. m \in 0..Nesting
    BY <1>0
  <2>1. ASSUME NEW i \in m..Nesting, NEW j \in m..Nesting, NEW n \in Layers[m], NEW v \in Arguments
        PROVE  Acceptance[i][<<n, v>>] <=> Acceptance[j][<<n, v>>]
    <3>1. CASE Kind(n) = "obj"
      <4>1. /\ Acceptance[i][<<n, v>>] <=> AllAllow(Content(n), v, Acceptance[i - 1])
            /\ Acceptance[j][<<n, v>>] <=> AllAllow(Content(n), v, Acceptance[j - 1])
            /\ m - 1 \in 0..Nesting /\ Content(n) \in Objects(m - 1)
            /\ i - 1 \in m - 1..Nesting /\ j - 1 \in m - 1..Nesting
        BY <2>0, <3>1, <1>2
      <4>2. Agree(Acceptance[i - 1], Acceptance[j - 1], m - 1)
        BY <4>1, <1>4
      <4> DEFINE a == Acceptance[i - 1]
                 b == Acceptance[j - 1]
      <4>3. AllAllow(Content(n), v, a) <=> AllAllow(Content(n), v, b)
        <5>1. Agree(a, b, m - 1)
          BY <4>2
        <5> HIDE DEF a, b
        <5> QED BY <4>1, <5>1, SameVerdict
      <4> QED BY <4>1, <4>3
    <3>2. CASE Kind(n) # "obj"
      BY <2>0, <3>2, <1>1
    <3> QED BY <3>1, <3>2
  <2> QED BY <2>0, <2>1 DEF Agree
<1>5. \A m \in 0..Nesting : m \in S
  <2> HIDE DEF S
  <2> QED BY <1>0, <1>3, <1>4, Induct
<1> QED BY <1>5

\* A schema accepts what all of its keywords allow.
Verdict == Acceptance[Nesting]

\* so that the verdict on a schema is given by the verdicts on its parts.
LEMMA AcceptsDef ==
  ASSUME NEW n \in Json, NEW v \in Arguments
  PROVE  /\ Kind(n) = "obj" => (Verdict[<<n, v>>] <=> AllAllow(Content(n), v, Verdict))
         /\ Kind(n) # "obj" => (Verdict[<<n, v>>] <=> n = True)
<1>0. Nesting \in Nat /\ Nesting \in 0..Nesting /\ n \in Layers[Nesting]
  BY SchemaAssumption DEF Json
<1>1. CASE Kind(n) = "obj"
  <2>1. Nesting - 1 \in 0..Nesting /\ Content(n) \in Objects(Nesting - 1)
    BY <1>0, <1>1, Parts
  <2>2. Nesting \in 1..Nesting /\ Nesting - 1 \in Nesting - 1..Nesting /\ Nesting \in Nesting - 1..Nesting
    BY <1>0, <2>1
  <2>3. Verdict[<<n, v>>] <=> AllAllow(Content(n), v, Acceptance[Nesting - 1])
    BY <1>1, <2>2, AcceptanceDef DEF NextVerdict, Verdict
  <2> DEFINE a == Acceptance[Nesting - 1]
  <2>4. Agree(a, Verdict, Nesting - 1)
    BY <2>1, <2>2, DeepEnough DEF Verdict
  <2> HIDE DEF a
  <2>5. AllAllow(Content(n), v, a) <=> AllAllow(Content(n), v, Verdict)
    BY <2>1, <2>4, SameVerdict
  <2> QED BY <1>1, <2>3, <2>5 DEF a
<1>2. CASE Kind(n) # "obj"
  <2>1. Nesting = 0 \/ Nesting \in 1..Nesting
    BY <1>0
  <2> QED BY <1>2, <2>1, AcceptanceDef DEF NextVerdict, Verdict
<1> QED BY <1>1, <1>2

-----------------------------------------------------------------------------
(* Exactly one alternative. *)

\* A single element counts.
OnlyOne(s, h) == \E i \in 1..Len(s) : \A j \in 1..Len(s) : h[s[j]] = 1 <=> j = i

\* A single one among zeros is a sum of one.
LEMMA OneIsSum ==
  ASSUME NEW q \in Seq(Nat), \A i \in 1..Len(q) : q[i] \in {0, 1}
  PROVE  SumOf(q) = 1 <=> \E i \in 1..Len(q) : \A j \in 1..Len(q) : q[j] = 1 <=> j = i
<1>0. Len(q) \in Nat
  OBVIOUS
<1>1. ASSUME NEW i \in 1..Len(q), \A j \in 1..Len(q) : q[j] = 1 <=> j = i PROVE SumOf(q) = 1
  <2> DEFINE f == [n \in 0..Len(q) |-> IF n >= i THEN 1 ELSE 0]
  <2>1. f \in [0..Len(q) -> Nat] /\ f[0] = 0 /\ f[Len(q)] = 1
    BY <1>0
  <2>2. ASSUME NEW n \in 1..Len(q) PROVE f[n] = f[n - 1] + q[n]
    <3>1. q[n] = IF n = i THEN 1 ELSE 0
      BY <1>1
    <3>2. n \in 0..Len(q) /\ n - 1 \in 0..Len(q)
      BY <1>0
    <3>3. f[n] = (IF n >= i THEN 1 ELSE 0) /\ f[n - 1] = IF n - 1 >= i THEN 1 ELSE 0
      BY <3>2
    <3> HIDE DEF f
    <3> QED BY <1>0, <3>1, <3>3
  <2> HIDE DEF f
  <2>3. \A n \in 0..Len(q) : Sums(q)[n] = f[n]
    BY <2>1, <2>2, SumsAre
  <2> QED BY <1>0, <2>1, <2>3 DEF SumOf
<1>2. ASSUME SumOf(q) = 1 PROVE \E i \in 1..Len(q) : q[i] = 1
  <2>1. SUFFICES ASSUME \A i \in 1..Len(q) : q[i] = 0 PROVE FALSE
    OBVIOUS
  <2>2. SumOf(q) = 0
    BY <2>1, SumOfZeros
  <2> QED BY <1>2, <2>2
<1>3. ASSUME SumOf(q) = 1, NEW i \in 1..Len(q), NEW j \in 1..Len(q), i < j, q[i] = 1, q[j] = 1 PROVE FALSE
  <2> DEFINE r == [n \in 1..Len(q) |-> IF n = i \/ n = j THEN 1 ELSE 0]
             f == [n \in 0..Len(q) |-> IF n >= j THEN 2 ELSE IF n >= i THEN 1 ELSE 0]
  <2>1. /\ r \in Seq(Nat) /\ Len(r) = Len(q)
        /\ \A n \in 1..Len(q) : r[n] = IF n = i \/ n = j THEN 1 ELSE 0
    BY <1>0
  <2>2. f \in [0..Len(q) -> Nat] /\ f[0] = 0 /\ f[Len(q)] = 2
    BY <1>0, <1>3
  <2>3. ASSUME NEW n \in 1..Len(q) PROVE f[n] = f[n - 1] + r[n]
    <3>1. r[n] = IF n = i \/ n = j THEN 1 ELSE 0
      BY <2>1
    <3>2. n \in 0..Len(q) /\ n - 1 \in 0..Len(q)
      BY <1>0
    <3>3. /\ f[n] = IF n >= j THEN 2 ELSE IF n >= i THEN 1 ELSE 0
          /\ f[n - 1] = IF n - 1 >= j THEN 2 ELSE IF n - 1 >= i THEN 1 ELSE 0
      BY <3>2
    <3> HIDE DEF f, r
    <3> QED BY <1>0, <1>3, <3>1, <3>3
  <2> HIDE DEF f, r
  <2>4. \A n \in 0..Len(r) : Sums(r)[n] = f[n]
    <3>1. f \in [0..Len(r) -> Nat] /\ \A n \in 1..Len(r) : f[n] = f[n - 1] + r[n]
      BY <2>1, <2>2, <2>3
    <3> QED BY <2>1, <2>2, <3>1, SumsAre
  <2>5. SumOf(r) = 2
    BY <1>0, <2>1, <2>2, <2>4 DEF SumOf
  <2>6. ASSUME NEW n \in 1..Len(q) PROVE r[n] <= q[n]
    <3>1. r[n] = IF n = i \/ n = j THEN 1 ELSE 0
      BY <2>1
    <3>2. q[n] \in {0, 1}
      OBVIOUS
    <3> QED BY <1>3, <3>1, <3>2
  <2>7. SumOf(r) <= SumOf(q)
    BY <2>1, <2>6, SumOfLeq
  <2> QED BY <1>3, <2>5, <2>7
<1>4. ASSUME SumOf(q) = 1 PROVE \E i \in 1..Len(q) : \A j \in 1..Len(q) : q[j] = 1 <=> j = i
  <2>1. PICK i \in 1..Len(q) : q[i] = 1
    BY <1>2, <1>4
  <2>2. ASSUME NEW j \in 1..Len(q), q[j] = 1, j # i PROVE FALSE
    <3>1. i < j \/ j < i
      BY <2>2, <1>0
    <3> QED BY <3>1, <2>1, <2>2, <1>3, <1>4
  <2> QED BY <2>1, <2>2
<1> QED BY <1>1, <1>4

\* So for the elements of a sequence.
LEMMA OnlyOneIs ==
  ASSUME NEW T, NEW s \in Seq(T), NEW h \in Counts(T), \A x \in T : h[x] \in {0, 1}
  PROVE  OnlyOne(s, h) <=> Add(s, h) = 1
<1>1. Adds(s, h) \in Seq(Nat) /\ Len(Adds(s, h)) = Len(s) /\ \A i \in 1..Len(s) : Adds(s, h)[i] = h[s[i]]
  BY AddsType
<1>2. Len(s) \in Nat /\ \A i \in 1..Len(s) : s[i] \in T
  OBVIOUS
<1> DEFINE q == Adds(s, h)
<1>3. q \in Seq(Nat) /\ Len(q) = Len(s) /\ (\A i \in 1..Len(q) : q[i] = h[s[i]] /\ q[i] \in {0, 1})
  BY <1>1, <1>2
<1> HIDE DEF q
<1>4. SumOf(q) = 1 <=> \E i \in 1..Len(q) : \A j \in 1..Len(q) : q[j] = 1 <=> j = i
  BY <1>3, OneIsSum
<1>5. OnlyOne(s, h) <=> \E i \in 1..Len(q) : \A j \in 1..Len(q) : q[j] = 1 <=> j = i
  <2>1. \A j \in 1..Len(s) : (q[j] = 1) <=> (h[s[j]] = 1)
    BY <1>3
  <2>2. ASSUME NEW i \in 1..Len(s), \A j \in 1..Len(s) : h[s[j]] = 1 <=> j = i
        PROVE  i \in 1..Len(q) /\ \A j \in 1..Len(q) : q[j] = 1 <=> j = i
    BY <2>1, <2>2, <1>3
  <2>3. ASSUME NEW i \in 1..Len(q), \A j \in 1..Len(q) : q[j] = 1 <=> j = i
        PROVE  i \in 1..Len(s) /\ \A j \in 1..Len(s) : h[s[j]] = 1 <=> j = i
    BY <2>1, <2>3, <1>3
  <2>4. ASSUME OnlyOne(s, h) PROVE \E i \in 1..Len(q) : \A j \in 1..Len(q) : q[j] = 1 <=> j = i
    <3>1. PICK i \in 1..Len(s) : \A j \in 1..Len(s) : h[s[j]] = 1 <=> j = i
      BY <2>4 DEF OnlyOne
    <3>2. i \in 1..Len(q) /\ \A j \in 1..Len(q) : q[j] = 1 <=> j = i
      BY <2>2, <3>1
    <3> QED BY <3>2
  <2>5. ASSUME \E i \in 1..Len(q) : \A j \in 1..Len(q) : q[j] = 1 <=> j = i PROVE OnlyOne(s, h)
    <3>1. PICK i \in 1..Len(q) : \A j \in 1..Len(q) : q[j] = 1 <=> j = i
      BY <2>5
    <3>2. i \in 1..Len(s) /\ \A j \in 1..Len(s) : h[s[j]] = 1 <=> j = i
      BY <2>3, <3>1
    <3> QED BY <3>2 DEF OnlyOne
  <2> QED BY <2>4, <2>5
<1> QED BY <1>4, <1>5 DEF Add, q

\* What is left of exactly one, when none that count is left out.
LEMMA OnlyOneKept ==
  ASSUME NEW T, NEW s \in Seq(T), NEW h \in Counts(T), \A x \in T : h[x] \in {0, 1},
         NEW A, \A x \in T : x \notin A => h[x] = 0, OnlyOne(s, h)
  PROVE  OnlyOne(Sel(s, A), h)
<1> DEFINE m == Masked(h, A)
<1>0. \A i \in 1..Len(s) : s[i] \in T
  OBVIOUS
<1>1. m \in Counts(T) /\ \A x \in T : m[x] = h[x]
  BY DEF Masked, Counts
<1>2. Sel(s, A) \in Seq(T) /\ Add(Sel(s, A), h) = Add(s, m)
  <2>1. Sel(s, A) \in Seq(T) /\ \A v \in Counts(T) : Add(Sel(s, A), v) = Add(s, Masked(v, A))
    BY SelFacts
  <2> QED BY <2>1
<1> HIDE DEF m
<1>3. Alike(s, m, h)
  BY <1>0, <1>1 DEF Alike
<1>4. Add(s, m) = Add(s, h)
  BY <1>1, <1>3, AddSame
<1>5. Add(s, h) = 1
  BY OnlyOneIs
<1> DEFINE r == Sel(s, A)
<1>6. r \in Seq(T) /\ Add(r, h) = 1
  BY <1>2, <1>4, <1>5
<1> HIDE DEF r
<1>7. OnlyOne(r, h)
  BY <1>6, OnlyOneIs
<1> QED BY <1>7 DEF r

-----------------------------------------------------------------------------
(* Passes that take null out. *)

\* An argument is not null, and its type is no null type.
LEMMA NotNull ==
  ASSUME NEW v \in Arguments
  PROVE  v \in Json /\ v # Null /\ SomeType(Str(TypeName(v)))
<1>1. v \in Json /\ v # Null
  BY ArgumentsAssumption
<1>2. Kind(v) \in {"arr", "obj", "str", "num", "bool"}
  <2>1. v \in Layers[Nesting] /\ Nesting \in 0..Nesting
    BY <1>1, SchemaAssumption DEF Json
  <2> QED BY <1>1, <2>1, Parts
<1>3. TypeName(v) \in {"string", "integer", "boolean", "object", "array"}
  BY <1>2 DEF TypeName
<1> QED BY <1>1, <1>3 DEF SomeType, Str, Null

\* A schema of null accepts no argument.
LEMMA NullRefused ==
  ASSUME NEW n \in Json, IsNullSchema(n), NEW v \in Arguments
  PROVE  ~Verdict[<<n, v>>]
<1>0. {"type", "const", "enum"} \subseteq Keys
  BY SchemaAssumption DEF Keywords
<1>1. PICK key \in {"type", "const", "enum"} :
        /\ \A k \in Keys : Has(Content(n), k) <=> k = key
        /\ Content(n)[key] = CASE key = "type" -> Str("null") [] key = "const" -> Null
                               [] key = "enum" -> Arr(<<Null>>)
  BY DEF IsNullSchema
<1>2. Kind(n) = "obj" /\ key \in Keys /\ Has(Content(n), key)
  BY <1>0, <1>1 DEF IsNullSchema
<1>3. SUFFICES ASSUME Allows(key, Content(n)[key], Exempt(Content(n)), v, Verdict) PROVE FALSE
  BY <1>2, AcceptsDef DEF AllAllow
<1>4. v # Null /\ TypeName(v) # "null"
  BY NotNull DEF SomeType, Str
<1>5. CASE key = "type"
  BY <1>1, <1>3, <1>4, <1>5 DEF Allows, Str, Kind, Content
<1>6. CASE key = "const"
  BY <1>1, <1>3, <1>4, <1>6 DEF Allows
<1>7. CASE key = "enum"
  <2>1. Content(n)[key] = <<"arr", <<Null>>>>
    BY <1>1, <1>7 DEF Arr
  <2> DEFINE s == <<Null>>
  <2>2. \A i \in 1..Len(s) : s[i] = Null
    OBVIOUS
  <2>3. \E i \in 1..Len(s) : s[i] = v
    BY <1>3, <1>7, <2>1 DEF Allows, Content
  <2> QED BY <2>2, <2>3, <1>4
<1> QED BY <1>5, <1>6, <1>7

\* All keywords of an object allow a value.
OK(f, v) == AllAllow(f, v, Verdict)

\* What is exempt depends on the properties only.
LEMMA SameExempt ==
  ASSUME NEW f, NEW g, f["properties"] = g["properties"]
  PROVE  Exempt(f) = Exempt(g)
BY DEF Exempt, HasKind, Has

\* The more is exempt, the more a keyword allows.
LEMMA MoreAllowed ==
  ASSUME NEW key, NEW x, NEW less, NEW more, less \subseteq more, NEW v, Allows(key, x, less, v, Verdict)
  PROVE  Allows(key, x, more, v, Verdict)
<1>1. CASE key = "additionalProperties"
  BY <1>1 DEF Allows
<1>2. CASE key # "additionalProperties"
  BY <1>2 DEF Allows
<1> QED BY <1>1, <1>2

\* Without a keyword, no less is allowed.
LEMMA WithoutAllows ==
  ASSUME NEW l \in 0..Nesting, NEW f \in Objects(l), NEW key \in Keys \ {"properties"}, NEW v, OK(f, v)
  PROVE  OK(Without(f, key), v)
<1>0. "properties" \in Keys
  BY SchemaAssumption DEF Keywords
<1>1. Exempt(Without(f, key)) = Exempt(f)
  BY <1>0, WithoutKeeps, SameExempt
<1> QED BY <1>1, WithoutKeeps DEF OK, AllAllow, Has

\* Nor with another value of a keyword that allows the argument.
LEMMA ChangeAllows ==
  ASSUME NEW l \in 0..Nesting, NEW f \in Objects(l), NEW key \in Keys \ {"properties"}, NEW x \in Layers[l],
         NEW v, OK(f, v), Allows(key, x, Exempt(f), v, Verdict)
  PROVE  OK([f EXCEPT ![key] = x], v)
<1> DEFINE g == [f EXCEPT ![key] = x]
<1>0. "properties" \in Keys
  BY SchemaAssumption DEF Keywords
<1>1. g[key] = x /\ \A k \in Keys : k # key => g[k] = f[k]
  BY DEF Objects
<1> HIDE DEF g
<1>2. Exempt(g) = Exempt(f)
  BY <1>0, <1>1, SameExempt
<1>3. OK(g, v)
  BY <1>1, <1>2 DEF OK, AllAllow, Has
<1> QED BY <1>3 DEF g

\* Some alternative accepts, and not two when only one may.
AnyAccepts(s, v) == \E i \in 1..Len(s) : Verdict[<<s[i], v>>]
OneAccepts(s, v) == \E i \in 1..Len(s) : \A j \in 1..Len(s) : Verdict[<<s[j], v>>] <=> j = i

\* Where one alternative accepts, one of those that are left does:
LEMMA OneAcceptsKept ==
  ASSUME NEW l \in 0..Nesting, NEW s \in Seq(Layers[l]), NEW v \in Arguments, OneAccepts(s, v)
  PROVE  OneAccepts(Pick(s, {i \in 1..Len(s) : ~IsNullSchema(s[i])}), v)
<1> DEFINE T == Layers[l]
           A == {n \in T : ~IsNullSchema(n)}
           h == [n \in T |-> IF Verdict[<<n, v>>] THEN 1 ELSE 0]
<1>0. (\A i \in 1..Len(s) : s[i] \in T) /\ T \subseteq Json
  BY InJson
<1>1. h \in Counts(T) /\ \A n \in T : h[n] \in {0, 1} /\ (h[n] = 1 <=> Verdict[<<n, v>>])
  BY DEF Counts
<1>2. \A n \in T : n \notin A => h[n] = 0
  BY <1>0, NullRefused
<1> HIDE DEF h
<1>3. ASSUME NEW r \in Seq(T) PROVE OnlyOne(r, h) <=> OneAccepts(r, v)
  <2>1. \A i \in 1..Len(r) : (h[r[i]] = 1) <=> Verdict[<<r[i], v>>]
    BY <1>1
  <2>2. ASSUME NEW i \in 1..Len(r)
        PROVE  (\A j \in 1..Len(r) : h[r[j]] = 1 <=> j = i) <=> (\A j \in 1..Len(r) : Verdict[<<r[j], v>>] <=> j = i)
    BY <2>1
  <2>3. ASSUME OnlyOne(r, h) PROVE OneAccepts(r, v)
    <3>1. PICK i \in 1..Len(r) : \A j \in 1..Len(r) : h[r[j]] = 1 <=> j = i
      BY <2>3 DEF OnlyOne
    <3>2. \A j \in 1..Len(r) : Verdict[<<r[j], v>>] <=> j = i
      BY <2>2, <3>1
    <3> QED BY <3>2 DEF OneAccepts
  <2>4. ASSUME OneAccepts(r, v) PROVE OnlyOne(r, h)
    <3>1. PICK i \in 1..Len(r) : \A j \in 1..Len(r) : Verdict[<<r[j], v>>] <=> j = i
      BY <2>4 DEF OneAccepts
    <3>2. \A j \in 1..Len(r) : h[r[j]] = 1 <=> j = i
      BY <2>2, <3>1
    <3> QED BY <3>2 DEF OnlyOne
  <2> QED BY <2>3, <2>4
<1>4. {i \in 1..Len(s) : ~IsNullSchema(s[i])} = {i \in 1..Len(s) : s[i] \in A}
  BY <1>0
<1>5. Pick(s, {i \in 1..Len(s) : ~IsNullSchema(s[i])}) = Sel(s, A)
  BY <1>4 DEF Sel
<1>6. OnlyOne(s, h)
  BY <1>3
<1> HIDE DEF A
<1>7. OnlyOne(Sel(s, A), h)
  <2> HIDE DEF T
  <2> QED BY <1>1, <1>2, <1>6, OnlyOneKept DEF T
<1>8. Sel(s, A) \in Seq(T)
  BY SelFacts
<1> QED BY <1>3, <1>5, <1>7, <1>8

\* where any accepts, any of those that are left.
LEMMA AnyAcceptsKept ==
  ASSUME NEW l \in 0..Nesting, NEW s \in Seq(Layers[l]), NEW v \in Arguments, AnyAccepts(s, v)
  PROVE  AnyAccepts(Pick(s, {i \in 1..Len(s) : ~IsNullSchema(s[i])}), v)
<1> DEFINE places == {i \in 1..Len(s) : ~IsNullSchema(s[i])}
           kept == Pick(s, places)
<1>1. PICK i \in 1..Len(s) : Verdict[<<s[i], v>>]
  BY DEF AnyAccepts
<1>2. s[i] \in Json
  <2>1. s[i] \in Layers[l]
    OBVIOUS
  <2> QED BY <2>1, InJson
<1>3. i \in places
  BY <1>1, <1>2, NullRefused
<1> HIDE DEF places
<1>4. PICK j \in 1..Len(kept) : kept[j] = s[i]
  <2>1. \A n \in 1..Len(s) : n \in places => \E j \in 1..Len(kept) : kept[j] = s[n]
    BY PickHolds
  <2> HIDE DEF kept
  <2> QED BY <1>3, <2>1
<1> HIDE DEF kept
<1>5. AnyAccepts(kept, v)
  BY <1>1, <1>4 DEF AnyAccepts
<1> QED BY <1>5 DEF kept, places

\* simplify_nullable_combinator() takes no argument from a schema (schema_norm.rs
\* 159-180), when the properties it inlines replace none that are exempt,
LEMMA CombinatorAllows ==
  ASSUME NEW l \in 0..Nesting, NEW f \in Objects(l), NEW key \in {"anyOf", "oneOf"}, ~Uncovers(f, key),
         NEW v \in Arguments, OK(f, v)
  PROVE  OK(SimplifyCombinator(f, key), v)
<1> DEFINE all == Content(f[key])
           kept == Pick(all, {i \in 1..Len(all) : ~IsNullSchema(all[i])})
<1>0. key \in Keys
  BY SchemaAssumption DEF Keywords
<1>1. SimplifyCombinator(f, key) =
        IF ~HasKind(f, key, "arr") THEN f
        ELSE IF kept = <<>> THEN Without(f, key)
        ELSE IF Len(kept) = 1 /\ Kind(kept[1]) = "obj" THEN Over(Content(kept[1]), Without(f, key))
        ELSE [f EXCEPT ![key] = Arr(kept)]
  BY DEF SimplifyCombinator, Where
<1>2. OK(Without(f, key), v)
  BY <1>0, WithoutAllows
<1>3. CASE HasKind(f, key, "arr")
  <2>1. /\ l - 1 \in 0..Nesting /\ f[key] \in Layers[l] /\ f[key] = Arr(Content(f[key]))
        /\ all \in Seq(Layers[l - 1])
    BY <1>0, <1>3, ListAt
  <2>2. Allows(key, f[key], Exempt(f), v, Verdict)
    BY <1>0, <1>3 DEF OK, AllAllow, HasKind
  <2>3. key = "anyOf" => AnyAccepts(all, v)
    BY <2>2 DEF Allows, AnyAccepts
  <2>4. key = "oneOf" => OneAccepts(all, v)
    BY <2>2 DEF Allows, OneAccepts
  <2> HIDE DEF all
  <2>5. (key = "anyOf" => AnyAccepts(kept, v)) /\ (key = "oneOf" => OneAccepts(kept, v))
    BY <2>1, <2>3, <2>4, AnyAcceptsKept, OneAcceptsKept
  <2>6. kept \in Seq(Layers[l - 1])
    BY <2>1, PickHolds
  <2> HIDE DEF kept
  <2>7. AnyAccepts(kept, v)
    BY <2>5 DEF AnyAccepts, OneAccepts
  <2>8. ASSUME Len(kept) = 1, Kind(kept[1]) = "obj"
        PROVE  OK(Over(Content(kept[1]), Without(f, key)), v)
    <3> DEFINE n == kept[1]
    <3>0. kept[1] \in Layers[l - 1]
      BY <2>6, <2>8, FirstHeld
    <3>1. \A i \in 1..Len(kept) : kept[i] \in Layers[l - 1] /\ i = 1
      BY <3>0, <2>8
    <3>2. n \in Json /\ Verdict[<<n, v>>]
      BY <2>1, <2>7, <2>8, <3>1, InJson DEF AnyAccepts
    <3> HIDE DEF n
    <3>3. Kind(n) = "obj"
      BY <2>8 DEF n
    <3>4. AllAllow(Content(n), v, Verdict)
      BY <3>2, <3>3, AcceptsDef
    <3> DEFINE g == Without(f, key)
               c == Content(n)
               m == Over(c, g)
    <3>5. /\ AllAllow(g, v, Verdict)
          /\ g["properties"] = f["properties"] /\ g["additionalProperties"] = f["additionalProperties"]
      <4>1. {"properties", "additionalProperties"} \subseteq Keys \ {key}
        BY SchemaAssumption DEF Keywords
      <4> QED BY <1>0, <1>2, <4>1, WithoutKeeps DEF OK
    <3>6. SimplifyCombinator(f, key) = m
      <4>1. kept # <<>>
        BY <2>8
      <4> QED BY <1>1, <1>3, <2>8, <4>1 DEF n
    <3> HIDE DEF g, c
    <3>7. \A k \in Keys : m[k] = IF Has(c, k) THEN c[k] ELSE g[k]
      BY DEF Over
    <3> HIDE DEF m
    <3>8. {"properties", "additionalProperties"} \subseteq Keys
      BY SchemaAssumption DEF Keywords
    <3>9. ASSUME NEW k \in Keys, Has(c, k) PROVE Allows(k, m[k], Exempt(m), v, Verdict)
      <4>1. Allows(k, c[k], Exempt(c), v, Verdict)
        BY <3>4, <3>9 DEF AllAllow, c
      <4>2. Exempt(c) \subseteq Exempt(m)
        <5>1. CASE Has(c, "properties")
          BY <3>7, <3>8, <5>1, SameExempt
        <5>2. CASE ~Has(c, "properties")
          BY <5>2 DEF Exempt, HasKind
        <5> QED BY <5>1, <5>2
      <4> QED BY <3>7, <3>9, <4>1, <4>2, MoreAllowed
    <3>10. ASSUME NEW k \in Keys, Has(m, k), ~Has(c, k) PROVE Allows(k, m[k], Exempt(m), v, Verdict)
      <4>1. m[k] = g[k] /\ Has(g, k)
        BY <3>7, <3>10 DEF Has
      <4>2. Allows(k, g[k], Exempt(g), v, Verdict)
        BY <3>5, <4>1 DEF AllAllow
      <4>3. Exempt(g) = Exempt(f)
        BY <3>5, SameExempt
      <4>4. CASE k = "additionalProperties"
        <5>1. Exempt(f) \subseteq Exempt(m)
          BY <3>5, <3>6, <4>1, <4>4 DEF Uncovers, Has
        <5> QED BY <4>1, <4>2, <4>3, <5>1, MoreAllowed
      <4>5. CASE k # "additionalProperties"
        BY <4>1, <4>2, <4>5 DEF Allows
      <4> QED BY <4>4, <4>5
    <3>11. OK(m, v)
      BY <3>9, <3>10 DEF OK, AllAllow
    <3> QED BY <3>11 DEF n, g, c, m
  <2>9. OK([f EXCEPT ![key] = Arr(kept)], v)
    <3>1. Arr(kept) \in Layers[l]
      BY <2>1, <2>6, Composed
    <3>2. Kind(Arr(kept)) = "arr" /\ Content(Arr(kept)) = kept
      BY DEF Arr, Kind, Content
    <3> DEFINE x == Arr(kept)
    <3>3. Kind(x) = "arr" /\ Content(x) = kept /\ x \in Layers[l]
      BY <3>1, <3>2
    <3> HIDE DEF x
    <3>4. Allows(key, x, Exempt(f), v, Verdict)
      BY <3>3, <2>5 DEF Allows, AnyAccepts, OneAccepts
    <3>5. OK([f EXCEPT ![key] = x], v)
      BY <1>0, <3>3, <3>4, ChangeAllows
    <3> QED BY <3>5 DEF x
  <2> QED BY <1>1, <1>2, <2>8, <2>9
<1> QED BY <1>1, <1>3

\* nor does normalize_type_field() (197-220),
LEMMA TypeAllows ==
  ASSUME NEW l \in 0..Nesting, NEW f \in Objects(l), NEW v \in Arguments, OK(f, v)
  PROVE  OK(NormalizeType(f), v)
<1> DEFINE all == Content(f["type"])
           places == {i \in 1..Len(all) : SomeType(all[i])}
           kept == Pick(all, places)
           t == Str(TypeName(v))
<1>0. "type" \in Keys
  BY SchemaAssumption DEF Keywords
<1>1. NormalizeType(f) =
        IF ~HasKind(f, "type", "arr") THEN f
        ELSE IF kept = <<>> THEN Without(f, "type")
        ELSE [f EXCEPT !["type"] = IF Len(kept) = 1 THEN kept[1] ELSE Arr(kept)]
  BY DEF NormalizeType, Where
<1>2. OK(Without(f, "type"), v)
  BY <1>0, WithoutAllows
<1>3. CASE HasKind(f, "type", "arr")
  <2>1. l - 1 \in 0..Nesting /\ all \in Seq(Layers[l - 1])
    BY <1>0, <1>3, ListAt
  <2>2. Allows("type", f["type"], Exempt(f), v, Verdict) /\ Kind(f["type"]) = "arr"
    BY <1>0, <1>3 DEF OK, AllAllow, HasKind
  <2>3. PICK i \in 1..Len(all) : all[i] = t
    BY <2>2 DEF Allows
  <2>4. i \in places
    BY <2>3, NotNull
  <2> HIDE DEF all, places
  <2>5. kept \in Seq(Layers[l - 1]) /\ \E j \in 1..Len(kept) : kept[j] = all[i]
    BY <2>1, <2>4, PickHolds
  <2> HIDE DEF kept
  <2>6. PICK j \in 1..Len(kept) : kept[j] = t
    BY <2>3, <2>5
  <2>7. Arr(kept) \in Layers[l]
    BY <2>1, <2>5, Composed
  <2> DEFINE x == IF Len(kept) = 1 THEN kept[1] ELSE Arr(kept)
  <2>8. CASE Len(kept) = 1
    <3>0. \A n \in 1..Len(kept) : kept[n] \in Layers[l - 1]
      BY <2>5
    <3>1. \A n \in 1..Len(kept) : kept[n] \in Layers[l - 1] /\ n = 1
      BY <2>8, <3>0
    <3>2. x = t /\ t \in Layers[l - 1]
      BY <2>6, <2>8, <3>1
    <3>3. l \in l - 1..Nesting
      BY <2>1, SchemaAssumption
    <3>4. x \in Layers[l]
      BY <2>1, <3>2, <3>3, LayersGrow
    <3>5. Allows("type", x, Exempt(f), v, Verdict)
      BY <3>2 DEF Allows, Str, Kind, Content
    <3> QED BY <1>0, <1>1, <1>2, <3>4, <3>5, ChangeAllows
  <2>9. CASE Len(kept) # 1
    <3> DEFINE y == Arr(kept)
    <3>1. x = y /\ Kind(y) = "arr" /\ Content(y) = kept /\ y \in Layers[l]
      BY <2>7, <2>9 DEF Arr, Kind, Content
    <3> HIDE DEF y
    <3>2. Allows("type", y, Exempt(f), v, Verdict)
      BY <2>6, <3>1 DEF Allows
    <3>3. OK([f EXCEPT !["type"] = y], v)
      BY <1>0, <3>1, <3>2, ChangeAllows
    <3> QED BY <1>1, <1>2, <3>1, <3>3
  <2> QED BY <2>8, <2>9
<1> QED BY <1>1, <1>3

\* nor normalize_enum_field() (222-241),
LEMMA EnumAllows ==
  ASSUME NEW l \in 0..Nesting, NEW f \in Objects(l), NEW v \in Arguments, OK(f, v)
  PROVE  OK(NormalizeEnum(f), v)
<1> DEFINE all == Content(f["enum"])
           places == {i \in 1..Len(all) : all[i] # Null /\ \A j \in 1..i - 1 : all[j] # all[i]}
           kept == Pick(all, places)
<1>0. "enum" \in Keys
  BY SchemaAssumption DEF Keywords
<1>1. NormalizeEnum(f) =
        IF ~HasKind(f, "enum", "arr") THEN f
        ELSE IF kept = <<>> THEN Without(f, "enum")
        ELSE [f EXCEPT !["enum"] = Arr(kept)]
  BY DEF NormalizeEnum
<1>2. OK(Without(f, "enum"), v)
  BY <1>0, WithoutAllows
<1>3. CASE HasKind(f, "enum", "arr")
  <2>1. l - 1 \in 0..Nesting /\ all \in Seq(Layers[l - 1])
    BY <1>0, <1>3, ListAt
  <2>2. Allows("enum", f["enum"], Exempt(f), v, Verdict)
    BY <1>0, <1>3 DEF OK, AllAllow, HasKind
  <2> DEFINE S == {i \in 1..Len(all) : all[i] = v}
  <2>3. S # {} /\ S \subseteq Nat
    BY <2>2 DEF Allows
  <2> HIDE DEF S
  <2>4. PICK i \in S : \A j \in S : i <= j
    BY <2>3, FirstOf
  <2>5. i \in 1..Len(all) /\ all[i] = v /\ v # Null
    BY NotNull DEF S
  <2>6. \A j \in 1..i - 1 : all[j] # v
    <3>1. ASSUME NEW j \in 1..i - 1, all[j] = v PROVE FALSE
      <4>1. Len(all) \in Nat
        BY <2>1
      <4>2. j \in S /\ ~(i <= j)
        BY <2>5, <3>1, <4>1 DEF S
      <4> QED BY <2>4, <4>2
    <3> QED BY <3>1
  <2>7. i \in places
    BY <2>5, <2>6
  <2> HIDE DEF all, places
  <2>8. kept \in Seq(Layers[l - 1]) /\ \E j \in 1..Len(kept) : kept[j] = all[i]
    BY <2>1, <2>5, <2>7, PickHolds
  <2> HIDE DEF kept
  <2> DEFINE x == Arr(kept)
  <2>9. Kind(x) = "arr" /\ Content(x) = kept /\ x \in Layers[l]
    BY <2>1, <2>8, Composed DEF Arr, Kind, Content
  <2> HIDE DEF x
  <2>10. Allows("enum", x, Exempt(f), v, Verdict)
    BY <2>5, <2>8, <2>9 DEF Allows
  <2>11. OK([f EXCEPT !["enum"] = x], v)
    BY <1>0, <2>9, <2>10, ChangeAllows
  <2> QED BY <1>1, <1>2, <2>11 DEF x
<1> QED BY <1>1, <1>3

\* nor do all passes, one after the other (118-138).
LEMMA PassesAllow ==
  ASSUME NEW l \in 0..Nesting, NEW f \in Objects(l),
         ~Uncovers(f, "anyOf"), ~Uncovers(SimplifyCombinator(f, "anyOf"), "oneOf"),
         NEW v \in Arguments, OK(f, v)
  PROVE  OK(PostPasses(f), v)
<1> DEFINE a == SimplifyCombinator(f, "anyOf")
           b == SimplifyCombinator(a, "oneOf")
           c == NormalizeType(b)
           d == NormalizeEnum(c)
<1>0. {"anyOf", "oneOf", "const"} \subseteq Keys
  BY SchemaAssumption DEF Keywords
<1>1. a \in Objects(l) /\ OK(a, v) /\ ~Uncovers(a, "oneOf")
  BY <1>0, CombinatorKeeps, CombinatorAllows
<1> HIDE DEF a
<1>2. b \in Objects(l) /\ OK(b, v)
  BY <1>0, <1>1, CombinatorKeeps, CombinatorAllows
<1> HIDE DEF b
<1>3. c \in Objects(l) /\ OK(c, v)
  BY <1>2, TypeKeeps, TypeAllows
<1> HIDE DEF c
<1>4. d \in Objects(l) /\ OK(d, v)
  BY <1>3, EnumKeeps, EnumAllows
<1> HIDE DEF d
<1>5. OK(DropNullConst(d), v)
  BY <1>0, <1>4, WithoutAllows DEF DropNullConst
<1> QED BY <1>5 DEF PostPasses, a, b, c, d

-----------------------------------------------------------------------------
(* Normalisation takes no argument away. *)

\* A map of schemas, as `properties` is, is no schema: the passes leave it.
LEMMA SchemasUnchanged ==
  ASSUME NEW l \in 0..Nesting, NEW f \in Objects(l), \A k \in Keys : Has(f, k) => Kind(f[k]) \in {"obj", "bool"}
  PROVE  PostPasses(f) = f
<1>0. {"anyOf", "oneOf", "type", "enum", "const"} \subseteq Keys
  BY SchemaAssumption DEF Keywords
<1>1. \A k \in Keys : ~HasKind(f, k, "arr")
  BY DEF HasKind
<1>2. SimplifyCombinator(f, "anyOf") = f /\ SimplifyCombinator(f, "oneOf") = f
  BY <1>0, <1>1 DEF SimplifyCombinator
<1>3. NormalizeType(f) = f /\ NormalizeEnum(f) = f
  BY <1>0, <1>1 DEF NormalizeType, NormalizeEnum
<1>4. DropNullConst(f) = f
  <2>1. Null # Missing /\ Kind(Null) = "null"
    <3>1. Null \in Json /\ Missing \notin Json
      BY SchemaAssumption, InJson DEF Json
    <3> QED BY <3>1 DEF Null, Kind
  <2> QED BY <1>0, <2>1 DEF DropNullConst, Has
<1> QED BY <1>2, <1>3, <1>4 DEF PostPasses

\* A schema is only widened, given what its parts become and which of them are.
NextWidens(n, h, w) ==
  LET f == Content(n)
      g == Descend(f, h)
  IN Kind(n) = "obj" =>
       /\ g["const"] = f["const"] /\ g["not"] = f["not"]
       /\ ~Uncovers(g, "anyOf") /\ ~Uncovers(SimplifyCombinator(g, "anyOf"), "oneOf")
       /\ \A k \in Keys \ Skipped : Has(f, k) => w[f[k]]

\* Which schemas are only widened is what its recursion says.
LEMMA WidensDef ==
  \A d \in 1..MaxDepth : \A n \in Json :
    Widens[d][n] <=> NextWidens(n, Normals[d - 1], Widens[d - 1])
<1> DEFINE N == MaxDepth
           T == [Json -> BOOLEAN]
           first == [n \in Json |-> TRUE]
           next(d, w) == [n \in Json |-> NextWidens(n, Normals[d - 1], w)]
           step == [s \in (1..N) \X T |-> next(s[1], s[2])]
<1>0. N \in Nat
  BY SchemaAssumption
<1>1. first \in T
  OBVIOUS
<1>2. ASSUME NEW d, NEW w PROVE next(d, w) \in T
  <2>1. \A n \in Json : NextWidens(n, Normals[d - 1], w) \in BOOLEAN
    BY DEF NextWidens
  <2> QED BY <2>1
<1>3. \A d \in 1..N, w \in T : step[<<d, w>>] = next(d, w)
  OBVIOUS
<1>4. step \in Steps(N, T)
  BY <1>2 DEF Steps
<1> HIDE DEF step, N, first, T
<1>5. PICK f \in [0..N -> T] : f[0] = first /\ \A d \in 1..N : f[d] = step[<<d, f[d - 1]>>]
  <2>1. \E f : Iterates(f, N, T, first, step)
    BY <1>0, <1>1, <1>4, Recursion
  <2> QED BY <2>1 DEF Iterates
<1>6. ASSUME NEW d \in 1..N PROVE f[d] = next(d, f[d - 1])
  <2>1. f[d - 1] \in T
    BY <1>0
  <2> HIDE DEF next
  <2> QED BY <2>1, <1>3, <1>5
<1> DEFINE row(d, w) == [n \in Json |->
             LET c == Content(n)
                 g == Descend(c, Normals[d - 1])
             IN Kind(n) = "obj" /\ d > 0 =>
                  /\ g["const"] = c["const"] /\ g["not"] = c["not"]
                  /\ ~Uncovers(g, "anyOf") /\ ~Uncovers(SimplifyCombinator(g, "anyOf"), "oneOf")
                  /\ \A k \in Keys \ Skipped : Has(c, k) => w[c[k]]]
           Is(h) == h = [d \in 0..N |-> row(d, h[d - 1])]
<1>7. ASSUME NEW d \in 1..N, NEW w PROVE next(d, w) = row(d, w)
  <2>1. d > 0
    BY <1>0
  <2>2. ASSUME NEW n \in Json
        PROVE  NextWidens(n, Normals[d - 1], w) = row(d, w)[n]
    BY <2>1 DEF NextWidens
  <2> HIDE DEF row
  <2>3. row(d, w) = [n \in Json |-> row(d, w)[n]]
    BY DEF row
  <2> QED BY <2>2, <2>3
<1>8. ASSUME NEW w PROVE first = row(0, w)
  <2>0. ~(0 > 0)
    OBVIOUS
  <2>1. ASSUME NEW n \in Json PROVE row(0, w)[n] = TRUE
    <3> DEFINE holds == LET c == Content(n)
                            g == Descend(c, Normals[0 - 1])
                        IN /\ g["const"] = c["const"] /\ g["not"] = c["not"]
                           /\ ~Uncovers(g, "anyOf") /\ ~Uncovers(SimplifyCombinator(g, "anyOf"), "oneOf")
                           /\ \A k \in Keys \ Skipped : Has(c, k) => w[c[k]]
    <3>1. row(0, w)[n] = (Kind(n) = "obj" /\ 0 > 0 => holds)
      OBVIOUS
    <3> HIDE DEF holds, row
    <3> QED BY <2>0, <3>1
  <2>2. row(0, w) = [n \in Json |-> row(0, w)[n]]
    OBVIOUS
  <2> HIDE DEF row
  <2> QED BY <2>1, <2>2 DEF first
<1> HIDE DEF row, next
<1>9. \A d \in 0..N : f[d] = row(d, f[d - 1])
  <2>1. \A d \in 0..N : d = 0 \/ d \in 1..N
    BY <1>0
  <2> QED BY <2>1, <1>5, <1>6, <1>7, <1>8
<1>10. Is(f)
  <2>1. f = [d \in 0..N |-> f[d]]
    OBVIOUS
  <2> QED BY <2>1, <1>9
<1>11. Widens = CHOOSE h : Is(h)
  BY DEF Widens, N, row
<1>12. Is(Widens)
  <2> HIDE DEF Is
  <2> QED BY <1>10, <1>11
<1>13. ASSUME NEW d \in 1..N, NEW n \in Json
       PROVE  Widens[d][n] <=> NextWidens(n, Normals[d - 1], Widens[d - 1])
  <2>1. d \in 0..N
    BY <1>0
  <2>2. Widens[d] = row(d, Widens[d - 1])
    BY <2>1, <1>12
  <2>3. Widens[d] = next(d, Widens[d - 1])
    BY <2>2, <1>7
  <2> QED BY <2>3 DEF next
<1> QED BY <1>13 DEF N

\* What schemas accept, they accept normalised, if they are only widened.
Broad(d) ==
  \A n \in Json, v \in Arguments :
    Verdict[<<n, v>>] /\ (d > 0 => Widens[d][n]) => Verdict[<<Normals[d][n], v>>]

\* Only objects are changed.
LEMMA SameUnlessObject ==
  ASSUME NEW d \in 0..MaxDepth, NEW n \in Json, Kind(n) # "obj"
  PROVE  Normals[d][n] = n
<1>1. d = 0 \/ d \in 1..MaxDepth
  BY SchemaAssumption
<1> QED BY <1>1, NormalsDef DEF NextNormal

\* An object normalised is an object.
LEMMA StillObject ==
  ASSUME NEW d \in 0..MaxDepth, NEW n \in Json, Kind(n) = "obj"
  PROVE  Kind(Normals[d][n]) = "obj"
<1>1. d = 0 \/ d \in 1..MaxDepth
  BY SchemaAssumption
<1>2. d = 0 => Normals[d][n] = n
  BY NormalsDef
<1>3. d \in 1..MaxDepth => Normals[d][n] = NextNormal(n, Normals[d - 1])
  BY NormalsDef
<1> QED BY <1>1, <1>2, <1>3 DEF NextNormal, Obj, Kind

\* The properties of a schema, normalised, have the same names and allow what
\* they allowed before.
LEMMA PropertiesAllow ==
  ASSUME NEW d \in 1..MaxDepth, d > 1 => Broad(d - 2), NEW l \in 0..Nesting, NEW x \in Layers[l],
         d > 1 => Widens[d - 1][x],
         NEW v \in Arguments, Kind(v) = "obj", NEW exempt, Allows("properties", x, exempt, v, Verdict)
  PROVE  LET y == Normals[d - 1][x]
         IN /\ \A any : Allows("properties", y, any, v, Verdict)
            /\ Kind(x) = "obj" /\ Kind(y) = "obj" /\ \A p \in Keys : Has(Content(y), p) <=> Has(Content(x), p)
<1>0. d - 1 \in 0..MaxDepth /\ x \in Json /\ (d = 1 \/ (d - 1 \in 1..MaxDepth /\ d - 2 \in 0..MaxDepth))
  BY InJson, SchemaAssumption
<1> DEFINE f == Content(x)
           g == Descend(f, Normals[d - 2])
<1>1. /\ Kind(x) = "obj"
      /\ \A p \in Keys : Has(f, p) =>
           IsSchema(f[p]) /\ (Has(Content(v), p) => Verdict[<<f[p], Content(v)[p]>>])
  BY DEF Allows
<1>2. CASE d = 1
  <2>1. Normals[d - 1][x] = x
    BY <1>0, <1>2, NormalsDef
  <2>2. \A any : Allows("properties", x, any, v, Verdict)
    BY DEF Allows
  <2> QED BY <1>1, <2>1, <2>2
<1>3. CASE d # 1
  <2>2. l - 1 \in 0..Nesting /\ f \in Objects(l - 1)
    BY <1>1, Parts
  <2>3. \A p \in Keys : Has(f, p) => f[p] \in Layers[l - 1] /\ f[p] \in Json
    BY <2>2, InJson DEF Objects, Has
  <2>4. (d - 1) - 1 = d - 2 /\ d - 1 \in 1..MaxDepth /\ d - 2 \in 0..MaxDepth /\ d > 1
    BY <1>0, <1>3
  <2>5. Normals[d - 2] \in Keeping
    BY <2>4, NormalsDef
  <2>6. Normals[d - 1][x] = Obj(PostPasses(g))
    <3>1. Normals[d - 1][x] = NextNormal(x, Normals[(d - 1) - 1])
      BY <1>0, <2>4, NormalsDef
    <3> QED BY <3>1, <1>1, <2>4 DEF NextNormal
  <2>7. g \in Objects(l - 1)
    BY <2>2, <2>5, DescendKeeps
  <2>14. \A p \in Keys \ Skipped : Has(f, p) => Widens[d - 2][f[p]]
    <3>1. Widens[d - 1][x] <=> NextWidens(x, Normals[(d - 1) - 1], Widens[(d - 1) - 1])
      BY <1>0, <2>4, WidensDef
    <3>2. NextWidens(x, Normals[d - 2], Widens[d - 2])
      BY <2>4, <3>1
    <3> QED BY <1>1, <3>2 DEF NextWidens
  <2>15. ASSUME NEW p \in Keys PROVE Has(g, p) <=> Has(f, p)
    <3>1. Has(f, p) => Normals[d - 2][f[p]] # Missing
      BY <2>3, <2>5, SchemaAssumption DEF Keeping
    <3>2. g[p] = IF Has(f, p) /\ p \notin Skipped THEN Normals[d - 2][f[p]] ELSE f[p]
      BY DEF Descend
    <3> QED BY <3>1, <3>2 DEF Has
  <2>8. ASSUME NEW p \in Keys, Has(g, p)
        PROVE  Has(f, p) /\ (g[p] = f[p] \/ (p \notin Skipped /\ g[p] = Normals[d - 2][f[p]]))
    BY <2>8, <2>15 DEF Descend
  <2> HIDE DEF f, g
  <2>9. ASSUME NEW p \in Keys, Has(g, p) PROVE Kind(g[p]) \in {"obj", "bool"}
    <3>1. Has(f, p) /\ Kind(f[p]) \in {"obj", "bool"} /\ f[p] \in Json
      BY <1>1, <2>3, <2>8, <2>9 DEF IsSchema
    <3>2. CASE g[p] = Normals[d - 2][f[p]]
      BY <2>4, <3>1, <3>2, SameUnlessObject, StillObject
    <3> QED BY <2>8, <2>9, <3>1, <3>2
  <2>10. ASSUME NEW p \in Keys, Has(g, p), Has(Content(v), p) PROVE Verdict[<<g[p], Content(v)[p]>>]
    <3>1. Has(f, p) /\ Verdict[<<f[p], Content(v)[p]>>] /\ f[p] \in Json
      BY <1>1, <2>3, <2>8, <2>10
    <3>2. Content(v)[p] \in Arguments
      BY <2>10, ArgumentsAssumption
    <3>3. Broad(d - 2)
      BY <2>4
    <3>4. p \notin Skipped => Verdict[<<Normals[d - 2][f[p]], Content(v)[p]>>]
      BY <2>14, <3>1, <3>2, <3>3 DEF Broad
    <3> QED BY <2>8, <2>10, <3>1, <3>4
  <2>11. PostPasses(g) = g
    BY <2>2, <2>7, <2>9, SchemasUnchanged
  <2> DEFINE y == Obj(g)
  <2>12. Normals[d - 1][x] = y /\ Kind(y) = "obj" /\ Content(y) = g
    BY <2>6, <2>11 DEF Obj, Kind, Content
  <2> HIDE DEF y
  <2>13. \A any : Allows("properties", y, any, v, Verdict)
    BY <2>9, <2>10, <2>12 DEF Allows, IsSchema
  <2> QED BY <1>1, <2>12, <2>13, <2>15 DEF f
<1> QED BY <1>2, <1>3

\* The keywords of a schema, their objects normalised, allow what they allowed
\* before: alternatives are arrays, which are not entered, and constants and
\* negated schemas are as they were.
LEMMA DescendAllows ==
  ASSUME NEW d \in 1..MaxDepth, d > 1 => Broad(d - 2), Broad(d - 1),
         NEW l \in 0..Nesting, NEW f \in Objects(l), NEW v \in Arguments, OK(f, v),
         NextWidens(Obj(f), Normals[d - 1], Widens[d - 1])
  PROVE  OK(Descend(f, Normals[d - 1]), v)
<1> DEFINE h == Normals[d - 1]
           w == Widens[d - 1]
           g == Descend(f, h)
<1>0. d - 1 \in 0..MaxDepth /\ (d > 1 <=> d - 1 > 0)
  BY SchemaAssumption
<1>00. Keywords \subseteq Keys
  BY SchemaAssumption
<1>1. ASSUME NEW k \in Keys
      PROVE  /\ Has(f, k) => f[k] \in Layers[l] /\ f[k] \in Json
             /\ g[k] = IF Has(f, k) /\ k \notin Skipped THEN h[f[k]] ELSE f[k]
  <2>1. Has(f, k) => f[k] \in Layers[l] /\ f[k] \in Json
    BY InJson DEF Objects, Has
  <2> QED BY <2>1 DEF Descend
<1>2. g["const"] = f["const"] /\ g["not"] = f["not"] /\ \A k \in Keys \ Skipped : Has(f, k) => w[f[k]]
  BY DEF NextWidens, Obj, Kind, Content
<1>3. Keywords \cap Skipped = {}
  BY DEF Keywords, Skipped
<1> HIDE DEF g
<1>4. Kind(v) = "obj" => Exempt(g) = Exempt(f)
  <2> DEFINE x == f["properties"]
  <2>0. "properties" \in Keys /\ "properties" \notin Skipped
    BY <1>00, <1>3 DEF Keywords
  <2>1. CASE Has(f, "properties") /\ Kind(v) = "obj"
    <3>1. x \in Layers[l] /\ Allows("properties", x, Exempt(f), v, Verdict) /\ (d > 1 => Widens[d - 1][x])
      BY <1>1, <1>2, <2>0, <2>1 DEF OK, AllAllow
    <3>2. g["properties"] = h[x]
      BY <1>1, <2>0, <2>1
    <3> DEFINE y == h[x]
    <3>3. Kind(x) = "obj" /\ Kind(y) = "obj" /\ \A p \in Keys : Has(Content(y), p) <=> Has(Content(x), p)
      BY <2>1, <3>1, PropertiesAllow
    <3>4. y # Missing
      <4>1. Normals[d - 1] \in Keeping
        BY <1>0, NormalsDef
      <4> QED BY <4>1, <1>1, <2>0, <2>1, SchemaAssumption DEF Keeping
    <3> HIDE DEF y
    <3> QED BY <2>1, <3>2, <3>3, <3>4 DEF Exempt, HasKind, Has, y
  <2>2. CASE ~Has(f, "properties")
    BY <1>1, <2>0, <2>2, SameExempt
  <2> QED BY <2>1, <2>2
<1>5. ASSUME NEW k \in Keys \ Skipped, Has(f, k), g[k] # f[k] PROVE Allows(k, g[k], Exempt(g), v, Verdict)
  <2>0. /\ f[k] \in Layers[l] /\ f[k] \in Json /\ Allows(k, f[k], Exempt(f), v, Verdict)
        /\ g[k] = h[f[k]] /\ w[f[k]]
    BY <1>1, <1>2, <1>5 DEF OK, AllAllow
  <2> HIDE DEF w
  <2>1. Kind(f[k]) = "obj"
    BY <1>0, <1>5, <2>0, SameUnlessObject
  <2> DEFINE y == g[k]
  <2>2. Kind(y) = "obj"
    BY <1>0, <2>0, <2>1, StillObject
  <2>3. ASSUME NEW u \in Arguments, Verdict[<<f[k], u>>] PROVE Verdict[<<y, u>>]
    BY <2>0, <2>3 DEF Broad, w
  <2> HIDE DEF y
  <2>4. CASE k \in {"type", "enum", "anyOf", "oneOf"}
    BY <2>0, <2>1, <2>4 DEF Allows
  <2>5. CASE k \in {"const", "not"}
    BY <1>2, <1>5, <2>5
  <2>6. CASE k = "properties"
    <3>1. CASE Kind(v) = "obj"
      <4>1. d > 1 => Widens[d - 1][f[k]]
        BY <2>0 DEF w
      <4> QED BY <2>0, <2>6, <3>1, <4>1, PropertiesAllow
    <3>2. CASE Kind(v) # "obj"
      BY <2>6, <3>2 DEF Allows
    <3> QED BY <3>1, <3>2
  <2>7. CASE k = "items"
    <3>1. ASSUME Kind(v) = "arr", NEW i \in 1..Len(Content(v)) PROVE Verdict[<<y, Content(v)[i]>>]
      <4>1. Verdict[<<f[k], Content(v)[i]>>] /\ Content(v)[i] \in Arguments
        BY <2>0, <2>7, <3>1, ArgumentsAssumption DEF Allows
      <4> QED BY <2>3, <4>1
    <3> QED BY <2>2, <2>7, <3>1 DEF Allows, IsSchema, y
  <2>8. CASE k = "additionalProperties"
    <3>1. ASSUME Kind(v) = "obj", NEW p \in Keys \ Exempt(g), Has(Content(v), p)
          PROVE  Verdict[<<y, Content(v)[p]>>]
      <4>1. Verdict[<<f[k], Content(v)[p]>>] /\ Content(v)[p] \in Arguments
        BY <1>4, <2>0, <2>8, <3>1, ArgumentsAssumption DEF Allows
      <4> QED BY <2>3, <4>1
    <3> QED BY <2>2, <2>8, <3>1 DEF Allows, IsSchema, y
  <2>9. CASE k \notin Keywords
    BY <2>2, <2>9 DEF Allows, Keywords, y
  <2> QED BY <2>4, <2>5, <2>6, <2>7, <2>8, <2>9 DEF Keywords
<1>6. ASSUME NEW k \in Keys, Has(g, k) PROVE Allows(k, g[k], Exempt(g), v, Verdict)
  <2>1. CASE g[k] = f[k]
    <3>1. Allows(k, f[k], Exempt(f), v, Verdict)
      BY <1>6, <2>1 DEF OK, AllAllow, Has
    <3>2. CASE k # "additionalProperties"
      BY <2>1, <3>1, <3>2 DEF Allows
    <3>3. CASE k = "additionalProperties"
      BY <1>4, <2>1, <3>1, <3>3 DEF Allows
    <3> QED BY <3>2, <3>3
  <2>2. CASE g[k] # f[k]
    <3>1. Has(f, k) /\ k \notin Skipped
      BY <1>1, <2>2
    <3> QED BY <1>5, <2>2, <3>1
  <2> QED BY <2>1, <2>2
<1> HIDE DEF h
<1>7. OK(g, v)
  BY <1>6 DEF OK, AllAllow
<1> QED BY <1>7 DEF g, h

\* Normalisation, as deep as it goes, takes no argument from a schema that is
\* only widened.
LEMMA NeverNarrows ==
  \A d \in 0..MaxDepth : Broad(d)
<1> DEFINE S == {d \in 0..MaxDepth : \A e \in 0..d : Broad(e)}
<1>0. MaxDepth \in Nat
  BY SchemaAssumption
<1>1. 0 \in S
  BY <1>0, NormalsDef DEF Broad
<1>2. ASSUME NEW d \in 1..MaxDepth, d - 1 \in S PROVE d \in S
  <2>0. d \in 0..MaxDepth /\ d - 1 \in 0..MaxDepth /\ d > 0 /\ d - 1 \in 0..d - 1 /\ (d > 1 => d - 2 \in 0..d - 1)
    BY <1>0
  <2>1. \A e \in 0..d - 1 : Broad(e)
    BY <1>2
  <2>2. Broad(d - 1) /\ (d > 1 => Broad(d - 2))
    BY <2>0, <2>1
  <2>3. ASSUME NEW n \in Json, NEW v \in Arguments, Verdict[<<n, v>>], Widens[d][n]
        PROVE  Verdict[<<Normals[d][n], v>>]
    <3>1. CASE Kind(n) # "obj"
      BY <2>0, <2>3, <3>1, SameUnlessObject
    <3>2. CASE Kind(n) = "obj"
      <4> DEFINE f == Content(n)
                 g == Descend(f, Normals[d - 1])
                 m == Obj(PostPasses(g))
      <4>1. Nesting \in 0..Nesting /\ n \in Layers[Nesting]
        BY SchemaAssumption DEF Json
      <4>2. Nesting - 1 \in 0..Nesting /\ f \in Objects(Nesting - 1) /\ n = Obj(f)
        BY <3>2, <4>1, Parts
      <4>3. OK(f, v)
        BY <2>3, <3>2, AcceptsDef DEF OK
      <4>4. Normals[d - 1] \in Keeping
        BY <2>0, NormalsDef
      <4>5. NextWidens(Obj(f), Normals[d - 1], Widens[d - 1])
        BY <2>3, <4>2, WidensDef
      <4>6. ~Uncovers(g, "anyOf") /\ ~Uncovers(SimplifyCombinator(g, "anyOf"), "oneOf")
        BY <4>5 DEF NextWidens, Obj, Kind, Content
      <4> HIDE DEF f
      <4>7. g \in Objects(Nesting - 1) /\ OK(g, v)
        BY <2>2, <4>2, <4>3, <4>4, <4>5, DescendKeeps, DescendAllows
      <4>8. Normals[d][n] = m
        <5>1. Normals[d][n] = NextNormal(n, Normals[d - 1])
          BY NormalsDef
        <5> QED BY <5>1, <3>2 DEF NextNormal, f
      <4> HIDE DEF g
      <4>9. PostPasses(g) \in Objects(Nesting - 1) /\ OK(PostPasses(g), v)
        BY <4>2, <4>6, <4>7, PassesKeep, PassesAllow
      <4>10. m \in Json /\ Kind(m) = "obj" /\ Content(m) = PostPasses(g)
        BY <4>1, <4>2, <4>9, Composed DEF Json, Obj, Kind, Content
      <4> HIDE DEF m
      <4>11. Verdict[<<m, v>>]
        BY <4>9, <4>10, AcceptsDef DEF OK
      <4> QED BY <4>8, <4>11
    <3> QED BY <3>1, <3>2
  <2>4. Broad(d)
    BY <2>0, <2>3 DEF Broad
  <2>5. \A e \in 0..d : e \in 0..d - 1 \/ e = d
    BY <1>0
  <2>6. \A e \in 0..d : Broad(e)
    BY <2>1, <2>4, <2>5
  <2> QED BY <2>0, <2>6
<1>3. \A d \in 0..MaxDepth : d \in S
  <2> HIDE DEF S
  <2> QED BY <1>0, <1>1, <1>2, Induct
<1>4. \A d \in 0..MaxDepth : d \in 0..d
  BY <1>0
<1> QED BY <1>3, <1>4

\* Whatever the keys, the values and the depth, the normalised schemas of a
\* request accept all arguments that its schemas accept, but for those with one
\* of the two places at which the code narrows (schema_norm.rs).
THEOREM NeverIsNarrower == Spec => []NeverNarrower
<1>1. IInv => NeverNarrower
  <2> SUFFICES ASSUME IInv, NEW i \in DOMAIN request.tools, OnlyWidens(request.tools[i]),
                      NEW v \in Arguments, Accepts(request.tools[i], v)
               PROVE  Accepts(request.sent[i], v)
    BY DEF NeverNarrower
  <2>1. CASE request = NoRequest
    BY <2>1 DEF NoRequest
  <2>2. CASE \E t \in Tools : request = [tools |-> t, sent |-> NormalizeTools(t)]
    <3>1. PICK t \in Tools : request = [tools |-> t, sent |-> NormalizeTools(t)]
      BY <2>2
    <3>2. t \in Seq(Json) /\ i \in DOMAIN t
      BY <3>1, TransformsAssumption
    <3>3. t[i] \in Json /\ Verdict[<<t[i], v>>] /\ Widens[MaxDepth][t[i]]
      BY <3>1, <3>2 DEF Accepts, Verdict, OnlyWidens
    <3>4. MaxDepth \in 0..MaxDepth
      BY SchemaAssumption
    <3>5. request.sent[i] = t[i] \/ request.sent[i] = Normals[MaxDepth][t[i]]
      BY <3>1, <3>2 DEF NormalizeTools, Normalize
    <3>6. Verdict[<<Normals[MaxDepth][t[i]], v>>]
      BY <3>3, <3>4, NeverNarrows DEF Broad
    <3> QED BY <3>3, <3>5, <3>6 DEF Accepts, Verdict
  <2> QED BY <2>1, <2>2 DEF IInv, RequestInv
<1> QED BY <1>1, Invariance, PTL
=============================================================================
