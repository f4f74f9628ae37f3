----------------------------- MODULE GateProofs -----------------------------
(* Proofs about Gate, for every set of requests, of resizes and of limits. *)
EXTENDS Gate, SequencesExt, SequenceTheorems, FiniteSetTheorems, TLAPS

\* RemoveAt drops one element and keeps the order of the others.
LEMMA RemoveAtFacts ==
  ASSUME NEW T, NEW s \in Seq(T), NEW i \in DOMAIN s
  PROVE  /\ RemoveAt(s, i) \in Seq(T)
         /\ Len(RemoveAt(s, i)) = Len(s) - 1
         /\ \A j \in 1..Len(s) - 1 :
              RemoveAt(s, i)[j] = IF j < i THEN s[j] ELSE s[j + 1]
<1> DEFINE a == SubSeq(s, 1, i - 1)
           b == SubSeq(s, i + 1, Len(s))
<1>0. i \in 1..Len(s) /\ Len(s) \in Nat /\ \A j \in 1..Len(s) : s[j] \in T
  BY LenProperties, ElementOfSeq
<1>1. a \in Seq(T) /\ Len(a) = i - 1 /\ \A j \in 1..i - 1 : a[j] = s[j]
  BY <1>0, SubSeqProperties
<1>2. b \in Seq(T) /\ Len(b) = Len(s) - i /\ \A j \in 1..Len(s) - i : b[j] = s[i + j]
  BY <1>0, SubSeqProperties
<1>3. RemoveAt(s, i) = a \o b
  BY DEF RemoveAt
<1> HIDE DEF a, b
<1>4. /\ a \o b \in Seq(T) /\ Len(a \o b) = Len(a) + Len(b)
      /\ \A j \in 1..Len(a) + Len(b) : (a \o b)[j] = IF j <= Len(a) THEN a[j] ELSE b[j - Len(a)]
  BY <1>1, <1>2, ConcatProperties
<1>5. ASSUME NEW j \in 1..Len(s) - 1 PROVE (a \o b)[j] = IF j < i THEN s[j] ELSE s[j + 1]
  <2>1. \/ j < i /\ j <= Len(a) /\ j \in 1..i - 1
        \/ ~(j < i) /\ ~(j <= Len(a)) /\ j - Len(a) \in 1..Len(s) - i /\ i + (j - Len(a)) = j + 1
    BY <1>0, <1>1
  <2>2. j \in 1..Len(a) + Len(b)
    BY <1>0, <1>1, <1>2
  <2> QED BY <2>1, <2>2, <1>1, <1>2, <1>4
<1>6. Len(a \o b) = Len(s) - 1
  BY <1>0, <1>1, <1>2, <1>4
<1> QED BY <1>3, <1>4, <1>5, <1>6

-----------------------------------------------------------------------------
(* The semaphore: what each of its operations does to the set of pending   *)
(* tasks and to the number of permits in existence.  H stands for the      *)
(* tasks that hold a permit besides the ones in `handed`.                  *)

\* Taking an available permit.
LEMMA TakePermitFacts ==
  ASSUME NEW T, SemInv(T), TakePermit
  PROVE  SemInv(T)' /\ permits' = permits - 1 /\ permits > 0
BY DEF SemInv, SemTypeOK, TakePermit, Waiting

\* Joining the queue.
LEMMA EnqueueFacts ==
  ASSUME NEW T, NEW t \in T, SemInv(T), Enqueue(t), t \notin Waiting \cup handed
  PROVE  SemInv(T)' /\ Waiting' = Waiting \cup {t}
<1>1. /\ waiters' \in Seq(T) /\ Len(waiters') = Len(waiters) + 1
      /\ Len(waiters) \in Nat
      /\ DOMAIN waiters = 1..Len(waiters)
      /\ DOMAIN waiters' = 1..Len(waiters) + 1
      /\ \A i \in 1..Len(waiters) : waiters'[i] = waiters[i]
      /\ waiters'[Len(waiters) + 1] = t
  BY AppendProperties, LenProperties DEF Enqueue, SemInv, SemTypeOK
<1>2. Waiting' = Waiting \cup {t}
  BY <1>1 DEF Waiting
<1>3. \A i, j \in DOMAIN waiters' : waiters'[i] = waiters'[j] => i = j
  BY <1>1 DEF SemInv, Waiting
<1>. QED  BY <1>1, <1>2, <1>3 DEF Enqueue, SemInv, SemTypeOK

\* Being polled with the permit that was handed over.
LEMMA CollectFacts ==
  ASSUME NEW T, SemInv(T), NEW t, Collect(t)
  PROVE  /\ SemInv(T)' /\ t \in handed /\ t \notin Waiting
         /\ Waiting' = Waiting /\ handed' = handed \ {t} /\ permits' = permits
BY DEF SemInv, SemTypeOK, Collect, Waiting

\* Leaving the queue, from any place in it.
LEMMA WithdrawFacts ==
  ASSUME NEW T, SemInv(T), NEW t, Withdraw(t)
  PROVE  /\ SemInv(T)' /\ t \in Waiting /\ t \notin handed
         /\ Waiting' = Waiting \ {t} /\ handed' = handed /\ permits' = permits
<1>1. PICK i \in DOMAIN waiters :
        waiters[i] = t /\ waiters' = RemoveAt(waiters, i)
  BY DEF Withdraw
<1>2. /\ waiters \in Seq(T) /\ Len(waiters) \in Nat
      /\ DOMAIN waiters = 1..Len(waiters)
      /\ waiters' \in Seq(T) /\ Len(waiters') = Len(waiters) - 1
      /\ DOMAIN waiters' = 1..Len(waiters) - 1
      /\ \A j \in 1..Len(waiters) - 1 :
           waiters'[j] = IF j < i THEN waiters[j] ELSE waiters[j + 1]
  BY <1>1, RemoveAtFacts, LenProperties DEF SemInv, SemTypeOK
<1>3. \A j, k \in DOMAIN waiters : waiters[j] = waiters[k] => j = k
  BY DEF SemInv
<1>4. \A j, k \in DOMAIN waiters' : waiters'[j] = waiters'[k] => j = k
  <2>1. SUFFICES ASSUME NEW j \in 1..Len(waiters) - 1,
                        NEW k \in 1..Len(waiters) - 1,
                        waiters'[j] = waiters'[k]
                 PROVE  j = k
    BY <1>2
  <2>. DEFINE old(n) == IF n < i THEN n ELSE n + 1
  <2>2. /\ old(j) \in DOMAIN waiters /\ old(k) \in DOMAIN waiters
        /\ waiters'[j] = waiters[old(j)] /\ waiters'[k] = waiters[old(k)]
    BY <1>2
  <2>3. old(j) = old(k)
    BY <2>1, <2>2, <1>3
  <2>. QED  BY <2>3, <1>2
<1>5. Waiting' = Waiting \ {t}
  <2>1. ASSUME NEW x \in Waiting' PROVE x \in Waiting \ {t}
    <3>1. PICK j \in 1..Len(waiters) - 1 : x = waiters'[j]
      BY <2>1, <1>2 DEF Waiting
    <3>2. PICK k \in DOMAIN waiters : k # i /\ x = waiters[k]
      BY <3>1, <1>2
    <3>. QED  BY <3>2, <1>1, <1>3 DEF Waiting
  <2>2. ASSUME NEW x \in Waiting \ {t} PROVE x \in Waiting'
    <3>1. PICK k \in DOMAIN waiters : x = waiters[k] /\ k # i
      BY <2>2, <1>1 DEF Waiting
    <3>2. CASE k < i
      BY <3>1, <3>2, <1>2 DEF Waiting
    <3>3. CASE k > i
      <4>1. k - 1 \in 1..Len(waiters) - 1 /\ waiters'[k - 1] = waiters[k]
        BY <3>3, <1>2
      <4>. QED  BY <4>1, <3>1, <1>2 DEF Waiting
    <3>. QED  BY <3>1, <3>2, <3>3, <1>2
  <2>. QED  BY <2>1, <2>2
<1>6. permits > 0 => waiters' = <<>>
  BY <1>1, <1>2 DEF SemInv
<1>. QED
  BY <1>1, <1>2, <1>4, <1>5, <1>6 DEF Withdraw, SemInv, SemTypeOK, Waiting

\* Releasing n permits: the head of the queue gets them first, and n permits
\* more are in existence afterwards.
LEMMA AddPermitsFacts ==
  ASSUME NEW T, IsFiniteSet(T), SemInv(T), NEW n \in Nat, AddPermits(n),
         NEW H, IsFiniteSet(H), H \cap Waiting = {}
  PROVE  /\ SemInv(T)'
         /\ Waiting' \cup handed' = Waiting \cup handed
         /\ handed \subseteq handed'
         /\ permits' + Cardinality(handed' \cup H)
              = permits + n + Cardinality(handed \cup H)
<1> DEFINE k == HandOff(n)
           served == {waiters[i] : i \in 1..k}
<1>1. /\ waiters \in Seq(T) /\ Len(waiters) \in Nat
      /\ DOMAIN waiters = 1..Len(waiters)
      /\ k \in 0..Len(waiters) /\ k <= n
  BY LenProperties DEF SemInv, SemTypeOK, HandOff
<1>2. /\ waiters' \in Seq(T)
      /\ Len(waiters') = Len(waiters) - k
      /\ DOMAIN waiters' = 1..Len(waiters) - k
      /\ \A i \in 1..Len(waiters) - k : waiters'[i] = waiters[k + i]
  <2>1. waiters' = SubSeq(waiters, k + 1, Len(waiters))
    BY DEF AddPermits
  <2>2. \A i \in k + 1..Len(waiters) : waiters[i] \in T
    BY <1>1, ElementOfSeq
  <2>3. /\ waiters' \in Seq(T)
        /\ Len(waiters') = IF k + 1 <= Len(waiters)
                             THEN Len(waiters) - (k + 1) + 1 ELSE 0
        /\ \A i \in 1..Len(waiters) - (k + 1) + 1 :
             waiters'[i] = waiters[k + 1 + i - 1]
    <3>. HIDE DEF k
    <3>. QED  BY <1>1, <2>1, <2>2, SubSeqProperties
  <2>. HIDE DEF k
  <2>4. Len(waiters') = Len(waiters) - k
    <3>1. CASE k + 1 <= Len(waiters)
      BY <3>1, <1>1, <2>3
    <3>2. CASE ~(k + 1 <= Len(waiters))
      <4>. DEFINE L == Len(waiters)
      <4>3. L \in Nat /\ k \in 0..L /\ ~(k + 1 <= L)
        BY <3>2, <1>1
      <4>. HIDE DEF L
      <4>4. k = L
        BY <4>3
      <4>1. k = Len(waiters)
        BY <4>4 DEF L
      <4>2. Len(waiters') = 0
        BY <3>2, <2>3
      <4>. QED  BY <4>1, <4>2, <1>1
    <3>. QED  BY <3>1, <3>2
  <2>5. ASSUME NEW i \in 1..Len(waiters) - k
        PROVE  waiters'[i] = waiters[k + i]
    <3>1. i \in 1..Len(waiters) - (k + 1) + 1 /\ k + 1 + i - 1 = k + i
      BY <1>1
    <3>2. waiters'[i] = waiters[k + 1 + i - 1]
      BY <3>1, <2>3
    <3>. QED  BY <3>1, <3>2
  <2>6. DOMAIN waiters' = 1..Len(waiters')
    BY <2>3, LenProperties
  <2>. QED  BY <2>3, <2>4, <2>5, <2>6
<1>3. /\ permits' = permits + (n - k) /\ handed' = handed \cup served
      /\ permits \in Nat /\ handed \subseteq T
      /\ \A i, j \in 1..Len(waiters) : waiters[i] = waiters[j] => i = j
      /\ Waiting \cap handed = {}
      /\ permits > 0 => waiters = <<>>
  BY <1>1 DEF AddPermits, SemInv, SemTypeOK
<1>4. k # Len(waiters) => k = n
  <2>1. CASE n <= Len(waiters)
    BY <2>1 DEF HandOff
  <2>2. CASE ~(n <= Len(waiters))
    BY <2>2 DEF HandOff
  <2>. QED  BY <2>1, <2>2
<1> HIDE DEF k
<1>5. Waiting = Waiting' \cup served /\ Waiting' \cap served = {}
  <2>1. Waiting' \subseteq Waiting /\ served \subseteq Waiting
    <3>1. ASSUME NEW x \in Waiting' PROVE x \in Waiting
      <4>1. PICK i \in 1..Len(waiters) - k : x = waiters[k + i]
        BY <3>1, <1>2 DEF Waiting
      <4>2. k + i \in DOMAIN waiters
        BY <1>1
      <4>. QED  BY <4>1, <4>2 DEF Waiting
    <3>2. \A i \in 1..k : i \in DOMAIN waiters
      BY <1>1
    <3>. QED  BY <3>1, <3>2 DEF Waiting
  <2>2. ASSUME NEW x \in Waiting PROVE x \in Waiting' \cup served
    <3>1. PICK i \in 1..Len(waiters) : x = waiters[i]
      BY <2>2, <1>1 DEF Waiting
    <3>2. CASE i <= k
      BY <3>1, <3>2, <1>1
    <3>3. CASE i > k
      <4>. DEFINE m == i - k
      <4>1. m \in 1..Len(waiters) - k /\ k + m = i
        BY <3>3, <1>1
      <4>. HIDE DEF m
      <4>2. m \in DOMAIN waiters' /\ waiters'[m] = waiters[i]
        BY <4>1, <1>2
      <4>. QED  BY <4>2, <3>1 DEF Waiting
    <3>. QED  BY <3>2, <3>3, <1>1
  <2>3. ASSUME NEW x \in Waiting', x \in served PROVE FALSE
    <3>1. PICK i \in 1..Len(waiters) - k : x = waiters[k + i]
      BY <2>3, <1>2 DEF Waiting
    <3>2. PICK j \in 1..k : x = waiters[j]
      BY <2>3
    <3>3. k + i \in 1..Len(waiters) /\ j \in 1..Len(waiters) /\ k + i # j
      BY <1>1
    <3>. QED  BY <3>1, <3>2, <3>3, <1>3
  <2>. QED  BY <2>1, <2>2, <2>3
<1>6. SemInv(T)'
  <2>1. ASSUME NEW i \in DOMAIN waiters', NEW j \in DOMAIN waiters',
               waiters'[i] = waiters'[j]
        PROVE  i = j
    <3>1. waiters[k + i] = waiters[k + j]
      BY <2>1, <1>2
    <3>2. k + i \in 1..Len(waiters) /\ k + j \in 1..Len(waiters)
      BY <1>1, <1>2
    <3>3. k + i = k + j
      BY <3>1, <3>2, <1>3
    <3>. QED  BY <3>3, <1>1, <1>2
  <2>2. served \subseteq T
    BY <1>1, ElementOfSeq
  <2>3. permits' \in Nat
    BY <1>1, <1>3
  <2>4. permits' > 0 => waiters' = <<>>
    <3>1. CASE waiters = <<>>
      BY <3>1, <1>1, <1>2, EmptySeq
    <3>2. CASE k = Len(waiters)
      BY <3>2, <1>1, <1>2, EmptySeq
    <3>3. CASE waiters # <<>> /\ k # Len(waiters)
      <4>1. k = n /\ permits = 0
        BY <3>3, <1>3, <1>4
      <4>. QED  BY <4>1, <1>3
    <3>. QED  BY <3>1, <3>2, <3>3
  <2>. QED
    BY <1>2, <1>3, <1>5, <2>1, <2>2, <2>3, <2>4 DEF SemInv, SemTypeOK
<1>7. IsFiniteSet(served) /\ Cardinality(served) = k
  <2>. DEFINE f == [i \in 1..k |-> waiters[i]]
  <2>1. f \in Bijection(1..k, served)
    BY <1>1, <1>3 DEF Bijection, Injection, Surjection, IsInjective
  <2>2. IsFiniteSet(1..k) /\ Cardinality(1..k) = k
    BY <1>1, FS_Interval
  <2>. QED  BY <2>1, <2>2, FS_Bijection DEF ExistsBijection
<1>8. IsFiniteSet(handed) /\ IsFiniteSet(handed \cup H)
  BY <1>3, FS_Subset, FS_Union
<1>9. Cardinality(handed' \cup H) = Cardinality(handed \cup H) + k
  <2>1. handed' \cup H = (handed \cup H) \cup served
    BY <1>3
  <2>2. (handed \cup H) \cap served = {}
    BY <1>3, <1>5
  <2>3. Cardinality((handed \cup H) \cap served) = 0
    BY <2>2, FS_EmptySet
  <2>4. Cardinality(handed \cup H) \in Nat
    BY <1>8, FS_CardinalityType
  <2>. HIDE DEF served
  <2>5. Cardinality((handed \cup H) \cup served)
          = Cardinality(handed \cup H) + k - 0
    BY <2>3, <1>7, <1>8, FS_Union
  <2>6. \A m \in Nat : m + k - 0 = m + k
    BY <1>1
  <2>. QED  BY <2>1, <2>4, <2>5, <2>6
<1>10. Cardinality(handed \cup H) \in Nat
  BY <1>8, FS_CardinalityType
<1>. QED  BY <1>1, <1>3, <1>5, <1>6, <1>9, <1>10

\* Giving up a permit that was handed over: it goes to the head of the queue,
\* or is available again, and no permit is lost.
LEMMA PassOnFacts ==
  ASSUME NEW T, IsFiniteSet(T), SemInv(T), NEW t, PassOn(t),
         NEW H, IsFiniteSet(H), H \cap Waiting = {}, t \notin H
  PROVE  /\ SemInv(T)' /\ t \in handed
         /\ Waiting' \cup handed' = (Waiting \cup handed) \ {t}
         /\ permits' + Cardinality(handed' \cup H)
              = permits + Cardinality(handed \cup H)
<1>1. t \in handed /\ t \notin Waiting /\ IsFiniteSet(handed)
  BY FS_Subset DEF PassOn, SemInv, SemTypeOK
<1>2. IsFiniteSet(handed \cup H) /\ Cardinality(handed \cup H) \in Nat
  BY <1>1, FS_Union, FS_CardinalityType
<1>3. /\ IsFiniteSet((handed \cup H) \ {t})
      /\ Cardinality((handed \cup H) \ {t}) = Cardinality(handed \cup H) - 1
  BY <1>1, <1>2, FS_RemoveElement
<1>4. CASE waiters = <<>>
  <2>1. handed' \cup H = (handed \cup H) \ {t}
    BY <1>4 DEF PassOn
  <2>2. /\ permits' = permits + 1 /\ permits \in Nat
        /\ handed' = handed \ {t} /\ waiters' = waiters
    BY <1>4 DEF PassOn, SemInv, SemTypeOK
  <2>3. Waiting' = Waiting
    BY <2>2 DEF Waiting
  <2>4. permits' \in Nat
    BY <2>2
  <2>5. SemInv(T)'
    BY <1>4, <2>2, <2>3, <2>4 DEF SemInv, SemTypeOK
  <2>6. permits' + Cardinality(handed' \cup H)
          = permits + Cardinality(handed \cup H)
    <3>. DEFINE N == Cardinality(handed \cup H)
    <3>1. Cardinality(handed' \cup H) = N - 1 /\ N \in Nat
      BY <1>2, <1>3, <2>1
    <3>. HIDE DEF N
    <3>2. permits' + (N - 1) = permits + N
      BY <2>2, <3>1
    <3>. QED  BY <3>1, <3>2 DEF N
  <2>. QED  BY <1>1, <2>2, <2>3, <2>5, <2>6
<1>5. CASE waiters # <<>>
  <2>. DEFINE h == Head(waiters)
  <2>1. /\ waiters \in Seq(T) /\ Len(waiters) \in Nat \ {0}
        /\ DOMAIN waiters = 1..Len(waiters)
        /\ h = waiters[1] /\ h \in T
        /\ waiters' \in Seq(T) /\ Len(waiters') = Len(waiters) - 1
        /\ DOMAIN waiters' = 1..Len(waiters) - 1
        /\ \A i \in 1..Len(waiters) - 1 : waiters'[i] = waiters[i + 1]
    BY <1>5, HeadTailProperties, LenProperties, EmptySeq
       DEF PassOn, SemInv, SemTypeOK
  <2>2. /\ handed' = (handed \ {t}) \cup {h} /\ permits' = permits
        /\ \A i, j \in 1..Len(waiters) : waiters[i] = waiters[j] => i = j
        /\ Waiting \cap handed = {} /\ permits = 0 /\ handed \subseteq T
    <3>1. permits \in Nat /\ ~(permits > 0)
      BY <1>5 DEF SemInv, SemTypeOK
    <3>2. permits = 0
      BY <3>1
    <3>3. \A i, j \in 1..Len(waiters) : waiters[i] = waiters[j] => i = j
      BY <2>1 DEF SemInv
    <3>4. handed' = (handed \ {t}) \cup {h} /\ permits' = permits
      BY <1>5 DEF PassOn
    <3>. QED  BY <3>2, <3>3, <3>4 DEF SemInv, SemTypeOK
  <2>. HIDE DEF h
  <2>3. h \in Waiting /\ Waiting' = Waiting \ {h}
    <3>1. h \in Waiting
      BY <2>1 DEF Waiting
    <3>2. ASSUME NEW x \in Waiting' PROVE x \in Waiting \ {h}
      <4>1. PICK i \in 1..Len(waiters) - 1 : x = waiters[i + 1]
        BY <3>2, <2>1 DEF Waiting
      <4>. QED  BY <4>1, <2>1, <2>2 DEF Waiting
    <3>3. ASSUME NEW x \in Waiting \ {h} PROVE x \in Waiting'
      <4>1. PICK i \in 1..Len(waiters) : x = waiters[i] /\ i # 1
        BY <3>3, <2>1 DEF Waiting
      <4>. DEFINE m == i - 1
      <4>3. m \in 1..Len(waiters) - 1 /\ m + 1 = i
        BY <4>1, <2>1
      <4>. HIDE DEF m
      <4>2. m \in DOMAIN waiters' /\ waiters'[m] = x
        BY <4>1, <4>3, <2>1
      <4>. QED  BY <4>2 DEF Waiting
    <3>. QED  BY <3>1, <3>2, <3>3
  <2>4. \A i, j \in DOMAIN waiters' : waiters'[i] = waiters'[j] => i = j
    BY <2>1, <2>2
  <2>5. handed' \cup H = ((handed \cup H) \ {t}) \cup {h}
    BY <2>2
  <2>6. Cardinality(handed' \cup H) = Cardinality(handed \cup H)
    <3>1. h \notin (handed \cup H) \ {t}
      BY <2>2, <2>3
    <3>2. Cardinality(handed' \cup H) = Cardinality((handed \cup H) \ {t}) + 1
      BY <1>3, <2>5, <3>1, FS_AddElement
    <3>. QED  BY <1>2, <1>3, <3>2
  <2>7. SemInv(T)'
    BY <2>1, <2>2, <2>3, <2>4 DEF SemInv, SemTypeOK
  <2>. QED  BY <1>1, <1>2, <2>2, <2>3, <2>6, <2>7
<1>. QED  BY <1>4, <1>5

-----------------------------------------------------------------------------
(* The requests. *)

\* A step of one request moves it, and nobody else, in or out of a group.
LEMMA AtStep ==
  ASSUME TypeOK, NEW r \in Reqs, NEW at, Goto(r, at), NEW S
  PROVE  /\ at \in S /\ pc[r] \in S => At(S)' = At(S)
         /\ at \in S /\ pc[r] \notin S => /\ At(S)' = At(S) \cup {r}
                                        /\ r \notin At(S)
         /\ at \notin S /\ pc[r] \in S => /\ At(S)' = At(S) \ {r}
                                        /\ r \in At(S)
         /\ at \notin S /\ pc[r] \notin S => At(S)' = At(S)
BY DEF At, Goto, TypeOK

LEMMA AtFinite ==
  ASSUME NEW S
  PROVE  IsFiniteSet(At(S)) /\ Cardinality(At(S)) \in Nat
BY GateAssumption, FS_Subset, FS_CardinalityType DEF At

-----------------------------------------------------------------------------
(* The requests the semaphore knows are the ones that wait. *)

SemLink == /\ SemInv(Reqs)
           /\ Waiting \cup handed = At({"waiting"})

StateInv == TypeOK /\ SemLink

LEMMA InitState == Init => StateInv
<1> SUFFICES ASSUME Init PROVE StateInv
  OBVIOUS
<1>1. OrDefault(NoLimit) \in Nat
  BY GateAssumption DEF OrDefault
<1>2. waiters = <<>> /\ waiters \in Seq(Reqs) /\ Waiting = {}
  BY EmptySeq DEF Init, SemInit, Waiting
<1>3. TypeOK
  <2>1. Cardinality(Reqs) \in Nat
    BY GateAssumption, FS_CardinalityType
  <2>2. 0 \in 0..WordSize - 1
    BY <2>1, GateAssumption
  <2>. QED  BY <1>1, <1>2, <2>2 DEF Init, SemInit, TypeOK, SemTypeOK
<1>4. SemInv(Reqs)
  BY <1>2, <1>3 DEF Init, SemInit, SemInv, TypeOK
<1>5. At({"waiting"}) = {}
  BY DEF At, Init
<1>. QED  BY <1>2, <1>3, <1>4, <1>5 DEF StateInv, SemLink, Init, SemInit

\* Whoever holds a permit is not in the queue.
LEMMA HoldersDontWait ==
  ASSUME StateInv
  PROVE  /\ Holders \cap Waiting = {} /\ IsFiniteSet(Holders)
         /\ IsFiniteSet(Owners) /\ Cardinality(Owners) \in Nat
         /\ permits \in Nat /\ Issued \in Nat
<1>1. Holders \cap Waiting = {}
  BY DEF StateInv, SemLink, Holders, At
<1>2. Owners \subseteq Reqs /\ permits \in Nat
  BY DEF Owners, Holders, At, StateInv, TypeOK, SemTypeOK
<1>3. IsFiniteSet(Owners) /\ Cardinality(Owners) \in Nat
  BY <1>2, GateAssumption, FS_Subset, FS_CardinalityType
<1>. QED  BY <1>1, <1>2, <1>3, AtFinite DEF Issued, Holders

\* The counters stay in their word.
LEMMA CounterRange ==
  /\ WordSize \in Nat /\ WordSize > Cardinality(Reqs)
  /\ WordSize > MaxQueueSize + Workers - 1
  /\ \A n \in 0..WordSize - 1 :
       Inc(n) \in 0..WordSize - 1 /\ Dec(n) \in 0..WordSize - 1
<1>1. Cardinality(Reqs) \in Nat
  BY GateAssumption, FS_CardinalityType
<1>. QED  BY <1>1, GateAssumption DEF Inc, Dec

\* A step that leaves the semaphore alone, and only moves a request between
\* states of the same kind.
LEMMA SameOwners ==
  ASSUME StateInv, TypeOK', UNCHANGED semVars,
         At({"waiting"})' = At({"waiting"}), Holders' = Holders
  PROVE  StateInv' /\ Issued' = Issued
<1>1. SemInv(Reqs)' /\ Waiting' = Waiting /\ handed' = handed
  BY DEF StateInv, SemLink, SemInv, SemTypeOK, Waiting, semVars
<1>2. Owners' = Owners /\ permits' = permits
  BY <1>1 DEF Owners, semVars
<1>. QED  BY <1>1, <1>2 DEF StateInv, SemLink, Issued

LEMMA LoadQueuedState ==
  ASSUME StateInv, NEW r \in Reqs, LoadQueued(r)
  PROVE  StateInv' /\ Issued' = Issued
<1>1. At({"waiting"})' = At({"waiting"}) /\ Holders' = Holders
  BY DEF LoadQueued, StateInv, TypeOK, Goto, Holders, At
<1>2. TypeOK'
  BY DEF LoadQueued, StateInv, TypeOK, SemTypeOK, Goto, semVars, counters,
         recVars
<1>. QED  BY <1>1, <1>2, SameOwners DEF LoadQueued

LEMMA CountInState ==
  ASSUME StateInv, NEW r \in Reqs, CountIn(r)
  PROVE  StateInv' /\ Issued' = Issued
<1>1. At({"waiting"})' = At({"waiting"}) /\ Holders' = Holders
  BY DEF CountIn, StateInv, TypeOK, Goto, Holders, At
<1>2. TypeOK'
  <2>1. queued' \in 0..WordSize - 1
    BY CounterRange DEF CountIn, StateInv, TypeOK
  <2>. QED
    BY <2>1 DEF CountIn, StateInv, TypeOK, SemTypeOK, Goto, semVars, recVars
<1>. QED  BY <1>1, <1>2, SameOwners DEF CountIn

LEMMA CountOutState ==
  ASSUME StateInv, NEW r \in Reqs, CountOut(r)
  PROVE  StateInv' /\ Issued' = Issued
<1>1. At({"waiting"})' = At({"waiting"}) /\ Holders' = Holders
  BY DEF CountOut, StateInv, TypeOK, Goto, Holders, At
<1>2. TypeOK'
  <2>1. queued' \in 0..WordSize - 1
    BY CounterRange DEF CountOut, StateInv, TypeOK
  <2>. QED
    BY <2>1 DEF CountOut, StateInv, TypeOK, SemTypeOK, Goto, semVars, recVars
<1>. QED  BY <1>1, <1>2, SameOwners DEF CountOut

LEMMA EnterActiveState ==
  ASSUME StateInv, NEW r \in Reqs, EnterActive(r)
  PROVE  StateInv' /\ Issued' = Issued
<1>1. At({"waiting"})' = At({"waiting"}) /\ Holders' = Holders
  BY DEF EnterActive, StateInv, TypeOK, Goto, Holders, At
<1>2. TypeOK'
  <2>1. active' \in 0..WordSize - 1
    BY CounterRange DEF EnterActive, StateInv, TypeOK
  <2>. QED
    BY <2>1
    DEF EnterActive, StateInv, TypeOK, SemTypeOK, Goto, semVars, recVars
<1>. QED  BY <1>1, <1>2, SameOwners DEF EnterActive

LEMMA DropGuardState ==
  ASSUME StateInv, NEW r \in Reqs, DropGuard(r)
  PROVE  StateInv' /\ Issued' = Issued
<1>1. At({"waiting"})' = At({"waiting"}) /\ Holders' = Holders
  BY DEF DropGuard, StateInv, TypeOK, Goto, Holders, At
<1>2. TypeOK'
  <2>1. active' \in 0..WordSize - 1
    BY CounterRange DEF DropGuard, StateInv, TypeOK
  <2>. QED
    BY <2>1
    DEF DropGuard, StateInv, TypeOK, SemTypeOK, Goto, semVars, recVars
<1>. QED  BY <1>1, <1>2, SameOwners DEF DropGuard

LEMMA BumpThrottledState ==
  ASSUME StateInv, NEW r \in Reqs, BumpThrottled(r)
  PROVE  StateInv' /\ Issued' = Issued
<1>1. At({"waiting"})' = At({"waiting"}) /\ Holders' = Holders
  BY DEF BumpThrottled, Holders, At
<1>2. TypeOK'
  BY DEF BumpThrottled, StateInv, TypeOK, SemTypeOK, semVars, recVars
<1>. QED  BY <1>1, <1>2, SameOwners DEF BumpThrottled

\* Taking an available permit on either path.
LEMMA TakeState ==
  ASSUME StateInv, NEW r \in Reqs, TakePermit, TypeOK',
         pc[r] \in {"full", "polling"}, Goto(r, "took")
  PROVE  StateInv' /\ Issued' = Issued
<1>1. SemInv(Reqs)' /\ permits' = permits - 1
  BY TakePermitFacts DEF StateInv, SemLink
<1>2. Waiting' = Waiting /\ handed' = handed
  BY DEF TakePermit, Waiting
<1>3. At({"waiting"})' = At({"waiting"})
  BY DEF StateInv, TypeOK, Goto, At
<1>4. Owners' = Owners \cup {r} /\ r \notin Owners
  <2>1. Holders' = Holders \cup {r} /\ r \notin Holders
    BY DEF StateInv, TypeOK, Goto, Holders, At
  <2>2. r \notin handed
    BY DEF StateInv, SemLink, At
  <2>. QED  BY <1>2, <2>1, <2>2 DEF Owners
<1>5. Cardinality(Owners') = Cardinality(Owners) + 1
  BY <1>4, HoldersDontWait, FS_AddElement
<1>6. Issued' = Issued
  BY <1>1, <1>5, HoldersDontWait DEF Issued
<1>. QED  BY <1>1, <1>2, <1>3, <1>6 DEF StateInv, SemLink

LEMMA TryAcquireState ==
  ASSUME StateInv, NEW r \in Reqs, TryAcquire(r)
  PROVE  StateInv' /\ Issued' = Issued
<1>1. CASE TakePermit /\ Goto(r, "took") /\ stolen' = stolen \cup {r}
           /\ UNCHANGED throttled
  <2>1. SemTypeOK(Reqs)'
    BY <1>1, TakePermitFacts DEF StateInv, SemLink, SemInv
  <2>2. TypeOK'
    BY <1>1, <2>1 DEF TryAcquire, StateInv, TypeOK, Goto, recVars
  <2>. QED  BY <1>1, <2>2, TakeState DEF TryAcquire
<1>2. CASE permits = 0 /\ Goto(r, "rejected") /\ throttled' = throttled + 1
           /\ UNCHANGED <<semVars, stolen>>
  <2>1. At({"waiting"})' = At({"waiting"}) /\ Holders' = Holders
    BY <1>2 DEF TryAcquire, StateInv, TypeOK, Goto, Holders, At
  <2>2. TypeOK'
    BY <1>2
    DEF TryAcquire, StateInv, TypeOK, SemTypeOK, Goto, semVars, recVars
  <2>. QED  BY <1>2, <2>1, <2>2, SameOwners
<1>. QED  BY <1>1, <1>2 DEF TryAcquire

LEMMA PollState ==
  ASSUME StateInv, NEW r \in Reqs, Poll(r)
  PROVE  StateInv' /\ Issued' = Issued
<1>1. CASE TakePermit /\ Goto(r, "took")
  <2>1. SemTypeOK(Reqs)'
    BY <1>1, TakePermitFacts DEF StateInv, SemLink, SemInv
  <2>2. TypeOK'
    BY <1>1, <2>1 DEF Poll, StateInv, TypeOK, Goto, counters, recVars
  <2>. QED  BY <1>1, <2>2, TakeState DEF Poll
<1>2. CASE Enqueue(r) /\ Goto(r, "waiting")
  <2>1. r \notin Waiting \cup handed
    BY DEF Poll, StateInv, SemLink, At
  <2>2. SemInv(Reqs)' /\ Waiting' = Waiting \cup {r}
    BY <1>2, <2>1, EnqueueFacts DEF StateInv, SemLink
  <2>3. At({"waiting"})' = At({"waiting"}) \cup {r} /\ Holders' = Holders
    BY <1>2 DEF Poll, StateInv, TypeOK, Goto, Holders, At
  <2>4. handed' = handed /\ permits' = permits
    BY <1>2 DEF Enqueue
  <2>5. TypeOK'
    BY <1>2, <2>2
    DEF Poll, StateInv, TypeOK, SemInv, Goto, counters, recVars
  <2>6. Issued' = Issued
    BY <2>3, <2>4 DEF Issued, Owners
  <2>. QED  BY <2>2, <2>3, <2>4, <2>5, <2>6 DEF StateInv, SemLink
<1>. QED  BY <1>1, <1>2 DEF Poll

LEMMA WakeState ==
  ASSUME StateInv, NEW r \in Reqs, Wake(r)
  PROVE  StateInv' /\ Issued' = Issued
<1>1. /\ SemInv(Reqs)' /\ r \in handed /\ r \notin Waiting
      /\ Waiting' = Waiting /\ handed' = handed \ {r} /\ permits' = permits
  BY CollectFacts DEF StateInv, SemLink, Wake
<1>2. /\ At({"waiting"})' = At({"waiting"}) \ {r}
      /\ Holders' = Holders \cup {r}
  BY DEF Wake, StateInv, TypeOK, Goto, Holders, At
<1>3. Owners' = Owners
  BY <1>1, <1>2 DEF Owners
<1>4. TypeOK'
  BY <1>1 DEF Wake, StateInv, TypeOK, SemInv, Goto, counters, recVars
<1>. QED  BY <1>1, <1>2, <1>3, <1>4 DEF StateInv, SemLink, Issued

\* A waiter that leaves keeps no permit, handed over or not.
LEMMA DisconnectState ==
  ASSUME StateInv, NEW r \in Reqs, Disconnect(r)
  PROVE  StateInv' /\ Issued' = Issued
<1>1. /\ At({"waiting"})' = At({"waiting"}) \ {r}
      /\ Holders' = Holders /\ r \notin Holders
  BY DEF Disconnect, StateInv, TypeOK, Goto, Holders, At
<1>2. /\ SemInv(Reqs)' /\ Waiting' \cup handed' = (Waiting \cup handed) \ {r}
      /\ permits' + Cardinality(handed' \cup Holders)
           = permits + Cardinality(handed \cup Holders)
  <2>1. CASE Withdraw(r)
    BY <2>1, WithdrawFacts DEF StateInv, SemLink
  <2>2. CASE PassOn(r)
    BY <2>2, <1>1, PassOnFacts, HoldersDontWait, GateAssumption
    DEF StateInv, SemLink
  <2>. QED  BY <2>1, <2>2 DEF Disconnect, Abandon
<1>3. TypeOK'
  BY <1>2 DEF Disconnect, StateInv, TypeOK, SemInv, Goto, counters, recVars
<1>. QED  BY <1>1, <1>2, <1>3 DEF StateInv, SemLink, Issued, Owners

LEMMA DropPermitState ==
  ASSUME StateInv, NEW r \in Reqs, DropPermit(r)
  PROVE  StateInv' /\ Issued' = Issued
<1> DEFINE H == Holders \ {r}
<1>1. /\ At({"waiting"})' = At({"waiting"})
      /\ Holders' = H /\ r \in Holders /\ r \notin At({"waiting"})
  BY DEF DropPermit, StateInv, TypeOK, Goto, Holders, At
<1>2. IsFiniteSet(H) /\ H \cap Waiting = {}
  BY HoldersDontWait, FS_RemoveElement
<1>3. /\ SemInv(Reqs)' /\ Waiting' \cup handed' = Waiting \cup handed
      /\ permits' + Cardinality(handed' \cup H)
           = permits + 1 + Cardinality(handed \cup H)
  BY <1>2, AddPermitsFacts, GateAssumption DEF DropPermit, StateInv, SemLink
<1>4. handed \cup H = Owners \ {r} /\ r \in Owners
  BY <1>1 DEF Owners, StateInv, SemLink
<1>5. Cardinality(handed \cup H) = Cardinality(Owners) - 1
  BY <1>4, HoldersDontWait, FS_RemoveElement
<1>6. TypeOK'
  BY <1>3 DEF DropPermit, StateInv, TypeOK, SemInv, Goto, counters, recVars
<1>7. Issued' = Issued
  <2>1. Issued' = permits + 1 + Cardinality(handed \cup H)
    BY <1>1, <1>3 DEF Issued, Owners
  <2>. HIDE DEF H
  <2>. QED  BY <2>1, <1>5, HoldersDontWait DEF Issued
<1>. QED  BY <1>1, <1>3, <1>6, <1>7 DEF StateInv, SemLink

\* No step of a request creates or destroys a permit.
LEMMA RequestState ==
  ASSUME StateInv, NEW r \in Reqs,
         Acquire(r) \/ Disconnect(r) \/ BumpThrottled(r) \/ DropActiveGuard(r)
  PROVE  StateInv' /\ Issued' = Issued
BY LoadQueuedState, TryAcquireState, CountInState, PollState, WakeState,
   CountOutState, EnterActiveState, DisconnectState, BumpThrottledState,
   DropGuardState, DropPermitState
DEF Acquire, SyncStep, DropActiveGuard

-----------------------------------------------------------------------------
(* reconcile() *)

LEMMA LoadGrantedState ==
  ASSUME StateInv, NEW c \in Recs, LoadGranted(c)
  PROVE  StateInv' /\ Issued' = Issued
<1>1. PICK limit \in Limits \cup {NoLimit} :
        /\ rnew' = [rnew EXCEPT ![c] = OrDefault(limit)]
        /\ rdiff' = [rdiff EXCEPT ![c] =
                       IF OrDefault(limit) > granted
                         THEN OrDefault(limit) - granted
                         ELSE granted - OrDefault(limit)]
        /\ rpc' = [rpc EXCEPT ![c] =
                     CASE OrDefault(limit) > granted -> "grow"
                       [] OrDefault(limit) < granted -> "shrink"
                       [] OTHER -> "done"]
  BY DEF LoadGranted
<1>2. OrDefault(limit) \in Nat /\ granted \in Nat
  BY GateAssumption DEF OrDefault, StateInv, TypeOK
<1> DEFINE new == OrDefault(limit)
<1> HIDE DEF new
<1>3. rnew' \in [Recs -> Nat]
  BY <1>1, <1>2 DEF StateInv, TypeOK
<1>4. rdiff' \in [Recs -> Nat]
  <2>1. (IF new > granted THEN new - granted ELSE granted - new) \in Nat
    BY <1>2 DEF new
  <2>. QED  BY <1>1, <2>1 DEF StateInv, TypeOK, new
<1>5. rpc' \in [Recs -> {"idle", "grow", "shrink", "done"}]
  <2>1. (CASE new > granted -> "grow" [] new < granted -> "shrink"
           [] OTHER -> "done") \in {"grow", "shrink", "done"}
    BY <1>2 DEF new
  <2>. QED  BY <1>1, <2>1 DEF StateInv, TypeOK, new
<1>6. TypeOK'
  BY <1>3, <1>4, <1>5
  DEF LoadGranted, StateInv, TypeOK, SemTypeOK, semVars, counters
<1>7. At({"waiting"})' = At({"waiting"}) /\ Holders' = Holders
  BY DEF LoadGranted, Holders, At
<1>. QED  BY <1>6, <1>7, SameOwners DEF LoadGranted

LEMMA AddDiffState ==
  ASSUME StateInv, NEW c \in Recs, AddDiff(c)
  PROVE  StateInv' /\ Issued' = Issued + rdiff[c]
<1>1. rdiff[c] \in Nat /\ Holders' = Holders /\ At({"waiting"})' = At({"waiting"})
  BY DEF AddDiff, StateInv, TypeOK, Holders, At
<1>2. /\ SemInv(Reqs)' /\ Waiting' \cup handed' = Waiting \cup handed
      /\ permits' + Cardinality(handed' \cup Holders)
           = permits + rdiff[c] + Cardinality(handed \cup Holders)
  BY <1>1, AddPermitsFacts, HoldersDontWait, GateAssumption
  DEF AddDiff, StateInv, SemLink
<1>3. TypeOK'
  BY <1>2 DEF AddDiff, StateInv, TypeOK, SemInv, counters
<1>4. Issued' = Issued + rdiff[c]
  <2>1. Issued' = permits + rdiff[c] + Cardinality(Owners)
    BY <1>1, <1>2 DEF Issued, Owners
  <2>. QED  BY <2>1, <1>1, HoldersDontWait DEF Issued
<1>. QED  BY <1>1, <1>2, <1>3, <1>4 DEF StateInv, SemLink

\* Every round of the shrink loop destroys a permit or records a miss.
LEMMA ForgetOneState ==
  ASSUME StateInv, NEW c \in Recs, ForgetOne(c)
  PROVE  /\ StateInv'
         /\ \/ missed' = missed /\ Issued' = Issued - 1
            \/ missed' = missed + 1 /\ Issued' = Issued
<1>1. /\ rdiff[c] \in Nat /\ rdiff' \in [Recs -> Nat]
      /\ Holders' = Holders /\ At({"waiting"})' = At({"waiting"})
      /\ missed \in Nat
  BY DEF ForgetOne, StateInv, TypeOK, Holders, At
<1>2. CASE TakePermit /\ UNCHANGED missed
  <2>1. SemInv(Reqs)' /\ permits' = permits - 1
    BY <1>2, TakePermitFacts DEF StateInv, SemLink
  <2>2. Waiting' = Waiting /\ handed' = handed
    BY <1>2 DEF TakePermit, Waiting
  <2>3. TypeOK'
    BY <1>1, <1>2, <2>1 DEF ForgetOne, StateInv, TypeOK, SemInv, counters
  <2>4. Owners' = Owners
    BY <1>1, <2>2 DEF Owners
  <2>5. Issued' = Issued - 1
    BY <2>1, <2>4, HoldersDontWait DEF Issued
  <2>. QED  BY <1>1, <1>2, <2>1, <2>2, <2>3, <2>5 DEF StateInv, SemLink
<1>3. CASE permits = 0 /\ missed' = missed + 1 /\ UNCHANGED semVars
  <2>1. TypeOK'
    BY <1>1, <1>3
    DEF ForgetOne, StateInv, TypeOK, SemTypeOK, semVars, counters
  <2>2. StateInv' /\ Issued' = Issued
    BY <1>1, <1>3, <2>1, SameOwners
  <2>. QED  BY <1>3, <2>2
<1>. QED  BY <1>2, <1>3 DEF ForgetOne

LEMMA StoreGrantedState ==
  ASSUME StateInv, NEW c \in Recs, StoreGranted(c)
  PROVE  StateInv' /\ Issued' = Issued
<1>1. TypeOK'
  BY DEF StoreGranted, StateInv, TypeOK, SemTypeOK, semVars
<1>2. At({"waiting"})' = At({"waiting"}) /\ Holders' = Holders
  BY DEF StoreGranted, Holders, At
<1>. QED  BY <1>1, <1>2, SameOwners DEF StoreGranted

LEMMA StutterState ==
  ASSUME StateInv, UNCHANGED vars
  PROVE  StateInv' /\ Issued' = Issued
<1>1. TypeOK'
  BY DEF vars, StateInv, TypeOK, SemTypeOK, semVars, counters, recVars
<1>2. At({"waiting"})' = At({"waiting"}) /\ Holders' = Holders
  BY DEF vars, Holders, At
<1>. QED  BY <1>1, <1>2, SameOwners DEF vars

\* The types are right, the queue holds each waiting request once, and no
\* permit is available while somebody waits, in every reachable state.
THEOREM StateCorrect == Spec => []StateInv
<1>1. Init => StateInv
  BY InitState
<1>2. StateInv /\ [Next]_vars => StateInv'
  BY RequestState, LoadGrantedState, AddDiffState, ForgetOneState,
     StoreGrantedState, StutterState
  DEF Next, Reconcile, Finish
<1>. QED  BY <1>1, <1>2, PTL DEF Spec

\* Every variable keeps its type; in particular no counter leaves its word.
THEOREM TypeCorrect == Spec => []TypeOK
<1>1. StateInv => TypeOK
  BY DEF StateInv
<1>. QED  BY <1>1, StateCorrect, PTL

-----------------------------------------------------------------------------
(* Permits are neither lost nor made up while resizes do not overlap. *)

\* Where a call of reconcile() has brought the number of permits so far.
Reached(c) == IF rpc[c] = "grow" THEN rnew[c] - rdiff[c] ELSE rnew[c] + rdiff[c]

\* The inductive invariant behind PermitAccounting.
Accounting ==
  ~overlapped =>
    /\ \A c, d \in Reconciling : c = d
    /\ Reconciling = {} => Issued = granted + missed
    /\ \A c \in Reconciling : Issued = missed + Reached(c)

LEMMA InitAccounting == Init => Accounting
<1> SUFFICES ASSUME Init PROVE Accounting
  OBVIOUS
<1>1. Reconciling = {} /\ Owners = {}
  BY DEF Init, SemInit, Reconciling, Owners, Holders, At
<1>2. Issued = granted
  <2>1. granted \in Nat
    BY GateAssumption DEF Init, OrDefault
  <2>. QED  BY <1>1, <2>1, FS_EmptySet DEF Init, SemInit, Issued
<1>3. granted \in Nat /\ missed = 0
  BY GateAssumption DEF Init, OrDefault
<1>. QED  BY <1>1, <1>2, <1>3 DEF Accounting

\* A step that changes nothing the accounts mention.
LEMMA SameAccounts ==
  ASSUME Accounting, UNCHANGED <<recVars, granted, missed, overlapped>>,
         Issued' = Issued
  PROVE  Accounting'
BY DEF Accounting, Reconciling, Reached, recVars

LEMMA RequestAccounting ==
  ASSUME StateInv, Accounting, NEW r \in Reqs,
         Acquire(r) \/ Disconnect(r) \/ BumpThrottled(r) \/ DropActiveGuard(r)
  PROVE  Accounting'
<1>1. UNCHANGED <<recVars, granted, missed, overlapped>>
  BY DEF Acquire, SyncStep, DropActiveGuard, Disconnect, BumpThrottled,
     LoadQueued, TryAcquire, CountIn, Poll, Wake, CountOut, EnterActive,
     DropGuard, DropPermit, counters
<1>. QED  BY <1>1, RequestState, SameAccounts

LEMMA LoadGrantedAccounting ==
  ASSUME StateInv, Accounting, NEW c \in Recs, LoadGranted(c)
  PROVE  Accounting'
<1> SUFFICES ASSUME ~overlapped' PROVE Accounting'
  BY DEF Accounting
<1>1. ~overlapped /\ Reconciling = {} /\ Issued = granted + missed
  BY DEF LoadGranted, Accounting
<1>2. PICK new \in Nat :
        /\ rnew'[c] = new
        /\ rdiff'[c] = IF new > granted THEN new - granted ELSE granted - new
        /\ rpc'[c] = CASE new > granted -> "grow" [] new < granted -> "shrink"
                       [] OTHER -> "done"
  <2>1. \A limit \in Limits \cup {NoLimit} : OrDefault(limit) \in Nat
    BY GateAssumption DEF OrDefault
  <2>. QED  BY <2>1 DEF LoadGranted, StateInv, TypeOK
<1>3. granted \in Nat /\ missed \in Nat /\ granted' = granted /\ missed' = missed
  BY DEF LoadGranted, StateInv, TypeOK, counters
<1>4. Issued' = granted + missed
  BY <1>1, LoadGrantedState
<1>5. \A d \in Recs \ {c} : rpc'[d] = rpc[d]
  BY DEF LoadGranted, StateInv, TypeOK
<1>6. Reconciling' \subseteq {c}
  BY <1>1, <1>5 DEF Reconciling
<1>7. c \in Reconciling' => Issued' = missed' + Reached(c)'
  <2>1. CASE new > granted
    <3>1. rpc'[c] = "grow" /\ rdiff'[c] = new - granted
      <4>1. ~(new < granted)
        BY <2>1, <1>3
      <4>. QED  BY <2>1, <4>1, <1>2
    <3>. QED  BY <3>1, <1>2, <1>3, <1>4 DEF Reached
  <2>2. CASE new < granted
    <3>1. rpc'[c] = "shrink" /\ rdiff'[c] = granted - new
      <4>1. ~(new > granted)
        BY <2>2, <1>3
      <4>. QED  BY <2>2, <4>1, <1>2
    <3>. QED  BY <3>1, <1>2, <1>3, <1>4 DEF Reached
  <2>3. CASE new = granted
    <3>1. rpc'[c] = "done"
      BY <2>3, <1>2, <1>3
    <3>. QED  BY <3>1 DEF Reconciling
  <2>. QED  BY <2>1, <2>2, <2>3, <1>2, <1>3
<1>. QED  BY <1>3, <1>4, <1>6, <1>7 DEF Accounting

LEMMA AddDiffAccounting ==
  ASSUME StateInv, Accounting, NEW c \in Recs, AddDiff(c)
  PROVE  Accounting'
<1> SUFFICES ASSUME ~overlapped' PROVE Accounting'
  BY DEF Accounting
<1>1. /\ UNCHANGED <<granted, missed, rpc, rnew>>
      /\ rpc[c] = "grow" /\ rdiff'[c] = 0
      /\ rdiff[c] \in Nat /\ rnew[c] \in Nat /\ missed \in Nat
  BY DEF AddDiff, counters, StateInv, TypeOK
<1>2. /\ c \in Reconciling /\ Reconciling' = Reconciling
      /\ \A d \in Reconciling : d = c
      /\ Issued = missed + (rnew[c] - rdiff[c])
  BY <1>1 DEF AddDiff, Accounting, Reconciling, Reached
<1>3. Issued' = missed + (rnew[c] - rdiff[c]) + rdiff[c]
  BY <1>2, AddDiffState
<1>4. Issued' = missed' + Reached(c)'
  BY <1>1, <1>3 DEF Reached
<1>. QED  BY <1>2, <1>4 DEF Accounting

LEMMA ForgetOneAccounting ==
  ASSUME StateInv, Accounting, NEW c \in Recs, ForgetOne(c)
  PROVE  Accounting'
<1> SUFFICES ASSUME ~overlapped' PROVE Accounting'
  BY DEF Accounting
<1>1. /\ UNCHANGED <<granted, rpc, rnew>>
      /\ rpc[c] = "shrink" /\ rdiff'[c] = rdiff[c] - 1
      /\ rdiff[c] \in Nat /\ rnew[c] \in Nat
      /\ missed \in Nat /\ missed' \in Nat
  BY DEF ForgetOne, counters, StateInv, TypeOK
<1>2. /\ c \in Reconciling /\ Reconciling' = Reconciling
      /\ \A d \in Reconciling : d = c
      /\ Issued = missed + (rnew[c] + rdiff[c])
  BY <1>1 DEF ForgetOne, Accounting, Reconciling, Reached
<1>3. \/ missed' = missed /\ Issued' = Issued - 1
      \/ missed' = missed + 1 /\ Issued' = Issued
  BY ForgetOneState
<1>4. Issued' = missed' + (rnew[c] + (rdiff[c] - 1))
  BY <1>1, <1>2, <1>3
<1>5. Issued' = missed' + Reached(c)'
  BY <1>1, <1>4 DEF Reached
<1>. QED  BY <1>2, <1>5 DEF Accounting

LEMMA StoreGrantedAccounting ==
  ASSUME StateInv, Accounting, NEW c \in Recs, StoreGranted(c)
  PROVE  Accounting'
<1> SUFFICES ASSUME ~overlapped' PROVE Accounting'
  BY DEF Accounting
<1>1. /\ rdiff[c] = 0 /\ rnew[c] \in Nat /\ missed \in Nat /\ missed' = missed
      /\ granted' = rnew[c] /\ c \in Reconciling
      /\ rpc' = [rpc EXCEPT ![c] = "done"]
  BY DEF StoreGranted, StateInv, TypeOK, Reconciling
<1>2. Reconciling = {c} /\ Issued = missed + Reached(c)
  BY <1>1 DEF StoreGranted, Accounting
<1>3. Reached(c) = rnew[c]
  BY <1>1 DEF Reached
<1>4. Issued' = granted' + missed'
  BY <1>1, <1>2, <1>3, StoreGrantedState
<1>5. Reconciling' = {}
  BY <1>1, <1>2 DEF StateInv, TypeOK, Reconciling
<1>. QED  BY <1>4, <1>5 DEF Accounting

LEMMA AccountingStep == StateInv /\ Accounting /\ [Next]_vars => Accounting'
<1> SUFFICES ASSUME StateInv, Accounting, [Next]_vars PROVE Accounting'
  OBVIOUS
<1>1. CASE UNCHANGED vars
  BY <1>1, StutterState, SameAccounts DEF vars, counters
<1>2. CASE Next
  BY <1>2, RequestAccounting, LoadGrantedAccounting, AddDiffAccounting,
     ForgetOneAccounting, StoreGrantedAccounting
  DEF Next, Reconcile, Finish
<1>. QED  BY <1>1, <1>2

\* Between resizes that did not overlap, the permits in existence are the
\* limit in force and the ones no shrink found: nothing that requests do, not
\* even leaving the queue with a permit in hand, changes their number.
THEOREM PermitsAccounted == Spec => []PermitAccounting
<1>1. Init => Accounting
  BY InitAccounting
<1>2. StateInv /\ Accounting /\ [Next]_vars => Accounting'
  BY AccountingStep
<1>3. Accounting => PermitAccounting
  BY DEF Accounting, PermitAccounting, Settled
<1>. QED  BY <1>1, <1>2, <1>3, StateCorrect, PTL DEF Spec

-----------------------------------------------------------------------------
(* The counters, reconstructed from where the requests are. *)

Count(S) == Cardinality(At(S))
One(b) == IF b THEN 1 ELSE 0

LEMMA CountStep ==
  TypeOK => \A r \in Reqs : \A at, S :
    Goto(r, at) => Count(S)' = Count(S) + One(at \in S) - One(pc[r] \in S)
<1> SUFFICES ASSUME TypeOK, NEW r \in Reqs, NEW at, NEW S, Goto(r, at)
             PROVE  Count(S)' = Count(S) + One(at \in S) - One(pc[r] \in S)
  OBVIOUS
<1>1. IsFiniteSet(At(S)) /\ Cardinality(At(S)) \in Nat
  BY AtFinite
<1>2. CASE at \in S <=> pc[r] \in S
  BY <1>1, <1>2, AtStep DEF Count, One
<1>3. CASE at \in S /\ pc[r] \notin S
  BY <1>1, <1>3, AtStep, FS_AddElement DEF Count, One
<1>4. CASE at \notin S /\ pc[r] \in S
  <2>1. At(S)' = At(S) \ {r} /\ r \in At(S)
    BY <1>4, AtStep
  <2>2. Cardinality(At(S) \ {r}) = Cardinality(At(S)) - 1
    BY <1>1, <2>1, FS_RemoveElement
  <2>. QED  BY <1>4, <2>1, <2>2, <1>1 DEF Count, One
<1>. QED  BY <1>2, <1>3, <1>4

LEMMA CountType == \A S : Count(S) \in Nat
BY AtFinite DEF Count

\* The groups the counters speak of: busy with a worker, counted in, between
\* the look at the queue's length and its end, not yet past the queue.
BusyAt == {"full", "admit", "polling", "took", "entering", "leaving"}
CountedAt == {"polling", "waiting", "took"}
JoiningAt == {"admit", "polling", "waiting"}
EarlyAt == {"idle", "full", "admit", "polling", "waiting", "gone"}

\* A counter that went below zero, in its word.
Wrap(n) == IF n >= 0 THEN n ELSE WordSize + n
N == Cardinality(Reqs)

LEMMA WrapSteps ==
  \A n \in -N..N : /\ n + 1 <= N => Inc(Wrap(n)) = Wrap(n + 1)
                   /\ n - 1 >= -N => Dec(Wrap(n)) = Wrap(n - 1)
                   /\ n < 0 => Wrap(n) >= MaxQueueSize
<1>1. N \in Nat
  BY GateAssumption, FS_CardinalityType DEF N
<1>2. WordSize >= MaxQueueSize + Workers + N
  BY GateAssumption DEF N
<1>. QED  BY <1>1, <1>2, GateAssumption DEF Inc, Dec, Wrap

LEMMA SetBounds ==
  \A A, B, C \in SUBSET Reqs : A \cap B = {} =>
    Cardinality(A) + Cardinality(B) - Cardinality(C) \in -N..N
<1> SUFFICES ASSUME NEW A \in SUBSET Reqs, NEW B \in SUBSET Reqs, NEW C \in SUBSET Reqs,
                    A \cap B = {}
             PROVE  Cardinality(A) + Cardinality(B) - Cardinality(C) \in -N..N
  OBVIOUS
<1>1. /\ Cardinality(A) \in Nat /\ Cardinality(B) \in Nat /\ Cardinality(C) \in Nat
      /\ Cardinality(A \cup B) <= N /\ Cardinality(C) <= N /\ N \in Nat
      /\ IsFiniteSet(A) /\ IsFiniteSet(B)
  BY GateAssumption, FS_Subset, FS_CardinalityType DEF N
<1>2. Cardinality(A \cup B) = Cardinality(A) + Cardinality(B)
  <2>1. Cardinality(A \cup B) = Cardinality(A) + Cardinality(B) - Cardinality(A \cap B)
    BY <1>1, FS_Union
  <2>2. Cardinality(A \cap B) = 0
    BY FS_EmptySet
  <2>. QED  BY <1>1, <2>1, <2>2
<1>. QED  BY <1>1, <1>2

\* Admissions on the queue-full path are past the queue.
StolenInv ==
  /\ IsFiniteSet(stolen) /\ Cardinality(stolen) \in Nat
  /\ stolen \cap At(EarlyAt) = {}

\* The inductive invariant behind ActiveWithinLimit, QueuedExact and
\* QueueBounded.
Balance == Count(CountedAt) + Count({"gone"}) - Cardinality(stolen)
CountInv ==
  /\ active = Count({"running"})
  /\ queued = Wrap(Balance)
  /\ Count(BusyAt) <= Workers
  /\ Count(JoiningAt) <= MaxQueueSize - 1 + Workers + Cardinality(stolen)

LEMMA InitCounts == Init => StolenInv /\ CountInv
<1> SUFFICES ASSUME Init PROVE StolenInv /\ CountInv
  OBVIOUS
<1>1. /\ At({"running"}) = {} /\ At(CountedAt) = {} /\ At({"gone"}) = {}
      /\ At(BusyAt) = {} /\ At(JoiningAt) = {}
  BY DEF At, Init, CountedAt, BusyAt, JoiningAt
<1>2. Cardinality({}) = 0 /\ IsFiniteSet({})
  BY FS_EmptySet
<1>3. /\ Count({"running"}) = 0 /\ Count(CountedAt) = 0 /\ Count({"gone"}) = 0
      /\ Count(BusyAt) = 0 /\ Count(JoiningAt) = 0
  BY <1>1, <1>2 DEF Count
<1>4. stolen = {} /\ Cardinality(stolen) = 0 /\ active = 0 /\ queued = 0
  BY <1>2 DEF Init
<1>5. Balance = 0 /\ Wrap(0) = 0
  BY <1>3, <1>4 DEF Balance, Wrap
<1>6. StolenInv
  BY <1>2, <1>4 DEF StolenInv
<1>7. CountInv
  BY <1>3, <1>4, <1>5, GateAssumption DEF CountInv
<1>. QED  BY <1>6, <1>7

LEMMA StolenStep == StateInv /\ StolenInv /\ [Next]_vars => StolenInv'
<1> SUFFICES ASSUME StateInv, StolenInv, [Next]_vars PROVE StolenInv'
  OBVIOUS
<1>1. CASE stolen' = stolen /\ At(EarlyAt)' \subseteq At(EarlyAt)
  BY <1>1 DEF StolenInv
<1>2. CASE \E r \in Reqs : /\ stolen' = stolen \cup {r} /\ r \in At(EarlyAt)
                            /\ At(EarlyAt)' = At(EarlyAt) \ {r}
  <2>1. PICK r \in Reqs : /\ stolen' = stolen \cup {r} /\ r \in At(EarlyAt)
                           /\ At(EarlyAt)' = At(EarlyAt) \ {r}
    BY <1>2
  <2>2. IsFiniteSet(stolen') /\ Cardinality(stolen') \in Nat
    <3>1. IsFiniteSet(stolen) /\ Cardinality(stolen) \in Nat
      BY DEF StolenInv
    <3>2. IsFiniteSet(stolen \cup {r})
      BY <3>1, FS_AddElement
    <3>. QED  BY <2>1, <3>2, FS_CardinalityType
  <2>. QED  BY <2>1, <2>2 DEF StolenInv
<1>3. ASSUME NEW r \in Reqs, TryAcquire(r), pc'[r] = "took"
      PROVE  /\ stolen' = stolen \cup {r} /\ r \in At(EarlyAt)
             /\ At(EarlyAt)' = At(EarlyAt) \ {r}
  BY <1>3 DEF TryAcquire, Goto, StateInv, TypeOK, At, EarlyAt
<1>4. ASSUME NEW r \in Reqs, TryAcquire(r), pc'[r] # "took"
      PROVE  stolen' = stolen /\ At(EarlyAt)' \subseteq At(EarlyAt)
  BY <1>4 DEF TryAcquire, Goto, StateInv, TypeOK, At, EarlyAt
<1>5. ASSUME NEW r \in Reqs,
             \/ LoadQueued(r) \/ CountIn(r) \/ Poll(r) \/ Wake(r) \/ CountOut(r)
             \/ EnterActive(r) \/ Disconnect(r) \/ BumpThrottled(r) \/ DropActiveGuard(r)
      PROVE  stolen' = stolen /\ At(EarlyAt)' \subseteq At(EarlyAt)
  BY <1>5 DEF LoadQueued, CountIn, Poll, Wake, CountOut, EnterActive, Disconnect,
     BumpThrottled, DropActiveGuard, DropGuard, DropPermit, Goto, StateInv, TypeOK, At, EarlyAt
<1>6. ASSUME NEW c \in Recs, Reconcile(c)
      PROVE  stolen' = stolen /\ At(EarlyAt)' \subseteq At(EarlyAt)
  BY <1>6 DEF Reconcile, LoadGranted, Finish, AddDiff, ForgetOne, StoreGranted, At
<1>7. CASE UNCHANGED vars
  BY <1>1, <1>7 DEF vars, At
<1>. QED
  BY <1>1, <1>2, <1>3, <1>4, <1>5, <1>6, <1>7 DEF Next, Acquire, SyncStep

LEMMA BalanceRange ==
  TypeOK /\ TypeOK' => Balance \in -N..N /\ Balance' \in -N..N
<1> SUFFICES ASSUME TypeOK, TypeOK' PROVE Balance \in -N..N /\ Balance' \in -N..N
  OBVIOUS
<1>1. /\ At(CountedAt) \in SUBSET Reqs /\ At({"gone"}) \in SUBSET Reqs
      /\ At(CountedAt) \cap At({"gone"}) = {} /\ stolen \in SUBSET Reqs
  BY DEF At, CountedAt, TypeOK
<1>2. /\ At(CountedAt)' \in SUBSET Reqs /\ At({"gone"})' \in SUBSET Reqs
      /\ At(CountedAt)' \cap At({"gone"})' = {} /\ stolen' \in SUBSET Reqs
  BY DEF At, CountedAt, TypeOK
<1>3. Balance \in -N..N
  BY <1>1, SetBounds DEF Balance, Count
<1>4. Balance' \in -N..N
  BY <1>2, SetBounds DEF Balance, Count
<1>. QED  BY <1>3, <1>4

\* What a move does to each group.
LEMMA GroupSteps ==
  StateInv => \A r \in Reqs : \A at : Goto(r, at) =>
    /\ Count({"running"})' = Count({"running"}) + One(at = "running") - One(pc[r] = "running")
    /\ Count({"gone"})' = Count({"gone"}) + One(at = "gone") - One(pc[r] = "gone")
    /\ Count(CountedAt)' = Count(CountedAt) + One(at \in CountedAt) - One(pc[r] \in CountedAt)
    /\ Count(BusyAt)' = Count(BusyAt) + One(at \in BusyAt) - One(pc[r] \in BusyAt)
    /\ Count(JoiningAt)' = Count(JoiningAt) + One(at \in JoiningAt) - One(pc[r] \in JoiningAt)
<1> SUFFICES ASSUME StateInv, NEW r \in Reqs, NEW at, Goto(r, at)
    PROVE /\ Count({"running"})' = Count({"running"}) + One(at = "running") - One(pc[r] = "running")
          /\ Count({"gone"})' = Count({"gone"}) + One(at = "gone") - One(pc[r] = "gone")
          /\ Count(CountedAt)' = Count(CountedAt) + One(at \in CountedAt) - One(pc[r] \in CountedAt)
          /\ Count(BusyAt)' = Count(BusyAt) + One(at \in BusyAt) - One(pc[r] \in BusyAt)
          /\ Count(JoiningAt)' = Count(JoiningAt) + One(at \in JoiningAt) - One(pc[r] \in JoiningAt)
  OBVIOUS
<1>1. \A S : Count(S)' = Count(S) + One(at \in S) - One(pc[r] \in S)
  BY CountStep DEF StateInv
<1>2. One(at \in {"running"}) = One(at = "running") /\ One(pc[r] \in {"running"}) = One(pc[r] = "running")
  BY DEF One
<1>3. One(at \in {"gone"}) = One(at = "gone") /\ One(pc[r] \in {"gone"}) = One(pc[r] = "gone")
  BY DEF One
<1>. QED  BY <1>1, <1>2, <1>3

\* Between the look at the queue's length and its end: counted in, or busy.
LEMMA JoinBound ==
  Count(JoiningAt)' <= Count(CountedAt)' + Count(BusyAt)'
<1>1. At(JoiningAt)' \subseteq At(CountedAt)' \cup At(BusyAt)'
  BY DEF At, JoiningAt, CountedAt, BusyAt
<1>2. /\ IsFiniteSet(At(CountedAt)') /\ Cardinality(At(CountedAt)') \in Nat
      /\ IsFiniteSet(At(BusyAt)') /\ Cardinality(At(BusyAt)') \in Nat
  BY GateAssumption, FS_Subset, FS_CardinalityType DEF At
<1>3. /\ IsFiniteSet(At(CountedAt)' \cup At(BusyAt)')
      /\ Cardinality(At(CountedAt)' \cup At(BusyAt)') =
           Cardinality(At(CountedAt)') + Cardinality(At(BusyAt)')
             - Cardinality(At(CountedAt)' \cap At(BusyAt)')
  BY <1>2, FS_Union
<1>4. Cardinality(At(CountedAt)' \cap At(BusyAt)') \in Nat
  BY <1>2, FS_Subset, FS_CardinalityType
<1>5. Cardinality(At(JoiningAt)') \in Nat
      /\ Cardinality(At(JoiningAt)') <= Cardinality(At(CountedAt)' \cup At(BusyAt)')
  BY <1>1, <1>3, FS_Subset, FS_CardinalityType
<1>. QED  BY <1>2, <1>3, <1>4, <1>5 DEF Count

CountTypes == /\ Count({"running"}) \in Nat /\ Count({"gone"}) \in Nat /\ Count(CountedAt) \in Nat
              /\ Count(BusyAt) \in Nat /\ Count(JoiningAt) \in Nat /\ Cardinality(stolen) \in Nat
              /\ Count({"running"}) <= N /\ N \in Nat /\ N < WordSize /\ WordSize \in Nat
              /\ MaxQueueSize \in Nat \ {0} /\ Workers \in Nat \ {0}

LEMMA CountTypesHold == StolenInv => CountTypes
<1>1. N \in Nat /\ Count({"running"}) <= N
  BY GateAssumption, FS_Subset, FS_CardinalityType DEF N, Count, At
<1>. QED  BY <1>1, CountType, GateAssumption DEF CountTypes, StolenInv, N

LEMMA QueuedFollows ==
  ASSUME StateInv, StateInv', CountInv,
         \/ Balance' = Balance /\ queued' = queued
         \/ Balance' = Balance + 1 /\ queued' = Inc(queued)
         \/ Balance' = Balance - 1 /\ queued' = Dec(queued)
  PROVE  queued' = Wrap(Balance')
<1>1. Balance \in -N..N /\ Balance' \in -N..N
  BY BalanceRange DEF StateInv
<1>2. queued = Wrap(Balance)
  BY DEF CountInv
<1>3. N \in Nat
  BY GateAssumption, FS_CardinalityType DEF N
<1>. QED  BY <1>1, <1>2, <1>3, WrapSteps

LEMMA CountRoom ==
  /\ Count({"running"}) \in 0..N /\ Count({"running"})' \in 0..N
  /\ N < WordSize
<1>1. At({"running"}) \subseteq Reqs /\ At({"running"})' \subseteq Reqs
  BY DEF At
<1>. QED  BY <1>1, GateAssumption, FS_Subset, FS_CardinalityType DEF Count, N

LEMMA TryAcquireCounts ==
  ASSUME StateInv, StateInv', StolenInv, CountInv, NEW r \in Reqs, TryAcquire(r)
  PROVE  CountInv'
<1>1. CountTypes
  BY CountTypesHold
<1>2. CASE pc'[r] = "took"
  <2>1. Goto(r, "took") /\ pc[r] = "full"
    BY <1>2 DEF TryAcquire, Goto, StateInv, TypeOK
  <2>2. /\ Count({"running"})' = Count({"running"}) /\ Count({"gone"})' = Count({"gone"})
        /\ Count(CountedAt)' = Count(CountedAt) + 1 /\ Count(BusyAt)' = Count(BusyAt)
        /\ Count(JoiningAt)' = Count(JoiningAt)
    BY <1>1, <2>1, GroupSteps DEF One, BusyAt, CountedAt, JoiningAt, CountTypes
  <2>3. active' = active /\ queued' = queued /\ stolen' = stolen \cup {r}
    BY <1>2 DEF TryAcquire, counters, Goto, StateInv, TypeOK
  <2>4. r \notin stolen
    BY <2>1 DEF StolenInv, At, EarlyAt
  <2>5. Cardinality(stolen') = Cardinality(stolen) + 1
    BY <2>3, <2>4, FS_AddElement DEF StolenInv
  <2>6. Balance' = Balance
    BY <1>1, <2>2, <2>5 DEF Balance, CountTypes
  <2>7. queued' = Wrap(Balance')
    BY <2>3, <2>6, QueuedFollows
  <2>. QED  BY <1>1, <2>2, <2>3, <2>5, <2>7 DEF CountInv, CountTypes
<1>3. CASE pc'[r] = "rejected"
  <2>1. Goto(r, "rejected") /\ pc[r] = "full"
    BY <1>3 DEF TryAcquire, Goto, StateInv, TypeOK
  <2>2. /\ Count({"running"})' = Count({"running"}) /\ Count({"gone"})' = Count({"gone"})
        /\ Count(CountedAt)' = Count(CountedAt) /\ Count(BusyAt)' = Count(BusyAt) - 1
        /\ Count(JoiningAt)' = Count(JoiningAt)
    BY <1>1, <2>1, GroupSteps DEF One, BusyAt, CountedAt, JoiningAt, CountTypes
  <2>3. active' = active /\ queued' = queued /\ stolen' = stolen
    BY <1>3 DEF TryAcquire, counters, Goto, StateInv, TypeOK
  <2>4. Balance' = Balance
    BY <1>1, <2>2, <2>3 DEF Balance, CountTypes
  <2>5. queued' = Wrap(Balance')
    BY <2>3, <2>4, QueuedFollows
  <2>. QED  BY <1>1, <2>2, <2>3, <2>5 DEF CountInv, CountTypes
<1>. QED  BY <1>2, <1>3 DEF TryAcquire, Goto, StateInv, TypeOK

LEMMA CountInCounts ==
  ASSUME StateInv, StateInv', StolenInv, CountInv, NEW r \in Reqs, CountIn(r)
  PROVE  CountInv'
<1>1. CountTypes
  BY CountTypesHold
<1>2. CASE pc'[r] = "polling"
  <2>1. Goto(r, "polling") /\ pc[r] = "admit"
    BY <1>2 DEF CountIn, Goto, StateInv, TypeOK
  <2>2. /\ Count({"running"})' = Count({"running"}) /\ Count({"gone"})' = Count({"gone"})
        /\ Count(CountedAt)' = Count(CountedAt) + 1 /\ Count(BusyAt)' = Count(BusyAt)
        /\ Count(JoiningAt)' = Count(JoiningAt)
    BY <1>1, <2>1, GroupSteps DEF One, BusyAt, CountedAt, JoiningAt, CountTypes
  <2>3. active' = active /\ queued' = Inc(queued) /\ stolen' = stolen
    BY <1>2 DEF CountIn, counters, Goto, StateInv, TypeOK
  <2>4. Balance' = Balance + 1
    BY <1>1, <2>2, <2>3 DEF Balance, CountTypes
  <2>5. queued' = Wrap(Balance')
    BY <2>3, <2>4, QueuedFollows
  <2>. QED  BY <1>1, <2>2, <2>3, <2>5 DEF CountInv, CountTypes
<1>. QED  BY <1>2 DEF CountIn, Goto, StateInv, TypeOK

LEMMA PollCounts ==
  ASSUME StateInv, StateInv', StolenInv, CountInv, NEW r \in Reqs, Poll(r)
  PROVE  CountInv'
<1>1. CountTypes
  BY CountTypesHold
<1>2. CASE pc'[r] = "took"
  <2>1. Goto(r, "took") /\ pc[r] = "polling"
    BY <1>2 DEF Poll, Goto, StateInv, TypeOK
  <2>2. /\ Count({"running"})' = Count({"running"}) /\ Count({"gone"})' = Count({"gone"})
        /\ Count(CountedAt)' = Count(CountedAt) /\ Count(BusyAt)' = Count(BusyAt)
        /\ Count(JoiningAt)' = Count(JoiningAt) - 1
    BY <1>1, <2>1, GroupSteps DEF One, BusyAt, CountedAt, JoiningAt, CountTypes
  <2>3. active' = active /\ queued' = queued /\ stolen' = stolen
    BY <1>2 DEF Poll, counters, Goto, StateInv, TypeOK
  <2>4. Balance' = Balance
    BY <1>1, <2>2, <2>3 DEF Balance, CountTypes
  <2>5. queued' = Wrap(Balance')
    BY <2>3, <2>4, QueuedFollows
  <2>. QED  BY <1>1, <2>2, <2>3, <2>5 DEF CountInv, CountTypes
<1>3. CASE pc'[r] = "waiting"
  <2>1. Goto(r, "waiting") /\ pc[r] = "polling"
    BY <1>3 DEF Poll, Goto, StateInv, TypeOK
  <2>2. /\ Count({"running"})' = Count({"running"}) /\ Count({"gone"})' = Count({"gone"})
        /\ Count(CountedAt)' = Count(CountedAt) /\ Count(BusyAt)' = Count(BusyAt) - 1
        /\ Count(JoiningAt)' = Count(JoiningAt)
    BY <1>1, <2>1, GroupSteps DEF One, BusyAt, CountedAt, JoiningAt, CountTypes
  <2>3. active' = active /\ queued' = queued /\ stolen' = stolen
    BY <1>3 DEF Poll, counters, Goto, StateInv, TypeOK
  <2>4. Balance' = Balance
    BY <1>1, <2>2, <2>3 DEF Balance, CountTypes
  <2>5. queued' = Wrap(Balance')
    BY <2>3, <2>4, QueuedFollows
  <2>. QED  BY <1>1, <2>2, <2>3, <2>5 DEF CountInv, CountTypes
<1>. QED  BY <1>2, <1>3 DEF Poll, Goto, StateInv, TypeOK

LEMMA WakeCounts ==
  ASSUME StateInv, StateInv', StolenInv, CountInv, NEW r \in Reqs, Wake(r)
  PROVE  CountInv'
<1>1. CountTypes
  BY CountTypesHold
<1>2. CASE pc'[r] = "took"
  <2>1. Goto(r, "took") /\ pc[r] = "waiting"
    BY <1>2 DEF Wake, Goto, StateInv, TypeOK
  <2>2. /\ Count({"running"})' = Count({"running"}) /\ Count({"gone"})' = Count({"gone"})
        /\ Count(CountedAt)' = Count(CountedAt) /\ Count(BusyAt)' = Count(BusyAt) + 1
        /\ Count(JoiningAt)' = Count(JoiningAt) - 1
    BY <1>1, <2>1, GroupSteps DEF One, BusyAt, CountedAt, JoiningAt, CountTypes
  <2>3. active' = active /\ queued' = queued /\ stolen' = stolen
    BY <1>2 DEF Wake, counters, Goto, StateInv, TypeOK
  <2>4. Balance' = Balance
    BY <1>1, <2>2, <2>3 DEF Balance, CountTypes
  <2>5. queued' = Wrap(Balance')
    BY <2>3, <2>4, QueuedFollows
  <2>6. Count(BusyAt) < Workers
    BY DEF Wake, WorkerFree, Busy, Count, BusyAt
  <2>. QED  BY <1>1, <2>2, <2>3, <2>5, <2>6 DEF CountInv, CountTypes
<1>. QED  BY <1>2 DEF Wake, Goto, StateInv, TypeOK

LEMMA DisconnectCounts ==
  ASSUME StateInv, StateInv', StolenInv, CountInv, NEW r \in Reqs, Disconnect(r)
  PROVE  CountInv'
<1>1. CountTypes
  BY CountTypesHold
<1>2. CASE pc'[r] = "gone"
  <2>1. Goto(r, "gone") /\ pc[r] = "waiting"
    BY <1>2 DEF Disconnect, Goto, StateInv, TypeOK
  <2>2. /\ Count({"running"})' = Count({"running"}) /\ Count({"gone"})' = Count({"gone"}) + 1
        /\ Count(CountedAt)' = Count(CountedAt) - 1 /\ Count(BusyAt)' = Count(BusyAt)
        /\ Count(JoiningAt)' = Count(JoiningAt) - 1
    BY <1>1, <2>1, GroupSteps DEF One, BusyAt, CountedAt, JoiningAt, CountTypes
  <2>3. active' = active /\ queued' = queued /\ stolen' = stolen
    BY <1>2 DEF Disconnect, counters, Goto, StateInv, TypeOK
  <2>4. Balance' = Balance
    BY <1>1, <2>2, <2>3 DEF Balance, CountTypes
  <2>5. queued' = Wrap(Balance')
    BY <2>3, <2>4, QueuedFollows
  <2>. QED  BY <1>1, <2>2, <2>3, <2>5 DEF CountInv, CountTypes
<1>. QED  BY <1>2 DEF Disconnect, Goto, StateInv, TypeOK

LEMMA CountOutCounts ==
  ASSUME StateInv, StateInv', StolenInv, CountInv, NEW r \in Reqs, CountOut(r)
  PROVE  CountInv'
<1>1. CountTypes
  BY CountTypesHold
<1>2. CASE pc'[r] = "entering"
  <2>1. Goto(r, "entering") /\ pc[r] = "took"
    BY <1>2 DEF CountOut, Goto, StateInv, TypeOK
  <2>2. /\ Count({"running"})' = Count({"running"}) /\ Count({"gone"})' = Count({"gone"})
        /\ Count(CountedAt)' = Count(CountedAt) - 1 /\ Count(BusyAt)' = Count(BusyAt)
        /\ Count(JoiningAt)' = Count(JoiningAt)
    BY <1>1, <2>1, GroupSteps DEF One, BusyAt, CountedAt, JoiningAt, CountTypes
  <2>3. active' = active /\ queued' = Dec(queued) /\ stolen' = stolen
    BY <1>2 DEF CountOut, counters, Goto, StateInv, TypeOK
  <2>4. Balance' = Balance - 1
    BY <1>1, <2>2, <2>3 DEF Balance, CountTypes
  <2>5. queued' = Wrap(Balance')
    BY <2>3, <2>4, QueuedFollows
  <2>. QED  BY <1>1, <2>2, <2>3, <2>5 DEF CountInv, CountTypes
<1>. QED  BY <1>2 DEF CountOut, Goto, StateInv, TypeOK

LEMMA EnterActiveCounts ==
  ASSUME StateInv, StateInv', StolenInv, CountInv, NEW r \in Reqs, EnterActive(r)
  PROVE  CountInv'
<1>1. CountTypes
  BY CountTypesHold
<1>2. CASE pc'[r] = "running"
  <2>1. Goto(r, "running") /\ pc[r] = "entering"
    BY <1>2 DEF EnterActive, Goto, StateInv, TypeOK
  <2>2. /\ Count({"running"})' = Count({"running"}) + 1 /\ Count({"gone"})' = Count({"gone"})
        /\ Count(CountedAt)' = Count(CountedAt) /\ Count(BusyAt)' = Count(BusyAt) - 1
        /\ Count(JoiningAt)' = Count(JoiningAt)
    BY <1>1, <2>1, GroupSteps DEF One, BusyAt, CountedAt, JoiningAt, CountTypes
  <2>3. active' = Inc(active) /\ queued' = queued /\ stolen' = stolen
    BY <1>2 DEF EnterActive, counters, Goto, StateInv, TypeOK
  <2>4. Balance' = Balance
    BY <1>1, <2>2, <2>3 DEF Balance, CountTypes
  <2>5. queued' = Wrap(Balance')
    BY <2>3, <2>4, QueuedFollows
  <2>6. active' = Count({"running"})'
    BY <1>1, <2>2, <2>3, CountRoom DEF CountInv, CountTypes, Inc, Dec
  <2>. QED  BY <1>1, <2>2, <2>3, <2>5, <2>6 DEF CountInv, CountTypes
<1>. QED  BY <1>2 DEF EnterActive, Goto, StateInv, TypeOK

LEMMA DropGuardCounts ==
  ASSUME StateInv, StateInv', StolenInv, CountInv, NEW r \in Reqs, DropGuard(r)
  PROVE  CountInv'
<1>1. CountTypes
  BY CountTypesHold
<1>2. CASE pc'[r] = "leaving"
  <2>1. Goto(r, "leaving") /\ pc[r] = "running"
    BY <1>2 DEF DropGuard, Goto, StateInv, TypeOK
  <2>2. /\ Count({"running"})' = Count({"running"}) - 1 /\ Count({"gone"})' = Count({"gone"})
        /\ Count(CountedAt)' = Count(CountedAt) /\ Count(BusyAt)' = Count(BusyAt) + 1
        /\ Count(JoiningAt)' = Count(JoiningAt)
    BY <1>1, <2>1, GroupSteps DEF One, BusyAt, CountedAt, JoiningAt, CountTypes
  <2>3. active' = Dec(active) /\ queued' = queued /\ stolen' = stolen
    BY <1>2 DEF DropGuard, counters, Goto, StateInv, TypeOK
  <2>4. Balance' = Balance
    BY <1>1, <2>2, <2>3 DEF Balance, CountTypes
  <2>5. queued' = Wrap(Balance')
    BY <2>3, <2>4, QueuedFollows
  <2>6. active' = Count({"running"})'
    BY <1>1, <2>2, <2>3, CountRoom DEF CountInv, CountTypes, Inc, Dec
  <2>7. Count(BusyAt) < Workers
    BY DEF DropGuard, WorkerFree, Busy, Count, BusyAt
  <2>. QED  BY <1>1, <2>2, <2>3, <2>5, <2>6, <2>7 DEF CountInv, CountTypes
<1>. QED  BY <1>2 DEF DropGuard, Goto, StateInv, TypeOK

LEMMA DropPermitCounts ==
  ASSUME StateInv, StateInv', StolenInv, CountInv, NEW r \in Reqs, DropPermit(r)
  PROVE  CountInv'
<1>1. CountTypes
  BY CountTypesHold
<1>2. CASE pc'[r] = "done"
  <2>1. Goto(r, "done") /\ pc[r] = "leaving"
    BY <1>2 DEF DropPermit, Goto, StateInv, TypeOK
  <2>2. /\ Count({"running"})' = Count({"running"}) /\ Count({"gone"})' = Count({"gone"})
        /\ Count(CountedAt)' = Count(CountedAt) /\ Count(BusyAt)' = Count(BusyAt) - 1
        /\ Count(JoiningAt)' = Count(JoiningAt)
    BY <1>1, <2>1, GroupSteps DEF One, BusyAt, CountedAt, JoiningAt, CountTypes
  <2>3. active' = active /\ queued' = queued /\ stolen' = stolen
    BY <1>2 DEF DropPermit, counters, Goto, StateInv, TypeOK
  <2>4. Balance' = Balance
    BY <1>1, <2>2, <2>3 DEF Balance, CountTypes
  <2>5. queued' = Wrap(Balance')
    BY <2>3, <2>4, QueuedFollows
  <2>. QED  BY <1>1, <2>2, <2>3, <2>5 DEF CountInv, CountTypes
<1>. QED  BY <1>2 DEF DropPermit, Goto, StateInv, TypeOK

\* Whoever finds room in the queue saw the counter below its bound, and the
\* counter is less than the requests counted in by the stolen admissions only.
LEMMA LoadQueuedCounts ==
  ASSUME StateInv, StateInv', StolenInv, CountInv, NEW r \in Reqs, LoadQueued(r)
  PROVE  CountInv'
<1>1. CountTypes /\ Count(BusyAt) < Workers
  BY CountTypesHold DEF LoadQueued, WorkerFree, Busy, Count, BusyAt
<1>2. active' = active /\ queued' = queued /\ stolen' = stolen
  BY DEF LoadQueued, counters
<1>3. CASE pc'[r] = "full"
  <2>1. Goto(r, "full") /\ pc[r] = "idle"
    BY <1>3 DEF LoadQueued, Goto, StateInv, TypeOK
  <2>2. /\ Count({"running"})' = Count({"running"}) /\ Count({"gone"})' = Count({"gone"})
        /\ Count(CountedAt)' = Count(CountedAt) /\ Count(BusyAt)' = Count(BusyAt) + 1
        /\ Count(JoiningAt)' = Count(JoiningAt)
    BY <1>1, <2>1, GroupSteps DEF One, BusyAt, CountedAt, JoiningAt, CountTypes
  <2>3. Balance' = Balance
    BY <1>2, <2>2 DEF Balance
  <2>. QED  BY <1>1, <1>2, <2>2, <2>3, QueuedFollows DEF CountInv, CountTypes
<1>4. CASE pc'[r] = "admit"
  <2>1. Goto(r, "admit") /\ pc[r] = "idle" /\ queued < MaxQueueSize
    <3>1. pc[r] = "idle" /\ ~(queued >= MaxQueueSize)
      BY <1>4 DEF LoadQueued, Goto, StateInv, TypeOK
    <3>2. queued \in Nat /\ MaxQueueSize \in Nat
      BY GateAssumption, CounterRange DEF StateInv, TypeOK
    <3>. QED  BY <3>1, <3>2 DEF LoadQueued, Goto
  <2>2. /\ Count({"running"})' = Count({"running"}) /\ Count({"gone"})' = Count({"gone"})
        /\ Count(CountedAt)' = Count(CountedAt) /\ Count(BusyAt)' = Count(BusyAt) + 1
    BY <1>1, <2>1, GroupSteps DEF One, BusyAt, CountedAt, CountTypes
  <2>3. Balance' = Balance
    BY <1>2, <2>2 DEF Balance
  <2>4. queued' = Wrap(Balance')
    BY <1>2, <2>3, QueuedFollows
  <2>5. Balance < MaxQueueSize
    <3>1. Balance \in -N..N /\ queued = Wrap(Balance)
      BY BalanceRange DEF StateInv, CountInv
    <3>2. CASE Balance < 0
      BY <3>1, <3>2, <1>1 DEF CountTypes
    <3>3. CASE Balance >= 0
      BY <3>1, <3>3, <2>1 DEF Wrap
    <3>. QED  BY <3>1, <3>2, <3>3, <1>1 DEF CountTypes
  <2>6. Count(CountedAt) <= MaxQueueSize - 1 + Cardinality(stolen)
    BY <1>1, <2>5 DEF Balance, CountTypes
  <2>7. Count(JoiningAt)' <= MaxQueueSize - 1 + Workers + Cardinality(stolen)
    <3>1. Count(JoiningAt)' \in Nat
      BY GateAssumption, FS_Subset, FS_CardinalityType DEF Count, At
    <3>. QED  BY <1>1, <2>2, <2>6, <3>1, JoinBound DEF CountTypes
  <2>. QED  BY <1>1, <1>2, <2>2, <2>4, <2>7 DEF CountInv, CountTypes
<1>. QED  BY <1>3, <1>4 DEF LoadQueued, Goto, StateInv, TypeOK

LEMMA CountsStep ==
  StateInv /\ StateInv' /\ StolenInv /\ CountInv /\ [Next]_vars => CountInv'
<1> SUFFICES ASSUME StateInv, StateInv', StolenInv, CountInv, [Next]_vars
             PROVE  CountInv'
  OBVIOUS
<1>1. CASE UNCHANGED <<pc, active, queued, stolen>>
  BY <1>1 DEF CountInv, Count, Balance, At, Wrap
<1>2. ASSUME NEW r \in Reqs, BumpThrottled(r) PROVE CountInv'
  BY <1>1, <1>2 DEF BumpThrottled
<1>3. ASSUME NEW c \in Recs, Reconcile(c) PROVE CountInv'
  BY <1>1, <1>3 DEF Reconcile, LoadGranted, Finish, AddDiff, ForgetOne, StoreGranted, counters
<1>4. ASSUME NEW r \in Reqs, Acquire(r) PROVE CountInv'
  BY <1>4, LoadQueuedCounts, TryAcquireCounts, CountInCounts, PollCounts, CountOutCounts,
     EnterActiveCounts, WakeCounts DEF Acquire, SyncStep
<1>5. ASSUME NEW r \in Reqs, DropActiveGuard(r) PROVE CountInv'
  BY <1>5, DropGuardCounts, DropPermitCounts DEF DropActiveGuard
<1>6. CASE UNCHANGED vars
  BY <1>1, <1>6 DEF vars, counters
<1>. QED  BY <1>2, <1>3, <1>4, <1>5, <1>6, DisconnectCounts DEF Next

\* `active` is the number of requests running, `queued` is the number counted
\* in and of those gone, less the admissions never counted in, and no more
\* requests than there are workers stand between two steps of the gate.
THEOREM CountsKept == Spec => [](StolenInv /\ CountInv)
<1>1. Init => StolenInv /\ CountInv
  BY InitCounts
<1>2. StateInv /\ StateInv' /\ StolenInv /\ CountInv /\ [Next]_vars => StolenInv' /\ CountInv'
  BY StolenStep, CountsStep
<1>. QED  BY <1>1, <1>2, StateCorrect, PTL DEF Spec

\* The counter of waiters is what the two races leave of it, whatever wraps:
\* requests counted in, and those gone, less admissions never counted in.
THEOREM QueuedRebuilt == Spec => []QueuedExact
<1>1. StolenInv /\ CountInv => QueuedExact
  <2>1. Balance = QueuedBalance
    BY DEF Balance, QueuedBalance, Count, Counted, CountedAt
  <2>. QED  BY <2>1 DEF CountInv, QueuedExact, Wrap
<1>. QED  BY <1>1, CountsKept, PTL

\* Requests pass the look at a full queue together, but no more than there
\* are workers, and once for each admission that was never counted in.
THEOREM QueueIsBounded == Spec => []QueueBounded
<1>1. StateInv /\ StolenInv /\ CountInv => QueueBounded
  <2> SUFFICES ASSUME StateInv, StolenInv, CountInv PROVE QueueBounded
    OBVIOUS
  <2>1. /\ Len(waiters) \in Nat /\ DOMAIN waiters = 1..Len(waiters)
        /\ \A i, j \in 1..Len(waiters) : waiters[i] = waiters[j] => i = j
        /\ \A i \in 1..Len(waiters) : waiters[i] \in At(JoiningAt)
    BY DEF StateInv, SemLink, SemInv, SemTypeOK, Waiting, At, JoiningAt
  <2>2. IsFiniteSet(At(JoiningAt)) /\ Count(JoiningAt) \in Nat
    BY AtFinite DEF Count
  <2>3. Len(waiters) <= Count(JoiningAt)
    <3> DEFINE f == [i \in 1..Len(waiters) |-> waiters[i]]
    <3>1. f \in Injection(1..Len(waiters), At(JoiningAt))
      BY <2>1 DEF Injection, IsInjective
    <3>2. Cardinality(1..Len(waiters)) = Len(waiters) /\ IsFiniteSet(1..Len(waiters))
      BY <2>1, FS_Interval
    <3>3. Cardinality(1..Len(waiters)) <= Cardinality(At(JoiningAt))
      BY <2>2, <3>1, FS_Injection
    <3>. QED  BY <3>2, <3>3 DEF Count
  <2>. QED
    BY <2>1, <2>2, <2>3, GateAssumption DEF CountInv, QueueBounded, StolenInv
<1>. QED  BY <1>1, StateCorrect, CountsKept, PTL

\* Between resizes that did not overlap the upstream sees no more requests
\* than the limit in force and the permits no shrink found.
THEOREM ActiveBounded == Spec => []ActiveWithinLimit
<1>1. StateInv /\ StolenInv /\ CountInv /\ PermitAccounting => ActiveWithinLimit
  <2> SUFFICES ASSUME StateInv, CountInv, Issued = granted + missed
               PROVE  active <= granted + missed
    BY DEF ActiveWithinLimit, PermitAccounting
  <2>1. At({"running"}) \subseteq Owners
    BY DEF At, Owners, Holders
  <2>2. Cardinality(At({"running"})) <= Cardinality(Owners) /\ Cardinality(At({"running"})) \in Nat
    BY <2>1, HoldersDontWait, FS_Subset, FS_CardinalityType
  <2>. QED  BY <2>2, HoldersDontWait DEF CountInv, Count, Issued
<1>. QED  BY <1>1, StateCorrect, CountsKept, PermitsAccounted, PTL

-----------------------------------------------------------------------------
(* The gate implements the FIFO queue. *)

LEMMA SameCardinality == \A S : Fifo!Cardinality(S) = Cardinality(S)
BY DEF Fifo!Cardinality, Cardinality

\* What FifoGate sees.
SameView == waiters' = waiters /\ Owners' = Owners /\ Issued' = Issued

LEMMA HoldersMove ==
  ASSUME StateInv, NEW r \in Reqs, NEW at, Goto(r, at), UNCHANGED handed,
         at \in {"took", "entering", "running", "leaving"}
           <=> pc[r] \in {"took", "entering", "running", "leaving"}
  PROVE  Owners' = Owners
BY DEF StateInv, TypeOK, Goto, Owners, Holders, At

LEMMA QuietSteps ==
  ASSUME StateInv, NEW r \in Reqs,
         \/ LoadQueued(r) \/ CountIn(r) \/ CountOut(r) \/ EnterActive(r)
         \/ DropGuard(r) \/ BumpThrottled(r)
  PROVE  SameView
<1>1. Issued' = Issued
  BY RequestState DEF Acquire, SyncStep, DropActiveGuard
<1>2. Owners' = Owners
  BY DEF LoadQueued, CountIn, CountOut, EnterActive, DropGuard, BumpThrottled,
     StateInv, TypeOK, Goto, Owners, Holders, At, semVars
<1>3. waiters' = waiters
  BY DEF LoadQueued, CountIn, CountOut, EnterActive, DropGuard, BumpThrottled, semVars
<1>. QED  BY <1>1, <1>2, <1>3 DEF SameView

LEMMA WakeQuiet ==
  ASSUME StateInv, NEW r \in Reqs, Wake(r)
  PROVE  SameView
<1>1. Issued' = Issued
  BY WakeState
<1>2. handed' = handed \ {r} /\ r \in handed /\ waiters' = waiters
  BY DEF Wake, Collect
<1>3. Holders' = Holders \cup {r}
  BY DEF Wake, StateInv, TypeOK, Goto, Holders, At
<1>4. Owners' = Owners
  BY <1>2, <1>3 DEF Owners
<1>. QED  BY <1>1, <1>2, <1>4 DEF SameView

LEMMA Enters ==
  ASSUME StateInv, NEW r \in Reqs, TakePermit, TypeOK',
         pc[r] \in {"full", "polling"}, Goto(r, "took")
  PROVE  Fifo!Enter(r)
<1>1. Issued' = Issued
  BY TakeState
<1>2. waiters' = waiters /\ handed' = handed /\ permits > 0
  BY DEF TakePermit
<1>3. Holders' = Holders \cup {r}
  BY DEF StateInv, TypeOK, Goto, Holders, At
<1>4. Owners' = Owners \cup {r}
  BY <1>2, <1>3 DEF Owners
<1>5. r \notin Owners \cup Waiting
  BY DEF StateInv, SemLink, Owners, Holders, At
<1>6. Cardinality(Owners) < Issued
  BY <1>2, HoldersDontWait DEF Issued
<1>. QED
  BY <1>1, <1>2, <1>4, <1>5, <1>6, SameCardinality
  DEF Fifo!Enter, Fifo!Queued, Waiting

LEMMA PollEntersOrJoins ==
  ASSUME StateInv, StateInv', NEW r \in Reqs, Poll(r)
  PROVE  Fifo!Enter(r) \/ Fifo!Join(r)
<1>1. CASE TakePermit /\ Goto(r, "took")
  BY <1>1, Enters DEF Poll, StateInv
<1>2. CASE Enqueue(r) /\ Goto(r, "waiting")
  <2>1. Issued' = Issued
    BY PollState
  <2>2. waiters' = Append(waiters, r) /\ handed' = handed /\ permits = 0
    BY <1>2 DEF Enqueue
  <2>3. Holders' = Holders
    BY <1>2 DEF Poll, StateInv, TypeOK, Goto, Holders, At
  <2>4. Owners' = Owners
    BY <2>2, <2>3 DEF Owners
  <2>5. r \notin Owners \cup Waiting
    BY DEF Poll, StateInv, SemLink, Owners, Holders, At
  <2>6. Cardinality(Owners) >= Issued
    BY <2>2, HoldersDontWait DEF Issued
  <2>. QED
    BY <2>1, <2>2, <2>4, <2>5, <2>6, SameCardinality
    DEF Fifo!Join, Fifo!Queued, Waiting
<1>. QED  BY <1>1, <1>2 DEF Poll

LEMMA TryEntersOrNot ==
  ASSUME StateInv, StateInv', NEW r \in Reqs, TryAcquire(r)
  PROVE  Fifo!Enter(r) \/ SameView
<1>1. CASE TakePermit /\ Goto(r, "took")
  BY <1>1, Enters DEF TryAcquire, StateInv
<1>2. CASE Goto(r, "rejected") /\ UNCHANGED semVars
  <2>1. Owners' = Owners
    BY <1>2 DEF TryAcquire, StateInv, TypeOK, Goto, Owners, Holders, At, semVars
  <2>. QED  BY <1>2, <2>1, TryAcquireState DEF SameView, semVars
<1>. QED  BY <1>1, <1>2 DEF TryAcquire

\* Released permits serve the queue as FifoGate does.
LEMMA ServesOne ==
  ASSUME NEW r, Issued \in Nat, Issued' = Issued,
         waiters' = SubSeq(waiters, HandOff(1) + 1, Len(waiters)),
         Owners' = (Owners \ {r}) \cup {waiters[i] : i \in 1..HandOff(1)}
  PROVE  Fifo!Serve({r}, 0)
<1>1. Fifo!Cardinality({r}) = 1
  BY SameCardinality, FS_Singleton
<1>2. 0 + Fifo!Cardinality({r}) = 1
  BY <1>1
<1>3. Issued' = Issued + 0
  OBVIOUS
<1>. QED  BY <1>2, <1>3 DEF Fifo!Serve, HandOff

LEMMA ServesNew ==
  ASSUME NEW n \in Nat, Issued' = Issued + n,
         waiters' = SubSeq(waiters, HandOff(n) + 1, Len(waiters)),
         Owners' = Owners \cup {waiters[i] : i \in 1..HandOff(n)}
  PROVE  Fifo!Serve({}, n)
<1>1. Fifo!Cardinality({}) = 0
  BY SameCardinality, FS_EmptySet
<1>2. n + Fifo!Cardinality({}) = n
  BY <1>1
<1>3. Owners \ {} = Owners
  OBVIOUS
<1>. QED  BY <1>2, <1>3 DEF Fifo!Serve, HandOff

LEMMA DropLeaves ==
  ASSUME StateInv, NEW r \in Reqs, DropPermit(r)
  PROVE  Fifo!Leave(r)
<1>1. /\ Holders' = Holders \ {r} /\ r \in Holders /\ r \notin handed
  BY DEF DropPermit, StateInv, TypeOK, SemLink, Goto, Holders, At
<1>2. /\ waiters' = SubSeq(waiters, HandOff(1) + 1, Len(waiters))
      /\ handed' = handed \cup {waiters[i] : i \in 1..HandOff(1)}
  BY DEF DropPermit, AddPermits
<1>3. r \notin {waiters[i] : i \in 1..HandOff(1)}
  <2>1. r \notin Waiting
    BY <1>1, HoldersDontWait
  <2>2. DOMAIN waiters = 1..Len(waiters) /\ Len(waiters) \in Nat
    BY LenProperties DEF StateInv, TypeOK, SemTypeOK
  <2>. QED  BY <2>1, <2>2 DEF Waiting, HandOff
<1>4. Owners' = (Owners \ {r}) \cup {waiters[i] : i \in 1..HandOff(1)}
  BY <1>1, <1>2, <1>3 DEF Owners
<1>5. r \in Owners
  BY <1>1 DEF Owners
<1>6. Issued' = Issued /\ Issued \in Nat
  BY DropPermitState, HoldersDontWait
<1>7. Fifo!Serve({r}, 0)
  BY <1>2, <1>4, <1>6, ServesOne
<1>. QED  BY <1>5, <1>7 DEF Fifo!Leave

LEMMA DisconnectLeavesOrGivesUp ==
  ASSUME StateInv, NEW r \in Reqs, Disconnect(r)
  PROVE  Fifo!Leave(r) \/ Fifo!GiveUp(r)
<1>1. Holders' = Holders /\ r \notin Holders /\ Issued' = Issued
  BY DisconnectState DEF Disconnect, StateInv, TypeOK, Goto, Holders, At
<1>2. CASE Withdraw(r)
  <2>1. Owners' = Owners
    BY <1>1, <1>2 DEF Withdraw, Owners
  <2>2. \E i \in DOMAIN waiters : waiters[i] = r /\ waiters' = RemoveAt(waiters, i)
    BY <1>2 DEF Withdraw
  <2>. QED  BY <1>1, <2>1, <2>2 DEF Fifo!GiveUp, Fifo!RemoveAt, RemoveAt
<1>3. CASE PassOn(r)
  <2>1. r \in handed /\ r \in Owners /\ r \notin Waiting
    BY <1>3 DEF PassOn, Owners, StateInv, SemLink, SemInv
  <2>2. waiters \in Seq(Reqs) /\ Len(waiters) \in Nat
    BY LenProperties DEF StateInv, TypeOK, SemTypeOK
  <2>3. /\ waiters' = SubSeq(waiters, HandOff(1) + 1, Len(waiters))
        /\ handed' = (handed \ {r}) \cup {waiters[i] : i \in 1..HandOff(1)}
    <3>1. CASE waiters = <<>>
      BY <1>3, <3>1, <2>2 DEF PassOn, HandOff
    <3>2. CASE waiters # <<>>
      <4>1. Len(waiters) >= 1 /\ HandOff(1) = 1
        BY <2>2, <3>2 DEF HandOff
      <4>2. Tail(waiters) = SubSeq(waiters, 2, Len(waiters))
        BY <2>2, <4>1, SubSeqProperties, HeadTailProperties
      <4>3. {waiters[i] : i \in 1..1} = {Head(waiters)}
        BY <2>2, <3>2
      <4>. QED  BY <1>3, <3>2, <4>1, <4>2, <4>3 DEF PassOn
    <3>. QED  BY <3>1, <3>2
  <2>4. Owners' = (Owners \ {r}) \cup {waiters[i] : i \in 1..HandOff(1)}
    BY <1>1, <2>3 DEF Owners
  <2>5. Issued \in Nat
    BY HoldersDontWait
  <2>6. Fifo!Serve({r}, 0)
    BY <1>1, <2>3, <2>4, <2>5, ServesOne
  <2>. QED  BY <2>1, <2>6 DEF Fifo!Leave
<1>. QED  BY <1>2, <1>3 DEF Disconnect, Abandon

LEMMA ResizeSteps ==
  ASSUME StateInv, StateInv', NEW c \in Recs, Reconcile(c)
  PROVE  Fifo!Grow \/ Fifo!Shrink \/ SameView
<1>1. Holders' = Holders
  BY DEF Reconcile, LoadGranted, Finish, AddDiff, ForgetOne, StoreGranted, Holders, At
<1>2. CASE LoadGranted(c) \/ StoreGranted(c)
  <2>1. UNCHANGED semVars
    BY <1>2 DEF LoadGranted, StoreGranted
  <2>. QED
    BY <1>1, <1>2, <2>1, LoadGrantedState, StoreGrantedState DEF SameView, Owners, semVars
<1>3. CASE AddDiff(c)
  <2>1. rdiff[c] \in Nat /\ rdiff[c] > 0 /\ Issued' = Issued + rdiff[c]
    BY <1>3, AddDiffState DEF AddDiff, StateInv, TypeOK
  <2>2. /\ waiters' = SubSeq(waiters, HandOff(rdiff[c]) + 1, Len(waiters))
        /\ handed' = handed \cup {waiters[i] : i \in 1..HandOff(rdiff[c])}
    BY <1>3 DEF AddDiff, AddPermits
  <2>3. Owners' = Owners \cup {waiters[i] : i \in 1..HandOff(rdiff[c])}
    BY <1>1, <2>2 DEF Owners
  <2>4. Issued \in Nat /\ rdiff[c] = Issued' - Issued /\ Issued' \in Nat /\ Issued' > Issued
    BY <2>1, HoldersDontWait
  <2>5. Fifo!Serve({}, rdiff[c])
    BY <2>1, <2>2, <2>3, ServesNew
  <2>. QED  BY <2>4, <2>5 DEF Fifo!Grow
<1>4. CASE ForgetOne(c)
  <2>1. CASE TakePermit /\ UNCHANGED missed
    <3>1. Issued' = Issued - 1
      BY <1>4, <2>1, ForgetOneState DEF StateInv, TypeOK
    <3>2. Owners' = Owners /\ waiters' = waiters /\ permits > 0
      BY <1>1, <2>1 DEF TakePermit, Owners
    <3>3. Cardinality(Owners) < Issued
      BY <3>2, HoldersDontWait DEF Issued
    <3>. QED  BY <3>1, <3>2, <3>3, SameCardinality DEF Fifo!Shrink
  <2>2. CASE UNCHANGED semVars /\ missed' = missed + 1
    BY <1>1, <1>4, <2>2, ForgetOneState DEF SameView, Owners, semVars, StateInv, TypeOK
  <2>. QED  BY <1>4, <2>1, <2>2 DEF ForgetOne
<1>. QED  BY <1>2, <1>3, <1>4 DEF Reconcile, Finish

LEMMA FifoStep == StateInv /\ StateInv' /\ [Next]_vars => [Fifo!Next]_Fifo!vars
<1> SUFFICES ASSUME StateInv, StateInv', [Next]_vars PROVE [Fifo!Next]_Fifo!vars
  OBVIOUS
<1>1. CASE SameView
  BY <1>1 DEF SameView, Fifo!vars
<1>2. ASSUME NEW r \in Reqs,
             Acquire(r) \/ Disconnect(r) \/ BumpThrottled(r) \/ DropActiveGuard(r)
      PROVE  [Fifo!Next]_Fifo!vars
  BY <1>1, <1>2, QuietSteps, WakeQuiet, PollEntersOrJoins, TryEntersOrNot, DropLeaves,
     DisconnectLeavesOrGivesUp
  DEF Acquire, SyncStep, DropActiveGuard, Fifo!Next
<1>3. ASSUME NEW c \in Recs, Reconcile(c) PROVE [Fifo!Next]_Fifo!vars
  BY <1>1, <1>3, ResizeSteps DEF Fifo!Next
<1>4. CASE UNCHANGED vars
  BY <1>1, <1>4, StutterState DEF vars, semVars, SameView, Owners, Holders, At
<1>. QED  BY <1>2, <1>3, <1>4 DEF Next

\* Every behaviour of the gate is one of FifoGate, with the requests that wait
\* as its queue, those that own a permit as its running requests and the
\* permits in existence as its limit.
THEOREM Refinement == Spec => ImplementsFifoGate
<1>1. Init => Fifo!Init
  <2> SUFFICES ASSUME Init PROVE Fifo!Init
    OBVIOUS
  <2>1. StateInv /\ Owners = {}
    BY InitState DEF Init, SemInit, Owners, Holders, At
  <2>. QED  BY <2>1, HoldersDontWait DEF Init, SemInit, Fifo!Init
<1>2. StateInv /\ StateInv' /\ [Next]_vars => [Fifo!Next]_Fifo!vars
  BY FifoStep
<1>. QED  BY <1>1, <1>2, StateCorrect, PTL DEF Spec, ImplementsFifoGate, Fifo!Spec

\* What NoOvertaking says of a step.
InOrder ==
  /\ \A i \in DOMAIN waiters : waiters[i] \in Owners' => \A j \in 1..i : waiters[j] \in Owners'
  /\ (Owners' \ Owners) \ Waiting # {} => waiters = <<>>

LEMMA QueueFacts ==
  ASSUME StateInv
  PROVE  /\ DOMAIN waiters = 1..Len(waiters) /\ Len(waiters) \in Nat
         /\ \A i, j \in 1..Len(waiters) : waiters[i] = waiters[j] => i = j
         /\ \A i \in 1..Len(waiters) : waiters[i] \in Waiting /\ waiters[i] \notin Owners
BY LenProperties, HoldersDontWait DEF StateInv, TypeOK, SemTypeOK, SemLink, SemInv, Owners, Waiting

\* Places that go to the head of the queue go out in order.
LEMMA ServedInOrder ==
  ASSUME StateInv, NEW gone, NEW n \in Nat, Fifo!Serve(gone, n), Fifo!Cardinality(gone) \in Nat
  PROVE  InOrder
<1> DEFINE open == n + Fifo!Cardinality(gone)
           k == IF open <= Len(waiters) THEN open ELSE Len(waiters)
<1>1. Owners' = (Owners \ gone) \cup {waiters[i] : i \in 1..k}
  BY DEF Fifo!Serve
<1>2. k \in Nat /\ k <= Len(waiters)
  BY QueueFacts
<1>. HIDE DEF k
<1>3. \A i \in DOMAIN waiters : waiters[i] \in Owners' => i <= k
  BY <1>1, <1>2, QueueFacts
<1>4. \A j \in 1..k : waiters[j] \in Owners'
  BY <1>1
<1>5. \A i \in DOMAIN waiters : waiters[i] \in Owners' => \A j \in 1..i : waiters[j] \in Owners'
  BY <1>2, <1>3, <1>4, QueueFacts
<1>6. (Owners' \ Owners) \ Waiting = {}
  BY <1>1, <1>2, QueueFacts
<1>. QED  BY <1>5, <1>6 DEF InOrder

LEMMA UnservedInOrder ==
  ASSUME StateInv, Owners' = Owners
  PROVE  InOrder
BY QueueFacts DEF InOrder

LEMMA StepInOrder ==
  ASSUME StateInv, StateInv', [Fifo!Next]_Fifo!vars
  PROVE  InOrder
<1>1. ASSUME NEW r \in Reqs, Fifo!Enter(r) PROVE InOrder
  <2>1. Cardinality(Owners) < Issued
    BY <1>1, SameCardinality DEF Fifo!Enter
  <2>2. permits > 0
    BY <2>1, HoldersDontWait DEF Issued
  <2>3. waiters = <<>>
    BY <2>2 DEF StateInv, SemLink, SemInv
  <2>. QED  BY <2>3 DEF InOrder
<1>2. ASSUME NEW r \in Reqs, Fifo!Leave(r) PROVE InOrder
  <2>1. Fifo!Serve({r}, 0)
    BY <1>2 DEF Fifo!Leave
  <2>2. Fifo!Cardinality({r}) = 1
    BY SameCardinality, FS_Singleton
  <2>. QED  BY <2>1, <2>2, ServedInOrder
<1>3. ASSUME Fifo!Grow PROVE InOrder
  <2>1. Issued' - Issued \in Nat /\ Fifo!Serve({}, Issued' - Issued)
    BY <1>3, HoldersDontWait DEF Fifo!Grow
  <2>2. Fifo!Cardinality({}) \in Nat
    BY SameCardinality, FS_EmptySet
  <2>. QED  BY <2>1, <2>2, ServedInOrder
<1>4. ASSUME NEW r \in Reqs, Fifo!Join(r) \/ Fifo!GiveUp(r) PROVE InOrder
  BY <1>4, UnservedInOrder DEF Fifo!Join, Fifo!GiveUp
<1>5. CASE Fifo!Shrink
  BY <1>5, UnservedInOrder DEF Fifo!Shrink
<1>6. CASE UNCHANGED Fifo!vars
  BY <1>6, UnservedInOrder DEF Fifo!vars
<1>. QED  BY <1>1, <1>2, <1>3, <1>4, <1>5, <1>6 DEF Fifo!Next

\* Nobody is overtaken: a waiting request gets a permit only with, or after,
\* everybody ahead of it, and a newcomer only when nobody waits.
THEOREM NoneOvertaken == Spec => NoOvertaking
<1>1. StateInv /\ StateInv' /\ [Next]_vars => [InOrder]_Fifo!vars
  BY FifoStep, StepInOrder
<1>2. Fifo!Queued = Waiting
  BY DEF Fifo!Queued, Waiting
<1>3. StateInv /\ StateInv' /\ [Next]_vars =>
        [ /\ \A i \in DOMAIN waiters : waiters[i] \in Owners' =>
                \A j \in 1..i : waiters[j] \in Owners'
          /\ (Owners' \ Owners) \ Fifo!Queued # {} => waiters = <<>> ]_Fifo!vars
  BY <1>1, <1>2 DEF InOrder
<1>. QED  BY <1>3, StateCorrect, PTL DEF Spec, NoOvertaking, Fifo!NoOvertaking
=============================================================================
