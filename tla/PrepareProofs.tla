---------------------------- MODULE PrepareProofs ----------------------------
(***************************************************************************)
(* Theorems about Prepare, for any number of tasks, conversations, keys,   *)
(* images and catalogs, and any size of the map and of the cache.          *)
(***************************************************************************)
EXTENDS Prepare, SequencesExt, SequenceTheorems, FiniteSetTheorems, TLAPS

\* RemoveAt drops one element and keeps the order of the others.
LEMMA RemoveAtFacts ==
  ASSUME NEW T, NEW s \in Seq(T), NEW i \in DOMAIN s
  PROVE  /\ RemoveAt(s, i) \in Seq(T)
         /\ Len(RemoveAt(s, i)) = Len(s) - 1
         /\ \A j \in 1..Len(s) - 1 :
              RemoveAt(s, i)[j] = IF j < i THEN s[j] ELSE s[j + 1]
<1> DEFINE a == SubSeq(s, 1, i - 1)
           b == SubSeq(s, i + 1, Len(s))
<1>0. i \in 1..Len(s) /\ Len(s) \in Nat /\ \A j \in 1..Len(s) : s[j] \in T
  BY LenProperties, ElementOfSeq
<1>1. a \in Seq(T) /\ Len(a) = i - 1 /\ \A j \in 1..i - 1 : a[j] = s[j]
  BY <1>0, SubSeqProperties
<1>2. b \in Seq(T) /\ Len(b) = Len(s) - i /\ \A j \in 1..Len(s) - i : b[j] = s[i + j]
  BY <1>0, SubSeqProperties
<1>3. RemoveAt(s, i) = a \o b
  BY DEF RemoveAt
<1> HIDE DEF a, b
<1>4. /\ a \o b \in Seq(T) /\ Len(a \o b) = Len(a) + Len(b)
      /\ \A j \in 1..Len(a) + Len(b) : (a \o b)[j] = IF j <= Len(a) THEN a[j] ELSE b[j - Len(a)]
  BY <1>1, <1>2, ConcatProperties
<1>5. ASSUME NEW j \in 1..Len(s) - 1 PROVE (a \o b)[j] = IF j < i THEN s[j] ELSE s[j + 1]
  <2>1. \/ j < i /\ j <= Len(a) /\ j \in 1..i - 1
        \/ ~(j < i) /\ ~(j <= Len(a)) /\ j - Len(a) \in 1..Len(s) - i /\ i + (j - Len(a)) = j + 1
    BY <1>0, <1>1
  <2>2. j \in 1..Len(a) + Len(b)
    BY <1>0, <1>1, <1>2
  <2> QED BY <2>1, <2>2, <1>1, <1>2, <1>4
<1>6. Len(a \o b) = Len(s) - 1
  BY <1>0, <1>1, <1>2, <1>4
<1> QED BY <1>3, <1>4, <1>5, <1>6

-----------------------------------------------------------------------------
(* The inductive invariant. *)

Distinct(s) == \A i, j \in DOMAIN s : s[i] = s[j] => i = j

Places == {"touched", "keyed", "tracked", "resolved", "limited",
           "handoff", "analysing", "sent"}
Looks == UNION {[S -> {"get", "ask", "description", "failure"}] : S \in SUBSET Nat}

\* A request in hand.
Request ==
  [at : Places, conv : Convs, slot : Slots \cup {0}, moved : BOOLEAN, model : Name,
   parts : Seq(Part), look : Looks]

\* Types: of the constants chosen at the start, of the tasks, of the map and the cache.
TypeOK ==
  /\ catalog \in Catalogs \cup {NoCatalog} /\ cfg \in Configs /\ load \in Loads
  /\ usable \subseteq Slots
  /\ task \in [Tasks -> Request \cup {Idle}]
  /\ session \in [Convs -> [token : Slots \cup {0}, count : Nat, num : Nat]] /\ counter \in Nat
  /\ order \in Seq(Convs) /\ recency \in Seq(Convs)
  /\ lru \in Seq(Entry) /\ used \in Seq(Digests) /\ lapsed \subseteq Digests
  /\ slots \in [Convs -> SUBSET Slots] /\ excused \subseteq Convs /\ doubled \in BOOLEAN

\* The map holds the conversations used last, as many as an eviction leaves at least.
MapOK ==
  /\ Distinct(recency)
  /\ Len(order) <= Len(recency) /\ \A i \in DOMAIN order : order[i] = recency[i]
  /\ Len(order) > EvictTo \/ Len(order) = Len(recency)
  /\ Len(order) <= MapMax

\* A request that is not tracked yet goes by what the map remembers.
Bound(e) ==
  /\ e.at = "touched" /\ e.conv \notin excused => e.slot = session[e.conv].token
  /\ e.at = "keyed" => /\ e.slot # 0
                       /\ e.conv \in excused \/ session[e.conv].token \in {0, e.slot}

\* What the map remembers of a conversation is the slot it was given.
SlotsOK ==
  /\ \A c \in Convs : ~Known(c) => session[c] = NoSession
  /\ \A c \in Convs \ excused :
       slots[c] = IF session[c].token = 0 THEN {} ELSE {session[c].token}
  /\ \A t \in Tasks : Bound(task[t])

AllImages(parts) == \A i \in DOMAIN parts : parts[i].is = "image"

\* No image was described; not too many stay in place; those left out are the
\* oldest, and as many as were too many.
Plain(parts) == \A i \in DOMAIN parts : parts[i].is \in {"image", "shared"}
Few(parts) == cfg.maxImages > 0 => Cardinality(InPlace(parts)) <= cfg.maxImages
OldestOut(parts) ==
  /\ Shared(parts) # {} => Cardinality(InPlace(parts)) = cfg.maxImages
  /\ \A i \in Shared(parts), j \in InPlace(parts) : i < j

\* How far the images are in the request e of task t; after the catalog has
\* changed less is said of them.
PartsOK(t, e) ==
  LET needs == NeedsHandoff(e.model, cfg)
  IN /\ e.at \in {"touched", "keyed", "tracked", "resolved"} => AllImages(e.parts)
     /\ e.at = "analysing" => DOMAIN e.look = ImageParts(e.parts)
     /\ e.at \in {"limited", "handoff", "analysing", "sent"} =>
          OldestOut(e.parts) /\ (~Chat(t) => Few(e.parts))
     /\ e.at = "limited" => Plain(e.parts)
     /\ ~e.moved =>
          /\ e.at = "limited" => IF Chat(t) /\ needs THEN Shared(e.parts) = {} ELSE Few(e.parts)
          /\ e.at \in {"handoff", "analysing"} => needs /\ (Chat(t) => Shared(e.parts) = {})
          /\ e.at = "sent" =>
               IF needs THEN ImageParts(e.parts) = {} /\ (Chat(t) => Shared(e.parts) = {})
                        ELSE Few(e.parts) /\ Plain(e.parts)

ImagesOK == \A t \in Tasks : task[t] # Idle => PartsOK(t, task[t])

DistinctDigests(s) == \A i, j \in DOMAIN s : s[i].digest = s[j].digest => i = j

\* The cache never holds a digest twice, nor more than it has room for.
CacheOK ==
  /\ DistinctDigests(lru)
  /\ Len(lru) <= CacheSize

\* What it holds was used and has not lapsed since, in the order of use, and
\* what it has given up is not among the images used last.
Agreeing ==
  /\ Distinct(used)
  /\ \A i \in DOMAIN lru : lru[i].digest \in ToSet(used) \ lapsed
  /\ \A i, j \in DOMAIN lru, p, q \in DOMAIN used :
       i < j /\ used[p] = lru[i].digest /\ used[q] = lru[j].digest => p < q
  /\ \A p \in DOMAIN used : used[p] \notin lapsed /\ ~InCache(used[p]) => p > CacheSize

IInv == TypeOK /\ MapOK /\ SlotsOK /\ ImagesOK /\ CacheOK /\ (~doubled => Agreeing)

-----------------------------------------------------------------------------
(* A sequence with an element moved to the front, or put there. *)

\* Where the element at i comes from when the one at p goes to the front.
Origin(i, p) == IF i <= p THEN i - 1 ELSE i

\* y is s with its element at p gone and x in front; past the end, no element goes.
Fronted(s, y, x, p) ==
  /\ p \in 1..Len(s) + 1
  /\ Len(y) = IF p <= Len(s) THEN Len(s) ELSE Len(s) + 1
  /\ y[1] = x
  /\ \A i \in 2..Len(y) : y[i] = s[Origin(i, p)]

\* The others stay, in their order, and none comes closer to the front.
Carried(s, y, p) ==
  /\ Len(s) \in Nat /\ Len(y) \in Nat /\ DOMAIN s = 1..Len(s)
  /\ DOMAIN y = 1..Len(y) /\ DOMAIN y = {1} \cup 2..Len(y)
  /\ \A i \in 2..Len(y) :
       Origin(i, p) \in DOMAIN s \ {p} /\ y[i] = s[Origin(i, p)] /\ Origin(i, p) <= i
  /\ \A i, k \in 2..Len(y) : i < k => Origin(i, p) < Origin(k, p)
  /\ \A k \in DOMAIN s \ {p} : \E i \in 2..Len(y) : Origin(i, p) = k

LEMMA FrontedFacts ==
  ASSUME NEW T, NEW s \in Seq(T), NEW y \in Seq(T), NEW x, NEW p, Fronted(s, y, x, p)
  PROVE  Carried(s, y, p)
<1>1. Len(s) \in Nat /\ Len(y) \in Nat /\ DOMAIN s = 1..Len(s) /\ DOMAIN y = 1..Len(y)
  BY LenProperties
<1>2. p \in 1..Len(s) + 1 /\ Len(y) = IF p <= Len(s) THEN Len(s) ELSE Len(s) + 1
  BY DEF Fronted
<1>3. DOMAIN y = {1} \cup 2..Len(y)
  BY <1>1, <1>2
<1>4. ASSUME NEW i \in 2..Len(y) PROVE Origin(i, p) \in DOMAIN s \ {p} /\ Origin(i, p) <= i
  BY <1>1, <1>2 DEF Origin
<1>5. ASSUME NEW i \in 2..Len(y), NEW k \in 2..Len(y), i < k PROVE Origin(i, p) < Origin(k, p)
  BY <1>1, <1>2, <1>5 DEF Origin
<1>6. ASSUME NEW k \in DOMAIN s \ {p} PROVE \E i \in 2..Len(y) : Origin(i, p) = k
  <2>1. CASE k < p
    <3>1. k + 1 \in 2..Len(y) /\ Origin(k + 1, p) = k
      BY <1>1, <1>2, <2>1 DEF Origin
    <3> QED BY <3>1
  <2>2. CASE k > p
    <3>1. k \in 2..Len(y) /\ Origin(k, p) = k
      BY <1>1, <1>2, <2>2 DEF Origin
    <3> QED BY <3>1
  <2> QED BY <1>1, <1>2, <2>1, <2>2
<1> QED BY <1>1, <1>3, <1>4, <1>5, <1>6 DEF Fronted, Carried

\* What stands behind x when the element at p is removed, or none is.
LEMMA FrontedBy ==
  ASSUME NEW T, NEW s \in Seq(T), NEW x \in T, NEW p \in 1..Len(s) + 1, NEW r \in Seq(T),
         IF p <= Len(s) THEN p \in DOMAIN s /\ r = RemoveAt(s, p) ELSE r = s
  PROVE  <<x>> \o r \in Seq(T) /\ Fronted(s, <<x>> \o r, x, p)
<1> DEFINE y == <<x>> \o r
<1>1. Len(s) \in Nat /\ Len(r) \in Nat
  BY LenProperties
<1>2. <<x>> \in Seq(T) /\ Len(<<x>>) = 1 /\ <<x>>[1] = x
  OBVIOUS
<1>3. y \in Seq(T) /\ Len(y) = Len(r) + 1
      /\ \A i \in 1..Len(r) + 1 : y[i] = IF i <= 1 THEN <<x>>[i] ELSE r[i - 1]
  <2>1. y \in Seq(T) /\ Len(y) = Len(<<x>>) + Len(r)
        /\ \A i \in 1..Len(<<x>>) + Len(r) :
             y[i] = IF i <= Len(<<x>>) THEN <<x>>[i] ELSE r[i - Len(<<x>>)]
    BY <1>2, ConcatProperties
  <2>2. Len(<<x>>) + Len(r) = Len(r) + 1
    BY <1>1, <1>2
  <2> QED BY <2>1, <2>2, <1>2
<1> HIDE DEF y
<1>4. CASE p <= Len(s)
  <2>1. Len(r) = Len(s) - 1 /\ \A j \in 1..Len(s) - 1 : r[j] = IF j < p THEN s[j] ELSE s[j + 1]
    BY <1>4, RemoveAtFacts
  <2>2. ASSUME NEW i \in 2..Len(y) PROVE y[i] = s[Origin(i, p)]
    <3>1. y[i] = r[i - 1] /\ i - 1 \in 1..Len(s) - 1 /\ (i - 1) + 1 = i
      BY <2>1, <1>1, <1>3
    <3>2. r[i - 1] = IF i - 1 < p THEN s[i - 1] ELSE s[i]
      BY <2>1, <3>1
    <3> QED BY <3>1, <3>2, <1>1 DEF Origin
  <2> QED BY <2>1, <2>2, <1>1, <1>2, <1>3, <1>4 DEF Fronted, y
<1>5. CASE ~(p <= Len(s))
  <2>1. ASSUME NEW i \in 2..Len(y) PROVE y[i] = s[Origin(i, p)]
    BY <1>1, <1>3, <1>5 DEF Origin
  <2> QED BY <2>1, <1>1, <1>2, <1>3, <1>5 DEF Fronted, y
<1> QED BY <1>4, <1>5

\* The element x of s goes to the front, or comes in there.
LEMMA MoveFrontFacts ==
  ASSUME NEW T, NEW s \in Seq(T), NEW x \in T
  PROVE  /\ MoveFront(s, x) \in Seq(T)
         /\ \E p \in 1..Len(s) + 1 :
              /\ Fronted(s, MoveFront(s, x), x, p)
              /\ p \in DOMAIN s => s[p] = x
              /\ p \notin DOMAIN s => x \notin ToSet(s)
<1>1. Len(s) \in Nat /\ DOMAIN s = 1..Len(s)
  BY LenProperties
<1>2. CASE x \in ToSet(s)
  <2>1. PICK p \in DOMAIN s : p = (CHOOSE i \in DOMAIN s : s[i] = x) /\ s[p] = x
    BY <1>2 DEF ToSet
  <2>2. MoveFront(s, x) = <<x>> \o RemoveAt(s, p)
    BY <1>2, <2>1 DEF MoveFront
  <2>3. RemoveAt(s, p) \in Seq(T) /\ p \in 1..Len(s) + 1 /\ p <= Len(s)
    BY <1>1, RemoveAtFacts
  <2>4. <<x>> \o RemoveAt(s, p) \in Seq(T) /\ Fronted(s, <<x>> \o RemoveAt(s, p), x, p)
    BY <2>3, FrontedBy
  <2> QED BY <2>1, <2>2, <2>3, <2>4
<1>3. CASE x \notin ToSet(s)
  <2>1. Len(s) + 1 \in 1..Len(s) + 1 /\ ~(Len(s) + 1 <= Len(s)) /\ Len(s) + 1 \notin DOMAIN s
    BY <1>1
  <2>2. MoveFront(s, x) = <<x>> \o s
    BY <1>3 DEF MoveFront
  <2>3. <<x>> \o s \in Seq(T) /\ Fronted(s, <<x>> \o s, x, Len(s) + 1)
    BY <2>1, FrontedBy
  <2> QED BY <2>1, <2>2, <2>3, <1>3
<1> QED BY <1>2, <1>3

\* In a sequence without repetitions, all stay different.
LEMMA FrontedDistinct ==
  ASSUME NEW T, NEW s \in Seq(T), NEW y \in Seq(T), NEW x, NEW p, Fronted(s, y, x, p),
         Distinct(s), p \in DOMAIN s => s[p] = x, p \notin DOMAIN s => x \notin ToSet(s)
  PROVE  Distinct(y) /\ \A k \in DOMAIN s \ {p} : s[k] # x
<1>0. Carried(s, y, p)
  BY FrontedFacts
<1>1. \A k \in DOMAIN s \ {p} : s[k] # x
  BY DEF Distinct, ToSet
<1>2. ASSUME NEW i \in DOMAIN y, NEW k \in DOMAIN y, i < k PROVE y[i] # y[k]
  <2>2. k \in 2..Len(y)
    BY <1>0, <1>2 DEF Carried
  <2>3. Origin(k, p) \in DOMAIN s \ {p} /\ y[k] = s[Origin(k, p)]
    BY <2>2, <1>0 DEF Carried
  <2>4. CASE i = 1
    BY <2>3, <2>4, <1>1 DEF Fronted
  <2>5. CASE i # 1
    <3>1. i \in 2..Len(y)
      BY <1>0, <2>5 DEF Carried
    <3>2. Origin(i, p) \in DOMAIN s \ {p} /\ y[i] = s[Origin(i, p)] /\ Origin(i, p) < Origin(k, p)
      BY <2>2, <3>1, <1>0, <1>2 DEF Carried
    <3>3. Origin(i, p) # Origin(k, p)
      <4>1. Origin(i, p) \in Nat /\ Origin(k, p) \in Nat
        BY <3>2, <2>3, LenProperties
      <4> QED BY <4>1, <3>2
    <3> QED BY <2>3, <3>2, <3>3 DEF Distinct
  <2> QED BY <2>4, <2>5
<1>3. ASSUME NEW i \in DOMAIN y, NEW k \in DOMAIN y, y[i] = y[k] PROVE i = k
  <2>1. i \in Nat /\ k \in Nat
    BY LenProperties
  <2> QED BY <2>1, <1>2, <1>3
<1> QED BY <1>1, <1>3 DEF Distinct

-----------------------------------------------------------------------------
(* Types. *)

LEMMA BusyTask ==
  ASSUME task \in [Tasks -> Request \cup {Idle}], NEW t \in Tasks, ~At(t, "idle")
  PROVE  task[t] \in Request
BY DEF At, Idle

\* A request with one of its parts changed, or more.
LEMMA RequestWith ==
  ASSUME NEW e \in Request
  PROVE  /\ \A a \in Places : [e EXCEPT !.at = a] \in Request
         /\ \A s \in Slots \cup {0}, a \in Places : [e EXCEPT !.at = a, !.slot = s] \in Request
         /\ \A m \in Name, a \in Places : [e EXCEPT !.at = a, !.model = m] \in Request
         /\ \A p \in Seq(Part), a \in Places : [e EXCEPT !.at = a, !.parts = p] \in Request
         /\ \A l \in Looks, a \in Places : [e EXCEPT !.at = a, !.look = l] \in Request
         /\ \A l \in Looks : [e EXCEPT !.look = l] \in Request
         /\ \A l \in Looks, p \in Seq(Part), a \in Places :
              [e EXCEPT !.at = a, !.look = l, !.parts = p] \in Request
         /\ \A b \in BOOLEAN : [e EXCEPT !.moved = b] \in Request
BY DEF Request

LEMMA LimitType ==
  ASSUME NEW parts \in Seq(Part), NEW max
  PROVE  /\ LimitImages(parts, max) \in Seq(Part)
         /\ DOMAIN LimitImages(parts, max) = DOMAIN parts
<1>1. DOMAIN parts = 1..Len(parts) /\ Len(parts) \in Nat
  BY LenProperties
<1>2. \A i \in DOMAIN parts : parts[i] \in Part /\ [parts[i] EXCEPT !.is = "shared"] \in Part
  <2>1. \A i \in DOMAIN parts : parts[i] \in Part
    BY <1>1, ElementOfSeq
  <2>2. \A e \in Part : [e EXCEPT !.is = "shared"] \in Part
    BY DEF Part
  <2> QED BY <2>1, <2>2
<1> DEFINE images == Counted(parts)
           left == {i \in images : Cardinality({j \in images : j < i}) < Cardinality(images) - max}
<1>3. LimitImages(parts, max) =
        IF max = 0 THEN parts
        ELSE [i \in 1..Len(parts) |-> IF i \in left THEN [parts[i] EXCEPT !.is = "shared"] ELSE parts[i]]
  BY <1>1 DEF LimitImages
<1> HIDE DEF left
<1>4. [i \in 1..Len(parts) |-> IF i \in left THEN [parts[i] EXCEPT !.is = "shared"] ELSE parts[i]]
        \in [1..Len(parts) -> Part]
  BY <1>1, <1>2
<1>5. [1..Len(parts) -> Part] \subseteq Seq(Part)
  BY <1>1
<1> QED BY <1>1, <1>3, <1>4, <1>5

\* What a request's images are replaced by.
LEMMA ReplaceType ==
  ASSUME NEW parts \in Seq(Part), NEW look,
         \A i \in DOMAIN look : look[i] \in {"description", "failure"}
  PROVE  [i \in DOMAIN parts |-> IF i \in DOMAIN look THEN [parts[i] EXCEPT !.is = look[i]] ELSE parts[i]]
           \in Seq(Part)
<1> DEFINE after == [i \in DOMAIN parts |-> IF i \in DOMAIN look THEN [parts[i] EXCEPT !.is = look[i]]
                                                                 ELSE parts[i]]
<1>1. DOMAIN parts = 1..Len(parts) /\ Len(parts) \in Nat
  BY LenProperties
<1>2. \A i \in DOMAIN parts : parts[i] \in Part
  BY LenProperties
<1>3. ASSUME NEW i \in DOMAIN parts, i \in DOMAIN look PROVE [parts[i] EXCEPT !.is = look[i]] \in Part
  BY <1>2, <1>3 DEF Part
<1>4. after \in [1..Len(parts) -> Part]
  BY <1>1, <1>2, <1>3
<1>5. [1..Len(parts) -> Part] \subseteq Seq(Part)
  BY <1>1
<1> QED BY <1>4, <1>5

LEMMA NoLook == <<>> \in Looks
<1>1. <<>> \in [{} -> {"get", "ask", "description", "failure"}]
  OBVIOUS
<1> QED BY <1>1 DEF Looks

LEMMA LookWith ==
  ASSUME NEW l \in Looks, NEW i, NEW o \in {"get", "ask", "description", "failure"}
  PROVE  [l EXCEPT ![i] = o] \in Looks
<1>1. PICK S \in SUBSET Nat : l \in [S -> {"get", "ask", "description", "failure"}]
  BY DEF Looks
<1>2. [l EXCEPT ![i] = o] \in [S -> {"get", "ask", "description", "failure"}]
  BY <1>1
<1> QED BY <1>2 DEF Looks

LEMMA ResolveType ==
  ASSUME NEW requested \in Name, NEW f PROVE ResolveModelId(requested, f) \in Name
BY DEF ResolveModelId, Name

\* A step of a request changes its task alone.
LEMMA SetTask ==
  ASSUME task \in [Tasks -> Request \cup {Idle}], NEW t \in Tasks, NEW e \in Request \cup {Idle},
         task' = [task EXCEPT ![t] = e]
  PROVE  /\ task' \in [Tasks -> Request \cup {Idle}] /\ task'[t] = e
         /\ \A q \in Tasks \ {t} : task'[q] = task[q]
OBVIOUS

-----------------------------------------------------------------------------
(* The operations of the map and of the cache. *)

LEMMA UseFirstIs ==
  ASSUME NEW c, Known(c) PROVE UseFirst(c) = MoveFront(order, c)
BY DEF UseFirst, MoveFront, Known

\* What an eviction leaves, if there is one.
LEMMA EvictFacts ==
  ASSUME order \in Seq(Convs), Len(order) <= MapMax
  PROVE  /\ Evict \in Seq(Convs) /\ Len(Evict) \in Nat /\ Len(Evict) <= Len(order)
         /\ \A i \in 1..Len(Evict) : Evict[i] = order[i]
         /\ Len(Evict) = EvictTo \/ Len(Evict) = Len(order)
         /\ Len(Evict) < MapMax
<1>1. Len(order) \in Nat /\ DOMAIN order = 1..Len(order) /\ \A i \in 1..Len(order) : order[i] \in Convs
  BY LenProperties, ElementOfSeq
<1>2. CASE Len(order) >= MapMax
  <2>1. Evict = SubSeq(order, 1, EvictTo) /\ EvictTo <= Len(order)
    BY <1>1, <1>2, ConvMapAssumption DEF Evict
  <2>2. \A i \in 1..EvictTo : order[i] \in Convs
    BY <1>1, <2>1, ConvMapAssumption
  <2>3. /\ SubSeq(order, 1, EvictTo) \in Seq(Convs) /\ Len(SubSeq(order, 1, EvictTo)) = EvictTo
        /\ \A i \in 1..EvictTo : SubSeq(order, 1, EvictTo)[i] = order[i]
    <3>1. EvictTo \in Nat /\ (EvictTo - 1) + 1 = EvictTo
      BY ConvMapAssumption
    <3>2. CASE EvictTo = 0
      BY <3>2, SubSeqProperties, <2>2
    <3>3. CASE EvictTo # 0
      BY <3>1, <3>3, SubSeqProperties, <2>2
    <3> QED BY <3>2, <3>3
  <2> QED BY <2>1, <2>3, ConvMapAssumption
<1>3. CASE ~(Len(order) >= MapMax)
  <2>1. Evict = order
    BY <1>3 DEF Evict
  <2>2. Len(order) < MapMax
    BY <1>1, <1>3, ConvMapAssumption
  <2> QED BY <1>1, <2>1, <2>2
<1> QED BY <1>2, <1>3

LEMMA CreateOrder ==
  ASSUME order \in Seq(Convs), Len(order) <= MapMax, NEW c \in Convs
  PROVE  <<c>> \o Evict \in Seq(Convs) /\ Fronted(Evict, <<c>> \o Evict, c, Len(Evict) + 1)
<1>1. Evict \in Seq(Convs) /\ Len(Evict) \in Nat
  BY EvictFacts
<1>2. Len(Evict) + 1 \in 1..Len(Evict) + 1 /\ ~(Len(Evict) + 1 <= Len(Evict))
  BY <1>1
<1> QED BY <1>1, <1>2, FrontedBy

\* Entries without the one of a digest.
LEMMA WithoutFacts ==
  ASSUME NEW s \in Seq(Entry), NEW d
  PROVE  /\ Without(s, d) \in Seq(Entry)
         /\ \E p \in 1..Len(s) + 1 :
              /\ IF p <= Len(s) THEN p \in DOMAIN s /\ Without(s, d) = RemoveAt(s, p)
                                ELSE Without(s, d) = s
              /\ p \in DOMAIN s => s[p].digest = d
              /\ p \notin DOMAIN s => \A i \in DOMAIN s : s[i].digest # d
<1>1. Len(s) \in Nat /\ DOMAIN s = 1..Len(s)
  BY LenProperties
<1>2. CASE \E i \in DOMAIN s : s[i].digest = d
  <2>1. PICK p \in DOMAIN s : p = (CHOOSE i \in DOMAIN s : s[i].digest = d) /\ s[p].digest = d
    BY <1>2
  <2>2. Without(s, d) = RemoveAt(s, p)
    BY <1>2, <2>1 DEF Without
  <2>3. RemoveAt(s, p) \in Seq(Entry) /\ p \in 1..Len(s) + 1 /\ p <= Len(s)
    BY <1>1, RemoveAtFacts
  <2> QED BY <2>1, <2>2, <2>3
<1>3. CASE ~\E i \in DOMAIN s : s[i].digest = d
  <2>1. Len(s) + 1 \in 1..Len(s) + 1 /\ ~(Len(s) + 1 <= Len(s)) /\ Len(s) + 1 \notin DOMAIN s
    BY <1>1
  <2> QED BY <2>1, <1>3 DEF Without
<1> QED BY <1>2, <1>3

LEMMA WithoutFronted ==
  ASSUME NEW s \in Seq(Entry), NEW d, NEW e \in Entry
  PROVE  /\ <<e>> \o Without(s, d) \in Seq(Entry)
         /\ \E p \in 1..Len(s) + 1 :
              /\ Fronted(s, <<e>> \o Without(s, d), e, p)
              /\ p \in DOMAIN s => s[p].digest = d
              /\ p \notin DOMAIN s => \A i \in DOMAIN s : s[i].digest # d
<1>1. PICK p \in 1..Len(s) + 1 :
        /\ IF p <= Len(s) THEN p \in DOMAIN s /\ Without(s, d) = RemoveAt(s, p)
                          ELSE Without(s, d) = s
        /\ p \in DOMAIN s => s[p].digest = d
        /\ p \notin DOMAIN s => \A i \in DOMAIN s : s[i].digest # d
  BY WithoutFacts
<1>2. Without(s, d) \in Seq(Entry)
  BY WithoutFacts
<1>3. <<e>> \o Without(s, d) \in Seq(Entry) /\ Fronted(s, <<e>> \o Without(s, d), e, p)
  BY <1>1, <1>2, FrontedBy
<1> QED BY <1>1, <1>3

\* A full cache makes room before a description comes in.
Kept == IF Len(lru) >= CacheSize THEN Front(lru) ELSE lru

LEMMA KeptFacts ==
  ASSUME lru \in Seq(Entry), Len(lru) <= CacheSize
  PROVE  /\ Kept \in Seq(Entry) /\ Len(Kept) \in Nat /\ Len(Kept) < CacheSize /\ Len(lru) \in Nat
         /\ \A i \in 1..Len(Kept) : Kept[i] = lru[i]
         /\ \/ Len(Kept) = Len(lru) /\ Kept = lru
            \/ Len(Kept) + 1 = Len(lru) /\ Len(lru) = CacheSize
<1>1. Len(lru) \in Nat /\ DOMAIN lru = 1..Len(lru) /\ \A i \in 1..Len(lru) : lru[i] \in Entry
  BY LenProperties, ElementOfSeq
<1>2. CASE Len(lru) >= CacheSize
  <2>1. Len(lru) = CacheSize /\ Len(lru) - 1 \in Nat /\ Len(lru) - 1 <= Len(lru)
    <3>1. CacheSize \in Nat /\ CacheSize >= 1
      BY HandoffCacheAssumption
    <3>2. \A m, n \in Nat : n >= 1 /\ m <= n /\ m >= n => m = n /\ m - 1 \in Nat /\ m - 1 <= m
      OBVIOUS
    <3> QED BY <1>1, <1>2, <3>1, <3>2
  <2>2. \A i \in 1..Len(lru) - 1 : lru[i] \in Entry
    BY <1>1, <2>1
  <2>3. /\ SubSeq(lru, 1, Len(lru) - 1) \in Seq(Entry) /\ Len(SubSeq(lru, 1, Len(lru) - 1)) = Len(lru) - 1
        /\ \A i \in 1..Len(lru) - 1 : SubSeq(lru, 1, Len(lru) - 1)[i] = lru[i]
    <3>1. CASE Len(lru) - 1 = 0
      BY <3>1, <2>1, <2>2, SubSeqProperties
    <3>2. CASE Len(lru) - 1 # 0
      BY <3>2, <2>1, <2>2, SubSeqProperties
    <3> QED BY <3>1, <3>2
  <2>4. Kept = SubSeq(lru, 1, Len(lru) - 1)
    BY <1>2 DEF Kept, Front
  <2> QED BY <2>1, <2>3, <2>4
<1>3. CASE ~(Len(lru) >= CacheSize)
  <2>1. Kept = lru
    BY <1>3 DEF Kept
  <2>2. Len(lru) < CacheSize
    BY <1>1, <1>3, HandoffCacheAssumption
  <2> QED BY <1>1, <2>1, <2>2
<1> QED BY <1>2, <1>3

LEMMA EntryOfFacts ==
  ASSUME lru \in Seq(Entry), NEW d, InCache(d)
  PROVE  EntryOf(d) \in Entry /\ EntryOf(d).digest = d
<1>1. ToSet(lru) \subseteq Entry
  BY LenProperties, ElementOfSeq DEF ToSet
<1> QED BY <1>1 DEF InCache, EntryOf

LEMMA GetType ==
  ASSUME lru \in Seq(Entry), NEW d, Get(d) PROVE lru' \in Seq(Entry)
<1>1. CASE IsHit(d)
  BY <1>1, EntryOfFacts, WithoutFronted DEF Get, IsHit
<1>2. CASE ~IsHit(d)
  BY <1>2, WithoutFacts DEF Get
<1> QED BY <1>1, <1>2

LEMMA SetType ==
  ASSUME lru \in Seq(Entry), Len(lru) <= CacheSize, NEW d \in Digests, Set(d)
  PROVE  /\ [digest |-> d, age |-> 0] \in Entry
         /\ lru' = <<[digest |-> d, age |-> 0]>> \o Without(Kept, d)
         /\ lru' \in Seq(Entry)
<1>1. [digest |-> d, age |-> 0] \in Entry
  BY HandoffCacheAssumption DEF Entry
<1>2. lru' = <<[digest |-> d, age |-> 0]>> \o Without(Kept, d)
  BY DEF Set, Kept
<1> QED BY <1>1, <1>2, KeptFacts, WithoutFronted

LEMMA TickType ==
  ASSUME lru \in Seq(Entry), CacheTick
  PROVE  /\ lru' \in Seq(Entry) /\ Len(lru') = Len(lru) /\ DOMAIN lru' = DOMAIN lru
         /\ \A i \in DOMAIN lru : lru'[i].digest = lru[i].digest
<1>1. Len(lru) \in Nat /\ DOMAIN lru = 1..Len(lru) /\ \A i \in 1..Len(lru) : lru[i] \in Entry
  BY LenProperties, ElementOfSeq
<1>2. ASSUME NEW e \in Entry
      PROVE  /\ [e EXCEPT !.age = IF @ < CacheTtl THEN @ + 1 ELSE @] \in Entry
             /\ [e EXCEPT !.age = IF @ < CacheTtl THEN @ + 1 ELSE @].digest = e.digest
  <2>1. e.age \in 0..CacheTtl /\ (IF e.age < CacheTtl THEN e.age + 1 ELSE e.age) \in 0..CacheTtl
    BY HandoffCacheAssumption DEF Entry
  <2> QED BY <2>1 DEF Entry
<1>3. lru' = [i \in 1..Len(lru) |-> [lru[i] EXCEPT !.age = IF @ < CacheTtl THEN @ + 1 ELSE @]]
  BY <1>1 DEF CacheTick
<1>4. lru' \in [1..Len(lru) -> Entry]
  BY <1>1, <1>2, <1>3
<1>5. [1..Len(lru) -> Entry] \subseteq Seq(Entry)
  BY <1>1
<1>6. \A i \in DOMAIN lru : lru'[i].digest = lru[i].digest
  BY <1>1, <1>2, <1>3
<1>7. DOMAIN lru' = 1..Len(lru') /\ Len(lru') \in Nat
  BY <1>4, <1>5, LenProperties
<1>8. Len(lru') = Len(lru)
  BY <1>1, <1>4, <1>5, LenProperties
<1> QED BY <1>1, <1>4, <1>5, <1>6, <1>7, <1>8

-----------------------------------------------------------------------------
(* Every step keeps the types. *)

LEMMA InitType == Init => TypeOK
<1> SUFFICES ASSUME Init PROVE TypeOK
  OBVIOUS
<1>1. catalog \in Catalogs \cup {NoCatalog} /\ cfg \in Configs /\ load \in Loads
      /\ usable \subseteq Slots
  BY DEF Init
<1>2. task \in [Tasks -> Request \cup {Idle}]
  BY DEF Init
<1>3. session \in [Convs -> [token : Slots \cup {0}, count : Nat, num : Nat]] /\ counter \in Nat
  BY DEF Init, ConvInit, NoSession
<1>4. order \in Seq(Convs) /\ recency \in Seq(Convs) /\ lru \in Seq(Entry) /\ used \in Seq(Digests)
  BY DEF Init, ConvInit, CacheInit
<1>5. lapsed \subseteq Digests /\ slots \in [Convs -> SUBSET Slots] /\ excused \subseteq Convs
      /\ doubled \in BOOLEAN
  BY DEF Init
<1> QED BY <1>1, <1>2, <1>3, <1>4, <1>5 DEF TypeOK

LEMMA LoadType ==
  ASSUME load \in Loads, NEW c \in DOMAIN load.of
  PROVE  /\ c \in Convs /\ load.of[c].model \in Name /\ load.of[c].parts \in Seq(Part)
         /\ AllImages(load.of[c].parts)
BY PrepareAssumption DEF AllImages

LEMMA BeginTask ==
  ASSUME TypeOK, NEW t \in Tasks, Begin(t)
  PROVE  \E c \in Convs, e \in Request :
           /\ Touch(c) /\ task' = [task EXCEPT ![t] = e]
           /\ e.at = "touched" /\ e.conv = c /\ e.slot = session[c].token
           /\ ~e.moved /\ AllImages(e.parts)
           /\ recency' = IF Known(c) THEN MoveFront(recency, c) ELSE recency
<1>1. PICK c \in DOMAIN load.of :
        /\ Touch(c)
        /\ task' = [task EXCEPT ![t] =
             [at |-> "touched", conv |-> c, slot |-> TokenOf(c), moved |-> FALSE,
              model |-> load.of[c].model, parts |-> load.of[c].parts, look |-> <<>>]]
        /\ recency' = IF Known(c) THEN MoveFront(recency, c) ELSE recency
  BY DEF Begin
<1> DEFINE e == [at |-> "touched", conv |-> c, slot |-> TokenOf(c), moved |-> FALSE,
                 model |-> load.of[c].model, parts |-> load.of[c].parts, look |-> <<>>]
<1>2. c \in Convs /\ load.of[c].model \in Name /\ load.of[c].parts \in Seq(Part)
      /\ AllImages(load.of[c].parts)
  BY LoadType DEF TypeOK
<1>3. TokenOf(c) = session[c].token /\ TokenOf(c) \in Slots \cup {0}
  BY <1>2 DEF TypeOK, TokenOf
<1>4. e \in Request
  BY <1>2, <1>3, NoLook DEF Request, Places
<1>5. e.at = "touched" /\ e.conv = c /\ e.slot = session[c].token /\ ~e.moved /\ AllImages(e.parts)
  BY <1>2, <1>3
<1>6. task' = [task EXCEPT ![t] = e]
  BY <1>1
<1> HIDE DEF e
<1> QED BY <1>1, <1>2, <1>4, <1>5, <1>6

-----------------------------------------------------------------------------
(* The limit leaves the oldest images out, as many as are too many. *)

Before(I, i) == {j \in I : j < i}
Oldest(I, max) == {i \in I : Cardinality(Before(I, i)) < Cardinality(I) - max}

LEMMA Fits ==
  ASSUME NEW S, IsFiniteSet(S), NEW a \in Nat, NEW b \in Int, a <= b + 1, NEW f \in [S -> a..b],
         \A x, y \in S : f[x] = f[y] => x = y
  PROVE  Cardinality(S) <= (b + 1) - a
<1>1. IsFiniteSet(a..b) /\ Cardinality(a..b) = (b + 1) - a
  <2>1. IsFiniteSet(a..b) /\ Cardinality(a..b) = IF a > b THEN 0 ELSE b - a + 1
    BY FS_Interval
  <2> QED BY <2>1
<1>2. Cardinality(S) \in Nat
  BY FS_CardinalityType
<1>3. ~(Cardinality(a..b) < Cardinality(S))
  <2> SUFFICES ASSUME Cardinality(a..b) < Cardinality(S) PROVE FALSE
    OBVIOUS
  <2>1. \E x, y \in S : x # y /\ f[x] = f[y]
    BY <1>1, FS_PigeonHole
  <2> QED BY <2>1
<1> QED BY <1>1, <1>2, <1>3

LEMMA OldestGo ==
  ASSUME NEW I \in SUBSET Nat, IsFiniteSet(I), NEW max \in Nat
  PROVE  /\ Cardinality(I \ Oldest(I, max)) <= max
         /\ Oldest(I, max) # {} => Cardinality(I \ Oldest(I, max)) = max
         /\ \A j \in Oldest(I, max), i \in I \ Oldest(I, max) : j < i
<1> DEFINE n == Cardinality(I)
           rank == [i \in I |-> Cardinality(Before(I, i))]
           left == Oldest(I, max)
<1>0. n \in Nat
  BY FS_CardinalityType
<1>1. ASSUME NEW i \in I PROVE IsFiniteSet(Before(I, i)) /\ rank[i] \in 0..n - 1
  <2>1. Before(I, i) \in SUBSET I /\ i \notin Before(I, i)
    BY DEF Before
  <2>2. /\ IsFiniteSet(Before(I, i)) /\ Cardinality(Before(I, i)) <= n
        /\ n = Cardinality(Before(I, i)) => I = Before(I, i)
    BY <2>1, FS_Subset
  <2>3. Cardinality(Before(I, i)) \in Nat
    BY <2>2, FS_CardinalityType
  <2>4. n # Cardinality(Before(I, i))
    BY <2>1, <2>2
  <2> QED BY <2>2, <2>3, <2>4, <1>0
<1>2. ASSUME NEW i \in I, NEW k \in I, i < k PROVE rank[i] < rank[k]
  <2>0. i \in Nat /\ k \in Nat /\ \A j \in I : j \in Nat /\ (j < i => j < k)
    BY <1>2
  <2>1. Before(I, i) \in SUBSET Before(I, k) /\ i \in Before(I, k) /\ i \notin Before(I, i)
    <3>1. \A j \in Before(I, i) : j \in Before(I, k)
      BY <2>0 DEF Before
    <3>2. i \in Before(I, k) /\ i \notin Before(I, i)
      BY <2>0, <1>2 DEF Before
    <3> QED BY <3>1, <3>2
  <2>2. /\ Cardinality(Before(I, i)) <= Cardinality(Before(I, k))
        /\ Cardinality(Before(I, k)) = Cardinality(Before(I, i)) => Before(I, k) = Before(I, i)
    BY <2>1, <1>1, FS_Subset
  <2>3. rank[i] \in Nat /\ rank[k] \in Nat /\ rank[i] <= rank[k] /\ rank[i] # rank[k]
    BY <2>1, <2>2, <1>1, <1>0
  <2> QED BY <2>3
<1>3. /\ left \subseteq I
      /\ \A i \in left : rank[i] < n - max
      /\ \A i \in I \ left : rank[i] >= n - max
  <2>1. left = {i \in I : rank[i] < n - max}
    BY DEF Oldest
  <2> HIDE DEF left, rank, n
  <2> QED BY <2>1, <1>0, <1>1
<1> HIDE DEF rank, left, n
<1>4. \A i, k \in I : rank[i] = rank[k] => i = k
  BY <1>1, <1>2
<1>5. ASSUME NEW j \in left, NEW i \in I \ left PROVE j < i
  <2>1. rank[j] < rank[i]
    BY <1>0, <1>1, <1>3
  <2> QED BY <2>1, <1>0, <1>1, <1>2, <1>3
<1>6. IsFiniteSet(left) /\ IsFiniteSet(I \ left)
      /\ Cardinality(left) \in Nat /\ Cardinality(I \ left) \in Nat
  BY <1>3, FS_Subset, FS_CardinalityType
<1>7. Cardinality(I \ left) = n - Cardinality(left)
  <2>1. I \cap left = left
    BY <1>3
  <2> QED BY <2>1, FS_Difference DEF n
<1>8. CASE n <= max
  <2>1. left = {}
    BY <1>0, <1>1, <1>3, <1>8
  <2>2. Cardinality(I \ left) <= n
    BY <1>6, <1>7, <1>0
  <2> QED BY <2>1, <2>2, <1>0, <1>5, <1>6, <1>8 DEF left
<1>9. CASE n > max
  <2>1. Cardinality(I \ left) <= max
    <3>1. [i \in I \ left |-> rank[i]] \in [I \ left -> n - max..n - 1]
      BY <1>0, <1>1, <1>3, <1>9
    <3>2. n - max \in Nat /\ n - 1 \in Int /\ n - max <= (n - 1) + 1 /\ ((n - 1) + 1) - (n - max) = max
      BY <1>0, <1>9
    <3>3. \A x, y \in I \ left :
            [i \in I \ left |-> rank[i]][x] = [i \in I \ left |-> rank[i]][y] => x = y
      BY <1>4
    <3> HIDE DEF left
    <3>4. Cardinality(I \ left) <= ((n - 1) + 1) - (n - max)
      BY <3>1, <3>2, <3>3, <1>6, Fits
    <3> QED BY <3>2, <3>4
  <2>2. Cardinality(left) <= n - max
    <3>1. [i \in left |-> rank[i]] \in [left -> 0..(n - max) - 1]
      BY <1>0, <1>1, <1>3, <1>9
    <3>2. 0 \in Nat /\ (n - max) - 1 \in Int /\ 0 <= ((n - max) - 1) + 1
          /\ (((n - max) - 1) + 1) - 0 = n - max
      BY <1>0, <1>9
    <3>3. \A x, y \in left : [i \in left |-> rank[i]][x] = [i \in left |-> rank[i]][y] => x = y
      BY <1>4, <1>3
    <3>4. Cardinality(left) <= (((n - max) - 1) + 1) - 0
      BY <3>1, <3>2, <3>3, <1>6, Fits
    <3> QED BY <3>2, <3>4
  <2>3. Cardinality(I \ left) = max
    BY <2>1, <2>2, <1>0, <1>6, <1>7
  <2> QED BY <2>3, <1>5 DEF left
<1> QED BY <1>0, <1>8, <1>9

LEMMA Unlimited ==
  ASSUME NEW parts, AllImages(parts)
  PROVE  Plain(parts) /\ OldestOut(parts) /\ Shared(parts) = {}
<1>1. Shared(parts) = {}
  BY DEF Shared, AllImages
<1> QED BY <1>1 DEF OldestOut, Plain, AllImages

LEMMA LimitLimits ==
  ASSUME NEW parts \in Seq(Part), AllImages(parts), cfg.maxImages \in Nat
  PROVE  LET after == LimitImages(parts, cfg.maxImages)
         IN Plain(after) /\ OldestOut(after) /\ Few(after)
<1> DEFINE max == cfg.maxImages
           images == Counted(parts)
           left == Oldest(images, max)
           after == LimitImages(parts, max)
<1>1. DOMAIN parts = 1..Len(parts) /\ Len(parts) \in Nat /\ \A i \in DOMAIN parts : parts[i] \in Part
  BY LenProperties, ElementOfSeq
<1>2. CASE max = 0
  <2>1. after = parts
    BY <1>2 DEF LimitImages
  <2> QED BY <2>1, <1>2, Unlimited DEF Few
<1>3. CASE max # 0
  <2>1. images \in SUBSET (1..Len(parts)) /\ images \in SUBSET Nat /\ IsFiniteSet(images)
    <3>1. images \in SUBSET (1..Len(parts)) /\ images \in SUBSET Nat
      BY <1>1 DEF Counted
    <3>2. IsFiniteSet(1..Len(parts))
      BY <1>1, FS_Interval
    <3> QED BY <3>1, <3>2, FS_Subset
  <2>2. after = [i \in DOMAIN parts |-> IF i \in left THEN [parts[i] EXCEPT !.is = "shared"] ELSE parts[i]]
    BY <1>3 DEF LimitImages, Oldest, Before
  <2>3. /\ Cardinality(images \ left) <= max
        /\ left # {} => Cardinality(images \ left) = max
        /\ \A j \in left, i \in images \ left : j < i
    BY <2>1, OldestGo
  <2>4. left \subseteq images
    BY DEF Oldest
  <2> HIDE DEF left, after
  <2>5. ASSUME NEW i \in DOMAIN parts
        PROVE  /\ after[i].is = IF i \in left THEN "shared" ELSE "image"
               /\ after[i].nested = parts[i].nested
    BY <1>1, <2>2 DEF Part, AllImages
  <2>6. DOMAIN after = DOMAIN parts
    BY <2>2
  <2>7. InPlace(after) = images \ left
    BY <2>4, <2>5, <2>6 DEF InPlace, Counted, AllImages
  <2>8. Shared(after) = left
    <3>1. left \subseteq DOMAIN parts
      BY <2>4 DEF Counted
    <3> QED BY <2>5, <2>6, <3>1 DEF Shared
  <2>9. Plain(after)
    BY <2>5, <2>6 DEF Plain
  <2> HIDE DEF images
  <2> QED BY <2>3, <2>7, <2>8, <2>9 DEF OldestOut, Few, after
<1> QED BY <1>2, <1>3

-----------------------------------------------------------------------------
(* The steps of a request once it is tracked: they change its task alone. *)

Onward(t) ==
  \E e \in Request \cup {Idle} :
    /\ task' = [task EXCEPT ![t] = e]
    /\ e.at \notin {"touched", "keyed"}
    /\ e = Idle \/ PartsOK(t, e)

LEMMA ResolveOnward ==
  ASSUME TypeOK, ImagesOK, NEW t \in Tasks, Resolve(t) PROVE Onward(t)
<1> DEFINE e == [task[t] EXCEPT !.at = "resolved", !.model = ResolveModelId(task[t].model, cfg)]
<1>1. task[t] \in Request /\ task[t].at = "tracked" /\ task[t] # Idle
  BY BusyTask DEF TypeOK, Resolve, At, Idle
<1>2. task' = [task EXCEPT ![t] = e]
  BY DEF Resolve
<1>3. ResolveModelId(task[t].model, cfg) \in Name
  BY <1>1, ResolveType DEF Request
<1>4. e \in Request
  BY <1>1, <1>3, RequestWith DEF Places
<1>5. e.at = "resolved" /\ e.parts = task[t].parts
  BY <1>1 DEF Request
<1>6. AllImages(e.parts)
  BY <1>1, <1>5 DEF ImagesOK, PartsOK
<1>7. PartsOK(t, e)
  BY <1>5, <1>6 DEF PartsOK
<1> HIDE DEF e
<1> QED BY <1>2, <1>4, <1>5, <1>7 DEF Onward

LEMMA LimitOnward ==
  ASSUME TypeOK, ImagesOK, NEW t \in Tasks, Limit(t) PROVE Onward(t)
<1> DEFINE needs == NeedsHandoff(task[t].model, cfg)
           p == IF Chat(t) /\ needs THEN task[t].parts ELSE LimitImages(task[t].parts, cfg.maxImages)
           e == [task[t] EXCEPT !.at = "limited", !.parts = p]
<1>1. task[t] \in Request /\ task[t].at = "resolved" /\ task[t] # Idle
  BY BusyTask DEF TypeOK, Limit, At, Idle
<1>2. task' = [task EXCEPT ![t] = e]
  BY DEF Limit
<1>3. task[t].parts \in Seq(Part) /\ AllImages(task[t].parts)
  BY <1>1 DEF Request, ImagesOK, PartsOK
<1>4. cfg.maxImages \in Nat
  BY PrepareAssumption DEF TypeOK
<1>5. p \in Seq(Part)
  BY <1>3, LimitType
<1>6. /\ Plain(p) /\ OldestOut(p) /\ (~Chat(t) => Few(p))
      /\ IF Chat(t) /\ needs THEN Shared(p) = {} ELSE Few(p)
  BY <1>3, <1>4, LimitLimits, Unlimited
<1> HIDE DEF p
<1>7. e \in Request /\ e.at = "limited" /\ e.parts = p /\ e.model = task[t].model
  <2>1. e \in Request
    BY <1>1, <1>5, RequestWith DEF Places
  <2> QED BY <1>1, <2>1 DEF Request
<1>8. PartsOK(t, e)
  BY <1>6, <1>7 DEF PartsOK
<1> HIDE DEF e
<1> QED BY <1>2, <1>7, <1>8 DEF Onward

LEMMA DecideOnward ==
  ASSUME TypeOK, ImagesOK, NEW t \in Tasks, Decide(t) PROVE Onward(t)
<1> DEFINE needs == NeedsHandoff(task[t].model, cfg)
           a == IF needs THEN "handoff" ELSE "sent"
           e == [task[t] EXCEPT !.at = a]
<1>1. task[t] \in Request /\ task[t].at = "limited" /\ task[t] # Idle
  BY BusyTask DEF TypeOK, Decide, At, Idle
<1>2. task' = [task EXCEPT ![t] = e]
  BY DEF Decide, Goto
<1>3. e \in Request
  BY <1>1, RequestWith DEF Places
<1>4. e.at = a /\ e.parts = task[t].parts /\ e.model = task[t].model /\ e.moved = task[t].moved
  BY <1>1 DEF Request
<1>5. PartsOK(t, task[t])
  BY <1>1 DEF ImagesOK
<1>6. PartsOK(t, e)
  BY <1>1, <1>4, <1>5 DEF PartsOK
<1> HIDE DEF e
<1> QED BY <1>2, <1>3, <1>4, <1>6 DEF Onward

LEMMA CollectOnward ==
  ASSUME TypeOK, ImagesOK, NEW t \in Tasks, Collect(t) PROVE Onward(t)
<1> DEFINE needs == NeedsHandoff(task[t].model, cfg)
           images == ImageParts(task[t].parts)
           look == [i \in images |-> "get"]
<1>1. task[t] \in Request /\ task[t].at = "handoff" /\ task[t] # Idle
  BY BusyTask DEF TypeOK, Collect, At, Idle
<1>2. /\ ~task[t].moved => needs /\ (Chat(t) => Shared(task[t].parts) = {})
      /\ OldestOut(task[t].parts) /\ (~Chat(t) => Few(task[t].parts))
  BY <1>1 DEF ImagesOK, PartsOK
<1>3. CASE ~needs \/ images = {}
  <2> DEFINE e == [task[t] EXCEPT !.at = "sent"]
  <2>1. task' = [task EXCEPT ![t] = e]
    BY <1>3 DEF Collect
  <2>2. e \in Request
    BY <1>1, RequestWith DEF Places
  <2>3. e.at = "sent" /\ e.parts = task[t].parts /\ e.model = task[t].model /\ e.moved = task[t].moved
    BY <1>1 DEF Request
  <2>4. PartsOK(t, e)
    BY <1>2, <1>3, <2>3 DEF PartsOK
  <2> HIDE DEF e
  <2> QED BY <2>1, <2>2, <2>3, <2>4 DEF Onward
<1>4. CASE ~(~needs \/ images = {})
  <2> DEFINE e == [task[t] EXCEPT !.at = "analysing", !.look = look]
  <2>1. task' = [task EXCEPT ![t] = e]
    BY <1>4 DEF Collect
  <2>2. images \in SUBSET Nat
    <3>1. DOMAIN task[t].parts = 1..Len(task[t].parts)
      BY <1>1, LenProperties DEF Request
    <3> QED BY <3>1 DEF ImageParts
  <2>3. look \in Looks
    <3>1. look \in [images -> {"get", "ask", "description", "failure"}]
      OBVIOUS
    <3> QED BY <2>2, <3>1 DEF Looks
  <2>4. DOMAIN look = images
    OBVIOUS
  <2> HIDE DEF look
  <2>5. e \in Request
    BY <1>1, <2>3, RequestWith DEF Places
  <2>6. e.at = "analysing" /\ e.parts = task[t].parts /\ e.model = task[t].model
        /\ e.moved = task[t].moved /\ e.look = look
    BY <1>1 DEF Request
  <2>7. PartsOK(t, e)
    BY <1>2, <2>4, <2>6 DEF PartsOK
  <2> HIDE DEF e
  <2> QED BY <2>1, <2>5, <2>6, <2>7 DEF Onward
<1> QED BY <1>3, <1>4

\* The look of one image changes.
LEMMA LookOnward ==
  ASSUME TypeOK, ImagesOK, NEW t \in Tasks, At(t, "analysing"), NEW i \in DOMAIN task[t].look,
         NEW o \in {"get", "ask", "description", "failure"},
         task' = [task EXCEPT ![t].look[i] = o]
  PROVE  Onward(t)
<1> DEFINE look == [task[t].look EXCEPT ![i] = o]
           e == [task[t] EXCEPT !.look = look]
<1>1. task[t] \in Request /\ task[t].at = "analysing" /\ task[t] # Idle
  BY BusyTask DEF TypeOK, At, Idle
<1>2. task' = [task EXCEPT ![t] = e]
  OBVIOUS
<1>3. look \in Looks /\ DOMAIN look = DOMAIN task[t].look
  BY <1>1, LookWith DEF Request
<1> HIDE DEF look
<1>4. e \in Request
  BY <1>1, <1>3, RequestWith
<1>5. e.at = "analysing" /\ e.parts = task[t].parts /\ e.model = task[t].model
      /\ e.moved = task[t].moved /\ e.look = look
  BY <1>1 DEF Request
<1>6. PartsOK(t, task[t])
  BY <1>1 DEF ImagesOK
<1>7. PartsOK(t, e)
  BY <1>1, <1>3, <1>5, <1>6 DEF PartsOK
<1> HIDE DEF e
<1> QED BY <1>2, <1>4, <1>5, <1>7 DEF Onward

LEMMA LookupOnward ==
  ASSUME TypeOK, ImagesOK, NEW t \in Tasks, At(t, "analysing"), NEW i \in DOMAIN task[t].look,
         Lookup(t, i)
  PROVE  Onward(t)
<1>1. \E o \in {"description", "ask"} : task' = [task EXCEPT ![t].look[i] = o]
  BY DEF Lookup
<1> QED BY <1>1, LookOnward

LEMMA AnswerOnward ==
  ASSUME TypeOK, ImagesOK, NEW t \in Tasks, At(t, "analysing"), NEW i \in DOMAIN task[t].look,
         Answer(t, i)
  PROVE  Onward(t)
<1>1. \E o \in {"description", "failure"} : task' = [task EXCEPT ![t].look[i] = o]
  BY DEF Answer
<1> QED BY <1>1, LookOnward

LEMMA ReplaceOnward ==
  ASSUME TypeOK, ImagesOK, NEW t \in Tasks, Replace(t) PROVE Onward(t)
<1> DEFINE look == task[t].look
           parts == task[t].parts
           after == [i \in DOMAIN parts |-> IF i \in DOMAIN look THEN [parts[i] EXCEPT !.is = look[i]]
                                                                 ELSE parts[i]]
           e == [task[t] EXCEPT !.at = "sent", !.look = <<>>, !.parts = after]
<1>1. task[t] \in Request /\ task[t].at = "analysing" /\ task[t] # Idle
  BY BusyTask DEF TypeOK, Replace, At, Idle
<1>2. task' = [task EXCEPT ![t] = e]
  BY DEF Replace
<1>3. \A i \in DOMAIN look : look[i] \in {"description", "failure"}
  BY DEF Replace
<1>4. parts \in Seq(Part)
  BY <1>1 DEF Request
<1>5. after \in Seq(Part)
  BY <1>3, <1>4, ReplaceType
<1>6. DOMAIN look = ImageParts(parts)
      /\ (~task[t].moved => NeedsHandoff(task[t].model, cfg) /\ (Chat(t) => Shared(parts) = {}))
      /\ OldestOut(parts) /\ (~Chat(t) => Few(parts))
  BY <1>1 DEF ImagesOK, PartsOK
<1>7. DOMAIN after = DOMAIN parts
      /\ \A i \in DOMAIN parts :
           \/ /\ i \in ImageParts(parts) /\ after[i].is \in {"description", "failure"}
              /\ after[i].nested = parts[i].nested
           \/ i \notin ImageParts(parts) /\ after[i] = parts[i]
  <2>1. \A i \in DOMAIN parts : parts[i] \in Part
    BY <1>4, ElementOfSeq, LenProperties
  <2>2. ASSUME NEW i \in DOMAIN parts, i \in DOMAIN look PROVE after[i].is = look[i] /\ after[i].nested = parts[i].nested
    BY <2>1, <2>2 DEF Part
  <2> QED BY <2>2, <1>3, <1>6
<1> HIDE DEF after, look, parts
<1>8. ImageParts(after) = {} /\ Shared(after) = Shared(parts) /\ InPlace(after) = InPlace(parts)
  BY <1>7 DEF ImageParts, Shared, InPlace
<1>12. OldestOut(after) /\ (~Chat(t) => Few(after))
  BY <1>6, <1>8 DEF OldestOut, Few
<1>9. e \in Request
  BY <1>1, <1>5, NoLook, RequestWith DEF Places
<1>10. e.at = "sent" /\ e.parts = after /\ e.model = task[t].model /\ e.moved = task[t].moved
  BY <1>1 DEF Request
<1>11. PartsOK(t, e)
  BY <1>6, <1>8, <1>10, <1>12 DEF PartsOK
<1> HIDE DEF e
<1> QED BY <1>2, <1>9, <1>10, <1>11 DEF Onward

LEMMA LeaveOnward ==
  ASSUME NEW t \in Tasks, task' = [task EXCEPT ![t] = Idle] PROVE Onward(t)
BY DEF Onward, Idle

LEMMA AcquireTask ==
  ASSUME TypeOK, ImagesOK, NEW t \in Tasks, AcquireSlot(t)
  PROVE  \E e \in Request \cup {Idle} :
           /\ task' = [task EXCEPT ![t] = e]
           /\ \/ e = Idle
              \/ /\ e.at = "keyed" /\ e.conv = task[t].conv /\ AllImages(e.parts)
                 /\ e.slot \in usable /\ (task[t].slot \in usable => e.slot = task[t].slot)
<1>1. task[t] \in Request /\ task[t].at = "touched" /\ task[t] # Idle
  BY BusyTask DEF TypeOK, AcquireSlot, At, Idle
<1>2. AllImages(task[t].parts)
  BY <1>1 DEF ImagesOK, PartsOK
<1>3. CASE usable = {}
  <2>1. task' = [task EXCEPT ![t] = Idle]
    BY <1>3 DEF AcquireSlot
  <2> QED BY <2>1
<1>4. CASE usable # {}
  <2>1. PICK s \in IF task[t].slot \in usable THEN {task[t].slot} ELSE usable :
          task' = [task EXCEPT ![t].at = "keyed", ![t].slot = s]
    BY <1>4 DEF AcquireSlot
  <2>2. s \in usable /\ s \in Slots /\ (task[t].slot \in usable => s = task[t].slot)
    BY <2>1 DEF TypeOK
  <2> DEFINE e == [task[t] EXCEPT !.at = "keyed", !.slot = s]
  <2>3. task' = [task EXCEPT ![t] = e]
    BY <2>1
  <2>4. e \in Request
    BY <1>1, <2>2, RequestWith DEF Places
  <2>5. e.at = "keyed" /\ e.conv = task[t].conv /\ e.parts = task[t].parts /\ e.slot = s
    BY <1>1 DEF Request
  <2> HIDE DEF e
  <2> QED BY <1>2, <2>2, <2>3, <2>4, <2>5
<1> QED BY <1>3, <1>4

LEMMA TrackTask ==
  ASSUME TypeOK, ImagesOK, NEW t \in Tasks, TrackConv(t)
  PROVE  /\ task[t] \in Request /\ task[t].at = "keyed" /\ task[t].conv \in Convs
         /\ task[t].slot \in Slots \cup {0}
         /\ Onward(t)
<1>1. task[t] \in Request /\ task[t].at = "keyed" /\ task[t] # Idle
  BY BusyTask DEF TypeOK, TrackConv, At, Idle
<1>2. AllImages(task[t].parts)
  BY <1>1 DEF ImagesOK, PartsOK
<1> DEFINE e == [task[t] EXCEPT !.at = "tracked", !.slot = 0]
<1>3. task' = [task EXCEPT ![t] = e]
  BY DEF TrackConv
<1>4. e \in Request
  BY <1>1, RequestWith DEF Places
<1>5. e.at = "tracked" /\ e.parts = task[t].parts
  BY <1>1 DEF Request
<1>6. PartsOK(t, e)
  BY <1>2, <1>5 DEF PartsOK
<1> HIDE DEF e
<1>7. Onward(t)
  BY <1>3, <1>4, <1>5, <1>6 DEF Onward
<1> QED BY <1>1, <1>7 DEF Request

\* What a tracked request leaves alone.
Elsewhere == UNCHANGED <<convVars, catalog, cfg, load, usable, recency, slots, excused>>

LEMMA Steps ==
  ASSUME TypeOK, ImagesOK, [Next]_vars
  PROVE  \/ \E t \in Tasks : Begin(t) \/ AcquireSlot(t) \/ TrackConv(t) \/ (Onward(t) /\ Elsewhere)
         \/ Validate \/ Rest \/ Tick \/ UNCHANGED vars
<1>1. ASSUME NEW t \in Tasks, Resolve(t) PROVE Onward(t) /\ Elsewhere
  BY <1>1, ResolveOnward DEF Resolve, Elsewhere, historyVars
<1>2. ASSUME NEW t \in Tasks, Limit(t) PROVE Onward(t) /\ Elsewhere
  BY <1>2, LimitOnward DEF Limit, Elsewhere, historyVars
<1>4. ASSUME NEW t \in Tasks, Decide(t) PROVE Onward(t) /\ Elsewhere
  BY <1>4, DecideOnward DEF Decide, Elsewhere, historyVars
<1>5. ASSUME NEW t \in Tasks, Collect(t) PROVE Onward(t) /\ Elsewhere
  BY <1>5, CollectOnward DEF Collect, Elsewhere, historyVars
<1>6. ASSUME NEW t \in Tasks, Replace(t) PROVE Onward(t) /\ Elsewhere
  BY <1>6, ReplaceOnward DEF Replace, Elsewhere, historyVars
<1>7. ASSUME NEW t \in Tasks, Leave(t) PROVE Onward(t) /\ Elsewhere
  BY <1>7, LeaveOnward DEF Leave, Elsewhere, historyVars
<1>8. ASSUME NEW t \in Tasks, At(t, "analysing"), NEW i \in DOMAIN task[t].look, Lookup(t, i)
      PROVE  Onward(t) /\ Elsewhere
  BY <1>8, LookupOnward DEF Lookup, Elsewhere, historyVars
<1>9. ASSUME NEW t \in Tasks, At(t, "analysing"), NEW i \in DOMAIN task[t].look, Answer(t, i)
      PROVE  Onward(t) /\ Elsewhere
  BY <1>9, AnswerOnward DEF Answer, Elsewhere, historyVars
<1> QED BY <1>1, <1>2, <1>4, <1>5, <1>6, <1>7, <1>8, <1>9 DEF Next

LEMMA IdleStays ==
  ASSUME NEW e, e = Idle PROVE [e EXCEPT !.moved = FALSE] = e
<1>1. e \in [at : {"idle"}, moved : {FALSE}]
  BY DEF Idle
<1>2. e.moved = FALSE
  BY DEF Idle
<1> QED BY <1>1, <1>2

\* The requests' images are what a step leaves of them.
LEMMA ImagesKept ==
  ASSUME TypeOK, ImagesOK, [Next]_vars PROVE ImagesOK'
<1>1. ASSUME NEW t \in Tasks, NEW e \in Request \cup {Idle}, task' = [task EXCEPT ![t] = e],
             e = Idle \/ PartsOK(t, e), UNCHANGED <<catalog, cfg>>
      PROVE  ImagesOK'
  <2> SUFFICES ASSUME NEW q \in Tasks, task'[q] # Idle PROVE PartsOK(q, task[q])'
    BY DEF ImagesOK
  <2>1. task'[t] = e /\ \A r \in Tasks \ {t} : task'[r] = task[r]
    BY <1>1 DEF TypeOK
  <2>2. PartsOK(q, task'[q])
    BY <2>1, <1>1 DEF ImagesOK
  <2> QED BY <2>2, <1>1 DEF PartsOK, NeedsHandoff, OldestOut, Few
<1>2. ASSUME NEW t \in Tasks, Begin(t) PROVE ImagesOK'
  <2>1. PICK c \in Convs, e \in Request :
          task' = [task EXCEPT ![t] = e] /\ e.at = "touched" /\ ~e.moved /\ AllImages(e.parts)
    BY <1>2, BeginTask
  <2>2. PartsOK(t, e)
    BY <2>1 DEF PartsOK
  <2> QED BY <2>1, <2>2, <1>1, <1>2 DEF Begin
<1>3. ASSUME NEW t \in Tasks, AcquireSlot(t) PROVE ImagesOK'
  <2>1. PICK e \in Request \cup {Idle} :
          task' = [task EXCEPT ![t] = e] /\ (e = Idle \/ (e.at = "keyed" /\ AllImages(e.parts)))
    BY <1>3, AcquireTask
  <2>2. e = Idle \/ PartsOK(t, e)
    BY <2>1 DEF PartsOK
  <2> QED BY <2>1, <2>2, <1>1, <1>3 DEF AcquireSlot
<1>4. ASSUME NEW t \in Tasks, Onward(t), UNCHANGED <<catalog, cfg>> PROVE ImagesOK'
  BY <1>1, <1>4 DEF Onward
<1>5. ASSUME NEW t \in Tasks, TrackConv(t) PROVE ImagesOK'
  BY <1>4, <1>5, TrackTask DEF TrackConv
<1>6. CASE Validate
  <2> SUFFICES ASSUME NEW q \in Tasks, task'[q] # Idle PROVE PartsOK(q, task[q])'
    BY DEF ImagesOK
  <2>1. task'[q] = [task[q] EXCEPT !.moved = ~At(q, "idle")]
    BY <1>6 DEF Validate
  <2>2. task[q] # Idle
    <3> SUFFICES ASSUME task[q] = Idle PROVE FALSE
      OBVIOUS
    <3>1. (~At(q, "idle")) = FALSE
      BY DEF At, Idle
    <3>2. task'[q] = [Idle EXCEPT !.moved = FALSE]
      BY <2>1, <3>1
    <3> QED BY <3>2, IdleStays
  <2>3. task[q] \in Request /\ PartsOK(q, task[q]) /\ ~At(q, "idle")
    BY <2>2 DEF TypeOK, ImagesOK, Request, Places, At
  <2>4. /\ task'[q].moved /\ task'[q].at = task[q].at /\ task'[q].parts = task[q].parts
        /\ task'[q].look = task[q].look
    BY <2>1, <2>3 DEF Request
  <2>5. cfg' = cfg
    BY <1>6 DEF Validate
  <2> QED BY <2>3, <2>4, <2>5 DEF PartsOK, OldestOut, Few
<1>7. CASE UNCHANGED <<task, catalog, cfg>>
  BY <1>7 DEF ImagesOK, PartsOK, NeedsHandoff, OldestOut, Few
<1> QED BY <1>2, <1>3, <1>4, <1>5, <1>6, <1>7, Steps DEF Elsewhere, Rest, Tick, vars

LEMMA TasksKept ==
  ASSUME TypeOK, ImagesOK, [Next]_vars PROVE task' \in [Tasks -> Request \cup {Idle}]
<1>0. task \in [Tasks -> Request \cup {Idle}]
  BY DEF TypeOK
<1>1. ASSUME NEW t \in Tasks, Begin(t) PROVE task' \in [Tasks -> Request \cup {Idle}]
  BY <1>0, <1>1, BeginTask, SetTask
<1>2. ASSUME NEW t \in Tasks, AcquireSlot(t) PROVE task' \in [Tasks -> Request \cup {Idle}]
  BY <1>0, <1>2, AcquireTask, SetTask
<1>3. ASSUME NEW t \in Tasks, Onward(t) PROVE task' \in [Tasks -> Request \cup {Idle}]
  BY <1>0, <1>3, SetTask DEF Onward
<1>4. CASE Validate
  <2>1. task' = [t \in Tasks |-> [task[t] EXCEPT !.moved = ~At(t, "idle")]]
    BY <1>4 DEF Validate
  <2>2. ASSUME NEW t \in Tasks PROVE [task[t] EXCEPT !.moved = ~At(t, "idle")] \in Request \cup {Idle}
    <3>1. CASE task[t] = Idle
      <4>1. (~At(t, "idle")) = FALSE
        BY <3>1 DEF At, Idle
      <4> QED BY <3>1, <4>1, IdleStays
    <3>2. CASE task[t] \in Request
      <4>1. (~At(t, "idle")) \in BOOLEAN
        BY DEF At
      <4> QED BY <3>2, <4>1, RequestWith
    <3> QED BY <1>0, <3>1, <3>2
  <2> QED BY <2>1, <2>2
<1>5. CASE UNCHANGED task
  BY <1>0, <1>5
<1> QED BY <1>1, <1>2, <1>3, <1>4, <1>5, Steps, TrackTask DEF Rest, Tick, vars

\* Only these steps change the map.
LEMMA MapSteps ==
  ASSUME TypeOK, ImagesOK, [Next]_vars
  PROVE  \/ \E t \in Tasks : Begin(t) \/ AcquireSlot(t) \/ TrackConv(t)
         \/ UNCHANGED <<convVars, recency, slots, excused>>
<1>1. Validate \/ Rest \/ Tick \/ UNCHANGED vars => UNCHANGED <<convVars, recency, slots, excused>>
  BY DEF Validate, Rest, Tick, vars, historyVars
<1>2. Elsewhere => UNCHANGED <<convVars, recency, slots, excused>>
  BY DEF Elsewhere
<1> QED BY <1>1, <1>2, Steps

LEMMA UpdateFacts ==
  ASSUME session \in [Convs -> [token : Slots \cup {0}, count : Nat, num : Nat]], counter \in Nat,
         NEW c \in Convs, NEW s \in Slots \cup {0}, Update(c, s)
  PROVE  /\ session' \in [Convs -> [token : Slots \cup {0}, count : Nat, num : Nat]]
         /\ counter' \in Nat
         /\ session'[c].token = s
         /\ \A d \in Convs \ {c} : session'[d] = session[d]
<1> DEFINE e == [session[c] EXCEPT !.token = s, !.count = session[c].count + 1]
<1>1. session' = [session EXCEPT ![c] = e]
  BY DEF Update
<1>2. session[c] \in [token : Slots \cup {0}, count : Nat, num : Nat]
  OBVIOUS
<1>3. e \in [token : Slots \cup {0}, count : Nat, num : Nat] /\ e.token = s
  <2>1. \A r \in [token : Slots \cup {0}, count : Nat, num : Nat], n \in Nat :
          /\ [r EXCEPT !.token = s, !.count = n] \in [token : Slots \cup {0}, count : Nat, num : Nat]
          /\ [r EXCEPT !.token = s, !.count = n].token = s
    OBVIOUS
  <2>2. session[c].count + 1 \in Nat
    BY <1>2
  <2> QED BY <1>2, <2>1, <2>2
<1> HIDE DEF e
<1> QED BY <1>1, <1>3 DEF Update

LEMMA MapTypesKept ==
  ASSUME TypeOK, MapOK, SlotsOK, ImagesOK, [Next]_vars
  PROVE  /\ session' \in [Convs -> [token : Slots \cup {0}, count : Nat, num : Nat]] /\ counter' \in Nat
         /\ order' \in Seq(Convs) /\ recency' \in Seq(Convs)
         /\ slots' \in [Convs -> SUBSET Slots] /\ excused' \subseteq Convs
<1> DEFINE Map ==
      /\ session \in [Convs -> [token : Slots \cup {0}, count : Nat, num : Nat]] /\ counter \in Nat
      /\ order \in Seq(Convs) /\ recency \in Seq(Convs)
      /\ slots \in [Convs -> SUBSET Slots] /\ excused \subseteq Convs
<1>0. Map
  BY DEF TypeOK
<1>1. ASSUME NEW t \in Tasks, Begin(t) PROVE Map'
  <2>1. PICK c \in Convs :
          Touch(c) /\ recency' = IF Known(c) THEN MoveFront(recency, c) ELSE recency
    BY <1>1, BeginTask
  <2>2. order' \in Seq(Convs) /\ recency' \in Seq(Convs)
    BY <1>0, <2>1, UseFirstIs, MoveFrontFacts DEF Touch
  <2>3. UNCHANGED <<session, counter, slots, excused>>
    BY <1>1, <2>1 DEF Begin, Touch
  <2> QED BY <1>0, <2>2, <2>3
<1>2. ASSUME NEW t \in Tasks, AcquireSlot(t) PROVE Map'
  <2>1. task[t].conv \in Convs
    <3>1. task[t] \in Request
      BY <1>2, BusyTask DEF TypeOK, AcquireSlot, At
    <3> QED BY <3>1 DEF Request
  <2>2. UNCHANGED <<session, counter, order, recency, slots>>
    BY <1>2 DEF AcquireSlot, convVars
  <2>3. excused' \subseteq Convs
    BY <1>0, <1>2, <2>1 DEF AcquireSlot
  <2> QED BY <1>0, <2>2, <2>3
<1>3. ASSUME NEW t \in Tasks, TrackConv(t) PROVE Map'
  <2> DEFINE c == task[t].conv
             s == task[t].slot
  <2>1. c \in Convs /\ s \in Slots \cup {0} /\ s # 0
    BY <1>3, TrackTask DEF SlotsOK, Bound
  <2>2. /\ Track(c, s) /\ recency' = MoveFront(recency, c)
        /\ slots' = [slots EXCEPT ![c] = @ \cup {s}]
        /\ excused' = excused \cup Overlapping(t) \cup (ToSet(order) \ ToSet(order'))
    BY <1>3 DEF TrackConv
  <2>3. Overlapping(t) \subseteq Convs
    BY <2>1 DEF Overlapping
  <2> HIDE DEF c, s
  <2>4. recency' \in Seq(Convs) /\ slots' \in [Convs -> SUBSET Slots]
    BY <1>0, <2>1, <2>2, MoveFrontFacts
  <2>5. excused' \subseteq Convs
    <3>1. ToSet(order) \subseteq Convs
      BY <1>0, LenProperties, ElementOfSeq DEF ToSet
    <3> QED BY <1>0, <2>2, <2>3, <3>1
  <2>6. CASE Known(c)
    <3>1. Update(c, s)
      BY <2>2, <2>6 DEF Track
    <3>2. order' \in Seq(Convs)
      BY <1>0, <2>1, <2>6, <3>1, UseFirstIs, MoveFrontFacts DEF Update
    <3>3. session' \in [Convs -> [token : Slots \cup {0}, count : Nat, num : Nat]] /\ counter' \in Nat
      BY <1>0, <2>1, <3>1, UpdateFacts
    <3> QED BY <2>4, <2>5, <3>2, <3>3
  <2>7. CASE ~Known(c)
    <3>1. Create(c, s)
      BY <2>2, <2>7 DEF Track
    <3>2. order' \in Seq(Convs)
      BY <1>0, <2>1, <3>1, CreateOrder DEF Create, MapOK
    <3>3. session' \in [Convs -> [token : Slots \cup {0}, count : Nat, num : Nat]]
      <4>1. [token |-> s, count |-> 1, num |-> counter + 1]
              \in [token : Slots \cup {0}, count : Nat, num : Nat]
        BY <1>0, <2>1
      <4>2. NoSession \in [token : Slots \cup {0}, count : Nat, num : Nat]
        BY DEF NoSession
      <4>3. session' = [d \in Convs |->
              CASE d = c -> [token |-> s, count |-> 1, num |-> counter + 1]
                [] d # c /\ d \in ToSet(order') -> session[d]
                [] OTHER -> NoSession]
        BY <3>1 DEF Create
      <4> QED BY <1>0, <4>1, <4>2, <4>3
    <3>4. counter' \in Nat
      BY <1>0, <3>1 DEF Create
    <3> QED BY <2>4, <2>5, <3>2, <3>3, <3>4
  <2> QED BY <2>6, <2>7
<1>4. ASSUME UNCHANGED <<convVars, recency, slots, excused>> PROVE Map'
  BY <1>0, <1>4 DEF convVars
<1> HIDE DEF Map
<1>5. Map'
  BY <1>1, <1>2, <1>3, <1>4, MapSteps
<1> QED BY <1>5 DEF Map

\* Only a look at the cache, an answer and the clock change the cache.
LEMMA CacheSteps ==
  ASSUME [Next]_vars
  PROVE  \/ \E t \in Tasks : At(t, "analysing") /\ \E i \in DOMAIN task[t].look : Lookup(t, i) \/ Answer(t, i)
         \/ Tick
         \/ UNCHANGED <<lru, used, lapsed, doubled>>
<1>1. ASSUME NEW t \in Tasks, Begin(t) \/ AcquireSlot(t) \/ TrackConv(t) \/ Resolve(t) \/ Limit(t)
      PROVE  UNCHANGED <<lru, used, lapsed, doubled>>
  BY <1>1 DEF Begin, AcquireSlot, TrackConv, Resolve, Limit, historyVars
<1>2. ASSUME NEW t \in Tasks, Decide(t) \/ Collect(t) \/ Replace(t) \/ Leave(t)
      PROVE  UNCHANGED <<lru, used, lapsed, doubled>>
  BY <1>2 DEF Decide, Collect, Replace, Leave, historyVars
<1>3. Validate \/ Rest \/ UNCHANGED vars => UNCHANGED <<lru, used, lapsed, doubled>>
  BY DEF Validate, Rest, vars, historyVars
<1> QED BY <1>1, <1>2, <1>3 DEF Next

LEMMA ImageType ==
  ASSUME TypeOK, ImagesOK, NEW t \in Tasks, At(t, "analysing"), NEW i \in DOMAIN task[t].look
  PROVE  task[t].parts[i].image \in Digests
<1>1. task[t] \in Request /\ task[t].at = "analysing" /\ task[t] # Idle
  BY BusyTask DEF TypeOK, At, Idle
<1>2. i \in DOMAIN task[t].parts /\ task[t].parts \in Seq(Part) /\ task[t].parts[i].image # NoUri
  BY <1>1 DEF ImagesOK, PartsOK, ImageParts, Request
<1>3. task[t].parts[i] \in Part
  BY <1>2, ElementOfSeq, LenProperties
<1> QED BY <1>2, <1>3 DEF Part

LEMMA CacheTypesKept ==
  ASSUME TypeOK, CacheOK, ImagesOK, [Next]_vars
  PROVE  /\ lru' \in Seq(Entry) /\ used' \in Seq(Digests) /\ lapsed' \subseteq Digests
         /\ doubled' \in BOOLEAN
<1>0. lru \in Seq(Entry) /\ used \in Seq(Digests) /\ lapsed \subseteq Digests /\ doubled \in BOOLEAN
      /\ Len(lru) <= CacheSize
  BY DEF TypeOK, CacheOK
<1>1. ASSUME NEW t \in Tasks, At(t, "analysing"), NEW i \in DOMAIN task[t].look, Lookup(t, i)
      PROVE  /\ lru' \in Seq(Entry) /\ used' \in Seq(Digests) /\ lapsed' \subseteq Digests
             /\ doubled' \in BOOLEAN
  <2> DEFINE d == task[t].parts[i].image
  <2>1. d \in Digests
    BY <1>1, ImageType
  <2>2. /\ lru' = lru \/ Get(d)
        /\ used' = used \/ used' = MoveFront(used, d)
        /\ lapsed' = lapsed \/ lapsed' = lapsed \cup {d}
        /\ doubled' = doubled
    BY <1>1 DEF Lookup
  <2> HIDE DEF d
  <2>4. lru' \in Seq(Entry)
    BY <1>0, <2>1, <2>2, GetType
  <2>5. used' \in Seq(Digests)
    BY <1>0, <2>1, <2>2, MoveFrontFacts
  <2> QED BY <1>0, <2>1, <2>2, <2>4, <2>5
<1>2. ASSUME NEW t \in Tasks, At(t, "analysing"), NEW i \in DOMAIN task[t].look, Answer(t, i)
      PROVE  /\ lru' \in Seq(Entry) /\ used' \in Seq(Digests) /\ lapsed' \subseteq Digests
             /\ doubled' \in BOOLEAN
  <2> DEFINE d == task[t].parts[i].image
  <2>1. d \in Digests
    BY <1>2, ImageType
  <2>2. /\ lru' = lru \/ Set(d)
        /\ used' = used \/ used' = MoveFront(used, d)
        /\ lapsed' = lapsed \/ lapsed' = lapsed \ {d}
        /\ doubled' = doubled \/ doubled' = (doubled \/ InCache(d))
    BY <1>2 DEF Answer
  <2> HIDE DEF d
  <2>3. (doubled \/ InCache(d)) \in BOOLEAN
    BY <1>0
  <2>4. lru' \in Seq(Entry)
    BY <1>0, <2>1, <2>2, SetType
  <2>5. used' \in Seq(Digests)
    BY <1>0, <2>1, <2>2, MoveFrontFacts
  <2> QED BY <1>0, <2>1, <2>2, <2>3, <2>4, <2>5
<1>3. CASE Tick
  BY <1>0, <1>3, TickType DEF Tick, historyVars
<1>4. CASE UNCHANGED <<lru, used, lapsed, doubled>>
  BY <1>0, <1>4
<1> QED BY <1>1, <1>2, <1>3, <1>4, CacheSteps

LEMMA TypesKept ==
  ASSUME TypeOK, MapOK, SlotsOK, CacheOK, ImagesOK, [Next]_vars PROVE TypeOK'
<1>1. catalog' \in Catalogs \cup {NoCatalog} /\ cfg' \in Configs /\ load' \in Loads /\ usable' \subseteq Slots
  <2>0. catalog \in Catalogs \cup {NoCatalog} /\ cfg \in Configs /\ load \in Loads /\ usable \subseteq Slots
    BY DEF TypeOK
  <2>1. CASE UNCHANGED <<catalog, cfg, load, usable>>
    BY <2>0, <2>1
  <2>2. CASE Validate
    BY <2>0, <2>2 DEF Validate
  <2>3. CASE Rest
    BY <2>0, <2>3 DEF Rest
  <2> QED BY <2>1, <2>2, <2>3, Steps DEF Begin, AcquireSlot, TrackConv, Elsewhere, Tick, vars
<1> QED BY <1>1, TasksKept, MapTypesKept, CacheTypesKept DEF TypeOK

-----------------------------------------------------------------------------
(* The map holds the conversations used last. *)

LEMMA MapUsed ==
  ASSUME TypeOK, MapOK, NEW c \in Convs, Known(c),
         order' = UseFirst(c), recency' = MoveFront(recency, c)
  PROVE  MapOK'
<1>0. /\ order \in Seq(Convs) /\ recency \in Seq(Convs)
      /\ Len(order) \in Nat /\ DOMAIN order = 1..Len(order)
      /\ Len(recency) \in Nat /\ DOMAIN recency = 1..Len(recency)
  BY LenProperties DEF TypeOK
<1>1. order' = MoveFront(order, c)
  BY UseFirstIs
<1>2. PICK p \in 1..Len(order) + 1 :
        Fronted(order, order', c, p) /\ (p \in DOMAIN order => order[p] = c)
        /\ (p \notin DOMAIN order => c \notin ToSet(order))
  BY <1>0, <1>1, MoveFrontFacts
<1>3. PICK q \in 1..Len(recency) + 1 :
        Fronted(recency, recency', c, q) /\ (q \in DOMAIN recency => recency[q] = c)
        /\ (q \notin DOMAIN recency => c \notin ToSet(recency))
  BY <1>0, MoveFrontFacts
<1>4. order' \in Seq(Convs) /\ recency' \in Seq(Convs)
  BY <1>0, <1>1, MoveFrontFacts
<1>5. Carried(order, order', p) /\ Carried(recency, recency', q) /\ Distinct(recency')
  <2>1. Carried(order, order', p)
    BY <1>0, <1>2, <1>4, FrontedFacts
  <2>2. Carried(recency, recency', q)
    BY <1>0, <1>3, <1>4, FrontedFacts
  <2>3. Distinct(recency')
    BY <1>0, <1>3, <1>4, FrontedDistinct DEF MapOK
  <2> QED BY <2>1, <2>2, <2>3
<1> DEFINE o == Len(order)
           r == Len(recency)
<1>6. /\ o \in Nat /\ r \in Nat /\ o <= r
      /\ DOMAIN order = 1..o /\ DOMAIN recency = 1..r
      /\ \A i \in 1..o : i \in 1..r
  <2>1. o \in Nat /\ r \in Nat /\ o <= r /\ DOMAIN order = 1..o /\ DOMAIN recency = 1..r
    BY <1>0 DEF MapOK
  <2> HIDE DEF o, r
  <2> QED BY <2>1
<1>7. /\ Len(order') = IF p <= o THEN o ELSE o + 1
      /\ Len(recency') = IF q <= r THEN r ELSE r + 1
  BY <1>2, <1>3 DEF Fronted
<1> HIDE DEF o, r
<1>8. p \in DOMAIN order /\ p = q
  <2>1. p \in DOMAIN order
    BY <1>2 DEF Known
  <2>2. p \in DOMAIN recency /\ recency[p] = c
    BY <2>1, <1>2, <1>6 DEF MapOK
  <2>3. q \in DOMAIN recency /\ recency[q] = c
    BY <2>2, <1>3 DEF ToSet
  <2> QED BY <2>1, <2>2, <2>3 DEF MapOK, Distinct
<1>9. Len(order') = o /\ Len(recency') = r
  BY <1>6, <1>7, <1>8
<1>10. ASSUME NEW i \in DOMAIN order' PROVE order'[i] = recency'[i]
  <2>1. CASE i = 1
    BY <2>1, <1>2, <1>3 DEF Fronted
  <2>2. CASE i # 1
    <3>1. i \in 2..Len(order')
      BY <2>2, <1>5 DEF Carried
    <3>2. i \in 2..Len(recency')
      BY <3>1, <1>6, <1>9
    <3>3. /\ Origin(i, p) \in DOMAIN order
          /\ order'[i] = order[Origin(i, p)] /\ recency'[i] = recency[Origin(i, p)]
      BY <3>1, <3>2, <1>5, <1>8 DEF Carried
    <3> QED BY <3>3 DEF MapOK
  <2> QED BY <2>1, <2>2
<1>11. Len(order') <= Len(recency') /\ Len(order') <= MapMax
       /\ (Len(order') > EvictTo \/ Len(order') = Len(recency'))
  BY <1>6, <1>9 DEF MapOK, o, r
<1> QED BY <1>5, <1>10, <1>11 DEF MapOK

LEMMA MapNew ==
  ASSUME TypeOK, MapOK, NEW c \in Convs, ~Known(c),
         order' = <<c>> \o Evict, recency' = MoveFront(recency, c)
  PROVE  MapOK'
<1> DEFINE n == Len(Evict)
           o == Len(order)
           r == Len(recency)
<1>0. /\ order \in Seq(Convs) /\ recency \in Seq(Convs)
      /\ Len(order) \in Nat /\ DOMAIN order = 1..Len(order)
      /\ Len(recency) \in Nat /\ DOMAIN recency = 1..Len(recency)
  BY LenProperties DEF TypeOK
<1>1. /\ Evict \in Seq(Convs) /\ n \in Nat /\ n <= Len(order)
      /\ \A i \in 1..n : Evict[i] = order[i]
      /\ n = EvictTo \/ n = Len(order)
      /\ n < MapMax
  BY <1>0, EvictFacts DEF MapOK
<1>2. order' \in Seq(Convs) /\ Fronted(Evict, order', c, n + 1)
  BY <1>0, CreateOrder DEF MapOK
<1>3. PICK q \in 1..Len(recency) + 1 :
        Fronted(recency, recency', c, q) /\ (q \in DOMAIN recency => recency[q] = c)
        /\ (q \notin DOMAIN recency => c \notin ToSet(recency))
  BY <1>0, MoveFrontFacts
<1>4. recency' \in Seq(Convs)
  BY <1>0, MoveFrontFacts
<1>5. Distinct(recency')
  BY <1>0, <1>3, <1>4, FrontedDistinct DEF MapOK
<1>6. Carried(Evict, order', n + 1) /\ Carried(recency, recency', q)
  BY <1>0, <1>1, <1>2, <1>3, <1>4, FrontedFacts
<1>7. /\ n \in Nat /\ o \in Nat /\ r \in Nat /\ q \in 1..r + 1
      /\ n <= o /\ n < MapMax /\ o <= r /\ MapMax \in Nat /\ EvictTo \in Nat
      /\ n = EvictTo \/ n = o
      /\ o > EvictTo \/ o = r
  BY <1>0, <1>1, ConvMapAssumption DEF MapOK
<1>8. DOMAIN order = 1..o /\ DOMAIN recency = 1..r
  BY <1>0
<1>9. Len(order') = n + 1 /\ Len(recency') = IF q <= r THEN r ELSE r + 1
  <2>1. ~(n + 1 <= n)
    BY <1>7
  <2> QED BY <1>2, <1>3, <2>1 DEF Fronted
<1> HIDE DEF n, o, r
<1>10. q > o
  <2> SUFFICES ASSUME q \in 1..o PROVE FALSE
    BY <1>7
  <2>1. q \in DOMAIN order /\ q \in DOMAIN recency
    BY <1>7, <1>8
  <2>2. order[q] = c
    BY <2>1, <1>3 DEF MapOK
  <2> QED BY <2>1, <2>2 DEF Known, ToSet
<1>11. Len(order') <= Len(recency')
  BY <1>7, <1>9, <1>10
<1>12. ASSUME NEW i \in DOMAIN order' PROVE order'[i] = recency'[i]
  <2>1. CASE i = 1
    BY <2>1, <1>2, <1>3 DEF Fronted
  <2>2. CASE i # 1
    <3>1. i \in 2..Len(order')
      BY <2>2, <1>6 DEF Carried
    <3>2. i \in 2..n + 1 /\ i \in 2..Len(recency')
      BY <3>1, <1>7, <1>9, <1>11
    <3>3. Origin(i, n + 1) = i - 1 /\ Origin(i, q) = i - 1 /\ i - 1 \in 1..n /\ i - 1 \in 1..o
      BY <3>2, <1>7, <1>10 DEF Origin
    <3>4. order'[i] = Evict[i - 1] /\ recency'[i] = recency[i - 1]
      BY <3>1, <3>2, <3>3, <1>6 DEF Carried
    <3>5. Evict[i - 1] = order[i - 1]
      BY <3>3, <1>1 DEF n
    <3>6. order[i - 1] = recency[i - 1]
      BY <3>3, <1>8 DEF MapOK
    <3> QED BY <3>4, <3>5, <3>6
  <2> QED BY <2>1, <2>2
<1>13. Len(order') > EvictTo \/ Len(order') = Len(recency')
  BY <1>7, <1>9, <1>10
<1>14. Len(order') <= MapMax
  BY <1>7, <1>9
<1> QED BY <1>5, <1>11, <1>12, <1>13, <1>14 DEF MapOK

LEMMA MapKept ==
  ASSUME TypeOK, MapOK, ImagesOK, [Next]_vars PROVE MapOK'
<1>1. ASSUME NEW t \in Tasks, Begin(t) PROVE MapOK'
  <2>1. PICK c \in Convs :
          Touch(c) /\ recency' = IF Known(c) THEN MoveFront(recency, c) ELSE recency
    BY <1>1, BeginTask
  <2>2. CASE Known(c)
    BY <2>1, <2>2, MapUsed DEF Touch
  <2>3. CASE ~Known(c)
    <3>1. order' = order /\ recency' = recency
      BY <2>1, <2>3 DEF Touch
    <3> QED BY <3>1 DEF MapOK, Distinct
  <2> QED BY <2>2, <2>3
<1>2. ASSUME NEW t \in Tasks, TrackConv(t) PROVE MapOK'
  <2>1. task[t].conv \in Convs
    BY <1>2, TrackTask
  <2>2. Track(task[t].conv, task[t].slot) /\ recency' = MoveFront(recency, task[t].conv)
    BY <1>2 DEF TrackConv
  <2>3. CASE Known(task[t].conv)
    BY <2>1, <2>2, <2>3, MapUsed DEF Track, Update
  <2>4. CASE ~Known(task[t].conv)
    BY <2>1, <2>2, <2>4, MapNew DEF Track, Create
  <2> QED BY <2>3, <2>4
<1>3. ASSUME order' = order, recency' = recency PROVE MapOK'
  BY <1>3 DEF MapOK, Distinct
<1>4. ASSUME NEW t \in Tasks, AcquireSlot(t) PROVE order' = order /\ recency' = recency
  BY <1>4 DEF AcquireSlot, convVars
<1>5. UNCHANGED <<convVars, recency, slots, excused>> => order' = order /\ recency' = recency
  BY DEF convVars
<1> QED BY <1>1, <1>2, <1>3, <1>4, <1>5, MapSteps

-----------------------------------------------------------------------------
(* A conversation keeps its slot. *)

\* What moves to the front is in the sequence afterwards, with all that was.
LEMMA FrontedSet ==
  ASSUME NEW T, NEW s \in Seq(T), NEW y \in Seq(T), NEW x, NEW p, Fronted(s, y, x, p),
         p \in DOMAIN s => s[p] = x
  PROVE  ToSet(y) = ToSet(s) \cup {x}
<1>1. Carried(s, y, p)
  BY FrontedFacts
<1>2. ASSUME NEW e \in ToSet(y) PROVE e \in ToSet(s) \cup {x}
  <2>1. PICK i \in DOMAIN y : y[i] = e
    BY <1>2 DEF ToSet
  <2>2. CASE i = 1
    BY <2>1, <2>2 DEF Fronted
  <2>3. CASE i # 1
    BY <2>1, <2>3, <1>1 DEF Carried, ToSet
  <2> QED BY <2>2, <2>3
<1>3. ASSUME NEW e \in ToSet(s) PROVE e \in ToSet(y)
  <2>1. PICK k \in DOMAIN s : s[k] = e
    BY <1>3 DEF ToSet
  <2>2. CASE k = p
    BY <2>1, <2>2, <1>1 DEF Fronted, Carried, ToSet
  <2>3. CASE k # p
    BY <2>1, <2>3, <1>1 DEF Carried, ToSet
  <2> QED BY <2>2, <2>3
<1>4. x \in ToSet(y)
  BY <1>1 DEF Fronted, Carried, ToSet
<1> QED BY <1>2, <1>3, <1>4

LEMMA MoveFrontSet ==
  ASSUME NEW T, NEW s \in Seq(T), NEW x \in T
  PROVE  ToSet(MoveFront(s, x)) = ToSet(s) \cup {x}
<1>1. MoveFront(s, x) \in Seq(T)
  BY MoveFrontFacts
<1>2. PICK p \in 1..Len(s) + 1 : Fronted(s, MoveFront(s, x), x, p) /\ (p \in DOMAIN s => s[p] = x)
  BY MoveFrontFacts
<1> QED BY <1>1, <1>2, FrontedSet

LEMMA UseFirstSet ==
  ASSUME TypeOK, NEW c \in Convs, Known(c), order' = UseFirst(c)
  PROVE  ToSet(order') = ToSet(order)
<1>1. order' = MoveFront(order, c)
  BY UseFirstIs
<1>2. order \in Seq(Convs)
  BY DEF TypeOK
<1>3. ToSet(order') = ToSet(order) \cup {c}
  BY <1>1, <1>2, MoveFrontSet
<1> QED BY <1>3 DEF Known

\* A step of task t before it is tracked, with the map and the slots as they are.
LEMMA SlotsTask ==
  ASSUME TypeOK, SlotsOK, NEW t \in Tasks, NEW e \in Request \cup {Idle},
         task' = [task EXCEPT ![t] = e], ToSet(order') = ToSet(order),
         session' = session, slots' = slots, excused \subseteq excused', Bound(e)'
  PROVE  SlotsOK'
<1>1. \A c \in Convs : ~Known(c)' => session'[c] = NoSession
  BY DEF SlotsOK, Known
<1>2. \A c \in Convs \ excused' :
        slots'[c] = IF session'[c].token = 0 THEN {} ELSE {session'[c].token}
  BY DEF SlotsOK
<1>3. ASSUME NEW q \in Tasks PROVE Bound(task[q])'
  <2>1. CASE q = t
    <3>1. task'[t] = e
      BY DEF TypeOK
    <3> QED BY <2>1, <3>1 DEF Bound
  <2>2. CASE q # t
    <3>1. task'[q] = task[q]
      BY <2>2 DEF TypeOK
    <3> QED BY <3>1 DEF SlotsOK, Bound
  <2> QED BY <2>1, <2>2
<1> QED BY <1>1, <1>2, <1>3 DEF SlotsOK

\* Tracking gives the conversation its slot and changes no other one, but those
\* the map gives up.
LEMMA TrackSession ==
  ASSUME TypeOK, MapOK, SlotsOK, NEW c \in Convs, NEW s \in Slots \cup {0}, Track(c, s)
  PROVE  /\ session'[c].token = s
         /\ \A d \in Convs \ {c} : session'[d] = session[d] \/ d \in ToSet(order) \ ToSet(order')
         /\ \A d \in Convs : ~Known(d)' => session'[d] = NoSession
<1>0. session \in [Convs -> [token : Slots \cup {0}, count : Nat, num : Nat]] /\ counter \in Nat
  BY DEF TypeOK
<1>1. CASE Known(c)
  <2>1. Update(c, s)
    BY <1>1 DEF Track
  <2>2. session'[c].token = s /\ \A d \in Convs \ {c} : session'[d] = session[d]
    BY <1>0, <2>1, UpdateFacts
  <2>3. ToSet(order') = ToSet(order)
    BY <1>1, <2>1, UseFirstSet DEF Update
  <2> QED BY <1>1, <2>2, <2>3 DEF SlotsOK, Known
<1>2. CASE ~Known(c)
  <2>1. Create(c, s)
    BY <1>2 DEF Track
  <2>2. session' = [d \in Convs |->
          CASE d = c -> [token |-> s, count |-> 1, num |-> counter + 1]
            [] d # c /\ d \in ToSet(order') -> session[d]
            [] OTHER -> NoSession]
    BY <2>1 DEF Create
  <2>3. session'[c].token = s
    BY <2>2
  <2>4. \A d \in Convs \ {c} : session'[d] = IF d \in ToSet(order') THEN session[d] ELSE NoSession
    BY <2>2
  <2>5. c \in ToSet(order')
    <3>1. Evict \in Seq(Convs) /\ Len(Evict) \in Nat
      BY EvictFacts DEF TypeOK, MapOK
    <3>2. order' \in Seq(Convs) /\ Fronted(Evict, order', c, Len(Evict) + 1)
      BY <2>1, CreateOrder DEF TypeOK, MapOK, Create
    <3>3. Len(Evict) + 1 \notin DOMAIN Evict
      BY <3>1, LenProperties
    <3>4. ToSet(order') = ToSet(Evict) \cup {c}
      BY <3>1, <3>2, <3>3, FrontedSet
    <3> QED BY <3>4
  <2> QED BY <2>3, <2>4, <2>5 DEF SlotsOK, Known
<1> QED BY <1>1, <1>2

LEMMA TrackSlots ==
  ASSUME TypeOK, MapOK, SlotsOK, ImagesOK, NEW t \in Tasks, TrackConv(t)
  PROVE  SlotsOK'
<1> DEFINE c == task[t].conv
           s == task[t].slot
<1>1. c \in Convs /\ s \in Slots \cup {0} /\ task[t].at = "keyed" /\ Onward(t)
  BY TrackTask
<1>2. /\ Track(c, s)
      /\ slots' = [slots EXCEPT ![c] = @ \cup {s}]
      /\ excused' = excused \cup Overlapping(t) \cup (ToSet(order) \ ToSet(order'))
  BY DEF TrackConv
<1>3. s # 0 /\ (c \in excused \/ session[c].token \in {0, s})
  BY <1>1 DEF SlotsOK, Bound
<1>4. PICK e \in Request \cup {Idle} :
        task' = [task EXCEPT ![t] = e] /\ e.at \notin {"touched", "keyed"}
  BY <1>1 DEF Onward
<1>5. \A q \in Tasks \ {t} : task[q].at \in {"touched", "keyed"} /\ task[q].conv = c => c \in excused'
  BY <1>2 DEF Overlapping
<1> HIDE DEF c, s
<1>6. /\ session'[c].token = s
      /\ \A d \in Convs \ {c} : session'[d] = session[d] \/ d \in excused'
      /\ \A d \in Convs : ~Known(d)' => session'[d] = NoSession
  BY <1>1, <1>2, TrackSession
<1>7. ASSUME NEW d \in Convs \ excused'
      PROVE  slots'[d] = IF session'[d].token = 0 THEN {} ELSE {session'[d].token}
  <2>1. d \notin excused
    BY <1>2
  <2>2. CASE d = c
    <3>1. slots[c] = IF session[c].token = 0 THEN {} ELSE {session[c].token}
      BY <2>1, <2>2 DEF SlotsOK
    <3>2. slots[c] \subseteq {s}
      BY <3>1, <2>1, <2>2, <1>3
    <3>3. slots'[c] = slots[c] \cup {s}
      BY <1>1, <1>2 DEF TypeOK
    <3>4. slots'[c] = {s}
      BY <3>2, <3>3
    <3> QED BY <3>4, <2>2, <1>3, <1>6
  <2>3. CASE d # c
    <3>1. slots'[d] = slots[d] /\ session'[d] = session[d]
      BY <2>3, <1>2, <1>6 DEF TypeOK
    <3> QED BY <3>1, <2>1 DEF SlotsOK
  <2> QED BY <2>2, <2>3
<1>8. ASSUME NEW q \in Tasks PROVE Bound(task[q])'
  <2>1. CASE q = t
    <3>1. task'[t] = e
      BY <1>4 DEF TypeOK
    <3> QED BY <2>1, <3>1, <1>4 DEF Bound
  <2>2. CASE q # t /\ task[q].at \notin {"touched", "keyed"}
    <3>1. task'[q] = task[q]
      BY <2>2, <1>4 DEF TypeOK
    <3> QED BY <2>2, <3>1 DEF Bound
  <2>3. CASE q # t /\ task[q].at \in {"touched", "keyed"}
    <3>1. task'[q] = task[q] /\ Bound(task[q]) /\ excused \subseteq excused'
      BY <2>3, <1>2, <1>4 DEF TypeOK, SlotsOK
    <3>2. task[q].conv \in Convs
      BY <2>3 DEF TypeOK, Request, Idle
    <3>3. task[q].conv = c => c \in excused'
      BY <2>3, <1>5
    <3>4. session'[task[q].conv] = session[task[q].conv] \/ task[q].conv \in excused'
      BY <3>2, <3>3, <1>6
    <3> QED BY <3>1, <3>4 DEF Bound
  <2> QED BY <2>1, <2>2, <2>3
<1> QED BY <1>6, <1>7, <1>8 DEF SlotsOK

LEMMA SlotsKept ==
  ASSUME TypeOK, MapOK, SlotsOK, ImagesOK, [Next]_vars PROVE SlotsOK'
<1>1. ASSUME NEW t \in Tasks, Begin(t) PROVE SlotsOK'
  <2>1. PICK c \in Convs, e \in Request :
          /\ Touch(c) /\ task' = [task EXCEPT ![t] = e]
          /\ e.at = "touched" /\ e.conv = c /\ e.slot = session[c].token
    BY <1>1, BeginTask
  <2>2. ToSet(order') = ToSet(order) /\ session' = session /\ slots' = slots /\ excused' = excused
    BY <1>1, <2>1, UseFirstSet DEF Begin, Touch
  <2>3. Bound(e)'
    BY <2>1, <2>2 DEF Bound
  <2> QED BY <2>1, <2>2, <2>3, SlotsTask
<1>2. ASSUME NEW t \in Tasks, AcquireSlot(t) PROVE SlotsOK'
  <2> DEFINE s == task[t].slot
             c == task[t].conv
  <2>1. PICK e \in Request \cup {Idle} :
          /\ task' = [task EXCEPT ![t] = e]
          /\ e = Idle \/ (e.at = "keyed" /\ e.conv = c /\ e.slot \in usable /\ (s \in usable => e.slot = s))
    BY <1>2, AcquireTask
  <2>2. order' = order /\ session' = session /\ slots' = slots
        /\ excused' = IF s \in usable \cup {0} THEN excused ELSE excused \cup {c}
    BY <1>2 DEF AcquireSlot, convVars
  <2>3. c \notin excused => s = session[c].token
    BY <1>2 DEF AcquireSlot, At, SlotsOK, Bound
  <2>4. 0 \notin usable
    BY PrepareAssumption DEF TypeOK
  <2> HIDE DEF s, c
  <2>5. CASE e = Idle
    BY <2>1, <2>2, <2>5, SlotsTask DEF Bound, Idle
  <2>6. CASE e # Idle
    <3>1. e.slot # 0 /\ (c \in excused' \/ session[c].token \in {0, e.slot})
      BY <2>1, <2>2, <2>3, <2>4, <2>6
    <3>2. Bound(e)'
      BY <3>1, <2>1, <2>2, <2>6 DEF Bound
    <3> QED BY <2>1, <2>2, <3>2, SlotsTask
  <2> QED BY <2>5, <2>6
<1>3. ASSUME NEW t \in Tasks, Onward(t), Elsewhere PROVE SlotsOK'
  <2>1. PICK e \in Request \cup {Idle} :
          task' = [task EXCEPT ![t] = e] /\ e.at \notin {"touched", "keyed"}
    BY <1>3 DEF Onward
  <2>2. order' = order /\ session' = session /\ slots' = slots /\ excused' = excused
    BY <1>3 DEF Elsewhere, convVars
  <2>3. Bound(e)'
    BY <2>1 DEF Bound
  <2> QED BY <2>1, <2>2, <2>3, SlotsTask
<1>4. CASE Validate
  <2>1. order' = order /\ session' = session /\ slots' = slots /\ excused' = excused
    BY <1>4 DEF Validate, convVars, historyVars
  <2>2. ASSUME NEW q \in Tasks PROVE Bound(task[q])'
    <3>1. task'[q] = [task[q] EXCEPT !.moved = ~At(q, "idle")]
      BY <1>4 DEF Validate
    <3>2. CASE task[q] = Idle
      <4>1. (~At(q, "idle")) = FALSE
        BY <3>2 DEF At, Idle
      <4>2. task'[q] = Idle
        BY <3>1, <3>2, <4>1, IdleStays
      <4> QED BY <4>2 DEF Bound, Idle
    <3>3. CASE task[q] \in Request
      <4>1. task'[q].at = task[q].at /\ task'[q].conv = task[q].conv /\ task'[q].slot = task[q].slot
        BY <3>1, <3>3 DEF Request
      <4>2. Bound(task[q])
        BY DEF SlotsOK
      <4> QED BY <2>1, <4>1, <4>2 DEF Bound
    <3> QED BY <3>2, <3>3 DEF TypeOK
  <2> QED BY <2>1, <2>2 DEF SlotsOK, Known
<1>5. ASSUME UNCHANGED <<task, order, session, slots, excused>> PROVE SlotsOK'
  BY <1>5 DEF SlotsOK, Known, Bound
<1>6. Rest \/ Tick \/ UNCHANGED vars => UNCHANGED <<task, order, session, slots, excused>>
  BY DEF Rest, Tick, vars, convVars, historyVars
<1> QED BY <1>1, <1>2, <1>3, <1>4, <1>5, <1>6, TrackSlots, Steps

-----------------------------------------------------------------------------
(* The cache keeps what was used last. *)

Has(s, d) == \E k \in DOMAIN s : s[k].digest = d

LEMMA InCacheHas == \A d : InCache(d) <=> Has(lru, d)
BY DEF InCache, Has, ToSet

\* base is a beginning of the cache.
Beginning(base) ==
  /\ base \in Seq(Entry) /\ Len(base) \in Nat /\ Len(base) <= Len(lru)
  /\ \A i \in 1..Len(base) : base[i] = lru[i]

\* The entry e of digest d comes in front of the other digests of base.
Renewed(base, e, d, p) ==
  /\ Fronted(base, lru', e, p) /\ Carried(base, lru', p)
  /\ \A k \in DOMAIN base \ {p} : base[k].digest # d
  /\ p \in DOMAIN base => base[p].digest = d

LEMMA RenewedFacts ==
  ASSUME lru \in Seq(Entry), DistinctDigests(lru), NEW base, Beginning(base),
         NEW e \in Entry, NEW d, e.digest = d, lru' = <<e>> \o Without(base, d)
  PROVE  DistinctDigests(lru') /\ \E p : Renewed(base, e, d, p)
<1>0. /\ Len(lru) \in Nat /\ DOMAIN lru = 1..Len(lru)
      /\ Len(base) \in Nat /\ DOMAIN base = 1..Len(base)
  BY LenProperties DEF Beginning
<1>1. DOMAIN base \subseteq DOMAIN lru /\ \A i \in DOMAIN base : base[i] = lru[i]
  BY <1>0 DEF Beginning
<1>2. PICK p \in 1..Len(base) + 1 :
        /\ Fronted(base, lru', e, p)
        /\ p \in DOMAIN base => base[p].digest = d
        /\ p \notin DOMAIN base => \A i \in DOMAIN base : base[i].digest # d
  <2>1. base \in Seq(Entry)
    BY DEF Beginning
  <2> QED BY <2>1, WithoutFronted
<1>3. lru' \in Seq(Entry)
  <2>1. base \in Seq(Entry)
    BY DEF Beginning
  <2> QED BY <2>1, WithoutFronted
<1>4. Carried(base, lru', p)
  BY <1>2, <1>3, FrontedFacts DEF Beginning
<1>5. \A k \in DOMAIN base \ {p} : base[k].digest # d
  BY <1>1, <1>2 DEF DistinctDigests
<1>6. Renewed(base, e, d, p)
  BY <1>2, <1>4, <1>5 DEF Renewed
<1>7. ASSUME NEW i \in DOMAIN lru', NEW j \in DOMAIN lru', lru'[i].digest = lru'[j].digest
      PROVE  ~(i < j)
  <2> SUFFICES ASSUME i < j PROVE FALSE
    OBVIOUS
  <2>1. j \in 2..Len(lru')
    BY <1>4 DEF Carried
  <2>2. Origin(j, p) \in DOMAIN base \ {p} /\ lru'[j] = base[Origin(j, p)]
    BY <2>1, <1>4 DEF Carried
  <2>3. CASE i = 1
    BY <2>2, <2>3, <1>2, <1>5, <1>7 DEF Fronted
  <2>4. CASE i # 1
    <3>1. i \in 2..Len(lru')
      BY <2>4, <1>4 DEF Carried
    <3>2. /\ Origin(i, p) \in DOMAIN base \ {p} /\ lru'[i] = base[Origin(i, p)]
          /\ Origin(i, p) < Origin(j, p)
      BY <2>1, <3>1, <1>4 DEF Carried
    <3>3. Origin(i, p) = Origin(j, p)
      BY <2>2, <3>2, <1>1, <1>7 DEF DistinctDigests
    <3> QED BY <2>2, <3>2, <3>3, <1>0
  <2> QED BY <2>3, <2>4
<1>8. DistinctDigests(lru')
  <2> SUFFICES ASSUME NEW i \in DOMAIN lru', NEW j \in DOMAIN lru', lru'[i].digest = lru'[j].digest
               PROVE  i = j
    BY DEF DistinctDigests
  <2>1. ~(i < j) /\ ~(j < i)
    BY <1>7
  <2> QED BY <2>1, <1>4 DEF Carried
<1> QED BY <1>6, <1>8

\* Without the entry at p.
Shorter(s, r, p) ==
  /\ Len(s) \in Nat /\ Len(r) \in Nat /\ Len(r) <= Len(s)
  /\ DOMAIN s = 1..Len(s) /\ DOMAIN r = 1..Len(r)
  /\ \A i \in DOMAIN r : \E k \in DOMAIN s \ {p} : k = (IF i < p THEN i ELSE i + 1) /\ r[i] = s[k]
  /\ \A k \in DOMAIN s \ {p} : \E i \in DOMAIN r : k = (IF i < p THEN i ELSE i + 1) /\ r[i] = s[k]

LEMMA ShorterFacts ==
  ASSUME NEW T, NEW s \in Seq(T), NEW p \in DOMAIN s
  PROVE  Shorter(s, RemoveAt(s, p), p)
<1> DEFINE r == RemoveAt(s, p)
<1>1. Len(s) \in Nat /\ DOMAIN s = 1..Len(s) /\ p \in 1..Len(s)
  BY LenProperties
<1>2. /\ r \in Seq(T) /\ Len(r) = Len(s) - 1
      /\ \A j \in 1..Len(s) - 1 : r[j] = IF j < p THEN s[j] ELSE s[j + 1]
  BY RemoveAtFacts
<1>3. Len(r) \in Nat /\ DOMAIN r = 1..Len(r)
  BY <1>2, LenProperties
<1> HIDE DEF r
<1>4. ASSUME NEW i \in DOMAIN r
      PROVE  \E k \in DOMAIN s \ {p} : k = (IF i < p THEN i ELSE i + 1) /\ r[i] = s[k]
  <2>1. i \in 1..Len(s) - 1
    BY <1>1, <1>2, <1>3
  <2>2. CASE i < p
    <3>1. i \in DOMAIN s \ {p} /\ r[i] = s[i]
      BY <2>1, <2>2, <1>1, <1>2
    <3> QED BY <2>2, <3>1
  <2>3. CASE ~(i < p)
    <3>1. i + 1 \in DOMAIN s \ {p}
      BY <2>1, <2>3, <1>1
    <3>2. r[i] = s[i + 1]
      BY <2>1, <2>3, <1>2
    <3> QED BY <2>3, <3>1, <3>2
  <2> QED BY <2>2, <2>3
<1>5. ASSUME NEW k \in DOMAIN s \ {p}
      PROVE  \E i \in DOMAIN r : k = (IF i < p THEN i ELSE i + 1) /\ r[i] = s[k]
  <2>1. CASE k < p
    <3>1. k \in DOMAIN r /\ k \in 1..Len(s) - 1
      BY <2>1, <1>1, <1>2, <1>3
    <3> QED BY <2>1, <3>1, <1>2
  <2>2. CASE k > p
    <3>1. k - 1 \in DOMAIN r /\ k - 1 \in 1..Len(s) - 1 /\ ~(k - 1 < p) /\ (k - 1) + 1 = k
      BY <2>2, <1>1, <1>2, <1>3
    <3>2. r[k - 1] = s[k]
      BY <3>1, <1>2
    <3> QED BY <3>1, <3>2
  <2> QED BY <2>1, <2>2, <1>1
<1>6. Len(r) <= Len(s)
  BY <1>1, <1>2
<1> QED BY <1>1, <1>3, <1>4, <1>5, <1>6 DEF Shorter, r

\* A look at the cache finds the entry, or takes it out, or finds none.
LEMMA GetCases ==
  ASSUME lru \in Seq(Entry), NEW d, Get(d)
  PROVE  \/ /\ InCache(d) /\ IsHit(d)
            /\ EntryOf(d) \in Entry /\ EntryOf(d).digest = d
            /\ lru' = <<EntryOf(d)>> \o Without(lru, d)
         \/ /\ InCache(d) /\ ~IsHit(d)
            /\ \E p \in DOMAIN lru : lru[p].digest = d /\ Shorter(lru, lru', p)
         \/ ~InCache(d) /\ ~IsHit(d) /\ lru' = lru
<1>1. CASE IsHit(d)
  BY <1>1, EntryOfFacts DEF Get, IsHit
<1>2. CASE ~IsHit(d)
  <2>1. PICK p \in 1..Len(lru) + 1 :
          /\ IF p <= Len(lru) THEN p \in DOMAIN lru /\ lru' = RemoveAt(lru, p) ELSE lru' = lru
          /\ p \in DOMAIN lru => lru[p].digest = d
          /\ p \notin DOMAIN lru => \A i \in DOMAIN lru : lru[i].digest # d
    BY <1>2, WithoutFacts DEF Get
  <2>2. CASE p \in DOMAIN lru
    <3>1. p <= Len(lru)
      BY <2>2, LenProperties
    <3>2. Shorter(lru, lru', p)
      BY <2>1, <2>2, <3>1, ShorterFacts
    <3> QED BY <2>1, <2>2, <3>2, <1>2, InCacheHas DEF Has
  <2>3. CASE p \notin DOMAIN lru
    BY <2>1, <2>3, <1>2, InCacheHas DEF Has
  <2> QED BY <2>2, <2>3
<1> QED BY <1>1, <1>2

LEMMA LruBegins ==
  ASSUME lru \in Seq(Entry) PROVE Beginning(lru)
BY LenProperties DEF Beginning

LEMMA KeptBegins ==
  ASSUME lru \in Seq(Entry), Len(lru) <= CacheSize PROVE Beginning(Kept)
<1>1. Len(lru) \in Nat
  BY LenProperties
<1> QED BY <1>1, KeptFacts DEF Beginning

LEMMA CacheKept ==
  ASSUME TypeOK, CacheOK, ImagesOK, [Next]_vars PROVE CacheOK'
<1>0. lru \in Seq(Entry) /\ DistinctDigests(lru) /\ Len(lru) <= CacheSize
      /\ Len(lru) \in Nat /\ CacheSize \in Nat
  BY LenProperties, HandoffCacheAssumption DEF TypeOK, CacheOK
<1>1. ASSUME lru' = lru PROVE CacheOK'
  BY <1>1 DEF CacheOK
<1>2. ASSUME NEW d, Get(d) PROVE CacheOK'
  <2>1. CASE /\ InCache(d)
             /\ EntryOf(d) \in Entry /\ EntryOf(d).digest = d
             /\ lru' = <<EntryOf(d)>> \o Without(lru, d)
    <3>1. PICK p : Renewed(lru, EntryOf(d), d, p)
      BY <1>0, <2>1, LruBegins, RenewedFacts
    <3>2. DistinctDigests(lru')
      BY <1>0, <2>1, LruBegins, RenewedFacts
    <3>3. p \in DOMAIN lru
      BY <2>1, <3>1, InCacheHas DEF Has, Renewed
    <3>4. Len(lru') = Len(lru)
      BY <1>0, <3>1, <3>3, LenProperties DEF Renewed, Fronted
    <3> QED BY <1>0, <3>2, <3>4 DEF CacheOK
  <2>2. CASE \E p \in DOMAIN lru : lru[p].digest = d /\ Shorter(lru, lru', p)
    <3>1. PICK p \in DOMAIN lru : Shorter(lru, lru', p)
      BY <2>2
    <3>2. Len(lru') <= CacheSize
      BY <1>0, <3>1 DEF Shorter
    <3>3. ASSUME NEW i \in DOMAIN lru', NEW j \in DOMAIN lru', lru'[i].digest = lru'[j].digest
          PROVE  i = j
      <4>1. PICK k \in DOMAIN lru : k = (IF i < p THEN i ELSE i + 1) /\ lru'[i] = lru[k]
        BY <3>1 DEF Shorter
      <4>2. PICK m \in DOMAIN lru : m = (IF j < p THEN j ELSE j + 1) /\ lru'[j] = lru[m]
        BY <3>1 DEF Shorter
      <4>3. k = m
        BY <1>0, <3>3, <4>1, <4>2 DEF DistinctDigests
      <4>0. DOMAIN lru' = 1..Len(lru') /\ DOMAIN lru = 1..Len(lru) /\ Len(lru') \in Nat /\ Len(lru) \in Nat
        BY <3>1 DEF Shorter
      <4>4. i \in Nat /\ j \in Nat /\ p \in Nat
        BY <4>0
      <4>5. \A x, y, z \in Nat : (IF x < z THEN x ELSE x + 1) = (IF y < z THEN y ELSE y + 1) => x = y
        OBVIOUS
      <4>6. (IF i < p THEN i ELSE i + 1) = (IF j < p THEN j ELSE j + 1)
        BY <4>1, <4>2, <4>3
      <4> QED BY <4>4, <4>5, <4>6
    <3> QED BY <3>2, <3>3 DEF CacheOK, DistinctDigests
  <2> QED BY <2>1, <2>2, <1>0, <1>1, <1>2, GetCases
<1>3. ASSUME NEW d \in Digests, Set(d) PROVE CacheOK'
  <2> DEFINE e == [digest |-> d, age |-> 0]
  <2>1. e \in Entry /\ lru' = <<e>> \o Without(Kept, d) /\ e.digest = d
    BY <1>0, <1>3, SetType
  <2> HIDE DEF e
  <2>2. Beginning(Kept) /\ Len(Kept) \in Nat /\ Len(Kept) < CacheSize
    BY <1>0, KeptBegins, KeptFacts
  <2>3. PICK p : Renewed(Kept, e, d, p)
    BY <1>0, <2>1, <2>2, RenewedFacts
  <2>4. DistinctDigests(lru')
    BY <1>0, <2>1, <2>2, RenewedFacts
  <2>5. Len(lru') = IF p <= Len(Kept) THEN Len(Kept) ELSE Len(Kept) + 1
    BY <2>3 DEF Renewed, Fronted
  <2>6. Len(lru') <= CacheSize
    BY <1>0, <2>2, <2>5
  <2> QED BY <2>4, <2>6 DEF CacheOK
<1>4. ASSUME NEW t \in Tasks, At(t, "analysing"), NEW i \in DOMAIN task[t].look,
             Lookup(t, i) \/ Answer(t, i)
      PROVE  CacheOK'
  <2>1. task[t].parts[i].image \in Digests
    BY <1>4, ImageType
  <2>2. lru' = lru \/ Get(task[t].parts[i].image) \/ Set(task[t].parts[i].image)
    BY <1>4 DEF Lookup, Answer
  <2> QED BY <2>1, <2>2, <1>1, <1>2, <1>3
<1>5. CASE Tick
  <2>1. Len(lru') = Len(lru) /\ DOMAIN lru' = DOMAIN lru
        /\ \A i \in DOMAIN lru : lru'[i].digest = lru[i].digest
    BY <1>0, <1>5, TickType DEF Tick
  <2> QED BY <1>0, <2>1 DEF CacheOK, DistinctDigests
<1> QED BY <1>1, <1>4, <1>5, CacheSteps

\* What there is to show of the next state.
LEMMA AgreeingNext ==
  ASSUME /\ Distinct(used')
         /\ \A i \in DOMAIN lru' : lru'[i].digest \in ToSet(used') \ lapsed'
         /\ \A i, j \in DOMAIN lru', p, q \in DOMAIN used' :
              i < j /\ used'[p] = lru'[i].digest /\ used'[q] = lru'[j].digest => p < q
         /\ \A p \in DOMAIN used' : used'[p] \notin lapsed' /\ ~Has(lru', used'[p]) => p > CacheSize
  PROVE  Agreeing'
BY DEF Agreeing, Distinct, InCache, Has, ToSet

\* An image is used: its entry comes in front, and if there is no room for it,
\* the last one goes.
LEMMA AgreeUse ==
  ASSUME TypeOK, CacheOK, Agreeing, NEW base, Beginning(base), NEW d \in Digests,
         NEW e \in Entry, e.digest = d, lru' = <<e>> \o Without(base, d),
         used' = MoveFront(used, d), lapsed' = lapsed \ {d},
         \/ base = lru
         \/ Len(base) + 1 = Len(lru) /\ Len(lru) = CacheSize /\ ~InCache(d)
  PROVE  Agreeing'
<1>0. /\ lru \in Seq(Entry) /\ DistinctDigests(lru) /\ used \in Seq(Digests)
      /\ DOMAIN lru = 1..Len(lru) /\ DOMAIN base = 1..Len(base)
      /\ Len(lru) \in Nat /\ Len(base) \in Nat /\ Len(base) <= Len(lru)
  BY LenProperties DEF TypeOK, CacheOK, Beginning
<1>1. DOMAIN base \subseteq DOMAIN lru /\ \A k \in DOMAIN base : base[k] = lru[k]
  <2>1. \A m, n \in Nat : m <= n => 1..m \subseteq 1..n
    OBVIOUS
  <2>2. DOMAIN base \subseteq DOMAIN lru
    BY <2>1, <1>0
  <2> QED BY <2>2, <1>0 DEF Beginning
<1>2. PICK p : Renewed(base, e, d, p)
  BY <1>0, RenewedFacts
<1>3. DistinctDigests(lru')
  BY <1>0, RenewedFacts
<1>4. PICK q \in 1..Len(used) + 1 :
        /\ Fronted(used, used', d, q)
        /\ q \in DOMAIN used => used[q] = d
        /\ q \notin DOMAIN used => d \notin ToSet(used)
  BY <1>0, MoveFrontFacts
<1>5. used' \in Seq(Digests)
  BY <1>0, MoveFrontFacts
<1>6. Carried(used, used', q)
  BY <1>0, <1>4, <1>5, FrontedFacts
<1>7. Distinct(used')
  BY <1>0, <1>4, <1>5, FrontedDistinct DEF Agreeing
<1>8. ToSet(used') = ToSet(used) \cup {d}
  <2>1. ToSet(MoveFront(used, d)) = ToSet(used) \cup {d}
    <3>1. used \in Seq(Digests)
      BY <1>0
    <3> QED BY <3>1, MoveFrontSet
  <2> QED BY <2>1
<1>9. lru'[1] = e /\ lru'[1].digest = d /\ used'[1] = d /\ 1 \in DOMAIN lru' /\ 1 \in DOMAIN used'
  BY <1>2, <1>4, <1>6 DEF Renewed, Fronted, Carried
\* The others in the cache were there before.
<1>10. ASSUME NEW i \in DOMAIN lru', i # 1
       PROVE  /\ i \in 2..Len(lru')
              /\ Origin(i, p) \in DOMAIN base /\ Origin(i, p) \in DOMAIN lru
              /\ lru'[i] = lru[Origin(i, p)] /\ lru'[i].digest # d
  <2>1. i \in 2..Len(lru')
    BY <1>2, <1>10 DEF Renewed, Carried
  <2>2. Origin(i, p) \in DOMAIN base \ {p} /\ lru'[i] = base[Origin(i, p)]
    BY <2>1, <1>2 DEF Renewed, Carried
  <2> QED BY <2>1, <2>2, <1>1, <1>2 DEF Renewed
\* So were those used, and none has come closer to the front.
<1>11. ASSUME NEW a \in DOMAIN used', used'[a] # d
       PROVE  /\ a \in 2..Len(used')
              /\ Origin(a, q) \in DOMAIN used /\ used'[a] = used[Origin(a, q)] /\ Origin(a, q) <= a
  <2>1. a # 1
    BY <1>9, <1>11
  <2> QED BY <2>1, <1>6 DEF Carried
<1>12. ASSUME NEW a \in DOMAIN used', NEW b \in DOMAIN used', used'[a] # d, used'[b] # d,
              Origin(a, q) < Origin(b, q)
       PROVE  a < b
  <2>1. a \in 2..Len(used') /\ b \in 2..Len(used')
    BY <1>11, <1>12
  <2>2. a \in Nat /\ b \in Nat /\ Origin(a, q) \in Nat /\ Origin(b, q) \in Nat
    BY <2>1, <1>6 DEF Carried
  <2>3. b < a => Origin(b, q) < Origin(a, q)
    BY <2>1, <1>6 DEF Carried
  <2> QED BY <2>2, <2>3, <1>12
\* What the cache holds was used and has not lapsed.
<1>13. ASSUME NEW i \in DOMAIN lru' PROVE lru'[i].digest \in ToSet(used') \ lapsed'
  <2>1. CASE i = 1
    BY <2>1, <1>8, <1>9
  <2>2. CASE i # 1
    <3>1. lru'[i].digest \in ToSet(used) \ lapsed
      BY <2>2, <1>10 DEF Agreeing
    <3> QED BY <3>1, <1>8
  <2> QED BY <2>1, <2>2
\* The orders agree.
<1>14. ASSUME NEW i \in DOMAIN lru', NEW j \in DOMAIN lru', NEW a \in DOMAIN used', NEW b \in DOMAIN used',
              i < j, used'[a] = lru'[i].digest, used'[b] = lru'[j].digest
       PROVE  a < b
  <2>1. i \in Nat /\ j \in Nat /\ i >= 1 /\ a \in Nat /\ b \in Nat /\ a >= 1 /\ b >= 1
    BY <1>2, <1>6 DEF Renewed, Carried
  <2>2. j # 1
    BY <2>1, <1>14
  <2>3. used'[b] # d
    BY <2>2, <1>10, <1>14
  <2>4. CASE i = 1
    <3>1. a = 1
      BY <2>4, <1>7, <1>9, <1>14 DEF Distinct
    <3>2. b # 1
      BY <2>3, <1>9
    <3> QED BY <3>1, <3>2, <2>1
  <2>5. CASE i # 1
    <3>1. used'[a] # d
      BY <2>5, <1>10, <1>14
    <3>2. Origin(i, p) < Origin(j, p)
      BY <2>2, <2>5, <1>2, <1>10, <1>14 DEF Renewed, Carried
    <3>3. /\ used[Origin(a, q)] = lru[Origin(i, p)].digest
          /\ used[Origin(b, q)] = lru[Origin(j, p)].digest
      BY <2>2, <2>3, <2>5, <3>1, <1>10, <1>11, <1>14
    <3>4. Origin(a, q) < Origin(b, q)
      <4>1. /\ Origin(i, p) \in DOMAIN lru /\ Origin(j, p) \in DOMAIN lru
            /\ Origin(a, q) \in DOMAIN used /\ Origin(b, q) \in DOMAIN used
        BY <2>2, <2>3, <2>5, <3>1, <1>10, <1>11
      <4> QED BY <4>1, <3>2, <3>3 DEF Agreeing
    <3> QED BY <2>3, <3>1, <3>4, <1>12
  <2> QED BY <2>4, <2>5
\* What is used and not held is behind as many as the cache has room for.
<1>15. ASSUME NEW a \in DOMAIN used', used'[a] \notin lapsed', ~Has(lru', used'[a])
       PROVE  a > CacheSize
  <2> DEFINE x == used'[a]
             o == Origin(a, q)
  <2>1. \A i \in DOMAIN lru' : lru'[i].digest # x
    BY <1>15 DEF Has
  <2>2. x # d
    BY <2>1, <1>9
  <2>3. o \in DOMAIN used /\ x = used[o] /\ o <= a /\ o \in Nat /\ a \in Nat
    BY <2>2, <1>6, <1>11 DEF Carried
  <2>9. CacheSize \in Nat /\ (o > CacheSize => a > CacheSize) /\ (CacheSize <= a - 1 => a > CacheSize)
    <3>1. CacheSize \in Nat
      BY HandoffCacheAssumption
    <3>2. \A m, n, l \in Nat : (m <= n /\ m > l => n > l) /\ (l <= n - 1 => n > l)
      OBVIOUS
    <3> QED BY <3>1, <3>2, <2>3
  <2>4. x \notin lapsed
    BY <2>2, <1>15
  <2> HIDE DEF x, o
  <2>5. CASE ~InCache(x)
    <3>1. o > CacheSize
      BY <2>3, <2>4, <2>5 DEF Agreeing
    <3> QED BY <3>1, <2>9
  <2>6. CASE InCache(x)
    <3>1. PICK k \in DOMAIN lru : lru[k].digest = x
      BY <2>6, InCacheHas DEF Has
    <3>2. k \notin DOMAIN base
      <4> SUFFICES ASSUME k \in DOMAIN base PROVE FALSE
        OBVIOUS
      <4>1. k # p
        BY <3>1, <2>2, <1>1, <1>2 DEF Renewed
      <4>2. PICK i \in 2..Len(lru') : Origin(i, p) = k
        BY <4>1, <1>2 DEF Renewed, Carried
      <4>3. i \in DOMAIN lru' /\ lru'[i] = base[k]
        BY <4>2, <1>2 DEF Renewed, Carried
      <4> QED BY <4>3, <3>1, <2>1, <1>1
    <3>3. base # lru
      BY <3>2
    <3>4. Len(base) + 1 = Len(lru) /\ Len(lru) = CacheSize /\ ~InCache(d)
      BY <3>3
    <3>5. p \notin DOMAIN base
      BY <3>4, <1>1, <1>2, InCacheHas DEF Has, Renewed
    <3>6. DOMAIN lru' = 1..CacheSize
      <4>1. Len(lru') = CacheSize
        BY <3>4, <3>5, <1>0, <1>2, <2>9 DEF Renewed, Fronted
      <4> QED BY <4>1, <1>2 DEF Renewed, Carried
    <3>7. ASSUME NEW i \in DOMAIN lru' PROVE \E b \in DOMAIN used' : used'[b] = lru'[i].digest /\ b < a
      <4>1. PICK b \in DOMAIN used' : used'[b] = lru'[i].digest
        BY <1>13 DEF ToSet
      <4>2. CASE i = 1
        <5>1. b = 1
          BY <4>1, <4>2, <1>7, <1>9 DEF Distinct
        <5>2. a \in 2..Len(used')
          BY <2>2, <1>11 DEF x
        <5> QED BY <4>1, <5>1, <5>2
      <4>3. CASE i # 1
        <5>1. used'[b] # d
          BY <4>1, <4>3, <1>10
        <5>2. Origin(b, q) \in DOMAIN used /\ used[Origin(b, q)] = lru[Origin(i, p)].digest
          BY <4>1, <4>3, <5>1, <1>10, <1>11
        <5>3. Origin(i, p) \in DOMAIN lru /\ Origin(i, p) < k
          <6>1. Origin(i, p) \in DOMAIN lru /\ Origin(i, p) \in 1..Len(base) /\ k \in 1..Len(lru)
            BY <4>3, <1>0, <1>10
          <6>2. k \notin 1..Len(base)
            BY <3>2, <1>0
          <6>3. Len(base) \in Nat /\ Len(lru) \in Nat
            BY <1>0
          <6> QED BY <6>1, <6>2, <6>3
        <5>4. Origin(b, q) < o
          BY <5>2, <5>3, <3>1, <2>3 DEF Agreeing
        <5>5. b < a
          BY <5>1, <5>4, <2>2, <1>12 DEF x, o
        <5> QED BY <4>1, <5>5
      <4> QED BY <4>2, <4>3
    <3> DEFINE g(i) == CHOOSE b \in DOMAIN used' : used'[b] = lru'[i].digest /\ b < a
               f == [i \in 1..CacheSize |-> g(i)]
    <3>8. ASSUME NEW i \in 1..CacheSize
          PROVE  g(i) \in DOMAIN used' /\ used'[g(i)] = lru'[i].digest /\ g(i) < a /\ g(i) \in 1..a - 1
      <4>1. g(i) \in DOMAIN used' /\ used'[g(i)] = lru'[i].digest /\ g(i) < a
        BY <3>6, <3>7
      <4> HIDE DEF g
      <4>2. DOMAIN used' = 1..Len(used') /\ Len(used') \in Nat /\ a \in Nat
        BY <2>3, <1>6 DEF Carried
      <4> QED BY <4>1, <4>2
    <3> HIDE DEF g
    <3>9. f \in [1..CacheSize -> 1..a - 1]
      BY <3>8
    <3>10. ASSUME NEW i \in 1..CacheSize, NEW j \in 1..CacheSize, f[i] = f[j] PROVE i = j
      <4>1. g(i) = g(j)
        BY <3>10
      <4>2. lru'[i].digest = lru'[j].digest
        BY <4>1, <3>8
      <4> QED BY <4>2, <3>6, <1>3 DEF DistinctDigests
    <3> HIDE DEF f
    <3>11. IsFiniteSet(1..CacheSize) /\ Cardinality(1..CacheSize) = CacheSize
      <4>1. CacheSize >= 1
        BY HandoffCacheAssumption
      <4> QED BY <4>1, <2>9, FS_Interval
    <3>12. 1 \in Nat /\ a - 1 \in Int /\ 1 <= (a - 1) + 1 /\ ((a - 1) + 1) - 1 = a - 1
      BY <2>3, <1>6 DEF Carried
    <3>13. Cardinality(1..CacheSize) <= ((a - 1) + 1) - 1
      BY <3>9, <3>10, <3>11, <3>12, Fits
    <3>14. CacheSize <= a - 1
      BY <3>11, <3>12, <3>13
    <3> QED BY <3>14, <2>9
  <2> QED BY <2>5, <2>6
<1>16. \A i \in DOMAIN lru' : lru'[i].digest \in ToSet(used') \ lapsed'
  BY <1>13
<1>17. \A i, j \in DOMAIN lru', a, b \in DOMAIN used' :
         i < j /\ used'[a] = lru'[i].digest /\ used'[b] = lru'[j].digest => a < b
  BY <1>14
<1>18. \A a \in DOMAIN used' : used'[a] \notin lapsed' /\ ~Has(lru', used'[a]) => a > CacheSize
  BY <1>15
<1> QED BY <1>7, <1>16, <1>17, <1>18, AgreeingNext

\* An image is found expired: its entry goes, and nothing else moves.
LEMMA AgreeDrop ==
  ASSUME Agreeing, NEW p \in DOMAIN lru, NEW d, lru[p].digest = d, DistinctDigests(lru),
         Shorter(lru, lru', p), used' = used, lapsed' = lapsed \cup {d}
  PROVE  Agreeing'
<1>1. Distinct(used')
  BY DEF Agreeing
<1>2. ASSUME NEW i \in DOMAIN lru'
      PROVE  \E k \in DOMAIN lru \ {p} :
               k = (IF i < p THEN i ELSE i + 1) /\ lru'[i] = lru[k] /\ lru[k].digest # d
  BY DEF Shorter, DistinctDigests
<1>3. ASSUME NEW i \in DOMAIN lru' PROVE lru'[i].digest \in ToSet(used') \ lapsed'
  BY <1>2 DEF Agreeing
<1>4. ASSUME NEW i \in DOMAIN lru', NEW j \in DOMAIN lru', NEW a \in DOMAIN used', NEW b \in DOMAIN used',
             i < j, used'[a] = lru'[i].digest, used'[b] = lru'[j].digest
      PROVE  a < b
  <2>1. PICK k \in DOMAIN lru : k = (IF i < p THEN i ELSE i + 1) /\ lru'[i] = lru[k]
    BY <1>2
  <2>2. PICK m \in DOMAIN lru : m = (IF j < p THEN j ELSE j + 1) /\ lru'[j] = lru[m]
    BY <1>2
  <2>0. DOMAIN lru' = 1..Len(lru') /\ DOMAIN lru = 1..Len(lru) /\ Len(lru') \in Nat /\ Len(lru) \in Nat
    BY DEF Shorter
  <2>3. i \in Nat /\ j \in Nat /\ p \in Nat
    BY <2>0
  <2>4. k < m
    <3>1. \A x, y, z \in Nat : x < y => (IF x < z THEN x ELSE x + 1) < (IF y < z THEN y ELSE y + 1)
      OBVIOUS
    <3>2. (IF i < p THEN i ELSE i + 1) < (IF j < p THEN j ELSE j + 1)
      BY <1>4, <2>3, <3>1
    <3> QED BY <2>1, <2>2, <3>2
  <2>5. a \in DOMAIN used /\ b \in DOMAIN used /\ used[a] = lru[k].digest /\ used[b] = lru[m].digest
    BY <1>4, <2>1, <2>2
  <2> QED BY <2>1, <2>2, <2>4, <2>5 DEF Agreeing
<1>5. ASSUME NEW a \in DOMAIN used', used'[a] \notin lapsed', ~Has(lru', used'[a])
      PROVE  a > CacheSize
  <2>1. a \in DOMAIN used /\ used[a] \notin lapsed /\ used[a] # d
    BY <1>5
  <2>2. ~Has(lru, used[a])
    <3> SUFFICES ASSUME NEW k \in DOMAIN lru, lru[k].digest = used[a] PROVE FALSE
      BY DEF Has
    <3>1. k # p
      BY <2>1
    <3>2. PICK i \in DOMAIN lru' : lru'[i] = lru[k]
      BY <3>1 DEF Shorter
    <3> QED BY <3>2, <1>5 DEF Has
  <2> QED BY <2>1, <2>2, InCacheHas DEF Agreeing
<1>6. \A i \in DOMAIN lru' : lru'[i].digest \in ToSet(used') \ lapsed'
  BY <1>3
<1>7. \A i, j \in DOMAIN lru', a, b \in DOMAIN used' :
        i < j /\ used'[a] = lru'[i].digest /\ used'[b] = lru'[j].digest => a < b
  BY <1>4
<1>8. \A a \in DOMAIN used' : used'[a] \notin lapsed' /\ ~Has(lru', used'[a]) => a > CacheSize
  BY <1>5
<1> QED BY <1>1, <1>6, <1>7, <1>8, AgreeingNext

\* The digests in the cache stay where they are.
LEMMA AgreeStays ==
  ASSUME Agreeing, DOMAIN lru' = DOMAIN lru, \A i \in DOMAIN lru : lru'[i].digest = lru[i].digest,
         used' = used, lapsed' = lapsed
  PROVE  Agreeing'
<1>1. \A d : Has(lru', d) <=> Has(lru, d)
  BY DEF Has
<1>2. \A i \in DOMAIN lru' : lru'[i].digest \in ToSet(used') \ lapsed'
  BY DEF Agreeing
<1>3. \A i, j \in DOMAIN lru', a, b \in DOMAIN used' :
        i < j /\ used'[a] = lru'[i].digest /\ used'[b] = lru'[j].digest => a < b
  BY DEF Agreeing
<1>4. \A a \in DOMAIN used' : used'[a] \notin lapsed' /\ ~Has(lru', used'[a]) => a > CacheSize
  BY <1>1, InCacheHas DEF Agreeing
<1>5. Distinct(used')
  BY DEF Agreeing
<1> QED BY <1>2, <1>3, <1>4, <1>5, AgreeingNext

LEMMA AgreeGet ==
  ASSUME TypeOK, CacheOK, Agreeing, NEW d \in Digests, Get(d),
         used' = IF IsHit(d) THEN MoveFront(used, d) ELSE used,
         lapsed' = IF InCache(d) /\ ~IsHit(d) THEN lapsed \cup {d} ELSE lapsed
  PROVE  Agreeing'
<1>0. lru \in Seq(Entry) /\ DistinctDigests(lru)
  BY DEF TypeOK, CacheOK
<1>1. CASE /\ InCache(d) /\ IsHit(d)
           /\ EntryOf(d) \in Entry /\ EntryOf(d).digest = d
           /\ lru' = <<EntryOf(d)>> \o Without(lru, d)
  <2>1. d \notin lapsed
    <3>1. PICK k \in DOMAIN lru : lru[k].digest = d
      BY <1>1, InCacheHas DEF Has
    <3> QED BY <3>1 DEF Agreeing
  <2>2. lapsed' = lapsed \ {d} /\ used' = MoveFront(used, d)
    BY <1>1, <2>1
  <2>3. Beginning(lru)
    BY <1>0, LruBegins
  <2> QED BY <1>1, <2>2, <2>3, AgreeUse
<1>2. CASE /\ InCache(d) /\ ~IsHit(d)
           /\ \E p \in DOMAIN lru : lru[p].digest = d /\ Shorter(lru, lru', p)
  <2>1. PICK p \in DOMAIN lru : lru[p].digest = d /\ Shorter(lru, lru', p)
    BY <1>2
  <2>2. used' = used /\ lapsed' = lapsed \cup {d}
    BY <1>2
  <2> QED BY <1>0, <2>1, <2>2, AgreeDrop
<1>3. CASE ~InCache(d) /\ ~IsHit(d) /\ lru' = lru
  <2>1. used' = used /\ lapsed' = lapsed
    BY <1>3
  <2> QED BY <1>3, <2>1, AgreeStays
<1> QED BY <1>0, <1>1, <1>2, <1>3, GetCases

LEMMA AgreeSet ==
  ASSUME TypeOK, CacheOK, Agreeing, NEW d \in Digests, Set(d), ~InCache(d),
         used' = MoveFront(used, d), lapsed' = lapsed \ {d}
  PROVE  Agreeing'
<1>0. lru \in Seq(Entry) /\ Len(lru) <= CacheSize
  BY DEF TypeOK, CacheOK
<1> DEFINE e == [digest |-> d, age |-> 0]
<1>1. e \in Entry /\ lru' = <<e>> \o Without(Kept, d) /\ e.digest = d
  BY <1>0, SetType
<1> HIDE DEF e
<1>2. Beginning(Kept)
  BY <1>0, KeptBegins
<1>3. \/ Kept = lru
      \/ Len(Kept) + 1 = Len(lru) /\ Len(lru) = CacheSize /\ ~InCache(d)
  BY <1>0, KeptFacts
<1> QED BY <1>1, <1>2, <1>3, AgreeUse

LEMMA AgreeKept ==
  ASSUME TypeOK, CacheOK, ImagesOK, ~doubled => Agreeing, [Next]_vars
  PROVE  (~doubled => Agreeing)'
<1>1. ASSUME NEW t \in Tasks, At(t, "analysing"), NEW i \in DOMAIN task[t].look, Lookup(t, i)
      PROVE  (~doubled => Agreeing)'
  <2> DEFINE d == task[t].parts[i].image
  <2>1. d \in Digests
    BY <1>1, ImageType
  <2>2. doubled' = doubled
    BY <1>1 DEF Lookup
  <2>3. \/ /\ Get(d) /\ used' = IF IsHit(d) THEN MoveFront(used, d) ELSE used
           /\ lapsed' = IF InCache(d) /\ ~IsHit(d) THEN lapsed \cup {d} ELSE lapsed
        \/ UNCHANGED <<lru, used, lapsed>>
    BY <1>1 DEF Lookup
  <2> HIDE DEF d
  <2> QED BY <2>1, <2>2, <2>3, AgreeGet, AgreeStays
<1>2. ASSUME NEW t \in Tasks, At(t, "analysing"), NEW i \in DOMAIN task[t].look, Answer(t, i)
      PROVE  (~doubled => Agreeing)'
  <2> DEFINE d == task[t].parts[i].image
  <2>1. d \in Digests
    BY <1>2, ImageType
  <2>2. \/ /\ Set(d) /\ used' = MoveFront(used, d) /\ lapsed' = lapsed \ {d}
           /\ doubled' = (doubled \/ InCache(d))
        \/ UNCHANGED <<lru, used, lapsed, doubled>>
    BY <1>2 DEF Answer
  <2> HIDE DEF d
  <2> QED BY <2>1, <2>2, AgreeSet, AgreeStays
<1>3. CASE Tick
  <2>1. UNCHANGED <<used, lapsed, doubled>> /\ CacheTick
    BY <1>3 DEF Tick, historyVars
  <2>2. lru \in Seq(Entry)
    BY DEF TypeOK
  <2> QED BY <2>1, <2>2, TickType, AgreeStays
<1>4. CASE UNCHANGED <<lru, used, lapsed, doubled>>
  BY <1>4, AgreeStays
<1> QED BY <1>1, <1>2, <1>3, <1>4, CacheSteps

-----------------------------------------------------------------------------
(* The theorems. *)

LEMMA InitMap == Init => MapOK
<1> SUFFICES ASSUME Init PROVE MapOK
  OBVIOUS
<1>1. order = <<>> /\ recency = <<>>
  BY DEF Init, ConvInit
<1>2. MapMax \in Nat
  BY ConvMapAssumption
<1> QED BY <1>1, <1>2, EmptySeq DEF MapOK, Distinct

LEMMA InitSlots == Init => SlotsOK
<1> SUFFICES ASSUME Init PROVE SlotsOK
  OBVIOUS
<1>1. session = [c \in Convs |-> NoSession] /\ slots = [c \in Convs |-> {}]
      /\ task = [t \in Tasks |-> Idle]
  BY DEF Init, ConvInit
<1>2. \A c \in Convs : session[c] = NoSession /\ session[c].token = 0 /\ slots[c] = {}
  BY <1>1 DEF NoSession
<1>3. \A t \in Tasks : task[t].at = "idle"
  BY <1>1 DEF Idle
<1>4. \A t \in Tasks : Bound(task[t])
  BY <1>3 DEF Bound
<1> QED BY <1>2, <1>4 DEF SlotsOK

LEMMA InitCache == Init => ImagesOK /\ CacheOK /\ Agreeing
<1> SUFFICES ASSUME Init PROVE ImagesOK /\ CacheOK /\ Agreeing
  OBVIOUS
<1>1. lru = <<>> /\ used = <<>> /\ \A t \in Tasks : task[t] = Idle
  BY DEF Init, CacheInit
<1>2. CacheSize \in Nat
  BY HandoffCacheAssumption
<1>3. DOMAIN lru = {} /\ DOMAIN used = {} /\ Len(lru) = 0
  BY <1>1, EmptySeq
<1> QED BY <1>1, <1>2, <1>3 DEF ImagesOK, CacheOK, DistinctDigests, Agreeing, Distinct

LEMMA Invariance == Spec => []IInv
<1>1. Init => IInv
  BY InitType, InitMap, InitSlots, InitCache DEF IInv
<1>2. IInv /\ [Next]_vars => IInv'
  BY TypesKept, MapKept, SlotsKept, ImagesKept, CacheKept, AgreeKept DEF IInv
<1> QED BY <1>1, <1>2, PTL DEF Spec

\* However full the map gets, and whatever overlaps, the conversations used
\* last stay in it, and it never holds more than MapMax (sessions.rs 53-85).
THEOREM RecentStay == Spec => []RecentKept
<1>1. TypeOK /\ MapOK => RecentKept
  <2> SUFFICES ASSUME TypeOK, MapOK PROVE RecentKept
    OBVIOUS
  <2>1. /\ Len(order) \in Nat /\ Len(recency) \in Nat /\ EvictTo \in Nat
        /\ DOMAIN order = 1..Len(order) /\ DOMAIN recency = 1..Len(recency)
    BY LenProperties, ConvMapAssumption DEF TypeOK
  <2>2. ASSUME NEW i \in DOMAIN recency, i <= EvictTo + 1 PROVE recency[i] \in ToSet(order)
    <3>0. Len(order) > EvictTo \/ Len(order) = Len(recency)
      BY DEF MapOK
    <3>1. i \in DOMAIN order
      <4>1. \A m, n, l, k \in Nat : k \in 1..n /\ k <= l + 1 /\ (m > l \/ m = n) => k \in 1..m
        OBVIOUS
      <4>2. i \in Nat /\ i \in 1..Len(recency)
        BY <2>1
      <4>3. i \in 1..Len(order)
        BY <2>1, <2>2, <3>0, <4>1, <4>2
      <4> QED BY <2>1, <4>3
    <3> QED BY <3>1 DEF MapOK, ToSet
  <2> QED BY <2>2 DEF RecentKept, Firsts, MapOK
<1> QED BY <1>1, Invariance, PTL DEF IInv

\* The requests of a conversation are given one slot, though each reads, uses
\* and writes it back under three locks, unless two overlapped there, the slot
\* was not usable or the conversation was evicted (chat.rs 64-79,
\* sessions.rs 39-63).
THEOREM SlotStays == Spec => []Affinity
<1>1. SlotsOK => Affinity
  <2> SUFFICES ASSUME SlotsOK, NEW c \in Convs \ excused PROVE Cardinality(slots[c]) <= 1
    BY DEF Affinity
  <2>1. slots[c] = {} \/ slots[c] = {session[c].token}
    BY DEF SlotsOK
  <2>2. Cardinality({}) = 0 /\ \A x : Cardinality({x}) = 1
    BY FS_EmptySet, FS_Singleton
  <2>3. Cardinality(slots[c]) \in {0, 1}
    BY <2>1, <2>2
  <2> QED BY <2>3
<1> QED BY <1>1, Invariance, PTL DEF IInv

\* A request that goes out under the catalog it was prepared with has no image
\* left that handoff can read, for a model that cannot see, and otherwise the
\* newest ones, at most the configured number; under another catalog, at least
\* a request of /v1/messages has no more (chat.rs 89-132, messages.rs 95-124,
\* vision.rs 70-99).
THEOREM ImagesAreHandled == Spec => []ImagesHandled
<1>1. ImagesOK => ImagesHandled
  <2> SUFFICES ASSUME ImagesOK, NEW t \in Tasks, At(t, "sent")
               PROVE  LET parts == task[t].parts
                      IN /\ ~task[t].moved =>
                              IF NeedsHandoff(task[t].model, cfg)
                              THEN ImageParts(parts) = {} /\ (Chat(t) => Shared(parts) = {})
                              ELSE Few(parts) /\ Plain(parts)
                         /\ Few(parts) \/ (Chat(t) /\ (ImageParts(parts) = {} \/ task[t].moved))
                         /\ OldestOut(parts)
    BY DEF ImagesHandled, Few, Plain, OldestOut
  <2>1. task[t] # Idle /\ task[t].at = "sent"
    BY DEF At, Idle
  <2> QED BY <2>1 DEF ImagesOK, PartsOK
<1> QED BY <1>1, Invariance, PTL DEF IInv

\* As long as no image was described twice at a time, the images used last, as
\* many as the cache has room for, are still described, but those found expired;
\* and it never holds more than it has room for (handoff_cache.rs 35-59).
THEOREM CacheStaysRecent == Spec => []CacheKeepsRecent
<1>1. TypeOK /\ CacheOK /\ (~doubled => Agreeing) => CacheKeepsRecent
  <2> SUFFICES ASSUME TypeOK, Agreeing, NEW p \in DOMAIN used, p <= CacheSize, used[p] \notin lapsed
               PROVE  InCache(used[p])
    BY DEF CacheKeepsRecent, CacheOK, Firsts
  <2>1. p \in Nat /\ CacheSize \in Nat
    BY LenProperties, HandoffCacheAssumption DEF TypeOK
  <2> QED BY <2>1 DEF Agreeing
<1> QED BY <1>1, Invariance, PTL DEF IInv
=============================================================================
