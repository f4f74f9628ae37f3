--------------------------- MODULE SettingsProofs ---------------------------
(***************************************************************************)
(* Theorems about Settings, for every set of posts, keys and updates, every *)
(* value of the environment and every number of stops and failed saves.    *)
(***************************************************************************)
EXTENDS Settings, SequencesExt, SequenceTheorems, WellFoundedInduction, TLAPS

\* RemoveAt drops one element and keeps the order of the others.
LEMMA RemoveAtFacts ==
  ASSUME NEW T, NEW s \in Seq(T), NEW i \in DOMAIN s
  PROVE  /\ RemoveAt(s, i) \in Seq(T)
         /\ Len(RemoveAt(s, i)) = Len(s) - 1
         /\ \A j \in 1..Len(s) - 1 :
              RemoveAt(s, i)[j] = IF j < i THEN s[j] ELSE s[j + 1]
<1> DEFINE a == SubSeq(s, 1, i - 1)
           b == SubSeq(s, i + 1, Len(s))
<1>0. i \in 1..Len(s) /\ Len(s) \in Nat /\ \A j \in 1..Len(s) : s[j] \in T
  BY LenProperties, ElementOfSeq
<1>1. a \in Seq(T) /\ Len(a) = i - 1 /\ \A j \in 1..i - 1 : a[j] = s[j]
  BY <1>0, SubSeqProperties
<1>2. b \in Seq(T) /\ Len(b) = Len(s) - i /\ \A j \in 1..Len(s) - i : b[j] = s[i + j]
  BY <1>0, SubSeqProperties
<1>3. RemoveAt(s, i) = a \o b
  BY DEF RemoveAt
<1> HIDE DEF a, b
<1>4. /\ a \o b \in Seq(T) /\ Len(a \o b) = Len(a) + Len(b)
      /\ \A j \in 1..Len(a) + Len(b) : (a \o b)[j] = IF j <= Len(a) THEN a[j] ELSE b[j - Len(a)]
  BY <1>1, <1>2, ConcatProperties
<1>5. ASSUME NEW j \in 1..Len(s) - 1 PROVE (a \o b)[j] = IF j < i THEN s[j] ELSE s[j + 1]
  <2>1. \/ j < i /\ j <= Len(a) /\ j \in 1..i - 1
        \/ ~(j < i) /\ ~(j <= Len(a)) /\ j - Len(a) \in 1..Len(s) - i /\ i + (j - Len(a)) = j + 1
    BY <1>0, <1>1
  <2>2. j \in 1..Len(a) + Len(b)
    BY <1>0, <1>1, <1>2
  <2> QED BY <2>1, <2>2, <1>1, <1>2, <1>4
<1>6. Len(a \o b) = Len(s) - 1
  BY <1>0, <1>1, <1>2, <1>4
<1> QED BY <1>3, <1>4, <1>5, <1>6

-----------------------------------------------------------------------------
(* The edits keep the type of a configuration and its number. *)

LEMMA FirstOf ==
  ASSUME NEW S, S \subseteq Nat, S # {}
  PROVE  \E i \in S : \A j \in S : i <= j
<1>1. PICK i \in S : \A j \in S : ~ (<<j, i>> \in OpToRel(<, Nat))
  BY NatLessThanWellFounded, WFMin
<1>2. ASSUME NEW j \in S PROVE i <= j
  <2>1. ~ (j < i)
    BY <1>1 DEF OpToRel
  <2>. QED  BY <2>1
<1>. QED  BY <1>2

LEMMA FirstKeyType ==
  ASSUME NEW keys \in KeyLists
  PROVE  FirstKey(keys) \in Keys \cup {NoKey}
<1> DEFINE full == {i \in DOMAIN keys : keys[i] # NoKey}
           first == CHOOSE i \in full : \A j \in full : i <= j
<1>1. CASE full = {}
  BY <1>1 DEF FirstKey
<1>2. CASE full # {}
  <2>1. full \subseteq Nat /\ DOMAIN keys = 1..Len(keys)
    BY DEF KeyLists
  <2>2. \E i \in full : \A j \in full : i <= j
    <3>. HIDE DEF full
    <3>. QED  BY <1>2, <2>1, FirstOf
  <2>3. first \in full
    <3>. HIDE DEF full
    <3>. QED  BY <2>2
  <2>4. keys[first] \in Keys \cup {NoKey}
    <3>1. first \in DOMAIN keys
      BY <2>3
    <3>. HIDE DEF first
    <3>. QED  BY <3>1 DEF KeyLists
  <2>. QED  BY <1>2, <2>4 DEF FirstKey
<1>. QED  BY <1>1, <1>2

LEMMA AddedType ==
  ASSUME NEW c \in Configs, NEW k \in Keys \cup {NoKey}
  PROVE  Added(c, k) \in Configs /\ Added(c, k).ver = c.ver /\ Added(c, k).listen = c.listen
<1>1. Append(c.keys, k) \in KeyLists
  BY DEF Configs, KeyLists
<1>. QED  BY <1>1 DEF Added, Configs

LEMMA ReplacedType ==
  ASSUME NEW c \in Configs, NEW i \in DOMAIN c.keys, NEW k \in Keys \cup {NoKey}
  PROVE  /\ Replaced(c, i, k) \in Configs
         /\ Replaced(c, i, k).ver = c.ver /\ Replaced(c, i, k).listen = c.listen
<1>1. [c.keys EXCEPT ![i] = k] \in KeyLists
  BY ExceptSeq DEF Configs, KeyLists
<1>. QED  BY <1>1 DEF Replaced, Configs

LEMMA DeletedType ==
  ASSUME NEW c \in Configs, NEW i \in DOMAIN c.keys
  PROVE  /\ Deleted(c, i) \in Configs
         /\ Deleted(c, i).ver = c.ver /\ Deleted(c, i).listen = c.listen
<1> DEFINE left == IF Len(c.keys) = 1 THEN <<NoKey>> ELSE RemoveAt(c.keys, i)
<1>1. RemoveAt(c.keys, i) \in KeyLists
  BY RemoveAtFacts DEF Configs, KeyLists
<1>2. <<NoKey>> \in KeyLists
  BY DEF KeyLists
<1>3. left \in KeyLists
  BY <1>1, <1>2
<1>. HIDE DEF left
<1>4. FirstKey(left) \in Keys \cup {NoKey}
  BY <1>3, FirstKeyType
<1>5. Deleted(c, i) = [c EXCEPT !.keys = left, !.apiKey = IF i = 1 THEN FirstKey(left) ELSE @]
  BY DEF Deleted, left
<1>. QED  BY <1>3, <1>4, <1>5 DEF Configs

\* POST /api/keys keeps the number and the listen address.
LEMMA KeyEditsType ==
  ASSUME NEW c \in Configs, NEW d \in KeyEdits(c)
  PROVE  d \in Configs /\ d.ver = c.ver /\ d.listen = c.listen
BY AddedType, ReplacedType, DeletedType DEF KeyEdits

\* POST /api/config keeps the number and the fields that the body leaves out.
LEMMA UpdatedType ==
  ASSUME NEW c \in Configs, NEW u \in Updates
  PROVE  /\ Updated(c, u) \in Configs
         /\ Updated(c, u).ver = c.ver
         /\ "apiKey" \notin DOMAIN u => Updated(c, u).apiKey = c.apiKey
         /\ "keys" \notin DOMAIN u => Updated(c, u).keys = c.keys
         /\ "listen" \notin DOMAIN u => Updated(c, u).listen = c.listen
<1>1. Given(u, "apiKey", c.apiKey) \in Keys \cup {NoKey}
  BY SettingsAssumption DEF Given, Configs
<1>2. Given(u, "keys", c.keys) \in KeyLists
  BY SettingsAssumption DEF Given, Configs
<1>3. Given(u, "listen", c.listen) \in Addrs
  BY SettingsAssumption DEF Given, Configs
<1>. QED  BY <1>1, <1>2, <1>3 DEF Updated, Configs, Given

LEMMA LoadType ==
  ASSUME NEW f \in Configs
  PROVE  Load(f) \in Configs /\ Load(f).ver = f.ver
<1>1. f # Torn
  BY SettingsAssumption
<1>. QED  BY <1>1, SettingsAssumption DEF Load, LoadFile, Configs

LEMMA FirstPoolType ==
  ASSUME NEW c \in Configs
  PROVE  /\ FirstPool(c) \in KeyLists
         /\ FirstPool(c) = c.keys \/ (c.keys = <<>> /\ Len(FirstPool(c)) <= 1)
<1>1. <<c.apiKey>> \in KeyLists /\ <<>> \in KeyLists /\ Len(<<c.apiKey>>) = 1
  BY DEF Configs, KeyLists
<1>. QED  BY <1>1 DEF FirstPool, Configs

-----------------------------------------------------------------------------
(* The inductive invariant. *)

Fields == {"apiKey", "keys", "listen"}
PostAt == {"idle", "loaded", "stored", "applied", "done"}
SaverAt == {"idle", "debounce", "drain", "load", "open", "write", "rename"}
SavingAt == {"open", "write", "rename"}
Handles(ats) == [at : ats, next : Configs \cup {Torn}, fields : SUBSET Fields]
Numbered(c) == c \in Configs /\ c.ver \in DOMAIN past

StateInv ==
  /\ Numbered(cfg) /\ Numbered(file) /\ (tmp = Torn \/ Numbered(tmp))
  /\ pool \in KeyLists /\ permit \in BOOLEAN /\ past \in Seq(Configs)
  /\ saver \in Handles(SaverAt) /\ (saver.at \in SavingAt => Numbered(saver.next))
  /\ post \in [Posts -> Handles(PostAt)]
  /\ \A p \in Posts : post[p].at \in {"loaded", "stored", "applied"} => Numbered(post[p].next)
  /\ up \in {"serving", "exiting", "down"}
  /\ stops \in 0..MaxStops /\ fails \in 0..MaxFails
  /\ failed \in BOOLEAN /\ raced \in BOOLEAN

\* Posts that have stored and not yet pinged.
Owed == \E p \in Posts : post[p].at \in {"stored", "applied"}

\* What the saver writes is a configuration that was stored: it runs only
\* after a ping, and so only when what is in force was stored by a post and
\* not just loaded, with the environment's value in it.
WholeInv ==
  /\ file = past[file.ver]
  /\ saver.at # "idle" \/ permit \/ Owed => cfg = past[cfg.ver]
  /\ saver.at \in SavingAt => saver.next = past[saver.next.ver]
  /\ saver.at = "rename" => tmp = saver.next

\* While the file is behind there is a ping, a post that owes one, or the
\* saver at work; and when it is at work on an old snapshot, one of the others.
NoneLostInv ==
  /\ Up /\ ~failed /\ file.ver # cfg.ver => permit \/ Owed \/ saver.at # "idle"
  /\ Up /\ saver.at \in SavingAt /\ saver.next.ver # cfg.ver => permit \/ Owed

SameUnnamed(c, d, fields) ==
  /\ "apiKey" \notin fields => c.apiKey = d.apiKey
  /\ "keys" \notin fields => c.keys = d.keys
  /\ "listen" \notin fields => c.listen = d.listen

PoolMatches == pool = cfg.keys \/ (cfg.keys = <<>> /\ Len(pool) <= 1)

\* While no posts have overlapped there is one at most; it edits what is in
\* force, and the pool lags behind only between its store and its rebuilding.
AgreeInv ==
  Up /\ ~raced =>
    /\ \A p, q \in Posts :
         post[p].at \in {"loaded", "stored", "applied"} /\ post[q].at \in {"loaded", "stored", "applied"} => p = q
    /\ \A p \in Posts :
         /\ post[p].at = "loaded" => SameUnnamed(post[p].next, cfg, post[p].fields)
         /\ post[p].at = "stored" => post[p].next = cfg
    /\ PoolMatches \/ \E p \in Posts : post[p].at = "stored" /\ "keys" \in post[p].fields

\* Nothing runs while the process is down.
DownInv ==
  up = "down" =>
    ~permit /\ saver.at = "idle" /\ \A p \in Posts : ~(post[p].at \in {"loaded", "stored", "applied"})

IInv == StateInv /\ WholeInv /\ NoneLostInv /\ AgreeInv

LEMMA InBusy ==
  ASSUME StateInv
  PROVE  Busy = {p \in Posts : post[p].at \in {"loaded", "stored", "applied"}}
BY DEF Busy, StateInv, Handles, PostAt

LEMMA IdleType == Idle \in Handles(SaverAt) /\ Idle \in Handles(PostAt) /\ Idle.at = "idle"
BY DEF Idle, Handles, SaverAt, PostAt

LEMMA InitInv == Init => IInv
<1> SUFFICES ASSUME Init PROVE IInv
  OBVIOUS
<1>1. DefaultConfig \in Configs /\ DefaultConfig.ver = 1
  BY SettingsAssumption DEF DefaultConfig, Configs, KeyLists
<1>2. past \in Seq(Configs) /\ DOMAIN past = {1} /\ past[1] = DefaultConfig
  BY <1>1 DEF Init
<1>3. Numbered(file) /\ Numbered(cfg) /\ file = past[file.ver]
  BY <1>1, <1>2, LoadType DEF Init, Numbered
<1>4. pool \in KeyLists /\ PoolMatches
  BY <1>3, FirstPoolType DEF Init, Numbered, PoolMatches
<1>5. \A p \in Posts : post[p] = Idle
  BY DEF Init
<1>6. StateInv
  <2>1. post \in [Posts -> Handles(PostAt)] /\ saver \in Handles(SaverAt) /\ saver.at = "idle"
    BY IdleType DEF Init
  <2>2. \A p \in Posts : post[p].at = "idle"
    BY <1>5, IdleType
  <2>3. /\ tmp = Torn /\ permit \in BOOLEAN /\ up = "serving"
        /\ failed \in BOOLEAN /\ raced \in BOOLEAN
    BY DEF Init
  <2>4. stops \in 0..MaxStops /\ fails \in 0..MaxFails
    BY SettingsAssumption DEF Init
  <2>. QED  BY <1>2, <1>3, <1>4, <2>1, <2>2, <2>3, <2>4 DEF StateInv, SavingAt
<1>7. ~Owed /\ saver.at = "idle" /\ ~permit
  BY <1>5, IdleType DEF Owed, Init
<1>8. WholeInv
  BY <1>3, <1>7 DEF WholeInv, SavingAt
<1>9. NoneLostInv
  <2>1. cfg.ver = file.ver
    BY <1>1, LoadType DEF Init
  <2>. QED  BY <1>7, <2>1 DEF NoneLostInv, SavingAt
<1>10. AgreeInv
  BY <1>4, <1>5, IdleType DEF AgreeInv
<1>. QED  BY <1>6, <1>8, <1>9, <1>10 DEF IInv

-----------------------------------------------------------------------------
(* Posts. *)

\* A post moves to another place with another snapshot.
PostSet(p, h) == post' = [post EXCEPT ![p] = h]

LEMMA PostSetType ==
  ASSUME StateInv, NEW p \in Posts, NEW h \in Handles(PostAt), PostSet(p, h)
  PROVE  /\ post' \in [Posts -> Handles(PostAt)]
         /\ post'[p] = h
         /\ \A q \in Posts : q # p => post'[q] = post[q]
BY DEF StateInv, PostSet

LEMMA BeginKeeps ==
  ASSUME IInv, NEW p \in Posts, NEW c \in Configs, c.ver = cfg.ver,
         NEW fields \in SUBSET Fields, SameUnnamed(c, cfg, fields), Begin(p, c, fields)
  PROVE  IInv'
<1> DEFINE h == [at |-> "loaded", next |-> c, fields |-> fields]
<1>1. h \in Handles(PostAt) /\ h.at = "loaded" /\ h.next = c /\ h.fields = fields
  BY DEF Handles, PostAt
<1>2. PostSet(p, h) /\ post[p].at = "idle"
  BY DEF Begin, PostSet
<1>3. /\ raced' = (raced \/ Busy # {})
      /\ cfg' = cfg /\ pool' = pool /\ up' = up /\ stops' = stops /\ past' = past
      /\ permit' = permit /\ saver' = saver /\ tmp' = tmp /\ file' = file
      /\ fails' = fails /\ failed' = failed
  BY DEF Begin, saverVars
<1>. HIDE DEF h
<1>4. /\ post' \in [Posts -> Handles(PostAt)] /\ post'[p] = h
      /\ \A q \in Posts : q # p => post'[q] = post[q]
  BY <1>1, <1>2, PostSetType DEF IInv
<1>5. Owed' = Owed
  BY <1>1, <1>2, <1>4 DEF Owed
<1>6. StateInv'
  <2>1. \A q \in Posts : (post[q].at \in {"loaded", "stored", "applied"} => Numbered(post[q].next))'
    BY <1>1, <1>3, <1>4 DEF IInv, StateInv, Numbered
  <2>2. (raced \in BOOLEAN)'
    BY <1>3 DEF IInv, StateInv
  <2>. QED  BY <1>3, <1>4, <2>1, <2>2 DEF IInv, StateInv, Numbered
<1>7. WholeInv'
  BY <1>3, <1>5 DEF IInv, WholeInv
<1>8. NoneLostInv'
  BY <1>3, <1>5 DEF IInv, NoneLostInv, Up
<1>9. AgreeInv'
  <2> SUFFICES ASSUME Up', ~raced' PROVE AgreeInv'
    BY DEF AgreeInv
  <2>1. \A q \in Posts : ~(post[q].at \in {"loaded", "stored", "applied"})
    BY <1>3, InBusy DEF IInv
  <2>2. PoolMatches' /\ Up /\ ~raced
    BY <1>3, <2>1 DEF IInv, AgreeInv, PoolMatches, Up
  <2>3. SameUnnamed(h.next, cfg', h.fields)
    BY <1>1, <1>3
  <2>. QED  BY <1>1, <1>4, <2>1, <2>2, <2>3 DEF AgreeInv
<1>. QED  BY <1>6, <1>7, <1>8, <1>9 DEF IInv

LEMMA PostKeysKeeps ==
  ASSUME IInv, NEW p \in Posts, PostKeys(p)
  PROVE  IInv'
<1>1. PICK c \in KeyEdits(cfg) : Begin(p, c, {"apiKey", "keys"})
  BY DEF PostKeys
<1>2. c \in Configs /\ c.ver = cfg.ver /\ c.listen = cfg.listen
  BY KeyEditsType DEF IInv, StateInv, Numbered
<1>3. SameUnnamed(c, cfg, {"apiKey", "keys"}) /\ {"apiKey", "keys"} \in SUBSET Fields
  BY <1>2 DEF SameUnnamed, Fields
<1>. QED  BY <1>1, <1>2, <1>3, BeginKeeps

LEMMA PostConfigKeeps ==
  ASSUME IInv, NEW p \in Posts, PostConfig(p)
  PROVE  IInv'
<1>1. PICK u \in Updates : Begin(p, Updated(cfg, u), DOMAIN u)
  BY DEF PostConfig
<1>2. SameUnnamed(Updated(cfg, u), cfg, DOMAIN u) /\ Updated(cfg, u) \in Configs
        /\ Updated(cfg, u).ver = cfg.ver
  BY UpdatedType DEF SameUnnamed, IInv, StateInv, Numbered
<1>3. DOMAIN u \in SUBSET Fields
  BY SettingsAssumption DEF Fields
<1>. QED  BY <1>1, <1>2, <1>3, BeginKeeps

LEMMA StoreKeeps ==
  ASSUME IInv, NEW p \in Posts, Store(p)
  PROVE  IInv'
<1> DEFINE stored == [post[p].next EXCEPT !.ver = Len(past) + 1]
           h == [post[p] EXCEPT !.at = "stored", !.next = stored]
<1>1. /\ Up /\ post[p].at = "loaded" /\ Numbered(post[p].next)
      /\ post[p] \in Handles(PostAt) /\ past \in Seq(Configs)
  BY DEF Store, IInv, StateInv
<1>2. /\ stored \in Configs /\ stored.ver = Len(past) + 1 /\ Len(past) \in Nat
      /\ SameUnnamed(stored, post[p].next, {})
  BY <1>1 DEF Numbered, Configs, SameUnnamed
<1>3. /\ cfg' = stored /\ past' = Append(past, stored)
      /\ pool' = pool /\ permit' = permit /\ saver' = saver /\ tmp' = tmp /\ file' = file
      /\ fails' = fails /\ failed' = failed /\ up' = up /\ stops' = stops /\ raced' = raced
  BY DEF Store, saverVars
<1>4. PostSet(p, h)
  BY DEF Store, PostSet
<1>. HIDE DEF stored
<1>5. h \in Handles(PostAt) /\ h.at = "stored" /\ h.next = stored /\ h.fields = post[p].fields
  BY <1>1, <1>2 DEF Handles, PostAt
<1>. HIDE DEF h
<1>6. /\ post' \in [Posts -> Handles(PostAt)] /\ post'[p] = h
      /\ \A q \in Posts : q # p => post'[q] = post[q]
  BY <1>4, <1>5, PostSetType DEF IInv
<1>7. /\ past' \in Seq(Configs) /\ DOMAIN past' = 1..(Len(past) + 1) /\ DOMAIN past = 1..Len(past)
      /\ past'[Len(past) + 1] = stored
      /\ \A i \in DOMAIN past : past'[i] = past[i]
  BY <1>1, <1>2, <1>3, AppendProperties
<1>8. \A c : Numbered(c) => Numbered(c)' /\ past'[c.ver] = past[c.ver] /\ c.ver # stored.ver
  BY <1>2, <1>7 DEF Numbered
<1>9. stored.ver \in DOMAIN past' /\ past'[stored.ver] = stored
  BY <1>2, <1>7
<1>10. Owed'
  BY <1>5, <1>6 DEF Owed
<1>11. StateInv'
  <2>1. \A q \in Posts : (post[q].at \in {"loaded", "stored", "applied"} => Numbered(post[q].next))'
    <3> SUFFICES ASSUME NEW q \in Posts, post'[q].at \in {"loaded", "stored", "applied"}
                 PROVE  post'[q].next \in Configs /\ post'[q].next.ver \in DOMAIN past'
      BY DEF Numbered
    <3>1. CASE q = p
      BY <1>2, <1>5, <1>6, <1>9, <3>1
    <3>2. CASE q # p
      BY <1>6, <1>7, <3>2 DEF IInv, StateInv, Numbered
    <3>. QED  BY <3>1, <3>2
  <2>2. (Numbered(cfg) /\ Numbered(file) /\ (tmp = Torn \/ Numbered(tmp)))'
    BY <1>2, <1>3, <1>7, <1>9 DEF IInv, StateInv, Numbered
  <2>3. (saver \in Handles(SaverAt) /\ (saver.at \in SavingAt => Numbered(saver.next)))'
    BY <1>3, <1>8 DEF IInv, StateInv
  <2>. QED  BY <1>3, <1>6, <1>7, <2>1, <2>2, <2>3 DEF IInv, StateInv
<1>12. WholeInv'
  BY <1>3, <1>8, <1>9 DEF IInv, StateInv, WholeInv
<1>13. NoneLostInv'
  BY <1>10 DEF NoneLostInv
<1>14. AgreeInv'
  <2> SUFFICES ASSUME Up', ~raced' PROVE AgreeInv'
    BY DEF AgreeInv
  <2>1. Up /\ ~raced
    BY <1>3 DEF Up
  <2>2. /\ \A q \in Posts : q # p => ~(post'[q].at \in {"loaded", "stored", "applied"})
        /\ SameUnnamed(post[p].next, cfg, post[p].fields)
        /\ PoolMatches
    BY <1>1, <1>6, <2>1 DEF IInv, AgreeInv
  <2>3. PoolMatches' \/ "keys" \in h.fields
    <3>1. SUFFICES ASSUME "keys" \notin h.fields PROVE PoolMatches'
      OBVIOUS
    <3>2. cfg'.keys = cfg.keys /\ pool' = pool
      BY <1>2, <1>3, <1>5, <2>2, <3>1 DEF SameUnnamed
    <3>. QED  BY <2>2, <3>2 DEF PoolMatches
  <2>. QED  BY <1>3, <1>5, <1>6, <2>2, <2>3 DEF AgreeInv
<1>. QED  BY <1>11, <1>12, <1>13, <1>14 DEF IInv

LEMMA ApplyKeeps ==
  ASSUME IInv, NEW p \in Posts, Apply(p)
  PROVE  IInv'
<1> DEFINE h == [post[p] EXCEPT !.at = "applied"]
<1>1. /\ post[p].at = "stored" /\ Numbered(post[p].next) /\ post[p] \in Handles(PostAt)
  BY DEF Apply, IInv, StateInv
<1>2. /\ pool' = IF "keys" \in post[p].fields THEN post[p].next.keys ELSE pool
      /\ cfg' = cfg /\ past' = past /\ permit' = permit /\ saver' = saver /\ tmp' = tmp
      /\ file' = file /\ fails' = fails /\ failed' = failed /\ up' = up /\ stops' = stops
      /\ raced' = raced
  BY DEF Apply, saverVars
<1>3. PostSet(p, h)
  BY DEF Apply, PostSet
<1>4. h \in Handles(PostAt) /\ h.at = "applied" /\ h.next = post[p].next
  BY <1>1 DEF Handles, PostAt
<1>. HIDE DEF h
<1>5. /\ post' \in [Posts -> Handles(PostAt)] /\ post'[p] = h
      /\ \A q \in Posts : q # p => post'[q] = post[q]
  BY <1>3, <1>4, PostSetType DEF IInv
<1>6. Owed' /\ Owed
  BY <1>1, <1>4, <1>5 DEF Owed
<1>7. StateInv'
  <2>1. \A q \in Posts : (post[q].at \in {"loaded", "stored", "applied"} => Numbered(post[q].next))'
    BY <1>1, <1>2, <1>4, <1>5 DEF IInv, StateInv, Numbered
  <2>2. pool' \in KeyLists
    BY <1>1, <1>2 DEF IInv, StateInv, Numbered, Configs
  <2>. QED  BY <1>2, <1>5, <2>1, <2>2 DEF IInv, StateInv, Numbered
<1>8. WholeInv'
  BY <1>2, <1>6 DEF IInv, WholeInv
<1>9. NoneLostInv'
  BY <1>6 DEF NoneLostInv
<1>10. AgreeInv'
  <2> SUFFICES ASSUME Up', ~raced' PROVE AgreeInv'
    BY DEF AgreeInv
  <2>1. Up /\ ~raced
    BY <1>2 DEF Up
  <2>2. /\ \A q \in Posts : q # p => ~(post[q].at \in {"loaded", "stored", "applied"})
        /\ post[p].next = cfg
        /\ PoolMatches \/ "keys" \in post[p].fields
    BY <1>1, <2>1 DEF IInv, AgreeInv
  <2>3. PoolMatches'
    BY <1>2, <2>2 DEF PoolMatches
  <2>. QED  BY <1>4, <1>5, <2>2, <2>3 DEF AgreeInv
<1>. QED  BY <1>7, <1>8, <1>9, <1>10 DEF IInv

LEMMA PingKeeps ==
  ASSUME IInv, NEW p \in Posts, Ping(p)
  PROVE  IInv'
<1> DEFINE h == [Idle EXCEPT !.at = "done"]
<1>1. post[p].at = "applied"
  BY DEF Ping
<1>2. /\ permit' = TRUE /\ pool' = pool
      /\ cfg' = cfg /\ past' = past /\ saver' = saver /\ tmp' = tmp
      /\ file' = file /\ fails' = fails /\ failed' = failed /\ up' = up /\ stops' = stops
      /\ raced' = raced
  BY DEF Ping
<1>3. PostSet(p, h)
  BY DEF Ping, PostSet
<1>4. h \in Handles(PostAt) /\ h.at = "done"
  BY DEF Handles, PostAt, Idle
<1>. HIDE DEF h
<1>5. /\ post' \in [Posts -> Handles(PostAt)] /\ post'[p] = h
      /\ \A q \in Posts : q # p => post'[q] = post[q]
  BY <1>3, <1>4, PostSetType DEF IInv
<1>6. Owed
  BY <1>1 DEF Owed
<1>7. StateInv'
  <2>1. \A q \in Posts : (post[q].at \in {"loaded", "stored", "applied"} => Numbered(post[q].next))'
    BY <1>2, <1>4, <1>5 DEF IInv, StateInv, Numbered
  <2>. QED  BY <1>2, <1>5, <2>1 DEF IInv, StateInv, Numbered
<1>8. WholeInv'
  BY <1>2, <1>6 DEF IInv, WholeInv
<1>9. NoneLostInv'
  BY <1>2 DEF NoneLostInv
<1>10. AgreeInv'
  <2> SUFFICES ASSUME Up', ~raced' PROVE AgreeInv'
    BY DEF AgreeInv
  <2>1. Up /\ ~raced
    BY <1>2 DEF Up
  <2>2. /\ \A q \in Posts : q # p => ~(post[q].at \in {"loaded", "stored", "applied"})
        /\ PoolMatches
    BY <1>1, <2>1 DEF IInv, AgreeInv
  <2>. QED  BY <1>2, <1>4, <1>5, <2>2 DEF AgreeInv, PoolMatches
<1>. QED  BY <1>7, <1>8, <1>9, <1>10 DEF IInv

-----------------------------------------------------------------------------
(* The saver, stops and starts. *)

\* Steps of the saver leave alone what AgreeInv is about.
LEMMA SameAgree ==
  ASSUME AgreeInv, UNCHANGED <<cfg, pool, post, up, raced>>
  PROVE  AgreeInv' /\ (Owed' <=> Owed)
BY DEF AgreeInv, Owed, Up, PoolMatches

LEMMA SaverStepKeeps ==
  ASSUME StateInv, NEW from \in SaverAt, NEW to \in SaverAt, SaverStep(from, to)
  PROVE  /\ saver.at = from /\ saver'.at = to /\ saver'.next = saver.next
         /\ saver' \in Handles(SaverAt)
         /\ UNCHANGED <<cfg, pool, post, up, stops, past, raced>>
BY DEF SaverStep, StateInv, Handles

LEMMA NotifiedKeeps == IInv /\ Notified => IInv'
<1> SUFFICES ASSUME IInv, Notified PROVE IInv'
  OBVIOUS
<1>1. SaverStep("idle", "debounce") /\ "idle" \in SaverAt /\ "debounce" \in SaverAt
  BY DEF Notified, SaverAt
<1>2. /\ saver.at = "idle" /\ saver'.at = "debounce" /\ saver' \in Handles(SaverAt)
      /\ UNCHANGED <<cfg, pool, post, up, stops, past, raced>>
  BY <1>1, SaverStepKeeps DEF IInv
<1>3. permit /\ permit' = FALSE /\ UNCHANGED <<tmp, file, fails, failed>>
  BY DEF Notified
<1>4. StateInv'
  BY <1>2, <1>3 DEF IInv, StateInv, Numbered, SavingAt
<1>5. AgreeInv' /\ (Owed' <=> Owed)
  BY <1>2, SameAgree DEF IInv
<1>6. WholeInv'
  BY <1>2, <1>3 DEF IInv, WholeInv, SavingAt
<1>7. NoneLostInv'
  BY <1>2, <1>3 DEF IInv, NoneLostInv, SavingAt
<1>. QED  BY <1>4, <1>5, <1>6, <1>7 DEF IInv

LEMMA DebounceOverKeeps == IInv /\ DebounceOver => IInv'
<1> SUFFICES ASSUME IInv, DebounceOver PROVE IInv'
  OBVIOUS
<1>1. SaverStep("debounce", "drain") /\ "debounce" \in SaverAt /\ "drain" \in SaverAt
  BY DEF DebounceOver, SaverAt
<1>2. /\ saver.at = "debounce" /\ saver'.at = "drain" /\ saver' \in Handles(SaverAt)
      /\ UNCHANGED <<cfg, pool, post, up, stops, past, raced>>
  BY <1>1, SaverStepKeeps DEF IInv
<1>3. UNCHANGED <<permit, tmp, file, fails, failed>>
  BY DEF DebounceOver
<1>4. StateInv'
  BY <1>2, <1>3 DEF IInv, StateInv, Numbered, SavingAt
<1>5. AgreeInv' /\ (Owed' <=> Owed)
  BY <1>2, SameAgree DEF IInv
<1>6. WholeInv'
  BY <1>2, <1>3 DEF IInv, WholeInv, SavingAt
<1>7. NoneLostInv'
  BY <1>2, <1>3 DEF IInv, NoneLostInv, SavingAt
<1>. QED  BY <1>4, <1>5, <1>6, <1>7 DEF IInv

LEMMA DrainKeeps == IInv /\ Drain => IInv'
<1> SUFFICES ASSUME IInv, Drain PROVE IInv'
  OBVIOUS
<1>1. SaverStep("drain", "drain") /\ "drain" \in SaverAt
  BY DEF Drain, SaverAt
<1>2. /\ saver.at = "drain" /\ saver'.at = "drain" /\ saver' \in Handles(SaverAt)
      /\ UNCHANGED <<cfg, pool, post, up, stops, past, raced>>
  BY <1>1, SaverStepKeeps DEF IInv
<1>3. permit /\ permit' = FALSE /\ UNCHANGED <<tmp, file, fails, failed>>
  BY DEF Drain
<1>4. StateInv'
  BY <1>2, <1>3 DEF IInv, StateInv, Numbered, SavingAt
<1>5. AgreeInv' /\ (Owed' <=> Owed)
  BY <1>2, SameAgree DEF IInv
<1>6. WholeInv'
  BY <1>2, <1>3 DEF IInv, WholeInv, SavingAt
<1>7. NoneLostInv'
  BY <1>2, <1>3 DEF IInv, NoneLostInv, SavingAt
<1>. QED  BY <1>4, <1>5, <1>6, <1>7 DEF IInv

LEMMA DrainOverKeeps == IInv /\ DrainOver => IInv'
<1> SUFFICES ASSUME IInv, DrainOver PROVE IInv'
  OBVIOUS
<1>1. SaverStep("drain", "load") /\ "drain" \in SaverAt /\ "load" \in SaverAt
  BY DEF DrainOver, SaverAt
<1>2. /\ saver.at = "drain" /\ saver'.at = "load" /\ saver' \in Handles(SaverAt)
      /\ UNCHANGED <<cfg, pool, post, up, stops, past, raced>>
  BY <1>1, SaverStepKeeps DEF IInv
<1>3. UNCHANGED <<permit, tmp, file, fails, failed>>
  BY DEF DrainOver
<1>4. StateInv'
  BY <1>2, <1>3 DEF IInv, StateInv, Numbered, SavingAt
<1>5. AgreeInv' /\ (Owed' <=> Owed)
  BY <1>2, SameAgree DEF IInv
<1>6. WholeInv'
  BY <1>2, <1>3 DEF IInv, WholeInv, SavingAt
<1>7. NoneLostInv'
  BY <1>2, <1>3 DEF IInv, NoneLostInv, SavingAt
<1>. QED  BY <1>4, <1>5, <1>6, <1>7 DEF IInv

\* The snapshot is the configuration in force, which a post stored.
LEMMA TakeSnapshotKeeps == IInv /\ TakeSnapshot => IInv'
<1> SUFFICES ASSUME IInv, TakeSnapshot PROVE IInv'
  OBVIOUS
<1>1. saver \in Handles(SaverAt) /\ saver.at = "load" /\ Numbered(cfg)
  BY DEF IInv, StateInv, TakeSnapshot
<1>2. saver' = [saver EXCEPT !.at = "open", !.next = cfg]
  BY DEF TakeSnapshot
<1>3. /\ saver'.at = "open" /\ saver'.next = cfg /\ saver' \in Handles(SaverAt)
  BY <1>1, <1>2 DEF Handles, SaverAt, Numbered
<1>4. UNCHANGED <<cfg, pool, post, up, stops, past, raced, permit, tmp, file, fails, failed>>
  BY DEF TakeSnapshot
<1>5. StateInv'
  BY <1>1, <1>3, <1>4 DEF IInv, StateInv, Numbered
<1>6. AgreeInv' /\ (Owed' <=> Owed)
  BY <1>4, SameAgree DEF IInv
<1>7. WholeInv'
  BY <1>1, <1>3, <1>4 DEF IInv, WholeInv
<1>8. NoneLostInv'
  BY <1>3, <1>4 DEF IInv, NoneLostInv
<1>. QED  BY <1>5, <1>6, <1>7, <1>8 DEF IInv

LEMMA OpenTmpKeeps == IInv /\ OpenTmp => IInv'
<1> SUFFICES ASSUME IInv, OpenTmp PROVE IInv'
  OBVIOUS
<1>1. SaverStep("open", "write") /\ "open" \in SaverAt /\ "write" \in SaverAt
  BY DEF OpenTmp, SaverAt
<1>2. /\ saver.at = "open" /\ saver'.at = "write" /\ saver'.next = saver.next
      /\ saver' \in Handles(SaverAt)
      /\ UNCHANGED <<cfg, pool, post, up, stops, past, raced>>
  BY <1>1, SaverStepKeeps DEF IInv
<1>3. tmp' = Torn /\ UNCHANGED <<permit, file, fails, failed>>
  BY DEF OpenTmp
<1>4. StateInv'
  BY <1>2, <1>3 DEF IInv, StateInv, Numbered, SavingAt
<1>5. AgreeInv' /\ (Owed' <=> Owed)
  BY <1>2, SameAgree DEF IInv
<1>6. WholeInv'
  BY <1>2, <1>3, <1>5 DEF IInv, WholeInv, SavingAt
<1>7. NoneLostInv'
  BY <1>2, <1>3, <1>5 DEF IInv, NoneLostInv, SavingAt, Up
<1>. QED  BY <1>4, <1>5, <1>6, <1>7 DEF IInv

LEMMA WriteTmpKeeps == IInv /\ WriteTmp => IInv'
<1> SUFFICES ASSUME IInv, WriteTmp PROVE IInv'
  OBVIOUS
<1>1. SaverStep("write", "rename") /\ "rename" \in SaverAt /\ "write" \in SaverAt
  BY DEF WriteTmp, SaverAt
<1>2. /\ saver.at = "write" /\ saver'.at = "rename" /\ saver'.next = saver.next
      /\ saver' \in Handles(SaverAt)
      /\ UNCHANGED <<cfg, pool, post, up, stops, past, raced>>
  BY <1>1, SaverStepKeeps DEF IInv
<1>3. tmp' = saver.next /\ UNCHANGED <<permit, file, fails, failed>>
  BY DEF WriteTmp
<1>4. StateInv'
  BY <1>2, <1>3 DEF IInv, StateInv, Numbered, SavingAt
<1>5. AgreeInv' /\ (Owed' <=> Owed)
  BY <1>2, SameAgree DEF IInv
<1>6. WholeInv'
  BY <1>2, <1>3, <1>5 DEF IInv, WholeInv, SavingAt
<1>7. NoneLostInv'
  BY <1>2, <1>3, <1>5 DEF IInv, NoneLostInv, SavingAt, Up
<1>. QED  BY <1>4, <1>5, <1>6, <1>7 DEF IInv

LEMMA RenameKeeps == IInv /\ Rename => IInv'
<1> SUFFICES ASSUME IInv, Rename PROVE IInv'
  OBVIOUS
<1>1. Up /\ saver.at = "rename" /\ file' = tmp /\ failed' = FALSE /\ saver' = Idle
  BY DEF Rename
<1>2. UNCHANGED <<cfg, pool, post, permit, tmp, fails, up, stops, past, raced>>
  BY DEF Rename
<1>3. tmp = saver.next /\ Numbered(tmp) /\ tmp = past[tmp.ver]
  BY <1>1 DEF IInv, WholeInv, StateInv, SavingAt
<1>4. saver'.at = "idle" /\ saver' \in Handles(SaverAt)
  BY <1>1, IdleType
<1>5. StateInv'
  BY <1>1, <1>2, <1>3, <1>4 DEF IInv, StateInv, Numbered, SavingAt
<1>6. AgreeInv' /\ (Owed' <=> Owed)
  BY <1>2, SameAgree DEF IInv
<1>7. WholeInv'
  BY <1>1, <1>2, <1>3, <1>4, <1>6 DEF IInv, WholeInv, SavingAt
<1>8. NoneLostInv'
  BY <1>1, <1>2, <1>3, <1>4, <1>6 DEF IInv, NoneLostInv, SavingAt, Up
<1>. QED  BY <1>5, <1>6, <1>7, <1>8 DEF IInv

LEMMA SaveFailsKeeps == IInv /\ SaveFails => IInv'
<1> SUFFICES ASSUME IInv, SaveFails PROVE IInv'
  OBVIOUS
<1>1. fails < MaxFails /\ fails' = fails + 1 /\ failed' = TRUE /\ saver' = Idle
  BY DEF SaveFails
<1>2. UNCHANGED <<cfg, pool, post, permit, tmp, file, up, stops, past, raced>>
  BY DEF SaveFails
<1>3. saver.at # "idle"
  BY DEF SaveFails
<1>4. saver'.at = "idle" /\ saver' \in Handles(SaverAt)
  BY <1>1, IdleType
<1>5. fails' \in 0..MaxFails
  BY <1>1, SettingsAssumption DEF IInv, StateInv
<1>6. StateInv'
  BY <1>1, <1>2, <1>4, <1>5 DEF IInv, StateInv, Numbered, SavingAt
<1>7. AgreeInv' /\ (Owed' <=> Owed)
  BY <1>2, SameAgree DEF IInv
<1>8. WholeInv'
  BY <1>2, <1>3, <1>4, <1>7 DEF IInv, WholeInv, SavingAt
<1>9. NoneLostInv'
  BY <1>1, <1>4 DEF NoneLostInv, SavingAt
<1>. QED  BY <1>6, <1>7, <1>8, <1>9 DEF IInv

LEMMA AskRestartKeeps == IInv /\ AskRestart => IInv'
<1> SUFFICES ASSUME IInv, AskRestart PROVE IInv'
  OBVIOUS
<1>1. up = "serving" /\ up' = "exiting" /\ Up /\ Up'
  BY DEF AskRestart, Up
<1>2. UNCHANGED <<cfg, pool, post, permit, saver, tmp, file, fails, failed, stops, past, raced>>
  BY DEF AskRestart, saverVars
<1>3. StateInv'
  BY <1>1, <1>2 DEF IInv, StateInv, Numbered
<1>4. AgreeInv' /\ (Owed' <=> Owed)
  BY <1>1, <1>2 DEF IInv, AgreeInv, Owed, PoolMatches
<1>5. WholeInv' /\ NoneLostInv'
  BY <1>1, <1>2, <1>4 DEF IInv, WholeInv, NoneLostInv
<1>. QED  BY <1>3, <1>4, <1>5 DEF IInv

LEMMA StopKeeps == IInv /\ Stop => IInv'
<1> SUFFICES ASSUME IInv, Stop PROVE IInv'
  OBVIOUS
<1> DEFINE gone == [Idle EXCEPT !.at = "done"]
<1>1. stops < MaxStops /\ up' = "down" /\ stops' = stops + 1 /\ permit' = FALSE /\ saver' = Idle
  BY DEF Stop
<1>2. UNCHANGED <<cfg, pool, tmp, file, fails, failed, past, raced>>
  BY DEF Stop
<1>3. gone \in Handles(PostAt) /\ gone.at = "done"
  BY DEF Handles, PostAt, Idle
<1>4. post' = [p \in Posts |-> IF p \in Busy THEN gone ELSE post[p]]
  BY DEF Stop
<1>. HIDE DEF gone
<1>5. post' \in [Posts -> Handles(PostAt)]
  BY <1>3, <1>4 DEF IInv, StateInv
<1>6. \A p \in Posts : ~(post'[p].at \in {"loaded", "stored", "applied"})
  BY <1>3, <1>4, InBusy DEF IInv
<1>7. saver'.at = "idle" /\ saver' \in Handles(SaverAt) /\ ~Up' /\ ~Owed'
  BY <1>1, <1>6, IdleType DEF Up, Owed
<1>8. stops' \in 0..MaxStops
  BY <1>1, SettingsAssumption DEF IInv, StateInv
<1>9. StateInv'
  BY <1>1, <1>2, <1>5, <1>6, <1>7, <1>8 DEF IInv, StateInv, Numbered, SavingAt
<1>10. WholeInv'
  BY <1>1, <1>2, <1>7 DEF IInv, WholeInv, SavingAt
<1>11. NoneLostInv' /\ AgreeInv'
  BY <1>7 DEF NoneLostInv, AgreeInv
<1>. QED  BY <1>9, <1>10, <1>11 DEF IInv

\* A start reads the file; whatever is in force then is as saved as it can be.
LEMMA StartKeeps == IInv /\ DownInv /\ Start => IInv'
<1> SUFFICES ASSUME IInv, DownInv, Start PROVE IInv'
  OBVIOUS
<1>1. /\ up = "down" /\ up' = "serving" /\ failed' = FALSE /\ raced' = FALSE
      /\ cfg' = Load(file) /\ pool' = FirstPool(cfg')
  BY DEF Start
<1>2. UNCHANGED <<post, permit, saver, tmp, file, fails, stops, past>>
  BY DEF Start
<1>3. Numbered(cfg') /\ cfg'.ver = file.ver
  BY <1>1, LoadType DEF IInv, StateInv, Numbered
<1>4. /\ pool' \in KeyLists
      /\ pool' = cfg'.keys \/ (cfg'.keys = <<>> /\ Len(pool') <= 1)
  BY <1>1, <1>3, FirstPoolType DEF Numbered
<1>5. ~permit /\ saver.at = "idle" /\ \A p \in Posts : ~(post[p].at \in {"loaded", "stored", "applied"})
  BY <1>1 DEF DownInv
<1>6. StateInv'
  BY <1>1, <1>2, <1>3, <1>4 DEF IInv, StateInv, Numbered
<1>7. WholeInv'
  BY <1>2, <1>5 DEF IInv, WholeInv, Owed, SavingAt
<1>8. NoneLostInv'
  BY <1>2, <1>3, <1>5 DEF NoneLostInv, SavingAt
<1>9. AgreeInv'
  BY <1>2, <1>4, <1>5 DEF AgreeInv, PoolMatches
<1>. QED  BY <1>6, <1>7, <1>8, <1>9 DEF IInv

LEMMA DownStep == StateInv /\ DownInv /\ [Next]_vars => DownInv'
<1> SUFFICES ASSUME StateInv, DownInv, [Next]_vars PROVE DownInv'
  OBVIOUS
<1>1. CASE Stop
  <2> DEFINE gone == [Idle EXCEPT !.at = "done"]
  <2>1. permit' = FALSE /\ saver' = Idle
        /\ post' = [p \in Posts |-> IF p \in Busy THEN gone ELSE post[p]]
    BY <1>1 DEF Stop
  <2>2. gone.at = "done"
    BY DEF Idle
  <2>. HIDE DEF gone
  <2>. QED  BY <2>1, <2>2, InBusy, IdleType DEF DownInv
<1>2. CASE UNCHANGED vars
  BY <1>2 DEF DownInv, vars, saverVars
<1>3. ASSUME ~Stop, Next PROVE up' # "down"
  <2>1. ASSUME NEW p \in Posts, PostKeys(p) \/ PostConfig(p) PROVE up' # "down"
    BY <2>1 DEF PostKeys, PostConfig, Begin, Up
  <2>2. ASSUME NEW p \in Posts, Continue(p) PROVE up' # "down"
    BY <2>2 DEF Continue, Store, Apply, Ping, Up
  <2>3. ASSUME Save PROVE up' # "down"
    BY <2>3 DEF Save, Notified, DebounceOver, Drain, DrainOver, TakeSnapshot, OpenTmp,
                WriteTmp, Rename, SaverStep, Up
  <2>4. ASSUME SaveFails \/ AskRestart \/ Start PROVE up' # "down"
    BY <2>4 DEF SaveFails, AskRestart, Start, Up
  <2>. QED  BY <1>3, <2>1, <2>2, <2>3, <2>4 DEF Next, Exit, Die
<1>. QED  BY <1>1, <1>2, <1>3 DEF DownInv

LEMMA Step == IInv /\ DownInv /\ [Next]_vars => IInv'
<1> SUFFICES ASSUME IInv, DownInv, [Next]_vars PROVE IInv'
  OBVIOUS
<1>1. ASSUME NEW p \in Posts, PostKeys(p) \/ PostConfig(p) \/ Continue(p) PROVE IInv'
  BY <1>1, PostKeysKeeps, PostConfigKeeps, StoreKeeps, ApplyKeeps, PingKeeps DEF Continue
<1>2. ASSUME Save PROVE IInv'
  BY <1>2, NotifiedKeeps, DebounceOverKeeps, DrainKeeps, DrainOverKeeps, TakeSnapshotKeeps,
     OpenTmpKeeps, WriteTmpKeeps, RenameKeeps DEF Save
<1>3. ASSUME Exit \/ Die PROVE IInv'
  BY <1>3, StopKeeps DEF Exit, Die
<1>4. CASE UNCHANGED vars
  <2>1. /\ cfg' = cfg /\ pool' = pool /\ post' = post /\ permit' = permit /\ saver' = saver
        /\ tmp' = tmp /\ file' = file /\ up' = up /\ stops' = stops /\ fails' = fails
        /\ past' = past /\ failed' = failed /\ raced' = raced
    BY <1>4 DEF vars, saverVars
  <2>2. StateInv'
    BY <2>1 DEF IInv, StateInv, Numbered
  <2>3. AgreeInv' /\ (Owed' <=> Owed)
    BY <2>1, SameAgree DEF IInv
  <2>4. WholeInv' /\ NoneLostInv'
    BY <2>1, <2>3 DEF IInv, WholeInv, NoneLostInv, Up
  <2>. QED  BY <2>2, <2>3, <2>4 DEF IInv
<1>. QED  BY <1>1, <1>2, <1>3, <1>4, SaveFailsKeeps, AskRestartKeeps, StartKeeps DEF Next

LEMMA Invariant == Spec => [](IInv /\ DownInv)
<1>1. Init => IInv /\ DownInv
  BY InitInv DEF DownInv, Init
<1>2. IInv /\ DownInv /\ [Next]_vars => IInv' /\ DownInv'
  BY Step, DownStep DEF IInv
<1>. QED  BY <1>1, <1>2, PTL DEF Spec

-----------------------------------------------------------------------------
(* The theorems. *)

\* The configuration, the pool, the files and the tasks keep their types.
THEOREM TypeCorrect == Spec => []TypeOK
<1>1. StateInv => TypeOK
  <2> SUFFICES ASSUME StateInv PROVE TypeOK
    OBVIOUS
  <2>1. \A c : Numbered(c) => Typed(c)
    BY DEF Numbered, Typed
  <2>2. /\ saver.at \in SaverAt
        /\ \A p \in Posts : post[p].at \in PostAt
    BY DEF StateInv, Handles
  <2>3. \A p \in Busy : p \in Posts /\ post[p].at \in {"loaded", "stored", "applied"}
    BY InBusy
  <2>. QED  BY <2>1, <2>2, <2>3 DEF TypeOK, StateInv, SaverAt, PostAt, SavingAt
<1>. QED  BY <1>1, Invariant, PTL DEF IInv

\* The configuration file is never torn: it is one that was in force, whole,
\* whatever step of a save the process stops at.
THEOREM FileIsWhole == Spec => []FileWhole
<1>1. IInv => FileWhole
  BY SettingsAssumption DEF IInv, StateInv, WholeInv, FileWhole, Numbered
<1>. QED  BY <1>1, Invariant, PTL

\* No ping is lost: when nothing is under way and the last save did not
\* fail, the file is up to date.
THEOREM NothingUnsaved == Spec => []SavedWhenQuiet
<1>1. IInv => SavedWhenQuiet
  <2> SUFFICES ASSUME IInv, Up, Busy = {}, saver.at = "idle", ~permit, ~failed
               PROVE  file.ver = cfg.ver
    BY DEF SavedWhenQuiet
  <2>1. ~Owed
    BY InBusy DEF IInv, Owed
  <2>. QED  BY <2>1 DEF IInv, NoneLostInv
<1>. QED  BY <1>1, Invariant, PTL

\* When posts do not overlap the pool has the keys of the configuration in
\* force after each of them, and after every start.
THEOREM PoolFollows == Spec => []PoolAgrees
<1>1. IInv => PoolAgrees
  <2> SUFFICES ASSUME IInv, Up, Busy = {}, ~raced PROVE PoolMatches
    BY DEF PoolAgrees, PoolMatches
  <2>1. \A p \in Posts : ~(post[p].at \in {"loaded", "stored", "applied"})
    BY InBusy DEF IInv
  <2>. QED  BY <2>1 DEF IInv, AgreeInv
<1>. QED  BY <1>1, Invariant, PTL

\* A store that no other post overlaps changes only the fields its post
\* names.
THEOREM UpdatesAreLocal == Spec => AbsentFieldsKept
<1>1. ASSUME IInv, NEW p \in Posts, Store(p), ~raced,
             NEW f \in {"apiKey", "keys", "listen"} \ post[p].fields
      PROVE  cfg'[f] = cfg[f]
  <2>1. SameUnnamed(post[p].next, cfg, post[p].fields)
    BY <1>1 DEF IInv, AgreeInv, Store
  <2>2. post[p].next \in Configs
    BY <1>1 DEF IInv, StateInv, Numbered, Store
  <2>3. cfg' = [post[p].next EXCEPT !.ver = Len(past) + 1]
    BY <1>1 DEF Store
  <2>4. /\ cfg'.apiKey = post[p].next.apiKey /\ cfg'.keys = post[p].next.keys
        /\ cfg'.listen = post[p].next.listen
    BY <2>2, <2>3 DEF Configs
  <2>. QED  BY <1>1, <2>1, <2>4 DEF SameUnnamed
<1>2. IInv /\ [Next]_vars =>
        [\A p \in Posts : Store(p) /\ ~raced =>
           \A f \in {"apiKey", "keys", "listen"} \ post[p].fields : cfg'[f] = cfg[f]]_vars
  BY <1>1
<1>. QED  BY <1>2, Invariant, PTL DEF Spec, AbsentFieldsKept
=============================================================================
