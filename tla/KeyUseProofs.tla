---------------------------- MODULE KeyUseProofs ----------------------------
(***************************************************************************)
(* Theorems about KeyUse, for every set of requests and keys, every set of *)
(* key lists and every number of attempts.                                 *)
(***************************************************************************)
EXTENDS KeyUse, TLAPS

PoolOK == entries \in Seq(EntryType) /\ (cursor = 1 \/ cursor \in Slots)

SameKeys ==
  /\ Len(entries') = Len(entries)
  /\ \A j \in Slots : entries'[j].key = entries[j].key

-----------------------------------------------------------------------------
(* The pool's operations. *)

\* The entries built from a list are as many as its keys, and typed.
LEMMA ListEntries ==
  ASSUME NEW list \in Lists
  PROVE  /\ FromList(list) \in Seq(EntryType)
         /\ Len(FromList(list)) = Len(list)
<1> DEFINE n == Len(list)
<1>1. list \in Seq(Keys \cup {NoKey}) /\ n \in Nat
  BY KeyPoolAssumption
<1>2. \A i \in 1..n : FromConfig(list[i]) \in EntryType
  BY <1>1 DEF FromConfig, EntryType
<1>3. FromList(list) \in [1..n -> EntryType]
  BY <1>2 DEF FromList
<1> QED BY <1>1, <1>3

\* Replacing an entry by one with the same key.
LEMMA EntrySet ==
  ASSUME PoolOK, NEW i \in Slots, NEW e \in EntryType, e.key = entries[i].key,
         entries' = [entries EXCEPT ![i] = e]
  PROVE  /\ entries' \in Seq(EntryType) /\ SameKeys
         /\ entries'[i] = e
         /\ \A j \in Slots \ {i} : entries'[j] = entries[j]
BY DEF PoolOK, SameKeys, Slots

LEMMA HealKeeps ==
  ASSUME PoolOK, NEW i \in Slots, Heal(i)
  PROVE  /\ entries' \in Seq(EntryType) /\ SameKeys
         /\ entries'[i] = FromConfig(entries[i].key)
         /\ \A j \in Slots \ {i} : entries'[j] = entries[j]
<1> DEFINE e == FromConfig(entries[i].key)
<1>1. entries[i] \in EntryType
  BY DEF PoolOK, Slots
<1>2. e \in EntryType /\ e.key = entries[i].key
  BY <1>1 DEF EntryType, FromConfig
<1>3. entries' = [entries EXCEPT ![i] = e]
  BY DEF Heal
<1> HIDE DEF e
<1> QED BY <1>2, <1>3, EntrySet DEF e

LEMMA ReportUnhealthy ==
  ASSUME PoolOK, NEW i \in Nat, NEW status \in Statuses, MarkUnhealthy(i, status)
  PROVE  /\ entries' \in Seq(EntryType) /\ SameKeys /\ cursor' = cursor
         /\ \A j \in Slots \ {i} : entries'[j] = entries[j]
<1> DEFINE e == [entries[i] EXCEPT !.healthy = FALSE,
                                   !.rest = CooldownForStatus(status)]
<1>1. CooldownForStatus(status) \in 0..6
  BY DEF Statuses, CooldownForStatus
<1>2. CASE i \notin Slots
  BY <1>2 DEF PoolOK, MarkUnhealthy, SameKeys
<1>3. CASE i \in Slots
  <2>1. entries[i] \in EntryType
    BY <1>3 DEF PoolOK, Slots
  <2>2. e \in EntryType /\ e.key = entries[i].key
    BY <1>1, <2>1 DEF EntryType
  <2>3. entries' = [entries EXCEPT ![i] = e] /\ cursor' = cursor
    BY <1>3 DEF MarkUnhealthy
  <2> HIDE DEF e
  <2>4. QED
    BY <1>3, <2>2, <2>3, EntrySet
<1> QED BY <1>2, <1>3

LEMMA ReportHealthy ==
  ASSUME PoolOK, NEW i \in Nat, MarkHealthy(i)
  PROVE  /\ entries' \in Seq(EntryType) /\ SameKeys /\ cursor' = cursor
         /\ \A j \in Slots \ {i} : entries'[j] = entries[j]
<1>1. CASE i \in Slots
  BY <1>1, HealKeeps DEF MarkHealthy
<1>2. CASE i \notin Slots
  BY <1>2 DEF PoolOK, MarkHealthy, SameKeys
<1> QED BY <1>1, <1>2

\* Handing out a key changes its own entry only, and it was usable.
LEMMA Acquired ==
  ASSUME PoolOK, NEW preferred, NEW i \in Slots, AcquireKey(preferred, i)
  PROVE  /\ i \in Usable /\ Heal(i)
         /\ cursor' = 1 \/ cursor' \in Slots
         /\ preferred \in Usable => i = preferred /\ cursor' = cursor
         /\ preferred \notin Usable => TakeTurn(i)
BY DEF PoolOK, AcquireKey, TakePreferred, TakeTurn, Next1, Usable, Slots

LEMMA Ticked ==
  ASSUME PoolOK, Tick
  PROVE  entries' \in Seq(EntryType) /\ SameKeys /\ cursor' = cursor
<1> DEFINE n == Len(entries)
<1>1. n \in Nat /\ \A i \in 1..n : entries[i] \in EntryType
  BY DEF PoolOK
<1>2. \A i \in 1..n : [entries[i] EXCEPT !.rest = IF @ > 0 THEN @ - 1 ELSE 0] \in EntryType
  BY <1>1 DEF EntryType
<1>3. entries' = [i \in 1..n |-> [entries[i] EXCEPT !.rest = IF @ > 0 THEN @ - 1 ELSE 0]]
  BY DEF Tick, Slots
<1>4. entries' \in Seq(EntryType) /\ Len(entries') = n
  BY <1>1, <1>2, <1>3
<1>5. \A j \in 1..n : entries'[j].key = entries[j].key
  BY <1>1, <1>3 DEF EntryType
<1> QED BY <1>4, <1>5 DEF Tick, SameKeys, Slots

-----------------------------------------------------------------------------
(* The calls in flight. *)

\* A call is typed, has an attempt left if it is to be retried, and holds a
\* key of the present list if it started on it.
CallOK(c) ==
  /\ c \in CallType
  /\ c.at = "failed" => c.attempt < MaxRetries
  /\ c.at # "idle" /\ c.fresh =>
       /\ c.index \in Slots
       /\ entries[c.index].key = c.key
       /\ c.key # NoKey

CallsOK == call \in [Reqs -> CallType] /\ \A r \in Reqs : CallOK(call[r])

IInv == PoolOK /\ turns \in [Slots -> Nat] /\ CallsOK

LEMMA IdleOK == CallOK(Idle)
BY KeyUseAssumption DEF CallOK, Idle, CallType

LEMMA CallingOK ==
  ASSUME PoolOK, NEW i \in Usable, NEW n \in 0..MaxRetries
  PROVE  CallOK(Calling(i, n))
<1>1. i \in Slots /\ i \in Nat /\ entries[i].key # NoKey
  BY DEF PoolOK, Usable, IsUsable, Slots
<1>2. entries[i] \in EntryType
  BY <1>1 DEF PoolOK, Slots
<1> QED BY <1>1, <1>2 DEF CallOK, Calling, CallType, EntryType

\* A step that moves one call and keeps the keys keeps the calls in order.
LEMMA CallSet ==
  ASSUME CallsOK, SameKeys, NEW r \in Reqs, NEW c, CallOK(c),
         call' = [call EXCEPT ![r] = c]
  PROVE  CallsOK'
<1>1. c \in CallType /\ call' \in [Reqs -> CallType]
  BY DEF CallsOK, CallOK
<1>2. Slots' = Slots
  BY DEF SameKeys, Slots
<1>3. ASSUME NEW q \in Reqs PROVE CallOK(call[q])'
  <2>1. CallOK(call'[q])
    BY DEF CallsOK
  <2> QED BY <1>2, <2>1 DEF CallOK, SameKeys
<1> QED BY <1>1, <1>3 DEF CallsOK

\* Moving on with the same slot keeps a call in order.
LEMMA CallMoved ==
  ASSUME NEW c, CallOK(c), c.at # "idle",
         NEW at \in {"calling", "failed", "rotating"}, NEW n \in 1..MaxRetries,
         at = "failed" => n < MaxRetries
  PROVE  CallOK([c EXCEPT !.at = at, !.attempt = n])
<1>1. n \in 0..MaxRetries
  BY KeyUseAssumption
<1> QED BY <1>1 DEF CallOK, CallType

LEMMA BumpType ==
  ASSUME turns \in [Slots -> Nat], NEW i \in Slots
  PROVE  Bump(i) \in [Slots -> Nat]
<1> DEFINE raised == [turns EXCEPT ![i] = @ + 1]
<1>1. raised \in [Slots -> Nat]
  OBVIOUS
<1>2. CASE \A j \in Usable : raised[j] > 0
  BY <1>1, <1>2 DEF Bump, Usable
<1>3. CASE ~ \A j \in Usable : raised[j] > 0
  BY <1>1, <1>3 DEF Bump
<1> QED BY <1>2, <1>3

LEMMA KeptTurns ==
  ASSUME turns \in [Slots -> Nat], SameKeys, KeepTurns
  PROVE  (turns \in [Slots -> Nat])'
BY DEF KeepTurns, NoTurns, SameKeys, Slots

-----------------------------------------------------------------------------
(* Every action keeps IInv. *)

LEMMA InitIInv == Init => IInv
<1> SUFFICES ASSUME Init PROVE IInv
  OBVIOUS
<1>1. PICK list \in Lists : entries = FromList(list) /\ cursor = 1
  BY DEF Init, PoolInit
<1>2. PoolOK
  BY <1>1, ListEntries DEF PoolOK
<1>3. turns \in [Slots -> Nat]
  BY DEF Init
<1>4. \A r \in Reqs : CallOK(call[r])
  BY IdleOK DEF Init
<1>5. Idle \in CallType
  BY IdleOK DEF CallOK
<1> QED BY <1>2, <1>3, <1>4, <1>5 DEF IInv, CallsOK, Init

LEMMA AcquireKeeps ==
  ASSUME IInv, NEW r \in Reqs, Acquire(r)
  PROVE  IInv'
<1>1. PICK preferred \in Slots \cup {0}, i \in Slots :
        /\ AcquireKey(preferred, i)
        /\ call' = [call EXCEPT ![r] = Calling(i, 1)]
        /\ turns' = IF preferred \in Usable THEN turns ELSE Bump(i)
  BY DEF Acquire
<1>2. i \in Usable /\ Heal(i) /\ (cursor' = 1 \/ cursor' \in Slots)
  BY <1>1, Acquired DEF IInv
<1>3. entries' \in Seq(EntryType) /\ SameKeys
  BY <1>2, HealKeeps DEF IInv
<1>4. Slots' = Slots
  BY <1>3 DEF SameKeys, Slots
<1>5. PoolOK'
  BY <1>2, <1>3, <1>4 DEF PoolOK
<1>6. turns' \in [Slots -> Nat]
  BY <1>1, BumpType DEF IInv
<1>7. 1 \in 0..MaxRetries
  BY KeyUseAssumption
<1>8. CallOK(Calling(i, 1))
  BY <1>2, <1>7, CallingOK DEF IInv
<1>9. CallsOK'
  BY <1>1, <1>3, <1>8, CallSet DEF IInv
<1> QED BY <1>4, <1>5, <1>6, <1>9 DEF IInv

\* A report to the pool, followed by a move of the request that made it.
LEMMA ReportKeeps ==
  ASSUME IInv, NEW r \in Reqs, NEW c, CallOK(c), KeepTurns,
         entries' \in Seq(EntryType), SameKeys, cursor' = cursor,
         call' = [call EXCEPT ![r] = c]
  PROVE  IInv'
<1>1. Slots' = Slots
  BY DEF SameKeys, Slots
<1>2. PoolOK'
  BY <1>1 DEF IInv, PoolOK
<1>3. CallsOK'
  BY CallSet DEF IInv
<1>4. (turns \in [Slots -> Nat])'
  BY KeptTurns DEF IInv
<1> QED BY <1>2, <1>3, <1>4 DEF IInv

LEMMA SucceedKeeps ==
  ASSUME IInv, NEW r \in Reqs, Succeed(r)
  PROVE  IInv'
<1>1. call[r].index \in Nat
  BY DEF IInv, CallsOK, CallType
<1>2. entries' \in Seq(EntryType) /\ SameKeys /\ cursor' = cursor
  BY <1>1, ReportHealthy DEF IInv, Succeed
<1> QED BY <1>2, IdleOK, ReportKeeps DEF Succeed

LEMMA FailKeeps ==
  ASSUME IInv, NEW r \in Reqs, Fail(r)
  PROVE  IInv'
<1> DEFINE c == call[r]
<1>1. CallOK(c) /\ c \in CallType /\ c.index \in Nat
  BY DEF IInv, CallsOK, CallType
<1>2. entries' \in Seq(EntryType) /\ SameKeys /\ cursor' = cursor
  BY <1>1, ReportUnhealthy DEF IInv, Fail
<1>3. CASE c.attempt < MaxRetries /\ call' = [call EXCEPT ![r].at = "failed"]
  <2>1. CallOK([c EXCEPT !.at = "failed"])
    BY <1>1, <1>3 DEF CallOK, CallType, Fail
  <2>2. call' = [call EXCEPT ![r] = [c EXCEPT !.at = "failed"]]
    BY <1>3
  <2> QED BY <1>2, <2>1, <2>2, ReportKeeps DEF Fail
<1>4. CASE call' = [call EXCEPT ![r] = Idle]
  BY <1>2, <1>4, IdleOK, ReportKeeps DEF Fail
<1> QED BY <1>3, <1>4 DEF Fail

LEMMA FinishKeeps ==
  ASSUME IInv, NEW r \in Reqs, Finish(r)
  PROVE  IInv'
<1>1. CallsOK'
  BY IdleOK, CallSet DEF IInv, Finish, poolVars, SameKeys
<1> QED BY <1>1 DEF IInv, Finish, poolVars, PoolOK, Slots

LEMMA RetryKeeps ==
  ASSUME IInv, NEW r \in Reqs, Retry(r)
  PROVE  IInv'
<1> DEFINE c == call[r]
           at == IF Len(entries) > 1 THEN "rotating" ELSE "calling"
           n == c.attempt + 1
<1>1. CallOK(c) /\ c.at = "failed" /\ c \in CallType
  BY DEF IInv, CallsOK, Retry
<1>2. n \in 1..MaxRetries
  BY <1>1, KeyUseAssumption DEF CallOK, CallType
<1>3. at \in {"calling", "failed", "rotating"} /\ at # "failed"
  OBVIOUS
<1>4. call' = [call EXCEPT ![r] = [c EXCEPT !.at = at, !.attempt = n]]
  BY DEF Retry, IInv, CallsOK, CallType
<1> HIDE DEF c, at, n
<1>5. CallOK([c EXCEPT !.at = at, !.attempt = n])
  BY <1>1, <1>2, <1>3, CallMoved
<1>6. CallsOK'
  BY <1>4, <1>5, CallSet DEF IInv, Retry, poolVars, SameKeys
<1> QED BY <1>6 DEF IInv, Retry, poolVars, PoolOK, Slots

LEMMA RotateKeeps ==
  ASSUME IInv, NEW r \in Reqs, Rotate(r)
  PROVE  IInv'
<1>1. CallOK(call[r]) /\ call[r].at = "rotating" /\ call[r] \in CallType
  BY DEF IInv, CallsOK, Rotate
<1>2. CASE NothingUsable /\ call' = [call EXCEPT ![r].at = "calling"]
           /\ UNCHANGED <<poolVars, turns>>
  <2>1. CallOK([call[r] EXCEPT !.at = "calling"])
    BY <1>1 DEF CallOK, CallType
  <2>2. CallsOK'
    BY <1>2, <2>1, CallSet DEF IInv, poolVars, SameKeys
  <2> QED BY <1>2, <2>2 DEF IInv, poolVars, PoolOK, Slots
<1>3. ASSUME NEW i \in Slots, AcquireKey(0, i), turns' = Bump(i),
             call' = [call EXCEPT ![r] = Calling(i, call[r].attempt)]
      PROVE  IInv'
  <2>1. i \in Usable /\ Heal(i) /\ (cursor' = 1 \/ cursor' \in Slots)
    BY <1>3, Acquired DEF IInv
  <2>2. entries' \in Seq(EntryType) /\ SameKeys
    BY <2>1, HealKeeps DEF IInv
  <2>3. Slots' = Slots
    BY <2>2 DEF SameKeys, Slots
  <2>4. PoolOK'
    BY <2>1, <2>2, <2>3 DEF PoolOK
  <2>5. turns' \in [Slots -> Nat]
    BY <1>3, BumpType DEF IInv
  <2>6. call[r].attempt \in 0..MaxRetries
    BY <1>1 DEF CallType
  <2>7. CallOK(Calling(i, call[r].attempt))
    BY <2>1, <2>6, CallingOK DEF IInv
  <2>8. CallsOK'
    BY <1>3, <2>2, <2>7, CallSet DEF IInv
  <2> QED BY <2>3, <2>4, <2>5, <2>8 DEF IInv
<1> QED BY <1>2, <1>3 DEF Rotate

LEMMA EditKeysKeeps ==
  ASSUME IInv, EditKeys
  PROVE  IInv'
<1>1. PICK list \in Lists : Rebuild(list)
  BY DEF EditKeys
<1>2. PoolOK'
  BY <1>1, ListEntries DEF Rebuild, PoolOK
<1>3. (turns \in [Slots -> Nat])'
  BY DEF EditKeys, NoTurns, Slots
<1>4. ASSUME NEW r \in Reqs
      PROVE  CallOK(call[r])'
  <2>1. call[r] \in CallType /\ (call[r].at = "failed" => call[r].attempt < MaxRetries)
    BY DEF IInv, CallsOK, CallOK
  <2>2. call'[r] = [call[r] EXCEPT !.fresh = call[r].at = "idle"]
    BY DEF EditKeys
  <2> DEFINE b == call[r].at = "idle"
  <2>3. b \in BOOLEAN
    OBVIOUS
  <2>4. call'[r] = [at |-> call[r].at, index |-> call[r].index, key |-> call[r].key,
                    attempt |-> call[r].attempt, fresh |-> b]
    BY <2>1, <2>2 DEF CallType
  <2>5. call'[r].at = call[r].at /\ call'[r].fresh = b
    BY <2>4
  <2>6. call'[r] \in CallType
    BY <2>1, <2>3, <2>4 DEF CallType
  <2>7. call'[r].at = "failed" => call'[r].attempt < MaxRetries
    BY <2>1, <2>4
  <2>8. ~(call'[r].at # "idle" /\ call'[r].fresh)
    BY <2>5
  <2> QED BY <2>6, <2>7, <2>8 DEF CallOK
<1>5. call' \in [Reqs -> CallType]
  BY <1>4 DEF EditKeys, CallOK
<1> QED BY <1>2, <1>3, <1>4, <1>5 DEF IInv, CallsOK

LEMMA WaitKeeps ==
  ASSUME IInv, Wait
  PROVE  IInv'
<1>1. entries' \in Seq(EntryType) /\ SameKeys /\ cursor' = cursor
  BY Ticked DEF IInv, Wait
<1>2. PoolOK' /\ Slots' = Slots
  BY <1>1 DEF IInv, PoolOK, SameKeys, Slots
<1>3. (turns \in [Slots -> Nat])'
  BY <1>1, KeptTurns DEF IInv, Wait
<1>4. CallsOK'
  BY <1>1, <1>2 DEF IInv, Wait, CallsOK, CallOK, SameKeys
<1> QED BY <1>2, <1>3, <1>4 DEF IInv

LEMMA NextIInv == IInv /\ [Next]_vars => IInv'
<1> SUFFICES ASSUME IInv, [Next]_vars PROVE IInv'
  OBVIOUS
<1>1. ASSUME NEW r \in Reqs, Acquire(r) PROVE IInv'
  BY <1>1, AcquireKeeps
<1>2. ASSUME NEW r \in Reqs, Succeed(r) PROVE IInv'
  BY <1>2, SucceedKeeps
<1>3. ASSUME NEW r \in Reqs, Fail(r) PROVE IInv'
  BY <1>3, FailKeeps
<1>4. ASSUME NEW r \in Reqs, Finish(r) PROVE IInv'
  BY <1>4, FinishKeeps
<1>5. ASSUME NEW r \in Reqs, Retry(r) PROVE IInv'
  BY <1>5, RetryKeeps
<1>6. ASSUME NEW r \in Reqs, Rotate(r) PROVE IInv'
  BY <1>6, RotateKeeps
<1>7. CASE EditKeys
  BY <1>7, EditKeysKeeps
<1>8. CASE Wait
  BY <1>8, WaitKeeps
<1>9. CASE UNCHANGED vars
  BY <1>9 DEF vars, poolVars, IInv, PoolOK, CallsOK, CallOK, Slots
<1> QED BY <1>1, <1>2, <1>3, <1>4, <1>5, <1>6, <1>7, <1>8, <1>9 DEF Next

-----------------------------------------------------------------------------
LEMMA Invariance == Spec => []IInv
BY InitIInv, NextIInv, PTL DEF Spec

\* The pool, the requests' slots and the turns keep their types; no request
\* makes more than MAX_RETRIES attempts (the loop of chat.rs:158).
THEOREM TypeCorrect == Spec => []TypeOK
<1>1. IInv => TypeOK
  BY DEF IInv, PoolOK, CallsOK, TypeOK
<1> QED BY <1>1, Invariance, PTL

\* The slot a request uses names its own key in the present list, unless the
\* list was replaced since it was acquired (keypool.rs:76-119, 151-155).
THEOREM FreshSlots == Spec => []FreshSlotsValid
<1>1. IInv => FreshSlotsValid
  BY DEF IInv, CallsOK, CallOK, FreshSlotsValid
<1> QED BY <1>1, Invariance, PTL

-----------------------------------------------------------------------------
(* Cooldowns and reports. *)

\* A step that does not concern an entry leaves what remains of its cooldown.
LEMMA UntouchedRemains ==
  ASSUME SameKeys, NEW i \in Slots, entries'[i] = entries[i]
  PROVE  Remaining(i)' = Remaining(i)
BY DEF SameKeys, Slots, Remaining, InCooldown, Resting, IsUsable, PastCooldown

\* Handing out a key touches no resting entry.
LEMMA AcquireSparesResting ==
  ASSUME IInv, NEW preferred, NEW k \in Slots, AcquireKey(preferred, k),
         NEW i \in Slots, InCooldown(i)
  PROVE  Remaining(i)' = Remaining(i)
<1>1. k \in Usable /\ Heal(k)
  BY Acquired DEF IInv
<1>2. i # k
  BY <1>1 DEF InCooldown, Resting, Usable
<1>3. SameKeys /\ entries'[i] = entries[i]
  BY <1>1, <1>2, HealKeeps DEF IInv
<1> QED BY <1>3, UntouchedRemains

\* A success reported to an entry leaves it nothing to wait for.
LEMMA SuccessEnds ==
  ASSUME IInv, NEW i \in Slots, InCooldown(i), MarkHealthy(i)
  PROVE  Remaining(i)' = 0
<1>1. SameKeys /\ entries'[i] = FromConfig(entries[i].key)
  BY HealKeeps DEF IInv, MarkHealthy
<1>2. entries'[i].healthy
  BY <1>1 DEF FromConfig
<1> QED BY <1>2 DEF Remaining, InCooldown, Resting, IsUsable

\* A failure starts the cooldown anew.
LEMMA FailureRestarts ==
  ASSUME IInv, NEW i \in Slots, InCooldown(i), NEW status \in Statuses,
         MarkUnhealthy(i, status)
  PROVE  Remaining(i)' = CooldownForStatus(status)
<1> DEFINE e == [entries[i] EXCEPT !.healthy = FALSE,
                                 !.rest = CooldownForStatus(status)]
<1>1. entries' = [entries EXCEPT ![i] = e]
  BY DEF MarkUnhealthy
<1>2. entries[i] \in EntryType /\ CooldownForStatus(status) \in 1..6
  BY DEF IInv, PoolOK, Slots, CooldownForStatus, Statuses
<1>3. e \in EntryType /\ e.key = entries[i].key /\ e.healthy = FALSE
      /\ e.rest = CooldownForStatus(status)
  <2> DEFINE rest == CooldownForStatus(status)
  <2>1. rest \in 0..6
    BY <1>2
  <2> HIDE DEF rest
  <2>2. [entries[i] EXCEPT !.healthy = FALSE, !.rest = rest] \in EntryType
    BY <1>2, <2>1 DEF EntryType
  <2> QED BY <1>2, <2>2 DEF EntryType, rest
<1> HIDE DEF e
<1>4. SameKeys /\ entries'[i] = e
  BY <1>1, <1>3, EntrySet DEF IInv
<1>5. InCooldown(i)'
  BY <1>2, <1>3, <1>4
  DEF SameKeys, Slots, InCooldown, Resting, IsUsable, PastCooldown
<1> QED BY <1>3, <1>4, <1>5 DEF Remaining

\* The clock takes one unit off what remains.
LEMMA TickRunsDown ==
  ASSUME IInv, NEW i \in Slots, InCooldown(i), entries[i].rest > 0, Tick
  PROVE  Remaining(i)' = Remaining(i) - 1
<1>1. entries[i] \in EntryType /\ SameKeys
  BY Ticked DEF IInv, PoolOK, Slots
<1>2. entries'[i] = [entries[i] EXCEPT !.rest = @ - 1]
  BY <1>1 DEF Tick, EntryType
<1>3. /\ entries'[i].key = entries[i].key
      /\ entries'[i].healthy = entries[i].healthy
      /\ entries'[i].rest = entries[i].rest - 1
  BY <1>1, <1>2 DEF EntryType
<1>4. CASE entries[i].rest = 1
  BY <1>1, <1>3, <1>4
  DEF SameKeys, Slots, Remaining, InCooldown, Resting, IsUsable, PastCooldown
<1>5. CASE entries[i].rest > 1
  <2>1. entries'[i].rest # 0
    BY <1>1, <1>3, <1>5 DEF EntryType
  <2>2. InCooldown(i)'
    BY <1>1, <1>3, <2>1
    DEF SameKeys, Slots, InCooldown, Resting, IsUsable, PastCooldown
  <2> QED BY <1>3, <2>2 DEF Remaining
<1> QED BY <1>1, <1>4, <1>5 DEF EntryType

\* What remains of a cooldown goes down with the clock alone, ends with a
\* success or a new list and starts anew with a failure, however many requests
\* acquire, prefer, rotate and report meanwhile (keypool.rs:29-38, 76-138).
THEOREM CooldownsHonoured == Spec => CooldownHonoured
<1> DEFINE
      Step == \A i \in Slots : Remaining(i) > 0 =>
       IF Wait THEN Remaining(i)' = Remaining(i) - 1
       ELSE \/ EditKeys
            \/ \E r \in Reqs : call[r].index = i /\ Succeed(r) /\ Remaining(i)' = 0
            \/ \E r \in Reqs : /\ call[r].index = i /\ Fail(r)
                              /\ Remaining(i)' \in {CooldownForStatus(s) : s \in Statuses}
            \/ Remaining(i)' = Remaining(i)
<1>1. IInv /\ [Next]_vars => [Step]_vars
  <2> DEFINE Restarted(i) == \E r \in Reqs :
               /\ call[r].index = i /\ Fail(r)
               /\ Remaining(i)' \in {CooldownForStatus(s) : s \in Statuses}
             Ended(i) == \E r \in Reqs :
               call[r].index = i /\ Succeed(r) /\ Remaining(i)' = 0
             Same(i) == Remaining(i)' = Remaining(i)
  <2> SUFFICES ASSUME IInv, Next, NEW i \in Slots, Remaining(i) > 0
               PROVE  IF Wait THEN Remaining(i)' = Remaining(i) - 1
                      ELSE EditKeys \/ Ended(i) \/ Restarted(i) \/ Same(i)
    OBVIOUS
  <2>1. InCooldown(i) /\ entries[i].rest > 0
    BY DEF Remaining
  <2>2. CASE Wait
    BY <2>1, <2>2, TickRunsDown DEF Wait
  <2>3. ASSUME NEW r \in Reqs, Acquire(r) PROVE Same(i)
    BY <2>1, <2>3, AcquireSparesResting DEF Acquire
  <2>4. ASSUME NEW r \in Reqs, Rotate(r) PROVE Same(i)
    <3>1. CASE \E k \in Slots : AcquireKey(0, k)
      BY <2>1, <3>1, AcquireSparesResting
    <3>2. CASE UNCHANGED <<poolVars, turns>>
      BY <3>2 DEF poolVars, Slots, Remaining, InCooldown, Resting, IsUsable,
                  PastCooldown
    <3> QED BY <2>4, <3>1, <3>2 DEF Rotate
  <2>5. ASSUME NEW r \in Reqs, Succeed(r) PROVE Ended(i) \/ Same(i)
    <3>1. call[r].index \in Nat
      BY DEF IInv, CallsOK, CallType
    <3>2. CASE call[r].index = i
      BY <2>1, <2>5, <3>2, SuccessEnds DEF Succeed
    <3>3. CASE call[r].index # i
      BY <2>5, <3>1, <3>3, ReportHealthy, UntouchedRemains DEF IInv, Succeed
    <3> QED BY <3>2, <3>3
  <2>6. ASSUME NEW r \in Reqs, Fail(r) PROVE Restarted(i) \/ Same(i)
    <3>1. call[r].index \in Nat
      BY DEF IInv, CallsOK, CallType
    <3>2. PICK status \in Statuses : MarkUnhealthy(call[r].index, status)
      BY <2>6 DEF Fail
    <3>3. CASE call[r].index = i
      BY <2>1, <2>6, <3>2, <3>3, FailureRestarts
    <3>4. CASE call[r].index # i
      BY <3>1, <3>2, <3>4, ReportUnhealthy, UntouchedRemains DEF IInv
    <3> QED BY <3>3, <3>4
  <2>7. ASSUME NEW r \in Reqs, Finish(r) \/ Retry(r) PROVE Same(i)
    BY <2>7 DEF Finish, Retry, poolVars, Slots, Remaining, InCooldown, Resting,
                IsUsable, PastCooldown
  <2> HIDE DEF Same, Ended, Restarted
  <2> QED BY <2>2, <2>3, <2>4, <2>5, <2>6, <2>7 DEF Next
<1> QED BY <1>1, Invariance, PTL DEF Spec, CooldownHonoured

\* A report moves no cursor and touches no other entry (keypool.rs:121-138).
THEOREM ReportsLocal == Spec => ReportsAreLocal
<1> DEFINE Step == \A r \in Reqs : Succeed(r) \/ Fail(r) =>
                     /\ cursor' = cursor
                     /\ \A i \in Slots \ {call[r].index} : entries'[i] = entries[i]
<1>1. IInv /\ [Next]_vars => [Step]_vars
  <2> SUFFICES ASSUME IInv, NEW r \in Reqs, Succeed(r) \/ Fail(r)
               PROVE  /\ cursor' = cursor
                      /\ \A i \in Slots \ {call[r].index} : entries'[i] = entries[i]
    OBVIOUS
  <2>1. call[r].index \in Nat
    BY DEF IInv, CallsOK, CallType
  <2>2. CASE Succeed(r)
    BY <2>1, <2>2, ReportHealthy DEF IInv, Succeed
  <2>3. CASE Fail(r)
    BY <2>1, <2>3, ReportUnhealthy DEF IInv, Fail
  <2> QED BY <2>2, <2>3
<1> QED BY <1>1, Invariance, PTL DEF Spec, ReportsAreLocal

-----------------------------------------------------------------------------
(* Round robin.  The usable keys that had their turn are the last ones the *)
(* cursor will reach, and one of the others is still to come.              *)

TurnsOrdered ==
  /\ RoundRobinBalanced
  /\ \A i, j \in Usable : turns[i] > 0 /\ turns[j] = 0 => Turn(j) < Turn(i)
  /\ Usable # {} => \E j \in Usable : turns[j] = 0

\* Healing a usable entry changes nothing about who is usable.
LEMMA HealedUsable ==
  ASSUME PoolOK, NEW i \in Usable, Heal(i)
  PROVE  Usable' = Usable
<1>1. i \in Slots
  BY DEF Usable
<1>2. SameKeys /\ entries'[i] = FromConfig(entries[i].key)
      /\ \A j \in Slots \ {i} : entries'[j] = entries[j]
  BY <1>1, HealKeeps
<1>3. Slots' = Slots
  BY <1>2 DEF SameKeys, Slots
<1>4. IsUsable(entries'[i])
  BY <1>2 DEF Usable, IsUsable, FromConfig, PastCooldown
<1>5. \A j \in Slots : IsUsable(entries'[j]) <=> IsUsable(entries[j])
  BY <1>2, <1>4 DEF Usable
<1> QED BY <1>3, <1>5 DEF Usable

\* When the cursor moves past i, the order of the others stays and i is last.
LEMMA CursorPast ==
  ASSUME PoolOK, NEW i \in Slots, NEW a \in Slots, NEW b \in Slots,
         Len(entries') = Len(entries), cursor' = Next1(i), b # i,
         Turn(i) <= Turn(b), a = i \/ Turn(b) < Turn(a)
  PROVE  Turn(b)' < Turn(a)'
<1> DEFINE n == Len(entries)
<1>1. n \in Nat /\ i \in 1..n /\ a \in 1..n /\ b \in 1..n
  BY DEF PoolOK, Slots
<1>2. cursor \in 1..n
  BY <1>1 DEF PoolOK, Slots
<1>3. cursor' = IF i = n THEN 1 ELSE i + 1
  BY DEF Next1
<1> DEFINE T(x, c) == IF x >= c THEN x - c ELSE x + n - c
<1>4. Turn(i) = T(i, cursor) /\ Turn(a) = T(a, cursor) /\ Turn(b) = T(b, cursor)
  BY DEF Turn
<1>5. Turn(a)' = T(a, cursor') /\ Turn(b)' = T(b, cursor')
  BY DEF Turn
<1> HIDE DEF n
<1>6. T(i, cursor) <= T(b, cursor) /\ (a = i \/ T(b, cursor) < T(a, cursor))
  BY <1>4
<1>7. T(b, cursor') < T(a, cursor')
  BY <1>1, <1>2, <1>3, <1>6
<1> QED BY <1>5, <1>7

LEMMA TurnTaken ==
  ASSUME IInv, TurnsOrdered, NEW i \in Slots, TakeTurn(i), turns' = Bump(i)
  PROVE  TurnsOrdered'
<1> DEFINE raised == [turns EXCEPT ![i] = @ + 1]
<1>1. i \in Usable /\ (\A j \in Usable : Turn(i) <= Turn(j)) /\ Heal(i)
      /\ cursor' = Next1(i)
  BY DEF TakeTurn
<1>2. Usable' = Usable /\ Len(entries') = Len(entries) /\ Usable \subseteq Slots
  BY <1>1, HealedUsable, HealKeeps DEF IInv, SameKeys, Usable
<1>3. turns \in [Slots -> Nat] /\ PoolOK
  BY DEF IInv
<1>4. \A j \in Usable : Turn(j) \in Int
  BY <1>2, <1>3 DEF Turn, PoolOK, Slots
<1>5. turns[i] = 0
  BY <1>1, <1>2, <1>3, <1>4 DEF TurnsOrdered
<1>6. raised[i] = 1 /\ \A j \in Usable \ {i} : raised[j] = turns[j]
  BY <1>2, <1>3, <1>5
<1>7. \A j \in Usable : turns[j] \in {0, 1}
  BY <1>2, <1>3 DEF TurnsOrdered, RoundRobinBalanced
<1> HIDE DEF raised
<1>8. CASE \A j \in Usable : raised[j] > 0
  <2>1. \A j \in Usable : turns'[j] = 0
    BY <1>2, <1>3, <1>6, <1>7, <1>8 DEF Bump, raised
  <2> QED BY <1>2, <2>1 DEF TurnsOrdered, RoundRobinBalanced
<1>9. CASE ~ \A j \in Usable : raised[j] > 0
  <2>1. turns' = raised
    BY <1>9 DEF Bump, raised
  <2>2. \E j \in Usable : turns'[j] = 0
    BY <1>6, <1>7, <1>9, <2>1
  <2>3. \A j \in Usable : turns'[j] <= 1
    BY <1>6, <1>7, <2>1
  <2>4. ASSUME NEW a \in Usable, NEW b \in Usable, turns'[a] > 0, turns'[b] = 0
        PROVE  Turn(b)' < Turn(a)'
    <3>1. b # i /\ turns[b] = 0
      BY <1>6, <2>1, <2>4
    <3>2. a = i \/ turns[a] > 0
      BY <1>6, <2>1, <2>4
    <3>3. a = i \/ Turn(b) < Turn(a)
      BY <3>1, <3>2 DEF TurnsOrdered
    <3> QED BY <1>1, <1>2, <1>3, <3>1, <3>3, CursorPast
  <2> QED BY <1>2, <2>2, <2>3, <2>4 DEF TurnsOrdered, RoundRobinBalanced
<1> QED BY <1>8, <1>9

\* Nothing the round robin looks at changes, or it starts to count anew.
LEMMA TurnsKept ==
  ASSUME IInv, TurnsOrdered, SameKeys, cursor' = cursor, KeepTurns
  PROVE  TurnsOrdered'
<1>1. CASE Usable' = Usable /\ turns' = turns
  BY <1>1 DEF TurnsOrdered, RoundRobinBalanced, Turn, SameKeys
<1>2. CASE turns' = NoTurns
  BY <1>2 DEF TurnsOrdered, RoundRobinBalanced, NoTurns, Usable, Slots
<1> QED BY <1>1, <1>2 DEF KeepTurns

\* acquire() serves the usable keys in turn: none gets a second turn of the
\* round robin before all had one (keypool.rs:101-117).
THEOREM RoundRobin == Spec => []RoundRobinBalanced
<1>1. Init => TurnsOrdered
  BY DEF Init, TurnsOrdered, RoundRobinBalanced, Usable
<1>2. IInv /\ TurnsOrdered /\ [Next]_vars => TurnsOrdered'
  <2> SUFFICES ASSUME IInv, TurnsOrdered, [Next]_vars PROVE TurnsOrdered'
    OBVIOUS
  <2>1. ASSUME NEW preferred, NEW i \in Slots, AcquireKey(preferred, i),
               turns' = IF preferred \in Usable THEN turns ELSE Bump(i)
        PROVE  TurnsOrdered'
    <3>1. CASE preferred \notin Usable
      BY <2>1, <3>1, Acquired, TurnTaken DEF IInv
    <3>2. CASE preferred \in Usable
      <4>1. i \in Usable /\ Heal(i) /\ cursor' = cursor /\ turns' = turns
        BY <2>1, <3>2, Acquired DEF IInv
      <4>2. Usable' = Usable /\ SameKeys
        BY <4>1, HealedUsable, HealKeeps DEF IInv, Usable
      <4> QED BY <4>1, <4>2, TurnsKept DEF KeepTurns
    <3> QED BY <3>1, <3>2
  <2>2. ASSUME NEW r \in Reqs, Acquire(r) PROVE TurnsOrdered'
    BY <2>1, <2>2 DEF Acquire
  <2>3. ASSUME NEW r \in Reqs, Rotate(r) PROVE TurnsOrdered'
    <3>1. CASE \E i \in Slots : AcquireKey(0, i) /\ turns' = Bump(i)
      <4>1. 0 \notin Usable
        BY DEF Usable, Slots
      <4> QED BY <2>1, <3>1, <4>1
    <3>2. CASE UNCHANGED <<poolVars, turns>>
      BY <3>2, TurnsKept DEF poolVars, KeepTurns, SameKeys, Usable, Slots
    <3> QED BY <2>3, <3>1, <3>2 DEF Rotate
  <2>4. ASSUME NEW r \in Reqs, Succeed(r) \/ Fail(r) PROVE TurnsOrdered'
    <3>1. call[r].index \in Nat
      BY DEF IInv, CallsOK, CallType
    <3>2. SameKeys /\ cursor' = cursor
      BY <2>4, <3>1, ReportHealthy, ReportUnhealthy DEF IInv, Succeed, Fail
    <3> QED BY <2>4, <3>2, TurnsKept DEF Succeed, Fail
  <2>5. ASSUME NEW r \in Reqs, Finish(r) \/ Retry(r) PROVE TurnsOrdered'
    BY <2>5, TurnsKept DEF Finish, Retry, poolVars, KeepTurns, SameKeys, Usable, Slots
  <2>6. CASE EditKeys
    BY <2>6 DEF EditKeys, TurnsOrdered, RoundRobinBalanced, NoTurns, Usable, Slots
  <2>7. CASE Wait
    BY <2>7, Ticked, TurnsKept DEF Wait, IInv
  <2>8. CASE UNCHANGED vars
    BY <2>8, TurnsKept DEF vars, poolVars, KeepTurns, SameKeys, Usable, Slots
  <2> QED BY <2>2, <2>3, <2>4, <2>5, <2>6, <2>7, <2>8 DEF Next
<1>3. TurnsOrdered => RoundRobinBalanced
  BY DEF TurnsOrdered
<1> QED BY <1>1, <1>2, <1>3, Invariance, PTL DEF Spec
=============================================================================
