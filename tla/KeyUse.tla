------------------------------- MODULE KeyUse -------------------------------
(***************************************************************************)
(* Requests that share the key pool while the key list is edited: each     *)
(* acquires a key, calls the upstream with a copy of it (a KeySlot), and   *)
(* reports the outcome to the slot's index, whatever that index holds by   *)
(* then.  Steps of chat.rs and messages.rs that touch the pool.            *)
(***************************************************************************)
EXTENDS KeyPool, Integers

CONSTANTS
  Reqs,        \* tasks that handle requests, one after another
  MaxRetries   \* MAX_RETRIES

ASSUME KeyUseAssumption == MaxRetries \in Nat \ {0}

VARIABLES
  call,   \* call[r]: the slot request r uses, and its attempt
  turns   \* history: round-robin turns of each slot since `Usable` changed

vars == <<poolVars, call, turns>>

\* `fresh`: the slot was acquired from the list now in the pool (history).
Idle == [at |-> "idle", index |-> 0, key |-> NoKey, attempt |-> 0, fresh |-> TRUE]
CallType == [at : {"idle", "calling", "failed", "rotating"}, index : Nat,
             key : Keys \cup {NoKey}, attempt : 0..MaxRetries, fresh : BOOLEAN]

Calling(i, n) == [at |-> "calling", index |-> i, key |-> entries[i].key,
                  attempt |-> n, fresh |-> TRUE]

\* The turns each slot has had, counted from the slot that had the fewest.
Bump(i) ==
  LET raised == [turns EXCEPT ![i] = @ + 1]
  IN IF \A j \in Usable : raised[j] > 0
       THEN [j \in DOMAIN raised |-> IF j \in Usable THEN raised[j] - 1 ELSE 0]
       ELSE raised

NoTurns == [j \in 1..Len(entries') |-> 0]
KeepTurns == turns' = IF Usable' = Usable THEN turns ELSE NoTurns

Init ==
  /\ PoolInit
  /\ call = [r \in Reqs |-> Idle]
  /\ turns = [j \in Slots |-> 0]

\* The first attempt prefers the key its conversation used last, if any.
Acquire(r) ==
  /\ call[r].at = "idle"
  /\ \E preferred \in Slots \cup {0}, i \in Slots :
       /\ AcquireKey(preferred, i)
       /\ call' = [call EXCEPT ![r] = Calling(i, 1)]
       /\ turns' = IF preferred \in Usable THEN turns ELSE Bump(i)

Succeed(r) ==
  /\ call[r].at = "calling"
  /\ MarkHealthy(call[r].index)
  /\ call' = [call EXCEPT ![r] = Idle]
  /\ KeepTurns

\* A 500, a 503 or a network error (reported as 502).  The last attempt, and
\* the Anthropic pipeline's only one, end the request.
Fail(r) ==
  /\ call[r].at = "calling"
  /\ \E status \in Statuses : MarkUnhealthy(call[r].index, status)
  /\ \/ /\ call[r].attempt < MaxRetries
        /\ call' = [call EXCEPT ![r].at = "failed"]
     \/ call' = [call EXCEPT ![r] = Idle]
  /\ KeepTurns

\* Any other answer, and a client that goes away, report nothing.
Finish(r) ==
  /\ call[r].at # "idle"
  /\ call' = [call EXCEPT ![r] = Idle]
  /\ UNCHANGED <<poolVars, turns>>

\* Seeded fault: attempts are not counted.
RetryUncounted(r) ==
  /\ call[r].at = "failed"
  /\ call' = [call EXCEPT ![r].at = IF Len(entries) > 1 THEN "rotating"
                                                        ELSE "calling"]
  /\ UNCHANGED <<poolVars, turns>>

\* The next attempt counts the pool's entries; rotation takes the lock again.
Retry(r) ==
  /\ call[r].at = "failed"
  /\ call' = [call EXCEPT ![r].at = IF Len(entries) > 1 THEN "rotating"
                                                        ELSE "calling",
                          ![r].attempt = @ + 1]
  /\ UNCHANGED <<poolVars, turns>>

\* It takes the next key, or keeps its slot if none is usable.
Rotate(r) ==
  /\ call[r].at = "rotating"
  /\ \/ \E i \in Slots :
          /\ AcquireKey(0, i)
          /\ call' = [call EXCEPT ![r] = Calling(i, call[r].attempt)]
          /\ turns' = Bump(i)
     \/ /\ NothingUsable
        /\ call' = [call EXCEPT ![r].at = "calling"]
        /\ UNCHANGED <<poolVars, turns>>

\* POST /api/keys and POST /api/config replace the whole list.
EditKeys ==
  /\ \E list \in Lists : Rebuild(list)
  /\ call' = [r \in Reqs |-> [call[r] EXCEPT !.fresh = call[r].at = "idle"]]
  /\ turns' = NoTurns

Wait == Tick /\ KeepTurns /\ UNCHANGED call

Next ==
  \/ \E r \in Reqs : Acquire(r) \/ Succeed(r) \/ Fail(r) \/ Finish(r)
                   \/ Retry(r) \/ Rotate(r)
  \/ EditKeys
  \/ Wait

Spec == Init /\ [][Next]_vars

\* Time passes.  Nothing else has to happen.
LiveSpec == Spec /\ WF_vars(Wait)

-----------------------------------------------------------------------------
TypeOK ==
  /\ entries \in Seq(EntryType)
  /\ cursor = 1 \/ cursor \in Slots
  /\ call \in [Reqs -> CallType]
  /\ turns \in [Slots -> Nat]

\* An entry that may not be handed out, and what state() shows as left of its
\* cooldown.
Resting(i) == i \in Slots /\ ~IsUsable(entries[i])
InCooldown(i) == Resting(i) /\ entries[i].key # NoKey
Remaining(i) == IF InCooldown(i) THEN entries[i].rest ELSE 0

\* What is left of a cooldown goes down with the clock and by nothing else
\* but a report to that index or a new list; acquire(), with or without a
\* preference, and reports to other indices leave it alone.  A success ends
\* the cooldown.  A failure starts it anew at the length of its status, which
\* may be less than was left: mark_unhealthy() overwrites the deadline, so
\* that a 500 after a 503 leaves ten seconds of a minute (keypool.rs:121-138).
CooldownHonoured ==
  [][\A i \in Slots : Remaining(i) > 0 =>
       IF Wait THEN Remaining(i)' = Remaining(i) - 1
       ELSE \/ EditKeys
            \/ \E r \in Reqs : call[r].index = i /\ Succeed(r) /\ Remaining(i)' = 0
            \/ \E r \in Reqs : /\ call[r].index = i /\ Fail(r)
                              /\ Remaining(i)' \in {CooldownForStatus(s) : s \in Statuses}
            \/ Remaining(i)' = Remaining(i)]_vars

\* A report changes the entry it names and no other: the others keep their
\* health, their cooldown and their turn.
ReportsAreLocal ==
  [][\A r \in Reqs : Succeed(r) \/ Fail(r) =>
       /\ cursor' = cursor
       /\ \A i \in Slots \ {call[r].index} : entries'[i] = entries[i]]_vars

\* Round robin: as long as the same keys stay usable, no key is handed out
\* twice by the round robin before every other usable key was handed out
\* once, whatever preferred keys, failures and reports happen in between.
RoundRobinBalanced == \A i \in Usable : turns[i] <= 1

\* A key in use by a request that started on the present list is in that list.
FreshSlotsValid ==
  \A r \in Reqs : call[r].at # "idle" /\ call[r].fresh =>
    /\ call[r].index \in Slots
    /\ entries[call[r].index].key = call[r].key
    /\ call[r].key # NoKey

\* Every cooldown ends: a key that rests becomes usable again, or its list
\* is replaced, although the requests that still hold its slot may fail again
\* and start the cooldown anew.
Positions == UNION {DOMAIN list : list \in Lists}
KeysRecover == \A i \in Positions : InCooldown(i) ~> ~InCooldown(i)
=============================================================================
