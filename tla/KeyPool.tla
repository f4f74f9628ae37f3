------------------------------ MODULE KeyPool ------------------------------
(***************************************************************************)
(* The key pool (keypool.rs).  Every operation runs under one mutex, so    *)
(* each is one step.  Time passes in units of ten seconds: `rest` is what  *)
(* is left of an entry's cooldown, 0 when last_error is None or long ago.  *)
(* Positions count from 1, and 0 stands for None.                          *)
(***************************************************************************)
EXTENDS Naturals, Sequences

CONSTANTS
  Keys,   \* API keys
  NoKey,  \* the empty key
  Lists   \* the key lists the configuration may hold

ASSUME KeyPoolAssumption ==
  /\ NoKey \notin Keys
  /\ Lists \subseteq Seq(Keys \cup {NoKey})

VARIABLES entries, cursor

poolVars == <<entries, cursor>>

Statuses == {500, 502, 503}

CooldownForStatus(status) ==
  CASE status >= 503 -> 6 [] status = 502 -> 3 [] OTHER -> 1

EntryType == [key : Keys \cup {NoKey}, healthy : BOOLEAN, rest : 0..6]

FromConfig(key) == [key |-> key, healthy |-> TRUE, rest |-> 0]
FromList(list) == [i \in 1..Len(list) |-> FromConfig(list[i])]

Slots == 1..Len(entries)

PastCooldown(e) == e.rest = 0
\* Seeded fault: the placeholder without a key is handed out.
IsUsableEvenEmpty(e) == e.healthy \/ PastCooldown(e)

IsUsable(e) == e.key # NoKey /\ (e.healthy \/ PastCooldown(e))
Usable == {i \in Slots : IsUsable(entries[i])}

PoolInit == \E list \in Lists : entries = FromList(list) /\ cursor = 1

\* How far the round robin has to go from the cursor to reach slot i.
Turn(i) == IF i >= cursor THEN i - cursor ELSE i + Len(entries) - cursor

Next1(i) == IF i = Len(entries) THEN 1 ELSE i + 1

\* healthy = true, last_error = None: the entry is as good as new.
Heal(i) ==
  entries' = [entries EXCEPT ![i] = FromConfig(@.key)]

\* Seeded fault: the cursor moves one slot on, not past the chosen one.
TakeTurnByOne(i) ==
  /\ i \in Usable
  /\ \A j \in Usable : Turn(i) <= Turn(j)
  /\ Heal(i)
  /\ cursor' = Next1(cursor)

\* The round robin hands out the first usable entry and moves past it.
TakeTurn(i) ==
  /\ i \in Usable
  /\ \A j \in Usable : Turn(i) <= Turn(j)
  /\ Heal(i)
  /\ cursor' = Next1(i)

\* The preferred entry does not move the cursor.
TakePreferred(i) ==
  /\ i \in Usable
  /\ Heal(i)
  /\ UNCHANGED cursor

\* Seeded fault: a preferred key is handed out while it rests.
AcquireResting(preferred, i) ==
  IF preferred \in Slots THEN i = preferred /\ Heal(i) /\ UNCHANGED cursor
                         ELSE TakeTurn(i)

\* acquire(preferred) returns slot i ...
AcquireKey(preferred, i) ==
  IF preferred \in Usable THEN i = preferred /\ TakePreferred(i)
                          ELSE TakeTurn(i)

\* ... or None.
NothingUsable == Usable = {}

MarkUnhealthy(i, status) ==
  /\ entries' = IF i \in Slots
                  THEN [entries EXCEPT ![i] = [@ EXCEPT
                         !.healthy = FALSE, !.rest = CooldownForStatus(status)]]
                  ELSE entries
  /\ UNCHANGED cursor

MarkHealthy(i) ==
  /\ IF i \in Slots THEN Heal(i) ELSE UNCHANGED entries
  /\ UNCHANGED cursor

Rebuild(list) == entries' = FromList(list) /\ cursor' = 1

\* Ten seconds pass.
Tick ==
  /\ \E i \in Slots : entries[i].rest > 0
  /\ entries' = [i \in Slots |-> [entries[i] EXCEPT
                   !.rest = IF @ > 0 THEN @ - 1 ELSE 0]]
  /\ UNCHANGED cursor
=============================================================================
