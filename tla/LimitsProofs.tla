---------------------------- MODULE LimitsProofs ----------------------------
(***************************************************************************)
(* Theorems about Limits, for every set of tasks and plans, every time to  *)
(* live and every number of changes and failures.                          *)
(***************************************************************************)
EXTENDS Limits, TLAPS

-----------------------------------------------------------------------------
(* The inductive invariant. *)

\* A task with a report in its hands: it is no older than what was stored
\* before the task began, no newer than what the usage cache holds, and young
\* while no fetch has failed.
HoldsReport(h) ==
  /\ h.report \in Reports /\ h.report.no >= h.floor
  /\ usage # None /\ h.report.no <= usage.no
  /\ fails = 0 => h.report.age < Ttl

TaskInv ==
  \A t \in Tasks :
    /\ task[t].floor <= stored
    /\ task[t].at \in {"store", "recompute"} => HoldsReport(task[t])

\* Reports get to the usage cache first, in the order of the provider's answers.
OrderInv ==
  /\ usage # None => usage.no <= plan.no
  /\ stored > 0 => usage # None /\ stored <= usage.no

\* Who asks the provider holds the guard.
GuardInv == \A t \in Tasks : task[t].at = "asking" <=> guard = t

\* Once a caller got an answer that did not insist on a fresh one, the report
\* is as young as can be until the clock moves, and only callers that insist ask.
HerdInv ==
  /\ herd \in {0, 1}
  /\ herd = 1 => /\ usage # None /\ usage.age = 0
                 /\ \A t \in Tasks : task[t].at = "asking" => task[t].fresh

\* The report in the concurrency cache was young when it got there.
AgeInv ==
  fails = 0 /\ conc # None /\ conc.age < Ttl => conc.report.age < conc.age + Ttl

IInv == TypeOK /\ TaskInv /\ OrderInv /\ GuardInv /\ HerdInv /\ AgeInv

-----------------------------------------------------------------------------
(* Helpers. *)

LEMMA Constants ==
  /\ Ttl \in Nat /\ Ttl > 0 /\ MaxAge \in Nat /\ MaxAge = 2 * Ttl - 1
  /\ MaxChanges \in Nat /\ MaxFails \in Nat
  /\ Main \in Callers /\ Endpoints \subseteq Callers /\ Callers \subseteq Tasks /\ Posts \subseteq Tasks
  /\ None \notin Tasks /\ None \notin Reports /\ None \notin Nat
BY LimitsAssumption DEF MaxAge, Callers, Tasks

LEMMA IdleType ==
  /\ Idle \in TaskType /\ Idle.at = "idle" /\ Idle.floor = 0
  /\ FirstFetch \in TaskType /\ FirstFetch.at = "fetch" /\ FirstFetch.floor = 0
<1>1. 0 \in 0..(MaxChanges + 1) /\ 0 \in Nat
  BY Constants
<1>2. Idle \in TaskType /\ Idle.at = "idle" /\ Idle.floor = 0
  BY <1>1 DEF Idle, TaskType
<1>. QED  BY <1>2 DEF FirstFetch, TaskType

\* The limit computed from a report, with or without an override.
LEMMA FromReportType ==
  ASSUME NEW p \in Plans, NEW o \in Nat
  PROVE  FromReport(p, o) \in Effective
<1>1. p \in [limit : Nat \cup {None}, cap : Nat \cup {None}]
  BY LimitsAssumption
<1>. QED  BY <1>1 DEF FromReport, Effective, Lesser, Or, DefaultLimit

LEMMA SizeType ==
  ASSUME TypeOK, NEW o \in Nat
  PROVE  Size(GetEffective(o)) \in Nat
<1>1. NoReport \in Effective
  BY DEF NoReport, Effective, DefaultLimit
<1>2. conc # None => FromReport(conc.report.plan, o) \in Effective
  BY FromReportType DEF TypeOK, Reports
<1>3. GetEffective(o) \in Effective
  BY <1>1, <1>2 DEF GetEffective, TypeOK
<1>. QED  BY <1>3 DEF Size, Or, Effective

TaskSet(t, h) == task' = [task EXCEPT ![t] = h]

\* A task moves on, and nothing it depends on changes but for the better.
LEMMA TaskSetKeeps ==
  ASSUME TypeOK, TaskInv, NEW t \in Tasks, NEW h \in TaskType, TaskSet(t, h),
         h.floor <= stored', h.at \in {"store", "recompute"} => HoldsReport(h)',
         stored \in Nat, stored' \in Nat, stored <= stored', fails' # 0 \/ fails' = fails,
         usage # None => usage' # None /\ usage.no <= usage'.no,
         usage \in Reports \cup {None}, usage' \in Reports \cup {None}
  PROVE  TaskInv' /\ task' \in [Tasks -> TaskType] /\ task'[t] = h
         /\ \A u \in Tasks : u # t => task'[u] = task[u]
<1>1. /\ task' \in [Tasks -> TaskType] /\ task'[t] = h
      /\ \A u \in Tasks : u # t => task'[u] = task[u]
  BY DEF TypeOK, TaskSet
<1>2. ASSUME NEW u \in Tasks
      PROVE  (/\ task[u].floor <= stored
              /\ task[u].at \in {"store", "recompute"} => HoldsReport(task[u]))'
  <2>1. CASE u = t
    BY <1>1, <2>1 DEF HoldsReport
  <2>2. CASE u # t
    <3>1. task[u] \in TaskType /\ task[u].floor \in Nat
      BY DEF TypeOK, TaskType
    <3>2. task'[u].floor <= stored'
      BY <1>1, <2>2, <3>1 DEF TaskInv
    <3>3. ASSUME task[u].at \in {"store", "recompute"} PROVE HoldsReport(task[u])'
      <4>1. HoldsReport(task[u])
        BY <3>3 DEF TaskInv
      <4>2. usage.no \in Nat /\ usage'.no \in Nat /\ task[u].report.no \in Nat
        BY <4>1 DEF HoldsReport, Reports
      <4>. QED  BY <1>1, <2>2, <4>1, <4>2 DEF HoldsReport
    <3>. QED  BY <1>1, <2>2, <3>2, <3>3 DEF HoldsReport
  <2>. QED  BY <2>1, <2>2
<1>. QED  BY <1>1, <1>2 DEF TaskInv

\* The ends of End(t, at).
EndAt == {"idle", "sleep", "got", "done"}
Ended(at) == [Idle EXCEPT !.at = at]

LEMMA EndedType ==
  ASSUME NEW at \in EndAt
  PROVE  Ended(at) \in TaskType /\ Ended(at).at = at /\ Ended(at).floor = 0
<1>1. Idle \in TaskType /\ Idle.floor = 0
  BY IdleType
<1>. QED  BY <1>1 DEF Ended, TaskType, EndAt

\* A task moves on with what it has.
LEMMA GotoType ==
  ASSUME TypeOK, NEW t \in Tasks, NEW at \in {"wait", "asking", "recompute", "got", "resize"}
  PROVE  /\ [task[t] EXCEPT !.at = at] \in TaskType
         /\ [task[t] EXCEPT !.at = at].at = at
         /\ [task[t] EXCEPT !.at = at].floor = task[t].floor
         /\ [task[t] EXCEPT !.at = at].report = task[t].report
         /\ [task[t] EXCEPT !.at = at].fresh = task[t].fresh
BY DEF TypeOK, TaskType

\* Returned(t, r) ends the fetch, or goes on to store the report.
LEMMA ReturnedSets ==
  ASSUME TypeOK, NEW t \in Callers, NEW r \in Reports \cup {None}, Returned(t, r)
  PROVE  \E h \in TaskType :
           /\ TaskSet(t, h)
           /\ h.at \in EndAt \cup {"store"}
           /\ h.floor = 0 \/ h.floor = task[t].floor
           /\ h.at = "store" => h.report = r /\ r \in Reports
<1>1. t \in Tasks /\ None \notin Reports
  BY Constants
<1>2. CASE task[t].conc /\ r # None
  <2> DEFINE h == [Idle EXCEPT !.at = "store", !.report = r, !.floor = task[t].floor]
  <2>1. TaskSet(t, h)
    BY <1>2 DEF Returned, TaskSet
  <2>2. task[t].floor \in 0..(MaxChanges + 1) /\ Idle \in TaskType
    BY <1>1, IdleType DEF TypeOK, TaskType
  <2>3. h \in TaskType /\ h.at = "store" /\ h.report = r /\ h.floor = task[t].floor
    BY <2>2 DEF TaskType
  <2>. HIDE DEF h
  <2>. QED  BY <1>2, <2>1, <2>3
<1>3. CASE ~(task[t].conc /\ r # None)
  <2>1. End(t, Over(t)) /\ Over(t) \in EndAt
    BY <1>3 DEF Returned, Over, EndAt
  <2>2. TaskSet(t, Ended(Over(t)))
    BY <2>1 DEF End, TaskSet, Ended
  <2>3. "store" \notin EndAt
    BY DEF EndAt
  <2>. QED  BY <2>1, <2>2, <2>3, EndedType
<1>. QED  BY <1>2, <1>3

LEMMA KnownEnd == \A t : Known(t) \in EndAt /\ Over(t) \in EndAt
BY DEF Known, Over, EndAt

\* What a task carries to the caches: the usage cache's report is not older
\* than anything stored.
LEMMA CacheCarries ==
  ASSUME TypeOK, TaskInv, OrderInv, NEW t \in Tasks, usage # None, fails = 0 => usage.age < Ttl,
         NEW h \in TaskType, h.floor = 0 \/ h.floor = task[t].floor, h.report = usage
  PROVE  HoldsReport(h)
<1>1. usage \in Reports /\ usage.no \in Nat /\ usage.no > 0
  BY DEF TypeOK, Reports
<1>2. task[t].floor <= stored /\ stored \in Nat /\ task[t].floor \in Nat
  BY Constants DEF TaskInv, TypeOK, TaskType
<1>3. usage.no >= stored
  BY <1>1, <1>2 DEF OrderInv
<1>. QED  BY <1>1, <1>2, <1>3 DEF HoldsReport

-----------------------------------------------------------------------------
(* Every action keeps the invariant. *)

\* Steps of a task that leave the caches, the plan and the world alone.
CachesKept == /\ UNCHANGED <<plan, usage, conc, eff, override, limit, stored, herd>>
              /\ fails' \in 0..MaxFails /\ (fails' # 0 \/ fails' = fails)

LEMMA QuietTask ==
  ASSUME IInv, CachesKept, NEW t \in Tasks, NEW h \in TaskType, TaskSet(t, h),
         h.floor <= stored, h.at \in {"store", "recompute"} => HoldsReport(h)',
         timer' \in 0..Ttl, guard' \in Callers \cup {None},
         h.at = "asking" <=> guard' = t,
         \A u \in Tasks : u # t => (guard' = u <=> guard = u),
         h.at = "asking" => h.fresh \/ herd = 0
  PROVE  IInv'
<1>1. /\ stored \in Nat /\ stored' = stored /\ usage' = usage
      /\ usage \in Reports \cup {None} /\ fails \in Nat /\ fails' \in Nat
  BY Constants DEF IInv, TypeOK, CachesKept
<1>2. usage # None => usage.no \in Nat
  BY <1>1, Constants DEF Reports
<1>3. /\ TaskInv' /\ task' \in [Tasks -> TaskType] /\ task'[t] = h
      /\ \A u \in Tasks : u # t => task'[u] = task[u]
  BY <1>1, <1>2, TaskSetKeeps DEF IInv, CachesKept
<1>4. TypeOK'
  BY <1>3 DEF IInv, TypeOK, CachesKept
<1>5. OrderInv'
  BY DEF IInv, OrderInv, CachesKept
<1>6. GuardInv'
  BY <1>3 DEF IInv, GuardInv
<1>7. HerdInv'
  BY <1>3 DEF IInv, HerdInv, CachesKept
<1>8. AgeInv'
  BY DEF IInv, AgeInv, CachesKept
<1>. QED  BY <1>3, <1>4, <1>5, <1>6, <1>7, <1>8 DEF IInv

LEMMA InitInv == Init => IInv
<1> SUFFICES ASSUME Init PROVE IInv
  OBVIOUS
<1>1. PICK p \in Plans : plan = [plan |-> p, no |-> 1, age |-> 0]
  BY DEF Init
<1>2. plan \in Reports /\ plan.age = 0
  BY <1>1, Constants DEF Reports
<1>3. /\ task \in [Tasks -> TaskType]
      /\ \A t \in Tasks : task[t].floor = 0 /\ task[t].at \in {"idle", "fetch"}
  BY IdleType DEF Init
<1>4. /\ usage = None /\ conc = None /\ eff = None /\ override \in Overrides /\ limit = DefaultLimit
      /\ guard = None /\ timer = 0 /\ fails = 0 /\ herd = 0 /\ stored = 0
  BY DEF Init
<1>5. TypeOK
  BY <1>2, <1>3, <1>4, Constants DEF TypeOK, DefaultLimit
<1>6. TaskInv
  BY <1>3, <1>4 DEF TaskInv
<1>7. GuardInv
  BY <1>3, <1>4, Constants DEF GuardInv
<1>8. OrderInv /\ HerdInv /\ AgeInv
  BY <1>4 DEF OrderInv, HerdInv, AgeInv
<1>. QED  BY <1>5, <1>6, <1>7, <1>8 DEF IInv

\* A step that ends a task, or moves it to a place where it holds neither a
\* report nor the guard.
LEMMA PlainTask ==
  ASSUME IInv, CachesKept, NEW t \in Tasks, NEW h \in TaskType, TaskSet(t, h),
         h.floor <= stored, h.at \notin {"store", "recompute", "asking"},
         timer' \in 0..Ttl, task[t].at = "asking" => guard' = None, 
         task[t].at # "asking" => guard' = guard
  PROVE  IInv'
<1>1. guard' \in Callers \cup {None} /\ guard' # t
  BY Constants DEF IInv, TypeOK, GuardInv
<1>2. \A u \in Tasks : u # t => (guard' = u <=> guard = u)
  BY Constants DEF IInv, GuardInv
<1>. QED  BY <1>1, <1>2, QuietTask

LEMMA EndTask ==
  ASSUME IInv, CachesKept, NEW t \in Tasks, NEW at \in EndAt, End(t, at),
         timer' \in 0..Ttl, task[t].at = "asking" => guard' = None,
         task[t].at # "asking" => guard' = guard
  PROVE  IInv'
<1>1. TaskSet(t, Ended(at))
  BY DEF End, TaskSet, Ended
<1>2. Ended(at) \in TaskType /\ Ended(at).at = at /\ Ended(at).floor = 0
  BY EndedType
<1>3. at \notin {"store", "recompute", "asking"} /\ 0 <= stored
  BY Constants DEF EndAt, IInv, TypeOK
<1>. QED  BY <1>1, <1>2, <1>3, PlainTask

LEMMA CallKeeps ==
  ASSUME IInv, NEW t \in Endpoints, Call(t)
  PROVE  IInv'
<1>1. t \in Tasks /\ task[t].at = "idle" /\ guard' = guard /\ timer' = timer /\ CachesKept
  BY Constants DEF Call, CachesKept, caches, IInv, TypeOK
<1>2. PICK fresh \in BOOLEAN, wantsConc \in BOOLEAN :
        TaskSet(t, [Idle EXCEPT !.at = "fetch", !.fresh = fresh, !.conc = wantsConc, !.floor = stored])
  BY DEF Call, TaskSet
<1> DEFINE h == [Idle EXCEPT !.at = "fetch", !.fresh = fresh, !.conc = wantsConc, !.floor = stored]
<1>3. h \in TaskType /\ h.at = "fetch" /\ h.floor = stored
  BY IdleType DEF TaskType, IInv, TypeOK
<1>4. stored <= stored /\ timer' \in 0..Ttl
  BY <1>1, Constants DEF IInv, TypeOK
<1>. HIDE DEF h
<1>5. TaskSet(t, h)
  BY <1>2 DEF h
<1>. QED  BY <1>1, <1>3, <1>4, <1>5, PlainTask

LEMMA RefreshKeeps ==
  ASSUME IInv, Refresh
  PROVE  IInv'
<1>1. Main \in Tasks /\ task[Main].at = "sleep" /\ guard' = guard /\ timer' = 0 /\ CachesKept
  BY Constants DEF Refresh, CachesKept, caches, IInv, TypeOK
<1> DEFINE h == [Idle EXCEPT !.at = "fetch", !.conc = TRUE, !.floor = stored]
<1>2. TaskSet(Main, h)
  BY DEF Refresh, TaskSet
<1>3. h \in TaskType /\ h.at = "fetch" /\ h.floor = stored
  BY IdleType DEF TaskType, IInv, TypeOK
<1>4. stored <= stored /\ timer' \in 0..Ttl
  BY <1>1, Constants DEF IInv, TypeOK
<1>. HIDE DEF h
<1>. QED  BY <1>1, <1>2, <1>3, <1>4, PlainTask

LEMMA NoKeyKeeps ==
  ASSUME IInv, NEW t \in Callers, NoKey(t)
  PROVE  IInv'
<1>1. /\ t \in Tasks /\ task[t].at = "fetch" /\ guard' = guard /\ timer' = timer
      /\ timer' \in 0..Ttl /\ Returned(t, None)
  BY Constants DEF NoKey, IInv, TypeOK
<1>2. fails' \in 0..MaxFails /\ fails' # 0
  BY Constants DEF NoKey, IInv, TypeOK
<1>3. CachesKept
  BY <1>2 DEF NoKey, CachesKept, caches
<1>4. End(t, Over(t)) /\ Over(t) \in EndAt
  BY <1>1, KnownEnd DEF Returned
<1>. QED  BY <1>1, <1>3, <1>4, EndTask

\* The report returned from the usage cache.
LEMMA FromCache ==
  ASSUME IInv, NEW t \in Callers, task[t].at # "asking", Young(usage),
         Returned(t, usage), CachesKept, guard' = guard, timer' = timer, fails' = fails
  PROVE  IInv'
<1>1. PICK h \in TaskType :
        /\ TaskSet(t, h)
        /\ h.at \in EndAt \cup {"store"}
        /\ h.floor = 0 \/ h.floor = task[t].floor
        /\ h.at = "store" => h.report = usage /\ usage \in Reports
  BY ReturnedSets DEF IInv, TypeOK
<1>2. t \in Tasks /\ h.floor <= stored /\ timer' \in 0..Ttl
  BY <1>1, Constants DEF IInv, TypeOK, TaskInv
<1>3. ASSUME h.at \in {"store", "recompute"} PROVE HoldsReport(h)'
  <2>1. h.at = "store"
    BY <1>1, <1>3 DEF EndAt
  <2>2. HoldsReport(h)
    BY <1>1, <1>2, <2>1, CacheCarries DEF IInv, Young
  <2>. QED  BY <2>2 DEF HoldsReport, CachesKept
<1>4. h.at # "asking" /\ guard' # t
  BY <1>1, <1>2 DEF EndAt, IInv, GuardInv
<1>5. guard' \in Callers \cup {None}
  BY DEF IInv, TypeOK
<1>. QED  BY <1>1, <1>2, <1>3, <1>4, <1>5, QuietTask

\* Waiting for the guard.
LEMMA GoWaiting ==
  ASSUME IInv, NEW t \in Callers, task[t].at # "asking", Goto(t, "wait"), CachesKept,
         guard' = guard, timer' = timer
  PROVE  IInv'
<1> DEFINE h == [task[t] EXCEPT !.at = "wait"]
<1>1. t \in Tasks /\ timer' \in 0..Ttl
  BY Constants DEF IInv, TypeOK
<1>2. h \in TaskType /\ h.at = "wait" /\ h.floor = task[t].floor
  BY <1>1, GotoType DEF IInv
<1>3. TaskSet(t, h)
  BY DEF Goto, TaskSet
<1>. HIDE DEF h
<1>4. h.floor <= stored
  BY <1>1, <1>2 DEF IInv, TaskInv
<1>. QED  BY <1>1, <1>2, <1>3, <1>4, PlainTask

LEMMA FetchKeeps ==
  ASSUME IInv, NEW t \in Callers, Fetch(t)
  PROVE  IInv'
<1>1. /\ t \in Tasks /\ task[t].at # "asking" /\ guard' = guard /\ timer' = timer
      /\ fails' = fails /\ timer' \in 0..Ttl /\ CachesKept
  BY Constants DEF Fetch, CachesKept, caches, IInv, TypeOK
<1>2. CASE task[t].fresh
  BY <1>1, <1>2, GoWaiting DEF Fetch
<1>3. CASE ~task[t].fresh /\ task[t].conc /\ Young(conc)
  <2>1. End(t, Known(t)) /\ Known(t) \in EndAt
    BY <1>3, KnownEnd DEF Fetch
  <2>. QED  BY <1>1, <2>1, EndTask
<1>4. CASE ~task[t].fresh /\ ~(task[t].conc /\ Young(conc))
  <2>1. IF Young(usage) THEN Returned(t, usage) ELSE Goto(t, "wait")
    BY <1>4 DEF Fetch
  <2>. QED  BY <1>1, <2>1, FromCache, GoWaiting
<1>. QED  BY <1>2, <1>3, <1>4

LEMMA LockKeeps ==
  ASSUME IInv, NEW t \in Callers, Lock(t)
  PROVE  IInv'
<1>1. /\ t \in Tasks /\ task[t].at = "wait" /\ guard = None /\ timer' = timer
      /\ fails' = fails /\ timer' \in 0..Ttl /\ CachesKept
  BY Constants DEF Lock, CachesKept, caches, IInv, TypeOK
<1>2. CASE ~task[t].fresh /\ Young(usage)
  BY <1>1, <1>2, FromCache DEF Lock
<1>3. CASE ~(~task[t].fresh /\ Young(usage))
  <2> DEFINE h == [task[t] EXCEPT !.at = "asking"]
  <2>1. Goto(t, "asking") /\ guard' = t
    BY <1>3 DEF Lock
  <2>2. h \in TaskType /\ h.at = "asking" /\ h.floor = task[t].floor /\ h.fresh = task[t].fresh
    BY <1>1, GotoType DEF IInv
  <2>3. TaskSet(t, h)
    BY <2>1 DEF Goto, TaskSet
  <2>. HIDE DEF h
  <2>4. h.floor <= stored
    BY <1>1, <2>2 DEF IInv, TaskInv
  <2>5. \A u \in Tasks : u # t => (guard' = u <=> guard = u)
    BY <1>1, <2>1, Constants
  <2>6. h.fresh \/ herd = 0
    <3>1. usage # None /\ usage.age = 0 => Young(usage)
      BY Constants DEF Young
    <3>. QED  BY <1>3, <2>2, <3>1 DEF IInv, HerdInv
  <2>. QED  BY <1>1, <2>1, <2>2, <2>3, <2>4, <2>5, <2>6, QuietTask
<1>. QED  BY <1>2, <1>3

\* The provider's answer is newer than everything.
LEMMA AnsweredKeeps ==
  ASSUME IInv, NEW t \in Callers, Answered(t)
  PROVE  IInv'
<1>1. /\ t \in Tasks /\ task[t].at = "asking" /\ usage' = plan /\ guard' = None
      /\ Returned(t, plan)
      /\ herd' = IF task[t].fresh THEN herd ELSE herd + 1
      /\ UNCHANGED <<plan, conc, eff, override, limit, timer, fails, stored>>
  BY Constants DEF Answered, Keep
<1>2. /\ plan \in Reports /\ plan # None /\ plan.age = 0 /\ plan.no \in Nat /\ plan.no > 0
      /\ usage \in Reports \cup {None} /\ stored \in Nat /\ fails \in Nat
  BY Constants DEF IInv, TypeOK, Reports
<1>3. /\ usage # None => usage.no <= plan.no
      /\ usage # None => usage.no \in Nat
      /\ stored <= plan.no
  BY <1>2, Constants DEF IInv, OrderInv, Reports
<1>4. PICK h \in TaskType :
        /\ TaskSet(t, h)
        /\ h.at \in EndAt \cup {"store"}
        /\ h.floor = 0 \/ h.floor = task[t].floor
        /\ h.at = "store" => h.report = plan /\ plan \in Reports
  BY <1>1, <1>2, ReturnedSets DEF IInv
<1>5. h.floor <= stored /\ h.floor \in Nat
  BY <1>1, <1>2, <1>4 DEF IInv, TaskInv, TaskType
<1>6. ASSUME h.at \in {"store", "recompute"} PROVE HoldsReport(h)'
  <2>1. h.report = plan
    BY <1>4, <1>6 DEF EndAt
  <2>2. plan.no >= h.floor /\ plan.age < Ttl
    BY <1>2, <1>3, <1>5, Constants
  <2>. QED  BY <1>1, <1>2, <2>1, <2>2 DEF HoldsReport
<1>7. /\ TaskInv' /\ task' \in [Tasks -> TaskType] /\ task'[t] = h
      /\ \A u \in Tasks : u # t => task'[u] = task[u]
  BY <1>1, <1>2, <1>3, <1>4, <1>5, <1>6, TaskSetKeeps DEF IInv
<1>8. TypeOK'
  BY <1>1, <1>2, <1>7 DEF IInv, TypeOK
<1>9. OrderInv'
  BY <1>1, <1>2, <1>3 DEF OrderInv
<1>10. \A u \in Tasks : ~(task'[u].at = "asking")
  BY <1>1, <1>4, <1>7 DEF IInv, GuardInv, EndAt
<1>11. GuardInv'
  BY <1>1, <1>10, Constants DEF GuardInv
<1>12. HerdInv'
  <2>1. herd' \in {0, 1}
    BY <1>1 DEF IInv, HerdInv
  <2>. QED  BY <1>1, <1>2, <1>10, <2>1 DEF HerdInv
<1>13. AgeInv'
  BY <1>1 DEF IInv, AgeInv
<1>. QED  BY <1>7, <1>8, <1>9, <1>11, <1>12, <1>13 DEF IInv

LEMMA UnansweredKeeps ==
  ASSUME IInv, NEW t \in Callers, Unanswered(t)
  PROVE  IInv'
<1>1. /\ t \in Tasks /\ task[t].at = "asking" /\ guard' = None /\ timer' = timer
      /\ timer' \in 0..Ttl /\ Returned(t, usage)
  BY Constants DEF Unanswered, IInv, TypeOK
<1>2. fails' \in 0..MaxFails /\ fails' # 0
  BY Constants DEF Unanswered, IInv, TypeOK
<1>3. CachesKept /\ usage' = usage
  BY <1>2 DEF Unanswered, CachesKept, caches
<1>4. PICK h \in TaskType :
        /\ TaskSet(t, h)
        /\ h.at \in EndAt \cup {"store"}
        /\ h.floor = 0 \/ h.floor = task[t].floor
        /\ h.at = "store" => h.report = usage /\ usage \in Reports
  BY <1>1, ReturnedSets DEF IInv, TypeOK
<1>5. h.floor <= stored
  BY <1>1, <1>4, Constants DEF IInv, TypeOK, TaskInv
<1>6. ASSUME h.at \in {"store", "recompute"} PROVE HoldsReport(h)'
  <2>1. h.report = usage /\ usage \in Reports /\ usage # None
    BY <1>4, <1>6, Constants DEF EndAt
  <2>2. /\ task[t].floor <= stored /\ stored \in Nat /\ task[t].floor \in Nat
        /\ usage.no \in Nat /\ usage.no > 0
    BY <1>1, <2>1, Constants DEF IInv, TaskInv, TypeOK, TaskType, Reports
  <2>3. usage.no >= h.floor /\ usage.no <= usage.no
    BY <1>4, <2>2 DEF IInv, OrderInv
  <2>. QED  BY <1>2, <1>3, <2>1, <2>3 DEF HoldsReport
<1>7. h.at # "asking" /\ guard' # t
  BY <1>1, <1>4, Constants DEF EndAt
<1>8. \A u \in Tasks : u # t => (guard' = u <=> guard = u)
  BY <1>1, Constants DEF IInv, GuardInv
<1>. QED  BY <1>1, <1>3, <1>4, <1>5, <1>6, <1>7, <1>8, QuietTask

LEMMA DisconnectKeeps ==
  ASSUME IInv, NEW t \in Endpoints, Disconnect(t)
  PROVE  IInv'
<1>1. /\ t \in Tasks /\ End(t, "idle") /\ "idle" \in EndAt /\ timer' = timer
      /\ timer' \in 0..Ttl /\ CachesKept
      /\ guard' = IF guard = t THEN None ELSE guard
  BY Constants DEF Disconnect, CachesKept, caches, IInv, TypeOK, EndAt
<1>2. /\ task[t].at = "asking" => guard' = None
      /\ task[t].at # "asking" => guard' = guard
  BY <1>1 DEF IInv, GuardInv
<1>. QED  BY <1>1, <1>2, EndTask

LEMMA StoreConcurrencyKeeps ==
  ASSUME IInv, NEW t \in Callers, StoreConcurrency(t)
  PROVE  IInv'
<1>1. /\ t \in Tasks /\ task[t].at = "store" /\ HoldsReport(task[t])
      /\ conc' = [report |-> task[t].report, age |-> 0]
      /\ UNCHANGED <<plan, usage, eff, override, limit, guard, timer, fails, herd, stored>>
  BY Constants DEF StoreConcurrency, IInv, TaskInv
<1>2. TaskSet(t, [task[t] EXCEPT !.at = "recompute"])
  BY DEF StoreConcurrency, Goto, TaskSet
<1>3. PICK h \in TaskType :
        /\ TaskSet(t, h) /\ h.at = "recompute" /\ h.floor = task[t].floor
        /\ h.report = task[t].report
  BY <1>1, <1>2, GotoType DEF IInv
<1>4. /\ h.floor <= stored /\ HoldsReport(h)
      /\ stored \in Nat /\ usage \in Reports \cup {None} /\ usage # None /\ usage.no \in Nat
  BY <1>1, <1>3, Constants DEF IInv, TaskInv, HoldsReport, TypeOK, Reports
<1>5. HoldsReport(h)'
  BY <1>1, <1>4 DEF HoldsReport
<1>6. /\ TaskInv' /\ task' \in [Tasks -> TaskType] /\ task'[t] = h
      /\ \A u \in Tasks : u # t => task'[u] = task[u]
  BY <1>1, <1>3, <1>4, <1>5, TaskSetKeeps DEF IInv
<1>7. /\ conc' \in [report : Reports, age : 0..Ttl] /\ conc'.age = 0
      /\ conc'.report = task[t].report
  BY <1>1, Constants DEF HoldsReport
<1>8. TypeOK'
  BY <1>1, <1>6, <1>7 DEF IInv, TypeOK
<1>9. OrderInv'
  BY <1>1 DEF IInv, OrderInv
<1>10. GuardInv' /\ HerdInv'
  BY <1>1, <1>3, <1>6 DEF IInv, GuardInv, HerdInv
<1>11. AgeInv'
  BY <1>1, <1>7, Constants DEF AgeInv, HoldsReport
<1>. QED  BY <1>6, <1>8, <1>9, <1>10, <1>11 DEF IInv

LEMMA RecomputeEffectiveKeeps ==
  ASSUME IInv, NEW t \in Callers, RecomputeEffective(t)
  PROVE  IInv'
<1> DEFINE h == Ended(Known(t))
<1>1. /\ t \in Tasks /\ task[t].at = "recompute" /\ HoldsReport(task[t])
      /\ eff' = FromReport(task[t].report.plan, 0)
      /\ stored' = IF task[t].report.no > stored THEN task[t].report.no ELSE stored
      /\ UNCHANGED <<plan, usage, conc, override, limit, guard, timer, fails, herd>>
  BY Constants DEF RecomputeEffective, IInv, TaskInv
<1>2. TaskSet(t, h) /\ h \in TaskType /\ h.at = Known(t) /\ h.floor = 0 /\ Known(t) \in EndAt
  BY EndedType, KnownEnd DEF RecomputeEffective, End, TaskSet, Ended
<1>. HIDE DEF h
<1>3. /\ stored \in Nat /\ usage \in Reports \cup {None} /\ usage # None /\ usage.no \in Nat
      /\ task[t].report \in Reports /\ task[t].report.no \in 1..(MaxChanges + 1)
      /\ task[t].report.plan \in Plans /\ task[t].report.no <= usage.no
  BY <1>1, Constants DEF IInv, HoldsReport, TypeOK, Reports
<1>4. /\ stored' \in 0..(MaxChanges + 1) /\ stored <= stored' /\ stored' \in Nat
      /\ stored' <= usage.no
  BY <1>1, <1>3, Constants DEF IInv, TypeOK, OrderInv
<1>5. h.floor <= stored' /\ h.at \notin {"store", "recompute", "asking"}
  BY <1>2, <1>4 DEF EndAt
<1>6. /\ TaskInv' /\ task' \in [Tasks -> TaskType] /\ task'[t] = h
      /\ \A u \in Tasks : u # t => task'[u] = task[u]
  BY <1>1, <1>2, <1>3, <1>4, <1>5, TaskSetKeeps DEF IInv
<1>7. eff' \in Effective
  BY <1>1, <1>3, FromReportType
<1>8. TypeOK'
  BY <1>1, <1>4, <1>6, <1>7 DEF IInv, TypeOK
<1>9. OrderInv'
  BY <1>1, <1>3, <1>4 DEF IInv, OrderInv
<1>10. GuardInv' /\ HerdInv'
  BY <1>1, <1>5, <1>6 DEF IInv, GuardInv, HerdInv
<1>11. AgeInv'
  BY <1>1 DEF IInv, AgeInv
<1>. QED  BY <1>6, <1>8, <1>9, <1>10, <1>11 DEF IInv

\* Posts, and the refresh task at the gate, change only what TypeOK is about.
LEMMA SizerKeeps ==
  ASSUME IInv, NEW t \in Tasks, NEW h \in TaskType, TaskSet(t, h),
         h.floor <= stored, h.at \notin {"store", "recompute", "asking"}, task[t].at # "asking",
         override' \in Overrides, limit' \in Nat,
         UNCHANGED <<plan, usage, conc, eff, guard, timer, fails, herd, stored>>
  PROVE  IInv'
<1>1. /\ stored \in Nat /\ usage \in Reports \cup {None}
      /\ usage # None => usage.no \in Nat
  BY Constants DEF IInv, TypeOK, Reports
<1>2. /\ TaskInv' /\ task' \in [Tasks -> TaskType] /\ task'[t] = h
      /\ \A u \in Tasks : u # t => task'[u] = task[u]
  BY <1>1, TaskSetKeeps DEF IInv
<1>3. TypeOK'
  BY <1>2 DEF IInv, TypeOK
<1>4. OrderInv' /\ AgeInv'
  BY DEF IInv, OrderInv, AgeInv
<1>5. GuardInv' /\ HerdInv'
  BY <1>2 DEF IInv, GuardInv, HerdInv
<1>. QED  BY <1>2, <1>3, <1>4, <1>5 DEF IInv

LEMMA PostOverrideKeeps ==
  ASSUME IInv, NEW t \in Posts, PostOverride(t)
  PROVE  IInv'
<1> DEFINE h == [task[t] EXCEPT !.at = "got"]
<1>1. /\ t \in Tasks /\ task[t].at = "idle" /\ override' \in Overrides
      /\ UNCHANGED <<plan, usage, conc, eff, limit, guard, timer, fails, herd, stored>>
  BY Constants DEF PostOverride, caches
<1>2. TaskSet(t, h)
  BY DEF PostOverride, Goto, TaskSet
<1>3. h \in TaskType /\ h.at = "got" /\ h.floor = task[t].floor
  BY <1>1, GotoType DEF IInv
<1>. HIDE DEF h
<1>4. h.floor <= stored /\ limit' \in Nat
  BY <1>1, <1>3 DEF IInv, TaskInv, TypeOK
<1>. QED  BY <1>1, <1>2, <1>3, <1>4, SizerKeeps

LEMMA ReadEffectiveKeeps ==
  ASSUME IInv, NEW t \in {Main} \cup Posts, ReadEffective(t)
  PROVE  IInv'
<1> DEFINE size == Size(GetEffective(override))
           h == [task[t] EXCEPT !.at = "resize", !.size = size]
<1>1. /\ t \in Tasks /\ task[t].at = "got" /\ task[t] \in TaskType
      /\ UNCHANGED <<plan, usage, conc, eff, override, limit, guard, timer, fails, herd, stored>>
  BY Constants DEF ReadEffective, caches, IInv, TypeOK
<1>2. TaskSet(t, h)
  BY DEF ReadEffective, TaskSet
<1>3. size \in Nat
  BY SizeType, LimitsAssumption DEF IInv, TypeOK
<1>. HIDE DEF size
<1>4. h \in TaskType /\ h.at = "resize" /\ h.floor = task[t].floor
  BY <1>1, <1>3 DEF TaskType
<1>. HIDE DEF h
<1>5. h.floor <= stored /\ limit' \in Nat /\ override' \in Overrides
  BY <1>1, <1>4 DEF IInv, TaskInv, TypeOK
<1>. QED  BY <1>1, <1>2, <1>4, <1>5, SizerKeeps

LEMMA ReconcileKeeps ==
  ASSUME IInv, NEW t \in {Main} \cup Posts, Reconcile(t)
  PROVE  IInv'
<1> DEFINE at == IF t = Main THEN "sleep" ELSE "done"
           h == Ended(at)
<1>1. /\ t \in Tasks /\ task[t].at = "resize" /\ task[t] \in TaskType
      /\ limit' = task[t].size
      /\ UNCHANGED <<plan, usage, conc, eff, override, guard, timer, fails, herd, stored>>
  BY Constants DEF Reconcile, caches, IInv, TypeOK
<1>2. TaskSet(t, h) /\ at \in EndAt
  BY DEF Reconcile, End, TaskSet, Ended, EndAt
<1>3. h \in TaskType /\ h.at \in EndAt /\ h.floor = 0
  BY <1>2, EndedType
<1>. HIDE DEF h
<1>4. /\ h.floor <= stored /\ limit' \in Nat /\ override' \in Overrides
      /\ h.at \notin {"store", "recompute", "asking"}
  BY <1>1, <1>3, Constants DEF IInv, TypeOK, TaskType, EndAt
<1>. QED  BY <1>1, <1>2, <1>3, <1>4, SizerKeeps

\* The provider numbers its reports.
LEMMA PlanChangesKeeps ==
  ASSUME IInv, PlanChanges
  PROVE  IInv'
<1>1. PICK p \in Plans : plan' = [plan EXCEPT !.plan = p, !.no = @ + 1]
  BY DEF PlanChanges
<1>2. /\ plan.no <= MaxChanges
      /\ UNCHANGED <<usage, conc, eff, override, limit, guard, task, timer, fails, herd, stored>>
  BY DEF PlanChanges, caches
<1>3. plan' \in Reports /\ plan'.age = 0 /\ plan'.no = plan.no + 1 /\ plan.no \in Nat
  <2>1. plan \in Reports /\ plan.age = 0
    BY DEF IInv, TypeOK
  <2>2. plan.no + 1 \in 1..(MaxChanges + 1) /\ plan.no \in Nat
    BY <1>2, <2>1, Constants DEF Reports
  <2>. QED  BY <1>1, <2>1, <2>2 DEF Reports
<1>4. TypeOK'
  BY <1>2, <1>3 DEF IInv, TypeOK
<1>5. TaskInv' /\ GuardInv' /\ HerdInv' /\ AgeInv'
  BY <1>2 DEF IInv, TaskInv, HoldsReport, GuardInv, HerdInv, AgeInv
<1>6. OrderInv'
  <2>1. usage # None => usage.no \in Nat
    BY DEF IInv, TypeOK, Reports
  <2>. QED  BY <1>2, <1>3, <2>1 DEF IInv, OrderInv
<1>. QED  BY <1>4, <1>5, <1>6 DEF IInv

LEMMA AgedType ==
  ASSUME NEW r \in Reports
  PROVE  /\ Aged(r) \in Reports /\ Aged(r) # None /\ Aged(r).no = r.no /\ Aged(r).plan = r.plan
         /\ r.age < MaxAge => Aged(r).age = r.age + 1
         /\ Aged(r).age <= r.age + 1
<1>1. r # None /\ r.age \in 0..MaxAge /\ MaxAge \in Nat
  BY Constants DEF Reports
<1>2. Older(r.age, MaxAge) \in 0..MaxAge /\ Older(r.age, MaxAge) <= r.age + 1
  BY <1>1 DEF Older
<1>3. r.age < MaxAge => Older(r.age, MaxAge) = r.age + 1
  BY <1>1 DEF Older
<1>4. Aged(r) = [r EXCEPT !.age = Older(r.age, MaxAge)]
  BY <1>1 DEF Aged
<1>5. Aged(r) \in Reports /\ Aged(r).no = r.no /\ Aged(r).plan = r.plan
        /\ Aged(r).age = Older(r.age, MaxAge)
  BY <1>2, <1>4 DEF Reports
<1>. QED  BY <1>2, <1>3, <1>5, Constants

\* The clock moves only while no task fetches, so that nothing held grows old.
LEMMA TickKeeps ==
  ASSUME IInv, Tick
  PROVE  IInv'
<1>1. /\ Quiet /\ timer < Ttl /\ timer' = timer + 1 /\ herd' = 0
      /\ usage' = Aged(usage)
      /\ conc' = IF conc = None THEN None
                 ELSE [report |-> Aged(conc.report), age |-> Older(conc.age, Ttl)]
      /\ UNCHANGED <<plan, eff, override, limit, guard, task, fails, stored>>
  BY DEF Tick
<1>2. /\ usage' \in Reports \cup {None} /\ (usage' = None <=> usage = None)
      /\ usage # None => usage'.no = usage.no
  BY <1>1, AgedType, Constants DEF IInv, TypeOK, Aged
<1>3. conc # None =>
        /\ conc \in [report : Reports, age : 0..Ttl] /\ conc.report \in Reports
        /\ conc.age \in 0..Ttl
  BY DEF IInv, TypeOK
<1>4. conc # None => Older(conc.age, Ttl) \in 0..Ttl
  BY <1>3, Constants DEF Older
<1>5. conc' \in [report : Reports, age : 0..Ttl] \cup {None}
  BY <1>1, <1>3, <1>4, AgedType
<1>6. TypeOK'
  <2>1. timer' \in 0..Ttl
    BY <1>1, Constants DEF IInv, TypeOK
  <2>. QED  BY <1>1, <1>2, <1>5, <2>1 DEF IInv, TypeOK
<1>7. \A t \in Tasks : task[t].at \notin {"store", "recompute"}
  BY <1>1 DEF Quiet
<1>8. TaskInv' /\ GuardInv' /\ HerdInv'
  BY <1>1, <1>7 DEF IInv, TaskInv, GuardInv, HerdInv
<1>9. OrderInv'
  BY <1>1, <1>2 DEF IInv, OrderInv
<1>10. AgeInv'
  <2> SUFFICES ASSUME fails' = 0, conc' # None, conc'.age < Ttl
               PROVE  conc'.report.age < conc'.age + Ttl
    BY DEF AgeInv
  <2>1. conc # None /\ conc'.age = Older(conc.age, Ttl) /\ conc'.report = Aged(conc.report)
    BY <1>1
  <2>2. conc.age < Ttl /\ conc'.age = conc.age + 1
    BY <1>3, <2>1, Constants DEF Older
  <2>3. conc.report.age < conc.age + Ttl
    BY <1>1, <2>1, <2>2 DEF IInv, AgeInv
  <2>4. conc.report.age \in Nat /\ conc'.report.age \in Nat /\ conc'.report.age <= conc.report.age + 1
    BY <1>3, <2>1, AgedType, Constants DEF Reports
  <2>. QED  BY <1>3, <2>1, <2>2, <2>3, <2>4, Constants
<1>. QED  BY <1>6, <1>8, <1>9, <1>10 DEF IInv

LEMMA Step == IInv /\ [Next]_vars => IInv'
<1> SUFFICES ASSUME IInv, [Next]_vars PROVE IInv'
  OBVIOUS
<1>1. ASSUME NEW t \in Callers, FetchStep(t) PROVE IInv'
  BY <1>1, NoKeyKeeps, FetchKeeps, LockKeeps, AnsweredKeeps, UnansweredKeeps,
     StoreConcurrencyKeeps, RecomputeEffectiveKeeps DEF FetchStep
<1>2. ASSUME NEW t \in Endpoints, Call(t) \/ Disconnect(t) PROVE IInv'
  BY <1>2, CallKeeps, DisconnectKeeps
<1>3. ASSUME NEW t \in {Main} \cup Posts, ReadEffective(t) \/ Reconcile(t) PROVE IInv'
  BY <1>3, ReadEffectiveKeeps, ReconcileKeeps
<1>4. CASE UNCHANGED vars
  BY <1>4 DEF vars, caches, IInv, TypeOK, TaskInv, HoldsReport, OrderInv, GuardInv, HerdInv, AgeInv
<1>. QED  BY <1>1, <1>2, <1>3, <1>4, PostOverrideKeeps, RefreshKeeps, PlanChangesKeeps,
             TickKeeps DEF Next

LEMMA Invariant == Spec => []IInv
BY InitInv, Step, PTL DEF Spec

-----------------------------------------------------------------------------
(* The theorems. *)

\* Plan, caches, tasks, clock and the gate's limit keep their types; the limit
\* is a number whatever the provider reports and whoever computes it.
THEOREM TypeCorrect == Spec => []TypeOK
BY Invariant, PTL DEF IInv

\* Between two steps of the clock one answer serves all callers that take a
\* cached one, however many found the cache expired.
THEOREM OneAnswer == Spec => []OneAnswerServesAll
<1>1. IInv => OneAnswerServesAll
  BY DEF IInv, HerdInv, OneAnswerServesAll
<1>. QED  BY <1>1, Invariant, PTL

\* A fetch stores nothing older than what had been stored when it began.
THEOREM NoneOlder == Spec => []NoReturnToOldReport
<1>1. IInv => NoReturnToOldReport
  BY Constants DEF IInv, TaskInv, HoldsReport, NoReturnToOldReport
<1>. QED  BY <1>1, Invariant, PTL

\* Without failures, what is served as fresh is less than two times to live old.
THEOREM TwiceTtl == Spec => []TwiceTtlAtMost
<1>1. IInv => TwiceTtlAtMost
  <2> SUFFICES ASSUME IInv, fails = 0, conc # None, Young(conc)
               PROVE  conc.report.age < MaxAge
    BY DEF TwiceTtlAtMost
  <2>1. conc.age < Ttl /\ conc.report.age < conc.age + Ttl
    BY DEF IInv, AgeInv, Young
  <2>2. conc.age \in Nat /\ conc.report.age \in Nat
    BY Constants DEF IInv, TypeOK, Reports
  <2>. QED  BY <2>1, <2>2, Constants
<1>. QED  BY <1>1, Invariant, PTL
=============================================================================
