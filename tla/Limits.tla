------------------------------- MODULE Limits -------------------------------
(***************************************************************************)
(* Where the gate's limit comes from (usage.rs): what the provider reports *)
(* of the plan is fetched by the start, by a task every five minutes and   *)
(* by two endpoints, kept in three caches one after the other, and brought *)
(* to the gate by some of the callers.  Gate.tla has reconcile() itself;   *)
(* here the limit is one register.                                         *)
(***************************************************************************)
EXTENDS Naturals, FiniteSets

CONSTANTS
  Main,        \* the task that starts the server, later the refresh task
  Endpoints,   \* requests to /api/umans/concurrency and /api/umans/usage
  Posts,       \* POST /api/config with an override
  Plans,       \* reports: records with `limit` and `cap`
  None,        \* Option::None
  Overrides,   \* overrides that may be posted, 0 for none
  Ttl,         \* USAGE_CACHE_TTL, in steps of the clock
  MaxChanges,  \* bound: how often the plan changes
  MaxFails     \* bound: how many calls of the provider fail

DefaultLimit == 4
Callers == {Main} \cup Endpoints
Tasks == Callers \cup Posts

\* A report is a plan, its number and its age.
MaxAge == 2 * Ttl - 1
Reports == [plan : Plans, no : 1..(MaxChanges + 1), age : 0..MaxAge]
Effective == [cap : Nat \cup {None}, limit : Nat, overridden : BOOLEAN]

ASSUME LimitsAssumption ==
  /\ Main \notin Endpoints /\ Callers \cap Posts = {}
  /\ IsFiniteSet(Callers)
  /\ Plans \subseteq [limit : Nat \cup {None}, cap : Nat \cup {None}]
  /\ Plans # {} /\ None \notin Nat \cup Tasks \cup Reports \cup Effective
  /\ Overrides \subseteq Nat /\ Ttl \in Nat \ {0}
  /\ MaxChanges \in Nat /\ MaxFails \in Nat

VARIABLES
  plan,      \* what the provider would report now
  usage,     \* USAGE_CACHE
  conc,      \* CONCURRENCY_CACHE
  eff,       \* EFFECTIVE_CACHE
  override,  \* override_concurrency of the configuration
  limit,     \* what the gate was last sized to
  guard,     \* who holds FETCH_GUARD
  task,      \* task[t]: how far t is, with the report or the size in its hands
  timer,     \* how long the refresh task has slept
  fails,
  herd,      \* history: answers to callers that would have taken a cached one,
             \* since the clock last moved
  stored     \* history: the newest report a finished fetch has left in `conc`

caches == <<usage, conc, eff>>
vars == <<plan, caches, override, limit, guard, task, timer, fails, herd, stored>>

TaskType == [at : {"idle", "fetch", "wait", "asking", "store", "recompute", "got", "resize",
                   "sleep", "done"},
             fresh : BOOLEAN, conc : BOOLEAN, report : Reports \cup {None}, size : Nat,
             floor : 0..(MaxChanges + 1)]

\* Seeded fault: a report is young until it is older than the time to live.
YoungTooLong(c) == c # None /\ c.age <= Ttl

Young(c) == c # None /\ c.age < Ttl

Idle == [at |-> "idle", fresh |-> FALSE, conc |-> FALSE, report |-> None, size |-> 0, floor |-> 0]
FirstFetch == [Idle EXCEPT !.at = "fetch", !.fresh = TRUE, !.conc = TRUE]

Serving == ~task[Main].fresh
Quiet == \A t \in Tasks : task[t].at \in {"idle", "sleep", "done"}

Init ==
  /\ \E p \in Plans : plan = [plan |-> p, no |-> 1, age |-> 0]
  /\ usage = None /\ conc = None /\ eff = None
  /\ override \in Overrides
  /\ limit = DefaultLimit
  /\ guard = None
  /\ task = [t \in Tasks |-> IF t = Main THEN FirstFetch ELSE Idle]
  /\ timer = 0 /\ fails = 0 /\ herd = 0 /\ stored = 0

-----------------------------------------------------------------------------
(* The effective limit. *)

Lesser(a, b) == IF a < b THEN a ELSE b
Or(a, b) == IF a = None THEN b ELSE a

FromReport(p, o) ==
  IF o > 0
  THEN [cap |-> IF p.cap = None THEN o ELSE Lesser(o, p.cap), limit |-> o, overridden |-> TRUE]
  ELSE [cap |-> p.cap, limit |-> Or(p.limit, DefaultLimit), overridden |-> FALSE]

NoReport == [cap |-> None, limit |-> DefaultLimit, overridden |-> FALSE]

GetEffective(o) ==
  IF eff # None THEN eff
  ELSE IF conc # None THEN FromReport(conc.report.plan, o) ELSE NoReport

Size(e) == Or(e.cap, e.limit)

-----------------------------------------------------------------------------
(* fetch_concurrency() and, within it, fetch_usage(). *)

Goto(t, at) == task' = [task EXCEPT ![t].at = at]
End(t, at) == task' = [task EXCEPT ![t] = [Idle EXCEPT !.at = at]]

\* A task that ends its fetch without a report: an endpoint answers zeros, the
\* refresh task sleeps on.
Over(t) == IF t = Main THEN "sleep" ELSE "idle"

\* With one, only the refresh task goes on to the gate.
Known(t) == IF t = Main THEN "got" ELSE "idle"

Returned(t, r) ==
  IF task[t].conc /\ r # None
  THEN task' = [task EXCEPT ![t] = [Idle EXCEPT !.at = "store", !.report = r, !.floor = task[t].floor]]
  ELSE End(t, Over(t))

\* An endpoint is called, with or without ?fresh=1, for the usage or the
\* concurrency; the refresh task wakes up after USAGE_CACHE_TTL.
Call(t) ==
  /\ Serving /\ task[t].at = "idle"
  /\ \E fresh, wantsConc \in BOOLEAN :
       task' = [task EXCEPT ![t] =
         [Idle EXCEPT !.at = "fetch", !.fresh = fresh, !.conc = wantsConc, !.floor = stored]]
  /\ UNCHANGED <<plan, caches, override, limit, guard, timer, fails, herd, stored>>

Refresh ==
  /\ task[Main].at = "sleep" /\ timer = Ttl
  /\ task' = [task EXCEPT ![Main] =
       [Idle EXCEPT !.at = "fetch", !.conc = TRUE, !.floor = stored]]
  /\ timer' = 0
  /\ UNCHANGED <<plan, caches, override, limit, guard, fails, herd, stored>>

\* No usable key: nothing is fetched.
NoKey(t) ==
  /\ task[t].at = "fetch" /\ fails < MaxFails
  /\ Returned(t, None)
  /\ fails' = fails + 1
  /\ UNCHANGED <<plan, caches, override, limit, guard, timer, herd, stored>>

\* Before it awaits anything, a caller looks at the caches.
Fetch(t) ==
  /\ task[t].at = "fetch"
  /\ CASE task[t].fresh -> Goto(t, "wait")
       [] ~task[t].fresh /\ task[t].conc /\ Young(conc) -> End(t, Known(t))
       [] OTHER -> IF Young(usage) THEN Returned(t, usage) ELSE Goto(t, "wait")
  /\ UNCHANGED <<plan, caches, override, limit, guard, timer, fails, herd, stored>>

\* Seeded fault: the second look at the cache is missing.
LockBlind(t) ==
  /\ task[t].at = "wait" /\ guard = None
  /\ Goto(t, "asking") /\ guard' = t
  /\ UNCHANGED <<plan, caches, override, limit, timer, fails, herd, stored>>

\* With the guard it looks at the usage cache again.
Lock(t) ==
  /\ task[t].at = "wait" /\ guard = None
  /\ IF ~task[t].fresh /\ Young(usage)
     THEN Returned(t, usage) /\ UNCHANGED guard
     ELSE Goto(t, "asking") /\ guard' = t
  /\ UNCHANGED <<plan, caches, override, limit, timer, fails, herd, stored>>

\* Seeded fault: the first report stays in the cache.
KeepFirst(r) == usage' = IF usage = None THEN r ELSE usage

Keep(r) == usage' = r

Answered(t) ==
  /\ task[t].at = "asking"
  /\ Keep(plan)
  /\ Returned(t, plan)
  /\ guard' = None
  /\ herd' = IF task[t].fresh THEN herd ELSE herd + 1
  /\ UNCHANGED <<plan, conc, eff, override, limit, timer, fails, stored>>

\* No answer, an error or a body that is no report: the old one, however old.
Unanswered(t) ==
  /\ task[t].at = "asking" /\ fails < MaxFails
  /\ Returned(t, usage)
  /\ guard' = None /\ fails' = fails + 1
  /\ UNCHANGED <<plan, caches, override, limit, timer, herd, stored>>

StoreConcurrency(t) ==
  /\ task[t].at = "store"
  /\ conc' = [report |-> task[t].report, age |-> 0]
  /\ Goto(t, "recompute")
  /\ UNCHANGED <<plan, usage, eff, override, limit, guard, timer, fails, herd, stored>>

\* Seeded fault: the effective limit is computed once only.
RecomputeOnce(t) ==
  /\ task[t].at = "recompute"
  /\ eff' = IF eff = None THEN FromReport(task[t].report.plan, 0) ELSE eff
  /\ stored' = IF task[t].report.no > stored THEN task[t].report.no ELSE stored
  /\ End(t, Known(t))
  /\ UNCHANGED <<plan, usage, conc, override, limit, guard, timer, fails, herd>>

\* The override is given as 0, and an endpoint ends here.
RecomputeEffective(t) ==
  /\ task[t].at = "recompute"
  /\ eff' = FromReport(task[t].report.plan, 0)
  /\ stored' = IF task[t].report.no > stored THEN task[t].report.no ELSE stored
  /\ End(t, Known(t))
  /\ UNCHANGED <<plan, usage, conc, override, limit, guard, timer, fails, herd>>

\* The client of an endpoint hangs up at an await, and the guard is released.
Disconnect(t) ==
  /\ task[t].at \in {"wait", "asking"}
  /\ End(t, "idle")
  /\ guard' = IF guard = t THEN None ELSE guard
  /\ UNCHANGED <<plan, caches, override, limit, timer, fails, herd, stored>>

-----------------------------------------------------------------------------
(* The callers that size the gate. *)

PostOverride(p) ==
  /\ Serving /\ task[p].at = "idle"
  /\ override' \in Overrides
  /\ Goto(p, "got")
  /\ UNCHANGED <<plan, caches, limit, guard, timer, fails, herd, stored>>

\* The override is read from the snapshot a moment before the cache, which
\* matters only while there is no effective limit.
ReadEffective(t) ==
  /\ task[t].at = "got"
  /\ task' = [task EXCEPT ![t].at = "resize", ![t].size = Size(GetEffective(override))]
  /\ UNCHANGED <<plan, caches, override, limit, guard, timer, fails, herd, stored>>

Reconcile(t) ==
  /\ task[t].at = "resize"
  /\ limit' = task[t].size
  /\ End(t, IF t = Main THEN "sleep" ELSE "done")
  /\ UNCHANGED <<plan, caches, override, guard, timer, fails, herd, stored>>

-----------------------------------------------------------------------------
(* The world. *)

PlanChanges ==
  /\ plan.no <= MaxChanges
  /\ \E p \in Plans \ {plan.plan} : plan' = [plan EXCEPT !.plan = p, !.no = @ + 1]
  /\ UNCHANGED <<caches, override, limit, guard, task, timer, fails, herd, stored>>

Older(age, most) == IF age = most THEN most ELSE age + 1
Aged(r) == IF r = None THEN None ELSE [r EXCEPT !.age = Older(@, MaxAge)]

\* The clock moves by a fraction of five minutes, in which a fetch, with its
\* timeout of ten seconds, has long come to its end.
Tick ==
  /\ Quiet /\ timer < Ttl
  /\ usage' = Aged(usage)
  /\ conc' = IF conc = None THEN None
             ELSE [report |-> Aged(conc.report), age |-> Older(conc.age, Ttl)]
  /\ timer' = timer + 1
  /\ herd' = 0
  /\ UNCHANGED <<plan, eff, override, limit, guard, task, fails, stored>>

FetchStep(t) ==
  \/ NoKey(t) \/ Fetch(t) \/ Lock(t)
  \/ Answered(t) \/ Unanswered(t) \/ StoreConcurrency(t) \/ RecomputeEffective(t)

Next ==
  \/ \E t \in Callers : FetchStep(t)
  \/ \E t \in Endpoints : Call(t) \/ Disconnect(t)
  \/ \E t \in {Main} \cup Posts : ReadEffective(t) \/ Reconcile(t)
  \/ \E p \in Posts : PostOverride(p)
  \/ Refresh \/ PlanChanges \/ Tick

Spec == Init /\ [][Next]_vars

\* Tasks run, the provider answers or the client's timeout does, the guard is
\* handed over in turn, and the clock moves whatever requests do.
Fairness ==
  /\ \A t \in Callers : WF_vars(FetchStep(t)) /\ SF_vars(Lock(t))
  /\ \A t \in {Main} \cup Posts : WF_vars(ReadEffective(t) \/ Reconcile(t))
  /\ WF_vars(Refresh) /\ SF_vars(Tick)

LiveSpec == Spec /\ Fairness

-----------------------------------------------------------------------------
TypeOK ==
  /\ plan \in Reports /\ plan.age = 0
  /\ usage \in Reports \cup {None}
  /\ conc \in [report : Reports, age : 0..Ttl] \cup {None}
  /\ eff \in Effective \cup {None}
  /\ override \in Overrides /\ limit \in Nat
  /\ task \in [Tasks -> TaskType]
  /\ guard \in Callers \cup {None} /\ timer \in 0..Ttl
  /\ fails \in 0..MaxFails /\ stored \in 0..(MaxChanges + 1)

\* However many callers find the report expired at once, one answer serves
\* all of them but those that insist on a fresh one: who waited for the guard
\* looks at the cache again (usage.rs:84).
OneAnswerServesAll == herd <= 1

\* Fetches overlap and store what they got in any order, after the guard is
\* released (usage.rs:228).  Yet what a fetch stores is never older than what
\* another had stored before it began, not even when the provider fails.
NoReturnToOldReport ==
  \A t \in Callers : task[t].at \in {"store", "recompute"} => task[t].report.no >= task[t].floor

\* Two caches of five minutes in a row: while no fetch fails, what is served
\* as fresh concurrency is less than ten minutes old (usage.rs:181, :73).
TwiceTtlAtMost == fails = 0 /\ conc # None /\ Young(conc) => conc.report.age < MaxAge

\* The caches of the concurrency and of the effective limit are stored one
\* after the other by fetches that overlap; once the provider's plan and its
\* failures have settled, the gate's limit is what the plan says, whoever
\* fetched last, and whether it sized the gate or not (usage.rs:228, main.rs:237).
GateFollowsPlan == <>[](limit = Size(FromReport(plan.plan, 0)))

\* umans-proxy-rust-SPEC.md:1126: "`overrideConcurrency` -> recompute effective
\* concurrency + reconcile the Gate"; by :349 the limit is then no more than
\* the override.  The code caches the limit computed for no override.
OverrideTakesEffect ==
  Quiet /\ override > 0 /\ (\E p \in Posts : task[p].at = "done") => limit <= override

=============================================================================
