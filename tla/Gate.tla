-------------------------------- MODULE Gate --------------------------------
(***************************************************************************)
(* The concurrency gate (gate.rs): acquire(), the drop of its guard, and   *)
(* reconcile().  Each atomic operation is a step of its own, and the tasks *)
(* interleave at every one of them.  A member of Reqs is one proxied       *)
(* request, a member of Recs one call of reconcile().                      *)
(***************************************************************************)
EXTENDS Semaphore, Integers, FiniteSets

CONSTANTS
  Reqs,           \* proxied requests
  Impatient,      \* those whose client may disconnect while they wait
  Workers,        \* worker threads of the runtime
  MaxQueueSize,   \* MAX_QUEUE_SIZE
  WordSize,       \* 2^64: the counters are unsigned and wrap
  MaxBumps,       \* bound: calls of bump_throttled()
  Recs,           \* calls of reconcile()
  Limits,         \* limits the upstream reports
  NoLimit,        \* None
  DefaultLimit    \* DEFAULT_CONCURRENCY_LIMIT

ASSUME GateAssumption ==
  /\ IsFiniteSet(Reqs)
  /\ Impatient \subseteq Reqs
  /\ Workers \in Nat \ {0}
  /\ MaxQueueSize \in Nat \ {0}
  /\ MaxBumps \in Nat
  /\ Limits \subseteq Nat
  /\ DefaultLimit \in Nat
  /\ NoLimit \notin Nat
  /\ WordSize \in Nat
  /\ WordSize >= MaxQueueSize + Workers + Cardinality(Reqs)

VARIABLES
  granted, active, queued, throttled,  \* the atomics of Gate
  pc,          \* where each request is
  rpc,         \* where each call of reconcile() is,
  rnew,        \*   the limit it was given
  rdiff,       \*   and the permits it has still to add or to forget
  stolen,      \* history: requests admitted on the queue-full path
  missed,      \* history: permits a shrink found none to forget
  overlapped   \* history: two calls of reconcile() were under way at once

counters == <<granted, active, queued, throttled>>
recVars == <<rpc, rnew, rdiff>>
vars == <<semVars, counters, pc, recVars, stolen, missed, overlapped>>

\* Atomic fetch_add / fetch_sub by one.
Inc(n) == IF n = WordSize - 1 THEN 0 ELSE n + 1
Dec(n) == IF n = 0 THEN WordSize - 1 ELSE n - 1

At(states) == {r \in Reqs : pc[r] \in states}

\* A request between two await points occupies a worker thread.
Busy == At({"full", "admit", "polling", "took", "entering", "leaving"})
WorkerFree == Cardinality(Busy) < Workers

Holders == At({"took", "entering", "running", "leaving"})
\* Requests that own a permit, and all permits in existence.
Owners == handed \cup Holders
Issued == permits + Cardinality(Owners)

Goto(r, at) == pc' = [pc EXCEPT ![r] = at]

OrDefault(limit) == IF limit = NoLimit THEN DefaultLimit ELSE limit

Init ==
  /\ SemInit(OrDefault(NoLimit))
  /\ granted = OrDefault(NoLimit)
  /\ active = 0 /\ queued = 0 /\ throttled = 0
  /\ pc = [r \in Reqs |-> "idle"]
  /\ rpc = [c \in Recs |-> "idle"]
  /\ rnew = [c \in Recs |-> 0]
  /\ rdiff = [c \in Recs |-> 0]
  /\ stolen = {} /\ missed = 0 /\ overlapped = FALSE

-----------------------------------------------------------------------------
(* acquire() *)

\* Seeded fault: the queue is full one request too late.
LateQueueFull(r) ==
  /\ pc[r] = "idle" /\ WorkerFree
  /\ Goto(r, IF queued > MaxQueueSize THEN "full" ELSE "admit")
  /\ UNCHANGED <<semVars, counters, recVars, stolen, missed, overlapped>>

LoadQueued(r) ==
  /\ pc[r] = "idle" /\ WorkerFree
  /\ Goto(r, IF queued >= MaxQueueSize THEN "full" ELSE "admit")
  /\ UNCHANGED <<semVars, counters, recVars, stolen, missed, overlapped>>

TryAcquire(r) ==
  /\ pc[r] = "full"
  /\ \/ /\ TakePermit
        /\ Goto(r, "took")
        /\ stolen' = stolen \cup {r}
        /\ UNCHANGED throttled
     \/ /\ permits = 0
        /\ Goto(r, "rejected")
        /\ throttled' = throttled + 1
        /\ UNCHANGED <<semVars, stolen>>
  /\ UNCHANGED <<granted, active, queued, recVars, missed, overlapped>>

CountIn(r) ==
  /\ pc[r] = "admit"
  /\ queued' = Inc(queued)
  /\ Goto(r, "polling")
  /\ UNCHANGED <<semVars, granted, active, throttled, recVars,
                 stolen, missed, overlapped>>

Poll(r) ==
  /\ pc[r] = "polling"
  /\ \/ TakePermit /\ Goto(r, "took")
     \/ Enqueue(r) /\ Goto(r, "waiting")
  /\ UNCHANGED <<counters, recVars, stolen, missed, overlapped>>

Wake(r) ==
  /\ pc[r] = "waiting" /\ WorkerFree
  /\ Collect(r)
  /\ Goto(r, "took")
  /\ UNCHANGED <<counters, recVars, stolen, missed, overlapped>>

\* The client is gone: hyper drops the future at its await point, and the
\* fetch_sub after it never runs.
Disconnect(r) ==
  /\ pc[r] = "waiting" /\ r \in Impatient
  /\ Abandon(r)
  /\ Goto(r, "gone")
  /\ UNCHANGED <<counters, recVars, stolen, missed, overlapped>>

\* Seeded fault: an admitted request is not counted out.
NeverCountOut(r) ==
  /\ pc[r] = "took"
  /\ Goto(r, "entering")
  /\ UNCHANGED <<semVars, counters, recVars, stolen, missed, overlapped>>

\* Both paths: queued.fetch_sub(1), then active.fetch_add(1).
CountOut(r) ==
  /\ pc[r] = "took"
  /\ queued' = Dec(queued)
  /\ Goto(r, "entering")
  /\ UNCHANGED <<semVars, granted, active, throttled, recVars,
                 stolen, missed, overlapped>>

EnterActive(r) ==
  /\ pc[r] = "entering"
  /\ active' = Inc(active)
  /\ Goto(r, "running")
  /\ UNCHANGED <<semVars, granted, queued, throttled, recVars,
                 stolen, missed, overlapped>>

-----------------------------------------------------------------------------
\* A running request reports an upstream 429 or 503: bump_throttled().
BumpThrottled(r) ==
  /\ pc[r] = "running" /\ throttled < MaxBumps
  /\ throttled' = throttled + 1
  /\ UNCHANGED <<semVars, granted, active, queued, pc, recVars,
                 stolen, missed, overlapped>>

\* Seeded faults: a guard that forgets the counter, or its permit.
DropWithoutCount(r) ==
  /\ pc[r] = "running" /\ WorkerFree
  /\ Goto(r, "leaving")
  /\ UNCHANGED <<semVars, counters, recVars, stolen, missed, overlapped>>

ForgetPermit(r) ==
  /\ pc[r] = "leaving"
  /\ Goto(r, "done")
  /\ UNCHANGED <<semVars, counters, recVars, stolen, missed, overlapped>>

(* Drop of ActiveGuard: Drop::drop, then the permit field. *)
DropGuard(r) ==
  /\ pc[r] = "running" /\ WorkerFree
  /\ active' = Dec(active)
  /\ Goto(r, "leaving")
  /\ UNCHANGED <<semVars, granted, queued, throttled, recVars,
                 stolen, missed, overlapped>>

DropPermit(r) ==
  /\ pc[r] = "leaving"
  /\ AddPermits(1)
  /\ Goto(r, "done")
  /\ UNCHANGED <<counters, recVars, stolen, missed, overlapped>>

-----------------------------------------------------------------------------
(* reconcile() *)

Reconciling == {c \in Recs : rpc[c] \in {"grow", "shrink"}}

LoadGranted(c) ==
  /\ rpc[c] = "idle"
  /\ \E limit \in Limits \cup {NoLimit} :
       LET new == OrDefault(limit)
       IN /\ rnew' = [rnew EXCEPT ![c] = new]
          /\ rdiff' = [rdiff EXCEPT ![c] = IF new > granted THEN new - granted
                                                            ELSE granted - new]
          /\ rpc' = [rpc EXCEPT ![c] = CASE new > granted -> "grow"
                                         [] new < granted -> "shrink"
                                         [] OTHER -> "done"]
  /\ overlapped' = (overlapped \/ Reconciling # {})
  /\ UNCHANGED <<semVars, counters, pc, stolen, missed>>

AddDiff(c) ==
  /\ rpc[c] = "grow" /\ rdiff[c] > 0
  /\ AddPermits(rdiff[c])
  /\ rdiff' = [rdiff EXCEPT ![c] = 0]
  /\ UNCHANGED <<counters, pc, rpc, rnew, stolen, missed, overlapped>>

\* One round of the shrink loop; a failed try is ignored.
ForgetOne(c) ==
  /\ rpc[c] = "shrink" /\ rdiff[c] > 0
  /\ \/ TakePermit /\ UNCHANGED missed
     \/ permits = 0 /\ missed' = missed + 1 /\ UNCHANGED semVars
  /\ rdiff' = [rdiff EXCEPT ![c] = rdiff[c] - 1]
  /\ UNCHANGED <<counters, pc, rpc, rnew, stolen, overlapped>>

StoreGranted(c) ==
  /\ rpc[c] \in {"grow", "shrink"} /\ rdiff[c] = 0
  /\ granted' = rnew[c]
  /\ rpc' = [rpc EXCEPT ![c] = "done"]
  /\ UNCHANGED <<semVars, active, queued, throttled, pc, rnew, rdiff,
                 stolen, missed, overlapped>>

-----------------------------------------------------------------------------
SyncStep(r) ==
  TryAcquire(r) \/ CountIn(r) \/ Poll(r) \/ CountOut(r) \/ EnterActive(r)
Acquire(r) == LoadQueued(r) \/ SyncStep(r) \/ Wake(r)
DropActiveGuard(r) == DropGuard(r) \/ DropPermit(r)
Finish(c) == AddDiff(c) \/ ForgetOne(c) \/ StoreGranted(c)
Reconcile(c) == LoadGranted(c) \/ Finish(c)

Next ==
  \/ \E r \in Reqs : \/ Acquire(r)
                     \/ Disconnect(r)
                     \/ BumpThrottled(r)
                     \/ DropActiveGuard(r)
  \/ \E c \in Recs : Reconcile(c)

Spec == Init /\ [][Next]_vars

\* Nothing makes a request arrive or a limit change.  A task on a worker
\* runs on to its next await point; the run queues are FIFO, so a task that
\* is ready again and again gets a worker; and every admitted request ends,
\* since the upstream client has a timeout.
Fairness ==
  /\ \A r \in Reqs : /\ WF_vars(SyncStep(r) \/ DropPermit(r))
                     /\ SF_vars(Wake(r))
                     /\ SF_vars(DropGuard(r))
  /\ \A c \in Recs : WF_vars(Finish(c))

LiveSpec == Spec /\ Fairness

-----------------------------------------------------------------------------
(* Properties *)

TypeOK ==
  /\ SemTypeOK(Reqs)
  /\ granted \in Nat /\ throttled \in Nat
  /\ active \in 0..WordSize - 1 /\ queued \in 0..WordSize - 1
  /\ pc \in [Reqs -> {"idle", "full", "admit", "polling", "waiting", "took",
                      "entering", "running", "leaving",
                      "done", "rejected", "gone"}]
  /\ rpc \in [Recs -> {"idle", "grow", "shrink", "done"}]
  /\ rnew \in [Recs -> Nat]
  /\ rdiff \in [Recs -> Nat]
  /\ stolen \subseteq Reqs
  /\ missed \in Nat
  /\ overlapped \in BOOLEAN

\* Nobody resizes the gate, and no two calls of reconcile() ever overlapped.
Settled == ~overlapped /\ Reconciling = {}

\* However admissions, releases, disconnects and hand-offs interleave with
\* resizes, no permit is lost or made up: between resizes the semaphore has
\* issued exactly `granted` permits and the ones a shrink failed to forget.
PermitAccounting == Settled => Issued = granted + missed

\* What that means to the upstream: no more requests in flight (the `active`
\* counter) than the limit and the permits no shrink got hold of.
ActiveWithinLimit == Settled => active <= granted + missed

\* Requests counted in and not yet out.
Counted == At({"polling", "waiting", "took"})
\* The counter of waiters, reconstructed: the two races on `queued` are a
\* disconnect, which is never counted out, and an admission on the queue-full
\* path, which is counted out and was never counted in.
QueuedBalance ==
  Cardinality(Counted) + Cardinality(At({"gone"})) - Cardinality(stolen)
QueuedExact ==
  queued = IF QueuedBalance >= 0 THEN QueuedBalance
                                 ELSE WordSize + QueuedBalance

\* The queue is bounded although its length is read before it is raised: it
\* overshoots by at most one request per other worker, plus one for each
\* admission that lowered the counter without having raised it.
QueueBounded ==
  Len(waiters) <= MaxQueueSize - 1 + Workers + Cardinality(stolen)

\* acquire() is a FIFO queue in front of `Issued` places.
Fifo == INSTANCE FifoGate WITH queue   <- waiters,
                               running <- Owners,
                               limit   <- Issued
ImplementsFifoGate == Fifo!Spec
NoOvertaking == Fifo!NoOvertaking

\* Whoever waits is served, or leaves by its own choice.
WaitersServed ==
  \A r \in Reqs : pc[r] = "waiting" ~> pc[r] \in {"running", "gone"}

-----------------------------------------------------------------------------
(* What the documents say, and the code does not do. *)

\* Specification 5.2: a request is turned away only if `queued` requests, at
\* least MAX_QUEUE_SIZE, wait for a permit.
RejectsOnlyWhenFull ==
  [][\A r \in Reqs : LoadQueued(r) /\ pc'[r] = "full" =>
                       Cardinality(Counted) >= MaxQueueSize]_vars
=============================================================================
