----------------------------- MODULE Semaphore -----------------------------
(***************************************************************************)
(* tokio::sync::Semaphore, as the gate uses it (single-permit, owned).     *)
(* The semaphore is fair: a released permit is handed to the waiter at the *)
(* head of the queue, and becomes available only if nobody waits.  A       *)
(* waiter that was handed a permit owns it from then on, although its task *)
(* has yet to be polled; if the task is dropped first, the permit goes     *)
(* back by the same hand-off.  External: modelled from its use in gate.rs. *)
(***************************************************************************)
EXTENDS Naturals, Sequences, SequencesExt

VARIABLES
  permits,  \* available permits
  waiters,  \* FIFO queue of the pending acquire_owned() calls
  handed    \* dequeued calls that own a permit and were not polled since

semVars == <<permits, waiters, handed>>

SemInit(n) ==
  /\ permits = n
  /\ waiters = <<>>
  /\ handed = {}

Waiting == {waiters[i] : i \in DOMAIN waiters}

SemTypeOK(Tasks) ==
  /\ permits \in Nat
  /\ waiters \in Seq(Tasks)
  /\ handed \subseteq Tasks

\* A task waits once, either in the queue or with a permit in its hands, and
\* no permit is available while the queue is not empty.
SemInv(Tasks) ==
  /\ SemTypeOK(Tasks)
  /\ \A i, j \in DOMAIN waiters : waiters[i] = waiters[j] => i = j
  /\ Waiting \cap handed = {}
  /\ permits > 0 => waiters = <<>>

\* How many of n released permits go to waiters.
HandOff(n) == IF n <= Len(waiters) THEN n ELSE Len(waiters)

\* add_permits(n); dropping a permit is AddPermits(1).
AddPermits(n) ==
  /\ permits' = permits + (n - HandOff(n))
  /\ waiters' = SubSeq(waiters, HandOff(n) + 1, Len(waiters))
  /\ handed' = handed \cup {waiters[i] : i \in 1..HandOff(n)}

\* try_acquire_owned() that succeeds, and acquire_owned() that need not wait.
TakePermit ==
  /\ permits > 0
  /\ permits' = permits - 1
  /\ UNCHANGED <<waiters, handed>>

\* Seeded fault: the newest waiter is served first.
EnqueueFirst(t) ==
  /\ permits = 0
  /\ waiters' = <<t>> \o waiters
  /\ UNCHANGED <<permits, handed>>

\* The first poll of acquire_owned() when no permit is available.
Enqueue(t) ==
  /\ permits = 0
  /\ waiters' = Append(waiters, t)
  /\ UNCHANGED <<permits, handed>>

\* The poll of a woken acquire_owned().
Collect(t) ==
  /\ t \in handed
  /\ handed' = handed \ {t}
  /\ UNCHANGED <<permits, waiters>>

\* The future of a pending acquire_owned() is dropped while it is queued.
Withdraw(t) ==
  /\ \E i \in DOMAIN waiters :
        waiters[i] = t /\ waiters' = RemoveAt(waiters, i)
  /\ UNCHANGED <<permits, handed>>

\* Seeded fault: the permit of a dropped waiter bypasses the queue.
BypassQueue(t) ==
  /\ t \in handed
  /\ permits' = permits + 1
  /\ handed' = handed \ {t}
  /\ UNCHANGED waiters

\* It is dropped after it was handed a permit: the permit is passed on.
PassOn(t) ==
  /\ t \in handed
  /\ IF waiters = <<>>
       THEN /\ permits' = permits + 1
            /\ handed' = handed \ {t}
            /\ UNCHANGED waiters
       ELSE /\ handed' = (handed \ {t}) \cup {Head(waiters)}
            /\ waiters' = Tail(waiters)
            /\ UNCHANGED permits

Abandon(t) == Withdraw(t) \/ PassOn(t)
=============================================================================
