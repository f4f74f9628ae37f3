------------------------------ MODULE FifoGate ------------------------------
(***************************************************************************)
(* What the gate promises its callers: at most `limit` requests run, the   *)
(* others wait in arrival order, a free place never stays idle while       *)
(* somebody waits, and nobody is overtaken.                                *)
(***************************************************************************)
EXTENDS Naturals, Sequences, FiniteSets, SequencesExt

CONSTANT Reqs  \* a finite set

VARIABLES
  queue,    \* waiting requests, in arrival order
  running,  \* requests that own a place
  limit     \* number of places

vars == <<queue, running, limit>>

Queued == {queue[i] : i \in DOMAIN queue}

TypeOK ==
  /\ queue \in Seq(Reqs)
  /\ running \subseteq Reqs
  /\ limit \in Nat

Init == queue = <<>> /\ running = {} /\ limit \in Nat

\* A free place is taken at once ...
Enter(r) ==
  /\ r \notin running \cup Queued
  /\ Cardinality(running) < limit
  /\ running' = running \cup {r}
  /\ UNCHANGED <<queue, limit>>

\* ... and without one the request joins the queue.
Join(r) ==
  /\ r \notin running \cup Queued
  /\ Cardinality(running) >= limit
  /\ queue' = Append(queue, r)
  /\ UNCHANGED <<running, limit>>

\* The places of `gone` (at most one) and n new ones go to the head of the
\* queue, as far as it reaches.
Serve(gone, n) ==
  LET open == n + Cardinality(gone)
      k == IF open <= Len(queue) THEN open ELSE Len(queue)
  IN /\ running' = (running \ gone) \cup {queue[i] : i \in 1..k}
     /\ queue' = SubSeq(queue, k + 1, Len(queue))
     /\ limit' = limit + n

Leave(r) == r \in running /\ Serve({r}, 0)

Grow == /\ limit' \in Nat
        /\ limit' > limit
        /\ Serve({}, limit' - limit)

\* A place is withdrawn only when it is free.
Shrink ==
  /\ Cardinality(running) < limit
  /\ limit' = limit - 1
  /\ UNCHANGED <<queue, running>>

\* A waiting request gives up.
GiveUp(r) ==
  /\ \E i \in DOMAIN queue : queue[i] = r /\ queue' = RemoveAt(queue, i)
  /\ UNCHANGED <<running, limit>>

Next ==
  \/ \E r \in Reqs : Enter(r) \/ Join(r) \/ Leave(r) \/ GiveUp(r)
  \/ Grow
  \/ Shrink

Spec == Init /\ [][Next]_vars

-----------------------------------------------------------------------------
\* The limit holds, and a request is either waiting (once) or running.
Exclusive ==
  /\ Cardinality(running) <= limit
  /\ Queued \cap running = {}
  /\ \A i, j \in DOMAIN queue : queue[i] = queue[j] => i = j

\* No overtaking: a request starts only together with, or after, everybody
\* who was ahead of it in the queue; and nobody walks past a queue.
NoOvertaking ==
  [][ /\ \A i \in DOMAIN queue : queue[i] \in running' =>
            \A j \in 1..i : queue[j] \in running'
      /\ (running' \ running) \ Queued # {} => queue = <<>> ]_vars
=============================================================================
