------------------------------ MODULE Pipeline ------------------------------
(***************************************************************************)
(* The two request pipelines (chat.rs, messages.rs): requests that share   *)
(* the gate, the conversation map, the key pool and the statistics.  A     *)
(* step ends at an await point or where it touches shared state, and a     *)
(* client may disconnect at every await.  The gate is FifoGate, which      *)
(* Gate implements; its limit is fixed here.                               *)
(***************************************************************************)
EXTENDS KeyPool, ConvMap, FiniteSets

CONSTANTS
  Reqs,        \* requests
  Anthropic,   \* those to /v1/messages; the others are OpenAI requests
  ConvOf,      \* the conversation of each request
  MaxRetries,  \* MAX_RETRIES
  MaxActive    \* the gate's limit

ASSUME PipelineAssumption ==
  /\ IsFiniteSet(Reqs) /\ Anthropic \subseteq Reqs
  /\ ConvOf \in [Reqs -> Convs]
  /\ MaxRetries \in Nat \ {0}
  /\ MaxActive \in Nat \ {0}

VARIABLES
  queue, running, limit,  \* the gate
  throttled,              \* its counter of rejections
  req,                    \* req[r]: how far request r is
  log                     \* log[r]: the statuses recorded for r (stats.rs)

gateVars == <<queue, running, limit>>
vars == <<poolVars, convVars, gateVars, throttled, req, log>>

Gate == INSTANCE FifoGate

\* `pref` is the slot of its conversation, `index` the slot in use, `status`
\* what the upstream answered last (502: nothing).
New == [at |-> "new", pref |-> 0, index |-> 0, attempt |-> 0,
        status |-> 0]

Places ==
  {"new", "queued", "admitted", "touched", "keyed", "calling", "reading",
   "failed", "sleeping", "rotating", "returning", "piping", "streaming",
   "done", "gone", "refused"}

ReqType ==
  [at : Places, pref : Nat, index : Nat, attempt : 0..MaxRetries,
   status : {0, 200, 304, 429, 500, 502, 503}]

At(places) == {r \in Reqs : req[r].at \in places}
OpenAI(r) == r \notin Anthropic

Goto(r, place) == req' = [req EXCEPT ![r].at = place]
\* The handler's locals are dropped.
Leave(r, place) ==
  req' = [req EXCEPT ![r] = [New EXCEPT !.at = place, !.status = req[r].status]]
Record(r, status) == log' = [log EXCEPT ![r] = Append(@, status)]

Init ==
  /\ PoolInit
  /\ ConvInit
  /\ queue = <<>> /\ running = {} /\ limit = MaxActive
  /\ throttled = 0
  /\ req = [r \in Reqs |-> New]
  /\ log = [r \in Reqs |-> <<>>]

-----------------------------------------------------------------------------
(* Admission. *)

\* Authentication and parsing change nothing; a pool without entries is
\* noticed by the Anthropic pipeline before the gate.
NoKeysConfigured(r) ==
  /\ req[r].at = "new" /\ r \in Anthropic /\ Len(entries) = 0
  /\ Goto(r, "done")
  /\ UNCHANGED <<poolVars, convVars, gateVars, throttled, log>>

Arrive(r) ==
  /\ req[r].at = "new" /\ (OpenAI(r) \/ Len(entries) > 0)
  /\ \/ Gate!Enter(r) /\ Goto(r, "admitted")
     \/ Gate!Join(r) /\ Goto(r, "queued")
  /\ UNCHANGED <<poolVars, convVars, throttled, log>>

\* The queue counts as full.  Its counter is not exact (see Gate): all that
\* is certain is that no place was free.
QueueFull(r) ==
  /\ req[r].at = "new" /\ (OpenAI(r) \/ Len(entries) > 0)
  /\ Cardinality(running) >= limit
  /\ throttled' = throttled + 1
  /\ Goto(r, "refused")
  /\ UNCHANGED <<poolVars, convVars, gateVars, log>>

Admitted(r) ==
  /\ req[r].at = "queued" /\ r \in running
  /\ Goto(r, "admitted")
  /\ UNCHANGED <<poolVars, convVars, gateVars, throttled, log>>

-----------------------------------------------------------------------------
(* Conversation and key. *)

\* Seeded fault: the guard is dropped as soon as it is given.
TouchUnguarded(r) ==
  /\ req[r].at = "admitted"
  /\ Touch(ConvOf[r])
  /\ req' = [req EXCEPT ![r] = [@ EXCEPT !.at = "touched",
                                         !.pref = TokenOf(ConvOf[r])]]
  /\ Gate!Leave(r)
  /\ UNCHANGED <<poolVars, throttled, log>>

TouchConversation(r) ==
  /\ req[r].at = "admitted"
  /\ Touch(ConvOf[r])
  /\ req' = [req EXCEPT ![r] = [@ EXCEPT !.at = "touched",
                                         !.pref = TokenOf(ConvOf[r])]]
  /\ UNCHANGED <<poolVars, gateVars, throttled, log>>

AcquireSlot(r) ==
  /\ req[r].at = "touched"
  /\ \E i \in Slots : /\ AcquireKey(req[r].pref, i)
                      /\ req' = [req EXCEPT ![r] = [@ EXCEPT
                           !.at = "keyed", !.index = i, !.pref = 0]]
  /\ UNCHANGED <<convVars, gateVars, throttled, log>>

NoHealthyKeys(r) ==
  /\ req[r].at = "touched" /\ NothingUsable
  /\ Goto(r, "returning")
  /\ UNCHANGED <<poolVars, convVars, gateVars, throttled, log>>

\* The payload is rewritten, images are handed off, and the first call made.
TrackConversation(r) ==
  /\ req[r].at = "keyed"
  /\ Track(ConvOf[r], req[r].index)
  /\ req' = [req EXCEPT ![r] = [@ EXCEPT !.at = "calling", !.attempt = 1]]
  /\ UNCHANGED <<poolVars, gateVars, throttled, log>>

\* The log line of a new conversation cuts the prompt at 80 bytes, which
\* panics inside a character of several: the request is never answered.
PromptCutPanics(r) ==
  /\ req[r].at = "keyed" /\ ~Known(ConvOf[r])
  /\ Track(ConvOf[r], req[r].index)
  /\ Gate!Leave(r)
  /\ Leave(r, "gone")
  /\ UNCHANGED <<poolVars, throttled, log>>

-----------------------------------------------------------------------------
(* The upstream's answers. *)

\* Success: a stream is handed over at once, a JSON body is read first.
UpstreamOk(r, place) ==
  /\ req[r].at = "calling"
  /\ MarkHealthy(req[r].index)
  /\ req' = [req EXCEPT ![r] = [@ EXCEPT !.at = place, !.status = 200]]
  /\ UNCHANGED <<convVars, gateVars, throttled, log>>

\* Whose error body is read before the outcome is dealt with: 500 and 503,
\* for an Anthropic request every error.
Failure(r, status) ==
  status \in IF OpenAI(r) THEN {500, 503} ELSE {429, 500, 503}

UpstreamFails(r, status) ==
  /\ req[r].at = "calling" /\ Failure(r, status)
  /\ req' = [req EXCEPT ![r] = [@ EXCEPT !.at = "failed", !.status = status]]
  /\ UNCHANGED <<poolVars, convVars, gateVars, throttled, log>>

\* Any other answer is passed on.
UpstreamOther(r, status) ==
  /\ req[r].at = "calling" /\ ~Failure(r, status)
  /\ throttled' = IF status = 429 THEN throttled + 1 ELSE throttled
  /\ req' = [req EXCEPT ![r] = [@ EXCEPT !.at = "reading", !.status = status]]
  /\ UNCHANGED <<poolVars, convVars, gateVars, log>>

Retried(r) == OpenAI(r) /\ req[r].attempt < MaxRetries

\* No answer at all, a timeout included.
NetworkError(r) ==
  /\ req[r].at = "calling"
  /\ MarkUnhealthy(req[r].index, 502)
  /\ IF Retried(r)
       THEN /\ req' = [req EXCEPT ![r] = [@ EXCEPT !.at = "sleeping", !.status = 502]]
            /\ UNCHANGED log
       ELSE /\ req' = [req EXCEPT ![r] = [@ EXCEPT !.at = "returning", !.status = 502]]
            /\ Record(r, 502)
  /\ UNCHANGED <<convVars, gateVars, throttled>>

\* The body (or nothing, if it cannot be read) is passed on.  The Anthropic
\* pipeline does not record a 3xx.
BodyRead(r) ==
  /\ req[r].at = "reading"
  /\ Goto(r, "returning")
  /\ IF OpenAI(r) \/ req[r].status # 304 THEN Record(r, req[r].status)
                                         ELSE UNCHANGED log
  /\ UNCHANGED <<poolVars, convVars, gateVars, throttled>>

\* Seeded fault: the failed attempt is recorded although a retry follows.
ErrorReadRecordingRetries(r) ==
  /\ req[r].at = "failed"
  /\ MarkUnhealthy(req[r].index, req[r].status)
  /\ Goto(r, IF req[r].attempt < MaxRetries THEN "sleeping" ELSE "returning")
  /\ Record(r, req[r].status)
  /\ UNCHANGED <<convVars, gateVars, throttled>>

Rested(r) == OpenAI(r) \/ req[r].status = 503

\* Seeded fault: a 429 is not counted as a rejection.
BumpedOnlyBy503(r) == req[r].status = 503

Bumped(r) == req[r].status = 503 \/ (r \in Anthropic /\ req[r].status = 429)

ErrorRead(r) ==
  /\ req[r].at = "failed"
  /\ IF Rested(r) THEN MarkUnhealthy(req[r].index, req[r].status)
                  ELSE UNCHANGED poolVars
  /\ \/ /\ Retried(r)
        /\ Goto(r, "sleeping")
        /\ UNCHANGED <<throttled, log>>
     \/ /\ ~Retried(r)
        /\ Goto(r, "returning")
        /\ throttled' = IF Bumped(r) THEN throttled + 1 ELSE throttled
        /\ Record(r, req[r].status)
  /\ UNCHANGED <<convVars, gateVars>>

-----------------------------------------------------------------------------
(* Retries. *)

\* Seeded fault: the attempt is not counted.
WakeUpUncounted(r) ==
  /\ req[r].at = "sleeping"
  /\ Goto(r, IF Len(entries) > 1 THEN "rotating" ELSE "calling")
  /\ UNCHANGED <<poolVars, convVars, gateVars, throttled, log>>

WakeUp(r) ==
  /\ req[r].at = "sleeping"
  /\ req' = [req EXCEPT ![r] = [@ EXCEPT
       !.at = IF Len(entries) > 1 THEN "rotating" ELSE "calling",
       !.attempt = req[r].attempt + 1]]
  /\ UNCHANGED <<poolVars, convVars, gateVars, throttled, log>>

\* The next attempt takes the next key, which the conversation map does not
\* learn, or keeps its slot.
Rotate(r) ==
  /\ req[r].at = "rotating"
  /\ \/ \E i \in Slots : /\ AcquireKey(0, i)
                         /\ req' = [req EXCEPT ![r] = [@ EXCEPT
                              !.at = "calling", !.index = i]]
     \/ /\ NothingUsable
        /\ Goto(r, "calling")
        /\ UNCHANGED poolVars
  /\ UNCHANGED <<convVars, gateVars, throttled, log>>

-----------------------------------------------------------------------------
(* The end of a request. *)

\* The handler returns: its guard is dropped and the answer sent, a stream
\* from now on by the connection's task.
Return(r) ==
  /\ req[r].at \in {"returning", "piping"}
  /\ Gate!Leave(r)
  /\ Leave(r, IF req[r].at = "piping" THEN "streaming" ELSE "done")
  /\ UNCHANGED <<poolVars, convVars, throttled, log>>

\* A stream is recorded at its clean end only.
StreamEnds(r) ==
  /\ req[r].at = "streaming"
  /\ Goto(r, "done")
  /\ Record(r, 200)
  /\ UNCHANGED <<poolVars, convVars, gateVars, throttled>>

\* The upstream breaks off, or the client disconnects.
StreamBreaks(r) ==
  /\ req[r].at = "streaming"
  /\ Goto(r, "gone")
  /\ UNCHANGED <<poolVars, convVars, gateVars, throttled, log>>

\* The client disconnects while the handler awaits something: its future is
\* dropped, and with it the place in the queue or the guard.
Disconnect(r) ==
  /\ req[r].at \in {"queued", "calling", "reading", "failed", "sleeping"}
  /\ Gate!GiveUp(r) \/ Gate!Leave(r)
  /\ Leave(r, "gone")
  /\ UNCHANGED <<poolVars, convVars, throttled, log>>

-----------------------------------------------------------------------------
\* A minute passes, long enough for every cooldown.  (KeyUse has every tick,
\* and edits of the key list.)
Wait ==
  /\ \E i \in Slots : entries[i].rest > 0
  /\ entries' = [i \in Slots |-> [entries[i] EXCEPT !.rest = 0]]
  /\ UNCHANGED <<cursor, convVars, gateVars, throttled, req, log>>

\* What a handler does by itself once it runs.
Handle(r) ==
  \/ Admitted(r) \/ TouchConversation(r) \/ AcquireSlot(r) \/ NoHealthyKeys(r)
  \/ TrackConversation(r) \/ PromptCutPanics(r) \/ Rotate(r) \/ Return(r)

\* What it waits for: each of them happens or times out.
Answer(r) ==
  \/ \E place \in {"reading", "piping"} : UpstreamOk(r, place)
  \/ \E status \in {429, 500, 503} : UpstreamFails(r, status)
  \/ \E status \in {304, 429} : UpstreamOther(r, status)
  \/ NetworkError(r) \/ BodyRead(r) \/ ErrorRead(r) \/ WakeUp(r)
  \/ StreamEnds(r) \/ StreamBreaks(r)

Next ==
  \/ \E r \in Reqs : \/ NoKeysConfigured(r) \/ Arrive(r) \/ QueueFull(r)
                     \/ Handle(r) \/ Answer(r) \/ Disconnect(r)
  \/ Wait

Spec == Init /\ [][Next]_vars

\* Tasks are scheduled fairly, and the upstream's timeout, which covers the
\* body too, ends every call.  Nothing makes a request arrive.
LiveSpec == Spec /\ \A r \in Reqs : WF_vars(Handle(r)) /\ WF_vars(Answer(r))

-----------------------------------------------------------------------------
(* Properties *)

TypeOK ==
  /\ entries \in Seq(EntryType) /\ (cursor = 1 \/ cursor \in Slots)
  /\ order \in Seq(Convs) /\ session \in [Convs -> SessionType] /\ counter \in Nat
  /\ queue \in Seq(Reqs) /\ running \subseteq Reqs /\ limit = MaxActive
  /\ throttled \in Nat
  /\ req \in [Reqs -> ReqType]
  /\ log \in [Reqs -> Seq({200, 304, 429, 500, 502, 503})]

\* The handlers between admission and return.
Handlers == At({"admitted", "touched", "keyed", "calling", "reading", "failed",
                "sleeping", "rotating", "returning", "piping"})

\* On every path through a handler, retries, failures and disconnects
\* included, exactly the handlers own the gate's places, a queued request
\* that was given one by and by included; so no more of them run than the
\* limit, and no place leaks.
PlacesHeld ==
  /\ Handlers \subseteq running
  /\ running \ Handlers = running \cap At({"queued"})
  /\ At({"queued"}) \subseteq running \cup {queue[i] : i \in DOMAIN queue}
  /\ Cardinality(running) <= limit

\* The statistics tell each request's outcome once: what was answered was
\* recorded with the status of the last attempt, except an Anthropic 3xx and
\* requests that never reached the upstream; what broke off was not.
RecordedOnce ==
  \A r \in Reqs :
    /\ Len(log[r]) <= 1
    /\ req[r].at = "done" =>
         log[r] = IF req[r].status = 0 \/ (req[r].status = 304 /\ ~OpenAI(r))
                    THEN <<>> ELSE <<req[r].status>>
    /\ req[r].at \in {"gone", "refused"} => log[r] = <<>>

\* The counter of rejections agrees with the statistics: it counts requests
\* turned away for a full queue and final answers 429 and 503, each once; an
\* OpenAI 429 even if its client leaves before the body is read.
ThrottledAgrees ==
  LET final == {r \in Reqs : log[r] \in {<<429>>, <<503>>}}
      early == {r \in At({"reading", "gone"}) : req[r].status = 429 /\ OpenAI(r)}
  IN throttled = Cardinality(At({"refused"}) \cup final \cup early)

\* Every request that arrived comes to an end, whatever the upstream does:
\* nobody waits for ever for a place, a key or a retry.
Answered ==
  \A r \in Reqs :
    req[r].at # "new" ~> req[r].at \in {"done", "gone", "refused"}
=============================================================================
