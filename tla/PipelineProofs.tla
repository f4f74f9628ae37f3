--------------------------- MODULE PipelineProofs ---------------------------
(***************************************************************************)
(* Proofs about the pipelines: what the statistics and the counter of      *)
(* rejections say of a request is what happened to it, and the gate's      *)
(* places belong to the handlers, for any number of requests, keys,        *)
(* conversations, places and attempts.                                     *)
(***************************************************************************)
EXTENDS Pipeline, SequencesExt, SequenceTheorems, FiniteSetTheorems, TLAPS

\* RemoveAt drops one element and keeps the order of the others.
LEMMA RemoveAtFacts ==
  ASSUME NEW T, NEW s \in Seq(T), NEW i \in DOMAIN s
  PROVE  /\ RemoveAt(s, i) \in Seq(T)
         /\ Len(RemoveAt(s, i)) = Len(s) - 1
         /\ \A j \in 1..Len(s) - 1 :
              RemoveAt(s, i)[j] = IF j < i THEN s[j] ELSE s[j + 1]
<1> DEFINE a == SubSeq(s, 1, i - 1)
           b == SubSeq(s, i + 1, Len(s))
<1>0. i \in 1..Len(s) /\ Len(s) \in Nat /\ \A j \in 1..Len(s) : s[j] \in T
  BY LenProperties, ElementOfSeq
<1>1. a \in Seq(T) /\ Len(a) = i - 1 /\ \A j \in 1..i - 1 : a[j] = s[j]
  BY <1>0, SubSeqProperties
<1>2. b \in Seq(T) /\ Len(b) = Len(s) - i /\ \A j \in 1..Len(s) - i : b[j] = s[i + j]
  BY <1>0, SubSeqProperties
<1>3. RemoveAt(s, i) = a \o b
  BY DEF RemoveAt
<1> HIDE DEF a, b
<1>4. /\ a \o b \in Seq(T) /\ Len(a \o b) = Len(a) + Len(b)
      /\ \A j \in 1..Len(a) + Len(b) : (a \o b)[j] = IF j <= Len(a) THEN a[j] ELSE b[j - Len(a)]
  BY <1>1, <1>2, ConcatProperties
<1>5. ASSUME NEW j \in 1..Len(s) - 1 PROVE (a \o b)[j] = IF j < i THEN s[j] ELSE s[j + 1]
  <2>1. \/ j < i /\ j <= Len(a) /\ j \in 1..i - 1
        \/ ~(j < i) /\ ~(j <= Len(a)) /\ j - Len(a) \in 1..Len(s) - i /\ i + (j - Len(a)) = j + 1
    BY <1>0, <1>1
  <2>2. j \in 1..Len(a) + Len(b)
    BY <1>0, <1>1, <1>2
  <2> QED BY <2>1, <2>2, <1>1, <1>2, <1>4
<1>6. Len(a \o b) = Len(s) - 1
  BY <1>0, <1>1, <1>2, <1>4
<1> QED BY <1>3, <1>4, <1>5, <1>6

PoolOK == entries \in Seq(EntryType) /\ (cursor = 1 \/ cursor \in Slots)

Codes == {200, 304, 429, 500, 502, 503}

\* What is recorded of an answer with this status.
Recorded(r, status) ==
  IF status = 0 \/ (status = 304 /\ ~OpenAI(r)) THEN <<>> ELSE <<status>>

Early == {"new", "queued", "admitted", "touched", "keyed"}
Trying == {"calling", "rotating", "sleeping"}

\* How the state e of request r and its log l belong together: nothing is
\* recorded before the handler is about to return, and then what the client
\* is told; a stream is recorded when it ends.
Fits(r, e, l) ==
  /\ e.at \in Early => e.status = 0 /\ l = <<>>
  /\ e.at \in Trying => e.status \in {0, 500, 502, 503} /\ l = <<>>
  /\ e.at = "sleeping" => e.attempt < MaxRetries
  /\ e.at = "failed" => Failure(r, e.status) /\ l = <<>>
  /\ e.at = "reading" =>
       e.status \in {200, 304, 429} /\ ~Failure(r, e.status) /\ l = <<>>
  /\ e.at \in {"piping", "streaming"} => e.status = 200 /\ l = <<>>
  /\ e.at \in {"returning", "done"} => l = Recorded(r, e.status)
  /\ e.at \in {"gone", "refused"} => l = <<>>

\* Whether the counter of rejections has counted the request.
Counts(r, e, l) ==
  \/ e.at = "refused"
  \/ l \in {<<429>>, <<503>>}
  \/ e.at \in {"reading", "gone"} /\ e.status = 429 /\ OpenAI(r)

Counted == {r \in Reqs : Counts(r, req[r], log[r])}

ReqsOK ==
  /\ req \in [Reqs -> ReqType] /\ log \in [Reqs -> Seq(Codes)]
  /\ \A r \in Reqs : Fits(r, req[r], log[r])
  /\ throttled = Cardinality(Counted)

LEMMA NothingCounted == <<>> \notin {<<429>>, <<503>>}
OBVIOUS

LEMMA LogLength ==
  ASSUME NEW r, NEW status
  PROVE  Len(Recorded(r, status)) <= 1
BY DEF Recorded

\* The invariant says what RecordedOnce and ThrottledAgrees say.
LEMMA ReqsRecorded == ReqsOK => RecordedOnce
<1> SUFFICES ASSUME ReqsOK, NEW r \in Reqs
             PROVE  /\ Len(log[r]) <= 1
                    /\ req[r].at = "done" => log[r] = Recorded(r, req[r].status)
                    /\ req[r].at \in {"gone", "refused"} => log[r] = <<>>
  BY DEF RecordedOnce, Recorded
<1>1. Fits(r, req[r], log[r]) /\ req[r] \in ReqType
  BY DEF ReqsOK
<1>2. log[r] = <<>> \/ log[r] = Recorded(r, req[r].status)
  BY <1>1 DEF Fits, ReqType, Places, Early, Trying
<1>3. Len(log[r]) <= 1
  BY <1>2, LogLength
<1> QED BY <1>1, <1>3 DEF Fits

LEMMA ReqsThrottled == ReqsOK => ThrottledAgrees
<1> SUFFICES ASSUME ReqsOK PROVE ThrottledAgrees
  OBVIOUS
<1> DEFINE final == {r \in Reqs : log[r] \in {<<429>>, <<503>>}}
           early == {r \in At({"reading", "gone"}) : req[r].status = 429 /\ OpenAI(r)}
<1>1. Counted = At({"refused"}) \cup final \cup early
  BY DEF Counted, Counts, At
<1> QED BY <1>1 DEF ReqsOK, ThrottledAgrees

-----------------------------------------------------------------------------
(* A step of one request. *)

LEMMA CountedFinite == IsFiniteSet(Counted) /\ Cardinality(Counted) \in Nat
BY PipelineAssumption, FS_Subset, FS_CardinalityType DEF Counted

\* A step that gives request r the state e and the log l, and the counter
\* what the change calls for.
LEMMA ReqStep ==
  ASSUME ReqsOK, NEW r \in Reqs, NEW e \in ReqType, NEW l \in Seq(Codes),
         req' = [req EXCEPT ![r] = e], log' = [log EXCEPT ![r] = l],
         Fits(r, e, l),
         \/ /\ Counts(r, e, l) <=> Counts(r, req[r], log[r])
            /\ throttled' = throttled
         \/ /\ Counts(r, e, l) /\ ~Counts(r, req[r], log[r])
            /\ throttled' = throttled + 1
  PROVE  ReqsOK'
<1>1. req' \in [Reqs -> ReqType] /\ log' \in [Reqs -> Seq(Codes)]
  BY DEF ReqsOK
<1>2. /\ req'[r] = e /\ log'[r] = l
      /\ \A q \in Reqs \ {r} : req'[q] = req[q] /\ log'[q] = log[q]
  BY DEF ReqsOK
<1>3. \A q \in Reqs : Fits(q, req'[q], log'[q])
  BY <1>2 DEF ReqsOK
<1>4. throttled' = Cardinality(Counted')
  <2>1. CASE Counts(r, e, l) <=> Counts(r, req[r], log[r])
    <3>1. Counted' = Counted
      BY <1>2, <2>1 DEF Counted, Counts
    <3> QED BY <3>1, <2>1 DEF ReqsOK
  <2>2. CASE Counts(r, e, l) /\ ~Counts(r, req[r], log[r])
    <3>1. Counted' = Counted \cup {r} /\ r \notin Counted
      BY <1>2, <2>2 DEF Counted, Counts
    <3> QED BY <3>1, <2>2, CountedFinite, FS_AddElement DEF ReqsOK
  <2> QED BY <2>1, <2>2
<1>5. \A q \in Reqs : Fits(q, req[q], log[q])'
  BY <1>3 DEF Fits, Recorded, Failure, OpenAI
<1> QED BY <1>1, <1>4, <1>5 DEF ReqsOK

\* A state of a request with one part changed, or more.
LEMMA SetOne ==
  ASSUME NEW e \in ReqType
  PROVE  /\ \A x \in Places : [e EXCEPT !.at = x] \in ReqType
         /\ \A n \in Nat : [e EXCEPT !.pref = n] \in ReqType
         /\ \A n \in Nat : [e EXCEPT !.index = n] \in ReqType
         /\ \A n \in 0..MaxRetries : [e EXCEPT !.attempt = n] \in ReqType
         /\ \A s \in Codes \cup {0} : [e EXCEPT !.status = s] \in ReqType
BY DEF ReqType, Codes

\* The changes that come with a move, each under a name of its own.
WithStatus(e, place, s) == [e EXCEPT !.at = place, !.status = s]
WithAttempt(e, place, n) == [e EXCEPT !.at = place, !.attempt = n]
WithIndex(e, place, n) == [e EXCEPT !.at = place, !.index = n]
WithPref(e, place, n) == [e EXCEPT !.at = place, !.pref = n]
WithSlot(e, place, n) == [e EXCEPT !.at = place, !.index = n, !.pref = 0]

LEMMA SetStatus ==
  ASSUME NEW e \in ReqType, NEW x \in Places, NEW s \in Codes \cup {0}
  PROVE  LET f == WithStatus(e, x, s)
         IN  f \in ReqType /\ f.at = x /\ f.status = s /\ f.attempt = e.attempt
<1> DEFINE d == [e EXCEPT !.at = x]
           f == [d EXCEPT !.status = s]
<1>1. d \in ReqType /\ d.at = x /\ d.status = e.status /\ d.attempt = e.attempt
  BY SetOne DEF ReqType
<1> HIDE DEF d
<1>2. f \in ReqType
  BY <1>1, SetOne
<1>3. f.at = x /\ f.status = s /\ f.attempt = e.attempt
  BY <1>1 DEF ReqType
<1> QED BY <1>2, <1>3 DEF d, WithStatus

LEMMA SetAttempt ==
  ASSUME NEW e \in ReqType, NEW x \in Places, NEW n \in 0..MaxRetries
  PROVE  LET f == WithAttempt(e, x, n)
         IN  f \in ReqType /\ f.at = x /\ f.status = e.status /\ f.attempt = n
<1> DEFINE d == [e EXCEPT !.at = x]
           f == [d EXCEPT !.attempt = n]
<1>1. d \in ReqType /\ d.at = x /\ d.status = e.status /\ d.attempt = e.attempt
  BY SetOne DEF ReqType
<1> HIDE DEF d
<1>2. f \in ReqType
  BY <1>1, SetOne
<1>3. f.at = x /\ f.status = e.status /\ f.attempt = n
  BY <1>1 DEF ReqType
<1> QED BY <1>2, <1>3 DEF d, WithAttempt

LEMMA SetIndex ==
  ASSUME NEW e \in ReqType, NEW x \in Places, NEW n \in Nat
  PROVE  LET f == WithIndex(e, x, n)
         IN  f \in ReqType /\ f.at = x /\ f.status = e.status
<1> DEFINE d == [e EXCEPT !.at = x]
           f == [d EXCEPT !.index = n]
<1>1. d \in ReqType /\ d.at = x /\ d.status = e.status /\ d.attempt = e.attempt
  BY SetOne DEF ReqType
<1> HIDE DEF d
<1>2. f \in ReqType
  BY <1>1, SetOne
<1>3. f.at = x /\ f.status = e.status
  BY <1>1 DEF ReqType
<1> QED BY <1>2, <1>3 DEF d, WithIndex

LEMMA SetPref ==
  ASSUME NEW e \in ReqType, NEW x \in Places, NEW n \in Nat
  PROVE  LET f == WithPref(e, x, n)
         IN  f \in ReqType /\ f.at = x /\ f.status = e.status
<1> DEFINE d == [e EXCEPT !.at = x]
           f == [d EXCEPT !.pref = n]
<1>1. d \in ReqType /\ d.at = x /\ d.status = e.status /\ d.attempt = e.attempt
  BY SetOne DEF ReqType
<1> HIDE DEF d
<1>2. f \in ReqType
  BY <1>1, SetOne
<1>3. f.at = x /\ f.status = e.status
  BY <1>1 DEF ReqType
<1> QED BY <1>2, <1>3 DEF d, WithPref

LEMMA SetSlot ==
  ASSUME NEW e \in ReqType, NEW x \in Places, NEW n \in Nat
  PROVE  LET f == WithSlot(e, x, n)
         IN  f \in ReqType /\ f.at = x /\ f.status = e.status
<1> DEFINE d == WithIndex(e, x, n)
           f == [d EXCEPT !.pref = 0]
<1>1. d \in ReqType /\ d.at = x /\ d.status = e.status
  BY SetIndex
<1> HIDE DEF d
<1>2. f \in ReqType
  BY <1>1, SetOne
<1>3. f.at = x /\ f.status = e.status
  BY <1>1 DEF ReqType
<1> QED BY <1>2, <1>3 DEF d, WithIndex, WithSlot

LEMMA NewTyped == New \in ReqType
<1>1. 0 \in 0..MaxRetries
  BY PipelineAssumption
<1> QED BY <1>1 DEF New, ReqType, Places

\* A move of request r to another place.
LEMMA Moved ==
  ASSUME ReqsOK, NEW r \in Reqs, NEW place \in Places, Goto(r, place)
  PROVE  \E e \in ReqType :
           /\ req' = [req EXCEPT ![r] = e]
           /\ e.at = place /\ e.status = req[r].status
           /\ e.attempt = req[r].attempt
<1> DEFINE e == [req[r] EXCEPT !.at = place]
<1>1. req[r] \in ReqType
  BY DEF ReqsOK
<1>2. /\ e \in ReqType
      /\ e.at = place /\ e.status = req[r].status
      /\ e.attempt = req[r].attempt
  BY <1>1 DEF ReqType
<1>3. req' = [req EXCEPT ![r] = e]
  BY DEF Goto
<1> QED BY <1>2, <1>3

\* The end of a handler: only the status stays.
LEMMA Left ==
  ASSUME ReqsOK, NEW r \in Reqs, NEW place \in Places, Leave(r, place)
  PROVE  \E e \in ReqType :
           /\ req' = [req EXCEPT ![r] = e]
           /\ e.at = place /\ e.status = req[r].status
<1> DEFINE e == WithStatus(New, place, req[r].status)
<1>1. req[r] \in ReqType
  BY DEF ReqsOK
<1>2. req[r].status \in Codes \cup {0}
  BY <1>1 DEF ReqType, Codes
<1>3. e \in ReqType /\ e.at = place /\ e.status = req[r].status
  BY <1>2, NewTyped, SetStatus
<1>4. req' = [req EXCEPT ![r] = e]
  BY DEF Leave, WithStatus
<1> QED BY <1>3, <1>4

LEMMA Unrecorded ==
  ASSUME ReqsOK, NEW r \in Reqs, UNCHANGED log
  PROVE  log' = [log EXCEPT ![r] = log[r]] /\ log[r] \in Seq(Codes)
BY DEF ReqsOK

LEMMA Recording ==
  ASSUME ReqsOK, NEW r \in Reqs, log[r] = <<>>, NEW status \in Codes,
         Record(r, status)
  PROVE  log' = [log EXCEPT ![r] = <<status>>] /\ <<status>> \in Seq(Codes)
<1>1. Append(<<>>, status) = <<status>> /\ <<status>> \in Seq(Codes)
  OBVIOUS
<1> QED BY <1>1 DEF Record

\* A step that moves r to a place and records nothing.
LEMMA QuietMove ==
  ASSUME ReqsOK, NEW r \in Reqs, NEW place \in Places, Goto(r, place), UNCHANGED log,
         \A e \in ReqType :
           /\ e.at = place /\ e.status = req[r].status
           /\ e.attempt = req[r].attempt
           => /\ Fits(r, e, log[r])
              /\ \/ /\ Counts(r, e, log[r]) <=> Counts(r, req[r], log[r])
                    /\ throttled' = throttled
                 \/ /\ Counts(r, e, log[r]) /\ ~Counts(r, req[r], log[r])
                    /\ throttled' = throttled + 1
  PROVE  ReqsOK'
BY Moved, Unrecorded, ReqStep

-----------------------------------------------------------------------------
(* The steps one by one. *)

\* Before its first call a request moves on, or ends, without a record.
LEMMA EarlyMove ==
  ASSUME ReqsOK, NEW r \in Reqs, NEW place \in {"queued", "admitted", "returning", "done"},
         req[r].at \in Early, Goto(r, place), UNCHANGED <<log, throttled>>
  PROVE  ReqsOK'
<1>1. log[r] = <<>> /\ req[r].status = 0 /\ place \in Places
  BY DEF ReqsOK, Fits, Early, Places
<1>2. ~Counts(r, req[r], log[r])
  BY <1>1, NothingCounted DEF Counts, Early
<1>3. Recorded(r, 0) = <<>>
  BY DEF Recorded
<1>4. ASSUME NEW e \in ReqType, e.at = place, e.status = req[r].status
      PROVE  Fits(r, e, log[r]) /\ ~Counts(r, e, log[r])
  <2>1. Fits(r, e, log[r])
    BY <1>1, <1>3, <1>4 DEF Fits, Early, Trying
  <2>2. ~Counts(r, e, log[r])
    BY <1>1, <1>4, NothingCounted DEF Counts
  <2> QED BY <2>1, <2>2
<1> QED BY <1>1, <1>2, <1>4, QuietMove

LEMMA ArrivalReqs ==
  ASSUME ReqsOK, NEW r \in Reqs,
         NoKeysConfigured(r) \/ Arrive(r) \/ QueueFull(r) \/ Admitted(r)
           \/ NoHealthyKeys(r)
  PROVE  ReqsOK'
<1>0. Fits(r, req[r], log[r])
  BY DEF ReqsOK
<1>1. CASE NoKeysConfigured(r)
  BY <1>1, EarlyMove DEF NoKeysConfigured, Early
<1>2. CASE Arrive(r)
  BY <1>2, EarlyMove DEF Arrive, Early
<1>3. CASE QueueFull(r)
  <2>1. PICK e \in ReqType : req' = [req EXCEPT ![r] = e] /\ e.at = "refused"
    BY <1>3, Moved DEF QueueFull, Places
  <2>2. req[r].at = "new" /\ throttled' = throttled + 1 /\ UNCHANGED log
    BY <1>3 DEF QueueFull
  <2>3. log[r] = <<>>
    BY <1>0, <2>2 DEF Fits, Early
  <2>4. Fits(r, e, log[r])
    BY <2>1, <2>3 DEF Fits, Early, Trying
  <2>5. Counts(r, e, log[r])
    BY <2>1 DEF Counts
  <2>6. ~Counts(r, req[r], log[r])
    BY <2>2, <2>3, NothingCounted DEF Counts
  <2>7. log' = [log EXCEPT ![r] = log[r]] /\ log[r] \in Seq(Codes)
    BY <2>2, Unrecorded
  <2> QED BY <2>1, <2>2, <2>4, <2>5, <2>6, <2>7, ReqStep
<1>4. CASE Admitted(r)
  BY <1>4, EarlyMove DEF Admitted, Early
<1>5. CASE NoHealthyKeys(r)
  BY <1>5, EarlyMove DEF NoHealthyKeys, Early
<1> QED BY <1>1, <1>2, <1>3, <1>4, <1>5

LEMMA TouchReqs ==
  ASSUME session \in [Convs -> SessionType], ReqsOK, NEW r \in Reqs, TouchConversation(r)
  PROVE  ReqsOK'
<1>0. Fits(r, req[r], log[r]) /\ req[r] \in ReqType
  BY DEF ReqsOK
<1> DEFINE e == WithPref(req[r], "touched", TokenOf(ConvOf[r]))
<1>1. TokenOf(ConvOf[r]) \in Nat /\ "touched" \in Places
  BY PipelineAssumption DEF TokenOf, SessionType, Places
<1>2. e \in ReqType /\ e.at = "touched" /\ e.status = req[r].status
  BY <1>0, <1>1, SetPref
<1>3. req' = [req EXCEPT ![r] = e]
  BY DEF TouchConversation, WithPref
<1> HIDE DEF e
<1>4. Fits(r, e, log[r]) /\ (Counts(r, e, log[r]) <=> Counts(r, req[r], log[r]))
  BY <1>0, <1>2 DEF TouchConversation, Fits, Counts, Early, Trying
<1>5. throttled' = throttled /\ UNCHANGED log
  BY DEF TouchConversation
<1> QED BY <1>2, <1>3, <1>4, <1>5, ReqStep, Unrecorded

LEMMA TrackReqs ==
  ASSUME ReqsOK, NEW r \in Reqs, TrackConversation(r)
  PROVE  ReqsOK'
<1>0. Fits(r, req[r], log[r]) /\ req[r] \in ReqType
  BY DEF ReqsOK
<1> DEFINE e == WithAttempt(req[r], "calling", 1)
<1>1. 1 \in 0..MaxRetries /\ "calling" \in Places
  BY PipelineAssumption DEF Places
<1>2. e \in ReqType /\ e.at = "calling" /\ e.status = req[r].status
  BY <1>0, <1>1, SetAttempt
<1>3. req' = [req EXCEPT ![r] = e]
  BY DEF TrackConversation, WithAttempt
<1> HIDE DEF e
<1>4. Fits(r, e, log[r]) /\ (Counts(r, e, log[r]) <=> Counts(r, req[r], log[r]))
  BY <1>0, <1>2 DEF TrackConversation, Fits, Counts, Early, Trying
<1>5. throttled' = throttled /\ UNCHANGED log
  BY DEF TrackConversation
<1> QED BY <1>2, <1>3, <1>4, <1>5, ReqStep, Unrecorded

LEMMA OkReqs ==
  ASSUME ReqsOK, NEW r \in Reqs, NEW place
  PROVE  place \in {"reading", "piping"} /\ UpstreamOk(r, place) => ReqsOK'
<1>1. ASSUME place \in {"reading", "piping"}, UpstreamOk(r, place) PROVE ReqsOK'
  <2>0. Fits(r, req[r], log[r]) /\ req[r] \in ReqType
    BY DEF ReqsOK
  <2> DEFINE e == WithStatus(req[r], place, 200)
  <2>1. place \in Places /\ 200 \in Codes \cup {0}
    BY <1>1 DEF Places, Codes
  <2>2. e \in ReqType /\ e.at = place /\ e.status = 200
    BY <2>0, <2>1, SetStatus
  <2>3. req' = [req EXCEPT ![r] = e]
    BY <1>1 DEF UpstreamOk, WithStatus
  <2> HIDE DEF e
  <2>4. Fits(r, e, log[r]) /\ (Counts(r, e, log[r]) <=> Counts(r, req[r], log[r]))
    BY <1>1, <2>0, <2>2 DEF UpstreamOk, Fits, Failure, Counts, Early, Trying
  <2>5. throttled' = throttled /\ UNCHANGED log
    BY <1>1 DEF UpstreamOk
  <2>7. e \in ReqType
    BY <2>2
  <2> QED BY <2>7, <2>3, <2>4, <2>5, ReqStep, Unrecorded
<1> QED BY <1>1

LEMMA FailsReqs ==
  ASSUME ReqsOK, NEW r \in Reqs, NEW status
  PROVE  status \in {429, 500, 503} /\ UpstreamFails(r, status) => ReqsOK'
<1>1. ASSUME status \in {429, 500, 503}, UpstreamFails(r, status) PROVE ReqsOK'
  <2>0. Fits(r, req[r], log[r]) /\ req[r] \in ReqType
    BY DEF ReqsOK
  <2> DEFINE e == WithStatus(req[r], "failed", status)
  <2>1. "failed" \in Places /\ status \in Codes \cup {0}
    BY <1>1 DEF Places, Codes
  <2>2. e \in ReqType /\ e.at = "failed" /\ e.status = status
    BY <2>0, <2>1, SetStatus
  <2>3. req' = [req EXCEPT ![r] = e]
    BY <1>1 DEF UpstreamFails, WithStatus
  <2> HIDE DEF e
  <2>4. Fits(r, e, log[r]) /\ (Counts(r, e, log[r]) <=> Counts(r, req[r], log[r]))
    BY <1>1, <2>0, <2>2 DEF UpstreamFails, Fits, Counts, Early, Trying
  <2>5. throttled' = throttled /\ UNCHANGED log
    BY <1>1 DEF UpstreamFails
  <2>7. e \in ReqType
    BY <2>2
  <2> QED BY <2>7, <2>3, <2>4, <2>5, ReqStep, Unrecorded
<1> QED BY <1>1

LEMMA OtherReqs ==
  ASSUME ReqsOK, NEW r \in Reqs, NEW status
  PROVE  status \in {304, 429} /\ UpstreamOther(r, status) => ReqsOK'
<1>1. ASSUME status \in {304, 429}, UpstreamOther(r, status) PROVE ReqsOK'
  <2>0. Fits(r, req[r], log[r]) /\ req[r] \in ReqType
    BY DEF ReqsOK
  <2> DEFINE e == WithStatus(req[r], "reading", status)
  <2>1. "reading" \in Places /\ status \in Codes \cup {0}
    BY <1>1 DEF Places, Codes
  <2>2. e \in ReqType /\ e.at = "reading" /\ e.status = status
    BY <2>0, <2>1, SetStatus
  <2>3. req' = [req EXCEPT ![r] = e]
    BY <1>1 DEF UpstreamOther, WithStatus
  <2> HIDE DEF e
  <2>4. req[r].at = "calling" /\ log[r] = <<>>
    BY <1>1, <2>0 DEF UpstreamOther, Fits, Trying
  <2>5. Fits(r, e, log[r])
    BY <1>1, <2>2, <2>4 DEF UpstreamOther, Fits, Early, Trying
  <2>6. ~Counts(r, req[r], log[r])
    BY <2>4, NothingCounted DEF Counts
  <2>7. Counts(r, e, log[r]) <=> status = 429
    BY <1>1, <2>2, <2>4, NothingCounted DEF UpstreamOther, Failure, Counts
  <2>8. \/ ~Counts(r, e, log[r]) /\ throttled' = throttled
        \/ Counts(r, e, log[r]) /\ throttled' = throttled + 1
    BY <1>1, <2>7 DEF UpstreamOther
  <2>9. UNCHANGED log /\ e \in ReqType
    BY <1>1, <2>2 DEF UpstreamOther
  <2> QED BY <2>3, <2>5, <2>6, <2>8, <2>9, ReqStep, Unrecorded
<1> QED BY <1>1

LEMMA AcquireReqs ==
  ASSUME PoolOK, ReqsOK, NEW r \in Reqs, AcquireSlot(r)
  PROVE  ReqsOK'
<1>0. Fits(r, req[r], log[r]) /\ req[r] \in ReqType
  BY DEF ReqsOK
<1>1. PICK i \in Slots : req' = [req EXCEPT ![r] = [@ EXCEPT
                                   !.at = "keyed", !.index = i, !.pref = 0]]
  BY DEF AcquireSlot
<1> DEFINE e == WithSlot(req[r], "keyed", i)
<1>2. i \in Nat /\ "keyed" \in Places
  BY DEF PoolOK, Slots, Places
<1>3. e \in ReqType /\ e.at = "keyed" /\ e.status = req[r].status
  BY <1>0, <1>2, SetSlot
<1>4. req' = [req EXCEPT ![r] = e]
  BY <1>1 DEF WithSlot
<1> HIDE DEF e
<1>5. Fits(r, e, log[r]) /\ (Counts(r, e, log[r]) <=> Counts(r, req[r], log[r]))
  BY <1>0, <1>3 DEF AcquireSlot, Fits, Counts, Early, Trying
<1>6. throttled' = throttled /\ UNCHANGED log
  BY DEF AcquireSlot
<1> QED BY <1>3, <1>4, <1>5, <1>6, ReqStep, Unrecorded

LEMMA PanicReqs ==
  ASSUME ReqsOK, NEW r \in Reqs, PromptCutPanics(r)
  PROVE  ReqsOK'
<1>0. Fits(r, req[r], log[r]) /\ req[r] \in ReqType
  BY DEF ReqsOK
<1>1. PICK e \in ReqType : /\ req' = [req EXCEPT ![r] = e]
                           /\ e.at = "gone" /\ e.status = req[r].status
  BY Left DEF PromptCutPanics, Places
<1>2. Fits(r, e, log[r]) /\ (Counts(r, e, log[r]) <=> Counts(r, req[r], log[r]))
  BY <1>0, <1>1 DEF PromptCutPanics, Fits, Counts, Early, Trying
<1>3. throttled' = throttled /\ UNCHANGED log
  BY DEF PromptCutPanics
<1> QED BY <1>1, <1>2, <1>3, ReqStep, Unrecorded

LEMMA RotateReqs ==
  ASSUME PoolOK, ReqsOK, NEW r \in Reqs, Rotate(r)
  PROVE  ReqsOK'
<1>0. /\ Fits(r, req[r], log[r]) /\ req[r] \in ReqType
      /\ throttled' = throttled /\ UNCHANGED log /\ req[r].at = "rotating"
  BY DEF ReqsOK, Rotate
<1>1. \E e \in ReqType : /\ req' = [req EXCEPT ![r] = e]
                         /\ e.at = "calling" /\ e.status = req[r].status
  <2>1. CASE Goto(r, "calling")
    BY <2>1, Moved DEF Places
  <2>2. CASE ~Goto(r, "calling")
    <3>1. PICK i \in Slots :
            req' = [req EXCEPT ![r] = WithIndex(@, "calling", i)]
      BY <2>2 DEF Rotate, WithIndex
    <3>2. i \in Nat /\ "calling" \in Places
      BY DEF PoolOK, Slots, Places
    <3> DEFINE e == WithIndex(req[r], "calling", i)
    <3>3. e \in ReqType /\ e.at = "calling" /\ e.status = req[r].status
      BY <1>0, <3>2, SetIndex
    <3>4. req' = [req EXCEPT ![r] = e]
      BY <3>1
    <3> HIDE DEF e
    <3> QED BY <3>3, <3>4
  <2> QED BY <2>1, <2>2
<1>2. PICK e \in ReqType : /\ req' = [req EXCEPT ![r] = e]
                           /\ e.at = "calling" /\ e.status = req[r].status
  BY <1>1
<1>3. Fits(r, e, log[r]) /\ (Counts(r, e, log[r]) <=> Counts(r, req[r], log[r]))
  BY <1>0, <1>2 DEF Fits, Counts, Early, Trying
<1> QED BY <1>0, <1>2, <1>3, ReqStep, Unrecorded

LEMMA WakeReqs ==
  ASSUME ReqsOK, NEW r \in Reqs, WakeUp(r)
  PROVE  ReqsOK'
<1>0. /\ Fits(r, req[r], log[r]) /\ req[r] \in ReqType
      /\ throttled' = throttled /\ UNCHANGED log /\ req[r].at = "sleeping"
  BY DEF ReqsOK, WakeUp
<1> DEFINE place == IF Len(entries) > 1 THEN "rotating" ELSE "calling"
           e == WithAttempt(req[r], place, req[r].attempt + 1)
<1>1. req[r].attempt + 1 \in 0..MaxRetries
  BY <1>0, PipelineAssumption DEF Fits, ReqType
<1>2. place \in Places /\ place \in {"rotating", "calling"}
  BY DEF Places
<1>3. req' = [req EXCEPT ![r] = e]
  BY DEF WakeUp, WithAttempt
<1> HIDE DEF place
<1>4. e \in ReqType /\ e.at = place /\ e.status = req[r].status
  BY <1>0, <1>1, <1>2, SetAttempt
<1> HIDE DEF e
<1>5. Fits(r, e, log[r]) /\ (Counts(r, e, log[r]) <=> Counts(r, req[r], log[r]))
  BY <1>0, <1>2, <1>4 DEF Fits, Counts, Early, Trying
<1> QED BY <1>0, <1>3, <1>4, <1>5, ReqStep, Unrecorded

LEMMA NetworkReqs ==
  ASSUME ReqsOK, NEW r \in Reqs, NetworkError(r)
  PROVE  ReqsOK'
<1>0. /\ Fits(r, req[r], log[r]) /\ req[r] \in ReqType
      /\ throttled' = throttled /\ req[r].at = "calling" /\ log[r] = <<>>
  BY DEF ReqsOK, NetworkError, Fits, Trying
<1>1. 502 \in Codes \cup {0} /\ "sleeping" \in Places /\ "returning" \in Places
  BY DEF Codes, Places
<1>2. ~Counts(r, req[r], log[r])
  BY <1>0, NothingCounted DEF Counts
<1>3. CASE Retried(r)
  <2> DEFINE e == WithStatus(req[r], "sleeping", 502)
  <2>1. /\ e \in ReqType /\ e.at = "sleeping" /\ e.status = 502
        /\ e.attempt = req[r].attempt
    BY <1>0, <1>1, SetStatus
  <2>2. req' = [req EXCEPT ![r] = e] /\ UNCHANGED log
    BY <1>3 DEF NetworkError, WithStatus
  <2> HIDE DEF e
  <2>3. Fits(r, e, log[r]) /\ ~Counts(r, e, log[r])
    BY <1>0, <1>3, <2>1, NothingCounted DEF Fits, Counts, Early, Trying, Retried
  <2>4. e \in ReqType
    BY <2>1
  <2> QED BY <1>0, <1>2, <2>2, <2>3, <2>4, ReqStep, Unrecorded
<1>4. CASE ~Retried(r)
  <2> DEFINE e == WithStatus(req[r], "returning", 502)
  <2>1. e \in ReqType /\ e.at = "returning" /\ e.status = 502
    BY <1>0, <1>1, SetStatus
  <2>2. req' = [req EXCEPT ![r] = e]
    BY <1>4 DEF NetworkError, WithStatus
  <2>3. log' = [log EXCEPT ![r] = <<502>>] /\ <<502>> \in Seq(Codes)
    BY <1>0, <1>4, Recording DEF NetworkError, Codes
  <2> HIDE DEF e
  <2>4. Fits(r, e, <<502>>)
    BY <2>1 DEF Fits, Recorded, Early, Trying
  <2>5. ~Counts(r, e, <<502>>)
    BY <2>1 DEF Counts
  <2>6. e \in ReqType /\ throttled' = throttled
    BY <1>0, <2>1
  <2> DEFINE l == <<502>>
  <2>7. /\ log' = [log EXCEPT ![r] = l] /\ l \in Seq(Codes) /\ Fits(r, e, l)
        /\ Counts(r, e, l) <=> Counts(r, req[r], log[r])
    BY <1>2, <2>3, <2>4, <2>5
  <2> HIDE DEF l
  <2> QED BY <2>2, <2>6, <2>7, ReqStep
<1> QED BY <1>3, <1>4

LEMMA BodyReqs ==
  ASSUME ReqsOK, NEW r \in Reqs, BodyRead(r)
  PROVE  ReqsOK'
<1>0. /\ Fits(r, req[r], log[r]) /\ req[r] \in ReqType
      /\ throttled' = throttled /\ req[r].at = "reading" /\ log[r] = <<>>
      /\ req[r].status \in {200, 304, 429} /\ ~Failure(r, req[r].status)
  BY DEF ReqsOK, BodyRead, Fits
<1>1. PICK e \in ReqType : /\ req' = [req EXCEPT ![r] = e]
                           /\ e.at = "returning" /\ e.status = req[r].status
  BY Moved DEF BodyRead, Places
<1>2. Counts(r, req[r], log[r]) <=> req[r].status = 429 /\ OpenAI(r)
  BY <1>0, NothingCounted DEF Counts
<1>3. CASE OpenAI(r) \/ req[r].status # 304
  <2> DEFINE l == <<req[r].status>>
  <2>1. log' = [log EXCEPT ![r] = l] /\ l \in Seq(Codes)
    BY <1>0, <1>3, Recording DEF BodyRead, Codes
  <2>2. Fits(r, e, l)
    BY <1>0, <1>1, <1>3 DEF Fits, Recorded, Early, Trying
  <2>3. Counts(r, e, l) <=> req[r].status = 429
    BY <1>0, <1>1 DEF Counts
  <2>4. req[r].status = 429 => OpenAI(r)
    BY <1>0 DEF Failure
  <2>5. Counts(r, e, l) <=> Counts(r, req[r], log[r])
    BY <1>2, <2>3, <2>4
  <2>6. throttled' = throttled
    BY <1>0
  <2> HIDE DEF l
  <2> QED BY <1>1, <2>1, <2>2, <2>5, <2>6, ReqStep
<1>4. CASE ~(OpenAI(r) \/ req[r].status # 304)
  <2>1. UNCHANGED log
    BY <1>4 DEF BodyRead
  <2>2. Fits(r, e, log[r])
    BY <1>0, <1>1, <1>4 DEF Fits, Recorded, Early, Trying
  <2>3. Counts(r, e, log[r]) <=> Counts(r, req[r], log[r])
    BY <1>0, <1>1, <1>2, <1>4, NothingCounted DEF Counts
  <2>4. log' = [log EXCEPT ![r] = log[r]] /\ log[r] \in Seq(Codes) /\ throttled' = throttled
    BY <1>0, <2>1, Unrecorded
  <2> QED BY <1>1, <2>2, <2>3, <2>4, ReqStep
<1> QED BY <1>3, <1>4

LEMMA ErrorReqs ==
  ASSUME ReqsOK, NEW r \in Reqs, ErrorRead(r)
  PROVE  ReqsOK'
<1>0. /\ req[r] \in ReqType /\ Failure(r, req[r].status)
      /\ req[r].at = "failed" /\ log[r] = <<>>
  BY DEF ReqsOK, ErrorRead, Fits
<1>1. ~Counts(r, req[r], log[r])
  BY <1>0, NothingCounted DEF Counts
<1>2. CASE Retried(r)
  <2>1. /\ Goto(r, "sleeping") /\ UNCHANGED log /\ throttled' = throttled
        /\ OpenAI(r) /\ req[r].attempt < MaxRetries
    BY <1>2 DEF ErrorRead, Retried
  <2>2. PICK e \in ReqType : /\ req' = [req EXCEPT ![r] = e]
                             /\ e.at = "sleeping" /\ e.status = req[r].status
                             /\ e.attempt = req[r].attempt
    BY <2>1, Moved DEF Places
  <2>3. Fits(r, e, log[r])
    BY <1>0, <2>1, <2>2 DEF Fits, Failure, Early, Trying
  <2>4. ~Counts(r, e, log[r])
    BY <1>0, <2>2, NothingCounted DEF Counts
  <2> QED BY <1>1, <2>1, <2>2, <2>3, <2>4, ReqStep, Unrecorded
<1>3. CASE ~Retried(r)
  <2> DEFINE l == <<req[r].status>>
  <2>1. /\ Goto(r, "returning") /\ Record(r, req[r].status)
        /\ throttled' = IF Bumped(r) THEN throttled + 1 ELSE throttled
    BY <1>3 DEF ErrorRead
  <2>2. PICK e \in ReqType : /\ req' = [req EXCEPT ![r] = e]
                             /\ e.at = "returning" /\ e.status = req[r].status
    BY <2>1, Moved DEF Places
  <2>3. req[r].status \in Codes /\ req[r].status # 0 /\ req[r].status # 304
    BY <1>0 DEF Failure, Codes
  <2>4. log' = [log EXCEPT ![r] = l] /\ l \in Seq(Codes)
    BY <1>0, <2>1, <2>3, Recording
  <2>5. Fits(r, e, l)
    BY <2>2, <2>3 DEF Fits, Recorded, Early, Trying
  <2>6. Counts(r, e, l) <=> Bumped(r)
    BY <1>0, <2>2 DEF Counts, Bumped, Failure, OpenAI
  <2> HIDE DEF l
  <2>7. \/ ~Counts(r, e, l) /\ throttled' = throttled
        \/ Counts(r, e, l) /\ throttled' = throttled + 1
    BY <2>1, <2>6
  <2> QED BY <1>1, <2>2, <2>4, <2>5, <2>7, ReqStep
<1> QED BY <1>2, <1>3

LEMMA EndReqs ==
  ASSUME ReqsOK, NEW r \in Reqs,
         Return(r) \/ StreamEnds(r) \/ StreamBreaks(r) \/ Disconnect(r)
  PROVE  ReqsOK'
<1>0. Fits(r, req[r], log[r]) /\ req[r] \in ReqType
  BY DEF ReqsOK
<1>1. CASE Return(r)
  <2> DEFINE place == IF req[r].at = "piping" THEN "streaming" ELSE "done"
  <2>1. /\ Leave(r, place) /\ throttled' = throttled /\ UNCHANGED log
        /\ req[r].at \in {"returning", "piping"}
    BY <1>1 DEF Return
  <2>2. place \in Places
    BY DEF Places
  <2>3. place = IF req[r].at = "piping" THEN "streaming" ELSE "done"
    OBVIOUS
  <2> HIDE DEF place
  <2>4. PICK e \in ReqType : /\ req' = [req EXCEPT ![r] = e]
                             /\ e.at = place /\ e.status = req[r].status
    BY <2>1, <2>2, Left
  <2>5. Fits(r, e, log[r]) /\ (Counts(r, e, log[r]) <=> Counts(r, req[r], log[r]))
    BY <1>0, <2>1, <2>3, <2>4 DEF Fits, Counts, Early, Trying
  <2> QED BY <2>1, <2>4, <2>5, ReqStep, Unrecorded
<1>2. CASE StreamEnds(r)
  <2>1. /\ throttled' = throttled /\ req[r].at = "streaming"
        /\ req[r].status = 200 /\ log[r] = <<>>
    BY <1>0, <1>2 DEF StreamEnds, Fits
  <2>2. PICK e \in ReqType : /\ req' = [req EXCEPT ![r] = e]
                             /\ e.at = "done" /\ e.status = req[r].status
    BY <1>2, Moved DEF StreamEnds, Places
  <2>3. log' = [log EXCEPT ![r] = <<200>>] /\ <<200>> \in Seq(Codes)
    BY <1>2, <2>1, Recording DEF StreamEnds, Codes
  <2>4. Fits(r, e, <<200>>)
    BY <2>1, <2>2 DEF Fits, Recorded, Early, Trying
  <2>5. ~Counts(r, e, <<200>>) /\ ~Counts(r, req[r], log[r])
    BY <2>1, <2>2, NothingCounted DEF Counts
  <2> QED BY <2>1, <2>2, <2>3, <2>4, <2>5, ReqStep
<1>3. CASE StreamBreaks(r)
  <2>1. PICK e \in ReqType : /\ req' = [req EXCEPT ![r] = e]
                             /\ e.at = "gone" /\ e.status = req[r].status
    BY <1>3, Moved DEF StreamBreaks, Places
  <2>2. /\ throttled' = throttled /\ req[r].at = "streaming" /\ UNCHANGED log
        /\ req[r].status = 200 /\ log[r] = <<>>
    BY <1>0, <1>3 DEF StreamBreaks, Fits
  <2>3. Fits(r, e, log[r]) /\ (Counts(r, e, log[r]) <=> Counts(r, req[r], log[r]))
    BY <2>1, <2>2 DEF Fits, Counts, Early, Trying
  <2> QED BY <2>1, <2>2, <2>3, ReqStep, Unrecorded
<1>4. CASE Disconnect(r)
  <2>1. PICK e \in ReqType : /\ req' = [req EXCEPT ![r] = e]
                             /\ e.at = "gone" /\ e.status = req[r].status
    BY <1>4, Left DEF Disconnect, Places
  <2>2. /\ req[r].at \in {"queued", "calling", "reading", "failed", "sleeping"}
        /\ throttled' = throttled /\ UNCHANGED log
    BY <1>4 DEF Disconnect
  <2>3. log[r] = <<>>
    BY <1>0, <2>2 DEF Fits, Early, Trying
  <2>4. req[r].status = 429 /\ OpenAI(r) => req[r].at = "reading"
    BY <1>0, <2>2 DEF Fits, Failure, Early, Trying
  <2>5. Counts(r, e, log[r]) <=> Counts(r, req[r], log[r])
    BY <2>1, <2>2, <2>3, <2>4, NothingCounted DEF Counts
  <2>6. Fits(r, e, log[r])
    BY <2>1, <2>3 DEF Fits, Early, Trying
  <2> QED BY <2>1, <2>2, <2>5, <2>6, ReqStep, Unrecorded
<1> QED BY <1>1, <1>2, <1>3, <1>4

-----------------------------------------------------------------------------
(* The gate's places. *)

Queued == Gate!Queued

GateOK ==
  /\ queue \in Seq(Reqs) /\ running \subseteq Reqs /\ limit = MaxActive
  /\ Cardinality(running) <= limit
  /\ \A i, j \in 1..Len(queue) : queue[i] = queue[j] => i = j
  /\ Queued \cap running = {}

\* The gate knows the handlers and the queued requests, and nobody else.
Placed ==
  /\ running \cup Queued = Handlers \cup At({"queued"})
  /\ Handlers \subseteq running

\* The instance's operators on sets and sequences are the library's.
LEMMA SameCardinality == \A S : Gate!Cardinality(S) = Cardinality(S)
BY DEF Gate!Cardinality, Cardinality

LEMMA SameRemoveAt == \A s, i : Gate!RemoveAt(s, i) = RemoveAt(s, i)
BY DEF Gate!RemoveAt, RemoveAt

LEMMA PlacedHeld == GateOK /\ Placed => PlacesHeld
<1> SUFFICES ASSUME GateOK, Placed PROVE PlacesHeld
  OBVIOUS
<1>1. Handlers \cap At({"queued"}) = {}
  BY DEF Handlers, At
<1>2. Queued = {queue[i] : i \in DOMAIN queue}
  BY DEF Queued, Gate!Queued
<1> QED BY <1>1, <1>2 DEF PlacesHeld, GateOK, Placed

LEMMA RunningFinite ==
  ASSUME GateOK
  PROVE  /\ IsFiniteSet(running) /\ Cardinality(running) \in Nat
         /\ limit \in Nat \ {0}
BY PipelineAssumption, FS_Subset, FS_CardinalityType DEF GateOK

LEMMA EnterKeeps ==
  ASSUME GateOK, NEW r \in Reqs, Gate!Enter(r)
  PROVE  /\ GateOK' /\ running' = running \cup {r} /\ Queued' = Queued
         /\ r \notin running \cup Queued
<1>1. /\ r \notin running \cup Queued /\ Cardinality(running) < limit
      /\ running' = running \cup {r} /\ UNCHANGED <<queue, limit>>
  BY SameCardinality DEF Gate!Enter, Queued
<1>2. Queued' = Queued
  BY <1>1 DEF Queued, Gate!Queued
<1>3. Cardinality(running') = Cardinality(running) + 1
  BY <1>1, RunningFinite, FS_AddElement
<1>4. Cardinality(running') <= limit'
  BY <1>1, <1>3, RunningFinite
<1> QED BY <1>1, <1>2, <1>4 DEF GateOK

LEMMA JoinKeeps ==
  ASSUME GateOK, NEW r \in Reqs, Gate!Join(r)
  PROVE  /\ GateOK' /\ running' = running /\ Queued' = Queued \cup {r}
         /\ r \notin running \cup Queued
<1>1. /\ r \notin running \cup Queued
      /\ queue' = Append(queue, r) /\ UNCHANGED <<running, limit>>
  BY DEF Gate!Join, Queued
<1> DEFINE n == Len(queue)
<1>2. /\ n \in Nat /\ queue' \in Seq(Reqs) /\ Len(queue') = n + 1
      /\ \A i \in 1..n : queue'[i] = queue[i]
      /\ queue'[n + 1] = r
  BY <1>1 DEF GateOK
<1>3. Queued = {queue[i] : i \in 1..n} /\ Queued' = {queue'[i] : i \in 1..n + 1}
  BY <1>2 DEF Queued, Gate!Queued, GateOK
<1> HIDE DEF n
<1>4. 1..n + 1 = (1..n) \cup {n + 1}
  BY <1>2
<1>5. Queued' = Queued \cup {r}
  BY <1>2, <1>3, <1>4
<1>6. \A i \in 1..n : queue[i] # r
  BY <1>1, <1>3
<1>7. \A i, j \in 1..n + 1 : queue'[i] = queue'[j] => i = j
  BY <1>2, <1>4, <1>6 DEF GateOK, n
<1> QED BY <1>1, <1>2, <1>5, <1>7 DEF GateOK

LEMMA GiveUpKeeps ==
  ASSUME GateOK, NEW r \in Reqs, Gate!GiveUp(r)
  PROVE  /\ GateOK' /\ running' = running /\ Queued' = Queued \ {r}
         /\ r \in Queued
<1>1. PICK k \in DOMAIN queue : queue[k] = r /\ queue' = RemoveAt(queue, k)
  BY SameRemoveAt DEF Gate!GiveUp
<1>2. UNCHANGED <<running, limit>>
  BY DEF Gate!GiveUp
<1> DEFINE n == Len(queue)
<1>3. n \in Nat /\ k \in 1..n /\ queue \in Seq(Reqs)
  BY <1>1 DEF GateOK
<1>4. /\ queue' \in Seq(Reqs) /\ Len(queue') = n - 1
      /\ \A j \in 1..n - 1 : queue'[j] = IF j < k THEN queue[j] ELSE queue[j + 1]
  BY <1>1, <1>3, RemoveAtFacts
<1>5. Queued = {queue[i] : i \in 1..n} /\ Queued' = {queue'[i] : i \in 1..n - 1}
  <2>1. DOMAIN queue = 1..n /\ DOMAIN queue' = 1..n - 1
    BY <1>3, <1>4, LenProperties
  <2> HIDE DEF n
  <2>2. Queued = {queue[i] : i \in 1..n}
    BY <2>1 DEF Queued, Gate!Queued
  <2>3. Queued' = {queue'[i] : i \in 1..n - 1}
    BY <2>1 DEF Queued, Gate!Queued
  <2> QED BY <2>2, <2>3
<1>6. \A i, j \in 1..n : queue[i] = queue[j] => i = j
  BY DEF GateOK
<1> HIDE DEF n
<1> DEFINE From(i) == IF i < k THEN i ELSE i + 1
<1>10. \A i \in 1..n - 1 : From(i) \in 1..n /\ queue'[i] = queue[From(i)]
  BY <1>3, <1>4
<1>11. \A i, j \in 1..n - 1 : From(i) = From(j) => i = j
  BY <1>3
<1>12. \A i \in 1..n - 1 : From(i) # k
  BY <1>3
<1> HIDE DEF From
<1>7. \A i, j \in 1..n - 1 : queue'[i] = queue'[j] => i = j
  BY <1>10, <1>11, <1>6
<1>8. Queued' = Queued \ {r}
  <2>1. \A i \in 1..n - 1 : queue'[i] \in Queued /\ queue'[i] # r
    <3> SUFFICES ASSUME NEW i \in 1..n - 1
                 PROVE  queue'[i] \in Queued /\ queue'[i] # r
      OBVIOUS
    <3>1. From(i) \in 1..n /\ queue'[i] = queue[From(i)] /\ From(i) # k
      BY <1>10, <1>12
    <3>2. queue[k] = r
      BY <1>1
    <3> QED BY <3>1, <3>2, <1>3, <1>5, <1>6
  <2>2. \A i \in 1..n : queue[i] # r => \E j \in 1..n - 1 : queue'[j] = queue[i]
    <3> SUFFICES ASSUME NEW i \in 1..n, queue[i] # r
                 PROVE  \E j \in 1..n - 1 : queue'[j] = queue[i]
      OBVIOUS
    <3>1. CASE i < k
      BY <3>1, <1>3, <1>4
    <3>2. CASE i > k
      <4>1. i - 1 \in 1..n - 1 /\ ~(i - 1 < k) /\ (i - 1) + 1 = i
        BY <3>2, <1>3
      <4>2. queue'[i - 1] = queue[i]
        BY <4>1, <1>4
      <4> QED BY <4>1, <4>2
    <3> QED BY <3>1, <3>2, <1>1, <1>3
  <2> QED BY <1>5, <2>1, <2>2
<1> QED BY <1>1, <1>2, <1>3, <1>4, <1>5, <1>7, <1>8 DEF GateOK, n

\* A handler that leaves gives its place to the head of the queue, if any.
LEMMA LeaveKeeps ==
  ASSUME GateOK, NEW r \in Reqs, Gate!Leave(r)
  PROVE  /\ GateOK' /\ r \in running
         /\ running \ {r} \subseteq running'
         /\ running' \cup Queued' = (running \cup Queued) \ {r}
<1> DEFINE n == Len(queue)
           k == IF n >= 1 THEN 1 ELSE 0
           Serve(m) == LET h == IF m <= n THEN m ELSE n
                       IN  /\ running' = (running \ {r}) \cup {queue[i] : i \in 1..h}
                           /\ queue' = SubSeq(queue, h + 1, n)
                           /\ limit' = limit + 0
<1>0. n \in Nat /\ queue \in Seq(Reqs) /\ r \in running
  BY DEF GateOK, Gate!Leave
<1>1. 0 + Gate!Cardinality({r}) = 1
  <2>1. Cardinality({r}) = 1
    BY FS_Singleton
  <2> QED BY <2>1, SameCardinality
<1>2. /\ running' = (running \ {r}) \cup {queue[i] : i \in 1..k}
      /\ queue' = SubSeq(queue, k + 1, n)
      /\ limit' = limit + 0
  <2>1. Serve(1)
    BY <1>1 DEF Gate!Leave, Gate!Serve
  <2>2. k = IF 1 <= n THEN 1 ELSE n
    BY <1>0
  <2> QED BY <2>1, <2>2
<1>3. k \in {0, 1} /\ k <= n
  BY <1>0
<1>4. limit' = MaxActive
  BY <1>2, RunningFinite DEF GateOK
<1>5. /\ queue' \in Seq(Reqs) /\ Len(queue') = n - k
      /\ \A j \in 1..n - k : queue'[j] = queue[j + k]
  <2>1. \A j \in k + 1..n : queue[j] \in Reqs
    BY <1>0, <1>3
  <2>2. k + 1 \in 1..n + 1 /\ n \in k..n
    BY <1>0, <1>3
  <2> HIDE DEF k, n
  <2> QED BY <1>0, <1>2, <1>3, <2>1, <2>2, SubSeqProperties DEF n
<1>6. Queued = {queue[i] : i \in 1..n} /\ Queued' = {queue'[i] : i \in 1..n - k}
  BY <1>0, <1>5 DEF Queued, Gate!Queued
<1>7. \A i, j \in 1..n : queue[i] = queue[j] => i = j
  BY DEF GateOK
<1>8. Queued \cap running = {} /\ Queued \subseteq Reqs
  BY <1>0, <1>6 DEF GateOK
<1> HIDE DEF n
<1>9. CASE k = 0
  <2>1. n = 0
    BY <1>0, <1>9
  <2>2. running' = running \ {r} /\ Queued = {} /\ Queued' = {}
    BY <1>2, <1>6, <1>9, <2>1
  <2>3. Cardinality(running') <= limit'
    <3>1. Cardinality(running \ {r}) = Cardinality(running) - 1
      BY <1>0, RunningFinite, FS_RemoveElement
    <3> QED BY <1>4, <2>2, <3>1, RunningFinite DEF GateOK
  <2>4. Len(queue') = 0
    BY <1>5, <1>9, <2>1
  <2> QED BY <1>0, <1>4, <1>5, <2>2, <2>3, <2>4 DEF GateOK
<1>10. CASE k = 1
  <2>1. 1 \in 1..n /\ queue[1] \in Reqs
    BY <1>0, <1>10 DEF n
  <2> DEFINE h == queue[1]
  <2>2. running' = (running \ {r}) \cup {h} /\ h \in Queued /\ h \notin running
    BY <1>2, <1>6, <1>8, <1>10, <2>1
  <2>3. Cardinality(running') = Cardinality(running)
    <3>1. /\ IsFiniteSet(running \ {r})
          /\ Cardinality(running \ {r}) = Cardinality(running) - 1
      BY <1>0, RunningFinite, FS_RemoveElement
    <3>2. Cardinality(running') = Cardinality(running \ {r}) + 1
      BY <2>2, <3>1, FS_AddElement
    <3> QED BY <3>1, <3>2, RunningFinite
  <2>4. Queued' = Queued \ {h}
    <3>1. \A i \in 1..n - 1 : i + 1 \in 1..n /\ queue'[i] = queue[i + 1] /\ i + 1 # 1
      BY <1>0, <1>5, <1>10
    <3>2. \A i \in 1..n - 1 : queue'[i] \in Queued \ {h}
      BY <1>6, <1>7, <2>1, <3>1
    <3>3. \A i \in 1..n : queue[i] # h => i - 1 \in 1..n - 1 /\ queue'[i - 1] = queue[i]
      BY <1>0, <1>5, <1>10
    <3> QED BY <1>6, <1>10, <3>2, <3>3
  <2>5. \A i, j \in 1..Len(queue') : queue'[i] = queue'[j] => i = j
    <3>1. \A i \in 1..n - 1 : i + 1 \in 1..n /\ queue'[i] = queue[i + 1]
      BY <1>0, <1>5, <1>10
    <3>2. \A i, j \in 1..n - 1 : queue'[i] = queue'[j] => i + 1 = j + 1
      BY <1>7, <3>1
    <3> QED BY <1>0, <1>5, <1>10, <3>2
  <2>6. running' \cup Queued' = (running \cup Queued) \ {r} /\ r \notin Queued
    BY <1>0, <1>8, <2>2, <2>4
  <2>7. running' \subseteq Reqs /\ Queued' \cap running' = {}
    BY <1>0, <1>8, <2>1, <2>2, <2>4 DEF GateOK
  <2>8. Cardinality(running') <= limit'
    BY <1>4, <2>3 DEF GateOK
  <2> QED BY <1>0, <1>4, <1>5, <2>2, <2>5, <2>6, <2>7, <2>8 DEF GateOK
<1> QED BY <1>3, <1>9, <1>10

-----------------------------------------------------------------------------
(* Which requests the gate knows. *)

Inside == {"admitted", "touched", "keyed", "calling", "reading", "failed",
           "sleeping", "rotating", "returning", "piping"}
Admitting == Inside \cup {"queued"}

\* A step of request r leaves the others where they are.
Alone(r) == \A q \in Reqs \ {r} : req'[q].at = req[q].at

LEMMA PlaceSets == Handlers = At(Inside) /\ At(Admitting) = Handlers \cup At({"queued"})
BY DEF Handlers, At, Inside, Admitting

\* What a change of r's place does to a group.
LEMMA GroupStep ==
  ASSUME NEW r \in Reqs, Alone(r), NEW S
  PROVE  /\ req[r].at \in S /\ req'[r].at \in S => At(S)' = At(S)
         /\ req[r].at \notin S /\ req'[r].at \notin S => At(S)' = At(S)
         /\ req[r].at \notin S /\ req'[r].at \in S => At(S)' = At(S) \cup {r}
         /\ req[r].at \in S /\ req'[r].at \notin S => At(S)' = At(S) \ {r}
BY DEF At, Alone

GateInv == GateOK /\ Placed

\* A handler goes on, or somebody the gate does not know does.
LEMMA SameSide ==
  ASSUME GateInv, NEW r \in Reqs, Alone(r), UNCHANGED gateVars,
         \/ req[r].at \in Inside /\ req'[r].at \in Inside
         \/ req[r].at \notin Admitting /\ req'[r].at \notin Admitting
  PROVE  GateInv'
<1>1. At(Inside)' = At(Inside)
  BY GroupStep DEF Inside, Admitting
<1>2. At(Admitting)' = At(Admitting)
  BY GroupStep DEF Inside, Admitting
<1>3. At(Inside)' = Handlers' /\ At(Admitting)' = Handlers' \cup At({"queued"})'
  BY DEF Handlers, At, Inside, Admitting
<1>4. Queued' = Queued
  BY DEF Queued, Gate!Queued, gateVars
<1> QED BY <1>1, <1>2, <1>3, <1>4, PlaceSets DEF GateInv, GateOK, Placed, gateVars

LEMMA AdmittedGate ==
  ASSUME GateInv, NEW r \in Reqs, Alone(r), UNCHANGED gateVars, r \in running,
         req[r].at = "queued", req'[r].at = "admitted"
  PROVE  GateInv'
<1>1. At(Inside)' = At(Inside) \cup {r} /\ At(Admitting)' = At(Admitting)
  BY GroupStep DEF Inside, Admitting
<1>2. At(Inside)' = Handlers' /\ At(Admitting)' = Handlers' \cup At({"queued"})'
  BY DEF Handlers, At, Inside, Admitting
<1>3. Queued' = Queued
  BY DEF Queued, Gate!Queued, gateVars
<1> QED BY <1>1, <1>2, <1>3, PlaceSets DEF GateInv, GateOK, Placed, gateVars

LEMMA ArriveGate ==
  ASSUME GateInv, NEW r \in Reqs, Alone(r), req[r].at = "new",
         \/ Gate!Enter(r) /\ req'[r].at = "admitted"
         \/ Gate!Join(r) /\ req'[r].at = "queued"
  PROVE  GateInv'
<1>1. At(Admitting)' = At(Admitting) \cup {r}
  BY GroupStep DEF Inside, Admitting
<1>2. At(Inside)' = Handlers' /\ At(Admitting)' = Handlers' \cup At({"queued"})'
  BY DEF Handlers, At, Inside, Admitting
<1>3. CASE Gate!Enter(r) /\ req'[r].at = "admitted"
  <2>1. At(Inside)' = At(Inside) \cup {r}
    BY <1>3, GroupStep DEF Inside
  <2> QED BY <1>1, <1>2, <1>3, <2>1, EnterKeeps, PlaceSets DEF GateInv, Placed
<1>4. CASE Gate!Join(r) /\ req'[r].at = "queued"
  <2>1. At(Inside)' = At(Inside)
    BY <1>4, GroupStep DEF Inside
  <2> QED BY <1>1, <1>2, <1>4, <2>1, JoinKeeps, PlaceSets DEF GateInv, Placed
<1> QED BY <1>3, <1>4

\* The end of a handler, or of a wait.
LEMMA LeaveGate ==
  ASSUME GateInv, NEW r \in Reqs, Alone(r), req[r].at \in Admitting,
         req'[r].at \notin Admitting, Gate!Leave(r) \/ Gate!GiveUp(r)
  PROVE  GateInv'
<1>1. At(Admitting)' = At(Admitting) \ {r}
  BY GroupStep
<1>2. At(Inside)' = Handlers' /\ At(Admitting)' = Handlers' \cup At({"queued"})'
  BY DEF Handlers, At, Inside, Admitting
<1>3. At(Inside)' = At(Inside) \ {r}
  <2>1. CASE req[r].at \in Inside
    BY <2>1, GroupStep DEF Admitting
  <2>2. CASE req[r].at \notin Inside
    BY <2>2, GroupStep DEF At, Admitting
  <2> QED BY <2>1, <2>2
<1>4. CASE Gate!Leave(r)
  BY <1>1, <1>2, <1>3, <1>4, LeaveKeeps, PlaceSets DEF GateInv, Placed
<1>5. CASE Gate!GiveUp(r)
  <2>1. /\ GateOK' /\ running' = running /\ Queued' = Queued \ {r}
        /\ r \in Queued /\ r \notin running
    BY <1>5, GiveUpKeeps DEF GateInv, GateOK
  <2> QED BY <1>1, <1>2, <1>3, <2>1, PlaceSets DEF GateInv, Placed
<1> QED BY <1>4, <1>5

-----------------------------------------------------------------------------
(* Where each step takes its request. *)

\* A step that puts r in the state e.
LEMMA PutAlone ==
  ASSUME ReqsOK, NEW r \in Reqs, NEW e, req' = [req EXCEPT ![r] = e]
  PROVE  Alone(r) /\ req'[r].at = e.at
BY DEF ReqsOK, Alone

LEMMA GotoAlone ==
  ASSUME ReqsOK, NEW r \in Reqs, NEW place \in Places
  PROVE  Goto(r, place) \/ Leave(r, place) => Alone(r) /\ req'[r].at = place
<1>1. ASSUME Goto(r, place) PROVE Alone(r) /\ req'[r].at = place
  BY <1>1, Moved, PutAlone
<1>2. ASSUME Leave(r, place) PROVE Alone(r) /\ req'[r].at = place
  BY <1>2, Left, PutAlone
<1> QED BY <1>1, <1>2

LEMMA WithAt ==
  ASSUME NEW e \in ReqType, NEW x, NEW n
  PROVE  /\ WithStatus(e, x, n).at = x /\ WithAttempt(e, x, n).at = x
         /\ WithIndex(e, x, n).at = x /\ WithPref(e, x, n).at = x
         /\ WithSlot(e, x, n).at = x
BY DEF ReqType, WithStatus, WithAttempt, WithIndex, WithPref, WithSlot

LEMMA PutAt ==
  ASSUME ReqsOK, NEW r \in Reqs, NEW x, NEW n
  PROVE  \/ req' = [req EXCEPT ![r] = WithStatus(req[r], x, n)]
         \/ req' = [req EXCEPT ![r] = WithAttempt(req[r], x, n)]
         \/ req' = [req EXCEPT ![r] = WithIndex(req[r], x, n)]
         \/ req' = [req EXCEPT ![r] = WithPref(req[r], x, n)]
         \/ req' = [req EXCEPT ![r] = WithSlot(req[r], x, n)]
         => req'[r].at = x
<1>1. req[r] \in ReqType
  BY DEF ReqsOK
<1>2. \A e : req' = [req EXCEPT ![r] = e] => req'[r].at = e.at
  BY PutAlone
<1>3. /\ WithStatus(req[r], x, n).at = x /\ WithAttempt(req[r], x, n).at = x
      /\ WithIndex(req[r], x, n).at = x /\ WithPref(req[r], x, n).at = x
      /\ WithSlot(req[r], x, n).at = x
  BY <1>1, WithAt
<1>4. req' = [req EXCEPT ![r] = WithStatus(req[r], x, n)] => req'[r].at = x
  BY <1>2, <1>3
<1>5. req' = [req EXCEPT ![r] = WithAttempt(req[r], x, n)] => req'[r].at = x
  BY <1>2, <1>3
<1>6. req' = [req EXCEPT ![r] = WithIndex(req[r], x, n)] => req'[r].at = x
  BY <1>2, <1>3
<1>7. req' = [req EXCEPT ![r] = WithPref(req[r], x, n)] => req'[r].at = x
  BY <1>2, <1>3
<1>8. req' = [req EXCEPT ![r] = WithSlot(req[r], x, n)] => req'[r].at = x
  BY <1>2, <1>3
<1> QED BY <1>4, <1>5, <1>6, <1>7, <1>8

LEMMA StatusAt ==
  ASSUME ReqsOK, NEW r \in Reqs, NEW x, NEW n,
         req' = [req EXCEPT ![r] = WithStatus(req[r], x, n)]
  PROVE  req'[r].at = x
<1>1. req[r] \in ReqType
  BY DEF ReqsOK
<1>2. req'[r].at = WithStatus(req[r], x, n).at
  BY PutAlone
<1>3. WithStatus(req[r], x, n).at = x
  BY <1>1, WithAt
<1> QED BY <1>2, <1>3

LEMMA OutsideGate ==
  ASSUME ReqsOK, GateInv, NEW r \in Reqs,
         NoKeysConfigured(r) \/ QueueFull(r) \/ StreamEnds(r) \/ StreamBreaks(r)
  PROVE  GateInv'
<1>1. PICK place \in {"done", "refused", "gone"} : Goto(r, place)
  BY DEF NoKeysConfigured, QueueFull, StreamEnds, StreamBreaks
<1>2. req[r].at \in {"new", "streaming"} /\ UNCHANGED gateVars
  BY DEF NoKeysConfigured, QueueFull, StreamEnds, StreamBreaks
<1>3. place \in Places
  BY DEF Places
<1>4. Alone(r) /\ req'[r].at = place
  BY <1>1, <1>3, GotoAlone
<1>5. req[r].at \notin Admitting /\ req'[r].at \notin Admitting
  BY <1>2, <1>4 DEF Admitting, Inside
<1> QED BY <1>2, <1>4, <1>5, SameSide

LEMMA AdmissionGate ==
  ASSUME ReqsOK, GateInv, NEW r \in Reqs, Arrive(r) \/ Admitted(r)
  PROVE  GateInv'
<1>1. "admitted" \in Places /\ "queued" \in Places
  BY DEF Places
<1>2. CASE Arrive(r)
  <2>1. /\ req[r].at = "new"
        /\ \/ Gate!Enter(r) /\ Goto(r, "admitted")
           \/ Gate!Join(r) /\ Goto(r, "queued")
    BY <1>2 DEF Arrive
  <2>2. Alone(r)
    BY <1>1, <2>1, GotoAlone
  <2>3. \/ Gate!Enter(r) /\ req'[r].at = "admitted"
        \/ Gate!Join(r) /\ req'[r].at = "queued"
    BY <1>1, <2>1, GotoAlone
  <2> QED BY <2>1, <2>2, <2>3, ArriveGate
<1>3. CASE Admitted(r)
  <2>1. req[r].at = "queued" /\ r \in running /\ UNCHANGED gateVars
    BY <1>3 DEF Admitted
  <2>2. Alone(r) /\ req'[r].at = "admitted"
    BY <1>1, <1>3, GotoAlone DEF Admitted
  <2> QED BY <2>1, <2>2, AdmittedGate
<1> QED BY <1>2, <1>3

LEMMA HandlerGate ==
  ASSUME ReqsOK, GateInv, NEW r \in Reqs,
         \/ TouchConversation(r) \/ AcquireSlot(r) \/ NoHealthyKeys(r)
         \/ TrackConversation(r) \/ Rotate(r) \/ NetworkError(r) \/ BodyRead(r)
         \/ ErrorRead(r) \/ WakeUp(r)
  PROVE  GateInv'
<1>0. req[r] \in ReqType /\ UNCHANGED gateVars /\ req[r].at \in Inside
  BY DEF ReqsOK, TouchConversation, AcquireSlot, NoHealthyKeys, TrackConversation,
     Rotate, NetworkError, BodyRead, ErrorRead, WakeUp, Inside
<1>1. Alone(r)
  <2>1. CASE TouchConversation(r) \/ AcquireSlot(r) \/ NoHealthyKeys(r)
    BY <2>1 DEF ReqsOK, Alone, TouchConversation, AcquireSlot, NoHealthyKeys, Goto
  <2>2. CASE TrackConversation(r) \/ Rotate(r)
    BY <2>2 DEF ReqsOK, Alone, TrackConversation, Rotate, Goto
  <2>3. CASE NetworkError(r) \/ BodyRead(r)
    BY <2>3 DEF ReqsOK, Alone, NetworkError, BodyRead, Goto
  <2>4. CASE ErrorRead(r) \/ WakeUp(r)
    BY <2>4 DEF ReqsOK, Alone, ErrorRead, WakeUp, Goto
  <2> QED BY <2>1, <2>2, <2>3, <2>4
<1>2. req'[r].at \in {"touched", "keyed", "returning", "calling", "sleeping", "rotating"}
  <2>1. CASE TouchConversation(r)
    <3>1. req' = [req EXCEPT ![r] = WithPref(req[r], "touched", TokenOf(ConvOf[r]))]
      BY <2>1 DEF TouchConversation, WithPref
    <3> QED BY <3>1, PutAt
  <2>2. CASE AcquireSlot(r)
    <3>1. PICK i \in Slots : req' = [req EXCEPT ![r] = WithSlot(req[r], "keyed", i)]
      BY <2>2 DEF AcquireSlot, WithSlot
    <3> QED BY <3>1, PutAt
  <2>3. CASE TrackConversation(r)
    <3>1. req' = [req EXCEPT ![r] = WithAttempt(req[r], "calling", 1)]
      BY <2>3 DEF TrackConversation, WithAttempt
    <3> QED BY <3>1, PutAt
  <2>4. CASE Rotate(r)
    <3>1. \/ Goto(r, "calling")
          \/ \E i \in Slots : req' = [req EXCEPT ![r] = WithIndex(req[r], "calling", i)]
      BY <2>4 DEF Rotate, WithIndex
    <3>2. Goto(r, "calling") => req'[r].at = "calling"
      BY GotoAlone DEF Places
    <3> QED BY <3>1, <3>2, PutAt
  <2>5. CASE NetworkError(r)
    <3> DEFINE nothing == 502
    <3>1. \/ req' = [req EXCEPT ![r] = WithStatus(req[r], "sleeping", nothing)]
          \/ req' = [req EXCEPT ![r] = WithStatus(req[r], "returning", nothing)]
      BY <2>5 DEF NetworkError, WithStatus
    <3> HIDE DEF nothing
    <3>2. CASE req' = [req EXCEPT ![r] = WithStatus(req[r], "sleeping", nothing)]
      BY <3>2, PutAt
    <3>3. CASE req' = [req EXCEPT ![r] = WithStatus(req[r], "returning", nothing)]
      BY <3>3, PutAt
    <3> QED BY <3>1, <3>2, <3>3
  <2>6. CASE WakeUp(r)
    <3> DEFINE place == IF Len(entries) > 1 THEN "rotating" ELSE "calling"
    <3>1. req' = [req EXCEPT ![r] = WithAttempt(req[r], place, req[r].attempt + 1)]
      BY <2>6 DEF WakeUp, WithAttempt
    <3>2. place \in {"rotating", "calling"}
      OBVIOUS
    <3> HIDE DEF place
    <3> QED BY <3>1, <3>2, PutAt
  <2>7. CASE NoHealthyKeys(r) \/ BodyRead(r) \/ ErrorRead(r)
    <3>1. Goto(r, "returning") \/ Goto(r, "sleeping")
      BY <2>7 DEF NoHealthyKeys, BodyRead, ErrorRead
    <3> QED BY <3>1, GotoAlone DEF Places
  <2> QED BY <2>1, <2>2, <2>3, <2>4, <2>5, <2>6, <2>7
<1>3. req'[r].at \in Inside
  BY <1>2 DEF Inside
<1> QED BY <1>0, <1>1, <1>3, SameSide

LEMMA AnswerGate ==
  ASSUME ReqsOK, GateInv, NEW r \in Reqs, NEW place, NEW status
  PROVE  \/ place \in {"reading", "piping"} /\ UpstreamOk(r, place)
         \/ UpstreamFails(r, status) \/ UpstreamOther(r, status)
         => GateInv'
<1>1. ASSUME \/ place \in {"reading", "piping"} /\ UpstreamOk(r, place)
             \/ UpstreamFails(r, status) \/ UpstreamOther(r, status)
      PROVE  GateInv'
  <2>0. req[r] \in ReqType /\ UNCHANGED gateVars /\ req[r].at = "calling"
    BY <1>1 DEF ReqsOK, UpstreamOk, UpstreamFails, UpstreamOther
  <2>1. Alone(r)
    BY <1>1 DEF ReqsOK, Alone, UpstreamOk, UpstreamFails, UpstreamOther
  <2>2. req'[r].at \in {"reading", "piping", "failed"}
    <3>1. \/ /\ place \in {"reading", "piping"}
             /\ req' = [req EXCEPT ![r] = WithStatus(req[r], place, 200)]
          \/ req' = [req EXCEPT ![r] = WithStatus(req[r], "failed", status)]
          \/ req' = [req EXCEPT ![r] = WithStatus(req[r], "reading", status)]
      BY <1>1 DEF UpstreamOk, UpstreamFails, UpstreamOther, WithStatus
    <3>2. CASE /\ place \in {"reading", "piping"}
               /\ req' = [req EXCEPT ![r] = WithStatus(req[r], place, 200)]
      <4>1. req' = [req EXCEPT ![r] = WithStatus(req[r], place, 200)]
        BY <3>2
      <4>2. req'[r].at = place
        BY <4>1, StatusAt
      <4> QED BY <4>2, <3>2
    <3>3. CASE req' = [req EXCEPT ![r] = WithStatus(req[r], "failed", status)]
      BY <3>3, StatusAt
    <3>4. CASE req' = [req EXCEPT ![r] = WithStatus(req[r], "reading", status)]
      BY <3>4, StatusAt
    <3> QED BY <3>1, <3>2, <3>3, <3>4
  <2>3. req[r].at \in Inside /\ req'[r].at \in Inside
    BY <2>0, <2>2 DEF Inside
  <2> QED BY <2>0, <2>1, <2>3, SameSide
<1> QED BY <1>1

LEMMA EndGate ==
  ASSUME ReqsOK, GateInv, NEW r \in Reqs,
         PromptCutPanics(r) \/ Return(r) \/ Disconnect(r)
  PROVE  GateInv'
<1>1. \E place \in {"gone", "streaming", "done"} : Leave(r, place)
  BY DEF PromptCutPanics, Return, Disconnect
<1>2. PICK place \in {"gone", "streaming", "done"} : Leave(r, place)
  BY <1>1
<1>3. place \in Places /\ place \notin Admitting
  BY DEF Places, Admitting, Inside
<1>4. Alone(r) /\ req'[r].at = place
  BY <1>2, <1>3, GotoAlone
<1>5. req[r].at \in Admitting /\ (Gate!Leave(r) \/ Gate!GiveUp(r))
  BY DEF PromptCutPanics, Return, Disconnect, Admitting, Inside
<1>6. req'[r].at \notin Admitting
  BY <1>3, <1>4
<1> QED BY <1>4, <1>5, <1>6, LeaveGate

-----------------------------------------------------------------------------
(* The conversation map and the key pool. *)

ConvOK ==
  order \in Seq(Convs) /\ session \in [Convs -> SessionType] /\ counter \in Nat

\* A conversation that is used moves to the front.
LEMMA UsedFirst ==
  ASSUME ConvOK, NEW fp \in Convs, Known(fp)
  PROVE  UseFirst(fp) \in Seq(Convs)
<1> DEFINE k == CHOOSE i \in DOMAIN order : order[i] = fp
<1>1. k \in DOMAIN order
  BY DEF Known, ToSet
<1>2. order \in Seq(Convs) /\ <<fp>> \in Seq(Convs)
  BY DEF ConvOK
<1> HIDE DEF k
<1>3. RemoveAt(order, k) \in Seq(Convs)
  BY <1>1, <1>2, RemoveAtFacts
<1>4. <<fp>> \o RemoveAt(order, k) \in Seq(Convs)
  BY <1>2, <1>3, ConcatProperties
<1> QED BY <1>4 DEF UseFirst, k

LEMMA TouchKeeps ==
  ASSUME ConvOK, NEW fp \in Convs, Touch(fp)
  PROVE  ConvOK'
BY UsedFirst DEF ConvOK, Touch

LEMMA EvictTyped ==
  ASSUME ConvOK
  PROVE  Evict \in Seq(Convs)
<1>1. CASE Len(order) >= MapMax
  <2>1. EvictTo \in 0..Len(order) /\ 1 \in 1..Len(order) + 1 /\ order \in Seq(Convs)
    BY <1>1, ConvMapAssumption DEF ConvOK
  <2>2. \A j \in 1..EvictTo : order[j] \in Convs
    BY <2>1
  <2>3. SubSeq(order, 1, EvictTo) \in Seq(Convs)
    BY <2>1, <2>2, SubSeqProperties
  <2> QED BY <1>1, <2>3 DEF Evict
<1>2. CASE ~(Len(order) >= MapMax)
  BY <1>2 DEF Evict, ConvOK
<1> QED BY <1>1, <1>2

LEMMA TrackKeeps ==
  ASSUME ConvOK, NEW fp \in Convs, NEW token \in Nat
  PROVE  Track(fp, token) => ConvOK'
<1> SUFFICES ASSUME Track(fp, token) PROVE ConvOK'
  OBVIOUS
<1>1. CASE Known(fp)
  <2>1. order' = UseFirst(fp) /\ counter' = counter
    BY <1>1 DEF Track, Update
  <2> DEFINE d == [session[fp] EXCEPT !.token = token]
           f == [d EXCEPT !.count = session[fp].count + 1]
  <2>2. f \in SessionType
    <3>1. session[fp].count + 1 \in Nat
      BY DEF ConvOK, SessionType
    <3>2. d \in SessionType
      BY DEF ConvOK, SessionType
    <3> HIDE DEF d
    <3> QED BY <3>1, <3>2 DEF SessionType
  <2>3. session' = [session EXCEPT ![fp] = f]
    BY <1>1 DEF Track, Update
  <2> HIDE DEF f
  <2>4. session' \in [Convs -> SessionType]
    BY <2>2, <2>3 DEF ConvOK
  <2> QED BY <1>1, <2>1, <2>4, UsedFirst DEF ConvOK
<1>2. CASE ~Known(fp)
  <2>1. Create(fp, token)
    BY <1>2 DEF Track
  <2>2. order' \in Seq(Convs)
    <3>1. <<fp>> \in Seq(Convs)
      OBVIOUS
    <3> QED BY <2>1, <3>1, EvictTyped, ConcatProperties DEF Create
  <2> DEFINE fresh == [token |-> token, count |-> 1, num |-> counter + 1]
  <2>3. fresh \in SessionType /\ NoSession \in SessionType /\ counter' \in Nat
    BY <2>1 DEF ConvOK, Create, SessionType, NoSession
  <2>4. session' = [c \in Convs |->
          CASE c = fp -> fresh
            [] c # fp /\ c \in ToSet(order') -> session[c]
            [] OTHER -> NoSession]
    BY <2>1 DEF Create
  <2> HIDE DEF fresh
  <2>5. session' \in [Convs -> SessionType]
    BY <2>3, <2>4 DEF ConvOK
  <2> QED BY <2>2, <2>3, <2>5 DEF ConvOK
<1> QED BY <1>1, <1>2

\* Keys are only handed out, reported and rested: the pool stays typed.
LEMMA PoolKept == ASSUME PoolOK, UNCHANGED poolVars PROVE PoolOK'
BY DEF PoolOK, Slots, poolVars

LEMMA EntrySet ==
  ASSUME PoolOK, NEW i \in Slots, NEW e \in EntryType, entries' = [entries EXCEPT ![i] = e],
         cursor' = cursor \/ cursor' = 1 \/ cursor' \in Slots
  PROVE  PoolOK'
BY DEF PoolOK, Slots

LEMMA HealKeeps ==
  ASSUME PoolOK, NEW i \in Slots, Heal(i), cursor' = cursor \/ cursor' = 1 \/ cursor' \in Slots
  PROVE  PoolOK'
<1> DEFINE e == FromConfig(entries[i].key)
<1>0. entries[i] \in EntryType
  BY DEF PoolOK, Slots
<1>1. e \in EntryType
  BY <1>0 DEF EntryType, FromConfig
<1>2. entries' = [entries EXCEPT ![i] = e]
  BY DEF Heal
<1> HIDE DEF e
<1> QED BY <1>1, <1>2, EntrySet

LEMMA AcquireKeeps ==
  ASSUME PoolOK, NEW preferred, NEW i \in Slots, AcquireKey(preferred, i)
  PROVE  PoolOK'
<1>1. Heal(i) /\ (cursor' = cursor \/ cursor' = 1 \/ cursor' \in Slots)
  BY DEF PoolOK, AcquireKey, TakePreferred, TakeTurn, Next1, Slots
<1> QED BY <1>1, HealKeeps

LEMMA Waited == ASSUME PoolOK, Wait PROVE PoolOK'
<1> DEFINE n == Len(entries)
<1>1. n \in Nat /\ \A i \in 1..n : entries[i] \in EntryType
  BY DEF PoolOK
<1>2. \A i \in 1..n : [entries[i] EXCEPT !.rest = 0] \in EntryType
  BY <1>1 DEF EntryType
<1>3. entries' = [i \in 1..n |-> [entries[i] EXCEPT !.rest = 0]] /\ cursor' = cursor
  BY DEF Wait, Slots
<1>4. entries' \in Seq(EntryType) /\ Len(entries') = n
  BY <1>1, <1>2, <1>3
<1> QED BY <1>3, <1>4 DEF PoolOK, Slots

LEMMA ReportKeeps ==
  ASSUME PoolOK, NEW i \in Nat, NEW status \in Statuses,
         MarkHealthy(i) \/ MarkUnhealthy(i, status)
  PROVE  PoolOK'
<1> DEFINE e == [entries[i] EXCEPT !.healthy = FALSE,
                                   !.rest = CooldownForStatus(status)]
<1>1. CASE i \notin Slots
  BY <1>1, PoolKept DEF MarkHealthy, MarkUnhealthy, poolVars
<1>2. CASE i \in Slots /\ MarkHealthy(i)
  BY <1>2, HealKeeps DEF MarkHealthy
<1>3. CASE i \in Slots /\ MarkUnhealthy(i, status)
  <2>1. CooldownForStatus(status) \in 0..6
    BY DEF Statuses, CooldownForStatus
  <2>2. entries[i] \in EntryType
    BY <1>3 DEF PoolOK, Slots
  <2>3. e \in EntryType
    BY <2>1, <2>2 DEF EntryType
  <2>4. entries' = [entries EXCEPT ![i] = e] /\ cursor' = cursor
    BY <1>3 DEF MarkUnhealthy
  <2> HIDE DEF e
  <2> QED BY <1>3, <2>3, <2>4, EntrySet
<1> QED BY <1>1, <1>2, <1>3

-----------------------------------------------------------------------------
(* The inductive invariant. *)

PipelineInv == PoolOK /\ ConvOK /\ ReqsOK /\ GateInv

LEMMA InvInit == Init => PipelineInv
<1> SUFFICES ASSUME Init PROVE PipelineInv
  OBVIOUS
<1>1. PoolOK
  <2>1. PICK list \in Lists : entries = FromList(list) /\ cursor = 1
    BY DEF Init, PoolInit
  <2>2. list \in Seq(Keys \cup {NoKey}) /\ Len(list) \in Nat
    BY KeyPoolAssumption
  <2>3. \A i \in 1..Len(list) : FromConfig(list[i]) \in EntryType
    BY <2>2 DEF FromConfig, EntryType
  <2>4. FromList(list) \in [1..Len(list) -> EntryType]
    BY <2>3 DEF FromList
  <2> QED BY <2>1, <2>2, <2>4 DEF PoolOK
<1>2. ConvOK
  BY DEF Init, ConvInit, ConvOK, NoSession, SessionType
<1>3. ReqsOK
  <2>1. req \in [Reqs -> ReqType] /\ log \in [Reqs -> Seq(Codes)]
    BY NewTyped DEF Init
  <2>2. \A r \in Reqs : req[r] = New /\ log[r] = <<>>
    BY DEF Init
  <2>3. \A r \in Reqs : Fits(r, New, <<>>) /\ ~Counts(r, New, <<>>)
    BY NothingCounted DEF Fits, Counts, New, Early, Trying
  <2>4. Counted = {}
    BY <2>2, <2>3 DEF Counted
  <2>5. throttled = Cardinality(Counted)
    BY <2>4, FS_EmptySet DEF Init
  <2> QED BY <2>1, <2>2, <2>3, <2>5 DEF ReqsOK
<1>4. GateOK
  <2>1. /\ queue = <<>> /\ running = {} /\ limit = MaxActive
        /\ limit \in Nat /\ Cardinality(running) = 0
    BY PipelineAssumption, FS_EmptySet DEF Init
  <2> QED BY <2>1 DEF GateOK
<1>5. Placed
  <2>1. Queued = {} /\ running = {}
    BY DEF Init, Queued, Gate!Queued
  <2>2. \A r \in Reqs : req[r].at = "new"
    BY DEF Init, New
  <2>3. Handlers = {} /\ At({"queued"}) = {}
    BY <2>2 DEF Handlers, At
  <2> QED BY <2>1, <2>3 DEF Placed
<1> QED BY <1>1, <1>2, <1>3, <1>4, <1>5 DEF PipelineInv, GateInv

\* Most steps leave the pool or the map alone; the others use their operations.
LEMMA SharedKept ==
  ASSUME PipelineInv, NEW r \in Reqs,
         \/ NoKeysConfigured(r) \/ Arrive(r) \/ QueueFull(r) \/ Disconnect(r)
         \/ Handle(r) \/ Answer(r)
  PROVE  PoolOK' /\ ConvOK'
<1>0. /\ ConvOf[r] \in Convs /\ PoolOK /\ ConvOK
      /\ req[r].index \in Nat /\ req[r].status \in Codes \cup {0}
      /\ Fits(r, req[r], log[r])
  BY PipelineAssumption DEF PipelineInv, ReqsOK, ReqType, Codes
<1>1. UNCHANGED convVars => ConvOK'
  BY <1>0 DEF ConvOK, convVars
<1>2. UNCHANGED poolVars => PoolOK'
  BY <1>0, PoolKept
<1>3. CASE \/ NoKeysConfigured(r) \/ Arrive(r) \/ QueueFull(r) \/ Disconnect(r)
           \/ Admitted(r) \/ NoHealthyKeys(r) \/ Return(r) \/ BodyRead(r)
           \/ WakeUp(r) \/ StreamEnds(r) \/ StreamBreaks(r)
  BY <1>1, <1>2, <1>3 DEF NoKeysConfigured, Arrive, QueueFull, Disconnect,
     Admitted, NoHealthyKeys, Return, BodyRead, WakeUp, StreamEnds, StreamBreaks
<1>4. CASE TouchConversation(r)
  BY <1>0, <1>2, <1>4, TouchKeeps DEF TouchConversation
<1>5. CASE TrackConversation(r) \/ PromptCutPanics(r)
  BY <1>0, <1>2, <1>5, TrackKeeps DEF TrackConversation, PromptCutPanics
<1>6. CASE AcquireSlot(r)
  BY <1>0, <1>1, <1>6, AcquireKeeps DEF AcquireSlot
<1>7. CASE Rotate(r)
  BY <1>0, <1>1, <1>2, <1>7, AcquireKeeps DEF Rotate
<1>8. CASE \E place \in {"reading", "piping"} : UpstreamOk(r, place)
  <2>1. MarkHealthy(req[r].index) /\ UNCHANGED convVars /\ 500 \in Statuses
    BY <1>8 DEF UpstreamOk, Statuses
  <2> QED BY <1>0, <1>1, <2>1, ReportKeeps
<1>9. CASE \/ \E status \in {429, 500, 503} : UpstreamFails(r, status)
           \/ \E status \in {304, 429} : UpstreamOther(r, status)
  BY <1>1, <1>2, <1>9 DEF UpstreamFails, UpstreamOther
<1>10. CASE NetworkError(r)
  <2>1. MarkUnhealthy(req[r].index, 502) /\ UNCHANGED convVars /\ 502 \in Statuses
    BY <1>10 DEF NetworkError, Statuses
  <2> QED BY <1>0, <1>1, <2>1, ReportKeeps
<1>11. CASE ErrorRead(r)
  <2>1. req[r].at = "failed" /\ UNCHANGED convVars
    BY <1>11 DEF ErrorRead
  <2>2. Failure(r, req[r].status)
    BY <1>0, <2>1 DEF Fits
  <2>3. CASE Rested(r)
    <3>1. MarkUnhealthy(req[r].index, req[r].status)
      BY <1>11, <2>3 DEF ErrorRead
    <3>2. req[r].status \in Statuses
      BY <2>2, <2>3 DEF Failure, Rested, Statuses
    <3> QED BY <1>0, <1>1, <2>1, <3>1, <3>2, ReportKeeps
  <2>4. CASE ~Rested(r)
    BY <1>1, <1>2, <1>11, <2>1, <2>4 DEF ErrorRead
  <2> QED BY <2>3, <2>4
<1> QED BY <1>3, <1>4, <1>5, <1>6, <1>7, <1>8, <1>9, <1>10, <1>11 DEF Handle, Answer

LEMMA RequestKept ==
  ASSUME PipelineInv, NEW r \in Reqs,
         \/ NoKeysConfigured(r) \/ Arrive(r) \/ QueueFull(r) \/ Disconnect(r)
         \/ Handle(r) \/ Answer(r)
  PROVE  ReqsOK' /\ GateInv'
<1>0. PoolOK /\ ConvOK /\ ReqsOK /\ GateInv /\ session \in [Convs -> SessionType]
  BY DEF PipelineInv, ConvOK
<1>1. CASE NoKeysConfigured(r) \/ QueueFull(r) \/ StreamEnds(r) \/ StreamBreaks(r)
  BY <1>0, <1>1, ArrivalReqs, EndReqs, OutsideGate
<1>2. CASE Arrive(r) \/ Admitted(r)
  BY <1>0, <1>2, ArrivalReqs, AdmissionGate
<1>3. CASE PromptCutPanics(r) \/ Return(r) \/ Disconnect(r)
  BY <1>0, <1>3, PanicReqs, EndReqs, EndGate
<1>4. CASE \/ TouchConversation(r) \/ AcquireSlot(r) \/ NoHealthyKeys(r)
           \/ TrackConversation(r) \/ Rotate(r) \/ NetworkError(r)
           \/ BodyRead(r) \/ ErrorRead(r) \/ WakeUp(r)
  <2>1. GateInv'
    BY <1>0, <1>4, HandlerGate
  <2>2. ReqsOK'
    BY <1>0, <1>4, TouchReqs, AcquireReqs, ArrivalReqs, TrackReqs, RotateReqs,
       NetworkReqs, BodyReqs, ErrorReqs, WakeReqs
  <2> QED BY <2>1, <2>2
<1>5. CASE \E place \in {"reading", "piping"} : UpstreamOk(r, place)
  BY <1>0, <1>5, OkReqs, AnswerGate
<1>6. CASE \E status \in {429, 500, 503} : UpstreamFails(r, status)
  BY <1>0, <1>6, FailsReqs, AnswerGate
<1>7. CASE \E status \in {304, 429} : UpstreamOther(r, status)
  BY <1>0, <1>7, OtherReqs, AnswerGate
<1> QED BY <1>1, <1>2, <1>3, <1>4, <1>5, <1>6, <1>7 DEF Handle, Answer

\* Time, or no step at all, changes nothing but the pool's cooldowns.
LEMMA QuietKept ==
  ASSUME PipelineInv, UNCHANGED <<convVars, gateVars, throttled, req, log>>
  PROVE  ConvOK' /\ ReqsOK' /\ GateInv'
<1>1. ConvOK'
  BY DEF PipelineInv, ConvOK, convVars
<1>2. Counted' = Counted /\ Handlers' = Handlers /\ At({"queued"})' = At({"queued"})
  BY DEF Counted, Counts, OpenAI, Handlers, At
<1>3. \A r \in Reqs : Fits(r, req[r], log[r])'
  BY DEF PipelineInv, ReqsOK, Fits, Recorded, Failure, OpenAI
<1>4. ReqsOK'
  BY <1>2, <1>3 DEF PipelineInv, ReqsOK
<1>5. Queued' = Queued
  BY DEF Queued, Gate!Queued, gateVars
<1>6. GateInv'
  BY <1>2, <1>5 DEF PipelineInv, GateInv, GateOK, Placed, gateVars
<1> QED BY <1>1, <1>4, <1>6

LEMMA InvNext == PipelineInv /\ [Next]_vars => PipelineInv'
<1> SUFFICES ASSUME PipelineInv, [Next]_vars PROVE PipelineInv'
  OBVIOUS
<1>1. CASE Wait
  <2>1. UNCHANGED <<convVars, gateVars, throttled, req, log>> /\ PoolOK
    BY <1>1 DEF Wait, PipelineInv
  <2> QED BY <1>1, <2>1, Waited, QuietKept DEF PipelineInv
<1>2. CASE UNCHANGED vars
  <2>1. /\ UNCHANGED <<convVars, gateVars, throttled, req, log>>
        /\ UNCHANGED poolVars /\ PoolOK
    BY <1>2 DEF vars, PipelineInv
  <2> QED BY <2>1, PoolKept, QuietKept DEF PipelineInv
<1>3. ASSUME NEW r \in Reqs,
             \/ NoKeysConfigured(r) \/ Arrive(r) \/ QueueFull(r)
             \/ Handle(r) \/ Answer(r) \/ Disconnect(r)
      PROVE  PipelineInv'
  BY <1>3, SharedKept, RequestKept DEF PipelineInv
<1> QED BY <1>1, <1>2, <1>3 DEF Next

LEMMA InvTyped == PipelineInv => TypeOK
<1> SUFFICES ASSUME PipelineInv PROVE TypeOK
  OBVIOUS
<1>1. throttled \in Nat
  BY CountedFinite DEF PipelineInv, ReqsOK
<1> QED BY <1>1 DEF PipelineInv, PoolOK, ConvOK, ReqsOK, GateInv, GateOK, TypeOK, Codes

LEMMA Invariant == Spec => []PipelineInv
BY InvInit, InvNext, PTL DEF Spec

-----------------------------------------------------------------------------
(* Theorems. *)

\* The pipelines, the pool, the conversation map, the gate and the counters
\* stay within their types, however requests interleave.
THEOREM TypeCorrect == Spec => []TypeOK
BY Invariant, InvTyped, PTL

\* A request's outcome is recorded once, with the status its client got, and
\* not at all if the request broke off (chat.rs, messages.rs: record_stats).
THEOREM OutcomesRecorded == Spec => []RecordedOnce
<1>1. PipelineInv => RecordedOnce
  BY ReqsRecorded DEF PipelineInv
<1> QED BY <1>1, Invariant, PTL

\* The counter of rejections (gate.rs, throttled) is the number of requests
\* turned away or answered 429 or 503: no retry counts twice, none is missed.
THEOREM RejectionsCounted == Spec => []ThrottledAgrees
<1>1. PipelineInv => ThrottledAgrees
  BY ReqsThrottled DEF PipelineInv
<1> QED BY <1>1, Invariant, PTL

\* The handlers hold the gate's places and give them back on every path, so
\* never more of them run than the limit (gate.rs, Guard).
THEOREM PlacesKept == Spec => []PlacesHeld
<1>1. PipelineInv => PlacesHeld
  BY PlacedHeld DEF PipelineInv, GateInv
<1> QED BY <1>1, Invariant, PTL
=============================================================================
