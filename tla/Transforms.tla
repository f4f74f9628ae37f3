----------------------------- MODULE Transforms -----------------------------
(***************************************************************************)
(* The pure algorithms at work: a request's tools are normalised, the      *)
(* usage of its answer is put together from chunks, its record is kept,    *)
(* and the statistics are computed from the records.                       *)
(***************************************************************************)
EXTENDS StatViews, UsageParse, SchemaNorm

CONSTANTS
  Streams,     \* streamed answers: sequences of lines
  Bodies,      \* other answers: sequences of at most one payload
  Contexts,    \* the rest of a record: model, key, durations
  Tools,       \* lists of tool schemas
  MaxStreams,  \* bound: how many answers are streams
  MaxRecords,  \* bound: how many records there are
  MaxTime      \* bound: the last instant

ASSUME TransformsAssumption ==
  /\ Streams \subseteq Seq(Lines) /\ Bodies \subseteq Seq(Payloads) /\ Tools \subseteq Seq(Json)
  /\ Contexts \subseteq [model : STRING, key : STRING, dur : Nat, ttft : Nat]
  /\ None \notin Nat
  /\ MaxStreams \in Nat /\ MaxRecords \in Nat /\ MaxTime \in Nat

\* What the providers promise, and the parser counts on (usage_parse.rs 7-8,
\* 47-50): OpenAI's prompt tokens include those of the cache, and the counts
\* of one answer grow.
ASSUME ProvidersAssumption ==
  /\ \A p \in Payloads :
       p.kind = "openai" => Field(p.cached) + Field(p.creation) <= Field(p.input)
  /\ \A lines \in Streams : \A p, q \in {lines[i] : i \in 1..Len(lines)} \cap Payloads :
       LET u == Extract(p)
           v == Extract(q)
       IN \/ u.cached <= v.cached /\ u.creation <= v.creation
          \/ v.cached <= u.cached /\ v.creation <= u.creation

VARIABLES
  request,     \* the tools, as they came and as they go out
  stream,      \* the lines of the answer, its time and the bytes still to come
  acc,         \* the accumulator
  records,     \* the ring
  now

vars == <<request, stream, acc, records, now>>

NoRequest == [tools |-> <<>>, sent |-> <<>>]
NoStream == [lines |-> <<>>, ts |-> None, left |-> <<>>]
Listening == stream # NoStream

\* record_stat() and the end of a stream.
Record(status, usage, ts, c, ttft) ==
  [ts |-> ts, status |-> status, model |-> c.model, key |-> c.key, dur |-> c.dur, ttft |-> ttft,
   tin |-> usage.tin, tout |-> usage.tout, ctok |-> usage.cached, crea |-> usage.creation,
   cached |-> usage.cached > 0 \/ usage.creation > 0]

\* The tools of a request; what follows it is explored without tools.
Normalise ==
  /\ request = NoRequest /\ ~Listening /\ records = <<>> /\ now = 0
  /\ \E t \in Tools : request' = [tools |-> t, sent |-> NormalizeTools(t)]
  /\ UNCHANGED <<stream, acc, records, now>>

Open ==
  /\ request = NoRequest /\ ~Listening /\ Len(records) < Min({MaxStreams, MaxRecords})
  /\ \E lines \in Streams, terminated \in BOOLEAN :
       stream' = [lines |-> lines, ts |-> now, left |-> Bytes(lines, terminated)]
  /\ acc' = Empty
  /\ UNCHANGED <<request, records, now>>

Chunk ==
  /\ stream.left # <<>>
  /\ \E n \in 1..Len(stream.left) :
       /\ acc' = Ingest(acc, SubSeq(stream.left, 1, n))
       /\ stream' = [stream EXCEPT !.left = SubSeq(@, n + 1, Len(@))]
  /\ UNCHANGED <<request, records, now>>

\* on_complete: the stream has ended.  One without a byte had no first chunk.
End ==
  /\ Listening /\ stream.left = <<>>
  /\ \E c \in Contexts :
       records' = Append(records, Record(200, Finish(acc), stream.ts, c,
                                         IF stream.lines = <<>> THEN None ELSE c.ttft))
  /\ stream' = NoStream /\ acc' = Empty
  /\ UNCHANGED <<request, now>>

\* The stream breaks, or the client hangs up: nothing is recorded.
Break ==
  /\ Listening
  /\ stream' = NoStream /\ acc' = Empty
  /\ UNCHANGED <<request, records, now>>

\* An answer in one piece: extract_usage().
Body ==
  /\ request = NoRequest /\ ~Listening /\ Len(records) < MaxRecords
  /\ \E b \in Bodies, c \in Contexts :
       records' = Append(records, Record(200, IF b = <<>> THEN NoUsage ELSE Extract(b[1]), now, c, c.ttft))
  /\ UNCHANGED <<request, stream, acc, now>>

Refuse ==
  /\ request = NoRequest /\ ~Listening /\ Len(records) < MaxRecords
  /\ \E c \in Contexts : records' = Append(records, Record(429, NoUsage, now, c, None))
  /\ UNCHANGED <<request, stream, acc, now>>

Tick ==
  /\ request = NoRequest /\ now < MaxTime
  /\ now' = now + 1
  /\ UNCHANGED <<request, stream, acc, records>>

Init ==
  /\ request = NoRequest /\ stream = NoStream /\ acc = Empty
  /\ records = <<>> /\ now = 0

Next == Normalise \/ Open \/ Chunk \/ End \/ Break \/ Body \/ Refuse \/ Tick
Spec == Init /\ [][Next]_vars

-----------------------------------------------------------------------------
(* Properties. *)

\* When the last byte has come, the usage is, field by field, the largest of
\* the lines', wherever the chunks ended and whether or not a newline closed
\* the last line (usage_parse.rs 50-55, 131-163).
UsageWhole ==
  Listening /\ stream.left = <<>> =>
    LET samples == {Extract(p) : p \in Range(stream.lines) \cap Payloads}
    IN \A field \in DOMAIN NoUsage :
         Finish(acc)[field] = Max({0} \cup {u[field] : u \in samples})

Filters == {None} \cup {c.model : c \in Contexts}
Windows == 1..MaxTime

\* Of the tokens a view counts as input, never more were cached than there
\* were: the hit rate is at most 1 for both formats and for their sums, in
\* every window, bucket and filter (usage_parse.rs 15-17, stats.rs 200-203).
HitRateAtMostOne ==
  \A window \in Windows, m \in Filters :
    LET s == InWindow(records, now, window, m)
        memory == MemorySummary(s)
        buckets == MemoryBuckets(s, now, window, 1)
    IN /\ memory.ctok + memory.crea <= memory.tin
       /\ \A i \in DOMAIN buckets : buckets[i].ctok <= buckets[i].tin

\* The view computed in Rust is the view computed in SQL: of a window, in sum
\* and by key, but for the latency of a key, which the ring shows as 0
\* whatever it was (stats.rs 222-365, db.rs 275-417).
ViewsAlike ==
  \A window \in Windows, m \in Filters :
    LET s == InWindow(records, now, window, m)
    IN /\ MemorySummary(s) = SqlSummary(s)
       /\ MemoryTokens(s) = [k \in KeyNames(s) |-> [DbTokens(s)[k] EXCEPT !.latency = 0]]

\* Of a window that starts at a multiple of the bucket, each bucket of the
\* ring has every count, sum, maximum and time to the first token that SQL
\* selects for the same instants, a group left out being an empty one; and
\* when the rows can be read at all, what is read from them is no different,
\* although three columns are the wrong ones (stats.rs 87-207, db.rs 185-270).
BucketsAlike ==
  \A window \in Windows, bucket \in Windows, m \in Filters :
    LET s == InWindow(records, now, window, m)
        start == WindowStart(now, window)
        memory == MemoryBuckets(s, now, window, bucket)
        db == DbBuckets(s, bucket)
        Selected(g) == IF g \in DOMAIN db THEN db[g] ELSE SqlBucket(<<>>)
    IN start % bucket = 0 =>
         \A i \in DOMAIN memory :
           LET b == Selected(start + i * bucket)
           IN \A column \in DOMAIN b :
                /\ memory[i][column] = b[column]
                /\ ~ReadFails(s) => memory[i][column] = AsRead(b)[column]

\* Buckets add up: those of SQL to the summary, those of the ring, when they
\* divide the window, to the records before its end, which leaves out this
\* very instant; percentiles lie in order below the maximum (stats.rs
\* 87-207, db.rs 175-273).
BucketsAddUp ==
  \A window \in Windows, bucket \in Windows, m \in Filters :
    LET Sum(f, field) == SumOf([i \in 1..MaxTime + 1 |-> IF i - 1 \in DOMAIN f THEN f[i - 1][field] ELSE 0])
        s == InWindow(records, now, window, m)
        memory == MemoryBuckets(s, now, window, bucket)
        db == DbBuckets(s, bucket)
        end == WindowStart(now, window) + window
        before == MemorySummary(Where(s, LAMBDA rec : rec.ts < end))
        whole == SqlSummary(s)
    IN /\ \A field \in {"count", "errors", "cached", "tin", "latency"} :
            Sum(db, field) = whole[field]
       /\ window % bucket = 0 =>
            \A field \in {"count", "errors", "cached", "tin", "latency"} :
              Sum(memory, field) = before[field]
       /\ \A i \in DOMAIN memory :
            LET b == memory[i]
            IN b.latencies[1] <= b.latencies[2] /\ b.latencies[2] <= b.slowest

\* Whatever arguments a tool's schema accepts, its normalised schema accepts:
\* taking null out of a schema never makes a call without one invalid, unless
\* the schema holds, as deep as it is followed, one of the two places at which
\* the code does narrow it (schema_norm.rs 106-113, 168-173).
NeverNarrower ==
  \A i \in DOMAIN request.tools :
    OnlyWidens(request.tools[i]) =>
      \A v \in Arguments : Accepts(request.tools[i], v) => Accepts(request.sent[i], v)
=============================================================================
