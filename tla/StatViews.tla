------------------------------ MODULE StatViews ------------------------------
(***************************************************************************)
(* What the statistics show (stats.rs, db.rs), as functions of the         *)
(* records: every view exists twice, once over the ring in Rust and once   *)
(* over the table in SQL.  An average is given by its sum and its count.   *)
(***************************************************************************)
EXTENDS Lists, SequencesExt

CONSTANT None    \* Option::None

RecordType == [ts : Nat, status : Nat, model : STRING, key : STRING, dur : Nat,
               ttft : Nat \cup {None}, tin : Nat, tout : Nat, ctok : Nat, crea : Nat,
               cached : BOOLEAN]

\* now.saturating_sub(window)
WindowStart(now, window) == Max({now - window, 0})
OfModel(model, rec) == model = None \/ rec.model = model

\* The records of a window; the database selects as the ring does.
InWindow(s, now, window, model) ==
  Where(s, LAMBDA rec : rec.ts >= WindowStart(now, window) /\ OfModel(model, rec))

\* summary(), from the records of its window.
MemorySummary(s) ==
  LET timed == Where(s, LAMBDA rec : rec.ttft # None)
      generated == Where(timed, LAMBDA rec : rec.dur > rec.ttft)
  IN [count |-> Len(s),
      errors |-> Count(s, LAMBDA rec : rec.status >= 400),
      throttled |-> Count(s, LAMBDA rec : rec.status = 429 \/ rec.status = 503),
      cached |-> Count(s, LAMBDA rec : rec.cached),
      ctok |-> Total(s, LAMBDA rec : rec.ctok), crea |-> Total(s, LAMBDA rec : rec.crea),
      tin |-> Total(s, LAMBDA rec : rec.tin), tout |-> Total(s, LAMBDA rec : rec.tout),
      latency |-> Total(s, LAMBDA rec : rec.dur),
      ttft |-> <<Total(timed, LAMBDA rec : rec.ttft), Len(timed)>>,
      context |-> Greatest(s, LAMBDA rec : rec.tin),
      generation |-> <<Total(generated, LAMBDA rec : rec.tout),
                       Total(generated, LAMBDA rec : rec.dur - rec.ttft)>>]

\* A request without a generating time counts its tokens (a seeded fault).
GeneratingAlways(rec) == rec.ttft # None

\* The SQL of the same: sums of cases.
Generating(rec) == rec.ttft # None /\ rec.dur > rec.ttft
SqlSummary(s) ==
  [count |-> Len(s),
   errors |-> Total(s, LAMBDA rec : IF rec.status >= 400 THEN 1 ELSE 0),
   throttled |-> Total(s, LAMBDA rec : IF rec.status \in {429, 503} THEN 1 ELSE 0),
   cached |-> Total(s, LAMBDA rec : IF rec.cached THEN 1 ELSE 0),
   ctok |-> Total(s, LAMBDA rec : rec.ctok), crea |-> Total(s, LAMBDA rec : rec.crea),
   tin |-> Total(s, LAMBDA rec : rec.tin), tout |-> Total(s, LAMBDA rec : rec.tout),
   latency |-> Total(s, LAMBDA rec : rec.dur),
   ttft |-> <<Total(s, LAMBDA rec : IF rec.ttft = None THEN 0 ELSE rec.ttft),
              Total(s, LAMBDA rec : IF rec.ttft = None THEN 0 ELSE 1)>>,
   context |-> Greatest(s, LAMBDA rec : rec.tin),
   generation |-> <<Total(s, LAMBDA rec : IF Generating(rec) THEN rec.tout ELSE 0),
                    Total(s, LAMBDA rec : IF Generating(rec) THEN rec.dur - rec.ttft ELSE 0)>>]

\* percentile(): of the sorted values, the one at the rank rounded to the
\* next whole number: more values than the rank are as small, or smaller.
Percentile(s, p) ==
  LET rank == (2 * p * (Len(s) - 1) + 100) \div 200
      AsSmall(v) == {i \in 1..Len(s) : s[i] <= v}
  IN IF s = <<>> THEN 0
     ELSE Min({v \in {s[i] : i \in 1..Len(s)} : rank < Cardinality(AsSmall(v))})

Percentiles(s) == <<Percentile(s, 50), Percentile(s, 95)>>

\* One bucket from its records.
BucketOf(s) ==
  LET timed == Where(s, LAMBDA rec : rec.ttft # None)
      latency(rec) == rec.dur
      first(rec) == rec.ttft
  IN [count |-> Len(s),
      errors |-> Count(s, LAMBDA rec : rec.status >= 400),
      throttled |-> Count(s, LAMBDA rec : rec.status = 429 \/ rec.status = 503),
      cached |-> Count(s, LAMBDA rec : rec.cached \/ rec.ctok > 0 \/ rec.crea > 0),
      ctok |-> Total(s, LAMBDA rec : rec.ctok), crea |-> Total(s, LAMBDA rec : rec.crea),
      tin |-> Total(s, LAMBDA rec : rec.tin), tout |-> Total(s, LAMBDA rec : rec.tout),
      latency |-> Total(s, latency), slowest |-> Greatest(s, latency),
      latencies |-> Percentiles(Values(s, latency)),
      ttft |-> <<Total(timed, first), Len(timed)>>,
      ttfts |-> Percentiles(Values(timed, first)),
      models |-> [m \in {s[i].model : i \in 1..Len(s)} |->
                    LET of == Where(s, LAMBDA rec : rec.model = m)
                    IN <<Len(of), Total(of, latency), Total(of, LAMBDA rec : rec.tin),
                         Total(of, LAMBDA rec : rec.tout)>>]]

BucketCount(window, bucket) == Max({window \div bucket, 1})

\* Every bucket begins one step too early (a seeded fault).
BucketIndexShifted(start, bucket, rec) == (rec.ts - start + 1) \div bucket

BucketIndex(start, bucket, rec) == (rec.ts - start) \div bucket

\* buckets() from the ring, aligned to the window.  Records of the future and
\* those beyond the last bucket are left out.
MemoryBuckets(s, now, window, bucket) ==
  LET start == WindowStart(now, window)
      past == Where(s, LAMBDA rec : rec.ts <= now)
  IN [i \in 0..(BucketCount(window, bucket) - 1) |->
        BucketOf(Where(past, LAMBDA rec : BucketIndex(start, bucket, rec) = i))]

\* The columns that query_buckets() selects, of one group.
SqlBucket(s) ==
  [count |-> Len(s),
   errors |-> Total(s, LAMBDA rec : IF rec.status >= 400 THEN 1 ELSE 0),
   throttled |-> Total(s, LAMBDA rec : IF rec.status \in {429, 503} THEN 1 ELSE 0),
   latency |-> Total(s, LAMBDA rec : rec.dur), slowest |-> Greatest(s, LAMBDA rec : rec.dur),
   tin |-> Total(s, LAMBDA rec : rec.tin), tout |-> Total(s, LAMBDA rec : rec.tout),
   cached |-> Total(s, LAMBDA rec : IF rec.cached THEN 1 ELSE 0),
   ctok |-> Total(s, LAMBDA rec : rec.ctok), crea |-> Total(s, LAMBDA rec : rec.crea),
   ttft |-> <<Total(s, LAMBDA rec : IF rec.ttft = None THEN 0 ELSE rec.ttft),
              Total(s, LAMBDA rec : IF rec.ttft = None THEN 0 ELSE 1)>>]

\* A group begins where a bucket's middle is (a seeded fault).
DbBucketsNearest(s, bucket) ==
  LET Group(rec) == ((rec.ts + bucket \div 2) \div bucket) * bucket
  IN [g \in {Group(s[i]) : i \in 1..Len(s)} |->
        SqlBucket(Where(s, LAMBDA rec : Group(rec) = g))]

\* The groups: aligned to multiples of the bucket, empty ones left out.
DbBuckets(s, bucket) ==
  LET Group(rec) == (rec.ts \div bucket) * bucket
  IN [g \in {Group(s[i]) : i \in 1..Len(s)} |->
        SqlBucket(Where(s, LAMBDA rec : Group(rec) = g))]

\* The last three columns are read one too far: the cached tokens from those
\* of the cache's creation, these from the average time to the first token,
\* and this from the cached tokens.  An average is no u64, so that a group
\* with a first token's time makes the whole query an error, and buckets()
\* takes the ring's; of the others the average is NULL and reads as 0.
ReadFails(s) == \E i \in 1..Len(s) : s[i].ttft # None
AsRead(b) == [b EXCEPT !.ctok = b.crea, !.crea = 0, !.ttft = <<b.ctok, b.ttft[2]>>]

\* token_stats() by key.  The ring adds up no latency and leaves 0.
KeyNames(s) == {s[i].key : i \in 1..Len(s)}
OfKey(s, k) == Where(s, LAMBDA rec : rec.key = k)
MemoryTokens(s) ==
  [k \in KeyNames(s) |->
     LET of == OfKey(s, k)
     IN [count |-> Len(of), errors |-> Count(of, LAMBDA rec : rec.status >= 400),
         tin |-> Total(of, LAMBDA rec : rec.tin), tout |-> Total(of, LAMBDA rec : rec.tout),
         latency |-> 0]]
DbTokens(s) ==
  [k \in KeyNames(s) |->
     LET of == OfKey(s, k)
     IN [count |-> Len(of),
         errors |-> Total(of, LAMBDA rec : IF rec.status >= 400 THEN 1 ELSE 0),
         tin |-> Total(of, LAMBDA rec : rec.tin), tout |-> Total(of, LAMBDA rec : rec.tout),
         latency |-> Total(of, LAMBDA rec : rec.dur)]]
=============================================================================
