-------------------------------- MODULE Stats --------------------------------
(***************************************************************************)
(* The statistics (stats.rs, db.rs): a finished request is sent to the     *)
(* database's channel, if there is room, and pushed to a ring in memory.   *)
(* A writer collects what it receives and inserts it in transactions, and  *)
(* in every sixth hour deletes old rows.  Short windows are answered from  *)
(* the ring, long ones from the database.                                  *)
(***************************************************************************)
EXTENDS Integers, Sequences, SequencesExt, FiniteSets

CONSTANTS
  Recorders,     \* requests that are being answered
  MaxRecords,    \* size of the ring
  ChannelSize,   \* CHANNEL_SIZE
  BatchSize,     \* records that make the writer flush
  Retention,     \* RAW_RETENTION_HOURS
  Period,        \* hours from one cleanup to the next
  Migrations,    \* versions this binary knows: so far the initial one
  Initial,       \* the version that creates `requests`
  Start,         \* the hour the first start happens
  MaxTime,       \* bound: the last hour
  MaxLog,        \* bound: how many requests are recorded
  MaxStops,      \* bound: how often the process stops
  MaxFails       \* bound: how many flushes fail

Time == 0..MaxTime
ASSUME StatsAssumption ==
  /\ IsFiniteSet(Recorders)
  /\ MaxRecords \in Nat \ {0} /\ ChannelSize \in Nat \ {0} /\ BatchSize \in Nat \ {0}
  /\ Retention \in Nat \ {0} /\ Period \in Nat \ {0}
  /\ Migrations = {Initial}
  /\ Start \in Nat /\ MaxTime \in Nat /\ Start <= MaxTime /\ Retention <= Start
  /\ MaxLog \in Nat /\ MaxStops \in Nat /\ MaxFails \in Nat

VARIABLES
  now,        \* the clock, in hours
  recorder,   \* recorder[r]: how far request r is, with its record
  ring,       \* StatsCollector.records
  chan,       \* the channel
  writer,     \* the writer: where it is, its batch and what it inserts
  rows,       \* table requests, a set of rows
  schema,     \* tables that exist, versions in schema_migrations
  phase,      \* "up", "down", or "panicked" when the migrations failed
  stops, fails,
  log,        \* history: every record, in the order of try_send
  gone,       \* history: records dropped by a full channel, a stop or a failed flush
  base,       \* history: length of the log at this start
  since,      \* history: the hour of this start
  cleaned     \* history: the writer has cleaned up in this hour

historyVars == <<log, gone, base, since, cleaned>>
vars == <<now, recorder, ring, chan, writer, rows, schema, phase, stops, fails, historyVars>>

\* A record, of which only the time matters here (StatViews.tla has the rest):
\* `no` is its place in the log, `in` the hour its row was inserted.
Record(t) == [ts |-> t, no |-> 0, in |-> t]
Records == [ts : Time, no : 0..MaxLog, in : Time]

Idle == [at |-> "idle", rec |-> Record(0)]
Collecting == [at |-> "collect", batch |-> <<>>, writing |-> <<>>]
CleanupHour(t) == t % Period = 0

\* What was sent and is not in the table: the next to be inserted first.
UnderWay == writer.writing \o writer.batch \o chan

-----------------------------------------------------------------------------
(* record() *)

\* The time is taken when the answer begins, a stream's long before its end.
Begin(r) ==
  /\ phase = "up" /\ recorder[r].at = "idle"
  /\ Len(log) + Cardinality({q \in Recorders : recorder[q].at = "open"}) < MaxLog
  /\ recorder' = [recorder EXCEPT ![r] = [at |-> "open", rec |-> Record(now)]]
  /\ UNCHANGED <<now, ring, chan, writer, rows, schema, phase, stops, fails, historyVars>>

\* The database gets the time of the end, the ring that of the beginning (a
\* seeded fault).
TrySendRestamped(rec) ==
  IF Len(chan) < ChannelSize
  THEN chan' = Append(chan, [rec EXCEPT !.ts = now]) /\ gone' = gone
  ELSE gone' = gone \cup {rec.no} /\ UNCHANGED chan

\* try_send(): a record that finds the channel full is dropped without a word.
TrySend(rec) ==
  IF Len(chan) < ChannelSize
  THEN chan' = Append(chan, rec) /\ gone' = gone
  ELSE gone' = gone \cup {rec.no} /\ UNCHANGED chan

Send(r) ==
  /\ phase = "up" /\ recorder[r].at = "open"
  /\ LET rec == [recorder[r].rec EXCEPT !.no = Len(log) + 1]
     IN /\ log' = Append(log, rec)
        /\ recorder' = [recorder EXCEPT ![r] = [at |-> "sent", rec |-> rec]]
        /\ TrySend(rec)
  /\ UNCHANGED <<now, ring, writer, rows, schema, phase, stops, fails, base, since, cleaned>>

\* A full ring forgets its newest record instead of its oldest (a seeded fault).
PushedOverNewest(s, rec) == Append(IF Len(s) >= MaxRecords THEN Front(s) ELSE s, rec)

Pushed(s, rec) == Append(IF Len(s) >= MaxRecords THEN Tail(s) ELSE s, rec)

Push(r) ==
  /\ phase = "up" /\ recorder[r].at = "sent"
  /\ ring' = Pushed(ring, recorder[r].rec)
  /\ recorder' = [recorder EXCEPT ![r] = Idle]
  /\ UNCHANGED <<now, chan, writer, rows, schema, phase, stops, fails, historyVars>>

-----------------------------------------------------------------------------
(* The writer. *)

\* What comes after a flush: the cleanup, in an hour for it.
AfterFlush == IF CleanupHour(now) THEN "clean" ELSE "collect"

\* The batch is not emptied when it is handed over (a seeded fault).
HandOverCopy(w) ==
  IF w.batch = <<>> THEN [w EXCEPT !.at = AfterFlush]
  ELSE [w EXCEPT !.at = "flush", !.writing = w.batch]

HandOver(w) ==
  IF w.batch = <<>> THEN [w EXCEPT !.at = AfterFlush]
  ELSE [at |-> "flush", batch |-> <<>>, writing |-> w.batch]

Recv ==
  /\ phase = "up" /\ writer.at = "collect" /\ chan # <<>>
  /\ chan' = Tail(chan)
  /\ LET w == [writer EXCEPT !.batch = Append(@, Head(chan))]
     IN writer' = IF Len(w.batch) >= BatchSize THEN HandOver(w) ELSE w
  /\ UNCHANGED <<now, recorder, ring, rows, schema, phase, stops, fails, historyVars>>

\* The timer does not flush a batch that is not full (a seeded fault).
TimeoutWhenFull ==
  /\ phase = "up" /\ writer.at = "collect" /\ CleanupHour(now)
  /\ writer' = [writer EXCEPT !.at = "clean"]
  /\ UNCHANGED <<now, recorder, ring, chan, rows, schema, phase, stops, fails, historyVars>>

\* Five seconds are over.
Timeout ==
  /\ phase = "up" /\ writer.at = "collect"
  /\ writer' = HandOver(writer)
  /\ UNCHANGED <<now, recorder, ring, chan, rows, schema, phase, stops, fails, historyVars>>

\* flush_batch(): one transaction; a failed one is not tried again, and its
\* error is not even logged: only the error of the join is.
Flush ==
  /\ phase = "up" /\ writer.at = "flush"
  /\ writer' = [writer EXCEPT !.at = AfterFlush, !.writing = <<>>]
  /\ \/ /\ rows' = rows \cup {[rec EXCEPT !.in = now] : rec \in ToSet(writer.writing)}
        /\ UNCHANGED <<gone, fails>>
     \/ /\ fails < MaxFails /\ fails' = fails + 1
        /\ gone' = gone \cup {rec.no : rec \in ToSet(writer.writing)}
        /\ UNCHANGED rows
  /\ UNCHANGED <<now, recorder, ring, chan, schema, phase, stops, log, base, since, cleaned>>

\* The retention is counted from the cleanup before (a seeded fault).
KeptSinceLast(table) == {row \in table : row.ts >= now - Period - Retention}

KeptRows(table) == {row \in table : row.ts >= now - Retention}

Cleanup ==
  /\ phase = "up" /\ writer.at = "clean"
  /\ rows' = KeptRows(rows)
  /\ writer' = [writer EXCEPT !.at = "collect"]
  /\ cleaned' = TRUE
  /\ UNCHANGED <<now, recorder, ring, chan, schema, phase, stops, fails, log, gone, base, since>>

-----------------------------------------------------------------------------
(* Starts, stops and time. *)

\* Legacy tables are migrated like a new file's (a seeded fault).
RunMigrationsAlways(s) ==
  LET pending == Migrations \ s.applied
  IN IF pending \cap s.tables # {} THEN [ok |-> FALSE, schema |-> s]
     ELSE [ok |-> TRUE, schema |-> [tables |-> s.tables \cup pending, applied |-> Migrations]]

\* run_migrations(), one transaction: tables without a list of versions are
\* taken as they are; CREATE TABLE fails on a table that exists.
RunMigrations(s) ==
  LET pending == Migrations \ s.applied
  IN IF s.applied = {} /\ Initial \in s.tables
     THEN [ok |-> TRUE, schema |-> [s EXCEPT !.applied = Migrations]]
     ELSE IF pending \cap s.tables # {} THEN [ok |-> FALSE, schema |-> s]
     ELSE [ok |-> TRUE, schema |-> [tables |-> s.tables \cup pending, applied |-> Migrations]]

Open ==
  /\ phase = "down"
  /\ LET run == RunMigrations(schema)
     IN schema' = run.schema /\ phase' = IF run.ok THEN "up" ELSE "panicked"
  /\ base' = Len(log) /\ since' = now
  /\ UNCHANGED <<now, recorder, ring, chan, writer, rows, stops, fails, log, gone, cleaned>>

\* Nothing is flushed at the end: the channel and the batch are lost.
Stop ==
  /\ phase = "up" /\ stops < MaxStops
  /\ stops' = stops + 1 /\ phase' = "down"
  /\ gone' = gone \cup {rec.no : rec \in ToSet(UnderWay)}
  /\ recorder' = [r \in Recorders |-> Idle]
  /\ ring' = <<>> /\ chan' = <<>> /\ writer' = Collecting
  /\ UNCHANGED <<now, rows, schema, fails, log, base, since, cleaned>>

\* The writer turns every few seconds: it never misses an hour for a cleanup.
Tick ==
  /\ now < MaxTime
  /\ phase = "up" /\ CleanupHour(now) => cleaned /\ writer.at # "clean"
  /\ now' = now + 1 /\ cleaned' = FALSE
  /\ UNCHANGED <<recorder, ring, chan, writer, rows, schema, phase, stops, fails, log, gone, base, since>>

\* There is no file, or one of a version without migrations, with a row.
OldRow == Record(Start - 1)

Init ==
  /\ now = Start
  /\ recorder = [r \in Recorders |-> Idle]
  /\ ring = <<>> /\ chan = <<>> /\ writer = Collecting
  /\ \/ schema = [tables |-> {}, applied |-> {}] /\ rows = {}
     \/ schema = [tables |-> {Initial}, applied |-> {}] /\ rows = {OldRow}
  /\ phase = "down" /\ stops = 0 /\ fails = 0
  /\ log = <<>> /\ gone = {} /\ base = 0 /\ since = Start /\ cleaned = FALSE

Next ==
  \/ \E r \in Recorders : Begin(r) \/ Send(r) \/ Push(r)
  \/ Recv \/ Timeout \/ Flush \/ Cleanup
  \/ Open \/ Stop \/ Tick

Spec == Init /\ [][Next]_vars

\* select! picks at random among what is ready, so that a turn that comes
\* again and again is taken in the end; flushes and cleanups return.
Fairness == SF_vars(Recv) /\ WF_vars(Timeout) /\ WF_vars(Flush) /\ WF_vars(Cleanup)
LiveSpec == Spec /\ Fairness

-----------------------------------------------------------------------------
(* Properties. *)

\* The state is what the code's types allow; the writer's batch stays short,
\* and the file has the tables the queries name whenever the server is up:
\* no old file makes a start panic.
TypeOK ==
  /\ now \in Time
  /\ recorder \in [Recorders -> [at : {"idle", "open", "sent"}, rec : Records]]
  /\ \A s \in {ring, chan, writer.batch, writer.writing, log} : s \in Seq(Records)
  /\ rows \subseteq Records
  /\ Len(ring) <= MaxRecords /\ Len(chan) <= ChannelSize
  /\ writer.at \in {"collect", "flush", "clean"}
  /\ Len(writer.batch) < BatchSize /\ Len(writer.writing) <= BatchSize
  /\ phase \in {"up", "down", "panicked"}
  /\ phase = "up" => schema = [tables |-> Migrations, applied |-> Migrations]
  /\ phase # "panicked"
  /\ gone \subseteq DOMAIN log /\ base \in 0..Len(log)

Numbers(s) == {s[i].no : i \in DOMAIN s}

\* What is under way is in the order it was sent and newer than every row; no
\* record has two rows; and every record has a row or is under way, but those
\* given up by a full channel, a failed flush or a stop, and those older than
\* the retention (db.rs, the writer's loop and cleanup()).
NothingElseLost ==
  /\ \A i, j \in DOMAIN UnderWay : i < j => UnderWay[i].no < UnderWay[j].no
  /\ \A row \in rows : \A n \in Numbers(UnderWay) : row.no < n
  /\ \A row, other \in rows : row.no = other.no => row = other
  /\ \A n \in DOMAIN log :
       \/ n \in gone \cup Numbers(UnderWay)
       \/ \E row \in rows : row.no = n
       \/ log[n].ts + Retention < now

\* When no request is between the two halves of record(), the ring holds the
\* latest records since the start: one fewer than its size for every other
\* request that may have been overtaken (stats.rs, record()).
RingHoldsLatest ==
  phase = "up" /\ (\A r \in Recorders : recorder[r].at # "sent") =>
    \A n \in DOMAIN log :
      n > base /\ n > Len(log) - (MaxRecords - (Cardinality(Recorders) - 1)) => n \in Numbers(ring)

\* Once the writer has caught up, and unless a record was given up or a row of
\* an earlier run is in the window, a window the ring covers shows the same
\* requests whether it is answered from the ring or, being longer than five
\* minutes, from the table (stats.rs 88-97, 288-305).
Settled ==
  /\ phase = "up" /\ UnderWay = <<>>
  /\ \A r \in Recorders : recorder[r].at # "sent"
Since(records, t) == {rec.no : rec \in {old \in records : old.ts >= t}}
ViewsAgree ==
  Settled /\ gone = {} /\ Len(log) - base <= MaxRecords =>
    \A t \in (now - Retention)..now :
      (\A n \in Since(rows, t) : n > base) => Since(ToSet(ring), t) = Since(rows, t)

\* While the server runs, a row is gone at the latest one cleanup after the
\* retention, whenever its request began (db.rs, cleanup()).
RowsExpire ==
  phase = "up" =>
    \A row \in rows :
      now - row.in > Period /\ now - since > Period => now - row.ts <= Retention + Period

\* Whatever enters the channel leaves the writer's hands: into the table, or
\* given up.
EverySentSettles ==
  \A n \in 1..MaxLog : n \in Numbers(UnderWay) ~> n \notin Numbers(UnderWay)
=============================================================================
