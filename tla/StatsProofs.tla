---------------------------- MODULE StatsProofs ----------------------------
(***************************************************************************)
(* Theorems about Stats, for every number of requests under way, of        *)
(* records, of stops and of failed flushes, and every size of the ring,    *)
(* the channel and the batch.                                              *)
(***************************************************************************)
EXTENDS Stats, SequencesExt, SequenceTheorems, FiniteSetTheorems, TLAPS

\* Taking the first element of one sequence to the end of another leaves the
\* two together as they are.
LEMMA MoveOver ==
  ASSUME NEW T, NEW s \in Seq(T), NEW t \in Seq(T), t # <<>>
  PROVE  Append(s, Head(t)) \o Tail(t) = s \o t
<1> DEFINE h == Head(t)
           r == Tail(t)
           a == Append(s, h)
<1>0. Len(s) \in Nat /\ Len(t) \in Nat \ {0} /\ h = t[1] /\ h \in T
  BY LenProperties, EmptySeq, HeadTailProperties
<1>1. r \in Seq(T) /\ Len(r) = Len(t) - 1 /\ \A i \in 1..Len(r) : r[i] = t[i + 1]
  BY HeadTailProperties
<1>2. /\ a \in Seq(T) /\ Len(a) = Len(s) + 1
      /\ \A i \in 1..Len(s) : a[i] = s[i]
      /\ a[Len(s) + 1] = h
  BY <1>0, AppendProperties
<1> HIDE DEF h, r, a
<1>3. /\ a \o r \in Seq(T) /\ Len(a \o r) = Len(a) + Len(r)
      /\ \A i \in 1..Len(a) + Len(r) : (a \o r)[i] = IF i <= Len(a) THEN a[i] ELSE r[i - Len(a)]
  BY <1>1, <1>2, ConcatProperties
<1>4. /\ s \o t \in Seq(T) /\ Len(s \o t) = Len(s) + Len(t)
      /\ \A i \in 1..Len(s) + Len(t) : (s \o t)[i] = IF i <= Len(s) THEN s[i] ELSE t[i - Len(s)]
  BY ConcatProperties
<1>5. Len(a \o r) = Len(s \o t)
  BY <1>0, <1>1, <1>2, <1>3, <1>4
<1>6. ASSUME NEW i \in 1..Len(a \o r) PROVE (a \o r)[i] = (s \o t)[i]
  <2>0. i \in 1..Len(a) + Len(r) /\ i \in 1..Len(s) + Len(t)
    BY <1>3, <1>4, <1>5
  <2>1. CASE i <= Len(s)
    <3>1. i \in 1..Len(s) /\ i <= Len(a)
      BY <2>0, <2>1, <1>0, <1>2
    <3> QED BY <3>1, <2>0, <1>2, <1>3, <1>4
  <2>2. CASE i = Len(s) + 1
    <3>1. i <= Len(a) /\ ~(i <= Len(s)) /\ i - Len(s) = 1
      BY <2>0, <2>2, <1>0, <1>2
    <3> QED BY <3>1, <2>0, <2>2, <1>0, <1>2, <1>3, <1>4
  <2>3. CASE i > Len(s) + 1
    <3>1. ~(i <= Len(a)) /\ ~(i <= Len(s)) /\ i - Len(a) + 1 = i - Len(s) /\ i - Len(a) \in 1..Len(r)
      BY <2>0, <2>3, <1>0, <1>1, <1>2
    <3>2. r[i - Len(a)] = t[i - Len(s)]
      BY <3>1, <1>1
    <3> QED BY <3>1, <3>2, <2>0, <1>3, <1>4
  <2> QED BY <2>0, <2>1, <2>2, <2>3, <1>0
<1>7. a \o r = s \o t
  BY <1>3, <1>4, <1>5, <1>6, SeqEqual
<1> QED BY <1>7 DEF a, h, r

\* An element at the end of the second sequence is at the end of both.
LEMMA AppendToConcat ==
  ASSUME NEW T, NEW s \in Seq(T), NEW t \in Seq(T), NEW e \in T
  PROVE  s \o Append(t, e) = Append(s \o t, e)
<1>1. Append(t, e) = t \o <<e>> /\ <<e>> \in Seq(T)
  BY AppendIsConcat
<1>2. s \o t \in Seq(T)
  BY ConcatProperties
<1>3. Append(s \o t, e) = (s \o t) \o <<e>>
  BY <1>2, AppendIsConcat
<1> QED BY <1>1, <1>3, ConcatAssociative

-----------------------------------------------------------------------------
(* The inductive invariant. *)

Sent == {r \in Recorders : recorder[r].at = "sent"}
Opened == {r \in Recorders : recorder[r].at = "open"}

NoTables == [tables |-> {}, applied |-> {}]
Legacy == [tables |-> {Initial}, applied |-> {}]
Current == [tables |-> {Initial}, applied |-> {Initial}]

Writers == [at : {"collect", "flush", "clean"}, batch : Seq(Records), writing : Seq(Records)]

\* Types, with what the writer holds in each of its places, and the room the
\* requests under way leave in the log.
StateOK ==
  /\ TypeOK
  /\ schema \in {NoTables, Legacy, Current}
  /\ writer \in Writers
  /\ writer.at # "flush" => writer.writing = <<>>
  /\ writer.at # "collect" => writer.batch = <<>>
  /\ Len(log) + Cardinality(Opened) <= MaxLog
  /\ since \in Time /\ cleaned \in BOOLEAN /\ fails \in Nat /\ stops \in Nat
  /\ phase = "down" => /\ ring = <<>> /\ chan = <<>> /\ writer = Collecting
                       /\ recorder = [r \in Recorders |-> Idle]

\* A record that carries a number is the one the log has there.
Logged(rec) == rec.no \in DOMAIN log /\ rec = log[rec.no]

\* Records and rows are those of the log.
ContentOK ==
  /\ \A i \in DOMAIN UnderWay : Logged(UnderWay[i])
  /\ \A row \in rows : row.no # 0 => row.no \in DOMAIN log /\ row.ts = log[row.no].ts

\* The numbers a request may still push to the ring, and those that came after
\* position i of the ring or will, though they were sent before its record.
Pending == {recorder[r].rec.no : r \in Sent}
Overtaken(i) ==
  {n \in 1..ring[i].no - 1 : n \in Pending \/ \E j \in DOMAIN ring : j > i /\ ring[j].no = n}

Others == Cardinality(Recorders) - 1

\* Since the start each record is pushed once ...
PushedOnce ==
  /\ \A i \in DOMAIN ring : Logged(ring[i]) /\ ring[i].no > base
  /\ \A r \in Sent : Logged(recorder[r].rec) /\ recorder[r].rec.no > base
  /\ \A i, j \in DOMAIN ring : ring[i].no = ring[j].no => i = j
  /\ \A r, q \in Sent : recorder[r].rec.no = recorder[q].rec.no => r = q
  /\ \A i \in DOMAIN ring : ring[i].no \notin Pending

\* ... is overtaken at most by one record of every other request ...
FewOvertake == \A i \in DOMAIN ring : Cardinality(Overtaken(i)) <= Others

\* ... and only old ones have left the ring.
OldLeave ==
  phase = "up" => \A n \in base + 1..Len(log) :
    \/ n \in Pending \cup Numbers(ring)
    \/ n <= Len(log) - (MaxRecords - Others) /\ Len(log) - base > MaxRecords

RingOK == PushedOnce /\ FewOvertake /\ OldLeave

\* Every hour for a cleanup the server lived through had one.
ExpiryOK ==
  /\ cleaned => \A row \in rows : row.in < now => row.ts >= now - Retention
  /\ phase = "up" => \A row \in rows, h \in Time :
       CleanupHour(h) /\ since < h /\ h < now /\ row.in < h => row.ts >= h - Retention

IInv == StateOK /\ ContentOK /\ NothingElseLost /\ RingOK /\ ExpiryOK

-----------------------------------------------------------------------------
(* What is under way. *)

LEMMA RecordTyped == \A t \in Time : Record(t) \in Records
BY StatsAssumption DEF Record, Records, Time

LEMMA UnderWayTyped ==
  ASSUME StateOK
  PROVE  /\ UnderWay \in Seq(Records) /\ Len(UnderWay) \in Nat
         /\ DOMAIN UnderWay = 1..Len(UnderWay)
         /\ chan \in Seq(Records) /\ writer.batch \in Seq(Records) /\ writer.writing \in Seq(Records)
         /\ writer.batch \o chan \in Seq(Records)
         /\ writer.writing \o writer.batch \in Seq(Records)
         /\ UnderWay = writer.writing \o (writer.batch \o chan)
<1>1. chan \in Seq(Records) /\ writer.batch \in Seq(Records) /\ writer.writing \in Seq(Records)
  BY DEF StateOK, TypeOK
<1>2. writer.writing \o writer.batch \in Seq(Records) /\ writer.batch \o chan \in Seq(Records)
  BY <1>1, ConcatProperties
<1>3. UnderWay \in Seq(Records)
  BY <1>1, <1>2, ConcatProperties DEF UnderWay
<1>4. UnderWay = writer.writing \o (writer.batch \o chan)
  <2>1. \A s, t, u \in Seq(Records) : (s \o t) \o u = s \o (t \o u)
    BY ConcatAssociative
  <2> QED BY <1>1, <2>1, Zenon DEF UnderWay
<1> QED BY <1>1, <1>2, <1>3, <1>4, LenProperties

\* Without records being written, or in the batch, the parts are fewer.
LEMMA UnderWayParts ==
  ASSUME StateOK
  PROVE  /\ writer.at # "flush" => UnderWay = writer.batch \o chan
         /\ writer.at # "collect" => UnderWay = writer.writing \o chan
<1>1. CASE writer.at # "flush"
  BY <1>1, UnderWayTyped, ConcatEmptySeq DEF StateOK
<1>2. CASE writer.at # "collect"
  BY <1>2, UnderWayTyped, ConcatEmptySeq DEF StateOK
<1> QED BY <1>1, <1>2, UnderWayTyped, ConcatEmptySeq DEF StateOK

\* Handing the batch over moves it, and keeps the writer typed.
LEMMA HandedOver ==
  ASSUME NEW w \in Writers, w.at = "collect", w.writing = <<>>, Len(w.batch) <= BatchSize
  PROVE  /\ HandOver(w) \in Writers
         /\ HandOver(w).writing \o HandOver(w).batch = w.batch
         /\ HandOver(w).at # "flush" => HandOver(w).writing = <<>>
         /\ HandOver(w).batch = <<>>
         /\ Len(HandOver(w).writing) <= BatchSize
<1>0. w.batch \in Seq(Records) /\ AfterFlush \in {"collect", "clean"} /\ <<>> \in Seq(Records)
      /\ Len(<<>>) <= BatchSize
  BY EmptySeq, StatsAssumption DEF Writers, AfterFlush
<1>1. CASE w.batch = <<>>
  <2>1. HandOver(w) = [at |-> AfterFlush, batch |-> <<>>, writing |-> <<>>]
    BY <1>1 DEF HandOver, Writers
  <2>2. <<>> \o <<>> = <<>>
    BY <1>0, ConcatEmptySeq
  <2> QED BY <2>1, <2>2, <1>0, <1>1 DEF Writers
<1>2. CASE w.batch # <<>>
  <2>1. HandOver(w) = [at |-> "flush", batch |-> <<>>, writing |-> w.batch]
    BY <1>2 DEF HandOver
  <2>2. w.batch \o <<>> = w.batch
    BY <1>0, ConcatEmptySeq
  <2> QED BY <2>1, <2>2, <1>0 DEF Writers
<1> QED BY <1>1, <1>2

\* Receiving a record moves it within what is under way.
LEMMA RecvMoves ==
  ASSUME StateOK, Recv
  PROVE  /\ UnderWay' = UnderWay
         /\ writer' \in Writers /\ chan' \in Seq(Records) /\ Len(chan') <= ChannelSize
         /\ Len(writer.batch') < BatchSize /\ Len(writer.writing') <= BatchSize
         /\ writer.at' # "flush" => writer.writing' = <<>>
         /\ writer.at' # "collect" => writer.batch' = <<>>
<1> DEFINE w == [writer EXCEPT !.batch = Append(@, Head(chan))]
<1>0. /\ writer.at = "collect" /\ chan # <<>> /\ chan' = Tail(chan)
      /\ writer' = IF Len(w.batch) >= BatchSize THEN HandOver(w) ELSE w
  BY DEF Recv
<1>1. /\ writer \in Writers /\ chan \in Seq(Records) /\ writer.batch \in Seq(Records)
      /\ writer.writing = <<>> /\ Len(chan) <= ChannelSize /\ Len(writer.batch) < BatchSize
      /\ Len(writer.batch) \in Nat /\ Len(chan) \in Nat
  BY <1>0 DEF StateOK, TypeOK
<1>2. Head(chan) \in Records /\ Tail(chan) \in Seq(Records) /\ Len(Tail(chan)) = Len(chan) - 1
  BY <1>0, <1>1, HeadTailProperties
<1>3. w.batch = Append(writer.batch, Head(chan)) /\ w.at = "collect" /\ w.writing = <<>>
  BY <1>0, <1>1 DEF Writers
<1>4. w.batch \in Seq(Records) /\ Len(w.batch) = Len(writer.batch) + 1
  BY <1>1, <1>2, <1>3, AppendProperties
<1>5. w \in Writers
  BY <1>1, <1>4 DEF Writers
<1>6. w.batch \o Tail(chan) = UnderWay
  BY <1>0, <1>1, <1>3, MoveOver, UnderWayParts
<1>7. Len(chan') <= ChannelSize /\ chan' \in Seq(Records) /\ BatchSize \in Nat \ {0} /\ Len(<<>>) = 0
      /\ ChannelSize \in Nat
  BY <1>0, <1>1, <1>2, StatsAssumption
<1> HIDE DEF w
<1>8. CASE Len(w.batch) >= BatchSize
  <2>1. writer' = HandOver(w) /\ Len(w.batch) <= BatchSize
    BY <1>0, <1>1, <1>4, <1>7, <1>8
  <2>2. /\ HandOver(w) \in Writers
        /\ HandOver(w).writing \o HandOver(w).batch = w.batch
        /\ HandOver(w).at # "flush" => HandOver(w).writing = <<>>
        /\ HandOver(w).batch = <<>>
        /\ Len(HandOver(w).writing) <= BatchSize
    BY <2>1, <1>3, <1>5, HandedOver
  <2>3. UnderWay' = (writer.writing' \o writer.batch') \o chan'
    BY DEF UnderWay
  <2>4. UnderWay' = UnderWay
    BY <2>1, <2>2, <2>3, <1>0, <1>6
  <2> QED BY <2>1, <2>2, <2>4, <1>7
<1>9. CASE ~(Len(w.batch) >= BatchSize)
  <2>1. writer' = w /\ Len(w.batch) < BatchSize
    BY <1>0, <1>1, <1>4, <1>7, <1>9
  <2>2. UnderWay' = (writer.writing' \o writer.batch') \o chan'
    BY DEF UnderWay
  <2>3. <<>> \o w.batch = w.batch
    BY <1>4, ConcatEmptySeq
  <2>4. UnderWay' = UnderWay
    BY <2>1, <2>2, <2>3, <1>0, <1>3, <1>6
  <2> QED BY <2>1, <2>4, <1>0, <1>3, <1>5, <1>7
<1> QED BY <1>8, <1>9

\* So does the timer.
LEMMA TimeoutMoves ==
  ASSUME StateOK, Timeout
  PROVE  /\ UnderWay' = UnderWay
         /\ writer' \in Writers
         /\ Len(writer.batch') < BatchSize /\ Len(writer.writing') <= BatchSize
         /\ writer.at' # "flush" => writer.writing' = <<>>
         /\ writer.batch' = <<>>
<1>1. /\ writer \in Writers /\ writer.at = "collect" /\ writer.writing = <<>>
      /\ Len(writer.batch) < BatchSize /\ Len(writer.batch) \in Nat
      /\ writer' = HandOver(writer) /\ chan' = chan
  BY DEF StateOK, TypeOK, Timeout
<1>2. Len(writer.batch) <= BatchSize /\ Len(<<>>) < BatchSize
  BY <1>1, StatsAssumption
<1>3. /\ HandOver(writer) \in Writers
      /\ HandOver(writer).writing \o HandOver(writer).batch = writer.batch
      /\ HandOver(writer).at # "flush" => HandOver(writer).writing = <<>>
      /\ HandOver(writer).batch = <<>>
      /\ Len(HandOver(writer).writing) <= BatchSize
  BY <1>1, <1>2, HandedOver
<1>4. UnderWay' = (writer.writing' \o writer.batch') \o chan'
  BY DEF UnderWay
<1>5. UnderWay' = writer.batch \o chan
  BY <1>1, <1>3, <1>4
<1> QED BY <1>1, <1>2, <1>3, <1>5, UnderWayParts

\* A record that is sent comes last, if the channel has room.
LEMMA SendAppends ==
  ASSUME StateOK, NEW rec \in Records, TrySend(rec), writer' = writer
  PROVE  /\ chan' \in Seq(Records) /\ Len(chan') <= ChannelSize
         /\ \/ UnderWay' = Append(UnderWay, rec) /\ gone' = gone
            \/ UnderWay' = UnderWay /\ gone' = gone \cup {rec.no}
<1>1. chan \in Seq(Records) /\ Len(chan) \in Nat /\ Len(chan) <= ChannelSize /\ ChannelSize \in Nat
  BY StatsAssumption DEF StateOK, TypeOK
<1>2. CASE Len(chan) < ChannelSize
  <2>1. chan' = Append(chan, rec) /\ gone' = gone
    BY <1>2 DEF TrySend
  <2>2. chan' \in Seq(Records) /\ Len(chan') = Len(chan) + 1
    BY <2>1, <1>1, AppendProperties
  <2>3. UnderWay' = (writer.writing \o writer.batch) \o chan'
    BY DEF UnderWay
  <2> DEFINE p == writer.writing \o writer.batch
  <2>4. p \in Seq(Records) /\ UnderWay = p \o chan /\ UnderWay' = p \o Append(chan, rec)
    BY <2>1, <2>3, UnderWayTyped DEF UnderWay
  <2> HIDE DEF p
  <2>5. UnderWay' = Append(UnderWay, rec)
    BY <2>4, <1>1, AppendToConcat
  <2> QED BY <2>1, <2>2, <2>5, <1>1, <1>2
<1>3. CASE ~(Len(chan) < ChannelSize)
  BY <1>1, <1>3 DEF TrySend, UnderWay
<1> QED BY <1>2, <1>3

\* A flush takes the records being written away.
LEMMA FlushTakes ==
  ASSUME StateOK, Flush
  PROVE  /\ UnderWay = writer.writing \o chan /\ UnderWay' = chan
         /\ writer' \in Writers /\ writer.writing' = <<>> /\ writer.batch' = <<>>
         /\ writer.at' # "flush"
<1>1. /\ writer \in Writers /\ writer.at = "flush" /\ chan' = chan
      /\ writer' = [writer EXCEPT !.at = AfterFlush, !.writing = <<>>]
      /\ writer.batch = <<>> /\ chan \in Seq(Records)
  BY DEF StateOK, TypeOK, Flush
<1>2. <<>> \in Seq(Records) /\ <<>> \o <<>> = <<>> /\ <<>> \o chan = chan
  BY <1>1, EmptySeq, ConcatEmptySeq
<1>3. /\ writer' \in Writers /\ writer.writing' = <<>> /\ writer.batch' = <<>>
      /\ writer.at' # "flush"
  BY <1>1, <1>2 DEF Writers, AfterFlush
<1>4. UnderWay' = (writer.writing' \o writer.batch') \o chan'
  BY DEF UnderWay
<1> QED BY <1>1, <1>2, <1>3, <1>4, UnderWayParts

-----------------------------------------------------------------------------
(* Types. *)

LEMMA OpenedCount ==
  IsFiniteSet(Opened) /\ Cardinality(Opened) \in Nat
BY StatsAssumption, FS_Subset, FS_CardinalityType DEF Opened

LEMMA IdleTyped ==
  /\ Idle \in [at : {"idle", "open", "sent"}, rec : Records]
  /\ Collecting \in Writers /\ Collecting.at = "collect"
  /\ Collecting.batch = <<>> /\ Collecting.writing = <<>>
  /\ Len(<<>>) = 0 /\ <<>> \in Seq(Records)
<1>1. Record(0) \in Records /\ <<>> \in Seq(Records) /\ Len(<<>>) = 0
  BY RecordTyped, StatsAssumption, EmptySeq DEF Time
<1> QED BY <1>1 DEF Idle, Collecting, Writers

LEMMA RecordFields ==
  \A rec \in Records : rec.ts \in Nat /\ rec.no \in Nat /\ rec.in \in Nat
                      /\ rec.ts \in Time /\ rec.no \in 0..MaxLog /\ rec.in \in Time
BY StatsAssumption DEF Records, Time

LEMMA FieldsTyped ==
  ASSUME StateOK
  PROVE  /\ \A row \in rows : row.ts \in Nat /\ row.no \in Nat /\ row.in \in Nat
         /\ \A n \in DOMAIN log : log[n].ts \in Nat /\ log[n] \in Records
         /\ DOMAIN log = 1..Len(log) /\ Len(log) \in Nat
         /\ now \in Nat /\ since \in Nat /\ base \in 0..Len(log)
<1>1. /\ rows \subseteq Records /\ log \in Seq(Records) /\ now \in Time /\ since \in Time
      /\ base \in 0..Len(log)
  BY DEF StateOK, TypeOK
<1>2. DOMAIN log = 1..Len(log) /\ Len(log) \in Nat /\ \A n \in DOMAIN log : log[n] \in Records
  BY <1>1, LenProperties, ElementOfSeq
<1>3. now \in Nat /\ since \in Nat
  BY <1>1, StatsAssumption DEF Time
<1> QED BY <1>1, <1>2, <1>3, RecordFields

LEMMA StateInit == Init => StateOK
<1> SUFFICES ASSUME Init PROVE StateOK
  OBVIOUS
<1>1. now = Start /\ now \in Time /\ Start - 1 \in Time
  BY StatsAssumption DEF Init, Time
<1>2. OldRow \in Records
  BY <1>1, RecordTyped DEF OldRow
<1>3. TypeOK
  BY <1>1, <1>2, IdleTyped, StatsAssumption DEF Init, TypeOK, Writers
<1>4. Opened = {} /\ Len(log) + Cardinality(Opened) <= MaxLog
  <2>1. Opened = {}
    BY DEF Init, Opened, Idle
  <2> QED BY <2>1, FS_EmptySet, StatsAssumption DEF Init
<1>5. schema \in {NoTables, Legacy, Current}
  BY DEF Init, NoTables, Legacy
<1> QED BY <1>1, <1>3, <1>4, <1>5, IdleTyped DEF Init, StateOK

LEMMA StateBegin == ASSUME StateOK, NEW r \in Recorders, Begin(r) PROVE StateOK'
<1>1. Record(now) \in Records
  BY RecordTyped DEF StateOK, TypeOK
<1> DEFINE e == [at |-> "open", rec |-> Record(now)]
<1>2. e \in [at : {"idle", "open", "sent"}, rec : Records] /\ e.at = "open"
  BY <1>1
<1>3. recorder' = [recorder EXCEPT ![r] = e] /\ Len(log) + Cardinality(Opened) < MaxLog
      /\ phase = "up" /\ log' = log /\ recorder[r].at = "idle"
  BY DEF Begin, Opened, historyVars
<1> HIDE DEF e
<1>4. recorder' \in [Recorders -> [at : {"idle", "open", "sent"}, rec : Records]]
  BY <1>2, <1>3 DEF StateOK, TypeOK
<1>5. Opened' = Opened \cup {r} /\ r \notin Opened
  BY <1>2, <1>3 DEF Opened, StateOK, TypeOK
<1>6. Cardinality(Opened') = Cardinality(Opened) + 1
  BY <1>5, OpenedCount, FS_AddElement
<1>7. (Len(log) + Cardinality(Opened) <= MaxLog)'
  BY <1>3, <1>6, OpenedCount, StatsAssumption DEF StateOK, TypeOK
<1>8. TypeOK'
  BY <1>4 DEF Begin, StateOK, TypeOK, historyVars
<1> QED BY <1>3, <1>7, <1>8 DEF Begin, StateOK, historyVars

\* What Send writes.
LEMMA SendFacts ==
  ASSUME StateOK, NEW r \in Recorders, Send(r), NEW rec,
         rec = [recorder[r].rec EXCEPT !.no = Len(log) + 1]
  PROVE  /\ rec \in Records /\ rec.no = Len(log) + 1
         /\ log' = Append(log, rec) /\ log' \in Seq(Records) /\ Len(log') = Len(log) + 1
         /\ \A n \in DOMAIN log : n \in DOMAIN log' /\ log'[n] = log[n]
         /\ DOMAIN log = 1..Len(log) /\ DOMAIN log' = 1..Len(log) + 1 /\ Len(log) \in Nat
         /\ log'[Len(log) + 1] = rec
         /\ recorder' = [recorder EXCEPT ![r] = [at |-> "sent", rec |-> rec]]
         /\ TrySend(rec)
         /\ r \in Opened /\ Cardinality(Opened) > 0
<1>1. log \in Seq(Records) /\ Len(log) \in Nat /\ recorder[r] \in [at : {"idle", "open", "sent"}, rec : Records]
  BY DEF StateOK, TypeOK
<1>2. r \in Opened
  BY DEF Send, Opened
<1>3. Cardinality(Opened) > 0
  BY <1>2, OpenedCount, FS_EmptySet
<1>4. Len(log) + 1 \in 0..MaxLog
  BY <1>1, <1>3, OpenedCount, StatsAssumption DEF StateOK
<1>5. rec \in Records /\ rec.no = Len(log) + 1
  BY <1>1, <1>4 DEF Records
<1>6. log' = Append(log, rec) /\ recorder' = [recorder EXCEPT ![r] = [at |-> "sent", rec |-> rec]]
      /\ TrySend(rec)
  BY DEF Send
<1>7. log' \in Seq(Records) /\ Len(log') = Len(log) + 1
      /\ (\A n \in 1..Len(log) : log'[n] = log[n]) /\ log'[Len(log) + 1] = rec
  BY <1>1, <1>5, <1>6, AppendProperties
<1>8. DOMAIN log = 1..Len(log) /\ DOMAIN log' = 1..Len(log) + 1
  BY <1>1, <1>7, LenProperties
<1>9. \A n \in DOMAIN log : n \in DOMAIN log' /\ log'[n] = log[n]
  BY <1>1, <1>7, <1>8
<1> QED BY <1>1, <1>2, <1>3, <1>5, <1>6, <1>7, <1>8, <1>9

LEMMA StateSend == ASSUME StateOK, NEW r \in Recorders, Send(r) PROVE StateOK'
<1>1. PICK rec : rec = [recorder[r].rec EXCEPT !.no = Len(log) + 1]
  OBVIOUS
<1>2. /\ rec \in Records /\ rec.no = Len(log) + 1
      /\ log' = Append(log, rec) /\ log' \in Seq(Records) /\ Len(log') = Len(log) + 1
      /\ DOMAIN log = 1..Len(log) /\ DOMAIN log' = 1..Len(log) + 1 /\ Len(log) \in Nat
      /\ recorder' = [recorder EXCEPT ![r] = [at |-> "sent", rec |-> rec]]
      /\ TrySend(rec) /\ r \in Opened
  BY <1>1, SendFacts
<1>3. /\ chan' \in Seq(Records) /\ Len(chan') <= ChannelSize
      /\ gone' \subseteq gone \cup {Len(log) + 1}
  BY <1>2, SendAppends DEF Send
<1>4. recorder' \in [Recorders -> [at : {"idle", "open", "sent"}, rec : Records]]
  BY <1>2 DEF StateOK, TypeOK
<1>5. Opened' = Opened \ {r}
  BY <1>2 DEF Opened, StateOK, TypeOK
<1>6. Cardinality(Opened') = Cardinality(Opened) - 1
  BY <1>2, <1>5, OpenedCount, FS_RemoveElement
<1>7. (Len(log) + Cardinality(Opened) <= MaxLog)'
  BY <1>2, <1>6, OpenedCount, StatsAssumption DEF StateOK
<1>8. gone' \subseteq DOMAIN log' /\ base' \in 0..Len(log')
  BY <1>2, <1>3 DEF Send, StateOK, TypeOK
<1>9. TypeOK'
  BY <1>2, <1>3, <1>4, <1>8 DEF Send, StateOK, TypeOK
<1> QED BY <1>7, <1>9 DEF Send, StateOK

LEMMA PushTyped ==
  ASSUME NEW s \in Seq(Records), Len(s) <= MaxRecords, NEW rec \in Records
  PROVE  Pushed(s, rec) \in Seq(Records) /\ Len(Pushed(s, rec)) <= MaxRecords
<1>1. Len(s) \in Nat /\ MaxRecords \in Nat \ {0}
  BY StatsAssumption
<1>2. CASE Len(s) >= MaxRecords
  <2>1. s # <<>>
    BY <1>1, <1>2, EmptySeq
  <2>2. Tail(s) \in Seq(Records) /\ Len(Tail(s)) = Len(s) - 1
    BY <2>1, HeadTailProperties
  <2>3. Pushed(s, rec) = Append(Tail(s), rec)
    BY <1>2 DEF Pushed
  <2> QED BY <2>2, <2>3, <1>1, AppendProperties
<1>3. CASE ~(Len(s) >= MaxRecords)
  <2>1. Pushed(s, rec) = Append(s, rec)
    BY <1>3 DEF Pushed
  <2> QED BY <2>1, <1>1, <1>3, AppendProperties
<1> QED BY <1>2, <1>3

LEMMA StatePush == ASSUME StateOK, NEW r \in Recorders, Push(r) PROVE StateOK'
<1>1. ring' \in Seq(Records) /\ Len(ring') <= MaxRecords
  BY PushTyped DEF Push, StateOK, TypeOK
<1>2. recorder' \in [Recorders -> [at : {"idle", "open", "sent"}, rec : Records]]
  BY IdleTyped DEF Push, StateOK, TypeOK
<1>3. Opened' = Opened
  BY DEF Push, Opened, Idle, StateOK, TypeOK
<1>4. TypeOK'
  BY <1>1, <1>2 DEF Push, StateOK, TypeOK, historyVars
<1> QED BY <1>3, <1>4 DEF Push, StateOK, historyVars

LEMMA StateRecv == ASSUME StateOK, Recv PROVE StateOK'
<1>1. /\ writer' \in Writers /\ chan' \in Seq(Records) /\ Len(chan') <= ChannelSize
      /\ Len(writer.batch') < BatchSize /\ Len(writer.writing') <= BatchSize
      /\ writer.at' # "flush" => writer.writing' = <<>>
      /\ writer.at' # "collect" => writer.batch' = <<>>
  BY RecvMoves
<1>2. Opened' = Opened
  BY DEF Recv, Opened
<1>3. TypeOK'
  BY <1>1 DEF Recv, StateOK, TypeOK, historyVars, Writers
<1> QED BY <1>1, <1>2, <1>3 DEF Recv, StateOK, historyVars

LEMMA StateTimeout == ASSUME StateOK, Timeout PROVE StateOK'
<1>1. /\ writer' \in Writers
      /\ Len(writer.batch') < BatchSize /\ Len(writer.writing') <= BatchSize
      /\ writer.at' # "flush" => writer.writing' = <<>>
      /\ writer.batch' = <<>>
  BY TimeoutMoves
<1>2. Opened' = Opened
  BY DEF Timeout, Opened
<1>3. TypeOK'
  BY <1>1 DEF Timeout, StateOK, TypeOK, historyVars, Writers
<1> QED BY <1>1, <1>2, <1>3 DEF Timeout, StateOK, historyVars

\* A row is the record with the hour of its insertion.
Row(rec) == [rec EXCEPT !.in = now]

LEMMA RowTyped ==
  ASSUME StateOK, NEW rec \in Records
  PROVE  Row(rec) \in Records /\ Row(rec).no = rec.no /\ Row(rec).ts = rec.ts /\ Row(rec).in = now
BY DEF StateOK, TypeOK, Records, Row

LEMMA WritingTyped ==
  ASSUME StateOK
  PROVE  \A rec \in ToSet(writer.writing) : rec \in Records
BY ElementOfSeq, LenProperties DEF StateOK, TypeOK, ToSet

\* The rows after a flush, and the records given up in one.
LEMMA FlushFacts ==
  ASSUME StateOK, Flush
  PROVE  \/ /\ rows' = rows \cup {Row(rec) : rec \in ToSet(writer.writing)}
            /\ gone' = gone /\ fails' = fails
         \/ /\ rows' = rows
            /\ gone' = gone \cup {rec.no : rec \in ToSet(writer.writing)}
            /\ fails' = fails + 1
BY DEF Flush, Row

LEMMA StateFlush == ASSUME StateOK, ContentOK, Flush PROVE StateOK'
<1>1. /\ writer' \in Writers /\ writer.writing' = <<>> /\ writer.batch' = <<>>
      /\ writer.at' # "flush" /\ UnderWay = writer.writing \o chan
  BY FlushTakes
<1>2. Opened' = Opened
  BY DEF Flush, Opened
<1>3. Len(writer.batch') < BatchSize /\ Len(writer.writing') <= BatchSize
  BY <1>1, IdleTyped, StatsAssumption
<1>4. rows' \subseteq Records
  <2>1. rows \subseteq Records
    BY DEF StateOK, TypeOK
  <2>2. {Row(rec) : rec \in ToSet(writer.writing)} \subseteq Records
    BY WritingTyped, RowTyped
  <2> QED BY <2>1, <2>2, FlushFacts
<1>5. gone' \subseteq DOMAIN log
  <2>1. gone \subseteq DOMAIN log
    BY DEF StateOK, TypeOK
  <2>2. ASSUME NEW rec \in ToSet(writer.writing) PROVE rec.no \in DOMAIN log
    <3>1. PICK i \in DOMAIN writer.writing : rec = writer.writing[i]
      BY DEF ToSet
    <3>2. i \in DOMAIN UnderWay /\ UnderWay[i] = rec
      BY <1>1, <3>1, UnderWayTyped, ConcatProperties, LenProperties
    <3> QED BY <3>2 DEF ContentOK, Logged
  <2> QED BY <2>1, <2>2, FlushFacts
<1>6. TypeOK'
  <2>1. UNCHANGED <<now, recorder, ring, chan, schema, phase, log, base>>
    BY DEF Flush
  <2>2. /\ writer.at' \in {"collect", "flush", "clean"}
        /\ writer.batch' \in Seq(Records) /\ writer.writing' \in Seq(Records)
    BY <1>1 DEF Writers
  <2>3. TypeOK
    BY DEF StateOK
  <2> QED BY <2>1, <2>2, <2>3, <1>3, <1>4, <1>5 DEF TypeOK
<1>7. fails' \in Nat
  BY FlushFacts DEF StateOK
<1> QED BY <1>1, <1>2, <1>6, <1>7 DEF Flush, StateOK

LEMMA StateCleanup == ASSUME StateOK, Cleanup PROVE StateOK'
<1>1. writer' = [writer EXCEPT !.at = "collect"] /\ writer \in Writers /\ writer.at = "clean"
      /\ writer.writing = <<>> /\ writer.batch = <<>>
  BY DEF Cleanup, StateOK
<1>2. writer' \in Writers /\ writer.at' = "collect" /\ writer.writing' = <<>> /\ writer.batch' = <<>>
  BY <1>1 DEF Writers
<1>3. rows' \subseteq Records
  BY DEF Cleanup, KeptRows, StateOK, TypeOK
<1>4. Opened' = Opened
  BY DEF Cleanup, Opened
<1>5. Len(writer.batch') < BatchSize /\ Len(writer.writing') <= BatchSize
  BY <1>2, IdleTyped, StatsAssumption
<1>6. TypeOK'
  BY <1>2, <1>3, <1>5, IdleTyped DEF Cleanup, StateOK, TypeOK, Writers
<1> QED BY <1>2, <1>4, <1>6 DEF Cleanup, StateOK

\* No file makes the migrations fail.
LEMMA MigrationsRun ==
  ASSUME NEW s \in {NoTables, Legacy, Current}
  PROVE  RunMigrations(s).ok /\ RunMigrations(s).schema = Current
<1>1. CASE s = NoTables
  BY <1>1, StatsAssumption DEF RunMigrations, NoTables, Current
<1>2. CASE s = Legacy
  BY <1>2, StatsAssumption DEF RunMigrations, Legacy, Current
<1>3. CASE s = Current
  BY <1>3, StatsAssumption DEF RunMigrations, Current
<1> QED BY <1>1, <1>2, <1>3

LEMMA StateOpen == ASSUME StateOK, Open PROVE StateOK'
<1>1. schema' = Current /\ phase' = "up"
  BY MigrationsRun DEF Open, StateOK
<1>2. Opened' = Opened
  BY DEF Open, Opened
<1>3. base' \in 0..Len(log') /\ since' \in Time
  BY DEF Open, StateOK, TypeOK
<1>4. TypeOK'
  BY <1>1, <1>3, StatsAssumption DEF Open, StateOK, TypeOK, Current
<1> QED BY <1>1, <1>2, <1>3, <1>4 DEF Open, StateOK

LEMMA StateStop == ASSUME StateOK, ContentOK, Stop PROVE StateOK'
<1>1. /\ recorder' = [r \in Recorders |-> Idle] /\ ring' = <<>> /\ chan' = <<>>
      /\ writer' = Collecting /\ phase' = "down" /\ stops' = stops + 1
  BY DEF Stop
<1>2. recorder' \in [Recorders -> [at : {"idle", "open", "sent"}, rec : Records]]
  BY <1>1, IdleTyped
<1>3. Opened' = {}
  BY <1>1 DEF Opened, Idle
<1>4. gone' \subseteq DOMAIN log
  <2>1. gone' = gone \cup {rec.no : rec \in ToSet(UnderWay)}
    BY DEF Stop
  <2>2. ASSUME NEW rec \in ToSet(UnderWay) PROVE rec.no \in DOMAIN log
    BY DEF ToSet, ContentOK, Logged
  <2> QED BY <2>1, <2>2 DEF StateOK, TypeOK
<1>5. Cardinality(Opened') <= Cardinality(Opened)
  BY <1>3, OpenedCount, FS_EmptySet
<1>6. TypeOK'
  BY <1>1, <1>2, <1>4, IdleTyped, StatsAssumption DEF Stop, StateOK, TypeOK
<1>7. (Len(log) + Cardinality(Opened) <= MaxLog)'
  <2>1. Len(log) \in Nat /\ MaxLog \in Nat /\ log' = log /\ Cardinality(Opened') = 0
    BY <1>3, FS_EmptySet, StatsAssumption DEF Stop, StateOK, TypeOK
  <2> QED BY <2>1, OpenedCount DEF StateOK
<1>8. stops' \in Nat /\ phase' = "down" /\ writer'.at = "collect" /\ writer'.writing = <<>>
  BY <1>1, IdleTyped DEF StateOK
<1> QED BY <1>1, <1>6, <1>7, <1>8, IdleTyped DEF Stop, StateOK

LEMMA StateTick == ASSUME StateOK, Tick PROVE StateOK'
<1>1. Opened' = Opened
  BY DEF Tick, Opened
<1>2. now' \in Time
  BY StatsAssumption DEF Tick, StateOK, TypeOK, Time
<1>3. TypeOK'
  BY <1>2 DEF Tick, StateOK, TypeOK
<1> QED BY <1>1, <1>3 DEF Tick, StateOK

LEMMA StateStutter == ASSUME StateOK, UNCHANGED vars PROVE StateOK'
<1>1. Opened' = Opened
  BY DEF vars, Opened
<1>2. TypeOK'
  BY DEF vars, StateOK, TypeOK, historyVars
<1> QED BY <1>1, <1>2 DEF vars, StateOK, historyVars

-----------------------------------------------------------------------------
(* Nothing is lost, and nothing is stored twice. *)

LogOK == ContentOK /\ NothingElseLost

LEMMA LogInit == Init => LogOK
<1> SUFFICES ASSUME Init PROVE LogOK
  OBVIOUS
<1>1. log = <<>> /\ gone = {} /\ UnderWay = writer.writing \o writer.batch \o chan
      /\ (rows = {} \/ rows = {OldRow}) /\ OldRow.no = 0
  BY DEF Init, UnderWay, OldRow, Record
<1>2. UnderWay = <<>>
  BY <1>1, StateInit, UnderWayParts, IdleTyped, ConcatEmptySeq DEF Init
<1>3. DOMAIN UnderWay = {} /\ DOMAIN log = {}
  BY <1>1, <1>2
<1>4. Numbers(UnderWay) = {}
  BY <1>3 DEF Numbers
<1> QED BY <1>1, <1>3, <1>4 DEF LogOK, ContentOK, NothingElseLost

\* A step that moves no record.
LEMMA LogKept ==
  ASSUME LogOK, UnderWay' = UnderWay, UNCHANGED <<log, rows, gone, now>>
  PROVE  LogOK'
<1>1. ContentOK'
  BY DEF LogOK, ContentOK, Logged
<1>2. NothingElseLost'
  BY DEF LogOK, NothingElseLost, Numbers
<1> QED BY <1>1, <1>2 DEF LogOK

LEMMA LogSend == ASSUME StateOK, LogOK, NEW r \in Recorders, Send(r) PROVE LogOK'
<1>1. PICK rec : rec = [recorder[r].rec EXCEPT !.no = Len(log) + 1]
  OBVIOUS
<1>2. /\ rec \in Records /\ rec.no = Len(log) + 1
      /\ \A n \in DOMAIN log : n \in DOMAIN log' /\ log'[n] = log[n]
      /\ DOMAIN log = 1..Len(log) /\ DOMAIN log' = 1..Len(log) + 1 /\ Len(log) \in Nat
      /\ log'[Len(log) + 1] = rec
      /\ TrySend(rec)
  BY <1>1, SendFacts
<1>3. \/ UnderWay' = Append(UnderWay, rec) /\ gone' = gone
      \/ UnderWay' = UnderWay /\ gone' = gone \cup {Len(log) + 1}
  BY <1>2, SendAppends DEF Send
<1>4. UnderWay \in Seq(Records) /\ Len(UnderWay) \in Nat /\ DOMAIN UnderWay = 1..Len(UnderWay)
  BY UnderWayTyped
<1>5. rows' = rows /\ now' = now
  BY DEF Send
<1>6. \A i \in DOMAIN UnderWay : UnderWay[i].no \in DOMAIN log /\ UnderWay[i] = log[UnderWay[i].no]
  BY DEF LogOK, ContentOK, Logged
<1>7. \A row \in rows : row.no # 0 => row.no \in DOMAIN log /\ row.ts = log[row.no].ts
  BY DEF LogOK, ContentOK
<1>8. \A row \in rows : row.no < Len(log) + 1
  BY <1>2, <1>7, FieldsTyped
<1>9. CASE UnderWay' = UnderWay /\ gone' = gone \cup {Len(log) + 1}
  <2>1. ContentOK'
    BY <1>2, <1>5, <1>6, <1>7, <1>9 DEF ContentOK, Logged
  <2>2. NothingElseLost'
    BY <1>2, <1>5, <1>9 DEF LogOK, NothingElseLost, Numbers
  <2> QED BY <2>1, <2>2 DEF LogOK
<1>10. CASE UnderWay' = Append(UnderWay, rec) /\ gone' = gone
  <2> DEFINE n == Len(UnderWay)
  <2>1. /\ DOMAIN UnderWay' = 1..n + 1
        /\ \A i \in 1..n : UnderWay'[i] = UnderWay[i]
        /\ UnderWay'[n + 1] = rec
    <3>1. UnderWay' \in Seq(Records) /\ Len(UnderWay') = n + 1
      BY <1>2, <1>4, <1>10, AppendProperties
    <3> QED BY <1>2, <1>4, <1>10, <3>1, AppendProperties, LenProperties
  <2>2. ContentOK'
    BY <2>1, <1>2, <1>4, <1>5, <1>6, <1>7 DEF ContentOK, Logged
  <2>3. Numbers(UnderWay') = Numbers(UnderWay) \cup {Len(log) + 1}
    BY <2>1, <1>2, <1>4 DEF Numbers
  <2>4. \A i \in DOMAIN UnderWay : UnderWay[i].no < Len(log) + 1 /\ UnderWay[i].no \in Nat
    BY <1>2, <1>6
  <2>5. (\A i, j \in DOMAIN UnderWay : i < j => UnderWay[i].no < UnderWay[j].no)'
    BY <2>1, <2>4, <1>2, <1>4 DEF LogOK, NothingElseLost
  <2>6. (\A row \in rows : \A m \in Numbers(UnderWay) : row.no < m)'
    BY <2>3, <1>5, <1>8 DEF LogOK, NothingElseLost
  <2>7. (\A m \in DOMAIN log :
           \/ m \in gone \cup Numbers(UnderWay)
           \/ \E row \in rows : row.no = m
           \/ log[m].ts + Retention < now)'
    BY <2>3, <1>2, <1>5, <1>10 DEF LogOK, NothingElseLost
  <2>8. (\A row, other \in rows : row.no = other.no => row = other)'
    BY <1>5 DEF LogOK, NothingElseLost
  <2>9. NothingElseLost'
    BY <2>5, <2>6, <2>7, <2>8 DEF NothingElseLost
  <2> QED BY <2>2, <2>9 DEF LogOK
<1> QED BY <1>3, <1>9, <1>10

LEMMA LogFlush == ASSUME StateOK, LogOK, Flush PROVE LogOK'
<1> DEFINE k == Len(writer.writing)
           W == ToSet(writer.writing)
<1>1. /\ UnderWay = writer.writing \o chan /\ UnderWay' = chan /\ log' = log /\ now' = now
      /\ chan \in Seq(Records) /\ writer.writing \in Seq(Records) /\ k \in Nat /\ Len(chan) \in Nat
      /\ DOMAIN chan = 1..Len(chan) /\ DOMAIN writer.writing = 1..k
      /\ DOMAIN UnderWay = 1..Len(UnderWay)
  BY FlushTakes, UnderWayTyped, LenProperties DEF Flush
<1>2. /\ Len(UnderWay) = k + Len(chan)
      /\ \A i \in 1..k : UnderWay[i] = writer.writing[i]
      /\ \A i \in 1..Len(chan) : k + i \in DOMAIN UnderWay /\ UnderWay[k + i] = UnderWay'[i]
  <2>1. /\ Len(UnderWay) = k + Len(chan)
        /\ \A i \in 1..k + Len(chan) : UnderWay[i] = IF i <= k THEN writer.writing[i] ELSE chan[i - k]
    BY <1>1, ConcatProperties
  <2>2. ASSUME NEW i \in 1..Len(chan)
        PROVE  k + i \in DOMAIN UnderWay /\ UnderWay[k + i] = UnderWay'[i]
    <3>1. k + i \in 1..k + Len(chan) /\ ~(k + i <= k) /\ (k + i) - k = i
      BY <1>1
    <3> QED BY <1>1, <2>1, <3>1
  <2> QED BY <1>1, <2>1, <2>2
<1>3. DOMAIN UnderWay' = 1..Len(chan)
  BY <1>1
<1>4. \A rec \in W : \E i \in 1..k : rec = UnderWay[i] /\ i \in DOMAIN UnderWay /\ rec \in Records
  BY <1>1, <1>2, WritingTyped DEF ToSet
<1>5. Numbers(UnderWay) = {rec.no : rec \in W} \cup Numbers(UnderWay')
  <2>1. \A i \in 1..k : UnderWay[i] \in W
    BY <1>1, <1>2 DEF ToSet
  <2>2. ASSUME NEW i \in DOMAIN UnderWay, i > k
        PROVE  i - k \in 1..Len(chan) /\ UnderWay[i] = UnderWay'[i - k]
    <3>1. i - k \in 1..Len(chan) /\ k + (i - k) = i
      BY <1>1, <1>2, <2>2
    <3> QED BY <1>2, <3>1
  <2>3. ASSUME NEW i \in DOMAIN UnderWay
        PROVE  UnderWay[i].no \in {rec.no : rec \in W} \cup Numbers(UnderWay')
    <3>1. CASE i <= k
      BY <3>1, <2>1, <1>1
    <3>2. CASE i > k
      BY <3>2, <2>2, <1>3 DEF Numbers
    <3> QED BY <3>1, <3>2, <1>1
  <2>4. ASSUME NEW rec \in W PROVE rec.no \in Numbers(UnderWay)
    BY <1>4 DEF Numbers
  <2>5. ASSUME NEW i \in DOMAIN UnderWay' PROVE UnderWay'[i].no \in Numbers(UnderWay)
    BY <1>2, <1>3 DEF Numbers
  <2> HIDE DEF W
  <2> QED BY <2>3, <2>4, <2>5 DEF Numbers
<1>6. \A i, j \in DOMAIN UnderWay : i < j => UnderWay[i].no < UnderWay[j].no
  BY DEF LogOK, NothingElseLost
<1>7. \A i, j \in DOMAIN UnderWay' : i < j => UnderWay'[i].no < UnderWay'[j].no
  <2> SUFFICES ASSUME NEW i \in 1..Len(chan), NEW j \in 1..Len(chan), i < j
               PROVE  UnderWay'[i].no < UnderWay'[j].no
    BY <1>3
  <2>1. k + i < k + j
    BY <1>1
  <2> QED BY <2>1, <1>2, <1>6
<1>8. \A rec \in W, i \in DOMAIN UnderWay' : rec.no < UnderWay'[i].no
  <2> SUFFICES ASSUME NEW rec \in W, NEW i \in 1..Len(chan) PROVE rec.no < UnderWay'[i].no
    BY <1>3
  <2>1. PICK j \in 1..k : rec = UnderWay[j] /\ j \in DOMAIN UnderWay
    BY <1>4
  <2>2. j < k + i
    BY <1>1
  <2> QED BY <2>1, <2>2, <1>2, <1>6
<1>9. \A rec \in W : rec.no \in DOMAIN log /\ rec = log[rec.no]
  BY <1>4 DEF LogOK, ContentOK, Logged
<1>10. \A i \in DOMAIN UnderWay' : Logged(UnderWay'[i])
  BY <1>2, <1>3 DEF LogOK, ContentOK
<1>11. \A row \in rows : row.no # 0 => row.no \in DOMAIN log /\ row.ts = log[row.no].ts
  BY DEF LogOK, ContentOK
<1>12. /\ \A row \in rows : \A m \in Numbers(UnderWay) : row.no < m
       /\ \A row, other \in rows : row.no = other.no => row = other
       /\ \A m \in DOMAIN log :
            \/ m \in gone \cup Numbers(UnderWay)
            \/ \E row \in rows : row.no = m
            \/ log[m].ts + Retention < now
  BY DEF LogOK, NothingElseLost
<1>13. \A row \in rows : row.no \in Nat
  BY DEF StateOK, TypeOK, Records
<1>14. \A rec \in W : Row(rec).no = rec.no /\ Row(rec).ts = rec.ts /\ rec.no \in Nat
  BY <1>4, RowTyped DEF Records
<1>15. \A rec, other \in W : rec.no = other.no => rec = other
  BY <1>9
<1> HIDE DEF W, k
<1>16. CASE rows' = rows /\ gone' = gone \cup {rec.no : rec \in W}
  <2>1. ContentOK'
    BY <1>1, <1>10, <1>11, <1>16 DEF ContentOK, Logged
  <2>2. NothingElseLost'
    BY <1>1, <1>5, <1>7, <1>12, <1>16 DEF NothingElseLost
  <2> QED BY <2>1, <2>2 DEF LogOK
<1>17. CASE rows' = rows \cup {Row(rec) : rec \in W} /\ gone' = gone
  <2>1. (\A row \in rows : row.no # 0 => row.no \in DOMAIN log /\ row.ts = log[row.no].ts)'
    BY <1>1, <1>9, <1>11, <1>14, <1>17
  <2>2. ContentOK'
    BY <2>1, <1>1, <1>10 DEF ContentOK, Logged
  <2>3. (\A row \in rows : \A m \in Numbers(UnderWay) : row.no < m)'
    BY <1>5, <1>8, <1>12, <1>14, <1>17 DEF Numbers
  <2>4. \A row \in rows, rec \in W : row.no # rec.no
    BY <1>5, <1>12, <1>13, <1>14
  <2>5. \A row, other \in rows' : row.no = other.no => row = other
    BY <2>4, <1>12, <1>14, <1>15, <1>17
  <2>6. (\A m \in DOMAIN log :
            \/ m \in gone \cup Numbers(UnderWay)
            \/ \E row \in rows : row.no = m
            \/ log[m].ts + Retention < now)'
    <3> SUFFICES ASSUME NEW m \in DOMAIN log
                 PROVE  (\/ m \in gone \cup Numbers(UnderWay)
                         \/ \E row \in rows : row.no = m
                         \/ log[m].ts + Retention < now)'
      BY <1>1
    <3>1. CASE m \in {rec.no : rec \in W}
      <4>1. PICK rec \in W : rec.no = m
        BY <3>1
      <4>2. Row(rec) \in rows' /\ Row(rec).no = m
        BY <4>1, <1>14, <1>17
      <4> QED BY <4>2
    <3>2. CASE m \in gone \/ m \in Numbers(UnderWay') \/ log[m].ts + Retention < now
      BY <3>2, <1>1, <1>17
    <3>3. CASE \E row \in rows : row.no = m
      BY <3>3, <1>17
    <3> QED BY <3>1, <3>2, <3>3, <1>5, <1>12
  <2>7. NothingElseLost'
    BY <2>3, <2>5, <2>6, <1>7 DEF NothingElseLost
  <2> QED BY <2>2, <2>7 DEF LogOK
<1> QED BY <1>16, <1>17, FlushFacts DEF W

LEMMA LogCleanup == ASSUME StateOK, LogOK, Cleanup PROVE LogOK'
<1>1. rows' = {row \in rows : row.ts >= now - Retention} /\ UNCHANGED <<log, gone, now>>
      /\ chan' = chan /\ writer' = [writer EXCEPT !.at = "collect"]
  BY DEF Cleanup, KeptRows
<1>2. UnderWay' = UnderWay
  BY <1>1 DEF UnderWay, StateOK, Writers
<1>3. ContentOK'
  BY <1>1, <1>2 DEF LogOK, ContentOK, Logged
<1>4. ASSUME NEW n \in DOMAIN log, NEW row \in rows, row.no = n
      PROVE  row \in rows' \/ log[n].ts + Retention < now
  <2>1. row.ts = log[n].ts /\ row.ts \in Int
    BY <1>4, FieldsTyped DEF LogOK, ContentOK
  <2>2. now \in Int /\ Retention \in Nat
    BY StatsAssumption, FieldsTyped
  <2> QED BY <2>1, <2>2, <1>1
<1>5. NothingElseLost'
  BY <1>1, <1>2, <1>4 DEF LogOK, NothingElseLost, Numbers
<1> QED BY <1>3, <1>5 DEF LogOK

LEMMA LogStop == ASSUME StateOK, StateOK', LogOK, Stop PROVE LogOK'
<1>1. /\ UNCHANGED <<log, rows, now>> /\ gone' = gone \cup {rec.no : rec \in ToSet(UnderWay)}
      /\ chan' = <<>> /\ writer' = Collecting
  BY DEF Stop
<1>2. UnderWay' = <<>>
  <2>1. UnderWay' = writer'.writing \o writer'.batch \o chan'
    BY DEF UnderWay
  <2>2. writer'.writing = <<>> /\ writer'.batch = <<>> /\ <<>> \in Seq(Records)
    BY <1>1, IdleTyped
  <2> QED BY <2>1, <2>2, <1>1, ConcatEmptySeq
<1>3. {rec.no : rec \in ToSet(UnderWay)} = Numbers(UnderWay)
  BY DEF ToSet, Numbers
<1>4. Numbers(UnderWay') = {} /\ DOMAIN UnderWay' = {}
  BY <1>2 DEF Numbers
<1>5. ContentOK'
  BY <1>1, <1>4 DEF LogOK, ContentOK
<1>6. NothingElseLost'
  BY <1>1, <1>3, <1>4 DEF LogOK, NothingElseLost
<1> QED BY <1>5, <1>6 DEF LogOK

LEMMA LogTick == ASSUME StateOK, LogOK, Tick PROVE LogOK'
<1>1. now' = now + 1 /\ UNCHANGED <<log, rows, gone, chan, writer>> /\ UnderWay' = UnderWay
  BY DEF Tick, UnderWay
<1>2. ContentOK'
  BY <1>1 DEF LogOK, ContentOK, Logged
<1>3. \A n \in DOMAIN log : log[n].ts + Retention < now => log[n].ts + Retention < now'
  <2>1. \A n \in DOMAIN log : log[n].ts \in Int
    BY FieldsTyped
  <2> QED BY <2>1, <1>1, FieldsTyped, StatsAssumption
<1>4. NothingElseLost'
  BY <1>1, <1>3 DEF LogOK, NothingElseLost, Numbers
<1> QED BY <1>2, <1>4 DEF LogOK

-----------------------------------------------------------------------------
(* The ring. *)

LEMMA RingInit == Init => RingOK
<1> SUFFICES ASSUME Init PROVE RingOK
  OBVIOUS
<1>1. ring = <<>> /\ phase = "down" /\ Sent = {}
  BY DEF Init, Sent, Idle
<1> QED BY <1>1 DEF RingOK, PushedOnce, FewOvertake, OldLeave

\* A step that neither sends nor pushes.
LEMMA RingKept ==
  ASSUME RingOK, UNCHANGED <<ring, log, base, phase>>,
         Sent' = Sent, \A r \in Sent : recorder'[r] = recorder[r]
  PROVE  RingOK'
<1>1. Pending' = Pending
  BY DEF Pending
<1>2. \A i \in DOMAIN ring : Overtaken(i)' = Overtaken(i)
  BY <1>1 DEF Overtaken
<1> QED BY <1>1, <1>2 DEF RingOK, PushedOnce, FewOvertake, OldLeave, Logged, Numbers

LEMMA RingOpen == ASSUME StateOK, Open PROVE RingOK'
<1>1. ring' = <<>> /\ recorder' = [r \in Recorders |-> Idle] /\ base' = Len(log') /\ Len(log') \in Nat
  BY DEF StateOK, TypeOK, Open
<1>2. Sent' = {} /\ DOMAIN ring' = {} /\ base' + 1..Len(log') = {}
  BY <1>1 DEF Sent, Idle
<1> QED BY <1>2 DEF RingOK, PushedOnce, FewOvertake, OldLeave

LEMMA RingStop == ASSUME Stop PROVE RingOK'
<1>1. ring' = <<>> /\ recorder' = [r \in Recorders |-> Idle] /\ phase' = "down"
  BY DEF Stop
<1>2. Sent' = {} /\ DOMAIN ring' = {}
  BY <1>1 DEF Sent, Idle
<1> QED BY <1>1, <1>2 DEF RingOK, PushedOnce, FewOvertake, OldLeave

LEMMA RingSend == ASSUME StateOK, RingOK, NEW r \in Recorders, Send(r) PROVE RingOK'
<1> DEFINE len == Len(log)
<1>1. PICK rec : rec = [recorder[r].rec EXCEPT !.no = len + 1]
  OBVIOUS
<1>2. /\ rec \in Records /\ rec.no = len + 1
      /\ \A n \in DOMAIN log : n \in DOMAIN log' /\ log'[n] = log[n]
      /\ DOMAIN log = 1..len /\ DOMAIN log' = 1..len + 1 /\ len \in Nat /\ Len(log') = len + 1
      /\ log'[len + 1] = rec
      /\ recorder' = [recorder EXCEPT ![r] = [at |-> "sent", rec |-> rec]]
      /\ r \in Opened
  BY <1>1, SendFacts
<1>3. ring' = ring /\ base' = base /\ phase' = phase /\ base \in 0..len
  BY FieldsTyped DEF Send
<1>4. /\ Sent' = Sent \cup {r} /\ r \notin Sent
      /\ recorder'[r].rec = rec /\ \A q \in Sent : recorder'[q] = recorder[q]
  BY <1>2 DEF Sent, Opened, StateOK, TypeOK
<1>5. Pending' = Pending \cup {len + 1}
  BY <1>2, <1>4 DEF Pending
<1> HIDE DEF len
<1>6. /\ \A i \in DOMAIN ring : Logged(ring[i]) /\ ring[i].no > base /\ ring[i].no \in 1..len
      /\ \A q \in Sent : Logged(recorder[q].rec) /\ recorder[q].rec.no > base
                         /\ recorder[q].rec.no \in 1..len
  BY <1>2 DEF RingOK, PushedOnce, Logged
<1>7. \A i \in DOMAIN ring : Overtaken(i)' = Overtaken(i)
  <2> SUFFICES ASSUME NEW i \in DOMAIN ring PROVE Overtaken(i)' = Overtaken(i)
    OBVIOUS
  <2>1. \A n \in 1..ring[i].no - 1 : n \in Pending' <=> n \in Pending
    BY <1>2, <1>5, <1>6
  <2> QED BY <2>1, <1>3 DEF Overtaken
<1>8. \A i \in DOMAIN ring' : Logged(ring[i])' /\ ring'[i].no > base'
  BY <1>2, <1>3, <1>6 DEF Logged
<1>9. \A q \in Sent' : Logged(recorder[q].rec)' /\ recorder'[q].rec.no > base'
  BY <1>2, <1>3, <1>4, <1>6 DEF Logged
<1>10. \A q, p \in Sent' : recorder'[q].rec.no = recorder'[p].rec.no => q = p
  BY <1>2, <1>4, <1>6 DEF RingOK, PushedOnce
<1>11. \A i \in DOMAIN ring' : ring'[i].no \notin Pending'
  BY <1>2, <1>3, <1>5, <1>6 DEF RingOK, PushedOnce
<1>12. ASSUME phase' = "up", NEW n \in base' + 1..len + 1
       PROVE  \/ n \in Pending' \cup Numbers(ring')
              \/ n <= (len + 1) - (MaxRecords - Others) /\ (len + 1) - base' > MaxRecords
  <2>1. CASE n = len + 1
    BY <2>1, <1>5
  <2>2. CASE n # len + 1
    <3>1. n \in base + 1..len
      BY <2>2, <1>2, <1>3, <1>12
    <3>2. \/ n \in Pending \cup Numbers(ring)
          \/ n <= len - (MaxRecords - Others) /\ len - base > MaxRecords
      BY <3>1, <1>3, <1>12 DEF RingOK, OldLeave, len
    <3>3. MaxRecords \in Nat /\ Others \in Int
      BY StatsAssumption, FS_CardinalityType DEF Others
    <3> QED BY <3>1, <3>2, <3>3, <1>2, <1>3, <1>5
  <2> QED BY <2>1, <2>2
<1>13. PushedOnce'
  BY <1>3, <1>8, <1>9, <1>10, <1>11 DEF RingOK, PushedOnce
<1>14. FewOvertake'
  BY <1>3, <1>7 DEF RingOK, FewOvertake, Others
<1>15. OldLeave'
  <2> SUFFICES ASSUME phase' = "up", NEW n \in base' + 1..Len(log')
               PROVE  (\/ n \in Pending \cup Numbers(ring)
                       \/ n <= Len(log) - (MaxRecords - Others) /\ Len(log) - base > MaxRecords)'
    BY DEF OldLeave
  <2>1. n \in base' + 1..len + 1
    BY <1>2
  <2>2. \/ n \in Pending' \cup Numbers(ring')
        \/ n <= (len + 1) - (MaxRecords - Others) /\ (len + 1) - base' > MaxRecords
    BY <2>1, <1>12
  <2>3. Numbers(ring)' = Numbers(ring') /\ Others' = Others
    BY DEF Numbers, Others
  <2> QED BY <2>2, <2>3, <1>2
<1> QED BY <1>13, <1>14, <1>15 DEF RingOK

\* The image of a finite set is no larger.
LEMMA ImageSmall ==
  ASSUME NEW S, IsFiniteSet(S), NEW f, f = [x \in S |-> f[x]]
  PROVE  IsFiniteSet({f[x] : x \in S}) /\ Cardinality({f[x] : x \in S}) <= Cardinality(S)
<1> DEFINE T == {f[x] : x \in S}
<1>1. f \in Surjection(S, T)
  BY DEF Surjection
<1> QED BY <1>1, FS_Surjection

\* The record that makes way in a full ring is older than all that may be
\* asked of the ring: beside those that overtook it, what comes in its place
\* is newer.
LEMMA DroppedIsOld ==
  ASSUME StateOK, RingOK, NEW r \in Sent, Len(ring) = MaxRecords
  PROVE  ring[1].no <= Len(log) - (MaxRecords - Others) /\ Len(log) - base > MaxRecords
<1> DEFINE p == recorder[r].rec.no
           x == ring[1].no
           len == Len(log)
<1>0. /\ MaxRecords \in Nat \ {0} /\ len \in Nat /\ base \in 0..len /\ DOMAIN log = 1..len
      /\ DOMAIN ring = 1..MaxRecords /\ Others \in Int
  <2>1. ring \in Seq(Records)
    BY DEF StateOK, TypeOK
  <2>2. DOMAIN ring = 1..Len(ring)
    BY <2>1, LenProperties
  <2> QED BY <2>2, FieldsTyped, StatsAssumption, FS_CardinalityType DEF Others
<1>1. /\ \A i \in 1..MaxRecords : ring[i].no \in base + 1..len
      /\ p \in base + 1..len /\ p \in Pending
      /\ \A i, j \in 1..MaxRecords : ring[i].no = ring[j].no => i = j
      /\ \A i \in 1..MaxRecords : ring[i].no # p
  <2>1. /\ \A i \in DOMAIN ring : Logged(ring[i]) /\ ring[i].no > base /\ ring[i].no \notin Pending
        /\ Logged(recorder[r].rec) /\ p > base
        /\ \A i, j \in DOMAIN ring : ring[i].no = ring[j].no => i = j
    BY DEF RingOK, PushedOnce
  <2>2. p \in Pending
    BY DEF Pending
  <2>3. \A i \in DOMAIN ring : ring[i].no \in 1..len /\ ring[i].no > base
    BY <2>1, <1>0 DEF Logged
  <2>4. p \in 1..len /\ p > base
    BY <2>1, <1>0 DEF Logged
  <2>5. \A n \in 1..len : n > base => n \in base + 1..len
    BY <1>0
  <2> HIDE DEF p, len
  <2>6. /\ \A i \in 1..MaxRecords : ring[i].no \in base + 1..len
        /\ p \in base + 1..len
    BY <2>3, <2>4, <2>5, <1>0
  <2>7. \A i \in 1..MaxRecords : ring[i].no # p
    BY <2>1, <2>2, <1>0
  <2> QED BY <2>1, <2>2, <2>6, <2>7, <1>0
<1>2. 1 \in 1..MaxRecords /\ x \in base + 1..len
  BY <1>0, <1>1
<1>3. len - base > MaxRecords
  <2> DEFINE g == [j \in 0..MaxRecords |-> IF j = 0 THEN p ELSE ring[j].no]
             B == base + 1..len
  <2>1. g \in [0..MaxRecords -> B]
    BY <1>0, <1>1
  <2>2. ASSUME NEW i \in 0..MaxRecords, NEW j \in 0..MaxRecords, g[i] = g[j] PROVE i = j
    BY <2>2, <1>0, <1>1
  <2>3. g \in Injection(0..MaxRecords, B)
    BY <2>1, <2>2 DEF Injection, IsInjective
  <2> HIDE DEF g, p, len
  <2>4. IsFiniteSet(B) /\ Cardinality(B) = len - base
    <3>1. base + 1 \in Int /\ len \in Int /\ ~(base + 1 > len) /\ len - (base + 1) + 1 = len - base
      BY <1>0, <1>1
    <3>2. /\ IsFiniteSet(base + 1..len)
          /\ Cardinality(base + 1..len) = IF base + 1 > len THEN 0 ELSE len - (base + 1) + 1
      BY <3>1, FS_Interval
    <3> QED BY <3>1, <3>2
  <2>5. Cardinality(0..MaxRecords) = MaxRecords + 1
    BY <1>0, FS_Interval
  <2> HIDE DEF B
  <2>6. Cardinality(0..MaxRecords) <= Cardinality(B)
    BY <2>3, <2>4, FS_Injection
  <2> QED BY <2>4, <2>5, <2>6, <1>0
<1>4. x <= len - (MaxRecords - Others)
  <2> DEFINE f == [j \in 1..MaxRecords |-> IF j < MaxRecords THEN ring[j + 1].no ELSE p]
             A == x + 1..len
             O == Overtaken(1)
  <2>1. ASSUME NEW j \in 1..MaxRecords PROVE f[j] \in O \cup A
    <3>1. CASE j < MaxRecords
      <4>1. f[j] = ring[j + 1].no /\ j + 1 \in 1..MaxRecords /\ j + 1 > 1 /\ j + 1 # 1
        BY <3>1, <1>0
      <4>2. f[j] \in base + 1..len /\ f[j] # x
        BY <4>1, <1>1, <1>2
      <4>3. CASE f[j] < x
        <5>1. f[j] \in 1..ring[1].no - 1
          BY <4>2, <4>3, <1>0, <1>2
        <5> QED BY <5>1, <4>1, <1>0 DEF Overtaken
      <4>4. CASE f[j] > x
        BY <4>2, <4>4, <1>0, <1>2
      <4> QED BY <4>2, <4>3, <4>4, <1>0, <1>2
    <3>2. CASE ~(j < MaxRecords)
      <4>1. f[j] = p
        BY <3>2
      <4>2. p \in base + 1..len /\ p # x
        BY <1>1, <1>2
      <4>3. CASE p < x
        <5>1. p \in 1..ring[1].no - 1
          BY <4>2, <4>3, <1>0, <1>2
        <5> QED BY <5>1, <4>1, <1>1 DEF Overtaken
      <4>4. CASE p > x
        BY <4>1, <4>2, <4>4, <1>0, <1>2
      <4> QED BY <4>2, <4>3, <4>4, <1>0, <1>2
    <3> QED BY <3>1, <3>2
  <2>2. ASSUME NEW i \in 1..MaxRecords, NEW j \in 1..MaxRecords, f[i] = f[j] PROVE i = j
    <3>1. f[i] = (IF i < MaxRecords THEN ring[i + 1].no ELSE p)
          /\ f[j] = (IF j < MaxRecords THEN ring[j + 1].no ELSE p)
      OBVIOUS
    <3>2. (i < MaxRecords => i + 1 \in 1..MaxRecords) /\ (j < MaxRecords => j + 1 \in 1..MaxRecords)
      BY <1>0
    <3> HIDE DEF f, p
    <3>3. CASE i < MaxRecords /\ j < MaxRecords
      <4>1. i + 1 = j + 1
        BY <2>2, <3>1, <3>2, <3>3, <1>1
      <4> QED BY <4>1, <1>0
    <3>4. CASE i < MaxRecords /\ ~(j < MaxRecords)
      BY <2>2, <3>1, <3>2, <3>4, <1>1
    <3>5. CASE ~(i < MaxRecords) /\ j < MaxRecords
      BY <2>2, <3>1, <3>2, <3>5, <1>1
    <3>6. CASE ~(i < MaxRecords) /\ ~(j < MaxRecords)
      BY <3>6, <1>0
    <3> QED BY <3>3, <3>4, <3>5, <3>6
  <2>3. f \in Injection(1..MaxRecords, O \cup A)
    BY <2>1, <2>2 DEF Injection, IsInjective
  <2> HIDE DEF f, p, len, x
  <2>4. IsFiniteSet(A) /\ Cardinality(A) = len - x
    BY <1>0, <1>2, FS_Interval
  <2>5. IsFiniteSet(O) /\ Cardinality(O) <= Others /\ Cardinality(O) \in Nat
    <3>1. O \subseteq 1..x - 1
      BY DEF Overtaken, x
    <3>2. IsFiniteSet(1..x - 1)
      BY <1>0, <1>2, FS_Interval
    <3>3. IsFiniteSet(O)
      BY <3>1, <3>2, FS_Subset
    <3> QED BY <3>3, <1>0, <1>2, FS_CardinalityType DEF RingOK, FewOvertake
  <2> HIDE DEF A, O
  <2>6. IsFiniteSet(O \cup A) /\ Cardinality(O \cup A) <= Others + (len - x)
    <3>1. IsFiniteSet(O \cap A) /\ Cardinality(O \cap A) \in Nat
      BY <2>4, FS_Intersection, FS_CardinalityType
    <3>2. IsFiniteSet(O \cup A)
          /\ Cardinality(O \cup A) = Cardinality(O) + Cardinality(A) - Cardinality(O \cap A)
      BY <2>4, <2>5, FS_Union
    <3> QED BY <3>1, <3>2, <2>4, <2>5, <1>0, <1>2
  <2>7. Cardinality(1..MaxRecords) = MaxRecords
    BY <1>0, FS_Interval
  <2>8. Cardinality(1..MaxRecords) <= Cardinality(O \cup A)
    BY <2>3, <2>6, FS_Injection
  <2>9. IsFiniteSet(O \cup A) /\ Cardinality(O \cup A) \in Nat
    BY <2>6, FS_CardinalityType
  <2> QED BY <2>6, <2>7, <2>8, <2>9, <1>0, <1>2
<1> QED BY <1>3, <1>4

\* A full ring shifts by one place, another one does not.
Shift == IF Len(ring) >= MaxRecords THEN 1 ELSE 0

LEMMA PushFacts ==
  ASSUME StateOK, NEW r \in Recorders, Push(r), NEW l, l = Len(ring) - Shift
  PROVE  /\ r \in Sent /\ l \in Nat /\ DOMAIN ring' = 1..l + 1
         /\ DOMAIN ring = 1..l + Shift /\ Shift \in {0, 1}
         /\ \A i \in 1..l : i + Shift \in DOMAIN ring /\ ring'[i] = ring[i + Shift]
         /\ ring'[l + 1] = recorder[r].rec
         /\ Shift = 1 => Len(ring) = MaxRecords
         /\ Sent' = Sent \ {r} /\ \A q \in Sent' : recorder'[q] = recorder[q]
         /\ UNCHANGED <<log, base, phase>>
<1> DEFINE rec == recorder[r].rec
<1>1. /\ ring \in Seq(Records) /\ Len(ring) \in Nat /\ Len(ring) <= MaxRecords /\ DOMAIN ring = 1..Len(ring)
      /\ MaxRecords \in Nat \ {0} /\ rec \in Records
  BY LenProperties, StatsAssumption DEF StateOK, TypeOK
<1>2. ring' = Pushed(ring, rec) /\ recorder' = [recorder EXCEPT ![r] = Idle]
      /\ r \in Sent /\ UNCHANGED <<log, base, phase>>
  BY DEF Push, Sent, historyVars
<1>3. Sent' = Sent \ {r} /\ \A q \in Sent' : recorder'[q] = recorder[q]
  BY <1>2 DEF Sent, Idle, StateOK, TypeOK
<1> HIDE DEF rec
<1>4. CASE Len(ring) >= MaxRecords
  <2>1. ring # <<>> /\ Shift = 1 /\ ring' = Append(Tail(ring), rec) /\ l = Len(ring) - 1 /\ l \in Nat
        /\ Len(ring) = MaxRecords
    BY <1>1, <1>2, <1>4, EmptySeq DEF Pushed, Shift
  <2>2. Tail(ring) \in Seq(Records) /\ Len(Tail(ring)) = l /\ \A i \in 1..l : Tail(ring)[i] = ring[i + 1]
    BY <2>1, <1>1, HeadTailProperties
  <2>3. /\ ring' \in Seq(Records) /\ Len(ring') = l + 1
        /\ \A i \in 1..l : ring'[i] = Tail(ring)[i]
        /\ ring'[l + 1] = rec
    BY <2>1, <2>2, <1>1, AppendProperties
  <2>4. DOMAIN ring' = 1..l + 1
    BY <2>3, LenProperties
  <2>5. Len(ring) = l + 1 /\ \A i \in 1..l : i + 1 \in 1..l + 1
    BY <2>1, <1>1
  <2> QED BY <2>1, <2>2, <2>3, <2>4, <2>5, <1>1, <1>2, <1>3 DEF rec
<1>5. CASE ~(Len(ring) >= MaxRecords)
  <2>1. Shift = 0 /\ ring' = Append(ring, rec) /\ l = Len(ring) /\ l \in Nat
    BY <1>1, <1>2, <1>5 DEF Pushed, Shift
  <2>2. /\ ring' \in Seq(Records) /\ Len(ring') = l + 1
        /\ \A i \in 1..l : ring'[i] = ring[i]
        /\ ring'[l + 1] = rec
    BY <2>1, <1>1, AppendProperties
  <2>3. DOMAIN ring' = 1..l + 1
    BY <2>2, LenProperties
  <2>4. \A i \in 1..l : i + 0 = i
    OBVIOUS
  <2> QED BY <2>1, <2>2, <2>3, <2>4, <1>1, <1>2, <1>3 DEF rec
<1> QED BY <1>4, <1>5

LEMMA RingPush == ASSUME StateOK, RingOK, NEW r \in Recorders, Push(r) PROVE RingOK'
<1>1. PICK l : l = Len(ring) - Shift
  OBVIOUS
<1>2. PICK p : p = recorder[r].rec.no
  OBVIOUS
<1>3. /\ r \in Sent /\ l \in Nat /\ DOMAIN ring' = 1..l + 1
      /\ DOMAIN ring = 1..l + Shift /\ Shift \in {0, 1}
      /\ \A i \in 1..l : i + Shift \in DOMAIN ring /\ ring'[i] = ring[i + Shift]
      /\ ring'[l + 1] = recorder[r].rec
      /\ Shift = 1 => Len(ring) = MaxRecords
      /\ Sent' = Sent \ {r} /\ \A q \in Sent' : recorder'[q] = recorder[q]
      /\ UNCHANGED <<log, base, phase>>
  BY <1>1, PushFacts
<1>0. \A i \in 1..l : \E k \in DOMAIN ring : k = i + Shift /\ ring'[i] = ring[k]
  BY <1>3
<1>4. /\ \A i \in DOMAIN ring : Logged(ring[i]) /\ ring[i].no > base
      /\ \A q \in Sent : Logged(recorder[q].rec) /\ recorder[q].rec.no > base
      /\ \A i, j \in DOMAIN ring : ring[i].no = ring[j].no => i = j
      /\ \A q, s \in Sent : recorder[q].rec.no = recorder[s].rec.no => q = s
      /\ \A i \in DOMAIN ring : ring[i].no \notin Pending
  BY DEF RingOK, PushedOnce
<1>5. Pending' = Pending \ {p} /\ p \in Pending
  <2>1. \A q \in Sent : q # r => recorder[q].rec.no # p
    BY <1>2, <1>3, <1>4
  <2>2. Pending' = {recorder[q].rec.no : q \in Sent \ {r}}
    BY <1>3 DEF Pending
  <2>3. p \in Pending
    BY <1>2, <1>3 DEF Pending
  <2>4. {recorder[q].rec.no : q \in Sent \ {r}} = Pending \ {p}
    BY <2>1, <1>2 DEF Pending
  <2> QED BY <2>2, <2>3, <2>4
<1>6. \A i \in DOMAIN ring' : i \in 1..l \/ i = l + 1
  BY <1>3
<1>7. PushedOnce'
  <2>1. ASSUME NEW i \in DOMAIN ring'
        PROVE  Logged(ring[i])' /\ ring'[i].no > base' /\ ring'[i].no \notin Pending'
    <3>1. CASE i \in 1..l
      <4>1. PICK k \in DOMAIN ring : ring'[i] = ring[k]
        BY <3>1, <1>0
      <4>2. Logged(ring[k]) /\ ring[k].no > base /\ ring[k].no \notin Pending
        BY <1>4
      <4> QED BY <4>1, <4>2, <1>3, <1>5 DEF Logged
    <3>2. CASE i = l + 1
      BY <3>2, <1>2, <1>3, <1>4, <1>5 DEF Logged
    <3> QED BY <3>1, <3>2, <1>6
  <2>2. \A q \in Sent' : Logged(recorder[q].rec)' /\ recorder'[q].rec.no > base'
    BY <1>3, <1>4 DEF Logged
  <2>3. \A q, s \in Sent' : recorder'[q].rec.no = recorder'[s].rec.no => q = s
    BY <1>3, <1>4
  <2>4. ASSUME NEW i \in DOMAIN ring', NEW j \in DOMAIN ring', ring'[i].no = ring'[j].no
        PROVE  i = j
    <3>1. CASE i \in 1..l /\ j \in 1..l
      <4>1. PICK k \in DOMAIN ring : k = i + Shift /\ ring'[i] = ring[k]
        BY <3>1, <1>0
      <4>2. PICK m \in DOMAIN ring : m = j + Shift /\ ring'[j] = ring[m]
        BY <3>1, <1>0
      <4>3. k = m
        BY <2>4, <4>1, <4>2, <1>4
      <4> QED BY <4>1, <4>2, <4>3, <3>1, <1>3
    <3>2. ASSUME NEW m \in 1..l PROVE ring'[m].no # p
      <4>1. PICK k \in DOMAIN ring : ring'[m] = ring[k]
        BY <1>0
      <4> QED BY <4>1, <1>4, <1>5
    <3>3. ring'[l + 1].no = p
      BY <1>2, <1>3
    <3> QED BY <2>4, <3>1, <3>2, <3>3, <1>6
  <2> QED BY <2>1, <2>2, <2>3, <2>4 DEF PushedOnce
<1>8. FewOvertake'
  <2> SUFFICES ASSUME NEW i \in DOMAIN ring' PROVE Cardinality(Overtaken(i)') <= Others
    BY DEF FewOvertake, Others
  <2>0. Others \in Int /\ ring'[i].no \in Nat
    <3>1. ring'[i].no \in Nat
      BY <1>7, <1>3, FieldsTyped DEF PushedOnce, Logged
    <3> QED BY <3>1, StatsAssumption, FS_CardinalityType DEF Others
  <2>1. CASE i \in 1..l
    <3>1. i + Shift \in DOMAIN ring /\ ring'[i] = ring[i + Shift]
      BY <2>1, <1>3
    <3>2. ASSUME NEW n \in Overtaken(i)' PROVE n \in Overtaken(i + Shift)
      <4>1. n \in 1..ring[i + Shift].no - 1
        BY <3>1 DEF Overtaken
      <4>2. CASE n \in Pending'
        BY <4>1, <4>2, <1>5 DEF Overtaken
      <4>3. CASE \E j \in DOMAIN ring' : j > i /\ ring'[j].no = n
        <5>1. PICK j \in DOMAIN ring' : j > i /\ ring'[j].no = n
          BY <4>3
        <5>2. CASE j = l + 1
          BY <5>1, <5>2, <4>1, <1>2, <1>3, <1>5 DEF Overtaken
        <5>3. CASE j \in 1..l
          <6>1. PICK k \in DOMAIN ring : k = j + Shift /\ ring'[j] = ring[k]
            BY <5>3, <1>0
          <6>2. k > i + Shift /\ ring[k].no = n
            BY <5>1, <5>3, <6>1, <2>1, <1>3
          <6> QED BY <6>1, <6>2, <4>1 DEF Overtaken
        <5> QED BY <5>2, <5>3, <1>6
      <4> QED BY <4>2, <4>3 DEF Overtaken
    <3>3. Overtaken(i)' \subseteq Overtaken(i + Shift)
      BY <3>2
    <3>4. Overtaken(i + Shift) \subseteq 1..ring[i + Shift].no - 1
      BY DEF Overtaken
    <3>5. ring[i + Shift].no \in Nat
      BY <3>1, <2>0
    <3>6. IsFiniteSet(Overtaken(i + Shift))
      <4>1. ring[i + Shift].no - 1 \in Int
        BY <3>5
      <4>2. IsFiniteSet(1..ring[i + Shift].no - 1)
        BY <4>1, FS_Interval
      <4> QED BY <4>2, <3>4, FS_Subset
    <3>7. /\ Cardinality(Overtaken(i)') <= Cardinality(Overtaken(i + Shift))
          /\ IsFiniteSet(Overtaken(i)')
      BY <3>3, <3>6, FS_Subset
    <3>8. Cardinality(Overtaken(i + Shift)) <= Others
      BY <3>1 DEF RingOK, FewOvertake
    <3>9. Cardinality(Overtaken(i)') \in Nat /\ Cardinality(Overtaken(i + Shift)) \in Nat
      BY <3>6, <3>7, FS_CardinalityType
    <3> QED BY <3>7, <3>8, <3>9, <2>0
  <2>2. CASE i = l + 1
    <3>1. Overtaken(i)' \subseteq Pending'
      <4>1. ~\E j \in DOMAIN ring' : j > i
        BY <2>2, <1>3
      <4> QED BY <4>1 DEF Overtaken
    <3> DEFINE R == Recorders \ {r}
               f == [q \in R |-> recorder'[q].rec.no]
               I == {f[q] : q \in R}
    <3>2. IsFiniteSet(R) /\ Cardinality(R) = Others
      <4>1. IsFiniteSet(Recorders)
        BY StatsAssumption
      <4> QED BY <4>1, FS_RemoveElement DEF Others
    <3>3. Pending' \subseteq I
      BY <1>3 DEF Pending, Sent
    <3> HIDE DEF R
    <3>4. IsFiniteSet(I) /\ Cardinality(I) <= Cardinality(R)
      BY <3>2, ImageSmall
    <3> HIDE DEF f, I
    <3>5. Overtaken(i)' \subseteq I
      BY <3>1, <3>3
    <3>6. IsFiniteSet(Overtaken(i)') /\ Cardinality(Overtaken(i)') <= Cardinality(I)
      BY <3>4, <3>5, FS_Subset
    <3>7. Cardinality(Overtaken(i)') \in Nat /\ Cardinality(I) \in Nat
      BY <3>4, <3>6, FS_CardinalityType
    <3> QED BY <3>2, <3>4, <3>6, <3>7, <2>0
  <2> QED BY <2>1, <2>2, <1>6
<1>9. OldLeave'
  <2> SUFFICES ASSUME phase = "up", NEW n \in base + 1..Len(log)
               PROVE  \/ n \in Pending' \cup Numbers(ring)'
                      \/ n <= Len(log) - (MaxRecords - Others) /\ Len(log) - base > MaxRecords
    BY <1>3 DEF OldLeave, Others
  <2>1. \/ n \in Pending \cup Numbers(ring)
        \/ n <= Len(log) - (MaxRecords - Others) /\ Len(log) - base > MaxRecords
    BY DEF RingOK, OldLeave
  <2>2. CASE n \in Pending /\ n # p
    BY <2>2, <1>5
  <2>3. CASE n = p
    <3>1. l + 1 \in DOMAIN ring' /\ ring'[l + 1].no = n
      BY <2>3, <1>2, <1>3
    <3> QED BY <3>1 DEF Numbers
  <2>4. CASE n \in Numbers(ring)
    <3>1. PICK j \in DOMAIN ring : ring[j].no = n
      BY <2>4 DEF Numbers
    <3>2. CASE j > Shift
      <4>1. j - Shift \in 1..l /\ (j - Shift) + Shift = j
        BY <3>2, <1>3
      <4>2. j - Shift \in DOMAIN ring' /\ ring'[j - Shift].no = n
        BY <4>1, <3>1, <1>3
      <4> QED BY <4>2 DEF Numbers
    <3>3. CASE ~(j > Shift)
      <4>1. j = 1 /\ Shift = 1
        BY <3>3, <1>3
      <4> QED BY <4>1, <3>1, <1>3, DroppedIsOld
    <3> QED BY <3>2, <3>3
  <2> QED BY <2>1, <2>2, <2>3, <2>4
<1> QED BY <1>7, <1>8, <1>9 DEF RingOK

-----------------------------------------------------------------------------
(* The retention. *)

LEMMA ExpiryInit == Init => ExpiryOK
BY DEF Init, ExpiryOK

LEMMA ExpiryKept ==
  ASSUME ExpiryOK, UNCHANGED <<now, rows, phase, since, cleaned>>
  PROVE  ExpiryOK'
BY DEF ExpiryOK

LEMMA ExpiryFlush == ASSUME StateOK, ExpiryOK, Flush PROVE ExpiryOK'
<1>1. UNCHANGED <<now, phase, since, cleaned>>
  BY DEF Flush
<1>2. \A row \in rows' : row \in rows \/ row.in = now
  BY FlushFacts, WritingTyped, RowTyped
<1>3. now \in Nat /\ \A h \in Time : h \in Nat
  BY FieldsTyped, StatsAssumption DEF Time
<1>4. \A row \in rows' : cleaned /\ row.in < now => row.ts >= now - Retention
  BY <1>2, <1>3 DEF ExpiryOK
<1>5. \A row \in rows', h \in Time :
        phase = "up" /\ CleanupHour(h) /\ since < h /\ h < now /\ row.in < h => row.ts >= h - Retention
  BY <1>2, <1>3 DEF ExpiryOK
<1> QED BY <1>1, <1>4, <1>5 DEF ExpiryOK, CleanupHour

LEMMA ExpiryCleanup == ASSUME ExpiryOK, Cleanup PROVE ExpiryOK'
<1>1. UNCHANGED <<now, phase, since>> /\ \A row \in rows' : row \in rows /\ row.ts >= now - Retention
  BY DEF Cleanup, KeptRows
<1> QED BY <1>1 DEF ExpiryOK, CleanupHour

LEMMA ExpiryOpen == ASSUME StateOK, ExpiryOK, Open PROVE ExpiryOK'
<1>1. UNCHANGED <<now, rows, cleaned>> /\ since' = now
  BY DEF Open
<1>2. \A h \in Time : ~(now < h /\ h < now)
  BY FieldsTyped, StatsAssumption DEF Time
<1> QED BY <1>1, <1>2 DEF ExpiryOK

LEMMA ExpiryStop == ASSUME ExpiryOK, Stop PROVE ExpiryOK'
BY DEF ExpiryOK, Stop

\* No hour for a cleanup passes without one.
LEMMA ExpiryTick == ASSUME StateOK, ExpiryOK, Tick PROVE ExpiryOK'
<1>1. /\ now' = now + 1 /\ cleaned' = FALSE /\ UNCHANGED <<rows, phase, since>>
      /\ phase = "up" /\ CleanupHour(now) => cleaned
  BY DEF Tick
<1>2. now \in Nat /\ \A h \in Time : h \in Nat
  BY FieldsTyped, StatsAssumption DEF Time
<1>3. ASSUME phase = "up", NEW row \in rows, NEW h \in Time,
             CleanupHour(h), since < h, h < now + 1, row.in < h
      PROVE  row.ts >= h - Retention
  <2>1. CASE h < now
    BY <2>1, <1>3 DEF ExpiryOK
  <2>2. CASE h = now
    BY <2>2, <1>1, <1>3 DEF ExpiryOK
  <2> QED BY <2>1, <2>2, <1>2, <1>3
<1> QED BY <1>1, <1>3 DEF ExpiryOK, CleanupHour

\* Among as many hours as a period has there is one for a cleanup.
LEMMA HourExists ==
  ASSUME NEW t \in Nat, t >= Period
  PROVE  \E h \in Nat : CleanupHour(h) /\ t - Period <= h /\ h < t
<1> DEFINE m == t - 1
           q == m \div Period
<1>1. Period \in Nat \ {0} /\ m \in Nat
  BY StatsAssumption
<1>2. m = (Period * q) + (m % Period) /\ q \in Nat /\ m % Period \in 0..Period - 1
  BY <1>1
<1>3. (Period * q) % Period = 0
  BY <1>1, <1>2
<1> HIDE DEF q
<1>4. Period * q \in Nat
  BY <1>1, <1>2
<1>5. t - Period <= Period * q /\ Period * q < t
  BY <1>1, <1>2, <1>4
<1> QED BY <1>3, <1>4, <1>5 DEF CleanupHour

-----------------------------------------------------------------------------
(* The invariant is inductive. *)

LEMMA InitIInv == Init => IInv
BY StateInit, LogInit, RingInit, ExpiryInit DEF IInv, LogOK

LEMMA StepState == ASSUME IInv, [Next]_vars PROVE StateOK'
<1>1. StateOK /\ ContentOK
  BY DEF IInv
<1>2. ASSUME NEW r \in Recorders, Begin(r) \/ Send(r) \/ Push(r) PROVE StateOK'
  BY <1>1, <1>2, StateBegin, StateSend, StatePush
<1>3. CASE Recv \/ Timeout \/ Flush \/ Cleanup
  BY <1>1, <1>3, StateRecv, StateTimeout, StateFlush, StateCleanup
<1>4. CASE Open \/ Stop \/ Tick
  BY <1>1, <1>4, StateOpen, StateStop, StateTick
<1>5. CASE UNCHANGED vars
  BY <1>1, <1>5, StateStutter
<1> QED BY <1>2, <1>3, <1>4, <1>5 DEF Next

\* What is under way stays, unless a record is sent or written.
LEMMA Unmoved ==
  ASSUME StateOK, NEW r \in Recorders,
         Begin(r) \/ Push(r) \/ Recv \/ Timeout \/ Open \/ UNCHANGED vars
  PROVE  UnderWay' = UnderWay /\ UNCHANGED <<log, rows, gone, now>>
<1>1. CASE Begin(r) \/ Push(r) \/ Open \/ UNCHANGED vars
  BY <1>1 DEF Begin, Push, Open, vars, historyVars, UnderWay
<1>2. CASE Recv
  BY <1>2, RecvMoves DEF Recv, historyVars
<1>3. CASE Timeout
  BY <1>3, TimeoutMoves DEF Timeout, historyVars
<1> QED BY <1>1, <1>2, <1>3

LEMMA StepLog == ASSUME IInv, [Next]_vars PROVE LogOK'
<1>1. StateOK /\ LogOK
  BY DEF IInv, LogOK
<1>2. ASSUME NEW r \in Recorders, Begin(r) \/ Push(r) PROVE LogOK'
  BY <1>1, <1>2, Unmoved, LogKept
<1>3. ASSUME NEW r \in Recorders, Send(r) PROVE LogOK'
  BY <1>1, <1>3, LogSend
<1>4. CASE Recv
  BY <1>1, <1>4, RecvMoves, LogKept DEF Recv, historyVars
<1>5. CASE Timeout
  BY <1>1, <1>5, TimeoutMoves, LogKept DEF Timeout, historyVars
<1>6. CASE Open \/ UNCHANGED vars
  BY <1>1, <1>6, LogKept DEF Open, vars, historyVars, UnderWay
<1>7. CASE Flush \/ Cleanup \/ Tick
  BY <1>1, <1>7, LogFlush, LogCleanup, LogTick
<1>8. CASE Stop
  BY <1>1, <1>8, StepState, LogStop
<1> QED BY <1>2, <1>3, <1>4, <1>5, <1>6, <1>7, <1>8 DEF Next

LEMMA StepRing == ASSUME IInv, [Next]_vars PROVE RingOK'
<1>1. StateOK /\ RingOK
  BY DEF IInv
<1>2. ASSUME NEW r \in Recorders, Begin(r) PROVE RingOK'
  <2>1. Sent' = Sent /\ \A q \in Sent : recorder'[q] = recorder[q]
    BY <1>1, <1>2 DEF Begin, Sent, StateOK, TypeOK
  <2> QED BY <2>1, <1>1, <1>2, RingKept DEF Begin, historyVars
<1>3. ASSUME NEW r \in Recorders, Send(r) \/ Push(r) PROVE RingOK'
  BY <1>1, <1>3, RingSend, RingPush
<1>4. CASE Recv \/ Timeout \/ Flush \/ Cleanup \/ Tick \/ UNCHANGED vars
  <2>1. UNCHANGED <<ring, log, base, phase, recorder>>
    BY <1>4 DEF Recv, Timeout, Flush, Cleanup, Tick, vars, historyVars
  <2>2. Sent' = Sent /\ \A q \in Sent : recorder'[q] = recorder[q]
    BY <2>1 DEF Sent
  <2> QED BY <2>1, <2>2, <1>1, RingKept
<1>5. CASE Open \/ Stop
  BY <1>1, <1>5, RingOpen, RingStop
<1> QED BY <1>2, <1>3, <1>4, <1>5 DEF Next

LEMMA StepExpiry == ASSUME IInv, [Next]_vars PROVE ExpiryOK'
<1>1. StateOK /\ ExpiryOK
  BY DEF IInv
<1>2. ASSUME NEW r \in Recorders, Begin(r) \/ Send(r) \/ Push(r) PROVE ExpiryOK'
  BY <1>1, <1>2, ExpiryKept DEF Begin, Send, Push, historyVars
<1>3. CASE Recv \/ Timeout \/ UNCHANGED vars
  BY <1>1, <1>3, ExpiryKept DEF Recv, Timeout, vars, historyVars
<1>4. CASE Flush \/ Cleanup \/ Open \/ Stop \/ Tick
  BY <1>1, <1>4, ExpiryFlush, ExpiryCleanup, ExpiryOpen, ExpiryStop, ExpiryTick
<1> QED BY <1>2, <1>3, <1>4 DEF Next

LEMMA IInvInductive == IInv /\ [Next]_vars => IInv'
BY StepState, StepLog, StepRing, StepExpiry DEF IInv, LogOK

LEMMA IInvHolds == Spec => []IInv
BY InitIInv, IInvInductive, PTL DEF Spec

-----------------------------------------------------------------------------
(* What follows. *)

\* Clock, recorders, ring, channel, writer, table and log keep their types, the
\* batch stays short, and no start finds a schema its migrations fail on or a
\* query misses (db.rs, run_migrations and the writer's loop).
THEOREM TypeCorrect == Spec => []TypeOK
<1>1. IInv => TypeOK
  BY DEF IInv, StateOK
<1> QED BY <1>1, IInvHolds, PTL

\* Every record that was sent is, in order and once, under way or in the table,
\* or is one the full channel, a failed flush, a stop or the retention took
\* (db.rs, the writer's loop and cleanup()).
THEOREM RecordsKept == Spec => []NothingElseLost
<1>1. IInv => NothingElseLost
  BY DEF IInv
<1> QED BY <1>1, IInvHolds, PTL

\* The ring holds the latest records since the start, up to one for each other
\* request that may have been overtaken between the two halves of record()
\* (stats.rs, record()).
THEOREM LatestInRing == Spec => []RingHoldsLatest
<1>1. ASSUME IInv, phase = "up", \A r \in Recorders : recorder[r].at # "sent",
             NEW n \in DOMAIN log, n > base,
             n > Len(log) - (MaxRecords - (Cardinality(Recorders) - 1))
      PROVE  n \in Numbers(ring)
  <2>1. Pending = {}
    BY <1>1 DEF Pending, Sent
  <2>2. StateOK /\ DOMAIN log = 1..Len(log) /\ Len(log) \in Nat /\ base \in 0..Len(log)
    BY <1>1, FieldsTyped DEF IInv
  <2>3. n \in base + 1..Len(log)
    BY <2>2, <1>1
  <2>4. \/ n \in Pending \cup Numbers(ring)
        \/ n <= Len(log) - (MaxRecords - Others)
    BY <2>3, <1>1 DEF IInv, RingOK, OldLeave
  <2>5. MaxRecords \in Nat /\ Others \in Int
    BY StatsAssumption, FS_CardinalityType DEF Others
  <2> QED BY <2>1, <2>2, <2>3, <2>4, <2>5, <1>1 DEF Others
<1>2. IInv => RingHoldsLatest
  BY <1>1 DEF RingHoldsLatest
<1> QED BY <1>2, IInvHolds, PTL

\* Once the writer has caught up, a window the ring covers shows the same
\* requests from the ring and from the table (stats.rs 88-97, 288-305).
THEOREM ViewsMatch == Spec => []ViewsAgree
<1>1. ASSUME IInv, Settled, gone = {}, Len(log) - base <= MaxRecords,
             NEW t \in (now - Retention)..now, \A n \in Since(rows, t) : n > base
      PROVE  Since(ToSet(ring), t) = Since(rows, t)
  <2>1. /\ StateOK /\ DOMAIN log = 1..Len(log) /\ Len(log) \in Nat /\ base \in 0..Len(log)
        /\ now \in Nat /\ Retention \in Nat /\ MaxRecords \in Nat
        /\ \A n \in DOMAIN log : log[n].ts \in Nat
        /\ \A row \in rows : row.no \in Nat
    BY <1>1, FieldsTyped, StatsAssumption DEF IInv
  <2>2. Pending = {} /\ Numbers(UnderWay) = {} /\ phase = "up"
    BY <1>1 DEF Settled, Pending, Sent, Numbers
  <2>3. ASSUME NEW n \in base + 1..Len(log)
        PROVE  \E rec \in ToSet(ring) : rec.no = n /\ rec = log[n]
    <3>1. n \in Numbers(ring)
      <4>1. \/ n \in Pending \cup Numbers(ring)
            \/ Len(log) - base > MaxRecords
        BY <2>2, <1>1 DEF IInv, RingOK, OldLeave
      <4> QED BY <4>1, <2>1, <2>2, <1>1
    <3>2. PICK i \in DOMAIN ring : ring[i].no = n
      BY <3>1 DEF Numbers
    <3>3. ring[i] = log[n] /\ ring[i] \in ToSet(ring)
      BY <3>2, <1>1 DEF IInv, RingOK, PushedOnce, Logged, ToSet
    <3> QED BY <3>2, <3>3
  <2>4. ASSUME NEW n \in Since(rows, t) PROVE n \in Since(ToSet(ring), t)
    <3>1. PICK row \in rows : row.no = n /\ row.ts >= t
      BY DEF Since
    <3>2. n > base /\ n # 0 /\ n \in Nat
      BY <3>1, <2>1, <1>1
    <3>3. n \in DOMAIN log /\ row.ts = log[n].ts
      BY <3>1, <3>2, <1>1 DEF IInv, ContentOK
    <3>4. n \in base + 1..Len(log)
      BY <3>2, <3>3, <2>1
    <3>5. PICK rec \in ToSet(ring) : rec.no = n /\ rec = log[n]
      BY <3>4, <2>3
    <3> QED BY <3>1, <3>3, <3>5 DEF Since
  <2>5. ASSUME NEW n \in Since(ToSet(ring), t) PROVE n \in Since(rows, t)
    <3>1. PICK i \in DOMAIN ring : ring[i].no = n /\ ring[i].ts >= t
      BY DEF Since, ToSet
    <3>2. n \in DOMAIN log /\ ring[i] = log[n] /\ log[n].ts >= t
      BY <3>1, <1>1 DEF IInv, RingOK, PushedOnce, Logged
    <3>3. ~(log[n].ts + Retention < now)
      <4>1. log[n].ts \in Nat /\ t \in Int /\ t >= now - Retention
        BY <3>2, <2>1
      <4> QED BY <4>1, <3>2, <2>1
    <3>4. PICK row \in rows : row.no = n
      BY <3>2, <3>3, <2>2, <1>1 DEF IInv, NothingElseLost
    <3>5. n # 0
      BY <3>2, <2>1
    <3>6. row.ts = log[n].ts
      BY <3>4, <3>5, <1>1 DEF IInv, ContentOK
    <3> QED BY <3>2, <3>4, <3>6 DEF Since
  <2> QED BY <2>4, <2>5
<1>2. IInv => ViewsAgree
  BY <1>1 DEF ViewsAgree
<1> QED BY <1>2, IInvHolds, PTL

\* While the server runs no row outlives its retention by more than a period
\* (db.rs, cleanup()).
THEOREM RowsGo == Spec => []RowsExpire
<1>1. ASSUME IInv, phase = "up", NEW row \in rows, now - row.in > Period, now - since > Period
      PROVE  now - row.ts <= Retention + Period
  <2>1. /\ now \in Nat /\ since \in Nat /\ row.in \in Nat /\ row.ts \in Nat
        /\ Period \in Nat /\ Retention \in Nat /\ now \in Time
    BY <1>1, FieldsTyped, StatsAssumption DEF IInv, StateOK, TypeOK
  <2>2. PICK h \in Nat : CleanupHour(h) /\ now - Period <= h /\ h < now
    <3>1. now >= Period
      BY <2>1, <1>1
    <3> QED BY <3>1, <2>1, HourExists
  <2>3. h \in Time /\ since < h /\ row.in < h
    BY <2>1, <2>2, <1>1, StatsAssumption DEF Time
  <2>4. row.ts >= h - Retention
    BY <2>2, <2>3, <1>1 DEF IInv, ExpiryOK
  <2> QED BY <2>1, <2>2, <2>4
<1>2. IInv => RowsExpire
  BY <1>1 DEF RowsExpire
<1> QED BY <1>2, IInvHolds, PTL
=============================================================================
