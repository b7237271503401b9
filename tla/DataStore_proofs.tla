-------------------------- MODULE DataStore_proofs --------------------------
(***************************************************************************)
(* Proofs about DataStore: samples are in the database of their month,     *)
(* what statistics say is final, and the last two months stay.             *)
(***************************************************************************)
EXTENDS DataStore, SequenceTheorems, TLAPS

USE DataStoreAssumption DEF Days, Months

LEMMA IdleType == Idle \in JobType /\ NewDb \in Db /\ NoTx \in [by : Threads \cup {"none"}, db : Db]
  <1>1. 1 \in Days /\ Month[1] \in Months
    OBVIOUS
  <1>2. <<>> \in Seq(Sample)
    OBVIOUS
  <1>. QED
    BY <1>1, <1>2 DEF Idle, JobType, NewDb, Db, NoTx

LEMMA MonthType ==
    ASSUME NEW db \in Db
    PROVE  /\ [db EXCEPT !.month = TRUE] \in Db
           /\ [db EXCEPT !.month = TRUE].rows = db.rows
           /\ [db EXCEPT !.month = TRUE].days = db.days
           /\ [db EXCEPT !.month = TRUE].stats = db.stats
  BY DEF Db

(* The end of the process leaves a state of the right type.                *)
LEMMA EndsType ==
    ASSUME TypeOK, Ends
    PROVE  TypeOK'
  <1>1. job' \in [Threads -> JobType] /\ tx' \in [Months -> [by : Threads \cup {"none"}, db : Db]]
    BY IdleType DEF Ends
  <1>2. /\ \A t \in Threads : job'[t].pc = "idle"
        /\ \A m \in Months : tx'[m].by = "none"
    BY DEF Ends, Idle, NoTx
  <1>3. buffer' \in Seq(Sample) /\ Len(buffer') <= BufferMax
    BY DEF Ends
  <1>4. /\ job'["report"].pc \notin {"save", "insert"}
        /\ \A m \in Months, t \in Threads :
             tx'[m].by = t <=> job'[t].pc \in {"insert", "days"} /\ job'[t].month = m
    BY <1>2 DEF Threads
  <1>5. /\ heard' \in [Objects -> SUBSET Time] /\ lastSave' \in [Objects -> SUBSET Time]
        /\ hand' \in [Objects -> SUBSET Sample]
    BY DEF Ends
  <1>6. now' \in Time /\ files' \subseteq Months /\ disk' \in [Months -> Db]
    <2>1. now' = now /\ files' = files /\ disk' = disk
      BY DEF Ends
    <2>. QED
      BY <2>1, Zenon DEF TypeOK
  <1>7. up' \in BOOLEAN
    BY Zenon DEF Ends
  <1>8. taken' \in Nat /\ stops' \in Nat
    BY DEF Ends, TypeOK
  <1>. QED
    BY <1>1, <1>2, <1>3, <1>4, <1>5, <1>6, <1>7, <1>8 DEF TypeOK

LEMMA BeginType ==
    ASSUME TypeOK, NEW t \in Threads, NEW m \in Months, NEW then \in JobType,
           job[t].pc \in {"idle", "save"}, Begin(t, m, then),
           then.pc \in {"insert", "days"}, then.month = m,
           t = "report" => then.pc = "days"
    PROVE  TypeOK'
  <1>1. CASE ~Free(m)
    BY <1>1, EndsType DEF Begin
  <1>2. CASE Free(m)
    <2>. HIDE DEF Months, Days
    <2>1. /\ tx' = [tx EXCEPT ![m] = [by |-> t, db |-> disk[m]]]
          /\ job' = [job EXCEPT ![t] = then]
          /\ files' = files \cup {m}
          /\ UNCHANGED <<now, up, memory, disk, taken, stops>>
      BY <1>2 DEF Begin
    <2>2. tx' \in [Months -> [by : Threads \cup {"none"}, db : Db]]
      BY <2>1 DEF TypeOK
    <2>3. job' \in [Threads -> JobType]
      BY <2>1 DEF TypeOK
    <2>4. ASSUME NEW k \in Months, NEW u \in Threads
          PROVE  tx'[k].by = u <=> job'[u].pc \in {"insert", "days"} /\ job'[u].month = k
      <3>1. CASE u = t
        <4>1. tx[k].by # t
          BY DEF TypeOK
        <4>. QED
          BY <2>1, <3>1, <4>1 DEF TypeOK
      <3>2. CASE u # t
        <4>1. tx'[k].by = u <=> tx[k].by = u
          BY <1>2, <2>1, <3>2 DEF TypeOK, Free, Threads
        <4>. QED
          BY <2>1, <3>2, <4>1 DEF TypeOK
      <3>. QED
        BY <3>1, <3>2
    <2>5. job'["report"].pc \notin {"save", "insert"}
      BY <2>1 DEF TypeOK, Threads
    <2>. QED
      BY <2>1, <2>2, <2>3, <2>4, <2>5 DEF TypeOK, memory
  <1>. QED
    BY <1>1, <1>2

(* A change of the files that keeps what TypeOK says of transactions. *)
LEMMA CommitType ==
    ASSUME TypeOK, NEW t \in Threads, NEW m \in Months, NEW then \in JobType,
           job[t].pc \in {"insert", "days"}, job[t].month = m,
           Commit(t, m, then), then.pc \in {"idle", "month"}
    PROVE  TypeOK'
  <1>. HIDE DEF Months, Days
  <1>1. disk' \in [Months -> Db]
    BY DEF TypeOK, Commit
  <1>2. tx' \in [Months -> [by : Threads \cup {"none"}, db : Db]]
    BY IdleType DEF TypeOK, Commit
  <1>3. job' \in [Threads -> JobType] /\ job'["report"].pc \notin {"save", "insert"}
    BY DEF TypeOK, Commit, Threads
  <1>4. ASSUME NEW k \in Months, NEW u \in Threads
        PROVE  tx'[k].by = u <=> job'[u].pc \in {"insert", "days"} /\ job'[u].month = k
    <2>1. tx[m].by = t
      BY DEF TypeOK
    <2>2. CASE u = t
      <3>1. tx'[k].by # t
        BY DEF TypeOK, Commit, NoTx, Threads
      <3>. QED
        BY <2>2, <3>1 DEF TypeOK, Commit
    <2>3. CASE u # t
      <3>1. tx'[k].by = u <=> tx[k].by = u
        BY <2>1, <2>3 DEF TypeOK, Commit, NoTx, Threads
      <3>. QED
        BY <2>3, <3>1 DEF TypeOK, Commit
    <2>. QED
      BY <2>2, <2>3
  <1>. QED
    BY <1>1, <1>2, <1>3, <1>4 DEF TypeOK, Commit, memory

LEMMA WriteType ==
    ASSUME TypeOK, NEW m \in Months, NEW db \in Db, Write(m, db),
           NEW t \in Threads, job[t].month = m,
           NEW j \in JobType, j.pc = job[t].pc, j.month = m,
           job' = [job EXCEPT ![t] = j],
           UNCHANGED <<now, up, memory, files, disk, taken, stops>>
    PROVE  TypeOK'
  <1>. HIDE DEF Months, Days
  <1>1. tx' \in [Months -> [by : Threads \cup {"none"}, db : Db]]
    <2>1. tx \in [Months -> [by : Threads \cup {"none"}, db : Db]]
      BY DEF TypeOK
    <2>2. [tx[m] EXCEPT !.db = db] \in [by : Threads \cup {"none"}, db : Db]
      BY <2>1
    <2>3. tx' = [tx EXCEPT ![m] = [tx[m] EXCEPT !.db = db]]
      BY <2>1 DEF Write
    <2>. QED
      BY <2>1, <2>2, <2>3
  <1>2. \A k \in Months : tx'[k].by = tx[k].by
    <2>1. tx \in [Months -> [by : Threads \cup {"none"}, db : Db]]
      BY DEF TypeOK
    <2>2. \A k \in Months : k # m => tx'[k] = tx[k]
      BY <2>1 DEF Write
    <2>3. tx'[m] = [tx[m] EXCEPT !.db = db]
      BY <2>1 DEF Write
    <2>4. tx'[m].by = tx[m].by
      BY <2>1, <2>3
    <2>. QED
      BY <2>2, <2>4
  <1>3. job' \in [Threads -> JobType] /\ job'["report"].pc \notin {"save", "insert"}
    BY DEF TypeOK, Threads
  <1>4. \A u \in Threads : job'[u].pc = job[u].pc /\ job'[u].month = job[u].month
    BY DEF TypeOK
  <1>. QED
    BY <1>1, <1>2, <1>3, <1>4 DEF TypeOK, memory

LEMMA WithDayType ==
    ASSUME NEW db \in Db, NEW d \in Days
    PROVE  WithDay(db, d) \in Db
  <1>. HIDE DEF Months, Days
  <1>. DEFINE new == {o \in Objects : /\ SamplesOf(db, o, d) # {}
                                     /\ \A r \in db.stats : r.obj # o \/ r.day # d}
              S == {[obj |-> o, day |-> d, of |-> SamplesOf(db, o, d)] : o \in new}
  <1>1. \A o \in new : SamplesOf(db, o, d) \in SUBSET Sample
    BY DEF SamplesOf, Db
  <1>2. S \subseteq Stat
    BY <1>1 DEF Stat
  <1>3. WithDay(db, d) = [db EXCEPT !.stats = @ \cup S, !.days = @ \cup {d}]
    BY DEF WithDay
  <1>. HIDE DEF S, new
  <1>4. db.stats \cup S \in SUBSET Stat /\ db.days \cup {d} \in SUBSET Days
    BY <1>2 DEF Db
  <1>. QED
    BY <1>3, <1>4 DEF Db

LEMMA DoStatType ==
    ASSUME TypeOK, NEW t \in Threads, NEW m \in Months, NEW days \in SUBSET Days,
           NEW monthly \in BOOLEAN, job[t].pc = "idle", DoStat(t, m, days, monthly)
    PROVE  TypeOK'
  <1>. HIDE DEF Months, Days
  <1>. DEFINE todo == days \ View(m).days
              then == [pc |-> IF todo = {} THEN "month" ELSE "days", month |-> m,
                       todo |-> todo, batch |-> <<>>, monthly |-> monthly]
  <1>1. todo \subseteq Days /\ <<>> \in Seq(Sample)
    OBVIOUS
  <1>2. then \in JobType /\ then.month = m
        /\ then.pc = IF todo = {} THEN "month" ELSE "days"
    BY <1>1 DEF JobType
  <1>3. \/ todo # {} /\ Begin(t, m, then)
        \/ todo = {} /\ job' = [job EXCEPT ![t] = then]
           /\ UNCHANGED <<now, up, memory, data, taken, stops>>
    BY DEF DoStat
  <1>. HIDE DEF then, todo
  <1>4. CASE todo # {} /\ Begin(t, m, then)
    BY <1>4, <1>2, BeginType
  <1>5. CASE todo = {} /\ job' = [job EXCEPT ![t] = then]
             /\ UNCHANGED <<now, up, memory, data, taken, stops>>
    <2>1. job' \in [Threads -> JobType] /\ job'["report"].pc \notin {"save", "insert"}
      BY <1>2, <1>5 DEF TypeOK, Threads
    <2>2. \A k \in Months, u \in Threads : tx[k].by = u <=>
              job'[u].pc \in {"insert", "days"} /\ job'[u].month = k
      BY <1>2, <1>5 DEF TypeOK
    <2>. QED
      BY <1>5, <2>1, <2>2 DEF TypeOK, memory, data
  <1>. QED
    BY <1>3, <1>4, <1>5

LEMMA QueuedType ==
    ASSUME TypeOK, NEW s \in Sample, Queued(s)
    PROVE  buffer' \in Seq(Sample) /\ Len(buffer') <= BufferMax
  BY DEF TypeOK, Queued

LEMMA TypeStep ==
    ASSUME TypeOK, [Next]_vars
    PROVE  TypeOK'
  <1>. HIDE DEF Months, Days
  <1>1. CASE UNCHANGED vars
    BY <1>1 DEF TypeOK, vars, memory, data
  <1>2. CASE Start
    <2>1. Month[now.day] \in Months
      BY DEF TypeOK, Time, Months
    <2>2. files' \subseteq Months
      BY <1>2, <2>1 DEF Start, TypeOK
    <2>3. disk' \in [Months -> Db]
      BY <1>2, IdleType DEF Start, TypeOK
    <2>4. up' \in BOOLEAN
      BY <1>2, Zenon DEF Start
    <2>5. UNCHANGED <<now, memory, job, tx, taken, stops>>
      BY <1>2 DEF Start
    <2>. QED
      BY <2>2, <2>3, <2>4, <2>5 DEF TypeOK, memory
  <1>3. CASE Stop
    BY <1>3, EndsType DEF Stop
  <1>4. CASE Tick
    <2>1. now' \in Time
      <3>1. now \in Time
        BY DEF TypeOK
      <3>2. CASE now.tick + 1 \in Ticks /\ now' = [now EXCEPT !.tick = @ + 1]
        BY <3>1, <3>2 DEF Time
      <3>3. CASE now.day + 1 \in Days /\ now' = [day |-> now.day + 1, tick |-> 0]
        <4>1. 0 \in Ticks
          BY DEF Ticks
        <4>. QED
          BY <3>3, <4>1 DEF Time
      <3>. QED
        BY <1>4, <3>2, <3>3 DEF Tick
    <2>. QED
      BY <1>4, <2>1 DEF Tick, TypeOK, memory, data
  <1>5. ASSUME NEW o \in Objects, DataAnalyse(o)
        PROVE  TypeOK'
    <2>1. SampleNow(o) \in Sample /\ now \in Time
      BY DEF TypeOK, SampleNow, Time, Sample
    <2>2. heard' \in [Objects -> SUBSET Time] /\ lastSave' \in [Objects -> SUBSET Time]
      BY <1>5, <2>1 DEF DataAnalyse, TypeOK
    <2>3. hand' \in [Objects -> SUBSET Sample] /\ taken' \in Nat
      BY <1>5, <2>1 DEF DataAnalyse, TypeOK
    <2>4. UNCHANGED <<now, up, buffer, job, data, stops>>
      BY <1>5 DEF DataAnalyse
    <2>. QED
      BY <2>2, <2>3, <2>4 DEF TypeOK, data
  <1>6. ASSUME NEW o \in Objects, Push(o)
        PROVE  TypeOK'
    <2>1. PICK s \in Sample : Queued(s)
      BY <1>6 DEF Push, TypeOK
    <2>2. buffer' \in Seq(Sample) /\ Len(buffer') <= BufferMax
      BY <2>1, QueuedType
    <2>3. hand' \in [Objects -> SUBSET Sample]
      BY <1>6 DEF Push, TypeOK
    <2>4. UNCHANGED <<now, up, heard, lastSave, job, data, taken, stops>>
      BY <1>6 DEF Push
    <2>. QED
      BY <2>2, <2>3, <2>4 DEF TypeOK, data
  <1>7. ASSUME NEW o \in Objects, DataProc(o)
        PROVE  TypeOK'
    <2>1. SampleNow(o) \in Sample
      BY DEF TypeOK, SampleNow, Time, Sample
    <2>2. buffer' \in Seq(Sample) /\ Len(buffer') <= BufferMax
      BY <1>7, <2>1, QueuedType DEF DataProc
    <2>3. taken' \in Nat /\ UNCHANGED <<now, up, heard, lastSave, hand, job, data, stops>>
      BY <1>7 DEF DataProc, TypeOK
    <2>. QED
      BY <2>2, <2>3 DEF TypeOK, data
  <1>8. CASE DataSave
    <2>1. PICK n \in 1 .. Len(buffer) :
            /\ buffer' = SubSeq(buffer, n + 1, Len(buffer))
            /\ job' = [job EXCEPT !["saver"] =
                   [pc |-> "save", month |-> Month[buffer[1].day], todo |-> {},
                    batch |-> SubSeq(buffer, 1, n), monthly |-> FALSE]]
      BY <1>8 DEF DataSave
    <2>2. buffer \in Seq(Sample) /\ Len(buffer) <= BufferMax /\ Len(buffer) \in Nat
      BY DEF TypeOK
    <2>3. Month[buffer[1].day] \in Months
      <3>1. buffer[1] \in Sample
        BY <2>2
      <3>. QED
        BY <3>1 DEF Sample, Months
    <2>4. SubSeq(buffer, 1, n) \in Seq(Sample)
      BY <2>2, SubSeqProperties
    <2>5. buffer' \in Seq(Sample) /\ Len(buffer') <= BufferMax
      BY <2>1, <2>2, SubSeqProperties
    <2>6. job' \in [Threads -> JobType]
      BY <2>1, <2>3, <2>4 DEF TypeOK, JobType, Threads
    <2>7. job'["report"] = job["report"]
      BY <2>1 DEF TypeOK, Threads
    <2>8. \A k \in Months : tx[k].by # "saver"
      BY <1>8 DEF DataSave, TypeOK, Threads
    <2>11. job'["saver"].pc = "save"
      BY <2>1 DEF TypeOK, Threads
    <2>9. UNCHANGED <<now, up, heard, lastSave, hand, data, taken, stops>>
      BY <1>8 DEF DataSave
    <2>10. \A k \in Months, u \in Threads : tx'[k].by = u <=>
              job'[u].pc \in {"insert", "days"} /\ job'[u].month = k
      BY <2>7, <2>8, <2>9, <2>11 DEF TypeOK, data, Threads
    <2>. QED
      BY <2>5, <2>6, <2>7, <2>9, <2>10 DEF TypeOK, data
  <1>9. CASE InsertBegin
    <2>. DEFINE then == [job["saver"] EXCEPT !.pc = "insert"]
    <2>1. "saver" \in Threads /\ job["saver"] \in JobType
      BY DEF TypeOK, Threads
    <2>2. then \in JobType /\ then.month = job["saver"].month /\ then.pc = "insert"
          /\ job["saver"].month \in Months /\ job["saver"].pc = "save"
      BY <1>9, <2>1 DEF InsertBegin, JobType
    <2>3. CASE Begin("saver", job["saver"].month, then)
      <3>. HIDE DEF then
      <3>. QED
        BY <2>1, <2>2, <2>3, BeginType
    <2>4. CASE /\ job' = [job EXCEPT !["saver"] = Idle]
               /\ UNCHANGED <<now, up, memory, data, taken, stops>>
      <3>1. job' \in [Threads -> JobType] /\ job'["report"] = job["report"]
            /\ job'["saver"].pc = "idle"
        BY <2>4, IdleType DEF TypeOK, Threads, Idle
      <3>2. \A k \in Months : tx[k].by # "saver"
        BY <2>1, <2>2 DEF TypeOK
      <3>3. \A k \in Months, u \in Threads : tx[k].by = u <=>
                job'[u].pc \in {"insert", "days"} /\ job'[u].month = k
        BY <3>1, <3>2 DEF TypeOK, Threads
      <3>. QED
        BY <2>4, <3>1, <3>3 DEF TypeOK, memory, data
    <2>. QED
      BY <1>9, <2>3, <2>4 DEF InsertBegin
  <1>10. CASE InsertOne
    <2>. DEFINE j == job["saver"]
    <2>1. "saver" \in Threads /\ j \in JobType /\ j.month \in Months /\ j.batch \in Seq(Sample)
      BY DEF TypeOK, Threads, JobType
    <2>2. Head(j.batch) \in Sample /\ Tail(j.batch) \in Seq(Sample)
      BY <1>10, <2>1 DEF InsertOne
    <2>3. tx[j.month].db \in Db
      BY <2>1 DEF TypeOK
    <2>. DEFINE db == [tx[j.month].db EXCEPT !.rows = @ \cup {Head(j.batch)}]
                next == [j EXCEPT !.batch = Tail(j.batch)]
    <2>4. db \in Db
      BY <2>2, <2>3 DEF Db
    <2>5. next \in JobType /\ next.pc = j.pc /\ next.month = j.month
      BY <2>1, <2>2 DEF JobType
    <2>6. job' = [job EXCEPT !["saver"] = next]
      BY <1>10, <2>1 DEF InsertOne, TypeOK
    <2>7. Write(j.month, db) /\ UNCHANGED <<now, up, memory, files, disk, taken, stops>>
      BY <1>10 DEF InsertOne
    <2>. HIDE DEF j, db, next
    <2>8. job["saver"].month = j.month /\ next.pc = job["saver"].pc
      BY <2>5 DEF j
    <2>. QED
      BY <2>1, <2>4, <2>5, <2>6, <2>7, <2>8, WriteType
  <1>11. CASE InsertEnd
    <2>1. "saver" \in Threads /\ job["saver"].month \in Months
      BY DEF TypeOK, Threads, JobType
    <2>2. Idle \in JobType /\ Idle.pc = "idle"
      BY IdleType DEF Idle
    <2>. QED
      BY <1>11, <2>1, <2>2, CommitType DEF InsertEnd
  <1>12. CASE CheckStat
    <2>. DEFINE m == Month[now.day - 1]
    <2>1. "saver" \in Threads /\ job["saver"].pc = "idle" /\ m \in Months
      BY <1>12 DEF CheckStat, Threads, TypeOK
    <2>2. MonthDays(m) \in SUBSET Days
      BY DEF MonthDays
    <2>3. CASE DoStat("saver", m, MonthDays(m), TRUE)
      BY <2>1, <2>2, <2>3, DoStatType
    <2>4. CASE DoStat("saver", m, {d \in MonthDays(m) : d <= now.day - 1}, FALSE)
      <3>1. {d \in MonthDays(m) : d <= now.day - 1} \in SUBSET Days
        BY <2>2
      <3>. QED
        BY <2>1, <2>4, <3>1, DoStatType
    <2>. QED
      BY <1>12, <2>3, <2>4 DEF CheckStat
  <1>13. ASSUME NEW m \in Months, CheckAndDoStat_day(m)
         PROVE  TypeOK'
    <2>. DEFINE days == {d \in MonthDays(m) : m = Month[now.day] => DayNo(d) <= DayNo(now.day - 1)}
    <2>1. days \in SUBSET Days
      BY DEF MonthDays
    <2>2. "report" \in Threads /\ job["report"].pc = "idle"
      BY <1>13 DEF CheckAndDoStat_day, Threads
    <2>3. DoStat("report", m, days, TRUE)
      BY <1>13 DEF CheckAndDoStat_day
    <2>. HIDE DEF days
    <2>. QED
      BY <2>1, <2>2, <2>3, DoStatType
  <1>14. ASSUME NEW t \in Threads, DoStat_day_specday(t)
         PROVE  TypeOK'
    <2>. DEFINE m == job[t].month  old == tx[m].db
    <2>1. m \in Months /\ old \in Db /\ job[t] \in JobType
      BY DEF TypeOK, JobType
    <2>2. PICK d \in job[t].todo :
            /\ (isCan_DoStat_day(m, d) /\ Write(m, WithDay(old, d))) \/ UNCHANGED tx
            /\ job' = [job EXCEPT ![t].todo = @ \ {d}]
      BY <1>14 DEF DoStat_day_specday
    <2>3. d \in Days
      BY <2>1 DEF JobType
    <2>. DEFINE next == [job[t] EXCEPT !.todo = job[t].todo \ {d}]
    <2>4. next \in JobType /\ next.pc = job[t].pc /\ next.month = m
      BY <2>1 DEF JobType
    <2>5. job' = [job EXCEPT ![t] = next]
      BY <2>2 DEF TypeOK
    <2>6. UNCHANGED <<now, up, memory, files, disk, taken, stops>>
      BY <1>14 DEF DoStat_day_specday
    <2>7. WithDay(old, d) \in Db
      BY <2>1, <2>3, WithDayType
    <2>8. Write(m, old) \/ Write(m, WithDay(old, d))
      <3>1. tx \in [Months -> [by : Threads \cup {"none"}, db : Db]]
        BY DEF TypeOK
      <3>2. [tx[m] EXCEPT !.db = old] = tx[m]
        BY <2>1, <3>1
      <3>3. tx = [tx EXCEPT ![m] = [tx[m] EXCEPT !.db = old]]
        BY <2>1, <3>1, <3>2
      <3>4. UNCHANGED tx => Write(m, old)
        BY <3>3 DEF Write
      <3>. QED
        BY <2>2, <3>4
    <2>9. job[t].month = m
      OBVIOUS
    <2>. HIDE DEF next, m, old
    <2>. QED
      BY <2>1, <2>4, <2>5, <2>6, <2>7, <2>8, <2>9, WriteType
  <1>15. ASSUME NEW t \in Threads, DoStat_day_all(t)
         PROVE  TypeOK'
    <2>. DEFINE then == IF job[t].monthly THEN [job[t] EXCEPT !.pc = "month"] ELSE Idle
    <2>1. job[t] \in JobType /\ job[t].month \in Months
      BY DEF TypeOK, JobType
    <2>2. then \in JobType /\ then.pc \in {"idle", "month"}
      <3>1. [job[t] EXCEPT !.pc = "month"] \in JobType /\ [job[t] EXCEPT !.pc = "month"].pc = "month"
        BY <2>1 DEF JobType
      <3>2. Idle \in JobType /\ Idle.pc = "idle"
        BY IdleType DEF Idle
      <3>. QED
        BY <3>1, <3>2
    <2>3. Commit(t, job[t].month, then) /\ job[t].pc = "days"
      BY <1>15 DEF DoStat_day_all
    <2>. HIDE DEF then
    <2>. QED
      BY <2>1, <2>2, <2>3, CommitType
  <1>16. ASSUME NEW t \in Threads, DoStat_month_all(t)
         PROVE  TypeOK'
    <2>1. CASE Ends
      BY <2>1, EndsType
    <2>2. CASE /\ job' = [job EXCEPT ![t] = Idle]
               /\ UNCHANGED <<now, up, memory, files, tx, taken, stops>>
               /\ disk' = [disk EXCEPT ![job[t].month].month = TRUE] \/ disk' = disk
      <3>1. disk' \in [Months -> Db]
        <4>1. job[t].month \in Months
          BY DEF TypeOK, JobType
        <4>2. [disk[job[t].month] EXCEPT !.month = TRUE] \in Db
          <5>1. disk[job[t].month] \in Db
            BY <4>1 DEF TypeOK
          <5>. QED
            BY <5>1, MonthType
        <4>3. disk' = [disk EXCEPT ![job[t].month] = [disk[job[t].month] EXCEPT !.month = TRUE]]
              \/ disk' = disk
          BY <2>2, <4>1 DEF TypeOK
        <4>. QED
          BY <4>1, <4>2, <4>3 DEF TypeOK
      <3>2. job' \in [Threads -> JobType] /\ job'["report"].pc \notin {"save", "insert"}
            /\ job'[t].pc = "idle"
        BY <2>2, IdleType DEF TypeOK, Threads, Idle
      <3>3. \A k \in Months : tx[k].by # t
        BY <1>16 DEF TypeOK, DoStat_month_all
      <3>4. \A k \in Months, u \in Threads : tx'[k].by = u <=>
                job'[u].pc \in {"insert", "days"} /\ job'[u].month = k
        BY <2>2, <3>2, <3>3 DEF TypeOK
      <3>. QED
        BY <2>2, <3>1, <3>2, <3>4 DEF TypeOK, memory
    <2>. QED
      BY <1>16, <2>1, <2>2 DEF DoStat_month_all, data
  <1>. QED
    BY <1>1, <1>2, <1>3, <1>4, <1>5, <1>6, <1>7, <1>8, <1>9, <1>10, <1>11, <1>12,
       <1>13, <1>14, <1>15, <1>16 DEF Next

LEMMA InitType == Init => TypeOK
  <1>. HIDE DEF Months
  <1>1. SUFFICES ASSUME Init PROVE TypeOK
    OBVIOUS
  <1>2. job \in [Threads -> JobType] /\ disk \in [Months -> Db]
        /\ tx \in [Months -> [by : Threads \cup {"none"}, db : Db]]
    BY <1>1, IdleType DEF Init
  <1>3. now \in Time
    BY <1>1 DEF Init, Time, DataStoreAssumption
  <1>4. up \in BOOLEAN
    BY <1>1, Zenon DEF Init
  <1>5. buffer \in Seq(Sample) /\ Len(buffer) <= BufferMax
    BY <1>1 DEF Init
  <1>6. /\ \A t \in Threads : job[t].pc = "idle"
        /\ \A m \in Months : tx[m].by = "none"
    BY <1>1 DEF Init, Idle, NoTx
  <1>7. /\ job["report"].pc \notin {"save", "insert"}
        /\ \A m \in Months, t \in Threads :
             tx[m].by = t <=> job[t].pc \in {"insert", "days"} /\ job[t].month = m
    BY <1>6 DEF Threads
  <1>8. /\ heard \in [Objects -> SUBSET Time] /\ lastSave \in [Objects -> SUBSET Time]
        /\ hand \in [Objects -> SUBSET Sample]
        /\ files \subseteq Months /\ taken \in Nat /\ stops \in Nat
    BY <1>1 DEF Init
  <1>. QED
    BY <1>2, <1>3, <1>4, <1>5, <1>7, <1>8 DEF TypeOK

(* Every step keeps the type invariant, for any calendar and any limits.   *)
THEOREM TypeCorrect == Spec => []TypeOK
  BY InitType, TypeStep, PTL DEF Spec

-----------------------------------------------------------------------------
(* RightMonth: the rows of a database and of its open transaction, and the *)
(* batch on its way to it, are of its month.                               *)

RowsIn(m, db) == \A s \in db.rows : Month[s.day] = m

Placed ==
    /\ \A m \in Months : RowsIn(m, disk[m]) /\ RowsIn(m, tx[m].db)
    /\ \A i \in DOMAIN job["saver"].batch :
         Month[job["saver"].batch[i].day] = job["saver"].month

LEMMA NewRows == \A m \in Months : RowsIn(m, NewDb) /\ RowsIn(m, NoTx.db)
  BY DEF RowsIn, NewDb, NoTx

(* What a step does to the rows: of the databases it leaves alone, begins, *)
(* commits or rolls back a transaction of, nothing new.                    *)
OldRows ==
    \A m \in Months :
        /\ disk'[m].rows \in {disk[m].rows, tx[m].db.rows, {}}
        /\ tx'[m].db.rows \in {disk[m].rows, tx[m].db.rows, {}}

LEMMA OldRowsPlaced ==
    ASSUME Placed, OldRows,
           \/ job'["saver"].batch = <<>>
           \/ job'["saver"].batch = job["saver"].batch /\ job'["saver"].month = job["saver"].month
    PROVE  Placed'
  <1>. HIDE DEF Months, Days
  <1>1. ASSUME NEW m \in Months
        PROVE  RowsIn(m, disk'[m]) /\ RowsIn(m, tx'[m].db)
    BY <1>1 DEF Placed, OldRows, RowsIn
  <1>2. \A i \in DOMAIN job'["saver"].batch :
           Month[job'["saver"].batch[i].day] = job'["saver"].month
    BY DEF Placed
  <1>. QED
    BY <1>1, <1>2 DEF Placed, RowsIn

LEMMA EndsRows == ASSUME TypeOK, Ends PROVE OldRows /\ job'["saver"].batch = <<>>
  <1>. HIDE DEF Months, Days
  <1>1. \A m \in Months : tx'[m].db.rows = {} /\ disk'[m] = disk[m]
    BY DEF Ends, NoTx, NewDb
  <1>2. job'["saver"].batch = <<>>
    BY DEF Ends, Idle, Threads
  <1>. QED
    BY <1>1, <1>2 DEF OldRows

LEMMA BeginRows ==
    ASSUME TypeOK, NEW t \in Threads, NEW m \in Months, NEW then, Begin(t, m, then)
    PROVE  /\ OldRows
           /\ job'["saver"].batch = <<>> \/ job' = [job EXCEPT ![t] = then]
  <1>. HIDE DEF Months, Days
  <1>1. CASE Ends
    BY <1>1, EndsRows
  <1>2. CASE /\ tx' = [tx EXCEPT ![m] = [by |-> t, db |-> disk[m]]]
             /\ job' = [job EXCEPT ![t] = then] /\ disk' = disk
    <2>1. \A k \in Months : tx'[k] = IF k = m THEN [by |-> t, db |-> disk[m]] ELSE tx[k]
      BY <1>2 DEF TypeOK
    <2>. QED
      BY <1>2, <2>1 DEF OldRows
  <1>. QED
    BY <1>1, <1>2 DEF Begin

LEMMA CommitRows ==
    ASSUME TypeOK, NEW t \in Threads, NEW m \in Months, NEW then, Commit(t, m, then)
    PROVE  OldRows /\ job' = [job EXCEPT ![t] = then]
  <1>. HIDE DEF Months, Days
  <1>1. \A k \in Months : disk'[k] = IF k = m THEN tx[m].db ELSE disk[k]
    BY DEF Commit, TypeOK
  <1>2. \A k \in Months : tx'[k] = IF k = m THEN NoTx ELSE tx[k]
    BY DEF Commit, TypeOK
  <1>3. NoTx.db.rows = {}
    BY DEF NoTx, NewDb
  <1>. QED
    BY <1>1, <1>2, <1>3 DEF OldRows, Commit

LEMMA DoStatRows ==
    ASSUME TypeOK, NEW t \in Threads, NEW m \in Months, NEW days, NEW monthly,
           DoStat(t, m, days, monthly)
    PROVE  /\ OldRows
           /\ job'["saver"].batch \in {<<>>, job["saver"].batch}
           /\ job'["saver"].batch # <<>> => job'["saver"] = job["saver"]
  <1>. HIDE DEF Months, Days
  <1>. DEFINE todo == days \ View(m).days
              then == [pc |-> IF todo = {} THEN "month" ELSE "days", month |-> m,
                       todo |-> todo, batch |-> <<>>, monthly |-> monthly]
  <1>1. then.batch = <<>>
    OBVIOUS
  <1>2. \/ Begin(t, m, then)
        \/ job' = [job EXCEPT ![t] = then] /\ UNCHANGED <<disk, tx>>
    BY DEF DoStat, data
  <1>. HIDE DEF then
  <1>3. OldRows /\ (job'["saver"].batch = <<>> \/ job' = [job EXCEPT ![t] = then])
    BY <1>2, BeginRows DEF OldRows
  <1>. QED
    BY <1>1, <1>3 DEF TypeOK, Threads

LEMMA PlacedStep ==
    ASSUME TypeOK, Placed, [Next]_vars
    PROVE  Placed'
  <1>. HIDE DEF Months, Days
  <1>1. CASE UNCHANGED <<disk, tx, job>>
    BY <1>1, OldRowsPlaced DEF OldRows
  <1>2. CASE Start
    <2>1. \A m \in Months : disk'[m] \in {disk[m], NewDb}
      BY <1>2 DEF Start
    <2>2. OldRows
      BY <1>2, <2>1 DEF Start, OldRows, NewDb
    <2>. QED
      BY <1>2, <2>2, OldRowsPlaced DEF Start
  <1>3. CASE Stop
    BY <1>3, EndsRows, OldRowsPlaced DEF Stop
  <1>4. CASE DataSave
    <2>1. PICK n \in 1 .. Len(buffer) :
            /\ DataSaveBuf_Pop(n)
            /\ job' = [job EXCEPT !["saver"] =
                   [pc |-> "save", month |-> Month[buffer[1].day], todo |-> {},
                    batch |-> SubSeq(buffer, 1, n), monthly |-> FALSE]]
      BY <1>4 DEF DataSave
    <2>2. buffer \in Seq(Sample) /\ Len(buffer) \in Nat
      BY DEF TypeOK
    <2>3. /\ Len(SubSeq(buffer, 1, n)) = n
          /\ \A i \in 1 .. n : SubSeq(buffer, 1, n)[i] = buffer[i]
      BY <2>2, SubSeqProperties
    <2>4. DOMAIN SubSeq(buffer, 1, n) = 1 .. n
      BY <2>2, <2>3, SubSeqProperties
    <2>5. job'["saver"].batch = SubSeq(buffer, 1, n) /\ job'["saver"].month = Month[buffer[1].day]
      BY <2>1 DEF TypeOK, Threads
    <2>6. \A i \in DOMAIN job'["saver"].batch :
             Month[job'["saver"].batch[i].day] = job'["saver"].month
      BY <2>1, <2>3, <2>4, <2>5 DEF DataSaveBuf_Pop
    <2>. QED
      BY <1>4, <2>6 DEF DataSave, data, Placed
  <1>5. CASE InsertBegin
    <2>. DEFINE then == [job["saver"] EXCEPT !.pc = "insert"]
    <2>1. "saver" \in Threads /\ job["saver"] \in JobType /\ job["saver"].month \in Months
      BY DEF TypeOK, Threads, JobType
    <2>2. then.batch = job["saver"].batch /\ then.month = job["saver"].month
      BY <2>1 DEF JobType
    <2>3. CASE Begin("saver", job["saver"].month, then)
      <3>. HIDE DEF then
      <3>1. OldRows /\ (job'["saver"].batch = <<>> \/ job'["saver"] = then)
        BY <2>1, <2>3, BeginRows DEF TypeOK
      <3>. QED
        BY <2>2, <3>1, OldRowsPlaced
    <2>4. CASE job' = [job EXCEPT !["saver"] = Idle] /\ UNCHANGED data
      <3>1. job'["saver"].batch = <<>>
        BY <2>1, <2>4 DEF TypeOK, Idle
      <3>. QED
        BY <2>4, <3>1, OldRowsPlaced DEF OldRows, data
    <2>. QED
      BY <1>5, <2>3, <2>4 DEF InsertBegin
  <1>6. CASE InsertOne
    <2>1. PICK j \in JobType : j = job["saver"]
      BY DEF TypeOK, Threads
    <2>2. "saver" \in Threads /\ j.month \in Months /\ j.batch \in Seq(Sample) /\ j.batch # <<>>
      BY <1>6, <2>1 DEF InsertOne, Threads, JobType
    <2>3. tx[j.month].db \in Db /\ tx \in [Months -> [by : Threads \cup {"none"}, db : Db]]
      BY <2>2 DEF TypeOK
    <2>4. PICK db : db = [tx[j.month].db EXCEPT !.rows = @ \cup {Head(j.batch)}]
      OBVIOUS
    <2>5. tx' = [tx EXCEPT ![j.month].db = db]
      BY <1>6, <2>1, <2>4 DEF InsertOne, Write
    <2>6. \A k \in Months : tx'[k].db = IF k = j.month THEN db ELSE tx[k].db
      BY <2>3, <2>5
    <2>7. Head(j.batch) = j.batch[1] /\ 1 \in DOMAIN j.batch
      BY <2>2
    <2>8. RowsIn(j.month, db)
      BY <2>1, <2>2, <2>3, <2>4, <2>7 DEF Placed, RowsIn, Db
    <2>9. job'["saver"].batch = Tail(j.batch) /\ job'["saver"].month = j.month
      BY <1>6, <2>1, <2>2 DEF InsertOne, TypeOK, JobType
    <2>10. \A i \in DOMAIN Tail(j.batch) : i + 1 \in DOMAIN j.batch /\ Tail(j.batch)[i] = j.batch[i + 1]
      BY <2>2
    <2>11. \A i \in DOMAIN job'["saver"].batch :
              Month[job'["saver"].batch[i].day] = job'["saver"].month
      BY <2>1, <2>9, <2>10 DEF Placed
    <2>12. \A m \in Months : RowsIn(m, disk'[m]) /\ RowsIn(m, tx'[m].db)
      BY <1>6, <2>6, <2>8 DEF Placed, InsertOne
    <2>. QED
      BY <2>11, <2>12 DEF Placed, RowsIn
  <1>7. CASE InsertEnd
    <2>1. "saver" \in Threads /\ job["saver"].month \in Months
      BY DEF TypeOK, Threads, JobType
    <2>2. OldRows /\ job' = [job EXCEPT !["saver"] = Idle]
      BY <1>7, <2>1, CommitRows DEF InsertEnd
    <2>3. job'["saver"].batch = <<>>
      BY <2>1, <2>2 DEF TypeOK, Idle
    <2>. QED
      BY <2>2, <2>3, OldRowsPlaced
  <1>8. CASE CheckStat
    <2>1. "saver" \in Threads /\ Month[now.day - 1] \in Months
      BY <1>8 DEF CheckStat, Threads, TypeOK
    <2>2. PICK days, monthly : DoStat("saver", Month[now.day - 1], days, monthly)
      BY <1>8 DEF CheckStat
    <2>. QED
      BY <2>1, <2>2, DoStatRows, OldRowsPlaced
  <1>9. ASSUME NEW m \in Months, CheckAndDoStat_day(m)
        PROVE  Placed'
    <2>1. PICK days : DoStat("report", m, days, TRUE)
      BY <1>9 DEF CheckAndDoStat_day
    <2>. QED
      BY <2>1, DoStatRows, OldRowsPlaced DEF Threads
  <1>10. ASSUME NEW t \in Threads, DoStat_day_specday(t)
         PROVE  Placed'
    <2>1. PICK j \in JobType : j = job[t]
      BY DEF TypeOK
    <2>2. j.month \in Months
      BY <2>1 DEF JobType
    <2>3. tx[j.month].db \in Db /\ tx \in [Months -> [by : Threads \cup {"none"}, db : Db]]
      BY <2>2 DEF TypeOK
    <2>4. PICK d \in j.todo :
            /\ Write(j.month, WithDay(tx[j.month].db, d)) \/ UNCHANGED tx
            /\ job' = [job EXCEPT ![t].todo = @ \ {d}]
      BY <1>10, <2>1 DEF DoStat_day_specday
    <2>5. PICK db : db = WithDay(tx[j.month].db, d)
      OBVIOUS
    <2>6. db.rows = tx[j.month].db.rows
      BY <2>3, <2>5 DEF WithDay, Db
    <2>7. \A k \in Months : tx'[k].db.rows = tx[k].db.rows
      BY <2>3, <2>4, <2>5, <2>6 DEF Write
    <2>8. job'["saver"].batch = job["saver"].batch /\ job'["saver"].month = job["saver"].month
      BY <2>4 DEF TypeOK, Threads, JobType
    <2>9. disk' = disk
      BY <1>10 DEF DoStat_day_specday
    <2>. QED
      BY <2>7, <2>8, <2>9, OldRowsPlaced DEF OldRows
  <1>11. ASSUME NEW t \in Threads, DoStat_day_all(t)
         PROVE  Placed'
    <2>1. job[t] \in JobType /\ job[t].month \in Months
      BY DEF TypeOK, JobType
    <2>2. PICK then : /\ then = IF job[t].monthly THEN [job[t] EXCEPT !.pc = "month"] ELSE Idle
                      /\ Commit(t, job[t].month, then)
      BY <1>11 DEF DoStat_day_all
    <2>3. \/ then.batch = job[t].batch /\ then.month = job[t].month
          \/ then.batch = <<>>
      BY <2>1, <2>2 DEF Idle, JobType
    <2>4. OldRows /\ job' = [job EXCEPT ![t] = then]
      BY <2>1, <2>2, CommitRows
    <2>5. \/ job'["saver"].batch = <<>>
          \/ job'["saver"].batch = job["saver"].batch /\ job'["saver"].month = job["saver"].month
      BY <2>3, <2>4 DEF TypeOK, Threads
    <2>. QED
      BY <2>4, <2>5, OldRowsPlaced
  <1>12. ASSUME NEW t \in Threads, DoStat_month_all(t)
         PROVE  Placed'
    <2>1. CASE Ends
      BY <2>1, EndsRows, OldRowsPlaced
    <2>2. CASE /\ job' = [job EXCEPT ![t] = Idle] /\ tx' = tx
               /\ disk' = [disk EXCEPT ![job[t].month].month = TRUE] \/ disk' = disk
      <3>1. ASSUME NEW k \in Months PROVE disk'[k].rows = disk[k].rows
        <4>1. disk[k] \in Db
          BY DEF TypeOK
        <4>2. disk'[k] \in {disk[k], [disk[k] EXCEPT !.month = TRUE]}
          BY <2>2 DEF TypeOK
        <4>. QED
          BY <4>1, <4>2, MonthType
      <3>2. job'["saver"] = job["saver"] \/ job'["saver"].batch = <<>>
        BY <2>2 DEF TypeOK, Idle, Threads
      <3>. QED
        BY <2>2, <3>1, <3>2, OldRowsPlaced DEF OldRows
    <2>. QED
      BY <1>12, <2>1, <2>2 DEF DoStat_month_all, data
  <1>13. CASE Tick
    BY <1>1, <1>13 DEF Tick, data
  <1>14. ASSUME NEW o \in Objects, DataAnalyse(o) \/ Push(o) \/ DataProc(o)
         PROVE  Placed'
    BY <1>1, <1>14 DEF DataAnalyse, Push, DataProc, data
  <1>15. CASE UNCHANGED vars
    BY <1>1, <1>15 DEF vars, data
  <1>. QED
    BY <1>2, <1>3, <1>4, <1>5, <1>6, <1>7, <1>8, <1>9, <1>10, <1>11, <1>12, <1>13,
       <1>14, <1>15 DEF Next

(* Whatever the threads do while a month ends, each database has samples   *)
(* of its own month only.                                                  *)
THEOREM MonthsApart == Spec => []RightMonth
  <1>1. Init => Placed
    BY DEF Init, Placed, RowsIn, NewDb, NoTx, Idle, Threads
  <1>2. TypeOK /\ Placed /\ [Next]_vars => Placed'
    BY PlacedStep
  <1>3. Placed => RightMonth
    BY DEF Placed, RowsIn, RightMonth
  <1>. QED
    BY <1>1, <1>2, <1>3, TypeCorrect, PTL DEF Spec

-----------------------------------------------------------------------------
(* KeptRecent: a transaction only adds rows, and what is removed at the    *)
(* start is the month before the last.                                     *)

LEMMA MonthBeforeLast == \A m \in Nat : RemoveDB(m) = m - 2
  <1>1. SUFFICES ASSUME NEW m \in Nat PROVE RemoveDB(m) = m - 2
    OBVIOUS
  <1>2. m = 12 * (m \div 12) + (m % 12)
    OBVIOUS
  <1>. QED
    BY <1>2 DEF RemoveDB

Grows == \A m \in Months : tx[m].by # "none" => disk[m].rows \subseteq tx[m].db.rows

Keeps == \A m \in Months : disk[m].rows \subseteq disk'[m].rows

LEMMA EndsKeeps == ASSUME TypeOK, Ends PROVE Grows' /\ Keeps /\ files' = files
  <1>. HIDE DEF Months, Days
  <1>1. disk' = disk /\ files' = files /\ \A m \in Months : tx'[m].by = "none"
    BY DEF Ends, NoTx
  <1>. QED
    BY <1>1 DEF Grows, Keeps

LEMMA BeginKeeps ==
    ASSUME TypeOK, Grows, NEW t \in Threads, NEW m \in Months, NEW then, Begin(t, m, then)
    PROVE  Grows' /\ Keeps /\ files \subseteq files'
  <1>. HIDE DEF Months, Days
  <1>1. CASE Ends
    BY <1>1, EndsKeeps
  <1>2. CASE /\ tx' = [tx EXCEPT ![m] = [by |-> t, db |-> disk[m]]]
             /\ files' = files \cup {m} /\ disk' = disk
    <2>1. \A k \in Months : tx'[k] = IF k = m THEN [by |-> t, db |-> disk[m]] ELSE tx[k]
      BY <1>2 DEF TypeOK
    <2>. QED
      BY <1>2, <2>1 DEF Grows, Keeps
  <1>. QED
    BY <1>1, <1>2 DEF Begin

LEMMA CommitKeeps ==
    ASSUME TypeOK, Grows, NEW t \in Threads, NEW m \in Months, NEW then, Commit(t, m, then),
           job[t].pc \in {"insert", "days"}, job[t].month = m
    PROVE  Grows' /\ Keeps /\ files' = files
  <1>. HIDE DEF Months, Days
  <1>1. \A k \in Months : disk'[k] = IF k = m THEN tx[m].db ELSE disk[k]
    BY DEF Commit, TypeOK
  <1>2. \A k \in Months : tx'[k] = IF k = m THEN NoTx ELSE tx[k]
    BY DEF Commit, TypeOK
  <1>3. NoTx.by = "none" /\ files' = files
    BY DEF NoTx, Commit
  <1>4. tx[m].by = t
    BY DEF TypeOK
  <1>5. disk[m].rows \subseteq tx[m].db.rows
    BY <1>4 DEF Grows, Threads
  <1>. QED
    BY <1>1, <1>2, <1>3, <1>5 DEF Grows, Keeps

LEMMA SameKeeps ==
    ASSUME Grows, UNCHANGED <<disk, tx>>
    PROVE  Grows' /\ Keeps
  BY DEF Grows, Keeps

LEMMA DoStatKeeps ==
    ASSUME TypeOK, Grows, NEW t \in Threads, NEW m \in Months, NEW days, NEW monthly,
           DoStat(t, m, days, monthly)
    PROVE  Grows' /\ Keeps /\ files \subseteq files'
  <1>. HIDE DEF Months, Days
  <1>1. PICK then : Begin(t, m, then) \/ UNCHANGED data
    BY DEF DoStat
  <1>. QED
    BY <1>1, BeginKeeps, SameKeeps DEF data

(* What a step other than a start keeps, and what a start keeps.           *)
LEMMA KeptStep ==
    ASSUME TypeOK, Grows, [Next]_vars
    PROVE  /\ Grows'
           /\ \A m \in files : m >= Month[now.day] - 1 =>
                 m \in files' /\ disk[m].rows \subseteq disk'[m].rows
  <1>. HIDE DEF Months, Days
  <1>0. files \subseteq Months
    BY DEF TypeOK
  <1>1. SUFFICES \/ Grows' /\ Keeps /\ files \subseteq files'
                 \/ Start
    <2>1. ASSUME Start
          PROVE  /\ Grows'
                 /\ \A m \in files : m >= Month[now.day] - 1 =>
                       m \in files' /\ disk[m].rows \subseteq disk'[m].rows
      <3>1. Month[now.day] \in Nat
        BY DEF TypeOK, Time, Days
      <3>2. RemoveDB(Month[now.day]) = Month[now.day] - 2
        BY <3>1, MonthBeforeLast
      <3>3. \A k \in Months : disk'[k] = IF k = RemoveDB(Month[now.day]) THEN NewDb ELSE disk[k]
        BY <2>1 DEF Start
      <3>4. NewDb.rows = {} /\ tx' = tx
        BY <2>1 DEF NewDb, Start
      <3>5. Grows'
        BY <3>3, <3>4 DEF Grows
      <3>6. files' = (files \cup {Month[now.day]}) \ {RemoveDB(Month[now.day])}
        BY <2>1 DEF Start
      <3>7. ASSUME NEW m \in files, m >= Month[now.day] - 1
            PROVE  m \in files' /\ disk[m].rows \subseteq disk'[m].rows
        <4>1. m # RemoveDB(Month[now.day])
          <5>1. m \in Nat
            BY <1>0 DEF Months
          <5>. QED
            BY <3>1, <3>2, <3>7, <5>1
        <4>. QED
          BY <1>0, <3>3, <3>6, <4>1
      <3>. QED
        BY <3>5, <3>7
    <2>. QED
      BY <1>0, <2>1 DEF Keeps
  <1>2. CASE UNCHANGED <<disk, tx, files>>
    BY <1>2, SameKeeps
  <1>3. CASE Stop
    BY <1>3, EndsKeeps DEF Stop
  <1>4. CASE InsertBegin
    <2>1. "saver" \in Threads /\ job["saver"].month \in Months
      BY DEF TypeOK, Threads, JobType
    <2>. QED
      BY <1>4, <2>1, BeginKeeps, SameKeeps DEF InsertBegin, data
  <1>5. CASE InsertOne
    <2>1. PICK j \in JobType : j = job["saver"]
      BY DEF TypeOK, Threads
    <2>2. j.month \in Months
      BY <2>1 DEF JobType
    <2>3. tx[j.month].db \in Db /\ tx \in [Months -> [by : Threads \cup {"none"}, db : Db]]
      BY <2>2 DEF TypeOK
    <2>4. PICK db : db = [tx[j.month].db EXCEPT !.rows = @ \cup {Head(j.batch)}]
      OBVIOUS
    <2>5. tx' = [tx EXCEPT ![j.month].db = db]
      BY <1>5, <2>1, <2>4 DEF InsertOne, Write
    <2>6. tx[j.month].db.rows \subseteq db.rows
      BY <2>3, <2>4 DEF Db
    <2>7. \A k \in Months : tx'[k].by = tx[k].by /\ tx[k].db.rows \subseteq tx'[k].db.rows
      BY <2>3, <2>5, <2>6
    <2>8. UNCHANGED <<disk, files>>
      BY <1>5 DEF InsertOne
    <2>. QED
      BY <2>7, <2>8 DEF Grows, Keeps
  <1>6. CASE InsertEnd
    <2>1. "saver" \in Threads /\ job["saver"].month \in Months
      BY DEF TypeOK, Threads, JobType
    <2>. QED
      BY <1>6, <2>1, CommitKeeps DEF InsertEnd
  <1>7. CASE CheckStat
    <2>1. "saver" \in Threads /\ Month[now.day - 1] \in Months
      BY <1>7 DEF CheckStat, Threads, TypeOK
    <2>2. PICK days, monthly : DoStat("saver", Month[now.day - 1], days, monthly)
      BY <1>7 DEF CheckStat
    <2>. QED
      BY <2>1, <2>2, DoStatKeeps
  <1>8. ASSUME NEW m \in Months, CheckAndDoStat_day(m)
        PROVE  Grows' /\ Keeps /\ files \subseteq files'
    <2>1. PICK days : DoStat("report", m, days, TRUE)
      BY <1>8 DEF CheckAndDoStat_day
    <2>. QED
      BY <2>1, DoStatKeeps DEF Threads
  <1>9. ASSUME NEW t \in Threads, DoStat_day_specday(t)
        PROVE  Grows' /\ Keeps /\ files \subseteq files'
    <2>1. PICK j \in JobType : j = job[t]
      BY DEF TypeOK
    <2>2. j.month \in Months
      BY <2>1 DEF JobType
    <2>3. tx[j.month].db \in Db /\ tx \in [Months -> [by : Threads \cup {"none"}, db : Db]]
      BY <2>2 DEF TypeOK
    <2>4. PICK d \in j.todo : Write(j.month, WithDay(tx[j.month].db, d)) \/ UNCHANGED tx
      BY <1>9, <2>1 DEF DoStat_day_specday
    <2>5. PICK db : db = WithDay(tx[j.month].db, d)
      OBVIOUS
    <2>6. db.rows = tx[j.month].db.rows
      BY <2>3, <2>5 DEF WithDay, Db
    <2>7. \A k \in Months : tx'[k].by = tx[k].by /\ tx'[k].db.rows = tx[k].db.rows
      BY <2>3, <2>4, <2>5, <2>6 DEF Write
    <2>8. UNCHANGED <<disk, files>>
      BY <1>9 DEF DoStat_day_specday
    <2>. QED
      BY <2>7, <2>8 DEF Grows, Keeps
  <1>10. ASSUME NEW t \in Threads, DoStat_day_all(t)
         PROVE  Grows' /\ Keeps /\ files \subseteq files'
    <2>1. job[t].month \in Months /\ job[t].pc = "days"
      BY <1>10 DEF TypeOK, JobType, DoStat_day_all
    <2>. QED
      BY <1>10, <2>1, CommitKeeps DEF DoStat_day_all
  <1>11. ASSUME NEW t \in Threads, DoStat_month_all(t)
         PROVE  Grows' /\ Keeps /\ files \subseteq files'
    <2>1. CASE Ends
      BY <2>1, EndsKeeps
    <2>2. CASE /\ UNCHANGED <<tx, files>>
               /\ disk' = [disk EXCEPT ![job[t].month].month = TRUE] \/ disk' = disk
      <3>1. ASSUME NEW k \in Months PROVE disk'[k].rows = disk[k].rows
        <4>1. disk[k] \in Db
          BY DEF TypeOK
        <4>2. disk'[k] \in {disk[k], [disk[k] EXCEPT !.month = TRUE]}
          BY <2>2 DEF TypeOK
        <4>. QED
          BY <4>1, <4>2, MonthType
      <3>. QED
        BY <2>2, <3>1 DEF Grows, Keeps
    <2>. QED
      BY <1>11, <2>1, <2>2 DEF DoStat_month_all, data
  <1>12. CASE Tick \/ DataSave
    BY <1>2, <1>12 DEF Tick, DataSave, data
  <1>13. ASSUME NEW o \in Objects, DataAnalyse(o) \/ Push(o) \/ DataProc(o)
         PROVE  Grows' /\ Keeps /\ files \subseteq files'
    <2>1. UNCHANGED <<disk, tx, files>>
      BY <1>13 DEF DataAnalyse, Push, DataProc, data
    <2>. QED
      BY <2>1, SameKeeps
  <1>14. CASE UNCHANGED vars
    BY <1>2, <1>14 DEF vars, data
  <1>. QED
    BY <1>3, <1>4, <1>5, <1>6, <1>7, <1>8, <1>9, <1>10, <1>11, <1>12, <1>13, <1>14 DEF Next

(* Whatever is stored of this month and the last one stays stored, over    *)
(* any number of starts and whatever the calendar.                         *)
THEOREM RecentStays == Spec => KeptRecent
  <1>1. Init => Grows
    BY DEF Init, Grows, NoTx
  <1>2. TypeOK /\ Grows /\ [Next]_vars => Grows'
    BY KeptStep
  <1>3. TypeOK /\ Grows /\ [Next]_vars =>
            [\A m \in files : m >= Month[now.day] - 1 =>
                 m \in files' /\ disk[m].rows \subseteq disk'[m].rows]_vars
    BY KeptStep
  <1>. QED
    BY <1>1, <1>2, <1>3, TypeCorrect, PTL DEF Spec, KeptRecent

-----------------------------------------------------------------------------
(* StatsFinal, where no report is made at midnight: samples on their way   *)
(* are of today, or of yesterday in the first tick of today, and days with *)
(* statistics have been over for a tick.                                   *)

Recent(s) == s.day = now.day \/ (now.tick = 0 /\ s.day = now.day - 1)

Over(d) == d < now.day /\ (now.tick = 0 => d < now.day - 1)

Waiting ==
    /\ \A o \in Objects : \A s \in hand[o] : Recent(s)
    /\ \A i \in DOMAIN buffer : Recent(buffer[i])
    /\ \A i \in DOMAIN job["saver"].batch : Recent(job["saver"].batch[i])

Counted(db) ==
    /\ \A r \in db.stats : r.day \in db.days
    /\ \A d \in db.days, o \in Objects :
         SamplesOf(db, o, d) # {} =>
             [obj |-> o, day |-> d, of |-> SamplesOf(db, o, d)] \in db.stats

Closed(m, db) ==
    /\ \A d \in db.days : Over(d)
    /\ db.month => m < Month[now.day]

DbFinal(m, db) == Counted(db) /\ Closed(m, db)

(* What a thread is about to do with a database.                           *)
Fits(t, j) ==
    /\ j.pc # "idle" => j.month <= Month[now.day]
    /\ \A d \in j.todo : Month[d] = j.month
    /\ t = "saver" => \A d \in j.todo : Over(d)
    /\ t = "report" /\ j.pc # "idle" => now.tick # 0

Asked ==
    /\ \A m \in files : m <= Month[now.day]
    /\ \A t \in Threads : Fits(t, job[t])

AllFinal == \A m \in Months : DbFinal(m, disk[m]) /\ DbFinal(m, tx[m].db)

Final == Waiting /\ Asked /\ AllFinal

LEMMA NewFinal == \A m : DbFinal(m, NewDb) /\ DbFinal(m, NoTx.db)
  BY DEF DbFinal, Counted, Closed, NewDb, NoTx

LEMMA NowFacts ==
    ASSUME TypeOK
    PROVE  /\ now.day \in Days /\ now.tick \in Nat /\ Month[now.day] \in Nat
           /\ Days \subseteq Nat
  BY DEF TypeOK, Time, Ticks

(* A sample on its way is not of a day that has statistics.                *)
LEMMA RowFinal ==
    ASSUME TypeOK, NEW m, NEW db \in Db, DbFinal(m, db), NEW s \in Sample, Recent(s)
    PROVE  DbFinal(m, [db EXCEPT !.rows = @ \cup {s}])
  <1>. HIDE DEF Months, Days
  <1>1. PICK new \in Db : new = [db EXCEPT !.rows = @ \cup {s}]
    BY DEF Db
  <1>2. /\ new.rows = db.rows \cup {s} /\ new.days = db.days
        /\ new.stats = db.stats /\ new.month = db.month
    BY <1>1 DEF Db
  <1>3. \A d \in db.days : s.day # d
    BY NowFacts DEF DbFinal, Closed, Over, Recent, Sample, Db
  <1>4. \A d \in db.days, o \in Objects : SamplesOf(new, o, d) = SamplesOf(db, o, d)
    BY <1>2, <1>3 DEF SamplesOf
  <1>5. Counted(new) /\ Closed(m, new)
    BY <1>2, <1>4 DEF DbFinal, Counted, Closed
  <1>. QED
    BY <1>1, <1>5 DEF DbFinal

(* The statistics of a day that is over count its samples.                 *)
LEMMA DayFinal ==
    ASSUME TypeOK, NEW m, NEW db \in Db, DbFinal(m, db), NEW d \in Days, Over(d)
    PROVE  DbFinal(m, WithDay(db, d))
  <1>. HIDE DEF Months, Days
  <1>. DEFINE new == {o \in Objects : /\ SamplesOf(db, o, d) # {}
                                     /\ \A r \in db.stats : r.obj # o \/ r.day # d}
              S == {[obj |-> o, day |-> d, of |-> SamplesOf(db, o, d)] : o \in new}
  <1>1. PICK w \in Db : w = WithDay(db, d)
    BY WithDayType
  <1>2. /\ w.rows = db.rows /\ w.month = db.month
        /\ w.stats = db.stats \cup S /\ w.days = db.days \cup {d}
    BY <1>1 DEF WithDay, Db
  <1>3. \A e, o : SamplesOf(w, o, e) = SamplesOf(db, o, e)
    BY <1>2 DEF SamplesOf
  <1>4. d \in db.days \/ \A r \in db.stats : r.day # d
    BY DEF DbFinal, Counted
  <1>5. ASSUME NEW o \in Objects, SamplesOf(db, o, d) # {}
        PROVE  [obj |-> o, day |-> d, of |-> SamplesOf(db, o, d)] \in db.stats \cup S
    <2>1. CASE d \in db.days
      BY <1>5, <2>1 DEF DbFinal, Counted
    <2>2. CASE \A r \in db.stats : r.day # d
      BY <1>5, <2>2
    <2>. QED
      BY <1>4, <2>1, <2>2
  <1>6. \A r \in S : r.day = d
    OBVIOUS
  <1>. HIDE DEF S
  <1>7. ASSUME NEW e \in w.days, NEW o \in Objects, SamplesOf(w, o, e) # {}
        PROVE  [obj |-> o, day |-> e, of |-> SamplesOf(w, o, e)] \in w.stats
    BY <1>2, <1>3, <1>5, <1>7 DEF DbFinal, Counted
  <1>8. \A r \in w.stats : r.day \in w.days
    BY <1>2, <1>6 DEF DbFinal, Counted
  <1>9. Counted(w)
    BY <1>7, <1>8 DEF Counted
  <1>10. Closed(m, w)
    BY <1>2 DEF DbFinal, Closed
  <1>. QED
    BY <1>1, <1>9, <1>10 DEF DbFinal

(* Databases that a step leaves, begins a transaction of, commits or       *)
(* empties.                                                                *)
OldDbs ==
    \A m \in Months :
        /\ disk'[m] \in {disk[m], tx[m].db, NewDb}
        /\ tx'[m].db \in {disk[m], tx[m].db, NewDb}

LEMMA OldDbsFinal ==
    ASSUME AllFinal, OldDbs, now' = now
    PROVE  AllFinal'
  <1>. HIDE DEF Months, Days
  <1>1. ASSUME NEW m \in Months PROVE DbFinal(m, disk[m])'
    <2>1. PICK x : x = disk'[m] /\ DbFinal(m, x)
      BY NewFinal DEF AllFinal, OldDbs
    <2>. QED
      BY <2>1 DEF DbFinal, Counted, Closed, Over, SamplesOf
  <1>2. ASSUME NEW m \in Months PROVE DbFinal(m, tx[m].db)'
    <2>1. PICK x : x = tx'[m].db /\ DbFinal(m, x)
      BY NewFinal DEF AllFinal, OldDbs
    <2>. QED
      BY <2>1 DEF DbFinal, Counted, Closed, Over, SamplesOf
  <1>. QED
    BY <1>1, <1>2 DEF AllFinal

LEMMA TickNow ==
    ASSUME TypeOK, Tick
    PROVE  /\ now'.day \in Days
           /\ \/ now'.day = now.day /\ now'.tick = now.tick + 1
              \/ /\ now'.day = now.day + 1 /\ now'.tick = 0
                 /\ QuietMidnight => job["report"].pc = "idle"
  <1>. HIDE DEF Months, Days
  <1>1. now \in Time
    BY DEF TypeOK
  <1>. QED
    BY <1>1 DEF Tick, Time

LEMMA PendingIs ==
    \A s : s \in Pending <=>
        \/ \E o \in Objects : s \in hand[o]
        \/ \E i \in DOMAIN buffer : s = buffer[i]
        \/ \E i \in DOMAIN job["saver"].batch : s = job["saver"].batch[i]
  <1>. DEFINE A == UNION {hand[o] : o \in Objects}
              B == {buffer[i] : i \in DOMAIN buffer}
              C == {job["saver"].batch[i] : i \in DOMAIN job["saver"].batch}
  <1>1. \A s : s \in A <=> \E o \in Objects : s \in hand[o]
    OBVIOUS
  <1>2. \A s : s \in B <=> \E i \in DOMAIN buffer : s = buffer[i]
    OBVIOUS
  <1>3. \A s : s \in C <=> \E i \in DOMAIN job["saver"].batch : s = job["saver"].batch[i]
    OBVIOUS
  <1>4. Pending = A \cup B \cup C
    BY DEF Pending
  <1>. HIDE DEF A, B, C
  <1>. QED
    BY <1>1, <1>2, <1>3, <1>4

(* Time. *)
LEMMA OverLater ==
    ASSUME TypeOK, Tick, NEW d \in Days, d < now.day
    PROVE  Over(d)'
  BY NowFacts, TickNow, SMTT(30) DEF Over

LEMMA MonthLater == ASSUME TypeOK, Tick PROVE Month[now.day] <= Month'[now'.day]
  <1>1. now.day \in Days /\ now'.day \in Days /\ now.day <= now'.day
    BY NowFacts, TickNow
  <1>. QED
    BY <1>1

LEMMA TickFinal ==
    ASSUME QuietMidnight, TypeOK, Final, Tick
    PROVE  Final'
  <1>. HIDE DEF Months, Days
  <1>1. UNCHANGED <<up, memory, job, data, taken, stops>>
    BY DEF Tick
  <1>2. Waiting'
    <2>1. ASSUME NEW s \in Sample, Present(s) PROVE Recent(s)'
      BY <2>1, NowFacts, TickNow DEF Present, Recent
    <2>2. \A s \in Pending : s \in Sample /\ Present(s)
      <3>1. \A s \in Pending : Present(s)
        BY DEF Tick
      <3>2. Pending \subseteq Sample
        <4>1. hand \in [Objects -> SUBSET Sample] /\ buffer \in Seq(Sample)
          BY DEF TypeOK
        <4>2. job["saver"].batch \in Seq(Sample)
          BY DEF TypeOK, JobType, Threads
        <4>3. \A o \in Objects : hand[o] \subseteq Sample
          BY <4>1
        <4>4. \A i \in DOMAIN buffer : buffer[i] \in Sample
          BY <4>1
        <4>5. \A i \in DOMAIN job["saver"].batch : job["saver"].batch[i] \in Sample
          BY <4>2
        <4>. QED
          BY <4>3, <4>4, <4>5, PendingIs
      <3>. QED
        BY <3>1, <3>2
    <2>3. \A s \in Pending : Recent(s)'
      BY <2>1, <2>2
    <2>4. hand' = hand /\ buffer' = buffer /\ job' = job
      BY <1>1 DEF memory
    <2>5. /\ \A o \in Objects : \A s \in hand[o] : s \in Pending
          /\ \A i \in DOMAIN buffer : buffer[i] \in Pending
          /\ \A i \in DOMAIN job["saver"].batch : job["saver"].batch[i] \in Pending
      BY PendingIs
    <2>. QED
      BY <2>3, <2>4, <2>5 DEF Waiting
  <1>3. \A d \in Days : d < now.day => Over(d)'
    BY OverLater
  <1>4. Month[now.day] \in Nat /\ Month[now'.day] \in Nat /\ Month[now.day] <= Month[now'.day]
    <2>1. now'.day \in Days
      BY TickNow
    <2>. QED
      BY <2>1, NowFacts, MonthLater DEF Days
  <1>5. Asked'
    <2>1. \A m \in files' : m <= Month[now'.day]
      <3>1. files \subseteq Nat /\ files' = files
        BY <1>1 DEF data, TypeOK, Months
      <3>2. \A m \in files : m <= Month[now.day]
        BY DEF Final, Asked
      <3>. QED
        BY <1>4, <3>1, <3>2
    <2>2. ASSUME NEW t \in Threads PROVE Fits(t, job[t])'
      <3>1. PICK j \in JobType : j = job[t] /\ j = job'[t] /\ Fits(t, j)
        BY <1>1 DEF TypeOK, Final, Asked
      <3>2. j.month \in Nat /\ j.todo \subseteq Days
        BY DEF JobType, Months
      <3>3. t = "saver" => \A d \in j.todo : Over(d)'
        BY <1>3, <3>1, <3>2 DEF Fits, Over
      <3>4. j.pc # "idle" => j.month <= Month[now'.day]
        BY <1>4, <3>1, <3>2 DEF Fits
      <3>5. t = "report" /\ j.pc # "idle" => now'.tick # 0
        <4>1. now.tick + 1 # 0
          BY NowFacts
        <4>2. j = job["report"] \/ t # "report"
          BY <3>1
        <4>. QED
          BY <4>1, <4>2, TickNow
      <3>. QED
        BY <3>1, <3>3, <3>4, <3>5 DEF Fits
    <2>. QED
      BY <2>1, <2>2 DEF Asked
  <1>6. ASSUME NEW m \in Months, NEW db \in Db, DbFinal(m, db)
        PROVE  Closed(m, db)'
    <2>1. m \in Nat /\ db.days \subseteq Days
      BY DEF Months, Db
    <2>2. \A d \in db.days : Over(d)'
      BY <1>3, <1>6, <2>1 DEF DbFinal, Closed, Over
    <2>3. db.month => m < Month[now'.day]
      BY <1>4, <1>6, <2>1 DEF DbFinal, Closed
    <2>. QED
      BY <2>2, <2>3 DEF Closed
  <1>7. AllFinal'
    <2>1. ASSUME NEW m \in Months
          PROVE  DbFinal(m, disk[m])' /\ DbFinal(m, tx[m].db)'
      <3>1. PICK a \in Db : a = disk[m] /\ a = disk'[m] /\ DbFinal(m, a)
        BY <1>1 DEF Final, AllFinal, TypeOK, data
      <3>2. PICK b \in Db : b = tx[m].db /\ b = tx'[m].db /\ DbFinal(m, b)
        BY <1>1 DEF Final, AllFinal, TypeOK, data
      <3>3. Closed(m, a)' /\ Closed(m, b)'
        BY <1>6, <3>1, <3>2
      <3>. QED
        BY <3>1, <3>2, <3>3 DEF DbFinal, Counted, SamplesOf
    <2>. QED
      BY <2>1 DEF AllFinal
  <1>. QED
    BY <1>2, <1>5, <1>7 DEF Final

(* The other steps, in which time stands still. *)
LEMMA SameWaiting ==
    ASSUME Waiting, UNCHANGED <<now, hand, buffer>>,
           job'["saver"].batch \in {<<>>, job["saver"].batch}
    PROVE  Waiting'
  <1>1. \A i \in DOMAIN job'["saver"].batch : Recent(job'["saver"].batch[i])
    BY DEF Waiting
  <1>. QED
    BY <1>1 DEF Waiting, Recent

LEMMA NewFits ==
    ASSUME TypeOK, Asked, now' = now, NEW t \in Threads, NEW j, Fits(t, j),
           job' = [job EXCEPT ![t] = j],
           \A m \in files' : m \in files \/ m <= Month[now.day]
    PROVE  Asked'
  <1>1. \A m \in files' : m <= Month[now.day]
    BY DEF Asked
  <1>2. ASSUME NEW u \in Threads PROVE Fits(u, job'[u])
    BY DEF Asked, TypeOK
  <1>. QED
    BY <1>1, <1>2 DEF Asked, Fits, Over

LEMMA IdleFits == \A t : Fits(t, Idle)
  BY DEF Fits, Idle

LEMMA SampleNowRecent ==
    ASSUME NEW o \in Objects
    PROVE  Recent(SampleNow(o))
  BY DEF Recent, SampleNow

LEMMA QueuedRecent ==
    ASSUME TypeOK, Waiting, NEW s \in Sample, Recent(s), Queued(s)
    PROVE  \A i \in DOMAIN buffer' : Recent(buffer'[i])
  <1>1. buffer \in Seq(Sample)
    BY DEF TypeOK
  <1>2. \A i \in DOMAIN buffer : Recent(buffer[i])
    BY DEF Waiting
  <1>. QED
    BY <1>1, <1>2 DEF Queued

LEMMA EndsFinal ==
    ASSUME TypeOK, Final, Ends
    PROVE  Final'
  <1>. HIDE DEF Months, Days
  <1>1. Waiting'
    BY DEF Ends, Waiting, Idle, Threads
  <1>2. Asked'
    <2>1. \A t \in Threads : Fits(t, job'[t])
      BY IdleFits DEF Ends
    <2>2. now' = now /\ files' = files
      BY DEF Ends
    <2>. QED
      BY <2>1, <2>2 DEF Final, Asked, Fits, Over
  <1>3. OldDbs
    BY DEF Ends, OldDbs, NoTx
  <1>. QED
    BY <1>1, <1>2, <1>3, OldDbsFinal DEF Final, Ends

LEMMA BeginFinal ==
    ASSUME TypeOK, Final, NEW t \in Threads, NEW m \in Months, NEW then \in JobType,
           Begin(t, m, then), Fits(t, then), m <= Month[now.day],
           t = "saver" => then.batch \in {<<>>, job["saver"].batch}
    PROVE  Final'
  <1>. HIDE DEF Months, Days
  <1>1. CASE Ends
    BY <1>1, EndsFinal
  <1>2. CASE /\ tx' = [tx EXCEPT ![m] = [by |-> t, db |-> disk[m]]]
             /\ job' = [job EXCEPT ![t] = then]
             /\ files' = files \cup {m}
             /\ UNCHANGED <<now, up, memory, disk, taken, stops>>
    <2>1. \A k \in Months : tx'[k] = IF k = m THEN [by |-> t, db |-> disk[m]] ELSE tx[k]
      BY <1>2 DEF TypeOK
    <2>2. OldDbs
      BY <1>2, <2>1 DEF OldDbs
    <2>3. Asked'
      BY <1>2, NewFits DEF Final
    <2>4. job'["saver"].batch \in {<<>>, job["saver"].batch}
      BY <1>2 DEF TypeOK, Threads
    <2>5. Waiting'
      BY <1>2, <2>4, SameWaiting DEF Final, memory
    <2>. QED
      BY <1>2, <2>2, <2>3, <2>5, OldDbsFinal DEF Final
  <1>. QED
    BY <1>1, <1>2 DEF Begin

LEMMA CommitFinal ==
    ASSUME TypeOK, Final, NEW t \in Threads, NEW m \in Months, NEW then \in JobType,
           Commit(t, m, then), Fits(t, then),
           t = "saver" => then.batch \in {<<>>, job["saver"].batch}
    PROVE  Final'
  <1>. HIDE DEF Months, Days
  <1>1. \A k \in Months : disk'[k] = IF k = m THEN tx[m].db ELSE disk[k]
    BY DEF Commit, TypeOK
  <1>2. \A k \in Months : tx'[k] = IF k = m THEN NoTx ELSE tx[k]
    BY DEF Commit, TypeOK
  <1>3. OldDbs
    BY <1>1, <1>2 DEF OldDbs, NoTx
  <1>4. job' = [job EXCEPT ![t] = then] /\ files' = files /\ UNCHANGED <<now, memory>>
    BY DEF Commit
  <1>5. Asked'
    BY <1>4, NewFits DEF Final
  <1>6. job'["saver"].batch \in {<<>>, job["saver"].batch}
    BY <1>4 DEF TypeOK, Threads
  <1>7. Waiting'
    BY <1>4, <1>6, SameWaiting DEF Final, memory
  <1>. QED
    BY <1>3, <1>4, <1>5, <1>7, OldDbsFinal DEF Final

LEMMA JobFinal ==
    ASSUME TypeOK, Final, NEW t \in Threads, NEW j \in JobType, Fits(t, j),
           job' = [job EXCEPT ![t] = j], UNCHANGED <<now, memory, data>>,
           t = "saver" => j.batch \in {<<>>, job["saver"].batch}
    PROVE  Final'
  <1>. HIDE DEF Months, Days
  <1>1. OldDbs
    BY DEF OldDbs, data
  <1>2. Asked'
    BY NewFits DEF Final, data
  <1>3. job'["saver"].batch \in {<<>>, job["saver"].batch}
    BY DEF TypeOK, Threads
  <1>4. Waiting'
    BY <1>3, SameWaiting DEF Final, memory
  <1>. QED
    BY <1>1, <1>2, <1>4, OldDbsFinal DEF Final

LEMMA DoStatFinal ==
    ASSUME TypeOK, Final, NEW t \in Threads, NEW m \in Months, NEW days \in SUBSET Days,
           NEW monthly \in BOOLEAN, DoStat(t, m, days, monthly),
           m <= Month[now.day], \A d \in days : Month[d] = m,
           t = "saver" => \A d \in days : Over(d),
           t = "report" => now.tick # 0
    PROVE  Final'
  <1>. HIDE DEF Months, Days
  <1>. DEFINE todo == days \ View(m).days
              then == [pc |-> IF todo = {} THEN "month" ELSE "days", month |-> m,
                       todo |-> todo, batch |-> <<>>, monthly |-> monthly]
  <1>1. todo \subseteq Days /\ <<>> \in Seq(Sample)
    OBVIOUS
  <1>2. then \in JobType /\ then.month = m /\ then.todo = todo /\ then.batch = <<>>
    BY <1>1 DEF JobType
  <1>3. Begin(t, m, then) \/ (job' = [job EXCEPT ![t] = then] /\ UNCHANGED <<now, memory, data>>)
    BY DEF DoStat
  <1>4. todo \subseteq days
    OBVIOUS
  <1>. HIDE DEF then, todo
  <1>5. Fits(t, then)
    BY <1>2, <1>4 DEF Fits
  <1>. QED
    BY <1>2, <1>3, <1>5, BeginFinal, JobFinal

LEMMA FinalStep ==
    ASSUME QuietMidnight, TypeOK, Final, [Next]_vars
    PROVE  Final'
  <1>. HIDE DEF Months, Days
  <1>0. Waiting /\ Asked /\ AllFinal /\ "saver" \in Threads /\ "report" \in Threads
    BY DEF Final, Threads
  <1>1. CASE UNCHANGED <<now, job, files, disk, tx>> /\ Waiting'
    <2>1. OldDbs
      BY <1>1 DEF OldDbs
    <2>2. Asked'
      BY <1>0, <1>1 DEF Asked, Fits, Over
    <2>. QED
      BY <1>0, <1>1, <2>1, <2>2, OldDbsFinal DEF Final
  <1>2. CASE UNCHANGED vars
    BY <1>0, <1>1, <1>2, SameWaiting DEF vars, memory, data
  <1>3. CASE Start
    <2>1. \A m \in Months : disk'[m] \in {disk[m], NewDb}
      BY <1>3 DEF Start
    <2>2. OldDbs
      BY <1>3, <2>1 DEF OldDbs, Start
    <2>3. \A m \in files' : m \in files \/ m <= Month[now.day]
      BY <1>3, NowFacts DEF Start
    <2>4. now' = now /\ job' = job /\ hand' = hand /\ buffer' = buffer
      BY <1>3 DEF Start, memory
    <2>5. Asked'
      BY <1>0, <2>3, <2>4 DEF Asked, Fits, Over
    <2>. QED
      BY <1>0, <2>2, <2>4, <2>5, SameWaiting, OldDbsFinal DEF Final
  <1>4. CASE Stop
    BY <1>4, EndsFinal DEF Stop
  <1>5. CASE Tick
    BY <1>5, TickFinal
  <1>6. ASSUME NEW o \in Objects, DataAnalyse(o)
        PROVE  Final'
    <2>1. \A u \in Objects : hand'[u] \in {hand[u], {SampleNow(o)}}
      BY <1>6 DEF DataAnalyse, TypeOK
    <2>2. UNCHANGED <<now, buffer, job, data>>
      BY <1>6 DEF DataAnalyse
    <2>3. Waiting'
      BY <1>0, <2>1, <2>2, SampleNowRecent DEF Waiting, Recent
    <2>. QED
      BY <1>1, <2>2, <2>3 DEF data
  <1>7. ASSUME NEW o \in Objects, Push(o)
        PROVE  Final'
    <2>1. PICK s \in hand[o] : Queued(s)
      BY <1>7 DEF Push
    <2>2. s \in Sample /\ Recent(s)
      BY <1>0 DEF Waiting, TypeOK
    <2>3. \A i \in DOMAIN buffer' : Recent(buffer'[i])
      BY <1>0, <2>1, <2>2, QueuedRecent
    <2>4. \A u \in Objects : hand'[u] \in {hand[u], {}}
      BY <1>7 DEF Push, TypeOK
    <2>5. UNCHANGED <<now, job, data>>
      BY <1>7 DEF Push
    <2>6. Waiting'
      BY <1>0, <2>3, <2>4, <2>5 DEF Waiting, Recent
    <2>. QED
      BY <1>1, <2>5, <2>6 DEF data
  <1>8. ASSUME NEW o \in Objects, DataProc(o)
        PROVE  Final'
    <2>1. SampleNow(o) \in Sample
      BY DEF TypeOK, SampleNow, Time, Sample
    <2>2. \A i \in DOMAIN buffer' : Recent(buffer'[i])
      BY <1>0, <1>8, <2>1, SampleNowRecent, QueuedRecent DEF DataProc
    <2>3. UNCHANGED <<now, hand, job, data>>
      BY <1>8 DEF DataProc
    <2>4. Waiting'
      BY <1>0, <2>2, <2>3 DEF Waiting, Recent
    <2>. QED
      BY <1>1, <2>3, <2>4 DEF data
  <1>9. CASE DataSave
    <2>1. PICK n \in 1 .. Len(buffer) :
            /\ buffer' = SubSeq(buffer, n + 1, Len(buffer))
            /\ job' = [job EXCEPT !["saver"] =
                   [pc |-> "save", month |-> Month[buffer[1].day], todo |-> {},
                    batch |-> SubSeq(buffer, 1, n), monthly |-> FALSE]]
      BY <1>9 DEF DataSave
    <2>2. PICK j : j = [pc |-> "save", month |-> Month[buffer[1].day], todo |-> {},
                        batch |-> SubSeq(buffer, 1, n), monthly |-> FALSE]
      OBVIOUS
    <2>3. buffer \in Seq(Sample) /\ \A i \in DOMAIN buffer : Recent(buffer[i])
      BY <1>0 DEF TypeOK, Waiting
    <2>4. Fits("saver", j)
      <3>1. buffer[1] \in Sample /\ Recent(buffer[1])
        BY <2>3
      <3>2. buffer[1].day \in Days /\ buffer[1].day <= now.day
        BY <3>1, NowFacts DEF Recent, Sample
      <3>3. Month[buffer[1].day] <= Month[now.day]
        BY <3>2, NowFacts
      <3>. QED
        BY <2>2, <3>3 DEF Fits
    <2>5. job' = [job EXCEPT !["saver"] = j] /\ UNCHANGED <<now, hand, data>>
      BY <1>9, <2>1, <2>2 DEF DataSave
    <2>6. Asked'
      BY <1>0, <2>4, <2>5, NewFits DEF data
    <2>7. \A i \in DOMAIN buffer' : Recent(buffer'[i])
      BY <2>1, <2>3
    <2>8. \A i \in DOMAIN j.batch : Recent(j.batch[i])
      BY <2>2, <2>3
    <2>9. job'["saver"] = j
      BY <1>0, <2>5 DEF TypeOK
    <2>10. Waiting'
      BY <1>0, <2>5, <2>7, <2>8, <2>9 DEF Waiting, Recent
    <2>11. OldDbs
      BY <2>5 DEF OldDbs, data
    <2>. QED
      BY <1>0, <2>5, <2>6, <2>10, <2>11, OldDbsFinal DEF Final
  <1>10. CASE InsertBegin
    <2>1. PICK j \in JobType : j = job["saver"] /\ Fits("saver", j) /\ j.pc = "save"
      BY <1>0, <1>10 DEF TypeOK, Asked, InsertBegin
    <2>2. PICK then \in JobType : then = [j EXCEPT !.pc = "insert"]
      BY DEF JobType
    <2>3. then.month = j.month /\ then.todo = j.todo /\ then.batch = j.batch
      BY <2>1, <2>2 DEF JobType
    <2>4. Fits("saver", then) /\ j.month <= Month[now.day] /\ j.month \in Months
      BY <2>1, <2>3 DEF Fits, JobType
    <2>5. CASE Begin("saver", j.month, then)
      BY <1>0, <2>1, <2>3, <2>4, <2>5, BeginFinal
    <2>6. CASE job' = [job EXCEPT !["saver"] = Idle]
               /\ UNCHANGED <<now, up, memory, data, taken, stops>>
      <3>1. Idle \in JobType /\ Idle.batch = <<>>
        BY IdleType DEF Idle
      <3>. QED
        BY <1>0, <2>6, <3>1, IdleFits, JobFinal
    <2>. QED
      BY <1>10, <2>1, <2>2, <2>5, <2>6 DEF InsertBegin
  <1>11. CASE InsertOne
    <2>1. PICK j \in JobType : j = job["saver"] /\ Fits("saver", j)
      BY <1>0 DEF TypeOK, Asked
    <2>2. j.month \in Months /\ j.batch \in Seq(Sample) /\ j.batch # <<>>
      BY <1>11, <2>1 DEF JobType, InsertOne
    <2>3. \A i \in DOMAIN j.batch : Recent(j.batch[i])
      BY <1>0, <2>1 DEF Waiting
    <2>4. Head(j.batch) \in Sample /\ Recent(Head(j.batch))
      BY <2>2, <2>3
    <2>5. PICK old \in Db : old = tx[j.month].db /\ DbFinal(j.month, old)
      BY <1>0, <2>2 DEF AllFinal, TypeOK
    <2>6. PICK db : db = [old EXCEPT !.rows = @ \cup {Head(j.batch)}]
      OBVIOUS
    <2>7. DbFinal(j.month, db)
      BY <2>4, <2>5, <2>6, RowFinal
    <2>8. /\ tx' = [tx EXCEPT ![j.month].db = db]
          /\ job' = [job EXCEPT !["saver"].batch = Tail(@)]
          /\ UNCHANGED <<now, memory, files, disk>>
      BY <1>11, <2>1, <2>5, <2>6 DEF InsertOne, Write
    <2>9. PICK next : next = [j EXCEPT !.batch = Tail(j.batch)]
      OBVIOUS
    <2>10. job' = [job EXCEPT !["saver"] = next] /\ job'["saver"] = next
      BY <1>0, <2>1, <2>8, <2>9 DEF TypeOK
    <2>11. next.pc = j.pc /\ next.month = j.month /\ next.todo = j.todo
           /\ next.batch = Tail(j.batch)
      BY <2>9 DEF JobType
    <2>12. Asked'
      <3>1. Fits("saver", next)
        BY <2>1, <2>11 DEF Fits
      <3>. QED
        BY <1>0, <2>8, <2>10, <3>1, NewFits
    <2>13. Waiting'
      <3>1. \A i \in DOMAIN Tail(j.batch) : Recent(Tail(j.batch)[i])
        BY <2>2, <2>3
      <3>. QED
        BY <1>0, <2>8, <2>10, <2>11, <3>1 DEF Waiting, Recent, memory
    <2>14. AllFinal'
      <3>1. \A m \in Months : tx'[m].db \in {tx[m].db, db} /\ (m # j.month => tx'[m].db = tx[m].db)
        BY <2>2, <2>8 DEF TypeOK
      <3>2. \A m \in Months : DbFinal(m, disk'[m]) /\ DbFinal(m, tx'[m].db)
        BY <1>0, <2>7, <2>8, <3>1 DEF AllFinal
      <3>. QED
        BY <2>8, <3>2 DEF AllFinal, DbFinal, Counted, Closed, Over, SamplesOf
    <2>. QED
      BY <2>12, <2>13, <2>14 DEF Final
  <1>12. CASE InsertEnd
    <2>1. job["saver"].month \in Months /\ Idle \in JobType /\ Idle.batch = <<>>
      BY <1>0, IdleType DEF TypeOK, JobType, Idle
    <2>. QED
      BY <1>0, <1>12, <2>1, IdleFits, CommitFinal DEF InsertEnd
  <1>13. CASE CheckStat
    <2>. DEFINE m == Month[now.day - 1]
    <2>1. now.day - 1 \in Days /\ m \in Months /\ m <= Month[now.day] /\ now.tick # 0
      BY <1>13, NowFacts DEF CheckStat, TypeOK
    <2>2. MonthDays(m) \in SUBSET Days /\ \A d \in MonthDays(m) : Month[d] = m
      BY DEF MonthDays
    <2>3. CASE m # Month[now.day] /\ DoStat("saver", m, MonthDays(m), TRUE)
      <3>1. \A d \in MonthDays(m) : Over(d)
        <4>1. ASSUME NEW d \in Days, Month[d] = m PROVE d < now.day
          BY <2>1, <2>3, <4>1, NowFacts
        <4>. QED
          BY <2>1, <4>1 DEF MonthDays, Over
      <3>. QED
        BY <1>0, <2>1, <2>2, <2>3, <3>1, DoStatFinal
    <2>4. CASE DoStat("saver", m, {d \in MonthDays(m) : d <= now.day - 1}, FALSE)
      <3>1. PICK days : days = {d \in MonthDays(m) : d <= now.day - 1}
        OBVIOUS
      <3>2. days \in SUBSET Days /\ \A d \in days : Month[d] = m
        BY <2>2, <3>1
      <3>3. \A d \in days : Over(d)
        BY <2>1, <2>2, <3>1, NowFacts DEF Over
      <3>. QED
        BY <1>0, <2>1, <2>4, <3>1, <3>2, <3>3, DoStatFinal
    <2>. QED
      BY <1>13, <2>3, <2>4 DEF CheckStat
  <1>14. ASSUME NEW m \in Months, CheckAndDoStat_day(m)
         PROVE  Final'
    <2>1. PICK days : days = {d \in MonthDays(m) :
                                m = Month[now.day] => DayNo(d) <= DayNo(now.day - 1)}
      OBVIOUS
    <2>2. days \in SUBSET Days /\ \A d \in days : Month[d] = m
      BY <2>1 DEF MonthDays
    <2>3. DoStat("report", m, days, TRUE) /\ now.tick # 0 /\ m <= Month[now.day]
      BY <1>0, <1>14, <2>1 DEF CheckAndDoStat_day, Asked
    <2>. QED
      BY <1>0, <2>2, <2>3, DoStatFinal
  <1>15. ASSUME NEW t \in Threads, DoStat_day_specday(t)
         PROVE  Final'
    <2>1. PICK j \in JobType : j = job[t] /\ Fits(t, j) /\ j.pc = "days"
      BY <1>0, <1>15 DEF TypeOK, Asked, DoStat_day_specday
    <2>2. j.month \in Months /\ j.todo \subseteq Days /\ j.month <= Month[now.day]
      BY <2>1 DEF JobType, Fits
    <2>3. PICK old \in Db : old = tx[j.month].db /\ DbFinal(j.month, old)
      BY <1>0, <2>2 DEF AllFinal, TypeOK
    <2>4. PICK d \in j.todo :
            /\ (isCan_DoStat_day(j.month, d) /\ Write(j.month, WithDay(old, d))) \/ UNCHANGED tx
            /\ job' = [job EXCEPT ![t].todo = @ \ {d}]
      BY <1>15, <2>1, <2>3 DEF DoStat_day_specday
    <2>5. UNCHANGED <<now, up, memory, files, disk, taken, stops>>
      BY <1>15 DEF DoStat_day_specday
    <2>6. PICK db \in Db : db = WithDay(old, d)
      BY <2>2, WithDayType
    <2>7. isCan_DoStat_day(j.month, d) => DbFinal(j.month, db)
      <3>1. ASSUME isCan_DoStat_day(j.month, d) PROVE Over(d)
        <4>1. d \in Days /\ Month[d] = j.month
          BY <2>1, <2>2 DEF Fits
        <4>2. d < now.day
          BY <2>2, <3>1, <4>1, NowFacts DEF isCan_DoStat_day
        <4>. QED
          BY <2>1, <4>2 DEF Fits, Over, Threads
      <3>. QED
        BY <2>2, <2>3, <2>6, <3>1, DayFinal
    <2>8. PICK next : next = [j EXCEPT !.todo = j.todo \ {d}]
      OBVIOUS
    <2>9. job' = [job EXCEPT ![t] = next]
      BY <2>1, <2>4, <2>8 DEF TypeOK
    <2>10. next.pc = j.pc /\ next.month = j.month /\ next.todo = j.todo \ {d}
           /\ next.batch = j.batch
      BY <2>8 DEF JobType
    <2>11. Asked'
      <3>1. Fits(t, next)
        BY <2>1, <2>10 DEF Fits
      <3>. QED
        BY <1>0, <2>5, <2>9, <3>1, NewFits
    <2>12. Waiting'
      <3>1. job'["saver"].batch = job["saver"].batch
        BY <2>1, <2>9, <2>10 DEF TypeOK, Threads
      <3>. QED
        BY <1>0, <2>5, <3>1, SameWaiting DEF memory
    <2>13. AllFinal'
      <3>1. ASSUME NEW m \in Months PROVE DbFinal(m, tx'[m].db)
        <4>1. CASE UNCHANGED tx
          BY <1>0, <4>1 DEF AllFinal
        <4>2. CASE isCan_DoStat_day(j.month, d) /\ Write(j.month, db)
          <5>1. tx'[m].db = IF m = j.month THEN db ELSE tx[m].db
            BY <2>2, <4>2 DEF Write, TypeOK
          <5>. QED
            BY <1>0, <2>7, <4>2, <5>1 DEF AllFinal
        <4>. QED
          BY <2>4, <2>6, <4>1, <4>2
      <3>2. \A m \in Months : DbFinal(m, disk'[m]) /\ DbFinal(m, tx'[m].db)
        BY <1>0, <2>5, <3>1 DEF AllFinal
      <3>. QED
        BY <2>5, <3>2 DEF AllFinal, DbFinal, Counted, Closed, Over, SamplesOf
    <2>. QED
      BY <2>11, <2>12, <2>13 DEF Final
  <1>16. ASSUME NEW t \in Threads, DoStat_day_all(t)
         PROVE  Final'
    <2>1. PICK j \in JobType : j = job[t] /\ Fits(t, j) /\ j.pc = "days" /\ j.month \in Months
      BY <1>0, <1>16 DEF TypeOK, Asked, DoStat_day_all, JobType
    <2>2. PICK next \in JobType : next = [j EXCEPT !.pc = "month"]
      BY DEF JobType
    <2>3. next.month = j.month /\ next.todo = j.todo /\ next.batch = j.batch
          /\ next.pc = "month"
      BY <2>2 DEF JobType
    <2>4. Fits(t, next)
      BY <2>1, <2>3 DEF Fits
    <2>5. Idle \in JobType /\ Idle.batch = <<>> /\ Fits(t, Idle)
      BY IdleType, IdleFits DEF Idle
    <2>6. Commit(t, j.month, next) \/ Commit(t, j.month, Idle)
      BY <1>16, <2>1, <2>2 DEF DoStat_day_all
    <2>. QED
      BY <1>0, <2>1, <2>3, <2>4, <2>5, <2>6, CommitFinal
  <1>17. ASSUME NEW t \in Threads, DoStat_month_all(t)
         PROVE  Final'
    <2>1. PICK m \in Months : m = job[t].month /\ m <= Month[now.day]
      <3>1. job[t].month \in Months
        BY DEF TypeOK, JobType
      <3>2. job[t].pc # "idle" /\ Fits(t, job[t])
        BY <1>0, <1>17 DEF Asked, DoStat_month_all
      <3>. QED
        BY <3>1, <3>2 DEF Fits
    <2>2. Idle \in JobType /\ Idle.batch = <<>> /\ Fits(t, Idle)
      BY IdleType, IdleFits DEF Idle
    <2>3. CASE Ends
      BY <2>3, EndsFinal
    <2>4. CASE /\ isCan_DoStat_month(m)
               /\ disk' = [disk EXCEPT ![m].month = TRUE]
               /\ job' = [job EXCEPT ![t] = Idle]
               /\ UNCHANGED <<now, up, memory, files, tx, taken, stops>>
      <3>1. m < Month[now.day]
        BY <2>1, <2>4, NowFacts DEF isCan_DoStat_month, Months
      <3>2. PICK new \in Db : new = [disk[m] EXCEPT !.month = TRUE]
        <4>1. disk[m] \in Db
          BY DEF TypeOK
        <4>. QED
          BY <4>1, MonthType
      <3>3. new.rows = disk[m].rows /\ new.days = disk[m].days /\ new.stats = disk[m].stats
        <4>1. disk[m] \in Db
          BY DEF TypeOK
        <4>. QED
          BY <3>2, <4>1, MonthType
      <3>4. DbFinal(m, disk[m])
        BY <1>0 DEF AllFinal
      <3>5. DbFinal(m, new)
        BY <3>1, <3>3, <3>4 DEF DbFinal, Counted, Closed, SamplesOf
      <3>6. \A k \in Months : disk'[k] = IF k = m THEN new ELSE disk[k]
        BY <2>4, <3>2 DEF TypeOK
      <3>7. \A k \in Months : DbFinal(k, disk'[k]) /\ DbFinal(k, tx'[k].db)
        BY <1>0, <2>4, <3>5, <3>6 DEF AllFinal
      <3>8. AllFinal'
        BY <2>4, <3>7 DEF AllFinal, DbFinal, Counted, Closed, Over, SamplesOf
      <3>9. Asked'
        BY <1>0, <2>2, <2>4, NewFits
      <3>10. job'["saver"].batch \in {<<>>, job["saver"].batch}
        BY <2>2, <2>4 DEF TypeOK, Threads
      <3>11. Waiting'
        BY <1>0, <2>4, <3>10, SameWaiting DEF memory
      <3>. QED
        BY <3>8, <3>9, <3>11 DEF Final
    <2>5. CASE job' = [job EXCEPT ![t] = Idle]
               /\ UNCHANGED <<now, up, memory, data, taken, stops>>
      BY <2>2, <2>5, JobFinal
    <2>. QED
      BY <1>17, <2>1, <2>3, <2>4, <2>5 DEF DoStat_month_all
  <1>. QED
    BY <1>2, <1>3, <1>4, <1>5, <1>6, <1>7, <1>8, <1>9, <1>10, <1>11, <1>12, <1>13,
       <1>14, <1>15, <1>16, <1>17 DEF Next

(* Where no report is made at midnight, what statistics say is final: for  *)
(* any calendar, any number of addresses and of starts.                    *)
THEOREM StatisticsFinal ==
    ASSUME QuietMidnight
    PROVE  Spec => []StatsFinal
  <1>1. Init => Final
    <2>1. SUFFICES ASSUME Init PROVE Final
      OBVIOUS
    <2>2. Waiting
      BY <2>1 DEF Init, Waiting, Idle, Threads
    <2>3. Asked
      BY <2>1, IdleFits DEF Init, Asked
    <2>4. AllFinal
      BY <2>1, NewFinal DEF Init, AllFinal
    <2>. QED
      BY <2>2, <2>3, <2>4 DEF Final
  <1>2. TypeOK /\ Final /\ [Next]_vars => Final'
    BY FinalStep
  <1>3. Final => StatsFinal
    BY DEF Final, AllFinal, DbFinal, Counted, Closed, Over, StatsFinal
  <1>. QED
    BY <1>1, <1>2, <1>3, TypeCorrect, PTL DEF Spec

-----------------------------------------------------------------------------
(* Only DataAnalyse and the end of the process touch what is known of the  *)
(* value of an address and of its last sample.                             *)
SameValues == UNCHANGED <<heard, lastSave>>
NoValues == heard' = [o \in Objects |-> {}]

LEMMA ValuesChange ==
    ASSUME [Next]_vars
    PROVE  SameValues \/ NoValues \/ \E o \in Objects : DataAnalyse(o)
<1> USE DEF SameValues, NoValues, memory
<1>1. ASSUME NEW t, NEW m, NEW then, Begin(t, m, then) PROVE SameValues \/ NoValues
  BY <1>1 DEF Begin, Ends
<1>2. ASSUME NEW t, NEW m, NEW then, Commit(t, m, then) PROVE SameValues
  BY <1>2 DEF Commit
<1>3. ASSUME NEW t, NEW m, NEW days, NEW monthly, DoStat(t, m, days, monthly)
      PROVE  SameValues \/ NoValues
  BY <1>1, <1>3 DEF DoStat
<1>4. CASE Start \/ Stop \/ Tick
  BY <1>4 DEF Start, Stop, Tick, Ends
<1>5. ASSUME NEW o \in Objects, Push(o) \/ DataProc(o) PROVE SameValues
  BY <1>5 DEF Push, DataProc
<1>6. CASE DataSave \/ InsertBegin \/ InsertOne \/ InsertEnd
  <2>1. CASE DataSave
    BY <2>1 DEF DataSave
  <2>2. CASE InsertBegin
    BY <1>1, <2>2 DEF InsertBegin
  <2>3. CASE InsertOne
    BY <2>3 DEF InsertOne
  <2>4. CASE InsertEnd
    BY <1>2, <2>4 DEF InsertEnd
  <2> QED
    BY <1>6, <2>1, <2>2, <2>3, <2>4
<1>7. CASE CheckStat
  BY <1>3, <1>7 DEF CheckStat
<1>8. ASSUME NEW m \in Months, CheckAndDoStat_day(m) PROVE SameValues \/ NoValues
  BY <1>3, <1>8 DEF CheckAndDoStat_day
<1>9. ASSUME NEW t \in Threads,
             DoStat_day_specday(t) \/ DoStat_day_all(t) \/ DoStat_month_all(t)
      PROVE  SameValues \/ NoValues
  <2>1. CASE DoStat_day_specday(t)
    BY <2>1 DEF DoStat_day_specday
  <2>2. CASE DoStat_day_all(t)
    BY <1>2, <2>2 DEF DoStat_day_all
  <2>3. CASE DoStat_month_all(t)
    BY <2>3 DEF DoStat_month_all, Ends
  <2> QED
    BY <1>9, <2>1, <2>2, <2>3
<1>10. CASE UNCHANGED vars
  BY <1>10 DEF vars
<1> QED
  BY <1>4, <1>5, <1>6, <1>7, <1>8, <1>9, <1>10 DEF Next

(* The time point of a sample is not before that of its own value, and a   *)
(* value of the same time point as the last sample has one already.        *)
LEMMA PointFacts ==
    ASSUME NEW t \in Time
    PROVE  /\ TransToTimePoint(t, FALSE).slot <= TransToTimePoint(t, TRUE).slot
           /\ TransToTimePoint(t, FALSE).slot \in Nat
           /\ \A b \in BOOLEAN : TransToTimePoint(t, b).day = t.day
<1>1. t.tick \in Nat
  BY DEF Time, Ticks
<1>2. t.tick \div 2 \in Nat
  BY <1>1
<1>3. /\ TransToTimePoint(t, FALSE).slot = t.tick \div 2
      /\ TransToTimePoint(t, TRUE).slot \in {t.tick \div 2, t.tick \div 2 + 1}
      /\ \A b \in BOOLEAN : TransToTimePoint(t, b).day = t.day
  BY DEF TransToTimePoint
<1>4. \A a \in Nat : \A b \in {a, a + 1} : a <= b
  OBVIOUS
<1>5. TransToTimePoint(t, FALSE).slot <= TransToTimePoint(t, TRUE).slot
  BY <1>2, <1>3, <1>4
<1> QED
  BY <1>2, <1>3, <1>5

LEMMA AnalyseTakes ==
    ASSUME TypeOK, PointsTaken, NEW o \in Objects, DataAnalyse(o)
    PROVE  PointsTaken'
<1>1. /\ now \in Time /\ heard \in [Objects -> SUBSET Time]
      /\ lastSave \in [Objects -> SUBSET Time]
  BY DEF TypeOK
<1>2. heard' = [heard EXCEPT ![o] = {now}]
  BY DEF DataAnalyse
<1> SUFFICES ASSUME NEW p \in Objects, NEW h \in heard'[p]
             PROVE  \E t \in lastSave'[p] :
                       /\ t.day = h.day
                       /\ TransToTimePoint(h, FALSE).slot <= TransToTimePoint(t, TRUE).slot
  BY DEF PointsTaken
<1>3. CASE p # o
  <2>1. heard'[p] = heard[p] /\ lastSave'[p] = lastSave[p]
    BY <1>1, <1>3 DEF DataAnalyse
  <2> QED
    BY <2>1 DEF PointsTaken
<1>4. CASE p = o
  <2>1. h = now
    BY <1>1, <1>2, <1>4
  <2>2. CASE lastSave' = [lastSave EXCEPT ![o] = {now}]
    <3>1. now \in lastSave'[p]
      BY <1>1, <1>4, <2>2
    <3> QED
      BY <1>1, <2>1, <3>1, PointFacts
  <2>3. CASE ~NewPoint(o) /\ UNCHANGED lastSave
    <3>1. PICK t \in lastSave[o] :
             TransToTimePoint(now, FALSE) = TransToTimePoint(t, TRUE)
      BY <2>3 DEF NewPoint
    <3>2. t \in Time /\ t.day = now.day
      <4>1. t \in Time
        BY <1>1
      <4>2. /\ TransToTimePoint(now, FALSE).day = now.day
            /\ TransToTimePoint(t, TRUE).day = t.day
        BY <1>1, <4>1, PointFacts
      <4> QED
        BY <3>1, <4>1, <4>2
    <3>3. TransToTimePoint(now, FALSE).slot <= TransToTimePoint(t, TRUE).slot
      <4>1. TransToTimePoint(now, FALSE).slot \in Nat
        BY <1>1, PointFacts
      <4>2. \A a \in Nat : \A b : a = b => a <= b
        OBVIOUS
      <4> QED
        BY <3>1, <4>1, <4>2
    <3> QED
      BY <1>4, <2>1, <2>3, <3>2, <3>3
  <2> QED
    BY <2>2, <2>3 DEF DataAnalyse
<1> QED
  BY <1>3, <1>4

(* Each half hour of a day in which an address had a value has a sample of *)
(* that day: the last value heard always has one at its time point or a    *)
(* later one.                                                              *)
THEOREM EveryPointTaken == Spec => []PointsTaken
<1>1. Init => PointsTaken
  BY DEF Init, PointsTaken
<1>2. TypeOK /\ PointsTaken /\ [Next]_vars => PointsTaken'
  <2> SUFFICES ASSUME TypeOK, PointsTaken, [Next]_vars PROVE PointsTaken'
    OBVIOUS
  <2>1. CASE SameValues
    BY <2>1 DEF SameValues, PointsTaken
  <2>2. CASE NoValues
    BY <2>2 DEF NoValues, PointsTaken
  <2> QED
    BY <2>1, <2>2, ValuesChange, AnalyseTakes
<1> QED
  BY <1>1, <1>2, TypeCorrect, PTL DEF Spec
=============================================================================
