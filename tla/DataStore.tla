----------------------------- MODULE DataStore -----------------------------
(***************************************************************************)
(* Sampling and storage, in GSIOTClient.cpp and DataStoreMgr.cpp. Threads  *)
(* of the links decide which values become samples and put them into a     *)
(* buffer; DataProc_Thread takes them from it in batches and writes each   *)
(* batch to the database of its month; at night it adds the statistics of  *)
(* the days that are over. The XMPP thread adds those statistics too, when *)
(* a report asks for them. Each month is a file of its own, written by     *)
(* both threads over one connection; the process may end at any time.      *)
(*                                                                         *)
(* Time goes in ticks: a day has slots of half an hour, each of them an    *)
(* early tick and one that stands for its last minute. Of a sample only    *)
(* its address and time are kept, of a statistic what it was made from.    *)
(***************************************************************************)
EXTENDS Integers, Sequences, FiniteSets

CONSTANTS
    Objects,       \* addresses whose values are stored
    LastDay,       \* bound: days 1 to LastDay of the calendar
    FirstTick,     \* bound: the tick of day 1 that time starts with
    Month,         \* the month of a day, counted as 12 * year + month - 1
    SlotsPerDay,   \* 48 slots of 1800 seconds
    StatTicks,     \* the ticks of a day from 01:10 to 02:55
    BufferMax,     \* 10000 samples wait at most
    BatchMax,      \* 50 of them are written at once
    QuietMidnight, \* no report is made at midnight, before all is stored
    MaxSamples,    \* bound: samples taken
    MaxStops       \* bound: how often the process ends

Days == 1 .. LastDay
Ticks == 0 .. (2 * SlotsPerDay - 1)
Months == {Month[d] : d \in Days}
Threads == {"saver", "report"}

ASSUME DataStoreAssumption ==
    /\ LastDay \in Nat \ {0} /\ SlotsPerDay \in Nat \ {0}
    /\ Month \in [Days -> Nat]
    /\ \A d \in Days, e \in Days : d <= e => Month[d] <= Month[e]
    /\ FirstTick \in Ticks
    /\ StatTicks \subseteq Ticks \ {0}
    /\ BufferMax \in Nat /\ BatchMax \in Nat \ {0}
    /\ QuietMidnight \in BOOLEAN
    /\ MaxSamples \in Nat /\ MaxStops \in Nat

VARIABLES
    now,       \* the day and tick
    up,        \* the process runs
    heard,     \* m_timecurValue of an address, a set of at most one time
    lastSave,  \* m_lastSaveTime of an address, likewise
    hand,      \* samples a thread of the links is about to put in the buffer
    buffer,    \* m_lstDataSaveBuf
    job,       \* what DataProc_Thread and the XMPP thread do with a database
    files,     \* months whose file exists
    disk,      \* the content of the files
    tx,        \* an open transaction of a database: whose, and its content
    taken,     \* number of samples taken
    stops      \* number of times the process ended

memory == <<heard, lastSave, hand, buffer>>
data == <<files, disk, tx>>
vars == <<now, up, memory, job, data, taken, stops>>

Time == [day : Days, tick : Ticks]
Sample == [obj : Objects, day : Days, tick : Ticks]
Stat == [obj : Objects, day : Days, of : SUBSET Sample]
Db == [rows : SUBSET Sample, stats : SUBSET Stat, days : SUBSET Days,
       month : BOOLEAN]

NewDb == [rows |-> {}, stats |-> {}, days |-> {}, month |-> FALSE]
NoTx == [by |-> "none", db |-> NewDb]
Idle == [pc |-> "idle", month |-> Month[1], todo |-> {}, batch |-> <<>>,
         monthly |-> FALSE]

Init ==
    /\ now = [day |-> 1, tick |-> FirstTick]
    /\ up = FALSE
    /\ heard = [o \in Objects |-> {}]
    /\ lastSave = [o \in Objects |-> {}]
    /\ hand = [o \in Objects |-> {}]
    /\ buffer = <<>>
    /\ job = [t \in Threads |-> Idle]
    /\ files = {}
    /\ disk = [m \in Months |-> NewDb]
    /\ tx = [m \in Months |-> NoTx]
    /\ taken = 0
    /\ stops = 0

-----------------------------------------------------------------------------
(* Starting and ending of the process.                                     *)

(* The process ends: what is only in memory is lost, open transactions are *)
(* rolled back by the database.                                            *)
Ends ==
    /\ up' = FALSE
    /\ stops' = stops + 1
    /\ heard' = [o \in Objects |-> {}]
    /\ lastSave' = [o \in Objects |-> {}]
    /\ hand' = [o \in Objects |-> {}]
    /\ buffer' = <<>>
    /\ job' = [t \in Threads |-> Idle]
    /\ tx' = [m \in Months |-> NoTx]
    /\ UNCHANGED <<now, files, disk, taken>>

Stop == up /\ stops < MaxStops /\ Ends

(* Fault: eleven months are added where ten are right. *)
RemoveDB_Eleven(m) ==
    LET year == m \div 12  month == (m % 12) + 1 IN
    IF month > 2 THEN 12 * year + (month - 2) - 1
    ELSE 12 * (year - 1) + (month + 11) - 1

(* The file of the month before the last is removed.                       *)
RemoveDB(m) ==
    LET year == m \div 12  month == (m % 12) + 1 IN
    IF month > 2 THEN 12 * year + (month - 2) - 1
    ELSE 12 * (year - 1) + (month + 10) - 1

(* CheckCreateDB: at its start the process makes the file of this month.   *)
Start ==
    LET m == Month[now.day] IN
    /\ ~up
    /\ up' = TRUE
    /\ files' = (files \cup {m}) \ {RemoveDB(m)}
    /\ disk' = [k \in Months |-> IF k = RemoveDB(m) THEN NewDb ELSE disk[k]]
    /\ UNCHANGED <<now, memory, job, tx, taken, stops>>

-----------------------------------------------------------------------------
(* The threads of the links.                                               *)

(* Fault: the last minute of a day counts for the next day. *)
TransToTimePoint_AnyDay(t, isSave) ==
    IF isSave /\ t.tick % 2 = 1
    THEN IF t.tick \div 2 < SlotsPerDay - 1
         THEN [day |-> t.day, slot |-> t.tick \div 2 + 1]
         ELSE [day |-> t.day + 1, slot |-> 0]
    ELSE [day |-> t.day, slot |-> t.tick \div 2]

(* The time point of a time. A value stored in the last minute of a slot   *)
(* is that of the next slot, within the day.                               *)
TransToTimePoint(t, isSave) ==
    [day |-> t.day,
     slot |-> IF isSave /\ t.tick % 2 = 1 /\ t.tick \div 2 < SlotsPerDay - 1
              THEN t.tick \div 2 + 1 ELSE t.tick \div 2]

(* The value of an address is stored unless its time point has one and it  *)
(* has changed little; that it has is left open.                           *)
NewPoint(o) ==
    \A t \in lastSave[o] :
        TransToTimePoint(now, FALSE) # TransToTimePoint(t, TRUE)

SampleNow(o) == [obj |-> o, day |-> now.day, tick |-> now.tick]

DataAnalyse(o) ==
    /\ up
    /\ hand[o] = {}
    /\ heard' = [heard EXCEPT ![o] = {now}]
    /\ \/ /\ taken < MaxSamples
          /\ taken' = taken + 1
          /\ lastSave' = [lastSave EXCEPT ![o] = {now}]
          /\ hand' = [hand EXCEPT ![o] = {SampleNow(o)}]
       \/ /\ ~NewPoint(o)
          /\ UNCHANGED <<taken, lastSave, hand>>
    /\ UNCHANGED <<now, up, buffer, job, data, stops>>

(* Fault: one sample too many is put in. *)
Queued_OneMore(s) ==
    buffer' = IF Len(buffer) <= BufferMax THEN Append(buffer, s) ELSE buffer

Queued(s) ==
    buffer' = IF Len(buffer) < BufferMax THEN Append(buffer, s) ELSE buffer

(* The sample goes into the buffer, or is lost because that is full.       *)
Push(o) ==
    /\ \E s \in hand[o] : Queued(s)
    /\ hand' = [hand EXCEPT ![o] = {}]
    /\ UNCHANGED <<now, up, heard, lastSave, job, data, taken, stops>>

-----------------------------------------------------------------------------
(* Databases.                                                              *)

Free(m) == tx[m].by = "none"

(* What a thread sees in a database.                                       *)
View(m) == IF Free(m) THEN disk[m] ELSE tx[m].db

Write(m, db) == tx' = [tx EXCEPT ![m].db = db]

(* The database is found or made, and a transaction begins. Within another *)
(* one, which is of the other thread, this throws what nobody catches, and *)
(* the process ends.                                                       *)
Begin(t, m, then) ==
    \/ /\ Free(m)
       /\ tx' = [tx EXCEPT ![m] = [by |-> t, db |-> disk[m]]]
       /\ job' = [job EXCEPT ![t] = then]
       /\ files' = files \cup {m}
       /\ UNCHANGED <<now, up, memory, disk, taken, stops>>
    \/ ~Free(m) /\ stops < MaxStops /\ Ends

Commit(t, m, then) ==
    /\ disk' = [disk EXCEPT ![m] = tx[m].db]
    /\ tx' = [tx EXCEPT ![m] = NoTx]
    /\ job' = [job EXCEPT ![t] = then]
    /\ UNCHANGED <<now, up, memory, files, taken, stops>>

-----------------------------------------------------------------------------
(* DataProc_Thread.                                                        *)

(* An address that has been unreachable for a while gets an invalid value; *)
(* the counter that says when, m_mapCheckInvalid, is left out.             *)
DataProc(o) ==
    /\ up
    /\ job["saver"].pc = "idle"
    /\ taken < MaxSamples
    /\ taken' = taken + 1
    /\ Queued(SampleNow(o))
    /\ UNCHANGED <<now, up, heard, lastSave, hand, job, data, stops>>

(* Fault: a batch may run into the next month. *)
DataSaveBuf_Pop_AnyMonth(n) == n \in 1 .. Len(buffer) /\ n <= BatchMax

(* A batch is the first samples of the buffer as far as they are of one    *)
(* month, and no more than BatchMax.                                       *)
DataSaveBuf_Pop(n) ==
    /\ n \in 1 .. Len(buffer)
    /\ n <= BatchMax
    /\ \A i \in 1 .. n : Month[buffer[i].day] = Month[buffer[1].day]
    /\ n < BatchMax /\ n < Len(buffer) =>
         Month[buffer[n + 1].day] # Month[buffer[1].day]

DataSave ==
    /\ up
    /\ job["saver"].pc = "idle"
    /\ \E n \in 1 .. Len(buffer) :
         /\ DataSaveBuf_Pop(n)
         /\ buffer' = SubSeq(buffer, n + 1, Len(buffer))
         /\ job' = [job EXCEPT !["saver"] =
                [pc |-> "save", month |-> Month[buffer[1].day], todo |-> {},
                 batch |-> SubSeq(buffer, 1, n), monthly |-> FALSE]]
    /\ UNCHANGED <<now, up, heard, lastSave, hand, data, taken, stops>>

(* The transaction of a batch, or the file cannot be opened, and the batch *)
(* is lost.                                                                *)
InsertBegin ==
    /\ job["saver"].pc = "save"
    /\ \/ Begin("saver", job["saver"].month, [job["saver"] EXCEPT !.pc = "insert"])
       \/ /\ job' = [job EXCEPT !["saver"] = Idle]
          /\ UNCHANGED <<now, up, memory, data, taken, stops>>

(* One sample is inserted.                                                 *)
InsertOne ==
    LET j == job["saver"] IN
    /\ j.pc = "insert"
    /\ j.batch # <<>>
    /\ Write(j.month, [tx[j.month].db EXCEPT !.rows = @ \cup {Head(j.batch)}])
    /\ job' = [job EXCEPT !["saver"].batch = Tail(@)]
    /\ UNCHANGED <<now, up, memory, files, disk, taken, stops>>

(* All are, or one fails: what is there is committed, the rest is lost.    *)
InsertEnd ==
    /\ job["saver"].pc = "insert"
    /\ Commit("saver", job["saver"].month, Idle)

-----------------------------------------------------------------------------
(* Statistics, by either thread.                                           *)

(* A thread makes the statistics of some days, if they are still missing,  *)
(* and then perhaps those of the month.                                    *)
DoStat(t, m, days, monthly) ==
    LET todo == days \ View(m).days
        then == [pc |-> IF todo = {} THEN "month" ELSE "days", month |-> m,
                 todo |-> todo, batch |-> <<>>, monthly |-> monthly]
    IN  \/ todo # {} /\ Begin(t, m, then)
        \/ /\ todo = {} /\ monthly
           /\ job' = [job EXCEPT ![t] = then]
           /\ UNCHANGED <<now, up, memory, data, taken, stops>>

MonthDays(m) == {d \in Days : Month[d] = m}

(* In the small hours DataProc_Thread asks for the statistics of the days  *)
(* of this month before today, and on the first of a month for all of the  *)
(* last month.                                                             *)
CheckStat ==
    LET prev == now.day - 1  m == Month[prev] IN
    /\ up
    /\ job["saver"].pc = "idle"
    /\ now.tick \in StatTicks
    /\ prev \in Days
    /\ m \in files
    /\ IF Month[now.day] # m
       THEN DoStat("saver", m, MonthDays(m), TRUE)
       ELSE /\ prev \notin View(m).days
            /\ DoStat("saver", m, {d \in MonthDays(m) : d <= prev}, FALSE)

(* The number of a day in its month.                                       *)
DayNo(d) == Cardinality({e \in MonthDays(Month[d]) : e <= d})

(* A report asks for the statistics of a month: of all of its days, or of  *)
(* those with the numbers up to that of yesterday if it is this month.     *)
CheckAndDoStat_day(m) ==
    LET prev == now.day - 1 IN
    /\ up
    /\ job["report"].pc = "idle"
    /\ QuietMidnight => now.tick # 0
    /\ m \in files
    /\ prev \in Days
    /\ DoStat("report", m,
              {d \in MonthDays(m) : m = Month[now.day] => DayNo(d) <= DayNo(prev)},
              TRUE)

(* Fault: today counts as over. *)
isCan_DoStat_day_Today(m, d) == m = Month[now.day] => d <= now.day

(* Only days before today have statistics.                                 *)
isCan_DoStat_day(m, d) == m = Month[now.day] => d < now.day

isCan_DoStat_month(m) == m # Month[now.day]

SamplesOf(db, o, d) == {s \in db.rows : s.obj = o /\ s.day = d}

(* The statistics of a day: of each address with samples, unless they are  *)
(* there, and then the mark that they are complete.                        *)
WithDay(db, d) ==
    LET new == {o \in Objects : /\ SamplesOf(db, o, d) # {}
                                /\ \A r \in db.stats : r.obj # o \/ r.day # d}
    IN  [db EXCEPT
          !.stats = @ \cup {[obj |-> o, day |-> d, of |-> SamplesOf(db, o, d)] :
                               o \in new},
          !.days = @ \cup {d}]

(* The next day, unless it is not over or its samples cannot be read.      *)
DoStat_day_specday(t) ==
    LET j == job[t]  db == tx[j.month].db IN
    /\ j.pc = "days"
    /\ \E d \in j.todo :
         /\ \A e \in j.todo : d <= e
         /\ \/ isCan_DoStat_day(j.month, d) /\ Write(j.month, WithDay(db, d))
            \/ UNCHANGED tx
         /\ job' = [job EXCEPT ![t].todo = @ \ {d}]
    /\ UNCHANGED <<now, up, memory, files, disk, taken, stops>>

DoStat_day_all(t) ==
    LET j == job[t] IN
    /\ j.pc = "days"
    /\ j.todo = {}
    /\ Commit(t, j.month, IF j.monthly THEN [j EXCEPT !.pc = "month"] ELSE Idle)

(* The statistics of the month from those of its days, in a transaction of *)
(* their own. Nobody sees it unfinished.                                   *)
DoStat_month_all(t) ==
    LET m == job[t].month IN
    /\ job[t].pc = "month"
    /\ \/ /\ Free(m) /\ isCan_DoStat_month(m)
          /\ disk' = [disk EXCEPT ![m].month = TRUE]
          /\ job' = [job EXCEPT ![t] = Idle]
          /\ UNCHANGED <<now, up, memory, files, tx, taken, stops>>
       \/ /\ ~isCan_DoStat_month(m) \/ View(m).month
          /\ job' = [job EXCEPT ![t] = Idle]
          /\ UNCHANGED <<now, up, memory, data, taken, stops>>
       \/ /\ ~Free(m) /\ isCan_DoStat_month(m) /\ ~View(m).month
          /\ stops < MaxStops
          /\ Ends

-----------------------------------------------------------------------------
(* Time. A sample does not wait for longer than a tick, which is a minute  *)
(* or more: all threads are busy with less.                                *)
Pending ==
    (UNION {hand[o] : o \in Objects})
      \cup {buffer[i] : i \in DOMAIN buffer}
      \cup {job["saver"].batch[i] : i \in DOMAIN job["saver"].batch}

Present(s) == s.day = now.day /\ s.tick = now.tick

Tick ==
    /\ \A s \in Pending : Present(s)
    /\ \/ /\ now.tick + 1 \in Ticks
          /\ now' = [now EXCEPT !.tick = @ + 1]
       \/ /\ now.tick + 1 \notin Ticks
          /\ now.day + 1 \in Days
          /\ QuietMidnight => job["report"].pc = "idle"
          /\ now' = [day |-> now.day + 1, tick |-> 0]
    /\ UNCHANGED <<up, memory, job, data, taken, stops>>

Next ==
    \/ Start \/ Stop \/ Tick
    \/ \E o \in Objects : DataAnalyse(o) \/ Push(o) \/ DataProc(o)
    \/ DataSave \/ InsertBegin \/ InsertOne \/ InsertEnd
    \/ CheckStat \/ \E m \in Months : CheckAndDoStat_day(m)
    \/ \E t \in Threads :
         DoStat_day_specday(t) \/ DoStat_day_all(t) \/ DoStat_month_all(t)

Spec == Init /\ [][Next]_vars

-----------------------------------------------------------------------------
JobType ==
    [pc : {"idle", "save", "insert", "days", "month"}, month : Months,
     todo : SUBSET Days, batch : Seq(Sample), monthly : BOOLEAN]

(* The type invariant. The buffer stays within its limit; a transaction is *)
(* open while the thread that has begun it inserts or makes statistics of  *)
(* days, and only DataProc_Thread inserts.                                 *)
TypeOK ==
    /\ now \in Time
    /\ up \in BOOLEAN
    /\ heard \in [Objects -> SUBSET Time]
    /\ lastSave \in [Objects -> SUBSET Time]
    /\ hand \in [Objects -> SUBSET Sample]
    /\ buffer \in Seq(Sample) /\ Len(buffer) <= BufferMax
    /\ job \in [Threads -> JobType]
    /\ job["report"].pc \notin {"save", "insert"}
    /\ files \subseteq Months
    /\ disk \in [Months -> Db]
    /\ tx \in [Months -> [by : Threads \cup {"none"}, db : Db]]
    /\ \A m \in Months, t \in Threads :
         tx[m].by = t <=> job[t].pc \in {"insert", "days"} /\ job[t].month = m
    /\ taken \in Nat
    /\ stops \in Nat

(* A sample is only in the database of its own month, which is where       *)
(* reports look for it: batches, which go to the database of their first   *)
(* sample, do not run over the end of a month, though samples of both      *)
(* months wait in the buffer, perhaps not even in the order of time.       *)
RightMonth ==
    \A m \in Months : \A s \in disk[m].rows : Month[s.day] = m

(* What the statistics say is final. A day marked as complete is over, and *)
(* its statistics count every sample stored of that day, now and later; a  *)
(* month with statistics is over. Neither a sample that comes late nor a   *)
(* process that ends between two steps changes that. (It takes             *)
(* QuietMidnight: a report at midnight marks yesterday while samples of    *)
(* yesterday are still in the buffer.)                                     *)
StatsFinal ==
    \A m \in Months :
        /\ disk[m].month => m < Month[now.day]
        /\ \A d \in disk[m].days :
             /\ d < now.day
             /\ \A o \in Objects :
                  SamplesOf(disk[m], o, d) # {} =>
                      [obj |-> o, day |-> d, of |-> SamplesOf(disk[m], o, d)]
                          \in disk[m].stats

(* Whenever an address had a value, the time point of that value has a     *)
(* sample taken on the same day, on which the statistics of that day rely: *)
(* the rule that lets the last minute count for the next slot does not     *)
(* leave the first slot of a day without one.                              *)
PointsTaken ==
    \A o \in Objects : \A h \in heard[o] : \E t \in lastSave[o] :
        /\ t.day = h.day
        /\ TransToTimePoint(h, FALSE).slot <= TransToTimePoint(t, TRUE).slot

(* What is stored of this month and the last one is never removed, over    *)
(* the end of a year neither, and however often the process starts.        *)
KeptRecent ==
    [][\A m \in files : m >= Month[now.day] - 1 =>
           m \in files' /\ disk[m].rows \subseteq disk'[m].rows]_vars

=============================================================================
