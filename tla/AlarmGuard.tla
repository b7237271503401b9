----------------------------- MODULE AlarmGuard -----------------------------
(***************************************************************************)
(* Triggers and their events, in TriggerControl.cpp, GSIOTClient.cpp and   *)
(* GSIOTEvent.cpp. A radio signal that the thread of a link hears counts   *)
(* for its trigger; enough of them within a window raise an alarm, whose   *)
(* events the thread runs one by one, and then the trigger rests for an    *)
(* interval. Most events run only while the trigger and the box are armed; *)
(* an event may itself arm or disarm them. The XMPP thread adds, edits and *)
(* deletes events, arms and disarms, and deletes triggers. Events and what *)
(* is armed are kept in memory and in the database, and reloaded when the  *)
(* process starts.                                                         *)
(*                                                                         *)
(* What an event does, other than arming, is left out: it is a message or  *)
(* a command that is sent.                                                 *)
(***************************************************************************)
EXTENDS Integers, Sequences, FiniteSets

CONSTANTS
    Links,       \* links whose threads hear signals
    Triggers,    \* triggers, devices with a radio signal
    Hears,       \* the triggers whose signals a link hears
    Needed,      \* signal_count of a trigger
    Events,      \* identifiers of events, never used twice
    TriggerOf,   \* the trigger of an event
    Does,        \* what an event arms or disarms, a set of at most one change
    Levels,      \* levels of events
    AllDevices,  \* stands for SYS_AlarmGuardGlobalFlag among what is armed
    Asked,       \* bound: what requests say about events
    OldRows,     \* the events that the database has at first
    Interval,    \* SYS_TriggerAlarmInterval, 120000 ms
    Window,      \* signals count together for 9000 ms
    Wrap,        \* timeGetTime counts milliseconds modulo 2^32
    FirstTick,   \* bound: the tick time starts with
    LastTick,    \* bound: the last tick
    MaxSignals,  \* bound: signals heard
    MaxChanges,  \* bound: requests over XMPP
    MaxStops     \* bound: how often the process ends

Targets == Triggers \cup {AllDevices}
Changes == [what : Targets, to : BOOLEAN]
Attr == [on : BOOLEAN, level : Levels, force : BOOLEAN]
Threads == Links \cup {"xmpp"}

ASSUME AlarmGuardAssumption ==
    /\ Triggers # {}
    /\ AllDevices \notin Triggers /\ "xmpp" \notin Links
    /\ Hears \in [Links -> SUBSET Triggers]
    /\ Needed \in [Triggers -> Nat \ {0}]
    /\ IsFiniteSet(Events)
    /\ TriggerOf \in [Events -> Triggers]
    /\ Does \in [Events -> SUBSET Changes]
    /\ Levels \subseteq Int /\ Levels # {}
    /\ Asked \subseteq Attr
    /\ OldRows \in [Events -> SUBSET Attr]
    /\ \A e \in Events : \A a, b \in OldRows[e] : a = b
    /\ Window \in Nat /\ Interval \in Nat /\ Wrap \in Nat
    /\ 1 < Window /\ Window <= Interval /\ Interval < Wrap
    /\ FirstTick \in Nat /\ LastTick \in Nat
    /\ LastTick - FirstTick + Window < Wrap
    /\ MaxSignals \in Nat /\ MaxChanges \in Nat /\ MaxStops \in Nat

VARIABLES
    clock,    \* milliseconds since the system started
    up,       \* the process runs
    trig,     \* m_lastTimeTick_RecvStart, m_cur_trigger_count and
              \*   m_lastTimeTick_Do of a trigger
    armed,    \* m_AGRunState of a trigger, and SYS_AlarmGuardGlobalFlag
    list,     \* m_event
    attr,     \* level, m_enable and m_isForce of an event in memory
    rows,     \* rows of the event tables, a set of at most one for an event
    state,    \* column runstate of a trigger
    code,     \* rows of the table code for SYS_AlarmGuardGlobalFlag
    devs,     \* triggers that are not deleted, in memory and database
    made,     \* identifiers used so far
    work,     \* what the thread of a link is doing
    xmpp,     \* what the XMPP thread is doing
    save,     \* what a thread is saving in the database
    last,     \* when the last alarm of a trigger began or ended, a set of at
              \*   most one tick
    signals,  \* signals of a trigger heard since its last alarm began
    crossed,  \* what two threads have been saving at the same time
    heard,    \* number of signals
    changes,  \* number of requests over XMPP
    stops     \* number of times the process ended

memory == <<trig, armed, list, attr>>
db == <<rows, state, code, devs, made>>
threads == <<work, xmpp, save>>
ghosts == <<last, signals, crossed>>
bounded == <<heard, changes, stops>>
vars == <<clock, up, memory, db, threads, ghosts, bounded>>

Unheard == [start |-> 0, count |-> 0, did |-> 0]
NoAttr == [on |-> TRUE, level |-> CHOOSE n \in Levels : TRUE, force |-> FALSE]
Resting == [pc |-> "idle", trig |-> CHOOSE t \in Triggers : TRUE,
            seen |-> Unheard, go |-> FALSE, torn |-> FALSE, rest |-> <<>>,
            ran |-> {}, refused |-> {}]
Free == [pc |-> "idle", ev |-> {}, dev |-> {}]
NoSave == [pc |-> "none", what |-> AllDevices, has |-> FALSE, val |-> FALSE]

Init ==
    /\ clock = FirstTick
    /\ up = FALSE
    /\ trig = [t \in Triggers |-> Unheard]
    /\ armed = [x \in Targets |-> TRUE]
    /\ list = <<>>
    /\ attr = [e \in Events |-> NoAttr]
    /\ rows = OldRows
    /\ state = [t \in Triggers |-> TRUE]
    /\ code = <<>>
    /\ devs = Triggers
    /\ made = {e \in Events : OldRows[e] # {}}
    /\ work = [l \in Links |-> Resting]
    /\ xmpp = Free
    /\ save = [p \in Threads |-> NoSave]
    /\ last = [t \in Triggers |-> {}]
    /\ signals = [t \in Triggers |-> 0]
    /\ crossed = {}
    /\ heard = 0 /\ changes = 0 /\ stops = 0

(* Time passes; no thread takes as long as that between the counting of a  *)
(* signal and the check, where it waits for nothing.                       *)
Tick ==
    /\ clock < LastTick
    /\ \A l \in Links : work[l].pc \notin {"count", "check"}
    /\ clock' = clock + 1
    /\ UNCHANGED <<up, memory, db, threads, ghosts, bounded>>

-----------------------------------------------------------------------------
(* Starting and ending of the process.                                     *)

Elements(s) == {s[i] : i \in DOMAIN s}

(* The orders in which a list can hold some events. *)
Orders(S) == {s \in [1 .. Cardinality(S) -> S] : Elements(s) = S}

ByLevel(s, a) ==
    \A i, j \in DOMAIN s : i < j => a[s[i]].level >= a[s[j]].level

(* What a start of the process would take from the database as armed: of   *)
(* several rows for the flag the last one counts, and without one it is on.*)
Stored(x) ==
    IF x # AllDevices THEN state[x]
    ELSE IF code = <<>> THEN TRUE ELSE code[Len(code)]

Start ==
    /\ ~up
    /\ up' = TRUE
    /\ trig' = [t \in Triggers |-> Unheard]
    /\ armed' = [x \in Targets |-> Stored(x)]
    /\ attr' = [e \in Events |-> IF rows[e] = {} THEN NoAttr
                                 ELSE CHOOSE a \in rows[e] : TRUE]
    /\ list' \in {s \in Orders({e \in Events : rows[e] # {}}) : ByLevel(s, attr')}
    /\ UNCHANGED <<clock, db, threads, ghosts, bounded>>

(* The process ends, at any time; so it may where a thread uses an event   *)
(* or a trigger that another has freed.                                    *)
Stop ==
    /\ up
    /\ stops < MaxStops
    /\ up' = FALSE
    /\ stops' = stops + 1
    /\ trig' = [t \in Triggers |-> Unheard]
    /\ armed' = [x \in Targets |-> TRUE]
    /\ list' = <<>>
    /\ attr' = [e \in Events |-> NoAttr]
    /\ work' = [l \in Links |-> Resting]
    /\ xmpp' = Free
    /\ save' = [p \in Threads |-> NoSave]
    /\ last' = [t \in Triggers |-> {}]
    /\ signals' = [t \in Triggers |-> 0]
    /\ UNCHANGED <<clock, db, crossed, heard, changes>>

-----------------------------------------------------------------------------
(* What is armed, and the saving of it by any thread.                      *)

Saving(p, x) == save[p].pc # "none" /\ save[p].what = x

(* Fault: what was armed before is saved. *)
Change_SavedFirst(p, x, v) ==
    /\ armed' = [armed EXCEPT ![x] = v]
    /\ save' = [save EXCEPT ![p] =
          [pc |-> IF x = AllDevices THEN "find" ELSE "write", what |-> x,
           has |-> FALSE, val |-> armed[x]]]
    /\ crossed' = IF \E q \in Threads \ {p} : Saving(q, x)
                  THEN crossed \cup {x} ELSE crossed

(* SetCodeAndSaveDb, or SetAGRunState and ModifyDevice: a value is set in  *)
(* memory, and then saved.                                                 *)
Change(p, x, v) ==
    /\ armed' = [armed EXCEPT ![x] = v]
    /\ save' = [save EXCEPT ![p] =
          [pc |-> IF x = AllDevices THEN "find" ELSE "read", what |-> x,
           has |-> FALSE, val |-> FALSE]]
    /\ crossed' = IF \E q \in Threads \ {p} : Saving(q, x)
                  THEN crossed \cup {x} ELSE crossed

(* SaveDB_code looks whether there is a row for the flag.                  *)
SaveDB_find(p) ==
    /\ save[p].pc = "find"
    /\ save' = [save EXCEPT ![p].pc = "read", ![p].has = code # <<>>]
    /\ UNCHANGED <<clock, up, memory, db, work, xmpp, ghosts, bounded>>

(* The value goes from memory into the statement.                          *)
SaveDB_read(p) ==
    /\ save[p].pc = "read"
    /\ save' = [save EXCEPT ![p].pc = "write", ![p].val = armed[save[p].what]]
    /\ UNCHANGED <<clock, up, memory, db, work, xmpp, ghosts, bounded>>

(* The statement is executed: the first row for the flag is updated, or    *)
(* one inserted; the trigger is updated.                                   *)
SaveDB_write(p) ==
    LET s == save[p] IN
    /\ s.pc = "write"
    /\ IF s.what = AllDevices
       THEN /\ code' = IF s.has THEN [code EXCEPT ![1] = s.val]
                       ELSE Append(code, s.val)
            /\ UNCHANGED state
       ELSE /\ state' = IF s.what \in devs
                        THEN [state EXCEPT ![s.what] = s.val] ELSE state
            /\ UNCHANGED code
    /\ save' = [save EXCEPT ![p] = NoSave]
    /\ UNCHANGED <<clock, up, memory, rows, devs, made, work, xmpp, ghosts,
                   bounded>>

-----------------------------------------------------------------------------
(* The threads of the links: counting of signals.                          *)

(* Fault: the time is wider than the fields that keep it. *)
timeGetTime_Wide == clock

timeGetTime == clock % Wrap

(* The difference of two times, as unsigned integers of the width.         *)
Since(tick) == (timeGetTime - tick) % Wrap

Step(l, w) == work' = [work EXCEPT ![l] = w]

(* Fault: the count goes on when a new window begins. *)
CompareTick_GoesOn(t) ==
    IF Since(trig[t].start) < Window
    THEN [trig[t] EXCEPT !.count = @ + 1]
    ELSE [trig[t] EXCEPT !.start = timeGetTime, !.count = @ + 1]

CompareTick(t) ==
    IF Since(trig[t].start) < Window
    THEN [trig[t] EXCEPT !.count = @ + 1]
    ELSE [trig[t] EXCEPT !.start = timeGetTime, !.count = 1]

(* A signal is heard. The mutex of the trigger is locked by a temporary    *)
(* guard, which unlocks it at once: what CompareTick has read may be old   *)
(* when it writes.                                                         *)
OnDeviceData_RFSignal(l, t) ==
    /\ up
    /\ work[l].pc = "idle"
    /\ t \in Hears[l] \cap devs
    /\ heard < MaxSignals
    /\ heard' = heard + 1
    /\ signals' = [signals EXCEPT ![t] = @ + 1]
    /\ Step(l, [Resting EXCEPT !.pc = "count", !.trig = t, !.seen = CompareTick(t)])
    /\ UNCHANGED <<clock, up, memory, db, xmpp, save, last, crossed, changes,
                   stops>>

CountSignal(l) ==
    LET t == work[l].trig  seen == work[l].seen IN
    /\ work[l].pc = "count"
    /\ trig' = [trig EXCEPT ![t].start = seen.start, ![t].count = seen.count]
    /\ Step(l, [work[l] EXCEPT !.pc = "check", !.seen = Unheard])
    /\ UNCHANGED <<clock, up, armed, list, attr, db, xmpp, save, ghosts, bounded>>

(* Enough signals have come, and the interval since the last alarm is over.*)
IsTrigger(t) ==
    /\ trig[t].did # 0 => Since(trig[t].did) >= Interval
    /\ trig[t].count >= Needed[t]

CheckTrigger(l) ==
    LET t == work[l].trig IN
    /\ work[l].pc = "check"
    /\ IF IsTrigger(t)
       THEN /\ Step(l, [work[l] EXCEPT !.pc = "mark"])
            /\ last' = [last EXCEPT ![t] = {clock}]
            /\ signals' = [signals EXCEPT ![t] = 0]
       ELSE Step(l, Resting) /\ UNCHANGED <<last, signals>>
    /\ UNCHANGED <<clock, up, memory, db, xmpp, save, crossed, bounded>>

(* Fault: the time may be 0, which means never. *)
SetTriggerDo_Zero(t) == trig' = [trig EXCEPT ![t].did = timeGetTime]

SetTriggerDo(t) ==
    trig' = [trig EXCEPT ![t].did = IF timeGetTime = 0 THEN 1 ELSE timeGetTime]

-----------------------------------------------------------------------------
(* The threads of the links: an alarm.                                     *)

(* The alarm is marked, and it is asked whether the box is armed and       *)
(* whether alarms are valid at this time of day; that is left open.        *)
BeginAlarm(l) ==
    /\ work[l].pc = "mark"
    /\ SetTriggerDo(work[l].trig)
    /\ \E valid \in BOOLEAN :
         Step(l, [work[l] EXCEPT !.pc = "alarm",
                                 !.go = valid /\ armed[AllDevices]])
    /\ UNCHANGED <<clock, up, armed, list, attr, db, xmpp, save, ghosts, bounded>>

(* It is asked whether the trigger is armed, and the list is copied. If    *)
(* the XMPP thread is changing the list, the copy may lack events.         *)
CopyEvents(l) ==
    LET w == work[l] IN
    /\ w.pc = "alarm"
    /\ Step(l, [w EXCEPT !.pc = "run", !.go = @ /\ armed[w.trig], !.rest = list,
                         !.torn = xmpp.pc \in {"insert", "sort", "remove"}])
    /\ UNCHANGED <<clock, up, memory, db, xmpp, save, ghosts, bounded>>

Running(l) == work[l].pc = "run" /\ save[l].pc = "none" /\ work[l].rest # <<>>

(* An event that another thread has freed may look like any other.         *)
Freed(e) == e \notin Elements(list)

Mine(l, e) == TriggerOf[e] = work[l].trig /\ attr[e].on

(* Fault: whether the box is armed is asked again for each event. *)
Allowed_AskedAgain(l, e) ==
    attr[e].force \/ (work[l].go /\ armed[AllDevices])

Allowed(l, e) == attr[e].force \/ work[l].go

(* The event is run. It may arm or disarm; what else it does is left out.  *)
DoControlEvent(l) ==
    LET w == work[l]  e == Head(w.rest) IN
    /\ Running(l)
    /\ Freed(e) \/ (Mine(l, e) /\ Allowed(l, e))
    /\ Step(l, [w EXCEPT !.rest = Tail(@),
                         !.ran = IF Freed(e) \/ attr[e].force THEN @ ELSE @ \cup {e}])
    /\ IF \E c \in Does[e] : c.what \in devs \cup {AllDevices}
       THEN \E c \in Does[e] : Change(l, c.what, c.to)
       ELSE UNCHANGED <<armed, save, crossed>>
    /\ UNCHANGED <<clock, up, trig, list, attr, db, xmpp, last, signals, bounded>>

(* The event is not run: it is another trigger's, is disabled or not       *)
(* allowed; or it is missing from the copy, or its trigger has been freed. *)
SkipEvent(l) ==
    LET w == work[l]  e == Head(w.rest) IN
    /\ Running(l)
    /\ \/ Freed(e) \/ w.torn \/ w.trig \notin devs
       \/ ~(Mine(l, e) /\ Allowed(l, e))
    /\ Step(l, [w EXCEPT !.rest = Tail(@),
                         !.refused = IF ~Freed(e) /\ Mine(l, e) /\ ~Allowed(l, e)
                                     THEN @ \cup {e} ELSE @])
    /\ UNCHANGED <<clock, up, memory, db, xmpp, save, ghosts, bounded>>

(* The interval counts from the end of an alarm.                           *)
EndAlarm(l) ==
    LET t == work[l].trig IN
    /\ work[l].pc = "run"
    /\ save[l].pc = "none"
    /\ work[l].rest = <<>>
    /\ SetTriggerDo(t)
    /\ last' = [last EXCEPT ![t] = {clock}]
    /\ Step(l, Resting)
    /\ UNCHANGED <<clock, up, armed, list, attr, db, xmpp, save, signals, crossed,
                   bounded>>

-----------------------------------------------------------------------------
(* Requests over XMPP, each of one change.                                 *)

Request ==
    /\ up
    /\ xmpp.pc = "idle" /\ save["xmpp"].pc = "none"
    /\ changes < MaxChanges
    /\ changes' = changes + 1

(* handleIq_Set_XmppGSState, or the state in a request about events.       *)
SetState(x, v) ==
    /\ Request
    /\ x \in devs \cup {AllDevices}
    /\ Change("xmpp", x, v)
    /\ UNCHANGED <<clock, up, trig, list, attr, db, work, xmpp, last, signals,
                   heard, stops>>

(* A new event enters the list.                                            *)
AddEvent(e, a) ==
    /\ Request
    /\ e \notin made
    /\ list' = Append(list, e)
    /\ attr' = [attr EXCEPT ![e] = a]
    /\ made' = made \cup {e}
    /\ xmpp' = [pc |-> "insert", ev |-> {e}, dev |-> {}]
    /\ UNCHANGED <<clock, up, trig, armed, rows, state, code, devs, work, save,
                   ghosts, heard, stops>>

(* Its row is inserted.                                                    *)
SaveToDb(e) ==
    /\ xmpp.pc = "insert"
    /\ e \in xmpp.ev
    /\ rows' = [rows EXCEPT ![e] = {attr[e]}]
    /\ xmpp' = [xmpp EXCEPT !.pc = "sort"]
    /\ UNCHANGED <<clock, up, memory, state, code, devs, made, work, save, ghosts,
                   bounded>>

SortEvents ==
    /\ xmpp.pc = "sort"
    /\ list' \in {s \in Orders(Elements(list)) : ByLevel(s, attr)}
    /\ xmpp' = Free
    /\ UNCHANGED <<clock, up, trig, armed, attr, db, work, save, ghosts, bounded>>

(* An event is enabled or disabled, or is left as it is, in memory.        *)
edit_ControlEvent(e, on) ==
    /\ Request
    /\ e \in Elements(list)
    /\ attr' = [attr EXCEPT ![e].on = on]
    /\ xmpp' = [pc |-> "modify", ev |-> {e}, dev |-> {}]
    /\ UNCHANGED <<clock, up, trig, armed, list, db, work, save, ghosts, heard,
                   stops>>

(* The row gets what the request says, which may be something else.        *)
ModifyEvent(e, a) ==
    /\ xmpp.pc = "modify"
    /\ e \in xmpp.ev
    /\ rows' = [rows EXCEPT ![e] = IF @ = {} THEN {} ELSE {a}]
    /\ xmpp' = [xmpp EXCEPT !.pc = "sort"]
    /\ UNCHANGED <<clock, up, memory, state, code, devs, made, work, save, ghosts,
                   bounded>>

(* Fault: an event is deleted from the list only. *)
DeleteEvent_ListOnly(e) ==
    /\ Request
    /\ e \in Elements(list)
    /\ xmpp' = [pc |-> "remove", ev |-> {e}, dev |-> {}]
    /\ UNCHANGED <<clock, up, memory, db, work, save, ghosts, heard, stops>>

(* The row of an event is deleted, and then the event.                     *)
DeleteEvent(e) ==
    /\ Request
    /\ e \in Elements(list)
    /\ rows' = [rows EXCEPT ![e] = {}]
    /\ xmpp' = [pc |-> "remove", ev |-> {e}, dev |-> {}]
    /\ UNCHANGED <<clock, up, memory, state, code, devs, made, work, save, ghosts,
                   heard, stops>>

RemoveEvent(i) ==
    /\ xmpp.pc = "remove"
    /\ list[i] \in xmpp.ev
    /\ list' = SubSeq(list, 1, i - 1) \o SubSeq(list, i + 1, Len(list))
    /\ attr' = [attr EXCEPT ![list[i]] = NoAttr]
    /\ xmpp' = Free
    /\ UNCHANGED <<clock, up, trig, armed, db, work, save, ghosts, bounded>>

(* The rows of the events of a trigger are deleted.                        *)
DeleteDeviceEvent(t) ==
    /\ Request
    /\ t \in devs
    /\ rows' = [e \in Events |-> IF TriggerOf[e] = t THEN {} ELSE rows[e]]
    /\ xmpp' = [pc |-> "device", ev |-> {}, dev |-> {t}]
    /\ UNCHANGED <<clock, up, memory, state, code, devs, made, work, save, ghosts,
                   heard, stops>>

(* The trigger is deleted and freed; its events stay in the list.          *)
DeleteDevice ==
    /\ xmpp.pc = "device"
    /\ devs' = devs \ xmpp.dev
    /\ xmpp' = Free
    /\ UNCHANGED <<clock, up, memory, rows, state, code, made, work, save, ghosts,
                   bounded>>

-----------------------------------------------------------------------------
Next ==
    \/ Tick \/ Start \/ Stop
    \/ \E p \in Threads : SaveDB_find(p) \/ SaveDB_read(p) \/ SaveDB_write(p)
    \/ \E l \in Links :
         \/ \E t \in Triggers : OnDeviceData_RFSignal(l, t)
         \/ CountSignal(l) \/ CheckTrigger(l) \/ BeginAlarm(l) \/ CopyEvents(l)
         \/ DoControlEvent(l) \/ SkipEvent(l) \/ EndAlarm(l)
    \/ \E x \in Targets, v \in BOOLEAN : SetState(x, v)
    \/ \E e \in Events :
         \/ \E a \in Asked : AddEvent(e, a) \/ ModifyEvent(e, a)
         \/ \E on \in BOOLEAN : edit_ControlEvent(e, on)
         \/ SaveToDb(e) \/ DeleteEvent(e)
    \/ \E i \in DOMAIN list : RemoveEvent(i)
    \/ SortEvents
    \/ \E t \in Triggers : DeleteDeviceEvent(t)
    \/ DeleteDevice

Spec == Init /\ [][Next]_vars

-----------------------------------------------------------------------------
TickNumber == 0 .. Wrap - 1
Counter == [start : TickNumber, count : Nat, did : TickNumber]

MemoryType ==
    /\ trig \in [Triggers -> Counter]
    /\ armed \in [Targets -> BOOLEAN]
    /\ list \in Seq(Events)
    /\ attr \in [Events -> Attr]

DatabaseType ==
    /\ rows \in [Events -> SUBSET Attr]
    /\ state \in [Triggers -> BOOLEAN]
    /\ code \in Seq(BOOLEAN)
    /\ devs \subseteq Triggers
    /\ made \subseteq Events

Work == [pc : {"idle", "count", "check", "mark", "alarm", "run"},
         trig : Triggers, seen : Counter, go : BOOLEAN, torn : BOOLEAN,
         rest : Seq(Events), ran : SUBSET Events, refused : SUBSET Events]

ThreadsType ==
    /\ work \in [Links -> Work]
    /\ xmpp \in [pc : {"idle", "insert", "sort", "modify", "remove", "device"},
                 ev : SUBSET Events, dev : SUBSET Triggers]
    /\ save \in [Threads -> [pc : {"none", "find", "read", "write"},
                             what : Targets, has : BOOLEAN, val : BOOLEAN]]

GhostsType ==
    /\ last \in [Triggers -> SUBSET Nat]
    /\ signals \in [Triggers -> Nat]
    /\ crossed \subseteq Targets

(* The list never has an event twice, and each has an identifier in use.   *)
ListOnce ==
    /\ \A i, j \in DOMAIN list : list[i] = list[j] => i = j
    /\ \A e \in Events : rows[e] # {} \/ e \in Elements(list) => e \in made
    /\ xmpp.ev \subseteq made

Stopped ==
    /\ \A l \in Links : work[l] = Resting
    /\ xmpp = Free
    /\ \A p \in Threads : save[p] = NoSave

(* The type invariant: the values of the variables; no event is listed     *)
(* twice; and in a process that does not run no thread is at work.         *)
TypeOK ==
    /\ clock \in Nat /\ up \in BOOLEAN
    /\ heard \in Nat /\ changes \in Nat /\ stops \in Nat
    /\ MemoryType /\ DatabaseType /\ ThreadsType /\ GhostsType
    /\ ListOnce
    /\ ~up => Stopped

Begins(l) == work[l].pc = "check" /\ work'[l].pc = "mark"

(* The one millisecond in which timeGetTime is 0 and taken for the next:   *)
(* an alarm that ends in it does not keep the trigger at rest until it is  *)
(* over.                                                                   *)
ZeroTick(t) == last[t] = {clock} /\ clock % Wrap = 0

(* An alarm of a trigger does not begin before the interval is over since  *)
(* the last one ended: TriggerControl::IsTrigger, "notice delay limit by   *)
(* 'SYS_TriggerAlarmInterval'".                                            *)
AlarmsApart ==
    [][\A l \in Links : Begins(l) =>
         LET t == work[l].trig IN
         (\A e \in last[t] : clock - e >= Interval) \/ ZeroTick(t)]_vars

(* Each alarm takes as many signals as the trigger needs since the last    *)
(* one began, though IsTrigger leaves the count as it is: the signals of   *)
(* one alarm do not help to raise the next.                                *)
CountsAnew ==
    [][\A l \in Links : Begins(l) =>
         LET t == work[l].trig IN
         signals[t] >= Needed[t] \/ ZeroTick(t)]_vars

(* What is armed is decided once for an alarm: no alarm runs one of its    *)
(* events and refuses another, though its first events may disarm the box. *)
OneDecision == \A l \in Links : work[l].ran = {} \/ work[l].refused = {}

(* When the XMPP thread is between requests, the list and the tables have  *)
(* the same events, but for those of deleted triggers, which stay in the   *)
(* list.                                                                   *)
SameEvents ==
    up /\ xmpp.pc = "idle" =>
      \A e \in Events :
        /\ rows[e] # {} => e \in Elements(list)
        /\ e \in Elements(list) /\ TriggerOf[e] \in devs => rows[e] # {}

(* What is armed would be so after a restart, whenever no thread is saving *)
(* it; unless two threads have once been saving it at the same time.       *)
StateKept ==
    \A x \in devs \cup {AllDevices} :
      up /\ x \notin crossed /\ (\A p \in Threads : ~Saving(p, x)) =>
        Stored(x) = armed[x]

=============================================================================
