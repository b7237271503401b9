------------------------- MODULE AlarmGuard_proofs -------------------------
(***************************************************************************)
(* Proofs of the properties of AlarmGuard, for any links, triggers and     *)
(* events and any values of the bounds.                                    *)
(***************************************************************************)
EXTENDS AlarmGuard, SequenceTheorems, FiniteSetTheorems, TLAPS

-----------------------------------------------------------------------------
(* Sequences and records.                                                  *)

LEMMA InElements ==
  ASSUME NEW s
  PROVE  \A x : x \in Elements(s) <=> \E i \in DOMAIN s : s[i] = x
BY DEF Elements

(* A list in some order of the events of a set has each of them once.      *)
LEMMA OrderOnce ==
  ASSUME NEW S, IsFiniteSet(S), NEW s \in Orders(S)
  PROVE  /\ s \in Seq(S)
         /\ Elements(s) = S
         /\ \A i, j \in DOMAIN s : s[i] = s[j] => i = j
<1>. DEFINE n == Cardinality(S)
<1>1. n \in Nat
  BY FS_CardinalityType
<1>2. s \in [1 .. n -> S] /\ Elements(s) = S
  BY DEF Orders
<1>3. s \in Seq(S)
  BY <1>1, <1>2, SeqDef
<1>4. IsFiniteSet(1 .. n) /\ Cardinality(1 .. n) = n
  BY <1>1, FS_Interval
<1>5. s \in Surjection(1 .. n, S)
  BY <1>2, Zenon DEF Surjection, Elements
<1>6. s \in Injection(1 .. n, S)
  BY <1>4, <1>5, FS_SurjSameCardinalityImpliesInj
<1>7. \A i, j \in DOMAIN s : s[i] = s[j] => i = j
  BY <1>2, <1>6 DEF Injection, IsInjective
<1>. QED
  BY <1>2, <1>3, <1>7

(* Appending an event that is not in the list.                             *)
LEMMA AppendOnce ==
  ASSUME NEW s \in Seq(Events), NEW e \in Events, e \notin Elements(s),
         \A i, j \in DOMAIN s : s[i] = s[j] => i = j
  PROVE  /\ Append(s, e) \in Seq(Events)
         /\ Elements(Append(s, e)) = Elements(s) \cup {e}
         /\ \A i, j \in DOMAIN Append(s, e) :
              Append(s, e)[i] = Append(s, e)[j] => i = j
<1>. DEFINE t == Append(s, e)
<1>1. /\ t \in Seq(Events) /\ Len(t) = Len(s) + 1 /\ t[Len(s) + 1] = e
      /\ \A i \in 1 .. Len(s) : t[i] = s[i]
  OBVIOUS
<1>2. DOMAIN t = 1 .. Len(s) + 1 /\ DOMAIN s = 1 .. Len(s) /\ Len(s) \in Nat
  BY <1>1
<1>3. \A i \in 1 .. Len(s) : t[i] # e
  BY <1>1, <1>2 DEF Elements
<1>4. Elements(t) = Elements(s) \cup {e}
  <2>. HIDE DEF t
  <2>1. \A i \in DOMAIN t : t[i] \in Elements(s) \cup {e}
    BY <1>1, <1>2 DEF Elements
  <2>2. \A x \in Elements(s) \cup {e} : \E i \in DOMAIN t : t[i] = x
    BY <1>1, <1>2 DEF Elements
  <2>. QED
    BY <2>1, <2>2, InElements
<1>5. \A i, j \in DOMAIN t : t[i] = t[j] => i = j
  <2>. HIDE DEF t
  <2>. SUFFICES ASSUME NEW i \in 1 .. Len(s) + 1, NEW j \in 1 .. Len(s) + 1,
                       t[i] = t[j]
                PROVE  i = j
    BY <1>2
  <2>1. CASE i = Len(s) + 1 \/ j = Len(s) + 1
    BY <1>1, <1>2, <1>3, <2>1
  <2>2. CASE i \in 1 .. Len(s) /\ j \in 1 .. Len(s)
    BY <1>1, <1>2, <2>2
  <2>. QED
    BY <1>2, <2>1, <2>2
<1>. QED
  BY <1>1, <1>4, <1>5

(* Taking out one place of the list.                                       *)
LEMMA RemoveOnce ==
  ASSUME NEW s \in Seq(Events), NEW k \in DOMAIN s,
         \A i, j \in DOMAIN s : s[i] = s[j] => i = j
  PROVE  LET t == SubSeq(s, 1, k - 1) \o SubSeq(s, k + 1, Len(s)) IN
         /\ t \in Seq(Events)
         /\ Elements(t) = Elements(s) \ {s[k]}
         /\ \A i, j \in DOMAIN t : t[i] = t[j] => i = j
<1>. DEFINE a == SubSeq(s, 1, k - 1)  b == SubSeq(s, k + 1, Len(s))  t == a \o b
<1>1. k \in 1 .. Len(s) /\ Len(s) \in Nat /\ DOMAIN s = 1 .. Len(s)
  OBVIOUS
<1>2. /\ a \in Seq(Events) /\ Len(a) = k - 1
      /\ \A i \in 1 .. k - 1 : a[i] = s[i]
  BY <1>1
<1>3. /\ b \in Seq(Events) /\ Len(b) = Len(s) - k
      /\ \A i \in 1 .. Len(s) - k : b[i] = s[i + k]
  BY <1>1
<1>. HIDE DEF a, b
<1>4. /\ t \in Seq(Events) /\ Len(t) = Len(s) - 1
      /\ \A i \in 1 .. k - 1 : t[i] = s[i]
      /\ \A i \in k .. Len(s) - 1 : t[i] = s[i + 1]
  <2>1. /\ t \in Seq(Events) /\ Len(t) = Len(a) + Len(b)
        /\ \A i \in 1 .. Len(a) + Len(b) :
             t[i] = IF i <= Len(a) THEN a[i] ELSE b[i - Len(a)]
    BY <1>2, <1>3, ConcatProperties, ZenonT(60)
  <2>. HIDE DEF t
  <2>2. Len(a) + Len(b) = Len(s) - 1
    BY <1>1, <1>2, <1>3
  <2>3. \A i \in 1 .. k - 1 : t[i] = s[i]
    BY <1>1, <1>2, <2>1, <2>2
  <2>4. ASSUME NEW i \in k .. Len(s) - 1
        PROVE  t[i] = s[i + 1]
    <3>1. i \in 1 .. Len(s) - 1 /\ ~(i <= k - 1) /\ i - (k - 1) \in 1 .. Len(s) - k
      BY <1>1
    <3>2. t[i] = b[i - (k - 1)]
      BY <1>2, <2>1, <2>2, <3>1
    <3>3. b[i - (k - 1)] = s[i - (k - 1) + k]
      BY <1>3, <3>1
    <3>4. i - (k - 1) + k = i + 1
      BY <1>1
    <3>. QED
      BY <3>2, <3>3, <3>4
  <2>. QED
    BY <2>1, <2>2, <2>3, <2>4
<1>. HIDE DEF t
<1>5. DOMAIN t = 1 .. Len(s) - 1
  BY <1>1, <1>4
<1>6. Elements(t) = Elements(s) \ {s[k]}
  <2>1. \A i \in DOMAIN t : t[i] \in Elements(s) \ {s[k]}
    BY <1>1, <1>4, <1>5 DEF Elements
  <2>2. \A i \in DOMAIN s : i # k => \E j \in DOMAIN t : t[j] = s[i]
    <3>1. ASSUME NEW i \in DOMAIN s, i < k
          PROVE  i \in DOMAIN t /\ t[i] = s[i]
      BY <1>1, <1>4, <1>5, <3>1
    <3>2. ASSUME NEW i \in DOMAIN s, i > k
          PROVE  i - 1 \in DOMAIN t /\ t[i - 1] = s[i]
      BY <1>1, <1>4, <1>5, <3>2
    <3>. QED
      BY <1>1, <3>1, <3>2
  <2>3. \A i \in DOMAIN s : s[i] \in Elements(s)
    BY InElements
  <2>. QED
    BY <2>1, <2>2, <2>3, InElements
<1>7. \A i, j \in DOMAIN t : t[i] = t[j] => i = j
  <2>. SUFFICES ASSUME NEW i \in 1 .. Len(s) - 1, NEW j \in 1 .. Len(s) - 1,
                       t[i] = t[j]
                PROVE  i = j
    BY <1>5
  <2>. DEFINE at(n) == IF n < k THEN n ELSE n + 1
  <2>1. ASSUME NEW n \in 1 .. Len(s) - 1
        PROVE  at(n) \in 1 .. Len(s) /\ t[n] = s[at(n)]
    <3>1. CASE n < k
      <4>1. n \in 1 .. k - 1 /\ at(n) = n /\ n \in 1 .. Len(s)
        BY <1>1, <3>1
      <4>2. t[n] = s[n]
        BY <1>4, <4>1
      <4>. QED
        BY <4>1, <4>2, Zenon
    <3>2. CASE n >= k
      BY <1>1, <1>4, <3>2
    <3>. QED
      BY <1>1, <3>1, <3>2
  <2>2. at(i) = at(j)
    <3>. HIDE DEF at
    <3>. QED
      BY <1>1, <2>1
  <2>. QED
    BY <1>1, <2>2
<1>. QED
  BY <1>4, <1>6, <1>7 DEF t, a, b

-----------------------------------------------------------------------------
(* The type invariant.                                                     *)

LEMMA Constants0 ==
  /\ NoAttr \in Attr /\ Unheard \in Counter /\ Resting \in Work
  /\ NoSave \in [pc : {"none", "find", "read", "write"}, what : Targets,
                 has : BOOLEAN, val : BOOLEAN]
  /\ Free \in [pc : {"idle", "insert", "sort", "modify", "remove", "device"},
               ev : SUBSET Events, dev : SUBSET Triggers]
<1>1. 0 \in TickNumber
  BY AlarmGuardAssumption DEF TickNumber
<1>2. (CHOOSE n \in Levels : TRUE) \in Levels
  BY AlarmGuardAssumption
<1>3. (CHOOSE t \in Triggers : TRUE) \in Triggers
  BY AlarmGuardAssumption
<1>. QED
  BY <1>1, <1>2, <1>3 DEF NoAttr, Attr, Unheard, Counter, Resting, Work, NoSave,
     Free, Targets

LEMMA TimeType == clock \in Nat => timeGetTime \in TickNumber
BY AlarmGuardAssumption DEF timeGetTime, TickNumber

(* What a step of the thread of a link leaves of its record is of the type.*)
LEMMA StepType ==
  ASSUME work \in [Links -> Work], NEW l \in Links, NEW w \in Work, Step(l, w)
  PROVE  /\ work' \in [Links -> Work]
         /\ work'[l] = w
         /\ \A k \in Links : k # l => work'[k] = work[k]
BY DEF Step

LEMMA ChangeType ==
  ASSUME TypeOK, NEW p \in Threads, NEW x \in Targets, NEW v \in BOOLEAN,
         Change(p, x, v)
  PROVE  /\ armed' \in [Targets -> BOOLEAN]
         /\ save' \in [Threads -> [pc : {"none", "find", "read", "write"},
                                   what : Targets, has : BOOLEAN, val : BOOLEAN]]
         /\ crossed' \subseteq Targets
<1>1. armed' \in [Targets -> BOOLEAN]
  BY DEF Change, TypeOK, MemoryType
<1>2. crossed' \subseteq Targets
  BY DEF Change, TypeOK, GhostsType
<1>. DEFINE r == [pc |-> IF x = AllDevices THEN "find" ELSE "read", what |-> x,
                  has |-> FALSE, val |-> FALSE]
<1>3. r \in [pc : {"none", "find", "read", "write"}, what : Targets,
             has : BOOLEAN, val : BOOLEAN]
  OBVIOUS
<1>4. save' = [save EXCEPT ![p] = r]
  BY DEF Change
<1>. QED
  BY <1>1, <1>2, <1>3, <1>4 DEF TypeOK, ThreadsType

LEMMA TypeInit == Init => TypeOK
<1>. SUFFICES ASSUME Init PROVE TypeOK
  OBVIOUS
<1>1. MemoryType
  BY Constants0 DEF Init, MemoryType
<1>2. DatabaseType
  BY AlarmGuardAssumption DEF Init, DatabaseType
<1>3. ThreadsType
  BY Constants0 DEF Init, ThreadsType
<1>4. GhostsType
  BY DEF Init, GhostsType
<1>5. ListOnce
  BY DEF Init, ListOnce, Elements, Free
<1>6. Stopped
  BY DEF Init, Stopped
<1>. QED
  BY <1>1, <1>2, <1>3, <1>4, <1>5, <1>6, AlarmGuardAssumption DEF Init, TypeOK

(* The steps of a link's thread that change its record and nothing of the  *)
(* list and the tables.                                                    *)
LEMMA LinkKeepsType ==
  ASSUME TypeOK, NEW l \in Links, NEW w \in Work, Step(l, w), up,
         UNCHANGED <<clock, up, list, attr, db, xmpp, changes, stops>>,
         trig' \in [Triggers -> Counter], armed' \in [Targets -> BOOLEAN],
         save' \in [Threads -> [pc : {"none", "find", "read", "write"},
                                what : Targets, has : BOOLEAN, val : BOOLEAN]],
         GhostsType', heard' \in Nat
  PROVE  TypeOK'
<1>1. MemoryType'
  BY DEF TypeOK, MemoryType
<1>2. DatabaseType'
  BY DEF TypeOK, DatabaseType, db
<1>3. ThreadsType'
  BY StepType DEF TypeOK, ThreadsType
<1>4. ListOnce'
  BY DEF TypeOK, ListOnce, Elements, db
<1>. QED
  BY <1>1, <1>2, <1>3, <1>4 DEF TypeOK

LEMMA AtWork ==
  ASSUME TypeOK
  PROVE  /\ \A l \in Links : work[l].pc # "idle" => up
         /\ xmpp.pc # "idle" => up
         /\ \A p \in Threads : save[p].pc # "none" => up
<1>. SUFFICES ASSUME ~up
              PROVE  /\ \A l \in Links : work[l].pc = "idle"
                     /\ xmpp.pc = "idle"
                     /\ \A p \in Threads : save[p].pc = "none"
  OBVIOUS
<1>1. Stopped
  BY DEF TypeOK
<1>2. Resting.pc = "idle" /\ Free.pc = "idle" /\ NoSave.pc = "none"
  BY DEF Resting, Free, NoSave
<1>. QED
  BY <1>1, <1>2 DEF Stopped

(* The steps of the threads of the links keep the type invariant.          *)
LEMMA LinkType ==
  ASSUME TypeOK, NEW l \in Links,
         \/ \E t \in Triggers : OnDeviceData_RFSignal(l, t)
         \/ CountSignal(l) \/ CheckTrigger(l) \/ BeginAlarm(l) \/ CopyEvents(l)
         \/ DoControlEvent(l) \/ SkipEvent(l) \/ EndAlarm(l)
  PROVE  TypeOK'
<1>. DEFINE W == work[l]
<1>1. W \in Work /\ W.trig \in Triggers /\ W.rest \in Seq(Events)
  BY DEF TypeOK, ThreadsType, Work
<1>2. /\ trig \in [Triggers -> Counter] /\ armed \in [Targets -> BOOLEAN]
      /\ save \in [Threads -> [pc : {"none", "find", "read", "write"},
                               what : Targets, has : BOOLEAN, val : BOOLEAN]]
      /\ GhostsType /\ heard \in Nat /\ clock \in Nat
  BY DEF TypeOK, MemoryType, ThreadsType
<1>3. ASSUME UNCHANGED trig PROVE trig' \in [Triggers -> Counter]
  BY <1>2, <1>3
<1>4. ASSUME NEW t \in Triggers, OnDeviceData_RFSignal(l, t)
      PROVE  TypeOK'
  <2>. DEFINE w == [Resting EXCEPT !.pc = "count", !.trig = t, !.seen = CompareTick(t)]
  <2>1. trig[t] \in Counter
    BY <1>2
  <2>2. CompareTick(t) \in Counter
    <3>1. [trig[t] EXCEPT !.count = @ + 1] \in Counter
      BY <2>1 DEF Counter
    <3>2. [trig[t] EXCEPT !.start = timeGetTime, !.count = 1] \in Counter
      BY <1>2, <2>1, TimeType DEF Counter
    <3>. QED
      BY <3>1, <3>2 DEF CompareTick
  <2>3. w \in Work
    BY <2>2, Constants0 DEF Work
  <2>4. GhostsType' /\ heard' \in Nat
    <3>1. /\ heard' = heard + 1 /\ signals' = [signals EXCEPT ![t] = @ + 1]
          /\ UNCHANGED <<last, crossed>>
      BY <1>4 DEF OnDeviceData_RFSignal
    <3>. QED
      BY <1>2, <3>1 DEF GhostsType
  <2>5. /\ Step(l, w) /\ up
        /\ UNCHANGED <<clock, up, list, attr, db, xmpp, changes, stops, trig, armed,
                       save>>
    BY <1>4 DEF OnDeviceData_RFSignal, memory
  <2>. QED
    BY <1>2, <2>3, <2>4, <2>5, LinkKeepsType
<1>5. CASE CountSignal(l)
  <2>. DEFINE w == [W EXCEPT !.pc = "check", !.seen = Unheard]
  <2>1. w \in Work
    BY <1>1, Constants0 DEF Work
  <2>2. trig' \in [Triggers -> Counter]
    BY <1>1, <1>2, <1>5, SMTT(30) DEF CountSignal, Counter, Work
  <2>3. W.pc = "count"
    BY <1>5 DEF CountSignal
  <2>4. /\ Step(l, w) /\ up
        /\ UNCHANGED <<clock, up, list, attr, db, xmpp, changes, stops, armed, save,
                       ghosts, heard>>
    BY <1>5, <2>3, AtWork DEF CountSignal, bounded
  <2>. QED
    BY <1>2, <2>1, <2>2, <2>4, LinkKeepsType DEF ghosts, GhostsType
<1>6. CASE CheckTrigger(l)
  <2>1. PICK w \in Work : Step(l, w)
    <3>1. [W EXCEPT !.pc = "mark"] \in Work
      BY <1>1 DEF Work
    <3>. QED
      BY <1>6, <3>1, Constants0 DEF CheckTrigger
  <2>2. GhostsType'
    BY <1>1, <1>2, <1>6 DEF CheckTrigger, GhostsType
  <2>3. W.pc = "check"
    BY <1>6 DEF CheckTrigger
  <2>4. /\ up
        /\ UNCHANGED <<clock, up, list, attr, db, xmpp, changes, stops, trig, armed,
                       save, heard>>
    BY <1>6, <2>3, AtWork DEF CheckTrigger, bounded, memory
  <2>. QED
    BY <1>2, <2>1, <2>2, <2>4, LinkKeepsType
<1>7. ASSUME SetTriggerDo(W.trig)
      PROVE  trig' \in [Triggers -> Counter]
  <2>1. 1 \in TickNumber
    BY AlarmGuardAssumption DEF TickNumber
  <2>2. (IF timeGetTime = 0 THEN 1 ELSE timeGetTime) \in TickNumber
    BY <1>2, <2>1, TimeType
  <2>. DEFINE tick == IF timeGetTime = 0 THEN 1 ELSE timeGetTime
              t == W.trig
  <2>3. trig' = [trig EXCEPT ![t] = [trig[t] EXCEPT !.did = tick]]
    BY <1>7 DEF SetTriggerDo
  <2>4. trig[t] \in Counter
    BY <1>1, <1>2
  <2>. HIDE DEF tick
  <2>5. [trig[t] EXCEPT !.did = tick] \in Counter
    BY <2>2, <2>4 DEF Counter, tick
  <2>. QED
    BY <1>1, <1>2, <2>3, <2>5
<1>8. CASE BeginAlarm(l)
  <2>1. PICK valid \in BOOLEAN :
          Step(l, [W EXCEPT !.pc = "alarm", !.go = valid /\ armed[AllDevices]])
    BY <1>8 DEF BeginAlarm
  <2>. DEFINE go == valid /\ armed[AllDevices]
              w == [W EXCEPT !.pc = "alarm", !.go = go]
  <2>2. go \in BOOLEAN
    OBVIOUS
  <2>3. w \in Work
    <3>. HIDE DEF go
    <3>. QED
      BY <1>1, <2>2 DEF Work
  <2>4. W.pc = "mark" /\ SetTriggerDo(W.trig)
    BY <1>8 DEF BeginAlarm
  <2>5. /\ up
        /\ UNCHANGED <<clock, up, list, attr, db, xmpp, changes, stops, armed, save,
                       ghosts, heard>>
    BY <1>8, <2>4, AtWork DEF BeginAlarm, bounded
  <2>. QED
    BY <1>2, <1>7, <2>1, <2>3, <2>4, <2>5, LinkKeepsType DEF ghosts, GhostsType
<1>9. CASE CopyEvents(l)
  <2>. DEFINE go == W.go /\ armed[W.trig]
              torn == xmpp.pc \in {"insert", "sort", "remove"}
              w == [W EXCEPT !.pc = "run", !.go = go, !.rest = list, !.torn = torn]
  <2>1. list \in Seq(Events) /\ go \in BOOLEAN /\ torn \in BOOLEAN
    BY DEF TypeOK, MemoryType
  <2>2. w \in Work
    <3>. HIDE DEF go, torn
    <3>. QED
      BY <1>1, <2>1 DEF Work
  <2>3. W.pc = "alarm" /\ Step(l, w)
    BY <1>9 DEF CopyEvents
  <2>4. /\ up
        /\ UNCHANGED <<clock, up, list, attr, db, xmpp, changes, stops, trig, armed,
                       save, ghosts, heard>>
    BY <1>9, <2>3, AtWork DEF CopyEvents, bounded, memory
  <2>. QED
    BY <1>2, <2>2, <2>3, <2>4, LinkKeepsType DEF ghosts, GhostsType
<1>10. ASSUME Running(l)
       PROVE  /\ up /\ W.rest # <<>> /\ Head(W.rest) \in Events
              /\ Tail(W.rest) \in Seq(Events)
  BY <1>1, <1>10, AtWork DEF Running
<1>11. CASE DoControlEvent(l)
  <2>. DEFINE e == Head(W.rest)
              ran == IF Freed(e) \/ attr[e].force THEN W.ran ELSE W.ran \cup {e}
              w == [W EXCEPT !.rest = Tail(@), !.ran = ran]
  <2>1. Running(l) /\ Step(l, w)
    BY <1>11 DEF DoControlEvent
  <2>2. e \in Events /\ ran \in SUBSET Events
    BY <1>1, <1>10, <2>1 DEF Work
  <2>3. w \in Work
    <3>. HIDE DEF ran
    <3>. QED
      BY <1>1, <1>10, <2>1, <2>2 DEF Work
  <2>4. /\ armed' \in [Targets -> BOOLEAN]
        /\ save' \in [Threads -> [pc : {"none", "find", "read", "write"},
                                  what : Targets, has : BOOLEAN, val : BOOLEAN]]
        /\ crossed' \subseteq Targets
    <3>1. CASE \E c \in Does[e] : Change(l, c.what, c.to)
      <4>1. PICK c \in Does[e] : Change(l, c.what, c.to)
        BY <3>1
      <4>2. c.what \in Targets /\ c.to \in BOOLEAN /\ l \in Threads
        BY <2>2, AlarmGuardAssumption DEF Changes, Threads
      <4>. QED
        BY <4>1, <4>2, ChangeType
    <3>2. CASE UNCHANGED <<armed, save, crossed>>
      BY <1>2, <3>2 DEF GhostsType
    <3>. QED
      BY <1>11, <3>1, <3>2 DEF DoControlEvent
  <2>5. UNCHANGED <<clock, up, list, attr, db, xmpp, changes, stops, trig, heard, last,
                    signals>>
    BY <1>11 DEF DoControlEvent, bounded
  <2>6. GhostsType'
    BY <1>2, <2>4, <2>5 DEF GhostsType
  <2>. QED
    BY <1>2, <1>10, <2>1, <2>3, <2>4, <2>5, <2>6, LinkKeepsType
<1>12. CASE SkipEvent(l)
  <2>. DEFINE e == Head(W.rest)
              refused == IF ~Freed(e) /\ Mine(l, e) /\ ~Allowed(l, e)
                         THEN W.refused \cup {e} ELSE W.refused
              w == [W EXCEPT !.rest = Tail(@), !.refused = refused]
  <2>1. Running(l) /\ Step(l, w)
    BY <1>12 DEF SkipEvent
  <2>2. refused \in SUBSET Events
    BY <1>1, <1>10, <2>1 DEF Work
  <2>3. w \in Work
    <3>. HIDE DEF refused
    <3>. QED
      BY <1>1, <1>10, <2>1, <2>2 DEF Work
  <2>4. UNCHANGED <<clock, up, list, attr, db, xmpp, changes, stops, trig, armed,
                    save, ghosts, heard>>
    BY <1>12 DEF SkipEvent, bounded, memory
  <2>. QED
    BY <1>2, <1>10, <2>1, <2>3, <2>4, LinkKeepsType DEF ghosts, GhostsType
<1>13. CASE EndAlarm(l)
  <2>1. W.pc = "run" /\ SetTriggerDo(W.trig) /\ Step(l, Resting)
    BY <1>13 DEF EndAlarm
  <2>2. GhostsType'
    BY <1>1, <1>2, <1>13 DEF EndAlarm, GhostsType
  <2>3. /\ up
        /\ UNCHANGED <<clock, up, list, attr, db, xmpp, changes, stops, armed, save,
                       heard>>
    BY <1>13, <2>1, AtWork DEF EndAlarm, bounded
  <2>. QED
    BY <1>2, <1>7, <2>1, <2>2, <2>3, Constants0, LinkKeepsType
<1>. QED
  BY <1>4, <1>5, <1>6, <1>8, <1>9, <1>11, <1>12, <1>13

(* So do the starting and ending of the process.                           *)
LEMMA StartType ==
  ASSUME TypeOK, Start
  PROVE  TypeOK'
<1>. DEFINE ids == {e \in Events : rows[e] # {}}
<1>1. IsFiniteSet(ids)
  BY AlarmGuardAssumption, FS_Subset
<1>2. list' \in Orders(ids)
  BY DEF Start
<1>3. list' \in Seq(ids) /\ Elements(list') = ids
      /\ \A i, j \in DOMAIN list' : list'[i] = list'[j] => i = j
  BY <1>1, <1>2, OrderOnce
<1>4. list' \in Seq(Events)
  BY <1>3, SeqMonotonic
<1>5. attr' \in [Events -> Attr]
  <2>1. \A e \in Events : rows[e] # {} => (CHOOSE a \in rows[e] : TRUE) \in Attr
    BY DEF TypeOK, DatabaseType
  <2>. QED
    BY <2>1, Constants0 DEF Start
<1>6. armed' \in [Targets -> BOOLEAN]
  <2>1. \A x \in Targets : Stored(x) \in BOOLEAN
    <3>1. \A x \in Targets : x # AllDevices => state[x] \in BOOLEAN
      BY DEF TypeOK, DatabaseType, Targets
    <3>2. code # <<>> => code[Len(code)] \in BOOLEAN
      BY DEF TypeOK, DatabaseType
    <3>. QED
      BY <3>1, <3>2 DEF Stored
  <2>. QED
    BY <2>1 DEF Start
<1>7. MemoryType'
  BY <1>4, <1>5, <1>6, Constants0 DEF Start, MemoryType
<1>8. DatabaseType' /\ ThreadsType' /\ GhostsType'
  BY DEF Start, TypeOK, DatabaseType, ThreadsType, GhostsType, db, threads, ghosts
<1>9. ListOnce'
  BY <1>3 DEF Start, TypeOK, ListOnce, db, threads
<1>. QED
  BY <1>7, <1>8, <1>9 DEF Start, TypeOK, bounded

LEMMA StopType ==
  ASSUME TypeOK, Stop
  PROVE  TypeOK'
<1>1. MemoryType'
  BY Constants0 DEF Stop, MemoryType
<1>2. ThreadsType'
  BY Constants0 DEF Stop, ThreadsType
<1>3. DatabaseType' /\ GhostsType'
  BY DEF Stop, TypeOK, DatabaseType, GhostsType, db
<1>4. ListOnce'
  BY DEF Stop, TypeOK, ListOnce, Elements, db, Free
<1>5. Stopped'
  BY DEF Stop, Stopped
<1>6. clock' \in Nat /\ heard' \in Nat /\ changes' \in Nat /\ stops' \in Nat
  <2>1. clock \in Nat /\ heard \in Nat /\ changes \in Nat /\ stops \in Nat
    BY DEF TypeOK
  <2>2. UNCHANGED <<clock, heard, changes>> /\ stops' = stops + 1
    BY Zenon DEF Stop
  <2>. QED
    BY <2>1, <2>2
<1>7. up' \in BOOLEAN
  BY DEF Stop
<1>. QED
  BY <1>1, <1>2, <1>3, <1>4, <1>5, <1>6, <1>7 DEF TypeOK

(* And the saving.                                                         *)
LEMMA SaveType ==
  ASSUME TypeOK, NEW p \in Threads, SaveDB_find(p) \/ SaveDB_read(p) \/ SaveDB_write(p)
  PROVE  TypeOK'
<1>. DEFINE S == [pc : {"none", "find", "read", "write"}, what : Targets,
                  has : BOOLEAN, val : BOOLEAN]
<1>1. save[p] \in S /\ save \in [Threads -> S]
  BY DEF TypeOK, ThreadsType
<1>2. save[p].pc # "none"
  BY DEF SaveDB_find, SaveDB_read, SaveDB_write
<1>3. up
  BY <1>2, AtWork
<1>4. /\ UNCHANGED <<clock, up, memory, rows, devs, made, work, xmpp, ghosts, bounded>>
      /\ ~SaveDB_write(p) => UNCHANGED <<state, code>>
  BY DEF SaveDB_find, SaveDB_read, SaveDB_write, db
<1>5. MemoryType' /\ GhostsType' /\ ListOnce'
  BY <1>4 DEF TypeOK, MemoryType, GhostsType, ListOnce, Elements, memory, ghosts
<1>6. save' \in [Threads -> S]
  <2>1. CASE SaveDB_find(p)
    <3>. DEFINE has == code # <<>>
    <3>1. save' = [save EXCEPT ![p] = [save[p] EXCEPT !.pc = "read", !.has = has]]
      BY <2>1 DEF SaveDB_find
    <3>2. has \in BOOLEAN
      OBVIOUS
    <3>. HIDE DEF has
    <3>3. [save[p] EXCEPT !.pc = "read", !.has = has] \in S
      BY <1>1, <3>2
    <3>. QED
      BY <1>1, <3>1, <3>3
  <2>2. CASE SaveDB_read(p)
    <3>1. save' = [save EXCEPT ![p] = [save[p] EXCEPT !.pc = "write",
                                                     !.val = armed[save[p].what]]]
      BY <2>2 DEF SaveDB_read
    <3>2. armed[save[p].what] \in BOOLEAN
      BY <1>1 DEF TypeOK, MemoryType
    <3>3. [save[p] EXCEPT !.pc = "write", !.val = armed[save[p].what]] \in S
      BY <1>1, <3>2
    <3>. QED
      BY <1>1, <3>1, <3>3
  <2>3. CASE SaveDB_write(p)
    BY <1>1, <2>3, Constants0 DEF SaveDB_write
  <2>. QED
    BY <2>1, <2>2, <2>3
<1>7. state' \in [Triggers -> BOOLEAN] /\ code' \in Seq(BOOLEAN)
  <2>1. state \in [Triggers -> BOOLEAN] /\ code \in Seq(BOOLEAN)
    BY DEF TypeOK, DatabaseType
  <2>2. CASE ~SaveDB_write(p)
    BY <1>4, <2>1, <2>2
  <2>3. CASE SaveDB_write(p)
    <3>1. save[p].val \in BOOLEAN
      BY <1>1
    <3>. DEFINE v == save[p].val  x == save[p].what
    <3>2. /\ \/ code' = [code EXCEPT ![1] = v]
             \/ code' = Append(code, v)
             \/ code' = code
          /\ state' = [state EXCEPT ![x] = v] \/ state' = state
      BY <2>3 DEF SaveDB_write
    <3>. HIDE DEF v, x
    <3>3. v \in BOOLEAN
      BY <3>1 DEF v
    <3>4. [code EXCEPT ![1] = v] \in Seq(BOOLEAN)
      <4>1. code \in [1 .. Len(code) -> BOOLEAN] /\ Len(code) \in Nat
        BY <2>1
      <4>2. [code EXCEPT ![1] = v] \in [1 .. Len(code) -> BOOLEAN]
        BY <3>3, <4>1
      <4>. QED
        BY <4>1, <4>2, SeqDef
    <3>5. Append(code, v) \in Seq(BOOLEAN)
      BY <2>1, <3>3
    <3>6. [state EXCEPT ![x] = v] \in [Triggers -> BOOLEAN]
      BY <2>1, <3>3
    <3>. QED
      BY <2>1, <3>2, <3>4, <3>5, <3>6
  <2>. QED
    BY <2>2, <2>3
<1>8. DatabaseType' /\ ThreadsType'
  BY <1>4, <1>6, <1>7 DEF TypeOK, DatabaseType, ThreadsType
<1>. QED
  BY <1>3, <1>4, <1>5, <1>8 DEF TypeOK, bounded

(* And the requests over XMPP.                                             *)
LEMMA XmppKeepsType ==
  ASSUME TypeOK, up, UNCHANGED <<clock, up, trig, state, code, work, last, signals,
                                 heard, stops>>,
         armed' \in [Targets -> BOOLEAN], crossed' \subseteq Targets, changes' \in Nat,
         xmpp' \in [pc : {"idle", "insert", "sort", "modify", "remove", "device"},
                    ev : SUBSET Events, dev : SUBSET Triggers],
         save' \in [Threads -> [pc : {"none", "find", "read", "write"},
                                what : Targets, has : BOOLEAN, val : BOOLEAN]],
         list' \in Seq(Events), attr' \in [Events -> Attr],
         rows' \in [Events -> SUBSET Attr], devs' \subseteq Triggers,
         made' \subseteq Events, ListOnce'
  PROVE  TypeOK'
<1>1. MemoryType' /\ DatabaseType'
  BY DEF TypeOK, MemoryType, DatabaseType
<1>2. ThreadsType' /\ GhostsType'
  BY DEF TypeOK, ThreadsType, GhostsType
<1>. QED
  BY <1>1, <1>2 DEF TypeOK

(* Steps that leave the list as it is keep it so, if no row comes from     *)
(* nowhere.                                                                *)
LEMMA SameListOnce ==
  ASSUME ListOnce, UNCHANGED list, UNCHANGED made,
         \A e \in Events : rows'[e] # {} => rows[e] # {} \/ e \in made,
         xmpp'.ev \subseteq made
  PROVE  ListOnce'
<1>1. \A i, j \in DOMAIN list' : list'[i] = list'[j] => i = j
  BY DEF ListOnce
<1>2. Elements(list') = Elements(list)
  OBVIOUS
<1>3. ASSUME NEW e \in Events, rows'[e] # {} \/ e \in Elements(list')
      PROVE  e \in made'
  BY <1>2, <1>3 DEF ListOnce
<1>. QED
  BY <1>1, <1>3 DEF ListOnce

LEMMA XmppType ==
  ASSUME TypeOK,
         \/ \E x \in Targets, v \in BOOLEAN : SetState(x, v)
         \/ \E e \in Events :
              \/ \E a \in Asked : AddEvent(e, a) \/ ModifyEvent(e, a)
              \/ \E on \in BOOLEAN : edit_ControlEvent(e, on)
              \/ SaveToDb(e) \/ DeleteEvent(e)
         \/ \E i \in DOMAIN list : RemoveEvent(i)
         \/ SortEvents
         \/ \E t \in Triggers : DeleteDeviceEvent(t)
         \/ DeleteDevice
  PROVE  TypeOK'
<1>. DEFINE X == [pc : {"idle", "insert", "sort", "modify", "remove", "device"},
                  ev : SUBSET Events, dev : SUBSET Triggers]
            S == [pc : {"none", "find", "read", "write"}, what : Targets,
                  has : BOOLEAN, val : BOOLEAN]
<1>1. /\ armed \in [Targets -> BOOLEAN] /\ crossed \subseteq Targets
      /\ xmpp \in X /\ save \in [Threads -> S] /\ changes \in Nat
      /\ list \in Seq(Events) /\ attr \in [Events -> Attr]
      /\ rows \in [Events -> SUBSET Attr] /\ devs \subseteq Triggers
      /\ made \subseteq Events /\ ListOnce /\ Asked \subseteq Attr
  BY AlarmGuardAssumption DEF TypeOK, MemoryType, DatabaseType, ThreadsType, GhostsType
<1>2. Free \in X
  BY Constants0
<1>3. Request => up /\ changes' \in Nat
  BY <1>1 DEF Request
<1>4. xmpp.pc # "idle" => up
  BY AtWork
<1>5. ASSUME UNCHANGED list, UNCHANGED made,
             \A e \in Events : rows'[e] # {} => rows[e] # {} \/ e \in made,
             xmpp'.ev \subseteq made
      PROVE  ListOnce'
  BY <1>1, <1>5, SameListOnce
<1>6. ASSUME NEW x \in Targets, NEW v \in BOOLEAN, SetState(x, v)
      PROVE  TypeOK'
  <2>1. Request /\ Change("xmpp", x, v) /\ "xmpp" \in Threads
    BY <1>6 DEF SetState, Threads
  <2>2. UNCHANGED <<clock, up, trig, list, attr, db, work, xmpp, last, signals, heard,
                    stops>>
    BY <1>6, <1>3, <2>1 DEF SetState, Request
  <2>3. ListOnce'
    BY <1>1, <1>5, <2>2 DEF db, ListOnce
  <2>4. /\ armed' \in [Targets -> BOOLEAN] /\ crossed' \subseteq Targets
        /\ save' \in [Threads -> S]
    BY <2>1, ChangeType
  <2>. HIDE DEF X, S
  <2>. QED
    BY <1>1, <1>3, <2>1, <2>2, <2>3, <2>4, XmppKeepsType DEF db, X, S
<1>7. ASSUME NEW e \in Events, NEW a \in Asked, AddEvent(e, a)
      PROVE  TypeOK'
  <2>1. /\ Request /\ e \notin made
        /\ list' = Append(list, e) /\ made' = made \cup {e}
        /\ attr' = [attr EXCEPT ![e] = a]
        /\ xmpp' = [pc |-> "insert", ev |-> {e}, dev |-> {}]
        /\ UNCHANGED <<clock, up, trig, armed, rows, state, code, devs, work, save,
                       ghosts, heard, stops>>
    BY <1>7 DEF AddEvent
  <2>2. e \notin Elements(list)
    BY <1>1, <2>1 DEF ListOnce
  <2>3. /\ list' \in Seq(Events) /\ Elements(list') = Elements(list) \cup {e}
        /\ \A i, j \in DOMAIN list' : list'[i] = list'[j] => i = j
    BY <1>1, <2>1, <2>2, AppendOnce DEF ListOnce
  <2>4. ListOnce'
    BY <1>1, <2>1, <2>3 DEF ListOnce
  <2>5. attr' \in [Events -> Attr] /\ xmpp' \in X /\ made' \subseteq Events
    BY <1>1, <2>1
  <2>. HIDE DEF X, S
  <2>. QED
    BY <1>1, <1>3, <2>1, <2>3, <2>4, <2>5, XmppKeepsType DEF ghosts, X, S
<1>8. ASSUME NEW e \in Events, NEW a \in Asked, ModifyEvent(e, a)
      PROVE  TypeOK'
  <2>1. /\ xmpp.pc = "modify"
        /\ rows' = [rows EXCEPT ![e] = IF @ = {} THEN {} ELSE {a}]
        /\ xmpp' = [xmpp EXCEPT !.pc = "sort"]
        /\ UNCHANGED <<clock, up, memory, state, code, devs, made, work, save, ghosts,
                       bounded>>
    BY <1>8 DEF ModifyEvent
  <2>2. rows' \in [Events -> SUBSET Attr] /\ xmpp' \in X
    BY <1>1, <2>1
  <2>3. ListOnce'
    BY <1>1, <1>5, <2>1 DEF memory, ListOnce
  <2>. HIDE DEF X, S
  <2>. QED
    BY <1>1, <1>4, <2>1, <2>2, <2>3, XmppKeepsType DEF memory, ghosts, bounded, X, S
<1>9. ASSUME NEW e \in Events, NEW on \in BOOLEAN, edit_ControlEvent(e, on)
      PROVE  TypeOK'
  <2>1. /\ Request
        /\ attr' = [attr EXCEPT ![e] = [attr[e] EXCEPT !.on = on]]
        /\ xmpp' = [pc |-> "modify", ev |-> {e}, dev |-> {}]
        /\ UNCHANGED <<clock, up, trig, armed, list, db, work, save, ghosts, heard, stops>>
    BY <1>9 DEF edit_ControlEvent
  <2>2. [attr[e] EXCEPT !.on = on] \in Attr
    BY <1>1 DEF Attr
  <2>3. attr' \in [Events -> Attr] /\ xmpp' \in X
    BY <1>1, <2>1, <2>2
  <2>4. ListOnce'
    <3>1. e \in made
      BY <1>1, <1>9 DEF edit_ControlEvent, ListOnce
    <3>. QED
      BY <1>1, <1>5, <2>1, <3>1 DEF db
  <2>. HIDE DEF X, S
  <2>. QED
    BY <1>1, <1>3, <2>1, <2>3, <2>4, XmppKeepsType DEF db, ghosts, X, S
<1>10. ASSUME NEW e \in Events, SaveToDb(e)
       PROVE  TypeOK'
  <2>1. /\ xmpp.pc = "insert" /\ e \in xmpp.ev
        /\ rows' = [rows EXCEPT ![e] = {attr[e]}]
        /\ xmpp' = [xmpp EXCEPT !.pc = "sort"]
        /\ UNCHANGED <<clock, up, memory, state, code, devs, made, work, save, ghosts,
                       bounded>>
    BY <1>10 DEF SaveToDb
  <2>2. rows' \in [Events -> SUBSET Attr] /\ xmpp' \in X
    BY <1>1, <2>1
  <2>3. e \in made
    BY <1>1, <2>1 DEF ListOnce
  <2>4. ListOnce'
    BY <1>1, <1>5, <2>1, <2>3 DEF memory, ListOnce
  <2>. HIDE DEF X, S
  <2>. QED
    BY <1>1, <1>4, <2>1, <2>2, <2>4, XmppKeepsType DEF memory, ghosts, bounded, X, S
<1>11. ASSUME NEW e \in Events, DeleteEvent(e)
       PROVE  TypeOK'
  <2>1. /\ Request
        /\ rows' = [rows EXCEPT ![e] = {}]
        /\ xmpp' = [pc |-> "remove", ev |-> {e}, dev |-> {}]
        /\ UNCHANGED <<clock, up, memory, state, code, devs, made, work, save, ghosts,
                       heard, stops>>
    BY <1>11 DEF DeleteEvent
  <2>2. rows' \in [Events -> SUBSET Attr] /\ xmpp' \in X
    BY <1>1, <2>1
  <2>3. ListOnce'
    <3>1. e \in made
      BY <1>1, <1>11 DEF DeleteEvent, ListOnce
    <3>. QED
      BY <1>1, <1>5, <2>1, <3>1 DEF memory
  <2>. HIDE DEF X, S
  <2>. QED
    BY <1>1, <1>3, <2>1, <2>2, <2>3, XmppKeepsType DEF memory, ghosts, X, S
<1>12. ASSUME NEW i \in DOMAIN list, RemoveEvent(i)
       PROVE  TypeOK'
  <2>1. /\ xmpp.pc = "remove"
        /\ list' = SubSeq(list, 1, i - 1) \o SubSeq(list, i + 1, Len(list))
        /\ attr' = [attr EXCEPT ![list[i]] = NoAttr]
        /\ xmpp' = Free
        /\ UNCHANGED <<clock, up, trig, armed, db, work, save, ghosts, bounded>>
    BY <1>12 DEF RemoveEvent
  <2>2. /\ list' \in Seq(Events) /\ Elements(list') = Elements(list) \ {list[i]}
        /\ \A j, k \in DOMAIN list' : list'[j] = list'[k] => j = k
    BY <1>1, <2>1, RemoveOnce DEF ListOnce
  <2>3. ListOnce'
    BY <1>1, <1>2, <2>1, <2>2 DEF ListOnce, db, Free
  <2>4. attr' \in [Events -> Attr]
    BY <1>1, <2>1, Constants0
  <2>. HIDE DEF X, S
  <2>. QED
    BY <1>1, <1>2, <1>4, <2>1, <2>2, <2>3, <2>4, XmppKeepsType
       DEF db, ghosts, bounded, X, S
<1>13. CASE SortEvents
  <2>1. /\ xmpp.pc = "sort" /\ list' \in Orders(Elements(list))
        /\ xmpp' = Free
        /\ UNCHANGED <<clock, up, trig, armed, attr, db, work, save, ghosts, bounded>>
    BY <1>13 DEF SortEvents
  <2>2. Elements(list) \subseteq Events
    BY <1>1 DEF Elements
  <2>3. IsFiniteSet(Elements(list))
    BY <2>2, AlarmGuardAssumption, FS_Subset
  <2>4. /\ list' \in Seq(Elements(list)) /\ Elements(list') = Elements(list)
        /\ \A i, j \in DOMAIN list' : list'[i] = list'[j] => i = j
    BY <2>1, <2>3, OrderOnce
  <2>5. list' \in Seq(Events)
    BY <2>2, <2>4, SeqMonotonic
  <2>6. ListOnce'
    BY <1>1, <2>1, <2>4 DEF ListOnce, db, Free
  <2>. HIDE DEF X, S
  <2>. QED
    BY <1>1, <1>2, <1>4, <2>1, <2>5, <2>6, XmppKeepsType DEF db, ghosts, bounded, X, S
<1>14. ASSUME NEW t \in Triggers, DeleteDeviceEvent(t)
       PROVE  TypeOK'
  <2>1. /\ Request
        /\ rows' = [e \in Events |-> IF TriggerOf[e] = t THEN {} ELSE rows[e]]
        /\ xmpp' = [pc |-> "device", ev |-> {}, dev |-> {t}]
        /\ UNCHANGED <<clock, up, memory, state, code, devs, made, work, save, ghosts,
                       heard, stops>>
    BY <1>14 DEF DeleteDeviceEvent
  <2>2. rows' \in [Events -> SUBSET Attr] /\ xmpp' \in X
    BY <1>1, <2>1
  <2>3. ListOnce'
    BY <1>1, <1>5, <2>1 DEF memory, ListOnce
  <2>. HIDE DEF X, S
  <2>. QED
    BY <1>1, <1>3, <2>1, <2>2, <2>3, XmppKeepsType DEF memory, ghosts, X, S
<1>15. CASE DeleteDevice
  <2>1. /\ xmpp.pc = "device" /\ devs' = devs \ xmpp.dev /\ xmpp' = Free
        /\ UNCHANGED <<clock, up, memory, rows, state, code, made, work, save, ghosts,
                       bounded>>
    BY <1>15 DEF DeleteDevice
  <2>2. ListOnce'
    BY <1>1, <1>5, <2>1 DEF memory, Free
  <2>. HIDE DEF X, S
  <2>. QED
    BY <1>1, <1>2, <1>4, <2>1, <2>2, XmppKeepsType DEF memory, ghosts, bounded, X, S
<1>. QED
  BY <1>6, <1>7, <1>8, <1>9, <1>10, <1>11, <1>12, <1>13, <1>14, <1>15

LEMMA TypeStep ==
  ASSUME TypeOK, [Next]_vars
  PROVE  TypeOK'
<1>1. CASE Tick
  <2>1. clock' \in Nat
    BY <1>1 DEF Tick, TypeOK
  <2>. QED
    BY <1>1, <2>1 DEF Tick, TypeOK, MemoryType, DatabaseType, ThreadsType, GhostsType,
       ListOnce, Elements, Stopped, memory, db, threads, ghosts, bounded
<1>2. CASE UNCHANGED vars
  BY <1>2 DEF vars, TypeOK, MemoryType, DatabaseType, ThreadsType, GhostsType,
     ListOnce, Elements, Stopped, memory, db, threads, ghosts, bounded
<1>. QED
  BY <1>1, <1>2, StartType, StopType, SaveType, LinkType, XmppType, Zenon DEF Next

(* The type invariant holds.                                               *)
THEOREM TypeCorrect == Spec => []TypeOK
BY TypeInit, TypeStep, PTL DEF Spec

-----------------------------------------------------------------------------
(* What is armed is decided once for an alarm.                             *)

(* A thread that is not running events has run and refused none; one that  *)
(* is has refused none if alarms are allowed, and run none otherwise.      *)
Decided ==
  \A l \in Links :
    /\ work[l].pc # "run" => work[l].ran = {} /\ work[l].refused = {}
    /\ work[l].go => work[l].refused = {}
    /\ ~work[l].go => work[l].ran = {}

LEMMA DecidedLink ==
  ASSUME TypeOK, Decided, NEW l \in Links,
         \/ \E t \in Triggers : OnDeviceData_RFSignal(l, t)
         \/ CountSignal(l) \/ CheckTrigger(l) \/ BeginAlarm(l) \/ CopyEvents(l)
         \/ DoControlEvent(l) \/ SkipEvent(l) \/ EndAlarm(l)
  PROVE  Decided'
<1>. DEFINE W == work[l]
            D(w) == /\ w.pc # "run" => w.ran = {} /\ w.refused = {}
                    /\ w.go => w.refused = {}
                    /\ ~w.go => w.ran = {}
<1>1. W \in Work /\ D(W) /\ work \in [Links -> Work]
  BY DEF TypeOK, ThreadsType, Decided
<1>2. ASSUME NEW w, Step(l, w), D(w)
      PROVE  Decided'
  <2>1. work' = [work EXCEPT ![l] = w]
    BY <1>2 DEF Step
  <2>. SUFFICES ASSUME NEW k \in Links PROVE D(work'[k])
    BY DEF Decided
  <2>2. CASE k = l
    BY <1>1, <1>2, <2>1, <2>2
  <2>3. CASE k # l
    BY <1>1, <2>1, <2>3 DEF Decided
  <2>. QED
    BY <2>2, <2>3
<1>3. D(Resting)
  BY DEF Resting
<1>4. ASSUME NEW t \in Triggers, OnDeviceData_RFSignal(l, t)
      PROVE  Decided'
  <2>. DEFINE seen == CompareTick(t)
              w == [Resting EXCEPT !.pc = "count", !.trig = t, !.seen = seen]
  <2>1. Step(l, w)
    BY <1>4 DEF OnDeviceData_RFSignal
  <2>. HIDE DEF seen
  <2>2. D(w)
    BY DEF Resting
  <2>. HIDE DEF w
  <2>. QED
    BY <1>2, <2>1, <2>2
<1>5. CASE CountSignal(l)
  <2>. DEFINE w == [W EXCEPT !.pc = "check", !.seen = Unheard]
  <2>1. Step(l, w) /\ W.pc = "count"
    BY <1>5 DEF CountSignal
  <2>2. D(w)
    BY <1>1, <2>1 DEF Work
  <2>. HIDE DEF w
  <2>. QED
    BY <1>2, <2>1, <2>2
<1>6. CASE CheckTrigger(l)
  <2>. DEFINE w == [W EXCEPT !.pc = "mark"]
  <2>1. (Step(l, w) \/ Step(l, Resting)) /\ W.pc = "check"
    BY <1>6 DEF CheckTrigger
  <2>2. D(w)
    BY <1>1, <2>1 DEF Work
  <2>. HIDE DEF w
  <2>. QED
    BY <1>2, <1>3, <2>1, <2>2
<1>7. CASE BeginAlarm(l)
  <2>1. PICK valid \in BOOLEAN :
          Step(l, [W EXCEPT !.pc = "alarm", !.go = valid /\ armed[AllDevices]])
    BY <1>7 DEF BeginAlarm
  <2>. DEFINE go == valid /\ armed[AllDevices]
              w == [W EXCEPT !.pc = "alarm", !.go = go]
  <2>2. W.pc = "mark" /\ Step(l, w)
    BY <1>7, <2>1 DEF BeginAlarm
  <2>. HIDE DEF go
  <2>3. D(w)
    BY <1>1, <2>2 DEF Work
  <2>. HIDE DEF w
  <2>. QED
    BY <1>2, <2>2, <2>3
<1>8. CASE CopyEvents(l)
  <2>. DEFINE go == W.go /\ armed[W.trig]
              torn == xmpp.pc \in {"insert", "sort", "remove"}
              w == [W EXCEPT !.pc = "run", !.go = go, !.rest = list, !.torn = torn]
  <2>1. W.pc = "alarm" /\ Step(l, w)
    BY <1>8 DEF CopyEvents
  <2>. HIDE DEF go, torn
  <2>2. D(w)
    BY <1>1, <2>1 DEF Work
  <2>. HIDE DEF w
  <2>. QED
    BY <1>2, <2>1, <2>2
<1>9. CASE DoControlEvent(l)
  <2>. DEFINE e == Head(W.rest)
              ran == IF Freed(e) \/ attr[e].force THEN W.ran ELSE W.ran \cup {e}
              rest == Tail(W.rest)
              w == [W EXCEPT !.rest = rest, !.ran = ran]
  <2>1. W.pc = "run" /\ Step(l, w)
    BY <1>9 DEF DoControlEvent, Running
  <2>2. W.go \/ ran = W.ran
    BY <1>9 DEF DoControlEvent, Allowed
  <2>. HIDE DEF ran, rest
  <2>3. D(w)
    BY <1>1, <2>1, <2>2 DEF Work
  <2>. HIDE DEF w
  <2>. QED
    BY <1>2, <2>1, <2>3
<1>10. CASE SkipEvent(l)
  <2>. DEFINE e == Head(W.rest)
              refused == IF ~Freed(e) /\ Mine(l, e) /\ ~Allowed(l, e)
                         THEN W.refused \cup {e} ELSE W.refused
              rest == Tail(W.rest)
              w == [W EXCEPT !.rest = rest, !.refused = refused]
  <2>1. W.pc = "run" /\ Step(l, w)
    BY <1>10 DEF SkipEvent, Running
  <2>2. ~W.go \/ refused = W.refused
    BY DEF Allowed
  <2>. HIDE DEF refused, rest
  <2>3. D(w)
    BY <1>1, <2>1, <2>2 DEF Work
  <2>. HIDE DEF w
  <2>. QED
    BY <1>2, <2>1, <2>3
<1>11. CASE EndAlarm(l)
  BY <1>2, <1>3, <1>11 DEF EndAlarm
<1>. QED
  BY <1>4, <1>5, <1>6, <1>7, <1>8, <1>9, <1>10, <1>11

LEMMA DecidedStep ==
  ASSUME TypeOK, Decided, [Next]_vars
  PROVE  Decided'
<1>1. ASSUME UNCHANGED work
      PROVE  Decided'
  BY <1>1 DEF Decided
<1>2. CASE Stop
  <2>1. \A l \in Links : work'[l] = Resting
    BY <1>2 DEF Stop
  <2>2. Resting.ran = {} /\ Resting.refused = {}
    BY DEF Resting
  <2>. QED
    BY <2>1, <2>2 DEF Decided
<1>3. CASE \/ Tick \/ Start
           \/ \E p \in Threads : SaveDB_find(p) \/ SaveDB_read(p) \/ SaveDB_write(p)
           \/ UNCHANGED vars
  BY <1>1, <1>3 DEF Tick, Start, SaveDB_find, SaveDB_read, SaveDB_write, vars, threads
<1>4. CASE \/ \E x \in Targets, v \in BOOLEAN : SetState(x, v)
           \/ \E e \in Events :
                \/ \E a \in Asked : AddEvent(e, a) \/ ModifyEvent(e, a)
                \/ \E on \in BOOLEAN : edit_ControlEvent(e, on)
                \/ SaveToDb(e) \/ DeleteEvent(e)
           \/ \E i \in DOMAIN list : RemoveEvent(i)
           \/ SortEvents
           \/ \E t \in Triggers : DeleteDeviceEvent(t)
           \/ DeleteDevice
  BY <1>1, <1>4 DEF SetState, AddEvent, ModifyEvent, edit_ControlEvent, SaveToDb,
     DeleteEvent, RemoveEvent, SortEvents, DeleteDeviceEvent, DeleteDevice
<1>. QED
  BY <1>2, <1>3, <1>4, DecidedLink, Zenon DEF Next

(* No alarm runs one event and refuses another.                            *)
THEOREM DecidedOnce == Spec => []OneDecision
<1>1. Init => Decided
  BY DEF Init, Decided, Resting
<1>2. Decided => OneDecision
  BY DEF Decided, OneDecision
<1>. QED
  BY <1>1, <1>2, TypeCorrect, DecidedStep, PTL DEF Spec

-----------------------------------------------------------------------------
(* The list and the tables have the same events.                           *)

(* The events that are in the list without a row are the one that is being *)
(* added or deleted, and those of a trigger that is being deleted or is.   *)
Between(e) ==
    \/ xmpp.pc \in {"insert", "remove"} /\ e \in xmpp.ev
    \/ xmpp.pc = "device" /\ TriggerOf[e] \in xmpp.dev

Listed ==
    /\ \A a, b \in xmpp.ev : a = b
    /\ xmpp.pc = "insert" => xmpp.ev \subseteq Elements(list)
    /\ xmpp.pc = "remove" => \A e \in xmpp.ev : rows[e] = {}
    /\ up => \A e \in Events :
         /\ rows[e] # {} => e \in Elements(list)
         /\ e \in Elements(list) /\ TriggerOf[e] \in devs => rows[e] # {} \/ Between(e)

LEMMA ListedStart ==
  ASSUME TypeOK, Listed, Start
  PROVE  Listed'
<1>1. /\ list' \in Orders({e \in Events : rows[e] # {}})
      /\ UNCHANGED <<rows, xmpp, devs>>
  BY DEF Start, db, threads
<1>2. xmpp = Free
  BY DEF Start, TypeOK, Stopped
<1>3. IsFiniteSet({e \in Events : rows[e] # {}})
  BY AlarmGuardAssumption, FS_Subset
<1>4. Elements(list') = {e \in Events : rows[e] # {}}
  BY <1>1, <1>3, OrderOnce
<1>. QED
  BY <1>1, <1>2, <1>4 DEF Listed, Free

LEMMA ListedXmpp ==
  ASSUME TypeOK, Listed,
         \/ \E x \in Targets, v \in BOOLEAN : SetState(x, v)
         \/ \E e \in Events :
              \/ \E a \in Asked : AddEvent(e, a) \/ ModifyEvent(e, a)
              \/ \E on \in BOOLEAN : edit_ControlEvent(e, on)
              \/ SaveToDb(e) \/ DeleteEvent(e)
         \/ \E i \in DOMAIN list : RemoveEvent(i)
         \/ SortEvents
         \/ \E t \in Triggers : DeleteDeviceEvent(t)
         \/ DeleteDevice
  PROVE  Listed'
<1>1. /\ rows \in [Events -> SUBSET Attr] /\ list \in Seq(Events)
      /\ TriggerOf \in [Events -> Triggers] /\ devs \subseteq Triggers
      /\ \A i, j \in DOMAIN list : list[i] = list[j] => i = j
      /\ xmpp \in [pc : {"idle", "insert", "sort", "modify", "remove", "device"},
                  ev : SUBSET Events, dev : SUBSET Triggers]
  BY AlarmGuardAssumption DEF TypeOK, MemoryType, DatabaseType, ThreadsType, ListOnce
<1>2. Free.pc = "idle" /\ Free.ev = {}
  BY DEF Free
<1>3. up
  BY AtWork DEF SetState, AddEvent, ModifyEvent, edit_ControlEvent, SaveToDb,
     DeleteEvent, RemoveEvent, SortEvents, DeleteDeviceEvent, DeleteDevice, Request
<1>4. \A e \in Events :
        /\ rows[e] # {} => e \in Elements(list)
        /\ e \in Elements(list) /\ TriggerOf[e] \in devs => rows[e] # {} \/ Between(e)
  BY <1>3 DEF Listed
<1>5. ASSUME NEW x \in Targets, NEW v \in BOOLEAN, SetState(x, v)
      PROVE  Listed'
  BY <1>5 DEF SetState, Request, db, Listed, Between
<1>6. ASSUME NEW e \in Events, NEW a \in Asked, AddEvent(e, a)
      PROVE  Listed'
  <2>1. /\ xmpp.pc = "idle" /\ e \notin made
        /\ list' = Append(list, e)
        /\ xmpp' = [pc |-> "insert", ev |-> {e}, dev |-> {}]
        /\ UNCHANGED <<rows, devs>>
    BY <1>6 DEF AddEvent, Request
  <2>2. Elements(list') = Elements(list) \cup {e}
    BY <1>1, <2>1, AppendOnce DEF TypeOK, ListOnce
  <2>3. xmpp'.pc = "insert" /\ xmpp'.ev = {e}
    BY <2>1
  <2>. QED
    BY <1>4, <2>1, <2>2, <2>3 DEF Listed, Between
<1>7. ASSUME NEW e \in Events, NEW a \in Asked, ModifyEvent(e, a)
      PROVE  Listed'
  <2>1. /\ xmpp.pc = "modify" /\ xmpp'.pc = "sort" /\ xmpp'.ev = xmpp.ev
        /\ rows' = [rows EXCEPT ![e] = IF @ = {} THEN {} ELSE {a}]
        /\ UNCHANGED <<list, devs>>
    BY <1>1, <1>7 DEF ModifyEvent, memory
  <2>2. \A d \in Events : rows'[d] = {} <=> rows[d] = {}
    BY <1>1, <2>1
  <2>. QED
    BY <1>4, <2>1, <2>2 DEF Listed, Between, Elements
<1>8. ASSUME NEW e \in Events, NEW on \in BOOLEAN, edit_ControlEvent(e, on)
      PROVE  Listed'
  <2>1. /\ xmpp.pc = "idle" /\ xmpp' = [pc |-> "modify", ev |-> {e}, dev |-> {}]
        /\ UNCHANGED <<rows, list, devs>>
    BY <1>8 DEF edit_ControlEvent, Request, db
  <2>2. xmpp'.pc = "modify" /\ xmpp'.ev = {e}
    BY <2>1
  <2>. QED
    BY <1>4, <2>1, <2>2 DEF Listed, Between, Elements
<1>9. ASSUME NEW e \in Events, SaveToDb(e)
      PROVE  Listed'
  <2>1. /\ xmpp.pc = "insert" /\ e \in xmpp.ev
        /\ xmpp'.pc = "sort" /\ xmpp'.ev = xmpp.ev
        /\ rows' = [rows EXCEPT ![e] = {attr[e]}]
        /\ UNCHANGED <<list, devs>>
    BY <1>1, <1>9 DEF SaveToDb, memory
  <2>2. \A d \in Events : rows'[d] # {} <=> rows[d] # {} \/ d = e
    BY <1>1, <2>1
  <2>3. e \in Elements(list) /\ \A d \in xmpp.ev : d = e
    BY <2>1 DEF Listed
  <2>. QED
    BY <1>4, <2>1, <2>2, <2>3 DEF Listed, Between, Elements
<1>10. ASSUME NEW e \in Events, DeleteEvent(e)
       PROVE  Listed'
  <2>1. /\ xmpp.pc = "idle" /\ xmpp' = [pc |-> "remove", ev |-> {e}, dev |-> {}]
        /\ rows' = [rows EXCEPT ![e] = {}]
        /\ UNCHANGED <<list, devs>>
    BY <1>10 DEF DeleteEvent, Request, memory
  <2>2. xmpp'.pc = "remove" /\ xmpp'.ev = {e}
    BY <2>1
  <2>3. \A d \in Events : rows'[d] # {} <=> rows[d] # {} /\ d # e
    BY <1>1, <2>1
  <2>4. rows'[e] = {}
    BY <1>1, <2>1
  <2>. QED
    BY <1>4, <2>1, <2>2, <2>3, <2>4 DEF Listed, Between, Elements
<1>11. ASSUME NEW i \in DOMAIN list, RemoveEvent(i)
       PROVE  Listed'
  <2>1. /\ xmpp.pc = "remove" /\ list[i] \in xmpp.ev
        /\ list' = SubSeq(list, 1, i - 1) \o SubSeq(list, i + 1, Len(list))
        /\ xmpp'.pc = "idle" /\ xmpp'.ev = {}
        /\ UNCHANGED <<rows, devs>>
    BY <1>2, <1>11 DEF RemoveEvent, db
  <2>2. Elements(list') = Elements(list) \ {list[i]}
    BY <1>1, <2>1, RemoveOnce
  <2>3. rows[list[i]] = {} /\ \A d \in xmpp.ev : d = list[i]
    BY <2>1 DEF Listed
  <2>. QED
    BY <1>4, <2>1, <2>2, <2>3 DEF Listed, Between
<1>12. CASE SortEvents
  <2>1. /\ xmpp.pc = "sort" /\ list' \in Orders(Elements(list))
        /\ xmpp'.pc = "idle" /\ xmpp'.ev = {}
        /\ UNCHANGED <<rows, devs>>
    BY <1>2, <1>12 DEF SortEvents, db
  <2>2. Elements(list) \subseteq Events
    BY <1>1 DEF Elements
  <2>3. Elements(list') = Elements(list)
    BY <2>1, <2>2, AlarmGuardAssumption, FS_Subset, OrderOnce
  <2>. QED
    BY <1>4, <2>1, <2>3 DEF Listed, Between
<1>13. ASSUME NEW t \in Triggers, DeleteDeviceEvent(t)
       PROVE  Listed'
  <2>1. /\ xmpp.pc = "idle" /\ xmpp' = [pc |-> "device", ev |-> {}, dev |-> {t}]
        /\ rows' = [e \in Events |-> IF TriggerOf[e] = t THEN {} ELSE rows[e]]
        /\ UNCHANGED <<list, devs>>
    BY <1>13 DEF DeleteDeviceEvent, Request, memory
  <2>2. xmpp'.pc = "device" /\ xmpp'.ev = {} /\ xmpp'.dev = {t}
    BY <2>1
  <2>3. \A d \in Events : rows'[d] # {} <=> rows[d] # {} /\ TriggerOf[d] # t
    BY <1>1, <2>1
  <2>. QED
    BY <1>4, <2>1, <2>2, <2>3 DEF Listed, Between, Elements
<1>14. CASE DeleteDevice
  <2>1. /\ xmpp.pc = "device" /\ devs' = devs \ xmpp.dev
        /\ xmpp'.pc = "idle" /\ xmpp'.ev = {}
        /\ UNCHANGED <<rows, list>>
    BY <1>2, <1>14 DEF DeleteDevice, memory
  <2>. QED
    BY <1>4, <2>1 DEF Listed, Between, Elements
<1>. QED
  BY <1>5, <1>6, <1>7, <1>8, <1>9, <1>10, <1>11, <1>12, <1>13, <1>14

LEMMA ListedStep ==
  ASSUME TypeOK, Listed, [Next]_vars
  PROVE  Listed'
<1>1. ASSUME UNCHANGED <<up, rows, list, xmpp, devs>>
      PROVE  Listed'
  BY <1>1 DEF Listed, Between, Elements
<1>2. CASE Stop
  <2>1. ~up' /\ xmpp'.ev = {} /\ xmpp'.pc = "idle"
    BY <1>2 DEF Stop, Free
  <2>. QED
    BY <2>1 DEF Listed
<1>3. CASE \/ Tick \/ UNCHANGED vars
           \/ \E p \in Threads : SaveDB_find(p) \/ SaveDB_read(p) \/ SaveDB_write(p)
  BY <1>1, <1>3 DEF Tick, SaveDB_find, SaveDB_read, SaveDB_write, vars, threads, memory,
     db
<1>4. ASSUME NEW l \in Links,
             \/ \E t \in Triggers : OnDeviceData_RFSignal(l, t)
             \/ CountSignal(l) \/ CheckTrigger(l) \/ BeginAlarm(l) \/ CopyEvents(l)
             \/ DoControlEvent(l) \/ SkipEvent(l) \/ EndAlarm(l)
      PROVE  Listed'
  BY <1>1, <1>4 DEF OnDeviceData_RFSignal, CountSignal, CheckTrigger, BeginAlarm,
     CopyEvents, DoControlEvent, SkipEvent, EndAlarm, memory, db
<1>. QED
  BY <1>2, <1>3, <1>4, ListedStart, ListedXmpp, Zenon DEF Next

(* Between requests, the list and the tables have the same events.         *)
THEOREM EventsAgree == Spec => []SameEvents
<1>1. Init => Listed
  BY DEF Init, Listed, Free
<1>2. Listed => SameEvents
  BY DEF Listed, Between, SameEvents
<1>. QED
  BY <1>1, <1>2, TypeCorrect, ListedStep, PTL DEF Spec

-----------------------------------------------------------------------------
(* What is armed is kept.                                                  *)

(* One thread at a time saves it; a thread about to write has what is      *)
(* armed, and knows whether there is a row for the flag, of which there is *)
(* never more than one.                                                    *)
OneSaver(x) == \A p, q \in Threads : Saving(p, x) /\ Saving(q, x) => p = q

InHand(x) ==
    \A p \in Threads : Saving(p, x) =>
      /\ save[p].pc = "write" => save[p].val = armed[x]
      /\ x = AllDevices /\ save[p].pc # "find" => (save[p].has <=> code # <<>>)

AsStored(x) == (\A p \in Threads : ~Saving(p, x)) => Stored(x) = armed[x]

Kept(x) == x \notin crossed => OneSaver(x) /\ InHand(x) /\ (up => AsStored(x))

AllKept ==
    /\ \A x \in devs \cup {AllDevices} : Kept(x)
    /\ AllDevices \notin crossed => Len(code) <= 1

LEMMA KeptInit == Init => AllKept
<1>. SUFFICES ASSUME Init PROVE AllKept
  OBVIOUS
<1>1. \A p \in Threads : \A x : ~Saving(p, x)
  BY DEF Init, Saving, NoSave
<1>2. ~up /\ code = <<>>
  BY DEF Init
<1>. QED
  BY <1>1, <1>2 DEF AllKept, Kept, OneSaver, InHand

(* A change, by a thread that is not saving.                               *)
LEMMA KeptChange ==
  ASSUME TypeOK, AllKept, NEW p \in Threads, save[p].pc = "none",
         NEW y \in Targets, NEW v \in BOOLEAN, Change(p, y, v),
         UNCHANGED <<up, state, code, devs>>
  PROVE  AllKept'
<1>1. /\ armed \in [Targets -> BOOLEAN] /\ devs \subseteq Triggers
      /\ DOMAIN save = Threads
      /\ \A q \in Threads : save[q] \in [pc : {"none", "find", "read", "write"},
                              what : Targets, has : BOOLEAN, val : BOOLEAN]
  BY DEF TypeOK, MemoryType, DatabaseType, ThreadsType
<1>2. armed' = [armed EXCEPT ![y] = v]
  BY DEF Change
<1>3. /\ save'[p].what = y /\ save'[p].has = FALSE
      /\ save'[p].pc = IF y = AllDevices THEN "find" ELSE "read"
      /\ \A q \in Threads \ {p} : save'[q] = save[q]
  <2>. DEFINE r == [pc |-> IF y = AllDevices THEN "find" ELSE "read", what |-> y,
                    has |-> FALSE, val |-> FALSE]
  <2>1. save' = [save EXCEPT ![p] = r]
    BY DEF Change
  <2>2. r.what = y /\ r.has = FALSE /\ r.pc = IF y = AllDevices THEN "find" ELSE "read"
    OBVIOUS
  <2>. HIDE DEF r
  <2>. QED
    BY <1>1, <2>1, <2>2
<1>4. \A q \in Threads, x \in Targets :
        Saving(q, x)' <=> IF q = p THEN x = y ELSE Saving(q, x)
  BY <1>3 DEF Saving
<1>5. crossed \subseteq crossed'
  BY DEF Change
<1>6. \A x \in Targets : ~Saving(p, x)
  BY DEF Saving
<1>7. ASSUME NEW x \in devs \cup {AllDevices}
      PROVE  Kept(x)'
  <2>1. x \in Targets /\ Kept(x)
    BY <1>1 DEF AllKept, Targets
  <2>. SUFFICES ASSUME x \notin crossed'
                PROVE  OneSaver(x)' /\ InHand(x)' /\ (up' => AsStored(x)')
    BY DEF Kept
  <2>2. OneSaver(x) /\ InHand(x) /\ (up => AsStored(x))
    BY <1>5, <2>1 DEF Kept
  <2>3. CASE x = y
    <3>1. \A q \in Threads \ {p} : ~Saving(q, x)
      BY <2>3 DEF Change
    <3>2. OneSaver(x)'
      BY <1>4, <2>1, <3>1 DEF OneSaver
    <3>3. InHand(x)'
      BY <1>3, <1>4, <2>1, <2>3, <3>1 DEF InHand
    <3>4. AsStored(x)'
      BY <1>4, <2>1, <2>3 DEF AsStored
    <3>. QED
      BY <3>2, <3>3, <3>4
  <2>4. CASE x # y
    <3>1. \A q \in Threads : Saving(q, x)' <=> Saving(q, x)
      BY <1>4, <1>6, <2>1, <2>4
    <3>2. \A q \in Threads : Saving(q, x) => save'[q] = save[q]
      BY <1>3, <1>6, <2>1
    <3>3. armed'[x] = armed[x]
      BY <1>1, <1>2, <2>1, <2>4
    <3>4. Stored(x)' = Stored(x)
      BY DEF Stored
    <3>. QED
      BY <2>2, <3>1, <3>2, <3>3, <3>4 DEF OneSaver, InHand, AsStored
  <2>. QED
    BY <2>3, <2>4
<1>. QED
  BY <1>5, <1>7 DEF AllKept

LEMMA KeptSame ==
  ASSUME TypeOK, AllKept, UNCHANGED <<up, armed, state, code, save, crossed>>,
         devs' \subseteq devs
  PROVE  AllKept'
<1>1. \A x : Stored(x)' = Stored(x)
  BY DEF Stored
<1>2. \A p \in Threads : \A x : Saving(p, x)' <=> Saving(p, x)
  BY DEF Saving
<1>3. ASSUME NEW x, Kept(x)
      PROVE  Kept(x)'
  BY <1>1, <1>2, <1>3 DEF Kept, OneSaver, InHand, AsStored
<1>. QED
  BY <1>3 DEF AllKept

LEMMA KeptStart ==
  ASSUME TypeOK, AllKept, Start
  PROVE  AllKept'
<1>1. /\ armed' = [x \in Targets |-> Stored(x)]
      /\ UNCHANGED <<state, code, devs, save, crossed>>
  BY DEF Start, db, threads, ghosts
<1>2. \A p \in Threads, x \in Targets : ~Saving(p, x)'
  BY <1>1 DEF Start, TypeOK, Stopped, Saving, NoSave
<1>3. \A x \in Targets : Stored(x)' = armed'[x]
  BY <1>1 DEF Stored
<1>4. devs \cup {AllDevices} \subseteq Targets
  BY DEF TypeOK, DatabaseType, Targets
<1>. QED
  BY <1>1, <1>2, <1>3, <1>4 DEF AllKept, Kept, OneSaver, InHand, AsStored

LEMMA KeptStop ==
  ASSUME TypeOK, AllKept, Stop
  PROVE  AllKept'
<1>1. \A p \in Threads : \A x : ~Saving(p, x)'
  <2>1. \A p \in Threads : save'[p] = NoSave
    BY DEF Stop
  <2>2. NoSave.pc = "none"
    BY DEF NoSave
  <2>. QED
    BY <2>1, <2>2 DEF Saving
<1>2. ~up' /\ UNCHANGED <<code, devs, crossed>>
  BY DEF Stop, db
<1>. QED
  BY <1>1, <1>2 DEF AllKept, Kept, OneSaver, InHand

LEMMA KeptSave ==
  ASSUME TypeOK, AllKept, NEW p \in Threads, SaveDB_find(p) \/ SaveDB_read(p)
  PROVE  AllKept'
<1>. DEFINE r == save[p]
<1>1. /\ DOMAIN save = Threads
      /\ r \in [pc : {"none", "find", "read", "write"}, what : Targets,
                has : BOOLEAN, val : BOOLEAN]
  BY DEF TypeOK, ThreadsType
<1>2. UNCHANGED <<up, armed, state, code, devs, crossed>>
  BY DEF SaveDB_find, SaveDB_read, memory, db, ghosts
<1>3. /\ save'[p].what = r.what /\ save'[p].pc \in {"read", "write"}
      /\ \/ r.pc = "find" /\ save'[p].pc = "read" /\ (save'[p].has <=> code # <<>>)
         \/ r.pc = "read" /\ save'[p].val = armed[r.what] /\ save'[p].has = r.has
      /\ \A q \in Threads \ {p} : save'[q] = save[q]
  <2>1. CASE SaveDB_find(p)
    <3>. DEFINE has == code # <<>>
                s == [r EXCEPT !.pc = "read", !.has = has]
    <3>1. save' = [save EXCEPT ![p] = s] /\ r.pc = "find"
      BY <2>1 DEF SaveDB_find
    <3>2. has \in BOOLEAN /\ (has <=> code # <<>>)
      OBVIOUS
    <3>. HIDE DEF has
    <3>3. s.what = r.what /\ s.pc = "read" /\ s.has = has
      BY <1>1
    <3>. HIDE DEF s
    <3>4. save'[p] = s /\ \A q \in Threads \ {p} : save'[q] = save[q]
      BY <1>1, <3>1
    <3>. QED
      BY <3>1, <3>2, <3>3, <3>4
  <2>2. CASE SaveDB_read(p)
    <3>. DEFINE s == [r EXCEPT !.pc = "write", !.val = armed[r.what]]
    <3>1. save' = [save EXCEPT ![p] = s] /\ r.pc = "read"
      BY <2>2 DEF SaveDB_read
    <3>2. s.what = r.what /\ s.pc = "write" /\ s.val = armed[r.what] /\ s.has = r.has
      BY <1>1
    <3>. HIDE DEF s
    <3>3. save'[p] = s /\ \A q \in Threads \ {p} : save'[q] = save[q]
      BY <1>1, <3>1
    <3>. QED
      BY <3>1, <3>2, <3>3
  <2>. QED
    BY <2>1, <2>2
<1>4. \A q \in Threads : \A x : Saving(q, x)' <=> Saving(q, x)
  BY <1>3 DEF Saving
<1>5. ASSUME NEW x \in devs \cup {AllDevices}, Kept(x)
      PROVE  Kept(x)'
  <2>. SUFFICES ASSUME x \notin crossed
                PROVE  OneSaver(x)' /\ InHand(x)' /\ (up => AsStored(x)')
    BY <1>2 DEF Kept
  <2>1. OneSaver(x) /\ InHand(x) /\ (up => AsStored(x))
    BY <1>5 DEF Kept
  <2>2. OneSaver(x)'
    BY <1>4, <2>1 DEF OneSaver
  <2>3. InHand(x)'
    <3>. SUFFICES ASSUME NEW q \in Threads, Saving(q, x)
                  PROVE  /\ save'[q].pc = "write" => save'[q].val = armed[x]
                         /\ x = AllDevices /\ save'[q].pc # "find" =>
                              (save'[q].has <=> code # <<>>)
      BY <1>2, <1>4 DEF InHand
    <3>1. CASE q = p
      <4>1. r.what = x /\ save'[p].what = x
        BY <1>3, <3>1 DEF Saving
      <4>2. x = AllDevices /\ r.pc # "find" => (r.has <=> code # <<>>)
        BY <2>1, <3>1 DEF InHand
      <4>. QED
        BY <1>3, <3>1, <4>1, <4>2
    <3>2. CASE q # p
      BY <1>3, <2>1, <3>2 DEF InHand
    <3>. QED
      BY <3>1, <3>2
  <2>4. up => AsStored(x)'
    <3>1. Stored(x)' = Stored(x) /\ armed'[x] = armed[x]
      BY <1>2 DEF Stored
    <3>. QED
      BY <1>4, <2>1, <3>1 DEF AsStored
  <2>. QED
    BY <2>2, <2>3, <2>4
<1>. QED
  BY <1>2, <1>5 DEF AllKept

LEMMA KeptWrite ==
  ASSUME TypeOK, AllKept, NEW p \in Threads, SaveDB_write(p)
  PROVE  AllKept'
<1>. DEFINE y == save[p].what
<1>1. /\ DOMAIN save = Threads /\ y \in Targets /\ save[p].val \in BOOLEAN
      /\ save[p].has \in BOOLEAN
      /\ state \in [Triggers -> BOOLEAN] /\ code \in Seq(BOOLEAN)
      /\ devs \subseteq Triggers /\ AllDevices \notin Triggers
  BY AlarmGuardAssumption DEF TypeOK, ThreadsType, DatabaseType
<1>2. save[p].pc = "write" /\ UNCHANGED <<up, armed, devs, crossed>>
  BY DEF SaveDB_write, memory, ghosts
<1>3. save'[p].pc = "none" /\ \A q \in Threads \ {p} : save'[q] = save[q]
  <2>1. save' = [save EXCEPT ![p] = NoSave]
    BY DEF SaveDB_write
  <2>2. NoSave.pc = "none"
    BY DEF NoSave
  <2>. QED
    BY <1>1, <2>1, <2>2
<1>4. \A q \in Threads : \A x : Saving(q, x)' <=> Saving(q, x) /\ q # p
  BY <1>3 DEF Saving
<1>5. Saving(p, y)
  BY <1>2 DEF Saving
<1>6. CASE y = AllDevices
  <2>1. UNCHANGED state
    BY <1>6 DEF SaveDB_write
  <2>2. AllDevices \notin crossed => Len(code') = 1 /\ code'[Len(code')] = armed[y]
    <3>. SUFFICES ASSUME AllDevices \notin crossed
                  PROVE  Len(code') = 1 /\ code'[Len(code')] = armed[y]
      OBVIOUS
    <3>. DEFINE v == save[p].val
    <3>1. v = armed[y] /\ (save[p].has <=> code # <<>>) /\ Len(code) <= 1
      BY <1>2, <1>5, <1>6 DEF AllKept, Kept, InHand
    <3>2. CASE code = <<>>
      <4>1. code' = Append(code, v)
        BY <1>6, <3>1, <3>2 DEF SaveDB_write
      <4>. HIDE DEF v
      <4>2. v \in BOOLEAN /\ Len(code) = 0
        BY <1>1, <3>2 DEF v
      <4>3. Len(code') = 1 /\ code'[1] = v
        BY <1>1, <4>1, <4>2
      <4>. QED
        BY <3>1, <4>3
    <3>3. CASE code # <<>>
      <4>1. code' = [code EXCEPT ![1] = v]
        BY <1>6, <3>1, <3>3 DEF SaveDB_write
      <4>2. Len(code) = 1
        <5>. DEFINE n == Len(code)
        <5>1. n \in Nat /\ n # 0
          BY <1>1, <3>3, EmptySeq
        <5>2. n <= 1
          BY DEF AllKept
        <5>. HIDE DEF n
        <5>3. n = 1
          BY <5>1, <5>2
        <5>. QED
          BY <5>3 DEF n
      <4>. HIDE DEF v
      <4>3. 1 \in 1 .. Len(code) /\ v \in BOOLEAN
        BY <1>1, <4>2 DEF v
      <4>. QED
        BY <1>1, <3>1, <4>1, <4>2, <4>3, ExceptSeq
    <3>. QED
      BY <3>2, <3>3
  <2>3. ASSUME NEW x \in devs \cup {AllDevices}
        PROVE  Kept(x)'
    <3>. SUFFICES ASSUME x \notin crossed
                  PROVE  OneSaver(x)' /\ InHand(x)' /\ (up => AsStored(x)')
      BY <1>2 DEF Kept
    <3>1. OneSaver(x) /\ InHand(x) /\ (up => AsStored(x))
      BY DEF AllKept, Kept
    <3>2. OneSaver(x)'
      BY <1>4, <3>1 DEF OneSaver
    <3>3. CASE x = AllDevices
      <4>1. \A q \in Threads : ~Saving(q, x)'
        BY <1>4, <1>5, <1>6, <3>1, <3>3 DEF OneSaver
      <4>2. Stored(x)' = armed'[x]
        <5>1. Len(code') = 1 /\ code'[Len(code')] = armed[x]
          BY <1>6, <2>2, <3>3
        <5>2. code' # <<>>
          BY <5>1
        <5>3. Stored(x)' = code'[Len(code')]
          BY <3>3, <5>2 DEF Stored
        <5>. QED
          BY <1>2, <5>1, <5>3
      <4>. QED
        BY <3>2, <4>1, <4>2 DEF InHand, AsStored
    <3>4. CASE x # AllDevices
      <4>1. \A q \in Threads : Saving(q, x)' <=> Saving(q, x)
        BY <1>4, <1>6, <3>4 DEF Saving
      <4>2. Stored(x)' = Stored(x)
        BY <2>1, <3>4 DEF Stored
      <4>. QED
        BY <1>2, <1>3, <1>4, <3>1, <3>2, <3>4, <4>1, <4>2 DEF InHand, AsStored
    <3>. QED
      BY <3>3, <3>4
  <2>. QED
    BY <1>2, <2>2, <2>3 DEF AllKept
<1>7. CASE y # AllDevices
  <2>1. UNCHANGED code
    BY <1>7 DEF SaveDB_write
  <2>2. y \in devs => state' = [state EXCEPT ![y] = save[p].val]
    BY <1>7 DEF SaveDB_write
  <2>3. y \notin devs => state' = state
    BY <1>7 DEF SaveDB_write
  <2>4. ASSUME NEW x \in devs \cup {AllDevices}
        PROVE  Kept(x)'
    <3>. SUFFICES ASSUME x \notin crossed
                  PROVE  OneSaver(x)' /\ InHand(x)' /\ (up => AsStored(x)')
      BY <1>2 DEF Kept
    <3>1. OneSaver(x) /\ InHand(x) /\ (up => AsStored(x))
      BY DEF AllKept, Kept
    <3>2. OneSaver(x)'
      BY <1>4, <3>1 DEF OneSaver
    <3>3. InHand(x)'
      BY <1>2, <1>3, <1>4, <2>1, <3>1 DEF InHand
    <3>4. CASE x = y
      <4>1. save[p].val = armed[y]
        BY <1>2, <1>5, <3>1, <3>4 DEF InHand
      <4>2. state'[x] = armed[x]
        BY <1>1, <1>7, <2>2, <3>4, <4>1
      <4>3. Stored(x)' = armed'[x]
        BY <1>2, <1>7, <3>4, <4>2 DEF Stored
      <4>. QED
        BY <3>2, <3>3, <4>3 DEF AsStored
    <3>5. CASE x # y
      <4>1. \A q \in Threads : Saving(q, x)' <=> Saving(q, x)
        BY <1>4, <3>5 DEF Saving
      <4>2. x # AllDevices => state'[x] = state[x]
        BY <1>1, <2>2, <2>3, <3>5
      <4>3. Stored(x)' = Stored(x)
        BY <2>1, <4>2 DEF Stored
      <4>. QED
        BY <1>2, <3>1, <3>2, <3>3, <4>1, <4>3 DEF AsStored
    <3>. QED
      BY <3>4, <3>5
  <2>. QED
    BY <1>2, <2>1, <2>4 DEF AllKept
<1>. QED
  BY <1>6, <1>7

LEMMA KeptStep ==
  ASSUME TypeOK, AllKept, [Next]_vars
  PROVE  AllKept'
<1>1. CASE Tick \/ UNCHANGED vars
  BY <1>1, KeptSame DEF Tick, vars, memory, db, threads, ghosts
<1>2. ASSUME NEW l \in Links,
             \/ \E t \in Triggers : OnDeviceData_RFSignal(l, t)
             \/ CountSignal(l) \/ CheckTrigger(l) \/ BeginAlarm(l) \/ CopyEvents(l)
             \/ SkipEvent(l) \/ EndAlarm(l)
      PROVE  AllKept'
  <2>1. UNCHANGED <<armed, db, save, crossed, up>>
    BY <1>2 DEF OnDeviceData_RFSignal, CountSignal, CheckTrigger, BeginAlarm,
       CopyEvents, SkipEvent, EndAlarm, memory, ghosts
  <2>. QED
    BY <2>1, KeptSame DEF db
<1>3. ASSUME NEW l \in Links, DoControlEvent(l)
      PROVE  AllKept'
  <2>. DEFINE e == Head(work[l].rest)
  <2>1. /\ l \in Threads /\ save[l].pc = "none" /\ work[l].rest # <<>>
        /\ UNCHANGED <<up, state, code, devs>>
    BY <1>3 DEF DoControlEvent, Running, Threads, db
  <2>2. e \in Events
    BY <2>1 DEF TypeOK, ThreadsType, Work
  <2>3. CASE \E c \in Does[e] : Change(l, c.what, c.to)
    <3>1. PICK c \in Does[e] : Change(l, c.what, c.to)
      BY <2>3
    <3>2. c.what \in Targets /\ c.to \in BOOLEAN
      BY <2>2, AlarmGuardAssumption DEF Changes
    <3>. QED
      BY <2>1, <3>1, <3>2, KeptChange
  <2>4. CASE UNCHANGED <<armed, save, crossed>>
    BY <2>1, <2>4, KeptSame
  <2>. QED
    BY <1>3, <2>3, <2>4 DEF DoControlEvent
<1>4. ASSUME NEW x \in Targets, NEW v \in BOOLEAN, SetState(x, v)
      PROVE  AllKept'
  <2>1. /\ "xmpp" \in Threads /\ save["xmpp"].pc = "none" /\ Change("xmpp", x, v)
        /\ UNCHANGED <<up, state, code, devs>>
    BY <1>4 DEF SetState, Request, Threads, db
  <2>. QED
    BY <2>1, KeptChange
<1>5. CASE \/ \E e \in Events :
                \/ \E a \in Asked : AddEvent(e, a) \/ ModifyEvent(e, a)
                \/ \E on \in BOOLEAN : edit_ControlEvent(e, on)
                \/ SaveToDb(e) \/ DeleteEvent(e)
           \/ \E i \in DOMAIN list : RemoveEvent(i)
           \/ SortEvents
           \/ \E t \in Triggers : DeleteDeviceEvent(t)
           \/ DeleteDevice
  <2>1. UNCHANGED <<up, armed, state, code, save, crossed>> /\ devs' \subseteq devs
    BY <1>5 DEF AddEvent, ModifyEvent, edit_ControlEvent, SaveToDb, DeleteEvent,
       RemoveEvent, SortEvents, DeleteDeviceEvent, DeleteDevice, Request, memory, db,
       ghosts
  <2>. QED
    BY <2>1, KeptSame
<1>. QED
  BY <1>1, <1>2, <1>3, <1>4, <1>5, KeptStart, KeptStop, KeptSave, KeptWrite, Zenon
     DEF Next

(* What is armed would be so after a restart.                              *)
THEOREM StateStays == Spec => []StateKept
<1>1. AllKept => StateKept
  BY DEF AllKept, Kept, AsStored, StateKept
<1>. QED
  BY <1>1, TypeCorrect, KeptInit, KeptStep, PTL DEF Spec

-----------------------------------------------------------------------------
(* The clock modulo its width.                                             *)

(* Quotients and remainders by any divisor.                                *)
LEMMA Divide ==
  ASSUME NEW a \in Int, NEW w \in Nat \ {0}
  PROVE  /\ a \div w \in Int /\ a % w \in Int
         /\ a = w * (a \div w) + (a % w)
         /\ 0 <= a % w /\ a % w < w
<1>1. a \div w \in Int /\ a % w \in Int
  OBVIOUS
<1>2. a = w * (a \div w) + (a % w)
  OBVIOUS
<1>3. 0 <= a % w /\ a % w < w
  OBVIOUS
<1>. QED
  BY <1>1, <1>2, <1>3

LEMMA Remainder ==
  ASSUME NEW w \in Nat \ {0}, NEW q \in Int, NEW r \in Int, 0 <= r, r < w
  PROVE  (w * q + r) % w = r
OBVIOUS

LEMMA SmallQuotient ==
  ASSUME NEW w \in Nat \ {0}, NEW q \in Int, NEW r \in Int, 0 <= r, r < w,
         0 <= w * q + r, w * q + r < w
  PROVE  q = 0
<1>1. CASE q >= 1
  <2>1. w * q >= w
    BY <1>1
  <2>. QED
    BY <2>1
<1>2. CASE q <= -1
  <2>1. w * q <= -w
    BY <1>2
  <2>. QED
    BY <2>1
<1>. QED
  BY <1>1, <1>2

(* The difference of two remainders is that of the numbers, if that is     *)
(* less than the divisor.                                                  *)
LEMMA DifferenceMod ==
  ASSUME NEW w \in Nat \ {0}, NEW a \in Int, NEW b \in Int, 0 <= a - b, a - b < w
  PROVE  ((a % w) - (b % w)) % w = a - b
<1>. DEFINE p == a \div w  q == b \div w  r == a % w  s == b % w
<1>1. /\ p \in Int /\ r \in Int /\ a = w * p + r /\ 0 <= r /\ r < w
      /\ q \in Int /\ s \in Int /\ b = w * q + s /\ 0 <= s /\ s < w
  BY Divide
<1>. HIDE DEF p, q, r, s
<1>. SUFFICES (r - s) % w = a - b
  BY DEF r, s
<1>2. a - b = w * (p - q) + (r - s)
  BY <1>1
<1>3. CASE r >= s
  <2>1. p - q = 0
    BY <1>1, <1>2, <1>3, SmallQuotient
  <2>2. a - b = r - s
    BY <1>1, <1>2, <2>1
  <2>3. (w * 0 + (r - s)) % w = r - s
    BY <1>1, <1>3, Remainder
  <2>. QED
    BY <1>1, <2>2, <2>3
<1>4. CASE r < s
  <2>1. a - b = w * (p - q - 1) + (r - s + w)
    BY <1>1, <1>2
  <2>2. p - q - 1 = 0
    BY <1>1, <1>4, <2>1, SmallQuotient
  <2>3. a - b = r - s + w
    BY <1>1, <2>1, <2>2
  <2>4. (w * (-1) + (r - s + w)) % w = r - s + w
    BY <1>1, <1>4, Remainder
  <2>5. w * (-1) + (r - s + w) = r - s
    BY <1>1
  <2>. QED
    BY <2>3, <2>4, <2>5
<1>. QED
  BY <1>1, <1>3, <1>4

(* Going back by such a difference.                                        *)
LEMMA BackMod ==
  ASSUME NEW w \in Nat \ {0}, NEW a \in Int, NEW r \in Int, 0 <= r, r < w
  PROVE  (a - (((a % w) - r) % w)) % w = r
<1>. DEFINE x == (a % w) - r  k == x \div w  y == x % w  p == a \div w
<1>1. /\ p \in Int /\ x \in Int /\ a = w * p + (x + r)
  BY Divide
<1>2. k \in Int /\ y \in Int /\ x = w * k + y
  BY <1>1, Divide
<1>. HIDE DEF k, y, p, x
<1>3. a - y = w * (p + k) + r
  BY <1>1, <1>2
<1>4. (a - y) % w = r
  BY <1>1, <1>2, <1>3, Remainder
<1>. QED
  BY <1>4 DEF y, x

LEMMA NextMod ==
  ASSUME NEW w \in Nat, 1 < w, NEW a \in Int, a % w = 0
  PROVE  (a + 1) % w = 1
<1>1. a \div w \in Int /\ a + 1 = w * (a \div w) + 1
  BY Divide
<1>. QED
  BY <1>1, Remainder

-----------------------------------------------------------------------------
(* Alarms of a trigger that one link hears.                                *)

HeardByOne == \A k, l \in Links : Hears[k] \cap Hears[l] # {} => k = l

At(l, t) == work[l].pc # "idle" /\ work[l].trig = t

(* What SetTriggerDo takes a time for.                                     *)
Mark(m) == IF m % Wrap = 0 THEN 1 ELSE m % Wrap

(* A window has begun, lately enough for the width of the clock; or began  *)
(* before the last alarm of the trigger did or ended.                      *)
Begun(start) ==
    \E s \in Int : start = s % Wrap /\ FirstTick - Window <= s /\ s <= clock

Before(t, start) ==
    \E s \in Int : \E m \in last[t] :
      start = s % Wrap /\ FirstTick - Window <= s /\ s <= m

(* A count is of a window that has begun, and of no more signals than came *)
(* since the last alarm began, unless the window did before.               *)
Counted(c, t) ==
    /\ c.count > 0 => Begun(c.start)
    /\ c.count <= signals[t] \/ Before(t, c.start)

(* What a thread at work has heard is counted in the window of now.        *)
Current(l) ==
    LET t == work[l].trig  seen == work[l].seen IN
    /\ work[l].pc # "idle" => t \in Hears[l]
    /\ work[l].pc = "count" => Counted(seen, t) /\ Since(seen.start) < Window
    /\ work[l].pc = "check" => Since(trig[t].start) < Window

(* But while an alarm goes on, its time is that of the last one's end.     *)
Ended(t) == \A m \in last[t] : trig[t].did = Mark(m)

Trigger(t) ==
    /\ \A m, n \in last[t] : m = n
    /\ \A m \in last[t] : FirstTick <= m /\ m <= clock
    /\ Counted(trig[t], t)
    /\ (\A l \in Links : At(l, t) => work[l].pc \in {"count", "check"}) => Ended(t)

InTime ==
    /\ FirstTick <= clock /\ clock - FirstTick + Window < Wrap
    /\ \A t \in Triggers : Trigger(t)
    /\ \A l \in Links : Current(l)
    /\ ~up => \A t \in Triggers : last[t] = {}

LEMMA InTimeInit == Init => InTime
<1>. SUFFICES ASSUME Init PROVE InTime
  OBVIOUS
<1>1. FirstTick <= clock /\ clock - FirstTick + Window < Wrap
  BY AlarmGuardAssumption DEF Init
<1>2. \A t \in Triggers : trig[t].count = 0 /\ signals[t] = 0 /\ last[t] = {}
  BY DEF Init, Unheard
<1>3. \A l \in Links : work[l].pc = "idle"
  BY DEF Init, Resting
<1>. QED
  BY <1>1, <1>2, <1>3 DEF InTime, Trigger, Counted, Current, Ended

LEMMA InTimeSame ==
  ASSUME InTime, UNCHANGED <<clock, up, trig, work, last, signals>>
  PROVE  InTime'
<1>1. \A c, t : Counted(c, t)' <=> Counted(c, t)
  BY DEF Counted, Begun, Before
<1>2. \A s : Since(s)' = Since(s)
  BY DEF Since, timeGetTime
<1>. QED
  BY <1>1, <1>2 DEF InTime, Trigger, Current, Ended, At

LEMMA InTimeTick ==
  ASSUME TypeOK, InTime, Tick
  PROVE  InTime'
<1>1. /\ clock \in Nat /\ clock < LastTick /\ clock' = clock + 1
      /\ UNCHANGED <<up, trig, work, last, signals>>
      /\ \A l \in Links : work[l].pc \notin {"count", "check"}
  BY DEF Tick, TypeOK, memory, threads, ghosts
<1>2. FirstTick <= clock' /\ clock' - FirstTick + Window < Wrap
  BY <1>1, AlarmGuardAssumption DEF InTime
<1>3. \A c, t : Counted(c, t) => Counted(c, t)'
  <2>1. \A start : Begun(start) => Begun(start)'
    BY <1>1 DEF Begun
  <2>2. \A start, t : Before(t, start) => Before(t, start)'
    BY <1>1 DEF Before
  <2>. QED
    BY <1>1, <2>1, <2>2 DEF Counted
<1>4. ASSUME NEW t \in Triggers
      PROVE  Trigger(t)'
  <2>1. Trigger(t) /\ last[t] \subseteq Nat
    BY DEF InTime, TypeOK, GhostsType
  <2>2. \A m \in last[t] : FirstTick <= m /\ m <= clock + 1
    BY <1>1, <2>1 DEF Trigger
  <2>. QED
    BY <1>1, <1>3, <2>1, <2>2 DEF Trigger, Ended, At
<1>5. \A l \in Links : Current(l)'
  BY <1>1 DEF InTime, Current
<1>. QED
  BY <1>1, <1>2, <1>4, <1>5 DEF InTime

LEMMA InTimeStart ==
  ASSUME TypeOK, InTime, Start
  PROVE  InTime'
<1>1. /\ UNCHANGED <<clock, work, last, signals>> /\ ~up
      /\ trig' = [t \in Triggers |-> Unheard]
  BY DEF Start, threads, ghosts
<1>2. \A l \in Links : work[l].pc = "idle"
  BY <1>1, AtWork
<1>3. \A t \in Triggers : last[t] = {} /\ trig'[t].count = 0 /\ signals[t] \in Nat
  BY <1>1 DEF InTime, Unheard, TypeOK, GhostsType
<1>. QED
  BY <1>1, <1>2, <1>3 DEF InTime, Trigger, Counted, Current, Ended

LEMMA InTimeStop ==
  ASSUME TypeOK, InTime, Stop
  PROVE  InTime'
<1>1. clock' = clock
  BY DEF Stop
<1>2. \A l \in Links : work'[l].pc = "idle"
  BY DEF Stop, Resting
<1>3. \A t \in Triggers : last'[t] = {} /\ trig'[t].count = 0 /\ signals'[t] = 0
  BY DEF Stop, Unheard
<1>. QED
  BY <1>1, <1>2, <1>3 DEF InTime, Trigger, Counted, Current, Ended

(* A step of a link's thread, which is the only one at its trigger.        *)
LEMMA InTimeLink ==
  ASSUME HeardByOne, TypeOK, InTime, NEW l \in Links, NEW t \in Hears[l], NEW w,
         Step(l, w), up, UNCHANGED <<clock, up>>,
         work[l].pc # "idle" => work[l].trig = t,
         w.pc # "idle" => w.trig = t,
         \A u \in Triggers : u # t =>
           UNCHANGED <<trig[u].start, trig[u].count, trig[u].did, last[u], signals[u]>>,
         \A m, n \in last'[t] : m = n,
         \A m \in last'[t] : FirstTick <= m /\ m <= clock,
         Counted(trig[t], t)',
         w.pc \in {"idle", "count", "check"} => Ended(t)',
         Current(l)'
  PROVE  InTime'
<1>1. DOMAIN work = Links
  BY DEF TypeOK, ThreadsType
<1>2. work'[l] = w /\ \A k \in Links : k # l => work'[k] = work[k]
  BY <1>1 DEF Step
<1>3. ASSUME NEW k \in Links, k # l, work[k].pc # "idle"
      PROVE  work[k].trig # t /\ work[k].trig \in Triggers
  <2>1. work[k].trig \in Hears[k]
    BY <1>3 DEF InTime, Current
  <2>2. Hears[k] \subseteq Triggers
    BY AlarmGuardAssumption
  <2>. QED
    BY <1>3, <2>1, <2>2 DEF HeardByOne
<1>4. ASSUME NEW u \in Triggers, u # t
      PROVE  /\ \A c : Counted(c, u)' <=> Counted(c, u)
             /\ trig'[u].start = trig[u].start /\ trig'[u].count = trig[u].count
             /\ trig'[u].did = trig[u].did /\ last'[u] = last[u]
  BY <1>4 DEF Counted, Begun, Before
<1>5. \A s : Since(s)' = Since(s)
  BY DEF Since, timeGetTime
<1>6. ASSUME NEW k \in Links
      PROVE  Current(k)'
  <2>1. CASE k = l
    BY <2>1
  <2>2. CASE k # l
    <3>1. Current(k) /\ work'[k] = work[k]
      BY <1>2, <2>2 DEF InTime
    <3>2. CASE work[k].pc = "idle"
      BY <3>1, <3>2 DEF Current
    <3>3. CASE work[k].pc # "idle"
      <4>1. work[k].trig # t /\ work[k].trig \in Triggers
        BY <1>3, <2>2, <3>3
      <4>. QED
        BY <1>4, <1>5, <3>1, <4>1 DEF Current
    <3>. QED
      BY <3>2, <3>3
  <2>. QED
    BY <2>1, <2>2
<1>7. ASSUME NEW u \in Triggers
      PROVE  Trigger(u)'
  <2>1. CASE u = t
    <3>1. (\A k \in Links : At(k, t)' => work'[k].pc \in {"count", "check"}) =>
            w.pc \in {"idle", "count", "check"}
      <4>1. w.pc # "idle" => At(l, t)'
        BY <1>2 DEF At
      <4>. QED
        BY <1>2, <4>1
    <3>. QED
      BY <2>1, <3>1 DEF Trigger
  <2>2. CASE u # t
    <3>1. Trigger(u)
      BY DEF InTime
    <3>2. Counted(trig[u], u)'
      BY <1>4, <2>2, <3>1 DEF Trigger, Counted
    <3>3. \A k \in Links : At(k, u) => At(k, u)' /\ work'[k] = work[k]
      BY <1>2, <2>2 DEF At
    <3>4. Ended(u) => Ended(u)'
      BY <1>4, <2>2 DEF Ended
    <3>. QED
      BY <1>4, <2>2, <3>1, <3>2, <3>3, <3>4 DEF Trigger
  <2>. QED
    BY <2>1, <2>2
<1>. QED
  BY <1>6, <1>7 DEF InTime

(* A signal is counted.                                                    *)
LEMMA CompareInTime ==
  ASSUME TypeOK, InTime, NEW t \in Triggers, NEW n, n = CompareTick(t),
         signals' = [signals EXCEPT ![t] = @ + 1], UNCHANGED <<clock, last>>
  PROVE  Counted(n, t)' /\ Since(n.start) < Window
<1>0. PICK c : c = trig[t]
  OBVIOUS
<1>1. /\ c \in Counter /\ c.start \in TickNumber /\ c.count \in Nat
      /\ signals[t] \in Nat /\ clock \in Nat /\ timeGetTime \in TickNumber
      /\ signals'[t] = signals[t] + 1
  BY <1>0, TimeType DEF TypeOK, MemoryType, GhostsType, Counter
<1>2. Wrap \in Nat \ {0} /\ Window \in Nat /\ 1 < Window /\ FirstTick \in Nat
  BY AlarmGuardAssumption
<1>3. CASE Since(c.start) < Window
  <2>1. n.start = c.start /\ n.count = c.count + 1
    BY <1>0, <1>1, <1>3 DEF CompareTick, Counter
  <2>2. Since(c.start) \in Int /\ 0 <= Since(c.start)
    <3>1. timeGetTime - c.start \in Int
      BY <1>1 DEF TickNumber
    <3>. QED
      BY <1>2, <3>1, Divide DEF Since
  <2>. PICK b \in Int : b = clock - Since(c.start)
    BY <1>1, <2>2
  <2>3. b % Wrap = c.start
    <3>1. c.start \in Int /\ 0 <= c.start /\ c.start < Wrap /\ clock \in Int
      BY <1>1, <1>2 DEF TickNumber
    <3>2. (clock - (((clock % Wrap) - c.start) % Wrap)) % Wrap = c.start
      BY <1>2, <3>1, BackMod
    <3>. QED
      BY <3>2 DEF Since, timeGetTime
  <2>4. FirstTick - Window <= b /\ b <= clock
    BY <1>1, <1>2, <1>3, <2>2 DEF InTime
  <2>5. Begun(c.start)'
    BY <2>3, <2>4 DEF Begun
  <2>6. c.count <= signals[t] \/ Before(t, c.start)
    BY <1>0 DEF InTime, Trigger, Counted
  <2>7. c.count + 1 <= signals'[t] \/ Before(t, c.start)'
    BY <1>1, <2>6 DEF Before
  <2>. QED
    BY <1>3, <2>1, <2>5, <2>7 DEF Counted
<1>4. CASE ~(Since(c.start) < Window)
  <2>. PICK now : now = timeGetTime
    OBVIOUS
  <2>1. n.start = now /\ n.count = 1
    BY <1>0, <1>1, <1>4 DEF CompareTick, Counter
  <2>2. Begun(now)'
    <3>1. clock \in Int /\ FirstTick - Window <= clock /\ clock <= clock
      BY <1>1, <1>2 DEF InTime
    <3>. QED
      BY <3>1 DEF Begun, timeGetTime
  <2>3. 1 <= signals'[t]
    BY <1>1
  <2>4. Since(timeGetTime) < Window
    <3>1. timeGetTime - timeGetTime = Wrap * 0 + 0
      BY <1>1, <1>2 DEF TickNumber
    <3>2. (Wrap * 0 + 0) % Wrap = 0
      BY <1>2, Remainder
    <3>. QED
      BY <1>2, <3>1, <3>2 DEF Since
  <2>. QED
    BY <2>1, <2>2, <2>3, <2>4 DEF Counted
<1>. QED
  BY <1>3, <1>4

LEMMA InTimeWork ==
  ASSUME HeardByOne, TypeOK, InTime, NEW l \in Links,
         \/ \E t \in Triggers : OnDeviceData_RFSignal(l, t)
         \/ CountSignal(l) \/ CheckTrigger(l) \/ BeginAlarm(l) \/ CopyEvents(l)
         \/ DoControlEvent(l) \/ SkipEvent(l) \/ EndAlarm(l)
  PROVE  InTime'
<1>. DEFINE W == work[l]
<1>1. /\ work \in [Links -> Work] /\ W \in Work
      /\ trig \in [Triggers -> Counter] /\ last \in [Triggers -> SUBSET Nat]
      /\ signals \in [Triggers -> Nat] /\ clock \in Nat
  BY DEF TypeOK, ThreadsType, MemoryType, GhostsType
<1>2. Hears[l] \subseteq Triggers
  BY AlarmGuardAssumption
<1>3. \A w : Step(l, w) => work'[l] = w
  BY <1>1 DEF Step
<1>4. ASSUME W.pc # "idle"
      PROVE  W.trig \in Hears[l] /\ W.trig \in Triggers /\ up
  BY <1>2, <1>4, AtWork DEF InTime, Current
<1>5. \A t \in Triggers : Trigger(t)
  BY DEF InTime
<1>6. ASSUME NEW t \in Hears[l], W.pc \in {"idle", "count", "check"},
             W.pc # "idle" => W.trig = t
      PROVE  Ended(t)
  <2>1. ASSUME NEW k \in Links, At(k, t)
        PROVE  k = l
    <3>1. t \in Hears[k]
      BY <2>1 DEF InTime, Current, At
    <3>. QED
      BY <3>1 DEF HeardByOne
  <2>2. \A k \in Links : At(k, t) => work[k].pc \in {"count", "check"}
    BY <1>6, <2>1 DEF At
  <2>. QED
    BY <1>2, <1>5, <2>2 DEF Trigger
<1>7. ASSUME NEW t \in Triggers, OnDeviceData_RFSignal(l, t)
      PROVE  InTime'
  <2>. PICK seen : seen = CompareTick(t)
    OBVIOUS
  <2>. DEFINE w == [Resting EXCEPT !.pc = "count", !.trig = t, !.seen = seen]
  <2>1. /\ up /\ W.pc = "idle" /\ t \in Hears[l] /\ Step(l, w)
        /\ signals' = [signals EXCEPT ![t] = @ + 1]
        /\ UNCHANGED <<clock, up, trig, last>>
    BY <1>7 DEF OnDeviceData_RFSignal, memory
  <2>2. Counted(seen, t)' /\ Since(seen.start) < Window
    BY <2>1, CompareInTime
  <2>3. w.pc = "count" /\ w.trig = t /\ w.seen = seen
    BY DEF Resting
  <2>4. Current(l)'
    <3>1. Since(seen.start)' < Window
      BY <2>1, <2>2 DEF Since, timeGetTime
    <3>2. work'[l] = w
      BY <1>3, <2>1
    <3>. HIDE DEF w
    <3>. QED
      BY <2>1, <2>2, <2>3, <3>1, <3>2 DEF Current
  <2>5. Counted(trig[t], t)'
    <3>1. Counted(trig[t], t) /\ signals'[t] = signals[t] + 1
      BY <1>1, <1>5, <2>1 DEF Trigger
    <3>2. trig[t].count \in Nat /\ signals[t] \in Nat
      BY <1>1 DEF Counter
    <3>. QED
      BY <2>1, <3>1, <3>2 DEF Counted, Begun, Before
  <2>6. Ended(t)'
    BY <1>6, <2>1 DEF Ended
  <2>7. \A u \in Triggers : u # t =>
          UNCHANGED <<trig[u].start, trig[u].count, trig[u].did, last[u], signals[u]>>
    BY <1>1, <2>1
  <2>8. (\A m, n \in last'[t] : m = n) /\ \A m \in last'[t] : FirstTick <= m /\ m <= clock
    BY <1>5, <2>1 DEF Trigger
  <2>. HIDE DEF w
  <2>. QED
    BY <2>1, <2>3, <2>4, <2>5, <2>6, <2>7, <2>8, InTimeLink
<1>8. CASE CountSignal(l)
  <2>. PICK t, seen : t = W.trig /\ seen = W.seen
    OBVIOUS
  <2>. DEFINE w == [W EXCEPT !.pc = "check", !.seen = Unheard]
              new == [trig[t] EXCEPT !.start = seen.start, !.count = seen.count]
  <2>1. /\ W.pc = "count" /\ Step(l, w) /\ trig' = [trig EXCEPT ![t] = new]
        /\ UNCHANGED <<clock, up, last, signals>>
    BY <1>8 DEF CountSignal, ghosts
  <2>2. t \in Hears[l] /\ t \in Triggers /\ up
    BY <1>4, <2>1
  <2>3. w.pc = "check" /\ w.trig = t
    BY <1>1 DEF Work
  <2>4. /\ trig'[t].start = seen.start /\ trig'[t].count = seen.count
        /\ trig'[t].did = trig[t].did
    <3>1. new.start = seen.start /\ new.count = seen.count /\ new.did = trig[t].did
      BY <1>1, <2>2 DEF Counter
    <3>2. trig'[t] = new
      BY <1>1, <2>1, <2>2
    <3>. QED
      BY <3>1, <3>2
  <2>5. Counted(seen, t) /\ Since(seen.start) < Window
    BY <2>1 DEF InTime, Current
  <2>6. Counted(trig[t], t)'
    BY <2>1, <2>4, <2>5 DEF Counted, Begun, Before
  <2>7. Current(l)'
    <3>1. work'[l] = w
      BY <1>3, <2>1
    <3>2. Since(trig[t].start)' < Window
      BY <2>1, <2>4, <2>5 DEF Since, timeGetTime
    <3>. HIDE DEF w
    <3>. QED
      BY <2>2, <2>3, <3>1, <3>2 DEF Current
  <2>8. Ended(t)'
    BY <1>6, <2>1, <2>2, <2>4 DEF Ended
  <2>9. \A u \in Triggers : u # t =>
          UNCHANGED <<trig[u].start, trig[u].count, trig[u].did, last[u], signals[u]>>
    BY <1>1, <2>1
  <2>10. (\A m, n \in last'[t] : m = n) /\ \A m \in last'[t] : FirstTick <= m /\ m <= clock
    BY <1>5, <2>1, <2>2 DEF Trigger
  <2>. HIDE DEF w
  <2>. QED
    BY <2>1, <2>2, <2>3, <2>6, <2>7, <2>8, <2>9, <2>10, InTimeLink
<1>9. CASE CheckTrigger(l)
  <2>. PICK t : t = W.trig
    OBVIOUS
  <2>. DEFINE w == [W EXCEPT !.pc = "mark"]
  <2>1. /\ W.pc = "check" /\ UNCHANGED <<clock, up, trig>>
        /\ \/ Step(l, w) /\ last' = [last EXCEPT ![t] = {clock}]
              /\ signals' = [signals EXCEPT ![t] = 0]
           \/ Step(l, Resting) /\ UNCHANGED <<last, signals>>
    BY <1>9 DEF CheckTrigger, memory
  <2>2. t \in Hears[l] /\ t \in Triggers /\ up
    BY <1>4, <2>1
  <2>3. CASE Step(l, Resting) /\ UNCHANGED <<last, signals>>
    <3>1. Resting.pc = "idle" /\ work'[l] = Resting
      BY <1>3, <2>3 DEF Resting
    <3>2. Current(l)'
      BY <3>1 DEF Current
    <3>3. Counted(trig[t], t)' /\ Ended(t)'
      <4>1. Counted(trig[t], t) /\ Ended(t)
        BY <1>5, <1>6, <2>1, <2>2 DEF Trigger
      <4>. QED
        BY <2>1, <2>3, <4>1 DEF Counted, Begun, Before, Ended
    <3>4. (\A m, n \in last'[t] : m = n) /\ \A m \in last'[t] : FirstTick <= m /\ m <= clock
      BY <1>5, <2>2, <2>3 DEF Trigger
    <3>5. \A u \in Triggers :
            UNCHANGED <<trig[u].start, trig[u].count, trig[u].did, last[u], signals[u]>>
      BY <2>1, <2>3
    <3>. QED
      BY <2>1, <2>2, <2>3, <3>1, <3>2, <3>3, <3>4, <3>5, InTimeLink
  <2>4. CASE Step(l, w) /\ last' = [last EXCEPT ![t] = {clock}]
             /\ signals' = [signals EXCEPT ![t] = 0]
    <3>1. w.pc = "mark" /\ w.trig = t /\ work'[l] = w
      BY <1>1, <1>3, <2>4 DEF Work
    <3>2. Current(l)'
      <4>. HIDE DEF w
      <4>. QED
        BY <2>2, <3>1 DEF Current
    <3>3. last'[t] = {clock} /\ signals'[t] = 0
      BY <1>1, <2>2, <2>4
    <3>4. Counted(trig[t], t)'
      <4>1. trig[t].count \in Nat /\ Counted(trig[t], t)
        BY <1>1, <1>5, <2>2 DEF Counter, Trigger
      <4>2. CASE trig[t].count = 0
        BY <2>1, <3>3, <4>2 DEF Counted
      <4>3. CASE trig[t].count > 0
        BY <2>1, <3>3, <4>1, <4>3 DEF Counted, Begun, Before
      <4>. QED
        BY <4>1, <4>2, <4>3
    <3>5. (\A m, n \in last'[t] : m = n) /\ \A m \in last'[t] : FirstTick <= m /\ m <= clock
      BY <1>1, <3>3 DEF InTime
    <3>6. \A u \in Triggers : u # t =>
            UNCHANGED <<trig[u].start, trig[u].count, trig[u].did, last[u], signals[u]>>
      BY <1>1, <2>1, <2>4
    <3>. HIDE DEF w
    <3>. QED
      BY <2>1, <2>2, <2>4, <3>1, <3>2, <3>4, <3>5, <3>6, InTimeLink
  <2>. QED
    BY <2>1, <2>3, <2>4
<1>10. ASSUME NEW t \in Triggers, SetTriggerDo(t)
       PROVE  /\ trig'[t].did = Mark(clock)
              /\ trig'[t].start = trig[t].start /\ trig'[t].count = trig[t].count
              /\ \A u \in Triggers : u # t => trig'[u] = trig[u]
  <2>. DEFINE new == [trig[t] EXCEPT !.did = Mark(clock)]
  <2>1. trig' = [trig EXCEPT ![t] = new]
    BY <1>10 DEF SetTriggerDo, Mark, timeGetTime
  <2>2. new.did = Mark(clock) /\ new.start = trig[t].start /\ new.count = trig[t].count
    BY <1>1 DEF Counter
  <2>. HIDE DEF new
  <2>. QED
    BY <1>1, <2>1, <2>2
<1>11. ASSUME W.pc \in {"mark", "alarm", "run"}, NEW w, Step(l, w),
              w.pc \in {"alarm", "run"}, w.trig = W.trig,
              UNCHANGED <<clock, up, last, signals>>,
              SetTriggerDo(W.trig) \/ UNCHANGED trig
       PROVE  InTime'
  <2>. PICK t : t = W.trig
    OBVIOUS
  <2>1. t \in Hears[l] /\ t \in Triggers /\ up
    BY <1>4, <1>11
  <2>2. /\ trig'[t].start = trig[t].start /\ trig'[t].count = trig[t].count
        /\ \A u \in Triggers : u # t => trig'[u] = trig[u]
    BY <1>10, <1>11, <2>1
  <2>3. Current(l)'
    BY <1>3, <1>11, <2>1 DEF Current
  <2>4. Counted(trig[t], t)'
    <3>1. Counted(trig[t], t)
      BY <1>5, <2>1 DEF Trigger
    <3>. QED
      BY <1>11, <2>2, <3>1 DEF Counted, Begun, Before
  <2>5. (\A m, n \in last'[t] : m = n) /\ \A m \in last'[t] : FirstTick <= m /\ m <= clock
    BY <1>5, <1>11, <2>1 DEF Trigger
  <2>6. \A u \in Triggers : u # t =>
          UNCHANGED <<trig[u].start, trig[u].count, trig[u].did, last[u], signals[u]>>
    BY <1>11, <2>2
  <2>. QED
    BY <1>11, <2>1, <2>3, <2>4, <2>5, <2>6, InTimeLink
<1>12. CASE BeginAlarm(l)
  <2>1. PICK valid \in BOOLEAN :
          Step(l, [W EXCEPT !.pc = "alarm", !.go = valid /\ armed[AllDevices]])
    BY <1>12 DEF BeginAlarm
  <2>. DEFINE go == valid /\ armed[AllDevices]
              w == [W EXCEPT !.pc = "alarm", !.go = go]
  <2>2. /\ W.pc = "mark" /\ SetTriggerDo(W.trig) /\ Step(l, w)
        /\ UNCHANGED <<clock, up, last, signals>>
    BY <1>12, <2>1 DEF BeginAlarm, ghosts
  <2>. HIDE DEF go
  <2>3. w.pc = "alarm" /\ w.trig = W.trig
    BY <1>1 DEF Work
  <2>. HIDE DEF w
  <2>. QED
    BY <1>11, <2>2, <2>3
<1>13. CASE CopyEvents(l)
  <2>. DEFINE go == W.go /\ armed[W.trig]
              torn == xmpp.pc \in {"insert", "sort", "remove"}
              w == [W EXCEPT !.pc = "run", !.go = go, !.rest = list, !.torn = torn]
  <2>1. W.pc = "alarm" /\ Step(l, w) /\ UNCHANGED <<clock, up, last, signals, trig>>
    BY <1>13 DEF CopyEvents, ghosts, memory
  <2>. HIDE DEF go, torn
  <2>2. w.pc = "run" /\ w.trig = W.trig
    BY <1>1 DEF Work
  <2>. HIDE DEF w
  <2>. QED
    BY <1>11, <2>1, <2>2
<1>14. CASE DoControlEvent(l)
  <2>. DEFINE e == Head(W.rest)
              ran == IF Freed(e) \/ attr[e].force THEN W.ran ELSE W.ran \cup {e}
              rest == Tail(W.rest)
              w == [W EXCEPT !.rest = rest, !.ran = ran]
  <2>1. W.pc = "run" /\ Step(l, w) /\ UNCHANGED <<clock, up, last, signals, trig>>
    BY <1>14 DEF DoControlEvent, Running
  <2>. HIDE DEF ran, rest
  <2>2. w.pc = "run" /\ w.trig = W.trig
    BY <1>1, <2>1 DEF Work
  <2>. HIDE DEF w
  <2>. QED
    BY <1>11, <2>1, <2>2
<1>15. CASE SkipEvent(l)
  <2>. DEFINE e == Head(W.rest)
              refused == IF ~Freed(e) /\ Mine(l, e) /\ ~Allowed(l, e)
                         THEN W.refused \cup {e} ELSE W.refused
              rest == Tail(W.rest)
              w == [W EXCEPT !.rest = rest, !.refused = refused]
  <2>1. W.pc = "run" /\ Step(l, w) /\ UNCHANGED <<clock, up, last, signals, trig>>
    BY <1>15 DEF SkipEvent, Running, ghosts, memory
  <2>. HIDE DEF refused, rest
  <2>2. w.pc = "run" /\ w.trig = W.trig
    BY <1>1, <2>1 DEF Work
  <2>. HIDE DEF w
  <2>. QED
    BY <1>11, <2>1, <2>2
<1>16. CASE EndAlarm(l)
  <2>. PICK t : t = W.trig
    OBVIOUS
  <2>1. /\ W.pc = "run" /\ SetTriggerDo(t) /\ last' = [last EXCEPT ![t] = {clock}]
        /\ Step(l, Resting) /\ UNCHANGED <<clock, up, signals>>
    BY <1>16 DEF EndAlarm
  <2>2. t \in Hears[l] /\ t \in Triggers /\ up
    BY <1>4, <2>1
  <2>3. Resting.pc = "idle" /\ work'[l] = Resting
    BY <1>3, <2>1 DEF Resting
  <2>4. Current(l)'
    BY <2>3 DEF Current
  <2>5. last'[t] = {clock}
    BY <1>1, <2>1, <2>2
  <2>6. /\ trig'[t].did = Mark(clock)
        /\ trig'[t].start = trig[t].start /\ trig'[t].count = trig[t].count
        /\ \A u \in Triggers : u # t => trig'[u] = trig[u]
    BY <1>10, <2>1, <2>2
  <2>7. Ended(t)'
    BY <2>1, <2>5, <2>6 DEF Ended, Mark
  <2>8. Counted(trig[t], t)'
    <3>1. Counted(trig[t], t) /\ \A m \in last[t] : m <= clock /\ m \in Nat
      BY <1>1, <1>5, <2>2 DEF Trigger
    <3>2. \A start : Before(t, start) => Before(t, start)'
      BY <1>1, <2>5, <3>1 DEF Before
    <3>. QED
      BY <2>1, <2>6, <3>1, <3>2 DEF Counted, Begun
  <2>9. (\A m, n \in last'[t] : m = n) /\ \A m \in last'[t] : FirstTick <= m /\ m <= clock
    BY <1>1, <2>5 DEF InTime
  <2>10. \A u \in Triggers : u # t =>
           UNCHANGED <<trig[u].start, trig[u].count, trig[u].did, last[u], signals[u]>>
    BY <1>1, <2>1, <2>6
  <2>. QED
    BY <2>1, <2>2, <2>3, <2>4, <2>7, <2>8, <2>9, <2>10, InTimeLink
<1>. QED
  BY <1>7, <1>8, <1>9, <1>12, <1>13, <1>14, <1>15, <1>16

LEMMA InTimeStep ==
  ASSUME HeardByOne, TypeOK, InTime, [Next]_vars
  PROVE  InTime'
<1>1. CASE \/ UNCHANGED vars
           \/ \E p \in Threads : SaveDB_find(p) \/ SaveDB_read(p) \/ SaveDB_write(p)
  BY <1>1, InTimeSame DEF vars, memory, db, threads, ghosts, SaveDB_find, SaveDB_read,
     SaveDB_write
<1>2. CASE \/ \E x \in Targets, v \in BOOLEAN : SetState(x, v)
           \/ \E e \in Events :
                \/ \E a \in Asked : AddEvent(e, a) \/ ModifyEvent(e, a)
                \/ \E on \in BOOLEAN : edit_ControlEvent(e, on)
                \/ SaveToDb(e) \/ DeleteEvent(e)
           \/ \E i \in DOMAIN list : RemoveEvent(i)
           \/ SortEvents
           \/ \E t \in Triggers : DeleteDeviceEvent(t)
           \/ DeleteDevice
  <2>1. UNCHANGED <<clock, up, trig, work, last, signals>>
    BY <1>2 DEF SetState, AddEvent, ModifyEvent, edit_ControlEvent, SaveToDb,
       DeleteEvent, RemoveEvent, SortEvents, DeleteDeviceEvent, DeleteDevice, Request,
       memory, ghosts
  <2>. QED
    BY <2>1, InTimeSame
<1>. QED
  BY <1>1, <1>2, InTimeTick, InTimeStart, InTimeStop, InTimeWork, Zenon DEF Next

(* An alarm begins where enough signals are counted and the trigger does   *)
(* not rest.                                                               *)
LEMMA BeginsBy ==
  ASSUME TypeOK, [Next]_vars, NEW l \in Links, Begins(l)
  PROVE  IsTrigger(work[l].trig)
<1>1. work[l].pc = "check" /\ work'[l].pc = "mark" /\ DOMAIN work = Links
  BY DEF Begins, TypeOK, ThreadsType
<1>2. ~UNCHANGED work
  BY <1>1
<1>3. CASE Stop
  <2>1. work'[l] = Resting
    BY <1>3 DEF Stop
  <2>. QED
    BY <1>1, <2>1 DEF Resting
<1>4. CASE \/ Tick \/ Start
           \/ \E p \in Threads : SaveDB_find(p) \/ SaveDB_read(p) \/ SaveDB_write(p)
           \/ UNCHANGED vars
  BY <1>2, <1>4 DEF Tick, Start, SaveDB_find, SaveDB_read, SaveDB_write, vars, threads
<1>5. CASE \/ \E x \in Targets, v \in BOOLEAN : SetState(x, v)
           \/ \E e \in Events :
                \/ \E a \in Asked : AddEvent(e, a) \/ ModifyEvent(e, a)
                \/ \E on \in BOOLEAN : edit_ControlEvent(e, on)
                \/ SaveToDb(e) \/ DeleteEvent(e)
           \/ \E i \in DOMAIN list : RemoveEvent(i)
           \/ SortEvents
           \/ \E t \in Triggers : DeleteDeviceEvent(t)
           \/ DeleteDevice
  BY <1>2, <1>5 DEF SetState, AddEvent, ModifyEvent, edit_ControlEvent, SaveToDb,
     DeleteEvent, RemoveEvent, SortEvents, DeleteDeviceEvent, DeleteDevice
<1>6. ASSUME NEW k \in Links,
             \/ \E t \in Triggers : OnDeviceData_RFSignal(k, t)
             \/ CountSignal(k) \/ CheckTrigger(k) \/ BeginAlarm(k) \/ CopyEvents(k)
             \/ DoControlEvent(k) \/ SkipEvent(k) \/ EndAlarm(k)
      PROVE  IsTrigger(work[l].trig)
  <2>1. \A w : Step(k, w) /\ k # l => work'[l] = work[l]
    BY <1>1 DEF Step
  <2>2. \E w : Step(k, w)
    BY <1>6, Zenon DEF OnDeviceData_RFSignal, CountSignal, CheckTrigger, BeginAlarm,
       CopyEvents, DoControlEvent, SkipEvent, EndAlarm
  <2>3. k = l
    BY <1>1, <2>1, <2>2
  <2>4. CheckTrigger(l)
    BY <1>1, <1>6, <2>3 DEF OnDeviceData_RFSignal, CountSignal, BeginAlarm, CopyEvents,
       DoControlEvent, SkipEvent, EndAlarm, Running
  <2>5. ~Step(l, Resting)
    BY <1>1 DEF Step, Resting
  <2>. QED
    BY <2>4, <2>5 DEF CheckTrigger
<1>. QED
  BY <1>3, <1>4, <1>5, <1>6, Zenon DEF Next

(* A trigger that does not rest has rested for the interval since its last *)
(* alarm.                                                                  *)
LEMMA Rested ==
  ASSUME TypeOK, InTime, NEW t \in Triggers, Ended(t), IsTrigger(t),
         NEW e \in last[t]
  PROVE  clock - e >= Interval \/ ZeroTick(t)
<1>1. /\ e \in Nat /\ clock \in Nat /\ FirstTick <= e /\ e <= clock
      /\ clock - FirstTick + Window < Wrap /\ last[t] = {e}
  BY DEF TypeOK, GhostsType, InTime, Trigger
<1>2. /\ Wrap \in Nat \ {0} /\ 1 < Wrap /\ Interval \in Nat /\ FirstTick \in Nat
      /\ Window \in Nat
  BY AlarmGuardAssumption
<1>. SUFFICES ASSUME ~ZeroTick(t)
              PROVE  clock - e >= Interval
  OBVIOUS
<1>3. 0 <= clock - e /\ clock - e < Wrap /\ clock \in Int /\ e \in Int
  BY <1>1, <1>2
<1>0. Wrap \in Nat \ {0} /\ Wrap \in Nat /\ 1 < Wrap
  BY <1>2
<1>4. trig[t].did = Mark(e)
  BY DEF Ended
<1>5. CASE e % Wrap = 0
  <2>1. e # clock
    BY <1>1, <1>5 DEF ZeroTick
  <2>2. (e + 1) % Wrap = 1
    BY <1>0, <1>3, <1>5, NextMod
  <2>3. ((clock % Wrap) - ((e + 1) % Wrap)) % Wrap = clock - (e + 1)
    <3>1. e + 1 \in Int /\ 0 <= clock - (e + 1) /\ clock - (e + 1) < Wrap
      BY <1>0, <1>3, <2>1
    <3>. QED
      BY <1>0, <1>3, <3>1, DifferenceMod
  <2>4. trig[t].did = 1
    BY <1>4, <1>5 DEF Mark
  <2>5. Since(1) = clock - (e + 1)
    BY <2>2, <2>3 DEF Since, timeGetTime
  <2>6. Since(1) >= Interval
    BY <2>4 DEF IsTrigger
  <2>. QED
    BY <1>1, <1>2, <2>5, <2>6
<1>6. CASE e % Wrap # 0
  <2>1. trig[t].did = e % Wrap
    BY <1>4, <1>6 DEF Mark
  <2>2. Since(e % Wrap) = clock - e
    <3>1. ((clock % Wrap) - (e % Wrap)) % Wrap = clock - e
      BY <1>0, <1>3, DifferenceMod
    <3>. QED
      BY <3>1 DEF Since, timeGetTime
  <2>. QED
    BY <1>6, <2>1, <2>2 DEF IsTrigger
<1>. QED
  BY <1>5, <1>6

(* And its count is of signals that came since that alarm began.           *)
LEMMA Recounted ==
  ASSUME TypeOK, InTime, NEW t \in Triggers, Ended(t), IsTrigger(t),
         Since(trig[t].start) < Window
  PROVE  signals[t] >= Needed[t] \/ ZeroTick(t)
<1>1. /\ clock \in Nat /\ FirstTick <= clock /\ clock - FirstTick + Window < Wrap
      /\ trig[t].count \in Nat /\ signals[t] \in Nat /\ last[t] \subseteq Nat
  BY DEF TypeOK, GhostsType, MemoryType, Counter, InTime
<1>2. /\ Wrap \in Nat \ {0} /\ Interval \in Nat /\ FirstTick \in Nat
      /\ Window \in Nat /\ Window <= Interval /\ Needed[t] \in Nat
  BY AlarmGuardAssumption
<1>3. trig[t].count >= Needed[t]
  BY DEF IsTrigger
<1>4. CASE trig[t].count <= signals[t]
  BY <1>1, <1>2, <1>3, <1>4
<1>5. CASE Before(t, trig[t].start) /\ ~ZeroTick(t)
  <2>1. PICK s \in Int, m \in last[t] :
          trig[t].start = s % Wrap /\ FirstTick - Window <= s /\ s <= m
    BY <1>5 DEF Before
  <2>2. clock - m >= Interval /\ m \in Nat
    BY <1>1, <1>5, Rested
  <2>3. 0 <= clock - s /\ clock - s < Wrap /\ clock - s >= Window
    BY <1>1, <1>2, <2>1, <2>2
  <2>4. Since(s % Wrap) = clock - s
    <3>1. Wrap \in Nat \ {0} /\ clock \in Int
      BY <1>1, <1>2
    <3>2. ((clock % Wrap) - (s % Wrap)) % Wrap = clock - s
      BY <2>3, <3>1, DifferenceMod
    <3>. QED
      BY <3>2 DEF Since, timeGetTime
  <2>5. clock - s < Window
    BY <2>1, <2>4
  <2>. QED
    BY <1>1, <1>2, <2>3, <2>5
<1>. QED
  BY <1>4, <1>5 DEF InTime, Trigger, Counted

LEMMA BeginsInTime ==
  ASSUME HeardByOne, TypeOK, InTime, [Next]_vars, NEW l \in Links, Begins(l)
  PROVE  LET t == work[l].trig IN
         /\ (\A e \in last[t] : clock - e >= Interval) \/ ZeroTick(t)
         /\ signals[t] >= Needed[t] \/ ZeroTick(t)
<1>. PICK t : t = work[l].trig
  OBVIOUS
<1>1. work[l].pc = "check" /\ t \in Hears[l] /\ Since(trig[t].start) < Window
  BY DEF Begins, InTime, Current
<1>2. t \in Triggers
  BY <1>1, AlarmGuardAssumption
<1>3. IsTrigger(t)
  BY BeginsBy
<1>4. Ended(t)
  <2>1. ASSUME NEW k \in Links, At(k, t)
        PROVE  work[k].pc \in {"count", "check"}
    <3>1. t \in Hears[k]
      BY <2>1 DEF At, InTime, Current
    <3>. QED
      BY <1>1, <3>1 DEF HeardByOne
  <2>. QED
    BY <1>2, <2>1 DEF InTime, Trigger
<1>. QED
  BY <1>1, <1>2, <1>3, <1>4, Rested, Recounted

(* Where no two links hear the same trigger, its alarms are apart: for any *)
(* width of the clock and any interval and window it has room for.         *)
THEOREM AlarmsRest ==
  ASSUME HeardByOne
  PROVE  Spec => AlarmsApart
<1>1. TypeOK /\ InTime /\ [Next]_vars => InTime'
  BY InTimeStep
<1>2. TypeOK /\ InTime /\ [Next]_vars =>
        [\A l \in Links : Begins(l) =>
           LET t == work[l].trig IN
           (\A e \in last[t] : clock - e >= Interval) \/ ZeroTick(t)]_vars
  BY BeginsInTime
<1>. QED
  BY <1>1, <1>2, TypeCorrect, InTimeInit, PTL DEF Spec, AlarmsApart

(* And the signals of one alarm do not help to raise the next.             *)
THEOREM CountStartsAnew ==
  ASSUME HeardByOne
  PROVE  Spec => CountsAnew
<1>1. TypeOK /\ InTime /\ [Next]_vars => InTime'
  BY InTimeStep
<1>2. TypeOK /\ InTime /\ [Next]_vars =>
        [\A l \in Links : Begins(l) =>
           LET t == work[l].trig IN signals[t] >= Needed[t] \/ ZeroTick(t)]_vars
  BY BeginsInTime
<1>. QED
  BY <1>1, <1>2, TypeCorrect, InTimeInit, PTL DEF Spec, CountsAnew

=============================================================================
