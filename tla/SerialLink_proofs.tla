-------------------------- MODULE SerialLink_proofs --------------------------
(***************************************************************************)
(* Proofs about SerialLink. The type invariant and WaitsOnce hold for all  *)
(* devices. That reads take turns and values land on their own addresses   *)
(* is proved for devices that answer in time: what is on the line is then  *)
(* the read in execution, so the reply that ends it is its own.            *)
(***************************************************************************)
EXTENDS SerialLink, TLAPS, FiniteSetTheorems, SequenceTheorems

(* Every copy holds values of the registers they are for.                  *)
OwnEntry(e) == \A p \in Points : e.was[p] \in {0, p[2]}

OwnCopies ==
    /\ \A i \in DOMAIN queue : OwnEntry(queue[i])
    /\ \A l \in Links : OwnEntry(cur[l]) /\ OwnEntry(turn[l].entry)

(* What is on the line is the read in execution, and no thread is about to *)
(* send a read while there is one.                                         *)
InTurn(l) ==
    /\ flight[l] # <<>> => /\ Len(flight[l]) = 1
                           /\ cur[l].msg = flight[l][1].msg
                           /\ ~cur[l].late
                           /\ ~flight[l][1].old
    /\ turn[l].pc = "send" /\ IsRead(turn[l].entry.msg)
       => cur[l].msg = NoMsg /\ flight[l] = <<>>

AllInTurn == \A l \in Links : InTurn(l)

-----------------------------------------------------------------------------
(* Positions of the queue.                                                 *)

Rank(S, i) == Cardinality({j \in S : j <= i})

(* A later position has a greater rank. *)
LEMMA RankGrows ==
    ASSUME NEW S \in SUBSET Nat, IsFiniteSet(S), NEW i \in S, NEW k \in S, i < k
    PROVE  Rank(S, i) < Rank(S, k)
<1> DEFINE A == {j \in S : j <= i}  B == {j \in S : j <= k}
<1>1. IsFiniteSet(A) /\ IsFiniteSet(B)
  BY FS_Subset
<1>2. A \subseteq B /\ k \in B /\ k \notin A
  <2>1. i \in Nat /\ k \in Nat /\ \A j \in S : j \in Nat
    OBVIOUS
  <2>2. A \subseteq B
    <3>1. \A j \in A : j \in B
      BY <2>1
    <3> HIDE DEF A, B
    <3> QED
      BY <3>1
  <2>3. k \in B
    BY <2>1
  <2>4. k \notin A
    BY <2>1
  <2> QED
    BY <2>2, <2>3, <2>4
<1>3. Cardinality(A) \in Nat /\ Cardinality(B) \in Nat
      /\ Cardinality(A) <= Cardinality(B)
      /\ Cardinality(A) # Cardinality(B)
  <2> HIDE DEF A, B
  <2> QED
    BY <1>1, <1>2, FS_Subset, FS_CardinalityType
<1> QED
  BY <1>3 DEF Rank

LEMMA RankInRange ==
    ASSUME NEW S \in SUBSET Nat, IsFiniteSet(S), NEW i \in S
    PROVE  Rank(S, i) \in 1 .. Cardinality(S)
<1> DEFINE A == {j \in S : j <= i}
<1>1. A \subseteq S /\ IsFiniteSet(A) /\ i \in A
  BY FS_Subset
<1>2. Cardinality(A) \in Nat /\ Cardinality(A) <= Cardinality(S)
      /\ Cardinality(S) \in Nat
  BY <1>1, FS_Subset, FS_CardinalityType
<1>3. Cardinality(A) # 0
  BY <1>1, FS_EmptySet
<1> QED
  BY <1>2, <1>3 DEF Rank

(* Nth lists the positions of a finite set, each of them once. *)
LEMMA NthOfSet ==
    ASSUME NEW S \in SUBSET Nat, IsFiniteSet(S)
    PROVE  /\ \A k \in 1 .. Cardinality(S) : Nth(S, k) \in S
           /\ \A j, k \in 1 .. Cardinality(S) : Nth(S, j) = Nth(S, k) => j = k
<1> DEFINE n == Cardinality(S)  rank == [i \in S |-> Rank(S, i)]
<1>1. n \in Nat /\ IsFiniteSet(1 .. n) /\ Cardinality(1 .. n) = n
  BY FS_CardinalityType, FS_Interval
<1>2. rank \in [S -> 1 .. n]
  BY RankInRange
<1>3. \A i, k \in S : rank[i] = rank[k] => i = k
  <2> SUFFICES ASSUME NEW i \in S, NEW k \in S, i # k PROVE rank[i] # rank[k]
    OBVIOUS
  <2>1. rank[i] \in Nat /\ rank[k] \in Nat
    BY <1>2
  <2>2. CASE i < k
    BY <2>1, <2>2, RankGrows
  <2>3. CASE k < i
    BY <2>1, <2>3, RankGrows
  <2> QED
    BY <2>2, <2>3
<1>4. rank \in Injection(S, 1 .. n)
  BY <1>2, <1>3 DEF Injection, IsInjective
<1>5. rank \in Surjection(S, 1 .. n)
  BY <1>1, <1>4, FS_Injection
<1>6. ASSUME NEW k \in 1 .. n
      PROVE  Nth(S, k) \in S /\ Rank(S, Nth(S, k)) = k
  <2>1. \E i \in S : Rank(S, i) = k
    BY <1>5 DEF Surjection
  <2> QED
    BY <2>1 DEF Nth, Rank
<1> QED
  BY <1>6

(* What WaitsOnce and OwnCopies say of the queue, for any sequence.        *)
Once(q) ==
    \A i, j \in DOMAIN q : q[i].msg = q[j].msg /\ q[i].msg.kind # "raw" => i = j

OwnAll(q) == \A i \in DOMAIN q : OwnEntry(q[i])

(* A part of the queue has what the queue has. *)
LEMMA KeepSome ==
    ASSUME queue \in Seq(Entries), NEW S \in SUBSET DOMAIN queue
    PROVE  /\ Keep(S) \in Seq(Entries)
           /\ Once(queue) => Once(Keep(S))
           /\ OwnAll(queue) => OwnAll(Keep(S))
<1> DEFINE n == Cardinality(S)  q == Keep(S)
<1>1. IsFiniteSet(S) /\ S \in SUBSET Nat
  <2>1. DOMAIN queue = 1 .. Len(queue) /\ Len(queue) \in Nat
    BY LenProperties
  <2>2. IsFiniteSet(1 .. Len(queue))
    BY <2>1, FS_Interval
  <2> QED
    BY <2>1, <2>2, FS_Subset
<1>2. n \in Nat
  BY <1>1, FS_CardinalityType
<1>3. /\ \A k \in 1 .. n : Nth(S, k) \in DOMAIN queue
      /\ \A j, k \in 1 .. n : Nth(S, j) = Nth(S, k) => j = k
  BY <1>1, NthOfSet
<1>4. q = [k \in 1 .. n |-> queue[Nth(S, k)]]
  BY DEF Keep
<1>5. q \in Seq(Entries)
  BY <1>2, <1>3, <1>4
<1>6. DOMAIN q = 1 .. n /\ \A k \in 1 .. n : q[k] = queue[Nth(S, k)]
  BY <1>4
<1>7. Once(queue) => Once(q)
  BY <1>3, <1>6 DEF Once
<1>8. OwnAll(queue) => OwnAll(q)
  BY <1>3, <1>6 DEF OwnAll
<1> QED
  BY <1>5, <1>7, <1>8

-----------------------------------------------------------------------------
(* Messages and the registers they ask for.                                *)

LEMMA MessageTyped ==
    ASSUME NEW m \in Messages
    PROVE  /\ m.dev \in Devices /\ m.link \in Links /\ m.addr \in Nat
           /\ m # NoMsg
           /\ Targets(m) \subseteq Points
BY SerialAssumption DEF MessageType, Targets, Points

LEMMA PointTyped ==
    ASSUME NEW p \in Points
    PROVE  /\ p[1] \in Devices /\ p[2] \in Registers[p[1]] /\ p[2] \in Nat
           /\ p = <<p[1], p[2]>>
BY SerialAssumption DEF Points

(* No address a read asks for is below the first. *)
LEMMA FirstIsLeast ==
    ASSUME NEW m \in Reads
    PROVE  FirstOf(m) \in Nat /\ \A p \in Targets(m) : FirstOf(m) <= p[2]
<1>1. m \in Messages /\ m.dev \in Devices /\ m.addr \in Nat
  BY MessageTyped DEF Reads
<1>2. CASE m.addr # 0
  BY <1>1, <1>2 DEF FirstOf, Targets
<1>3. CASE m.addr = 0
  <2>1. \E a \in Registers[m.dev] : \A b \in Registers[m.dev] : a <= b
    BY <1>1, SerialAssumption
  <2>2. FirstOf(m) \in Registers[m.dev]
        /\ \A b \in Registers[m.dev] : FirstOf(m) <= b
    BY <1>3, <2>1 DEF FirstOf
  <2>3. \A p \in Targets(m) : p[2] \in Registers[m.dev]
    BY <1>3 DEF Targets
  <2>4. Registers[m.dev] \subseteq Nat
    BY <1>1, SerialAssumption
  <2> QED
    BY <2>2, <2>3, <2>4
<1> QED
  BY <1>2, <1>3

-----------------------------------------------------------------------------
(* Type correctness.                                                       *)

LEMMA NothingTyped == Nothing.msg = NoMsg /\ Nothing.was \in [Points -> Nat]
BY DEF Nothing

LEMMA EntryTyped ==
    ASSUME TypeOK, NEW m \in Messages
    PROVE  Entry(m) \in Entries /\ Entry(m).msg = m
BY DEF TypeOK, Entry, Entries

LEMMA LateTyped ==
    ASSUME NEW e \in Entries, NEW b \in BOOLEAN
    PROVE  [e EXCEPT !.late = b] \in Entries
BY DEF Entries

LEMMA QueuePart ==
    ASSUME TypeOK, NEW i \in DOMAIN queue, NEW b \in BOOLEAN
    PROVE  [queue EXCEPT ![i].late = b] \in Seq(Entries)
<1>1. i \in 1 .. Len(queue) /\ queue[i] \in Entries
  BY LenProperties, ElementOfSeq DEF TypeOK
<1>2. [queue EXCEPT ![i] = [queue[i] EXCEPT !.late = b]] \in Seq(Entries)
  BY <1>1, LateTyped, ExceptSeq DEF TypeOK
<1> QED
  BY <1>2

LEMMA TypeInit == Init => TypeOK
BY SerialAssumption DEF Init, TypeOK, Nothing, Resting, Turns

LEMMA FailureTyped ==
    ASSUME TypeOK, NEW m \in Messages, OnTimeOverForCmdRecv(m)
    PROVE  /\ failed' \in [Devices -> 0 .. MainCount + 1]
           /\ useable' \in [Devices -> BOOLEAN]
<1> DEFINE count == IF failed[m.dev] > MainCount THEN failed[m.dev]
                    ELSE failed[m.dev] + 1
           fine == ~IsTooMuch(count, silence[m.dev])
<1>1. m.dev \in Devices
  BY MessageTyped
<1>2. count \in 0 .. MainCount + 1
  BY <1>1, SerialAssumption DEF TypeOK
<1>3. fine \in BOOLEAN
  BY DEF IsTooMuch
<1>4. CASE m.addr # 0 /\ useable[m.dev]
  <2>1. failed' = [failed EXCEPT ![m.dev] = count]
        /\ useable' = [useable EXCEPT ![m.dev] = fine]
    BY <1>4 DEF OnTimeOverForCmdRecv
  <2> HIDE DEF count, fine
  <2> QED
    BY <1>2, <1>3, <2>1 DEF TypeOK
<1>5. CASE ~(m.addr # 0 /\ useable[m.dev])
  BY <1>5 DEF OnTimeOverForCmdRecv, TypeOK
<1> QED
  BY <1>4, <1>5

LEMMA GiveUpTyped ==
    ASSUME TypeOK, NEW l \in Links, NEW m \in Messages, GiveUp(l, m)
    PROVE  /\ cur' \in [Links -> ReadEntries \cup {Nothing}]
           /\ failed' \in [Devices -> 0 .. MainCount + 1]
           /\ useable' \in [Devices -> BOOLEAN]
<1>1. CASE IsRead(m) /\ cur[l].msg # NoMsg
  <2>1. cur[l].msg \in Messages
    BY <1>1 DEF TypeOK, ReadEntries, Entries, Nothing
  <2>2. cur' = [cur EXCEPT ![l] = Nothing] /\ OnTimeOverForCmdRecv(cur[l].msg)
    BY <1>1 DEF GiveUp
  <2>3. cur' \in [Links -> ReadEntries \cup {Nothing}]
    BY <2>2 DEF TypeOK
  <2> QED
    BY <2>1, <2>2, <2>3, FailureTyped
<1>2. CASE ~(IsRead(m) /\ cur[l].msg # NoMsg)
  BY <1>2 DEF GiveUp, TypeOK
<1> QED
  BY <1>1, <1>2

LEMMA ValueTyped ==
    ASSUME TypeOK, NEW read \in ReadEntries, NEW reply \in Flights,
           NEW p \in Targets(read.msg)
    PROVE  RegisterFor(p, read, reply) \in Nat
<1>1. /\ read.msg \in Reads /\ reply.msg \in Reads
      /\ read.msg \in Messages /\ read.was \in [Points -> Nat]
  BY DEF ReadEntries, Entries, Flights, Reads
<1>2. p \in Points /\ p[2] \in Nat
  BY <1>1, MessageTyped, PointTyped
<1>3. FirstOf(read.msg) \in Nat /\ FirstOf(reply.msg) \in Nat
      /\ FirstOf(read.msg) <= p[2]
  BY <1>1, FirstIsLeast
<1> QED
  BY <1>1, <1>2, <1>3 DEF RegisterFor

LEMMA DataTyped ==
    ASSUME TypeOK, NEW read \in ReadEntries, NEW reply \in Flights,
           OnDeviceData(read, reply)
    PROVE  /\ shown' \in [Points -> Nat]
           /\ known' \subseteq Points
           /\ useable' \in [Devices -> BOOLEAN]
           /\ failed' \in [Devices -> 0 .. MainCount + 1]
           /\ silence' \in [Devices -> 0 .. 2]
<1>1. PICK taken \in SUBSET Targets(read.msg) :
          OnDeviceData(read, reply)!(taken)
  BY DEF OnDeviceData
<1>2. read.msg \in Messages
  BY DEF ReadEntries, Entries
<1>3. taken \subseteq Points
  BY <1>2, MessageTyped
<1>4. shown' \in [Points -> Nat]
  BY <1>1, ValueTyped DEF TypeOK
<1>5. known' \subseteq Points
  BY <1>1, <1>3 DEF TypeOK
<1>6. /\ useable' \in [Devices -> BOOLEAN]
      /\ failed' \in [Devices -> 0 .. MainCount + 1]
      /\ silence' \in [Devices -> 0 .. 2]
  <2>1. CASE taken \cap known # {}
    <3>1. /\ useable' = [useable EXCEPT ![read.msg.dev] = TRUE]
          /\ failed' = [failed EXCEPT ![read.msg.dev] = 0]
          /\ silence' = [silence EXCEPT ![read.msg.dev] = 0]
      BY <1>1, <2>1
    <3>2. 0 \in 0 .. MainCount + 1 /\ 0 \in 0 .. 2
      BY SerialAssumption
    <3> QED
      BY <3>1, <3>2 DEF TypeOK
  <2>2. CASE taken \cap known = {}
    BY <1>1, <2>2 DEF TypeOK
  <2> QED
    BY <2>1, <2>2
<1> QED
  BY <1>4, <1>5, <1>6

(* One flight changes, its messages stay.                                  *)
LEMMA FlightChanged ==
    ASSUME TypeOK, NEW l \in Links, NEW s \in Seq(Flights)
    PROVE  [flight EXCEPT ![l] = s] \in [Links -> Seq(Flights)]
BY DEF TypeOK

LEMMA FlightTyped ==
    ASSUME TypeOK, NEW l \in Links
    PROVE  /\ flight[l] \in Seq(Flights)
           /\ Len(flight[l]) \in Nat
           /\ DOMAIN flight[l] = 1 .. Len(flight[l])
           /\ \A i \in DOMAIN flight[l] : flight[l][i] \in Flights
BY LenProperties, ElementOfSeq DEF TypeOK

LEMMA WithoutTyped ==
    ASSUME NEW s \in Seq(Flights), NEW i \in DOMAIN s
    PROVE  /\ Without(s, i) \in Seq(Flights)
           /\ Len(Without(s, i)) = Len(s) - 1
<1>1. /\ Len(s) \in Nat /\ DOMAIN s = 1 .. Len(s)
      /\ \A j \in 1 .. Len(s) : s[j] \in Flights
  BY LenProperties, ElementOfSeq
<1>2. Len(s) - 1 \in Nat
  BY <1>1
<1> QED
  BY <1>1, <1>2 DEF Without

LEMMA SentTyped ==
    ASSUME NEW s \in Seq(Flights), NEW m \in Reads
    PROVE  Sent(s, m) \in Seq(Flights)
<1> DEFINE f == [msg |-> m, answer |-> "none", old |-> FALSE]
<1>1. f \in Flights
  BY DEF Flights
<1>2. Append(s, f) \in Seq(Flights) /\ Append(s, f) # <<>>
  BY <1>1
<1>3. Tail(Append(s, f)) \in Seq(Flights)
  BY <1>2, HeadTailProperties
<1> QED
  BY <1>2, <1>3 DEF Sent

LEMMA doMessageTyped ==
    ASSUME TypeOK, NEW m \in Messages, doMessage(m)
    PROVE  TypeOK'
<1>1. queue' \in Seq(Entries)
  <2>1. ASSUME NEW i \in DOMAIN queue, queue' = [queue EXCEPT ![i].late = FALSE]
        PROVE  queue' \in Seq(Entries)
    BY <2>1, QueuePart
  <2>2. CASE queue' = Append(queue, Entry(m))
    BY <2>2, EntryTyped DEF TypeOK
  <2> QED
    BY <2>1, <2>2 DEF doMessage
<1> QED
  BY <1>1 DEF TypeOK, doMessage, linevars, devvars

LEMMA CheckTyped ==
    ASSUME TypeOK, Check
    PROVE  TypeOK'
<1>1. Keep(OnTime) \in Seq(Entries)
  BY KeepSome DEF TypeOK, OnTime
<1> QED
  BY <1>1 DEF TypeOK, Check, linevars, devvars

LEMMA onTimerTyped ==
    ASSUME TypeOK, NEW l \in Links, onTimer(l)
    PROVE  TypeOK'
<1>1. CASE Sendable(l) = {} /\ queue' = Keep(OnTime)
           /\ turn' = [turn EXCEPT ![l] = Receiving]
           /\ UNCHANGED <<cur, failed, useable>>
  <2>1. queue' \in Seq(Entries)
    BY <1>1, KeepSome DEF TypeOK, OnTime
  <2>2. turn' \in [Links -> Turns]
    BY <1>1 DEF TypeOK, Receiving, Turns
  <2> QED
    BY <1>1, <2>1, <2>2 DEF TypeOK, onTimer
<1>2. ASSUME NEW i \in DOMAIN queue,
             queue' = Keep({j \in DOMAIN queue : (j < i => j \in OnTime) /\ j # i}),
             turn' = [turn EXCEPT ![l] = [pc |-> "send", entry |-> queue[i]]],
             GiveUp(l, queue[i].msg)
      PROVE  TypeOK'
  <2>1. queue' \in Seq(Entries)
    BY <1>2, KeepSome DEF TypeOK
  <2>2. queue[i] \in Entries /\ queue[i].msg \in Messages
    <3>1. i \in 1 .. Len(queue)
      BY LenProperties DEF TypeOK
    <3>2. queue[i] \in Entries
      BY <3>1, ElementOfSeq DEF TypeOK
    <3> QED
      BY <3>2 DEF Entries
  <2>3. turn' \in [Links -> Turns]
    BY <1>2, <2>2 DEF TypeOK, Turns
  <2> QED
    BY <1>2, <2>1, <2>2, <2>3, GiveUpTyped DEF TypeOK, onTimer
<1> QED
  BY <1>1, <1>2 DEF onTimer

LEMMA SendDataTyped ==
    ASSUME TypeOK, NEW l \in Links, SendData(l)
    PROVE  TypeOK'
<1> DEFINE e == turn[l].entry
<1>1. e \in Entries /\ e.msg \in Messages
  BY DEF TypeOK, SendData, Turns, Entries
<1>2. cur' \in [Links -> ReadEntries \cup {Nothing}]
  <2>1. CASE IsRead(e.msg)
    <3>1. [e EXCEPT !.late = FALSE] \in ReadEntries
      BY <1>1, <2>1 DEF ReadEntries, Reads, Entries
    <3>2. cur' = [cur EXCEPT ![l] = [e EXCEPT !.late = FALSE]]
      BY <2>1 DEF SendData, Set_CurCmd
    <3> QED
      BY <3>1, <3>2 DEF TypeOK
  <2>2. CASE ~IsRead(e.msg)
    BY <2>2 DEF SendData, Set_CurCmd, TypeOK
  <2> QED
    BY <2>1, <2>2
<1>3. turn' \in [Links -> Turns]
  BY DEF TypeOK, SendData, Receiving, Turns
<1>4. open' \in [Links -> BOOLEAN]
  BY DEF TypeOK, SendData, Closing
<1>5. flight' \in [Links -> Seq(Flights)]
  <2>1. CASE IsRead(e.msg) /\ flight' = [flight EXCEPT ![l] = Sent(@, e.msg)]
    BY <1>1, <2>1, SentTyped, FlightTyped, FlightChanged DEF Reads
  <2>2. CASE flight' = flight
    BY <2>2 DEF TypeOK
  <2>3. CASE Closing(l)
    BY <2>3, FlightChanged, EmptySeq DEF Closing
  <2> QED
    BY <2>1, <2>2, <2>3 DEF SendData
<1> QED
  BY <1>2, <1>3, <1>4, <1>5 DEF TypeOK, SendData, devvars

LEMMA ReceiveTyped ==
    ASSUME TypeOK, NEW l \in Links, Receive(l)
    PROVE  TypeOK'
<1> DEFINE reply == Head(flight[l])
<1>1. reply \in Flights /\ Tail(flight[l]) \in Seq(Flights)
  BY FlightTyped, HeadTailProperties DEF Receive
<1>2. cur' \in [Links -> ReadEntries \cup {Nothing}]
  BY DEF TypeOK, Receive, Decode_RS485Data
<1>3. flight' \in [Links -> Seq(Flights)]
  BY <1>1, FlightChanged DEF Receive
<1>4. /\ shown' \in [Points -> Nat]
      /\ known' \subseteq Points
      /\ useable' \in [Devices -> BOOLEAN]
      /\ failed' \in [Devices -> 0 .. MainCount + 1]
      /\ silence' \in [Devices -> 0 .. 2]
  <2>1. CASE UNCHANGED devvars
    BY <2>1 DEF TypeOK, devvars
  <2>2. CASE cur[l].msg # NoMsg /\ OnDeviceData(cur[l], reply)
    <3>1. cur[l] \in ReadEntries
      BY <2>2 DEF TypeOK, Nothing
    <3> HIDE DEF reply
    <3> QED
      BY <1>1, <2>2, <3>1, DataTyped
  <2> QED
    BY <2>1, <2>2 DEF Receive, Decode_RS485Data
<1> QED
  BY <1>2, <1>3, <1>4 DEF TypeOK, Receive

LEMMA AnswerTyped ==
    ASSUME TypeOK, NEW l \in Links, Answer(l)
    PROVE  TypeOK'
<1>1. PICK i \in DOMAIN flight[l], answer \in {"value", "error"} :
          flight' = [flight EXCEPT ![l][i].answer = answer]
  BY DEF Answer
<1>2. i \in 1 .. Len(flight[l]) /\ flight[l][i] \in Flights
      /\ flight[l] \in Seq(Flights)
  BY FlightTyped
<1>3. [flight[l][i] EXCEPT !.answer = answer] \in Flights
  BY <1>2 DEF Flights
<1>4. [flight[l] EXCEPT ![i] = [flight[l][i] EXCEPT !.answer = answer]]
      \in Seq(Flights)
  BY <1>2, <1>3, ExceptSeq
<1>5. flight' \in [Links -> Seq(Flights)]
  BY <1>1, <1>4, FlightChanged
<1> QED
  BY <1>5 DEF TypeOK, Answer, devvars

LEMMA LoseTyped ==
    ASSUME TypeOK, NEW l \in Links, Lose(l)
    PROVE  TypeOK'
<1>1. flight' \in [Links -> Seq(Flights)]
  BY FlightTyped, WithoutTyped, FlightChanged DEF Lose
<1> QED
  BY <1>1 DEF TypeOK, Lose, devvars

LEMMA AgeTyped ==
    ASSUME TypeOK, NEW l \in Links, Age(l)
    PROVE  TypeOK'
<1>1. PICK i \in DOMAIN flight[l] : flight' = [flight EXCEPT ![l][i].old = TRUE]
  BY DEF Age
<1>2. i \in 1 .. Len(flight[l]) /\ flight[l][i] \in Flights
      /\ flight[l] \in Seq(Flights)
  BY FlightTyped
<1>3. [flight[l][i] EXCEPT !.old = TRUE] \in Flights
  BY <1>2 DEF Flights
<1>4. [flight[l] EXCEPT ![i] = [flight[l][i] EXCEPT !.old = TRUE]] \in Seq(Flights)
  BY <1>2, <1>3, ExceptSeq
<1>5. flight' \in [Links -> Seq(Flights)]
  BY <1>1, <1>4, FlightChanged
<1> QED
  BY <1>5 DEF TypeOK, Age, devvars

LEMMA CurLateTyped ==
    ASSUME TypeOK, NEW l \in Links, CurLate(l)
    PROVE  TypeOK'
<1>1. cur[l] \in ReadEntries
  BY DEF TypeOK, CurLate, Nothing
<1>2. [cur[l] EXCEPT !.late = TRUE] \in ReadEntries
  BY <1>1 DEF ReadEntries, Entries
<1>3. cur' = [cur EXCEPT ![l] = [cur[l] EXCEPT !.late = TRUE]]
  BY DEF CurLate
<1>4. cur' \in [Links -> ReadEntries \cup {Nothing}]
  BY <1>2, <1>3 DEF TypeOK
<1> QED
  BY <1>4 DEF TypeOK, CurLate, linevars, devvars

LEMMA QueueLateTyped ==
    ASSUME TypeOK, QueueLate
    PROVE  TypeOK'
<1>1. queue' \in Seq(Entries)
  BY QueuePart DEF QueueLate, OnTime
<1> QED
  BY <1>1 DEF TypeOK, QueueLate, linevars, devvars

LEMMA SilentTyped ==
    ASSUME TypeOK, NEW d \in Devices, Silent(d)
    PROVE  TypeOK'
<1>1. silence' \in [Devices -> 0 .. 2]
  <2>1. silence[d] \in 0 .. 2 /\ silence[d] < 2
    BY DEF TypeOK, Silent
  <2>2. silence[d] + 1 \in 0 .. 2
    BY <2>1
  <2> QED
    BY <2>2 DEF TypeOK, Silent
<1> QED
  BY <1>1 DEF TypeOK, Silent, linevars

LEMMA RestTyped ==
    ASSUME TypeOK, NEW l \in Links, EndOfRound(l) \/ Open(l) \/ Close(l)
    PROVE  TypeOK'
<1>1. CASE EndOfRound(l)
  BY <1>1 DEF TypeOK, EndOfRound, Resting, Turns, devvars
<1>2. CASE Open(l)
  BY <1>2 DEF TypeOK, Open, devvars
<1>3. CASE Close(l)
  <2>1. flight' \in [Links -> Seq(Flights)]
    BY <1>3, FlightChanged, EmptySeq DEF Close, Closing
  <2> QED
    BY <1>3, <2>1 DEF TypeOK, Close, Closing, devvars
<1> QED
  BY <1>1, <1>2, <1>3

LEMMA TypeStep == TypeOK /\ [Next]_vars => TypeOK'
<1> SUFFICES ASSUME TypeOK, [Next]_vars PROVE TypeOK'
  OBVIOUS
<1>1. CASE UNCHANGED vars
  BY <1>1 DEF vars, linevars, devvars, TypeOK
<1>2. ASSUME NEW m \in Messages, doMessage(m) PROVE TypeOK'
  BY <1>2, doMessageTyped
<1>3. CASE Check
  BY <1>3, CheckTyped
<1>4. CASE QueueLate
  BY <1>4, QueueLateTyped
<1>5. ASSUME NEW l \in Links, LinkStep(l) PROVE TypeOK'
  BY <1>5, onTimerTyped, SendDataTyped, ReceiveTyped, RestTyped DEF LinkStep
<1>6. ASSUME NEW l \in Links, Open(l) \/ Close(l) PROVE TypeOK'
  BY <1>6, RestTyped
<1>7. ASSUME NEW l \in Links, Answer(l) \/ Lose(l) \/ Age(l) \/ CurLate(l)
      PROVE  TypeOK'
  BY <1>7, AnswerTyped, LoseTyped, AgeTyped, CurLateTyped
<1>8. ASSUME NEW d \in Devices, Silent(d) PROVE TypeOK'
  BY <1>8, SilentTyped
<1> QED
  BY <1>1, <1>2, <1>3, <1>4, <1>5, <1>6, <1>7, <1>8 DEF Next

(* The queue, the reads in execution and the counters of the devices keep  *)
(* their types, for any links, devices and messages.                       *)
THEOREM TypeCorrect == Spec => []TypeOK
<1>1. Init => TypeOK
  BY TypeInit
<1>2. TypeOK /\ [Next]_vars => TypeOK'
  BY TypeStep
<1> QED
  BY <1>1, <1>2, PTL DEF Spec

-----------------------------------------------------------------------------
(* The queue.                                                              *)

LEMMA LatePart ==
    ASSUME queue \in Seq(Entries), NEW i \in DOMAIN queue, NEW b \in BOOLEAN
    PROVE  LET q == [queue EXCEPT ![i].late = b] IN
           /\ Once(queue) => Once(q)
           /\ OwnAll(queue) => OwnAll(q)
<1> DEFINE q == [queue EXCEPT ![i].late = b]
<1>1. /\ DOMAIN q = DOMAIN queue
      /\ \A j \in DOMAIN queue : q[j].msg = queue[j].msg /\ q[j].was = queue[j].was
  <2>1. \A j \in DOMAIN queue : queue[j] \in Entries
    BY LenProperties, ElementOfSeq
  <2> QED
    BY <2>1 DEF Entries
<1> HIDE DEF q
<1>2. Once(queue) => Once(q)
  BY <1>1 DEF Once
<1>3. OwnAll(queue) => OwnAll(q)
  BY <1>1 DEF OwnAll, OwnEntry
<1> QED
  BY <1>2, <1>3 DEF q

LEMMA AppendPart ==
    ASSUME TypeOK, NEW m \in Messages, SameAs(m) = {}
    PROVE  LET q == Append(queue, Entry(m)) IN
           /\ Once(queue) => Once(q)
           /\ OwnAll(queue) /\ OwnEntry(Entry(m)) => OwnAll(q)
<1> DEFINE e == Entry(m)  q == Append(queue, e)  n == Len(queue)
<1>1. /\ n \in Nat /\ DOMAIN queue = 1 .. n /\ queue \in Seq(Entries)
  BY LenProperties DEF TypeOK
<1>2. e \in Entries /\ e.msg = m
  BY EntryTyped
<1> HIDE DEF e
<1>3. /\ DOMAIN q = 1 .. n + 1
      /\ \A j \in 1 .. n : q[j] = queue[j]
      /\ q[n + 1] = e
  BY <1>1, <1>2
<1>4. \A j \in 1 .. n : queue[j].msg = m => m.kind = "raw"
  BY <1>1 DEF SameAs
<1> HIDE DEF q
<1>5. ASSUME Once(queue) PROVE Once(q)
  <2> SUFFICES ASSUME NEW i \in 1 .. n + 1, NEW j \in 1 .. n + 1,
                      q[i].msg = q[j].msg, q[i].msg.kind # "raw"
               PROVE  i = j
    BY <1>3 DEF Once
  <2>1. CASE i \in 1 .. n /\ j \in 1 .. n
    BY <1>1, <1>3, <1>5, <2>1 DEF Once
  <2>2. CASE i = n + 1 /\ j \in 1 .. n
    BY <1>2, <1>3, <1>4, <2>2
  <2>3. CASE j = n + 1 /\ i \in 1 .. n
    BY <1>2, <1>3, <1>4, <2>3
  <2> QED
    BY <1>1, <2>1, <2>2, <2>3
<1>6. ASSUME OwnAll(queue), OwnEntry(e) PROVE OwnAll(q)
  <2>1. ASSUME NEW j \in 1 .. n + 1 PROVE OwnEntry(q[j])
    <3>1. CASE j \in 1 .. n
      BY <1>1, <1>3, <1>6, <3>1 DEF OwnAll
    <3>2. CASE j = n + 1
      BY <1>3, <1>6, <3>2
    <3> QED
      BY <1>1, <3>1, <3>2
  <2> QED
    BY <1>3, <2>1 DEF OwnAll
<1> QED
  BY <1>5, <1>6 DEF q, e

(* What a step does to the queue. *)
LEMMA QueueStep ==
    ASSUME TypeOK, [Next]_vars
    PROVE  \/ queue' = queue
           \/ \E i \in DOMAIN queue, b \in BOOLEAN :
                 queue' = [queue EXCEPT ![i].late = b]
           \/ \E S \in SUBSET DOMAIN queue : queue' = Keep(S)
           \/ \E m \in Messages : SameAs(m) = {} /\ queue' = Append(queue, Entry(m))
<1>1. CASE UNCHANGED vars
  BY <1>1 DEF vars
<1>2. ASSUME NEW m \in Messages, doMessage(m)
      PROVE  \/ \E i \in DOMAIN queue, b \in BOOLEAN :
                   queue' = [queue EXCEPT ![i].late = b]
             \/ SameAs(m) = {} /\ queue' = Append(queue, Entry(m))
  BY <1>2 DEF doMessage
<1>3. CASE Check
  BY <1>3 DEF Check, OnTime
<1>4. CASE QueueLate
  BY <1>4 DEF QueueLate, OnTime
<1>5. ASSUME NEW l \in Links, onTimer(l)
      PROVE  \E S \in SUBSET DOMAIN queue : queue' = Keep(S)
  BY <1>5 DEF onTimer, OnTime
<1>6. ASSUME NEW l \in Links, \/ SendData(l) \/ Receive(l) \/ EndOfRound(l)
                              \/ Open(l) \/ Close(l) \/ Answer(l) \/ Lose(l)
                              \/ Age(l) \/ CurLate(l)
      PROVE  queue' = queue
  BY <1>6 DEF SendData, Receive, EndOfRound, Open, Close, Answer, Lose, Age, CurLate
<1>7. ASSUME NEW d \in Devices, Silent(d) PROVE queue' = queue
  BY <1>7 DEF Silent
<1> QED
  BY <1>1, <1>2, <1>3, <1>4, <1>5, <1>6, <1>7 DEF Next, LinkStep

LEMMA WaitsOnceStep == TypeOK /\ WaitsOnce /\ [Next]_vars => WaitsOnce'
<1> SUFFICES ASSUME TypeOK, WaitsOnce, [Next]_vars PROVE WaitsOnce'
  OBVIOUS
<1>1. queue \in Seq(Entries) /\ Once(queue)
  BY DEF TypeOK, WaitsOnce, Once
<1>2. Once(queue')
  BY <1>1, QueueStep, LatePart, KeepSome, AppendPart, ZenonT(60)
<1> QED
  BY <1>2 DEF WaitsOnce, Once

(* A message with a control object waits at most once: doMessage finds the *)
(* same message, overdue or not, before it adds one.                       *)
THEOREM NothingWaitsTwice == Spec => []WaitsOnce
<1>1. Init => TypeOK /\ WaitsOnce
  BY TypeInit DEF Init, WaitsOnce
<1>2. TypeOK /\ WaitsOnce /\ [Next]_vars => TypeOK' /\ WaitsOnce'
  BY TypeStep, WaitsOnceStep
<1> QED
  BY <1>1, <1>2, PTL DEF Spec

-----------------------------------------------------------------------------
(* Reads in turn, where devices answer in time.                            *)

Timely == Attribution /\ OwnCopies /\ AllInTurn

LEMMA NothingOwn == OwnEntry(Nothing)
BY DEF OwnEntry, Nothing

LEMMA EntryOwn ==
    ASSUME TypeOK, Attribution, NEW m \in Messages
    PROVE  OwnEntry(Entry(m))
BY DEF Attribution, OwnEntry, Entry

LEMMA LateOwn ==
    ASSUME NEW e \in Entries, OwnEntry(e), NEW b \in BOOLEAN
    PROVE  OwnEntry([e EXCEPT !.late = b])
BY DEF OwnEntry, Entries

(* A read in execution or none has a message of its own. *)
LEMMA CurTyped ==
    ASSUME TypeOK, NEW l \in Links
    PROVE  /\ cur[l].msg = NoMsg <=> cur[l] = Nothing
           /\ cur[l].msg # NoMsg => cur[l] \in ReadEntries /\ cur[l] \in Entries
BY MessageTyped DEF TypeOK, ReadEntries, Entries, Nothing

LEMMA FlightMessage ==
    ASSUME TypeOK, NEW l \in Links, flight[l] # <<>>, InTurn(l)
    PROVE  /\ 1 \in DOMAIN flight[l] /\ DOMAIN flight[l] = {1}
           /\ flight[l][1] \in Flights /\ Head(flight[l]) = flight[l][1]
           /\ Tail(flight[l]) = <<>>
           /\ cur[l].msg \in Reads /\ cur[l].msg # NoMsg
           /\ cur[l].msg = flight[l][1].msg /\ ~cur[l].late /\ ~flight[l][1].old
<1>1. /\ Len(flight[l]) = 1 /\ cur[l].msg = flight[l][1].msg
      /\ ~cur[l].late /\ ~flight[l][1].old
  BY DEF InTurn
<1>2. flight[l] \in Seq(Flights) /\ DOMAIN flight[l] = 1 .. Len(flight[l])
      /\ \A i \in DOMAIN flight[l] : flight[l][i] \in Flights
  BY FlightTyped
<1>3. DOMAIN flight[l] = {1}
  BY <1>1, <1>2
<1>4. flight[l][1] \in Flights
  BY <1>2, <1>3
<1>5. Head(flight[l]) = flight[l][1]
  BY <1>2
<1>6. Tail(flight[l]) = <<>>
  <2>1. Tail(flight[l]) \in Seq(Flights) /\ Len(Tail(flight[l])) = Len(flight[l]) - 1
    BY <1>2, HeadTailProperties
  <2>2. Len(Tail(flight[l])) = 0
    BY <1>1, <2>1
  <2> QED
    BY <2>1, <2>2, EmptySeq
<1>7. cur[l].msg \in Reads /\ cur[l].msg # NoMsg
  BY <1>1, <1>4, MessageTyped DEF Flights, Reads
<1> QED
  BY <1>1, <1>3, <1>4, <1>5, <1>6, <1>7

(* The value of its own reply is one of the register of the address.       *)
LEMMA ValueOwn ==
    ASSUME NEW read \in ReadEntries, NEW reply \in Flights, reply.msg = read.msg,
           OwnEntry(read), NEW p \in Targets(read.msg)
    PROVE  RegisterFor(p, read, reply) \in {0, p[2]}
<1>1. read.msg \in Reads /\ read.msg \in Messages
  BY DEF ReadEntries, Reads
<1>2. p \in Points /\ p[2] \in Nat
  BY <1>1, MessageTyped, PointTyped
<1>3. FirstOf(read.msg) \in Nat
  BY <1>1, FirstIsLeast
<1>4. FirstOf(read.msg) + (p[2] - FirstOf(read.msg)) = p[2]
  BY <1>2, <1>3
<1>5. read.was[p] \in {0, p[2]}
  BY <1>2 DEF OwnEntry
<1> QED
  BY <1>4, <1>5 DEF RegisterFor

LEMMA AttributionStep ==
    ASSUME TypeOK, Timely, [Next]_vars
    PROVE  Attribution'
<1>1. CASE UNCHANGED shown
  BY <1>1 DEF Timely, Attribution
<1>2. ASSUME NEW l \in Links, Receive(l)
      PROVE  Attribution'
  <2> DEFINE reply == Head(flight[l])
  <2>1. CASE UNCHANGED devvars
    BY <1>1, <2>1 DEF devvars
  <2>2. CASE OnDeviceData(cur[l], reply)
    <3>1. /\ reply \in Flights /\ reply.msg = cur[l].msg
          /\ cur[l] \in ReadEntries /\ OwnEntry(cur[l])
      BY <1>2, FlightMessage, CurTyped DEF Receive, Timely, AllInTurn, OwnCopies
    <3> HIDE DEF reply
    <3>2. PICK taken \in SUBSET Targets(cur[l].msg) :
              shown' = [p \in Points |-> IF p \in taken
                            THEN RegisterFor(p, cur[l], reply) ELSE shown[p]]
      BY <2>2 DEF OnDeviceData
    <3>3. ASSUME NEW p \in Points PROVE shown'[p] \in {0, p[2]}
      <4>1. CASE p \in taken
        BY <3>1, <3>2, <4>1, ValueOwn
      <4>2. CASE p \notin taken
        BY <3>2, <4>2 DEF Timely, Attribution
      <4> QED
        BY <4>1, <4>2
    <3> QED
      BY <3>3 DEF Attribution
  <2> QED
    BY <1>2, <2>1, <2>2 DEF Receive, Decode_RS485Data
<1>3. ASSUME ~ \E l \in Links : Receive(l)
      PROVE  UNCHANGED shown
  BY <1>3 DEF Next, LinkStep, doMessage, Check, QueueLate, onTimer, SendData,
              EndOfRound, Open, Close, Answer, Lose, Age, CurLate, Silent,
              vars, devvars
<1> QED
  BY <1>1, <1>2, <1>3

LEMMA OwnCopiesStep ==
    ASSUME TypeOK, Timely, [Next]_vars
    PROVE  OwnCopies'
<1>1. OwnAll(queue) /\ queue \in Seq(Entries)
  BY DEF Timely, OwnCopies, OwnAll, TypeOK
<1>2. OwnAll(queue')
  <2>1. ASSUME NEW m \in Messages PROVE OwnEntry(Entry(m))
    BY EntryOwn DEF Timely
  <2> QED
    BY <1>1, <2>1, QueueStep, LatePart, KeepSome, AppendPart, ZenonT(60)
<1>3. ASSUME NEW l \in Links PROVE OwnEntry(cur[l]) /\ OwnEntry(turn[l].entry)
  BY DEF Timely, OwnCopies
<1>4. cur \in [Links -> ReadEntries \cup {Nothing}] /\ turn \in [Links -> Turns]
  BY DEF TypeOK
<1>5. ASSUME NEW k \in Links,
             \/ UNCHANGED cur
             \/ cur' = [cur EXCEPT ![k] = Nothing]
             \/ \E b \in BOOLEAN : cur' = [cur EXCEPT ![k].late = b]
             \/ \E e \in Entries : OwnEntry(e) /\ cur' = [cur EXCEPT ![k] = e]
      PROVE  \A l \in Links : OwnEntry(cur'[l])
  <2> SUFFICES ASSUME NEW l \in Links PROVE OwnEntry(cur'[l])
    OBVIOUS
  <2>1. ASSUME NEW b \in BOOLEAN, cur' = [cur EXCEPT ![k].late = b]
        PROVE  OwnEntry(cur'[l])
    <3>1. cur'[l].was = cur[l].was
      BY <1>4, <2>1 DEF ReadEntries, Entries, Nothing
    <3> QED
      BY <1>3, <3>1 DEF OwnEntry
  <2> QED
    BY <1>3, <1>4, <1>5, <2>1, NothingOwn
<1>6. ASSUME NEW k \in Links,
             \/ UNCHANGED turn
             \/ turn' = [turn EXCEPT ![k] = Resting]
             \/ turn' = [turn EXCEPT ![k] = Receiving]
             \/ \E i \in DOMAIN queue :
                   turn' = [turn EXCEPT ![k] = [pc |-> "send", entry |-> queue[i]]]
      PROVE  \A l \in Links : OwnEntry(turn'[l].entry)
  <2>1. \A i \in DOMAIN queue : OwnEntry(queue[i])
    BY <1>1 DEF OwnAll
  <2> QED
    BY <1>3, <1>4, <1>6, <2>1, NothingOwn DEF Resting, Receiving
<1>7. \A l \in Links : OwnEntry(cur'[l]) /\ OwnEntry(turn'[l].entry)
  <2>1. CASE UNCHANGED <<cur, turn>>
    BY <1>3, <2>1
  <2>2. ASSUME NEW k \in Links, onTimer(k)
        PROVE  \A l \in Links : OwnEntry(cur'[l]) /\ OwnEntry(turn'[l].entry)
    BY <1>5, <1>6, <2>2 DEF onTimer, GiveUp
  <2>3. ASSUME NEW k \in Links, SendData(k)
        PROVE  \A l \in Links : OwnEntry(cur'[l]) /\ OwnEntry(turn'[l].entry)
    <3>1. turn[k].entry \in Entries
      BY <2>3 DEF TypeOK, SendData, Turns
    <3>2. CASE IsRead(turn[k].entry.msg)
      <4>1. /\ OwnEntry([turn[k].entry EXCEPT !.late = FALSE])
            /\ [turn[k].entry EXCEPT !.late = FALSE] \in Entries
        BY <1>3, <3>1, LateOwn, LateTyped
      <4>2. cur' = [cur EXCEPT ![k] = [turn[k].entry EXCEPT !.late = FALSE]]
            /\ turn' = [turn EXCEPT ![k] = Receiving]
        BY <2>3, <3>2 DEF SendData, Set_CurCmd
      <4> QED
        BY <1>5, <1>6, <4>1, <4>2
    <3>3. CASE ~IsRead(turn[k].entry.msg)
      BY <1>5, <1>6, <2>3, <3>3 DEF SendData, Set_CurCmd
    <3> QED
      BY <3>2, <3>3
  <2>4. ASSUME NEW k \in Links, Receive(k)
        PROVE  \A l \in Links : OwnEntry(cur'[l]) /\ OwnEntry(turn'[l].entry)
    BY <1>5, <1>6, <2>4 DEF Receive, Decode_RS485Data
  <2>5. ASSUME NEW k \in Links, CurLate(k)
        PROVE  \A l \in Links : OwnEntry(cur'[l]) /\ OwnEntry(turn'[l].entry)
    BY <1>5, <1>6, <2>5 DEF CurLate, linevars
  <2>6. ASSUME NEW k \in Links, EndOfRound(k)
        PROVE  \A l \in Links : OwnEntry(cur'[l]) /\ OwnEntry(turn'[l].entry)
    BY <1>5, <1>6, <2>6 DEF EndOfRound
  <2>7. ASSUME ~ \E k \in Links : \/ onTimer(k) \/ SendData(k) \/ Receive(k)
                                  \/ CurLate(k) \/ EndOfRound(k)
        PROVE  UNCHANGED <<cur, turn>>
    BY <2>7 DEF Next, LinkStep, doMessage, Check, QueueLate, Open, Close,
                Answer, Lose, Age, Silent, vars, linevars
  <2> QED
    BY <2>1, <2>2, <2>3, <2>4, <2>5, <2>6, <2>7
<1> QED
  BY <1>2, <1>7 DEF OwnCopies, OwnAll

(* While a read may be answered in time, nothing else is asked on its link. *)
LEMMA TimerInTurn ==
    ASSUME TypeOK, Timely, NEW k \in Links, onTimer(k)
    PROVE  AllInTurn'
<1> SUFFICES ASSUME NEW l \in Links PROVE InTurn(l)'
  BY DEF AllInTurn
<1>1. InTurn(l) /\ InTurn(k)
  BY DEF Timely, AllInTurn
<1>2. cur \in [Links -> ReadEntries \cup {Nothing}] /\ turn \in [Links -> Turns]
  BY DEF TypeOK
<1>3. CASE UNCHANGED cur /\ turn' = [turn EXCEPT ![k] = Receiving]
  BY <1>1, <1>2, <1>3 DEF InTurn, onTimer, Receiving
<1>4. ASSUME NEW i \in DOMAIN queue, IsFirst(i, Sendable(k)),
             turn' = [turn EXCEPT ![k] = [pc |-> "send", entry |-> queue[i]]],
             GiveUp(k, queue[i].msg)
      PROVE  InTurn(l)'
  <2>1. UNCHANGED flight
    BY DEF onTimer
  <2>2. CASE ~IsRead(queue[i].msg)
    <3>1. UNCHANGED cur
      BY <1>4, <2>2 DEF GiveUp
    <3> QED
      BY <1>1, <1>2, <1>4, <2>1, <2>2, <3>1 DEF InTurn
  <2>3. CASE IsRead(queue[i].msg)
    <3>1. cur[k].msg = NoMsg \/ cur[k].late
      BY <1>4, <2>3 DEF IsFirst, Sendable, Is_CurCmd
    <3>2. flight[k] = <<>>
      BY <1>1, <3>1, FlightMessage
    <3>3. \/ cur' = [cur EXCEPT ![k] = Nothing]
          \/ UNCHANGED cur /\ cur[k].msg = NoMsg
      BY <1>4, <2>3 DEF GiveUp
    <3> QED
      BY <1>1, <1>2, <1>4, <2>1, <3>2, <3>3, NothingTyped DEF InTurn
  <2> QED
    BY <2>2, <2>3
<1> QED
  BY <1>3, <1>4 DEF onTimer

LEMMA SendInTurn ==
    ASSUME TypeOK, Timely, NEW k \in Links, SendData(k)
    PROVE  AllInTurn'
<1> DEFINE e == turn[k].entry
<1> SUFFICES ASSUME NEW l \in Links PROVE InTurn(l)'
  BY DEF AllInTurn
<1>1. InTurn(l) /\ InTurn(k)
  BY DEF Timely, AllInTurn
<1>2. /\ cur \in [Links -> ReadEntries \cup {Nothing}] /\ turn \in [Links -> Turns]
      /\ flight \in [Links -> Seq(Flights)]
  BY DEF TypeOK
<1>3. turn[k].pc = "send" /\ turn' = [turn EXCEPT ![k] = Receiving]
  BY DEF SendData
<1>4. CASE l # k
  <2>1. cur'[l] = cur[l] /\ flight'[l] = flight[l] /\ turn'[l] = turn[l]
    BY <1>2, <1>3, <1>4 DEF SendData, Set_CurCmd, Closing
  <2> QED
    BY <1>1, <2>1 DEF InTurn
<1>5. CASE l = k
  <2>1. turn'[k].pc # "send"
    BY <1>2, <1>3 DEF Receiving
  <2>2. CASE flight'[k] = <<>>
    BY <1>5, <2>1, <2>2 DEF InTurn
  <2>3. CASE ~IsRead(e.msg) /\ flight'[k] # <<>>
    <3>1. UNCHANGED <<cur, flight>>
      BY <1>2, <2>3 DEF SendData, Set_CurCmd, Closing
    <3> QED
      BY <1>1, <1>5, <2>1, <3>1 DEF InTurn
  <2>4. CASE IsRead(e.msg) /\ flight'[k] # <<>>
    <3> DEFINE f == [msg |-> e.msg, answer |-> "none", old |-> FALSE]
    <3>1. e \in Entries /\ flight[k] = <<>>
      BY <1>1, <1>2, <1>3, <2>4 DEF Turns, InTurn
    <3>2. flight'[k] = Sent(<<>>, e.msg)
      BY <1>2, <2>4, <3>1 DEF SendData, Closing
    <3>3. Sent(<<>>, e.msg) = <<f>>
      <4>1. Append(<<>>, f) = <<f>> /\ Len(<<f>>) = 1
        OBVIOUS
      <4>2. ~(1 > MaxFlight)
        BY SerialAssumption
      <4> QED
        BY <4>1, <4>2 DEF Sent
    <3>4. cur'[k] = [e EXCEPT !.late = FALSE]
      BY <1>2, <2>4 DEF SendData, Set_CurCmd
    <3>5. cur'[k].msg = e.msg /\ ~cur'[k].late
      BY <3>1, <3>4 DEF Entries
    <3> QED
      BY <1>5, <2>1, <3>2, <3>3, <3>5 DEF InTurn
  <2> QED
    BY <2>2, <2>3, <2>4
<1> QED
  BY <1>4, <1>5

LEMMA LineInTurn ==
    ASSUME TypeOK, Timely, Punctual, NEW k \in Links,
           \/ Receive(k) \/ EndOfRound(k) \/ Open(k) \/ Close(k)
           \/ Answer(k) \/ Lose(k) \/ Age(k) \/ CurLate(k)
    PROVE  AllInTurn'
<1> SUFFICES ASSUME NEW l \in Links PROVE InTurn(l)'
  BY DEF AllInTurn
<1>1. InTurn(l) /\ InTurn(k)
  BY DEF Timely, AllInTurn
<1>2. /\ cur \in [Links -> ReadEntries \cup {Nothing}] /\ turn \in [Links -> Turns]
      /\ flight \in [Links -> Seq(Flights)]
  BY DEF TypeOK
<1>3. CASE Receive(k)
  <2>1. cur' = [cur EXCEPT ![k] = Nothing] /\ UNCHANGED turn
        /\ turn[k].pc # "send" /\ flight' = [flight EXCEPT ![k] = Tail(@)]
    BY <1>3 DEF Receive, Decode_RS485Data
  <2>2. Tail(flight[k]) = <<>>
    BY <1>1, <1>3, FlightMessage DEF Receive
  <2> QED
    BY <1>1, <1>2, <2>1, <2>2 DEF InTurn
<1>4. CASE EndOfRound(k)
  BY <1>1, <1>2, <1>4 DEF EndOfRound, Resting, InTurn
<1>5. CASE Open(k)
  BY <1>1, <1>5 DEF Open, InTurn
<1>6. CASE Close(k)
  BY <1>1, <1>2, <1>6 DEF Close, Closing, InTurn
<1>7. CASE Answer(k)
  <2>1. PICK i \in DOMAIN flight[k], answer \in {"value", "error"} :
            flight' = [flight EXCEPT ![k][i].answer = answer]
    BY <1>7 DEF Answer
  <2>2. UNCHANGED <<cur, turn>>
    BY <1>7 DEF Answer
  <2>3. flight[k] # <<>> /\ i = 1 /\ flight[k] \in Seq(Flights)
    BY <1>1, <1>2, FlightMessage
  <2>4. /\ flight'[k] = [flight[k] EXCEPT ![1] = [flight[k][1] EXCEPT !.answer = answer]]
        /\ flight[k][1] \in Flights
    BY <1>1, <1>2, <2>1, <2>3, FlightMessage
  <2>5. /\ Len(flight'[k]) = Len(flight[k])
        /\ flight'[k][1] = [flight[k][1] EXCEPT !.answer = answer]
    BY <2>1, <2>3, <2>4, ExceptSeq, FlightTyped
  <2>6. flight'[k][1].msg = flight[k][1].msg /\ flight'[k][1].old = flight[k][1].old
    BY <2>4, <2>5 DEF Flights
  <2>7. turn[k].pc = "send" => ~IsRead(turn[k].entry.msg)
    BY <1>1, <2>3 DEF InTurn
  <2>8. CASE l = k
    BY <1>1, <2>2, <2>3, <2>5, <2>6, <2>7, <2>8 DEF InTurn
  <2>9. CASE l # k
    BY <1>1, <1>2, <2>1, <2>2, <2>9 DEF InTurn
  <2> QED
    BY <2>8, <2>9
<1>8. CASE Lose(k)
  <2>1. PICK i \in DOMAIN flight[k] : flight' = [flight EXCEPT ![k] = Without(@, i)]
    BY <1>8 DEF Lose
  <2>2. UNCHANGED <<cur, turn>>
    BY <1>8 DEF Lose
  <2>3. flight[k] \in Seq(Flights) /\ Len(flight[k]) = 1
    <3>1. flight[k] # <<>>
      BY <1>2, <2>1
    <3> QED
      BY <1>1, <1>2, <3>1 DEF InTurn
  <2>4. Without(flight[k], i) = <<>>
    <3>1. Without(flight[k], i) \in Seq(Flights) /\ Len(Without(flight[k], i)) = 0
      BY <2>3, WithoutTyped
    <3> QED
      BY <3>1, EmptySeq
  <2>5. flight' = [flight EXCEPT ![k] = <<>>]
    BY <2>1, <2>4
  <2> QED
    BY <1>1, <1>2, <2>2, <2>5 DEF InTurn
<1>9. CASE CurLate(k)
  <2>1. UNCHANGED <<turn, flight>> /\ cur' = [cur EXCEPT ![k].late = TRUE]
    BY <1>9 DEF CurLate, linevars
  <2>2. flight[k] = <<>>
    BY <1>1, <1>9, FlightMessage DEF CurLate
  <2>3. cur'[k].msg = cur[k].msg /\ (l # k => cur'[l] = cur[l])
    BY <1>2, <2>1 DEF ReadEntries, Entries, Nothing
  <2> QED
    BY <1>1, <2>1, <2>2, <2>3 DEF InTurn
<1> QED
  BY <1>3, <1>4, <1>5, <1>6, <1>7, <1>8, <1>9 DEF Age

LEMMA InTurnStep ==
    ASSUME TypeOK, Timely, Punctual, [Next]_vars
    PROVE  AllInTurn'
<1>1. CASE UNCHANGED <<cur, turn, flight>>
  BY <1>1 DEF Timely, AllInTurn, InTurn
<1>2. CASE \E k \in Links : onTimer(k) \/ SendData(k)
  BY <1>2, TimerInTurn, SendInTurn
<1>3. CASE \E k \in Links : \/ Receive(k) \/ EndOfRound(k) \/ Open(k) \/ Close(k)
                            \/ Answer(k) \/ Lose(k) \/ Age(k) \/ CurLate(k)
  BY <1>3, LineInTurn
<1>4. CASE \/ UNCHANGED vars
           \/ \E m \in Messages : doMessage(m)
           \/ Check \/ QueueLate
           \/ \E d \in Devices : Silent(d)
  BY <1>1, <1>4 DEF doMessage, Check, QueueLate, Silent, vars, linevars
<1> QED
  BY <1>2, <1>3, <1>4 DEF Next, LinkStep

LEMMA TimelyInit == Init => Timely
BY DEF Init, Timely, Attribution, OwnCopies, OwnEntry, AllInTurn, InTurn, Nothing,
       Resting

(* Where devices answer in time, the read on the line is the one in        *)
(* execution, so the reply that ends it is its own.                        *)
THEOREM TimelyCorrect == Punctual /\ Spec => [](TypeOK /\ Timely)
<1>1. Init => TypeOK /\ Timely
  BY TypeInit, TimelyInit
<1>2. Punctual /\ TypeOK /\ Timely /\ [Next]_vars => TypeOK' /\ Timely'
  BY TypeStep, AttributionStep, OwnCopiesStep, InTurnStep DEF Timely
<1>3. CASE Punctual
  <2>1. TypeOK /\ Timely /\ [Next]_vars => (TypeOK /\ Timely)'
    BY <1>2, <1>3
  <2>2. Spec => [](TypeOK /\ Timely)
    BY <1>1, <2>1, PTL DEF Spec
  <2> QED
    BY <2>2
<1> QED
  BY <1>3

LEMMA OneExecuting == TypeOK /\ Timely => OneReadExecuting
<1> SUFFICES ASSUME TypeOK, Timely, NEW l \in Links,
                    NEW i \in Executing(l), NEW j \in Executing(l)
             PROVE  i = j
  BY DEF OneReadExecuting
<1>1. InTurn(l) /\ i \in DOMAIN flight[l] /\ j \in DOMAIN flight[l]
  BY DEF Timely, AllInTurn, Executing
<1>2. flight[l] # <<>>
  BY <1>1
<1> QED
  BY <1>1, <1>2, FlightMessage

(* A link has at most one read in execution, however threads queue reads   *)
(* and answers are lost or connections closed, if devices answer in time.  *)
THEOREM ReadsTakeTurns == Punctual /\ Spec => []OneReadExecuting
<1>1. CASE Punctual
  BY <1>1, TimelyCorrect, OneExecuting, PTL
<1> QED
  BY <1>1

(* No value is shown for an address of another register, if devices answer *)
(* in time.                                                                *)
THEOREM ValuesAttributed == Punctual /\ Spec => []Attribution
<1>1. Timely => Attribution
  BY DEF Timely
<1> QED
  BY <1>1, TimelyCorrect, PTL

-----------------------------------------------------------------------------
(* SerialLink implements ReadService.                                      *)

Asked == [l \in Links |-> cur[l].msg]

LEMMA NoReadAsked ==
    ASSUME UNCHANGED <<cur, shown>>
    PROVE  UNCHANGED Service!absvars
BY DEF Service!absvars

LEMMA TimerRefines ==
    ASSUME TypeOK, NEW k \in Links, onTimer(k)
    PROVE  Service!Next \/ UNCHANGED Service!absvars
<1>1. cur \in [Links -> ReadEntries \cup {Nothing}] /\ UNCHANGED shown
  BY DEF TypeOK, onTimer
<1>2. CASE UNCHANGED cur
  BY <1>1, <1>2, NoReadAsked
<1>3. CASE cur' = [cur EXCEPT ![k] = Nothing] /\ cur[k].msg # NoMsg
  <2>1. Asked[k] # NoMsg /\ Asked' = [Asked EXCEPT ![k] = NoMsg]
    BY <1>1, <1>3, NothingTyped DEF Asked
  <2>2. Service!GiveUp(k)
    BY <1>1, <2>1 DEF Service!GiveUp, Asked
  <2> QED
    BY <2>2 DEF Service!Next
<1> QED
  BY <1>2, <1>3 DEF onTimer, GiveUp

LEMMA SendRefines ==
    ASSUME TypeOK, Timely, NEW k \in Links, SendData(k)
    PROVE  Service!Next \/ UNCHANGED Service!absvars
<1> DEFINE e == turn[k].entry
<1>1. cur \in [Links -> ReadEntries \cup {Nothing}] /\ UNCHANGED shown
  BY DEF TypeOK, SendData, devvars
<1>2. CASE ~IsRead(e.msg)
  BY <1>1, <1>2, NoReadAsked DEF SendData, Set_CurCmd
<1>3. CASE IsRead(e.msg)
  <2>1. e \in Entries /\ e.msg \in Reads
    BY <1>3 DEF TypeOK, SendData, Turns, Entries, Reads
  <2>2. cur[k].msg = NoMsg
    BY <1>3 DEF Timely, AllInTurn, InTurn, SendData
  <2>3. cur' = [cur EXCEPT ![k] = [e EXCEPT !.late = FALSE]]
    BY <1>3 DEF SendData, Set_CurCmd
  <2>4. [e EXCEPT !.late = FALSE].msg = e.msg
    BY <2>1 DEF Entries
  <2> HIDE DEF e
  <2>5. PICK m \in Reads : m = e.msg
    BY <2>1
  <2>6. Asked[k] = NoMsg /\ Asked' = [Asked EXCEPT ![k] = m]
    BY <1>1, <2>2, <2>3, <2>4, <2>5 DEF Asked
  <2>7. Service!Start(k, m)
    BY <1>1, <2>6 DEF Service!Start, Asked
  <2> QED
    BY <2>7 DEF Service!Next
<1> QED
  BY <1>2, <1>3

LEMMA ReceiveRefines ==
    ASSUME TypeOK, Timely, NEW k \in Links, Receive(k)
    PROVE  Service!Next
<1> DEFINE reply == Head(flight[k])
<1>1. /\ reply \in Flights /\ reply.msg = cur[k].msg /\ cur[k].msg # NoMsg
      /\ cur[k] \in ReadEntries /\ OwnEntry(cur[k])
  BY FlightMessage, CurTyped DEF Receive, Timely, AllInTurn, OwnCopies
<1>2. cur \in [Links -> ReadEntries \cup {Nothing}] /\ shown \in [Points -> Nat]
  BY DEF TypeOK
<1>3. cur' = [cur EXCEPT ![k] = Nothing]
      /\ (OnDeviceData(cur[k], reply) \/ UNCHANGED devvars)
  BY DEF Receive, Decode_RS485Data
<1> HIDE DEF reply
<1>4. Asked[k] # NoMsg /\ Asked' = [Asked EXCEPT ![k] = NoMsg]
  BY <1>1, <1>2, <1>3, NothingTyped DEF Asked
<1>5. /\ DOMAIN shown' = Points
      /\ \A p \in Points : \/ shown'[p] = shown[p]
                           \/ p \in Targets(Asked[k]) /\ shown'[p] \in {0, p[2]}
  <2>1. CASE UNCHANGED devvars
    BY <1>2, <2>1 DEF devvars
  <2>2. CASE OnDeviceData(cur[k], reply)
    <3>1. PICK taken \in SUBSET Targets(cur[k].msg) :
              shown' = [p \in Points |-> IF p \in taken
                            THEN RegisterFor(p, cur[k], reply) ELSE shown[p]]
      BY <2>2 DEF OnDeviceData
    <3>2. ASSUME NEW p \in Points, p \in taken
          PROVE  p \in Targets(Asked[k]) /\ shown'[p] \in {0, p[2]}
      <4>1. p \in Targets(cur[k].msg) /\ RegisterFor(p, cur[k], reply) \in {0, p[2]}
        BY <1>1, <3>2, ValueOwn
      <4> QED
        BY <3>1, <3>2, <4>1 DEF Asked
    <3> QED
      BY <3>1, <3>2
  <2> QED
    BY <1>3, <2>1, <2>2
<1>6. Service!Answered(k)
  BY <1>4, <1>5 DEF Service!Answered, Service!OwnOrNone, Asked
<1> QED
  BY <1>6 DEF Service!Next

LEMMA LateRefines ==
    ASSUME TypeOK, NEW k \in Links, CurLate(k)
    PROVE  UNCHANGED Service!absvars
<1>1. cur' = [cur EXCEPT ![k].late = TRUE] /\ UNCHANGED shown
  BY DEF CurLate, devvars
<1>2. \A l \in Links : cur'[l].msg = cur[l].msg
  BY <1>1 DEF TypeOK, ReadEntries, Entries, Nothing
<1> QED
  BY <1>1, <1>2 DEF Service!absvars

(* Where devices answer in time, each link does what ReadService promises: *)
(* one read at a time, whose answer alone changes the values it asked for. *)
THEOREM ImplementsReadService == Punctual /\ Spec => ReadsInTurn
<1>1. Init => Service!Init
  BY DEF Init, Nothing, Service!Init
<1>2. TypeOK /\ Timely /\ [Next]_vars => [Service!Next]_(Service!absvars)
  <2> SUFFICES ASSUME TypeOK, Timely, [Next]_vars
               PROVE  Service!Next \/ UNCHANGED Service!absvars
    OBVIOUS
  <2>1. CASE \E k \in Links : \/ onTimer(k) \/ SendData(k) \/ Receive(k)
                              \/ CurLate(k)
    BY <2>1, TimerRefines, SendRefines, ReceiveRefines, LateRefines
  <2>2. CASE \E k \in Links : \/ EndOfRound(k) \/ Open(k) \/ Close(k)
                              \/ Answer(k) \/ Lose(k) \/ Age(k)
    BY <2>2, NoReadAsked DEF EndOfRound, Open, Close, Answer, Lose, Age, devvars
  <2>3. CASE \/ UNCHANGED vars
             \/ \E m \in Messages : doMessage(m)
             \/ Check \/ QueueLate
             \/ \E d \in Devices : Silent(d)
    BY <2>3, NoReadAsked DEF doMessage, Check, QueueLate, Silent, vars, linevars,
                             devvars
  <2> QED
    BY <2>1, <2>2, <2>3 DEF Next, LinkStep
<1>3. CASE Punctual
  BY <1>1, <1>2, <1>3, TimelyCorrect, PTL DEF Spec, ReadsInTurn, Service!Spec
<1> QED
  BY <1>3

=============================================================================
