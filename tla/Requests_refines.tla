-------------------------- MODULE Requests_refines --------------------------
(***************************************************************************)
(* Requests keep what is promised about them (RequestPromise), for any     *)
(* clients, addresses and limits: each step of the XMPP thread, the links  *)
(* and the timer is a step of RequestPromise or leaves asked, answered and *)
(* owed alone. A read is given up only because its message was overdue or  *)
(* displaced by newer ones.                                                *)
(***************************************************************************)
EXTENDS Requests_proofs

Reads == {r \in Requests : r.kind = "read"}

Promise == INSTANCE RequestPromise

(* What is owed is open: the read waits in the list or is at hand, and     *)
(* both are counted as not answered yet.                                   *)
OwedOpen == \A r \in owed : answered[r] < asked[r]

LEMMA OwedIsOpen == RequestsAssumption /\ IInv => OwedOpen /\ owed \subseteq Reads
<1> SUFFICES ASSUME RequestsAssumption, IInv, NEW r \in owed
             PROVE  answered[r] < asked[r] /\ r \in Reads
  BY DEF OwedOpen
<1>1. r \in Requests /\ r.kind = "read"
  BY DEF IInv, TypeOK, Handling, RequestsAssumption
<1>2. answered[r] \in Nat /\ asked[r] \in Nat
  BY <1>1 DEF IInv, TypeOK
<1>3. answered[r] + Open(r) + AtHand(r) <= asked[r]
  BY <1>1 DEF IInv, Counted
<1>4. Open(r) \in {0, 1} /\ AtHand(r) \in {0, 1}
  BY DEF Open, AtHand
<1>5. Open(r) = 1 \/ AtHand(r) = 1
  <2>1. CASE Pending(r) # {}
    BY <1>1, <2>1 DEF Open
  <2>2. CASE InHand(r)
    BY <2>2 DEF InHand, AtHand
  <2> QED
    BY <2>1, <2>2 DEF IInv, Owed
<1> QED
  BY <1>1, <1>2, <1>3, <1>4, <1>5 DEF Reads

(* Every answer is to one request that is open: at once from the XMPP      *)
(* thread, or from a link to the first message that waits.                 *)
Answers(r) ==
    /\ answered[r] < asked[r]
    /\ answered' = [answered EXCEPT ![r] = @ + 1]
    /\ asked' = asked
    /\ \/ owed' = owed \ {r}
       \/ owed' = owed /\ r \in owed

LEMMA LookAnswers ==
    ASSUME RequestsAssumption, IInv, Look
    PROVE  UNCHANGED clients \/ \E r \in Reads : Answers(r)
<1> DEFINE r == xmpp.req
<1>1. CASE fresh[r.point] # "now"
  BY <1>1 DEF Look, clients
<1>2. CASE fresh[r.point] = "now"
  <2>1. r \in Requests /\ r.kind = "read"
    BY Bounds DEF Look, IInv, Handling, RequestsAssumption
  <2>2. answered[r] \in Nat /\ asked[r] \in Nat
    BY <2>1 DEF IInv, TypeOK
  <2>3. answered[r] + Open(r) + AtHand(r) <= asked[r]
    BY <2>1 DEF IInv, Counted
  <2>4. Open(r) \in {0, 1} /\ AtHand(r) = 1
    BY DEF Open, AtHand, Look
  <2>5. answered[r] < asked[r]
    BY <2>2, <2>3, <2>4
  <2> QED
    BY <1>2, <2>1, <2>5 DEF Look, Answers, Reads
<1> QED
  BY <1>1, <1>2

LEMMA WriteAnswers ==
    ASSUME RequestsAssumption, IInv, Write
    PROVE  UNCHANGED clients \/ \E r \in Requests : Answers(r)
<1> DEFINE r == xmpp.req
<1>1. r \in Requests /\ r.kind = "write"
  BY Bounds DEF Write, IInv, Handling, RequestsAssumption
<1>2. answered[r] \in Nat /\ asked[r] \in Nat
  BY <1>1 DEF IInv, TypeOK
<1>3. answered[r] + Open(r) + AtHand(r) <= asked[r]
  BY <1>1 DEF IInv, Counted
<1>4. Open(r) = 0 /\ AtHand(r) = 1
  BY <1>1 DEF Open, AtHand, Write
<1>5. answered[r] < asked[r]
  BY <1>2, <1>3, <1>4
<1>6. r \notin owed
  BY <1>1 DEF IInv, Handling
<1>7. owed' = owed \ {r}
  BY <1>6 DEF Write
<1> QED
  BY <1>1, <1>5, <1>7 DEF Write, MayAnswer, Answers, clients

LEMMA PopAnswers ==
    ASSUME RequestsAssumption, IInv, NEW p \in Points, PopControlMesssageQueue(p)
    PROVE  UNCHANGED clients \/ \E r \in Reads : Answers(r)
<1> DEFINE who == {m \in list : WaitsFor(m, p)}
           m == First(who)
           r == m.req
<1>1. CASE who = {}
  BY <1>1 DEF PopControlMesssageQueue, clients
<1>2. CASE who # {}
  <2>1. m \in who
    BY <1>2, FirstIn DEF IInv, TypeOK
  <2>2. m \in list /\ r \in Requests /\ r.kind = "read"
    BY <2>1 DEF WaitsFor, IInv, TypeOK, Messages, RequestsAssumption
  <2>3. answered' = [answered EXCEPT ![r] = @ + 1] /\ Forget({m}) /\ asked' = asked
    BY <1>2 DEF PopControlMesssageQueue
  <2> HIDE DEF m
  <2>4. answered[r] \in Nat /\ asked[r] \in Nat
    BY <2>2 DEF IInv, TypeOK
  <2>5. answered[r] + Open(r) + AtHand(r) <= asked[r]
    BY <2>2 DEF IInv, Counted
  <2>6. Open(r) = 1 /\ AtHand(r) \in {0, 1}
    BY <2>2 DEF Open, AtHand, Pending
  <2>7. answered[r] < asked[r]
    BY <2>4, <2>5, <2>6
  <2>8. owed' = {x \in owed : InHand(x) \/ x # r}
    BY <2>3 DEF Forget
  <2>9. owed' = owed \ {r} \/ (owed' = owed /\ r \in owed)
    BY <2>8
  <2> QED
    BY <2>2, <2>3, <2>7, <2>9 DEF Answers, Reads
<1> QED
  BY <1>1, <1>2

(* Reads that are forgotten, and nothing else, leave what is owed.         *)
LEMMA StepPromised ==
    ASSUME RequestsAssumption, IInv, OwedOpen', [Next]_vars
    PROVE  [Promise!Next]_(Promise!absvars)
<1>1. owed \subseteq Reads
  BY OwedIsOpen
<1>2. CASE UNCHANGED clients
  BY <1>2 DEF clients, Promise!absvars
<1>3. ASSUME NEW r \in Requests, Answers(r) PROVE Promise!Next
  <2>1. owed' = owed /\ r \in owed => answered'[r] < asked'[r]
    BY DEF OwedOpen
  <2>2. Promise!Answer(r)
    BY <1>3, <2>1 DEF Answers, Promise!Answer, Promise!Open
  <2> QED
    BY <2>2 DEF Promise!Next
<1>4. ASSUME owed' \subseteq owed, UNCHANGED <<asked, answered>> PROVE Promise!Next
  <2>1. owed' = owed \ (owed \ owed') /\ owed \ owed' \in SUBSET Reads
    BY <1>1, <1>4
  <2>2. Promise!GiveUp(owed \ owed')
    BY <1>4, <2>1 DEF Promise!GiveUp
  <2> QED
    BY <2>1, <2>2 DEF Promise!Next
<1>5. ASSUME NEW r \in Requests, handleIq(r) PROVE Promise!Next \/ UNCHANGED clients
  <2>1. CASE UNCHANGED vars
    BY <2>1 DEF vars
  <2>2. CASE Accept(r) /\ r.kind = "read"
    <3>1. Promise!AskRead(r) /\ r \in Reads
      BY <2>2 DEF Accept, Promise!AskRead, Reads
    <3> QED
      BY <3>1 DEF Promise!Next
  <2>3. CASE Accept(r) /\ r.kind = "write"
    <3>1. owed' = owed \ {} /\ r \in Requests \ Reads
      BY <2>3 DEF Accept, Reads
    <3>2. Promise!AskCommand(r, {})
      BY <2>3, <3>1 DEF Accept, Promise!AskCommand
    <3> QED
      BY <3>1, <3>2 DEF Promise!Next
  <2>4. CASE Accept(r) /\ r.kind = "remote"
    <3>1. owed' \subseteq owed
      BY <2>4 DEF Accept, PushControlMesssageQueue, Forget
    <3>2. owed' = owed \ (owed \ owed') /\ owed \ owed' \in SUBSET Reads
      BY <1>1, <3>1
    <3>3. Promise!AskCommand(r, owed \ owed') /\ r \in Requests \ Reads
      BY <2>4, <3>2 DEF Accept, Promise!AskCommand, Reads
    <3> QED
      BY <3>2, <3>3 DEF Promise!Next
  <2> QED
    BY <1>5, <2>1, <2>2, <2>3, <2>4 DEF handleIq, Accept
<1>6. CASE Handle
  <2>1. CASE Push
    BY <1>4, <2>1 DEF Push, PushControlMesssageQueue, Forget
  <2>2. CASE Look
    BY <1>2, <1>3, <2>2, LookAnswers DEF Reads
  <2>3. CASE Write
    BY <1>2, <1>3, <2>3, WriteAnswers
  <2> QED
    BY <1>2, <1>6, <2>1, <2>2, <2>3 DEF Handle, Check, SendControl, Back
<1>7. ASSUME NEW p \in Points, LinkStep(p) \/ Age(p) PROVE Promise!Next \/ UNCHANGED clients
  <2>1. CASE PopControlMesssageQueue(p)
    BY <1>3, <2>1, PopAnswers DEF Reads
  <2> QED
    BY <1>7, <2>1 DEF LinkStep, Age, Execute, Lose, OnDeviceData, Judge, Store
<1>8. CASE OnTimer
  BY <1>4, <1>8 DEF OnTimer, Forget
<1> QED
  <2>1. CASE \E m \in list : Late(m.n)
    <3>1. UNCHANGED clients
      BY <2>1 DEF Late
    <3> QED
      BY <1>2, <3>1
  <2>2. CASE UNCHANGED vars
    BY <1>2, <2>2 DEF vars
  <2>3. CASE Promise!Next
    BY <2>3
  <2> QED
    BY <1>2, <1>5, <1>6, <1>7, <1>8, <2>1, <2>2, <2>3 DEF Next

(* Requests implement their promise: no client gets an answer it has not   *)
(* asked for, and after an answer a read stays owed only when it has been  *)
(* asked for once more.                                                    *)
THEOREM RequestsKeepPromise == Spec => Promise!Spec
<1>1. Init => Promise!Init
  BY DEF Init, Promise!Init
<1>2. RequestsAssumption /\ IInv /\ OwedOpen' /\ [Next]_vars
      => [Promise!Next]_(Promise!absvars)
  BY StepPromised
<1>3. RequestsAssumption /\ IInv => OwedOpen
  BY OwedIsOpen
<1> QED
  BY <1>1, <1>2, <1>3, RequestsAssumption, Invariance, PTL DEF Spec, Promise!Spec
-----------------------------------------------------------------------------
(* A message is displaced by one that is just being left when the list is  *)
(* at its limit and as many newer ones are in it as have room.             *)
Displaced(m) ==
    /\ Cardinality(list) = Limit
    /\ Cardinality({k \in list : k.n > m.n}) + 1 >= Room

Excused(r) == \E m \in list : m.req = r /\ (m.late \/ Displaced(m))

LEMMA PushExcused ==
    ASSUME RequestsAssumption, TypeOK, Numbered, Sized, NEW r \in Allowed,
           PushControlMesssageQueue(r)
    PROVE  \A x \in owed \ owed' : Excused(x)
<1> DEFINE new == Message(r, last + 1)
           all == list \cup {new}
<1>1. new \in Messages /\ new.n = last + 1 /\ last \in Nat /\ new.req = r
  BY NewMessage DEF TypeOK
<1>2. \A k \in list : k.n \in Nat /\ k.n <= last
  BY Bounds DEF Numbered
<1>3. IsFiniteSet(list) /\ Cardinality(list) \in Nat /\ Cardinality(list) <= Limit
      /\ Limit \in Nat /\ Room \in Nat
  BY FS_CardinalityType DEF Sized, Bounded, RequestsAssumption
<1>4. new \in Cut(all)
  BY <1>1, <1>2, CutKeepsLast
<1>5. list' = Cut(all) /\ Forget(all \ Cut(all))
  BY DEF PushControlMesssageQueue
<1> HIDE DEF new
<1> SUFFICES ASSUME NEW x \in owed \ owed' PROVE Excused(x)
  OBVIOUS
<1>6. PICK m \in all \ Cut(all) : m.req = x
  BY <1>5 DEF Forget
<1>7. m \in list
  BY <1>4, <1>6
<1>8. Cardinality(all) > Limit
  <2>1. IsFiniteSet(all) /\ Cardinality(all) \in Nat
    BY <1>3, FS_AddElement, FS_CardinalityType
  <2> QED
    BY <1>3, <1>6, <2>1 DEF Cut
<1>9. Cardinality(list) = Limit
  <2>1. Cardinality(all) = IF new \in list THEN Cardinality(list) ELSE Cardinality(list) + 1
    BY <1>3, FS_AddElement
  <2> QED
    BY <1>3, <1>8, <2>1
<1>10. Cardinality({k \in list : k.n > m.n}) + 1 >= Room
  <2> DEFINE newer == {k \in list : k.n > m.n}
  <2>1. {k \in all : k.n > m.n} = newer \cup {new}
    BY <1>1, <1>2, <1>7
  <2>2. IsFiniteSet(newer) /\ Cardinality(newer) \in Nat
    BY <1>3, FS_Subset, FS_CardinalityType
  <2>3. ~(Cardinality({k \in all : k.n > m.n}) < Room)
    BY <1>3, <1>6, <1>8 DEF Cut
  <2> HIDE DEF newer
  <2>4. ~(Cardinality(newer \cup {new}) < Room)
    BY <2>1, <2>3
  <2>5. Cardinality(newer \cup {new})
          = IF new \in newer THEN Cardinality(newer) ELSE Cardinality(newer) + 1
    BY <2>2, FS_AddElement
  <2>6. Cardinality(newer) + 1 >= Room
    BY <1>3, <2>2, <2>4, <2>5
  <2> QED
    BY <2>6 DEF newer
<1> QED
  BY <1>6, <1>7, <1>9, <1>10 DEF Excused, Displaced

GivenUp(r) == answered'[r] = answered[r] + 1 \/ Excused(r)

(* A read is no longer owed only after an answer to it, or because its     *)
(* message was overdue at the heartbeat, or because the list was at its    *)
(* limit and the newer messages took all the room: no value that arrives   *)
(* for another address or client makes the program forget a read.          *)
THEOREM GivenUpForAReason == Spec => [][\A r \in owed \ owed' : GivenUp(r)]_vars
<1>1. RequestsAssumption /\ IInv /\ Sized /\ [Next]_vars
      => [\A r \in owed \ owed' : GivenUp(r)]_vars
  <2> SUFFICES ASSUME RequestsAssumption, IInv, Sized, Next, NEW x \in owed \ owed'
               PROVE  GivenUp(x)
    OBVIOUS
  <2>0. TypeOK /\ Numbered /\ x \in Requests
    BY DEF IInv, TypeOK, RequestsAssumption
  <2>1. ASSUME NEW r \in Requests, Answers(r) PROVE GivenUp(x)
    <3>1. x = r /\ answered \in [Requests -> Nat]
      BY <2>1 DEF Answers, IInv, TypeOK
    <3> QED
      BY <2>1, <3>1 DEF Answers, GivenUp
  <2>2. ASSUME NEW r \in Allowed, PushControlMesssageQueue(r) PROVE GivenUp(x)
    BY <2>0, <2>2, PushExcused DEF GivenUp
  <2>3. ASSUME NEW r \in Requests, handleIq(r) PROVE GivenUp(x)
    <3>1. r \in Allowed /\ PushControlMesssageQueue(r)
      BY <2>3 DEF handleIq, Accept, vars, clients
    <3> QED
      BY <2>2, <3>1
  <2>4. CASE Handle
    <3>1. CASE Push
      BY <2>0, <2>2, <3>1, Bounds DEF Push
    <3>2. CASE Look
      BY <2>1, <3>2, LookAnswers DEF Reads, clients
    <3> QED
      BY <2>4, <3>1, <3>2 DEF Handle, Check, SendControl, Write, Back, clients
  <2>5. ASSUME NEW p \in Points, LinkStep(p) PROVE GivenUp(x)
    <3>1. PopControlMesssageQueue(p)
      BY <2>5 DEF LinkStep, Execute, Lose, OnDeviceData, Judge, Store, clients
    <3> QED
      BY <2>1, <3>1, PopAnswers DEF Reads, clients
  <2>6. CASE OnTimer
    BY <2>6 DEF OnTimer, Forget, GivenUp, Excused
  <2>7. ~(\E p \in Points : Age(p)) /\ ~(\E m \in list : Late(m.n))
    BY DEF Age, Late, clients
  <2> QED
    BY <2>3, <2>4, <2>5, <2>6, <2>7 DEF Next
<1> QED
  BY <1>1, RequestsAssumption, Invariance, AlwaysSized, PTL DEF Spec
=============================================================================
