-------------------------- MODULE Requests_proofs --------------------------
(***************************************************************************)
(* Proofs about Requests, for any number of addresses and clients and any  *)
(* limit of the list. What happens between the steps of one request is     *)
(* bound by Handling: the XMPP thread has found no message of the request  *)
(* when it is about to leave one.                                          *)
(***************************************************************************)
EXTENDS Requests, TLAPS, FiniteSetTheorems, WellFoundedInduction

Numbered == \A m \in list : m.n <= last

Handling ==
    /\ xmpp.pc \in {"look", "check", "push", "send"} => xmpp.req.kind = "read"
    /\ xmpp.pc \in {"write", "back"} => xmpp.req.kind = "write"
    /\ xmpp.pc = "push" => Pending(xmpp.req) = {}
    /\ \A r \in owed : r.kind = "read"

(* The request the thread is at and has neither answered nor left in the   *)
(* list, counted as 1.                                                     *)
AtHand(r) ==
    IF xmpp.pc \in {"look", "check", "push", "write"} /\ xmpp.req = r THEN 1 ELSE 0

Counted == \A r \in Requests : answered[r] + Open(r) + AtHand(r) <= asked[r]

IInv == TypeOK /\ Numbered /\ Handling /\ OnePending /\ Owed /\ Counted /\ ReadComing

(* The list after a step that only marks messages or removes some.         *)
Marks(old, new) ==
    /\ \A m \in new : \E k \in old : k.req = m.req /\ k.n = m.n
    /\ \A m, k \in new : m.req = k.req /\ m.n = k.n => m = k

-----------------------------------------------------------------------------
LEMMA CutPart == ASSUME NEW l PROVE Cut(l) \subseteq l
BY DEF Cut

(* The message just left in the list has no newer one and is not cut.      *)
LEMMA CutKeepsLast ==
    ASSUME RequestsAssumption, NEW l, NEW m \in l,
           \A k \in l : k.n \in Nat, \A k \in l : k.n <= m.n
    PROVE  m \in Cut(l)
<1>1. {k \in l : k.n > m.n} = {}
  OBVIOUS
<1>2. Cardinality({k \in l : k.n > m.n}) = 0
  BY <1>1, FS_EmptySet
<1>3. 0 < Room
  BY DEF RequestsAssumption
<1> QED
  BY <1>2, <1>3 DEF Cut

(* What a mark leaves of a message. *)
LEMMA MarkLate ==
    ASSUME NEW m \in Messages, NEW b \in BOOLEAN
    PROVE  /\ [m EXCEPT !.late = b] \in Messages
           /\ [m EXCEPT !.late = b].req = m.req
           /\ [m EXCEPT !.late = b].n = m.n
           /\ [m EXCEPT !.late = b].missed = m.missed
BY DEF Messages

LEMMA MarkMissed ==
    ASSUME NEW m \in Messages, NEW b \in BOOLEAN
    PROVE  /\ [m EXCEPT !.missed = b] \in Messages
           /\ [m EXCEPT !.missed = b].req = m.req
           /\ [m EXCEPT !.missed = b].n = m.n
           /\ [m EXCEPT !.missed = b].missed = b
BY DEF Messages

LEMMA NewMessage ==
    ASSUME TypeOK, NEW r \in Allowed
    PROVE  /\ Message(r, last + 1) \in Messages
           /\ Message(r, last + 1).req = r
           /\ Message(r, last + 1).n = last + 1
           /\ ~Message(r, last + 1).missed
BY DEF TypeOK, Message, Messages

(* A message is left in the list, and old ones may go. *)
LEMMA PushList ==
    ASSUME TypeOK, NEW r \in Allowed, PushControlMesssageQueue(r)
    PROVE  /\ list' \subseteq list \cup {Message(r, last + 1)}
           /\ list' \subseteq Messages
           /\ last' = last + 1 /\ last' \in Nat
           /\ \A x : x \in owed' <=>
                 /\ x \in owed
                 /\ \/ InHand(x)
                    \/ \A m \in list \cup {Message(r, last + 1)} :
                          m.req = x => m \in list'
<1>1. list' \subseteq list \cup {Message(r, last + 1)}
  BY CutPart DEF PushControlMesssageQueue
<1>2. list' \subseteq Messages
  BY <1>1, NewMessage DEF TypeOK
<1>3. last' = last + 1 /\ last' \in Nat
  BY DEF PushControlMesssageQueue, TypeOK
<1>4. ASSUME NEW x
      PROVE  x \in owed' <=>
                 /\ x \in owed
                 /\ \/ InHand(x)
                    \/ \A m \in list \cup {Message(r, last + 1)} :
                          m.req = x => m \in list'
  BY Zenon DEF PushControlMesssageQueue, Forget
<1> QED
  BY <1>1, <1>2, <1>3, <1>4

(* Steps that mark messages change nothing else of them. *)
LEMMA CheckList ==
    ASSUME TypeOK, NEW r,
           list' = (list \ CheckControlMesssageQueue(r))
                   \cup {[m EXCEPT !.late = FALSE] : m \in CheckControlMesssageQueue(r)}
    PROVE  /\ list' \subseteq Messages
           /\ \A m \in list' : \E k \in list :
                 /\ m.req = k.req /\ m.n = k.n /\ m.missed = k.missed
                 /\ m = IF k.req = r THEN [k EXCEPT !.late = FALSE] ELSE k
           /\ \A k \in list : \E m \in list' : m.req = k.req
<1>1. ASSUME NEW m \in list'
      PROVE  \E k \in list :
                 /\ m \in Messages /\ m.req = k.req /\ m.n = k.n /\ m.missed = k.missed
                 /\ m = IF k.req = r THEN [k EXCEPT !.late = FALSE] ELSE k
  <2>1. CASE m \in list \ CheckControlMesssageQueue(r)
    <3>1. m \in list /\ m \in Messages /\ m.req # r
      BY <2>1 DEF TypeOK, CheckControlMesssageQueue
    <3> QED
      BY <3>1
  <2>2. CASE \E k \in CheckControlMesssageQueue(r) : m = [k EXCEPT !.late = FALSE]
    <3>1. PICK k \in CheckControlMesssageQueue(r) : m = [k EXCEPT !.late = FALSE]
      BY <2>2
    <3>2. k \in list /\ k \in Messages /\ k.req = r
      BY DEF CheckControlMesssageQueue, TypeOK
    <3> QED
      BY <3>1, <3>2, MarkLate
  <2> QED
    BY <2>1, <2>2
<1>2. ASSUME NEW k \in list PROVE \E m \in list' : m.req = k.req
  <2>1. CASE k \in CheckControlMesssageQueue(r)
    <3>1. [k EXCEPT !.late = FALSE] \in list'
      BY <2>1
    <3> QED
      BY <3>1, MarkLate DEF TypeOK
  <2> QED
    BY <2>1
<1> QED
  BY <1>1, <1>2

LEMMA LateList ==
    ASSUME TypeOK, NEW n, Late(n)
    PROVE  /\ list' \subseteq Messages
           /\ \A m \in list' : \E k \in list :
                 /\ m.req = k.req /\ m.n = k.n /\ m.missed = k.missed
                 /\ m = [k EXCEPT !.late = k.late \/ k.n = n]
           /\ \A k \in list : \E m \in list' : m.req = k.req
<1>1. \A k \in list : k \in Messages /\ (k.late \/ k.n = n) \in BOOLEAN
  BY DEF TypeOK
<1>2. ASSUME NEW m \in list'
      PROVE  \E k \in list : m = [k EXCEPT !.late = k.late \/ k.n = n]
  BY DEF Late
<1>3. ASSUME NEW k \in list PROVE [k EXCEPT !.late = k.late \/ k.n = n] \in list'
  BY DEF Late
<1>4. ASSUME NEW k \in list
      PROVE  LET m == [k EXCEPT !.late = k.late \/ k.n = n]
             IN m \in Messages /\ m.req = k.req /\ m.n = k.n /\ m.missed = k.missed
  BY <1>1, MarkLate
<1>5. list' \subseteq Messages
  BY <1>2, <1>4
<1>6. \A k \in list : \E m \in list' : m.req = k.req
  BY <1>3, <1>4
<1>7. ASSUME NEW m \in list'
      PROVE  \E k \in list :
                 /\ m.req = k.req /\ m.n = k.n /\ m.missed = k.missed
                 /\ m = [k EXCEPT !.late = k.late \/ k.n = n]
  <2>1. PICK k \in list : m = [k EXCEPT !.late = k.late \/ k.n = n]
    BY <1>2
  <2> QED
    BY <1>4, <2>1
<1> QED
  BY <1>5, <1>6, <1>7

(* A step marks as missed those of the messages that wait for the address, *)
(* or takes the mark from them.                                            *)
Missed(k, p, b) == IF WaitsFor(k, p) THEN b ELSE k.missed

LEMMA MissedList ==
    ASSUME TypeOK, NEW p, NEW b \in BOOLEAN, list' = SetMissed(p, b)
    PROVE  /\ list' \subseteq Messages
           /\ \A m \in list' : \E k \in list :
                 /\ m.req = k.req /\ m.n = k.n /\ m.missed = Missed(k, p, b)
                 /\ m = [k EXCEPT !.missed = Missed(k, p, b)]
           /\ \A k \in list : \E m \in list' : m.req = k.req
<1>1. \A k \in list : k \in Messages /\ Missed(k, p, b) \in BOOLEAN
  BY DEF TypeOK, Missed, WaitsFor, Messages
<1>2. ASSUME NEW m \in list'
      PROVE  \E k \in list : m = [k EXCEPT !.missed = Missed(k, p, b)]
  BY DEF SetMissed, Missed
<1>3. ASSUME NEW k \in list PROVE [k EXCEPT !.missed = Missed(k, p, b)] \in list'
  BY DEF SetMissed, Missed
<1>4. ASSUME NEW k \in list
      PROVE  LET m == [k EXCEPT !.missed = Missed(k, p, b)]
             IN /\ m \in Messages /\ m.req = k.req /\ m.n = k.n
                /\ m.missed = Missed(k, p, b)
  BY <1>1, MarkMissed
<1>5. list' \subseteq Messages
  BY <1>2, <1>4
<1>6. \A k \in list : \E m \in list' : m.req = k.req
  BY <1>3, <1>4
<1>7. ASSUME NEW m \in list'
      PROVE  \E k \in list :
                 /\ m.req = k.req /\ m.n = k.n /\ m.missed = Missed(k, p, b)
                 /\ m = [k EXCEPT !.missed = Missed(k, p, b)]
  <2>1. PICK k \in list : m = [k EXCEPT !.missed = Missed(k, p, b)]
    BY <1>2
  <2> QED
    BY <1>4, <2>1
<1> QED
  BY <1>5, <1>6, <1>7

(* The cases of a read that brings no value. *)
LEMMA MissCases ==
    ASSUME NEW p, Miss(p), UNCHANGED arriving
    PROVE  \/ list' = list /\ Coming(p)'
           \/ list' = SetMissed(p, TRUE) /\ ~Coming(p)'
BY DEF Miss, Coming

LEMMA InitInv == RequestsAssumption /\ Init => IInv
<1> SUFFICES ASSUME RequestsAssumption, Init PROVE IInv
  OBVIOUS
<1> USE DEF Init
<1>0. xmpp.pc = "idle"
  BY DEF Idle
<1>1. TypeOK
  <2>1. onway \in [Points -> 0 .. MaxOnWay]
    BY DEF RequestsAssumption
  <2> QED
    BY <2>1 DEF TypeOK
<1>2. Numbered /\ Handling /\ OnePending /\ Owed /\ ReadComing
  BY <1>0 DEF Numbered, Handling, OnePending, Owed, ReadComing
<1>3. Counted
  <2>1. \A r \in Requests : Open(r) = 0 /\ AtHand(r) = 0
    BY <1>0 DEF AtHand, Open, Pending
  <2> QED
    BY <2>1 DEF Counted
<1> QED
  BY <1>1, <1>2, <1>3 DEF IInv

LEMMA TypeStep == RequestsAssumption /\ TypeOK /\ [Next]_vars => TypeOK'
<1> SUFFICES ASSUME RequestsAssumption, TypeOK, [Next]_vars PROVE TypeOK'
  OBVIOUS
<1> USE DEF vars, values, line, clients, Forget
<1>1. ASSUME NEW r \in Requests, handleIq(r) PROVE TypeOK'
  <2>1. CASE r \notin Allowed /\ UNCHANGED vars
    BY <2>1 DEF TypeOK
  <2>2. CASE r \in Allowed /\ Accept(r)
    <3>1. CASE r.kind = "read" /\ UNCHANGED <<list, last, answered>>
               /\ xmpp' = At("look", r) /\ owed' = owed \cup {r}
      BY <2>2, <3>1 DEF Accept, TypeOK, PCs, At
    <3>2. CASE r.kind = "write" /\ UNCHANGED <<list, last, answered, owed>>
               /\ xmpp' = At("write", r)
      BY <2>2, <3>2 DEF Accept, TypeOK, PCs, At
    <3>3. CASE r.kind = "remote" /\ PushControlMesssageQueue(r)
               /\ UNCHANGED <<xmpp, answered>>
      <4>1. list' \subseteq Messages /\ last' \in Nat /\ owed' \subseteq owed
        BY <2>2, <3>3, PushList
      <4> QED
        BY <2>2, <3>3, <4>1 DEF Accept, TypeOK
    <3> QED
      BY <2>2, <3>1, <3>2, <3>3 DEF Accept
  <2> QED
    BY <1>1, <2>1, <2>2 DEF handleIq
<1>2. CASE Handle
  <2>0. xmpp.pc # "idle" => xmpp.req \in Allowed /\ xmpp.req \in Requests
                            /\ xmpp.req.point \in Points
    BY DEF TypeOK, Idle, RequestsAssumption, RequestType
  <2>1. CASE Look
    BY <2>0, <2>1 DEF Look, TypeOK, At, PCs
  <2>2. CASE Check
    <3>1. list' \subseteq Messages
      BY <2>2, CheckList DEF Check
    <3> QED
      BY <2>0, <2>2, <3>1 DEF Check, TypeOK, At, PCs
  <2>3. CASE Push
    <3>1. list' \subseteq Messages /\ last' \in Nat /\ owed' \subseteq owed
      BY <2>0, <2>3, PushList DEF Push
    <3> QED
      BY <2>0, <2>3, <3>1 DEF Push, TypeOK, At, PCs
  <2>4. CASE SendControl
    <3>1. list' = SetMissed(xmpp.req.point, FALSE)
      BY <2>4 DEF SendControl, SetMissed
    <3>2. list' \subseteq Messages
      BY <3>1, MissedList
    <3> QED
      BY <2>0, <2>4, <3>2 DEF SendControl, TypeOK
  <2>5. CASE Write
    BY <2>0, <2>5 DEF Write, TypeOK, MayAnswer, At, PCs
  <2>6. CASE Back
    BY <2>0, <2>6 DEF Back, TypeOK
  <2> QED
    BY <1>2, <2>1, <2>2, <2>3, <2>4, <2>5, <2>6 DEF Handle
<1>3. ASSUME NEW p \in Points, LinkStep(p) PROVE TypeOK'
  <2>1. CASE Execute(p)
    <3>1. list' \subseteq Messages
      BY <2>1, MissCases, MissedList DEF Execute, TypeOK
    <3>2. onway' \in [Points -> 0 .. MaxOnWay]
      BY <2>1 DEF Execute, TypeOK, RequestsAssumption
    <3> QED
      BY <2>1, <3>1, <3>2 DEF Execute, TypeOK
  <2>2. CASE Lose(p)
    <3>1. list' \subseteq Messages
      BY <2>2, MissCases, MissedList DEF Lose, TypeOK
    <3>2. onway' \in [Points -> 0 .. MaxOnWay]
      BY <2>2 DEF Lose, TypeOK, RequestsAssumption
    <3> QED
      BY <2>2, <3>1, <3>2 DEF Lose, TypeOK
  <2>3. CASE OnDeviceData(p)
    BY <2>3 DEF OnDeviceData, TypeOK, RequestsAssumption
  <2>4. CASE Judge(p)
    BY <2>4 DEF Judge, TypeOK
  <2>5. CASE Store(p)
    BY <2>5 DEF Store, TypeOK
  <2>6. CASE PopControlMesssageQueue(p)
    <3>1. arriving' \in [Points -> {"no", "judge", "store", "pop"}]
      BY <2>6 DEF PopControlMesssageQueue, TypeOK
    <3>2. list' \subseteq Messages
      BY <2>6 DEF PopControlMesssageQueue, TypeOK
    <3>3. answered' \in [Requests -> Nat]
      BY <2>6 DEF PopControlMesssageQueue, TypeOK
    <3>4. owed' \subseteq Allowed
      BY <2>6 DEF PopControlMesssageQueue, TypeOK
    <3> QED
      BY <2>6, <3>1, <3>2, <3>3, <3>4 DEF PopControlMesssageQueue, TypeOK
  <2> QED
    BY <1>3, <2>1, <2>2, <2>3, <2>4, <2>5, <2>6 DEF LinkStep
<1>4. ASSUME NEW p \in Points, Age(p) PROVE TypeOK'
  BY <1>4 DEF Age, TypeOK
<1>5. ASSUME NEW n, Late(n) PROVE TypeOK'
  <2>1. list' \subseteq Messages
    BY <1>5, LateList
  <2> QED
    BY <1>5, <2>1 DEF Late, TypeOK
<1>6. CASE OnTimer
  BY <1>6 DEF OnTimer, TypeOK
<1>7. CASE UNCHANGED vars
  BY <1>7 DEF TypeOK
<1> QED
  BY <1>1, <1>2, <1>3, <1>4, <1>5, <1>6, <1>7 DEF Next

-----------------------------------------------------------------------------
(* The rest of IInv. Safe is what is left when the types are known.        *)
Safe == Numbered /\ Handling /\ OnePending /\ Owed /\ Counted /\ ReadComing

LEMMA Bounds ==
    ASSUME RequestsAssumption, TypeOK
    PROVE  /\ \A r \in Requests : /\ answered[r] \in Nat /\ asked[r] \in Nat
                                 /\ Open(r) \in {0, 1} /\ AtHand(r) \in {0, 1}
           /\ \A m \in list : /\ m.n \in Nat /\ m.req \in Requests
                              /\ m.req \in Allowed /\ m.req.point \in Points
                              /\ m.missed \in BOOLEAN
           /\ xmpp.pc # "idle" => /\ xmpp.req \in Requests /\ xmpp.req \in Allowed
                                  /\ xmpp.req.point \in Points
<1>1. \A r \in Requests : Open(r) \in {0, 1} /\ AtHand(r) \in {0, 1}
  BY DEF Open, AtHand
<1>2. \A m \in list : m.n \in Nat /\ m.req \in Allowed /\ m.missed \in BOOLEAN
  BY DEF TypeOK, Messages
<1>3. xmpp.pc # "idle" => xmpp.req \in Allowed
  BY DEF TypeOK, Idle
<1>4. \A r \in Allowed : r \in Requests /\ r.point \in Points
  BY DEF RequestsAssumption, RequestType
<1> QED
  BY <1>1, <1>2, <1>3, <1>4 DEF TypeOK

(* The list keeps its messages, some of them marked: what waits, is open   *)
(* and is numbered stays so.                                               *)
LEMMA MarkKeeps ==
    ASSUME Safe, last' = last,
           \A m \in list' : \E k \in list : m.req = k.req /\ m.n = k.n,
           \A k \in list : \E m \in list' : m.req = k.req
    PROVE  /\ Numbered'
           /\ \A r : Pending(r)' = {} <=> Pending(r) = {}
           /\ \A r : Open(r)' = Open(r)
<1>1. Numbered'
  BY DEF Safe, Numbered
<1>2. \A r : Pending(r)' = {} <=> Pending(r) = {}
  BY DEF Pending
<1>3. \A r : Open(r)' = Open(r)
  BY <1>2 DEF Open
<1> QED
  BY <1>1, <1>2, <1>3

(* The list loses messages: what is kept is as it was.                     *)
LEMMA LossKeeps ==
    ASSUME RequestsAssumption, TypeOK, Safe, last' = last, list' \subseteq list
    PROVE  /\ Numbered' /\ OnePending'
           /\ \A r : Pending(r)' \subseteq Pending(r)
           /\ \A r \in Requests : Open(r)' \in {0, 1} /\ Open(r)' <= Open(r)
<1>1. Numbered' /\ OnePending'
  BY DEF Safe, Numbered, OnePending
<1>2. \A r : Pending(r)' \subseteq Pending(r)
  BY DEF Pending
<1>3. \A r \in Requests : Open(r)' \in {0, 1} /\ Open(r)' <= Open(r)
  BY <1>2 DEF Open
<1> QED
  BY <1>1, <1>2, <1>3

(* Pushing leaves the message of a request that has none. *)
LEMMA PushKeeps ==
    ASSUME RequestsAssumption, TypeOK, Safe, NEW r \in Allowed,
           PushControlMesssageQueue(r),
           r.kind = "read" => Pending(r) = {}
    PROVE  /\ Numbered' /\ OnePending'
           /\ \A q : q # r => Pending(q)' \subseteq Pending(q)
           /\ \A q \in Requests :
                 Open(q)' \in {0, 1} /\ (q # r \/ r.kind # "read" => Open(q)' <= Open(q))
           /\ \A q \in owed' : q # r => q \in owed /\ (InHand(q) \/ Pending(q)' = Pending(q))
           /\ \E m \in list' : m.req = r /\ \A k \in list : k.n < m.n
<1> DEFINE new == Message(r, last + 1)
<1>1. /\ list' \subseteq list \cup {new} /\ last' = last + 1
      /\ new.req = r /\ new.n = last + 1 /\ last \in Nat
      /\ \A k \in list : k.n \in Nat /\ k.n <= last
  BY PushList, NewMessage, Bounds DEF Safe, Numbered, TypeOK
<1>2. \A x \in owed' : /\ x \in owed
                       /\ \/ InHand(x)
                          \/ \A m \in list \cup {new} : m.req = x => m \in list'
  BY PushList
<1>3. new \in list'
  <2>1. new \in Cut(list \cup {new})
    <3> DEFINE all == list \cup {new}
    <3>1. /\ new \in all /\ \A k \in all : k.n \in Nat /\ k.n <= new.n
      BY <1>1
    <3> HIDE DEF all, new
    <3> QED
      BY <3>1, CutKeepsLast DEF all
  <2> QED
    BY <2>1 DEF PushControlMesssageQueue
<1> HIDE DEF new
<1>4. Numbered'
  BY <1>1 DEF Numbered
<1>5. OnePending'
  BY <1>1 DEF OnePending, Safe, Pending
<1>6. \A q : q # r => Pending(q)' \subseteq Pending(q)
  BY <1>1 DEF Pending
<1>7. \A q \in Requests :
         Open(q)' \in {0, 1} /\ (q # r \/ r.kind # "read" => Open(q)' <= Open(q))
  BY <1>6 DEF Open
<1>8. \A q \in owed' : q # r => q \in owed /\ (InHand(q) \/ Pending(q)' = Pending(q))
  BY <1>1, <1>2 DEF Pending
<1>9. \E m \in list' : m.req = r /\ \A k \in list : k.n < m.n
  BY <1>1, <1>3
<1> QED
  BY <1>4, <1>5, <1>6, <1>7, <1>8, <1>9

-----------------------------------------------------------------------------
(* Every action keeps IInv.                                                *)

LEMMA AcceptSafe ==
    ASSUME RequestsAssumption, TypeOK, Safe, NEW r \in Allowed, Accept(r)
    PROVE  Safe'
<1> USE DEF values, line
<1>0. /\ r \in Requests /\ xmpp.pc = "idle" /\ \A q : AtHand(q) = 0 /\ ~InHand(q)
      /\ UNCHANGED <<fresh, jumps, arriving, waiting, onway>>
      /\ \A q \in Requests : asked'[q] = IF q = r THEN asked[q] + 1 ELSE asked[q]
  BY DEF Accept, AtHand, InHand, RequestsAssumption, TypeOK
<1>1. CASE /\ r.kind \in {"read", "write"} /\ UNCHANGED <<list, last, answered>>
           /\ xmpp' = At(IF r.kind = "read" THEN "look" ELSE "write", r)
           /\ owed' = owed \cup (IF r.kind = "read" THEN {r} ELSE {})
  <2>1. /\ xmpp'.pc = IF r.kind = "read" THEN "look" ELSE "write"
        /\ xmpp'.req = r
    BY <1>1 DEF At
  <2>2. \A q : Pending(q)' = Pending(q) /\ Open(q)' = Open(q)
    BY <1>1 DEF Pending, Open
  <2>3. Numbered' /\ Handling' /\ OnePending'
    BY <1>1, <2>1 DEF Safe, Numbered, Handling, OnePending
  <2>4. Owed'
    BY <1>0, <1>1, <2>1, <2>2 DEF Safe, Owed, InHand
  <2>5. Counted'
    <3>1. \A q \in Requests : AtHand(q)' = IF q = r THEN 1 ELSE 0
      BY <2>1 DEF AtHand
    <3> QED
      BY <1>0, <1>1, <2>2, <3>1, Bounds DEF Safe, Counted
  <2>6. ReadComing'
    BY <1>0, <1>1 DEF Safe, ReadComing, Coming, WaitsFor
  <2> QED
    BY <2>3, <2>4, <2>5, <2>6 DEF Safe
<1>2. CASE r.kind = "remote" /\ PushControlMesssageQueue(r) /\ UNCHANGED <<xmpp, answered>>
  <2>1. Numbered' /\ OnePending'
    BY <1>2, PushKeeps
  <2>2. Handling'
    <3>1. owed' \subseteq owed
      BY <1>2, PushList
    <3> QED
      BY <1>0, <1>2, <3>1 DEF Safe, Handling
  <2>3. Owed'
    <3>1. \A q \in owed' : q \in owed /\ q # r
      <4>1. \A q \in owed' : q \in owed
        BY <1>2, PushList
      <4> QED
        BY <1>2, <4>1 DEF Safe, Handling
    <3> QED
      BY <1>0, <1>2, <3>1, PushKeeps DEF Safe, Owed
  <2>4. Counted'
    <3>1. \A q \in Requests : AtHand(q)' = 0
      BY <1>0, <1>2 DEF AtHand
    <3>2. \A q \in Requests : Open(q)' \in {0, 1} /\ Open(q)' <= Open(q)
      BY <1>2, PushKeeps
    <3> QED
      BY <1>0, <1>2, <3>1, <3>2, Bounds DEF Safe, Counted
  <2>5. ReadComing'
    <3>1. \A m \in list' : m \in list \/ m.req = r
      BY <1>2, PushList, NewMessage
    <3> QED
      BY <1>0, <1>2, <3>1 DEF Safe, ReadComing, Coming
  <2> QED
    BY <2>1, <2>2, <2>3, <2>4, <2>5 DEF Safe
<1> QED
  BY <1>1, <1>2 DEF Accept

LEMMA HandleSafe ==
    ASSUME RequestsAssumption, TypeOK, Safe, Handle
    PROVE  Safe'
<1> USE DEF values, line, clients
<1>0. xmpp.pc # "idle" => /\ xmpp.req \in Requests /\ xmpp.req \in Allowed
                           /\ xmpp.req.point \in Points
  BY Bounds
<1>1. CASE Look /\ fresh[xmpp.req.point] = "now"
  <2>1. /\ xmpp.pc = "look" /\ xmpp'.pc = "idle"
        /\ UNCHANGED <<list, last, fresh, arriving, waiting, onway, asked>>
        /\ owed' = owed \ {xmpp.req}
        /\ answered' = [answered EXCEPT ![xmpp.req] = @ + 1]
    BY <1>1 DEF Look, Idle
  <2>2. \A q : Pending(q)' = Pending(q) /\ Open(q)' = Open(q)
    BY <2>1 DEF Pending, Open
  <2>3. Numbered' /\ Handling' /\ OnePending'
    BY <2>1 DEF Safe, Numbered, Handling, OnePending
  <2>4. Owed'
    BY <2>1, <2>2 DEF Safe, Owed, InHand
  <2>5. Counted'
    <3>1. \A q \in Requests : /\ AtHand(q) = IF q = xmpp.req THEN 1 ELSE 0
                             /\ AtHand(q)' = 0
      BY <2>1 DEF AtHand
    <3> QED
      BY <2>1, <2>2, <3>1, Bounds DEF Safe, Counted
  <2>6. ReadComing'
    BY <2>1 DEF Safe, ReadComing, Coming
  <2> QED
    BY <2>3, <2>4, <2>5, <2>6 DEF Safe
<1>2. CASE Look /\ fresh[xmpp.req.point] # "now"
  <2>1. /\ xmpp.pc = "look" /\ xmpp'.pc = "check" /\ xmpp'.req = xmpp.req
        /\ UNCHANGED <<list, last, fresh, arriving, waiting, onway, asked, answered, owed>>
    BY <1>2 DEF Look, At
  <2>2. \A q : Pending(q)' = Pending(q) /\ Open(q)' = Open(q)
    BY <2>1 DEF Pending, Open
  <2>3. \A q \in Requests : AtHand(q)' = AtHand(q)
    BY <2>1 DEF AtHand
  <2>4. Counted'
    BY <2>1, <2>2, <2>3 DEF Safe, Counted
  <2> QED
    BY <2>1, <2>2, <2>4
       DEF Safe, Numbered, Handling, OnePending, Owed, InHand, ReadComing, Coming
<1>3. CASE Check
  <2> DEFINE r == xmpp.req  same == CheckControlMesssageQueue(r)
  <2>1. /\ xmpp.pc = "check" /\ xmpp'.req = r /\ r.kind = "read"
        /\ xmpp'.pc = IF same = {} THEN "push" ELSE "send"
        /\ UNCHANGED <<last, fresh, arriving, waiting, onway, asked, answered, owed>>
    BY <1>3 DEF Check, At, Safe, Handling
  <2>2. same = Pending(r)
    BY DEF CheckControlMesssageQueue, Pending
  <2>3. /\ \A m \in list' : \E k \in list :
              /\ m.req = k.req /\ m.n = k.n /\ m.missed = k.missed
              /\ m = IF k.req = r THEN [k EXCEPT !.late = FALSE] ELSE k
        /\ \A k \in list : \E m \in list' : m.req = k.req
    <3>1. list' = (list \ same) \cup {[m EXCEPT !.late = FALSE] : m \in same}
      BY <1>3 DEF Check
    <3> HIDE DEF r
    <3> QED
      BY <3>1, CheckList
  <2>4. /\ Numbered'
        /\ \A q : Pending(q)' = {} <=> Pending(q) = {}
        /\ \A q : Open(q)' = Open(q)
    BY <2>1, <2>3, MarkKeeps
  <2>5. OnePending'
    <3> SUFFICES ASSUME NEW m \in list', NEW k \in list',
                        m.req = k.req, m.req.kind = "read"
                 PROVE  m = k
      BY DEF OnePending
    <3>1. PICK i \in list : /\ m.req = i.req
                            /\ m = IF i.req = r THEN [i EXCEPT !.late = FALSE] ELSE i
      BY <2>3
    <3>2. PICK j \in list : /\ k.req = j.req
                            /\ k = IF j.req = r THEN [j EXCEPT !.late = FALSE] ELSE j
      BY <2>3
    <3>3. i = j
      BY <3>1, <3>2 DEF Safe, OnePending
    <3> QED
      BY <3>1, <3>2, <3>3
  <2>6. Handling'
    BY <2>1, <2>2, <2>4 DEF Safe, Handling
  <2>7. Owed'
    BY <2>1, <2>2, <2>4 DEF Safe, Owed, InHand
  <2>8. Counted'
    <3>1. \A q \in Requests : AtHand(q)' <= AtHand(q) /\ AtHand(q)' \in {0, 1}
      BY <2>1 DEF AtHand
    <3> QED
      BY <2>1, <2>4, <3>1, Bounds DEF Safe, Counted
  <2>9. ReadComing'
    BY <2>1, <2>3 DEF Safe, ReadComing, Coming
  <2> QED
    BY <2>4, <2>5, <2>6, <2>7, <2>8, <2>9 DEF Safe
<1>4. CASE Push
  <2>0. PICK r : r = xmpp.req
    OBVIOUS
  <2>1. /\ xmpp.pc = "push" /\ xmpp'.pc = "send" /\ xmpp'.req = r
        /\ r.kind = "read" /\ r \in Allowed /\ r \in Requests /\ Pending(r) = {}
        /\ UNCHANGED <<fresh, arriving, waiting, onway, asked, answered>>
        /\ PushControlMesssageQueue(r)
    BY <1>0, <1>4, <2>0 DEF Push, At, Safe, Handling
  <2>2. /\ Numbered' /\ OnePending'
        /\ \A q \in Requests : Open(q)' \in {0, 1} /\ (q # r => Open(q)' <= Open(q))
        /\ \A q \in owed' : q # r => q \in owed /\ (InHand(q) \/ Pending(q)' = Pending(q))
        /\ \E m \in list' : m.req = r
    BY <2>1, PushKeeps
  <2>3. owed' \subseteq owed
    BY <2>1, PushList
  <2>4. Handling'
    BY <2>1, <2>3 DEF Safe, Handling
  <2>5. \A q : InHand(q) => q = r
    BY <2>0 DEF InHand
  <2>6. Owed'
    <3>1. Pending(r)' # {}
      BY <2>2 DEF Pending
    <3> QED
      BY <2>2, <2>5, <3>1 DEF Safe, Owed
  <2>7. Counted'
    <3>1. \A q \in Requests : AtHand(q)' = 0 /\ AtHand(q) = IF q = r THEN 1 ELSE 0
      BY <2>0, <2>1 DEF AtHand
    <3>2. Open(r) = 0
      BY <2>1 DEF Open
    <3> QED
      BY <2>1, <2>2, <3>1, <3>2, Bounds DEF Safe, Counted
  <2>8. ReadComing'
    <3>1. \A m \in list' : m \in list \/ m.req = r
      BY <2>1, PushList, NewMessage
    <3> QED
      BY <2>0, <2>1, <3>1 DEF Safe, ReadComing, Coming
  <2> QED
    BY <2>2, <2>4, <2>6, <2>7, <2>8 DEF Safe
<1>5. CASE SendControl
  <2> DEFINE p == xmpp.req.point
  <2>1. /\ xmpp.pc = "send" /\ xmpp'.pc = "idle" /\ p \in Points
        /\ waiting' = waiting \cup {p} /\ list' = SetMissed(p, FALSE)
        /\ UNCHANGED <<last, fresh, arriving, onway, asked, answered, owed>>
    BY <1>0, <1>5 DEF SendControl, Idle
  <2>2. \A m \in list : xmpp.req = m.req => m.req.point = p
    OBVIOUS
  <2> HIDE DEF p
  <2>3. /\ \A m \in list' : \E k \in list :
              /\ m.req = k.req /\ m.n = k.n /\ m.missed = Missed(k, p, FALSE)
              /\ m = [k EXCEPT !.missed = Missed(k, p, FALSE)]
        /\ \A k \in list : \E m \in list' : m.req = k.req
    BY <2>1, MissedList
  <2>4. /\ Numbered'
        /\ \A q : Pending(q)' = {} <=> Pending(q) = {}
        /\ \A q : Open(q)' = Open(q)
    BY <2>1, <2>3, MarkKeeps
  <2>5. OnePending'
    <3> SUFFICES ASSUME NEW m \in list', NEW k \in list',
                        m.req = k.req, m.req.kind = "read"
                 PROVE  m = k
      BY DEF OnePending
    <3>1. PICK i \in list : /\ m.req = i.req
                            /\ m = [i EXCEPT !.missed = Missed(i, p, FALSE)]
      BY <2>3
    <3>2. PICK j \in list : /\ k.req = j.req
                            /\ k = [j EXCEPT !.missed = Missed(j, p, FALSE)]
      BY <2>3
    <3>3. i = j
      BY <3>1, <3>2 DEF Safe, OnePending
    <3> QED
      BY <3>1, <3>2, <3>3
  <2>6. Handling' /\ Owed'
    BY <2>1, <2>4 DEF Safe, Handling, Owed, InHand
  <2>7. Counted'
    <3>1. \A q \in Requests : AtHand(q)' = 0 /\ AtHand(q) = 0
      BY <2>1 DEF AtHand
    <3> QED
      BY <2>1, <2>4, <3>1 DEF Safe, Counted
  <2>8. ReadComing'
    <3> SUFFICES ASSUME NEW m \in list', m.req.kind = "read", ~m.missed
                 PROVE  Coming(m.req.point)'
      BY DEF ReadComing
    <3>1. PICK k \in list : /\ m.req = k.req /\ m.missed = Missed(k, p, FALSE)
      BY <2>3
    <3>2. CASE k.req.point = p
      BY <2>1, <3>1, <3>2 DEF Coming
    <3>3. CASE k.req.point # p
      BY <2>1, <2>2, <3>1, <3>3 DEF Missed, WaitsFor, Safe, ReadComing, Coming
    <3> QED
      BY <3>2, <3>3
  <2> QED
    BY <2>4, <2>5, <2>6, <2>7, <2>8 DEF Safe
<1>6. CASE Write \/ Back
  <2>1. /\ xmpp.pc \in {"write", "back"} /\ xmpp'.pc \in {"idle", "back"}
        /\ xmpp'.pc = "back" => xmpp'.req = xmpp.req
        /\ UNCHANGED <<list, last, arriving, waiting, onway, asked, owed>>
        /\ xmpp.req.kind = "write"
    BY <1>6 DEF Write, Back, Idle, At, Safe, Handling
  <2>2. \A q : Pending(q)' = Pending(q) /\ Open(q)' = Open(q)
    BY <2>1 DEF Pending, Open
  <2>3. Numbered' /\ Handling' /\ OnePending' /\ Owed' /\ ReadComing'
    BY <2>1, <2>2
       DEF Safe, Numbered, Handling, OnePending, Owed, InHand, ReadComing, Coming
  <2>4. \A q \in Requests : answered'[q] + AtHand(q)' <= answered[q] + AtHand(q)
                           /\ answered'[q] \in Nat /\ AtHand(q)' \in {0, 1}
    <3>1. \A q \in Requests : AtHand(q)' = 0
      BY <2>1 DEF AtHand
    <3>2. CASE xmpp.pc = "write"
      <4>1. \A q \in Requests : AtHand(q) = IF q = xmpp.req THEN 1 ELSE 0
        BY <3>2 DEF AtHand
      <4>2. answered' \in {answered, [answered EXCEPT ![xmpp.req] = @ + 1]}
        BY <1>6, <3>2 DEF Write, Back, MayAnswer
      <4> QED
        BY <3>1, <4>1, <4>2, Bounds DEF TypeOK
    <3>3. CASE xmpp.pc = "back"
      BY <1>6, <3>1, <3>3, Bounds DEF Write, Back
    <3> QED
      BY <2>1, <3>2, <3>3
  <2>5. Counted'
    BY <2>1, <2>2, <2>4, Bounds DEF Safe, Counted
  <2> QED
    BY <2>3, <2>5 DEF Safe
<1> QED
  BY <1>1, <1>2, <1>3, <1>4, <1>5, <1>6 DEF Handle

(* Reads that bring no value mark those who wait for them, when no other   *)
(* is left.                                                                *)
LEMMA MissSafe ==
    ASSUME RequestsAssumption, TypeOK, Safe, NEW p \in Points, Miss(p),
           UNCHANGED <<last, xmpp, values, clients>>,
           \A q \in Points : q # p => Coming(q)' = Coming(q)
    PROVE  Safe'
<1> USE DEF values, clients
<1>1. CASE list' = list /\ Coming(p)'
  <2>1. \A q : Pending(q)' = Pending(q) /\ Open(q)' = Open(q) /\ AtHand(q)' = AtHand(q)
    BY <1>1 DEF Pending, Open, AtHand
  <2>2. ReadComing'
    <3>1. \A m \in list' : m \in list /\ m.req.point \in Points
      BY <1>1, Bounds
    <3> QED
      BY <1>1, <3>1 DEF Safe, ReadComing
  <2>3. Counted'
    BY <2>1 DEF Safe, Counted
  <2> QED
    BY <1>1, <2>1, <2>2, <2>3
       DEF Safe, Numbered, Handling, OnePending, Owed, InHand
<1>2. CASE list' = SetMissed(p, TRUE)
  <2>1. /\ \A m \in list' : \E k \in list :
              /\ m.req = k.req /\ m.n = k.n /\ m.missed = Missed(k, p, TRUE)
              /\ m = [k EXCEPT !.missed = Missed(k, p, TRUE)]
        /\ \A k \in list : \E m \in list' : m.req = k.req
    BY <1>2, MissedList
  <2>2. /\ Numbered'
        /\ \A q : Pending(q)' = {} <=> Pending(q) = {}
        /\ \A q : Open(q)' = Open(q)
    BY <2>1, MarkKeeps
  <2>3. OnePending'
    <3> SUFFICES ASSUME NEW m \in list', NEW k \in list',
                        m.req = k.req, m.req.kind = "read"
                 PROVE  m = k
      BY DEF OnePending
    <3>1. PICK i \in list : /\ m.req = i.req
                            /\ m = [i EXCEPT !.missed = Missed(i, p, TRUE)]
      BY <2>1
    <3>2. PICK j \in list : /\ k.req = j.req
                            /\ k = [j EXCEPT !.missed = Missed(j, p, TRUE)]
      BY <2>1
    <3>3. i = j
      BY <3>1, <3>2 DEF Safe, OnePending
    <3> QED
      BY <3>1, <3>2, <3>3
  <2>4. Handling' /\ Owed'
    BY <2>2 DEF Safe, Handling, Owed, InHand
  <2>5. Counted'
    <3>1. \A q : AtHand(q)' = AtHand(q)
      BY DEF AtHand
    <3> QED
      BY <2>2, <3>1 DEF Safe, Counted
  <2>6. ReadComing'
    <3> SUFFICES ASSUME NEW m \in list', m.req.kind = "read", ~m.missed
                 PROVE  Coming(m.req.point)' \/ (xmpp'.pc = "send" /\ xmpp'.req = m.req)
      BY DEF ReadComing
    <3>1. PICK k \in list : m.req = k.req /\ m.missed = Missed(k, p, TRUE)
      BY <2>1
    <3>2. k.req.point # p /\ ~k.missed /\ k.req.point \in Points
      BY <3>1, Bounds DEF Missed, WaitsFor
    <3> QED
      BY <3>1, <3>2 DEF Safe, ReadComing
  <2> QED
    BY <2>2, <2>3, <2>4, <2>5, <2>6 DEF Safe
<1> QED
  BY <1>1, <1>2, MissCases

(* Of some messages one is the oldest, the one that First chooses.         *)
LEMMA LeastIn ==
    ASSUME NEW S \in SUBSET Messages, S # {}
    PROVE  \E m \in S : \A k \in S : m.n <= k.n
<1> DEFINE N == {m.n : m \in S}
<1>1. N \subseteq Nat /\ N # {}
  BY DEF Messages
<1>2. PICK x \in N : \A y \in N : ~(<<y, x>> \in OpToRel(<, Nat))
  <2> HIDE DEF N
  <2> QED
    BY <1>1, WFMin, NatLessThanWellFounded
<1>3. \A y \in N : x <= y
  <2>0. x \in Nat /\ \A y \in N : y \in Nat
    BY <1>1
  <2> HIDE DEF N
  <2> SUFFICES ASSUME NEW y \in N, y < x PROVE FALSE
    BY <2>0
  <2>1. <<y, x>> \in OpToRel(<, Nat)
    BY <2>0 DEF OpToRel
  <2> QED
    BY <1>2, <2>1
<1> QED
  BY <1>3

LEMMA FirstIn ==
    ASSUME TypeOK, NEW S \in SUBSET list, S # {}
    PROVE  First(S) \in S
<1>1. \E m \in S : \A k \in S : m.n <= k.n
  BY LeastIn DEF TypeOK
<1> QED
  BY <1>1 DEF First

LEMMA LinkSafe ==
    ASSUME RequestsAssumption, TypeOK, Safe, NEW p \in Points, LinkStep(p)
    PROVE  Safe'
<1> USE DEF values, clients, line
<1>1. CASE Execute(p)
  <2>1. \A q \in Points : q # p => Coming(q)' = Coming(q)
    BY <1>1 DEF Execute, Coming, TypeOK
  <2>2. CASE Miss(p)
    BY <1>1, <2>1, <2>2, MissSafe DEF Execute
  <2>3. CASE onway[p] < MaxOnWay /\ onway' = [onway EXCEPT ![p] = @ + 1] /\ UNCHANGED list
    <3>1. Miss(p)
      <4>1. onway'[p] > 0
        BY <2>3 DEF TypeOK
      <4> QED
        BY <2>3, <4>1 DEF Miss
    <3> QED
      BY <1>1, <2>1, <3>1, MissSafe DEF Execute
  <2> QED
    BY <1>1, <2>2, <2>3 DEF Execute
<1>2. CASE Lose(p)
  <2>1. \A q \in Points : q # p => Coming(q)' = Coming(q)
    BY <1>2 DEF Lose, Coming, TypeOK
  <2> QED
    BY <1>2, <2>1, MissSafe DEF Lose
<1>3. CASE OnDeviceData(p) \/ Judge(p) \/ Store(p)
  <2>1. /\ UNCHANGED <<list, last, xmpp, asked, answered, owed, waiting>>
        /\ \A q \in Points : Coming(q) => Coming(q)'
    <3>1. UNCHANGED <<list, last, xmpp, asked, answered, owed, waiting>>
      BY <1>3 DEF OnDeviceData, Judge, Store
    <3>2. CASE OnDeviceData(p)
      BY <3>2 DEF OnDeviceData, Coming, TypeOK
    <3>3. CASE Judge(p)
      BY <3>3 DEF Judge, Coming, TypeOK
    <3>4. CASE Store(p)
      BY <3>4 DEF Store, Coming, TypeOK
    <3> QED
      BY <1>3, <3>1, <3>2, <3>3, <3>4
  <2>2. \A q : Pending(q)' = Pending(q) /\ Open(q)' = Open(q) /\ AtHand(q)' = AtHand(q)
    BY <2>1 DEF Pending, Open, AtHand
  <2>3. Counted'
    BY <2>1, <2>2 DEF Safe, Counted
  <2>4. ReadComing'
    <3>1. \A m \in list' : m \in list /\ m.req.point \in Points
      BY <2>1, Bounds
    <3> QED
      BY <2>1, <3>1 DEF Safe, ReadComing
  <2> QED
    BY <2>1, <2>2, <2>3, <2>4
       DEF Safe, Numbered, Handling, OnePending, Owed, InHand
<1>4. CASE PopControlMesssageQueue(p)
  <2> DEFINE who == {m \in list : WaitsFor(m, p)}
  <2>0. /\ arriving[p] = "pop" /\ UNCHANGED <<last, xmpp, waiting, onway, asked>>
        /\ \A q : AtHand(q)' = AtHand(q)
    BY <1>4 DEF PopControlMesssageQueue, AtHand
  <2>1. CASE who = {} /\ arriving' = [arriving EXCEPT ![p] = "no"]
             /\ UNCHANGED <<list, answered, owed>>
    <3>1. \A m \in list : m.req.kind = "read" => m.req.point # p
      BY <2>1 DEF WaitsFor
    <3>2. \A q \in Points : q # p => Coming(q)' = Coming(q)
      BY <2>0, <2>1 DEF Coming, TypeOK
    <3>3. ReadComing'
      <4>1. \A m \in list' : m \in list /\ m.req.point \in Points
        BY <2>1, Bounds
      <4> QED
        BY <2>0, <3>1, <3>2, <4>1 DEF Safe, ReadComing
    <3>4. Counted'
      BY <2>0, <2>1 DEF Safe, Counted, Open, Pending
    <3> QED
      BY <2>0, <2>1, <3>3, <3>4
         DEF Safe, Numbered, Handling, OnePending, Owed, InHand, Pending
  <2>2. CASE /\ who # {} /\ UNCHANGED arriving
             /\ list' = list \ {First(who)}
             /\ answered' = [answered EXCEPT ![First(who).req] = @ + 1]
             /\ Forget({First(who)})
    <3>1. PICK m : m = First(who)
      OBVIOUS
    <3>2. /\ m \in list => m.req \in Requests
          /\ list' = list \ {m}
          /\ answered' = [answered EXCEPT ![m.req] = @ + 1]
          /\ \A q : q \in owed' <=> q \in owed /\ (InHand(q) \/ m.req # q)
      BY <2>2, <3>1, Bounds DEF Forget
    <3>3. m \in list /\ m.req.kind = "read"
      BY <2>2, <3>1, FirstIn DEF WaitsFor
    <3>4. /\ Numbered' /\ OnePending'
          /\ \A q : Pending(q)' \subseteq Pending(q)
          /\ \A q \in Requests : Open(q)' \in {0, 1} /\ Open(q)' <= Open(q)
      BY <2>0, <3>2, LossKeeps
    <3>5. Handling'
      BY <2>0, <3>2, <3>4 DEF Safe, Handling
    <3>6. Owed'
      <4>1. \A q : q # m.req => Pending(q)' = Pending(q)
        BY <3>2 DEF Pending
      <4> QED
        BY <2>0, <3>2, <4>1 DEF Safe, Owed, InHand
    <3>7. Counted'
      <4>1. Open(m.req) = 1
        BY <3>3 DEF Open, Pending
      <4>2. Pending(m.req)' = {}
        BY <3>2, <3>3 DEF Pending, Safe, OnePending
      <4>3. Open(m.req)' = 0
        BY <4>2 DEF Open
      <4> QED
        BY <2>0, <3>2, <3>3, <3>4, <4>1, <4>3, Bounds DEF Safe, Counted, TypeOK
    <3>8. ReadComing'
      BY <2>0, <2>2, <3>2 DEF Safe, ReadComing, Coming
    <3> QED
      BY <3>4, <3>5, <3>6, <3>7, <3>8 DEF Safe
  <2> QED
    BY <1>4, <2>1, <2>2 DEF PopControlMesssageQueue
<1> QED
  BY <1>1, <1>2, <1>3, <1>4 DEF LinkStep

LEMMA TimeSafe ==
    ASSUME RequestsAssumption, TypeOK, Safe,
           \/ \E p \in Points : Age(p)
           \/ \E m \in list : Late(m.n)
           \/ OnTimer
    PROVE  Safe'
<1> USE DEF values, clients, line
<1>1. CASE \E p \in Points : Age(p)
  <2>1. UNCHANGED <<list, last, xmpp, asked, answered, owed, waiting, onway, arriving>>
    BY <1>1 DEF Age
  <2> QED
    BY <2>1 DEF Safe, Numbered, Handling, OnePending, Owed, InHand, ReadComing,
       Coming, Counted, Open, Pending, AtHand
<1>2. ASSUME NEW n, Late(n) PROVE Safe'
  <2>0. UNCHANGED <<last, xmpp, asked, answered, owed, waiting, onway, arriving>>
    BY <1>2 DEF Late
  <2>1. /\ \A m \in list' : \E k \in list :
              /\ m.req = k.req /\ m.n = k.n /\ m.missed = k.missed
              /\ m = [k EXCEPT !.late = k.late \/ k.n = n]
        /\ \A k \in list : \E m \in list' : m.req = k.req
    BY <1>2, LateList
  <2>2. /\ Numbered'
        /\ \A q : Pending(q)' = {} <=> Pending(q) = {}
        /\ \A q : Open(q)' = Open(q)
    BY <2>0, <2>1, MarkKeeps
  <2>3. OnePending'
    <3> SUFFICES ASSUME NEW m \in list', NEW k \in list',
                        m.req = k.req, m.req.kind = "read"
                 PROVE  m = k
      BY DEF OnePending
    <3>1. PICK x \in list : /\ m.req = x.req
                            /\ m = [x EXCEPT !.late = x.late \/ x.n = n]
      BY <2>1
    <3>2. PICK y \in list : /\ k.req = y.req
                            /\ k = [y EXCEPT !.late = y.late \/ y.n = n]
      BY <2>1
    <3>3. x = y
      BY <3>1, <3>2 DEF Safe, OnePending
    <3> QED
      BY <3>1, <3>2, <3>3
  <2>4. Handling' /\ Owed'
    BY <2>0, <2>2 DEF Safe, Handling, Owed, InHand
  <2>5. Counted'
    <3>1. \A q : AtHand(q)' = AtHand(q)
      BY <2>0 DEF AtHand
    <3> QED
      BY <2>0, <2>2, <3>1 DEF Safe, Counted
  <2>6. ReadComing'
    BY <2>0, <2>1 DEF Safe, ReadComing, Coming
  <2> QED
    BY <2>2, <2>3, <2>4, <2>5, <2>6 DEF Safe
<1>3. CASE OnTimer
  <2>1. /\ UNCHANGED <<last, xmpp, asked, answered, waiting, onway, arriving>>
        /\ list' \subseteq list
        /\ \A q : q \in owed' <=>
                 q \in owed /\ (InHand(q) \/ \A m \in list \ list' : m.req # q)
    BY <1>3 DEF OnTimer, Forget
  <2>2. /\ Numbered' /\ OnePending'
        /\ \A q : Pending(q)' \subseteq Pending(q)
        /\ \A q \in Requests : Open(q)' \in {0, 1} /\ Open(q)' <= Open(q)
    BY <2>1, LossKeeps
  <2>3. Handling'
    BY <2>1, <2>2 DEF Safe, Handling
  <2>4. Owed'
    <3> SUFFICES ASSUME NEW q \in owed', ~InHand(q) PROVE Pending(q)' # {}
      BY <2>1 DEF Owed, InHand
    <3>1. Pending(q) # {} /\ \A m \in list \ list' : m.req # q
      BY <2>1 DEF Safe, Owed
    <3> QED
      BY <3>1 DEF Pending
  <2>5. Counted'
    <3>1. \A q : AtHand(q)' = AtHand(q)
      BY <2>1 DEF AtHand
    <3> QED
      BY <2>1, <2>2, <3>1, Bounds DEF Safe, Counted
  <2>6. ReadComing'
    BY <2>1 DEF Safe, ReadComing, Coming
  <2> QED
    BY <2>2, <2>3, <2>4, <2>5, <2>6 DEF Safe
<1> QED
  BY <1>1, <1>2, <1>3

LEMMA StepInv == RequestsAssumption /\ IInv /\ [Next]_vars => IInv'
<1> SUFFICES ASSUME RequestsAssumption, IInv, [Next]_vars PROVE IInv'
  OBVIOUS
<1>1. TypeOK /\ Safe /\ TypeOK'
  BY TypeStep DEF IInv, Safe
<1>2. ASSUME NEW r \in Requests, handleIq(r) PROVE Safe'
  <2>1. CASE r \in Allowed /\ Accept(r)
    BY <1>1, <2>1, AcceptSafe
  <2>2. CASE UNCHANGED vars
    BY <1>1, <2>2 DEF vars, values, line, clients, Safe, Numbered, Handling,
       OnePending, Owed, InHand, ReadComing, Coming, Counted, Open, Pending, AtHand
  <2> QED
    BY <1>2, <2>1, <2>2 DEF handleIq
<1>3. ASSUME UNCHANGED vars PROVE Safe'
  BY <1>1, <1>3 DEF vars, values, line, clients, Safe, Numbered, Handling,
     OnePending, Owed, InHand, ReadComing, Coming, Counted, Open, Pending, AtHand
<1>4. ASSUME Handle PROVE Safe'
  BY <1>1, <1>4, HandleSafe
<1>5. ASSUME NEW p \in Points, LinkStep(p) PROVE Safe'
  BY <1>1, <1>5, LinkSafe
<1>6. ASSUME (\E p \in Points : Age(p)) \/ (\E m \in list : Late(m.n)) \/ OnTimer
      PROVE  Safe'
  BY <1>1, <1>6, TimeSafe
<1>7. Safe'
  BY <1>2, <1>3, <1>4, <1>5, <1>6 DEF Next
<1> QED
  BY <1>1, <1>7 DEF IInv, Safe

THEOREM Invariance == Spec => []IInv
BY RequestsAssumption, InitInv, StepInv, PTL DEF Spec

(* Only requests whose users have the authority reach the devices or wait. *)
THEOREM TypeCorrect == Spec => []TypeOK
<1>1. IInv => TypeOK
  BY DEF IInv
<1> QED
  BY <1>1, Invariance, PTL

(* A repeated read never waits twice. *)
THEOREM OneMessage == Spec => []OnePending
<1>1. IInv => OnePending
  BY DEF IInv
<1> QED
  BY <1>1, Invariance, PTL

(* No read is lost between the thread that takes it and the list. *)
THEOREM NothingLost == Spec => []Owed
<1>1. IInv => Owed
  BY DEF IInv
<1> QED
  BY <1>1, Invariance, PTL

(* A client never gets more answers than it asked, counting the one it     *)
(* waits for.                                                              *)
THEOREM NoExtraAnswer == Spec => []AtMostAsked
<1>1. RequestsAssumption /\ IInv => AtMostAsked
  BY Bounds DEF IInv, Counted, AtMostAsked
<1> QED
  BY <1>1, RequestsAssumption, Invariance, PTL

(* Whoever waits has a read in the queue, on the line or in the hands of a *)
(* thread, if it was not lost.                                             *)
THEOREM WaitersServed == Spec => []ReadComing
<1>1. IInv => ReadComing
  BY DEF IInv
<1> QED
  BY <1>1, Invariance, PTL

(* The limit of the list never costs the request that reaches it. *)
THEOREM LimitDropsOld == Spec => NewestKept
<1> DEFINE Kept == xmpp.pc = "push" /\ xmpp'.pc = "send"
                   => \E m \in list' : m.req = xmpp.req
                                        /\ \A k \in list : k.n < m.n
<1>1. RequestsAssumption /\ IInv /\ [Next]_vars => [Kept]_vars
  <2> SUFFICES ASSUME RequestsAssumption, IInv, Next, xmpp.pc = "push",
                      xmpp'.pc = "send"
               PROVE  Kept
    OBVIOUS
  <2>1. xmpp' # xmpp
    OBVIOUS
  <2>2. Push
    <3>1. ASSUME NEW r \in Requests, handleIq(r) PROVE FALSE
      BY <2>1, <3>1 DEF handleIq, Accept, vars
    <3>2. ASSUME NEW p \in Points, LinkStep(p) \/ Age(p) PROVE FALSE
      BY <2>1, <3>2 DEF LinkStep, Age, Execute, Lose, OnDeviceData, Judge, Store,
         PopControlMesssageQueue
    <3>3. ~OnTimer /\ ~\E m \in list : Late(m.n)
      BY <2>1 DEF OnTimer, Late
    <3> QED
      BY <3>1, <3>2, <3>3
         DEF Next, Handle, Look, Check, SendControl, Write, Back
  <2>3. PushControlMesssageQueue(xmpp.req) /\ xmpp.req \in Allowed
        /\ (xmpp.req.kind = "read" => Pending(xmpp.req) = {})
    BY <2>2, Bounds DEF Push, IInv, Handling
  <2> QED
    BY <2>3, PushKeeps DEF IInv, Safe
<1> QED
  BY <1>1, RequestsAssumption, Invariance, PTL DEF Spec, NewestKept
-----------------------------------------------------------------------------
(* The size of the list. Its messages have different numbers, so of those  *)
(* that stay at a cut the oldest has fewer than Room newer ones and all    *)
(* the others are among these.                                             *)
Unlike(l) == \A m, k \in l : m.n = k.n => m = k

Sized == IsFiniteSet(list) /\ Unlike(list) /\ Bounded

LEMMA CutSize ==
    ASSUME RequestsAssumption, NEW l \in SUBSET Messages, IsFiniteSet(l), Unlike(l)
    PROVE  Cardinality(Cut(l)) <= Limit
<1> DEFINE newer(m) == {k \in l : k.n > m.n}
           C == {m \in l : Cardinality(newer(m)) < Room}
<1>1. Room \in Nat /\ Limit \in Nat /\ Room <= Limit
  BY DEF RequestsAssumption
<1>2. IsFiniteSet(C) /\ Cardinality(C) \in Nat
  BY FS_Subset, FS_CardinalityType
<1>3. CASE C = {}
  <2>1. Cardinality(C) = 0
    BY <1>3, FS_EmptySet
  <2> QED
    BY <1>1, <2>1 DEF Cut
<1>4. CASE C # {}
  <2>1. PICK m \in C : \A k \in C : m.n <= k.n
    BY <1>4, LeastIn
  <2>2. C \ {m} \subseteq newer(m)
    <3> SUFFICES ASSUME NEW k \in C, k # m PROVE k.n > m.n
      OBVIOUS
    <3>1. k.n # m.n /\ k.n \in Nat /\ m.n \in Nat
      BY DEF Unlike, Messages
    <3> QED
      BY <2>1, <3>1
  <2>3. IsFiniteSet(newer(m)) /\ Cardinality(newer(m)) \in Nat /\ Cardinality(newer(m)) < Room
    BY FS_Subset, FS_CardinalityType
  <2> HIDE DEF C, newer
  <2>4. Cardinality(C \ {m}) <= Cardinality(newer(m))
    BY <2>2, <2>3, FS_Subset
  <2>5. Cardinality(C \ {m}) = Cardinality(C) - 1
    BY <1>2, FS_RemoveElement
  <2>6. Cardinality(C) <= Room
    BY <1>1, <1>2, <2>3, <2>4, <2>5
  <2> USE DEF C, newer
  <2> QED
    BY <1>1, <1>2, <2>6 DEF Cut
<1> QED
  BY <1>3, <1>4

(* Steps that mark messages leave as many as before, ...                   *)
LEMMA MarkSized ==
    ASSUME Sized, Unlike(list)', \A m \in list' : \E k \in list : m.n = k.n,
           RequestsAssumption
    PROVE  Sized'
<1> DEFINE f == [m \in list' |-> CHOOSE k \in list : m.n = k.n]
<1>1. \A m \in list' : f[m] \in list /\ m.n = f[m].n
  OBVIOUS
<1>2. f \in Injection(list', list)
  <2>1. f \in [list' -> list]
    BY <1>1
  <2>2. \A m, k \in list' : f[m] = f[k] => m = k
    BY <1>1 DEF Unlike
  <2> HIDE DEF f
  <2> QED
    BY <2>1, <2>2 DEF Injection, IsInjective
<1>3. IsFiniteSet(list') /\ Cardinality(list') <= Cardinality(list)
  <2> HIDE DEF f
  <2> QED
    BY <1>2, FS_Injection DEF Sized
<1>4. Cardinality(list') \in Nat /\ Cardinality(list) \in Nat /\ Limit \in Nat
  BY <1>3, FS_CardinalityType DEF Sized, RequestsAssumption
<1> QED
  BY <1>3, <1>4 DEF Sized, Bounded

(* ... removals leave fewer, ...                                           *)
LEMMA LossSized ==
    ASSUME RequestsAssumption, Sized, list' \subseteq list
    PROVE  Sized'
<1>1. Unlike(list)'
  BY DEF Sized, Unlike
<1> QED
  BY <1>1, MarkSized

(* ... and a new message, of the highest number, brings a cut if needed.   *)
LEMMA PushSized ==
    ASSUME RequestsAssumption, TypeOK, Numbered, Sized, NEW r \in Allowed,
           PushControlMesssageQueue(r)
    PROVE  Sized'
<1> DEFINE new == Message(r, last + 1)
           all == list \cup {new}
<1>1. new \in Messages /\ new.n = last + 1 /\ last \in Nat
  BY NewMessage DEF TypeOK
<1>2. list' = Cut(all)
  BY DEF PushControlMesssageQueue
<1>3. \A k \in list : k.n \in Nat /\ k.n <= last
  BY Bounds DEF Numbered
<1> HIDE DEF new
<1>4. all \in SUBSET Messages /\ IsFiniteSet(all)
  BY <1>1, FS_AddElement DEF TypeOK, Sized
<1>5. Unlike(all)
  BY <1>1, <1>3 DEF Sized, Unlike
<1> HIDE DEF all
<1>6. Cardinality(Cut(all)) <= Limit
  BY <1>4, <1>5, CutSize
<1>7. Cut(all) \subseteq all
  BY CutPart
<1>8. IsFiniteSet(Cut(all)) /\ Unlike(Cut(all))
  BY <1>4, <1>5, <1>7, FS_Subset DEF Unlike
<1> QED
  BY <1>2, <1>6, <1>8 DEF Sized, Bounded

LEMMA MissSized ==
    ASSUME RequestsAssumption, TypeOK, Sized, NEW p, NEW b \in BOOLEAN,
           list' = SetMissed(p, b)
    PROVE  Sized'
<1>1. \A m \in list' : \E k \in list :
         m.n = k.n /\ m = [k EXCEPT !.missed = Missed(k, p, b)]
  BY MissedList
<1>2. Unlike(list)'
  <2> SUFFICES ASSUME NEW m \in list', NEW k \in list', m.n = k.n PROVE m = k
    BY DEF Unlike
  <2>1. PICK i \in list : m.n = i.n /\ m = [i EXCEPT !.missed = Missed(i, p, b)]
    BY <1>1
  <2>2. PICK j \in list : k.n = j.n /\ k = [j EXCEPT !.missed = Missed(j, p, b)]
    BY <1>1
  <2>3. i = j
    BY <2>1, <2>2 DEF Sized, Unlike
  <2> QED
    BY <2>1, <2>2, <2>3
<1> QED
  BY <1>1, <1>2, MarkSized

LEMMA HandleSized ==
    ASSUME RequestsAssumption, TypeOK, Numbered, Sized, Handle
    PROVE  Sized'
<1>1. CASE Check
  <2> DEFINE r == xmpp.req
  <2>1. \A m \in list' : \E k \in list :
           m.n = k.n /\ m = IF k.req = r THEN [k EXCEPT !.late = FALSE] ELSE k
    <3>1. list' = (list \ CheckControlMesssageQueue(r))
                  \cup {[m EXCEPT !.late = FALSE] : m \in CheckControlMesssageQueue(r)}
      BY <1>1 DEF Check
    <3>2. \A m \in list' : \E k \in list :
             /\ m.req = k.req /\ m.n = k.n /\ m.missed = k.missed
             /\ m = IF k.req = r THEN [k EXCEPT !.late = FALSE] ELSE k
      BY <3>1, CheckList, Zenon
    <3> QED
      BY <3>2, Zenon
  <2>2. Unlike(list)'
    <3> SUFFICES ASSUME NEW m \in list', NEW k \in list', m.n = k.n PROVE m = k
      BY DEF Unlike
    <3>1. PICK i \in list :
             m.n = i.n /\ m = IF i.req = r THEN [i EXCEPT !.late = FALSE] ELSE i
      BY <2>1
    <3>2. PICK j \in list :
             k.n = j.n /\ k = IF j.req = r THEN [j EXCEPT !.late = FALSE] ELSE j
      BY <2>1
    <3>3. i = j
      BY <3>1, <3>2 DEF Sized, Unlike
    <3> QED
      BY <3>1, <3>2, <3>3
  <2> QED
    BY <2>1, <2>2, MarkSized
<1>2. CASE Push
  BY <1>2, PushSized, Bounds DEF Push
<1>3. CASE SendControl
  BY <1>3, MissSized DEF SendControl
<1>4. CASE Look \/ Write \/ Back
  BY <1>4, LossSized DEF Look, Write, Back
<1> QED
  BY <1>1, <1>2, <1>3, <1>4 DEF Handle

LEMMA LinkSized ==
    ASSUME RequestsAssumption, TypeOK, Sized, NEW p \in Points, LinkStep(p)
    PROVE  Sized'
<1>1. CASE UNCHANGED list
  BY <1>1, LossSized
<1>2. CASE Execute(p) \/ Lose(p)
  BY <1>1, <1>2, MissSized DEF Execute, Lose, Miss
<1>3. CASE PopControlMesssageQueue(p)
  <2>1. list' \subseteq list
    BY <1>3 DEF PopControlMesssageQueue
  <2> QED
    BY <2>1, LossSized
<1> QED
  BY <1>1, <1>2, <1>3 DEF LinkStep, OnDeviceData, Judge, Store

LEMMA TimeSized ==
    ASSUME RequestsAssumption, TypeOK, Sized,
           \/ \E p \in Points : Age(p)
           \/ \E m \in list : Late(m.n)
           \/ OnTimer
    PROVE  Sized'
<1>1. ASSUME NEW n, Late(n) PROVE Sized'
  <2>1. \A m \in list' : \E k \in list :
           m.n = k.n /\ m = [k EXCEPT !.late = k.late \/ k.n = n]
    BY <1>1, LateList
  <2>2. Unlike(list)'
    <3> SUFFICES ASSUME NEW m \in list', NEW k \in list', m.n = k.n PROVE m = k
      BY DEF Unlike
    <3>1. PICK i \in list : m.n = i.n /\ m = [i EXCEPT !.late = i.late \/ i.n = n]
      BY <2>1
    <3>2. PICK j \in list : k.n = j.n /\ k = [j EXCEPT !.late = j.late \/ j.n = n]
      BY <2>1
    <3>3. i = j
      BY <3>1, <3>2 DEF Sized, Unlike
    <3> QED
      BY <3>1, <3>2, <3>3
  <2> QED
    BY <2>1, <2>2, MarkSized
<1>2. CASE OnTimer
  BY <1>2, LossSized DEF OnTimer
<1>3. CASE \E p \in Points : Age(p)
  BY <1>3, LossSized DEF Age
<1> QED
  BY <1>1, <1>2, <1>3

LEMMA AlwaysSized == Spec => []Sized
<1>1. RequestsAssumption /\ Init => Sized
  BY FS_EmptySet DEF Init, Sized, Unlike, Bounded, RequestsAssumption
<1>2. RequestsAssumption /\ IInv /\ Sized /\ [Next]_vars => Sized'
  <2> SUFFICES ASSUME RequestsAssumption, IInv, Sized, [Next]_vars PROVE Sized'
    OBVIOUS
  <2>0. TypeOK /\ Numbered
    BY DEF IInv
  <2>1. ASSUME NEW r \in Requests, handleIq(r) PROVE Sized'
    <3>1. CASE UNCHANGED list
      BY <3>1, LossSized
    <3>2. CASE r \in Allowed /\ PushControlMesssageQueue(r)
      BY <2>0, <3>2, PushSized
    <3> QED
      BY <2>1, <3>1, <3>2 DEF handleIq, Accept, vars
  <2>2. CASE UNCHANGED vars
    BY <2>2, LossSized DEF vars
  <2>3. CASE Handle
    BY <2>0, <2>3, HandleSized
  <2>4. ASSUME NEW p \in Points, LinkStep(p) PROVE Sized'
    BY <2>0, <2>4, LinkSized
  <2>5. CASE \/ \E p \in Points : Age(p)
             \/ \E m \in list : Late(m.n)
             \/ OnTimer
    BY <2>0, <2>5, TimeSized
  <2> QED
    BY <2>1, <2>2, <2>3, <2>4, <2>5 DEF Next
<1> QED
  BY <1>1, <1>2, RequestsAssumption, Invariance, PTL DEF Spec

(* The list never holds more than Limit messages: commands to air          *)
(* conditioners, which nobody takes, only push each other out.             *)
THEOREM ListIsBounded == Spec => []Bounded
<1>1. Sized => Bounded
  BY DEF Sized
<1> QED
  BY <1>1, AlwaysSized, PTL
=============================================================================
