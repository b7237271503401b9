------------------------------ MODULE Requests ------------------------------
(***************************************************************************)
(* Requests of XMPP clients to devices, in GSIOTClient.cpp: the XMPP       *)
(* thread takes a request (handleIq), answers a read at once when the      *)
(* value is fresh, and leaves it in ctlMessageList otherwise; the threads  *)
(* of the links store the values that arrive (OnDeviceData_ProcOne) and    *)
(* answer the reads that wait for them; the timer drops what waits too     *)
(* long. No step holds a lock longer than it looks at the list, so the     *)
(* three run interleaved.                                                  *)
(*                                                                         *)
(* Values are left out: of a value it matters how old it is and whether it *)
(* jumps. SerialLink is the way of a read from waiting to onway: equal     *)
(* messages wait once, and an answer may get lost.                         *)
(***************************************************************************)
EXTENDS Integers, FiniteSets

CONSTANTS
    Points,      \* the addresses of the devices
    Requests,    \* what clients ask, by jid and id of the IQ
    Allowed,     \* the requests whose users have the authority
    Switches,    \* addresses that reverse at a write
    AutoBack,    \* those that go back by themselves after it
    Limit,       \* 10000 control messages
    Room,        \* 500, what the list is cut to
    MaxAsked,    \* bound: how often each request is sent
    MaxOnWay     \* bound: answers of an address on the way

RequestType ==
    [kind : {"read", "write", "remote"}, jid : STRING, id : Nat, point : Points]

ASSUME RequestsAssumption ==
    /\ IsFiniteSet(Requests) /\ Requests \subseteq RequestType
    /\ Allowed \subseteq Requests
    /\ AutoBack \subseteq Switches /\ Switches \subseteq Points
    /\ Limit \in Nat /\ Room \in Nat \ {0} /\ Room <= Limit
    /\ MaxAsked \in [Requests -> Nat] /\ MaxOnWay \in Nat \ {0}

VARIABLES
    list,      \* ctlMessageList, its messages numbered in their order
    last,      \* the last of these numbers
    xmpp,      \* the XMPP thread: what it does next, with which request
    fresh,     \* m_lastUpdate of an address: never, first, now, or past
    jumps,     \* m_data_abnormal_count of an address
    arriving,  \* what the thread of the link does with a value of an address
    waiting,   \* addresses with a read in the queue of SerialMessage
    onway,     \* answers of an address that are still to come
    asked,     \* how often a request came
    answered,  \* how often it was answered
    owed       \* reads not answered and not given up

clients == <<asked, answered, owed>>
values == <<fresh, jumps, arriving>>
line == <<waiting, onway>>
vars == <<list, last, xmpp, values, line, clients>>

NoRequest == [kind |-> "none", jid |-> "", id |-> 0]
Idle == [pc |-> "idle", req |-> NoRequest]
At(pc, r) == [pc |-> pc, req |-> r]

Init ==
    /\ list = {}
    /\ last = 0
    /\ xmpp = Idle
    /\ fresh = [p \in Points |-> "never"]
    /\ jumps = [p \in Points |-> 0]
    /\ arriving = [p \in Points |-> "no"]
    /\ waiting = {}
    /\ onway = [p \in Points |-> 0]
    /\ asked = [r \in Requests |-> 0]
    /\ answered = [r \in Requests |-> 0]
    /\ owed = {}

-----------------------------------------------------------------------------
(* A control message, late when it is overdue; missed says that no answer  *)
(* to it is on its way any more.                                           *)
Message(r, n) == [req |-> r, n |-> n, late |-> FALSE, missed |-> FALSE]

(* Fault: the list is cut when it is longer than the limit by two. *)
Cut_OneMore(l) ==
    IF Cardinality(l) <= Limit + 1 THEN l
    ELSE {m \in l : Cardinality({k \in l : k.n > m.n}) < Room}

(* Fault: the list is cut at its end. *)
Cut_Newest(l) ==
    IF Cardinality(l) <= Limit THEN l
    ELSE {m \in l : Cardinality({k \in l : k.n < m.n}) < Room}

(* The oldest messages go when the list is too long, without an answer.    *)
Cut(l) ==
    IF Cardinality(l) <= Limit THEN l
    ELSE {m \in l : Cardinality({k \in l : k.n > m.n}) < Room}

(* The XMPP thread has a read at hand that it has not left in the list.    *)
InHand(r) == xmpp.pc \in {"look", "check", "push"} /\ xmpp.req = r

(* Nobody owes an answer to the reads whose messages go, unless they have  *)
(* been repeated and are at hand.                                          *)
Forget(gone) ==
    owed' = {r \in owed : InHand(r) \/ \A m \in gone : m.req # r}

PushControlMesssageQueue(r) ==
    LET all == list \cup {Message(r, last + 1)} IN
    /\ last' = last + 1
    /\ list' = Cut(all)
    /\ Forget(all \ Cut(all))

(* Fault: messages that are overdue count no more. *)
Check_OnTime(r) == {m \in list : m.req = r /\ ~m.late}

(* Fault: the id of the IQ is not compared. *)
Check_AnyId(r) == {m \in list : m.req.kind = r.kind /\ m.req.jid = r.jid
                                /\ m.req.point = r.point}

(* The message of a request that waits already: the request was repeated.  *)
CheckControlMesssageQueue(r) == {m \in list : m.req = r}

(* A message asks for a value of the address. *)
WaitsFor(m, p) == m.req.kind = "read" /\ m.req.point = p

SetMissed(p, b) ==
    {[m EXCEPT !.missed = IF WaitsFor(m, p) THEN b ELSE @] : m \in list}

-----------------------------------------------------------------------------
(* handleIq, in the XMPP thread.                                           *)

(* A write is answered if the client wants it.                             *)
MayAnswer(r) == answered' \in {answered, [answered EXCEPT ![r] = @ + 1]}

(* A request arrives that the user has the authority for.                  *)
Accept(r) ==
    /\ xmpp.pc = "idle"
    /\ asked[r] < MaxAsked[r]
    /\ asked' = [asked EXCEPT ![r] = @ + 1]
    /\ \/ /\ r.kind = "read"
          /\ xmpp' = At("look", r)
          /\ owed' = owed \cup {r}
          /\ UNCHANGED <<list, last, answered>>
       \/ /\ r.kind = "write"
          /\ xmpp' = At("write", r)
          /\ UNCHANGED <<list, last, answered, owed>>
       \/ /\ r.kind = "remote"
          /\ PushControlMesssageQueue(r)
          /\ UNCHANGED <<xmpp, answered>>
    /\ UNCHANGED <<values, line>>

(* Fault: only writes need the authority. *)
handleIq_Writes(r) ==
    \/ r \notin Allowed /\ r.kind = "write" /\ UNCHANGED vars
    \/ (r \in Allowed \/ r.kind = "read") /\ Accept(r)

(* Without the authority it is refused, with an answer or without, and     *)
(* nothing is left of it. A command to an air conditioner only enters the  *)
(* list.                                                                   *)
handleIq(r) ==
    \/ r \notin Allowed /\ UNCHANGED vars
    \/ r \in Allowed /\ Accept(r)

(* A fresh value is the answer.                                            *)
Look ==
    /\ xmpp.pc = "look"
    /\ \/ /\ fresh[xmpp.req.point] = "now"
          /\ answered' = [answered EXCEPT ![xmpp.req] = @ + 1]
          /\ owed' = owed \ {xmpp.req}
          /\ xmpp' = Idle
       \/ /\ fresh[xmpp.req.point] # "now"
          /\ xmpp' = At("check", xmpp.req)
          /\ UNCHANGED <<answered, owed>>
    /\ UNCHANGED <<list, last, values, line, asked>>

Check ==
    /\ xmpp.pc = "check"
    /\ LET same == CheckControlMesssageQueue(xmpp.req) IN
       /\ list' = (list \ same) \cup {[m EXCEPT !.late = FALSE] : m \in same}
       /\ xmpp' = At(IF same = {} THEN "push" ELSE "send", xmpp.req)
    /\ UNCHANGED <<last, values, line, clients>>

Push ==
    /\ xmpp.pc = "push"
    /\ PushControlMesssageQueue(xmpp.req)
    /\ xmpp' = At("send", xmpp.req)
    /\ UNCHANGED <<values, line, asked, answered>>

(* The read enters the queue of SerialMessage, once for all who wait.      *)
SendControl ==
    /\ xmpp.pc = "send"
    /\ LET p == xmpp.req.point IN
       /\ waiting' = waiting \cup {p}
       /\ list' = SetMissed(p, FALSE)
    /\ xmpp' = Idle
    /\ UNCHANGED <<last, values, onway, clients>>

(* A write makes the value an unknown one, until it is read twice; of a    *)
(* switch the value expected is stored at once. The write is acknowledged  *)
(* when it has entered the queue.                                          *)
Write ==
    /\ xmpp.pc = "write"
    /\ fresh' = [fresh EXCEPT ![xmpp.req.point] =
                    IF xmpp.req.point \in Switches THEN "now" ELSE "never"]
    /\ MayAnswer(xmpp.req)
    /\ xmpp' = IF xmpp.req.point \in AutoBack THEN At("back", xmpp.req) ELSE Idle
    /\ UNCHANGED <<list, last, jumps, arriving, line, asked, owed>>

(* The second write of a switch that goes back, stored like the first.     *)
Back ==
    /\ xmpp.pc = "back"
    /\ fresh' = [fresh EXCEPT ![xmpp.req.point] = "now"]
    /\ xmpp' = Idle
    /\ UNCHANGED <<list, last, jumps, arriving, line, clients>>

Handle == Look \/ Check \/ Push \/ SendControl \/ Write \/ Back

-----------------------------------------------------------------------------
(* The threads of the links.                                               *)

(* A read that brings no value: when no other is left, nobody answers the  *)
(* messages that wait.                                                     *)
Miss(p) ==
    IF p \in waiting' \/ onway'[p] > 0 \/ arriving[p] # "no" THEN UNCHANGED list
    ELSE list' = SetMissed(p, TRUE)

(* A read leaves the queue: it is sent, or it has expired.                 *)
Execute(p) ==
    /\ p \in waiting
    /\ waiting' = waiting \ {p}
    /\ \/ /\ onway[p] < MaxOnWay
          /\ onway' = [onway EXCEPT ![p] = @ + 1]
          /\ UNCHANGED list
       \/ /\ UNCHANGED onway
          /\ Miss(p)
    /\ UNCHANGED <<last, xmpp, values, clients>>

(* No answer comes, or none that belongs to the read.                      *)
Lose(p) ==
    /\ onway[p] > 0
    /\ onway' = [onway EXCEPT ![p] = @ - 1]
    /\ UNCHANGED waiting
    /\ Miss(p)
    /\ UNCHANGED <<last, xmpp, values, clients>>

(* OnDeviceData_ProcOne: a value arrives.                                  *)
OnDeviceData(p) ==
    /\ onway[p] > 0 /\ arriving[p] = "no"
    /\ onway' = [onway EXCEPT ![p] = @ - 1]
    /\ arriving' = [arriving EXCEPT ![p] = "judge"]
    /\ UNCHANGED <<list, last, xmpp, fresh, jumps, waiting, clients>>

(* Fault: a value that is not stored answers nobody. *)
Judge_Return(p) ==
    /\ arriving[p] = "judge"
    /\ \/ /\ fresh[p] = "never"
          /\ fresh' = [fresh EXCEPT ![p] = "first"]
          /\ arriving' = [arriving EXCEPT ![p] = "no"]
       \/ /\ fresh[p] # "never"
          /\ arriving' = [arriving EXCEPT ![p] = "store"]
          /\ UNCHANGED fresh
    /\ UNCHANGED <<list, last, xmpp, jumps, line, clients>>

(* SetCurValue locks nothing, its MutexGuard is a temporary: between the   *)
(* look at the old value and the new one a write may come. The first value *)
(* is not taken for a value, and a jump not before it comes a third time.  *)
Judge(p) ==
    /\ arriving[p] = "judge"
    /\ \/ /\ fresh[p] = "never"
          /\ fresh' = [fresh EXCEPT ![p] = "first"]
          /\ arriving' = [arriving EXCEPT ![p] = "pop"]
          /\ UNCHANGED jumps
       \/ /\ fresh[p] # "never" /\ jumps[p] <= 1
          /\ jumps' = [jumps EXCEPT ![p] = @ + 1]
          /\ arriving' = [arriving EXCEPT ![p] = "pop"]
          /\ UNCHANGED fresh
       \/ /\ fresh[p] # "never"
          /\ jumps' = [jumps EXCEPT ![p] = 0]
          /\ arriving' = [arriving EXCEPT ![p] = "store"]
          /\ UNCHANGED fresh
    /\ UNCHANGED <<list, last, xmpp, line, clients>>

Store(p) ==
    /\ arriving[p] = "store"
    /\ fresh' = [fresh EXCEPT ![p] = "now"]
    /\ arriving' = [arriving EXCEPT ![p] = "pop"]
    /\ UNCHANGED <<list, last, xmpp, jumps, line, clients>>

First(S) == CHOOSE m \in S : \A k \in S : m.n <= k.n

(* Fault: the message is answered and stays in the list. *)
Pop_Keep(p) ==
    /\ arriving[p] = "pop"
    /\ LET who == {m \in list : WaitsFor(m, p)} IN
       /\ who # {}
       /\ answered' = [answered EXCEPT ![First(who).req] = @ + 1]
       /\ Forget({First(who)})
    /\ UNCHANGED <<list, last, xmpp, values, line, asked>>

(* Every message that waits for the value is answered, one after the       *)
(* other, also with a value that was not stored.                           *)
PopControlMesssageQueue(p) ==
    /\ arriving[p] = "pop"
    /\ LET who == {m \in list : WaitsFor(m, p)} IN
       \/ /\ who # {}
          /\ list' = list \ {First(who)}
          /\ answered' = [answered EXCEPT ![First(who).req] = @ + 1]
          /\ Forget({First(who)})
          /\ UNCHANGED arriving
       \/ /\ who = {}
          /\ arriving' = [arriving EXCEPT ![p] = "no"]
          /\ UNCHANGED <<list, answered, owed>>
    /\ UNCHANGED <<last, xmpp, fresh, jumps, line, asked>>

LinkStep(p) ==
    \/ Execute(p) \/ Lose(p) \/ OnDeviceData(p)
    \/ Judge(p) \/ Store(p) \/ PopControlMesssageQueue(p)

-----------------------------------------------------------------------------
(* Time.                                                                   *)

(* A value is older than 1200 ms. *)
Age(p) ==
    /\ fresh[p] = "now"
    /\ fresh' = [fresh EXCEPT ![p] = "past"]
    /\ UNCHANGED <<list, last, xmpp, jumps, arriving, line, clients>>

(* A message is older than 20 s. *)
Late(n) ==
    /\ \E m \in list : m.n = n /\ ~m.late
    /\ list' = {[m EXCEPT !.late = @ \/ m.n = n] : m \in list}
    /\ UNCHANGED <<last, xmpp, values, line, clients>>

(* Fault: only reads are dropped. *)
OnTimer_Reads ==
    /\ LET gone == {m \in list : m.late /\ m.req.kind = "read"} IN
       /\ gone # {}
       /\ list' = list \ gone
       /\ Forget(gone)
    /\ UNCHANGED <<last, xmpp, values, line, asked, answered>>

(* The heartbeat drops what is overdue, without an answer.                 *)
OnTimer ==
    /\ LET gone == {m \in list : m.late} IN
       /\ gone # {}
       /\ list' = list \ gone
       /\ Forget(gone)
    /\ UNCHANGED <<last, xmpp, values, line, asked, answered>>

-----------------------------------------------------------------------------
Next ==
    \/ \E r \in Requests : handleIq(r)
    \/ Handle
    \/ \E p \in Points : LinkStep(p) \/ Age(p)
    \/ \E m \in list : Late(m.n)
    \/ OnTimer

Spec == Init /\ [][Next]_vars

(* The threads go on, the timer runs and times pass. That devices answer   *)
(* is not assumed.                                                         *)
Fairness ==
    /\ WF_vars(Handle)
    /\ \A p \in Points : WF_vars(LinkStep(p))
    /\ WF_vars(\E m \in list : Late(m.n))
    /\ WF_vars(OnTimer)

FairSpec == Spec /\ Fairness

-----------------------------------------------------------------------------
(* Type invariant; the thread and the list hold only requests whose users  *)
(* have the authority.                                                     *)
Messages == [req : Allowed, n : Nat, late : BOOLEAN, missed : BOOLEAN]

PCs == {"look", "check", "push", "send", "write", "back"}

TypeOK ==
    /\ list \subseteq Messages
    /\ last \in Nat
    /\ xmpp \in {Idle} \cup [pc : PCs, req : Allowed]
    /\ fresh \in [Points -> {"never", "first", "now", "past"}]
    /\ jumps \in [Points -> 0 .. 2]
    /\ arriving \in [Points -> {"no", "judge", "store", "pop"}]
    /\ waiting \subseteq Points
    /\ onway \in [Points -> 0 .. MaxOnWay]
    /\ asked \in [Requests -> Nat]
    /\ answered \in [Requests -> Nat]
    /\ owed \subseteq Allowed

Pending(r) == {m \in list : m.req = r}

(* A client that repeats a read, because it is slow, finds the message it  *)
(* left and does not leave a second.                                       *)
OnePending ==
    \A m, k \in list : m.req = k.req /\ m.req.kind = "read" => m = k

(* However many commands and reads nobody takes, the list is bounded.      *)
Bounded == Cardinality(list) <= Limit

(* A read is answered, or it waits for a value in the list, or the XMPP    *)
(* thread is at it, unless it was overdue or beyond the limit: no answer   *)
(* to another request, or another client, ends it.                         *)
Owed ==
    \A r \in owed : Pending(r) # {} \/ InHand(r)

(* A client gets no more answers than it asked: one that waits and is then *)
(* answered at once for a repetition is not answered for both twice.       *)
Open(r) == IF r.kind = "read" /\ Pending(r) # {} THEN 1 ELSE 0

AtMostAsked == \A r \in Requests : answered[r] + Open(r) <= asked[r]

(* Whoever waits for a value, waits for one that comes: the message is in  *)
(* the list before the read is in the queue, whose answer may come at once.*)
Coming(p) == p \in waiting \/ onway[p] > 0 \/ arriving[p] # "no"

ReadComing ==
    \A m \in list :
        m.req.kind = "read" /\ ~m.missed
        => Coming(m.req.point) \/ (xmpp.pc = "send" /\ xmpp.req = m.req)

(* A list at its limit drops old messages, never the one of the request    *)
(* that is just being sent.                                                *)
NewestKept ==
    [][xmpp.pc = "push" /\ xmpp'.pc = "send"
       => \E m \in list' : m.req = xmpp.req
                           /\ \A k \in list : k.n < m.n]_vars

(* No message stays for ever, though a device may not answer and nobody    *)
(* takes the commands of air conditioners out of the list.                 *)
ListDrains == []<>(list = {})
=============================================================================
