----------------------------- MODULE SerialLink -----------------------------
(***************************************************************************)
(* Messages to the devices behind a communication link: the queue shared   *)
(* by all links (SerialMessage, gsiot/src/SerialMessage.cpp), the read in  *)
(* execution of each link (CMsgCurCmd, gsiot/src/SerialDataBuffer.cpp),    *)
(* the decoding of replies (DeviceConnection::Decode_RS485Data) and what   *)
(* GSIOTClient makes of values and of missing replies.                     *)
(*                                                                         *)
(* A link is worked on by one thread at a time (CommLinkPool), so the      *)
(* thread appears as the turn of the link. A read asks a device for one    *)
(* register, or in a batch (addr = 0) for as many consecutive registers as *)
(* the device has addresses. A reply names the device but no register.     *)
(*                                                                         *)
(* Of the bytes on the line only reads that may still be answered are      *)
(* kept: nobody waits for the answer to a write.                           *)
(***************************************************************************)
EXTENDS Integers, Sequences, FiniteSets

CONSTANTS
    Links,
    Devices,
    Registers,   \* the addresses of each device, in ascending order
    Messages,    \* what threads ask DeviceConnection to send
    NoMsg,
    Polled,      \* the reads DataProc sends, some of Messages
    Mute,        \* devices that never answer
    Punctual,    \* a device answers before the overtime of a read or never
    Expiring,    \* messages that may wait longer than their queue overtime
    MaxQueue,    \* bound on the length of the queue
    MaxFlight,   \* bound: earlier reads than the last so many are not answered
    SmallCount,  \* Dev_RecvFailedCount, the second value
    MainCount    \* Dev_RecvFailedCount, the first value

MessageType ==
    [kind : {"read", "write", "raw"}, link : Links, dev : Devices, addr : Nat]

ASSUME SerialAssumption ==
    /\ Registers \in [Devices -> SUBSET (Nat \ {0})]
    /\ \A d \in Devices :
          IsFiniteSet(Registers[d])
          /\ \E a \in Registers[d] : \A b \in Registers[d] : a <= b
    /\ Messages \subseteq MessageType
    /\ \A m \in Messages : m.kind = "read" => m.addr \in Registers[m.dev] \cup {0}
    /\ NoMsg \notin Messages
    /\ Polled \subseteq {m \in Messages : m.kind = "read"}
    /\ Mute \subseteq Devices
    /\ Expiring \subseteq Messages
    /\ Punctual \in BOOLEAN
    /\ MaxQueue \in Nat /\ MaxFlight \in Nat \ {0}
    /\ SmallCount \in Nat /\ MainCount \in Nat /\ SmallCount <= MainCount

VARIABLES
    queue,    \* m_buffer_queue
    cur,      \* m_CurCmd of each link
    turn,     \* what the thread that works on the link is about to do
    open,     \* the link has a connection
    flight,   \* reads sent over the connection and not yet disposed of
    shown,    \* the register whose value is shown for an address, 0 for none
    known,    \* addresses that had a value before (m_lastUpdate # 0)
    useable,  \* m_NetUseable is defUseable_OK, not defUseable_ErrNoData
    failed,   \* m_failedCount, up to MainCount + 1
    silence   \* since m_lastSuccessTS: 0, 1, 2 for 10 s or less, more, over 50 s

linevars == <<turn, open, flight>>
devvars == <<shown, known, useable, failed, silence>>
vars == <<queue, cur, linevars, devvars>>

Points == UNION {{d} \X Registers[d] : d \in Devices}

(* The addresses a read asks for. *)
Targets(m) ==
    IF m.kind # "read" THEN {}
    ELSE {m.dev} \X (IF m.addr # 0 THEN {m.addr} ELSE Registers[m.dev])

(* A message is queued with a copy of what it is about: the values as they *)
(* are then.                                                               *)
Entry(m) ==
    [msg |-> m,
     was |-> [p \in Points |-> IF p \in Targets(m) THEN shown[p] ELSE 0],
     late |-> FALSE]

Nothing == [msg |-> NoMsg, was |-> [p \in Points |-> 0], late |-> FALSE]
Resting == [pc |-> "idle", entry |-> Nothing]
Receiving == [pc |-> "receive", entry |-> Nothing]

Init ==
    /\ queue = <<>>
    /\ cur = [l \in Links |-> Nothing]
    /\ turn = [l \in Links |-> Resting]
    /\ open = [l \in Links |-> FALSE]
    /\ flight = [l \in Links |-> <<>>]
    /\ shown = [p \in Points |-> 0]
    /\ known = {}
    /\ useable = [d \in Devices |-> TRUE]
    /\ failed = [d \in Devices |-> 0]
    /\ silence = [d \in Devices |-> 0]

-----------------------------------------------------------------------------
(* The entries of the queue at these positions, in their order.            *)
Nth(S, k) == CHOOSE i \in S : Cardinality({j \in S : j <= i}) = k

Keep(S) == [k \in 1 .. Cardinality(S) |-> queue[Nth(S, k)]]

IsFirst(i, S) == i \in S /\ \A j \in S : i <= j

(* Fault: a message that is overdue is not looked for. *)
SameAs_OnTime(m) ==
    {i \in DOMAIN queue : m.kind # "raw" /\ queue[i].msg = m /\ ~queue[i].late}

(* IsSame, never true of messages without a control object. *)
SameAs(m) == {i \in DOMAIN queue : m.kind # "raw" /\ queue[i].msg = m}

(* doMessage: a message that waits already only starts its time anew. *)
doMessage(m) ==
    /\ \/ \E i \in DOMAIN queue :
             /\ IsFirst(i, SameAs(m))
             /\ queue' = [queue EXCEPT ![i].late = FALSE]
       \/ /\ SameAs(m) = {}
          /\ Len(queue) < MaxQueue
          /\ queue' = Append(queue, Entry(m))
    /\ UNCHANGED <<cur, linevars, devvars>>

(* Check, called by the timer, drops the overdue messages. *)
OnTime == {i \in DOMAIN queue : ~queue[i].late}

Check ==
    /\ OnTime # DOMAIN queue
    /\ queue' = Keep(OnTime)
    /\ UNCHANGED <<cur, linevars, devvars>>

-----------------------------------------------------------------------------
(* A round of the thread that works on the link: onTimer takes a message   *)
(* and sends it, RecvData and OnDataReceived dispose of replies.           *)

IsRead(m) == m.kind = "read"

(* Faults: a read only waits for the same read, or waits without end. *)
Is_CurCmd_SameOnly(l, m) == IsRead(m) /\ cur[l].msg = m /\ ~cur[l].late
Is_CurCmd_NoOvertime(l, m) == IsRead(m) /\ cur[l].msg # NoMsg

(* Is_CurCmd: a read waits for the one in execution until its overtime. *)
Is_CurCmd(l, m) == IsRead(m) /\ cur[l].msg # NoMsg /\ ~cur[l].late

(* Fault: only the first message of the queue is looked at. *)
Sendable_HeadOnly(l) ==
    {i \in OnTime \cap {1} :
        open[l] /\ queue[i].msg.link = l /\ ~Is_CurCmd(l, queue[i].msg)}

Sendable(l) ==
    {i \in OnTime : open[l] /\ queue[i].msg.link = l /\ ~Is_CurCmd(l, queue[i].msg)}

(* check_NetUseable_RecvFailed: a read of one register that was not        *)
(* answered counts as a failure of its device.                             *)
IsTooMuch(count, time) == \/ count > MainCount /\ time > 0
                          \/ count > SmallCount /\ time > 1

OnTimeOverForCmdRecv(m) ==
    IF m.addr # 0 /\ useable[m.dev]
    THEN LET count == IF failed[m.dev] > MainCount THEN failed[m.dev]
                      ELSE failed[m.dev] + 1 IN
         /\ failed' = [failed EXCEPT ![m.dev] = count]
         /\ useable' = [useable EXCEPT ![m.dev] = ~IsTooMuch(count, silence[m.dev])]
    ELSE UNCHANGED <<failed, useable>>

(* Fault: the failure is not reported. *)
GiveUp_Unreported(l, m) ==
    /\ IF IsRead(m) /\ cur[l].msg # NoMsg THEN cur' = [cur EXCEPT ![l] = Nothing]
       ELSE UNCHANGED cur
    /\ UNCHANGED <<failed, useable>>

(* Is_CurCmd gives up the read in execution when another one is due. *)
GiveUp(l, m) ==
    IF IsRead(m) /\ cur[l].msg # NoMsg
    THEN /\ cur' = [cur EXCEPT ![l] = Nothing]
         /\ OnTimeOverForCmdRecv(cur[l].msg)
    ELSE UNCHANGED <<cur, failed, useable>>

(* The scan drops the overdue messages it passes, of any link. *)
onTimer(l) ==
    /\ turn[l].pc = "idle"
    /\ \/ /\ Sendable(l) = {}
          /\ queue' = Keep(OnTime)
          /\ turn' = [turn EXCEPT ![l] = Receiving]
          /\ UNCHANGED <<cur, failed, useable>>
       \/ \E i \in DOMAIN queue :
          /\ IsFirst(i, Sendable(l))
          /\ queue' = Keep({j \in DOMAIN queue : (j < i => j \in OnTime) /\ j # i})
          /\ turn' = [turn EXCEPT ![l] = [pc |-> "send", entry |-> queue[i]]]
          /\ GiveUp(l, queue[i].msg)
    /\ UNCHANGED <<open, flight, shown, known, silence>>

(* Fault: every message becomes the one in execution. *)
Set_CurCmd_Any(l, entry) == cur' = [cur EXCEPT ![l] = entry]

(* Set_CurCmd starts the time of the read, then SendData sends it, which   *)
(* closes the link when it cannot write.                                   *)
Set_CurCmd(l, entry) ==
    IF IsRead(entry.msg) THEN cur' = [cur EXCEPT ![l] = [entry EXCEPT !.late = FALSE]]
    ELSE UNCHANGED cur

Closing(l) ==
    /\ open' = [open EXCEPT ![l] = FALSE]
    /\ flight' = [flight EXCEPT ![l] = <<>>]

Sent(s, m) ==
    LET line == Append(s, [msg |-> m, answer |-> "none", old |-> FALSE]) IN
    IF Len(line) > MaxFlight THEN Tail(line) ELSE line

SendData(l) ==
    /\ turn[l].pc = "send"
    /\ LET m == turn[l].entry.msg IN
       /\ Set_CurCmd(l, turn[l].entry)
       /\ \/ /\ open[l]
             /\ flight' = IF IsRead(m) THEN [flight EXCEPT ![l] = Sent(@, m)]
                          ELSE flight
             /\ UNCHANGED open
          \/ Closing(l)
    /\ turn' = [turn EXCEPT ![l] = Receiving]
    /\ UNCHANGED <<queue, devvars>>

(* The registers a read asks for start here, and are so many. *)
FirstOf(m) ==
    IF m.addr # 0 THEN m.addr
    ELSE CHOOSE a \in Registers[m.dev] : \A b \in Registers[m.dev] : a <= b

CountOf(m) == IF m.addr # 0 THEN 1 ELSE Cardinality(Registers[m.dev])

(* Fault: the values go to the addresses of the device in their order. *)
RegisterFor_InOrder(p, read, reply) ==
    LET before == {q \in Targets(read.msg) : q[2] < p[2]} IN
    IF reply.answer = "value" /\ Cardinality(before) < CountOf(reply.msg)
    THEN FirstOf(reply.msg) + Cardinality(before)
    ELSE read.was[p]

(* EncodeAddressNum: the values of a reply get the numbers from the first  *)
(* register of the read in execution on. An address the reply does not     *)
(* reach has the value of the copy the read was queued with.               *)
RegisterFor(p, read, reply) ==
    IF reply.answer = "value" /\ p[2] < FirstOf(read.msg) + CountOf(reply.msg)
    THEN FirstOf(reply.msg) + (p[2] - FirstOf(read.msg))
    ELSE read.was[p]

(* OnDeviceData: the addresses in taken accept the value; a value that     *)
(* jumps may be doubted, and the first one of an address never counts as   *)
(* a sign of life.                                                         *)
OnDeviceData(read, reply) ==
    \E taken \in SUBSET Targets(read.msg) :
       /\ Targets(read.msg) \ known \subseteq taken
       /\ shown' = [p \in Points |-> IF p \in taken THEN RegisterFor(p, read, reply)
                                     ELSE shown[p]]
       /\ known' = known \cup taken
       /\ IF taken \cap known # {}
          THEN /\ useable' = [useable EXCEPT ![read.msg.dev] = TRUE]
               /\ failed' = [failed EXCEPT ![read.msg.dev] = 0]
               /\ silence' = [silence EXCEPT ![read.msg.dev] = 0]
          ELSE UNCHANGED <<useable, failed, silence>>

(* Fault: the read in execution stays. *)
Decode_RS485Data_Keeps(l, reply) ==
    /\ UNCHANGED cur
    /\ IF cur[l].msg # NoMsg /\ cur[l].msg.dev = reply.msg.dev
       THEN OnDeviceData(cur[l], reply)
       ELSE UNCHANGED devvars

(* Decode_RS485Data: any reply to a read ends the one in execution, a      *)
(* reply of the same device is its result, unless a value is out of range. *)
Decode_RS485Data(l, reply) ==
    /\ cur' = [cur EXCEPT ![l] = Nothing]
    /\ IF cur[l].msg # NoMsg /\ cur[l].msg.dev = reply.msg.dev
       THEN \/ OnDeviceData(cur[l], reply)
            \/ reply.answer = "value" /\ UNCHANGED devvars
       ELSE UNCHANGED devvars

Receive(l) ==
    /\ turn[l].pc = "receive"
    /\ flight[l] # <<>>
    /\ Head(flight[l]).answer # "none"
    /\ flight' = [flight EXCEPT ![l] = Tail(@)]
    /\ Decode_RS485Data(l, Head(flight[l]))
    /\ UNCHANGED <<queue, turn, open>>

(* A round ends when RecvData has read all that arrived. *)
EndOfRound(l) ==
    /\ turn[l].pc = "receive"
    /\ \A i \in DOMAIN flight[l] : flight[l][i].answer = "none"
    /\ turn' = [turn EXCEPT ![l] = Resting]
    /\ UNCHANGED <<queue, cur, open, flight, devvars>>

(* The connection is opened before a round, and lost or closed in one;     *)
(* the read in execution stays.                                            *)
Open(l) ==
    /\ turn[l].pc = "idle"
    /\ ~open[l]
    /\ open' = [open EXCEPT ![l] = TRUE]
    /\ UNCHANGED <<queue, cur, turn, flight, devvars>>

Close(l) ==
    /\ turn[l].pc # "send"
    /\ open[l]
    /\ Closing(l)
    /\ UNCHANGED <<queue, cur, turn, devvars>>

LinkStep(l) == onTimer(l) \/ SendData(l) \/ Receive(l) \/ EndOfRound(l)

-----------------------------------------------------------------------------
(* The devices, and the bytes on the way.                                  *)

Unanswered(l) == {i \in DOMAIN flight[l] : flight[l][i].answer = "none"}

Answer(l) ==
    /\ \E i \in DOMAIN flight[l], answer \in {"value", "error"} :
          /\ IsFirst(i, Unanswered(l))
          /\ flight[l][i].msg.dev \notin Mute
          /\ flight' = [flight EXCEPT ![l][i].answer = answer]
    /\ UNCHANGED <<queue, cur, turn, open, devvars>>

Without(s, i) == [j \in 1 .. Len(s) - 1 |-> IF j < i THEN s[j] ELSE s[j + 1]]

Lose(l) ==
    /\ \E i \in DOMAIN flight[l] : flight' = [flight EXCEPT ![l] = Without(@, i)]
    /\ UNCHANGED <<queue, cur, turn, open, devvars>>

(* Time: a message is overdue in the queue, a read exceeds its overtime,   *)
(* which it does as the read in execution once it has on the line.         *)
QueueLate ==
    /\ \E i \in OnTime : /\ queue[i].msg \in Expiring
                          /\ queue' = [queue EXCEPT ![i].late = TRUE]
    /\ UNCHANGED <<cur, linevars, devvars>>

Age(l) ==
    /\ ~Punctual
    /\ \E i \in DOMAIN flight[l] :
          /\ IsFirst(i, {j \in DOMAIN flight[l] : ~flight[l][j].old})
          /\ flight' = [flight EXCEPT ![l][i].old = TRUE]
    /\ UNCHANGED <<queue, cur, turn, open, devvars>>

CurLate(l) ==
    /\ cur[l].msg # NoMsg /\ ~cur[l].late
    /\ \A i \in DOMAIN flight[l] : flight[l][i].old
    /\ cur' = [cur EXCEPT ![l].late = TRUE]
    /\ UNCHANGED <<queue, linevars, devvars>>

Silent(d) ==
    /\ silence[d] < 2
    /\ silence' = [silence EXCEPT ![d] = @ + 1]
    /\ UNCHANGED <<queue, cur, linevars, shown, known, useable, failed>>

-----------------------------------------------------------------------------
Next ==
    \/ \E m \in Messages : doMessage(m)
    \/ Check \/ QueueLate
    \/ \E l \in Links : \/ LinkStep(l) \/ Open(l) \/ Close(l)
                        \/ Answer(l) \/ Lose(l) \/ Age(l) \/ CurLate(l)
    \/ \E d \in Devices : Silent(d)

Spec == Init /\ [][Next]_vars

(* The threads go on working, reads do not stay on the line and times pass. *)
(* DataProc sends the reads in Polled again and again; a message that       *)
(* waits already and is not overdue is not changed by that.                 *)
Fairness ==
    /\ \A l \in Links : /\ WF_vars(LinkStep(l))
                       /\ WF_vars(Lose(l))
                       /\ WF_vars(CurLate(l))
    /\ \A d \in Devices : WF_vars(Silent(d))
    /\ \A m \in Polled : WF_vars(doMessage(m))

FairSpec == Spec /\ Fairness

-----------------------------------------------------------------------------
(* Type invariant: entries are messages with a copy of the values they ask *)
(* for, counters keep within their bounds.                                 *)
Entries == [msg : Messages, was : [Points -> Nat], late : BOOLEAN]

Reads == {m \in Messages : IsRead(m)}

ReadEntries == {e \in Entries : e.msg \in Reads}

Turns == [pc : {"idle", "receive"}, entry : {Nothing}]
         \cup [pc : {"send"}, entry : Entries]

Flights == [msg : Reads, answer : {"none", "value", "error"}, old : BOOLEAN]

TypeOK ==
    /\ queue \in Seq(Entries)
    /\ cur \in [Links -> ReadEntries \cup {Nothing}]
    /\ turn \in [Links -> Turns]
    /\ open \in [Links -> BOOLEAN]
    /\ flight \in [Links -> Seq(Flights)]
    /\ shown \in [Points -> Nat]
    /\ known \subseteq Points
    /\ useable \in [Devices -> BOOLEAN]
    /\ failed \in [Devices -> 0 .. MainCount + 1]
    /\ silence \in [Devices -> 0 .. 2]

(* A thread that polls faster than a link carries the reads does not fill  *)
(* the queue: a message of a control object waits at most once.            *)
WaitsOnce ==
    \A i, j \in DOMAIN queue :
        queue[i].msg = queue[j].msg /\ queue[i].msg.kind # "raw" => i = j

(* At most one read of a link is in execution: sent, and neither answered, *)
(* lost nor older than its overtime (SerialDataBuffer.cpp, Is_CurCmd).     *)
Executing(l) == {i \in DOMAIN flight[l] : ~flight[l][i].old}

OneReadExecuting ==
    \A l \in Links : \A i, j \in Executing(l) : i = j

(* The value shown for an address is one of its own register, though a     *)
(* reply names no register and reads of other registers, batch reads and   *)
(* lost replies come in between.                                           *)
Attribution == \A p \in Points : shown[p] \in {0, p[2]}

(* Where devices answer in time, the link reads as ReadService promises.   *)
Service == INSTANCE ReadService
               WITH asked <- [l \in Links |-> cur[l].msg], shown <- shown,
                    Reads <- Reads, Asks <- Targets

ReadsInTurn == Service!Spec

Waits(m) == \E i \in DOMAIN queue : queue[i].msg = m

(* No message is held back for ever by a link that is connected, not by a  *)
(* silent device either, whose reads it waits for: the one in execution is *)
(* given up when it is overdue.                                            *)
QueueMoves ==
    \A m \in Messages :
        m.kind # "raw" => []<>(~Waits(m) \/ ~open[m.link])

(* A device that never answers and whose addresses are polled one by one   *)
(* is found unreachable, if the link stays connected and the reads do not  *)
(* expire in the queue.                                                    *)
SilenceNoticed ==
    \A m \in Polled :
        m.addr # 0 /\ m.dev \in Mute /\ m \notin Expiring
        => (<>(~useable[m.dev]) \/ []<>(~open[m.link]))
=============================================================================
