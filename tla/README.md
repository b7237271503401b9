# A verification project for the ar9331 IoT gateway

The repository holds the software of a home gateway: a Linux router board that
reads and switches devices behind RS485 lines, CAN and a radio board, and that
reports to and takes orders from XMPP users. This directory holds TLA+ modules
that model its core, TLC configurations that check them on small instances, and
proofs that hold for every instance.

| module | what it is |
|---|---|
| `LinkOwnership` | abstract: a link has at most one owner; only the owner opens it, only the owner or its retirement closes it |
| `CommLinkPool` | the communication links, the threads that work on them, the address table, the configuration calls |
| `ReadService` | abstract: on each link one read is asked at a time, and only its end changes the values it asked for |
| `SerialLink` | the message queue, the read in execution, replies and the reachability of devices |
| `RequestPromise` | abstract: only open requests are answered; a read stays owed until it is answered or given up |
| `Requests` | the requests of XMPP clients to devices, the list of control messages and the answers to it |
| `DataStore` | samples, their buffer, the monthly databases and their statistics |
| `AlarmGuard` | triggers, alarms and their events, what is armed, and the saving of both |
| `CommLinkPool_proofs`, `CommLinkPool_turns`, `CommLinkPool_refines`, `SerialLink_proofs`, `Requests_proofs`, `Requests_refines`, `DataStore_proofs`, `AlarmGuard_proofs` | proofs about the module of that name |
| `MCCommLinkPool`, `MCSerialLink`, `MCRequests`, `MCDataStore`, `MCAlarmGuard` | values for TLC |

Checking one run and one proof module:

    tlc -workers 2 -config SerialSafety.cfg MCSerialLink
    tlapm SerialLink_proofs.tla

## Inventory

Paths are below `src/`. The gateway program is `gsiot/src`; `gsbox/src` is a
second program, a daemon that bridges TCP clients to a serial board; `lzrt/src`
is an older C version of that daemon, `gloox/src/libiot` an older copy of the
device code, `cpp-demo` a toy. gloox (XMPP) and SQLite are libraries.

### Threads of the gateway

`CommLink_Thread` (several, they work on links), `SerialPort_Thread` (the local
port), `DataProc_Thread` (polls devices, saves data), `Timer_Thread` and the main
thread, which runs the XMPP client and its callbacks. `AlarmProc_Thread` is no
longer started.

### Components

**Link manager and worker threads** (`CommLinkManager`, `CommLink`,
`DeviceConnection.cpp` up to line 330). State: the lists of configurations and of
run objects (`m_CfgList`, `m_RunList`), the list of deleted ones, and per run
object its socket, configuration copy, timers and the flags `m_lockProc`,
`m_lockInfoUse`. Operations: `Run_Proc_Get/Release` by workers,
`Run_Info_Get/Release` by threads that look at a link, `Cfg_Add`, `Cfg_Modify`,
`Cfg_Delete`, `Run_Reconnect`. Hard: a run object is used without a mutex while
it is handed out; deletion is deferred; `Cfg_Modify` writes a configuration that a
scan may be reading; many links share few threads, only some of which connect.
Correct when: one thread at a time works on a link, nothing in use is deleted,
every enabled link is served, a configured change is finally obeyed.

**Address table** (`NetMan`, `NetModule`, `NetTcpClient`). State: the map from
ip:port to client. Operations: `CreateClient`, `CloseClient`, `GetClient`. Hard:
the look-up and the insertion are separate critical sections around a connect
that takes seconds. Correct when: a listed address belongs to a live connection.

**RS485 request pipeline** (`SerialMessage`, `SerialDataBuffer`,
`DeviceConnection.cpp`, `RS485DevControl`, `GSIOTClient::OnDeviceData` and
`OnTimeOverForCmdRecv`). State: one queue for all links, the read in execution of
each link (`CMsgCurCmd`), values and failure counters of devices. Operations:
`doMessage`, `Check`, `onTimer`, `Set_CurCmd`, `Get_CurCmd`, decoding. Hard: a
reply names a device but no register, so it is attributed by what is in
execution; overtimes; silent devices; one queue for links that are open and
closed. Correct when: a value belongs to the address it is shown for, no message
is held back for ever, the queue does not grow, an unreachable device is noticed.

**Frame parser and radio decoders** (`DeviceConnection::OnDataReceived`,
`RFSignalDefine`, `RFDevice*`, `RFRemoteControl`, `RemoteButton*`,
`CANDeviceControl`). State: the receive buffer of a link, the radio device table.
Correct when: a frame split over reads or behind noise is still found.

**Modbus encoding and batch reads** (`ModbusProc`, `RS485DevControl`,
`DeviceAddress`). Pure functions and the plausibility filter of values.

**XMPP client and requests** (`GSIOTClient`, `ControlMessage`, `XmppGSMessage`).
State: the connection, the list of control messages with its bound, the reads in
it that wait for a device's answer. Operations: `handleIq`, the list's push, check
and pop, the heartbeat that drops what is overdue. Hard: one thread leaves
requests in the list, several others answer them and a timer drops them, and none
holds a lock longer than it looks at the list. Correct when: a request is answered
at most as often as it was sent, waits only for an answer that may still come, and
is lost only to the overtime or the limit.

**XMPP stanza extensions** (`XmppGS*`): parsing and printing, no state.

**Sampling and storage** (`DataStoreMgr`, `DeviceAddress`, `Database`, `Statement`,
`Transaction`, `SQLiteHelper`). State: for each address the time of its value and
of its last sample; the buffer of samples; a database file for each month, with
samples, statistics of days and of the month, and marks that they are complete.
Operations: `OnDeviceData_ProcOne` takes samples, `DataSave` writes them in
batches, `CheckStat` at night and reports at any time make statistics,
`CheckCreateDB` creates and removes files. Hard: samples of yesterday and last
month wait when the date changes; two threads write over one connection; the
process may end between any two steps. Correct when: a sample is in the database
of its month, statistics marked as complete count all samples, and nothing that
reports still use is removed.

**Triggers, alarm guard and events** (`TriggerControl`, `GSIOTEvent`,
`ControlEvent`, `AutoCall/AutoControl/AutoNotice/AutoSendSMS/AutoEventthing`,
`GSIOTClient::DoAlarmDevice`). State: counters and times of triggers, the list of
events, what is armed, each also in the database. Operations: counting signals,
alarms and their events, arming and disarming, adding, editing and deleting events
and triggers. Hard: times are modulo 2^32 and 0 means never; events of an alarm
change what decides about them; the XMPP thread changes the list while alarms go
through it; memory and database change one after the other. Correct when: alarms
are an interval apart, each takes signals of its own, an alarm is decided once, and
a restart finds what was armed and listed.

**Device and address management, users and authority** (`DeviceManager`,
`GSIOTDevice*`, `AddressManager`, `EditAttrMgr`, `PresetManager`, `VObjClass`,
`GSIOTControl`; `GSIOTUser*`): lists of devices, addresses, presets and users;
devices are added and deleted while other threads iterate over them; users have
rights per device, with entries that stand for all devices.

**Timers and supervision** (`TimerManager`, `HeartbeatMon`, `GSIOTHeartbeat`):
timers are registered and fire in one thread. `HeartbeatMon` would notice threads
that no longer report, but nothing in this repository calls `hbmon_Init`.

**Run codes and configuration** (`RunCode`, `GSIOTConfig`, `DBUpdate`): parameters.
**Serial port** (`rs232`): its receiving half is disabled in this repository.

**Board bridge daemon** (`gsbox/src`): an event loop with TCP clients, a serial
board, discovery by UDP, reassembly of packets; a radio network with slots
(`radionetwork.cpp`), which the daemon does not instantiate.

## Plan

1. *Done.* `LinkOwnership`, `CommLinkPool`; safety, the order of turns and the
   refinement proved.
2. *Done.* `ReadService`, `SerialLink`; type invariant, queue invariant, reads in
   turn, attribution and refinement proved.
3. *Done.* `RequestPromise`, `Requests`; all its safety properties and the
   refinement proved.
4. *Done.* `DataStore`; all its properties proved.
5. *Done.* `AlarmGuard`; all its properties proved.

What the project leaves out, and why, is under [Not modelled](#not-modelled).

## CommLinkPool

### Correspondence

| model | code |
|---|---|
| `cfg`, `listed` | `m_CfgList`, also objects waiting to be deleted |
| `run[l]` | `CCommLinkRun_TCP`: enabled, address and flags as last copied by `check_cfg`; `conn`/`dead` the socket; `procLock`, `infoLock` |
| `runList`, `deleteList`, `worked` | `m_RunList`, `m_DeleteList`, the order of `m_lastWork` |
| `clients` | `CNetMan::m_mapClientInfo` |
| `worker[w]` | where a `CommLink_Thread` stands in its loop and the link it holds |
| `watcher[u]` | the link a thread holds between `Run_Info_Get` and `Run_Info_Release` |
| `ui` | progress of the one thread that configures links |

`Run_Proc_Get` is one action: it runs under `m_mutex_CommLinkMgr`, deletes at
most one object, calls `check_cfg` on the links it passes and picks the least
recently worked link this thread may take. `Prepare` closes links that are
disabled, timed out or asked to reconnect; `StartOpen` and `FinishOpen` bracket
the blocking connect; `Transfer` is the exchange of data; `Run_Proc_Release` gives
the link back. `Cfg_Modify` and `RefreshCfgTs` are two steps because the fields
are assigned without the mutex; a scan in between (`Views`) reads each field old or
new, and the address twice. The assignment also copies the time stamp of the caller,
and the old one is put back after it, so that such a scan may or may not see a
change. `Cfg_Delete`, `Run_Remove` and `PushDeleted` are the three
critical sections of a deletion.

Time is abstracted to facts that it makes true: a link is silent, a link has
rested since its last attempt, the program is no longer young.

### Runs

| run | instance | shows |
|---|---|---|
| `PoolSafety` | 1 stored link and 1 that can be added, 2 workers of which 1 connects, 1 watcher, 2 configuration calls; the stored link has a heartbeat, so that a receive timeout closes its connection, too; 710162 states | `TypeOK`, `ExclusiveWork`, `NoUseAfterDelete`, `NoDoubleDelete`, `ConnMatchesCfg`, `AddressTable`, and that `LinkOwnership` is implemented |
| `PoolLiveness` | 2 links, 2 workers, 1 configuration call; 40744 states | `Served`, `DisabledCloses`, `ReconnectHonoured`, `DeletedFreed` |
| `PoolHeartbeat` | 2 links with a heartbeat, both workers connect | `DeadLinkClosed`, `Served` |
| `PoolInfoAssert` | 2 watchers | a violation, see Findings |

Two links make the order of service and the address table matter, two workers
make double hand-out possible, and one worker that may not connect makes the
hand-over of reconnections matter. Two configuration calls cover each call
followed by each other one (delete then add with the same address, modify then
delete); the bound is `MaxEdits`.

`ConnMatchesCfg` names its exception: if `check_cfg` overlaps `Cfg_Modify` it can
copy the new address after it compared the old one, and the connection to the old
address stays until it ends for another reason (`torn`).

Fairness: each worker goes on with its loop (it never blocks for ever: sockets
are polled, connects time out), a look at a link and a configuration call end, and
time passes. Not assumed: that a connect succeeds or that a peer stays alive.

### Assumptions and omissions

One thread calls the configuration interface; its calls have no caller left in
this repository (the user interface was removed), the operations are modelled as
the interface allows them. The configuration a caller hands to `Cfg_Modify` is a new
one or a copy: its time stamp (`lastCfgTs`) is not ahead of the stored one, so that
`refreshCfgTs` always leaves a stamp no check has seen. Ids are not reused. A call is refused when it would give
two links one address, as `Cfg_CheckExist` demands; the database may hold two equal
ones, and then the two critical sections of `CreateClient` collide, which is listed
as a hazard. The type of heartbeat is fixed per link. Not modelled: shutdown (`UnInit`), relations between
links, display states, wrap-around of clocks. `DeadLinkClosed` is checked where
all threads connect: a thread that may not connect can take a timed-out link
because it still counts as open, and pass it on unchanged.

### Proofs

`CommLinkPool_proofs` proves `IInv`, the conjunction of `TypeOK`, `ExclusiveWork`,
`Placed` (an object is in one list at most), `HeldLinks` (threads hold existing
links), `Opening` (a link being opened is closed and held by a connecting
thread), `Configured` and `AddressTable`. `ExclusiveWork` alone is not inductive:
that a deleted object is not worked on depends on where objects are, and the
address table on a link being closed before it is opened. From it follow
`TypeCorrect`, `WorkIsExclusive`, `DeletedOnce`, `TableIsCurrent`, and
`NothingUsedIsDeleted` and `AssertionHoldsForOne`, which assume at most one watcher:
with two the flag `m_lockInfoUse` does not protect the second, as `PoolInfoAssert`
shows.

`ConnMatchesCfg` is proved from `Following` (`ConnectionFollows`). A new address
reaches a connection in two steps, from the configuration to the run object and from
there to the socket; `Following` says for each of them that it is done or that the
object knows it is to come, and unlike `ConnMatchesCfg` it also speaks of closed
links, whose next connection will be to the address they have. With
`AddressesApart`, that the configured addresses differ (also from one that is being
written), it gives `SettledLinksDiffer`: if the database has no address twice, two
links are connected to the same address only when one of them is being deleted or a
change of its configuration is still on its way. Without that exception it is false:
delete a link that is connecting, give its address to another one that connects at
once, and both pass the look-up of `CreateClient` before either is in the table.

`CommLinkPool_turns` proves what keeps `Served` from failing for a reason other than
fairness. `Ahead(k, l)` says that the scan prefers `k` to `l`; it is a strict order of
the links at any time (`OrderIsStrict`). As long as nobody takes a link it stays
ahead of every other one it is ahead of, whatever any thread does (`PlacesAreKept`);
a link that is added counts as one never worked on from the beginning. The link a
thread takes is ahead of every other one it could have taken and whose configuration
is not changing, and is behind all others afterwards (`NoOvertaking`). That a
link which waits is therefore taken in the end needs the fairness of the threads and
stays with TLC.

`CommLinkPool_refines` proves that every step is a step of `LinkOwnership` or
stutters (`PoolImplementsOwnership`).

Only model-checked: the liveness properties.

## SerialLink

### Correspondence

| model | code |
|---|---|
| `queue` | `SerialMessage::m_buffer_queue`; an entry has the copy of the device made when it was queued (`was`) and whether it is overdue |
| `cur[l]` | `CMsgCurCmd` of the link: the read in execution, and whether it is overdue |
| `turn[l]` | the one thread that works on the link: between rounds, about to send, receiving |
| `flight[l]` | reads sent over this connection that may still be answered |
| `shown`, `known` | the value of each address, as the register it came from (0 for none), and whether it ever had one |
| `useable`, `failed`, `silence` | `m_NetUseable`, `m_failedCount`, time since `m_lastSuccessTS` in the classes the code tells apart (10 s, 50 s) |

`doMessage` queues a message or renews the time of the same one; `Check` is the
timer that drops overdue ones. `onTimer` is the locked scan: it drops overdue
messages it passes, skips messages of other or closed links and reads that wait
for the one in execution, takes the first other one and, if that is a read, gives
up the overdue read in execution, which counts as a failure of its device.
`SendData` sets the read in execution and then sends. `Receive` is
`OnDataReceived` with `Decode_RS485Data`: any reply ends the read in execution;
one of the same device is its result. `OnDeviceData` numbers the values of a
reply from the first register of the read in execution on, and gives addresses
the reply does not reach the value of the copy. `Open`, `Close`, `Answer`,
`Lose`, `Age`, `QueueLate`, `CurLate`, `Silent` are the link manager, the line,
the devices and time.

`Punctual` says that a device answers within the overtime of a read or never.
The code relies on it: it cannot tell the reply to an earlier read from the
expected one. The properties that need it say so, and `SerialLateAnswers` shows
what happens without it.

### Runs

| run | instance | shows |
|---|---|---|
| `SerialSafety` | a device with registers 3, 4, 6; a batch read, a single read, a write; everything may expire; punctual; 211528 states | `TypeOK`, `WaitsOnce`, `OneReadExecuting`, `Attribution`, and that `ReadService` is implemented |
| `SerialLiveness` | a silent and an answering device on one link; punctual; 137520 states | `QueueMoves`, `SilenceNoticed` |
| `SerialTwoLinks` | two links, a read on one and a raw message on the other, late answers; 296270 states | `QueueMoves` |
| `SerialLateAnswers` | two devices, late answers | a violation, see Findings |

The gap before register 6 makes a batch read (registers 3, 4, 5) answer with a
value that no address may get and leave one address out. Two queue places with
three messages make the queue full while others wait; the queue of the code is
bounded by expiry only, and the bound `MaxQueue` refuses further messages rather
than dropping any. `MaxFlight` = 2: replies to reads older than the last two are
not modelled. The failure limits 3 and 9 of the code are scaled down
(`SmallCount`, `MainCount`); only their order matters. `SerialLiveness` lets only
the answering device's message expire, so that the silent device's read is sent.

Fairness: threads go on with their rounds, time passes (`Silent`, `CurLate`), no
read stays on the line for ever (`Lose`: it is at some time too late to be
answered), and `DataProc` polls. Not assumed: that devices answer, that links open
or stay open, that messages expire.

`SilenceNoticed` needs two conditions the code does not enforce. The other
devices of the link answer in time, because the late answer of one ends the
silent device's read before it is overdue, without counting it. And the device
is polled one address at a time: failures of batch reads are never counted
(`OnTimeOverForCmdRecv` ignores address 0).

### Omissions

The local serial port (it receives nothing in this repository), the pauses
between messages (`nextInterval`), the state of modules (`IsDisableModule`), the
debug view, radio and board messages except as `raw` ones, and the content of
values beyond the register they come from. So `Attribution` does not say that a value
is new: an error reply stores the old value as a new sample (listed as a hazard
that no property covers). Writes are merged like reads
(`on, off, on` in one round is sent as `on, off`); no text says otherwise, so it
is a hazard without a property.

### Proofs

`SerialLink_proofs` proves for all links, devices and messages:

* `TypeCorrect` and `NothingWaitsTwice`, without conditions. The scans keep a
  sub-sequence of the queue (`Keep`), defined by the rank of positions; `KeepSome`
  shows that it is one, through the bijection of positions and ranks.
* for punctual devices, `TimelyCorrect`: `TypeOK /\ Timely`, where `Timely` joins
  `Attribution`, `OwnCopies` (the copies queued, in execution or about to be sent
  hold values of their own registers) and `AllInTurn` (the line holds at most one
  read, which is the one in execution and not overdue, and a thread about to send
  a read has neither). `Attribution` is not inductive alone: a reply may store the
  copy of an entry, and its register is right only if the reply belongs to the
  read in execution. `ReadsTakeTurns`, `ValuesAttributed` and
  `ImplementsReadService` (`Spec => ReadsInTurn`) follow.

Only model-checked: `QueueMoves`, `SilenceNoticed` (liveness).

## Requests

### Correspondence

| model | code |
|---|---|
| `list`, `last` | `ctlMessageList`, its messages numbered in their order |
| `xmpp` | where the XMPP thread is in `handleIq`, and with which request |
| `fresh[p]` | `m_lastUpdate` of an address: none, reset and read once, within 1200 ms, older |
| `jumps[p]` | `m_data_abnormal_count`: how often a value jumped in a row |
| `arriving[p]` | where the thread of the link is in `OnDeviceData_ProcOne` |
| `waiting`, `onway` | reads of the address in the queue of `SerialMessage`, and sent |
| `asked`, `answered`, `owed` | history: how often each request came and was answered, and the reads nobody has given up |

`handleIq` takes a request. A read goes through `Look` (a fresh value is the
answer), `Check` (the same request in the list is renewed), `Push` and
`SendControl`; a write resets the value (`Write`) and, for a switch, stores the
expected one, a second time for a switch that goes back (`Back`); a command to an
air conditioner only enters the list, where nobody answers it. `Judge` and `Store`
are the two halves of `SetCurValue`, whose mutex guard is a temporary and locks
nothing. `PopControlMesssageQueue` answers one of those who wait, and is repeated
until none is left. `OnTimer` drops what is overdue; `Push` cuts the list at its
limit; neither answers.

A request is its kind, jid, id and address. Repeating it means sending the same id
again, which is what `CheckControlMesssageQueue` compares.

### Run

`RequestsSafety`: one address, a client that reads it with two ids and repeats the
first, a write, a command, and a read without the authority; 264 thousand states.
It shows `TypeOK` (which includes that only requests with the authority enter the
list), `OnePending`, `Bounded`, `Owed`, `AtMostAsked`, `ReadComing`, `NewestKept`
and `ListDrains`. The limit of 10000 (cut to 500) is scaled to 2 (cut to 1), so
that the list overflows with the three requests that may be in it (`Limit`,
`Room`); `MaxAsked` bounds how often each request is sent, `MaxOnWay` = 1 the
answers on the way, as the one-at-a-time rule of `SerialLink` does. One address is
enough because no step looks at two. Requests are bounded, so the system may stop
when all is done and deadlock is not checked.

Fairness, for `ListDrains`: the XMPP thread, the threads of the links and the timer
go on, and messages grow old. Not assumed: that a device answers.

### Omissions

The session: an answer sent while offline is lost, and reconnection leaves the list
as it is. Buttons of remote controls (an IQ with several buttons is answered once
for each), reads by `DataProc_Thread`, which nobody waits for, and a right revoked
while a request waits. What the value is. `Write` is one step for the reset of the
value, the storing of the expected one, the sending and the acknowledgement, which
follow each other in the XMPP thread; no property is about what a link thread does
among them.

### Proofs

`Requests_proofs`, for any clients, addresses and limits. `IInv` joins the
properties with `Numbered` (no message has a number that is still to come),
`Handling` (what the XMPP thread may be at; when it is about to leave a message
there is none of that request) and `Counted`, which is `AtMostAsked` with the
request at hand counted too. `OnePending` is inductive only with `Handling`: check
and push are separate critical sections, and what makes them safe is that only the
XMPP thread pushes. That the newest message survives the cut needs that the list is
finite and numbered without repetition, which is `Sized`; and so does the bound
(`ListIsBounded`): of what a cut leaves, the oldest message has fewer than `Room`
newer ones (`CutSize`). Other theorems: `TypeCorrect`, `OneMessage`,
`NothingLost`, `NoExtraAnswer`, `WaitersServed`, `LimitDropsOld`.

`Requests_refines` proves that `RequestPromise` is implemented
(`RequestsKeepPromise`), with `owed`, `asked` and `answered` mapped to themselves:
each answer is to a request that is open, and a read that was repeated while it
waited stays owed after an answer only if a further answer is open. The step from
`Counted` to this is `OwedIsOpen`. `GivenUpForAReason` says when a read is no longer
owed: it has been answered in that step, its message was overdue, or the list was at
its limit and as many newer messages as there is room for displaced it. These
two are theorems only; no run states them.

Only model-checked: `ListDrains`.

## DataStore

### Correspondence

| model | code |
|---|---|
| `now` | the calendar: a day, and in it ticks, two for each slot of 1800 s: its first part and its last minute |
| `heard[o]`, `lastSave[o]` | `m_timecurValue`, `m_lastSaveTime` of an address |
| `hand[o]`, `buffer` | a sample the thread of a link is about to put into `m_lstDataSaveBuf`, and that buffer |
| `job[t]` | what `DataProc_Thread` ("saver") and the XMPP thread ("report") do with a database |
| `files`, `disk[m]` | the files of months; in each the samples, the statistics of days, which days are marked complete, and whether the month is |
| `tx[m]` | an open transaction of a month: whose, and what it would leave |

`DataAnalyse` takes a sample unless the time point has one, `Push` puts it into the
buffer or loses it, `DataProc` does so for an address that is unreachable.
`DataSave` pops a batch, `InsertBegin`, `InsertOne` and `InsertEnd` write it.
`CheckStat` (nightly) and `CheckAndDoStat_day` (reports) begin statistics,
`DoStat_day_specday` makes those of one day, `DoStat_day_all` commits,
`DoStat_month_all` adds those of the month. `Start` is `CheckCreateDB`; `Stop` ends
the process anywhere: memory is lost and open transactions are rolled back. A
second `BEGIN` on the connection both threads share throws what nobody catches,
and also ends the process.

Of a sample the address and the time are kept, of a statistic the samples it was
made from, so that a statistic that misses one can be told.

### Run

`StoreSafety`: one address from the last minute of December 31 to January 2
(`LastDay` = 3 days, `Month` = 11, 12, 12 counted from year 0), two slots a day,
buffer and batches of 2, three samples (`MaxSamples`), one end of the process
(`MaxStops`), time starts in the last tick (`FirstTick`); 2.5 million states.
It shows `TypeOK`, `RightMonth`, `StatsFinal`, `PointsTaken` and `KeptRecent`. The
end of a year is in it because months are added and subtracted there; a buffer and
a batch of two overflow and are cut with three samples; the third day makes a
statistic of a day in the same month and one of the month before. The calendar
ends, so deadlock is not checked.

`Tick` assumes that no sample waits in the buffer for a whole tick, which is a
minute or more: `DataProc_Thread` looks into it every millisecond or so. `StatTicks`
are away from midnight (01:10 to 02:55), which is why the nightly statistics are
safe; a report is made whenever a client asks for it, and `StatsFinal` needs
`QuietMidnight`: a report in the first seconds of a day marks yesterday as complete
while samples of yesterday are still on their way. `StatsFinal` excludes this case
and does not cover it (listed as a hazard without a property).

### Omissions

The use counts of open databases (`DBMgr_Check`), the window over which the wind is
averaged, the reads that `DataProc_Thread` sends to devices, the counter that says when an
unreachable address gets an invalid value (the model allows it at any time), reads
and reports that change nothing. `GetDBSave_lock` is taken to be atomic; its guard
(`DataStoreMgr.cpp:2354`) is a temporary, too, and what two threads that open one
file at once do to the map of databases is undefined. `DoStat_month_all` is one
step with its transaction: an end of the process within it is a rollback, as if it
had not begun, and the `BEGIN` that meets another one is a branch of its own. A full disk is a file that
cannot be opened or an insert that fails.

### Proofs

`DataStore_proofs`, for any calendar, addresses and limits: `TypeCorrect`;
`MonthsApart` from `Placed` (also the transactions and the batch have samples of
their month only); `RecentStays` from `Grows` (a transaction never has fewer
samples than the file) and the arithmetic of months; and `StatisticsFinal`, for
`QuietMidnight`, from `Waiting` (what waits is of now, or of yesterday in the first
tick), `Asked` (statistics are under way for days that are over, and in the first
tick only for earlier ones) and `AllFinal` (files and transactions are final).
`StatsFinal` is not inductive without `Waiting`: a late sample could be inserted
after the mark.

`PointsTaken` is inductive together with `TypeOK` (`EveryPointTaken`): only
`DataAnalyse` touches the two times (`ValuesChange`), and what is left to show is that
a value which does not become a sample is of the time point of the last sample
(`PointFacts`, `AnalyseTakes`).

All properties of the run are proved.

## AlarmGuard

### Correspondence

| model | code |
|---|---|
| `clock` | `timeGetTime` before it is taken modulo 2^32 (`Wrap`) |
| `trig[t]` | `m_lastTimeTick_RecvStart`, `m_cur_trigger_count`, `m_lastTimeTick_Do` |
| `armed` | `m_AGRunState` of triggers, `SYS_AlarmGuardGlobalFlag` for all (`AllDevices`) |
| `list`, `attr` | `m_event`, and of each event `m_enable`, `m_level`, `m_isForce` |
| `rows`, `state`, `code` | the event tables, the column `runstate`, the rows of the flag in table `code` |
| `devs`, `made` | triggers that exist, identifiers that were used |
| `work[l]` | where the thread of a link is in `OnDeviceData_ProcOne` and `DoAlarmDevice` |
| `xmpp` | where the XMPP thread is in a request about events |
| `save[p]` | where a thread is in saving what is armed |
| `last`, `signals`, `crossed` | history: when a trigger's last alarm began or ended, its signals since, what two threads have been saving at once |

`OnDeviceData_RFSignal` and `CountSignal` are the reading and the writing half of
`CompareTick`, `CheckTrigger` is `IsTrigger`, `BeginAlarm` and `EndAlarm` mark the
trigger (`SetTriggerDo`), `CopyEvents` copies the list, `DoControlEvent` and
`SkipEvent` go through the copy. `Change` sets what is armed and begins its saving:
`SaveDB_find`, `SaveDB_read`, `SaveDB_write` (of the flag; a trigger needs the last
two). `AddEvent`, `SaveToDb`, `SortEvents`; `edit_ControlEvent`, `ModifyEvent`,
`SortEvents`; `DeleteEvent`, `RemoveEvent`; and `DeleteDeviceEvent`,
`DeleteDevice` are the steps of one request each. `Start` loads the database,
`Stop` ends the process anywhere.

Left open: the time of day at which alarms are valid, the order of events of the
same level (in the code by table, identifier and time of addition). Where the code is
undefined the outcome is a choice: the copy of a list that is being changed may
lack events, an event that was freed may look like any other and may be run or
skipped, events of a trigger that was freed may be skipped, and the process may end.
`ModifyEvent` writes what the request says and not what the event in memory says, so
the row of an event may differ from it; the model lets it be anything of `Asked`.

### Runs

| run | instance | shows |
|---|---|---|
| `AlarmSafety` | two triggers, heard by one link each, three events; `Wrap` = 10, time from 9 to 11, so that the clock is 0 in between; three signals, one request, one end of the process; 1.97 million states | `TypeOK`, `OneDecision`, `SameEvents`, `StateKept`, `AlarmsApart`, `CountsAnew` |
| `AlarmTwoHearers` | both links hear the first trigger | a violation, see Findings |

The first trigger needs two signals and its alarm disarms the box before its second
event; the other trigger's alarm disarms the first. `MaxSignals` = 3 is enough for
an alarm of each, and for two signals and a late third of one; `MaxChanges` = 1 lets
each request meet each step of an alarm; `Window` = `Interval` = 2 are the
smallest that differ from a tick. These bounds end the run, so deadlock is not
checked.

`Tick` does not happen between the counting of a signal and the check, where the
thread waits for nothing. Two exceptions are part of the properties: in the one
millisecond in which `timeGetTime` is 0, `SetTriggerDo` takes 1, and an alarm that
ends then does not keep the trigger at rest until it is over (`ZeroTick`); and
`StateKept` leaves out what two threads have been saving at the same time
(`crossed`): there the older value may be written last, and two first savers insert
two rows. The run of the program is shorter than the clock takes to wrap around
once, 49 days (`LastTick`): after that a signal may fall into the window of one
49 days ago.

### Omissions

What an event does other than arming: whom it notifies, which command it sends.
`IsCanDo` refuses messages by SMS only, which are not sent in this repository.
Alarms of values and of combined buttons (a combined button with an event on itself
recurses without end, `GSIOTClient.cpp:5144`), tests of triggers, several events in
one request. Events that make calls: they take their identifier from the table of
messages (`GSIOTEvent.cpp:465`), but no request creates one (`XmppGSEvent.cpp:99`).
Devices with an empty name, which `DB_ModifyDevice` does not save
(`DeviceManager.cpp:458`). The five statements of `DeleteDeviceEvent` are one step;
no property is about an end of the process between them. `SetAllEventsState` and `OnTest_Trigger` are never called and
`AlarmProc_Thread` is never started.

### Proofs

`AlarmGuard_proofs`, for any links, triggers, events and bounds. Each property has
an inductive invariant of its own, over `TypeOK`: `Decided` (a thread has refused
nothing if its alarm is allowed and run nothing otherwise) for `DecidedOnce`;
`Listed` (which says what list and tables have in common within a request, for each
step of it) for `EventsAgree`; `AllKept` (while one thread saves, what it will write
is what is armed, or it has still to read it) for `StateStays`; `InTime` for
`AlarmsRest` and `CountStartsAnew`: the mark of a trigger is the time of its last
alarm modulo the width, and a count has no more signals than came since that alarm,
unless its window began earlier and will be over when the trigger may raise an
alarm again. That is where `Window <= Interval < Wrap` is used. These two theorems
assume `HeardByOne`, that no two links hear the same trigger; `AlarmTwoHearers`
shows what happens otherwise.

## Not modelled

* **XMPP session, life of threads.** Answers sent while offline are lost, and that
  is all that `Requests` would see of a session. Threads are started once;
  `CommLinkPool` takes any subset of them as connecting ones, so that the race of
  their count is covered. The shutdown of the link manager (`UnInit`) is never called.
* **Device and address management.** Devices are added and erased while other threads
  iterate over the list without a lock. Only what a deleted trigger means to alarms
  is modelled; the rest is use of freed memory.
* **Users and authority.** Looked up within one step of one thread; `Requests` takes
  the decision as a constant.
* **Frame parser, Modbus encoding, radio decoders.** Functions of the bytes that one
  thread has received, with nothing concurrent about them. `SerialLink` lets the
  environment choose what they find. The radio decoders have no reference to be
  checked against.
* **Board bridge daemon.** A single-threaded event loop that copies packets. The one
  thing that is hard about it, a header split over two reads, compares bytes that
  were never written (`gsbox/src/hardware.cpp:63`). Its radio network is commented
  out (`gsbox/src/main.cpp:39`).
* **Heartbeat monitor, receiving half of the serial port.** Never started, disabled.
* **Stanza extensions, utilities, configuration.** Conversions without state;
  parameters are constants of the modules.
* **`lzrt`, `gloox/src/libiot`, `cpp-demo`.** Older copies and a toy.

## Findings

* `PoolInfoAssert`: `Run_Info_Release` asserts that the info lock is set
  (`CommLinkManager.cpp:689`), but the lock is one flag for all watchers: the
  second of two that overlap fails the assertion, and in between the link could be
  deleted under it.
* `SerialLateAnswers`: `SerialDataBuffer.cpp:434` says that for RS485 reads only
  one is in execution at a time. A late reply to a read given up ends the next
  one, and a third is sent while the second is still unanswered and in time.
* `AlarmTwoHearers`: `IsTrigger` (`TriggerControl.cpp:41`) locks the mutex of the
  trigger with a guard that has no name and is destroyed at once, and marks the
  alarm only later. If two links hear one signal, both threads find the trigger at
  rest before either marks it, and its alarm is done twice within the interval that
  `TriggerControl.cpp:46` ("notice delay limit by 'SYS_TriggerAlarmInterval'")
  speaks of. The trace has eight states.

## Reading PROJECT.json

`components` has the status of each part, `map` the source lines of each
definition, `mutants` a plausible bug for each checked property (operators marked
*Fault* in the modules, with which TLC finds the property violated), `hazards` what
is hard to test in this code, covered or not.

What lies outside the provers stays with TLC: liveness under fairness, and what
recursive definitions compute.
