---------------------------- MODULE CommLinkPool ----------------------------
(***************************************************************************)
(* The communication links of the gateway and the threads that work on     *)
(* them: CCommLinkManager (gsiot/src/CommLinkManager.cpp), the run object  *)
(* CCommLinkRun_TCP of each link (gsiot/src/CommLink.cpp), the loop        *)
(* CommLink_Thread of the worker threads (gsiot/src/DeviceConnection.cpp)  *)
(* and the table of connected addresses of CNetMan (gsiot/src/NetMan.cpp). *)
(*                                                                         *)
(* A worker takes the link whose turn it is (Run_Proc_Get), connects,      *)
(* reconnects or closes it if the worker is a connecting one, moves data   *)
(* and gives it back (Run_Proc_Release). Other threads look at a link      *)
(* (Run_Info_Get, Run_Info_Release), and the configuration interface adds, *)
(* modifies, deletes and reconnects links meanwhile.                       *)
(*                                                                         *)
(* Time is abstracted to facts that elapsing time makes true: a link is    *)
(* silent (nothing received for CommLinkHb_RecvTimeover seconds) or rested *)
(* (CommLinkConnectInterval seconds since the last Open), and the program  *)
(* is no longer young (20 seconds since it started).                       *)
(***************************************************************************)
EXTENDS Naturals, Sequences, FiniteSets

CONSTANTS
    Links,        \* link ids, in the order of the map m_RunList
    Addrs,        \* ip:port pairs
    NoAddr,       \* m_linkDevice = NULL
    Stored,       \* the configurations LoadDB_comm_link finds in the database
    Heartbeated,  \* links with heartbeat_type # defCommLinkHeartbeatType_Null
    Workers,      \* communication threads
    Connectors,   \* the workers that have allowConnect
    Watchers,     \* threads that call Run_Info_Get
    NoOwner,
    MaxEdits      \* bound on the calls of the configuration interface

NoLink == 0

Configs == [enable : BOOLEAN, addr : Addrs]

ASSUME PoolAssumption ==
    /\ Links \subseteq Nat \ {NoLink}
    /\ IsFiniteSet(Links)
    /\ NoAddr \notin Addrs
    /\ DOMAIN Stored \subseteq Links
    /\ \A l \in DOMAIN Stored : Stored[l] \in Configs
    /\ Heartbeated \subseteq Links
    /\ Connectors \subseteq Workers
    /\ NoOwner \notin Workers
    /\ MaxEdits \in Nat

VARIABLES
    cfg,         \* m_CfgList objects, also when they await deletion
    listed,      \* keys of m_CfgList
    run,         \* CCommLinkRun objects
    runList,     \* keys of m_RunList
    worked,      \* links ordered by m_lastWork, those never worked on absent
    clients,     \* m_mapClientInfo: the link whose connection is listed
    deleteList,  \* m_DeleteList
    young,       \* less than 20 s since m_last_CheckDeleteList
    freed,       \* run objects that are deleted
    worker,      \* the worker threads
    watcher,     \* the threads that look at a link
    ui,          \* progress of Cfg_Delete and Cfg_Modify
    edits        \* calls of the configuration interface so far

poolvars == <<runList, worked, deleteList, young, freed>>
uivars == <<cfg, listed, ui, edits>>
vars == <<run, clients, worker, watcher, poolvars, uivars>>

(* No configuration; also the contents of a run object not yet created.    *)
NoConfig == [enable |-> FALSE, addr |-> NoAddr]

NewRun(c) ==
    [enable |-> c.enable, addr |-> c.addr, stale |-> FALSE, torn |-> FALSE,
     reconnect |-> FALSE, conn |-> NoAddr, dead |-> FALSE,
     silent |-> FALSE, rested |-> TRUE, procLock |-> FALSE, infoLock |-> FALSE]

Idle == [pc |-> "idle", link |-> NoLink, cfg |-> NoLink, run |-> NoLink,
         draft |-> NoConfig]

IsOpen(r) == r.conn # NoAddr

(* Close; torn only matters to the connection that was open.               *)
Close(r) == [r EXCEPT !.conn = NoAddr, !.dead = FALSE, !.torn = FALSE]

(* Faults: the table keeps closed connections, or its entries get the      *)
(* wrong null value.                                                       *)
Disconnect_KeepsEntry(links) == clients
Disconnect_WrongNull(links) ==
    [a \in Addrs |-> IF clients[a] \in links THEN NoAddr ELSE clients[a]]

(* NetModule_Close takes the connections of these links out of the table.  *)
Disconnect(links) ==
    [a \in Addrs |-> IF clients[a] \in links THEN NoLink ELSE clients[a]]

Init ==
    /\ cfg = [l \in Links |-> IF l \in DOMAIN Stored THEN Stored[l] ELSE NoConfig]
    /\ listed = DOMAIN Stored
    /\ run = [l \in Links |-> NewRun(cfg[l])]
    /\ runList = DOMAIN Stored
    /\ worked = <<>>
    /\ clients = [a \in Addrs |-> NoLink]
    /\ deleteList = <<>>
    /\ young = TRUE
    /\ freed = {}
    /\ worker = [w \in Workers |-> [pc |-> "get", link |-> NoLink]]
    /\ watcher = [u \in Watchers |-> NoLink]
    /\ ui = Idle
    /\ edits = 0

-----------------------------------------------------------------------------
(* Run_Proc_Get: the final deletions, the configuration check and the      *)
(* choice of a link, all under m_mutex_CommLinkMgr.                        *)

(* CheckDeleteList deletes the first object nobody uses, in a grown-up     *)
(* program.                                                                *)
InUse(l) == run[l].procLock \/ run[l].infoLock

(* Faults: objects in use are deleted, or only closed links are. *)
Deletable_IgnoresLocks == DOMAIN deleteList
Deletable_OnlyClosed ==
    {i \in DOMAIN deleteList :
        \/ deleteList[i].run = NoLink
        \/ ~InUse(deleteList[i].run) /\ ~IsOpen(run[deleteList[i].run])}

Deletable == {i \in DOMAIN deleteList :
                 deleteList[i].run = NoLink \/ ~InUse(deleteList[i].run)}

IsFirstOf(i, S) == i \in S /\ \A j \in S : i <= j

Without(s, i) == [j \in 1 .. Len(s) - 1 |-> IF j < i THEN s[j] ELSE s[j + 1]]

(* Fault: the deleted object stays in the list. *)
CheckDeleteList_KeepsEntry(gone) ==
    \/ (young \/ Deletable = {}) /\ gone = {} /\ UNCHANGED deleteList
    \/ /\ ~young
       /\ \E i \in DOMAIN deleteList :
             IsFirstOf(i, Deletable) /\ gone = {deleteList[i].run} \ {NoLink}
       /\ UNCHANGED deleteList

CheckDeleteList(gone) ==
    \/ /\ young \/ Deletable = {}
       /\ gone = {}
       /\ UNCHANGED deleteList
    \/ /\ ~young
       /\ \E i \in DOMAIN deleteList :
             /\ IsFirstOf(i, Deletable)
             /\ gone = {deleteList[i].run} \ {NoLink}
             /\ deleteList' = Without(deleteList, i)

(* What a check that overlaps the unlocked assignment of Cfg_Modify reads: *)
(* each field old or new, the address once to compare and once to copy,    *)
(* and the time stamp of the caller or the one put back after it, so that  *)
(* it may or may not look like a change.                                   *)
Views ==
    IF ui.pc = "writing"
    THEN LET both == {cfg[ui.link], ui.draft} IN
         [changed : BOOLEAN, enable : {c.enable : c \in both},
          compared : {c.addr : c \in both}, copied : {c.addr : c \in both}]
    ELSE {[changed |-> FALSE, enable |-> FALSE, compared |-> NoAddr, copied |-> NoAddr]}

ViewOf(l, v) ==
    IF ui.pc = "writing" /\ ui.link = l THEN v
    ELSE [changed |-> run[l].stale, enable |-> cfg[l].enable,
          compared |-> cfg[l].addr, copied |-> cfg[l].addr]

(* Fault: the new address is copied before the old one is compared to it. *)
CheckCfg_CopiesFirst(r, v) ==
    IF v.changed
    THEN [r EXCEPT !.enable = v.enable, !.addr = v.copied,
                   !.silent = FALSE, !.stale = FALSE]
    ELSE r

(* check_cfg: a changed configuration restarts the timers, and a changed   *)
(* address asks for a reconnection.                                        *)
CheckCfg(r, v) ==
    IF v.changed
    THEN [r EXCEPT !.enable = v.enable, !.addr = v.copied,
                   !.reconnect = @ \/ v.compared # r.addr,
                   !.torn = @ \/ v.compared # v.copied,
                   !.silent = FALSE, !.stale = FALSE]
    ELSE r

(* Faults: a link is handed out twice, or a disabled link never. *)
Eligible_IgnoresLock(r, allowConnect) ==
    /\ r.enable \/ IsOpen(r)
    /\ allowConnect \/ (IsOpen(r) /\ ~r.reconnect /\ r.enable)
Eligible_OnlyEnabled(r, allowConnect) ==
    /\ ~r.procLock /\ r.enable
    /\ allowConnect \/ (IsOpen(r) /\ ~r.reconnect)

(* What a thread may be handed once check_cfg is done. *)
Eligible(r, allowConnect) ==
    /\ ~r.procLock
    /\ r.enable \/ IsOpen(r)
    /\ allowConnect \/ (IsOpen(r) /\ ~r.reconnect /\ r.enable)

Fresh(links) == {l \in links : \A i \in DOMAIN worked : worked[i] # l}

(* The smallest m_lastWork is served first. Links that were never worked   *)
(* on have 0, and the first of them in the order of the map ends the scan. *)
IsTurnOf(l, ready) ==
    /\ l \in ready
    /\ IF Fresh(ready) # {}
       THEN IsFirstOf(l, Fresh(ready))
       ELSE \A i, j \in DOMAIN worked :
                worked[i] = l /\ worked[j] \in ready => i <= j

(* The scan calls check_cfg on the links it passes. *)
Scanned(ready) ==
    {k \in runList : /\ ~run[k].procLock
                     /\ \A l \in Fresh(ready) : IsFirstOf(l, Fresh(ready)) => k <= l}

(* Fault: m_lastWork is set only once. *)
WorkDone_OnlyOnce(l) ==
    IF \E i \in DOMAIN worked : worked[i] = l THEN worked ELSE Append(worked, l)

WorkDone(l) ==
    IF \E i \in DOMAIN worked : worked[i] = l
    THEN Append(Without(worked, CHOOSE i \in DOMAIN worked : worked[i] = l), l)
    ELSE Append(worked, l)

(* The scan with the view v of a configuration that is being written; the  *)
(* links in gone are deleted and their connections end with them.          *)
Scan(w, v, gone) ==
    LET seen == [l \in Links |-> CheckCfg(run[l], ViewOf(l, v))]
        ready == {l \in runList : Eligible(seen[l], w \in Connectors)}
        Passed(l) == IF l \in gone THEN Close(run[l])
                     ELSE IF l \in Scanned(ready) THEN seen[l] ELSE run[l]
    IN
    \/ /\ ready = {}
       /\ run' = [l \in Links |-> Passed(l)]
       /\ UNCHANGED <<worked, worker>>
    \/ \E l \in ready :
       /\ IsTurnOf(l, ready)
       /\ run' = [k \in Links |-> IF k = l THEN [Passed(k) EXCEPT !.procLock = TRUE]
                                  ELSE Passed(k)]
       /\ worked' = WorkDone(l)
       /\ worker' = [worker EXCEPT ![w] = [pc |-> "held", link |-> l]]

Run_Proc_Get(w) ==
    /\ worker[w].pc = "get"
    /\ \E gone \in SUBSET Links, v \in Views :
          /\ CheckDeleteList(gone)
          /\ freed' = freed \cup gone
          /\ clients' = Disconnect(gone)
          /\ Scan(w, v, gone)
    /\ UNCHANGED <<runList, young, watcher, uivars>>

-----------------------------------------------------------------------------
(* One round of CommLink_Thread on the link it holds.                      *)

Goto(w, pc) == worker' = [worker EXCEPT ![w].pc = pc]

IsRecvTimeover(l) == run[l].enable /\ l \in Heartbeated /\ run[l].silent

(* A disabled link is closed.                                              *)
CloseDisabled(w, l) ==
    /\ w \in Connectors
    /\ ~run[l].enable
    /\ run' = [run EXCEPT ![l] = Close(@)]
    /\ clients' = Disconnect({l})
    /\ Goto(w, "release")

(* Faults: requested reconnections, or timed-out links, are overlooked. *)
MustConnect_IgnoresRequest(l) ==
    (~IsOpen(run[l]) \/ IsRecvTimeover(l)) /\ run[l].rested
MustConnect_IgnoresTimeover(l) ==
    run[l].reconnect \/ (~IsOpen(run[l]) /\ run[l].rested)

(* A requested reconnection goes on at once, a closed or timed-out link    *)
(* once it has rested.                                                     *)
MustConnect(l) ==
    \/ run[l].reconnect
    \/ (~IsOpen(run[l]) \/ IsRecvTimeover(l)) /\ run[l].rested

(* resetTsState restarts the timers of a link that was closed or is        *)
(* reconnected on request, but not those of one that timed out.            *)
Reopening(r) ==
    [Close(r) EXCEPT !.reconnect = FALSE, !.rested = FALSE,
                     !.silent = r.silent /\ IsOpen(r) /\ ~r.reconnect]

(* Fault: threads without allowConnect connect, too. *)
StartConnect_AnyThread(w, l) ==
    /\ run[l].enable
    /\ MustConnect(l)
    /\ run' = [run EXCEPT ![l] = Reopening(@)]
    /\ clients' = Disconnect({l})
    /\ Goto(w, "opening")

StartConnect(w, l) ==
    /\ w \in Connectors
    /\ run[l].enable
    /\ MustConnect(l)
    /\ run' = [run EXCEPT ![l] = Reopening(@)]
    /\ clients' = Disconnect({l})
    /\ Goto(w, "opening")

(* Threads that do not connect, and links that need nothing.               *)
GoOn(w, l) ==
    /\ w \in Connectors => run[l].enable /\ ~MustConnect(l)
    /\ Goto(w, "data")
    /\ UNCHANGED <<run, clients>>

Prepare(w) ==
    /\ worker[w].pc = "held"
    /\ LET l == worker[w].link IN
       CloseDisabled(w, l) \/ StartConnect(w, l) \/ GoOn(w, l)
    /\ UNCHANGED <<watcher, poolvars, uivars>>

(* Open: CreateClient refuses an address that is in the table, ...         *)
StartOpen(w) ==
    /\ worker[w].pc = "opening"
    /\ Goto(w, IF clients[run[worker[w].link].addr] = NoLink
               THEN "connecting" ELSE "release")
    /\ UNCHANGED <<run, clients, watcher, poolvars, uivars>>

(* ... and enters it in the table after a connect() without the lock. A    *)
(* reconnection asked for meanwhile is satisfied by the new connection.    *)
FinishOpen(w) ==
    /\ worker[w].pc = "connecting"
    /\ LET l == worker[w].link IN
       \/ /\ run' = [run EXCEPT ![l].conn = run[l].addr, ![l].reconnect = FALSE]
          /\ clients' = [clients EXCEPT ![run[l].addr] = l]
          /\ Goto(w, "data")
       \/ /\ Goto(w, "release")
          /\ UNCHANGED <<run, clients>>
    /\ UNCHANGED <<watcher, poolvars, uivars>>

(* OnTimer, RecvData, OnDataReceived and the heartbeat. Received data      *)
(* restarts m_lastRecv, and a failing Read closes the link.                *)
Transfer(w) ==
    /\ worker[w].pc = "data"
    /\ LET l == worker[w].link IN
       \/ UNCHANGED <<run, clients>>
       \/ /\ IsOpen(run[l]) /\ ~run[l].dead
          /\ run' = [run EXCEPT ![l].silent = FALSE]
          /\ UNCHANGED clients
       \/ /\ IsOpen(run[l])
          /\ run' = [run EXCEPT ![l] = Close(@)]
          /\ clients' = Disconnect({l})
    /\ Goto(w, "release")
    /\ UNCHANGED <<watcher, poolvars, uivars>>

Run_Proc_Release(w) ==
    /\ worker[w].pc = "release"
    /\ run' = [run EXCEPT ![worker[w].link].procLock = FALSE]
    /\ worker' = [worker EXCEPT ![w] = [pc |-> "get", link |-> NoLink]]
    /\ UNCHANGED <<clients, watcher, poolvars, uivars>>

WorkerStep(w) ==
    \/ Run_Proc_Get(w) \/ Prepare(w) \/ StartOpen(w) \/ FinishOpen(w)
    \/ Transfer(w) \/ Run_Proc_Release(w)

-----------------------------------------------------------------------------
(* Threads that look at the state of a link: the XMPP thread answering a   *)
(* query, DataProc_Thread polling devices.                                 *)

Run_Info_Get(u, l) ==
    /\ watcher[u] = NoLink
    /\ l \in runList
    /\ run' = [run EXCEPT ![l].infoLock = TRUE]
    /\ watcher' = [watcher EXCEPT ![u] = l]
    /\ UNCHANGED <<clients, worker, poolvars, uivars>>

Run_Info_Release(u) ==
    /\ watcher[u] # NoLink
    /\ run' = [run EXCEPT ![watcher[u]].infoLock = FALSE]
    /\ watcher' = [watcher EXCEPT ![u] = NoLink]
    /\ UNCHANGED <<clients, worker, poolvars, uivars>>

-----------------------------------------------------------------------------
(* The configuration interface, called by one thread.                      *)

Edit == ui = Idle /\ edits < MaxEdits /\ edits' = edits + 1

(* Run objects that were ever created; the database hands out new ids.     *)
Waiting == {deleteList[i].run : i \in DOMAIN deleteList}
Known == runList \cup freed \cup Waiting \cup {ui.run}

(* Cfg_CheckExist refuses an address that is configured for another link.  *)
IsVacant(l, c) == \A k \in listed \ {l} : cfg[k].addr # c.addr

(* Cfg_Add and the Run_Add it calls. *)
Cfg_Add(l, c) ==
    /\ Edit
    /\ l \notin Known
    /\ IsVacant(l, c)
    /\ cfg' = [cfg EXCEPT ![l] = c]
    /\ run' = [run EXCEPT ![l] = NewRun(c)]
    /\ runList' = runList \cup {l}
    /\ listed' = listed \cup {l}
    /\ UNCHANGED <<worked, clients, deleteList, young, freed, worker, watcher, ui>>

(* Cfg_Modify assigns the fields without the mutex, ...                    *)
Cfg_Modify(l, c) ==
    /\ Edit
    /\ l \in listed
    /\ IsVacant(l, c)
    /\ ui' = [Idle EXCEPT !.pc = "writing", !.link = l, !.draft = c]
    /\ UNCHANGED <<cfg, listed, run, clients, worker, watcher, poolvars>>

(* ... then refreshCfgTs tells check_cfg of the change, in any case: the   *)
(* time stamp is a new one.                                                *)
RefreshCfgTs ==
    /\ ui.pc = "writing"
    /\ cfg' = [cfg EXCEPT ![ui.link] = ui.draft]
    /\ run' = [run EXCEPT ![ui.link].stale = TRUE]
    /\ ui' = Idle
    /\ UNCHANGED <<listed, clients, worker, watcher, poolvars, edits>>

(* Run_Reconnect of one link, Run_ReconnectAll of every link. *)
Run_Reconnect(links) ==
    /\ Edit
    /\ links \subseteq runList
    /\ run' = [l \in Links |-> IF l \in links
                               THEN [run[l] EXCEPT !.reconnect = TRUE]
                               ELSE run[l]]
    /\ UNCHANGED <<cfg, listed, clients, worker, watcher, poolvars, ui>>

(* Cfg_Delete: the configuration leaves m_CfgList, then Run_Remove takes   *)
(* the run object out of m_RunList, then both enter m_DeleteList.          *)
Cfg_Delete(l) ==
    /\ Edit
    /\ cfg' = IF l \in listed THEN [cfg EXCEPT ![l].enable = FALSE] ELSE cfg
    /\ listed' = listed \ {l}
    /\ ui' = [Idle EXCEPT !.pc = "erased", !.link = l,
                          !.cfg = IF l \in listed THEN l ELSE NoLink]
    /\ UNCHANGED <<run, clients, worker, watcher, poolvars>>

Run_Remove ==
    /\ ui.pc = "erased"
    /\ runList' = runList \ {ui.link}
    /\ ui' = [ui EXCEPT !.pc = "removed",
                        !.run = IF ui.link \in runList THEN ui.link ELSE NoLink]
    /\ UNCHANGED <<cfg, listed, run, worked, clients, deleteList, young, freed,
                   worker, watcher, edits>>

PushDeleted ==
    /\ ui.pc = "removed"
    /\ deleteList' = Append(deleteList, [cfg |-> ui.cfg, run |-> ui.run])
    /\ ui' = Idle
    /\ UNCHANGED <<cfg, listed, run, runList, worked, clients, young, freed,
                   worker, watcher, edits>>

-----------------------------------------------------------------------------
(* Time, and the other end of the connections.                             *)

GrowUp ==
    /\ young
    /\ young' = FALSE
    /\ UNCHANGED <<run, clients, worker, watcher, runList, worked, deleteList,
                   freed, uivars>>

(* Only links with a heartbeat act on silence, or on a peer that is gone:  *)
(* RcvData returns 0 for a finished stream, as when nothing has arrived.   *)
Silence(l) ==
    /\ l \in Heartbeated
    /\ ~run[l].silent
    /\ run' = [run EXCEPT ![l].silent = TRUE]
    /\ UNCHANGED <<clients, worker, watcher, poolvars, uivars>>

PeerDies(l) ==
    /\ l \in Heartbeated
    /\ IsOpen(run[l]) /\ ~run[l].dead
    /\ run' = [run EXCEPT ![l].dead = TRUE]
    /\ UNCHANGED <<clients, worker, watcher, poolvars, uivars>>

Rest(l) ==
    /\ ~run[l].rested
    /\ run' = [run EXCEPT ![l].rested = TRUE]
    /\ UNCHANGED <<clients, worker, watcher, poolvars, uivars>>

-----------------------------------------------------------------------------
InfoStep == \E u \in Watchers : \/ \E l \in Links : Run_Info_Get(u, l)
                                \/ Run_Info_Release(u)

EditStep ==
    \/ \E l \in Links, c \in Configs : Cfg_Add(l, c) \/ Cfg_Modify(l, c)
    \/ \E links \in {{l} : l \in Links} \cup {runList} : Run_Reconnect(links)
    \/ \E l \in Links : Cfg_Delete(l)
    \/ RefreshCfgTs \/ Run_Remove \/ PushDeleted

TimeStep == GrowUp \/ \E l \in Links : Silence(l) \/ Rest(l) \/ PeerDies(l)

Next == (\E w \in Workers : WorkerStep(w)) \/ InfoStep \/ EditStep \/ TimeStep

Spec == Init /\ [][Next]_vars

(* Every thread goes on with its loop, a call of the configuration         *)
(* interface and a look at a link end, and time passes. Nothing else is    *)
(* promised: connections may always fail, peers may always die.            *)
Fairness ==
    /\ \A w \in Workers : WF_vars(WorkerStep(w))
    /\ \A u \in Watchers : WF_vars(Run_Info_Release(u))
    /\ WF_vars(RefreshCfgTs \/ Run_Remove \/ PushDeleted)
    /\ WF_vars(GrowUp)
    /\ \A l \in Links : WF_vars(Silence(l)) /\ WF_vars(Rest(l))

FairSpec == Spec /\ Fairness

-----------------------------------------------------------------------------
RunObjects ==
    [enable : BOOLEAN, addr : Addrs \cup {NoAddr}, stale : BOOLEAN,
     torn : BOOLEAN, reconnect : BOOLEAN, conn : Addrs \cup {NoAddr},
     dead : BOOLEAN, silent : BOOLEAN, rested : BOOLEAN,
     procLock : BOOLEAN, infoLock : BOOLEAN]

MaybeLinks == Links \cup {NoLink}

(* The values the state of the links, the threads and the lists can have.  *)
TypeOK ==
    /\ cfg \in [Links -> Configs \cup {NoConfig}]
    /\ listed \subseteq Links
    /\ run \in [Links -> RunObjects]
    /\ runList \subseteq Links
    /\ worked \in Seq(Links)
    /\ clients \in [Addrs -> MaybeLinks]
    /\ deleteList \in Seq([cfg : MaybeLinks, run : MaybeLinks])
    /\ young \in BOOLEAN
    /\ freed \subseteq Links
    /\ worker \in [Workers ->
           [pc : {"get", "held", "opening", "connecting", "data", "release"},
            link : MaybeLinks]]
    /\ watcher \in [Watchers -> MaybeLinks]
    /\ ui \in [pc : {"idle", "writing", "erased", "removed"}, link : MaybeLinks,
               cfg : MaybeLinks, run : MaybeLinks, draft : Configs \cup {NoConfig}]
    /\ edits \in Nat

Holds(w, l) == worker[w].pc # "get" /\ worker[w].link = l

(* m_lockProc is set exactly while a thread is between Run_Proc_Get and    *)
(* Run_Proc_Release of the link, and no two threads are: everything a run  *)
(* object holds besides its locks is touched without a mutex.              *)
ExclusiveWork ==
    /\ \A l \in Links : run[l].procLock <=> \E w \in Workers : Holds(w, l)
    /\ \A v, w \in Workers, l \in Links : Holds(v, l) /\ Holds(w, l) => v = w

(* CheckDeleteList deletes no run object that a worker still works on, a   *)
(* watcher still looks at, Cfg_Delete has in hand or the manager lists.    *)
NoUseAfterDelete ==
    /\ \A w \in Workers, l \in freed : ~Holds(w, l)
    /\ \A u \in Watchers : watcher[u] \notin freed
    /\ ui.run \notin freed
    /\ runList \cap freed = {}

(* An object that waits for its deletion waits once and has left the list  *)
(* of running links: it is neither deleted twice nor handed out again.     *)
NoDoubleDelete ==
    \A i \in DOMAIN deleteList :
       LET l == deleteList[i].run IN
       l # NoLink => /\ l \notin runList \cup freed \cup {ui.run}
                     /\ \A j \in DOMAIN deleteList : deleteList[j].run = l => j = i

(* A link stays connected to an address other than the configured one only *)
(* while check_cfg has not yet seen the change or the reconnection waits   *)
(* for a thread. The exception is a check_cfg that overlapped Cfg_Modify:  *)
(* it may copy the new address after it compared the old one.              *)
ConnMatchesCfg ==
    \A l \in runList :
       IsOpen(run[l]) =>
          \/ run[l].conn = cfg[l].addr
          \/ run[l].stale \/ run[l].reconnect \/ run[l].torn
          \/ ui.pc = "writing" /\ ui.link = l

(* The address table names only links that are connected to the address,   *)
(* so no stale entry keeps a link from being opened again.                 *)
AddressTable ==
    \A a \in Addrs : clients[a] # NoLink => run[clients[a]].conn = a

(* What makes these facts inductive. An object is in at most one of the    *)
(* lists, ...                                                              *)
Placed ==
    /\ NoDoubleDelete
    /\ runList \cap freed = {}
    /\ ui.run \notin runList \cup freed
    /\ ui.pc # "removed" => ui.run = NoLink

(* ... threads hold links that exist, ...                                  *)
HeldLinks ==
    \A w \in Workers : worker[w].pc # "get" =>
       worker[w].link \in (Links \cap Known) \ freed

(* ... connecting ones close a link before they open it, ...               *)
Opening ==
    \A w \in Workers : worker[w].pc \in {"opening", "connecting"} =>
       w \in Connectors /\ ~IsOpen(run[worker[w].link])

(* ... and configurations are complete from the creation of a link on.     *)
Configured ==
    /\ listed \subseteq Known
    /\ \A l \in Links \cap Known : cfg[l] \in Configs /\ run[l].addr \in Addrs
    /\ \A l \in Links \ Known : ~IsOpen(run[l])
    /\ ui.pc = "writing" => ui.link \in Links \cap Known /\ ui.draft \in Configs

IInv ==
    /\ TypeOK /\ ExclusiveWork /\ Placed /\ HeldLinks
    /\ Opening /\ Configured /\ AddressTable

(* The assertion of Run_Info_Release, CommLinkManager.cpp:689: the info    *)
(* lock is set when a thread that looked at the link releases it.          *)
InfoReleaseAssert ==
    \A u \in Watchers : watcher[u] # NoLink => run[watcher[u]].infoLock

(* The link manager implements the ownership of links: connections change  *)
(* in the hands of their owner only, and retired links are never owned.    *)
Owner ==
    [l \in Links |-> IF run[l].procLock
                     THEN CHOOSE w \in Workers : Holds(w, l)
                     ELSE NoOwner]

Ownership == INSTANCE LinkOwnership
                 WITH owner <- Owner, conn <- [l \in Links |-> run[l].conn],
                      retired <- freed

ImplementsOwnership == Ownership!Spec

-----------------------------------------------------------------------------
Held(l) == \E w \in Workers : Holds(w, l)
Gone(l) == l \notin runList

(* Every enabled link is worked on again and again: the order of           *)
(* m_lastWork lets no link starve, whether it is open or not.              *)
Served ==
    \A l \in Links : (l \in runList /\ run[l].enable) ~>
                     (Held(l) \/ Gone(l) \/ ~run[l].enable)

(* A link that was disabled by the configuration ends up closed. *)
DisabledCloses ==
    \A l \in Links : (l \in runList /\ ~cfg[l].enable) ~>
                     (~IsOpen(run[l]) \/ Gone(l) \/ cfg[l].enable)

(* A requested reconnection of an enabled link closes its connection and   *)
(* leads to an attempt to open it, by a connecting thread.                 *)
ReconnectHonoured ==
    \A l \in Links : (l \in runList /\ run[l].reconnect /\ run[l].enable) ~>
                     (~run[l].reconnect \/ Gone(l) \/ ~run[l].enable)

(* A deleted link is finally deleted, and its address can be used again.   *)
DeletedFreed ==
    \A l \in Links : (\E i \in DOMAIN deleteList : deleteList[i].run = l) ~>
                     (l \in freed /\ \A a \in Addrs : clients[a] # l)

(* A connection whose peer is gone is found by the heartbeat timeout and   *)
(* closed, if the threads that may work on it are connecting ones.         *)
DeadLinkClosed ==
    \A l \in Links : (l \in runList /\ run[l].enable /\ run[l].dead) ~>
                     (~run[l].dead \/ Gone(l) \/ ~run[l].enable)
=============================================================================
