------------------------ MODULE CommLinkPool_proofs ------------------------
(***************************************************************************)
(* Proofs about CommLinkPool: type correctness, exclusive work on a link,  *)
(* the life cycle of the run objects, and how a changed configuration      *)
(* reaches the connection.                                                 *)
(***************************************************************************)
EXTENDS CommLinkPool, TLAPS

-----------------------------------------------------------------------------
(* Taking an element out of a sequence leaves a sequence of the same kind, *)
(* one shorter, whose elements are those at the other positions.           *)
LEMMA WithoutFacts ==
    ASSUME NEW S, NEW s \in Seq(S), NEW i \in DOMAIN s
    PROVE  /\ Without(s, i) \in Seq(S)
           /\ DOMAIN Without(s, i) = 1 .. Len(s) - 1
           /\ \A j \in 1 .. Len(s) - 1 :
                 Without(s, i)[j] = IF j < i THEN s[j] ELSE s[j + 1]
<1>1. /\ Len(s) \in Nat
      /\ DOMAIN s = 1 .. Len(s)
      /\ \A j \in 1 .. Len(s) : s[j] \in S
  OBVIOUS
<1>2. \A j \in 1 .. Len(s) - 1 : j \in 1 .. Len(s) /\ j + 1 \in 1 .. Len(s)
  BY <1>1
<1>3. \A j \in 1 .. Len(s) - 1 : (IF j < i THEN s[j] ELSE s[j + 1]) \in S
  BY <1>1, <1>2
<1>4. Len(s) - 1 \in Nat
  BY <1>1
<1>5. Without(s, i) \in [1 .. Len(s) - 1 -> S]
  BY <1>3 DEF Without
<1> QED
  BY <1>4, <1>5 DEF Without

(* The queue of m_lastWork stays a sequence of links. *)
LEMMA WorkDoneType ==
    ASSUME worked \in Seq(Links), NEW l \in Links
    PROVE  WorkDone(l) \in Seq(Links)
<1>1. CASE \E i \in DOMAIN worked : worked[i] = l
  <2> DEFINE i == CHOOSE i \in DOMAIN worked : worked[i] = l
  <2>1. i \in DOMAIN worked
    BY <1>1
  <2>2. Without(worked, i) \in Seq(Links)
    BY <2>1, WithoutFacts
  <2> QED
    BY <1>1, <2>2 DEF WorkDone
<1>2. CASE ~ \E i \in DOMAIN worked : worked[i] = l
  BY <1>2 DEF WorkDone
<1> QED
  BY <1>1, <1>2

(* What the operators on run objects do to the fields the invariants are   *)
(* about.                                                                  *)
LEMMA CloseFacts ==
    ASSUME NEW r \in RunObjects
    PROVE  /\ Close(r) \in RunObjects
           /\ Close(r).conn = NoAddr
           /\ Close(r).procLock = r.procLock
           /\ Close(r).infoLock = r.infoLock
           /\ Close(r).addr = r.addr
  BY DEF Close, RunObjects

LEMMA ReopeningFacts ==
    ASSUME NEW r \in RunObjects
    PROVE  /\ Reopening(r) \in RunObjects
           /\ Reopening(r).conn = NoAddr
           /\ Reopening(r).procLock = r.procLock
           /\ Reopening(r).infoLock = r.infoLock
           /\ Reopening(r).addr = r.addr
<1> DEFINE quiet == r.silent /\ IsOpen(r) /\ ~r.reconnect
           c == Close(r)
<1>1. quiet \in BOOLEAN
  BY DEF RunObjects
<1>2. /\ c \in RunObjects /\ c.conn = NoAddr
      /\ c.procLock = r.procLock /\ c.addr = r.addr /\ c.infoLock = r.infoLock
  BY CloseFacts
<1>3. Reopening(r) =
         [c EXCEPT !.reconnect = FALSE, !.rested = FALSE, !.silent = quiet]
  BY DEF Reopening
<1> HIDE DEF quiet, c
<1> QED
  BY <1>1, <1>2, <1>3 DEF RunObjects

LEMMA CheckCfgFacts ==
    ASSUME NEW r \in RunObjects, NEW v,
           v.enable \in BOOLEAN, v.copied \in Addrs \cup {NoAddr}
    PROVE  /\ CheckCfg(r, v) \in RunObjects
           /\ CheckCfg(r, v).conn = r.conn
           /\ CheckCfg(r, v).procLock = r.procLock
           /\ CheckCfg(r, v).infoLock = r.infoLock
           /\ CheckCfg(r, v).addr \in {r.addr, v.copied}
<1>1. CASE ~v.changed
  BY <1>1 DEF CheckCfg
<1>2. CASE v.changed
  <2> DEFINE moved == r.reconnect \/ v.compared # r.addr
             mixed == r.torn \/ v.compared # v.copied
             seen == [r EXCEPT !.enable = v.enable, !.addr = v.copied,
                               !.reconnect = moved, !.torn = mixed,
                               !.silent = FALSE, !.stale = FALSE]
  <2>1. moved \in BOOLEAN /\ mixed \in BOOLEAN
    OBVIOUS
  <2>2. CheckCfg(r, v) = seen
    BY <1>2 DEF CheckCfg
  <2> HIDE DEF moved, mixed
  <2>3. seen \in RunObjects
    BY <2>1 DEF RunObjects
  <2> QED
    BY <2>2, <2>3 DEF RunObjects
<1> QED
  BY <1>1, <1>2

LEMMA NewRunFacts ==
    ASSUME NEW c \in Configs \cup {NoConfig}
    PROVE  /\ NewRun(c) \in RunObjects
           /\ NewRun(c).conn = NoAddr
           /\ NewRun(c).procLock = FALSE
           /\ NewRun(c).infoLock = FALSE
           /\ NewRun(c).addr = c.addr
<1>1. c.enable \in BOOLEAN /\ c.addr \in Addrs \cup {NoAddr}
  <2>1. CASE c \in Configs
    BY <2>1 DEF Configs
  <2>2. CASE c = NoConfig
    BY <2>2 DEF NoConfig
  <2> QED
    BY <2>1, <2>2
<1> QED
  BY <1>1 DEF NewRun, RunObjects
-----------------------------------------------------------------------------
(* A view of a configuration gives check_cfg an enable flag and an address *)
(* of the configuration of the link or of the one that replaces it.        *)
LEMMA ViewFacts ==
    ASSUME TypeOK, NEW l \in Links, NEW v \in Views
    PROVE  /\ ViewOf(l, v).enable \in BOOLEAN
           /\ ViewOf(l, v).copied \in Addrs \cup {NoAddr}
           /\ \/ ViewOf(l, v).copied = cfg[l].addr
              \/ ui.pc = "writing" /\ ui.link = l /\ ViewOf(l, v).copied = ui.draft.addr
<1>1. \A c \in Configs \cup {NoConfig} :
         c.enable \in BOOLEAN /\ c.addr \in Addrs \cup {NoAddr}
  <2>1. \A c \in Configs : c.enable \in BOOLEAN /\ c.addr \in Addrs \cup {NoAddr}
    BY DEF Configs
  <2>2. NoConfig.enable \in BOOLEAN /\ NoConfig.addr \in Addrs \cup {NoAddr}
    BY DEF NoConfig
  <2> QED
    BY <2>1, <2>2
<1>2. cfg[l] \in Configs \cup {NoConfig} /\ ui.draft \in Configs \cup {NoConfig}
  BY DEF TypeOK
<1>3. CASE ui.pc = "writing" /\ ui.link = l
  <2>1. /\ v.enable \in {cfg[l].enable, ui.draft.enable}
        /\ v.copied \in {cfg[l].addr, ui.draft.addr}
    BY <1>3 DEF Views
  <2>2. ViewOf(l, v) = v
    BY <1>3 DEF ViewOf
  <2> QED
    BY <1>1, <1>2, <1>3, <2>1, <2>2
<1>4. CASE ~(ui.pc = "writing" /\ ui.link = l)
  <2>1. ViewOf(l, v).enable = cfg[l].enable /\ ViewOf(l, v).copied = cfg[l].addr
    BY <1>4 DEF ViewOf
  <2> QED
    BY <1>1, <1>2, <2>1
<1> QED
  BY <1>3, <1>4

(* What CheckDeleteList does to the list: at most one entry leaves it, and *)
(* its run object, which nobody uses, is the one that is deleted.          *)
LEMMA DeleteListFacts ==
    ASSUME TypeOK, NEW gone \in SUBSET Links, CheckDeleteList(gone)
    PROVE  \/ gone = {} /\ deleteList' = deleteList
           \/ \E i \in DOMAIN deleteList :
                 /\ gone = {deleteList[i].run} \ {NoLink}
                 /\ deleteList' = Without(deleteList, i)
                 /\ \A l \in gone : ~InUse(l)
<1>1. \A i \in Deletable : \A l \in {deleteList[i].run} \ {NoLink} : ~InUse(l)
  BY DEF Deletable
<1> QED
  BY <1>1 DEF CheckDeleteList, IsFirstOf

(* Run_Proc_Get deletes what gone names and, if a link is ready, locks the *)
(* one whose turn it is for the worker. Nothing else changes that matters  *)
(* to who owns a link and where it is connected.                           *)
GetEffect(w, gone) ==
    /\ CheckDeleteList(gone)
    /\ freed' = freed \cup gone
    /\ clients' = Disconnect(gone)
    /\ run' \in [Links -> RunObjects]
    /\ \A k \in Links :
          /\ run'[k].infoLock = run[k].infoLock
          /\ run'[k].conn = IF k \in gone THEN NoAddr ELSE run[k].conn
          /\ \/ run'[k].addr = run[k].addr
             \/ k \in runList /\ run'[k].addr = cfg[k].addr
             \/ k \in runList /\ ui.pc = "writing" /\ run'[k].addr = ui.draft.addr
    /\ \/ /\ \A k \in Links : run'[k].procLock = run[k].procLock
          /\ UNCHANGED <<worked, worker>>
       \/ \E l \in runList :
          /\ ~run[l].procLock
          /\ \A k \in Links :
                run'[k].procLock = IF k = l THEN TRUE ELSE run[k].procLock
          /\ worked' = WorkDone(l)
          /\ worker' = [worker EXCEPT ![w] = [pc |-> "held", link |-> l]]
    /\ UNCHANGED <<runList, young, watcher, uivars>>

LEMMA GetFacts ==
    ASSUME TypeOK, NEW w \in Workers, Run_Proc_Get(w)
    PROVE  \E gone \in SUBSET Links : GetEffect(w, gone)
<1>1. PICK gone \in SUBSET Links, v \in Views :
          /\ CheckDeleteList(gone)
          /\ freed' = freed \cup gone
          /\ clients' = Disconnect(gone)
          /\ Scan(w, v, gone)
  BY DEF Run_Proc_Get
<1> DEFINE seen == [l \in Links |-> CheckCfg(run[l], ViewOf(l, v))]
           ready == {l \in runList : Eligible(seen[l], w \in Connectors)}
           Passed(l) == IF l \in gone THEN Close(run[l])
                        ELSE IF l \in Scanned(ready) THEN seen[l] ELSE run[l]
<1>2. /\ run \in [Links -> RunObjects]
      /\ runList \subseteq Links
  BY DEF TypeOK
<1>3. \A k \in Links :
         /\ seen[k] \in RunObjects
         /\ seen[k].conn = run[k].conn
         /\ seen[k].procLock = run[k].procLock
         /\ seen[k].infoLock = run[k].infoLock
         /\ \/ seen[k].addr = run[k].addr
            \/ seen[k].addr = cfg[k].addr
            \/ ui.pc = "writing" /\ seen[k].addr = ui.draft.addr
  BY <1>2, ViewFacts, CheckCfgFacts
<1>4. Scanned(ready) \subseteq runList
  BY DEF Scanned
<1>5. \A k \in Links :
         /\ Passed(k) \in RunObjects
         /\ Passed(k).procLock = run[k].procLock
         /\ Passed(k).infoLock = run[k].infoLock
         /\ Passed(k).conn = IF k \in gone THEN NoAddr ELSE run[k].conn
         /\ \/ Passed(k).addr = run[k].addr
            \/ k \in runList /\ Passed(k).addr = cfg[k].addr
            \/ k \in runList /\ ui.pc = "writing" /\ Passed(k).addr = ui.draft.addr
  <2> TAKE k \in Links
  <2>1. CASE k \in gone
    BY <1>2, <2>1, CloseFacts
  <2>2. CASE k \notin gone /\ k \in Scanned(ready)
    BY <1>3, <1>4, <2>2
  <2>3. CASE k \notin gone /\ k \notin Scanned(ready)
    BY <1>2, <2>3
  <2> QED
    BY <2>1, <2>2, <2>3
<1>6. \A l \in ready : l \in runList /\ ~run[l].procLock
  BY <1>2, <1>3 DEF Eligible
<1>7. \/ /\ run' = [l \in Links |-> Passed(l)]
         /\ UNCHANGED <<worked, worker>>
      \/ \E l \in ready :
         /\ run' = [k \in Links |-> IF k = l THEN [Passed(k) EXCEPT !.procLock = TRUE]
                                    ELSE Passed(k)]
         /\ worked' = WorkDone(l)
         /\ worker' = [worker EXCEPT ![w] = [pc |-> "held", link |-> l]]
  BY <1>1 DEF Scan
<1>8. UNCHANGED <<runList, young, watcher, uivars>>
  BY DEF Run_Proc_Get
<1> HIDE DEF seen, ready, Passed
<1>9. CASE /\ run' = [l \in Links |-> Passed(l)]
           /\ UNCHANGED <<worked, worker>>
  <2>1. GetEffect(w, gone)
    BY <1>1, <1>5, <1>8, <1>9 DEF GetEffect
  <2> QED
    BY <2>1
<1>10. ASSUME NEW l \in ready,
              run' = [k \in Links |-> IF k = l THEN [Passed(k) EXCEPT !.procLock = TRUE]
                                      ELSE Passed(k)],
              worked' = WorkDone(l),
              worker' = [worker EXCEPT ![w] = [pc |-> "held", link |-> l]]
       PROVE  GetEffect(w, gone)
  <2>1. \A r \in RunObjects :
           /\ [r EXCEPT !.procLock = TRUE] \in RunObjects
           /\ [r EXCEPT !.procLock = TRUE].procLock = TRUE
           /\ [r EXCEPT !.procLock = TRUE].infoLock = r.infoLock
           /\ [r EXCEPT !.procLock = TRUE].conn = r.conn
           /\ [r EXCEPT !.procLock = TRUE].addr = r.addr
    BY DEF RunObjects
  <2>2. \A k \in Links :
           /\ run'[k] \in RunObjects
           /\ run'[k].procLock = IF k = l THEN TRUE ELSE run[k].procLock
           /\ run'[k].infoLock = run[k].infoLock
           /\ run'[k].conn = IF k \in gone THEN NoAddr ELSE run[k].conn
           /\ \/ run'[k].addr = run[k].addr
              \/ k \in runList /\ run'[k].addr = cfg[k].addr
              \/ k \in runList /\ ui.pc = "writing" /\ run'[k].addr = ui.draft.addr
    <3> TAKE k \in Links
    <3>1. CASE k = l
      <4>1. run'[k] = [Passed(k) EXCEPT !.procLock = TRUE]
        BY <1>10, <3>1
      <4>2. Passed(k) \in RunObjects
        BY <1>5
      <4>3. /\ run'[k] \in RunObjects
            /\ run'[k].procLock = TRUE
            /\ run'[k].infoLock = Passed(k).infoLock
            /\ run'[k].conn = Passed(k).conn
            /\ run'[k].addr = Passed(k).addr
        BY <2>1, <4>1, <4>2
      <4> QED
        BY <1>5, <3>1, <4>3
    <3>2. CASE k # l
      BY <1>5, <1>10, <3>2
    <3> QED
      BY <3>1, <3>2
  <2>3. run' \in [Links -> RunObjects]
    BY <1>10, <2>2
  <2> QED
    BY <1>1, <1>6, <1>8, <1>10, <2>2, <2>3 DEF GetEffect
<1> QED
  BY <1>7, <1>9, <1>10
-----------------------------------------------------------------------------
(* Steps that move no link: they may set the flags of run objects that     *)
(* neither lock it nor connect it.                                         *)
SameOwnership ==
    /\ run' \in [Links -> RunObjects]
    /\ \A k \in Links : /\ run'[k].procLock = run[k].procLock
                        /\ run'[k].conn = run[k].conn
                        /\ run'[k].addr = run[k].addr
    /\ UNCHANGED <<clients, worker, runList, worked, deleteList, freed>>

LEMMA InvBase ==
    ASSUME IInv
    PROVE  /\ TypeOK /\ ExclusiveWork /\ Placed /\ HeldLinks
           /\ Opening /\ Configured /\ AddressTable
  BY DEF IInv

LEMMA QuietStep ==
    ASSUME IInv, SameOwnership, UNCHANGED <<cfg, listed, ui>>,
           young' \in BOOLEAN, edits' \in Nat,
           watcher' \in [Watchers -> MaybeLinks]
    PROVE  IInv'
<1> USE DEF SameOwnership
<1>1. TypeOK'
  BY DEF IInv, TypeOK
<1>2. ExclusiveWork'
  BY DEF IInv, ExclusiveWork, Holds
<1>3. Placed'
  BY DEF IInv, Placed, NoDoubleDelete
<1>4. Known' = Known
  BY DEF Known, Waiting
<1>5. HeldLinks'
  BY <1>4 DEF IInv, HeldLinks
<1>6. Opening'
  BY DEF IInv, Opening, HeldLinks, IsOpen
<1>7. Configured'
  BY <1>4 DEF IInv, Configured, IsOpen
<1>8. AddressTable'
  <2>1. \A a \in Addrs : clients[a] # NoLink => clients[a] \in Links
    BY DEF IInv, TypeOK, MaybeLinks
  <2> QED
    BY <2>1 DEF IInv, AddressTable
<1> QED
  BY <1>1, <1>2, <1>3, <1>5, <1>6, <1>7, <1>8 DEF IInv

(* A step of worker w on its link l, without giving it back.               *)
OnlyMoves(l) ==
    /\ run' \in [Links -> RunObjects]
    /\ \A k \in Links : /\ run'[k].procLock = run[k].procLock
                        /\ run'[k].addr = run[k].addr
                        /\ k # l => run'[k].conn = run[k].conn

LEMMA WorkerMoves ==
    ASSUME IInv, NEW w \in Workers, NEW l, l = worker[w].link,
           worker[w].pc # "get",
           NEW pc \in {"held", "opening", "connecting", "data", "release"},
           worker' = [worker EXCEPT ![w].pc = pc],
           OnlyMoves(l),
           clients' \in [Addrs -> MaybeLinks],
           UNCHANGED <<watcher, poolvars, uivars>>
    PROVE  /\ TypeOK' /\ ExclusiveWork' /\ Placed' /\ HeldLinks' /\ Configured'
           /\ \A v \in Workers : v # w => worker'[v] = worker[v]
           /\ worker'[w].pc = pc /\ worker'[w].link = l
           /\ l \in Links
           /\ \A v \in Workers : v # w /\ worker[v].pc # "get" => worker[v].link # l
<1> USE DEF poolvars, uivars, OnlyMoves
<1>1. worker \in [Workers -> [pc : {"get", "held", "opening", "connecting", "data", "release"},
                             link : MaybeLinks]]
  BY DEF IInv, TypeOK
<1>2. /\ \A v \in Workers : v # w => worker'[v] = worker[v]
      /\ worker'[w].pc = pc /\ worker'[w].link = l
      /\ worker' \in [Workers -> [pc : {"get", "held", "opening", "connecting", "data", "release"},
                             link : MaybeLinks]]
  BY <1>1
<1>3. TypeOK'
  BY <1>2 DEF IInv, TypeOK
<1>4. \A v \in Workers, k \in Links : Holds(v, k)' <=> Holds(v, k)
  BY <1>2 DEF Holds
<1>5. ExclusiveWork'
  BY <1>4 DEF IInv, ExclusiveWork
<1>6. Placed'
  BY DEF IInv, Placed, NoDoubleDelete
<1>7. Known' = Known
  BY DEF Known, Waiting
<1>8. HeldLinks'
  BY <1>2, <1>7 DEF IInv, HeldLinks
<1>9. l \in Links \cap Known
  BY DEF IInv, HeldLinks
<1>10. Configured'
  BY <1>7, <1>9 DEF IInv, Configured, IsOpen
<1>11. \A v \in Workers : v # w /\ worker[v].pc # "get" => worker[v].link # l
  BY <1>9 DEF IInv, ExclusiveWork, Holds
<1> QED
  BY <1>2, <1>3, <1>5, <1>6, <1>8, <1>9, <1>10, <1>11

(* Taking the connections of some links out of the table.                  *)
LEMMA DisconnectFacts ==
    ASSUME TypeOK, AddressTable, NEW links \in SUBSET Links,
           clients' = Disconnect(links),
           \A k \in Links \ links : run'[k].conn = run[k].conn
    PROVE  clients' \in [Addrs -> MaybeLinks] /\ AddressTable'
<1>1. clients' \in [Addrs -> MaybeLinks]
  BY DEF TypeOK, Disconnect, MaybeLinks
<1>2. ASSUME NEW a \in Addrs, clients'[a] # NoLink
      PROVE  run'[clients'[a]].conn = a
  <2>1. clients'[a] = clients[a] /\ clients[a] \notin links
    BY <1>2 DEF Disconnect
  <2>2. clients[a] \in Links
    BY <1>2, <2>1 DEF TypeOK, MaybeLinks
  <2> QED
    BY <1>2, <2>1, <2>2 DEF AddressTable
<1> QED
  BY <1>1, <1>2 DEF AddressTable
-----------------------------------------------------------------------------
(* The threads that look at links, and time, move no link.                 *)
SameLink(q, r) ==
    /\ q \in RunObjects
    /\ q.procLock = r.procLock /\ q.conn = r.conn /\ q.addr = r.addr

LEMMA FlagFacts ==
    ASSUME NEW r \in RunObjects, NEW b \in BOOLEAN
    PROVE  /\ SameLink([r EXCEPT !.infoLock = b], r)
           /\ SameLink([r EXCEPT !.silent = b], r)
           /\ SameLink([r EXCEPT !.rested = b], r)
           /\ SameLink([r EXCEPT !.dead = b], r)
           /\ SameLink([r EXCEPT !.stale = b], r)
           /\ SameLink([r EXCEPT !.reconnect = b], r)
  BY DEF RunObjects, SameLink

LEMMA FlagStep ==
    ASSUME run \in [Links -> RunObjects], NEW l \in Links, NEW q,
           SameLink(q, run[l]), run' = [run EXCEPT ![l] = q],
           UNCHANGED <<clients, worker, runList, worked, deleteList, freed>>
    PROVE  SameOwnership
  BY DEF SameOwnership, SameLink

LEMMA InfoStepInv == ASSUME IInv, InfoStep PROVE IInv'
<1>1. run \in [Links -> RunObjects] /\ young \in BOOLEAN /\ edits \in Nat
      /\ watcher \in [Watchers -> MaybeLinks]
  BY DEF IInv, TypeOK
<1>2. ASSUME NEW u \in Watchers, NEW l \in Links, Run_Info_Get(u, l) PROVE IInv'
  <2>1. SameOwnership
    BY <1>1, <1>2, FlagFacts, FlagStep DEF Run_Info_Get, poolvars
  <2>2. watcher' \in [Watchers -> MaybeLinks]
    BY <1>1, <1>2 DEF Run_Info_Get, MaybeLinks
  <2> QED
    BY <1>1, <1>2, <2>1, <2>2, QuietStep DEF Run_Info_Get, poolvars, uivars
<1>3. ASSUME NEW u \in Watchers, Run_Info_Release(u) PROVE IInv'
  <2>1. watcher[u] \in Links
    BY <1>1, <1>3 DEF Run_Info_Release, MaybeLinks
  <2>2. SameOwnership
    BY <1>1, <1>3, <2>1, FlagFacts, FlagStep DEF Run_Info_Release, poolvars
  <2>3. watcher' \in [Watchers -> MaybeLinks]
    BY <1>1, <1>3 DEF Run_Info_Release, MaybeLinks
  <2> QED
    BY <1>1, <1>3, <2>2, <2>3, QuietStep DEF Run_Info_Release, poolvars, uivars
<1> QED
  BY <1>2, <1>3 DEF InfoStep

LEMMA TimeStepInv == ASSUME IInv, TimeStep PROVE IInv'
<1>1. run \in [Links -> RunObjects] /\ young \in BOOLEAN /\ edits \in Nat
      /\ watcher \in [Watchers -> MaybeLinks]
  BY DEF IInv, TypeOK
<1>2. CASE GrowUp
  BY <1>1, <1>2, QuietStep DEF GrowUp, SameOwnership, uivars
<1>3. ASSUME NEW l \in Links, Silence(l) \/ Rest(l) \/ PeerDies(l) PROVE IInv'
  <2>1. UNCHANGED <<clients, worker, watcher, poolvars, uivars>>
    BY <1>3 DEF Silence, Rest, PeerDies
  <2>2. \/ run' = [run EXCEPT ![l] = [@ EXCEPT !.silent = TRUE]]
        \/ run' = [run EXCEPT ![l] = [@ EXCEPT !.rested = TRUE]]
        \/ run' = [run EXCEPT ![l] = [@ EXCEPT !.dead = TRUE]]
    BY <1>3 DEF Silence, Rest, PeerDies
  <2>3. SameOwnership
    BY <1>1, <2>1, <2>2, FlagFacts, FlagStep DEF poolvars
  <2> QED
    BY <1>1, <2>1, <2>3, QuietStep DEF poolvars, uivars
<1> QED
  BY <1>2, <1>3 DEF TimeStep

-----------------------------------------------------------------------------
(* The configuration interface.                                            *)
LEMMA CfgAddInv ==
    ASSUME IInv, NEW l \in Links, NEW c \in Configs, Cfg_Add(l, c) PROVE IInv'
<1> USE DEF Cfg_Add
<1>1. c \in Configs \cup {NoConfig} /\ NewRun(c) \in RunObjects
      /\ NewRun(c).conn = NoAddr /\ NewRun(c).procLock = FALSE /\ NewRun(c).addr = c.addr
  BY NewRunFacts
<1>2. c.addr \in Addrs
  BY DEF Configs
<1>3. run \in [Links -> RunObjects] /\ cfg \in [Links -> Configs \cup {NoConfig}]
      /\ edits \in Nat
  BY DEF IInv, TypeOK
<1>4. TypeOK'
  BY <1>1, <1>3 DEF IInv, TypeOK, Edit
<1>5. Known' = Known \cup {l}
  BY DEF Known, Waiting
<1>6. \A w \in Workers : ~Holds(w, l)
  BY DEF IInv, HeldLinks, Holds
<1>7. ExclusiveWork'
  BY <1>1, <1>3, <1>6 DEF IInv, ExclusiveWork, Holds
<1>8. l \notin freed /\ l # ui.run /\ \A i \in DOMAIN deleteList : deleteList[i].run # l
  BY DEF Known, Waiting
<1>9. Placed'
  BY <1>8 DEF IInv, Placed, NoDoubleDelete
<1>10. HeldLinks'
  BY <1>5 DEF IInv, HeldLinks
<1>11. Opening'
  BY <1>3, <1>6 DEF IInv, Opening, Holds, IsOpen
<1>12. Configured'
  BY <1>1, <1>2, <1>3, <1>5 DEF IInv, Configured, IsOpen
<1>13. AddressTable'
  <2>1. ~IsOpen(run[l])
    BY DEF IInv, Configured
  <2>2. \A a \in Addrs : clients[a] # l
    BY <2>1, PoolAssumption DEF IInv, AddressTable, IsOpen, TypeOK
  <2> QED
    BY <1>3, <2>2 DEF IInv, AddressTable, TypeOK, MaybeLinks
<1> QED
  BY <1>4, <1>7, <1>9, <1>10, <1>11, <1>12, <1>13 DEF IInv

LEMMA CfgModifyInv ==
    ASSUME IInv, NEW l \in Links, NEW c \in Configs, Cfg_Modify(l, c) PROVE IInv'
<1> USE DEF Cfg_Modify, poolvars
<1>1. ui = Idle /\ ui' = [Idle EXCEPT !.pc = "writing", !.link = l, !.draft = c]
  BY DEF Edit
<1>2. ui.run = NoLink /\ ui'.run = NoLink /\ ui'.pc = "writing"
      /\ ui'.link = l /\ ui'.draft = c
  BY <1>1 DEF Idle
<1>3. TypeOK'
  <2>1. ui' \in [pc : {"idle", "writing", "erased", "removed"}, link : MaybeLinks,
                 cfg : MaybeLinks, run : MaybeLinks, draft : Configs \cup {NoConfig}]
    BY <1>1 DEF Idle, MaybeLinks
  <2> QED
    BY <2>1 DEF IInv, TypeOK, Edit
<1>4. ExclusiveWork' /\ Opening'
  BY DEF IInv, ExclusiveWork, Holds, Opening, IsOpen
<1>5. Placed'
  BY <1>2 DEF IInv, Placed, NoDoubleDelete
<1>6. Known' = Known
  BY <1>2 DEF Known, Waiting
<1>7. HeldLinks'
  BY <1>6 DEF IInv, HeldLinks
<1>8. Configured'
  BY <1>2, <1>6 DEF IInv, Configured, IsOpen
<1>9. AddressTable'
  BY DEF IInv, AddressTable
<1> QED
  BY <1>3, <1>4, <1>5, <1>7, <1>8, <1>9 DEF IInv

LEMMA RefreshInv == ASSUME IInv, RefreshCfgTs PROVE IInv'
<1> USE DEF RefreshCfgTs, poolvars
<1> DEFINE l == ui.link
<1>1. l \in Links \cap Known /\ ui.draft \in Configs
  BY DEF IInv, Configured
<1>2. run \in [Links -> RunObjects] /\ cfg \in [Links -> Configs \cup {NoConfig}]
  BY DEF IInv, TypeOK
<1>3. SameOwnership
  BY <1>1, <1>2, FlagFacts, FlagStep
<1>4. ui.run = NoLink /\ ui'.run = NoLink /\ ui'.pc = "idle"
  BY DEF IInv, Placed, Idle
<1>5. cfg' \in [Links -> Configs \cup {NoConfig}]
  BY <1>1, <1>2
<1>6. TypeOK'
  BY <1>3, <1>5 DEF IInv, TypeOK, Idle, MaybeLinks, SameOwnership, NoConfig
<1>7. ExclusiveWork' /\ Opening'
  BY <1>3 DEF IInv, ExclusiveWork, Holds, Opening, IsOpen, SameOwnership, HeldLinks
<1>8. Placed'
  BY <1>4 DEF IInv, Placed, NoDoubleDelete
<1>9. Known' = Known
  BY <1>4 DEF Known, Waiting
<1>10. HeldLinks'
  BY <1>9 DEF IInv, HeldLinks
<1>11. Configured'
  BY <1>1, <1>2, <1>3, <1>4, <1>9 DEF IInv, Configured, IsOpen, SameOwnership
<1>12. AddressTable'
  BY <1>3 DEF IInv, AddressTable, TypeOK, MaybeLinks, SameOwnership
<1> QED
  BY <1>6, <1>7, <1>8, <1>10, <1>11, <1>12 DEF IInv

LEMMA ReconnectInv ==
    ASSUME IInv, NEW links, Run_Reconnect(links) PROVE IInv'
<1>1. run \in [Links -> RunObjects] /\ young \in BOOLEAN /\ edits \in Nat
      /\ watcher \in [Watchers -> MaybeLinks]
  BY DEF IInv, TypeOK
<1>2. SameOwnership
  BY <1>1, FlagFacts DEF Run_Reconnect, SameOwnership, SameLink, poolvars
<1> QED
  BY <1>1, <1>2, QuietStep DEF Run_Reconnect, Edit, poolvars

LEMMA CfgDeleteInv ==
    ASSUME IInv, NEW l \in Links, Cfg_Delete(l) PROVE IInv'
<1> USE DEF Cfg_Delete, poolvars
<1>1. ui = Idle /\ edits' \in Nat
  BY DEF Edit, IInv, TypeOK
<1>2. /\ ui.run = NoLink /\ ui'.run = NoLink /\ ui'.pc = "erased"
      /\ ui' \in [pc : {"idle", "writing", "erased", "removed"}, link : MaybeLinks,
                  cfg : MaybeLinks, run : MaybeLinks, draft : Configs \cup {NoConfig}]
  BY <1>1 DEF Idle, MaybeLinks
<1>3. Known' = Known
  BY <1>2 DEF Known, Waiting
<1>4. cfg \in [Links -> Configs \cup {NoConfig}]
  BY DEF IInv, TypeOK
<1>5. l \in listed => cfg[l] \in Configs /\ [cfg[l] EXCEPT !.enable = FALSE] \in Configs
  BY DEF IInv, Configured, Configs
<1>6. /\ cfg' \in [Links -> Configs \cup {NoConfig}]
      /\ \A k \in Links : cfg[k] \in Configs => cfg'[k] \in Configs
  BY <1>4, <1>5
<1>7. TypeOK'
  BY <1>1, <1>2, <1>6 DEF IInv, TypeOK
<1>8. ExclusiveWork' /\ Opening'
  BY DEF IInv, ExclusiveWork, Holds, Opening, IsOpen
<1>9. Placed'
  BY <1>2 DEF IInv, Placed, NoDoubleDelete
<1>10. HeldLinks'
  BY <1>3 DEF IInv, HeldLinks
<1>11. Configured'
  BY <1>2, <1>3, <1>6 DEF IInv, Configured, IsOpen
<1>12. AddressTable'
  BY DEF IInv, AddressTable
<1> QED
  BY <1>7, <1>8, <1>9, <1>10, <1>11, <1>12 DEF IInv

LEMMA RunRemoveInv == ASSUME IInv, Run_Remove PROVE IInv'
<1> USE DEF Run_Remove
<1>1. /\ ui.run = NoLink /\ ui'.pc = "removed"
      /\ ui'.run = IF ui.link \in runList THEN ui.link ELSE NoLink
      /\ ui' \in [pc : {"idle", "writing", "erased", "removed"}, link : MaybeLinks,
                  cfg : MaybeLinks, run : MaybeLinks, draft : Configs \cup {NoConfig}]
  BY DEF IInv, Placed, TypeOK, MaybeLinks
<1>2. runList \subseteq Links /\ NoLink \notin Links
  BY PoolAssumption DEF IInv, TypeOK
<1>3. Links \cap Known' = Links \cap Known
  BY <1>1, <1>2 DEF Known, Waiting
<1>4. TypeOK'
  BY <1>1, <1>2 DEF IInv, TypeOK
<1>5. ExclusiveWork' /\ Opening'
  BY DEF IInv, ExclusiveWork, Holds, Opening, IsOpen
<1>6. Placed'
  <2>1. NoDoubleDelete'
    BY <1>1, <1>2 DEF IInv, Placed, NoDoubleDelete
  <2>2. ui'.run \notin runList' \cup freed
    BY <1>1, <1>2 DEF IInv, Placed, TypeOK
  <2> QED
    BY <1>1, <2>1, <2>2 DEF IInv, Placed
<1>7. HeldLinks'
  BY <1>3 DEF IInv, HeldLinks
<1>8. Configured'
  <2>1. listed \subseteq Links /\ listed \subseteq Known
    BY DEF IInv, TypeOK, Configured
  <2> QED
    BY <1>1, <1>3, <2>1 DEF IInv, Configured, IsOpen
<1>9. AddressTable'
  BY DEF IInv, AddressTable
<1> QED
  BY <1>4, <1>5, <1>6, <1>7, <1>8, <1>9 DEF IInv

LEMMA PushDeletedInv == ASSUME IInv, PushDeleted PROVE IInv'
<1> USE DEF PushDeleted
<1> DEFINE entry == [cfg |-> ui.cfg, run |-> ui.run]
           n == Len(deleteList)
<1>1. /\ deleteList \in Seq([cfg : MaybeLinks, run : MaybeLinks])
      /\ entry \in [cfg : MaybeLinks, run : MaybeLinks]
  BY DEF IInv, TypeOK
<1>2. /\ n \in Nat /\ DOMAIN deleteList = 1 .. n
      /\ deleteList' = Append(deleteList, entry)
      /\ DOMAIN deleteList' = 1 .. n + 1
      /\ \A i \in 1 .. n : deleteList'[i] = deleteList[i]
      /\ deleteList'[n + 1] = entry
      /\ entry.run = ui.run
  BY <1>1
<1>3. /\ ui'.run = NoLink /\ ui'.pc = "idle"
      /\ ui' \in [pc : {"idle", "writing", "erased", "removed"}, link : MaybeLinks,
                  cfg : MaybeLinks, run : MaybeLinks, draft : Configs \cup {NoConfig}]
  BY DEF Idle, MaybeLinks
<1>4. TypeOK'
  BY <1>1, <1>3 DEF IInv, TypeOK
<1>5. ExclusiveWork' /\ Opening' /\ AddressTable'
  BY DEF IInv, ExclusiveWork, Holds, Opening, IsOpen, AddressTable
<1>6. Placed'
  <2>1. ASSUME NEW i \in 1 .. n + 1, deleteList'[i].run # NoLink
        PROVE  /\ deleteList'[i].run \notin runList \cup freed \cup {ui'.run}
               /\ \A j \in 1 .. n + 1 : deleteList'[j].run = deleteList'[i].run => j = i
    <3>1. \A j \in 1 .. n : deleteList[j].run # NoLink =>
             /\ deleteList[j].run \notin runList \cup freed \cup {ui.run}
             /\ \A k \in 1 .. n : deleteList[k].run = deleteList[j].run => k = j
      BY <1>2 DEF IInv, Placed, NoDoubleDelete
    <3>2. ui.run \notin runList \cup freed
      BY DEF IInv, Placed
    <3>3. CASE i \in 1 .. n
      <4>1. /\ deleteList'[i].run = deleteList[i].run
            /\ deleteList[i].run \notin runList \cup freed \cup {ui.run}
        BY <1>2, <2>1, <3>1, <3>3
      <4>2. ASSUME NEW j \in 1 .. n + 1, deleteList'[j].run = deleteList'[i].run
            PROVE  j = i
        <5>1. j # n + 1
          BY <1>2, <4>1, <4>2
        <5>2. j \in 1 .. n
          BY <1>2, <5>1
        <5> QED
          BY <1>2, <2>1, <3>1, <3>3, <4>1, <4>2, <5>2
      <4> QED
        BY <1>3, <2>1, <4>1, <4>2
    <3>4. CASE i = n + 1
      BY <1>2, <1>3, <2>1, <3>1, <3>2, <3>4
    <3> QED
      BY <3>3, <3>4
  <2>2. NoDoubleDelete'
    BY <1>2, <2>1 DEF NoDoubleDelete
  <2>3. NoLink \notin runList \cup freed
    BY PoolAssumption DEF IInv, TypeOK
  <2> QED
    BY <1>3, <2>2, <2>3 DEF IInv, Placed
<1>7. Links \cap Known' = Links \cap Known
  <2>1. Waiting' = Waiting \cup {ui.run}
    <3>1. \A i \in DOMAIN deleteList' : deleteList'[i].run \in Waiting \cup {ui.run}
      BY <1>2 DEF Waiting
    <3>2. \A i \in DOMAIN deleteList : deleteList[i].run \in Waiting'
      BY <1>2 DEF Waiting
    <3>3. ui.run \in Waiting'
      BY <1>2 DEF Waiting
    <3> QED
      BY <3>1, <3>2, <3>3 DEF Waiting
  <2> QED
    BY <1>3, <2>1, PoolAssumption DEF Known
<1>8. HeldLinks'
  BY <1>7 DEF IInv, HeldLinks
<1>9. Configured'
  <2>1. listed \subseteq Links
    BY DEF IInv, TypeOK
  <2> QED
    BY <1>3, <1>7, <2>1 DEF IInv, Configured, IsOpen
<1> QED
  BY <1>4, <1>5, <1>6, <1>8, <1>9 DEF IInv

LEMMA EditStepInv == ASSUME IInv, EditStep PROVE IInv'
  BY CfgAddInv, CfgModifyInv, RefreshInv, ReconnectInv, CfgDeleteInv,
     RunRemoveInv, PushDeletedInv DEF EditStep

-----------------------------------------------------------------------------
(* The steps of a worker on the link it holds.                             *)
LEMMA PrepareInv == ASSUME IInv, NEW w \in Workers, Prepare(w) PROVE IInv'
<1> DEFINE l == worker[w].link
<1>1. /\ run \in [Links -> RunObjects]
      /\ clients \in [Addrs -> MaybeLinks]
      /\ l \in Links
      /\ worker[w].pc = "held"
      /\ UNCHANGED <<watcher, poolvars, uivars>>
  BY DEF IInv, TypeOK, HeldLinks, Prepare
<1>2. run[l] \in RunObjects
  BY <1>1
<1>3. CASE CloseDisabled(w, l)
  <2>1. OnlyMoves(l)
    BY <1>1, <1>2, <1>3, CloseFacts DEF CloseDisabled, OnlyMoves
  <2>2. clients' \in [Addrs -> MaybeLinks] /\ AddressTable'
    BY <1>1, <1>3, <2>1, DisconnectFacts DEF CloseDisabled, IInv, OnlyMoves
  <2>3. worker' = [worker EXCEPT ![w].pc = "release"]
    BY <1>3 DEF CloseDisabled, Goto
  <2>4. /\ TypeOK' /\ ExclusiveWork' /\ Placed' /\ HeldLinks' /\ Configured'
        /\ \A v \in Workers : v # w => worker'[v] = worker[v]
        /\ worker'[w].pc = "release"
        /\ \A v \in Workers : v # w /\ worker[v].pc # "get" => worker[v].link # l
    BY <1>1, <2>1, <2>2, <2>3, WorkerMoves
  <2>5. Opening'
    BY <2>1, <2>4 DEF IInv, Opening, HeldLinks, IsOpen, OnlyMoves
  <2> QED
    BY <2>2, <2>4, <2>5 DEF IInv
<1>4. CASE StartConnect(w, l)
  <2>3. run' = [run EXCEPT ![l] = Reopening(run[l])]
    BY <1>4 DEF StartConnect
  <2>4. /\ Reopening(run[l]) \in RunObjects
        /\ Reopening(run[l]).conn = NoAddr
        /\ Reopening(run[l]).procLock = run[l].procLock
        /\ Reopening(run[l]).addr = run[l].addr
    BY <1>2, ReopeningFacts
  <2>5. OnlyMoves(l) /\ run'[l].conn = NoAddr
    BY <1>1, <2>3, <2>4 DEF OnlyMoves
  <2>6. clients' \in [Addrs -> MaybeLinks] /\ AddressTable'
    BY <1>1, <1>4, <2>5, DisconnectFacts DEF StartConnect, IInv, OnlyMoves
  <2>7. worker' = [worker EXCEPT ![w].pc = "opening"]
    BY <1>4 DEF StartConnect, Goto
  <2>8. /\ TypeOK' /\ ExclusiveWork' /\ Placed' /\ HeldLinks' /\ Configured'
        /\ \A v \in Workers : v # w => worker'[v] = worker[v]
        /\ worker'[w].pc = "opening" /\ worker'[w].link = l
        /\ \A v \in Workers : v # w /\ worker[v].pc # "get" => worker[v].link # l
    BY <1>1, <2>5, <2>6, <2>7, WorkerMoves
  <2>9. w \in Connectors
    BY <1>4 DEF StartConnect
  <2>10. Opening'
    BY <2>5, <2>8, <2>9 DEF IInv, Opening, HeldLinks, IsOpen, OnlyMoves
  <2> QED
    BY <2>6, <2>8, <2>10 DEF IInv
<1>5. CASE GoOn(w, l)
  <2>1. worker' = [worker EXCEPT ![w].pc = "data"] /\ UNCHANGED <<run, clients>>
    BY <1>5 DEF GoOn, Goto
  <2>2. /\ TypeOK' /\ ExclusiveWork' /\ Placed' /\ HeldLinks' /\ Configured'
        /\ \A v \in Workers : v # w => worker'[v] = worker[v]
        /\ worker'[w].pc = "data"
    <3>1. OnlyMoves(l)
      BY <1>1, <2>1 DEF OnlyMoves
    <3> QED
      BY <1>1, <2>1, <3>1, WorkerMoves
  <2>3. Opening' /\ AddressTable'
    BY <2>1, <2>2 DEF IInv, Opening, IsOpen, AddressTable
  <2> QED
    BY <2>2, <2>3 DEF IInv
<1> QED
  BY <1>3, <1>4, <1>5 DEF Prepare

LEMMA StartOpenInv == ASSUME IInv, NEW w \in Workers, StartOpen(w) PROVE IInv'
<1> DEFINE pc == IF clients[run[worker[w].link].addr] = NoLink
                 THEN "connecting" ELSE "release"
<1>1. /\ worker' = [worker EXCEPT ![w].pc = pc]
      /\ worker[w].pc = "opening"
      /\ UNCHANGED <<run, clients, watcher, poolvars, uivars>>
  BY DEF StartOpen, Goto
<1>2. pc \in {"held", "opening", "connecting", "data", "release"}
  OBVIOUS
<1> HIDE DEF pc
<1>3. /\ TypeOK' /\ ExclusiveWork' /\ Placed' /\ HeldLinks' /\ Configured'
      /\ \A v \in Workers : v # w => worker'[v] = worker[v]
      /\ worker'[w].pc = pc /\ worker'[w].link = worker[w].link
  <2>1. OnlyMoves(worker[w].link) /\ clients' \in [Addrs -> MaybeLinks]
    BY <1>1 DEF IInv, TypeOK, OnlyMoves
  <2> QED
    BY <1>1, <1>2, <2>1, WorkerMoves
<1>4. Opening' /\ AddressTable'
  BY <1>1, <1>3 DEF IInv, Opening, IsOpen, AddressTable
<1> QED
  BY <1>3, <1>4 DEF IInv

(* A worker that is connecting is the only one on its link and finds it    *)
(* closed, with an address to connect to.                                  *)
LEMMA ConnectingFacts ==
    ASSUME IInv, NEW w \in Workers, worker[w].pc = "connecting"
    PROVE  /\ worker[w].link \in Links
           /\ w \in Connectors
           /\ run[worker[w].link].conn = NoAddr
           /\ run[worker[w].link].addr \in Addrs
           /\ \A a \in Addrs : clients[a] # worker[w].link
<1> DEFINE l == worker[w].link
<1>1. l \in Links /\ l \in Known
  BY DEF IInv, HeldLinks
<1>2. w \in Connectors /\ run[l].conn = NoAddr
  BY DEF IInv, Opening, IsOpen
<1>3. run[l].addr \in Addrs
  BY <1>1 DEF IInv, Configured
<1>4. \A a \in Addrs : clients[a] # l
  BY <1>1, <1>2, PoolAssumption DEF IInv, AddressTable
<1> QED
  BY <1>1, <1>2, <1>3, <1>4

LEMMA FinishOpenInv == ASSUME IInv, NEW w \in Workers, FinishOpen(w) PROVE IInv'
<1> DEFINE l == worker[w].link
           a == run[l].addr
           q == [run[l] EXCEPT !.conn = a, !.reconnect = FALSE]
<1>1. /\ run \in [Links -> RunObjects]
      /\ clients \in [Addrs -> MaybeLinks]
      /\ worker[w].pc = "connecting"
      /\ UNCHANGED <<watcher, poolvars, uivars>>
  BY DEF IInv, TypeOK, FinishOpen
<1>2. /\ l \in Links /\ run[l].conn = NoAddr /\ a \in Addrs
      /\ \A b \in Addrs : clients[b] # l
  BY <1>1, ConnectingFacts
<1>3. CASE /\ run' = [run EXCEPT ![l] = q]
           /\ clients' = [clients EXCEPT ![a] = l]
           /\ Goto(w, "data")
  <2>1. q \in RunObjects /\ q.procLock = run[l].procLock /\ q.addr = a /\ q.conn = a
    <3>1. run[l] \in RunObjects
      BY <1>1, <1>2
    <3> QED
      BY <1>2, <3>1 DEF RunObjects
  <2> HIDE DEF q
  <2>2. OnlyMoves(l) /\ run'[l].conn = a
    BY <1>1, <1>2, <1>3, <2>1 DEF OnlyMoves
  <2>3. clients' \in [Addrs -> MaybeLinks]
    BY <1>1, <1>2, <1>3 DEF MaybeLinks
  <2>4. /\ TypeOK' /\ ExclusiveWork' /\ Placed' /\ HeldLinks' /\ Configured'
        /\ \A v \in Workers : v # w => worker'[v] = worker[v]
        /\ worker'[w].pc = "data"
        /\ \A v \in Workers : v # w /\ worker[v].pc # "get" => worker[v].link # l
    BY <1>1, <1>3, <2>2, <2>3, WorkerMoves DEF Goto
  <2>5. Opening'
    BY <2>2, <2>4 DEF IInv, Opening, HeldLinks, IsOpen, OnlyMoves
  <2>6. ASSUME NEW b \in Addrs, clients'[b] # NoLink PROVE run'[clients'[b]].conn = b
    <3>1. CASE b = a
      BY <1>1, <1>3, <2>2, <3>1
    <3>2. CASE b # a
      <4>1. clients'[b] = clients[b] /\ clients[b] \in Links /\ clients[b] # l
        BY <1>1, <1>2, <1>3, <2>6, <3>2 DEF MaybeLinks
      <4> QED
        BY <2>2, <2>6, <4>1 DEF IInv, AddressTable, OnlyMoves
    <3> QED
      BY <3>1, <3>2
  <2>7. AddressTable'
    BY <2>6 DEF AddressTable
  <2> QED
    BY <2>4, <2>5, <2>7 DEF IInv
<1>4. CASE Goto(w, "release") /\ UNCHANGED <<run, clients>>
  <2>1. OnlyMoves(l)
    BY <1>1, <1>4 DEF OnlyMoves
  <2>2. /\ TypeOK' /\ ExclusiveWork' /\ Placed' /\ HeldLinks' /\ Configured'
        /\ \A v \in Workers : v # w => worker'[v] = worker[v]
        /\ worker'[w].pc = "release"
    BY <1>1, <1>4, <2>1, WorkerMoves DEF Goto
  <2>3. Opening' /\ AddressTable'
    BY <1>4, <2>2 DEF IInv, Opening, IsOpen, AddressTable
  <2> QED
    BY <2>2, <2>3 DEF IInv
<1>5. run' = [run EXCEPT ![l].conn = run[l].addr, ![l].reconnect = FALSE]
         => run' = [run EXCEPT ![l] = q]
  BY <1>1, <1>2 DEF RunObjects
<1> QED
  BY <1>3, <1>4, <1>5 DEF FinishOpen

LEMMA TransferInv == ASSUME IInv, NEW w \in Workers, Transfer(w) PROVE IInv'
<1> DEFINE l == worker[w].link
<1>1. /\ run \in [Links -> RunObjects]
      /\ clients \in [Addrs -> MaybeLinks]
      /\ l \in Links
      /\ worker[w].pc = "data"
      /\ worker' = [worker EXCEPT ![w].pc = "release"]
      /\ UNCHANGED <<watcher, poolvars, uivars>>
  BY DEF IInv, TypeOK, HeldLinks, Transfer, Goto
<1>2. /\ OnlyMoves(l) /\ (run'[l].conn = run[l].conn \/ run'[l].conn = NoAddr)
      /\ clients' \in [Addrs -> MaybeLinks]
      /\ AddressTable'
  <2>1. CASE UNCHANGED <<run, clients>>
    BY <1>1, <2>1 DEF IInv, AddressTable, OnlyMoves
  <2>2. CASE run' = [run EXCEPT ![l].silent = FALSE] /\ UNCHANGED clients
    <3>1. /\ run' \in [Links -> RunObjects]
          /\ \A k \in Links : SameLink(run'[k], run[k])
      <4>1. \A k \in Links : run[k] \in RunObjects
        BY <1>1
      <4>2. SameLink([run[l] EXCEPT !.silent = FALSE], run[l])
        BY <1>1, <4>1, FlagFacts
      <4>3. \A k \in Links : SameLink(run'[k], run[k])
        BY <1>1, <2>2, <4>1, <4>2 DEF SameLink
      <4> QED
        BY <1>1, <2>2, <4>3 DEF SameLink
    <3> QED
      BY <1>1, <2>2, <3>1 DEF IInv, AddressTable, OnlyMoves, SameLink, MaybeLinks
  <2>3. CASE run' = [run EXCEPT ![l] = Close(@)] /\ clients' = Disconnect({l})
    <3>1. run[l] \in RunObjects
      BY <1>1
    <3>2. OnlyMoves(l) /\ run'[l].conn = NoAddr
      BY <1>1, <2>3, <3>1, CloseFacts DEF OnlyMoves
    <3> QED
      BY <1>1, <2>3, <3>2, DisconnectFacts DEF IInv, OnlyMoves
  <2> QED
    BY <2>1, <2>2, <2>3 DEF Transfer
<1>3. /\ TypeOK' /\ ExclusiveWork' /\ Placed' /\ HeldLinks' /\ Configured'
      /\ \A v \in Workers : v # w => worker'[v] = worker[v]
      /\ worker'[w].pc = "release"
      /\ \A v \in Workers : v # w /\ worker[v].pc # "get" => worker[v].link # l
  BY <1>1, <1>2, WorkerMoves
<1>4. Opening'
  BY <1>2, <1>3 DEF IInv, Opening, HeldLinks, IsOpen, OnlyMoves
<1> QED
  BY <1>2, <1>3, <1>4 DEF IInv

(* The worker that gives a link back was the only one that held it.        *)
LEMMA ReleaseFacts ==
    ASSUME IInv, NEW w \in Workers, Run_Proc_Release(w)
    PROVE  /\ worker[w].link \in Links
           /\ run' \in [Links -> RunObjects]
           /\ run'[worker[w].link].procLock = FALSE
           /\ \A k \in Links : /\ run'[k].conn = run[k].conn
                               /\ run'[k].addr = run[k].addr
                               /\ k # worker[w].link =>
                                     run'[k].procLock = run[k].procLock
           /\ worker'[w].pc = "get"
           /\ \A v \in Workers : v # w => worker'[v] = worker[v]
           /\ \A v \in Workers : v # w => ~Holds(v, worker[w].link)
<1>1. /\ run \in [Links -> RunObjects]
      /\ worker \in [Workers -> [pc : {"get", "held", "opening", "connecting", "data", "release"},
                             link : MaybeLinks]]
      /\ worker[w].pc = "release"
      /\ worker[w].link \in Links
  BY DEF IInv, TypeOK, HeldLinks, Run_Proc_Release
<1>2. LET q == [run[worker[w].link] EXCEPT !.procLock = FALSE] IN
      /\ run' = [run EXCEPT ![worker[w].link] = q]
      /\ q \in RunObjects /\ q.procLock = FALSE
      /\ q.conn = run[worker[w].link].conn /\ q.addr = run[worker[w].link].addr
  <2>1. run[worker[w].link] \in RunObjects
    BY <1>1
  <2> QED
    BY <2>1 DEF Run_Proc_Release, RunObjects
<1>3. \A v \in Workers : v # w => ~Holds(v, worker[w].link)
  BY <1>1 DEF IInv, ExclusiveWork, Holds
<1> QED
  BY <1>1, <1>2, <1>3 DEF Run_Proc_Release

LEMMA ReleaseInv == ASSUME IInv, NEW w \in Workers, Run_Proc_Release(w) PROVE IInv'
<1> DEFINE l == worker[w].link
<1>0. /\ l \in Links /\ l = worker[w].link
      /\ run' \in [Links -> RunObjects]
      /\ run'[l].procLock = FALSE
      /\ \A k \in Links : /\ run'[k].conn = run[k].conn
                          /\ run'[k].addr = run[k].addr
                          /\ k # l => run'[k].procLock = run[k].procLock
      /\ worker'[w].pc = "get"
      /\ \A v \in Workers : v # w => worker'[v] = worker[v]
      /\ \A v \in Workers : v # w => ~Holds(v, l)
  BY ReleaseFacts
<1> HIDE DEF l
<1>1. UNCHANGED <<clients, watcher, poolvars, uivars>>
  BY DEF Run_Proc_Release
<1>2. TypeOK'
  <2>1. worker' \in [Workers ->
           [pc : {"get", "held", "opening", "connecting", "data", "release"},
            link : MaybeLinks]]
    BY DEF IInv, TypeOK, Run_Proc_Release, MaybeLinks
  <2> QED
    BY <1>0, <1>1, <2>1 DEF IInv, TypeOK, poolvars, uivars
<1>3. ExclusiveWork'
  <2>1. \A v \in Workers, k \in Links : Holds(v, k)' <=> v # w /\ Holds(v, k)
    BY <1>0 DEF Holds
  <2>2. \A k \in Links : k # l => ~Holds(w, k)
    BY <1>0 DEF Holds
  <2> QED
    BY <1>0, <2>1, <2>2 DEF IInv, ExclusiveWork
<1>4. Known' = Known
  BY <1>1 DEF Known, Waiting, poolvars, uivars
<1>5. Placed'
  BY <1>1 DEF IInv, Placed, NoDoubleDelete, poolvars, uivars
<1>6. HeldLinks'
  BY <1>0, <1>1, <1>4 DEF IInv, HeldLinks, poolvars
<1>7. Opening'
  BY <1>0 DEF IInv, Opening, HeldLinks, IsOpen
<1>8. Configured'
  BY <1>0, <1>1, <1>4 DEF IInv, Configured, IsOpen, uivars
<1>9. AddressTable'
  BY <1>0, <1>1 DEF IInv, AddressTable, TypeOK, MaybeLinks
<1> QED
  BY <1>2, <1>3, <1>5, <1>6, <1>7, <1>8, <1>9 DEF IInv

(* Objects that leave m_DeleteList to be deleted are in none of the other  *)
(* lists, and nobody holds them.                                           *)
LEMMA SweepFacts ==
    ASSUME IInv, NEW gone \in SUBSET Links, CheckDeleteList(gone),
           freed' = freed \cup gone, UNCHANGED <<runList, ui>>
    PROVE  /\ gone \cap runList = {} /\ ui.run \notin gone
           /\ \A w \in Workers, l \in gone : ~Holds(w, l)
           /\ \A l \in gone : ~run[l].procLock /\ ~run[l].infoLock
           /\ Placed'
           /\ Links \cap Known' = Links \cap Known
           /\ deleteList' \in Seq([cfg : MaybeLinks, run : MaybeLinks])
<1> DEFINE n == Len(deleteList)
<1>1. /\ deleteList \in Seq([cfg : MaybeLinks, run : MaybeLinks])
      /\ n \in Nat /\ DOMAIN deleteList = 1 .. n
      /\ NoLink \notin Links
  <2>1. deleteList \in Seq([cfg : MaybeLinks, run : MaybeLinks])
    BY DEF IInv, TypeOK
  <2>2. n \in Nat /\ DOMAIN deleteList = 1 .. n
    BY <2>1
  <2>3. NoLink \notin Links
    BY PoolAssumption
  <2> QED
    BY <2>1, <2>2, <2>3
<1>2. /\ \A i \in 1 .. n : deleteList[i].run # NoLink =>
            /\ deleteList[i].run \notin runList \cup freed \cup {ui.run}
            /\ \A j \in 1 .. n : deleteList[j].run = deleteList[i].run => j = i
      /\ runList \cap freed = {} /\ ui.run \notin runList \cup freed
      /\ ui.pc # "removed" => ui.run = NoLink
  BY <1>1 DEF IInv, Placed, NoDoubleDelete
<1>3. CASE gone = {} /\ deleteList' = deleteList
  BY <1>1, <1>3 DEF IInv, Placed, NoDoubleDelete, Known, Waiting
<1>4. ASSUME NEW i \in 1 .. n, gone = {deleteList[i].run} \ {NoLink},
             deleteList' = Without(deleteList, i), \A l \in gone : ~InUse(l)
      PROVE  /\ gone \cap runList = {} /\ ui.run \notin gone
             /\ \A w \in Workers, l \in gone : ~Holds(w, l)
             /\ \A l \in gone : ~run[l].procLock /\ ~run[l].infoLock
             /\ Placed'
             /\ Links \cap Known' = Links \cap Known
             /\ deleteList' \in Seq([cfg : MaybeLinks, run : MaybeLinks])
  <2>1. gone \cap runList = {} /\ ui.run \notin gone
    BY <1>2, <1>4
  <2>2. \A l \in gone : ~run[l].procLock /\ ~run[l].infoLock
    BY <1>4 DEF InUse
  <2>3. \A w \in Workers, l \in gone : ~Holds(w, l)
    BY <2>2 DEF IInv, ExclusiveWork
  <2>4. /\ deleteList' \in Seq([cfg : MaybeLinks, run : MaybeLinks])
        /\ DOMAIN deleteList' = 1 .. n - 1
        /\ \A j \in 1 .. n - 1 :
              deleteList'[j] = IF j < i THEN deleteList[j] ELSE deleteList[j + 1]
    BY <1>1, <1>4, WithoutFacts
  <2> DEFINE old(j) == IF j < i THEN j ELSE j + 1
  <2>5. \A j \in 1 .. n - 1 : old(j) \in 1 .. n /\ old(j) # i
    BY <1>1
  <2>6. \A j, k \in 1 .. n - 1 : old(j) = old(k) => j = k
    BY <1>1
  <2>7. \A j \in 1 .. n - 1 : deleteList'[j] = deleteList[old(j)]
    BY <2>4
  <2>8. \A k \in 1 .. n : k # i => \E j \in 1 .. n - 1 : k = old(j)
    <3> TAKE k \in 1 .. n
    <3>1. CASE k < i
      <4>1. k \in 1 .. n - 1 /\ old(k) = k
        BY <1>1, <3>1
      <4> QED
        BY <4>1
    <3>2. CASE k > i
      <4>1. k - 1 \in 1 .. n - 1 /\ old(k - 1) = k
        BY <1>1, <3>2
      <4> QED
        BY <4>1
    <3> QED
      BY <1>1, <3>1, <3>2
  <2> HIDE DEF old
  <2>9. ASSUME NEW j \in 1 .. n - 1, deleteList'[j].run # NoLink
        PROVE  /\ deleteList'[j].run \notin runList \cup freed' \cup {ui.run}
               /\ \A k \in 1 .. n - 1 : deleteList'[k].run = deleteList'[j].run => k = j
    <3>1. /\ deleteList'[j].run = deleteList[old(j)].run
          /\ old(j) \in 1 .. n /\ old(j) # i
      BY <2>5, <2>7
    <3>2. deleteList[old(j)].run \notin gone
      BY <1>2, <1>4, <2>9, <3>1
    <3>3. deleteList'[j].run \notin runList \cup freed' \cup {ui.run}
      BY <1>2, <2>9, <3>1, <3>2
    <3>4. \A k \in 1 .. n - 1 : deleteList'[k].run = deleteList'[j].run => k = j
      BY <1>2, <2>5, <2>6, <2>7, <2>9, <3>1
    <3> QED
      BY <3>3, <3>4
  <2>10. NoDoubleDelete'
    BY <2>4, <2>9 DEF NoDoubleDelete
  <2>11. Placed'
    BY <1>2, <2>1, <2>10 DEF Placed
  <2>12. Waiting \ {NoLink} = (Waiting' \cup gone) \ {NoLink}
    <3>1. \A j \in 1 .. n - 1 : deleteList'[j].run \in Waiting
      BY <1>1, <2>5, <2>7 DEF Waiting
    <3>2. Waiting' \subseteq Waiting
      BY <2>4, <3>1 DEF Waiting
    <3>3. gone \subseteq Waiting
      BY <1>1, <1>4 DEF Waiting
    <3>4. \A k \in 1 .. n : deleteList[k].run # NoLink =>
             deleteList[k].run \in Waiting' \cup gone
      <4> TAKE k \in 1 .. n
      <4>1. CASE k = i
        BY <1>4, <4>1
      <4>2. CASE k # i
        BY <2>4, <2>7, <2>8, <4>2 DEF Waiting
      <4> QED
        BY <4>1, <4>2
    <3>5. Waiting \ {NoLink} \subseteq Waiting' \cup gone
      BY <1>1, <3>4 DEF Waiting
    <3>6. NoLink \notin gone
      BY <1>4
    <3> QED
      BY <3>2, <3>3, <3>5, <3>6
  <2>13. Links \cap Known' = Links \cap Known
    BY <1>1, <2>12 DEF Known
  <2> QED
    BY <2>1, <2>2, <2>3, <2>4, <2>11, <2>13
<1>5. \/ gone = {} /\ deleteList' = deleteList
      \/ \E i \in DOMAIN deleteList :
            /\ gone = {deleteList[i].run} \ {NoLink}
            /\ deleteList' = Without(deleteList, i)
            /\ \A l \in gone : ~InUse(l)
  BY DeleteListFacts DEF IInv
<1> QED
  BY <1>1, <1>3, <1>4, <1>5

LEMMA GetInv == ASSUME IInv, NEW w \in Workers, Run_Proc_Get(w) PROVE IInv'
<1>1. PICK gone \in SUBSET Links : GetEffect(w, gone)
  BY GetFacts DEF IInv
<1>2. /\ run' \in [Links -> RunObjects]
      /\ freed' = freed \cup gone
      /\ clients' = Disconnect(gone)
      /\ UNCHANGED <<runList, young, watcher, cfg, listed, ui, edits>>
      /\ \A k \in Links :
            /\ run'[k].conn = IF k \in gone THEN NoAddr ELSE run[k].conn
            /\ \/ run'[k].addr = run[k].addr
               \/ k \in runList /\ run'[k].addr = cfg[k].addr
               \/ k \in runList /\ ui.pc = "writing" /\ run'[k].addr = ui.draft.addr
  BY <1>1 DEF GetEffect, uivars
<1>3. /\ gone \cap runList = {} /\ ui.run \notin gone
      /\ \A v \in Workers, l \in gone : ~Holds(v, l)
      /\ Placed'
      /\ Links \cap Known' = Links \cap Known
      /\ deleteList' \in Seq([cfg : MaybeLinks, run : MaybeLinks])
  BY <1>1, <1>2, SweepFacts DEF GetEffect
<1>4. clients' \in [Addrs -> MaybeLinks] /\ AddressTable'
  BY <1>2, DisconnectFacts DEF IInv
<1>5. Configured'
  <2>1. \A l \in Links \cap Known : run'[l].addr \in Addrs
    <3>1. \A c \in Configs : c.addr \in Addrs
      BY DEF Configs
    <3> QED
      BY <1>2, <3>1 DEF IInv, Configured
  <2>2. listed \subseteq Links
    BY DEF IInv, TypeOK
  <2> QED
    BY <1>2, <1>3, <2>1, <2>2 DEF IInv, Configured, IsOpen
<1>6. worker[w].pc = "get" /\ runList \subseteq Links /\ worked \in Seq(Links)
  BY DEF Run_Proc_Get, IInv, TypeOK
<1>7. worker \in [Workers ->
           [pc : {"get", "held", "opening", "connecting", "data", "release"},
            link : MaybeLinks]]
  BY DEF IInv, TypeOK
<1>8. CASE /\ \A k \in Links : run'[k].procLock = run[k].procLock
           /\ UNCHANGED <<worked, worker>>
  <2>1. TypeOK'
    BY <1>2, <1>3, <1>4, <1>8 DEF IInv, TypeOK
  <2>2. ExclusiveWork'
    BY <1>8 DEF IInv, ExclusiveWork, Holds
  <2>3. HeldLinks'
    BY <1>2, <1>3, <1>8 DEF IInv, HeldLinks, Holds
  <2>4. Opening'
    BY <1>2, <1>8 DEF IInv, Opening, HeldLinks, IsOpen
  <2> QED
    BY <1>3, <1>4, <1>5, <2>1, <2>2, <2>3, <2>4 DEF IInv
<1>9. ASSUME NEW l \in runList, ~run[l].procLock,
             \A k \in Links :
                run'[k].procLock = IF k = l THEN TRUE ELSE run[k].procLock,
             worked' = WorkDone(l),
             worker' = [worker EXCEPT ![w] = [pc |-> "held", link |-> l]]
      PROVE  IInv'
  <2>1. /\ \A v \in Workers : v # w => worker'[v] = worker[v]
        /\ worker'[w].pc = "held" /\ worker'[w].link = l
        /\ l \in Links
        /\ worker' \in [Workers ->
             [pc : {"get", "held", "opening", "connecting", "data", "release"},
              link : MaybeLinks]]
    BY <1>6, <1>7, <1>9 DEF MaybeLinks
  <2>2. worked' \in Seq(Links)
    BY <1>6, <1>9, <2>1, WorkDoneType
  <2>3. TypeOK'
    BY <1>2, <1>3, <1>4, <2>1, <2>2 DEF IInv, TypeOK
  <2>4. \A v \in Workers, k \in Links :
           Holds(v, k)' <=> IF v = w THEN k = l ELSE Holds(v, k)
    BY <2>1 DEF Holds
  <2>5. \A v \in Workers : ~Holds(v, l)
    BY <1>9, <2>1 DEF IInv, ExclusiveWork
  <2>6. \A k \in Links : ~Holds(w, k)
    BY <1>6 DEF Holds
  <2>7. ExclusiveWork'
    <3>1. ASSUME NEW k \in Links
          PROVE  run'[k].procLock <=> \E v \in Workers : Holds(v, k)'
      <4>1. run[k].procLock <=> \E v \in Workers : Holds(v, k)
        BY DEF IInv, ExclusiveWork
      <4>2. CASE k = l
        BY <1>9, <2>4, <4>2
      <4>3. CASE k # l
        <5>1. run'[k].procLock = run[k].procLock
          BY <1>9, <4>3
        <5>2. \A v \in Workers : Holds(v, k)' <=> Holds(v, k)
          BY <2>4, <2>6, <4>3
        <5> QED
          BY <4>1, <5>1, <5>2
      <4> QED
        BY <4>2, <4>3
    <3>2. ASSUME NEW u \in Workers, NEW v \in Workers, NEW k \in Links,
                 Holds(u, k)', Holds(v, k)'
          PROVE  u = v
      <4>1. \A x \in Workers : Holds(x, k)' => IF x = w THEN k = l ELSE Holds(x, k)
        BY <2>4
      <4>2. CASE k = l
        BY <2>5, <3>2, <4>1, <4>2
      <4>3. CASE k # l
        <5>1. Holds(u, k) /\ Holds(v, k)
          BY <3>2, <4>1, <4>3
        <5> QED
          BY <5>1 DEF IInv, ExclusiveWork
      <4> QED
        BY <4>2, <4>3
    <3> QED
      BY <3>1, <3>2 DEF ExclusiveWork
  <2>8. l \in Known' /\ l \notin freed'
    BY <1>2, <1>3, <2>1 DEF Known, IInv, Placed
  <2>9. HeldLinks'
    BY <1>2, <1>3, <2>1, <2>8 DEF IInv, HeldLinks, Holds
  <2>10. Opening'
    BY <1>2, <2>1 DEF IInv, Opening, HeldLinks, IsOpen
  <2> QED
    BY <1>3, <1>4, <1>5, <2>3, <2>7, <2>9, <2>10 DEF IInv
<1> QED
  BY <1>1, <1>8, <1>9 DEF GetEffect

-----------------------------------------------------------------------------
LEMMA InitInv == Init => IInv
<1> SUFFICES ASSUME Init PROVE IInv
  OBVIOUS
<1> USE DEF Init
<1>1. /\ ui.pc = "idle" /\ ui.run = NoLink
      /\ ui \in [pc : {"idle", "writing", "erased", "removed"}, link : MaybeLinks,
                 cfg : MaybeLinks, run : MaybeLinks, draft : Configs \cup {NoConfig}]
  BY DEF Idle, MaybeLinks
<1>2. cfg \in [Links -> Configs \cup {NoConfig}]
  BY PoolAssumption
<1>3. /\ run \in [Links -> RunObjects]
      /\ \A l \in Links : /\ run[l].conn = NoAddr /\ run[l].procLock = FALSE
                          /\ run[l].addr = cfg[l].addr
  BY <1>2, NewRunFacts
<1>4. /\ DOMAIN deleteList = {} /\ deleteList \in Seq([cfg : MaybeLinks, run : MaybeLinks])
      /\ worked \in Seq(Links)
  OBVIOUS
<1>5. NoLink \notin Links /\ DOMAIN Stored \subseteq Links
  BY PoolAssumption
<1>6. TypeOK
  <2>1. /\ worker \in [Workers ->
             [pc : {"get", "held", "opening", "connecting", "data", "release"},
              link : MaybeLinks]]
        /\ watcher \in [Watchers -> MaybeLinks]
        /\ clients \in [Addrs -> MaybeLinks]
    BY DEF MaybeLinks
  <2> QED
    BY <1>1, <1>2, <1>3, <1>4, <1>5, <2>1 DEF TypeOK
<1>7. ExclusiveWork /\ HeldLinks /\ Opening
  BY <1>3 DEF ExclusiveWork, HeldLinks, Opening, Holds
<1>8. Placed
  BY <1>1, <1>4, <1>5 DEF Placed, NoDoubleDelete
<1>9. Configured
  <2>1. Links \cap Known = DOMAIN Stored
    BY <1>1, <1>4, <1>5 DEF Known, Waiting
  <2>2. \A l \in DOMAIN Stored : cfg[l] \in Configs /\ cfg[l].addr \in Addrs
    BY <1>5, PoolAssumption DEF Configs
  <2> QED
    BY <1>1, <1>3, <1>5, <2>1, <2>2 DEF Configured, IsOpen
<1>10. AddressTable
  BY DEF AddressTable
<1> QED
  BY <1>6, <1>7, <1>8, <1>9, <1>10 DEF IInv

LEMMA NextInv == IInv /\ [Next]_vars => IInv'
<1> SUFFICES ASSUME IInv, [Next]_vars PROVE IInv'
  OBVIOUS
<1>1. CASE \E w \in Workers : WorkerStep(w)
  BY <1>1, GetInv, PrepareInv, StartOpenInv, FinishOpenInv, TransferInv, ReleaseInv
     DEF WorkerStep
<1>2. CASE InfoStep
  BY <1>2, InfoStepInv
<1>3. CASE EditStep
  BY <1>3, EditStepInv
<1>4. CASE TimeStep
  BY <1>4, TimeStepInv
<1>5. CASE UNCHANGED vars
  <2>1. SameOwnership
    BY <1>5 DEF SameOwnership, vars, poolvars, IInv, TypeOK
  <2>2. /\ UNCHANGED <<cfg, listed, ui>> /\ young' \in BOOLEAN /\ edits' \in Nat
        /\ watcher' \in [Watchers -> MaybeLinks]
    BY <1>5 DEF vars, poolvars, uivars, IInv, TypeOK
  <2> QED
    BY <2>1, <2>2, QuietStep
<1> QED
  BY <1>1, <1>2, <1>3, <1>4, <1>5 DEF Next

(* The inductive invariant holds in every reachable state.                 *)
THEOREM Invariance == Spec => []IInv
<1>1. Init => IInv
  BY InitInv
<1>2. IInv /\ [Next]_vars => IInv'
  BY NextInv
<1> QED
  BY <1>1, <1>2, PTL DEF Spec

(* The state of the pool has its type, for any number of links, workers    *)
(* and watchers.                                                           *)
THEOREM TypeCorrect == Spec => []TypeOK
<1>1. IInv => TypeOK
  BY DEF IInv
<1> QED
  BY <1>1, Invariance, PTL

(* m_lockProc makes the work on a link exclusive, whatever workers,        *)
(* watchers, configuration changes and deletions do.                       *)
THEOREM WorkIsExclusive == Spec => []ExclusiveWork
<1>1. IInv => ExclusiveWork
  BY DEF IInv
<1> QED
  BY <1>1, Invariance, PTL

(* A deleted link is deleted once and is not handed out again.             *)
THEOREM DeletedOnce == Spec => []NoDoubleDelete
<1>1. IInv => NoDoubleDelete
  BY DEF IInv, Placed
<1> QED
  BY <1>1, Invariance, PTL

(* The address table of CNetMan names only open connections.               *)
THEOREM TableIsCurrent == Spec => []AddressTable
<1>1. IInv => AddressTable
  BY DEF IInv
<1> QED
  BY <1>1, Invariance, PTL
-----------------------------------------------------------------------------
(* With one watching thread a link that is looked at keeps its info lock,  *)
(* and so it is not deleted. With two the first Run_Info_Release clears    *)
(* the lock of both (see InfoReleaseAssert).                               *)
Watched ==
    \A u \in Watchers : watcher[u] # NoLink =>
       run[watcher[u]].infoLock /\ watcher[u] \in (Links \cap Known) \ freed

(* A step that keeps the info locks of the links that exist.               *)
LEMMA WatchKept ==
    ASSUME Watched, UNCHANGED watcher, freed' = freed,
           Links \cap Known \subseteq Known',
           \A k \in Links \cap Known : run'[k].infoLock = run[k].infoLock
    PROVE  Watched'
  BY DEF Watched

LEMMA GetWatch ==
    ASSUME IInv, Watched, NEW w \in Workers, Run_Proc_Get(w)
    PROVE  Watched'
<1>1. UNCHANGED <<runList, ui, watcher>>
  BY DEF Run_Proc_Get, uivars
<1>2. PICK gone \in SUBSET Links : GetEffect(w, gone)
  BY GetFacts DEF IInv
<1>3. /\ CheckDeleteList(gone) /\ freed' = freed \cup gone
      /\ \A k \in Links : run'[k].infoLock = run[k].infoLock
  BY <1>2 DEF GetEffect
<1>4. /\ \A l \in gone : ~run[l].infoLock
      /\ Links \cap Known' = Links \cap Known
  BY <1>1, <1>3, SweepFacts
<1> QED
  BY <1>1, <1>3, <1>4 DEF Watched

(* The other steps of a worker change no info lock and delete nothing.     *)
LEMMA WorkWatch ==
    ASSUME IInv, Watched, NEW w \in Workers,
           \/ Prepare(w) \/ StartOpen(w) \/ FinishOpen(w)
           \/ Transfer(w) \/ Run_Proc_Release(w)
    PROVE  Watched'
<1> DEFINE l == worker[w].link
<1>1. UNCHANGED <<watcher, poolvars, uivars>>
  BY DEF Prepare, StartOpen, FinishOpen, Transfer, Run_Proc_Release
<1>2. Known' = Known /\ freed' = freed /\ UNCHANGED watcher
  BY <1>1 DEF poolvars, uivars, Known, Waiting
<1>3. run \in [Links -> RunObjects] /\ l \in Links
  BY DEF IInv, TypeOK, HeldLinks, Prepare, StartOpen, FinishOpen, Transfer,
         Run_Proc_Release
<1>4. /\ Close(run[l]).infoLock = run[l].infoLock
      /\ Reopening(run[l]).infoLock = run[l].infoLock
  BY <1>3, CloseFacts, ReopeningFacts
<1>5. \A k \in Links : run'[k].infoLock = run[k].infoLock
  <2>1. CASE Prepare(w)
    BY <1>3, <1>4, <2>1 DEF Prepare, CloseDisabled, StartConnect, GoOn
  <2>2. CASE StartOpen(w)
    BY <2>2 DEF StartOpen
  <2>3. CASE FinishOpen(w)
    <3>1. \/ run' = run
          \/ run' = [run EXCEPT ![l] =
                       [run[l] EXCEPT !.conn = run[l].addr, !.reconnect = FALSE]]
      BY <2>3 DEF FinishOpen
    <3>2. [run[l] EXCEPT !.conn = run[l].addr, !.reconnect = FALSE].infoLock
             = run[l].infoLock
      BY <1>3 DEF RunObjects
    <3> QED
      BY <1>3, <3>1, <3>2
  <2>4. CASE Transfer(w)
    <3>1. [run[l] EXCEPT !.silent = FALSE].infoLock = run[l].infoLock
      BY <1>3 DEF RunObjects
    <3> QED
      BY <1>3, <1>4, <2>4, <3>1 DEF Transfer
  <2>5. CASE Run_Proc_Release(w)
    <3>1. [run[l] EXCEPT !.procLock = FALSE].infoLock = run[l].infoLock
      BY <1>3 DEF RunObjects
    <3> QED
      BY <1>3, <2>5, <3>1 DEF Run_Proc_Release
  <2> QED
    BY <2>1, <2>2, <2>3, <2>4, <2>5
<1> QED
  BY <1>2, <1>5, WatchKept

LEMMA InfoWatch ==
    ASSUME IInv, Watched, \A u, v \in Watchers : u = v, InfoStep
    PROVE  Watched'
<1>1. /\ run \in [Links -> RunObjects] /\ watcher \in [Watchers -> MaybeLinks]
      /\ runList \subseteq Links /\ runList \cap freed = {}
  BY DEF IInv, TypeOK, Placed
<1>2. ASSUME NEW u \in Watchers, NEW l \in Links, Run_Info_Get(u, l)
      PROVE  Watched'
  <2>1. /\ l \in runList /\ UNCHANGED <<poolvars, uivars>>
        /\ run' = [run EXCEPT ![l].infoLock = TRUE]
        /\ watcher' = [watcher EXCEPT ![u] = l]
    BY <1>2 DEF Run_Info_Get
  <2>2. run'[l].infoLock /\ watcher'[u] = l
    BY <1>1, <2>1 DEF RunObjects
  <2>3. l \in (Links \cap Known') \ freed'
    BY <1>1, <2>1 DEF poolvars, Known
  <2> QED
    BY <2>2, <2>3 DEF Watched
<1>3. ASSUME NEW u \in Watchers, Run_Info_Release(u) PROVE Watched'
  <2>1. watcher'[u] = NoLink
    BY <1>1, <1>3 DEF Run_Info_Release
  <2> QED
    BY <2>1 DEF Watched
<1> QED
  BY <1>2, <1>3 DEF InfoStep

LEMMA TimeWatch == ASSUME IInv, Watched, TimeStep PROVE Watched'
<1>1. run \in [Links -> RunObjects]
  BY DEF IInv, TypeOK
<1>2. UNCHANGED <<watcher, runList, freed, ui, deleteList>>
  BY DEF TimeStep, GrowUp, Silence, Rest, PeerDies, poolvars, uivars
<1>3. Known' = Known
  BY <1>2 DEF Known, Waiting
<1>4. \A l \in Links :
         /\ [run[l] EXCEPT !.silent = TRUE].infoLock = run[l].infoLock
         /\ [run[l] EXCEPT !.dead = TRUE].infoLock = run[l].infoLock
         /\ [run[l] EXCEPT !.rested = TRUE].infoLock = run[l].infoLock
  BY <1>1 DEF RunObjects
<1>5. \A k \in Links : run'[k].infoLock = run[k].infoLock
  BY <1>1, <1>4 DEF TimeStep, GrowUp, Silence, Rest, PeerDies
<1> QED
  BY <1>2, <1>3, <1>5, WatchKept

LEMMA EditWatch == ASSUME IInv, Watched, EditStep PROVE Watched'
<1>1. /\ run \in [Links -> RunObjects]
      /\ deleteList \in Seq([cfg : MaybeLinks, run : MaybeLinks])
      /\ NoLink \notin Links
  BY PoolAssumption DEF IInv, TypeOK
<1>2. UNCHANGED <<watcher, freed>>
  BY DEF EditStep, Cfg_Add, Cfg_Modify, RefreshCfgTs, Run_Reconnect, Cfg_Delete,
         Run_Remove, PushDeleted, poolvars
<1>3. ASSUME NEW l \in Links, NEW c \in Configs, Cfg_Add(l, c) PROVE Watched'
  <2>1. /\ l \notin Known /\ run' = [run EXCEPT ![l] = NewRun(c)]
        /\ UNCHANGED <<deleteList, ui>> /\ runList' = runList \cup {l}
    BY <1>3 DEF Cfg_Add
  <2>2. Known' = Known \cup {l}
    BY <1>2, <2>1 DEF Known, Waiting
  <2> QED
    BY <1>1, <1>2, <2>1, <2>2, WatchKept
<1>4. ASSUME UNCHANGED <<run, runList, deleteList>>, ui'.run = ui.run
      PROVE  Watched'
  BY <1>2, <1>4, WatchKept DEF Known, Waiting
<1>5. ASSUME NEW l \in Links, NEW c \in Configs, Cfg_Modify(l, c) PROVE Watched'
  BY <1>4, <1>5 DEF Cfg_Modify, Edit, Idle, poolvars
<1>6. ASSUME NEW l \in Links, Cfg_Delete(l) PROVE Watched'
  BY <1>4, <1>6 DEF Cfg_Delete, Edit, Idle, poolvars
<1>7. CASE RefreshCfgTs
  <2>1. ui.run = NoLink /\ ui'.run = NoLink /\ ui.link \in Links
    BY <1>7 DEF RefreshCfgTs, Idle, IInv, Placed, Configured
  <2>2. \A k \in Links : run'[k].infoLock = run[k].infoLock
    <3>1. [run[ui.link] EXCEPT !.stale = TRUE].infoLock = run[ui.link].infoLock
      BY <1>1, <2>1 DEF RunObjects
    <3> QED
      BY <1>1, <1>7, <2>1, <3>1 DEF RefreshCfgTs
  <2>3. Known' = Known
    BY <1>7, <2>1 DEF RefreshCfgTs, poolvars, Known, Waiting
  <2> QED
    BY <1>2, <2>2, <2>3, WatchKept
<1>8. ASSUME NEW links, Run_Reconnect(links) PROVE Watched'
  <2>1. \A k \in Links : [run[k] EXCEPT !.reconnect = TRUE].infoLock = run[k].infoLock
    BY <1>1 DEF RunObjects
  <2>2. \A k \in Links : run'[k].infoLock = run[k].infoLock
    BY <1>1, <1>8, <2>1 DEF Run_Reconnect
  <2>3. Known' = Known
    BY <1>8 DEF Run_Reconnect, poolvars, Known, Waiting
  <2> QED
    BY <1>2, <2>2, <2>3, WatchKept
<1>9. CASE Run_Remove
  <2>1. /\ ui'.run = IF ui.link \in runList THEN ui.link ELSE NoLink
        /\ runList' = runList \ {ui.link} /\ UNCHANGED <<run, deleteList>>
    BY <1>9 DEF Run_Remove, IInv, TypeOK
  <2>2. ui.run = NoLink
    BY <1>9 DEF Run_Remove, IInv, Placed
  <2>3. Links \cap Known \subseteq Known'
    BY <1>1, <1>2, <2>1, <2>2 DEF Known, Waiting
  <2> QED
    BY <1>2, <2>1, <2>3, WatchKept
<1>10. CASE PushDeleted
  <2> DEFINE entry == [cfg |-> ui.cfg, run |-> ui.run]
  <2>1. entry \in [cfg : MaybeLinks, run : MaybeLinks] /\ entry.run = ui.run
    BY DEF IInv, TypeOK
  <2>2. /\ deleteList' = Append(deleteList, entry)
        /\ UNCHANGED <<run, runList>>
    BY <1>10 DEF PushDeleted
  <2> HIDE DEF entry
  <2>3. /\ \A i \in DOMAIN deleteList :
              i \in DOMAIN deleteList' /\ deleteList'[i] = deleteList[i]
        /\ Len(deleteList) + 1 \in DOMAIN deleteList'
        /\ deleteList'[Len(deleteList) + 1] = entry
    BY <1>1, <2>1, <2>2
  <2>4. Waiting \cup {ui.run} \subseteq Waiting'
    BY <2>1, <2>3 DEF Waiting
  <2>5. Links \cap Known \subseteq Known'
    BY <1>2, <2>2, <2>4 DEF Known
  <2> QED
    BY <1>2, <2>2, <2>5, WatchKept
<1> QED
  BY <1>3, <1>5, <1>6, <1>7, <1>8, <1>9, <1>10 DEF EditStep

LEMMA WatchedAlways ==
    ASSUME \A u, v \in Watchers : u = v
    PROVE  Spec => []Watched
<1>1. Init => Watched
  BY DEF Init, Watched
<1>2. IInv /\ Watched /\ [Next]_vars => Watched'
  <2> SUFFICES ASSUME IInv, Watched, [Next]_vars PROVE Watched'
    OBVIOUS
  <2>1. CASE \E w \in Workers : WorkerStep(w)
    BY <2>1, GetWatch, WorkWatch DEF WorkerStep
  <2>2. CASE UNCHANGED vars
    BY <2>2, WatchKept DEF vars, poolvars, uivars, Known, Waiting
  <2> QED
    BY <2>1, <2>2, InfoWatch, EditWatch, TimeWatch DEF Next
<1> QED
  BY <1>1, <1>2, Invariance, PTL DEF Spec

(* While one thread looks at links (the XMPP thread, without the data      *)
(* acquisition thread), no object is deleted under a thread that uses it.  *)
THEOREM NothingUsedIsDeleted ==
    ASSUME \A u, v \in Watchers : u = v
    PROVE  Spec => []NoUseAfterDelete
<1>1. IInv /\ Watched => NoUseAfterDelete
  <2> SUFFICES ASSUME IInv, Watched PROVE NoUseAfterDelete
    OBVIOUS
  <2>1. \A w \in Workers, l \in freed : ~Holds(w, l)
    BY DEF IInv, HeldLinks, Holds
  <2>2. ui.run \notin freed /\ runList \cap freed = {}
    BY DEF IInv, Placed
  <2>3. NoLink \notin freed
    BY PoolAssumption DEF IInv, TypeOK
  <2>4. \A u \in Watchers : watcher[u] \notin freed
    BY <2>3 DEF Watched
  <2> QED
    BY <2>1, <2>2, <2>4 DEF NoUseAfterDelete
<1>2. Spec => []Watched
  BY WatchedAlways
<1> QED
  BY <1>1, <1>2, Invariance, PTL

(* The assertion of Run_Info_Release fails only because looks at a link    *)
(* overlap: with one thread that looks it always holds.                    *)
THEOREM AssertionHoldsForOne ==
    ASSUME \A u, v \in Watchers : u = v
    PROVE  Spec => []InfoReleaseAssert
<1>1. Watched => InfoReleaseAssert
  BY DEF Watched, InfoReleaseAssert
<1>2. Spec => []Watched
  BY WatchedAlways
<1> QED
  BY <1>1, <1>2, PTL
-----------------------------------------------------------------------------
(* A changed address reaches the connection in two steps: check_cfg takes  *)
(* it from the configuration, and a reconnection takes it from the run     *)
(* object. Of each step the object knows that it is still to come: stale   *)
(* (or a Cfg_Modify that has not told it yet) of the first, reconnect of   *)
(* the second, or torn when check_cfg overlapped the assignment.           *)
Follows(r, addr, writing) ==
    /\ r.addr = addr \/ r.stale \/ writing
    /\ IsOpen(r) => r.conn = r.addr \/ r.reconnect \/ r.torn

BeingWritten(l) == ui.pc = "writing" /\ ui.link = l

Following == \A l \in Links : Follows(run[l], cfg[l].addr, BeingWritten(l))

(* Whatever the configuration, the operators of the threads and of time    *)
(* keep it, ...                                                            *)
LEMMA FollowsKept ==
    ASSUME NEW r \in RunObjects, NEW addr, NEW writing, Follows(r, addr, writing),
           NEW b \in BOOLEAN
    PROVE  /\ Follows(Close(r), addr, writing)
           /\ Follows(Reopening(r), addr, writing)
           /\ Follows([r EXCEPT !.conn = r.addr, !.reconnect = FALSE], addr, writing)
           /\ Follows([r EXCEPT !.reconnect = TRUE], addr, writing)
           /\ Follows([r EXCEPT !.silent = b], addr, writing)
           /\ Follows([r EXCEPT !.rested = b], addr, writing)
           /\ Follows([r EXCEPT !.dead = b], addr, writing)
           /\ Follows([r EXCEPT !.infoLock = b], addr, writing)
           /\ Follows([r EXCEPT !.procLock = b], addr, writing)
<1>1. Follows(Close(r), addr, writing)
  BY DEF Follows, Close, IsOpen, RunObjects
<1>2. Follows(Reopening(r), addr, writing)
  <2> DEFINE quiet == r.silent /\ IsOpen(r) /\ ~r.reconnect
             q == [Close(r) EXCEPT !.reconnect = FALSE, !.rested = FALSE, !.silent = quiet]
  <2>1. Reopening(r) = q
    BY DEF Reopening
  <2>2. q.conn = NoAddr /\ q.addr = r.addr /\ q.stale = r.stale
    BY DEF Close, RunObjects
  <2> HIDE DEF q
  <2> QED
    BY <2>1, <2>2 DEF Follows, IsOpen
<1>3. /\ Follows([r EXCEPT !.conn = r.addr, !.reconnect = FALSE], addr, writing)
      /\ Follows([r EXCEPT !.reconnect = TRUE], addr, writing)
  BY DEF Follows, IsOpen, RunObjects
<1>4. /\ Follows([r EXCEPT !.silent = b], addr, writing)
      /\ Follows([r EXCEPT !.rested = b], addr, writing)
      /\ Follows([r EXCEPT !.dead = b], addr, writing)
  BY DEF Follows, IsOpen, RunObjects
<1>5. /\ Follows([r EXCEPT !.infoLock = b], addr, writing)
      /\ Follows([r EXCEPT !.procLock = b], addr, writing)
  BY DEF Follows, IsOpen, RunObjects
<1> QED
  BY <1>1, <1>2, <1>3, <1>4, <1>5

(* ... and so does check_cfg: an address that it takes is the one of the   *)
(* configuration, unless this is being written, and differs from the one   *)
(* before only with a reconnection asked for, unless the view was torn.    *)
LEMMA CheckFollows ==
    ASSUME TypeOK, NEW l \in Links, NEW v \in Views,
           Follows(run[l], cfg[l].addr, BeingWritten(l))
    PROVE  Follows(CheckCfg(run[l], ViewOf(l, v)), cfg[l].addr, BeingWritten(l))
<1> DEFINE r == run[l]
           w == ViewOf(l, v)
<1>1. CASE ~w.changed
  BY <1>1 DEF CheckCfg
<1>2. CASE w.changed
  <2> DEFINE moved == r.reconnect \/ w.compared # r.addr
             mixed == r.torn \/ w.compared # w.copied
             seen == [r EXCEPT !.enable = w.enable, !.addr = w.copied,
                               !.reconnect = moved, !.torn = mixed,
                               !.silent = FALSE, !.stale = FALSE]
  <2>1. CheckCfg(r, w) = seen
    BY <1>2 DEF CheckCfg
  <2>2. r \in RunObjects
    BY DEF TypeOK
  <2>3. /\ seen.addr = w.copied /\ seen.conn = r.conn
        /\ seen.reconnect = moved /\ seen.torn = mixed
    <3> HIDE DEF r, w, moved, mixed
    <3> QED
      BY <2>2 DEF RunObjects
  <2>4. w.copied = cfg[l].addr \/ BeingWritten(l)
    BY DEF ViewOf, BeingWritten
  <2>5. IsOpen(r) => r.conn = r.addr \/ r.reconnect \/ r.torn
    BY DEF Follows
  <2>6. IsOpen(seen) => seen.conn = seen.addr \/ seen.reconnect \/ seen.torn
    <3> HIDE DEF seen, r, w
    <3> QED
      BY <2>3, <2>5 DEF IsOpen
  <2> HIDE DEF seen, r, w
  <2>7. Follows(seen, cfg[l].addr, BeingWritten(l))
    BY <2>3, <2>4, <2>6 DEF Follows
  <2> USE DEF r, w
  <2> QED
    BY <2>1, <2>7
<1> QED
  BY <1>1, <1>2

(* What Run_Proc_Get does to one run object: it may be deleted, or checked *)
(* against its configuration, and one may be locked.                       *)
LEMMA GetRun ==
    ASSUME TypeOK, NEW w \in Workers, Run_Proc_Get(w)
    PROVE  \E v \in Views : \A k \in Links :
              \E q \in {run[k], Close(run[k]), CheckCfg(run[k], ViewOf(k, v))} :
                 run'[k] = q \/ run'[k] = [q EXCEPT !.procLock = TRUE]
<1>1. PICK gone \in SUBSET Links, v \in Views : Scan(w, v, gone)
  BY DEF Run_Proc_Get
<1> DEFINE seen == [l \in Links |-> CheckCfg(run[l], ViewOf(l, v))]
           ready == {l \in runList : Eligible(seen[l], w \in Connectors)}
           Passed(l) == IF l \in gone THEN Close(run[l])
                        ELSE IF l \in Scanned(ready) THEN seen[l] ELSE run[l]
<1>2. \/ run' = [l \in Links |-> Passed(l)]
      \/ \E l \in ready :
            run' = [k \in Links |-> IF k = l THEN [Passed(k) EXCEPT !.procLock = TRUE]
                                    ELSE Passed(k)]
  BY <1>1 DEF Scan
<1>3. \A k \in Links :
         Passed(k) \in {run[k], Close(run[k]), CheckCfg(run[k], ViewOf(k, v))}
  OBVIOUS
<1> HIDE DEF seen, ready, Passed
<1>4. \A k \in Links : run'[k] = Passed(k) \/ run'[k] = [Passed(k) EXCEPT !.procLock = TRUE]
  BY <1>2
<1> QED
  BY <1>3, <1>4

LEMMA GetFollows ==
    ASSUME TypeOK, Following, NEW w \in Workers, Run_Proc_Get(w)
    PROVE  Following'
<1>1. PICK v \in Views : \A k \in Links :
         \E q \in {run[k], Close(run[k]), CheckCfg(run[k], ViewOf(k, v))} :
            run'[k] = q \/ run'[k] = [q EXCEPT !.procLock = TRUE]
  BY GetRun
<1>2. UNCHANGED <<cfg, ui>>
  BY DEF Run_Proc_Get, uivars
<1> SUFFICES ASSUME NEW k \in Links
             PROVE  Follows(run'[k], cfg[k].addr, BeingWritten(k))
  BY <1>2 DEF Following, BeingWritten
<1>3. PICK q \in {run[k], Close(run[k]), CheckCfg(run[k], ViewOf(k, v))} :
         run'[k] = q \/ run'[k] = [q EXCEPT !.procLock = TRUE]
  BY <1>1
<1>4. Follows(run[k], cfg[k].addr, BeingWritten(k)) /\ run[k] \in RunObjects
  BY DEF Following, TypeOK
<1>5. Close(run[k]) \in RunObjects /\ CheckCfg(run[k], ViewOf(k, v)) \in RunObjects
  BY <1>4, CloseFacts, CheckCfgFacts, ViewFacts
<1>6. q \in RunObjects /\ Follows(q, cfg[k].addr, BeingWritten(k))
  <2>1. Follows(Close(run[k]), cfg[k].addr, BeingWritten(k))
    BY <1>4, FollowsKept
  <2>2. Follows(CheckCfg(run[k], ViewOf(k, v)), cfg[k].addr, BeingWritten(k))
    BY <1>4, CheckFollows
  <2> QED
    BY <1>3, <1>4, <1>5, <2>1, <2>2
<1>7. Follows([q EXCEPT !.procLock = TRUE], cfg[k].addr, BeingWritten(k))
  BY <1>6, FollowsKept
<1> QED
  BY <1>3, <1>6, <1>7

(* A step that changes one run object and no configuration.                *)
LEMMA OneFollows ==
    ASSUME TypeOK, Following, NEW l \in Links, NEW q,
           run' = [run EXCEPT ![l] = q], UNCHANGED <<cfg, ui>>,
           Follows(q, cfg[l].addr, BeingWritten(l))
    PROVE  Following'
<1>1. \A k \in Links : run'[k] = IF k = l THEN q ELSE run[k]
  BY DEF TypeOK
<1>2. ASSUME NEW k \in Links PROVE Follows(run'[k], cfg[k].addr, BeingWritten(k))
  BY <1>1 DEF Following
<1> QED
  BY <1>2 DEF Following, BeingWritten

LEMMA WorkFollows ==
    ASSUME IInv, Following, NEW w \in Workers,
           \/ Prepare(w) \/ StartOpen(w) \/ FinishOpen(w)
           \/ Transfer(w) \/ Run_Proc_Release(w)
    PROVE  Following'
<1> DEFINE l == worker[w].link
           r == run[l]
<1>1. UNCHANGED <<cfg, ui>>
  BY DEF Prepare, StartOpen, FinishOpen, Transfer, Run_Proc_Release, uivars
<1>2. TypeOK /\ l \in Links
  BY DEF IInv, HeldLinks, Prepare, StartOpen, FinishOpen, Transfer,
         Run_Proc_Release
<1>3. r \in RunObjects /\ Follows(r, cfg[l].addr, BeingWritten(l))
  BY <1>2 DEF TypeOK, Following
<1>4. \E q : /\ run' = [run EXCEPT ![l] = q]
             /\ q \in {r, Close(r), Reopening(r),
                       [r EXCEPT !.conn = r.addr, !.reconnect = FALSE],
                       [r EXCEPT !.silent = FALSE], [r EXCEPT !.procLock = FALSE]}
  <2>0. run = [run EXCEPT ![l] = r]
    BY <1>2 DEF TypeOK
  <2>1. CASE Prepare(w)
    BY <2>0, <2>1 DEF Prepare, CloseDisabled, StartConnect, GoOn
  <2>2. CASE StartOpen(w)
    BY <2>0, <2>2 DEF StartOpen
  <2>3. CASE FinishOpen(w)
    <3>1. \/ run' = run
          \/ run' = [run EXCEPT ![l] =
                       [run[l] EXCEPT !.conn = run[l].addr, !.reconnect = FALSE]]
      BY <2>3 DEF FinishOpen
    <3> QED
      BY <2>0, <3>1
  <2>4. CASE Transfer(w)
    BY <2>0, <2>4 DEF Transfer
  <2>5. CASE Run_Proc_Release(w)
    BY <2>5 DEF Run_Proc_Release
  <2> QED
    BY <2>1, <2>2, <2>3, <2>4, <2>5
<1> QED
  BY <1>1, <1>2, <1>3, <1>4, FollowsKept, OneFollows

LEMMA InfoTimeFollows ==
    ASSUME IInv, Following, InfoStep \/ TimeStep
    PROVE  Following'
<1>1. TypeOK
  BY DEF IInv
<1>2. UNCHANGED <<cfg, ui>>
  BY DEF InfoStep, Run_Info_Get, Run_Info_Release, TimeStep, GrowUp, Silence,
         Rest, PeerDies, uivars
<1>3. CASE UNCHANGED run
  BY <1>2, <1>3 DEF Following, BeingWritten
<1>4. ASSUME NEW l \in Links, NEW b \in BOOLEAN,
             \E q \in {[run[l] EXCEPT !.infoLock = b], [run[l] EXCEPT !.silent = b],
                       [run[l] EXCEPT !.rested = b], [run[l] EXCEPT !.dead = b]} :
                run' = [run EXCEPT ![l] = q]
      PROVE  Following'
  <2>1. run[l] \in RunObjects /\ Follows(run[l], cfg[l].addr, BeingWritten(l))
    BY <1>1 DEF TypeOK, Following
  <2> QED
    BY <1>1, <1>2, <1>4, <2>1, FollowsKept, OneFollows
<1>5. CASE InfoStep
  <2>1. \A u \in Watchers : watcher[u] # NoLink => watcher[u] \in Links
    BY <1>1 DEF TypeOK, MaybeLinks
  <2> QED
    BY <1>4, <1>5, <2>1 DEF InfoStep, Run_Info_Get, Run_Info_Release
<1>6. CASE TimeStep
  BY <1>3, <1>4, <1>6 DEF TimeStep, GrowUp, Silence, Rest, PeerDies
<1> QED
  BY <1>5, <1>6

LEMMA EditFollows == ASSUME IInv, Following, EditStep PROVE Following'
<1>0. /\ TypeOK
      /\ run \in [Links -> RunObjects] /\ cfg \in [Links -> Configs \cup {NoConfig}]
  BY DEF IInv, TypeOK
<1>1. ASSUME NEW l \in Links, NEW c \in Configs, Cfg_Add(l, c) PROVE Following'
  <2>1. /\ cfg' = [cfg EXCEPT ![l] = c] /\ run' = [run EXCEPT ![l] = NewRun(c)]
        /\ UNCHANGED ui
    BY <1>1 DEF Cfg_Add
  <2>2. NewRun(c).addr = c.addr /\ ~IsOpen(NewRun(c))
    BY NewRunFacts DEF IsOpen
  <2>3. ASSUME NEW k \in Links PROVE Follows(run'[k], cfg'[k].addr, BeingWritten(k))
    BY <1>0, <2>1, <2>2 DEF Following, Follows
  <2> QED
    BY <2>1, <2>3 DEF Following, BeingWritten
<1>2. ASSUME UNCHANGED run, \A k \in Links : cfg'[k].addr = cfg[k].addr,
             ui.pc # "writing"
      PROVE  Following'
  BY <1>2 DEF Following, Follows, BeingWritten
<1>3. ASSUME NEW l \in Links, NEW c \in Configs, Cfg_Modify(l, c) PROVE Following'
  BY <1>2, <1>3 DEF Cfg_Modify, Edit, Idle
<1>4. ASSUME NEW l \in Links, Cfg_Delete(l) PROVE Following'
  <2>1. \A c \in Configs \cup {NoConfig} : [c EXCEPT !.enable = FALSE].addr = c.addr
    BY DEF Configs, NoConfig
  <2>2. \A k \in Links : cfg'[k].addr = cfg[k].addr
    BY <1>0, <1>4, <2>1 DEF Cfg_Delete
  <2> QED
    BY <1>2, <1>4, <2>2 DEF Cfg_Delete, Edit, Idle
<1>5. CASE Run_Remove \/ PushDeleted
  BY <1>2, <1>5 DEF Run_Remove, PushDeleted
<1>6. CASE RefreshCfgTs
  <2>0. PICK l : l = ui.link
    OBVIOUS
  <2>1. /\ l \in Links
        /\ cfg' = [cfg EXCEPT ![l] = ui.draft]
        /\ run' = [run EXCEPT ![l] = [run[l] EXCEPT !.stale = TRUE]]
    BY <1>6, <2>0 DEF RefreshCfgTs, IInv, Configured
  <2>2. Follows(run[l], cfg[l].addr, BeingWritten(l))
    BY <2>1 DEF Following
  <2>3. run'[l] = [run[l] EXCEPT !.stale = TRUE] /\ run[l] \in RunObjects
    BY <1>0, <2>1
  <2>4. Follows(run'[l], cfg'[l].addr, BeingWritten(l)')
    BY <2>2, <2>3 DEF Follows, IsOpen, RunObjects
  <2>5. ASSUME NEW k \in Links, k # l
        PROVE  Follows(run'[k], cfg'[k].addr, BeingWritten(k)')
    BY <1>0, <2>0, <2>1, <2>5 DEF Following, Follows, BeingWritten
  <2> QED
    BY <2>4, <2>5 DEF Following
<1>7. ASSUME NEW links, Run_Reconnect(links) PROVE Following'
  <2>1. /\ run' = [l \in Links |-> IF l \in links THEN [run[l] EXCEPT !.reconnect = TRUE]
                                   ELSE run[l]]
        /\ UNCHANGED <<cfg, ui>>
    BY <1>7 DEF Run_Reconnect
  <2>2. ASSUME NEW k \in Links PROVE Follows(run'[k], cfg[k].addr, BeingWritten(k))
    <3>1. Follows(run[k], cfg[k].addr, BeingWritten(k))
      BY DEF Following
    <3> QED
      BY <1>0, <2>1, <3>1, FollowsKept
  <2> QED
    BY <2>1, <2>2 DEF Following, BeingWritten
<1> QED
  BY <1>1, <1>3, <1>4, <1>5, <1>6, <1>7 DEF EditStep

LEMMA AlwaysFollowing == Spec => []Following
<1>1. Init => Following
  <2> SUFFICES ASSUME Init, NEW l \in Links
               PROVE  Follows(run[l], cfg[l].addr, BeingWritten(l))
    BY DEF Following
  <2>1. cfg[l] \in Configs \cup {NoConfig} /\ run[l] = NewRun(cfg[l])
    BY PoolAssumption DEF Init
  <2> QED
    BY <2>1, NewRunFacts DEF Follows, IsOpen
<1>2. IInv /\ Following /\ [Next]_vars => Following'
  <2> SUFFICES ASSUME IInv, Following, [Next]_vars PROVE Following'
    OBVIOUS
  <2>1. CASE \E w \in Workers : WorkerStep(w)
    BY <2>1, GetFollows, WorkFollows DEF WorkerStep, IInv
  <2>2. CASE UNCHANGED vars
    BY <2>2 DEF vars, uivars, Following, BeingWritten
  <2> QED
    BY <2>1, <2>2, InfoTimeFollows, EditFollows DEF Next
<1> QED
  BY <1>1, <1>2, Invariance, PTL DEF Spec

(* A link stays connected to another address than the configured one only  *)
(* while the change is on its way to it, however Cfg_Modify, check_cfg and *)
(* the connecting threads interleave.                                      *)
THEOREM ConnectionFollows == Spec => []ConnMatchesCfg
<1>1. IInv /\ Following => ConnMatchesCfg
  BY DEF IInv, TypeOK, Following, Follows, BeingWritten, ConnMatchesCfg
<1> QED
  BY <1>1, Invariance, AlwaysFollowing, PTL
-----------------------------------------------------------------------------
(* The addresses of the configurations differ, also from the one that is   *)
(* being written: Cfg_CheckExist looks at what is listed, and only the     *)
(* thread of the configuration interface changes it.                       *)
AddressesApart ==
    /\ \A k, l \in listed : cfg[k].addr = cfg[l].addr => k = l
    /\ ui.pc = "writing" => \A k \in listed \ {ui.link} : cfg[k].addr # ui.draft.addr

LEMMA EditApart == ASSUME IInv, AddressesApart, EditStep PROVE AddressesApart'
<1>0. cfg \in [Links -> Configs \cup {NoConfig}] /\ listed \subseteq Links
  BY DEF IInv, TypeOK
<1>1. ASSUME NEW l \in Links, NEW c \in Configs, Cfg_Add(l, c) PROVE AddressesApart'
  <2>1. /\ cfg' = [cfg EXCEPT ![l] = c] /\ listed' = listed \cup {l}
        /\ \A k \in listed \ {l} : cfg[k].addr # c.addr
        /\ ui' = ui /\ ui.pc = "idle"
    BY <1>1 DEF Cfg_Add, IsVacant, Edit, Idle
  <2>2. cfg'[l] = c /\ \A k \in Links : k # l => cfg'[k] = cfg[k]
    BY <1>0, <2>1
  <2> QED
    BY <1>0, <2>1, <2>2 DEF AddressesApart
<1>2. ASSUME NEW l \in Links, NEW c \in Configs, Cfg_Modify(l, c) PROVE AddressesApart'
  <2>1. /\ ui'.link = l /\ ui'.draft = c
        /\ \A k \in listed \ {l} : cfg[k].addr # c.addr
        /\ UNCHANGED <<cfg, listed>>
    BY <1>2 DEF Cfg_Modify, IsVacant, Idle
  <2> QED
    BY <2>1 DEF AddressesApart
<1>3. ASSUME NEW l \in Links, Cfg_Delete(l) PROVE AddressesApart'
  <2>1. ui'.pc # "writing" /\ listed' \subseteq listed
    BY <1>3 DEF Cfg_Delete, Idle
  <2>2. \A k \in Links : cfg'[k].addr = cfg[k].addr
    BY <1>0, <1>3 DEF Cfg_Delete, Configs, NoConfig
  <2> QED
    BY <1>0, <2>1, <2>2 DEF AddressesApart
<1>4. CASE RefreshCfgTs
  <2>1. PICK l, c : l = ui.link /\ c = ui.draft
    OBVIOUS
  <2>2. /\ cfg' = [cfg EXCEPT ![l] = c] /\ UNCHANGED listed
        /\ \A k \in listed \ {l} : cfg[k].addr # c.addr
        /\ ui'.pc # "writing"
    BY <1>4, <2>1 DEF RefreshCfgTs, AddressesApart, Idle
  <2>3. \A k \in Links : cfg'[k] = IF k = l THEN c ELSE cfg[k]
    BY <1>0, <2>2
  <2> QED
    BY <1>0, <2>2, <2>3 DEF AddressesApart
<1>5. ASSUME NEW links, Run_Reconnect(links) PROVE AddressesApart'
  BY <1>5 DEF Run_Reconnect, AddressesApart
<1>6. CASE Run_Remove \/ PushDeleted
  <2>0. ui \in [pc : {"idle", "writing", "erased", "removed"}, link : MaybeLinks,
               cfg : MaybeLinks, run : MaybeLinks, draft : Configs \cup {NoConfig}]
    BY DEF IInv, TypeOK
  <2>1. ui'.pc # "writing" /\ UNCHANGED <<cfg, listed>>
    <3>1. CASE Run_Remove
      BY <2>0, <3>1 DEF Run_Remove
    <3>2. CASE PushDeleted
      BY <3>2 DEF PushDeleted, Idle
    <3> QED
      BY <1>6, <3>1, <3>2
  <2> QED
    BY <2>1 DEF AddressesApart
<1> QED
  BY <1>1, <1>2, <1>3, <1>4, <1>5, <1>6 DEF EditStep

(* A link that is not being deleted, and whose configuration has reached   *)
(* it.                                                                     *)
Settled(l) ==
    /\ l \in listed \cap runList
    /\ ~run[l].stale /\ ~run[l].reconnect /\ ~run[l].torn /\ ~BeingWritten(l)

OneLinkPerAddress ==
    \A k, l \in Links :
       Settled(k) /\ Settled(l) /\ IsOpen(run[k]) /\ run[k].conn = run[l].conn
       => k = l

(* CreateClient looks for an address and enters it in two critical         *)
(* sections, so two links may connect to it at once. But if the database   *)
(* has no address twice, this takes a deletion or a change of a            *)
(* configuration that is still on its way: no two settled links share an   *)
(* address.                                                                *)
THEOREM SettledLinksDiffer ==
    ASSUME \A k, l \in DOMAIN Stored : Stored[k].addr = Stored[l].addr => k = l
    PROVE  Spec => []OneLinkPerAddress
<1>1. Init => AddressesApart
  BY PoolAssumption DEF Init, AddressesApart, Idle
<1>2. IInv /\ AddressesApart /\ [Next]_vars => AddressesApart'
  <2> SUFFICES ASSUME IInv, AddressesApart, [Next]_vars PROVE AddressesApart'
    OBVIOUS
  <2>1. CASE EditStep
    BY <2>1, EditApart
  <2>2. CASE UNCHANGED <<cfg, listed, ui>>
    BY <2>2 DEF AddressesApart
  <2> QED
    BY <2>1, <2>2
       DEF Next, WorkerStep, Run_Proc_Get, Prepare, StartOpen, FinishOpen, Transfer,
           Run_Proc_Release, InfoStep, Run_Info_Get, Run_Info_Release, TimeStep,
           GrowUp, Silence, Rest, PeerDies, vars, uivars
<1>3. Following /\ AddressesApart => OneLinkPerAddress
  BY DEF Following, Follows, AddressesApart, OneLinkPerAddress, Settled, IsOpen
<1> QED
  BY <1>1, <1>2, <1>3, Invariance, AlwaysFollowing, PTL DEF Spec
=============================================================================
