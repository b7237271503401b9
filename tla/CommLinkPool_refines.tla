------------------------ MODULE CommLinkPool_refines ------------------------
(***************************************************************************)
(* The link manager implements the ownership of links (LinkOwnership), for *)
(* every number of links, workers and watchers: each step of CommLinkPool  *)
(* is a step of LinkOwnership or leaves owners, connections and retired    *)
(* links alone. The inductive invariant makes the owner of a locked link,  *)
(* which the mapping chooses, the one thread that holds it.                *)
(***************************************************************************)
EXTENDS CommLinkPool_proofs

Conns == [l \in Links |-> run[l].conn]

OwnerIsHolder ==
    \A l \in Links :
       /\ Owner[l] \in Workers \cup {NoOwner}
       /\ \A w \in Workers : Holds(w, l) <=> Owner[l] = w

LEMMA OwnerFacts == IInv => OwnerIsHolder
<1> SUFFICES ASSUME IInv, NEW l \in Links
             PROVE  /\ Owner[l] \in Workers \cup {NoOwner}
                    /\ \A w \in Workers : Holds(w, l) <=> Owner[l] = w
  BY DEF OwnerIsHolder
<1> DEFINE holder == CHOOSE w \in Workers : Holds(w, l)
<1>1. /\ run[l].procLock <=> \E w \in Workers : Holds(w, l)
      /\ \A v, w \in Workers : Holds(v, l) /\ Holds(w, l) => v = w
  BY DEF IInv, ExclusiveWork
<1>2. Owner[l] = IF run[l].procLock THEN holder ELSE NoOwner
  BY DEF Owner
<1>3. (\E w \in Workers : Holds(w, l)) => holder \in Workers /\ Holds(holder, l)
  OBVIOUS
<1> HIDE DEF holder
<1>4. NoOwner \notin Workers
  BY PoolAssumption
<1>5. CASE \E w \in Workers : Holds(w, l)
  BY <1>1, <1>2, <1>3, <1>5
<1>6. CASE ~ \E w \in Workers : Holds(w, l)
  BY <1>1, <1>2, <1>4, <1>6
<1> QED
  BY <1>5, <1>6

(* Threads that hold the same links before and after leave owners alone.   *)
LEMMA OwnerKept ==
    ASSUME OwnerIsHolder, OwnerIsHolder',
           \A w \in Workers, l \in Links : Holds(w, l)' <=> Holds(w, l)
    PROVE  Owner' = Owner
<1>1. ASSUME NEW l \in Links PROVE Owner'[l] = Owner[l]
  <2>1. /\ Owner[l] \in Workers \cup {NoOwner}
        /\ \A w \in Workers : Holds(w, l) <=> Owner[l] = w
    BY DEF OwnerIsHolder
  <2>2. /\ Owner'[l] \in Workers \cup {NoOwner}
        /\ \A w \in Workers : Holds(w, l)' <=> Owner'[l] = w
    BY DEF OwnerIsHolder
  <2> QED
    BY <2>1, <2>2
<1>2. Owner = [l \in Links |-> Owner[l]] /\ Owner' = [l \in Links |-> Owner'[l]]
  BY DEF Owner
<1> QED
  BY <1>1, <1>2

(* Steps that touch no connection and no owner are stuttering steps.       *)
LEMMA Stutter ==
    ASSUME OwnerIsHolder, OwnerIsHolder', UNCHANGED <<worker, freed>>,
           \A l \in Links : run'[l].conn = run[l].conn
    PROVE  UNCHANGED Ownership!absvars
<1>1. Owner' = Owner
  BY OwnerKept DEF Holds
<1>2. Conns' = Conns
  BY DEF Conns
<1> QED
  BY <1>1, <1>2 DEF Conns, Ownership!absvars

LEMMA GetRefines ==
    ASSUME IInv, OwnerIsHolder, OwnerIsHolder', NEW w \in Workers, Run_Proc_Get(w)
    PROVE  Ownership!Next
<1>1. UNCHANGED <<runList, ui>> /\ worker[w].pc = "get"
  BY DEF Run_Proc_Get, uivars
<1>2. PICK gone \in SUBSET Links : GetEffect(w, gone)
  BY GetFacts DEF IInv
<1>3. /\ CheckDeleteList(gone) /\ freed' = freed \cup gone
      /\ \A k \in Links :
            run'[k].conn = IF k \in gone THEN NoAddr ELSE run[k].conn
  BY <1>2 DEF GetEffect
<1>4. /\ \A v \in Workers, l \in gone : ~Holds(v, l)
      /\ gone \cap runList = {} /\ runList \cap freed = {}
  BY <1>1, <1>3, SweepFacts DEF IInv, Placed
<1>5. Ownership!Unowned(gone)
  BY <1>4 DEF OwnerIsHolder, Ownership!Unowned
<1>6. Conns' = Ownership!Closed(gone)
  BY <1>3 DEF Conns, Ownership!Closed
<1>7. CASE UNCHANGED worker
  <2>1. Owner' = Owner
    BY <1>7, OwnerKept DEF Holds
  <2>2. Ownership!Retire(gone)
    BY <1>3, <1>5, <1>6, <2>1 DEF Conns, Ownership!Retire
  <2> QED
    BY <2>2 DEF Ownership!Next
<1>8. ASSUME NEW l \in runList, ~run[l].procLock,
             worker' = [worker EXCEPT ![w] = [pc |-> "held", link |-> l]]
      PROVE  Ownership!Next
  <2>1. /\ l \in Links
        /\ worker'[w].pc = "held" /\ worker'[w].link = l
        /\ \A v \in Workers : v # w => worker'[v] = worker[v]
    BY <1>8 DEF IInv, TypeOK
  <2>2. /\ \A v \in Workers : ~Holds(v, l)
        /\ \A k \in Links : ~Holds(w, k)
    BY <1>1, <1>8, <2>1 DEF IInv, ExclusiveWork, Holds
  <2>3. Owner[l] = NoOwner /\ \A k \in Links : Owner[k] # w
    BY <2>1, <2>2 DEF OwnerIsHolder
  <2>4. \A v \in Workers, k \in Links :
           Holds(v, k)' <=> IF v = w THEN k = l ELSE Holds(v, k)
    BY <2>1 DEF Holds
  <2>5. ASSUME NEW k \in Links
        PROVE  Owner'[k] = IF k = l THEN w ELSE Owner[k]
    <3>1. /\ Owner'[k] \in Workers \cup {NoOwner}
          /\ \A v \in Workers : Holds(v, k)' <=> Owner'[k] = v
      BY DEF OwnerIsHolder
    <3>2. /\ Owner[k] \in Workers \cup {NoOwner}
          /\ \A v \in Workers : Holds(v, k) <=> Owner[k] = v
      BY DEF OwnerIsHolder
    <3>3. CASE k = l
      BY <2>4, <3>1, <3>3
    <3>4. CASE k # l
      <4>1. \A v \in Workers : Holds(v, k)' <=> Holds(v, k)
        BY <2>2, <2>4, <3>4
      <4> QED
        BY <3>1, <3>2, <3>4, <4>1
    <3> QED
      BY <3>3, <3>4
  <2>6. Owner' = [Owner EXCEPT ![l] = w]
    <3>1. /\ Owner' = [k \in Links |-> Owner'[k]]
          /\ Owner = [k \in Links |-> Owner[k]]
      BY DEF Owner
    <3> QED
      BY <2>5, <3>1
  <2>7. Ownership!Acquire(w, l, gone)
    BY <1>3, <1>4, <1>5, <1>6, <1>8, <2>3, <2>6 DEF Conns, Ownership!Acquire
  <2> QED
    BY <2>1, <2>7 DEF Ownership!Next
<1> QED
  BY <1>2, <1>7, <1>8 DEF GetEffect

LEMMA CloseIsStep ==
    ASSUME NEW l \in Links, Ownership!Close(l) PROVE Ownership!Next
  BY DEF Ownership!Next

LEMMA OpenIsStep ==
    ASSUME NEW l \in Links, NEW a \in Addrs, Ownership!Open(l, a)
    PROVE  Ownership!Next
  BY DEF Ownership!Next

(* The steps of a worker that goes on with the link it holds.              *)
LEMMA WorkRefines ==
    ASSUME IInv, OwnerIsHolder, OwnerIsHolder', NEW w \in Workers,
           NEW l \in Links, l = worker[w].link,
           Prepare(w) \/ StartOpen(w) \/ FinishOpen(w) \/ Transfer(w)
    PROVE  Ownership!Next \/ UNCHANGED Ownership!absvars
<1>1. /\ run \in [Links -> RunObjects]
      /\ worker \in [Workers -> [pc : {"get", "held", "opening", "connecting", "data", "release"},
                                 link : MaybeLinks]]
      /\ worker[w].pc # "get"
  BY DEF IInv, TypeOK, Prepare, StartOpen, FinishOpen, Transfer
<1>2. PICK pc \in {"held", "opening", "connecting", "data", "release"} :
         worker' = [worker EXCEPT ![w].pc = pc]
  BY DEF Prepare, CloseDisabled, StartConnect, GoOn, StartOpen, FinishOpen,
         Transfer, Goto
<1>3. freed' = freed
  BY DEF Prepare, StartOpen, FinishOpen, Transfer, poolvars
<1>4. Owner' = Owner
  <2>1. \A v \in Workers, k \in Links : Holds(v, k)' <=> Holds(v, k)
    BY <1>1, <1>2 DEF Holds
  <2> QED
    BY <2>1, OwnerKept
<1>5. Owner[l] = w
  BY <1>1 DEF OwnerIsHolder, Holds
<1>6. ASSUME \A k \in Links : run'[k].conn = run[k].conn
      PROVE  UNCHANGED Ownership!absvars
  <2>1. Conns' = Conns
    BY <1>6 DEF Conns
  <2> QED
    BY <1>3, <1>4, <2>1 DEF Conns, Ownership!absvars
<1>7. ASSUME NEW q, q.conn = NoAddr, run' = [run EXCEPT ![l] = q]
      PROVE  Ownership!Next
  <2>1. Conns' = [Conns EXCEPT ![l] = NoAddr]
    BY <1>1, <1>7 DEF Conns
  <2>2. Ownership!Close(l)
    BY <1>3, <1>4, <1>5, <2>1 DEF Conns, Ownership!Close
  <2> QED
    BY <1>1, <2>2, CloseIsStep
<1>8. Close(run[l]).conn = NoAddr /\ Reopening(run[l]).conn = NoAddr
  BY <1>1, CloseFacts, ReopeningFacts
<1>9. CASE Prepare(w)
  BY <1>6, <1>7, <1>8, <1>9 DEF Prepare, CloseDisabled, StartConnect, GoOn
<1>10. CASE StartOpen(w)
  BY <1>6, <1>10 DEF StartOpen
<1>11. CASE FinishOpen(w)
  <2>1. CASE UNCHANGED run
    BY <1>6, <2>1
  <2>2. CASE run' = [run EXCEPT ![l].conn = run[l].addr, ![l].reconnect = FALSE]
    <3>1. w \in Connectors /\ run[l].conn = NoAddr /\ run[l].addr \in Addrs
      BY <1>11, ConnectingFacts DEF FinishOpen
    <3> PICK a \in Addrs : a = run[l].addr
      BY <3>1
    <3> DEFINE q == [run[l] EXCEPT !.conn = a, !.reconnect = FALSE]
    <3>2. run' = [run EXCEPT ![l] = q]
      BY <2>2
    <3>3. q.conn = a
      BY <1>1 DEF RunObjects
    <3> HIDE DEF q
    <3>4. Conns' = [Conns EXCEPT ![l] = a]
      BY <1>1, <3>2, <3>3 DEF Conns
    <3>5. Conns[l] = NoAddr
      BY <1>1, <3>1 DEF Conns
    <3>6. Ownership!Open(l, a)
      BY <1>3, <1>4, <1>5, <3>1, <3>4, <3>5 DEF Conns, Ownership!Open
    <3> QED
      BY <1>1, <3>1, <3>6, OpenIsStep
  <2> QED
    BY <1>11, <2>1, <2>2 DEF FinishOpen
<1>12. CASE Transfer(w)
  <2>1. CASE UNCHANGED run
    BY <1>6, <2>1
  <2>2. CASE run' = [run EXCEPT ![l].silent = FALSE]
    <3>1. [run[l] EXCEPT !.silent = FALSE].conn = run[l].conn
      BY <1>1 DEF RunObjects
    <3>2. \A k \in Links : run'[k].conn = run[k].conn
      BY <1>1, <2>2, <3>1
    <3> QED
      BY <1>6, <3>2
  <2>3. CASE run' = [run EXCEPT ![l] = Close(@)]
    BY <1>7, <1>8, <2>3
  <2> QED
    BY <1>12, <2>1, <2>2, <2>3 DEF Transfer
<1> QED
  BY <1>9, <1>10, <1>11, <1>12

LEMMA ReleaseRefines ==
    ASSUME IInv, OwnerIsHolder, OwnerIsHolder', NEW w \in Workers, Run_Proc_Release(w)
    PROVE  Ownership!Next
<1> DEFINE l == worker[w].link
<1>1. /\ run \in [Links -> RunObjects]
      /\ worker \in [Workers -> [pc : {"get", "held", "opening", "connecting", "data", "release"},
                                 link : MaybeLinks]]
      /\ l \in Links /\ Holds(w, l)
      /\ freed' = freed
  BY DEF IInv, TypeOK, HeldLinks, Run_Proc_Release, Holds, poolvars
<1>2. /\ run' = [run EXCEPT ![l].procLock = FALSE]
      /\ worker'[w].pc = "get" /\ \A v \in Workers : v # w => worker'[v] = worker[v]
  BY <1>1 DEF Run_Proc_Release
<1>3. Conns' = Conns
  <2>1. [run[l] EXCEPT !.procLock = FALSE].conn = run[l].conn
    BY <1>1 DEF RunObjects
  <2>2. \A k \in Links : run'[k].conn = run[k].conn
    BY <1>1, <1>2, <2>1
  <2> QED
    BY <2>2 DEF Conns
<1>4. ASSUME NEW k \in Links
      PROVE  Owner'[k] = IF k = l THEN NoOwner ELSE Owner[k]
  <2>1. /\ Owner'[k] \in Workers \cup {NoOwner}
        /\ \A v \in Workers : Holds(v, k)' <=> Owner'[k] = v
    BY DEF OwnerIsHolder
  <2>2. /\ Owner[k] \in Workers \cup {NoOwner}
        /\ \A v \in Workers : Holds(v, k) <=> Owner[k] = v
    BY DEF OwnerIsHolder
  <2>3. \A v \in Workers : Holds(v, k)' <=> (v # w /\ Holds(v, k))
    BY <1>2 DEF Holds
  <2>4. CASE k = l
    BY <1>1, <2>1, <2>2, <2>3, <2>4
  <2>5. CASE k # l
    <3>1. ~Holds(w, k)
      BY <2>5 DEF Holds
    <3>2. \A v \in Workers : Holds(v, k)' <=> Holds(v, k)
      BY <2>3, <3>1
    <3> QED
      BY <2>1, <2>2, <2>5, <3>2
  <2> QED
    BY <2>4, <2>5
<1>5. Owner' = [Owner EXCEPT ![l] = NoOwner]
  <2>1. /\ Owner' = [k \in Links |-> Owner'[k]]
        /\ Owner = [k \in Links |-> Owner[k]]
    BY DEF Owner
  <2> QED
    BY <1>4, <2>1
<1>6. Ownership!Release(l)
  BY <1>1, <1>3, <1>5 DEF Conns, Ownership!Release
<1> QED
  BY <1>1, <1>6 DEF Ownership!Next

(* Nothing but the workers' steps changes who owns a link, or connections. *)
LEMMA OthersRefine ==
    ASSUME IInv, OwnerIsHolder, OwnerIsHolder', InfoStep \/ EditStep \/ TimeStep
    PROVE  UNCHANGED Ownership!absvars
<1>1. UNCHANGED <<worker, freed>>
  BY DEF InfoStep, Run_Info_Get, Run_Info_Release, EditStep, Cfg_Add, Cfg_Modify,
         RefreshCfgTs, Run_Reconnect, Cfg_Delete, Run_Remove, PushDeleted,
         TimeStep, GrowUp, Silence, Rest, PeerDies, poolvars
<1>2. run \in [Links -> RunObjects]
  BY DEF IInv, TypeOK
<1>3. \A k \in Links, b \in BOOLEAN :
         /\ [run[k] EXCEPT !.infoLock = b].conn = run[k].conn
         /\ [run[k] EXCEPT !.silent = b].conn = run[k].conn
         /\ [run[k] EXCEPT !.rested = b].conn = run[k].conn
         /\ [run[k] EXCEPT !.dead = b].conn = run[k].conn
         /\ [run[k] EXCEPT !.stale = b].conn = run[k].conn
         /\ [run[k] EXCEPT !.reconnect = b].conn = run[k].conn
  BY <1>2 DEF RunObjects
<1>4. ASSUME InfoStep PROVE \A k \in Links : run'[k].conn = run[k].conn
  <2>1. PICK u \in Watchers :
           (\E l \in Links : Run_Info_Get(u, l)) \/ Run_Info_Release(u)
    BY <1>4 DEF InfoStep
  <2>2. CASE Run_Info_Release(u)
    <3>1. run' = [run EXCEPT ![watcher[u]] = [@ EXCEPT !.infoLock = FALSE]]
      BY <2>2 DEF Run_Info_Release
    <3> QED
      BY <1>2, <1>3, <3>1
  <2>3. ASSUME NEW l \in Links, Run_Info_Get(u, l)
        PROVE  \A k \in Links : run'[k].conn = run[k].conn
    <3>1. run' = [run EXCEPT ![l] = [@ EXCEPT !.infoLock = TRUE]]
      BY <2>3 DEF Run_Info_Get
    <3> QED
      BY <1>2, <1>3, <3>1
  <2> QED
    BY <2>1, <2>2, <2>3
<1>5. ASSUME TimeStep PROVE \A k \in Links : run'[k].conn = run[k].conn
  BY <1>2, <1>3, <1>5 DEF TimeStep, GrowUp, Silence, Rest, PeerDies
<1>6. ASSUME EditStep PROVE \A k \in Links : run'[k].conn = run[k].conn
  <2>1. ASSUME NEW l \in Links, NEW c \in Configs, Cfg_Add(l, c)
        PROVE  \A k \in Links : run'[k].conn = run[k].conn
    <3>1. NewRun(c).conn = NoAddr
      BY NewRunFacts
    <3>2. run[l].conn = NoAddr /\ run' = [run EXCEPT ![l] = NewRun(c)]
      BY <2>1 DEF Cfg_Add, IInv, Configured, IsOpen
    <3> QED
      BY <1>2, <3>1, <3>2
  <2>2. ASSUME NEW links, Run_Reconnect(links)
        PROVE  \A k \in Links : run'[k].conn = run[k].conn
    BY <1>2, <1>3, <2>2 DEF Run_Reconnect
  <2>3. CASE RefreshCfgTs
    <3>1. run' = [run EXCEPT ![ui.link] = [@ EXCEPT !.stale = TRUE]]
      BY <2>3 DEF RefreshCfgTs
    <3> QED
      BY <1>2, <1>3, <3>1
  <2>4. CASE UNCHANGED run
    BY <2>4
  <2> QED
    BY <1>6, <2>1, <2>2, <2>3, <2>4 DEF EditStep, Cfg_Modify, Cfg_Delete, Run_Remove,
       PushDeleted
<1> QED
  BY <1>1, <1>4, <1>5, <1>6, Stutter

LEMMA InitRefines == Init => Ownership!Init
<1> SUFFICES ASSUME Init PROVE Ownership!Init
  OBVIOUS
<1>1. \A c \in Configs \cup {NoConfig} : NewRun(c).conn = NoAddr
                                         /\ NewRun(c).procLock = FALSE
  BY NewRunFacts
<1>2. \A l \in Links : run[l].conn = NoAddr /\ run[l].procLock = FALSE
  BY <1>1, PoolAssumption DEF Init
<1>3. Owner = [l \in Links |-> NoOwner] /\ Conns = [l \in Links |-> NoAddr]
  BY <1>2 DEF Owner, Conns
<1> QED
  BY <1>3 DEF Init, Conns, Ownership!Init

(* The link manager implements LinkOwnership: a link has one owner at a    *)
(* time, a retired link never has one again, and connections are opened    *)
(* and closed only by their owner or by the retirement of the link.        *)
THEOREM PoolImplementsOwnership == Spec => ImplementsOwnership
<1>1. Init => Ownership!Init
  BY InitRefines
<1>2. /\ IInv /\ OwnerIsHolder /\ OwnerIsHolder'
      /\ [Next]_vars
      => [Ownership!Next]_(Ownership!absvars)
  <2> SUFFICES ASSUME IInv, OwnerIsHolder, OwnerIsHolder', [Next]_vars
               PROVE  Ownership!Next \/ UNCHANGED Ownership!absvars
    OBVIOUS
  <2>1. CASE \E w \in Workers : WorkerStep(w)
    <3> PICK w \in Workers : WorkerStep(w)
      BY <2>1
    <3>1. CASE Run_Proc_Get(w) \/ Run_Proc_Release(w)
      BY <3>1, GetRefines, ReleaseRefines
    <3>2. CASE Prepare(w) \/ StartOpen(w) \/ FinishOpen(w) \/ Transfer(w)
      <4>1. worker[w].link \in Links
        BY <3>2 DEF IInv, HeldLinks, Prepare, StartOpen, FinishOpen, Transfer
      <4> QED
        BY <3>2, <4>1, WorkRefines
    <3> QED
      BY <3>1, <3>2 DEF WorkerStep
  <2>2. CASE InfoStep \/ EditStep \/ TimeStep
    BY <2>2, OthersRefine
  <2>3. CASE UNCHANGED vars
    BY <2>3, Stutter DEF vars, poolvars
  <2> QED
    BY <2>1, <2>2, <2>3 DEF Next
<1> QED
  BY <1>1, <1>2, OwnerFacts, Invariance, PTL DEF Spec, ImplementsOwnership, Ownership!Spec
=============================================================================
